------------------------------ MODULE KeyMatrix ------------------------------
(***************************************************************************)
(* From the switches to key events: matrix_task of quantum/keyboard.c with *)
(* its ghost filter, on top of the debouncer.                              *)
(*                                                                         *)
(* Three closed switches in the corners of a rectangle close the way that  *)
(* the fourth would, so that the fourth is read as closed: a phantom.  The *)
(* filter ignores a row for as long as it shares two columns with another. *)
(* But it looks at the debounced matrix, where a deaf corner still is what *)
(* it was, and at the keymap that was compiled in.                         *)
(***************************************************************************)
EXTENDS Debounce, FiniteSets

CONSTANTS
    Rows, Cols,
    RealKeys,   \* the keys with a keycode in the keymap that was compiled in
    MaxChanges  \* bound: how many switches change between two scans

ASSUME MatrixAssumption == Keys = Rows \X Cols /\ RealKeys \subseteq Keys /\ MaxChanges \in Nat

VARIABLES
    pressed,            \* the switches that are closed
    matrix_previous     \* the keys whose press was the last event made of them

matrixVars == <<vars, pressed, matrix_previous>>

MatrixTypeOK == TypeOK /\ pressed \in SUBSET Keys /\ matrix_previous \in SUBSET Keys

MatrixInit == Init /\ pressed = {} /\ matrix_previous = {}

-----------------------------------------------------------------------------
(* Current finds its way from row to column over three closed corners.     *)
Complete(closed) ==
    \A r1, r2 \in Rows : \A c1, c2 \in Cols :
        {<<r1, c2>>, <<r2, c2>>, <<r2, c1>>} \subseteq closed => <<r1, c1>> \in closed

(* What the scan reads: the least set of keys with all that it connects.   *)
Read == [closed \in SUBSET Keys |->
    {k \in Keys : \A S \in SUBSET Keys : closed \subseteq S /\ Complete(S) => k \in S}]

(* get_real_keys                                                           *)
RealIn(row, matrix) == {c \in Cols : <<row, c>> \in matrix \cap RealKeys}

\* A slip to compare with: more than two columns are asked for.
GhostsOfThree(matrix) ==
    {row \in Rows : \E other \in Rows \ {row} :
        Cardinality(RealIn(row, matrix) \cap RealIn(other, matrix)) > 2}

\* A slip to compare with: one column in common is enough.
GhostsOfOne(matrix) ==
    {row \in Rows : \E other \in Rows \ {row} :
        RealIn(row, matrix) \cap RealIn(other, matrix) # {}}

(* has_ghost_in_row: the rows of which another has two of the columns.     *)
Ghosts(matrix) ==
    {row \in Rows : \E other \in Rows \ {row} :
        \E c1, c2 \in RealIn(row, matrix) \cap RealIn(other, matrix) : c1 # c2}

(* matrix_task: each row that changed makes its events, unless there is a  *)
(* ghost in it.                                                            *)
Reports == matrix_previous' =
    (matrix_previous \cap (Ghosts(cooked') \X Cols)) \cup (cooked' \ (Ghosts(cooked') \X Cols))

(* A pass of the main loop, d after the last one, with "closed" switches.  *)
MatrixTask(closed, d) == Scan(Read[closed], d) /\ pressed' = closed /\ Reports

Bounced(closed) == (closed \ pressed) \cup (pressed \ closed)

MatrixNext ==
    \E closed \in {c \in SUBSET Keys : Cardinality(Bounced(c)) <= MaxChanges}, d \in 0 .. MaxGap :
        MatrixTask(closed, d)

MatrixSpec == MatrixInit /\ [][MatrixNext]_matrixVars

(* The main loop goes on and time passes.                                  *)
Passes == \E d \in 1 .. MaxGap : timer' = (timer + d) % Width

FairMatrixSpec == MatrixSpec /\ WF_timer(Passes)

-----------------------------------------------------------------------------
(* The keys at the corners of a rectangle with k.                          *)
Corners(k, r, c) == {k, <<k[1], c>>, <<r, c>>, <<r, k[2]>>}

(* A press is made of a key that is not pressed only if the key is deaf    *)
(* and has just been let go, or if one corner of the rectangle that feigns *)
(* it is deaf and still counts as up, or has no keycode in the keymap that *)
(* was compiled in.                                                        *)
PhantomOnlyIfDeaf ==
    [][\A k \in matrix_previous' \ matrix_previous : k \notin pressed' =>
          \/ k \notin raw' /\ counters'[k] # 0
          \/ \E r \in Rows \ {k[1]}, c \in Cols \ {k[2]} :
                /\ Corners(k, r, c) \subseteq raw'
                /\ \E corner \in Corners(k, r, c) :
                      (corner \notin cooked' /\ counters'[corner] # 0) \/ corner \notin RealKeys
      ]_matrixVars

(* When the switches come to rest, what was reported agrees with what is   *)
(* read in every row but those with a rectangle in them.                   *)
Reported ==
    <>[][pressed' = pressed]_matrixVars =>
        <>[](\A k \in Keys :
                \/ \E r \in Rows \ {k[1]} : \E c1, c2 \in Cols :
                      c1 # c2 /\ {k[1], r} \X {c1, c2} \subseteq Read[pressed]
                \/ (k \in matrix_previous) = (k \in Read[pressed]))
=============================================================================
