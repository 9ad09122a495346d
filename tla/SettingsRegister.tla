-------------------------- MODULE SettingsRegister --------------------------
(***************************************************************************)
(* What the settings log promises: one register that is saved and read     *)
(* back at boot.  A safe save is atomic, with one instant at which the     *)
(* register changes; only a save that follows a complete one can be safe.  *)
(* A save that erases the sector, that is the first one of all, or that    *)
(* follows an interrupted save is not: while it runs, a power failure may  *)
(* leave the register with any content.  Every save that ends leaves       *)
(* exactly its own value.                                                  *)
(***************************************************************************)

CONSTANTS Values, None, Mixed

VARIABLES
  value,  (* what a boot would read now                   *)
  saving, (* a save is in progress                        *)
  goal,   (* the value of the last save that was begun    *)
  clean,  (* the last save that was begun has ended       *)
  safe    (* a power failure now leaves the old or the new *)

vars == <<value, saving, goal, clean, safe>>

Contents == Values \cup {None, Mixed}

Init ==
  /\ value = None /\ goal = None
  /\ saving = FALSE /\ clean = TRUE /\ safe = FALSE

Begin ==
  /\ ~saving
  /\ saving' /\ ~clean'
  /\ goal' \in Values
  /\ safe' \in BOOLEAN
  /\ safe' => clean /\ value # None
  /\ UNCHANGED value

(* The instant at which an atomic save takes effect. *)
Switch ==
  /\ saving
  /\ value' = goal
  /\ saving' \in BOOLEAN
  /\ UNCHANGED <<goal, clean, safe>>

(* The sector is about to be erased. *)
Expose ==
  /\ saving
  /\ ~safe'
  /\ UNCHANGED <<value, saving, goal, clean>>

(* An unsafe save at work, or a power failure during one. *)
Scramble ==
  /\ saving /\ ~safe
  /\ value' \in Contents
  /\ saving' \in BOOLEAN
  /\ UNCHANGED <<goal, clean, safe>>

End ==
  /\ saving
  /\ value' = goal
  /\ ~saving' /\ clean'
  /\ UNCHANGED <<goal, safe>>

Interrupt ==
  /\ saving
  /\ ~saving'
  /\ UNCHANGED <<value, goal, clean, safe>>

Next == Begin \/ Switch \/ Expose \/ Scramble \/ End \/ Interrupt

Spec == Init /\ [][Next]_vars
=============================================================================
