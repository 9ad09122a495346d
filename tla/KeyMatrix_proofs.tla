--------------------------- MODULE KeyMatrix_proofs --------------------------
(***************************************************************************)
(* The debouncer for any keys, any DEBOUNCE that fits a byte and any timer *)
(* that does not go once around between two scans; and the matrix task for *)
(* any rows and columns, any keymap and any timing: it uses the debouncer  *)
(* as it is specified, and a phantom gets past the ghost filter only while *)
(* a corner of its rectangle is deaf or blank.                             *)
(***************************************************************************)
EXTENDS KeyMatrix, TLAPS

-----------------------------------------------------------------------------
(* The debouncer.                                                          *)

(* The inductive invariant: a counter is what is left of a key's deafness, *)
(* and while there is something left the counters are counted, from now.   *)
Paired == \A k \in Keys : counters[k] = DEBOUNCE - quiet[k]
Ticking == (\E k \in Keys : counters[k] # 0) => counters_need_update
Fresh == counters_need_update => last_time = timer

IInv == TypeOK /\ Paired /\ Ticking /\ Fresh /\ NoneForgotten

\* What is left of a counter after d milliseconds.
Left(k, d) == IF counters[k] <= d THEN 0 ELSE counters[k] - d

\* The keys that a scan takes: those that changed and are not deaf.
Free(closed, d) == {k \in Keys : (k \in closed) # (k \in cooked) /\ Left(k, d) = 0}

-----------------------------------------------------------------------------
LEMMA Sizes ==
    /\ ByteMax \in Nat /\ DEBOUNCE \in Nat /\ 0 < DEBOUNCE /\ DEBOUNCE <= ByteMax
    /\ Width \in Nat /\ MaxGap \in Nat /\ MaxGap < Width
BY DebounceAssumption

(* The difference of two readings of a timer that wraps.                   *)
LEMMA TimerDifference ==
    ASSUME NEW w \in Nat, NEW t \in 0 .. w - 1, NEW d \in 0 .. w - 1
    PROVE  (t + d) % w \in 0 .. w - 1 /\ (((t + d) % w) - t) % w = d
<1>1. CASE t + d < w
    <2>1. (t + d) % w = t + d
        BY <1>1
    <2>2. (t + d) - t = d /\ (d % w) = d
        OBVIOUS
    <2> QED BY <1>1, <2>1, <2>2
<1>2. CASE t + d >= w
    <2>1. (t + d) % w = t + d - w
        <3>1. t + d - w \in 0 .. w - 1 /\ t + d = w * 1 + (t + d - w)
            BY <1>2
        <3> QED BY <3>1
    <2>2. (t + d - w) - t = d - w
        OBVIOUS
    <2>3. (d - w) % w = d
        <3>1. d - w = w * (0 - 1) + d
            OBVIOUS
        <3> QED BY <3>1
    <2> QED BY <1>2, <2>1, <2>2, <2>3
<1> QED BY <1>1, <1>2

(* The counters after the count of a scan, whether it counts or not.       *)
LEMMA CountIsLeft ==
    ASSUME IInv, NEW d \in 0 .. MaxGap, NEW k \in Keys
    PROVE  LET now      == (timer + d) % Width
               counting == counters_need_update /\ Elapsed(now) > 0
           IN  /\ (IF counting THEN Counted(counters[k], Elapsed(now)) ELSE counters[k]) = Left(k, d)
               /\ ~counting /\ counters_need_update => d = 0
<1> DEFINE now  == (timer + d) % Width
           diff == (now - last_time) % Width
<1>1. counters[k] \in 0 .. DEBOUNCE /\ timer \in 0 .. Width - 1 /\ d \in 0 .. Width - 1
    BY Sizes DEF IInv, TypeOK
<1>2. counters[k] \in Nat /\ counters[k] <= ByteMax
    BY <1>1, Sizes
<1>3. CASE counters_need_update
    <2>1. diff = d
        <3>1. last_time = timer
            BY <1>3 DEF IInv, Fresh
        <3> QED BY <1>1, <3>1, Sizes, TimerDifference
    <2>2. Elapsed(now) = (IF d > ByteMax THEN ByteMax ELSE d)
        BY <2>1 DEF Elapsed
    <2>3. Elapsed(now) \in Nat /\ (Elapsed(now) > 0 <=> d > 0)
        <3>1. ByteMax > 0
            BY Sizes
        <3> QED BY <1>1, <2>2, <3>1, Sizes
    <2>4. Counted(counters[k], Elapsed(now)) = Left(k, d)
        <3> HIDE DEF now
        <3>1. Counted(counters[k], Elapsed(now)) =
                 IF counters[k] <= Elapsed(now) THEN 0 ELSE counters[k] - Elapsed(now)
            BY DEF Counted
        <3> QED BY <1>1, <1>2, <2>2, <3>1, Sizes DEF Left
    <2>5. d = 0 => Left(k, d) = counters[k]
        BY <1>2 DEF Left
    <2>6. ~(Elapsed(now) > 0) => d = 0
        BY <1>1, <2>3
    <2>7. CASE Elapsed(now) > 0
        BY <1>3, <2>4, <2>7
    <2>8. CASE ~(Elapsed(now) > 0)
        BY <1>3, <2>5, <2>6, <2>8
    <2> QED BY <2>7, <2>8
<1>4. CASE ~counters_need_update
    <2>1. counters[k] = 0
        BY <1>4 DEF IInv, Ticking
    <2> QED BY <1>1, <1>4, <2>1 DEF Left
<1> QED BY <1>3, <1>4

(* What a scan does, in terms of the time that has passed.                 *)
LEMMA ScanDoes ==
    ASSUME IInv, NEW closed \in SUBSET Keys, NEW d \in 0 .. MaxGap, Scan(closed, d)
    PROVE  LET T == Free(closed, d) IN
           /\ Gap = d /\ raw' = closed /\ timer' \in 0 .. Width - 1
           /\ cooked' = (cooked \ T) \cup (T \ cooked)
           /\ counters' = [k \in Keys |-> IF k \in T THEN DEBOUNCE ELSE Left(k, d)]
           /\ quiet' = [k \in Keys |-> IF k \in T THEN 0
                                       ELSE IF quiet[k] + d > DEBOUNCE THEN DEBOUNCE
                                       ELSE quiet[k] + d]
           /\ (\E k \in Keys : counters'[k] # 0) => counters_need_update'
           /\ counters_need_update' => last_time' = timer'
           /\ last_time' \in {last_time, timer'}
           /\ counters_need_update' \in BOOLEAN /\ matrix_need_update' \in BOOLEAN
<1> DEFINE now      == (timer + d) % Width
           elapsed  == Elapsed(now)
           counting == counters_need_update /\ elapsed > 0
           count    == IF counting THEN [k \in Keys |-> Counted(counters[k], elapsed)]
                                   ELSE counters
           matrix   == IF counting THEN Ended(count) ELSE matrix_need_update
           going    == IF counting THEN \E k \in Keys : count[k] # 0 ELSE counters_need_update
           transfer == closed # raw \/ matrix
           taken    == IF transfer THEN Taken(closed, count) ELSE {}
           T        == Free(closed, d)
<1>1. /\ timer' = now /\ raw' = closed
      /\ last_time' = TimeAfter(now, transfer)
      /\ counters' = [k \in Keys |-> IF k \in taken THEN DEBOUNCE ELSE count[k]]
      /\ cooked' = (cooked \ taken) \cup (taken \ cooked)
      /\ matrix_need_update' = matrix
      /\ counters_need_update' = (going \/ taken # {})
      /\ quiet' = [k \in Keys |-> IF k \in taken THEN 0
                                  ELSE IF quiet[k] + d > DEBOUNCE THEN DEBOUNCE
                                  ELSE quiet[k] + d]
    <2>1. PICK c \in {count} :
              \E t \in {IF closed # raw \/ (IF counting THEN Ended(c) ELSE matrix_need_update)
                        THEN Taken(closed, c) ELSE {}} :
                 /\ timer' = now /\ raw' = closed
                 /\ last_time' = TimeAfter(now, closed # raw \/ (IF counting THEN Ended(c)
                                                                ELSE matrix_need_update))
                 /\ counters' = [k \in Keys |-> IF k \in t THEN DEBOUNCE ELSE c[k]]
                 /\ cooked' = (cooked \ t) \cup (t \ cooked)
                 /\ matrix_need_update' = (IF counting THEN Ended(c) ELSE matrix_need_update)
                 /\ counters_need_update' = ((IF counting THEN \E k \in Keys : c[k] # 0
                                                          ELSE counters_need_update) \/ t # {})
                 /\ quiet' = [k \in Keys |-> IF k \in t THEN 0
                                             ELSE IF quiet[k] + d > DEBOUNCE THEN DEBOUNCE
                                             ELSE quiet[k] + d]
        BY Zenon DEF Scan
    <2>2. c = count
        OBVIOUS
    <2> HIDE DEF count, now, counting
    <2>3. PICK t \in {IF transfer THEN Taken(closed, c) ELSE {}} :
                 /\ timer' = now /\ raw' = closed
                 /\ last_time' = TimeAfter(now, transfer)
                 /\ counters' = [k \in Keys |-> IF k \in t THEN DEBOUNCE ELSE c[k]]
                 /\ cooked' = (cooked \ t) \cup (t \ cooked)
                 /\ matrix_need_update' = matrix
                 /\ counters_need_update' = (going \/ t # {})
                 /\ quiet' = [k \in Keys |-> IF k \in t THEN 0
                                             ELSE IF quiet[k] + d > DEBOUNCE THEN DEBOUNCE
                                             ELSE quiet[k] + d]
        BY <2>1, <2>2
    <2>4. t = taken
        BY <2>2
    <2> HIDE DEF transfer, going, matrix, taken
    <2> QED BY <2>2, <2>3, <2>4
<1>2. TypeOK /\ NoneForgotten /\ Ticking /\ Fresh
    BY DEF IInv
<1>3. timer \in 0 .. Width - 1 /\ d \in 0 .. Width - 1 /\ Width \in Nat
    BY <1>2, Sizes DEF TypeOK
<1>4. timer' \in 0 .. Width - 1 /\ Gap = d
    BY <1>1, <1>3, TimerDifference DEF Gap
<1>5. ASSUME NEW k \in Keys PROVE count[k] = Left(k, d)
    <2>1. (IF counting THEN Counted(counters[k], elapsed) ELSE counters[k]) = Left(k, d)
        BY CountIsLeft
    <2> HIDE DEF elapsed
    <2> QED BY <2>1
<1>6. counters_need_update /\ ~counting => d = 0
    <2>1. CASE Keys = {}
        <3>1. counters_need_update => last_time = timer
            BY <1>2 DEF Fresh
        <3>2. CASE counters_need_update /\ d # 0
            <4>1. (now - last_time) % Width = d
                <5>1. (((timer + d) % Width) - timer) % Width = d
                    BY <1>3, TimerDifference
                <5> QED BY <3>1, <3>2, <5>1
            <4>2. elapsed > 0
                BY <1>3, <3>2, <4>1, Sizes DEF Elapsed
            <4> QED BY <3>2, <4>2
        <3> QED BY <3>2
    <2>2. CASE Keys # {}
        <3>1. PICK k \in Keys : TRUE
            BY <2>2
        <3> QED BY <3>1, CountIsLeft
    <2> QED BY <2>1, <2>2
<1> HIDE DEF now, elapsed, count, counting
<1>7. taken = T
    <2>1. taken \subseteq T
        BY <1>5 DEF Taken, Free
    <2>2. ASSUME NEW k \in T PROVE k \in taken
        <3>1. k \in Keys /\ (k \in closed) # (k \in cooked) /\ count[k] = 0
            BY <1>5 DEF Free
        <3>2. CASE closed # raw
            BY <3>1, <3>2 DEF Taken
        <3>3. CASE closed = raw
            <4>1. counters[k] # 0 /\ counters_need_update
                BY <1>2, <3>1, <3>3 DEF NoneForgotten
            <4>2. d # 0
                <5>1. counters[k] \in Nat
                    BY <1>2, <3>1, Sizes DEF TypeOK
                <5> QED BY <1>5, <3>1, <4>1, <5>1 DEF Left
            <4>3. counting
                BY <1>6, <4>1, <4>2
            <4>4. Ended(count)
                BY <3>1, <4>1 DEF Ended
            <4> QED BY <3>1, <4>3, <4>4 DEF Taken
        <3> QED BY <3>2, <3>3
    <2> QED BY <2>1, <2>2
<1>8. counters' = [k \in Keys |-> IF k \in T THEN DEBOUNCE ELSE Left(k, d)]
    BY <1>1, <1>5, <1>7
<1>9. ASSUME NEW k \in Keys, counters'[k] # 0 PROVE counters_need_update'
    <2>1. CASE k \in taken
        BY <1>1, <2>1
    <2>2. CASE k \notin taken
        <3>1. count[k] # 0
            BY <1>1, <1>9, <2>2
        <3>2. CASE counting
            BY <1>1, <3>1, <3>2
        <3>3. CASE ~counting
            BY <1>1, <1>2, <3>1, <3>3 DEF Ticking, count
        <3> QED BY <3>2, <3>3
    <2> QED BY <2>1, <2>2
<1>10. counters_need_update' => last_time' = timer'
    <2>1. CASE counters_need_update \/ transfer
        BY <1>1, <2>1 DEF TimeAfter
    <2>2. CASE ~(counters_need_update \/ transfer)
        <3>1. ~counting
            BY <2>2 DEF counting
        <3> QED BY <1>1, <2>2, <3>1
    <2> QED BY <2>1, <2>2
<1>11. last_time' \in {last_time, timer'}
    BY <1>1 DEF TimeAfter
<1>12. counters_need_update' \in BOOLEAN /\ matrix_need_update' \in BOOLEAN
    <2>1. matrix \in BOOLEAN /\ going \in BOOLEAN
        BY <1>2 DEF TypeOK, Ended
    <2> QED BY <1>1, <2>1
<1> QED BY <1>1, <1>4, <1>7, <1>8, <1>9, <1>10, <1>11, <1>12
-----------------------------------------------------------------------------
LEMMA InitInv == Init => IInv
<1> SUFFICES ASSUME Init PROVE IInv
    OBVIOUS
<1>1. \A k \in Keys : counters[k] = 0 /\ quiet[k] = DEBOUNCE
    BY DEF Init
<1>2. TypeOK
    <2>1. 0 \in 0 .. Width - 1 /\ 0 \in 0 .. DEBOUNCE /\ DEBOUNCE \in 0 .. DEBOUNCE
        BY Sizes
    <2>2. counters \in [Keys -> 0 .. DEBOUNCE] /\ quiet \in [Keys -> 0 .. DEBOUNCE]
        BY <2>1 DEF Init
    <2>3. raw \in SUBSET Keys /\ cooked \in SUBSET Keys
        BY DEF Init
    <2> QED BY <2>1, <2>2, <2>3 DEF Init, TypeOK
<1>3. Paired /\ Ticking
    BY <1>1, Sizes DEF Paired, Ticking
<1>4. Fresh /\ NoneForgotten
    BY DEF Init, Fresh, NoneForgotten
<1> QED BY <1>2, <1>3, <1>4 DEF IInv

LEMMA LeftType ==
    ASSUME TypeOK, NEW d \in 0 .. MaxGap, NEW k \in Keys
    PROVE  Left(k, d) \in 0 .. DEBOUNCE
BY Sizes DEF TypeOK, Left

LEMMA ScanInv ==
    ASSUME IInv, NEW closed \in SUBSET Keys, NEW d \in 0 .. MaxGap, Scan(closed, d)
    PROVE  IInv'
<1> DEFINE T == Free(closed, d)
<1>1. /\ raw' = closed /\ timer' \in 0 .. Width - 1
      /\ cooked' = (cooked \ T) \cup (T \ cooked)
      /\ counters' = [k \in Keys |-> IF k \in T THEN DEBOUNCE ELSE Left(k, d)]
      /\ quiet' = [k \in Keys |-> IF k \in T THEN 0
                                  ELSE IF quiet[k] + d > DEBOUNCE THEN DEBOUNCE
                                  ELSE quiet[k] + d]
      /\ (\E k \in Keys : counters'[k] # 0) => counters_need_update'
      /\ counters_need_update' => last_time' = timer'
      /\ last_time' \in {last_time, timer'}
      /\ counters_need_update' \in BOOLEAN /\ matrix_need_update' \in BOOLEAN
    BY ScanDoes
<1>2. TypeOK /\ Paired
    BY DEF IInv
<1>3. T \in SUBSET Keys /\ \A k \in T : (k \in closed) # (k \in cooked)
    BY DEF Free
<1> HIDE DEF T
<1>4. TypeOK'
    <2>1. counters' \in [Keys -> 0 .. DEBOUNCE]
        BY <1>1, <1>2, Sizes, LeftType
    <2>2. quiet' \in [Keys -> 0 .. DEBOUNCE]
        BY <1>1, <1>2, Sizes DEF TypeOK
    <2>3. cooked' \in SUBSET Keys /\ raw' \in SUBSET Keys
        BY <1>1, <1>2, <1>3 DEF TypeOK
    <2>4. last_time' \in 0 .. Width - 1
        BY <1>1, <1>2 DEF TypeOK
    <2> QED BY <1>1, <2>1, <2>2, <2>3, <2>4 DEF TypeOK
<1>5. Paired'
    <2> SUFFICES ASSUME NEW k \in Keys PROVE counters'[k] = DEBOUNCE - quiet'[k]
        BY DEF Paired
    <2>1. CASE k \in T
        BY <1>1, <2>1, Sizes
    <2>2. CASE k \notin T
        <3>1. counters'[k] = Left(k, d)
            BY <1>1, <2>2
        <3>2. quiet'[k] = IF quiet[k] + d > DEBOUNCE THEN DEBOUNCE ELSE quiet[k] + d
            BY <1>1, <2>2
        <3>3. counters[k] = DEBOUNCE - quiet[k] /\ quiet[k] \in 0 .. DEBOUNCE
            BY <1>2 DEF TypeOK, Paired
        <3> QED BY <3>1, <3>2, <3>3, Sizes DEF Left
    <2> QED BY <2>1, <2>2
<1>6. Ticking' /\ Fresh'
    BY <1>1 DEF Ticking, Fresh
<1>7. NoneForgotten'
    <2> SUFFICES ASSUME NEW k \in Keys, (k \in closed) # (k \in cooked')
                 PROVE  counters'[k] # 0 /\ counters_need_update'
        BY <1>1 DEF NoneForgotten
    <2>1. k \notin T
        BY <1>1, <1>3
    <2>2. (k \in closed) # (k \in cooked)
        BY <1>1, <2>1
    <2>3. Left(k, d) # 0
        BY <2>1, <2>2 DEF T, Free
    <2>4. counters'[k] # 0
        BY <1>1, <2>1, <2>3
    <2> QED BY <1>1, <2>4
<1> QED BY <1>4, <1>5, <1>6, <1>7 DEF IInv

LEMMA StepInv == IInv /\ [Next]_vars => IInv'
<1> SUFFICES ASSUME IInv, [Next]_vars PROVE IInv'
    OBVIOUS
<1>1. CASE Next
    BY <1>1, ScanInv DEF Next
<1>2. CASE UNCHANGED vars
    BY <1>2 DEF vars, flags, IInv, TypeOK, Paired, Ticking, Fresh, NoneForgotten
<1> QED BY <1>1, <1>2

(* A step takes exactly the keys that changed and were not taken during    *)
(* the last DEBOUNCE milliseconds.                                         *)
LEMMA StepTakes ==
    ASSUME IInv, Next, NEW k \in Keys
    PROVE  /\ quiet[k] + Gap >= DEBOUNCE => (k \in cooked' <=> k \in raw')
           /\ Toggles(k) => quiet[k] + Gap >= DEBOUNCE
<1>1. PICK closed \in SUBSET Keys, d \in 0 .. MaxGap : Scan(closed, d)
    BY DEF Next
<1> DEFINE T == Free(closed, d)
<1>2. Gap = d /\ raw' = closed /\ cooked' = (cooked \ T) \cup (T \ cooked)
    BY <1>1, ScanDoes
<1>3. counters[k] = DEBOUNCE - quiet[k] /\ quiet[k] \in 0 .. DEBOUNCE
    BY DEF IInv, TypeOK, Paired
<1>4. Left(k, d) = 0 <=> quiet[k] + d >= DEBOUNCE
    BY <1>3, Sizes DEF Left
<1>5. Toggles(k) <=> k \in T
    BY <1>2 DEF Toggles
<1>6. k \in T <=> (k \in closed) # (k \in cooked) /\ Left(k, d) = 0
    BY DEF Free
<1> HIDE DEF T
<1>7. Toggles(k) => quiet[k] + Gap >= DEBOUNCE
    BY <1>2, <1>4, <1>5, <1>6
<1>8. ASSUME quiet[k] + Gap >= DEBOUNCE PROVE k \in cooked' <=> k \in raw'
    <2>1. Left(k, d) = 0
        BY <1>2, <1>4, <1>8
    <2> QED BY <1>2, <1>6, <2>1
<1> QED BY <1>7, <1>8

(* Everything stays in its width: timer, counters and the two flags of     *)
(* sym_eager_pk.c, for any matrix.                                         *)
THEOREM TypeCorrect == Spec => []TypeOK
<1>1. IInv => TypeOK
    BY DEF IInv
<1> QED BY InitInv, StepInv, <1>1, PTL DEF Spec

(* A key that differs from what was taken is still counted, after any      *)
(* order of scans, bounces and gaps (debounce of sym_eager_pk.c).          *)
THEOREM NoKeyForgotten == Spec => []NoneForgotten
<1>1. IInv => NoneForgotten
    BY DEF IInv
<1> QED BY InitInv, StepInv, <1>1, PTL DEF Spec

(* A key that was quiet for DEBOUNCE milliseconds is taken by the first    *)
(* scan that sees it change (debounce of sym_eager_pk.c).                  *)
THEOREM ResponseIsImmediate == Spec => Immediate
<1>1. IInv /\ [Next]_vars =>
        [\A k \in Keys : quiet[k] + Gap >= DEBOUNCE => (k \in cooked' <=> k \in raw')]_vars
    BY StepTakes
<1> QED BY InitInv, StepInv, <1>1, PTL DEF Spec, Immediate

(* Two changes of a key are never taken within DEBOUNCE milliseconds       *)
(* (debounce of sym_eager_pk.c).                                           *)
THEOREM KeyIsDeaf == Spec => DeafAfterwards
<1>1. IInv /\ [Next]_vars =>
        [\A k \in Keys : Toggles(k) => quiet[k] + Gap >= DEBOUNCE]_vars
    BY StepTakes
<1> QED BY InitInv, StepInv, <1>1, PTL DEF Spec, DeafAfterwards

-----------------------------------------------------------------------------
(* The matrix task.                                                        *)

LEMMA KeysAreCrossings ==
    /\ Keys = Rows \X Cols
    /\ \A k \in Keys : k = <<k[1], k[2]>> /\ k[1] \in Rows /\ k[2] \in Cols
BY MatrixAssumption

(* What is read holds what is closed, and is complete.                     *)
LEMMA ReadIsComplete ==
    ASSUME NEW closed \in SUBSET Keys
    PROVE  Read[closed] \in SUBSET Keys /\ closed \subseteq Read[closed] /\ Complete(Read[closed])
<1>1. Read[closed] =
         {k \in Keys : \A S \in SUBSET Keys : closed \subseteq S /\ Complete(S) => k \in S}
    BY DEF Read
<1>2. ASSUME NEW r1 \in Rows, NEW r2 \in Rows, NEW c1 \in Cols, NEW c2 \in Cols,
             {<<r1, c2>>, <<r2, c2>>, <<r2, c1>>} \subseteq Read[closed]
      PROVE  <<r1, c1>> \in Read[closed]
    <2>1. <<r1, c1>> \in Keys
        BY KeysAreCrossings
    <2>2. ASSUME NEW S \in SUBSET Keys, closed \subseteq S, Complete(S)
          PROVE  <<r1, c1>> \in S
        <3>1. {<<r1, c2>>, <<r2, c2>>, <<r2, c1>>} \subseteq S
            BY <1>1, <1>2, <2>2
        <3> QED BY <2>2, <3>1 DEF Complete
    <2> QED BY <1>1, <2>1, <2>2
<1>3. Complete(Read[closed])
    BY <1>2 DEF Complete
<1> QED BY <1>1, <1>3

(* A phantom has a rectangle: without one, what is read would be complete  *)
(* without the phantom, and it would not be read.                          *)
LEMMA PhantomHasCorners ==
    ASSUME NEW closed \in SUBSET Keys, NEW k \in Read[closed], k \notin closed
    PROVE  \E r \in Rows \ {k[1]}, c \in Cols \ {k[2]} : Corners(k, r, c) \subseteq Read[closed]
<1> SUFFICES ASSUME ~ \E r \in Rows \ {k[1]}, c \in Cols \ {k[2]} :
                          Corners(k, r, c) \subseteq Read[closed]
             PROVE  FALSE
    OBVIOUS
<1> DEFINE S == Read[closed] \ {k}
<1>1. S \in SUBSET Keys /\ closed \subseteq S
    BY ReadIsComplete
<1>2. ASSUME NEW r1 \in Rows, NEW r2 \in Rows, NEW c1 \in Cols, NEW c2 \in Cols,
             {<<r1, c2>>, <<r2, c2>>, <<r2, c1>>} \subseteq S
      PROVE  <<r1, c1>> \in S
    <2>1. <<r1, c1>> \in Read[closed]
        BY <1>2, ReadIsComplete DEF Complete
    <2>2. CASE <<r1, c1>> = k
        <3>1. r2 # r1 /\ c2 # c1 /\ k[1] = r1 /\ k[2] = c1
            BY <1>2, <2>2
        <3>2. Corners(k, r2, c2) \subseteq Read[closed]
            BY <1>2, <2>1, <2>2, <3>1 DEF Corners
        <3> QED BY <3>1, <3>2
    <2> QED BY <2>1, <2>2
<1>3. Complete(S)
    BY <1>2 DEF Complete
<1>4. k \in S
    BY <1>1, <1>3 DEF Read
<1> QED BY <1>4

-----------------------------------------------------------------------------
LEMMA TaskScans ==
    ASSUME [MatrixNext]_matrixVars
    PROVE  [Next]_vars
<1>1. CASE MatrixNext
    <2>1. PICK closed \in SUBSET Keys, d \in 0 .. MaxGap : MatrixTask(closed, d)
        BY <1>1 DEF MatrixNext
    <2>2. Read[closed] \in SUBSET Keys /\ Scan(Read[closed], d)
        BY <2>1, ReadIsComplete DEF MatrixTask
    <2> QED BY <2>2 DEF Next
<1>2. CASE UNCHANGED matrixVars
    BY <1>2 DEF matrixVars
<1> QED BY <1>1, <1>2

(* Under the matrix task the debouncer does what Debounce says, so that    *)
(* all that is proved of it holds here: matrix_scan of quantum/matrix.c.   *)
THEOREM ImplementsDebouncer == MatrixSpec => Spec
<1>1. MatrixInit => Init
    BY DEF MatrixInit
<1> QED BY <1>1, TaskScans, PTL DEF MatrixSpec, Spec

LEMMA DebouncerInv == MatrixSpec => []IInv
<1>1. ASSUME IInv, [Next]_vars PROVE IInv'
    <2>1. CASE Next
        BY <1>1, <2>1, ScanInv DEF Next
    <2>2. CASE UNCHANGED vars
        BY <1>1, <2>2 DEF vars, flags, IInv, TypeOK, Paired, Ticking, Fresh, NoneForgotten
    <2> QED BY <1>1, <2>1, <2>2
<1> QED BY <1>1, InitInv, ImplementsDebouncer, PTL DEF Spec

(* The matrix task keeps every variable in its type (matrix_task).         *)
THEOREM MatrixTypeCorrect == MatrixSpec => []MatrixTypeOK
<1> DEFINE J == pressed \in SUBSET Keys /\ matrix_previous \in SUBSET Keys
<1>1. MatrixInit => J
    BY DEF MatrixInit
<1>2. ASSUME J, IInv, IInv', [MatrixNext]_matrixVars PROVE J'
    <2>1. CASE MatrixNext
        <3>1. PICK closed \in SUBSET Keys, d \in 0 .. MaxGap : MatrixTask(closed, d)
            BY <2>1 DEF MatrixNext
        <3>2. pressed' \in SUBSET Keys
            BY <3>1 DEF MatrixTask
        <3>3. cooked' \subseteq Keys
            BY <1>2 DEF IInv, TypeOK
        <3>4. matrix_previous' \subseteq matrix_previous \cup cooked'
            BY <3>1 DEF MatrixTask, Reports
        <3> QED BY <1>2, <3>2, <3>3, <3>4
    <2>2. CASE UNCHANGED matrixVars
        BY <1>2, <2>2 DEF matrixVars
    <2> QED BY <1>2, <2>1, <2>2
<1>3. J /\ IInv => MatrixTypeOK
    BY DEF IInv, MatrixTypeOK
<1> QED BY <1>1, <1>2, <1>3, DebouncerInv, PTL DEF MatrixSpec

-----------------------------------------------------------------------------
(* A rectangle of keys that are all down for everyone and all have their   *)
(* keycode is a ghost in its rows.                                         *)
LEMMA RectangleIsGhost ==
    ASSUME NEW matrix \in SUBSET Keys, NEW k \in Keys, NEW r \in Rows \ {k[1]}, NEW c \in Cols \ {k[2]},
           Corners(k, r, c) \subseteq matrix \cap RealKeys
    PROVE  k[1] \in Ghosts(matrix)
<1>1. k = <<k[1], k[2]>> /\ k[1] \in Rows /\ k[2] \in Cols
    BY KeysAreCrossings
<1>2. {<<k[1], k[2]>>, <<k[1], c>>, <<r, c>>, <<r, k[2]>>} \subseteq matrix \cap RealKeys
    BY <1>1 DEF Corners
<1>3. {k[2], c} \subseteq RealIn(k[1], matrix) \cap RealIn(r, matrix)
    BY <1>1, <1>2 DEF RealIn
<1> QED BY <1>1, <1>3 DEF Ghosts

(* A phantom is reported only while a corner of its rectangle is deaf or   *)
(* has no keycode, for every matrix: has_ghost_in_row after debounce.      *)
THEOREM PhantomNeedsDeafCorner == MatrixSpec => PhantomOnlyIfDeaf
<1> DEFINE Feigned(k) ==
        \/ k \notin raw' /\ counters'[k] # 0
        \/ \E r \in Rows \ {k[1]}, c \in Cols \ {k[2]} :
              /\ Corners(k, r, c) \subseteq raw'
              /\ \E corner \in Corners(k, r, c) :
                    (corner \notin cooked' /\ counters'[corner] # 0) \/ corner \notin RealKeys
           Step == \A k \in matrix_previous' \ matrix_previous : k \notin pressed' => Feigned(k)
<1>1. ASSUME IInv, IInv', [MatrixNext]_matrixVars PROVE [Step]_matrixVars
    <2> SUFFICES ASSUME MatrixNext, NEW k \in matrix_previous' \ matrix_previous, k \notin pressed'
                 PROVE  Feigned(k)
        BY <1>1
    <2>1. PICK closed \in SUBSET Keys, d \in 0 .. MaxGap : MatrixTask(closed, d)
        BY DEF MatrixNext
    <2>2. raw' = Read[closed] /\ raw' \in SUBSET Keys
        <3>1. Read[closed] \in SUBSET Keys /\ Scan(Read[closed], d)
            BY <2>1, ReadIsComplete DEF MatrixTask
        <3> QED BY <1>1, <3>1, ScanDoes
    <2>3. cooked' \in SUBSET Keys
        BY <1>1 DEF IInv, TypeOK
    <2>4. \A key \in Keys : (key \in raw') # (key \in cooked') => counters'[key] # 0
        BY <1>1 DEF IInv, NoneForgotten
    <2>5. k \in cooked' /\ k \notin Ghosts(cooked') \X Cols
        BY <2>1 DEF MatrixTask, Reports
    <2>6. k \in Keys /\ k[1] \notin Ghosts(cooked')
        BY <2>3, <2>5, KeysAreCrossings
    <2>7. CASE k \notin raw'
        BY <2>4, <2>5, <2>6, <2>7
    <2>8. CASE k \in raw'
        <3>1. k \notin closed
            BY <2>1 DEF MatrixTask
        <3>2. PICK r \in Rows \ {k[1]}, c \in Cols \ {k[2]} : Corners(k, r, c) \subseteq raw'
            BY <2>2, <2>8, <3>1, PhantomHasCorners
        <3>3. PICK corner \in Corners(k, r, c) : corner \notin cooked' \/ corner \notin RealKeys
            BY <2>3, <2>6, <3>2, RectangleIsGhost
        <3>4. corner \notin cooked' => counters'[corner] # 0
            BY <2>2, <2>4, <3>2, <3>3
        <3> QED BY <3>2, <3>3, <3>4
    <2> QED BY <2>7, <2>8
<1> QED BY <1>1, DebouncerInv, PTL DEF MatrixSpec, PhantomOnlyIfDeaf
=============================================================================
