--------------------------- MODULE Tapping_proofs ---------------------------
(***************************************************************************)
(* Tap and hold for any keymaps, any settings, any buffer and timer.  Each *)
(* operator of a call has a lemma on what it makes of the state it is      *)
(* given; the loop over the buffer is a recursive function of the number   *)
(* of its rounds, which exists, and keeps what each round keeps, by        *)
(* induction: the library's theorem on well-founded relations gives it for *)
(* sets in place of operators (SetInduction).                              *)
(*                                                                         *)
(* The invariant (CalmInv) follows the keys through the buffer: Path tells *)
(* which are down before each record that waits, Right in which role a key *)
(* is registered and what its release knows of it, Order that the records  *)
(* wait in the order of their times, Ahead that what interrupted the       *)
(* tapping key waits before its release, Owes how many presses wait,       *)
(* Bounded that the timer has not come round since they came.  It is kept  *)
(* by each round of the loop (RoundGood, DrainedGood) and by the new       *)
(* record, which is looked at first (TickBrought, EmptyBrought,            *)
(* OpenBrought).                                                           *)
(***************************************************************************)
EXTENDS Tapping, TLAPS, FiniteSetTheorems, WellFoundedInduction

(* Every set of naturals that is not empty has a least element.            *)
LEMMA LeastNatural ==
  ASSUME NEW T, T \subseteq Nat, T # {}
  PROVE  \E x \in T : \A y \in T : x <= y
<1> DEFINE R == {ss \in Nat \X Nat : ss[1] < ss[2]}
<1>1. IsWellFoundedOn(OpToRel(<, Nat), Nat)
  BY NatLessThanWellFounded
<1>2. IsWellFoundedOn(R, Nat)
  BY <1>1 DEF OpToRel
<1>3. PICK x \in T : \A y \in T : ~ (<<y, x>> \in R)
  <2> HIDE DEF R
  <2> QED BY <1>2, WFMin
<1>4. \A y \in T : ~(y < x)
  BY <1>3
<1> QED BY <1>4

(* Induction over the members of a set, which no operator is needed for.   *)
LEMMA SetInduction ==
  ASSUME NEW T, 0 \in T, \A n \in Nat : n \in T => n + 1 \in T
  PROVE  \A n \in Nat : n \in T
<1> SUFFICES ASSUME NEW n \in Nat, n \notin T
             PROVE  FALSE
  OBVIOUS
<1>1. PICK x \in Nat \ T : \A y \in Nat \ T : x <= y
  BY LeastNatural
<1>2. x # 0 /\ x - 1 \in Nat
  BY <1>1
<1>3. x - 1 \in T
  BY <1>1, <1>2
<1> QED  BY <1>1, <1>2, <1>3

----------------------------------------------------------------------------
(* The loop over the records that wait, as far as round m.                 *)
IsAfter(f, s, m) ==
  f = [n \in 0 .. m |->
         IF n = 0 THEN [done |-> TRUE, s |-> s]
         ELSE IF f[n - 1].done THEN Round(f[n - 1].s) ELSE f[n - 1]]

LEMMA AfterExists ==
  ASSUME NEW s
  PROVE  \A m \in Nat : \E f : IsAfter(f, s, m)
<1> DEFINE T == {m \in Nat : \E f : IsAfter(f, s, m)}
<1>1. 0 \in T
  <2>1. IsAfter([n \in 0 .. 0 |-> [done |-> TRUE, s |-> s]], s, 0)
    BY DEF IsAfter
  <2> QED  BY <2>1
<1>2. ASSUME NEW m \in Nat, m \in T
      PROVE  m + 1 \in T
  <2>1. PICK f : IsAfter(f, s, m)
    BY <1>2
  <2> DEFINE first == [done |-> TRUE, s |-> s]
             step(x) == IF x.done THEN Round(x.s) ELSE x
             h == [n \in 0 .. m + 1 |-> IF n = m + 1 THEN step(f[m]) ELSE f[n]]
  <2> HIDE DEF step, first
  <2>2. /\ f = [n \in 0 .. m |-> IF n = 0 THEN first ELSE step(f[n - 1])]
        /\ IsAfter(h, s, m + 1) <=>
             h = [n \in 0 .. m + 1 |-> IF n = 0 THEN first ELSE step(h[n - 1])]
    BY <2>1 DEF IsAfter, step, first
  <2>3. ASSUME NEW n \in 0 .. m + 1
        PROVE  h[n] = IF n = 0 THEN first ELSE step(h[n - 1])
    <3>1. CASE n = m + 1
      BY <3>1
    <3>2. CASE n \in 0 .. m
      <4>1. f[n] = IF n = 0 THEN first ELSE step(f[n - 1])
        BY <2>2, <3>2
      <4>2. n # 0 => h[n - 1] = f[n - 1]
        BY <3>2
      <4> QED  BY <3>2, <4>1, <4>2
    <3> QED  BY <3>1, <3>2
  <2>4. h = [n \in 0 .. m + 1 |-> IF n = 0 THEN first ELSE step(h[n - 1])]
    BY <2>3
  <2>5. IsAfter(h, s, m + 1)
    BY <2>2, <2>4
  <2> QED  BY <2>5
<1>3. \A m \in Nat : m \in T
  <2> HIDE DEF T
  <2> QED  BY <1>1, <1>2, SetInduction
<1> QED  BY <1>3

(* What every round keeps, the loop keeps: G holds the rounds with what    *)
(* they have come to.                                                      *)
LEMMA DrainedBy ==
  ASSUME NEW s, NEW N \in Nat, N = Len(s.buf), NEW G,
         <<0, [done |-> TRUE, s |-> s]>> \in G,
         \A n \in 0 .. N - 1 : \A x :
            <<n, x>> \in G => <<n + 1, IF x.done THEN Round(x.s) ELSE x>> \in G
  PROVE  \E x : <<N, x>> \in G /\ Drained(s) = x.s
<1> DEFINE f == CHOOSE x : IsAfter(x, s, N)
<1>1. IsAfter(f, s, N)
  BY AfterExists
<1>2. Drained(s) = f[N].s
  BY DEF Drained, IsAfter
<1> HIDE DEF f
<1> DEFINE T == {n \in Nat : n <= N => <<n, f[n]>> \in G}
<1>3. 0 \in T
  <2>1. f[0] = [done |-> TRUE, s |-> s]
    BY <1>1 DEF IsAfter
  <2> QED  BY <2>1
<1>4. ASSUME NEW n \in Nat, n \in T
      PROVE  n + 1 \in T
  <2> SUFFICES ASSUME n + 1 <= N
               PROVE  <<n + 1, f[n + 1]>> \in G
    OBVIOUS
  <2>1. n + 1 \in 0 .. N /\ n \in 0 .. N - 1 /\ n + 1 # 0 /\ (n + 1) - 1 = n
    OBVIOUS
  <2>2. f[n + 1] = IF f[n].done THEN Round(f[n].s) ELSE f[n]
    <3>1. f[n + 1] = IF f[(n + 1) - 1].done THEN Round(f[(n + 1) - 1].s) ELSE f[(n + 1) - 1]
      BY <1>1, <2>1 DEF IsAfter
    <3> QED  BY <3>1, <2>1
  <2>3. <<n, f[n]>> \in G
    BY <1>4, <2>1
  <2> QED  BY <2>1, <2>2, <2>3
<1>5. N \in T
  <2> HIDE DEF T
  <2> QED  BY <1>3, <1>4, SetInduction
<1>6. <<N, f[N]>> \in G
  BY <1>5
<1> QED  BY <1>2, <1>6

----------------------------------------------------------------------------
(* The records of keys, which alone may wait, and those that may come.     *)
KeyRecord ==
  [key : Keys, pressed : BOOLEAN, time : 0 .. Width - 1, count : 0 .. TapMax,
   interrupted : BOOLEAN]

Input == {r \in Record : r.key = NoKey => ~r.pressed}

(* What a call passes along.                                               *)
CallState ==
  [tap : Record, buf : Seq(KeyRecord), reg : SUBSET (Keys \X {"code", "mods"}),
   owed : [Keys -> Int], disturbed : BOOLEAN]

LEMMA Constants ==
  /\ NoKey \notin Keys /\ Width \in Nat \ {0} /\ TapMax \in Nat \ {0, 1}
  /\ WAITING_BUFFER_SIZE \in Nat \ {0} /\ MaxGap \in Nat \ {0}
  /\ Terms \subseteq 0 .. Width - 1 /\ Keymaps \subseteq [Keys -> Kinds]
BY TappingAssumption DEF TappingAssumption

LEMMA EventTyped ==
  ASSUME NEW k \in Keys \cup {NoKey}, NEW pressed \in BOOLEAN, NEW now \in 0 .. Width - 1
  PROVE  /\ Event(k, pressed, now) \in Record
         /\ Event(k, pressed, now).key = k /\ Event(k, pressed, now).pressed = pressed
         /\ Event(k, pressed, now).time = now /\ Event(k, pressed, now).count = 0
         /\ Event(k, pressed, now).interrupted = FALSE
BY Constants DEF Event, Record

LEMMA NoneTyped ==
  /\ None \in Record /\ None.key = NoKey /\ None.pressed = FALSE /\ None.count = 0
BY Constants DEF None, Event, Record

LEMMA ActedEffect ==
  ASSUME NEW r \in Record
  PROVE  /\ Acted(r) \in Record
         /\ Acted(r).key = r.key /\ Acted(r).pressed = r.pressed /\ Acted(r).time = r.time
         /\ Acted(r).interrupted = r.interrupted
         /\ Acted(r).count = IF r.pressed /\ r.interrupted /\ ~Set("ignore_mod_tap_interrupt")
                             THEN 0 ELSE r.count
BY Constants DEF Acted, Record

LEMMA RoleTyped ==
  ASSUME NEW r \in Record, r.key \in Keys
  PROVE  Role(r) \in Keys \X {"code", "mods"}
BY DEF Role

LEMMA ProcessEffect ==
  ASSUME NEW s \in CallState, NEW r \in Record
  PROVE  /\ Process(s, r) \in CallState
         /\ Process(s, r).tap = s.tap /\ Process(s, r).buf = s.buf
         /\ Process(s, r).disturbed = s.disturbed
         /\ r.key = NoKey => Process(s, r) = s
         /\ r.key # NoKey /\ ~r.pressed =>
               Process(s, r).reg = s.reg \ {Role(r)} /\ Process(s, r).owed = s.owed
         /\ r.key # NoKey /\ r.pressed =>
               /\ Process(s, r).reg = s.reg \cup {Role(Acted(r))}
               /\ \A k \in Keys : Process(s, r).owed[k] =
                     IF k = r.key THEN s.owed[k] - 1 ELSE s.owed[k]
<1>1. CASE r.key = NoKey
  BY <1>1 DEF Process
<1>2. CASE r.key # NoKey /\ ~r.pressed
  <2>1. Process(s, r) = [s EXCEPT !.reg = @ \ {Role(r)}]
    BY <1>2 DEF Process
  <2> QED  BY <1>2, <2>1 DEF CallState
<1>3. CASE r.key # NoKey /\ r.pressed
  <2> DEFINE role == Role(Acted(r))
  <2>1. Process(s, r) = [s EXCEPT !.reg = @ \cup {role}, !.owed[r.key] = @ - 1]
    BY <1>3 DEF Process
  <2>2. r.key \in Keys /\ role \in Keys \X {"code", "mods"}
    <3>1. r.key \in Keys
      BY <1>3 DEF Record
    <3> QED  BY <3>1, ActedEffect, RoleTyped
  <2> HIDE DEF role
  <2> DEFINE ow == [s.owed EXCEPT ![r.key] = @ - 1]
             rs == s.reg \cup {role}
  <2>3. ow \in [Keys -> Int] /\ rs \in SUBSET (Keys \X {"code", "mods"})
    BY <2>2 DEF CallState
  <2>4. Process(s, r) \in CallState
    <3>1. Process(s, r) = [s EXCEPT !.reg = rs, !.owed = ow]
      BY <2>1 DEF CallState
    <3> HIDE DEF rs, ow
    <3> QED  BY <2>3, <3>1 DEF CallState
  <2>5. /\ Process(s, r).tap = s.tap /\ Process(s, r).buf = s.buf
        /\ Process(s, r).disturbed = s.disturbed /\ Process(s, r).reg = s.reg \cup {role}
        /\ Process(s, r).owed = [s.owed EXCEPT ![r.key] = @ - 1]
    BY <2>1 DEF CallState
  <2>6. \A k \in Keys : Process(s, r).owed[k] =
           IF k = r.key THEN s.owed[k] - 1 ELSE s.owed[k]
    BY <2>2, <2>5 DEF CallState
  <2> QED  BY <1>3, <2>4, <2>5, <2>6 DEF role
<1> QED  BY <1>1, <1>2, <1>3

(* The tapping key is replaced, forgotten, or has its flags changed.       *)
LEMMA StartEffect ==
  ASSUME NEW s \in CallState, NEW r \in Record
  PROVE  /\ Start(s, r) \in CallState /\ Start(s, r).tap = r /\ Start(s, r).buf = s.buf
         /\ Start(s, r).reg = s.reg /\ Start(s, r).owed = s.owed
         /\ Start(s, r).disturbed = s.disturbed
         /\ Forget(s) = Start(s, None)
BY DEF Start, Forget, CallState

LEMMA KeyRecords ==
  /\ KeyRecord \subseteq Input /\ Input \subseteq Record
  /\ \A r \in Input : r.key # NoKey => r \in KeyRecord
BY Constants DEF KeyRecord, Input, Record

(* A record of the buffer is changed in its flags.                         *)
LEMMA Marked ==
  ASSUME NEW b \in Seq(KeyRecord), NEW i \in 1 .. Len(b), NEW c \in 0 .. TapMax
  PROVE  /\ [b EXCEPT ![i].count = c] \in Seq(KeyRecord)
         /\ Len([b EXCEPT ![i].count = c]) = Len(b)
         /\ \A j \in 1 .. Len(b) :
               /\ [b EXCEPT ![i].count = c][j] =
                     IF j = i THEN [b[i] EXCEPT !.count = c] ELSE b[j]
               /\ [b[i] EXCEPT !.count = c] \in KeyRecord
<1>1. b[i] \in KeyRecord
  OBVIOUS
<1>2. [b[i] EXCEPT !.count = c] \in KeyRecord
  BY <1>1 DEF KeyRecord
<1> DEFINE x == [b[i] EXCEPT !.count = c]
<1>3. [b EXCEPT ![i].count = c] = [b EXCEPT ![i] = x]
  OBVIOUS
<1> HIDE DEF x
<1>4. x \in KeyRecord
  BY <1>2 DEF x
<1>5. /\ [b EXCEPT ![i] = x] \in Seq(KeyRecord) /\ Len([b EXCEPT ![i] = x]) = Len(b)
      /\ \A j \in 1 .. Len(b) : [b EXCEPT ![i] = x][j] = IF j = i THEN x ELSE b[j]
  BY <1>4
<1> QED  BY <1>3, <1>4, <1>5 DEF x

LEMMA Counted ==
  ASSUME NEW r \in Record, NEW c \in 0 .. TapMax
  PROVE  /\ [r EXCEPT !.count = c] \in Record
         /\ [r EXCEPT !.count = c].key = r.key /\ [r EXCEPT !.count = c].pressed = r.pressed
         /\ [r EXCEPT !.count = c].time = r.time /\ [r EXCEPT !.count = c].count = c
         /\ [r EXCEPT !.count = c].interrupted = r.interrupted
BY DEF Record

LEMMA OneIsCount == 1 \in 0 .. TapMax /\ 0 \in 0 .. TapMax
BY Constants

LEMMA EndsWait ==
  ASSUME NEW s \in CallState
  PROVE  /\ Ends(s) \subseteq 1 .. Len(s.buf) /\ Ends(s) \subseteq Nat /\ Len(s.buf) \in Nat
         /\ \A i \in 1 .. Len(s.buf) : s.buf[i] \in KeyRecord
<1>1. s.buf \in Seq(KeyRecord)
  BY DEF CallState
<1>2. DOMAIN s.buf = 1 .. Len(s.buf) /\ Len(s.buf) \in Nat
  BY <1>1
<1>3. Ends(s) \subseteq DOMAIN s.buf
  BY DEF Ends
<1> QED  BY <1>1, <1>2, <1>3

LEMMA ScanEffect ==
  ASSUME NEW s \in CallState, s.tap.key # NoKey
  PROVE  /\ s.tap.count > 0 \/ Ends(s) = {} => ScanTap(s) = s
         /\ ~(s.tap.count > 0 \/ Ends(s) = {}) =>
              \E i \in Ends(s) : \E s1 \in CallState : \E tap \in Record :
                 /\ \A l \in Ends(s) : i <= l
                 /\ tap = [s.tap EXCEPT !.count = 1]
                 /\ s1.tap = Acted(tap) /\ s1.buf = [s.buf EXCEPT ![i].count = 1]
                 /\ s1.reg = s.reg /\ s1.owed = s.owed /\ s1.disturbed = s.disturbed
                 /\ ScanTap(s) = Process(s1, tap)
<1>1. ASSUME s.tap.count > 0 \/ Ends(s) = {}
      PROVE  ScanTap(s) = s
  BY <1>1 DEF ScanTap
<1>2. ASSUME ~(s.tap.count > 0 \/ Ends(s) = {})
      PROVE  \E i \in Ends(s) : \E s1 \in CallState : \E tap \in Record :
                 /\ \A l \in Ends(s) : i <= l
                 /\ tap = [s.tap EXCEPT !.count = 1]
                 /\ s1.tap = Acted(tap) /\ s1.buf = [s.buf EXCEPT ![i].count = 1]
                 /\ s1.reg = s.reg /\ s1.owed = s.owed /\ s1.disturbed = s.disturbed
                 /\ ScanTap(s) = Process(s1, tap)
  <2> DEFINE i == CHOOSE j \in Ends(s) : \A l \in Ends(s) : j <= l
             tap == [s.tap EXCEPT !.count = 1]
             s1 == [s EXCEPT !.tap = Acted(tap), !.buf[i].count = 1]
  <2>1. i \in Ends(s) /\ \A l \in Ends(s) : i <= l
    <3>1. Ends(s) \subseteq Nat
      BY EndsWait
    <3>2. \E j \in Ends(s) : \A l \in Ends(s) : j <= l
      BY <1>2, <3>1, LeastNatural
    <3> QED  BY <3>2
  <2>2. ScanTap(s) = Process(s1, tap)
    BY <1>2 DEF ScanTap
  <2>3. tap \in Record
    BY Counted, OneIsCount DEF CallState
  <2>4. i \in 1 .. Len(s.buf)
    BY <2>1, EndsWait
  <2> HIDE DEF i, tap
  <2> DEFINE b2 == [s.buf EXCEPT ![i].count = 1]
             t2 == Acted(tap)
  <2>5. b2 \in Seq(KeyRecord)
    BY <2>4, Marked, OneIsCount DEF CallState
  <2>6. t2 \in Record
    BY <2>3, ActedEffect
  <2>7. s1 = [s EXCEPT !.tap = t2, !.buf = b2]
    BY DEF CallState
  <2> HIDE DEF t2, b2, s1
  <2>8. s1 \in CallState /\ s1.tap = t2 /\ s1.buf = b2 /\ s1.reg = s.reg /\ s1.owed = s.owed
        /\ s1.disturbed = s.disturbed
    BY <2>5, <2>6, <2>7 DEF CallState
  <2>9. tap = [s.tap EXCEPT !.count = 1]
    BY DEF tap
  <2> QED  BY <2>1, <2>2, <2>3, <2>8, <2>9 DEF t2, b2
<1> QED  BY <1>1, <1>2

----------------------------------------------------------------------------
(* The branches of process_tapping, each under its condition.              *)
IsTapped(s) == s.tap.key # NoKey /\ s.tap.pressed /\ s.tap.count > 0
IsUp(s)     == s.tap.key # NoKey /\ ~s.tap.pressed

TapOf(s)    == [s.tap EXCEPT !.count = 1]
TapNow(s)   == Process(Start(s, Acted(TapOf(s))), TapOf(s))
Last(s, r)  == [s.tap EXCEPT !.pressed = FALSE, !.time = r.time]
Left(s, r)  == IF s.tap.count > 1 THEN Process(s, Last(s, r)) ELSE s
More(s)     == IF s.tap.count < TapMax THEN s.tap.count + 1 ELSE TapMax
Again(s, r) == [r EXCEPT !.count = More(s)]
Nested(s, r) == Typed(s, r) /\ Set("permissive_hold")

LEMMA WhenNone ==
  ASSUME NEW s \in CallState, NEW r \in Input, s.tap.key = NoKey
  PROVE  ProcessTapping(s, r) = IF r.pressed /\ IsTap(r) THEN Consumed(ScanTap(Start(s, r)), r)
                                ELSE Consumed(Process(s, r), r)
BY DEF ProcessTapping

LEMMA WhenTapped ==
  ASSUME NEW s \in CallState, NEW r \in Input, IsTapped(s)
  PROVE  ProcessTapping(s, r) =
           IF r.key = s.tap.key /\ ~r.pressed
           THEN Consumed(Start(Process(s, Release(r, s.tap)),
                               IF Within(s.tap, r) THEN Release(r, s.tap) ELSE None),
                         Release(r, s.tap))
           ELSE IF r.pressed /\ IsTap(r) THEN Consumed(ScanTap(Start(Left(s, r), r)), r)
           ELSE Consumed(Process(s, r), r)
<1>1. ProcessTapping(s, r) = Tapped(s, r)
  BY DEF ProcessTapping, IsTapped, CallState, Record
<1> QED  BY <1>1 DEF Tapped, Left, Last, Input

LEMMA WhenUp ==
  ASSUME NEW s \in CallState, NEW r \in Input, IsUp(s)
  PROVE  ProcessTapping(s, r) =
           IF ~Within(s.tap, r) THEN Waits(Forget(s), r)
           ELSE IF ~r.pressed THEN Consumed(Process(s, r), r)
           ELSE IF r.key = s.tap.key
                THEN IF Set("tapping_force_hold") \/ s.tap.interrupted \/ s.tap.count = 0
                     THEN Consumed(StartAgain(s, r), r)
                     ELSE Consumed(Start(Process(s, Again(s, r)), Again(s, r)), Again(s, r))
           ELSE IF IsTap(r) THEN Consumed(ScanTap(Start(s, r)), r)
           ELSE Consumed(Process([s EXCEPT !.tap.interrupted = TRUE], r), r)
<1>1. ProcessTapping(s, r) = IF Within(s.tap, r) THEN JustTapped(s, r) ELSE Waits(Forget(s), r)
  BY DEF ProcessTapping, IsUp, CallState, Record
<1>2. r.pressed \in BOOLEAN
  BY DEF Input, Record
<1> QED  BY <1>1, <1>2 DEF JustTapped, Again, More

LEMMA WhenOpen ==
  ASSUME NEW s \in CallState, NEW r \in Input, IsOpen(s)
  PROVE  ProcessTapping(s, r) =
           IF ~Within(s.tap, r) THEN Waits(Forget(Process(s, s.tap)), r)
           ELSE IF r.key = NoKey THEN Waits(s, r)
           ELSE IF r.pressed THEN Waits([s EXCEPT !.tap.interrupted = TRUE], r)
           ELSE IF r.key = s.tap.key THEN Waits(TapNow(s), Release(r, TapNow(s).tap))
           ELSE IF Nested(s, r) THEN Waits(Forget(Process(s, s.tap)), r)
           ELSE IF Typed(s, r) \/ Retained(r) THEN Waits(s, r)
           ELSE Consumed(Process(s, r), r)
<1>1. ProcessTapping(s, r) = IF Within(s.tap, r) THEN Undecided(s, r)
                             ELSE Waits(Forget(Process(s, s.tap)), r)
  BY DEF ProcessTapping, IsOpen, CallState, Record, Expired
<1>2. r.pressed \in BOOLEAN /\ (r.key = NoKey => ~r.pressed) /\ s.tap.key # NoKey
  BY DEF Input, Record, IsOpen
<1> QED  BY <1>1, <1>2 DEF Undecided, TapNow, TapOf, Nested

LEMMA Phases ==
  ASSUME NEW s \in CallState
  PROVE  s.tap.key = NoKey \/ IsOpen(s) \/ IsTapped(s) \/ IsUp(s)
BY DEF IsOpen, IsTapped, IsUp, CallState, Record

LEMMA ReleaseTyped ==
  ASSUME NEW r \in Record, NEW t \in Record
  PROVE  /\ Release(r, t) \in Record
         /\ Release(r, t).key = r.key /\ Release(r, t).pressed = r.pressed
         /\ Release(r, t).time = r.time /\ Release(r, t).count = t.count
         /\ Release(r, t).interrupted = t.interrupted
BY DEF Release, Record

LEMMA InterruptEffect ==
  ASSUME NEW s \in CallState
  PROVE  \E s2 \in CallState :
            /\ s2 = [s EXCEPT !.tap.interrupted = TRUE]
            /\ s2.buf = s.buf /\ s2.reg = s.reg /\ s2.owed = s.owed
            /\ s2.disturbed = s.disturbed
            /\ s2.tap.key = s.tap.key /\ s2.tap.pressed = s.tap.pressed
            /\ s2.tap.time = s.tap.time /\ s2.tap.count = s.tap.count
            /\ s2.tap.interrupted = TRUE
<1> DEFINE t2 == [s.tap EXCEPT !.interrupted = TRUE]
           s2 == [s EXCEPT !.tap = t2]
<1>1. /\ t2 \in Record /\ t2.key = s.tap.key /\ t2.pressed = s.tap.pressed
      /\ t2.time = s.tap.time /\ t2.count = s.tap.count /\ t2.interrupted = TRUE
  BY DEF CallState, Record
<1>2. s2 = [s EXCEPT !.tap.interrupted = TRUE]
  OBVIOUS
<1> HIDE DEF t2
<1>3. /\ s2 \in CallState /\ s2.tap = t2 /\ s2.buf = s.buf /\ s2.reg = s.reg
      /\ s2.owed = s.owed /\ s2.disturbed = s.disturbed
  BY <1>1 DEF CallState
<1> HIDE DEF s2
<1> QED  BY <1>1, <1>2, <1>3

LEMMA StartAgainEffect ==
  ASSUME NEW s \in CallState, NEW r \in Record
  PROVE  /\ StartAgain(s, r) \in CallState
         /\ StartAgain(s, r).tap = r /\ StartAgain(s, r).buf = s.buf
         /\ StartAgain(s, r).reg = s.reg /\ StartAgain(s, r).owed = s.owed
         /\ StartAgain(s, r).disturbed = (s.disturbed \/ Ends(Start(s, r)) # {})
<1> DEFINE d == s.disturbed \/ Ends(Start(s, r)) # {}
<1>1. StartAgain(s, r) = [s EXCEPT !.tap = r, !.disturbed = d]
  BY DEF StartAgain
<1>2. d \in BOOLEAN
  BY DEF CallState
<1> HIDE DEF d
<1>3. /\ StartAgain(s, r) \in CallState
      /\ StartAgain(s, r).tap = r /\ StartAgain(s, r).buf = s.buf
      /\ StartAgain(s, r).reg = s.reg /\ StartAgain(s, r).owed = s.owed
      /\ StartAgain(s, r).disturbed = d
  BY <1>1, <1>2 DEF CallState
<1> QED  BY <1>3 DEF d

LEMMA LastTyped ==
  ASSUME NEW s \in CallState, NEW r \in Record
  PROVE  /\ Last(s, r) \in Record /\ Last(s, r).key = s.tap.key
         /\ Last(s, r).pressed = FALSE /\ Last(s, r).count = s.tap.count
BY DEF Last, CallState, Record

LEMMA LeftEffect ==
  ASSUME NEW s \in CallState, NEW r \in Record, s.tap.key # NoKey
  PROVE  /\ Left(s, r) \in CallState /\ Left(s, r).buf = s.buf /\ Left(s, r).owed = s.owed
         /\ Left(s, r).disturbed = s.disturbed
         /\ s.tap.count > 1 => Left(s, r).reg = s.reg \ {<<s.tap.key, "code">>}
         /\ ~(s.tap.count > 1) => Left(s, r).reg = s.reg
<1>1. CASE s.tap.count > 1
  <2>1. Left(s, r) = Process(s, Last(s, r))
    BY <1>1 DEF Left
  <2> DEFINE l == Last(s, r)
  <2>2. l \in Record /\ l.key = s.tap.key /\ l.pressed = FALSE /\ l.count # 0
    <3>1. s.tap.count # 0
      BY <1>1 DEF CallState, Record
    <3> QED  BY <3>1, LastTyped
  <2> HIDE DEF l
  <2>3. Role(l) = <<s.tap.key, "code">>
    BY <2>2 DEF Role
  <2>4. Process(s, l).reg = s.reg \ {Role(l)} /\ Process(s, l).owed = s.owed
    BY <2>2, ProcessEffect
  <2>5. /\ Process(s, l) \in CallState /\ Process(s, l).buf = s.buf
        /\ Process(s, l).disturbed = s.disturbed
    BY <2>2, ProcessEffect
  <2>6. Left(s, r) = Process(s, l)
    BY <2>1 DEF l
  <2> QED  BY <1>1, <2>3, <2>4, <2>5, <2>6
<1>2. CASE ~(s.tap.count > 1)
  BY <1>2 DEF Left
<1> QED  BY <1>1, <1>2

LEMMA AgainTyped ==
  ASSUME NEW s \in CallState, NEW r \in Record
  PROVE  /\ Again(s, r) \in Record /\ More(s) \in 1 .. TapMax /\ Again(s, r).count = More(s)
         /\ (s.tap.count > 0 => More(s) > 1)
         /\ Again(s, r).key = r.key /\ Again(s, r).pressed = r.pressed
         /\ Again(s, r).time = r.time /\ Again(s, r).interrupted = r.interrupted
<1>1. s.tap.count \in 0 .. TapMax
  BY DEF CallState, Record
<1>2. More(s) \in 1 .. TapMax /\ (s.tap.count > 0 => More(s) > 1)
  BY <1>1, Constants DEF More
<1>3. More(s) \in 0 .. TapMax
  BY <1>2
<1> QED  BY <1>2, <1>3, Counted DEF Again

LEMMA TapNowEffect ==
  ASSUME NEW s \in CallState, s.tap.key # NoKey
  PROVE  /\ TapNow(s) \in CallState /\ TapNow(s).buf = s.buf
         /\ TapNow(s).disturbed = s.disturbed
         /\ TapOf(s) \in Record /\ TapOf(s).key = s.tap.key /\ TapOf(s).pressed = s.tap.pressed
         /\ TapOf(s).count = 1 /\ TapOf(s).interrupted = s.tap.interrupted
         /\ TapOf(s).time = s.tap.time
         /\ TapNow(s).tap = Acted(TapOf(s))
         /\ s.tap.pressed =>
               /\ TapNow(s).reg = s.reg \cup {Role(Acted(TapOf(s)))}
               /\ \A k \in Keys : TapNow(s).owed[k] =
                     IF k = s.tap.key THEN s.owed[k] - 1 ELSE s.owed[k]
<1>1. s.tap \in Record
  BY DEF CallState
<1>2. /\ TapOf(s) \in Record /\ TapOf(s).key = s.tap.key /\ TapOf(s).pressed = s.tap.pressed
      /\ TapOf(s).count = 1 /\ TapOf(s).interrupted = s.tap.interrupted
      /\ TapOf(s).time = s.tap.time
  BY <1>1, Counted, OneIsCount DEF TapOf
<1>3. Acted(TapOf(s)) \in Record
  BY <1>2, ActedEffect
<1> DEFINE s1 == Start(s, Acted(TapOf(s)))
<1>4. /\ s1 \in CallState /\ s1.tap = Acted(TapOf(s)) /\ s1.buf = s.buf
      /\ s1.reg = s.reg /\ s1.owed = s.owed /\ s1.disturbed = s.disturbed
  BY <1>3, StartEffect
<1>5. TapNow(s) = Process(s1, TapOf(s))
  BY DEF TapNow
<1> HIDE DEF s1
<1> QED  BY <1>2, <1>4, <1>5, ProcessEffect

LEMMA ScanTyped ==
  ASSUME NEW s \in CallState, s.tap.key # NoKey
  PROVE  /\ ScanTap(s) \in CallState /\ Len(ScanTap(s).buf) = Len(s.buf)
         /\ ScanTap(s).disturbed = s.disturbed
<1>1. CASE s.tap.count > 0 \/ Ends(s) = {}
  BY <1>1, ScanEffect
<1>2. CASE ~(s.tap.count > 0 \/ Ends(s) = {})
  <2>1. PICK i \in Ends(s), s1 \in CallState, tap \in Record :
          /\ \A l \in Ends(s) : i <= l
          /\ tap = [s.tap EXCEPT !.count = 1]
          /\ s1.tap = Acted(tap) /\ s1.buf = [s.buf EXCEPT ![i].count = 1]
          /\ s1.reg = s.reg /\ s1.owed = s.owed /\ s1.disturbed = s.disturbed
          /\ ScanTap(s) = Process(s1, tap)
    BY <1>2, ScanEffect
  <2>2. Len(s1.buf) = Len(s.buf)
    <3>1. s.buf \in Seq(KeyRecord) /\ i \in 1 .. Len(s.buf)
      BY EndsWait DEF CallState
    <3> QED  BY <2>1, <3>1, Marked, OneIsCount
  <2> QED  BY <2>1, <2>2, ProcessEffect
<1> QED  BY <1>1, <1>2

(* What process_tapping may return for the record r.                       *)
Fits(s, r, p) ==
  /\ p.s \in CallState /\ p.rec \in Input /\ p.rec.key = r.key /\ p.done \in BOOLEAN
  /\ Len(p.s.buf) = Len(s.buf) /\ (s.disturbed => p.s.disturbed)

LEMMA ConsumedFits ==
  ASSUME NEW s \in CallState, NEW r \in Input, NEW s2 \in CallState, NEW r2 \in Record,
         r2.key = r.key, r2.pressed = r.pressed, Len(s2.buf) = Len(s.buf),
         s.disturbed => s2.disturbed
  PROVE  Fits(s, r, Consumed(s2, r2)) /\ Fits(s, r, Waits(s2, r2))
<1>1. r2 \in Input
  BY DEF Input
<1> DEFINE c == Consumed(s2, r2)
           w == Waits(s2, r2)
<1>2. c.s = s2 /\ c.rec = r2 /\ c.done = TRUE /\ w.s = s2 /\ w.rec = r2 /\ w.done = FALSE
  BY DEF Consumed, Waits
<1> HIDE DEF c, w
<1>3. Fits(s, r, c)
  BY <1>1, <1>2 DEF Fits
<1>4. Fits(s, r, w)
  BY <1>1, <1>2 DEF Fits
<1> QED  BY <1>3, <1>4 DEF c, w

LEMMA ResultFits ==
  ASSUME NEW s \in CallState, NEW r \in Input
  PROVE  Fits(s, r, ProcessTapping(s, r))
<1> DEFINE p == ProcessTapping(s, r)
<1>0. r \in Record /\ s.tap \in Record /\ None \in Record /\ (r.key = NoKey => ~r.pressed)
  BY NoneTyped DEF Input, CallState
<1>1. \A s1 \in CallState : \A r1 \in Record :
         /\ Process(s1, r1) \in CallState /\ Process(s1, r1).buf = s1.buf
         /\ Process(s1, r1).disturbed = s1.disturbed
         /\ Start(s1, r1) \in CallState /\ Start(s1, r1).buf = s1.buf
         /\ Start(s1, r1).disturbed = s1.disturbed /\ Start(s1, r1).tap = r1
         /\ Forget(s1) \in CallState /\ Forget(s1).buf = s1.buf
         /\ Forget(s1).disturbed = s1.disturbed
  <2> SUFFICES ASSUME NEW s1 \in CallState, NEW r1 \in Record
               PROVE  /\ Process(s1, r1) \in CallState /\ Process(s1, r1).buf = s1.buf
                      /\ Process(s1, r1).disturbed = s1.disturbed
                      /\ Start(s1, r1) \in CallState /\ Start(s1, r1).buf = s1.buf
                      /\ Start(s1, r1).disturbed = s1.disturbed /\ Start(s1, r1).tap = r1
                      /\ Forget(s1) \in CallState /\ Forget(s1).buf = s1.buf
                      /\ Forget(s1).disturbed = s1.disturbed
    OBVIOUS
  <2>1. /\ Process(s1, r1) \in CallState /\ Process(s1, r1).buf = s1.buf
        /\ Process(s1, r1).disturbed = s1.disturbed
    BY ProcessEffect
  <2>2. /\ Start(s1, r1) \in CallState /\ Start(s1, r1).buf = s1.buf
        /\ Start(s1, r1).disturbed = s1.disturbed /\ Start(s1, r1).tap = r1
    BY StartEffect
  <2>3. /\ Forget(s1) \in CallState /\ Forget(s1).buf = s1.buf
        /\ Forget(s1).disturbed = s1.disturbed
    <3>1. Forget(s1) = Start(s1, None)
      BY DEF Forget, Start
    <3>2. Start(s1, None) \in CallState /\ Start(s1, None).buf = s1.buf
          /\ Start(s1, None).disturbed = s1.disturbed
      BY <1>0, StartEffect
    <3> QED  BY <3>1, <3>2
  <2> QED  BY <2>1, <2>2, <2>3
<1>2. CASE s.tap.key = NoKey
  <2>1. CASE r.pressed /\ IsTap(r)
    <3>1. p = Consumed(ScanTap(Start(s, r)), r)
      BY <1>2, <2>1, WhenNone
    <3>2. Start(s, r).tap.key # NoKey
      BY <1>0, <1>1, <2>1
    <3>3. /\ ScanTap(Start(s, r)) \in CallState /\ Len(ScanTap(Start(s, r)).buf) = Len(s.buf)
          /\ ScanTap(Start(s, r)).disturbed = s.disturbed
      BY <1>0, <1>1, <3>2, ScanTyped
    <3> QED  BY <1>0, <3>1, <3>3, ConsumedFits
  <2>2. CASE ~(r.pressed /\ IsTap(r))
    <3>1. p = Consumed(Process(s, r), r)
      BY <1>2, <2>2, WhenNone
    <3> QED  BY <1>0, <1>1, <3>1, ConsumedFits
  <2> QED  BY <2>1, <2>2
<1>3. CASE IsOpen(s)
  <2>1. CASE p = Waits(Forget(Process(s, s.tap)), r)
    <3>1. /\ Process(s, s.tap) \in CallState /\ Process(s, s.tap).buf = s.buf
          /\ Process(s, s.tap).disturbed = s.disturbed
      BY <1>0, <1>1
    <3>2. /\ Forget(Process(s, s.tap)) \in CallState /\ Forget(Process(s, s.tap)).buf = s.buf
          /\ Forget(Process(s, s.tap)).disturbed = s.disturbed
      BY <1>0, <1>1, <3>1
    <3> QED  BY <1>0, <2>1, <3>2, ConsumedFits
  <2>2. CASE p = Waits(s, r)
    BY <1>0, <2>2, ConsumedFits
  <2>3. CASE p = Waits([s EXCEPT !.tap.interrupted = TRUE], r)
    <3>1. PICK s2 \in CallState :
            /\ s2 = [s EXCEPT !.tap.interrupted = TRUE]
            /\ s2.buf = s.buf /\ s2.disturbed = s.disturbed
      BY InterruptEffect
    <3>2. p = Waits(s2, r)
      BY <2>3, <3>1
    <3>3. Fits(s, r, Waits(s2, r))
      BY <1>0, <3>1, ConsumedFits
    <3> QED  BY <3>2, <3>3
  <2>4. CASE p = Waits(TapNow(s), Release(r, TapNow(s).tap))
    <3>1. s.tap.key # NoKey
      BY <1>3 DEF IsOpen
    <3>2. /\ TapNow(s) \in CallState /\ TapNow(s).buf = s.buf
          /\ TapNow(s).disturbed = s.disturbed
      BY <3>1, TapNowEffect
    <3>3. TapNow(s).tap \in Record
      BY <3>2 DEF CallState
    <3> QED  BY <1>0, <2>4, <3>2, <3>3, ReleaseTyped, ConsumedFits
  <2>5. CASE p = Consumed(Process(s, r), r)
    BY <1>0, <1>1, <2>5, ConsumedFits
  <2> QED  BY <1>3, <2>1, <2>2, <2>3, <2>4, <2>5, WhenOpen
<1>4. CASE IsTapped(s)
  <2>1. CASE r.key = s.tap.key /\ ~r.pressed
    <3> DEFINE up == Release(r, s.tap)
               t2 == IF Within(s.tap, r) THEN up ELSE None
    <3>1. p = Consumed(Start(Process(s, up), t2), up)
      BY <1>4, <2>1, WhenTapped
    <3>2. up \in Record /\ up.key = r.key /\ up.pressed = r.pressed /\ t2 \in Record
      BY <1>0, ReleaseTyped
    <3> HIDE DEF up, t2
    <3>3. /\ Process(s, up) \in CallState /\ Process(s, up).buf = s.buf
          /\ Process(s, up).disturbed = s.disturbed
      BY <1>1, <3>2
    <3>4. /\ Start(Process(s, up), t2) \in CallState /\ Start(Process(s, up), t2).buf = s.buf
          /\ Start(Process(s, up), t2).disturbed = s.disturbed
      BY <1>1, <3>2, <3>3
    <3> QED  BY <3>1, <3>2, <3>4, ConsumedFits
  <2>2. CASE ~(r.key = s.tap.key /\ ~r.pressed) /\ r.pressed /\ IsTap(r)
    <3>1. p = Consumed(ScanTap(Start(Left(s, r), r)), r)
      BY <1>4, <2>2, WhenTapped
    <3>2. /\ Left(s, r) \in CallState /\ Left(s, r).buf = s.buf
          /\ Left(s, r).disturbed = s.disturbed
      BY <1>0, <1>4, LeftEffect DEF IsTapped
    <3> DEFINE s1 == Start(Left(s, r), r)
    <3>3. /\ s1 \in CallState /\ s1.buf = s.buf /\ s1.disturbed = s.disturbed
          /\ s1.tap.key # NoKey
      BY <1>0, <1>1, <2>2, <3>2
    <3> HIDE DEF s1
    <3>4. /\ ScanTap(s1) \in CallState /\ Len(ScanTap(s1).buf) = Len(s.buf)
          /\ ScanTap(s1).disturbed = s.disturbed
      BY <3>3, ScanTyped
    <3>5. p = Consumed(ScanTap(s1), r)
      BY <3>1 DEF s1
    <3> QED  BY <1>0, <3>4, <3>5, ConsumedFits
  <2>3. CASE ~(r.key = s.tap.key /\ ~r.pressed) /\ ~(r.pressed /\ IsTap(r))
    <3>1. p = Consumed(Process(s, r), r)
      BY <1>4, <2>3, WhenTapped
    <3> QED  BY <1>0, <1>1, <3>1, ConsumedFits
  <2> QED  BY <2>1, <2>2, <2>3
<1>5. CASE IsUp(s)
  <2>1. CASE p = Waits(Forget(s), r)
    BY <1>0, <1>1, <2>1, ConsumedFits
  <2>2. CASE p = Consumed(Process(s, r), r)
    BY <1>0, <1>1, <2>2, ConsumedFits
  <2>3. CASE p = Consumed(StartAgain(s, r), r)
    <3>1. /\ StartAgain(s, r) \in CallState /\ StartAgain(s, r).buf = s.buf
          /\ (s.disturbed => StartAgain(s, r).disturbed)
      BY <1>0, StartAgainEffect
    <3> QED  BY <1>0, <2>3, <3>1, ConsumedFits
  <2>4. CASE p = Consumed(Start(Process(s, Again(s, r)), Again(s, r)), Again(s, r))
    <3> DEFINE a == Again(s, r)
    <3>1. a \in Record /\ a.key = r.key /\ a.pressed = r.pressed
      BY <1>0, AgainTyped
    <3>2. p = Consumed(Start(Process(s, a), a), a)
      BY <2>4
    <3> HIDE DEF a
    <3>3. /\ Process(s, a) \in CallState /\ Process(s, a).buf = s.buf
          /\ Process(s, a).disturbed = s.disturbed
      BY <1>1, <3>1
    <3>4. /\ Start(Process(s, a), a) \in CallState /\ Start(Process(s, a), a).buf = s.buf
          /\ Start(Process(s, a), a).disturbed = s.disturbed
      BY <1>1, <3>1, <3>3
    <3> QED  BY <3>1, <3>2, <3>4, ConsumedFits
  <2>5. CASE p = Consumed(ScanTap(Start(s, r)), r) /\ r.pressed
    <3>1. /\ ScanTap(Start(s, r)) \in CallState /\ Len(ScanTap(Start(s, r)).buf) = Len(s.buf)
          /\ ScanTap(Start(s, r)).disturbed = s.disturbed
      <4>1. Start(s, r).tap.key # NoKey
        BY <1>0, <1>1, <2>5
      <4> QED  BY <1>0, <1>1, <4>1, ScanTyped
    <3> QED  BY <1>0, <2>5, <3>1, ConsumedFits
  <2>6. CASE p = Consumed(Process([s EXCEPT !.tap.interrupted = TRUE], r), r)
    <3>1. PICK s2 \in CallState :
            /\ s2 = [s EXCEPT !.tap.interrupted = TRUE]
            /\ s2.buf = s.buf /\ s2.disturbed = s.disturbed
      BY InterruptEffect
    <3>2. p = Consumed(Process(s2, r), r)
      BY <2>6, <3>1
    <3>3. /\ Process(s2, r) \in CallState /\ Process(s2, r).buf = s.buf
          /\ Process(s2, r).disturbed = s.disturbed
      BY <1>0, <1>1, <3>1
    <3>4. Fits(s, r, Consumed(Process(s2, r), r))
      BY <1>0, <3>3, ConsumedFits
    <3> QED  BY <3>2, <3>4
  <2> QED  BY <1>5, <2>1, <2>2, <2>3, <2>4, <2>5, <2>6, WhenUp
<1> QED  BY <1>2, <1>3, <1>4, <1>5, Phases

(* One round, and the record that comes to wait.                           *)
LEMMA RoundFits ==
  ASSUME NEW s \in CallState, Len(s.buf) > 0
  PROVE  LET p == ProcessTapping(s, Head(s.buf))
         IN  /\ Head(s.buf) \in KeyRecord /\ Fits(s, Head(s.buf), p)
             /\ Round(s).done = p.done /\ Round(s).done \in BOOLEAN
             /\ Round(s).s \in CallState
             /\ Round(s).s.tap = p.s.tap /\ Round(s).s.reg = p.s.reg
             /\ Round(s).s.owed = p.s.owed /\ Round(s).s.disturbed = p.s.disturbed
             /\ p.done => Round(s).s.buf = Tail(p.s.buf)
             /\ ~p.done => p.rec \in KeyRecord /\ Round(s).s.buf = [p.s.buf EXCEPT ![1] = p.rec]
<1> DEFINE r == Head(s.buf)
           p == ProcessTapping(s, r)
           b2 == IF p.done THEN Tail(p.s.buf) ELSE [p.s.buf EXCEPT ![1] = p.rec]
<1>1. s.buf \in Seq(KeyRecord) /\ r \in KeyRecord
  BY DEF CallState
<1>2. r \in Input /\ r.key \in Keys
  BY <1>1, KeyRecords DEF KeyRecord
<1>3. Fits(s, r, p)
  BY <1>2, ResultFits
<1>4. Round(s) = [done |-> p.done, s |-> [p.s EXCEPT !.buf = b2]]
  BY DEF Round
<1> HIDE DEF p, r
<1>5. p.s.buf \in Seq(KeyRecord) /\ Len(p.s.buf) > 0 /\ p.rec \in KeyRecord
  BY <1>2, <1>3, KeyRecords, Constants DEF Fits, CallState
<1>6. b2 \in Seq(KeyRecord)
  BY <1>5
<1>7. p.s \in CallState /\ p.done \in BOOLEAN
  BY <1>3 DEF Fits
<1> DEFINE s2 == [p.s EXCEPT !.buf = b2]
<1>8. Round(s).done = p.done /\ Round(s).s = s2
  BY <1>4
<1> HIDE DEF b2
<1>9. /\ s2 \in CallState /\ s2.buf = b2 /\ s2.tap = p.s.tap /\ s2.reg = p.s.reg
      /\ s2.owed = p.s.owed /\ s2.disturbed = p.s.disturbed
  BY <1>6, <1>7 DEF CallState
<1> HIDE DEF s2
<1>10. /\ p.done => b2 = Tail(p.s.buf)
       /\ ~p.done => b2 = [p.s.buf EXCEPT ![1] = p.rec]
  BY DEF b2
<1> QED  BY <1>1, <1>3, <1>5, <1>7, <1>8, <1>9, <1>10 DEF p, r

LEMMA PressesTyped ==
  ASSUME NEW b \in Seq(KeyRecord), NEW k
  PROVE  Presses(b, k) \in Nat
<1> DEFINE S == {i \in DOMAIN b : b[i].key = k /\ b[i].pressed}
<1>1. IsFiniteSet(1 .. Len(b)) /\ S \subseteq 1 .. Len(b)
  BY FS_Interval
<1> HIDE DEF S
<1>2. Cardinality(S) \in Nat
  BY <1>1, FS_Subset, FS_CardinalityType
<1> QED  BY <1>2 DEF Presses, S

LEMMA PendingTyped == \A s, k : Pending(s, k) \in {0, 1}
BY DEF Pending

LEMMA WaitingTyped ==
  ASSUME NEW s \in CallState, NEW k
  PROVE  Waiting(s, k) \in Nat
<1>1. Presses(s.buf, k) \in Nat /\ Pending(s, k) \in Nat
  BY PressesTyped, PendingTyped DEF CallState
<1> QED  BY <1>1 DEF Waiting

LEMMA EnqueuedEffect ==
  ASSUME NEW s \in CallState, NEW r \in Input
  PROVE  /\ Enqueued(s, r) \in CallState
         /\ Len(s.buf) < WAITING_BUFFER_SIZE => Len(Enqueued(s, r).buf) < WAITING_BUFFER_SIZE
         /\ Enqueued(s, r).disturbed = s.disturbed
         /\ r.key = NoKey => Enqueued(s, r) = s
         /\ r.key # NoKey /\ Len(s.buf) + 1 < WAITING_BUFFER_SIZE =>
               /\ Enqueued(s, r).buf = Append(s.buf, r) /\ Enqueued(s, r).tap = s.tap
               /\ Enqueued(s, r).reg = s.reg /\ Enqueued(s, r).owed = s.owed
         /\ r.key # NoKey /\ ~(Len(s.buf) + 1 < WAITING_BUFFER_SIZE) =>
               /\ Enqueued(s, r).buf = <<>> /\ Enqueued(s, r).tap = None
               /\ Enqueued(s, r).reg = {}
               /\ \A k \in Keys : Enqueued(s, r).owed[k] = s.owed[k] - Waiting(s, k)
                                     - IF k = r.key /\ r.pressed THEN 1 ELSE 0
<1>1. CASE r.key = NoKey
  BY <1>1 DEF Enqueued
<1>2. CASE r.key # NoKey /\ Len(s.buf) + 1 < WAITING_BUFFER_SIZE
  <2> DEFINE b2 == Append(s.buf, r)
  <2>1. Enqueued(s, r) = [s EXCEPT !.buf = b2]
    BY <1>2 DEF Enqueued
  <2>2. s.buf \in Seq(KeyRecord) /\ r \in KeyRecord
    BY <1>2, KeyRecords DEF CallState
  <2>3. b2 \in Seq(KeyRecord) /\ Len(b2) = Len(s.buf) + 1
    BY <2>2
  <2> HIDE DEF b2
  <2>4. /\ Enqueued(s, r) \in CallState /\ Enqueued(s, r).buf = b2
        /\ Enqueued(s, r).tap = s.tap /\ Enqueued(s, r).reg = s.reg
        /\ Enqueued(s, r).owed = s.owed /\ Enqueued(s, r).disturbed = s.disturbed
    BY <2>1, <2>3 DEF CallState
  <2> QED  BY <1>2, <2>3, <2>4 DEF b2
<1>3. CASE r.key # NoKey /\ ~(Len(s.buf) + 1 < WAITING_BUFFER_SIZE)
  <2> DEFINE ow == [k \in Keys |-> s.owed[k] - Waiting(s, k)
                                       - IF k = r.key /\ r.pressed THEN 1 ELSE 0]
  <2>1. Enqueued(s, r) = [s EXCEPT !.tap = None, !.buf = <<>>, !.reg = {}, !.owed = ow]
    BY <1>3 DEF Enqueued, Cleared
  <2>2. ow \in [Keys -> Int] /\ None \in Record /\ << >> \in Seq(KeyRecord)
    BY NoneTyped, WaitingTyped DEF CallState
  <2>5. \A k \in Keys : ow[k] = s.owed[k] - Waiting(s, k)
                                   - IF k = r.key /\ r.pressed THEN 1 ELSE 0
    OBVIOUS
  <2> HIDE DEF ow
  <2>3. /\ Enqueued(s, r) \in CallState /\ Enqueued(s, r).buf = <<>>
        /\ Enqueued(s, r).tap = None /\ Enqueued(s, r).reg = {}
        /\ Enqueued(s, r).owed = ow /\ Enqueued(s, r).disturbed = s.disturbed
    BY <2>1, <2>2 DEF CallState
  <2>4. Len(Enqueued(s, r).buf) = 0
    BY <2>3
  <2> QED  BY <1>3, <2>3, <2>4, <2>5, Constants
<1> QED  BY <1>1, <1>2, <1>3

(* What a round leaves to the next.                                        *)
Steps == [done : BOOLEAN, s : CallState]

LEMMA DrainedTyped ==
  ASSUME NEW s \in CallState
  PROVE  Drained(s) \in CallState /\ Len(Drained(s).buf) <= Len(s.buf)
<1> DEFINE N == Len(s.buf)
           G == {y \in (0 .. N) \X Steps :
                   /\ y[2].done => Len(y[2].s.buf) = N - y[1]
                   /\ Len(y[2].s.buf) <= N}
<1>1. N \in Nat
  BY EndsWait
<1> HIDE DEF N
<1>2. <<0, [done |-> TRUE, s |-> s]>> \in G
  <2> DEFINE x == [done |-> TRUE, s |-> s]
  <2>1. x \in Steps /\ x.s = s
    BY DEF Steps
  <2>2. Len(s.buf) = N
    BY DEF N
  <2> HIDE DEF x
  <2>3. <<0, x>> \in G
    BY <1>1, <2>1, <2>2
  <2> QED  BY <2>3 DEF x
<1>3. ASSUME NEW n \in 0 .. N - 1, NEW x, <<n, x>> \in G
      PROVE  <<n + 1, IF x.done THEN Round(x.s) ELSE x>> \in G
  <2>1. /\ x \in Steps /\ (x.done => Len(x.s.buf) = N - n) /\ Len(x.s.buf) <= N
        /\ x.s \in CallState /\ x.done \in BOOLEAN /\ n + 1 \in 0 .. N
    BY <1>1, <1>3 DEF Steps
  <2>2. CASE x.done
    <3>1. Len(x.s.buf) > 0 /\ Len(x.s.buf) = N - n
      BY <1>1, <2>1, <2>2
    <3> DEFINE p == ProcessTapping(x.s, Head(x.s.buf))
               y == Round(x.s)
    <3>2. /\ Fits(x.s, Head(x.s.buf), p) /\ y.done = p.done /\ y.done \in BOOLEAN
          /\ y.s \in CallState /\ (p.done => y.s.buf = Tail(p.s.buf))
          /\ (~p.done => y.s.buf = [p.s.buf EXCEPT ![1] = p.rec])
      BY <2>1, <3>1, RoundFits
    <3>3. y \in Steps
      <4>1. \E a, b : y = [done |-> a, s |-> b]
        BY DEF Round
      <4> QED  BY <3>2, <4>1 DEF Steps
    <3> HIDE DEF p, y
    <3>4. p.s.buf \in Seq(KeyRecord) /\ Len(p.s.buf) = N - n
      BY <3>1, <3>2 DEF Fits, CallState
    <3>5. (y.done => Len(y.s.buf) = N - (n + 1)) /\ Len(y.s.buf) <= N
      <4>1. CASE p.done
        <5>1. Len(Tail(p.s.buf)) = N - n - 1
          BY <1>1, <3>1, <3>4
        <5>2. y.s.buf = Tail(p.s.buf)
          BY <3>2, <4>1
        <5>3. Len(y.s.buf) = N - n - 1
          BY <5>1, <5>2
        <5> QED  BY <1>1, <5>3
      <4>2. CASE ~p.done
        <5>1. Len([p.s.buf EXCEPT ![1] = p.rec]) = N - n
          BY <3>4
        <5>2. y.s.buf = [p.s.buf EXCEPT ![1] = p.rec] /\ ~y.done
          BY <3>2, <4>2
        <5> QED  BY <1>1, <5>1, <5>2
      <4> QED  BY <4>1, <4>2
    <3>6. <<n + 1, y>> \in G
      BY <2>1, <3>3, <3>5
    <3> QED  BY <2>2, <3>6 DEF y
  <2>3. CASE ~x.done
    <3>1. <<n + 1, x>> \in G
      BY <2>1, <2>3
    <3> QED  BY <2>3, <3>1
  <2> QED  BY <2>1, <2>2, <2>3
<1>4. PICK x : <<N, x>> \in G /\ Drained(s) = x.s
  <2> HIDE DEF G
  <2> QED  BY <1>1, <1>2, <1>3, DrainedBy DEF N
<1> QED  BY <1>4 DEF Steps, N

(* The state at the beginning of a call.                                   *)
Began(r) ==
  [State EXCEPT
     !.owed  = [k \in Keys |-> owed[k] + Due(State, r, k)],
     !.disturbed = @ \/ (r.key # NoKey /\ waiting_buffer # <<>> /\ ~Open)]

Met(r) ==
  LET p == ProcessTapping(Began(r), r) IN IF p.done THEN p.s ELSE Enqueued(p.s, p.rec)

Keyed == waiting_buffer \in Seq(KeyRecord)

LEMMA BeganTyped ==
  ASSUME TypeOK, Keyed, NEW r \in Input
  PROVE  /\ Began(r) \in CallState
         /\ Began(r).tap = tapping_key /\ Began(r).buf = waiting_buffer
         /\ Began(r).reg = registered
         /\ \A k \in Keys : Began(r).owed[k] = owed[k] + Due(State, r, k)
         /\ Began(r).disturbed =
               (disturbed \/ (r.key # NoKey /\ waiting_buffer # <<>> /\ ~Open))
<1> DEFINE ow == [k \in Keys |-> owed[k] + Due(State, r, k)]
           di == disturbed \/ (r.key # NoKey /\ waiting_buffer # <<>> /\ ~Open)
<1>1. ow \in [Keys -> Int] /\ di \in BOOLEAN
  <2>1. \A k \in Keys : owed[k] \in Int /\ Due(State, r, k) \in Int
    BY DEF TypeOK, Due
  <2> QED  BY <2>1 DEF TypeOK
<1>2. /\ State \in CallState /\ State.tap = tapping_key /\ State.buf = waiting_buffer
      /\ State.reg = registered /\ State.owed = owed /\ State.disturbed = disturbed
  BY DEF State, CallState, TypeOK, Keyed
<1>3. \A k \in Keys : ow[k] = owed[k] + Due(State, r, k)
  OBVIOUS
<1>4. Began(r) = [State EXCEPT !.owed = ow, !.disturbed = di]
  BY <1>2 DEF Began
<1> HIDE DEF ow, di
<1>5. /\ Began(r) \in CallState /\ Began(r).tap = tapping_key
      /\ Began(r).buf = waiting_buffer /\ Began(r).reg = registered
      /\ Began(r).owed = ow /\ Began(r).disturbed = di
  BY <1>1, <1>2, <1>4 DEF CallState
<1> QED  BY <1>3, <1>5 DEF di

LEMMA CallTyped ==
  ASSUME TypeOK, Keyed, NEW r \in Input, ActionTapping(r)
  PROVE  \E after \in CallState :
            /\ after = Drained(Met(r)) /\ Len(after.buf) < WAITING_BUFFER_SIZE
            /\ tapping_key' = after.tap /\ waiting_buffer' = after.buf
            /\ registered' = after.reg /\ disturbed' = after.disturbed
            /\ owed' = IF after.disturbed THEN NoOnes ELSE after.owed
<1> DEFINE s == Began(r)
           p == ProcessTapping(s, r)
<1>1. s \in CallState /\ s.buf = waiting_buffer
  BY BeganTyped
<1>2. Fits(s, r, p)
  BY <1>1, ResultFits
<1>3. ActionTapping(r) <=>
        \E after \in {Drained(Met(r))} :
              /\ tapping_key' = after.tap /\ waiting_buffer' = after.buf
              /\ registered' = after.reg /\ disturbed' = after.disturbed
              /\ owed' = IF after.disturbed THEN NoOnes ELSE after.owed
  BY DEF ActionTapping, Met, Began
<1>4. Met(r) = IF p.done THEN p.s ELSE Enqueued(p.s, p.rec)
  BY DEF Met
<1> HIDE DEF s, p
<1>5. Len(p.s.buf) < WAITING_BUFFER_SIZE
  BY <1>1, <1>2 DEF Fits, TypeOK
<1>6. Met(r) \in CallState /\ Len(Met(r).buf) < WAITING_BUFFER_SIZE
  BY <1>2, <1>4, <1>5, EnqueuedEffect DEF Fits
<1>7. Drained(Met(r)) \in CallState /\ Len(Drained(Met(r)).buf) < WAITING_BUFFER_SIZE
  <2>1. Drained(Met(r)) \in CallState /\ Len(Drained(Met(r)).buf) <= Len(Met(r).buf)
    BY <1>6, DrainedTyped
  <2>2. Len(Met(r).buf) \in Nat /\ Len(Drained(Met(r)).buf) \in Nat
    BY <1>6, <2>1, EndsWait
  <2> QED  BY <1>6, <2>1, <2>2, Constants
<1> QED  BY <1>3, <1>7

LEMMA TypeInit == Init => TypeOK /\ Keyed
<1> SUFFICES ASSUME Init PROVE TypeOK /\ Keyed
  OBVIOUS
<1>1. NoOnes \in [Keys -> Int]
  BY DEF NoOnes
<1>2. waiting_buffer \in Seq(Record) /\ waiting_buffer \in Seq(KeyRecord)
      /\ Len(waiting_buffer) < WAITING_BUFFER_SIZE
  BY Constants DEF Init
<1>3. timer \in 0 .. Width - 1 /\ down \in SUBSET Keys /\ tapping_key \in Record
  BY NoneTyped, Constants DEF Init
<1>4. /\ keymap \in Keymaps /\ QS \in [tapping : Tappings, tapping_term : Terms]
      /\ registered \in SUBSET (Keys \X {"code", "mods"})
      /\ disturbed \in BOOLEAN /\ fresh \in SUBSET Keys
  BY DEF Init
<1>5. owed \in [Keys -> Int]
  BY <1>1 DEF Init
<1> QED  BY <1>2, <1>3, <1>4, <1>5 DEF TypeOK, Keyed

LEMMA ClockTyped ==
  ASSUME TypeOK, NEW d \in Nat, Clock(d)
  PROVE  timer' \in 0 .. Width - 1
BY Constants DEF TypeOK, Clock

LEMMA CallTypeOK ==
  ASSUME TypeOK, Keyed, NEW r \in Input, ActionTapping(r), timer' \in 0 .. Width - 1,
         keymap' = keymap, QS' = QS, down' \in SUBSET Keys, fresh' \in SUBSET Keys
  PROVE  (TypeOK /\ Keyed)'
<1>1. PICK after \in CallState :
            /\ Len(after.buf) < WAITING_BUFFER_SIZE
            /\ tapping_key' = after.tap /\ waiting_buffer' = after.buf
            /\ registered' = after.reg /\ disturbed' = after.disturbed
            /\ owed' = IF after.disturbed THEN NoOnes ELSE after.owed
  BY CallTyped
<1>2. after.buf \in Seq(KeyRecord)
  BY DEF CallState
<1>3. after.buf \in Seq(Record)
  BY <1>2, KeyRecords
<1>4. owed' \in [Keys -> Int]
  BY <1>1 DEF CallState, NoOnes
<1>5. /\ tapping_key' \in Record /\ registered' \in SUBSET (Keys \X {"code", "mods"})
      /\ disturbed' \in BOOLEAN
  BY <1>1 DEF CallState
<1> QED  BY <1>1, <1>2, <1>3, <1>4, <1>5 DEF TypeOK, Keyed

LEMMA TypeStep == TypeOK /\ Keyed /\ [Next]_vars => (TypeOK /\ Keyed)'
<1> SUFFICES ASSUME TypeOK, Keyed, [Next]_vars
             PROVE  (TypeOK /\ Keyed)'
  OBVIOUS
<1>1. ASSUME NEW k \in Keys, NEW d \in 0 .. MaxGap, Change(k, d)
      PROVE  (TypeOK /\ Keyed)'
  <2>1. timer' \in 0 .. Width - 1
    BY <1>1, ClockTyped, Constants DEF Change
  <2>2. Event(k, k \notin down, timer') \in Input
    <3> DEFINE up == k \notin down
               e == Event(k, up, timer')
    <3>1. up \in BOOLEAN
      OBVIOUS
    <3> HIDE DEF up
    <3>2. e \in Record /\ e.key = k
      BY <2>1, <3>1, EventTyped
    <3> HIDE DEF e
    <3>3. e \in Input
      BY <3>2, Constants DEF Input
    <3> QED  BY <3>3 DEF e, up
  <2>3. ActionTapping(Event(k, k \notin down, timer'))
    BY <1>1 DEF Change
  <2>4. /\ keymap' = keymap /\ QS' = QS /\ down' \in SUBSET Keys /\ fresh' \in SUBSET Keys
    BY <1>1 DEF Change, TypeOK
  <2> QED  BY <2>1, <2>2, <2>3, <2>4, CallTypeOK
<1>2. ASSUME NEW d \in 1 .. MaxGap, Tick(d)
      PROVE  (TypeOK /\ Keyed)'
  <2>1. timer' \in 0 .. Width - 1
    BY <1>2, ClockTyped, Constants DEF Tick, Quiet
  <2>2. Event(NoKey, FALSE, timer') \in Input
    BY <2>1, EventTyped, Constants DEF Input
  <2>3. ActionTapping(Event(NoKey, FALSE, timer'))
    BY <1>2 DEF Tick
  <2>4. /\ keymap' = keymap /\ QS' = QS /\ down' \in SUBSET Keys /\ fresh' \in SUBSET Keys
    BY <1>2 DEF Tick, Quiet, TypeOK
  <2> QED  BY <2>1, <2>2, <2>3, <2>4, CallTypeOK
<1>3. ASSUME NEW tapping \in Tappings, NEW term \in Terms, SetTapping(tapping, term)
      PROVE  (TypeOK /\ Keyed)'
  <2>1. QS' \in [tapping : Tappings, tapping_term : Terms]
    BY <1>3 DEF SetTapping
  <2>2. disturbed' \in BOOLEAN
    BY <1>3 DEF SetTapping, TypeOK
  <2> QED  BY <1>3, <2>1, <2>2 DEF SetTapping, TypeOK, Keyed
<1>4. CASE UNCHANGED vars
  BY <1>4 DEF vars, TypeOK, Keyed
<1> QED  BY <1>1, <1>2, <1>3, <1>4 DEF Next

(* Tap and hold keeps its types, whatever the keys, the settings and the   *)
(* size of the buffer: the records that wait are of keys and always leave  *)
(* one place of waiting_buffer free (waiting_buffer_enq).                  *)
THEOREM TypeCorrect == Spec => []TypeOK
<1>1. Init => TypeOK /\ Keyed
  BY TypeInit
<1>2. TypeOK /\ Keyed /\ [Next]_vars => (TypeOK /\ Keyed)'
  BY TypeStep
<1> QED  BY <1>1, <1>2, PTL DEF Spec

----------------------------------------------------------------------------
(* g[i] are the keys that are down when the first i of the records that    *)
(* wait have come; dn are those that are down when all of them have.       *)
Path(b, g, dn) ==
  /\ g \in [0 .. Len(b) -> SUBSET Keys] /\ g[Len(b)] = dn
  /\ \A i \in 1 .. Len(b) :
        /\ b[i].pressed <=> b[i].key \notin g[i - 1]
        /\ g[i] = IF b[i].pressed THEN g[i - 1] \cup {b[i].key} ELSE g[i - 1] \ {b[i].key}

(* The place of the first record of a key.                                 *)
First(b, k, j) == j \in 1 .. Len(b) /\ b[j].key = k /\ \A i \in 1 .. j - 1 : b[i].key # k

(* The same records but for their marks.                                   *)
Same(b, b2) ==
  /\ Len(b2) = Len(b)
  /\ \A i \in 1 .. Len(b) : /\ b2[i].key = b[i].key /\ b2[i].pressed = b[i].pressed
                            /\ b2[i].time = b[i].time

LEMMA TailFacts ==
  ASSUME NEW b \in Seq(KeyRecord), Len(b) > 0
  PROVE  /\ Tail(b) \in Seq(KeyRecord) /\ Len(Tail(b)) = Len(b) - 1 /\ Len(Tail(b)) \in Nat
         /\ \A i \in 1 .. Len(Tail(b)) : Tail(b)[i] = b[i + 1] /\ Tail(b)[i] \in KeyRecord
         /\ Head(b) = b[1] /\ b[1] \in KeyRecord
OBVIOUS

LEMMA AppendFacts ==
  ASSUME NEW b \in Seq(KeyRecord), NEW r \in KeyRecord
  PROVE  /\ Append(b, r) \in Seq(KeyRecord) /\ Len(Append(b, r)) = Len(b) + 1
         /\ Len(b) \in Nat
         /\ \A i \in 1 .. Len(b) : Append(b, r)[i] = b[i] /\ b[i] \in KeyRecord
         /\ Append(b, r)[Len(b) + 1] = r
OBVIOUS

LEMMA PathTail ==
  ASSUME NEW b \in Seq(KeyRecord), Len(b) > 0, NEW g, NEW dn, Path(b, g, dn)
  PROVE  \E h : /\ Path(Tail(b), h, dn) /\ h[0] = g[1]
                /\ g[1] = IF Head(b).pressed THEN g[0] \cup {Head(b).key}
                          ELSE g[0] \ {Head(b).key}
                /\ (Head(b).pressed <=> Head(b).key \notin g[0])
                /\ g[0] \in SUBSET Keys
<1> DEFINE n == Len(b)
           q == Tail(b)
           h == [i \in 0 .. n - 1 |-> g[i + 1]]
<1>1. /\ n \in Nat /\ n > 0 /\ Len(q) = n - 1
      /\ \A i \in 1 .. n - 1 : q[i] = b[i + 1]
      /\ Head(b) = b[1]
  BY TailFacts
<1>2. /\ g \in [0 .. n -> SUBSET Keys] /\ g[n] = dn
      /\ \A i \in 1 .. n :
            /\ b[i].pressed <=> b[i].key \notin g[i - 1]
            /\ g[i] = IF b[i].pressed THEN g[i - 1] \cup {b[i].key} ELSE g[i - 1] \ {b[i].key}
  BY DEF Path
<1> HIDE DEF q, n
<1>3. h \in [0 .. n - 1 -> SUBSET Keys] /\ h[n - 1] = dn
  BY <1>1, <1>2
<1>4. ASSUME NEW i \in 1 .. n - 1
      PROVE  /\ q[i].pressed <=> q[i].key \notin h[i - 1]
             /\ h[i] = IF q[i].pressed THEN h[i - 1] \cup {q[i].key} ELSE h[i - 1] \ {q[i].key}
  <2>1. /\ i + 1 \in 1 .. n /\ (i + 1) - 1 = i /\ h[i] = g[i + 1] /\ h[i - 1] = g[i]
        /\ q[i] = b[i + 1]
    BY <1>1
  <2> HIDE DEF h
  <2>2. /\ b[i + 1].pressed <=> b[i + 1].key \notin g[(i + 1) - 1]
        /\ g[i + 1] = IF b[i + 1].pressed THEN g[(i + 1) - 1] \cup {b[i + 1].key}
                      ELSE g[(i + 1) - 1] \ {b[i + 1].key}
    BY <1>2, <2>1
  <2> QED  BY <2>1, <2>2
<1>5. h[0] = g[1]
  BY <1>1
<1> HIDE DEF h
<1>6. Path(q, h, dn)
  BY <1>1, <1>3, <1>4 DEF Path
<1>7. /\ b[1].pressed <=> b[1].key \notin g[0]
      /\ g[1] = IF b[1].pressed THEN g[0] \cup {b[1].key} ELSE g[0] \ {b[1].key}
  <2>1. 1 \in 1 .. n /\ 1 - 1 = 0
    BY <1>1
  <2> QED  BY <1>2, <2>1
<1>8. g[0] \in SUBSET Keys
  BY <1>1, <1>2
<1> QED  BY <1>1, <1>5, <1>6, <1>7, <1>8 DEF q

LEMMA PathSame ==
  ASSUME NEW b, NEW b2, NEW g, NEW dn, Path(b, g, dn), Same(b, b2)
  PROVE  Path(b2, g, dn)
BY DEF Path, Same

(* The keys that are down when one more record has come.                   *)
DownAfter(dn, r) == IF r.pressed THEN dn \cup {r.key} ELSE dn \ {r.key}

LEMMA PathAppend ==
  ASSUME NEW b \in Seq(KeyRecord), NEW r \in KeyRecord, NEW g, NEW dn \in SUBSET Keys,
         Path(b, g, dn), r.pressed <=> r.key \notin dn
  PROVE  \E h : Path(Append(b, r), h, DownAfter(dn, r)) /\ h[0] = g[0]
<1> DEFINE dn2 == DownAfter(dn, r)
<1>0. /\ dn2 = IF r.pressed THEN dn \cup {r.key} ELSE dn \ {r.key}
      /\ dn2 \in SUBSET Keys
  BY DEF DownAfter, KeyRecord
<1> HIDE DEF dn2
<1> DEFINE n == Len(b)
           q == Append(b, r)
           h == [i \in 0 .. n + 1 |-> IF i = n + 1 THEN dn2 ELSE g[i]]
<1>1. n \in Nat /\ Len(q) = n + 1 /\ (\A i \in 1 .. n : q[i] = b[i]) /\ q[n + 1] = r
  BY AppendFacts
<1>2. /\ g \in [0 .. n -> SUBSET Keys] /\ g[n] = dn
      /\ \A i \in 1 .. n :
            /\ b[i].pressed <=> b[i].key \notin g[i - 1]
            /\ g[i] = IF b[i].pressed THEN g[i - 1] \cup {b[i].key} ELSE g[i - 1] \ {b[i].key}
  BY DEF Path
<1> HIDE DEF q, n
<1>3. /\ h \in [0 .. n + 1 -> SUBSET Keys] /\ h[n + 1] = dn2 /\ h[0] = g[0] /\ h[n] = dn
      /\ \A i \in 0 .. n : h[i] = g[i]
  BY <1>0, <1>1, <1>2
<1> HIDE DEF h
<1>4. ASSUME NEW i \in 1 .. n + 1
      PROVE  /\ q[i].pressed <=> q[i].key \notin h[i - 1]
             /\ h[i] = IF q[i].pressed THEN h[i - 1] \cup {q[i].key} ELSE h[i - 1] \ {q[i].key}
  <2>1. CASE i = n + 1
    <3>1. q[i] = r /\ h[i - 1] = dn /\ h[i] = dn2
      BY <1>1, <1>3, <2>1
    <3> QED  BY <1>0, <3>1
  <2>2. CASE i \in 1 .. n
    <3>1. q[i] = b[i] /\ h[i - 1] = g[i - 1] /\ h[i] = g[i]
      BY <1>1, <1>3, <2>2
    <3> QED  BY <1>2, <2>2, <3>1
  <2> QED  BY <1>1, <2>1, <2>2
<1>5. Path(q, h, dn2)
  BY <1>1, <1>3, <1>4 DEF Path
<1> QED  BY <1>3, <1>5 DEF q, dn2

(* A key is as it was as long as none of its records comes.                *)
LEMMA Steady ==
  ASSUME NEW b \in Seq(KeyRecord), NEW g, NEW dn, Path(b, g, dn), NEW k,
         NEW i \in 0 .. Len(b), NEW j \in 0 .. Len(b), i <= j,
         \A m \in i + 1 .. j : b[m].key # k
  PROVE  k \in g[i] <=> k \in g[j]
<1> DEFINE T == {m \in Nat : i <= m /\ m <= j => (k \in g[i] <=> k \in g[m])}
<1>1. Len(b) \in Nat
  OBVIOUS
<1>2. 0 \in T
  BY <1>1
<1>3. ASSUME NEW m \in Nat, m \in T
      PROVE  m + 1 \in T
  <2> SUFFICES ASSUME i <= m + 1, m + 1 <= j
               PROVE  k \in g[i] <=> k \in g[m + 1]
    OBVIOUS
  <2>1. CASE i = m + 1
    BY <2>1
  <2>2. CASE i <= m
    <3>1. k \in g[i] <=> k \in g[m]
      BY <1>1, <1>3, <2>2
    <3>2. m + 1 \in 1 .. Len(b) /\ (m + 1) - 1 = m /\ b[m + 1].key # k
      BY <1>1, <2>2
    <3>3. g[m + 1] = IF b[m + 1].pressed THEN g[m] \cup {b[m + 1].key}
                     ELSE g[m] \ {b[m + 1].key}
      BY <3>2 DEF Path
    <3> QED  BY <3>1, <3>2, <3>3
  <2> QED  BY <1>1, <2>1, <2>2
<1>4. j \in T
  <2> HIDE DEF T
  <2> QED  BY <1>1, <1>2, <1>3, SetInduction
<1> QED  BY <1>1, <1>4

LEMMA FirstExists ==
  ASSUME NEW b \in Seq(KeyRecord), NEW k, NEW m \in 1 .. Len(b), b[m].key = k
  PROVE  \E j \in 1 .. m : First(b, k, j)
<1> DEFINE T == {j \in 1 .. Len(b) : b[j].key = k}
<1>1. T \subseteq Nat /\ T # {}
  OBVIOUS
<1>2. PICK j \in T : \A l \in T : j <= l
  <2> HIDE DEF T
  <2> QED  BY <1>1, LeastNatural
<1>3. First(b, k, j)
  BY <1>2 DEF First
<1> QED  BY <1>2, <1>3

LEMMA FirstDirection ==
  ASSUME NEW b \in Seq(KeyRecord), NEW g, NEW dn, Path(b, g, dn), NEW k, NEW j, First(b, k, j)
  PROVE  b[j].pressed <=> k \notin g[0]
<1>1. /\ Len(b) \in Nat /\ j \in 1 .. Len(b) /\ b[j].key = k
      /\ \A i \in 1 .. j - 1 : b[i].key # k
  BY DEF First
<1>2. k \in g[0] <=> k \in g[j - 1]
  <2>1. 0 \in 0 .. Len(b) /\ j - 1 \in 0 .. Len(b) /\ 0 <= j - 1
    BY <1>1
  <2>2. \A m \in 0 + 1 .. j - 1 : b[m].key # k
    BY <1>1
  <2> HIDE DEF First
  <2> QED  BY <2>1, <2>2, Steady
<1>3. b[j].pressed <=> b[j].key \notin g[j - 1]
  BY <1>1 DEF Path
<1> QED  BY <1>1, <1>2, <1>3

----------------------------------------------------------------------------
(* How old an event of the time t is.                                      *)
Age(t, now) == (now - t) % Width

LEMMA AgeTyped ==
  ASSUME NEW t \in 0 .. Width - 1, NEW now \in 0 .. Width - 1
  PROVE  Age(t, now) \in 0 .. Width - 1 /\ Age(now, now) = 0
BY Constants DEF Age

(* Ages tell what is within the term, as long as the timer did not go      *)
(* around between the two events.                                          *)
LEMMA WithinAges ==
  ASSUME NEW t \in Record, NEW r \in Record, NEW now \in 0 .. Width - 1,
         Age(r.time, now) <= Age(t.time, now)
  PROVE  Within(t, r) <=> Age(t.time, now) - Age(r.time, now) < QS.tapping_term
<1>1. Width \in Nat \ {0} /\ t.time \in 0 .. Width - 1 /\ r.time \in 0 .. Width - 1
  BY Constants DEF Record
<1> DEFINE x == t.time
           y == r.time
<1> HIDE DEF x, y
<1>2. ASSUME x \in 0 .. Width - 1, y \in 0 .. Width - 1, (now - y) % Width <= (now - x) % Width
      PROVE  (y - x) % Width = ((now - x) % Width) - ((now - y) % Width)
  <2>1. (now - x) % Width = IF x <= now THEN now - x ELSE now - x + Width
    BY <1>1, <1>2
  <2>2. (now - y) % Width = IF y <= now THEN now - y ELSE now - y + Width
    BY <1>1, <1>2
  <2>3. (y - x) % Width = IF x <= y THEN y - x ELSE y - x + Width
    BY <1>1, <1>2
  <2> QED  BY <1>1, <1>2, <2>1, <2>2, <2>3
<1>3. (y - x) % Width = Age(x, now) - Age(y, now)
  <2>1. x \in 0 .. Width - 1 /\ y \in 0 .. Width - 1
    BY <1>1 DEF x, y
  <2>2. (now - y) % Width <= (now - x) % Width
    BY DEF Age, x, y
  <2>3. (y - x) % Width = ((now - x) % Width) - ((now - y) % Width)
    BY <1>2, <2>1, <2>2
  <2>4. Age(x, now) = (now - x) % Width /\ Age(y, now) = (now - y) % Width
    BY DEF Age
  <2> QED  BY <2>3, <2>4
<1> QED  BY <1>3 DEF Within, x, y

LEMMA Aged ==
  ASSUME NEW t \in 0 .. Width - 1, NEW now \in 0 .. Width - 1, NEW d \in Nat,
         Age(t, now) + d < Width
  PROVE  Age(t, (now + d) % Width) = Age(t, now) + d
<1>1. Width \in Nat \ {0}
  BY Constants
<1>2. (now - t) % Width = IF t <= now THEN now - t ELSE now - t + Width
  BY <1>1
<1>3. CASE t <= now
  <2>1. (now - t) + d < Width
    BY <1>1, <1>2, <1>3 DEF Age
  <2>2. (now + d) % Width = IF now + d < Width THEN now + d ELSE now + d - Width
    BY <1>1, <1>3, <2>1
  <2> QED  BY <1>1, <1>2, <1>3, <2>1, <2>2 DEF Age
<1>4. CASE ~(t <= now)
  <2>1. (now - t) + Width + d < Width
    BY <1>1, <1>2, <1>4 DEF Age
  <2>2. (now + d) % Width = now + d
    BY <1>1, <1>4, <2>1
  <2> QED  BY <1>1, <1>2, <1>4, <2>1, <2>2 DEF Age
<1> QED  BY <1>3, <1>4

----------------------------------------------------------------------------
(* What is known of the records that wait.                                 *)

(* A record of the key waits; one that has learned that it ends a tap.     *)
Has(b, k)   == \E j \in 1 .. Len(b) : b[j].key = k
Known(b, k) == \E j \in 1 .. Len(b) : b[j].key = k /\ b[j].count > 0

(* Presses wait as they came, and of each key only the first record may    *)
(* have learned anything.                                                  *)
Marks(b) ==
  \A j \in 1 .. Len(b) :
     /\ b[j].pressed => b[j].count = 0 /\ ~b[j].interrupted
     /\ b[j].count > 0 => \A i \in 1 .. j - 1 : b[i].key # b[j].key

LEMMA MarksTail ==
  ASSUME NEW b \in Seq(KeyRecord), Len(b) > 0, Marks(b)
  PROVE  /\ Marks(Tail(b))
         /\ Head(b).pressed => Head(b).count = 0 /\ ~Head(b).interrupted
         /\ \A k : /\ Has(Tail(b), k) => Has(b, k)
                   /\ k # Head(b).key => (Has(b, k) => Has(Tail(b), k))
                   /\ k # Head(b).key => (Known(Tail(b), k) <=> Known(b, k))
                   /\ k = Head(b).key => ~Known(Tail(b), k)
                   /\ k = Head(b).key => (Known(b, k) <=> Head(b).count > 0)
<1> DEFINE q == Tail(b)
           n == Len(b)
<1>1. /\ n \in Nat /\ n > 0 /\ Len(q) = n - 1 /\ Head(b) = b[1]
      /\ \A i \in 1 .. n - 1 : q[i] = b[i + 1]
  BY TailFacts
<1>2. \A j \in 1 .. n : j # 1 => j - 1 \in 1 .. n - 1 /\ q[j - 1] = b[j]
  <2> SUFFICES ASSUME NEW j \in 1 .. n, j # 1
               PROVE  j - 1 \in 1 .. n - 1 /\ q[j - 1] = b[j]
    OBVIOUS
  <2>1. j - 1 \in 1 .. n - 1 /\ (j - 1) + 1 = j
    BY <1>1
  <2> HIDE DEF q
  <2> QED  BY <1>1, <2>1
<1>3. \A j \in 1 .. n :
         /\ b[j].pressed => b[j].count = 0 /\ ~b[j].interrupted
         /\ b[j].count > 0 => \A i \in 1 .. j - 1 : b[i].key # b[j].key
  BY DEF Marks
<1>4. 1 \in 1 .. n
  BY <1>1
<1> HIDE DEF q, n
<1>5. Marks(q)
  <2> SUFFICES ASSUME NEW j \in 1 .. n - 1
               PROVE  /\ q[j].pressed => q[j].count = 0 /\ ~q[j].interrupted
                      /\ q[j].count > 0 => \A i \in 1 .. j - 1 : q[i].key # q[j].key
    BY <1>1 DEF Marks
  <2>1. j + 1 \in 1 .. n /\ q[j] = b[j + 1]
    BY <1>1
  <2>2. \A i \in 1 .. j - 1 : i + 1 \in 1 .. (j + 1) - 1 /\ q[i] = b[i + 1]
    BY <1>1
  <2> QED  BY <1>3, <2>1, <2>2
<1>6. ASSUME NEW k
      PROVE  /\ Has(q, k) => Has(b, k)
             /\ k # b[1].key => (Has(b, k) => Has(q, k))
             /\ k # b[1].key => (Known(q, k) <=> Known(b, k))
             /\ k = b[1].key => ~Known(q, k)
             /\ k = b[1].key => (Known(b, k) <=> b[1].count > 0)
  <2>1. Has(q, k) <=> \E j \in 1 .. n - 1 : q[j].key = k
    BY <1>1 DEF Has
  <2>2. Known(q, k) <=> \E j \in 1 .. n - 1 : q[j].key = k /\ q[j].count > 0
    BY <1>1 DEF Known
  <2>3. Has(b, k) <=> \E j \in 1 .. n : b[j].key = k
    BY DEF Has, n
  <2>4. Known(b, k) <=> \E j \in 1 .. n : b[j].key = k /\ b[j].count > 0
    BY DEF Known, n
  <2>5. \A j \in 1 .. n - 1 : j + 1 \in 1 .. n /\ q[j] = b[j + 1] /\ 1 \in 1 .. (j + 1) - 1
    BY <1>1
  <2>6. \A j \in 2 .. n : 1 \in 1 .. j - 1 /\ j \in 1 .. n
    BY <1>1
  <2>7. Has(q, k) => Has(b, k)
    BY <2>1, <2>3, <2>5
  <2>8. k # b[1].key => (Has(b, k) => Has(q, k))
    BY <1>2, <2>1, <2>3
  <2>9. k # b[1].key => (Known(q, k) <=> Known(b, k))
    BY <1>2, <2>2, <2>4, <2>5
  <2>10. k = b[1].key => ~Known(q, k)
    BY <1>3, <2>2, <2>5
  <2>11. k = b[1].key => (Known(b, k) <=> b[1].count > 0)
    <3>1. \A j \in 1 .. n : j # 1 => 1 \in 1 .. j - 1
      BY <1>1
    <3> QED  BY <1>3, <1>4, <2>4, <3>1
  <2> QED  BY <2>7, <2>8, <2>9, <2>10, <2>11
<1> QED  BY <1>1, <1>3, <1>4, <1>5, <1>6 DEF q

LEMMA MarksAppend ==
  ASSUME NEW b \in Seq(KeyRecord), Marks(b), NEW r \in KeyRecord,
         r.pressed => r.count = 0 /\ ~r.interrupted, r.count > 0 => ~Has(b, r.key)
  PROVE  /\ Marks(Append(b, r))
         /\ \A k : /\ Has(Append(b, r), k) <=> Has(b, k) \/ k = r.key
                   /\ Known(Append(b, r), k) <=> Known(b, k) \/ (k = r.key /\ r.count > 0)
<1> DEFINE q == Append(b, r)
           n == Len(b)
<1>1. /\ n \in Nat /\ Len(q) = n + 1 /\ (\A i \in 1 .. n : q[i] = b[i]) /\ q[n + 1] = r
  BY AppendFacts
<1>2. \A j \in 1 .. n :
         /\ b[j].pressed => b[j].count = 0 /\ ~b[j].interrupted
         /\ b[j].count > 0 => \A i \in 1 .. j - 1 : b[i].key # b[j].key
  BY DEF Marks
<1>3. \A k : /\ Has(b, k) <=> \E j \in 1 .. n : b[j].key = k
             /\ Known(b, k) <=> \E j \in 1 .. n : b[j].key = k /\ b[j].count > 0
  BY DEF Has, Known
<1> HIDE DEF q, n
<1>4. \A k : /\ Has(q, k) <=> \E j \in 1 .. n + 1 : q[j].key = k
             /\ Known(q, k) <=> \E j \in 1 .. n + 1 : q[j].key = k /\ q[j].count > 0
  BY <1>1 DEF Has, Known
<1>5. \A j \in 1 .. n + 1 : j = n + 1 \/ j \in 1 .. n
  BY <1>1
<1>6. n + 1 \in 1 .. n + 1 /\ \A j \in 1 .. n : j \in 1 .. n + 1
  BY <1>1
<1>7. \A k : /\ Has(q, k) <=> Has(b, k) \/ k = r.key
             /\ Known(q, k) <=> Known(b, k) \/ (k = r.key /\ r.count > 0)
  BY <1>1, <1>3, <1>4, <1>5, <1>6
<1>8. ASSUME NEW j \in 1 .. n + 1
      PROVE  /\ q[j].pressed => q[j].count = 0 /\ ~q[j].interrupted
             /\ q[j].count > 0 => \A i \in 1 .. j - 1 : q[i].key # q[j].key
  <2>1. CASE j \in 1 .. n
    <3>1. \A i \in 1 .. j - 1 : q[i] = b[i]
      BY <1>1, <2>1
    <3> QED  BY <1>1, <1>2, <2>1, <3>1
  <2>2. CASE j = n + 1
    <3>1. \A i \in 1 .. j - 1 : i \in 1 .. n /\ q[i] = b[i]
      BY <1>1, <2>2
    <3> QED  BY <1>1, <1>3, <2>2, <3>1
  <2> QED  BY <1>5, <2>1, <2>2
<1>9. Marks(q)
  BY <1>1, <1>8 DEF Marks
<1> QED  BY <1>7, <1>9 DEF q

(* How many presses of a key wait.                                         *)
LEMMA PressesTail ==
  ASSUME NEW b \in Seq(KeyRecord), Len(b) > 0, NEW k
  PROVE  /\ Presses(b, k) \in Nat /\ Presses(Tail(b), k) \in Nat
         /\ Presses(b, k) = Presses(Tail(b), k) +
                            IF Head(b).key = k /\ Head(b).pressed THEN 1 ELSE 0
<1> DEFINE n == Len(b)
           q == Tail(b)
           S == {i \in DOMAIN b : b[i].key = k /\ b[i].pressed}
           T == {i \in DOMAIN q : q[i].key = k /\ q[i].pressed}
           f == [i \in T |-> i + 1]
<1>1. /\ n \in Nat /\ n > 0 /\ Len(q) = n - 1 /\ Head(b) = b[1]
      /\ \A i \in 1 .. n - 1 : q[i] = b[i + 1]
      /\ DOMAIN b = 1 .. n /\ DOMAIN q = 1 .. n - 1
  BY TailFacts
<1>2. IsFiniteSet(S) /\ IsFiniteSet(T)
  <2>1. IsFiniteSet(1 .. n) /\ IsFiniteSet(1 .. n - 1)
    BY <1>1, FS_Interval
  <2>2. S \subseteq 1 .. n /\ T \subseteq 1 .. n - 1
    BY <1>1
  <2> HIDE DEF S, T
  <2> QED  BY <2>1, <2>2, FS_Subset
<1> HIDE DEF n, q
<1>3. f \in Bijection(T, S \ {1})
  <2>1. \A i \in T : i + 1 \in S \ {1}
    BY <1>1
  <2>2. \A i, j \in T : i + 1 = j + 1 => i = j
    BY <1>1
  <2>3. ASSUME NEW j \in S \ {1}
        PROVE  \E i \in T : i + 1 = j
    <3>1. j \in 1 .. n /\ j # 1 /\ b[j].key = k /\ b[j].pressed
      BY <1>1
    <3>2. j - 1 \in 1 .. n - 1 /\ (j - 1) + 1 = j
      BY <1>1, <3>1
    <3>3. q[j - 1] = b[j]
      BY <1>1, <3>2
    <3> QED  BY <1>1, <3>1, <3>2, <3>3
  <2> HIDE DEF S, T
  <2>4. f \in [T -> S \ {1}]
    BY <2>1
  <2>5. f \in Injection(T, S \ {1})
    BY <2>2, <2>4 DEF Injection, IsInjective
  <2>6. f \in Surjection(T, S \ {1})
    BY <2>3, <2>4 DEF Surjection
  <2> QED  BY <2>5, <2>6 DEF Bijection
<1>4. Cardinality(S \ {1}) = Cardinality(T)
  <2> HIDE DEF S, T, f
  <2>1. ExistsBijection(T, S \ {1})
    BY <1>3 DEF ExistsBijection
  <2> QED  BY <1>2, <2>1, FS_Bijection
<1>5. 1 \in S <=> (b[1].key = k /\ b[1].pressed)
  BY <1>1
<1>6. Presses(b, k) = Cardinality(S) /\ Presses(q, k) = Cardinality(T)
  BY DEF Presses
<1> HIDE DEF S, T
<1>7. /\ Cardinality(S \ {1}) = IF 1 \in S THEN Cardinality(S) - 1 ELSE Cardinality(S)
      /\ Cardinality(S) \in Nat /\ Cardinality(T) \in Nat
  BY <1>2, FS_RemoveElement, FS_CardinalityType
<1> QED  BY <1>1, <1>4, <1>5, <1>6, <1>7 DEF q

LEMMA PressesAppend ==
  ASSUME NEW b \in Seq(KeyRecord), NEW r \in KeyRecord, NEW k
  PROVE  /\ Presses(b, k) \in Nat
         /\ Presses(Append(b, r), k) = Presses(b, k) + IF r.key = k /\ r.pressed THEN 1 ELSE 0
<1> DEFINE n == Len(b)
           q == Append(b, r)
           S == {i \in DOMAIN b : b[i].key = k /\ b[i].pressed}
           T == {i \in DOMAIN q : q[i].key = k /\ q[i].pressed}
<1>1. /\ n \in Nat /\ Len(q) = n + 1 /\ (\A i \in 1 .. n : q[i] = b[i]) /\ q[n + 1] = r
      /\ DOMAIN b = 1 .. n /\ DOMAIN q = 1 .. n + 1
  BY AppendFacts
<1>2. IsFiniteSet(S)
  <2>1. IsFiniteSet(1 .. n)
    BY <1>1, FS_Interval
  <2>2. S \subseteq 1 .. n
    BY <1>1
  <2> HIDE DEF S
  <2> QED  BY <2>1, <2>2, FS_Subset
<1> HIDE DEF n, q
<1>3. n + 1 \notin S
  BY <1>1
<1>4. T = IF r.key = k /\ r.pressed THEN S \cup {n + 1} ELSE S
  <2>1. \A i \in 1 .. n + 1 : i = n + 1 \/ i \in 1 .. n
    BY <1>1
  <2>2. n + 1 \in 1 .. n + 1 /\ \A i \in 1 .. n : i \in 1 .. n + 1 /\ i # n + 1
    BY <1>1
  <2> QED  BY <1>1, <2>1, <2>2
<1>5. Presses(b, k) = Cardinality(S) /\ Presses(q, k) = Cardinality(T)
  BY DEF Presses
<1> HIDE DEF S, T
<1>6. Cardinality(S \cup {n + 1}) = Cardinality(S) + 1 /\ Cardinality(S) \in Nat
  BY <1>2, <1>3, FS_AddElement, FS_CardinalityType
<1> QED  BY <1>4, <1>5, <1>6 DEF q

LEMMA PressesSame ==
  ASSUME NEW b \in Seq(KeyRecord), NEW b2 \in Seq(KeyRecord), Same(b, b2), NEW k
  PROVE  Presses(b2, k) = Presses(b, k)
<1>1. DOMAIN b = 1 .. Len(b) /\ DOMAIN b2 = 1 .. Len(b)
  BY DEF Same
<1>2. {i \in DOMAIN b2 : b2[i].key = k /\ b2[i].pressed} =
      {i \in DOMAIN b : b[i].key = k /\ b[i].pressed}
  BY <1>1 DEF Same
<1> QED  BY <1>2 DEF Presses

(* A press of another key waits, before any record of key k.               *)
AheadIn(b, k) == \E i \in 1 .. Len(b) : b[i].pressed /\ \A j \in 1 .. i : b[j].key # k

LEMMA AheadSame ==
  ASSUME NEW b, NEW b2, Same(b, b2), NEW k, AheadIn(b, k), Len(b) \in Nat
  PROVE  AheadIn(b2, k)
<1>1. PICK i \in 1 .. Len(b) : b[i].pressed /\ \A j \in 1 .. i : b[j].key # k
  BY DEF AheadIn
<1>2. \A j \in 1 .. i : j \in 1 .. Len(b)
  OBVIOUS
<1> QED  BY <1>1, <1>2 DEF AheadIn, Same

LEMMA AheadTail ==
  ASSUME NEW b \in Seq(KeyRecord), Len(b) > 0, ~Head(b).pressed, NEW k, AheadIn(b, k)
  PROVE  AheadIn(Tail(b), k)
<1> DEFINE n == Len(b)
           q == Tail(b)
<1>1. /\ n \in Nat /\ n > 0 /\ Len(q) = n - 1 /\ Head(b) = b[1]
      /\ \A i \in 1 .. n - 1 : q[i] = b[i + 1]
  BY TailFacts
<1>2. PICK i \in 1 .. n : b[i].pressed /\ \A j \in 1 .. i : b[j].key # k
  BY DEF AheadIn
<1> HIDE DEF n, q
<1>3. i # 1
  BY <1>1, <1>2
<1>4. i - 1 \in 1 .. n - 1 /\ q[i - 1] = b[i]
  BY <1>1, <1>3
<1>5. ASSUME NEW j \in 1 .. i - 1
      PROVE  q[j].key # k
  <2>1. j \in 1 .. n - 1 /\ j + 1 \in 1 .. i
    BY <1>1
  <2> QED  BY <1>1, <1>2, <2>1
<1>6. AheadIn(q, k)
  BY <1>1, <1>2, <1>4, <1>5 DEF AheadIn
<1> QED  BY <1>6 DEF q

LEMMA AheadAppend ==
  ASSUME NEW b \in Seq(KeyRecord), NEW r \in KeyRecord, NEW k, AheadIn(b, k)
  PROVE  AheadIn(Append(b, r), k)
<1> DEFINE n == Len(b)
           q == Append(b, r)
<1>1. n \in Nat /\ Len(q) = n + 1 /\ \A i \in 1 .. n : q[i] = b[i]
  BY AppendFacts
<1>2. PICK i \in 1 .. n : b[i].pressed /\ \A j \in 1 .. i : b[j].key # k
  BY DEF AheadIn
<1> HIDE DEF n, q
<1>3. i \in 1 .. n + 1 /\ \A j \in 1 .. i : j \in 1 .. n
  BY <1>1
<1>4. AheadIn(q, k)
  BY <1>1, <1>2, <1>3 DEF AheadIn
<1> QED  BY <1>4 DEF q

LEMMA AheadNew ==
  ASSUME NEW b \in Seq(KeyRecord), NEW r \in KeyRecord, NEW k, ~Has(b, k), r.pressed, r.key # k
  PROVE  AheadIn(Append(b, r), k)
<1> DEFINE n == Len(b)
           q == Append(b, r)
<1>1. n \in Nat /\ Len(q) = n + 1 /\ (\A i \in 1 .. n : q[i] = b[i]) /\ q[n + 1] = r
  BY AppendFacts
<1>2. \A j \in 1 .. n : b[j].key # k
  BY DEF Has
<1> HIDE DEF n, q
<1>3. n + 1 \in 1 .. n + 1 /\ \A j \in 1 .. n + 1 : j = n + 1 \/ j \in 1 .. n
  BY <1>1
<1>4. AheadIn(q, k)
  BY <1>1, <1>2, <1>3 DEF AheadIn
<1> QED  BY <1>4 DEF q

----------------------------------------------------------------------------
(* What holds within a call, for the records that wait (g and dn as in     *)
(* Path), at the time now.                                                 *)

Code(s, k) == <<k, "code">> \in s.reg
Mods(s, k) == <<k, "mods">> \in s.reg
Live(s, k) == s.tap.key = k /\ s.tap.pressed

(* The tapping key has two roles, and is down if it is said to be.         *)
TapIs(s, up) ==
  /\ s.tap.key # NoKey => keymap[s.tap.key] = "mod_tap" /\ (s.tap.pressed => s.tap.key \in up)
  /\ s.tap.key = NoKey => ~s.tap.pressed

(* The host is told of keys that are down, each in a role that it has.     *)
Told(s, up) ==
  \A k \in Keys : /\ Code(s, k) \/ Mods(s, k) => k \in up
                  /\ keymap[k] # "mod_tap" => ~Mods(s, k)

(* The role a key with two roles is registered in is the one its release   *)
(* takes back: that of a tap if the release has learned of it, or will     *)
(* from the tapping key.  A tap that was interrupted became a hold.        *)
Right(s, k) ==
  keymap[k] = "mod_tap" =>
     /\ ~Live(s, k) => (Code(s, k) => Known(s.buf, k)) /\ (Mods(s, k) => ~Known(s.buf, k))
     /\ Live(s, k) /\ s.tap.count > 0 =>
           ~Mods(s, k) /\ (s.tap.count = 1 => Known(s.buf, k))
     /\ Live(s, k) /\ s.tap.count = 0 =>
           /\ ~Code(s, k) /\ ~Known(s.buf, k)
           /\ Mods(s, k) => /\ s.tap.interrupted /\ ~Set("ignore_mod_tap_interrupt")
                            /\ Has(s.buf, k)
           /\ ~Mods(s, k) => Ends(s) = {}

(* Records wait in the order in which they came, none of them older than a *)
(* tapping key that is not decided.                                        *)
Order(s, now) ==
  /\ \A i, j \in 1 .. Len(s.buf) : i <= j => Age(s.buf[j].time, now) <= Age(s.buf[i].time, now)
  /\ IsOpen(s) => \A i \in 1 .. Len(s.buf) : Age(s.buf[i].time, now) <= Age(s.tap.time, now)

(* What interrupted a tapping key that is not decided still waits, before  *)
(* any release of this key.                                                *)
Ahead(s) == IsOpen(s) /\ s.tap.interrupted => AheadIn(s.buf, s.tap.key)

Owes(s) == \A k \in Keys : s.owed[k] = Presses(s.buf, k) + Pending(s, k)

Sound(s, g, dn, now) ==
  /\ Path(s.buf, g, dn) /\ Marks(s.buf) /\ TapIs(s, g[0]) /\ Told(s, g[0])
  /\ (\A k \in Keys : Right(s, k)) /\ Order(s, now) /\ Ahead(s)

Good(s, g, dn, now) == Sound(s, g, dn, now) /\ Owes(s)

LEMMA EndsAre ==
  ASSUME NEW s \in CallState
  PROVE  \A i : i \in Ends(s) <=> /\ i \in 1 .. Len(s.buf) /\ s.buf[i].key = s.tap.key
                                  /\ ~s.buf[i].pressed /\ Within(s.tap, s.buf[i])
<1>1. DOMAIN s.buf = 1 .. Len(s.buf)
  BY DEF CallState
<1> QED  BY <1>1 DEF Ends

LEMMA SameWithin ==
  ASSUME NEW t, NEW t2, NEW r, NEW r2, t2.time = t.time, r2.time = r.time
  PROVE  Within(t2, r2) <=> Within(t, r)
BY DEF Within

LEMMA AgesTyped ==
  ASSUME NEW s \in CallState, NEW now \in 0 .. Width - 1
  PROVE  /\ Age(s.tap.time, now) \in Nat /\ s.tap.time \in 0 .. Width - 1
         /\ \A i \in 1 .. Len(s.buf) : /\ Age(s.buf[i].time, now) \in Nat
                                       /\ s.buf[i].time \in 0 .. Width - 1
<1>1. \A t \in 0 .. Width - 1 : Age(t, now) \in Nat
  <2> SUFFICES ASSUME NEW t \in 0 .. Width - 1
               PROVE  Age(t, now) \in Nat
    OBVIOUS
  <2>1. Age(t, now) \in 0 .. Width - 1
    BY AgeTyped
  <2> QED  BY <2>1, Constants
<1>2. s.tap.time \in 0 .. Width - 1
  BY DEF CallState, Record
<1>3. \A i \in 1 .. Len(s.buf) : s.buf[i].time \in 0 .. Width - 1
  BY EndsWait DEF KeyRecord
<1> QED  BY <1>1, <1>2, <1>3

LEMMA SameFacts ==
  ASSUME NEW b, NEW b2, Same(b, b2)
  PROVE  /\ Len(b2) = Len(b)
         /\ \A i \in 1 .. Len(b) : /\ b2[i].key = b[i].key /\ b2[i].pressed = b[i].pressed
                                   /\ b2[i].time = b[i].time
         /\ \A k : Has(b2, k) <=> Has(b, k)
BY DEF Same, Has

(* A step that leaves the records where they are.                          *)
LEMMA StaysGood ==
  ASSUME NEW s \in CallState, NEW s2 \in CallState, NEW g, NEW dn, NEW now, Good(s, g, dn, now),
         Same(s.buf, s2.buf), Marks(s2.buf), TapIs(s2, g[0]), Told(s2, g[0]),
         \A k \in Keys : Right(s2, k), IsOpen(s2) => IsOpen(s) /\ s2.tap.time = s.tap.time,
         Ahead(s2), \A k \in Keys : s2.owed[k] - Pending(s2, k) = s.owed[k] - Pending(s, k)
  PROVE  Good(s2, g, dn, now)
<1>1. Path(s2.buf, g, dn)
  BY PathSame DEF Good, Sound
<1>2. Order(s2, now)
  <2>1. Order(s, now)
    BY DEF Good, Sound
  <2>2. /\ Len(s2.buf) = Len(s.buf)
        /\ \A i \in 1 .. Len(s.buf) : s2.buf[i].time = s.buf[i].time
    BY SameFacts
  <2> QED  BY <2>1, <2>2 DEF Order
<1>3. Owes(s2)
  <2> SUFFICES ASSUME NEW k \in Keys
               PROVE  s2.owed[k] = Presses(s2.buf, k) + Pending(s2, k)
    BY DEF Owes
  <2>1. s.owed[k] = Presses(s.buf, k) + Pending(s, k)
    BY DEF Good, Sound, Owes
  <2>2. Presses(s2.buf, k) = Presses(s.buf, k)
    BY PressesSame DEF CallState
  <2>3. s2.owed[k] - Pending(s2, k) = s.owed[k] - Pending(s, k)
    OBVIOUS
  <2>4. s.owed[k] \in Int /\ s2.owed[k] \in Int
    BY DEF CallState
  <2>5. Pending(s, k) \in Int /\ Pending(s2, k) \in Int
    BY PendingTyped
  <2>6. Presses(s.buf, k) \in Int
    BY PressesTyped DEF CallState
  <2> DEFINE a == Pending(s, k)
             c == Pending(s2, k)
             e == Presses(s.buf, k)
             x == s.owed[k]
             y == s2.owed[k]
  <2> HIDE DEF a, c, e, x, y
  <2>7. x = e + a /\ y - c = x - a /\ x \in Int /\ y \in Int /\ a \in Int /\ c \in Int /\ e \in Int
    BY <2>1, <2>3, <2>4, <2>5, <2>6 DEF a, c, e, x, y
  <2>8. y = e + c
    BY <2>7
  <2> QED  BY <2>2, <2>8 DEF c, e, y
<1> QED  BY <1>1, <1>2, <1>3 DEF Good, Sound

(* A step that takes the first record away.                                *)
LEMMA TakesGood ==
  ASSUME NEW s \in CallState, NEW s2 \in CallState, NEW g, NEW dn, NEW now, Good(s, g, dn, now),
         Len(s.buf) > 0, NEW r, r = Head(s.buf),
         Same(Tail(s.buf), s2.buf), Marks(s2.buf),
         NEW up, up = IF r.pressed THEN g[0] \cup {r.key} ELSE g[0] \ {r.key},
         TapIs(s2, up), Told(s2, up), \A k \in Keys : Right(s2, k),
         IsOpen(s2) => (IsOpen(s) /\ s2.tap.time = s.tap.time) \/ s2.tap.time = r.time,
         IsOpen(s2) /\ s2.tap.interrupted =>
            IsOpen(s) /\ s.tap.interrupted /\ s2.tap.key = s.tap.key /\ ~r.pressed,
         \A k \in Keys : s2.owed[k] - Pending(s2, k) + (IF r.key = k /\ r.pressed THEN 1 ELSE 0)
                         = s.owed[k] - Pending(s, k)
  PROVE  \E h : Good(s2, h, dn, now)
<1> DEFINE n == Len(s.buf)
<1>0. s.buf \in Seq(KeyRecord) /\ s2.buf \in Seq(KeyRecord) /\ Tail(s.buf) \in Seq(KeyRecord)
  BY TailFacts DEF CallState
<1>1. PICK h : Path(Tail(s.buf), h, dn) /\ h[0] = g[1]
               /\ g[1] = IF Head(s.buf).pressed THEN g[0] \cup {Head(s.buf).key}
                         ELSE g[0] \ {Head(s.buf).key}
  BY <1>0, PathTail DEF Good, Sound
<1>2. Path(s2.buf, h, dn) /\ h[0] = up
  BY <1>1, PathSame
<1>3. /\ n \in Nat /\ Len(s2.buf) = n - 1 /\ r = s.buf[1]
      /\ \A i \in 1 .. n - 1 : s2.buf[i].time = s.buf[i + 1].time
  <2>1. /\ Len(Tail(s.buf)) = n - 1 /\ r = s.buf[1] /\ n \in Nat
        /\ \A i \in 1 .. n - 1 : Tail(s.buf)[i] = s.buf[i + 1]
    BY <1>0, TailFacts
  <2>2. /\ Len(s2.buf) = Len(Tail(s.buf))
        /\ \A i \in 1 .. Len(Tail(s.buf)) : s2.buf[i].time = Tail(s.buf)[i].time
    BY DEF Same
  <2> QED  BY <2>1, <2>2
<1>4. Order(s2, now)
  <2>1. /\ \A i, j \in 1 .. n : i <= j => Age(s.buf[j].time, now) <= Age(s.buf[i].time, now)
        /\ IsOpen(s) => \A i \in 1 .. n : Age(s.buf[i].time, now) <= Age(s.tap.time, now)
    BY DEF Good, Sound, Order
  <2> HIDE DEF n
  <2>2. ASSUME NEW i \in 1 .. n - 1, NEW j \in 1 .. n - 1, i <= j
        PROVE  Age(s2.buf[j].time, now) <= Age(s2.buf[i].time, now)
    <3>1. i + 1 \in 1 .. n /\ j + 1 \in 1 .. n /\ i + 1 <= j + 1
      BY <1>3, <2>2
    <3> QED  BY <1>3, <2>1, <3>1
  <2>3. ASSUME IsOpen(s2), NEW i \in 1 .. n - 1
        PROVE  Age(s2.buf[i].time, now) <= Age(s2.tap.time, now)
    <3>1. i + 1 \in 1 .. n /\ 1 \in 1 .. n /\ 1 <= i + 1
      BY <1>3
    <3> QED  BY <1>3, <2>1, <2>3, <3>1
  <2> QED  BY <1>3, <2>2, <2>3 DEF Order
<1>5. Owes(s2)
  <2> SUFFICES ASSUME NEW k \in Keys
               PROVE  s2.owed[k] = Presses(s2.buf, k) + Pending(s2, k)
    BY DEF Owes
  <2> DEFINE a == Pending(s, k)
             c == Pending(s2, k)
             e == Presses(s.buf, k)
             d == Presses(s2.buf, k)
             x == s.owed[k]
             y == s2.owed[k]
             o == IF r.key = k /\ r.pressed THEN 1 ELSE 0
  <2>1. x = e + a
    BY DEF Good, Sound, Owes
  <2>2. e = d + o /\ e \in Nat /\ d \in Nat
    <3>1. Presses(Tail(s.buf), k) = d
      BY <1>0, PressesSame
    <3> QED  BY <1>0, <3>1, PressesTail
  <2>3. y - c + o = x - a
    OBVIOUS
  <2>4. x \in Int /\ y \in Int
    BY DEF CallState
  <2>5. a \in Int /\ c \in Int
    BY PendingTyped
  <2>6. o \in Int
    OBVIOUS
  <2> HIDE DEF a, c, d, e, x, y, o
  <2>8. y = d + c
    BY <2>1, <2>2, <2>3, <2>4, <2>5, <2>6
  <2> QED  BY <2>8 DEF c, d, y
<1>6. Ahead(s2)
  <2> SUFFICES ASSUME IsOpen(s2), s2.tap.interrupted
               PROVE  AheadIn(s2.buf, s2.tap.key)
    BY DEF Ahead
  <2>1. AheadIn(s.buf, s2.tap.key) /\ ~Head(s.buf).pressed
    BY DEF Good, Sound, Ahead
  <2>2. AheadIn(Tail(s.buf), s2.tap.key) /\ Len(Tail(s.buf)) \in Nat
    BY <1>0, <2>1, AheadTail
  <2> QED  BY <2>2, AheadSame
<1> QED  BY <1>2, <1>4, <1>5, <1>6 DEF Good, Sound

LEMMA SameIs == \A b : Same(b, b)
BY DEF Same

LEMMA RightKept ==
  ASSUME NEW s, NEW s2, NEW k, Right(s, k), Code(s2, k) <=> Code(s, k), Mods(s2, k) <=> Mods(s, k),
         Known(s2.buf, k) <=> Known(s.buf, k), Has(s.buf, k) => Has(s2.buf, k),
         Live(s2, k) <=> Live(s, k),
         Live(s2, k) => /\ s2.tap.count = s.tap.count
                        /\ s.tap.interrupted => s2.tap.interrupted
                        /\ Ends(s) = {} => Ends(s2) = {}
  PROVE  Right(s2, k)
BY DEF Right

LEMMA EndsTail ==
  ASSUME NEW s \in CallState, NEW s2 \in CallState, Len(s.buf) > 0,
         s2.buf = Tail(s.buf), s2.tap.key = s.tap.key, s2.tap.time = s.tap.time, Ends(s) = {}
  PROVE  Ends(s2) = {}
<1> SUFFICES ASSUME NEW i \in Ends(s2)
             PROVE  FALSE
  OBVIOUS
<1>1. i \in 1 .. Len(s2.buf) /\ s2.buf[i].key = s2.tap.key /\ ~s2.buf[i].pressed
      /\ Within(s2.tap, s2.buf[i])
  BY EndsAre
<1>2. /\ Len(s.buf) \in Nat /\ Len(s2.buf) = Len(s.buf) - 1 /\ s2.buf[i] = s.buf[i + 1]
  BY <1>1, TailFacts DEF CallState
<1>3. i + 1 \in 1 .. Len(s.buf)
  BY <1>1, <1>2
<1>4. Within(s.tap, s.buf[i + 1])
  BY <1>1, <1>2, SameWithin
<1>5. i + 1 \in Ends(s)
  BY <1>1, <1>2, <1>3, <1>4, EndsAre
<1> QED  BY <1>5

(* The first record, in the directions it may have.                        *)
LEMMA HeadIs ==
  ASSUME NEW s \in CallState, NEW g, NEW dn, NEW now, Good(s, g, dn, now), Len(s.buf) > 0
  PROVE  /\ Head(s.buf) \in KeyRecord /\ Head(s.buf).key \in Keys
         /\ (Head(s.buf).pressed <=> Head(s.buf).key \notin g[0])
         /\ Head(s.buf).pressed => Head(s.buf).count = 0 /\ ~Head(s.buf).interrupted
         /\ Head(s.buf).key # NoKey
<1>1. s.buf \in Seq(KeyRecord)
  BY DEF CallState
<1>2. Head(s.buf) \in KeyRecord
  BY <1>1, TailFacts
<1>3. Head(s.buf).pressed <=> Head(s.buf).key \notin g[0]
  BY <1>1, PathTail DEF Good, Sound
<1>4. Head(s.buf).pressed => Head(s.buf).count = 0 /\ ~Head(s.buf).interrupted
  BY <1>1, MarksTail DEF Good, Sound
<1> QED  BY <1>2, <1>3, <1>4, Constants DEF KeyRecord

(* A release of a key that is not the tapping key, or that this one has    *)
(* been forgotten for, takes back the role it was pressed in.              *)
LEMMA ReleaseTaken ==
  ASSUME NEW s \in CallState, NEW s2 \in CallState, NEW g, NEW dn, NEW now, Good(s, g, dn, now),
         Len(s.buf) > 0, NEW r, r = Head(s.buf), ~r.pressed, ~Live(s, r.key),
         s2.buf = Tail(s.buf), s2.tap = s.tap, s2.reg = s.reg \ {Role(r)}, s2.owed = s.owed
  PROVE  \E h : Good(s2, h, dn, now)
<1> DEFINE up == IF r.pressed THEN g[0] \cup {r.key} ELSE g[0] \ {r.key}
<1>1. s.buf \in Seq(KeyRecord) /\ r \in KeyRecord /\ r.key \in Keys /\ r.key # NoKey
  BY HeadIs DEF CallState
<1>2. /\ Same(Tail(s.buf), s2.buf) /\ Marks(s2.buf)
      /\ \A k : /\ k # r.key => (Has(s.buf, k) => Has(s2.buf, k))
                /\ k # r.key => (Known(s2.buf, k) <=> Known(s.buf, k))
                /\ k = r.key => ~Known(s2.buf, k)
                /\ k = r.key => (Known(s.buf, k) <=> r.count > 0)
  BY <1>1, MarksTail, SameIs DEF Good, Sound
<1>3. up = g[0] \ {r.key}
  OBVIOUS
<1>4. TapIs(s2, up)
  BY <1>3 DEF Good, Sound, TapIs, Live
<1>5. \A k \in Keys : /\ k # r.key => (Code(s2, k) <=> Code(s, k)) /\ (Mods(s2, k) <=> Mods(s, k))
                      /\ ~Code(s2, r.key) /\ ~Mods(s2, r.key)
  <2>1. Role(r) = <<r.key, IF keymap[r.key] = "mod_tap" /\ r.count = 0 THEN "mods" ELSE "code">>
    BY <1>1 DEF Role, IsTap
  <2>2. /\ keymap[r.key] # "mod_tap" => ~Mods(s, r.key)
        /\ keymap[r.key] = "mod_tap" => (Code(s, r.key) => r.count > 0)
                                        /\ (Mods(s, r.key) => ~(r.count > 0))
    <3>1. Right(s, r.key) /\ Told(s, g[0])
      BY <1>1 DEF Good, Sound
    <3> QED  BY <1>1, <1>2, <3>1 DEF Right, Told
  <2>3. ~(r.count > 0) => r.count = 0
    BY <1>1, Constants DEF KeyRecord
  <2>4. r.count > 0 => r.count # 0
    BY <1>1 DEF KeyRecord
  <2>5. ~Code(s2, r.key) /\ ~Mods(s2, r.key)
    BY <2>1, <2>2, <2>3, <2>4 DEF Code, Mods
  <2>6. \A k \in Keys : k # r.key => (Code(s2, k) <=> Code(s, k)) /\ (Mods(s2, k) <=> Mods(s, k))
    BY <2>1 DEF Code, Mods
  <2> QED  BY <2>5, <2>6
<1>6. Told(s2, up)
  <2>1. Told(s, g[0])
    BY DEF Good, Sound
  <2> QED  BY <1>3, <1>5, <2>1 DEF Told
<1>7. \A k \in Keys : Live(s2, k) <=> Live(s, k)
  BY DEF Live
<1>8. ASSUME NEW k \in Keys
      PROVE  Right(s2, k)
  <2>1. CASE k = r.key
    BY <1>5, <1>7, <2>1 DEF Right
  <2>2. CASE k # r.key
    <3>1. Ends(s) = {} => Ends(s2) = {}
      BY EndsTail
    <3>2. Right(s, k)
      BY DEF Good, Sound
    <3> QED  BY <1>2, <1>5, <1>7, <2>2, <3>1, <3>2, RightKept
  <2> QED  BY <2>1, <2>2
<1>9. /\ IsOpen(s2) => IsOpen(s) /\ s2.tap.time = s.tap.time
      /\ IsOpen(s2) /\ s2.tap.interrupted =>
            IsOpen(s) /\ s.tap.interrupted /\ s2.tap.key = s.tap.key /\ ~r.pressed
  BY DEF IsOpen
<1>10. \A k \in Keys : s2.owed[k] - Pending(s2, k) + (IF r.key = k /\ r.pressed THEN 1 ELSE 0)
                         = s.owed[k] - Pending(s, k)
  <2> SUFFICES ASSUME NEW k \in Keys
               PROVE  s2.owed[k] - Pending(s2, k) + 0 = s.owed[k] - Pending(s, k)
    OBVIOUS
  <2>1. Pending(s2, k) = Pending(s, k)
    <3>1. IsOpen(s) /\ s.tap.key = k => k # r.key
      BY DEF IsOpen, Live
    <3> QED  BY <1>5, <3>1 DEF Pending, IsOpen
  <2>2. s.owed[k] \in Int /\ Pending(s, k) \in Int
    BY PendingTyped DEF CallState
  <2> QED  BY <2>1, <2>2
<1> HIDE DEF up
<1> QED  BY <1>2, <1>4, <1>6, <1>8, <1>9, <1>10, TakesGood DEF up

(* The release of the tapping key ends its tap.                            *)
LEMMA TapEnded ==
  ASSUME NEW s \in CallState, NEW s2 \in CallState, NEW g, NEW dn, NEW now, Good(s, g, dn, now),
         Len(s.buf) > 0, NEW r, r = Head(s.buf), ~r.pressed, IsTapped(s), r.key = s.tap.key,
         s2.buf = Tail(s.buf), ~s2.tap.pressed, s2.tap.key \in {NoKey, r.key},
         s2.reg = s.reg \ {<<r.key, "code">>}, s2.owed = s.owed
  PROVE  \E h : Good(s2, h, dn, now)
<1> DEFINE up == IF r.pressed THEN g[0] \cup {r.key} ELSE g[0] \ {r.key}
<1>1. s.buf \in Seq(KeyRecord) /\ r \in KeyRecord /\ r.key \in Keys /\ r.key # NoKey
  BY HeadIs DEF CallState
<1>2. /\ Same(Tail(s.buf), s2.buf) /\ Marks(s2.buf)
      /\ \A k : /\ k # r.key => (Has(s.buf, k) => Has(s2.buf, k))
                /\ k # r.key => (Known(s2.buf, k) <=> Known(s.buf, k))
  BY <1>1, MarksTail, SameIs DEF Good, Sound
<1>3. up = g[0] \ {r.key}
  OBVIOUS
<1>4. TapIs(s2, up)
  BY DEF Good, Sound, TapIs
<1>5. \A k \in Keys : /\ k # r.key => (Code(s2, k) <=> Code(s, k)) /\ (Mods(s2, k) <=> Mods(s, k))
                      /\ ~Code(s2, r.key) /\ ~Mods(s2, r.key)
  <2>1. ~Mods(s, r.key)
    <3>1. Right(s, r.key) /\ TapIs(s, g[0])
      BY <1>1 DEF Good, Sound
    <3> QED  BY <1>1, <3>1 DEF Right, IsTapped, Live, TapIs
  <2>2. \A k \in Keys : k # r.key => (Code(s2, k) <=> Code(s, k)) /\ (Mods(s2, k) <=> Mods(s, k))
    BY DEF Code, Mods
  <2> QED  BY <2>1, <2>2 DEF Code, Mods
<1>6. Told(s2, up)
  <2>1. Told(s, g[0])
    BY DEF Good, Sound
  <2> QED  BY <1>3, <1>5, <2>1 DEF Told
<1>7. \A k \in Keys : ~Live(s2, k) /\ (k # r.key => ~Live(s, k))
  BY DEF Live
<1>8. ASSUME NEW k \in Keys
      PROVE  Right(s2, k)
  <2>1. CASE k = r.key
    BY <1>5, <1>7, <2>1 DEF Right
  <2>2. CASE k # r.key
    <3>1. Right(s, k)
      BY DEF Good, Sound
    <3> QED  BY <1>2, <1>5, <1>7, <2>2, <3>1, RightKept
  <2> QED  BY <2>1, <2>2
<1>9. ~IsOpen(s2) /\ ~IsOpen(s)
  BY DEF IsOpen, IsTapped, CallState, Record
<1>10. \A k \in Keys : s2.owed[k] - Pending(s2, k) + (IF r.key = k /\ r.pressed THEN 1 ELSE 0)
                         = s.owed[k] - Pending(s, k)
  <2> SUFFICES ASSUME NEW k \in Keys
               PROVE  s2.owed[k] - Pending(s2, k) + 0 = s.owed[k] - Pending(s, k)
    OBVIOUS
  <2>1. Pending(s2, k) = 0 /\ Pending(s, k) = 0 /\ s.owed[k] \in Int
    BY <1>9 DEF Pending, CallState
  <2> QED  BY <2>1
<1> HIDE DEF up
<1> QED  BY <1>2, <1>4, <1>6, <1>8, <1>9, <1>10, TakesGood DEF up

(* A press of a key with one role is passed on.                            *)
LEMMA PressTaken ==
  ASSUME NEW s \in CallState, NEW s2 \in CallState, NEW g, NEW dn, NEW now, Good(s, g, dn, now),
         Len(s.buf) > 0, NEW r, r = Head(s.buf), r.pressed, ~IsTap(r), ~IsOpen(s),
         s2.buf = Tail(s.buf), s2.tap.key = s.tap.key, s2.tap.pressed = s.tap.pressed,
         s2.tap.count = s.tap.count, s2.reg = s.reg \cup {<<r.key, "code">>},
         \A k \in Keys : s2.owed[k] = IF k = r.key THEN s.owed[k] - 1 ELSE s.owed[k]
  PROVE  \E h : Good(s2, h, dn, now)
<1> DEFINE up == IF r.pressed THEN g[0] \cup {r.key} ELSE g[0] \ {r.key}
<1>1. /\ s.buf \in Seq(KeyRecord) /\ r \in KeyRecord /\ r.key \in Keys /\ r.key # NoKey
      /\ r.key \notin g[0] /\ keymap[r.key] # "mod_tap"
  BY HeadIs DEF CallState, IsTap
<1>2. /\ Same(Tail(s.buf), s2.buf) /\ Marks(s2.buf)
      /\ \A k : k # r.key => (Has(s.buf, k) => Has(s2.buf, k))
                             /\ (Known(s2.buf, k) <=> Known(s.buf, k))
  BY <1>1, MarksTail, SameIs DEF Good, Sound
<1>3. up = g[0] \cup {r.key}
  OBVIOUS
<1>4. TapIs(s2, up)
  BY <1>3 DEF Good, Sound, TapIs
<1>5. /\ \A k \in Keys : k # r.key => (Code(s2, k) <=> Code(s, k))
      /\ \A k \in Keys : Mods(s2, k) <=> Mods(s, k)
      /\ ~Code(s, r.key)
  <2>1. ~Code(s, r.key)
    BY <1>1 DEF Good, Sound, Told
  <2> QED  BY <2>1 DEF Code, Mods
<1>6. Told(s2, up)
  <2>1. Told(s, g[0])
    BY DEF Good, Sound
  <2> QED  BY <1>1, <1>3, <1>5, <2>1 DEF Told
<1>7. \A k \in Keys : Live(s2, k) <=> Live(s, k)
  BY DEF Live
<1>8. ~IsOpen(s2)
  BY DEF IsOpen
<1>9. ASSUME NEW k \in Keys
      PROVE  Right(s2, k)
  <2>1. CASE k = r.key
    BY <1>1, <2>1 DEF Right
  <2>2. CASE k # r.key
    <3>1. Right(s, k) /\ TapIs(s, g[0])
      BY DEF Good, Sound
    <3>2. Live(s, k) => s.tap.count # 0
      BY <3>1 DEF Live, TapIs, IsOpen
    <3> QED  BY <1>2, <1>5, <1>7, <2>2, <3>1, <3>2 DEF Right
  <2> QED  BY <2>1, <2>2
<1>10. \A k \in Keys : s2.owed[k] - Pending(s2, k) + (IF r.key = k /\ r.pressed THEN 1 ELSE 0)
                         = s.owed[k] - Pending(s, k)
  <2> SUFFICES ASSUME NEW k \in Keys
               PROVE  s2.owed[k] - Pending(s2, k) + (IF r.key = k THEN 1 ELSE 0)
                         = s.owed[k] - Pending(s, k)
    OBVIOUS
  <2>1. Pending(s2, k) = 0 /\ Pending(s, k) = 0 /\ s.owed[k] \in Int
    BY <1>8 DEF Pending, CallState
  <2>2. s2.owed[k] = IF k = r.key THEN s.owed[k] - 1 ELSE s.owed[k]
    OBVIOUS
  <2> QED  BY <2>1, <2>2
<1> HIDE DEF up
<1> QED  BY <1>2, <1>4, <1>6, <1>8, <1>9, <1>10, TakesGood DEF up

(* The press of a key with two roles makes it the tapping key.  The role   *)
(* of the one before it was taken back if its release will not do it.      *)
Leaves(s, s2, k) ==
  /\ Mods(s2, k) <=> Mods(s, k)
  /\ Code(s2, k) => Code(s, k) /\ ~(Live(s, k) /\ s.tap.count > 1)

LEMMA LeftRight ==
  ASSUME NEW s \in CallState, NEW s2 \in CallState, NEW k, Right(s, k),
         Live(s, k) => s.tap.count # 0,
         ~Live(s2, k), Leaves(s, s2, k), Known(s2.buf, k) <=> Known(s.buf, k)
  PROVE  Right(s2, k)
<1>1. s.tap.count \in Nat
  BY Constants DEF CallState, Record
<1>2. Live(s, k) => s.tap.count = 1 \/ s.tap.count > 1
  BY <1>1
<1>3. Live(s, k) => s.tap.count > 0
  BY <1>1
<1> QED  BY <1>2, <1>3 DEF Right, Leaves

LEMMA StartTaken ==
  ASSUME NEW s \in CallState, NEW s2 \in CallState, NEW g, NEW dn, NEW now, Good(s, g, dn, now),
         Len(s.buf) > 0, NEW r, r = Head(s.buf), r.pressed, IsTap(r), ~IsOpen(s),
         s2.buf = Tail(s.buf), s2.tap = r, Ends(s2) = {},
         \A k \in Keys : Leaves(s, s2, k), s2.owed = s.owed
  PROVE  \E h : Good(s2, h, dn, now)
<1> DEFINE up == IF r.pressed THEN g[0] \cup {r.key} ELSE g[0] \ {r.key}
<1>1. /\ s.buf \in Seq(KeyRecord) /\ r \in KeyRecord /\ r.key \in Keys /\ r.key # NoKey
      /\ r.key \notin g[0] /\ keymap[r.key] = "mod_tap" /\ r.count = 0
  BY HeadIs DEF CallState, IsTap
<1>2. /\ Same(Tail(s.buf), s2.buf) /\ Marks(s2.buf)
      /\ \A k : k # r.key => (Known(s2.buf, k) <=> Known(s.buf, k))
      /\ ~Known(s2.buf, r.key)
  BY <1>1, MarksTail, SameIs DEF Good, Sound
<1>3. up = g[0] \cup {r.key}
  OBVIOUS
<1>4. TapIs(s2, up)
  BY <1>1, <1>3 DEF TapIs
<1>5. ~Code(s2, r.key) /\ ~Mods(s2, r.key)
  <2>1. ~Code(s, r.key) /\ ~Mods(s, r.key)
    BY <1>1 DEF Good, Sound, Told
  <2> QED  BY <1>1, <2>1 DEF Leaves
<1>6. Told(s2, up)
  <2>1. Told(s, g[0])
    BY DEF Good, Sound
  <2> QED  BY <1>1, <1>3, <1>5, <2>1 DEF Told, Leaves
<1>7. \A k \in Keys : Live(s2, k) <=> k = r.key
  BY DEF Live
<1>8. IsOpen(s2) /\ s2.tap.time = r.time /\ ~s2.tap.interrupted
  BY <1>1, HeadIs DEF IsOpen
<1>9. ASSUME NEW k \in Keys
      PROVE  Right(s2, k)
  <2>1. CASE k = r.key
    <3>1. s2.tap.count = 0 /\ ~(0 > 0)
      BY <1>1
    <3> QED  BY <1>2, <1>5, <1>7, <2>1, <3>1 DEF Right
  <2>2. CASE k # r.key
    <3>1. Right(s, k) /\ TapIs(s, g[0])
      BY DEF Good, Sound
    <3>2. Live(s, k) => s.tap.count # 0
      BY <3>1 DEF Live, TapIs, IsOpen
    <3> QED  BY <1>2, <1>7, <2>2, <3>1, <3>2, LeftRight
  <2> QED  BY <2>1, <2>2
<1>10. \A k \in Keys : s2.owed[k] - Pending(s2, k) + (IF r.key = k /\ r.pressed THEN 1 ELSE 0)
                         = s.owed[k] - Pending(s, k)
  <2> SUFFICES ASSUME NEW k \in Keys
               PROVE  s2.owed[k] - Pending(s2, k) + (IF r.key = k THEN 1 ELSE 0)
                         = s.owed[k] - Pending(s, k)
    OBVIOUS
  <2>1. Pending(s, k) = 0 /\ s.owed[k] \in Int
    BY DEF Pending, CallState
  <2>2. Pending(s2, k) = IF r.key = k THEN 1 ELSE 0
    BY <1>5, <1>8 DEF Pending
  <2> QED  BY <2>1, <2>2
<1> HIDE DEF up
<1> QED  BY <1>2, <1>4, <1>6, <1>8, <1>9, <1>10, TakesGood DEF up

(* The same if the tap is registered at once: its release waits, or it is  *)
(* one more tap of the same key.                                           *)
LEMMA TapTaken ==
  ASSUME NEW s \in CallState, NEW s2 \in CallState, NEW g, NEW dn, NEW now, Good(s, g, dn, now),
         Len(s.buf) > 0, NEW r, r = Head(s.buf), r.pressed, IsTap(r), ~IsOpen(s),
         Same(Tail(s.buf), s2.buf), Marks(s2.buf),
         \A k : k # r.key => (Known(s2.buf, k) <=> Known(s.buf, k)),
         s2.tap.key = r.key, s2.tap.pressed, s2.tap.count > 0,
         s2.tap.count = 1 => Known(s2.buf, r.key),
         \A k \in Keys : k # r.key => Leaves(s, s2, k), Mods(s2, r.key) <=> Mods(s, r.key),
         \A k \in Keys : s2.owed[k] = IF k = r.key THEN s.owed[k] - 1 ELSE s.owed[k]
  PROVE  \E h : Good(s2, h, dn, now)
<1> DEFINE up == IF r.pressed THEN g[0] \cup {r.key} ELSE g[0] \ {r.key}
<1>1. /\ s.buf \in Seq(KeyRecord) /\ r \in KeyRecord /\ r.key \in Keys /\ r.key # NoKey
      /\ r.key \notin g[0] /\ keymap[r.key] = "mod_tap"
  BY HeadIs DEF CallState, IsTap
<1>2. s2.tap.count # 0
  BY Constants DEF CallState, Record
<1>3. up = g[0] \cup {r.key}
  OBVIOUS
<1>4. TapIs(s2, up)
  BY <1>1, <1>3 DEF TapIs
<1>5. ~Mods(s2, r.key) /\ ~Code(s, r.key)
  <2>1. ~Code(s, r.key) /\ ~Mods(s, r.key)
    BY <1>1 DEF Good, Sound, Told
  <2> QED  BY <2>1
<1>6. Told(s2, up)
  <2>1. Told(s, g[0])
    BY DEF Good, Sound
  <2> QED  BY <1>1, <1>3, <1>5, <2>1 DEF Told, Leaves
<1>7. \A k \in Keys : Live(s2, k) <=> k = r.key
  BY DEF Live
<1>8. ~IsOpen(s2)
  BY <1>2 DEF IsOpen
<1>9. ASSUME NEW k \in Keys
      PROVE  Right(s2, k)
  <2>1. CASE k = r.key
    BY <1>1, <1>2, <1>5, <1>7, <2>1 DEF Right
  <2>2. CASE k # r.key
    <3>1. Right(s, k) /\ TapIs(s, g[0])
      BY DEF Good, Sound
    <3>2. Live(s, k) => s.tap.count # 0
      BY <3>1 DEF Live, TapIs, IsOpen
    <3> QED  BY <1>7, <2>2, <3>1, <3>2, LeftRight
  <2> QED  BY <2>1, <2>2
<1>10. \A k \in Keys : s2.owed[k] - Pending(s2, k) + (IF r.key = k /\ r.pressed THEN 1 ELSE 0)
                         = s.owed[k] - Pending(s, k)
  <2> SUFFICES ASSUME NEW k \in Keys
               PROVE  s2.owed[k] - Pending(s2, k) + (IF r.key = k THEN 1 ELSE 0)
                         = s.owed[k] - Pending(s, k)
    OBVIOUS
  <2>1. Pending(s2, k) = 0 /\ Pending(s, k) = 0 /\ s.owed[k] \in Int
    BY <1>8 DEF Pending, CallState
  <2>2. s2.owed[k] = IF k = r.key THEN s.owed[k] - 1 ELSE s.owed[k]
    OBVIOUS
  <2> QED  BY <2>1, <2>2
<1> HIDE DEF up
<1> QED  BY <1>4, <1>6, <1>8, <1>9, <1>10, TakesGood DEF up

(* The first record of the key in the buffer learns of the tap.            *)
LEMMA FirstMarked ==
  ASSUME NEW b \in Seq(KeyRecord), Marks(b), NEW j \in 1 .. Len(b), ~b[j].pressed,
         First(b, b[j].key, j)
  PROVE  LET q == [b EXCEPT ![j].count = 1]
         IN  /\ q \in Seq(KeyRecord) /\ Same(b, q) /\ Marks(q) /\ Known(q, b[j].key)
             /\ \A k : k # b[j].key => (Known(q, k) <=> Known(b, k))
<1> DEFINE q == [b EXCEPT ![j].count = 1]
           x == [b[j] EXCEPT !.count = 1]
<1>1. /\ q \in Seq(KeyRecord) /\ Len(q) = Len(b)
      /\ \A i \in 1 .. Len(b) : q[i] = IF i = j THEN x ELSE b[i]
  <2>1. /\ [b EXCEPT ![j].count = 1] \in Seq(KeyRecord)
        /\ Len([b EXCEPT ![j].count = 1]) = Len(b)
        /\ \A i \in 1 .. Len(b) : [b EXCEPT ![j].count = 1][i] =
              IF i = j THEN [b[j] EXCEPT !.count = 1] ELSE b[i]
    BY Marked, OneIsCount
  <2> QED  BY <2>1
<1>2. /\ x.key = b[j].key /\ x.pressed = b[j].pressed /\ x.time = b[j].time
      /\ x.count = 1
  BY DEF KeyRecord
<1> HIDE DEF q, x
<1>3. Same(b, q)
  BY <1>1, <1>2 DEF Same
<1>4. \A i \in 1 .. j - 1 : b[i].key # b[j].key
  BY DEF First
<1>5. \A i \in 1 .. Len(b) : q[i].key = b[i].key
  BY <1>1, <1>2
<1>6. Marks(q)
  <2> SUFFICES ASSUME NEW i \in 1 .. Len(b)
               PROVE  /\ q[i].pressed => q[i].count = 0 /\ ~q[i].interrupted
                      /\ q[i].count > 0 => \A l \in 1 .. i - 1 : q[l].key # q[i].key
    BY <1>1 DEF Marks
  <2>1. \A l \in 1 .. i - 1 : l \in 1 .. Len(b)
    OBVIOUS
  <2>2. CASE i = j
    BY <1>1, <1>2, <1>4, <1>5, <2>1, <2>2
  <2>3. CASE i # j
    <3>1. q[i] = b[i]
      BY <1>1, <2>3
    <3>2. /\ b[i].pressed => b[i].count = 0 /\ ~b[i].interrupted
          /\ b[i].count > 0 => \A l \in 1 .. i - 1 : b[l].key # b[i].key
      BY DEF Marks
    <3> QED  BY <1>5, <2>1, <3>1, <3>2
  <2> QED  BY <2>2, <2>3
<1>7. Known(q, b[j].key)
  BY <1>1, <1>2 DEF Known
<1>8. ASSUME NEW k, k # b[j].key
      PROVE  Known(q, k) <=> Known(b, k)
  BY <1>1, <1>2, <1>8 DEF Known
<1> QED  BY <1>1, <1>3, <1>6, <1>7, <1>8 DEF q

(* A tapping key that was not decided is held.                             *)
LEMMA HeldGood ==
  ASSUME NEW s \in CallState, NEW s2 \in CallState, NEW g, NEW dn, NEW now, Good(s, g, dn, now),
         IsOpen(s), s2.buf = s.buf, ~s2.tap.pressed, s2.tap.key = NoKey,
         s2.reg = s.reg \cup {<<s.tap.key, "mods">>},
         \A k \in Keys : s2.owed[k] = IF k = s.tap.key THEN s.owed[k] - 1 ELSE s.owed[k]
  PROVE  Good(s2, g, dn, now)
<1> DEFINE t == s.tap.key
<1>1. t \in Keys /\ t # NoKey /\ t \in g[0] /\ keymap[t] = "mod_tap" /\ Live(s, t) /\ s.tap.count = 0
  BY DEF Good, Sound, TapIs, IsOpen, Live, CallState, Record
<1>2. Same(s.buf, s2.buf) /\ Marks(s2.buf) /\ TapIs(s2, g[0])
  BY SameIs DEF Good, Sound, TapIs
<1>3. /\ \A k \in Keys : Code(s2, k) <=> Code(s, k)
      /\ \A k \in Keys : Mods(s2, k) <=> Mods(s, k) \/ k = t
  BY DEF Code, Mods
<1>4. Told(s2, g[0])
  <2>1. Told(s, g[0])
    BY DEF Good, Sound
  <2> QED  BY <1>1, <1>3, <2>1 DEF Told
<1>5. \A k \in Keys : ~Live(s2, k) /\ (k # t => ~Live(s, k))
  BY DEF Live
<1> HIDE DEF t
<1>6. ASSUME NEW k \in Keys
      PROVE  Right(s2, k)
  <2>1. Right(s, k)
    BY DEF Good, Sound
  <2> QED  BY <1>1, <1>3, <1>5, <2>1 DEF Right
<1>7. ~IsOpen(s2) /\ Ahead(s2)
  BY DEF IsOpen, Ahead
<1>8. \A k \in Keys : s2.owed[k] - Pending(s2, k) = s.owed[k] - Pending(s, k)
  <2> SUFFICES ASSUME NEW k \in Keys
               PROVE  s2.owed[k] - Pending(s2, k) = s.owed[k] - Pending(s, k)
    OBVIOUS
  <2>1. Pending(s2, k) = 0 /\ s.owed[k] \in Int
    BY <1>7 DEF Pending, CallState
  <2>2. Pending(s, k) = IF k = t THEN 1 ELSE 0
    BY DEF Pending, t
  <2>3. s2.owed[k] = IF k = t THEN s.owed[k] - 1 ELSE s.owed[k]
    BY DEF t
  <2> QED  BY <2>1, <2>2, <2>3
<1> QED  BY <1>2, <1>4, <1>6, <1>7, <1>8, StaysGood

(* The tapping key is interrupted, or forgotten after it was let go; a     *)
(* release that waits may learn of the interruption.                       *)
LEMMA UntoldGood ==
  ASSUME NEW s \in CallState, NEW s2 \in CallState, NEW g, NEW dn, NEW now, Good(s, g, dn, now),
         Same(s.buf, s2.buf), s2.reg = s.reg, s2.owed = s.owed,
         \A i \in 1 .. Len(s.buf) : /\ s2.buf[i].count = s.buf[i].count
                                    /\ s.buf[i].pressed => ~s2.buf[i].interrupted,
         Ahead(s2),
         \/ /\ s2.tap.key = s.tap.key /\ s2.tap.pressed = s.tap.pressed
            /\ s2.tap.count = s.tap.count /\ s2.tap.time = s.tap.time
            /\ s.tap.interrupted => s2.tap.interrupted
         \/ ~s.tap.pressed /\ ~s2.tap.pressed /\ s2.tap.key = NoKey
  PROVE  Good(s2, g, dn, now)
<1>1. /\ Len(s2.buf) = Len(s.buf)
      /\ \A i \in 1 .. Len(s.buf) : /\ s2.buf[i].key = s.buf[i].key
                                    /\ s2.buf[i].pressed = s.buf[i].pressed
                                    /\ s2.buf[i].time = s.buf[i].time
  BY DEF Same
<1>2. Marks(s2.buf)
  <2>1. Marks(s.buf)
    BY DEF Good, Sound
  <2>2. \A j \in 1 .. Len(s.buf) : \A i \in 1 .. j - 1 : i \in 1 .. Len(s.buf)
    OBVIOUS
  <2> QED  BY <1>1, <2>1, <2>2 DEF Marks
<1>3. \A k : (Known(s2.buf, k) <=> Known(s.buf, k)) /\ (Has(s2.buf, k) <=> Has(s.buf, k))
  BY <1>1 DEF Known, Has
<1>4. \A k \in Keys : (Code(s2, k) <=> Code(s, k)) /\ (Mods(s2, k) <=> Mods(s, k))
  BY DEF Code, Mods
<1>5. TapIs(s2, g[0]) /\ Told(s2, g[0])
  BY <1>4 DEF Good, Sound, TapIs, Told
<1>6. \A k \in Keys : Live(s2, k) <=> Live(s, k)
  BY Constants DEF Live
<1>7. s2.tap.key = s.tap.key /\ s2.tap.time = s.tap.time => (Ends(s) = {} => Ends(s2) = {})
  <2> SUFFICES ASSUME s2.tap.key = s.tap.key, s2.tap.time = s.tap.time, Ends(s) = {},
                      NEW i \in Ends(s2)
               PROVE  FALSE
    OBVIOUS
  <2>1. /\ i \in 1 .. Len(s2.buf) /\ s2.buf[i].key = s2.tap.key
        /\ ~s2.buf[i].pressed /\ Within(s2.tap, s2.buf[i])
    BY EndsAre
  <2>2. Within(s.tap, s.buf[i])
    <3>1. s2.buf[i].time = s.buf[i].time
      BY <1>1, <2>1
    <3> QED  BY <2>1, <3>1, SameWithin
  <2>3. i \in Ends(s)
    BY <1>1, <2>1, <2>2, EndsAre
  <2> QED  BY <2>3
<1>8. ASSUME NEW k \in Keys
      PROVE  Right(s2, k)
  <2>1. Right(s, k)
    BY DEF Good, Sound
  <2>2. Live(s2, k) => /\ s2.tap.count = s.tap.count
                       /\ s.tap.interrupted => s2.tap.interrupted
                       /\ Ends(s) = {} => Ends(s2) = {}
    BY <1>7, Constants DEF Live
  <2> QED  BY <1>3, <1>4, <1>6, <2>1, <2>2, RightKept
<1>9. IsOpen(s2) => IsOpen(s) /\ s2.tap.time = s.tap.time
  BY DEF IsOpen
<1>10. \A k \in Keys : s2.owed[k] - Pending(s2, k) = s.owed[k] - Pending(s, k)
  <2> SUFFICES ASSUME NEW k \in Keys
               PROVE  Pending(s2, k) = Pending(s, k)
    OBVIOUS
  <2> QED  BY <1>4 DEF Pending, IsOpen
<1> QED  BY <1>2, <1>5, <1>8, <1>9, <1>10, StaysGood

----------------------------------------------------------------------------
(* What the call of the record r finds: what it gives cause to pass on is  *)
(* owed already.                                                           *)
Owing(s, r) ==
  \A k \in Keys : s.owed[k] = Presses(s.buf, k) + Pending(s, k) + Due(s, r, k)

(* A record comes to wait behind all others.                               *)
LEMMA JoinsGood ==
  ASSUME NEW s \in CallState, NEW s2 \in CallState, NEW g, NEW dn \in SUBSET Keys,
         NEW now \in 0 .. Width - 1, Sound(s, g, dn, now),
         NEW r \in KeyRecord, Owing(s, r), r.time = now, r.pressed <=> r.key \notin dn,
         r.pressed => r.count = 0 /\ ~r.interrupted, r.count > 0 => ~Has(s.buf, r.key),
         s2.buf = Append(s.buf, r), TapIs(s2, g[0]), Told(s2, g[0]),
         \A k \in Keys : Right(s2, k),
         IsOpen(s2) => IsOpen(s) /\ s2.tap.time = s.tap.time, Ahead(s2),
         \A k \in Keys : s2.owed[k] - Pending(s2, k) = s.owed[k] - Pending(s, k)
                             - IF k = r.key /\ InAdvance(s, r) THEN 1 ELSE 0
  PROVE  \E h : Good(s2, h, DownAfter(dn, r), now)
<1> DEFINE n == Len(s.buf)
<1>1. s.buf \in Seq(KeyRecord) /\ s2.buf \in Seq(KeyRecord)
  BY DEF CallState
<1>2. DownAfter(dn, r) \in SUBSET Keys
  BY DEF DownAfter, KeyRecord
<1>3. PICK h : Path(s2.buf, h, DownAfter(dn, r)) /\ h[0] = g[0]
  BY <1>1, PathAppend DEF Sound
<1>4. Marks(s2.buf)
  BY <1>1, MarksAppend DEF Sound
<1>5. /\ n \in Nat /\ Len(s2.buf) = n + 1 /\ (\A i \in 1 .. n : s2.buf[i] = s.buf[i])
      /\ s2.buf[n + 1] = r /\ \A i \in 1 .. n : s.buf[i] \in KeyRecord
  BY <1>1, AppendFacts
<1>6. Order(s2, now)
  <2>1. /\ \A i, j \in 1 .. n : i <= j => Age(s.buf[j].time, now) <= Age(s.buf[i].time, now)
        /\ IsOpen(s) => \A i \in 1 .. n : Age(s.buf[i].time, now) <= Age(s.tap.time, now)
    BY DEF Sound, Order
  <2>2. Age(r.time, now) = 0
    BY AgeTyped
  <2>3. Age(s.tap.time, now) \in Nat
    BY AgesTyped
  <2>4. \A i \in 1 .. n : Age(s.buf[i].time, now) \in Nat
    BY AgesTyped
  <2> HIDE DEF n
  <2>5. ASSUME NEW i \in 1 .. n + 1, NEW j \in 1 .. n + 1, i <= j
        PROVE  Age(s2.buf[j].time, now) <= Age(s2.buf[i].time, now)
    <3>1. CASE j = n + 1
      <4>1. CASE i = n + 1
        BY <1>5, <2>2, <3>1, <4>1
      <4>2. CASE i # n + 1
        <5>1. i \in 1 .. n
          BY <1>5, <4>2
        <5> QED  BY <1>5, <2>2, <2>4, <3>1, <5>1
      <4> QED  BY <4>1, <4>2
    <3>2. CASE j # n + 1
      <4>1. i \in 1 .. n /\ j \in 1 .. n
        BY <1>5, <2>5, <3>2
      <4> QED  BY <1>5, <2>1, <2>5, <4>1
    <3> QED  BY <3>1, <3>2
  <2>6. ASSUME IsOpen(s2), NEW i \in 1 .. n + 1
        PROVE  Age(s2.buf[i].time, now) <= Age(s2.tap.time, now)
    <3>1. CASE i = n + 1
      BY <1>5, <2>2, <2>3, <2>6, <3>1
    <3>2. CASE i # n + 1
      <4>1. i \in 1 .. n
        BY <1>5, <3>2
      <4> QED  BY <1>5, <2>1, <2>6, <4>1
    <3> QED  BY <3>1, <3>2
  <2> QED  BY <1>5, <2>5, <2>6 DEF Order
<1>7. Owes(s2)
  <2> SUFFICES ASSUME NEW k \in Keys
               PROVE  s2.owed[k] = Presses(s2.buf, k) + Pending(s2, k)
    BY DEF Owes
  <2> DEFINE a == Pending(s, k)
             c == Pending(s2, k)
             e == Presses(s.buf, k)
             d == Presses(s2.buf, k)
             x == s.owed[k]
             y == s2.owed[k]
             o == IF k = r.key /\ r.pressed THEN 1 ELSE 0
             v == IF k = r.key /\ InAdvance(s, r) THEN 1 ELSE 0
  <2>1. x = e + a + (o + v)
    <3>1. Due(s, r, k) = o + v
      BY DEF Due, InAdvance
    <3> QED  BY <3>1 DEF Owing
  <2>2. d = e + o /\ e \in Nat
    BY <1>1, PressesAppend
  <2>3. y - c = x - a - v
    OBVIOUS
  <2>4. x \in Int /\ y \in Int
    BY DEF CallState
  <2>5. a \in Int /\ c \in Int
    BY PendingTyped
  <2>6. o \in Int /\ v \in Int
    OBVIOUS
  <2> HIDE DEF a, c, d, e, x, y, o, v
  <2>8. y = d + c
    BY <2>1, <2>2, <2>3, <2>4, <2>5, <2>6
  <2> QED  BY <2>8 DEF c, d, y
<1> QED  BY <1>3, <1>4, <1>6, <1>7 DEF Good, Sound

----------------------------------------------------------------------------
(* The release that is found for a new tapping key is the first record of  *)
(* that key: if a later one is within the term, so is this one.            *)
LEMMA FirstFound ==
  ASSUME NEW s \in CallState, NEW g, NEW dn, NEW now \in 0 .. Width - 1, Good(s, g, dn, now),
         Len(s.buf) > 0, Head(s.buf).pressed,
         NEW s1 \in CallState, s1.tap = Head(s.buf), s1.buf = s.buf,
         NEW i \in Ends(s1), \A l \in Ends(s1) : i <= l,
         QS.tapping_term \in Nat
  PROVE  /\ i - 1 \in 1 .. Len(Tail(s.buf)) /\ Tail(s.buf)[i - 1] = s.buf[i]
         /\ i \in 1 .. Len(s.buf) /\ ~s.buf[i].pressed /\ s.buf[i].key = Head(s.buf).key
         /\ First(Tail(s.buf), Head(s.buf).key, i - 1)
<1> DEFINE b == s.buf
           q == Tail(s.buf)
           r == Head(s.buf)
           n == Len(s.buf)
<1>1. /\ b \in Seq(KeyRecord) /\ q \in Seq(KeyRecord) /\ n \in Nat /\ n > 0 /\ Len(q) = n - 1
      /\ r = b[1] /\ \A j \in 1 .. n - 1 : q[j] = b[j + 1]
      /\ \A j \in 1 .. n : b[j] \in KeyRecord
  <2>1. b \in Seq(KeyRecord)
    BY DEF CallState
  <2> QED  BY <2>1, TailFacts
<1>2. /\ i \in 1 .. n /\ b[i].key = r.key /\ ~b[i].pressed /\ Within(r, b[i])
  BY EndsAre
<1>3. i # 1
  BY <1>1, <1>2
<1> HIDE DEF b, q, r, n
<1>4. i - 1 \in 1 .. n - 1 /\ q[i - 1] = b[i]
  BY <1>1, <1>2, <1>3
<1>5. PICK j \in 1 .. i - 1 : First(q, r.key, j)
  <2>1. i - 1 \in 1 .. Len(q) /\ q[i - 1].key = r.key
    BY <1>1, <1>2, <1>4
  <2> QED  BY <1>1, <2>1, FirstExists
<1>6. j \in 1 .. n - 1 /\ q[j].key = r.key
  BY <1>1, <1>5 DEF First
<1>7. ~q[j].pressed
  <2>1. PICK h : /\ Path(Tail(b), h, dn) /\ h[0] = g[1]
                 /\ g[1] = IF Head(b).pressed THEN g[0] \cup {Head(b).key}
                           ELSE g[0] \ {Head(b).key}
    <3>1. Path(b, g, dn) /\ Len(b) > 0
      BY <1>1 DEF Good, Sound, b, n
    <3> QED  BY <1>1, <3>1, PathTail
  <2>2. Path(q, h, dn) /\ r.key \in h[0]
    BY <2>1 DEF q, r, b
  <2> QED  BY <1>1, <1>5, <2>2, FirstDirection
<1>8. j + 1 \in 1 .. n /\ q[j] = b[j + 1] /\ j + 1 <= i /\ 1 <= j + 1 /\ 1 \in 1 .. n
  <2>1. q[j] = b[j + 1]
    BY <1>1, <1>6
  <2>2. j + 1 \in 1 .. n /\ 1 \in 1 .. n
    BY <1>1, <1>6
  <2>3. i \in Int /\ j \in 1 .. i - 1
    BY <1>2
  <2>4. j + 1 <= i /\ 1 <= j + 1
    BY <2>3
  <2> QED  BY <2>1, <2>2, <2>4
<1>9. Within(r, b[j + 1])
  <2>1. \A k, l \in 1 .. n : k <= l => Age(b[l].time, now) <= Age(b[k].time, now)
    BY DEF Good, Sound, Order, b, n
  <2>2. /\ Age(b[i].time, now) <= Age(b[j + 1].time, now)
        /\ Age(b[j + 1].time, now) <= Age(r.time, now)
    BY <1>1, <1>2, <1>8, <2>1
  <2>3. r \in Record /\ b[i] \in Record /\ b[j + 1] \in Record
    BY <1>1, <1>2, <1>8, KeyRecords
  <2>4. /\ Age(b[i].time, now) \in Nat /\ Age(b[j + 1].time, now) \in Nat
        /\ Age(r.time, now) \in Nat
    BY <1>1, <1>2, <1>8, AgesTyped DEF b, r, n
  <2>5. Age(b[i].time, now) <= Age(r.time, now)
    BY <2>2, <2>4
  <2>6. Within(r, b[i]) <=> Age(r.time, now) - Age(b[i].time, now) < QS.tapping_term
    BY <2>3, <2>5, WithinAges
  <2>7. Within(r, b[j + 1]) <=> Age(r.time, now) - Age(b[j + 1].time, now) < QS.tapping_term
    BY <2>2, <2>3, WithinAges
  <2>8. QS.tapping_term \in Int
    OBVIOUS
  <2> DEFINE x == Age(b[i].time, now)
             y == Age(b[j + 1].time, now)
             z == Age(r.time, now)
             m == QS.tapping_term
  <2>9. x <= y /\ y <= z /\ x \in Nat /\ y \in Nat /\ z \in Nat /\ m \in Int /\ z - x < m
    BY <1>2, <2>2, <2>4, <2>6, <2>8
  <2> HIDE DEF x, y, z, m
  <2>10. z - y < m
    BY <2>9
  <2> QED  BY <2>7, <2>10 DEF y, z, m
<1>10. j + 1 \in Ends(s1)
  <2>1. s1.tap = r /\ s1.buf = b /\ n = Len(b)
    BY DEF r, b, n
  <2>2. b[j + 1].key = r.key /\ ~b[j + 1].pressed
    BY <1>6, <1>7, <1>8
  <2> QED  BY <1>8, <1>9, <2>1, <2>2, EndsAre
<1>11. j + 1 = i
  <2>1. i <= j + 1
    BY <1>10
  <2> QED  BY <1>2, <1>5, <1>8, <2>1
<1>12. First(q, r.key, i - 1)
  <2>1. i - 1 = j
    BY <1>2, <1>5, <1>11
  <2> QED  BY <1>5, <2>1
<1> QED  BY <1>1, <1>2, <1>4, <1>12 DEF b, q, r, n

LEMMA TailMarked ==
  ASSUME NEW b \in Seq(KeyRecord), Len(b) > 0, NEW i \in 1 .. Len(b), i # 1
  PROVE  Tail([b EXCEPT ![i].count = 1]) = [Tail(b) EXCEPT ![i - 1].count = 1]
<1> DEFINE n == Len(b)
           c == [b EXCEPT ![i].count = 1]
           q == Tail(b)
           x == [b[i] EXCEPT !.count = 1]
           d == [q EXCEPT ![i - 1].count = 1]
<1>1. /\ n \in Nat /\ n > 0 /\ q \in Seq(KeyRecord) /\ Len(q) = n - 1
      /\ \A j \in 1 .. n - 1 : q[j] = b[j + 1]
  BY TailFacts
<1>2. /\ c \in Seq(KeyRecord) /\ Len(c) = n
      /\ \A j \in 1 .. n : c[j] = IF j = i THEN x ELSE b[j]
  BY Marked, OneIsCount
<1>3. i - 1 \in 1 .. n - 1 /\ q[i - 1] = b[i]
  BY <1>1
<1>4. /\ d \in Seq(KeyRecord) /\ Len(d) = n - 1
      /\ \A j \in 1 .. n - 1 : d[j] = IF j = i - 1 THEN x ELSE q[j]
  <2> DEFINE j == i - 1
  <2> HIDE DEF q, j
  <2>1. j \in 1 .. Len(q) /\ q[j] = b[i] /\ q \in Seq(KeyRecord)
    BY <1>1, <1>3 DEF j
  <2>2. /\ [q EXCEPT ![j].count = 1] \in Seq(KeyRecord)
        /\ Len([q EXCEPT ![j].count = 1]) = Len(q)
        /\ \A l \in 1 .. Len(q) : [q EXCEPT ![j].count = 1][l] =
              IF l = j THEN [q[j] EXCEPT !.count = 1] ELSE q[l]
    BY <2>1, Marked, OneIsCount
  <2> QED  BY <1>1, <2>1, <2>2 DEF j
<1> HIDE DEF c, d, x, q, n
<1>5. /\ Tail(c) \in Seq(KeyRecord) /\ Len(Tail(c)) = n - 1
      /\ \A j \in 1 .. n - 1 : Tail(c)[j] = c[j + 1]
  BY <1>1, <1>2, TailFacts
<1>6. ASSUME NEW j \in 1 .. n - 1
      PROVE  Tail(c)[j] = d[j]
  <2>1. j + 1 \in 1 .. n /\ (j + 1 = i <=> j = i - 1)
    BY <1>1, <1>3
  <2> QED  BY <1>1, <1>2, <1>4, <1>5, <2>1
<1>7. Tail(c) = d
  BY <1>1, <1>4, <1>5, <1>6
<1> QED  BY <1>7 DEF c, d, q

(* A new tapping key, with the scan for its release.                       *)
LEMMA ScanTaken ==
  ASSUME NEW s \in CallState, NEW g, NEW dn, NEW now \in 0 .. Width - 1, Good(s, g, dn, now),
         Len(s.buf) > 0, NEW r, r = Head(s.buf), r.pressed, IsTap(r), ~IsOpen(s),
         NEW s1 \in CallState, s1.tap = r, s1.buf = s.buf, \A k \in Keys : Leaves(s, s1, k),
         s1.owed = s.owed, QS.tapping_term \in Nat,
         NEW s2 \in CallState, s2.buf = Tail(ScanTap(s1).buf), s2.tap = ScanTap(s1).tap,
         s2.reg = ScanTap(s1).reg, s2.owed = ScanTap(s1).owed
  PROVE  \E h : Good(s2, h, dn, now)
<1>1. /\ s.buf \in Seq(KeyRecord) /\ r \in KeyRecord /\ r.key \in Keys /\ r.key # NoKey
      /\ r.key \notin g[0] /\ keymap[r.key] = "mod_tap" /\ r.count = 0 /\ ~r.interrupted
  BY HeadIs DEF CallState, IsTap
<1>2. CASE Ends(s1) = {}
  <2>1. ScanTap(s1) = s1
    BY <1>1, <1>2, ScanEffect
  <2>2. s2.buf = Tail(s.buf) /\ s2.tap = r /\ s2.reg = s1.reg /\ s2.owed = s.owed
    BY <2>1
  <2>3. Ends(s2) = {}
    BY <1>2, <2>2, EndsTail
  <2>4. \A k \in Keys : Leaves(s, s2, k)
    BY <2>2 DEF Leaves, Code, Mods
  <2> QED  BY <2>2, <2>3, <2>4, StartTaken
<1>3. CASE Ends(s1) # {}
  <2>1. PICK i \in Ends(s1), sx \in CallState, tap \in Record :
          /\ \A l \in Ends(s1) : i <= l
          /\ tap = [s1.tap EXCEPT !.count = 1]
          /\ sx.tap = Acted(tap) /\ sx.buf = [s1.buf EXCEPT ![i].count = 1]
          /\ sx.reg = s1.reg /\ sx.owed = s1.owed /\ sx.disturbed = s1.disturbed
          /\ ScanTap(s1) = Process(sx, tap)
    <3>1. s1.tap.key # NoKey /\ s1.tap.count = 0
      BY <1>1
    <3>2. ~(s1.tap.count > 0 \/ Ends(s1) = {})
      BY <1>3, <3>1
    <3> QED  BY <3>1, <3>2, ScanEffect
  <2> DEFINE b == Tail(s.buf)
             q == [b EXCEPT ![i - 1].count = 1]
  <2>2. /\ i - 1 \in 1 .. Len(b) /\ b[i - 1] = s.buf[i] /\ i \in 1 .. Len(s.buf)
        /\ ~s.buf[i].pressed /\ s.buf[i].key = r.key /\ First(b, r.key, i - 1)
    BY <2>1, FirstFound
  <2>3. /\ b \in Seq(KeyRecord) /\ Marks(b)
        /\ \A k : k # r.key => (Known(b, k) <=> Known(s.buf, k))
    BY <1>1, MarksTail, TailFacts DEF Good, Sound
  <2>4. i # 1
    BY <2>2
  <2>5. s2.buf = q
    <3>1. ScanTap(s1).buf = [s.buf EXCEPT ![i].count = 1]
      BY <2>1, ProcessEffect
    <3>2. Tail([s.buf EXCEPT ![i].count = 1]) = [Tail(s.buf) EXCEPT ![i - 1].count = 1]
      BY <1>1, <2>2, <2>4, TailMarked
    <3> QED  BY <3>1, <3>2
  <2> HIDE DEF b
  <2>6. /\ Same(b, q) /\ Marks(q) /\ Known(q, r.key)
        /\ \A k : k # r.key => (Known(q, k) <=> Known(s.buf, k))
    <3>1. b[i - 1].key = r.key /\ ~b[i - 1].pressed
      BY <2>2
    <3>2. First(b, b[i - 1].key, i - 1)
      BY <2>2, <3>1
    <3> DEFINE j == i - 1
    <3>3. j \in 1 .. Len(b) /\ ~b[j].pressed /\ First(b, b[j].key, j) /\ b[j].key = r.key
      BY <2>2, <3>1, <3>2
    <3> HIDE DEF j
    <3>4. LET qq == [b EXCEPT ![j].count = 1]
          IN  /\ qq \in Seq(KeyRecord) /\ Same(b, qq) /\ Marks(qq) /\ Known(qq, b[j].key)
              /\ \A k : k # b[j].key => (Known(qq, k) <=> Known(b, k))
      BY <2>3, <3>3, FirstMarked
    <3> QED  BY <2>3, <3>3, <3>4 DEF j
  <2> HIDE DEF q
  <2>7. /\ tap.key = r.key /\ tap.pressed = TRUE /\ tap.time = r.time /\ tap.count = 1
        /\ ~tap.interrupted
    BY <1>1, <2>1, KeyRecords, Counted, OneIsCount DEF KeyRecord
  <2>8. /\ Acted(tap).key = r.key /\ Acted(tap).pressed /\ Acted(tap).count = 1
        /\ Role(Acted(tap)) = <<r.key, "code">>
    <3>1. Acted(tap).key = r.key /\ Acted(tap).pressed /\ Acted(tap).count = 1
      BY <2>7, ActedEffect
    <3> QED  BY <3>1 DEF Role
  <2>9. /\ s2.tap = Acted(tap) /\ s2.reg = s1.reg \cup {<<r.key, "code">>}
        /\ \A k \in Keys : s2.owed[k] =
              IF k = r.key THEN s.owed[k] - 1 ELSE s.owed[k]
    <3> DEFINE o == Process(sx, tap)
    <3>1. tap.key # NoKey /\ tap.pressed
      BY <1>1, <2>7
    <3>2. /\ o.tap = sx.tap /\ o.reg = sx.reg \cup {Role(Acted(tap))}
          /\ \A k \in Keys : o.owed[k] = IF k = tap.key THEN sx.owed[k] - 1 ELSE sx.owed[k]
      BY <3>1, ProcessEffect
    <3>3. s2.tap = o.tap /\ s2.reg = o.reg /\ s2.owed = o.owed
      BY <2>1
    <3>4. /\ sx.tap = Acted(tap) /\ sx.reg = s1.reg /\ sx.owed = s.owed
          /\ tap.key = r.key /\ Role(Acted(tap)) = <<r.key, "code">>
      BY <2>1, <2>7, <2>8
    <3> HIDE DEF o
    <3> QED  BY <3>2, <3>3, <3>4
  <2>11. \A k \in Keys : k # r.key => Leaves(s, s2, k)
    BY <2>9 DEF Leaves, Code, Mods
  <2>12. Mods(s2, r.key) <=> Mods(s, r.key)
    BY <1>1, <2>9 DEF Leaves, Mods
  <2>13. \A k \in Keys : s2.owed[k] = IF k = r.key THEN s.owed[k] - 1 ELSE s.owed[k]
    BY <2>9
  <2>14. s2.tap.key = r.key /\ s2.tap.pressed /\ s2.tap.count > 0
    BY <2>8, <2>9
  <2>15. Same(Tail(s.buf), s2.buf) /\ Marks(s2.buf) /\ Known(s2.buf, r.key)
         /\ \A k : k # r.key => (Known(s2.buf, k) <=> Known(s.buf, k))
    BY <2>5, <2>6 DEF b
  <2> QED  BY <2>11, <2>12, <2>13, <2>14, <2>15, TapTaken
<1> QED  BY <1>2, <1>3

LEMMA RoundDone ==
  ASSUME NEW s \in CallState, Len(s.buf) > 0, NEW x, NEW r,
         ProcessTapping(s, Head(s.buf)) = Consumed(x, r)
  PROVE  /\ Round(s).s \in CallState /\ Round(s).done /\ x \in CallState
         /\ Round(s).s.buf = Tail(x.buf) /\ Round(s).s.tap = x.tap
         /\ Round(s).s.reg = x.reg /\ Round(s).s.owed = x.owed
         /\ Round(s).s.disturbed = x.disturbed
<1> DEFINE p == ProcessTapping(s, Head(s.buf))
           y == Round(s)
<1>1. /\ Fits(s, Head(s.buf), p) /\ y.done = p.done
      /\ y.s \in CallState /\ (p.done => y.s.buf = Tail(p.s.buf))
      /\ y.s.tap = p.s.tap /\ y.s.reg = p.s.reg /\ y.s.owed = p.s.owed
      /\ y.s.disturbed = p.s.disturbed
  BY RoundFits
<1>2. p.s = x /\ p.done
  BY DEF Consumed
<1> HIDE DEF p, y
<1> QED  BY <1>1, <1>2 DEF Fits, y

LEMMA RoundWaits ==
  ASSUME NEW s \in CallState, Len(s.buf) > 0, NEW x, NEW r,
         ProcessTapping(s, Head(s.buf)) = Waits(x, r)
  PROVE  /\ Round(s).s \in CallState /\ ~Round(s).done /\ x \in CallState
         /\ Round(s).s.buf = [x.buf EXCEPT ![1] = r] /\ Round(s).s.tap = x.tap
         /\ Round(s).s.reg = x.reg /\ Round(s).s.owed = x.owed
         /\ Round(s).s.disturbed = x.disturbed
<1> DEFINE p == ProcessTapping(s, Head(s.buf))
           y == Round(s)
<1>1. /\ Fits(s, Head(s.buf), p) /\ y.done = p.done
      /\ y.s \in CallState /\ (~p.done => y.s.buf = [p.s.buf EXCEPT ![1] = p.rec])
      /\ y.s.tap = p.s.tap /\ y.s.reg = p.s.reg /\ y.s.owed = p.s.owed
      /\ y.s.disturbed = p.s.disturbed
  BY RoundFits
<1>2. p.s = x /\ p.rec = r /\ ~p.done
  BY DEF Waits
<1> HIDE DEF p, y
<1> QED  BY <1>1, <1>2 DEF Fits, y

(* A record that waits on stays as it was.                                 *)
LEMMA HeadKept ==
  ASSUME NEW b \in Seq(KeyRecord), Len(b) > 0
  PROVE  [b EXCEPT ![1] = Head(b)] = b
OBVIOUS

(* Every branch leaves the role of the tapping key to its release, if the  *)
(* host is told of no less than before.                                    *)
LEMMA LeavesAll ==
  ASSUME NEW s \in CallState, NEW s2 \in CallState, s2.reg = s.reg, ~IsTapped(s), NEW g,
         TapIs(s, g[0]), ~IsOpen(s)
  PROVE  \A k \in Keys : Leaves(s, s2, k)
<1>1. \A k \in Keys : ~Live(s, k)
  BY Constants DEF Live, TapIs, IsOpen, IsTapped, CallState, Record
<1> QED  BY <1>1 DEF Leaves, Code, Mods

(* A release, or a press of a key with one role, is passed on.             *)
LEMMA PassedOn ==
  ASSUME NEW s \in CallState, NEW g, NEW dn, NEW now, Good(s, g, dn, now), Len(s.buf) > 0,
         ~IsOpen(s), NEW x \in CallState, NEW r, r = Head(s.buf), ~(r.pressed /\ IsTap(r)),
         ~r.pressed => ~Live(s, r.key) /\ x = s,
         x.buf = s.buf, x.reg = s.reg, x.owed = s.owed, x.tap.key = s.tap.key,
         x.tap.pressed = s.tap.pressed, x.tap.count = s.tap.count,
         ProcessTapping(s, r) = Consumed(Process(x, r), r)
  PROVE  \E h : Good(Round(s).s, h, dn, now)
<1> DEFINE s2 == Round(s).s
<1>1. /\ s.buf \in Seq(KeyRecord) /\ r \in KeyRecord /\ r.key \in Keys /\ r.key # NoKey
      /\ (r.pressed => ~r.interrupted /\ r.count = 0) /\ r \in Record
  BY HeadIs, KeyRecords DEF CallState
<1>2. /\ s2 \in CallState /\ s2.buf = Tail(Process(x, r).buf) /\ s2.tap = Process(x, r).tap
      /\ s2.reg = Process(x, r).reg /\ s2.owed = Process(x, r).owed
  <2> DEFINE px == Process(x, r)
  <2>1. ProcessTapping(s, Head(s.buf)) = Consumed(px, r)
    OBVIOUS
  <2> HIDE DEF px
  <2>2. /\ s2 \in CallState /\ s2.buf = Tail(px.buf) /\ s2.tap = px.tap
        /\ s2.reg = px.reg /\ s2.owed = px.owed
    BY <2>1, RoundDone
  <2> QED  BY <2>2 DEF px
<1>3. s2.buf = Tail(s.buf) /\ s2.tap = x.tap
  BY <1>1, <1>2, ProcessEffect
<1>4. CASE ~r.pressed
  <2> HIDE DEF s2
  <2>1. s2.reg = s.reg \ {Role(r)} /\ s2.owed = s.owed
    <3>1. Process(s, r).reg = s.reg \ {Role(r)} /\ Process(s, r).owed = s.owed
      BY <1>1, <1>4, ProcessEffect
    <3> QED  BY <1>2, <1>4, <3>1
  <2>2. s2.tap = s.tap
    BY <1>3, <1>4
  <2>3. \E h : Good(s2, h, dn, now)
    BY <1>2, <1>3, <1>4, <2>1, <2>2, ReleaseTaken
  <2> QED  BY <2>3 DEF s2
<1>5. CASE r.pressed
  <2>1. ~IsTap(r)
    BY <1>5
  <2>2. Acted(r).key = r.key
    BY <1>1, ActedEffect
  <2>3. Role(Acted(r)) = <<r.key, "code">>
    BY <2>1, <2>2 DEF Role, IsTap
  <2>4. /\ s2.reg = s.reg \cup {<<r.key, "code">>}
        /\ \A k \in Keys : s2.owed[k] = IF k = r.key THEN s.owed[k] - 1 ELSE s.owed[k]
    <3>1. /\ Process(x, r).reg = x.reg \cup {Role(Acted(r))}
          /\ \A k \in Keys : Process(x, r).owed[k] =
                IF k = r.key THEN x.owed[k] - 1 ELSE x.owed[k]
      BY <1>1, <1>5, ProcessEffect
    <3> HIDE DEF s2
    <3> QED  BY <1>2, <2>3, <3>1
  <2> HIDE DEF s2
  <2>5. s2.tap.key = s.tap.key /\ s2.tap.pressed = s.tap.pressed /\ s2.tap.count = s.tap.count
    BY <1>3
  <2>6. \E h : Good(s2, h, dn, now)
    BY <1>2, <1>3, <1>5, <2>1, <2>4, <2>5, PressTaken
  <2> QED  BY <2>6 DEF s2
<1> QED  BY <1>4, <1>5

LEMMA ScannedOn ==
  ASSUME NEW s \in CallState, NEW g, NEW dn, NEW now \in 0 .. Width - 1, Good(s, g, dn, now),
         Len(s.buf) > 0, ~IsOpen(s), NEW r, r = Head(s.buf), r.pressed, IsTap(r),
         NEW x \in CallState, x.buf = s.buf, x.owed = s.owed, \A k \in Keys : Leaves(s, x, k),
         QS.tapping_term \in Nat,
         ProcessTapping(s, r) = Consumed(ScanTap(Start(x, r)), r)
  PROVE  \E h : Good(Round(s).s, h, dn, now)
<1> DEFINE s1 == Start(x, r)
           px == ScanTap(s1)
           s2 == Round(s).s
<1>1. r \in Record
  BY HeadIs, KeyRecords
<1>2. s1 \in CallState /\ s1.tap = r /\ s1.buf = s.buf /\ s1.reg = x.reg /\ s1.owed = s.owed
  BY <1>1, StartEffect
<1>3. ProcessTapping(s, Head(s.buf)) = Consumed(px, r)
  OBVIOUS
<1> HIDE DEF s1, px
<1>4. /\ s2 \in CallState /\ s2.buf = Tail(px.buf) /\ s2.tap = px.tap
      /\ s2.reg = px.reg /\ s2.owed = px.owed
  BY <1>3, RoundDone
<1> HIDE DEF s2
<1>5. \A k \in Keys : Leaves(s, s1, k)
  BY <1>2 DEF Leaves, Code, Mods
<1>6. px = ScanTap(s1)
  BY DEF px
<1>7. \E h : Good(s2, h, dn, now)
  BY <1>2, <1>4, <1>5, <1>6, ScanTaken
<1> QED  BY <1>7 DEF s2

LEMMA RoundNone ==
  ASSUME NEW s \in CallState, NEW g, NEW dn, NEW now \in 0 .. Width - 1, Good(s, g, dn, now),
         Len(s.buf) > 0, QS.tapping_term \in Nat, s.tap.key = NoKey
  PROVE  \E h : Good(Round(s).s, h, dn, now)
<1> DEFINE r == Head(s.buf)
<1>1. r \in Input /\ r.key \in Keys
  BY HeadIs, KeyRecords
<1>2. ProcessTapping(s, r) = IF r.pressed /\ IsTap(r) THEN Consumed(ScanTap(Start(s, r)), r)
                             ELSE Consumed(Process(s, r), r)
  BY <1>1, WhenNone
<1>3. ~IsOpen(s) /\ ~IsTapped(s) /\ TapIs(s, g[0]) /\ \A k \in Keys : ~Live(s, k)
  BY Constants DEF IsOpen, IsTapped, Good, Sound, Live
<1>4. \A k \in Keys : Leaves(s, s, k)
  BY <1>3, LeavesAll
<1> HIDE DEF r
<1>5. r = Head(s.buf)
  BY DEF r
<1>6. CASE r.pressed /\ IsTap(r)
  <2>1. ProcessTapping(s, r) = Consumed(ScanTap(Start(s, r)), r)
    BY <1>2, <1>6
  <2> QED  BY <1>3, <1>4, <1>5, <1>6, <2>1, ScannedOn
<1>7. CASE ~(r.pressed /\ IsTap(r))
  <2>1. ProcessTapping(s, r) = Consumed(Process(s, r), r)
    BY <1>2, <1>7
  <2> QED  BY <1>1, <1>3, <1>5, <1>7, <2>1, PassedOn
<1> QED  BY <1>6, <1>7

LEMMA RoundTapped ==
  ASSUME NEW s \in CallState, NEW g, NEW dn, NEW now \in 0 .. Width - 1, Good(s, g, dn, now),
         Len(s.buf) > 0, QS.tapping_term \in Nat, IsTapped(s)
  PROVE  \E h : Good(Round(s).s, h, dn, now)
<1> DEFINE r == Head(s.buf)
           up == Release(r, s.tap)
<1>1. r \in Input /\ r \in Record /\ r.key \in Keys /\ (r.pressed <=> r.key \notin g[0])
  BY HeadIs, KeyRecords
<1>2. ProcessTapping(s, r) =
           IF r.key = s.tap.key /\ ~r.pressed
           THEN Consumed(Start(Process(s, up), IF Within(s.tap, r) THEN up ELSE None), up)
           ELSE IF r.pressed /\ IsTap(r) THEN Consumed(ScanTap(Start(Left(s, r), r)), r)
           ELSE Consumed(Process(s, r), r)
  BY <1>1, WhenTapped
<1>3. /\ ~IsOpen(s) /\ s.tap.key # NoKey /\ s.tap.pressed /\ s.tap.count > 0
      /\ s.tap.key \in g[0] /\ keymap[s.tap.key] = "mod_tap" /\ s.tap \in Record
  BY Constants DEF IsOpen, IsTapped, Good, Sound, TapIs, CallState, Record
<1>4. \A k \in Keys : Live(s, k) <=> k = s.tap.key
  BY <1>3 DEF Live
<1> HIDE DEF r
<1>5. r = Head(s.buf)
  BY DEF r
<1>6. CASE r.key = s.tap.key /\ ~r.pressed
  <2>1. /\ up \in Record /\ up.key = r.key /\ up.pressed = r.pressed
        /\ up.count = s.tap.count
    BY <1>1, <1>3, ReleaseTyped
  <2> DEFINE tp == IF Within(s.tap, r) THEN up ELSE None
             x == Process(s, up)
             px == Start(x, tp)
             s2 == Round(s).s
  <2>2. tp \in Record /\ ~tp.pressed /\ tp.key \in {NoKey, r.key}
    BY <1>6, <2>1, NoneTyped
  <2>3. x \in CallState /\ x.buf = s.buf /\ x.reg = s.reg \ {<<r.key, "code">>} /\ x.owed = s.owed
    <3>1. up.key # NoKey /\ ~up.pressed
      BY <1>3, <1>6, <2>1
    <3>2. Role(up) = <<r.key, "code">>
      <4>1. up.count # 0
        BY <1>3, <2>1
      <4> QED  BY <2>1, <4>1 DEF Role
    <3> QED  BY <2>1, <3>1, <3>2, ProcessEffect
  <2> HIDE DEF tp, x, up
  <2>4. px.tap = tp /\ px.buf = s.buf /\ px.reg = x.reg /\ px.owed = s.owed
    BY <2>2, <2>3, StartEffect
  <2>5. ProcessTapping(s, Head(s.buf)) = Consumed(px, up)
    BY <1>2, <1>5, <1>6 DEF x, tp
  <2> HIDE DEF px
  <2>6. /\ s2 \in CallState /\ s2.buf = Tail(px.buf) /\ s2.tap = px.tap
        /\ s2.reg = px.reg /\ s2.owed = px.owed
    BY <2>5, RoundDone
  <2> HIDE DEF s2
  <2>7. \E h : Good(s2, h, dn, now)
    BY <1>5, <1>6, <2>2, <2>3, <2>4, <2>6, TapEnded
  <2> QED  BY <2>7 DEF s2
<1>7. CASE r.pressed /\ IsTap(r)
  <2> DEFINE x == Left(s, r)
  <2>1. r.key # s.tap.key
    BY <1>1, <1>3, <1>7
  <2>2. /\ x \in CallState /\ x.buf = s.buf /\ x.owed = s.owed
        /\ s.tap.count > 1 => x.reg = s.reg \ {<<s.tap.key, "code">>}
        /\ ~(s.tap.count > 1) => x.reg = s.reg
    BY <1>1, <1>3, LeftEffect
  <2>3. ProcessTapping(s, r) = Consumed(ScanTap(Start(x, r)), r)
    BY <1>2, <1>7, <2>1
  <2> HIDE DEF x
  <2>4. \A k \in Keys : Leaves(s, x, k)
    BY <1>4, <2>2 DEF Leaves, Code, Mods
  <2> QED  BY <1>3, <1>5, <1>7, <2>2, <2>3, <2>4, ScannedOn
<1>8. CASE ~(r.key = s.tap.key /\ ~r.pressed) /\ ~(r.pressed /\ IsTap(r))
  <2>1. ProcessTapping(s, r) = Consumed(Process(s, r), r)
    BY <1>2, <1>8
  <2>2. ~r.pressed => ~Live(s, r.key)
    BY <1>1, <1>4, <1>8
  <2> QED  BY <1>3, <1>5, <1>8, <2>1, <2>2, PassedOn
<1> QED  BY <1>6, <1>7, <1>8

LEMMA RoundUp ==
  ASSUME NEW s \in CallState, NEW g, NEW dn, NEW now \in 0 .. Width - 1, Good(s, g, dn, now),
         Len(s.buf) > 0, QS.tapping_term \in Nat, IsUp(s)
  PROVE  Round(s).s.disturbed \/ \E h : Good(Round(s).s, h, dn, now)
<1> DEFINE r == Head(s.buf)
           s2 == Round(s).s
<1>1. /\ r \in Input /\ r \in Record /\ r.key \in Keys /\ (r.pressed <=> r.key \notin g[0])
      /\ r.key # NoKey /\ (r.pressed => r.count = 0 /\ ~r.interrupted)
  BY HeadIs, KeyRecords
<1>2. ProcessTapping(s, r) =
           IF ~Within(s.tap, r) THEN Waits(Forget(s), r)
           ELSE IF ~r.pressed THEN Consumed(Process(s, r), r)
           ELSE IF r.key = s.tap.key
                THEN IF Set("tapping_force_hold") \/ s.tap.interrupted \/ s.tap.count = 0
                     THEN Consumed(StartAgain(s, r), r)
                     ELSE Consumed(Start(Process(s, Again(s, r)), Again(s, r)), Again(s, r))
           ELSE IF IsTap(r) THEN Consumed(ScanTap(Start(s, r)), r)
           ELSE Consumed(Process([s EXCEPT !.tap.interrupted = TRUE], r), r)
  BY <1>1, WhenUp
<1>3. /\ ~IsOpen(s) /\ ~IsTapped(s) /\ s.tap.key # NoKey /\ ~s.tap.pressed
      /\ keymap[s.tap.key] = "mod_tap" /\ TapIs(s, g[0]) /\ \A k \in Keys : ~Live(s, k)
      /\ s.buf \in Seq(KeyRecord)
  BY DEF IsOpen, IsTapped, IsUp, Good, Sound, TapIs, Live, CallState
<1>4. \A k \in Keys : Leaves(s, s, k)
  BY <1>3, LeavesAll
<1> HIDE DEF r
<1>5. r = Head(s.buf)
  BY DEF r
<1>6. CASE ~Within(s.tap, r)
  <2> DEFINE px == Forget(s)
  <2>1. ProcessTapping(s, Head(s.buf)) = Waits(px, r)
    BY <1>2, <1>5, <1>6
  <2>2. /\ px.tap = None /\ px.buf = s.buf /\ px.reg = s.reg /\ px.owed = s.owed
    BY StartEffect, NoneTyped
  <2> HIDE DEF px
  <2>3. /\ s2 \in CallState /\ s2.buf = [px.buf EXCEPT ![1] = r] /\ s2.tap = px.tap
        /\ s2.reg = px.reg /\ s2.owed = px.owed
    BY <2>1, RoundWaits
  <2>4. s2.buf = s.buf
    <3>1. [s.buf EXCEPT ![1] = Head(s.buf)] = s.buf
      BY <1>3, HeadKept
    <3> HIDE DEF s2
    <3> QED  BY <1>5, <2>2, <2>3, <3>1
  <2> HIDE DEF s2
  <2>5. /\ Same(s.buf, s2.buf) /\ s2.reg = s.reg /\ s2.owed = s.owed
        /\ s2.tap.key = NoKey /\ ~s2.tap.pressed
    BY <2>2, <2>3, <2>4, SameIs, NoneTyped
  <2>6. \A i \in 1 .. Len(s.buf) : /\ s2.buf[i].count = s.buf[i].count
                                   /\ s.buf[i].pressed => ~s2.buf[i].interrupted
    BY <2>4 DEF Good, Sound, Marks
  <2>7. Ahead(s2)
    BY <2>5 DEF Ahead, IsOpen
  <2>8. Good(s2, g, dn, now)
    BY <1>3, <2>3, <2>5, <2>6, <2>7, UntoldGood
  <2> QED  BY <2>8 DEF s2
<1>7. CASE Within(s.tap, r) /\ ~r.pressed
  <2>1. ProcessTapping(s, r) = Consumed(Process(s, r), r)
    BY <1>2, <1>7
  <2>2. \E h : Good(s2, h, dn, now)
    BY <1>1, <1>3, <1>5, <1>7, <2>1, PassedOn
  <2> QED  BY <2>2
<1>8. CASE /\ Within(s.tap, r) /\ r.pressed /\ r.key = s.tap.key
           /\ Set("tapping_force_hold") \/ s.tap.interrupted \/ s.tap.count = 0
  <2> DEFINE px == StartAgain(s, r)
  <2>1. ProcessTapping(s, Head(s.buf)) = Consumed(px, r)
    BY <1>2, <1>5, <1>8
  <2>2. /\ px \in CallState /\ px.tap = r /\ px.buf = s.buf /\ px.reg = s.reg
        /\ px.owed = s.owed /\ px.disturbed = (s.disturbed \/ Ends(Start(s, r)) # {})
    BY <1>1, StartAgainEffect
  <2> DEFINE s1 == Start(s, r)
  <2>3. s1 \in CallState /\ s1.tap = r /\ s1.buf = s.buf
    BY <1>1, StartEffect
  <2> HIDE DEF px, s1
  <2>4. /\ s2 \in CallState /\ s2.buf = Tail(px.buf) /\ s2.tap = px.tap
        /\ s2.reg = px.reg /\ s2.owed = px.owed /\ s2.disturbed = px.disturbed
    BY <2>1, RoundDone
  <2> HIDE DEF s2
  <2>5. CASE Ends(s1) # {}
    <3>1. s2.disturbed
      BY <2>2, <2>4, <2>5 DEF s1
    <3> QED  BY <3>1 DEF s2
  <2>6. CASE Ends(s1) = {}
    <3>1. /\ s2.buf = Tail(s.buf) /\ s2.tap = r /\ s2.reg = s.reg /\ s2.owed = s.owed
      BY <2>2, <2>4
    <3>2. Ends(s2) = {}
      BY <2>3, <2>4, <2>6, <3>1, EndsTail
    <3>3. IsTap(r)
      BY <1>3, <1>8 DEF IsTap
    <3>4. \A k \in Keys : Leaves(s, s2, k)
      BY <1>3, <2>4, <3>1, LeavesAll
    <3>5. \E h : Good(s2, h, dn, now)
      BY <1>3, <1>5, <1>8, <2>4, <3>1, <3>2, <3>3, <3>4, StartTaken
    <3> QED  BY <3>5 DEF s2
  <2> QED  BY <2>5, <2>6
<1>9. CASE /\ Within(s.tap, r) /\ r.pressed /\ r.key = s.tap.key
           /\ ~(Set("tapping_force_hold") \/ s.tap.interrupted \/ s.tap.count = 0)
  <2> DEFINE a == Again(s, r)
             x == Process(s, a)
             px == Start(x, a)
  <2>1. ProcessTapping(s, Head(s.buf)) = Consumed(px, a)
    BY <1>2, <1>5, <1>9
  <2>2. s.tap.count > 0
    BY <1>9, Constants DEF CallState, Record
  <2>3. /\ a \in Record /\ a.count = More(s) /\ More(s) > 1 /\ a.key = r.key /\ a.pressed
        /\ ~a.interrupted /\ More(s) \in 1 .. TapMax
    BY <1>1, <1>9, <2>2, AgainTyped
  <2> HIDE DEF a
  <2>4. Acted(a).key = r.key /\ Acted(a).count = a.count
    BY <2>3, ActedEffect
  <2>5. Role(Acted(a)) = <<r.key, "code">>
    <3>1. Acted(a).count # 0
      BY <2>3, <2>4
    <3> QED  BY <2>4, <3>1 DEF Role
  <2>6. /\ x \in CallState /\ x.buf = s.buf /\ x.reg = s.reg \cup {<<r.key, "code">>}
        /\ \A k \in Keys : x.owed[k] = IF k = r.key THEN s.owed[k] - 1 ELSE s.owed[k]
    <3>1. a.key # NoKey /\ a.pressed
      BY <1>1, <2>3
    <3> QED  BY <2>3, <2>5, <3>1, ProcessEffect
  <2> HIDE DEF x
  <2>7. px.tap = a /\ px.buf = s.buf /\ px.reg = x.reg /\ px.owed = x.owed
    BY <2>3, <2>6, StartEffect
  <2> HIDE DEF px
  <2>8. /\ s2 \in CallState /\ s2.buf = Tail(px.buf) /\ s2.tap = px.tap
        /\ s2.reg = px.reg /\ s2.owed = px.owed
    BY <2>1, RoundDone
  <2> HIDE DEF s2
  <2>9. /\ s2.buf = Tail(s.buf) /\ s2.tap = a /\ s2.reg = s.reg \cup {<<r.key, "code">>}
        /\ s2.owed = x.owed
    BY <2>6, <2>7, <2>8
  <2>10. /\ Same(Tail(s.buf), s2.buf) /\ Marks(s2.buf)
         /\ \A k : k # r.key => (Known(s2.buf, k) <=> Known(s.buf, k))
    BY <1>3, <1>5, <2>9, SameIs, MarksTail DEF Good, Sound
  <2>11. s2.tap.key = r.key /\ s2.tap.pressed /\ s2.tap.count > 0 /\ s2.tap.count # 1
    BY <2>3, <2>9
  <2>12. \A k \in Keys : /\ k # r.key => Leaves(s, s2, k)
                         /\ Mods(s2, r.key) <=> Mods(s, r.key)
    BY <1>3, <2>9 DEF Leaves, Code, Mods
  <2>13. IsTap(r)
    BY <1>3, <1>9 DEF IsTap
  <2>14. \A k \in Keys : s2.owed[k] = IF k = r.key THEN s.owed[k] - 1 ELSE s.owed[k]
    BY <2>6, <2>9
  <2>15. \E h : Good(s2, h, dn, now)
    BY <1>1, <1>3, <1>5, <1>9, <2>8, <2>10, <2>11, <2>12, <2>13, <2>14, TapTaken
  <2> QED  BY <2>15 DEF s2
<1>10. CASE Within(s.tap, r) /\ r.pressed /\ r.key # s.tap.key /\ IsTap(r)
  <2>1. ProcessTapping(s, r) = Consumed(ScanTap(Start(s, r)), r)
    BY <1>2, <1>10
  <2>2. \E h : Good(s2, h, dn, now)
    BY <1>3, <1>4, <1>5, <1>10, <2>1, ScannedOn
  <2> QED  BY <2>2
<1>11. CASE Within(s.tap, r) /\ r.pressed /\ r.key # s.tap.key /\ ~IsTap(r)
  <2>1. PICK x \in CallState :
            /\ x = [s EXCEPT !.tap.interrupted = TRUE]
            /\ x.buf = s.buf /\ x.reg = s.reg /\ x.owed = s.owed
            /\ x.disturbed = s.disturbed
            /\ x.tap.key = s.tap.key /\ x.tap.pressed = s.tap.pressed
            /\ x.tap.time = s.tap.time /\ x.tap.count = s.tap.count
            /\ x.tap.interrupted = TRUE
    BY InterruptEffect
  <2>2. ProcessTapping(s, r) = Consumed(Process(x, r), r)
    BY <1>2, <1>11, <2>1
  <2>3. \E h : Good(s2, h, dn, now)
    BY <1>3, <1>5, <1>11, <2>1, <2>2, PassedOn
  <2> QED  BY <2>3
<1> QED  BY <1>6, <1>7, <1>8, <1>9, <1>10, <1>11

(* The record at the head waits on while the tapping key stays as it was,  *)
(* but for what both may learn of an interruption.                         *)
LEMMA WaitsOn ==
  ASSUME NEW s \in CallState, NEW g, NEW dn, NEW now, Good(s, g, dn, now), Len(s.buf) > 0,
         NEW x \in CallState, NEW r \in KeyRecord, ProcessTapping(s, Head(s.buf)) = Waits(x, r),
         x.buf = s.buf, x.reg = s.reg, x.owed = s.owed, x.tap.key = s.tap.key,
         x.tap.pressed = s.tap.pressed, x.tap.count = s.tap.count, x.tap.time = s.tap.time,
         s.tap.interrupted => x.tap.interrupted,
         x.tap.interrupted => s.tap.interrupted \/ (r.pressed /\ r.key # s.tap.key),
         r.key = Head(s.buf).key, r.pressed = Head(s.buf).pressed, r.time = Head(s.buf).time,
         r.count = Head(s.buf).count, r.pressed => ~r.interrupted
  PROVE  Good(Round(s).s, g, dn, now)
<1> DEFINE s2 == Round(s).s
           b  == s.buf
<1>1. /\ s2 \in CallState /\ s2.buf = [b EXCEPT ![1] = r] /\ s2.tap = x.tap
      /\ s2.reg = s.reg /\ s2.owed = s.owed
  BY RoundWaits
<1>2. b \in Seq(KeyRecord) /\ Len(b) > 0 /\ Head(b) = b[1] /\ Len(b) \in Nat
  BY TailFacts DEF CallState
<1> HIDE DEF s2, b
<1>3. Len(s2.buf) = Len(b) /\ \A i \in 1 .. Len(b) : s2.buf[i] = IF i = 1 THEN r ELSE b[i]
  BY <1>1, <1>2
<1>4. /\ r.key = b[1].key /\ r.pressed = b[1].pressed /\ r.time = b[1].time
      /\ r.count = b[1].count
  BY <1>2 DEF b
<1>5. Same(b, s2.buf)
  BY <1>3, <1>4 DEF Same
<1>6. \A i \in 1 .. Len(b) : /\ s2.buf[i].count = b[i].count
                             /\ b[i].pressed => ~s2.buf[i].interrupted
  <2>1. Marks(b)
    BY DEF Good, Sound, b
  <2> QED  BY <1>3, <1>4, <2>1 DEF Marks
<1>7. Ahead(s2)
  <2> SUFFICES ASSUME IsOpen(s2), s2.tap.interrupted
               PROVE  AheadIn(s2.buf, s.tap.key)
    BY <1>1 DEF Ahead
  <2>1. CASE s.tap.interrupted
    <3>1. IsOpen(s)
      BY <1>1 DEF IsOpen
    <3>2. AheadIn(b, s.tap.key)
      BY <2>1, <3>1 DEF Good, Sound, Ahead, b
    <3> QED  BY <1>2, <1>5, <3>2, AheadSame
  <2>2. CASE r.pressed /\ r.key # s.tap.key
    <3>1. 1 \in 1 .. Len(s2.buf) /\ s2.buf[1] = r /\ \A j \in 1 .. 1 : j = 1
      BY <1>2, <1>3
    <3> QED  BY <2>2, <3>1 DEF AheadIn
  <2> QED  BY <1>1, <2>1, <2>2
<1>8. Good(s2, g, dn, now)
  <2>1. /\ Same(s.buf, s2.buf)
        /\ \A i \in 1 .. Len(s.buf) : /\ s2.buf[i].count = s.buf[i].count
                                      /\ s.buf[i].pressed => ~s2.buf[i].interrupted
    BY <1>5, <1>6 DEF b
  <2>2. /\ s2.tap.key = s.tap.key /\ s2.tap.pressed = s.tap.pressed
        /\ s2.tap.count = s.tap.count /\ s2.tap.time = s.tap.time
        /\ s.tap.interrupted => s2.tap.interrupted
    BY <1>1
  <2> QED  BY <1>1, <1>7, <2>1, <2>2, UntoldGood
<1> QED  BY <1>8 DEF s2

(* The tapping key that was not decided is held.                           *)
HeldOf(s) == Forget(Process(s, s.tap))

LEMMA HeldEffect ==
  ASSUME NEW s \in CallState, IsOpen(s), keymap[s.tap.key] = "mod_tap"
  PROVE  /\ HeldOf(s) \in CallState /\ HeldOf(s).tap = None /\ HeldOf(s).buf = s.buf
         /\ HeldOf(s).tap.key = NoKey /\ ~HeldOf(s).tap.pressed
         /\ HeldOf(s).reg = s.reg \cup {<<s.tap.key, "mods">>}
         /\ \A k \in Keys :
               HeldOf(s).owed[k] = IF k = s.tap.key THEN s.owed[k] - 1 ELSE s.owed[k]
<1> DEFINE y == Process(s, s.tap)
           x == Forget(y)
<1>1. /\ s.tap \in Record /\ s.tap.key # NoKey /\ s.tap.pressed /\ s.tap.count = 0
  BY DEF IsOpen, CallState
<1>2. Role(Acted(s.tap)) = <<s.tap.key, "mods">>
  <2>1. Acted(s.tap).key = s.tap.key /\ Acted(s.tap).count = 0
    BY <1>1, ActedEffect
  <2> QED  BY <1>1, <2>1 DEF Role, IsTap
<1>3. /\ y \in CallState /\ y.buf = s.buf /\ y.reg = s.reg \cup {<<s.tap.key, "mods">>}
      /\ \A k \in Keys : y.owed[k] = IF k = s.tap.key THEN s.owed[k] - 1 ELSE s.owed[k]
  BY <1>1, <1>2, ProcessEffect
<1> HIDE DEF y
<1>4. x \in CallState /\ x.tap = None /\ x.buf = s.buf /\ x.reg = y.reg /\ x.owed = y.owed
  BY <1>3, StartEffect, NoneTyped
<1>5. HeldOf(s) = x
  BY DEF HeldOf, y
<1> HIDE DEF x
<1> QED  BY <1>3, <1>4, <1>5, NoneTyped

(* It is, and the record at the head waits on.                             *)
LEMMA HeldOn ==
  ASSUME NEW s \in CallState, NEW g, NEW dn, NEW now, Good(s, g, dn, now), Len(s.buf) > 0,
         IsOpen(s), NEW r, r = Head(s.buf),
         ProcessTapping(s, r) = Waits(HeldOf(s), r)
  PROVE  Good(Round(s).s, g, dn, now)
<1> DEFINE s2 == Round(s).s
           x  == HeldOf(s)
<1>1. keymap[s.tap.key] = "mod_tap" /\ s.buf \in Seq(KeyRecord)
  BY DEF IsOpen, CallState, Good, Sound, TapIs
<1>2. /\ x \in CallState /\ x.buf = s.buf /\ x.tap.key = NoKey /\ ~x.tap.pressed
      /\ x.reg = s.reg \cup {<<s.tap.key, "mods">>}
      /\ \A k \in Keys : x.owed[k] = IF k = s.tap.key THEN s.owed[k] - 1 ELSE s.owed[k]
  BY <1>1, HeldEffect
<1>3. ProcessTapping(s, Head(s.buf)) = Waits(x, r)
  OBVIOUS
<1> HIDE DEF x
<1>4. /\ s2 \in CallState /\ s2.buf = [x.buf EXCEPT ![1] = r] /\ s2.tap = x.tap
      /\ s2.reg = x.reg /\ s2.owed = x.owed
  BY <1>3, RoundWaits
<1> HIDE DEF s2
<1>5. s2.buf = s.buf
  <2>1. [s.buf EXCEPT ![1] = Head(s.buf)] = s.buf
    BY <1>1, HeadKept
  <2> QED  BY <1>2, <1>4, <2>1
<1>6. Good(s2, g, dn, now)
  BY <1>2, <1>4, <1>5, HeldGood
<1> QED  BY <1>6 DEF s2

LEMMA RoundOpen ==
  ASSUME NEW s \in CallState, NEW g, NEW dn, NEW now \in 0 .. Width - 1, Good(s, g, dn, now),
         Len(s.buf) > 0, IsOpen(s)
  PROVE  \E h : Good(Round(s).s, h, dn, now)
<1> DEFINE r == Head(s.buf)
           s2 == Round(s).s
<1>1. /\ r \in Input /\ r \in Record /\ r \in KeyRecord /\ r.key \in Keys /\ r.key # NoKey
      /\ (r.pressed <=> r.key \notin g[0]) /\ (r.pressed => r.count = 0 /\ ~r.interrupted)
  BY HeadIs, KeyRecords
<1>2. ProcessTapping(s, r) =
           IF ~Within(s.tap, r) THEN Waits(HeldOf(s), r)
           ELSE IF r.key = NoKey THEN Waits(s, r)
           ELSE IF r.pressed THEN Waits([s EXCEPT !.tap.interrupted = TRUE], r)
           ELSE IF r.key = s.tap.key THEN Waits(TapNow(s), Release(r, TapNow(s).tap))
           ELSE IF Nested(s, r) THEN Waits(HeldOf(s), r)
           ELSE IF Typed(s, r) \/ Retained(r) THEN Waits(s, r)
           ELSE Consumed(Process(s, r), r)
  BY <1>1, WhenOpen DEF HeldOf
<1>3. /\ s.tap.key # NoKey /\ s.tap.key \in Keys /\ s.tap.pressed /\ s.tap.count = 0
      /\ keymap[s.tap.key] = "mod_tap" /\ s.tap \in Record /\ s.buf \in Seq(KeyRecord)
      /\ Live(s, s.tap.key) /\ Right(s, s.tap.key) /\ s.tap.key \in g[0]
  BY DEF IsOpen, Good, Sound, TapIs, Live, CallState, Record
<1> HIDE DEF r
<1>5. r = Head(s.buf)
  BY DEF r
<1>6. CASE \/ ~Within(s.tap, r)
           \/ ~r.pressed /\ r.key # s.tap.key /\ Nested(s, r)
  <2>1. ProcessTapping(s, r) = Waits(HeldOf(s), r)
    BY <1>1, <1>2, <1>6
  <2>2. Good(s2, g, dn, now)
    BY <1>5, <2>1, HeldOn
  <2> QED  BY <2>2
<1>7. CASE Within(s.tap, r) /\ r.pressed
  <2>1. PICK x \in CallState :
            /\ x = [s EXCEPT !.tap.interrupted = TRUE]
            /\ x.buf = s.buf /\ x.reg = s.reg /\ x.owed = s.owed
            /\ x.disturbed = s.disturbed
            /\ x.tap.key = s.tap.key /\ x.tap.pressed = s.tap.pressed
            /\ x.tap.time = s.tap.time /\ x.tap.count = s.tap.count
            /\ x.tap.interrupted = TRUE
    BY InterruptEffect
  <2>2. ProcessTapping(s, Head(s.buf)) = Waits(x, r)
    BY <1>1, <1>2, <1>5, <1>7, <2>1
  <2>3. r.key # s.tap.key
    BY <1>1, <1>3, <1>7
  <2>4. Good(s2, g, dn, now)
    BY <1>1, <1>5, <1>7, <2>1, <2>2, <2>3, WaitsOn
  <2> QED  BY <2>4
<1>8. CASE Within(s.tap, r) /\ ~r.pressed /\ r.key = s.tap.key
  <2>1. 1 \in Ends(s)
    <3>1. Len(s.buf) \in Nat /\ r = s.buf[1] /\ 1 \in 1 .. Len(s.buf)
      BY <1>3, <1>5, TailFacts
    <3> QED  BY <1>8, <3>1, EndsAre
  <2>2. s.tap.interrupted
    BY <1>3, <2>1 DEF Right
  <2>3. AheadIn(s.buf, s.tap.key)
    BY <2>2 DEF Good, Sound, Ahead
  <2>4. PICK i \in 1 .. Len(s.buf) : \A j \in 1 .. i : s.buf[j].key # s.tap.key
    BY <2>3 DEF AheadIn
  <2>5. 1 \in 1 .. i /\ s.buf[1] = r
    BY <1>3, <1>5, TailFacts
  <2> QED  BY <1>8, <2>4, <2>5
<1>9. CASE Within(s.tap, r) /\ ~r.pressed /\ r.key # s.tap.key /\ ~Nested(s, r)
  <2>1. CASE Typed(s, r) \/ Retained(r)
    <3>1. ProcessTapping(s, Head(s.buf)) = Waits(s, r)
      BY <1>1, <1>2, <1>5, <1>9, <2>1
    <3>2. Good(s2, g, dn, now)
      BY <1>1, <1>5, <1>9, <3>1, WaitsOn
    <3> QED  BY <3>2
  <2>2. CASE ~(Typed(s, r) \/ Retained(r))
    <3> DEFINE px == Process(s, r)
    <3>1. ProcessTapping(s, Head(s.buf)) = Consumed(px, r)
      BY <1>1, <1>2, <1>5, <1>9, <2>2
    <3>2. /\ px \in CallState /\ px.buf = s.buf /\ px.tap = s.tap
          /\ px.reg = s.reg \ {Role(r)} /\ px.owed = s.owed
      BY <1>1, <1>9, ProcessEffect
    <3> HIDE DEF px
    <3>3. /\ s2 \in CallState /\ s2.buf = Tail(px.buf) /\ s2.tap = px.tap
          /\ s2.reg = px.reg /\ s2.owed = px.owed
      BY <3>1, RoundDone
    <3> HIDE DEF s2
    <3>4. ~Live(s, r.key)
      BY <1>9 DEF Live
    <3>5. \E h : Good(s2, h, dn, now)
      BY <1>5, <1>9, <3>2, <3>3, <3>4, ReleaseTaken
    <3> QED  BY <3>5 DEF s2
  <2> QED  BY <2>1, <2>2
<1> QED  BY <1>6, <1>7, <1>8, <1>9

(* One round over the records that wait.                                   *)
LEMMA RoundGood ==
  ASSUME NEW s \in CallState, NEW g, NEW dn, NEW now \in 0 .. Width - 1, Good(s, g, dn, now),
         Len(s.buf) > 0, QS.tapping_term \in Nat
  PROVE  Round(s).s.disturbed \/ \E h : Good(Round(s).s, h, dn, now)
BY Phases, RoundNone, RoundTapped, RoundUp, RoundOpen

----------------------------------------------------------------------------
(* What process_tapping leaves of the times, for the record r: an open     *)
(* tapping key has been there before, within its term, or is this record;  *)
(* and a call that is not done leaves no tapping key that is up.           *)
Timed(s, r, p) ==
  /\ Same(s.buf, p.s.buf)
  /\ p.rec.key = r.key /\ p.rec.pressed = r.pressed /\ p.rec.time = r.time
  /\ ~p.done => p.s.tap.key = NoKey \/ p.s.tap.pressed
  /\ IsOpen(p.s) => \/ IsOpen(s) /\ p.s.tap.time = s.tap.time /\ Within(s.tap, r)
                    \/ ~IsOpen(s) /\ p.s.tap.time = r.time /\ p.done /\ r.key # NoKey
  /\ ~p.done => IsOpen(s) \/ IsUp(s)
  /\ p.done /\ IsOpen(s) => IsOpen(p.s)

LEMMA TimedDone ==
  ASSUME NEW s \in CallState, NEW x \in CallState, NEW r, NEW r2, Same(s.buf, x.buf),
         r2.key = r.key, r2.pressed = r.pressed, r2.time = r.time,
         IsOpen(x) => \/ IsOpen(s) /\ x.tap.time = s.tap.time /\ Within(s.tap, r)
                      \/ ~IsOpen(s) /\ x.tap.time = r.time /\ r.key # NoKey,
         IsOpen(s) => IsOpen(x)
  PROVE  Timed(s, r, Consumed(x, r2))
<1> DEFINE p == Consumed(x, r2)
<1>1. p.s = x /\ p.rec = r2 /\ p.done
  BY DEF Consumed
<1> HIDE DEF p
<1>2. Timed(s, r, p)
  BY <1>1 DEF Timed
<1> QED  BY <1>2 DEF p

LEMMA TimedWaits ==
  ASSUME NEW s \in CallState, NEW x \in CallState, NEW r, NEW r2, Same(s.buf, x.buf),
         r2.key = r.key, r2.pressed = r.pressed, r2.time = r.time,
         x.tap.key = NoKey \/ x.tap.pressed, IsOpen(s) \/ IsUp(s),
         IsOpen(x) => IsOpen(s) /\ x.tap.time = s.tap.time /\ Within(s.tap, r)
  PROVE  Timed(s, r, Waits(x, r2))
<1> DEFINE p == Waits(x, r2)
<1>1. p.s = x /\ p.rec = r2 /\ ~p.done
  BY DEF Waits
<1> HIDE DEF p
<1>2. Timed(s, r, p)
  BY <1>1 DEF Timed
<1> QED  BY <1>2 DEF p

LEMMA MarkedSame ==
  ASSUME NEW b \in Seq(KeyRecord), NEW i \in 1 .. Len(b)
  PROVE  Same(b, [b EXCEPT ![i].count = 1])
<1> DEFINE q == [b EXCEPT ![i].count = 1]
           x == [b[i] EXCEPT !.count = 1]
<1>1. Len(q) = Len(b) /\ \A j \in 1 .. Len(b) : q[j] = IF j = i THEN x ELSE b[j]
  BY Marked, OneIsCount
<1>2. x.key = b[i].key /\ x.pressed = b[i].pressed /\ x.time = b[i].time
  BY DEF KeyRecord
<1> HIDE DEF q, x
<1>3. Same(b, q)
  BY <1>1, <1>2 DEF Same
<1> QED  BY <1>3 DEF q

LEMMA ScanTimes ==
  ASSUME NEW s \in CallState, s.tap.key # NoKey
  PROVE  /\ ScanTap(s) \in CallState /\ Same(s.buf, ScanTap(s).buf)
         /\ ScanTap(s).tap.time = s.tap.time
<1>1. CASE s.tap.count > 0 \/ Ends(s) = {}
  BY <1>1, ScanEffect, SameIs
<1>2. CASE ~(s.tap.count > 0 \/ Ends(s) = {})
  <2>1. PICK i \in Ends(s), s1 \in CallState, tap \in Record :
          /\ \A l \in Ends(s) : i <= l
          /\ tap = [s.tap EXCEPT !.count = 1]
          /\ s1.tap = Acted(tap) /\ s1.buf = [s.buf EXCEPT ![i].count = 1]
          /\ s1.reg = s.reg /\ s1.owed = s.owed /\ s1.disturbed = s.disturbed
          /\ ScanTap(s) = Process(s1, tap)
    BY <1>2, ScanEffect
  <2>2. /\ ScanTap(s) \in CallState /\ ScanTap(s).tap = Acted(tap)
        /\ ScanTap(s).buf = [s.buf EXCEPT ![i].count = 1]
    BY <2>1, ProcessEffect
  <2>3. tap.time = s.tap.time
    BY <2>1 DEF CallState, Record
  <2>4. Acted(tap).time = s.tap.time
    BY <2>3, ActedEffect
  <2>5. i \in 1 .. Len(s.buf) /\ s.buf \in Seq(KeyRecord)
    BY EndsWait DEF CallState
  <2>6. Same(s.buf, [s.buf EXCEPT ![i].count = 1])
    BY <2>5, MarkedSame
  <2> QED  BY <2>2, <2>4, <2>6
<1> QED  BY <1>1, <1>2

LEMMA ScanTimed ==
  ASSUME NEW s \in CallState, NEW x \in CallState, NEW r \in Record, x.buf = s.buf,
         r.key # NoKey, ~IsOpen(s)
  PROVE  Timed(s, r, Consumed(ScanTap(Start(x, r)), r))
<1> DEFINE s1 == Start(x, r)
           y  == ScanTap(s1)
<1>1. s1 \in CallState /\ s1.tap = r /\ s1.buf = s.buf
  BY StartEffect
<1> HIDE DEF s1
<1>2. y \in CallState /\ Same(s.buf, y.buf) /\ y.tap.time = r.time
  BY <1>1, ScanTimes
<1> HIDE DEF y
<1>3. Timed(s, r, Consumed(y, r))
  BY <1>2, TimedDone
<1> QED  BY <1>3 DEF y, s1

LEMMA PassTimed ==
  ASSUME NEW s \in CallState, NEW x \in CallState, NEW r \in Record, x.buf = s.buf,
         \/ ~IsOpen(x) /\ ~IsOpen(s)
         \/ IsOpen(s) /\ x.tap = s.tap /\ Within(s.tap, r)
  PROVE  Timed(s, r, Consumed(Process(x, r), r))
<1> DEFINE y  == Process(x, r)
<1>1. y \in CallState /\ y.buf = s.buf /\ y.tap = x.tap
  BY ProcessEffect
<1> HIDE DEF y
<1>2. /\ Same(s.buf, y.buf) /\ (IsOpen(y) <=> IsOpen(x))
      /\ x.tap = s.tap => (IsOpen(y) <=> IsOpen(s))
  BY <1>1, SameIs DEF IsOpen
<1>3. Timed(s, r, Consumed(y, r))
  BY <1>1, <1>2, TimedDone
<1> QED  BY <1>3 DEF y

LEMMA NoneTimed ==
  ASSUME NEW s \in CallState, NEW r \in Input, s.tap.key = NoKey
  PROVE  Timed(s, r, ProcessTapping(s, r))
<1>1. ~IsOpen(s) /\ r \in Record /\ (r.pressed => r.key # NoKey)
  BY DEF IsOpen, Input
<1>2. CASE r.pressed /\ IsTap(r)
  <2>1. ProcessTapping(s, r) = Consumed(ScanTap(Start(s, r)), r)
    BY <1>2, WhenNone
  <2>2. Timed(s, r, Consumed(ScanTap(Start(s, r)), r))
    BY <1>1, <1>2, ScanTimed
  <2> QED  BY <2>1, <2>2
<1>3. CASE ~(r.pressed /\ IsTap(r))
  <2>1. ProcessTapping(s, r) = Consumed(Process(s, r), r)
    BY <1>3, WhenNone
  <2>2. Timed(s, r, Consumed(Process(s, r), r))
    BY <1>1, PassTimed
  <2> QED  BY <2>1, <2>2
<1> QED  BY <1>2, <1>3

LEMMA TappedTimed ==
  ASSUME NEW s \in CallState, NEW r \in Input, IsTapped(s)
  PROVE  Timed(s, r, ProcessTapping(s, r))
<1>1. /\ ~IsOpen(s) /\ r \in Record /\ (r.pressed => r.key # NoKey) /\ s.tap.key # NoKey
      /\ s.tap \in Record
  BY Constants DEF IsOpen, IsTapped, Input, CallState, Record
<1>2. CASE r.key = s.tap.key /\ ~r.pressed
  <2> DEFINE up == Release(r, s.tap)
             tp == IF Within(s.tap, r) THEN up ELSE None
             x == Process(s, up)
             px == Start(x, tp)
  <2>1. /\ up \in Record /\ up.key = r.key /\ up.pressed = r.pressed /\ up.time = r.time
    BY <1>1, ReleaseTyped
  <2>2. tp \in Record /\ ~tp.pressed
    BY <1>2, <2>1, NoneTyped
  <2>3. x \in CallState /\ x.buf = s.buf
    BY <2>1, ProcessEffect
  <2>4. ProcessTapping(s, r) = Consumed(px, up)
    BY <1>2, WhenTapped
  <2> HIDE DEF tp, x, up
  <2>5. px \in CallState /\ px.tap = tp /\ px.buf = s.buf
    BY <2>2, <2>3, StartEffect
  <2> HIDE DEF px
  <2>6. ~IsOpen(px) /\ Same(s.buf, px.buf)
    BY <2>2, <2>5, SameIs DEF IsOpen
  <2>7. Timed(s, r, Consumed(px, up))
    BY <1>1, <2>1, <2>5, <2>6, TimedDone
  <2> QED  BY <2>4, <2>7
<1>3. CASE ~(r.key = s.tap.key /\ ~r.pressed) /\ r.pressed /\ IsTap(r)
  <2>1. ProcessTapping(s, r) = Consumed(ScanTap(Start(Left(s, r), r)), r)
    BY <1>3, WhenTapped
  <2>2. Left(s, r) \in CallState /\ Left(s, r).buf = s.buf
    BY <1>1, LeftEffect
  <2>3. Timed(s, r, Consumed(ScanTap(Start(Left(s, r), r)), r))
    BY <1>1, <1>3, <2>2, ScanTimed
  <2> QED  BY <2>1, <2>3
<1>4. CASE ~(r.key = s.tap.key /\ ~r.pressed) /\ ~(r.pressed /\ IsTap(r))
  <2>1. ProcessTapping(s, r) = Consumed(Process(s, r), r)
    BY <1>4, WhenTapped
  <2>2. Timed(s, r, Consumed(Process(s, r), r))
    BY <1>1, PassTimed
  <2> QED  BY <2>1, <2>2
<1> QED  BY <1>2, <1>3, <1>4

LEMMA UpTimed ==
  ASSUME NEW s \in CallState, NEW r \in Input, IsUp(s)
  PROVE  Timed(s, r, ProcessTapping(s, r))
<1>1. /\ ~IsOpen(s) /\ r \in Record /\ (r.pressed => r.key # NoKey) /\ s.tap.key # NoKey
      /\ s.tap \in Record
  BY Constants DEF IsOpen, IsUp, Input, CallState, Record
<1>2. CASE ~Within(s.tap, r)
  <2> DEFINE px == Forget(s)
  <2>1. ProcessTapping(s, r) = Waits(px, r)
    BY <1>2, WhenUp
  <2>2. px \in CallState /\ px.tap = None /\ px.buf = s.buf
    BY StartEffect, NoneTyped
  <2> HIDE DEF px
  <2>3. px.tap.key = NoKey /\ ~IsOpen(px) /\ Same(s.buf, px.buf)
    BY <2>2, NoneTyped, SameIs DEF IsOpen
  <2>4. Timed(s, r, Waits(px, r))
    BY <2>2, <2>3, TimedWaits
  <2> QED  BY <2>1, <2>4
<1>3. CASE Within(s.tap, r) /\ ~r.pressed
  <2>1. ProcessTapping(s, r) = Consumed(Process(s, r), r)
    BY <1>3, WhenUp
  <2>2. Timed(s, r, Consumed(Process(s, r), r))
    BY <1>1, PassTimed
  <2> QED  BY <2>1, <2>2
<1>4. CASE /\ Within(s.tap, r) /\ r.pressed /\ r.key = s.tap.key
           /\ Set("tapping_force_hold") \/ s.tap.interrupted \/ s.tap.count = 0
  <2> DEFINE px == StartAgain(s, r)
  <2>1. ProcessTapping(s, r) = Consumed(px, r)
    BY <1>4, WhenUp
  <2>2. px \in CallState /\ px.tap = r /\ px.buf = s.buf
    BY <1>1, StartAgainEffect
  <2> HIDE DEF px
  <2>3. Timed(s, r, Consumed(px, r))
    BY <1>1, <1>4, <2>2, SameIs, TimedDone
  <2> QED  BY <2>1, <2>3
<1>5. CASE /\ Within(s.tap, r) /\ r.pressed /\ r.key = s.tap.key
           /\ ~(Set("tapping_force_hold") \/ s.tap.interrupted \/ s.tap.count = 0)
  <2> DEFINE a == Again(s, r)
             x == Process(s, a)
             px == Start(x, a)
  <2>1. ProcessTapping(s, r) = Consumed(px, a)
    BY <1>5, WhenUp
  <2>2. /\ a \in Record /\ a.key = r.key /\ a.pressed = r.pressed /\ a.time = r.time
    BY <1>1, AgainTyped
  <2> HIDE DEF a
  <2>3. x \in CallState /\ x.buf = s.buf
    BY <2>2, ProcessEffect
  <2> HIDE DEF x
  <2>4. px \in CallState /\ px.tap = a /\ px.buf = s.buf
    BY <2>2, <2>3, StartEffect
  <2> HIDE DEF px
  <2>5. Timed(s, r, Consumed(px, a))
    BY <1>1, <1>5, <2>2, <2>4, SameIs, TimedDone
  <2> QED  BY <2>1, <2>5
<1>6. CASE Within(s.tap, r) /\ r.pressed /\ r.key # s.tap.key /\ IsTap(r)
  <2>1. ProcessTapping(s, r) = Consumed(ScanTap(Start(s, r)), r)
    BY <1>6, WhenUp
  <2>2. Timed(s, r, Consumed(ScanTap(Start(s, r)), r))
    BY <1>1, <1>6, ScanTimed
  <2> QED  BY <2>1, <2>2
<1>7. CASE Within(s.tap, r) /\ r.pressed /\ r.key # s.tap.key /\ ~IsTap(r)
  <2>1. PICK x \in CallState :
            /\ x = [s EXCEPT !.tap.interrupted = TRUE]
            /\ x.buf = s.buf /\ x.reg = s.reg /\ x.owed = s.owed
            /\ x.disturbed = s.disturbed
            /\ x.tap.key = s.tap.key /\ x.tap.pressed = s.tap.pressed
            /\ x.tap.time = s.tap.time /\ x.tap.count = s.tap.count
            /\ x.tap.interrupted = TRUE
    BY InterruptEffect
  <2>2. ProcessTapping(s, r) = Consumed(Process(x, r), r)
    BY <1>7, <2>1, WhenUp
  <2>3. ~IsOpen(x)
    BY <1>1, <2>1 DEF IsOpen
  <2>4. Timed(s, r, Consumed(Process(x, r), r))
    BY <1>1, <2>1, <2>3, PassTimed
  <2> QED  BY <2>2, <2>4
<1> QED  BY <1>2, <1>3, <1>4, <1>5, <1>6, <1>7

LEMMA OpenTimed ==
  ASSUME NEW s \in CallState, NEW r \in Input, IsOpen(s)
  PROVE  Timed(s, r, ProcessTapping(s, r))
<1>1. r \in Record /\ s.tap.key # NoKey /\ s.tap \in Record /\ s.tap.pressed
  BY DEF IsOpen, Input, CallState, Record
<1>2. CASE \/ ~Within(s.tap, r)
           \/ Within(s.tap, r) /\ r.key # NoKey /\ ~r.pressed /\ r.key # s.tap.key /\ Nested(s, r)
  <2> DEFINE x  == Process(s, s.tap)
             px == Forget(x)
  <2>1. ProcessTapping(s, r) = Waits(px, r)
    BY <1>2, WhenOpen
  <2>2. x \in CallState /\ x.buf = s.buf
    BY <1>1, ProcessEffect
  <2> HIDE DEF x
  <2>3. px \in CallState /\ px.tap = None /\ px.buf = s.buf
    BY <2>2, StartEffect, NoneTyped
  <2> HIDE DEF px
  <2>4. px.tap.key = NoKey /\ ~IsOpen(px) /\ Same(s.buf, px.buf)
    BY <2>3, NoneTyped, SameIs DEF IsOpen
  <2>5. Timed(s, r, Waits(px, r))
    BY <2>3, <2>4, TimedWaits
  <2> QED  BY <2>1, <2>5
<1>3. CASE Within(s.tap, r) /\ r.key # NoKey /\ r.pressed
  <2>1. PICK x \in CallState :
            /\ x = [s EXCEPT !.tap.interrupted = TRUE]
            /\ x.buf = s.buf /\ x.reg = s.reg /\ x.owed = s.owed
            /\ x.disturbed = s.disturbed
            /\ x.tap.key = s.tap.key /\ x.tap.pressed = s.tap.pressed
            /\ x.tap.time = s.tap.time /\ x.tap.count = s.tap.count
            /\ x.tap.interrupted = TRUE
    BY InterruptEffect
  <2>2. ProcessTapping(s, r) = Waits(x, r)
    BY <1>3, <2>1, WhenOpen
  <2>3. Timed(s, r, Waits(x, r))
    BY <1>1, <1>3, <2>1, SameIs, TimedWaits
  <2> QED  BY <2>2, <2>3
<1>4. CASE Within(s.tap, r) /\ r.key # NoKey /\ ~r.pressed /\ r.key = s.tap.key
  <2> DEFINE x == TapNow(s)
             u == Release(r, x.tap)
  <2>1. ProcessTapping(s, r) = Waits(x, u)
    BY <1>4, WhenOpen
  <2>2. /\ x \in CallState /\ x.buf = s.buf /\ TapOf(s) \in Record
        /\ TapOf(s).pressed = s.tap.pressed /\ TapOf(s).time = s.tap.time
        /\ x.tap = Acted(TapOf(s))
    BY <1>1, TapNowEffect
  <2>3. x.tap.pressed = s.tap.pressed /\ x.tap.time = s.tap.time
    BY <2>2, ActedEffect
  <2> HIDE DEF x
  <2>4. x.tap \in Record
    BY <2>2 DEF CallState
  <2>5. u.key = r.key /\ u.pressed = r.pressed /\ u.time = r.time
    BY <1>1, <2>4, ReleaseTyped
  <2> HIDE DEF u
  <2>6. Timed(s, r, Waits(x, u))
    BY <1>1, <1>4, <2>2, <2>3, <2>5, SameIs, TimedWaits
  <2> QED  BY <2>1, <2>6
<1>5. CASE /\ Within(s.tap, r)
           /\ \/ r.key = NoKey
              \/ ~r.pressed /\ r.key # s.tap.key /\ ~Nested(s, r) /\ (Typed(s, r) \/ Retained(r))
  <2>1. ProcessTapping(s, r) = Waits(s, r)
    BY <1>5, WhenOpen DEF Input
  <2>2. Timed(s, r, Waits(s, r))
    BY <1>1, <1>5, SameIs, TimedWaits
  <2> QED  BY <2>1, <2>2
<1>6. CASE /\ Within(s.tap, r) /\ r.key # NoKey
           /\ ~r.pressed /\ r.key # s.tap.key /\ ~Nested(s, r) /\ ~(Typed(s, r) \/ Retained(r))
  <2>1. ProcessTapping(s, r) = Consumed(Process(s, r), r)
    BY <1>6, WhenOpen
  <2>2. Timed(s, r, Consumed(Process(s, r), r))
    BY <1>1, <1>6, PassTimed
  <2> QED  BY <2>1, <2>2
<1> QED  BY <1>2, <1>3, <1>4, <1>5, <1>6

LEMMA ResultTimed ==
  ASSUME NEW s \in CallState, NEW r \in Input
  PROVE  Timed(s, r, ProcessTapping(s, r))
BY Phases, NoneTimed, TappedTimed, UpTimed, OpenTimed

----------------------------------------------------------------------------
(* How far the timer may have gone when a record is taken up.  What waits  *)
(* without an open decision is taken up one record with each tick.         *)
Limit == Width - 1 - MaxGap

(* The hypothesis of the last two theorems: a term, and a pass of the main *)
(* loop for each place of the buffer and one more, fit into the timer.     *)
(* With the code's 16 bits, 8 places and a term of 200 ms, a pass may take *)
(* seven seconds.  A host may write any term, so it is no assumption.      *)
Timely == \A t \in Terms : t + MaxGap * WAITING_BUFFER_SIZE <= Limit

Bounded(s, now) ==
  /\ \A i \in 1 .. Len(s.buf) : Age(s.buf[i].time, now) + MaxGap * i <= Limit
  /\ IsOpen(s) => Age(s.tap.time, now) <= Limit

(* The same after the timer has gone on, if the next round is sure to take *)
(* a record.                                                               *)
Ready(s, now) ==
  /\ \A i \in 1 .. Len(s.buf) : Age(s.buf[i].time, now) + MaxGap * (i - 1) <= Limit
  /\ ~IsOpen(s) /\ ~IsUp(s)

Stopped(s) == s.buf = <<>> \/ s.tap.key = NoKey \/ s.tap.pressed

LEMMA RoundTimes ==
  ASSUME NEW s \in CallState, Len(s.buf) > 0
  PROVE  LET y == Round(s)
         IN  /\ y.done => Same(Tail(s.buf), y.s.buf)
             /\ ~y.done => Same(s.buf, y.s.buf) /\ Stopped(y.s)
             /\ IsOpen(y.s) => \/ IsOpen(s) /\ y.s.tap.time = s.tap.time
                               \/ y.s.tap.time = Head(s.buf).time /\ y.done
             /\ ~y.done => IsOpen(s) \/ IsUp(s)
<1> DEFINE r == Head(s.buf)
           p == ProcessTapping(s, r)
           y == Round(s)
<1>1. s.buf \in Seq(KeyRecord) /\ r = s.buf[1] /\ r \in Input
  <2>1. s.buf \in Seq(KeyRecord)
    BY DEF CallState
  <2> QED  BY <2>1, TailFacts, KeyRecords
<1>2. Timed(s, r, p)
  BY <1>1, ResultTimed
<1>3. /\ Fits(s, r, p) /\ y.done = p.done
      /\ y.s \in CallState /\ (p.done => y.s.buf = Tail(p.s.buf))
      /\ (~p.done => y.s.buf = [p.s.buf EXCEPT ![1] = p.rec])
      /\ y.s.tap = p.s.tap
  BY RoundFits
<1>4. p.s.buf \in Seq(KeyRecord) /\ p.done \in BOOLEAN
  BY <1>3 DEF Fits, CallState
<1> HIDE DEF r, p, y
<1>5. /\ Len(p.s.buf) = Len(s.buf) /\ Len(s.buf) \in Nat
      /\ \A i \in 1 .. Len(s.buf) :
            /\ p.s.buf[i].key = s.buf[i].key /\ p.s.buf[i].pressed = s.buf[i].pressed
            /\ p.s.buf[i].time = s.buf[i].time
  BY <1>1, <1>2 DEF Timed, Same
<1>6. ASSUME y.done PROVE Same(Tail(s.buf), y.s.buf)
  <2>1. y.s.buf = Tail(p.s.buf)
    BY <1>3, <1>6
  <2>2. /\ Len(Tail(s.buf)) = Len(s.buf) - 1
        /\ \A i \in 1 .. Len(s.buf) - 1 : Tail(s.buf)[i] = s.buf[i + 1]
    BY <1>1, TailFacts
  <2>3. /\ Len(y.s.buf) = Len(s.buf) - 1
        /\ \A i \in 1 .. Len(s.buf) - 1 : y.s.buf[i] = p.s.buf[i + 1]
    BY <1>4, <1>5, <2>1, TailFacts
  <2>4. \A i \in 1 .. Len(s.buf) - 1 : i + 1 \in 1 .. Len(s.buf)
    BY <1>5
  <2> DEFINE q  == Tail(s.buf)
             q2 == y.s.buf
  <2>5. Len(q2) = Len(q) /\ Len(q) = Len(s.buf) - 1
    BY <2>2, <2>3
  <2>6. \A i \in 1 .. Len(s.buf) - 1 : /\ q2[i].key = q[i].key /\ q2[i].pressed = q[i].pressed
                                       /\ q2[i].time = q[i].time
    BY <1>5, <2>2, <2>3, <2>4
  <2> HIDE DEF q, q2
  <2>7. Same(q, q2)
    BY <2>5, <2>6 DEF Same
  <2> QED  BY <2>7 DEF q, q2
<1>7. ASSUME ~y.done PROVE Same(s.buf, y.s.buf)
  <2>1. y.s.buf = [p.s.buf EXCEPT ![1] = p.rec]
    BY <1>3, <1>7
  <2>2. /\ Len(y.s.buf) = Len(s.buf)
        /\ \A i \in 1 .. Len(s.buf) : y.s.buf[i] = IF i = 1 THEN p.rec ELSE p.s.buf[i]
    BY <1>4, <1>5, <2>1
  <2>3. p.rec.key = s.buf[1].key /\ p.rec.pressed = s.buf[1].pressed /\ p.rec.time = s.buf[1].time
    BY <1>1, <1>2 DEF Timed
  <2> QED  BY <1>5, <2>2, <2>3 DEF Same
<1>8. IsOpen(y.s) <=> IsOpen(p.s)
  BY <1>3 DEF IsOpen
<1>9. /\ IsOpen(y.s) => \/ IsOpen(s) /\ y.s.tap.time = s.tap.time
                        \/ y.s.tap.time = r.time /\ y.done
      /\ ~y.done => (IsOpen(s) \/ IsUp(s)) /\ Stopped(y.s)
  BY <1>2, <1>3, <1>8 DEF Timed, Stopped
<1> QED  BY <1>6, <1>7, <1>9 DEF y, r

LEMMA RoundBounded ==
  ASSUME NEW s \in CallState, Len(s.buf) > 0, NEW now \in 0 .. Width - 1,
         Bounded(s, now) \/ Ready(s, now)
  PROVE  Bounded(Round(s).s, now)
<1> DEFINE y == Round(s)
           b == s.buf
           q == Tail(b)
           n == Len(b)
<1>1. /\ y.done => Same(q, y.s.buf)
      /\ ~y.done => Same(b, y.s.buf)
      /\ IsOpen(y.s) => \/ IsOpen(s) /\ y.s.tap.time = s.tap.time
                        \/ y.s.tap.time = Head(b).time /\ y.done
      /\ ~y.done => IsOpen(s) \/ IsUp(s)
  BY RoundTimes
<1>2. /\ n \in Nat /\ n > 0 /\ Len(q) = n - 1 /\ Head(b) = b[1]
      /\ \A i \in 1 .. n - 1 : q[i] = b[i + 1]
  BY TailFacts DEF CallState
<1>3. /\ Age(s.tap.time, now) \in Nat
      /\ \A i \in 1 .. n : Age(b[i].time, now) \in Nat
  BY AgesTyped
<1>4. MaxGap \in Nat /\ Limit \in Int /\ 1 \in 1 .. n
  BY <1>2, Constants DEF Limit
<1>5. \A i \in 1 .. n : Age(b[i].time, now) + MaxGap * (i - 1) <= Limit
  <2> SUFFICES ASSUME NEW i \in 1 .. n
               PROVE  Age(b[i].time, now) + MaxGap * (i - 1) <= Limit
    OBVIOUS
  <2>1. CASE Ready(s, now)
    BY <2>1 DEF Ready
  <2>2. CASE Bounded(s, now)
    <3>1. Age(b[i].time, now) + MaxGap * i <= Limit
      BY <2>2 DEF Bounded
    <3> DEFINE a == Age(b[i].time, now)
    <3>2. a \in Nat /\ a + MaxGap * i <= Limit
      BY <1>3, <3>1
    <3> HIDE DEF a
    <3>3. MaxGap * (i - 1) = MaxGap * i - MaxGap /\ MaxGap * i \in Int
      BY <1>4
    <3>4. a + MaxGap * (i - 1) <= Limit
      BY <1>4, <3>2, <3>3
    <3> QED  BY <3>4 DEF a
  <2> QED  BY <2>1, <2>2
<1>6. Age(Head(b).time, now) <= Limit
  <2>1. Age(b[1].time, now) + MaxGap * (1 - 1) <= Limit
    BY <1>4, <1>5
  <2> QED  BY <1>2, <1>3, <1>4, <2>1
<1>7. IsOpen(s) => Age(s.tap.time, now) <= Limit
  BY DEF Bounded, Ready
<1> HIDE DEF y, b, q, n
<1>8. IsOpen(y.s) => Age(y.s.tap.time, now) <= Limit
  BY <1>1, <1>6, <1>7
<1>9. CASE y.done
  <2>1. /\ Len(y.s.buf) = n - 1 /\ \A i \in 1 .. n - 1 : y.s.buf[i].time = b[i + 1].time
    BY <1>1, <1>2, <1>9 DEF Same
  <2>2. ASSUME NEW i \in 1 .. n - 1
        PROVE  Age(y.s.buf[i].time, now) + MaxGap * i <= Limit
    <3>1. i + 1 \in 1 .. n /\ (i + 1) - 1 = i
      BY <1>2
    <3>2. Age(b[i + 1].time, now) + MaxGap * ((i + 1) - 1) <= Limit
      BY <1>5, <3>1
    <3> QED  BY <2>1, <3>1, <3>2
  <2> QED  BY <1>8, <2>1, <2>2 DEF Bounded, y
<1>10. CASE ~y.done
  <2>1. Len(y.s.buf) = n /\ \A i \in 1 .. n : y.s.buf[i].time = b[i].time
    BY <1>1, <1>10 DEF Same, n
  <2>2. \A i \in 1 .. n : Age(b[i].time, now) + MaxGap * i <= Limit
    <3>1. ~Ready(s, now)
      BY <1>1, <1>10 DEF Ready
    <3> QED  BY <3>1 DEF Bounded, b, n
  <2> QED  BY <1>8, <2>1, <2>2 DEF Bounded, y
<1> QED  BY <1>9, <1>10

(* The loop over the records that wait.                                    *)
LEMMA DrainedGood ==
  ASSUME NEW s \in CallState, NEW dn, NEW now \in 0 .. Width - 1, QS.tapping_term \in Nat,
         \/ s.disturbed
         \/ (\E g : Good(s, g, dn, now)) /\ (Bounded(s, now) \/ Ready(s, now))
  PROVE  \/ Drained(s).disturbed
         \/ /\ \E h : Good(Drained(s), h, dn, now)
            /\ Bounded(Drained(s), now) /\ Stopped(Drained(s))
<1> DEFINE N == Len(s.buf)
           Fine(x) == /\ \E g : Good(x.s, g, dn, now)
                      /\ Bounded(x.s, now) \/ (x.done /\ Ready(x.s, now))
                      /\ ~x.done => Stopped(x.s)
           G == {y \in (0 .. N) \X Steps :
                   /\ y[2].done => Len(y[2].s.buf) = N - y[1]
                   /\ y[2].s.disturbed \/ Fine(y[2])}
<1>1. N \in Nat
  BY EndsWait
<1>2. <<0, [done |-> TRUE, s |-> s]>> \in G
  <2> DEFINE x == [done |-> TRUE, s |-> s]
  <2>1. x \in Steps /\ x.s = s /\ x.done
    BY DEF Steps
  <2> HIDE DEF x
  <2>2. Len(x.s.buf) = N
    BY <2>1 DEF N
  <2> HIDE DEF N
  <2>3. x.s.disturbed \/ Fine(x)
    BY <2>1
  <2>4. N - 0 = N /\ 0 \in 0 .. N
    BY <1>1
  <2> HIDE DEF Fine
  <2>5. <<0, x>> \in G
    BY <2>1, <2>2, <2>3, <2>4
  <2> QED  BY <2>5 DEF x
<1> HIDE DEF N
<1>3. ASSUME NEW n \in 0 .. N - 1, NEW x, <<n, x>> \in G
      PROVE  <<n + 1, IF x.done THEN Round(x.s) ELSE x>> \in G
  <2> HIDE DEF Fine
  <2>1. /\ x \in Steps /\ (x.done => Len(x.s.buf) = N - n)
        /\ x.s \in CallState /\ x.done \in BOOLEAN /\ n + 1 \in 0 .. N
        /\ x.s.disturbed \/ Fine(x)
    BY <1>1, <1>3 DEF Steps
  <2>2. CASE x.done
    <3>1. Len(x.s.buf) > 0 /\ Len(x.s.buf) = N - n
      BY <1>1, <2>1, <2>2
    <3> DEFINE p == ProcessTapping(x.s, Head(x.s.buf))
               y == Round(x.s)
    <3>2. /\ Fits(x.s, Head(x.s.buf), p) /\ y.done = p.done /\ y.done \in BOOLEAN
          /\ y.s \in CallState /\ y.s.disturbed = p.s.disturbed
          /\ (p.done => y.s.buf = Tail(p.s.buf))
      BY <2>1, <3>1, RoundFits
    <3>3. y \in Steps
      <4>1. \E a, b : y = [done |-> a, s |-> b]
        BY DEF Round
      <4> QED  BY <3>2, <4>1 DEF Steps
    <3>4. ASSUME y.done PROVE Len(y.s.buf) = N - (n + 1)
      <4> HIDE DEF p, y
      <4>1. p.s.buf \in Seq(KeyRecord) /\ Len(p.s.buf) = N - n /\ Len(p.s.buf) > 0
        BY <3>1, <3>2 DEF Fits, CallState
      <4>2. Len(Tail(p.s.buf)) = N - n - 1
        BY <1>1, <4>1
      <4>3. y.s.buf = Tail(p.s.buf)
        BY <3>2, <3>4
      <4> QED  BY <1>1, <4>2, <4>3
    <3>5. y.s.disturbed \/ Fine(y)
      <4>1. CASE x.s.disturbed
        <5>1. p.s.disturbed
          BY <3>2, <4>1 DEF Fits
        <5> QED  BY <3>2, <5>1
      <4>2. CASE Fine(x) /\ ~y.s.disturbed
        <5>1. /\ \E g : Good(x.s, g, dn, now)
              /\ Bounded(x.s, now) \/ Ready(x.s, now)
          BY <4>2 DEF Fine
        <5>2. \E h : Good(y.s, h, dn, now)
          BY <2>1, <3>1, <4>2, <5>1, RoundGood
        <5>3. Bounded(y.s, now)
          BY <2>1, <3>1, <5>1, RoundBounded
        <5>4. ~y.done => Stopped(y.s)
          BY <2>1, <3>1, RoundTimes
        <5> HIDE DEF y
        <5> QED  BY <5>2, <5>3, <5>4 DEF Fine
      <4> QED  BY <2>1, <4>1, <4>2
    <3> HIDE DEF p, y
    <3>6. <<n + 1, y>> \in G
      BY <2>1, <3>3, <3>4, <3>5
    <3> QED  BY <2>2, <3>6 DEF y
  <2>3. CASE ~x.done
    <3>1. <<n + 1, x>> \in G
      BY <2>1, <2>3
    <3> QED  BY <2>3, <3>1
  <2> QED  BY <2>1, <2>2, <2>3
<1>4. PICK x : <<N, x>> \in G /\ Drained(s) = x.s
  <2> HIDE DEF G
  <2> QED  BY <1>1, <1>2, <1>3, DrainedBy DEF N
<1>5. /\ x \in Steps /\ x.s \in CallState /\ (x.done => Len(x.s.buf) = N - N)
      /\ x.s.disturbed \/ Fine(x)
  <2> HIDE DEF Fine
  <2> QED  BY <1>4 DEF Steps
<1>6. x.done => x.s.buf = <<>>
  <2>1. x.done => Len(x.s.buf) = 0
    BY <1>1, <1>5
  <2>2. x.s.buf \in Seq(KeyRecord)
    BY <1>5 DEF CallState
  <2> QED  BY <2>1, <2>2
<1>7. CASE Fine(x)
  <2>1. (\E h : Good(x.s, h, dn, now)) /\ Stopped(x.s)
    BY <1>6, <1>7 DEF Stopped
  <2>2. Bounded(x.s, now)
    <3>1. CASE x.done /\ Ready(x.s, now)
      BY <1>6, <3>1 DEF Bounded, Ready
    <3> QED  BY <1>7, <3>1
  <2> QED  BY <1>4, <2>1, <2>2
<1> QED  BY <1>4, <1>5, <1>7

----------------------------------------------------------------------------
(* The call that brings the record r looks at it before those that wait.   *)
Brought(s, r) ==
  LET p == ProcessTapping(s, r) IN IF p.done THEN p.s ELSE Enqueued(p.s, p.rec)

Weak(s, now) == \A i \in 1 .. Len(s.buf) : Age(s.buf[i].time, now) + MaxGap * (i - 1) <= Limit

(* What the loop over the records that wait needs.                         *)
Leads(s, dn, now) ==
  \/ s.disturbed
  \/ (\E g : Good(s, g, dn, now)) /\ (Bounded(s, now) \/ Ready(s, now))

(* The settings and the loop are such that the timer does not go round.    *)
Timing ==
  /\ QS.tapping_term \in Nat /\ Limit \in Int
  /\ QS.tapping_term + MaxGap * WAITING_BUFFER_SIZE <= Limit

LEMMA PlaceTimes ==
  ASSUME Timing, NEW i \in 0 .. WAITING_BUFFER_SIZE
  PROVE  /\ QS.tapping_term + MaxGap * i <= Limit
         /\ MaxGap * i <= Limit /\ 0 <= Limit /\ MaxGap * i \in Nat
<1>1. MaxGap \in Nat /\ WAITING_BUFFER_SIZE \in Nat
  BY Constants
<1>2. \A m, w, j \in Nat : j <= w => m * j <= m * w /\ m * j \in Nat
  OBVIOUS
<1>3. MaxGap * i <= MaxGap * WAITING_BUFFER_SIZE /\ MaxGap * i \in Nat
  BY <1>1, <1>2
<1>4. MaxGap * WAITING_BUFFER_SIZE \in Nat
  BY <1>1, <1>2
<1> DEFINE x == MaxGap * i
           y == MaxGap * WAITING_BUFFER_SIZE
           t == QS.tapping_term
<1>5. x <= y /\ x \in Nat /\ y \in Nat /\ t \in Nat /\ Limit \in Int /\ t + y <= Limit
  BY <1>3, <1>4 DEF Timing
<1> HIDE DEF x, y, t
<1>6. t + x <= Limit /\ x <= Limit /\ 0 <= Limit
  BY <1>5
<1> QED  BY <1>5, <1>6 DEF x, t

(* A record that comes now within the term of an open tapping key.         *)
LEMMA OpenBounded ==
  ASSUME Timing, NEW s \in CallState, NEW now \in 0 .. Width - 1, Order(s, now), IsOpen(s),
         NEW r, r.time = now, Within(s.tap, r), Len(s.buf) < WAITING_BUFFER_SIZE
  PROVE  Bounded(s, now)
<1>1. s.tap.time \in 0 .. Width - 1 /\ Width \in Nat \ {0}
  BY AgesTyped, Constants
<1>2. Age(s.tap.time, now) < QS.tapping_term
  BY DEF Within, Age
<1>3. /\ Age(s.tap.time, now) \in Nat
      /\ \A i \in 1 .. Len(s.buf) : Age(s.buf[i].time, now) \in Nat
  BY AgesTyped
<1>4. Len(s.buf) \in Nat
  BY EndsWait
<1>5. ASSUME NEW i \in 1 .. Len(s.buf)
      PROVE  Age(s.buf[i].time, now) + MaxGap * i <= Limit
  <2>1. Age(s.buf[i].time, now) <= Age(s.tap.time, now)
    BY DEF Order
  <2>2. i \in 0 .. WAITING_BUFFER_SIZE
    BY <1>4, Constants
  <2>3. QS.tapping_term + MaxGap * i <= Limit /\ MaxGap * i \in Nat
    BY <2>2, PlaceTimes
  <2> DEFINE x == MaxGap * i
             a == Age(s.buf[i].time, now)
             b == Age(s.tap.time, now)
             t == QS.tapping_term
  <2>4. /\ a <= b /\ b < t /\ t + x <= Limit /\ a \in Nat /\ b \in Nat /\ x \in Nat /\ t \in Nat
        /\ Limit \in Int
    BY <1>2, <1>3, <2>1, <2>3 DEF Timing
  <2> HIDE DEF x, a, b, t
  <2>5. a + x <= Limit
    BY <2>4
  <2> QED  BY <2>5 DEF a, x
<1>6. Age(s.tap.time, now) <= Limit
  <2>1. 0 \in 0 .. WAITING_BUFFER_SIZE /\ MaxGap * 0 = 0
    BY Constants
  <2>2. QS.tapping_term + MaxGap * 0 <= Limit
    BY <2>1, PlaceTimes
  <2> QED  BY <1>2, <1>3, <2>1, <2>2 DEF Timing
<1> QED  BY <1>5, <1>6 DEF Bounded

LEMMA EmptyBounded ==
  ASSUME NEW s \in CallState, NEW now, s.buf = <<>>, IsOpen(s) => Age(s.tap.time, now) <= Limit
  PROVE  Bounded(s, now)
BY DEF Bounded

(* An open decision is made for the hold.                                  *)
LEMMA HeldNow ==
  ASSUME NEW s \in CallState, NEW g, NEW dn, NEW now, Good(s, g, dn, now), IsOpen(s)
  PROVE  /\ HeldOf(s) \in CallState /\ HeldOf(s).buf = s.buf /\ HeldOf(s).tap.key = NoKey
         /\ Good(HeldOf(s), g, dn, now)
<1>1. keymap[s.tap.key] = "mod_tap"
  BY DEF IsOpen, Good, Sound, TapIs
<1> DEFINE x == HeldOf(s)
<1>2. /\ x \in CallState /\ x.buf = s.buf /\ x.tap.key = NoKey /\ ~x.tap.pressed
      /\ x.reg = s.reg \cup {<<s.tap.key, "mods">>}
      /\ \A k \in Keys : x.owed[k] = IF k = s.tap.key THEN s.owed[k] - 1 ELSE s.owed[k]
  BY <1>1, HeldEffect
<1> HIDE DEF x
<1>3. Good(x, g, dn, now)
  BY <1>2, HeldGood
<1> QED  BY <1>2, <1>3 DEF x

(* A tick.                                                                 *)
LEMMA TickBrought ==
  ASSUME Timing, NEW s \in CallState, NEW g, NEW dn, NEW now \in 0 .. Width - 1,
         Good(s, g, dn, now), Stopped(s), Weak(s, now), Len(s.buf) < WAITING_BUFFER_SIZE,
         NEW r \in Input, r.key = NoKey, r.time = now
  PROVE  Leads(Brought(s, r), dn, now)
<1> DEFINE p == ProcessTapping(s, r)
<1>1. ~r.pressed /\ r \in Record
  BY DEF Input
<1>2. Brought(s, r) = p.s
  <2>1. Fits(s, r, p)
    BY ResultFits
  <2>2. Brought(s, r) = IF p.done THEN p.s ELSE Enqueued(p.s, p.rec)
    BY DEF Brought
  <2> HIDE DEF p
  <2> QED  BY <2>1, <2>2, EnqueuedEffect DEF Fits
<1>3. CASE s.tap.key = NoKey
  <2>1. p = Consumed(Process(s, r), r)
    BY <1>1, <1>3, WhenNone
  <2>2. Process(s, r) = s
    BY <1>1, ProcessEffect
  <2>3. p.s = s
    BY <2>1, <2>2 DEF Consumed
  <2>4. Ready(s, now)
    BY <1>3 DEF Ready, Weak, IsOpen, IsUp
  <2> HIDE DEF p
  <2> QED  BY <1>2, <2>3, <2>4 DEF Leads
<1>4. CASE IsTapped(s)
  <2>1. p = Consumed(Process(s, r), r)
    BY <1>1, <1>4, WhenTapped DEF IsTapped
  <2>2. Process(s, r) = s
    BY <1>1, ProcessEffect
  <2>3. p.s = s
    BY <2>1, <2>2 DEF Consumed
  <2>4. Ready(s, now)
    BY <1>4, Constants DEF Ready, Weak, IsOpen, IsUp, IsTapped, CallState, Record
  <2> HIDE DEF p
  <2> QED  BY <1>2, <2>3, <2>4 DEF Leads
<1>5. CASE IsUp(s)
  <2>1. s.buf = <<>>
    BY <1>5 DEF Stopped, IsUp
  <2>2. CASE Within(s.tap, r)
    <3>1. p = Consumed(Process(s, r), r)
      BY <1>1, <1>5, <2>2, WhenUp
    <3>2. Process(s, r) = s
      BY <1>1, ProcessEffect
    <3>3. p.s = s
      BY <3>1, <3>2 DEF Consumed
    <3>4. Bounded(s, now)
      BY <1>5, <2>1, EmptyBounded DEF IsUp, IsOpen
    <3> HIDE DEF p
    <3> QED  BY <1>2, <3>3, <3>4 DEF Leads
  <2>3. CASE ~Within(s.tap, r)
    <3> DEFINE x == Forget(s)
    <3>1. p = Waits(x, r)
      BY <1>5, <2>3, WhenUp
    <3>2. p.s = x
      BY <3>1 DEF Waits
    <3>3. /\ x \in CallState /\ x.tap = None /\ x.buf = s.buf /\ x.reg = s.reg
          /\ x.owed = s.owed
      BY StartEffect, NoneTyped
    <3> HIDE DEF p, x
    <3>4. x.tap.key = NoKey /\ ~x.tap.pressed /\ ~s.tap.pressed /\ Same(s.buf, x.buf)
      BY <1>5, <3>3, NoneTyped, SameIs DEF IsUp
    <3>5. Good(x, g, dn, now)
      <4>1. \A i \in 1 .. Len(s.buf) : /\ x.buf[i].count = s.buf[i].count
                                       /\ s.buf[i].pressed => ~x.buf[i].interrupted
        BY <2>1, <3>3
      <4>2. Ahead(x)
        BY <3>4 DEF Ahead, IsOpen
      <4> QED  BY <3>3, <3>4, <4>1, <4>2, UntoldGood
    <3>6. Bounded(x, now)
      BY <2>1, <3>3, <3>4, EmptyBounded DEF IsOpen
    <3> QED  BY <1>2, <3>2, <3>5, <3>6 DEF Leads
  <2> QED  BY <2>2, <2>3
<1>6. CASE IsOpen(s) /\ Within(s.tap, r)
  <2>1. p = Waits(s, r)
    BY <1>6, WhenOpen
  <2>2. p.s = s
    BY <2>1 DEF Waits
  <2>3. Bounded(s, now)
    BY <1>6, OpenBounded DEF Good, Sound
  <2> HIDE DEF p
  <2> QED  BY <1>2, <2>2, <2>3 DEF Leads
<1>7. CASE IsOpen(s) /\ ~Within(s.tap, r)
  <2> DEFINE x == HeldOf(s)
  <2>1. p = Waits(x, r)
    BY <1>7, WhenOpen DEF HeldOf
  <2>2. p.s = x
    BY <2>1 DEF Waits
  <2>3. x \in CallState /\ x.buf = s.buf /\ x.tap.key = NoKey /\ Good(x, g, dn, now)
    BY <1>7, HeldNow
  <2> HIDE DEF p, x
  <2>4. Ready(x, now)
    BY <2>3 DEF Ready, Weak, IsOpen, IsUp
  <2> QED  BY <1>2, <2>2, <2>3, <2>4 DEF Leads
<1> QED  BY <1>3, <1>4, <1>5, <1>6, <1>7, Phases

(* All is cleared when the buffer is full.                                 *)
LEMMA ClearedGood ==
  ASSUME NEW x \in CallState, NEW dn \in SUBSET Keys, NEW now, x.buf = <<>>, x.tap = None,
         x.reg = {}, \A k \in Keys : x.owed[k] = 0
  PROVE  (\E h : Good(x, h, dn, now)) /\ Bounded(x, now)
<1> DEFINE h == [i \in 0 .. 0 |-> dn]
<1>1. h \in [0 .. 0 -> SUBSET Keys] /\ h[0] = dn
  OBVIOUS
<1> HIDE DEF h
<1>2. Len(x.buf) = 0 /\ x.tap.key = NoKey /\ x.tap.pressed = FALSE /\ x.tap.count = 0
  BY NoneTyped
<1>3. 1 .. 0 = {}
  OBVIOUS
<1>4. Path(x.buf, h, dn) /\ Marks(x.buf)
  BY <1>1, <1>2, <1>3 DEF Path, Marks
<1>5. TapIs(x, h[0]) /\ Told(x, h[0]) /\ Order(x, now) /\ Ahead(x)
  BY <1>2, <1>3 DEF TapIs, Told, Order, Code, Mods, IsOpen, Ahead
<1>6. \A k \in Keys : Right(x, k)
  BY <1>2, <1>3, Constants DEF Right, Live, Code, Mods, Known
<1>7. Owes(x)
  <2> SUFFICES ASSUME NEW k \in Keys
               PROVE  x.owed[k] = Presses(x.buf, k) + Pending(x, k)
    BY DEF Owes
  <2>1. {i \in DOMAIN x.buf : x.buf[i].key = k /\ x.buf[i].pressed} = {}
    BY <1>2
  <2>2. Presses(x.buf, k) = 0
    BY <2>1, FS_EmptySet DEF Presses
  <2>3. Pending(x, k) = 0 /\ x.owed[k] = 0
    BY <1>2 DEF Pending, IsOpen
  <2> QED  BY <2>2, <2>3
<1> QED  BY <1>2, <1>4, <1>5, <1>6, <1>7, EmptyBounded DEF Good, Sound, IsOpen

(* Nothing is owed then, if what was owed is what would wait with q.       *)
LEMMA DroppedGood ==
  ASSUME NEW x \in CallState, NEW q \in KeyRecord, ~(Len(x.buf) + 1 < WAITING_BUFFER_SIZE),
         NEW w \in CallState, w.buf = Append(x.buf, q), w.tap = x.tap, w.owed = x.owed, Owes(w),
         NEW dn \in SUBSET Keys, NEW now
  PROVE  (\E h : Good(Enqueued(x, q), h, dn, now)) /\ Bounded(Enqueued(x, q), now)
<1> DEFINE e == Enqueued(x, q)
<1>1. q \in Input /\ q.key # NoKey
  BY KeyRecords, Constants DEF KeyRecord
<1>2. /\ e \in CallState /\ e.buf = <<>> /\ e.tap = None /\ e.reg = {}
      /\ \A k \in Keys : e.owed[k] = x.owed[k] - Waiting(x, k)
                                        - IF k = q.key /\ q.pressed THEN 1 ELSE 0
  BY <1>1, EnqueuedEffect
<1> HIDE DEF e
<1>3. ASSUME NEW k \in Keys
      PROVE  e.owed[k] = 0
  <2> DEFINE a == Pending(x, k)
             d == Presses(x.buf, k)
             o == IF k = q.key /\ q.pressed THEN 1 ELSE 0
  <2>1. Pending(w, k) = a
    BY DEF Pending, IsOpen
  <2>2. Presses(w.buf, k) = d + o /\ d \in Int
    <3>1. x.buf \in Seq(KeyRecord)
      BY DEF CallState
    <3> QED  BY <3>1, PressesAppend
  <2>3. x.owed[k] = Presses(w.buf, k) + Pending(w, k)
    BY DEF Owes
  <2>4. Waiting(x, k) = d + a
    BY DEF Waiting
  <2>5. e.owed[k] = x.owed[k] - Waiting(x, k) - o
    BY <1>2
  <2>6. a \in Int /\ o \in Int
    BY PendingTyped
  <2> HIDE DEF a, d, o
  <2> QED  BY <2>1, <2>2, <2>3, <2>4, <2>5, <2>6
<1>4. (\E h : Good(e, h, dn, now)) /\ Bounded(e, now)
  BY <1>2, <1>3, ClearedGood
<1> QED  BY <1>4 DEF e

(* The state with another buffer.                                          *)
With(s, b) == [s EXCEPT !.buf = b]

LEMMA WithTyped ==
  ASSUME NEW s \in CallState, NEW b \in Seq(KeyRecord)
  PROVE  /\ With(s, b) \in CallState /\ With(s, b).buf = b /\ With(s, b).tap = s.tap
         /\ With(s, b).reg = s.reg /\ With(s, b).owed = s.owed
         /\ With(s, b).disturbed = s.disturbed
BY DEF With, CallState

LEMMA SameState ==
  ASSUME NEW x \in CallState, NEW y \in CallState, x.buf = y.buf, x.tap = y.tap, x.reg = y.reg,
         x.owed = y.owed, x.disturbed = y.disturbed
  PROVE  x = y
BY DEF CallState

LEMMA ProcessWith ==
  ASSUME NEW s \in CallState, NEW b \in Seq(KeyRecord), NEW r \in Record
  PROVE  Process(With(s, b), r) = With(Process(s, r), b)
<1> DEFINE x == Process(With(s, b), r)
           y == Process(s, r)
<1>1. With(s, b) \in CallState /\ With(s, b).reg = s.reg /\ With(s, b).owed = s.owed
      /\ With(s, b).tap = s.tap /\ With(s, b).disturbed = s.disturbed /\ With(s, b).buf = b
  BY WithTyped
<1>2. CASE r.key = NoKey
  <2>1. x = With(s, b) /\ y = s
    BY <1>1, <1>2, ProcessEffect
  <2> QED  BY <2>1
<1>3. CASE r.key # NoKey
  <2>1. /\ x \in CallState /\ x.tap = s.tap /\ x.buf = b /\ x.disturbed = s.disturbed
    BY <1>1, ProcessEffect
  <2>2. y \in CallState /\ y.tap = s.tap /\ y.buf = s.buf /\ y.disturbed = s.disturbed
    BY ProcessEffect
  <2>3. x.reg = y.reg
    <3>1. CASE r.pressed
      <4>1. x.reg = With(s, b).reg \cup {Role(Acted(r))}
        BY <1>1, <1>3, <3>1, ProcessEffect
      <4>2. y.reg = s.reg \cup {Role(Acted(r))}
        BY <1>3, <3>1, ProcessEffect
      <4> QED  BY <1>1, <4>1, <4>2
    <3>2. CASE ~r.pressed
      <4>1. x.reg = With(s, b).reg \ {Role(r)}
        BY <1>1, <1>3, <3>2, ProcessEffect
      <4>2. y.reg = s.reg \ {Role(r)}
        BY <1>3, <3>2, ProcessEffect
      <4> QED  BY <1>1, <4>1, <4>2
    <3> QED  BY <3>1, <3>2
  <2>4. \A k \in Keys : x.owed[k] = y.owed[k]
    BY <1>1, <1>3, ProcessEffect
  <2>5. x.owed \in [Keys -> Int] /\ y.owed \in [Keys -> Int]
    BY <2>1, <2>2 DEF CallState
  <2> HIDE DEF x, y
  <2>6. x.owed = y.owed
    BY <2>4, <2>5
  <2>7. /\ With(y, b) \in CallState /\ With(y, b).buf = b /\ With(y, b).tap = y.tap
        /\ With(y, b).reg = y.reg /\ With(y, b).owed = y.owed
        /\ With(y, b).disturbed = y.disturbed
    BY <2>2, WithTyped
  <2>8. x = With(y, b)
    BY <2>1, <2>2, <2>3, <2>6, <2>7, SameState
  <2> QED  BY <2>8 DEF x, y
<1> QED  BY <1>2, <1>3

LEMMA StartWith ==
  ASSUME NEW s \in CallState, NEW b \in Seq(KeyRecord), NEW r \in Record
  PROVE  Start(With(s, b), r) = With(Start(s, r), b)
<1>1. /\ Start(s, r) \in CallState /\ Start(s, r).tap = r /\ Start(s, r).reg = s.reg
      /\ Start(s, r).owed = s.owed /\ Start(s, r).disturbed = s.disturbed
  BY StartEffect
<1>2. /\ With(Start(s, r), b) \in CallState /\ With(Start(s, r), b).buf = b
      /\ With(Start(s, r), b).tap = r /\ With(Start(s, r), b).reg = s.reg
      /\ With(Start(s, r), b).owed = s.owed /\ With(Start(s, r), b).disturbed = s.disturbed
  BY <1>1, WithTyped
<1>3. /\ With(s, b) \in CallState /\ With(s, b).buf = b /\ With(s, b).reg = s.reg
      /\ With(s, b).owed = s.owed /\ With(s, b).disturbed = s.disturbed
  BY WithTyped
<1>4. /\ Start(With(s, b), r) \in CallState /\ Start(With(s, b), r).tap = r
      /\ Start(With(s, b), r).buf = b /\ Start(With(s, b), r).reg = s.reg
      /\ Start(With(s, b), r).owed = s.owed /\ Start(With(s, b), r).disturbed = s.disturbed
  BY <1>3, StartEffect
<1> QED  BY <1>2, <1>4, SameState

(* No release is found in a buffer without one.                            *)
LEMMA ScanWith ==
  ASSUME NEW s \in CallState, NEW b \in Seq(KeyRecord), s.tap.key # NoKey, s.buf = <<>>,
         \A i \in 1 .. Len(b) : b[i].pressed
  PROVE  ScanTap(With(s, b)) = With(ScanTap(s), b)
<1>1. Ends(s) = {}
  <2>1. Ends(s) \subseteq 1 .. Len(s.buf) /\ Len(s.buf) = 0
    BY EndsWait
  <2> QED  BY <2>1
<1>2. With(s, b) \in CallState /\ With(s, b).buf = b /\ With(s, b).tap = s.tap
  BY WithTyped
<1>3. Ends(With(s, b)) = {}
  BY <1>2, EndsAre
<1>4. ScanTap(s) = s
  BY <1>1, ScanEffect
<1>5. ScanTap(With(s, b)) = With(s, b)
  BY <1>2, <1>3, ScanEffect
<1> QED  BY <1>4, <1>5
(* A record that meets no others, and no open tapping key, is treated as   *)
(* if it had come to wait first.                                           *)
LEMMA DirectIsRound ==
  ASSUME NEW s \in CallState, NEW r \in KeyRecord, s.buf = <<>>, ~IsOpen(s),
         NEW b, b = <<r>>
  PROVE  /\ b \in Seq(KeyRecord)
         /\ ProcessTapping(With(s, b), r).done = ProcessTapping(s, r).done
         /\ ProcessTapping(With(s, b), r).rec = ProcessTapping(s, r).rec
         /\ ProcessTapping(With(s, b), r).s = With(ProcessTapping(s, r).s, b)
<1> DEFINE w == With(s, b)
<1>1. b \in Seq(KeyRecord) /\ Len(b) = 1 /\ b[1] = r
  OBVIOUS
<1>2. w \in CallState /\ w.buf = b /\ w.tap = s.tap
  BY <1>1, WithTyped
<1>3. r \in Input /\ r \in Record /\ r.key \in Keys /\ r.key # NoKey
  BY KeyRecords, Constants DEF KeyRecord
<1>4. \A x \in CallState, q \in Record : Process(With(x, b), q) = With(Process(x, q), b)
  BY <1>1, ProcessWith
<1>5. \A x \in CallState, q \in Record : Start(With(x, b), q) = With(Start(x, q), b)
  BY <1>1, StartWith
<1>6. \A x \in CallState : x.buf = <<>> /\ r.pressed =>
         ScanTap(Start(With(x, b), r)) = With(ScanTap(Start(x, r)), b)
  <2> SUFFICES ASSUME NEW x \in CallState, x.buf = <<>>, r.pressed
               PROVE  ScanTap(Start(With(x, b), r)) = With(ScanTap(Start(x, r)), b)
    OBVIOUS
  <2>1. Start(x, r) \in CallState /\ Start(x, r).tap = r /\ Start(x, r).buf = <<>>
    BY <1>3, StartEffect
  <2>2. ScanTap(With(Start(x, r), b)) = With(ScanTap(Start(x, r)), b)
    <3> DEFINE y == Start(x, r)
    <3>1. \A i \in 1 .. Len(b) : b[i].pressed
      BY <1>1
    <3>2. y \in CallState /\ y.tap.key # NoKey /\ y.buf = <<>>
      BY <1>3, <2>1
    <3> HIDE DEF y
    <3>3. ScanTap(With(y, b)) = With(ScanTap(y), b)
      BY <1>1, <3>1, <3>2, ScanWith
    <3> QED  BY <3>3 DEF y
  <2> QED  BY <1>3, <1>5, <2>2
<1>7. \A x, y, q : y = With(x, b) =>
         /\ Consumed(y, q).s = With(Consumed(x, q).s, b) /\ Consumed(y, q).done = Consumed(x, q).done
         /\ Consumed(y, q).rec = Consumed(x, q).rec
         /\ Waits(y, q).s = With(Waits(x, q).s, b) /\ Waits(y, q).done = Waits(x, q).done
         /\ Waits(y, q).rec = Waits(x, q).rec
  BY DEF Consumed, Waits
<1>8. CASE s.tap.key = NoKey
  <2>1. ProcessTapping(s, r) = IF r.pressed /\ IsTap(r) THEN Consumed(ScanTap(Start(s, r)), r)
                               ELSE Consumed(Process(s, r), r)
    BY <1>3, <1>8, WhenNone
  <2>2. ProcessTapping(w, r) = IF r.pressed /\ IsTap(r) THEN Consumed(ScanTap(Start(w, r)), r)
                               ELSE Consumed(Process(w, r), r)
    BY <1>2, <1>3, <1>8, WhenNone
  <2>3. CASE r.pressed /\ IsTap(r)
    BY <1>1, <1>6, <1>7, <2>1, <2>2, <2>3
  <2>4. CASE ~(r.pressed /\ IsTap(r))
    BY <1>1, <1>3, <1>4, <1>7, <2>1, <2>2, <2>4
  <2> QED  BY <2>3, <2>4
<1>9. CASE IsTapped(s)
  <2> DEFINE up == Release(r, s.tap)
             nx == IF Within(s.tap, r) THEN up ELSE None
  <2>0. IsTapped(w)
    BY <1>2, <1>9 DEF IsTapped
  <2>1. ProcessTapping(s, r) =
           IF r.key = s.tap.key /\ ~r.pressed THEN Consumed(Start(Process(s, up), nx), up)
           ELSE IF r.pressed /\ IsTap(r) THEN Consumed(ScanTap(Start(Left(s, r), r)), r)
           ELSE Consumed(Process(s, r), r)
    BY <1>3, <1>9, WhenTapped
  <2>2. ProcessTapping(w, r) =
           IF r.key = s.tap.key /\ ~r.pressed THEN Consumed(Start(Process(w, up), nx), up)
           ELSE IF r.pressed /\ IsTap(r) THEN Consumed(ScanTap(Start(Left(w, r), r)), r)
           ELSE Consumed(Process(w, r), r)
    BY <1>2, <1>3, <2>0, WhenTapped
  <2>3. up \in Record /\ nx \in Record
    BY <1>3, ReleaseTyped, NoneTyped DEF CallState
  <2> HIDE DEF w, up, nx
  <2>4. CASE r.key = s.tap.key /\ ~r.pressed
    <3>1. Process(s, up) \in CallState
      BY <2>3, ProcessEffect
    <3>2. Start(Process(w, up), nx) = With(Start(Process(s, up), nx), b)
      BY <1>4, <1>5, <2>3, <3>1 DEF w
    <3> QED  BY <1>1, <1>7, <2>1, <2>2, <2>4, <3>2 DEF w
  <2>5. CASE ~(r.key = s.tap.key /\ ~r.pressed) /\ r.pressed /\ IsTap(r)
    <3>1. Left(s, r) \in CallState /\ Left(s, r).buf = <<>>
      BY <1>3, <1>9, LeftEffect DEF IsTapped
    <3>2. Last(s, r) \in Record /\ Last(w, r) = Last(s, r)
      BY <1>2, <1>3, LastTyped DEF Last
    <3>3. Left(w, r) = With(Left(s, r), b)
      BY <1>2, <1>4, <3>2 DEF Left, w
    <3>4. ScanTap(Start(Left(w, r), r)) = With(ScanTap(Start(Left(s, r), r)), b)
      BY <1>6, <2>5, <3>1, <3>3
    <3> QED  BY <1>1, <1>7, <2>1, <2>2, <2>5, <3>4 DEF w
  <2>6. CASE ~(r.key = s.tap.key /\ ~r.pressed) /\ ~(r.pressed /\ IsTap(r))
    <3>1. Process(w, r) = With(Process(s, r), b)
      BY <1>3, <1>4 DEF w
    <3> QED  BY <1>1, <1>7, <2>1, <2>2, <2>6, <3>1 DEF w
  <2> QED  BY <2>4, <2>5, <2>6
<1>10. CASE IsUp(s)
  <2>0. IsUp(w)
    BY <1>2, <1>10 DEF IsUp
  <2> DEFINE x  == [s EXCEPT !.tap.interrupted = TRUE]
             xw == [w EXCEPT !.tap.interrupted = TRUE]
             ag == Again(s, r)
             hard == Set("tapping_force_hold") \/ s.tap.interrupted \/ s.tap.count = 0
  <2>1. ProcessTapping(s, r) =
           IF ~Within(s.tap, r) THEN Waits(Forget(s), r)
           ELSE IF ~r.pressed THEN Consumed(Process(s, r), r)
           ELSE IF r.key = s.tap.key
                THEN IF hard THEN Consumed(StartAgain(s, r), r)
                     ELSE Consumed(Start(Process(s, ag), ag), ag)
           ELSE IF IsTap(r) THEN Consumed(ScanTap(Start(s, r)), r)
           ELSE Consumed(Process(x, r), r)
    BY <1>3, <1>10, WhenUp
  <2>2. ProcessTapping(w, r) =
           IF ~Within(s.tap, r) THEN Waits(Forget(w), r)
           ELSE IF ~r.pressed THEN Consumed(Process(w, r), r)
           ELSE IF r.key = s.tap.key
                THEN IF hard THEN Consumed(StartAgain(w, r), r)
                     ELSE Consumed(Start(Process(w, ag), ag), ag)
           ELSE IF IsTap(r) THEN Consumed(ScanTap(Start(w, r)), r)
           ELSE Consumed(Process(xw, r), r)
    <3>1. Again(w, r) = ag
      BY <1>2 DEF Again, More
    <3> HIDE DEF ag, x
    <3> QED  BY <1>2, <1>3, <2>0, <3>1, WhenUp
  <2>3. ag \in Record
    BY <1>3, AgainTyped
  <2>4. xw = With(x, b) /\ x \in CallState
    <3>1. x \in CallState
      BY InterruptEffect
    <3>2. xw = With(x, b)
      BY DEF With, CallState
    <3> QED  BY <3>1, <3>2
  <2> HIDE DEF w, x, xw, ag, hard
  <2>5. CASE ~Within(s.tap, r)
    <3>1. Forget(w) = With(Forget(s), b)
      BY <1>2, <1>5, NoneTyped, StartEffect DEF w
    <3> QED  BY <1>1, <1>7, <2>1, <2>2, <2>5, <3>1 DEF w
  <2>6. CASE Within(s.tap, r) /\ ~r.pressed
    <3>1. Process(w, r) = With(Process(s, r), b)
      BY <1>3, <1>4 DEF w
    <3> QED  BY <1>1, <1>7, <2>1, <2>2, <2>6, <3>1 DEF w
  <2>7. CASE Within(s.tap, r) /\ r.pressed /\ r.key = s.tap.key /\ hard
    <3>1. StartAgain(w, r) = With(StartAgain(s, r), b)
      <4> DEFINE y  == StartAgain(s, r)
                 yw == StartAgain(w, r)
      <4>1. /\ y \in CallState /\ y.tap = r /\ y.buf = s.buf /\ y.reg = s.reg
            /\ y.owed = s.owed /\ y.disturbed = (s.disturbed \/ Ends(Start(s, r)) # {})
        BY <1>3, StartAgainEffect
      <4>2. /\ yw \in CallState /\ yw.tap = r /\ yw.buf = b /\ yw.reg = w.reg
            /\ yw.owed = w.owed /\ yw.disturbed = (w.disturbed \/ Ends(Start(w, r)) # {})
        BY <1>2, <1>3, StartAgainEffect
      <4>3. Ends(Start(s, r)) = {}
        <5>1. Start(s, r) \in CallState /\ Start(s, r).buf = <<>>
          BY <1>3, StartEffect
        <5>2. Ends(Start(s, r)) \subseteq 1 .. Len(Start(s, r).buf) /\ Len(Start(s, r).buf) = 0
          BY <5>1, EndsWait
        <5> QED  BY <5>2
      <4>4. Ends(Start(w, r)) = {}
        <5>1. Start(w, r) \in CallState /\ Start(w, r).buf = b
          BY <1>2, <1>3, StartEffect
        <5> QED  BY <1>1, <2>7, <5>1, EndsAre
      <4>5. w.reg = s.reg /\ w.owed = s.owed /\ w.disturbed = s.disturbed
        BY <1>1, WithTyped DEF w
      <4> HIDE DEF y, yw
      <4>6. /\ With(y, b) \in CallState /\ With(y, b).buf = b /\ With(y, b).tap = y.tap
            /\ With(y, b).reg = y.reg /\ With(y, b).owed = y.owed
            /\ With(y, b).disturbed = y.disturbed
        BY <1>1, <4>1, WithTyped
      <4>7. yw.disturbed = y.disturbed
        <5>1. s.disturbed \in BOOLEAN
          BY DEF CallState
        <5> QED  BY <4>1, <4>2, <4>3, <4>4, <4>5, <5>1
      <4>8. yw = With(y, b)
        BY <4>1, <4>2, <4>5, <4>6, <4>7, SameState
      <4> QED  BY <4>8 DEF y, yw
    <3> QED  BY <1>1, <1>7, <2>1, <2>2, <2>7, <3>1 DEF w
  <2>8. CASE Within(s.tap, r) /\ r.pressed /\ r.key = s.tap.key /\ ~hard
    <3>1. Process(s, ag) \in CallState
      BY <2>3, ProcessEffect
    <3>2. Start(Process(w, ag), ag) = With(Start(Process(s, ag), ag), b)
      BY <1>4, <1>5, <2>3, <3>1 DEF w
    <3> QED  BY <1>1, <1>7, <2>1, <2>2, <2>8, <3>2 DEF w
  <2>9. CASE Within(s.tap, r) /\ r.pressed /\ r.key # s.tap.key /\ IsTap(r)
    <3>1. ScanTap(Start(w, r)) = With(ScanTap(Start(s, r)), b)
      BY <1>6, <2>9 DEF w
    <3> QED  BY <1>1, <1>7, <2>1, <2>2, <2>9, <3>1 DEF w
  <2>10. CASE Within(s.tap, r) /\ r.pressed /\ r.key # s.tap.key /\ ~IsTap(r)
    <3>1. Process(xw, r) = With(Process(x, r), b)
      BY <1>3, <1>4, <2>4
    <3> QED  BY <1>1, <1>7, <2>1, <2>2, <2>10, <3>1 DEF w
  <2> QED  BY <2>5, <2>6, <2>7, <2>8, <2>9, <2>10
<1> QED  BY <1>8, <1>9, <1>10, Phases

(* What the call of a key event finds.                                     *)
Comes(s, g, dn, now, r) ==
  /\ Sound(s, g, dn, now) /\ Owing(s, r) /\ r.time = now /\ r.count = 0 /\ ~r.interrupted
  /\ r.pressed <=> r.key \notin dn

(* The record comes to wait while all else stays as it is.                 *)
LEMMA JoinedGood ==
  ASSUME NEW s \in CallState, NEW g, NEW dn \in SUBSET Keys, NEW now \in 0 .. Width - 1,
         NEW r \in KeyRecord, Comes(s, g, dn, now, r),
         ~(IsOpen(s) /\ ~r.pressed /\ r.key = s.tap.key /\ Within(s.tap, r))
  PROVE  LET w == With(s, Append(s.buf, r))
         IN  /\ w \in CallState /\ w.buf = Append(s.buf, r) /\ w.tap = s.tap /\ w.reg = s.reg
             /\ w.owed = s.owed /\ w.disturbed = s.disturbed
             /\ \E h : Good(w, h, DownAfter(dn, r), now)
<1> DEFINE w == With(s, Append(s.buf, r))
<1>0. s.buf \in Seq(KeyRecord)
  BY DEF CallState
<1>1. /\ w \in CallState /\ w.buf = Append(s.buf, r) /\ w.tap = s.tap /\ w.reg = s.reg
      /\ w.owed = s.owed /\ w.disturbed = s.disturbed
  BY <1>0, AppendFacts, WithTyped
<1> HIDE DEF w
<1>2. /\ Sound(s, g, dn, now) /\ Owing(s, r) /\ r.time = now /\ r.count = 0 /\ ~r.interrupted
      /\ r.pressed <=> r.key \notin dn
  BY DEF Comes
<1>3. Marks(s.buf) /\ TapIs(s, g[0]) /\ Told(s, g[0]) /\ \A k \in Keys : Right(s, k)
  BY <1>2 DEF Sound
<1>4. \A k : /\ Has(w.buf, k) <=> Has(s.buf, k) \/ k = r.key
             /\ Known(w.buf, k) <=> Known(s.buf, k)
  BY <1>0, <1>1, <1>2, <1>3, MarksAppend
<1>5. TapIs(w, g[0]) /\ Told(w, g[0])
  BY <1>1, <1>3 DEF TapIs, Told, Code, Mods
<1>6. ASSUME NEW k \in Keys
      PROVE  Right(w, k)
  <2>1. CASE Live(s, k) /\ s.tap.count = 0 /\ ~Mods(s, k) /\ keymap[k] = "mod_tap"
    <3>1. Ends(s) = {} /\ ~Code(s, k) /\ ~Known(s.buf, k)
      BY <1>3, <2>1 DEF Right
    <3>2. Ends(w) = {}
      <4> SUFFICES ASSUME NEW i \in Ends(w)
                   PROVE  FALSE
        OBVIOUS
      <4>1. /\ i \in 1 .. Len(w.buf) /\ w.buf[i].key = s.tap.key /\ ~w.buf[i].pressed
            /\ Within(s.tap, w.buf[i])
        BY <1>1, EndsAre
      <4>2. Len(w.buf) = Len(s.buf) + 1 /\ w.buf[Len(s.buf) + 1] = r /\ Len(s.buf) \in Nat
            /\ \A j \in 1 .. Len(s.buf) : w.buf[j] = s.buf[j]
        BY <1>0, <1>1, AppendFacts
      <4>3. CASE i \in 1 .. Len(s.buf)
        <5>1. i \in Ends(s)
          BY <4>1, <4>2, <4>3, EndsAre
        <5> QED  BY <3>1, <5>1
      <4>4. CASE i = Len(s.buf) + 1
        <5>1. ~r.pressed /\ r.key = s.tap.key /\ Within(s.tap, r)
          BY <4>1, <4>2, <4>4
        <5>2. IsOpen(s)
          BY <2>1, <5>1, Constants DEF IsOpen, Live
        <5> QED  BY <5>1, <5>2
      <4> QED  BY <4>1, <4>2, <4>3, <4>4
    <3> QED  BY <1>1, <1>4, <2>1, <3>1, <3>2 DEF Right, Live, Code, Mods
  <2>2. CASE ~(Live(s, k) /\ s.tap.count = 0 /\ ~Mods(s, k) /\ keymap[k] = "mod_tap")
    BY <1>1, <1>3, <1>4, <2>2 DEF Right, Live, Code, Mods
  <2> QED  BY <2>1, <2>2
<1>7. IsOpen(w) => IsOpen(s) /\ w.tap.time = s.tap.time
  BY <1>1 DEF IsOpen
<1>8. \A k \in Keys : w.owed[k] - Pending(w, k) = s.owed[k] - Pending(s, k)
                             - IF k = r.key /\ InAdvance(s, r) THEN 1 ELSE 0
  <2>1. ~InAdvance(s, r)
    BY DEF InAdvance
  <2> SUFFICES ASSUME NEW k \in Keys
               PROVE  w.owed[k] - Pending(w, k) = s.owed[k] - Pending(s, k) - 0
    BY <2>1
  <2>2. Pending(w, k) = Pending(s, k)
    BY <1>1 DEF Pending, IsOpen
  <2>3. s.owed[k] \in Int /\ Pending(s, k) \in Int
    BY PendingTyped DEF CallState
  <2> QED  BY <1>1, <2>2, <2>3
<1>9. Ahead(w)
  BY <1>0, <1>1, <1>2, AheadAppend DEF Ahead, IsOpen, Sound
<1>10. \E h : Good(w, h, DownAfter(dn, r), now)
  <2>1. r.pressed => r.count = 0 /\ ~r.interrupted
    BY <1>2
  <2>2. r.count > 0 => ~Has(s.buf, r.key)
    BY <1>2
  <2> QED  BY <1>1, <1>2, <1>5, <1>6, <1>7, <1>8, <1>9, <2>1, <2>2, JoinsGood
<1> QED  BY <1>1, <1>10 DEF w

(* A key event when nothing waits and no decision is open.                 *)
LEMMA EmptyBrought ==
  ASSUME Timing, NEW s \in CallState, NEW g, NEW dn \in SUBSET Keys, NEW now \in 0 .. Width - 1,
         NEW r \in KeyRecord, Comes(s, g, dn, now, r), s.buf = <<>>, ~IsOpen(s)
  PROVE  Leads(Brought(s, r), DownAfter(dn, r), now)
<1> DEFINE b  == <<r>>
           w  == With(s, b)
           p  == ProcessTapping(s, r)
           pw == ProcessTapping(w, r)
           d2 == DownAfter(dn, r)
<1>1. /\ b \in Seq(KeyRecord) /\ Len(b) = 1 /\ b[1] = r /\ b = Append(s.buf, r)
      /\ Head(b) = r /\ Tail(b) = <<>>
  OBVIOUS
<1>2. /\ pw.done = p.done /\ pw.rec = p.rec /\ pw.s = With(p.s, b)
  BY DirectIsRound
<1>3. r \in Input /\ r \in KeyRecord
  BY KeyRecords
<1>4. Fits(s, r, p)
  BY <1>3, ResultFits
<1>5. w \in CallState /\ w.buf = b /\ w.tap = s.tap /\ \E h : Good(w, h, d2, now)
  <2>1. w = With(s, Append(s.buf, r))
    BY <1>1
  <2> HIDE DEF b, w, d2
  <2>2. /\ With(s, Append(s.buf, r)) \in CallState
        /\ With(s, Append(s.buf, r)).buf = Append(s.buf, r)
        /\ With(s, Append(s.buf, r)).tap = s.tap
        /\ \E h : Good(With(s, Append(s.buf, r)), h, DownAfter(dn, r), now)
    BY JoinedGood
  <2> QED  BY <1>1, <2>1, <2>2 DEF d2
<1>6. Brought(s, r) = IF p.done THEN p.s ELSE Enqueued(p.s, p.rec)
  BY DEF Brought
<1>7. /\ Round(w).done = pw.done /\ Round(w).s \in CallState
      /\ Round(w).s.tap = pw.s.tap /\ Round(w).s.reg = pw.s.reg /\ Round(w).s.owed = pw.s.owed
      /\ Round(w).s.disturbed = pw.s.disturbed
      /\ pw.done => Round(w).s.buf = Tail(pw.s.buf)
      /\ ~pw.done => Round(w).s.buf = [pw.s.buf EXCEPT ![1] = pw.rec]
  <2> HIDE DEF w, b
  <2> QED  BY <1>1, <1>5, RoundFits
<1>8. Bounded(w, now)
  <2>1. Age(r.time, now) = 0
    BY AgeTyped DEF Comes
  <2>2. 1 \in 0 .. WAITING_BUFFER_SIZE /\ MaxGap * 1 = MaxGap
    BY Constants
  <2>3. MaxGap * 1 <= Limit
    BY <2>2, PlaceTimes
  <2>4. ~IsOpen(w)
    BY <1>5 DEF IsOpen
  <2> HIDE DEF w, b
  <2>5. \A i \in 1 .. Len(w.buf) : i = 1 /\ w.buf[i] = r
    BY <1>1, <1>5
  <2>6. 0 + MaxGap * 1 <= Limit
    BY <2>2, <2>3, Constants
  <2> QED  BY <2>1, <2>4, <2>5, <2>6 DEF Bounded
<1> HIDE DEF b, w, p, pw, d2
<1>9. Bounded(Round(w).s, now)
  <2>1. Len(w.buf) > 0
    BY <1>1, <1>5
  <2> QED  BY <1>5, <1>8, <2>1, RoundBounded
<1>10. Round(w).s.disturbed \/ \E h : Good(Round(w).s, h, d2, now)
  <2>1. PICK h : Good(w, h, d2, now)
    BY <1>5
  <2>2. Len(w.buf) > 0 /\ QS.tapping_term \in Nat
    BY <1>1, <1>5 DEF Timing
  <2> QED  BY <1>5, <2>1, <2>2, RoundGood
<1>11. Leads(Round(w).s, d2, now)
  BY <1>9, <1>10 DEF Leads
<1>12. /\ p.s \in CallState /\ p.s.buf = <<>> /\ p.rec \in Input /\ p.done \in BOOLEAN
       /\ p.rec.key = r.key
  <2>1. p.s \in CallState /\ Len(p.s.buf) = 0 /\ p.rec \in Input /\ p.done \in BOOLEAN
        /\ p.rec.key = r.key
    BY <1>4 DEF Fits
  <2>2. p.s.buf \in Seq(KeyRecord)
    BY <2>1 DEF CallState
  <2>3. p.s.buf = <<>>
    BY <2>1, <2>2
  <2> QED  BY <2>1, <2>3
<1>13. /\ pw.s.buf = b /\ pw.s.tap = p.s.tap /\ pw.s.reg = p.s.reg /\ pw.s.owed = p.s.owed
       /\ pw.s.disturbed = p.s.disturbed
  <2>1. pw.s = With(p.s, b) /\ p.s \in CallState /\ b \in Seq(KeyRecord)
    BY <1>1, <1>2, <1>12
  <2> QED  BY <2>1, WithTyped
<1>14. CASE p.done
  <2>1. Round(w).s = p.s
    <3>1. Round(w).s.buf = <<>>
      BY <1>1, <1>2, <1>7, <1>13, <1>14
    <3> QED  BY <1>7, <1>12, <1>13, <3>1, SameState
  <2> QED  BY <1>6, <1>11, <1>14, <2>1 DEF d2
<1>15. CASE ~p.done
  <2>1. p.rec.key # NoKey
    BY <1>12, Constants DEF KeyRecord
  <2>2. CASE Len(p.s.buf) + 1 < WAITING_BUFFER_SIZE
    <3> DEFINE e == Enqueued(p.s, p.rec)
    <3>1. /\ e \in CallState /\ e.buf = Append(p.s.buf, p.rec) /\ e.tap = p.s.tap
          /\ e.reg = p.s.reg /\ e.owed = p.s.owed /\ e.disturbed = p.s.disturbed
      BY <1>12, <2>1, <2>2, EnqueuedEffect
    <3> HIDE DEF e
    <3>2. Round(w).s.buf = <<p.rec>>
      <4>1. Round(w).s.buf = [b EXCEPT ![1] = p.rec]
        BY <1>2, <1>7, <1>13, <1>15
      <4>2. [<<r>> EXCEPT ![1] = p.rec] = <<p.rec>>
        OBVIOUS
      <4> QED  BY <4>1, <4>2 DEF b
    <3>3. e.buf = <<p.rec>>
      BY <1>12, <3>1
    <3>4. Round(w).s = e
      BY <1>7, <1>13, <3>1, <3>2, <3>3, SameState
    <3> QED  BY <1>6, <1>11, <1>15, <3>4 DEF d2, e
  <2>3. CASE ~(Len(p.s.buf) + 1 < WAITING_BUFFER_SIZE)
    <3> DEFINE e == Enqueued(p.s, p.rec)
               z == Round(w).s
    <3>1. p.rec \in KeyRecord
      BY <1>12, <2>1, KeyRecords
    <3>2. d2 \in SUBSET Keys
      BY <1>3 DEF d2, DownAfter, KeyRecord
    <3>3. z.buf = Append(p.s.buf, p.rec)
      <4>1. z.buf = [b EXCEPT ![1] = p.rec]
        BY <1>2, <1>7, <1>13, <1>15
      <4>2. [<<r>> EXCEPT ![1] = p.rec] = <<p.rec>>
        OBVIOUS
      <4>3. Append(<< >>, p.rec) = <<p.rec>>
        OBVIOUS
      <4> QED  BY <1>12, <4>1, <4>2, <4>3 DEF b
    <3>4. z \in CallState /\ z.tap = p.s.tap /\ z.owed = p.s.owed /\ z.disturbed = p.s.disturbed
      BY <1>7, <1>13
    <3>5. e \in CallState /\ e.disturbed = p.s.disturbed
      BY <1>12, EnqueuedEffect
    <3>6. z.disturbed \/ \E h : Good(z, h, d2, now)
      BY <1>10
    <3> HIDE DEF z
    <3>7. CASE z.disturbed
      BY <1>6, <1>15, <3>4, <3>5, <3>7 DEF Leads
    <3>8. CASE \E h : Good(z, h, d2, now)
      <4>1. Owes(z)
        BY <3>8 DEF Good
      <4>2. (\E h : Good(e, h, d2, now)) /\ Bounded(e, now)
        BY <1>12, <2>3, <3>1, <3>2, <3>3, <3>4, <4>1, DroppedGood
      <4> QED  BY <1>6, <1>15, <4>2 DEF Leads, d2, e
    <3> QED  BY <3>6, <3>7, <3>8
  <2> QED  BY <2>2, <2>3
<1> QED  BY <1>12, <1>14, <1>15

(* A record has come to wait while a decision was open.                    *)
LEMMA OpenReady ==
  ASSUME Timing, NEW s \in CallState, NEW now \in 0 .. Width - 1, Weak(s, now),
         NEW e \in CallState, NEW q \in KeyRecord, e.buf = Append(s.buf, q), q.time = now,
         Len(e.buf) < WAITING_BUFFER_SIZE, Order(e, now), e.tap.key = NoKey \/ e.tap.pressed,
         IsOpen(e) => Within(e.tap, q)
  PROVE  Bounded(e, now) \/ Ready(e, now)
<1>1. CASE IsOpen(e)
  BY <1>1, OpenBounded
<1>2. CASE ~IsOpen(e)
  <2>1. s.buf \in Seq(KeyRecord)
    BY DEF CallState
  <2>2. /\ Len(e.buf) = Len(s.buf) + 1 /\ e.buf[Len(s.buf) + 1] = q /\ Len(s.buf) \in Nat
        /\ \A j \in 1 .. Len(s.buf) : e.buf[j] = s.buf[j]
    BY <2>1, AppendFacts
  <2>3. ASSUME NEW i \in 1 .. Len(e.buf)
        PROVE  Age(e.buf[i].time, now) + MaxGap * (i - 1) <= Limit
    <3>1. CASE i \in 1 .. Len(s.buf)
      BY <2>2, <3>1 DEF Weak
    <3>2. CASE i = Len(s.buf) + 1
      <4>1. Age(e.buf[i].time, now) = 0
        BY <2>2, <3>2, AgeTyped
      <4>2. i - 1 \in 0 .. WAITING_BUFFER_SIZE
        BY <2>2, <3>2, Constants
      <4>3. MaxGap * (i - 1) <= Limit /\ MaxGap * (i - 1) \in Nat
        BY <4>2, PlaceTimes
      <4> DEFINE x == MaxGap * (i - 1)
      <4> HIDE DEF x
      <4>4. 0 + x <= Limit
        BY <4>3 DEF x
      <4> QED  BY <4>1, <4>4 DEF x
    <3> QED  BY <2>2, <3>1, <3>2
  <2>4. ~IsUp(e)
    BY DEF IsUp
  <2> QED  BY <1>2, <2>3, <2>4 DEF Ready
<1> QED  BY <1>1, <1>2

(* The record is kept: what process_tapping changed, and the record.       *)
Joins(s, x, q, dn, now) ==
  \A e \in CallState :
     e.buf = Append(s.buf, q) /\ e.tap = x.tap /\ e.reg = x.reg /\ e.owed = x.owed
        => \E h : Good(e, h, dn, now)

LEMMA KeptLeads ==
  ASSUME Timing, NEW s \in CallState, NEW dn \in SUBSET Keys, NEW now \in 0 .. Width - 1,
         NEW r \in KeyRecord, r.time = now, Weak(s, now), Len(s.buf) < WAITING_BUFFER_SIZE,
         IsOpen(s), NEW x \in CallState, NEW q \in KeyRecord,
         ProcessTapping(s, r) = Waits(x, q), x.buf = s.buf,
         Joins(s, x, q, DownAfter(dn, r), now)
  PROVE  Leads(Brought(s, r), DownAfter(dn, r), now)
<1> DEFINE e  == Enqueued(x, q)
           p  == ProcessTapping(s, r)
           d2 == DownAfter(dn, r)
<1>1. r \in Input /\ q \in Input /\ q.key # NoKey
  BY KeyRecords, Constants DEF KeyRecord
<1>2. p.s = x /\ p.rec = q /\ ~p.done
  BY DEF Waits
<1>3. Brought(s, r) = e
  <2>1. Brought(s, r) = IF p.done THEN p.s ELSE Enqueued(p.s, p.rec)
    BY DEF Brought
  <2> HIDE DEF p
  <2> QED  BY <1>2, <2>1
<1>4. Timed(s, r, p)
  BY <1>1, ResultTimed
<1>5. /\ e \in CallState /\ Len(e.buf) < WAITING_BUFFER_SIZE
      /\ Len(x.buf) + 1 < WAITING_BUFFER_SIZE =>
            e.buf = Append(x.buf, q) /\ e.tap = x.tap /\ e.reg = x.reg /\ e.owed = x.owed
  BY <1>1, EnqueuedEffect
<1> HIDE DEF e, p, d2
<1>6. CASE Len(x.buf) + 1 < WAITING_BUFFER_SIZE
  <2>1. e.buf = Append(s.buf, q) /\ e.tap = x.tap /\ e.reg = x.reg /\ e.owed = x.owed
    BY <1>5, <1>6
  <2>2. PICK h : Good(e, h, d2, now)
    BY <1>5, <2>1 DEF d2, Joins
  <2>3. Order(e, now)
    BY <2>2 DEF Good, Sound
  <2>4. q.time = now /\ r.time = now
    BY <1>2, <1>4 DEF Timed
  <2>5. /\ e.tap.key = NoKey \/ e.tap.pressed
        /\ IsOpen(e) => e.tap.time = s.tap.time /\ Within(s.tap, r)
    BY <1>2, <1>4, <2>1 DEF Timed, IsOpen
  <2>6. IsOpen(e) => Within(e.tap, q)
    BY <2>4, <2>5, SameWithin
  <2>7. Bounded(e, now) \/ Ready(e, now)
    BY <1>5, <2>1, <2>3, <2>4, <2>5, <2>6, OpenReady
  <2> QED  BY <1>3, <2>2, <2>7 DEF Leads, d2
<1>7. CASE ~(Len(x.buf) + 1 < WAITING_BUFFER_SIZE)
  <2> DEFINE w == With(x, Append(x.buf, q))
  <2>1. /\ w \in CallState /\ w.buf = Append(x.buf, q) /\ w.tap = x.tap /\ w.reg = x.reg
        /\ w.owed = x.owed
    <3>1. Append(x.buf, q) \in Seq(KeyRecord)
      BY AppendFacts DEF CallState
    <3> QED  BY <3>1, WithTyped
  <2> HIDE DEF w
  <2>2. d2 \in SUBSET Keys
    BY DEF d2, DownAfter, KeyRecord
  <2>3. Owes(w)
    BY <2>1 DEF Joins, Good
  <2>4. (\E h : Good(e, h, d2, now)) /\ Bounded(e, now)
    BY <1>7, <2>1, <2>2, <2>3, DroppedGood DEF e
  <2> QED  BY <1>3, <2>4 DEF Leads, d2
<1> QED  BY <1>6, <1>7

(* The tapping key is held now, and the record waits.                      *)
LEMMA HeldJoined ==
  ASSUME Timing, NEW s \in CallState, NEW g, NEW dn \in SUBSET Keys, NEW now \in 0 .. Width - 1,
         NEW r \in KeyRecord, Comes(s, g, dn, now, r), Weak(s, now),
         Len(s.buf) < WAITING_BUFFER_SIZE, IsOpen(s),
         ~(~r.pressed /\ r.key = s.tap.key /\ Within(s.tap, r)),
         ProcessTapping(s, r) = Waits(HeldOf(s), r)
  PROVE  Leads(Brought(s, r), DownAfter(dn, r), now)
<1> DEFINE x  == HeldOf(s)
           w  == With(s, Append(s.buf, r))
           d2 == DownAfter(dn, r)
<1>1. keymap[s.tap.key] = "mod_tap"
  BY DEF IsOpen, Comes, Sound, TapIs
<1>2. /\ x \in CallState /\ x.buf = s.buf /\ x.tap.key = NoKey /\ ~x.tap.pressed
      /\ x.reg = s.reg \cup {<<s.tap.key, "mods">>}
      /\ \A k \in Keys : x.owed[k] = IF k = s.tap.key THEN s.owed[k] - 1 ELSE s.owed[k]
  BY <1>1, HeldEffect
<1> HIDE DEF x
<1>3. /\ w \in CallState /\ w.buf = Append(s.buf, r) /\ w.tap = s.tap /\ w.reg = s.reg
      /\ w.owed = s.owed /\ \E h : Good(w, h, d2, now)
  BY JoinedGood
<1> HIDE DEF w, d2
<1>4. ASSUME NEW e \in CallState, e.buf = Append(s.buf, r), e.tap = x.tap, e.reg = x.reg,
             e.owed = x.owed
      PROVE  \E h : Good(e, h, d2, now)
  <2>1. PICK h : Good(w, h, d2, now)
    BY <1>3
  <2>2. IsOpen(w)
    BY <1>3 DEF IsOpen
  <2>3. /\ e.buf = w.buf /\ ~e.tap.pressed /\ e.tap.key = NoKey
        /\ e.reg = w.reg \cup {<<w.tap.key, "mods">>}
        /\ \A k \in Keys : e.owed[k] = IF k = w.tap.key THEN w.owed[k] - 1 ELSE w.owed[k]
    BY <1>2, <1>3, <1>4
  <2>4. Good(e, h, d2, now)
    BY <1>3, <2>1, <2>2, <2>3, HeldGood
  <2> QED  BY <2>4
<1>5. ProcessTapping(s, r) = Waits(x, r)
  BY DEF x
<1>6. r.time = now
  BY DEF Comes
<1>7. Joins(s, x, r, DownAfter(dn, r), now)
  BY <1>4 DEF Joins, d2
<1> QED  BY <1>2, <1>5, <1>6, <1>7, KeptLeads

(* The record waits, and nothing changes but for what the tapping key and  *)
(* the record learn of an interruption.                                    *)
LEMMA PlainJoined ==
  ASSUME Timing, NEW s \in CallState, NEW g, NEW dn \in SUBSET Keys, NEW now \in 0 .. Width - 1,
         NEW r \in KeyRecord, Comes(s, g, dn, now, r), Weak(s, now),
         Len(s.buf) < WAITING_BUFFER_SIZE, IsOpen(s),
         ~(~r.pressed /\ r.key = s.tap.key /\ Within(s.tap, r)),
         NEW x \in CallState, NEW q \in KeyRecord, ProcessTapping(s, r) = Waits(x, q),
         x.buf = s.buf, x.reg = s.reg, x.owed = s.owed, x.tap.key = s.tap.key,
         x.tap.pressed = s.tap.pressed, x.tap.count = s.tap.count, x.tap.time = s.tap.time,
         s.tap.interrupted => x.tap.interrupted,
         x.tap.interrupted => \/ s.tap.interrupted
                              \/ r.pressed /\ r.key # s.tap.key /\ ~Has(s.buf, s.tap.key),
         q.key = r.key, q.pressed = r.pressed, q.time = r.time, q.count = 0,
         q.pressed => ~q.interrupted
  PROVE  Leads(Brought(s, r), DownAfter(dn, r), now)
<1> DEFINE w  == With(s, Append(s.buf, r))
           d2 == DownAfter(dn, r)
<1>1. /\ w \in CallState /\ w.buf = Append(s.buf, r) /\ w.tap = s.tap /\ w.reg = s.reg
      /\ w.owed = s.owed /\ \E h : Good(w, h, d2, now)
  BY JoinedGood
<1> HIDE DEF w, d2
<1>2. ASSUME NEW e \in CallState, e.buf = Append(s.buf, q), e.tap = x.tap, e.reg = x.reg,
             e.owed = x.owed
      PROVE  \E h : Good(e, h, d2, now)
  <2>1. PICK h : Good(w, h, d2, now)
    BY <1>1
  <2>2. s.buf \in Seq(KeyRecord) /\ r.count = 0 /\ ~r.interrupted
    BY DEF CallState, Comes
  <2>3. /\ Len(w.buf) = Len(s.buf) + 1 /\ w.buf[Len(s.buf) + 1] = r
        /\ \A i \in 1 .. Len(s.buf) : w.buf[i] = s.buf[i]
    BY <1>1, <2>2, AppendFacts
  <2>4. /\ Len(e.buf) = Len(s.buf) + 1 /\ e.buf[Len(s.buf) + 1] = q /\ Len(s.buf) \in Nat
        /\ \A i \in 1 .. Len(s.buf) : e.buf[i] = s.buf[i]
    BY <1>2, <2>2, AppendFacts
  <2>5. \A i \in 1 .. Len(w.buf) : i \in 1 .. Len(s.buf) \/ i = Len(s.buf) + 1
    BY <2>3, <2>4
  <2>6. Same(w.buf, e.buf)
    <3>1. ASSUME NEW i \in 1 .. Len(w.buf)
          PROVE  /\ e.buf[i].key = w.buf[i].key /\ e.buf[i].pressed = w.buf[i].pressed
                 /\ e.buf[i].time = w.buf[i].time
      <4>1. CASE i \in 1 .. Len(s.buf)
        BY <2>3, <2>4, <4>1
      <4>2. CASE i = Len(s.buf) + 1
        <5>1. w.buf[i] = r /\ e.buf[i] = q
          BY <2>3, <2>4, <4>2
        <5> QED  BY <5>1
      <4> QED  BY <2>5, <4>1, <4>2
    <3> QED  BY <2>3, <2>4, <3>1 DEF Same
  <2>7. Marks(w.buf)
    BY <2>1 DEF Good, Sound
  <2>8. \A i \in 1 .. Len(w.buf) : /\ e.buf[i].count = w.buf[i].count
                                   /\ w.buf[i].pressed => ~e.buf[i].interrupted
    BY <2>2, <2>3, <2>4, <2>5, <2>7 DEF Marks
  <2>9. /\ e.tap.key = w.tap.key /\ e.tap.pressed = w.tap.pressed
        /\ e.tap.count = w.tap.count /\ e.tap.time = w.tap.time
        /\ w.tap.interrupted => e.tap.interrupted
    BY <1>1, <1>2
  <2>10. e.reg = w.reg /\ e.owed = w.owed /\ w \in CallState /\ e \in CallState
    BY <1>1, <1>2
  <2>11. Ahead(e)
    <3> SUFFICES ASSUME IsOpen(e), e.tap.interrupted
                 PROVE  AheadIn(e.buf, s.tap.key)
      BY <1>2 DEF Ahead
    <3>1. CASE s.tap.interrupted
      <4>1. AheadIn(w.buf, s.tap.key)
        BY <1>1, <2>1, <3>1 DEF Good, Sound, Ahead, IsOpen
      <4>2. Len(w.buf) \in Nat
        BY <2>3, <2>4
      <4> QED  BY <2>6, <4>1, <4>2, AheadSame
    <3>2. CASE r.pressed /\ r.key # s.tap.key /\ ~Has(s.buf, s.tap.key)
      BY <1>2, <2>2, <3>2, AheadNew
    <3> QED  BY <1>2, <3>1, <3>2
  <2>12. Good(e, h, d2, now)
    BY <2>1, <2>6, <2>8, <2>9, <2>10, <2>11, UntoldGood
  <2> QED  BY <2>12
<1>3. r.time = now
  BY DEF Comes
<1>4. Joins(s, x, q, DownAfter(dn, r), now)
  BY <1>2 DEF Joins, d2
<1> QED  BY <1>3, <1>4, KeptLeads

(* A tapping key that is not decided has no record that waits, if the host *)
(* was not told of it and its release comes within the term.               *)
LEMMA FirstRelease ==
  ASSUME NEW s \in CallState, NEW g, NEW dn, NEW now \in 0 .. Width - 1, Sound(s, g, dn, now),
         IsOpen(s), NEW r \in KeyRecord, r.time = now, Within(s.tap, r), ~Mods(s, s.tap.key),
         QS.tapping_term \in Nat
  PROVE  ~Has(s.buf, s.tap.key)
<1> DEFINE k == s.tap.key
<1>1. /\ k \in Keys /\ keymap[k] = "mod_tap" /\ k \in g[0] /\ Live(s, k) /\ s.tap.count = 0
      /\ s.tap \in Record
  BY Constants DEF IsOpen, CallState, Record, Sound, TapIs, Live
<1>2. Ends(s) = {}
  BY <1>1 DEF Sound, Right
<1>3. SUFFICES ASSUME Has(s.buf, k)
               PROVE  FALSE
  OBVIOUS
<1>4. s.buf \in Seq(KeyRecord) /\ Path(s.buf, g, dn) /\ Order(s, now)
  BY DEF CallState, Sound
<1>5. PICK m \in 1 .. Len(s.buf) : s.buf[m].key = k
  BY <1>3 DEF Has
<1>6. PICK j \in 1 .. m : First(s.buf, k, j)
  BY <1>4, <1>5, FirstExists
<1>7. j \in 1 .. Len(s.buf) /\ s.buf[j].key = k /\ ~s.buf[j].pressed
  BY <1>1, <1>4, <1>6, FirstDirection DEF First
<1>8. Age(s.buf[j].time, now) <= Age(s.tap.time, now)
  BY <1>4, <1>7 DEF Order
<1>9. s.buf[j] \in Record /\ Age(s.buf[j].time, now) \in Nat /\ Age(s.tap.time, now) \in Nat
  BY <1>7, EndsWait, KeyRecords, AgesTyped
<1>10. Age(s.tap.time, now) < QS.tapping_term
  BY DEF Within, Age
<1>11. Within(s.tap, s.buf[j]) <=> Age(s.tap.time, now) - Age(s.buf[j].time, now) < QS.tapping_term
  BY <1>1, <1>8, <1>9, WithinAges
<1> HIDE DEF k
<1>12. Within(s.tap, s.buf[j])
  <2> DEFINE a == Age(s.tap.time, now)
             c == Age(s.buf[j].time, now)
  <2> HIDE DEF a, c
  <2>1. a \in Nat /\ c \in Nat /\ a < QS.tapping_term
    BY <1>9, <1>10 DEF a, c
  <2>2. a - c < QS.tapping_term
    BY <2>1
  <2> QED  BY <1>11, <2>2 DEF a, c
<1>13. j \in Ends(s)
  BY <1>7, <1>12, EndsAre DEF k
<1> QED  BY <1>2, <1>13

(* The release of the tapping key decides: it was a tap, or, if it was     *)
(* interrupted and such interrupts count, a hold.                          *)
LEMMA OwnJoined ==
  ASSUME Timing, NEW s \in CallState, NEW g, NEW dn \in SUBSET Keys, NEW now \in 0 .. Width - 1,
         NEW r \in KeyRecord, Comes(s, g, dn, now, r), Weak(s, now),
         Len(s.buf) < WAITING_BUFFER_SIZE, IsOpen(s),
         ~r.pressed, r.key = s.tap.key, Within(s.tap, r),
         ProcessTapping(s, r) = Waits(TapNow(s), Release(r, TapNow(s).tap))
  PROVE  Leads(Brought(s, r), DownAfter(dn, r), now)
<1> DEFINE k    == s.tap.key
           x    == TapNow(s)
           t    == TapOf(s)
           q    == Release(r, x.tap)
           hold == t.interrupted /\ ~Set("ignore_mod_tap_interrupt")
           role == Role(Acted(t))
<1>1. /\ k \in Keys /\ keymap[k] = "mod_tap" /\ k \in g[0] /\ Live(s, k) /\ k # NoKey
      /\ s.tap.count = 0 /\ s.tap.pressed /\ s.tap \in Record /\ r \in Record
  BY KeyRecords, Constants DEF IsOpen, CallState, Record, Comes, Sound, TapIs, Live
<1>2. /\ Sound(s, g, dn, now) /\ Owing(s, r) /\ r.time = now /\ r.count = 0 /\ ~r.interrupted
      /\ r.pressed <=> r.key \notin dn
  BY DEF Comes
<1>3. /\ Marks(s.buf) /\ TapIs(s, g[0]) /\ Told(s, g[0]) /\ Right(s, k)
      /\ \A i \in Keys : Right(s, i)
  BY <1>1, <1>2 DEF Sound
<1>4. /\ x \in CallState /\ x.buf = s.buf /\ x.disturbed = s.disturbed
      /\ t \in Record /\ t.key = k /\ t.pressed /\ t.count = 1
      /\ t.interrupted = s.tap.interrupted /\ t.time = s.tap.time
      /\ x.tap = Acted(t) /\ x.reg = s.reg \cup {role}
      /\ \A i \in Keys : x.owed[i] = IF i = k THEN s.owed[i] - 1 ELSE s.owed[i]
  BY <1>1, TapNowEffect
<1> HIDE DEF x, t
<1>5. ~Code(s, k) /\ ~Known(s.buf, k) /\ (Mods(s, k) => hold)
  BY <1>1, <1>3, <1>4 DEF Right
<1>6. ~hold => ~Has(s.buf, k)
  <2> HIDE DEF hold
  <2> QED  BY <1>2, <1>5, FirstRelease DEF Timing
<1>7. /\ x.tap \in Record /\ x.tap.key = k /\ x.tap.pressed /\ x.tap.time = s.tap.time
      /\ x.tap.interrupted = t.interrupted /\ x.tap.count = IF hold THEN 0 ELSE 1
  BY <1>4, ActedEffect
<1>8. role = <<k, IF hold THEN "mods" ELSE "code">>
  BY <1>1, <1>4, <1>7 DEF Role, IsTap
<1>9. /\ q \in Record /\ q.key = k /\ ~q.pressed /\ q.time = now
      /\ q.count = (IF hold THEN 0 ELSE 1) /\ q.interrupted = t.interrupted
  BY <1>1, <1>2, <1>7, ReleaseTyped
<1>10. q \in KeyRecord
  BY <1>1, <1>9 DEF Record, KeyRecord
<1> HIDE DEF q, role
<1>11. hold <=> InAdvance(s, q)
  <2>1. Within(s.tap, q)
    BY <1>2, <1>9, SameWithin
  <2> QED  BY <1>4, <1>9, <2>1 DEF InAdvance
<1>12. ASSUME NEW e \in CallState, e.buf = Append(s.buf, q), e.tap = x.tap, e.reg = x.reg,
              e.owed = x.owed
       PROVE  \E h : Good(e, h, DownAfter(dn, r), now)
  <2>1. s.buf \in Seq(KeyRecord)
    BY DEF CallState
  <2>2. q.count > 0 => ~Has(s.buf, q.key)
    BY <1>6, <1>9
  <2>3. \A i : /\ Has(e.buf, i) <=> Has(s.buf, i) \/ i = k
               /\ Known(e.buf, i) <=> Known(s.buf, i) \/ (i = k /\ q.count > 0)
    BY <1>3, <1>9, <1>10, <1>12, <2>1, <2>2, MarksAppend
  <2>4. TapIs(e, g[0])
    BY <1>1, <1>7, <1>12 DEF TapIs
  <2>5. /\ \A i \in Keys : i # k => (Code(e, i) <=> Code(s, i)) /\ (Mods(e, i) <=> Mods(s, i))
        /\ Code(e, k) <=> ~hold
        /\ Mods(e, k) <=> hold
    <3>1. e.reg = s.reg \cup {<<k, IF hold THEN "mods" ELSE "code">>}
      BY <1>4, <1>8, <1>12
    <3>2. <<k, "code">> \notin s.reg /\ (~hold => <<k, "mods">> \notin s.reg)
      BY <1>5 DEF Code, Mods
    <3> HIDE DEF k, hold
    <3> QED  BY <3>1, <3>2 DEF Code, Mods
  <2>6. Told(e, g[0])
    <3> HIDE DEF hold, k
    <3> QED  BY <1>1, <1>3, <2>5 DEF Told
  <2>7. ASSUME NEW i \in Keys
        PROVE  Right(e, i)
    <3>1. CASE i # k
      <4>1. ~Live(e, i) /\ ~Live(s, i)
        BY <1>7, <1>12, <3>1 DEF Live
      <4>2. /\ Known(e.buf, i) <=> Known(s.buf, i)
            /\ Code(e, i) <=> Code(s, i)
            /\ Mods(e, i) <=> Mods(s, i)
        BY <2>3, <2>5, <3>1
      <4> QED  BY <1>3, <4>1, <4>2 DEF Right
    <3>2. CASE i = k /\ hold
      <4>1. e.tap.count = 0 /\ Mods(e, k) /\ ~Code(e, k) /\ Has(e.buf, k) /\ q.count = 0
            /\ ~Known(e.buf, k)
        BY <1>5, <1>7, <1>9, <1>12, <2>3, <2>5, <3>2
      <4>2. e.tap.interrupted /\ ~Set("ignore_mod_tap_interrupt") /\ Live(e, k)
        BY <1>7, <1>12, <3>2 DEF Live
      <4> QED  BY <3>2, <4>1, <4>2 DEF Right
    <3>3. CASE i = k /\ ~hold
      <4>1. e.tap.count = 1 /\ ~Mods(e, k) /\ q.count = 1 /\ Known(e.buf, k) /\ Live(e, k)
        BY <1>7, <1>9, <1>12, <2>3, <2>5, <3>3 DEF Live
      <4> QED  BY <3>3, <4>1 DEF Right
    <3> QED  BY <3>1, <3>2, <3>3
  <2>8. IsOpen(e) => IsOpen(s) /\ e.tap.time = s.tap.time
    BY <1>7, <1>12
  <2>9. ASSUME NEW i \in Keys
        PROVE  e.owed[i] - Pending(e, i) = s.owed[i] - Pending(s, i)
                             - IF i = q.key /\ InAdvance(s, q) THEN 1 ELSE 0
    <3>1. s.owed[i] \in Int
      BY DEF CallState
    <3>2. CASE i # k
      <4>1. Pending(e, i) = 0 /\ Pending(s, i) = 0
        BY <1>7, <1>12, <3>2 DEF Pending
      <4>2. e.owed[i] = s.owed[i]
        BY <1>4, <1>12, <3>2
      <4> QED  BY <1>9, <3>2, <3>1, <4>1, <4>2
    <3>3. CASE i = k
      <4>1. Pending(s, i) = 1
        BY <3>3 DEF Pending
      <4>2. Pending(e, i) = IF hold THEN 1 ELSE 0
        <5>1. IsOpen(e) <=> hold
          BY <1>1, <1>7, <1>12 DEF IsOpen
        <5>2. e.tap.key = i
          BY <1>7, <1>12, <3>3
        <5> HIDE DEF hold
        <5> QED  BY <5>1, <5>2 DEF Pending
      <4>3. e.owed[i] = s.owed[i] - 1
        BY <1>4, <1>12, <3>3
      <4>4. q.key = i
        BY <1>9, <3>3
      <4> HIDE DEF hold, k
      <4> QED  BY <1>11, <3>1, <4>1, <4>2, <4>3, <4>4
    <3> QED  BY <3>2, <3>3
  <2>10. Owing(s, q) /\ (q.pressed <=> q.key \notin dn) /\ q.time = now
    <3>1. InAdvance(s, q) <=> InAdvance(s, r)
      <4>1. Within(s.tap, q) <=> Within(s.tap, r)
        BY <1>2, <1>9, SameWithin
      <4> QED  BY <1>9, <4>1 DEF InAdvance
    <3>2. \A i \in Keys : Due(s, q, i) = Due(s, r, i)
      BY <1>9, <3>1 DEF Due
    <3> QED  BY <1>2, <1>9, <3>2 DEF Owing
  <2>11. q.pressed => q.count = 0 /\ ~q.interrupted
    BY <1>9
  <2>12. Ahead(e)
    <3> SUFFICES ASSUME IsOpen(e), e.tap.interrupted
                 PROVE  AheadIn(e.buf, k)
      BY <1>7, <1>12 DEF Ahead
    <3>1. s.tap.interrupted
      BY <1>4, <1>7, <1>12
    <3>2. AheadIn(s.buf, k)
      BY <1>2, <3>1 DEF Sound, Ahead
    <3> HIDE DEF k
    <3> QED  BY <1>10, <1>12, <2>1, <3>2, AheadAppend
  <2>13. DownAfter(dn, q) = DownAfter(dn, r)
    BY <1>9 DEF DownAfter
  <2>14. \E h : Good(e, h, DownAfter(dn, q), now)
    BY <1>2, <1>10, <1>12, <2>2, <2>4, <2>6, <2>7, <2>8, <2>9, <2>10, <2>11, <2>12, JoinsGood
  <2> QED  BY <2>13, <2>14
<1>13. Joins(s, x, q, DownAfter(dn, r), now)
  BY <1>12 DEF Joins
<1>14. ProcessTapping(s, r) = Waits(x, q)
  BY DEF x, q
<1> QED  BY <1>2, <1>4, <1>10, <1>13, <1>14, KeptLeads

(* Of a key that came to be up no record waits, if no press of it waits.   *)
LEMMA NoneWaits ==
  ASSUME NEW b \in Seq(KeyRecord), NEW g, NEW dn, Path(b, g, dn), NEW k, k \in dn,
         \A i \in 1 .. Len(b) : ~(b[i].key = k /\ b[i].pressed)
  PROVE  ~Has(b, k)
<1>0. Len(b) \in Nat
  OBVIOUS
<1>1. SUFFICES ASSUME Has(b, k)
               PROVE  FALSE
  OBVIOUS
<1> DEFINE T == {n \in Nat : \E j \in 1 .. Len(b) : b[j].key = k /\ n = Len(b) - j}
<1>2. PICK m \in 1 .. Len(b) : b[m].key = k
  BY <1>1 DEF Has
<1>3. Len(b) - m \in T
  BY <1>0, <1>2
<1>4. PICK n \in T : \A y \in T : n <= y
  BY <1>3, LeastNatural
<1>5. PICK j \in 1 .. Len(b) : b[j].key = k /\ n = Len(b) - j
  BY <1>4
<1>6. \A i \in j + 1 .. Len(b) : b[i].key # k
  <2> SUFFICES ASSUME NEW i \in j + 1 .. Len(b), b[i].key = k
               PROVE  FALSE
    OBVIOUS
  <2>1. i \in 1 .. Len(b) /\ Len(b) - i \in Nat
    BY <1>0, <1>5
  <2>2. Len(b) - i \in T
    BY <2>1
  <2>3. n <= Len(b) - i
    BY <1>4, <2>2
  <2> QED  BY <1>0, <1>5, <2>1, <2>3
<1>7. ~b[j].pressed
  BY <1>5
<1>8. g[j] = g[j - 1] \ {k} /\ g[Len(b)] = dn
  BY <1>5, <1>7 DEF Path
<1>9. j \in 0 .. Len(b) /\ Len(b) \in 0 .. Len(b) /\ j <= Len(b)
  BY <1>0
<1>10. k \in g[j] <=> k \in g[Len(b)]
  BY <1>6, <1>9, Steady
<1> QED  BY <1>8, <1>10

(* The release of a key pressed before the tapping key overtakes what      *)
(* waits, of which nothing is of this key.                                 *)
LEMMA OvertakesGood ==
  ASSUME Timing, NEW s \in CallState, NEW g, NEW dn \in SUBSET Keys, NEW now \in 0 .. Width - 1,
         NEW r \in KeyRecord, Comes(s, g, dn, now, r), Len(s.buf) < WAITING_BUFFER_SIZE,
         IsOpen(s), ~r.pressed, r.key # s.tap.key, Within(s.tap, r), ~Typed(s, r), ~Retained(r),
         ProcessTapping(s, r) = Consumed(Process(s, r), r)
  PROVE  Leads(Brought(s, r), DownAfter(dn, r), now)
<1> DEFINE k == r.key
           m == Process(s, r)
           h == [i \in 0 .. Len(s.buf) |-> g[i] \ {k}]
           b == s.buf
<1>1. /\ Sound(s, g, dn, now) /\ Owing(s, r) /\ r.time = now /\ r.count = 0
      /\ r.pressed <=> k \notin dn
  BY DEF Comes
<1>2. /\ r \in Record /\ k \in Keys /\ k # NoKey /\ b \in Seq(KeyRecord) /\ Len(b) \in Nat
  BY KeyRecords, Constants DEF KeyRecord, CallState
<1>3. keymap[k] # "mod_tap"
  BY <1>1, <1>2 DEF Retained, IsTap
<1>4. Role(r) = <<k, "code">>
  BY <1>3 DEF Role, IsTap
<1>5. /\ m \in CallState /\ m.tap = s.tap /\ m.buf = b /\ m.disturbed = s.disturbed
      /\ m.reg = s.reg \ {<<k, "code">>} /\ m.owed = s.owed
  BY <1>2, <1>4, ProcessEffect
<1>6. /\ Path(b, g, dn) /\ Marks(b) /\ TapIs(s, g[0]) /\ Told(s, g[0]) /\ Order(s, now)
      /\ \A i \in Keys : Right(s, i)
  BY <1>1 DEF Sound
<1>7. ~Has(b, k)
  <2>1. \A i \in 1 .. Len(b) : ~(b[i].key = k /\ b[i].pressed)
    BY <1>2 DEF Typed
  <2>2. k \in dn
    BY <1>1
  <2> HIDE DEF k, b
  <2> QED  BY <1>2, <1>6, <2>1, <2>2, NoneWaits
<1> HIDE DEF m
<1>8. Path(b, h, dn \ {k}) /\ h[0] = g[0] \ {k}
  <2>1. /\ g \in [0 .. Len(b) -> SUBSET Keys] /\ g[Len(b)] = dn
        /\ \A i \in 1 .. Len(b) :
             /\ b[i].pressed <=> b[i].key \notin g[i - 1]
             /\ g[i] = IF b[i].pressed THEN g[i - 1] \cup {b[i].key} ELSE g[i - 1] \ {b[i].key}
    BY <1>6 DEF Path
  <2>2. \A i \in 0 .. Len(b) : h[i] = g[i] \ {k} /\ h[i] \in SUBSET Keys
    BY <2>1
  <2>3. h \in [0 .. Len(b) -> SUBSET Keys] /\ h[Len(b)] = dn \ {k} /\ h[0] = g[0] \ {k}
    BY <1>2, <2>1, <2>2
  <2> HIDE DEF h, k, b
  <2>4. ASSUME NEW i \in 1 .. Len(b)
        PROVE  /\ b[i].pressed <=> b[i].key \notin h[i - 1]
               /\ h[i] = IF b[i].pressed THEN h[i - 1] \cup {b[i].key} ELSE h[i - 1] \ {b[i].key}
    <3>1. b[i].key # k
      BY <1>7 DEF Has
    <3>2. i \in 0 .. Len(b) /\ i - 1 \in 0 .. Len(b)
      BY <1>2
    <3>3. h[i] = g[i] \ {k} /\ h[i - 1] = g[i - 1] \ {k}
      BY <2>2, <3>2
    <3>4. /\ b[i].pressed <=> b[i].key \notin g[i - 1]
          /\ g[i] = IF b[i].pressed THEN g[i - 1] \cup {b[i].key} ELSE g[i - 1] \ {b[i].key}
      BY <2>1
    <3> QED  BY <3>1, <3>3, <3>4
  <2> QED  BY <2>3, <2>4 DEF Path
<1> HIDE DEF h
<1>9. TapIs(m, h[0])
  BY <1>5, <1>6, <1>8 DEF TapIs
<1>10. \A i \in Keys : /\ Code(m, i) <=> Code(s, i) /\ i # k
                       /\ Mods(m, i) <=> Mods(s, i)
  BY <1>5 DEF Code, Mods
<1>11. Told(m, h[0])
  BY <1>3, <1>6, <1>8, <1>10 DEF Told
<1>12. ASSUME NEW i \in Keys
       PROVE  Right(m, i)
  <2>1. CASE i = k
    BY <1>3, <2>1 DEF Right
  <2>2. CASE i # k
    <3>1. Ends(m) = Ends(s)
      BY <1>5 DEF Ends
    <3>2. (Live(m, i) <=> Live(s, i)) /\ (Code(m, i) <=> Code(s, i)) /\ (Mods(m, i) <=> Mods(s, i))
      BY <1>5, <1>10, <2>2 DEF Live
    <3> QED  BY <1>5, <1>6, <3>1, <3>2, RightKept
  <2> QED  BY <2>1, <2>2
<1>13. Order(m, now)
  BY <1>5, <1>6 DEF Order, IsOpen
<1>14. Owes(m)
  <2> SUFFICES ASSUME NEW i \in Keys
               PROVE  m.owed[i] = Presses(m.buf, i) + Pending(m, i)
    BY DEF Owes
  <2>1. Pending(m, i) = Pending(s, i)
    BY <1>5, <1>10 DEF Pending, IsOpen
  <2>2. s.owed[i] = Presses(s.buf, i) + Pending(s, i) + 0
    <3>1. Due(s, r, i) = 0
      BY DEF Due, InAdvance
    <3> QED  BY <1>1, <3>1 DEF Owing
  <2>3. Pending(s, i) \in Int /\ Presses(s.buf, i) \in Int
    BY <1>2, PendingTyped, PressesTyped
  <2> QED  BY <1>5, <2>1, <2>2, <2>3
<1>15. DownAfter(dn, r) = dn \ {k}
  BY DEF DownAfter
<1>16. Good(m, h, DownAfter(dn, r), now)
  <2>1. Ahead(m)
    BY <1>1, <1>5 DEF Ahead, IsOpen, Sound
  <2> QED  BY <1>5, <1>6, <1>8, <1>9, <1>11, <1>12, <1>13, <1>14, <1>15, <2>1 DEF Good, Sound
<1>17. Bounded(m, now)
  <2>1. IsOpen(m) /\ Within(m.tap, r) /\ Len(m.buf) < WAITING_BUFFER_SIZE
    BY <1>5 DEF IsOpen
  <2> QED  BY <1>1, <1>5, <1>13, <2>1, OpenBounded
<1>18. Brought(s, r) = m
  <2>1. Brought(s, r) = IF ProcessTapping(s, r).done THEN ProcessTapping(s, r).s
                        ELSE Enqueued(ProcessTapping(s, r).s, ProcessTapping(s, r).rec)
    BY DEF Brought
  <2> QED  BY <2>1 DEF Consumed, m
<1> QED  BY <1>16, <1>17, <1>18 DEF Leads

(* A key event while a decision is open.                                   *)
LEMMA OpenBrought ==
  ASSUME Timing, NEW s \in CallState, NEW g, NEW dn \in SUBSET Keys, NEW now \in 0 .. Width - 1,
         NEW r \in KeyRecord, Comes(s, g, dn, now, r), Weak(s, now),
         Len(s.buf) < WAITING_BUFFER_SIZE, IsOpen(s)
  PROVE  Leads(Brought(s, r), DownAfter(dn, r), now)
<1> DEFINE held == HeldOf(s)
           p    == ProcessTapping(s, r)
<1>1. r \in Input /\ r.key # NoKey /\ r.count = 0 /\ ~r.interrupted /\ r.time = now
  BY KeyRecords, Constants DEF KeyRecord, Comes
<1>2. p = IF ~Within(s.tap, r) THEN Waits(held, r)
          ELSE IF r.key = NoKey THEN Waits(s, r)
          ELSE IF r.pressed THEN Waits([s EXCEPT !.tap.interrupted = TRUE], r)
          ELSE IF r.key = s.tap.key THEN Waits(TapNow(s), Release(r, TapNow(s).tap))
          ELSE IF Nested(s, r) THEN Waits(held, r)
          ELSE IF Typed(s, r) \/ Retained(r) THEN Waits(s, r)
          ELSE Consumed(Process(s, r), r)
  BY <1>1, WhenOpen DEF HeldOf
<1>3. CASE ~Within(s.tap, r)
  <2>1. p = Waits(held, r)
    BY <1>2, <1>3
  <2> QED  BY <1>3, <2>1, HeldJoined
<1>4. CASE Within(s.tap, r) /\ r.pressed
  <2>1. PICK x \in CallState : /\ x = [s EXCEPT !.tap.interrupted = TRUE]
                               /\ x.buf = s.buf /\ x.reg = s.reg /\ x.owed = s.owed
                               /\ x.tap.key = s.tap.key /\ x.tap.pressed = s.tap.pressed
                               /\ x.tap.time = s.tap.time /\ x.tap.count = s.tap.count
                               /\ x.tap.interrupted = TRUE
    BY InterruptEffect
  <2>2. p = Waits(x, r)
    BY <1>1, <1>2, <1>4, <2>1
  <2>3. x.tap.interrupted
    BY <2>1
  <2> HIDE DEF p
  <2>4. ProcessTapping(s, r) = Waits(x, r)
    BY <2>2 DEF p
  <2>5. ASSUME ~s.tap.interrupted
        PROVE  r.key # s.tap.key /\ ~Has(s.buf, s.tap.key)
    <3> DEFINE k == s.tap.key
               b == s.buf
    <3>1. /\ k \in Keys /\ keymap[k] = "mod_tap" /\ k \in g[0] /\ Live(s, k) /\ s.tap.count = 0
          /\ Right(s, k) /\ Path(b, g, dn) /\ Sound(s, g, dn, now)
      BY Constants DEF IsOpen, CallState, Record, Comes, Sound, TapIs, Live
    <3>2. ~Mods(s, k)
      BY <2>5, <3>1 DEF Right
    <3>3. ~Has(b, k)
      BY <1>1, <1>4, <3>1, <3>2, FirstRelease DEF Timing
    <3>4. b \in Seq(KeyRecord) /\ Len(b) \in Nat
      BY DEF CallState
    <3> HIDE DEF k, b
    <3>5. 0 \in 0 .. Len(b) /\ Len(b) \in 0 .. Len(b) /\ 0 <= Len(b) /\ 0 + 1 = 1
      BY <3>4
    <3>6. \A m \in 0 + 1 .. Len(b) : b[m].key # k
      BY <3>3, <3>5 DEF Has
    <3>7. k \in g[Len(b)] /\ g[Len(b)] = dn
      BY <3>1, <3>4, <3>5, <3>6, Steady DEF Path
    <3>8. r.key # k
      BY <1>4, <3>7 DEF Comes
    <3> QED  BY <3>3, <3>8 DEF k, b
  <2> QED  BY <1>1, <1>4, <2>1, <2>3, <2>4, <2>5, PlainJoined
<1>5. CASE Within(s.tap, r) /\ ~r.pressed /\ r.key = s.tap.key
  <2>1. p = Waits(TapNow(s), Release(r, TapNow(s).tap))
    BY <1>1, <1>2, <1>5
  <2> QED  BY <1>5, <2>1, OwnJoined
<1>6. CASE Within(s.tap, r) /\ ~r.pressed /\ r.key # s.tap.key /\ Nested(s, r)
  <2>1. p = Waits(held, r)
    BY <1>1, <1>2, <1>6
  <2> QED  BY <1>6, <2>1, HeldJoined
<1>7. CASE /\ Within(s.tap, r) /\ ~r.pressed /\ r.key # s.tap.key /\ ~Nested(s, r)
           /\ Typed(s, r) \/ Retained(r)
  <2>1. ProcessTapping(s, r) = Waits(s, r)
    BY <1>1, <1>2, <1>7
  <2> QED  BY <1>1, <1>7, <2>1, PlainJoined
<1>8. CASE /\ Within(s.tap, r) /\ ~r.pressed /\ r.key # s.tap.key /\ ~Nested(s, r)
           /\ ~(Typed(s, r) \/ Retained(r))
  <2>1. ProcessTapping(s, r) = Consumed(Process(s, r), r)
    BY <1>1, <1>2, <1>8
  <2> QED  BY <1>8, <2>1, OvertakesGood
<1> QED  BY <1>3, <1>4, <1>5, <1>6, <1>7, <1>8

----------------------------------------------------------------------------
(* What holds between the calls, unless the order was disturbed.           *)
Calm ==
  ~disturbed => /\ \E g : Good(State, g, down, timer)
                /\ Bounded(State, timer) /\ Stopped(State)

CalmInv == Timely /\ TypeOK /\ Keyed /\ Calm

LEMMA StateTyped ==
  ASSUME TypeOK, Keyed
  PROVE  /\ State \in CallState /\ State.tap = tapping_key /\ State.buf = waiting_buffer
         /\ State.reg = registered /\ State.owed = owed /\ State.disturbed = disturbed
BY DEF TypeOK, Keyed, State, CallState

LEMMA TermsFit ==
  ASSUME Timely, TypeOK
  PROVE  Timing
<1>1. QS.tapping_term \in Terms /\ Terms \subseteq 0 .. Width - 1
  BY Constants DEF TypeOK
<1>2. QS.tapping_term + MaxGap * WAITING_BUFFER_SIZE <= Limit
  BY <1>1 DEF Timely
<1>3. Limit \in Int
  BY Constants DEF Limit
<1>4. QS.tapping_term \in Nat
  <2>1. QS.tapping_term \in 0 .. Width - 1 /\ Width \in Nat
    BY <1>1, Constants
  <2> DEFINE t == QS.tapping_term
  <2> HIDE DEF t
  <2>2. t \in 0 .. Width - 1 /\ Width \in Nat
    BY <2>1 DEF t
  <2>3. t \in Nat
    BY <2>2
  <2> QED  BY <2>3 DEF t
<1> QED  BY <1>2, <1>3, <1>4 DEF Timing

(* The timer goes on by no more than MaxGap, and nothing else changes.     *)
LEMMA ClockGood ==
  ASSUME NEW s \in CallState, NEW g, NEW dn, NEW now \in 0 .. Width - 1, Good(s, g, dn, now),
         Bounded(s, now), NEW d \in 0 .. MaxGap, NEW now2, now2 = (now + d) % Width
  PROVE  Good(s, g, dn, now2) /\ Weak(s, now2) /\ now2 \in 0 .. Width - 1
<1>1. /\ MaxGap \in Nat /\ Width \in Nat \ {0} /\ d \in Nat /\ d <= MaxGap
      /\ Limit = Width - 1 - MaxGap
  BY Constants DEF Limit
<1>2. now2 \in 0 .. Width - 1
  <2> DEFINE x == now + d
  <2>1. x \in Nat
    BY <1>1
  <2> HIDE DEF x
  <2>2. x % Width \in 0 .. Width - 1
    BY <1>1, <2>1
  <2> QED  BY <2>2 DEF x
<1>3. ASSUME NEW t \in 0 .. Width - 1, NEW e \in Nat, Age(t, now) \in Nat, Age(t, now) + e <= Limit
      PROVE  Age(t, now2) = Age(t, now) + d
  <2> DEFINE a == Age(t, now)
  <2> HIDE DEF a
  <2>1. a \in Nat /\ a + e <= Width - 1 - MaxGap
    BY <1>1, <1>3 DEF a
  <2>2. a + d < Width
    BY <1>1, <2>1
  <2> QED  BY <1>1, <2>2, Aged DEF a
<1>4. /\ \A i \in 1 .. Len(s.buf) : /\ Age(s.buf[i].time, now) \in Nat
                                    /\ s.buf[i].time \in 0 .. Width - 1
      /\ Age(s.tap.time, now) \in Nat /\ s.tap.time \in 0 .. Width - 1 /\ Len(s.buf) \in Nat
  BY AgesTyped, EndsWait
<1>5. ASSUME NEW i \in 1 .. Len(s.buf)
      PROVE  /\ Age(s.buf[i].time, now2) = Age(s.buf[i].time, now) + d
             /\ Age(s.buf[i].time, now2) + MaxGap * (i - 1) <= Limit
  <2>1. Age(s.buf[i].time, now) + MaxGap * i <= Limit
    BY DEF Bounded
  <2>2. MaxGap * i \in Nat /\ MaxGap * i = MaxGap * (i - 1) + MaxGap /\ MaxGap * (i - 1) \in Nat
    <3>1. \A m, n \in Nat : n >= 1 =>
             m * n \in Nat /\ m * n = m * (n - 1) + m /\ m * (n - 1) \in Nat
      OBVIOUS
    <3>2. i \in Nat /\ i >= 1
      BY <1>4
    <3> QED  BY <1>1, <3>1, <3>2
  <2>3. Age(s.buf[i].time, now2) = Age(s.buf[i].time, now) + d
    BY <1>3, <1>4, <2>1, <2>2
  <2> DEFINE a == Age(s.buf[i].time, now)
             x == MaxGap * i
             y == MaxGap * (i - 1)
  <2>4. a \in Nat
    BY <1>4
  <2> HIDE DEF a, x, y
  <2>6. a + x <= Limit /\ x = y + MaxGap /\ x \in Nat /\ y \in Nat
    BY <2>1, <2>2 DEF a, x, y
  <2>5. a + d + y <= Limit
    BY <1>1, <2>4, <2>6
  <2> QED  BY <2>3, <2>5 DEF a, y
<1>6. IsOpen(s) => Age(s.tap.time, now2) = Age(s.tap.time, now) + d
  <2> SUFFICES ASSUME IsOpen(s)
               PROVE  Age(s.tap.time, now2) = Age(s.tap.time, now) + d
    OBVIOUS
  <2>1. Age(s.tap.time, now) <= Limit
    BY DEF Bounded
  <2>2. Age(s.tap.time, now) + 0 <= Limit /\ 0 \in Nat
    BY <1>4, <2>1
  <2> QED  BY <1>3, <1>4, <2>2
<1>7. Order(s, now2)
  <2>1. Order(s, now)
    BY DEF Good, Sound
  <2>2. ASSUME NEW i \in 1 .. Len(s.buf), NEW j \in 1 .. Len(s.buf), i <= j
        PROVE  Age(s.buf[j].time, now2) <= Age(s.buf[i].time, now2)
    <3>1. Age(s.buf[j].time, now) <= Age(s.buf[i].time, now)
      BY <2>1, <2>2 DEF Order
    <3>2. /\ Age(s.buf[i].time, now2) = Age(s.buf[i].time, now) + d
          /\ Age(s.buf[j].time, now2) = Age(s.buf[j].time, now) + d
      BY <1>5
    <3>3. Age(s.buf[i].time, now) \in Nat /\ Age(s.buf[j].time, now) \in Nat
      BY <1>4
    <3>4. \A x, y \in Nat : x <= y => x + d <= y + d
      BY <1>1
    <3> QED  BY <3>1, <3>2, <3>3, <3>4
  <2>3. ASSUME IsOpen(s), NEW i \in 1 .. Len(s.buf)
        PROVE  Age(s.buf[i].time, now2) <= Age(s.tap.time, now2)
    <3>1. Age(s.buf[i].time, now) <= Age(s.tap.time, now)
      BY <2>1, <2>3 DEF Order
    <3>2. /\ Age(s.buf[i].time, now2) = Age(s.buf[i].time, now) + d
          /\ Age(s.tap.time, now2) = Age(s.tap.time, now) + d
      BY <1>5, <1>6, <2>3
    <3>3. Age(s.buf[i].time, now) \in Nat /\ Age(s.tap.time, now) \in Nat
      BY <1>4
    <3>4. \A x, y \in Nat : x <= y => x + d <= y + d
      BY <1>1
    <3> QED  BY <3>1, <3>2, <3>3, <3>4
  <2> QED  BY <2>2, <2>3 DEF Order
<1>8. Weak(s, now2)
  BY <1>5 DEF Weak
<1> QED  BY <1>2, <1>7, <1>8 DEF Good, Sound

(* What holds of the state that a call leaves holds of the variables.      *)
LEMMA RestNext ==
  ASSUME NEW a, (State.tap)' = a.tap, (State.buf)' = a.buf, (State.reg)' = a.reg,
         (State.owed)' = a.owed, keymap' = keymap, NEW g, Good(a, g, down', timer'),
         (\A k \in Keys : Right(State, k))'
  PROVE  Good(State, g, down, timer)'
<1>1. Path(State.buf, g, down)' /\ Marks(State.buf)'
  <2>1. Path(a.buf, g, down') /\ Marks(a.buf)
    BY DEF Good, Sound
  <2> QED  BY <2>1
<1>2. TapIs(State, g[0])' /\ Told(State, g[0])'
  BY DEF Good, Sound, TapIs, Told, Code, Mods
<1>3. Order(State, timer)' /\ Ahead(State)'
  BY DEF Good, Sound, Order, Age, IsOpen, Ahead, AheadIn
<1>4. Owes(State)'
  <2>1. \A k \in Keys : a.owed[k] = Presses(a.buf, k) + Pending(a, k)
    BY DEF Good, Owes
  <2> SUFFICES ASSUME NEW k \in Keys
               PROVE  (State.owed[k] = Presses(State.buf, k) + Pending(State, k))'
    BY DEF Owes
  <2>2. Presses(State.buf, k)' = Presses(a.buf, k)
    OBVIOUS
  <2>3. Pending(State, k)' = Pending(a, k)
    BY DEF Pending, IsOpen, Mods
  <2> QED  BY <2>1, <2>2, <2>3
<1> QED  BY <1>1, <1>2, <1>3, <1>4 DEF Good, Sound

LEMMA GoodNext ==
  ASSUME NEW a \in CallState, tapping_key' = a.tap, waiting_buffer' = a.buf,
         registered' = a.reg, owed' = a.owed, keymap' = keymap,
         QS' = QS, NEW g, Good(a, g, down', timer')
  PROVE  Good(State, g, down, timer)'
<1>1. /\ (State.tap)' = a.tap /\ (State.buf)' = a.buf /\ (State.reg)' = a.reg
      /\ (State.owed)' = a.owed
  BY DEF State
<1>2. (\A k \in Keys : Right(State, k))'
  BY <1>1 DEF Good, Sound, Right, Live, Code, Mods, Known, Has, Ends, Within, Set
<1> QED  BY <1>1, <1>2, RestNext

LEMMA CalmInit ==
  ASSUME TypeOK, Keyed, Init
  PROVE  Calm
<1>1. /\ State \in CallState /\ State.buf = <<>> /\ State.tap = None /\ State.reg = {}
      /\ State.owed = NoOnes
  BY StateTyped DEF Init
<1>2. down \in SUBSET Keys
  BY DEF TypeOK
<1>3. (\E g : Good(State, g, down, timer)) /\ Bounded(State, timer)
  BY <1>1, <1>2, ClearedGood DEF NoOnes
<1>4. Stopped(State)
  BY <1>1 DEF Stopped
<1> QED  BY <1>3, <1>4 DEF Calm

(* What the loop leaves.                                                   *)
LEMMA CalmCall ==
  ASSUME TypeOK, Keyed, NEW r \in Input, ActionTapping(r), QS' = QS, keymap' = keymap,
         timer' \in 0 .. Width - 1, QS.tapping_term \in Nat,
         NEW m \in CallState, m = Met(r), Leads(m, down', timer')
  PROVE  Calm'
<1>1. PICK a \in CallState : /\ a = Drained(Met(r)) /\ Len(a.buf) < WAITING_BUFFER_SIZE
                             /\ tapping_key' = a.tap /\ waiting_buffer' = a.buf
                             /\ registered' = a.reg /\ disturbed' = a.disturbed
                             /\ owed' = IF a.disturbed THEN NoOnes ELSE a.owed
  BY CallTyped
<1>2. SUFFICES ASSUME ~disturbed'
               PROVE  ((\E g : Good(State, g, down, timer))
                       /\ Bounded(State, timer) /\ Stopped(State))'
  BY DEF Calm
<1>3. ~a.disturbed /\ owed' = a.owed
  BY <1>1, <1>2
<1>4. \/ a.disturbed
      \/ (\E h : Good(a, h, down', timer')) /\ Bounded(a, timer') /\ Stopped(a)
  <2> DEFINE dn == down'
             now == timer'
  <2>1. /\ Leads(m, dn, now) /\ now \in 0 .. Width - 1 /\ a = Drained(m)
    BY <1>1
  <2> HIDE DEF dn, now
  <2>2. \/ m.disturbed
        \/ (\E g : Good(m, g, dn, now)) /\ (Bounded(m, now) \/ Ready(m, now))
    BY <2>1 DEF Leads
  <2>3. \/ Drained(m).disturbed
        \/ /\ \E h : Good(Drained(m), h, dn, now)
           /\ Bounded(Drained(m), now) /\ Stopped(Drained(m))
    BY <2>1, <2>2, DrainedGood
  <2> QED  BY <2>1, <2>3 DEF dn, now
<1>5. PICK h : Good(a, h, down', timer')
  BY <1>3, <1>4
<1>6. Good(State, h, down, timer)'
  BY <1>1, <1>3, <1>5, GoodNext
<1>7. Bounded(State, timer)' /\ Stopped(State)'
  BY <1>1, <1>3, <1>4 DEF Bounded, Stopped, State, IsOpen, Age
<1> QED  BY <1>6, <1>7

(* The state at the beginning of the call, when the timer has gone on.     *)
LEMMA BeganGood ==
  ASSUME TypeOK, Keyed, NEW r \in Input, NEW g, NEW dn, NEW now, Good(State, g, dn, now),
         Weak(State, now), Stopped(State)
  PROVE  /\ Sound(Began(r), g, dn, now) /\ Owing(Began(r), r) /\ Weak(Began(r), now)
         /\ Stopped(Began(r))
         /\ r.key = NoKey => Good(Began(r), g, dn, now)
<1> DEFINE z == State
           s == Began(r)
<1>1. /\ z \in CallState /\ z.tap = tapping_key /\ z.buf = waiting_buffer
      /\ z.reg = registered /\ z.owed = owed
  BY StateTyped
<1>2. /\ s \in CallState /\ s.tap = tapping_key /\ s.buf = waiting_buffer /\ s.reg = registered
      /\ \A k \in Keys : s.owed[k] = owed[k] + Due(z, r, k)
  BY BeganTyped
<1> HIDE DEF z, s
<1>3. s.tap = z.tap /\ s.buf = z.buf /\ s.reg = z.reg
  BY <1>1, <1>2
<1>4. Good(z, g, dn, now) /\ Weak(z, now) /\ Stopped(z)
  BY DEF z
<1>5. Sound(s, g, dn, now)
  <2>1. TapIs(s, g[0]) /\ Told(s, g[0]) /\ Order(s, now) /\ Ahead(s)
    BY <1>3, <1>4 DEF Good, Sound, TapIs, Told, Order, Code, Mods, IsOpen, Ahead
  <2>2. \A k \in Keys : Right(s, k)
    BY <1>3, <1>4 DEF Good, Sound, Right, Live, Code, Mods, Ends
  <2>3. Path(s.buf, g, dn) /\ Marks(s.buf)
    BY <1>3, <1>4 DEF Good, Sound
  <2> QED  BY <2>1, <2>2, <2>3 DEF Sound
<1>6. \A k \in Keys : Pending(s, k) = Pending(z, k)
  BY <1>3 DEF Pending, IsOpen, Mods
<1>7. Owing(s, r)
  <2>1. \A k \in Keys : Due(s, r, k) = Due(z, r, k)
    BY <1>3 DEF Due, InAdvance, IsOpen
  <2> QED  BY <1>1, <1>2, <1>3, <1>4, <1>6, <2>1 DEF Owing, Good, Owes
<1>8. Weak(s, now) /\ Stopped(s)
  BY <1>3, <1>4 DEF Weak, Stopped
<1>9. r.key = NoKey => Owes(s)
  <2> SUFFICES ASSUME r.key = NoKey, NEW k \in Keys
               PROVE  s.owed[k] = Presses(s.buf, k) + Pending(s, k)
    BY DEF Owes
  <2>1. s.owed[k] = z.owed[k] + 0 /\ z.owed[k] \in Int
    <3>1. Due(z, r, k) = 0
      BY Constants DEF Due
    <3> QED  BY <1>1, <1>2, <3>1 DEF CallState
  <2>2. z.owed[k] = Presses(z.buf, k) + Pending(z, k)
    BY <1>4 DEF Good, Owes
  <2> QED  BY <1>3, <1>6, <2>1, <2>2
<1> QED  BY <1>5, <1>7, <1>8, <1>9 DEF Good, s

LEMMA CalmTick ==
  ASSUME CalmInv, NEW d \in 1 .. MaxGap, Tick(d)
  PROVE  Calm'
<1> DEFINE r   == Event(NoKey, FALSE, timer')
           s   == Began(r)
           now == timer'
<1>1. TypeOK /\ Keyed /\ Timing /\ QS.tapping_term \in Nat
  BY TermsFit DEF CalmInv, Timing
<1>2. /\ keymap' = keymap /\ QS' = QS /\ down' = down /\ now = (timer + d) % Width
      /\ ActionTapping(r) /\ timer \in 0 .. Width - 1 /\ d \in 0 .. MaxGap /\ d \in Nat
  <2>1. d \in 0 .. MaxGap /\ d \in Nat
    BY Constants
  <2>2. timer \in 0 .. Width - 1
    BY <1>1 DEF TypeOK
  <2> QED  BY <2>1, <2>2 DEF Tick, Quiet, Clock
<1>3. now \in 0 .. Width - 1
  BY <1>1, <1>2, ClockTyped DEF Clock
<1>4. r \in Input /\ r.key = NoKey /\ r.time = now /\ ~r.pressed
  BY <1>3, EventTyped DEF Input
<1> HIDE DEF r, now
<1>5. /\ s \in CallState /\ s.buf = waiting_buffer /\ s.disturbed = disturbed
  <2>1. /\ s \in CallState /\ s.buf = waiting_buffer
        /\ s.disturbed = (disturbed \/ (r.key # NoKey /\ waiting_buffer # <<>> /\ ~Open))
    BY <1>1, <1>4, BeganTyped
  <2>2. disturbed \in BOOLEAN
    BY <1>1 DEF TypeOK
  <2> HIDE DEF s
  <2> QED  BY <1>4, <2>1, <2>2
<1>6. Met(r) = Brought(s, r)
  BY DEF Met, Brought
<1> HIDE DEF s
<1>7. Fits(s, r, ProcessTapping(s, r))
  BY <1>4, <1>5, ResultFits
<1>8. Brought(s, r) = ProcessTapping(s, r).s
  <2> DEFINE p == ProcessTapping(s, r)
  <2>1. Brought(s, r) = IF p.done THEN p.s ELSE Enqueued(p.s, p.rec)
    BY DEF Brought
  <2>2. Fits(s, r, p)
    BY <1>7
  <2> HIDE DEF p
  <2>3. p.s \in CallState /\ p.rec \in Input /\ p.rec.key = NoKey
    BY <1>4, <2>2 DEF Fits
  <2> QED  BY <2>1, <2>3, EnqueuedEffect DEF p
<1>9. Leads(Brought(s, r), down', now)
  <2>1. CASE disturbed
    BY <1>5, <1>7, <1>8, <2>1 DEF Fits, Leads
  <2>2. CASE ~disturbed
    <3>1. Bounded(State, timer) /\ Stopped(State) /\ State \in CallState
      BY <1>1, <2>2, StateTyped DEF CalmInv, Calm
    <3>2. PICK g : Good(State, g, down, timer)
      BY <2>2 DEF CalmInv, Calm
    <3>3. Good(State, g, down, now) /\ Weak(State, now)
      BY <1>2, <3>1, <3>2, ClockGood
    <3>4. Good(s, g, down, now) /\ Weak(s, now) /\ Stopped(s)
      BY <1>1, <1>4, <3>1, <3>3, BeganGood DEF s
    <3>5. Len(s.buf) < WAITING_BUFFER_SIZE
      BY <1>1, <1>5 DEF TypeOK
    <3>6. Leads(Brought(s, r), down, now)
      BY <1>1, <1>3, <1>4, <1>5, <3>4, <3>5, TickBrought
    <3> QED  BY <1>2, <3>6
  <2> QED  BY <2>1, <2>2
<1>10. Brought(s, r) \in CallState
  BY <1>7, <1>8 DEF Fits
<1> QED  BY <1>1, <1>2, <1>3, <1>4, <1>6, <1>9, <1>10, CalmCall DEF now
LEMMA CalmChange ==
  ASSUME CalmInv, NEW k \in Keys, NEW d \in 0 .. MaxGap, Change(k, d)
  PROVE  Calm'
<1> DEFINE r   == Event(k, k \notin down, timer')
           s   == Began(r)
           now == timer'
<1>1. TypeOK /\ Keyed /\ Timing /\ QS.tapping_term \in Nat
  BY TermsFit DEF CalmInv, Timing
<1>2. /\ keymap' = keymap /\ QS' = QS /\ now = (timer + d) % Width
      /\ down' = (IF k \in down THEN down \ {k} ELSE down \cup {k})
      /\ ActionTapping(r) /\ timer \in 0 .. Width - 1 /\ d \in Nat /\ down \in SUBSET Keys
  <2>1. d \in Nat
    BY Constants
  <2>2. timer \in 0 .. Width - 1 /\ down \in SUBSET Keys
    BY <1>1 DEF TypeOK
  <2> QED  BY <2>1, <2>2 DEF Change, Clock
<1>3. now \in 0 .. Width - 1
  BY <1>1, <1>2, ClockTyped DEF Clock
<1>4. /\ r \in Record /\ r.key = k /\ r.time = now /\ (r.pressed <=> k \notin down)
      /\ r.count = 0 /\ ~r.interrupted /\ k # NoKey
  <2> DEFINE b == k \notin down
  <2>1. b \in BOOLEAN /\ k \in Keys \cup {NoKey} /\ k # NoKey
    BY Constants
  <2> HIDE DEF b, now
  <2>2. /\ Event(k, b, now) \in Record /\ Event(k, b, now).key = k
        /\ Event(k, b, now).pressed = b /\ Event(k, b, now).time = now
        /\ Event(k, b, now).count = 0 /\ Event(k, b, now).interrupted = FALSE
    BY <1>3, <2>1, OneIsCount DEF Event, Record
  <2>3. r = Event(k, b, now)
    BY DEF b, now
  <2> HIDE DEF r
  <2>4. (r.pressed <=> b) /\ ~r.interrupted
    BY <2>2, <2>3
  <2> QED  BY <2>1, <2>2, <2>3, <2>4 DEF b
<1> HIDE DEF r, now
<1>5. r \in KeyRecord /\ r \in Input
  BY <1>4 DEF Record, KeyRecord, Input
<1>6. down' = DownAfter(down, r)
  BY <1>2, <1>4 DEF DownAfter
<1>7. /\ s \in CallState /\ s.tap = tapping_key /\ s.buf = waiting_buffer
      /\ (s.disturbed <=> disturbed \/ (waiting_buffer # <<>> /\ ~Open))
  BY <1>1, <1>4, <1>5, BeganTyped
<1>8. Met(r) = Brought(s, r)
  BY DEF Met, Brought
<1> HIDE DEF s
<1>9. /\ Brought(s, r) \in CallState
      /\ s.disturbed => Brought(s, r).disturbed
  <2> DEFINE p == ProcessTapping(s, r)
  <2>1. Brought(s, r) = IF p.done THEN p.s ELSE Enqueued(p.s, p.rec)
    BY DEF Brought
  <2>2. Fits(s, r, p)
    BY <1>5, <1>7, ResultFits
  <2> HIDE DEF p
  <2>3. p.s \in CallState /\ p.rec \in Input /\ (s.disturbed => p.s.disturbed)
    BY <2>2 DEF Fits
  <2>4. Enqueued(p.s, p.rec) \in CallState /\ Enqueued(p.s, p.rec).disturbed = p.s.disturbed
    BY <2>3, EnqueuedEffect
  <2> QED  BY <2>1, <2>3, <2>4
<1>10. Leads(Brought(s, r), down', now)
  <2>1. CASE s.disturbed
    BY <1>9, <2>1 DEF Leads
  <2>2. CASE ~s.disturbed
    <3>1. ~disturbed /\ (waiting_buffer = <<>> \/ Open)
      BY <1>7, <2>2
    <3>2. Bounded(State, timer) /\ Stopped(State) /\ State \in CallState
      BY <1>1, <3>1, StateTyped DEF CalmInv, Calm
    <3>3. PICK g : Good(State, g, down, timer)
      BY <3>1 DEF CalmInv, Calm
    <3>4. Good(State, g, down, now) /\ Weak(State, now)
      BY <1>2, <3>2, <3>3, ClockGood
    <3>5. Sound(s, g, down, now) /\ Owing(s, r) /\ Weak(s, now) /\ Stopped(s)
      BY <1>1, <1>5, <3>2, <3>4, BeganGood DEF s
    <3>6. Comes(s, g, down, now, r)
      BY <1>4, <3>5 DEF Comes
    <3>7. Len(s.buf) < WAITING_BUFFER_SIZE
      BY <1>1, <1>7 DEF TypeOK
    <3>8. CASE IsOpen(s)
      <4>1. Leads(Brought(s, r), DownAfter(down, r), now)
        BY <1>1, <1>2, <1>3, <1>5, <1>7, <3>5, <3>6, <3>7, <3>8, OpenBrought
      <4> QED  BY <1>6, <4>1
    <3>9. CASE ~IsOpen(s)
      <4>1. s.buf = <<>>
        BY <1>7, <3>1, <3>9 DEF Open, IsOpen, State
      <4>2. Leads(Brought(s, r), DownAfter(down, r), now)
        BY <1>1, <1>2, <1>3, <1>5, <1>7, <3>6, <3>9, <4>1, EmptyBrought
      <4> QED  BY <1>6, <4>2
    <3> QED  BY <3>8, <3>9
  <2> QED  BY <2>1, <2>2
<1> QED  BY <1>1, <1>2, <1>3, <1>5, <1>8, <1>9, <1>10, CalmCall DEF now

(* Only what an open decision promises depends on the settings, and with   *)
(* no record waiting it promises nothing that they could change.           *)
LEMMA CalmSettings ==
  ASSUME CalmInv, NEW tapping \in Tappings, NEW term \in Terms, SetTapping(tapping, term)
  PROVE  Calm'
<1>1. /\ UNCHANGED <<keymap, timer, down, tapping_key, waiting_buffer, registered, owed>>
      /\ disturbed' = (disturbed \/ (waiting_buffer # <<>> /\ QS' # QS))
  BY DEF SetTapping
<1>2. SUFFICES ASSUME ~disturbed'
               PROVE  ((\E g : Good(State, g, down, timer))
                       /\ Bounded(State, timer) /\ Stopped(State))'
  BY DEF Calm
<1>3. ~disturbed /\ (waiting_buffer = <<>> \/ QS' = QS)
  BY <1>1, <1>2
<1>4. TypeOK /\ Keyed /\ Bounded(State, timer) /\ Stopped(State)
  BY <1>3 DEF CalmInv, Calm
<1>5. PICK g : Good(State, g, down, timer)
  BY <1>3 DEF CalmInv, Calm
<1> DEFINE a == State
           z == State'
<1>6. /\ a \in CallState /\ a.tap = tapping_key /\ a.buf = waiting_buffer
      /\ a.reg = registered /\ a.owed = owed
  BY <1>4, StateTyped
<1>7. z.tap = a.tap /\ z.buf = a.buf /\ z.reg = a.reg /\ z.owed = a.owed
  BY <1>1 DEF State
<1>8. Bounded(State, timer)' /\ Stopped(State)'
  BY <1>1, <1>4, <1>7 DEF Bounded, Stopped, IsOpen
<1>9. CASE QS' = QS
  <2>1. Good(a, g, down', timer')
    BY <1>1, <1>5
  <2> HIDE DEF a
  <2>2. Good(State, g, down, timer)'
    BY <1>1, <1>6, <1>9, <2>1, GoodNext
  <2> QED  BY <1>8, <2>2
<1>10. CASE waiting_buffer = <<>>
  <2>1. a.buf = <<>> /\ Good(a, g, down', timer')
    BY <1>1, <1>5, <1>6, <1>10
  <2>2. z.buf = <<>> /\ 1 .. Len(z.buf) = {} /\ DOMAIN z.buf = {}
    BY <1>7, <2>1
  <2> HIDE DEF a
  <2>3. (\A k \in Keys : Right(State, k))'
    <3>1. \A k \in Keys : Right(a, k)
      BY <2>1 DEF Good, Sound
    <3>2. \A k : ~Has(a.buf, k) /\ ~Known(a.buf, k)
      BY <2>1 DEF Has, Known
    <3> SUFFICES ASSUME NEW k \in Keys
                 PROVE  Right(State, k)'
      OBVIOUS
    <3>3. Right(a, k) /\ ~Has(a.buf, k) /\ ~Known(a.buf, k)
      BY <3>1, <3>2
    <3> QED  BY <1>1, <1>7, <2>2, <3>3 DEF Right, Live, Code, Mods, Known, Has, Ends
  <2>4. Good(State, g, down, timer)'
    BY <1>1, <1>7, <2>1, <2>3, RestNext
  <2> QED  BY <1>8, <2>4
<1> QED  BY <1>3, <1>9, <1>10

LEMMA CalmStutter ==
  ASSUME CalmInv, UNCHANGED vars
  PROVE  Calm'
<1>1. UNCHANGED <<keymap, QS, timer, down, tapping_key, waiting_buffer, registered,
                  owed, disturbed>>
  BY DEF vars
<1>2. SUFFICES ASSUME ~disturbed'
               PROVE  ((\E g : Good(State, g, down, timer))
                       /\ Bounded(State, timer) /\ Stopped(State))'
  BY DEF Calm
<1>3. TypeOK /\ Keyed /\ Bounded(State, timer) /\ Stopped(State)
  BY <1>1, <1>2 DEF CalmInv, Calm
<1>4. PICK g : Good(State, g, down, timer)
  BY <1>1, <1>2 DEF CalmInv, Calm
<1> DEFINE a == State
<1>5. /\ a \in CallState /\ a.tap = tapping_key /\ a.buf = waiting_buffer
      /\ a.reg = registered /\ a.owed = owed
  BY <1>3, StateTyped
<1>6. State' = a
  BY <1>1 DEF State
<1>7. Bounded(State, timer)' /\ Stopped(State)'
  BY <1>1, <1>3, <1>6 DEF Bounded, Stopped, IsOpen
<1>8. Good(a, g, down', timer')
  BY <1>1, <1>4
<1> HIDE DEF a
<1>9. Good(State, g, down, timer)'
  BY <1>1, <1>5, <1>8, GoodNext
<1> QED  BY <1>7, <1>9

LEMMA CalmStep == CalmInv /\ [Next]_vars => CalmInv'
<1> SUFFICES ASSUME CalmInv, [Next]_vars
             PROVE  CalmInv'
  OBVIOUS
<1>1. (TypeOK /\ Keyed)'
  BY TypeStep DEF CalmInv
<1>2. Timely'
  BY DEF CalmInv, Timely, Limit
<1>3. Calm'
  <2>1. ASSUME NEW k \in Keys, NEW d \in 0 .. MaxGap, Change(k, d)
        PROVE  Calm'
    BY <2>1, CalmChange
  <2>2. ASSUME NEW d \in 1 .. MaxGap, Tick(d)
        PROVE  Calm'
    BY <2>2, CalmTick
  <2>3. ASSUME NEW tapping \in Tappings, NEW term \in Terms, SetTapping(tapping, term)
        PROVE  Calm'
    BY <2>3, CalmSettings
  <2>4. CASE UNCHANGED vars
    BY <2>4, CalmStutter
  <2> QED  BY <2>1, <2>2, <2>3, <2>4 DEF Next
<1> QED  BY <1>1, <1>2, <1>3 DEF CalmInv

LEMMA AlwaysCalm == Timely => (Spec => []CalmInv)
<1>1. Timely /\ Init => CalmInv
  BY TypeInit, CalmInit DEF CalmInv
<1> QED  BY <1>1, CalmStep, PTL DEF Spec

(* Tap and hold leaves no key registered that is up, once no record waits, *)
(* unless the order was disturbed: for any keys, keymaps and settings and  *)
(* any size of the buffer, if the timer is wide enough for the terms and   *)
(* for the pace of the main loop (process_tapping, action_tapping_process).*)
THEOREM NoneStaysStuck == Timely => (Spec => []StuckOnlyIfDisturbed)
<1>1. CalmInv => StuckOnlyIfDisturbed
  <2> SUFFICES ASSUME CalmInv, ~disturbed, waiting_buffer = <<>>, NEW role \in registered
               PROVE  role[1] \in down
    BY DEF StuckOnlyIfDisturbed, NoneStuck
  <2>1. TypeOK /\ Keyed
    BY DEF CalmInv
  <2>2. PICK g : Good(State, g, down, timer)
    BY DEF CalmInv, Calm
  <2>3. State.buf = <<>> /\ State.reg = registered
    BY <2>1, StateTyped
  <2>4. g[0] = down
    BY <2>2, <2>3 DEF Good, Sound, Path
  <2>5. role \in Keys \X {"code", "mods"}
    BY <2>1 DEF TypeOK
  <2>6. PICK k \in Keys, w \in {"code", "mods"} : role = <<k, w>>
    BY <2>5
  <2>7. Code(State, k) \/ Mods(State, k)
    BY <2>3, <2>6 DEF Code, Mods
  <2>8. k \in down
    BY <2>2, <2>4, <2>7 DEF Good, Sound, Told
  <2> QED  BY <2>6, <2>8
<1> QED  BY <1>1, AlwaysCalm, PTL

(* Under the same conditions no press gets lost in the buffer and none is  *)
(* taken from it twice (action_tapping_process, waiting_buffer_enq,        *)
(* process_record): those owed are those that wait.  A press is owed once, *)
(* and once more for each release that passes it on in advance; those      *)
(* dropped when a full buffer is cleared are no longer owed.               *)
THEOREM EachPassedOnce == Timely => (Spec => []EachPressOnce)
<1>1. CalmInv => EachPressOnce
  <2> SUFFICES ASSUME CalmInv, ~disturbed, NEW k \in Keys
               PROVE  owed[k] = Waiting(State, k)
    BY DEF EachPressOnce
  <2>1. TypeOK /\ Keyed
    BY DEF CalmInv
  <2>2. PICK g : Good(State, g, down, timer)
    BY DEF CalmInv, Calm
  <2>3. State.owed = owed
    BY <2>1, StateTyped
  <2>4. State.owed[k] = Presses(State.buf, k) + Pending(State, k)
    BY <2>2 DEF Good, Owes
  <2> QED  BY <2>3, <2>4 DEF Waiting
<1> QED  BY <1>1, AlwaysCalm, PTL
=============================================================================
