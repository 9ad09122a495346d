------------------------- MODULE UserDataLog_proofs -------------------------
(***************************************************************************)
(* Proofs about the settings log, for every sector size, record size and   *)
(* set of values.                                                          *)
(***************************************************************************)
EXTENDS UserDataLog, TLAPS

Busy == {"scan", "supersede", "bury", "retire", "erase", "write"}

(* The slots the scan has left behind are retired.                         *)
PassedDead ==
  pc \in {"scan", "supersede", "bury", "retire"} =>
    \A s \in Slot : s < offset => flag[s] = "dead"

(* The scan's own slot: within the scanned range, and retired from the     *)
(* first word on while it is being superseded.                             *)
AtSlot ==
  /\ pc \notin {"supersede", "write"} => next = 0
  /\ pc \in {"supersede", "bury"} => dst = offset /\ offset < Slots - 1
  /\ pc = "supersede" /\ next > 0 => flag[dst] = "dead"
  /\ pc = "erase" => offset + 1 = Slots

(* The record being written: its slot was blank, what is programmed so far *)
(* is the new value, and every slot before it is retired but the one it    *)
(* replaces.                                                               *)
Writing ==
  pc = "write" =>
    /\ dst = offset + 1 \/ dst = offset \/ (dst = 0 /\ offset + 1 = Slots)
    /\ \A s \in Slot : s < dst /\ (s < offset \/ dst # offset + 1) => flag[s] = "dead"
    /\ next = 0 => Blank(dst)
    /\ next > 0 => flag[dst] = "valid"
    /\ \A w \in Word : word[dst][w] = IF w < next THEN {data} ELSE {}

(* The new record is complete, right behind the one to be retired.         *)
Retiring ==
  pc = "retire" =>
    /\ dst = offset + 1
    /\ flag[dst] = "valid"
    /\ \A w \in Word : word[dst][w] = {data}

Saving == pc \in Busy => tries >= 1 /\ data \in Values

DurableInv ==
  TypeOK /\ PassedDead /\ AtSlot /\ Writing /\ Retiring /\ Saving /\ Durable

----------------------------------------------------------------------------

(* The first valid slot decides what a boot reads.                         *)
LEMMA ReadBack ==
  ASSUME TypeOK, NEW d \in Slot, NEW v \in Values,
         flag[d] = "valid",
         \A s \in Slot : s < d => flag[s] # "valid",
         \A w \in Word : word[d][w] = {v}
  PROVE  read_user_data = v
<1>1. FirstValid(d)
  BY DEF FirstValid, Slot
<1>2. \A s \in Slot : FirstValid(s) => s = d
  BY SlotsAssumption DEF FirstValid, Slot
<1>3. (CHOOSE s \in Slot : FirstValid(s)) = d
  BY <1>1, <1>2
<1>4. 1 \in Word
  BY WordsAssumption DEF Word
<1>5. \A u \in Values : (\A w \in Word : word[d][w] = {u}) => u = v
  BY <1>4
<1>6. Record(d) = v
  BY <1>5 DEF Record
<1> QED
  BY <1>1, <1>3, <1>6 DEF read_user_data

(* The same of the state a step leads to.                                  *)
LEMMA ReadBackNext ==
  ASSUME TypeOK', NEW d \in Slot, NEW v \in Values,
         flag'[d] = "valid",
         \A s \in Slot : s < d => flag'[s] # "valid",
         \A w \in Word : word'[d][w] = {v}
  PROVE  read_user_data' = v
<1>1. FirstValid(d)'
  BY DEF FirstValid, Slot
<1>2. \A s \in Slot : FirstValid(s)' => s = d
  BY SlotsAssumption DEF FirstValid, Slot
<1>3. (CHOOSE s \in Slot : FirstValid(s)') = d
  BY <1>1, <1>2
<1>4. 1 \in Word
  BY WordsAssumption DEF Word
<1>5. \A u \in Values : (\A w \in Word : word'[d][w] = {u}) => u = v
  BY <1>4
<1>6. Record(d)' = v
  BY <1>5 DEF Record
<1> QED
  BY <1>1, <1>3, <1>6 DEF read_user_data

(* Power failures keep the flash well typed.                               *)
LEMMA TornFlashType ==
  ASSUME TypeOK, TornFlash, pc # "write" \/ data \in Values, pc = "supersede" => dst + 1 \in Slot
  PROVE  flag' \in [Slot -> Flags] /\ word' \in [Slot -> [Word -> SUBSET Items]]
<1>1. ASSUME NEW s \in Slot, NEW w \in Word, NEW i \in SUBSET Items, TearWord(s, w, i)
      PROVE  word' \in [Slot -> [Word -> SUBSET Items]]
  <2>1. word[s][w] \in SUBSET Items
    BY DEF TypeOK
  <2>2. PICK t \in {word[s][w], word[s][w] \cup i, word[s][w] \cup {Junk}} :
          word' = [word EXCEPT ![s][w] = IF i = {} THEN @ ELSE t]
    BY <1>1 DEF TearWord
  <2>3. t \in SUBSET Items
    BY <2>1 DEF Items
  <2> QED
    BY <2>1, <2>2, <2>3 DEF TypeOK
<1>2. ASSUME NEW s \in Slot, NEW old \in Flags, NEW new \in {"valid", "dead"},
             NEW f \in TornFlags(old, new), flag' = [flag EXCEPT ![s] = f]
      PROVE  flag' \in [Slot -> Flags]
  BY <1>2 DEF TornFlags, Flags, TypeOK
<1>3. CASE pc = "write" /\ next = 0
  BY <1>2, <1>3 DEF TornFlash, TypeOK, flash
<1>4. CASE pc = "write" /\ next > 0
  <2>1. next \in Word /\ {data} \in SUBSET Items
    BY <1>4, WordsAssumption DEF TypeOK, Word, Items
  <2> QED
    BY <1>1, <1>4, <2>1 DEF TornFlash, TypeOK
<1>5. CASE pc \in {"supersede", "bury"} /\ next = 0
  BY <1>2, <1>5 DEF TornFlash, TypeOK
<1>6. CASE pc = "supersede" /\ next > 0
  <2>1. next \in Word /\ word[dst + 1][next] \in SUBSET Items
    BY <1>6, WordsAssumption DEF TypeOK, Word
  <2> QED
    BY <1>1, <1>6, <2>1 DEF TornFlash, TypeOK
<1>7. CASE pc = "retire"
  BY <1>2, <1>7 DEF TornFlash, TypeOK
<1>8. CASE pc = "erase"
  <2>1. PICK kept \in SUBSET Slot, lost \in SUBSET Slot :
           /\ flag' = [s \in Slot |-> IF s \in kept THEN flag[s]
                                      ELSE IF s \in lost THEN "dead" ELSE "erased"]
           /\ word' = [s \in Slot |-> IF s \in kept THEN word[s]
                                      ELSE [w \in Word |-> IF s \in lost THEN {Junk} ELSE {}]]
    BY <1>8 DEF TornFlash
  <2>2. \A s \in Slot : flag'[s] \in Flags
    BY <2>1 DEF TypeOK, Flags
  <2>3. ASSUME NEW s \in Slot PROVE word'[s] \in [Word -> SUBSET Items]
    BY <2>1 DEF TypeOK, Items
  <2> QED
    BY <2>1, <2>2, <2>3
<1>9. CASE pc \in {"off", "idle", "scan"} \/ (pc = "bury" /\ next # 0)
  <2>1. UNCHANGED flash
    BY <1>9 DEF TornFlash
  <2> QED
    BY <2>1 DEF TypeOK, flash
<1>10. pc \in {"off", "idle", "scan", "supersede", "retire", "bury", "erase", "write"}
  BY DEF TypeOK
<1>11. next = 0 \/ next > 0
  BY WordsAssumption DEF TypeOK
<1> QED
  BY <1>3, <1>4, <1>5, <1>6, <1>7, <1>8, <1>9, <1>10, <1>11

LEMMA DurableInit == Init => DurableInv
<1> SUFFICES ASSUME Init PROVE DurableInv
  OBVIOUS
<1>1. TypeOK
  <2>1. flag \in [Slot -> Flags] /\ word \in [Slot -> [Word -> SUBSET Items]]
    BY DEF Init, Flags
  <2>2. offset \in Slot /\ dst \in Slot
    BY SlotsAssumption DEF Init, Slot
  <2>3. next \in 0 .. Words /\ tries \in 0 .. MaxTries
    BY WordsAssumption, TriesAssumption DEF Init
  <2> QED
    BY <2>1, <2>2, <2>3 DEF Init, TypeOK
<1>2. ~ \E s \in Slot : FirstValid(s)
  BY DEF Init, FirstValid
<1>3. Durable
  BY <1>2 DEF Init, Durable, read_user_data
<1> QED
  BY <1>1, <1>3
  DEF Init, DurableInv, PassedDead, AtSlot, Writing, Retiring, Saving, Busy

(* Steps of the scan that only choose where to go next: flash and history  *)
(* stay as they are.                                                       *)
LEMMA GotoStep ==
  ASSUME DurableInv, NEW label \in {"write", "supersede", "bury"}, NEW target \in Slot,
         Scanning, Goto(label, target),
         label = "write" => Blank(target) /\ target \in {offset, offset + 1},
         label \in {"supersede", "bury"} => target = offset
  PROVE  DurableInv'
<1> USE DEF DurableInv, Scanning, Goto, hist, flash
<1>1. TypeOK'
  BY WordsAssumption DEF TypeOK
<1>2. PassedDead' /\ AtSlot'
  BY DEF PassedDead, AtSlot
<1>3. Writing'
  <2>1. Blank(target) => \A w \in Word : word[target][w] = {}
    BY DEF Blank
  <2>2. \A w \in Word : ~(w < 0)
    BY DEF Word
  <2>3. Blank(target)' = Blank(target)
    BY DEF Blank
  <2>4. ASSUME label = "write", NEW s \in Slot, s < target, s < offset \/ target # offset + 1
        PROVE  flag[s] = "dead"
    <3>1. s < offset
      BY <2>4 DEF TypeOK, Slot
    <3> QED
      BY <3>1 DEF PassedDead
  <2>5. label = "write" => Blank(target) /\ (target = offset + 1 \/ target = offset)
    OBVIOUS
  <2>6. pc' = label /\ dst' = target /\ next' = 0 /\ offset' = offset /\ flag' = flag /\ word' = word
    OBVIOUS
  <2> HIDE DEF DurableInv, Scanning, Goto, hist, flash
  <2> SUFFICES ASSUME label = "write" PROVE Writing'
    BY <2>6 DEF Writing
  <2>7. dst' = offset' + 1 \/ dst' = offset' \/ (dst' = 0 /\ offset' + 1 = Slots)
    BY <2>5, <2>6
  <2>8. \A s \in Slot : s < dst' /\ (s < offset' \/ dst' # offset' + 1) => flag'[s] = "dead"
    BY <2>4, <2>6
  <2>9. (next' = 0 => Blank(dst)') /\ (next' > 0 => flag'[dst'] = "valid")
    BY <2>3, <2>5, <2>6 DEF Blank
  <2>10. \A w \in Word : word'[dst'][w] = IF w < next' THEN {data'} ELSE {}
    BY <2>1, <2>2, <2>5, <2>6
  <2> QED
    BY <2>7, <2>8, <2>9, <2>10 DEF Writing
<1>4. Retiring' /\ Saving' /\ Durable'
  BY DEF Retiring, Saving, Busy, Durable, AtRest
<1> QED
  BY <1>1, <1>2, <1>3, <1>4

LEMMA EraseStep == DurableInv /\ EraseSector => DurableInv'
<1> SUFFICES ASSUME DurableInv, EraseSector PROVE DurableInv'
  OBVIOUS
<1> USE DEF DurableInv, EraseSector, hist
<1>1. TypeOK'
  <2>1. flag' \in [Slot -> Flags] /\ word' \in [Slot -> [Word -> SUBSET Items]]
    BY DEF Flags
  <2>2. 0 \in Slot /\ 0 \in 0 .. Words
    BY SlotsAssumption, WordsAssumption DEF Slot
  <2> QED
    BY <2>1, <2>2 DEF TypeOK
<1>2. \A s \in Slot : flag'[s] = "erased" /\ \A w \in Word : word'[s][w] = {}
  OBVIOUS
<1>3. Writing'
  <2>1. 0 \in Slot /\ \A s \in Slot : ~(s < 0)
    BY SlotsAssumption DEF Slot
  <2>2. \A w \in Word : ~(w < 0)
    BY DEF Word
  <2> QED
    BY <1>2, <2>1, <2>2 DEF Writing, Blank, AtSlot
<1>4. PassedDead' /\ AtSlot' /\ Retiring' /\ Saving' /\ Durable'
  BY DEF PassedDead, AtSlot, Retiring, Saving, Busy, Durable, AtRest
<1> QED
  BY <1>1, <1>3, <1>4

(* Overwriting a superseded record, one word at a time.                    *)
LEMMA SupersedeStep == DurableInv /\ Supersede => DurableInv'
<1> SUFFICES ASSUME DurableInv, Supersede PROVE DurableInv'
  OBVIOUS
<1> USE DEF DurableInv, Supersede, hist
<1>1. dst = offset /\ offset < Slots - 1 /\ dst \in Slot /\ dst + 1 \in Slot
  BY SlotsAssumption DEF AtSlot, TypeOK, Slot
<1>2. flag' = [flag EXCEPT ![dst] = "dead"] \/ (flag' = flag /\ flag[dst] = "dead")
  BY WordsAssumption DEF AtSlot, TypeOK
<1>3. flag' \in [Slot -> Flags] /\ flag'[dst] = "dead" /\ \A s \in Slot : s # dst => flag'[s] = flag[s]
  BY <1>1, <1>2 DEF TypeOK, Flags
<1>4. TypeOK'
  <2>1. word' \in [Slot -> [Word -> SUBSET Items]]
    <3>1. CASE next = 0
      BY <3>1 DEF TypeOK
    <3>2. CASE next # 0
      <4>1. next \in Word
        BY <3>2, WordsAssumption DEF TypeOK, Word
      <4>2. word[dst + 1][next] \in SUBSET Items
        BY <1>1, <4>1 DEF TypeOK
      <4> QED
        BY <1>1, <3>2, <4>1, <4>2 DEF ProgramWord, TypeOK
    <3> QED
      BY <3>1, <3>2
  <2>2. next' \in 0 .. Words /\ offset' \in Slot
    BY <1>1, WordsAssumption, SlotsAssumption DEF TypeOK, Slot
  <2> QED
    BY <1>3, <2>1, <2>2 DEF TypeOK
<1>5. PassedDead'
  <2>1. \A s \in Slot : s < offset + 1 => flag'[s] = "dead"
    <3> SUFFICES ASSUME NEW s \in Slot, s < offset + 1 PROVE flag'[s] = "dead"
      OBVIOUS
    <3>1. s < offset \/ s = dst
      BY <1>1 DEF Slot
    <3> QED
      BY <1>3, <3>1 DEF PassedDead, Flags
  <2>2. \A s \in Slot : s < offset => s < offset + 1
    BY DEF Slot, TypeOK
  <2> QED
    BY <2>1, <2>2 DEF PassedDead
<1>6. AtSlot'
  BY <1>1, <1>3 DEF AtSlot, TypeOK
<1>7. Writing' /\ Retiring' /\ Saving' /\ Durable'
  BY DEF Writing, Retiring, Saving, Busy, Durable, AtRest
<1> QED
  BY <1>4, <1>5, <1>6, <1>7

LEMMA BuryStep == DurableInv /\ Bury => DurableInv'
<1> SUFFICES ASSUME DurableInv, Bury PROVE DurableInv'
  OBVIOUS
<1> USE DEF DurableInv, Bury, hist
<1>1. dst = offset /\ offset < Slots - 1 /\ dst \in Slot
  BY DEF AtSlot, TypeOK
<1>2. flag' \in [Slot -> Flags] /\ flag'[dst] = "dead" /\ \A s \in Slot : s # dst => flag'[s] = flag[s]
  BY <1>1 DEF TypeOK, Flags
<1>3. TypeOK'
  BY <1>1, <1>2, SlotsAssumption DEF TypeOK, Slot
<1>4. PassedDead'
  <2> SUFFICES ASSUME NEW s \in Slot, s < offset + 1 PROVE flag'[s] = "dead"
    BY DEF PassedDead
  <2>1. s < offset \/ s = dst
    BY <1>1 DEF Slot
  <2> QED
    BY <1>2, <2>1 DEF PassedDead
<1>5. AtSlot' /\ Writing' /\ Retiring' /\ Saving' /\ Durable'
  BY <1>1 DEF AtSlot, Writing, Retiring, Saving, Busy, Durable, AtRest
<1> QED
  BY <1>3, <1>4, <1>5

(* Programming the new record.                                             *)
LEMMA WriteStep == DurableInv /\ WriteNew => DurableInv'
<1> SUFFICES ASSUME DurableInv, WriteNew PROVE DurableInv'
  OBVIOUS
<1> USE DEF DurableInv
<1> DEFINE Replaces == dst = offset + 1
<1>1. /\ dst \in Slot /\ offset \in Slot /\ next \in 0 .. Words
      /\ flag \in [Slot -> Flags] /\ word \in [Slot -> [Word -> SUBSET Items]]
      /\ data \in Values /\ tries \in 0 .. MaxTries /\ pc = "write"
  BY DEF TypeOK, Saving, Busy, WriteNew
<1>2. flag'[dst] = "valid" /\ flag' \in [Slot -> Flags]
      /\ \A s \in Slot : s # dst => flag'[s] = flag[s]
  BY <1>1 DEF WriteNew, Writing, Flags
<1>3. /\ word' \in [Slot -> [Word -> SUBSET Items]]
      /\ \A w \in Word : word'[dst][w] = IF w < next + 1 THEN {data} ELSE {}
  <2>1. CASE next = 0
    <3>1. \A w \in Word : ~(w < 1) /\ ~(w < 0)
      BY DEF Word
    <3> QED
      BY <1>1, <2>1, <3>1 DEF WriteNew, Writing
  <2>2. CASE next # 0
    <3>1. next \in Word
      BY <1>1, <2>2, WordsAssumption DEF Word
    <3>2. word' = [word EXCEPT ![dst][next] = @ \cup {data}]
      BY <1>1, <2>2 DEF WriteNew, ProgramWord
    <3>3. {data} \in SUBSET Items
      BY <1>1 DEF Items
    <3>4. word' \in [Slot -> [Word -> SUBSET Items]]
      BY <1>1, <3>1, <3>2, <3>3
    <3>5. word[dst][next] = {}
      <4>1. ~(next < next)
        BY <1>1
      <4> QED
        BY <1>1, <3>1, <4>1 DEF Writing
    <3>6. ASSUME NEW w \in Word PROVE word'[dst][w] = IF w < next + 1 THEN {data} ELSE {}
      <4>1. CASE w = next
        <5>1. word'[dst][next] = word[dst][next] \cup {data}
          BY <1>1, <3>1, <3>2
        <5>2. next < next + 1
          BY <1>1
        <5> QED
          BY <3>5, <4>1, <5>1, <5>2
      <4>2. CASE w # next
        <5>1. word'[dst][w] = word[dst][w]
          BY <1>1, <3>1, <3>2, <4>2
        <5>2. word[dst][w] = IF w < next THEN {data} ELSE {}
          BY <1>1 DEF Writing
        <5>3. w < next <=> w < next + 1
          BY <1>1, <3>1, <4>2 DEF Word
        <5> QED
          BY <5>1, <5>2, <5>3
      <4> QED
        BY <4>1, <4>2
    <3> QED
      BY <3>4, <3>6
  <2> QED
    BY <2>1, <2>2
<1>4. \A s \in Slot : s < dst /\ (s < offset \/ dst # offset + 1) => flag'[s] = "dead"
  <2>1. \A s \in Slot : s < dst => s # dst
    BY DEF Slot
  <2> QED
    BY <1>1, <1>2, <2>1 DEF Writing
<1>5. offset' = offset /\ dst' = dst /\ data' = data
  BY DEF WriteNew
<1>6. dst = offset + 1 \/ dst = offset \/ (dst = 0 /\ offset + 1 = Slots)
  BY <1>1 DEF Writing
<1>7. CASE next < Words
  <2>1. next' = next + 1 /\ pc' = pc /\ hist' = hist
    BY <1>7 DEF WriteNew
  <2>2. TypeOK'
    BY <1>1, <1>2, <1>3, <1>5, <1>7, <2>1, WordsAssumption DEF TypeOK, hist
  <2>3. Writing'
    <3>1. next' # 0 /\ next' = next + 1
      BY <1>1, <2>1
    <3> QED
      BY <1>2, <1>3, <1>4, <1>5, <1>6, <3>1 DEF Writing
  <2>4. PassedDead' /\ AtSlot' /\ Retiring' /\ Saving' /\ Durable'
    BY <1>1, <1>5, <2>1 DEF PassedDead, AtSlot, Retiring, Saving, Busy, Durable, AtRest, hist
  <2> QED
    BY <2>2, <2>3, <2>4
<1>8. CASE ~(next < Words)
  <2>1. next = Words
    BY <1>1, <1>8, WordsAssumption
  <2>2. \A w \in Word : word'[dst][w] = {data}
    BY <1>3, <2>1, WordsAssumption DEF Word
  <2>3. CASE Replaces
    <3>1. next' = 0 /\ pc' = "retire" /\ hist' = hist
      BY <1>8, <2>3 DEF WriteNew
    <3>2. TypeOK'
      BY <1>1, <1>2, <1>3, <1>5, <3>1, WordsAssumption DEF TypeOK, hist
    <3>3. PassedDead'
      BY <1>1, <1>4, <1>5, <2>3 DEF PassedDead, Slot
    <3>4. Retiring'
      BY <1>2, <1>5, <2>2, <2>3 DEF Retiring
    <3>5. AtSlot' /\ Writing' /\ Saving' /\ Durable'
      BY <1>1, <1>5, <3>1 DEF AtSlot, Writing, Saving, Busy, Durable, AtRest, hist
    <3> QED
      BY <3>2, <3>3, <3>4, <3>5
  <2>4. CASE ~Replaces
    <3>1. next' = 0 /\ pc' = "idle" /\ stored' = data /\ tries' = 0
          /\ UNCHANGED <<attempt, safe, hurt>>
      BY <1>8, <2>4 DEF WriteNew, Return
    <3>2. TypeOK'
      <4>1. next' \in 0 .. Words /\ tries' \in 0 .. MaxTries
        BY <3>1, WordsAssumption, TriesAssumption
      <4> QED
        BY <1>1, <1>2, <1>3, <1>5, <3>1, <4>1 DEF TypeOK
    <3>3. \A s \in Slot : s < dst => flag'[s] # "valid"
      BY <1>4, <2>4
    <3>4. read_user_data' = data
      BY <1>1, <1>2, <2>2, <3>2, <3>3, ReadBackNext
    <3>5. Durable'
      BY <3>1, <3>4 DEF Durable
    <3>6. PassedDead' /\ AtSlot' /\ Writing' /\ Retiring' /\ Saving'
      BY <3>1 DEF PassedDead, AtSlot, Writing, Retiring, Saving, Busy
    <3> QED
      BY <3>2, <3>5, <3>6
  <2> QED
    BY <2>3, <2>4
<1> QED
  BY <1>7, <1>8

LEMMA RetireStep == DurableInv /\ Retire => DurableInv'
<1> SUFFICES ASSUME DurableInv, Retire PROVE DurableInv'
  OBVIOUS
<1> USE DEF DurableInv
<1>1. /\ pc = "retire" /\ pc' = "idle" /\ stored' = data /\ tries' = 0
      /\ flag' = [flag EXCEPT ![offset] = "dead"]
      /\ UNCHANGED <<word, offset, dst, next, data, attempt, safe, hurt>>
  BY DEF Retire, Return, local
<1>2. /\ offset \in Slot /\ dst \in Slot /\ dst = offset + 1 /\ data \in Values
      /\ flag[dst] = "valid" /\ \A w \in Word : word[dst][w] = {data}
  BY <1>1 DEF TypeOK, Retiring, Saving, Busy
<1>3. flag' \in [Slot -> Flags] /\ flag'[offset] = "dead"
      /\ \A s \in Slot : s # offset => flag'[s] = flag[s]
  BY <1>1, <1>2 DEF TypeOK, Flags
<1>4. TypeOK'
  <2>1. tries' \in 0 .. MaxTries
    BY <1>1, TriesAssumption
  <2> QED
    BY <1>1, <1>2, <1>3, <2>1 DEF TypeOK
<1>5. flag'[dst] = "valid" /\ \A s \in Slot : s < dst => flag'[s] # "valid"
  <2>1. dst # offset /\ \A s \in Slot : s < dst => s < offset \/ s = offset
    BY <1>2 DEF Slot
  <2> QED
    BY <1>1, <1>2, <1>3, <2>1 DEF PassedDead
<1>6. read_user_data' = data
  BY <1>1, <1>2, <1>4, <1>5, ReadBackNext
<1>7. Durable'
  BY <1>1, <1>6 DEF Durable
<1>8. PassedDead' /\ AtSlot' /\ Writing' /\ Retiring' /\ Saving'
  BY <1>1 DEF PassedDead, AtSlot, Writing, Retiring, Saving, Busy
<1> QED
  BY <1>4, <1>7, <1>8

LEMMA BeginStep == ASSUME DurableInv, NEW v \in Values, Begin(v) PROVE DurableInv'
<1> USE DEF DurableInv, Begin, flash
<1>1. TypeOK'
  BY SlotsAssumption, TriesAssumption DEF TypeOK, Slot
<1>2. \A s \in Slot : ~(s < 0)
  BY DEF Slot
<1>3. AtSlot' /\ PassedDead' /\ Writing' /\ Retiring'
  BY <1>2 DEF PassedDead, AtSlot, Writing, Retiring, AtRest
<1>4. Saving' /\ Durable'
  BY TriesAssumption DEF Saving, Durable, AtRest, TypeOK
<1> QED
  BY <1>1, <1>3, <1>4

LEMMA ScanDeadStep == DurableInv /\ ScanDead => DurableInv'
<1> SUFFICES ASSUME DurableInv, ScanDead PROVE DurableInv'
  OBVIOUS
<1> USE DEF DurableInv, ScanDead, Scanning, flash, hist
<1>1. TypeOK'
  BY SlotsAssumption DEF TypeOK, Slot
<1>2. PassedDead'
  <2> SUFFICES ASSUME NEW s \in Slot, s < offset + 1 PROVE flag[s] = "dead"
    BY DEF PassedDead
  <2>1. s < offset \/ s = offset
    BY DEF Slot, TypeOK
  <2> QED
    BY <2>1 DEF PassedDead
<1>3. AtSlot' /\ Writing' /\ Retiring' /\ Saving' /\ Durable'
  BY DEF AtSlot, Writing, Retiring, Saving, Busy, Durable, AtRest
<1> QED
  BY <1>1, <1>2, <1>3

LEMMA ScanFullStep == DurableInv /\ ScanFull => DurableInv'
<1> SUFFICES ASSUME DurableInv, ScanFull PROVE DurableInv'
  OBVIOUS
<1> USE DEF DurableInv, ScanFull, flash, local
<1>1. TypeOK'
  BY DEF TypeOK
<1>2. AtSlot'
  BY SlotsAssumption DEF AtSlot
<1>3. PassedDead' /\ Writing' /\ Retiring' /\ Saving' /\ Durable'
  BY DEF PassedDead, Writing, Retiring, Saving, Busy, Durable, AtRest
<1> QED
  BY <1>1, <1>2, <1>3

(* A failure leaves pc "off": only what is claimed at rest is at stake, and *)
(* at rest with no save pending the flash is not touched.                  *)
LEMMA PowerFailStep == DurableInv /\ PowerFail => DurableInv'
<1> SUFFICES ASSUME DurableInv, PowerFail PROVE DurableInv'
  OBVIOUS
<1> USE DEF DurableInv, PowerFail
<1>1. TypeOK'
  <2>1. pc = "write" => data \in Values
    BY DEF Saving, Busy
  <2>2. pc = "supersede" => dst + 1 \in Slot
    BY SlotsAssumption DEF AtSlot, TypeOK, Slot
  <2>3. flag' \in [Slot -> Flags] /\ word' \in [Slot -> [Word -> SUBSET Items]]
    BY <2>1, <2>2, TornFlashType
  <2>4. 0 \in Slot /\ 0 \in 0 .. Words
    BY SlotsAssumption, WordsAssumption DEF Slot
  <2> QED
    BY <2>3, <2>4 DEF TypeOK
<1>2. Durable'
  <2> SUFFICES ASSUME tries = 0 PROVE read_user_data' = stored
    BY DEF Durable
  <2>1. pc = "idle"
    BY TriesAssumption DEF Saving, Busy, TypeOK
  <2>2. UNCHANGED flash
    BY <2>1 DEF TornFlash
  <2>3. read_user_data' = read_user_data
    BY <2>2 DEF read_user_data, FirstValid, Record, flash
  <2> QED
    BY <2>1, <2>3 DEF Durable, AtRest
<1>3. PassedDead' /\ AtSlot' /\ Writing' /\ Retiring' /\ Saving'
  BY DEF PassedDead, AtSlot, Writing, Retiring, Saving, Busy
<1> QED
  BY <1>1, <1>2, <1>3

LEMMA BootStep == DurableInv /\ Boot => DurableInv'
<1> SUFFICES ASSUME DurableInv, Boot PROVE DurableInv'
  OBVIOUS
<1> USE DEF DurableInv, Boot, flash, hist
<1>1. read_user_data \in Values \cup {None, Mixed}
  BY DEF read_user_data, Record
<1>2. TypeOK'
  BY <1>1 DEF TypeOK
<1>3. Durable'
  BY DEF Durable, AtRest, read_user_data, FirstValid, Record
<1>4. PassedDead' /\ AtSlot' /\ Writing' /\ Retiring' /\ Saving'
  BY DEF PassedDead, AtSlot, Writing, Retiring, Saving, Busy
<1> QED
  BY <1>2, <1>3, <1>4

LEMMA StutterStep == DurableInv /\ UNCHANGED vars => DurableInv'
<1> SUFFICES ASSUME DurableInv, UNCHANGED vars PROVE DurableInv'
  OBVIOUS
<1> USE DEF DurableInv, vars, flash, local, hist
<1>1. TypeOK' /\ PassedDead' /\ AtSlot' /\ Saving' /\ Retiring'
  BY DEF TypeOK, PassedDead, AtSlot, Saving, Retiring
<1>2. Writing'
  BY DEF Writing, Blank
<1>3. Durable'
  BY DEF Durable, AtRest, read_user_data, FirstValid, Record
<1> QED
  BY <1>1, <1>2, <1>3

----------------------------------------------------------------------------

LEMMA DurableNext == DurableInv /\ [Next]_vars => DurableInv'
<1> SUFFICES ASSUME DurableInv, [Next]_vars PROVE DurableInv'
  OBVIOUS
<1>1. offset \in Slot /\ (Scanning => offset + 1 \in Slot)
  BY SlotsAssumption DEF DurableInv, TypeOK, Scanning, Slot
<1>2. CASE ScanCurrent
  BY <1>1, <1>2, GotoStep DEF ScanCurrent
<1>3. CASE ScanSuperseded
  BY <1>1, <1>3, GotoStep DEF ScanSuperseded
<1>4. CASE ScanBlank
  BY <1>1, <1>4, GotoStep DEF ScanBlank
<1>5. CASE ScanTorn
  BY <1>1, <1>5, GotoStep DEF ScanTorn
<1> QED
  BY <1>2, <1>3, <1>4, <1>5, BeginStep, ScanDeadStep, ScanFullStep, EraseStep, SupersedeStep,
     BuryStep, WriteStep, RetireStep, PowerFailStep, BootStep, StutterStep
  DEF Next, Step

(* Every state of the log is well typed: in particular no write leaves the *)
(* sector and no record grows past its slot.                               *)
THEOREM TypeCorrect == Spec => []TypeOK
<1>1. DurableInv => TypeOK
  BY DEF DurableInv
<1> QED
  BY <1>1, DurableInit, DurableNext, PTL DEF Spec

(* Whatever power failures, half-done saves and half-done erases came      *)
(* before, once save_user_data has returned a boot reads what it saved.    *)
THEOREM SaveIsDurable == Spec => []Durable
<1>1. DurableInv => Durable
  BY DEF DurableInv
<1> QED
  BY <1>1, DurableInit, DurableNext, PTL DEF Spec

----------------------------------------------------------------------------
(* The sector is erased only once the scan has found a retired record in   *)
(* every slot it looks at.                                                 *)
THEOREM ErasesOnlyWhenFull == Spec => EraseOnlyWhenFull
<1>1. ASSUME DurableInv, [Next]_vars
      PROVE  [pc' = "erase" => \A s \in 0 .. Slots - 2 : ~Blank(s)]_vars
  <2>1. CASE ScanFull
    <3>1. \A s \in 0 .. Slots - 2 : s \in Slot /\ s < offset
      BY <2>1, SlotsAssumption DEF ScanFull, Slot
    <3>2. \A s \in 0 .. Slots - 2 : flag[s] = "dead"
      BY <1>1, <2>1, <3>1 DEF DurableInv, PassedDead, ScanFull
    <3> QED
      BY <3>2 DEF Blank
  <2>2. CASE UNCHANGED vars
    BY <2>2
  <2>3. ASSUME ~ScanFull, ~UNCHANGED vars PROVE pc' # "erase"
    <3>1. CASE ScanCurrent \/ ScanSuperseded \/ ScanBlank \/ ScanTorn \/ ScanDead
      BY <3>1 DEF ScanCurrent, ScanSuperseded, ScanBlank, ScanTorn, ScanDead, Goto, Scanning
    <3>2. CASE EraseSector \/ Supersede \/ Bury \/ WriteNew \/ Retire
      BY <3>2 DEF EraseSector, Supersede, Bury, WriteNew, Retire, Return
    <3>3. CASE (\E v \in Values : Begin(v)) \/ PowerFail \/ Boot
      BY <3>3 DEF Begin, PowerFail, Boot
    <3> QED
      BY <1>1, <2>3, <3>1, <3>2, <3>3 DEF Next, Step
  <2> QED
    BY <2>1, <2>2, <2>3
<1> QED
  BY <1>1, DurableInit, DurableNext, PTL DEF Spec, EraseOnlyWhenFull

----------------------------------------------------------------------------
(* Tidiness.  Blank slots are never followed by used ones unless an erase  *)
(* was interrupted.                                                        *)
Compact == ~hurt => \A s, t \in Slot : s < t /\ Blank(s) => Blank(t)

(* The record that is to be retired at the end is there.                   *)
Follows == pc = "write" /\ dst = offset + 1 => flag[offset] = "valid"

(* Nothing lies behind the record that is being written.                   *)
Ahead == pc \in {"write", "retire"} /\ ~hurt => \A t \in Slot : t > dst => Blank(t)

TidyInv == Compact /\ Follows /\ Ahead /\ TidyAtRest

(* Programming a slot leaves the others alone and never makes it blank.    *)
Programs(d) ==
  /\ \A s \in Slot : s # d => flag'[s] = flag[s] /\ word'[s] = word[s]
  /\ Blank(d)' => Blank(d)

LEMMA ProgramFlag ==
  ASSUME DurableInv, NEW d \in Slot, NEW f, flag' = [flag EXCEPT ![d] = f], word' = word,
         f = "erased" => flag[d] = "erased"
  PROVE  Programs(d)
<1>1. flag \in [Slot -> Flags]
  BY DEF DurableInv, TypeOK
<1>2. \A s \in Slot : flag'[s] = IF s = d THEN f ELSE flag[s]
  BY <1>1
<1> QED
  BY <1>2 DEF Programs, Blank

LEMMA ProgramOneWord ==
  ASSUME DurableInv, NEW d \in Slot, NEW w \in Word, NEW t,
         word' = [word EXCEPT ![d][w] = t], flag' = flag, t = {} => word[d][w] = {}
  PROVE  Programs(d)
<1>1. word \in [Slot -> [Word -> SUBSET Items]]
  BY DEF DurableInv, TypeOK
<1>2. \A s \in Slot : s # d => word'[s] = word[s]
  BY <1>1
<1>3. \A x \in Word : word'[d][x] = IF x = w THEN t ELSE word[d][x]
  BY <1>1
<1> QED
  BY <1>2, <1>3 DEF Programs, Blank

LEMMA NothingProgrammed == ASSUME NEW d \in Slot, UNCHANGED flash PROVE Programs(d)
BY DEF Programs, Blank, flash

LEMMA NextWord == DurableInv /\ next # 0 => next \in Word
BY WordsAssumption DEF DurableInv, TypeOK, Word

(* One step of a save that does not erase.                                 *)
LEMMA SaveProgramsDst ==
  ASSUME DurableInv, NEW d \in Slot, d = dst, Supersede \/ Bury \/ WriteNew
  PROVE  Programs(d)
<1>1. CASE Bury
  BY <1>1, ProgramFlag DEF Bury
<1>2. CASE Supersede /\ next = 0
  BY <1>2, ProgramFlag DEF Supersede
<1>3. CASE Supersede /\ next # 0
  <2>1. next \in Word
    BY <1>3, NextWord
  <2>2. word' = [word EXCEPT ![d][next] = word[d][next] \cup word[d + 1][next]] /\ flag' = flag
    BY <1>3 DEF Supersede, ProgramWord
  <2>3. word[d][next] \cup word[d + 1][next] = {} => word[d][next] = {}
    OBVIOUS
  <2> QED
    BY <2>1, <2>2, <2>3, ProgramOneWord
<1>4. CASE WriteNew /\ next = 0
  BY <1>4, ProgramFlag DEF WriteNew
<1>5. CASE WriteNew /\ next # 0
  <2>1. next \in Word
    BY <1>5, NextWord
  <2>2. word' = [word EXCEPT ![d][next] = word[d][next] \cup {data}] /\ flag' = flag
    BY <1>5 DEF WriteNew, ProgramWord
  <2> QED
    BY <2>1, <2>2, ProgramOneWord
<1> QED
  BY <1>1, <1>2, <1>3, <1>4, <1>5

(* And what a power failure makes of it.                                   *)
LEMMA TearingPrograms ==
  ASSUME DurableInv, NEW d \in Slot, TornFlash, pc # "erase",
         d = IF pc = "retire" THEN offset ELSE dst
  PROVE  Programs(d)
<1>1. ASSUME NEW new \in {"valid", "dead"}, NEW f \in TornFlags(flag[d], new),
             flag' = [flag EXCEPT ![d] = f], word' = word
      PROVE  Programs(d)
  <2>1. f = "erased" => flag[d] = "erased"
    BY <1>1 DEF TornFlags
  <2> QED
    BY <1>1, <2>1, ProgramFlag
<1>2. ASSUME NEW w \in Word, NEW items, TearWord(d, w, items), flag' = flag PROVE Programs(d)
  <2>1. PICK t \in {word[d][w], word[d][w] \cup items, word[d][w] \cup {Junk}} :
          word' = [word EXCEPT ![d][w] = IF items = {} THEN @ ELSE t]
    BY <1>2 DEF TearWord
  <2>2. word' = [word EXCEPT ![d][w] = IF items = {} THEN word[d][w] ELSE t]
    BY <2>1
  <2>3. (IF items = {} THEN word[d][w] ELSE t) = {} => word[d][w] = {}
    OBVIOUS
  <2> QED
    BY <1>2, <2>2, <2>3, ProgramOneWord
<1>3. CASE pc = "write" /\ next = 0
  BY <1>1, <1>3 DEF TornFlash
<1>4. CASE pc = "write" /\ next > 0
  <2>1. next \in Word
    BY <1>4, NextWord
  <2> QED
    BY <1>2, <1>4, <2>1 DEF TornFlash
<1>5. CASE pc \in {"supersede", "bury"} /\ next = 0
  BY <1>1, <1>5 DEF TornFlash
<1>6. CASE pc = "supersede" /\ next > 0
  <2>1. next \in Word
    BY <1>6, NextWord
  <2> QED
    BY <1>2, <1>6, <2>1 DEF TornFlash
<1>7. CASE pc = "retire"
  BY <1>1, <1>7 DEF TornFlash
<1>8. CASE pc \in {"off", "idle", "scan"} \/ (pc = "bury" /\ next # 0)
  <2>1. UNCHANGED flash
    BY <1>8 DEF TornFlash
  <2> QED
    BY <2>1, NothingProgrammed
<1>9. pc \in {"off", "idle", "scan", "supersede", "retire", "bury", "erase", "write"}
      /\ (next = 0 \/ next > 0)
  BY WordsAssumption DEF DurableInv, TypeOK
<1> QED
  BY <1>3, <1>4, <1>5, <1>6, <1>7, <1>8, <1>9

(* Programming a slot that only used ones come before keeps the log        *)
(* compact.                                                                *)
LEMMA ProgramsCompact ==
  ASSUME NEW d \in Slot, Programs(d), Compact, hurt' = hurt,
         \A s \in Slot : s < d => ~Blank(s)
  PROVE  Compact'
<1> SUFFICES ASSUME ~hurt, NEW s \in Slot, NEW t \in Slot, s < t, Blank(s)' PROVE Blank(t)'
  BY DEF Compact
<1>1. \A x \in Slot : x # d => Blank(x)' = Blank(x)
  BY DEF Programs, Blank
<1>2. Blank(s)
  BY <1>1 DEF Programs
<1>3. Blank(t)
  BY <1>2 DEF Compact
<1>4. t # d
  BY <1>2
<1> QED
  BY <1>1, <1>3, <1>4

(* What comes before the slot that is programmed is used.                  *)
LEMMA UsedBefore ==
  ASSUME DurableInv, Follows, pc \in {"supersede", "bury", "write", "retire"},
         NEW d \in Slot, d = IF pc = "retire" THEN offset ELSE dst
  PROVE  \A s \in Slot : s < d => ~Blank(s)
<1> SUFFICES ASSUME NEW s \in Slot, s < d PROVE flag[s] # "erased"
  BY DEF Blank
<1>1. CASE pc \in {"supersede", "bury", "retire"}
  BY <1>1 DEF DurableInv, AtSlot, PassedDead
<1>2. CASE pc = "write"
  <2>1. CASE s < offset \/ dst # offset + 1
    BY <1>2, <2>1 DEF DurableInv, Writing
  <2>2. CASE ~(s < offset) /\ dst = offset + 1
    <3>1. s = offset
      BY <1>2, <2>2 DEF DurableInv, TypeOK, Slot
    <3> QED
      BY <1>2, <2>2, <3>1 DEF Follows
  <2> QED
    BY <2>1, <2>2
<1> QED
  BY <1>1, <1>2

LEMMA TidyInit == Init => TidyInv
<1> SUFFICES ASSUME Init PROVE TidyInv
  OBVIOUS
<1>1. \A s \in Slot : Blank(s)
  BY DEF Init, Blank
<1> QED
  BY <1>1 DEF Init, TidyInv, Compact, Follows, Ahead, TidyAtRest, Tidy

(* Steps that leave the flash alone and write or end nothing.              *)
LEMMA TidyIdleStep ==
  ASSUME TidyInv, UNCHANGED <<flash, hurt>>, pc' \notin {"write", "retire"},
         AtRest' /\ tries' = 0 => AtRest /\ tries = 0
  PROVE  TidyInv'
<1>1. \A s \in Slot : Blank(s)' = Blank(s) /\ flag'[s] = flag[s]
  BY DEF Blank, flash
<1> QED
  BY <1>1 DEF TidyInv, Compact, Follows, Ahead, TidyAtRest, Tidy

(* The scan has found the slot to write.                                   *)
LEMMA TidyFoundStep ==
  ASSUME DurableInv, TidyInv, NEW target \in Slot, Goto("write", target), Blank(target),
         target = offset + 1 => flag[offset] = "valid"
  PROVE  TidyInv'
<1>1. /\ UNCHANGED <<flash, offset, data, hist>>
      /\ pc' = "write" /\ dst' = target
  BY DEF Goto
<1>2. \A s \in Slot : Blank(s)' = Blank(s) /\ flag'[s] = flag[s]
  BY <1>1 DEF Blank, flash
<1>3. Compact'
  BY <1>1, <1>2 DEF TidyInv, Compact, hist
<1>4. Follows'
  BY <1>1 DEF Follows, flash
<1>5. Ahead'
  <2> SUFFICES ASSUME ~hurt, NEW t \in Slot, t > target PROVE Blank(t)
    BY <1>1, <1>2 DEF Ahead, hist
  <2>1. target < t
    BY DEF Slot
  <2> QED
    BY <2>1 DEF TidyInv, Compact
<1>6. TidyAtRest'
  BY <1>1 DEF TidyAtRest, AtRest
<1> QED
  BY <1>3, <1>4, <1>5, <1>6 DEF TidyInv

LEMMA TidyEraseStep == DurableInv /\ EraseSector => TidyInv'
<1> SUFFICES ASSUME DurableInv, EraseSector PROVE TidyInv'
  OBVIOUS
<1>1. \A s \in Slot : Blank(s)'
  BY DEF EraseSector, Blank
<1>2. pc' = "write" /\ dst' = 0 /\ offset' = offset
  BY DEF EraseSector
<1>3. Follows'
  BY <1>2 DEF Follows, DurableInv, TypeOK, Slot
<1> QED
  BY <1>1, <1>2, <1>3 DEF TidyInv, Compact, Ahead, TidyAtRest, AtRest

(* A save that returns: all slots before the new record are retired and    *)
(* nothing lies behind it.                                                 *)
LEMMA ReturnsTidy ==
  ASSUME NEW d \in Slot,
         ~hurt' => \A t \in Slot : t > d => Blank(t)',
         \A s \in Slot : s < d => flag'[s] = "dead"
  PROVE  TidyAtRest'
<1> SUFFICES ASSUME ~hurt', NEW s \in Slot, NEW t \in Slot, s < t,
                    flag'[s] = "valid" \/ Blank(s)'
             PROVE  Blank(t)'
  BY DEF TidyAtRest, Tidy
<1>1. ~(s < d)
  BY DEF Blank
<1>2. t > d
  BY <1>1 DEF Slot
<1> QED
  BY <1>2

LEMMA TidyWriteStep == DurableInv /\ TidyInv /\ WriteNew => TidyInv'
<1> SUFFICES ASSUME DurableInv, TidyInv, WriteNew PROVE TidyInv'
  OBVIOUS
<1>1. PICK d \in Slot : d = dst
  BY DEF DurableInv, TypeOK
<1>2. Programs(d)
  BY <1>1, SaveProgramsDst
<1>3. /\ pc = "write" /\ dst' = dst /\ offset' = offset /\ hurt' = hurt
      /\ pc' \in {"write", "retire", "idle"}
  BY DEF WriteNew, Return, hist
<1>4. Compact'
  BY <1>1, <1>2, <1>3, UsedBefore, ProgramsCompact DEF TidyInv
<1>5. \A s \in Slot : s # d => Blank(s)' = Blank(s) /\ flag'[s] = flag[s]
  BY <1>2 DEF Programs, Blank
<1>6. Follows'
  <2> SUFFICES ASSUME dst = offset + 1 PROVE flag'[offset] = "valid"
    BY <1>3 DEF Follows
  <2>1. offset \in Slot /\ offset # d
    BY <1>1 DEF DurableInv, TypeOK, Slot
  <2> QED
    BY <1>3, <1>5, <2>1 DEF TidyInv, Follows
<1>7. ~hurt' => \A t \in Slot : t > d => Blank(t)'
  <2>1. \A t \in Slot : t > d => t # d
    BY DEF Slot
  <2> QED
    BY <1>1, <1>3, <1>5, <2>1 DEF TidyInv, Ahead
<1>8. Ahead'
  BY <1>1, <1>3, <1>7 DEF Ahead
<1>9. TidyAtRest'
  <2>1. CASE pc' # "idle"
    BY <1>3, <2>1 DEF TidyAtRest, AtRest
  <2>2. CASE pc' = "idle"
    <3>1. dst # offset + 1
      BY <1>3, <2>2 DEF WriteNew
    <3>2. \A s \in Slot : s < d => flag[s] = "dead" /\ s # d
      BY <1>1, <1>3, <3>1 DEF DurableInv, Writing, Slot
    <3>3. \A s \in Slot : s < d => flag'[s] = "dead"
      BY <1>5, <3>2
    <3> QED
      BY <1>7, <3>3, ReturnsTidy
  <2> QED
    BY <2>1, <2>2
<1> QED
  BY <1>4, <1>6, <1>8, <1>9 DEF TidyInv

LEMMA TidyRetireStep == DurableInv /\ TidyInv /\ Retire => TidyInv'
<1> SUFFICES ASSUME DurableInv, TidyInv, Retire PROVE TidyInv'
  OBVIOUS
<1>1. /\ pc = "retire" /\ pc' = "idle" /\ hurt' = hurt
      /\ flag' = [flag EXCEPT ![offset] = "dead"] /\ word' = word
  BY DEF Retire, Return
<1>2. PICK o \in Slot : o = offset
  BY DEF DurableInv, TypeOK
<1>3. PICK d \in Slot : d = dst
  BY DEF DurableInv, TypeOK
<1>4. d = o + 1
  BY <1>1, <1>2, <1>3 DEF DurableInv, Retiring
<1>5. Programs(o)
  BY <1>1, <1>2, ProgramFlag
<1>6. Compact'
  BY <1>1, <1>2, <1>5, UsedBefore, ProgramsCompact DEF TidyInv
<1>7. \A s \in Slot : s # o => Blank(s)' = Blank(s) /\ flag'[s] = flag[s]
  BY <1>5 DEF Programs, Blank
<1>8. ~hurt' => \A t \in Slot : t > d => Blank(t)'
  <2>1. \A t \in Slot : t > d => t # o
    BY <1>4 DEF Slot
  <2> QED
    BY <1>1, <1>3, <1>7, <2>1 DEF TidyInv, Ahead
<1>9. \A s \in Slot : s < d => flag'[s] = "dead"
  <2> SUFFICES ASSUME NEW s \in Slot, s < d PROVE flag'[s] = "dead"
    OBVIOUS
  <2>1. s < o \/ s = o
    BY <1>4 DEF Slot
  <2>2. flag'[o] = "dead"
    BY <1>1, <1>2 DEF DurableInv, TypeOK
  <2>3. s < o => flag[s] = "dead" /\ s # o
    BY <1>1, <1>2 DEF DurableInv, PassedDead, Slot
  <2> QED
    BY <1>7, <2>1, <2>2, <2>3
<1>10. TidyAtRest'
  BY <1>8, <1>9, ReturnsTidy
<1> QED
  BY <1>1, <1>6, <1>10 DEF TidyInv, Follows, Ahead

(* Overwriting a stale record or burying a torn one.                       *)
LEMMA TidyBuryStep == DurableInv /\ TidyInv /\ (Supersede \/ Bury) => TidyInv'
<1> SUFFICES ASSUME DurableInv, TidyInv, Supersede \/ Bury PROVE TidyInv'
  OBVIOUS
<1>1. PICK d \in Slot : d = dst
  BY DEF DurableInv, TypeOK
<1>2. Programs(d)
  BY <1>1, SaveProgramsDst
<1>3. pc \in {"supersede", "bury"} /\ pc' \in {"supersede", "scan"} /\ hurt' = hurt
  BY DEF Supersede, Bury, hist
<1>4. Compact'
  BY <1>1, <1>2, <1>3, UsedBefore, ProgramsCompact DEF TidyInv
<1> QED
  BY <1>3, <1>4 DEF TidyInv, Follows, Ahead, TidyAtRest, AtRest

LEMMA TidyPowerFailStep == DurableInv /\ TidyInv /\ PowerFail => TidyInv'
<1> SUFFICES ASSUME DurableInv, TidyInv, PowerFail PROVE TidyInv'
  OBVIOUS
<1>1. pc' = "off" /\ tries' = tries /\ pc # "off" /\ (pc # "erase" => hurt' = hurt)
  BY DEF PowerFail, DurableInv, TypeOK
<1>2. CASE pc \in {"idle", "scan"}
  <2>1. UNCHANGED flash
    BY <1>2 DEF PowerFail, TornFlash
  <2>2. tries = 0 => pc = "idle"
    BY <1>2 DEF DurableInv, Saving, Busy
  <2>3. UNCHANGED <<flash, hurt>> /\ pc' \notin {"write", "retire"}
    BY <1>1, <1>2, <2>1
  <2>4. AtRest' /\ tries' = 0 => AtRest /\ tries = 0
    BY <1>1, <2>2 DEF AtRest
  <2> QED
    BY <2>3, <2>4, TidyIdleStep
<1>3. CASE pc \notin {"idle", "scan"}
  <2>1. pc \in Busy
    BY <1>1, <1>3 DEF DurableInv, TypeOK, Busy
  <2>2. tries' # 0
    BY <1>1, <2>1 DEF DurableInv, Saving
  <2>3. Compact'
    <3>1. CASE pc = "erase"
      BY <3>1 DEF PowerFail, Compact
    <3>2. CASE pc # "erase"
      <4>1. PICK d \in Slot : d = IF pc = "retire" THEN offset ELSE dst
        BY DEF DurableInv, TypeOK
      <4>2. Programs(d)
        BY <3>2, <4>1, TearingPrograms DEF PowerFail
      <4>3. pc \in {"supersede", "bury", "write", "retire"}
        BY <1>3, <2>1, <3>2 DEF Busy
      <4> QED
        BY <1>1, <3>2, <4>1, <4>2, <4>3, UsedBefore, ProgramsCompact DEF TidyInv
    <3> QED
      BY <3>1, <3>2
  <2> QED
    BY <1>1, <2>2, <2>3 DEF TidyInv, Follows, Ahead, TidyAtRest
<1> QED
  BY <1>2, <1>3

LEMMA TidyNext == DurableInv /\ TidyInv /\ [Next]_vars => TidyInv'
<1> SUFFICES ASSUME DurableInv, TidyInv, [Next]_vars PROVE TidyInv'
  OBVIOUS
<1>1. offset \in Slot /\ (Scanning => offset + 1 \in Slot)
  BY SlotsAssumption DEF DurableInv, TypeOK, Scanning, Slot
<1>2. CASE ScanCurrent
  BY <1>1, <1>2, TidyFoundStep DEF ScanCurrent
<1>3. CASE ScanBlank
  <2>1. offset # offset + 1
    BY <1>1 DEF Slot
  <2> QED
    BY <1>1, <1>3, <2>1, TidyFoundStep DEF ScanBlank
<1>4. CASE ScanSuperseded \/ ScanTorn \/ ScanDead \/ ScanFull
  <2>1. UNCHANGED <<flash, hurt>> /\ pc' \in {"supersede", "bury", "scan", "erase"}
    BY <1>4 DEF ScanSuperseded, ScanTorn, ScanDead, ScanFull, Goto, hist, Scanning
  <2> QED
    BY <2>1, TidyIdleStep DEF AtRest
<1>5. CASE \E v \in Values : Begin(v)
  <2>1. UNCHANGED <<flash, hurt>> /\ pc' = "scan"
    BY <1>5 DEF Begin
  <2> QED
    BY <2>1, TidyIdleStep DEF AtRest
<1>6. CASE Boot
  <2>1. UNCHANGED <<flash, hurt>> /\ pc' = "idle" /\ pc = "off" /\ tries' = tries
    BY <1>6 DEF Boot, hist
  <2> QED
    BY <2>1, TidyIdleStep DEF AtRest
<1>7. CASE UNCHANGED vars
  <2>1. \A s \in Slot : Blank(s)' = Blank(s)
    BY <1>7 DEF Blank, vars, flash
  <2> QED
    BY <1>7, <2>1 DEF TidyInv, Compact, Follows, Ahead, TidyAtRest, AtRest, Tidy,
       vars, flash, local, hist
<1> QED
  BY <1>2, <1>3, <1>4, <1>5, <1>6, <1>7, TidyEraseStep, TidyWriteStep, TidyRetireStep,
     TidyBuryStep, TidyPowerFailStep
  DEF Next, Step

(* A save that returns leaves the log tidy, whatever was interrupted       *)
(* before it, unless an erase was and none has completed since.            *)
THEOREM LeavesTidy == Spec => []TidyAtRest
<1>1. DurableInv /\ TidyInv => TidyAtRest
  BY DEF TidyInv
<1> QED
  BY <1>1, DurableInit, DurableNext, TidyInit, TidyNext, PTL DEF Spec

----------------------------------------------------------------------------
(* Atomicity.  While a safe save runs, the record that a boot would read   *)
(* is the old one: everything before it is retired, and the new record     *)
(* goes right behind it.                                                   *)
Goal == pc \in Busy => data = attempt

(* After a save that returned, only retired slots precede its record.      *)
LeadDead ==
  AtRest /\ tries = 0 =>
    \A s \in Slot : FirstValid(s) => \A t \in Slot : t < s => flag[t] = "dead"

(* The only record of a tidy log.                                          *)
OnlyRecord(s) ==
  /\ flag[s] = "valid"
  /\ \A t \in Slot : (t < s => flag[t] = "dead") /\ (t > s => Blank(t))

SafeScan == safe /\ pc = "scan" => \E s \in Slot : offset <= s /\ OnlyRecord(s)

SafeWrite == safe /\ pc \in {"write", "retire"} => dst = offset + 1 /\ FirstValid(offset)

SafeBusy == safe /\ pc \in Busy => pc \in {"scan", "write", "retire"} /\ read_user_data = stored

AtomicInv == Goal /\ LeadDead /\ SafeScan /\ SafeWrite /\ SafeBusy /\ AtomicSave

LEMMA ReadUnchanged ==
  ASSUME UNCHANGED flash
  PROVE  /\ read_user_data' = read_user_data
         /\ \A s \in Slot : FirstValid(s)' = FirstValid(s) /\ OnlyRecord(s)' = OnlyRecord(s)
<1>1. \A s \in Slot : Blank(s)' = Blank(s)
  BY DEF Blank, flash
<1> QED
  BY <1>1 DEF read_user_data, FirstValid, Record, OnlyRecord, flash

(* A step that leaves the record that counts alone is not seen by a boot.  *)
LEMMA ReadSame ==
  ASSUME NEW o \in Slot, FirstValid(o), word'[o] = word[o],
         \A s \in Slot : s <= o => flag'[s] = flag[s]
  PROVE  FirstValid(o)' /\ read_user_data' = read_user_data
<1>1. FirstValid(o)'
  BY DEF FirstValid, Slot
<1>2. \A s \in Slot : FirstValid(s) => s = o
  BY DEF FirstValid, Slot
<1>3. \A s \in Slot : FirstValid(s)' => s = o
  BY <1>1 DEF FirstValid, Slot
<1>4. (CHOOSE s \in Slot : FirstValid(s)) = o
  BY <1>2
<1>5. (CHOOSE s \in Slot : FirstValid(s)') = o
  BY <1>1, <1>3
<1>6. Record(o)' = Record(o)
  BY DEF Record
<1> QED
  BY <1>1, <1>4, <1>5, <1>6 DEF read_user_data

(* What a safe save meets at the slot under scan.                          *)
LEMMA SafeAtSlot ==
  ASSUME DurableInv, AtomicInv, safe, Scanning
  PROVE  \/ flag[offset] = "dead" /\ \E s \in Slot : offset + 1 <= s /\ OnlyRecord(s)
         \/ flag[offset] = "valid" /\ Blank(offset + 1) /\ FirstValid(offset)
<1>1. PICK s \in Slot : offset <= s /\ OnlyRecord(s)
  BY DEF AtomicInv, SafeScan, Scanning
<1>2. offset \in Slot /\ offset + 1 \in Slot
  BY SlotsAssumption DEF DurableInv, TypeOK, Scanning, Slot
<1>3. CASE s = offset
  <2>1. offset + 1 > s
    BY <1>2, <1>3 DEF Slot
  <2>2. \A t \in Slot : t < offset => flag[t] # "valid"
    BY <1>1, <1>3 DEF OnlyRecord
  <2> QED
    BY <1>1, <1>2, <1>3, <2>1, <2>2 DEF OnlyRecord, FirstValid
<1>4. CASE s # offset
  <2>1. offset < s /\ offset + 1 <= s
    BY <1>1, <1>2, <1>4 DEF Slot
  <2> QED
    BY <1>1, <1>2, <2>1 DEF OnlyRecord
<1> QED
  BY <1>3, <1>4

LEMMA AtomicInit == Init => AtomicInv
<1> SUFFICES ASSUME Init PROVE AtomicInv
  OBVIOUS
<1>1. \A s \in Slot : ~FirstValid(s)
  BY DEF Init, FirstValid
<1> QED
  BY <1>1 DEF Init, AtomicInv, Goal, LeadDead, SafeScan, SafeWrite, SafeBusy, AtomicSave, Busy

(* Begin: a safe save starts from the record of the last one.              *)
LEMMA AtomicBeginStep ==
  ASSUME DurableInv, AtomicInv, NEW v \in Values, Begin(v)
  PROVE  AtomicInv'
<1>1. /\ pc = "idle" /\ pc' = "scan" /\ offset' = 0 /\ data' = v /\ attempt' = v
      /\ stored' = stored /\ UNCHANGED flash
      /\ safe' => tries = 0 /\ stored # None /\ Tidy
  BY DEF Begin
<1>2. AtRest
  BY <1>1 DEF AtRest
<1>3. ASSUME safe' PROVE read_user_data = stored /\ \E s \in Slot : OnlyRecord(s)
  <2>1. read_user_data = stored
    BY <1>1, <1>2, <1>3 DEF DurableInv, Durable
  <2>2. PICK s \in Slot : FirstValid(s)
    BY <1>1, <1>3, <2>1 DEF read_user_data
  <2>3. \A t \in Slot : t < s => flag[t] = "dead"
    BY <1>1, <1>2, <1>3, <2>2 DEF AtomicInv, LeadDead
  <2>4. \A t \in Slot : t > s => Blank(t)
    <3>1. \A t \in Slot : t > s => s < t
      BY DEF Slot
    <3> QED
      BY <1>1, <1>3, <2>2, <3>1 DEF Tidy, FirstValid
  <2> QED
    BY <2>1, <2>2, <2>3, <2>4 DEF OnlyRecord, FirstValid
<1>4. read_user_data' = read_user_data /\ \A s \in Slot : OnlyRecord(s)' = OnlyRecord(s)
  BY <1>1, ReadUnchanged
<1>5. SafeScan'
  <2>1. \A s \in Slot : 0 <= s
    BY DEF Slot
  <2> QED
    BY <1>1, <1>3, <1>4, <2>1 DEF SafeScan
<1> QED
  BY <1>1, <1>3, <1>4, <1>5
  DEF AtomicInv, Goal, LeadDead, SafeWrite, SafeBusy, AtomicSave, AtRest

(* The scan.                                                               *)
LEMMA AtomicScanStep ==
  ASSUME DurableInv, AtomicInv,
         ScanCurrent \/ ScanSuperseded \/ ScanBlank \/ ScanTorn \/ ScanDead
  PROVE  AtomicInv'
<1>1. Scanning /\ pc = "scan" /\ UNCHANGED <<flash, hist, data>>
  BY DEF ScanCurrent, ScanSuperseded, ScanBlank, ScanTorn, ScanDead, Scanning, Goto
<1>2. pc' \in Busy
  BY <1>1 DEF ScanCurrent, ScanSuperseded, ScanBlank, ScanTorn, ScanDead, Goto, Busy
<1>3. read_user_data' = read_user_data
      /\ \A s \in Slot : FirstValid(s)' = FirstValid(s) /\ OnlyRecord(s)' = OnlyRecord(s)
  BY <1>1, ReadUnchanged
<1>4. offset \in Slot
  BY DEF DurableInv, TypeOK
<1>5. Goal' /\ LeadDead' /\ AtomicSave'
  BY <1>1, <1>2, <1>3
  DEF AtomicInv, Goal, LeadDead, SafeBusy, AtomicSave, Busy, AtRest, hist
<1>6. CASE ~safe
  BY <1>1, <1>5, <1>6 DEF AtomicInv, SafeScan, SafeWrite, SafeBusy, hist
<1>7. CASE safe /\ flag[offset] = "dead" /\ \E s \in Slot : offset + 1 <= s /\ OnlyRecord(s)
  <2>1. ~Blank(offset) /\ flag[offset] \notin {"valid", "erased", "torn"}
    BY <1>7 DEF Blank
  <2>2. ScanDead
    BY <2>1 DEF ScanCurrent, ScanSuperseded, ScanBlank, ScanTorn
  <2>3. pc' = "scan" /\ offset' = offset + 1
    BY <1>1, <2>2 DEF ScanDead
  <2>4. SafeScan' /\ SafeWrite' /\ SafeBusy'
    BY <1>1, <1>3, <1>7, <2>3 DEF AtomicInv, SafeScan, SafeWrite, SafeBusy, Busy, hist
  <2> QED
    BY <1>5, <2>4 DEF AtomicInv
<1>8. CASE safe /\ flag[offset] = "valid" /\ Blank(offset + 1) /\ FirstValid(offset)
  <2>1. ScanCurrent
    BY <1>8 DEF ScanSuperseded, ScanBlank, ScanTorn, ScanDead, Blank
  <2>2. pc' = "write" /\ dst' = offset + 1 /\ offset' = offset
    BY <2>1 DEF ScanCurrent, Goto
  <2>3. FirstValid(offset)' = FirstValid(offset)
    BY <1>1, <2>2 DEF FirstValid, flash
  <2>4. SafeScan' /\ SafeWrite' /\ SafeBusy'
    BY <1>1, <1>3, <1>8, <2>2, <2>3 DEF AtomicInv, SafeScan, SafeWrite, SafeBusy, Busy, hist
  <2> QED
    BY <1>5, <2>4 DEF AtomicInv
<1> QED
  BY <1>1, <1>6, <1>7, <1>8, SafeAtSlot

(* Steps that a safe save never takes, and the one that ends its safety.   *)
LEMMA AtomicUnsafeStep ==
  ASSUME DurableInv, AtomicInv, ScanFull \/ EraseSector \/ Supersede \/ Bury
  PROVE  AtomicInv'
<1>1. pc \in Busy /\ pc' \in Busy /\ UNCHANGED <<data, attempt>>
  BY DEF ScanFull, EraseSector, Supersede, Bury, Busy, hist, local
<1>2. ~safe'
  <2>1. CASE ScanFull
    BY <2>1 DEF ScanFull
  <2>2. CASE ~ScanFull
    <3>1. pc \in {"erase", "supersede", "bury"} /\ safe' = safe
      BY <2>2 DEF EraseSector, Supersede, Bury, hist
    <3> QED
      BY <1>1, <3>1 DEF AtomicInv, SafeBusy
  <2> QED
    BY <2>1, <2>2
<1> QED
  BY <1>1, <1>2
  DEF AtomicInv, Goal, LeadDead, SafeScan, SafeWrite, SafeBusy, AtomicSave, AtRest, Busy

(* A save that returns.                                                    *)
LEMMA AtomicReturn ==
  ASSUME DurableInv', Return, NEW d \in Slot, flag'[d] = "valid",
         \A s \in Slot : s < d => flag'[s] = "dead"
  PROVE  AtomicInv'
<1>1. pc' = "idle" /\ tries' = 0
  BY DEF Return
<1>2. read_user_data' = stored'
  BY <1>1 DEF DurableInv, Durable, AtRest
<1>3. \A s \in Slot : FirstValid(s)' => s <= d
  BY DEF FirstValid, Slot
<1>4. LeadDead'
  <2> SUFFICES ASSUME NEW s \in Slot, FirstValid(s)', NEW t \in Slot, t < s
               PROVE  flag'[t] = "dead"
    BY DEF LeadDead
  <2>1. t < d
    BY <1>3 DEF Slot
  <2> QED
    BY <2>1
<1> QED
  BY <1>1, <1>2, <1>4 DEF AtomicInv, Goal, SafeScan, SafeWrite, SafeBusy, AtomicSave, Busy

(* The old record stays the one that counts while the new one is written.  *)
LEMMA OldRecordStays ==
  ASSUME DurableInv, AtomicInv, safe, pc = "write", NEW d \in Slot, d = dst, Programs(d)
  PROVE  /\ read_user_data' = stored
         /\ \A o \in Slot : o = offset => FirstValid(o)'
<1>1. PICK o \in Slot : o = offset
  BY DEF DurableInv, TypeOK
<1>2. d = o + 1 /\ FirstValid(o) /\ read_user_data = stored
  BY <1>1 DEF AtomicInv, SafeWrite, SafeBusy, Busy
<1>3. \A s \in Slot : s <= o => s # d
  BY <1>2 DEF Slot
<1>4. word'[o] = word[o] /\ \A s \in Slot : s <= o => flag'[s] = flag[s]
  BY <1>3 DEF Programs, Slot
<1>5. FirstValid(o)' /\ read_user_data' = read_user_data
  BY <1>2, <1>4, ReadSame
<1> QED
  BY <1>1, <1>2, <1>5

LEMMA AtomicWriteStep == DurableInv /\ AtomicInv /\ WriteNew => AtomicInv'
<1> SUFFICES ASSUME DurableInv, AtomicInv, WriteNew PROVE AtomicInv'
  OBVIOUS
<1>1. PICK d \in Slot : d = dst
  BY DEF DurableInv, TypeOK
<1>2. PICK o \in Slot : o = offset
  BY DEF DurableInv, TypeOK
<1>3. Programs(d)
  BY <1>1, SaveProgramsDst
<1>4. pc = "write" /\ UNCHANGED <<offset, dst, data, attempt, safe>>
  BY DEF WriteNew, Return, hist
<1>5. CASE pc' \in {"write", "retire"} /\ UNCHANGED hist
  <2>1. Goal' /\ LeadDead' /\ SafeScan'
    BY <1>4, <1>5 DEF AtomicInv, Goal, LeadDead, SafeScan, Busy, AtRest
  <2>2. safe => read_user_data' = stored /\ FirstValid(o)'
    BY <1>1, <1>2, <1>3, <1>4, OldRecordStays
  <2>3. safe' = safe /\ stored' = stored
    BY <1>5 DEF hist
  <2>4. offset' = o
    BY <1>2, <1>4
  <2>5. FirstValid(o)' => FirstValid(offset)'
    BY <2>4 DEF FirstValid
  <2>6. safe => dst = offset + 1
    BY <1>4 DEF AtomicInv, SafeWrite
  <2> QED
    BY <1>4, <1>5, <2>1, <2>2, <2>3, <2>5, <2>6 DEF AtomicInv, SafeWrite, SafeBusy, AtomicSave
<1>6. CASE Return /\ dst # offset + 1
  <2>1. DurableInv'
    BY WriteStep
  <2>2. flag'[d] = "valid"
    <3>1. flag \in [Slot -> Flags]
      BY DEF DurableInv, TypeOK
    <3>2. next > 0 \/ next = 0
      BY WordsAssumption DEF DurableInv, TypeOK
    <3> QED
      BY <1>1, <3>1, <3>2 DEF WriteNew, DurableInv, Writing
  <2>3. \A s \in Slot : s < d => flag[s] = "dead" /\ s # d
    BY <1>1, <1>4, <1>6 DEF DurableInv, Writing, Slot
  <2>4. \A s \in Slot : s < d => flag'[s] = "dead"
    BY <1>3, <2>3 DEF Programs
  <2> QED
    BY <1>6, <2>1, <2>2, <2>4, AtomicReturn
<1> QED
  BY <1>4, <1>5, <1>6 DEF WriteNew

LEMMA AtomicRetireStep == DurableInv /\ AtomicInv /\ Retire => AtomicInv'
<1> SUFFICES ASSUME DurableInv, AtomicInv, Retire PROVE AtomicInv'
  OBVIOUS
<1>1. Return /\ pc = "retire" /\ flag' = [flag EXCEPT ![offset] = "dead"]
  BY DEF Retire
<1>2. /\ flag \in [Slot -> Flags] /\ offset \in Slot /\ dst \in Slot
      /\ dst = offset + 1 /\ flag[dst] = "valid"
      /\ \A s \in Slot : s < offset => flag[s] = "dead"
  BY <1>1 DEF DurableInv, TypeOK, Retiring, PassedDead
<1>3. flag'[dst] = "valid"
  BY <1>1, <1>2 DEF Slot
<1>4. \A s \in Slot : s < dst => s < offset \/ s = offset
  BY <1>2 DEF Slot
<1>5. \A s \in Slot : s < dst => flag'[s] = "dead"
  BY <1>1, <1>2, <1>4
<1>6. PICK d \in Slot : d = dst
  BY <1>2
<1> QED
  BY <1>1, <1>3, <1>5, <1>6, RetireStep, AtomicReturn

(* A power failure during a safe save: the old settings or the new ones.   *)
LEMMA TornSaveReads ==
  ASSUME DurableInv, DurableInv', AtomicInv, PowerFail, safe, pc \in Busy
  PROVE  read_user_data' \in {stored, attempt}
<1>1. pc \in {"scan", "write", "retire"} /\ read_user_data = stored /\ data = attempt
  BY DEF AtomicInv, SafeBusy, Goal
<1>2. PICK d \in Slot : d = dst
  BY DEF DurableInv, TypeOK
<1>3. PICK o \in Slot : o = offset
  BY DEF DurableInv, TypeOK
<1>4. CASE pc = "scan"
  <2>1. UNCHANGED flash
    BY <1>4 DEF PowerFail, TornFlash
  <2> QED
    BY <1>1, <2>1, ReadUnchanged
<1>5. CASE pc = "write"
  <2>1. Programs(d)
    BY <1>2, <1>5, TearingPrograms DEF PowerFail
  <2> QED
    BY <1>2, <1>5, <2>1, OldRecordStays
<1>6. CASE pc = "retire"
  <2>1. PICK f \in TornFlags(flag[o], "dead") : flag' = [flag EXCEPT ![o] = f] /\ word' = word
    BY <1>3, <1>6 DEF PowerFail, TornFlash
  <2>2. flag \in [Slot -> Flags] /\ FirstValid(o) /\ flag[o] = "valid"
    BY <1>3, <1>6 DEF DurableInv, TypeOK, AtomicInv, SafeWrite, FirstValid
  <2>3. f \in {"valid", "dead"}
    BY <2>1, <2>2 DEF TornFlags
  <2>4. CASE f = "valid"
    <3>1. \A s \in Slot : flag'[s] = flag[s]
      BY <2>1, <2>2, <2>4
    <3> QED
      BY <1>1, <2>1, <2>2, <3>1, ReadSame
  <2>5. CASE f = "dead"
    <3>1. /\ d = o + 1 /\ flag[d] = "valid" /\ data \in Values
          /\ \A w \in Word : word'[d][w] = {data}
      BY <1>2, <1>3, <1>6, <2>1 DEF DurableInv, Retiring, Saving, Busy
    <3>2. d # o /\ \A s \in Slot : s < d => s < o \/ s = o
      BY <3>1 DEF Slot
    <3>3. flag'[d] = "valid"
      BY <2>1, <2>2, <3>1, <3>2
    <3>4. \A s \in Slot : s < d => flag'[s] # "valid"
      <4>1. \A s \in Slot : s < o => flag[s] # "valid"
        BY <2>2 DEF FirstValid
      <4> QED
        BY <2>1, <2>2, <2>5, <3>2, <4>1
    <3>5. TypeOK'
      BY DEF DurableInv
    <3>6. read_user_data' = data
      BY <3>1, <3>3, <3>4, <3>5, ReadBackNext
    <3> QED
      BY <1>1, <3>6
  <2> QED
    BY <2>3, <2>4, <2>5
<1> QED
  BY <1>1, <1>4, <1>5, <1>6

LEMMA AtomicPowerFailStep == DurableInv /\ AtomicInv /\ PowerFail => AtomicInv'
<1> SUFFICES ASSUME DurableInv, AtomicInv, PowerFail PROVE AtomicInv'
  OBVIOUS
<1>1. pc # "off" /\ pc' = "off" /\ UNCHANGED <<stored, attempt, tries, safe>>
  BY DEF PowerFail
<1>2. DurableInv'
  BY PowerFailStep
<1>3. CASE pc \in Busy
  <2>1. tries' # 0
    BY <1>1, <1>3 DEF DurableInv, Saving
  <2>2. AtomicSave'
    BY <1>1, <1>2, <1>3, TornSaveReads DEF AtomicSave
  <2> QED
    BY <1>1, <2>1, <2>2 DEF AtomicInv, Goal, LeadDead, SafeScan, SafeWrite, SafeBusy, Busy
<1>4. CASE pc \notin Busy
  <2>1. pc = "idle"
    BY <1>1, <1>4 DEF DurableInv, TypeOK, Busy
  <2>2. UNCHANGED flash
    BY <2>1 DEF PowerFail, TornFlash
  <2>3. read_user_data' = read_user_data /\ flag' = flag
        /\ \A s \in Slot : FirstValid(s)' = FirstValid(s)
    BY <2>2, ReadUnchanged DEF flash
  <2> QED
    BY <1>1, <2>1, <2>3
    DEF AtomicInv, Goal, LeadDead, SafeScan, SafeWrite, SafeBusy, AtomicSave, Busy, AtRest
<1> QED
  BY <1>3, <1>4

LEMMA AtomicBootStep == AtomicInv /\ Boot => AtomicInv'
<1> SUFFICES ASSUME AtomicInv, Boot PROVE AtomicInv'
  OBVIOUS
<1>1. pc = "off" /\ pc' = "idle" /\ UNCHANGED <<flash, hist>>
  BY DEF Boot
<1>2. read_user_data' = read_user_data /\ flag' = flag
      /\ \A s \in Slot : FirstValid(s)' = FirstValid(s)
  BY <1>1, ReadUnchanged DEF flash
<1> QED
  BY <1>1, <1>2
  DEF AtomicInv, Goal, LeadDead, SafeScan, SafeWrite, SafeBusy, AtomicSave, Busy, AtRest, hist

LEMMA AtomicStutterStep == AtomicInv /\ UNCHANGED vars => AtomicInv'
<1> SUFFICES ASSUME AtomicInv, UNCHANGED vars PROVE AtomicInv'
  OBVIOUS
<1>1. UNCHANGED <<flash, pc, offset, dst, data, hist>>
  BY DEF vars, local
<1>2. read_user_data' = read_user_data /\ flag' = flag
      /\ \A s \in Slot : FirstValid(s)' = FirstValid(s) /\ OnlyRecord(s)' = OnlyRecord(s)
  BY <1>1, ReadUnchanged DEF flash
<1>3. FirstValid(offset)' = FirstValid(offset)
  BY <1>1 DEF FirstValid, flash
<1> QED
  BY <1>1, <1>2, <1>3
  DEF AtomicInv, Goal, LeadDead, SafeScan, SafeWrite, SafeBusy, AtomicSave, Busy, AtRest, hist

LEMMA AtomicNext == DurableInv /\ AtomicInv /\ [Next]_vars => AtomicInv'
BY AtomicBeginStep, AtomicScanStep, AtomicUnsafeStep, AtomicWriteStep, AtomicRetireStep,
   AtomicPowerFailStep, AtomicBootStep, AtomicStutterStep
DEF Next, Step

(* A save that began on a tidy log holding a record and that erases        *)
(* nothing is atomic: at every one of its steps a power failure leaves the *)
(* old settings or the new ones to the next boot.                          *)
THEOREM SafeSaveIsAtomic == Spec => []AtomicSave
<1>1. DurableInv /\ AtomicInv => AtomicSave
  BY DEF AtomicInv
<1> QED
  BY <1>1, DurableInit, DurableNext, AtomicInit, AtomicNext, PTL DEF Spec

----------------------------------------------------------------------------
(* Refinement of SettingsRegister.                                         *)

LEMMA ReadType == DurableInv' => read_user_data' \in Register!Contents
BY DEF read_user_data, Record, Register!Contents

(* What a step that touches neither what a boot reads nor the history is   *)
(* to the register: nothing.                                               *)
LEMMA InvisibleStep ==
  ASSUME UNCHANGED <<flash, attempt, tries, safe>>, AtRest' = AtRest
  PROVE  UNCHANGED Register!vars
<1>1. read_user_data' = read_user_data
  BY ReadUnchanged
<1> QED
  BY <1>1 DEF Register!vars

LEMMA UnsafeStep ==
  ASSUME DurableInv', pc \in Busy, ~safe, UNCHANGED <<attempt, tries, safe>>
  PROVE  Register!Scramble
<1>1. ~AtRest /\ AtRest' \in BOOLEAN
  BY DEF AtRest, Busy
<1> QED
  BY <1>1, ReadType DEF Register!Scramble

LEMMA ReturnStep ==
  ASSUME DurableInv', pc \in Busy, Return, data = attempt
  PROVE  Register!End
<1>1. pc' = "idle" /\ tries' = 0 /\ stored' = data /\ UNCHANGED <<attempt, safe>>
  BY DEF Return
<1>2. read_user_data' = attempt
  BY <1>1 DEF DurableInv, Durable, AtRest
<1>3. ~AtRest /\ AtRest'
  BY <1>1 DEF AtRest, Busy
<1> QED
  BY <1>1, <1>2, <1>3 DEF Register!End

LEMMA RegisterInit == Init => Register!Init
<1> SUFFICES ASSUME Init PROVE Register!Init
  OBVIOUS
<1>1. \A s \in Slot : ~FirstValid(s)
  BY DEF Init, FirstValid
<1> QED
  BY <1>1 DEF Init, Register!Init, AtRest, read_user_data

LEMMA RegisterBegin ==
  ASSUME DurableInv, NEW v \in Values, Begin(v)
  PROVE  Register!Begin
<1>1. /\ AtRest /\ ~AtRest' /\ UNCHANGED <<flash, stored>>
      /\ attempt' = v /\ tries' = tries + 1 /\ tries \in Nat
      /\ safe' = (tries = 0 /\ stored # None /\ Tidy)
  BY DEF Begin, AtRest, DurableInv, TypeOK
<1>2. safe' => tries = 0 /\ read_user_data # None
  BY <1>1 DEF DurableInv, Durable
<1>3. read_user_data' = read_user_data
  BY <1>1, ReadUnchanged
<1>4. ~(tries' = 0)
  BY <1>1
<1>5. safe' \in BOOLEAN
  BY <1>1
<1> QED
  BY <1>1, <1>2, <1>3, <1>4, <1>5 DEF Register!Begin

LEMMA RegisterWrite ==
  ASSUME DurableInv, DurableInv', AtomicInv, WriteNew
  PROVE  [Register!Next]_(Register!vars)
<1>1. pc = "write" /\ data = attempt /\ pc \in Busy
  BY DEF WriteNew, AtomicInv, Goal, Busy
<1>2. CASE Return
  BY <1>1, <1>2, ReturnStep DEF Register!Next
<1>3. CASE pc' \in {"write", "retire"} /\ UNCHANGED hist
  <2>1. UNCHANGED <<attempt, tries, safe, stored>>
    BY <1>3 DEF hist
  <2>2. CASE ~safe
    BY <1>1, <2>1, <2>2, UnsafeStep DEF Register!Next
  <2>3. CASE safe
    <3>1. PICK d \in Slot : d = dst
      BY DEF DurableInv, TypeOK
    <3>2. Programs(d)
      BY <3>1, SaveProgramsDst
    <3>3. read_user_data' = read_user_data
      BY <1>1, <2>3, <3>1, <3>2, OldRecordStays DEF AtomicInv, SafeBusy
    <3>4. ~AtRest /\ ~AtRest'
      BY <1>1, <1>3 DEF AtRest
    <3> QED
      BY <2>1, <3>3, <3>4 DEF Register!vars
  <2> QED
    BY <2>2, <2>3
<1> QED
  BY <1>1, <1>2, <1>3 DEF WriteNew

LEMMA RegisterPowerFail ==
  ASSUME DurableInv, DurableInv', AtomicInv, PowerFail
  PROVE  [Register!Next]_(Register!vars)
<1>1. pc # "off" /\ pc' = "off" /\ AtRest' /\ UNCHANGED <<stored, attempt, tries, safe>>
  BY DEF PowerFail, AtRest
<1>2. CASE pc \notin Busy
  <2>1. pc = "idle"
    BY <1>1, <1>2 DEF DurableInv, TypeOK, Busy
  <2>2. UNCHANGED flash /\ AtRest
    BY <2>1 DEF PowerFail, TornFlash, AtRest
  <2> QED
    BY <1>1, <2>2, InvisibleStep
<1>3. CASE pc \in Busy /\ ~safe
  BY <1>1, <1>3, UnsafeStep DEF Register!Next
<1>4. CASE pc \in Busy /\ safe
  <2>1. read_user_data' \in {stored, attempt} /\ read_user_data = stored /\ ~AtRest
    BY <1>4, TornSaveReads DEF AtomicInv, SafeBusy, AtRest, Busy
  <2>2. CASE read_user_data' = attempt
    <3>1. Register!Switch
      BY <1>1, <2>1, <2>2 DEF Register!Switch
    <3> QED
      BY <3>1 DEF Register!Next
  <2>3. CASE read_user_data' = read_user_data
    <3>1. Register!Interrupt
      BY <1>1, <2>1, <2>3 DEF Register!Interrupt
    <3> QED
      BY <3>1 DEF Register!Next
  <2> QED
    BY <2>1, <2>2, <2>3
<1> QED
  BY <1>2, <1>3, <1>4

LEMMA RegisterStep ==
  ASSUME DurableInv, DurableInv', AtomicInv, [Next]_vars
  PROVE  [Register!Next]_(Register!vars)
<1>1. CASE \E v \in Values : Begin(v)
  BY <1>1, RegisterBegin DEF Register!Next
<1>2. CASE ScanCurrent \/ ScanSuperseded \/ ScanBlank \/ ScanTorn \/ ScanDead
  <2>1. pc = "scan" /\ pc' \in Busy /\ UNCHANGED <<flash, hist>>
    BY <1>2 DEF ScanCurrent, ScanSuperseded, ScanBlank, ScanTorn, ScanDead, Scanning, Goto, Busy
  <2>2. AtRest' = AtRest
    BY <2>1 DEF AtRest, Busy
  <2> QED
    BY <2>1, <2>2, InvisibleStep DEF hist
<1>3. CASE ScanFull
  <2>1. UNCHANGED <<flash, attempt, tries>> /\ ~AtRest /\ ~AtRest' /\ ~safe'
    BY <1>3 DEF ScanFull, AtRest
  <2>2. read_user_data' = read_user_data
    BY <2>1, ReadUnchanged
  <2> QED
    BY <2>1, <2>2 DEF Register!Expose, Register!Next
<1>4. CASE EraseSector \/ Supersede \/ Bury
  <2>1. pc \in {"erase", "supersede", "bury"} /\ pc \in Busy /\ UNCHANGED <<attempt, tries, safe>>
    BY <1>4 DEF EraseSector, Supersede, Bury, hist, Busy
  <2>2. ~safe
    BY <2>1 DEF AtomicInv, SafeBusy
  <2> QED
    BY <2>1, <2>2, UnsafeStep DEF Register!Next
<1>5. CASE Retire
  <2>1. pc \in Busy /\ Return /\ data = attempt
    BY <1>5 DEF Retire, Busy, AtomicInv, Goal
  <2> QED
    BY <2>1, ReturnStep DEF Register!Next
<1>6. CASE Boot
  <2>1. UNCHANGED <<flash, hist>> /\ AtRest' = AtRest
    BY <1>6 DEF Boot, AtRest
  <2> QED
    BY <2>1, InvisibleStep DEF hist
<1>7. CASE UNCHANGED vars
  <2>1. UNCHANGED <<flash, hist>> /\ AtRest' = AtRest
    BY <1>7 DEF vars, AtRest
  <2> QED
    BY <2>1, InvisibleStep DEF hist
<1> QED
  BY <1>1, <1>2, <1>3, <1>4, <1>5, <1>6, <1>7, RegisterWrite, RegisterPowerFail DEF Next, Step

(* The log implements the register it promises: a safe save changes what a *)
(* boot reads at one instant, and every save that ends leaves its value.   *)
THEOREM ImplementsItsRegister == Spec => ImplementsRegister
BY DurableInit, DurableNext, AtomicInit, AtomicNext, RegisterInit, RegisterStep, PTL
DEF Spec, ImplementsRegister, Register!Spec
====
