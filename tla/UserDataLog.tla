---------------------------- MODULE UserDataLog ----------------------------
(***************************************************************************)
(* The settings log of the keyboard: save_user_data and read_user_data of  *)
(* app_flash.c over sector 0 of the SPI NOR flash.                         *)
(*                                                                         *)
(* The sector is cut into slots of sizeof(user_data_t) bytes.  A record is *)
(* programmed four bytes at a time; its first word carries the flag byte   *)
(* (0xff erased, 0xef valid, 0x00 retired).  Programming can only clear    *)
(* bits, so a word is modelled by the set of the items programmed into it  *)
(* since the last erase: {} reads as all ones, {v} reads back v, anything  *)
(* larger is the AND of several items.  Power can fail between any two     *)
(* steps and in the middle of programming a word or erasing the sector.    *)
(***************************************************************************)
EXTENDS Integers

CONSTANTS
  Slots,   (* slots of the sector: FLASH_SECTOR_SIZE / FLASH_DATA_SIZE, 64 *)
  Words,   (* words of a record after the flag word: 15 in the code        *)
  Values,  (* what g_user_data may hold when it is saved                   *)
  Junk,    (* what a half-programmed word or half-erased slot holds        *)
  None,    (* no record found                                              *)
  Mixed,   (* a record whose words do not belong to one saved value        *)
  MaxTries (* bound: saves begun without one of them completing            *)

ASSUME SlotsAssumption == Slots \in Nat /\ Slots >= 2
ASSUME WordsAssumption == Words \in Nat /\ Words >= 1
ASSUME ValuesAssumption == Junk \notin Values /\ None \notin Values /\ Mixed \notin Values
ASSUME TriesAssumption == MaxTries \in Nat /\ MaxTries >= 1

Slot  == 0 .. Slots - 1
Word  == 1 .. Words
Items == Values \cup {Junk}

(* "torn" is a flag byte that still reads 0xff in a first word of which    *)
(* other bytes were programmed; "dead" is any byte but 0xff and 0xef.      *)
Flags == {"erased", "torn", "valid", "dead"}

VARIABLES
  flag,      (* first word of every slot                                   *)
  word,      (* the other words of every slot                              *)
  pc,        (* where main is in save_user_data                            *)
  offset,    (* slot under scan                                            *)
  dst,       (* slot the new record goes to                                *)
  next,      (* next word to program, 0 is the flag word                   *)
  data,      (* g_user_data: loaded at boot, then the value being saved    *)
  stored,    (* history: value of the last save that returned              *)
  attempt,   (* history: value of the last save that was begun             *)
  tries,     (* history: saves begun since one returned                    *)
  safe,      (* history: the last save began on a tidy log, erased nothing *)
  hurt       (* history: an erase was interrupted, none completed since    *)

flash == <<flag, word>>
local == <<offset, dst, next, data>>
hist  == <<stored, attempt, tries, safe, hurt>>
vars  == <<flash, pc, local, hist>>

----------------------------------------------------------------------------

Blank(s) == flag[s] = "erased" /\ \A w \in Word : word[s][w] = {}

(* What a slot reads back as. *)
Record(s) ==
  IF \E v \in Values : \A w \in Word : word[s][w] = {v}
  THEN CHOOSE v \in Values : \A w \in Word : word[s][w] = {v}
  ELSE Mixed

\* A slip to compare with FirstValid: the scan runs on to the last valid
\* slot.
LastValid(s) == flag[s] = "valid" /\ \A t \in Slot : t > s => flag[t] # "valid"

(* read_user_data: the first slot whose flag is FLAG_VALID_DATA wins; its  *)
(* checksum is not looked at.                                              *)
FirstValid(s) == flag[s] = "valid" /\ \A t \in Slot : t < s => flag[t] # "valid"

read_user_data ==
  IF \E s \in Slot : FirstValid(s)
  THEN Record(CHOOSE s \in Slot : FirstValid(s))
  ELSE None

(* The log as complete saves build it: what follows the record that counts *)
(* is blank, up to the end of the sector.                                  *)
Tidy == \A s, t \in Slot : s < t /\ (flag[s] = "valid" \/ Blank(s)) => Blank(t)

TypeOK ==
  /\ flag \in [Slot -> Flags]
  /\ word \in [Slot -> [Word -> SUBSET Items]]
  /\ pc \in {"off", "idle", "scan", "supersede", "retire", "bury", "erase", "write"}
  /\ offset \in Slot
  /\ dst \in Slot
  /\ next \in 0 .. Words
  /\ data \in Values \cup {None, Mixed}
  /\ attempt \in Values \cup {None}
  /\ stored \in Values \cup {None}
  /\ tries \in 0 .. MaxTries
  /\ safe \in BOOLEAN
  /\ hurt \in BOOLEAN

Init ==
  /\ flag = [s \in Slot |-> "erased"]
  /\ word = [s \in Slot |-> [w \in Word |-> {}]]
  /\ pc = "off"
  /\ offset = 0 /\ dst = 0 /\ next = 0
  /\ data = None
  /\ stored = None /\ attempt = None /\ tries = 0 /\ safe = FALSE /\ hurt = FALSE

----------------------------------------------------------------------------
(* Programming.  A word that is programmed keeps what it held; the second  *)
(* form is what a power failure in the middle of the program may leave.    *)

ProgramWord(s, w, items) ==
  word' = [word EXCEPT ![s][w] = @ \cup items]

TearWord(s, w, items) ==
  \E t \in {word[s][w], word[s][w] \cup items, word[s][w] \cup {Junk}} :
    word' = [word EXCEPT ![s][w] = IF items = {} THEN @ ELSE t]

(* 0xff -> 0xef clears one bit, 0xef -> 0x00 and 0xff -> 0x00 clear many   *)
(* and may be caught with only some of them clear.                         *)
TornFlags(old, new) ==
  CASE new = "valid"                               -> {old, "torn", "valid"}
    [] new = "dead" /\ old \in {"erased", "torn"}  -> {old, "torn", "valid", "dead"}
    [] OTHER                                       -> {old, "dead"}

----------------------------------------------------------------------------
(* save_user_data.                                                         *)

Begin(v) ==
  /\ pc = "idle"
  /\ tries < MaxTries
  /\ pc' = "scan"
  /\ offset' = 0
  /\ data' = v
  /\ attempt' = v
  /\ tries' = tries + 1
  /\ safe' = (tries = 0 /\ stored # None /\ Tidy)
  /\ UNCHANGED <<flash, dst, next, stored, hurt>>

(* The for loop leaves the last slot of the sector out.                    *)
Scanning == pc = "scan" /\ offset < Slots - 1

Goto(label, target) ==
  /\ pc' = label
  /\ dst' = target
  /\ next' = 0
  /\ UNCHANGED <<flash, offset, data, hist>>

\* A slip to compare with ScanCurrent: the old record is retired before the
\* new one is written.
RetireFirst ==
  /\ Scanning
  /\ flag[offset] = "valid"
  /\ Blank(offset + 1)
  /\ flag' = [flag EXCEPT ![offset] = "dead"]
  /\ pc' = "write" /\ dst' = offset + 1 /\ next' = 0
  /\ UNCHANGED <<word, offset, data, hist>>

(* A valid record with a blank slot after it: the new record goes there.   *)
ScanCurrent ==
  /\ Scanning
  /\ flag[offset] = "valid"
  /\ Blank(offset + 1)
  /\ Goto("write", offset + 1)

(* A valid record that is not the last one: it is overwritten with what    *)
(* the next slot holds and its flag byte is cleared.                       *)
ScanSuperseded ==
  /\ Scanning
  /\ flag[offset] = "valid"
  /\ ~Blank(offset + 1)
  /\ Goto("supersede", offset)

(* A blank slot: the new record goes here.                                 *)
ScanBlank ==
  /\ Scanning
  /\ Blank(offset)
  /\ Goto("write", offset)

(* A slot whose flag byte is still 0xff but which is not blank.            *)
ScanTorn ==
  /\ Scanning
  /\ flag[offset] \in {"erased", "torn"}
  /\ ~Blank(offset)
  /\ Goto("bury", offset)

\* A slip to compare with ScanDead: continue without the offset moving on.
ScanDeadStuck ==
  /\ Scanning
  /\ flag[offset] = "dead"
  /\ UNCHANGED vars

ScanDead ==
  /\ Scanning
  /\ flag[offset] = "dead"
  /\ offset' = offset + 1
  /\ UNCHANGED <<flash, pc, dst, next, data, hist>>

\* A slip to compare with ScanFull: the loop stops one slot early.
ScanFullEarly ==
  /\ pc = "scan"
  /\ offset >= Slots - 2
  /\ pc' = "erase"
  /\ safe' = FALSE
  /\ UNCHANGED <<flash, local, stored, attempt, tries, hurt>>

(* The loop is exhausted.                                                  *)
ScanFull ==
  /\ pc = "scan"
  /\ offset = Slots - 1
  /\ pc' = "erase"
  /\ safe' = FALSE
  /\ UNCHANGED <<flash, local, stored, attempt, tries, hurt>>

\* A slip to compare with EraseSector: only the slots that the scan visits
\* are erased.
EraseScannedOnly ==
  /\ pc = "erase"
  /\ flag' = [s \in Slot |-> IF s = Slots - 1 THEN flag[s] ELSE "erased"]
  /\ word' = [s \in Slot |-> IF s = Slots - 1 THEN word[s] ELSE [w \in Word |-> {}]]
  /\ pc' = "write"
  /\ dst' = 0
  /\ next' = 0
  /\ hurt' = FALSE
  /\ UNCHANGED <<offset, data, stored, attempt, tries, safe>>

EraseSector ==
  /\ pc = "erase"
  /\ flag' = [s \in Slot |-> "erased"]
  /\ word' = [s \in Slot |-> [w \in Word |-> {}]]
  /\ pc' = "write"
  /\ dst' = 0
  /\ next' = 0
  /\ hurt' = FALSE
  /\ UNCHANGED <<offset, data, stored, attempt, tries, safe>>

(* One SpiFlash_WriteData of the copy of the next slot onto this one.      *)
Supersede ==
  /\ pc = "supersede"
  /\ IF next = 0
     THEN /\ flag' = [flag EXCEPT ![dst] = "dead"]
          /\ UNCHANGED word
     ELSE /\ ProgramWord(dst, next, word[dst + 1][next])
          /\ UNCHANGED flag
  /\ IF next < Words
     THEN next' = next + 1 /\ UNCHANGED <<pc, offset>>
     ELSE next' = 0 /\ pc' = "scan" /\ offset' = offset + 1
  /\ UNCHANGED <<dst, data, hist>>

(* The slot is programmed with its own content and a cleared flag: only    *)
(* the first of the writes changes anything.                               *)
Bury ==
  /\ pc = "bury"
  /\ flag' = [flag EXCEPT ![dst] = "dead"]
  /\ pc' = "scan"
  /\ offset' = offset + 1
  /\ UNCHANGED <<word, dst, next, data, hist>>

Return ==
  /\ pc' = "idle"
  /\ stored' = data
  /\ tries' = 0
  /\ UNCHANGED <<attempt, safe, hurt>>

\* A slip to compare with WriteNew: the loop over the words runs one word too
\* far.
WriteOverrun ==
  /\ pc = "write"
  /\ IF next = 0
     THEN flag' = [flag EXCEPT ![dst] = "valid"] /\ UNCHANGED word
     ELSE UNCHANGED flash
  /\ next' = next + 1
  /\ UNCHANGED <<pc, offset, dst, data, hist>>

\* A slip to compare with WriteNew: the record the new one follows is left
\* valid.
WriteNeverRetires ==
  /\ pc = "write"
  /\ IF next = 0
     THEN flag' = [flag EXCEPT ![dst] = "valid"] /\ UNCHANGED word
     ELSE ProgramWord(dst, next, {data}) /\ UNCHANGED flag
  /\ IF next < Words
     THEN next' = next + 1 /\ UNCHANGED <<pc, hist>>
     ELSE next' = 0 /\ Return
  /\ UNCHANGED <<offset, dst, data>>

(* One SpiFlash_WriteData of the new record.  After the last word the      *)
(* record it follows, if there is one, is retired.                         *)
WriteNew ==
  /\ pc = "write"
  /\ IF next = 0
     THEN flag' = [flag EXCEPT ![dst] = "valid"] /\ UNCHANGED word
     ELSE ProgramWord(dst, next, {data}) /\ UNCHANGED flag
  /\ IF next < Words
     THEN next' = next + 1 /\ UNCHANGED <<pc, hist>>
     ELSE /\ next' = 0
          /\ IF dst = offset + 1
             THEN pc' = "retire" /\ UNCHANGED hist
             ELSE Return
  /\ UNCHANGED <<offset, dst, data>>

(* The old record is programmed with 0x00 and ones: only its flag changes. *)
Retire ==
  /\ pc = "retire"
  /\ flag' = [flag EXCEPT ![offset] = "dead"]
  /\ Return
  /\ UNCHANGED <<word, local>>

----------------------------------------------------------------------------
(* Power.                                                                  *)

(* What the flash holds when power fails at this point of the save.        *)
TornFlash ==
  CASE pc = "write" /\ next = 0 ->
         /\ \E f \in TornFlags(flag[dst], "valid") : flag' = [flag EXCEPT ![dst] = f]
         /\ UNCHANGED word
    [] pc = "write" /\ next > 0 ->
         TearWord(dst, next, {data}) /\ UNCHANGED flag
    [] pc \in {"supersede", "bury"} /\ next = 0 ->
         /\ \E f \in TornFlags(flag[dst], "dead") : flag' = [flag EXCEPT ![dst] = f]
         /\ UNCHANGED word
    [] pc = "supersede" /\ next > 0 ->
         TearWord(dst, next, word[dst + 1][next]) /\ UNCHANGED flag
    [] pc = "retire" ->
         /\ \E f \in TornFlags(flag[offset], "dead") : flag' = [flag EXCEPT ![offset] = f]
         /\ UNCHANGED word
    [] pc = "erase" ->
         \E kept \in SUBSET Slot, lost \in SUBSET Slot :
           /\ kept \cap lost = {}
           /\ flag' = [s \in Slot |-> IF s \in kept THEN flag[s]
                                      ELSE IF s \in lost THEN "dead" ELSE "erased"]
           /\ word' = [s \in Slot |-> IF s \in kept THEN word[s]
                                      ELSE [w \in Word |-> IF s \in lost THEN {Junk} ELSE {}]]
    [] OTHER -> UNCHANGED flash

PowerFail ==
  /\ pc # "off"
  /\ TornFlash
  /\ pc' = "off"
  /\ offset' = 0 /\ dst' = 0 /\ next' = 0 /\ data' = None
  /\ hurt' = (hurt \/ pc = "erase")
  /\ UNCHANGED <<stored, attempt, tries, safe>>

(* matrix_init_user: the record is read into g_user_data.                  *)
Boot ==
  /\ pc = "off"
  /\ pc' = "idle"
  /\ data' = read_user_data
  /\ UNCHANGED <<flash, offset, dst, next, hist>>

Step ==
  \/ ScanCurrent \/ ScanSuperseded \/ ScanBlank \/ ScanTorn \/ ScanDead \/ ScanFull
  \/ EraseSector \/ Supersede \/ Bury \/ WriteNew \/ Retire

----------------------------------------------------------------------------

Next == (\E v \in Values : Begin(v)) \/ Step \/ PowerFail \/ Boot

Spec == Init /\ [][Next]_vars

(* main runs whenever no LED thread is ready: a save goes on step by step. *)
FairSpec == Spec /\ WF_vars(Step)

----------------------------------------------------------------------------
(* Properties.                                                             *)

AtRest == pc \in {"off", "idle"}

(* Once save_user_data has returned, a boot reads exactly what it saved,   *)
(* whatever failures and half-done saves came before it.                   *)
Durable == AtRest /\ tries = 0 => read_user_data = stored

(* A save that began on a tidy log holding a record, and that has room, is *)
(* atomic: power may fail at any of its steps, and the next boot still     *)
(* reads the old settings or the new ones, never a mixture and never       *)
(* nothing.                                                                *)
AtomicSave == safe => read_user_data \in {stored, attempt}

(* A save that returns leaves the log tidy, so that the next one is atomic *)
(* again, however many saves were interrupted before; only an interrupted  *)
(* erase leaves stale slots behind that later saves stumble over.          *)
TidyAtRest == AtRest /\ tries = 0 /\ ~hurt => Tidy

(* The sector is erased, losing every record until the next one is         *)
(* written, only when no slot that the scan visits is blank.               *)
EraseOnlyWhenFull ==
  [][pc' = "erase" => \A s \in 0 .. Slots - 2 : ~Blank(s)]_vars

(* A save that is begun comes to its end unless power fails.               *)
SaveEnds == pc = "scan" ~> AtRest

(* What the log promises its user, see SettingsRegister.                   *)
Register == INSTANCE SettingsRegister WITH
  value  <- read_user_data,
  saving <- ~AtRest,
  goal   <- attempt,
  clean  <- tries = 0

ImplementsRegister == Register!Spec
============================================================================
