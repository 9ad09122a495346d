----------------------------- MODULE LedControl ------------------------------
(***************************************************************************)
(* The keys that choose the lighting: the mode of the keys and of the head *)
(* and their speeds (key_led_*_func, head_led_*_func, key_led_speed_*,     *)
(* head_led_speed_* and process_record_user in led.c), what of it is saved *)
(* and what a boot finds again (key_led_init).                             *)
(*                                                                         *)
(* The main loop handles one key at a time; the LED threads only read what *)
(* it writes here.  Head mode 0 and key mode 0 are the mosaic flow, the    *)
(* other head modes and the last key modes are the custom animations.      *)
(***************************************************************************)
EXTENDS Integers

CONSTANTS
    BuiltIn,      \* how many key modes come before the custom ones (7)
    Custom,       \* how many custom modes there are (3)
    KeyStart,     \* the scan_step_ms a key mode starts with (7, one mode 5)
    HeadStart,    \* and a head mode (7)
    MaxInterval,  \* MAX_KEY_LED_INTERVAL_TIME, MAX_HEAD_LED_INTERVAL_TIME (200)
    Knee,         \* where the speed keys change their stride (100)
    Fine, Coarse, \* the strides below and above it (4, 10)
    Width         \* scan_step_ms is a uint16_t: 2^16

KeyModes  == 0 .. BuiltIn + Custom - 1     \* mode_list
HeadModes == 0 .. Custom                   \* head_mode_list
Min       == 0                             \* MIN_*_LED_INTERVAL_TIME

(* The key mode that goes with a head mode.                                *)
Companion(h) == IF h = 0 THEN 0 ELSE BuiltIn + h - 1

ASSUME LedControlAssumption ==
    /\ BuiltIn \in Nat \ {0} /\ Custom \in Nat
    /\ Fine \in Nat \ {0} /\ Coarse \in Nat \ {0} /\ Knee \in Nat
    /\ Fine <= Coarse /\ Coarse < Knee /\ Knee < MaxInterval
    /\ MaxInterval \in Nat /\ Width \in Nat /\ MaxInterval + Coarse <= Width
    /\ KeyStart \in [KeyModes -> 1 .. MaxInterval]
    /\ HeadStart \in [HeadModes -> 1 .. MaxInterval]
    /\ \A h \in HeadModes : KeyStart[Companion(h)] = HeadStart[h]

VARIABLES
    key_led_play, head_led_play,      \* the modes being played
    key_led_index, head_led_index,    \* where next and prev count from
    key_step, head_step,              \* scan_step_ms of every mode
    curr,                             \* g_user_data.curr_key_led and curr_head_led
    saving,                           \* save_user_data is under way
    saved,                            \* what the last settings record holds of them
    counted,                          \* history: the key index was set since the boot
    joined                            \* history: the head's mode set the keys', and no key moved them apart

modes == <<key_led_play, head_led_play, key_led_index, head_led_index>>
vars  == <<modes, key_step, head_step, curr, saving, saved, counted, joined>>

Nothing == [none |-> TRUE]
Choice  == [key : KeyModes, head : HeadModes]

TypeOK ==
    /\ key_led_play \in KeyModes /\ key_led_index \in KeyModes
    /\ head_led_play \in HeadModes /\ head_led_index \in HeadModes
    /\ key_step \in [KeyModes -> 0 .. Width - 1]
    /\ head_step \in [HeadModes -> 0 .. Width - 1]
    /\ curr \in Choice \cup {Nothing} /\ saving \in BOOLEAN
    /\ saved \in Choice \cup {Nothing}
    /\ counted \in BOOLEAN /\ joined \in BOOLEAN

Init ==
    /\ key_led_play = 0 /\ head_led_play = 0 /\ key_led_index = 0 /\ head_led_index = 0
    /\ key_step = KeyStart /\ head_step = HeadStart
    /\ curr = Nothing /\ saving = FALSE /\ saved = Nothing
    /\ counted = TRUE /\ joined = TRUE

-----------------------------------------------------------------------------
(* The settings.                                                           *)

Remember(key, head) == curr' = [key |-> key, head |-> head] /\ saving' = TRUE

(* save_user_data blocks the main loop; the power may fail before its end. *)
Save ==
    /\ saving
    /\ saved' = curr /\ saving' = FALSE
    /\ UNCHANGED <<modes, key_step, head_step, curr, counted, joined>>

\* A slip to compare with: the search goes on after the mode was found.
RestoredNoBreak(p, list) == IF p \in list /\ p + 1 \notin list THEN p ELSE 0

(* The search of key_led_init: a mode that is in its list, or the first.   *)
Restored(p, list) == IF p \in list THEN p ELSE 0

PowerCycle ==
    /\ curr' = saved /\ saving' = FALSE
    /\ key_led_play'  = IF saved = Nothing THEN 0 ELSE Restored(saved.key, KeyModes)
    /\ head_led_play' = IF saved = Nothing THEN 0 ELSE Restored(saved.head, HeadModes)
    /\ key_led_index' = 0 /\ head_led_index' = 0
    /\ key_step' = KeyStart /\ head_step' = HeadStart
    /\ counted' = FALSE /\ joined' = (key_led_play' = Companion(head_led_play'))
    /\ UNCHANGED saved

-----------------------------------------------------------------------------
(* The mode keys.                                                          *)

NextOf(i, n) == IF i + 1 >= n THEN 0 ELSE i + 1
PrevOf(i, n) == IF i = 0 THEN n - 1 ELSE i - 1

SetKeyMode(i) ==
    /\ ~saving
    /\ key_led_index' = i /\ key_led_play' = i
    /\ Remember(i, head_led_play)
    /\ counted' = TRUE /\ joined' = FALSE
    /\ UNCHANGED <<head_led_play, head_led_index, key_step, head_step, saved>>

KeyNext == SetKeyMode(NextOf(key_led_index, BuiltIn + Custom))
KeyPrev == SetKeyMode(PrevOf(key_led_index, BuiltIn + Custom))

\* A slip to compare with: the numbers do not follow a mode added to the list.
CompanionIndexStale(h) == IF h = 0 THEN 0 ELSE BuiltIn + h - 2

(* The place of a companion in mode_list, which the code writes as a       *)
(* number of its own: 0, 7, 8 or 9.                                        *)
CompanionIndex(h) == IF h = 0 THEN 0 ELSE BuiltIn + h - 1

\* A slip to compare with: the companion keeps the speed it had.
AdoptNothing(i) == key_step

(* The companion takes over the speed of the head's mode.                  *)
Adopt(i) == [key_step EXCEPT ![Companion(i)] = head_step[i]]

SetHeadMode(i) ==
    /\ ~saving
    /\ head_led_index' = i /\ head_led_play' = i
    /\ key_led_play' = Companion(i) /\ key_led_index' = CompanionIndex(i)
    /\ key_step' = Adopt(i)
    /\ Remember(Companion(i), i)
    /\ counted' = TRUE /\ joined' = TRUE
    /\ UNCHANGED <<head_step, saved>>

HeadNext == SetHeadMode(NextOf(head_led_index, Custom + 1))
HeadPrev == SetHeadMode(PrevOf(head_led_index, Custom + 1))

-----------------------------------------------------------------------------
(* The speed keys.                                                         *)

Stride(s) == IF s < Knee THEN Fine ELSE Coarse

\* A slip to compare with: the guard forgets the stride.
CanSpeedUpAnyway(s) == s > Min

CanSlowDown(s) == s < MaxInterval
CanSpeedUp(s)  == s > Min + Fine

\* A slip to compare with: an arithmetic that does not wrap.
MovedUnbounded(s, delta) == s + delta

(* Arithmetic on a uint16_t.                                               *)
Moved(s, delta) == (s + delta) % Width

(* key_led_speed_dec and key_led_speed_inc: not saved.                     *)
KeySpeed(allowed, delta) ==
    /\ ~saving /\ allowed
    /\ key_step' = [key_step EXCEPT ![key_led_play] = Moved(@, delta)]
    /\ joined' = FALSE
    /\ UNCHANGED <<modes, head_step, curr, saving, saved, counted>>

KeySlower == KeySpeed(CanSlowDown(key_step[key_led_play]), Stride(key_step[key_led_play]))
KeyFaster == KeySpeed(CanSpeedUp(key_step[key_led_play]), -Stride(key_step[key_led_play]))

(* haed_led_speed_dec and head_led_speed_inc: the keys' step moves by the  *)
(* head's stride, guarded by the head's step alone; then a save.           *)
HeadSpeed(allowed, delta) ==
    /\ ~saving /\ allowed
    /\ head_step' = [head_step EXCEPT ![head_led_play] = Moved(@, delta)]
    /\ key_step' = [key_step EXCEPT ![key_led_play] = Moved(@, delta)]
    /\ saving' = TRUE
    /\ UNCHANGED <<modes, curr, saved, counted, joined>>

HeadSlower == HeadSpeed(CanSlowDown(head_step[head_led_play]), Stride(head_step[head_led_play]))
HeadFaster == HeadSpeed(CanSpeedUp(head_step[head_led_play]), -Stride(head_step[head_led_play]))

Next ==
    \/ KeyNext
    \/ KeyPrev
    \/ HeadNext
    \/ HeadPrev
    \/ KeySlower
    \/ KeyFaster
    \/ HeadSlower
    \/ HeadFaster
    \/ Save
    \/ PowerCycle

Spec == Init /\ [][Next]_vars

-----------------------------------------------------------------------------
(* Whatever the order of speed keys, the head's step stays above zero and  *)
(* less than a stride over its maximum: the guards of head_led_speed_inc   *)
(* and haed_led_speed_dec keep a uint16_t from wrapping.                   *)
HeadSpeedInRange ==
    \A h \in HeadModes : head_step[h] \in Min + 1 .. MaxInterval + Coarse - 1

(* After a change of the head's mode the keys play its companion, from the *)
(* companion's place in mode_list and at the head's own speed, and the     *)
(* head's speed keys keep them together: the two LED threads wait for each *)
(* other at the end of a frame and count on equal delays.                  *)
InStep ==
    joined => /\ key_led_play = Companion(head_led_play)
              /\ key_step[key_led_play] = head_step[head_led_play]

(* From the first mode key after a boot on, the next and previous mode are *)
(* counted from the mode that is played.                                   *)
CountsFromHere == counted => key_led_index = key_led_play

(* A mode that was chosen and saved is the mode after the power came back  *)
(* (mode keys against key_led_init).                                       *)
ModesSurvive ==
    [][PowerCycle /\ ~saving => UNCHANGED <<key_led_play, head_led_play>>]_vars

(* The keys' step stays within MAX_KEY_LED_INTERVAL_TIME and a stride: a   *)
(* step that wraps below zero is far above it.                             *)
KeySpeedInRange ==
    \A m \in KeyModes : key_step[m] < MaxInterval + Coarse
=============================================================================
