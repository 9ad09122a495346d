------------------------------ MODULE LedThreads ------------------------------
(***************************************************************************)
(* The brightness of the LEDs: what led_scan_thread and                    *)
(* head_led_scan_thread of led.c ask for, frame by frame, and what the     *)
(* AW20216 chips are told, while keys change the brightness and chips lose *)
(* their registers and are initialised again.                              *)
(*                                                                         *)
(* A thread decides on a brightness when it starts a frame and then visits *)
(* its chips, one call of aw_disp_one_chip_data under myMutex being one    *)
(* step; a chip is told its brightness only when it differs from the one   *)
(* it was told last.  The key thread checks one chip every few frames and  *)
(* initialises all of them when that one is no longer enabled.             *)
(*                                                                         *)
(* The last chip of the head is the side's.  While SignalRGB streams, the  *)
(* thread draws it last and as bright as the others; otherwise the head's  *)
(* effect draws it before them, and asks the power key once more.          *)
(***************************************************************************)
EXTENDS Integers

CONSTANTS
    Chips,       \* thread |-> the number of its chips (2 and 5)
    Width,       \* light_up and the lightnesses are uint8_t: 2^8
    Last,        \* the highest brightness index (10)
    Lightness,   \* key_led_lightness_code, indexed from 0
    StartIndex,  \* the index both threads start with (7)
    CheckEvery,  \* the key thread checks its first chip every 50 frames
    QuickKeys    \* whether a brightness key may come between a restart of the
                 \* chips and the next frame of a thread

Threads == {"key", "head"}
Indexes == 0 .. Last
Chip    == UNION {{t} \X (1 .. Chips[t]) : t \in Threads}
Checked == <<"key", 1>>                      \* LED_CS1
Side    == <<"head", Chips["head"]>>         \* AW_CHIP_INDEX_6

ASSUME LedThreadsAssumption ==
    /\ Chips \in [Threads -> {1, 2, 3, 4, 5}]
    /\ Width \in Nat \ {0} /\ CheckEvery \in Nat \ {0}
    /\ Last \in Nat /\ Lightness \in [0 .. Last -> 0 .. Width - 1]
    /\ Lightness[0] = 0 /\ StartIndex \in 0 .. Last
    /\ QuickKeys \in BOOLEAN

VARIABLES
    index,       \* g_key_lightness_index, g_head_lightness_index
    led_switch,  \* led_switch_g
    light_up_complete,   \* the fade after power on is over
    lightness,   \* key_lightness, head_lightness: what this frame shows, and light_up
                 \* as long as the fade lasts
    streaming,   \* signalrgb_mode_enabled(), as this frame of the head found it
    at,          \* which of its chips a thread draws next, by turn; 0 between frames
    count,       \* led_count of the key thread, modulo CheckEvery
    told,        \* chipN_last_brightness
    hw,          \* the brightness registers of every chip
    on,          \* the enable bit of every chip
    late,        \* history: the chips were restarted, no frame has started since
    lost         \* history: a chip of the thread lost its registers, no restart since

threadVars == <<light_up_complete, lightness, streaming, at, count>>
chipVars   == <<told, hw, on>>
vars       == <<index, led_switch, threadVars, chipVars, late, lost>>

Byte == 0 .. Width - 1

TypeOK ==
    /\ index \in [Threads -> Indexes] /\ led_switch \in [Threads -> BOOLEAN]
    /\ light_up_complete \in [Threads -> BOOLEAN]
    /\ lightness \in [Threads -> Byte] /\ streaming \in BOOLEAN
    /\ at \in [Threads -> Nat] /\ \A t \in Threads : at[t] <= Chips[t] + 1
    /\ count \in 0 .. CheckEvery - 1
    /\ told \in [Chip -> Byte] /\ hw \in [Chip -> Byte] /\ on \in [Chip -> BOOLEAN]
    /\ late \in [Threads -> BOOLEAN] /\ lost \in [Threads -> BOOLEAN]

Init ==
    /\ index = [t \in Threads |-> StartIndex] /\ led_switch = [t \in Threads |-> TRUE]
    /\ light_up_complete = [t \in Threads |-> FALSE]
    /\ lightness = [t \in Threads |-> 0] /\ streaming = FALSE
    /\ at = [t \in Threads |-> 0] /\ count = 0
    /\ told = [c \in Chip |-> 0] /\ hw = told /\ on = [c \in Chip |-> TRUE]
    /\ late = [t \in Threads |-> FALSE] /\ lost = late

-----------------------------------------------------------------------------
(* A frame.                                                                *)

\* A slip to compare with: the fade stops at the largest value.
BrighterSaturating(l) == IF l + 1 < Width THEN l + 1 ELSE l

\* A slip to compare with: the counter of the fade is wider than its values.
BrighterWide(l) == l + 1

Brighter(l) == (l + 1) % Width     \* light_up++

(* led_sleep is written nowhere, so its branch is never taken.  During the *)
(* fade the brightness is light_up, whatever the switch says;              *)
(* the fade ends when light_up meets the brightness of the index.          *)
StartFrame(t) ==
    /\ at[t] = 0
    /\ LET up     == Brighter(lightness[t])
           chosen == IF led_switch[t] THEN Lightness[index[t]] ELSE 0 IN
       IF light_up_complete[t]
       THEN lightness' = [lightness EXCEPT ![t] = chosen] /\ UNCHANGED light_up_complete
       ELSE /\ lightness' = [lightness EXCEPT ![t] = up]
            /\ light_up_complete' = [light_up_complete EXCEPT ![t] = (up = Lightness[index[t]])]
    /\ at' = [at EXCEPT ![t] = 1]
    /\ count' = IF t = "key" THEN (count + 1) % CheckEvery ELSE count
    /\ IF t = "head" THEN streaming' \in BOOLEAN ELSE UNCHANGED streaming
    /\ late' = [late EXCEPT ![t] = FALSE]
    /\ UNCHANGED <<index, led_switch, chipVars, lost>>

(* Which turn of a frame a chip has: the side chip the first, while its    *)
(* effect is played.                                                       *)
Turn(c) ==
    IF c[1] = "head" /\ ~streaming THEN (IF c = Side THEN 1 ELSE c[2] + 1) ELSE c[2]

(* What a chip is asked for: the side chip's effect looks at the power key *)
(* when it draws, and does not know of the fade.                           *)
Wanted(c) == IF c = Side /\ ~streaming /\ ~led_switch["head"] THEN 0 ELSE lightness[c[1]]

\* A slip to compare with: the brightness is noted for the chip and not sent.
SendLate(c, l) == IF told[c] # 0 /\ l # 0 THEN hw ELSE [hw EXCEPT ![c] = l]

Send(c, l) == [hw EXCEPT ![c] = l]

(* aw_disp_one_chip_data.                                                  *)
DrawChip(t) ==
    /\ \E k \in 1 .. Chips[t] :
          LET c == <<t, k>> IN
          /\ Turn(c) = at[t]
          /\ IF told[c] # Wanted(c)
             THEN hw' = Send(c, Wanted(c)) /\ told' = [told EXCEPT ![c] = Wanted(c)]
             ELSE UNCHANGED <<hw, told>>
    /\ at' = [at EXCEPT ![t] = @ + 1]
    /\ UNCHANGED <<index, led_switch, light_up_complete, lightness, streaming, count, on,
                   late, lost>>

CheckDue == count = 0

EndFrame(t) ==
    /\ at[t] = Chips[t] + 1
    /\ t = "key" => ~CheckDue \/ on[Checked]
    /\ at' = [at EXCEPT ![t] = 0]
    /\ streaming' = (streaming /\ t # "head")
    /\ UNCHANGED <<index, led_switch, light_up_complete, lightness, count, chipVars, late,
                   lost>>

\* A slip to compare with: only the chips of the thread that checks.
InitialisedOwn == {c \in Chip : c[1] = "key"}

Initialised == Chip

(* The key thread's check finds the chip disabled: under myMutex all chips *)
(* are initialised with brightness 0 and both indexes are set to 0.  What  *)
(* the chips were told last is not touched.                                *)
Restart ==
    /\ at["key"] = Chips["key"] + 1 /\ CheckDue /\ ~on[Checked]
    /\ on' = [c \in Chip |-> on[c] \/ c \in Initialised]
    /\ hw' = [c \in Chip |-> IF c \in Initialised THEN 0 ELSE hw[c]]
    /\ index' = [t \in Threads |-> 0]
    /\ at' = [at EXCEPT !["key"] = 0]
    /\ late' = [t \in Threads |-> TRUE] /\ lost' = [t \in Threads |-> FALSE]
    /\ UNCHANGED <<led_switch, light_up_complete, lightness, streaming, count, told>>

-----------------------------------------------------------------------------
(* The keys, and the world.                                                *)

Lightness_ins(t) ==
    /\ QuickKeys \/ \A u \in Threads : ~late[u]
    /\ index[t] # Last
    /\ index' = [index EXCEPT ![t] = @ + 1]
    /\ UNCHANGED <<led_switch, threadVars, chipVars, late, lost>>

Lightness_dec(t) ==
    /\ index[t] > 0
    /\ index' = [index EXCEPT ![t] = @ - 1]
    /\ UNCHANGED <<led_switch, threadVars, chipVars, late, lost>>

Power(t) ==
    /\ led_switch' = [led_switch EXCEPT ![t] = ~@]
    /\ UNCHANGED <<index, threadVars, chipVars, late, lost>>

(* Chips lose their registers: disabled and dark.                          *)
Lose ==
    /\ \E S \in SUBSET Chip :
          /\ S # {} /\ \A c \in S : on[c]
          /\ on' = [c \in Chip |-> on[c] /\ c \notin S]
          /\ hw' = [c \in Chip |-> IF c \in S THEN 0 ELSE hw[c]]
          /\ lost' = [t \in Threads |-> lost[t] \/ \E c \in S : c[1] = t]
    /\ UNCHANGED <<index, led_switch, threadVars, told, late>>

Frame(t) == StartFrame(t) \/ DrawChip(t) \/ EndFrame(t) \/ (t = "key" /\ Restart)

Next ==
    \/ \E t \in Threads : StartFrame(t)
    \/ \E t \in Threads : DrawChip(t)
    \/ \E t \in Threads : EndFrame(t)
    \/ Restart
    \/ \E t \in Threads : Lightness_ins(t)
    \/ \E t \in Threads : Lightness_dec(t)
    \/ \E t \in Threads : Power(t)
    \/ Lose

Spec == Init /\ [][Next]_vars

(* The threads never stop drawing frames.                                  *)
FairSpec == Spec /\ \A t \in Threads : WF_vars(Frame(t))

-----------------------------------------------------------------------------
(* When its frame is drawn, and until the next one, every chip of a thread *)
(* has the brightness it was asked for, although it is sent only on a      *)
(* change and a restart zeroes the chips behind the back of the record of  *)
(* what they were told (aw_disp_one_chip_data against the restart in       *)
(* led_scan_thread).  The side chip may have been asked for nothing, if    *)
(* its effect found the power off; never by a frame of SignalRGB.          *)
ChipsMatch ==
    \A t \in Threads : at[t] \in {0, Chips[t] + 1} /\ ~late[t] /\ ~lost[t] =>
        \A c \in {t} \X (1 .. Chips[t]) :
            \/ hw[c] = lightness[t]
            \/ c = Side /\ ~streaming /\ hw[c] = 0 /\ told[c] = 0

(* The fade after power on comes to its end when the index is left alone,  *)
(* even if the index was lowered below what the fade had reached.          *)
FadeEnds ==
    \A t \in Threads :
        <>[][index'[t] = index[t]]_vars => <>light_up_complete[t]

(* When the chip that is checked is lost, all chips are enabled again.     *)
Recovers == ~on[Checked] ~> \A c \in Chip : on[c]
=============================================================================
