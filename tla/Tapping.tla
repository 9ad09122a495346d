------------------------------- MODULE Tapping -------------------------------
(***************************************************************************)
(* Keys with two roles: action_tapping_process and process_tapping of      *)
(* quantum/action_tapping.c, with what process_action of quantum/action.c  *)
(* makes of the records they pass on.                                      *)
(*                                                                         *)
(* While it is open whether the tapping key is tapped or held, records     *)
(* wait in a buffer.  The decision sets them free one after the other,     *)
(* until one of them is a tapping key in its turn.  Three things disturb   *)
(* this, and a key may then get stuck: the call that brings a new record   *)
(* looks at it before those that wait, even if no decision is open; a key  *)
(* that is tapped once more does not look for its release among them; and  *)
(* what waits was decided on in part when the settings change.             *)
(***************************************************************************)
EXTENDS Integers, Sequences, FiniteSets

CONSTANTS
    Keys,
    Keymaps,                \* keymaps: a kind for each key
    NoKey,                  \* no key: a tick, or nothing tapping
    WAITING_BUFFER_SIZE,    \* 8
    TapMax,                 \* the count of taps stops at 15
    Width,                  \* the timer wraps at 2^16
    Terms,                  \* values of QS.tapping_term
    Tappings,               \* values of QS.tapping, as sets of its bits
    MaxGap,                 \* bound: the longest time between two passes of the main loop
    Stalls                  \* the loop may miss the ticks for as long as a key is deaf

Kinds == {"plain", "mod", "mod_tap"}
Bits  == {"permissive_hold", "ignore_mod_tap_interrupt", "tapping_force_hold"}

ASSUME TappingAssumption ==
    /\ NoKey \notin Keys /\ Keymaps \subseteq [Keys -> Kinds]
    /\ WAITING_BUFFER_SIZE \in Nat \ {0} /\ TapMax \in Nat \ {0, 1}
    /\ Width \in Nat \ {0} /\ Terms \subseteq 0 .. Width - 1
    /\ Tappings \subseteq SUBSET Bits /\ MaxGap \in Nat \ {0} /\ Stalls \in BOOLEAN

VARIABLES
    keymap,
    QS,                 \* the settings of taps
    timer,              \* timer_read()
    down,               \* matrix_previous: the keys that are down
    tapping_key,
    waiting_buffer,
    registered,         \* what the host was told: pairs of a key and its role
    owed,               \* history: how often the presses of a key are still to be passed on
    disturbed,          \* history: one of the three things came to pass (see above)
    fresh               \* keys that changed since the last tick, unless Stalls

vars == <<keymap, QS, timer, down, tapping_key, waiting_buffer, registered, owed,
          disturbed, fresh>>

Record == [key : Keys \cup {NoKey}, pressed : BOOLEAN, time : 0 .. Width - 1,
           count : 0 .. TapMax, interrupted : BOOLEAN]

Event(k, pressed, now) ==
    [key |-> k, pressed |-> pressed, time |-> now, count |-> 0, interrupted |-> FALSE]

None   == Event(NoKey, FALSE, 0)
NoOnes == [k \in Keys |-> 0]

TypeOK ==
    /\ keymap \in Keymaps /\ QS \in [tapping : Tappings, tapping_term : Terms]
    /\ timer \in 0 .. Width - 1 /\ down \in SUBSET Keys
    /\ tapping_key \in Record
    /\ waiting_buffer \in Seq(Record) /\ Len(waiting_buffer) < WAITING_BUFFER_SIZE
    /\ registered \in SUBSET (Keys \X {"code", "mods"})
    /\ owed \in [Keys -> Int] /\ disturbed \in BOOLEAN /\ fresh \in SUBSET Keys

Init ==
    /\ keymap \in Keymaps /\ QS \in [tapping : Tappings, tapping_term : Terms]
    /\ timer = 0 /\ down = {}
    /\ tapping_key = None /\ waiting_buffer = <<>>
    /\ registered = {} /\ owed = NoOnes /\ disturbed = FALSE /\ fresh = {}

-----------------------------------------------------------------------------
(* The operators of a call take and return a record of what it may change. *)
State == [tap |-> tapping_key, buf |-> waiting_buffer, reg |-> registered, owed |-> owed,
          disturbed |-> disturbed]

Set(bit)     == bit \in QS.tapping
IsTap(r)     == r.key # NoKey /\ keymap[r.key] = "mod_tap"
Within(t, r) == (r.time - t.time) % Width < QS.tapping_term

(* A mod-tap's press cancels a tap that was interrupted: it is a hold.     *)
Acted(r) ==
    IF r.pressed /\ r.interrupted /\ ~Set("ignore_mod_tap_interrupt")
    THEN [r EXCEPT !.count = 0] ELSE r

Role(r) == <<r.key, IF IsTap(r) /\ r.count = 0 THEN "mods" ELSE "code">>

(* process_record: a press registers a role and a release takes it back.   *)
Process(s, r) ==
    IF r.key = NoKey THEN s
    ELSE IF ~r.pressed THEN [s EXCEPT !.reg = @ \ {Role(r)}]
    ELSE [s EXCEPT !.reg = @ \cup {Role(Acted(r))}, !.owed[r.key] = @ - 1]

Start(s, r) == [s EXCEPT !.tap = r]
Forget(s)   == [s EXCEPT !.tap = None]

(* What process_tapping returns, with the record as it leaves it.          *)
Consumed(s, r) == [s |-> s, rec |-> r, done |-> TRUE]
Waits(s, r)    == [s |-> s, rec |-> r, done |-> FALSE]

(* waiting_buffer_typed                                                    *)
Typed(s, r) ==
    \E i \in DOMAIN s.buf : s.buf[i].key = r.key /\ s.buf[i].pressed # r.pressed

\* A slip to compare with: what already waits is not looked at.
NoScan(s) == s

(* Releases that wait and would end the tap.                               *)
Ends(s) == {i \in DOMAIN s.buf : /\ s.buf[i].key = s.tap.key /\ ~s.buf[i].pressed
                                 /\ Within(s.tap, s.buf[i])}

(* waiting_buffer_scan_tap: a release that waits already makes it a tap.   *)
ScanTap(s) ==
    LET i   == CHOOSE j \in Ends(s) : \A l \in Ends(s) : j <= l
        tap == [s.tap EXCEPT !.count = 1]
    IN  IF s.tap.count > 0 \/ Ends(s) = {} THEN s
        ELSE Process([s EXCEPT !.tap = Acted(tap), !.buf[i].count = 1], tap)

(* Releases that are kept until the end of the tapping: a modifier's.      *)
Retained(r) == keymap[r.key] = "mod" \/ (IsTap(r) /\ r.count = 0)

\* A slip to compare with: the release does not learn that it ends a tap.
PlainRelease(r, t) == r

(* The release takes over what is known of the tap.                        *)
Release(r, t) == [r EXCEPT !.count = t.count, !.interrupted = t.interrupted]

(* The tapping key is down, within its term, and not tapped yet.           *)
Undecided(s, r) ==
    LET tap    == [s.tap EXCEPT !.count = 1]
        tapped == Process(Start(s, Acted(tap)), tap)
        nested == Typed(s, r) /\ Set("permissive_hold")
    IN  CASE r.key = NoKey -> Waits(s, r)
          [] r.pressed -> Waits([s EXCEPT !.tap.interrupted = TRUE], r)
          [] ~r.pressed /\ r.key = s.tap.key -> Waits(tapped, Release(r, tapped.tap))
          [] ~r.pressed /\ r.key \notin {s.tap.key, NoKey} /\ nested ->
                Waits(Forget(Process(s, s.tap)), r)
          [] ~r.pressed /\ r.key \notin {s.tap.key, NoKey} /\ ~nested ->
                IF Typed(s, r) \/ Retained(r) THEN Waits(s, r) ELSE Consumed(Process(s, r), r)

(* The tapping key is down and its tap has been registered.                *)
Tapped(s, r) ==
    LET up   == Release(r, s.tap)
        last == [s.tap EXCEPT !.pressed = FALSE, !.time = r.time]
        left == IF s.tap.count > 1 THEN Process(s, last) ELSE s
    IN  CASE r.key = s.tap.key /\ ~r.pressed ->
                Consumed(Start(Process(s, up), IF Within(s.tap, r) THEN up ELSE None), up)
          [] r.pressed /\ IsTap(r) -> Consumed(ScanTap(Start(left, r)), r)
          [] OTHER -> Consumed(Process(s, r), r)

(* A new tap of the same key: its releases that wait are not looked for.   *)
StartAgain(s, r) == [s EXCEPT !.tap = r, !.disturbed = @ \/ Ends(Start(s, r)) # {}]

(* The tapping key is up and its term has not passed since.                *)
JustTapped(s, r) ==
    LET own   == r.key = s.tap.key
        more  == IF s.tap.count < TapMax THEN s.tap.count + 1 ELSE TapMax
        again == [r EXCEPT !.count = more]
    IN  CASE ~r.pressed -> Consumed(Process(s, r), r)
          [] r.pressed /\ own ->
                IF Set("tapping_force_hold") \/ s.tap.interrupted \/ s.tap.count = 0
                THEN Consumed(StartAgain(s, r), r)
                ELSE Consumed(Start(Process(s, again), again), again)
          [] r.pressed /\ ~own /\ IsTap(r) -> Consumed(ScanTap(Start(s, r)), r)
          [] r.pressed /\ ~own /\ ~IsTap(r) ->
                Consumed(Process([s EXCEPT !.tap.interrupted = TRUE], r), r)

\* A slip to compare with: a record that ends the term is not kept.
NotKept(s, r) == Consumed(Forget(Process(s, s.tap)), r)

\* A slip to compare with: only key events look at the term.
KeysOnly(s, r) ==
    IF r.key = NoKey THEN Waits(s, r) ELSE Waits(Forget(Process(s, s.tap)), r)

(* The term of a key that is down has passed: it is held.                  *)
Expired(s, r) == Waits(Forget(Process(s, s.tap)), r)

(* process_tapping                                                         *)
ProcessTapping(s, r) ==
    LET t == s.tap
    IN  CASE t.key = NoKey ->
                IF r.pressed /\ IsTap(r) THEN Consumed(ScanTap(Start(s, r)), r)
                ELSE Consumed(Process(s, r), r)
          [] t.key # NoKey /\ t.pressed /\ t.count > 0 -> Tapped(s, r)
          [] t.key # NoKey /\ t.pressed /\ t.count = 0 ->
                IF Within(t, r) THEN Undecided(s, r) ELSE Expired(s, r)
          [] t.key # NoKey /\ ~t.pressed ->
                IF Within(t, r) THEN JustTapped(s, r) ELSE Waits(Forget(s), r)

IsOpen(s) == s.tap.key # NoKey /\ s.tap.pressed /\ s.tap.count = 0

(* How many presses of a key wait: in the buffer, and as a tapping key     *)
(* that is not decided.                                                    *)
Presses(buf, k) == Cardinality({i \in DOMAIN buf : buf[i].key = k /\ buf[i].pressed})
Pending(s, k)   == IF IsOpen(s) /\ s.tap.key = k THEN 1 ELSE 0
Waiting(s, k)   == Presses(s.buf, k) + Pending(s, k)

(* All that wait are dropped, and r with them, without being passed on.    *)
Cleared(s, r) ==
    [s EXCEPT !.tap = None, !.buf = <<>>, !.reg = {},
              !.owed = [k \in Keys |-> @[k] - Waiting(s, k)
                                             - IF k = r.key /\ r.pressed THEN 1 ELSE 0]]

\* A slip to compare with: the buffer is taken to hold all of its slots.
EnqueuedFull(s, r) ==
    IF r.key = NoKey THEN s
    ELSE IF Len(s.buf) < WAITING_BUFFER_SIZE THEN [s EXCEPT !.buf = Append(@, r)]
    ELSE Cleared(s, r)

(* waiting_buffer_enq; when the buffer is full all is cleared.             *)
Enqueued(s, r) ==
    IF r.key = NoKey THEN s
    ELSE IF Len(s.buf) + 1 < WAITING_BUFFER_SIZE THEN [s EXCEPT !.buf = Append(@, r)]
    ELSE Cleared(s, r)

(* One round of the loop over the records that wait.                       *)
Round(s) ==
    LET p == ProcessTapping(s, Head(s.buf))
    IN  [done |-> p.done,
         s    |-> [p.s EXCEPT !.buf = IF p.done THEN Tail(@) ELSE [@ EXCEPT ![1] = p.rec]]]

Drained(s) ==
    LET after[n \in 0 .. Len(s.buf)] ==
            IF n = 0 THEN [done |-> TRUE, s |-> s]
            ELSE LET p == after[n - 1] IN IF p.done THEN Round(p.s) ELSE p
    IN  after[Len(s.buf)].s

Open == IsOpen(State)

(* The release of a mod-tap that was interrupted within its term passes    *)
(* its press on in advance, as a hold, and leaves it open whether it is    *)
(* one, so that the press is passed on again when that is decided.         *)
InAdvance(s, r) ==
    /\ IsOpen(s) /\ r.key = s.tap.key /\ ~r.pressed /\ Within(s.tap, r)
    /\ s.tap.interrupted /\ ~Set("ignore_mod_tap_interrupt")

(* How often a new record gives cause to pass a press of key k on.         *)
Due(s, r, k) == IF k = r.key /\ (r.pressed \/ InAdvance(s, r)) THEN 1 ELSE 0

(* action_tapping_process                                                  *)
ActionTapping(r) ==
    LET s == [State EXCEPT
                !.owed  = [k \in Keys |-> owed[k] + Due(State, r, k)],
                !.disturbed = @ \/ (r.key # NoKey /\ waiting_buffer # <<>> /\ ~Open)]
    IN  \E p \in {ProcessTapping(s, r)} :
        \E after \in {Drained(IF p.done THEN p.s ELSE Enqueued(p.s, p.rec))} :
            /\ tapping_key' = after.tap /\ waiting_buffer' = after.buf
            /\ registered' = after.reg /\ disturbed' = after.disturbed
            /\ owed' = IF after.disturbed THEN NoOnes ELSE after.owed

-----------------------------------------------------------------------------
Clock(d) == timer' = (timer + d) % Width

(* A pass of the main loop finds a key changed, d after the last pass ...  *)
Change(k, d) ==
    /\ k \notin fresh /\ fresh' = IF Stalls THEN {} ELSE fresh \cup {k}
    /\ Clock(d) /\ UNCHANGED <<keymap, QS>>
    /\ down' = IF k \in down THEN down \ {k} ELSE down \cup {k}
    /\ ActionTapping(Event(k, k \notin down, timer'))

(* ... or finds none changed, and then makes a tick event.                 *)
Quiet(d) == Clock(d) /\ UNCHANGED <<keymap, QS, down>>

Tick(d) == Quiet(d) /\ fresh' = {} /\ ActionTapping(Event(NoKey, FALSE, timer'))

(* The host writes the settings of taps.                                   *)
SetTapping(tapping, term) ==
    /\ QS' = [tapping |-> tapping, tapping_term |-> term]
    /\ disturbed' = (disturbed \/ (waiting_buffer # <<>> /\ QS' # QS))
    /\ UNCHANGED <<keymap, timer, down, tapping_key, waiting_buffer, registered, owed, fresh>>

Next ==
    \/ \E k \in Keys, d \in 0 .. MaxGap : Change(k, d)
    \/ \E d \in 1 .. MaxGap : Tick(d)
    \/ \E tapping \in Tappings, term \in Terms : SetTapping(tapping, term)

Spec == Init /\ [][Next]_vars

(* The main loop makes ticks again and again.                              *)
FairSpec == Spec /\ WF_<<keymap, QS, timer, down>>(\E d \in 1 .. MaxGap : Quiet(d))

-----------------------------------------------------------------------------
(* With no record waiting, the host is told of no key that is up: what was *)
(* registered by a press, in whichever role, is taken back by the release. *)
NoneStuck == waiting_buffer = <<>> => \A role \in registered : role[1] \in down

(* This holds unless a record was taken up before others that waited for   *)
(* no decision, a tapping key began again with its release in the buffer,  *)
(* or the settings were changed while records waited.                      *)
StuckOnlyIfDisturbed == ~disturbed => NoneStuck

(* No press is lost in the buffer and none is taken up twice: what is      *)
(* still to be passed on to process_record is what waits, under the same   *)
(* conditions.  A press counts once; again for each release that passes it *)
(* on in advance (InAdvance); and no more when a full buffer is cleared    *)
(* (Cleared), which is the one way to lose it.                             *)
EachPressOnce == ~disturbed => \A k \in Keys : owed[k] = Waiting(State, k)

(* The record of this step's pass of the main loop.                        *)
Latest ==
    LET ks == (down' \ down) \cup (down \ down')
    IN  IF ks = {} THEN Event(NoKey, FALSE, timer')
        ELSE Event(CHOOSE k \in ks : TRUE, ks \subseteq down', timer')

(* The records not decided on when this step has come to its own: a hold   *)
(* can only be made out from these.                                        *)
Undecideds == (IF Open THEN <<tapping_key>> ELSE <<>>) \o waiting_buffer \o <<Latest>>

(* The places of key's presses after which no release comes within a term. *)
Holds(rs, k) ==
    {i \in DOMAIN rs : /\ rs[i].key = k /\ rs[i].pressed
                       /\ \A j \in DOMAIN rs :
                              j > i /\ rs[j].key = k => ~Within(rs[i], rs[j])}

HeldForTerm(rs, k) == \E i \in Holds(rs, k) : (timer' - rs[i].time) % Width >= QS.tapping_term

(* Places behind i of the press and of the release of one and the same key.*)
Pairs(rs, i) ==
    {p \in (i + 1 .. Len(rs)) \X (i + 1 .. Len(rs)) :
        /\ rs[p[1]].key = rs[p[2]].key /\ rs[p[1]].key # rs[i].key
        /\ rs[p[1]].pressed /\ ~rs[p[2]].pressed}

(* Another key came down while this one was down.                          *)
Interrupted(rs, k) ==
    \E i, j, l \in DOMAIN rs :
        /\ i < j /\ j < l /\ rs[i].key = k /\ rs[i].pressed
        /\ rs[j].key # k /\ rs[j].pressed /\ rs[l].key = k /\ ~rs[l].pressed

NewlyHeld == {k \in Keys : keymap[k] = "mod_tap" /\ <<k, "mods">> \in registered' \ registered}

(* "The default mode selects the hold action only if the dual-role key is  *)
(* held down longer than the tapping term"; permissive hold adds the case  *)
(* that "another key is tapped (pressed and then released)" while it is    *)
(* down (docs/tap_hold.md:121, 123).  But of the key that was typed the    *)
(* code only asks that press and release wait together, in any order; and  *)
(* a record that waits although nothing is open is older than the tapping  *)
(* key it meets, so that the time between them wraps round past any term.  *)
HoldAsDocumented ==
    [][QS' = QS /\ Set("ignore_mod_tap_interrupt") => \A k \in NewlyHeld :
          \/ HeldForTerm(Undecideds, k)
          \/ /\ Set("permissive_hold")
             /\ \E i \in Holds(Undecideds, k) : \E p \in Pairs(Undecideds, i) : p[1] < p[2]]_vars

(* Under the same conditions, a key with two roles is held only if it was  *)
(* down for a term, if another key was typed and permissive hold is set,   *)
(* or if another key came down before its release and such interrupts are  *)
(* not ignored.                                                            *)
HoldTakesTerm ==
    [][QS' = QS /\ ~disturbed' => \A k \in NewlyHeld :
          \/ HeldForTerm(Undecideds, k)
          \/ /\ Set("permissive_hold")
             /\ \E i \in Holds(Undecideds, k) : Pairs(Undecideds, i) # {}
          \/ ~Set("ignore_mod_tap_interrupt") /\ Interrupted(Undecideds, k)]_vars

(* When the keys and the settings rest, every record is passed on.  The    *)
(* ticks this takes come from passes of the main loop that find no change; *)
(* matrix_task makes none while a row that has a ghost is held and differs *)
(* from what was reported (keyboard.c:473-483), and Drains is of the time  *)
(* when no row does.                                                       *)
Drains == <>[][down' = down /\ QS' = QS]_vars => <>[](waiting_buffer = <<>>)
=============================================================================
