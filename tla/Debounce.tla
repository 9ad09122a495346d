------------------------------ MODULE Debounce -------------------------------
(***************************************************************************)
(* One scan of the key matrix: matrix_scan of quantum/matrix.c with the    *)
(* debouncer this keyboard is built with, sym_eager_pk.                    *)
(*                                                                         *)
(* A key is taken at the scan that sees it change, and is then deaf for    *)
(* DEBOUNCE milliseconds.  The counters of all keys are counted down       *)
(* together, by the time since the last scan that counted, and only while  *)
(* two flags say that there is something to count or to take: a flag that  *)
(* is dropped too early forgets a key, one that keeps a stale time lets a  *)
(* bounce through.                                                         *)
(***************************************************************************)
EXTENDS Integers

CONSTANTS
    Keys,       \* the switches of the matrix
    DEBOUNCE,   \* how long a key is deaf (10)
    ByteMax,    \* UINT8_MAX: counters and elapsed_time are bytes
    Width,      \* fast_timer_t wraps at 2^32 milliseconds
    MaxGap      \* bound: the longest time between two scans

ASSUME DebounceAssumption ==
    /\ ByteMax \in Nat /\ DEBOUNCE \in 1 .. ByteMax
    /\ Width \in Nat /\ MaxGap \in Nat /\ MaxGap < Width

VARIABLES
    timer,                  \* timer_read_fast()
    raw,                    \* raw_matrix: the keys that are closed
    cooked,                 \* matrix: the keys that are down for everyone else
    counters,               \* debounce_counters
    last_time,
    counters_need_update,
    matrix_need_update,
    quiet                   \* history: how long a key has not been taken, up to DEBOUNCE

flags == <<counters_need_update, matrix_need_update>>
vars  == <<timer, raw, cooked, counters, last_time, flags, quiet>>

TypeOK ==
    /\ timer \in 0 .. Width - 1 /\ last_time \in 0 .. Width - 1
    /\ raw \in SUBSET Keys /\ cooked \in SUBSET Keys
    /\ counters \in [Keys -> 0 .. DEBOUNCE]
    /\ counters_need_update \in BOOLEAN /\ matrix_need_update \in BOOLEAN
    /\ quiet \in [Keys -> 0 .. DEBOUNCE]

Init ==
    /\ timer \in 0 .. Width - 1 /\ last_time = 0
    /\ raw = {} /\ cooked = {}
    /\ counters = [k \in Keys |-> 0]
    /\ counters_need_update = FALSE /\ matrix_need_update = FALSE
    /\ quiet = [k \in Keys |-> DEBOUNCE]

-----------------------------------------------------------------------------
\* A slip to compare with: the difference is cut to a byte, not limited to one.
ElapsedCut(now) == ((now - last_time) % Width) % (ByteMax + 1)

(* TIMER_DIFF_FAST, limited to a byte.                                     *)
Elapsed(now) ==
    LET diff == (now - last_time) % Width IN IF diff > ByteMax THEN ByteMax ELSE diff

\* A slip to compare with: a counter that is down to the last scan is left.
CountedStuck(c, elapsed) == IF c < elapsed THEN 0 ELSE IF c = elapsed THEN c ELSE c - elapsed

\* A slip to compare with: the counter is not stopped at zero.
CountedOn(c, elapsed) == c - elapsed

(* update_debounce_counters, for one key.                                  *)
Counted(c, elapsed) == IF c <= elapsed THEN 0 ELSE c - elapsed

\* A slip to compare with: only the last counter to end calls for a transfer.
EndedLast(count) == \A k \in Keys : count[k] = 0

(* Some key may be taken again.                                            *)
Ended(count) == \E k \in Keys : counters[k] # 0 /\ count[k] = 0

(* transfer_matrix_values: the changed keys that are not deaf.             *)
Taken(closed, count) == {k \in Keys : (k \in closed) # (k \in cooked) /\ count[k] = 0}

\* A slip to compare with: the time is left for the next count to set.
TimeLeft(now, transfer) == IF counters_need_update THEN now ELSE last_time

(* Both parts of debounce() set last_time.                                 *)
TimeAfter(now, transfer) == IF counters_need_update \/ transfer THEN now ELSE last_time

(* matrix_scan after a gap of d milliseconds finds the keys "closed".      *)
Scan(closed, d) ==
    LET now      == (timer + d) % Width
        elapsed  == Elapsed(now)
        counting == counters_need_update /\ elapsed > 0
    IN  \E count \in {IF counting THEN [k \in Keys |-> Counted(counters[k], elapsed)]
                                 ELSE counters} :
        LET matrix   == IF counting THEN Ended(count) ELSE matrix_need_update
            going    == IF counting THEN \E k \in Keys : count[k] # 0 ELSE counters_need_update
            transfer == closed # raw \/ matrix
        IN  \E taken \in {IF transfer THEN Taken(closed, count) ELSE {}} :
            /\ timer' = now /\ raw' = closed
            /\ last_time' = TimeAfter(now, transfer)
            /\ counters' = [k \in Keys |-> IF k \in taken THEN DEBOUNCE ELSE count[k]]
            /\ cooked' = (cooked \ taken) \cup (taken \ cooked)
            /\ matrix_need_update' = matrix
            /\ counters_need_update' = (going \/ taken # {})
            /\ quiet' = [k \in Keys |-> IF k \in taken THEN 0
                                        ELSE IF quiet[k] + d > DEBOUNCE THEN DEBOUNCE
                                        ELSE quiet[k] + d]

Next == \E closed \in SUBSET Keys, d \in 0 .. MaxGap : Scan(closed, d)

Spec == Init /\ [][Next]_vars

(* The main loop keeps scanning and time passes.                           *)
TimedScan == \E closed \in SUBSET Keys, d \in 1 .. MaxGap : Scan(closed, d)
FairSpec  == Spec /\ WF_vars(TimedScan)

-----------------------------------------------------------------------------
Gap        == (timer' - timer) % Width
Toggles(k) == (k \in cooked') # (k \in cooked)

(* The response is immediate: a scan that finds a key changed takes it at  *)
(* once unless it was taken less than DEBOUNCE milliseconds ago, whatever  *)
(* other keys did and however long the gaps between the scans were         *)
(* (docs/feature_debounce_type.md on sym_eager_pk).                        *)
Immediate ==
    [][\A k \in Keys : quiet[k] + Gap >= DEBOUNCE => (k \in cooked' <=> k \in raw')]_vars

(* It is followed by DEBOUNCE milliseconds of no further input for that    *)
(* key: two changes of a key that are taken are never closer.              *)
DeafAfterwards ==
    [][\A k \in Keys : Toggles(k) => quiet[k] + Gap >= DEBOUNCE]_vars

(* Between scans a key that differs from what was taken is one that is     *)
(* still deaf and still counted: none is forgotten.                        *)
NoneForgotten ==
    \A k \in Keys : (k \in raw) # (k \in cooked) =>
        counters[k] # 0 /\ counters_need_update

(* When the switches come to rest, so does what was taken, and it is right. *)
Settles == <>[][raw' = raw]_vars => <>[](cooked = raw)
=============================================================================
