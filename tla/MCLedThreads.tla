---------------------------- MODULE MCLedThreads -----------------------------
(* Instances of LedThreads for TLC: two brightnesses, and a fade that      *)
(* passes through one value between them.                                  *)
EXTENDS LedThreads

MCChips     == [t \in Threads |-> IF t = "key" THEN 1 ELSE 2]
MCOneChip   == [t \in Threads |-> 1]
MCLightness == [i \in 0 .. 1 |-> 2 * i]
=============================================================================
