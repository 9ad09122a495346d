-------------------------- MODULE MCSignalRgbHost --------------------------
(* Four LEDs in two zones, chunks of two: one full chunk and two short.   *)
EXTENDS SignalRgbHost

MCColors  == {"black", "red"}
MCPackets ==
  {Info, Commit, Mode(TRUE), Mode(FALSE)}
  \cup {StreamOf(AllChunks[i], f) : i \in 1 .. Len(AllChunks), f \in Frame}

(* Two frames that differ in one chunk, besides the solid one of Shutdown. *)
MCPictures ==
  {[l \in Led |-> IF l \in {<<"key", 0>>} \cup S THEN "red" ELSE "black"] :
     S \in {{}, {<<"side", 0>>}}}
============================================================================
