---------------------------- MODULE MCSignalRgb ----------------------------
(* One LED of two zones in two colors; packets that are accepted, that run *)
(* past the end of their zone after writing one LED, that name no zone and *)
(* that are longer than a packet may be.                                   *)
EXTENDS SignalRgb

Stream(z, s, c) == [cmd |-> "stream", zone |-> z, start |-> s, rgb |-> c]

MCColors == {"black", "red"}

MCPackets ==
  { [cmd |-> "info"], [cmd |-> "commit"],
    [cmd |-> "mode", on |-> TRUE], [cmd |-> "mode", on |-> FALSE],
    Stream("key", 0, <<"red">>),
    Stream("side", 0, <<"red">>),
    Stream("side", 0, <<"black", "red">>),
    Stream("other", 0, <<"red">>),
    Stream("key", 0, <<"red", "red", "red">>) }
============================================================================
