\* Every handler against both threads, and the session timeout.
SPECIFICATION FairSpec
CONSTANTS
  KeyCount = 1
  HeadCount = 0
  SideCount = 1
  Colors <- MCColors
  Black = "black"
  MaxLeds = 2
  Timeout = 3
  Packets <- MCPackets
INVARIANTS TypeOK ActiveIsCommitted DeltaBase SideMatchesHead
PROPERTIES EndsWhenSilent FallsBack
