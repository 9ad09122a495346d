SPECIFICATION FairSpec
CONSTANTS
  Slots = 3
  Words = 2
  v1 = v1
  v2 = v2
  Values <- MCValues
  Junk = Junk
  None = None
  Mixed = Mixed
  MaxTries = 3
INVARIANTS
  TypeOK
  Durable
  AtomicSave
  TidyAtRest
PROPERTIES
  EraseOnlyWhenFull
  SaveEnds
  ImplementsRegister
