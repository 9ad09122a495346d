\* A rectangle of four keys, deaf for 2 ms, and a timer that wraps every 4 ms.
SPECIFICATION FairMatrixSpec
CONSTANTS
    Rows = {1, 2}
    Cols = {1, 2}
    Keys <- MCKeys
    RealKeys <- MCKeys
    DEBOUNCE = 2
    ByteMax = 2
    Width = 4
    MaxGap = 3
    MaxChanges = 1
INVARIANTS MatrixTypeOK NoneForgotten
PROPERTIES Immediate DeafAfterwards PhantomOnlyIfDeaf Reported
