SPECIFICATION FairSpec
CONSTANTS
    a = a
    b = b
    c = c
    NoKey = NoKey
    Keys = {a, b, c}
    Keymaps <- MCKeymaps
    WAITING_BUFFER_SIZE = 4
    TapMax = 2
    Width = 8
    Terms = {2}
    Tappings <- MCTappings
    MaxGap = 1
    Stalls = TRUE
INVARIANTS
    TypeOK
    StuckOnlyIfDisturbed
    EachPressOnce
PROPERTIES
    HoldTakesTerm
    Drains
