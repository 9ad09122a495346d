SPECIFICATION FairSpec
CONSTANTS
    a = a
    b = b
    c = c
    NoKey = NoKey
    Keys = {a, b, c}
    Keymaps <- MCKeymaps
    WAITING_BUFFER_SIZE = 4
    TapMax = 2
    Width = 4
    Terms = {2}
    Tappings <- MCPermissive
    MaxGap = 1
    Stalls = FALSE
PROPERTY
    HoldAsDocumented
