\* A brightness key in the frame of a restart.
SPECIFICATION Spec
CONSTANTS
    Chips <- MCOneChip
    Width = 4
    Last = 1
    Lightness <- MCLightness
    StartIndex = 1
    CheckEvery = 2
    QuickKeys = TRUE
INVARIANT ChipsMatch
