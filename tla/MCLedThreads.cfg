\* Both threads, keys and lost chips; no brightness key in the frame of a restart.
SPECIFICATION FairSpec
CONSTANTS
    Chips <- MCChips
    Width = 3
    Last = 1
    Lightness <- MCLightness
    StartIndex = 1
    CheckEvery = 1
    QuickKeys = FALSE
INVARIANTS TypeOK ChipsMatch
PROPERTIES FadeEnds Recovers
