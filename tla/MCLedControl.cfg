\* Every key in every order, with failures of power.
SPECIFICATION Spec
CONSTANTS
    BuiltIn = 2
    Custom = 1
    KeyStart <- MCKeyStart
    HeadStart <- MCHeadStart
    MaxInterval = 5
    Knee = 4
    Fine = 1
    Coarse = 2
    Width = 8
INVARIANTS TypeOK HeadSpeedInRange InStep CountsFromHere
PROPERTY ModesSurvive
