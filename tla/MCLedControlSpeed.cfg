\* The keys' speed under the head's speed keys: small strides as 3 and 2 are to
\* 9 what 10 and 4 are to 200, so that a step that starts low can wrap.
SPECIFICATION Spec
CONSTANTS
    BuiltIn = 2
    Custom = 1
    KeyStart <- MCKeyStart
    HeadStart <- MCHeadStart
    MaxInterval = 9
    Knee = 6
    Fine = 2
    Coarse = 3
    Width = 16
INVARIANT KeySpeedInRange
