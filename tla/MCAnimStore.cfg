\* A head mode uploaded, abandoned and uploaded again as another animation, with
\* failures of power, while both threads play and keys change the modes.
SPECIFICATION FairSpec
CONSTANTS
    Anims = {a, b}
    ModeMax = 1
    PageSize <- MCPageSize
    LastPack <- MCLastPack
    FrameMax = 3
    Sector = 3
    Uploads <- MCHeadUpload
    Threads = {"key", "head"}
    MaxFrames = 2
INVARIANTS TypeOK Uploaded InRange
PROPERTY PlaysEveryFrame
