\* An animation of as many frames as a region has room for.
SPECIFICATION FairSpec
CONSTANTS
    Anims = {a}
    ModeMax = 1
    PageSize <- MCPageSize
    LastPack <- MCLastPack
    FrameMax = 2
    Sector = 2
    Uploads <- MCKeyUpload
    Threads = {"key"}
    MaxFrames = 2
PROPERTY PlaysEveryFrame
