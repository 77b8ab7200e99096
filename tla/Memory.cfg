SPECIFICATION MemorySpec
CONSTANTS
    Word = 64
    Granule = 2
    Lo = 6
    Hi = 17
    NBlocks = 3
    Size = {0, 3, 5, 9, 13}
    Align = {4}
    Want = {4, 7, 8, 12}
    NoThread = NoThread
    Thread = {boot, t1}
    Boot = boot
    Tick = 1
    Timeouts = {0, 2}
    WaitTicksMax = 0
    NVpls = 2
    NVplBlocks = 2
    NAddrs = 3
    Sizes = {0, 2}
    MaxUid = 2
INVARIANTS BlocksApart BlocksServe BlockMemoryExact
PROPERTIES FirstFit SearchEnds
