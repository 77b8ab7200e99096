SPECIFICATION Spec
CONSTANTS
    Boot = Boot
    NoThread = NoThread
    Thread = {Boot, T1}
    NCbs = 1
    NSubs = 2
    Key = {1, 2}
    NotifyMax = 1
    DeliverMax = 2
    MaxUid = 1
    MaxMask = 1
    Liberties = {"exitInHandler"}
INVARIANT ServicedLater
