SPECIFICATION WaitsSpec
CONSTANTS
    NoThread = NoThread
    Thread = {boot, t1}
    Boot = boot
    Tick = 2
    Timeouts = {0, 1, 3}
    WaitTicksMax = 1
    NSemas = 1
    MaxCount = 2
    MaxDebt = 1
    NFlags = 1
    Bits = {1, 2}
INVARIANTS EventConsumedOnce
PROPERTIES TokensConserved SatisfiedNeverTimesOut NoStuckWaiter
