SPECIFICATION RuntimeSpec
CONSTANTS
    Address = {1, 3, 5}
    Function = {f, g}
    Nothing = Nothing
    Multiplier = 17
    FirstCap = 2
    MaxCap = 8
    Budgets = {2}
    MaxCalls = 2
    Site = {4, 8}
    Delta <- MCDelta
    TraceDepth = 2
    SpSites = 2
    MaxEvents = 4
    Nid = {n1, n2, n3}
    Handler = {f, g}
    HleMax = 2
    UnimplDistinct = 1
    UnimplLogged = 1
    ZeroHistory = 2
    MaxHleCalls = 3
    NQueues = 1
    GeStack = 1
    WalkBudget = 4
    MaxLists = 2
    ListLen = 3
    VTypes <- MCVTypes
    Path = {p, q}
    NoStream = NoStream
    MaxFiles = 2
    MaxDirs = 1
    MaxBytes = 1
    MaxForgot = 1
    Caller = {t, u}
    NChannels = 1
    PlayTimes = {1, 3}
    NSlots = 2
    Callback = {1, 2}
    Buttons = {"centred", "pressed"}
    Buffers = {"a"}
    MaxNow = 3
    NVoices = 1
    BlockLen = 2
    One = 2
    Full = 4
    DefaultRate = 2
    Samples <- MCSamples
    Pitches = {2, 5}
    Rates = {2}
    Levels = {1}
    Grains = {0, 1}
    DefaultGrain = 2
    MaxGrain = 2
    MaxHeard = 4
    ByteBits = 2
    LogW = 3
    Operand = {0, 1, 27, 84, 127, 128, 254, 255}
    Accumulator = {0, 128, 255}
    Matrix = {0}
    Program <- MCProgram
    MaxVector = 4
    ImageLen = 7
    Spans = {5, 8}
    Window = 6
    MaxTable = 4
INVARIANTS ProbingEnds ReportsTrue CountsAddUp ListsInLockstep LayoutSound StreamsExact
           AheadBounded HeardAsFlagged OpsExact VectorsInLockstep CtorsRunOnce
PROPERTY TableIsDictionary
