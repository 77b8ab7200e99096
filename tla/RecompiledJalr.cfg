SPECIFICATION Spec
CONSTANTS
    N = 12
    K = 3
    Kinds = {"br", "jal"}
    Computed = {"jalr", "jr"}
    Tables <- OneTable
    Words <- MCWords
    Images <- LooseImages
    MaxRounds = 8
    MaxCalls = 2
    MaxSaved = 2
INVARIANT FallThroughContinues
CHECK_DEADLOCK FALSE
