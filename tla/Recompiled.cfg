SPECIFICATION FairSpec
CONSTANTS
    N = 12
    K = 5
    Kinds = {"br", "brl", "bal", "ball", "j", "jal"}
    Computed = {"jalr", "jr"}
    Tables <- OneTable
    Words <- MCWords
    Images <- MCImages
    MaxRounds = 8
    MaxCalls = 2
    MaxSaved = 2
INVARIANTS InLockstep BranchTargetsKnown
PROPERTY DiscoveryEnds
CHECK_DEADLOCK FALSE
