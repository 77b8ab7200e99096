SPECIFICATION Spec
CONSTANTS
    NSlots = 2
    NHosts = 2
    NStacks = 2
    MaxUid = 2
    MaxNest = 1
    Liberties = {}
INVARIANTS RecordOutlivesHost JoinNeverDeadlocks TerminatedNeverRuns StacksExact
