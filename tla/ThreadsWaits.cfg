SPECIFICATION Spec
CONSTANTS
    NSlots = 2
    NHosts = 2
    NStacks = 1
    MaxUid = 3
    MaxNest = 2
    Liberties = {}
INVARIANTS PinsHold
PROPERTY ExitStatusTrue
