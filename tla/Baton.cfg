SPECIFICATION FairSpec
CONSTANTS
    NoHost = NoHost
    Host = {boot, h1, h2}
    Boot = boot
    Reg = {0, 1}
    Zero = 0
INVARIANTS MutualExclusion PendingExact HandoverSound
PROPERTIES StartedRunsFirst PrivateRegisters StartedRuns CpuNeverIdle
