SPECIFICATION Spec
CONSTANTS
    Boot = Boot
    NoThread = NoThread
    Thread = {Boot, T1}
    NCbs = 2
    NSubs = 1
    Key = {1}
    NotifyMax = 2
    DeliverMax = 1
    MaxUid = 2
    MaxMask = 1
    Liberties = {}
INVARIANTS ServicedLater CriticalSectionUndisturbed
PROPERTY NotificationRunsOnce
