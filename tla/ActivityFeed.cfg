CONSTANTS
    None = None
    BusyMinHold = 1
    IdleDebounce = 1
    StreamingQuiet = 2
    ProcessingStale = 3
    FeedCap = 2
    Limits <- MCLimits
SPECIFICATION Spec
INVARIANTS
    CommandIsBusy
    ShownIsCurrent
PROPERTIES
    SessionSettles
CHECK_DEADLOCK FALSE
