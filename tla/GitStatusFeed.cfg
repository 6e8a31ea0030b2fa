CONSTANTS
    None = None
    WatchCap = 1
    QueueCap = 1
    Limits <- MCLimits

SPECIFICATION Spec

\* A browser that is logged out stays so, and the bounds stop the rest.
CHECK_DEADLOCK FALSE

INVARIANTS
    NoEventForgotten
    SubscribedWhileShown
    QuietMeansCurrent

PROPERTIES
    PushesNeverGoBack
    ViewsAreServed
