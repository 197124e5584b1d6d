SPECIFICATION Spec
CHECK_DEADLOCK FALSE
CONSTANTS
    c1 = c1
    c2 = c2
    Calls <- MCOneCall
    Bodies <- MCBodies
    NoBody = NoBody
    Consumed = Consumed
    NoGetBody = NoGetBody
    BadGetBody = BadGetBody
    Callbacks <- MCKeep
    Delays <- MCDelays
    NoRetryAfter = NoRetryAfter
    Second = 2
    MaxDuration = 7
PROPERTY
    CancelAborts
