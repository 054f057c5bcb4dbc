SPECIFICATION Spec
CONSTANTS
    AVAILABLE = AVAILABLE
    BUSY = BUSY
    INVISIBLE = INVISIBLE
    IDLE = IDLE
    Statuses = {AVAILABLE, BUSY, INVISIBLE}
    MaxAlarms = 3
INVARIANTS
    TypeOK
    WatchIsSetWhenNeeded
    ChosenStatusComesBack
    IdleUnlessDisturbed
