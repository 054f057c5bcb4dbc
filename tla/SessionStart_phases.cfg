SPECIFICATION FairSpec
CONSTANTS
    a1 = a1
    a2 = a2
    a3 = a3
    a4 = a4
    Apps = {a1, a2, a3, a4}
    AppPhase <- Phases
    Delayed = {a4}
INVARIANTS
    TypeOK
PROPERTIES
    PhaseEndsInOrder
    SessionKeepsRunning
    SessionStarts
