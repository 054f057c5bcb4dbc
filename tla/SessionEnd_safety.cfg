SPECIFICATION Spec
CONSTANTS
    b1 = b1
    b2 = b2
    DBusClients = {d1, d2}
    XsmpClients = {x1}
    Connections = {b1, b2}
    BusName <- OneProgram
    AppInhibitors <- TwoInhibitors
    EndActions = {"LOGOUT", "SHUTDOWN"}
    OtherActions = {"SLEEP"}
INVARIANTS
    TypeOK
    TimersGuardPhases
    ShutdownStateMatchesPhase
    NoOrphanJitInhibitor
    WaitListsMatchPhase
PROPERTIES
    QueryIsNotSkipped
CHECK_DEADLOCK FALSE
