SPECIFICATION Spec
CONSTANTS
    b1 = b1
    b2 = b2
    DBusClients = {d1}
    XsmpClients = {}
    Connections = {b1, b2}
    BusName <- OneProgram
    AppInhibitors <- LogoutInhibitor
    EndActions = {"LOGOUT", "SHUTDOWN"}
    OtherActions = {}
INVARIANTS
    LogoutDialogAssertionHolds
CHECK_DEADLOCK FALSE
