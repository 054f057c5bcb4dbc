SPECIFICATION FairSpec
CONSTANTS
    b1 = b1
    b2 = b2
    DBusClients = {d1}
    XsmpClients = {x1}
    Connections = {b1, b2}
    BusName <- OneProgram
    AppInhibitors <- LogoutInhibitor
    EndActions = {"LOGOUT", "SHUTDOWN"}
    OtherActions = {"SWITCH_USER"}
PROPERTIES
    EndSessionEnds
    QueryEndsOrAsks
    ImplementsLifecycle
CHECK_DEADLOCK FALSE
