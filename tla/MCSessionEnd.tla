----------------------------- MODULE MCSessionEnd -----------------------------
(***************************************************************************)
(* The instances of SessionEnd that TLC checks.                            *)
(***************************************************************************)
EXTENDS SessionEnd

CONSTANTS b1, b2   \* the connections: of the D-Bus clients, of another program

\* The D-Bus clients belong to one program, so one lost name disconnects them all.
OneProgram == [c \in DBusClients |-> b1]

AppInhibitor(b, flags) == [client |-> NONE, bus |-> b, flags |-> flags]

\* The clients' own program inhibits the end, another program only suspending.
TwoInhibitors == {AppInhibitor(b1, {"LOGOUT"}), AppInhibitor(b2, {"SUSPEND"})}

\* A program that is no client inhibits the end.
LogoutInhibitor == {AppInhibitor(b2, {"LOGOUT"})}

=============================================================================
