------------------------------ MODULE SessionEnd ------------------------------
(***************************************************************************)
(* How a running session ends: the part of GsmManager that takes the       *)
(* session from GSM_MANAGER_PHASE_RUNNING through the end-session query    *)
(* and the end-session phases to the exit of the main loop, or back to     *)
(* RUNNING when somebody cancels (mate-session/gsm-manager.c).             *)
(*                                                                         *)
(* The program is single threaded: a handler runs to completion before the *)
(* GLib main loop dispatches the next event.  The C handlers call each     *)
(* other (end_phase, start_phase, the inhibit dialog answering itself), so *)
(* each C function is an operator from manager records to manager records, *)
(* with the name of the function, and an action applies the operator of    *)
(* the handler that the event runs.                                        *)
(***************************************************************************)
EXTENDS Naturals, FiniteSets

CONSTANTS
    DBusClients,    \* programs that register over D-Bus
    XsmpClients,    \* programs that register over XSMP
    Connections,    \* unique names on the session bus
    BusName,        \* the connection of every D-Bus client
    AppInhibitors,  \* what applications may ask of Inhibit()
    EndActions,     \* LOGOUT, REBOOT, SHUTDOWN: the ends the users ask for
    OtherActions    \* SLEEP, HIBERNATE, SWITCH_USER: dialog answers that end nothing

Clients == DBusClients \cup XsmpClients
Flags == {"LOGOUT", "SWITCH_USER", "SUSPEND", "IDLE"}
NONE == "NONE"

(***************************************************************************)
(* An inhibitor carries the client it speaks for (only the just-in-time    *)
(* inhibitors, which the manager creates itself, have one), the bus name   *)
(* of the connection that asked for it and its flags.                      *)
(***************************************************************************)
Inhibitor == [client: Clients \cup {NONE}, bus: Connections \cup {NONE}, flags: SUBSET Flags]

ASSUME ConstantsAssumption ==
    /\ DBusClients \cap XsmpClients = {}
    /\ NONE \notin Clients \cup Connections
    /\ BusName \in [DBusClients -> Connections]
    /\ AppInhibitors \subseteq {i \in Inhibitor : i.client = NONE /\ i.bus # NONE /\ i.flags # {}}
    /\ EndActions \subseteq {"LOGOUT", "REBOOT", "SHUTDOWN"}
    /\ OtherActions \subseteq {"SLEEP", "HIBERNATE", "SWITCH_USER"}

JitInhibitor(c) ==
    [client |-> c,
     bus    |-> IF c \in DBusClients THEN BusName[c] ELSE NONE,
     flags  |-> {"LOGOUT"}]

Phases == {"RUNNING", "QUERY_END_SESSION", "END_SESSION", "EXIT"}
Modes == {"NORMAL", "NO_CONFIRMATION", "FORCE"}

VARIABLES
    mgr,            \* GsmManagerPrivate, its two stores and its inhibit dialog
    logout_dialog,  \* current_dialog of gsm-logout-dialog.c
    lockdown,       \* the disable-log-out lockdown key
    link,           \* the ICE connection of every XSMP client
    leaving         \* D-Bus clients that remove_clients_for_connection still has to visit

vars == <<mgr, logout_dialog, lockdown, link, leaving>>

(***************************************************************************)
(* process: "running" inside the main loop, "quit" once gtk_main_quit() is *)
(* called, "aborted" after a failed assertion, "freed" once a pointer to a *)
(* finalized client has been followed.                                     *)
(***************************************************************************)
Manager ==
    [phase              : Phases,
     logout_mode        : Modes,
     logout_type        : EndActions \cup {NONE},
     clients            : SUBSET Clients,
     inhibitors         : SUBSET Inhibitor,
     query_clients      : SUBSET Clients,
     next_query_clients : SUBSET Clients,
     query_timeout      : BOOLEAN,
     phase_timeout      : BOOLEAN,
     inhibit_dialog     : EndActions \cup OtherActions \cup {NONE},
     dbus_disconnected  : BOOLEAN,
     process            : {"running", "quit", "aborted", "freed"}]

(***************************************************************************)
(* The life of an XSMP connection as the manager sees it.  "connected":    *)
(* the ICE client is in the store but on_client_disconnected is not hooked *)
(* to it; "refused": RegisterClient hooked it and then rejected the        *)
(* client's previous id; "registered": hooked once; "reregistered": hooked *)
(* a second time by the retry that follows a refusal; "lost": the          *)
(* connection is gone and no handler took the client out of the store.     *)
(***************************************************************************)
Links == {"off", "connected", "refused", "registered", "reregistered", "lost"}

TypeOK ==
    /\ mgr \in Manager
    /\ logout_dialog \in {NONE, "logout", "shutdown"}
    /\ lockdown \in BOOLEAN
    /\ link \in [XsmpClients -> Links]
    /\ leaving \subseteq DBusClients

Init ==
    /\ mgr = [phase |-> "RUNNING", logout_mode |-> "NORMAL", logout_type |-> NONE,
              clients |-> {}, inhibitors |-> {},
              query_clients |-> {}, next_query_clients |-> {},
              query_timeout |-> FALSE, phase_timeout |-> FALSE,
              inhibit_dialog |-> NONE, dbus_disconnected |-> FALSE,
              process |-> "running"]
    /\ logout_dialog = NONE
    /\ lockdown \in BOOLEAN
    /\ link = [c \in XsmpClients |-> "off"]
    /\ leaving = {}

-----------------------------------------------------------------------------
(***************************************************************************)
(* Phases.  start_phase and end_phase call each other, but within one      *)
(* handler the phase only goes up, so one operator per phase is enough.    *)
(***************************************************************************)
ShuttingDown(m) == m.phase # "RUNNING"

inhibitor_has_flag(flag, i) == flag \in i.flags

IsInhibited(m, flag) == \E i \in m.inhibitors : inhibitor_has_flag(flag, i)

is_logout_inhibited(m) == IsInhibited(m, "LOGOUT")

\* What end_phase clears before it looks at the phase.
ClearPhase(m) ==
    [m EXCEPT !.query_clients = {}, !.next_query_clients = {}, !.phase_timeout = FALSE]

\* Fault: start_phase forgets the timer of the query.
ResetPhaseKeepsQueryTimer(m) == ClearPhase(m)

\* What start_phase resets before it looks at the phase.
ResetPhase(m) == [ClearPhase(m) EXCEPT !.query_timeout = FALSE]

\* Every logout type reaches gtk_main_quit; no type at all is g_assert_not_reached.
gsm_manager_quit(m) ==
    [m EXCEPT !.process = IF m.logout_type = NONE THEN "aborted" ELSE "quit"]

\* The clients are told to stop and the phase ends at once.
do_phase_exit(m) == gsm_manager_quit(ClearPhase(m))

start_exit(m) == do_phase_exit(ResetPhase([m EXCEPT !.phase = "EXIT"]))

end_end_session(m) == start_exit(ClearPhase(m))

\* Fault: the phase waits for its clients without a deadline.
EndSessionWithoutTimer(m) ==
    IF m.clients # {} THEN [m EXCEPT !.query_clients = m.clients] ELSE end_end_session(m)

do_phase_end_session(m) ==
    IF m.clients # {}
    THEN [m EXCEPT !.phase_timeout = TRUE, !.query_clients = m.clients]
    ELSE end_end_session(m)

start_end_session(m) == do_phase_end_session(ResetPhase([m EXCEPT !.phase = "END_SESSION"]))

\* Fault: the query waits for its clients without a deadline.
QueryWithoutTimer(m) == [m EXCEPT !.query_clients = m.clients]

do_phase_query_end_session(m) ==
    [m EXCEPT !.query_clients = m.clients, !.query_timeout = TRUE]

start_query(m) ==
    do_phase_query_end_session(ResetPhase([m EXCEPT !.phase = "QUERY_END_SESSION"]))

start_running(m) == ResetPhase([m EXCEPT !.phase = "RUNNING"])

end_phase(m) ==
    LET n == ClearPhase(m)
    IN  CASE m.phase = "RUNNING"           -> IF lockdown THEN n ELSE start_query(n)
          [] m.phase = "QUERY_END_SESSION" -> start_end_session(n)
          [] m.phase = "END_SESSION"       -> start_exit(n)
          [] m.phase = "EXIT"              -> gsm_manager_quit(n)

-----------------------------------------------------------------------------
(***************************************************************************)
(* Inhibitors and the dialog that lists them.                              *)
(***************************************************************************)
inhibitor_is_jit(i) == i.client # NONE
inhibitor_has_client_id(c, i) == i.client = c
inhibitor_has_bus_name(b, i) == i.bus = b

\* Fault: the mode of the cancelled logout stays behind.
CancelKeepsMode(m) ==
    IF ~ShuttingDown(m) THEN m
    ELSE start_running([m EXCEPT !.inhibit_dialog = NONE,
                                 !.inhibitors = {i \in @ : ~inhibitor_is_jit(i)},
                                 !.logout_type = NONE])

cancel_end_session(m) ==
    IF ~ShuttingDown(m) THEN m
    ELSE start_running([m EXCEPT !.inhibit_dialog = NONE,
                                 !.inhibitors = {i \in @ : ~inhibitor_is_jit(i)},
                                 !.logout_mode = "NORMAL",
                                 !.logout_type = NONE])

do_inhibit_dialog_action(m, action) ==
    IF action \in EndActions THEN end_phase([m EXCEPT !.logout_mode = "FORCE"]) ELSE m

inhibit_dialog_response(m, response) ==
    LET action == m.inhibit_dialog
        closed == [m EXCEPT !.inhibit_dialog = NONE]
    IN  CASE response = "ACCEPT" -> do_inhibit_dialog_action(closed, action)
          [] response = "CANCEL" ->
                 IF action \in EndActions THEN cancel_end_session(closed) ELSE closed

(***************************************************************************)
(* The dialog lists every inhibitor of the store, whatever its flags.  The *)
(* removal that empties its list makes it answer ACCEPT to itself, inside  *)
(* the call that removed the inhibitor.                                    *)
(***************************************************************************)
RemoveInhibitors(m, gone) ==
    LET left == m.inhibitors \ gone
        n    == [m EXCEPT !.inhibitors = left]
    IN  IF left # m.inhibitors /\ left = {} /\ m.inhibit_dialog # NONE
        THEN inhibit_dialog_response(n, "ACCEPT")
        ELSE n

InhibitorsOf(m, c) == {i \in m.inhibitors : inhibitor_has_client_id(c, i)}

\* Fault: the end of the query does not look at the inhibitors.
CompleteIgnoresInhibitors(m) == end_phase([m EXCEPT !.query_timeout = FALSE])

query_end_session_complete(m) ==
    LET n == [m EXCEPT !.query_timeout = FALSE]
    IN  IF ~is_logout_inhibited(n) THEN end_phase(n)
        ELSE IF n.inhibit_dialog # NONE THEN n
        ELSE [n EXCEPT !.inhibit_dialog = n.logout_type]

-----------------------------------------------------------------------------
(***************************************************************************)
(* Answers of the clients.                                                 *)
(***************************************************************************)
do_phase_end_session_part_2(m) ==
    IF m.next_query_clients = {} THEN end_phase(m)
    ELSE IF ~(m.next_query_clients \subseteq m.clients)
    THEN [m EXCEPT !.process = "freed"]
    ELSE [m EXCEPT !.query_clients = @ \cup m.next_query_clients,
                   !.next_query_clients = {}]

\* The end of _handle_client_end_session_response, once the answer is recorded.
AfterResponse(m, c, do_last) ==
    LET n == IF m.phase = "END_SESSION" /\ do_last
             THEN [m EXCEPT !.next_query_clients = @ \cup {c}]
             ELSE m
    IN  CASE n.phase = "QUERY_END_SESSION" /\ n.query_clients = {} ->
                 query_end_session_complete(n)
          [] n.phase = "END_SESSION" /\ n.query_clients = {} /\ ~is_logout_inhibited(n) ->
                 do_phase_end_session_part_2(n)
          [] OTHER -> n

handle_client_end_session_response(m, c, is_ok, do_last, cancel) ==
    LET answered == [m EXCEPT !.query_clients = @ \ {c}]
        recorded == IF ~is_ok /\ m.logout_mode # "FORCE"
                    THEN [answered EXCEPT !.inhibitors = @ \cup {JitInhibitor(c)}]
                    ELSE RemoveInhibitors(answered, InhibitorsOf(answered, c))
    IN  IF ~ShuttingDown(m) THEN m
        ELSE IF cancel THEN cancel_end_session(m)
        ELSE AfterResponse(recorded, c, do_last)

\* Fault: a client that exits leaves its inhibitors behind.
DisconnectKeepsInhibitors(m, c) ==
    IF m.phase = "QUERY_END_SESSION"
    THEN handle_client_end_session_response(m, c, TRUE, FALSE, FALSE)
    ELSE m

\* Fault: the exit of a client is not taken as its answer.
DisconnectIsNoAnswer(m, c) == RemoveInhibitors(m, InhibitorsOf(m, c))

\* _disconnect_client without its restart of the application.
disconnect_client(m, c) ==
    LET n == RemoveInhibitors(m, InhibitorsOf(m, c))
    IN  IF n.phase = "QUERY_END_SESSION"
        THEN handle_client_end_session_response(n, c, TRUE, FALSE, FALSE)
        ELSE n

\* Fault: the last client to leave a running session ends it.
LastClientEndsAnyPhase(m) == IF m.clients = {} THEN end_phase(m) ELSE m

\* "last client disconnected - exiting"
LastClientCheck(m) ==
    IF ShuttingDown(m) /\ m.clients = {} THEN end_phase(m) ELSE m

RemoveClient(m, c) == [m EXCEPT !.clients = @ \ {c}]

on_client_disconnected(m, c) == LastClientCheck(RemoveClient(disconnect_client(m, c), c))

-----------------------------------------------------------------------------
(***************************************************************************)
(* Requests.  The privilege checks of request_shutdown and request_reboot  *)
(* answer before they return, so the phase ends inside the request.        *)
(***************************************************************************)
request_end(m, type) == end_phase([m EXCEPT !.logout_type = type])

request_logout(m, mode) == request_end([m EXCEPT !.logout_mode = mode], "LOGOUT")

InhibitFlagOf(action) == IF action = "SWITCH_USER" THEN "SWITCH_USER" ELSE "SUSPEND"

\* request_suspend, request_hibernate, request_switch_user
request_other(m, action) ==
    IF IsInhibited(m, InhibitFlagOf(action)) /\ m.inhibit_dialog = NONE
    THEN [m EXCEPT !.inhibit_dialog = action]
    ELSE m

Idle == mgr.process = "running" /\ leaving = {}
Running == Idle /\ mgr.phase = "RUNNING"

-----------------------------------------------------------------------------
(***************************************************************************)
(* Clients.                                                                *)
(***************************************************************************)
\* RegisterClient on the bus; a second registration under the same id fails.
RegisterClient(c) ==
    /\ Running
    /\ ~mgr.dbus_disconnected
    /\ c \notin mgr.clients
    /\ mgr' = [mgr EXCEPT !.clients = @ \cup {c}]
    /\ UNCHANGED <<logout_dialog, lockdown, link, leaving>>

\* The store takes an XSMP client as soon as its connection is accepted, in any phase.
XsmpConnect(c) ==
    /\ Idle
    /\ link[c] = "off"
    /\ mgr' = [mgr EXCEPT !.clients = @ \cup {c}]
    /\ link' = [link EXCEPT ![c] = "connected"]
    /\ UNCHANGED <<logout_dialog, lockdown, leaving>>

\* A new id or the id of a known application is accepted, any other previous
\* id is refused after the handler has been hooked; libSM then retries with no
\* id.  During shutdown the request is turned down before anything is hooked.
XsmpRegister(c) ==
    /\ Running
    /\ \/ /\ link[c] = "connected"
          /\ \E answer \in {"registered", "refused"} : link' = [link EXCEPT ![c] = answer]
       \/ /\ link[c] = "refused"
          /\ link' = [link EXCEPT ![c] = "reregistered"]
    /\ UNCHANGED <<mgr, logout_dialog, lockdown, leaving>>

\* The connection closes or fails: "disconnected" runs on_client_disconnected
\* as often as it is hooked, and nothing else takes the client out of the store.
XsmpDisconnect(c) ==
    /\ Idle
    /\ \/ /\ link[c] = "connected"
          /\ link' = [link EXCEPT ![c] = "lost"]
          /\ UNCHANGED mgr
       \/ /\ link[c] \in {"refused", "registered"}
          /\ link' = [link EXCEPT ![c] = "off"]
          /\ mgr' = on_client_disconnected(mgr, c)
       \/ /\ link[c] = "reregistered"
          /\ link' = [link EXCEPT ![c] = "off"]
          /\ mgr' = on_client_disconnected(on_client_disconnected(mgr, c), c)
    /\ UNCHANGED <<logout_dialog, lockdown, leaving>>

(***************************************************************************)
(* gsm_store_foreach_remove visits the D-Bus clients in the order of a     *)
(* hash table: leaving holds those still to visit, and no other event is   *)
(* dispatched until it is empty.                                           *)
(***************************************************************************)
StartLeaving(m, gone) ==
    /\ leaving' = gone
    /\ mgr' = IF gone = {} THEN LastClientCheck(m) ELSE m

\* bus_name_owner_changed tells of the end of a connection, and of the release
\* of a well-known name with the connection that owned it.
BusNameLost(b) ==
    /\ Idle
    /\ ~mgr.dbus_disconnected
    /\ StartLeaving(RemoveInhibitors(mgr, {i \in mgr.inhibitors : inhibitor_has_bus_name(b, i)}),
                    {c \in mgr.clients \cap DBusClients : BusName[c] = b})
    /\ UNCHANGED <<logout_dialog, lockdown, link>>

\* Fault: the loss of the bus disconnects the XSMP clients as well.
BusDisconnectsEverybody ==
    /\ Idle
    /\ ~mgr.dbus_disconnected
    /\ StartLeaving([mgr EXCEPT !.dbus_disconnected = TRUE], mgr.clients)
    /\ UNCHANGED <<logout_dialog, lockdown, link>>

\* The session bus itself goes away: every D-Bus client is disconnected.
BusDisconnected ==
    /\ Idle
    /\ ~mgr.dbus_disconnected
    /\ StartLeaving([mgr EXCEPT !.dbus_disconnected = TRUE], mgr.clients \cap DBusClients)
    /\ UNCHANGED <<logout_dialog, lockdown, link>>

DisconnectNext(c) ==
    /\ c \in leaving
    /\ mgr.process \in {"running", "quit"}
    /\ StartLeaving(RemoveClient(disconnect_client(mgr, c), c), leaving \ {c})
    /\ UNCHANGED <<logout_dialog, lockdown, link>>

(***************************************************************************)
(* Answers to QueryEndSession and EndSession, in any order and at any time *)
(* of the shutdown: late, repeated, or in the phase after the one asked.   *)
(***************************************************************************)
Respond(c, is_ok, do_last, cancel) ==
    /\ Idle
    /\ ShuttingDown(mgr)
    /\ c \in mgr.clients
    /\ mgr' = handle_client_end_session_response(mgr, c, is_ok, do_last, cancel)
    /\ UNCHANGED <<logout_dialog, lockdown, link, leaving>>

EndSessionResponse(c) ==
    /\ ~mgr.dbus_disconnected
    /\ \E is_ok \in BOOLEAN : Respond(c, is_ok, FALSE, FALSE)

Linked(c) == link[c] \in {"registered", "reregistered"}

SaveYourselfDone(c) == Linked(c) /\ Respond(c, TRUE, FALSE, FALSE)

InteractRequest(c) == Linked(c) /\ Respond(c, FALSE, FALSE, FALSE)

InteractDone(c) ==
    /\ Linked(c)
    /\ \E cancel_shutdown \in BOOLEAN : Respond(c, TRUE, FALSE, cancel_shutdown)

SaveYourselfPhase2Request(c) ==
    /\ Linked(c)
    /\ c \notin mgr.next_query_clients   \* no second request before phase 2 is granted
    /\ Respond(c, TRUE, TRUE, FALSE)

(***************************************************************************)
(* Inhibitors.                                                             *)
(***************************************************************************)
Inhibit(i) ==
    /\ Idle
    /\ ~mgr.dbus_disconnected
    /\ mgr.logout_mode # "FORCE"
    /\ i \notin mgr.inhibitors
    /\ mgr' = [mgr EXCEPT !.inhibitors = @ \cup {i}]
    /\ UNCHANGED <<logout_dialog, lockdown, link, leaving>>

Uninhibit(i) ==
    /\ Idle
    /\ ~mgr.dbus_disconnected
    /\ i \in mgr.inhibitors
    /\ mgr' = RemoveInhibitors(mgr, {i})
    /\ UNCHANGED <<logout_dialog, lockdown, link, leaving>>

InhibitDialogResponse(response) ==
    /\ Idle
    /\ mgr.inhibit_dialog # NONE
    /\ mgr' = inhibit_dialog_response(mgr, response)
    /\ UNCHANGED <<logout_dialog, lockdown, link, leaving>>

(***************************************************************************)
(* Requests to end the session: Logout() and SaveYourselfRequest in any    *)
(* mode, SIGTERM in FORCE mode, Shutdown(), RequestShutdown() and          *)
(* RequestReboot().  A dialog that is opened replaces the one on screen.   *)
(***************************************************************************)
Logout(mode) ==
    /\ Running
    /\ ~lockdown
    /\ "LOGOUT" \in EndActions
    /\ \E logout_prompt \in BOOLEAN :
         IF mode = "NORMAL" /\ logout_prompt
         THEN /\ mgr' = [mgr EXCEPT !.logout_mode = "NORMAL"]
              /\ logout_dialog' = "logout"
         ELSE /\ mgr' = request_logout(mgr, mode)
              /\ UNCHANGED logout_dialog
    /\ UNCHANGED <<lockdown, link, leaving>>

Shutdown ==
    /\ Running
    /\ ~mgr.dbus_disconnected
    /\ ~lockdown
    /\ mgr' = [mgr EXCEPT !.logout_mode = "NORMAL"]
    /\ logout_dialog' = "shutdown"
    /\ UNCHANGED <<lockdown, link, leaving>>

\* RequestShutdown, RequestReboot: the lockdown is left to end_phase.
Request(type) ==
    /\ Running
    /\ ~mgr.dbus_disconnected
    /\ type # "LOGOUT"
    /\ mgr' = request_end(mgr, type)
    /\ UNCHANGED <<logout_dialog, lockdown, link, leaving>>

ButtonsOf(dialog) ==
    CASE dialog = "logout"   -> {"LOGOUT", "SWITCH_USER"}
      [] dialog = "shutdown" -> {"SHUTDOWN", "REBOOT", "SLEEP", "HIBERNATE"}
      [] OTHER               -> {}

\* The user answers, or the dialog answers its default after its minute is over.
logout_dialog_response(response) ==
    /\ Idle
    /\ logout_dialog # NONE
    /\ IF mgr.logout_mode # "NORMAL"
       THEN /\ mgr' = [mgr EXCEPT !.process = "aborted"]
            /\ UNCHANGED logout_dialog
       ELSE /\ mgr' = CASE response = "CANCEL" -> mgr
                       [] response = "LOGOUT" -> request_logout(mgr, "NO_CONFIRMATION")
                       [] response \in {"SHUTDOWN", "REBOOT"} -> request_end(mgr, response)
                       [] OTHER -> request_other(mgr, response)
            /\ logout_dialog' = NONE
    /\ UNCHANGED <<lockdown, link, leaving>>

LogoutDialogResponse ==
    \E response \in {"CANCEL"} \cup (ButtonsOf(logout_dialog) \cap (EndActions \cup OtherActions)) :
        logout_dialog_response(response)

ToggleLockdown ==
    /\ Idle
    /\ lockdown' = ~lockdown
    /\ UNCHANGED <<mgr, logout_dialog, link, leaving>>

(***************************************************************************)
(* Timers: one second for the query, thirty for the end-session phase.     *)
(***************************************************************************)
QueryTimeout ==
    LET jit == IF mgr.logout_mode = "FORCE" THEN {}
               ELSE {JitInhibitor(c) : c \in mgr.query_clients}
    IN  /\ Idle
        /\ mgr.query_timeout
        /\ mgr' = query_end_session_complete([mgr EXCEPT !.query_timeout = FALSE,
                                                         !.inhibitors = @ \cup jit,
                                                         !.query_clients = {}])
        /\ UNCHANGED <<logout_dialog, lockdown, link, leaving>>

PhaseTimeout ==
    /\ Idle
    /\ mgr.phase_timeout
    /\ mgr' = end_phase([mgr EXCEPT !.phase_timeout = FALSE])
    /\ UNCHANGED <<logout_dialog, lockdown, link, leaving>>

-----------------------------------------------------------------------------
DBusClientStep(c) == RegisterClient(c) \/ DisconnectNext(c) \/ EndSessionResponse(c)

XsmpClientStep(c) ==
    \/ XsmpConnect(c) \/ XsmpRegister(c) \/ XsmpDisconnect(c)
    \/ SaveYourselfDone(c) \/ InteractRequest(c) \/ InteractDone(c)
    \/ SaveYourselfPhase2Request(c)

UserStep ==
    \/ \E mode \in Modes : Logout(mode)
    \/ \E type \in EndActions : Request(type)
    \/ \E response \in {"ACCEPT", "CANCEL"} : InhibitDialogResponse(response)
    \/ Shutdown \/ LogoutDialogResponse \/ ToggleLockdown

Next ==
    \/ \E c \in DBusClients : DBusClientStep(c)
    \/ \E c \in XsmpClients : XsmpClientStep(c)
    \/ \E b \in Connections : BusNameLost(b)
    \/ \E i \in AppInhibitors : Inhibit(i) \/ Uninhibit(i)
    \/ BusDisconnected \/ UserStep \/ QueryTimeout \/ PhaseTimeout

\* The handler that runs goes on, and the main loop fires the timers that are due.
Fairness ==
    /\ WF_vars(QueryTimeout)
    /\ WF_vars(PhaseTimeout)
    /\ WF_vars(\E c \in DBusClients : DisconnectNext(c))

Spec == Init /\ [][Next]_vars

FairSpec == Spec /\ Fairness

-----------------------------------------------------------------------------
(***************************************************************************)
(* Safety.                                                                 *)
(***************************************************************************)
\* A timer belongs to the phase that started it, and the end-session phase is
\* never without one: it cannot be entered with clients to wait for and no
\* deadline, whatever answers and disconnections came before.
TimersOfPhase(m) ==
    /\ m.query_timeout => m.phase = "QUERY_END_SESSION"
    /\ m.phase_timeout => m.phase = "END_SESSION"
    /\ m.phase = "END_SESSION" /\ m.process = "running" => m.phase_timeout

TimersGuardPhases == TimersOfPhase(mgr)

\* Once the session is ending its type is known, so that gsm_manager_quit never
\* reaches g_assert_not_reached; a forced mode and a dialog about the end of the
\* session do not outlive the shutdown they belong to.
ShutdownState(m) ==
    /\ m.phase # "RUNNING" => m.logout_type # NONE
    /\ m.phase = "RUNNING" => m.logout_mode # "FORCE" /\ m.inhibit_dialog \notin EndActions

ShutdownStateMatchesPhase == ShutdownState(mgr)

\* A just-in-time inhibitor exists only during a shutdown and speaks for a client
\* the manager still has: no answer, timeout, disconnection or cancellation
\* leaves one behind that nobody can withdraw.
JitOf(m) ==
    \A i \in m.inhibitors : inhibitor_is_jit(i) => ShuttingDown(m) /\ i.client \in m.clients

NoOrphanJitInhibitor == JitOf(mgr)

\* The query waits for clients the manager still has and for nobody outside the
\* query; clients asked to be last are remembered only while the session ends.
WaitLists(m) ==
    /\ m.phase = "QUERY_END_SESSION" => m.query_clients \subseteq m.clients
    /\ m.phase \in {"RUNNING", "EXIT"} => m.query_clients = {}
    /\ m.next_query_clients # {} => m.phase = "END_SESSION"

WaitListsMatchPhase == WaitLists(mgr)

\* The session does not go on from the query to its end while somebody inhibits
\* the logout, unless the user forced it or confirmed a dialog, or the last
\* client left.
QueryIsNotSkipped ==
    [][ mgr.phase = "QUERY_END_SESSION" /\ mgr'.phase \in {"END_SESSION", "EXIT"}
        => \/ ~is_logout_inhibited(mgr')
           \/ mgr'.logout_mode = "FORCE"
           \/ mgr'.clients = {}
           \/ logout_dialog # NONE /\ logout_dialog' = NONE ]_vars

(***************************************************************************)
(* Liveness.                                                               *)
(***************************************************************************)
\* The end-session phase ends: the process stops, or a client cancels, whatever
\* the clients fail to answer.
EndSessionEnds ==
    mgr.phase = "END_SESSION" ~> mgr.process # "running" \/ mgr.phase = "RUNNING"

\* The query ends or asks the user, even if no client answers.
QueryEndsOrAsks ==
    mgr.phase = "QUERY_END_SESSION"
        ~> mgr.phase # "QUERY_END_SESSION" \/ mgr.inhibit_dialog \in EndActions
           \/ mgr.process # "running"

-----------------------------------------------------------------------------
(***************************************************************************)
(* What the repository says and the code does not do.                      *)
(***************************************************************************)
\* "We should only be here if mode has already have been set": the assertion of
\* logout_dialog_response holds whenever a logout dialog is answered.
LogoutDialogAssertionHolds == mgr.process # "aborted"

\* "Forcefully logout.  No confirmation will be shown and any inhibitors will be
\* ignored" (Logout, org.gnome.SessionManager.xml): the query of a forced logout
\* does not ask the user what to do about inhibitors.
ForcedLogoutIgnoresInhibitors ==
    mgr.phase = "QUERY_END_SESSION" /\ mgr.logout_mode = "FORCE"
        => mgr.inhibit_dialog \notin EndActions

(***************************************************************************)
(* The refinement: the phases seen from outside.                           *)
(***************************************************************************)
StageOf(m) ==
    IF m.process = "quit" THEN "over"
    ELSE IF m.process # "running" THEN "failed"
    ELSE CASE m.phase = "RUNNING"                    -> "running"
           [] m.phase = "QUERY_END_SESSION"          -> "asking"
           [] m.phase \in {"END_SESSION", "EXIT"}    -> "ending"

EndOf(m) == IF m.phase = "RUNNING" THEN NONE ELSE m.logout_type

Lifecycle == INSTANCE SessionLifecycle
                 WITH Ends <- EndActions, stage <- StageOf(mgr), end <- EndOf(mgr)

\* The phases of the manager keep the promises of SessionLifecycle.
ImplementsLifecycle == Lifecycle!Spec

=============================================================================
