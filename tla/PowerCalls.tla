----------------------------- MODULE PowerCalls -----------------------------
(***************************************************************************)
(* What the session manager asks of the login manager (gsm-systemd.c when  *)
(* logind runs, gsm-consolekit.c otherwise) and of the display manager     *)
(* (mdm.c): what a machine can do, reboot, power off, suspend, hibernate   *)
(* and the idle hint of the session.                                       *)
(*                                                                         *)
(* Each backend is a singleton with a connection to the system bus, a      *)
(* proxy of the bus that watches NameOwnerChanged, and a proxy bound to    *)
(* the process that owned the login manager's name when it was made.       *)
(* Every call renews what is missing of the three and then blocks the main *)
(* loop until the answer: the signals that arrive meanwhile wait in the    *)
(* connection's queue.  A login manager that restarts, a bus that falls    *)
(* and a display manager that cannot be reached are the faults here.       *)
(***************************************************************************)
EXTENDS Naturals, Sequences

CONSTANTS MaxStarts,    \* how many times the login manager takes its name
          MaxFalls      \* how many times the system bus falls

ASSUME MaxStartsAssumption == MaxStarts \in Nat
ASSUME MaxFallsAssumption == MaxFalls \in Nat

VARIABLES
  logind,        \* LOGIND_RUNNING(): the backend is gsm-systemd.c
  busUp, falls,  \* the system bus
  owner, starts, \* who owns the login manager's name; 0 when nobody does
  conn,          \* priv->dbus_connection: "none", "live", or "dead" when the bus fell
  watching,      \* priv->bus_proxy # NULL
  proxy,         \* sd_proxy or ck_proxy: the owner it is bound to, 0 for NULL
  queue,         \* messages received on conn and not dispatched
  todo,          \* calls the running handler has still to make
  at,            \* where the main loop is in the first of them
  peer,          \* the process that has been called
  left,          \* round trips the call still needs
  ok,            \* how the call ended
  done,          \* what the login manager has carried out
  phase,         \* "running", "ending", "quitting", "exited"
  logout_type,
  offered,       \* the buttons of the open logout dialog
  dialog,        \* the open logout dialog: "none", "logout" or "shutdown"
  locked,        \* manager_perhaps_lock has run for this sleep
  dmAction,      \* the logout action the display manager keeps
  missed         \* it was not reached and keeps another than it should

bus == <<busUp, falls, owner, starts>>
link == <<conn, watching, proxy, queue>>
call == <<todo, at, peer, left, ok, done>>
session == <<phase, logout_type, offered, dialog, locked>>
mdm == <<dmAction, missed>>
vars == <<logind, bus, link, call, session, mdm>>

Sleeps == {"SUSPEND", "HIBERNATE"}
Ends == {"REBOOT", "SHUTDOWN"}
Powers == Sleeps \union Ends

Kinds == {"offer", "any", "check", "attempt", "idle", "renew"}
Op(kind, what) == [kind |-> kind, what |-> what]
Ops == [kind : Kinds, what : Powers \union {"SWITCH", "NONE"}]

BusType ==
  /\ logind \in BOOLEAN
  /\ busUp \in BOOLEAN /\ falls \in 0..MaxFalls
  /\ starts \in 0..MaxStarts /\ owner \in {0, starts}
LinkType ==
  /\ conn \in {"none", "live", "dead"}
  /\ watching \in BOOLEAN /\ proxy \in 0..MaxStarts
  /\ queue \in Seq({"owner", "gone"})
CallType ==
  /\ todo \in Seq(Ops)
  /\ at \in {"idle", "connect", "watch", "find", "call", "wait", "end"}
  /\ at # "idle" => todo # <<>>
  /\ peer \in 0..MaxStarts /\ left \in 0..3 /\ ok \in BOOLEAN
  /\ done \in SUBSET (Powers \union {"SWITCH", "NONE"})
SessionType ==
  /\ phase \in {"running", "ending", "quitting", "exited"}
  /\ logout_type \in Ends \union {"NONE", "LOGOUT"}
  /\ offered \in SUBSET (Powers \union {"SWITCH", "NONE"})
  /\ dialog \in {"none", "logout", "shutdown"}
  /\ locked \in BOOLEAN
  /\ dmAction \in Ends \union {"NONE"}
  /\ missed \in BOOLEAN
\* The types, and one link between them: with a logout type that ends the
\* session comes a phase that does.
TypeOK ==
  /\ BusType /\ LinkType /\ CallType /\ SessionType
  /\ phase = "ending" => logout_type # "NONE"

Init ==
  /\ logind \in BOOLEAN
  /\ busUp = TRUE /\ falls = 0 /\ owner = 0 /\ starts = 0
  /\ conn = "none" /\ watching = FALSE /\ proxy = 0
  /\ queue = <<>>
  /\ todo = <<>> /\ at = "idle" /\ peer = 0 /\ left = 0 /\ ok = FALSE /\ done = {}
  /\ phase = "running" /\ logout_type = "NONE"
  /\ offered = {} /\ dialog = "none" /\ locked = FALSE
  /\ dmAction \in {"NONE", "REBOOT"} \* what an earlier session left there
  /\ missed = FALSE

-----------------------------------------------------------------------------
(* The world: the system bus, the login manager and the display manager.   *)

\* What happens after the session is over is not looked at.
InSession == phase # "exited"

\* NameOwnerChanged, to a connection that watches it.
Signalled ==
  queue' = IF conn = "live" /\ watching THEN Append(queue, "owner") ELSE queue

OwnerAppears ==
  /\ InSession /\ busUp /\ owner = 0 /\ starts < MaxStarts
  /\ starts' = starts + 1 /\ owner' = starts + 1
  /\ Signalled
  /\ UNCHANGED <<logind, busUp, falls, conn, watching, proxy, call, session, mdm>>

OwnerDies ==
  /\ InSession /\ owner # 0
  /\ owner' = 0
  /\ Signalled
  /\ UNCHANGED <<logind, busUp, falls, starts, conn, watching, proxy, call, session, mdm>>

\* exit_on_disconnect is FALSE: the connection stays, dead, and a
\* "Disconnected" message is the last of its queue.
BusFalls ==
  /\ InSession /\ busUp /\ falls < MaxFalls
  /\ busUp' = FALSE /\ falls' = falls + 1 /\ owner' = 0
  /\ IF conn = "live"
     THEN conn' = "dead" /\ queue' = Append(queue, "gone")
     ELSE UNCHANGED <<conn, queue>>
  /\ UNCHANGED <<logind, starts, watching, proxy, call, session, mdm>>

BusReturns ==
  /\ InSession /\ ~busUp
  /\ busUp' = TRUE
  /\ UNCHANGED <<logind, falls, owner, starts, link, call, session, mdm>>

-----------------------------------------------------------------------------
(* A call: renew the connection, find the login manager, call, wait.       *)

\* Fault: the main loop enters a call that nobody makes.
BeginsAlways(ops) == todo' = ops /\ at' = "connect"

\* The handler that runs next makes these calls, one after the other.
Begin(ops) == todo' = ops /\ at' = IF ops = <<>> THEN "idle" ELSE "connect"

Ended(result) == at' = "end" /\ ok' = result

\* Calls through the proxy go to the process it is bound to; those by name
\* go to the owner of the name.  With logind the seat is read from files.
ByName(op) == op.kind = "idle" \/ op.what = "SWITCH"
Trips(op) ==
  CASE op.kind = "renew" -> 0
    [] op.kind = "idle" -> 2
    [] op.what = "SWITCH" -> IF logind THEN 0 ELSE 3
    [] OTHER -> 1

EnsureConnection ==
  /\ at = "connect"
  /\ IF conn # "none" \/ busUp
     THEN at' = "watch" /\ conn' = (IF conn = "none" THEN "live" ELSE conn) /\ UNCHANGED ok
     ELSE Ended(FALSE) /\ UNCHANGED conn
  /\ UNCHANGED <<logind, bus, watching, proxy, queue, todo, peer, left, done, session, mdm>>

EnsureBusProxy ==
  /\ at = "watch"
  /\ IF watching \/ conn = "live"
     THEN watching' = TRUE /\ at' = "find" /\ UNCHANGED <<proxy, ok>>
     ELSE proxy' = 0 /\ Ended(FALSE) /\ UNCHANGED watching
  /\ UNCHANGED <<logind, bus, conn, queue, todo, peer, left, done, session, mdm>>

EnsureProxy ==
  /\ at = "find"
  /\ IF proxy # 0 \/ (conn = "live" /\ owner # 0)
     THEN /\ proxy' = IF proxy = 0 THEN owner ELSE proxy
          /\ at' = "call" /\ left' = Trips(Head(todo)) /\ UNCHANGED ok
     ELSE Ended(FALSE) /\ UNCHANGED <<proxy, left>>
  /\ UNCHANGED <<logind, bus, conn, watching, queue, todo, peer, done, session, mdm>>

Call ==
  /\ at = "call"
  /\ LET op == Head(todo) IN
       IF left = 0
       THEN (\E answer \in BOOLEAN : Ended(answer)) /\ UNCHANGED <<peer, done>>
       ELSE IF conn = "live" /\ owner # 0 /\ (ByName(op) \/ proxy = owner)
       THEN at' = "wait" /\ peer' = owner /\ done' = done \ {op.what} /\ UNCHANGED ok
       ELSE Ended(FALSE) /\ UNCHANGED <<peer, done>>
  /\ UNCHANGED <<logind, bus, link, todo, left, session, mdm>>

\* The login manager does what it is after its own questions to the
\* user; it may still die before it replies.
CarriesOut ==
  /\ at = "wait" /\ owner = peer /\ conn = "live"
  /\ Head(todo).kind = "attempt"
  /\ done' = done \union {Head(todo).what}
  /\ UNCHANGED <<logind, bus, link, todo, at, peer, left, ok, session, mdm>>

Replies ==
  /\ at = "wait" /\ owner = peer /\ conn = "live"
  /\ \E answer \in BOOLEAN :
       /\ Head(todo).kind = "attempt" => (answer <=> Head(todo).what \in done)
       /\ IF answer /\ left > 1
          THEN at' = "call" /\ left' = left - 1 /\ UNCHANGED ok
          ELSE Ended(answer) /\ UNCHANGED left
  /\ UNCHANGED <<logind, bus, link, todo, peer, done, session, mdm>>

\* The bus answers for a process that is gone; a dead connection fails.
ReplyIsLost ==
  /\ at = "wait" /\ (owner # peer \/ conn # "live")
  /\ Ended(FALSE)
  /\ UNCHANGED <<logind, bus, link, todo, peer, left, done, session, mdm>>

\* Only the calls by name have a timeout; the others wait for INT_MAX.
CallTimesOut ==
  /\ at = "wait" /\ ByName(Head(todo))
  /\ Ended(FALSE)
  /\ UNCHANGED <<logind, bus, link, todo, peer, left, done, session, mdm>>

-----------------------------------------------------------------------------
(* The display manager client.                                             *)

\* mdm_init_protocol_connection and mdm_authenticate_connection: there is no
\* display manager behind the socket, or it does not know the cookie.
Unreachable == UNCHANGED dmAction

\* mdm_set_logout_action: nothing is done, and nobody is told, when the
\* display manager cannot be reached.
SetLogoutAction(action) ==
  /\ dmAction' = action \/ Unreachable
  /\ missed' = (dmAction' # action)

\* mdm_supports_logout_action: what the display manager says, or what it said
\* before when it was asked in the last second or cannot be reached.
SupportedActions == SUBSET Ends

-----------------------------------------------------------------------------
(* What a handler does with the end of a call.                             *)

Over(kind) == at = "end" /\ Head(todo).kind = kind
Continue(ops) ==
  Begin(ops) /\ peer' = 0 /\ left' = 0 /\ ok' = FALSE /\ done' = {}

\* A button of the logout dialog; the display manager is asked about a
\* restart or a shutdown that the login manager cannot do.
OfferAnswered ==
  /\ Over("offer")
  /\ LET what == Head(todo).what IN
       \E supported \in SupportedActions :
         offered' = IF ok \/ what \in supported THEN offered \union {what} ELSE offered
  /\ Continue(Tail(todo))
  /\ UNCHANGED <<logind, bus, link, phase, logout_type, dialog, locked, mdm>>

\* CanShutdown: the first thing the machine can do is enough.
AnyAnswered ==
  /\ Over("any")
  /\ Continue(IF ok THEN <<>> ELSE Tail(todo))
  /\ UNCHANGED <<logind, bus, link, session, mdm>>

\* manager_perhaps_lock: the locker runs to its end, unless there is none or
\* the user does not want it.
PerhapsLock == locked' = TRUE

\* ConsoleKit is asked before the screen is locked.
CheckAnswered ==
  /\ Over("check")
  /\ IF ok
     THEN PerhapsLock /\ Continue(<<Op("attempt", Head(todo).what)>>)
     ELSE Continue(<<>>) /\ UNCHANGED locked
  /\ UNCHANGED <<logind, bus, link, phase, logout_type, offered, dialog, mdm>>

SleepAttempted ==
  /\ Over("attempt") /\ Head(todo).what \in Sleeps
  /\ locked' = FALSE
  /\ Continue(<<>>)
  /\ UNCHANGED <<logind, bus, link, phase, logout_type, offered, dialog, mdm>>

\* Fault: a refused restart or shutdown is only logged.
QuitGivesUp ==
  /\ Over("attempt") /\ Head(todo).what \in Ends
  /\ phase' = "exited"
  /\ Begin(<<>>)
  /\ UNCHANGED <<logind, bus, link, peer, left, ok, done, logout_type, offered, dialog,
                 locked, mdm>>

\* Fault: the program waits on for the login manager that refused.
QuitWaits ==
  /\ Over("attempt") /\ Head(todo).what \in Ends
  /\ IF ok THEN phase' = "exited" /\ UNCHANGED mdm
     ELSE SetLogoutAction(Head(todo).what) /\ UNCHANGED phase
  /\ Begin(<<>>)
  /\ UNCHANGED <<logind, bus, link, peer, left, ok, done, logout_type, offered, dialog,
                 locked>>

\* quit_request_completed: the fallback of a refused restart or shutdown is
\* what it was connected with.
QuitAttempted ==
  /\ Over("attempt") /\ Head(todo).what \in Ends
  /\ IF ok THEN UNCHANGED <<dmAction, missed>>
     ELSE SetLogoutAction(Head(todo).what)
  /\ phase' = "exited"
  /\ Begin(<<>>)
  /\ UNCHANGED <<logind, bus, link, peer, left, ok, done, logout_type, offered, dialog,
                 locked>>

\* Nothing depends on how these end.
IdleHintSent ==
  /\ Over("idle")
  /\ Continue(<<>>)
  /\ UNCHANGED <<logind, bus, link, session, mdm>>

ConnectionRenewed ==
  /\ Over("renew")
  /\ Continue(<<>>)
  /\ UNCHANGED <<logind, bus, link, session, mdm>>

-----------------------------------------------------------------------------
(* The handlers of the main loop.                                          *)

Runs == at = "idle" /\ phase \in {"running", "ending"}

\* Fault: the proxy of the old owner is kept.
OwnerChangeKeepsProxy ==
  /\ Runs /\ queue # <<>> /\ Head(queue) = "owner"
  /\ queue' = Tail(queue)
  /\ Begin(<<Op("renew", "NONE")>>)
  /\ UNCHANGED <<logind, bus, conn, watching, proxy, peer, left, ok, done, session, mdm>>

\* gsm_*_on_name_owner_changed.
OnNameOwnerChanged ==
  /\ Runs /\ queue # <<>> /\ Head(queue) = "owner"
  /\ queue' = Tail(queue) /\ proxy' = 0
  /\ Begin(<<Op("renew", "NONE")>>)
  /\ UNCHANGED <<logind, bus, conn, watching, peer, left, ok, done, session, mdm>>

\* Fault: the proxy of the dead connection is kept.
DisconnectKeepsProxy ==
  /\ Runs /\ queue # <<>> /\ Head(queue) = "gone"
  /\ queue' = Tail(queue) /\ conn' = "none" /\ watching' = FALSE
  /\ UNCHANGED <<logind, bus, proxy, call, session, mdm>>

\* The filter's "Disconnected": free_dbus drops all three; the next call
\* connects again.
OnDisconnected ==
  /\ Runs /\ queue # <<>> /\ Head(queue) = "gone"
  /\ queue' = Tail(queue) /\ conn' = "none" /\ watching' = FALSE /\ proxy' = 0
  /\ UNCHANGED <<logind, bus, call, session, mdm>>

OnPresenceStatusChanged ==
  /\ Runs
  /\ Begin(<<Op("idle", "NONE")>>)
  /\ UNCHANGED <<logind, bus, link, peer, left, ok, done, session, mdm>>

CanShutdown ==
  /\ Runs
  /\ Begin(<<Op("any", "SHUTDOWN"), Op("any", "REBOOT"), Op("any", "SUSPEND"),
             Op("any", "HIBERNATE")>>)
  /\ UNCHANGED <<logind, bus, link, peer, left, ok, done, session, mdm>>

\* gsm_get_dialog: a new dialog replaces the one that is open.
OpenDialog(kind) ==
  /\ Runs /\ phase = "running"
  /\ dialog' = kind /\ offered' = {}
  /\ Begin(IF kind = "logout" THEN <<Op("offer", "SWITCH")>>
           ELSE <<Op("offer", "SUSPEND"), Op("offer", "HIBERNATE"),
                  Op("offer", "REBOOT"), Op("offer", "SHUTDOWN")>>)
  /\ UNCHANGED <<logind, bus, link, peer, left, ok, done, phase, logout_type, locked, mdm>>

\* manager_attempt_suspend and manager_attempt_hibernate: with logind the
\* screen is locked first, whatever the login manager will say.
AttemptSleep(what) ==
  IF logind
  THEN PerhapsLock /\ Begin(<<Op("attempt", what)>>)
  ELSE Begin(<<Op("check", what)>>) /\ UNCHANGED locked

\* request_suspend, request_hibernate and request_switch_user.  When they are
\* inhibited the user may do them anyway later (do_inhibit_dialog_action),
\* or not at all; switching users leaves nothing here.
SleepOrSwitchChosen ==
  /\ Runs /\ dialog # "none"
  /\ dialog' = "none" /\ offered' = {}
  /\ \E what \in offered \ Ends :
       IF what \in Sleeps THEN AttemptSleep(what) ELSE UNCHANGED <<todo, at, locked>>
  /\ UNCHANGED <<logind, bus, link, peer, left, ok, done, phase, logout_type, mdm>>

DoInhibitDialogAction ==
  /\ Runs
  /\ \E what \in Sleeps : AttemptSleep(what)
  /\ UNCHANGED <<logind, bus, link, peer, left, ok, done, phase, logout_type, offered,
                 dialog, mdm>>

DialogCancelled ==
  /\ Runs /\ dialog # "none"
  /\ dialog' = "none" /\ offered' = {}
  /\ UNCHANGED <<logind, bus, link, call, phase, logout_type, locked, mdm>>

\* request_reboot and request_shutdown.  The privileges are never asked for
\* now (gsm_*_get_*_privileges), so the session begins to end.  The timeout of
\* the dialog answers SHUTDOWN even when that button is not there.
EndChosen ==
  /\ Runs /\ phase = "running" /\ dialog = "shutdown"
  /\ dialog' = "none" /\ offered' = {}
  /\ logout_type' \in (offered \intersect Ends) \union {"SHUTDOWN"}
  /\ phase' = "ending"
  /\ UNCHANGED <<logind, bus, link, call, locked, mdm>>

RequestLogout ==
  /\ Runs /\ phase = "running"
  /\ logout_type' = "LOGOUT" /\ phase' = "ending" /\ dialog' = "none" /\ offered' = {}
  /\ UNCHANGED <<logind, bus, link, call, locked, mdm>>

CancelEndSession ==
  /\ Runs /\ phase = "ending"
  /\ phase' = "running" /\ logout_type' = "NONE"
  /\ SetLogoutAction("NONE")
  /\ UNCHANGED <<logind, bus, link, call, offered, dialog, locked>>

\* Fault: an action set by an earlier session stays.
QuitKeepsAction ==
  /\ Runs /\ phase = "ending"
  /\ IF logout_type = "LOGOUT"
     THEN phase' = "exited" /\ UNCHANGED <<todo, at>>
     ELSE /\ phase' = "quitting"
          /\ Begin(<<Op("attempt", logout_type)>>)
  /\ UNCHANGED <<logind, bus, link, peer, left, ok, done, logout_type, offered, dialog,
                 locked, mdm>>

\* gsm_manager_quit.
Quit ==
  /\ Runs /\ phase = "ending"
  /\ IF logout_type = "LOGOUT"
     THEN phase' = "exited" /\ UNCHANGED <<todo, at, dmAction, missed>>
     ELSE /\ SetLogoutAction("NONE")
          /\ phase' = "quitting"
          /\ Begin(<<Op("attempt", logout_type)>>)
  /\ UNCHANGED <<logind, bus, link, peer, left, ok, done, logout_type, offered, dialog,
                 locked>>

-----------------------------------------------------------------------------
Dispatches == OnNameOwnerChanged \/ OnDisconnected

\* The steps the main loop takes inside a call; the login manager's reply.
CallSteps ==
  \/ EnsureConnection \/ EnsureBusProxy \/ EnsureProxy \/ Call \/ Replies \/ ReplyIsLost
  \/ OfferAnswered \/ AnyAnswered \/ CheckAnswered \/ SleepAttempted \/ QuitAttempted
  \/ IdleHintSent \/ ConnectionRenewed

Handlers ==
  \/ Dispatches \/ OnPresenceStatusChanged \/ CanShutdown
  \/ \E kind \in {"logout", "shutdown"} : OpenDialog(kind)
  \/ SleepOrSwitchChosen \/ DoInhibitDialogAction \/ DialogCancelled
  \/ EndChosen \/ RequestLogout \/ CancelEndSession \/ Quit

World ==
  \/ OwnerAppears \/ OwnerDies \/ BusFalls \/ BusReturns 
  \/ CarriesOut \/ CallTimesOut

Next == CallSteps \/ Handlers \/ World

\* The main loop keeps running, GLib dispatches what is queued before it is
\* asked for ever more, and the login manager, or the bus for it, replies.
Spec == Init /\ [][Next]_vars /\ WF_vars(CallSteps) /\ SF_vars(Dispatches)

-----------------------------------------------------------------------------
\* A proxy is bound to one process (dbus_g_proxy_new_for_name_owner).  While
\* it is bound to one that is gone, the message that makes
\* gsm_*_on_name_owner_changed or free_dbus drop it is on its way.
Stale == proxy \notin {0, owner}
StaleProxyIsTold == Stale => queue # <<>>

\* A restart or shutdown that ends the session (gsm_manager_quit) is carried
\* out by the login manager or is left to the display manager, unless that
\* cannot be reached.
RequestIsNotLost ==
  phase = "exited" /\ logout_type \in Ends =>
    logout_type \in done \/ dmAction = logout_type \/ missed

\* When the login manager says it restarts or stops the machine, the display
\* manager is not asked to do it as well: an action left from an earlier
\* request has been taken back.
OnlyOneIsAsked ==
  phase = "exited" /\ logout_type \in Ends /\ ok => dmAction = "NONE" \/ missed

\* While the session lasts a stale proxy is dropped: every call that follows
\* a restart of the login manager does not fail for ever.
StaleProxyIsDropped == Stale ~> (~Stale \/ phase \in {"quitting", "exited"})

\* The session ends whatever becomes of the request to restart or stop.
QuitEnds == phase = "quitting" ~> phase = "exited"
=============================================================================
