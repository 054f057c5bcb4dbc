----------------------------- MODULE AutostartApp -----------------------------
(***************************************************************************)
(* One autostart application with an AutostartCondition, from the start of *)
(* its phase: GsmAutostartApp launches its program and watches the child   *)
(* and the condition (mate-session/gsm-autostart-app.c), GsmManager starts *)
(* and stops it as the condition changes and restarts it when its client   *)
(* leaves the session (mate-session/gsm-manager.c).                        *)
(*                                                                         *)
(* What the main loop is told comes in any order: the end of a child, the  *)
(* end of its client's connection and a change of the condition are events *)
(* of their own, each dispatched some time after it happened.              *)
(***************************************************************************)
EXTENDS Naturals, Sequences

CONSTANTS
    Procs,          \* bound on the processes at a time; an id is reused once it is reaped
    MaxChanges,     \* bound on the changes of the condition
    None            \* no process, no client; a pid of -1

ASSUME ConstantsAssumption ==
    /\ MaxChanges \in Nat
    /\ None \notin Procs

VARIABLES
    autorestart,    \* X-MATE-AutoRestart, or the restart hint of an XSMP client
    delay,          \* has the application an autostart delay?
    file_condition, \* if-exists or unless-exists; else GSettings
    session,    \* the application's phase has not begun, it has, or the session is ending
    condition,  \* does the condition hold?
    known,      \* what the application takes the condition to be
    notices,    \* changes of the condition not yet dispatched
    changes,
    delayed,    \* the timer of the autostart delay is set
    pid,
    proc,       \* the processes that were launched
    client,     \* the process that registered with the application's startup id
    listed,     \* how often this client is in condition_clients
    stale       \* what is in condition_clients of clients that are gone

\* What the desktop file says, which does not change.
settings == <<autorestart, delay, file_condition>>

vars == <<settings, session, condition, known, notices, changes, delayed, pid, proc,
          client, listed, stale>>

\* "told": asked to stop; "ended": exited or killed, its child watch not dispatched yet.
ProcStates == {"free", "running", "told", "ended"}

TypeOK ==
    /\ autorestart \in BOOLEAN
    /\ delay \in BOOLEAN
    /\ file_condition \in BOOLEAN
    /\ session \in {"starting", "running", "ending"}
    /\ condition \in BOOLEAN
    /\ known \in BOOLEAN
    /\ notices \in Seq(BOOLEAN)
    /\ changes \in 0..MaxChanges
    /\ delayed \in BOOLEAN
    /\ pid \in Procs \cup {None}
    /\ proc \in [Procs -> ProcStates]
    /\ client \in Procs \cup {None}
    /\ listed \in 0..MaxChanges
    /\ stale \in 0..MaxChanges

\* gsm_manager_start has looked at the condition of every application.
Init ==
    /\ autorestart \in BOOLEAN
    /\ delay \in BOOLEAN
    /\ file_condition \in BOOLEAN
    /\ session = "starting"
    /\ condition \in BOOLEAN
    /\ known = condition
    /\ notices = <<>>
    /\ changes = 0
    /\ delayed = FALSE
    /\ pid = None
    /\ proc = [p \in Procs |-> "free"]
    /\ client = None
    /\ listed = 0
    /\ stale = 0

-----------------------------------------------------------------------------
(***************************************************************************)
(* The program.  Nothing but app_exited resets the pid.                    *)
(***************************************************************************)
is_running == pid # None

\* The processes once p has been sent SIGTERM, or the Die or Stop of its client.
Told(p) == [proc EXCEPT ![p] = IF @ = "running" THEN "told" ELSE @]

\* gsm_autostart_app_stop: without a pid it is an error and changes nothing.
stop == IF is_running THEN Told(pid) ELSE proc

Launch(procs) ==
    \E p \in Procs \ {client} :
        /\ procs[p] = "free"
        /\ proc' = [procs EXCEPT ![p] = "running"]
        /\ pid' = p

LaunchFails(procs) == proc' = procs /\ UNCHANGED pid

gsm_autostart_app_start == Launch(proc) \/ LaunchFails(proc)

NoStart == UNCHANGED <<pid, proc>>

\* The error of a stop that fails is ignored.
gsm_autostart_app_restart == Launch(stop) \/ LaunchFails(stop)

\* Fault: an application whose condition comes true is started even if it runs.
HoldsStartsAgain == gsm_autostart_app_start /\ UNCHANGED listed

\* app_condition_changed (app, TRUE)
ConditionHolds ==
    /\ IF ~is_running /\ client = None THEN gsm_autostart_app_start ELSE NoStart
    /\ UNCHANGED listed

StopClient ==
    /\ proc' = Told(client)
    /\ listed' = listed + 1
    /\ UNCHANGED pid

\* Fault: an application that has no client yet runs on.
FailsStopsOnlyClients == IF client # None THEN StopClient ELSE NoStart /\ UNCHANGED listed

\* app_condition_changed (app, FALSE)
ConditionFails ==
    IF client # None THEN StopClient
    ELSE proc' = stop /\ UNCHANGED <<pid, listed>>

-----------------------------------------------------------------------------
\* is_conditionally_disabled looks at the condition itself and remembers what it saw.
StartIfEnabled ==
    /\ known' = condition
    /\ IF condition THEN gsm_autostart_app_start ELSE NoStart

start_app ==
    /\ session = "starting"
    /\ session' = "running"
    /\ delayed' = (delay /\ condition)
    /\ IF delay THEN known' = condition /\ NoStart ELSE StartIfEnabled
    /\ UNCHANGED <<settings, condition, notices, changes, client, listed, stale>>

autostart_delay_timeout ==
    /\ delayed
    /\ delayed' = FALSE
    /\ StartIfEnabled
    /\ UNCHANGED <<settings, session, condition, notices, changes, client, listed, stale>>

ConditionChanges ==
    /\ changes < MaxChanges
    /\ changes' = changes + 1
    /\ condition' = ~condition
    /\ notices' = Append(notices, ~condition)
    /\ UNCHANGED <<settings, session, known, delayed, pid, proc, client, listed, stale>>

\* A file monitor tells what happened to the file, GSettings is asked for its value;
\* the manager listens from start_app on, and whatever becomes of the session.
condition_cb ==
    LET holds == IF file_condition THEN Head(notices) ELSE condition
    IN  /\ notices # <<>>
        /\ notices' = Tail(notices)
        /\ known' = holds
        /\ IF holds = known \/ session = "starting"
           THEN NoStart /\ UNCHANGED listed
           ELSE IF holds THEN ConditionHolds ELSE ConditionFails
        /\ UNCHANGED <<settings, session, condition, changes, delayed, client, stale>>

-----------------------------------------------------------------------------
(***************************************************************************)
(* Clients.  A new client may be given the address of one that is gone.    *)
(***************************************************************************)
Register(p) ==
    /\ session = "running"
    /\ client = None
    /\ proc[p] \in {"running", "told"}
    /\ client' = p
    /\ \E n \in 0..stale : listed' = n /\ stale' = stale - n
    /\ UNCHANGED <<settings, session, condition, known, notices, changes, delayed, pid, proc>>

\* _disconnect_client: one entry of condition_clients is removed.
disconnect_client ==
    /\ client # None
    /\ client' = None
    /\ listed' = 0
    /\ stale' = IF listed > 0 THEN stale + listed - 1 ELSE stale
    /\ IF autorestart /\ session # "ending" /\ listed = 0
       THEN gsm_autostart_app_restart
       ELSE NoStart
    /\ UNCHANGED <<settings, session, condition, known, notices, changes, delayed>>

ProcessEnds(p) ==
    /\ proc[p] \in {"running", "told"}
    /\ proc' = [proc EXCEPT ![p] = "ended"]
    /\ UNCHANGED <<settings, session, condition, known, notices, changes, delayed, pid, client,
                   listed, stale>>

\* Fault: the pid is reset to 0, which is not the value of no pid.
ExitZeroesPid(p) ==
    /\ proc[p] = "ended"
    /\ proc' = [proc EXCEPT ![p] = "free"]
    /\ pid' = "0"
    /\ UNCHANGED <<settings, session, condition, known, notices, changes, delayed, client,
                   listed, stale>>

\* Fault: the child watch forgets to reset the pid.
ExitKeepsPid(p) ==
    /\ proc[p] = "ended"
    /\ proc' = [proc EXCEPT ![p] = "free"]
    /\ UNCHANGED <<settings, session, condition, known, notices, changes, delayed, pid, client,
                   listed, stale>>

\* The pid is reset whichever child it was that ended.
app_exited(p) ==
    /\ proc[p] = "ended"
    /\ proc' = [proc EXCEPT ![p] = "free"]
    /\ pid' = None
    /\ UNCHANGED <<settings, session, condition, known, notices, changes, delayed, client,
                   listed, stale>>

SessionEnds ==
    /\ \/ session = "running" /\ session' = "ending"
       \/ session = "ending" /\ session' = "running"
    /\ UNCHANGED <<settings, condition, known, notices, changes, delayed, pid, proc, client,
                   listed, stale>>

Next ==
    \/ start_app \/ autostart_delay_timeout \/ ConditionChanges \/ condition_cb
    \/ disconnect_client \/ SessionEnds
    \/ \E p \in Procs : Register(p) \/ ProcessEnds(p) \/ app_exited(p)

Spec == Init /\ [][Next]_vars

-----------------------------------------------------------------------------
Alive == {p \in Procs : proc[p] \in {"running", "told"}}

\* The process that the application would send SIGTERM is one that it started and
\* that has not been reaped, so that its id cannot be another program's: however
\* restarts, delayed starts and the ends of several children cross.
PidIsNotReused == is_running => proc[pid] # "free"

\* Without automatic restarts and delays, the manager knows the program it started,
\* and starts no second one while the first is there, told to stop or not.
Plain == ~autorestart /\ ~delay

KnowsItsProcess == Plain => Alive \subseteq {pid}

\* Without automatic restarts and delays, no program that was not told to stop runs
\* on once the application has noticed that its condition does not hold, wherever
\* in its life the notice met it: starting, registered, leaving.
DisabledAppIsStopped ==
    Plain /\ ~known /\ session # "starting" => \A p \in Procs : proc[p] # "running"

=============================================================================
