----------------------------- MODULE SessionStart -----------------------------
(***************************************************************************)
(* How a session starts: GsmManager goes through its startup phases, each  *)
(* of which launches the applications that belong to it and waits until    *)
(* every one of them has registered or exited, or until the timer of the   *)
(* phase is over (mate-session/gsm-manager.c).                             *)
(***************************************************************************)
EXTENDS Naturals

CONSTANTS
    Apps,       \* the autostart applications
    AppPhase,   \* the phase of every application
    Delayed     \* applications with an autostart delay

\* GsmManagerPhase, as far as GSM_MANAGER_PHASE_RUNNING
STARTUP == 0
INITIALIZATION == 1
DESKTOP == 4
APPLICATION == 5
RUNNING == 6
QUERY_END_SESSION == 7

\* load_desktop_file: a delay is only read in the application phase.
ASSUME AppsAssumption ==
    /\ AppPhase \in [Apps -> INITIALIZATION..APPLICATION]
    /\ Delayed \subseteq {a \in Apps : AppPhase[a] = APPLICATION}

VARIABLES
    phase,
    pending_apps,
    hooked,         \* applications whose "exited" and "registered" call app_registered
    phase_timeout,  \* the timer of the phase is set
    will,           \* what becomes of an application that its phase wants to start
    app,            \* the life of every application
    announced       \* history: applications that registered or exited once

vars == <<phase, pending_apps, hooked, phase_timeout, will, app, announced>>

(***************************************************************************)
(* "skip": disabled, by its file or by its condition; "fail": the launch   *)
(* fails; "start": it is launched, after its delay if it has one.          *)
(***************************************************************************)
Fates == {"skip", "fail", "start"}
Lives == {"off", "scheduled", "started", "registered", "exited", "died"}

TypeOK ==
    /\ phase \in STARTUP..RUNNING
    /\ pending_apps \subseteq Apps
    /\ hooked \subseteq Apps
    /\ phase_timeout \in BOOLEAN
    /\ will \in [Apps -> Fates]
    /\ app \in [Apps -> Lives]
    /\ announced \subseteq Apps

Init ==
    /\ phase = STARTUP
    /\ pending_apps = {}
    /\ hooked = {}
    /\ phase_timeout = FALSE
    /\ will \in [Apps -> Fates]
    /\ app = [a \in Apps |-> "off"]
    /\ announced = {}

-----------------------------------------------------------------------------
Launched(a) == will[a] = "start" /\ a \notin Delayed

\* The applications a phase has to wait for; the application phase waits for none.
Awaited(p) == {a \in Apps : AppPhase[a] = p /\ p < APPLICATION /\ Launched(a)}

(***************************************************************************)
(* start_phase, do_phase_startup and end_phase call each other through the *)
(* phases that have nobody to wait for: a phase that ends is followed by   *)
(* the next one that has somebody, or by RUNNING, and the applications of  *)
(* all the phases in between are launched in the same call.                *)
(* To end RUNNING is to log out, which must not happen here.               *)
(***************************************************************************)
NextPhase(p) ==
    CHOOSE q \in p + 1..QUERY_END_SESSION :
        /\ q >= RUNNING \/ Awaited(q) # {}
        /\ \A r \in p + 1..q - 1 : r # RUNNING /\ Awaited(r) = {}

\* _start_app, for every application of the phases after p up to q.
start_apps(lives, p, q) ==
    [a \in Apps |->
        IF AppPhase[a] \in p + 1..q /\ will[a] = "start"
        THEN IF a \in Delayed THEN "scheduled" ELSE "started"
        ELSE lives[a]]

\* The phase ends: hooks is what is left hooked of it, lives what has become of the
\* applications.  _start_app hooks the applications that it launches.
end_phase(hooks, lives) ==
    LET q == NextPhase(phase)
    IN  /\ phase' = q
        /\ pending_apps' = Awaited(q)
        /\ hooked' = hooks \cup Awaited(q)
        /\ phase_timeout' = (Awaited(q) # {})
        /\ app' = start_apps(lives, phase, q)

gsm_manager_start ==
    /\ phase = STARTUP
    /\ end_phase(hooked, app)
    /\ UNCHANGED <<will, announced>>

\* Fault: the first application that answers ends the phase for all of them.
FirstAppEndsPhase(a, lives) == end_phase(hooked \ {a}, lives)

\* Fault: the timer goes with the first application that answers.
FirstAppStopsTimer(a, lives) ==
    IF pending_apps \ {a} = {} THEN end_phase(hooked \ {a}, lives)
    ELSE /\ pending_apps' = pending_apps \ {a}
         /\ hooked' = hooked \ {a}
         /\ app' = lives
         /\ phase_timeout' = FALSE
         /\ UNCHANGED phase

\* A second announcement of the same application finds no handler any more.
app_registered(a, lives) ==
    IF pending_apps \ {a} = {} THEN end_phase(hooked \ {a}, lives)
    ELSE /\ pending_apps' = pending_apps \ {a}
         /\ hooked' = hooked \ {a}
         /\ app' = lives
         /\ UNCHANGED <<phase, phase_timeout>>

\* The signals "registered" and "exited" of an application.
Announce(a, life) ==
    LET lives == [app EXCEPT ![a] = life]
    IN  /\ announced' = announced \cup {a}
        /\ UNCHANGED will
        /\ \/ a \in hooked /\ app_registered(a, lives)
           \/ /\ a \notin hooked
              /\ app' = lives
              /\ UNCHANGED <<phase, pending_apps, hooked, phase_timeout>>

-----------------------------------------------------------------------------
(***************************************************************************)
(* The applications.  A program that is killed by a signal emits "died",   *)
(* which nobody listens to.                                                *)
(***************************************************************************)
OnlyApp == UNCHANGED <<phase, pending_apps, hooked, phase_timeout, will, announced>>

Register(a) == app[a] = "started" /\ Announce(a, "registered")

Exit(a) == app[a] \in {"started", "registered"} /\ Announce(a, "exited")

Die(a) ==
    /\ app[a] \in {"started", "registered"}
    /\ app' = [app EXCEPT ![a] = "died"]
    /\ OnlyApp

\* An application comes up outside its phase: its delay is over, its client has
\* left and it is restarted, or its condition has become true.
StartAgain(a) ==
    /\ app[a] # "started"
    /\ AppPhase[a] <= phase
    /\ app' = [app EXCEPT ![a] = "started"]
    /\ OnlyApp

\* Fault: the timer leaves the handlers of the applications it gave up on.
PhaseTimeoutKeepsHooks ==
    /\ phase_timeout
    /\ end_phase(hooked, app)
    /\ UNCHANGED <<will, announced>>

on_phase_timeout ==
    /\ phase_timeout
    /\ end_phase(hooked \ pending_apps, app)
    /\ UNCHANGED <<will, announced>>

Next ==
    \/ gsm_manager_start
    \/ on_phase_timeout
    \/ \E a \in Apps : Register(a) \/ Exit(a) \/ Die(a) \/ StartAgain(a)

Spec == Init /\ [][Next]_vars

\* main starts the manager, and the main loop fires the timer that is due.
FairSpec == Spec /\ WF_vars(gsm_manager_start) /\ WF_vars(on_phase_timeout)

-----------------------------------------------------------------------------
\* The manager launches the next phase when every application of this one has
\* registered or exited, or when the phase has timed out: an announcement that is
\* late, repeated or of a restarted application never ends a phase for others.
PhaseEndsInOrder ==
    [][phase' # phase /\ phase # STARTUP
         => Awaited(phase) \subseteq announced' \/ on_phase_timeout]_vars

\* Nothing the applications do ends a session that is running.
SessionKeepsRunning == [][phase = RUNNING => phase' = RUNNING]_vars

\* The session starts, whatever its applications do.
SessionStarts == <>(phase = RUNNING)

=============================================================================
