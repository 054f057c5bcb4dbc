------------------------------- MODULE Presence -------------------------------
(***************************************************************************)
(* The status of the session (mate-session/gsm-presence.c): the status     *)
(* that programs set, replaced by IDLE while the user is away.  What tells *)
(* it are the alarms of the X server, through GSIdleMonitor                *)
(* (mate-session/gs-idle-monitor.c), and the screensaver; the manager      *)
(* takes the alarms away while somebody inhibits idleness.                 *)
(***************************************************************************)
EXTENDS Sequences, SequencesExt

CONSTANTS
    Statuses,     \* what programs set: AVAILABLE, INVISIBLE, BUSY
    AVAILABLE,
    IDLE,
    MaxAlarms     \* bound on the alarms that are on their way

ASSUME ConstantsAssumption ==
    /\ AVAILABLE \in Statuses
    /\ IDLE \notin Statuses

VARIABLES
    status,
    saved_status,
    idle_enabled,        \* nobody inhibits idleness
    idle_delay,          \* is there an idle delay, or is it 0?
    watch,               \* the idle monitor has a watch with its two alarms
    screensaver_active,
    screensaver,         \* the screensaver is on the bus
    alarms,              \* transitions of the idle time not yet dispatched
    user_idle,           \* the idle time of the X server is beyond the delay
    chosen,              \* history: the status that was set last
    disturbed            \* history: the watch was reset over what it had still to tell

vars == <<status, saved_status, idle_enabled, idle_delay, watch, screensaver_active,
          screensaver, alarms, user_idle, chosen, disturbed>>

TypeOK ==
    /\ status \in Statuses \cup {IDLE}
    /\ saved_status \in Statuses
    /\ idle_enabled \in BOOLEAN
    /\ idle_delay \in BOOLEAN
    /\ watch \in BOOLEAN
    /\ screensaver_active \in BOOLEAN
    /\ screensaver \in BOOLEAN
    /\ alarms \in Seq(BOOLEAN)
    /\ user_idle \in BOOLEAN
    /\ chosen \in Statuses
    /\ disturbed \in BOOLEAN

\* The session has just reached RUNNING, whose update_idle sets the watch.
Init ==
    /\ status = AVAILABLE
    /\ saved_status = AVAILABLE
    /\ idle_enabled = TRUE
    /\ idle_delay \in BOOLEAN
    /\ watch = idle_delay
    /\ screensaver_active = FALSE
    /\ screensaver \in BOOLEAN
    /\ alarms = <<>>
    /\ user_idle = FALSE
    /\ chosen = AVAILABLE
    /\ disturbed = FALSE

-----------------------------------------------------------------------------
\* Fault: a session that is idle already saves its status again.
SetIdleAgain(is_idle) ==
    IF is_idle THEN status' = IDLE /\ saved_status' = status
    ELSE /\ status' = IF status = IDLE THEN saved_status ELSE status
         /\ saved_status' = IF status = IDLE THEN AVAILABLE ELSE saved_status

set_session_idle(is_idle) ==
    IF is_idle = (status = IDLE) THEN UNCHANGED <<status, saved_status>>
    ELSE IF is_idle THEN status' = IDLE /\ saved_status' = status
    ELSE status' = saved_status /\ saved_status' = AVAILABLE

\* Fault: a watch is only taken away, never set again.
ResetOnlyRemoves(active, enabled, delay) ==
    /\ watch' = (watch /\ ~active /\ enabled /\ delay)
    /\ alarms' = <<>>

\* The alarms of a watch that is removed find no watch when they arrive.  Those of
\* the new one tell of the next transitions: nothing tells of what is idle already.
reset_idle_watch(active, enabled, delay) ==
    /\ watch' = (~active /\ enabled /\ delay)
    /\ alarms' = <<>>

-----------------------------------------------------------------------------
\* handle_alarm_notify_event and on_idle_timeout
on_idle_timeout ==
    /\ alarms # <<>>
    /\ set_session_idle(Head(alarms))
    /\ alarms' = Tail(alarms)
    /\ UNCHANGED <<idle_enabled, idle_delay, watch, screensaver_active, screensaver,
                   user_idle, chosen, disturbed>>

\* Fault: the screensaver only resets the watch.
ScreensaverOnlyResets ==
    /\ screensaver
    /\ screensaver_active' = ~screensaver_active
    /\ reset_idle_watch(~screensaver_active, idle_enabled, idle_delay)
    /\ IF screensaver_active THEN UNCHANGED <<status, saved_status>> ELSE set_session_idle(TRUE)
    /\ disturbed' = FALSE
    /\ UNCHANGED <<idle_enabled, idle_delay, screensaver, user_idle, chosen>>

on_screensaver_active_changed ==
    /\ screensaver
    /\ screensaver_active' = ~screensaver_active
    /\ reset_idle_watch(~screensaver_active, idle_enabled, idle_delay)
    /\ set_session_idle(~screensaver_active)
    /\ disturbed' = FALSE
    /\ UNCHANGED <<idle_enabled, idle_delay, screensaver, user_idle, chosen>>

on_screensaver_proxy_destroy ==
    /\ screensaver
    /\ screensaver' = FALSE
    /\ screensaver_active' = FALSE
    /\ set_session_idle(FALSE)
    /\ reset_idle_watch(FALSE, idle_enabled, idle_delay)
    /\ disturbed' = FALSE
    /\ UNCHANGED <<idle_enabled, idle_delay, user_idle, chosen>>

\* on_bus_name_owner_changed: the service is added.
ScreensaverAppears ==
    /\ ~screensaver
    /\ screensaver' = TRUE
    /\ UNCHANGED <<status, saved_status, idle_enabled, idle_delay, watch,
                   screensaver_active, alarms, user_idle, chosen, disturbed>>

\* update_idle of the manager, when the first idle inhibitor comes or the last goes.
gsm_presence_set_idle_enabled ==
    /\ idle_enabled' = ~idle_enabled
    /\ disturbed' = (disturbed \/ status = IDLE)
    /\ reset_idle_watch(screensaver_active, ~idle_enabled, idle_delay)
    /\ UNCHANGED <<status, saved_status, idle_delay, screensaver_active, screensaver,
                   user_idle, chosen>>

\* The delay in GSettings becomes 0 or stops being 0.
gsm_presence_set_idle_timeout ==
    /\ idle_delay' = ~idle_delay
    /\ disturbed' = (disturbed \/ status = IDLE)
    /\ reset_idle_watch(screensaver_active, idle_enabled, ~idle_delay)
    /\ UNCHANGED <<status, saved_status, idle_enabled, screensaver_active, screensaver,
                   user_idle, chosen>>

\* SetStatus on the bus.
gsm_presence_set_status(s) ==
    /\ status' = s
    /\ chosen' = s
    /\ disturbed' = FALSE
    /\ UNCHANGED <<saved_status, idle_enabled, idle_delay, watch, screensaver_active,
                   screensaver, alarms, user_idle>>

\* The user leaves or comes back; the X server tells the watch, if there is one.
UserChanges ==
    /\ user_idle' = ~user_idle
    /\ IF watch
       THEN Len(alarms) < MaxAlarms /\ alarms' = Append(alarms, ~user_idle)
       ELSE UNCHANGED alarms
    /\ UNCHANGED <<status, saved_status, idle_enabled, idle_delay, watch,
                   screensaver_active, screensaver, chosen, disturbed>>

Next ==
    \/ on_idle_timeout \/ UserChanges
    \/ on_screensaver_active_changed \/ on_screensaver_proxy_destroy \/ ScreensaverAppears
    \/ gsm_presence_set_idle_enabled \/ gsm_presence_set_idle_timeout
    \/ \E s \in Statuses : gsm_presence_set_status(s)

Spec == Init /\ [][Next]_vars

-----------------------------------------------------------------------------
\* The idle time is watched exactly when it matters, in whatever order inhibitors,
\* the screensaver and the delay come and go.
WatchIsSetWhenNeeded == watch = (~screensaver_active /\ idle_enabled /\ idle_delay)

\* The status that was set last is the one that is shown, or that will be when the
\* session stops being idle, though it became idle by alarm and screensaver at once.
ChosenStatusComesBack ==
    IF status = IDLE THEN saved_status = chosen ELSE status = chosen

\* However alarms and screensaver cross, a session that is taken for idle has an idle
\* user or an active screensaver, once the alarms have been dispatched; unless an
\* inhibitor came or went, or the delay changed, while it was idle already.
IdleUnlessDisturbed ==
    status = IDLE /\ alarms = <<>> /\ ~disturbed => user_idle \/ screensaver_active

=============================================================================
