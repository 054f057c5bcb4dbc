-------------------------- MODULE AutostartAppProofs --------------------------
(***************************************************************************)
(* Proofs about AutostartApp, for every pool of process ids and every      *)
(* number of changes of the condition: a signal never goes to a process    *)
(* id that has been reaped; and, of an application without automatic       *)
(* restart and delay, the manager knows the one program there is and stops *)
(* it when the condition fails.                                            *)
(***************************************************************************)
EXTENDS AutostartApp, TLAPS

\* The types that the invariants below need.
Typed ==
    /\ proc \in [Procs -> ProcStates]
    /\ pid \in Procs \cup {None}
    /\ client \in Procs \cup {None}

Used == {p \in Procs : proc[p] # "free"}

PidInv == Typed /\ PidIsNotReused

-----------------------------------------------------------------------------
\* SIGTERM frees no process id, makes none and leaves no program unasked that it
\* was sent to.
LEMMA ToldFacts ==
    ASSUME Typed, NEW q \in Procs
    PROVE  /\ Told(q) \in [Procs -> ProcStates]
           /\ \A p \in Procs : Told(q)[p] = "free" <=> proc[p] = "free"
           /\ \A p \in Procs : Told(q)[p] = "running" => p # q /\ proc[p] = "running"
  BY DEF Typed, Told, ProcStates

\* The same of gsm_autostart_app_stop.
LEMMA StopFacts ==
    ASSUME Typed
    PROVE  /\ stop \in [Procs -> ProcStates]
           /\ \A p \in Procs : stop[p] = "free" <=> proc[p] = "free"
           /\ \A p \in Procs : stop[p] = "running" => (p # pid /\ proc[p] = "running") \/ ~is_running
  <1>1. CASE is_running
    <2>1. pid \in Procs
      BY <1>1 DEF Typed, is_running
    <2> QED
      BY <1>1, <2>1, ToldFacts DEF stop
  <1>2. CASE ~is_running
    BY <1>2 DEF stop, Typed
  <1> QED
    BY <1>1, <1>2

\* A launch, failed or not, from processes that are those of now as far as ids are
\* in use, keeps the pid on a process that has not been reaped.
LEMMA LaunchKeepsPidInv ==
    ASSUME PidInv, NEW procs, procs \in [Procs -> ProcStates],
           \A p \in Procs : procs[p] = "free" <=> proc[p] = "free",
           Launch(procs) \/ LaunchFails(procs),
           client' \in Procs \cup {None}
    PROVE  PidInv'
  <1>1. CASE Launch(procs)
    <2>1. PICK p \in Procs \ {client} :
            /\ procs[p] = "free"
            /\ proc' = [procs EXCEPT ![p] = "running"]
            /\ pid' = p
      BY <1>1 DEF Launch
    <2>2. proc'[p] = "running"
      BY <2>1
    <2> QED
      BY <2>1, <2>2 DEF PidInv, Typed, PidIsNotReused, ProcStates
  <1>2. CASE LaunchFails(procs)
    BY <1>2 DEF LaunchFails, PidInv, Typed, PidIsNotReused, is_running
  <1> QED
    BY <1>1, <1>2

\* Every step keeps the pid on a process that has not been reaped.
LEMMA PidStep ==
    ASSUME PidInv, [Next]_vars
    PROVE  PidInv'
  <1> USE ConstantsAssumption
  <1>0. Typed /\ \A p \in Procs : proc[p] = "free" <=> proc[p] = "free"
    BY DEF PidInv
  <1>1. ASSUME gsm_autostart_app_start, client' = client
        PROVE  PidInv'
    BY <1>0, <1>1, LaunchKeepsPidInv DEF gsm_autostart_app_start, Typed
  <1>2. ASSUME NoStart, client' \in Procs \cup {None}
        PROVE  PidInv'
    BY <1>2 DEF NoStart, PidInv, Typed, PidIsNotReused, is_running
  <1>3. ASSUME StartIfEnabled, client' = client
        PROVE  PidInv'
    <2>1. gsm_autostart_app_start \/ NoStart
      BY <1>3 DEF StartIfEnabled
    <2> QED
      BY <2>1, <1>1, <1>2, <1>3, <1>0 DEF Typed
  <1>4. CASE start_app
    <2>1. client' = client /\ (NoStart \/ StartIfEnabled)
      BY <1>4 DEF start_app
    <2> QED
      BY <2>1, <1>2, <1>3, <1>0 DEF Typed
  <1>5. CASE autostart_delay_timeout
    BY <1>5, <1>3 DEF autostart_delay_timeout
  <1>6. CASE condition_cb
    <2>1. client' = client /\ client' \in Procs \cup {None}
      BY <1>6, <1>0 DEF condition_cb, Typed
    <2>2. NoStart \/ ConditionHolds \/ ConditionFails
      BY <1>6 DEF condition_cb
    <2>3. CASE ConditionHolds
      BY <2>1, <2>3, <1>1, <1>2 DEF ConditionHolds
    <2>4. CASE ConditionFails
      <3>1. CASE client # None
        <4>1. client \in Procs /\ proc' = Told(client) /\ pid' = pid
          BY <1>0, <2>4, <3>1 DEF ConditionFails, StopClient, Typed
        <4> QED
          BY <4>1, <1>0, <2>1, ToldFacts DEF PidInv, Typed, PidIsNotReused, is_running
      <3>2. CASE client = None
        <4>1. proc' = stop /\ pid' = pid
          BY <2>4, <3>2 DEF ConditionFails
        <4> QED
          BY <4>1, <1>0, <2>1, StopFacts DEF PidInv, Typed, PidIsNotReused, is_running
      <3> QED
        BY <3>1, <3>2
    <2> QED
      BY <2>1, <2>2, <2>3, <2>4, <1>2
  <1>7. CASE disconnect_client
    <2>1. client' = None /\ (gsm_autostart_app_restart \/ NoStart)
      BY <1>7 DEF disconnect_client
    <2>2. CASE gsm_autostart_app_restart
      <3>1. Launch(stop) \/ LaunchFails(stop)
        BY <2>2 DEF gsm_autostart_app_restart
      <3>2. /\ stop \in [Procs -> ProcStates]
            /\ \A p \in Procs : stop[p] = "free" <=> proc[p] = "free"
        BY <1>0, StopFacts
      <3> QED
        BY <2>1, <3>1, <3>2, LaunchKeepsPidInv
    <2> QED
      BY <2>1, <2>2, <1>2
  <1>8. ASSUME NEW p \in Procs, Register(p) PROVE PidInv'
    BY <1>8 DEF Register, PidInv, Typed, PidIsNotReused, is_running
  <1>9. ASSUME NEW p \in Procs, ProcessEnds(p) PROVE PidInv'
    BY <1>9 DEF ProcessEnds, PidInv, Typed, PidIsNotReused, is_running, ProcStates
  <1>10. ASSUME NEW p \in Procs, app_exited(p) PROVE PidInv'
    BY <1>10 DEF app_exited, PidInv, Typed, PidIsNotReused, is_running, ProcStates
  <1>11. CASE ConditionChanges \/ SessionEnds \/ UNCHANGED vars
    BY <1>11 DEF ConditionChanges, SessionEnds, vars, PidInv, Typed, PidIsNotReused, is_running
  <1> QED
    BY <1>4, <1>5, <1>6, <1>7, <1>8, <1>9, <1>10, <1>11 DEF Next

\* The invariant of the pid holds in every behaviour.
LEMMA PidInvariance == Spec => []PidInv
  <1>1. Init => PidInv
    BY DEF Init, PidInv, Typed, PidIsNotReused, is_running, ProcStates
  <1>2. PidInv /\ [Next]_vars => PidInv'
    BY PidStep
  <1> QED
    BY <1>1, <1>2, PTL DEF Spec

\* However restarts, delayed starts and the ends of several children cross, SIGTERM
\* is never sent to a process id that has been reaped and may be another program's.
THEOREM PidCorrect == Spec => []PidIsNotReused
  <1>1. PidInv => PidIsNotReused
    BY DEF PidInv
  <1> QED
    BY <1>1, PidInvariance, PTL

-----------------------------------------------------------------------------
(***************************************************************************)
(* An application that is neither restarted nor delayed.  The strengthening *)
(* follows the one process id that is in use: it is the pid, and once it   *)
(* has registered it is the client, until both the child watch and the     *)
(* disconnection have been dispatched; nothing is in use before the phase  *)
(* of the application.                                                     *)
(***************************************************************************)
OneInv ==
    /\ Typed
    /\ ~delayed
    /\ Used \subseteq {pid}
    /\ client # None => Used \subseteq {client}
    /\ session = "starting" => ~is_running /\ client = None
    /\ DisabledAppIsStopped

\* No step of an application without restart and delay breaks it.
LEMMA OneStep ==
    ASSUME Plain, OneInv, [Next]_vars
    PROVE  OneInv'
  <1> USE ConstantsAssumption
  <1>0. Typed /\ ~autorestart /\ ~delay
    BY DEF OneInv, Plain
  <1>1. ASSUME NoStart, UNCHANGED delayed, UNCHANGED known,
               client' = client \/ client' = None,
               session' = session \/ (session' = "ending" /\ session = "running")
                 \/ (session' = "running" /\ session = "ending")
        PROVE  OneInv'
    BY <1>1 DEF NoStart, OneInv, Typed, Used, is_running, DisabledAppIsStopped
  <1>2. ASSUME gsm_autostart_app_start, ~is_running, client = None, client' = client,
               ~delayed', known', session' = "running" \/ session' = session, session' # "starting"
        PROVE  OneInv'
    <2>1. \A p \in Procs : proc[p] = "free"
      BY <1>2 DEF OneInv, Used, is_running
    <2>2. CASE Launch(proc)
      <3>1. PICK p \in Procs : proc' = [proc EXCEPT ![p] = "running"] /\ pid' = p
        BY <2>2 DEF Launch
      <3> QED
        BY <1>0, <1>2, <2>1, <3>1 DEF OneInv, Typed, Used, ProcStates, DisabledAppIsStopped
    <2>3. CASE LaunchFails(proc)
      BY <1>2, <2>1, <2>3 DEF LaunchFails, OneInv, Typed, Used, is_running, DisabledAppIsStopped
    <2> QED
      BY <1>2, <2>2, <2>3 DEF gsm_autostart_app_start
  <1>3. CASE start_app
    <2>1. /\ session = "starting" /\ session' = "running"
          /\ known' = condition
          /\ ~delayed' /\ client' = client
          /\ IF condition THEN gsm_autostart_app_start ELSE NoStart
      BY <1>0, <1>3 DEF start_app, StartIfEnabled
    <2>2. ~is_running /\ \A p \in Procs : proc[p] = "free"
      BY <2>1 DEF OneInv, Used, is_running
    <2>3. CASE Launch(proc)
      <3>1. PICK p \in Procs \ {client} : proc' = [proc EXCEPT ![p] = "running"] /\ pid' = p
        BY <2>3 DEF Launch
      <3>2. known'
        BY <2>1, <3>1, <2>2, <1>0 DEF NoStart, Typed
      <3>3. client = None
        BY <2>1 DEF OneInv
      <3> QED
        BY <1>0, <2>1, <2>2, <3>1, <3>2, <3>3
        DEF OneInv, Typed, Used, ProcStates, DisabledAppIsStopped
    <2>4. CASE UNCHANGED <<proc, pid>>
      BY <2>1, <2>2, <2>4 DEF OneInv, Typed, Used, is_running, DisabledAppIsStopped
    <2> QED
      BY <2>1, <2>3, <2>4 DEF gsm_autostart_app_start, LaunchFails, NoStart
  <1>4. CASE autostart_delay_timeout
    BY <1>4 DEF autostart_delay_timeout, OneInv
  <1>5. CASE condition_cb
    <2>1. client' = client /\ session' = session /\ delayed' = delayed
      BY <1>5 DEF condition_cb
    <2>2. CASE NoStart /\ (known' = known \/ session = "starting")
      BY <2>1, <2>2 DEF NoStart, OneInv, Typed, Used, is_running, DisabledAppIsStopped
    <2>3. CASE session # "starting" /\ known' /\ ConditionHolds
      <3>1. CASE ~is_running /\ client = None
        BY <1>2, <2>1, <2>3, <3>1 DEF ConditionHolds, OneInv
      <3>2. CASE NoStart
        BY <2>1, <2>3, <3>2 DEF NoStart, OneInv, Typed, Used, is_running, DisabledAppIsStopped
      <3> QED
        BY <2>3, <3>1, <3>2 DEF ConditionHolds
    <2>4. CASE session # "starting" /\ ConditionFails
      <3>1. CASE client # None
        <4>1. client \in Procs /\ proc' = Told(client) /\ pid' = pid
          BY <1>0, <2>4, <3>1 DEF ConditionFails, StopClient, Typed
        <4> QED
          BY <4>1, <1>0, <2>1, <2>4, <3>1, ToldFacts
          DEF OneInv, Typed, Used, is_running, DisabledAppIsStopped, ProcStates
      <3>2. CASE client = None
        <4>1. proc' = stop /\ pid' = pid
          BY <2>4, <3>2 DEF ConditionFails
        <4>2. \A p \in Procs : proc'[p] # "running"
          BY <4>1, <1>0, StopFacts DEF OneInv, Used, is_running
        <4> QED
          BY <4>1, <4>2, <1>0, <2>1, <2>4, <3>2, StopFacts
          DEF OneInv, Typed, Used, is_running, DisabledAppIsStopped
      <3> QED
        BY <3>1, <3>2
    <2> QED
      BY <1>5, <2>2, <2>3, <2>4 DEF condition_cb
  <1>6. CASE disconnect_client
    BY <1>0, <1>6, <1>1 DEF disconnect_client
  <1>7. ASSUME NEW p \in Procs, Register(p) PROVE OneInv'
    BY <1>7 DEF Register, OneInv, Typed, Used, is_running, DisabledAppIsStopped
  <1>8. ASSUME NEW p \in Procs, ProcessEnds(p) PROVE OneInv'
    BY <1>8 DEF ProcessEnds, OneInv, Typed, Used, is_running, DisabledAppIsStopped, ProcStates
  <1>9. ASSUME NEW p \in Procs, app_exited(p) PROVE OneInv'
    BY <1>9 DEF app_exited, OneInv, Typed, Used, is_running, DisabledAppIsStopped, ProcStates
  <1>10. CASE ConditionChanges
    BY <1>10, <1>1 DEF ConditionChanges, NoStart
  <1>11. CASE SessionEnds
    BY <1>11, <1>1 DEF SessionEnds, NoStart
  <1>12. CASE UNCHANGED vars
    <2>1. NoStart /\ UNCHANGED <<delayed, known, client, session>>
      BY <1>12 DEF vars, NoStart
    <2> QED
      BY <2>1, <1>1
  <1> QED
    BY <1>3, <1>4, <1>5, <1>6, <1>7, <1>8, <1>9, <1>10, <1>11, <1>12 DEF Next

\* What the desktop file says does not change.
LEMMA SettingsStay ==
    ASSUME [Next]_vars
    PROVE  Plain' = Plain
  <1>1. settings' = settings
    BY DEF Next, vars, start_app, autostart_delay_timeout, ConditionChanges, condition_cb,
           disconnect_client, SessionEnds, Register, ProcessEnds, app_exited
  <1> QED
    BY <1>1 DEF settings, Plain

\* OneInv is an invariant of an application without automatic restart and delay.
LEMMA OneInvariance == Spec => [](Plain => OneInv)
  <1>1. Init => (Plain => OneInv)
    BY DEF Init, OneInv, Typed, Used, is_running, DisabledAppIsStopped, ProcStates
  <1>2. (Plain => OneInv) /\ [Next]_vars => (Plain => OneInv)'
    BY OneStep, SettingsStay
  <1> QED
    BY <1>1, <1>2, PTL DEF Spec

\* Without automatic restart and delay the manager knows the program it started and
\* starts no second one while the first is there.
THEOREM OneProcess == Spec => []KnowsItsProcess
  <1>1. (Plain => OneInv) => KnowsItsProcess
    BY DEF OneInv, Used, KnowsItsProcess, Alive
  <1> QED
    BY <1>1, OneInvariance, PTL

\* Without automatic restart and delay no program runs on, not told to stop, once
\* the application has noticed that its condition fails.
THEOREM DisabledIsStopped == Spec => []DisabledAppIsStopped
  <1>1. (Plain => OneInv) => DisabledAppIsStopped
    BY DEF OneInv, DisabledAppIsStopped
  <1> QED
    BY <1>1, OneInvariance, PTL

-----------------------------------------------------------------------------
(* The types.                                                              *)

FlagsType ==
    /\ autorestart \in BOOLEAN /\ delay \in BOOLEAN /\ file_condition \in BOOLEAN
    /\ session \in {"starting", "running", "ending"}
    /\ condition \in BOOLEAN /\ known \in BOOLEAN /\ delayed \in BOOLEAN

\* What is listed, or stale, is of a notice that has been dispatched.
ListedInv ==
    /\ notices \in Seq(BOOLEAN) /\ changes \in 0..MaxChanges
    /\ listed \in Nat /\ stale \in Nat
    /\ listed + stale + Len(notices) <= changes

TypeInv == FlagsType /\ ListedInv

\* The flags of the application stay flags.
LEMMA FlagsStep ==
    ASSUME TypeInv, [Next]_vars
    PROVE  FlagsType'
  <1>0. FlagsType
    BY DEF TypeInv
  <1>1. CASE start_app \/ autostart_delay_timeout
    <2>1. known' = known \/ known' = condition
      BY <1>1, Zenon DEF start_app, autostart_delay_timeout, StartIfEnabled
    <2>2. delayed' \in BOOLEAN
      BY <1>1, Zenon DEF start_app, autostart_delay_timeout
    <2>3. /\ session' \in {session, "running"}
          /\ UNCHANGED <<autorestart, delay, file_condition, condition>>
      BY <1>1 DEF start_app, autostart_delay_timeout, settings
    <2> QED
      BY <1>0, <2>1, <2>2, <2>3, Zenon DEF FlagsType
  <1>2. CASE ConditionChanges
    <2>1. condition' = ~condition /\ known' = known /\ delayed' = delayed /\ session' = session
      BY <1>2, Zenon DEF ConditionChanges
    <2>2. UNCHANGED <<autorestart, delay, file_condition>>
      BY <1>2 DEF ConditionChanges, settings
    <2> QED
      BY <1>0, <2>1, <2>2, Zenon DEF FlagsType
  <1>3. CASE condition_cb
    <2>1. Head(notices) \in BOOLEAN
      <3>1. notices # <<>> /\ notices \in Seq(BOOLEAN)
        BY <1>3, Zenon DEF condition_cb, TypeInv, ListedInv
      <3> QED
        BY <3>1
    <2>2. known' = Head(notices) \/ known' = condition
      BY <1>3, Zenon DEF condition_cb
    <2>3. UNCHANGED <<autorestart, delay, file_condition, session, condition, delayed>>
      BY <1>3 DEF condition_cb, settings
    <2> QED
      BY <1>0, <2>1, <2>2, <2>3, Zenon DEF FlagsType
  <1>4. CASE SessionEnds
    BY <1>0, <1>4 DEF SessionEnds, FlagsType, settings
  <1>5. CASE disconnect_client \/ \E p \in Procs : Register(p) \/ ProcessEnds(p) \/ app_exited(p)
    BY <1>0, <1>5 DEF disconnect_client, Register, ProcessEnds, app_exited, FlagsType, settings
  <1>6. CASE UNCHANGED vars
    BY <1>0, <1>6 DEF vars, FlagsType, settings
  <1> QED
    BY <1>1, <1>2, <1>3, <1>4, <1>5, <1>6 DEF Next

\* There are never more reports of the condition, listed or stale, than changes of it.
LEMMA ListedStep ==
    ASSUME TypeInv, [Next]_vars
    PROVE  ListedInv'
  <1> USE ConstantsAssumption
  <1>0. ListedInv
    BY DEF TypeInv
  <1>1. CASE start_app \/ autostart_delay_timeout \/ SessionEnds
             \/ \E p \in Procs : ProcessEnds(p) \/ app_exited(p)
    <2>1. UNCHANGED <<notices, changes, listed, stale>>
      BY <1>1 DEF start_app, autostart_delay_timeout, SessionEnds, ProcessEnds, app_exited
    <2> QED
      BY <1>0, <2>1 DEF ListedInv
  <1>2. CASE ConditionChanges
    <2>1. (~condition) \in BOOLEAN
      OBVIOUS
    <2>2. /\ notices' = Append(notices, ~condition) /\ changes' = changes + 1
          /\ changes < MaxChanges /\ listed' = listed /\ stale' = stale
      BY <1>2, Zenon DEF ConditionChanges
    <2>3. notices' \in Seq(BOOLEAN) /\ Len(notices') = Len(notices) + 1
      <3> DEFINE b == ~condition
      <3>1. b \in BOOLEAN /\ notices' = Append(notices, b)
        BY <2>1, <2>2
      <3> HIDE DEF b
      <3> QED
        BY <1>0, <3>1 DEF ListedInv
    <2> QED
      BY <1>0, <2>2, <2>3 DEF ListedInv
  <1>3. CASE condition_cb
    <2>1. /\ notices # <<>> /\ notices' = Tail(notices) /\ changes' = changes /\ stale' = stale
      BY <1>3 DEF condition_cb
    <2>2. listed' \in {listed, listed + 1}
      BY <1>3 DEF condition_cb, ConditionHolds, ConditionFails, StopClient
    <2>3. notices' \in Seq(BOOLEAN) /\ Len(notices') = Len(notices) - 1
      BY <1>0, <2>1 DEF ListedInv
    <2> QED
      BY <1>0, <2>1, <2>2, <2>3 DEF ListedInv
  <1>4. CASE disconnect_client
    <2>1. /\ listed' = 0 /\ stale' = IF listed > 0 THEN stale + listed - 1 ELSE stale
          /\ notices' = notices /\ changes' = changes
      BY <1>4 DEF disconnect_client
    <2>2. Len(notices) \in Nat
      BY <1>0 DEF ListedInv
    <2> QED
      BY <1>0, <2>1, <2>2 DEF ListedInv
  <1>5. ASSUME NEW p \in Procs, Register(p)
        PROVE  ListedInv'
    <2>1. PICK n \in 0..stale : listed' = n /\ stale' = stale - n
      BY <1>5 DEF Register
    <2>2. client = None /\ notices' = notices /\ changes' = changes /\ Len(notices) \in Nat
      BY <1>0, <1>5 DEF Register, ListedInv
    <2> QED
      BY <1>0, <2>1, <2>2 DEF ListedInv
  <1>6. CASE UNCHANGED vars
    BY <1>0, <1>6 DEF vars, ListedInv
  <1> QED
    BY <1>1, <1>2, <1>3, <1>4, <1>5, <1>6 DEF Next

\* Every variable keeps its type; condition_clients never holds more than there were
\* changes of the condition.
THEOREM AppTypeCorrect == Spec => []TypeOK
  <1>1. Init => TypeInv
    <2> SUFFICES ASSUME Init PROVE TypeInv
      OBVIOUS
    <2>1. FlagsType
      BY Zenon DEF Init, FlagsType
    <2>2. ListedInv
      BY ConstantsAssumption DEF Init, ListedInv
    <2> QED
      BY <2>1, <2>2 DEF TypeInv
  <1>2. TypeInv /\ [Next]_vars => TypeInv'
    BY FlagsStep, ListedStep DEF TypeInv
  <1>3. TypeInv /\ PidInv => TypeOK
    <2> SUFFICES ASSUME TypeInv, PidInv PROVE TypeOK
      OBVIOUS
    <2>1. listed \in 0..MaxChanges /\ stale \in 0..MaxChanges /\ changes \in 0..MaxChanges
      <3>1. Len(notices) \in Nat
        BY DEF TypeInv, ListedInv
      <3> QED
        BY <3>1, ConstantsAssumption DEF TypeInv, ListedInv
    <2>2. notices \in Seq(BOOLEAN)
      BY DEF TypeInv, ListedInv
    <2> QED
      BY <2>1, <2>2, Zenon DEF TypeInv, FlagsType, PidInv, Typed, TypeOK
  <1>4. Spec => []PidInv
    BY PidInvariance
  <1> QED
    BY <1>1, <1>2, <1>3, <1>4, PTL DEF Spec

=============================================================================
