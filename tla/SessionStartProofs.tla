------------------------- MODULE SessionStartProofs -------------------------
(***************************************************************************)
(* Proofs about SessionStart, for any applications in any phases.          *)
(***************************************************************************)
EXTENDS SessionStart, TLAPS

\* What NextPhase(p) chooses.
Follows(p, q) ==
    /\ q \in p + 1..QUERY_END_SESSION
    /\ q >= RUNNING \/ Awaited(q) # {}
    /\ \A r \in p + 1..q - 1 : r # RUNNING /\ Awaited(r) = {}

\* A phase that is over has a next one: either the phase after it has applications
\* to wait for, or the one that follows that phase follows here too.
LEMMA SomePhaseFollows == \A p \in STARTUP..APPLICATION : \E q : Follows(p, q)
<1>1. \E q : Follows(5, q)
  <2>1. Follows(5, 6)
    BY DEF Follows, RUNNING, QUERY_END_SESSION
  <2> QED BY <2>1
<1>2. ASSUME NEW p \in 0..4, \E q : Follows(p + 1, q)
      PROVE  \E q : Follows(p, q)
  <2>1. CASE Awaited(p + 1) # {}
    <3>1. Follows(p, p + 1)
      BY <2>1 DEF Follows, RUNNING, QUERY_END_SESSION
    <3> QED BY <3>1
  <2>2. CASE Awaited(p + 1) = {}
    <3>1. PICK q : Follows(p + 1, q)
      BY <1>2
    <3>2. q \in p + 1..7 /\ (q >= 6 \/ Awaited(q) # {})
      BY <3>1 DEF Follows, RUNNING, QUERY_END_SESSION
    <3>3. ASSUME NEW r \in p + 1..q - 1
          PROVE  r # 6 /\ Awaited(r) = {}
      <4>1. CASE r = p + 1
        BY <4>1, <2>2
      <4>2. CASE r # p + 1
        BY <4>2, <3>1, <3>2, <3>3 DEF Follows, RUNNING, QUERY_END_SESSION
      <4> QED BY <4>1, <4>2
    <3>4. Follows(p, q)
      BY <3>2, <3>3 DEF Follows, RUNNING, QUERY_END_SESSION
    <3> QED BY <3>4
  <2> QED BY <2>1, <2>2
<1>3. \E q : Follows(4, q)
  BY <1>1, <1>2
<1>4. \E q : Follows(3, q)
  BY <1>3, <1>2
<1>5. \E q : Follows(2, q)
  BY <1>4, <1>2
<1>6. \E q : Follows(1, q)
  BY <1>5, <1>2
<1>7. \E q : Follows(0, q)
  BY <1>6, <1>2
<1>8. \A p \in STARTUP..APPLICATION : p \in {0, 1, 2, 3, 4, 5}
  BY DEF STARTUP, APPLICATION
<1> QED BY <1>1, <1>3, <1>4, <1>5, <1>6, <1>7, <1>8

\* The phase after a startup phase is a later one, and RUNNING is never passed over.
LEMMA NextPhaseType ==
    \A p \in STARTUP..APPLICATION : NextPhase(p) \in p + 1..RUNNING
<1> SUFFICES ASSUME NEW p \in STARTUP..APPLICATION
             PROVE  NextPhase(p) \in p + 1..RUNNING
  OBVIOUS
<1>1. \E q \in p + 1..QUERY_END_SESSION :
          /\ q >= RUNNING \/ Awaited(q) # {}
          /\ \A r \in p + 1..q - 1 : r # RUNNING /\ Awaited(r) = {}
  BY SomePhaseFollows DEF Follows
<1> DEFINE n == NextPhase(p)
<1>2. /\ n \in p + 1..QUERY_END_SESSION
      /\ \A r \in p + 1..n - 1 : r # RUNNING
  BY <1>1 DEF NextPhase
<1> HIDE DEF n
<1>3. n # QUERY_END_SESSION
  BY <1>2 DEF QUERY_END_SESSION, RUNNING, STARTUP, APPLICATION
<1>4. n \in p + 1..RUNNING
  BY <1>2, <1>3 DEF QUERY_END_SESSION, RUNNING, STARTUP, APPLICATION
<1> QED BY <1>4 DEF n

-----------------------------------------------------------------------------
\* Phases that nobody is waited for in: the first and the last.
LEMMA NobodyAwaited == Awaited(STARTUP) = {} /\ Awaited(RUNNING) = {}
BY AppsAssumption DEF Awaited, STARTUP, INITIALIZATION, APPLICATION, RUNNING

\* Who is waited for has a handler and nobody else has; whoever was to be waited
\* for and is no more has announced itself; no timer runs in RUNNING.
Waits ==
    /\ hooked = pending_apps
    /\ pending_apps \subseteq Awaited(phase)
    /\ Awaited(phase) \subseteq pending_apps \cup announced
    /\ phase_timeout => phase < APPLICATION

Inv == TypeOK /\ Waits

\* Starting the applications of the next phases gives each a state of its life.
LEMMA StartedType ==
    ASSUME NEW lives \in [Apps -> Lives], NEW p, NEW q
    PROVE  start_apps(lives, p, q) \in [Apps -> Lives]
BY DEF start_apps, Lives

\* A phase that ends leaves nothing of its own behind.
LEMMA EndPhase ==
    ASSUME Inv, phase # RUNNING,
           NEW lives \in [Apps -> Lives],
           end_phase({}, lives), will' = will, announced' \subseteq Apps
    PROVE  Inv'
<1> DEFINE q == NextPhase(phase)
<1>1. phase \in STARTUP..APPLICATION
  BY DEF Inv, TypeOK, STARTUP, APPLICATION, RUNNING
<1>2. q \in STARTUP..RUNNING
  BY <1>1, NextPhaseType DEF STARTUP, APPLICATION, RUNNING
<1>3. /\ phase' = q
      /\ pending_apps' = Awaited(q)
      /\ hooked' = Awaited(q)
      /\ phase_timeout' = (Awaited(q) # {})
      /\ app' = start_apps(lives, phase, q)
  BY DEF end_phase
<1>4. app' \in [Apps -> Lives]
  BY <1>3, StartedType
<1> HIDE DEF q
<1>5. Awaited(q) \subseteq Apps /\ (Awaited(q) # {} => q < APPLICATION)
  BY DEF Awaited
<1>6. Awaited(phase)' = Awaited(q)
  BY <1>3 DEF Awaited, Launched
<1>7. phase_timeout' \in BOOLEAN
  BY <1>3
<1>8. TypeOK'
  BY <1>2, <1>3, <1>4, <1>5, <1>7 DEF Inv, TypeOK
<1>9. Waits'
  BY <1>3, <1>5, <1>6 DEF Waits
<1> QED BY <1>8, <1>9 DEF Inv

\* An announcement ends a phase only if it is the last of those waited for.
LEMMA Announcing ==
    ASSUME Inv, NEW a \in Apps, NEW life \in Lives, Announce(a, life)
    PROVE  /\ Inv'
           /\ phase = RUNNING => phase' = RUNNING
           /\ phase' # phase => Awaited(phase) \subseteq announced'
<1> DEFINE lives == [app EXCEPT ![a] = life]
<1>1. lives \in [Apps -> Lives]
  BY DEF Inv, TypeOK
<1>2. announced' = announced \cup {a} /\ will' = will
  BY DEF Announce
<1>3. announced' \subseteq Apps
  BY <1>2 DEF Inv, TypeOK
<1>4. CASE a \in hooked /\ app_registered(a, lives)
  <2>1. a \in pending_apps /\ phase # RUNNING
    BY <1>4, NobodyAwaited DEF Inv, Waits
  <2>2. CASE pending_apps \ {a} = {}
    <3>1. hooked \ {a} = {}
      BY <2>2 DEF Inv, Waits
    <3>2. end_phase({}, lives)
      BY <1>4, <2>2, <3>1 DEF app_registered
    <3>3. Inv'
      BY <1>1, <1>2, <1>3, <2>1, <3>2, EndPhase
    <3>4. Awaited(phase) \subseteq announced'
      BY <1>2, <2>2 DEF Inv, Waits
    <3> QED BY <2>1, <3>3, <3>4
  <2>3. CASE pending_apps \ {a} # {}
    <3>1. /\ pending_apps' = pending_apps \ {a}
          /\ hooked' = hooked \ {a}
          /\ app' = lives
          /\ phase' = phase /\ phase_timeout' = phase_timeout
      BY <1>4, <2>3 DEF app_registered
    <3>2. Awaited(phase)' = Awaited(phase)
      BY <1>2, <3>1 DEF Awaited, Launched
    <3>3. TypeOK'
      BY <1>1, <1>2, <1>3, <3>1 DEF Inv, TypeOK
    <3>4. Waits'
      BY <1>2, <3>1, <3>2 DEF Inv, Waits
    <3> QED BY <2>1, <3>1, <3>3, <3>4 DEF Inv
  <2> QED BY <2>2, <2>3
<1>5. CASE a \notin hooked /\ app' = lives
           /\ UNCHANGED <<phase, pending_apps, hooked, phase_timeout>>
  <2>1. Awaited(phase)' = Awaited(phase)
    BY <1>2, <1>5 DEF Awaited, Launched
  <2>2. TypeOK'
    BY <1>1, <1>2, <1>3, <1>5 DEF Inv, TypeOK
  <2>3. Waits'
    BY <1>2, <1>5, <2>1 DEF Inv, Waits
  <2> QED BY <1>5, <2>2, <2>3 DEF Inv
<1> QED BY <1>4, <1>5 DEF Announce

-----------------------------------------------------------------------------
\* Nothing is waited for before the session starts.
LEMMA InitInv == Init => Inv
<1> SUFFICES ASSUME Init PROVE Inv
  OBVIOUS
<1>1. TypeOK
  <2>1. phase \in STARTUP..RUNNING
    BY DEF Init, STARTUP, RUNNING
  <2>2. app \in [Apps -> Lives]
    BY DEF Init, Lives
  <2>3. phase_timeout \in BOOLEAN
    BY DEF Init
  <2> QED BY <2>1, <2>2, <2>3 DEF Init, TypeOK
<1>2. Waits
  BY NobodyAwaited DEF Init, Waits
<1> QED BY <1>1, <1>2 DEF Inv

\* What every step does, action by action.
LEMMA Step ==
    ASSUME Inv, [Next]_vars
    PROVE  /\ Inv'
           /\ phase = RUNNING => phase' = RUNNING
           /\ phase' # phase /\ phase # STARTUP
                => Awaited(phase) \subseteq announced' \/ on_phase_timeout
<1>1. CASE gsm_manager_start
  <2>1. phase = STARTUP /\ hooked = {} /\ phase # RUNNING
    BY <1>1, NobodyAwaited DEF gsm_manager_start, Inv, Waits, STARTUP, RUNNING
  <2>2. end_phase({}, app) /\ will' = will /\ announced' = announced
    BY <1>1, <2>1 DEF gsm_manager_start
  <2>3. app \in [Apps -> Lives] /\ announced \subseteq Apps
    BY DEF Inv, TypeOK
  <2>4. announced' \subseteq Apps
    BY <2>2, <2>3
  <2>5. Inv'
    BY <2>1, <2>2, <2>3, <2>4, EndPhase
  <2> QED BY <2>1, <2>5
<1>2. CASE on_phase_timeout
  <2>1. phase # RUNNING
    BY <1>2 DEF on_phase_timeout, Inv, TypeOK, Waits, APPLICATION, RUNNING
  <2>2. hooked \ pending_apps = {}
    BY DEF Inv, Waits
  <2>3. end_phase({}, app) /\ will' = will /\ announced' = announced
    BY <1>2, <2>2 DEF on_phase_timeout
  <2>4. app \in [Apps -> Lives] /\ announced' \subseteq Apps
    BY <2>3 DEF Inv, TypeOK
  <2>5. Inv'
    BY <2>1, <2>3, <2>4, EndPhase
  <2> QED BY <1>2, <2>1, <2>5
<1>3. ASSUME NEW a \in Apps, Register(a) \/ Exit(a)
      PROVE  /\ Inv'
             /\ phase = RUNNING => phase' = RUNNING
             /\ phase' # phase => Awaited(phase) \subseteq announced'
  <2>1. "registered" \in Lives /\ "exited" \in Lives
    BY DEF Lives
  <2>2. Announce(a, "registered") \/ Announce(a, "exited")
    BY <1>3 DEF Register, Exit
  <2> QED BY <2>1, <2>2, Announcing
<1>4. ASSUME NEW a \in Apps, Die(a) \/ StartAgain(a)
      PROVE  Inv' /\ phase' = phase
  <2>1. OnlyApp
    BY <1>4 DEF Die, StartAgain
  <2>2. app' \in [Apps -> Lives]
    BY <1>4 DEF Die, StartAgain, Inv, TypeOK, Lives
  <2>3. Awaited(phase)' = Awaited(phase)
    BY <2>1 DEF OnlyApp, Awaited, Launched
  <2>4. TypeOK' /\ Waits'
    BY <2>1, <2>2, <2>3 DEF OnlyApp, Inv, TypeOK, Waits
  <2> QED BY <2>1, <2>4 DEF OnlyApp, Inv
<1>5. CASE UNCHANGED vars
  <2>1. Awaited(phase)' = Awaited(phase)
    BY <1>5 DEF vars, Awaited, Launched
  <2>2. TypeOK' /\ Waits'
    BY <1>5, <2>1 DEF vars, Inv, TypeOK, Waits
  <2> QED BY <1>5, <2>2 DEF vars, Inv
<1> QED BY <1>1, <1>2, <1>3, <1>4, <1>5 DEF Next

\* The invariant holds in every behaviour.
LEMMA Invariance == Spec => []Inv
<1>1. Inv /\ [Next]_vars => Inv'
  BY Step
<1> QED BY InitInv, <1>1, PTL DEF Spec

\* Every variable of the start keeps its type; the chain of start_phase and
\* end_phase always arrives at a phase, at the latest at RUNNING.
THEOREM StartTypeCorrect == Spec => []TypeOK
<1>1. Inv => TypeOK
  BY DEF Inv
<1> QED BY Invariance, <1>1, PTL

\* A phase is left by its timer or after all its applications have announced
\* themselves (app_registered): Waits says who is left to be waited for.
THEOREM PhasesInOrder == Spec => PhaseEndsInOrder
<1>1. Inv /\ [Next]_vars
        => [phase' # phase /\ phase # STARTUP
              => Awaited(phase) \subseteq announced' \/ on_phase_timeout]_vars
  BY Step
<1> QED BY Invariance, <1>1, PTL DEF Spec, PhaseEndsInOrder

\* A session that runs is not ended by a late announcement or an old timer.
THEOREM RunningIsKept == Spec => SessionKeepsRunning
<1>1. Inv /\ [Next]_vars => [phase = RUNNING => phase' = RUNNING]_vars
  BY Step
<1> QED BY Invariance, <1>1, PTL DEF Spec, SessionKeepsRunning

=============================================================================
