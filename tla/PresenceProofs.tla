---------------------------- MODULE PresenceProofs ----------------------------
(***************************************************************************)
(* Proofs about Presence, for every set of statuses and every number of    *)
(* alarms on their way: its types, the watch and the status that comes     *)
(* back.                                                                   *)
(***************************************************************************)
EXTENDS Presence, TLAPS

\* The three invariants together are inductive.
PresenceInv == TypeOK /\ WatchIsSetWhenNeeded /\ ChosenStatusComesBack

\* set_session_idle hides the status that was set behind IDLE or takes it out again.
LEMMA SetIdleKeepsChosen ==
    ASSUME TypeOK, ChosenStatusComesBack, NEW b \in BOOLEAN, set_session_idle(b), chosen' = chosen
    PROVE  /\ status' \in Statuses \cup {IDLE}
           /\ saved_status' \in Statuses
           /\ ChosenStatusComesBack'
  BY ConstantsAssumption DEF TypeOK, ChosenStatusComesBack, set_session_idle

\* Every step preserves the three invariants.
LEMMA PresenceStep ==
    ASSUME PresenceInv, [Next]_vars
    PROVE  PresenceInv'
  <1> USE ConstantsAssumption
  <1>0. TypeOK /\ WatchIsSetWhenNeeded /\ ChosenStatusComesBack
    BY DEF PresenceInv
  <1>1. CASE on_idle_timeout
    <2>1. Head(alarms) \in BOOLEAN /\ Tail(alarms) \in Seq(BOOLEAN)
      BY <1>0, <1>1 DEF on_idle_timeout, TypeOK
    <2>2. set_session_idle(Head(alarms)) /\ chosen' = chosen
      BY <1>1 DEF on_idle_timeout
    <2>3. /\ status' \in Statuses \cup {IDLE}
          /\ saved_status' \in Statuses
          /\ ChosenStatusComesBack'
      BY <1>0, <2>1, <2>2, SetIdleKeepsChosen
    <2> QED
      BY <1>0, <1>1, <2>1, <2>3 DEF on_idle_timeout, PresenceInv, TypeOK, WatchIsSetWhenNeeded
  <1>2. CASE UserChanges
    <2>1. alarms \in Seq(BOOLEAN)
      BY <1>0 DEF TypeOK
    <2>2. alarms' \in Seq(BOOLEAN)
      <3>1. Append(alarms, ~user_idle) \in Seq(BOOLEAN)
        <4> DEFINE b == ~user_idle
        <4>1. b \in BOOLEAN
          OBVIOUS
        <4> HIDE DEF b
        <4>2. Append(alarms, b) \in Seq(BOOLEAN)
          BY <2>1, <4>1
        <4> QED
          BY <4>2 DEF b
      <3>2. alarms' = Append(alarms, ~user_idle) \/ alarms' = alarms
        BY <1>2, Zenon DEF UserChanges
      <3> QED
        BY <2>1, <3>1, <3>2, Zenon
    <2> QED
      BY <1>0, <1>2, <2>2
      DEF UserChanges, PresenceInv, TypeOK, WatchIsSetWhenNeeded, ChosenStatusComesBack
  <1>3. CASE on_screensaver_active_changed
    <2>1. set_session_idle(~screensaver_active)
      BY <1>3, Zenon DEF on_screensaver_active_changed
    <2>2. chosen' = chosen /\ disturbed' = FALSE
      BY <1>3, Zenon DEF on_screensaver_active_changed
    <2>3. (~screensaver_active) \in BOOLEAN
      OBVIOUS
    <2>4. /\ status' \in Statuses \cup {IDLE}
          /\ saved_status' \in Statuses
          /\ ChosenStatusComesBack'
      BY <1>0, <2>1, <2>2, <2>3, SetIdleKeepsChosen, Zenon
    <2>5. /\ idle_enabled' = idle_enabled /\ idle_delay' = idle_delay
          /\ screensaver_active' = ~screensaver_active
          /\ screensaver' = screensaver /\ user_idle' = user_idle
          /\ watch' = (~ ~screensaver_active /\ idle_enabled /\ idle_delay)
          /\ alarms' = <<>>
      BY <1>3, Zenon DEF on_screensaver_active_changed, reset_idle_watch
    <2>6. WatchIsSetWhenNeeded'
      BY <2>5, Zenon DEF WatchIsSetWhenNeeded
    <2>7. TypeOK'
      <3>1. /\ watch' \in BOOLEAN
            /\ screensaver_active' \in BOOLEAN
            /\ screensaver' \in BOOLEAN
            /\ disturbed' \in BOOLEAN
        BY <1>0, <2>2, <2>5, <2>3, Zenon DEF TypeOK
      <3>2. idle_enabled' \in BOOLEAN /\ idle_delay' \in BOOLEAN /\ user_idle' \in BOOLEAN
        BY <1>0, <2>5, Zenon DEF TypeOK
      <3>3. alarms' \in Seq(BOOLEAN)
        BY <2>5
      <3>4. chosen' \in Statuses
        BY <1>0, <2>2, Zenon DEF TypeOK
      <3> QED
        BY <2>4, <3>1, <3>2, <3>3, <3>4, Zenon DEF TypeOK
    <2> QED
      BY <2>4, <2>6, <2>7 DEF PresenceInv
  <1>4. CASE on_screensaver_proxy_destroy
    <2>1. set_session_idle(FALSE) /\ chosen' = chosen /\ disturbed' = FALSE
      BY <1>4 DEF on_screensaver_proxy_destroy
    <2>2. /\ status' \in Statuses \cup {IDLE}
          /\ saved_status' \in Statuses
          /\ ChosenStatusComesBack'
      BY <1>0, <2>1, SetIdleKeepsChosen
    <2>3. /\ idle_enabled' = idle_enabled /\ idle_delay' = idle_delay
          /\ screensaver_active' = FALSE
          /\ screensaver' = FALSE /\ user_idle' = user_idle
          /\ watch' = (~FALSE /\ idle_enabled /\ idle_delay)
          /\ alarms' = <<>>
      BY <1>4, Zenon DEF on_screensaver_proxy_destroy, reset_idle_watch
    <2>4. WatchIsSetWhenNeeded'
      BY <2>3, Zenon DEF WatchIsSetWhenNeeded
    <2>5. TypeOK'
      <3>1. watch' \in BOOLEAN
        BY <2>3, Zenon
      <3>2. screensaver_active' \in BOOLEAN /\ screensaver' \in BOOLEAN /\ disturbed' \in BOOLEAN
        BY <2>1, <2>3, Zenon
      <3>3. idle_enabled' \in BOOLEAN /\ idle_delay' \in BOOLEAN /\ user_idle' \in BOOLEAN
        BY <1>0, <2>3, Zenon DEF TypeOK
      <3>4. alarms' \in Seq(BOOLEAN)
        BY <2>3
      <3>5. chosen' \in Statuses
        BY <1>0, <2>1, Zenon DEF TypeOK
      <3> QED
        BY <2>2, <3>1, <3>2, <3>3, <3>4, <3>5, Zenon DEF TypeOK
    <2> QED
      BY <2>2, <2>4, <2>5 DEF PresenceInv
  <1>5. CASE ScreensaverAppears
    BY <1>0, <1>5
    DEF ScreensaverAppears, PresenceInv, TypeOK, WatchIsSetWhenNeeded, ChosenStatusComesBack
  <1>6. CASE gsm_presence_set_idle_enabled
    BY <1>0, <1>6
    DEF gsm_presence_set_idle_enabled, reset_idle_watch, PresenceInv, TypeOK, WatchIsSetWhenNeeded,
        ChosenStatusComesBack
  <1>7. CASE gsm_presence_set_idle_timeout
    BY <1>0, <1>7
    DEF gsm_presence_set_idle_timeout, reset_idle_watch, PresenceInv, TypeOK, WatchIsSetWhenNeeded,
        ChosenStatusComesBack
  <1>8. ASSUME NEW s \in Statuses, gsm_presence_set_status(s)
        PROVE  PresenceInv'
    BY <1>0, <1>8
    DEF gsm_presence_set_status, PresenceInv, TypeOK, WatchIsSetWhenNeeded, ChosenStatusComesBack
  <1>9. CASE UNCHANGED vars
    BY <1>0, <1>9 DEF vars, PresenceInv, TypeOK, WatchIsSetWhenNeeded, ChosenStatusComesBack
  <1> QED
    BY <1>1, <1>2, <1>3, <1>4, <1>5, <1>6, <1>7, <1>8, <1>9 DEF Next

\* PresenceInv holds of every behaviour.
LEMMA PresenceInvariance == Spec => []PresenceInv
  <1>1. Init => PresenceInv
    <2> SUFFICES ASSUME Init PROVE PresenceInv
      OBVIOUS
    <2>1. watch = idle_delay /\ idle_delay \in BOOLEAN /\ alarms = <<>>
      BY DEF Init
    <2>2. TypeOK
      <3>1. watch \in BOOLEAN
        BY <2>1
      <3>2. alarms \in Seq(BOOLEAN)
        BY <2>1
      <3> QED
        BY <3>1, <3>2, ConstantsAssumption DEF Init, TypeOK
    <2>3. WatchIsSetWhenNeeded
      BY Zenon DEF Init, WatchIsSetWhenNeeded
    <2>4. ChosenStatusComesBack
      BY ConstantsAssumption DEF Init, ChosenStatusComesBack
    <2> QED
      BY <2>2, <2>3, <2>4 DEF PresenceInv
  <1>2. PresenceInv /\ [Next]_vars => PresenceInv'
    BY PresenceStep
  <1> QED
    BY <1>1, <1>2, PTL DEF Spec

\* The idle time is watched exactly when nobody inhibits idleness, the screensaver is
\* off and there is a delay, in whatever order they change.
THEOREM WatchCorrect == Spec => []WatchIsSetWhenNeeded
  <1>1. PresenceInv => WatchIsSetWhenNeeded
    BY DEF PresenceInv
  <1> QED
    BY <1>1, PresenceInvariance, PTL

\* The status a program set last is shown or waits behind IDLE, however often the
\* session becomes idle by alarm and by screensaver.
THEOREM ChosenStatusCorrect == Spec => []ChosenStatusComesBack
  <1>1. PresenceInv => ChosenStatusComesBack
    BY DEF PresenceInv
  <1> QED
    BY <1>1, PresenceInvariance, PTL

\* Every variable keeps its type, for any set of statuses and any number of alarms.
THEOREM PresenceTypeCorrect == Spec => []TypeOK
  <1>1. PresenceInv => TypeOK
    BY DEF PresenceInv
  <1> QED
    BY <1>1, PresenceInvariance, PTL

-----------------------------------------------------------------------------
(* What is idle has a reason.                                              *)

\* Alarms are those of a watch, and the last one tells of the user as he is.
AlarmsAreOfWatch == alarms # <<>> => watch /\ alarms[Len(alarms)] = user_idle

\* An idle session that was not disturbed will hear of the end of its idleness.
IdleIsWatched == status = IDLE /\ ~disturbed => watch \/ screensaver_active

IdleInv == AlarmsAreOfWatch /\ IdleIsWatched /\ IdleUnlessDisturbed

\* set_session_idle makes the session idle or not, as it is told.
LEMMA SetIdleIs ==
    ASSUME TypeOK, NEW b \in BOOLEAN, set_session_idle(b)
    PROVE  status' = IDLE <=> b
  BY ConstantsAssumption DEF TypeOK, set_session_idle

\* Every step keeps the reasons of an idle session.
LEMMA IdleStep ==
    ASSUME PresenceInv, IdleInv, [Next]_vars
    PROVE  IdleInv'
  <1>0. TypeOK /\ AlarmsAreOfWatch /\ IdleIsWatched /\ IdleUnlessDisturbed
    BY DEF PresenceInv, IdleInv
  <1>1. CASE on_idle_timeout
    <2>1. /\ alarms # <<>> /\ alarms \in Seq(BOOLEAN) /\ Head(alarms) \in BOOLEAN
          /\ set_session_idle(Head(alarms)) /\ alarms' = Tail(alarms)
          /\ watch' = watch /\ screensaver_active' = screensaver_active
          /\ user_idle' = user_idle /\ disturbed' = disturbed
      BY <1>0, <1>1 DEF on_idle_timeout, TypeOK
    <2>2. alarms' # <<>> => alarms'[Len(alarms')] = alarms[Len(alarms)]
      BY <2>1
    <2>3. alarms' = <<>> => Head(alarms) = alarms[Len(alarms)]
      <3>1. Len(Tail(alarms)) = Len(alarms) - 1 /\ Head(alarms) = alarms[1] /\ Len(alarms) \in Nat
        BY <2>1
      <3>2. Tail(alarms) = <<>> => Len(Tail(alarms)) = 0
        <4>1. Len(<<>>) = 0
          OBVIOUS
        <4> QED BY <4>1, Zenon
      <3> QED BY <2>1, <3>1, <3>2
    <2>4. status' = IDLE <=> Head(alarms)
      BY <1>0, <2>1, SetIdleIs
    <2>5. AlarmsAreOfWatch'
      BY <1>0, <2>1, <2>2, Zenon DEF AlarmsAreOfWatch
    <2>6. IdleIsWatched'
      BY <1>0, <2>1, Zenon DEF IdleIsWatched, AlarmsAreOfWatch
    <2>7. IdleUnlessDisturbed'
      BY <1>0, <2>1, <2>3, <2>4, Zenon DEF IdleUnlessDisturbed, AlarmsAreOfWatch
    <2> QED
      BY <2>5, <2>6, <2>7 DEF IdleInv
  <1>2. CASE UserChanges
    <2>1. /\ user_idle' = ~user_idle /\ status' = status /\ watch' = watch
          /\ screensaver_active' = screensaver_active /\ disturbed' = disturbed
      BY <1>2, Zenon DEF UserChanges
    <2>2. IdleIsWatched'
      BY <1>0, <2>1, Zenon DEF IdleIsWatched
    <2>3. CASE watch
      <3>1. alarms' = Append(alarms, ~user_idle)
        BY <1>2, <2>3, Zenon DEF UserChanges
      <3>2. alarms \in Seq(BOOLEAN) /\ user_idle' \in BOOLEAN
        BY <1>0, <2>1 DEF TypeOK
      <3>3. alarms' # <<>> /\ alarms'[Len(alarms')] = user_idle'
        <4>1. alarms' = Append(alarms, user_idle')
          BY <3>1, <2>1, Zenon
        <4> QED BY <3>2, <4>1
      <3> QED
        BY <2>1, <2>2, <2>3, <3>3, Zenon DEF IdleInv, AlarmsAreOfWatch, IdleUnlessDisturbed
    <2>4. CASE ~watch
      <3>1. alarms' = alarms
        BY <1>2, <2>4, Zenon DEF UserChanges
      <3>2. AlarmsAreOfWatch'
        BY <1>0, <2>4, <3>1, Zenon DEF AlarmsAreOfWatch
      <3>3. IdleUnlessDisturbed'
        BY <1>0, <2>1, <2>4, Zenon DEF IdleIsWatched, IdleUnlessDisturbed
      <3> QED
        BY <2>2, <3>2, <3>3, Zenon DEF IdleInv
    <2> QED
      BY <2>3, <2>4, Zenon
  <1>3. CASE on_screensaver_active_changed
    <2>1. /\ screensaver_active' = ~screensaver_active /\ alarms' = <<>>
          /\ set_session_idle(~screensaver_active)
      BY <1>3, Zenon DEF on_screensaver_active_changed, reset_idle_watch
    <2>2. status' = IDLE <=> ~screensaver_active
      <3>1. (~screensaver_active) \in BOOLEAN
        OBVIOUS
      <3> QED
        BY <1>0, <2>1, <3>1, SetIdleIs, Zenon
    <2> QED
      BY <2>1, <2>2, Zenon DEF IdleInv, AlarmsAreOfWatch, IdleIsWatched, IdleUnlessDisturbed
  <1>4. CASE on_screensaver_proxy_destroy
    <2>1. set_session_idle(FALSE) /\ alarms' = <<>>
      BY <1>4, Zenon DEF on_screensaver_proxy_destroy, reset_idle_watch
    <2>2. status' # IDLE
      BY <1>0, <2>1, SetIdleIs
    <2> QED
      BY <2>1, <2>2, Zenon DEF IdleInv, AlarmsAreOfWatch, IdleIsWatched, IdleUnlessDisturbed
  <1>5. CASE ScreensaverAppears
    BY <1>0, <1>5, Zenon
    DEF ScreensaverAppears, IdleInv, AlarmsAreOfWatch, IdleIsWatched, IdleUnlessDisturbed
  <1>6. CASE gsm_presence_set_idle_enabled
    <2>1. alarms' = <<>> /\ status' = status /\ (status = IDLE => disturbed')
      BY <1>6, Zenon DEF gsm_presence_set_idle_enabled, reset_idle_watch
    <2> QED
      BY <2>1, Zenon DEF IdleInv, AlarmsAreOfWatch, IdleIsWatched, IdleUnlessDisturbed
  <1>7. CASE gsm_presence_set_idle_timeout
    <2>1. alarms' = <<>> /\ status' = status /\ (status = IDLE => disturbed')
      BY <1>7, Zenon DEF gsm_presence_set_idle_timeout, reset_idle_watch
    <2> QED
      BY <2>1, Zenon DEF IdleInv, AlarmsAreOfWatch, IdleIsWatched, IdleUnlessDisturbed
  <1>8. ASSUME NEW s \in Statuses, gsm_presence_set_status(s)
        PROVE  IdleInv'
    <2>1. status' # IDLE /\ alarms' = alarms /\ watch' = watch /\ user_idle' = user_idle
      BY <1>8, ConstantsAssumption DEF gsm_presence_set_status
    <2> QED
      BY <1>0, <2>1, Zenon DEF IdleInv, AlarmsAreOfWatch, IdleIsWatched, IdleUnlessDisturbed
  <1>9. CASE UNCHANGED vars
    BY <1>0, <1>9, Zenon
    DEF vars, IdleInv, AlarmsAreOfWatch, IdleIsWatched, IdleUnlessDisturbed
  <1> QED
    BY <1>1, <1>2, <1>3, <1>4, <1>5, <1>6, <1>7, <1>8, <1>9 DEF Next

\* Once the alarms have been dispatched a session that is taken for idle has an idle user
\* or an active screensaver, unless its watch was reset while it was idle.
THEOREM IdleCorrect == Spec => []IdleUnlessDisturbed
  <1>1. Init => IdleInv
    BY ConstantsAssumption DEF Init, IdleInv, AlarmsAreOfWatch, IdleIsWatched,
       IdleUnlessDisturbed
  <1>2. PresenceInv /\ IdleInv /\ [Next]_vars => IdleInv'
    BY IdleStep
  <1>3. IdleInv => IdleUnlessDisturbed
    BY DEF IdleInv
  <1> QED
    BY <1>1, <1>2, <1>3, PresenceInvariance, PTL DEF Spec

=============================================================================
