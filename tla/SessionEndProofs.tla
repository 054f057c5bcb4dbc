--------------------------- MODULE SessionEndProofs ---------------------------
(***************************************************************************)
(* The safety invariants of SessionEnd, and that its query is not skipped, *)
(* for every set of clients, connections and inhibitors.                   *)
(*                                                                         *)
(* The four invariants are inductive only together.  Good collects them    *)
(* for one manager record; each function of the code is shown to take good *)
(* records to good records, in the order in which the functions call each  *)
(* other, and an action then follows from the lemma of its handler.        *)
(***************************************************************************)
EXTENDS SessionEnd, TLAPS

\* The session is over once it has reached its last phase.
ExitIsFinal(m) == m.phase = "EXIT" => m.process # "running"

\* The inductive invariant of a manager record.
Good(m) ==
    /\ m \in Manager
    /\ TimersOfPhase(m)
    /\ ShutdownState(m)
    /\ JitOf(m)
    /\ WaitLists(m)
    /\ ExitIsFinal(m)

\* What end_phase asks of its caller: everything but the end-session timer, which
\* end_phase takes away itself, and in RUNNING a type unless the logout is locked.
MayEndPhase(m) ==
    /\ m \in Manager
    /\ JitOf(m)
    /\ m.query_timeout => m.phase = "QUERY_END_SESSION"
    /\ m.phase # "RUNNING" => m.logout_type # NONE
    /\ m.phase = "RUNNING" => /\ m.inhibit_dialog \notin EndActions
                              /\ IF lockdown THEN m.logout_mode # "FORCE"
                                 ELSE m.logout_type # NONE

\* The two records agree on the stores of the manager.
SameStores(m, n) == n.clients = m.clients /\ n.inhibitors = m.inhibitors

-----------------------------------------------------------------------------
(***************************************************************************)
(* The phases.                                                             *)
(***************************************************************************)
\* The exit phase runs through to gtk_main_quit, with a type it can quit by.
LEMMA StartExit ==
    ASSUME NEW m \in Manager, JitOf(m), m.logout_type # NONE, m.phase # "RUNNING"
    PROVE  /\ Good(start_exit(m))
           /\ SameStores(m, start_exit(m))
           /\ start_exit(m).phase = "EXIT"
BY DEF Good, Manager, TimersOfPhase, ShutdownState, JitOf, WaitLists, ExitIsFinal, SameStores,
       ShuttingDown, start_exit, do_phase_exit, ResetPhase, ClearPhase, gsm_manager_quit, Phases

\* The end-session phase starts with its timer and its list of clients, or, without
\* clients, goes straight on to the exit.
LEMMA StartEndSession ==
    ASSUME NEW m \in Manager, JitOf(m), m.logout_type # NONE, m.phase # "RUNNING"
    PROVE  /\ Good(start_end_session(m))
           /\ SameStores(m, start_end_session(m))
           /\ start_end_session(m).phase \in {"END_SESSION", "EXIT"}
<1> DEFINE n == ResetPhase([m EXCEPT !.phase = "END_SESSION"])
<1>1. /\ n \in Manager /\ JitOf(n) /\ n.phase = "END_SESSION" /\ SameStores(m, n)
      /\ n.logout_type = m.logout_type /\ n.next_query_clients = {} /\ ~n.query_timeout
  BY DEF Manager, JitOf, ShuttingDown, SameStores, ResetPhase, ClearPhase, Phases
<1>2. CASE n.clients # {}
  BY <1>1, <1>2 DEF start_end_session, do_phase_end_session, Good, Manager, TimersOfPhase,
     ShutdownState, JitOf, WaitLists, ExitIsFinal, SameStores, ShuttingDown
<1>3. CASE n.clients = {}
  <2>1. ClearPhase(n) \in Manager /\ JitOf(ClearPhase(n)) /\ SameStores(n, ClearPhase(n))
        /\ ClearPhase(n).logout_type = m.logout_type /\ ClearPhase(n).phase # "RUNNING"
    BY <1>1 DEF Manager, JitOf, ShuttingDown, SameStores, ClearPhase
  <2>2. start_end_session(m) = start_exit(ClearPhase(n))
    BY <1>3 DEF start_end_session, do_phase_end_session, end_end_session
  <2> QED BY <1>1, <2>1, <2>2, StartExit DEF SameStores
<1> QED BY <1>2, <1>3

\* The query starts with its timer and asks every client of the store.
LEMMA StartQuery ==
    ASSUME NEW m \in Manager, JitOf(m), m.logout_type # NONE
    PROVE  /\ Good(start_query(m))
           /\ SameStores(m, start_query(m))
           /\ start_query(m).phase = "QUERY_END_SESSION"
BY DEF Good, Manager, TimersOfPhase, ShutdownState, JitOf, WaitLists, ExitIsFinal, SameStores,
       ShuttingDown, start_query, do_phase_query_end_session, ResetPhase, ClearPhase, Phases

\* end_phase keeps the stores and the invariant, and leaves the query upwards.
LEMMA EndPhase ==
    ASSUME NEW m, MayEndPhase(m)
    PROVE  /\ Good(end_phase(m))
           /\ SameStores(m, end_phase(m))
           /\ m.phase # "RUNNING" => end_phase(m).phase \in {"END_SESSION", "EXIT"}
<1> DEFINE n == ClearPhase(m)
<1>1. /\ n \in Manager /\ JitOf(n) /\ SameStores(m, n) /\ n.phase = m.phase
      /\ n.logout_type = m.logout_type /\ n.query_timeout = m.query_timeout
  BY DEF MayEndPhase, Manager, JitOf, ShuttingDown, SameStores, ClearPhase
<1>2. m.phase \in Phases
  BY DEF MayEndPhase, Manager
<1>3. CASE m.phase = "RUNNING" /\ lockdown
  <2>1. end_phase(m) = n
    BY <1>3 DEF end_phase
  <2> QED BY <1>1, <1>3, <2>1 DEF Good, MayEndPhase, Manager, TimersOfPhase, ShutdownState, WaitLists,
                               ExitIsFinal, SameStores, ClearPhase
<1>4. CASE m.phase = "RUNNING" /\ ~lockdown
  <2>1. end_phase(m) = start_query(n)
    BY <1>4 DEF end_phase
  <2> QED BY <1>1, <1>4, <2>1, StartQuery DEF MayEndPhase, SameStores
<1>5. CASE m.phase = "QUERY_END_SESSION"
  <2>1. end_phase(m) = start_end_session(n)
    BY <1>5 DEF end_phase
  <2> QED BY <1>1, <1>5, <2>1, StartEndSession DEF MayEndPhase, SameStores
<1>6. CASE m.phase = "END_SESSION"
  <2>1. end_phase(m) = start_exit(n)
    BY <1>6 DEF end_phase
  <2> QED BY <1>1, <1>6, <2>1, StartExit DEF MayEndPhase, SameStores
<1>7. CASE m.phase = "EXIT"
  <2>1. end_phase(m) = gsm_manager_quit(n)
    BY <1>7 DEF end_phase
  <2> QED BY <1>1, <1>7, <2>1 DEF Good, MayEndPhase, Manager, TimersOfPhase, ShutdownState, JitOf,
                               ShuttingDown, WaitLists, ExitIsFinal, SameStores, ClearPhase,
                               gsm_manager_quit
<1> QED BY <1>2, <1>3, <1>4, <1>5, <1>6, <1>7 DEF Phases

\* A good record in shutdown may end its phase, whatever its mode and timers.
LEMMA GoodMayEndPhase ==
    ASSUME NEW m, Good(m), m.phase # "RUNNING"
    PROVE  MayEndPhase(m)
BY DEF Good, MayEndPhase, TimersOfPhase, ShutdownState

-----------------------------------------------------------------------------
(***************************************************************************)
(* Inhibitors and the inhibit dialog.                                      *)
(***************************************************************************)
\* Cancelling goes back to RUNNING and takes the just-in-time inhibitors, the mode, the
\* type and the timers of the shutdown with it.
LEMMA CancelEndSession ==
    ASSUME NEW m, Good(m)
    PROVE  /\ Good(cancel_end_session(m))
           /\ cancel_end_session(m).clients = m.clients
           /\ cancel_end_session(m).inhibitors \subseteq m.inhibitors
           /\ cancel_end_session(m).phase = "RUNNING"
<1> DEFINE n == [m EXCEPT !.inhibit_dialog = NONE,
                          !.inhibitors = {i \in @ : ~inhibitor_is_jit(i)},
                          !.logout_mode = "NORMAL",
                          !.logout_type = NONE]
<1>1. CASE ~ShuttingDown(m)
  BY <1>1 DEF cancel_end_session, ShuttingDown
<1>2. CASE ShuttingDown(m)
  <2>1. /\ n \in Manager /\ n.clients = m.clients /\ n.inhibitors \subseteq m.inhibitors
        /\ \A i \in n.inhibitors : ~inhibitor_is_jit(i)
        /\ n.inhibit_dialog = NONE /\ n.logout_mode = "NORMAL" /\ n.process = m.process
    BY DEF Good, Manager, Modes
  <2>2. NONE \notin EndActions
    BY ConstantsAssumption DEF NONE
  <2>3. cancel_end_session(m) = start_running(n)
    BY <1>2 DEF cancel_end_session
  <2> HIDE DEF n
  <2> QED BY <2>1, <2>2, <2>3 DEF start_running, ResetPhase, ClearPhase, Good, Manager, Phases,
                                  TimersOfPhase, ShutdownState, JitOf, WaitLists, ExitIsFinal
<1> QED BY <1>1, <1>2

\* Accepting the dialog keeps the stores: it only closes it or ends the phase.
LEMMA AcceptDialog ==
    ASSUME NEW m, Good(m), m.inhibit_dialog # NONE
    PROVE  /\ Good(inhibit_dialog_response(m, "ACCEPT"))
           /\ SameStores(m, inhibit_dialog_response(m, "ACCEPT"))
           /\ inhibit_dialog_response(m, "ACCEPT").phase \in {m.phase, "END_SESSION", "EXIT"}
           /\ inhibit_dialog_response(m, "ACCEPT").phase = "QUERY_END_SESSION"
                => inhibit_dialog_response(m, "ACCEPT").query_clients = m.query_clients
<1> DEFINE n == [m EXCEPT !.inhibit_dialog = NONE]
           f == [n EXCEPT !.logout_mode = "FORCE"]
<1>1. NONE \notin EndActions
  BY ConstantsAssumption DEF NONE
<1>2. Good(n) /\ SameStores(m, n) /\ n.phase = m.phase /\ n.query_clients = m.query_clients
  BY <1>1 DEF Good, Manager, TimersOfPhase, ShutdownState, JitOf, ShuttingDown, WaitLists,
              ExitIsFinal, SameStores
<1>3. CASE m.inhibit_dialog \in EndActions
  <2>1. m.phase # "RUNNING"
    BY <1>3 DEF Good, ShutdownState
  <2>2. Good(f) /\ SameStores(m, f) /\ f.phase = m.phase
    <3> HIDE DEF n
    <3> QED BY <1>2, <2>1 DEF Good, Manager, Modes, TimersOfPhase, ShutdownState, JitOf, ShuttingDown,
                      WaitLists, ExitIsFinal, SameStores
  <2>3. inhibit_dialog_response(m, "ACCEPT") = end_phase(f)
    BY <1>3 DEF inhibit_dialog_response, do_inhibit_dialog_action
  <2> QED BY <2>1, <2>2, <2>3, GoodMayEndPhase, EndPhase DEF SameStores
<1>4. CASE m.inhibit_dialog \notin EndActions
  <2>1. inhibit_dialog_response(m, "ACCEPT") = n
    BY <1>4 DEF inhibit_dialog_response, do_inhibit_dialog_action
  <2> QED BY <1>2, <2>1
<1> QED BY <1>3, <1>4

\* Either answer to the inhibit dialog keeps the invariant.
LEMMA DialogResponse ==
    ASSUME NEW m, Good(m), m.inhibit_dialog # NONE, NEW response \in {"ACCEPT", "CANCEL"}
    PROVE  Good(inhibit_dialog_response(m, response))
<1> DEFINE n == [m EXCEPT !.inhibit_dialog = NONE]
<1>1. CASE response = "ACCEPT"
  BY <1>1, AcceptDialog
<1>2. CASE response = "CANCEL"
  <2>1. NONE \notin EndActions
    BY ConstantsAssumption DEF NONE
  <2>2. Good(n)
    BY <2>1 DEF Good, Manager, TimersOfPhase, ShutdownState, JitOf, ShuttingDown, WaitLists,
                ExitIsFinal
  <2>3. inhibit_dialog_response(m, response) \in {n, cancel_end_session(n)}
    BY <1>2 DEF inhibit_dialog_response
  <2> QED BY <2>2, <2>3, CancelEndSession
<1> QED BY <1>1, <1>2

\* The removal of inhibitors may end the query, but changes its list in no other way.
LEMMA RemovingInhibitors ==
    ASSUME NEW m, Good(m), NEW gone
    PROVE  /\ Good(RemoveInhibitors(m, gone))
           /\ RemoveInhibitors(m, gone).clients = m.clients
           /\ RemoveInhibitors(m, gone).inhibitors = m.inhibitors \ gone
           /\ RemoveInhibitors(m, gone).phase \in {m.phase, "END_SESSION", "EXIT"}
           /\ RemoveInhibitors(m, gone).phase = "QUERY_END_SESSION"
                => RemoveInhibitors(m, gone).query_clients = m.query_clients
<1> DEFINE n == [m EXCEPT !.inhibitors = m.inhibitors \ gone]
<1>1. /\ Good(n) /\ n.clients = m.clients /\ n.inhibitors = m.inhibitors \ gone
      /\ n.phase = m.phase /\ n.query_clients = m.query_clients
      /\ n.inhibit_dialog = m.inhibit_dialog
  BY DEF Good, Manager, TimersOfPhase, ShutdownState, JitOf, ShuttingDown, WaitLists, ExitIsFinal
<1>2. \/ RemoveInhibitors(m, gone) = n
      \/ n.inhibit_dialog # NONE /\ RemoveInhibitors(m, gone) = inhibit_dialog_response(n, "ACCEPT")
  BY DEF RemoveInhibitors
<1> HIDE DEF n
<1> QED BY <1>1, <1>2, AcceptDialog DEF SameStores

\* The end of the query, which asks the user or ends the phase, keeps the invariant.
LEMMA QueryComplete ==
    ASSUME NEW m, Good(m), m.phase = "QUERY_END_SESSION"
    PROVE  /\ Good(query_end_session_complete(m))
           /\ SameStores(m, query_end_session_complete(m))
           /\ query_end_session_complete(m).phase = "QUERY_END_SESSION"
                => query_end_session_complete(m).query_clients = m.query_clients
<1> DEFINE n == [m EXCEPT !.query_timeout = FALSE]
           d == [n EXCEPT !.inhibit_dialog = n.logout_type]
<1>1. Good(n) /\ SameStores(m, n) /\ n.phase = m.phase /\ n.query_clients = m.query_clients
  BY DEF Good, Manager, TimersOfPhase, ShutdownState, JitOf, ShuttingDown, WaitLists, ExitIsFinal,
         SameStores
<1>2. Good(d) /\ SameStores(m, d) /\ d.query_clients = m.query_clients
  BY DEF Good, Manager, TimersOfPhase, ShutdownState, JitOf, ShuttingDown, WaitLists, ExitIsFinal,
         SameStores
<1>3. query_end_session_complete(m) \in {end_phase(n), n, d}
  BY DEF query_end_session_complete
<1> QED BY <1>1, <1>2, <1>3, GoodMayEndPhase, EndPhase DEF SameStores

-----------------------------------------------------------------------------
(***************************************************************************)
(* Answers and disconnections.                                             *)
(***************************************************************************)
\* The second round of the end-session phase keeps the invariant, the deadline of the
\* phase included.
LEMMA EndSessionPart2 ==
    ASSUME NEW m, Good(m), m.phase = "END_SESSION"
    PROVE  /\ Good(do_phase_end_session_part_2(m))
           /\ SameStores(m, do_phase_end_session_part_2(m))
           /\ do_phase_end_session_part_2(m).phase # "QUERY_END_SESSION"
<1>1. CASE m.next_query_clients = {}
  BY <1>1, GoodMayEndPhase, EndPhase DEF do_phase_end_session_part_2
<1>2. CASE m.next_query_clients # {}
  BY <1>2 DEF do_phase_end_session_part_2, Good, Manager, TimersOfPhase, ShutdownState, JitOf,
              ShuttingDown, WaitLists, ExitIsFinal, SameStores
<1> QED BY <1>1, <1>2

\* What follows a recorded answer, in any phase, keeps the invariant and the stores.
LEMMA AfterAnyResponse ==
    ASSUME NEW m, Good(m), NEW c \in Clients, NEW do_last \in BOOLEAN
    PROVE  /\ Good(AfterResponse(m, c, do_last))
           /\ SameStores(m, AfterResponse(m, c, do_last))
           /\ AfterResponse(m, c, do_last).phase = "QUERY_END_SESSION"
                => /\ m.phase = "QUERY_END_SESSION"
                   /\ AfterResponse(m, c, do_last).query_clients = m.query_clients
<1> DEFINE n == IF m.phase = "END_SESSION" /\ do_last
                THEN [m EXCEPT !.next_query_clients = @ \cup {c}]
                ELSE m
<1>1. Good(n) /\ SameStores(m, n) /\ n.phase = m.phase /\ n.query_clients = m.query_clients
  BY DEF Good, Manager, TimersOfPhase, ShutdownState, JitOf, ShuttingDown, WaitLists, ExitIsFinal,
         SameStores
<1>2. \/ AfterResponse(m, c, do_last) = n
      \/ /\ n.phase = "QUERY_END_SESSION"
         /\ AfterResponse(m, c, do_last) = query_end_session_complete(n)
      \/ /\ n.phase = "END_SESSION"
         /\ AfterResponse(m, c, do_last) = do_phase_end_session_part_2(n)
  <2> HIDE DEF n
  <2>1. AfterResponse(m, c, do_last) =
            CASE n.phase = "QUERY_END_SESSION" /\ n.query_clients = {} ->
                     query_end_session_complete(n)
              [] n.phase = "END_SESSION" /\ n.query_clients = {} /\ ~is_logout_inhibited(n) ->
                     do_phase_end_session_part_2(n)
              [] OTHER -> n
    BY DEF AfterResponse, n
  <2> QED BY <2>1
<1> HIDE DEF n
<1> QED BY <1>1, <1>2, QueryComplete, EndSessionPart2 DEF SameStores

\* A just-in-time inhibitor is an inhibitor, and speaks for its client.
LEMMA JitType ==
    ASSUME NEW c \in Clients
    PROVE  JitInhibitor(c) \in Inhibitor /\ JitInhibitor(c).client = c
BY ConstantsAssumption DEF JitInhibitor, Inhibitor, Clients, Flags

\* Every answer keeps the invariant.  An answer "ok" adds no inhibitor and
\* takes the client off the list of the query, which is what a disconnection uses.
LEMMA EndSessionAnswer ==
    ASSUME NEW m, Good(m), NEW c \in Clients,
           NEW is_ok \in BOOLEAN, NEW do_last \in BOOLEAN, NEW cancel \in BOOLEAN,
           is_ok \/ c \in m.clients
    PROVE  LET r == handle_client_end_session_response(m, c, is_ok, do_last, cancel)
           IN  /\ Good(r)
               /\ r.clients = m.clients
               /\ is_ok => r.inhibitors \subseteq m.inhibitors
               /\ r.phase = "QUERY_END_SESSION" => c \notin r.query_clients
<1> DEFINE r == handle_client_end_session_response(m, c, is_ok, do_last, cancel)
           answered == [m EXCEPT !.query_clients = @ \ {c}]
           refused == [answered EXCEPT !.inhibitors = @ \cup {JitInhibitor(c)}]
           gone == InhibitorsOf(answered, c)
           granted == RemoveInhibitors(answered, gone)
<1>1. CASE ~ShuttingDown(m)
  BY <1>1 DEF handle_client_end_session_response, ShuttingDown
<1>2. CASE ShuttingDown(m) /\ cancel
  BY <1>2, CancelEndSession DEF handle_client_end_session_response
<1>3. CASE ShuttingDown(m) /\ ~cancel
  <2>1. /\ Good(answered) /\ answered.clients = m.clients /\ answered.inhibitors = m.inhibitors
        /\ answered.phase = m.phase /\ c \notin answered.query_clients
    BY DEF Good, Manager, TimersOfPhase, ShutdownState, JitOf, ShuttingDown, WaitLists, ExitIsFinal
  <2>2. CASE ~is_ok /\ m.logout_mode # "FORCE"
    <3>1. /\ Good(refused) /\ refused.clients = m.clients /\ c \notin refused.query_clients
      <4> HIDE DEF answered
      <4>1. c \in answered.clients /\ answered.phase # "RUNNING"
        BY <1>3, <2>1, <2>2 DEF ShuttingDown
      <4>2. JitOf(refused)
        BY <2>1, <4>1, JitType DEF Good, Manager, JitOf, ShuttingDown
      <4> QED BY <2>1, <4>1, <4>2, JitType DEF Good, Manager, TimersOfPhase, ShutdownState,
                                          WaitLists, ExitIsFinal
    <3>2. r = AfterResponse(refused, c, do_last)
      BY <1>3, <2>2 DEF handle_client_end_session_response
    <3> HIDE DEF refused, answered
    <3> QED BY <2>2, <3>1, <3>2, AfterAnyResponse DEF SameStores
  <2>3. CASE ~(~is_ok /\ m.logout_mode # "FORCE")
    <3>1. r = AfterResponse(granted, c, do_last)
      BY <1>3, <2>3 DEF handle_client_end_session_response
    <3> HIDE DEF answered, gone
    <3>2. /\ Good(granted) /\ granted.clients = m.clients /\ granted.inhibitors \subseteq m.inhibitors
          /\ granted.phase = "QUERY_END_SESSION" => c \notin granted.query_clients
      BY <2>1, RemovingInhibitors
    <3> HIDE DEF granted
    <3> QED BY <3>1, <3>2, AfterAnyResponse DEF SameStores
  <2> QED BY <2>2, <2>3
<1> QED BY <1>1, <1>2, <1>3

\* A client that is disconnected is on no list of a query and behind no inhibitor
\* any more, so it may leave the store.
LEMMA DisconnectClient ==
    ASSUME NEW m, Good(m), NEW c \in Clients
    PROVE  /\ Good(disconnect_client(m, c))
           /\ Good(RemoveClient(disconnect_client(m, c), c))
           /\ RemoveClient(disconnect_client(m, c), c).clients = m.clients \ {c}
<1> DEFINE gone == InhibitorsOf(m, c)
           n == RemoveInhibitors(m, gone)
           r == disconnect_client(m, c)
<1>1. Good(n) /\ n.clients = m.clients /\ n.inhibitors = m.inhibitors \ gone
  BY RemovingInhibitors
<1>2. r = IF n.phase = "QUERY_END_SESSION"
          THEN handle_client_end_session_response(n, c, TRUE, FALSE, FALSE)
          ELSE n
  BY DEF disconnect_client
<1> HIDE DEF n, r
<1>3. /\ Good(r) /\ r.clients = m.clients /\ r.inhibitors \subseteq m.inhibitors \ gone
      /\ r.phase = "QUERY_END_SESSION" => c \notin r.query_clients
  <2>1. CASE n.phase = "QUERY_END_SESSION"
    <3>1. LET a == handle_client_end_session_response(n, c, TRUE, FALSE, FALSE)
          IN  /\ Good(a) /\ a.clients = n.clients /\ a.inhibitors \subseteq n.inhibitors
              /\ a.phase = "QUERY_END_SESSION" => c \notin a.query_clients
      BY <1>1, EndSessionAnswer
    <3> QED BY <1>1, <1>2, <2>1, <3>1
  <2>2. CASE n.phase # "QUERY_END_SESSION"
    BY <1>1, <1>2, <2>2
  <2> QED BY <2>1, <2>2
<1>4. \A i \in r.inhibitors : i.client # c
  BY <1>3 DEF InhibitorsOf, inhibitor_has_client_id, Good, Manager
<1>5. /\ Good(RemoveClient(r, c))
      /\ RemoveClient(r, c).clients = m.clients \ {c}
  BY <1>3, <1>4 DEF RemoveClient, Good, Manager, TimersOfPhase, ShutdownState, JitOf, ShuttingDown,
                    WaitLists, ExitIsFinal
<1> QED BY <1>3, <1>5 DEF r

\* The exit of the last client ends the phase of a shutdown, whichever it is.
LEMMA LastClient ==
    ASSUME NEW m, Good(m)
    PROVE  Good(LastClientCheck(m))
<1>1. LastClientCheck(m) = m \/ (m.phase # "RUNNING" /\ LastClientCheck(m) = end_phase(m))
  BY DEF LastClientCheck, ShuttingDown
<1> QED BY <1>1, GoodMayEndPhase, EndPhase

\* The whole handler of a disconnected XSMP client keeps the invariant.
LEMMA ClientDisconnected ==
    ASSUME NEW m, Good(m), NEW c \in Clients
    PROVE  Good(on_client_disconnected(m, c))
BY DisconnectClient, LastClient DEF on_client_disconnected

-----------------------------------------------------------------------------
(***************************************************************************)
(* Requests.                                                               *)
(***************************************************************************)
\* A request that sets the type and ends the phase keeps the invariant, locked down or
\* not and in whatever phase it arrives.
LEMMA RequestEnd ==
    ASSUME NEW m, Good(m), NEW type \in EndActions
    PROVE  Good(request_end(m, type))
<1> DEFINE n == [m EXCEPT !.logout_type = type]
<1>1. NONE \notin EndActions
  BY ConstantsAssumption DEF NONE
<1>2. MayEndPhase(n)
  BY <1>1 DEF Good, MayEndPhase, Manager, TimersOfPhase, ShutdownState, JitOf, ShuttingDown
<1> HIDE DEF n
<1>3. Good(end_phase(n))
  BY <1>2, EndPhase
<1> QED BY <1>3 DEF request_end, n

\* A logout in any mode: FORCE is only asked for while the logout is not locked down.
LEMMA RequestLogout ==
    ASSUME NEW m, Good(m), "LOGOUT" \in EndActions, NEW mode \in Modes,
           mode = "FORCE" => ~lockdown
    PROVE  Good(request_logout(m, mode))
<1> DEFINE n == [[m EXCEPT !.logout_mode = mode] EXCEPT !.logout_type = "LOGOUT"]
<1>1. NONE \notin EndActions
  BY ConstantsAssumption DEF NONE
<1>2. MayEndPhase(n)
  BY <1>1 DEF Good, MayEndPhase, Manager, TimersOfPhase, ShutdownState, JitOf, ShuttingDown
<1> HIDE DEF n
<1>3. Good(end_phase(n))
  BY <1>2, EndPhase
<1> QED BY <1>3 DEF request_logout, request_end, n

\* Suspending, hibernating and switching the user leave the shutdown alone: their dialog
\* is none about the end of the session.
LEMMA RequestOther ==
    ASSUME NEW m, Good(m), NEW action \in OtherActions
    PROVE  Good(request_other(m, action))
<1>1. action \notin EndActions
  BY ConstantsAssumption
<1> QED BY <1>1 DEF request_other, Good, Manager, TimersOfPhase, ShutdownState, JitOf, ShuttingDown,
                    WaitLists, ExitIsFinal

-----------------------------------------------------------------------------
(***************************************************************************)
(* The invariant.                                                          *)
(***************************************************************************)
IInv == TypeOK /\ Good(mgr)

\* A session that has just reached RUNNING satisfies the invariant.
LEMMA InitIInv == Init => IInv
<1> SUFFICES ASSUME Init PROVE IInv
  OBVIOUS
<1>1. TypeOK
  BY DEF Init, TypeOK, Manager, Phases, Modes, Links
<1>2. Good(mgr)
  BY <1>1, ConstantsAssumption DEF Init, TypeOK, Good, TimersOfPhase, ShutdownState, JitOf,
                                   WaitLists, ExitIsFinal, NONE
<1> QED BY <1>1, <1>2 DEF IInv

\* An action that only puts a good record in the place of mgr keeps the invariant.
LEMMA GoodStep ==
    ASSUME IInv, Good(mgr'), UNCHANGED <<logout_dialog, lockdown, link, leaving>>
    PROVE  IInv'
BY DEF IInv, TypeOK, Good

\* The steps of clients: registering, answering and disconnecting.
LEMMA ClientSteps ==
    ASSUME IInv, NEW c \in Clients,
           \/ c \in DBusClients /\ DBusClientStep(c)
           \/ c \in XsmpClients /\ XsmpClientStep(c)
    PROVE  IInv'
<1> DEFINE joined == [mgr EXCEPT !.clients = @ \cup {c}]
<1>1. Good(mgr) /\ TypeOK
  BY DEF IInv
<1>2. Good(joined)
  BY <1>1 DEF Good, Manager, TimersOfPhase, ShutdownState, JitOf, ShuttingDown, WaitLists, ExitIsFinal
<1> HIDE DEF joined
<1>3. CASE RegisterClient(c)
  BY <1>2, <1>3, GoodStep DEF RegisterClient, joined
<1>4. CASE c \in XsmpClients /\ XsmpConnect(c)
  BY <1>1, <1>2, <1>4 DEF XsmpConnect, joined, IInv, TypeOK, Links, Good
<1>5. CASE c \in XsmpClients /\ XsmpRegister(c)
  BY <1>1, <1>5 DEF XsmpRegister, IInv, TypeOK, Links
<1>6. CASE c \in XsmpClients /\ XsmpDisconnect(c)
  <2>1. Good(mgr')
    BY <1>1, <1>6, ClientDisconnected DEF XsmpDisconnect
  <2>2. link' \in [XsmpClients -> Links]
    BY <1>1, <1>6 DEF XsmpDisconnect, TypeOK, Links
  <2> QED BY <1>1, <1>6, <2>1, <2>2 DEF XsmpDisconnect, IInv, TypeOK, Good
<1>7. CASE c \in DBusClients /\ DisconnectNext(c)
  <2> DEFINE n == RemoveClient(disconnect_client(mgr, c), c)
  <2>1. Good(n)
    BY <1>1, DisconnectClient
  <2>2. mgr' \in {n, LastClientCheck(n)} /\ leaving' \subseteq DBusClients
    BY <1>1, <1>7 DEF DisconnectNext, StartLeaving, TypeOK
  <2> HIDE DEF n
  <2>3. Good(mgr')
    BY <2>1, <2>2, LastClient
  <2> QED BY <1>1, <1>7, <2>2, <2>3 DEF DisconnectNext, IInv, TypeOK, Good
<1>8. ASSUME NEW is_ok \in BOOLEAN, NEW do_last \in BOOLEAN, NEW cancel \in BOOLEAN,
             Respond(c, is_ok, do_last, cancel)
      PROVE  IInv'
  <2>1. Good(mgr')
    BY <1>1, <1>8, EndSessionAnswer DEF Respond
  <2> QED BY <1>8, <2>1, GoodStep DEF Respond
<1> QED BY <1>3, <1>4, <1>5, <1>6, <1>7, <1>8
        DEF DBusClientStep, XsmpClientStep, EndSessionResponse, SaveYourselfDone, InteractRequest,
            InteractDone, SaveYourselfPhase2Request

\* The steps of the user: requests, dialogs and the lockdown key.
LEMMA UserSteps ==
    ASSUME IInv, UserStep
    PROVE  IInv'
<1>1. Good(mgr) /\ TypeOK
  BY DEF IInv
<1> DEFINE normal == [mgr EXCEPT !.logout_mode = "NORMAL"]
<1>2. Good(normal)
  BY <1>1 DEF Good, Manager, Modes, TimersOfPhase, ShutdownState, JitOf, ShuttingDown, WaitLists,
              ExitIsFinal
<1> HIDE DEF normal
<1>3. ASSUME NEW mode \in Modes, Logout(mode)
      PROVE  IInv'
  <2>1. Good(mgr')
    BY <1>1, <1>2, <1>3, RequestLogout DEF Logout, normal
  <2>2. logout_dialog' \in {NONE, "logout", "shutdown"}
    BY <1>1, <1>3 DEF Logout, TypeOK
  <2> QED BY <1>1, <1>3, <2>1, <2>2 DEF Logout, IInv, TypeOK, Good
<1>4. ASSUME NEW type \in EndActions, Request(type)
      PROVE  IInv'
  BY <1>1, <1>4, RequestEnd, GoodStep DEF Request
<1>5. ASSUME NEW response \in {"ACCEPT", "CANCEL"}, InhibitDialogResponse(response)
      PROVE  IInv'
  BY <1>1, <1>5, DialogResponse, GoodStep DEF InhibitDialogResponse
<1>6. CASE Shutdown
  BY <1>1, <1>2, <1>6 DEF Shutdown, normal, IInv, TypeOK, Good
<1>7. CASE LogoutDialogResponse
  <2>1. PICK response \in {"CANCEL"} \cup (ButtonsOf(logout_dialog) \cap (EndActions \cup OtherActions)) :
            logout_dialog_response(response)
    BY <1>7 DEF LogoutDialogResponse
  <2>2. CASE mgr.logout_mode # "NORMAL"
    <3>1. Good(mgr')
      BY <1>1, <2>1, <2>2 DEF logout_dialog_response, Good, Manager, TimersOfPhase, ShutdownState,
                              JitOf, ShuttingDown, WaitLists, ExitIsFinal
    <3> QED BY <2>1, <2>2, <3>1, GoodStep DEF logout_dialog_response
  <2>3. CASE mgr.logout_mode = "NORMAL"
    <3>1. response = "CANCEL" \/ response \in EndActions \/ response \in OtherActions
      BY <2>1
    <3>2. ConstantsAssumption
      BY ConstantsAssumption
    <3>3. CASE response = "CANCEL"
      BY <1>1, <2>1, <2>3, <3>3 DEF logout_dialog_response, IInv, TypeOK, Good
    <3>4. CASE response \in EndActions
      <4>1. mgr' \in {request_logout(mgr, "NO_CONFIRMATION"), request_end(mgr, response)}
            /\ (mgr' = request_logout(mgr, "NO_CONFIRMATION") \/ mgr' = request_end(mgr, response))
            /\ (mgr' = request_end(mgr, response) \/ response = "LOGOUT")
        BY <2>1, <2>3, <3>2, <3>4 DEF logout_dialog_response
      <4>2. Good(mgr')
        BY <1>1, <3>4, <4>1, RequestLogout, RequestEnd DEF Modes
      <4> QED BY <1>1, <2>1, <2>3, <4>2 DEF logout_dialog_response, IInv, TypeOK, Good
    <3>5. CASE response \in OtherActions
      <4>1. mgr' = request_other(mgr, response)
        BY <2>1, <2>3, <3>2, <3>5 DEF logout_dialog_response
      <4>2. Good(mgr')
        BY <1>1, <3>5, <4>1, RequestOther
      <4> QED BY <1>1, <2>1, <2>3, <4>2 DEF logout_dialog_response, IInv, TypeOK, Good
    <3> QED BY <3>1, <3>3, <3>4, <3>5
  <2> QED BY <2>2, <2>3
<1>8. CASE ToggleLockdown
  BY <1>1, <1>8 DEF ToggleLockdown, IInv, TypeOK
<1> QED BY <1>3, <1>4, <1>5, <1>6, <1>7, <1>8 DEF UserStep

\* The loss of a bus name and of the bus.
LEMMA BusSteps ==
    ASSUME IInv, BusDisconnected \/ \E b \in Connections : BusNameLost(b)
    PROVE  IInv'
<1>1. Good(mgr) /\ TypeOK
  BY DEF IInv
<1> DEFINE cut == [mgr EXCEPT !.dbus_disconnected = TRUE]
<1>2. Good(cut)
  BY <1>1 DEF Good, Manager, TimersOfPhase, ShutdownState, JitOf, ShuttingDown, WaitLists, ExitIsFinal
<1> HIDE DEF cut
<1>3. ASSUME NEW n, Good(n), NEW gone \in SUBSET DBusClients, StartLeaving(n, gone),
             UNCHANGED <<logout_dialog, lockdown, link>>
      PROVE  IInv'
  BY <1>1, <1>3, LastClient DEF StartLeaving, IInv, TypeOK, Good
<1>4. CASE BusDisconnected
  BY <1>2, <1>3, <1>4 DEF BusDisconnected, cut
<1>5. ASSUME NEW b \in Connections, BusNameLost(b)
      PROVE  IInv'
  BY <1>1, <1>3, <1>5, RemovingInhibitors DEF BusNameLost
<1> QED BY <1>4, <1>5

\* Inhibit and Uninhibit: an application's inhibitor speaks for no client, and removing
\* the last one may answer the dialog.
LEMMA InhibitorSteps ==
    ASSUME IInv, NEW i \in AppInhibitors, Inhibit(i) \/ Uninhibit(i)
    PROVE  IInv'
<1>1. Good(mgr) /\ i \in Inhibitor /\ i.client = NONE
  BY ConstantsAssumption DEF IInv
<1> DEFINE n == [mgr EXCEPT !.inhibitors = @ \cup {i}]
<1>2. n.inhibitors = mgr.inhibitors \cup {i} /\ n.phase = mgr.phase /\ n.clients = mgr.clients
  BY <1>1 DEF Good, Manager
<1>3. JitOf(n)
  <2> HIDE DEF n
  <2> QED BY <1>1, <1>2 DEF Good, JitOf, ShuttingDown, inhibitor_is_jit
<1>4. Good(n)
  BY <1>1, <1>3 DEF Good, Manager, TimersOfPhase, ShutdownState, WaitLists, ExitIsFinal
<1>5. CASE Inhibit(i)
  <2>1. mgr' = n /\ UNCHANGED <<logout_dialog, lockdown, link, leaving>>
    BY <1>5 DEF Inhibit
  <2> HIDE DEF n
  <2> QED BY <1>4, <2>1, GoodStep
<1>6. CASE Uninhibit(i)
  BY <1>1, <1>6, RemovingInhibitors, GoodStep DEF Uninhibit
<1> QED BY <1>5, <1>6

\* The two timers.
LEMMA TimerSteps ==
    ASSUME IInv, QueryTimeout \/ PhaseTimeout
    PROVE  IInv'
<1>1. Good(mgr) /\ TypeOK
  BY DEF IInv
<1>2. CASE QueryTimeout
  <2> DEFINE jit == IF mgr.logout_mode = "FORCE" THEN {}
                    ELSE {JitInhibitor(c) : c \in mgr.query_clients}
             n == [mgr EXCEPT !.query_timeout = FALSE, !.inhibitors = @ \cup jit, !.query_clients = {}]
  <2>1. mgr.phase = "QUERY_END_SESSION"
    BY <1>1, <1>2 DEF QueryTimeout, Good, TimersOfPhase
  <2>2. mgr.query_clients \subseteq mgr.clients /\ mgr.query_clients \subseteq Clients
    BY <1>1, <2>1 DEF Good, WaitLists, Manager
  <2>3. \A i \in jit : i \in Inhibitor /\ i.client \in mgr.clients
    BY <2>2, JitType
  <2> HIDE DEF jit
  <2>4. Good(n)
    BY <1>1, <2>1, <2>3 DEF Good, Manager, TimersOfPhase, ShutdownState, JitOf, ShuttingDown,
                            WaitLists, ExitIsFinal
  <2>5. n.phase = "QUERY_END_SESSION"
    BY <1>1, <2>1 DEF Good, Manager
  <2> HIDE DEF n
  <2>6. Good(query_end_session_complete(n))
    BY <2>4, <2>5, QueryComplete
  <2> QED BY <1>2, <2>6, GoodStep DEF QueryTimeout, n, jit
<1>3. CASE PhaseTimeout
  <2> DEFINE n == [mgr EXCEPT !.phase_timeout = FALSE]
  <2>1. mgr.phase = "END_SESSION"
    BY <1>1, <1>3 DEF PhaseTimeout, Good, TimersOfPhase
  <2>2. MayEndPhase(n)
    BY <1>1, <2>1 DEF Good, MayEndPhase, Manager, TimersOfPhase, ShutdownState, JitOf, ShuttingDown
  <2> HIDE DEF n
  <2>3. Good(end_phase(n))
    BY <2>2, EndPhase
  <2> QED BY <1>3, <2>3, GoodStep DEF PhaseTimeout, n
<1> QED BY <1>2, <1>3

\* The invariant is inductive: every step of the manager keeps it.
LEMMA NextIInv == IInv /\ [Next]_vars => IInv'
<1> SUFFICES ASSUME IInv, [Next]_vars PROVE IInv'
  OBVIOUS
<1>1. CASE Next
  BY <1>1, ClientSteps, UserSteps, BusSteps, InhibitorSteps, TimerSteps DEF Next, Clients
<1>2. CASE UNCHANGED vars
  BY <1>2 DEF vars, IInv, TypeOK, Good, TimersOfPhase, ShutdownState, JitOf, WaitLists, ExitIsFinal,
              ShuttingDown
<1> QED BY <1>1, <1>2

\* The inductive invariant holds in every behaviour of the manager.
THEOREM Invariance == Spec => []IInv
BY InitIInv, NextIInv, PTL DEF Spec

\* The variables keep their types in every behaviour of the manager.
THEOREM TypeCorrect == Spec => []TypeOK
<1>1. IInv => TypeOK
  BY DEF IInv
<1> QED BY <1>1, Invariance, PTL

\* No timer outlives its phase, and the end-session phase always has its deadline.
THEOREM TimersCorrect == Spec => []TimersGuardPhases
<1>1. IInv => TimersGuardPhases
  BY DEF IInv, Good, TimersGuardPhases
<1> QED BY <1>1, Invariance, PTL

\* A session that ends knows how, and nothing of a shutdown survives its cancellation.
THEOREM ShutdownStateCorrect == Spec => []ShutdownStateMatchesPhase
<1>1. IInv => ShutdownStateMatchesPhase
  BY DEF IInv, Good, ShutdownStateMatchesPhase
<1> QED BY <1>1, Invariance, PTL

\* Every just-in-time inhibitor speaks for a client of the store, during a shutdown.
THEOREM JitInhibitorsCorrect == Spec => []NoOrphanJitInhibitor
<1>1. IInv => NoOrphanJitInhibitor
  BY DEF IInv, Good, NoOrphanJitInhibitor
<1> QED BY <1>1, Invariance, PTL

\* The query waits only for clients the manager has, and outside it for nobody.
THEOREM WaitListsCorrect == Spec => []WaitListsMatchPhase
<1>1. IInv => WaitListsMatchPhase
  BY DEF IInv, Good, WaitListsMatchPhase
<1> QED BY <1>1, Invariance, PTL

-----------------------------------------------------------------------------
(***************************************************************************)
(* The query is not skipped.  A handler may call end_phase at several      *)
(* places; whichever does, the phases after the query are only reached     *)
(* with nobody inhibiting, a forced mode or no client, and what the        *)
(* handler does after that leaves it so.                                   *)
(***************************************************************************)
\* What lets a query end.
Free(m) == ~is_logout_inhibited(m) \/ m.logout_mode = "FORCE" \/ m.clients = {}

EndsFreely(m) == m.phase \in {"END_SESSION", "EXIT"} => Free(m)

\* Fewer inhibitors and fewer clients do not hinder the end.
LEMMA FreeStays ==
    ASSUME NEW m, NEW n, Free(m), n.inhibitors \subseteq m.inhibitors,
           n.clients \subseteq m.clients, n.logout_mode = m.logout_mode
    PROVE  Free(n)
BY DEF Free, is_logout_inhibited, IsInhibited

\* Ending a phase does not touch what the end depends on.
LEMMA EndPhaseIsFree ==
    ASSUME NEW m, MayEndPhase(m), Free(m)
    PROVE  Free(end_phase(m))
<1>1. m \in Manager /\ SameStores(m, end_phase(m))
  BY EndPhase DEF MayEndPhase
<1>2. m.phase \in Phases
  BY <1>1 DEF Manager
<1> DEFINE n == ClearPhase(m)
<1>3. n \in Manager /\ n.logout_mode = m.logout_mode
  BY <1>1 DEF Manager, ClearPhase
<1> HIDE DEF n
<1>4. /\ start_query(n).logout_mode = n.logout_mode
      /\ gsm_manager_quit(n).logout_mode = n.logout_mode
      /\ start_exit(n).logout_mode = n.logout_mode
      /\ start_end_session(n).logout_mode = n.logout_mode
  BY <1>3 DEF Manager, start_query, do_phase_query_end_session, start_exit, do_phase_exit,
              start_end_session, do_phase_end_session, end_end_session, gsm_manager_quit,
              ResetPhase, ClearPhase
<1>5. end_phase(m) \in {n, start_query(n), start_end_session(n), start_exit(n), gsm_manager_quit(n)}
  BY <1>2 DEF end_phase, n, Phases
<1>6. end_phase(m).logout_mode = m.logout_mode
  BY <1>3, <1>4, <1>5
<1> QED BY <1>1, <1>6, FreeStays DEF SameStores

\* Accepting the dialog forces the logout before it ends the phase.
LEMMA AcceptEndsFreely ==
    ASSUME NEW m, Good(m), m.inhibit_dialog # NONE, EndsFreely(m)
    PROVE  EndsFreely(inhibit_dialog_response(m, "ACCEPT"))
<1> DEFINE n == [m EXCEPT !.inhibit_dialog = NONE]
           f == [n EXCEPT !.logout_mode = "FORCE"]
<1>1. NONE \notin EndActions
  BY ConstantsAssumption DEF NONE
<1>2. CASE m.inhibit_dialog \in EndActions
  <2>1. m.phase # "RUNNING"
    BY <1>2 DEF Good, ShutdownState
  <2>2. MayEndPhase(f) /\ f.logout_mode = "FORCE"
    BY <1>1, <2>1 DEF Good, MayEndPhase, Manager, Modes, TimersOfPhase, ShutdownState, JitOf,
                      ShuttingDown
  <2>3. inhibit_dialog_response(m, "ACCEPT") = end_phase(f)
    BY <1>2 DEF inhibit_dialog_response, do_inhibit_dialog_action
  <2> QED BY <2>2, <2>3, EndPhaseIsFree DEF Free, EndsFreely
<1>3. CASE m.inhibit_dialog \notin EndActions
  <2>1. inhibit_dialog_response(m, "ACCEPT") = n
    BY <1>3 DEF inhibit_dialog_response, do_inhibit_dialog_action
  <2> QED BY <2>1, FreeStays DEF EndsFreely, Good, Manager
<1> QED BY <1>2, <1>3

\* So does the removal that closes the dialog by itself.
LEMMA RemovingEndsFreely ==
    ASSUME NEW m, Good(m), NEW gone, EndsFreely(m)
    PROVE  EndsFreely(RemoveInhibitors(m, gone))
<1> DEFINE n == [m EXCEPT !.inhibitors = m.inhibitors \ gone]
<1>1. /\ Good(n) /\ n.clients = m.clients /\ n.inhibitors \subseteq m.inhibitors
      /\ n.phase = m.phase /\ n.logout_mode = m.logout_mode
  BY DEF Good, Manager, TimersOfPhase, ShutdownState, JitOf, ShuttingDown, WaitLists, ExitIsFinal
<1>2. \/ RemoveInhibitors(m, gone) = n
      \/ n.inhibit_dialog # NONE /\ RemoveInhibitors(m, gone) = inhibit_dialog_response(n, "ACCEPT")
  BY DEF RemoveInhibitors
<1> HIDE DEF n
<1>3. EndsFreely(n)
  BY <1>1, FreeStays DEF EndsFreely
<1> QED BY <1>1, <1>2, <1>3, AcceptEndsFreely

\* The end of the query looks at the inhibitors that are left.
LEMMA CompleteEndsFreely ==
    ASSUME NEW m, Good(m), m.phase = "QUERY_END_SESSION"
    PROVE  EndsFreely(query_end_session_complete(m))
<1> DEFINE n == [m EXCEPT !.query_timeout = FALSE]
           d == [n EXCEPT !.inhibit_dialog = n.logout_type]
<1>1. Good(n) /\ n.phase = "QUERY_END_SESSION" /\ d.phase = "QUERY_END_SESSION"
  BY DEF Good, Manager, TimersOfPhase, ShutdownState, JitOf, ShuttingDown, WaitLists, ExitIsFinal
<1>2. \/ ~is_logout_inhibited(n) /\ query_end_session_complete(m) = end_phase(n)
      \/ query_end_session_complete(m) \in {n, d}
  BY DEF query_end_session_complete
<1> HIDE DEF n, d
<1> QED BY <1>1, <1>2, GoodMayEndPhase, EndPhaseIsFree DEF Free, EndsFreely

\* What follows an answer ends the query freely, and the rest of the end as freely as it was.
LEMMA AfterResponseEndsFreely ==
    ASSUME NEW m, Good(m), NEW c \in Clients, NEW do_last \in BOOLEAN, EndsFreely(m)
    PROVE  EndsFreely(AfterResponse(m, c, do_last))
<1> DEFINE n == IF m.phase = "END_SESSION" /\ do_last
                THEN [m EXCEPT !.next_query_clients = @ \cup {c}]
                ELSE m
           p == [n EXCEPT !.query_clients = @ \cup n.next_query_clients, !.next_query_clients = {}]
           q == [n EXCEPT !.process = "freed"]
<1>1. /\ Good(n) /\ n.phase = m.phase /\ n.clients = m.clients /\ n.inhibitors = m.inhibitors
      /\ n.logout_mode = m.logout_mode
  BY DEF Good, Manager, TimersOfPhase, ShutdownState, JitOf, ShuttingDown, WaitLists, ExitIsFinal
<1>2. EndsFreely(n)
  BY <1>1, FreeStays DEF EndsFreely
<1>3. \/ AfterResponse(m, c, do_last) = n
      \/ /\ n.phase = "QUERY_END_SESSION"
         /\ AfterResponse(m, c, do_last) = query_end_session_complete(n)
      \/ /\ n.phase = "END_SESSION"
         /\ AfterResponse(m, c, do_last) = do_phase_end_session_part_2(n)
  <2> HIDE DEF n
  <2>1. AfterResponse(m, c, do_last) =
            CASE n.phase = "QUERY_END_SESSION" /\ n.query_clients = {} ->
                     query_end_session_complete(n)
              [] n.phase = "END_SESSION" /\ n.query_clients = {} /\ ~is_logout_inhibited(n) ->
                     do_phase_end_session_part_2(n)
              [] OTHER -> n
    BY DEF AfterResponse, n
  <2> QED BY <2>1
<1> HIDE DEF n
<1>4. ASSUME n.phase = "END_SESSION"
      PROVE  EndsFreely(do_phase_end_session_part_2(n))
  <2>1. do_phase_end_session_part_2(n) \in {end_phase(n), p, q}
    BY DEF do_phase_end_session_part_2
  <2>2. Free(n)
    BY <1>2, <1>4 DEF EndsFreely
  <2>3. Free(end_phase(n))
    BY <1>1, <1>4, <2>2, GoodMayEndPhase, EndPhaseIsFree
  <2>4. /\ p.clients = n.clients /\ p.inhibitors = n.inhibitors /\ p.logout_mode = n.logout_mode
        /\ q.clients = n.clients /\ q.inhibitors = n.inhibitors /\ q.logout_mode = n.logout_mode
    BY <1>1 DEF Good, Manager
  <2>5. Free(p) /\ Free(q)
    <3> HIDE DEF p, q
    <3> QED BY <2>2, <2>4, FreeStays
  <2> HIDE DEF p, q
  <2> QED BY <2>1, <2>3, <2>5 DEF EndsFreely
<1> QED BY <1>1, <1>2, <1>3, <1>4, CompleteEndsFreely

\* An answer ends the query freely: one that refuses only adds an inhibitor to a query.
LEMMA AnswerEndsFreely ==
    ASSUME NEW m, Good(m), NEW c \in Clients,
           NEW is_ok \in BOOLEAN, NEW do_last \in BOOLEAN, NEW cancel \in BOOLEAN,
           EndsFreely(m), is_ok \/ (c \in m.clients /\ m.phase = "QUERY_END_SESSION")
    PROVE  EndsFreely(handle_client_end_session_response(m, c, is_ok, do_last, cancel))
<1> DEFINE r == handle_client_end_session_response(m, c, is_ok, do_last, cancel)
           answered == [m EXCEPT !.query_clients = @ \ {c}]
           refused == [answered EXCEPT !.inhibitors = @ \cup {JitInhibitor(c)}]
           gone == InhibitorsOf(answered, c)
           granted == RemoveInhibitors(answered, gone)
<1>1. CASE ~ShuttingDown(m)
  BY <1>1 DEF handle_client_end_session_response
<1>2. CASE ShuttingDown(m) /\ cancel
  BY <1>2, CancelEndSession DEF handle_client_end_session_response, EndsFreely
<1>3. CASE ShuttingDown(m) /\ ~cancel
  <2>1. /\ Good(answered) /\ answered.clients = m.clients /\ answered.inhibitors = m.inhibitors
        /\ answered.phase = m.phase /\ answered.logout_mode = m.logout_mode
    BY DEF Good, Manager, TimersOfPhase, ShutdownState, JitOf, ShuttingDown, WaitLists, ExitIsFinal
  <2>2. CASE ~is_ok /\ m.logout_mode # "FORCE"
    <3>1. Good(refused) /\ refused.phase = "QUERY_END_SESSION"
      <4> HIDE DEF answered
      <4>1. c \in answered.clients /\ answered.phase = "QUERY_END_SESSION"
        BY <2>1, <2>2
      <4>2. JitOf(refused)
        BY <2>1, <4>1, JitType DEF Good, Manager, JitOf, ShuttingDown
      <4> QED BY <2>1, <4>1, <4>2, JitType DEF Good, Manager, TimersOfPhase, ShutdownState,
                                          WaitLists, ExitIsFinal
    <3>2. r = AfterResponse(refused, c, do_last)
      BY <1>3, <2>2 DEF handle_client_end_session_response
    <3>3. EndsFreely(refused)
      BY <3>1 DEF EndsFreely
    <3> HIDE DEF refused, answered
    <3> QED BY <3>1, <3>2, <3>3, AfterResponseEndsFreely
  <2>3. CASE ~(~is_ok /\ m.logout_mode # "FORCE")
    <3>1. r = AfterResponse(granted, c, do_last)
      BY <1>3, <2>3 DEF handle_client_end_session_response
    <3> HIDE DEF answered, gone
    <3>2. EndsFreely(answered)
      BY <2>1, FreeStays DEF EndsFreely
    <3>3. Good(granted) /\ EndsFreely(granted)
      BY <2>1, <3>2, RemovingInhibitors, RemovingEndsFreely
    <3> HIDE DEF granted
    <3> QED BY <3>1, <3>3, AfterResponseEndsFreely
  <2> QED BY <2>2, <2>3
<1> QED BY <1>1, <1>2, <1>3

\* The exit of a client ends the query freely, also when it is the last one.
LEMMA DisconnectEndsFreely ==
    ASSUME NEW m, Good(m), NEW c \in Clients, EndsFreely(m)
    PROVE  EndsFreely(RemoveClient(disconnect_client(m, c), c))
<1> DEFINE n == RemoveInhibitors(m, InhibitorsOf(m, c))
           r == disconnect_client(m, c)
<1>1. Good(n) /\ EndsFreely(n) /\ Good(r)
  BY RemovingInhibitors, RemovingEndsFreely, DisconnectClient
<1>2. r = n \/ r = handle_client_end_session_response(n, c, TRUE, FALSE, FALSE)
  BY DEF disconnect_client
<1> HIDE DEF n, r
<1>3. EndsFreely(r)
  BY <1>1, <1>2, AnswerEndsFreely
<1>4. /\ RemoveClient(r, c).phase = r.phase /\ RemoveClient(r, c).clients \subseteq r.clients
      /\ RemoveClient(r, c).inhibitors = r.inhibitors
      /\ RemoveClient(r, c).logout_mode = r.logout_mode
  BY <1>1 DEF RemoveClient, Good, Manager
<1>5. EndsFreely(RemoveClient(r, c))
  BY <1>3, <1>4, FreeStays DEF EndsFreely
<1> QED BY <1>5 DEF r

\* Without a client nobody is left to object.
LEMMA LastClientEndsFreely ==
    ASSUME NEW m, Good(m), EndsFreely(m)
    PROVE  EndsFreely(LastClientCheck(m))
<1>1. \/ LastClientCheck(m) = m
      \/ m.phase # "RUNNING" /\ m.clients = {} /\ LastClientCheck(m) = end_phase(m)
  BY DEF LastClientCheck, ShuttingDown
<1> QED BY <1>1, GoodMayEndPhase, EndPhaseIsFree DEF Free, EndsFreely

\* The whole handler of a disconnected XSMP client, which may be hooked twice.
LEMMA DisconnectedEndsFreely ==
    ASSUME NEW m, Good(m), NEW c \in Clients, EndsFreely(m)
    PROVE  Good(on_client_disconnected(m, c)) /\ EndsFreely(on_client_disconnected(m, c))
BY DisconnectClient, LastClient, DisconnectEndsFreely, LastClientEndsFreely
   DEF on_client_disconnected

\* A step from the query ends it freely, or answers the logout dialog.
LEMMA QueryStep ==
    ASSUME IInv, Next, mgr.phase = "QUERY_END_SESSION"
    PROVE  EndsFreely(mgr') \/ (logout_dialog # NONE /\ logout_dialog' = NONE)
<1>1. Good(mgr) /\ TypeOK /\ EndsFreely(mgr)
  BY DEF IInv, EndsFreely
<1>2. ASSUME NEW n, n.phase = "QUERY_END_SESSION"
      PROVE  EndsFreely(n)
  BY <1>2 DEF EndsFreely
<1>3. ~Running
  BY DEF Running
<1>4. ASSUME NEW c \in Clients, NEW is_ok \in BOOLEAN, NEW do_last \in BOOLEAN,
             NEW cancel \in BOOLEAN, Respond(c, is_ok, do_last, cancel)
      PROVE  EndsFreely(mgr')
  BY <1>1, <1>4, AnswerEndsFreely DEF Respond
<1>5. ASSUME NEW c \in DBusClients, DBusClientStep(c)
      PROVE  EndsFreely(mgr')
  <2>1. c \in Clients
    BY DEF Clients
  <2>2. CASE RegisterClient(c)
    BY <1>3, <2>2 DEF RegisterClient
  <2>3. CASE EndSessionResponse(c)
    BY <1>4, <2>1, <2>3 DEF EndSessionResponse
  <2>4. CASE DisconnectNext(c)
    <3> DEFINE n == RemoveClient(disconnect_client(mgr, c), c)
    <3>1. Good(n) /\ EndsFreely(n)
      BY <1>1, <2>1, DisconnectClient, DisconnectEndsFreely
    <3>2. mgr' = n \/ mgr' = LastClientCheck(n)
      BY <2>4 DEF DisconnectNext, StartLeaving
    <3> HIDE DEF n
    <3> QED BY <3>1, <3>2, LastClientEndsFreely
  <2> QED BY <1>5, <2>2, <2>3, <2>4 DEF DBusClientStep
<1>6. ASSUME NEW c \in XsmpClients, XsmpClientStep(c)
      PROVE  EndsFreely(mgr')
  <2>1. c \in Clients
    BY DEF Clients
  <2>2. CASE XsmpConnect(c)
    <3>1. mgr'.phase = "QUERY_END_SESSION"
      BY <1>1, <2>2 DEF XsmpConnect, Good, Manager
    <3> QED BY <1>2, <3>1
  <2>3. CASE XsmpRegister(c)
    BY <1>3, <2>3 DEF XsmpRegister
  <2>4. CASE XsmpDisconnect(c)
    <3>1. \/ mgr' = mgr
          \/ mgr' = on_client_disconnected(mgr, c)
          \/ mgr' = on_client_disconnected(on_client_disconnected(mgr, c), c)
      BY <2>4 DEF XsmpDisconnect
    <3> QED BY <1>1, <2>1, <3>1, DisconnectedEndsFreely
  <2>5. CASE SaveYourselfDone(c) \/ InteractRequest(c) \/ InteractDone(c) \/ SaveYourselfPhase2Request(c)
    BY <1>4, <2>1, <2>5 DEF SaveYourselfDone, InteractRequest, InteractDone,
                            SaveYourselfPhase2Request
  <2> QED BY <1>6, <2>2, <2>3, <2>4, <2>5 DEF XsmpClientStep
<1>7. ASSUME NEW n, Good(n), EndsFreely(n), NEW gone, StartLeaving(n, gone)
      PROVE  EndsFreely(mgr')
  BY <1>7, LastClientEndsFreely DEF StartLeaving
<1>8. ASSUME NEW b \in Connections, BusNameLost(b)
      PROVE  EndsFreely(mgr')
  BY <1>1, <1>7, <1>8, RemovingInhibitors, RemovingEndsFreely DEF BusNameLost
<1>9. CASE BusDisconnected
  <2> DEFINE cut == [mgr EXCEPT !.dbus_disconnected = TRUE]
  <2>1. Good(cut) /\ cut.phase = "QUERY_END_SESSION"
    BY <1>1 DEF Good, Manager, TimersOfPhase, ShutdownState, JitOf, ShuttingDown, WaitLists, ExitIsFinal
  <2>2. StartLeaving(cut, mgr.clients \cap DBusClients)
    BY <1>9 DEF BusDisconnected
  <2> HIDE DEF cut
  <2> QED BY <1>2, <1>7, <2>1, <2>2
<1>10. ASSUME NEW i \in AppInhibitors, Inhibit(i) \/ Uninhibit(i)
       PROVE  EndsFreely(mgr')
  <2>1. CASE Inhibit(i)
    <3>1. mgr'.phase = "QUERY_END_SESSION"
      BY <1>1, <2>1 DEF Inhibit, Good, Manager
    <3> QED BY <1>2, <3>1
  <2>2. CASE Uninhibit(i)
    BY <1>1, <2>2, RemovingEndsFreely DEF Uninhibit
  <2> QED BY <1>10, <2>1, <2>2
<1>11. CASE QueryTimeout
  <2> DEFINE jit == IF mgr.logout_mode = "FORCE" THEN {}
                    ELSE {JitInhibitor(c) : c \in mgr.query_clients}
             n == [mgr EXCEPT !.query_timeout = FALSE, !.inhibitors = @ \cup jit, !.query_clients = {}]
  <2>1. mgr.query_clients \subseteq mgr.clients /\ mgr.query_clients \subseteq Clients
    BY <1>1 DEF Good, WaitLists, Manager
  <2>2. \A i \in jit : i \in Inhibitor /\ i.client \in mgr.clients
    BY <2>1, JitType
  <2> HIDE DEF jit
  <2>3. Good(n) /\ n.phase = "QUERY_END_SESSION"
    BY <1>1, <2>2 DEF Good, Manager, TimersOfPhase, ShutdownState, JitOf, ShuttingDown,
                      WaitLists, ExitIsFinal
  <2> HIDE DEF n
  <2>4. EndsFreely(query_end_session_complete(n))
    BY <2>3, CompleteEndsFreely
  <2> QED BY <1>11, <2>4 DEF QueryTimeout, n, jit
<1>12. CASE PhaseTimeout
  BY <1>1, <1>12 DEF PhaseTimeout, Good, TimersOfPhase
<1>13. ASSUME UserStep
       PROVE  EndsFreely(mgr') \/ (logout_dialog # NONE /\ logout_dialog' = NONE)
  <2>1. ASSUME NEW response \in {"ACCEPT", "CANCEL"}, InhibitDialogResponse(response)
        PROVE  EndsFreely(mgr')
    <3> DEFINE n == [mgr EXCEPT !.inhibit_dialog = NONE]
    <3>1. CASE response = "ACCEPT"
      BY <1>1, <2>1, <3>1, AcceptEndsFreely DEF InhibitDialogResponse
    <3>2. CASE response = "CANCEL"
      <4>1. Good(n) /\ n.phase = "QUERY_END_SESSION"
        <5>1. NONE \notin EndActions
          BY ConstantsAssumption DEF NONE
        <5> QED BY <1>1, <5>1 DEF Good, Manager, TimersOfPhase, ShutdownState, JitOf, ShuttingDown,
                                  WaitLists, ExitIsFinal
      <4>2. mgr' = n \/ mgr' = cancel_end_session(n)
        BY <2>1, <3>2 DEF InhibitDialogResponse, inhibit_dialog_response
      <4> HIDE DEF n
      <4> QED BY <4>1, <4>2, CancelEndSession DEF EndsFreely
    <3> QED BY <3>1, <3>2
  <2>2. CASE LogoutDialogResponse
    <3>1. PICK response : logout_dialog_response(response)
      BY <2>2 DEF LogoutDialogResponse
    <3>2. CASE mgr.logout_mode # "NORMAL"
      <4>1. mgr'.phase = "QUERY_END_SESSION"
        BY <1>1, <3>1, <3>2 DEF logout_dialog_response, Good, Manager
      <4> QED BY <1>2, <4>1
    <3>3. CASE mgr.logout_mode = "NORMAL"
      BY <3>1, <3>3 DEF logout_dialog_response
    <3> QED BY <3>2, <3>3
  <2>3. CASE ToggleLockdown
    BY <1>1, <2>3 DEF ToggleLockdown
  <2> QED BY <1>3, <1>13, <2>1, <2>2, <2>3 DEF UserStep, Logout, Request, Shutdown
<1> QED BY <1>5, <1>6, <1>8, <1>9, <1>10, <1>11, <1>12, <1>13 DEF Next

\* No step goes on from the query while somebody inhibits the logout, unless it is
\* forced, confirmed or without clients.
THEOREM QueryCorrect == Spec => QueryIsNotSkipped
<1>1. IInv /\ [Next]_vars
        => [ mgr.phase = "QUERY_END_SESSION" /\ mgr'.phase \in {"END_SESSION", "EXIT"}
             => \/ ~is_logout_inhibited(mgr')
                \/ mgr'.logout_mode = "FORCE"
                \/ mgr'.clients = {}
                \/ logout_dialog # NONE /\ logout_dialog' = NONE ]_vars
  BY QueryStep DEF EndsFreely, Free
<1> QED BY <1>1, Invariance, PTL DEF Spec, QueryIsNotSkipped

-----------------------------------------------------------------------------
(***************************************************************************)
(* The refinement.  Without its fairness SessionLifecycle is implemented   *)
(* step by step: the phases only go on, unless the shutdown is cancelled.  *)
(***************************************************************************)
\* The process has quit exactly when the last phase has been reached.
Going(m) == m.process \in {"running", "quit"} /\ (m.process = "quit" <=> m.phase = "EXIT")

\* From m to n the shutdown goes on as it was asked for, by any number of phases.
Onward(m, n) ==
    /\ Going(n)
    /\ n.logout_type = m.logout_type
    /\ \/ n.phase = m.phase
       \/ m.phase = "QUERY_END_SESSION" /\ n.phase \in {"END_SESSION", "EXIT"}
       \/ m.phase = "END_SESSION" /\ n.phase = "EXIT"

\* The shutdown goes on in the way type.
Redirected(m, n, type) ==
    /\ Going(n)
    /\ n.logout_type = type
    /\ \/ m.phase = "QUERY_END_SESSION" /\ n.phase \in {"END_SESSION", "EXIT"}
       \/ m.phase = "END_SESSION" /\ n.phase = "EXIT"

\* A running process dies of a fault.
Dies(m, n) ==
    /\ m.process = "running"
    /\ n.process \in {"aborted", "freed"}
    /\ n.logout_type = m.logout_type
    /\ n.phase = "RUNNING" <=> m.phase = "RUNNING"

\* A shutdown is cancelled.
Returns(m, n) ==
    /\ Going(m) /\ m.phase \notin {"RUNNING", "EXIT"}
    /\ n.process = "running" /\ n.phase = "RUNNING"

\* The end of the session in the way type is asked for; the lockdown may refuse it.
Asked(m, n, type) ==
    /\ m.phase = "RUNNING" /\ m.process = "running" /\ n.process = "running"
    /\ n.phase = "RUNNING" \/ (n.phase = "QUERY_END_SESSION" /\ n.logout_type = type)

Moves(m, n) ==
    \/ Onward(m, n) \/ Dies(m, n) \/ Returns(m, n)
    \/ \E type \in EndActions : Redirected(m, n, type) \/ Asked(m, n, type)

LEMMA OnwardChains ==
    ASSUME NEW l, NEW m, NEW n, Onward(l, m), Onward(m, n)
    PROVE  Onward(l, n)
BY DEF Onward

\* end_phase goes one phase on, or two where nobody is left to wait for.
LEMMA EndPhaseGoesOn ==
    ASSUME NEW m, MayEndPhase(m), Going(m), m.phase # "RUNNING"
    PROVE  /\ Onward(m, end_phase(m))
           /\ m.phase # "EXIT" => Redirected(m, end_phase(m), m.logout_type)
           /\ end_phase(m).next_query_clients = {}
<1> DEFINE n == ClearPhase(m)
<1>1. /\ n \in Manager /\ n.phase = m.phase /\ n.process = m.process
      /\ n.logout_type = m.logout_type /\ n.logout_type # NONE /\ n.next_query_clients = {}
  BY DEF MayEndPhase, Manager, ClearPhase
<1>2. m.phase \in Phases
  BY DEF MayEndPhase, Manager
<1> HIDE DEF n
<1>3. ASSUME NEW k \in Manager, k.logout_type # NONE, k.next_query_clients = {}
      PROVE  /\ gsm_manager_quit(k).process = "quit" /\ gsm_manager_quit(k).phase = k.phase
             /\ gsm_manager_quit(k).logout_type = k.logout_type
             /\ gsm_manager_quit(k).next_query_clients = {}
             /\ start_exit(k).process = "quit" /\ start_exit(k).phase = "EXIT"
             /\ start_exit(k).logout_type = k.logout_type
             /\ start_exit(k).next_query_clients = {}
  BY <1>3 DEF Manager, Phases, start_exit, do_phase_exit, gsm_manager_quit, ResetPhase, ClearPhase
<1>4. \/ /\ start_end_session(n).process = n.process
         /\ start_end_session(n).phase = "END_SESSION"
         /\ start_end_session(n).logout_type = n.logout_type
         /\ start_end_session(n).next_query_clients = {}
      \/ /\ start_end_session(n).process = "quit"
         /\ start_end_session(n).phase = "EXIT"
         /\ start_end_session(n).logout_type = n.logout_type
         /\ start_end_session(n).next_query_clients = {}
  <2> DEFINE e == ResetPhase([n EXCEPT !.phase = "END_SESSION"])
  <2>1. /\ e \in Manager /\ e.phase = "END_SESSION" /\ e.process = n.process
        /\ e.logout_type = n.logout_type /\ e.next_query_clients = {}
    BY <1>1 DEF Manager, Phases, ResetPhase, ClearPhase
  <2> HIDE DEF e
  <2>2. start_end_session(n) = do_phase_end_session(e)
    BY DEF start_end_session, e
  <2>3. CASE e.clients # {}
    BY <2>1, <2>2, <2>3 DEF do_phase_end_session, Manager
  <2>4. CASE e.clients = {}
    <3>1. ClearPhase(e) \in Manager /\ ClearPhase(e).logout_type = n.logout_type
          /\ ClearPhase(e).next_query_clients = {}
      BY <2>1 DEF ClearPhase, Manager
    <3>2. start_end_session(n) = start_exit(ClearPhase(e))
      BY <2>2, <2>4 DEF do_phase_end_session, end_end_session
    <3> QED BY <1>1, <1>3, <3>1, <3>2
  <2> QED BY <2>3, <2>4
<1>5. CASE m.phase = "QUERY_END_SESSION"
  <2>1. end_phase(m) = start_end_session(n)
    BY <1>5 DEF end_phase, n
  <2> QED BY <1>1, <1>4, <1>5, <2>1 DEF Going, Onward, Redirected
<1>6. CASE m.phase = "END_SESSION"
  <2>1. end_phase(m) = start_exit(n)
    BY <1>6 DEF end_phase, n
  <2> QED BY <1>1, <1>3, <1>6, <2>1 DEF Going, Onward, Redirected
<1>7. CASE m.phase = "EXIT"
  <2>1. end_phase(m) = gsm_manager_quit(n)
    BY <1>7 DEF end_phase, n
  <2> QED BY <1>1, <1>3, <1>7, <2>1 DEF Going, Onward, Redirected
<1> QED BY <1>2, <1>5, <1>6, <1>7 DEF Phases

\* Accepting the inhibit dialog goes on with the shutdown, if it is about one.
LEMMA AcceptGoesOn ==
    ASSUME NEW m, Good(m), Going(m), m.inhibit_dialog # NONE
    PROVE  LET r == inhibit_dialog_response(m, "ACCEPT")
           IN  Onward(m, r) /\ (m.next_query_clients = {} => r.next_query_clients = {})
<1> DEFINE n == [m EXCEPT !.inhibit_dialog = NONE]
           f == [n EXCEPT !.logout_mode = "FORCE"]
<1>1. NONE \notin EndActions
  BY ConstantsAssumption DEF NONE
<1>2. CASE m.inhibit_dialog \in EndActions
  <2>1. m.phase # "RUNNING"
    BY <1>2 DEF Good, ShutdownState
  <2>2. /\ MayEndPhase(f) /\ f.phase = m.phase /\ f.process = m.process
        /\ f.logout_type = m.logout_type
    BY <1>1, <2>1 DEF Good, MayEndPhase, Manager, Modes, TimersOfPhase, ShutdownState, JitOf,
                      ShuttingDown
  <2>3. inhibit_dialog_response(m, "ACCEPT") = end_phase(f)
    BY <1>2 DEF inhibit_dialog_response, do_inhibit_dialog_action
  <2> HIDE DEF f
  <2>4. Going(f)
    BY <2>2 DEF Going
  <2> QED BY <2>1, <2>2, <2>3, <2>4, EndPhaseGoesOn DEF Onward
<1>3. CASE m.inhibit_dialog \notin EndActions
  <2>1. inhibit_dialog_response(m, "ACCEPT") = n
    BY <1>3 DEF inhibit_dialog_response, do_inhibit_dialog_action
  <2> QED BY <2>1 DEF Onward, Going, Good, Manager
<1> QED BY <1>2, <1>3

\* So does the removal that closes the dialog by itself.
LEMMA RemovingGoesOn ==
    ASSUME NEW m, Good(m), Going(m), NEW gone
    PROVE  LET r == RemoveInhibitors(m, gone)
           IN  Onward(m, r) /\ (m.next_query_clients = {} => r.next_query_clients = {})
<1> DEFINE n == [m EXCEPT !.inhibitors = m.inhibitors \ gone]
<1>1. /\ Good(n) /\ n.phase = m.phase /\ n.process = m.process /\ n.logout_type = m.logout_type
      /\ n.next_query_clients = m.next_query_clients
  BY DEF Good, Manager, TimersOfPhase, ShutdownState, JitOf, ShuttingDown, WaitLists, ExitIsFinal
<1>2. \/ RemoveInhibitors(m, gone) = n
      \/ n.inhibit_dialog # NONE /\ RemoveInhibitors(m, gone) = inhibit_dialog_response(n, "ACCEPT")
  BY DEF RemoveInhibitors
<1> HIDE DEF n
<1>3. Going(n) /\ Onward(m, n)
  BY <1>1 DEF Going, Onward
<1> QED BY <1>1, <1>2, <1>3, AcceptGoesOn, OnwardChains

\* The end of the query goes on or asks the user.
LEMMA CompleteGoesOn ==
    ASSUME NEW m, Good(m), Going(m), m.phase = "QUERY_END_SESSION"
    PROVE  Onward(m, query_end_session_complete(m))
<1> DEFINE n == [m EXCEPT !.query_timeout = FALSE]
           d == [n EXCEPT !.inhibit_dialog = n.logout_type]
<1>1. /\ Good(n) /\ n.phase = m.phase /\ n.process = m.process /\ n.logout_type = m.logout_type
      /\ d.phase = m.phase /\ d.process = m.process /\ d.logout_type = m.logout_type
  BY DEF Good, Manager, TimersOfPhase, ShutdownState, JitOf, ShuttingDown, WaitLists, ExitIsFinal
<1>2. query_end_session_complete(m) \in {end_phase(n), n, d}
  BY DEF query_end_session_complete
<1> HIDE DEF n, d
<1>3. Going(n) /\ Onward(m, n) /\ Onward(m, d)
  BY <1>1 DEF Going, Onward
<1>4. Onward(m, end_phase(n))
  BY <1>1, <1>3, GoodMayEndPhase, EndPhaseGoesOn, OnwardChains
<1> QED BY <1>2, <1>3, <1>4

\* What follows an answer goes on; only a client asked to be last that has left since can
\* make it fail.
LEMMA AfterResponseGoesOn ==
    ASSUME NEW m, Good(m), Going(m), NEW c \in Clients, NEW do_last \in BOOLEAN
    PROVE  \/ Onward(m, AfterResponse(m, c, do_last))
           \/ /\ Dies(m, AfterResponse(m, c, do_last))
              /\ m.next_query_clients # {} \/ do_last
<1> DEFINE n == IF m.phase = "END_SESSION" /\ do_last
                THEN [m EXCEPT !.next_query_clients = @ \cup {c}]
                ELSE m
           p == [n EXCEPT !.query_clients = @ \cup n.next_query_clients, !.next_query_clients = {}]
           q == [n EXCEPT !.process = "freed"]
<1>1. /\ Good(n) /\ n.phase = m.phase /\ n.process = m.process /\ n.logout_type = m.logout_type
      /\ n.next_query_clients = {} \/ m.next_query_clients # {} \/ do_last
  BY DEF Good, Manager, TimersOfPhase, ShutdownState, JitOf, ShuttingDown, WaitLists, ExitIsFinal
<1>2. \/ AfterResponse(m, c, do_last) = n
      \/ /\ n.phase = "QUERY_END_SESSION"
         /\ AfterResponse(m, c, do_last) = query_end_session_complete(n)
      \/ /\ n.phase = "END_SESSION"
         /\ AfterResponse(m, c, do_last) = do_phase_end_session_part_2(n)
  <2> HIDE DEF n
  <2>1. AfterResponse(m, c, do_last) =
            CASE n.phase = "QUERY_END_SESSION" /\ n.query_clients = {} ->
                     query_end_session_complete(n)
              [] n.phase = "END_SESSION" /\ n.query_clients = {} /\ ~is_logout_inhibited(n) ->
                     do_phase_end_session_part_2(n)
              [] OTHER -> n
    BY DEF AfterResponse, n
  <2> QED BY <2>1
<1> HIDE DEF n
<1>3. Going(n) /\ Onward(m, n)
  BY <1>1 DEF Going, Onward
<1>4. ASSUME n.phase = "END_SESSION"
      PROVE  \/ Onward(m, do_phase_end_session_part_2(n))
             \/ Dies(m, do_phase_end_session_part_2(n)) /\ n.next_query_clients # {}
  <2>1. \/ do_phase_end_session_part_2(n) = end_phase(n)
        \/ do_phase_end_session_part_2(n) = p
        \/ do_phase_end_session_part_2(n) = q /\ n.next_query_clients # {}
    BY DEF do_phase_end_session_part_2
  <2>2. Onward(m, end_phase(n))
    BY <1>1, <1>3, <1>4, GoodMayEndPhase, EndPhaseGoesOn, OnwardChains
  <2>3. /\ p.phase = n.phase /\ p.process = n.process /\ p.logout_type = n.logout_type
        /\ q.phase = n.phase /\ q.process = "freed" /\ q.logout_type = n.logout_type
    BY <1>1 DEF Good, Manager
  <2>4. Onward(m, p)
    <3> HIDE DEF p
    <3> QED BY <1>1, <1>3, <2>3 DEF Onward, Going
  <2>5. Dies(m, q)
    <3> HIDE DEF q
    <3> QED BY <1>1, <1>3, <1>4, <2>3 DEF Dies, Going
  <2> HIDE DEF p, q
  <2> QED BY <2>1, <2>2, <2>4, <2>5
<1>5. CASE n.phase = "QUERY_END_SESSION" /\ AfterResponse(m, c, do_last) = query_end_session_complete(n)
  BY <1>1, <1>3, <1>5, CompleteGoesOn, OnwardChains
<1> QED BY <1>1, <1>2, <1>3, <1>4, <1>5

\* An answer goes on, cancels the shutdown, or fails as above.
LEMMA AnswerMoves ==
    ASSUME NEW m, Good(m), Going(m), m.process = "running", NEW c \in Clients,
           NEW is_ok \in BOOLEAN, NEW do_last \in BOOLEAN, NEW cancel \in BOOLEAN,
           is_ok \/ c \in m.clients
    PROVE  LET r == handle_client_end_session_response(m, c, is_ok, do_last, cancel)
           IN  /\ Moves(m, r)
               /\ is_ok /\ ~do_last /\ ~cancel /\ m.phase = "QUERY_END_SESSION" => Onward(m, r)
<1> DEFINE r == handle_client_end_session_response(m, c, is_ok, do_last, cancel)
           answered == [m EXCEPT !.query_clients = @ \ {c}]
           refused == [answered EXCEPT !.inhibitors = @ \cup {JitInhibitor(c)}]
           gone == InhibitorsOf(answered, c)
           granted == RemoveInhibitors(answered, gone)
<1>1. CASE ~ShuttingDown(m)
  BY <1>1 DEF handle_client_end_session_response, ShuttingDown, Moves, Onward
<1>2. CASE ShuttingDown(m) /\ cancel
  <2>1. r = cancel_end_session(m)
    BY <1>2 DEF handle_client_end_session_response
  <2>2. cancel_end_session(m).process = m.process
    BY <1>2 DEF cancel_end_session, start_running, ResetPhase, ClearPhase, Good, Manager
  <2>3. Returns(m, r)
    BY <1>2, <2>1, <2>2, CancelEndSession DEF Returns, Going, ShuttingDown
  <2> QED BY <1>2, <2>3 DEF Moves
<1>3. CASE ShuttingDown(m) /\ ~cancel
  <2>1. /\ Good(answered) /\ answered.clients = m.clients /\ answered.phase = m.phase
        /\ answered.process = m.process /\ answered.logout_type = m.logout_type
        /\ answered.next_query_clients = m.next_query_clients
    BY DEF Good, Manager, TimersOfPhase, ShutdownState, JitOf, ShuttingDown, WaitLists, ExitIsFinal
  <2>2. Going(answered) /\ Onward(m, answered)
    <3> HIDE DEF answered
    <3> QED BY <2>1 DEF Going, Onward
  <2>3. ASSUME NEW n, Good(n), Onward(m, n), r = AfterResponse(n, c, do_last)
        PROVE  /\ Moves(m, r)
               /\ n.next_query_clients = {} /\ ~do_last => Onward(m, r)
    <3>1. Going(n)
      BY <2>3 DEF Onward
    <3>2. \/ Onward(n, r)
          \/ Dies(n, r) /\ (n.next_query_clients # {} \/ do_last)
      BY <2>3, <3>1, AfterResponseGoesOn
    <3>3. Dies(n, r) => Dies(m, r)
      BY <2>3 DEF Dies, Onward
    <3> QED BY <2>3, <3>2, <3>3, OnwardChains DEF Moves
  <2>4. CASE ~is_ok /\ m.logout_mode # "FORCE"
    <3>1. /\ Good(refused) /\ refused.phase = m.phase /\ refused.process = m.process
          /\ refused.logout_type = m.logout_type
      <4> HIDE DEF answered
      <4>1. c \in answered.clients /\ answered.phase # "RUNNING"
        BY <1>3, <2>1, <2>4 DEF ShuttingDown
      <4>2. JitOf(refused)
        BY <2>1, <4>1, JitType DEF Good, Manager, JitOf, ShuttingDown
      <4> QED BY <2>1, <4>1, <4>2, JitType DEF Good, Manager, TimersOfPhase, ShutdownState,
                                          WaitLists, ExitIsFinal
    <3>2. r = AfterResponse(refused, c, do_last)
      BY <1>3, <2>4 DEF handle_client_end_session_response
    <3> HIDE DEF refused, answered
    <3>3. Onward(m, refused)
      BY <3>1 DEF Going, Onward
    <3> QED BY <2>3, <2>4, <3>1, <3>2, <3>3
  <2>5. CASE ~(~is_ok /\ m.logout_mode # "FORCE")
    <3>1. r = AfterResponse(granted, c, do_last)
      BY <1>3, <2>5 DEF handle_client_end_session_response
    <3> HIDE DEF answered, gone
    <3>2. /\ Good(granted) /\ Onward(answered, granted)
          /\ answered.next_query_clients = {} => granted.next_query_clients = {}
      BY <2>1, <2>2, RemovingInhibitors, RemovingGoesOn
    <3> HIDE DEF granted
    <3>3. Onward(m, granted)
      BY <2>2, <3>2, OnwardChains
    <3>4. m.phase = "QUERY_END_SESSION" => granted.next_query_clients = {}
      BY <2>1, <3>2 DEF Good, WaitLists
    <3> QED BY <2>3, <3>1, <3>2, <3>3, <3>4
  <2> QED BY <2>4, <2>5
<1> QED BY <1>1, <1>2, <1>3

\* The exit of a client goes on, whatever it was asked and had inhibited.
LEMMA DisconnectGoesOn ==
    ASSUME NEW m, Good(m), Going(m), NEW c \in Clients
    PROVE  Onward(m, RemoveClient(disconnect_client(m, c), c))
<1> DEFINE n == RemoveInhibitors(m, InhibitorsOf(m, c))
           r == disconnect_client(m, c)
<1>1. Good(n) /\ Onward(m, n) /\ Good(r)
  BY RemovingInhibitors, RemovingGoesOn, DisconnectClient
<1>2. \/ r = n
      \/ /\ n.phase = "QUERY_END_SESSION"
         /\ r = handle_client_end_session_response(n, c, TRUE, FALSE, FALSE)
  BY DEF disconnect_client
<1> HIDE DEF n, r
<1>3. Going(n) /\ (n.phase = "QUERY_END_SESSION" => n.process = "running")
  BY <1>1 DEF Onward, Going
<1>4. ASSUME n.phase = "QUERY_END_SESSION"
      PROVE  Onward(n, handle_client_end_session_response(n, c, TRUE, FALSE, FALSE))
  BY <1>1, <1>3, <1>4, AnswerMoves
<1>5. Onward(m, r)
  <2>1. CASE r = n
    BY <1>1, <2>1
  <2>2. CASE n.phase = "QUERY_END_SESSION"
             /\ r = handle_client_end_session_response(n, c, TRUE, FALSE, FALSE)
    <3>1. Onward(n, r)
      BY <1>4, <2>2, Zenon
    <3> QED BY <1>1, <3>1, OnwardChains
  <2> QED BY <1>2, <2>1, <2>2
<1>6. /\ RemoveClient(r, c).phase = r.phase /\ RemoveClient(r, c).process = r.process
      /\ RemoveClient(r, c).logout_type = r.logout_type
  BY <1>1 DEF RemoveClient, Good, Manager
<1>7. Onward(m, RemoveClient(r, c))
  BY <1>5, <1>6 DEF Onward, Going
<1> QED BY <1>7 DEF r

\* The exit of the last client goes on.
LEMMA LastClientGoesOn ==
    ASSUME NEW m, Good(m), Going(m)
    PROVE  Onward(m, LastClientCheck(m))
<1>1. \/ LastClientCheck(m) = m
      \/ m.phase # "RUNNING" /\ LastClientCheck(m) = end_phase(m)
  BY DEF LastClientCheck, ShuttingDown
<1>2. Onward(m, m)
  BY DEF Onward
<1> QED BY <1>1, <1>2, GoodMayEndPhase, EndPhaseGoesOn

\* The whole handler of a disconnected XSMP client goes on.
LEMMA DisconnectedGoesOn ==
    ASSUME NEW m, Good(m), Going(m), NEW c \in Clients
    PROVE  Onward(m, on_client_disconnected(m, c))
<1> DEFINE n == RemoveClient(disconnect_client(m, c), c)
<1>1. Good(n) /\ Onward(m, n)
  BY DisconnectClient, DisconnectGoesOn
<1>2. on_client_disconnected(m, c) = LastClientCheck(n)
  BY DEF on_client_disconnected
<1> HIDE DEF n
<1>3. Going(n)
  BY <1>1 DEF Onward
<1> QED BY <1>1, <1>2, <1>3, LastClientGoesOn, OnwardChains

\* A request starts the shutdown or, from a dialog that was open, redirects it.
LEMMA RequestMoves ==
    ASSUME NEW m \in Manager, Going(m), m.process = "running", NEW type \in EndActions,
           m.phase # "RUNNING" => Good(m)
    PROVE  Moves(m, request_end(m, type))
<1> DEFINE n == [m EXCEPT !.logout_type = type]
           r == end_phase(n)
<1>1. NONE \notin EndActions
  BY ConstantsAssumption DEF NONE
<1>2. /\ n.phase = m.phase /\ n.process = m.process /\ n.logout_type = type /\ n \in Manager
      /\ m.phase # "RUNNING" => MayEndPhase(n)
  BY <1>1 DEF Good, MayEndPhase, Manager, TimersOfPhase, ShutdownState, JitOf, ShuttingDown
<1>3. request_end(m, type) = r
  BY DEF request_end
<1> HIDE DEF n
<1>4. Going(n)
  BY <1>2 DEF Going
<1>5. CASE m.phase # "RUNNING"
  <2>1. Redirected(n, r, type)
    BY <1>2, <1>4, <1>5, EndPhaseGoesOn DEF Going
  <2>2. Redirected(m, r, type)
    BY <1>2, <2>1 DEF Redirected
  <2> QED BY <1>3, <2>2 DEF Moves
<1>6. CASE m.phase = "RUNNING"
  <2> DEFINE k == ClearPhase(n)
  <2>1. /\ k \in Manager /\ k.phase = "RUNNING" /\ k.process = "running" /\ k.logout_type = type
    BY <1>2, <1>4, <1>6 DEF ClearPhase, Manager, Going
  <2>2. r = k \/ r = start_query(k)
    BY <1>2, <1>6 DEF end_phase
  <2> HIDE DEF k
  <2>3. /\ start_query(k).phase = "QUERY_END_SESSION" /\ start_query(k).process = "running"
        /\ start_query(k).logout_type = type
    BY <2>1 DEF Manager, Phases, start_query, do_phase_query_end_session, ResetPhase, ClearPhase
  <2>4. m.process = "running"
    BY <1>6 DEF Going
  <2>5. Asked(m, r, type)
    BY <1>6, <2>1, <2>2, <2>3, <2>4 DEF Asked
  <2> QED BY <1>3, <2>5 DEF Moves
<1> QED BY <1>5, <1>6

\* So does a logout, in any mode while the session runs.
LEMMA LogoutMoves ==
    ASSUME NEW m, Good(m), Going(m), m.process = "running",
           "LOGOUT" \in EndActions, NEW mode \in Modes,
           m.phase = "RUNNING" \/ mode # "FORCE"
    PROVE  Moves(m, request_logout(m, mode))
<1> DEFINE l == [m EXCEPT !.logout_mode = mode]
<1>1. /\ l \in Manager /\ l.phase = m.phase /\ l.process = m.process
      /\ l.logout_type = m.logout_type /\ (m.phase # "RUNNING" => Good(l))
  BY DEF Good, Manager, TimersOfPhase, ShutdownState, JitOf, ShuttingDown, WaitLists, ExitIsFinal
<1>2. request_logout(m, mode) = request_end(l, "LOGOUT")
  BY DEF request_logout
<1> HIDE DEF l
<1>3. Going(l)
  BY <1>1 DEF Going
<1>4. Moves(l, request_end(l, "LOGOUT"))
  BY <1>1, <1>3, RequestMoves
<1> QED BY <1>1, <1>2, <1>4 DEF Moves, Onward, Redirected, Dies, Returns, Asked, Going

\* Every step of the manager is such a move, or one of a manager that has quit.
LEMMA EveryStepMoves ==
    ASSUME IInv, Next, mgr.process = "quit" => mgr.phase = "EXIT"
    PROVE  Moves(mgr, mgr')
<1>1. Good(mgr) /\ TypeOK
  BY DEF IInv
<1>2. Going(mgr) \/ (mgr.process \in {"aborted", "freed"} /\ ~Idle)
  BY <1>1 DEF Good, Manager, ExitIsFinal, Going, Idle
<1>3. Idle => Going(mgr)
  BY <1>2
<1>4. ASSUME NEW n, n.phase = mgr.phase, n.process = mgr.process, n.logout_type = mgr.logout_type,
             Going(mgr)
      PROVE  Going(n) /\ Onward(mgr, n) /\ Moves(mgr, n)
  BY <1>4 DEF Going, Onward, Moves
<1>5. ASSUME NEW c \in Clients, NEW is_ok \in BOOLEAN, NEW do_last \in BOOLEAN,
             NEW cancel \in BOOLEAN, Respond(c, is_ok, do_last, cancel)
      PROVE  Moves(mgr, mgr')
  <2>1. Idle /\ c \in mgr.clients
        /\ mgr' = handle_client_end_session_response(mgr, c, is_ok, do_last, cancel)
    BY <1>5 DEF Respond
  <2>2. mgr.process = "running"
    BY <2>1 DEF Idle
  <2> QED BY <1>1, <1>3, <2>1, <2>2, AnswerMoves
<1>6. ASSUME NEW c \in DBusClients, DBusClientStep(c)
      PROVE  Moves(mgr, mgr')
  <2>1. c \in Clients
    BY DEF Clients
  <2>2. CASE RegisterClient(c)
    <3>1. /\ mgr'.phase = mgr.phase /\ mgr'.process = mgr.process
          /\ mgr'.logout_type = mgr.logout_type /\ Idle
      BY <1>1, <2>2 DEF RegisterClient, Running, Good, Manager
    <3> QED BY <1>3, <1>4, <3>1
  <2>3. CASE EndSessionResponse(c)
    BY <1>5, <2>1, <2>3 DEF EndSessionResponse
  <2>4. CASE DisconnectNext(c)
    <3> DEFINE n == RemoveClient(disconnect_client(mgr, c), c)
    <3>1. Going(mgr)
      BY <1>2, <2>4 DEF DisconnectNext
    <3>2. Good(n) /\ Onward(mgr, n)
      BY <1>1, <2>1, <3>1, DisconnectClient, DisconnectGoesOn
    <3>3. mgr' = n \/ mgr' = LastClientCheck(n)
      BY <2>4 DEF DisconnectNext, StartLeaving
    <3> HIDE DEF n
    <3>4. Going(n)
      BY <3>2 DEF Onward
    <3>5. Onward(mgr, mgr')
      BY <3>2, <3>3, <3>4, LastClientGoesOn, OnwardChains
    <3> QED BY <3>5 DEF Moves
  <2> QED BY <1>6, <2>2, <2>3, <2>4 DEF DBusClientStep
<1>7. ASSUME NEW c \in XsmpClients, XsmpClientStep(c)
      PROVE  Moves(mgr, mgr')
  <2>1. c \in Clients
    BY DEF Clients
  <2>2. CASE XsmpConnect(c)
    <3>1. /\ mgr'.phase = mgr.phase /\ mgr'.process = mgr.process
          /\ mgr'.logout_type = mgr.logout_type /\ Idle
      BY <1>1, <2>2 DEF XsmpConnect, Good, Manager
    <3> QED BY <1>3, <1>4, <3>1
  <2>3. CASE XsmpRegister(c)
    <3>1. mgr' = mgr /\ Idle
      BY <2>3 DEF XsmpRegister, Running
    <3> QED BY <1>3, <1>4, <3>1
  <2>4. CASE XsmpDisconnect(c)
    <3> DEFINE n == on_client_disconnected(mgr, c)
    <3>1. \/ mgr' = mgr
          \/ mgr' = n
          \/ mgr' = on_client_disconnected(n, c)
      BY <2>4 DEF XsmpDisconnect
    <3>2. Going(mgr)
      BY <1>3, <2>4 DEF XsmpDisconnect
    <3>3. Good(n) /\ Onward(mgr, n)
      BY <1>1, <2>1, <3>2, ClientDisconnected, DisconnectedGoesOn
    <3> HIDE DEF n
    <3>4. Going(n)
      BY <3>3 DEF Onward
    <3>5. Onward(n, on_client_disconnected(n, c))
      BY <2>1, <3>3, <3>4, DisconnectedGoesOn
    <3>6. Onward(mgr, on_client_disconnected(n, c))
      BY <3>3, <3>5, OnwardChains
    <3>7. CASE mgr' = mgr
      BY <1>4, <3>2, <3>7
    <3> QED BY <3>1, <3>3, <3>6, <3>7 DEF Moves
  <2>5. CASE SaveYourselfDone(c) \/ InteractRequest(c) \/ InteractDone(c) \/ SaveYourselfPhase2Request(c)
    BY <1>5, <2>1, <2>5 DEF SaveYourselfDone, InteractRequest, InteractDone,
                            SaveYourselfPhase2Request
  <2> QED BY <1>7, <2>2, <2>3, <2>4, <2>5 DEF XsmpClientStep
<1>8. ASSUME NEW n, Good(n), Onward(mgr, n), NEW gone, StartLeaving(n, gone)
      PROVE  Moves(mgr, mgr')
  <2>1. mgr' = n \/ mgr' = LastClientCheck(n)
    BY <1>8 DEF StartLeaving
  <2>2. Going(n)
    BY <1>8 DEF Onward
  <2>3. Onward(mgr, mgr')
    BY <1>8, <2>1, <2>2, LastClientGoesOn, OnwardChains
  <2> QED BY <2>3 DEF Moves
<1>9. ASSUME NEW b \in Connections, BusNameLost(b)
      PROVE  Moves(mgr, mgr')
  <2>1. Going(mgr)
    BY <1>3, <1>9 DEF BusNameLost
  <2> QED BY <1>1, <1>8, <1>9, <2>1, RemovingInhibitors, RemovingGoesOn DEF BusNameLost
<1>10. CASE BusDisconnected
  <2> DEFINE cut == [mgr EXCEPT !.dbus_disconnected = TRUE]
  <2>1. Going(mgr)
    BY <1>3, <1>10 DEF BusDisconnected
  <2>2. /\ Good(cut) /\ cut.phase = mgr.phase /\ cut.process = mgr.process
        /\ cut.logout_type = mgr.logout_type
    BY <1>1 DEF Good, Manager, TimersOfPhase, ShutdownState, JitOf, ShuttingDown, WaitLists, ExitIsFinal
  <2>3. StartLeaving(cut, mgr.clients \cap DBusClients)
    BY <1>10 DEF BusDisconnected
  <2> HIDE DEF cut
  <2>4. Onward(mgr, cut)
    BY <1>4, <2>1, <2>2
  <2> QED BY <1>8, <2>2, <2>3, <2>4
<1>11. ASSUME NEW i \in AppInhibitors, Inhibit(i) \/ Uninhibit(i)
       PROVE  Moves(mgr, mgr')
  <2>1. CASE Inhibit(i)
    <3>1. /\ mgr'.phase = mgr.phase /\ mgr'.process = mgr.process
          /\ mgr'.logout_type = mgr.logout_type /\ Idle
      BY <1>1, <2>1 DEF Inhibit, Good, Manager
    <3> QED BY <1>3, <1>4, <3>1
  <2>2. CASE Uninhibit(i)
    <3>1. Going(mgr) /\ mgr' = RemoveInhibitors(mgr, {i})
      BY <1>3, <2>2 DEF Uninhibit
    <3> QED BY <1>1, <3>1, RemovingGoesOn DEF Moves
  <2> QED BY <1>11, <2>1, <2>2
<1>12. CASE QueryTimeout
  <2> DEFINE jit == IF mgr.logout_mode = "FORCE" THEN {}
                    ELSE {JitInhibitor(c) : c \in mgr.query_clients}
             n == [mgr EXCEPT !.query_timeout = FALSE, !.inhibitors = @ \cup jit, !.query_clients = {}]
  <2>1. mgr.phase = "QUERY_END_SESSION" /\ Going(mgr)
    BY <1>1, <1>3, <1>12 DEF QueryTimeout, Good, TimersOfPhase
  <2>2. mgr.query_clients \subseteq mgr.clients /\ mgr.query_clients \subseteq Clients
    BY <1>1, <2>1 DEF Good, WaitLists, Manager
  <2>3. \A i \in jit : i \in Inhibitor /\ i.client \in mgr.clients
    BY <2>2, JitType
  <2> HIDE DEF jit
  <2>4. /\ Good(n) /\ n.phase = mgr.phase /\ n.process = mgr.process
        /\ n.logout_type = mgr.logout_type
    BY <1>1, <2>1, <2>3 DEF Good, Manager, TimersOfPhase, ShutdownState, JitOf, ShuttingDown,
                            WaitLists, ExitIsFinal
  <2>5. mgr' = query_end_session_complete(n)
    BY <1>12 DEF QueryTimeout, n, jit
  <2> HIDE DEF n
  <2>6. Going(n) /\ Onward(mgr, n)
    BY <1>4, <2>1, <2>4
  <2>7. Onward(mgr, mgr')
    BY <2>1, <2>4, <2>5, <2>6, CompleteGoesOn, OnwardChains
  <2> QED BY <2>7 DEF Moves
<1>13. CASE PhaseTimeout
  <2> DEFINE n == [mgr EXCEPT !.phase_timeout = FALSE]
  <2>1. mgr.phase = "END_SESSION" /\ Going(mgr)
    BY <1>1, <1>3, <1>13 DEF PhaseTimeout, Good, TimersOfPhase
  <2>2. /\ MayEndPhase(n) /\ n.phase = mgr.phase /\ n.process = mgr.process
        /\ n.logout_type = mgr.logout_type
    BY <1>1, <2>1 DEF Good, MayEndPhase, Manager, TimersOfPhase, ShutdownState, JitOf, ShuttingDown
  <2>3. mgr' = end_phase(n)
    BY <1>13 DEF PhaseTimeout
  <2> HIDE DEF n
  <2>4. Going(n) /\ Onward(mgr, n)
    BY <1>4, <2>1, <2>2
  <2>5. Onward(mgr, mgr')
    BY <2>1, <2>2, <2>3, <2>4, EndPhaseGoesOn, OnwardChains
  <2> QED BY <2>5 DEF Moves
<1>14. CASE UserStep
  <2> DEFINE normal == [mgr EXCEPT !.logout_mode = "NORMAL"]
  <2>1. /\ normal.phase = mgr.phase /\ normal.process = mgr.process
        /\ normal.logout_type = mgr.logout_type
    BY <1>1 DEF Good, Manager
  <2>2. ASSUME NEW mode \in Modes, Logout(mode)
        PROVE  Moves(mgr, mgr')
    <3>1. /\ Going(mgr) /\ mgr.phase = "RUNNING" /\ "LOGOUT" \in EndActions
          /\ mgr.process = "running"
          /\ (mgr' = normal \/ mgr' = request_logout(mgr, mode))
      BY <1>3, <2>2 DEF Logout, Running, Idle
    <3> HIDE DEF normal
    <3> QED BY <1>1, <1>4, <2>1, <3>1, LogoutMoves
  <2>3. ASSUME NEW type \in EndActions, Request(type)
        PROVE  Moves(mgr, mgr')
    <3>1. /\ Going(mgr) /\ mgr.process = "running" /\ mgr \in Manager
          /\ mgr' = request_end(mgr, type)
      BY <1>1, <1>3, <2>3 DEF Request, Running, Idle, Good
    <3> QED BY <1>1, <3>1, RequestMoves
  <2>4. ASSUME NEW response \in {"ACCEPT", "CANCEL"}, InhibitDialogResponse(response)
        PROVE  Moves(mgr, mgr')
    <3> DEFINE n == [mgr EXCEPT !.inhibit_dialog = NONE]
    <3>1. /\ Going(mgr) /\ mgr.inhibit_dialog # NONE /\ mgr.process = "running"
          /\ mgr' = inhibit_dialog_response(mgr, response)
      BY <1>3, <2>4 DEF InhibitDialogResponse, Idle
    <3>2. CASE response = "ACCEPT"
      BY <1>1, <3>1, <3>2, AcceptGoesOn DEF Moves
    <3>3. CASE response = "CANCEL"
      <4>1. NONE \notin EndActions
        BY ConstantsAssumption DEF NONE
      <4>2. /\ Good(n) /\ n.phase = mgr.phase /\ n.process = mgr.process
            /\ n.logout_type = mgr.logout_type
        BY <1>1, <4>1 DEF Good, Manager, TimersOfPhase, ShutdownState, JitOf, ShuttingDown,
                          WaitLists, ExitIsFinal
      <4>3. mgr' = n \/ mgr' = cancel_end_session(n)
        BY <3>1, <3>3 DEF inhibit_dialog_response
      <4> HIDE DEF n
      <4>4. Moves(mgr, n)
        BY <1>4, <3>1, <4>2
      <4>5. CASE ShuttingDown(n) /\ mgr' = cancel_end_session(n)
        <5>1. cancel_end_session(n).process = n.process
          BY <4>2, <4>5 DEF cancel_end_session, start_running, ResetPhase, ClearPhase, Good, Manager
        <5>2. Returns(mgr, mgr')
          BY <3>1, <4>2, <4>5, <5>1, CancelEndSession DEF Returns, Going, ShuttingDown
        <5> QED BY <5>2 DEF Moves
      <4>6. CASE ~ShuttingDown(n)
        BY <4>3, <4>4, <4>6 DEF cancel_end_session
      <4> QED BY <4>3, <4>4, <4>5, <4>6
    <3> QED BY <3>2, <3>3
  <2>5. CASE Shutdown
    <3>1. Going(mgr) /\ mgr' = normal
      BY <1>3, <2>5 DEF Shutdown, Running
    <3> HIDE DEF normal
    <3> QED BY <1>4, <2>1, <3>1
  <2>6. CASE LogoutDialogResponse
    <3>1. PICK response \in {"CANCEL"} \cup (ButtonsOf(logout_dialog) \cap (EndActions \cup OtherActions)) :
              logout_dialog_response(response)
      BY <2>6 DEF LogoutDialogResponse
    <3>2. Idle /\ Going(mgr) /\ mgr.process = "running"
      BY <1>3, <3>1 DEF logout_dialog_response, Idle
    <3>3. CASE mgr.logout_mode # "NORMAL"
      <4>1. /\ mgr'.process = "aborted" /\ mgr'.phase = mgr.phase
            /\ mgr'.logout_type = mgr.logout_type
        BY <1>1, <3>1, <3>3 DEF logout_dialog_response, Good, Manager
      <4> QED BY <3>2, <4>1 DEF Dies, Moves
    <3>4. CASE mgr.logout_mode = "NORMAL"
      <4>1. /\ response = "CANCEL" \/ response \in EndActions \/ response \in OtherActions
            /\ EndActions \subseteq {"LOGOUT", "REBOOT", "SHUTDOWN"}
            /\ OtherActions \subseteq {"SLEEP", "HIBERNATE", "SWITCH_USER"}
        BY <3>1, ConstantsAssumption
      <4>2. CASE response = "CANCEL"
        <5>1. mgr' = mgr
          BY <3>1, <3>4, <4>2 DEF logout_dialog_response
        <5> QED BY <1>4, <3>2, <5>1
      <4>3. CASE response \in EndActions
        <5>1. \/ mgr' = request_logout(mgr, "NO_CONFIRMATION") /\ response = "LOGOUT"
              \/ mgr' = request_end(mgr, response)
          BY <3>1, <3>4, <4>1, <4>3 DEF logout_dialog_response
        <5>2. mgr \in Manager /\ "NO_CONFIRMATION" \in Modes
          BY <1>1 DEF Good, Modes
        <5> QED BY <1>1, <3>2, <4>3, <5>1, <5>2, LogoutMoves, RequestMoves
      <4>4. CASE response \in OtherActions
        <5>1. mgr' = request_other(mgr, response)
          BY <3>1, <3>4, <4>1, <4>4 DEF logout_dialog_response
        <5>2. /\ mgr'.phase = mgr.phase /\ mgr'.process = mgr.process
              /\ mgr'.logout_type = mgr.logout_type
          BY <1>1, <5>1 DEF request_other, Good, Manager
        <5> QED BY <1>4, <3>2, <5>2
      <4> QED BY <4>1, <4>2, <4>3, <4>4
    <3> QED BY <3>3, <3>4
  <2>7. CASE ToggleLockdown
    <3>1. mgr' = mgr /\ Going(mgr)
      BY <1>3, <2>7 DEF ToggleLockdown
    <3> QED BY <1>4, <3>1
  <2> QED BY <1>14, <2>2, <2>3, <2>4, <2>5, <2>6, <2>7 DEF UserStep
<1> QED BY <1>6, <1>7, <1>9, <1>10, <1>11, <1>12, <1>13, <1>14 DEF Next

\* A process that has quit is in its last phase.
QuitIsExit == mgr.process = "quit" => mgr.phase = "EXIT"

LEMMA QuitIsExitStays == IInv /\ QuitIsExit /\ [Next]_vars => QuitIsExit'
<1> SUFFICES ASSUME IInv, QuitIsExit, [Next]_vars PROVE QuitIsExit'
  OBVIOUS
<1>1. CASE Next
  <2>1. Moves(mgr, mgr')
    BY <1>1, EveryStepMoves DEF QuitIsExit
  <2> QED BY <2>1 DEF Moves, Onward, Redirected, Dies, Returns, Asked, Going, QuitIsExit
<1>2. CASE UNCHANGED vars
  BY <1>2 DEF vars, QuitIsExit
<1> QED BY <1>1, <1>2

\* A manager that takes a step has not failed.
LEMMA StepIsGoing ==
    ASSUME IInv, QuitIsExit, Next
    PROVE  Going(mgr)
<1>1. Idle \/ \E c \in DBusClients : DisconnectNext(c)
  BY DEF Next, DBusClientStep, XsmpClientStep, UserStep, RegisterClient, EndSessionResponse,
         XsmpConnect, XsmpRegister, XsmpDisconnect, SaveYourselfDone, InteractRequest,
         InteractDone, SaveYourselfPhase2Request, Respond, BusNameLost, Inhibit, Uninhibit,
         BusDisconnected, Logout, Request, InhibitDialogResponse, Shutdown,
         LogoutDialogResponse, logout_dialog_response, ToggleLockdown, QueryTimeout,
         PhaseTimeout, Running
<1>2. mgr.process \in {"running", "quit"}
  BY <1>1 DEF Idle, DisconnectNext
<1> QED BY <1>2 DEF IInv, Good, ExitIsFinal, QuitIsExit, Going

\* The stage of a manager that has not failed is that of its phase.
LEMMA StageOfPhase ==
    ASSUME NEW m, Going(m)
    PROVE  /\ m.phase = "RUNNING" => StageOf(m) = "running" /\ EndOf(m) = NONE
           /\ m.phase = "QUERY_END_SESSION" => StageOf(m) = "asking" /\ EndOf(m) = m.logout_type
           /\ m.phase = "END_SESSION" => StageOf(m) = "ending" /\ EndOf(m) = m.logout_type
           /\ m.phase = "EXIT" => StageOf(m) = "over" /\ EndOf(m) = m.logout_type
BY DEF Going, StageOf, EndOf

\* A move is a step of the abstract specification, or nothing to it.
LEMMA MoveIsLifecycleStep ==
    ASSUME Going(mgr), mgr.phase \in Phases, Moves(mgr, mgr')
    PROVE  [Lifecycle!Next]_(Lifecycle!lifecycle)
<1> DEFINE stage == StageOf(mgr)
           end == EndOf(mgr)
           later == StageOf(mgr')
           ends == EndOf(mgr')
           Step == \/ later = stage /\ ends = end
                   \/ \E e \in EndActions : stage = "running" /\ later = "asking" /\ ends = e
                   \/ stage = "asking" /\ later \in {"ending", "over"} /\ ends = end
                   \/ \E e \in EndActions :
                         /\ \/ stage = "asking" /\ later \in {"ending", "over"}
                            \/ stage = "ending" /\ later = "over"
                         /\ ends = e
                   \/ stage \in {"asking", "ending"} /\ later = "running" /\ ends = NONE
                   \/ stage = "ending" /\ later = "over" /\ ends = end
                   \/ stage # "over" /\ later = "failed" /\ ends = end
<1>1. SUFFICES Step
  BY DEF Lifecycle!Next, Lifecycle!Ask, Lifecycle!ChangeOfMind, Lifecycle!Proceed,
         Lifecycle!Cancel, Lifecycle!Finish, Lifecycle!Fail, Lifecycle!lifecycle, Lifecycle!None,
         NONE
<1>2. /\ mgr.phase = "RUNNING" => stage = "running" /\ end = NONE
      /\ mgr.phase = "QUERY_END_SESSION" => stage = "asking" /\ end = mgr.logout_type
      /\ mgr.phase = "END_SESSION" => stage = "ending" /\ end = mgr.logout_type
      /\ mgr.phase = "EXIT" => stage = "over" /\ end = mgr.logout_type
  BY StageOfPhase
<1>3. Going(mgr')
        => /\ mgr'.phase = "RUNNING" => later = "running" /\ ends = NONE
           /\ mgr'.phase = "QUERY_END_SESSION" => later = "asking" /\ ends = mgr'.logout_type
           /\ mgr'.phase = "END_SESSION" => later = "ending" /\ ends = mgr'.logout_type
           /\ mgr'.phase = "EXIT" => later = "over" /\ ends = mgr'.logout_type
  BY StageOfPhase
<1> HIDE DEF stage, end, later, ends
<1>4. CASE Onward(mgr, mgr')
  BY <1>2, <1>3, <1>4 DEF Onward, Phases
<1>5. CASE Dies(mgr, mgr')
  <2>1. later = "failed" /\ ends = end
    BY <1>5 DEF Dies, StageOf, EndOf, later, end, ends
  <2>2. stage # "over"
    BY <1>2, <1>5 DEF Dies, Going, Phases
  <2> QED BY <2>1, <2>2
<1>6. CASE Returns(mgr, mgr')
  <2>1. Going(mgr') /\ mgr'.phase = "RUNNING"
    BY <1>6 DEF Returns, Going
  <2> QED BY <1>2, <1>3, <1>6, <2>1 DEF Returns, Phases
<1>7. ASSUME NEW type \in EndActions, Redirected(mgr, mgr', type)
      PROVE  Step
  BY <1>2, <1>3, <1>7 DEF Redirected
<1>8. ASSUME NEW type \in EndActions, Asked(mgr, mgr', type)
      PROVE  Step
  <2>1. Going(mgr')
    BY <1>8 DEF Asked, Going
  <2> QED BY <1>2, <1>3, <1>8, <2>1 DEF Asked
<1> QED BY <1>4, <1>5, <1>6, <1>7, <1>8 DEF Moves

\* The manager implements what SessionLifecycle promises but for its fairness: the
\* session ends in the order of its phases and in the way that was asked for.
THEOREM LifecycleCorrect == Spec => Lifecycle!Safety
<1>1. Init => Lifecycle!Init /\ QuitIsExit
  BY DEF Init, Lifecycle!Init, Lifecycle!None, QuitIsExit, StageOf, EndOf, NONE
<1>2. IInv /\ QuitIsExit /\ [Next]_vars => [Lifecycle!Next]_(Lifecycle!lifecycle)
  <2> SUFFICES ASSUME IInv, QuitIsExit, [Next]_vars
               PROVE  [Lifecycle!Next]_(Lifecycle!lifecycle)
    OBVIOUS
  <2>1. CASE Next
    <3>1. Going(mgr) /\ Moves(mgr, mgr') /\ mgr.phase \in Phases
      BY <2>1, StepIsGoing, EveryStepMoves DEF QuitIsExit, IInv, Good, Manager
    <3> QED BY <3>1, MoveIsLifecycleStep
  <2>2. CASE UNCHANGED vars
    BY <2>2 DEF vars, Lifecycle!lifecycle, StageOf, EndOf
  <2> QED BY <2>1, <2>2
<1> QED BY <1>1, <1>2, InitIInv, NextIInv, QuitIsExitStays, PTL DEF Spec, Lifecycle!Safety
=============================================================================
