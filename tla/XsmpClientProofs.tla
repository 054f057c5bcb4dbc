-------------------------- MODULE XsmpClientProofs --------------------------
(***************************************************************************)
(* Proofs about XsmpClient, for any number of logouts and checkpoints.     *)
(***************************************************************************)
EXTENDS XsmpClient, TLAPS

States ==
    [current : SaveTypes \cup {Nothing}, next : SaveTypes \cup {Nothing}, sent : Seq(ToClient)]

HasSave(messages) == \E k \in DOMAIN messages : messages[k] \in SaveTypes

HasAnswer(messages) ==
    \E k \in DOMAIN messages : messages[k] \in {"SaveYourselfDone", "Phase2Request"}

\* A save in progress is on its way to the program, or the answer is (answered).
Covered(s, answered) == s.current # Nothing => HasSave(s.sent) \/ answered

Answering == saving \in {"saving", "phase2"} \/ HasAnswer(to_manager)

Session ==
    /\ phase \in {"RUNNING", "QUERY_END_SESSION", "END_SESSION", "EXIT"}
    /\ waiting \in BOOLEAN
    /\ last \in BOOLEAN

Program ==
    /\ to_manager \in Seq(ToManager)
    /\ saving \in {"idle", "saving", "phase2"}
    /\ logouts \in 0..MaxLogouts
    /\ checkpoints \in 0..MaxCheckpoints
    /\ seen \subseteq Complications

Inv ==
    /\ Client \in States
    /\ Session
    /\ Program
    /\ Covered(Client, Answering)

-----------------------------------------------------------------------------
\* Messages that are put at the end of a queue or taken from its head.
LEMMA Sending ==
    ASSUME NEW q \in Seq(ToClient), NEW m \in ToClient
    PROVE  /\ Append(q, m) \in Seq(ToClient)
           /\ HasSave(q) => HasSave(Append(q, m))
           /\ m \in SaveTypes => HasSave(Append(q, m))
<1>1. Append(q, m) \in Seq(ToClient)
  OBVIOUS
<1>2. /\ DOMAIN q = 1..Len(q) /\ Len(q) \in Nat
      /\ DOMAIN Append(q, m) = 1..Len(q) + 1
      /\ \A k \in 1..Len(q) : Append(q, m)[k] = q[k]
      /\ Append(q, m)[Len(q) + 1] = m
  OBVIOUS
<1>3. HasSave(q) => HasSave(Append(q, m))
  BY <1>2 DEF HasSave
<1>4. m \in SaveTypes => HasSave(Append(q, m))
  BY <1>2 DEF HasSave
<1> QED BY <1>1, <1>3, <1>4

\* A queue of messages to the manager keeps its answers when it grows.
LEMMA Answers ==
    ASSUME NEW q \in Seq(ToManager), NEW m \in ToManager
    PROVE  /\ Append(q, m) \in Seq(ToManager)
           /\ HasAnswer(q) => HasAnswer(Append(q, m))
           /\ m \in {"SaveYourselfDone", "Phase2Request"} => HasAnswer(Append(q, m))
<1>1. Append(q, m) \in Seq(ToManager)
  OBVIOUS
<1>2. /\ DOMAIN q = 1..Len(q) /\ Len(q) \in Nat
      /\ DOMAIN Append(q, m) = 1..Len(q) + 1
      /\ \A k \in 1..Len(q) : Append(q, m)[k] = q[k]
      /\ Append(q, m)[Len(q) + 1] = m
  OBVIOUS
<1>3. HasAnswer(q) => HasAnswer(Append(q, m))
  BY <1>2 DEF HasAnswer
<1>4. m \in {"SaveYourselfDone", "Phase2Request"} => HasAnswer(Append(q, m))
  BY <1>2 DEF HasAnswer
<1> QED BY <1>1, <1>3, <1>4

\* Of a queue with a save, the save is at its head or in the rest.
LEMMA Reading ==
    ASSUME NEW q \in Seq(ToClient), q # <<>>
    PROVE  /\ Head(q) \in ToClient
           /\ Tail(q) \in Seq(ToClient)
           /\ HasSave(q) => Head(q) \in SaveTypes \/ HasSave(Tail(q))
<1>1. Head(q) \in ToClient /\ Tail(q) \in Seq(ToClient)
  OBVIOUS
<1>2. /\ Len(q) \in Nat \ {0} /\ DOMAIN q = 1..Len(q) /\ Head(q) = q[1]
      /\ DOMAIN Tail(q) = 1..Len(q) - 1
      /\ \A k \in 1..Len(q) - 1 : Tail(q)[k] = q[k + 1]
  OBVIOUS
<1>3. ASSUME NEW k \in DOMAIN q, q[k] \in SaveTypes, Head(q) \notin SaveTypes
      PROVE  HasSave(Tail(q))
  <2>1. k - 1 \in 1..Len(q) - 1 /\ k - 1 + 1 = k
    BY <1>2, <1>3
  <2> QED BY <1>2, <1>3, <2>1 DEF HasSave
<1> QED BY <1>1, <1>3 DEF HasSave

\* A message that is no answer leaves the answers in the queue.
LEMMA Receiving ==
    ASSUME NEW q \in Seq(ToManager), q # <<>>
    PROVE  /\ Tail(q) \in Seq(ToManager)
           /\ HasAnswer(q) /\ Head(q) = "Checkpoint" => HasAnswer(Tail(q))
<1>1. Tail(q) \in Seq(ToManager)
  OBVIOUS
<1>2. /\ Len(q) \in Nat \ {0} /\ DOMAIN q = 1..Len(q) /\ Head(q) = q[1]
      /\ DOMAIN Tail(q) = 1..Len(q) - 1
      /\ \A k \in 1..Len(q) - 1 : Tail(q)[k] = q[k + 1]
  OBVIOUS
<1>3. ASSUME NEW k \in DOMAIN q, q[k] \in {"SaveYourselfDone", "Phase2Request"},
             Head(q) = "Checkpoint"
      PROVE  HasAnswer(Tail(q))
  <2>1. k - 1 \in 1..Len(q) - 1 /\ k - 1 + 1 = k
    BY <1>2, <1>3
  <2> QED BY <1>2, <1>3, <2>1 DEF HasAnswer
<1> QED BY <1>1, <1>3 DEF HasAnswer

-----------------------------------------------------------------------------
(***************************************************************************)
(* The functions of the client: each keeps what is in progress covered.    *)
(***************************************************************************)
LEMMA SaveYourself ==
    ASSUME NEW s \in States, NEW type \in SaveTypes \cup {Nothing},
           NEW answered \in BOOLEAN, Covered(s, answered)
    PROVE  /\ do_save_yourself(s, type) \in States
           /\ Covered(do_save_yourself(s, type), answered)
<1>1. s.current \in SaveTypes \cup {Nothing} /\ s.next \in SaveTypes \cup {Nothing}
      /\ s.sent \in Seq(ToClient)
  BY DEF States
<1>2. CASE s.next # Nothing
  BY <1>2 DEF do_save_yourself
<1>3. CASE s.next = Nothing /\ s.current # Nothing
  <2>1. do_save_yourself(s, type) = [s EXCEPT !.next = type]
    BY <1>3 DEF do_save_yourself
  <2>2. [s EXCEPT !.next = type] \in States
    BY DEF States
  <2>3. /\ [s EXCEPT !.next = type].current = s.current
        /\ [s EXCEPT !.next = type].sent = s.sent
    BY DEF States
  <2> QED BY <2>1, <2>2, <2>3 DEF Covered
<1>4. CASE s.next = Nothing /\ s.current = Nothing
  <2> DEFINE t == [current |-> type, next |-> Nothing, sent |-> Append(s.sent, type)]
  <2>1. do_save_yourself(s, type) = t
    BY <1>4 DEF do_save_yourself
  <2>2. type \in ToClient
    BY DEF ToClient
  <2>3. /\ Append(s.sent, type) \in Seq(ToClient)
        /\ type \in SaveTypes => HasSave(Append(s.sent, type))
    BY <1>1, <2>2, Sending
  <2>4. t \in States
    BY <2>3 DEF States
  <2>5. Covered(t, answered)
    BY <2>3 DEF Covered
  <2> QED BY <2>1, <2>4, <2>5
<1> QED BY <1>2, <1>3, <1>4

\* Granting a second phase leaves the current save as covered as it was.
LEMMA Phase2 ==
    ASSUME NEW s \in States, NEW answered \in BOOLEAN, Covered(s, answered)
    PROVE  /\ xsmp_save_yourself_phase2(s) \in States
           /\ Covered(xsmp_save_yourself_phase2(s), answered)
<1> DEFINE t == [s EXCEPT !.sent = Append(s.sent, SaveYourselfPhase2)]
<1>1. xsmp_save_yourself_phase2(s) = t
  BY DEF xsmp_save_yourself_phase2
<1>2. s.sent \in Seq(ToClient) /\ SaveYourselfPhase2 \in ToClient
  BY DEF States, ToClient, SaveYourselfPhase2
<1>3. /\ Append(s.sent, SaveYourselfPhase2) \in Seq(ToClient)
      /\ HasSave(s.sent) => HasSave(Append(s.sent, SaveYourselfPhase2))
  BY <1>2, Sending
<1>4. t \in States /\ t.current = s.current /\ t.sent = Append(s.sent, SaveYourselfPhase2)
  BY <1>3 DEF States
<1>5. Covered(t, answered)
  BY <1>3, <1>4 DEF Covered
<1> QED BY <1>1, <1>4, <1>5

\* Cancelling leaves no save in progress.
LEMMA Cancel ==
    ASSUME NEW s \in States, NEW answered \in BOOLEAN
    PROVE  /\ xsmp_cancel_end_session(s) \in States
           /\ Covered(xsmp_cancel_end_session(s), answered)
<1>1. s.sent \in Seq(ToClient) /\ ShutdownCancelled \in ToClient
  BY DEF States, ToClient, ShutdownCancelled
<1>2. Append(s.sent, ShutdownCancelled) \in Seq(ToClient)
  BY <1>1, Sending
<1> QED BY <1>2 DEF xsmp_cancel_end_session, States, Covered

\* The save that was queued is sent when it becomes the current one.
LEMMA Dispatch ==
    ASSUME NEW s \in States, NEW answered \in BOOLEAN, Covered(s, answered)
    PROVE  DispatchNext(s) \in States /\ Covered(DispatchNext(s), answered)
<1> DEFINE t == [s EXCEPT !.next = Nothing]
<1>1. t \in States /\ t.current = s.current /\ t.sent = s.sent
  BY DEF States
<1>2. Covered(t, answered)
  BY <1>1 DEF Covered
<1>3. s.next \in SaveTypes \cup {Nothing}
  BY DEF States
<1> HIDE DEF t
<1>4. /\ do_save_yourself(t, s.next) \in States
      /\ Covered(do_save_yourself(t, s.next), answered)
  BY <1>1, <1>2, <1>3, SaveYourself
<1> QED BY <1>4 DEF DispatchNext, t

\* What a step of the manager has to leave.
Leaves(answered) == Client' \in States /\ Covered(Client', answered)

\* What a handler leaves behind is covered if its last state is.
LEMMA Becoming ==
    ASSUME NEW s \in States, NEW answered \in BOOLEAN, Covered(s, answered), Becomes(s)
    PROVE  Leaves(answered)
<1>1. Client' = s
  BY DEF Client, Becomes, States
<1> QED BY <1>1 DEF Leaves

\* The end of a handler sends the save that is next if the current one is done.
LEMMA Answered ==
    ASSUME NEW s \in States, NEW done \in BOOLEAN, NEW answered \in BOOLEAN,
           Covered(s, answered), AfterAnswer(s, done)
    PROVE  Leaves(answered)
<1>1. CASE done
  <2>1. Becomes(DispatchNext(s))
    BY <1>1 DEF AfterAnswer
  <2> QED BY <2>1, Dispatch, Becoming
<1>2. CASE ~done
  <2>1. Becomes(s)
    BY <1>2 DEF AfterAnswer
  <2> QED BY <2>1, Becoming
<1> QED BY <1>1, <1>2

\* The end-session phase starts with a save that is covered.
LEMMA Entering ==
    ASSUME NEW s \in States, NEW done \in BOOLEAN, NEW answered \in BOOLEAN,
           Covered(s, answered), EntersEndSession(s, done)
    PROVE  Leaves(answered) /\ Session'
<1>1. PICK save \in BOOLEAN : AfterAnswer(xsmp_end_session(s, save), done)
  BY DEF EntersEndSession
<1>2. /\ xsmp_end_session(s, save) \in States
      /\ Covered(xsmp_end_session(s, save), answered)
  <2>1. CASE save
    <3>1. xsmp_end_session(s, save) = do_save_yourself(s, SmSaveBoth)
      BY <2>1 DEF xsmp_end_session
    <3>2. SmSaveBoth \in SaveTypes
      BY DEF SaveTypes
    <3> QED BY <3>1, <3>2, SaveYourself
  <2>2. CASE ~save
    <3>1. xsmp_end_session(s, save) = do_save_yourself(s, SmSaveGlobal)
      BY <2>2 DEF xsmp_end_session
    <3>2. SmSaveGlobal \in SaveTypes
      BY DEF SaveTypes
    <3> QED BY <3>1, <3>2, SaveYourself
  <2> QED BY <2>1, <2>2
<1>3. Leaves(answered)
  BY <1>1, <1>2, Answered
<1>4. Session'
  BY DEF EntersEndSession, Session
<1> QED BY <1>3, <1>4

\* Whatever the manager makes of an answer of the client.
LEMMA Response ==
    ASSUME NEW s \in States, NEW do_last \in BOOLEAN, NEW go_on \in BOOLEAN,
           NEW done \in BOOLEAN, NEW answered \in BOOLEAN,
           Session, Covered(s, answered), response(s, do_last, go_on, done)
    PROVE  Leaves(answered) /\ Session'
<1>1. CASE phase \in {"RUNNING", "EXIT"}
  <2>1. AfterAnswer(s, done) /\ UNCHANGED <<phase, waiting, last>>
    BY <1>1 DEF response
  <2> QED BY <2>1, Answered DEF Session
<1>2. CASE phase = "QUERY_END_SESSION" /\ go_on
  <2>1. EntersEndSession(s, done)
    BY <1>2 DEF response
  <2> QED BY <2>1, Entering
<1>3. CASE phase = "QUERY_END_SESSION" /\ ~go_on
  <2>1. waiting' = FALSE /\ AfterAnswer(s, done) /\ UNCHANGED <<phase, last>>
    BY <1>3 DEF response
  <2> QED BY <2>1, Answered DEF Session
<1>4. CASE phase = "END_SESSION" /\ ~go_on
  <2>1. waiting' = FALSE /\ last' = (last \/ do_last) /\ AfterAnswer(s, done) /\ UNCHANGED phase
    BY <1>4 DEF response
  <2> QED BY <2>1, Answered DEF Session
<1>5. CASE phase = "END_SESSION" /\ go_on /\ (last \/ do_last)
  <2>1. /\ waiting' = TRUE /\ last' = FALSE /\ UNCHANGED phase
        /\ AfterAnswer(xsmp_save_yourself_phase2(s), done)
    BY <1>5 DEF response
  <2>2. Leaves(answered)
    BY <2>1, Phase2, Answered
  <2> QED BY <2>1, <2>2 DEF Session
<1>6. CASE phase = "END_SESSION" /\ go_on /\ ~(last \/ do_last)
  <2>1. phase' = "EXIT" /\ waiting' = FALSE /\ last' = FALSE /\ AfterAnswer(s, done)
    BY <1>6 DEF response
  <2> QED BY <2>1, Answered DEF Session
<1> QED BY <1>1, <1>2, <1>3, <1>4, <1>5, <1>6 DEF Session

-----------------------------------------------------------------------------
\* A first save is on its way when the program has connected.
LEMMA InitInv == Init => Inv
<1> SUFFICES ASSUME Init PROVE Inv
  OBVIOUS
<1>1. Session
  BY DEF Init, Session
<1>2. 0 \in 0..MaxLogouts /\ 0 \in 0..MaxCheckpoints
  BY BoundsAssumption
<1>3. seen \subseteq Complications
  BY DEF Init, Complications
<1>4. <<>> \in Seq(ToManager) /\ <<>> \in Seq(ToClient)
  OBVIOUS
<1>5. Program
  BY <1>2, <1>3, <1>4 DEF Init, Program
<1>6. SmSaveLocal \in SaveTypes /\ SmSaveLocal \in ToClient
  BY DEF SaveTypes, ToClient
<1>7. <<SmSaveLocal>> \in Seq(ToClient) /\ HasSave(<<SmSaveLocal>>)
  BY <1>6 DEF HasSave
<1>8. Client \in States
  BY <1>4, <1>6, <1>7 DEF Init, Client, States
<1>9. Covered(Client, Answering)
  <2>1. CASE current_save_yourself = Nothing
    BY <2>1 DEF Covered, Client
  <2>2. CASE to_client = <<SmSaveLocal>>
    BY <2>2, <1>7 DEF Covered, Client
  <2> QED BY <2>1, <2>2 DEF Init
<1> QED BY <1>1, <1>5, <1>8, <1>9 DEF Inv

\* A message of the program that the manager has read: only "Checkpoint" is none that
\* the client was waiting for.
LEMMA ReceivedType ==
    ASSUME Inv, NEW m \in ToManager, Received(m)
    PROVE  /\ Program'
           /\ m = "Checkpoint" /\ Answering => Answering'
<1>1. /\ to_manager \in Seq(ToManager) /\ to_manager # <<>> /\ Head(to_manager) = m
      /\ to_manager' = Tail(to_manager)
      /\ UNCHANGED <<saving, logouts, checkpoints, seen>>
  BY DEF Inv, Program, Received
<1>2. /\ Tail(to_manager) \in Seq(ToManager)
      /\ HasAnswer(to_manager) /\ m = "Checkpoint" => HasAnswer(Tail(to_manager))
  BY <1>1, Receiving
<1>3. Program'
  BY <1>1, <1>2 DEF Inv, Program
<1>4. m = "Checkpoint" /\ Answering => Answering'
  BY <1>1, <1>2 DEF Answering
<1> QED BY <1>3, <1>4

\* The answer of the program takes the save in progress with it.
LEMMA NotSaving ==
    ASSUME Client \in States, NEW answered
    PROVE  /\ [Client EXCEPT !.current = Nothing] \in States
           /\ Covered([Client EXCEPT !.current = Nothing], answered)
BY DEF States, Covered

\* Each message the manager reads either leaves the answer in the queue or ends the save.
LEMMA ManagerReadsInv ==
    ASSUME Inv, ManagerReads
    PROVE  Inv'
<1> USE DEF ToManager
<1>1. Client \in States /\ Session /\ Answering' \in BOOLEAN
  BY DEF Inv, Answering
<1> DEFINE s == [Client EXCEPT !.current = Nothing]
<1>2. s \in States /\ Covered(s, Answering')
  BY <1>1, NotSaving
<1> HIDE DEF s
<1>3. CASE save_yourself_done_callback
  <2>1. PICK go_on \in BOOLEAN : response(s, FALSE, go_on, TRUE)
    BY <1>3 DEF save_yourself_done_callback, s
  <2>2. Leaves(Answering') /\ Session'
    BY <1>1, <1>2, <2>1, Response
  <2>3. Program'
    BY <1>3, ReceivedType DEF save_yourself_done_callback
  <2> QED BY <2>2, <2>3 DEF Inv, Leaves
<1>4. CASE save_yourself_phase2_request_callback
  <2>1. PICK go_on \in BOOLEAN : response(s, TRUE, go_on, FALSE)
    BY <1>4 DEF save_yourself_phase2_request_callback, s
  <2>2. Leaves(Answering') /\ Session'
    BY <1>1, <1>2, <2>1, Response
  <2>3. Program'
    BY <1>4, ReceivedType DEF save_yourself_phase2_request_callback
  <2> QED BY <2>2, <2>3 DEF Inv, Leaves
<1>5. CASE save_yourself_request_callback
  <2>1. Program' /\ (Answering => Answering')
    BY <1>5, ReceivedType DEF save_yourself_request_callback
  <2>2. Covered(Client, Answering')
    BY <2>1 DEF Inv, Covered
  <2>3. SmSaveLocal \in SaveTypes
    BY DEF SaveTypes
  <2>4. /\ do_save_yourself(Client, SmSaveLocal) \in States
        /\ Covered(do_save_yourself(Client, SmSaveLocal), Answering')
    BY <1>1, <2>2, <2>3, SaveYourself
  <2>5. Leaves(Answering')
    BY <1>1, <1>5, <2>4, Becoming DEF save_yourself_request_callback, StaysPut
  <2>6. Session'
    BY <1>1, <1>5 DEF save_yourself_request_callback, StaysPut, Session
  <2> QED BY <2>1, <2>5, <2>6 DEF Inv, Leaves
<1> QED BY <1>3, <1>4, <1>5 DEF ManagerReads

\* Steps of the manager that no message of this client causes.
Others ==
    QueryEndSession \/ EndSession \/ SecondPhase \/ CancelEndSession \/ PhaseTimeout

\* The steps of the program hand the save on: message, work, answer.
LEMMA OthersInv ==
    ASSUME Inv, Others
    PROVE  Inv'
<1>1. /\ Client \in States /\ Session /\ Program
      /\ Covered(Client, Answering) /\ Answering \in BOOLEAN
  BY DEF Inv, Answering
<1>2. to_manager' = to_manager /\ saving' = saving
  BY DEF Others, QueryEndSession, EndSession, SecondPhase, CancelEndSession, PhaseTimeout
<1>3. Answering' = Answering
  BY <1>2 DEF Answering
<1>4. CASE QueryEndSession
  <2>1. SmSaveGlobal \in SaveTypes
    BY DEF SaveTypes
  <2>2. /\ xsmp_query_end_session(Client) \in States
        /\ Covered(xsmp_query_end_session(Client), Answering)
    BY <1>1, <2>1, SaveYourself DEF xsmp_query_end_session
  <2>3. Leaves(Answering)
    BY <1>1, <1>4, <2>2, Becoming DEF QueryEndSession
  <2>4. Session'
    BY <1>1, <1>4 DEF QueryEndSession, Session
  <2>5. logouts' \in 0..MaxLogouts
    BY <1>1, <1>4, BoundsAssumption DEF QueryEndSession, Program
  <2>6. Program'
    BY <1>1, <1>2, <1>4, <2>5 DEF QueryEndSession, Program
  <2> QED BY <1>3, <2>3, <2>4, <2>6 DEF Inv, Leaves
<1>5. CASE EndSession
  <2>1. Leaves(Answering) /\ Session'
    BY <1>1, <1>5, Entering DEF EndSession
  <2>2. Program'
    BY <1>1, <1>5 DEF EndSession, Program
  <2> QED BY <1>3, <2>1, <2>2 DEF Inv, Leaves
<1>6. CASE SecondPhase
  <2>1. Leaves(Answering)
    BY <1>1, <1>6, Phase2, Becoming DEF SecondPhase
  <2>2. Session'
    BY <1>1, <1>6 DEF SecondPhase, Session
  <2>3. Program'
    BY <1>1, <1>6 DEF SecondPhase, Program
  <2> QED BY <1>3, <2>1, <2>2, <2>3 DEF Inv, Leaves
<1>7. CASE CancelEndSession
  <2>1. Leaves(Answering)
    BY <1>1, <1>7, Cancel, Becoming DEF CancelEndSession
  <2>2. Session'
    BY <1>1, <1>7 DEF CancelEndSession, Session
  <2>3. seen' \subseteq Complications
    BY <1>1, <1>7 DEF CancelEndSession, Program, Complications
  <2>4. Program'
    BY <1>1, <1>7, <2>3 DEF CancelEndSession, Program
  <2> QED BY <1>3, <2>1, <2>2, <2>4 DEF Inv, Leaves
<1>8. CASE PhaseTimeout
  <2>1. Client' = Client
    BY <1>8 DEF PhaseTimeout, Client
  <2>2. Session'
    BY <1>1, <1>8 DEF PhaseTimeout, Session
  <2>3. Program'
    BY <1>1, <1>8 DEF PhaseTimeout, Program
  <2> QED BY <1>1, <1>3, <2>1, <2>2, <2>3 DEF Inv
<1> QED BY <1>4, <1>5, <1>6, <1>7, <1>8 DEF Others

-----------------------------------------------------------------------------
\* The program takes a save off the queue only to work on it.
LEMMA ReadMessageInv ==
    ASSUME Inv, ReadMessage
    PROVE  Inv'
<1>1. /\ Client \in States /\ Session /\ Program
      /\ Covered(Client, Answering)
      /\ to_client \in Seq(ToClient) /\ to_client # <<>>
      /\ saving \in {"idle", "phase2"} /\ to_manager \in Seq(ToManager)
  BY DEF Inv, ReadMessage, Client, States, Program
<1>2. /\ Tail(to_client) \in Seq(ToClient)
      /\ HasSave(to_client) => Head(to_client) \in SaveTypes \/ HasSave(Tail(to_client))
  BY <1>1, Reading
<1>3. /\ current_save_yourself' = current_save_yourself
      /\ next_save_yourself' = next_save_yourself
      /\ to_client' = Tail(to_client)
      /\ UNCHANGED <<phase, waiting, last, logouts, checkpoints, seen>>
  BY DEF ReadMessage, UnchangedManager
<1>4. Client' \in States
  BY <1>1, <1>2, <1>3 DEF Client, States
<1>5. Session'
  BY <1>1, <1>3 DEF Session
<1>6. \/ saving' = "saving" /\ to_manager' = to_manager
      \/ saving' = "idle" /\ to_manager' = Append(to_manager, "SaveYourselfDone")
      \/ saving' = saving /\ to_manager' = to_manager /\ Head(to_client) \notin SaveTypes
  BY DEF ReadMessage
<1>7. /\ Append(to_manager, "SaveYourselfDone") \in Seq(ToManager)
      /\ HasAnswer(Append(to_manager, "SaveYourselfDone"))
  BY <1>1, Answers DEF ToManager
<1>8. to_manager' \in Seq(ToManager) /\ saving' \in {"idle", "saving", "phase2"}
  BY <1>1, <1>6, <1>7
<1>9. Program'
  BY <1>1, <1>3, <1>8 DEF Program
<1>10. \/ Answering'
       \/ Answering' = Answering /\ Head(to_client) \notin SaveTypes
  BY <1>6, <1>7 DEF Answering
<1>11. Covered(Client', Answering')
  <2>1. CASE Answering'
    BY <2>1 DEF Covered
  <2>2. CASE Answering' = Answering /\ Head(to_client) \notin SaveTypes
    BY <1>1, <1>2, <1>3, <2>2 DEF Covered, Client
  <2> QED BY <1>10, <2>1, <2>2
<1> QED BY <1>4, <1>5, <1>9, <1>11 DEF Inv

\* The other steps of the program: each adds a message, and the save it works on
\* ends with an answer.
LEMMA ProgramInv ==
    ASSUME Inv, SaveDone \/ AskPhase2 \/ AskCheckpoint
    PROVE  Inv'
<1>1. Client \in States /\ Session /\ Program /\ Covered(Client, Answering)
  BY DEF Inv
<1>2. Client' = Client /\ UNCHANGED <<phase, waiting, last, logouts>>
  BY DEF SaveDone, AskPhase2, AskCheckpoint, UnchangedManager, Client
<1>3. Session'
  BY <1>1, <1>2 DEF Session
<1>4. PICK m \in ToManager :
          /\ to_manager' = Append(to_manager, m)
          /\ \/ m \in {"SaveYourselfDone", "Phase2Request"}
             \/ saving' = saving
  BY DEF SaveDone, AskPhase2, AskCheckpoint, ToManager
<1>5. /\ Append(to_manager, m) \in Seq(ToManager)
      /\ HasAnswer(to_manager) => HasAnswer(Append(to_manager, m))
      /\ m \in {"SaveYourselfDone", "Phase2Request"} => HasAnswer(Append(to_manager, m))
  BY <1>1, Answers DEF Program
<1>6. Answering => Answering'
  BY <1>4, <1>5 DEF Answering
<1>7. saving' \in {"idle", "saving", "phase2"}
  BY <1>1 DEF SaveDone, AskPhase2, AskCheckpoint, Program
<1>8. checkpoints' \in 0..MaxCheckpoints
  <2>1. checkpoints \in 0..MaxCheckpoints
    BY <1>1 DEF Program
  <2>2. \/ checkpoints' = checkpoints
        \/ checkpoints < MaxCheckpoints /\ checkpoints' = checkpoints + 1
    BY DEF SaveDone, AskPhase2, AskCheckpoint
  <2> QED BY <2>1, <2>2, BoundsAssumption
<1>9. seen' \subseteq Complications
  BY <1>1 DEF SaveDone, AskPhase2, AskCheckpoint, Program, Complications
<1>10. Program'
  BY <1>1, <1>2, <1>4, <1>5, <1>7, <1>8, <1>9 DEF Program
<1>11. Covered(Client', Answering')
  BY <1>1, <1>2, <1>6 DEF Covered
<1> QED BY <1>1, <1>2, <1>3, <1>10, <1>11 DEF Inv

\* The invariant holds in every behaviour.
LEMMA Invariance == Spec => []Inv
<1>1. Inv /\ UNCHANGED vars => Inv'
  BY DEF Inv, vars, Client, States, Session, Program, Covered, Answering
<1>2. Inv /\ [Next]_vars => Inv'
  BY <1>1, ManagerReadsInv, OthersInv, ReadMessageInv, ProgramInv DEF Next, Others
<1> QED BY InitInv, <1>2, PTL DEF Spec

\* Every variable of the client, its program and the queues between them keeps its
\* type, for any number of logouts and checkpoints.
THEOREM XsmpTypeCorrect == Spec => []TypeOK
<1>1. Inv => TypeOK
  BY DEF Inv, Session, Program, Client, States, TypeOK
<1> QED BY Invariance, <1>1, PTL

\* The save that the manager takes for the one in progress (current_save_yourself) is
\* on its way, being made, or answered already, however the messages cross.
THEOREM ProgressCorrect == Spec => []ProgressIsReal
<1>1. Inv => ProgressIsReal
  BY DEF Inv, Covered, Answering, HasSave, HasAnswer, Client, ProgressIsReal, OwesAnswer
<1> QED BY Invariance, <1>1, PTL

-----------------------------------------------------------------------------
(***************************************************************************)
(* One unanswered save at a time, as long as no logout is cancelled and no *)
(* second phase is asked for.  The message sequences are compared by their *)
(* indices: of every kind below there is at most one message in a queue.   *)
(***************************************************************************)
AtMostOne(queue, kinds) ==
    \A i, j \in DOMAIN queue : queue[i] \in kinds /\ queue[j] \in kinds => i = j

HasDone(messages) == \E k \in DOMAIN messages : messages[k] = "SaveYourselfDone"

\* Of client state s: a save that is on its way is the only one, the program does not
\* work on another one or has just answered it (busy), and the manager knows of it.
Single(s, busy) ==
    /\ AtMostOne(s.sent, SaveTypes)
    /\ HasSave(s.sent) => ~busy
    /\ HasSave(s.sent) \/ busy => s.current # Nothing

Busy == saving = "saving" \/ HasDone(to_manager)

Simple == seen \subseteq {"first save", "checkpoint"}

OneAnswer ==
    /\ saving # "phase2"
    /\ \A k \in DOMAIN to_manager : to_manager[k] # "Phase2Request"
    /\ AtMostOne(to_manager, {"SaveYourselfDone"})
    /\ saving = "saving" => ~HasDone(to_manager)

Orderly == Simple => ~last /\ OneAnswer /\ Single(Client, Busy)

\* The first message of one kind in a queue is the only one.
LEMMA FirstOfAKind ==
    ASSUME NEW S, NEW q \in Seq(S), NEW m \in S, NEW kinds
    PROVE  /\ AtMostOne(q, kinds) /\ m \notin kinds => AtMostOne(Append(q, m), kinds)
           /\ (\A k \in DOMAIN q : q[k] \notin kinds) => AtMostOne(Append(q, m), kinds)
           /\ \A k \in DOMAIN Append(q, m) :
                  \/ Append(q, m)[k] = m
                  \/ k \in DOMAIN q /\ Append(q, m)[k] = q[k]
<1>1. /\ DOMAIN q = 1..Len(q) /\ Len(q) \in Nat
      /\ DOMAIN Append(q, m) = 1..Len(q) + 1
      /\ \A k \in 1..Len(q) : Append(q, m)[k] = q[k]
      /\ Append(q, m)[Len(q) + 1] = m
  OBVIOUS
<1>2. \A k \in 1..Len(q) + 1 : k \in 1..Len(q) \/ k = Len(q) + 1
  BY <1>1
<1>3. AtMostOne(q, kinds) /\ m \notin kinds => AtMostOne(Append(q, m), kinds)
  BY <1>1, <1>2 DEF AtMostOne
<1>4. (\A k \in DOMAIN q : q[k] \notin kinds) => AtMostOne(Append(q, m), kinds)
  BY <1>1, <1>2 DEF AtMostOne
<1>5. \A k \in DOMAIN Append(q, m) :
          \/ Append(q, m)[k] = m
          \/ k \in DOMAIN q /\ Append(q, m)[k] = q[k]
  BY <1>1, <1>2
<1> QED BY <1>3, <1>4, <1>5

\* The only message of its kind leaves none behind when it is taken from the head.
LEMMA RestOfAQueue ==
    ASSUME NEW S, NEW q \in Seq(S), q # <<>>, NEW kinds
    PROVE  /\ AtMostOne(q, kinds) => AtMostOne(Tail(q), kinds)
           /\ AtMostOne(q, kinds) /\ Head(q) \in kinds
                  => \A k \in DOMAIN Tail(q) : Tail(q)[k] \notin kinds
           /\ \A k \in DOMAIN Tail(q) : k + 1 \in DOMAIN q /\ Tail(q)[k] = q[k + 1]
           /\ 1 \in DOMAIN q /\ Head(q) = q[1]
<1>1. /\ Len(q) \in Nat \ {0} /\ DOMAIN q = 1..Len(q) /\ Head(q) = q[1]
      /\ DOMAIN Tail(q) = 1..Len(q) - 1
      /\ \A k \in 1..Len(q) - 1 : Tail(q)[k] = q[k + 1]
  OBVIOUS
<1>2. \A k \in DOMAIN Tail(q) : /\ k \in Nat \ {0} /\ k + 1 \in DOMAIN q
                                /\ Tail(q)[k] = q[k + 1]
  BY <1>1
<1>3. AtMostOne(q, kinds) => AtMostOne(Tail(q), kinds)
  <2> SUFFICES ASSUME AtMostOne(q, kinds), NEW i \in DOMAIN Tail(q), NEW j \in DOMAIN Tail(q),
                      Tail(q)[i] \in kinds, Tail(q)[j] \in kinds
               PROVE  i = j
    BY DEF AtMostOne
  <2>1. i + 1 = j + 1
    BY <1>2 DEF AtMostOne
  <2> QED BY <1>2, <2>1
<1>4. ASSUME AtMostOne(q, kinds), Head(q) \in kinds, NEW k \in DOMAIN Tail(q)
      PROVE  Tail(q)[k] \notin kinds
  <2>1. k \in Nat \ {0} /\ k + 1 \in DOMAIN q /\ Tail(q)[k] = q[k + 1]
    BY <1>2
  <2>2. 1 \in DOMAIN q /\ q[1] \in kinds /\ k + 1 # 1
    BY <1>1, <1>4, <2>1
  <2> QED BY <1>4, <2>1, <2>2 DEF AtMostOne
<1>5. 1 \in DOMAIN q /\ Head(q) = q[1]
  BY <1>1
<1> QED BY <1>2, <1>3, <1>4, <1>5

\* A save is sent only when none is in progress.
LEMMA SaveYourselfSingle ==
    ASSUME NEW s \in States, NEW type \in SaveTypes \cup {Nothing},
           NEW busy \in BOOLEAN, Single(s, busy)
    PROVE  Single(do_save_yourself(s, type), busy)
<1>1. CASE s.next # Nothing
  BY <1>1 DEF do_save_yourself
<1>2. CASE s.next = Nothing /\ s.current # Nothing
  <2>1. do_save_yourself(s, type) = [s EXCEPT !.next = type]
    BY <1>2 DEF do_save_yourself
  <2>2. /\ [s EXCEPT !.next = type].current = s.current
        /\ [s EXCEPT !.next = type].sent = s.sent
    BY DEF States
  <2> QED BY <2>1, <2>2 DEF Single
<1>3. CASE s.next = Nothing /\ s.current = Nothing
  <2> DEFINE t == [current |-> type, next |-> Nothing, sent |-> Append(s.sent, type)]
  <2>1. do_save_yourself(s, type) = t
    BY <1>3 DEF do_save_yourself
  <2>2. ~busy /\ ~HasSave(s.sent)
    BY <1>3 DEF Single
  <2>3. s.sent \in Seq(ToClient) /\ type \in ToClient
    BY DEF States, ToClient
  <2>4. AtMostOne(Append(s.sent, type), SaveTypes)
    BY <2>2, <2>3, FirstOfAKind DEF HasSave
  <2>5. HasSave(Append(s.sent, type)) => type \in SaveTypes
    BY <2>2, <2>3, FirstOfAKind DEF HasSave
  <2>6. Nothing \notin SaveTypes
    BY DEF Nothing, SaveTypes, SmSaveGlobal, SmSaveLocal, SmSaveBoth
  <2>7. Single(t, busy)
    BY <2>2, <2>4, <2>5, <2>6 DEF Single
  <2> QED BY <2>1, <2>7
<1> QED BY <1>1, <1>2, <1>3

\* A queued save that is sent at last is as single as one that is sent at once.
LEMMA AnsweredSingle ==
    ASSUME NEW s \in States, NEW done \in BOOLEAN, NEW busy \in BOOLEAN,
           Single(s, busy), AfterAnswer(s, done)
    PROVE  Single(Client', busy)
<1>1. ASSUME NEW t \in States, Becomes(t)
      PROVE  Client' = t
  BY <1>1 DEF Client, Becomes, States
<1>2. DispatchNext(s) \in States /\ Single(DispatchNext(s), busy)
  <2> DEFINE t == [s EXCEPT !.next = Nothing]
  <2>1. t \in States /\ t.current = s.current /\ t.sent = s.sent
    BY DEF States
  <2>2. Single(t, busy)
    BY <2>1 DEF Single
  <2>3. s.next \in SaveTypes \cup {Nothing}
    BY DEF States
  <2>4. Covered(s, TRUE)
    BY DEF Covered
  <2>5. DispatchNext(s) \in States
    BY <2>4, Dispatch
  <2> HIDE DEF t
  <2>6. Single(do_save_yourself(t, s.next), busy)
    BY <2>1, <2>2, <2>3, SaveYourselfSingle
  <2>7. DispatchNext(s) = IF s.next # 0 THEN do_save_yourself(t, s.next) ELSE s
    BY DEF DispatchNext, t
  <2> QED BY <2>5, <2>6, <2>7
<1>3. CASE done
  BY <1>1, <1>2, <1>3 DEF AfterAnswer
<1>4. CASE ~done
  BY <1>1, <1>4 DEF AfterAnswer
<1> QED BY <1>3, <1>4

\* The final save of a logout is asked for, queued or left out.
LEMMA EnteringSingle ==
    ASSUME NEW s \in States, NEW done \in BOOLEAN, NEW busy \in BOOLEAN,
           Single(s, busy), EntersEndSession(s, done)
    PROVE  Single(Client', busy) /\ ~last'
<1>1. PICK save \in BOOLEAN : AfterAnswer(xsmp_end_session(s, save), done)
  BY DEF EntersEndSession
<1>2. PICK type \in SaveTypes : xsmp_end_session(s, save) = do_save_yourself(s, type)
  BY DEF xsmp_end_session, SaveTypes
<1>3. Covered(s, TRUE)
  BY DEF Covered
<1>4. do_save_yourself(s, type) \in States /\ Single(do_save_yourself(s, type), busy)
  BY <1>3, SaveYourself, SaveYourselfSingle
<1>5. Single(Client', busy)
  BY <1>1, <1>2, <1>4, AnsweredSingle
<1> QED BY <1>5 DEF EntersEndSession

\* An answer that asks for no second phase is followed by one save at most.
LEMMA ResponseSingle ==
    ASSUME NEW s \in States, NEW go_on \in BOOLEAN, NEW busy \in BOOLEAN,
           Session, ~last, Single(s, busy), response(s, FALSE, go_on, TRUE)
    PROVE  Single(Client', busy) /\ ~last'
<1>1. CASE phase \in {"RUNNING", "EXIT"}
  <2>1. AfterAnswer(s, TRUE) /\ UNCHANGED last
    BY <1>1 DEF response
  <2> QED BY <2>1, AnsweredSingle
<1>2. CASE phase = "QUERY_END_SESSION" /\ go_on
  <2>1. EntersEndSession(s, TRUE)
    BY <1>2 DEF response
  <2> QED BY <2>1, EnteringSingle
<1>3. CASE phase = "QUERY_END_SESSION" /\ ~go_on
  <2>1. AfterAnswer(s, TRUE) /\ UNCHANGED last
    BY <1>3 DEF response
  <2> QED BY <2>1, AnsweredSingle
<1>4. CASE phase = "END_SESSION" /\ ~go_on
  <2>1. AfterAnswer(s, TRUE) /\ last' = (last \/ FALSE)
    BY <1>4 DEF response
  <2> QED BY <2>1, AnsweredSingle
<1>5. CASE phase = "END_SESSION" /\ go_on
  <2>1. AfterAnswer(s, TRUE) /\ last' = FALSE
    BY <1>5 DEF response
  <2> QED BY <2>1, AnsweredSingle
<1> QED BY <1>1, <1>2, <1>3, <1>4, <1>5 DEF Session

\* The first save of a new client is the only one.
LEMMA InitOrderly == Init => Orderly
<1> SUFFICES ASSUME Init PROVE Orderly
  OBVIOUS
<1>1. ~last /\ saving = "idle" /\ to_manager = <<>>
  BY DEF Init
<1>2. OneAnswer /\ ~Busy
  BY <1>1 DEF OneAnswer, AtMostOne, Busy, HasDone
<1>3. CASE current_save_yourself = SmSaveLocal /\ to_client = <<SmSaveLocal>>
  <2>1. DOMAIN to_client = {1}
    BY <1>3
  <2>2. SmSaveLocal # Nothing
    BY DEF SmSaveLocal, Nothing
  <2> QED BY <1>1, <1>2, <1>3, <2>1, <2>2 DEF Orderly, Single, AtMostOne, Client
<1>4. CASE current_save_yourself = Nothing /\ to_client = <<>>
  BY <1>1, <1>2, <1>4 DEF Orderly, Single, AtMostOne, HasSave, Client
<1> QED BY <1>3, <1>4 DEF Init

\* The only answer in the queue ends the only save.
LEMMA ManagerReadsOrderly ==
    ASSUME Inv, Orderly, Simple', ManagerReads
    PROVE  Orderly'
<1>1. /\ Client \in States /\ Session
      /\ to_manager \in Seq(ToManager)
      /\ to_manager # <<>> /\ to_manager' = Tail(to_manager)
      /\ saving' = saving /\ seen' = seen
  BY DEF Inv, Program, ManagerReads, save_yourself_done_callback, Received,
         save_yourself_phase2_request_callback, save_yourself_request_callback
<1>2. ~last /\ OneAnswer /\ Single(Client, Busy)
  BY <1>1 DEF Orderly, Simple
<1>3. /\ AtMostOne(to_manager, {"SaveYourselfDone"})
             => AtMostOne(Tail(to_manager), {"SaveYourselfDone"})
      /\ AtMostOne(to_manager, {"SaveYourselfDone"}) /\ Head(to_manager) = "SaveYourselfDone"
             => ~HasDone(Tail(to_manager))
      /\ \A k \in DOMAIN Tail(to_manager) :
             k + 1 \in DOMAIN to_manager /\ Tail(to_manager)[k] = to_manager[k + 1]
      /\ 1 \in DOMAIN to_manager /\ Head(to_manager) = to_manager[1]
  BY <1>1, RestOfAQueue DEF HasDone
<1>4. HasDone(to_manager') => HasDone(to_manager)
  BY <1>1, <1>3 DEF HasDone
<1>5. OneAnswer'
  <2>1. \A k \in DOMAIN to_manager' : to_manager'[k] # "Phase2Request"
    BY <1>1, <1>2, <1>3 DEF OneAnswer
  <2>2. AtMostOne(to_manager, {"SaveYourselfDone"})'
    BY <1>1, <1>2, <1>3 DEF OneAnswer, AtMostOne
  <2> QED BY <1>1, <1>2, <1>4, <2>1, <2>2 DEF OneAnswer, HasDone
<1>6. CASE save_yourself_done_callback
  <2> DEFINE s == [Client EXCEPT !.current = Nothing]
  <2>1. PICK go_on \in BOOLEAN : response(s, FALSE, go_on, TRUE)
    BY <1>6 DEF save_yourself_done_callback
  <2>2. s \in States /\ s.sent = Client.sent
    BY <1>1 DEF States
  <2>3. Head(to_manager) = "SaveYourselfDone"
    BY <1>6 DEF save_yourself_done_callback, Received
  <2>4. HasDone(to_manager)
    BY <1>3, <2>3 DEF HasDone
  <2>5. saving # "saving" /\ ~HasSave(Client.sent)
    BY <1>2, <2>4 DEF OneAnswer, Single, Busy
  <2>6. ~Busy'
    BY <1>1, <1>2, <1>3, <2>3, <2>5 DEF Busy, OneAnswer, HasDone
  <2>7. Single(s, FALSE)
    BY <1>2, <2>2, <2>5 DEF Single
  <2> HIDE DEF s
  <2>8. Single(Client', FALSE) /\ ~last'
    BY <1>1, <1>2, <2>1, <2>2, <2>7, ResponseSingle
  <2>9. Single(Client', Busy')
    BY <2>6, <2>8 DEF Single
  <2> QED BY <1>5, <2>8, <2>9 DEF Orderly
<1>7. CASE save_yourself_phase2_request_callback
  <2>1. to_manager[1] = "Phase2Request"
    BY <1>3, <1>7 DEF save_yourself_phase2_request_callback, Received
  <2> QED BY <1>2, <1>3, <2>1 DEF OneAnswer
<1>8. CASE save_yourself_request_callback
  <2>1. Client' = do_save_yourself(Client, SmSaveLocal) /\ last' = last
    <3>1. Becomes(do_save_yourself(Client, SmSaveLocal)) /\ last' = last
      BY <1>8 DEF save_yourself_request_callback, StaysPut
    <3>2. Covered(Client, TRUE) /\ SmSaveLocal \in SaveTypes
      BY DEF Covered, SaveTypes
    <3>3. do_save_yourself(Client, SmSaveLocal) \in States
      BY <1>1, <3>2, SaveYourself
    <3> QED BY <3>1, <3>3 DEF Client, Becomes, States
  <2>2. Busy \in BOOLEAN /\ Busy' \in BOOLEAN /\ (Busy' => Busy)
    BY <1>1, <1>4 DEF Busy
  <2>3. Single(Client, Busy')
    BY <1>2, <2>2 DEF Single
  <2>4. SmSaveLocal \in SaveTypes
    BY DEF SaveTypes
  <2>5. Single(Client', Busy')
    BY <1>1, <2>1, <2>2, <2>3, <2>4, SaveYourselfSingle
  <2> QED BY <1>2, <1>5, <2>1, <2>5 DEF Orderly
<1> QED BY <1>6, <1>7, <1>8 DEF ManagerReads

\* The manager's own steps send a save only when none is in progress.
LEMMA OthersOrderly ==
    ASSUME Inv, Orderly, Simple', Others
    PROVE  Orderly'
<1>1. /\ Client \in States /\ to_manager' = to_manager /\ saving' = saving
      /\ seen \subseteq seen'
  BY DEF Inv, Others, QueryEndSession, EndSession, SecondPhase, CancelEndSession, PhaseTimeout
<1>2. ~last /\ OneAnswer /\ Single(Client, Busy)
  BY <1>1 DEF Orderly, Simple
<1>3. OneAnswer' /\ Busy' = Busy /\ Busy \in BOOLEAN
  BY <1>1, <1>2 DEF OneAnswer, Busy, HasDone, AtMostOne
<1>4. CASE QueryEndSession
  <2>1. Becomes(do_save_yourself(Client, SmSaveGlobal)) /\ last' = last
    BY <1>4 DEF QueryEndSession, xsmp_query_end_session
  <2>2. SmSaveGlobal \in SaveTypes /\ Covered(Client, TRUE)
    BY DEF SaveTypes, Covered
  <2>3. /\ do_save_yourself(Client, SmSaveGlobal) \in States
        /\ Single(do_save_yourself(Client, SmSaveGlobal), Busy)
    BY <1>1, <1>2, <1>3, <2>2, SaveYourself, SaveYourselfSingle
  <2>4. Client' = do_save_yourself(Client, SmSaveGlobal)
    BY <2>1, <2>3 DEF Client, Becomes, States
  <2> QED BY <1>2, <1>3, <2>1, <2>3, <2>4 DEF Orderly
<1>5. CASE EndSession
  BY <1>1, <1>2, <1>3, <1>5, EnteringSingle DEF EndSession, Orderly
<1>6. CASE SecondPhase
  BY <1>2, <1>6 DEF SecondPhase
<1>7. CASE CancelEndSession
  BY <1>7 DEF CancelEndSession, Simple
<1>8. CASE PhaseTimeout
  <2>1. Client' = Client /\ ~last'
    BY <1>8 DEF PhaseTimeout, Client
  <2> QED BY <1>2, <1>3, <2>1 DEF Orderly
<1> QED BY <1>4, <1>5, <1>6, <1>7, <1>8 DEF Others

\* The program takes the only save off the queue and works on it.
LEMMA ReadMessageOrderly ==
    ASSUME Inv, Orderly, Simple', ReadMessage
    PROVE  Orderly'
<1>1. /\ to_client \in Seq(ToClient) /\ to_client # <<>>
      /\ to_client' = Tail(to_client)
      /\ UNCHANGED <<current_save_yourself, next_save_yourself, last, seen>>
  BY DEF Inv, Client, States, ReadMessage, UnchangedManager
<1>2. ~last /\ OneAnswer /\ Single(Client, Busy)
  BY <1>1 DEF Orderly, Simple
<1>3. /\ AtMostOne(to_client, SaveTypes) => AtMostOne(Tail(to_client), SaveTypes)
      /\ AtMostOne(to_client, SaveTypes) /\ Head(to_client) \in SaveTypes
             => ~HasSave(Tail(to_client))
      /\ HasSave(Tail(to_client)) => HasSave(to_client)
      /\ Head(to_client) \in SaveTypes => HasSave(to_client)
  BY <1>1, RestOfAQueue DEF HasSave
<1>4. saving = "idle" /\ to_manager' = to_manager
  BY <1>2 DEF OneAnswer, ReadMessage
<1>5. \/ saving' = "saving" /\ Head(to_client) \in SaveTypes
      \/ saving' = saving
  BY <1>4 DEF ReadMessage
<1>6. AtMostOne(to_client, SaveTypes) /\ AtMostOne(Tail(to_client), SaveTypes)
  BY <1>2, <1>3 DEF Single, Client
<1>7. CASE saving' = "saving" /\ Head(to_client) \in SaveTypes
  <2>1. HasSave(to_client) /\ ~HasSave(Tail(to_client))
    BY <1>3, <1>6, <1>7
  <2>2. ~Busy /\ current_save_yourself # Nothing
    BY <1>2, <2>1 DEF Single, Client
  <2>3. ~HasDone(to_manager)
    BY <2>2 DEF Busy
  <2>4. OneAnswer'
    BY <1>2, <1>4, <1>7, <2>3 DEF OneAnswer, HasDone, AtMostOne
  <2>5. Client'.sent = Tail(to_client) /\ Client'.current = current_save_yourself
    BY <1>1 DEF Client
  <2>6. Single(Client', Busy')
    BY <1>6, <2>1, <2>2, <2>5 DEF Single
  <2> QED BY <1>1, <1>2, <2>4, <2>6 DEF Orderly
<1>8. CASE saving' = saving
  <2>1. OneAnswer' /\ Busy' = Busy
    BY <1>2, <1>4, <1>8 DEF OneAnswer, Busy, HasDone, AtMostOne
  <2>2. Client'.sent = Tail(to_client) /\ Client'.current = Client.current
        /\ Client.sent = to_client
    BY <1>1 DEF Client
  <2>3. Single(Client', Busy')
    BY <1>2, <1>3, <1>6, <2>1, <2>2 DEF Single
  <2> QED BY <1>1, <1>2, <2>1, <2>3 DEF Orderly
<1> QED BY <1>5, <1>7, <1>8

\* The program answers the only save once.
LEMMA ProgramOrderly ==
    ASSUME Inv, Orderly, Simple', SaveDone \/ AskPhase2 \/ AskCheckpoint
    PROVE  Orderly'
<1>1. /\ to_manager \in Seq(ToManager) /\ Client' = Client /\ last' = last
      /\ seen \subseteq seen'
  BY DEF Inv, Program, SaveDone, AskPhase2, AskCheckpoint, UnchangedManager, Client
<1>2. ~last /\ OneAnswer /\ Single(Client, Busy)
  BY <1>1 DEF Orderly, Simple
<1>3. CASE SaveDone
  <2>1. /\ saving = "saving" /\ saving' = "idle"
        /\ to_manager' = Append(to_manager, "SaveYourselfDone")
    BY <1>3 DEF SaveDone
  <2>2. ~HasDone(to_manager) /\ "SaveYourselfDone" \in ToManager
    BY <1>2, <2>1 DEF OneAnswer, ToManager
  <2>3. /\ AtMostOne(to_manager', {"SaveYourselfDone"})
        /\ \A k \in DOMAIN to_manager' :
               \/ to_manager'[k] = "SaveYourselfDone"
               \/ k \in DOMAIN to_manager /\ to_manager'[k] = to_manager[k]
    BY <1>1, <2>1, <2>2, FirstOfAKind DEF HasDone
  <2>4. OneAnswer'
    <3>1. \A k \in DOMAIN to_manager' : to_manager'[k] # "Phase2Request"
      BY <1>2, <2>3 DEF OneAnswer
    <3>2. AtMostOne(to_manager, {"SaveYourselfDone"})'
      BY <2>3 DEF AtMostOne
    <3> QED BY <2>1, <3>1, <3>2 DEF OneAnswer
  <2>5. Busy
    BY <2>1 DEF Busy
  <2>6. Single(Client', Busy')
    BY <1>1, <1>2, <2>5 DEF Single
  <2> QED BY <1>1, <1>2, <2>4, <2>6 DEF Orderly
<1>4. CASE AskPhase2
  BY <1>4 DEF AskPhase2, Simple
<1>5. CASE AskCheckpoint
  <2>1. saving' = saving /\ to_manager' = Append(to_manager, "Checkpoint")
        /\ "Checkpoint" \in ToManager /\ "Checkpoint" \notin {"SaveYourselfDone"}
    BY <1>5 DEF AskCheckpoint, ToManager
  <2>2. /\ AtMostOne(to_manager', {"SaveYourselfDone"})
        /\ \A k \in DOMAIN to_manager' :
               \/ to_manager'[k] = "Checkpoint"
               \/ k \in DOMAIN to_manager /\ to_manager'[k] = to_manager[k]
    BY <1>1, <1>2, <2>1, FirstOfAKind DEF OneAnswer
  <2>3. HasDone(to_manager') => HasDone(to_manager)
    BY <2>2 DEF HasDone
  <2>4. OneAnswer'
    <3>1. \A k \in DOMAIN to_manager' : to_manager'[k] # "Phase2Request"
      BY <1>2, <2>2 DEF OneAnswer
    <3>2. AtMostOne(to_manager, {"SaveYourselfDone"})'
      BY <2>2 DEF AtMostOne
    <3>3. HasDone(to_manager)' => HasDone(to_manager)
      BY <2>3 DEF HasDone
    <3> QED BY <1>2, <2>1, <3>1, <3>2, <3>3 DEF OneAnswer
  <2>5. Busy' => Busy
    BY <2>1, <2>3 DEF Busy, HasDone
  <2>6. Single(Client', Busy')
    BY <1>1, <1>2, <2>5 DEF Single
  <2> QED BY <1>1, <1>2, <2>4, <2>6 DEF Orderly
<1> QED BY <1>3, <1>4, <1>5

\* As long as no logout is cancelled and no second phase is asked for, a program has
\* at most one save that it has not answered: no second one is on its way to it, nor
\* any while it works on one.
THEOREM OverlapCorrect == Spec => []SavesDoNotOverlap
<1>1. Orderly /\ UNCHANGED vars => Orderly'
  <2> SUFFICES ASSUME Orderly, UNCHANGED vars PROVE Orderly'
    OBVIOUS
  <2>1. Client' = Client /\ Busy' = Busy /\ Simple' = Simple /\ last' = last
    BY DEF vars, Client, Busy, Simple, HasDone
  <2>2. OneAnswer' = OneAnswer
    BY DEF vars, OneAnswer, HasDone, AtMostOne
  <2> QED BY <2>1, <2>2 DEF Orderly
<1>2. ~Simple' => Orderly'
  BY DEF Orderly
<1>3. Inv /\ Orderly /\ [Next]_vars => Orderly'
  BY <1>1, <1>2, ManagerReadsOrderly, OthersOrderly, ReadMessageOrderly, ProgramOrderly
  DEF Next, Others
<1>4. Inv /\ Orderly => SavesDoNotOverlap
  <2> SUFFICES ASSUME Inv, Orderly, Simple, NEW i \in DOMAIN to_client, NEW j \in DOMAIN to_client,
                      to_client[i] \in SaveTypes, to_client[j] \in SaveTypes
               PROVE  i = j /\ saving = "idle"
    BY DEF SavesDoNotOverlap, Simple
  <2>1. OneAnswer /\ Single(Client, Busy) /\ HasSave(to_client) /\ Client.sent = to_client
    BY DEF Orderly, HasSave, Client
  <2>2. ~Busy /\ AtMostOne(to_client, SaveTypes)
    BY <2>1 DEF Single
  <2>3. i = j
    BY <2>2 DEF AtMostOne
  <2>4. saving \in {"idle", "saving", "phase2"} /\ saving # "phase2" /\ saving # "saving"
    BY <2>1, <2>2 DEF OneAnswer, Busy, Inv, Program
  <2> QED BY <2>3, <2>4
<1> QED BY Invariance, InitOrderly, <1>3, <1>4, PTL DEF Spec

=============================================================================
