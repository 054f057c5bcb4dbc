------------------------------ MODULE XsmpClient ------------------------------
(***************************************************************************)
(* The SaveYourself state machine of one XSMP client                       *)
(* (mate-session/gsm-xsmp-client.c), between the manager that asks for     *)
(* saves and the program at the other end of the ICE connection.           *)
(*                                                                         *)
(* Messages cross each other: both directions of the connection are FIFO   *)
(* queues, and a handler sends without waiting.  The session around the    *)
(* client is reduced to its phase and to whether the manager waits for     *)
(* this client; what the other clients answer shows up as the freedom of   *)
(* the manager to go on.                                                   *)
(***************************************************************************)
EXTENDS Integers, Sequences

CONSTANTS
    MaxLogouts,       \* bound on the logouts that are started
    MaxCheckpoints    \* bound on the checkpoints the program asks for

ASSUME BoundsAssumption ==
    /\ MaxLogouts \in Nat
    /\ MaxCheckpoints \in Nat

SmSaveGlobal == 0
SmSaveLocal == 1
SmSaveBoth == 2
SaveTypes == {SmSaveGlobal, SmSaveLocal, SmSaveBoth}
Nothing == -1     \* no save in progress, no save queued

VARIABLES
    current_save_yourself, next_save_yourself,
    phase,            \* of the manager
    waiting,          \* the client is on the manager's query_clients
    last,             \* the client is on the manager's next_query_clients
    to_client,        \* what the manager sent: saves, "Phase2", "Cancelled"
    to_manager,       \* what the program sent
    saving,           \* what the program does about the save it was asked for
    logouts, checkpoints,
    seen              \* history: what has happened beyond queries and final saves

vars == <<current_save_yourself, next_save_yourself, phase, waiting, last,
          to_client, to_manager, saving, logouts, checkpoints, seen>>

ToClient == SaveTypes \cup {Nothing, 3, 4}
SaveYourselfPhase2 == 3
ShutdownCancelled == 4
ToManager == {"SaveYourselfDone", "Phase2Request", "Checkpoint"}
Complications == {"first save", "checkpoint", "second phase", "cancellation"}

TypeOK ==
    /\ current_save_yourself \in SaveTypes \cup {Nothing}
    /\ next_save_yourself \in SaveTypes \cup {Nothing}
    /\ phase \in {"RUNNING", "QUERY_END_SESSION", "END_SESSION", "EXIT"}
    /\ waiting \in BOOLEAN
    /\ last \in BOOLEAN
    /\ to_client \in Seq(ToClient)
    /\ to_manager \in Seq(ToManager)
    /\ saving \in {"idle", "saving", "phase2"}
    /\ logouts \in 0..MaxLogouts
    /\ checkpoints \in 0..MaxCheckpoints
    /\ seen \subseteq Complications

\* The client has just been registered: with a new id it has been sent its first
\* SaveYourself, with the id of an earlier session it has not.
Init ==
    /\ \/ /\ current_save_yourself = SmSaveLocal
          /\ to_client = <<SmSaveLocal>>
          /\ seen = {"first save"}
       \/ /\ current_save_yourself = Nothing
          /\ to_client = <<>>
          /\ seen = {}
    /\ next_save_yourself = Nothing
    /\ phase = "RUNNING"
    /\ waiting = FALSE
    /\ last = FALSE
    /\ to_manager = <<>>
    /\ saving = "idle"
    /\ logouts = 0
    /\ checkpoints = 0

-----------------------------------------------------------------------------
(***************************************************************************)
(* The state of the client as its C functions pass it on: the save in      *)
(* progress, the queued one, and what has been sent.                       *)
(***************************************************************************)
Client == [current |-> current_save_yourself, next |-> next_save_yourself, sent |-> to_client]

\* Fault: a save is sent although one is in progress.
SaveWithoutQueue(s, save_type) ==
    [current |-> save_type, next |-> Nothing, sent |-> Append(s.sent, save_type)]

do_save_yourself(s, save_type) ==
    CASE s.next # Nothing -> s
      [] s.next = Nothing /\ s.current # Nothing -> [s EXCEPT !.next = save_type]
      [] s.next = Nothing /\ s.current = Nothing ->
             [current |-> save_type, next |-> Nothing, sent |-> Append(s.sent, save_type)]

Becomes(s) ==
    /\ current_save_yourself' = s.current
    /\ next_save_yourself' = s.next
    /\ to_client' = s.sent

xsmp_query_end_session(s) == do_save_yourself(s, SmSaveGlobal)

\* Without a second phase: SmSaveBoth with auto-save-session, else SmSaveGlobal.
xsmp_end_session(s, save) == do_save_yourself(s, IF save THEN SmSaveBoth ELSE SmSaveGlobal)

\* Fault: the second phase goes the way of the first.
Phase2IsASave(s) == do_save_yourself(s, SaveYourselfPhase2)

xsmp_save_yourself_phase2(s) == [s EXCEPT !.sent = Append(@, SaveYourselfPhase2)]

\* Fault: the queue survives the cancellation.
CancelKeepsQueue(s) ==
    [s EXCEPT !.current = Nothing, !.sent = Append(@, ShutdownCancelled)]

xsmp_cancel_end_session(s) ==
    [current |-> Nothing, next |-> Nothing, sent |-> Append(s.sent, ShutdownCancelled)]

(***************************************************************************)
(* What the manager makes of an answer: it is off the list, and if it was  *)
(* the last one the manager goes on inside the call: from the query to the *)
(* end of the session, where every client is asked again, from there to a  *)
(* second phase if somebody asked for one, or to the exit.  go_on says     *)
(* whether the other clients have answered, save whether sessions are      *)
(* saved on exit.                                                          *)
(***************************************************************************)
StaysPut(s) == Becomes(s) /\ UNCHANGED <<phase, waiting, last>>

\* The C condition on the queued save is "not 0": SmSaveGlobal counts as nothing
\* queued, and nothing queued (-1) as a save.
DispatchNext(s) ==
    IF s.next # 0 THEN do_save_yourself([s EXCEPT !.next = Nothing], s.next) ELSE s

\* After an answer to a save (done), the queued save follows whatever the manager did.
AfterAnswer(s, done) == Becomes(IF done THEN DispatchNext(s) ELSE s)

EntersEndSession(s, done) ==
    /\ phase' = "END_SESSION"
    /\ waiting' = TRUE
    /\ last' = FALSE
    /\ \E save \in BOOLEAN : AfterAnswer(xsmp_end_session(s, save), done)

response(s, do_last, go_on, done) ==
    CASE phase \in {"RUNNING", "EXIT"} -> AfterAnswer(s, done) /\ UNCHANGED <<phase, waiting, last>>
      [] phase = "QUERY_END_SESSION" /\ go_on -> EntersEndSession(s, done)
      [] phase = "QUERY_END_SESSION" /\ ~go_on ->
             waiting' = FALSE /\ AfterAnswer(s, done) /\ UNCHANGED <<phase, last>>
      [] phase = "END_SESSION" /\ ~go_on ->
             waiting' = FALSE /\ last' = (last \/ do_last) /\ AfterAnswer(s, done) /\ UNCHANGED phase
      [] phase = "END_SESSION" /\ go_on /\ (last \/ do_last) ->
             /\ waiting' = TRUE
             /\ last' = FALSE
             /\ AfterAnswer(xsmp_save_yourself_phase2(s), done)
             /\ UNCHANGED phase
      [] phase = "END_SESSION" /\ go_on /\ ~(last \/ do_last) ->
             /\ phase' = "EXIT"
             /\ waiting' = FALSE
             /\ last' = FALSE
             /\ AfterAnswer(s, done)

-----------------------------------------------------------------------------
(***************************************************************************)
(* Messages of the program.                                                *)
(***************************************************************************)
Received(message) ==
    /\ to_manager # <<>>
    /\ Head(to_manager) = message
    /\ to_manager' = Tail(to_manager)
    /\ UNCHANGED <<saving, logouts, checkpoints, seen>>

\* Fault: the save that is done stays in progress.
DoneKeepsCurrent ==
    /\ Received("SaveYourselfDone")
    /\ \E go_on \in BOOLEAN : response(Client, FALSE, go_on, TRUE)

save_yourself_done_callback ==
    /\ Received("SaveYourselfDone")
    /\ \E go_on \in BOOLEAN :
         response([Client EXCEPT !.current = Nothing], FALSE, go_on, TRUE)

save_yourself_phase2_request_callback ==
    /\ Received("Phase2Request")
    /\ \E go_on \in BOOLEAN :
         response([Client EXCEPT !.current = Nothing], TRUE, go_on, FALSE)

\* Only a checkpoint of the program itself; the other requests change nothing here.
save_yourself_request_callback ==
    /\ Received("Checkpoint")
    /\ StaysPut(do_save_yourself(Client, SmSaveLocal))

(***************************************************************************)
(* Steps of the manager that other clients, timers and the user cause.     *)
(***************************************************************************)
QueryEndSession ==
    /\ phase = "RUNNING"
    /\ logouts < MaxLogouts
    /\ logouts' = logouts + 1
    /\ phase' = "QUERY_END_SESSION"
    /\ waiting' = TRUE
    /\ Becomes(xsmp_query_end_session(Client))
    /\ UNCHANGED <<last, to_manager, saving, checkpoints, seen>>

\* The query is over for another reason than an answer of this client.
EndSession ==
    /\ phase = "QUERY_END_SESSION"
    /\ EntersEndSession(Client, FALSE)
    /\ UNCHANGED <<to_manager, saving, logouts, checkpoints, seen>>

\* The last of the other clients answers after this one asked to be last.
SecondPhase ==
    /\ phase = "END_SESSION"
    /\ ~waiting
    /\ last
    /\ last' = FALSE
    /\ waiting' = TRUE
    /\ Becomes(xsmp_save_yourself_phase2(Client))
    /\ UNCHANGED <<phase, to_manager, saving, logouts, checkpoints, seen>>

CancelEndSession ==
    /\ phase \in {"QUERY_END_SESSION", "END_SESSION"}
    /\ phase' = "RUNNING"
    /\ waiting' = FALSE
    /\ last' = FALSE
    /\ Becomes(xsmp_cancel_end_session(Client))
    /\ seen' = seen \cup {"cancellation"}
    /\ UNCHANGED <<to_manager, saving, logouts, checkpoints>>

\* The thirty seconds of the phase are over.
PhaseTimeout ==
    /\ phase = "END_SESSION"
    /\ phase' = "EXIT"
    /\ waiting' = FALSE
    /\ last' = FALSE
    /\ UNCHANGED <<current_save_yourself, next_save_yourself, to_client, to_manager, saving,
                   logouts, checkpoints, seen>>

-----------------------------------------------------------------------------
(***************************************************************************)
(* The program: libSM and the toolkit behind it.  It saves when asked,     *)
(* answers every save with SaveYourselfDone, and reads its next message    *)
(* when it has answered; libSM drops a save of an unknown type.  While it  *)
(* waits for the second phase it reads on, and a cancellation makes it     *)
(* answer.                                                                 *)
(***************************************************************************)
UnchangedManager ==
    UNCHANGED <<current_save_yourself, next_save_yourself, phase, waiting, last, logouts>>

ReadMessage ==
    /\ saving \in {"idle", "phase2"}
    /\ to_client # <<>>
    /\ to_client' = Tail(to_client)
    /\ LET message == Head(to_client)
           Starts == message \in SaveTypes \/ (message = SaveYourselfPhase2 /\ saving = "phase2")
           Stops == message = ShutdownCancelled /\ saving = "phase2"
       IN  \/ Starts /\ saving' = "saving" /\ UNCHANGED to_manager
           \/ Stops /\ saving' = "idle" /\ to_manager' = Append(to_manager, "SaveYourselfDone")
           \/ ~Starts /\ ~Stops /\ UNCHANGED <<saving, to_manager>>
    /\ UNCHANGED <<checkpoints, seen>>
    /\ UnchangedManager

SaveDone ==
    /\ saving = "saving"
    /\ saving' = "idle"
    /\ to_manager' = Append(to_manager, "SaveYourselfDone")
    /\ UNCHANGED <<to_client, checkpoints, seen>>
    /\ UnchangedManager

AskPhase2 ==
    /\ saving = "saving"
    /\ saving' = "phase2"
    /\ to_manager' = Append(to_manager, "Phase2Request")
    /\ seen' = seen \cup {"second phase"}
    /\ UNCHANGED <<to_client, checkpoints>>
    /\ UnchangedManager

AskCheckpoint ==
    /\ checkpoints < MaxCheckpoints
    /\ checkpoints' = checkpoints + 1
    /\ to_manager' = Append(to_manager, "Checkpoint")
    /\ seen' = seen \cup {"checkpoint"}
    /\ UNCHANGED <<to_client, saving>>
    /\ UnchangedManager

-----------------------------------------------------------------------------
ManagerReads ==
    \/ save_yourself_done_callback
    \/ save_yourself_phase2_request_callback
    \/ save_yourself_request_callback

Next ==
    \/ ManagerReads
    \/ QueryEndSession \/ EndSession \/ SecondPhase \/ CancelEndSession \/ PhaseTimeout
    \/ ReadMessage \/ SaveDone \/ AskPhase2 \/ AskCheckpoint

Spec == Init /\ [][Next]_vars

\* Both ends read what has arrived, and the program finishes its saves.
FairSpec == Spec /\ WF_vars(ManagerReads) /\ WF_vars(ReadMessage) /\ WF_vars(SaveDone)

-----------------------------------------------------------------------------
\* The program will still send a SaveYourselfDone or has one under way.
OwesAnswer ==
    \/ saving \in {"saving", "phase2"}
    \/ \E k \in DOMAIN to_client : to_client[k] \in SaveTypes
    \/ \E k \in DOMAIN to_manager : to_manager[k] \in {"SaveYourselfDone", "Phase2Request"}

\* A save the manager believes to be in progress is in progress: no crossing of
\* answers, checkpoints and cancellations leaves the client busy for ever, with
\* every later save queued behind a save that nobody works on.
ProgressIsReal == current_save_yourself # Nothing => OwesAnswer

\* Until a logout is cancelled or the program asks for a second phase, it is not
\* sent a save before it is done with the last one: one save at most is on its way,
\* and none while it works on one, whatever checkpoints, queries and final saves
\* cross.  (Afterwards the late answer to one save is taken for the answer to the next.)
SavesDoNotOverlap ==
    seen \subseteq {"first save", "checkpoint"}
        => \A i, j \in DOMAIN to_client :
               to_client[i] \in SaveTypes /\ to_client[j] \in SaveTypes
                   => i = j /\ saving = "idle"

\* A program that has answered its first save, asks for no checkpoint and for no
\* second phase is never waited for in vain, not even after a cancelled logout.
AnswersArrive ==
    waiting /\ seen \subseteq {"cancellation"}
        ~> ~waiting \/ ~(seen \subseteq {"cancellation"})

(***************************************************************************)
(* What the repository says and the code does not do.                      *)
(***************************************************************************)
\* "Either way, the new SaveYourself is redundant": if the final save is skipped
\* because something is queued, the client still has something to answer, and the
\* manager does not wait for nothing until its timeout.
SkippedSaveIsRedundant == phase = "END_SESSION" /\ waiting => OwesAnswer

=============================================================================
