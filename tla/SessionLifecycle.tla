--------------------------- MODULE SessionLifecycle ---------------------------
(***************************************************************************)
(* What the session manager promises about the end of a session, without   *)
(* clients, inhibitors, dialogs or timers: a session is running, then its  *)
(* programs are asked, then they are ended, then it is over.  It ends in   *)
(* the way that was last asked for, it may go back to running until it is  *)
(* over, and once its programs are being ended it does not stay there.     *)
(* The process that keeps the promise may fail.                            *)
(***************************************************************************)
CONSTANT Ends   \* the ways a session may end

VARIABLES stage, end

lifecycle == <<stage, end>>

None == "NONE"

Init == stage = "running" /\ end = None

\* Somebody asks for the session to end in the way e.
Ask(e) ==
    /\ stage = "running"
    /\ stage' = "asking"
    /\ end' = e

\* Everybody agreed, or somebody decided for the others; if nobody is left
\* to end, the session is over at once.
Proceed ==
    /\ stage = "asking"
    /\ stage' \in {"ending", "over"}
    /\ UNCHANGED end

\* A dialog that was still open is answered, which decides how the session ends.
ChangeOfMind(e) ==
    /\ \/ stage = "asking" /\ stage' \in {"ending", "over"}
       \/ stage = "ending" /\ stage' = "over"
    /\ end' = e

Cancel ==
    /\ stage \in {"asking", "ending"}
    /\ stage' = "running"
    /\ end' = None

Finish ==
    /\ stage = "ending"
    /\ stage' = "over"
    /\ UNCHANGED end

\* The process dies of a fault; what it dies of is not the concern of this module.
Fail ==
    /\ stage # "over"
    /\ stage' = "failed"
    /\ UNCHANGED end

Next ==
    \/ \E e \in Ends : Ask(e) \/ ChangeOfMind(e)
    \/ Proceed \/ Cancel \/ Finish \/ Fail

Safety == Init /\ [][Next]_lifecycle

\* Ending takes only so long; asking may wait for the user for ever.
Spec == Safety /\ WF_lifecycle(stage = "ending" /\ (Finish \/ Cancel))

=============================================================================
