---------------------------- MODULE MCSessionStart ----------------------------
(***************************************************************************)
(* The instance of SessionStart that TLC checks: two applications that     *)
(* share a phase, one of a later phase, one that is delayed.               *)
(***************************************************************************)
EXTENDS SessionStart

CONSTANTS a1, a2, a3, a4

Phases == [a \in Apps |-> CASE a \in {a1, a2} -> 2
                            [] a = a3 -> DESKTOP
                            [] a = a4 -> APPLICATION]

=============================================================================
