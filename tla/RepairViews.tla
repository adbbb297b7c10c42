----------------------------- MODULE RepairViews -----------------------------
(***************************************************************************)
(* The two ways a conversation regains its keys: a group member that       *)
(* catches up over the relay's log, and a direct conversation that         *)
(* re-keys.  A behaviour is a behaviour of one of them, and the other one  *)
(* stays where it starts.                                                  *)
(***************************************************************************)
EXTENDS GroupRecovery, DmRekey

VARIABLE part   \* the repair this behaviour is about

vars == <<part, recoveryVars, dmVars>>

Init ==
    /\ part \in {"group", "dm"}
    /\ RecoveryInit /\ DmInit
    /\ part # "group" => daemon = "fork"
    /\ part # "dm" => mobile = {}

Next ==
    \/ part = "group" /\ RecoveryNext /\ UNCHANGED <<part, dmVars>>
    \/ part = "dm" /\ DmNext /\ UNCHANGED <<part, recoveryVars>>

\* The fairness of the repair the behaviour is about.
Fairness ==
    \/ <>[](part = "group") /\ RecoveryFairness
    \/ <>[](part = "dm") /\ DmFairness

Spec == Init /\ [][Next]_vars /\ Fairness

\* Every variable of the two holds a value of its kind.
RepairTypeOK == RecoveryTypeOK /\ DmTypeOK
=============================================================================
