---------------------------- MODULE SessionViews -----------------------------
(***************************************************************************)
(* A client and its relays in three views: the supervisor of one relay     *)
(* session, the relay's registry of sessions with its presence watches,    *)
(* and the moves of an agent from relay to relay with a sender that has to *)
(* find it.  A behaviour is a behaviour of one of them, and the others     *)
(* stay where they start.                                                  *)
(***************************************************************************)
EXTENDS RelayClient, Presence, Homing

VARIABLE part   \* the view this behaviour is about

vars == <<part, clientVars, presenceVars, homingVars>>

Init ==
    /\ part \in {"client", "relay", "home"}
    /\ ClientInit /\ PresenceInit /\ HomingInit
    /\ part # "client" => connState = "connected"

Next ==
    \/ part = "client" /\ ClientNext /\ UNCHANGED <<part, presenceVars, homingVars>>
    \/ part = "relay" /\ PresenceNext /\ UNCHANGED <<part, clientVars, homingVars>>
    \/ part = "home" /\ HomingNext /\ UNCHANGED <<part, clientVars, presenceVars>>

\* The fairness of the view the behaviour is about.
Fairness ==
    \/ <>[](part = "client") /\ ClientFairness
    \/ <>[](part = "relay") /\ PresenceFairness
    \/ <>[](part = "home") /\ HomingFairness

Spec == Init /\ [][Next]_vars /\ Fairness

\* Every variable of the three views holds a value of its kind, and no session watches
\* more agents than the cap (MAX_WATCHES_PER_SESSION in session.rs).
SessionsTypeOK == ClientTypeOK /\ PresenceTypeOK /\ HomingTypeOK
=============================================================================
