---------------------------- MODULE MCInboundPath ----------------------------
(* Small instances of InboundPath for TLC. *)
EXTENDS InboundPath

CONSTANTS f1, f2, r1, r2

\* A direct message and a private-group frame.
OneOfEach == [f \in Frame |-> IF f = f1 THEN "dm" ELSE "group"]
AllGroup == [f \in Frame |-> "group"]
AllDm == [f \in Frame |-> "dm"]

\* The first frame is broadcast to both relays, the second goes to one.
Broadcast == [f \in Frame |-> IF f = f1 THEN Relay ELSE {r1}]
=============================================================================
