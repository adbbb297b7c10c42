----------------------------- MODULE MCSessions ------------------------------
(* Small instances of SessionViews for TLC. *)
EXTENDS SessionViews

CONSTANTS s1, s2, c1, c2, a1, a2, k1, k2, k3, A, B

\* A retry under the dedupe key of the first send.
OneKey == [s \in Send |-> s1]

\* Two connections of one agent, one of another; watches of both agents, one too many for
\* the last connection.
TwoAgents == [c \in Conn |-> IF c = k3 THEN a2 ELSE a1]
TheWatches == {<<k3, a1>>, <<k2, a1>>, <<k3, a2>>}

\* Every watch and unwatch call names both contacts.
Both == {Contact}

BothRelays == <<A, B>>
=============================================================================
