--------------------------- MODULE TransitContract ---------------------------
(***************************************************************************)
(* What a relay's transit store promises to the two sides that use it: the *)
(* contract of the TransitStore trait as handle_send and the TransitAck    *)
(* arm use it, without sessions, queues, ids, replays or restarts.         *)
(*                                                                         *)
(* A deposit is stored once.  Its depositor is told so only afterwards.    *)
(* Only the addressee comes to hold it, and only once it was stored.  A    *)
(* stored copy goes in two ways: its addressee, holding it, confirms it,   *)
(* or its TTL runs out.  What a client holds it may lose at any time.      *)
(*                                                                         *)
(* RelayTransit implements the contract, and so does each of the relays    *)
(* that InboundPath has for its environment.                               *)
(***************************************************************************)

CONSTANTS
    Agent,
    Envelope,
    Recipient   \* Recipient[e]: the agent envelope e is addressed to

VARIABLES
    copy,       \* what became of the relay's copy of each envelope
    told,       \* envelopes whose depositor was told Ack
    hand        \* envelopes each agent's client holds and may confirm

contractVars == <<copy, told, hand>>

ContractInit ==
    /\ copy = [e \in Envelope |-> "absent"]
    /\ told = {}
    /\ hand = [a \in Agent |-> {}]

-----------------------------------------------------------------------------
\* TransitStore::enqueue, accepted.
Enqueued(e) ==
    /\ copy[e] = "absent"
    /\ copy' = [copy EXCEPT ![e] = "stored"]
    /\ told' = told

\* handle_send's Ack.
Acked(e) ==
    /\ copy[e] # "absent"
    /\ told' = told \cup {e}
    /\ copy' = copy

\* TransitStore::delete, for an authenticated agent that holds the envelope.
Deleted(e) ==
    /\ copy[e] = "stored" /\ e \in hand[Recipient[e]]
    /\ copy' = [copy EXCEPT ![e] = "reclaimed"]
    /\ told' = told

\* TransitStore::sweep_expired: any of the stored copies are due.
SweptExpired ==
    /\ \E due \in SUBSET {e \in Envelope : copy[e] = "stored"} :
          copy' = [e \in Envelope |-> IF e \in due THEN "expired" ELSE copy[e]]
    /\ told' = told

\* TransitStore::read_all and the delivery of what it read: the only way into a client's
\* hands.  Anything may get lost, on the way or in the client.
Delivered ==
    \A a \in Agent : \A e \in hand'[a] :
        e \in hand[a] \/ (e \in Envelope /\ Recipient[e] = a /\ copy'[e] # "absent")

ContractNext ==
    /\ Delivered
    /\ \/ \E e \in Envelope : Enqueued(e) \/ Acked(e) \/ Deleted(e)
       \/ SweptExpired
       \/ UNCHANGED <<copy, told>>

ContractSpec == ContractInit /\ [][ContractNext]_contractVars
=============================================================================
