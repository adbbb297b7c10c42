--------------------------- MODULE MCRelayTransit ---------------------------
(* Small instances of RelayTransit for TLC. *)
EXTENDS RelayTransit, TLC

\* One recipient: mailboxes share nothing but the id counter.
OneMailbox == [e \in Envelope |-> CHOOSE a \in Agent : TRUE]

\* The model treats its envelopes alike.
AlikeEnvelopes == Permutations(Envelope)
=============================================================================
