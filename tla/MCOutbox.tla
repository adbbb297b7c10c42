------------------------------ MODULE MCOutbox ------------------------------
(***************************************************************************)
(* Instances of the outbox for TLC.                                        *)
(***************************************************************************)
EXTENDS Outbox, TLC

CONSTANTS b1, b2, p1

\* Both messages go to one peer, so that they share a flush and its batch.
OnePeer == [b \in Bubble |-> p1]

\* Where the messages are alike, they may change places.
AlikeMessages == Permutations(Bubble)
=============================================================================
