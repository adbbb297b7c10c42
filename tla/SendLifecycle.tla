---------------------------- MODULE SendLifecycle ----------------------------
(***************************************************************************)
(* What send_state.rs promises of one outbound message, with no store, no  *)
(* tasks, no claims and no restarts: "Only two things move a message       *)
(* forward: a relay acking acceptance (Queued -> Sent) and a delivery      *)
(* receipt (-> Delivered)", and Failed is reached only from Queued.  Where *)
(* the doc says relay, the code also has the recipient's LAN socket.       *)
(***************************************************************************)
CONSTANT Bubble

VARIABLES
    state,    \* the SendState of each message, "Unborn" and "Gone" around it
    custody,  \* the messages a relay, or the recipient's LAN socket, took a copy of
    received  \* the messages the recipient has decrypted a copy of

lifecycleVars == <<state, custody, received>>

LifecycleInit ==
    /\ state = [b \in Bubble |-> "Unborn"]
    /\ custody = {}
    /\ received = {}

Move(b, from, to) == state[b] = from /\ state' = [state EXCEPT ![b] = to]

Compose(b) == Move(b, "Unborn", "Queued") /\ UNCHANGED <<custody, received>>

RelayTakes(b) ==
    /\ custody' = custody \cup {b}
    /\ UNCHANGED <<state, received>>

\* An answer of Ok to a copy that was taken is the only way into Sent.
RelayAcks(b) ==
    /\ b \in custody
    /\ Move(b, "Queued", "Sent")
    /\ UNCHANGED <<custody, received>>

RecipientGets(b) ==
    /\ b \in custody
    /\ received' = received \cup {b}
    /\ UNCHANGED <<state, custody>>

\* The recipient's receipt is the only way into Delivered.
ReceiptCloses(b) ==
    /\ b \in received
    /\ Move(b, "Sent", "Delivered")
    /\ UNCHANGED <<custody, received>>

\* Only an outcome no retry can improve, and only before a relay has it.
Refuse(b) == Move(b, "Queued", "Failed") /\ UNCHANGED <<custody, received>>

\* The recipient's device was removed: its messages are cancelled.
Cancel(S) ==
    /\ state' = [b \in Bubble |-> IF b \in S THEN "Gone" ELSE state[b]]
    /\ \A b \in S : state[b] # "Unborn"
    /\ UNCHANGED <<custody, received>>

LifecycleNext ==
    \/ \E b \in Bubble : \/ Compose(b) \/ RelayTakes(b) \/ RelayAcks(b)
                         \/ RecipientGets(b) \/ ReceiptCloses(b) \/ Refuse(b)
    \/ \E S \in SUBSET Bubble : Cancel(S)

LifecycleSpec == LifecycleInit /\ [][LifecycleNext]_lifecycleVars
=============================================================================
