-------------------------- MODULE OutboxRefinement --------------------------
(***************************************************************************)
(* The outbox implements the send-state machine of send_state.rs, proved   *)
(* for every instance whose vault neither loses a write nor fails to load. *)
(***************************************************************************)
EXTENDS OutboxProofs

\* A bubble has an id only when it reads as sent, so a receipt can only match
\* one that does.
IdsMeanSent == \A b \in Bubble : mem[b].mid # 0 => mem[b].status \in ReachedRelay

\* The inductive invariant of the refinement.
RefinementInv ==
    /\ TypeOK /\ CopiesBacked /\ RecordsBacked /\ ComposedFirst
    /\ VaultCurrent /\ IdsMeanSent

\* Recorded outcomes and receipts keep ids and Sent together.
LEMMA OutcomesKeepIds ==
    ASSUME NEW r \in BubbleRecord, r.mid # 0 => r.status \in ReachedRelay
    PROVE  /\ \A k : Accepted(r, k).status \in ReachedRelay
           /\ \A terminal \in BOOLEAN :
                 Refused(r, terminal).mid # 0 => Refused(r, terminal).status \in ReachedRelay
           /\ Delivered(r).status \in ReachedRelay
BY DEF Accepted, Refused, Delivered, ReleaseAttachment, BubbleRecord, ReachedRelay

\* Every step keeps the refinement's invariant.
LEMMA RefinementInvStep ==
    ASSUME ~VaultMayFail, RefinementInv, [Next]_vars
    PROVE  RefinementInv'
<1>1. TypeOK' /\ CopiesBacked' /\ RecordsBacked' /\ ComposedFirst'
  BY TypeStep, BackedStep, RecordsBackedStep, ComposedStep DEF RefinementInv
<1>2. VaultCurrent'
  BY VaultCurrentStep DEF RefinementInv
<1>3. IdsMeanSent'
  <2> SUFFICES ASSUME NEW b \in Bubble
               PROVE  mem'[b].mid # 0 => mem'[b].status \in ReachedRelay
    BY DEF IdsMeanSent
  <2>1. StoreMove(b)
    BY StoreMoves DEF RefinementInv
  <2>2. mem[b] \in BubbleRecord /\ disk[b] = mem[b]
    BY DEF RefinementInv, TypeOK, VaultCurrent
  <2>3. mem[b].mid # 0 => mem[b].status \in ReachedRelay
    BY DEF RefinementInv, IdsMeanSent
  <2>4. NoBubble.mid = 0 /\ Queued(b).mid = 0
    BY DEF NoBubble, Queued
  <2> QED
    BY <2>1, <2>2, <2>3, <2>4, OutcomesKeepIds DEF StoreMove
<1> QED
  BY <1>1, <1>2, <1>3 DEF RefinementInv

-----------------------------------------------------------------------------
(* The step of the abstract machine that each step is *)

\* A step that changes none of what the abstract machine sees is a stutter.
LEMMA Stutter ==
    ASSUME mem' = mem, composed' = composed, copies' = copies, arrived' = arrived
    PROVE  UNCHANGED Lifecycle!lifecycleVars
BY DEF Lifecycle!lifecycleVars, ShownState, Present

\* A step that rewrites one bubble moves that message only.
LEMMA OneMessageMoves ==
    ASSUME NEW b \in Bubble, composed' \in {composed, composed \cup {b}},
           \A c \in Bubble \ {b} : mem'[c] = mem[c]
    PROVE  [c \in Bubble |-> ShownState(c)]'
             = [[c \in Bubble |-> ShownState(c)] EXCEPT ![b] = ShownState(b)']
<1>1. ASSUME NEW c \in Bubble, c # b
      PROVE  ShownState(c)' = ShownState(c)
  BY <1>1 DEF ShownState, Present
<1> QED
  BY <1>1

\* What the abstract machine does in a step of the outbox.
AbstractStep == [Lifecycle!LifecycleNext]_(Lifecycle!lifecycleVars)

\* Rewriting one bubble is the abstract move of its message, or a stutter.
LEMMA MessageMove ==
    ASSUME NEW b \in Bubble, composed' \in {composed, composed \cup {b}},
           \A c \in Bubble \ {b} : mem'[c] = mem[c],
           copies' = copies, arrived' = arrived,
           \/ ShownState(b) = "Unborn" /\ ShownState(b)' = "Queued"
           \/ ShownState(b) = "Queued" /\ ShownState(b)' = "Sent" /\ copies[b] > 0
           \/ ShownState(b) = "Sent" /\ ShownState(b)' = "Delivered" /\ arrived[b] # {}
           \/ ShownState(b) = "Queued" /\ ShownState(b)' = "Failed"
           \/ ShownState(b)' = ShownState(b)
    PROVE  AbstractStep
<1> DEFINE shown == [c \in Bubble |-> ShownState(c)]
<1> DEFINE custody == {c \in Bubble : copies[c] > 0}
<1> DEFINE received == {c \in Bubble : arrived[c] # {}}
<1>1. shown' = [shown EXCEPT ![b] = ShownState(b)']
  BY OneMessageMoves
<1>2. shown[b] = ShownState(b)
  OBVIOUS
<1>3. custody' = custody /\ received' = received
  OBVIOUS
<1>4. CASE ShownState(b) = "Unborn" /\ ShownState(b)' = "Queued"
  <2>1. Lifecycle!Compose(b)
    BY <1>1, <1>2, <1>3, <1>4 DEF Lifecycle!Compose, Lifecycle!Move
  <2> QED
    BY <2>1 DEF AbstractStep, Lifecycle!LifecycleNext
<1>5. CASE ShownState(b) = "Queued" /\ ShownState(b)' = "Sent" /\ copies[b] > 0
  <2>1. Lifecycle!RelayAcks(b)
    BY <1>1, <1>2, <1>3, <1>5 DEF Lifecycle!RelayAcks, Lifecycle!Move
  <2> QED
    BY <2>1 DEF AbstractStep, Lifecycle!LifecycleNext
<1>6. CASE ShownState(b) = "Sent" /\ ShownState(b)' = "Delivered" /\ arrived[b] # {}
  <2>1. Lifecycle!ReceiptCloses(b)
    BY <1>1, <1>2, <1>3, <1>6 DEF Lifecycle!ReceiptCloses, Lifecycle!Move
  <2> QED
    BY <2>1 DEF AbstractStep, Lifecycle!LifecycleNext
<1>7. CASE ShownState(b) = "Queued" /\ ShownState(b)' = "Failed"
  <2>1. Lifecycle!Refuse(b)
    BY <1>1, <1>2, <1>3, <1>7 DEF Lifecycle!Refuse, Lifecycle!Move
  <2> QED
    BY <2>1 DEF AbstractStep, Lifecycle!LifecycleNext
<1>8. CASE ShownState(b)' = ShownState(b)
  <2>1. shown' = shown
    BY <1>1, <1>2, <1>8
  <2> QED
    BY <1>3, <2>1 DEF AbstractStep, Lifecycle!lifecycleVars
<1> QED
  BY <1>4, <1>5, <1>6, <1>7, <1>8

\* A deposit and an arrival are the world's two abstract steps.
LEMMA WorldMove ==
    ASSUME TypeOK, mem' = mem, composed' = composed, NEW b \in Bubble,
           \/ copies' = [copies EXCEPT ![b] = @ + 1] /\ arrived' = arrived
           \/ /\ copies[b] > 0 /\ copies' = copies
              /\ \E k : arrived' = [arrived EXCEPT ![b] = @ \cup {k}]
    PROVE  AbstractStep
<1> DEFINE shown == [c \in Bubble |-> ShownState(c)]
<1> DEFINE custody == {c \in Bubble : copies[c] > 0}
<1> DEFINE received == {c \in Bubble : arrived[c] # {}}
<1>1. shown' = shown
  BY DEF ShownState, Present
<1>2. CASE copies' = [copies EXCEPT ![b] = @ + 1] /\ arrived' = arrived
  <2>1. custody' = custody \cup {b}
    BY <1>2, OutboxAssumption DEF TypeOK
  <2>2. received' = received
    BY <1>2
  <2>3. Lifecycle!RelayTakes(b)
    BY <1>1, <2>1, <2>2 DEF Lifecycle!RelayTakes
  <2> QED
    BY <2>3 DEF AbstractStep, Lifecycle!LifecycleNext
<1>3. CASE /\ copies[b] > 0 /\ copies' = copies
           /\ \E k : arrived' = [arrived EXCEPT ![b] = @ \cup {k}]
  <2>1. received' = received \cup {b}
    BY <1>3 DEF TypeOK
  <2>2. custody' = custody /\ b \in custody
    BY <1>3
  <2>3. Lifecycle!RecipientGets(b)
    BY <1>1, <2>1, <2>2 DEF Lifecycle!RecipientGets
  <2> QED
    BY <2>3 DEF AbstractStep, Lifecycle!LifecycleNext
<1> QED
  BY <1>2, <1>3

\* Every step of the outbox is a step of the abstract machine or a stutter.
LEMMA StepRefines ==
    ASSUME ~VaultMayFail, RefinementInv, [Next]_vars
    PROVE  AbstractStep
<1> USE DEF RefinementInv
<1>1. CASE mem' = mem /\ composed' = composed /\ copies' = copies /\ arrived' = arrived
  BY <1>1, Stutter DEF AbstractStep
<1>2. ASSUME NEW b \in Bubble, Compose(b)
      PROVE  AbstractStep
  <2>1. /\ mem'[b].status = "Queued"
        /\ \A c \in Bubble \ {b} : mem'[c] = mem[c]
    BY <1>2, SetBubbleMove DEF Compose, EnqueueDm, EnqueueGroupCopy, Queued
  <2>2. /\ b \notin composed /\ composed' = composed \cup {b}
        /\ copies' = copies /\ arrived' = arrived
    BY <1>2 DEF Compose, EnqueueDm, EnqueueGroupCopy, worldVars
  <2>3. ShownState(b) = "Unborn" /\ ShownState(b)' = "Queued"
    BY <2>1, <2>2 DEF ShownState, Present
  <2> QED
    BY <2>1, <2>2, <2>3, MessageMove
<1>3. ASSUME NEW t \in Task, NEW b \in Bubble, CopyLeaves(t, b)
      PROVE  AbstractStep
  BY <1>3, WorldMove DEF CopyLeaves, storeVars
<1>4. ASSUME NEW b \in Bubble, NEW k \in CopyId, PeerReceives(b, k)
      PROVE  AbstractStep
  <2>1. copies[b] > 0
    BY <1>4 DEF PeerReceives, TypeOK
  <2> QED
    BY <1>4, <2>1, WorldMove DEF PeerReceives, storeVars
<1>5. ASSUME NEW b \in Bubble, Recordable(b)
      PROVE  /\ mem[b].status \in {"Queued", "Sent"}
             /\ ShownState(b) = mem[b].status
  BY <1>5 DEF Recordable, Terminal, TypeOK, BubbleRecord, SendState, ShownState,
              Present, ComposedFirst
<1>6. ASSUME NEW t \in Task, NEW b \in Bubble, NEW id \in 0..MaxCopies,
             RecordSuccess(t, b, id)
      PROVE  AbstractStep
  <2>1. composed' = composed /\ copies' = copies /\ arrived' = arrived
    BY <1>6 DEF RecordSuccess, Conclude
  <2>2. CASE ~Recordable(b)
    BY <1>1, <1>6, <2>1, <2>2 DEF RecordSuccess, RecordSendOutcome, storeVars
  <2>3. CASE Recordable(b)
    <3>1. /\ mem'[b] = Accepted(mem[b], id)
          /\ \A c \in Bubble \ {b} : mem'[c] = mem[c]
      BY <1>6, <2>3, SetBubbleMove DEF RecordSuccess, RecordSendOutcome
    <3>2. mem'[b].status = "Sent"
      BY <3>1 DEF Accepted, TypeOK, BubbleRecord
    <3>3. ShownState(b)' = "Sent"
      BY <1>5, <2>1, <2>3, <3>2 DEF ShownState, Present
    <3>4. copies[b] > 0
      <4>1. send[t][b].copy \in 1..copies[b]
        BY <1>6 DEF RecordSuccess, CopiesBacked
      <4> QED
        BY <4>1 DEF TypeOK
    <3>5. \/ ShownState(b) = "Queued"
          \/ ShownState(b)' = ShownState(b)
      BY <1>5, <2>3, <3>3
    <3> QED
      BY <2>1, <3>1, <3>3, <3>4, <3>5, MessageMove
  <2> QED
    BY <2>2, <2>3
<1>7. ASSUME NEW t \in Task, NEW b \in Bubble, NEW terminal \in BOOLEAN,
             RecordFailure(t, b, terminal)
      PROVE  AbstractStep
  <2>1. composed' = composed /\ copies' = copies /\ arrived' = arrived
    BY <1>7 DEF RecordFailure, Conclude
  <2>2. CASE ~Recordable(b)
    BY <1>1, <1>7, <2>1, <2>2 DEF RecordFailure, RecordSendOutcome, storeVars
  <2>3. CASE Recordable(b)
    <3>1. /\ mem'[b] = Refused(mem[b], terminal)
          /\ \A c \in Bubble \ {b} : mem'[c] = mem[c]
      BY <1>7, <2>3, SetBubbleMove DEF RecordFailure, RecordSendOutcome
    <3>2. \/ mem'[b].status = mem[b].status
          \/ mem[b].status = "Queued" /\ mem'[b].status = "Failed"
      <4>1. mem[b] \in BubbleRecord
        BY DEF TypeOK
      <4> QED
        BY <1>5, <2>3, <3>1, <4>1
           DEF Refused, ReleaseAttachment, BubbleRecord, ReachedRelay
    <3>3. \/ ShownState(b)' = ShownState(b)
          \/ ShownState(b) = "Queued" /\ ShownState(b)' = "Failed"
      BY <1>5, <2>1, <2>3, <3>2 DEF ShownState, Present
    <3> QED
      BY <2>1, <3>1, <3>3, MessageMove
  <2> QED
    BY <2>2, <2>3
<1>8. ASSUME NEW b \in Bubble, NEW k \in CopyId, ReceiptArrives(b, k)
      PROVE  AbstractStep
  <2>1. composed' = composed /\ copies' = copies /\ arrived' = arrived
    BY <1>8 DEF ReceiptArrives, worldVars
  <2>2. /\ mem'[b] = Delivered(mem[b])
        /\ \A c \in Bubble \ {b} : mem'[c] = mem[c]
    BY <1>8, SetBubbleMove DEF ReceiptArrives
  <2>3. mem[b].mid # 0
    BY <1>8 DEF ReceiptArrives, MatchesReceipt, Ids, RecordsBacked, Backed
  <2>4. mem[b].status \in {"Sent", "Delivered"}
    BY <2>3 DEF IdsMeanSent, ReachedRelay
  <2>5. mem'[b].status = "Delivered"
    BY <2>2 DEF Delivered, ReleaseAttachment, TypeOK, BubbleRecord
  <2>6. ShownState(b) = mem[b].status /\ ShownState(b)' = "Delivered"
    BY <2>1, <2>4, <2>5 DEF ShownState, Present, ComposedFirst
  <2>7. arrived[b] # {}
    BY <1>8 DEF ReceiptArrives
  <2>8. \/ ShownState(b) = "Sent"
        \/ ShownState(b)' = ShownState(b)
    BY <2>4, <2>6
  <2> QED
    BY <2>1, <2>2, <2>6, <2>7, <2>8, MessageMove
<1>9. ASSUME NEW p \in Peer, DropBubblesForPeer(p)
      PROVE  AbstractStep
  <2> DEFINE S == {b \in Bubble : PeerOf[b] = p /\ Present(b)}
  <2> DEFINE shown == [b \in Bubble |-> ShownState(b)]
  <2>1. composed' = composed /\ copies' = copies /\ arrived' = arrived
    BY <1>9 DEF DropBubblesForPeer, worldVars
  <2>2. ASSUME NEW b \in Bubble
        PROVE  ShownState(b)' = IF b \in S THEN "Gone" ELSE ShownState(b)
    BY <1>9, <2>1 DEF DropBubblesForPeer, ShownState, Present, NoBubble, ComposedFirst
  <2>3. \A b \in S : shown[b] # "Unborn"
    BY DEF ShownState, ComposedFirst, TypeOK, BubbleRecord, SendState
  <2>4. shown' = [b \in Bubble |-> IF b \in S THEN "Gone" ELSE shown[b]]
    BY <2>2
  <2>5. Lifecycle!Cancel(S)
    BY <2>1, <2>3, <2>4 DEF Lifecycle!Cancel
  <2>6. S \in SUBSET Bubble
    OBVIOUS
  <2> QED
    BY <2>5, <2>6 DEF AbstractStep, Lifecycle!LifecycleNext
<1>10. CASE Crash
  BY <1>1, <1>10 DEF Crash, VaultCurrent, worldVars
<1>11. \/ \E b \in Bubble : \/ Compose(b)
                           \/ \E k \in CopyId : ReceiptArrives(b, k) \/ PeerReceives(b, k)
       \/ \E t \in Task, b \in Bubble : CopyLeaves(t, b)
       \/ \E t \in Task, b \in Bubble, id \in 0..MaxCopies : RecordSuccess(t, b, id)
       \/ \E t \in Task, b \in Bubble, terminal \in BOOLEAN : RecordFailure(t, b, terminal)
       \/ \E p \in Peer : DropBubblesForPeer(p)
       \/ Crash
       \/ mem' = mem /\ composed' = composed /\ copies' = copies /\ arrived' = arrived
  BY DEF Next, Deposit, HandOver, Finish, DriverStep, Environment, AckReturns, AbandonFirstSend,
         ClaimBatch, SendNext, RetryTick, Presence, SweepTick, ManualRetry,
         StartDriver, BootSweep, EventsOpen, EventsUnavailable, BackoffExpires,
         StreamEnds, MoveLoop, RetryOutbox, Tick, storeVars, worldVars, vars
<1> QED
  BY <1>1, <1>2, <1>3, <1>4, <1>6, <1>7, <1>8, <1>9, <1>10, <1>11

\* With a working vault the outbox implements the send-state machine, for any
\* number of messages and peers: no race of first sends, retries, receipts,
\* cancellations and restarts takes a message along an edge it does not have.
THEOREM OutboxRefinesLifecycle ==
    ASSUME ~VaultMayFail
    PROVE  Spec => ImplementsLifecycle
<1>1. Init => RefinementInv
  <2> SUFFICES ASSUME Init
               PROVE  RefinementInv
    OBVIOUS
  <2>1. \A t \in Task, b \in Bubble : ~Live(t, b)
    BY DEF Init, Live, NoAttempt
  <2>2. ComposedFirst
    BY <2>1 DEF Init, ComposedFirst, Present, NoBubble
  <2>3. RecordsBacked
    BY BackedFresh DEF Init, RecordsBacked
  <2>4. VaultCurrent /\ IdsMeanSent
    BY DEF Init, VaultCurrent, IdsMeanSent, NoBubble
  <2> QED
    BY <2>2, <2>3, <2>4, InitInv DEF RefinementInv
<1>2. RefinementInv /\ [Next]_vars => RefinementInv'
  BY RefinementInvStep
<1>3. Init => Lifecycle!LifecycleInit
  BY DEF Init, Lifecycle!LifecycleInit, ShownState
<1>4. RefinementInv /\ [Next]_vars => [Lifecycle!LifecycleNext]_(Lifecycle!lifecycleVars)
  BY StepRefines DEF AbstractStep
<1> QED
  BY <1>1, <1>2, <1>3, <1>4, PTL DEF Spec, ImplementsLifecycle, Lifecycle!LifecycleSpec
=============================================================================
