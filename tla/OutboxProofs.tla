---------------------------- MODULE OutboxProofs ----------------------------
(***************************************************************************)
(* What TLAPS proves of the outbox, for any number of bubbles and peers    *)
(* and every value of the caps, the time-outs and the failure switches.    *)
(*                                                                         *)
(* The last theorems are about what a bubble's record says of the copies   *)
(* that left: the record names the log's last copy and the PriorCap before *)
(* it, so a receipt finds its bubble and no accepted bubble reads as       *)
(* failed, when no write of the vault is lost.                             *)
(***************************************************************************)
EXTENDS Outbox, FiniteSetTheorems, TLAPS

-----------------------------------------------------------------------------
(* Bubble records *)

\* Remembering a superseded id keeps a sequence of at most PriorCap ids.
LEMMA RememberType ==
    ASSUME NEW prior \in Seq(CopyId), Len(prior) <= PriorCap, NEW old \in 0..MaxCopies
    PROVE  Remember(prior, old) \in {q \in Seq(CopyId) : Len(q) <= PriorCap}
<1>1. CASE old = 0 \/ \E i \in DOMAIN prior : prior[i] = old
  BY <1>1 DEF Remember
<1>2. CASE ~(old = 0 \/ \E i \in DOMAIN prior : prior[i] = old)
  <2>1. old \in CopyId
    BY <1>2, OutboxAssumption DEF CopyId
  <2>2. CASE Len(prior) >= PriorCap
    <3>1. prior # <<>>
      BY <2>2, OutboxAssumption
    <3>2. Tail(prior) \in Seq(CopyId) /\ Len(Tail(prior)) = Len(prior) - 1
      BY <3>1
    <3>3. Remember(prior, old) = Append(Tail(prior), old)
      BY <1>2, <2>2 DEF Remember
    <3>4. /\ Append(Tail(prior), old) \in Seq(CopyId)
          /\ Len(Append(Tail(prior), old)) = Len(Tail(prior)) + 1
      BY <2>1, <3>2
    <3> QED
      BY <3>2, <3>3, <3>4, OutboxAssumption
  <2>3. CASE ~(Len(prior) >= PriorCap)
    <3>1. Remember(prior, old) = Append(prior, old)
      BY <1>2, <2>3 DEF Remember
    <3>2. Append(prior, old) \in Seq(CopyId) /\ Len(Append(prior, old)) = Len(prior) + 1
      BY <2>1
    <3> QED
      BY <2>3, <3>1, <3>2, OutboxAssumption
  <2> QED
    BY <2>2, <2>3
<1> QED
  BY <1>1, <1>2

\* The operations of a bubble take records to records.
LEMMA RecordTypes ==
    /\ NoBubble \in BubbleRecord
    /\ \A b \in Bubble : Queued(b) \in BubbleRecord
    /\ \A r \in BubbleRecord : /\ Delivered(r) \in BubbleRecord
                               /\ \A terminal \in BOOLEAN : Refused(r, terminal) \in BubbleRecord
                               /\ \A k \in 0..MaxCopies : Accepted(r, k) \in BubbleRecord
<1>1. NoBubble \in BubbleRecord
  BY OutboxAssumption DEF NoBubble, BubbleRecord, SendState
<1>2. ASSUME NEW b \in Bubble
      PROVE  Queued(b) \in BubbleRecord
  <2>1. (b \in WithImage) \in BOOLEAN
    OBVIOUS
  <2> QED
    BY <2>1, OutboxAssumption DEF Queued, BubbleRecord, SendState
<1>3. ASSUME NEW r \in BubbleRecord
      PROVE  Delivered(r) \in BubbleRecord
  BY DEF Delivered, ReleaseAttachment, BubbleRecord, SendState
<1>4. ASSUME NEW r \in BubbleRecord, NEW terminal \in BOOLEAN
      PROVE  Refused(r, terminal) \in BubbleRecord
  BY DEF Refused, ReleaseAttachment, BubbleRecord, SendState
<1>5. ASSUME NEW r \in BubbleRecord, NEW k \in 0..MaxCopies
      PROVE  Accepted(r, k) \in BubbleRecord
  <2>1. Remember(r.prior, r.mid) \in {q \in Seq(CopyId) : Len(q) <= PriorCap}
    BY RememberType DEF BubbleRecord
  <2> QED
    BY <2>1 DEF Accepted, BubbleRecord, SendState
<1> QED
  BY <1>1, <1>2, <1>3, <1>4, <1>5

-----------------------------------------------------------------------------
(* Type correctness *)

\* Ages saturate at AgeCap.
LEMMA AgeTypes ==
    /\ AgeCap \in Nat
    /\ 0 \in 0..AgeCap
    /\ \A age \in 0..AgeCap : Older(age) \in 0..AgeCap
BY OutboxAssumption DEF AgeCap, Older

\* The flush record keeps its shape.
LEMMA FlushTypes ==
    /\ NoFlush \in FlushRecord
    /\ \A f \in FlushRecord : AfterPeer(f) \in FlushRecord
<1>1. NoFlush \in FlushRecord
  BY AgeTypes DEF NoFlush, FlushRecord
<1>2. ASSUME NEW f \in FlushRecord
      PROVE  AfterPeer(f) \in FlushRecord
  BY <1>1, AgeTypes DEF AfterPeer, FlushRecord
<1> QED
  BY <1>1, <1>2

\* A flush that starts has the shape of a flush.
LEMMA StartFlushType ==
    ASSUME NEW peers \in SUBSET Peer,
           NEW kind \in {"edge", "manual", "sweep", "due"},
           StartFlush(peers, kind)
    PROVE  flush' \in FlushRecord
<1>1. [kind |-> kind, peers |-> peers, age |-> 0] \in FlushRecord
  BY AgeTypes DEF FlushRecord
<1> QED
  BY <1>1, FlushTypes DEF StartFlush

\* Pace entries keep their shape.
LEMMA PaceTypes ==
    /\ NoPace \in Paces
    /\ \A n \in 0..(MaxDoublings + 1) : OneMoreAttempt(n) \in 0..(MaxDoublings + 1)
<1>1. NoPace \in Paces
  BY AgeTypes, OutboxAssumption DEF NoPace, Paces
<1>2. \A n \in 0..(MaxDoublings + 1) : OneMoreAttempt(n) \in 0..(MaxDoublings + 1)
  BY OutboxAssumption DEF OneMoreAttempt
<1> QED
  BY <1>1, <1>2

\* The attempt records.
LEMMA AttemptTypes ==
    /\ NoAttempt \in Attempt
    /\ Starting \in Attempt
BY OutboxAssumption DEF NoAttempt, Starting, Attempt

\* A store write keeps the two maps well typed.
LEMMA SetBubbleType ==
    ASSUME TypeOK, NEW b \in Bubble, NEW r \in BubbleRecord, SetBubble(b, r)
    PROVE  /\ mem' \in [Bubble -> BubbleRecord]
           /\ disk' \in [Bubble -> BubbleRecord]
BY DEF TypeOK, SetBubble, Flush

\* So does a recorded outcome.
LEMMA RecordOutcomeType ==
    ASSUME TypeOK, NEW b \in Bubble, NEW r \in BubbleRecord, RecordSendOutcome(b, r)
    PROVE  /\ mem' \in [Bubble -> BubbleRecord]
           /\ disk' \in [Bubble -> BubbleRecord]
<1>1. CASE Recordable(b)
  BY <1>1, SetBubbleType DEF RecordSendOutcome
<1>2. CASE ~Recordable(b)
  BY <1>2 DEF RecordSendOutcome, storeVars, TypeOK
<1> QED
  BY <1>1, <1>2

\* What Conclude does to the variables it changes.
LEMMA ConcludeType ==
    ASSUME TypeOK, NEW t \in Task, NEW b \in Bubble, Conclude(t, b)
    PROVE  /\ claim' \in [Bubble -> {Unclaimed} \cup 0..AgeCap]
           /\ send' \in [Task -> [Bubble -> Attempt]]
           /\ flush' \in FlushRecord
           /\ released' \in SUBSET Bubble
<1>1. claim' \in [Bubble -> {Unclaimed} \cup 0..AgeCap]
  BY DEF TypeOK, Conclude, ClearInflight
<1>2. send' \in [Task -> [Bubble -> Attempt]]
  BY AttemptTypes DEF TypeOK, Conclude
<1>3. flush' \in FlushRecord
  BY FlushTypes DEF TypeOK, Conclude
<1>4. released' \in SUBSET Bubble
  BY DEF TypeOK, Conclude
<1> QED
  BY <1>1, <1>2, <1>3, <1>4

\* A send attempt that is past its deposit names a copy that a relay has:
\* what record_send_outcome is going to store is a real id.
CopiesBacked ==
    \A t \in Task, b \in Bubble :
        send[t][b].phase \in {"deposited", "acked"} => send[t][b].copy \in 1..copies[b]

\* Every step keeps every variable's type.
LEMMA TypeStep ==
    ASSUME TypeOK, CopiesBacked, [Next]_vars
    PROVE  TypeOK'
<1>1. CASE UNCHANGED vars
  BY <1>1 DEF TypeOK, vars
<1>2. ASSUME NEW b \in Bubble, EnqueueDm(b)
      PROVE  TypeOK'
  <2>1. mem' \in [Bubble -> BubbleRecord] /\ disk' \in [Bubble -> BubbleRecord]
    BY <1>2, RecordTypes, SetBubbleType DEF EnqueueDm
  <2>2. claim' \in [Bubble -> {Unclaimed} \cup 0..AgeCap]
    BY <1>2, AgeTypes DEF TypeOK, EnqueueDm, Stamp
  <2>3. send' \in [Task -> [Bubble -> Attempt]]
    BY <1>2, AttemptTypes DEF TypeOK, EnqueueDm
  <2> QED
    BY <1>2, <2>1, <2>2, <2>3
       DEF TypeOK, EnqueueDm, loopVars, flushVars, worldVars
<1>3. ASSUME NEW b \in Bubble, EnqueueGroupCopy(b)
      PROVE  TypeOK'
  <2>1. mem' \in [Bubble -> BubbleRecord] /\ disk' \in [Bubble -> BubbleRecord]
    BY <1>3, RecordTypes, SetBubbleType DEF EnqueueGroupCopy
  <2> QED
    BY <1>3, <2>1 DEF TypeOK, EnqueueGroupCopy, loopVars, flushVars, worldVars
<1>4. ASSUME NEW t \in Task, NEW b \in Bubble, Deposit(t, b) \/ HandOver(t, b)
      PROVE  TypeOK'
  <2> CopyLeaves(t, b)
    BY <1>4 DEF Deposit, HandOver
  <2>1. copies[b] + 1 \in 0..MaxCopies
    BY OutboxAssumption DEF TypeOK, CopyLeaves
  <2>2. copies' \in [Bubble -> 0..MaxCopies]
    BY <2>1 DEF TypeOK, CopyLeaves
  <2>3. send' \in [Task -> [Bubble -> Attempt]]
    BY <2>1 DEF TypeOK, CopyLeaves, Attempt
  <2>4. lan' \in [Bubble -> SUBSET CopyId]
    <3>1. copies[b] + 1 \in CopyId
      BY <2>1 DEF TypeOK, CopyId
    <3>2. lan[b] \cup {copies[b] + 1} \in SUBSET CopyId
      BY <3>1 DEF TypeOK
    <3> QED
      BY <1>4, <3>1, <3>2 DEF TypeOK, Deposit, HandOver
  <2> QED
    BY <2>2, <2>3, <2>4 DEF TypeOK, CopyLeaves, storeVars, loopVars, flushVars
<1>5. ASSUME NEW t \in Task, NEW b \in Bubble, AckReturns(t, b)
      PROVE  TypeOK'
  <2>1. send' \in [Task -> [Bubble -> Attempt]]
    <3> DEFINE acked == [send[t][b] EXCEPT !.phase = "acked"]
    <3>1. acked \in Attempt
      <4>1. send[t][b] \in Attempt
        BY DEF TypeOK
      <4> QED
        BY <4>1 DEF Attempt
    <3>2. send' = [send EXCEPT ![t] = [send[t] EXCEPT ![b] = acked]]
      BY <1>5 DEF TypeOK, AckReturns
    <3> HIDE DEF acked
    <3> QED
      BY <3>1, <3>2 DEF TypeOK
  <2>2. transcript' \in SUBSET Bubble /\ unanchored' \in SUBSET Bubble
    BY <1>5 DEF TypeOK, AckReturns
  <2> QED
    BY <1>5, <2>1, <2>2 DEF TypeOK, AckReturns, storeVars, loopVars, flushVars
<1>6. ASSUME NEW t \in Task, NEW b \in Bubble, NEW id \in 0..MaxCopies,
             RecordSuccess(t, b, id)
      PROVE  TypeOK'
  <2>1. id = 0 \/ id \in CopyId
    BY OutboxAssumption DEF CopyId
  <2>2. mem' \in [Bubble -> BubbleRecord] /\ disk' \in [Bubble -> BubbleRecord]
    <3>1. Accepted(mem[b], id) \in BubbleRecord
      BY RecordTypes DEF TypeOK
    <3> QED
      BY <1>6, <3>1, RecordOutcomeType DEF RecordSuccess
  <2>3. ackLog' \in [Bubble -> Seq(CopyId)]
    BY <1>6, <2>1 DEF TypeOK, RecordSuccess
  <2>4. Conclude(t, b)
    BY <1>6 DEF RecordSuccess
  <2> QED
    BY <2>2, <2>3, <2>4, ConcludeType DEF TypeOK, Conclude, loopVars
<1>7. ASSUME NEW t \in Task, NEW b \in Bubble, NEW terminal \in BOOLEAN,
             RecordFailure(t, b, terminal)
      PROVE  TypeOK'
  <2>1. mem' \in [Bubble -> BubbleRecord] /\ disk' \in [Bubble -> BubbleRecord]
    <3>1. Refused(mem[b], terminal) \in BubbleRecord
      BY RecordTypes DEF TypeOK
    <3> QED
      BY <1>7, <3>1, RecordOutcomeType DEF RecordFailure
  <2>2. Conclude(t, b) /\ UNCHANGED ackLog
    BY <1>7 DEF RecordFailure
  <2> QED
    BY <2>1, <2>2, ConcludeType DEF TypeOK, Conclude, loopVars
<1>8. ASSUME NEW b \in Bubble, AbandonFirstSend(b)
      PROVE  TypeOK'
  <2>1. send' \in [Task -> [Bubble -> Attempt]]
    BY <1>8, AttemptTypes DEF TypeOK, AbandonFirstSend
  <2> QED
    BY <1>8, <2>1
       DEF TypeOK, AbandonFirstSend, storeVars, loopVars, flushVars, worldVars
<1>9. ASSUME NEW p \in Peer, ClaimBatch(p)
      PROVE  TypeOK'
  <2>1. flush.age \in 0..AgeCap
    BY DEF TypeOK, FlushRecord
  <2>2. claim' \in [Bubble -> {Unclaimed} \cup 0..AgeCap]
    BY <1>9, <2>1 DEF TypeOK, ClaimBatch, Stamp
  <2>3. pace' \in [Bubble -> Paces]
    BY <1>9, <2>1, PaceTypes DEF TypeOK, ClaimBatch, Paces
  <2>4. flush' \in FlushRecord
    <3>1. [flush EXCEPT !.peers = @ \ {p}] \in FlushRecord
      BY DEF TypeOK, FlushRecord
    <3> QED
      BY <1>9, <3>1, FlushTypes DEF ClaimBatch
  <2>5. batch' \in SUBSET Bubble
    BY <1>9 DEF ClaimBatch
  <2> QED
    BY <1>9, <2>2, <2>3, <2>4, <2>5
       DEF TypeOK, ClaimBatch, storeVars, loopVars, worldVars
<1>10. ASSUME NEW b \in Bubble, SendNext(b)
       PROVE  TypeOK'
  <2>1. send' \in [Task -> [Bubble -> Attempt]]
    BY <1>10, AttemptTypes DEF TypeOK, SendNext
  <2> QED
    BY <1>10, <2>1 DEF TypeOK, SendNext, storeVars, loopVars, worldVars
<1>11. CASE RetryTick
  <2>1. pace' \in [Bubble -> Paces]
    BY <1>11, PaceTypes DEF TypeOK, RetryTick
  <2>2. {PeerOf[b] : b \in {c \in Bubble : Due(c)}} \in SUBSET Peer
    BY OutboxAssumption
  <2>3. flush' \in FlushRecord
    BY <1>11, <2>2, StartFlushType DEF RetryTick
  <2> QED
    BY <1>11, <2>1, <2>3 DEF TypeOK, RetryTick, storeVars, loopVars, worldVars
<1>12. ASSUME NEW p \in Peer, NEW online \in {"online", "offline"},
              Presence(p, online)
       PROVE  TypeOK'
  <2>1. lastOnline' \in [Peer -> {"unknown", "online", "offline"}]
    BY <1>12 DEF TypeOK, Presence
  <2>2. flush' \in FlushRecord
    <3>1. {p} \in SUBSET Peer
      OBVIOUS
    <3>2. CASE online = "online" /\ lastOnline[p] # "online"
      BY <1>12, <3>1, <3>2, StartFlushType DEF Presence
    <3>3. CASE ~(online = "online" /\ lastOnline[p] # "online")
      BY <1>12, <3>3 DEF Presence, TypeOK
    <3> QED
      BY <3>2, <3>3
  <2> QED
    BY <1>12, <2>1, <2>2 DEF TypeOK, Presence, storeVars, worldVars
<1>13. CASE SweepTick
  <2>1. {PeerOf[b] : b \in Stalled} \in SUBSET Peer
    BY OutboxAssumption DEF Stalled
  <2>2. flush' \in FlushRecord
    BY <1>13, <2>1, StartFlushType DEF SweepTick
  <2>3. /\ claim' \in [Bubble -> {Unclaimed} \cup 0..AgeCap]
        /\ released' \in SUBSET Bubble
    BY <1>13 DEF TypeOK, SweepTick, SweepClaims, Stalled
  <2> QED
    BY <1>13, <2>2, <2>3 DEF TypeOK, SweepTick, storeVars, loopVars, worldVars
<1>14. CASE ManualRetry
  <2>1. {PeerOf[b] : b \in {c \in Bubble : IsRetryable(c)}} \in SUBSET Peer
    BY OutboxAssumption
  <2>2. flush' \in FlushRecord
    BY <1>14, <2>1, StartFlushType DEF ManualRetry
  <2> QED
    BY <1>14, <2>2 DEF TypeOK, ManualRetry, storeVars, worldVars
<1>15. CASE StartDriver
  <2>1. send' \in [Task -> [Bubble -> Attempt]]
    BY <1>15, AttemptTypes DEF TypeOK, StartDriver
  <2> QED
    BY <1>15, <2>1, FlushTypes, PaceTypes
       DEF TypeOK, StartDriver, storeVars, worldVars
<1>16. CASE BootSweep
  <2>1. /\ claim' \in [Bubble -> {Unclaimed} \cup 0..AgeCap]
        /\ released' \in SUBSET Bubble
    BY <1>16 DEF TypeOK, BootSweep, SweepClaims
  <2> QED
    BY <1>16, <2>1 DEF TypeOK, BootSweep, storeVars, flushVars, worldVars
<1>17. CASE EventsOpen \/ EventsUnavailable \/ BackoffExpires \/ StreamEnds
  BY <1>17 DEF TypeOK, EventsOpen, EventsUnavailable, BackoffExpires, StreamEnds,
               MoveLoop, storeVars, flushVars, worldVars
<1>18. CASE RetryOutbox
  BY <1>18 DEF TypeOK, RetryOutbox, storeVars, flushVars, worldVars
<1>19. ASSUME NEW b \in Bubble, NEW k \in CopyId, PeerReceives(b, k)
       PROVE  TypeOK'
  <2>1. arrived' \in [Bubble -> SUBSET CopyId]
    BY <1>19 DEF TypeOK, PeerReceives
  <2> QED
    BY <1>19, <2>1 DEF TypeOK, PeerReceives, storeVars, loopVars, flushVars
<1>20. ASSUME NEW b \in Bubble, NEW k \in CopyId, ReceiptArrives(b, k)
       PROVE  TypeOK'
  <2>1. mem' \in [Bubble -> BubbleRecord] /\ disk' \in [Bubble -> BubbleRecord]
    <3>1. Delivered(mem[b]) \in BubbleRecord
      BY RecordTypes DEF TypeOK
    <3> QED
      BY <1>20, <3>1, SetBubbleType DEF ReceiptArrives
  <2> QED
    BY <1>20, <2>1 DEF TypeOK, ReceiptArrives, loopVars, flushVars, worldVars
<1>21. ASSUME NEW p \in Peer, DropBubblesForPeer(p)
       PROVE  TypeOK'
  <2>1. mem' \in [Bubble -> BubbleRecord] /\ disk' \in [Bubble -> BubbleRecord]
    BY <1>21, RecordTypes DEF TypeOK, DropBubblesForPeer, Flush
  <2> QED
    BY <1>21, <2>1 DEF TypeOK, DropBubblesForPeer, loopVars, flushVars, worldVars
<1>22. CASE Crash
  <2>1. mem' \in [Bubble -> BubbleRecord]
    BY <1>22, RecordTypes DEF TypeOK, Crash
  <2> QED
    BY <1>22, <2>1, AttemptTypes, FlushTypes, PaceTypes
       DEF TypeOK, Crash, worldVars
<1>23. CASE Tick
  <2>1. claim' \in [Bubble -> {Unclaimed} \cup 0..AgeCap]
    BY <1>23, AgeTypes DEF TypeOK, Tick
  <2>2. pace' \in [Bubble -> Paces]
    BY <1>23, AgeTypes, PaceTypes DEF TypeOK, Tick, Paces
  <2>3. flush' \in FlushRecord
    BY <1>23, AgeTypes DEF TypeOK, Tick, FlushRecord
  <2> QED
    BY <1>23, <2>1, <2>2, <2>3 DEF TypeOK, Tick, storeVars, loopVars, worldVars
<1> QED
  BY <1>1, <1>2, <1>3, <1>4, <1>5, <1>6, <1>7, <1>8, <1>9, <1>10, <1>11, <1>12,
     <1>13, <1>14, <1>15, <1>16, <1>17, <1>18, <1>19, <1>20, <1>21, <1>22, <1>23
     DEF Next, Compose, Finish, DriverStep, Environment

\* Every step keeps the copies of running attempts real: an attempt gets its
\* copy from the deposit itself, and relays' counts never fall.
LEMMA BackedStep ==
    ASSUME TypeOK, CopiesBacked, [Next]_vars
    PROVE  CopiesBacked'
<1> USE DEF CopiesBacked
<1>1. CASE UNCHANGED <<send, copies>>
  BY <1>1
<1>2. ASSUME NEW b \in Bubble, EnqueueDm(b)
      PROVE  CopiesBacked'
  BY <1>2 DEF TypeOK, EnqueueDm, Starting, worldVars
<1>3. ASSUME NEW t \in Task, NEW b \in Bubble, CopyLeaves(t, b)
      PROVE  CopiesBacked'
  <2>1. /\ copies' = [copies EXCEPT ![b] = copies[b] + 1]
        /\ copies[b] + 1 \in 1..copies'[b]
        /\ \A c \in Bubble : 1..copies[c] \subseteq 1..copies'[c]
    BY <1>3, OutboxAssumption DEF TypeOK, CopyLeaves
  <2>2. /\ send'[t][b] = [phase |-> "deposited", copy |-> copies[b] + 1]
        /\ \A u \in Task, c \in Bubble : <<u, c>> # <<t, b>> => send'[u][c] = send[u][c]
    BY <1>3 DEF TypeOK, CopyLeaves
  <2> QED
    BY <2>1, <2>2
<1>4. ASSUME NEW t \in Task, NEW b \in Bubble, AckReturns(t, b)
      PROVE  CopiesBacked'
  <2>1. /\ send'[t][b].copy = send[t][b].copy
        /\ \A u \in Task, c \in Bubble : <<u, c>> # <<t, b>> => send'[u][c] = send[u][c]
    <3>1. send[t][b] \in Attempt
      BY DEF TypeOK
    <3>2. send'[t][b] = [send[t][b] EXCEPT !.phase = "acked"]
      BY <1>4 DEF TypeOK, AckReturns
    <3> QED
      BY <1>4, <3>1, <3>2 DEF TypeOK, AckReturns, Attempt
  <2>2. send[t][b].phase = "deposited" /\ copies' = copies
    BY <1>4 DEF AckReturns
  <2> QED
    BY <2>1, <2>2
<1>5. ASSUME NEW t \in Task, NEW b \in Bubble, Conclude(t, b)
      PROVE  CopiesBacked'
  BY <1>5 DEF TypeOK, Conclude, NoAttempt
<1>6. ASSUME NEW b \in Bubble, AbandonFirstSend(b)
      PROVE  CopiesBacked'
  BY <1>6 DEF TypeOK, AbandonFirstSend, NoAttempt, worldVars
<1>7. ASSUME NEW b \in Bubble, SendNext(b)
      PROVE  CopiesBacked'
  BY <1>7 DEF TypeOK, SendNext, Starting, worldVars
<1>8. CASE StartDriver
  BY <1>8 DEF TypeOK, StartDriver, NoAttempt, worldVars
<1>9. CASE Crash
  BY <1>9 DEF Crash, NoAttempt, worldVars
<1>10. ASSUME NEW t \in Task, NEW b \in Bubble, Finish(t, b)
       PROVE  CopiesBacked'
  BY <1>5, <1>10 DEF Finish, RecordSuccess, RecordFailure
<1>11. \/ \E b \in Bubble : \/ EnqueueDm(b) \/ AbandonFirstSend(b) \/ SendNext(b)
       \/ \E t \in Task, b \in Bubble : CopyLeaves(t, b) \/ AckReturns(t, b) \/ Finish(t, b)
       \/ StartDriver \/ Crash
       \/ UNCHANGED <<send, copies>>
  BY DEF Next, Deposit, HandOver, Compose, DriverStep, Environment, EnqueueGroupCopy, ClaimBatch,
         RetryTick, Presence, SweepTick, ManualRetry, BootSweep, EventsOpen,
         EventsUnavailable, BackoffExpires, StreamEnds, MoveLoop, RetryOutbox,
         PeerReceives, ReceiptArrives, DropBubblesForPeer, Tick, worldVars, vars
<1> QED
  BY <1>1, <1>2, <1>3, <1>4, <1>6, <1>7, <1>8, <1>9, <1>10, <1>11

\* The initial state is well typed and has no attempt under way.
LEMMA InitInv ==
    ASSUME Init
    PROVE  TypeOK /\ CopiesBacked
<1>1. TypeOK
  <2>1. /\ mem \in [Bubble -> BubbleRecord] /\ disk \in [Bubble -> BubbleRecord]
        /\ send \in [Task -> [Bubble -> Attempt]]
        /\ claim \in [Bubble -> {Unclaimed} \cup 0..AgeCap]
    BY RecordTypes, AttemptTypes DEF Init
  <2>2. flush \in FlushRecord /\ pace \in [Bubble -> Paces]
    BY FlushTypes, PaceTypes DEF Init
  <2>3. /\ copies \in [Bubble -> 0..MaxCopies]
        /\ arrived \in [Bubble -> SUBSET CopyId]
        /\ ackLog \in [Bubble -> Seq(CopyId)]
        /\ lan \in [Bubble -> SUBSET CopyId]
    BY OutboxAssumption DEF Init
  <2> QED
    BY <2>1, <2>2, <2>3 DEF Init, TypeOK
<1>2. CopiesBacked
  BY DEF Init, CopiesBacked, NoAttempt
<1> QED
  BY <1>1, <1>2

\* Type correctness: whatever first sends, retries, receipts, failures and
\* restarts do, every variable keeps its type; a bubble remembers at most
\* PRIOR_MESSAGE_ID_CAP superseded ids, and retry counts and ages stay within the
\* saturation points of backoff_ms and of the claim sweep.
THEOREM TypeCorrect == Spec => []TypeOK
<1>1. Init => TypeOK /\ CopiesBacked
  BY InitInv
<1>2. TypeOK /\ CopiesBacked /\ [Next]_vars => (TypeOK /\ CopiesBacked)'
  BY TypeStep, BackedStep
<1> QED
  BY <1>1, <1>2, PTL DEF Spec

-----------------------------------------------------------------------------
(* Send states are truthful *)

\* How one step may change a bubble in memory and in the vault: the only ways
\* into Sent and Delivered are an acked copy and a matching receipt.
StoreMove(b) ==
    /\ \/ mem'[b] \in {mem[b], disk[b], NoBubble, Queued(b)}
       \/ /\ copies[b] > 0
          /\ \E t \in Task : send[t][b].phase = "acked"
          /\ \E k \in 0..copies[b] : Recordable(b) /\ mem'[b] = Accepted(mem[b], k)
       \/ \E terminal \in BOOLEAN : Recordable(b) /\ mem'[b] = Refused(mem[b], terminal)
       \/ \E k \in arrived[b] : MatchesReceipt(mem[b], k) /\ mem'[b] = Delivered(mem[b])
    /\ disk'[b] \in {disk[b], mem'[b]}

\* A write to one bubble leaves the others alone.
LEMMA SetBubbleMove ==
    ASSUME TypeOK, NEW b \in Bubble, NEW r, SetBubble(b, r)
    PROVE  /\ mem'[b] = r
           /\ \A c \in Bubble \ {b} : mem'[c] = mem[c]
           /\ \A c \in Bubble : disk'[c] \in {disk[c], mem'[c]}
BY DEF TypeOK, SetBubble, Flush

\* Every step of the system changes the store in one of those ways.
LEMMA StoreMoves ==
    ASSUME TypeOK, CopiesBacked, [Next]_vars
    PROVE  \A b \in Bubble : StoreMove(b)
<1>1. CASE UNCHANGED storeVars
  BY <1>1 DEF storeVars, StoreMove
<1>2. ASSUME NEW b \in Bubble, SetBubble(b, Queued(b))
      PROVE  \A c \in Bubble : StoreMove(c)
  BY <1>2, SetBubbleMove DEF StoreMove
<1>3. ASSUME NEW t \in Task, NEW b \in Bubble, NEW id \in 0..MaxCopies,
             RecordSuccess(t, b, id)
      PROVE  \A c \in Bubble : StoreMove(c)
  <2>1. copies[b] > 0 /\ id \in 0..copies[b] /\ send[t][b].phase = "acked"
    BY <1>3, OutboxAssumption DEF RecordSuccess, ReturnedId, CopiesBacked, TypeOK
  <2>2. CASE Recordable(b)
    <3>1. SetBubble(b, Accepted(mem[b], id))
      BY <1>3, <2>2 DEF RecordSuccess, RecordSendOutcome
    <3> QED
      BY <2>1, <2>2, <3>1, SetBubbleMove DEF StoreMove
  <2>3. CASE ~Recordable(b)
    BY <1>1, <1>3, <2>3 DEF RecordSuccess, RecordSendOutcome
  <2> QED
    BY <2>2, <2>3
<1>4. ASSUME NEW t \in Task, NEW b \in Bubble, NEW terminal \in BOOLEAN,
             RecordFailure(t, b, terminal)
      PROVE  \A c \in Bubble : StoreMove(c)
  <2>1. CASE Recordable(b)
    <3>1. SetBubble(b, Refused(mem[b], terminal))
      BY <1>4, <2>1 DEF RecordFailure, RecordSendOutcome
    <3> QED
      BY <2>1, <3>1, SetBubbleMove DEF StoreMove
  <2>2. CASE ~Recordable(b)
    BY <1>1, <1>4, <2>2 DEF RecordFailure, RecordSendOutcome
  <2> QED
    BY <2>1, <2>2
<1>5. ASSUME NEW b \in Bubble, NEW k \in CopyId, ReceiptArrives(b, k)
      PROVE  \A c \in Bubble : StoreMove(c)
  BY <1>5, SetBubbleMove DEF ReceiptArrives, StoreMove
<1>6. ASSUME NEW p \in Peer, DropBubblesForPeer(p)
      PROVE  \A c \in Bubble : StoreMove(c)
  BY <1>6 DEF TypeOK, DropBubblesForPeer, Flush, StoreMove
<1>7. CASE Crash
  BY <1>7 DEF TypeOK, Crash, StoreMove
<1>8. \/ \E b \in Bubble : \/ SetBubble(b, Queued(b))
                          \/ \E k \in CopyId : ReceiptArrives(b, k)
      \/ \E t \in Task, b \in Bubble, id \in 0..MaxCopies : RecordSuccess(t, b, id)
      \/ \E t \in Task, b \in Bubble, terminal \in BOOLEAN : RecordFailure(t, b, terminal)
      \/ \E p \in Peer : DropBubblesForPeer(p)
      \/ Crash
      \/ UNCHANGED storeVars
  BY DEF Next, Compose, Finish, DriverStep, Environment, EnqueueDm, EnqueueGroupCopy,
         Deposit, HandOver, CopyLeaves, AckReturns, AbandonFirstSend, ClaimBatch, SendNext, RetryTick,
         Presence, SweepTick, ManualRetry, StartDriver, BootSweep, EventsOpen,
         EventsUnavailable, BackoffExpires, StreamEnds, MoveLoop, RetryOutbox,
         PeerReceives, Tick, storeVars, vars
<1> QED
  BY <1>1, <1>2, <1>3, <1>4, <1>5, <1>6, <1>7, <1>8

\* Custody and arrivals are facts about the world: no step takes them back.
LEMMA WorldGrows ==
    ASSUME TypeOK, [Next]_vars
    PROVE  \A b \in Bubble : copies[b] <= copies'[b] /\ arrived[b] \subseteq arrived'[b]
<1>1. CASE UNCHANGED <<copies, arrived>>
  BY <1>1 DEF TypeOK
<1>2. ASSUME NEW t \in Task, NEW b \in Bubble, CopyLeaves(t, b)
      PROVE  \A c \in Bubble : copies[c] <= copies'[c] /\ arrived[c] \subseteq arrived'[c]
  BY <1>2 DEF TypeOK, CopyLeaves
<1>3. ASSUME NEW b \in Bubble, NEW k \in CopyId, PeerReceives(b, k)
      PROVE  \A c \in Bubble : copies[c] <= copies'[c] /\ arrived[c] \subseteq arrived'[c]
  BY <1>3 DEF TypeOK, PeerReceives
<1>4. ASSUME NEW t \in Task, NEW b \in Bubble, Finish(t, b)
      PROVE  UNCHANGED <<copies, arrived>>
  BY <1>4 DEF Finish, RecordSuccess, RecordFailure, Conclude
<1>5. \/ \E t \in Task, b \in Bubble : CopyLeaves(t, b) \/ Finish(t, b)
      \/ \E b \in Bubble, k \in CopyId : PeerReceives(b, k)
      \/ UNCHANGED <<copies, arrived>>
  BY DEF Next, Deposit, HandOver, Compose, DriverStep, Environment, EnqueueDm, EnqueueGroupCopy,
         AckReturns, AbandonFirstSend, ClaimBatch, SendNext, RetryTick, Presence,
         SweepTick, ManualRetry, StartDriver, BootSweep, EventsOpen,
         EventsUnavailable, BackoffExpires, StreamEnds, MoveLoop, RetryOutbox,
         ReceiptArrives, DropBubblesForPeer, Crash, Tick, worldVars, vars
<1> QED
  BY <1>1, <1>2, <1>3, <1>4, <1>5

\* A bubble record against the number n of copies in custody and the copies
\* got that arrived: what it shows is true, every id it remembers is a copy in
\* custody, and it remembers superseded ids only behind a current one.
Backed(r, n, got) ==
    /\ r.status \in ReachedRelay => n > 0
    /\ r.status = "Delivered" => Ids(r) \cap got # {}
    /\ Ids(r) \subseteq 1..n
    /\ r.mid = 0 => r.prior = <<>>

\* The strengthening that makes StatesAreTruthful inductive.
RecordsBacked ==
    \A b \in Bubble : /\ Backed(mem[b], copies[b], arrived[b])
                      /\ Backed(disk[b], copies[b], arrived[b])

\* More custody and more arrivals falsify nothing.
LEMMA BackedMonotone ==
    ASSUME NEW r \in BubbleRecord, NEW n \in Nat, NEW m \in Nat, n <= m,
           NEW got, NEW more, got \subseteq more, Backed(r, n, got)
    PROVE  Backed(r, m, more)
<1>1. 1..n \subseteq 1..m
  OBVIOUS
<1> QED
  BY <1>1 DEF Backed

\* Records that name no copy are backed.
LEMMA BackedFresh ==
    ASSUME NEW n \in Nat, NEW got
    PROVE  Backed(NoBubble, n, got) /\ \A b \in Bubble : Backed(Queued(b), n, got)
<1>1. Ids(NoBubble) = {}
  BY DEF NoBubble, Ids
<1>2. \A b \in Bubble : Ids(Queued(b)) = {}
  BY DEF Queued, Ids
<1> QED
  BY <1>1, <1>2 DEF Backed, NoBubble, Queued, ReachedRelay

\* Remembering adds nothing but the superseded id.
LEMMA RememberIds ==
    ASSUME NEW prior \in Seq(CopyId), NEW old \in 0..MaxCopies
    PROVE  \A i \in DOMAIN Remember(prior, old) :
              \/ Remember(prior, old)[i] \in {prior[j] : j \in DOMAIN prior}
              \/ Remember(prior, old)[i] = old /\ old # 0
<1>1. CASE old = 0 \/ \E i \in DOMAIN prior : prior[i] = old
  BY <1>1 DEF Remember
<1>2. CASE ~(old = 0 \/ \E i \in DOMAIN prior : prior[i] = old)
  <2>1. CASE Len(prior) >= PriorCap
    <3>1. prior # <<>>
      BY <2>1, OutboxAssumption
    <3>2. /\ Tail(prior) \in Seq(CopyId)
          /\ Len(Tail(prior)) = Len(prior) - 1
          /\ \A i \in 1..Len(Tail(prior)) : Tail(prior)[i] = prior[i + 1]
      BY <3>1
    <3>3. Remember(prior, old) = Append(Tail(prior), old)
      BY <1>2, <2>1 DEF Remember
    <3>4. ASSUME NEW i \in DOMAIN Append(Tail(prior), old)
          PROVE  \/ Append(Tail(prior), old)[i] \in {prior[j] : j \in DOMAIN prior}
                 \/ Append(Tail(prior), old)[i] = old
      <4>1. CASE i = Len(Tail(prior)) + 1
        BY <3>2, <4>1
      <4>2. CASE i # Len(Tail(prior)) + 1
        <5>1. i \in 1..Len(Tail(prior))
          BY <3>2, <4>2
        <5>2. Append(Tail(prior), old)[i] = prior[i + 1] /\ i + 1 \in DOMAIN prior
          BY <3>2, <5>1
        <5> QED
          BY <5>2
      <4> QED
        BY <4>1, <4>2
    <3> QED
      BY <1>2, <3>3, <3>4
  <2>2. CASE ~(Len(prior) >= PriorCap)
    <3>1. Remember(prior, old) = Append(prior, old)
      BY <1>2, <2>2 DEF Remember
    <3> QED
      BY <1>2, <3>1
  <2> QED
    BY <2>1, <2>2
<1> QED
  BY <1>1, <1>2

\* record_send_outcome with the id of a copy in custody, or with none.
LEMMA BackedAccepted ==
    ASSUME NEW r \in BubbleRecord, NEW n \in Nat, n > 0, NEW got, NEW k \in 0..n,
           Backed(r, n, got)
    PROVE  Backed(Accepted(r, k), n, got)
<1> DEFINE a == Accepted(r, k)
<1>0. CASE k = 0
  <2>1. a.status = "Sent" /\ a.mid = r.mid /\ a.prior = r.prior
    BY <1>0 DEF Accepted, BubbleRecord
  <2>2. Ids(a) = Ids(r)
    BY <2>1 DEF Ids
  <2> HIDE DEF a
  <2>3. Backed(a, n, got)
    BY <2>1, <2>2 DEF Backed
  <2> QED
    BY <2>3 DEF a
<1> SUFFICES ASSUME k # 0
             PROVE  Backed(Accepted(r, k), n, got)
  BY <1>0
<1>1. /\ a.status = "Sent" /\ a.mid = k /\ a.prior = Remember(r.prior, r.mid)
  BY DEF Accepted, BubbleRecord
<1>2. r.prior \in Seq(CopyId) /\ r.mid \in 0..MaxCopies
  BY DEF BubbleRecord
<1>3. \A i \in DOMAIN a.prior : a.prior[i] \in Ids(r)
  BY <1>1, <1>2, RememberIds DEF Ids
<1>4. Ids(a) \subseteq Ids(r) \cup {k}
  BY <1>1, <1>3 DEF Ids
<1> HIDE DEF a
<1> QED
  BY <1>1, <1>4 DEF Backed, ReachedRelay, a

\* A refusal keeps the ids and never leads into Sent or Delivered.
LEMMA BackedRefused ==
    ASSUME NEW r \in BubbleRecord, NEW n \in Nat, NEW got, NEW terminal \in BOOLEAN,
           Backed(r, n, got)
    PROVE  Backed(Refused(r, terminal), n, got)
<1>1. CASE terminal /\ r.status \notin ReachedRelay
  <2> DEFINE f == Refused(r, terminal)
  <2>1. f.status = "Failed" /\ f.mid = r.mid /\ f.prior = r.prior
    BY <1>1 DEF Refused, ReleaseAttachment, BubbleRecord
  <2>2. Ids(f) = Ids(r)
    BY <2>1 DEF Ids
  <2> HIDE DEF f
  <2> QED
    BY <2>1, <2>2 DEF Backed, ReachedRelay, f
<1>2. CASE ~(terminal /\ r.status \notin ReachedRelay)
  BY <1>2 DEF Refused
<1> QED
  BY <1>1, <1>2

\* mark_delivered on a receipt that matches.
LEMMA BackedDelivered ==
    ASSUME NEW r \in BubbleRecord, NEW n \in Nat, NEW got, NEW k \in got,
           MatchesReceipt(r, k), Backed(r, n, got)
    PROVE  Backed(Delivered(r), n, got)
<1> DEFINE d == Delivered(r)
<1>1. d.status = "Delivered" /\ d.mid = r.mid /\ d.prior = r.prior
  BY DEF Delivered, ReleaseAttachment, BubbleRecord
<1>2. Ids(d) = Ids(r)
  BY <1>1 DEF Ids
<1>3. r.mid # 0
  BY DEF MatchesReceipt, Backed, Ids
<1>4. n > 0
  BY <1>3 DEF Backed, Ids
<1> HIDE DEF d
<1> QED
  BY <1>1, <1>2, <1>4 DEF Backed, MatchesReceipt, d

\* Every step keeps every record backed.
LEMMA RecordsBackedStep ==
    ASSUME TypeOK, CopiesBacked, RecordsBacked, [Next]_vars
    PROVE  RecordsBacked'
<1> SUFFICES ASSUME NEW b \in Bubble
             PROVE  /\ Backed(mem'[b], copies'[b], arrived'[b])
                    /\ Backed(disk'[b], copies'[b], arrived'[b])
  BY DEF RecordsBacked
<1>1. /\ mem[b] \in BubbleRecord /\ disk[b] \in BubbleRecord
      /\ mem'[b] \in BubbleRecord /\ disk'[b] \in BubbleRecord
      /\ copies[b] \in Nat /\ copies'[b] \in Nat
  BY TypeStep, OutboxAssumption DEF TypeOK
<1>2. StoreMove(b)
  BY StoreMoves
<1>3. /\ Backed(mem[b], copies[b], arrived[b])
      /\ Backed(disk[b], copies[b], arrived[b])
  BY DEF RecordsBacked
<1>4. Backed(mem'[b], copies[b], arrived[b])
  BY <1>1, <1>2, <1>3, BackedFresh, BackedAccepted, BackedRefused, BackedDelivered
     DEF StoreMove
<1>5. Backed(disk'[b], copies[b], arrived[b])
  BY <1>2, <1>3, <1>4 DEF StoreMove
<1>6. copies[b] <= copies'[b] /\ arrived[b] \subseteq arrived'[b]
  BY WorldGrows
<1> QED
  BY <1>1, <1>4, <1>5, <1>6, BackedMonotone

\* "The user is never told a message made it when it did not": in memory and
\* in the vault, Sent means a relay took a copy or the LAN transport wrote one to
\* the peer's socket, and Delivered means the recipient decrypted one, for any
\* number of messages, copies, racing sends, receipts, vault failures and restarts.
THEOREM TruthfulStates == Spec => []StatesAreTruthful
<1>1. Init => TypeOK /\ CopiesBacked /\ RecordsBacked
  <2> SUFFICES ASSUME Init
               PROVE  TypeOK /\ CopiesBacked /\ RecordsBacked
    OBVIOUS
  <2>1. TypeOK /\ CopiesBacked
    BY InitInv
  <2>2. RecordsBacked
    BY BackedFresh DEF Init, RecordsBacked
  <2> QED
    BY <2>1, <2>2
<1>2. TypeOK /\ CopiesBacked /\ RecordsBacked /\ [Next]_vars
        => (TypeOK /\ CopiesBacked /\ RecordsBacked)'
  BY TypeStep, BackedStep, RecordsBackedStep
<1>3. TypeOK /\ RecordsBacked => StatesAreTruthful
  <2> SUFFICES ASSUME TypeOK, RecordsBacked, NEW b \in Bubble
               PROVE  Truthful(b, mem[b]) /\ Truthful(b, disk[b])
    BY DEF StatesAreTruthful
  <2>1. ASSUME copies[b] > 0
        PROVE  InCustody(b) # {} \/ lan[b] # {}
    <3>1. copies[b] \in 1..copies[b]
      BY <2>1 DEF TypeOK
    <3> QED
      BY <3>1 DEF InCustody
  <2> QED
    BY <2>1 DEF RecordsBacked, Backed, Truthful
<1> QED
  BY <1>1, <1>2, <1>3, PTL DEF Spec

-----------------------------------------------------------------------------
(* The attachment cap *)

\* The bubbles of a map that retain an image.
Holding(map) == {b \in Bubble : map[b].image}

\* The strengthening that makes AttachmentsBounded inductive: what is sealed
\* obeys the same rules, because a restart loads it.
ImagesBounded ==
    /\ Cardinality(Holding(mem)) <= AttachmentCap
    /\ Cardinality(Holding(disk)) <= AttachmentCap
    /\ \A b \in Bubble : /\ mem[b].status \in Terminal => ~mem[b].image
                         /\ disk[b].status \in Terminal => ~disk[b].image

\* Recording an outcome or a receipt never brings an image back.
LEMMA OutcomesShedImages ==
    ASSUME NEW r \in BubbleRecord
    PROVE  /\ \A k \in 0..MaxCopies : Accepted(r, k).image = r.image
           /\ \A terminal \in BOOLEAN : Refused(r, terminal).image => r.image
           /\ ~Delivered(r).image
<1>1. ASSUME NEW k \in 0..MaxCopies
      PROVE  Accepted(r, k).image = r.image
  BY DEF Accepted, BubbleRecord
<1>2. ASSUME NEW terminal \in BOOLEAN
      PROVE  Refused(r, terminal).image => r.image
  BY DEF Refused, ReleaseAttachment, BubbleRecord
<1>3. ~Delivered(r).image
  BY DEF Delivered, ReleaseAttachment, BubbleRecord
<1> QED
  BY <1>1, <1>2, <1>3

\* A message composed without an image retains none.
LEMMA QueuedImage ==
    ASSUME NEW b, b \notin WithImage
    PROVE  ~Queued(b).image
<1>1. (b \in WithImage) = FALSE
  OBVIOUS
<1>2. Queued(b).image = (b \in WithImage)
  BY DEF Queued
<1> QED
  BY <1>1, <1>2

\* A subset of a bounded set of bubbles is bounded.
LEMMA BoundedSubset ==
    ASSUME NEW S \in SUBSET Bubble, NEW R \in SUBSET S, Cardinality(S) <= AttachmentCap
    PROVE  Cardinality(R) <= AttachmentCap
<1>1. IsFiniteSet(S)
  BY OutboxAssumption, FS_Subset
<1>2. IsFiniteSet(R) /\ Cardinality(R) <= Cardinality(S)
  BY <1>1, FS_Subset
<1>3. Cardinality(R) \in Nat /\ Cardinality(S) \in Nat
  BY <1>1, <1>2, FS_CardinalityType
<1> QED
  BY <1>2, <1>3, OutboxAssumption

\* Apart from composing within the cap and loading the vault, no step makes a
\* bubble retain an image it did not retain before.
LEMMA ImagesGrowByComposing ==
    ASSUME TypeOK, CopiesBacked, [Next]_vars
    PROVE  \/ Holding(mem') \subseteq Holding(mem)
           \/ Holding(mem') \subseteq Holding(disk) /\ disk' = disk
           \/ HasAttachmentCapacity /\ \E b \in Bubble : Holding(mem') \subseteq Holding(mem) \cup {b}
<1>1. CASE UNCHANGED mem
  BY <1>1 DEF Holding
<1>2. ASSUME NEW b \in Bubble, EnqueueDm(b)
      PROVE  \/ Holding(mem') \subseteq Holding(mem)
             \/ HasAttachmentCapacity /\ \E c \in Bubble : Holding(mem') \subseteq Holding(mem) \cup {c}
  <2>1. mem'[b] = Queued(b) /\ \A c \in Bubble \ {b} : mem'[c] = mem[c]
    BY <1>2, SetBubbleMove DEF EnqueueDm
  <2>2. CASE b \in WithImage
    <3>1. HasAttachmentCapacity
      BY <1>2, <2>2 DEF EnqueueDm
    <3> QED
      BY <2>1, <3>1 DEF Holding
  <2>3. CASE b \notin WithImage
    <3>1. ~Queued(b).image
      BY <2>3, QueuedImage
    <3> QED
      BY <2>1, <3>1 DEF Holding
  <2> QED
    BY <2>2, <2>3
<1>3. ASSUME NEW b \in Bubble, EnqueueGroupCopy(b)
      PROVE  Holding(mem') \subseteq Holding(mem)
  <2>1. mem'[b] = Queued(b) /\ \A c \in Bubble \ {b} : mem'[c] = mem[c]
    BY <1>3, SetBubbleMove DEF EnqueueGroupCopy
  <2>2. b \notin WithImage
    BY <1>3, OutboxAssumption DEF EnqueueGroupCopy
  <2>3. ~Queued(b).image
    BY <2>2, QueuedImage
  <2> QED
    BY <2>1, <2>3 DEF Holding
<1>4. ASSUME NEW b \in Bubble, NEW r, SetBubble(b, r), r.image => mem[b].image
      PROVE  Holding(mem') \subseteq Holding(mem)
  BY <1>4, SetBubbleMove DEF Holding
<1>5. ASSUME NEW t \in Task, NEW b \in Bubble, NEW id \in 0..MaxCopies,
             RecordSuccess(t, b, id)
      PROVE  Holding(mem') \subseteq Holding(mem)
  <2>1. Accepted(mem[b], id).image => mem[b].image
    BY OutcomesShedImages DEF TypeOK
  <2> QED
    BY <1>1, <1>4, <1>5, <2>1 DEF RecordSuccess, RecordSendOutcome, storeVars
<1>6. ASSUME NEW t \in Task, NEW b \in Bubble, NEW terminal \in BOOLEAN,
             RecordFailure(t, b, terminal)
      PROVE  Holding(mem') \subseteq Holding(mem)
  <2>1. Refused(mem[b], terminal).image => mem[b].image
    BY OutcomesShedImages DEF TypeOK
  <2> QED
    BY <1>1, <1>4, <1>6, <2>1 DEF RecordFailure, RecordSendOutcome, storeVars
<1>7. ASSUME NEW b \in Bubble, NEW k \in CopyId, ReceiptArrives(b, k)
      PROVE  Holding(mem') \subseteq Holding(mem)
  <2>1. Delivered(mem[b]).image => mem[b].image
    BY OutcomesShedImages DEF TypeOK
  <2> QED
    BY <1>4, <1>7, <2>1 DEF ReceiptArrives
<1>8. ASSUME NEW p \in Peer, DropBubblesForPeer(p)
      PROVE  Holding(mem') \subseteq Holding(mem)
  BY <1>8 DEF DropBubblesForPeer, Holding, NoBubble
<1>9. CASE Crash
  BY <1>9 DEF Crash, Holding, NoBubble
<1>10. \/ \E b \in Bubble : \/ EnqueueDm(b) \/ EnqueueGroupCopy(b)
                           \/ \E k \in CopyId : ReceiptArrives(b, k)
       \/ \E t \in Task, b \in Bubble, id \in 0..MaxCopies : RecordSuccess(t, b, id)
       \/ \E t \in Task, b \in Bubble, terminal \in BOOLEAN : RecordFailure(t, b, terminal)
       \/ \E p \in Peer : DropBubblesForPeer(p)
       \/ Crash
       \/ UNCHANGED mem
  BY DEF Next, Compose, Finish, DriverStep, Environment, Deposit, HandOver, CopyLeaves, AckReturns,
         AbandonFirstSend, ClaimBatch, SendNext, RetryTick, Presence, SweepTick,
         ManualRetry, StartDriver, BootSweep, EventsOpen, EventsUnavailable,
         BackoffExpires, StreamEnds, MoveLoop, RetryOutbox, PeerReceives, Tick,
         storeVars, vars
<1> QED
  BY <1>1, <1>2, <1>3, <1>5, <1>6, <1>7, <1>8, <1>9, <1>10

\* The vault holds what it held, or what memory holds.
LEMMA VaultFollows ==
    ASSUME [Next]_vars
    PROVE  disk' = disk \/ disk' = mem'
BY DEF Next, Compose, Finish, DriverStep, Environment, EnqueueDm, EnqueueGroupCopy,
       SetBubble, Flush, RecordSuccess, RecordFailure, RecordSendOutcome,
       ReceiptArrives, DropBubblesForPeer, Crash, Deposit, HandOver, CopyLeaves, AckReturns,
       AbandonFirstSend, ClaimBatch, SendNext, RetryTick, Presence, SweepTick,
       ManualRetry, StartDriver, BootSweep, EventsOpen, EventsUnavailable,
       BackoffExpires, StreamEnds, MoveLoop, RetryOutbox, PeerReceives, Tick,
       storeVars, vars

\* Every step keeps the images within the cap and off terminal bubbles.
LEMMA ImagesBoundedStep ==
    ASSUME TypeOK, CopiesBacked, ImagesBounded, [Next]_vars
    PROVE  ImagesBounded'
<1>1. Cardinality(Holding(mem')) <= AttachmentCap
  <2>1. CASE Holding(mem') \subseteq Holding(mem)
    BY <2>1, BoundedSubset DEF Holding, ImagesBounded
  <2>2. CASE Holding(mem') \subseteq Holding(disk)
    BY <2>2, BoundedSubset DEF Holding, ImagesBounded
  <2>3. ASSUME HasAttachmentCapacity, NEW b \in Bubble,
               Holding(mem') \subseteq Holding(mem) \cup {b}
        PROVE  Cardinality(Holding(mem')) <= AttachmentCap
    <3>1. Holding(mem) \in SUBSET Bubble /\ IsFiniteSet(Holding(mem))
      BY OutboxAssumption, FS_Subset DEF Holding
    <3>2. Cardinality(Holding(mem)) \in Nat /\ Cardinality(Holding(mem)) < AttachmentCap
      BY <2>3, <3>1, FS_CardinalityType DEF HasAttachmentCapacity, Holding
    <3>3. Cardinality(Holding(mem) \cup {b}) <= Cardinality(Holding(mem)) + 1
      <4> DEFINE H == Holding(mem)
      <4>1. Cardinality(H \cup {b}) = IF b \in H THEN Cardinality(H) ELSE Cardinality(H) + 1
        BY <3>1, FS_AddElement
      <4> HIDE DEF H
      <4> QED
        BY <3>2, <4>1 DEF H
    <3>4. IsFiniteSet(Holding(mem) \cup {b}) /\ Cardinality(Holding(mem) \cup {b}) \in Nat
      BY <3>1, FS_AddElement, FS_CardinalityType
    <3>5. Cardinality(Holding(mem) \cup {b}) <= AttachmentCap
      BY <3>2, <3>3, <3>4, OutboxAssumption
    <3>6. Holding(mem) \cup {b} \in SUBSET Bubble
      BY <3>1
    <3> QED
      BY <2>3, <3>5, <3>6, BoundedSubset
  <2> QED
    BY <2>1, <2>2, <2>3, ImagesGrowByComposing
<1>2. Cardinality(Holding(disk')) <= AttachmentCap
  BY <1>1, VaultFollows DEF ImagesBounded
<1>3. ASSUME NEW b \in Bubble
      PROVE  /\ mem'[b].status \in Terminal => ~mem'[b].image
             /\ disk'[b].status \in Terminal => ~disk'[b].image
  <2>1. StoreMove(b) /\ mem[b] \in BubbleRecord /\ disk[b] \in BubbleRecord
    BY StoreMoves DEF TypeOK
  <2>2. /\ mem[b].status \in Terminal => ~mem[b].image
        /\ disk[b].status \in Terminal => ~disk[b].image
    BY DEF ImagesBounded
  <2>3. NoBubble.status \notin Terminal /\ Queued(b).status \notin Terminal
    BY DEF NoBubble, Queued, Terminal
  <2>4. \A k : Accepted(mem[b], k).status = "Sent"
    BY <2>1 DEF Accepted, BubbleRecord
  <2>5. \A terminal \in BOOLEAN :
            Refused(mem[b], terminal) = mem[b] \/ ~Refused(mem[b], terminal).image
    BY <2>1 DEF Refused, ReleaseAttachment, BubbleRecord
  <2>6. ~Delivered(mem[b]).image
    BY <2>1, OutcomesShedImages
  <2>7. mem'[b].status \in Terminal => ~mem'[b].image
    BY <2>1, <2>2, <2>3, <2>4, <2>5, <2>6 DEF StoreMove, Terminal
  <2> QED
    BY <2>1, <2>2, <2>7 DEF StoreMove
<1> QED
  BY <1>1, <1>2, <1>3 DEF ImagesBounded, Holding

\* ATTACHMENT_BUBBLE_CAP holds in memory and in the vault for any number of
\* composed images, and no terminal bubble uses up the cap.
THEOREM AttachmentCapHolds == Spec => []AttachmentsBounded
<1>1. Init => TypeOK /\ CopiesBacked /\ ImagesBounded
  <2> SUFFICES ASSUME Init
               PROVE  TypeOK /\ CopiesBacked /\ ImagesBounded
    OBVIOUS
  <2>1. TypeOK /\ CopiesBacked
    BY InitInv
  <2>2. Holding(mem) = {} /\ Holding(disk) = {}
    BY DEF Init, Holding, NoBubble
  <2>3. \A b \in Bubble : mem[b].status \notin Terminal /\ disk[b].status \notin Terminal
    BY DEF Init, NoBubble, Terminal
  <2>4. ImagesBounded
    BY <2>2, <2>3, FS_EmptySet, OutboxAssumption DEF ImagesBounded
  <2> QED
    BY <2>1, <2>4
<1>2. TypeOK /\ CopiesBacked /\ ImagesBounded /\ [Next]_vars
        => (TypeOK /\ CopiesBacked /\ ImagesBounded)'
  BY TypeStep, BackedStep, ImagesBoundedStep
<1>3. ImagesBounded => AttachmentsBounded
  BY DEF ImagesBounded, AttachmentsBounded, Holding
<1> QED
  BY <1>1, <1>2, <1>3, PTL DEF Spec

-----------------------------------------------------------------------------
(* The in-flight claim guards the first send *)

\* Nothing exists of a message before it is composed: no record, no attempt
\* and no place in the driver's batch.
ComposedFirst ==
    \A b \in Bubble :
        \/ Present(b) \/ disk[b].status # "Absent"
        \/ b \in batch \/ \E t \in Task : Live(t, b)
        => b \in composed

\* How the attempts on one bubble may change in a step.
LEMMA AttemptStarts ==
    ASSUME TypeOK, [Next]_vars, NEW t \in Task, NEW b \in Bubble, ~Live(t, b), Live(t, b)'
    PROVE  \/ t = "initial" /\ EnqueueDm(b)
           \/ t = "driver" /\ SendNext(b)
<1> USE DEF Live
<1>1. CASE UNCHANGED send
  BY <1>1
<1>2. ASSUME NEW c \in Bubble, EnqueueDm(c)
      PROVE  t = "initial" /\ c = b
  BY <1>2 DEF TypeOK, EnqueueDm
<1>3. ASSUME NEW c \in Bubble, SendNext(c)
      PROVE  t = "driver" /\ c = b
  BY <1>3 DEF TypeOK, SendNext
<1>4. ASSUME NEW u \in Task, NEW c \in Bubble, CopyLeaves(u, c) \/ AckReturns(u, c)
      PROVE  FALSE
  <2>1. \A v \in Task, d \in Bubble : <<v, d>> # <<u, c>> => send'[v][d] = send[v][d]
    BY <1>4 DEF TypeOK, CopyLeaves, AckReturns
  <2>2. send[u][c].phase # "none"
    BY <1>4 DEF CopyLeaves, AckReturns
  <2> QED
    BY <2>1, <2>2
<1>5. ASSUME NEW u \in Task, NEW c \in Bubble, Finish(u, c)
      PROVE  FALSE
  <2>1. Conclude(u, c)
    BY <1>5 DEF Finish, RecordSuccess, RecordFailure
  <2> QED
    BY <2>1 DEF TypeOK, Conclude, NoAttempt
<1>6. ASSUME NEW c \in Bubble, AbandonFirstSend(c)
      PROVE  FALSE
  BY <1>6 DEF TypeOK, AbandonFirstSend, NoAttempt
<1>7. CASE StartDriver
  BY <1>7 DEF TypeOK, StartDriver, NoAttempt
<1>8. CASE Crash
  BY <1>8 DEF Crash, NoAttempt
<1>9. \/ \E c \in Bubble : \/ EnqueueDm(c) \/ AbandonFirstSend(c) \/ SendNext(c)
      \/ \E u \in Task, c \in Bubble : CopyLeaves(u, c) \/ AckReturns(u, c) \/ Finish(u, c)
      \/ StartDriver \/ Crash
      \/ UNCHANGED send
  BY DEF Next, Deposit, HandOver, Compose, DriverStep, Environment, EnqueueGroupCopy, ClaimBatch,
         RetryTick, Presence, SweepTick, ManualRetry, BootSweep, EventsOpen,
         EventsUnavailable, BackoffExpires, StreamEnds, MoveLoop, RetryOutbox,
         PeerReceives, ReceiptArrives, DropBubblesForPeer, Tick, vars
<1> QED
  BY <1>1, <1>2, <1>3, <1>4, <1>5, <1>6, <1>7, <1>8, <1>9

\* A send attempt on its way composes nothing and leaves the batch alone.
LEMMA SendsKeepComposed ==
    ASSUME NEW t \in Task, NEW b \in Bubble,
           Deposit(t, b) \/ HandOver(t, b) \/ AckReturns(t, b) \/ Finish(t, b)
    PROVE  UNCHANGED <<composed, batch>>
BY DEF Deposit, HandOver, CopyLeaves, AckReturns, Finish, RecordSuccess,
       RecordFailure, Conclude, flushVars

\* Only a claim puts a bubble into the driver's batch.
LEMMA BatchShrinks ==
    ASSUME [Next]_vars, ~\E p \in Peer : ClaimBatch(p)
    PROVE  batch' \subseteq batch
BY SendsKeepComposed
   DEF Next, Compose, DriverStep, Environment, EnqueueDm, EnqueueGroupCopy,
       AbandonFirstSend, SendNext, RetryTick, Presence, SweepTick, ManualRetry,
       StartDriver, BootSweep, EventsOpen, EventsUnavailable, BackoffExpires,
       StreamEnds, MoveLoop, RetryOutbox, PeerReceives, ReceiptArrives,
       DropBubblesForPeer, Crash, Tick, flushVars, vars

\* Every step keeps it so: records come from composing or from the vault, and
\* the driver claims only what it finds in the store.
LEMMA ComposedStep ==
    ASSUME TypeOK, CopiesBacked, ComposedFirst, [Next]_vars
    PROVE  ComposedFirst'
<1>1. composed \subseteq composed'
  BY SendsKeepComposed
     DEF Next, Compose, DriverStep, Environment, EnqueueDm, EnqueueGroupCopy,
         AbandonFirstSend, ClaimBatch, SendNext, RetryTick, Presence, SweepTick,
         ManualRetry, StartDriver, BootSweep, EventsOpen, EventsUnavailable,
         BackoffExpires, StreamEnds, MoveLoop, RetryOutbox, PeerReceives,
         ReceiptArrives, DropBubblesForPeer, Crash, Tick, vars
<1>2. ASSUME NEW b \in Bubble, mem'[b].status # "Absent" \/ disk'[b].status # "Absent"
      PROVE  b \in composed'
  <2>1. ASSUME NEW c \in Bubble, EnqueueDm(c) \/ EnqueueGroupCopy(c)
        PROVE  b \in composed'
    <3>1. c \in composed'
      BY <2>1 DEF EnqueueDm, EnqueueGroupCopy
    <3>2. CASE b # c
      <4>1. mem'[b] = mem[b] /\ disk'[b] \in {disk[b], mem'[b]}
        BY <2>1, <3>2, SetBubbleMove DEF EnqueueDm, EnqueueGroupCopy
      <4> QED
        BY <1>1, <1>2, <4>1 DEF ComposedFirst, Present
    <3> QED
      BY <3>1, <3>2
  <2>2. CASE ~\E c \in Bubble : EnqueueDm(c) \/ EnqueueGroupCopy(c)
    <3>1. mem'[b].status # "Absent" => mem[b].status # "Absent" \/ disk[b].status # "Absent"
      <4>1. CASE \A c \in Bubble : mem'[c] = mem[c]
        BY <4>1
      <4>2. ASSUME NEW c \in Bubble, NEW r, SetBubble(c, r), mem[c].status # "Absent"
            PROVE  mem'[b].status # "Absent" => mem[b].status # "Absent"
        BY <4>2, SetBubbleMove
      <4>3. ASSUME NEW t \in Task, NEW c \in Bubble, Finish(t, c)
            PROVE  mem'[b].status # "Absent" => mem[b].status # "Absent"
        BY <4>1, <4>2, <4>3
           DEF Finish, RecordSuccess, RecordFailure, RecordSendOutcome, Recordable,
               Present, storeVars
      <4>4. ASSUME NEW c \in Bubble, NEW k \in CopyId, ReceiptArrives(c, k)
            PROVE  mem'[b].status # "Absent" => mem[b].status # "Absent"
        BY <4>2, <4>4 DEF ReceiptArrives, Present
      <4>5. ASSUME NEW p \in Peer, DropBubblesForPeer(p)
            PROVE  mem'[b].status # "Absent" => mem[b].status # "Absent"
        BY <4>5 DEF DropBubblesForPeer, NoBubble
      <4>6. CASE Crash
        BY <4>6 DEF Crash, NoBubble
      <4>7. \/ \E t \in Task, c \in Bubble : Finish(t, c)
            \/ \E c \in Bubble, k \in CopyId : ReceiptArrives(c, k)
            \/ \E p \in Peer : DropBubblesForPeer(p)
            \/ Crash
            \/ mem' = mem
        BY <2>2
           DEF Next, Compose, DriverStep, Environment, Deposit, HandOver, CopyLeaves, AckReturns,
               AbandonFirstSend, ClaimBatch, SendNext, RetryTick, Presence, SweepTick,
               ManualRetry, StartDriver, BootSweep, EventsOpen, EventsUnavailable,
               BackoffExpires, StreamEnds, MoveLoop, RetryOutbox, PeerReceives, Tick,
               storeVars, vars
      <4> QED
        BY <4>1, <4>3, <4>4, <4>5, <4>6, <4>7
    <3>2. disk'[b] = disk[b] \/ disk'[b] = mem'[b]
      BY VaultFollows
    <3> QED
      BY <1>1, <1>2, <3>1, <3>2 DEF ComposedFirst, Present
  <2> QED
    BY <2>1, <2>2
<1>3. ASSUME NEW b \in Bubble, b \in batch'
      PROVE  b \in composed'
  <2>1. ASSUME NEW p \in Peer, ClaimBatch(p)
        PROVE  b \in composed'
    <3>1. IsRetryable(b)
      BY <1>3, <2>1 DEF ClaimBatch, Eligible, IsQueuedRetryable
    <3>2. Present(b)
      BY <3>1 DEF IsRetryable, Present
    <3> QED
      BY <1>1, <3>2 DEF ComposedFirst
  <2>2. CASE ~\E p \in Peer : ClaimBatch(p)
    <3>1. batch' \subseteq batch
      BY <2>2, BatchShrinks
    <3> QED
      BY <1>1, <1>3, <3>1 DEF ComposedFirst
  <2> QED
    BY <2>1, <2>2
<1>4. ASSUME NEW b \in Bubble, NEW t \in Task, Live(t, b)'
      PROVE  b \in composed'
  <2>1. CASE Live(t, b)
    BY <1>1, <2>1 DEF ComposedFirst
  <2>2. CASE ~Live(t, b)
    <3>1. b \in batch \/ EnqueueDm(b)
      BY <1>4, <2>2, AttemptStarts DEF SendNext
    <3> QED
      BY <1>1, <3>1 DEF ComposedFirst, EnqueueDm
  <2> QED
    BY <2>1, <2>2
<1> QED
  BY <1>2, <1>3, <1>4 DEF ComposedFirst, Present

\* A claim is a time stamp, never the mark of its absence.
LEMMA AgesAreClaims == \A age \in 0..AgeCap : age # Unclaimed
BY AgeTypes DEF Unclaimed

\* Every step keeps the claim of an unswept first send, and the driver off it.
LEMMA GuardStep ==
    ASSUME TypeOK, ComposedFirst, ClaimGuardsFirstSend, [Next]_vars
    PROVE  ClaimGuardsFirstSend'
<1> SUFFICES ASSUME NEW b \in Bubble, Live("initial", b)', b \notin released'
             PROVE  claim'[b] # Unclaimed /\ b \notin batch' /\ ~Live("driver", b)'
  BY DEF ClaimGuardsFirstSend
<1>0. claim \in [Bubble -> {Unclaimed} \cup 0..AgeCap]
  BY DEF TypeOK
<1>1. CASE ~Live("initial", b)
  <2>1. EnqueueDm(b)
    BY <1>1, AttemptStarts DEF Task
  <2>2. claim'[b] # Unclaimed
    BY <2>1, AgesAreClaims, AgeTypes DEF EnqueueDm, Stamp
  <2>3. b \notin batch' /\ ~Live("driver", b)'
    <3>1. b \notin batch /\ ~Live("driver", b)
      BY <2>1 DEF EnqueueDm, ComposedFirst, Task
    <3> QED
      BY <2>1, <3>1 DEF EnqueueDm, flushVars, Live, TypeOK, Task
  <2> QED
    BY <2>2, <2>3
<1>2. ASSUME NEW t \in Task, NEW c \in Bubble, Finish(t, c)
      PROVE  /\ Conclude(t, c)
             /\ send[t][c].phase # "none"
             /\ c = b => t # "initial"
  <2>1. Conclude(t, c) /\ send[t][c].phase # "none"
    BY <1>2 DEF Finish, RecordSuccess, RecordFailure
  <2>2. send'[t][c] = NoAttempt
    BY <2>1 DEF Conclude, TypeOK
  <2> QED
    BY <2>1, <2>2 DEF Live, NoAttempt
<1>3. ~Crash
  BY DEF Crash, Live, NoAttempt, Task
<1>4. ~AbandonFirstSend(b)
  BY DEF AbandonFirstSend, Live, NoAttempt, Task, TypeOK
<1>5. b \notin released
  <2>1. ASSUME NEW t \in Task, NEW c \in Bubble, Finish(t, c)
        PROVE  b \in released => b \in released'
    BY <1>2, <2>1 DEF Conclude
  <2>2. ASSUME NEW c \in Bubble, AbandonFirstSend(c)
        PROVE  b \in released => b \in released'
    BY <1>4, <2>2 DEF AbandonFirstSend
  <2>3. \/ \E t \in Task, c \in Bubble : Finish(t, c)
        \/ \E c \in Bubble : AbandonFirstSend(c)
        \/ released \subseteq released'
    BY <1>3
       DEF Next, Compose, DriverStep, Environment, EnqueueDm, EnqueueGroupCopy,
           Deposit, HandOver, CopyLeaves, AckReturns, ClaimBatch, SendNext, RetryTick, Presence, SweepTick,
           ManualRetry, StartDriver, BootSweep, SweepClaims, EventsOpen,
           EventsUnavailable, BackoffExpires, StreamEnds, MoveLoop, RetryOutbox,
           PeerReceives, ReceiptArrives, DropBubblesForPeer, Tick, vars
  <2> QED
    BY <2>1, <2>2, <2>3
<1>6. CASE Live("initial", b)
  <2>1. claim[b] # Unclaimed /\ b \notin batch /\ ~Live("driver", b)
    BY <1>5, <1>6 DEF ClaimGuardsFirstSend
  <2>2. claim[b] \in 0..AgeCap
    BY <1>0, <2>1
  <2>3. claim'[b] # Unclaimed
    <3>1. ASSUME NEW t \in Task, NEW c \in Bubble, Finish(t, c)
          PROVE  claim'[b] # Unclaimed
      <4>1. c # b
        BY <1>2, <2>1, <3>1 DEF Live, Task
      <4> QED
        BY <1>2, <1>0, <2>1, <3>1, <4>1 DEF Conclude, ClearInflight
    <3>2. ASSUME NEW c \in Bubble, EnqueueDm(c)
          PROVE  claim'[b] # Unclaimed
      BY <2>1, <3>2, AgesAreClaims, AgeTypes DEF EnqueueDm, Stamp
    <3>3. ASSUME NEW p \in Peer, ClaimBatch(p)
          PROVE  claim'[b] # Unclaimed
      <4>1. flush.age # Unclaimed
        BY AgesAreClaims DEF TypeOK, FlushRecord
      <4> QED
        BY <2>1, <3>3, <4>1 DEF ClaimBatch, Stamp
    <3>4. CASE SweepTick \/ BootSweep
      <4>1. PICK ids : SweepClaims(ids)
        BY <3>4 DEF SweepTick, BootSweep
      <4>2. b \notin ids
        BY <1>6, <4>1 DEF SweepClaims
      <4> QED
        BY <2>1, <4>1, <4>2 DEF SweepClaims
    <3>5. CASE Tick
      BY <2>1, <2>2, <3>5, AgeTypes, AgesAreClaims DEF Tick
    <3>6. \/ \E t \in Task, c \in Bubble : Finish(t, c)
          \/ \E c \in Bubble : EnqueueDm(c)
          \/ \E p \in Peer : ClaimBatch(p)
          \/ SweepTick \/ BootSweep \/ Tick
          \/ claim' = claim
      BY <1>3
         DEF Next, Compose, DriverStep, Environment, EnqueueGroupCopy, Deposit, HandOver, CopyLeaves,
             AckReturns, AbandonFirstSend, SendNext, RetryTick, Presence, ManualRetry,
             StartDriver, EventsOpen, EventsUnavailable, BackoffExpires, StreamEnds,
             MoveLoop, RetryOutbox, PeerReceives, ReceiptArrives, DropBubblesForPeer,
             vars
    <3> QED
      BY <2>1, <3>1, <3>2, <3>3, <3>4, <3>5, <3>6
  <2>4. b \notin batch'
    <3>1. ASSUME NEW p \in Peer, ClaimBatch(p)
          PROVE  b \notin batch'
      BY <2>1, <3>1 DEF ClaimBatch, NewlyClaimed
    <3>2. CASE ~\E p \in Peer : ClaimBatch(p)
      BY <2>1, <3>2, BatchShrinks
    <3> QED
      BY <3>1, <3>2
  <2>5. ~Live("driver", b)'
    BY <2>1, AttemptStarts DEF SendNext, Task
  <2> QED
    BY <2>3, <2>4, <2>5
<1> QED
  BY <1>1, <1>6

\* While its first send runs unswept, a message is claimed and the driver has
\* neither a send nor a batch entry for it: under every interleaving of first
\* sends, flushes, sweeps, driver restarts and crashes, the claim is enough.
THEOREM FirstSendGuarded == Spec => []ClaimGuardsFirstSend
<1> DEFINE Inv == TypeOK /\ CopiesBacked /\ ComposedFirst /\ ClaimGuardsFirstSend
<1>1. Init => Inv
  <2> SUFFICES ASSUME Init
               PROVE  Inv
    OBVIOUS
  <2>1. \A t \in Task, b \in Bubble : ~Live(t, b)
    BY DEF Init, Live, NoAttempt
  <2>2. ComposedFirst
    BY <2>1 DEF Init, ComposedFirst, Present, NoBubble
  <2>3. ClaimGuardsFirstSend
    BY <2>1 DEF ClaimGuardsFirstSend, Task
  <2> QED
    BY <2>2, <2>3, InitInv
<1>2. Inv /\ [Next]_vars => Inv'
  BY TypeStep, BackedStep, ComposedStep, GuardStep
<1>3. Inv => ClaimGuardsFirstSend
  OBVIOUS
<1> QED
  BY <1>1, <1>2, <1>3, PTL DEF Spec
-----------------------------------------------------------------------------
(* No image disappears silently *)

\* The bubbles whose image left with a send that returned Ok: its history entry
\* was written, or its absence is on record.
Answered == transcript \cup unanchored

\* What a record of bubble b owes its image: ids come only with a send that was
\* answered, and an image that is not on the record was answered for or is
\* flagged.
ImageKept(b, r) ==
    /\ Ids(r) # {} => b \in Answered
    /\ r.status # "Absent" => \/ r.image
                              \/ b \in Answered
                              \/ r.status = "Failed" /\ r.dropped

\* The strengthening that makes ImagesAccountedFor inductive.
ImagesKept ==
    \A b \in WithImage :
        /\ ImageKept(b, mem[b]) /\ ImageKept(b, disk[b])
        /\ \A t \in Task : send[t][b].phase = "acked" => b \in Answered

\* An answer is never taken back, and an attempt is acked only by the step that
\* pushes the entry or fails to.
LEMMA AnsweredGrows ==
    ASSUME TypeOK, [Next]_vars
    PROVE  /\ Answered \subseteq Answered'
           /\ \A t \in Task, b \in WithImage :
                 send'[t][b].phase = "acked" => send[t][b].phase = "acked" \/ b \in Answered'
<1> DEFINE Goal == /\ Answered \subseteq Answered'
                   /\ \A t \in Task, b \in WithImage :
                         send'[t][b].phase = "acked" =>
                             send[t][b].phase = "acked" \/ b \in Answered'
<1>0. WithImage \subseteq Bubble
  BY OutboxAssumption
<1>1. CASE UNCHANGED <<send, transcript, unanchored>>
  BY <1>1 DEF Answered
<1>2. ASSUME NEW u \in Task, NEW c \in Bubble, AckReturns(u, c)
      PROVE  Goal
  <2>1. Answered' = Answered \cup ({c} \cap WithImage)
    BY <1>2 DEF AckReturns, Answered
  <2>2. \A t \in Task, b \in Bubble : <<t, b>> # <<u, c>> => send'[t][b] = send[t][b]
    BY <1>2 DEF TypeOK, AckReturns
  <2> QED
    BY <1>0, <2>1, <2>2
<1>3. ASSUME UNCHANGED <<transcript, unanchored>>,
             \A t \in Task, b \in Bubble :
                send'[t][b] = send[t][b] \/ send'[t][b].phase # "acked"
      PROVE  Goal
  BY <1>0, <1>3 DEF Answered
<1>4. ASSUME NEW c \in Bubble, EnqueueDm(c) \/ SendNext(c) \/ AbandonFirstSend(c)
      PROVE  Goal
  <2>1. UNCHANGED <<transcript, unanchored>>
    BY <1>4 DEF EnqueueDm, SendNext, AbandonFirstSend, worldVars
  <2>2. PICK u \in Task, a \in {Starting, NoAttempt} : send' = [send EXCEPT ![u][c] = a]
    BY <1>4 DEF EnqueueDm, SendNext, AbandonFirstSend, Task
  <2>3. a.phase # "acked"
    BY DEF Starting, NoAttempt
  <2>4. \A t \in Task, b \in Bubble : send'[t][b] = send[t][b] \/ send'[t][b] = a
    BY <2>2 DEF TypeOK
  <2> QED
    BY <1>3, <2>1, <2>3, <2>4
<1>5. ASSUME NEW u \in Task, NEW c \in Bubble, CopyLeaves(u, c)
      PROVE  Goal
  <2>1. send'[u][c].phase = "deposited"
    BY <1>5 DEF TypeOK, CopyLeaves
  <2>2. \A t \in Task, b \in Bubble : <<t, b>> # <<u, c>> => send'[t][b] = send[t][b]
    BY <1>5 DEF TypeOK, CopyLeaves
  <2> QED
    BY <1>3, <1>5, <2>1, <2>2 DEF CopyLeaves
<1>6. ASSUME NEW u \in Task, NEW c \in Bubble, Finish(u, c)
      PROVE  Goal
  <2>1. Conclude(u, c)
    BY <1>6 DEF Finish, RecordSuccess, RecordFailure
  <2> QED
    BY <1>3, <2>1 DEF TypeOK, Conclude, NoAttempt
<1>7. CASE StartDriver
  BY <1>3, <1>7 DEF TypeOK, StartDriver, NoAttempt, worldVars
<1>8. CASE Crash
  BY <1>3, <1>8 DEF Crash, NoAttempt, worldVars
<1>9. \/ \E c \in Bubble : \/ EnqueueDm(c) \/ AbandonFirstSend(c) \/ SendNext(c)
      \/ \E u \in Task, c \in Bubble : CopyLeaves(u, c) \/ AckReturns(u, c) \/ Finish(u, c)
      \/ StartDriver \/ Crash
      \/ UNCHANGED <<send, transcript, unanchored>>
  BY DEF Next, Deposit, HandOver, Compose, DriverStep, Environment,
         EnqueueGroupCopy, ClaimBatch, RetryTick, Presence, SweepTick, ManualRetry,
         BootSweep, EventsOpen,
         EventsUnavailable, BackoffExpires, StreamEnds, MoveLoop, RetryOutbox,
         PeerReceives, ReceiptArrives, DropBubblesForPeer, Tick, worldVars, vars
<1> QED
  BY <1>1, <1>2, <1>4, <1>5, <1>6, <1>7, <1>8, <1>9

\* Every step keeps every image accounted for: a bubble that never was acked
\* has no id, so neither an acceptance nor a receipt can touch it, and a
\* refusal flags what it drops.
LEMMA ImagesKeptStep ==
    ASSUME TypeOK, CopiesBacked, ImagesKept, [Next]_vars
    PROVE  ImagesKept'
<1> SUFFICES ASSUME NEW b \in WithImage
             PROVE  /\ ImageKept(b, mem[b])' /\ ImageKept(b, disk[b])'
                    /\ \A t \in Task : send'[t][b].phase = "acked" => b \in Answered'
  BY DEF ImagesKept, Task
<1>1. b \in Bubble /\ mem[b] \in BubbleRecord /\ disk[b] \in BubbleRecord
  BY OutboxAssumption DEF TypeOK
<1>2. /\ Answered \subseteq Answered'
      /\ \A t \in Task : send'[t][b].phase = "acked" =>
             send[t][b].phase = "acked" \/ b \in Answered'
  BY AnsweredGrows
<1>3. \A t \in Task : send'[t][b].phase = "acked" => b \in Answered'
  BY <1>2 DEF ImagesKept
<1>4. CASE b \in Answered'
  BY <1>3, <1>4 DEF ImageKept
<1>5. CASE b \notin Answered'
  <2>1. /\ b \notin Answered /\ ~\E t \in Task : send[t][b].phase = "acked"
        /\ Ids(mem[b]) = {} /\ Ids(disk[b]) = {}
        /\ mem[b].status # "Absent" => mem[b].image \/ (mem[b].status = "Failed" /\ mem[b].dropped)
        /\ disk[b].status # "Absent" => disk[b].image \/ (disk[b].status = "Failed" /\ disk[b].dropped)
    BY <1>2, <1>5 DEF ImagesKept, ImageKept
  <2>2. StoreMove(b)
    BY <1>1, StoreMoves
  <2>3. \/ mem'[b] \in {mem[b], disk[b], NoBubble, Queued(b)}
        \/ \E terminal \in BOOLEAN : Recordable(b) /\ mem'[b] = Refused(mem[b], terminal)
    BY <2>1, <2>2 DEF StoreMove, MatchesReceipt
  <2>4. Ids(NoBubble) = {} /\ NoBubble.status = "Absent"
    BY DEF NoBubble, Ids
  <2>5. Ids(Queued(b)) = {} /\ Queued(b).image
    <3>1. Queued(b).image = (b \in WithImage) /\ (b \in WithImage) = TRUE
      BY DEF Queued
    <3>2. Queued(b).mid = 0 /\ Queued(b).prior = <<>>
      BY DEF Queued
    <3>3. Ids(Queued(b)) = {}
      BY <3>2 DEF Ids
    <3> QED
      BY <3>1, <3>3
  <2>6. ASSUME NEW terminal \in BOOLEAN, Recordable(b)
        PROVE  /\ Ids(Refused(mem[b], terminal)) = {}
               /\ \/ Refused(mem[b], terminal).image
                  \/ /\ Refused(mem[b], terminal).status = "Failed"
                     /\ Refused(mem[b], terminal).dropped
    <3>1. mem[b].image
      BY <2>1, <2>6 DEF Recordable, Present, Terminal
    <3>2. CASE terminal /\ mem[b].status \notin ReachedRelay
      <4> DEFINE f == Refused(mem[b], terminal)
      <4>1. /\ f.status = "Failed" /\ f.dropped
            /\ f.mid = mem[b].mid /\ f.prior = mem[b].prior
        BY <1>1, <3>1, <3>2 DEF Refused, ReleaseAttachment, BubbleRecord
      <4>2. Ids(f) = Ids(mem[b])
        BY <4>1 DEF Ids
      <4> QED
        BY <2>1, <4>1, <4>2
    <3>3. CASE ~(terminal /\ mem[b].status \notin ReachedRelay)
      BY <2>1, <3>1, <3>3 DEF Refused
    <3> QED
      BY <3>2, <3>3
  <2>7. /\ Ids(mem'[b]) = {}
        /\ mem'[b].status # "Absent" =>
              mem'[b].image \/ (mem'[b].status = "Failed" /\ mem'[b].dropped)
    BY <2>1, <2>3, <2>4, <2>5, <2>6
  <2>8. disk'[b] \in {disk[b], mem'[b]}
    BY <2>2 DEF StoreMove
  <2>9. ImageKept(b, mem[b])' /\ ImageKept(b, disk[b])'
    BY <2>1, <2>7, <2>8 DEF ImageKept
  <2> QED
    BY <1>3, <2>9
<1> QED
  BY <1>4, <1>5

\* An image disappears silently only when the history entry of a send that
\* returned Ok was not written (Endpoint::send logs it and goes on): for any
\* number of images, races, vault failures and restarts.
THEOREM ImagesStayAccountedFor == Spec => []ImagesAccountedFor
<1>1. Init => TypeOK /\ CopiesBacked /\ ImagesKept
  <2> SUFFICES ASSUME Init
               PROVE  TypeOK /\ CopiesBacked /\ ImagesKept
    OBVIOUS
  <2>1. TypeOK /\ CopiesBacked
    BY InitInv
  <2>2. Ids(NoBubble) = {} /\ NoBubble.status = "Absent"
    BY DEF NoBubble, Ids
  <2>3. ImagesKept
    BY <2>2, OutboxAssumption DEF Init, ImagesKept, ImageKept, NoAttempt
  <2> QED
    BY <2>1, <2>3
<1>2. TypeOK /\ CopiesBacked /\ ImagesKept /\ [Next]_vars
        => (TypeOK /\ CopiesBacked /\ ImagesKept)'
  BY TypeStep, BackedStep, ImagesKeptStep
<1>3. ImagesKept => ImagesAccountedFor
  BY DEF ImagesKept, ImageKept, ImagesAccountedFor, Present, Answered
<1> QED
  BY <1>1, <1>2, <1>3, PTL DEF Spec

-----------------------------------------------------------------------------
(* What the recorded ids are, while the vault works *)

\* With a working vault the disk is never behind memory, so a restart changes
\* nothing.
VaultCurrent == disk = mem

\* A message whose acceptance was recorded reads so until it is dropped, and
\* nothing was recorded of a message before it is composed.
AcceptanceShows ==
    \A b \in Bubble :
        /\ b \notin composed => ackLog[b] = <<>>
        /\ ackLog[b] # <<>> => mem[b].status \in ReachedRelay \cup {"Absent"}

InTransit(t, b) == send[t][b].phase \in {"deposited", "acked"}
Logged(b) == {ackLog[b][i] : i \in DOMAIN ackLog[b]}

\* A copy's id is recorded once, and no send under way has it.
IdsRecordedOnce ==
    \A b \in Bubble :
        /\ \A i, j \in DOMAIN ackLog[b] : ackLog[b][i] = ackLog[b][j] => i = j
        /\ Logged(b) \subseteq 1..copies[b]
        /\ \A t \in Task : InTransit(t, b) => send[t][b].copy \notin Logged(b)
        /\ \A t, u \in Task : InTransit(t, b) /\ InTransit(u, b) /\ t # u =>
               send[t][b].copy # send[u][b].copy

\* Record r names the last id of log L, and remembers, in order, the PriorCap
\* before it.
Tracks(r, L) ==
    /\ Len(L) = 0 => r.mid = 0 /\ r.prior = <<>>
    /\ Len(L) > 0 =>
          /\ r.mid = L[Len(L)]
          /\ Len(r.prior) = IF Len(L) - 1 < PriorCap THEN Len(L) - 1 ELSE PriorCap
          /\ \A i \in 1..Len(r.prior) : r.prior[i] = L[Len(L) - 1 - Len(r.prior) + i]

\* Every record tracks what was recorded of its bubble.
RecordsTrack == \A b \in Bubble : Present(b) => Tracks(mem[b], ackLog[b])

\* The inductive invariant of what was recorded.
RecordedInv ==
    /\ TypeOK /\ CopiesBacked /\ ComposedFirst /\ VaultCurrent
    /\ AcceptanceShows /\ IdsRecordedOnce /\ RecordsTrack

\* One more id: the record that tracked the log tracks the longer one.  The
\* superseded id is new to the remembered ones because no id is logged twice.
LEMMA AcceptedTracks ==
    ASSUME NEW r \in BubbleRecord, NEW L \in Seq(CopyId), NEW k \in CopyId,
           \A i, j \in DOMAIN L : L[i] = L[j] => i = j,
           Tracks(r, L)
    PROVE  Tracks(Accepted(r, k), Append(L, k))
<1> DEFINE a == Accepted(r, k)
           M == Append(L, k)
           n == Len(L)
           m == Len(r.prior)
<1>1. r.prior \in Seq(CopyId) /\ r.mid \in 0..MaxCopies /\ n \in Nat /\ m \in Nat
  BY DEF BubbleRecord
<1>2. k # 0
  BY OutboxAssumption DEF CopyId
<1>3. a.mid = k /\ a.prior = Remember(r.prior, r.mid)
  BY <1>2 DEF Accepted, BubbleRecord
<1>4. M \in Seq(CopyId) /\ Len(M) = n + 1 /\ M[n + 1] = k /\ \A i \in 1..n : M[i] = L[i]
  BY <1>1
<1>5. CASE n = 0
  <2>1. r.mid = 0 /\ r.prior = <<>>
    BY <1>5 DEF Tracks
  <2>2. a.prior = <<>>
    BY <1>3, <2>1 DEF Remember
  <2> HIDE DEF a, M
  <2>3. Tracks(a, M)
    BY <1>3, <1>4, <1>5, <2>2, OutboxAssumption DEF Tracks
  <2> QED
    BY <2>3 DEF a, M
<1>6. CASE n > 0
  <2>1. /\ r.mid = L[n]
        /\ m = (IF n - 1 < PriorCap THEN n - 1 ELSE PriorCap)
        /\ \A i \in 1..m : r.prior[i] = L[n - 1 - m + i]
    BY <1>6 DEF Tracks
  <2>2. r.mid # 0
    BY <1>1, <1>6, <2>1, OutboxAssumption DEF CopyId
  <2>3. m \in 0..(n - 1) /\ PriorCap \in Nat \ {0}
    BY <1>1, <1>6, <2>1, OutboxAssumption
  <2>4. \A i \in 1..m : r.prior[i] # r.mid
    <3> SUFFICES ASSUME NEW i \in 1..m
                 PROVE  r.prior[i] # r.mid
      OBVIOUS
    <3> DEFINE j == n - 1 - m + i
    <3>1. DOMAIN L = 1..n
      OBVIOUS
    <3> HIDE DEF n, m
    <3>2. j \in 1..n /\ n \in 1..n /\ j # n
      BY <1>1, <1>6, <2>3
    <3>3. L[j] # L[n]
      BY <3>1, <3>2
    <3> QED
      BY <2>1, <3>3
  <2>5. CASE m >= PriorCap
    <3>1. m = PriorCap /\ r.prior # <<>>
      BY <1>1, <2>1, <2>3, <2>5
    <3>2. a.prior = Append(Tail(r.prior), r.mid)
      BY <1>1, <1>3, <2>2, <2>4, <2>5 DEF Remember
    <3>3. /\ Tail(r.prior) \in Seq(CopyId) /\ Len(Tail(r.prior)) = m - 1
          /\ \A i \in 1..(m - 1) : Tail(r.prior)[i] = r.prior[i + 1]
      BY <1>1, <3>1
    <3>4. /\ Len(a.prior) = m /\ a.prior[m] = r.mid
          /\ \A i \in 1..(m - 1) : a.prior[i] = r.prior[i + 1]
      BY <1>1, <2>3, <3>1, <3>2, <3>3
    <3>5. ASSUME NEW i \in 1..m
          PROVE  a.prior[i] = M[(n + 1) - 1 - m + i]
      <4>1. CASE i = m
        <5>1. (n + 1) - 1 - m + i = n /\ n \in 1..n
          BY <1>1, <1>6, <4>1
        <5> QED
          BY <1>4, <2>1, <3>4, <4>1, <5>1
      <4>2. CASE i # m
        <5>1. i \in 1..(m - 1) /\ i + 1 \in 1..m /\ (n + 1) - 1 - m + i \in 1..n
          BY <1>1, <2>3, <4>2
        <5>2. a.prior[i] = L[n - 1 - m + (i + 1)]
          BY <2>1, <3>4, <5>1
        <5>3. n - 1 - m + (i + 1) = (n + 1) - 1 - m + i
          BY <1>1
        <5> QED
          BY <1>4, <5>1, <5>2, <5>3
      <4> QED
        BY <4>1, <4>2
    <3>6. m = (IF (n + 1) - 1 < PriorCap THEN (n + 1) - 1 ELSE PriorCap)
      BY <1>1, <2>3, <3>1
    <3> HIDE DEF a, M
    <3>7. Tracks(a, M)
      BY <1>1, <1>3, <1>4, <3>4, <3>5, <3>6 DEF Tracks
    <3> QED
      BY <3>7 DEF a, M
  <2>6. CASE ~(m >= PriorCap)
    <3>1. m = n - 1
      BY <1>1, <2>1, <2>3, <2>6
    <3>2. a.prior = Append(r.prior, r.mid)
      BY <1>1, <1>3, <2>2, <2>4, <2>6 DEF Remember
    <3>3. /\ Len(a.prior) = n /\ a.prior[n] = r.mid
          /\ \A i \in 1..m : a.prior[i] = r.prior[i]
      BY <1>1, <1>6, <3>1, <3>2
    <3>4. ASSUME NEW i \in 1..n
          PROVE  a.prior[i] = M[(n + 1) - 1 - n + i]
      <4>1. (n + 1) - 1 - n + i = i /\ M[i] = L[i]
        BY <1>1, <1>4
      <4>2. CASE i = n
        BY <2>1, <3>3, <4>1, <4>2
      <4>3. CASE i # n
        <5>1. i \in 1..m /\ n - 1 - m + i = i
          BY <1>1, <3>1, <4>3
        <5> QED
          BY <2>1, <3>3, <4>1, <5>1
      <4> QED
        BY <4>2, <4>3
    <3>5. n = (IF (n + 1) - 1 < PriorCap THEN (n + 1) - 1 ELSE PriorCap)
      BY <1>1, <2>3, <2>6, <3>1
    <3> HIDE DEF a, M
    <3>6. Tracks(a, M)
      BY <1>1, <1>3, <1>4, <3>3, <3>4, <3>5 DEF Tracks
    <3> QED
      BY <3>6 DEF a, M
  <2> QED
    BY <2>5, <2>6
<1> QED
  BY <1>1, <1>5, <1>6

\* A record that tracks the log matches a receipt for any of its last ids.
LEMMA TracksMatch ==
    ASSUME NEW r \in BubbleRecord, NEW L \in Seq(CopyId), Tracks(r, L),
           NEW i \in DOMAIN L, i + PriorCap >= Len(L)
    PROVE  MatchesReceipt(r, L[i])
<1> DEFINE n == Len(L)
           m == Len(r.prior)
<1>1. r.prior \in Seq(CopyId) /\ n \in Nat /\ m \in Nat /\ i \in 1..n /\ PriorCap \in Nat \ {0}
  BY OutboxAssumption DEF BubbleRecord
<1>2. n > 0
  BY <1>1
<1>3. /\ r.mid = L[n]
      /\ m = (IF n - 1 < PriorCap THEN n - 1 ELSE PriorCap)
      /\ \A j \in 1..m : r.prior[j] = L[n - 1 - m + j]
  BY <1>2 DEF Tracks
<1>4. CASE i = n
  <2>1. L[n] # 0
    BY <1>1, <1>4, OutboxAssumption DEF CopyId
  <2> QED
    BY <1>3, <1>4, <2>1 DEF MatchesReceipt, Ids
<1>5. CASE i # n
  <2> DEFINE j == i - (n - 1 - m)
  <2>0. DOMAIN r.prior = 1..m /\ i + PriorCap >= n
    BY <1>1
  <2> HIDE DEF n, m
  <2>1. j \in 1..m /\ n - 1 - m + j = i
    <3>1. n \in Nat /\ m \in Nat /\ i \in 1..n /\ i # n /\ PriorCap \in Nat \ {0}
      BY <1>1, <1>5
    <3>2. m = n - 1 \/ (m = PriorCap /\ PriorCap <= n - 1)
      BY <1>3, <3>1
    <3> QED
      BY <2>0, <3>1, <3>2
  <2> HIDE DEF j
  <2>2. r.prior[j] = L[i] /\ j \in DOMAIN r.prior
    BY <1>3, <2>0, <2>1
  <2> QED
    BY <2>2 DEF MatchesReceipt, Ids
<1> QED
  BY <1>4, <1>5

\* A send under way keeps its copy; a new copy comes from a deposit only.
LEMMA CopiesStay ==
    ASSUME TypeOK, [Next]_vars, NEW t \in Task, NEW b \in Bubble, InTransit(t, b)'
    PROVE  \/ InTransit(t, b) /\ send'[t][b].copy = send[t][b].copy
           \/ CopyLeaves(t, b)
<1> USE DEF InTransit
<1> DEFINE Goal == \/ InTransit(t, b) /\ send'[t][b].copy = send[t][b].copy
                   \/ CopyLeaves(t, b)
<1>1. CASE UNCHANGED send
  BY <1>1
<1>2. ASSUME NEW u \in Task, NEW c \in Bubble, AckReturns(u, c)
      PROVE  Goal
  <2>1. \A v \in Task, d \in Bubble : <<v, d>> # <<u, c>> => send'[v][d] = send[v][d]
    BY <1>2 DEF TypeOK, AckReturns
  <2>2. send[u][c].phase = "deposited" /\ send'[u][c].copy = send[u][c].copy
    <3>1. send[u][c] \in Attempt
      BY DEF TypeOK
    <3>2. send'[u][c] = [send[u][c] EXCEPT !.phase = "acked"]
      BY <1>2 DEF TypeOK, AckReturns
    <3> QED
      BY <1>2, <3>1, <3>2 DEF AckReturns, Attempt
  <2> QED
    BY <2>1, <2>2
<1>3. ASSUME NEW u \in Task, NEW c \in Bubble, CopyLeaves(u, c)
      PROVE  Goal
  <2>1. \A v \in Task, d \in Bubble : <<v, d>> # <<u, c>> => send'[v][d] = send[v][d]
    BY <1>3 DEF TypeOK, CopyLeaves
  <2> QED
    BY <1>3, <2>1
<1>4. ASSUME NEW c \in Bubble, EnqueueDm(c) \/ SendNext(c) \/ AbandonFirstSend(c)
      PROVE  Goal
  <2>1. PICK u \in Task, a \in {Starting, NoAttempt} : send' = [send EXCEPT ![u][c] = a]
    BY <1>4 DEF EnqueueDm, SendNext, AbandonFirstSend, Task
  <2>2. a.phase \in {"none", "sending"}
    BY DEF Starting, NoAttempt
  <2>3. send'[t][b] = send[t][b] \/ send'[t][b] = a
    BY <2>1 DEF TypeOK
  <2> QED
    BY <2>2, <2>3
<1>5. ASSUME NEW u \in Task, NEW c \in Bubble, Finish(u, c)
      PROVE  Goal
  <2>1. Conclude(u, c)
    BY <1>5 DEF Finish, RecordSuccess, RecordFailure
  <2> QED
    BY <2>1 DEF TypeOK, Conclude, NoAttempt
<1>6. CASE StartDriver
  BY <1>6 DEF TypeOK, StartDriver, NoAttempt
<1>7. CASE Crash
  BY <1>7 DEF Crash, NoAttempt
<1>8. \/ \E c \in Bubble : \/ EnqueueDm(c) \/ AbandonFirstSend(c) \/ SendNext(c)
      \/ \E u \in Task, c \in Bubble : CopyLeaves(u, c) \/ AckReturns(u, c) \/ Finish(u, c)
      \/ StartDriver \/ Crash
      \/ UNCHANGED send
  BY DEF Next, Deposit, HandOver, Compose, DriverStep, Environment, EnqueueGroupCopy, ClaimBatch,
         RetryTick, Presence, SweepTick, ManualRetry, BootSweep, EventsOpen,
         EventsUnavailable, BackoffExpires, StreamEnds, MoveLoop, RetryOutbox,
         PeerReceives, ReceiptArrives, DropBubblesForPeer, Tick, vars
<1> QED
  BY <1>1, <1>2, <1>3, <1>4, <1>5, <1>6, <1>7, <1>8

\* The step that records an acceptance of b under an id.
Records(b) ==
    \E t \in Task :
        /\ send[t][b].phase = "acked" /\ Recordable(b) /\ Conclude(t, b)
        /\ ackLog'[b] = Append(ackLog[b], send[t][b].copy)
        /\ mem'[b] = Accepted(mem[b], send[t][b].copy)

\* A step that leaves the log of b, and what it may do to its record.
Unrecorded(b) ==
    /\ ackLog'[b] = ackLog[b]
    /\ \/ mem'[b] \in {mem[b], disk[b], NoBubble}
       \/ b \notin composed /\ b \in composed' /\ mem'[b] = Queued(b)
       \/ Recordable(b) /\ mem'[b] = Accepted(mem[b], 0)
       \/ \E terminal \in BOOLEAN : Recordable(b) /\ mem'[b] = Refused(mem[b], terminal)
       \/ Ids(mem[b]) # {} /\ Present(b) /\ mem'[b] = Delivered(mem[b])

\* The log of a bubble and its record move together.
LEMMA LogMoves ==
    ASSUME TypeOK, CopiesBacked, [Next]_vars
    PROVE  \A b \in Bubble : Records(b) \/ Unrecorded(b)
<1>1. CASE UNCHANGED <<mem, ackLog>>
  BY <1>1 DEF Unrecorded
<1>2. ASSUME NEW c \in Bubble, EnqueueDm(c) \/ EnqueueGroupCopy(c)
      PROVE  \A b \in Bubble : Unrecorded(b)
  <2>1. SetBubble(c, Queued(c)) /\ c \notin composed /\ c \in composed' /\ ackLog' = ackLog
    BY <1>2 DEF EnqueueDm, EnqueueGroupCopy, worldVars
  <2> QED
    BY <2>1, SetBubbleMove DEF Unrecorded
<1>3. ASSUME NEW t \in Task, NEW c \in Bubble, NEW id \in 0..MaxCopies,
             RecordSuccess(t, c, id)
      PROVE  \A b \in Bubble : Records(b) \/ Unrecorded(b)
  <2>1. /\ send[t][c].phase = "acked" /\ Conclude(t, c)
        /\ id = send[t][c].copy \/ id = 0
    BY <1>3 DEF RecordSuccess, ReturnedId
  <2>2. CASE ~Recordable(c)
    <3>1. UNCHANGED <<mem, ackLog>>
      BY <1>3, <2>2 DEF RecordSuccess, RecordSendOutcome, storeVars
    <3> QED
      BY <1>1, <3>1
  <2>3. CASE Recordable(c)
    <3>1. /\ mem'[c] = Accepted(mem[c], id)
          /\ \A b \in Bubble \ {c} : mem'[b] = mem[b]
      BY <1>3, <2>3, SetBubbleMove DEF RecordSuccess, RecordSendOutcome
    <3>2. CASE id = 0
      <4>1. ackLog' = ackLog
        BY <1>3, <3>2 DEF RecordSuccess
      <4> QED
        BY <2>3, <3>1, <3>2, <4>1 DEF Unrecorded
    <3>3. CASE id # 0
      <4>1. ackLog' = [ackLog EXCEPT ![c] = Append(@, id)]
        BY <1>3, <2>3, <3>3 DEF RecordSuccess
      <4>2. /\ ackLog'[c] = Append(ackLog[c], id)
            /\ \A b \in Bubble \ {c} : ackLog'[b] = ackLog[b]
        BY <4>1 DEF TypeOK
      <4>3. id = send[t][c].copy
        BY <2>1, <3>3
      <4>4. Records(c)
        BY <2>1, <2>3, <3>1, <4>2, <4>3 DEF Records
      <4> QED
        BY <3>1, <4>2, <4>4 DEF Unrecorded
    <3> QED
      BY <3>2, <3>3
  <2> QED
    BY <2>2, <2>3
<1>4. ASSUME NEW t \in Task, NEW c \in Bubble, NEW terminal \in BOOLEAN,
             RecordFailure(t, c, terminal)
      PROVE  \A b \in Bubble : Unrecorded(b)
  <2>1. ackLog' = ackLog
    BY <1>4 DEF RecordFailure
  <2>2. CASE Recordable(c)
    <3>1. SetBubble(c, Refused(mem[c], terminal))
      BY <1>4, <2>2 DEF RecordFailure, RecordSendOutcome
    <3> QED
      BY <2>1, <2>2, <3>1, SetBubbleMove DEF Unrecorded
  <2>3. CASE ~Recordable(c)
    BY <1>4, <2>1, <2>3 DEF RecordFailure, RecordSendOutcome, storeVars, Unrecorded
  <2> QED
    BY <2>2, <2>3
<1>5. ASSUME NEW c \in Bubble, NEW k \in CopyId, ReceiptArrives(c, k)
      PROVE  \A b \in Bubble : Unrecorded(b)
  <2>1. /\ SetBubble(c, Delivered(mem[c])) /\ Present(c) /\ Ids(mem[c]) # {}
        /\ ackLog' = ackLog
    BY <1>5 DEF ReceiptArrives, MatchesReceipt, worldVars
  <2> QED
    BY <2>1, SetBubbleMove DEF Unrecorded
<1>6. ASSUME NEW p \in Peer, DropBubblesForPeer(p)
      PROVE  \A b \in Bubble : Unrecorded(b)
  BY <1>6 DEF DropBubblesForPeer, Unrecorded, worldVars
<1>7. CASE Crash
  BY <1>7 DEF Crash, Unrecorded, worldVars
<1>8. \/ \E c \in Bubble : \/ EnqueueDm(c) \/ EnqueueGroupCopy(c)
                          \/ \E k \in CopyId : ReceiptArrives(c, k)
      \/ \E t \in Task, c \in Bubble, id \in 0..MaxCopies : RecordSuccess(t, c, id)
      \/ \E t \in Task, c \in Bubble, terminal \in BOOLEAN : RecordFailure(t, c, terminal)
      \/ \E p \in Peer : DropBubblesForPeer(p)
      \/ Crash
      \/ UNCHANGED <<mem, ackLog>>
  BY DEF Next, Compose, Finish, DriverStep, Environment, Deposit, HandOver, CopyLeaves, AckReturns,
         AbandonFirstSend, ClaimBatch, SendNext, RetryTick, Presence, SweepTick,
         ManualRetry, StartDriver, BootSweep, EventsOpen, EventsUnavailable,
         BackoffExpires, StreamEnds, MoveLoop, RetryOutbox, PeerReceives, Tick,
         storeVars, worldVars, vars
<1> QED
  BY <1>1, <1>2, <1>3, <1>4, <1>5, <1>6, <1>7, <1>8

\* While the vault works, every step leaves the disk as memory is.
LEMMA VaultCurrentStep ==
    ASSUME ~VaultMayFail, VaultCurrent, [Next]_vars
    PROVE  VaultCurrent'
<1> USE DEF VaultCurrent
<1>1. UNCHANGED storeVars \/ disk' = mem'
  BY DEF Next, Compose, Finish, DriverStep, Environment, EnqueueDm, EnqueueGroupCopy,
         SetBubble, Flush, RecordSuccess, RecordFailure, RecordSendOutcome,
         ReceiptArrives, DropBubblesForPeer, Crash, Deposit, HandOver, CopyLeaves, AckReturns,
         AbandonFirstSend, ClaimBatch, SendNext, RetryTick, Presence, SweepTick,
         ManualRetry, StartDriver, BootSweep, EventsOpen, EventsUnavailable,
         BackoffExpires, StreamEnds, MoveLoop, RetryOutbox, PeerReceives, Tick,
         storeVars, vars
<1> QED
  BY <1>1 DEF storeVars

\* A recorded acceptance goes on showing: a refusal leaves Sent alone, and an
\* id composed once is never composed again.
LEMMA AcceptanceStep ==
    ASSUME RecordedInv, [Next]_vars
    PROVE  AcceptanceShows'
<1> SUFFICES ASSUME NEW b \in Bubble
             PROVE  /\ b \notin composed' => ackLog'[b] = <<>>
                    /\ ackLog'[b] # <<>> => mem'[b].status \in ReachedRelay \cup {"Absent"}
  BY DEF AcceptanceShows
<1>1. /\ mem[b] \in BubbleRecord /\ disk[b] = mem[b]
      /\ b \notin composed => ackLog[b] = <<>>
      /\ ackLog[b] # <<>> => mem[b].status \in ReachedRelay \cup {"Absent"}
      /\ Present(b) => b \in composed
  BY DEF RecordedInv, TypeOK, VaultCurrent, AcceptanceShows, ComposedFirst
<1>2. b \in composed => b \in composed'
  BY SendsKeepComposed
     DEF Next, Compose, DriverStep, Environment, EnqueueDm, EnqueueGroupCopy,
         AbandonFirstSend, ClaimBatch, SendNext, RetryTick, Presence, SweepTick,
         ManualRetry, StartDriver, BootSweep, EventsOpen, EventsUnavailable,
         BackoffExpires, StreamEnds, MoveLoop, RetryOutbox, PeerReceives,
         ReceiptArrives, DropBubblesForPeer, Crash, Tick, vars
<1>3. \A k : Accepted(mem[b], k).status = "Sent"
  BY <1>1 DEF Accepted, BubbleRecord
<1>4. CASE Records(b)
  <2>1. Recordable(b) /\ mem'[b].status = "Sent"
    BY <1>3, <1>4 DEF Records
  <2> QED
    BY <1>1, <1>2, <2>1 DEF Recordable, ReachedRelay
<1>5. CASE Unrecorded(b)
  <2>1. ackLog'[b] = ackLog[b]
    BY <1>5 DEF Unrecorded
  <2>2. ASSUME ackLog[b] # <<>>
        PROVE  mem'[b].status \in ReachedRelay \cup {"Absent"}
    <3>1. NoBubble.status = "Absent" /\ Delivered(mem[b]).status = "Delivered"
      BY <1>1 DEF NoBubble, Delivered, ReleaseAttachment, BubbleRecord
    <3>2. \A terminal \in BOOLEAN : Recordable(b) => Refused(mem[b], terminal) = mem[b]
      BY <1>1, <2>2 DEF Recordable, Present, Refused
    <3> QED
      BY <1>1, <1>3, <1>5, <2>2, <3>1, <3>2 DEF Unrecorded, ReachedRelay
  <2> QED
    BY <1>1, <1>2, <2>1, <2>2
<1> QED
  BY <1>4, <1>5, LogMoves DEF RecordedInv

\* Ids stay recorded once: a deposit takes the next one, and a recorded one is
\* no longer under way.
LEMMA IdsOnceStep ==
    ASSUME TypeOK, CopiesBacked, IdsRecordedOnce, [Next]_vars
    PROVE  IdsRecordedOnce'
<1> SUFFICES ASSUME NEW b \in Bubble
             PROVE  /\ \A i, j \in DOMAIN ackLog'[b] : ackLog'[b][i] = ackLog'[b][j] => i = j
                    /\ Logged(b)' \subseteq 1..copies'[b]
                    /\ \A t \in Task : InTransit(t, b)' => send'[t][b].copy \notin Logged(b)'
                    /\ \A t, u \in Task : InTransit(t, b)' /\ InTransit(u, b)' /\ t # u =>
                           send'[t][b].copy # send'[u][b].copy
  BY DEF IdsRecordedOnce, InTransit, Logged
<1> DEFINE L == ackLog[b]
<1>1. /\ L \in Seq(CopyId) /\ copies[b] \in Nat /\ copies'[b] \in Nat
      /\ \A t \in Task : InTransit(t, b) => send[t][b].copy \in 1..copies[b]
  BY TypeStep, OutboxAssumption DEF TypeOK, CopiesBacked, InTransit
<1>2. /\ \A i, j \in DOMAIN L : L[i] = L[j] => i = j
      /\ Logged(b) \subseteq 1..copies[b]
      /\ \A t \in Task : InTransit(t, b) => send[t][b].copy \notin Logged(b)
      /\ \A t, u \in Task : InTransit(t, b) /\ InTransit(u, b) /\ t # u =>
             send[t][b].copy # send[u][b].copy
  BY DEF IdsRecordedOnce
<1>3. copies[b] <= copies'[b] /\ 1..copies[b] \subseteq 1..copies'[b]
  BY <1>1, WorldGrows
<1>4. \A t \in Task : InTransit(t, b)' =>
          \/ InTransit(t, b) /\ send'[t][b].copy = send[t][b].copy
          \/ CopyLeaves(t, b)
  BY CopiesStay
<1>5. ASSUME NEW t \in Task, CopyLeaves(t, b)
      PROVE  /\ send'[t][b].copy = copies[b] + 1
             /\ \A u \in Task \ {t} : send'[u][b] = send[u][b]
             /\ ackLog' = ackLog
  BY <1>5 DEF TypeOK, CopyLeaves
<1>6. \A t, u \in Task : InTransit(t, b)' /\ InTransit(u, b)' /\ t # u =>
          send'[t][b].copy # send'[u][b].copy
  <2> SUFFICES ASSUME NEW t \in Task, NEW u \in Task, InTransit(t, b)', InTransit(u, b)', t # u
               PROVE  send'[t][b].copy # send'[u][b].copy
    OBVIOUS
  <2>1. CASE CopyLeaves(t, b)
    <3>1. InTransit(u, b) /\ send'[u][b] = send[u][b]
      BY <1>5, <2>1 DEF InTransit
    <3> QED
      BY <1>1, <1>5, <2>1, <3>1
  <2>2. CASE CopyLeaves(u, b)
    <3>1. InTransit(t, b) /\ send'[t][b] = send[t][b]
      BY <1>5, <2>2 DEF InTransit
    <3> QED
      BY <1>1, <1>5, <2>2, <3>1
  <2>3. CASE ~CopyLeaves(t, b) /\ ~CopyLeaves(u, b)
    BY <1>2, <1>4, <2>3
  <2> QED
    BY <2>1, <2>2, <2>3
<1>7. CASE ackLog'[b] = ackLog[b]
  <2>1. Logged(b)' = Logged(b)
    BY <1>7 DEF Logged
  <2>2. ASSUME NEW t \in Task, InTransit(t, b)'
        PROVE  send'[t][b].copy \notin Logged(b)
    <3>1. CASE CopyLeaves(t, b)
      BY <1>1, <1>2, <1>5, <3>1
    <3>2. CASE ~CopyLeaves(t, b)
      BY <1>2, <1>4, <2>2, <3>2
    <3> QED
      BY <3>1, <3>2
  <2> QED
    BY <1>2, <1>3, <1>6, <1>7, <2>1, <2>2
<1>8. CASE Records(b)
  <2>1. PICK t \in Task : /\ send[t][b].phase = "acked" /\ Conclude(t, b)
                          /\ ackLog'[b] = Append(L, send[t][b].copy)
    BY <1>8 DEF Records
  <2> DEFINE k == send[t][b].copy
  <2>2. k \in CopyId /\ k \in 1..copies[b] /\ k \notin Logged(b) /\ InTransit(t, b)
    BY <1>1, <1>2, <2>1, OutboxAssumption DEF InTransit, TypeOK, CopyId
  <2>3. /\ ~InTransit(t, b)'
        /\ \A u \in Task \ {t} : send'[u][b] = send[u][b]
    BY <2>1 DEF Conclude, TypeOK, InTransit, NoAttempt
  <2> HIDE DEF k
  <2>4. /\ DOMAIN Append(L, k) = 1..(Len(L) + 1) /\ DOMAIN L = 1..Len(L) /\ Len(L) \in Nat
        /\ Append(L, k)[Len(L) + 1] = k
        /\ \A i \in 1..Len(L) : Append(L, k)[i] = L[i]
    BY <1>1, <2>2
  <2>5. \A i \in DOMAIN L : L[i] # k
    BY <2>2 DEF Logged
  <2>6. ackLog'[b] = Append(L, k)
    BY <2>1 DEF k
  <2>7. Logged(b)' = Logged(b) \cup {k}
    <3>1. Logged(b)' = {Append(L, k)[i] : i \in 1..(Len(L) + 1)}
      BY <2>4, <2>6 DEF Logged
    <3>2. Logged(b) = {L[i] : i \in 1..Len(L)}
      BY <2>4 DEF Logged
    <3> HIDE DEF L
    <3>3. \A i \in 1..(Len(L) + 1) : i \in 1..Len(L) \/ i = Len(L) + 1
      BY <2>4
    <3>4. \A i \in 1..Len(L) : i \in 1..(Len(L) + 1)
      BY <2>4
    <3>5. Len(L) + 1 \in 1..(Len(L) + 1)
      BY <2>4
    <3> QED
      BY <2>4, <3>1, <3>2, <3>3, <3>4, <3>5
  <2>8. \A i, j \in DOMAIN ackLog'[b] : ackLog'[b][i] = ackLog'[b][j] => i = j
    BY <1>2, <2>4, <2>5, <2>6
  <2>9. Logged(b)' \subseteq 1..copies'[b]
    BY <1>2, <1>3, <2>2, <2>7
  <2>10. ASSUME NEW u \in Task, InTransit(u, b)'
         PROVE  send'[u][b].copy \notin Logged(b)'
    <3>1. u # t /\ InTransit(u, b) /\ send'[u][b] = send[u][b]
      BY <2>3, <2>10 DEF InTransit
    <3>2. send[u][b].copy # k
      BY <1>2, <2>2, <3>1 DEF k
    <3> QED
      BY <1>2, <2>7, <3>1, <3>2
  <2> QED
    BY <1>6, <2>8, <2>9, <2>10
<1> QED
  BY <1>7, <1>8, LogMoves DEF Unrecorded

\* Every record goes on tracking its log.
LEMMA RecordsTrackStep ==
    ASSUME RecordedInv, [Next]_vars
    PROVE  RecordsTrack'
<1> SUFFICES ASSUME NEW b \in Bubble, mem'[b].status # "Absent"
             PROVE  Tracks(mem'[b], ackLog'[b])
  BY DEF RecordsTrack, Present, Tracks
<1>1. /\ mem[b] \in BubbleRecord /\ disk[b] = mem[b] /\ ackLog[b] \in Seq(CopyId)
      /\ b \notin composed => ackLog[b] = <<>>
      /\ \A i, j \in DOMAIN ackLog[b] : ackLog[b][i] = ackLog[b][j] => i = j
      /\ Present(b) => Tracks(mem[b], ackLog[b])
  BY DEF RecordedInv, TypeOK, VaultCurrent, AcceptanceShows, IdsRecordedOnce, RecordsTrack
<1>2. CASE Records(b)
  <2>1. PICK t \in Task : /\ send[t][b].phase = "acked" /\ Recordable(b)
                          /\ ackLog'[b] = Append(ackLog[b], send[t][b].copy)
                          /\ mem'[b] = Accepted(mem[b], send[t][b].copy)
    BY <1>2 DEF Records
  <2>2. send[t][b].copy \in CopyId
    BY <2>1, OutboxAssumption DEF RecordedInv, CopiesBacked, TypeOK, CopyId
  <2>3. Tracks(mem[b], ackLog[b])
    BY <1>1, <2>1 DEF Recordable
  <2> QED
    BY <1>1, <2>1, <2>2, <2>3, AcceptedTracks
<1>3. CASE Unrecorded(b)
  <2>1. ackLog'[b] = ackLog[b]
    BY <1>3 DEF Unrecorded
  <2>2. CASE b \notin composed /\ mem'[b] = Queued(b)
    <3>1. Queued(b).mid = 0 /\ Queued(b).prior = <<>> /\ ackLog[b] = <<>>
      BY <1>1, <2>2 DEF Queued
    <3> QED
      BY <2>1, <2>2, <3>1 DEF Tracks
  <2>3. CASE ~(b \notin composed /\ mem'[b] = Queued(b))
    <3>1. NoBubble.status = "Absent"
      BY DEF NoBubble
    <3>2. /\ Accepted(mem[b], 0).mid = mem[b].mid
          /\ Accepted(mem[b], 0).prior = mem[b].prior
      BY <1>1 DEF Accepted, BubbleRecord
    <3>3. /\ Delivered(mem[b]).mid = mem[b].mid
          /\ Delivered(mem[b]).prior = mem[b].prior
      BY <1>1 DEF Delivered, ReleaseAttachment, BubbleRecord
    <3>4. \A terminal \in BOOLEAN : /\ Refused(mem[b], terminal).mid = mem[b].mid
                                    /\ Refused(mem[b], terminal).prior = mem[b].prior
      BY <1>1 DEF Refused, ReleaseAttachment, BubbleRecord
    <3>5. Present(b) /\ mem'[b].mid = mem[b].mid /\ mem'[b].prior = mem[b].prior
      BY <1>1, <1>3, <2>3, <3>1, <3>2, <3>3, <3>4 DEF Unrecorded, Recordable, Present
    <3> QED
      BY <1>1, <2>1, <3>5 DEF Tracks
  <2> QED
    BY <2>2, <2>3
<1> QED
  BY <1>2, <1>3, LogMoves DEF RecordedInv

\* While the vault works the invariant of what was recorded holds.
LEMMA RecordedInvariant ==
    ASSUME ~VaultMayFail
    PROVE  Spec => []RecordedInv
<1>1. Init => RecordedInv
  <2> SUFFICES ASSUME Init
               PROVE  RecordedInv
    OBVIOUS
  <2>1. TypeOK /\ CopiesBacked
    BY InitInv
  <2>2. \A t \in Task, b \in Bubble : ~Live(t, b) /\ ~InTransit(t, b)
    BY DEF Init, Live, InTransit, NoAttempt
  <2>3. ComposedFirst /\ VaultCurrent
    BY <2>2 DEF Init, ComposedFirst, VaultCurrent, Present, NoBubble
  <2>4. \A b \in Bubble : ackLog[b] = <<>> /\ Logged(b) = {} /\ ~Present(b)
    BY DEF Init, Logged, Present, NoBubble
  <2>5. AcceptanceShows /\ IdsRecordedOnce /\ RecordsTrack
    BY <2>2, <2>4 DEF AcceptanceShows, IdsRecordedOnce, RecordsTrack
  <2> QED
    BY <2>1, <2>3, <2>5 DEF RecordedInv
<1>2. RecordedInv /\ [Next]_vars => RecordedInv'
  <2> SUFFICES ASSUME RecordedInv, [Next]_vars
               PROVE  RecordedInv'
    OBVIOUS
  <2>1. TypeOK' /\ CopiesBacked' /\ ComposedFirst' /\ VaultCurrent'
    BY TypeStep, BackedStep, ComposedStep, VaultCurrentStep DEF RecordedInv
  <2>2. AcceptanceShows' /\ RecordsTrack'
    BY AcceptanceStep, RecordsTrackStep
  <2>3. IdsRecordedOnce'
    BY IdsOnceStep DEF RecordedInv
  <2> QED
    BY <2>1, <2>2, <2>3 DEF RecordedInv
<1> QED
  BY <1>1, <1>2, PTL DEF Spec

\* While the vault works, a message some relay's acceptance was recorded of is
\* never shown as failed, whichever of its racing sends is refused later.
THEOREM AcceptedNeverFails ==
    ASSUME ~VaultMayFail
    PROVE  Spec => []FailedWasNeverAccepted
<1>1. RecordedInv => FailedWasNeverAccepted
  BY DEF RecordedInv, AcceptanceShows, FailedWasNeverAccepted, ReachedRelay
<1> QED
  BY <1>1, RecordedInvariant, PTL

\* While the vault works, a receipt for the copy accepted last, or for one of the
\* PriorCap recorded before it, finds its bubble, for every cap, every number of
\* copies and every order of the racing sends.
THEOREM ReceiptsFindTheirBubble ==
    ASSUME ~VaultMayFail
    PROVE  Spec => []ReceiptsStillMatch
<1>1. RecordedInv => ReceiptsStillMatch
  <2> SUFFICES ASSUME RecordedInv, NEW b \in Bubble, Recordable(b), NEW i \in DOMAIN ackLog[b],
                      i + PriorCap >= Len(ackLog[b])
               PROVE  MatchesReceipt(mem[b], ackLog[b][i])
    BY DEF ReceiptsStillMatch
  <2>1. mem[b] \in BubbleRecord /\ ackLog[b] \in Seq(CopyId) /\ Tracks(mem[b], ackLog[b])
    BY DEF RecordedInv, TypeOK, RecordsTrack, Recordable
  <2> QED
    BY <2>1, TracksMatch
<1> QED
  BY <1>1, RecordedInvariant, PTL
=============================================================================
