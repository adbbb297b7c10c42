-------------------------- MODULE RelayTransitProofs --------------------------
(***************************************************************************)
(* What the relay promises, for every number of agents, envelopes,         *)
(* sessions and restarts.                                                  *)
(*                                                                         *)
(* An acknowledged deposit is kept because ids tie every copy of an        *)
(* envelope -- row, queued frame, frame in the client's hands -- to one    *)
(* deposit (the Traced parts), so an acknowledgement can only reclaim the  *)
(* row of an envelope the client has read.  That needs ids that are never  *)
(* issued twice (IdsLast), which the durable store has across restarts and *)
(* the RAM store only until the first one.                                 *)
(*                                                                         *)
(* The second half holds for either store: the session that serves an      *)
(* agent is the newest that registered, and no entry waits in the store    *)
(* for an agent whose session will not be told of it.                      *)
(*                                                                         *)
(* Last, with such ids the relay implements TransitContract: frames stay   *)
(* with their addressees (which needs the registry's half), an envelope    *)
(* has one row, and what expired is stored no more.                        *)
(***************************************************************************)
EXTENDS RelayTransit, SequenceTheorems, TLAPS

\* The frames a sequence carries.
Carried(q) == {q[i] : i \in DOMAIN q}

\* An envelope under an id belongs to the one deposit that was given that id.
Known(f) == deposit[f.env].id = f.id

StoreTraced ==
    \A x \in store : Known(x) /\ deposit[x.env].pc \in {"stored", "done", "cut"}
ReceivedTraced == \A a \in Agent : \A f \in received[a] : Known(f)
SessionsTraced ==
    \A s \in Session : \A f \in Carried(session[s].queue) \cup Carried(session[s].backlog) :
        Known(f)

DistinctIds ==
    /\ \A e \in Envelope : deposit[e].id < nextId
    /\ \A e, d \in Envelope : deposit[e].id = deposit[d].id /\ deposit[e].id # 0 => e = d
    /\ \A e \in Envelope : deposit[e].answer = "ack" \/ deposit[e].pc = "stored" =>
          deposit[e].id # 0
    /\ \A e \in Envelope : deposit[e].pc \in {"idle", "routed"} =>
          deposit[e].id = 0 /\ deposit[e].answer = "none"

\* AckedIsKept, from the enqueue on.
StoredIsKept ==
    \A e \in Envelope : deposit[e].id # 0 => Held(e) \/ Reached(e) \/ e \in expired

\* No id is issued twice: the store is the durable one, or the process is never restarted.
IdsLast == Durable \/ MaxRestarts = 0

KeptInv ==
    /\ TransitTypeOK /\ StoreTraced /\ ReceivedTraced /\ SessionsTraced
    /\ DistinctIds /\ StoredIsKept

-----------------------------------------------------------------------------
(* Type correctness. *)

\* The frame of a row is a frame.
LEMMA FramesOfEntries == ASSUME NEW x \in Entry PROVE FrameOf(x) \in RelayFrame
  BY DEF FrameOf, Entry, RelayFrame

\* A push keeps a session record one, and adds at most its own frame to the queue.
LEMMA TrySendType ==
  ASSUME NEW r \in SessionRecord, NEW f \in RelayFrame, NEW taken \in BOOLEAN
  PROVE  /\ TrySend(r, f, taken) \in SessionRecord
         /\ Carried(TrySend(r, f, taken).queue) \subseteq Carried(r.queue) \cup {f}
  <1>1. r.queue \in Seq(RelayFrame) /\ r.pushed \in SUBSET Id /\ f.id \in Id
    BY DEF SessionRecord, RelayFrame
  <1>2. /\ Append(r.queue, f) \in Seq(RelayFrame)
        /\ Len(Append(r.queue, f)) = Len(r.queue) + 1
        /\ \A i \in 1..Len(r.queue) : Append(r.queue, f)[i] = r.queue[i]
        /\ Append(r.queue, f)[Len(r.queue) + 1] = f
    BY <1>1, AppendProperties
  <1>3. TrySend(r, f, taken) \in SessionRecord
    BY <1>1, <1>2 DEF TrySend, SessionRecord
  <1>4. Carried(Append(r.queue, f)) \subseteq Carried(r.queue) \cup {f}
    BY <1>1, <1>2 DEF Carried
  <1>5. /\ taken => TrySend(r, f, taken).queue = Append(r.queue, f)
        /\ ~taken => TrySend(r, f, taken).queue = r.queue
    BY DEF TrySend, SessionRecord
  <1> QED  BY <1>3, <1>4, <1>5

\* A record of a session that has carried nothing is a session record.
LEMMA BlankType ==
  ASSUME NEW a \in Agent, NEW p \in Phase
  PROVE  /\ Blank(a, p) \in SessionRecord
         /\ Blank(a, p).agent = a /\ Blank(a, p).phase = p
         /\ Blank(a, p).queue = << >> /\ Blank(a, p).backlog = << >>
  <1>1. << >> \in Seq(RelayFrame)  BY EmptySeq
  <1> QED  BY <1>1 DEF Blank, SessionRecord

\* A backlog read from a typed store is a sequence of frames, the whole mailbox, and the
\* batch replayed is a part of it.
LEMMA BacklogType ==
  ASSUME NEW a \in Agent, store \in SUBSET Entry, NEW q \in Backlogs(a)
  PROVE  /\ q \in Seq(RelayFrame) /\ Len(q) \in Nat
         /\ Carried(q) = {FrameOf(x) : x \in Mailbox(a)}
         /\ Batch(q) \in Seq(RelayFrame)
         /\ Carried(Batch(q)) \subseteq Carried(q)
         /\ Len(q) <= ReplayBatch => Batch(q) = q
  <1> DEFINE F == {FrameOf(x) : x \in Mailbox(a)}
  <1>1. F \subseteq RelayFrame  BY FramesOfEntries DEF Mailbox
  <1>2. PICK n \in 0..RecipientCap : q \in [1..n -> F]  BY DEF Backlogs
  <1>3. Carried(q) = F  BY DEF Backlogs, InIdOrder, Carried
  <1>4. q \in Seq(F) /\ Len(q) = n /\ n \in Nat  BY <1>2, RelayAssumption
  <1>5. q \in Seq(RelayFrame)  BY <1>1, <1>4, SeqMonotonic
  <1>6. ASSUME Len(q) > ReplayBatch
        PROVE  /\ SubSeq(q, 1, ReplayBatch) \in Seq(RelayFrame)
               /\ Carried(SubSeq(q, 1, ReplayBatch)) \subseteq Carried(q)
    <2>1. \A i \in 1..ReplayBatch : q[i] \in RelayFrame
      BY <1>4, <1>5, <1>6, RelayAssumption, ElementOfSeq
    <2>2. /\ SubSeq(q, 1, ReplayBatch) \in Seq(RelayFrame)
          /\ Len(SubSeq(q, 1, ReplayBatch)) = ReplayBatch
          /\ \A i \in 1..ReplayBatch : SubSeq(q, 1, ReplayBatch)[i] = q[i]
      BY <2>1, RelayAssumption, SubSeqProperties
    <2> QED  BY <1>4, <1>6, <2>2, RelayAssumption DEF Carried
  <1> QED  BY <1>3, <1>4, <1>5, <1>6, RelayAssumption DEF Batch

\* Taking the head off a queue takes exactly that frame off what it carries.
LEMMA TailCarries ==
  ASSUME NEW q \in Seq(RelayFrame), q # << >>
  PROVE  /\ Tail(q) \in Seq(RelayFrame) /\ Head(q) \in RelayFrame
         /\ Carried(q) = Carried(Tail(q)) \cup {Head(q)}
  <1>1. /\ Head(q) \in RelayFrame /\ Tail(q) \in Seq(RelayFrame) /\ Len(Tail(q)) = Len(q) - 1
        /\ \A i \in 1..Len(Tail(q)) : Tail(q)[i] = q[i + 1]
    BY HeadTailProperties
  <1>2. Len(q) \in Nat \ {0} /\ Head(q) = q[1]  OBVIOUS
  <1>3. ASSUME NEW i \in DOMAIN q, i # 1 PROVE q[i] \in Carried(Tail(q))
    <2>1. i - 1 \in 1..Len(Tail(q))  BY <1>1, <1>2, <1>3
    <2>2. q[i] = Tail(q)[i - 1]  BY <1>1, <2>1, <1>3
    <2> QED  BY <2>1, <2>2, <1>1 DEF Carried
  <1>4. Carried(Tail(q)) \subseteq Carried(q)  BY <1>1, <1>2 DEF Carried
  <1>5. Head(q) \in Carried(q)  BY <1>2 DEF Carried
  <1> QED  BY <1>1, <1>2, <1>3, <1>4, <1>5 DEF Carried

\* One step of the replay.
LEMMA ReplayedType ==
  ASSUME NEW r \in SessionRecord, r.backlog # << >>, NEW taken \in BOOLEAN
  PROVE  /\ Replayed(r, taken) \in SessionRecord
         /\ Carried(Replayed(r, taken).queue) \subseteq Carried(r.queue) \cup Carried(r.backlog)
         /\ Carried(Replayed(r, taken).backlog) \subseteq Carried(r.backlog)
         /\ Replayed(r, taken).agent = r.agent /\ Replayed(r, taken).phase = r.phase
         /\ ~taken => Replayed(r, taken).overflow
         /\ taken => /\ Replayed(r, taken).overflow = r.overflow
                     /\ Replayed(r, taken).pushed = r.pushed \cup {Head(r.backlog).id}
                     /\ Replayed(r, taken).backlog = Tail(r.backlog)
  <1> DEFINE h == Head(r.backlog)
             n == TrySend(r, h, taken)
             b == IF taken THEN Tail(r.backlog) ELSE << >>
  <1>1. r.backlog \in Seq(RelayFrame)  BY DEF SessionRecord
  <1>2. /\ h \in RelayFrame /\ Tail(r.backlog) \in Seq(RelayFrame)
        /\ Carried(r.backlog) = Carried(Tail(r.backlog)) \cup {h}
    BY <1>1, TailCarries
  <1>3. n \in SessionRecord /\ Carried(n.queue) \subseteq Carried(r.queue) \cup {h}
    BY <1>2, TrySendType
  <1>4. b \in Seq(RelayFrame) /\ Carried(b) \subseteq Carried(r.backlog)
    BY <1>2, EmptySeq DEF Carried
  <1>5. /\ n.agent = r.agent /\ n.phase = r.phase
        /\ ~taken => n.overflow
        /\ taken => n.overflow = r.overflow /\ n.pushed = r.pushed \cup {h.id}
    BY DEF TrySend, SessionRecord
  <1>6. Replayed(r, taken) = [n EXCEPT !.backlog = b]  BY DEF Replayed
  <1> HIDE DEF n, b, h
  <1>7. /\ Replayed(r, taken) \in SessionRecord
        /\ Replayed(r, taken).queue = n.queue /\ Replayed(r, taken).backlog = b
        /\ Replayed(r, taken).agent = n.agent /\ Replayed(r, taken).phase = n.phase
        /\ Replayed(r, taken).overflow = n.overflow /\ Replayed(r, taken).pushed = n.pushed
    BY <1>3, <1>4, <1>6 DEF SessionRecord
  <1>8. taken => b = Tail(r.backlog)  BY DEF b
  <1> QED  BY <1>2, <1>3, <1>4, <1>5, <1>7, <1>8 DEF h

\* The relay starts well-typed.
LEMMA InitType == TransitInit => TransitTypeOK
  <1> SUFFICES ASSUME TransitInit PROVE TransitTypeOK  OBVIOUS
  <1>1. (CHOOSE a \in Agent : TRUE) \in Agent  BY RelayAssumption
  <1>2. NewSession \in SessionRecord  BY <1>1, BlankType DEF NewSession, Phase
  <1> QED  BY <1>2, RelayAssumption DEF TransitInit, TransitTypeOK, DepositRecord, Routes, Answers, Id

\* The answer a deposit ends with.
LEMMA AnswerType ==
  ASSUME deposit \in [Envelope -> DepositRecord], NEW e \in Envelope, NEW w \in Answers,
         Answer(e, w)
  PROVE  deposit' \in [Envelope -> DepositRecord]
  BY DEF Answer, DepositRecord, Routes

\* A deposit that reached the store was given an id.
StoredHasId == \A e \in Envelope : deposit[e].pc = "stored" => deposit[e].id # 0

\* Every step of the relay keeps the types, and an id on every stored deposit.
LEMMA TypeStep == TransitTypeOK /\ StoredHasId /\ [TransitNext]_relayVars => TransitTypeOK' /\ StoredHasId'
  <1> SUFFICES ASSUME TransitTypeOK, StoredHasId, [TransitNext]_relayVars PROVE TransitTypeOK' /\ StoredHasId'
    OBVIOUS
  <1> USE RelayAssumption
  <1>1. ASSUME NEW e \in Envelope, GateRefuses(e) PROVE TransitTypeOK' /\ StoredHasId'
    <2>1. TransitTypeOK'  BY <1>1, AnswerType DEF GateRefuses, TransitTypeOK, Answers
    <2> QED  BY <1>1, <2>1 DEF GateRefuses, Answer, StoredHasId, TransitTypeOK, DepositRecord
  <1>2. ASSUME NEW e \in Envelope, Route(e) PROVE TransitTypeOK' /\ StoredHasId'
    <2>1. deposit' \in [Envelope -> DepositRecord]
      BY <1>2, AnswerType DEF Route, TransitTypeOK, Answers, DepositRecord, Routes
    <2>2. StoredHasId'  BY <1>2 DEF Route, Answer, StoredHasId, TransitTypeOK, DepositRecord
    <2> QED  BY <1>2, <2>1, <2>2 DEF Route, TransitTypeOK
  <1>3. ASSUME NEW e \in Envelope, Enqueue(e) PROVE TransitTypeOK' /\ StoredHasId'
    <2>1. deposit' \in [Envelope -> DepositRecord]
      BY <1>3 DEF Enqueue, TransitTypeOK, DepositRecord, Routes, Id
    <2>2. store' \in SUBSET Entry /\ nextId' \in Id
      BY <1>3 DEF Enqueue, TransitTypeOK, Entry, Id
    <2>3. StoredHasId'  BY <1>3 DEF Enqueue, StoredHasId, TransitTypeOK, DepositRecord, Id
    <2> QED  BY <1>3, <2>1, <2>2, <2>3 DEF Enqueue, TransitTypeOK
  <1>4. ASSUME NEW e \in Envelope, EnqueueFails(e) PROVE TransitTypeOK' /\ StoredHasId'
    <2>1. TransitTypeOK'  BY <1>4, AnswerType DEF EnqueueFails, TransitTypeOK, Answers
    <2> QED  BY <1>4, <2>1 DEF EnqueueFails, Answer, StoredHasId, TransitTypeOK, DepositRecord
  <1>5. ASSUME NEW e \in Envelope, Push(e) PROVE TransitTypeOK' /\ StoredHasId'
    <2> DEFINE s == current[Recipient[e]]
               f == [id |-> deposit[e].id, env |-> e]
    <2>1. deposit' \in [Envelope -> DepositRecord]
      BY <1>5, AnswerType DEF Push, TransitTypeOK, Answers
    <2>2. session' \in [Session -> SessionRecord]
      <3>1. CASE UNCHANGED session  BY <3>1 DEF TransitTypeOK
      <3>2. ASSUME s # 0, NEW taken \in BOOLEAN,
                   session' = [session EXCEPT ![s] = TrySend(@, f, taken)]
            PROVE  session' \in [Session -> SessionRecord]
        <4>1. s \in Session  BY <3>2 DEF TransitTypeOK, Session
        <4>2. f \in RelayFrame  BY <1>5 DEF Push, StoredHasId, TransitTypeOK, DepositRecord, RelayFrame, Id
        <4>3. TrySend(session[s], f, taken) \in SessionRecord
          BY <4>1, <4>2, TrySendType DEF TransitTypeOK
        <4> HIDE DEF f, s
        <4> QED  BY <3>2, <4>1, <4>3 DEF TransitTypeOK
      <3> QED  BY <1>5, <3>1, <3>2 DEF Push
    <2>3. StoredHasId'  BY <1>5 DEF Push, Answer, StoredHasId, TransitTypeOK, DepositRecord
    <2> QED  BY <1>5, <2>1, <2>2, <2>3 DEF Push, TransitTypeOK
  <1>6. ASSUME NEW a \in Agent, Register(a) PROVE TransitTypeOK' /\ StoredHasId'
    <2>1. Blank(a, "registered") \in SessionRecord  BY BlankType DEF Phase
    <2>2. opened + 1 \in Session  BY <1>6 DEF Register, TransitTypeOK, Session
    <2>3. StoredHasId'  BY <1>6 DEF Register, StoredHasId
    <2> QED  BY <1>6, <2>1, <2>2, <2>3 DEF Register, TransitTypeOK, Session
  <1>7. ASSUME NEW a \in Agent, ForwardingChanges(a) PROVE TransitTypeOK' /\ StoredHasId'
    BY <1>7 DEF ForwardingChanges, TransitTypeOK, StoredHasId
  <1>8. ASSUME NEW s \in Session, ReadBacklog(s) PROVE TransitTypeOK' /\ StoredHasId'
    <2>1. PICK q \in Backlogs(session[s].agent) :
             session' = [session EXCEPT ![s] =
                           [@ EXCEPT !.phase = "replaying", !.backlog = Batch(q),
                                     !.overflow = @ \/ Len(q) > ReplayBatch]]
      BY <1>8 DEF ReadBacklog
    <2>2. session[s] \in SessionRecord /\ session[s].agent \in Agent
      BY DEF TransitTypeOK, SessionRecord
    <2>3. Batch(q) \in Seq(RelayFrame)  BY <2>2, BacklogType DEF TransitTypeOK
    <2>4. session' \in [Session -> SessionRecord]
      BY <2>1, <2>2, <2>3 DEF TransitTypeOK, SessionRecord, Phase
    <2>5. StoredHasId'  BY <1>8 DEF ReadBacklog, StoredHasId
    <2> QED  BY <1>8, <2>4, <2>5 DEF ReadBacklog, TransitTypeOK
  <1>9. ASSUME NEW s \in Session, Replay(s) PROVE TransitTypeOK' /\ StoredHasId'
    <2>1. session[s] \in SessionRecord /\ session[s].backlog \in Seq(RelayFrame)
      BY DEF TransitTypeOK, SessionRecord
    <2>2. CASE session[s].backlog = << >>
      <3>1. [session[s] EXCEPT !.phase = "open"] \in SessionRecord
        BY <2>1 DEF SessionRecord, Phase
      <3>2. session' = [session EXCEPT ![s] = [session[s] EXCEPT !.phase = "open"]]
        BY <1>9, <2>2 DEF Replay
      <3>3. session' \in [Session -> SessionRecord]  BY <3>1, <3>2 DEF TransitTypeOK
      <3> QED  BY <1>9, <3>3 DEF Replay, TransitTypeOK, StoredHasId
    <2>3. CASE session[s].backlog # << >>
      <3>1. PICK taken \in BOOLEAN : session' = [session EXCEPT ![s] = Replayed(@, taken)]
        BY <1>9, <2>3 DEF Replay
      <3>2. Replayed(session[s], taken) \in SessionRecord  BY <2>1, <2>3, ReplayedType
      <3>3. session' \in [Session -> SessionRecord]  BY <3>1, <3>2 DEF TransitTypeOK
      <3> QED  BY <1>9, <3>3 DEF Replay, TransitTypeOK, StoredHasId
    <2> QED  BY <2>2, <2>3
  <1>10. ASSUME NEW s \in Session, WriterSends(s) PROVE TransitTypeOK' /\ StoredHasId'
    <2>1. session[s] \in SessionRecord /\ session[s].queue \in Seq(RelayFrame)
          /\ session[s].agent \in Agent
      BY DEF TransitTypeOK, SessionRecord
    <2>2. Head(session[s].queue) \in RelayFrame /\ Tail(session[s].queue) \in Seq(RelayFrame)
      BY <1>10, <2>1, TailCarries DEF WriterSends
    <2>3. session' \in [Session -> SessionRecord]
      BY <1>10, <2>1, <2>2 DEF WriterSends, TransitTypeOK, SessionRecord
    <2>4. received' \in [Agent -> SUBSET RelayFrame]
      <3>1. received[session[s].agent] \cup {Head(session[s].queue)} \in SUBSET RelayFrame
        BY <2>1, <2>2 DEF TransitTypeOK
      <3> QED  BY <1>10, <2>1, <3>1 DEF WriterSends, TransitTypeOK
    <2> QED  BY <1>10, <2>3, <2>4 DEF WriterSends, TransitTypeOK, StoredHasId
  <1>11. ASSUME NEW s \in Session, WriterDies(s) PROVE TransitTypeOK' /\ StoredHasId'
    <2>1. << >> \in Seq(RelayFrame)  BY EmptySeq
    <2>2. session' \in [Session -> SessionRecord]
      <3> DEFINE new == [session[s] EXCEPT !.phase = "closing", !.queue = << >>]
      <3>1. session[s] \in SessionRecord  BY DEF TransitTypeOK
      <3>2. new \in SessionRecord  BY <2>1, <3>1 DEF SessionRecord, Phase
      <3>3. session' = [session EXCEPT ![s] = new]  BY <1>11 DEF WriterDies, TransitTypeOK
      <3> HIDE DEF new
      <3> QED  BY <3>2, <3>3 DEF TransitTypeOK
    <2> QED  BY <1>11, <2>2 DEF WriterDies, TransitTypeOK, StoredHasId
  <1>12. ASSUME NEW s \in Session, SessionExits(s) PROVE TransitTypeOK' /\ StoredHasId'
    <2>1. session[s].agent \in Agent  BY DEF TransitTypeOK, SessionRecord
    <2>2. Ended(session[s]) \in SessionRecord  BY <2>1, BlankType DEF Ended, Phase
    <2>3. session' \in [Session -> SessionRecord]
      BY <1>12, <2>2 DEF SessionExits, TransitTypeOK
    <2>4. current' \in [Agent -> 0..MaxSessions]
      BY <1>12, <2>1 DEF SessionExits, Unregistered, TransitTypeOK
    <2> QED  BY <1>12, <2>3, <2>4 DEF SessionExits, TransitTypeOK, StoredHasId
  <1>13. ASSUME NEW s \in Session, NEW i, TransitAck(s, i) PROVE TransitTypeOK' /\ StoredHasId'
    BY <1>13 DEF TransitAck, Reclaim, TransitTypeOK, StoredHasId
  <1>14. ASSUME SweepExpired PROVE TransitTypeOK' /\ StoredHasId'
    <2>1. store' \in SUBSET Entry /\ expired' \in SUBSET Envelope
      BY <1>14 DEF SweepExpired, TransitTypeOK, Entry
    <2> QED  BY <1>14, <2>1 DEF SweepExpired, TransitTypeOK, StoredHasId
  <1>15. ASSUME Tick PROVE TransitTypeOK' /\ StoredHasId'
    <2>1. store' \in SUBSET Entry  BY <1>15 DEF Tick, TransitTypeOK, Entry
    <2> QED  BY <1>15, <2>1 DEF Tick, TransitTypeOK, StoredHasId
  <1>16. ASSUME Restart PROVE TransitTypeOK' /\ StoredHasId'
    <2>1. ASSUME NEW s \in Session PROVE Ended(session[s]) \in SessionRecord
      BY BlankType DEF Ended, Phase, TransitTypeOK, SessionRecord
    <2>2. session' \in [Session -> SessionRecord]
      BY <1>16, <2>1 DEF Restart, TransitTypeOK
    <2>3. deposit' \in [Envelope -> DepositRecord]
      BY <1>16 DEF Restart, TransitTypeOK, DepositRecord, Routes
    <2>4. StoredHasId'  BY <1>16 DEF Restart, StoredHasId, TransitTypeOK, DepositRecord
    <2>5. store' \in SUBSET Entry /\ nextId' \in Id /\ wiped' \in SUBSET Envelope
      BY <1>16 DEF Restart, TransitTypeOK, Entry, Id
    <2>6. current' \in [Agent -> 0..MaxSessions] /\ restarts' \in 0..MaxRestarts
      BY <1>16 DEF Restart, TransitTypeOK
    <2> QED  BY <1>16, <2>2, <2>3, <2>4, <2>5, <2>6 DEF Restart, TransitTypeOK
  <1>17. CASE UNCHANGED relayVars  BY <1>17 DEF relayVars, TransitTypeOK, StoredHasId
  <1> QED
    BY <1>1, <1>2, <1>3, <1>4, <1>5, <1>6, <1>7, <1>8, <1>9, <1>10, <1>11, <1>12, <1>13,
       <1>14, <1>15, <1>16, <1>17 DEF TransitNext

\* Every value the relay keeps has its type: sessions and ids are issued in order from 1,
\* id 0 -- "direct, needs no ack" on the wire -- names no stored entry.
THEOREM RelayTypeCorrect == TransitSpec => []TransitTypeOK
  <1>1. TransitInit => TransitTypeOK /\ StoredHasId  BY InitType DEF TransitInit, StoredHasId
  <1> QED  BY <1>1, TypeStep, PTL DEF TransitSpec

-----------------------------------------------------------------------------
(* An acknowledged deposit is kept. *)

LEMMA AnswerMoves ==
  ASSUME deposit \in [Envelope -> DepositRecord], NEW e \in Envelope, NEW w, Answer(e, w)
  PROVE  /\ \A d \in Envelope : deposit'[d].id = deposit[d].id
         /\ \A d \in Envelope \ {e} : deposit'[d] = deposit[d]
         /\ deposit'[e].pc = "done" /\ deposit'[e].answer = w
  BY DEF Answer, DepositRecord

\* A step that moves only deposits that are not stored yet, or answers one that is.
LEMMA KeptWhenAnswered ==
  ASSUME KeptInv, NEW e \in Envelope, NEW w \in Answers,
         Answer(e, w), w = "ack" => deposit[e].pc = "stored",
         UNCHANGED <<store, nextId, received, expired>>
  PROVE  /\ DistinctIds' /\ StoredIsKept' /\ StoreTraced' /\ ReceivedTraced'
         /\ \A d \in Envelope : deposit'[d].id = deposit[d].id
  <1>1. /\ \A d \in Envelope : deposit'[d].id = deposit[d].id
        /\ \A d \in Envelope \ {e} : deposit'[d] = deposit[d]
        /\ deposit'[e].pc = "done" /\ deposit'[e].answer = w
    BY AnswerMoves DEF KeptInv, TransitTypeOK
  <1>2. DistinctIds'
    BY <1>1 DEF KeptInv, DistinctIds
  <1>3. StoredIsKept'
    BY <1>1 DEF KeptInv, StoredIsKept, Held, Reached
  <1>4. \A x \in store : x.env \in Envelope  BY DEF KeptInv, TransitTypeOK, Entry
  <1>5. \A a \in Agent : \A f \in received[a] : f.env \in Envelope
    BY DEF KeptInv, TransitTypeOK, RelayFrame
  <1>6. StoreTraced'  BY <1>1, <1>4 DEF KeptInv, StoreTraced, Known
  <1>7. ReceivedTraced'  BY <1>1, <1>5 DEF KeptInv, ReceivedTraced, Known
  <1> QED  BY <1>1, <1>2, <1>3, <1>6, <1>7

\* What a session carries are frames.
LEMMA CarriedFrames ==
  ASSUME TransitTypeOK, NEW s \in Session
  PROVE  Carried(session[s].queue) \cup Carried(session[s].backlog) \subseteq RelayFrame
  <1>1. session[s].queue \in Seq(RelayFrame) /\ session[s].backlog \in Seq(RelayFrame)
    BY DEF TransitTypeOK, SessionRecord
  <1> QED  BY <1>1, ElementOfSeq DEF Carried

\* Sessions keep their trace when every deposit keeps its id and every frame a session
\* carries was carried before or is traced already.
LEMMA SessionsStayTraced ==
  ASSUME TransitTypeOK, SessionsTraced,
         \A d \in Envelope : deposit'[d].id = deposit[d].id,
         \A s \in Session :
            \A f \in Carried(session'[s].queue) \cup Carried(session'[s].backlog) :
               \/ f \in Carried(session[s].queue) \cup Carried(session[s].backlog)
               \/ f.env \in Envelope /\ Known(f)
  PROVE  SessionsTraced'
  <1> SUFFICES ASSUME NEW s \in Session,
                      NEW f \in Carried(session'[s].queue) \cup Carried(session'[s].backlog)
               PROVE  Known(f)'
    BY DEF SessionsTraced, Carried
  <1>1. CASE f \in Carried(session[s].queue) \cup Carried(session[s].backlog)
    <2>1. f.env \in Envelope  BY <1>1, CarriedFrames DEF RelayFrame
    <2> QED  BY <1>1, <2>1 DEF SessionsTraced, Known
  <1>2. CASE f.env \in Envelope /\ Known(f)  BY <1>2 DEF Known
  <1> QED  BY <1>1, <1>2

\* An empty queue carries nothing.
LEMMA EmptyCarries == Carried(<< >>) = {}
  BY DEF Carried

\* A step of the sessions alone.
LEMMA KeptWhenUntouched ==
  ASSUME KeptInv, UNCHANGED <<store, nextId, deposit, received, expired>>
  PROVE  /\ DistinctIds' /\ StoredIsKept' /\ StoreTraced' /\ ReceivedTraced'
         /\ \A d \in Envelope : deposit'[d].id = deposit[d].id
  <1>1. DistinctIds' /\ StoredIsKept'
    BY DEF KeptInv, DistinctIds, StoredIsKept, Held, Reached
  <1>2. StoreTraced' /\ ReceivedTraced'
    BY DEF KeptInv, StoreTraced, ReceivedTraced, Known
  <1> QED  BY <1>1, <1>2

\* A restart that happens leaves the rows and the counter where they were.
LEMMA RestartKeeps ==
  ASSUME IdsLast, TransitTypeOK, Restart
  PROVE  UNCHANGED <<store, nextId, received, expired>>
  <1>1. Durable
    <2>1. CASE MaxRestarts = 0  BY <2>1 DEF TransitTypeOK, Restart
    <2> QED  BY <2>1 DEF IdsLast
  <1> QED  BY <1>1 DEF Restart

\* Every step keeps the traces, the ids apart and the stored envelopes somewhere.
LEMMA KeptStep ==
  ASSUME IdsLast, KeptInv, [TransitNext]_relayVars
  PROVE  /\ StoreTraced' /\ ReceivedTraced' /\ SessionsTraced'
         /\ DistinctIds' /\ StoredIsKept'
  <1> DEFINE Goal == /\ StoreTraced' /\ ReceivedTraced' /\ SessionsTraced'
                     /\ DistinctIds' /\ StoredIsKept'
  <1> USE RelayAssumption
  <1>0. /\ \A x \in store : x.env \in Envelope /\ x.id \in Id
        /\ \A a \in Agent : \A f \in received[a] : f.env \in Envelope /\ f.id \in Id
    BY DEF KeptInv, TransitTypeOK, Entry, RelayFrame
  <1>1. ASSUME NEW e \in Envelope, GateRefuses(e) PROVE Goal
    <2>1. PICK w \in {"throttle", "dropped"} : Answer(e, w)  BY <1>1 DEF GateRefuses
    <2>2. UNCHANGED <<store, nextId, received, expired, session>>  BY <1>1 DEF GateRefuses
    <2>3. /\ DistinctIds' /\ StoredIsKept' /\ StoreTraced' /\ ReceivedTraced'
          /\ \A d \in Envelope : deposit'[d].id = deposit[d].id
      BY <2>1, <2>2, KeptWhenAnswered DEF Answers
    <2>4. SessionsTraced'  BY <2>2, <2>3, SessionsStayTraced DEF KeptInv
    <2> QED  BY <2>3, <2>4
  <1>2. ASSUME NEW e \in Envelope, Route(e) PROVE Goal
    <2>2. UNCHANGED <<store, nextId, received, expired, session>>  BY <1>2 DEF Route
    <2>3. CASE Answer(e, "moved")
      <3>1. /\ DistinctIds' /\ StoredIsKept' /\ StoreTraced' /\ ReceivedTraced'
            /\ \A d \in Envelope : deposit'[d].id = deposit[d].id
        BY <2>2, <2>3, KeptWhenAnswered DEF Answers
      <3>2. SessionsTraced'  BY <2>2, <3>1, SessionsStayTraced DEF KeptInv
      <3> QED  BY <3>1, <3>2
    <2>4. CASE deposit' = [deposit EXCEPT ![e].pc = "routed"]
      <3>1. /\ \A d \in Envelope : deposit'[d].id = deposit[d].id
            /\ \A d \in Envelope : deposit'[d].answer = deposit[d].answer
            /\ \A d \in Envelope \ {e} : deposit'[d].pc = deposit[d].pc
            /\ deposit[e].pc = "idle" /\ deposit'[e].pc = "routed"
        BY <1>2, <2>4 DEF Route, KeptInv, TransitTypeOK, DepositRecord
      <3>2. StoreTraced'  BY <1>0, <2>2, <3>1 DEF KeptInv, StoreTraced, Known
      <3>3. ReceivedTraced'  BY <1>0, <2>2, <3>1 DEF KeptInv, ReceivedTraced, Known
      <3>4. SessionsTraced'  BY <2>2, <3>1, SessionsStayTraced DEF KeptInv
      <3>5. DistinctIds'  BY <2>2, <3>1 DEF KeptInv, DistinctIds
      <3>6. StoredIsKept'  BY <2>2, <3>1 DEF KeptInv, StoredIsKept, Held, Reached
      <3> QED  BY <3>2, <3>3, <3>4, <3>5, <3>6
    <2> QED  BY <1>2, <2>3, <2>4 DEF Route
  <1>3. ASSUME NEW e \in Envelope, Enqueue(e) PROVE Goal
    <2> DEFINE n == [id |-> nextId, env |-> e, age |-> 0]
    <2>1. /\ UNCHANGED <<session, received, expired>>
          /\ store' = store \cup {n} /\ nextId' = nextId + 1
          /\ nextId \in Nat \ {0} /\ deposit[e].pc = "routed"
      BY <1>3 DEF Enqueue, KeptInv, TransitTypeOK, Id
    <2>2. /\ \A d \in Envelope \ {e} : deposit'[d] = deposit[d]
          /\ deposit'[e].id = nextId /\ deposit'[e].pc = "stored"
          /\ deposit'[e].answer = deposit[e].answer
      BY <1>3 DEF Enqueue, KeptInv, TransitTypeOK, DepositRecord
    <2>3. deposit[e].id = 0 /\ deposit[e].answer = "none"
      BY <2>1 DEF KeptInv, DistinctIds
    <2>4. \A d \in Envelope : deposit[d].id \in Nat /\ deposit[d].id < nextId
      BY DEF KeptInv, DistinctIds, TransitTypeOK, DepositRecord
    <2>5. StoreTraced'
      <3>1. \A x \in store : x.env # e  BY <2>1 DEF KeptInv, StoreTraced
      <3> QED  BY <1>0, <2>1, <2>2, <3>1 DEF KeptInv, StoreTraced, Known
    <2>6. ReceivedTraced'
      <3>1. \A a \in Agent : \A f \in received[a] : f.env # e
        BY <1>0, <2>3 DEF KeptInv, ReceivedTraced, Known, Id
      <3> QED  BY <1>0, <2>1, <2>2, <3>1 DEF KeptInv, ReceivedTraced, Known
    <2>7. SessionsTraced'
      <3> SUFFICES ASSUME NEW s \in Session,
                          NEW f \in Carried(session[s].queue) \cup Carried(session[s].backlog)
                   PROVE  Known(f)'
        BY <2>1 DEF SessionsTraced
      <3>1. f.env \in Envelope /\ f.id \in Id  BY CarriedFrames DEF KeptInv, RelayFrame
      <3>2. Known(f)  BY DEF KeptInv, SessionsTraced
      <3> QED  BY <2>2, <2>3, <3>1, <3>2 DEF Known, Id
    <2>8. DistinctIds'  BY <2>1, <2>2, <2>3, <2>4 DEF KeptInv, DistinctIds
    <2>9. StoredIsKept'
      <3>1. n.env = e  OBVIOUS
      <3> QED  BY <2>1, <2>2, <3>1 DEF KeptInv, StoredIsKept, Held, Reached
    <2> QED  BY <2>5, <2>6, <2>7, <2>8, <2>9
  <1>4. ASSUME NEW e \in Envelope, EnqueueFails(e) PROVE Goal
    <2>1. Answer(e, "throttle") /\ UNCHANGED <<store, nextId, received, expired, session>>
      BY <1>4 DEF EnqueueFails
    <2>2. /\ DistinctIds' /\ StoredIsKept' /\ StoreTraced' /\ ReceivedTraced'
          /\ \A d \in Envelope : deposit'[d].id = deposit[d].id
      BY <2>1, KeptWhenAnswered DEF Answers
    <2>3. SessionsTraced'  BY <2>1, <2>2, SessionsStayTraced DEF KeptInv
    <2> QED  BY <2>2, <2>3
  <1>5. ASSUME NEW e \in Envelope, Push(e) PROVE Goal
    <2> DEFINE t == current[Recipient[e]]
               g == [id |-> deposit[e].id, env |-> e]
    <2>1. /\ Answer(e, "ack") /\ deposit[e].pc = "stored"
          /\ UNCHANGED <<store, nextId, received, expired>>
      BY <1>5 DEF Push
    <2>2. /\ DistinctIds' /\ StoredIsKept' /\ StoreTraced' /\ ReceivedTraced'
          /\ \A d \in Envelope : deposit'[d].id = deposit[d].id
      BY <2>1, KeptWhenAnswered DEF Answers
    <2>3. SessionsTraced'
      <3>1. CASE UNCHANGED session  BY <2>2, <3>1, SessionsStayTraced DEF KeptInv
      <3>2. ASSUME t # 0, NEW taken \in BOOLEAN,
                   session' = [session EXCEPT ![t] = TrySend(@, g, taken)]
            PROVE  SessionsTraced'
        <4>1. t \in Session /\ session[t] \in SessionRecord
          BY <3>2 DEF KeptInv, TransitTypeOK, Session
        <4>2. deposit[e].id \in Id
          BY <2>1 DEF KeptInv, DistinctIds, TransitTypeOK, DepositRecord, Id
        <4>3. g \in RelayFrame /\ g.env \in Envelope /\ Known(g)  BY <4>2 DEF RelayFrame, Known
        <4>4. TrySend(session[t], g, taken).backlog = session[t].backlog
          BY <4>1 DEF TrySend, SessionRecord
        <4> HIDE DEF g, t
        <4>5. Carried(TrySend(session[t], g, taken).queue) \subseteq
                 Carried(session[t].queue) \cup {g}
          BY <4>1, <4>3, TrySendType
        <4>6. /\ session'[t] = TrySend(session[t], g, taken)
              /\ \A u \in Session \ {t} : session'[u] = session[u]
          BY <3>2, <4>1 DEF KeptInv, TransitTypeOK
        <4>7. ASSUME NEW u \in Session,
                     NEW f \in Carried(session'[u].queue) \cup Carried(session'[u].backlog)
              PROVE  \/ f \in Carried(session[u].queue) \cup Carried(session[u].backlog)
                     \/ f.env \in Envelope /\ Known(f)
          <5>1. CASE u = t  BY <4>3, <4>4, <4>5, <4>6, <5>1
          <5>2. CASE u # t  BY <4>6, <5>2
          <5> QED  BY <5>1, <5>2
        <4> QED  BY <2>2, <4>7, SessionsStayTraced DEF KeptInv
      <3> QED  BY <1>5, <3>1, <3>2 DEF Push
    <2> QED  BY <2>2, <2>3
  <1>6. ASSUME NEW a \in Agent, Register(a) PROVE Goal
    <2>1. /\ UNCHANGED <<store, nextId, deposit, received, expired>>
          /\ session' = [session EXCEPT ![opened + 1] = Blank(a, "registered")]
      BY <1>6 DEF Register
    <2>2. ASSUME NEW s \in Session
          PROVE  \/ session'[s] = session[s]
                 \/ Carried(session'[s].queue) \cup Carried(session'[s].backlog) = {}
      BY <2>1, BlankType, EmptyCarries DEF KeptInv, TransitTypeOK, Phase
    <2>3. SessionsTraced'  BY <2>1, <2>2, SessionsStayTraced DEF KeptInv
    <2> QED  BY <2>1, <2>3, KeptWhenUntouched
  <1>7. ASSUME NEW a \in Agent, ForwardingChanges(a) PROVE Goal
    <2>1. UNCHANGED <<store, nextId, deposit, received, expired, session>>
      BY <1>7 DEF ForwardingChanges
    <2>2. SessionsTraced'  BY <2>1, SessionsStayTraced DEF KeptInv
    <2> QED  BY <2>1, <2>2, KeptWhenUntouched
  <1>8. ASSUME NEW s \in Session, ReadBacklog(s) PROVE Goal
    <2>1. UNCHANGED <<store, nextId, deposit, received, expired>>  BY <1>8 DEF ReadBacklog
    <2>2. PICK q \in Backlogs(session[s].agent) :
             session' = [session EXCEPT ![s] =
                           [@ EXCEPT !.phase = "replaying", !.backlog = Batch(q),
                                     !.overflow = @ \/ Len(q) > ReplayBatch]]
      BY <1>8 DEF ReadBacklog
    <2>3. session[s] \in SessionRecord /\ session[s].agent \in Agent
      BY DEF KeptInv, TransitTypeOK, SessionRecord
    <2>4. /\ session'[s].queue = session[s].queue /\ session'[s].backlog = Batch(q)
          /\ \A u \in Session \ {s} : session'[u] = session[u]
      BY <2>2, <2>3 DEF KeptInv, TransitTypeOK, SessionRecord
    <2>5. Carried(Batch(q)) \subseteq {FrameOf(x) : x \in Mailbox(session[s].agent)}
      BY <2>3, BacklogType DEF KeptInv, TransitTypeOK
    <2>6. \A x \in Mailbox(session[s].agent) : FrameOf(x).env \in Envelope /\ Known(FrameOf(x))
      BY <1>0 DEF Mailbox, FrameOf, Known, KeptInv, StoreTraced
    <2>7. SessionsTraced'
      BY <2>1, <2>4, <2>5, <2>6, SessionsStayTraced DEF KeptInv
    <2> QED  BY <2>1, <2>7, KeptWhenUntouched
  <1>9. ASSUME NEW s \in Session, Replay(s) PROVE Goal
    <2>1. UNCHANGED <<store, nextId, deposit, received, expired>>  BY <1>9 DEF Replay
    <2>2. session[s] \in SessionRecord  BY DEF KeptInv, TransitTypeOK
    <2>3. SessionsTraced'
      <3>1. CASE session[s].backlog = << >>
        <4>1. session' = [session EXCEPT ![s].phase = "open"]  BY <1>9, <3>1 DEF Replay
        <4>2. /\ session'[s].queue = session[s].queue /\ session'[s].backlog = session[s].backlog
              /\ \A u \in Session \ {s} : session'[u] = session[u]
          BY <2>2, <4>1 DEF KeptInv, TransitTypeOK, SessionRecord
        <4> QED  BY <2>1, <4>2, SessionsStayTraced DEF KeptInv
      <3>2. CASE session[s].backlog # << >>
        <4>1. PICK taken \in BOOLEAN : session' = [session EXCEPT ![s] = Replayed(@, taken)]
          BY <1>9, <3>2 DEF Replay
        <4>2. /\ Carried(Replayed(session[s], taken).queue) \subseteq
                    Carried(session[s].queue) \cup Carried(session[s].backlog)
              /\ Carried(Replayed(session[s], taken).backlog) \subseteq Carried(session[s].backlog)
          BY <2>2, <3>2, ReplayedType
        <4>3. /\ session'[s] = Replayed(session[s], taken)
              /\ \A u \in Session \ {s} : session'[u] = session[u]
          BY <4>1 DEF KeptInv, TransitTypeOK
        <4> QED  BY <2>1, <4>2, <4>3, SessionsStayTraced DEF KeptInv
      <3> QED  BY <3>1, <3>2
    <2> QED  BY <2>1, <2>3, KeptWhenUntouched
  <1>10. ASSUME NEW s \in Session, WriterSends(s) PROVE Goal
    <2> DEFINE h == Head(session[s].queue)
               a == session[s].agent
    <2>1. /\ UNCHANGED <<store, nextId, deposit, expired>> /\ session[s].queue # << >>
          /\ session' = [session EXCEPT ![s].queue = Tail(@)]
          /\ received' \in {received, [received EXCEPT ![a] = @ \cup {h}]}
      BY <1>10 DEF WriterSends
    <2>2. session[s] \in SessionRecord /\ a \in Agent /\ session[s].queue \in Seq(RelayFrame)
      BY DEF KeptInv, TransitTypeOK, SessionRecord
    <2>3. Carried(session[s].queue) = Carried(Tail(session[s].queue)) \cup {h}
      BY <2>1, <2>2, TailCarries
    <2>4. Known(h)  BY <2>3 DEF KeptInv, SessionsTraced
    <2>5. /\ session'[s].queue = Tail(session[s].queue)
          /\ session'[s].backlog = session[s].backlog
          /\ \A u \in Session \ {s} : session'[u] = session[u]
      BY <2>1, <2>2 DEF KeptInv, TransitTypeOK, SessionRecord
    <2>6. SessionsTraced'  BY <2>1, <2>3, <2>5, SessionsStayTraced DEF KeptInv
    <2> HIDE DEF h, a
    <2>7. \A b \in Agent : /\ received[b] \subseteq received'[b]
                           /\ received'[b] \subseteq received[b] \cup {h}
      BY <2>1, <2>2 DEF KeptInv, TransitTypeOK
    <2>8. ReceivedTraced'  BY <2>1, <2>4, <2>7 DEF KeptInv, ReceivedTraced, Known
    <2>9. StoreTraced' /\ DistinctIds'
      BY <2>1 DEF KeptInv, StoreTraced, DistinctIds, Known
    <2>10. StoredIsKept'  BY <2>1, <2>7 DEF KeptInv, StoredIsKept, Held, Reached
    <2> QED  BY <2>6, <2>8, <2>9, <2>10
  <1>11. ASSUME NEW s \in Session, WriterDies(s) PROVE Goal
    <2>1. /\ UNCHANGED <<store, nextId, deposit, received, expired>>
          /\ session' = [session EXCEPT ![s] = [@ EXCEPT !.phase = "closing", !.queue = << >>]]
      BY <1>11 DEF WriterDies
    <2>2. /\ session'[s].agent = session[s].agent
          /\ session'[s].queue = << >> /\ session'[s].backlog = session[s].backlog
          /\ \A t \in Session \ {s} : session'[t] = session[t]
      BY <2>1 DEF KeptInv, TransitTypeOK, SessionRecord
    <2>3. SessionsTraced'
      BY <2>1, <2>2, SessionsStayTraced, EmptyCarries DEF KeptInv
    <2> QED  BY <2>1, <2>3, KeptWhenUntouched
  <1>12. ASSUME NEW s \in Session, SessionExits(s) PROVE Goal
    <2>1. /\ UNCHANGED <<store, nextId, deposit, received, expired>>
          /\ session' = [session EXCEPT ![s] = Ended(@)]
      BY <1>12 DEF SessionExits
    <2>2. session[s].agent \in Agent  BY DEF KeptInv, TransitTypeOK, SessionRecord
    <2>3. /\ session'[s].queue = << >> /\ session'[s].backlog = << >>
          /\ \A t \in Session \ {s} : session'[t] = session[t]
      BY <2>1, <2>2, BlankType DEF KeptInv, TransitTypeOK, Ended, Phase
    <2>4. SessionsTraced'
      BY <2>1, <2>3, SessionsStayTraced, EmptyCarries DEF KeptInv
    <2> QED  BY <2>1, <2>4, KeptWhenUntouched
  <1>13. ASSUME NEW s \in Session, NEW i, TransitAck(s, i) PROVE Goal
    <2> DEFINE a == session[s].agent
    <2>1. /\ UNCHANGED <<nextId, deposit, received, expired, session>>
          /\ store' = store \ {x \in Mailbox(a) : x.id = i}
      BY <1>13 DEF TransitAck, Reclaim
    <2>2. a \in Agent  BY DEF KeptInv, TransitTypeOK, SessionRecord
    <2>3. PICK f \in received[a] : f.id = i  BY <1>13 DEF TransitAck
    <2>4. SessionsTraced'  BY <2>1, SessionsStayTraced DEF KeptInv
    <2>5. StoreTraced' /\ ReceivedTraced' /\ DistinctIds'
      BY <2>1 DEF KeptInv, StoreTraced, ReceivedTraced, DistinctIds, Known
    <2>6. \A x \in store \ store' : Reached(x.env)
      <3> SUFFICES ASSUME NEW x \in store, x \in Mailbox(a), x.id = i PROVE Reached(x.env)
        BY <2>1
      <3>1. x.env \in Envelope /\ f.env \in Envelope /\ i \in Id
        BY <1>0, <2>2, <2>3
      <3>2. deposit[x.env].id = i /\ deposit[f.env].id = i
        BY <2>2, <2>3 DEF KeptInv, StoreTraced, ReceivedTraced, Known
      <3>3. x.env = f.env  BY <3>1, <3>2 DEF KeptInv, DistinctIds, Id
      <3> QED  BY <3>3 DEF Mailbox, Reached
    <2>7. StoredIsKept'
      <3> SUFFICES ASSUME NEW e \in Envelope, deposit[e].id # 0
                   PROVE  (Held(e) \/ Reached(e) \/ e \in expired)'
        BY <2>1 DEF StoredIsKept
      <3>1. Held(e) \/ Reached(e) \/ e \in expired  BY DEF KeptInv, StoredIsKept
      <3> QED  BY <2>1, <2>6, <3>1 DEF Held, Reached
    <2> QED  BY <2>4, <2>5, <2>7
  <1>14. ASSUME SweepExpired PROVE Goal
    <2>1. /\ UNCHANGED <<nextId, deposit, received, session>>
          /\ store' = {x \in store : ~Overdue(x)}
          /\ expired' = expired \cup {x.env : x \in {y \in store : Overdue(y)}}
      BY <1>14 DEF SweepExpired
    <2>2. SessionsTraced'  BY <2>1, SessionsStayTraced DEF KeptInv
    <2>3. StoreTraced' /\ ReceivedTraced' /\ DistinctIds'
      BY <2>1 DEF KeptInv, StoreTraced, ReceivedTraced, DistinctIds, Known
    <2>4. StoredIsKept'  BY <2>1 DEF KeptInv, StoredIsKept, Held, Reached
    <2> QED  BY <2>2, <2>3, <2>4
  <1>15. ASSUME Tick PROVE Goal
    <2> DEFINE Aged(x) == [x EXCEPT !.age = IF @ < Ttl THEN @ + 1 ELSE @]
    <2>1. /\ UNCHANGED <<nextId, deposit, received, expired, session>>
          /\ store' = {Aged(x) : x \in store}
      BY <1>15 DEF Tick
    <2>2. SessionsTraced'  BY <2>1, SessionsStayTraced DEF KeptInv
    <2>3. \A x \in store : Aged(x).id = x.id /\ Aged(x).env = x.env
      BY DEF KeptInv, TransitTypeOK, Entry
    <2> HIDE DEF Aged
    <2>4. StoreTraced' /\ ReceivedTraced' /\ DistinctIds'
      BY <2>1, <2>3 DEF KeptInv, StoreTraced, ReceivedTraced, DistinctIds, Known
    <2>5. \A e \in Envelope : Held(e) => Held(e)'  BY <2>1, <2>3 DEF Held
    <2>6. StoredIsKept'  BY <2>1, <2>5 DEF KeptInv, StoredIsKept, Reached
    <2> QED  BY <2>2, <2>4, <2>6
  <1>16. ASSUME Restart PROVE Goal
    <2>1. UNCHANGED <<store, nextId, received, expired>>  BY <1>16, RestartKeeps DEF KeptInv
    <2>2. \A d \in Envelope :
             /\ deposit'[d].id = deposit[d].id /\ deposit'[d].answer = deposit[d].answer
             /\ \/ deposit'[d].pc = deposit[d].pc
                \/ deposit'[d].pc = "cut" /\ deposit[d].pc \in {"routed", "stored"}
      BY <1>16 DEF Restart, KeptInv, TransitTypeOK, DepositRecord
    <2>3. \A t \in Session : \/ session'[t] = session[t]
                             \/ session'[t].queue = << >> /\ session'[t].backlog = << >>
      BY <1>16, BlankType DEF Restart, Ended, Phase, KeptInv, TransitTypeOK, SessionRecord
    <2>4. SessionsTraced'
      BY <2>2, <2>3, SessionsStayTraced, EmptyCarries DEF KeptInv
    <2>5. StoreTraced'  BY <1>0, <2>1, <2>2 DEF KeptInv, StoreTraced, Known
    <2>6. ReceivedTraced'  BY <1>0, <2>1, <2>2 DEF KeptInv, ReceivedTraced, Known
    <2>7. DistinctIds'  BY <2>1, <2>2 DEF KeptInv, DistinctIds
    <2>8. StoredIsKept'  BY <2>1, <2>2 DEF KeptInv, StoredIsKept, Held, Reached
    <2> QED  BY <2>4, <2>5, <2>6, <2>7, <2>8
  <1>17. CASE UNCHANGED relayVars
    <2>1. UNCHANGED <<store, nextId, deposit, received, expired, session>>
      BY <1>17 DEF relayVars
    <2>2. SessionsTraced'  BY <2>1, SessionsStayTraced DEF KeptInv
    <2> QED  BY <2>1, <2>2, KeptWhenUntouched
  <1> QED
    BY <1>1, <1>2, <1>3, <1>4, <1>5, <1>6, <1>7, <1>8, <1>9, <1>10, <1>11, <1>12, <1>13,
       <1>14, <1>15, <1>16, <1>17 DEF TransitNext

\* The relay starts with nothing stored, carried or issued.
LEMMA KeptInit == TransitInit => KeptInv /\ StoredHasId
  <1> SUFFICES ASSUME TransitInit PROVE KeptInv /\ StoredHasId  OBVIOUS
  <1>1. TransitTypeOK  BY InitType
  <1>2. (CHOOSE a \in Agent : TRUE) \in Agent  BY RelayAssumption
  <1>3. \A s \in Session : session[s].queue = << >> /\ session[s].backlog = << >>
    BY <1>2, BlankType DEF TransitInit, NewSession, Phase
  <1>4. SessionsTraced  BY <1>3, EmptyCarries DEF SessionsTraced
  <1>5. StoreTraced /\ ReceivedTraced /\ DistinctIds /\ StoredIsKept /\ StoredHasId
    BY DEF TransitInit, StoreTraced, ReceivedTraced, DistinctIds, StoredIsKept, StoredHasId
  <1> QED  BY <1>1, <1>4, <1>5 DEF KeptInv

\* With the durable store, or with either store in a process that is not restarted, the Ack
\* is a promise no interleaving breaks: an acknowledged envelope is stored, or was read by
\* its recipient's client, or reached its TTL, for any number of sessions, displacements,
\* lost writes, late acknowledgements and, with the durable store, restarts.
THEOREM AcknowledgedIsKept ==
  ASSUME IdsLast
  PROVE  TransitSpec => []AckedIsKept
  <1>1. TransitInit => KeptInv /\ StoredHasId  BY KeptInit
  <1>2. KeptInv /\ StoredHasId /\ [TransitNext]_relayVars => KeptInv' /\ StoredHasId'
    <2> SUFFICES ASSUME KeptInv, StoredHasId, [TransitNext]_relayVars PROVE KeptInv' /\ StoredHasId'
      OBVIOUS
    <2>1. TransitTypeOK' /\ StoredHasId'  BY TypeStep DEF KeptInv
    <2> QED  BY <2>1, KeptStep DEF KeptInv
  <1>3. KeptInv => AckedIsKept  BY DEF KeptInv, DistinctIds, StoredIsKept, AckedIsKept
  <1> QED  BY <1>1, <1>2, <1>3, PTL DEF TransitSpec

-----------------------------------------------------------------------------
(* The newest session serves, and no entry goes unnoticed by it; with either store. *)

\* Sessions are issued in order, and the registry holds the newest one of each agent.
Registry ==
    /\ \A s \in Session : session[s].phase = "new" <=> s > opened
    /\ NewestSessionServes

\* A session record r does not overlook entry x: x waits in the backlog being replayed,
\* or was put on the channel, or something was left behind on it.
Notice(r, x) ==
    /\ r.phase = "replaying" =>
          FrameOf(x) \in Carried(r.backlog) \/ x.id \in r.pushed \/ r.overflow
    /\ r.phase = "open" => x.id \in r.pushed \/ r.overflow

\* NoEntryUnnoticed, from the reading of the backlog on.
Noticed ==
    \A x \in store : LET s == current[Recipient[x.env]] IN
        s # 0 /\ deposit[x.env].pc # "stored" => Notice(session[s], x)

ServeInv == TransitTypeOK /\ StoredHasId /\ StoreTraced /\ Registry /\ Noticed


\* A step that leaves the registry alone, and every session's agent and whether it is
\* new or live.
LEMMA RegistryKept ==
  ASSUME Registry, UNCHANGED <<opened, current>>,
         \A s \in Session : /\ session'[s].agent = session[s].agent
                            /\ session'[s].phase = "new" <=> session[s].phase = "new"
                            /\ Live(s)' <=> Live(s),
         TransitTypeOK
  PROVE  Registry'
  <1>1. \A s \in Session : session'[s].phase = "new" <=> s > opened'
    BY DEF Registry
  <1>2. \A a \in Agent : current[a] # 0 => current[a] \in Session
    BY RelayAssumption DEF TransitTypeOK, Session
  <1>3. NewestSessionServes'
    <2>1. \A a \in Agent : current'[a] # 0 =>
             Live(current[a])' /\ session'[current[a]].agent = a
      BY <1>2 DEF Registry, NewestSessionServes
    <2>2. ASSUME NEW s \in Session, Live(s)', current'[session'[s].agent] # s
          PROVE  \E t \in Session : /\ t > s /\ session'[t].phase # "new"
                                   /\ session'[t].agent = session'[s].agent
      <3>1. PICK t \in Session : /\ t > s /\ session[t].phase # "new"
                                 /\ session[t].agent = session[s].agent
        BY <2>2 DEF Registry, NewestSessionServes
      <3> QED  BY <3>1
    <2> QED  BY <2>1, <2>2 DEF NewestSessionServes, Live
  <1> QED  BY <1>1, <1>3 DEF Registry

\* Rows stay traced when none is added and every deposit that has a row keeps its id
\* and does not go back.
LEMMA RowsStayTraced ==
  ASSUME TransitTypeOK, StoreTraced,
         \A y \in store' : \E x \in store : x.id = y.id /\ x.env = y.env,
         \A e \in Envelope : deposit[e].pc \in {"stored", "done", "cut"} =>
             deposit'[e].id = deposit[e].id /\ deposit'[e].pc \in {"stored", "done", "cut"}
  PROVE  StoreTraced'
  <1>1. \A x \in store : x.env \in Envelope  BY DEF TransitTypeOK, Entry
  <1> SUFFICES ASSUME NEW y \in store'
               PROVE  /\ deposit'[y.env].id = y.id
                      /\ deposit'[y.env].pc \in {"stored", "done", "cut"}
    BY DEF StoreTraced, Known
  <1>2. PICK x \in store : x.id = y.id /\ x.env = y.env  OBVIOUS
  <1> QED  BY <1>1, <1>2 DEF StoreTraced, Known

\* Entries stay noticed when none is added, no deposit finishes, the registry changes at
\* most by dropping a session or taking one that has not read its backlog, and each
\* session an agent keeps goes on noticing what it noticed.
LEMMA NoticedKept ==
  ASSUME TransitTypeOK, Noticed,
         \A y \in store' : \E x \in store : x.id = y.id /\ x.env = y.env,
         \A e \in Envelope : deposit[e].pc = "stored" => deposit'[e].pc = "stored",
         \A a \in Agent : \/ current'[a] = 0 \/ current'[a] = current[a]
                          \/ session'[current'[a]].phase = "registered",
         \A a \in Agent : \A x \in Mailbox(a) :
             current[a] # 0 /\ Notice(session[current[a]], x) => Notice(session'[current[a]], x)
  PROVE  Noticed'
  <1> SUFFICES ASSUME NEW y \in store', current'[Recipient[y.env]] # 0,
                      deposit'[y.env].pc # "stored"
               PROVE  Notice(session'[current'[Recipient[y.env]]], y)
    BY DEF Noticed, Notice, FrameOf, Carried
  <1>1. PICK x \in store : x.id = y.id /\ x.env = y.env  OBVIOUS
  <1> DEFINE a == Recipient[x.env]
  <1>2. x.env \in Envelope /\ a \in Agent  BY RelayAssumption DEF TransitTypeOK, Entry
  <1>3. FrameOf(x) = FrameOf(y)  BY <1>1 DEF FrameOf
  <1>4. CASE session'[current'[a]].phase = "registered"  BY <1>1, <1>4 DEF Notice
  <1>5. CASE current'[a] = current[a]
    <2>1. deposit[x.env].pc # "stored"  BY <1>1, <1>2
    <2>2. Notice(session[current[a]], x)  BY <1>1, <1>5, <2>1 DEF Noticed
    <2>3. x \in Mailbox(a)  BY DEF Mailbox
    <2>4. Notice(session'[current[a]], x)  BY <1>1, <1>2, <1>5, <2>2, <2>3
    <2> QED  BY <1>1, <1>3, <1>5, <2>4 DEF Notice
  <1> QED  BY <1>1, <1>2, <1>4, <1>5


\* A deposit that ends without an entry, or goes on to be routed.
LEMMA ServeDeposit ==
  ASSUME ServeInv, NEW e \in Envelope,
         GateRefuses(e) \/ Route(e) \/ EnqueueFails(e)
  PROVE  StoreTraced' /\ Registry' /\ Noticed'
  <1>1. UNCHANGED <<store, current, opened, session>> /\ deposit[e].pc \in {"idle", "routed"}
    BY DEF GateRefuses, Route, EnqueueFails
  <1>2. \A d \in Envelope : deposit[d].pc \in {"stored", "done", "cut"} => deposit'[d] = deposit[d]
    BY <1>1 DEF GateRefuses, Route, EnqueueFails, Answer, ServeInv, TransitTypeOK
  <1>3. StoreTraced'  BY <1>1, <1>2, RowsStayTraced DEF ServeInv
  <1>4. Registry'  BY <1>1, RegistryKept DEF ServeInv, Live
  <1>5. Noticed'  BY <1>1, <1>2, NoticedKept DEF ServeInv
  <1> QED  BY <1>3, <1>4, <1>5

\* A new row belongs to a deposit still to be pushed.
LEMMA ServeEnqueue ==
  ASSUME ServeInv, NEW e \in Envelope, Enqueue(e)
  PROVE  StoreTraced' /\ Registry' /\ Noticed'
  <1> DEFINE n == [id |-> nextId, env |-> e, age |-> 0]
  <1>1. /\ UNCHANGED <<current, opened, session>> /\ deposit[e].pc = "routed"
        /\ store' = store \cup {n}
    BY DEF Enqueue
  <1>2. /\ \A d \in Envelope \ {e} : deposit'[d] = deposit[d]
        /\ deposit'[e].id = nextId /\ deposit'[e].pc = "stored"
    BY DEF Enqueue, ServeInv, TransitTypeOK, DepositRecord
  <1>3. \A x \in store : x.env \in Envelope /\ x.env # e
    BY <1>1 DEF ServeInv, StoreTraced, TransitTypeOK, Entry
  <1>4. n.env = e /\ n.id = nextId  OBVIOUS
  <1> HIDE DEF n
  <1>5. StoreTraced'  BY <1>1, <1>2, <1>3, <1>4 DEF ServeInv, StoreTraced, Known
  <1>6. Registry'  BY <1>1, RegistryKept DEF ServeInv, Live
  <1>7. Noticed'  BY <1>1, <1>2, <1>3, <1>4 DEF ServeInv, Noticed, Notice
  <1> QED  BY <1>5, <1>6, <1>7

\* The push either puts the row on the channel of the session that serves its recipient
\* or marks what it left behind.
LEMMA ServePush ==
  ASSUME ServeInv, NEW e \in Envelope, Push(e)
  PROVE  StoreTraced' /\ Registry' /\ Noticed'
  <1> DEFINE t == current[Recipient[e]]
             f == [id |-> deposit[e].id, env |-> e]
  <1>1. /\ UNCHANGED <<store, current, opened>> /\ deposit[e].pc = "stored" /\ Answer(e, "ack")
    BY DEF Push
  <1>2. /\ \A d \in Envelope : deposit'[d].id = deposit[d].id
        /\ \A d \in Envelope \ {e} : deposit'[d] = deposit[d]
        /\ deposit'[e].pc = "done"
    BY <1>1, AnswerMoves DEF ServeInv, TransitTypeOK
  <1>3. StoreTraced'
    <2>1. \A d \in Envelope : deposit[d].pc \in {"stored", "done", "cut"} =>
             deposit'[d].id = deposit[d].id /\ deposit'[d].pc \in {"stored", "done", "cut"}
      BY <1>2
    <2> QED  BY <1>1, <2>1, RowsStayTraced DEF ServeInv
  <1>4. \A x \in store : /\ x.env \in Envelope /\ Recipient[x.env] \in Agent
                         /\ x.env = e => x.id = deposit[e].id
    BY RelayAssumption DEF ServeInv, StoreTraced, Known, TransitTypeOK, Entry
  <1>5. CASE t = 0
    <2>1. UNCHANGED session  BY <1>5 DEF Push
    <2>2. Registry'  BY <1>1, <2>1, RegistryKept DEF ServeInv, Live
    <2>3. ASSUME NEW x \in store, current[Recipient[x.env]] # 0, deposit'[x.env].pc # "stored"
          PROVE  Notice(session[current[Recipient[x.env]]], x)
      <3>1. x.env # e  BY <1>5, <2>3
      <3> QED  BY <1>2, <1>4, <2>3, <3>1 DEF ServeInv, Noticed
    <2>4. Noticed'  BY <1>1, <2>1, <2>3 DEF Noticed, Notice
    <2> QED  BY <1>3, <2>2, <2>4
  <1>6. CASE t # 0
    <2>1. PICK taken \in BOOLEAN : session' = [session EXCEPT ![t] = TrySend(@, f, taken)]
      BY <1>6 DEF Push
    <2>2. t \in Session /\ session[t] \in SessionRecord
      BY <1>6, RelayAssumption DEF ServeInv, TransitTypeOK, Session
    <2>3. /\ session'[t] = TrySend(session[t], f, taken)
          /\ \A u \in Session \ {t} : session'[u] = session[u]
      BY <2>1, <2>2 DEF ServeInv, TransitTypeOK
    <2>4. /\ session'[t].agent = session[t].agent /\ session'[t].phase = session[t].phase
          /\ session'[t].backlog = session[t].backlog
          /\ session[t].pushed \subseteq session'[t].pushed
          /\ session[t].overflow => session'[t].overflow
          /\ deposit[e].id \in session'[t].pushed \/ session'[t].overflow
      BY <2>2, <2>3 DEF TrySend, SessionRecord
    <2>5. Registry'  BY <1>1, <2>3, <2>4, RegistryKept DEF ServeInv, Live
    <2>6. ASSUME NEW x \in store, current[Recipient[x.env]] # 0, deposit'[x.env].pc # "stored"
          PROVE  Notice(session'[current[Recipient[x.env]]], x)
      <3> DEFINE s == current[Recipient[x.env]]
      <3>1. CASE x.env = e  BY <1>4, <2>4, <3>1 DEF Notice
      <3>2. CASE x.env # e
        <4>1. Notice(session[s], x)  BY <1>2, <1>4, <2>6, <3>2 DEF ServeInv, Noticed
        <4>2. s \in Session  BY <1>4, <2>6, RelayAssumption DEF ServeInv, TransitTypeOK, Session
        <4>3. CASE s = t  BY <2>4, <4>1, <4>3 DEF Notice
        <4>4. CASE s # t  BY <2>3, <4>1, <4>2, <4>4
        <4> QED  BY <4>3, <4>4
      <3> QED  BY <3>1, <3>2
    <2>7. Noticed'  BY <1>1, <2>6 DEF Noticed, Notice, Carried, FrameOf
    <2> QED  BY <1>3, <2>5, <2>7
  <1> QED  BY <1>5, <1>6

\* A new connection takes the entry; the one it displaces is older.
LEMMA ServeRegister ==
  ASSUME ServeInv, NEW a \in Agent, Register(a)
  PROVE  StoreTraced' /\ Registry' /\ Noticed'
  <1> DEFINE n == opened + 1
  <1>1. /\ UNCHANGED <<store, deposit>> /\ opened' = n
        /\ current' = [current EXCEPT ![a] = n]
        /\ session' = [session EXCEPT ![n] = Blank(a, "registered")]
        /\ opened \in Nat /\ n \in Session
    BY RelayAssumption DEF Register, ServeInv, TransitTypeOK, Session
  <1>2. /\ session'[n].agent = a /\ session'[n].phase = "registered"
        /\ \A s \in Session \ {n} : session'[s] = session[s]
        /\ current'[a] = n /\ \A b \in Agent \ {a} : current'[b] = current[b]
    BY <1>1, BlankType DEF ServeInv, TransitTypeOK, Phase
  <1>3. /\ session[n].phase = "new"
        /\ \A s \in Session : session[s].phase # "new" => s < n
        /\ \A s \in Session : Live(s) => session[s].phase # "new"
    BY <1>1 DEF ServeInv, Registry, Live, Session
  <1>4. \A b \in Agent : current[b] # 0 => current[b] \in Session /\ current[b] # n
    BY <1>1, <1>3, RelayAssumption DEF ServeInv, Registry, NewestSessionServes, TransitTypeOK, Session
  <1>5. \A s \in Session : session'[s].phase = "new" <=> s > opened'
    BY <1>1, <1>2 DEF ServeInv, Registry, Session
  <1>6. NewestSessionServes'
    <2>1. ASSUME NEW b \in Agent, current'[b] # 0
          PROVE  /\ session'[current'[b]].phase \in {"registered", "replaying", "open", "closing"}
                 /\ session'[current'[b]].agent = b
      BY <1>2, <1>4, <2>1 DEF ServeInv, Registry, NewestSessionServes, Live
    <2>2. ASSUME NEW s \in Session, Live(s)', current'[session'[s].agent] # s
          PROVE  \E u \in Session : /\ u > s /\ session'[u].phase # "new"
                                   /\ session'[u].agent = session'[s].agent
      <3>1. s # n  BY <1>2, <2>2
      <3>2. session'[s] = session[s] /\ Live(s) /\ session[s].agent \in Agent
        BY <1>2, <2>2, <3>1 DEF Live, ServeInv, TransitTypeOK, SessionRecord
      <3>3. CASE session[s].agent = a  BY <1>1, <1>2, <1>3, <3>2, <3>3 DEF Session
      <3>4. CASE session[s].agent # a
        <4>1. current[session[s].agent] # s  BY <1>2, <2>2, <3>2, <3>4
        <4>2. PICK u \in Session : /\ u > s /\ session[u].phase # "new"
                                   /\ session[u].agent = session[s].agent
          BY <3>2, <4>1 DEF ServeInv, Registry, NewestSessionServes
        <4>3. u # n  BY <1>3, <4>2
        <4> QED  BY <1>2, <3>2, <4>2, <4>3
      <3> QED  BY <3>3, <3>4
    <2> QED  BY <2>1, <2>2 DEF NewestSessionServes, Live
  <1>7. Noticed'
    <2>1. \A b \in Agent : current'[b] = current[b] \/ session'[current'[b]].phase = "registered"
      BY <1>2
    <2>2. \A b \in Agent : current[b] # 0 => session'[current[b]] = session[current[b]]
      BY <1>2, <1>4
    <2> QED  BY <1>1, <2>1, <2>2, NoticedKept DEF ServeInv
  <1>8. StoreTraced'  BY <1>1, RowsStayTraced DEF ServeInv
  <1> QED  BY <1>5, <1>6, <1>7, <1>8 DEF Registry


\* One connection's step that keeps its agent, keeps it live, and -- if it serves its
\* agent -- keeps noticing that agent's rows.
LEMMA ServeSessionStep ==
  ASSUME ServeInv, NEW s \in Session, UNCHANGED <<store, current, opened, deposit>>,
         \A u \in Session \ {s} : session'[u] = session[u],
         session'[s].agent = session[s].agent,
         session'[s].phase = "new" <=> session[s].phase = "new",
         Live(s)' <=> Live(s),
         \A x \in Mailbox(session[s].agent) :
             Notice(session[s], x) => Notice(session'[s], x)
  PROVE  StoreTraced' /\ Registry' /\ Noticed'
  <1>1. StoreTraced'  BY RowsStayTraced DEF ServeInv
  <1>2. \A u \in Session : /\ session'[u].agent = session[u].agent
                           /\ session'[u].phase = "new" <=> session[u].phase = "new"
                           /\ Live(u)' <=> Live(u)
    BY DEF Live
  <1>3. Registry'  BY <1>2, RegistryKept DEF ServeInv
  <1>4. ASSUME NEW a \in Agent, NEW x \in Mailbox(a), current[a] # 0,
               Notice(session[current[a]], x)
        PROVE  Notice(session'[current[a]], x)
    <2>1. current[a] \in Session /\ session[current[a]].agent = a
      BY <1>4, RelayAssumption
      DEF ServeInv, TransitTypeOK, Session, Registry, NewestSessionServes
    <2>2. CASE current[a] = s  BY <1>4, <2>1, <2>2
    <2>3. CASE current[a] # s  BY <1>4, <2>1, <2>3
    <2> QED  BY <2>2, <2>3
  <1>5. Noticed'  BY <1>4, NoticedKept DEF ServeInv
  <1> QED  BY <1>1, <1>3, <1>5

\* What a session reads is the whole mailbox, or it remembers that it cut it.
LEMMA ServeReadBacklog ==
  ASSUME ServeInv, NEW s \in Session, ReadBacklog(s)
  PROVE  StoreTraced' /\ Registry' /\ Noticed'
  <1>1. PICK q \in Backlogs(session[s].agent) :
           session' = [session EXCEPT ![s] =
                         [@ EXCEPT !.phase = "replaying", !.backlog = Batch(q),
                                   !.overflow = @ \/ Len(q) > ReplayBatch]]
    BY DEF ReadBacklog
  <1>2. session[s] \in SessionRecord /\ session[s].agent \in Agent /\ store \in SUBSET Entry
    BY DEF ServeInv, TransitTypeOK, SessionRecord
  <1>3. /\ session'[s].agent = session[s].agent /\ session'[s].phase = "replaying"
        /\ session'[s].backlog = Batch(q)
        /\ Len(q) > ReplayBatch => session'[s].overflow
        /\ \A u \in Session \ {s} : session'[u] = session[u]
    BY <1>1, <1>2 DEF ServeInv, TransitTypeOK, SessionRecord
  <1>4. /\ Carried(q) = {FrameOf(x) : x \in Mailbox(session[s].agent)}
        /\ Len(q) <= ReplayBatch => Batch(q) = q
        /\ Len(q) \in Nat
    BY <1>2, BacklogType
  <1>5. ASSUME NEW x \in Mailbox(session[s].agent) PROVE Notice(session'[s], x)
    <2>1. FrameOf(x) \in Carried(q)  BY <1>4
    <2>2. CASE Len(q) <= ReplayBatch  BY <1>3, <1>4, <2>1, <2>2 DEF Notice
    <2>3. CASE Len(q) > ReplayBatch  BY <1>3, <2>3 DEF Notice
    <2> QED  BY <1>4, <2>2, <2>3, RelayAssumption
  <1>6. session[s].phase = "registered" /\ UNCHANGED <<store, current, opened, deposit>>
    BY DEF ReadBacklog
  <1> QED  BY <1>3, <1>5, <1>6, ServeSessionStep DEF Live

\* A frame leaves the backlog only for the channel.
LEMMA ServeReplay ==
  ASSUME ServeInv, NEW s \in Session, Replay(s)
  PROVE  StoreTraced' /\ Registry' /\ Noticed'
  <1>1. /\ session[s].phase = "replaying" /\ UNCHANGED <<store, current, opened, deposit>>
        /\ session[s] \in SessionRecord /\ session[s].backlog \in Seq(RelayFrame)
    BY DEF Replay, ServeInv, TransitTypeOK, SessionRecord
  <1>2. CASE session[s].backlog = << >>
    <2>1. session' = [session EXCEPT ![s].phase = "open"]  BY <1>2 DEF Replay
    <2>2. /\ session'[s].agent = session[s].agent /\ session'[s].phase = "open"
          /\ session'[s].pushed = session[s].pushed /\ session'[s].overflow = session[s].overflow
          /\ \A u \in Session \ {s} : session'[u] = session[u]
      BY <1>1, <2>1 DEF ServeInv, TransitTypeOK, SessionRecord
    <2>3. \A x \in Mailbox(session[s].agent) : Notice(session[s], x) => Notice(session'[s], x)
      BY <1>1, <1>2, <2>2, EmptyCarries DEF Notice
    <2> QED  BY <1>1, <2>2, <2>3, ServeSessionStep DEF Live
  <1>3. CASE session[s].backlog # << >>
    <2>1. PICK taken \in BOOLEAN : session' = [session EXCEPT ![s] = Replayed(@, taken)]
      BY <1>3 DEF Replay
    <2>2. /\ session'[s] = Replayed(session[s], taken)
          /\ \A u \in Session \ {s} : session'[u] = session[u]
      BY <2>1 DEF ServeInv, TransitTypeOK
    <2>3. /\ session'[s].agent = session[s].agent /\ session'[s].phase = session[s].phase
          /\ ~taken => session'[s].overflow
          /\ taken => /\ session'[s].overflow = session[s].overflow
                      /\ session'[s].pushed = session[s].pushed \cup {Head(session[s].backlog).id}
                      /\ session'[s].backlog = Tail(session[s].backlog)
      BY <1>1, <1>3, <2>2, ReplayedType
    <2>4. Carried(session[s].backlog) =
             Carried(Tail(session[s].backlog)) \cup {Head(session[s].backlog)}
      BY <1>1, <1>3, TailCarries
    <2>5. \A x \in store : FrameOf(x).id = x.id  BY DEF FrameOf
    <2>6. \A x \in Mailbox(session[s].agent) : Notice(session[s], x) => Notice(session'[s], x)
      BY <1>1, <2>3, <2>4, <2>5 DEF Notice, Mailbox
    <2> QED  BY <1>1, <2>2, <2>3, <2>6, ServeSessionStep DEF Live
  <1> QED  BY <1>2, <1>3

\* The writer takes frames from the channel, not from what was pushed; a writer that died
\* leaves a session that is no longer open.
LEMMA ServeWriter ==
  ASSUME ServeInv, NEW s \in Session, WriterSends(s) \/ WriterDies(s)
  PROVE  StoreTraced' /\ Registry' /\ Noticed'
  <1>1. /\ session[s].phase = "open" /\ UNCHANGED <<store, current, opened, deposit>>
        /\ session[s] \in SessionRecord
    BY DEF WriterSends, WriterDies, ServeInv, TransitTypeOK
  <1>2. /\ session'[s].agent = session[s].agent /\ session'[s].phase \in {"open", "closing"}
        /\ session'[s].pushed = session[s].pushed /\ session'[s].overflow = session[s].overflow
        /\ \A u \in Session \ {s} : session'[u] = session[u]
    <2>1. CASE WriterSends(s)
      BY <1>1, <2>1 DEF WriterSends, ServeInv, TransitTypeOK, SessionRecord
    <2>2. CASE WriterDies(s)
      BY <1>1, <2>2 DEF WriterDies, ServeInv, TransitTypeOK, SessionRecord
    <2> QED  BY <2>1, <2>2
  <1>3. \A x \in Mailbox(session[s].agent) : Notice(session[s], x) => Notice(session'[s], x)
    BY <1>1, <1>2 DEF Notice
  <1> QED  BY <1>1, <1>2, <1>3, ServeSessionStep DEF Live

\* A connection that ends takes only its own entry with it.
LEMMA ServeExit ==
  ASSUME ServeInv, NEW s \in Session, SessionExits(s)
  PROVE  StoreTraced' /\ Registry' /\ Noticed'
  <1> DEFINE a == session[s].agent
  <1>1. /\ UNCHANGED <<store, opened, deposit>> /\ a \in Agent
        /\ session[s].phase \in {"open", "closing"}
        /\ session' = [session EXCEPT ![s] = Ended(@)]
        /\ current' = [current EXCEPT ![a] = IF @ = s THEN 0 ELSE @]
    BY DEF SessionExits, Unregistered, ServeInv, TransitTypeOK, SessionRecord
  <1>2. /\ session'[s].agent = a /\ session'[s].phase = "gone"
        /\ \A u \in Session \ {s} : session'[u] = session[u]
        /\ current'[a] = (IF current[a] = s THEN 0 ELSE current[a])
        /\ \A b \in Agent \ {a} : current'[b] = current[b]
    BY <1>1, BlankType DEF Ended, ServeInv, TransitTypeOK, Phase
  <1> HIDE DEF a
  <1>3. \A b \in Agent : current[b] # 0 => current[b] \in Session
    BY RelayAssumption DEF ServeInv, TransitTypeOK, Session
  <1>4. ASSUME NEW b \in Agent, current'[b] # 0
        PROVE  current'[b] = current[b] /\ current[b] \in Session \ {s}
    <2>1. current'[b] = current[b]  BY <1>1, <1>2, <1>4
    <2>2. current[b] # s
      <3>1. CASE b = a  BY <1>2, <1>4, <3>1, <2>1
      <3>2. CASE b # a
        <4>1. session[current[b]].agent = b
          BY <1>4, <2>1 DEF ServeInv, Registry, NewestSessionServes
        <4> QED  BY <3>2, <4>1 DEF a
      <3> QED  BY <3>1, <3>2
    <2> QED  BY <1>3, <1>4, <2>1, <2>2
  <1>5. \A u \in Session : session'[u].phase = "new" <=> u > opened'
    BY <1>1, <1>2 DEF ServeInv, Registry
  <1>6. NewestSessionServes'
    <2>1. ASSUME NEW b \in Agent, current'[b] # 0
          PROVE  /\ session'[current'[b]].phase \in {"registered", "replaying", "open", "closing"}
                 /\ session'[current'[b]].agent = b
      BY <1>2, <1>4, <2>1 DEF ServeInv, Registry, NewestSessionServes, Live
    <2>2. ASSUME NEW u \in Session, Live(u)', current'[session'[u].agent] # u
          PROVE  \E v \in Session : /\ v > u /\ session'[v].phase # "new"
                                   /\ session'[v].agent = session'[u].agent
      <3>1. u # s  BY <1>2, <2>2 DEF Live
      <3>2. session'[u] = session[u] /\ Live(u) /\ session[u].agent \in Agent
        BY <1>2, <2>2, <3>1 DEF Live, ServeInv, TransitTypeOK, SessionRecord
      <3>3. current[session[u].agent] # u
        BY <1>1, <1>2, <2>2, <3>1, <3>2
      <3>4. PICK v \in Session : /\ v > u /\ session[v].phase # "new"
                                 /\ session[v].agent = session[u].agent
        BY <3>2, <3>3 DEF ServeInv, Registry, NewestSessionServes
      <3>5. session'[v].phase # "new" /\ session'[v].agent = session[v].agent
        BY <1>2, <3>4 DEF a
      <3> QED  BY <3>2, <3>4, <3>5
    <2> QED  BY <2>1, <2>2 DEF NewestSessionServes, Live
  <1>7. StoreTraced'  BY <1>1, RowsStayTraced DEF ServeInv
  <1>8. Noticed'
    <2> SUFFICES ASSUME NEW x \in store, current'[Recipient[x.env]] # 0,
                        deposit[x.env].pc # "stored"
                 PROVE  Notice(session'[current'[Recipient[x.env]]], x)
      BY <1>1 DEF Noticed, Notice, FrameOf, Carried
    <2> DEFINE b == Recipient[x.env]
    <2>1. b \in Agent  BY RelayAssumption DEF ServeInv, TransitTypeOK, Entry
    <2>2. current'[b] = current[b] /\ session'[current[b]] = session[current[b]]
      BY <1>2, <1>4, <2>1
    <2>3. Notice(session[current[b]], x)  BY <2>2 DEF ServeInv, Noticed
    <2> QED  BY <2>2, <2>3
  <1> QED  BY <1>5, <1>6, <1>7, <1>8 DEF Registry

\* Rows that are acknowledged, swept or aged add none, and nothing else moves.
LEMMA ServeStore ==
  ASSUME ServeInv, UNCHANGED <<current, opened, session, deposit>>,
         \A y \in store' : \E x \in store : x.id = y.id /\ x.env = y.env
  PROVE  StoreTraced' /\ Registry' /\ Noticed'
  <1>1. StoreTraced'  BY RowsStayTraced DEF ServeInv
  <1>2. Registry'  BY RegistryKept DEF ServeInv, Live
  <1>3. Noticed'  BY NoticedKept DEF ServeInv
  <1> QED  BY <1>1, <1>2, <1>3

\* After a restart no agent has a session, and every session opened has ended.
LEMMA ServeRestart ==
  ASSUME ServeInv, Restart
  PROVE  StoreTraced' /\ Registry' /\ Noticed'
  <1>1. /\ opened' = opened /\ store' \subseteq store
        /\ \A a \in Agent : current'[a] = 0
    BY DEF Restart
  <1>2. \A s \in Session : /\ session'[s].phase \notin {"registered", "replaying", "open", "closing"}
                           /\ session'[s].phase = "new" <=> session[s].phase = "new"
    BY BlankType DEF Restart, Live, Ended, Phase, ServeInv, TransitTypeOK, SessionRecord
  <1>3. \A d \in Envelope : deposit[d].pc \in {"stored", "done", "cut"} =>
           deposit'[d].id = deposit[d].id /\ deposit'[d].pc \in {"stored", "done", "cut"}
    BY DEF Restart, ServeInv, TransitTypeOK, DepositRecord
  <1>4. StoreTraced'  BY <1>1, <1>3, RowsStayTraced DEF ServeInv
  <1>5. Registry'  BY <1>1, <1>2 DEF ServeInv, Registry, NewestSessionServes, Live
  <1>6. \A x \in store' : Recipient[x.env] \in Agent
    BY <1>1, RelayAssumption DEF ServeInv, TransitTypeOK, Entry
  <1>7. Noticed'  BY <1>1, <1>6 DEF Noticed
  <1> QED  BY <1>4, <1>5, <1>7

\* Every step keeps the registry and the notices, whichever store the relay has.
LEMMA ServeInvStep == ServeInv /\ [TransitNext]_relayVars => ServeInv'
  <1> SUFFICES ASSUME ServeInv, [TransitNext]_relayVars PROVE ServeInv'  OBVIOUS
  <1>0. TransitTypeOK' /\ StoredHasId'  BY TypeStep DEF ServeInv
  <1> DEFINE Goal == StoreTraced' /\ Registry' /\ Noticed'
  <1>1. ASSUME NEW e \in Envelope,
               GateRefuses(e) \/ Route(e) \/ Enqueue(e) \/ EnqueueFails(e) \/ Push(e)
        PROVE  Goal
    BY <1>1, ServeDeposit, ServeEnqueue, ServePush
  <1>2. ASSUME NEW a \in Agent, Register(a) PROVE Goal  BY <1>2, ServeRegister
  <1>3. ASSUME NEW a \in Agent, ForwardingChanges(a) PROVE Goal
    <2>1. UNCHANGED <<store, current, opened, session, deposit>>
      BY <1>3 DEF ForwardingChanges
    <2> QED  BY <2>1, ServeStore
  <1>4. ASSUME NEW s \in Session,
               ReadBacklog(s) \/ Replay(s) \/ WriterSends(s) \/ WriterDies(s) \/ SessionExits(s)
        PROVE  Goal
    BY <1>4, ServeReadBacklog, ServeReplay, ServeWriter, ServeExit
  <1>5. ASSUME NEW s \in Session, NEW i, TransitAck(s, i) PROVE Goal
    <2>1. UNCHANGED <<current, opened, session, deposit>> /\ store' \subseteq store
      BY <1>5 DEF TransitAck, Reclaim
    <2> QED  BY <2>1, ServeStore
  <1>6. ASSUME SweepExpired PROVE Goal
    <2>1. UNCHANGED <<current, opened, session, deposit>> /\ store' \subseteq store
      BY <1>6 DEF SweepExpired
    <2> QED  BY <2>1, ServeStore
  <1>7. ASSUME Tick PROVE Goal
    <2>1. UNCHANGED <<current, opened, session, deposit>>  BY <1>7 DEF Tick
    <2>2. \A y \in store' : \E x \in store : x.id = y.id /\ x.env = y.env
      BY <1>7 DEF Tick, ServeInv, TransitTypeOK, Entry
    <2> QED  BY <2>1, <2>2, ServeStore
  <1>8. ASSUME Restart PROVE Goal  BY <1>8, ServeRestart
  <1>9. ASSUME UNCHANGED relayVars PROVE Goal
    <2>1. UNCHANGED <<store, current, opened, session, deposit>>  BY <1>9 DEF relayVars
    <2> QED  BY <2>1, ServeStore
  <1>10. Goal  BY <1>1, <1>2, <1>3, <1>4, <1>5, <1>6, <1>7, <1>8, <1>9 DEF TransitNext
  <1> QED  BY <1>0, <1>10 DEF ServeInv

\* The registry and the notices hold in every state of the relay.
LEMMA ServeInvariant == TransitSpec => []ServeInv
  <1>1. TransitInit => ServeInv
    <2> SUFFICES ASSUME TransitInit PROVE ServeInv  OBVIOUS
    <2>1. TransitTypeOK  BY InitType
    <2>2. (CHOOSE a \in Agent : TRUE) \in Agent  BY RelayAssumption
    <2>3. \A s \in Session : session[s].phase = "new"
      BY <2>2, BlankType DEF TransitInit, NewSession, Phase
    <2>4. StoreTraced /\ StoredHasId /\ Noticed
      BY DEF TransitInit, StoreTraced, StoredHasId, Noticed
    <2>5. Registry
      BY <2>3 DEF TransitInit, Registry, NewestSessionServes, Live, Session
    <2> QED  BY <2>1, <2>4, <2>5 DEF ServeInv
  <1> QED  BY <1>1, ServeInvStep, PTL DEF TransitSpec

\* The registry names the newest connection of each agent while it lives and nothing that
\* has ended, whatever the order in which displaced connections exit, with either store.
THEOREM NewestServes == TransitSpec => []NewestSessionServes
  <1>1. ServeInv => NewestSessionServes  BY DEF ServeInv, Registry
  <1> QED  BY <1>1, ServeInvariant, PTL

\* A deposit that races a connection coming up is seen by one of the two: the replay's read
\* of the backlog, or the push that follows the enqueue; with either store.
THEOREM EntriesNoticed == TransitSpec => []NoEntryUnnoticed
  <1>1. ServeInv => NoEntryUnnoticed
    BY DEF ServeInv, Noticed, Notice, NoEntryUnnoticed
  <1> QED  BY <1>1, ServeInvariant, PTL

-----------------------------------------------------------------------------
(* Where ids last the relay implements the transit contract. *)

\* What became of the relay's copy of an envelope.
Fate(e) ==
    IF Held(e) THEN "stored"
    ELSE IF deposit[e].id = 0 THEN "absent"
    ELSE IF e \in expired THEN "expired" ELSE "reclaimed"

\* The contract's state, read off the relay's.
Contract == INSTANCE TransitContract
    WITH copy <- [e \in Envelope |-> Fate(e)],
         told <- {e \in Envelope : deposit[e].answer = "ack"},
         hand <- [a \in Agent |-> {f.env : f \in received[a]}]

Addressed(f, a) == Recipient[f.env] = a

\* A frame is on its addressee's connections and in its addressee's hands only.
SessionsAddressed ==
    \A s \in Session : \A f \in Carried(session[s].queue) \cup Carried(session[s].backlog) :
        Addressed(f, session[s].agent)
ReceivedAddressed == \A a \in Agent : \A f \in received[a] : Addressed(f, a)

\* What expired had been stored, and is stored no more.
ExpiredTraced == \A e \in expired : deposit[e].id # 0 /\ ~Held(e)

\* An envelope is stored in one row.
OneRow == \A x, y \in store : x.env = y.env => x = y

ContractInv == SessionsAddressed /\ ReceivedAddressed /\ ExpiredTraced /\ OneRow

\* Sessions stay addressed when a frame on one was there before, with the same agent, or
\* is addressed to the agent of that session.
LEMMA SessionsStayAddressed ==
  ASSUME SessionsAddressed,
         \A s \in Session :
            \A f \in Carried(session'[s].queue) \cup Carried(session'[s].backlog) :
               \/ /\ f \in Carried(session[s].queue) \cup Carried(session[s].backlog)
                  /\ session'[s].agent = session[s].agent
               \/ Addressed(f, session'[s].agent)
  PROVE  SessionsAddressed'
  BY DEF SessionsAddressed, Addressed, Carried

\* Every step keeps the frames with their addressees.
LEMMA SessionsAddressedStep ==
  ASSUME KeptInv, Registry, SessionsAddressed, [TransitNext]_relayVars
  PROVE  SessionsAddressed'
  <1> USE RelayAssumption
  <1>1. CASE UNCHANGED session  BY <1>1, SessionsStayAddressed
  <1>2. ASSUME NEW e \in Envelope, Push(e) PROVE SessionsAddressed'
    <2> DEFINE t == current[Recipient[e]]
               g == [id |-> deposit[e].id, env |-> e]
    <2>1. CASE UNCHANGED session  BY <2>1, SessionsStayAddressed
    <2>2. ASSUME t # 0, NEW taken \in BOOLEAN,
                 session' = [session EXCEPT ![t] = TrySend(@, g, taken)]
          PROVE  SessionsAddressed'
      <3>1. /\ t \in Session /\ session[t] \in SessionRecord
            /\ session[t].agent = Recipient[e]
        BY <2>2 DEF KeptInv, TransitTypeOK, Session, Registry, NewestSessionServes
      <3>2. deposit[e].id \in Id
        BY <1>2 DEF Push, KeptInv, DistinctIds, TransitTypeOK, DepositRecord, Id
      <3>3. g \in RelayFrame /\ Addressed(g, session[t].agent)  BY <3>1, <3>2 DEF RelayFrame, Addressed
      <3>4. /\ TrySend(session[t], g, taken).backlog = session[t].backlog
            /\ TrySend(session[t], g, taken).agent = session[t].agent
        BY <3>1 DEF TrySend, SessionRecord
      <3> HIDE DEF g, t
      <3>5. Carried(TrySend(session[t], g, taken).queue) \subseteq
               Carried(session[t].queue) \cup {g}
        BY <3>1, <3>3, TrySendType
      <3>6. /\ session'[t] = TrySend(session[t], g, taken)
            /\ \A u \in Session \ {t} : session'[u] = session[u]
        BY <2>2, <3>1 DEF KeptInv, TransitTypeOK
      <3>7. ASSUME NEW u \in Session,
                   NEW f \in Carried(session'[u].queue) \cup Carried(session'[u].backlog)
            PROVE  \/ /\ f \in Carried(session[u].queue) \cup Carried(session[u].backlog)
                      /\ session'[u].agent = session[u].agent
                   \/ Addressed(f, session'[u].agent)
        <4>1. CASE u = t  BY <3>3, <3>4, <3>5, <3>6, <4>1
        <4>2. CASE u # t  BY <3>6, <4>2
        <4> QED  BY <4>1, <4>2
      <3> QED  BY <3>7, SessionsStayAddressed
    <2> QED  BY <1>2, <2>1, <2>2 DEF Push
  <1>3. ASSUME NEW a \in Agent, Register(a) PROVE SessionsAddressed'
    <2>1. session' = [session EXCEPT ![opened + 1] = Blank(a, "registered")]
      BY <1>3 DEF Register
    <2>2. ASSUME NEW s \in Session
          PROVE  \/ session'[s] = session[s]
                 \/ Carried(session'[s].queue) \cup Carried(session'[s].backlog) = {}
      BY <2>1, BlankType, EmptyCarries DEF KeptInv, TransitTypeOK, Phase
    <2> QED  BY <2>2, SessionsStayAddressed
  <1>4. ASSUME NEW s \in Session, ReadBacklog(s) PROVE SessionsAddressed'
    <2>1. PICK q \in Backlogs(session[s].agent) :
             session' = [session EXCEPT ![s] =
                           [@ EXCEPT !.phase = "replaying", !.backlog = Batch(q),
                                     !.overflow = @ \/ Len(q) > ReplayBatch]]
      BY <1>4 DEF ReadBacklog
    <2>2. session[s] \in SessionRecord /\ session[s].agent \in Agent
      BY DEF KeptInv, TransitTypeOK, SessionRecord
    <2>3. /\ session'[s].queue = session[s].queue /\ session'[s].backlog = Batch(q)
          /\ session'[s].agent = session[s].agent
          /\ \A u \in Session \ {s} : session'[u] = session[u]
      BY <2>1, <2>2 DEF KeptInv, TransitTypeOK, SessionRecord
    <2>4. Carried(Batch(q)) \subseteq {FrameOf(x) : x \in Mailbox(session[s].agent)}
      BY <2>2, BacklogType DEF KeptInv, TransitTypeOK
    <2>5. \A x \in Mailbox(session[s].agent) : Addressed(FrameOf(x), session[s].agent)
      BY DEF Mailbox, FrameOf, Addressed
    <2> QED  BY <2>3, <2>4, <2>5, SessionsStayAddressed
  <1>5. ASSUME NEW s \in Session, Replay(s) PROVE SessionsAddressed'
    <2>1. session[s] \in SessionRecord  BY DEF KeptInv, TransitTypeOK
    <2>2. CASE session[s].backlog = << >>
      <3>1. session' = [session EXCEPT ![s].phase = "open"]  BY <1>5, <2>2 DEF Replay
      <3>2. /\ session'[s].queue = session[s].queue /\ session'[s].backlog = session[s].backlog
            /\ session'[s].agent = session[s].agent
            /\ \A u \in Session \ {s} : session'[u] = session[u]
        BY <2>1, <3>1 DEF KeptInv, TransitTypeOK, SessionRecord
      <3> QED  BY <3>2, SessionsStayAddressed
    <2>3. CASE session[s].backlog # << >>
      <3>1. PICK taken \in BOOLEAN : session' = [session EXCEPT ![s] = Replayed(@, taken)]
        BY <1>5, <2>3 DEF Replay
      <3>2. /\ Carried(Replayed(session[s], taken).queue) \subseteq
                  Carried(session[s].queue) \cup Carried(session[s].backlog)
            /\ Carried(Replayed(session[s], taken).backlog) \subseteq Carried(session[s].backlog)
            /\ Replayed(session[s], taken).agent = session[s].agent
        BY <2>1, <2>3, ReplayedType
      <3>3. /\ session'[s] = Replayed(session[s], taken)
            /\ \A u \in Session \ {s} : session'[u] = session[u]
        BY <3>1 DEF KeptInv, TransitTypeOK
      <3> QED  BY <3>2, <3>3, SessionsStayAddressed
    <2> QED  BY <2>2, <2>3
  <1>6. ASSUME NEW s \in Session, WriterSends(s) PROVE SessionsAddressed'
    <2>1. session[s].queue # << >> /\ session' = [session EXCEPT ![s].queue = Tail(@)]
      BY <1>6 DEF WriterSends
    <2>2. session[s] \in SessionRecord /\ session[s].queue \in Seq(RelayFrame)
      BY DEF KeptInv, TransitTypeOK, SessionRecord
    <2>3. Carried(Tail(session[s].queue)) \subseteq Carried(session[s].queue)
      BY <2>1, <2>2, TailCarries
    <2>4. /\ session'[s].queue = Tail(session[s].queue)
          /\ session'[s].backlog = session[s].backlog /\ session'[s].agent = session[s].agent
          /\ \A u \in Session \ {s} : session'[u] = session[u]
      BY <2>1, <2>2 DEF KeptInv, TransitTypeOK, SessionRecord
    <2> QED  BY <2>3, <2>4, SessionsStayAddressed
  <1>7. ASSUME NEW s \in Session, WriterDies(s) PROVE SessionsAddressed'
    <2>1. session' = [session EXCEPT ![s] = [@ EXCEPT !.phase = "closing", !.queue = << >>]]
      BY <1>7 DEF WriterDies
    <2>2. /\ session'[s].agent = session[s].agent
          /\ session'[s].queue = << >> /\ session'[s].backlog = session[s].backlog
          /\ \A t \in Session \ {s} : session'[t] = session[t]
      BY <2>1 DEF KeptInv, TransitTypeOK, SessionRecord
    <2> QED  BY <2>2, SessionsStayAddressed, EmptyCarries
  <1>8. ASSUME NEW s \in Session, SessionExits(s) PROVE SessionsAddressed'
    <2>1. session' = [session EXCEPT ![s] = Ended(@)]  BY <1>8 DEF SessionExits
    <2>2. session[s].agent \in Agent  BY DEF KeptInv, TransitTypeOK, SessionRecord
    <2>3. /\ session'[s].queue = << >> /\ session'[s].backlog = << >>
          /\ \A t \in Session \ {s} : session'[t] = session[t]
      BY <2>1, <2>2, BlankType DEF KeptInv, TransitTypeOK, Ended, Phase
    <2> QED  BY <2>3, SessionsStayAddressed, EmptyCarries
  <1>9. ASSUME Restart PROVE SessionsAddressed'
    <2>1. \A t \in Session : \/ session'[t] = session[t]
                             \/ session'[t].queue = << >> /\ session'[t].backlog = << >>
      BY <1>9, BlankType DEF Restart, Ended, Phase, KeptInv, TransitTypeOK, SessionRecord
    <2> QED  BY <2>1, SessionsStayAddressed, EmptyCarries
  <1>10. ASSUME ~UNCHANGED session
         PROVE  \/ \E e \in Envelope : Push(e)
                \/ \E a \in Agent : Register(a)
                \/ \E s \in Session : ReadBacklog(s) \/ Replay(s) \/ WriterSends(s)
                                      \/ WriterDies(s) \/ SessionExits(s)
                \/ Restart
    BY <1>10 DEF TransitNext, relayVars, GateRefuses, Route, Enqueue, EnqueueFails,
                 ForwardingChanges, TransitAck, SweepExpired, Tick
  <1> QED  BY <1>1, <1>2, <1>3, <1>4, <1>5, <1>6, <1>7, <1>8, <1>9, <1>10

\* Only the writer of a session hands a frame over, and it hands over the head of that
\* session's queue.
LEMMA HandsStep ==
  ASSUME TransitTypeOK, [TransitNext]_relayVars, ~UNCHANGED received
  PROVE  /\ UNCHANGED <<store, deposit, expired>>
         /\ \E s \in Session : \E f \in Carried(session[s].queue) :
               received' = [received EXCEPT ![session[s].agent] = @ \cup {f}]
  <1>1. PICK s \in Session : WriterSends(s)
    BY DEF TransitNext, relayVars, GateRefuses, Route, Enqueue, EnqueueFails, Push, Register,
           ForwardingChanges, ReadBacklog, Replay, WriterDies, SessionExits, TransitAck,
           SweepExpired, Tick, Restart
  <1>2. session[s].queue \in Seq(RelayFrame)  BY DEF TransitTypeOK, SessionRecord
  <1>3. Head(session[s].queue) \in Carried(session[s].queue)
    BY <1>1, <1>2, TailCarries DEF WriterSends
  <1> QED  BY <1>1, <1>3 DEF WriterSends

\* What a client gains in a step is a stored envelope of its own.
LEMMA HandsGain ==
  ASSUME KeptInv, ContractInv, [TransitNext]_relayVars
  PROVE  \A a \in Agent : \A f \in received'[a] :
            f \in received[a] \/ (f \in RelayFrame /\ Addressed(f, a) /\ Known(f)')
  <1>1. CASE UNCHANGED received  BY <1>1
  <1>2. CASE ~UNCHANGED received
    <2>a. PICK s \in Session : \E g \in Carried(session[s].queue) :
             received' = [received EXCEPT ![session[s].agent] = @ \cup {g}]
      BY <1>2, HandsStep DEF KeptInv
    <2>b. PICK f \in Carried(session[s].queue) :
             received' = [received EXCEPT ![session[s].agent] = @ \cup {f}]
      BY <2>a
    <2>1. /\ received' = [received EXCEPT ![session[s].agent] = @ \cup {f}]
          /\ deposit' = deposit
      BY <1>2, <2>b, HandsStep DEF KeptInv
    <2>2. f \in RelayFrame /\ Known(f) /\ Addressed(f, session[s].agent)
      BY CarriedFrames DEF KeptInv, SessionsTraced, ContractInv, SessionsAddressed
    <2>3. Known(f)'  BY <2>1, <2>2 DEF Known
    <2>4. \A a \in Agent : received'[a] \subseteq received[a] \cup
             (IF a = session[s].agent THEN {f} ELSE {})
      BY <2>1 DEF KeptInv, TransitTypeOK
    <2> QED  BY <2>2, <2>3, <2>4
  <1> QED  BY <1>1, <1>2

\* How a step changes the rows and the ids of the deposits: a new row for an envelope that
\* had none, rows reclaimed or expired, rows a tick older, or nothing.
LEMMA RowsStep ==
  ASSUME IdsLast, KeptInv, [TransitNext]_relayVars
  PROVE  \/ \E e \in Envelope : Enqueue(e)
         \/ /\ \A d \in Envelope : deposit'[d].id = deposit[d].id
            /\ \/ UNCHANGED <<store, expired>>
               \/ Tick \/ SweepExpired
               \/ \E s \in Session : \E i \in {f.id : f \in received[session[s].agent]} :
                     TransitAck(s, i)
  <1> DEFINE Same == \A d \in Envelope : deposit'[d].id = deposit[d].id
  <1>0. deposit \in [Envelope -> DepositRecord]  BY DEF KeptInv, TransitTypeOK
  <1>1. ASSUME NEW e \in Envelope, NEW w, Answer(e, w) PROVE Same
    BY <1>0, <1>1, AnswerMoves
  <1>2. ASSUME NEW e \in Envelope, GateRefuses(e) PROVE Same /\ UNCHANGED <<store, expired>>
    BY <1>1, <1>2 DEF GateRefuses
  <1>3. ASSUME NEW e \in Envelope, Route(e) PROVE Same /\ UNCHANGED <<store, expired>>
    <2>1. Answer(e, "moved") \/ deposit' = [deposit EXCEPT ![e].pc = "routed"]
      BY <1>3 DEF Route
    <2>2. Same  BY <2>1, <1>0, <1>1 DEF DepositRecord
    <2> QED  BY <1>3, <2>2 DEF Route
  <1>4. ASSUME NEW e \in Envelope, EnqueueFails(e) PROVE Same /\ UNCHANGED <<store, expired>>
    BY <1>1, <1>4 DEF EnqueueFails
  <1>5. ASSUME NEW e \in Envelope, Push(e) PROVE Same /\ UNCHANGED <<store, expired>>
    BY <1>1, <1>5 DEF Push
  <1>6. ASSUME Restart PROVE Same /\ UNCHANGED <<store, expired>>
    <2>1. UNCHANGED <<store, expired>>  BY <1>6, RestartKeeps DEF KeptInv
    <2>2. Same  BY <1>0, <1>6 DEF Restart, DepositRecord
    <2> QED  BY <2>1, <2>2
  <1>7. ASSUME NEW a \in Agent, Register(a) \/ ForwardingChanges(a)
        PROVE  Same /\ UNCHANGED <<store, expired>>
    BY <1>7 DEF Register, ForwardingChanges
  <1>8. ASSUME NEW s \in Session,
               ReadBacklog(s) \/ Replay(s) \/ WriterSends(s) \/ WriterDies(s) \/ SessionExits(s)
        PROVE  Same /\ UNCHANGED <<store, expired>>
    BY <1>8 DEF ReadBacklog, Replay, WriterSends, WriterDies, SessionExits
  <1>9. ASSUME SweepExpired \/ Tick PROVE Same  BY <1>9 DEF SweepExpired, Tick
  <1>10. ASSUME NEW s \in Session, NEW i, TransitAck(s, i) PROVE Same
    BY <1>10 DEF TransitAck
  <1>11. ASSUME UNCHANGED relayVars PROVE Same /\ UNCHANGED <<store, expired>>
    BY <1>11 DEF relayVars
  <1> HIDE DEF Same
  <1>12. \/ \E e \in Envelope : Enqueue(e)
         \/ /\ Same
            /\ \/ UNCHANGED <<store, expired>>
               \/ Tick \/ SweepExpired
               \/ \E s \in Session : \E i \in {f.id : f \in received[session[s].agent]} :
                     TransitAck(s, i)
    BY <1>2, <1>3, <1>4, <1>5, <1>6, <1>7, <1>8, <1>9, <1>10, <1>11 DEF TransitNext
  <1> QED  BY <1>12 DEF Same

\* A tick leaves the same envelopes stored, in one row each.
LEMMA TickRows ==
  ASSUME KeptInv, OneRow, Tick
  PROVE  OneRow' /\ (\A e \in Envelope : Held(e)' <=> Held(e)) /\ UNCHANGED expired
  <1> DEFINE Aged(x) == [x EXCEPT !.age = IF @ < Ttl THEN @ + 1 ELSE @]
  <1>1. store' = {Aged(x) : x \in store} /\ UNCHANGED expired  BY DEF Tick
  <1>2. \A x \in store : Aged(x).env = x.env  BY DEF KeptInv, TransitTypeOK, Entry
  <1> HIDE DEF Aged
  <1>3. OneRow'  BY <1>1, <1>2 DEF OneRow
  <1>4. \A e \in Envelope : Held(e)' <=> Held(e)  BY <1>1, <1>2 DEF Held
  <1> QED  BY <1>1, <1>3, <1>4

\* The row of an enqueued envelope is its first; nothing else is moved.
LEMMA EnqueueRows ==
  ASSUME KeptInv, OneRow, NEW e \in Envelope, Enqueue(e)
  PROVE  /\ OneRow' /\ ~Held(e) /\ Held(e)' /\ deposit[e].id = 0
         /\ deposit'[e].id # 0 /\ deposit'[e].answer = deposit[e].answer
         /\ \A d \in Envelope \ {e} : (Held(d)' <=> Held(d)) /\ deposit'[d] = deposit[d]
         /\ UNCHANGED <<expired, received>>
  <1> DEFINE n == [id |-> nextId, env |-> e, age |-> 0]
  <1>1. /\ UNCHANGED <<received, expired>> /\ store' = store \cup {n}
        /\ nextId # 0 /\ deposit[e].pc = "routed"
    BY DEF Enqueue, KeptInv, TransitTypeOK, Id
  <1>2. /\ \A d \in Envelope \ {e} : deposit'[d] = deposit[d]
        /\ deposit'[e].id = nextId /\ deposit'[e].answer = deposit[e].answer
    BY DEF Enqueue, KeptInv, TransitTypeOK, DepositRecord
  <1>3. deposit[e].id = 0  BY <1>1 DEF KeptInv, DistinctIds
  <1>4. \A x \in store : x.env # e  BY <1>1 DEF KeptInv, StoreTraced
  <1>5. n.env = e  OBVIOUS
  <1> HIDE DEF n
  <1>6. OneRow'  BY <1>1, <1>4, <1>5 DEF OneRow
  <1>7. ~Held(e) /\ Held(e)' /\ \A d \in Envelope \ {e} : Held(d)' <=> Held(d)
    BY <1>1, <1>4, <1>5 DEF Held
  <1> QED  BY <1>1, <1>2, <1>3, <1>6, <1>7

\* A sweep takes the stored envelopes that are due, and notes exactly those.
LEMMA SweepRows ==
  ASSUME KeptInv, OneRow, SweepExpired
  PROVE  /\ OneRow'
         /\ \E due \in SUBSET {e \in Envelope : Held(e)} :
               /\ expired' = expired \cup due
               /\ \A e \in Envelope : Held(e)' <=> Held(e) /\ e \notin due
  <1> DEFINE due == {x.env : x \in {y \in store : Overdue(y)}}
  <1>1. store' = {x \in store : ~Overdue(x)} /\ expired' = expired \cup due
    BY DEF SweepExpired
  <1>2. \A x \in store : x.env \in Envelope  BY DEF KeptInv, TransitTypeOK, Entry
  <1>3. due \in SUBSET {e \in Envelope : Held(e)}  BY <1>2 DEF Held
  <1>4. ASSUME NEW e \in Envelope PROVE Held(e)' <=> Held(e) /\ e \notin due
    BY <1>1 DEF Held, OneRow
  <1>5. OneRow'  BY <1>1 DEF OneRow
  <1> HIDE DEF due
  <1> QED  BY <1>1, <1>3, <1>4, <1>5

\* An acknowledgement takes at most one envelope, which the acknowledging client holds.
LEMMA AckRows ==
  ASSUME KeptInv, ContractInv, NEW s \in Session, NEW i, TransitAck(s, i)
  PROVE  /\ OneRow' /\ UNCHANGED <<deposit, received, expired>>
         /\ \/ UNCHANGED store
            \/ \E e \in Envelope : /\ Held(e) /\ ~Held(e)' /\ Reached(e)
                                   /\ \A d \in Envelope \ {e} : Held(d)' <=> Held(d)
  <1> DEFINE a == session[s].agent
  <1>1. /\ UNCHANGED <<deposit, received, expired>>
        /\ store' = store \ {x \in Mailbox(a) : x.id = i}
    BY DEF TransitAck, Reclaim
  <1>2. a \in Agent  BY DEF KeptInv, TransitTypeOK, SessionRecord
  <1>3. PICK f \in received[a] : f.id = i  BY DEF TransitAck
  <1>4. f.env \in Envelope /\ i \in Id /\ deposit[f.env].id = i /\ Recipient[f.env] = a
    BY <1>2, <1>3 DEF KeptInv, TransitTypeOK, RelayFrame, ReceivedTraced, Known, ContractInv,
                      ReceivedAddressed, Addressed
  <1>5. OneRow'  BY <1>1 DEF ContractInv, OneRow
  <1>6. ASSUME NEW x \in store PROVE x.env \in Envelope /\ (x.id = i <=> x.env = f.env)
    <2>1. x.env \in Envelope /\ deposit[x.env].id = x.id
      BY DEF KeptInv, TransitTypeOK, Entry, StoreTraced, Known
    <2> QED  BY <2>1, <1>4 DEF KeptInv, DistinctIds, Id
  <1>7. store' = {x \in store : x.env # f.env}
    BY <1>1, <1>4, <1>6 DEF Mailbox
  <1>8. CASE Held(f.env)
    <2>1. ~Held(f.env)' /\ \A d \in Envelope \ {f.env} : Held(d)' <=> Held(d)
      BY <1>7 DEF Held
    <2>2. Reached(f.env)  BY <1>3, <1>4 DEF Reached
    <2> QED  BY <1>1, <1>4, <1>5, <1>8, <2>1, <2>2
  <1>9. CASE ~Held(f.env)
    <2>1. store' = store  BY <1>7, <1>9 DEF Held
    <2> QED  BY <1>1, <1>5, <2>1
  <1> QED  BY <1>8, <1>9

\* Where ids last every step keeps the frames with their addressees, one row to an
\* envelope, and what expired apart from what is stored.
LEMMA ContractInvStep ==
  ASSUME IdsLast, KeptInv, Registry, ContractInv, [TransitNext]_relayVars
  PROVE  ContractInv'
  <1>1. SessionsAddressed'  BY SessionsAddressedStep DEF ContractInv
  <1>2. ReceivedAddressed'
    BY HandsGain DEF ContractInv, ReceivedAddressed, Addressed
  <1>3. ExpiredTraced' /\ OneRow'
    <2>0. expired \subseteq Envelope  BY DEF KeptInv, TransitTypeOK
    <2>1. ASSUME NEW e \in Envelope, Enqueue(e) PROVE ExpiredTraced' /\ OneRow'
      BY <2>0, <2>1, EnqueueRows DEF ContractInv, ExpiredTraced
    <2>2. ASSUME \A d \in Envelope : deposit'[d].id = deposit[d].id,
                 UNCHANGED <<store, expired>>
          PROVE  ExpiredTraced' /\ OneRow'
      BY <2>0, <2>2 DEF ContractInv, ExpiredTraced, OneRow, Held
    <2>3. ASSUME \A d \in Envelope : deposit'[d].id = deposit[d].id, Tick
          PROVE  ExpiredTraced' /\ OneRow'
      BY <2>0, <2>3, TickRows DEF ContractInv, ExpiredTraced
    <2>4. ASSUME \A d \in Envelope : deposit'[d].id = deposit[d].id, SweepExpired
          PROVE  ExpiredTraced' /\ OneRow'
      <3>1. OneRow'  BY <2>4, SweepRows DEF ContractInv
      <3>2. PICK due \in SUBSET {e \in Envelope : Held(e)} :
               /\ expired' = expired \cup due
               /\ \A e \in Envelope : Held(e)' <=> Held(e) /\ e \notin due
        BY <2>4, SweepRows DEF ContractInv
      <3>3. \A e \in due : deposit[e].id # 0
        BY DEF Held, KeptInv, TransitTypeOK, Entry, Id, StoreTraced, Known
      <3>4. ExpiredTraced'
        BY <2>0, <2>4, <3>2, <3>3 DEF ContractInv, ExpiredTraced
      <3> QED  BY <3>1, <3>4
    <2>5. ASSUME NEW s \in Session, NEW i, TransitAck(s, i)
          PROVE  ExpiredTraced' /\ OneRow'
      <3>1. OneRow' /\ UNCHANGED <<deposit, expired>>  BY <2>5, AckRows
      <3>2. store' \subseteq store  BY <2>5 DEF TransitAck, Reclaim
      <3> QED  BY <3>1, <3>2 DEF ContractInv, ExpiredTraced, Held
    <2> QED  BY <2>1, <2>2, <2>3, <2>4, <2>5, RowsStep
  <1> QED  BY <1>1, <1>2, <1>3 DEF ContractInv

\* An envelope's fate follows its rows, its id and the note of the sweep.
LEMMA FateSame ==
  ASSUME NEW e \in Envelope, Held(e)' <=> Held(e), deposit'[e].id = deposit[e].id,
         e \in expired' <=> e \in expired
  PROVE  Fate(e)' = Fate(e)
  BY DEF Fate

\* A deposit's answer turns to Ack in Push alone, of an envelope that was stored.
LEMMA ToldStep ==
  ASSUME KeptInv, [TransitNext]_relayVars
  PROVE  \/ \A d \in Envelope : deposit'[d].answer = "ack" <=> deposit[d].answer = "ack"
         \/ \E e \in Envelope :
               /\ deposit[e].id # 0
               /\ {d \in Envelope : deposit'[d].answer = "ack"} =
                     {d \in Envelope : deposit[d].answer = "ack"} \cup {e}
               /\ \A d \in Envelope : deposit'[d].id = deposit[d].id
               /\ UNCHANGED <<store, expired>>
  <1> DEFINE Same == \A d \in Envelope : deposit'[d].answer = "ack" <=> deposit[d].answer = "ack"
  <1>0. deposit \in [Envelope -> DepositRecord]  BY DEF KeptInv, TransitTypeOK
  <1>1. ASSUME NEW e \in Envelope, NEW w, w # "ack", Answer(e, w),
               deposit[e].pc \in {"idle", "routed"}
        PROVE  Same
    <2>1. deposit[e].answer = "none"  BY <1>1 DEF KeptInv, DistinctIds
    <2> QED  BY <1>0, <1>1, <2>1, AnswerMoves
  <1>2. ASSUME NEW e \in Envelope, GateRefuses(e) \/ Route(e) \/ EnqueueFails(e) PROVE Same
    <2>1. CASE GateRefuses(e)  BY <1>1, <2>1 DEF GateRefuses
    <2>2. CASE EnqueueFails(e)  BY <1>1, <2>2 DEF EnqueueFails
    <2>3. CASE Route(e)
      <3>1. Answer(e, "moved") \/ deposit' = [deposit EXCEPT ![e].pc = "routed"]
        BY <2>3 DEF Route
      <3>2. deposit[e].pc = "idle"  BY <2>3 DEF Route
      <3> QED  BY <1>0, <1>1, <3>1, <3>2 DEF DepositRecord
    <2> QED  BY <1>2, <2>1, <2>2, <2>3
  <1>3. ASSUME NEW e \in Envelope, Enqueue(e) PROVE Same
    BY <1>0, <1>3 DEF Enqueue, DepositRecord
  <1>4. ASSUME NEW e \in Envelope, Push(e)
        PROVE  /\ deposit[e].id # 0
               /\ {d \in Envelope : deposit'[d].answer = "ack"} =
                     {d \in Envelope : deposit[d].answer = "ack"} \cup {e}
               /\ \A d \in Envelope : deposit'[d].id = deposit[d].id
               /\ UNCHANGED <<store, expired>>
    <2>1. /\ Answer(e, "ack") /\ deposit[e].pc = "stored" /\ UNCHANGED <<store, expired>>
      BY <1>4 DEF Push
    <2>2. deposit[e].id # 0  BY <2>1 DEF KeptInv, DistinctIds
    <2>3. /\ \A d \in Envelope : deposit'[d].id = deposit[d].id
          /\ \A d \in Envelope \ {e} : deposit'[d] = deposit[d]
          /\ deposit'[e].answer = "ack"
      BY <1>0, <2>1, AnswerMoves
    <2> QED  BY <2>1, <2>2, <2>3
  <1>5. ASSUME Restart PROVE Same  BY <1>0, <1>5 DEF Restart, DepositRecord
  <1>6. ASSUME UNCHANGED deposit PROVE Same  BY <1>6
  <1>7. \/ UNCHANGED deposit \/ Restart
        \/ \E e \in Envelope : \/ GateRefuses(e) \/ Route(e) \/ EnqueueFails(e)
                               \/ Enqueue(e) \/ Push(e)
    BY DEF TransitNext, relayVars, Register, ForwardingChanges, ReadBacklog, Replay, WriterSends,
           WriterDies, SessionExits, TransitAck, SweepExpired, Tick
  <1> HIDE DEF Same
  <1>8. CASE Same  BY <1>8 DEF Same
  <1>9. CASE \E e \in Envelope : Push(e)  BY <1>4, <1>9
  <1> QED  BY <1>2, <1>3, <1>5, <1>6, <1>7, <1>8, <1>9

\* Where ids last every step of the relay is a step of the contract.
LEMMA ContractStep ==
  ASSUME IdsLast, KeptInv, ContractInv, [TransitNext]_relayVars
  PROVE  Contract!ContractNext
  <1> DEFINE Copies == [e \in Envelope |-> Fate(e)]
             Told == {e \in Envelope : deposit[e].answer = "ack"}
             Hands == [a \in Agent |-> {f.env : f \in received[a]}]
  <1>1. Contract!Delivered
    <2>1. ASSUME NEW a \in Agent, NEW f \in received'[a], f \notin received[a]
          PROVE  f.env \in Envelope /\ Recipient[f.env] = a /\ Fate(f.env)' # "absent"
      <3>1. f \in RelayFrame /\ Addressed(f, a) /\ Known(f)'  BY <2>1, HandsGain
      <3>2. f.env \in Envelope /\ deposit'[f.env].id # 0
        BY <3>1 DEF RelayFrame, Id, Known
      <3> QED  BY <3>1, <3>2 DEF Addressed, Fate
    <2>2. ASSUME NEW a \in Agent, NEW e \in Hands'[a], e \notin Hands[a]
          PROVE  e \in Envelope /\ Recipient[e] = a /\ Copies'[e] # "absent"
      <3>1. PICK f \in received'[a] : f.env = e  BY <2>2
      <3>2. f \notin received[a]  BY <2>2, <3>1
      <3> QED  BY <2>1, <3>1, <3>2
    <2> QED  BY <2>2 DEF Contract!Delivered
  <1>2. ASSUME NEW e \in Envelope, Enqueue(e) PROVE Contract!Enqueued(e)
    <2>1. /\ ~Held(e) /\ Held(e)' /\ deposit[e].id = 0
          /\ deposit'[e].id # 0 /\ deposit'[e].answer = deposit[e].answer
          /\ \A d \in Envelope \ {e} : (Held(d)' <=> Held(d)) /\ deposit'[d] = deposit[d]
          /\ UNCHANGED expired
      BY <1>2, EnqueueRows DEF ContractInv
    <2>2. Fate(e) = "absent" /\ Fate(e)' = "stored"  BY <2>1 DEF Fate
    <2>3. \A d \in Envelope \ {e} : Fate(d)' = Fate(d)  BY <2>1, FateSame
    <2>4. Copies[e] = "absent" /\ Copies' = [Copies EXCEPT ![e] = "stored"]
      BY <2>2, <2>3
    <2>5. Told' = Told  BY <2>1
    <2> QED  BY <2>4, <2>5 DEF Contract!Enqueued
  <1>3. ASSUME \A d \in Envelope : deposit'[d].id = deposit[d].id,
               \A d \in Envelope : Held(d)' <=> Held(d), UNCHANGED expired
        PROVE  Copies' = Copies
    BY <1>3, FateSame
  <1>4. CASE \A d \in Envelope : deposit'[d].answer = "ack" <=> deposit[d].answer = "ack"
    <2>1. Told' = Told  BY <1>4
    <2>2. CASE Copies' = Copies  BY <1>1, <2>1, <2>2 DEF Contract!ContractNext
    <2>3. CASE \E e \in Envelope : Enqueue(e)  BY <1>1, <1>2, <2>3 DEF Contract!ContractNext
    <2>4. CASE UNCHANGED <<store, expired>> /\ \A d \in Envelope : deposit'[d].id = deposit[d].id
      BY <1>3, <2>2, <2>4 DEF Held
    <2>5. CASE Tick
      <3>1. deposit' = deposit  BY <2>5 DEF Tick
      <3> QED  BY <1>3, <2>2, <2>5, <3>1, TickRows DEF ContractInv
    <2>6. CASE SweepExpired
      <3>1. PICK due \in SUBSET {e \in Envelope : Held(e)} :
               /\ expired' = expired \cup due
               /\ \A e \in Envelope : Held(e)' <=> Held(e) /\ e \notin due
        BY <2>6, SweepRows DEF ContractInv
      <3>2. deposit' = deposit  BY <2>6 DEF SweepExpired
      <3>3. \A e \in Envelope \ due : Fate(e)' = Fate(e)  BY <3>1, <3>2, FateSame
      <3>4. \A e \in due : Fate(e) = "stored" /\ deposit[e].id # 0
        BY DEF Fate, Held, KeptInv, TransitTypeOK, Entry, Id, StoreTraced, Known
      <3>5. \A e \in due : Fate(e)' = "expired"  BY <3>1, <3>2, <3>4 DEF Fate
      <3>6. due \in SUBSET {e \in Envelope : Copies[e] = "stored"}  BY <3>4
      <3>7. Copies' = [e \in Envelope |-> IF e \in due THEN "expired" ELSE Copies[e]]
        BY <3>3, <3>5
      <3>8. Contract!SweptExpired  BY <2>1, <3>6, <3>7 DEF Contract!SweptExpired
      <3> QED  BY <1>1, <3>8 DEF Contract!ContractNext
    <2>7. ASSUME NEW s \in Session, NEW i, TransitAck(s, i) PROVE Contract!ContractNext
      <3>1. UNCHANGED <<deposit, received, expired>>  BY <2>7, AckRows
      <3>2. CASE UNCHANGED store  BY <1>3, <2>2, <3>1, <3>2 DEF Held
      <3>3. ASSUME NEW e \in Envelope, Held(e), ~Held(e)', Reached(e),
                   \A d \in Envelope \ {e} : Held(d)' <=> Held(d)
            PROVE  Contract!Deleted(e)
        <4>1. deposit[e].id # 0 /\ e \notin expired
          BY <3>3 DEF Held, KeptInv, TransitTypeOK, Entry, Id, StoreTraced, Known, ContractInv,
                      ExpiredTraced
        <4>2. Fate(e) = "stored" /\ Fate(e)' = "reclaimed"  BY <3>1, <3>3, <4>1 DEF Fate
        <4>3. \A d \in Envelope \ {e} : Fate(d)' = Fate(d)  BY <3>1, <3>3, FateSame
        <4>4. Copies[e] = "stored" /\ Copies' = [Copies EXCEPT ![e] = "reclaimed"]
          BY <4>2, <4>3
        <4>5. e \in Hands[Recipient[e]]  BY <3>3, RelayAssumption DEF Reached
        <4> QED  BY <2>1, <4>4, <4>5 DEF Contract!Deleted
      <3> QED  BY <1>1, <2>7, <3>2, <3>3, AckRows DEF Contract!ContractNext
    <2> QED  BY <2>3, <2>4, <2>5, <2>6, <2>7, RowsStep
  <1>5. ASSUME NEW e \in Envelope, deposit[e].id # 0, Told' = Told \cup {e},
               \A d \in Envelope : deposit'[d].id = deposit[d].id,
               UNCHANGED <<store, expired>>
        PROVE  Contract!ContractNext
    <2>1. Copies' = Copies  BY <1>3, <1>5 DEF Held
    <2>2. Copies[e] # "absent"  BY <1>5 DEF Fate
    <2>3. Contract!Acked(e)  BY <1>5, <2>1, <2>2 DEF Contract!Acked
    <2> QED  BY <1>1, <2>3 DEF Contract!ContractNext
  <1> QED  BY <1>4, <1>5, ToldStep

\* The relay, with its sessions, channels, replays, lost writes, late acknowledgements and
\* (with the durable store) restarts, is a transit store and no more: a deposit is stored
\* once and acknowledged only then, it reaches its addressee alone, and it goes only when
\* its addressee, having read it, confirms it, or when its TTL runs out.
THEOREM RelayImplementsContract ==
  ASSUME IdsLast
  PROVE  TransitSpec => Contract!ContractSpec
  <1>1. TransitInit => KeptInv /\ ContractInv /\ Contract!ContractInit
    <2> SUFFICES ASSUME TransitInit PROVE KeptInv /\ ContractInv /\ Contract!ContractInit  OBVIOUS
    <2>1. KeptInv  BY KeptInit
    <2>2. \A s \in Session : Carried(session[s].queue) \cup Carried(session[s].backlog) = {}
      <3>1. (CHOOSE a \in Agent : TRUE) \in Agent  BY RelayAssumption
      <3> QED  BY <3>1, BlankType, EmptyCarries DEF TransitInit, NewSession, Phase
    <2>3. ContractInv
      BY <2>2 DEF TransitInit, ContractInv, SessionsAddressed, ReceivedAddressed, ExpiredTraced, OneRow
    <2>4. Contract!ContractInit  BY DEF TransitInit, Contract!ContractInit, Fate, Held
    <2> QED  BY <2>1, <2>3, <2>4
  <1>2. KeptInv /\ StoredHasId /\ [TransitNext]_relayVars => KeptInv'
    <2> SUFFICES ASSUME KeptInv, StoredHasId, [TransitNext]_relayVars PROVE KeptInv'  OBVIOUS
    <2>1. TransitTypeOK'  BY TypeStep DEF KeptInv
    <2> QED  BY <2>1, KeptStep DEF KeptInv
  <1>3. ServeInv => StoredHasId /\ Registry  BY DEF ServeInv
  <1>4. KeptInv /\ Registry /\ ContractInv /\ [TransitNext]_relayVars => ContractInv'
    BY ContractInvStep
  <1>5. KeptInv /\ ContractInv /\ [TransitNext]_relayVars => [Contract!ContractNext]_(Contract!contractVars)
    BY ContractStep
  <1> QED  BY <1>1, <1>2, <1>3, <1>4, <1>5, ServeInvariant, PTL DEF TransitSpec, Contract!ContractSpec

=============================================================================
