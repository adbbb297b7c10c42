----------------------------- MODULE RelayTransit -----------------------------
(***************************************************************************)
(* The relay's delivery path: the transit store of undelivered envelopes,  *)
(* the registry of live WebSocket sessions, and the deposit, replay, write *)
(* and acknowledge steps that run between them.                            *)
(*                                                                         *)
(* Every connection is a task of its own on a multi-threaded runtime, so a *)
(* deposit (`handle_send`, run by the DEPOSITOR's task) interleaves with   *)
(* the recipient's connection coming up and going away.  Each access to    *)
(* the store or to the registry is atomic (one lock), the sequence of them *)
(* is not: a deposit is three steps -- route, store, push -- and a fresh   *)
(* session is three steps -- register, read the backlog, replay it.        *)
(*                                                                         *)
(* An outbound channel also carries acks, pongs, presence and log frames,  *)
(* so `try_send` may find it full at any moment; the model keeps only the  *)
(* Deliver frames and lets any try_send be refused.                        *)
(***************************************************************************)
EXTENDS Naturals, FiniteSets, Sequences

CONSTANTS
    Agent,        \* recipients
    Envelope,     \* deposits; a sender's retry is another envelope
    Recipient,    \* Recipient[e]: the agent envelope e is addressed to
    MaxSessions,  \* bound: connections opened in one behaviour
    MaxRestarts,  \* bound: restarts of the relay process
    RecipientCap, \* transit_per_recipient
    ReplayBatch,  \* REPLAY_BATCH_MAX
    Ttl,          \* transit_ttl, in ticks of the clock
    Durable       \* TRUE: SqliteTransitStore; FALSE: the in-RAM TransitBuffer

ASSUME RelayAssumption ==
    /\ Agent # {} /\ Recipient \in [Envelope -> Agent]
    /\ MaxSessions \in Nat /\ MaxRestarts \in Nat
    /\ RecipientCap \in Nat \ {0} /\ ReplayBatch \in Nat \ {0} /\ Ttl \in Nat \ {0}
    /\ Durable \in BOOLEAN

VARIABLES
    store,      \* the stored entries, of every recipient
    nextId,     \* the id the next enqueue returns
    current,    \* SessionRegistry.by_agent: the session of each agent, 0 = offline
    opened,     \* SessionRegistry.next_id: sessions registered so far
    session,    \* the connection task of each session
    departed,   \* agents with a live, unsuperseded forwarding record
    deposit,    \* handle_send's progress on each envelope
    received,   \* frames the client of each agent has read from its socket
    expired,    \* history: envelopes the TTL sweep evicted
    wiped,      \* history: envelopes that went with the RAM of a restarted relay
    restarts

relayVars == <<store, nextId, current, opened, session, departed, deposit,
               received, expired, wiped, restarts>>

-----------------------------------------------------------------------------
(* Data.  Id 0 is "direct, not stored" on the wire and never issued. *)

Session == 1..MaxSessions
Id == Nat \ {0}

Entry == [id: Id, env: Envelope, age: 0..Ttl]
RelayFrame == [id: Id, env: Envelope]
FrameOf(x) == [id |-> x.id, env |-> x.env]

\* "new": no connection.  "registered": in by_agent, backlog not read yet.
\* "replaying": pushing the backlog.  "open": writer and io loop running.
\* "closing": the writer exited, its channel is closed, cleanup is still to come.
Phase == {"new", "registered", "replaying", "open", "closing", "gone"}

SessionRecord == [agent: Agent, phase: Phase, queue: Seq(RelayFrame), backlog: Seq(RelayFrame),
                  pushed: SUBSET Id,    \* ids try_send accepted on this session
                  overflow: BOOLEAN]    \* some try_send or the batch cap left an entry behind

Routes == {"idle", "routed", "stored", "done", "cut"}
Answers == {"none", "ack", "moved", "throttle", "dropped"}
DepositRecord == [pc: Routes, id: Nat, answer: Answers]

\* A connection with nothing queued; one whose task has returned drops its channel.
Blank(a, p) == [agent |-> a, phase |-> p, queue |-> << >>, backlog |-> << >>,
                pushed |-> {}, overflow |-> FALSE]
NewSession == Blank(CHOOSE a \in Agent : TRUE, "new")
Ended(r) == Blank(r.agent, "gone")

Mailbox(a) == {x \in store : Recipient[x.env] = a}
Live(s) == session[s].phase \in {"registered", "replaying", "open", "closing"}
Accepting(s) == session[s].phase \in {"registered", "replaying", "open"}

\* try_send(f) on session s: taken unless the channel is full or closed.
TrySend(r, f, taken) ==
    IF taken
    THEN [r EXCEPT !.queue = Append(@, f), !.pushed = @ \cup {f.id}]
    ELSE [r EXCEPT !.overflow = TRUE]

-----------------------------------------------------------------------------
(* Deposit: handle_send, run by the depositor's connection task. *)

Answer(e, a) == deposit' = [deposit EXCEPT ![e] = [@ EXCEPT !.pc = "done", !.answer = a]]

\* Size, rate, sender-id and wire-version gates: a Throttle, or no answer at all.
GateRefuses(e) ==
    /\ deposit[e].pc = "idle"
    /\ \E a \in {"throttle", "dropped"} : Answer(e, a)
    /\ UNCHANGED <<store, nextId, current, opened, session, departed, received,
                   expired, wiped, restarts>>

\* Offline with a forwarding record: Moved.  Otherwise the deposit goes on.
Route(e) ==
    /\ deposit[e].pc = "idle"
    /\ IF current[Recipient[e]] = 0 /\ Recipient[e] \in departed
       THEN Answer(e, "moved")
       ELSE deposit' = [deposit EXCEPT ![e].pc = "routed"]
    /\ UNCHANGED <<store, nextId, current, opened, session, departed, received,
                   expired, wiped, restarts>>

HasRoom(a) == Cardinality(Mailbox(a)) < RecipientCap

\* TransitStore::enqueue: durable first.
Enqueue(e) ==
    /\ deposit[e].pc = "routed"
    /\ HasRoom(Recipient[e])
    /\ store' = store \cup {[id |-> nextId, env |-> e, age |-> 0]}
    /\ nextId' = nextId + 1
    /\ deposit' = [deposit EXCEPT ![e] = [@ EXCEPT !.pc = "stored", !.id = nextId]]
    /\ UNCHANGED <<current, opened, session, departed, received, expired, wiped, restarts>>

\* The per-recipient cap, the byte cap or a backend error.
EnqueueFails(e) ==
    /\ deposit[e].pc = "routed"
    /\ Answer(e, "throttle")
    /\ UNCHANGED <<store, nextId, current, opened, session, departed, received,
                   expired, wiped, restarts>>

\* A session that is still replaying is left to its replay.
PushToOpen(e) ==
    LET s == current[Recipient[e]]
        f == [id |-> deposit[e].id, env |-> e]
    IN  /\ deposit[e].pc = "stored"
        /\ IF s # 0 /\ session[s].phase = "open"
           THEN session' = [session EXCEPT ![s] = TrySend(@, f, TRUE)]
           ELSE UNCHANGED session
        /\ Answer(e, "ack")
        /\ UNCHANGED <<store, nextId, current, opened, departed, received,
                       expired, wiped, restarts>>

\* SessionRegistry::send and the Ack.  Offline, full and closed alike leave the
\* entry stored; the depositor is told Ack in every case.
Push(e) ==
    LET s == current[Recipient[e]]
        f == [id |-> deposit[e].id, env |-> e]
    IN  /\ deposit[e].pc = "stored"
        /\ \/ /\ s = 0
              /\ UNCHANGED session
           \/ /\ s # 0
              /\ \E taken \in BOOLEAN :
                    /\ taken => Accepting(s)
                    /\ session' = [session EXCEPT ![s] = TrySend(@, f, taken)]
        /\ Answer(e, "ack")
        /\ UNCHANGED <<store, nextId, current, opened, departed, received,
                       expired, wiped, restarts>>

-----------------------------------------------------------------------------
(* A connection: handle_socket. *)

\* SessionRegistry::register.  A prior entry is displaced: its channel gets a
\* best-effort Bye and its task runs on until its own exit.
Register(a) ==
    /\ opened < MaxSessions
    /\ opened' = opened + 1
    /\ current' = [current EXCEPT ![a] = opened + 1]
    /\ session' = [session EXCEPT ![opened + 1] = Blank(a, "registered")]
    /\ UNCHANGED <<store, nextId, departed, deposit, received, expired, wiped, restarts>>

\* A backlog is read in id order; only the first ReplayBatch entries are replayed.
InIdOrder(frames, q) ==
    /\ {q[i] : i \in DOMAIN q} = frames
    /\ \A i, j \in DOMAIN q : i < j => q[i].id < q[j].id

Backlogs(a) ==
    LET frames == {FrameOf(x) : x \in Mailbox(a)} IN
    {q \in UNION {[1..n -> frames] : n \in 0..RecipientCap} : InIdOrder(frames, q)}

Batch(q) == IF Len(q) <= ReplayBatch THEN q ELSE SubSeq(q, 1, ReplayBatch)

\* TransitStore::read_all, non-destructive, and the cut at ReplayBatch.
ReadBacklog(s) ==
    /\ session[s].phase = "registered"
    /\ \E q \in Backlogs(session[s].agent) :
          session' = [session EXCEPT ![s] =
              [@ EXCEPT !.phase = "replaying",
                        !.backlog = Batch(q),
                        !.overflow = @ \/ Len(q) > ReplayBatch]]
    /\ UNCHANGED <<store, nextId, current, opened, departed, deposit, received,
                   expired, wiped, restarts>>

Replayed(r, taken) ==
    [TrySend(r, Head(r.backlog), taken) EXCEPT
        !.backlog = IF taken THEN Tail(r.backlog) ELSE << >>]

\* replay_transit: push until the backlog is empty or the first refusal.
Replay(s) ==
    /\ session[s].phase = "replaying"
    /\ IF session[s].backlog = << >>
       THEN session' = [session EXCEPT ![s].phase = "open"]
       ELSE \E taken \in BOOLEAN :
              session' = [session EXCEPT ![s] = Replayed(@, taken)]
    /\ UNCHANGED <<store, nextId, current, opened, departed, deposit, received,
                   expired, wiped, restarts>>

\* writer_loop: the next frame goes to the socket.  A peer that is gone without a close
\* (a proxy dropped the idle leg, the app was killed) still takes the write, and the
\* frame is lost.
WriterSends(s) ==
    LET r == session[s] IN
    /\ r.phase = "open" /\ r.queue # << >>
    /\ session' = [session EXCEPT ![s].queue = Tail(@)]
    /\ \/ received' = [received EXCEPT ![r.agent] = @ \cup {Head(r.queue)}]
       \/ UNCHANGED received
    /\ UNCHANGED <<store, nextId, current, opened, departed, deposit,
                   expired, wiped, restarts>>

\* A write error, an encode error or WS_PONG_TIMEOUT without a pong.
WriterDies(s) ==
    /\ session[s].phase = "open"
    /\ session' = [session EXCEPT ![s] = [@ EXCEPT !.phase = "closing", !.queue = << >>]]
    /\ UNCHANGED <<store, nextId, current, opened, departed, deposit, received,
                   expired, wiped, restarts>>

\* The entry goes whichever session it belongs to.
UnregisteredAlways(s) == [current EXCEPT ![session[s].agent] = 0]

\* SessionRegistry::unregister: only the session that still owns the entry.
Unregistered(s) ==
    LET a == session[s].agent IN
    [current EXCEPT ![a] = IF @ = s THEN 0 ELSE @]

\* The io loop returns (client closed, Bye, or the writer exited) and cleanup runs.
SessionExits(s) ==
    /\ session[s].phase \in {"open", "closing"}
    /\ current' = Unregistered(s)
    /\ session' = [session EXCEPT ![s] = Ended(@)]
    /\ UNCHANGED <<store, nextId, opened, departed, deposit, received,
                   expired, wiped, restarts>>

-----------------------------------------------------------------------------
(* Acknowledgement, expiry, restart. *)

\* A cumulative acknowledgement: everything up to i goes.
ReclaimUpTo(a, i) == store \ {x \in Mailbox(a) : x.id <= i}

\* TransitStore::delete, scoped to the authenticated agent.
Reclaim(a, i) == store \ {x \in Mailbox(a) : x.id = i}

\* A client confirms an id it was handed, on whatever session it then has: the
\* token outlives the connection the frame came in on.
TransitAck(s, i) ==
    LET a == session[s].agent IN
    /\ session[s].phase \in {"open", "closing"}
    /\ \E f \in received[a] : f.id = i
    /\ store' = Reclaim(a, i)
    /\ UNCHANGED <<nextId, current, opened, session, departed, deposit, received,
                   expired, wiped, restarts>>

Overdue(x) == x.age = Ttl

SweepExpired ==
    /\ \E x \in store : Overdue(x)
    /\ store' = {x \in store : ~Overdue(x)}
    /\ expired' = expired \cup {x.env : x \in {y \in store : Overdue(y)}}
    /\ UNCHANGED <<nextId, current, opened, session, departed, deposit, received,
                   wiped, restarts>>

Tick ==
    /\ \E x \in store : ~Overdue(x)
    /\ store' = {[x EXCEPT !.age = IF @ < Ttl THEN @ + 1 ELSE @] : x \in store}
    /\ UNCHANGED <<nextId, current, opened, session, departed, deposit, received,
                   expired, wiped, restarts>>

\* A forwarding record is posted; it lapses or is superseded by a newer pair record.
ForwardingChanges(a) ==
    /\ departed' = IF a \in departed THEN departed \ {a} ELSE departed \cup {a}
    /\ UNCHANGED <<store, nextId, current, opened, session, deposit, received,
                   expired, wiped, restarts>>

\* The process ends: every connection task and every deposit in progress with it.
\* Rows and the AUTOINCREMENT sequence survive; RAM and its counter do not, nor do the
\* forwarding records.
Restart ==
    /\ restarts < MaxRestarts
    /\ restarts' = restarts + 1
    /\ current' = [a \in Agent |-> 0]
    /\ session' = [s \in Session |->
                     IF Live(s) THEN Ended(session[s]) ELSE session[s]]
    /\ deposit' = [e \in Envelope |->
                     IF deposit[e].pc \in {"routed", "stored"}
                     THEN [deposit[e] EXCEPT !.pc = "cut"] ELSE deposit[e]]
    /\ store' = IF Durable THEN store ELSE {}
    /\ nextId' = IF Durable THEN nextId ELSE 1
    /\ wiped' = IF Durable THEN wiped ELSE wiped \cup {x.env : x \in store}
    /\ departed' = {}
    /\ UNCHANGED <<opened, received, expired>>

-----------------------------------------------------------------------------
\* Ids from 0, which the wire reserves for frames that need no ack.
InitFromZero ==
    /\ store = {} /\ nextId = 0
    /\ current = [a \in Agent |-> 0]
    /\ opened = 0
    /\ session = [s \in Session |-> NewSession]
    /\ departed = {}
    /\ deposit = [e \in Envelope |-> [pc |-> "idle", id |-> 0, answer |-> "none"]]
    /\ received = [a \in Agent |-> {}]
    /\ expired = {} /\ wiped = {} /\ restarts = 0

TransitInit ==
    /\ store = {} /\ nextId = 1
    /\ current = [a \in Agent |-> 0]
    /\ opened = 0
    /\ session = [s \in Session |-> NewSession]
    /\ departed = {}
    /\ deposit = [e \in Envelope |-> [pc |-> "idle", id |-> 0, answer |-> "none"]]
    /\ received = [a \in Agent |-> {}]
    /\ expired = {} /\ wiped = {} /\ restarts = 0

TransitNext ==
    \/ \E e \in Envelope : GateRefuses(e) \/ Route(e) \/ Enqueue(e) \/ EnqueueFails(e) \/ Push(e)
    \/ \E a \in Agent : Register(a) \/ ForwardingChanges(a)
    \/ \E s \in Session : \/ ReadBacklog(s) \/ Replay(s) \/ WriterSends(s)
                          \/ WriterDies(s) \/ SessionExits(s)
                          \/ \E i \in {f.id : f \in received[session[s].agent]} : TransitAck(s, i)
    \/ SweepExpired \/ Tick \/ Restart

TransitSpec == TransitInit /\ [][TransitNext]_relayVars

-----------------------------------------------------------------------------
(* Properties. *)

\* Every variable holds a value of its kind, and no id is 0: the wire reserves it for
\* frames that need no ack (TransitStore issues ids from 1).
TransitTypeOK ==
    /\ store \in SUBSET Entry /\ nextId \in Id
    /\ current \in [Agent -> 0..MaxSessions]
    /\ opened \in 0..MaxSessions
    /\ session \in [Session -> SessionRecord]
    /\ departed \in SUBSET Agent
    /\ deposit \in [Envelope -> DepositRecord]
    /\ received \in [Agent -> SUBSET RelayFrame]
    /\ expired \in SUBSET Envelope /\ wiped \in SUBSET Envelope
    /\ restarts \in 0..MaxRestarts

Held(e) == \E x \in store : x.env = e
Reached(e) == \E f \in received[Recipient[e]] : f.env = e

\* An Ack to the depositor is a promise: the envelope is still stored, or its
\* recipient's client has read it, or its TTL ran out, or it was in the RAM of a
\* relay that restarted.  No displacement, dead socket, dead writer, full channel or
\* late acknowledgement loses it (handle_send's "durable FIRST, push second").
AckedIsKept ==
    \A e \in Envelope : deposit[e].answer = "ack" =>
        Held(e) \/ Reached(e) \/ e \in expired \/ e \in wiped

\* No stored entry goes unnoticed by the session that could deliver it: once the
\* recipient's session has replayed and the deposit has finished, the entry was put on
\* that session's channel, unless the channel or the batch cap left something behind
\* (handle_send: "closes the race where the recipient connects and replays between the
\* online check and the enqueue").
NoEntryUnnoticed ==
    \A x \in store : LET s == current[Recipient[x.env]] IN
        (s # 0 /\ deposit[x.env].pc # "stored") =>
            (session[s].phase = "open" => x.id \in session[s].pushed \/ session[s].overflow)

\* The registry points at the newest connection of an agent for as long as that
\* connection lives, and at nothing that has ended: a displaced connection's exit does
\* not tear down the one that displaced it (SessionRegistry::unregister).
NewestSessionServes ==
    /\ \A a \in Agent : current[a] # 0 =>
           Live(current[a]) /\ session[current[a]].agent = a
    /\ \A s \in Session : Live(s) /\ current[session[s].agent] # s =>
           \E t \in Session : /\ t > s /\ session[t].phase # "new"
                             /\ session[t].agent = session[s].agent
=============================================================================
