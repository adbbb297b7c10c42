------------------------------- MODULE Outbox -------------------------------
(***************************************************************************)
(* The sender side of fetch>it chat: the durable outbox of one client      *)
(* (outbox/mod.rs, outbox/store.rs), the first send of a direct message    *)
(* (Client::enqueue_dm), the retry driver (outbox/driver.rs) with the      *)
(* event loop that runs it (Client::start_outbox_driver), the receipts     *)
(* that close a bubble (conversation/inbound.rs), and process restarts.    *)
(*                                                                         *)
(* Two kinds of tasks send: one "initial" task per composed message, which *)
(* is the enqueue_dm call itself, and the one "driver" task, which works   *)
(* off the bubbles it has claimed one at a time.  A task holds the store   *)
(* lock only between two awaits, so an action below is one such stretch.   *)
(*                                                                         *)
(* Time is kept as ages: a claim, a pace entry and the now_ms of a running *)
(* flush each carry the time since they were stamped, and Tick makes all   *)
(* of them one unit older, saturating where the code stops telling ages    *)
(* apart.  The logical message id of the k-th copy of bubble b that a      *)
(* relay took is the number k; ids are random in the code, hence unique.   *)
(***************************************************************************)
EXTENDS Integers, Sequences, FiniteSets

CONSTANTS
    Bubble,          \* bubble ids: the messages this client will ever compose
    Peer,            \* recipient device agents
    PeerOf,          \* the recipient of each bubble
    GroupCopies,     \* the bubbles that are private-group fan-out copies
    WithImage,       \* the bubbles composed with an inline image
    AttachmentCap,   \* ATTACHMENT_BUBBLE_CAP
    PriorCap,        \* PRIOR_MESSAGE_ID_CAP
    StallAge,        \* STALLED_CLAIM_MS, in ticks
    BackoffBase,     \* RETRY_BACKOFF_BASE_MS, in ticks
    BackoffMax,      \* RETRY_BACKOFF_MAX_MS, in ticks
    MaxDoublings,    \* the exponent cap of backoff_ms
    OnLan,           \* the bubbles whose peer's LAN listener this device has found
    MaxCopies,       \* bound: copies of one bubble that are taken off this device
    VaultMayFail     \* may a seal of the outbox, or its load at start, fail?

\* What the model asks of its parameters; the caps are positive in the code.
ASSUME OutboxAssumption ==
    /\ PeerOf \in [Bubble -> Peer]
    /\ GroupCopies \subseteq Bubble
    /\ WithImage \subseteq Bubble \ GroupCopies
    /\ IsFiniteSet(Bubble)
    /\ AttachmentCap \in Nat \ {0}
    /\ PriorCap \in Nat \ {0}
    /\ StallAge \in Nat \ {0}
    /\ BackoffBase \in Nat \ {0}
    /\ BackoffMax \in Nat \ {0}
    /\ MaxDoublings \in Nat
    /\ MaxCopies \in Nat \ {0}
    /\ OnLan \subseteq Bubble
    /\ VaultMayFail \in BOOLEAN

VARIABLES
    mem,         \* OutboxStore.inner: the bubbles in memory
    disk,        \* outbox.json.enc: the bubbles last sealed to disk
    claim,       \* OutboxStore.inflight: the age of each in-flight claim
    send,        \* the live send attempts, per kind of task and bubble
    mode,        \* where the driver's event loop is
    flush,       \* the running flush: its kind, its peers to come, its now_ms
    batch,       \* the bubbles this flush claimed and has not begun to send
    pace,        \* OutboxDriver.retry_pace
    lastOnline,  \* OutboxDriver.last_online
    kick,        \* is a manual-retry kick waiting in the channel?
    composed,    \* the bubbles created so far
    copies,      \* how many copies of a bubble have left, to a relay or over the LAN
    lan,         \* the copies among them that went over the LAN: no relay has those
    arrived,     \* the copies the recipient has decrypted
    ackLog,      \* history: the ids record_send_outcome has stored, in order
    transcript,  \* bubbles whose image a persisted history entry carries
    unanchored,  \* history: bubbles with an image whose send left no history entry
    released     \* history: live first sends whose claim a sweep took away

storeVars == <<mem, disk>>
loopVars == <<mode, lastOnline, kick>>
flushVars == <<flush, batch, pace>>
worldVars == <<copies, lan, arrived, ackLog, transcript, unanchored>>
vars == <<mem, disk, claim, send, mode, flush, batch, pace, lastOnline,
          kick, composed, copies, lan, arrived, ackLog, transcript, unanchored,
          released>>

-----------------------------------------------------------------------------
(* Values *)

\* SendState, with "Absent" for an id the map does not hold.
SendState == {"Failed", "Queued", "Sent", "Delivered"}
Terminal == {"Failed", "Delivered"}
ReachedRelay == {"Sent", "Delivered"}

Task == {"initial", "driver"}
CopyId == 1..MaxCopies

\* One OutboxBubble.  id, peer, group and the composed payload are fixed by
\* the constants; last_error and the UI timestamps steer nothing.
BubbleRecord == [status : SendState \cup {"Absent"}, mid : 0..MaxCopies,
                 prior : {q \in Seq(CopyId) : Len(q) <= PriorCap},
                 image : BOOLEAN, dropped : BOOLEAN]
NoBubble == [status |-> "Absent", mid |-> 0, prior |-> <<>>,
             image |-> FALSE, dropped |-> FALSE]

\* A send attempt: "sending" until the copy has left, "deposited" until the
\* transport answers Ok, "acked" until the outcome is recorded.
Attempt == [phase : {"none", "sending", "deposited", "acked"}, copy : 0..MaxCopies]
NoAttempt == [phase |-> "none", copy |-> 0]
Starting == [phase |-> "sending", copy |-> 0]

Unclaimed == -1
AgeCap == IF StallAge > BackoffMax THEN StallAge ELSE BackoffMax
Older(age) == IF age < AgeCap THEN age + 1 ELSE age
NoPace == [attempts |-> 0, age |-> 0]
Paces == [attempts : 0..(MaxDoublings + 1), age : 0..AgeCap]

\* A flush keeps the age of the now_ms it was given, and the peers it has not
\* claimed for yet.
FlushRecord == [kind : {"none", "edge", "manual", "sweep", "due"},
                peers : SUBSET Peer, age : 0..AgeCap]
NoFlush == [kind |-> "none", peers |-> {}, age |-> 0]

Present(b) == mem[b].status # "Absent"
Live(t, b) == send[t][b].phase # "none"
DriverSends == \E b \in Bubble : Live("driver", b)
DriverIdle == flush.kind = "none" /\ batch = {} /\ ~DriverSends

-----------------------------------------------------------------------------
(* The bubble's own operations: outbox/mod.rs *)

\* OutboxBubble::queued with its payload builders.
Queued(b) == [status |-> "Queued", mid |-> 0, prior |-> <<>>,
              image |-> b \in WithImage, dropped |-> FALSE]

\* Mutant: the release that never flags the loss.
ReleaseUnflagged(r, lastHolder) == [r EXCEPT !.image = FALSE]

\* OutboxBubble::release_attachment
ReleaseAttachment(r, lastHolder) ==
    [r EXCEPT !.image = FALSE, !.dropped = @ \/ (r.image /\ lastHolder)]

Ids(r) == {r.prior[i] : i \in DOMAIN r.prior} \cup ({r.mid} \ {0})

\* OutboxBubble::matches_receipt
MatchesReceipt(r, k) == k \in Ids(r)

\* is_retryable and is_queued_retryable
IsRetryable(b) ==
    \/ mem[b].status = "Queued"
    \/ mem[b].status = "Sent" /\ b \notin GroupCopies
IsQueuedRetryable(b) == IsRetryable(b) /\ mem[b].status = "Queued"

-----------------------------------------------------------------------------
(* The store: outbox/store.rs *)

\* OutboxStore::flush seals the whole map; a failure is logged and swallowed.
Flush == disk' = mem' \/ (VaultMayFail /\ disk' = disk)

SetBubble(b, r) == mem' = [mem EXCEPT ![b] = r] /\ Flush

\* Mutant: one image too many.
HasCapacityOffByOne ==
    Cardinality({b \in Bubble : mem[b].image}) <= AttachmentCap

\* has_attachment_capacity
HasAttachmentCapacity ==
    Cardinality({b \in Bubble : mem[b].image}) < AttachmentCap

\* Mutant: a claim somebody holds counts as taken anew.
ClaimAlways(b) == TRUE

\* What try_mark_inflight answers, and what it does to the map: every id is
\* stamped, held or not.
NewlyClaimed(b) == claim[b] = Unclaimed
Stamp(ids, age) == [b \in Bubble |-> IF b \in ids THEN age ELSE claim[b]]
ClearInflight(b) == claim' = [claim EXCEPT ![b] = Unclaimed]

\* Mutant: the terminal test the wrong way round.
StalledTerminal == {b \in Bubble : claim[b] >= StallAge /\ mem[b].status \in Terminal}

\* clear_stalled_inflight
Stalled == {b \in Bubble : /\ claim[b] >= StallAge
                           /\ Present(b) /\ mem[b].status \notin Terminal}

\* Mutant: the list of superseded ids without its cap.
RememberAll(prior, old) ==
    IF old = 0 \/ \E i \in DOMAIN prior : prior[i] = old THEN prior
    ELSE Append(prior, old)

\* Mutant: once the list is full, the newest superseded id is lost.
RememberUntilFull(prior, old) ==
    IF old = 0 \/ Len(prior) >= PriorCap THEN prior ELSE Append(prior, old)

\* The superseded id joins the remembered ones, the oldest drops first.
Remember(prior, old) ==
    IF old = 0 \/ \E i \in DOMAIN prior : prior[i] = old THEN prior
    ELSE Append(IF Len(prior) >= PriorCap THEN Tail(prior) ELSE prior, old)

\* record_send_outcome, success arm; k is 0 when the transport names no id.
Accepted(r, k) ==
    IF k = 0 THEN [r EXCEPT !.status = "Sent"]
    ELSE [r EXCEPT !.status = "Sent", !.mid = k, !.prior = Remember(r.prior, r.mid)]

\* Mutants: an error after which the message reads as sent, and a terminal
\* error that overrules a relay's acceptance.
RefusedAsSent(r, terminal) == [r EXCEPT !.status = "Sent"]
RefusedAnytime(r, terminal) ==
    IF terminal THEN ReleaseAttachment([r EXCEPT !.status = "Failed"], TRUE) ELSE r

\* record_send_outcome, failure arm
Refused(r, terminal) ==
    IF terminal /\ r.status \notin ReachedRelay
    THEN ReleaseAttachment([r EXCEPT !.status = "Failed"], TRUE)
    ELSE r

\* Mutant: an outcome recorded over a terminal state.
RecordableIfPresent(b) == Present(b)

\* record_send_outcome: nothing happens to a bubble that is gone or terminal.
Recordable(b) == Present(b) /\ mem[b].status \notin Terminal
RecordSendOutcome(b, r) ==
    IF Recordable(b) THEN SetBubble(b, r) ELSE UNCHANGED storeVars

\* mark_delivered
Delivered(r) == ReleaseAttachment([r EXCEPT !.status = "Delivered"], FALSE)

-----------------------------------------------------------------------------
(* Composing: Client::enqueue_dm and Endpoint::send_private_group *)

\* enqueue_dm up to its send: cap check, upsert and claim under one lock.  An
\* image past the cap is refused before anything is stored.
EnqueueDm(b) ==
    /\ b \notin composed \cup GroupCopies
    /\ b \in WithImage => HasAttachmentCapacity
    /\ SetBubble(b, Queued(b))
    /\ claim' = Stamp({b}, 0)
    /\ send' = [send EXCEPT !["initial"][b] = Starting]
    /\ composed' = composed \cup {b}
    /\ UNCHANGED <<loopVars, flushVars, worldVars, released>>

\* send_private_group could not reach this member: its copy is queued for the
\* driver, with no claim, because its send is already over.
EnqueueGroupCopy(b) ==
    /\ b \in GroupCopies \ composed
    /\ SetBubble(b, Queued(b))
    /\ composed' = composed \cup {b}
    /\ UNCHANGED <<claim, send, loopVars, flushVars, worldVars, released>>

-----------------------------------------------------------------------------
(* One send attempt: Endpoint::send, resend_dm_bubble, resend_group_bubble *)

\* Where the driver's flush stands once a peer has nothing left to send:
\* flush_all reads a fresh now_ms per peer, the other flushes keep theirs.
AfterPeer(f) ==
    IF f.peers = {} THEN NoFlush
    ELSE IF f.kind = "manual" THEN [f EXCEPT !.age = 0] ELSE f

\* One more copy of b leaves this device.
CopyLeaves(t, b) ==
    /\ send[t][b].phase = "sending"
    /\ copies[b] < MaxCopies
    /\ copies' = [copies EXCEPT ![b] = @ + 1]
    /\ send' = [send EXCEPT ![t][b] = [phase |-> "deposited", copy |-> copies[b] + 1]]
    /\ UNCHANGED <<storeVars, claim, loopVars, flushVars, composed, arrived,
                   ackLog, transcript, unanchored, released>>

\* A relay takes custody of the copy.
Deposit(t, b) == CopyLeaves(t, b) /\ UNCHANGED lan

\* LanDirectTransport::send: the copy is written to the peer's socket.  No relay
\* has it, and nobody answers that it was read.
HandOver(t, b) ==
    /\ b \in OnLan
    /\ CopyLeaves(t, b)
    /\ lan' = [lan EXCEPT ![b] = @ \cup {copies[b] + 1}]

\* The transport answers Ok: a relay's ack is back, or the LAN write is done.
\* For a DM the history entry is pushed; a missing anchor conversation or a
\* failed persist is only logged.
AckReturns(t, b) ==
    /\ send[t][b].phase = "deposited"
    /\ send' = [send EXCEPT ![t][b].phase = "acked"]
    /\ \/ transcript' = transcript \cup ({b} \cap WithImage) /\ UNCHANGED unanchored
       \/ unanchored' = unanchored \cup ({b} \cap WithImage) /\ UNCHANGED transcript
    /\ UNCHANGED <<storeVars, claim, loopVars, flushVars, composed, copies, lan,
                   arrived, ackLog, released>>

\* The attempt of task t on b is over: its claim is released whoever holds it.
Conclude(t, b) ==
    /\ ClearInflight(b)
    /\ send' = [send EXCEPT ![t][b] = NoAttempt]
    /\ released' = IF t = "initial" THEN released \ {b} ELSE released
    /\ flush' = IF t = "driver" /\ batch = {} THEN AfterPeer(flush) ELSE flush
    /\ UNCHANGED <<loopVars, batch, pace, composed, copies, lan, arrived, transcript,
                   unanchored>>

\* The id a send returns: a DM's is its own, a group copy's is the relay's
\* dedupe key, or none when the LAN transport took it.
ReturnedId(t, b) ==
    IF b \in GroupCopies /\ send[t][b].copy \in lan[b] THEN 0 ELSE send[t][b].copy

\* The send returned Ok and its outcome is recorded.
RecordSuccess(t, b, id) ==
    /\ send[t][b].phase = "acked"
    /\ id = ReturnedId(t, b)
    /\ RecordSendOutcome(b, Accepted(mem[b], id))
    /\ ackLog' = IF Recordable(b) /\ id # 0
                 THEN [ackLog EXCEPT ![b] = Append(@, id)] ELSE ackLog
    /\ Conclude(t, b)

\* The send returned Err.  A retryable error may follow a deposit whose ack
\* was lost; a terminal one (Denied) is decided before anything leaves, and
\* the group resend has no such gate.
RecordFailure(t, b, terminal) ==
    /\ \/ send[t][b].phase = "sending"
       \/ send[t][b].phase = "deposited" /\ ~terminal
    /\ terminal => b \notin GroupCopies
    /\ RecordSendOutcome(b, Refused(mem[b], terminal))
    /\ UNCHANGED ackLog
    /\ Conclude(t, b)

\* The shell drops the enqueue_dm future: the claim stays behind.
AbandonFirstSend(b) ==
    /\ Live("initial", b)
    /\ send' = [send EXCEPT !["initial"][b] = NoAttempt]
    /\ released' = released \ {b}
    /\ UNCHANGED <<storeVars, claim, loopVars, flushVars, composed, worldVars>>

-----------------------------------------------------------------------------
(* The driver's flushes: outbox/driver.rs *)

Eligible(b) == IF flush.kind = "due" THEN IsQueuedRetryable(b) ELSE IsRetryable(b)

StartFlush(peers, kind) ==
    flush' = AfterPeer([kind |-> kind, peers |-> peers, age |-> 0])

\* The attempt count.  It saturates at u32::MAX in the code; here it stops one past
\* the doublings backoff_ms can tell apart, which gives the same delays.
OneMoreAttempt(n) == IF n <= MaxDoublings THEN n + 1 ELSE n

\* flush_matching for one peer, past the ready gate: the candidates are
\* stamped, the ones nobody held are ours to send, and the pace of those moves.
ClaimBatch(p) ==
    LET candidates == {b \in Bubble : PeerOf[b] = p /\ Eligible(b)}
        claims == {b \in candidates : NewlyClaimed(b)}
        left == [flush EXCEPT !.peers = @ \ {p}]
    IN  /\ p \in flush.peers
        /\ batch = {} /\ ~DriverSends
        /\ batch' = claims
        /\ claim' = Stamp(candidates, flush.age)
        /\ pace' = [b \in Bubble |->
                      IF b \in claims
                      THEN [attempts |-> OneMoreAttempt(pace[b].attempts), age |-> flush.age]
                      ELSE pace[b]]
        /\ flush' = IF claims = {} THEN AfterPeer(left) ELSE left
        /\ UNCHANGED <<storeVars, send, loopVars, composed, worldVars, released>>

\* The batch is worked off one bubble at a time, from the clones taken at the
\* claim: what happened to the bubble since is not looked at.
SendNext(b) ==
    /\ b \in batch
    /\ ~DriverSends
    /\ batch' = batch \ {b}
    /\ send' = [send EXCEPT !["driver"][b] = Starting]
    /\ UNCHANGED <<storeVars, claim, loopVars, flush, pace, composed, worldVars,
                   released>>

\* backoff_ms
BackoffAge(attempts) ==
    LET doublings == IF attempts - 1 < MaxDoublings THEN attempts - 1 ELSE MaxDoublings
        delay == BackoffBase * 2 ^ doublings
    IN  IF delay < BackoffMax THEN delay ELSE BackoffMax

\* Mutant: a bubble once attempted is never due again.
DueOnce(b) == IsQueuedRetryable(b) /\ pace[b].attempts = 0

\* flush_due's choice among the queued bubbles.
Due(b) ==
    /\ IsQueuedRetryable(b)
    /\ \/ pace[b].attempts = 0
       \/ pace[b].age >= BackoffAge(pace[b].attempts)

\* flush_due, on a retry tick of the loop that waits for /events to come back.
RetryTick ==
    /\ mode = "down" /\ DriverIdle
    /\ pace' = [b \in Bubble |-> IF IsQueuedRetryable(b) THEN pace[b] ELSE NoPace]
    /\ StartFlush({PeerOf[b] : b \in {c \in Bubble : Due(c)}}, "due")
    /\ UNCHANGED <<storeVars, claim, send, loopVars, batch, composed, worldVars,
                   released>>

\* on_presence
Presence(p, online) ==
    /\ mode = "up" /\ DriverIdle
    /\ lastOnline' = [lastOnline EXCEPT ![p] = online]
    /\ IF online = "online" /\ lastOnline[p] # "online"
       THEN StartFlush({p}, "edge")
       ELSE UNCHANGED flush
    /\ UNCHANGED <<storeVars, claim, send, mode, kick, batch, pace, composed,
                   worldVars, released>>

\* Taking the claims of ids away, on behalf of a sweep.
SweepClaims(ids) ==
    /\ claim' = [b \in Bubble |-> IF b \in ids THEN Unclaimed ELSE claim[b]]
    /\ released' = released \cup {b \in ids : Live("initial", b)}

\* sweep_stalled
SweepTick ==
    /\ mode = "up" /\ DriverIdle
    /\ Stalled # {}
    /\ SweepClaims(Stalled)
    /\ StartFlush({PeerOf[b] : b \in Stalled}, "sweep")
    /\ UNCHANGED <<storeVars, send, loopVars, batch, pace, composed, worldVars>>

\* flush_all, on a kick from the shell's Retry button.
ManualRetry ==
    /\ mode = "up" /\ DriverIdle
    /\ kick
    /\ kick' = FALSE
    /\ StartFlush({PeerOf[b] : b \in {c \in Bubble : IsRetryable(c)}}, "manual")
    /\ UNCHANGED <<storeVars, claim, send, mode, lastOnline, batch, pace,
                   composed, worldVars, released>>

-----------------------------------------------------------------------------
(* The driver's life: Client::start_outbox_driver, retry_outbox *)

\* A driver is started, the previous one is aborted where it stands: its
\* sends die, its claims stay, its pace and presence maps and its kick go.
StartDriver ==
    /\ mode' = "boot"
    /\ send' = [send EXCEPT !["driver"] = [b \in Bubble |-> NoAttempt]]
    /\ flush' = NoFlush /\ batch' = {}
    /\ pace' = [b \in Bubble |-> NoPace]
    /\ lastOnline' = [p \in Peer |-> "unknown"]
    /\ kick' = FALSE
    /\ UNCHANGED <<storeVars, claim, composed, worldVars, released>>

\* boot_sweep: every claim is taken for an orphan.
BootSweep ==
    /\ mode = "boot"
    /\ mode' = "opening"
    /\ SweepClaims(Bubble)
    /\ UNCHANGED <<storeVars, send, lastOnline, kick, flushVars, composed,
                   worldVars>>

\* The loop moves between opening the /events stream, waiting out the backoff
\* after a failed open, and selecting over the open stream.
MoveLoop(from, to) ==
    /\ mode = from /\ DriverIdle
    /\ mode' = to
    /\ UNCHANGED <<storeVars, claim, send, lastOnline, kick, flushVars,
                   composed, worldVars, released>>

EventsOpen == MoveLoop("opening", "up")
EventsUnavailable == MoveLoop("opening", "down")
BackoffExpires == MoveLoop("down", "opening")
StreamEnds == MoveLoop("up", "opening")

\* retry_outbox: one pending kick is enough.
RetryOutbox ==
    /\ mode # "off" /\ ~kick
    /\ kick' = TRUE
    /\ UNCHANGED <<storeVars, claim, send, mode, lastOnline, flushVars,
                   composed, worldVars, released>>

-----------------------------------------------------------------------------
(* Everyone else *)

\* A device of the recipient decrypts copy k of a DM and can acknowledge it.
PeerReceives(b, k) ==
    /\ b \notin GroupCopies
    /\ k \in 1..copies[b] \ arrived[b]
    /\ arrived' = [arrived EXCEPT ![b] = @ \cup {k}]
    /\ UNCHANGED <<storeVars, claim, send, loopVars, flushVars, composed,
                   copies, lan, ackLog, transcript, unanchored, released>>

\* dispatch_receipt: a receipt for copy k arrives, possibly again, from any
\* device; one that matches no bubble changes nothing.
ReceiptArrives(b, k) ==
    /\ k \in arrived[b]
    /\ Present(b) /\ MatchesReceipt(mem[b], k)
    /\ SetBubble(b, Delivered(mem[b]))
    /\ UNCHANGED <<claim, send, loopVars, flushVars, composed, worldVars,
                   released>>

\* drop_bubbles_for_peers, for a device the contact's newer record removed.
\* Claims on the dropped ids are left in the map.
DropBubblesForPeer(p) ==
    /\ \E b \in Bubble : PeerOf[b] = p /\ Present(b)
    /\ mem' = [b \in Bubble |-> IF PeerOf[b] = p THEN NoBubble ELSE mem[b]]
    /\ Flush
    /\ UNCHANGED <<claim, send, loopVars, flushVars, composed, worldVars,
                   released>>

\* The process dies and comes back: OutboxStore::load, which falls back to an
\* empty map when the vault cannot be read.
Crash ==
    /\ \/ mem' = disk
       \/ VaultMayFail /\ mem' = [b \in Bubble |-> NoBubble]
    /\ claim' = [b \in Bubble |-> Unclaimed]
    /\ send' = [t \in Task |-> [b \in Bubble |-> NoAttempt]]
    /\ mode' = "off"
    /\ flush' = NoFlush /\ batch' = {}
    /\ pace' = [b \in Bubble |-> NoPace]
    /\ lastOnline' = [p \in Peer |-> "unknown"]
    /\ kick' = FALSE
    /\ released' = {}
    /\ UNCHANGED <<disk, composed, worldVars>>

\* Time passes.
Tick ==
    /\ claim' = [b \in Bubble |->
                   IF claim[b] = Unclaimed THEN Unclaimed ELSE Older(claim[b])]
    /\ pace' = [b \in Bubble |->
                  IF pace[b].attempts = 0 THEN NoPace
                  ELSE [pace[b] EXCEPT !.age = Older(@)]]
    /\ flush' = IF flush.kind = "none" THEN flush
                ELSE [flush EXCEPT !.age = Older(@)]
    /\ UNCHANGED <<storeVars, send, loopVars, batch, composed, worldVars,
                   released>>

-----------------------------------------------------------------------------
(* Specification *)

Init ==
    /\ mem = [b \in Bubble |-> NoBubble]
    /\ disk = mem
    /\ claim = [b \in Bubble |-> Unclaimed]
    /\ send = [t \in Task |-> [b \in Bubble |-> NoAttempt]]
    /\ mode = "off"
    /\ flush = NoFlush /\ batch = {}
    /\ pace = [b \in Bubble |-> NoPace]
    /\ lastOnline = [p \in Peer |-> "unknown"]
    /\ kick = FALSE
    /\ composed = {}
    /\ copies = [b \in Bubble |-> 0]
    /\ arrived = [b \in Bubble |-> {}]
    /\ ackLog = [b \in Bubble |-> <<>>]
    /\ lan = [b \in Bubble |-> {}]
    /\ transcript = {} /\ unanchored = {}
    /\ released = {}

Compose(b) == EnqueueDm(b) \/ EnqueueGroupCopy(b)

Finish(t, b) ==
    \/ \E id \in 0..MaxCopies : RecordSuccess(t, b, id)
    \/ \E terminal \in BOOLEAN : RecordFailure(t, b, terminal)

DriverStep ==
    \/ \E p \in Peer : ClaimBatch(p)
    \/ \E b \in Bubble : SendNext(b)
    \/ RetryTick \/ SweepTick \/ ManualRetry
    \/ BootSweep \/ EventsOpen \/ EventsUnavailable \/ BackoffExpires

Environment ==
    \/ \E b \in Bubble : AbandonFirstSend(b) \/ \E k \in CopyId : PeerReceives(b, k)
    \/ \E p \in Peer : DropBubblesForPeer(p)
    \/ \E p \in Peer, online \in {"online", "offline"} : Presence(p, online)
    \/ StartDriver \/ StreamEnds \/ RetryOutbox \/ Crash \/ Tick

Next ==
    \/ \E b \in Bubble : Compose(b) \/ \E k \in CopyId : ReceiptArrives(b, k)
    \/ \E t \in Task, b \in Bubble : \/ Deposit(t, b) \/ HandOver(t, b)
                                   \/ AckReturns(t, b) \/ Finish(t, b)
    \/ DriverStep
    \/ Environment

Spec == Init /\ [][Next]_vars

\* The driver's task is scheduled and its sends return (transport timeouts are
\* seconds), so each step it has before it is taken; the relay the ready gate
\* waits for connects in the end; time passes.  The retry interval's tick stays
\* due while the loop is elsewhere and is served on the next wait for /events.
\* Nothing is assumed of first sends, presence, receipts, users or crashes.
Fairness ==
    /\ WF_vars(Tick)
    /\ WF_vars(BootSweep) /\ WF_vars(EventsOpen \/ EventsUnavailable)
    /\ WF_vars(BackoffExpires) /\ WF_vars(SweepTick)
    /\ SF_vars(RetryTick) /\ SF_vars(ManualRetry)
    /\ WF_vars(\E p \in Peer : ClaimBatch(p))
    /\ WF_vars(\E b \in Bubble : SendNext(b))
    /\ WF_vars(\E b \in Bubble : Finish("driver", b))

FairSpec == Spec /\ Fairness
-----------------------------------------------------------------------------
(* Properties *)

\* Every variable holds a value of its kind; in particular a bubble, in memory or sealed,
\* remembers no more than PRIOR_MESSAGE_ID_CAP superseded ids (record_send_outcome).
TypeOK ==
    /\ mem \in [Bubble -> BubbleRecord]
    /\ disk \in [Bubble -> BubbleRecord]
    /\ claim \in [Bubble -> {Unclaimed} \cup 0..AgeCap]
    /\ send \in [Task -> [Bubble -> Attempt]]
    /\ mode \in {"off", "boot", "opening", "down", "up"}
    /\ flush \in FlushRecord
    /\ batch \in SUBSET Bubble
    /\ pace \in [Bubble -> Paces]
    /\ lastOnline \in [Peer -> {"unknown", "online", "offline"}]
    /\ kick \in BOOLEAN
    /\ composed \in SUBSET Bubble
    /\ copies \in [Bubble -> 0..MaxCopies]
    /\ arrived \in [Bubble -> SUBSET CopyId]
    /\ ackLog \in [Bubble -> Seq(CopyId)]
    /\ lan \in [Bubble -> SUBSET CopyId]
    /\ transcript \in SUBSET Bubble
    /\ unanchored \in SUBSET Bubble
    /\ released \in SUBSET Bubble

InCustody(b) == 1..copies[b] \ lan[b]

Truthful(b, r) ==
    /\ r.status \in ReachedRelay => InCustody(b) # {} \/ lan[b] # {}
    /\ r.status = "Delivered" => Ids(r) \cap arrived[b] # {}

\* "The user is never told a message made it when it did not" (send_state.rs):
\* a bubble in memory or in the vault that says Sent has a copy in a relay's
\* custody or was written to its peer's LAN socket, and one that says Delivered
\* has a copy its recipient decrypted, whatever races, restarts and vault
\* failures came between.  The second way into Sent is not in send_state.rs,
\* which says that a relay's ack is the only one.
StatesAreTruthful == \A b \in Bubble : Truthful(b, mem[b]) /\ Truthful(b, disk[b])

\* A bubble whose acceptance was ever recorded is never shown as failed:
\* record_send_outcome turns a terminal refusal into Failed only from Queued.
FailedWasNeverAccepted ==
    \A b \in Bubble : mem[b].status = "Failed" => ackLog[b] = <<>>

\* A receipt for the copy that was accepted last, or for one of the PriorCap
\* recorded before it, still finds its bubble: matches_receipt looks at the
\* superseded ids record_send_outcome keeps, in every order of two racing sends.
ReceiptsStillMatch ==
    \A b \in Bubble : Recordable(b) =>
        \A i \in DOMAIN ackLog[b] :
            i + PriorCap >= Len(ackLog[b]) => MatchesReceipt(mem[b], ackLog[b][i])

\* The outbox never retains more images than ATTACHMENT_BUBBLE_CAP, in memory
\* or sealed, and a terminal bubble retains none, so the cap cannot wedge.
AttachmentsBounded ==
    /\ Cardinality({b \in Bubble : mem[b].image}) <= AttachmentCap
    /\ Cardinality({b \in Bubble : disk[b].image}) <= AttachmentCap
    /\ \A b \in Bubble : mem[b].status \in Terminal => ~mem[b].image

\* There is one way for an image to disappear silently: while its bubble exists,
\* the image is on the bubble, or in the transcript of the conversation, or
\* flagged as not kept, or its send went through and the history entry was not
\* written, which Endpoint::send only logs and mark_delivered does not know.
ImagesAccountedFor ==
    \A b \in WithImage : Present(b) =>
        \/ mem[b].image
        \/ b \in transcript
        \/ mem[b].status = "Failed" /\ mem[b].dropped
        \/ b \in unanchored

\* While the first send of a message runs, and no sweep has taken its claim,
\* the driver neither sends the bubble nor has it in its batch: the in-flight
\* claim is the double-send guard of enqueue_dm and flush_matching.
ClaimGuardsFirstSend ==
    \A b \in Bubble : Live("initial", b) /\ b \notin released =>
        claim[b] # Unclaimed /\ b \notin batch /\ ~Live("driver", b)

\* A bubble that has a claim nobody will ever release by finishing a send.
Wedged(b) ==
    /\ Recordable(b)
    /\ claim[b] # Unclaimed
    /\ b \notin batch /\ ~Live("initial", b) /\ ~Live("driver", b)

\* "Retried indefinitely by the outbox driver": while the driver's loop runs,
\* a queued bubble that is not in flight is attempted again, or moves on.
\* flush_due is "the clock-driven floor" that is to see to it.
RetryFloor ==
    <>[](mode \in {"opening", "down", "up"}) =>
        \A b \in Bubble :
            (mem[b].status = "Queued" /\ claim[b] = Unclaimed)
                ~> (mem[b].status # "Queued" \/ Live("driver", b))

\* The same promise where flush_due is served: as long as /events stays down,
\* a queued bubble that is not in flight is attempted again, or moves on.
RetryFloorWhileEventsDown ==
    <>[](mode \in {"opening", "down"}) =>
        \A b \in Bubble :
            (mem[b].status = "Queued" /\ claim[b] = Unclaimed)
                ~> (mem[b].status # "Queued" \/ claim[b] # Unclaimed)

\* A claim whose send task died does not hold its message back for good: as
\* long as the event stream stays open and no flush but the sweep's own stamps
\* the claim anew, sweep_stalled takes it away.
WedgeHeals ==
    <>[](mode = "up" /\ flush.kind \in {"none", "sweep"}) =>
        \A b \in Bubble : Wedged(b) ~> ~Wedged(b)

-----------------------------------------------------------------------------
(* The abstract view of the outbox: the life of each message *)

ShownState(b) ==
    IF b \notin composed THEN "Unborn"
    ELSE IF Present(b) THEN mem[b].status ELSE "Gone"

Lifecycle == INSTANCE SendLifecycle WITH
    state <- [b \in Bubble |-> ShownState(b)],
    custody <- {b \in Bubble : copies[b] > 0},
    received <- {b \in Bubble : arrived[b] # {}}

\* While the vault works, the outbox implements the send-state machine of
\* send_state.rs: no race of first send, retries, receipts, cancellations and
\* restarts takes a message along an edge the machine does not have, so a
\* terminal state is final and a Sent message never reads as queued or failed.
ImplementsLifecycle == Lifecycle!LifecycleSpec

=============================================================================
