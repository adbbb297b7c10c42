# fetchit: a TLA+ model of message delivery

fetchit is a chat client and content viewer with its own store-and-forward
relays. This project models the path a chat message takes (from the sender's
durable outbox, through a relay's transit store, to the recipient's conversation
vault and back as an acknowledgement) and what keeps that path open: the relay
session and its supervisor, presence, moves from relay to relay, the recovery of
group epochs, the re-key of direct conversations and of the vault. The modules are translated from
the Rust source; `PROJECT.json` maps every definition to the lines it models.

## The system

| Part | State it keeps | Operations | Hard because |
|---|---|---|---|
| **Outbox** (`fetchit-chat/src/outbox`, `send_state.rs`) | bubbles in memory and sealed in the vault, in-flight claims, retry pace | enqueue, claim, record the outcome, mark delivered, release stalled claims, drop, flush on presence / clock / manual retry | first sends, the driver and receipts race; writes may fail; the process may die at any point |
| **Send paths** (`messages.rs`, `client.rs`) | the transcript | send and resend of a DM or a group copy | a send awaits the network several times, its result is applied later |
| **Relay transit store** (`relay-server/src/transit*.rs`) | entries per recipient, ids | enqueue, read, delete, sweep | two backends with one contract; restarts |
| **Relay sessions** (`ws.rs`, `session.rs`) | the registry of live connections, an outbound channel each, presence watches | register, replay, push, write, acknowledge, unregister | each connection is a task; a deposit is three atomic steps of another task |
| **Forwarding index** (`forwarding.rs`) | where a departed recipient reads now | post, lapse | consulted in the middle of a deposit |
| **Relay client** (`fetchit-relay-client`) | the connection, its backoff, the watch set, pending requests | run, reconnect, acknowledge | commands arrive while there is no connection |
| **Multi-home transport** (`transport/`) | relay slots, `NonceDedup` | fan-in, fan-out, migration | several relays deliver copies of one frame |
| **Inbound dispatch** (`conversation/`) | history, replay window, epoch keys | dispatch, hold, reject, confirm | what is confirmed is deleted at the relay, so the order of write and confirm matters |
| **Home relay** (`client.rs`, `pair_record.rs`, `multi_home.rs`) | slot 0, `primary_relay_url`, the advertised list, the issuing watermark, records at the relays | failover, migrate, reconnect, publish, forward, follow | flows without a common lock, every post best effort, senders behind by several moves |
| **Epoch recovery** (`groups/epoch_recovery`) | a cursor per group, the group's status | trigger, probe, fetch, apply | replies without a correlation id, partial batches, a restart forgets the cursor |
| **DM re-key** (`client.rs`, `conversation/`) | epoch, key, prior keys and wedge clocks per conversation | scheduled and forced rotation, Welcome, watchdog | both ends rotate on their own and Welcomes get lost |
| **At-rest re-key** (`rekey.rs`) | the key each vault file is sealed under, the keychain entry | rotate, re-seal file by file, resolve at start | a crash between two files; clients still seal under the old key |
| **Group log** (`group_log*.rs`) | append-only records per group | append, fetch by cursor, retention | cursors survive gaps and restarts |
| **Pairing, cards, devices** | signed records with a watermark | publish, apply | a record must never go backwards |
| **Denylist** (`fetchit-trust*`) | a signed list and its cached copy | fetch, apply | an older list must not replace a newer one |
| **Fediverse** (`fetchit-fedi`, `fetchit-bridge-server`) | actors, follows, inbox replay cache | HTTP handlers | signature checking |
| **Content** (`fetchit-core`, `fetchit-net`) | a handler registry | detect, fetch | pure functions and network I/O |
| **Shells** (desktop, Android, web, CLI, MCP) | settings, the x0xd process | start, rebuild, restart | a client may be rebuilt while sends run |

How they interact. `enqueue_dm` stores a bubble and sends it in one task; the
retry driver is a second task over the same store. Both deposit at a relay, which
stores the envelope, pushes it to the recipient's connection if there is one and
answers `Ack`. The recipient's relay clients read frames, the fan-in tasks drop
duplicates across relays, and one dispatcher decrypts, writes to the vault and
confirms; the confirmation travels back as `TransitAck` and deletes the relay's
entry. A delivery receipt returns to the sender as an ordinary message and closes
the bubble.

What makes it correct: a shown state never claims more than happened; an accepted
message is never reported failed; a queued message is attempted again; a message
goes out twice only when that cannot be avoided; an acknowledged envelope is kept
until it was read or expired; a frame is confirmed only when the vault has it; and
it enters the history once. Around the path: every call of send is answered; a
connection is torn down by its own failure only, and its watches survive it; a watcher
is told the truth; an agent gets its mail where it says it lives, and a sender finds it
there; an update the vault answered is kept; a member that fell behind catches up; two
ends of a conversation come to share a key.

## Modules

| Module | Role |
|---|---|
| `SendLifecycle` | abstract: what a message goes through (`SendState`, with relay custody and receipt) |
| `Outbox` | the outbox, the first send, the driver and its event loop |
| `OutboxProofs`, `OutboxRefinement` | theorems about `Outbox` |
| `TransitContract` | abstract: what a relay's transit store promises to depositor and recipient |
| `RelayTransit` | one relay: transit store, session registry, deposit, replay, acknowledgement |
| `RelayTransitProofs` | theorems about `RelayTransit`, and that it implements `TransitContract` |
| `InboundPath` | the recipient: several relays, fan-in, dispatcher, vault |
| `InboundProofs` | theorems about `InboundPath`, and that its relays keep `TransitContract` |
| `ConversationCache` | one conversation in the registry: sealed file, map entry, calls at once |
| `CustodyRekey` | the vault's move to a new master key, file by file, with clients still running |
| `RelayClient` | the client's end of one relay session: supervisor, reader, keepalive, reconnect |
| `Presence` | the relay's session registry, watch indexes and the life of a connection |
| `Homing` | an agent's moves from relay to relay, its records, and a sender that follows |
| `GroupRecovery` | the relay's group log and one member's recovery pass over it |
| `DmRekey` | the keys of one direct conversation at its two ends |
| `RecipientViews` | composes `RelayTransit`, `InboundPath`, `ConversationCache` and `CustodyRekey` |
| `SessionViews` | composes `RelayClient`, `Presence` and `Homing` |
| `RepairViews` | composes `GroupRecovery` and `DmRekey` |
| `VaultProofs` | theorems about `ConversationCache`, `CustodyRekey` and `RecipientViews` |
| `SessionProofs` | theorems about `RelayClient`, `Presence`, `Homing` and `SessionViews` |
| `GroupRecoveryProofs`, `DmRekeyProofs` | theorems about `GroupRecovery`, `DmRekey` and `RepairViews` |
| `MCOutbox`, `MCRelayTransit`, `MCInboundPath`, `MCInboundVault`, `MCSessions`, `MCRecovery` | the constants of the instances for TLC |

The three `Views` modules hold several components in one specification. A variable
`part`, set at the start, says which of them a behaviour is about, and the others stay in
their initial state; so the states of the parts add up and do not multiply, and nothing is
claimed about their interaction. What is claimed is proved: each behaviour of a `Views`
specification is a behaviour of every one of its parts, so the parts' theorems speak of
the specification that the run checks.

The sender, the relay and the recipient meet at narrow interfaces, and each models the
others as environment: `Outbox` sees a relay as something that takes a copy and may or may
not answer, and a LAN peer as something that takes it without an answer; `InboundPath` sees it as a store that delivers on every connect until it is
acknowledged. `TransitContract` is the interface between the last two: a deposit is stored
once and acknowledged only then; only its addressee comes to hold it; the copy goes when
the addressee, holding it, confirms it, or when it expires; whatever a client holds it may
lose. `RelayTransit` implements it in detail, and each relay of `InboundPath` keeps it, so
no run of the recipient rests on a delivery or a reclaim that the relay would not make.
The contract has no liveness: that a stored copy comes down every new connection is how
`InboundPath` models a replay, and `NoEntryUnnoticed` is what `RelayTransit` says of it.

### Outbox

`mem` and `disk` are `OutboxStore.inner` and the sealed file; `claim` is
`inflight`, with ages instead of timestamps; `send` holds the live attempts of
the two kinds of task; `flush`, `batch`, `pace`, `lastOnline` and `kick` are the
driver; `mode` is where its event loop stands. `copies`, `lan` and `arrived` are the
outside world: how many copies left the device, which of them were written straight to
the peer over the LAN, and which the recipient decrypted. `transcript` has the images
that are in the history; `ackLog`, `unanchored` (images whose history entry was not
written although the send went through) and `released` are history for the properties.

An action is a stretch of code between two awaits or under one lock: `EnqueueDm`
(cap check, upsert and claim in one lock), `Deposit` at a relay or `HandOver` to a LAN
socket, `AckReturns` (with the history entry, which may fail to persist), `RecordSuccess` and `RecordFailure` (`record_send_outcome` and the release
of the claim), `ClaimBatch`, `SendNext`, the three ticks, `BootSweep`,
`ReceiptArrives`, `DropBubblesForPeer`, `Crash`.

Abstractions. The wait at the relay-ready gate is part of `ClaimBatch`. Stopping a
driver aborts its send at once. `last_error` and `state_changed_at_ms` are left
out, the wall clock does not go back, and the legacy file migration is not
modelled. Which peers are in the LAN table does not change (`OnLan`). The devices of one recipient are one: `send` succeeds when it
reached any of them.

### RelayTransit

`store` and `nextId` are the transit store, `current` and `opened` the session
registry, `session[s]` the task of connection s with its channel and the backlog it
is replaying, `deposit[e]` where `handle_send` stands on envelope e, `received` what
the recipients' clients have read. A deposit is `GateRefuses` or `Route`, then
`Enqueue` or `EnqueueFails`, then `Push`; a connection is `Register`, `ReadBacklog`,
`Replay`, then `WriterSends`, `WriterDies` and `SessionExits`. `Durable` chooses the
backend; it matters only in `Restart`.

Abstractions. The channel also carries frames the model does not keep, so any
`try_send` may be refused. The byte cap and backend errors are `EnqueueFails`; a
backlog read that fails, or skips a row it cannot decode, is not modelled. A write to
a peer that is gone loses the frame. An acknowledgement carries one id.
`ForwardingChanges` stands for posting, expiry and supersession.

### InboundPath

`copy` is the fate of each relay's copy, `flow` the copies between the socket and the
fan-in task (counted up to two, unordered), `seen` is `NonceDedup`, `inbox` the
channel to the dispatcher, `work` the frame it is on, `acks` the confirmations under
way, `nonces` and `entries` the vault. `held`, `rejected`, `evicted` and `early` record
what the properties speak of.

Abstractions. One sender and one conversation: windows and histories of others are
separate in the code. Kinds of frame that the transport itself settles (admin events,
unknown kinds), and welcomes, receipts and bridge events, are not separate: they end in
the same three ways, confirmed, rejected or held. `HISTORY_CAP` is not modelled. All
mishaps share one budget.

### ConversationCache

`disk` is the sealed file, `cache` the entry in `by_group_id`, `lock` the mutex a
mutation holds across the write, `call[t]` where a caller stands. A conversation is the
set of updates it carries. The locked operations (`mutate_in_place`, `record_nonce`,
`record_delivery`) are `MutateBegins`, then `MutateSeals` or `MutateFails`; `get` is
`Look`, `Open`, `Fill` with no lock between them; `save` is `SaveSeals`,
`SavePublishes`. `clobbered` is history: the updates that one of the two unlocked writes
took away, and those of a save whose file was written over before the map had them.
A call is one of six jobs, and `Scenarios` says which callers do what.

### CustodyRekey

`sealed` is the key each file is under, `custody` the mode in the identity's header,
`keychain` the one entry, `pass` the call of `rekey_to` with the files it still has to
visit. Keys are numbers, new with every salt and every entry. `BeginPassphrase` or
`BeginKeychain` and `MintsEntry` start a pass, `Reseal` moves one file, in any order but
the identity last;
`PassFails` and `Crash` end it anywhere, `PassEnds` invalidates the client. `Build` is
`ChatState::get` with `resolve_master_key`; `running` holds the keys of the clients that
some task still holds, `Save` is one of them sealing a conversation. `torn`, `overtaken`
and `rotated` are history: what the three exceptions of `VaultStaysReadable` speak of.
Left out: a wrong passphrase, a data directory without a vault (the call does nothing),
two passes at once, and a save between the opening and the sealing of one file.

### RelayClient

`cmds` is the command queue, `sup` where the supervisor task stands, `inner` and
`nextGen` the connection generation, `socket` the installed connection with its mutex,
outbox, tasks and both wires, `relaySide` what the relay did. `do_send` is `TakeSend`,
`TakeMutex`, a write action, then `AckArrives` or `AckTimesOut`, all inside the command
loop. The waits without a timeout (the mutex behind a ping, a frame that is no send,
`open_session`) may never end. The relay indexes a session's watches up to
`MAX_WATCHES_PER_SESSION` (`Indexed`) and ignores the rest without a word (`ignored`, a
history variable): a contact past the cap is not watched, and a later unwatch of another
does not bring it in until the list is sent again on a reconnect. Left out: dropping the last handle; the elapsed-time cap,
which is folded into the attempt cap; payloads.

### Presence

`byAgent`, `watchers` with `watchKeys`, and `bySession` are the three maps; each access
to one is atomic and a call is a sequence of them, in `task[c]`. `told` is the last word
put on a watcher's channel, `turn` and `muddled` record which words came out of turn or
were refused. `FallSilent` and `WriteHangs` are a far end that stops answering and a
write that does not return.

### Homing

`slot`, `linked`, `primary`, `advertised` and `ratchet` are the agent's; `pair`, `fwd`
and `present` the relays' indexes and session registries; `card` and `sender` the
sender's. A flow is `Start...`, `Swap`, `Point`, `Issue`, a post action, `Issue` and a
post again for a migration, `Finish`. A post may be taken, refused as too old (and
reissued once), lost after it was stored, or fail. `missed` names the relays that lack
the record the agent meant them to have. The clock behind `issued_at_ms` is the ratchet
alone: `next_issued_at_ms` never goes back, whatever the wall clock does. Flows share no
lock, and any number of them may run (`Flow`); `overlapped` is history: one started while
another was under way. The relisting of the relays at the end may fail its validation.

### GroupRecovery

`log`, `nextSeq` and the two record kinds are the relay's log; `requests`, `wire` and
`chan` the way to it and back; `cursor`, `drv`, `status` and `engineA` the member's RAM;
`epoch` its daemon's state. A pass is `Probe`, `Fetch`, `TakeChunk`, then `ApplyBatch`,
`ApplyFails` or `Drained`; `ProbeFails` ends it at a probe the daemon does not answer.
`RelayRestarts` drops what is on the wire, and with `RamGroupLog`, which a relay without a
database uses, the log and its watermark too (`forgot`, history). The daemon is external: it applies the commit of the next
epoch and refuses any other. The member holds its keys throughout (the cold path is not
modelled), and `MAX_PASSES` (64) is out of reach of the bounds.

### DmRekey

`conv[d]` is the conversation as device d stores it, with the wedge clocks `progress` and
`stale`; `forced` and `auto` are the rotations under way, read, built and committed in
separate steps. A key is named by its epoch and its maker. `stuck` stands for the
receive clock: the peer keeps talking, so it stays recent. `mobile` says which devices
have a shell that triggers recovery on a bad frame (the FFI does, the desktop does not).
The cooldown marks are process RAM: a restart that forgets one, so that a second forced
rotation follows while a Welcome is on the way, is among the mishaps (`CoolsDown`). The run
has the creator of the conversation as the higher id; the theorem has either.

## Runs

| Run | Shows | Bounds |
|---|---|---|
| `outbox_pair` | `AttachmentsBounded`, `ClaimGuardsFirstSend` | two messages with images, one peer, cap 1, one accepted copy each |
| `outbox_faults` | `StatesAreTruthful`, `ImagesAccountedFor` | a DM with an image and a group copy whose peer is on the LAN, vault and history writes may fail |
| `outbox_retry` | `TypeOK`, `ReceiptsStillMatch`, `FailedWasNeverAccepted`, `RetryFloorWhileEventsDown`, `WedgeHeals`, `ImplementsLifecycle` | one message, three accepted copies, one remembered id |
| `outbox_retry_floor` | violation of `RetryFloor` | one message |
| `relay_ram_ids` | violation of `AckedIsKept` | one recipient, two envelopes, two connections, one restart, batch 1, TTL 1, the RAM backend |
| `inbound_path` | `TransitTypeOK`, `AckedIsKept`, `NoEntryUnnoticed`, `NewestSessionServes`; `TypeOK`, `LostInTwoWays`, `ReadOnce`, `NoCopyForgotten`; `VaultTypeOK`, `UpdatesAreKept`, `FailedLeavesNoTrace`, `RecordedOnce`; `VaultStaysReadable` | one recipient, two envelopes, two connections, one restart, batch 1, TTL 1, the durable backend; two relays, a DM broadcast to both, a group frame at one, window 1, one mishap; four calls at once in four mixes, one death, one failing file operation; two files and the identity, two custody switches, two accidents |
| `sessions` | `SessionsTypeOK`; `AckedWasAccepted`, `WatchesCarryOver`, `OnlyOwnSignal`, `SendsEnd`; `LastWordIsTrue`, `WatchIndexesAgree`, `SilentIsReaped`; `HomeTakesMail`, `NoBlackHole`, `SenderFinds` | two sends under one key, two generations, cap 2, one call that names two contacts of which the relay watches one, one fault; three connections of two agents, three watches, cap 1; two relays, two moves, one hint, one failure or two flows at once |
| `recovery` | `RepairTypeOK`; `CursorSkipsNothing`, `SeqNamesOne`, `CatchesUp`; `SettledAgrees`, `Heals` | two joins, log of three, chunks of two, two setbacks of which one may be the loss of a RAM log; epochs to 3, one scheduled rotation, one mishap |
| `home_overlap` | violation of `PrimaryFollowsSlot` | two relays, two flows at once, no other failure |
| `group_join_gap` | violation of `RecoversFromLog` | one join of another member, no setback |
| `inbound_held` | violation of `NeverLost` | two group frames, no mishap |
| `inbound_torn` | violation of `ConfirmAfterPersist` | two DMs, one mishap |

Why the bounds are enough for the cases aimed at. Two messages to one peer share a
flush, its batch and the image cap. Three accepted copies with one remembered id fill
and overflow the list of superseded ids. All delays are one tick, so every order of
stall, backoff and flush occurs; the doublings of the delay are not exercised. Two connections of one recipient are a displacement;
two envelopes with a batch of one overflow it; mailboxes of different recipients share
only the id counter. With window 1 the second frame evicts the first. One mishap at a
time with two relays already gives every loss the properties name; two mishaps grow
the state space beyond the time a run is given. A second generation is enough for a
late signal of the first; two sends under one key for an Ack that meets a retry. Two
connections of one agent and a watcher are a displacement, and both orders of
unregister and register. Two moves between two relays are there and back, with a
forwarding record that must be superseded, and two flows are every overlap of two. A log of three records under four appends
evicts; chunks of two split a reply; two setbacks are a fetch given up on and its
stray chunk at the next, a partial batch and a restart, or a RAM log lost under a live
cursor. Epochs to 3 with a tiebreak
are one forced rotation on each side, with a scheduled one. The theorems below have no
bounds.

`CHECK_DEADLOCK FALSE` is set everywhere but for the outbox, which always has a step:
the other components come to rest when everything bounded is used up.

### Fairness

The outbox runs `outbox_retry` and `outbox_retry_floor` (`FairSpec`): the driver is one
spawned task that the runtime schedules, its sends end (the transports time out), its
timers fire, and time passes. `RetryTick` and `ManualRetry` are strongly fair, because a
tick or a kick that finds the loop elsewhere stays pending and is taken on the next
wait. Nothing is assumed of first sends, peers, receipts, users or crashes.

`sessions` and `recovery` assume the fairness of the component a behaviour is about:

* `ClientFairness`: the tasks run and their timers fire. `TakeMutex` is strongly fair,
  since the runtime's mutex is first come, first served. Nothing is promised of a write
  on a socket that moves no bytes, of `open_session`, of the relay or of the network, so
  `SendsEnd` has to name the waits in which the supervisor may hang.
* `PresenceFairness`: connection tasks run, the writer's look at the pong clock included.
* `HomingFairness`: the sender's outbox retries, slot 0 reconnects, a flow that has
  swapped ends (its requests time out). Nothing of hints, relays or the network.
* `RecoveryFairness`: the pass runs and its deadline passes, the relay answers, stale
  frames keep coming; the last is the other members talking.
* `DmFairness`: both ends keep talking, frames and Welcomes that are not lost arrive, the
  cooldown and the prior-key window pass. `Talk` is strongly fair, because the model has
  one message on its way at a time.

The liveness properties have the form "if this stays so, then one of these causes stays
so": the causes they name are the ways in which the code may fail to make progress.

## What the violations say

* **`RetryFloor`.** Once the event stream is open, the loop in `start_outbox_driver`
  has no arm for the retry clock, so `flush_due` never runs; a peer that sends no
  presence leaves the message queued. The module doc calls `flush_due` "the
  clock-driven floor". It does hold while the stream is down
  (`RetryFloorWhileEventsDown`).
* **`AckedIsKept` on the RAM backend.** Ids start at 1 after a restart; a late
  acknowledgement deletes another envelope. The trait says ids are never reused. On the
  durable backend, and on the RAM one as long as it is not restarted, the property is a
  theorem (`AcknowledgedIsKept`).
* **`NeverLost`.** The fan-in confirms a duplicate when the first copy was merely seen.
  If the dispatcher then holds the frame, no relay may have a copy left.
* **`ConfirmAfterPersist`.** The nonce and the history entry of a DM are two vault
  writes; a death between them turns the redelivery into a replay. The group path
  writes both at once and is free of this (`WholeFramesPersist` proves it, under any
  mishaps). `LostInTwoWays` says these two are all.
* **`PrimaryFollowsSlot`.** `migrate_primary`, `failover_to_next_relay` and
  `reconnect_relay` share no lock, and both the desktop and the FFI call them while the
  watcher runs. A flow swaps slot 0 and then writes `primary_relay_url`; a second swap in
  between leaves the two naming different relays for good, and the agent advertises a relay
  it does not read. `HomeTakesMail`, `NoBlackHole` and `SenderFinds` excuse an agent whose
  flows overlapped, and hold of every other. Overlapping flows can also post forwarding
  records that name each other's relay, so that a sender finds neither.
* **`RecoversFromLog`.** A join logs a `JoinResult` that only the joiner may fetch, and then
  the commit. Every other member sees a hole before the commit, and
  `apply_records_in_order` stops at it, on this pass and on every later one; the doc of
  `group_log.rs` says such a member recovers from the log. `CatchesUp` is what remains: it
  catches up when nothing past its cursor is hidden from it.

Four disagreements with the docs are not runs of their own; a property of a passing run
names each as its exception, so that nothing else may break it:

* `Sent` without a relay. `send_state.rs:45-46` says "The ONLY transition into this state is
  that ack", and `store.rs:296` "A relay ack is the ONLY way into `Sent`". A LAN-direct send
  returns `Ok` once the frame is written to the socket, and is recorded `Sent` too, in the
  history as well ("Reached here only after a relay accepted a copy", `messages.rs:1220`).
  `StatesAreTruthful` says that `Sent` means relay custody or a LAN write.
* A photo that goes unannounced. `outbox/mod.rs:158-159` says of the three rules that
  release image bytes that "none of them loses content the user is not told about".
  `Endpoint::send` only logs a history entry that failed to persist
  (`messages.rs:1191-1236`), and the receipt then releases the bytes. `ImagesAccountedFor`
  names this (`unanchored`) as the one way.
* A second copy in mid-send. `client.rs:2511-2512` says "The send is claimed in-flight for
  its duration so a presence edge landing mid-send cannot fire a second copy". Starting a
  driver clears all claims, also those of first sends that are still running
  (`store.rs:226`). `ClaimGuardsFirstSend` excuses a claim that a sweep took (`released`).
* The group log in RAM. `group_log.rs:46-48` and `:74-76` of the relay say that a sequence
  number is never reused. `RamGroupLog` starts again at 1 after a restart, and new commits
  then lie behind the cursors that members hold, which skip them. `SeqNamesOne` and
  `CursorSkipsNothing` have this as their exception (`forgot`).

Seen while modelling and not the subject of a run: `try_mark_inflight` refreshes the
timestamp of a claim it does not win; a flush sends the snapshot of a bubble taken at
the claim, so a delivered or cancelled message may go out once more; a receipt that
overtakes the recording of its send matches nothing, and the bubble stays `Sent`; the
overlay never raises a transcript entry from `Queued` to `Sent`; `handle_send` answers
nothing when the sender id or the version does not match, though its doc says it always
answers.

The components added last have disagreements of their own, which their properties name
as excuses and TLC reaches when an excuse is removed:

* **Vault.** A cold `get` (`registry.rs:143`) overwrites an entry a mutation advanced
  since, and the `save` of a second install (`inbound.rs:710`, "save is safe here")
  overwrites the file. Through either an update that was answered `Ok` is lost, and a
  nonce is recorded twice, which the doc of `record_nonce` excludes. `save` writes the file
  and then the map without the lock across both (`registry.rs:242`), so a mutation that
  seals the map's older entry in between drops what the save put in the file. `UpdatesAreKept`
  says there is no fourth way, and `VaultProofs` proves it.
* **Custody switch.** `rekey.rs` says each file is resumable, and that a crash on the way
  to a passphrase is clean. A retry makes a new salt, or a new keychain entry, so a file
  that the first pass moved opens under neither key and the retry fails at it, for good;
  and `find_dm_with` fails at every direct conversation as long as one such file is there.
  Only when the keychain refuses to delete its entry does the "already migrated" branch
  run. `chat_rekey_vault` does not stop the client, and the relay pump keeps it after
  `invalidate`: what it seals behind the pass is lost with it, without any fault. A file
  that opens under neither key makes a later switch to the keychain fail after the old
  entry was deleted, which costs a keychain vault as a whole; the docs reserve that for a
  crash. "Every at-rest file" is the conversations, the actor identities and
  `identity.json.enc`: `local_signer.json.enc`, `lan_static.json.enc`, the outbox, the
  bridge consents and the stores below `fedi/` stay under the old key after a successful
  switch, so that the recovery phrase cannot be shown, a client with LAN-direct enabled
  cannot be built, and the outbox starts empty.
* **Relay client.** The ping's write, the wait for the mutex behind it, the write of any
  frame but a send, and `open_session` have no timeout, and the supervisor waits in them
  with every queued command. The doc of `send` says a send whose Ack is lost resolves as
  `InboxClosed`; it resolves as `SendTimeout`.
* **Presence.** `unregister` and `register` each change the registry and then broadcast:
  in the wrong order the last word on an online agent is "offline" until it moves again. A
  writer stuck in `sink.send` does not look at its pong clock.
* **Home relay.** Mail deposited at the old relay between the swap and the
  forwarding record, or while its old session is still registered (`ws.rs:523`), is
  acknowledged and never read. After a failover nothing is posted at the dead relay, so
  when it is back it takes mail. A failover prunes the dead relay, so that the next has
  no fallback. `forwarding.rs:257` and `:320` reason from pair records that "have no
  removal path"; `sweep_expired` in `pair_record.rs` removes them.
* **Group recovery.** The comment in `log_fetch` says a late chunk cannot be mistaken for
  this fetch's reply; one that arrives after the drain is. A batch that fails half way leaves the cursor before the
  batch, where the docs of `recover_once` and `apply_records_in_order` say "at the last
  success". A watchdog sweep without a target reports `Live` once the log is drained,
  behind or not; a group already `Reconnecting` is skipped by the watchdog.
* **DM re-key.** The tiebreak covers two forced rotations. Two collisions with a scheduled
  one remain, and are the exception in `SettledAgrees`: it meets a forced one at the same
  epoch, or it moves one end by the very epoch that the tiebreak adds at the other. The watchdog vetoes
  itself when the epoch moved since the last decrypt; a Welcome or a schedule moves it too,
  and when both ends are in that state nothing heals the conversation (`Vetoed`; TLC
  reaches it with two scheduled rotations). `trigger_group_recovery` sets a direct
  conversation to `Reconnecting` and nothing sets it back, after which the watchdog skips
  it. A late frame of an old key trips a forced rotation, which the comment at
  `registry.rs:467` excludes.

## Proofs

All theorems hold for every value of the constants admitted by the modules' named
assumptions, so for any number of messages, peers, connections, restarts and failures.

| Theorem | Statement | Argument |
|---|---|---|
| `TypeCorrect` | `Spec => []TypeOK` | `TypeOK` needs `CopiesBacked` (the copy an attempt or a record names left the device), since a recorded id must be a copy id |
| `TruthfulStates` | `Spec => []StatesAreTruthful` | `StatesAreTruthful` speaks of status, but a crash restores an old record and a receipt matches old ids; `RecordsBacked` says every id a record holds, in memory or on disk, is a copy that exists. The steps are grouped by how they move a record (`StoreMoves`) |
| `AttachmentCapHolds` | `Spec => []AttachmentsBounded` | `ImagesBounded`: the sets of image-carrying bubbles shrink in every step but composing, and composing checks the cap in the same lock |
| `FirstSendGuarded` | `Spec => []ClaimGuardsFirstSend` | `ComposedFirst`: a batch, a claim or an attempt exists only for a composed bubble, so a first send starts unclaimed |
| `OutboxRefinesLifecycle` | with `~VaultMayFail`, `Spec => ImplementsLifecycle` | `RefinementInv`: memory and disk agree, and a recorded id means the message reached a relay; then each step moves one message along an edge of the lifecycle, or none |
| `RelayTypeCorrect` | `TransitSpec => []TransitTypeOK` | with `StoredHasId`: a deposit past the enqueue has an id other than 0 |
| `AcknowledgedIsKept` | with `IdsLast` (`Durable`, or no restart), `TransitSpec => []AckedIsKept` | `KeptInv`: every entry and every frame in a channel, a backlog or a client carries the id its own deposit was given, and ids are distinct; so an acknowledged id deletes only the envelope the client read. The RAM backend breaks exactly the distinctness |
| `RelayImplementsContract` | with `IdsLast`, `TransitSpec => Contract!ContractSpec` | refinement: an envelope's copy is absent before its enqueue, stored while it has a row, then expired or reclaimed (`Fate`). `ContractInv` on top of `KeptInv` and `Registry`: an envelope has one row, what expired has none, and every frame on a connection or in a client's hands is addressed to that connection's agent; for a push this rests on the registry naming a session of the agent itself. Then an enqueue, an ack, a sweep and a `TransitAck` are the contract's steps, and every other step changes no copy |
| `InboundTypeCorrect` | `Spec => []TypeOK` | inductive as it stands; `WindowStep` gives the bound of the replay window |
| `CopiesAreTracked` | `Spec => []NoCopyForgotten` | inductive with `TypeOK`: each step hands a copy from one of its five places to the next (`Tracked`) |
| `LossIsBounded` | `Spec => []LostInTwoWays` | a loss shows only once every copy is reclaimed, long after its cause. `AckInv` carries the excuse (settled, confirmed early, or nonce known) along the ack path: a frame the dispatcher is about to confirm, an ack on its way and a reclaimed copy all have one, and none is taken back (`ExcuseStays`) |
| `WholeFramesPersist`, `ConfirmedIsPersisted` | `Spec => []WholeIsKept`; `[]ConfirmAfterPersist` where every frame is `Whole` | `WholeInv`: for a frame whose nonce and history entry cannot come apart, a known nonce means a settled frame, but for the direct message between its two writes. Not vacuous: any set of private-group frames qualifies, with every mishap |
| `RelaysKeepContract` | for each relay r, `Spec => Store(r)!ContractSpec` | refinement, with the client as the one recipient: its hand is what `Holds` says, a copy on the way in, in the inbox, at work or confirmed and on the way back. Each step of the client passes a copy on or drops it; only a deposit or a connect brings one in |
| `ReadOnceInWindow` | `Spec => []ReadOnce` | `VaultInv`: no history entry without its nonce in the window or evicted, and between the two writes of a direct message there is no entry unless the nonce was evicted |
| `ImagesStayAccountedFor` | `Spec => []ImagesAccountedFor` | `ImagesKept`: the same of the record on disk, since a crash restores it, and a bubble whose attempt is acked is in the transcript, or known not to be, before the outcome is recorded |
| `AcceptedNeverFails`, `ReceiptsFindTheirBubble` | with `~VaultMayFail`, `Spec => []FailedWasNeverAccepted`, `[]ReceiptsStillMatch` | `RecordedInv`: a record names the log's last id and, in order, the `PriorCap` before it (`Tracks`). One more id keeps that (`AcceptedTracks`) because no copy is recorded twice, the two tasks' attempts on one bubble included. A vault that loses a write returns to a record without the id, hence the hypothesis |
| `NewestServes`, `EntriesNoticed` | `TransitSpec => []NewestSessionServes`, `[]NoEntryUnnoticed`, either backend | `ServeInv`: connections register in order, and from the moment a session has read its backlog every finished deposit's row is in the rest of that backlog, was put on the channel, or something overflowed |
| `CacheKeepsUpdates`, `CacheRecordsOnce`, `CacheForgetsFailures` | `CacheSpec => []UpdatesAreKept`, `[]RecordedOnce`, `[]FailedLeavesNoTrace` | `CacheInv`: a successful update is where the next read takes it from: the map's entry without the mutation in progress, or, while the map has none, the file and every image on its way to the map (`KeptInv`); and what the file, the entry and the images hold, some call wrote (`OriginInv`) |
| `VaultReadable` | `CustodySpec => []VaultStaysReadable` | `CustodyInv`: the identity is moved last, so during a pass a conversation is under the new key, or under the identity's and still to be visited; and no running client holds a key the identity is not under, if the vault would resolve it or the pass starts from it (`StrayInv`) |
| `SequenceNumbersUnique` | `RecoverySpec => []SeqNamesOne` | every sequence number ever stored is below the watermark, until a relay forgets a RAM log; the records stored since are below the new one (`SeqInv`, `StoredOnce`) |
| `CursorNeverSkips` | `RecoverySpec => []CursorSkipsNothing` | `RecoveryInv`: commits are logged in the order of their epochs, and whatever a reply, a stray chunk or a batch carries was stored once. What a batch does is a recursion over its records; it is shown by the least prefix at which the claim would fail (`LeastNatural`, `RecursionStays`) |
| `DmSettledAgrees` | `DmSpec => []SettledAgrees` | `DmInv`: the end that is ahead made its key itself and its Welcome is on the way; the lower id leads by at most one epoch, the higher by at most three, and nothing lets the lower id take the epoch before the higher's for its floor (`HighLead`), so the tiebreak separates two forced rotations |
| `IndexesAgree`, `WatchersKnow` | `PresenceSpec => []WatchIndexesAgree`, `[]LastWordIsTrue` | `PresenceInv`: a task has taken what it still has to undo out of its own index already; and while a task's transition is the latest of its agent, the registry is as the task is about to tell (`TurnInv`), so when nobody is about to tell, every watcher that was told in turn knows |
| `AckedSendsAccepted`, `OwnSignalOnly` | `ClientSpec => []AckedWasAccepted`, `OnlyOwnSignal` | `ClientInv`: an Ack that reaches the send in hand is of its key, and a report in the queue was raised by its own generation |
| `WatchesSurvive` | `ClientSpec => []WatchesCarryOver` | `WatchInv`: for each contact the last frame on the way up that mentions it decides, the frame in the supervisor's hand being the very last, and else what the relay knows; what it knows is what it was asked to watch but for what it ignored, and it ignores nothing below its cap |
| `HomeKeepsMail`, `NothingStoredAway` | `HomingSpec => []HomeTakesMail`, `NoBlackHole`, with any number of flows at once | `SoloInv`: as long as no two flows overlapped, at most one flow is under way (`Alone`), and then `HomingInv`: where slot 0 and the live primary are at each point of a flow; a record on its way is newer than any a relay holds; every relay but the home that was ever told of the agent knows that it left, or missed the record; and nobody is sent to a relay that was never told |
| `HomingTypeCorrect` | `HomingSpec => []HomingTypeOK`, with any number of flows at once | `MovesInv`: wherever a flow stands, the record it carries was issued by the ratchet (`FlowsInv`), no record at a relay or card is newer than the ratchet (`RecordsInv`, `SenderInv`). The pruned list is a recursion over the advertised one; it is shown by the least prefix at which it would fail (`Sieve`) |
| `SessionViewsFaithful`, `RecipientViewsFaithful`, `RepairViewsFaithful` | the composed specification implies the next-state specification of each of its parts | a step of one part leaves the variables of the others alone |
| `SessionsTypeCorrect`, `VaultTypeCorrect`, `RepairTypeCorrect` | `[]SessionsTypeOK`, `[]VaultTypeOK`, `[]RepairTypeOK` of the composed specifications | from the parts' invariants, through the three theorems above |

`CacheTypeCorrect`, `CustodyTypeCorrect`, `DmTypeCorrect`, `RecoveryTypeCorrect`,
`PresenceTypeCorrect` and `ClientTypeCorrect` are the type invariants of the parts.

Each inductive invariant was checked with TLC on an instance before it was proved. Three
proof attempts failed for a good reason and changed the models: the third way to lose an
update, the second collision that the tiebreak leaves (both described above), and a watch
index that a `reclaim` has not yet cleaned when the cap is more than one.

The two contract refinements and the strengthened invariants behind them were checked
with TLC on the bounds of the relay in `inbound_path` (with one and with two recipients) and
on those of its frames with a failing vault.

Only model-checked: the liveness properties (`RetryFloorWhileEventsDown`, `WedgeHeals`,
`SendsEnd`, `SilentIsReaped`, `SenderFinds`, `CatchesUp`, `Heals`), which are out of the
prover's reach. Every other property of a passing run is a theorem, under the hypotheses
the table names.

## Plan

1. Done: outbox, relay transit, inbound path with their theorems; then the relay client
   supervisor, presence watches, the conversation registry, home moves, the group log with
   epoch recovery, the DM re-key and the custody switch.
2. Done: proofs for these modules and for what was left of the outbox and the relay.
3. Done: what a relay promises as a contract (`TransitContract`), which `RelayTransit`
   implements and the relays of `InboundPath` keep; the composed specifications as modules,
   with their theorems. Left: the sender's side of the same contract, so that a message
   shown `Delivered` is in the recipient's history.
4. The vault files a custody switch leaves behind, the denylist consumer (an older list never
   replaces a newer one), the follow store, the x0xd supervisor of the desktop shell, and
   the pending-join driver.

## Not modelled

Cryptography, serialisation and signatures (a check is a nondeterministic verdict); the
x0xd daemon, which is outside this repository; HTTP indexes with a TTL but for the two
that decide where mail goes; the fediverse library and routes; content handlers and
network fetches; bindings and user interfaces. `PROJECT.json` lists each part with the
reason.

The map covers a small share of the repository's lines. The workspace is wide: parsers,
handlers, HTTP routes, bindings, test peers and shells make up most of it, and they hold
no state that several steps or actors could bring out of order. Large parts of
`client.rs` and `messages.rs` are their own unit tests, REST calls to the daemon and
formatting. The map names the protocol code that the definitions translate and nothing
beside it.
