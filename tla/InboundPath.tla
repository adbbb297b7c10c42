----------------------------- MODULE InboundPath -----------------------------
(***************************************************************************)
(* The recipient's half of delivery: from the sockets of its relays,       *)
(* through the multi-home fan-in and the dispatcher, into the conversation *)
(* vault, and back to each relay as an acknowledgement that lets it drop   *)
(* its copy.                                                               *)
(*                                                                         *)
(* Two memories decide that a frame is a duplicate.  `seen` (NonceDedup)   *)
(* is RAM, shared by the relays' fan-in tasks, and forgets after 300 s.    *)
(* `nonces` (Conversation.seen_nonces) is in the vault and forgets after   *)
(* Window other frames.  A frame that cannot be read yet is HELD: its ack  *)
(* token is dropped and the relay sends the copy again on a later connect. *)
(*                                                                         *)
(* The relays are external here: a copy is stored, comes down every        *)
(* connection it is still stored at, and goes when acknowledged or expired *)
(* (TransitContract is what they promise, RelayTransit the detail).        *)
(***************************************************************************)
EXTENDS Naturals, Sequences, FiniteSets

CONSTANTS
    Relay,
    Frame,        \* (sender, nonce) pairs, of one sender and one conversation
    Kind,         \* Kind[f]: "dm" (dispatch_message) or "group" (private group)
    Targets,      \* Targets[f]: the relays f's sender deposits a copy at
    Window,       \* check_and_record_nonce's WINDOW_SIZE
    VaultMayFail, \* TRUE: a vault read or write may fail
    MaxMishaps    \* bound: disconnects, deaths, expiries of copies, keys and `seen`

ASSUME InboundAssumption ==
    /\ Kind \in [Frame -> {"dm", "group"}] /\ Targets \in [Frame -> SUBSET Relay]
    /\ Window \in Nat \ {0} /\ MaxMishaps \in Nat /\ VaultMayFail \in BOOLEAN

VARIABLES
    copy,     \* what became of the copy each relay was given of each frame
    up,       \* relays with a live connection
    flow,     \* copies between a relay's socket and its fan-in task
    seen,     \* NonceDedup
    inbox,    \* the on_inbound channel, drained by the one dispatcher
    work,     \* the frame the dispatcher is on
    acks,     \* confirmed tokens whose TransitAck has not reached the relay
    held,     \* copies whose token was dropped on the present connection
    ready,    \* frames whose sender card and epoch key the client has
    nonces,   \* vault: the conversation's replay window
    entries,  \* vault: history entries of each frame (2 = twice or more)
    rejected, \* history: frames given a terminal reject
    evicted,  \* history: frames pushed out of the replay window
    early,    \* history: frames confirmed as duplicates before they were settled
    mishaps

inboundVars == <<copy, up, flow, seen, inbox, work, acks, held, ready, nonces,
                 entries, rejected, evicted, early, mishaps>>

Token == [relay: Relay, frame: Frame]
Fates == {"absent", "stored", "reclaimed", "expired"}
Steps == {"idle", "check", "history", "confirm"}
Idle == [pc |-> "idle"]
Working == [pc: Steps \ {"idle"}, relay: Relay, frame: Frame]

Cap2(n) == IF n > 2 THEN 2 ELSE n
Recorded(f) == f \in {nonces[i] : i \in DOMAIN nonces}
Settled(f) == entries[f] > 0 \/ f \in rejected

Mishap == mishaps < MaxMishaps /\ mishaps' = mishaps + 1

\* DeliveryAck::confirm: an AckTransit command for the delivering relay.
Confirm(r, f) == acks' = acks \cup {[relay |-> r, frame |-> f]}

-----------------------------------------------------------------------------
(* The relays (external). *)

\* A deposit.  A connection that was replaying gets the frame pushed and replayed.
Deposit(r, f) ==
    /\ r \in Targets[f] /\ copy[r][f] = "absent"
    /\ copy' = [copy EXCEPT ![r][f] = "stored"]
    /\ IF r \in up
       THEN \E n \in 1..2 : flow' = [flow EXCEPT ![r][f] = Cap2(@ + n)]
       ELSE UNCHANGED flow
    /\ UNCHANGED <<up, seen, inbox, work, acks, held, ready, nonces, entries,
                   rejected, evicted, early, mishaps>>

Expire(r, f) ==
    /\ copy[r][f] = "stored" /\ Mishap
    /\ copy' = [copy EXCEPT ![r][f] = "expired"]
    /\ UNCHANGED <<up, flow, seen, inbox, work, acks, held, ready, nonces, entries,
                   rejected, evicted, early>>

AckArrives(t) ==
    /\ t \in acks /\ t.relay \in up
    /\ acks' = acks \ {t}
    /\ copy' = [copy EXCEPT ![t.relay][t.frame] = IF @ = "stored" THEN "reclaimed" ELSE @]
    /\ UNCHANGED <<up, flow, seen, inbox, work, held, ready, nonces, entries,
                   rejected, evicted, early, mishaps>>

-----------------------------------------------------------------------------
(* The relay client: the supervisor's connection. *)

\* A new session replays every copy the relay still stores.  An ack that was on the dead
\* wire or that `reconnect` drained is dropped; one queued while the session opened goes
\* out on it.
Connect(r) ==
    /\ r \notin up
    /\ up' = up \cup {r}
    /\ \E lost \in SUBSET {t \in acks : t.relay = r} : acks' = acks \ lost
    /\ flow' = [flow EXCEPT ![r] =
                  [f \in Frame |-> IF copy[r][f] = "stored" THEN Cap2(@[f] + 1) ELSE @[f]]]
    /\ held' = {t \in held : t.relay # r}
    /\ UNCHANGED <<copy, seen, inbox, work, ready, nonces, entries,
                   rejected, evicted, early, mishaps>>

\* Frames the reader had not taken are lost with the socket; those in the client's own
\* channels stay.
Disconnect(r) ==
    /\ r \in up /\ Mishap
    /\ up' = up \ {r}
    /\ \E kept \in [Frame -> 0..2] :
          /\ \A f \in Frame : kept[f] <= flow[r][f]
          /\ flow' = [flow EXCEPT ![r] = kept]
    /\ UNCHANGED <<copy, seen, inbox, work, acks, held, ready, nonces, entries,
                   rejected, evicted, early>>

-----------------------------------------------------------------------------
(* The fan-in: spawn_fan_in_for_slot and NonceDedup. *)

FirstSeen(r, f) ==
    /\ f \notin seen
    /\ seen' = seen \cup {f}
    /\ inbox' = Append(inbox, [relay |-> r, frame |-> f])
    /\ UNCHANGED <<acks, early>>

\* The duplicate is dropped and its relay keeps the copy.
DuplicateDropped(r, f) ==
    /\ f \in seen
    /\ UNCHANGED <<acks, early, seen, inbox>>

\* "the first copy owns delivery, so this durable copy reclaims"
Duplicate(r, f) ==
    /\ f \in seen
    /\ Confirm(r, f)
    /\ early' = IF Settled(f) THEN early ELSE early \cup {f}
    /\ UNCHANGED <<seen, inbox>>

FanIn(r, f) ==
    /\ flow[r][f] > 0
    /\ flow' = [flow EXCEPT ![r][f] = @ - 1]
    /\ FirstSeen(r, f) \/ Duplicate(r, f)
    /\ UNCHANGED <<copy, up, work, held, ready, nonces, entries, rejected, evicted, mishaps>>

\* 300 s since the first copy, or the 10 000-entry LRU is full.
SeenLapses(f) ==
    /\ f \in seen /\ Mishap
    /\ seen' = seen \ {f}
    /\ UNCHANGED <<copy, up, flow, inbox, work, acks, held, ready, nonces, entries,
                   rejected, evicted, early>>

-----------------------------------------------------------------------------
(* The dispatcher: default_dispatch_one, one frame at a time. *)

Take ==
    /\ work = Idle /\ inbox # << >>
    /\ work' = [pc |-> "check", relay |-> Head(inbox).relay, frame |-> Head(inbox).frame]
    /\ inbox' = Tail(inbox)
    /\ UNCHANGED <<copy, up, flow, seen, acks, held, ready, nonces, entries,
                   rejected, evicted, early, mishaps>>

\* The window grows without end.
RememberedForever(f) ==
    /\ nonces' = Append(nonces, f)
    /\ UNCHANGED evicted

\* check_and_record_nonce on a fresh nonce: the oldest goes at Window.
Remembered(f) ==
    IF Len(nonces) >= Window
    THEN nonces' = Append(Tail(nonces), f) /\ evicted' = evicted \cup {Head(nonces)}
    ELSE nonces' = Append(nonces, f) /\ UNCHANGED evicted

Appended(f) == entries' = [entries EXCEPT ![f] = Cap2(@ + 1)]

Now(pc) == work' = [work EXCEPT !.pc = pc]

\* A held frame is confirmed all the same.
HoldConfirms ==
    /\ work.pc = "check"
    /\ work.frame \notin ready \/ VaultMayFail
    /\ Confirm(work.relay, work.frame)
    /\ work' = Idle
    /\ UNCHANGED <<copy, up, flow, seen, inbox, held, ready, nonces, entries, rejected,
                   evicted, early, mishaps>>

\* StaleEpoch, KemDecapFailed, no card, x0xd down, a vault error: the token is dropped.
Hold ==
    /\ work.pc = "check"
    /\ work.frame \notin ready \/ VaultMayFail
    /\ held' = held \cup {[relay |-> work.relay, frame |-> work.frame]}
    /\ work' = Idle
    /\ UNCHANGED <<copy, up, flow, seen, inbox, acks, ready, nonces, entries, rejected,
                   evicted, early, mishaps>>

\* A blocked sender, a bad signature; or AEAD open failing, after the nonce was recorded.
Reject ==
    LET f == work.frame IN
    /\ work.pc = "check"
    /\ rejected' = rejected \cup {f}
    /\ \/ UNCHANGED <<nonces, evicted>>
       \/ Kind[f] = "dm" /\ f \in ready /\ ~Recorded(f) /\ Remembered(f)
    /\ Now("confirm")
    /\ UNCHANGED <<copy, up, flow, seen, inbox, acks, held, ready, entries, early, mishaps>>

\* The history is pushed before the replay check.
ReceiveThenCheck ==
    LET f == work.frame IN
    /\ work.pc = "check" /\ Kind[f] = "group" /\ f \in ready
    /\ IF Recorded(f) THEN UNCHANGED <<nonces, evicted>> ELSE Remembered(f)
    /\ Appended(f)
    /\ Now("confirm")
    /\ UNCHANGED <<copy, up, flow, seen, inbox, acks, held, ready, rejected, early, mishaps>>

\* receive_private_group_envelope: nonce and history in one vault write, or a replay.
ReceiveGroup ==
    LET f == work.frame IN
    /\ work.pc = "check" /\ Kind[f] = "group" /\ f \in ready
    /\ IF Recorded(f) THEN UNCHANGED <<nonces, evicted, entries>>
       ELSE Remembered(f) /\ Appended(f)
    /\ Now("confirm")
    /\ UNCHANGED <<copy, up, flow, seen, inbox, acks, held, ready, rejected, early, mishaps>>

\* dispatch_message, first vault write: record_nonce, or ReplayDetected.
RecordNonce ==
    LET f == work.frame IN
    /\ work.pc = "check" /\ Kind[f] = "dm" /\ f \in ready
    /\ IF Recorded(f)
       THEN UNCHANGED <<nonces, evicted>> /\ Now("confirm")
       ELSE Remembered(f) /\ Now("history")
    /\ UNCHANGED <<copy, up, flow, seen, inbox, acks, held, ready, entries, rejected,
                   early, mishaps>>

\* dispatch_message, second vault write; a failure is logged and the dispatch goes on.
PushHistory ==
    /\ work.pc = "history"
    /\ \/ Appended(work.frame)
       \/ VaultMayFail /\ UNCHANGED entries
    /\ Now("confirm")
    /\ UNCHANGED <<copy, up, flow, seen, inbox, acks, held, ready, nonces, rejected,
                   evicted, early, mishaps>>

\* A terminal outcome: confirms_delivery.
ConfirmDelivery ==
    /\ work.pc = "confirm"
    /\ Confirm(work.relay, work.frame)
    /\ work' = Idle
    /\ UNCHANGED <<copy, up, flow, seen, inbox, held, ready, nonces, entries, rejected,
                   evicted, early, mishaps>>

\* A welcome, a rekey, an epoch catch-up or a card arrives.
KeyArrives(f) ==
    /\ f \notin ready
    /\ ready' = ready \cup {f}
    /\ UNCHANGED <<copy, up, flow, seen, inbox, work, acks, held, nonces, entries, rejected,
                   evicted, early, mishaps>>

\* A prior epoch's key expires (sweep_prior_keys).
KeyLapses(f) ==
    /\ f \in ready /\ Mishap
    /\ ready' = ready \ {f}
    /\ UNCHANGED <<copy, up, flow, seen, inbox, work, acks, held, nonces, entries, rejected,
                   evicted, early>>

\* Channels, tokens and NonceDedup go with the process; the vault stays.
Volatile ==
    /\ up' = {} /\ seen' = {} /\ inbox' = << >> /\ work' = Idle
    /\ acks' = {} /\ held' = {}
    /\ flow' = [r \in Relay |-> [f \in Frame |-> 0]]

ProcessDies ==
    /\ Mishap /\ Volatile
    /\ UNCHANGED <<copy, ready, nonces, entries, rejected, evicted, early>>

-----------------------------------------------------------------------------
Init ==
    /\ copy = [r \in Relay |-> [f \in Frame |-> "absent"]]
    /\ up = {} /\ seen = {} /\ inbox = << >> /\ work = Idle
    /\ flow = [r \in Relay |-> [f \in Frame |-> 0]]
    /\ acks = {} /\ held = {} /\ ready = {}
    /\ nonces = << >> /\ entries = [f \in Frame |-> 0]
    /\ rejected = {} /\ evicted = {} /\ early = {} /\ mishaps = 0

Next ==
    \/ \E r \in Relay : Connect(r) \/ Disconnect(r)
    \/ \E r \in Relay, f \in Frame : Deposit(r, f) \/ Expire(r, f) \/ FanIn(r, f)
    \/ \E t \in Token : AckArrives(t)
    \/ \E f \in Frame : SeenLapses(f) \/ KeyArrives(f) \/ KeyLapses(f)
    \/ Take \/ Hold \/ Reject \/ ReceiveGroup \/ RecordNonce \/ PushHistory \/ ConfirmDelivery
    \/ ProcessDies

Spec == Init /\ [][Next]_inboundVars

-----------------------------------------------------------------------------
(* Properties. *)

\* Every variable holds a value of its kind, and the vault's replay window never holds
\* more than Window nonces (Conversation::check_and_record_nonce).
TypeOK ==
    /\ copy \in [Relay -> [Frame -> Fates]] /\ up \in SUBSET Relay
    /\ flow \in [Relay -> [Frame -> 0..2]] /\ seen \in SUBSET Frame
    /\ inbox \in Seq(Token) /\ work \in {Idle} \cup Working
    /\ acks \in SUBSET Token /\ held \in SUBSET Token /\ ready \in SUBSET Frame
    /\ nonces \in Seq(Frame) /\ Len(nonces) <= Window
    /\ entries \in [Frame -> 0..2]
    /\ rejected \in SUBSET Frame /\ evicted \in SUBSET Frame /\ early \in SUBSET Frame
    /\ mishaps \in 0..MaxMishaps

InHand(f) ==
    \/ \E r \in Relay : flow[r][f] > 0
    \/ \E i \in DOMAIN inbox : inbox[i].frame = f
    \/ work.pc # "idle" /\ work.frame = f

\* Delivered to a relay, and now neither there, nor in the client, nor settled; a frame
\* a relay let expire is not counted.
Lost(f) ==
    /\ \E r \in Relay : copy[r][f] # "absent"
    /\ \A r \in Relay : copy[r][f] \in {"absent", "reclaimed"}
    /\ ~Settled(f) /\ ~InHand(f)

\* The nonce is in the vault's window, or was, and the message is not in the history.
Torn(f) == (Recorded(f) \/ f \in evicted) /\ entries[f] = 0

\* A frame is lost in two ways only: the fan-in confirmed a duplicate of a copy that was
\* not settled yet, or dispatch_message recorded the nonce and the history write did not
\* follow.  No other order of holds, redeliveries over several relays, lost acks, key
\* changes and process deaths loses one (default_dispatch_one: "Ack-after-persist").
LostInTwoWays == \A f \in Frame : Lost(f) => f \in early \/ Torn(f)

\* No frame is lost (DeliveryAck: a token dropped without confirm "means 'not done yet':
\* the transport keeps the envelope and redelivers it on a later connect").
NeverLost == \A f \in Frame : ~Lost(f)

\* A frame enters the history again only after Window other frames pushed its nonce out
\* of the vault's replay window: not after a process death between the history write and
\* the ack, a lost ack, a lapse of NonceDedup or a copy from another relay.
ReadOnce == \A f \in Frame : entries[f] > 1 => f \in evicted

\* The dispatcher confirms only what is in the vault or was terminally rejected
\* (confirms_delivery: "its effects are durably applied (vault persisted), it is a
\* provable duplicate, or no future redelivery could ever process it differently").
ConfirmAfterPersist == work.pc = "confirm" => Settled(work.frame)

\* A copy stored at a connected relay is never forgotten: it is on its way to the
\* dispatcher, or its ack is on the way back, or the dispatcher holds it for a later
\* connect.  None is stranded behind a duplicate from another relay, a reconnect or a lost
\* ack (spawn_fan_in_for_slot confirms a duplicate so that its durable copy reclaims).
NoCopyForgotten ==
    \A r \in up, f \in Frame : LET t == [relay |-> r, frame |-> f] IN
        copy[r][f] = "stored" =>
            \/ flow[r][f] > 0 \/ t \in {inbox[i] : i \in DOMAIN inbox}
            \/ work.pc # "idle" /\ work.relay = r /\ work.frame = f
            \/ t \in acks \/ t \in held
=============================================================================
