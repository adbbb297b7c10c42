-------------------------------- MODULE Homing --------------------------------
(***************************************************************************)
(* Where an agent receives its mail, and how a sender keeps track of it.   *)
(*                                                                         *)
(* The agent is at home on one relay (slot 0 of its transport) and says so *)
(* in signed records: a pair record at the relay it lives on, a forwarding *)
(* record at the one it left.  Three flows move it: the failover watcher,  *)
(* a migration the user asks for, and a reconnect in place.  They run      *)
(* without a common lock and touch slot 0, primary_relay_url and the       *)
(* records in separate steps, every post being best effort.                *)
(*                                                                         *)
(* The sender knows the agent's relay from its contact card.  A relay      *)
(* answers Moved to a deposit for an agent that left it; the sender then   *)
(* reads the forwarding record, moves its card along and tries once more.  *)
(***************************************************************************)
EXTENDS Naturals, Sequences

CONSTANTS
    Relay,       \* relays
    FirstHome,   \* the relay the agent starts on, and the sender's card names
    Advertised,  \* the agent's advertised_relays, a sequence
    Flow,        \* flow slots, numbers: how many flows may overlap
    MaxMoves,    \* bound: flows started
    MaxTalks,    \* bound: messages the agent sends, each with an in-band relay hint
    MaxMisses    \* bound: failing relays, posts, links and card checks, expiring records, overlaps

ASSUME HomingAssumption ==
    /\ FirstHome \in Relay /\ Advertised \in Seq(Relay) /\ Flow \subseteq Nat
    /\ MaxMoves \in Nat /\ MaxTalks \in Nat /\ MaxMisses \in Nat

VARIABLES
    slot,        \* the relay in slot 0 (and MultiHomeTransport::primary_url, under its lock)
    linked,      \* slot 0's connection is up
    primary,     \* Client::primary_relay_url
    advertised,  \* Client::advertised_relays
    ratchet,     \* the watermark file: the last issued_at_ms handed out
    flow,        \* the flows under way
    up,          \* the relays that answer
    pair,        \* pair[r]: issued_at_ms of the pair record r holds, 0 = none
    fwd,         \* fwd[r]: the forwarding record r holds, issued = 0 for none
    present,     \* the relays whose session registry has the agent
    card,        \* the sender's contact card: relay hint and its watermark
    sender,      \* the sender's attempt
    mail,        \* where the sender's message was accepted
    hints,       \* in-band hints on their way to the sender
    missed,      \* history: relays that lack the record the agent meant them to have
    overlapped,  \* history: a flow was started while another was under way
    moves, talks, misses

homingVars == <<slot, linked, primary, advertised, ratchet, flow, up, pair, fwd, present, card,
                sender, mail, hints, missed, overlapped, moves, talks, misses>>
ownerVars == <<slot, linked, primary, advertised, ratchet, flow>>
homeRelayVars == <<up, pair, fwd, present>>
senderVars == <<card, sender, mail, hints>>
countVars == <<missed, overlapped, moves, talks, misses>>

-----------------------------------------------------------------------------
Nowhere == "nowhere"
NoFlow == [kind |-> "none", at |-> "idle", from |-> Nowhere, to |-> Nowhere, url |-> Nowhere,
           issued |-> 0]
NoForward == [to |-> Nowhere, issued |-> 0]

FlowAt(f, p) == flow[f].at = p
Step(f, p) == flow' = [flow EXCEPT ![f].at = p]
Quiet == \A f \in Flow : FlowAt(f, "idle")
Miss == misses < MaxMisses /\ misses' = misses + 1

\* get_live_unsuperseded without the supersession.
DepartedAnyway(r) == fwd[r].issued > 0

\* get_live_unsuperseded: a forwarding record, unless the pair record is newer.
Departed(r) == fwd[r].issued > 0 /\ ~(pair[r] > fwd[r].issued)

-----------------------------------------------------------------------------
(* The flows: run_failover_watcher and failover_to_next_relay, migrate_primary,   *)
(* reconnect_relay.                                                               *)

\* A flow starts, in the first slot that is free: the slots are alike.
Start(f, kind, to) ==
    /\ FlowAt(f, "idle") /\ \A g \in Flow : g < f => ~FlowAt(g, "idle")
    /\ moves < MaxMoves /\ moves' = moves + 1
    /\ overlapped' = (overlapped \/ ~Quiet)
    /\ IF Quiet THEN UNCHANGED misses ELSE Miss
    /\ flow' = [flow EXCEPT ![f] = [NoFlow EXCEPT !.kind = kind, !.at = "swap", !.from = primary,
                                                  !.to = to]]
    /\ UNCHANGED <<slot, linked, primary, advertised, ratchet, missed, talks, homeRelayVars, senderVars>>

\* migrate_primary to another relay; to the same one it is a no-op.
StartMigrate(f) == \E r \in Relay \ {primary} : Start(f, "migrate", r)

StartReconnect(f) == Start(f, "reconnect", primary)

\* pick_failover_candidate: the first advertised relay that is not the dead one.
Candidate(r) ==
    \E i \in DOMAIN advertised :
        advertised[i] = r /\ r # primary /\ \A j \in 1..(i - 1) : advertised[j] = primary

\* The one watcher finds slot 0 gone for failover_after, or for good.
StartFailover(f) ==
    /\ ~linked
    /\ \A g \in Flow : flow[g].kind # "failover"
    /\ \E r \in Relay : Candidate(r) /\ Start(f, "failover", r)

\* replace_primary: the new session is live, goes into slot 0, and the old one is shut
\* down, which its relay notices later.  After a failover nothing is posted at the relay
\* that was left.
Swap(f) ==
    /\ FlowAt(f, "swap") /\ up[flow[f].to]
    /\ slot' = flow[f].to /\ linked' = TRUE
    /\ present' = present \cup {flow[f].to}
    /\ missed' = IF flow[f].kind = "failover" THEN missed \cup {slot} ELSE missed
    /\ Step(f, IF flow[f].kind = "reconnect" THEN "publish" ELSE "point")
    /\ UNCHANGED <<primary, advertised, ratchet, up, pair, fwd, senderVars, moves, overlapped,
                   talks, misses>>

\* BuildFailed or SwapNotLive: nothing was touched.
SwapFails(f) ==
    /\ FlowAt(f, "swap")
    /\ IF up[flow[f].to] THEN Miss ELSE UNCHANGED misses
    /\ flow' = [flow EXCEPT ![f] = NoFlow]
    /\ UNCHANGED <<slot, linked, primary, advertised, ratchet, homeRelayVars, senderVars,
                   missed, moves, overlapped, talks>>

\* The live primary follows slot 0.
Point(f) ==
    /\ FlowAt(f, "point")
    /\ primary' = flow[f].to
    /\ Step(f, "publish")
    /\ UNCHANGED <<slot, linked, advertised, ratchet, homeRelayVars, senderVars, countVars>>

\* The forwarding record sent to the new primary.
IssueToPrimary(f) ==
    /\ flow[f].at \in {"publish", "forward"}
    /\ ratchet' = ratchet + 1
    /\ flow' = [flow EXCEPT ![f].issued = ratchet', ![f].at = IF @ = "publish" THEN "post" ELSE "fpost",
                            ![f].url = primary]
    /\ UNCHANGED <<slot, linked, primary, advertised, homeRelayVars, senderVars, countVars>>

\* next_issued_at_ms, a signed record, and where it goes: the pair record to the
\* primary of this moment, the forwarding record to the relay that was left.
Issue(f) ==
    /\ flow[f].at \in {"publish", "forward"}
    /\ ratchet' = ratchet + 1
    /\ flow' = [flow EXCEPT ![f].issued = ratchet', ![f].at = IF @ = "publish" THEN "post" ELSE "fpost",
                            ![f].url = IF FlowAt(f, "publish") THEN primary ELSE flow[f].from]
    /\ UNCHANGED <<slot, linked, primary, advertised, homeRelayVars, senderVars, countVars>>

Posting(f) == flow[f].at \in {"post", "repost", "fpost", "frepost"}
Pairing(f) == flow[f].at \in {"post", "repost"}
\* publish_pair_record is followed by the forwarding record in a migration only.
Posted(f) == IF Pairing(f) /\ flow[f].kind = "migrate" THEN "forward" ELSE "finish"

Watermark(f) == IF Pairing(f) THEN pair[flow[f].url] ELSE fwd[flow[f].url].issued

\* put_if_newer, on either index.
Newer(f) == flow[f].issued > Watermark(f)

\* A forwarding record that names the relay the agent left.
StoredBackwards(f) ==
    IF Pairing(f)
    THEN pair' = [pair EXCEPT ![flow[f].url] = flow[f].issued] /\ UNCHANGED fwd
    ELSE /\ fwd' = [fwd EXCEPT ![flow[f].url] = [to |-> flow[f].from, issued |-> flow[f].issued]]
         /\ UNCHANGED pair

Stored(f) ==
    IF Pairing(f)
    THEN pair' = [pair EXCEPT ![flow[f].url] = flow[f].issued] /\ UNCHANGED fwd
    ELSE /\ fwd' = [fwd EXCEPT ![flow[f].url] = [to |-> flow[f].to, issued |-> flow[f].issued]]
         /\ UNCHANGED pair

\* A forwarding record needs a pair record at the same relay (412).
Taken(f) == Pairing(f) \/ pair[flow[f].url] > 0

PostAccepted(f) ==
    /\ Posting(f) /\ up[flow[f].url] /\ Taken(f) /\ Newer(f)
    /\ Stored(f)
    /\ missed' = missed \ {flow[f].url}
    /\ Step(f, Posted(f))
    /\ UNCHANGED <<slot, linked, primary, advertised, ratchet, up, present, senderVars, moves, overlapped, talks, misses>>

\* 409: observe_external_watermark, a new issued_at_ms, and one more try.
Reissue(f, seen) ==
    LET next == (IF seen > ratchet THEN seen ELSE ratchet) + 1 IN
    /\ ratchet' = next
    /\ flow' = [flow EXCEPT ![f].issued = next, ![f].at = IF Pairing(f) THEN "repost" ELSE "frepost"]

PostTooOld(f) ==
    /\ flow[f].at \in {"post", "fpost"} /\ up[flow[f].url] /\ Taken(f) /\ ~Newer(f)
    /\ Reissue(f, Watermark(f))
    /\ UNCHANGED <<slot, linked, primary, advertised, homeRelayVars, senderVars, countVars>>

\* The record was stored, the answer was lost, and the retry of the same POST is a 409.
PostUnanswered(f) ==
    /\ flow[f].at \in {"post", "fpost"} /\ up[flow[f].url] /\ Taken(f) /\ Newer(f) /\ Miss
    /\ Stored(f)
    /\ Reissue(f, flow[f].issued)
    /\ UNCHANGED <<slot, linked, primary, advertised, up, present, senderVars, missed,
                   moves, overlapped, talks>>

\* 412, a relay that does not answer, another failure, or a second 409: logged.
PostFails(f) ==
    /\ Posting(f)
    /\ \/ ~up[flow[f].url] /\ UNCHANGED misses
       \/ up[flow[f].url] /\ ~Taken(f) /\ UNCHANGED misses
       \/ up[flow[f].url] /\ Taken(f) /\ flow[f].at \in {"repost", "frepost"} /\ ~Newer(f) /\ UNCHANGED misses
       \/ up[flow[f].url] /\ Miss
    /\ missed' = missed \cup {flow[f].url}
    /\ Step(f, Posted(f))
    /\ UNCHANGED <<slot, linked, primary, advertised, ratchet, homeRelayVars, senderVars, moves, overlapped, talks>>

\* The filter over the advertised list: all but x, in their order.
Kept(list, r, x) == IF r = x THEN list ELSE Append(list, r)
Without(q, x) ==
    LET kept[n \in 0..Len(q)] == IF n = 0 THEN << >> ELSE Kept(kept[n - 1], q[n], x)
    IN  kept[Len(q)]

\* The advertised list: a failover prunes the dead relay unless it is the only one, a
\* migration puts the new relay in the old one's place.
Relisted(f) ==
    LET pruned == Without(advertised, flow[f].from) IN
    CASE flow[f].kind = "failover" -> IF pruned = << >> THEN advertised ELSE pruned
      [] flow[f].kind = "migrate" ->
            [i \in DOMAIN advertised |-> IF advertised[i] = flow[f].from THEN flow[f].to ELSE advertised[i]]
      [] OTHER -> advertised

\* regenerate_card_with_relays may refuse the list, which is only logged.
Finish(f) ==
    /\ FlowAt(f, "finish")
    /\ \/ advertised' = Relisted(f) /\ UNCHANGED misses
       \/ UNCHANGED advertised /\ Miss
    /\ flow' = [flow EXCEPT ![f] = NoFlow]
    /\ UNCHANGED <<slot, linked, primary, ratchet, homeRelayVars, senderVars, missed, overlapped,
                   moves, talks>>

-----------------------------------------------------------------------------
(* Links and relays. *)

LinkLost ==
    /\ linked /\ Miss
    /\ linked' = FALSE
    /\ UNCHANGED <<slot, primary, advertised, ratchet, flow, homeRelayVars, senderVars, missed,
                   moves, overlapped, talks>>

\* The relay client reconnects slot 0 on its own.
Relink ==
    /\ ~linked /\ up[slot]
    /\ linked' = TRUE /\ present' = present \cup {slot}
    /\ UNCHANGED <<slot, primary, advertised, ratchet, flow, up, pair, fwd, senderVars, countVars>>

\* A relay notices that a connection is gone.
SessionEnds(r) ==
    /\ r \in present /\ ~(r = slot /\ linked)
    /\ present' = present \ {r}
    /\ UNCHANGED <<ownerVars, up, pair, fwd, senderVars, countVars>>

RelayStops(r) ==
    /\ up[r] /\ Miss
    /\ up' = [up EXCEPT ![r] = FALSE]
    /\ present' = present \ {r}
    /\ linked' = (linked /\ slot # r)
    /\ UNCHANGED <<slot, primary, advertised, ratchet, flow, pair, fwd, senderVars, missed,
                   moves, overlapped, talks>>

\* Both indexes are in memory only.
RelayRestarts(r) ==
    /\ ~up[r]
    /\ up' = [up EXCEPT ![r] = TRUE]
    /\ pair' = [pair EXCEPT ![r] = 0] /\ fwd' = [fwd EXCEPT ![r] = NoForward]
    /\ missed' = missed \cup {r}
    /\ UNCHANGED <<ownerVars, present, senderVars, moves, overlapped, talks, misses>>

\* sweep_expired of either index.
RecordExpires(r) ==
    /\ Miss
    /\ \/ pair[r] > 0 /\ pair' = [pair EXCEPT ![r] = 0] /\ UNCHANGED fwd
       \/ fwd[r].issued > 0 /\ fwd' = [fwd EXCEPT ![r] = NoForward] /\ UNCHANGED pair
    /\ missed' = missed \cup {r}
    /\ UNCHANGED <<ownerVars, up, present, senderVars, moves, overlapped, talks>>

-----------------------------------------------------------------------------
(* The sender: deposit_with_reresolve, retried by its outbox. *)

\* handle_send: a registered session or no live departure, and the deposit is kept.
Accepts(r) == up[r] /\ (r \in present \/ ~Departed(r))

\* The user sends a message.
Compose ==
    /\ sender.at = "idle" /\ sender' = [sender EXCEPT !.at = "first"]
    /\ UNCHANGED <<ownerVars, homeRelayVars, card, mail, hints, countVars>>

\* The relay the attempt is at: the card's, or the one the forwarding record named.
Deposit ==
    /\ mail = Nowhere /\ sender.at \in {"first", "second"}
    /\ LET r == IF sender.at = "first" THEN card.relay ELSE sender.url IN
       IF Accepts(r)
       THEN mail' = r /\ UNCHANGED sender
       ELSE /\ sender' = IF sender.at = "first" THEN [at |-> "resolve", url |-> r]
                         ELSE [at |-> "first", url |-> Nowhere]
            /\ UNCHANGED mail
    /\ UNCHANGED <<ownerVars, homeRelayVars, card, hints, countVars>>

\* apply_relay_hint: only a strictly newer statement moves the card.
ApplyHint(r, epoch) == epoch > card.epoch /\ card' = [relay |-> r, epoch |-> epoch]

\* The forwarding record of the relay that failed, if there is one and it is news.
Resolve ==
    /\ mail = Nowhere /\ sender.at = "resolve"
    /\ LET r == sender.url IN
       \/ /\ up[r] /\ Departed(r) /\ ApplyHint(fwd[r].to, fwd[r].issued)
          /\ sender' = [at |-> "second", url |-> fwd[r].to]
       \/ /\ ~(up[r] /\ Departed(r) /\ fwd[r].issued > card.epoch)
          /\ sender' = [at |-> "first", url |-> Nowhere]
          /\ UNCHANGED card
    /\ UNCHANGED <<ownerVars, homeRelayVars, mail, hints, countVars>>

\* The agent sends a message with its primary and the watermark it has reached.
OwnerTalks ==
    /\ talks < MaxTalks /\ talks' = talks + 1
    /\ hints' = hints \cup {[relay |-> primary, epoch |-> ratchet]}
    /\ UNCHANGED <<ownerVars, homeRelayVars, card, sender, mail, missed, moves, overlapped, misses>>

\* It arrives, late or out of order, and moves the card if it is news.
SenderHears(h) ==
    /\ hints' = hints \ {h}
    /\ \/ ApplyHint(h.relay, h.epoch)
       \/ h.epoch <= card.epoch /\ UNCHANGED card
    /\ UNCHANGED <<ownerVars, homeRelayVars, sender, mail, countVars>>

-----------------------------------------------------------------------------
HomingInit ==
    /\ slot = FirstHome /\ linked = TRUE /\ primary = FirstHome /\ advertised = Advertised
    /\ ratchet = 1
    /\ flow = [f \in Flow |-> NoFlow]
    /\ up = [r \in Relay |-> TRUE]
    /\ pair = [r \in Relay |-> IF r = FirstHome THEN 1 ELSE 0]
    /\ fwd = [r \in Relay |-> NoForward]
    /\ present = {FirstHome}
    /\ card = [relay |-> FirstHome, epoch |-> 1]
    /\ sender = [at |-> "idle", url |-> Nowhere] /\ mail = Nowhere /\ hints = {}
    /\ missed = {} /\ overlapped = FALSE /\ moves = 0 /\ talks = 0 /\ misses = 0

HomingNext ==
    \/ \E f \in Flow :
          \/ StartMigrate(f) \/ StartReconnect(f) \/ StartFailover(f)
          \/ Swap(f) \/ SwapFails(f) \/ Point(f) \/ Issue(f)
          \/ PostAccepted(f) \/ PostTooOld(f) \/ PostUnanswered(f) \/ PostFails(f) \/ Finish(f)
    \/ LinkLost \/ Relink
    \/ \E r \in Relay : SessionEnds(r) \/ RelayStops(r) \/ RelayRestarts(r) \/ RecordExpires(r)
    \/ Compose \/ Deposit \/ Resolve \/ OwnerTalks
    \/ \E h \in hints : SenderHears(h)

\* The steps of a flow after the swap: every request in them has a timeout.
FlowGoesOn ==
    \E f \in Flow : \/ Point(f) \/ Issue(f) \/ PostAccepted(f) \/ PostTooOld(f) \/ PostFails(f)
                    \/ Finish(f)

\* The sender's outbox retries, the agent's relay client reconnects, and a flow that has
\* swapped ends; nothing is promised of the network, the relays or the hints.
HomingFairness ==
    /\ WF_homingVars(Deposit) /\ WF_homingVars(Resolve) /\ WF_homingVars(Relink)
    /\ WF_homingVars(FlowGoesOn)

HomingSpec == HomingInit /\ [][HomingNext]_homingVars /\ HomingFairness

-----------------------------------------------------------------------------
(* Properties. *)

\* Every variable holds a value of its kind.
HomingTypeOK ==
    /\ slot \in Relay /\ primary \in Relay /\ linked \in BOOLEAN
    /\ advertised \in Seq(Relay) /\ ratchet \in Nat
    /\ up \in [Relay -> BOOLEAN] /\ pair \in [Relay -> Nat]
    /\ fwd \in [Relay -> [to : Relay \cup {Nowhere}, issued : Nat]]
    /\ present \in SUBSET Relay /\ missed \in SUBSET Relay
    /\ card.relay \in Relay /\ card.epoch \in 1..ratchet
    /\ mail \in Relay \cup {Nowhere}

\* Once no flow runs, the relay the agent advertises in its pair record and in-band hints
\* is the one it is connected to (client.rs migrate_primary, failover_to_next_relay), and
\* that relay keeps mail for it while it is offline, however often it left and came back:
\* its newest statement there is the pair record (get_live_unsuperseded).  Flows that
\* overlapped are the exception: they share no lock (see PrimaryFollowsSlot).
HomeTakesMail ==
    Quiet /\ ~overlapped => slot = primary /\ (slot \notin missed => ~Departed(slot))

\* After a migration no relay the agent left takes mail for it, except from a session
\* the relay has not yet ended (ws.rs handle_send): nothing is stored where nobody reads.
\* Flows that overlapped are the exception here too.
NoBlackHole ==
    [][mail' # mail /\ mail' # slot /\ Quiet /\ ~overlapped /\ mail' \notin missed
            => mail' \in present]_homingVars

\* "Slot 0 is now new_url.  Point the live primary at it" (client.rs migrate_primary): when
\* the flows have ended, primary_relay_url is slot 0's relay, whatever ran at once.
PrimaryFollowsSlot == Quiet => slot = primary

\* A sender that keeps trying gets its message accepted, however far behind its card is,
\* unless the relay its card names stays down or stays without the agent's newest record,
\* or flows overlapped: the forwarding records of two of them may name each other's relay.
SenderFinds ==
    <>[](sender.at # "idle" /\ mail = Nowhere) =>
        <>[](~up[card.relay] \/ card.relay \in missed \/ overlapped)
=============================================================================
