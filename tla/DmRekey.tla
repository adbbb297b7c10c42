------------------------------- MODULE DmRekey -------------------------------
(***************************************************************************)
(* The keys of one direct conversation, on the devices at its two ends.    *)
(*                                                                         *)
(* Each device keeps an epoch and a key, rotates them on its own (the      *)
(* creator every seven days, either one when it finds the conversation     *)
(* wedged) and announces the new key in a Welcome; a Welcome of a higher   *)
(* epoch replaces the receiver's key, any other is ignored.  Nobody        *)
(* coordinates: a rotation is read, built and committed in separate steps, *)
(* a Welcome may be late or lost, and both ends may rotate at once.        *)
(*                                                                         *)
(* A key is named by its epoch and the device that made it, which never    *)
(* makes two for one epoch.                                                *)
(***************************************************************************)
EXTENDS Naturals, FiniteSets

CONSTANTS
    Creator,     \* the device that opened the conversation: its Admin
    Joiner,      \* the other one
    HigherId,    \* the one of the two with the higher agent id
    MaxJump,     \* MAX_FORCED_EPOCH_JUMP
    Mobiles,     \* the sets of devices whose shell triggers recovery on a bad frame
    MaxEpoch,    \* bound: no rotation past this epoch
    MaxAutos,    \* bound: scheduled rotations
    MaxMishaps   \* bound: Welcomes lost or slower than the cooldown, failed builds

Device == {Creator, Joiner}
Other(d) == IF d = Creator THEN Joiner ELSE Creator

ASSUME DmAssumption ==
    /\ Creator # Joiner /\ HigherId \in Device /\ Mobiles \subseteq SUBSET Device
    /\ MaxEpoch \in Nat /\ MaxAutos \in Nat /\ MaxMishaps \in Nat
    /\ MaxJump \in Nat /\ MaxJump >= 3   \* 16 in the code

VARIABLES
    conv,       \* the conversation as each device stores it
    stuck,      \* inbound frames reach the device and the last one did not open; the
                \* peer keeps talking, so the signal stays recent
    cooled,     \* no forced rotation within LADDER_COOLDOWN_MS
    recovery,   \* GroupStatusMap for this conversation
    forced,     \* the forced rotation under way on each device
    auto,       \* the scheduled rotation under way on the creator
    frames,     \* the message each device has to receive next, if any
    welcomes,   \* Welcomes on their way
    mobile,     \* the devices with a reactive shell in this behaviour
    autoEpochs, \* history: the epochs scheduled rotations made
    mishaps

dmVars == <<conv, stuck, cooled, recovery, forced, auto, frames, welcomes, mobile, autoEpochs,
            mishaps>>

-----------------------------------------------------------------------------
(* Data. *)

Keys(c) == c.prior \cup {[epoch |-> c.epoch, by |-> c.by]}
KeyNow(d) == [epoch |-> conv[d].epoch, by |-> conv[d].by]
Welcome(d, k) == [to |-> d, key |-> k]

NoFrame == [epoch |-> 0, by |-> "none"]
NoJob == [at |-> "idle", snap |-> 0, target |-> 0]

\* Something goes wrong that the code leaves to a later rotation.
Mishap == mishaps < MaxMishaps /\ mishaps' = mishaps + 1

\* advance_epoch_to: the outgoing key is kept under the epoch it served.
Advanced(c, epoch, by) ==
    [c EXCEPT !.prior = Keys(c), !.epoch = epoch, !.by = by]

-----------------------------------------------------------------------------
(* Messages and the wedge clocks. *)

\* A message or receipt, sealed under the sender's current key: one on its way at a time.
Talk(d) ==
    /\ \A e \in Device : frames[e] = NoFrame
    /\ frames' = [frames EXCEPT ![Other(d)] = KeyNow(d)]
    /\ UNCHANGED <<conv, stuck, cooled, recovery, forced, auto, welcomes, mobile, autoEpochs,
                   mishaps>>

\* key_for_epoch finds the key and aead_open succeeds: note_wedge_progress.
Opens(d) ==
    /\ frames[d] # NoFrame /\ frames[d] \in Keys(conv[d])
    /\ conv' = [conv EXCEPT ![d].progress = conv[d].epoch]
    /\ stuck' = [stuck EXCEPT ![d] = FALSE]
    /\ frames' = [frames EXCEPT ![d] = NoFrame]
    /\ UNCHANGED <<cooled, recovery, forced, auto, welcomes, mobile, autoEpochs, mishaps>>

\* note_wedge_inbound: the clock always, the peer's epoch only when it is ahead of ours.
NoteInbound(d, epoch) ==
    /\ stuck' = [stuck EXCEPT ![d] = TRUE]
    /\ conv' = [conv EXCEPT ![d].stale = IF epoch > conv[d].epoch /\ epoch > @ THEN epoch ELSE @]

\* trigger_group_recovery for a direct conversation: the status flips, and one ladder
\* attempt starts if none runs and the cooldown has passed.
Triggered(d) ==
    IF d \in mobile
    THEN /\ recovery' = [recovery EXCEPT ![d] = "reconnecting"]
         /\ IF forced[d] = NoJob /\ cooled[d]
            THEN /\ forced' = [forced EXCEPT ![d].at = "refresh"]
                 /\ cooled' = [cooled EXCEPT ![d] = FALSE]
            ELSE UNCHANGED <<forced, cooled>>
    ELSE UNCHANGED <<recovery, forced, cooled>>

\* No key for the frame's epoch: StaleEpoch.  The relay keeps the frame for a later connect;
\* the next message under the same key stands for its redelivery.
Stale(d) ==
    /\ frames[d] # NoFrame /\ \A k \in Keys(conv[d]) : k.epoch # frames[d].epoch
    /\ NoteInbound(d, frames[d].epoch) /\ Triggered(d)
    /\ frames' = [frames EXCEPT ![d] = NoFrame]
    /\ UNCHANGED <<auto, welcomes, mobile, autoEpochs, mishaps>>

\* A key for the epoch, and another one than the sender's: AeadOpenFailed, which is final
\* for the frame.
FailsToOpen(d) ==
    /\ frames[d] # NoFrame /\ frames[d] \notin Keys(conv[d])
    /\ \E k \in Keys(conv[d]) : k.epoch = frames[d].epoch
    /\ NoteInbound(d, frames[d].epoch) /\ Triggered(d)
    /\ frames' = [frames EXCEPT ![d] = NoFrame]
    /\ UNCHANGED <<auto, welcomes, mobile, autoEpochs, mishaps>>

\* PRIOR_KEY_WINDOW_MS passes.
PriorsLapse(d) ==
    /\ conv[d].prior # {}
    /\ conv' = [conv EXCEPT ![d].prior = {}]
    /\ UNCHANGED <<stuck, cooled, recovery, forced, auto, frames, welcomes, mobile, autoEpochs,
                   mishaps>>

\* LADDER_COOLDOWN_MS passes.  Ten minutes are longer than a Welcome takes, or it counts
\* as slow.
CoolsDown(d) ==
    /\ ~cooled[d] /\ forced[d] = NoJob
    /\ IF welcomes = {} THEN UNCHANGED mishaps ELSE Mishap
    /\ cooled' = [cooled EXCEPT ![d] = TRUE]
    /\ UNCHANGED <<conv, stuck, recovery, forced, auto, frames, welcomes, mobile, autoEpochs>>

-----------------------------------------------------------------------------
(* The forced rotation: the watchdog's or the shell's, through force_rekey_dm. *)

\* wedge_should_trip: frames come, none opens, and the epoch did not move since the last
\* one that did.
Trips(d) == stuck[d] /\ conv[d].epoch <= conv[d].progress

\* wedge_watchdog_once.  A conversation shown as reconnecting is skipped.
WatchdogForces(d) ==
    /\ Trips(d) /\ recovery[d] = "live" /\ cooled[d] /\ forced[d] = NoJob
    /\ forced' = [forced EXCEPT ![d].at = "refresh"]
    /\ cooled' = [cooled EXCEPT ![d] = FALSE]
    /\ UNCHANGED <<conv, stuck, recovery, auto, frames, welcomes, mobile, autoEpochs, mishaps>>

Lower(m, n) == IF m < n THEN m ELSE n
Higher(m, n) == IF m > n THEN m ELSE n

\* Both ends claim the epoch after the floor.
TargetWithoutTiebreak(d) ==
    LET c == conv[d] IN Higher(Lower(c.stale, c.epoch + MaxJump), c.epoch) + 1

\* The epoch after the highest one the peer was seen at, within the jump; the higher agent
\* id claims one more, so that two ends with one floor do not tie.
ForcedTarget(d) ==
    LET c == conv[d]
        floor == Higher(Lower(c.stale, c.epoch + MaxJump), c.epoch)
    IN  floor + 1 + (IF d = HigherId THEN 1 ELSE 0)

\* The snapshot is read after the roster refresh; the Welcomes are built from it.
Snapshot(d) ==
    /\ forced[d].at = "refresh" /\ ForcedTarget(d) <= MaxEpoch
    /\ forced' = [forced EXCEPT ![d] =
                     [at |-> "built", snap |-> conv[d].epoch, target |-> ForcedTarget(d)]]
    /\ UNCHANGED <<conv, stuck, cooled, recovery, auto, frames, welcomes, mobile, autoEpochs,
                   mishaps>>

\* The wedge clocks stay behind the epoch the ladder just made.
CommitForcedUnmarked(d) ==
    /\ forced[d].at = "built" /\ forced' = [forced EXCEPT ![d] = NoJob]
    /\ IF conv[d].epoch = forced[d].snap
       THEN /\ conv' = [conv EXCEPT ![d] = [Advanced(@, forced[d].target, d) EXCEPT !.stale = 0]]
            /\ welcomes' = welcomes \cup
                  {Welcome(Other(d), [epoch |-> forced[d].target, by |-> d])}
       ELSE UNCHANGED <<conv, welcomes>>
    /\ UNCHANGED <<stuck, cooled, recovery, auto, frames, mobile, autoEpochs, mishaps>>

\* The commit: only if nothing moved the epoch since the snapshot.  The wedge clocks start
\* over at the new epoch, and the Welcome goes out.
CommitForced(d) ==
    /\ forced[d].at = "built" /\ forced' = [forced EXCEPT ![d] = NoJob]
    /\ IF conv[d].epoch = forced[d].snap
       THEN /\ conv' = [conv EXCEPT ![d] =
                  [Advanced(@, forced[d].target, d) EXCEPT !.progress = forced[d].target,
                                                           !.stale = 0]]
            /\ welcomes' = welcomes \cup
                  {Welcome(Other(d), [epoch |-> forced[d].target, by |-> d])}
       ELSE UNCHANGED <<conv, welcomes>>
    /\ UNCHANGED <<stuck, cooled, recovery, auto, frames, mobile, autoEpochs, mishaps>>

\* The Welcomes cannot be built, or the vault refuses the commit: nothing has changed.
ForcedFails(d) ==
    /\ forced[d].at # "idle" /\ Mishap
    /\ forced' = [forced EXCEPT ![d] = NoJob]
    /\ UNCHANGED <<conv, stuck, cooled, recovery, auto, frames, welcomes, mobile, autoEpochs>>

-----------------------------------------------------------------------------
(* The scheduled rotation: sweep_auto_rekey, for the Admin's own conversations. *)

\* auto_rekey_due: a week after the creator's last rotation.  A Welcome that is still on its
\* way to the joiner by then counts as slow.
AutoBegins ==
    /\ auto = NoJob /\ Cardinality(autoEpochs) < MaxAutos /\ conv[Creator].epoch < MaxEpoch
    /\ auto' = [at |-> "built", snap |-> conv[Creator].epoch, target |-> conv[Creator].epoch + 1]
    /\ IF \E w \in welcomes : w.to = Joiner THEN Mishap ELSE UNCHANGED mishaps
    /\ UNCHANGED <<conv, stuck, cooled, recovery, forced, frames, welcomes, mobile, autoEpochs>>

CommitAuto ==
    /\ auto.at = "built" /\ auto' = NoJob
    /\ IF conv[Creator].epoch = auto.snap
       THEN /\ conv' = [conv EXCEPT ![Creator] = Advanced(@, auto.target, Creator)]
            /\ welcomes' = welcomes \cup {Welcome(Joiner, [epoch |-> auto.target, by |-> Creator])}
            /\ autoEpochs' = autoEpochs \cup {auto.target}
       ELSE UNCHANGED <<conv, welcomes, autoEpochs>>
    /\ UNCHANGED <<stuck, cooled, recovery, forced, frames, mobile, mishaps>>

-----------------------------------------------------------------------------
(* Welcomes: install_or_rekey_conversation, and the ways they are lost. *)

\* A higher epoch wins; the wedge clocks are left as they are.
TakeWelcome(w) ==
    /\ w \in welcomes /\ welcomes' = welcomes \ {w}
    /\ conv' = IF w.key.epoch > conv[w.to].epoch
               THEN [conv EXCEPT ![w.to] = Advanced(@, w.key.epoch, w.key.by)]
               ELSE conv
    /\ UNCHANGED <<stuck, cooled, recovery, forced, auto, frames, mobile, autoEpochs, mishaps>>

\* The send failed, the sender died before it, the relay dropped it, or it was sealed to a
\* key the receiver no longer has.
LoseWelcome(w) ==
    /\ w \in welcomes /\ welcomes' = welcomes \ {w} /\ Mishap
    /\ UNCHANGED <<conv, stuck, cooled, recovery, forced, auto, frames, mobile, autoEpochs>>

-----------------------------------------------------------------------------
DmInit ==
    /\ conv = [d \in Device |-> [epoch |-> 0, by |-> Creator, prior |-> {}, progress |-> 0,
                                 stale |-> 0]]
    /\ stuck = [d \in Device |-> FALSE] /\ cooled = [d \in Device |-> TRUE]
    /\ recovery = [d \in Device |-> "live"]
    /\ forced = [d \in Device |-> NoJob] /\ auto = NoJob
    /\ frames = [d \in Device |-> NoFrame] /\ welcomes = {}
    /\ mobile \in Mobiles
    /\ autoEpochs = {} /\ mishaps = 0

DmNext ==
    \/ \E d \in Device :
          \/ Talk(d) \/ Opens(d) \/ Stale(d) \/ FailsToOpen(d)
          \/ PriorsLapse(d) \/ CoolsDown(d)
          \/ WatchdogForces(d) \/ Snapshot(d) \/ CommitForced(d) \/ ForcedFails(d)
    \/ AutoBegins \/ CommitAuto
    \/ \E w \in welcomes : TakeWelcome(w) \/ LoseWelcome(w)

\* Both ends keep talking, frames and Welcomes arrive, clocks pass, tasks run.
DmFairness ==
    /\ \A d \in Device :
          /\ SF_dmVars(Talk(d)) /\ WF_dmVars(Opens(d) \/ Stale(d) \/ FailsToOpen(d))
          /\ WF_dmVars(PriorsLapse(d)) /\ WF_dmVars(CoolsDown(d))
          /\ WF_dmVars(WatchdogForces(d)) /\ WF_dmVars(Snapshot(d) \/ CommitForced(d))
    /\ WF_dmVars(CommitAuto)
    /\ \A d \in Device : WF_dmVars(\E w \in welcomes : w.to = d /\ TakeWelcome(w))

DmSpec == DmInit /\ [][DmNext]_dmVars /\ DmFairness

-----------------------------------------------------------------------------
(* Properties. *)

Key == [epoch: 0..MaxEpoch, by: Device]
Rotation == [at: {"idle", "refresh", "built"}, snap: 0..MaxEpoch, target: 0..MaxEpoch]

\* Every variable holds a value of its kind.
DmTypeOK ==
    /\ conv \in [Device -> [epoch: 0..MaxEpoch, by: Device, prior: SUBSET Key,
                            progress: 0..MaxEpoch, stale: 0..MaxEpoch]]
    /\ stuck \in [Device -> BOOLEAN] /\ cooled \in [Device -> BOOLEAN]
    /\ recovery \in [Device -> {"live", "reconnecting"}]
    /\ forced \in [Device -> Rotation] /\ auto \in Rotation
    /\ frames \in [Device -> Key \cup {NoFrame}]
    /\ welcomes \in SUBSET [to: Device, key: Key]
    /\ mobile \in Mobiles /\ autoEpochs \in SUBSET (1..MaxEpoch) /\ mishaps \in 0..MaxMishaps

Agree == KeyNow(Creator) = KeyNow(Joiner)
Settled == welcomes = {} /\ auto = NoJob /\ \A d \in Device : forced[d].at # "built"

\* A scheduled rotation made this epoch, or the one before it.
Scheduled(e) == \E x \in autoEpochs : e \in {x, x + 1}

\* When no Welcome was lost or late and no rotation is under way, both ends hold the same
\* key, however their rotations overlapped.  The tiebreak leaves two collisions, both with
\* a scheduled rotation: it met a forced one at the same epoch, or it moved one end by the
\* very step that the tiebreak adds at the other.
SettledAgrees ==
    (Settled /\ mishaps = 0) =>
        Agree \/ (conv[Creator].epoch = conv[Joiner].epoch /\ Scheduled(conv[Creator].epoch))

\* A conversation whose ends disagree heals, whatever was lost, unless the epoch of each
\* end moved by a Welcome or on schedule since its last decrypt and no shell triggers
\* recovery: the watchdog takes such a move for progress and vetoes itself on both.
Vetoed(d) ==
    /\ conv[d].epoch > conv[d].progress /\ d \notin mobile
    /\ conv[d].by # d \/ conv[d].epoch \in autoEpochs
AtBound == \E d \in Device : forced[d].at = "refresh" /\ ForcedTarget(d) > MaxEpoch
Heals == []<>Agree \/ <>[](\A d \in Device : Vetoed(d)) \/ <>[]AtBound
=============================================================================
