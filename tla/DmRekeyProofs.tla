---------------------------- MODULE DmRekeyProofs ----------------------------
(***************************************************************************)
(* What TLAPS proves of the re-keying of a direct conversation: for every  *)
(* number of rotations, every epoch and every interleaving, the two ends   *)
(* hold one key once their Welcomes have arrived.                          *)
(*                                                                         *)
(* The argument follows the tiebreak.  Two forced rotations that start     *)
(* from what the ends know of each other claim different epochs: the       *)
(* lower id claims the epoch after its floor, the higher id two after.     *)
(* What has to be shown is that the floors cannot differ by exactly that   *)
(* one epoch, unless a scheduled rotation moved one of them.               *)
(*                                                                         *)
(* The composition with the recovery of group epochs is proved here too:   *)
(* each of its behaviours is one of each part's specification.             *)
(***************************************************************************)
EXTENDS RepairViews, GroupRecoveryProofs, Integers, TLAPS

LowId == Other(HigherId)

Epoch(d) == conv[d].epoch
Leads(d) == Epoch(d) > Epoch(Other(d))

\* The device has made its one forced rotation and waits for the cooldown.
Spent(d) == forced[d] = NoJob /\ ~cooled[d]

\* The forced rotation of d will be committed unless a Welcome comes first.
Valid(d) == forced[d].at = "built" /\ forced[d].snap = Epoch(d)

Bonus(d) == IF d = HigherId THEN 1 ELSE 0
Floor(d) == forced[d].target - 1 - Bonus(d)

-----------------------------------------------------------------------------
(* The inductive invariant, in parts. *)

\* A Welcome carries a key of its sender, which has not gone back since.
WelcomeInv ==
    \A w \in welcomes :
        /\ w.key.by = Other(w.to) /\ w.key.epoch <= Epoch(Other(w.to))
        /\ w.key.epoch = Epoch(Other(w.to)) => conv[Other(w.to)].by = Other(w.to)

\* What a device knows of its peer's epoch, the peer has reached.
SeenInv ==
    \A d \in Device : conv[d].stale <= Epoch(Other(d)) /\ frames[d].epoch <= Epoch(Other(d))

\* A rotation under way took its snapshot earlier, and its floor is no higher than one of
\* the two ends.
JobInv ==
    /\ \A x \in autoEpochs : x <= Epoch(Creator)
    /\ auto.at = "built" => auto.target = auto.snap + 1 /\ auto.snap <= Epoch(Creator)
    /\ \A d \in Device :
          /\ forced[d] # NoJob => ~cooled[d]
          /\ forced[d].at = "built" => forced[d].snap <= Epoch(d)
          /\ Valid(d) => /\ Epoch(d) <= Floor(d)
                         /\ Floor(d) <= Epoch(d) \/ Floor(d) <= Epoch(Other(d))

\* The device ahead made its key itself, and its Welcome is on the way.
PendInv ==
    \A d \in Device : Leads(d) => conv[d].by = d /\ Welcome(Other(d), KeyNow(d)) \in welcomes

\* A device gets ahead by a scheduled rotation or by its one forced rotation.
SpentInv == \A d \in Device : (Leads(d) /\ Epoch(d) \notin autoEpochs) => Spent(d)

\* A scheduled rotation leads by one epoch at most.
AutoInv ==
    /\ (auto.at = "built" /\ auto.snap = Epoch(Creator)) => auto.snap <= Epoch(Joiner)
    /\ (Leads(Creator) /\ Epoch(Creator) \in autoEpochs) => Epoch(Creator) <= Epoch(Joiner) + 1

\* A forced rotation of the lower id leads by one epoch at most.
LowLead == (Leads(LowId) /\ ~Scheduled(Epoch(LowId))) => Epoch(LowId) <= Epoch(HigherId) + 1

\* A forced rotation of the higher id leads by three at most, and nothing lets the lower
\* id take the epoch before it for its floor.
HighLead ==
    (Leads(HigherId) /\ ~Scheduled(Epoch(HigherId))) =>
        /\ Epoch(HigherId) >= 2 /\ Epoch(HigherId) <= Epoch(LowId) + 3
        /\ Epoch(LowId) = Epoch(HigherId) - 1 => Spent(LowId)
        /\ conv[LowId].stale # Epoch(HigherId) - 1 /\ frames[LowId].epoch # Epoch(HigherId) - 1
        /\ \A w \in welcomes : w.to = LowId => w.key.epoch # Epoch(HigherId) - 1

\* Neither the epochs the ends are at nor the ones they are about to claim collide, but
\* for a scheduled rotation.
TieNow == Epoch(Creator) = Epoch(Joiner) => Agree \/ Scheduled(Epoch(Creator))
TieNext ==
    \A d \in Device :
        (Valid(d) /\ Leads(Other(d)) /\ Epoch(Other(d)) = forced[d].target) =>
            Scheduled(forced[d].target)
TieBoth ==
    (Valid(LowId) /\ Valid(HigherId) /\ forced[LowId].target = forced[HigherId].target) =>
        Scheduled(forced[LowId].target)

\* What holds while no Welcome was lost or late.
OnTime ==
    /\ PendInv /\ SpentInv /\ AutoInv /\ LowLead /\ HighLead
    /\ TieNow /\ TieNext /\ TieBoth

Always == DmTypeOK /\ WelcomeInv /\ SeenInv /\ JobInv
DmInv == Always /\ (mishaps = 0 => OnTime)

-----------------------------------------------------------------------------
(* The two devices, and the types of what they hold. *)

\* Each end has one other end, and one of the two ids is the higher.
LEMMA Ends ==
    /\ LowId \in Device /\ HigherId \in Device /\ LowId # HigherId
    /\ Other(LowId) = HigherId /\ Other(HigherId) = LowId
    /\ Creator \in Device /\ Joiner \in Device /\ Creator # Joiner
    /\ Other(Creator) = Joiner /\ Other(Joiner) = Creator
    /\ \A d \in Device : /\ Other(d) \in Device /\ Other(d) # d /\ Other(Other(d)) = d
                         /\ d = LowId \/ d = HigherId
                         /\ d = Creator \/ d = Joiner
BY DmAssumption DEF Device, Other, LowId

\* The parts of a typed state.
LEMMA DmTypes ==
    ASSUME DmTypeOK
    PROVE  /\ \A d \in Device :
                /\ conv[d].epoch \in 0..MaxEpoch /\ conv[d].epoch \in Nat /\ conv[d].by \in Device
                /\ conv[d].stale \in 0..MaxEpoch /\ conv[d].stale \in Nat
                /\ forced[d] \in Rotation /\ forced[d].snap \in Nat /\ forced[d].target \in Nat
                /\ frames[d] \in Key \cup {NoFrame} /\ frames[d].epoch \in 0..MaxEpoch
                /\ frames[d].epoch \in Nat /\ cooled[d] \in BOOLEAN
           /\ auto.snap \in Nat /\ auto.target \in Nat /\ mishaps \in Nat
           /\ \A x \in autoEpochs : x \in Nat
           /\ \A w \in welcomes : /\ w.to \in Device /\ w.key \in Key /\ w.key.epoch \in Nat
                                  /\ w = Welcome(w.to, w.key)
<1>1. \A d \in Device : /\ conv[d].epoch \in 0..MaxEpoch /\ conv[d].by \in Device
                        /\ conv[d].stale \in 0..MaxEpoch
                        /\ forced[d] \in Rotation /\ cooled[d] \in BOOLEAN
  BY DEF DmTypeOK
<1>2. \A d \in Device : frames[d] \in Key \cup {NoFrame}
  BY DEF DmTypeOK
<1>3. \A d \in Device : frames[d].epoch \in 0..MaxEpoch
  BY <1>2, DmAssumption DEF Key, NoFrame
<1>4. \A d \in Device : forced[d].snap \in Nat /\ forced[d].target \in Nat
  BY <1>1, DmAssumption DEF Rotation
<1>5. auto.snap \in Nat /\ auto.target \in Nat /\ mishaps \in Nat /\ \A x \in autoEpochs : x \in Nat
  BY DmAssumption DEF DmTypeOK, Rotation
<1>6. \A w \in welcomes : /\ w.to \in Device /\ w.key \in Key
                          /\ w = Welcome(w.to, w.key)
  BY DEF DmTypeOK, Welcome
<1>7. \A w \in welcomes : w.key.epoch \in Nat
  BY <1>6, DmAssumption DEF Key
<1>8. \A d \in Device : conv[d].epoch \in Nat /\ conv[d].stale \in Nat /\ frames[d].epoch \in Nat
  BY <1>1, <1>3, DmAssumption
<1> QED BY <1>1, <1>2, <1>3, <1>4, <1>5, <1>6, <1>7, <1>8

-----------------------------------------------------------------------------
(* Types. *)

\* A key a device holds is a key.
LEMMA KeysTyped ==
    ASSUME DmTypeOK, NEW d \in Device
    PROVE  Keys(conv[d]) \subseteq Key /\ KeyNow(d) \in Key
BY DEF DmTypeOK, Keys, KeyNow, Key

ConvType == [epoch: 0..MaxEpoch, by: Device, prior: SUBSET Key, progress: 0..MaxEpoch,
             stale: 0..MaxEpoch]

\* An advanced conversation is one.
LEMMA AdvancedTyped ==
    ASSUME DmTypeOK, NEW d \in Device, NEW n \in 0..MaxEpoch, NEW by \in Device
    PROVE  /\ Advanced(conv[d], n, by) \in ConvType
           /\ [Advanced(conv[d], n, by) EXCEPT !.progress = n, !.stale = 0] \in ConvType
           /\ Advanced(conv[d], n, by).epoch = n /\ Advanced(conv[d], n, by).by = by
           /\ Advanced(conv[d], n, by).stale = conv[d].stale
<1>1. Keys(conv[d]) \in SUBSET Key  BY KeysTyped
<1>2. conv[d] \in ConvType  BY DEF DmTypeOK, ConvType
<1>3. 0 \in 0..MaxEpoch  BY DmAssumption
<1> QED BY <1>1, <1>2, <1>3 DEF Advanced, ConvType

\* The floor of a forced rotation lies between the device's epoch and what it knows of
\* the peer's.
LEMMA FloorBounds ==
    ASSUME DmTypeOK, NEW d \in Device
    PROVE  /\ ForcedTarget(d) \in Nat
           /\ conv[d].epoch <= ForcedTarget(d) - 1 - Bonus(d)
           /\ \/ ForcedTarget(d) - 1 - Bonus(d) = conv[d].epoch
              \/ ForcedTarget(d) - 1 - Bonus(d) = conv[d].stale
              \/ /\ ForcedTarget(d) - 1 - Bonus(d) = conv[d].epoch + MaxJump
                 /\ conv[d].epoch + MaxJump <= conv[d].stale
BY DmTypes, DmAssumption DEF ForcedTarget, Bonus, Higher, Lower

\* A bad frame: the conversation learns the peer's epoch at most, and recovery may start.
LEMMA BadFrame ==
    ASSUME DmTypeOK, NEW d \in Device, frames[d] # NoFrame,
           NoteInbound(d, frames[d].epoch), Triggered(d),
           frames' = [frames EXCEPT ![d] = NoFrame]
    PROVE  /\ conv' \in [Device -> [epoch: 0..MaxEpoch, by: Device, prior: SUBSET Key,
                                    progress: 0..MaxEpoch, stale: 0..MaxEpoch]]
           /\ stuck' \in [Device -> BOOLEAN] /\ cooled' \in [Device -> BOOLEAN]
           /\ recovery' \in [Device -> {"live", "reconnecting"}]
           /\ forced' \in [Device -> Rotation] /\ frames' \in [Device -> Key \cup {NoFrame}]
           /\ \A c \in Device :
                /\ conv'[c].epoch = conv[c].epoch /\ conv'[c].by = conv[c].by
                /\ conv'[c].stale \in {conv[c].stale, frames[c].epoch}
                /\ frames'[c] \in {frames[c], NoFrame}
                /\ \/ forced'[c] = forced[c] /\ cooled'[c] = cooled[c]
                   \/ /\ forced[c] = NoJob /\ cooled[c] /\ ~cooled'[c]
                      /\ forced'[c] = [NoJob EXCEPT !.at = "refresh"]
<1>1. frames[d].epoch \in 0..MaxEpoch  BY DmTypes
<1>2. conv' \in [Device -> [epoch: 0..MaxEpoch, by: Device, prior: SUBSET Key,
                            progress: 0..MaxEpoch, stale: 0..MaxEpoch]]
  <2> DEFINE n == IF frames[d].epoch > conv[d].epoch /\ frames[d].epoch > conv[d].stale
                  THEN frames[d].epoch ELSE conv[d].stale
  <2>1. n \in 0..MaxEpoch  BY <1>1, DmTypes
  <2>2. conv' = [conv EXCEPT ![d].stale = n]  BY DEF NoteInbound, DmTypeOK
  <2> HIDE DEF n
  <2> QED BY <2>1, <2>2 DEF DmTypeOK
<1>3. stuck' \in [Device -> BOOLEAN]  BY DEF DmTypeOK, NoteInbound
<1>4. cooled' \in [Device -> BOOLEAN] /\ recovery' \in [Device -> {"live", "reconnecting"}]
  BY DEF DmTypeOK, Triggered
<1>5. forced' \in [Device -> Rotation]
  BY DEF DmTypeOK, Triggered, Rotation
<1>6. frames' \in [Device -> Key \cup {NoFrame}]  BY DEF DmTypeOK
<1>7. \A c \in Device :
        /\ conv'[c].epoch = conv[c].epoch /\ conv'[c].by = conv[c].by
        /\ conv'[c].stale \in {conv[c].stale, frames[c].epoch}
  <2> TAKE c \in Device
  <2>1. CASE c = d
    <3>1. conv'[d] = [conv[d] EXCEPT !.stale =
                        IF frames[d].epoch > conv[d].epoch /\ frames[d].epoch > conv[d].stale
                        THEN frames[d].epoch ELSE conv[d].stale]
      BY DEF DmTypeOK, NoteInbound
    <3> QED BY <2>1, <3>1 DEF DmTypeOK
  <2>2. CASE c # d
    BY <2>2 DEF DmTypeOK, NoteInbound
  <2> QED BY <2>1, <2>2
<1>8. \A c \in Device : frames'[c] \in {frames[c], NoFrame}  BY DEF DmTypeOK
<1>9. ASSUME NEW c \in Device
      PROVE  \/ forced'[c] = forced[c] /\ cooled'[c] = cooled[c]
             \/ /\ forced[c] = NoJob /\ cooled[c] /\ ~cooled'[c]
                /\ forced'[c] = [NoJob EXCEPT !.at = "refresh"]
  BY DEF DmTypeOK, Triggered
<1> QED BY <1>2, <1>3, <1>4, <1>5, <1>6, <1>7, <1>8, <1>9

-----------------------------------------------------------------------------
(* Messages, clocks and the start of a forced rotation leave the keys alone. *)

\* Such a step changes at most what the ends know of each other, and starts at most a
\* rotation where none was running or cooling down.
Quiet ==
    /\ \A c \in Device :
          /\ conv'[c].epoch = conv[c].epoch /\ conv'[c].by = conv[c].by
          /\ conv'[c].stale \in {conv[c].stale, frames[c].epoch}
          /\ frames'[c] \in {frames[c], NoFrame, KeyNow(Other(c))}
          /\ \/ forced'[c] = forced[c] /\ cooled'[c] = cooled[c]
             \/ /\ forced[c] = NoJob /\ cooled[c] /\ ~cooled'[c]
                /\ forced'[c] = [NoJob EXCEPT !.at = "refresh"]
    /\ UNCHANGED <<auto, welcomes, autoEpochs, mishaps>>

\* A message is sent.
LEMMA TalkQuiet ==
    ASSUME DmTypeOK, NEW d \in Device, Talk(d)
    PROVE  DmTypeOK' /\ Quiet
<1>1. KeyNow(d) \in Key /\ Other(d) \in Device /\ Other(Other(d)) = d  BY KeysTyped, Ends
<1>2. frames' \in [Device -> Key \cup {NoFrame}]  BY <1>1 DEF Talk, DmTypeOK
<1>3. \A c \in Device : frames'[c] \in {frames[c], NoFrame, KeyNow(Other(c))}
  BY <1>1 DEF Talk, DmTypeOK
<1> QED BY <1>2, <1>3 DEF Talk, DmTypeOK, Quiet

\* A message opens.
LEMMA OpensQuiet ==
    ASSUME DmTypeOK, NEW d \in Device, Opens(d)
    PROVE  DmTypeOK' /\ Quiet
<1>1. conv[d].epoch \in 0..MaxEpoch  BY DmTypes
<1>2. DmTypeOK'
  <2>1. conv' = [conv EXCEPT ![d] = [@ EXCEPT !.progress = conv[d].epoch]]
    BY DEF Opens, DmTypeOK
  <2>2. [conv[d] EXCEPT !.progress = conv[d].epoch] \in
           [epoch: 0..MaxEpoch, by: Device, prior: SUBSET Key, progress: 0..MaxEpoch,
            stale: 0..MaxEpoch]
    BY <1>1 DEF DmTypeOK
  <2>3. conv' \in [Device -> [epoch: 0..MaxEpoch, by: Device, prior: SUBSET Key,
                             progress: 0..MaxEpoch, stale: 0..MaxEpoch]]
    BY <2>1, <2>2 DEF DmTypeOK
  <2>4. stuck' \in [Device -> BOOLEAN] /\ frames' \in [Device -> Key \cup {NoFrame}]
    BY DEF Opens, DmTypeOK
  <2>5. UNCHANGED <<cooled, recovery, forced, auto, welcomes, mobile, autoEpochs, mishaps>>
    BY DEF Opens
  <2> QED BY <2>3, <2>4, <2>5 DEF DmTypeOK
<1>3. \A c \in Device :
        conv'[c].epoch = conv[c].epoch /\ conv'[c].by = conv[c].by /\ conv'[c].stale = conv[c].stale
  BY DEF Opens, DmTypeOK
<1>4. \A c \in Device : frames'[c] \in {frames[c], NoFrame}
  BY DEF Opens, DmTypeOK
<1> QED BY <1>2, <1>3, <1>4 DEF Opens, Quiet

\* A message does not open, whatever the reason.
LEMMA BadQuiet ==
    ASSUME DmTypeOK, NEW d \in Device, Stale(d) \/ FailsToOpen(d)
    PROVE  DmTypeOK' /\ Quiet
<1>1. /\ frames[d] # NoFrame /\ NoteInbound(d, frames[d].epoch) /\ Triggered(d)
      /\ frames' = [frames EXCEPT ![d] = NoFrame]
      /\ UNCHANGED <<auto, welcomes, mobile, autoEpochs, mishaps>>
  BY DEF Stale, FailsToOpen
<1>2. DmTypeOK'  BY <1>1, BadFrame DEF DmTypeOK
<1> QED BY <1>1, <1>2, BadFrame DEF Quiet

\* The prior keys lapse.
LEMMA LapseQuiet ==
    ASSUME DmTypeOK, NEW d \in Device, PriorsLapse(d)
    PROVE  DmTypeOK' /\ Quiet
<1>1. DmTypeOK'
  BY DEF PriorsLapse, DmTypeOK
<1>2. \A c \in Device :
        conv'[c].epoch = conv[c].epoch /\ conv'[c].by = conv[c].by /\ conv'[c].stale = conv[c].stale
  BY DEF PriorsLapse, DmTypeOK
<1> QED BY <1>1, <1>2 DEF PriorsLapse, Quiet

\* The watchdog starts a forced rotation.
LEMMA WatchdogQuiet ==
    ASSUME DmTypeOK, NEW d \in Device, WatchdogForces(d)
    PROVE  DmTypeOK' /\ Quiet
<1>1. DmTypeOK'  BY DEF WatchdogForces, DmTypeOK, Rotation
<1>2. \A c \in Device :
          \/ forced'[c] = forced[c] /\ cooled'[c] = cooled[c]
          \/ /\ forced[c] = NoJob /\ cooled[c] /\ ~cooled'[c]
             /\ forced'[c] = [NoJob EXCEPT !.at = "refresh"]
  BY DEF WatchdogForces, DmTypeOK
<1> QED BY <1>1, <1>2 DEF WatchdogForces, Quiet

\* A quiet step keeps what always holds.
LEMMA QuietAlways ==
    ASSUME Always, DmTypeOK', Quiet
    PROVE  Always'
<1>1. WelcomeInv'  BY Ends, DmTypes DEF Always, Quiet, WelcomeInv, Epoch
<1>2. SeenInv'
  BY Ends, DmTypes DEF Always, Quiet, SeenInv, Epoch, NoFrame, KeyNow
<1>3. ASSUME NEW d \in Device
      PROVE  /\ forced'[d] # NoJob => ~cooled'[d]
             /\ forced'[d].at = "built" => forced'[d] = forced[d]
  BY <1>3 DEF Always, JobInv, Quiet, NoJob
<1>4. JobInv'
  BY <1>3, Ends, DmTypes DEF Always, JobInv, Quiet, Epoch, Valid, Floor
<1> QED BY <1>1, <1>2, <1>4 DEF Always

\* A quiet step keeps what holds while the Welcomes are on time.
LEMMA QuietOnTime ==
    ASSUME Always, OnTime, DmTypeOK', Quiet
    PROVE  OnTime'
<1>1. \A d \in Device : /\ Epoch(d)' = Epoch(d) /\ (Leads(d)' <=> Leads(d))
                        /\ KeyNow(d)' = KeyNow(d)
  BY Ends DEF Quiet, Epoch, Leads, KeyNow
<1>2. \A d \in Device : Spent(d) => Spent(d)'
  BY DEF Quiet, Spent
<1>3. \A d \in Device : Valid(d)' => Valid(d) /\ forced'[d] = forced[d]
  BY DEF Quiet, Valid, Epoch, NoJob
<1>4. autoEpochs' = autoEpochs /\ welcomes' = welcomes /\ auto' = auto  BY DEF Quiet
<1>5. PendInv'
  BY <1>1, <1>4 DEF OnTime, PendInv, Quiet
<1>6. SpentInv'  BY <1>1, <1>2, <1>4 DEF OnTime, SpentInv
<1>7. AutoInv'  BY <1>1, <1>4, Ends DEF OnTime, AutoInv
<1>8. LowLead'  BY <1>1, <1>4, Ends DEF OnTime, LowLead, Scheduled
<1>9. HighLead'
  <2>1. SUFFICES ASSUME Leads(HigherId)', ~Scheduled(Epoch(HigherId))'  PROVE HighLead'
    BY DEF HighLead
  <2>2. Leads(HigherId) /\ ~Scheduled(Epoch(HigherId))
    BY <2>1, <1>1, <1>4, Ends DEF Scheduled
  <2>3. Epoch(HigherId) \in Nat /\ Epoch(HigherId) >= 2
    BY <2>2, DmTypes, Ends DEF OnTime, HighLead, Always, Epoch
  <2>4. /\ conv'[LowId].stale # Epoch(HigherId) - 1 /\ frames'[LowId].epoch # Epoch(HigherId) - 1
    BY <2>2, <2>3, Ends DEF OnTime, HighLead, Quiet, NoFrame, KeyNow, Epoch
  <2> QED BY <1>1, <1>2, <1>4, <2>2, <2>4, Ends DEF OnTime, HighLead
<1>10. TieNow'  BY <1>1, <1>4, Ends DEF OnTime, TieNow, Agree, Scheduled
<1>11. TieNext'  BY <1>1, <1>3, <1>4, Ends DEF OnTime, TieNext, Scheduled
<1>12. TieBoth'  BY <1>3, <1>4, Ends DEF OnTime, TieBoth, Scheduled
<1> QED BY <1>5, <1>6, <1>7, <1>8, <1>9, <1>10, <1>11, <1>12 DEF OnTime

-----------------------------------------------------------------------------
(* The steps that count as mishaps, and the cooldown. *)

\* A mishap is noted.
LEMMA MishapNoted ==
    ASSUME DmTypeOK, Mishap
    PROVE  mishaps' \in 0..MaxMishaps /\ mishaps' # 0
BY DmAssumption DEF DmTypeOK, Mishap

\* The cooldown passes: on time, only when no Welcome is on its way and so no end leads.
LEMMA CoolsDownStep ==
    ASSUME DmInv, NEW d \in Device, CoolsDown(d)
    PROVE  DmInv'
<1>1. Always  BY DEF DmInv
<1>2. DmTypeOK'
  <2>1. mishaps' \in 0..MaxMishaps
    BY <1>1, MishapNoted DEF CoolsDown, Always, DmTypeOK
  <2> QED BY <1>1, <2>1 DEF CoolsDown, Always, DmTypeOK
<1>3. Always'
  <2>1. WelcomeInv' /\ SeenInv'
    BY <1>1 DEF CoolsDown, Always, WelcomeInv, SeenInv, Epoch
  <2>2. \A c \in Device : forced[c] # NoJob => cooled'[c] = cooled[c]
    BY <1>1 DEF CoolsDown, Always, DmTypeOK
  <2>3. JobInv'
    BY <1>1, <2>2 DEF CoolsDown, Always, JobInv, Epoch, Valid, Floor
  <2> QED BY <1>2, <2>1, <2>3 DEF Always
<1>4. ASSUME mishaps' = 0  PROVE OnTime'
  <2>1. welcomes = {} /\ mishaps = 0
    BY <1>1, <1>4, MishapNoted DEF CoolsDown, Always
  <2>2. OnTime  BY <2>1 DEF DmInv
  <2>3. \A c \in Device : ~Leads(c) /\ ~Leads(c)'
    BY <2>1, <2>2 DEF OnTime, PendInv, CoolsDown, Leads, Epoch
  <2>4. UNCHANGED <<conv, forced, auto, autoEpochs>>  BY DEF CoolsDown
  <2>5. TieNow' /\ TieBoth'
    BY <2>2, <2>4 DEF OnTime, TieNow, TieBoth, Agree, KeyNow, Valid, Epoch, Scheduled
  <2>6. AutoInv'
    BY <2>2, <2>3, <2>4, Ends DEF OnTime, AutoInv, Epoch
  <2> QED BY <2>3, <2>5, <2>6, Ends DEF OnTime, PendInv, SpentInv, LowLead, HighLead, TieNext
<1> QED BY <1>3, <1>4 DEF DmInv

\* A forced rotation fails: nothing has moved but the device's own job.
LEMMA ForcedFailsStep ==
    ASSUME DmInv, NEW d \in Device, ForcedFails(d)
    PROVE  DmInv'
<1>1. Always /\ mishaps' # 0 /\ mishaps' \in 0..MaxMishaps
  BY MishapNoted DEF DmInv, Always, ForcedFails
<1>2. DmTypeOK'
  BY <1>1, DmAssumption DEF ForcedFails, Always, DmTypeOK, Rotation, NoJob
<1>3. WelcomeInv' /\ SeenInv'
  BY <1>1 DEF ForcedFails, Always, WelcomeInv, SeenInv, Epoch
<1>4. \A c \in Device : forced'[c] = forced[c] \/ forced'[c] = NoJob
  BY <1>1 DEF ForcedFails, Always, DmTypeOK
<1>5. JobInv'
  BY <1>1, <1>4 DEF ForcedFails, Always, JobInv, Epoch, Valid, Floor, NoJob
<1> QED BY <1>1, <1>2, <1>3, <1>5 DEF DmInv, Always

\* A Welcome is lost.
LEMMA LoseWelcomeStep ==
    ASSUME DmInv, NEW w \in welcomes, LoseWelcome(w)
    PROVE  DmInv'
<1>1. Always /\ mishaps' # 0 /\ mishaps' \in 0..MaxMishaps
  BY MishapNoted DEF DmInv, Always, LoseWelcome
<1>2. DmTypeOK'
  BY <1>1 DEF LoseWelcome, Always, DmTypeOK
<1>3. WelcomeInv' /\ SeenInv' /\ JobInv'
  BY <1>1 DEF LoseWelcome, Always, WelcomeInv, SeenInv, JobInv, Epoch, Valid, Floor
<1> QED BY <1>1, <1>2, <1>3 DEF DmInv, Always

-----------------------------------------------------------------------------
(* A forced rotation takes its snapshot and fixes its target. *)

\* What the snapshot changes, and where its target lies.
LEMMA SnapshotEffect ==
    ASSUME Always, NEW d \in Device, Snapshot(d)
    PROVE  /\ DmTypeOK'
           /\ UNCHANGED <<conv, cooled, auto, frames, welcomes, autoEpochs, mishaps>>
           /\ forced'[Other(d)] = forced[Other(d)]
           /\ forced[d] # NoJob /\ forced'[d] # NoJob /\ forced[d].at # "built" /\ Valid(d)'
           /\ forced'[d].target = ForcedTarget(d) /\ forced'[d].snap = Epoch(d)
           /\ Floor(d)' = ForcedTarget(d) - 1 - Bonus(d)
<1> DEFINE new == [at |-> "built", snap |-> conv[d].epoch, target |-> ForcedTarget(d)]
<1>1. new \in Rotation
  BY FloorBounds, DmTypes DEF Always, Snapshot, Rotation
<1>2. forced' = [forced EXCEPT ![d] = new]  BY DEF Snapshot
<1>3. DmTypeOK'  BY <1>1, <1>2 DEF Snapshot, Always, DmTypeOK
<1>4. forced'[d] = new /\ forced'[Other(d)] = forced[Other(d)]
  BY <1>2, Ends DEF Always, DmTypeOK
<1>5. conv' = conv /\ Epoch(d)' = Epoch(d)  BY DEF Snapshot, Epoch
<1> QED BY <1>3, <1>4, <1>5 DEF Snapshot, NoJob, Valid, Epoch, Floor, Bonus

\* The target of the snapshot is no epoch the peer is at already, nor one the peer is
\* about to claim, but for a scheduled rotation.
LEMMA SnapshotTie ==
    ASSUME Always, OnTime, NEW d \in Device, Snapshot(d)
    PROVE  TieNext' /\ TieBoth'
<1> DEFINE o == Other(d)
<1>1. /\ conv' = conv /\ autoEpochs' = autoEpochs /\ forced'[o] = forced[o]
      /\ forced'[d].target = ForcedTarget(d) /\ Valid(d)' /\ ~Spent(d)
      /\ Floor(d)' = ForcedTarget(d) - 1 - Bonus(d) /\ Floor(o)' = Floor(o)
  BY SnapshotEffect DEF Spent, Floor, Bonus
<1>2. \A c \in Device : /\ Epoch(c)' = Epoch(c) /\ (Leads(c)' <=> Leads(c))
                        /\ Epoch(c) \in Nat /\ conv[c].stale \in Nat /\ forced[c].target \in Nat
                        /\ conv[c].stale <= Epoch(Other(c))
                        /\ (Leads(c) <=> Epoch(c) > Epoch(Other(c)))
  BY <1>1, DmTypes DEF Always, Epoch, Leads, SeenInv
<1>3. Valid(o)' <=> Valid(o)  BY <1>1, <1>2 DEF Valid, Epoch
<1>4. /\ ForcedTarget(d) \in Nat
      /\ Epoch(d) <= ForcedTarget(d) - 1 - Bonus(d)
      /\ \/ ForcedTarget(d) - 1 - Bonus(d) = Epoch(d)
         \/ ForcedTarget(d) - 1 - Bonus(d) = conv[d].stale
         \/ /\ ForcedTarget(d) - 1 - Bonus(d) = Epoch(d) + MaxJump
            /\ Epoch(d) + MaxJump <= conv[d].stale
  BY FloorBounds DEF Always, Epoch
<1>5. Bonus(LowId) = 0 /\ Bonus(HigherId) = 1  BY Ends DEF Bonus
<1>6. TieNext'
  <2>1. ASSUME Leads(o), Epoch(o) = ForcedTarget(d), ~Scheduled(Epoch(o))
        PROVE  FALSE
    <3>1. CASE d = LowId
      <4>1. o = HigherId  BY <3>1, Ends
      <4>2. /\ Epoch(o) <= Epoch(d) + 3 /\ conv[d].stale # Epoch(o) - 1
            /\ Epoch(d) = Epoch(o) - 1 => Spent(d)
        BY <2>1, <3>1, <4>1 DEF OnTime, HighLead
      <4> QED BY <1>1, <1>2, <1>4, <1>5, <2>1, <3>1, <4>1, <4>2, Ends, DmAssumption
    <3>2. CASE d = HigherId
      <4>1. o = LowId  BY <3>2, Ends
      <4>2. Epoch(o) <= Epoch(d) + 1  BY <2>1, <3>2, <4>1 DEF OnTime, LowLead
      <4> QED BY <1>2, <1>4, <1>5, <2>1, <3>2, <4>1, <4>2, Ends
    <3> QED BY <3>1, <3>2, Ends
  <2>2. ASSUME NEW c \in Device, Valid(c)', Leads(Other(c))', Epoch(Other(c))' = forced'[c].target
        PROVE  Scheduled(forced[c].target)'
    <3>1. CASE c = d
      BY <3>1, <1>1, <1>2, <2>1, <2>2, Ends DEF Scheduled
    <3>2. CASE c = o
      <4>1. Valid(c) /\ Leads(Other(c)) /\ Epoch(Other(c)) = forced[c].target
        BY <3>2, <2>2, <1>1, <1>2, <1>3, Ends
      <4> QED BY <4>1, <3>2, <1>1 DEF OnTime, TieNext, Scheduled
    <3> QED BY <3>1, <3>2, Ends
  <2> QED BY <2>2 DEF TieNext
<1>7. TieBoth'
  <2>1. SUFFICES ASSUME Valid(LowId)', Valid(HigherId)', forced'[LowId].target = forced'[HigherId].target
                 PROVE  Scheduled(forced[LowId].target)'
    BY DEF TieBoth
  <2>2. Valid(o)  BY <2>1, <1>3, Ends
  <2>3. Epoch(o) <= Floor(o) /\ (Floor(o) <= Epoch(o) \/ Floor(o) <= Epoch(d))
    BY <2>2, Ends DEF Always, JobInv
  <2>4. forced'[LowId].target \in Nat /\ forced'[HigherId].target \in Nat
    BY <1>1, <1>2, <1>4, Ends
  <2>5. /\ Floor(LowId)' = forced'[LowId].target - 1
        /\ Floor(HigherId)' = forced'[HigherId].target - 2
    BY <2>4, Ends DEF Floor, Bonus
  <2>6. /\ Epoch(d) <= Floor(d)' /\ (Floor(d)' <= Epoch(d) \/ Floor(d)' <= Epoch(o))
        /\ Epoch(o) <= Floor(o)' /\ (Floor(o)' <= Epoch(o) \/ Floor(o)' <= Epoch(d))
    BY <1>1, <1>2, <1>4, <2>3, DmAssumption, Ends DEF Bonus
  <2>7. /\ Epoch(HigherId) <= Floor(HigherId)' /\ Epoch(LowId) <= Floor(LowId)'
        /\ Floor(LowId)' <= Epoch(LowId) \/ Floor(LowId)' <= Epoch(HigherId)
    BY <2>6, Ends
  <2>8. Floor(LowId)' = Epoch(LowId) /\ Leads(LowId) /\ forced'[LowId].target = Epoch(LowId) + 1
    BY <2>1, <2>4, <2>5, <2>7, <1>2, Ends
  <2>9. ~Spent(LowId)
    BY <1>1, <2>2, Ends DEF Spent, Valid, NoJob
  <2>10. Epoch(LowId) \in autoEpochs  BY <2>8, <2>9, Ends DEF OnTime, SpentInv
  <2> QED BY <2>8, <2>10, <1>1 DEF Scheduled
<1> QED BY <1>6, <1>7

\* The snapshot keeps the invariant.
LEMMA SnapshotStep ==
    ASSUME DmInv, NEW d \in Device, Snapshot(d)
    PROVE  DmInv'
<1>1. Always  BY DEF DmInv
<1>2. /\ DmTypeOK'
      /\ UNCHANGED <<conv, cooled, auto, frames, welcomes, autoEpochs, mishaps>>
      /\ forced'[Other(d)] = forced[Other(d)]
      /\ forced[d] # NoJob /\ forced'[d] # NoJob /\ Valid(d)'
      /\ forced'[d].snap = Epoch(d)
      /\ Floor(d)' = ForcedTarget(d) - 1 - Bonus(d)
  BY <1>1, SnapshotEffect
<1>3. \A c \in Device : Epoch(c)' = Epoch(c) /\ (Leads(c)' <=> Leads(c)) /\ KeyNow(c)' = KeyNow(c)
  BY <1>2 DEF Epoch, Leads, KeyNow
<1>4. WelcomeInv' /\ SeenInv'
  BY <1>1, <1>2 DEF Always, WelcomeInv, SeenInv, Epoch
<1>5. JobInv'
  <2>1. /\ Epoch(d) <= Floor(d)'
        /\ Floor(d)' <= Epoch(d) \/ Floor(d)' <= Epoch(Other(d))
    BY <1>1, <1>2, FloorBounds, DmTypes, Ends, DmAssumption DEF Always, SeenInv, Epoch, Bonus
  <2>2. forced[d] # NoJob => ~cooled[d]  BY <1>1 DEF Always, JobInv
  <2>3. /\ forced'[d] # NoJob => ~cooled'[d]
        /\ forced'[d].at = "built" => forced'[d].snap <= Epoch(d)'
        /\ Valid(d)' => Epoch(d)' <= Floor(d)' /\ (Floor(d)' <= Epoch(d)' \/ Floor(d)' <= Epoch(Other(d))')
    BY <1>1, <1>2, <1>3, <2>1, <2>2, DmTypes, Ends DEF Always, Epoch
  <2>4. ASSUME NEW c \in Device, c = Other(d)
        PROVE  /\ forced'[c] # NoJob => ~cooled'[c]
               /\ forced'[c].at = "built" => forced'[c].snap <= Epoch(c)'
               /\ Valid(c)' => Epoch(c)' <= Floor(c)' /\ (Floor(c)' <= Epoch(c)' \/ Floor(c)' <= Epoch(Other(c))')
    BY <1>1, <1>2, <1>3, <2>4, Ends DEF Always, JobInv, Valid, Floor, Epoch
  <2>5. /\ \A x \in autoEpochs' : x <= Epoch(Creator)'
        /\ auto'.at = "built" => auto'.target = auto'.snap + 1 /\ auto'.snap <= Epoch(Creator)'
    BY <1>1, <1>2, <1>3, Ends DEF Always, JobInv
  <2> QED BY <2>3, <2>4, <2>5, Ends DEF JobInv
<1>6. ASSUME mishaps' = 0  PROVE OnTime'
  <2>1. OnTime  BY <1>2, <1>6 DEF DmInv
  <2>2. \A c \in Device : Spent(c) => Spent(c)'
    BY <1>2, Ends DEF Spent
  <2>3. PendInv'  BY <1>2, <1>3, <2>1 DEF OnTime, PendInv
  <2>4. SpentInv'  BY <1>2, <1>3, <2>1, <2>2 DEF OnTime, SpentInv
  <2>5. AutoInv' /\ LowLead'
    BY <1>2, <1>3, <2>1, Ends DEF OnTime, AutoInv, LowLead, Scheduled
  <2>6. HighLead'
    BY <1>2, <1>3, <2>1, <2>2, Ends DEF OnTime, HighLead, Scheduled
  <2>7. TieNow'
    BY <1>2, <1>3, <2>1, Ends DEF OnTime, TieNow, Agree, Scheduled
  <2> QED BY <1>1, <2>1, <2>3, <2>4, <2>5, <2>6, <2>7, SnapshotTie DEF OnTime
<1> QED BY <1>2, <1>4, <1>5, <1>6 DEF DmInv, Always

-----------------------------------------------------------------------------
(* An end moves to a later epoch. *)

\* The device d moves to epoch e, its peer and the jobs of the peer stay.
Moves(d, e) ==
    /\ Epoch(d)' = e /\ e \in Nat /\ Epoch(d) < e
    /\ Epoch(Other(d))' = Epoch(Other(d)) /\ conv'[Other(d)] = conv[Other(d)]
    /\ forced'[Other(d)] = forced[Other(d)] /\ cooled' = cooled /\ frames' = frames

\* A move leaves no valid rotation of the device, and the peer leads only if it led before.
LEMMA MoveEffect ==
    ASSUME Always, NEW d \in Device, NEW e, Moves(d, e),
           forced'[d] = NoJob \/ forced'[d] = forced[d]
    PROVE  /\ ~Valid(d)' /\ (Valid(Other(d))' <=> Valid(Other(d)))
           /\ Floor(Other(d))' = Floor(Other(d))
           /\ (Leads(d)' <=> e > Epoch(Other(d))) /\ (Leads(Other(d))' <=> Epoch(Other(d)) > e)
           /\ Leads(Other(d))' => Leads(Other(d))
           /\ KeyNow(Other(d))' = KeyNow(Other(d))
           /\ Epoch(d) \in Nat /\ Epoch(Other(d)) \in Nat
           /\ Spent(Other(d))' <=> Spent(Other(d))
           /\ Spent(d) => Spent(d)'
<1>1. Epoch(d) \in Nat /\ Epoch(Other(d)) \in Nat /\ forced[d].snap \in Nat
  BY DmTypes, Ends DEF Always, Epoch
<1>2. forced[d].at = "built" => forced[d].snap <= Epoch(d)  BY DEF Always, JobInv
<1>3. ~Valid(d)'  BY <1>1, <1>2 DEF Moves, Valid, NoJob
<1>4. Valid(Other(d))' <=> Valid(Other(d))  BY DEF Moves, Valid
<1>5. /\ (Leads(d)' <=> e > Epoch(Other(d))) /\ (Leads(Other(d))' <=> Epoch(Other(d)) > e)
      /\ Leads(Other(d))' => Leads(Other(d))
  BY <1>1, Ends DEF Moves, Leads
<1> QED BY <1>1, <1>3, <1>4, <1>5 DEF Moves, Floor, Spent, KeyNow, NoJob, Bonus

\* A move keeps what always holds of the knowledge and the jobs of both ends.
LEMMA MoveAlways ==
    ASSUME Always, NEW d \in Device, NEW e, Moves(d, e), DmTypeOK',
           forced'[d] = NoJob \/ forced'[d] = forced[d],
           conv'[d].stale \in {0, conv[d].stale},
           auto' \in {NoJob, auto}, autoEpochs' \subseteq autoEpochs \cup {Epoch(Creator)'}
    PROVE  SeenInv' /\ JobInv'
<1>1. \A c \in Device : Epoch(c)' \in Nat /\ Epoch(c) \in Nat /\ Epoch(c) <= Epoch(c)'
  <2> TAKE c \in Device
  <2>1. Epoch(d) \in Nat /\ Epoch(Other(d)) \in Nat  BY DmTypes, Ends DEF Always, Epoch
  <2> QED BY <2>1, Ends DEF Moves
<1>2. SeenInv'
  <2>1. \A c \in Device : conv'[c].stale \in {0, conv[c].stale}
    BY Ends DEF Moves
  <2>2. \A c \in Device : conv[c].stale \in Nat /\ frames[c].epoch \in Nat
    BY DmTypes DEF Always
  <2> QED BY <1>1, <2>1, <2>2, Ends DEF Always, SeenInv, Moves
<1>3. /\ \A x \in autoEpochs' : x <= Epoch(Creator)'
      /\ auto'.at = "built" => auto'.target = auto'.snap + 1 /\ auto'.snap <= Epoch(Creator)'
  BY <1>1, DmTypes, Ends DEF Always, JobInv, NoJob
<1>4. ASSUME NEW c \in Device
      PROVE  /\ forced'[c] # NoJob => ~cooled'[c]
             /\ forced'[c].at = "built" => forced'[c].snap <= Epoch(c)'
  <2>1. forced'[c] = forced[c] \/ forced'[c] = NoJob  BY Ends DEF Moves
  <2>2. /\ forced[c] # NoJob => ~cooled[c]
        /\ forced[c].at = "built" => forced[c].snap <= Epoch(c)
    BY DEF Always, JobInv
  <2>3. forced[c].snap \in Nat /\ cooled' = cooled  BY DmTypes DEF Always, Moves
  <2> QED BY <1>1, <2>1, <2>2, <2>3 DEF NoJob
<1>5. ASSUME NEW c \in Device, Valid(c)'
      PROVE  /\ Epoch(c)' <= Floor(c)'
             /\ Floor(c)' <= Epoch(c)' \/ Floor(c)' <= Epoch(Other(c))'
  <2>1. c = Other(d) /\ Valid(c) /\ Floor(c)' = Floor(c)  BY <1>5, MoveEffect, Ends
  <2>2. Epoch(c) <= Floor(c) /\ (Floor(c) <= Epoch(c) \/ Floor(c) <= Epoch(Other(c)))
    BY <2>1 DEF Always, JobInv
  <2>3. Floor(c) \in Int  BY DmTypes DEF Always, Floor, Bonus
  <2> QED BY <1>1, <2>1, <2>2, <2>3, Ends DEF Moves
<1> QED BY <1>2, <1>3, <1>4, <1>5 DEF JobInv

-----------------------------------------------------------------------------
(* A forced rotation is committed. *)

\* The commit that finds the epoch moved gives up, and only ends the job.
LEMMA CommitStaleStep ==
    ASSUME DmInv, NEW d \in Device, CommitForced(d), conv[d].epoch # forced[d].snap
    PROVE  DmInv'
<1>1. /\ UNCHANGED <<conv, stuck, cooled, recovery, auto, frames, welcomes, mobile, autoEpochs,
                     mishaps>>
      /\ forced' = [forced EXCEPT ![d] = NoJob]
  BY DEF CommitForced
<1>2. Always  BY DEF DmInv
<1>3. DmTypeOK'  BY <1>1, <1>2, DmAssumption DEF Always, DmTypeOK, Rotation, NoJob
<1>4. \A c \in Device : forced'[c] = forced[c] \/ forced'[c] = NoJob
  BY <1>1, <1>2 DEF Always, DmTypeOK
<1>5. \A c \in Device : /\ Epoch(c)' = Epoch(c) /\ (Leads(c)' <=> Leads(c))
                        /\ KeyNow(c)' = KeyNow(c)
  BY <1>1 DEF Epoch, Leads, KeyNow
<1>6. WelcomeInv' /\ SeenInv'
  BY <1>1, <1>2 DEF Always, WelcomeInv, SeenInv, Epoch
<1>7. JobInv'
  BY <1>1, <1>2, <1>4 DEF Always, JobInv, Epoch, Valid, Floor, NoJob
<1>8. ASSUME mishaps' = 0  PROVE OnTime'
  <2>1. OnTime  BY <1>1, <1>8 DEF DmInv
  <2>2. \A c \in Device : Spent(c) => Spent(c)'  BY <1>1, <1>4 DEF Spent
  <2>3. \A c \in Device : Valid(c)' => Valid(c) /\ forced'[c] = forced[c]
    BY <1>4, <1>5 DEF Valid, NoJob
  <2>4. PendInv'  BY <1>1, <1>5, <2>1 DEF OnTime, PendInv
  <2>5. SpentInv'  BY <1>1, <1>5, <2>1, <2>2 DEF OnTime, SpentInv
  <2>6. AutoInv' /\ LowLead'
    BY <1>1, <1>5, <2>1, Ends DEF OnTime, AutoInv, LowLead, Scheduled
  <2>7. HighLead'
    BY <1>1, <1>5, <2>1, <2>2, Ends DEF OnTime, HighLead, Scheduled
  <2>8. TieNow'
    BY <1>1, <1>5, <2>1, Ends DEF OnTime, TieNow, Agree, Scheduled
  <2>9. TieNext'
    BY <1>1, <1>5, <2>1, <2>3, Ends DEF OnTime, TieNext, Scheduled
  <2>10. TieBoth'
    BY <1>1, <2>1, <2>3, Ends DEF OnTime, TieBoth, Scheduled
  <2> QED BY <2>4, <2>5, <2>6, <2>7, <2>8, <2>9, <2>10 DEF OnTime
<1> QED BY <1>3, <1>6, <1>7, <1>8 DEF DmInv, Always

\* What a commit that goes through does.
LEMMA CommitEffect ==
    ASSUME Always, NEW d \in Device, CommitForced(d), conv[d].epoch = forced[d].snap
    PROVE  /\ DmTypeOK' /\ Valid(d) /\ Moves(d, forced[d].target)
           /\ conv'[d].by = d /\ conv'[d].stale = 0
           /\ forced'[d] = NoJob /\ Spent(d)' /\ ~Spent(d)
           /\ welcomes' = welcomes \cup {Welcome(Other(d), KeyNow(d)')}
           /\ UNCHANGED <<auto, autoEpochs, mishaps>>
           /\ forced[d].target = Floor(d) + 1 + Bonus(d)
           /\ Epoch(d) <= Floor(d) /\ Floor(d) \in Nat
           /\ Floor(d) <= Epoch(d) \/ Floor(d) <= Epoch(Other(d))
<1> DEFINE new == [Advanced(conv[d], forced[d].target, d)
                     EXCEPT !.progress = forced[d].target, !.stale = 0]
           k == [epoch |-> forced[d].target, by |-> d]
<1>1. /\ forced[d].at = "built" /\ forced' = [forced EXCEPT ![d] = NoJob]
      /\ conv' = [conv EXCEPT ![d] = new]
      /\ welcomes' = welcomes \cup {Welcome(Other(d), k)}
      /\ UNCHANGED <<stuck, cooled, recovery, auto, frames, mobile, autoEpochs, mishaps>>
  <2>1. conv' = [conv EXCEPT ![d] = new]  BY DEF CommitForced, Always, DmTypeOK
  <2> QED BY <2>1 DEF CommitForced
<1>2. forced[d].target \in 0..MaxEpoch  BY DEF Always, DmTypeOK, Rotation
<1>3. /\ new \in ConvType /\ Advanced(conv[d], forced[d].target, d) \in ConvType
      /\ Advanced(conv[d], forced[d].target, d).epoch = forced[d].target
      /\ Advanced(conv[d], forced[d].target, d).by = d
  BY <1>2, AdvancedTyped DEF Always
<1>4. new.epoch = forced[d].target /\ new.by = d /\ new.stale = 0  BY <1>3 DEF ConvType
<1>5. conv' \in [Device -> ConvType] /\ conv'[d] = new /\ conv'[Other(d)] = conv[Other(d)]
  <2> HIDE DEF new
  <2> QED BY <1>1, <1>3, Ends DEF Always, DmTypeOK, ConvType
<1>6. Welcome(Other(d), k) \in [to: Device, key: Key]
  BY <1>2, Ends DEF Welcome, Key
<1>7. DmTypeOK'
  <2>1. forced' \in [Device -> Rotation]
    BY <1>1, DmAssumption DEF Always, DmTypeOK, Rotation, NoJob
  <2> HIDE DEF new, k
  <2> QED BY <1>1, <1>5, <1>6, <2>1 DEF Always, DmTypeOK, ConvType
<1>8. Valid(d)  BY <1>1 DEF Valid, Epoch
<1>9. /\ Epoch(d) <= Floor(d) /\ (Floor(d) <= Epoch(d) \/ Floor(d) <= Epoch(Other(d)))
  BY <1>8 DEF Always, JobInv
<1>10. /\ forced[d].target \in Nat /\ Epoch(d) \in Nat /\ Bonus(d) \in {0, 1}
       /\ forced[d].target = Floor(d) + 1 + Bonus(d)
  BY DmTypes DEF Always, Floor, Bonus, Epoch
<1>11. Floor(d) \in Nat /\ Epoch(d) < forced[d].target
  BY <1>9, <1>10 DEF Floor
<1>12. forced'[d] = NoJob /\ forced'[Other(d)] = forced[Other(d)]
  BY <1>1, Ends DEF Always, DmTypeOK
<1>13. Moves(d, forced[d].target)
  <2> HIDE DEF new
  <2> QED BY <1>1, <1>4, <1>5, <1>10, <1>11, <1>12 DEF Moves, Epoch
<1>14. Spent(d)' /\ ~Spent(d)
  BY <1>1, <1>12 DEF Spent, Always, JobInv, NoJob
<1>15. KeyNow(d)' = k
  <2> HIDE DEF new
  <2> QED BY <1>4, <1>5 DEF KeyNow
<1> HIDE DEF new, k
<1> QED BY <1>1, <1>4, <1>5, <1>7, <1>8, <1>9, <1>10, <1>11, <1>12, <1>13, <1>14, <1>15

\* A commit that goes through keeps what always holds.
LEMMA CommitAlways ==
    ASSUME Always, NEW d \in Device, CommitForced(d), conv[d].epoch = forced[d].snap
    PROVE  Always'
<1>1. /\ DmTypeOK' /\ Moves(d, forced[d].target) /\ conv'[d].by = d /\ conv'[d].stale = 0
      /\ forced'[d] = NoJob /\ UNCHANGED <<auto, autoEpochs>>
      /\ welcomes' = welcomes \cup {Welcome(Other(d), KeyNow(d)')}
  BY CommitEffect
<1>2. SeenInv' /\ JobInv'  BY <1>1, MoveAlways
<1>3. WelcomeInv'
  <2>1. ASSUME NEW w \in welcomes
        PROVE  /\ w.key.by = Other(w.to) /\ w.key.epoch <= Epoch(Other(w.to))'
               /\ w.key.epoch = Epoch(Other(w.to))' => conv'[Other(w.to)].by = Other(w.to)
    <3>1. w.to \in Device /\ w.key.epoch \in Nat  BY DmTypes DEF Always
    <3>2. /\ w.key.by = Other(w.to) /\ w.key.epoch <= Epoch(Other(w.to))
          /\ w.key.epoch = Epoch(Other(w.to)) => conv[Other(w.to)].by = Other(w.to)
      BY DEF Always, WelcomeInv
    <3>3. CASE w.to = d
      BY <1>1, <3>1, <3>2, <3>3 DEF Moves
    <3>4. CASE w.to = Other(d)
      <4>1. Epoch(d) \in Nat  BY DmTypes DEF Always, Epoch
      <4> QED BY <1>1, <3>1, <3>2, <3>4, <4>1, Ends DEF Moves
    <3> QED BY <3>1, <3>3, <3>4, Ends
  <2>2. ASSUME NEW w, w = Welcome(Other(d), KeyNow(d)')
        PROVE  /\ w.key.by = Other(w.to) /\ w.key.epoch <= Epoch(Other(w.to))'
               /\ w.key.epoch = Epoch(Other(w.to))' => conv'[Other(w.to)].by = Other(w.to)
    <3>1. w.to = Other(d) /\ w.key.epoch = Epoch(d)' /\ w.key.by = d /\ Epoch(d)' \in Nat
      BY <1>1, <2>2 DEF Welcome, KeyNow, Epoch, Moves
    <3> QED BY <1>1, <3>1, Ends
  <2> QED BY <1>1, <2>1, <2>2 DEF WelcomeInv
<1> QED BY <1>1, <1>2, <1>3 DEF Always

\* A commit that goes through keeps what holds while the Welcomes are on time.
LEMMA CommitOnTime ==
    ASSUME Always, OnTime, NEW d \in Device, CommitForced(d), conv[d].epoch = forced[d].snap
    PROVE  OnTime'
<1> DEFINE o == Other(d)
           e == forced[d].target
<1>1. /\ Valid(d) /\ Moves(d, e) /\ conv'[d].by = d /\ conv'[d].stale = 0
      /\ forced'[d] = NoJob /\ Spent(d)' /\ ~Spent(d)
      /\ welcomes' = welcomes \cup {Welcome(o, KeyNow(d)')}
      /\ UNCHANGED <<auto, autoEpochs, mishaps>>
      /\ e = Floor(d) + 1 + Bonus(d)
      /\ Epoch(d) <= Floor(d) /\ Floor(d) \in Nat
      /\ Floor(d) <= Epoch(d) \/ Floor(d) <= Epoch(o)
  BY CommitEffect
<1>2. /\ ~Valid(d)' /\ (Valid(o)' <=> Valid(o))
      /\ (Leads(d)' <=> e > Epoch(o)) /\ (Leads(o)' <=> Epoch(o) > e)
      /\ Leads(o)' => Leads(o)
      /\ KeyNow(o)' = KeyNow(o)
      /\ Epoch(d) \in Nat /\ Epoch(o) \in Nat
      /\ Spent(o)' <=> Spent(o)
  BY <1>1, MoveEffect
<1>3. /\ Epoch(d)' = e /\ e \in Nat /\ Epoch(d) < e /\ Epoch(o)' = Epoch(o)
      /\ conv'[o] = conv[o] /\ forced'[o] = forced[o] /\ frames' = frames
  BY <1>1 DEF Moves
<1>4. o \in Device /\ o # d /\ Other(o) = d /\ \A c \in Device : c = d \/ c = o
  BY Ends
<1>5. \A x \in autoEpochs : x \in Nat /\ x <= Epoch(Creator)
  BY DmTypes DEF Always, JobInv
<1>6. Leads(d) => Epoch(d) \in autoEpochs
  BY <1>1 DEF OnTime, SpentInv
<1>7. Leads(d) <=> Epoch(d) > Epoch(o)  BY DEF Leads
<1> HIDE DEF o, e
<1>8. PendInv'
  <2>1. Leads(d)' => conv'[d].by = d /\ Welcome(o, KeyNow(d)') \in welcomes'
    BY <1>1
  <2>2. Leads(o)' => conv'[o].by = o /\ Welcome(d, KeyNow(o)') \in welcomes'
    BY <1>1, <1>2, <1>3, <1>4 DEF OnTime, PendInv
  <2> QED BY <2>1, <2>2, <1>4 DEF PendInv, o
<1>9. SpentInv'
  BY <1>1, <1>2, <1>3, <1>4 DEF OnTime, SpentInv
<1>10. AutoInv'
  <2>1. CASE d = Creator
    <3>1. o = Joiner  BY <2>1, Ends DEF o
    <3>2. auto.at = "built" => auto.snap <= Epoch(Creator) /\ auto.snap \in Nat
      BY DmTypes DEF Always, JobInv
    <3>3. e \notin autoEpochs  BY <2>1, <1>2, <1>3, <1>5
    <3> QED BY <2>1, <3>1, <3>2, <3>3, <1>1, <1>2, <1>3 DEF AutoInv
  <2>2. CASE d = Joiner
    <3>1. o = Creator  BY <2>2, Ends DEF o
    <3>2. /\ (auto.at = "built" /\ auto.snap = Epoch(o)) => auto.snap <= Epoch(d)
          /\ (Leads(o) /\ Epoch(o) \in autoEpochs) => Epoch(o) <= Epoch(d) + 1
      BY <2>2, <3>1 DEF OnTime, AutoInv
    <3> QED BY <2>2, <3>1, <3>2, <1>1, <1>2, <1>3 DEF AutoInv
  <2> QED BY <2>1, <2>2, Ends
<1>11. Epoch(d) \in autoEpochs => d = Creator \/ ~Leads(d)
  BY <1>2, <1>4, <1>5, <1>7, Ends DEF o
<1>12. LowLead'
  <2>1. SUFFICES ASSUME Leads(LowId)', ~Scheduled(Epoch(LowId))'
                 PROVE  Epoch(LowId)' <= Epoch(HigherId)' + 1
    BY DEF LowLead
  <2>2. CASE d = LowId
    <3>1. o = HigherId /\ Bonus(d) = 0  BY <2>2, Ends DEF o, Bonus
    <3>2. ~(Leads(d) /\ Floor(d) = Epoch(d))
      <4>1. e \notin {x + 1 : x \in autoEpochs}  BY <2>1, <2>2, <1>1, <1>3 DEF Scheduled
      <4> QED BY <4>1, <1>1, <1>2, <1>6, <3>1
    <3> QED BY <2>2, <3>1, <3>2, <1>1, <1>2, <1>3, <1>7
  <2>3. CASE d = HigherId
    <3>1. o = LowId  BY <2>3, Ends DEF o
    <3>2. Leads(LowId) /\ ~Scheduled(Epoch(LowId))
      BY <2>1, <3>1, <1>1, <1>2, <1>3 DEF Scheduled
    <3>3. Epoch(o) <= Epoch(d) + 1  BY <2>3, <3>1, <3>2 DEF OnTime, LowLead
    <3> QED BY <2>3, <3>1, <3>3, <1>2, <1>3
  <2> QED BY <2>2, <2>3, Ends
<1>13. HighLead'
  <2>1. SUFFICES ASSUME Leads(HigherId)', ~Scheduled(Epoch(HigherId))'
                 PROVE  HighLead'
    BY DEF HighLead
  <2>2. CASE d = HigherId
    <3>1. o = LowId /\ Bonus(d) = 1  BY <2>2, Ends DEF o, Bonus
    <3>2. e \notin autoEpochs /\ e \notin {x + 1 : x \in autoEpochs}
      BY <2>1, <2>2, <1>1, <1>3 DEF Scheduled
    <3>3. e = Floor(d) + 2  BY <1>1, <3>1
    <3>4. e >= 2 /\ e <= Epoch(o) + 3
      <4>1. CASE Leads(d)
        <5>1. d = Creator /\ o = Joiner /\ Epoch(d) \in autoEpochs
          BY <4>1, <1>6, <1>11, Ends DEF o
        <5>2. Epoch(d) <= Epoch(o) + 1  BY <4>1, <5>1 DEF OnTime, AutoInv
        <5> QED BY <4>1, <5>2, <3>3, <1>1, <1>2, <1>7
      <4>2. CASE ~Leads(d)
        BY <4>2, <3>3, <1>1, <1>2, <1>7
      <4> QED BY <4>1, <4>2
    <3>5. Epoch(o) = e - 1 => Spent(o)
      <4>1. SUFFICES ASSUME Epoch(o) = e - 1  PROVE Spent(o)  OBVIOUS
      <4>2. Leads(o)  BY <4>1, <3>3, <1>1, <1>2, <1>4 DEF Leads
      <4>3. Epoch(o) \notin autoEpochs  BY <4>1, <3>2, <1>2, <1>3
      <4> QED BY <4>2, <4>3, <1>4 DEF OnTime, SpentInv
    <3>6. conv'[o].stale # e - 1 /\ frames'[o].epoch # e - 1
      <4>1. /\ conv[o].stale <= Epoch(d) /\ frames[o].epoch <= Epoch(d)
            /\ conv[o].stale \in Nat /\ frames[o].epoch \in Nat
        BY <1>4, DmTypes DEF Always, SeenInv
      <4> QED BY <4>1, <3>3, <1>1, <1>2, <1>3
    <3>7. \A w \in welcomes' : w.to = o => w.key.epoch # e - 1
      <4>1. \A w \in welcomes : w.to = o => w.key.epoch <= Epoch(d) /\ w.key.epoch \in Nat
        BY <1>4, DmTypes DEF Always, WelcomeInv
      <4>2. Welcome(o, KeyNow(d)').key.epoch = e
        BY <1>3 DEF Welcome, KeyNow, Epoch
      <4> QED BY <4>1, <4>2, <3>3, <1>1, <1>2, <1>3
    <3> QED BY <2>2, <3>1, <3>4, <3>5, <3>6, <3>7, <1>2, <1>3 DEF HighLead
  <2>3. CASE d = LowId
    <3>1. o = HigherId  BY <2>3, Ends DEF o
    <3>2. Leads(o) /\ ~Scheduled(Epoch(o))
      BY <2>1, <3>1, <1>1, <1>2, <1>3 DEF Scheduled
    <3>3. /\ Epoch(o) >= 2 /\ Epoch(o) <= Epoch(d) + 3
          /\ frames[d].epoch # Epoch(o) - 1
          /\ \A w \in welcomes : w.to = d => w.key.epoch # Epoch(o) - 1
      BY <2>3, <3>1, <3>2 DEF OnTime, HighLead
    <3>4. \A w \in welcomes' : w.to = d => w.key.epoch # Epoch(o) - 1
      BY <3>3, <1>1, <1>4 DEF Welcome
    <3> QED BY <2>3, <3>1, <3>3, <3>4, <1>1, <1>2, <1>3 DEF HighLead
  <2> QED BY <2>2, <2>3, Ends
<1>14. TieNow'
  <2>1. SUFFICES ASSUME Epoch(Creator)' = Epoch(Joiner)'  PROVE Scheduled(Epoch(Creator))'
    BY DEF TieNow
  <2>2. Epoch(o) = e /\ Epoch(Creator)' = e  BY <2>1, <1>3, <1>4, Ends
  <2>3. Leads(o)  BY <2>2, <1>2, <1>3, <1>4 DEF Leads
  <2>4. Scheduled(e)  BY <2>2, <2>3, <1>1 DEF OnTime, TieNext, o, e
  <2> QED BY <2>2, <2>4, <1>1 DEF Scheduled
<1>15. TieNext'
  <2>1. SUFFICES ASSUME NEW c \in Device, Valid(c)', Leads(Other(c))',
                        Epoch(Other(c))' = forced'[c].target
                 PROVE  Scheduled(forced[c].target)'
    BY DEF TieNext
  <2>2. c = o /\ Valid(o) /\ forced[o].target = forced[d].target /\ forced'[c].target = forced[d].target
    BY <2>1, <1>2, <1>3, <1>4 DEF e
  <2>3. Scheduled(forced[d].target)
    BY <2>2, <1>1, <1>4, Ends DEF OnTime, TieBoth
  <2> QED BY <2>2, <2>3, <1>1 DEF Scheduled
<1>16. TieBoth'  BY <1>2, Ends DEF TieBoth
<1> QED BY <1>8, <1>9, <1>10, <1>12, <1>13, <1>14, <1>15, <1>16 DEF OnTime

\* A forced rotation ends.
LEMMA CommitForcedStep ==
    ASSUME DmInv, NEW d \in Device, CommitForced(d)
    PROVE  DmInv'
<1>1. CASE conv[d].epoch = forced[d].snap
  <2>1. Always /\ Always' /\ mishaps' = mishaps
    BY <1>1, CommitAlways DEF DmInv, CommitForced
  <2>2. mishaps = 0 => OnTime'  BY <1>1, CommitOnTime DEF DmInv
  <2> QED BY <2>1, <2>2 DEF DmInv
<1>2. CASE conv[d].epoch # forced[d].snap
  BY <1>2, CommitStaleStep
<1> QED BY <1>1, <1>2

-----------------------------------------------------------------------------
(* The scheduled rotation. *)

\* It begins, on time, only when the joiner has caught up with the creator.
LEMMA AutoBeginsStep ==
    ASSUME DmInv, AutoBegins
    PROVE  DmInv'
<1>1. Always /\ Epoch(Creator) \in Nat /\ Epoch(Joiner) \in Nat
  BY DmTypes, Ends DEF DmInv, Always, Epoch
<1>2. /\ UNCHANGED <<conv, stuck, cooled, recovery, forced, frames, welcomes, mobile, autoEpochs>>
      /\ auto' = [at |-> "built", snap |-> Epoch(Creator), target |-> Epoch(Creator) + 1]
      /\ Epoch(Creator) < MaxEpoch
  BY DEF AutoBegins, Epoch
<1>3. mishaps' \in 0..MaxMishaps  BY <1>1, MishapNoted DEF AutoBegins, Always, DmTypeOK
<1>4. auto' \in Rotation  BY <1>1, <1>2, DmAssumption DEF Rotation
<1>5. DmTypeOK'  BY <1>1, <1>2, <1>3, <1>4 DEF Always, DmTypeOK
<1>6. \A c \in Device : /\ Epoch(c)' = Epoch(c) /\ (Leads(c)' <=> Leads(c))
                        /\ KeyNow(c)' = KeyNow(c) /\ (Spent(c)' <=> Spent(c))
                        /\ (Valid(c)' <=> Valid(c)) /\ Floor(c)' = Floor(c)
  BY <1>2 DEF Epoch, Leads, KeyNow, Spent, Valid, Floor, Bonus
<1>7. WelcomeInv' /\ SeenInv'
  BY <1>1, <1>2 DEF Always, WelcomeInv, SeenInv, Epoch
<1>8. JobInv'
  <2>1. auto'.target = auto'.snap + 1 /\ auto'.snap <= Epoch(Creator)'
    BY <1>1, <1>2, <1>6, Ends
  <2> QED BY <1>1, <1>2, <1>6, <2>1, Ends DEF Always, JobInv
<1>9. ASSUME mishaps' = 0  PROVE OnTime'
  <2>1. mishaps = 0 /\ \A w \in welcomes : w.to # Joiner
    BY <1>1, <1>9, MishapNoted DEF AutoBegins, Always
  <2>2. OnTime  BY <2>1 DEF DmInv
  <2>3. ~Leads(Creator)
    BY <2>1, <2>2, Ends DEF OnTime, PendInv, Welcome
  <2>4. AutoInv'
    BY <1>1, <1>2, <1>6, <2>3, Ends DEF AutoInv, Leads
  <2>5. PendInv' /\ SpentInv' /\ LowLead'
    BY <1>2, <1>6, <2>2, Ends DEF OnTime, PendInv, SpentInv, LowLead, Scheduled
  <2>6. HighLead'
    BY <1>2, <1>6, <2>2, Ends DEF OnTime, HighLead, Scheduled
  <2>7. TieNow' /\ TieNext' /\ TieBoth'
    BY <1>2, <1>6, <2>2, Ends DEF OnTime, TieNow, TieNext, TieBoth, Agree, Scheduled
  <2> QED BY <2>4, <2>5, <2>6, <2>7 DEF OnTime
<1> QED BY <1>5, <1>7, <1>8, <1>9 DEF DmInv, Always

\* The commit that finds the epoch moved only ends the job.
LEMMA AutoStaleStep ==
    ASSUME DmInv, CommitAuto, conv[Creator].epoch # auto.snap
    PROVE  DmInv'
<1>1. /\ UNCHANGED <<conv, stuck, cooled, recovery, forced, frames, welcomes, mobile, autoEpochs,
                     mishaps>>
      /\ auto' = NoJob
  BY DEF CommitAuto
<1>2. Always  BY DEF DmInv
<1>3. DmTypeOK'  BY <1>1, <1>2, DmAssumption DEF Always, DmTypeOK, Rotation, NoJob
<1>4. Always'
  BY <1>1, <1>2, <1>3 DEF Always, WelcomeInv, SeenInv, JobInv, Epoch, Valid, Floor, NoJob
<1>5. ASSUME OnTime  PROVE OnTime'
  <2>1. \A c \in Device : /\ Epoch(c)' = Epoch(c) /\ (Leads(c)' <=> Leads(c))
                          /\ KeyNow(c)' = KeyNow(c) /\ (Spent(c)' <=> Spent(c))
                          /\ (Valid(c)' <=> Valid(c))
    BY <1>1 DEF Epoch, Leads, KeyNow, Spent, Valid
  <2>2. PendInv' /\ SpentInv' /\ LowLead'
    BY <1>1, <1>5, <2>1, Ends DEF OnTime, PendInv, SpentInv, LowLead, Scheduled
  <2>3. HighLead' /\ AutoInv'
    BY <1>1, <1>5, <2>1, Ends DEF OnTime, HighLead, AutoInv, Scheduled, NoJob
  <2>4. TieNow' /\ TieNext' /\ TieBoth'
    BY <1>1, <1>5, <2>1, Ends DEF OnTime, TieNow, TieNext, TieBoth, Agree, Scheduled
  <2> QED BY <2>2, <2>3, <2>4 DEF OnTime
<1> QED BY <1>1, <1>4, <1>5 DEF DmInv

\* What a scheduled rotation that goes through does.
LEMMA AutoEffect ==
    ASSUME Always, CommitAuto, conv[Creator].epoch = auto.snap
    PROVE  /\ DmTypeOK' /\ Moves(Creator, Epoch(Creator) + 1)
           /\ conv'[Creator].by = Creator /\ conv'[Creator].stale = conv[Creator].stale
           /\ auto.at = "built" /\ auto.snap = Epoch(Creator) /\ auto' = NoJob
           /\ UNCHANGED <<forced, mishaps>>
           /\ welcomes' = welcomes \cup {Welcome(Joiner, KeyNow(Creator)')}
           /\ autoEpochs' = autoEpochs \cup {Epoch(Creator)'}
<1> DEFINE new == Advanced(conv[Creator], auto.target, Creator)
           k == [epoch |-> auto.target, by |-> Creator]
<1>1. /\ auto.at = "built" /\ auto' = NoJob
      /\ conv' = [conv EXCEPT ![Creator] = new]
      /\ welcomes' = welcomes \cup {Welcome(Joiner, k)}
      /\ autoEpochs' = autoEpochs \cup {auto.target}
      /\ UNCHANGED <<stuck, cooled, recovery, forced, frames, mobile, mishaps>>
  <2>1. conv' = [conv EXCEPT ![Creator] = new]  BY Ends DEF CommitAuto, Always, DmTypeOK
  <2> QED BY <2>1 DEF CommitAuto
<1>2. auto.target \in 0..MaxEpoch  BY DEF Always, DmTypeOK, Rotation
<1>3. new \in ConvType /\ new.epoch = auto.target /\ new.by = Creator /\ new.stale = conv[Creator].stale
  <2>1. Creator \in Device /\ DmTypeOK  BY Ends DEF Always
  <2> QED BY <1>2, <2>1, AdvancedTyped
<1>4. /\ conv' \in [Device -> ConvType] /\ conv'[Creator] = new /\ conv'[Joiner] = conv[Joiner]
  <2> HIDE DEF new
  <2> QED BY <1>1, <1>3, Ends DEF Always, DmTypeOK, ConvType
<1>5. /\ auto.target = Epoch(Creator) + 1 /\ auto.snap = Epoch(Creator) /\ Epoch(Creator) \in Nat
  BY <1>1, DmTypes, Ends DEF Always, JobInv, Epoch
<1>6. Welcome(Joiner, k) \in [to: Device, key: Key]
  BY <1>2, Ends DEF Welcome, Key
<1>7. auto' \in Rotation /\ auto.target \in 1..MaxEpoch
  BY <1>1, <1>2, <1>5, DmAssumption DEF Rotation, NoJob
<1>8. DmTypeOK'
  <2> HIDE DEF new, k
  <2>1. autoEpochs' \in SUBSET (1..MaxEpoch) /\ welcomes' \in SUBSET [to: Device, key: Key]
    BY <1>1, <1>6, <1>7 DEF Always, DmTypeOK
  <2> QED BY <1>1, <1>4, <1>7, <2>1 DEF Always, DmTypeOK, ConvType
<1>9. KeyNow(Creator)' = k /\ Epoch(Creator)' = auto.target
  <2> HIDE DEF new
  <2> QED BY <1>3, <1>4 DEF KeyNow, Epoch
<1> HIDE DEF new, k
<1>10. Moves(Creator, Epoch(Creator) + 1)
  BY <1>1, <1>4, <1>5, <1>9, Ends DEF Moves, Epoch
<1> QED BY <1>1, <1>3, <1>4, <1>5, <1>8, <1>9, <1>10

\* The scheduled rotation ends.
LEMMA CommitAutoStep ==
    ASSUME DmInv, CommitAuto
    PROVE  DmInv'
<1>1. CASE conv[Creator].epoch # auto.snap  BY <1>1, AutoStaleStep
<1>2. CASE conv[Creator].epoch = auto.snap
  <2>0. PICK e : e = Epoch(Creator) + 1  OBVIOUS
  <2>1. Always  BY DEF DmInv
  <2>2. /\ DmTypeOK' /\ Moves(Creator, e)
        /\ conv'[Creator].by = Creator /\ conv'[Creator].stale = conv[Creator].stale
        /\ auto.at = "built" /\ auto.snap = Epoch(Creator) /\ auto' = NoJob
        /\ UNCHANGED <<forced, mishaps>>
        /\ welcomes' = welcomes \cup {Welcome(Joiner, KeyNow(Creator)')}
        /\ autoEpochs' = autoEpochs \cup {e}
    <3>1. Moves(Creator, e)  BY <1>2, <2>0, <2>1, AutoEffect
    <3>2. Epoch(Creator)' = e  BY <3>1 DEF Moves
    <3> QED BY <1>2, <2>1, <3>1, <3>2, AutoEffect
  <2>3. /\ ~Valid(Creator)' /\ (Valid(Joiner)' <=> Valid(Joiner))
        /\ (Leads(Creator)' <=> e > Epoch(Joiner)) /\ (Leads(Joiner)' <=> Epoch(Joiner) > e)
        /\ Leads(Joiner)' => Leads(Joiner)
        /\ KeyNow(Joiner)' = KeyNow(Joiner)
        /\ Epoch(Creator) \in Nat /\ Epoch(Joiner) \in Nat
        /\ Spent(Joiner)' <=> Spent(Joiner)
    <3>1. forced'[Creator] = forced[Creator]  BY <2>2
    <3> QED BY <2>1, <2>2, <3>1, MoveEffect, Ends
  <2>4. /\ Epoch(Creator)' = e /\ e \in Nat /\ Epoch(Joiner)' = Epoch(Joiner)
        /\ conv'[Joiner] = conv[Joiner] /\ frames' = frames
    BY <2>2, Ends DEF Moves
  <2>5. SeenInv' /\ JobInv'
    BY <2>1, <2>2, <2>4, MoveAlways, Ends
  <2>6. WelcomeInv'
    <3>1. ASSUME NEW w \in welcomes
          PROVE  /\ w.key.by = Other(w.to) /\ w.key.epoch <= Epoch(Other(w.to))'
                 /\ w.key.epoch = Epoch(Other(w.to))' => conv'[Other(w.to)].by = Other(w.to)
      <4>1. w.to \in {Creator, Joiner} /\ w.key.epoch \in Nat  BY <2>1, DmTypes DEF Always, Device
      <4>2. /\ w.key.by = Other(w.to) /\ w.key.epoch <= Epoch(Other(w.to))
            /\ w.key.epoch = Epoch(Other(w.to)) => conv[Other(w.to)].by = Other(w.to)
        BY <2>1 DEF Always, WelcomeInv
      <4> QED BY <2>0, <2>2, <2>3, <2>4, <4>1, <4>2, Ends
    <3>2. ASSUME NEW w, w = Welcome(Joiner, KeyNow(Creator)')
          PROVE  /\ w.key.by = Other(w.to) /\ w.key.epoch <= Epoch(Other(w.to))'
                 /\ w.key.epoch = Epoch(Other(w.to))' => conv'[Other(w.to)].by = Other(w.to)
      <4>1. w.to = Joiner /\ w.key.epoch = Epoch(Creator)' /\ w.key.by = Creator
        BY <2>2, <3>2 DEF Welcome, KeyNow, Epoch
      <4> QED BY <2>2, <2>4, <4>1, Ends
    <3> QED BY <2>2, <3>1, <3>2 DEF WelcomeInv
  <2>7. ASSUME OnTime  PROVE OnTime'
    <3>1. Epoch(Creator) <= Epoch(Joiner) /\ e \in autoEpochs'
      BY <2>2, <2>7 DEF OnTime, AutoInv
    <3>2. Epoch(Creator) < e  BY <2>0, <2>3
    <3>3. Scheduled(e)' /\ Scheduled(e + 1)'  BY <3>1 DEF Scheduled
    <3>4. PendInv'
      <4>1. Leads(Creator)' => conv'[Creator].by = Creator /\ Welcome(Joiner, KeyNow(Creator)') \in welcomes'
        BY <2>2
      <4>2. Leads(Joiner)' => conv'[Joiner].by = Joiner /\ Welcome(Creator, KeyNow(Joiner)') \in welcomes'
        BY <2>2, <2>3, <2>4, <2>7, Ends DEF OnTime, PendInv
      <4> QED BY <4>1, <4>2, Ends DEF PendInv, Device
    <3>5. SpentInv'
      BY <2>2, <2>3, <2>4, <2>7, <3>1, Ends DEF OnTime, SpentInv, Device
    <3>6. AutoInv'
      BY <2>0, <2>2, <2>3, <2>4, <3>1 DEF AutoInv, NoJob
    <3>7. LowLead'
      <4>1. CASE LowId = Creator
        BY <4>1, <2>4, <3>3 DEF LowLead, Scheduled
      <4>2. CASE LowId = Joiner
        <5>1. HigherId = Creator  BY <4>2, Ends
        <5>2. (Leads(Joiner) /\ ~Scheduled(Epoch(Joiner))) => Epoch(Joiner) <= Epoch(Creator) + 1
          BY <4>2, <5>1, <2>7 DEF OnTime, LowLead
        <5> QED BY <2>0, <4>2, <5>1, <5>2, <2>2, <2>3, <2>4 DEF LowLead, Scheduled
      <4> QED BY <4>1, <4>2, Ends
    <3>8. HighLead'
      <4>1. CASE HigherId = Creator
        BY <4>1, <2>4, <3>3 DEF HighLead, Scheduled
      <4>2. CASE HigherId = Joiner
        <5>1. LowId = Creator  BY <4>2, Ends
        <5>2. SUFFICES ASSUME Leads(Joiner)', ~Scheduled(Epoch(Joiner))'  PROVE HighLead'
          BY <4>2 DEF HighLead
        <5>3. Leads(Joiner) /\ ~Scheduled(Epoch(Joiner)) /\ Epoch(Joiner) # e + 1
          BY <5>2, <2>2, <2>3, <2>4, <3>3 DEF Scheduled
        <5>4. /\ Epoch(Joiner) >= 2 /\ Epoch(Joiner) <= Epoch(Creator) + 3
              /\ conv[Creator].stale # Epoch(Joiner) - 1 /\ frames[Creator].epoch # Epoch(Joiner) - 1
              /\ \A w \in welcomes : w.to = Creator => w.key.epoch # Epoch(Joiner) - 1
          BY <4>2, <5>1, <5>3, <2>7 DEF OnTime, HighLead
        <5>5. \A w \in welcomes' : w.to = Creator => w.key.epoch # Epoch(Joiner) - 1
          BY <5>4, <2>2, Ends DEF Welcome
        <5> QED BY <2>0, <4>2, <5>1, <5>3, <5>4, <5>5, <2>2, <2>3, <2>4 DEF HighLead
      <4> QED BY <4>1, <4>2, Ends
    <3>9. TieNow'  BY <2>4, <3>3 DEF TieNow, Scheduled
    <3>10. TieNext'
      BY <2>3, <2>4, <3>3, Ends DEF TieNext, Scheduled, Device
    <3>11. TieBoth'  BY <2>3, Ends DEF TieBoth
    <3> QED BY <3>4, <3>5, <3>6, <3>7, <3>8, <3>9, <3>10, <3>11 DEF OnTime
  <2> QED BY <2>2, <2>5, <2>6, <2>7 DEF DmInv, Always
<1> QED BY <1>1, <1>2

-----------------------------------------------------------------------------
(* A Welcome arrives. *)

\* A Welcome that is not newer is only taken off the wire.
LEMMA OldWelcomeStep ==
    ASSUME DmInv, NEW w \in welcomes, TakeWelcome(w), ~(w.key.epoch > conv[w.to].epoch)
    PROVE  DmInv'
<1>1. /\ UNCHANGED <<conv, stuck, cooled, recovery, forced, auto, frames, mobile, autoEpochs,
                     mishaps>>
      /\ welcomes' = welcomes \ {w}
  BY DEF TakeWelcome
<1>2. Always  BY DEF DmInv
<1>3. Always'
  <2>1. DmTypeOK'  BY <1>1, <1>2 DEF Always, DmTypeOK
  <2>2. WelcomeInv' /\ SeenInv' /\ JobInv'
    BY <1>1, <1>2 DEF Always, WelcomeInv, SeenInv, JobInv, Epoch, Valid, Floor
  <2> QED BY <2>1, <2>2 DEF Always
<1>4. ASSUME OnTime  PROVE OnTime'
  <2>1. \A c \in Device : /\ Epoch(c)' = Epoch(c) /\ (Leads(c)' <=> Leads(c))
                          /\ KeyNow(c)' = KeyNow(c) /\ (Spent(c)' <=> Spent(c))
                          /\ (Valid(c)' <=> Valid(c))
    BY <1>1 DEF Epoch, Leads, KeyNow, Spent, Valid
  <2>2. PendInv'
    <3>1. ASSUME NEW c \in Device, Leads(c)  PROVE w # Welcome(Other(c), KeyNow(c))
      BY <3>1, Ends, DmTypes, <1>2 DEF Leads, Epoch, KeyNow, Welcome, Always
    <3> QED BY <1>1, <1>4, <2>1, <3>1 DEF OnTime, PendInv
  <2>3. SpentInv' /\ LowLead' /\ AutoInv'
    BY <1>1, <1>4, <2>1, Ends DEF OnTime, SpentInv, LowLead, AutoInv, Scheduled
  <2>4. HighLead'
    BY <1>1, <1>4, <2>1, Ends DEF OnTime, HighLead, Scheduled
  <2>5. TieNow' /\ TieNext' /\ TieBoth'
    BY <1>1, <1>4, <2>1, Ends DEF OnTime, TieNow, TieNext, TieBoth, Agree, Scheduled
  <2> QED BY <2>2, <2>3, <2>4, <2>5 DEF OnTime
<1> QED BY <1>1, <1>3, <1>4 DEF DmInv

\* A newer Welcome brings the receiver at most to where the sender is, and to the sender's
\* key if it gets there.
LEMMA NewWelcomeStep ==
    ASSUME DmInv, NEW w \in welcomes, TakeWelcome(w), w.key.epoch > conv[w.to].epoch
    PROVE  DmInv'
<1>0. PICK d \in Device, e \in Nat : d = w.to /\ e = w.key.epoch
  BY DmTypes DEF DmInv, Always
<1> DEFINE o == Other(d)
           new == Advanced(conv[d], e, w.key.by)
<1>1. /\ Always /\ w.key \in Key /\ e \in 0..MaxEpoch /\ w.key.by = o /\ o \in Device
      /\ Epoch(d) \in Nat /\ Epoch(o) \in Nat /\ e <= Epoch(o) /\ Epoch(d) < e
      /\ e = Epoch(o) => conv[o].by = o
  <2>1. Always /\ w.key \in Key  BY DmTypes DEF DmInv, Always
  <2>2. e \in 0..MaxEpoch  BY <1>0, <2>1 DEF Key
  <2>3. /\ w.key.by = o /\ e <= Epoch(o)
        /\ e = Epoch(o) => conv[o].by = o
    BY <1>0, <2>1 DEF Always, WelcomeInv
  <2>4. Epoch(d) \in Nat /\ Epoch(o) \in Nat /\ o \in Device
    BY <2>1, DmTypes, Ends DEF Always, Epoch
  <2>5. Epoch(d) < e  BY <1>0, <2>4 DEF Epoch
  <2> QED BY <2>1, <2>2, <2>3, <2>4, <2>5
<1>2. /\ welcomes' = welcomes \ {w} /\ conv' = [conv EXCEPT ![d] = new]
      /\ UNCHANGED <<stuck, cooled, recovery, forced, auto, frames, mobile, autoEpochs, mishaps>>
  BY <1>0, <1>1 DEF TakeWelcome, Always, DmTypeOK
<1>3. new \in ConvType /\ new.epoch = e /\ new.by = o /\ new.stale = conv[d].stale
  <2>1. DmTypeOK /\ d \in Device /\ o \in Device /\ e \in 0..MaxEpoch  BY <1>0, <1>1 DEF Always
  <2>2. new = Advanced(conv[d], e, o)  BY <1>1
  <2>3. /\ Advanced(conv[d], e, o) \in ConvType /\ Advanced(conv[d], e, o).epoch = e
        /\ Advanced(conv[d], e, o).by = o
    BY <2>1, AdvancedTyped
  <2>4. Advanced(conv[d], e, o).stale = conv[d].stale
    BY <2>1 DEF Advanced, DmTypeOK
  <2> QED BY <2>2, <2>3, <2>4
<1> HIDE DEF new
<1>4. conv' \in [Device -> ConvType] /\ conv'[d] = new /\ conv'[o] = conv[o]
  BY <1>1, <1>2, <1>3, Ends DEF Always, DmTypeOK, ConvType
<1>5. DmTypeOK'
  BY <1>1, <1>2, <1>4 DEF Always, DmTypeOK, ConvType
<1>6. Moves(d, e)
  BY <1>0, <1>1, <1>2, <1>3, <1>4 DEF Moves, Epoch
<1>7. /\ ~Valid(d)' /\ (Valid(o)' <=> Valid(o))
      /\ (Leads(d)' <=> e > Epoch(o)) /\ (Leads(o)' <=> Epoch(o) > e)
      /\ Leads(o)' => Leads(o)
      /\ KeyNow(o)' = KeyNow(o)
      /\ Spent(o)' <=> Spent(o)
      /\ ~Leads(d)'
  <2>1. forced'[d] = forced[d]  BY <1>2
  <2> QED BY <1>1, <1>6, <2>1, MoveEffect
<1>8. /\ Epoch(d)' = e /\ Epoch(o)' = Epoch(o) /\ conv'[d].by = o /\ conv'[d].stale = conv[d].stale
  BY <1>3, <1>4, <1>6 DEF Moves
<1>9. SeenInv' /\ JobInv'
  BY <1>1, <1>2, <1>5, <1>6, <1>8, MoveAlways
<1>10. o # d /\ Other(o) = d /\ \A c \in Device : c = d \/ c = o  BY Ends
<1>11. WelcomeInv'
  <2>1. SUFFICES ASSUME NEW v \in welcomes
        PROVE  /\ v.key.by = Other(v.to) /\ v.key.epoch <= Epoch(Other(v.to))'
               /\ v.key.epoch = Epoch(Other(v.to))' => conv'[Other(v.to)].by = Other(v.to)
    BY <1>2 DEF WelcomeInv
  <2>2. v.to \in Device /\ v.key.epoch \in Nat  BY <1>1, DmTypes DEF Always
  <2>3. /\ v.key.by = Other(v.to) /\ v.key.epoch <= Epoch(Other(v.to))
        /\ v.key.epoch = Epoch(Other(v.to)) => conv[Other(v.to)].by = Other(v.to)
    BY <1>1 DEF Always, WelcomeInv
  <2> QED BY <1>0, <1>1, <1>4, <1>8, <1>10, <2>2, <2>3
<1>12. ASSUME OnTime  PROVE OnTime'
  <2>1. PendInv'
    <3>1. SUFFICES ASSUME Leads(o)'  PROVE conv'[o].by = o /\ Welcome(d, KeyNow(o)') \in welcomes'
      BY <1>7, <1>10 DEF PendInv
    <3>2. conv[o].by = o /\ Welcome(d, KeyNow(o)) \in welcomes
      BY <3>1, <1>1, <1>7, <1>10, <1>12 DEF OnTime, PendInv
    <3>3. Welcome(d, KeyNow(o)).key.epoch = Epoch(o)  BY DEF Welcome, KeyNow, Epoch
    <3>4. Welcome(d, KeyNow(o)) # w  BY <3>1, <3>3, <1>0, <1>1, <1>7
    <3> QED BY <3>2, <3>4, <1>2, <1>4, <1>7
  <2>2. SpentInv'
    BY <1>1, <1>2, <1>7, <1>8, <1>10, <1>12 DEF OnTime, SpentInv
  <2>3. AutoInv'
    <3>1. CASE d = Creator
      <4>1. o = Joiner  BY <3>1, Ends
      <4>2. auto.at = "built" => auto.snap <= Epoch(Creator) /\ auto.snap \in Nat
        BY <1>1, DmTypes DEF Always, JobInv
      <4> QED BY <3>1, <4>1, <4>2, <1>1, <1>2, <1>7, <1>8 DEF AutoInv
    <3>2. CASE d = Joiner
      <4>1. o = Creator  BY <3>2, Ends
      <4>2. /\ (auto.at = "built" /\ auto.snap = Epoch(o)) => auto.snap <= Epoch(d)
            /\ (Leads(o) /\ Epoch(o) \in autoEpochs) => Epoch(o) <= Epoch(d) + 1
        BY <3>2, <4>1, <1>12 DEF OnTime, AutoInv
      <4> QED BY <3>2, <4>1, <4>2, <1>0, <1>1, <1>2, <1>7, <1>8 DEF AutoInv
    <3> QED BY <3>1, <3>2, Ends
  <2>4. LowLead'
    <3>1. CASE d = LowId
      BY <3>1, <1>7 DEF LowLead
    <3>2. CASE d = HigherId
      <4>1. o = LowId  BY <3>2, Ends
      <4>2. (Leads(o) /\ ~Scheduled(Epoch(o))) => Epoch(o) <= Epoch(d) + 1
        BY <3>2, <4>1, <1>12 DEF OnTime, LowLead
      <4> QED BY <3>2, <4>1, <4>2, <1>0, <1>1, <1>2, <1>7, <1>8 DEF LowLead, Scheduled
    <3> QED BY <3>1, <3>2, Ends
  <2>5. HighLead'
    <3>1. CASE d = HigherId
      BY <3>1, <1>7 DEF HighLead
    <3>2. CASE d = LowId
      <4>1. o = HigherId  BY <3>2, Ends
      <4>2. SUFFICES ASSUME Leads(o)', ~Scheduled(Epoch(HigherId))'  PROVE HighLead'
        BY <4>1 DEF HighLead
      <4>3. Leads(o) /\ ~Scheduled(Epoch(o))
        BY <4>1, <4>2, <1>2, <1>7, <1>8 DEF Scheduled
      <4>4. /\ Epoch(o) >= 2 /\ Epoch(o) <= Epoch(d) + 3
            /\ conv[d].stale # Epoch(o) - 1 /\ frames[d].epoch # Epoch(o) - 1
            /\ \A v \in welcomes : v.to = d => v.key.epoch # Epoch(o) - 1
        BY <3>2, <4>1, <4>3, <1>12 DEF OnTime, HighLead
      <4>5. e # Epoch(o) - 1  BY <4>4, <1>0
      <4> QED BY <3>2, <4>1, <4>4, <4>5, <1>0, <1>1, <1>2, <1>4, <1>8 DEF HighLead
    <3> QED BY <3>1, <3>2, Ends
  <2>6. TieNow'
    <3>1. SUFFICES ASSUME Epoch(Creator)' = Epoch(Joiner)'  PROVE Agree'
      BY DEF TieNow
    <3>2. e = Epoch(o)  BY <3>1, <1>8, <1>10, Ends
    <3>3. KeyNow(d)' = KeyNow(o)'
      BY <3>2, <1>1, <1>4, <1>8 DEF KeyNow, Epoch
    <3> QED BY <3>3, <1>10, Ends DEF Agree
  <2>7. TieNext'
    BY <1>7, <1>10 DEF TieNext
  <2>8. TieBoth'  BY <1>7, Ends DEF TieBoth
  <2> QED BY <2>1, <2>2, <2>3, <2>4, <2>5, <2>6, <2>7, <2>8 DEF OnTime
<1> QED BY <1>2, <1>5, <1>9, <1>11, <1>12 DEF DmInv, Always

-----------------------------------------------------------------------------
(* The theorems. *)

\* The invariant holds at the start.
LEMMA DmInvInit == DmInit => DmInv
<1> SUFFICES ASSUME DmInit  PROVE DmInv  OBVIOUS
<1>1. DmTypeOK
  BY DmAssumption DEF DmInit, DmTypeOK, Device, Rotation, NoJob, NoFrame, Key
<1>2. \A d \in Device : /\ Epoch(d) = 0 /\ conv[d].by = Creator /\ conv[d].stale = 0
                        /\ frames[d].epoch = 0 /\ ~Leads(d)
                        /\ forced[d] = NoJob /\ ~Valid(d)
  BY Ends DEF DmInit, Epoch, Leads, NoFrame, Valid, NoJob
<1>3. welcomes = {} /\ autoEpochs = {} /\ auto = NoJob  BY DEF DmInit
<1>4. Always
  BY <1>1, <1>2, <1>3, Ends DEF Always, WelcomeInv, SeenInv, JobInv, NoJob
<1>5. OnTime
  BY <1>2, <1>3, Ends DEF OnTime, PendInv, SpentInv, AutoInv, LowLead, HighLead, TieNow, TieNext,
                          TieBoth, Agree, KeyNow, Epoch, NoJob
<1> QED BY <1>4, <1>5 DEF DmInv

\* Every step keeps the invariant.
LEMMA DmInvStep == DmInv /\ [DmNext]_dmVars => DmInv'
<1> SUFFICES ASSUME DmInv, [DmNext]_dmVars  PROVE DmInv'  OBVIOUS
<1>1. ASSUME DmTypeOK' /\ Quiet  PROVE DmInv'
  <2>1. Always /\ mishaps' = mishaps  BY <1>1 DEF DmInv, Quiet
  <2>2. Always'  BY <1>1, <2>1, QuietAlways
  <2>3. OnTime => OnTime'  BY <1>1, <2>1, QuietOnTime
  <2> QED BY <2>1, <2>2, <2>3 DEF DmInv
<1>2. DmTypeOK  BY DEF DmInv, Always
<1>3. ASSUME NEW d \in Device, Talk(d)  PROVE DmInv'  BY <1>1, <1>2, <1>3, TalkQuiet
<1>4. ASSUME NEW d \in Device, Opens(d)  PROVE DmInv'  BY <1>1, <1>2, <1>4, OpensQuiet
<1>5. ASSUME NEW d \in Device, Stale(d) \/ FailsToOpen(d)  PROVE DmInv'
  BY <1>1, <1>2, <1>5, BadQuiet
<1>6. ASSUME NEW d \in Device, PriorsLapse(d)  PROVE DmInv'  BY <1>1, <1>2, <1>6, LapseQuiet
<1>7. ASSUME NEW d \in Device, CoolsDown(d)  PROVE DmInv'  BY <1>7, CoolsDownStep
<1>8. ASSUME NEW d \in Device, WatchdogForces(d)  PROVE DmInv'  BY <1>1, <1>2, <1>8, WatchdogQuiet
<1>9. ASSUME NEW d \in Device, Snapshot(d)  PROVE DmInv'  BY <1>9, SnapshotStep
<1>10. ASSUME NEW d \in Device, CommitForced(d)  PROVE DmInv'  BY <1>10, CommitForcedStep
<1>11. ASSUME NEW d \in Device, ForcedFails(d)  PROVE DmInv'  BY <1>11, ForcedFailsStep
<1>12. CASE AutoBegins  BY <1>12, AutoBeginsStep
<1>13. CASE CommitAuto  BY <1>13, CommitAutoStep
<1>14. ASSUME NEW w \in welcomes, TakeWelcome(w)  PROVE DmInv'
  BY <1>14, OldWelcomeStep, NewWelcomeStep
<1>15. ASSUME NEW w \in welcomes, LoseWelcome(w)  PROVE DmInv'  BY <1>15, LoseWelcomeStep
<1>16. CASE UNCHANGED dmVars
  <2>1. DmTypeOK'  BY <1>2, <1>16 DEF dmVars, DmTypeOK
  <2>2. Quiet  BY <1>16 DEF dmVars, Quiet
  <2> QED BY <1>1, <2>1, <2>2
<1> QED BY <1>3, <1>4, <1>5, <1>6, <1>7, <1>8, <1>9, <1>10, <1>11, <1>12, <1>13, <1>14, <1>15,
           <1>16 DEF DmNext

\* The invariant holds throughout.
THEOREM DmInvariant == DmSpec => []DmInv
BY DmInvInit, DmInvStep, PTL DEF DmSpec

\* The keys, jobs, frames and Welcomes of a direct conversation are of their kinds.
THEOREM DmTypeCorrect == DmSpec => []DmTypeOK
<1>1. DmInv => DmTypeOK  BY DEF DmInv, Always
<1> QED BY <1>1, DmInvariant, PTL

\* The tiebreak of force_rekey_dm works: once the Welcomes are in and nothing was lost or
\* late, the two ends hold one key, or an epoch that a scheduled rotation was part of.
THEOREM DmSettledAgrees == DmSpec => []SettledAgrees
<1>1. DmInv => SettledAgrees
  <2>1. SUFFICES ASSUME DmInv, Settled, mishaps = 0
                 PROVE  \/ Agree
                        \/ conv[Creator].epoch = conv[Joiner].epoch /\ Scheduled(conv[Creator].epoch)
    BY DEF SettledAgrees
  <2>2. \A d \in Device : ~Leads(d)
    BY <2>1 DEF DmInv, OnTime, PendInv, Settled
  <2>3. Epoch(Creator) = Epoch(Joiner)
    <3>1. Epoch(Creator) \in Nat /\ Epoch(Joiner) \in Nat  BY <2>1, DmTypes, Ends DEF DmInv, Always, Epoch
    <3> QED BY <3>1, <2>2, Ends DEF Leads
  <2> QED BY <2>1, <2>3 DEF DmInv, OnTime, TieNow, Epoch
<1> QED BY <1>1, DmInvariant, PTL

-----------------------------------------------------------------------------
(* The two repairs together: the specification the run recovery checks. *)

\* A step of the views is a step of one component, and the other one stutters.
LEMMA RepairViewsStep ==
    ASSUME [Next]_vars
    PROVE  [RecoveryNext]_recoveryVars /\ [DmNext]_dmVars
<1>1. CASE RecoveryNext /\ UNCHANGED <<part, dmVars>>  BY <1>1, Zenon
<1>2. CASE DmNext /\ UNCHANGED <<part, recoveryVars>>  BY <1>2, Zenon
<1>3. CASE UNCHANGED vars  BY <1>3, Zenon DEF vars
<1> QED BY <1>1, <1>2, <1>3, Zenon DEF Next

\* A behaviour of the views is one of each component, so all that is proved of the group's
\* catch-up and of the re-key holds of the specification the run checks.
THEOREM RepairViewsFaithful ==
    Spec => /\ RecoveryInit /\ [][RecoveryNext]_recoveryVars
            /\ DmInit /\ [][DmNext]_dmVars
<1>1. Init => RecoveryInit /\ DmInit  BY DEF Init
<1>2. [Next]_vars => [RecoveryNext]_recoveryVars /\ [DmNext]_dmVars  BY RepairViewsStep
<1> QED BY <1>1, <1>2, PTL DEF Spec

\* Every variable of the two repairs holds a value of its kind, for any number of joins,
\* rotations and mishaps, any log and any chunking.
THEOREM RepairTypeCorrect == Spec => []RepairTypeOK
<1> DEFINE Inv == RecoveryInv /\ DmInv
<1>1. Init => Inv  BY RecoveryInvInit, DmInvInit DEF Init
<1>2. Inv /\ [Next]_vars => Inv'  BY RepairViewsStep, RecoveryInvStep, DmInvStep, Zenon
<1>3. Inv => RepairTypeOK
  <2>1. RecoveryInv => RecoveryTypeOK  BY DEF RecoveryInv
  <2>2. DmInv => DmTypeOK  BY DEF DmInv, Always
  <2> QED BY <2>1, <2>2 DEF RepairTypeOK
<1> QED BY <1>1, <1>2, <1>3, PTL DEF Spec
=============================================================================
