---------------------------- MODULE GroupRecovery ----------------------------
(***************************************************************************)
(* Epoch recovery of one member of one private group over the relay's      *)
(* durable group log.                                                      *)
(*                                                                         *)
(* The owner appends two records for every join, a JoinResult only the     *)
(* joiner may fetch and a Commit for everyone, and fans the commit out     *)
(* live.  A member that misses a live commit falls behind; a stale frame   *)
(* or the wedge watchdog then starts one recovery pass, which reads the    *)
(* log past its cursor and applies what it finds in sequence order.  The   *)
(* reply to a fetch comes in chunks without a correlation id, and a fetch  *)
(* that timed out leaves its chunks on the way.                            *)
(***************************************************************************)
EXTENDS Naturals, FiniteSets, Sequences

CONSTANTS
    MaxJoins,      \* bound: joins the owner answers
    LogCap,        \* per_group_cap
    Chunk,         \* LOG_RECORDS_CHUNK
    MaxSetbacks    \* bound: appends lost, records expired, replies cut short, batches
                   \* or probes failed, fetches given up on with frames in flight, restarts

ASSUME RecoveryAssumption ==
    /\ MaxJoins \in Nat /\ MaxSetbacks \in Nat
    /\ LogCap \in Nat \ {0} /\ Chunk \in Nat \ {0}

VARIABLES
    log,          \* the stored records
    nextSeq,      \* the group's sequence watermark
    appended,     \* history: every record ever stored
    forgot,       \* history: a relay process lost the log and its watermark
    groupEpoch,   \* the owner's epoch
    owed,         \* the records of the last join the owner has not appended yet
    epoch,        \* the member's epoch, in its daemon
    cursor,       \* recovery_cursors: the last sequence applied, in RAM
    requests,     \* LogFetch frames on their way to the relay
    wire,         \* LogRecords frames on their way back
    chan,         \* LogRecords frames the reader has routed to log_fetch
    drv,          \* the recovery pass in flight, if any (`recovering`)
    status,       \* GroupStatusMap
    engineA,      \* whether the daemon has the apply endpoints, as far as is known
    daemon,       \* "fork" has them, "stock" does not
    setbacks

recoveryVars == <<log, nextSeq, appended, forgot, groupEpoch, owed, epoch, cursor, requests, wire,
                  chan, drv, status, engineA, daemon, setbacks>>

-----------------------------------------------------------------------------
(* Data.  "mine" and "foreign" are JoinResults addressed to this member and to another. *)

Kinds == {"commit", "mine", "foreign"}
LogRecord == [seq: Nat, kind: Kinds, epoch: Nat]

Visible(r) == r.kind # "foreign"
Oldest(S) == CHOOSE r \in S : \A o \in S : r.seq <= o.seq

\* A set of records in ascending sequence.  There is one such order, as a sequence number
\* names one record.
InSeqOrder(S) ==
    {q \in [1..Cardinality(S) -> S] : \A i, j \in DOMAIN q : i < j => q[i].seq < q[j].seq}

\* The ordered records cut into chunks; the last one says done.
Chunks(q) ==
    LET n == IF q = << >> THEN 1 ELSE (Len(q) + Chunk - 1) \div Chunk
    IN  [i \in 1..n |->
            [records |-> SubSeq(q, (i - 1) * Chunk + 1,
                                IF i * Chunk < Len(q) THEN i * Chunk ELSE Len(q)),
             done |-> i = n]]

NoPass == [at |-> "idle", target |-> 0, got |-> << >>]
InPass(s) == drv.at = s

Setback == setbacks < MaxSetbacks /\ setbacks' = setbacks + 1

-----------------------------------------------------------------------------
(* The owner and the log. *)

\* The owner answers a join: its epoch advances, and two appends are owed.
OwnerJoins(kind) ==
    /\ groupEpoch < MaxJoins /\ owed = << >>
    /\ groupEpoch' = groupEpoch + 1
    /\ owed' = <<[seq |-> 0, kind |-> kind, epoch |-> groupEpoch + 1],
                 [seq |-> 0, kind |-> "commit", epoch |-> groupEpoch + 1]>>
    /\ UNCHANGED <<log, nextSeq, appended, forgot, epoch, cursor, requests, wire, chan, drv, status,
                   engineA, daemon, setbacks>>

\* The sequence after the newest stored record, which an emptied log forgets.
StoreAfterNewest(r) ==
    LET kept == IF Cardinality(log) >= LogCap THEN log \ {Oldest(log)} ELSE log
        seq == IF log = {} THEN 1 ELSE 1 + (CHOOSE n \in {o.seq : o \in log} :
                                               \A o \in log : o.seq <= n)
        new == [r EXCEPT !.seq = seq]
    IN  /\ log' = kept \cup {new} /\ appended' = appended \cup {new} /\ nextSeq' = seq + 1

\* GroupLogStore::append: the watermark gives the sequence, the oldest record makes room.
StoreRecord(r) ==
    LET kept == IF Cardinality(log) >= LogCap THEN log \ {Oldest(log)} ELSE log
        new == [r EXCEPT !.seq = nextSeq]
    IN  /\ log' = kept \cup {new} /\ appended' = appended \cup {new} /\ nextSeq' = nextSeq + 1

\* handle_log_append.  An append is fire and forget: dropped on a dead connection,
\* throttled, or refused at the byte cap, it is not repeated.
AppendOwed(lost) ==
    /\ owed # << >> /\ owed' = Tail(owed)
    /\ IF lost
       THEN Setback /\ UNCHANGED <<log, appended, nextSeq>>
       ELSE StoreRecord(Head(owed)) /\ UNCHANGED setbacks
    /\ UNCHANGED <<forgot, groupEpoch, epoch, cursor, requests, wire, chan, drv, status, engineA,
                   daemon>>

\* sweep_expired: the retention window passes for the oldest record.
SweepLog ==
    /\ log # {} /\ Setback
    /\ log' = log \ {Oldest(log)}
    /\ UNCHANGED <<nextSeq, appended, forgot, groupEpoch, owed, epoch, cursor, requests, wire, chan,
                   drv, status, engineA, daemon>>

\* The relay's process ends and comes back: connections drop with their frames, and with
\* RamGroupLog, the backend of a relay without a database, the log and its watermark go too.
\* With neither a frame on the way nor a log in RAM nobody notices.
RelayRestarts(ram) ==
    /\ ram \/ requests # << >> \/ wire # << >>
    /\ Setback
    /\ IF ram THEN log' = {} /\ nextSeq' = 1 /\ forgot' = TRUE ELSE UNCHANGED <<log, nextSeq, forgot>>
    /\ requests' = << >> /\ wire' = << >>
    /\ UNCHANGED <<appended, groupEpoch, owed, epoch, cursor, chan, drv, status, engineA, daemon>>

\* The commit fanned out live arrives in order; a missed one is never sent again.
LiveCommit ==
    /\ epoch < groupEpoch /\ epoch' = epoch + 1
    /\ UNCHANGED <<log, nextSeq, appended, forgot, groupEpoch, owed, cursor, requests, wire, chan, drv,
                   status, engineA, daemon, setbacks>>

\* handle_log_fetch: what lies past the cursor, without the join results of others.  A
\* full channel drops the chunks that are left.
Serve ==
    /\ requests # << >> /\ requests' = Tail(requests)
    /\ \E q \in InSeqOrder({r \in log : r.seq > Head(requests) /\ Visible(r)}) :
          \/ wire' = wire \o Chunks(q) /\ UNCHANGED setbacks
          \/ /\ Setback
             /\ \E n \in 0..Len(Chunks(q)) - 1 : wire' = wire \o SubSeq(Chunks(q), 1, n)
    /\ UNCHANGED <<log, nextSeq, appended, forgot, groupEpoch, owed, epoch, cursor, chan, drv, status,
                   engineA, daemon>>

ChunkArrives ==
    /\ wire # << >> /\ wire' = Tail(wire) /\ chan' = Append(chan, Head(wire))
    /\ UNCHANGED <<log, nextSeq, appended, forgot, groupEpoch, owed, epoch, cursor, requests, drv,
                   status, engineA, daemon, setbacks>>

-----------------------------------------------------------------------------
(* The recovery pass: trigger_group_recovery and EpochRecoveryDriver::recover_once. *)

Behind == epoch < groupEpoch

\* A pass may start: the status flips first, and one pass per group runs at a time.
Trigger(target) ==
    /\ Behind /\ status' = "reconnecting"
    /\ drv' = IF InPass("idle") THEN [NoPass EXCEPT !.at = "probe", !.target = target] ELSE drv
    /\ UNCHANGED <<log, nextSeq, appended, forgot, groupEpoch, owed, epoch, cursor, requests, wire,
                   chan, engineA, daemon, setbacks>>

\* An inbound frame of a later epoch: its epoch is the target.
StaleFrame == \E t \in epoch + 1..groupEpoch : Trigger(t)

\* Receipts flow and nothing decrypts: a sweep without a target.  The watchdog leaves a
\* group alone that is reconnecting already.
Watchdog == status = "live" /\ Trigger(0)

Converged == drv.target # 0 /\ epoch >= drv.target

\* Caught up with the target already: done.  Otherwise the warm loop begins.
Probe ==
    /\ InPass("probe")
    /\ IF Converged
       THEN drv' = NoPass /\ status' = "live"
       ELSE drv' = [drv EXCEPT !.at = "fetch"] /\ status' = "reconnecting"
    /\ UNCHANGED <<log, nextSeq, appended, forgot, groupEpoch, owed, epoch, cursor, requests, wire,
                   chan, engineA, daemon, setbacks>>

\* The daemon does not answer the first probe, or the one after an empty fetch: the pass
\* ends with the error.
ProbeFails ==
    /\ InPass("probe") \/ (InPass("apply") /\ drv.got = << >>)
    /\ Setback
    /\ drv' = NoPass
    /\ UNCHANGED <<log, nextSeq, appended, forgot, groupEpoch, owed, epoch, cursor, requests, wire,
                   chan, status, engineA, daemon>>

\* The fetch asks past the record after the cursor.
FetchPastNext ==
    /\ InPass("fetch")
    /\ IF engineA
       THEN /\ chan' = << >> /\ requests' = Append(requests, cursor + 1)
            /\ drv' = [drv EXCEPT !.at = "await", !.got = << >>]
       ELSE /\ drv' = [drv EXCEPT !.at = "apply", !.got = << >>]
            /\ UNCHANGED <<chan, requests>>
    /\ UNCHANGED <<log, nextSeq, appended, forgot, groupEpoch, owed, epoch, cursor, wire, status,
                   engineA, daemon, setbacks>>

\* log_fetch: drain what arrived late, ask for everything past the cursor.  Without the
\* apply endpoints the source is empty.
Fetch ==
    /\ InPass("fetch")
    /\ IF engineA
       THEN /\ chan' = << >> /\ requests' = Append(requests, cursor)
            /\ drv' = [drv EXCEPT !.at = "await", !.got = << >>]
       ELSE /\ drv' = [drv EXCEPT !.at = "apply", !.got = << >>]
            /\ UNCHANGED <<chan, requests>>
    /\ UNCHANGED <<log, nextSeq, appended, forgot, groupEpoch, owed, epoch, cursor, wire, status,
                   engineA, daemon, setbacks>>

\* The next chunk, whichever fetch it answers.
TakeChunk ==
    /\ InPass("await") /\ chan # << >> /\ chan' = Tail(chan)
    /\ drv' = [drv EXCEPT !.got = @ \o Head(chan).records,
                          !.at = IF Head(chan).done THEN "apply" ELSE "await"]
    /\ UNCHANGED <<log, nextSeq, appended, forgot, groupEpoch, owed, epoch, cursor, requests, wire,
                   status, engineA, daemon, setbacks>>

\* No chunk within the deadline: the pass ends with an error, the cursor where it was.
\* The frames on their way are not recalled, unless the connection died.
InFlight == requests # << >> \/ wire # << >> \/ chan # << >>

FetchTimesOut(dead) ==
    /\ InPass("await")
    /\ IF InFlight THEN Setback ELSE UNCHANGED setbacks
    /\ drv' = NoPass
    /\ IF dead THEN requests' = << >> /\ wire' = << >> ELSE UNCHANGED <<requests, wire>>
    /\ UNCHANGED <<log, nextSeq, appended, forgot, groupEpoch, owed, epoch, cursor, chan, status,
                   engineA, daemon>>

\* Every commit is applied, one the daemon already has among them.
AfterAnyCommit(e, r) == IF r.kind = "commit" THEN e + 1 ELSE e

\* The daemon's verdict on one record at epoch e: a commit it can apply is applied, one
\* it has is a 409, any other is refused for good (4xx), and skipped either way.
After(e, r) == IF r.kind = "commit" /\ r.epoch = e + 1 THEN e + 1 ELSE e

\* A pass over a batch, so far: the cursor, the epoch, and whether a gap stopped it.
Begun == [c |-> cursor, e |-> epoch, gap |-> FALSE]

\* The record after a hole is applied like any other.
StepOverGap(s, r) ==
    IF r.seq <= s.c THEN s ELSE [c |-> r.seq, e |-> After(s.e, r), gap |-> s.gap]

\* apply_records_in_order, for one record: one behind the cursor is skipped, one past a
\* hole stops the pass.
Step(s, r) ==
    IF s.gap \/ r.seq <= s.c THEN s
    ELSE IF r.seq = s.c + 1 THEN [c |-> r.seq, e |-> After(s.e, r), gap |-> FALSE]
    ELSE [s EXCEPT !.gap = TRUE]

\* The pass after the whole batch.
Run(batch) ==
    LET run[n \in 0..Len(batch)] == IF n = 0 THEN Begun ELSE Step(run[n - 1], batch[n])
    IN  run[Len(batch)]

\* The batch is applied, the group probed again; a gap ends the pass, and so does a probe
\* without an answer, an advanced cursor goes round for more.
ApplyBatch ==
    /\ InPass("apply") /\ drv.got # << >> /\ daemon = "fork"
    /\ LET s == Run(drv.got)
           reached == drv.target # 0 /\ s.e >= drv.target IN
       /\ epoch' = s.e /\ cursor' = s.c
       /\ \/ s.gap /\ drv' = NoPass /\ UNCHANGED <<status, setbacks>>
          \/ ~s.gap /\ reached /\ drv' = NoPass /\ status' = "live" /\ UNCHANGED setbacks
          \/ ~s.gap /\ ~reached /\ drv' = [drv EXCEPT !.at = "fetch"] /\ UNCHANGED <<status, setbacks>>
          \/ ~s.gap /\ Setback /\ drv' = NoPass /\ UNCHANGED status
    /\ UNCHANGED <<log, nextSeq, appended, forgot, groupEpoch, owed, requests, wire, chan, engineA,
                   daemon>>

\* The daemon fails or has no such route: the pass ends, the cursor stays before the
\* batch although its first records may have been applied.
ApplyFails ==
    /\ InPass("apply") /\ drv.got # << >>
    /\ drv' = NoPass
    /\ IF daemon = "stock"
       THEN engineA' = FALSE /\ UNCHANGED <<epoch, setbacks>>
       ELSE /\ Setback
            /\ \E n \in 0..Len(drv.got) - 1 : epoch' = Run(SubSeq(drv.got, 1, n)).e
            /\ UNCHANGED engineA
    /\ UNCHANGED <<log, nextSeq, appended, forgot, groupEpoch, owed, cursor, requests, wire, chan,
                   status, daemon>>

\* Nothing past the cursor: done if there is no target or it is reached, and otherwise
\* left reconnecting.
Drained ==
    /\ InPass("apply") /\ drv.got = << >>
    /\ drv' = NoPass
    /\ status' = IF drv.target = 0 \/ Converged THEN "live" ELSE status
    /\ UNCHANGED <<log, nextSeq, appended, forgot, groupEpoch, owed, epoch, cursor, requests, wire,
                   chan, engineA, daemon, setbacks>>

\* The process ends: cursors, statuses and the latch are RAM; the daemon's epoch is not.
Reboot ==
    /\ Setback
    /\ cursor' = 0 /\ drv' = NoPass /\ status' = "live" /\ engineA' = TRUE
    /\ requests' = << >> /\ wire' = << >> /\ chan' = << >>
    /\ UNCHANGED <<log, nextSeq, appended, forgot, groupEpoch, owed, epoch, daemon>>

-----------------------------------------------------------------------------
RecoveryInit ==
    /\ log = {} /\ nextSeq = 1 /\ appended = {} /\ forgot = FALSE
    /\ groupEpoch = 0 /\ owed = << >> /\ epoch = 0 /\ cursor = 0
    /\ requests = << >> /\ wire = << >> /\ chan = << >>
    /\ drv = NoPass /\ status = "live"
    /\ engineA = TRUE /\ daemon \in {"fork", "stock"}
    /\ setbacks = 0

PassNext ==
    \/ Probe \/ Fetch \/ TakeChunk \/ ApplyBatch \/ ApplyFails \/ Drained

RecoveryNext ==
    \/ \E kind \in {"mine", "foreign"} : OwnerJoins(kind)
    \/ \E b \in BOOLEAN : AppendOwed(b) \/ FetchTimesOut(b) \/ RelayRestarts(b)
    \/ SweepLog \/ LiveCommit \/ Serve \/ ChunkArrives
    \/ StaleFrame \/ Watchdog \/ PassNext \/ ProbeFails \/ Reboot

\* The pass runs and its deadline passes, the relay answers, and frames of the live epoch
\* keep coming.
RecoveryFairness ==
    /\ WF_recoveryVars(PassNext \/ (~InFlight /\ FetchTimesOut(FALSE)))
    /\ WF_recoveryVars(Serve) /\ WF_recoveryVars(ChunkArrives) /\ WF_recoveryVars(StaleFrame)

RecoverySpec == RecoveryInit /\ [][RecoveryNext]_recoveryVars /\ RecoveryFairness

-----------------------------------------------------------------------------
(* Properties. *)

LogFrame == [records: Seq(LogRecord), done: BOOLEAN]

\* Every variable holds a value of its kind.
RecoveryTypeOK ==
    /\ log \in SUBSET LogRecord /\ appended \in SUBSET LogRecord /\ nextSeq \in Nat \ {0}
    /\ groupEpoch \in 0..MaxJoins /\ owed \in Seq(LogRecord)
    /\ epoch \in 0..MaxJoins /\ cursor \in Nat
    /\ requests \in Seq(Nat) /\ wire \in Seq(LogFrame) /\ chan \in Seq(LogFrame)
    /\ drv \in [at: {"idle", "probe", "fetch", "await", "apply"}, target: 0..MaxJoins,
                got: Seq(LogRecord)]
    /\ status \in {"live", "reconnecting"}
    /\ engineA \in BOOLEAN /\ daemon \in {"fork", "stock"} /\ setbacks \in 0..MaxSetbacks

\* Whether the owner's commit to epoch e got into the log at all.
Logged(e) == \E r \in appended : r.kind = "commit" /\ r.epoch = e

\* The cursor never passes a commit that was still to be applied: a commit behind it is
\* in the member's epoch, or some commit before it never reached the log.  Neither a
\* late chunk of an abandoned fetch, nor eviction, nor a truncated reply, nor a restart
\* of the member or of a durable relay makes it skip one (apply_records_in_order).  A relay
\* that lost RamGroupLog is the exception: it puts new commits behind the live cursor.
CursorSkipsNothing ==
    ~forgot => \A r \in appended :
        (r.kind = "commit" /\ r.seq <= cursor) =>
            r.epoch <= epoch \/ \E e \in 1..r.epoch : ~Logged(e)

\* A sequence number names one record for as long as the group lives, although eviction
\* and the retention window empty the log and a durable relay restarts (the watermark of
\* GroupLogStore).  A relay that lost RamGroupLog starts again at 1: after that it holds
\* only of the records the relay has.
SeqNamesOne ==
    LET known == IF forgot THEN log ELSE appended
    IN  \A r, s \in known : r.seq = s.seq => r = s

\* Every commit the member lacks is in the log, past its cursor, and its daemon can apply it.
InLog ==
    /\ daemon = "fork"
    /\ \A e \in epoch + 1..groupEpoch :
           \E r \in log : r.seq > cursor /\ r.kind = "commit" /\ r.epoch = e

\* No hole past the cursor: nothing evicted, and no join result of another member.
NoHole == \A n \in cursor + 1..nextSeq - 1 : \E r \in log : r.seq = n /\ Visible(r)

\* A reply of an abandoned fetch is on its way when the next one asks: it is taken for the
\* answer, and the answer then is the next fetch's stray.
Stray == InFlight /\ ~InPass("await")

\* Once everything the member lacks is in the log and nothing past its cursor is hidden from
\* it, recovery catches up, given that stale frames keep coming and no reply is a stray.
\* Every join of another member leaves a hole: RecoversFromLog is what that costs.
CatchesUp == <>[]((Behind => InLog /\ NoHole) /\ ~Stray) => []<>~Behind

\* "Records are appended BEFORE the live sends, so a member that misses the live frame
\* recovers from the log instead of desyncing permanently" (groups/group_log.rs).
RecoversFromLog == <>[]((Behind => InLog) /\ ~Stray) => []<>~Behind
=============================================================================
