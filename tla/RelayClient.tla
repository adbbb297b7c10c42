----------------------------- MODULE RelayClient -----------------------------
(***************************************************************************)
(* The client's end of one relay session: the supervisor task that owns    *)
(* the WebSocket, its reader and keepalive tasks, and the reconnect loop.  *)
(*                                                                         *)
(* The supervisor takes one command at a time from an unbounded queue.  A  *)
(* send is answered inside that loop (`do_send` is awaited in it), so a    *)
(* send that waits holds up every command behind it, the Disconnected      *)
(* signal of the reader included.  The sender half of the socket is behind *)
(* an async mutex that the keepalive task takes as well.  Two of the waits *)
(* are bounded by a timeout (do_send's write and its wait for the Ack);    *)
(* the wait for the mutex, every other write and the opening of a session  *)
(* are not, and the fairness below promises them nothing.                  *)
(***************************************************************************)
EXTENDS Naturals, FiniteSets, Sequences

CONSTANTS
    Send,            \* calls of Client::send
    KeyOf,           \* KeyOf[s]: the dedupe key of call s; a retry may reuse one
    Contact,         \* agents whose presence may be watched
    Lists,           \* the lists of them that watch and unwatch calls name; an empty one is no call
    SessionCap,      \* MAX_WATCHES_PER_SESSION, as this client's session meets it
    ReconnectCap,    \* max_reconnect_attempts; 0 is None, retry forever
    MaxGen,          \* bound: connections opened
    MaxCalls,        \* bound: watch, frame, reconnect_now and shutdown calls
    MaxFaults        \* bound: stalls, breaks, byes and late pongs

ASSUME ClientAssumption ==
    /\ Send # {} /\ DOMAIN KeyOf = Send /\ IsFiniteSet(Contact)
    /\ Lists \subseteq SUBSET Contact /\ {} \notin Lists /\ SessionCap \in Nat
    /\ ReconnectCap \in Nat /\ MaxGen \in Nat \ {0} /\ MaxCalls \in Nat /\ MaxFaults \in Nat

VARIABLES
    cmds,       \* the command queue (cmd_rx)
    sup,        \* the supervisor task: where it is and what it holds
    inner,      \* generation of the installed connection, 0 = None
    nextGen,    \* next_gen
    attempts,   \* failed open_session calls of this reconnect, counted when capped
    watchSet,   \* the supervisor's authoritative watch set
    connState,  \* what connection_state reports
    socket,     \* the installed connection: transport, tasks, mutex, outbox, wires
    relaySide,  \* the relay: keys accepted, agents watched, watches ignored past the cap
    result,     \* the answer of each call of send
    raised,     \* history: generations whose own tasks reported them dead
    calls,      \* calls made besides send
    faults      \* stalls, breaks, byes and late pongs so far

clientVars == <<cmds, sup, inner, nextGen, attempts, watchSet, connState, socket,
                relaySide, result, raised, calls, faults>>

-----------------------------------------------------------------------------
(* Data. *)

Key == {KeyOf[s] : s \in Send}
Gen == 1..MaxGen

SendCmd(s) == [op |-> "send", arg |-> s]
WatchCmd(agents, on) == [op |-> "watch", arg |-> <<agents, on>>]
\* AckTransit, LogAppend and LogFetch: one frame, no answer awaited here.
FrameCmd == [op |-> "frame", arg |-> 0]
NowCmd == [op |-> "now", arg |-> 0]
ShutdownCmd == [op |-> "shutdown", arg |-> 0]
DownCmd(g) == [op |-> "down", arg |-> g]

\* What goes up the wire: a Send frame, a WatchPresence delta or any other frame.
SendFrame(k) == [op |-> "send", arg |-> k]
WatchFrame(add, remove) == [op |-> "watch", arg |-> <<add, remove>>]
OtherFrame == [op |-> "frame", arg |-> 0]

\* "loop": waiting for a command.  "lock", "write": a frame on its way through the
\* mutex and the socket.  "ack": do_send waits for the relay.  "backoff", "opening":
\* inside reconnect().  "stopped": the task has returned.
Points == {"loop", "lock", "write", "ack", "backoff", "opening", "stopped"}
NoFrame == [op |-> "none", arg |-> 0]

At(p) == sup.at = p
Idle(s) == [s EXCEPT !.at = "loop", !.frame = NoFrame]

\* A connection as install() leaves it: fresh outbox, reader and keepalive started.
Fresh == [link |-> "up", up |-> << >>, down |-> << >>, mutex |-> "free",
          pending |-> {}, answer |-> "none", reader |-> "on", keepalive |-> "idle"]
NoSocket == [Fresh EXCEPT !.link = "none", !.reader = "off", !.keepalive = "off"]

Queued(s) == result[s] = "queued"
\* Sends still in the queue: their reply channels go with it.
QueuedSends(q) == {q[i].arg : i \in {j \in DOMAIN q : q[j].op = "send"}}

-----------------------------------------------------------------------------
(* The handle: calls of the application. *)

\* Client::send: queued, or refused at once when the supervisor has returned.
Submit(s) ==
    /\ result[s] = "none"
    /\ IF At("stopped")
       THEN result' = [result EXCEPT ![s] = "closed"] /\ UNCHANGED cmds
       ELSE result' = [result EXCEPT ![s] = "queued"] /\ cmds' = Append(cmds, SendCmd(s))
    /\ UNCHANGED <<sup, inner, nextGen, attempts, watchSet, connState, socket, relaySide,
                   raised, calls, faults>>

\* watch_presence, unwatch_presence, ack_transit, log_append, log_fetch, reconnect_now
\* and shutdown: put on the queue, nothing awaited.
Call(c) ==
    /\ calls < MaxCalls /\ calls' = calls + 1
    /\ cmds' = IF At("stopped") THEN cmds ELSE Append(cmds, c)
    /\ UNCHANGED <<sup, inner, nextGen, attempts, watchSet, connState, socket, relaySide,
                   result, raised, faults>>

Calls == {WatchCmd(agents, on) : agents \in Lists, on \in BOOLEAN}
            \cup {FrameCmd, NowCmd, ShutdownCmd}

-----------------------------------------------------------------------------
(* The command loop: Supervisor::run. *)

Rewatched(c) == IF c.arg[2] THEN watchSet \cup c.arg[1] ELSE watchSet \ c.arg[1]
Delta(c) == IF c.arg[2] THEN WatchFrame(c.arg[1], {}) ELSE WatchFrame({}, c.arg[1])

Take(op) == cmds # << >> /\ Head(cmds).op = op /\ cmds' = Tail(cmds)

\* The task returns: what is left in the queue is dropped, replies and all.
Stop(rest) ==
    /\ sup' = [sup EXCEPT !.at = "stopped", !.frame = NoFrame]
    /\ cmds' = << >>
    /\ inner' = 0 /\ socket' = NoSocket
    /\ result' = [s \in Send |-> IF s \in QueuedSends(rest) THEN "closed" ELSE result[s]]

\* do_send up to the mutex: track the key, then wait for the sender.
TakeSend ==
    /\ At("loop") /\ Take("send")
    /\ LET s == Head(cmds).arg IN
       IF inner # 0
       THEN /\ sup' = [sup EXCEPT !.at = "lock", !.cur = s, !.frame = SendFrame(KeyOf[s])]
            /\ socket' = [socket EXCEPT !.pending = @ \cup {KeyOf[s]}, !.answer = "none"]
            /\ UNCHANGED result
       ELSE /\ result' = [result EXCEPT ![s] = "disconnected"]
            /\ UNCHANGED <<sup, socket>>
    /\ UNCHANGED <<inner, nextGen, attempts, watchSet, connState, relaySide, raised, calls,
                   faults>>

TakeWatch ==
    /\ At("loop") /\ Take("watch")
    /\ watchSet' = Rewatched(Head(cmds))
    /\ sup' = IF inner # 0 THEN [sup EXCEPT !.at = "lock", !.frame = Delta(Head(cmds))] ELSE sup
    /\ UNCHANGED <<inner, nextGen, attempts, connState, socket, relaySide, result, raised,
                   calls, faults>>

TakeFrame ==
    /\ At("loop") /\ Take("frame")
    /\ sup' = IF inner # 0 THEN [sup EXCEPT !.at = "lock", !.frame = OtherFrame] ELSE sup
    /\ UNCHANGED <<inner, nextGen, attempts, watchSet, connState, socket, relaySide, result,
                   raised, calls, faults>>

\* Already connected, or given up for good during bootstrap: a no-op either way.
TakeReconnectNow ==
    /\ At("loop") /\ Take("now")
    /\ UNCHANGED <<sup, inner, nextGen, attempts, watchSet, connState, socket, relaySide,
                   result, raised, calls, faults>>

TakeShutdown ==
    /\ At("loop") /\ cmds # << >> /\ Head(cmds).op = "shutdown"
    /\ Stop(Tail(cmds))
    /\ UNCHANGED <<nextGen, attempts, watchSet, connState, relaySide, raised, calls, faults>>

\* The installed connection is dropped, its tasks aborted, and reconnect() begins.
TearDown ==
    /\ inner' = 0 /\ socket' = NoSocket
    /\ sup' = [sup EXCEPT !.at = "backoff"]
    /\ attempts' = 0
    /\ connState' = "disconnected"

\* Without the comparison: any signal tears the installed connection down.
TakeDownOfAnyGen ==
    /\ At("loop") /\ Take("down")
    /\ IF inner # 0
       THEN TearDown
       ELSE UNCHANGED <<sup, inner, attempts, connState, socket>>
    /\ UNCHANGED <<nextGen, watchSet, relaySide, result, raised, calls, faults>>

\* Disconnected{gen}: only the installed connection's own signal counts.
TakeDown ==
    /\ At("loop") /\ Take("down")
    /\ IF inner # 0 /\ Head(cmds).arg = inner
       THEN TearDown
       ELSE UNCHANGED <<sup, inner, attempts, connState, socket>>
    /\ UNCHANGED <<nextGen, watchSet, relaySide, result, raised, calls, faults>>

-----------------------------------------------------------------------------
(* A frame's way out: the mutex, the write, the answer. *)

Sending == sup.frame.op = "send"
Answered(r) == result' = [result EXCEPT ![sup.cur] = r] /\ sup' = Idle(sup)

\* inner.sender.lock().await: no timeout covers it.
TakeMutex ==
    /\ At("lock") /\ socket.mutex = "free"
    /\ socket' = [socket EXCEPT !.mutex = "supervisor"]
    /\ sup' = [sup EXCEPT !.at = "write"]
    /\ UNCHANGED <<cmds, inner, nextGen, attempts, watchSet, connState, relaySide, result,
                   raised, calls, faults>>

\* The write ends: certainly while bytes move, possibly into the buffers of a stalled
\* socket.  do_send goes on to wait for the Ack, the other frames are done.
WriteEnds ==
    /\ At("write") /\ socket.link \in {"up", "stalled"}
    /\ socket' = [socket EXCEPT !.mutex = "free", !.up = Append(@, sup.frame)]
    /\ sup' = IF Sending THEN [sup EXCEPT !.at = "ack"] ELSE Idle(sup)
    /\ UNCHANGED <<cmds, inner, nextGen, attempts, watchSet, connState, relaySide, result,
                   raised, calls, faults>>

\* A write error is do_send's answer; for the other frames it is ignored.
WriteErrs ==
    /\ At("write") /\ socket.link = "dead"
    /\ socket' = [socket EXCEPT !.mutex = "free"]
    /\ IF Sending THEN Answered("error") ELSE sup' = Idle(sup) /\ UNCHANGED result
    /\ UNCHANGED <<cmds, inner, nextGen, attempts, watchSet, connState, relaySide, raised,
                   calls, faults>>

\* send_write_timeout, around do_send's write only.  The frame the timeout gave up on
\* may be in the sink's buffer already, and go out later.
WriteTimesOut ==
    /\ At("write") /\ Sending
    /\ \E buffered \in BOOLEAN :
          socket' = [socket EXCEPT !.mutex = "free",
                                   !.up = IF buffered THEN Append(@, sup.frame) ELSE @]
    /\ Answered("timeout")
    /\ UNCHANGED <<cmds, inner, nextGen, attempts, watchSet, connState, relaySide, raised,
                   calls, faults>>

\* The reader resolved the pending send.
AckArrives ==
    /\ At("ack") /\ socket.answer # "none"
    /\ Answered(socket.answer)
    /\ UNCHANGED <<cmds, inner, nextGen, attempts, watchSet, connState, socket, relaySide,
                   raised, calls, faults>>

\* The wait for the Ack ends only with the connection.
AckTimesOutIfDead ==
    /\ At("ack") /\ socket.link = "dead"
    /\ Answered("timeout")
    /\ UNCHANGED <<cmds, inner, nextGen, attempts, watchSet, connState, socket, relaySide,
                   raised, calls, faults>>

\* send_ack_timeout.  The outbox entry stays.
AckTimesOut ==
    /\ At("ack")
    /\ Answered("timeout")
    /\ UNCHANGED <<cmds, inner, nextGen, attempts, watchSet, connState, socket, relaySide,
                   raised, calls, faults>>

-----------------------------------------------------------------------------
(* Reconnecting: Supervisor::reconnect, and bootstrap when the first connect failed. *)

BackoffEnds ==
    /\ At("backoff")
    /\ sup' = [sup EXCEPT !.at = "opening"] /\ connState' = "connecting"
    /\ UNCHANGED <<cmds, inner, nextGen, attempts, watchSet, socket, relaySide, result,
                   raised, calls, faults>>

\* The wait drains the queue: a send fails fast, a watch is kept for the next
\* connection, frames and late signals are dropped, reconnect_now ends the wait.
Drain ==
    /\ At("backoff") /\ cmds # << >> /\ Head(cmds).op # "shutdown"
    /\ cmds' = Tail(cmds)
    /\ LET c == Head(cmds) IN
       /\ result' = IF c.op = "send" THEN [result EXCEPT ![c.arg] = "disconnected"] ELSE result
       /\ watchSet' = IF c.op = "watch" THEN Rewatched(c) ELSE watchSet
       /\ IF c.op = "now"
          THEN sup' = [sup EXCEPT !.at = "opening"] /\ connState' = "connecting"
          ELSE UNCHANGED <<sup, connState>>
    /\ UNCHANGED <<inner, nextGen, attempts, socket, relaySide, raised, calls, faults>>

DrainShutdown ==
    /\ At("backoff") /\ cmds # << >> /\ Head(cmds).op = "shutdown"
    /\ Stop(Tail(cmds))
    /\ UNCHANGED <<nextGen, attempts, watchSet, connState, relaySide, raised, calls, faults>>

\* A connection without the watches of the one before it.
InstallBare ==
    /\ inner' = nextGen /\ nextGen' = nextGen + 1
    /\ socket' = Fresh
    /\ relaySide' = [relaySide EXCEPT !.watching = {}, !.ignored = {}]
    /\ connState' = "connected"
    /\ sup' = [sup EXCEPT !.at = "loop", !.boot = FALSE]

\* install(): a new generation, and the whole watch set as its first frame, since the
\* relay dropped the watches of the connection before.
Install ==
    /\ inner' = nextGen /\ nextGen' = nextGen + 1
    /\ socket' = Fresh
    /\ relaySide' = [relaySide EXCEPT !.watching = {}, !.ignored = {}]
    /\ connState' = "connected"
    /\ sup' = IF watchSet = {}
              THEN [sup EXCEPT !.at = "loop", !.boot = FALSE]
              ELSE [sup EXCEPT !.at = "lock", !.boot = FALSE, !.frame = WatchFrame(watchSet, {})]

\* open_session: challenge, signature, WebSocket upgrade, Hello, Ready.
OpenSucceeds ==
    /\ At("opening") /\ nextGen \in Gen
    /\ Install
    /\ UNCHANGED <<cmds, attempts, watchSet, result, raised, calls, faults>>

AtCap == ReconnectCap # 0 /\ attempts + 1 >= ReconnectCap

\* Another round of backoff.
OpenFails ==
    /\ At("opening") /\ ~AtCap
    /\ attempts' = IF ReconnectCap = 0 THEN 0 ELSE attempts + 1
    /\ sup' = [sup EXCEPT !.at = "backoff"] /\ connState' = "disconnected"
    /\ UNCHANGED <<cmds, inner, nextGen, watchSet, socket, relaySide, result, raised, calls,
                   faults>>

\* The last attempt failed.  A client that never had a session keeps its command loop,
\* without a connection; any other stops its supervisor.
GiveUp ==
    /\ At("opening") /\ AtCap
    /\ attempts' = attempts + 1
    /\ connState' = "permanent"
    /\ IF sup.boot
       THEN sup' = Idle(sup) /\ UNCHANGED <<cmds, inner, socket, result>>
       ELSE Stop(cmds)
    /\ UNCHANGED <<nextGen, watchSet, relaySide, raised, calls, faults>>

-----------------------------------------------------------------------------
(* The reader and keepalive tasks of the installed connection. *)

Raise == cmds' = Append(cmds, DownCmd(inner)) /\ raised' = raised \cup {inner}

\* Whatever the relay said, the waiting send takes it for an Ack.
ResolvedAsAcked(k, how) ==
    IF k \notin socket.pending THEN socket
    ELSE [socket EXCEPT !.pending = @ \ {k},
                        !.answer = IF Sending /\ sup.frame.arg = k THEN "acked" ELSE @]

\* Outbox::ack and Outbox::moved: the entry goes, and the send that waits for it, if it
\* is still the one that tracked it, learns how.
Resolved(k, how) ==
    IF k \notin socket.pending THEN socket
    ELSE [socket EXCEPT !.pending = @ \ {k},
                        !.answer = IF Sending /\ sup.frame.arg = k THEN how ELSE @]

ReaderReads ==
    /\ socket.reader = "on" /\ socket.link = "up" /\ socket.down # << >>
    /\ LET m == Head(socket.down) IN
       IF m.op = "bye"
       THEN /\ Raise
            /\ socket' = [socket EXCEPT !.down = Tail(@), !.reader = "ended"]
       ELSE /\ socket' = [Resolved(m.arg, m.op) EXCEPT !.down = Tail(@)]
            /\ UNCHANGED <<cmds, raised>>
    /\ UNCHANGED <<sup, inner, nextGen, attempts, watchSet, connState, relaySide, result,
                   calls, faults>>

\* The stream ended or failed.
ReaderEnds ==
    /\ socket.reader = "on" /\ socket.link = "dead"
    /\ Raise
    /\ socket' = [socket EXCEPT !.reader = "ended"]
    /\ UNCHANGED <<sup, inner, nextGen, attempts, watchSet, connState, relaySide, result,
                   calls, faults>>

\* A tick: the ping takes the mutex and writes, with no timeout around either.
PingTakesMutex ==
    /\ socket.keepalive = "idle" /\ socket.mutex = "free"
    /\ socket' = [socket EXCEPT !.keepalive = "writing", !.mutex = "keepalive"]
    /\ UNCHANGED <<cmds, sup, inner, nextGen, attempts, watchSet, connState, relaySide,
                   result, raised, calls, faults>>

Fault == faults < MaxFaults /\ faults' = faults + 1

\* The ping is written and a Pong came in time.
PingWritten ==
    /\ socket.keepalive = "writing" /\ socket.link \in {"up", "stalled"}
    /\ socket' = [socket EXCEPT !.keepalive = "idle", !.mutex = "free"]
    /\ UNCHANGED <<cmds, sup, inner, nextGen, attempts, watchSet, connState, relaySide,
                   result, raised, calls, faults>>

\* pong_timeout is looked at only after a ping was written.
PongLate ==
    /\ socket.keepalive = "writing" /\ socket.link \in {"up", "stalled"}
    /\ Fault
    /\ Raise
    /\ socket' = [socket EXCEPT !.keepalive = "ended", !.mutex = "free"]
    /\ UNCHANGED <<sup, inner, nextGen, attempts, watchSet, connState, relaySide, result,
                   calls>>

PingErrs ==
    /\ socket.keepalive = "writing" /\ socket.link = "dead"
    /\ Raise
    /\ socket' = [socket EXCEPT !.keepalive = "ended", !.mutex = "free"]
    /\ UNCHANGED <<sup, inner, nextGen, attempts, watchSet, connState, relaySide, result,
                   calls, faults>>

-----------------------------------------------------------------------------
(* The network and the relay, as this client meets them. *)

Connected == inner # 0

\* Bytes stop moving without an error, and may move again; or the connection breaks.
LinkChanges ==
    /\ Connected
    /\ \/ /\ socket.link = "up" /\ Fault
          /\ socket' = [socket EXCEPT !.link = "stalled"]
       \/ /\ socket.link = "stalled"
          /\ socket' = [socket EXCEPT !.link = "up"] /\ UNCHANGED faults
       \/ /\ socket.link \in {"up", "stalled"} /\ Fault
          /\ socket' = [socket EXCEPT !.link = "dead", !.up = << >>, !.down = << >>]
    /\ UNCHANGED <<cmds, sup, inner, nextGen, attempts, watchSet, connState, relaySide,
                   result, raised, calls>>

Reply(op, k) == [op |-> op, arg |-> k]

\* add_watches: all of them while they fit under the cap, else as many as fill it, in
\* whatever order the frame has them.
Indexed(held, add) ==
    {kept \in SUBSET (held \cup add) :
        /\ held \subseteq kept /\ Cardinality(kept) <= SessionCap
        /\ kept = held \cup add \/ Cardinality(kept) = SessionCap}

\* The relay takes the next frame: a deposit is acknowledged, answered Moved or
\* throttled (which resolves nothing); a watch delta is applied, its additions up to the
\* cap, and what is past it is ignored without a word.
RelayTakes ==
    /\ Connected /\ socket.link = "up" /\ socket.up # << >>
    /\ LET f == Head(socket.up)
           rest == [socket EXCEPT !.up = Tail(@)]
       IN CASE f.op = "send" ->
                 \/ /\ socket' = [rest EXCEPT !.down = Append(@, Reply("acked", f.arg))]
                    /\ relaySide' = [relaySide EXCEPT !.accepted = @ \cup {f.arg}]
                 \/ /\ socket' = [rest EXCEPT !.down = Append(@, Reply("moved", f.arg))]
                    /\ UNCHANGED relaySide
                 \/ socket' = rest /\ UNCHANGED relaySide
            [] f.op = "watch" ->
                 /\ socket' = rest
                 /\ \E kept \in Indexed(relaySide.watching, f.arg[1]) :
                       relaySide' = [relaySide EXCEPT
                           !.watching = kept \ f.arg[2],
                           !.ignored = ((@ \cup f.arg[1]) \ kept) \ f.arg[2]]
            [] OTHER -> socket' = rest /\ UNCHANGED relaySide
    /\ UNCHANGED <<cmds, sup, inner, nextGen, attempts, watchSet, connState, result, raised,
                   calls, faults>>

\* The relay ends the session: another connection of this agent displaced it.
RelayByes ==
    /\ Connected /\ socket.link = "up" /\ Fault
    /\ socket' = [socket EXCEPT !.down = Append(@, Reply("bye", 0))]
    /\ UNCHANGED <<cmds, sup, inner, nextGen, attempts, watchSet, connState, relaySide,
                   result, raised, calls>>

-----------------------------------------------------------------------------
\* Client::connect: the first handshake succeeded, or the supervisor starts in bootstrap.
ClientInit ==
    /\ cmds = << >>
    /\ \/ /\ inner = 1 /\ nextGen = 2 /\ socket = Fresh /\ connState = "connected"
          /\ sup = [at |-> "loop", cur |-> CHOOSE s \in Send : TRUE, frame |-> NoFrame,
                    boot |-> FALSE]
       \/ /\ inner = 0 /\ nextGen = 1 /\ socket = NoSocket /\ connState = "disconnected"
          /\ sup = [at |-> "backoff", cur |-> CHOOSE s \in Send : TRUE, frame |-> NoFrame,
                    boot |-> TRUE]
    /\ attempts = 0 /\ watchSet = {}
    /\ relaySide = [accepted |-> {}, watching |-> {}, ignored |-> {}]
    /\ result = [s \in Send |-> "none"]
    /\ raised = {} /\ calls = 0 /\ faults = 0

SupervisorNext ==
    \/ TakeSend \/ TakeWatch \/ TakeFrame \/ TakeReconnectNow \/ TakeShutdown \/ TakeDown
    \/ TakeMutex \/ WriteEnds \/ WriteErrs \/ WriteTimesOut \/ AckArrives \/ AckTimesOut
    \/ BackoffEnds \/ Drain \/ DrainShutdown \/ OpenSucceeds \/ OpenFails \/ GiveUp

ClientNext ==
    \/ \E s \in Send : Submit(s)
    \/ \E c \in Calls : Call(c)
    \/ SupervisorNext
    \/ ReaderReads \/ ReaderEnds
    \/ PingTakesMutex \/ PingWritten \/ PingErrs \/ PongLate
    \/ LinkChanges \/ RelayTakes \/ RelayByes

\* The steps the supervisor task takes unaided: commands, timers, and writes that end.
SupervisorRuns ==
    \/ TakeSend \/ TakeWatch \/ TakeFrame \/ TakeReconnectNow \/ TakeShutdown \/ TakeDown
    \/ socket.link = "up" /\ WriteEnds
    \/ WriteErrs \/ WriteTimesOut \/ AckArrives \/ AckTimesOut
    \/ BackoffEnds \/ Drain \/ DrainShutdown

\* The tasks run, and the runtime's mutex is first come, first served.  Nothing is
\* promised of a write on a socket that moves no bytes, of open_session, of the relay or
\* of the network.
ClientFairness ==
    /\ WF_clientVars(SupervisorRuns)
    /\ SF_clientVars(TakeMutex)
    /\ WF_clientVars(ReaderReads \/ ReaderEnds)
    /\ WF_clientVars((socket.link = "up" /\ PingWritten) \/ PingErrs)

ClientSpec == ClientInit /\ [][ClientNext]_clientVars /\ ClientFairness

-----------------------------------------------------------------------------
(* Properties. *)

Results == {"none", "queued", "acked", "moved", "error", "timeout", "disconnected", "closed"}

\* Every variable holds a value of its kind.
ClientTypeOK ==
    /\ sup.at \in Points /\ sup.cur \in Send /\ sup.boot \in BOOLEAN
    /\ inner \in 0..MaxGen /\ nextGen \in 1..MaxGen + 1
    /\ attempts \in Nat /\ watchSet \in SUBSET Contact
    /\ connState \in {"connecting", "connected", "disconnected", "permanent"}
    /\ socket.link \in {"none", "up", "stalled", "dead"}
    /\ socket.mutex \in {"free", "supervisor", "keepalive"}
    /\ socket.reader \in {"off", "on", "ended"}
    /\ socket.keepalive \in {"off", "idle", "writing", "ended"}
    /\ socket.pending \in SUBSET Key /\ socket.answer \in {"none", "acked", "moved"}
    /\ relaySide \in [accepted: SUBSET Key, watching: SUBSET Contact, ignored: SUBSET Contact]
    /\ result \in [Send -> Results] /\ raised \in SUBSET Gen
    /\ calls \in 0..MaxCalls /\ faults \in 0..MaxFaults

\* A send reported as accepted was accepted by the relay, though an Ack may come after
\* its send timed out and meet a retry under the same key (do_send, Outbox::ack).
AckedWasAccepted == \A s \in Send : result[s] = "acked" => KeyOf[s] \in relaySide.accepted

\* Once the frames of a working connection have arrived, the relay watches the contacts
\* the application asked for, whatever was asked while the connection was down and
\* however often it was replaced (install, reconnect), all but those this session's
\* add_watches ignored because it was at its cap; and never more than the cap.
WatchesCarryOver ==
    (/\ Connected /\ socket.link = "up" /\ socket.up = << >> /\ At("loop"))
        => /\ relaySide.watching = watchSet \ relaySide.ignored
           /\ Cardinality(relaySide.watching) <= SessionCap

\* A connection is torn down only on the report of its own reader or keepalive, or by
\* shutdown: a late report of the one before it does not touch it (ConnGen).
OnlyOwnSignal ==
    [][inner # 0 /\ inner' # inner => inner \in raised \/ sup'.at = "stopped"]_clientVars

\* Every send is answered, in whatever state the client is, unless the supervisor hangs
\* for good in one of the three waits without a timeout: open_session, a frame other
\* than a send, or the mutex behind a ping that does not end.
Hung ==
    \/ At("opening")
    \/ At("write") /\ ~Sending
    \/ At("lock") /\ socket.keepalive = "writing"
SendsEnd == <>[](\E s \in Send : Queued(s)) => <>[]Hung
=============================================================================
