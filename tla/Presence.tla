------------------------------ MODULE Presence ------------------------------
(***************************************************************************)
(* Presence on the relay: the registry of live sessions, the two watch     *)
(* indexes, the words put on the watchers' channels, and the life of a     *)
(* connection from register to its cleanup.                                *)
(*                                                                         *)
(* Every connection is a task of its own.  Each access to one of the three *)
(* maps is atomic; a call is a sequence of them.  register and unregister  *)
(* change the registry first and tell the watchers afterwards, with no     *)
(* lock held in between; dropping a watch empties the watcher list first   *)
(* and reclaims its key afterwards.                                        *)
(***************************************************************************)
EXTENDS Naturals, FiniteSets

CONSTANTS
    Peer,         \* agents
    Conn,         \* connections, each opened at most once
    PeerOf,       \* PeerOf[c]: the agent connection c authenticated as
    Watches,      \* bound: the <<connection, agent>> pairs of the WatchPresence frames sent
    Fragile,      \* bound: the connections whose far end may fall silent
    WatchCap,     \* MAX_WATCHES_PER_SESSION
    MaxUnwatches  \* bound: unwatch frames in one behaviour

NoConn == "no connection"

ASSUME PresenceAssumption ==
    /\ PeerOf \in [Conn -> Peer] /\ Watches \subseteq Conn \X Peer /\ Fragile \subseteq Conn
    /\ WatchCap \in Nat /\ MaxUnwatches \in Nat /\ NoConn \notin Conn

VARIABLES
    byAgent,      \* by_agent: the connection registered for each agent, or NoConn
    watchers,     \* watchers: for each agent, the connections told of its transitions
    watchKeys,    \* the agents with an entry in `watchers`, an empty list included
    bySession,    \* watches_by_session: the agents each connection watches
    task,         \* the connection tasks: where each is and what it still has to do
    peer,         \* the far end: "answers" pings, is "silent", or "closed" with its session
    writer,       \* the writer task: "ready" or hanging in a "write"
    turn,         \* transitions of each agent in the registry so far
    told,         \* the last word on an agent put on a connection's channel
    muddled,      \* history: <<c, a>> whose last word was refused or came out of turn
    unwatches

presenceVars == <<byAgent, watchers, watchKeys, bySession, task, peer, writer, turn, told,
                  muddled, unwatches>>

Steps == {"new", "announce", "open", "forget", "unwatch", "reclaim", "leave", "retract", "gone"}

Online(a) == byAgent[a] # NoConn
TaskAt(c, s) == task[c].at = s
Goto(c, s) == task' = [task EXCEPT ![c].at = s]

\* A transition of agent a in the registry, made by connection c, which then goes to s.
Transition(c, a, s) ==
    /\ turn' = [turn EXCEPT ![a] = @ + 1]
    /\ task' = [task EXCEPT ![c] = [@ EXCEPT !.at = s, !.turn = turn[a] + 1]]

\* The words a broadcast puts on the channels of a's watchers: each try_send may be
\* refused by a full channel, and a broadcast comes out of turn when another transition
\* of the agent was made since its own.
Broadcast(c, a, word) ==
    \E refused \in SUBSET watchers[a] :
        /\ told' = [w \in Conn |-> IF w \in watchers[a] \ refused
                                   THEN [told[w] EXCEPT ![a] = word] ELSE told[w]]
        /\ muddled' =
              LET bad == IF task[c].turn # turn[a] THEN watchers[a] ELSE refused
              IN  (muddled \ {<<w, a>> : w \in watchers[a]}) \cup {<<w, a>> : w \in bad}

-----------------------------------------------------------------------------
(* register *)

\* The registry entry.  A prior one is displaced: its channel gets a best-effort Bye,
\* and nobody is told, since the agent stays online.
RegisterSession(c) ==
    LET a == PeerOf[c] IN
    /\ TaskAt(c, "new")
    /\ IF Online(a) THEN Goto(c, "open") /\ UNCHANGED turn ELSE Transition(c, a, "announce")
    /\ byAgent' = [byAgent EXCEPT ![a] = c]
    /\ UNCHANGED <<watchers, watchKeys, bySession, peer, writer, told, muddled, unwatches>>

Announce(c) ==
    /\ TaskAt(c, "announce")
    /\ Broadcast(c, PeerOf[c], "online")
    /\ Goto(c, "open")
    /\ UNCHANGED <<byAgent, watchers, watchKeys, bySession, peer, writer, turn, unwatches>>

-----------------------------------------------------------------------------
(* WatchPresence frames: add_watches and remove_watches *)

\* One watch more than the cap allows.
RoomToWatchOneMore(c) == Cardinality(bySession[c]) <= WatchCap

RoomToWatch(c) == Cardinality(bySession[c]) < WatchCap

\* Both indexes, then the echo of the current state, all under the watcher list's lock.
\* A watch over the cap, or one already held, is skipped without an echo.
Watch(c, a) ==
    /\ TaskAt(c, "open") /\ peer[c] = "answers"
    /\ a \notin bySession[c] /\ RoomToWatch(c)
    /\ bySession' = [bySession EXCEPT ![c] = @ \cup {a}]
    /\ watchKeys' = watchKeys \cup {a} /\ watchers' = [watchers EXCEPT ![a] = @ \cup {c}]
    /\ \/ /\ told' = [told EXCEPT ![c][a] = IF Online(a) THEN "online" ELSE "offline"]
          /\ muddled' = muddled \ {<<c, a>>}
       \/ muddled' = muddled \cup {<<c, a>>} /\ UNCHANGED told
    /\ UNCHANGED <<byAgent, task, peer, writer, turn, unwatches>>

\* remove_watches, its first step: the session's own index.
Unwatch(c, a) ==
    /\ TaskAt(c, "open") /\ peer[c] = "answers" /\ unwatches < MaxUnwatches
    /\ unwatches' = unwatches + 1
    /\ bySession' = [bySession EXCEPT ![c] = @ \ {a}]
    /\ task' = [task EXCEPT ![c] = [@ EXCEPT !.at = "unwatch", !.todo = {a}, !.next = "open"]]
    /\ UNCHANGED <<byAgent, watchers, watchKeys, peer, writer, turn, told, muddled>>

-----------------------------------------------------------------------------
(* unwatch, for the agents the task still has to do *)

\* The watcher list of the next agent; the key of an emptied one is left for the reclaim.
DropFromList(c) ==
    /\ TaskAt(c, "unwatch")
    /\ \/ /\ task[c].todo = {}
          /\ Goto(c, task[c].next)
          /\ UNCHANGED watchers
       \/ \E a \in task[c].todo :
             /\ watchers' = [watchers EXCEPT ![a] = @ \ {c}]
             /\ task' = [task EXCEPT ![c] =
                   [@ EXCEPT !.todo = task[c].todo \ {a}, !.list = a,
                             !.at = IF a \in watchKeys /\ watchers[a] \subseteq {c}
                                    THEN "reclaim" ELSE "unwatch"]]
    /\ UNCHANGED <<byAgent, watchKeys, bySession, peer, writer, turn, told, muddled, unwatches>>

\* Without the second look at the list: a watcher that arrived in between is lost.
ReclaimBlindly(c) ==
    /\ TaskAt(c, "reclaim")
    /\ watchKeys' = watchKeys \ {task[c].list}
    /\ watchers' = [watchers EXCEPT ![task[c].list] = {}]
    /\ Goto(c, "unwatch")
    /\ UNCHANGED <<byAgent, bySession, peer, writer, turn, told, muddled, unwatches>>

\* remove_if, which looks at the list again under the map's lock.
Reclaim(c) ==
    /\ TaskAt(c, "reclaim")
    /\ watchKeys' = IF watchers[task[c].list] = {} THEN watchKeys \ {task[c].list} ELSE watchKeys
    /\ Goto(c, "unwatch")
    /\ UNCHANGED <<byAgent, watchers, bySession, peer, writer, turn, told, muddled, unwatches>>

-----------------------------------------------------------------------------
(* The io loop and the writer, and the cleanup when they end *)

\* The far end stops answering without a close (the idle leg of a proxy, a killed app).
FallSilent(c) ==
    /\ c \in Fragile /\ TaskAt(c, "open") /\ peer[c] = "answers"
    /\ peer' = [peer EXCEPT ![c] = "silent"]
    /\ UNCHANGED <<byAgent, watchers, watchKeys, bySession, task, writer, turn, told, muddled,
                   unwatches>>

\* A frame or a ping to a silent far end hangs: sink.send is awaited with no timeout.  A
\* write that the buffers still take is over at once.
WriteHangs(c) ==
    /\ TaskAt(c, "open") /\ peer[c] = "silent" /\ writer[c] = "ready"
    /\ writer' = [writer EXCEPT ![c] = "write"]
    /\ UNCHANGED <<byAgent, watchers, watchKeys, bySession, task, peer, turn, told, muddled,
                   unwatches>>

\* The io loop is over; drop_all_watches, its first step: the session's index entry goes.
BeginCleanup(c) ==
    /\ bySession' = [bySession EXCEPT ![c] = {}]
    /\ task' = [task EXCEPT ![c] =
                   [@ EXCEPT !.at = "unwatch", !.todo = bySession[c], !.next = "leave"]]
    /\ peer' = [peer EXCEPT ![c] = "closed"] /\ writer' = [writer EXCEPT ![c] = "ready"]

\* The client closed, sent Bye, or a read or a write failed.
LoopExits(c) ==
    /\ TaskAt(c, "open")
    /\ BeginCleanup(c)
    /\ UNCHANGED <<byAgent, watchers, watchKeys, turn, told, muddled, unwatches>>

\* The pong clock is looked at only while the far end still answers.
ReapAnswering(c) ==
    /\ TaskAt(c, "open") /\ peer[c] = "answers" /\ writer[c] = "ready"
    /\ BeginCleanup(c)
    /\ UNCHANGED <<byAgent, watchers, watchKeys, turn, told, muddled, unwatches>>

\* The writer looks at the pong clock between writes, never during one.
ReapSilent(c) ==
    /\ TaskAt(c, "open") /\ peer[c] = "silent" /\ writer[c] = "ready"
    /\ BeginCleanup(c)
    /\ UNCHANGED <<byAgent, watchers, watchKeys, turn, told, muddled, unwatches>>

\* Told whether or not anything was removed: a displaced connection's exit is news.
LeaveAnyway(c) ==
    LET a == PeerOf[c] IN
    /\ TaskAt(c, "leave")
    /\ Transition(c, a, "retract")
    /\ byAgent' = [byAgent EXCEPT ![a] = IF @ = c THEN NoConn ELSE @]
    /\ UNCHANGED <<watchers, watchKeys, bySession, peer, writer, told, muddled, unwatches>>

\* unregister: the entry goes only if it is still this session's.
Leave(c) ==
    LET a == PeerOf[c] IN
    /\ TaskAt(c, "leave")
    /\ IF byAgent[a] = c
       THEN byAgent' = [byAgent EXCEPT ![a] = NoConn] /\ Transition(c, a, "retract")
       ELSE Goto(c, "gone") /\ UNCHANGED <<byAgent, turn>>
    /\ UNCHANGED <<watchers, watchKeys, bySession, peer, writer, told, muddled, unwatches>>

Retract(c) ==
    /\ TaskAt(c, "retract")
    /\ Broadcast(c, PeerOf[c], "offline")
    /\ Goto(c, "gone")
    /\ UNCHANGED <<byAgent, watchers, watchKeys, bySession, peer, writer, turn, unwatches>>

-----------------------------------------------------------------------------
PresenceInit ==
    /\ byAgent = [a \in Peer |-> NoConn]
    /\ watchers = [a \in Peer |-> {}] /\ watchKeys = {}
    /\ bySession = [c \in Conn |-> {}]
    /\ task = [c \in Conn |-> [at |-> "new", todo |-> {}, list |-> PeerOf[c], next |-> "open",
                               turn |-> 0]]
    /\ peer = [c \in Conn |-> "answers"] /\ writer = [c \in Conn |-> "ready"]
    /\ turn = [a \in Peer |-> 0]
    /\ told = [c \in Conn |-> [a \in Peer |-> "nothing"]]
    /\ muddled = {} /\ unwatches = 0

PresenceNext ==
    \E c \in Conn :
        \/ RegisterSession(c) \/ Announce(c)
        \/ \E a \in Peer : <<c, a>> \in Watches /\ (Watch(c, a) \/ Unwatch(c, a))
        \/ DropFromList(c) \/ Reclaim(c)
        \/ FallSilent(c) \/ WriteHangs(c)
        \/ LoopExits(c) \/ ReapSilent(c) \/ Leave(c) \/ Retract(c)

\* The tasks run, the writer with its pong clock among them.
PresenceFairness ==
    \A c \in Conn :
        WF_presenceVars(\/ Announce(c) \/ DropFromList(c) \/ Reclaim(c) \/ Leave(c)
                        \/ Retract(c) \/ ReapSilent(c))

PresenceSpec == PresenceInit /\ [][PresenceNext]_presenceVars /\ PresenceFairness

-----------------------------------------------------------------------------
(* Properties. *)

\* Every variable holds a value of its kind, and no session watches more than the cap
\* allows (MAX_WATCHES_PER_SESSION).
PresenceTypeOK ==
    /\ byAgent \in [Peer -> Conn \cup {NoConn}]
    /\ watchers \in [Peer -> SUBSET Conn] /\ watchKeys \in SUBSET Peer
    /\ bySession \in [Conn -> SUBSET Peer]
    /\ task \in [Conn -> [at: Steps, todo: SUBSET Peer, list: Peer, next: {"open", "leave"},
                          turn: Nat]]
    /\ peer \in [Conn -> {"answers", "silent", "closed"}] /\ writer \in [Conn -> {"ready", "write"}]
    /\ turn \in [Peer -> Nat]
    /\ told \in [Conn -> [Peer -> {"nothing", "online", "offline"}]]
    /\ muddled \in SUBSET (Conn \X Peer) /\ unwatches \in 0..MaxUnwatches
    /\ \A c \in Conn : Cardinality(bySession[c]) <= WatchCap

\* A change of a's registry entry that its watchers have not been told of yet.
Untold(a) == \E c \in Conn : PeerOf[c] = a /\ task[c].at \in {"announce", "retract"}

\* The last word a live watcher was given is the truth, unless a change is still to be
\* told, a channel was full, or a broadcast was overtaken by a later transition: no
\* displacement and no watch placed while an agent comes or goes misleads a watcher.
LastWordIsTrue ==
    \A c \in Conn, a \in Peer :
        (a \in bySession[c] /\ TaskAt(c, "open") /\ ~Untold(a) /\ <<c, a>> \notin muddled)
            => (told[c][a] = "online") = Online(a)

\* The two watch indexes agree, and no watcher entry outlives its session, except for
\* what a task still has to undo; and no agent keeps a key without watchers beyond a
\* reclaim in progress (session.rs, #295).
Undoing(c, a) == task[c].at \in {"unwatch", "reclaim"} /\ a \in task[c].todo
WatchIndexesAgree ==
    /\ \A c \in Conn, a \in Peer :
           /\ a \in bySession[c] => c \in watchers[a]
           /\ c \in watchers[a] => a \in bySession[c] \/ Undoing(c, a)
    /\ \A a \in Peer : watchers[a] # {} => a \in watchKeys
    /\ \A a \in watchKeys : watchers[a] = {} =>
           \E c \in Conn : TaskAt(c, "reclaim") /\ task[c].list = a

\* A session whose far end fell silent is reaped and leaves the registry, unless its
\* writer hangs in a write: the pong clock is not looked at during one.
SilentIsReaped ==
    \A c \in Fragile :
        <>[](peer[c] # "answers" /\ ~TaskAt(c, "gone")) => <>[](writer[c] = "write")
=============================================================================
