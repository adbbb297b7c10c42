---------------------------- MODULE SessionProofs ----------------------------
(***************************************************************************)
(* What TLAPS proves of an agent and its relays.                           *)
(*                                                                         *)
(* The relay, for any agents and connections, any cap and any number of    *)
(* watches: the two watch indexes agree but for what a task still has to   *)
(* undo, and a watcher's last word is the truth unless a change is still   *)
(* to be told, a channel was full, or a broadcast was overtaken.           *)
(*                                                                         *)
(* The client's supervisor, for any sends, contacts and channel sizes: an  *)
(* acknowledged send was accepted, a contact the client wants to watch is  *)
(* watched, about to be, or was cut off at the relay's cap, and a          *)
(* disconnect answers its own task only.                                   *)
(*                                                                         *)
(* The home relay, for any relays and any number of moves, until two of    *)
(* them overlap: the agent's newest statement at its home is its pair      *)
(* record, and every other relay that was ever told of the agent knows     *)
(* that it left, or missed the record that says so.  Its types hold while  *)
(* moves overlap too.                                                      *)
(*                                                                         *)
(* The composition of the three: each of its behaviours is one of each     *)
(* part's specification, so the parts' theorems hold of it.                *)
(***************************************************************************)
EXTENDS SessionViews, Integers, FiniteSetTheorems, SequenceTheorems, WellFoundedInduction, TLAPS

-----------------------------------------------------------------------------
(* The relay's sessions: the inductive invariant, in parts. *)

\* A task that undoes watches has taken them out of its own index already, and one that
\* does not has none to undo.
TodoInv ==
    /\ \A c \in Conn : task[c].todo \cap bySession[c] = {}
    /\ \A c \in Conn : task[c].todo # {} => task[c].at \in {"unwatch", "reclaim"}
    /\ \A c \in Conn : IsFiniteSet(bySession[c])

\* A task's transition is one of its agent's, and while it is the latest one, the registry
\* is as the task is about to tell.
TurnInv ==
    \A c \in Conn :
        /\ task[c].turn <= turn[PeerOf[c]]
        /\ (TaskAt(c, "announce") /\ task[c].turn = turn[PeerOf[c]]) => Online(PeerOf[c])
        /\ (TaskAt(c, "retract") /\ task[c].turn = turn[PeerOf[c]]) => ~Online(PeerOf[c])

\* Somebody is about to tell of the latest transition of a.
Telling(a) ==
    \E c \in Conn : /\ PeerOf[c] = a /\ task[c].at \in {"announce", "retract"}
                    /\ task[c].turn = turn[a]

\* Otherwise every watcher that was told in turn knows.
WordInv ==
    \A a \in Peer : \A w \in watchers[a] :
        <<w, a>> \in muddled \/ Telling(a) \/ (told[w][a] = "online") = Online(a)

PresenceInv == PresenceTypeOK /\ TodoInv /\ WatchIndexesAgree /\ TurnInv /\ WordInv

-----------------------------------------------------------------------------
\* A connection task.
Task == [at: Steps, todo: SUBSET Peer, list: Peer, next: {"open", "leave"}, turn: Nat]

\* The values of a typed state.
LEMMA PresenceTypes ==
    ASSUME PresenceTypeOK
    PROVE  /\ byAgent \in [Peer -> Conn \cup {NoConn}] /\ watchers \in [Peer -> SUBSET Conn]
           /\ watchKeys \subseteq Peer /\ bySession \in [Conn -> SUBSET Peer]
           /\ task \in [Conn -> Task]
           /\ turn \in [Peer -> Nat]
           /\ told \in [Conn -> [Peer -> {"nothing", "online", "offline"}]]
           /\ muddled \subseteq Conn \X Peer
           /\ PeerOf \in [Conn -> Peer] /\ NoConn \notin Conn
BY PresenceAssumption DEF PresenceTypeOK, Task

\* What a step of task c does to the tasks: its own entry changes, in a typed way.
LEMMA TaskStep ==
    ASSUME PresenceTypeOK, NEW c \in Conn, NEW t \in Task, task' = [task EXCEPT ![c] = t]
    PROVE  /\ task' \in [Conn -> Task] /\ task'[c] = t
           /\ \A d \in Conn : d # c => task'[d] = task[d]
<1>1. task \in [Conn -> Task]  BY PresenceTypes
<1> QED BY <1>1

\* It goes to another point.
LEMMA GotoStep ==
    ASSUME PresenceTypeOK, NEW c \in Conn, NEW s \in Steps, Goto(c, s)
    PROVE  /\ task' \in [Conn -> Task]
           /\ \A d \in Conn : d # c => task'[d] = task[d]
           /\ task'[c].at = s /\ task'[c].todo = task[c].todo /\ task'[c].list = task[c].list
           /\ task'[c].turn = task[c].turn
<1>1. task \in [Conn -> Task] /\ task[c] \in Task  BY PresenceTypes
<1> DEFINE t == [task[c] EXCEPT !.at = s]
<1>2. /\ t \in Task /\ t.at = s /\ t.todo = task[c].todo /\ t.list = task[c].list
      /\ t.turn = task[c].turn
  BY <1>1 DEF Task
<1>3. task' = [task EXCEPT ![c] = t]  BY DEF Goto
<1> HIDE DEF t
<1> QED BY <1>2, <1>3, TaskStep

\* It made a transition of its agent's registry entry.
LEMMA TransitionStep ==
    ASSUME PresenceTypeOK, NEW c \in Conn, NEW a \in Peer, NEW s \in Steps, Transition(c, a, s)
    PROVE  /\ task' \in [Conn -> Task]
           /\ \A d \in Conn : d # c => task'[d] = task[d]
           /\ task'[c].at = s /\ task'[c].todo = task[c].todo /\ task'[c].list = task[c].list
           /\ task'[c].turn = turn[a] + 1
           /\ turn' \in [Peer -> Nat] /\ turn'[a] = turn[a] + 1
           /\ \A b \in Peer : b # a => turn'[b] = turn[b]
<1>1. task[c] \in Task /\ turn \in [Peer -> Nat] /\ turn[a] + 1 \in Nat  BY PresenceTypes
<1> DEFINE t == [task[c] EXCEPT !.at = s, !.turn = turn[a] + 1]
<1>2. /\ t \in Task /\ t.at = s /\ t.todo = task[c].todo /\ t.list = task[c].list
      /\ t.turn = turn[a] + 1
  BY <1>1 DEF Task
<1>3. task' = [task EXCEPT ![c] = t]  BY DEF Transition
<1> HIDE DEF t
<1>4. /\ turn' \in [Peer -> Nat] /\ turn'[a] = turn[a] + 1
      /\ \A b \in Peer : b # a => turn'[b] = turn[b]
  BY <1>1 DEF Transition
<1> QED BY <1>2, <1>3, <1>4, TaskStep

\* register, its first half.
LEMMA RegisterStep ==
    ASSUME PresenceInv, NEW c \in Conn, RegisterSession(c)
    PROVE  PresenceInv'
<1> DEFINE a == PeerOf[c]
<1>1. /\ TaskAt(c, "new") /\ byAgent' = [byAgent EXCEPT ![a] = c]
      /\ UNCHANGED <<watchers, watchKeys, bySession, peer, writer, told, muddled, unwatches>>
  BY DEF RegisterSession
<1>2. PresenceTypeOK  BY DEF PresenceInv
<1>3. a \in Peer /\ c # NoConn  BY <1>2, PresenceTypes
<1>4. /\ byAgent' \in [Peer -> Conn \cup {NoConn}] /\ byAgent'[a] = c
      /\ \A b \in Peer : b # a => byAgent'[b] = byAgent[b]
  BY <1>1, <1>2, <1>3, PresenceTypes
<1>5. /\ task' \in [Conn -> Task]
      /\ \A d \in Conn : d # c => task'[d] = task[d]
      /\ task'[c].at \in {"open", "announce"}
      /\ task'[c].todo = task[c].todo /\ task'[c].list = task[c].list
      /\ turn' \in [Peer -> Nat] /\ \A b \in Peer : b # a => turn'[b] = turn[b]
      /\ \/ /\ Online(a) /\ turn' = turn /\ task'[c].at = "open" /\ task'[c].turn = task[c].turn
         \/ /\ ~Online(a) /\ turn'[a] = turn[a] + 1 /\ task'[c].at = "announce"
            /\ task'[c].turn = turn[a] + 1
  <2>1. "open" \in Steps /\ "announce" \in Steps  BY DEF Steps
  <2>2. CASE Online(a)
    <3>1. Goto(c, "open") /\ turn' = turn  BY <2>2 DEF RegisterSession
    <3> QED BY <1>2, <2>1, <2>2, <3>1, GotoStep, PresenceTypes
  <2>3. CASE ~Online(a)
    <3>1. Transition(c, a, "announce")  BY <2>3 DEF RegisterSession
    <3> QED BY <1>2, <1>3, <2>1, <2>3, <3>1, TransitionStep
  <2> QED BY <2>2, <2>3
<1> HIDE DEF a
<1>6. PresenceTypeOK'
  BY <1>1, <1>4, <1>5 DEF PresenceInv, PresenceTypeOK, Task
<1>7. TodoInv'  BY <1>1, <1>5 DEF PresenceInv, TodoInv, TaskAt
<1>8. WatchIndexesAgree'
  BY <1>1, <1>5 DEF PresenceInv, WatchIndexesAgree, Undoing, TaskAt
<1>9. TurnInv'
  <2>1. SUFFICES ASSUME NEW d \in Conn
        PROVE /\ task'[d].turn <= turn'[PeerOf[d]]
              /\ (task'[d].at = "announce" /\ task'[d].turn = turn'[PeerOf[d]])
                    => byAgent'[PeerOf[d]] # NoConn
              /\ (task'[d].at = "retract" /\ task'[d].turn = turn'[PeerOf[d]])
                    => byAgent'[PeerOf[d]] = NoConn
    BY DEF TurnInv, TaskAt, Online
  <2>2. task[d].turn \in Nat /\ turn[PeerOf[d]] \in Nat /\ PeerOf[d] \in Peer
    BY <1>2, PresenceTypes DEF Task
  <2>3. task[d].turn <= turn[PeerOf[d]] BY DEF PresenceInv, TurnInv
  <2>4. CASE d = c
    BY <1>3, <1>4, <1>5, <2>2, <2>3, <2>4 DEF a
  <2>5. CASE d # c
    BY <1>3, <1>4, <1>5, <2>2, <2>3, <2>5 DEF a, PresenceInv, TurnInv, TaskAt, Online
  <2> QED BY <2>4, <2>5
<1>10. WordInv'
  <2>1. SUFFICES ASSUME NEW b \in Peer, NEW w \in watchers[b], <<w, b>> \notin muddled
                 PROVE  Telling(b)' \/ (told[w][b] = "online") = Online(b)'
    BY <1>1 DEF WordInv
  <2>2. Telling(b) \/ (told[w][b] = "online") = Online(b)
    BY <2>1 DEF PresenceInv, WordInv
  <2>3. CASE b = a /\ ~Online(a)
    BY <1>5, <2>3 DEF Telling, a
  <2>4. CASE b = a /\ Online(a)
    <3>1. Online(b)'  BY <1>3, <1>4, <2>4 DEF Online
    <3>2. Telling(b) => Telling(b)'
      BY <1>1, <1>5, <2>4 DEF Telling, TaskAt
    <3> QED BY <2>2, <2>4, <3>1, <3>2
  <2>5. CASE b # a
    <3>1. Online(b)' = Online(b)  BY <1>4, <2>5 DEF Online
    <3>2. Telling(b) => Telling(b)'
      BY <1>1, <1>5, <2>5 DEF Telling, TaskAt
    <3> QED BY <2>2, <3>1, <3>2
  <2> QED BY <2>3, <2>4, <2>5
<1> QED BY <1>6, <1>7, <1>8, <1>9, <1>10 DEF PresenceInv

\* A step of task c that is not about its agent's entry: nobody starts or stops telling.
Silent(c) ==
    /\ UNCHANGED <<byAgent, turn, told, muddled>>
    /\ \A d \in Conn : d # c => task'[d] = task[d]
    /\ task'[c].turn = task[c].turn
    /\ task[c].at \notin {"announce", "retract"} /\ task'[c].at \notin {"announce", "retract"}
    /\ \A b \in Peer : watchers'[b] \subseteq watchers[b]

\* It changes neither what is true nor what was told.
LEMMA SilentStep ==
    ASSUME PresenceInv, NEW c \in Conn, Silent(c)
    PROVE  TurnInv' /\ WordInv'
<1>1. \A d \in Conn : task'[d].turn = task[d].turn  BY DEF Silent
<1>2. ASSUME NEW d \in Conn, task'[d].at \in {"announce", "retract"}  PROVE task'[d] = task[d]
  BY <1>2 DEF Silent
<1>3. ASSUME NEW d \in Conn, task[d].at \in {"announce", "retract"}  PROVE task'[d] = task[d]
  BY <1>3 DEF Silent
<1>4. TurnInv'
  BY <1>1, <1>2 DEF Silent, PresenceInv, TurnInv, TaskAt, Online
<1>5. ASSUME NEW b \in Peer, Telling(b)  PROVE Telling(b)'
  BY <1>3, <1>5 DEF Silent, Telling
<1>6. WordInv'
  BY <1>5 DEF Silent, PresenceInv, WordInv, Online
<1> QED BY <1>4, <1>6

\* The far end falls silent, or a write to it hangs.
LEMMA FarEndStep ==
    ASSUME PresenceInv, NEW c \in Conn, FallSilent(c) \/ WriteHangs(c)
    PROVE  PresenceInv'
<1>1. /\ UNCHANGED <<byAgent, watchers, watchKeys, bySession, task, turn, told, muddled, unwatches>>
      /\ TaskAt(c, "open")
  BY DEF FallSilent, WriteHangs
<1>2. /\ peer' \in [Conn -> {"answers", "silent", "closed"}]
      /\ writer' \in [Conn -> {"ready", "write"}]
  BY DEF FallSilent, WriteHangs, PresenceInv, PresenceTypeOK
<1>3. PresenceTypeOK'  BY <1>1, <1>2 DEF PresenceInv, PresenceTypeOK
<1>4. TodoInv' /\ WatchIndexesAgree'
  BY <1>1 DEF PresenceInv, TodoInv, WatchIndexesAgree, Undoing, TaskAt
<1>5. Silent(c)  BY <1>1 DEF Silent, TaskAt
<1> QED BY <1>3, <1>4, <1>5, SilentStep DEF PresenceInv

\* The io loop ends: the session's index entry goes, and its watches are to be undone.
LEMMA CleanupStep ==
    ASSUME PresenceInv, NEW c \in Conn, LoopExits(c) \/ ReapSilent(c)
    PROVE  PresenceInv'
<1>1. /\ TaskAt(c, "open") /\ BeginCleanup(c)
      /\ UNCHANGED <<byAgent, watchers, watchKeys, turn, told, muddled, unwatches>>
  BY DEF LoopExits, ReapSilent
<1>2. PresenceTypeOK  BY DEF PresenceInv
<1>3. task[c] \in Task /\ bySession \in [Conn -> SUBSET Peer]  BY <1>2, PresenceTypes
<1> DEFINE t == [task[c] EXCEPT !.at = "unwatch", !.todo = bySession[c], !.next = "leave"]
<1>4. t \in Task /\ t.at = "unwatch" /\ t.todo = bySession[c] /\ t.turn = task[c].turn
  BY <1>3 DEF Task, Steps
<1>5. task' = [task EXCEPT ![c] = t]  BY <1>1 DEF BeginCleanup
<1> HIDE DEF t
<1>6. task' \in [Conn -> Task] /\ task'[c] = t /\ \A d \in Conn : d # c => task'[d] = task[d]
  BY <1>2, <1>4, <1>5, TaskStep
<1>7. /\ bySession' \in [Conn -> SUBSET Peer] /\ bySession'[c] = {}
      /\ \A d \in Conn : d # c => bySession'[d] = bySession[d]
  BY <1>1, <1>3 DEF BeginCleanup
<1>8. /\ peer' \in [Conn -> {"answers", "silent", "closed"}]
      /\ writer' \in [Conn -> {"ready", "write"}]
  BY <1>1, <1>2 DEF BeginCleanup, PresenceTypeOK
<1>9. PresenceTypeOK'
  <2>1. Cardinality({}) <= WatchCap  BY FS_EmptySet, PresenceAssumption
  <2>2. \A d \in Conn : Cardinality(bySession'[d]) <= WatchCap
    BY <1>2, <1>7, <2>1 DEF PresenceTypeOK
  <2> QED BY <1>1, <1>2, <1>6, <1>7, <1>8, <2>2 DEF PresenceTypeOK, Task
<1>10. TodoInv'
  BY <1>4, <1>6, <1>7, FS_EmptySet DEF PresenceInv, TodoInv
<1>11. WatchIndexesAgree'
  BY <1>1, <1>4, <1>6, <1>7 DEF PresenceInv, WatchIndexesAgree, Undoing, TaskAt
<1>12. Silent(c)  BY <1>1, <1>4, <1>6 DEF Silent, TaskAt
<1> QED BY <1>9, <1>10, <1>11, <1>12, SilentStep DEF PresenceInv

\* A watch is given up, its first half.
LEMMA UnwatchStep ==
    ASSUME PresenceInv, NEW c \in Conn, NEW a \in Peer, Unwatch(c, a)
    PROVE  PresenceInv'
<1>1. /\ TaskAt(c, "open") /\ unwatches < MaxUnwatches /\ unwatches' = unwatches + 1
      /\ bySession' = [bySession EXCEPT ![c] = @ \ {a}]
      /\ UNCHANGED <<byAgent, watchers, watchKeys, peer, writer, turn, told, muddled>>
  BY DEF Unwatch
<1>2. PresenceTypeOK  BY DEF PresenceInv
<1>3. task[c] \in Task /\ bySession \in [Conn -> SUBSET Peer]  BY <1>2, PresenceTypes
<1> DEFINE t == [task[c] EXCEPT !.at = "unwatch", !.todo = {a}, !.next = "open"]
<1>4. t \in Task /\ t.at = "unwatch" /\ t.todo = {a} /\ t.turn = task[c].turn
  BY <1>3 DEF Task, Steps
<1>5. task' = [task EXCEPT ![c] = t]  BY DEF Unwatch
<1> HIDE DEF t
<1>6. task' \in [Conn -> Task] /\ task'[c] = t /\ \A d \in Conn : d # c => task'[d] = task[d]
  BY <1>2, <1>4, <1>5, TaskStep
<1>7. /\ bySession' \in [Conn -> SUBSET Peer] /\ bySession'[c] = bySession[c] \ {a}
      /\ \A d \in Conn : d # c => bySession'[d] = bySession[d]
  BY <1>1, <1>3
<1>8. /\ IsFiniteSet(bySession[c] \ {a})
      /\ Cardinality(bySession[c] \ {a}) <= Cardinality(bySession[c])
      /\ Cardinality(bySession[c] \ {a}) \in Nat /\ Cardinality(bySession[c]) \in Nat
  <2>1. IsFiniteSet(bySession[c]) /\ bySession[c] \ {a} \subseteq bySession[c]
    BY DEF PresenceInv, TodoInv
  <2> QED BY <2>1, FS_Subset, FS_CardinalityType
<1>9. PresenceTypeOK'
  <2>1. ASSUME NEW d \in Conn  PROVE Cardinality(bySession'[d]) <= WatchCap
    <3>1. Cardinality(bySession[d]) <= WatchCap  BY <1>2 DEF PresenceTypeOK
    <3>2. CASE d = c  BY <1>7, <1>8, <3>1, <3>2, PresenceAssumption
    <3>3. CASE d # c  BY <1>7, <3>1, <3>3
    <3> QED BY <3>2, <3>3
  <2>2. unwatches' \in 0..MaxUnwatches  BY <1>1, <1>2, PresenceAssumption DEF PresenceTypeOK
  <2> QED BY <1>1, <1>2, <1>6, <1>7, <2>1, <2>2 DEF PresenceTypeOK, Task
<1>10. TodoInv'
  BY <1>4, <1>6, <1>7, <1>8 DEF PresenceInv, TodoInv
<1>11. WatchIndexesAgree'
  BY <1>1, <1>4, <1>6, <1>7 DEF PresenceInv, WatchIndexesAgree, Undoing, TaskAt
<1>12. Silent(c)  BY <1>1, <1>4, <1>6 DEF Silent, TaskAt
<1> QED BY <1>9, <1>10, <1>11, <1>12, SilentStep DEF PresenceInv

\* Nothing is left to undo.
LEMMA UndoneStep ==
    ASSUME PresenceInv, NEW c \in Conn, DropFromList(c), task[c].todo = {}
    PROVE  PresenceInv'
<1>1. /\ TaskAt(c, "unwatch") /\ Goto(c, task[c].next)
      /\ UNCHANGED <<byAgent, watchers, watchKeys, bySession, peer, writer, turn, told, muddled,
                     unwatches>>
  BY DEF DropFromList
<1>2. PresenceTypeOK  BY DEF PresenceInv
<1>3. task[c].next \in Steps /\ task[c].next \in {"open", "leave"}
  BY <1>2, PresenceTypes DEF Task, Steps
<1>4. /\ task' \in [Conn -> Task] /\ \A d \in Conn : d # c => task'[d] = task[d]
      /\ task'[c].at \in {"open", "leave"} /\ task'[c].todo = {}
      /\ task'[c].turn = task[c].turn
  BY <1>1, <1>2, <1>3, GotoStep
<1>5. PresenceTypeOK'  BY <1>1, <1>2, <1>4 DEF PresenceTypeOK, Task
<1>6. TodoInv'  BY <1>1, <1>4 DEF PresenceInv, TodoInv
<1>7. WatchIndexesAgree'
  BY <1>1, <1>4 DEF PresenceInv, WatchIndexesAgree, Undoing, TaskAt
<1>8. Silent(c)  BY <1>1, <1>4 DEF Silent, TaskAt
<1> QED BY <1>5, <1>6, <1>7, <1>8, SilentStep DEF PresenceInv

\* One watcher list is left; the key of an emptied one is for this task to reclaim.
LEMMA DropStep ==
    ASSUME PresenceInv, NEW c \in Conn, DropFromList(c), task[c].todo # {}
    PROVE  PresenceInv'
<1>1. PICK a \in task[c].todo :
         /\ watchers' = [watchers EXCEPT ![a] = @ \ {c}]
         /\ task' = [task EXCEPT ![c] =
               [@ EXCEPT !.todo = task[c].todo \ {a}, !.list = a,
                         !.at = IF a \in watchKeys /\ watchers[a] \subseteq {c}
                                THEN "reclaim" ELSE "unwatch"]]
  BY DEF DropFromList
<1>2. /\ TaskAt(c, "unwatch")
      /\ UNCHANGED <<byAgent, watchKeys, bySession, peer, writer, turn, told, muddled, unwatches>>
  BY DEF DropFromList
<1>3. PresenceTypeOK  BY DEF PresenceInv
<1>4. task[c] \in Task /\ watchers \in [Peer -> SUBSET Conn]  BY <1>3, PresenceTypes
<1>5. a \in Peer  BY <1>1, <1>4 DEF Task
<1> DEFINE t == [task[c] EXCEPT !.todo = task[c].todo \ {a}, !.list = a,
                                !.at = IF a \in watchKeys /\ watchers[a] \subseteq {c}
                                       THEN "reclaim" ELSE "unwatch"]
<1>6. /\ t \in Task /\ t.todo = task[c].todo \ {a} /\ t.list = a /\ t.turn = task[c].turn
      /\ t.at \in {"unwatch", "reclaim"}
      /\ (a \in watchKeys /\ watchers[a] \subseteq {c}) => t.at = "reclaim"
  BY <1>4, <1>5 DEF Task, Steps
<1>7. task' = [task EXCEPT ![c] = t]  BY <1>1
<1> HIDE DEF t
<1>8. task' \in [Conn -> Task] /\ task'[c] = t /\ \A d \in Conn : d # c => task'[d] = task[d]
  BY <1>3, <1>6, <1>7, TaskStep
<1>9. /\ watchers' \in [Peer -> SUBSET Conn] /\ watchers'[a] = watchers[a] \ {c}
      /\ \A b \in Peer : b # a => watchers'[b] = watchers[b]
  BY <1>1, <1>4, <1>5
<1>10. PresenceTypeOK'  BY <1>2, <1>3, <1>8, <1>9 DEF PresenceTypeOK, Task
<1>11. TodoInv'  BY <1>2, <1>6, <1>8 DEF PresenceInv, TodoInv
<1>12. WatchIndexesAgree'
  <2>1. a \notin bySession[c]  BY <1>1 DEF PresenceInv, TodoInv
  <2>2. ASSUME NEW d \in Conn, NEW b \in Peer
        PROVE /\ b \in bySession'[d] => d \in watchers'[b]
              /\ d \in watchers'[b] => b \in bySession'[d] \/ Undoing(d, b)'
    <3>1. /\ b \in bySession[d] => d \in watchers[b]
          /\ d \in watchers[b] => b \in bySession[d] \/ Undoing(d, b)
      BY DEF PresenceInv, WatchIndexesAgree
    <3>2. b \in bySession'[d] => d \in watchers'[b]
      BY <1>2, <1>9, <2>1, <3>1
    <3>3. ASSUME d \in watchers'[b], Undoing(d, b)  PROVE Undoing(d, b)'
      BY <1>6, <1>8, <1>9, <3>3 DEF Undoing
    <3> QED BY <1>2, <1>9, <3>1, <3>2, <3>3
  <2>3. \A b \in Peer : watchers'[b] # {} => b \in watchKeys'
    BY <1>2, <1>9 DEF PresenceInv, WatchIndexesAgree
  <2>4. ASSUME NEW b \in watchKeys', watchers'[b] = {}
        PROVE  \E d \in Conn : TaskAt(d, "reclaim")' /\ task'[d].list = b
    <3>1. CASE b = a
      <4>1. watchers[a] \subseteq {c} /\ a \in watchKeys  BY <1>2, <1>9, <2>4, <3>1
      <4> QED BY <1>6, <1>8, <3>1, <4>1 DEF TaskAt
    <3>2. CASE b # a
      <4>1. b \in watchKeys /\ b \in Peer /\ watchers[b] = {}
        BY <1>2, <1>3, <1>9, <2>4, <3>2, PresenceTypes
      <4>2. PICK d \in Conn : TaskAt(d, "reclaim") /\ task[d].list = b
        BY <4>1 DEF PresenceInv, WatchIndexesAgree
      <4> QED BY <1>2, <1>8, <4>2 DEF TaskAt
    <3> QED BY <3>1, <3>2
  <2> QED BY <2>2, <2>3, <2>4 DEF WatchIndexesAgree
<1>13. Silent(c)  BY <1>2, <1>6, <1>8, <1>9 DEF Silent, TaskAt
<1> QED BY <1>10, <1>11, <1>12, <1>13, SilentStep DEF PresenceInv

\* The key of an emptied list is reclaimed, unless a watcher arrived in between.
LEMMA ReclaimStep ==
    ASSUME PresenceInv, NEW c \in Conn, Reclaim(c)
    PROVE  PresenceInv'
<1> DEFINE a == task[c].list
<1>1. /\ TaskAt(c, "reclaim") /\ Goto(c, "unwatch")
      /\ watchKeys' = IF watchers[a] = {} THEN watchKeys \ {a} ELSE watchKeys
      /\ UNCHANGED <<byAgent, watchers, bySession, peer, writer, turn, told, muddled, unwatches>>
  BY DEF Reclaim
<1>2. PresenceTypeOK  BY DEF PresenceInv
<1>3. /\ task' \in [Conn -> Task] /\ \A d \in Conn : d # c => task'[d] = task[d]
      /\ task'[c].at = "unwatch" /\ task'[c].todo = task[c].todo
      /\ task'[c].turn = task[c].turn
  BY <1>1, <1>2, GotoStep DEF Steps
<1>4. PresenceTypeOK'
  BY <1>1, <1>2, <1>3 DEF PresenceTypeOK, Task
<1>5. TodoInv'  BY <1>1, <1>3 DEF PresenceInv, TodoInv
<1>6. WatchIndexesAgree'
  <2>1. ASSUME NEW d \in Conn, NEW b \in Peer, Undoing(d, b)  PROVE Undoing(d, b)'
    BY <1>3, <2>1 DEF Undoing
  <2>2. ASSUME NEW b \in watchKeys', watchers'[b] = {}
        PROVE  \E d \in Conn : TaskAt(d, "reclaim")' /\ task'[d].list = b
    <3>1. b \in watchKeys /\ watchers[b] = {} /\ b # a  BY <1>1, <2>2
    <3>2. PICK d \in Conn : TaskAt(d, "reclaim") /\ task[d].list = b
      BY <3>1 DEF PresenceInv, WatchIndexesAgree
    <3> QED BY <1>3, <3>1, <3>2 DEF TaskAt
  <2> QED BY <1>1, <2>1, <2>2 DEF PresenceInv, WatchIndexesAgree
<1>7. Silent(c)  BY <1>1, <1>3 DEF Silent, TaskAt
<1> QED BY <1>4, <1>5, <1>6, <1>7, SilentStep DEF PresenceInv
\* A watch is placed, and its echo taken or refused.
LEMMA WatchStep ==
    ASSUME PresenceInv, NEW c \in Conn, NEW a \in Peer, Watch(c, a)
    PROVE  PresenceInv'
<1>1. /\ TaskAt(c, "open") /\ a \notin bySession[c] /\ RoomToWatch(c)
      /\ bySession' = [bySession EXCEPT ![c] = @ \cup {a}]
      /\ watchKeys' = watchKeys \cup {a} /\ watchers' = [watchers EXCEPT ![a] = @ \cup {c}]
      /\ UNCHANGED <<byAgent, task, peer, writer, turn, unwatches>>
  BY DEF Watch
<1>2. PresenceTypeOK  BY DEF PresenceInv
<1>3. /\ watchers' \in [Peer -> SUBSET Conn] /\ watchers'[a] = watchers[a] \cup {c}
      /\ \A b \in Peer : b # a => watchers'[b] = watchers[b]
  BY <1>1, <1>2, PresenceTypes
<1>4. /\ bySession' \in [Conn -> SUBSET Peer] /\ bySession'[c] = bySession[c] \cup {a}
      /\ \A d \in Conn : d # c => bySession'[d] = bySession[d]
  BY <1>1, <1>2, PresenceTypes
<1>5. /\ IsFiniteSet(bySession[c] \cup {a}) /\ Cardinality(bySession[c] \cup {a}) <= WatchCap
  <2>1. IsFiniteSet(bySession[c])  BY DEF PresenceInv, TodoInv
  <2>2. /\ IsFiniteSet(bySession[c] \cup {a})
        /\ Cardinality(bySession[c] \cup {a}) = Cardinality(bySession[c]) + 1
        /\ Cardinality(bySession[c]) \in Nat
    BY <1>1, <2>1, FS_AddElement, FS_CardinalityType
  <2> QED BY <1>1, <2>2, PresenceAssumption DEF RoomToWatch
<1>6. /\ told' \in [Conn -> [Peer -> {"nothing", "online", "offline"}]]
      /\ \A w \in Conn, b \in Peer : <<w, b>> # <<c, a>> =>
            told'[w][b] = told[w][b] /\ (<<w, b>> \in muddled' <=> <<w, b>> \in muddled)
      /\ <<c, a>> \in muddled' \/ (told'[c][a] = "online") = Online(a)
      /\ muddled' \subseteq Conn \X Peer
  <2>1. told \in [Conn -> [Peer -> {"nothing", "online", "offline"}]] /\ muddled \subseteq Conn \X Peer
    BY <1>2, PresenceTypes
  <2>2. CASE /\ told' = [told EXCEPT ![c][a] = IF Online(a) THEN "online" ELSE "offline"]
             /\ muddled' = muddled \ {<<c, a>>}
    <3> DEFINE v == IF Online(a) THEN "online" ELSE "offline"
               f == [told[c] EXCEPT ![a] = v]
    <3>1. v \in {"nothing", "online", "offline"} /\ (v = "online") = Online(a)  BY DEF Online
    <3>2. told' = [told EXCEPT ![c] = f]  BY <2>2
    <3> HIDE DEF v
    <3>3. told[c] \in [Peer -> {"nothing", "online", "offline"}]  BY <2>1
    <3>4. /\ f \in [Peer -> {"nothing", "online", "offline"}] /\ f[a] = v
          /\ \A b \in Peer : b # a => f[b] = told[c][b]
      BY <3>1, <3>3
    <3> HIDE DEF f
    <3>5. /\ told' \in [Conn -> [Peer -> {"nothing", "online", "offline"}]] /\ told'[c] = f
          /\ \A w \in Conn : w # c => told'[w] = told[w]
      BY <2>1, <3>2, <3>4
    <3> QED BY <2>1, <2>2, <3>1, <3>4, <3>5
  <2>3. CASE muddled' = muddled \cup {<<c, a>>} /\ UNCHANGED told
    BY <2>1, <2>3
  <2> QED BY <2>2, <2>3 DEF Watch
<1>7. PresenceTypeOK'
  <2>1. ASSUME NEW d \in Conn  PROVE Cardinality(bySession'[d]) <= WatchCap
    BY <1>2, <1>4, <1>5 DEF PresenceTypeOK
  <2> QED BY <1>1, <1>2, <1>3, <1>4, <1>6, <2>1 DEF PresenceTypeOK
<1>8. TodoInv'
  <2>1. task[c].todo = {}  BY <1>1 DEF PresenceInv, TodoInv, TaskAt
  <2> QED BY <1>1, <1>4, <1>5, <2>1 DEF PresenceInv, TodoInv
<1>9. WatchIndexesAgree'
  BY <1>1, <1>3, <1>4 DEF PresenceInv, WatchIndexesAgree, Undoing, TaskAt
<1>10. TurnInv'
  BY <1>1 DEF PresenceInv, TurnInv, TaskAt, Online
<1>11. WordInv'
  <2>1. ASSUME NEW b \in Peer  PROVE Telling(b)' = Telling(b) /\ Online(b)' = Online(b)
    BY <1>1 DEF Telling, Online
  <2>2. ASSUME NEW b \in Peer, NEW w \in watchers'[b]
        PROVE  <<w, b>> \in muddled' \/ Telling(b) \/ (told'[w][b] = "online") = Online(b)
    <3>1. CASE <<w, b>> = <<c, a>>  BY <1>6, <3>1
    <3>2. CASE <<w, b>> # <<c, a>>
      <4>1. w \in watchers[b] /\ w \in Conn  BY <1>2, <1>3, <2>2, <3>2, PresenceTypes
      <4> QED BY <1>6, <3>2, <4>1 DEF PresenceInv, WordInv
    <3> QED BY <3>1, <3>2
  <2> QED BY <2>1, <2>2 DEF WordInv
<1> QED BY <1>7, <1>8, <1>9, <1>10, <1>11 DEF PresenceInv
\* A broadcast: each watcher has the word in turn, or a mark.
LEMMA BroadcastWords ==
    ASSUME PresenceTypeOK, NEW c \in Conn, NEW a \in Peer, NEW word \in {"online", "offline"},
           Broadcast(c, a, word)
    PROVE  /\ told' \in [Conn -> [Peer -> {"nothing", "online", "offline"}]]
           /\ muddled' \subseteq Conn \X Peer
           /\ \A w \in Conn, b \in Peer : b # a =>
                 told'[w][b] = told[w][b] /\ (<<w, b>> \in muddled' <=> <<w, b>> \in muddled)
           /\ \A w \in watchers[a] :
                 <<w, a>> \in muddled' \/ (told'[w][a] = word /\ task[c].turn = turn[a])
<1>1. PICK refused \in SUBSET watchers[a] :
        /\ told' = [w \in Conn |-> IF w \in watchers[a] \ refused
                                   THEN [told[w] EXCEPT ![a] = word] ELSE told[w]]
        /\ muddled' =
              LET bad == IF task[c].turn # turn[a] THEN watchers[a] ELSE refused
              IN  (muddled \ {<<w, a>> : w \in watchers[a]}) \cup {<<w, a>> : w \in bad}
  BY DEF Broadcast
<1>2. /\ told \in [Conn -> [Peer -> {"nothing", "online", "offline"}]]
      /\ muddled \subseteq Conn \X Peer /\ watchers[a] \subseteq Conn
  BY PresenceTypes
<1>3. ASSUME NEW w \in Conn
      PROVE  /\ told'[w] \in [Peer -> {"nothing", "online", "offline"}]
             /\ \A b \in Peer : b # a => told'[w][b] = told[w][b]
             /\ w \in watchers[a] \ refused => told'[w][a] = word
  <2>1. told[w] \in [Peer -> {"nothing", "online", "offline"}]  BY <1>2
  <2>2. /\ [told[w] EXCEPT ![a] = word] \in [Peer -> {"nothing", "online", "offline"}]
        /\ [told[w] EXCEPT ![a] = word][a] = word
        /\ \A b \in Peer : b # a => [told[w] EXCEPT ![a] = word][b] = told[w][b]
    BY <2>1
  <2>3. told'[w] = IF w \in watchers[a] \ refused THEN [told[w] EXCEPT ![a] = word] ELSE told[w]
    BY <1>1
  <2> QED BY <2>1, <2>2, <2>3
<1>4. told' \in [Conn -> [Peer -> {"nothing", "online", "offline"}]]
  <2>1. told' = [w \in Conn |-> told'[w]]  BY <1>1
  <2> QED BY <1>3, <2>1
<1> DEFINE bad == IF task[c].turn # turn[a] THEN watchers[a] ELSE refused
<1>5. /\ bad \subseteq watchers[a] /\ refused \subseteq bad
      /\ task[c].turn # turn[a] => bad = watchers[a]
  BY <1>1
<1>6. muddled' = (muddled \ {<<w, a>> : w \in watchers[a]}) \cup {<<w, a>> : w \in bad}
  BY <1>1
<1> HIDE DEF bad
<1>7. muddled' \subseteq Conn \X Peer  BY <1>2, <1>5, <1>6
<1>8. ASSUME NEW w \in Conn, NEW b \in Peer, b # a
      PROVE  <<w, b>> \in muddled' <=> <<w, b>> \in muddled
  BY <1>6, <1>8
<1>9. ASSUME NEW w \in watchers[a]
      PROVE  <<w, a>> \in muddled' \/ (told'[w][a] = word /\ task[c].turn = turn[a])
  <2>1. CASE w \in bad  BY <1>6, <2>1
  <2>2. CASE w \notin bad
    <3>1. w \in watchers[a] \ refused /\ task[c].turn = turn[a]  BY <1>5, <2>2
    <3> QED BY <1>2, <1>3, <3>1
  <2> QED BY <2>1, <2>2
<1> QED BY <1>3, <1>4, <1>7, <1>8, <1>9

\* The second half of register and of unregister: the watchers are told.
LEMMA TellStep ==
    ASSUME PresenceInv, NEW c \in Conn, Announce(c) \/ Retract(c)
    PROVE  PresenceInv'
<1> DEFINE a == PeerOf[c]
<1>1. PresenceTypeOK  BY DEF PresenceInv
<1>2. a \in Peer  BY <1>1, PresenceTypes
<1>3. PICK word \in {"online", "offline"}, s \in {"open", "gone"} :
         /\ Broadcast(c, a, word) /\ Goto(c, s)
         /\ task[c].turn = turn[a] => (word = "online") = Online(a)
  <2>1. CASE Announce(c)
    <3>1. Broadcast(c, a, "online") /\ Goto(c, "open") /\ TaskAt(c, "announce")
      BY <2>1 DEF Announce
    <3>2. task[c].turn = turn[a] => ("online" = "online") = Online(a)
      BY <3>1 DEF PresenceInv, TurnInv, Online
    <3> QED BY <3>1, <3>2
  <2>2. CASE Retract(c)
    <3>1. Broadcast(c, a, "offline") /\ Goto(c, "gone") /\ TaskAt(c, "retract")
      BY <2>2 DEF Retract
    <3>2. task[c].turn = turn[a] => ("offline" = "online") = Online(a)
      BY <3>1 DEF PresenceInv, TurnInv, Online
    <3> QED BY <3>1, <3>2
  <2> QED BY <2>1, <2>2
<1>4. /\ UNCHANGED <<byAgent, watchers, watchKeys, bySession, peer, writer, turn, unwatches>>
      /\ task[c].at \in {"announce", "retract"}
  BY DEF Announce, Retract, TaskAt
<1>5. /\ task' \in [Conn -> Task] /\ \A d \in Conn : d # c => task'[d] = task[d]
      /\ task'[c].at \in {"open", "gone"} /\ task'[c].todo = task[c].todo
      /\ task'[c].turn = task[c].turn
  BY <1>1, <1>3, GotoStep DEF Steps
<1>6. /\ told' \in [Conn -> [Peer -> {"nothing", "online", "offline"}]]
      /\ muddled' \subseteq Conn \X Peer
      /\ \A w \in Conn, b \in Peer : b # a =>
            told'[w][b] = told[w][b] /\ (<<w, b>> \in muddled' <=> <<w, b>> \in muddled)
      /\ \A w \in watchers[a] :
            <<w, a>> \in muddled' \/ (told'[w][a] = word /\ task[c].turn = turn[a])
  BY <1>1, <1>2, <1>3, BroadcastWords
<1> HIDE DEF a
<1>7. PresenceTypeOK'  BY <1>1, <1>4, <1>5, <1>6 DEF PresenceTypeOK, Task
<1>8. TodoInv'  BY <1>4, <1>5 DEF PresenceInv, TodoInv
<1>9. WatchIndexesAgree'
  BY <1>4, <1>5 DEF PresenceInv, WatchIndexesAgree, Undoing, TaskAt
<1>10. TurnInv'
  BY <1>4, <1>5 DEF PresenceInv, TurnInv, TaskAt, Online
<1>11. WordInv'
  <2>1. ASSUME NEW b \in Peer, NEW w \in watchers[b]
        PROVE  <<w, b>> \in muddled' \/ Telling(b)' \/ (told'[w][b] = "online") = Online(b)'
    <3>1. Online(b)' = Online(b) /\ w \in Conn  BY <1>1, <1>4, PresenceTypes DEF Online
    <3>2. CASE b = a
      <4>1. CASE <<w, b>> \in muddled'  BY <4>1
      <4>2. CASE <<w, b>> \notin muddled'
        <5>1. told'[w][b] = word /\ (word = "online") = Online(b)
          BY <1>3, <1>6, <2>1, <3>2, <4>2
        <5> QED BY <3>1, <5>1
      <4> QED BY <4>1, <4>2
    <3>3. CASE b # a
      <4>1. Telling(b) => Telling(b)'
        BY <1>4, <1>5, <3>3 DEF Telling, a
      <4>2. <<w, b>> \in muddled \/ Telling(b) \/ (told[w][b] = "online") = Online(b)
        BY <2>1 DEF PresenceInv, WordInv
      <4> QED BY <1>6, <3>1, <3>3, <4>1, <4>2
    <3> QED BY <3>2, <3>3
  <2> QED BY <1>4, <2>1 DEF WordInv
<1> QED BY <1>7, <1>8, <1>9, <1>10, <1>11 DEF PresenceInv

\* unregister, its first half: the entry goes if it is this session's.
LEMMA LeaveStep ==
    ASSUME PresenceInv, NEW c \in Conn, Leave(c)
    PROVE  PresenceInv'
<1> DEFINE a == PeerOf[c]
<1>1. PresenceTypeOK  BY DEF PresenceInv
<1>2. a \in Peer /\ c # NoConn  BY <1>1, PresenceTypes
<1>3. /\ TaskAt(c, "leave")
      /\ UNCHANGED <<watchers, watchKeys, bySession, peer, writer, told, muddled, unwatches>>
  BY DEF Leave
<1>4. CASE byAgent[a] = c
  <2>1. byAgent' = [byAgent EXCEPT ![a] = NoConn] /\ Transition(c, a, "retract")
    BY <1>4 DEF Leave
  <2>2. /\ task' \in [Conn -> Task] /\ \A d \in Conn : d # c => task'[d] = task[d]
        /\ task'[c].at = "retract" /\ task'[c].todo = task[c].todo
        /\ task'[c].turn = turn[a] + 1
        /\ turn' \in [Peer -> Nat] /\ turn'[a] = turn[a] + 1
        /\ \A b \in Peer : b # a => turn'[b] = turn[b]
    BY <1>1, <1>2, <2>1, TransitionStep DEF Steps
  <2>3. /\ byAgent' \in [Peer -> Conn \cup {NoConn}] /\ byAgent'[a] = NoConn
        /\ \A b \in Peer : b # a => byAgent'[b] = byAgent[b]
    BY <1>1, <1>2, <2>1, PresenceTypes
  <2> HIDE DEF a
  <2>4. PresenceTypeOK'  BY <1>1, <1>3, <2>2, <2>3 DEF PresenceTypeOK, Task
  <2>5. TodoInv'
    <3>1. task[c].todo = {}  BY <1>3 DEF PresenceInv, TodoInv, TaskAt
    <3> QED BY <1>3, <2>2, <3>1 DEF PresenceInv, TodoInv
  <2>6. WatchIndexesAgree'
    BY <1>3, <2>2 DEF PresenceInv, WatchIndexesAgree, Undoing, TaskAt
  <2>7. TurnInv'
    <3>1. SUFFICES ASSUME NEW d \in Conn
          PROVE /\ task'[d].turn <= turn'[PeerOf[d]]
                /\ (task'[d].at = "announce" /\ task'[d].turn = turn'[PeerOf[d]])
                      => byAgent'[PeerOf[d]] # NoConn
                /\ (task'[d].at = "retract" /\ task'[d].turn = turn'[PeerOf[d]])
                      => byAgent'[PeerOf[d]] = NoConn
      BY DEF TurnInv, TaskAt, Online
    <3>2. task[d].turn \in Nat /\ turn[PeerOf[d]] \in Nat /\ PeerOf[d] \in Peer
      BY <1>1, PresenceTypes DEF Task
    <3>3. task[d].turn <= turn[PeerOf[d]]  BY DEF PresenceInv, TurnInv
    <3>4. CASE d = c
      BY <1>2, <2>2, <2>3, <3>2, <3>4 DEF a
    <3>5. CASE d # c
      BY <1>2, <2>2, <2>3, <3>2, <3>3, <3>5 DEF a, PresenceInv, TurnInv, TaskAt, Online
    <3> QED BY <3>4, <3>5
  <2>8. WordInv'
    <3>1. SUFFICES ASSUME NEW b \in Peer, NEW w \in watchers[b], <<w, b>> \notin muddled
                   PROVE  Telling(b)' \/ (told[w][b] = "online") = Online(b)'
      BY <1>3 DEF WordInv
    <3>2. CASE b = a
      BY <2>2, <3>2 DEF Telling, a
    <3>3. CASE b # a
      <4>1. Telling(b) \/ (told[w][b] = "online") = Online(b)
        BY <3>1 DEF PresenceInv, WordInv
      <4>2. Online(b)' = Online(b)  BY <2>3, <3>3 DEF Online
      <4>3. Telling(b) => Telling(b)'
        BY <1>3, <2>2, <3>3 DEF Telling, TaskAt
      <4> QED BY <4>1, <4>2, <4>3
    <3> QED BY <3>2, <3>3
  <2> QED BY <2>4, <2>5, <2>6, <2>7, <2>8 DEF PresenceInv
<1>5. CASE byAgent[a] # c
  <2>1. Goto(c, "gone") /\ UNCHANGED <<byAgent, turn>>  BY <1>5 DEF Leave
  <2>2. /\ task' \in [Conn -> Task] /\ \A d \in Conn : d # c => task'[d] = task[d]
        /\ task'[c].at = "gone" /\ task'[c].todo = task[c].todo
        /\ task'[c].turn = task[c].turn
    BY <1>1, <2>1, GotoStep DEF Steps
  <2>3. PresenceTypeOK'  BY <1>1, <1>3, <2>1, <2>2 DEF PresenceTypeOK, Task
  <2>4. TodoInv'
    <3>1. task[c].todo = {}  BY <1>3 DEF PresenceInv, TodoInv, TaskAt
    <3> QED BY <1>3, <2>2, <3>1 DEF PresenceInv, TodoInv
  <2>5. WatchIndexesAgree'
    BY <1>3, <2>2 DEF PresenceInv, WatchIndexesAgree, Undoing, TaskAt
  <2>6. Silent(c)  BY <1>3, <2>1, <2>2 DEF Silent, TaskAt
  <2> QED BY <2>3, <2>4, <2>5, <2>6, SilentStep DEF PresenceInv
<1> QED BY <1>4, <1>5

-----------------------------------------------------------------------------
\* The invariant holds of a relay without sessions.
LEMMA PresenceInvInit == PresenceInit => PresenceInv
<1>1. SUFFICES ASSUME PresenceInit  PROVE PresenceInv  OBVIOUS
<1>2. IsFiniteSet({}) /\ Cardinality({}) = 0  BY FS_EmptySet
<1>3. PresenceTypeOK
  BY <1>1, <1>2, PresenceAssumption DEF PresenceInit, PresenceTypeOK, Steps
<1>4. TodoInv /\ WatchIndexesAgree /\ WordInv
  BY <1>1, <1>2, <1>3 DEF PresenceInit, PresenceTypeOK, TodoInv, WatchIndexesAgree, WordInv
<1>5. TurnInv
  BY <1>1, PresenceAssumption DEF PresenceInit, TurnInv, TaskAt
<1> QED BY <1>3, <1>4, <1>5 DEF PresenceInv

\* Every step of every connection task keeps it.
LEMMA PresenceInvStep == PresenceInv /\ [PresenceNext]_presenceVars => PresenceInv'
<1>1. SUFFICES ASSUME PresenceInv, [PresenceNext]_presenceVars  PROVE PresenceInv'  OBVIOUS
<1>2. CASE UNCHANGED presenceVars
  BY <1>1, <1>2 DEF presenceVars, PresenceInv, PresenceTypeOK, TodoInv, WatchIndexesAgree, Undoing,
     TurnInv, WordInv, Telling, TaskAt, Online
<1>3. ASSUME NEW c \in Conn, RegisterSession(c)  PROVE PresenceInv'
  BY <1>1, <1>3, RegisterStep
<1>4. ASSUME NEW c \in Conn, Announce(c) \/ Retract(c)  PROVE PresenceInv'
  BY <1>1, <1>4, TellStep
<1>5. ASSUME NEW c \in Conn, NEW a \in Peer, Watch(c, a)  PROVE PresenceInv'
  BY <1>1, <1>5, WatchStep
<1>6. ASSUME NEW c \in Conn, NEW a \in Peer, Unwatch(c, a)  PROVE PresenceInv'
  BY <1>1, <1>6, UnwatchStep
<1>7. ASSUME NEW c \in Conn, DropFromList(c)  PROVE PresenceInv'
  BY <1>1, <1>7, UndoneStep, DropStep
<1>8. ASSUME NEW c \in Conn, Reclaim(c)  PROVE PresenceInv'
  BY <1>1, <1>8, ReclaimStep
<1>9. ASSUME NEW c \in Conn, FallSilent(c) \/ WriteHangs(c)  PROVE PresenceInv'
  BY <1>1, <1>9, FarEndStep
<1>10. ASSUME NEW c \in Conn, LoopExits(c) \/ ReapSilent(c)  PROVE PresenceInv'
  BY <1>1, <1>10, CleanupStep
<1>11. ASSUME NEW c \in Conn, Leave(c)  PROVE PresenceInv'
  BY <1>1, <1>11, LeaveStep
<1> QED BY <1>1, <1>2, <1>3, <1>4, <1>5, <1>6, <1>7, <1>8, <1>9, <1>10, <1>11 DEF PresenceNext

\* The inductive invariant of the relay's sessions holds throughout.
THEOREM PresenceInvariant == PresenceSpec => []PresenceInv
BY PresenceInvInit, PresenceInvStep, PTL DEF PresenceSpec

\* Every variable holds a value of its kind and no session exceeds its cap, for any cap
\* (MAX_WATCHES_PER_SESSION).
THEOREM PresenceTypeCorrect == PresenceSpec => []PresenceTypeOK
<1>1. PresenceInv => PresenceTypeOK  BY DEF PresenceInv
<1> QED BY <1>1, PresenceInvariant, PTL

\* The two watch indexes agree and no key leaks, however the tasks interleave: remove_if's
\* second look at the list is enough (session.rs unwatch).
THEOREM IndexesAgree == PresenceSpec => []WatchIndexesAgree
<1>1. PresenceInv => WatchIndexesAgree  BY DEF PresenceInv
<1> QED BY <1>1, PresenceInvariant, PTL

\* A watcher's last word is the truth, for any number of connections of an agent that
\* displace one another, once nothing is left to tell (register, unregister).
THEOREM WatchersKnow == PresenceSpec => []LastWordIsTrue
<1>1. PresenceInv => LastWordIsTrue
  <2>1. SUFFICES ASSUME PresenceInv, NEW c \in Conn, NEW a \in Peer, a \in bySession[c],
                        ~Untold(a), <<c, a>> \notin muddled
                 PROVE  (told[c][a] = "online") = Online(a)
    BY DEF LastWordIsTrue
  <2>2. c \in watchers[a]  BY <2>1 DEF PresenceInv, WatchIndexesAgree
  <2>3. ~Telling(a)  BY <2>1 DEF Telling, Untold
  <2> QED BY <2>1, <2>2, <2>3 DEF PresenceInv, WordInv
<1> QED BY <1>1, PresenceInvariant, PTL
-----------------------------------------------------------------------------
(* The client's supervisor: the inductive invariant, in parts. *)

\* What the queue may hold: a Disconnected only of a generation that was reported.
Commands == {SendCmd(s) : s \in Send} \cup Calls \cup {DownCmd(g) : g \in raised}
\* What goes up the wire, and what comes down: an Ack only of a key the relay accepted.
Frames ==
    {SendFrame(k) : k \in Key} \cup {OtherFrame}
        \cup {WatchFrame(add, remove) : add \in SUBSET Contact, remove \in SUBSET Contact}
Answers ==
    {Reply("acked", k) : k \in relaySide.accepted} \cup {Reply("moved", k) : k \in Key}
        \cup {Reply("bye", 0)}

Supervisor == [at: Points, cur: Send, frame: Frames \cup {NoFrame}, boot: BOOLEAN]
Socket ==
    [link: {"none", "up", "stalled", "dead"}, up: Seq(Frames), down: Seq(Answers),
     mutex: {"free", "supervisor", "keepalive"}, pending: SUBSET Key,
     answer: {"none", "acked", "moved"}, reader: {"off", "on", "ended"},
     keepalive: {"off", "idle", "writing", "ended"}]

RelaySide == [accepted: SUBSET Key, watching: SUBSET Contact, ignored: SUBSET Contact]

\* The types, the queue and the wires among them.
ClientTyped ==
    /\ cmds \in Seq(Commands) /\ sup \in Supervisor /\ socket \in Socket
    /\ inner \in 0..MaxGen /\ nextGen \in 1..MaxGen + 1 /\ attempts \in Nat
    /\ watchSet \in SUBSET Contact
    /\ connState \in {"connecting", "connected", "disconnected", "permanent"}
    /\ relaySide \in RelaySide
    /\ result \in [Send -> Results] /\ raised \in SUBSET Gen
    /\ calls \in 0..MaxCalls /\ faults \in 0..MaxFaults

\* A frame is on its way out only over a connection, and reconnect runs only without one.
PhaseInv ==
    /\ inner = 0 => socket = NoSocket
    /\ sup.at \in {"lock", "write", "ack"} => inner # 0 /\ sup.frame # NoFrame
    /\ sup.at \in {"backoff", "opening", "stopped"} => inner = 0
    /\ sup.at \in {"loop", "backoff", "opening", "stopped"} => sup.frame = NoFrame
    /\ At("ack") => Sending

\* The send in hand, its key, and an Ack for it.
AckInv ==
    /\ Sending => sup.frame.arg = KeyOf[sup.cur]
    /\ Sending /\ socket.answer = "acked" => sup.frame.arg \in relaySide.accepted
    /\ AckedWasAccepted

\* The last frame on the way up that mentions contact x decides on it, if there is one.
Mentions(f, x) == f.op = "watch" /\ (x \in f.arg[1] \/ x \in f.arg[2])
Adds(f, x) == x \in f.arg[1] /\ x \notin f.arg[2]
Will(q, w, x) ==
    \/ \E i \in 1..Len(q) : /\ Mentions(q[i], x) /\ Adds(q[i], x)
                            /\ \A j \in 1..Len(q) : i < j => ~Mentions(q[j], x)
    \/ x \in w /\ \A j \in 1..Len(q) : ~Mentions(q[j], x)

\* The agents the relay was told to watch, those it ignored included.
Named == relaySide.watching \cup relaySide.ignored

\* The watch set is what the relay will know once the wire and the frame in hand are through.
WillWatch(x) ==
    IF Mentions(sup.frame, x) THEN Adds(sup.frame, x)
    ELSE Will(socket.up, Named, x)
WatchInv ==
    (inner # 0 /\ socket.link \in {"up", "stalled"}) =>
        \A x \in Contact : x \in watchSet <=> WillWatch(x)

ClientInv == ClientTyped /\ PhaseInv /\ AckInv /\ WatchInv

-----------------------------------------------------------------------------
\* A frame put on the wire decides on what it mentions.
LEMMA WillAppend ==
    ASSUME NEW q \in Seq(Frames), NEW f \in Frames, NEW w, NEW x
    PROVE  Will(Append(q, f), w, x) <=> IF Mentions(f, x) THEN Adds(f, x) ELSE Will(q, w, x)
<1> DEFINE p == Append(q, f)
<1>1. /\ Len(q) \in Nat /\ Len(p) = Len(q) + 1 /\ p[Len(q) + 1] = f
      /\ \A i \in 1..Len(q) : p[i] = q[i]
  BY AppendProperties, LenProperties
<1> HIDE DEF p
<1>2. CASE Mentions(f, x)
  BY <1>1, <1>2 DEF Will, p
<1>3. CASE ~Mentions(f, x)
  <2>1. ASSUME NEW i \in 1..Len(p), Mentions(p[i], x)  PROVE i \in 1..Len(q) /\ p[i] = q[i]
    BY <1>1, <1>3, <2>1
  <2>2. ASSUME NEW i \in 1..Len(q)  PROVE i \in 1..Len(p)  BY <1>1
  <2> QED BY <1>1, <1>3, <2>1, <2>2 DEF Will, p
<1> QED BY <1>2, <1>3

\* A frame the relay took leaves what it decided behind.
LEMMA WillTail ==
    ASSUME NEW q \in Seq(Frames), q # << >>, NEW w, NEW v, NEW x,
           x \in v <=> IF Mentions(Head(q), x) THEN Adds(Head(q), x) ELSE x \in w
    PROVE  Will(Tail(q), v, x) <=> Will(q, w, x)
<1> DEFINE p == Tail(q)
<1>1. /\ Len(q) \in Nat /\ Len(q) >= 1 /\ Len(p) = Len(q) - 1 /\ Head(q) = q[1]
      /\ \A i \in 1..Len(p) : p[i] = q[i + 1]
  BY HeadTailProperties, LenProperties, EmptySeq
<1> HIDE DEF p
<1>2. \A i \in 1..Len(p) : i + 1 \in 1..Len(q)  BY <1>1
<1>3. \A i \in 1..Len(q) : i # 1 => i - 1 \in 1..Len(p) /\ p[i - 1] = q[i]  BY <1>1
<1>4. (\A j \in 1..Len(p) : ~Mentions(p[j], x)) <=> (\A j \in 1..Len(q) : j # 1 => ~Mentions(q[j], x))
  BY <1>1, <1>2, <1>3
<1>5. ASSUME Will(p, v, x)  PROVE Will(q, w, x)
  <2>1. CASE \E i \in 1..Len(p) : /\ Mentions(p[i], x) /\ Adds(p[i], x)
                                  /\ \A j \in 1..Len(p) : i < j => ~Mentions(p[j], x)
    <3>1. PICK i \in 1..Len(p) : /\ Mentions(p[i], x) /\ Adds(p[i], x)
                                 /\ \A j \in 1..Len(p) : i < j => ~Mentions(p[j], x)
      BY <2>1
    <3>2. ASSUME NEW j \in 1..Len(q), i + 1 < j  PROVE ~Mentions(q[j], x)
      <4>1. j - 1 \in 1..Len(p) /\ p[j - 1] = q[j] /\ i < j - 1  BY <1>1, <1>3, <3>2
      <4> QED BY <3>1, <4>1
    <3>3. i + 1 \in 1..Len(q) /\ q[i + 1] = p[i]  BY <1>1, <1>2
    <3> QED BY <3>1, <3>2, <3>3 DEF Will
  <2>2. CASE x \in v /\ \A j \in 1..Len(p) : ~Mentions(p[j], x)
    <3>1. \A j \in 1..Len(q) : j # 1 => ~Mentions(q[j], x)  BY <1>4, <2>2
    <3>2. 1 \in 1..Len(q) /\ \A j \in 1..Len(q) : 1 < j => j # 1  BY <1>1
    <3> QED BY <1>1, <2>2, <3>1, <3>2 DEF Will
  <2> QED BY <1>5, <2>1, <2>2 DEF Will
<1>6. ASSUME Will(q, w, x)  PROVE Will(p, v, x)
  <2>1. CASE \E i \in 1..Len(q) : /\ Mentions(q[i], x) /\ Adds(q[i], x)
                                  /\ \A j \in 1..Len(q) : i < j => ~Mentions(q[j], x)
    <3>1. PICK i \in 1..Len(q) : /\ Mentions(q[i], x) /\ Adds(q[i], x)
                                 /\ \A j \in 1..Len(q) : i < j => ~Mentions(q[j], x)
      BY <2>1
    <3>2. CASE i = 1
      <4>1. \A j \in 1..Len(q) : j # 1 => ~Mentions(q[j], x)  BY <1>1, <3>1, <3>2
      <4> QED BY <1>1, <1>4, <3>1, <3>2, <4>1 DEF Will
    <3>3. CASE i # 1
      <4>1. i - 1 \in 1..Len(p) /\ p[i - 1] = q[i]  BY <1>3, <3>3
      <4>2. ASSUME NEW j \in 1..Len(p), i - 1 < j  PROVE ~Mentions(p[j], x)
        <5>1. j + 1 \in 1..Len(q) /\ p[j] = q[j + 1] /\ i < j + 1  BY <1>1, <1>2, <4>2
        <5> QED BY <3>1, <5>1
      <4> QED BY <3>1, <4>1, <4>2 DEF Will
    <3> QED BY <3>2, <3>3
  <2>2. CASE x \in w /\ \A j \in 1..Len(q) : ~Mentions(q[j], x)
    BY <1>1, <1>4, <2>2 DEF Will
  <2> QED BY <1>6, <2>1, <2>2 DEF Will
<1> QED BY <1>5, <1>6 DEF p
-----------------------------------------------------------------------------
(* Facts that several steps use. *)

\* What the two ends of a session are made of.
LEMMA ClientTypes ==
    ASSUME ClientTyped
    PROVE  /\ sup \in Supervisor /\ sup.at \in Points /\ sup.cur \in Send /\ sup.boot \in BOOLEAN
           /\ sup.frame \in Frames \cup {NoFrame} /\ socket \in Socket
           /\ socket.up \in Seq(Frames) /\ socket.down \in Seq(Answers)
           /\ KeyOf[sup.cur] \in Key /\ NoSocket \in Socket /\ Fresh \in Socket
           /\ MaxGen \in Nat /\ MaxGen # 0
<1>1. << >> \in Seq(Frames) /\ << >> \in Seq(Answers)  OBVIOUS
<1>2. Fresh \in Socket /\ NoSocket \in Socket  BY <1>1 DEF Fresh, NoSocket, Socket
<1> QED BY <1>2, ClientAssumption DEF ClientTyped, Supervisor, Socket, Key

\* The next command, and the rest.
LEMMA NextCommand ==
    ASSUME ClientTyped, cmds # << >>
    PROVE  Head(cmds) \in Commands /\ Tail(cmds) \in Seq(Commands)
BY HeadTailProperties DEF ClientTyped

\* A command of each kind.
LEMMA CommandKinds ==
    ASSUME ClientTyped, NEW c \in Commands
    PROVE  /\ c.op = "send" => c.arg \in Send
           /\ c.op = "watch" => c.arg[1] \subseteq Contact /\ c.arg[2] \in BOOLEAN
           /\ c.op = "down" => c.arg \in raised
BY ClientAssumption DEF Commands, Calls, SendCmd, WatchCmd, FrameCmd, NowCmd, ShutdownCmd, DownCmd

\* A command put on the queue.
LEMMA QueueGrows ==
    ASSUME ClientTyped, raised \subseteq raised', NEW c, c \in Commands',
           cmds' = Append(cmds, c)
    PROVE  cmds' \in Seq(Commands)'
<1>1. Commands \subseteq Commands'  BY DEF Commands
<1>2. Seq(Commands) \subseteq Seq(Commands')  BY <1>1, SeqMonotonic
<1>3. cmds \in Seq(Commands')  BY <1>2 DEF ClientTyped
<1> QED BY <1>3, AppendProperties

\* An answer other than Ack claims nothing.
LEMMA ResultKeeps ==
    ASSUME ClientTyped, AckedWasAccepted, NEW s \in Send, NEW r \in Results \ {"acked"},
           result' = [result EXCEPT ![s] = r], relaySide' = relaySide
    PROVE  result' \in [Send -> Results] /\ AckedWasAccepted'
BY DEF ClientTyped, AckedWasAccepted

\* A step that leaves the supervisor, its connection and the relay as they are.
LEMMA QuietStep ==
    ASSUME ClientInv, UNCHANGED <<sup, inner, socket, relaySide, watchSet>>, ClientTyped',
           AckedWasAccepted'
    PROVE  ClientInv'
<1>1. PhaseInv'  BY DEF ClientInv, PhaseInv, At, Sending
<1>2. AckInv'  BY DEF ClientInv, AckInv, Sending
<1>3. WatchInv'  BY DEF ClientInv, WatchInv, WillWatch, Named
<1> QED BY <1>1, <1>2, <1>3 DEF ClientInv

\* A step that leaves the frame in hand, the watches and the frames on the way as they are.
LEMMA WatchSame ==
    ASSUME WatchInv, UNCHANGED <<inner, watchSet, Named>>,
           \A x \in Contact : Mentions(sup'.frame, x) <=> Mentions(sup.frame, x),
           \A x \in Contact : Mentions(sup.frame, x) => Adds(sup'.frame, x) = Adds(sup.frame, x),
           socket'.up = socket.up,
           socket'.link \in {"up", "stalled"} => socket.link \in {"up", "stalled"}
    PROVE  WatchInv'
BY DEF WatchInv, WillWatch

-----------------------------------------------------------------------------
(* The handle and the command loop. *)

\* A send or another call is queued, or refused.
LEMMA HandleStep ==
    ASSUME ClientInv, (\E s \in Send : Submit(s)) \/ (\E c \in Calls : Call(c))
    PROVE  ClientInv'
<1>1. ASSUME NEW s \in Send, Submit(s)  PROVE ClientInv'
  <2>1. /\ UNCHANGED <<sup, inner, nextGen, attempts, watchSet, connState, socket, relaySide,
                       raised, calls, faults>>
        /\ \/ result' = [result EXCEPT ![s] = "closed"] /\ cmds' = cmds
           \/ result' = [result EXCEPT ![s] = "queued"] /\ cmds' = Append(cmds, SendCmd(s))
    BY <1>1 DEF Submit
  <2>2. Commands' = Commands /\ Answers' = Answers /\ Socket' = Socket
    BY <2>1 DEF Commands, Answers, Socket
  <2>3. cmds' \in Seq(Commands)'
    <3>1. SendCmd(s) \in Commands'  BY DEF Commands
    <3>2. CASE cmds' = cmds  BY <2>2, <3>2 DEF ClientInv, ClientTyped
    <3>3. CASE cmds' = Append(cmds, SendCmd(s))
      BY <2>1, <3>1, <3>3, QueueGrows DEF ClientInv
    <3> QED BY <2>1, <3>2, <3>3
  <2>4. result' \in [Send -> Results] /\ AckedWasAccepted'
    <3>1. "closed" \in Results \ {"acked"} /\ "queued" \in Results \ {"acked"}  BY DEF Results
    <3> QED BY <2>1, <3>1, ResultKeeps DEF ClientInv, AckInv
  <2>5. ClientTyped'
    BY <2>1, <2>2, <2>3, <2>4 DEF ClientInv, ClientTyped
  <2> QED BY <2>1, <2>4, <2>5, QuietStep
<1>2. ASSUME NEW c \in Calls, Call(c)  PROVE ClientInv'
  <2>1. /\ UNCHANGED <<sup, inner, nextGen, attempts, watchSet, connState, socket, relaySide,
                       result, raised, faults>>
        /\ calls < MaxCalls /\ calls' = calls + 1
        /\ cmds' = cmds \/ cmds' = Append(cmds, c)
    BY <1>2 DEF Call
  <2>2. Commands' = Commands /\ Answers' = Answers /\ Socket' = Socket
    BY <2>1 DEF Commands, Answers, Socket
  <2>3. cmds' \in Seq(Commands)'
    <3>1. c \in Commands'  BY <2>2 DEF Commands
    <3>2. CASE cmds' = cmds  BY <2>2, <3>2 DEF ClientInv, ClientTyped
    <3>3. CASE cmds' = Append(cmds, c)  BY <2>1, <3>1, <3>3, QueueGrows DEF ClientInv
    <3> QED BY <2>1, <3>2, <3>3
  <2>4. calls' \in 0..MaxCalls  BY <2>1, ClientAssumption DEF ClientInv, ClientTyped
  <2>5. ClientTyped'
    BY <2>1, <2>2, <2>3, <2>4 DEF ClientInv, ClientTyped
  <2>6. AckedWasAccepted'  BY <2>1 DEF ClientInv, AckInv, AckedWasAccepted
  <2> QED BY <2>1, <2>5, <2>6, QuietStep
<1> QED BY <1>1, <1>2
\* Nothing was reported and nothing accepted: the same commands and answers.
LEMMA SameSets ==
    ASSUME raised' = raised, relaySide' = relaySide
    PROVE  Commands' = Commands /\ Answers' = Answers /\ Socket' = Socket
BY DEF Commands, Answers, Socket

\* Only watch frames mention anybody.
LEMMA MentionsNone ==
    ASSUME NEW x
    PROVE  /\ ~Mentions(NoFrame, x) /\ ~Mentions(OtherFrame, x)
           /\ \A k : ~Mentions(SendFrame(k), x)
           /\ \A f : f.op = "send" => ~Mentions(f, x)
BY DEF Mentions, NoFrame, OtherFrame, SendFrame

\* A send is taken in hand, or answered at once without a connection.
LEMMA TakeSendStep ==
    ASSUME ClientInv, TakeSend
    PROVE  ClientInv'
<1> DEFINE s == Head(cmds).arg
<1>1. /\ At("loop") /\ cmds # << >> /\ Head(cmds).op = "send" /\ cmds' = Tail(cmds)
      /\ UNCHANGED <<inner, nextGen, attempts, watchSet, connState, relaySide, raised, calls, faults>>
  BY DEF TakeSend, Take
<1>2. ClientTyped /\ AckedWasAccepted  BY DEF ClientInv, AckInv
<1>3. s \in Send /\ KeyOf[s] \in Key /\ Tail(cmds) \in Seq(Commands)
  BY <1>1, <1>2, NextCommand, CommandKinds DEF Key
<1>4. Commands' = Commands /\ Answers' = Answers /\ Socket' = Socket  BY <1>1, SameSets
<1>5. CASE inner # 0
  <2>1. /\ sup' = [sup EXCEPT !.at = "lock", !.cur = s, !.frame = SendFrame(KeyOf[s])]
        /\ socket' = [socket EXCEPT !.pending = socket.pending \cup {KeyOf[s]}, !.answer = "none"]
        /\ result' = result
    BY <1>5 DEF TakeSend
  <2> HIDE DEF s
  <2>2. SendFrame(KeyOf[s]) \in Frames  BY <1>3 DEF Frames
  <2>3. /\ sup' \in Supervisor /\ sup'.at = "lock" /\ sup'.cur = s
        /\ sup'.frame = SendFrame(KeyOf[s])
    BY <1>2, <1>3, <2>1, <2>2, ClientTypes DEF Supervisor, Points
  <2>4. /\ socket' \in Socket /\ socket'.answer = "none" /\ socket'.up = socket.up
        /\ socket'.link = socket.link
    BY <1>2, <1>3, <2>1, ClientTypes DEF Socket
  <2>5. ClientTyped'
    BY <1>1, <1>2, <1>3, <1>4, <2>1, <2>3, <2>4 DEF ClientTyped
  <2>6. PhaseInv'
    BY <1>1, <1>5, <2>3 DEF PhaseInv, At, Sending, SendFrame, NoFrame
  <2>7. AckInv'
    BY <1>1, <1>2, <2>1, <2>3, <2>4 DEF AckInv, Sending, SendFrame, AckedWasAccepted
  <2>8. sup.frame = NoFrame  BY <1>1 DEF ClientInv, PhaseInv, At
  <2>9. WatchInv'
    BY <1>1, <2>3, <2>4, <2>8, MentionsNone, WatchSame DEF ClientInv, Named
  <2> QED BY <2>5, <2>6, <2>7, <2>9 DEF ClientInv
<1>6. CASE inner = 0
  <2>1. /\ result' = [result EXCEPT ![s] = "disconnected"] /\ UNCHANGED <<sup, socket>>
    BY <1>6 DEF TakeSend
  <2>2. "disconnected" \in Results \ {"acked"}  BY DEF Results
  <2>3. result' \in [Send -> Results] /\ AckedWasAccepted'
    BY <1>1, <1>2, <1>3, <2>1, <2>2, ResultKeeps
  <2>4. ClientTyped'
    BY <1>1, <1>2, <1>3, <1>4, <2>1, <2>3 DEF ClientTyped
  <2> QED BY <1>1, <2>1, <2>3, <2>4, QuietStep
<1> QED BY <1>5, <1>6

\* A watch is kept, and its delta taken in hand if there is a connection.
LEMMA TakeWatchStep ==
    ASSUME ClientInv, TakeWatch
    PROVE  ClientInv'
<1> DEFINE c == Head(cmds)
<1>1. /\ At("loop") /\ cmds # << >> /\ c.op = "watch" /\ cmds' = Tail(cmds)
      /\ watchSet' = Rewatched(c)
      /\ sup' = IF inner # 0 THEN [sup EXCEPT !.at = "lock", !.frame = Delta(c)] ELSE sup
      /\ UNCHANGED <<inner, nextGen, attempts, connState, socket, relaySide, result, raised,
                     calls, faults>>
  BY DEF TakeWatch, Take
<1>2. ClientTyped /\ AckedWasAccepted  BY DEF ClientInv, AckInv
<1>3. c.arg[1] \subseteq Contact /\ c.arg[2] \in BOOLEAN /\ Tail(cmds) \in Seq(Commands)
  BY <1>1, <1>2, NextCommand, CommandKinds
<1>4. Commands' = Commands /\ Answers' = Answers /\ Socket' = Socket  BY <1>1, SameSets
<1> HIDE DEF c
<1>5. watchSet' \in SUBSET Contact  BY <1>1, <1>2, <1>3 DEF Rewatched, ClientTyped
<1>6. AckedWasAccepted'  BY <1>1, <1>2 DEF AckedWasAccepted
<1>7. CASE inner # 0
  <2>1. Delta(c) \in Frames /\ Delta(c).op = "watch"
    <3>1. c.arg[1] \in SUBSET Contact /\ {} \in SUBSET Contact  BY <1>3
    <3>2. WatchFrame(c.arg[1], {}) \in Frames /\ WatchFrame({}, c.arg[1]) \in Frames
      BY <3>1 DEF Frames
    <3>3. Delta(c) \in Frames  BY <3>2 DEF Delta
    <3> QED BY <3>3 DEF Delta, WatchFrame
  <2>2. /\ sup' \in Supervisor /\ sup'.at = "lock" /\ sup'.frame = Delta(c)
    BY <1>1, <1>2, <1>7, <2>1, ClientTypes DEF Supervisor, Points
  <2>3. ClientTyped'
    BY <1>1, <1>2, <1>3, <1>4, <1>5, <2>2 DEF ClientTyped
  <2>4. PhaseInv'
    BY <1>1, <1>7, <2>1, <2>2 DEF PhaseInv, At, Sending, NoFrame
  <2>5. AckInv'  BY <1>6, <2>1, <2>2 DEF AckInv, Sending
  <2>6. WatchInv'
    <3>1. SUFFICES ASSUME socket.link \in {"up", "stalled"}, NEW x \in Contact
                   PROVE  x \in watchSet' <=> WillWatch(x)'
      BY <1>1 DEF WatchInv
    <3>2. sup.frame = NoFrame  BY <1>1 DEF ClientInv, PhaseInv, At
    <3>3. x \in watchSet <=> Will(socket.up, Named, x)
      BY <1>7, <3>1, <3>2, MentionsNone DEF ClientInv, WatchInv, WillWatch
    <3>4. Mentions(Delta(c), x) <=> x \in c.arg[1]
      BY <1>3 DEF Mentions, Delta, WatchFrame
    <3>5. x \in c.arg[1] => (Adds(Delta(c), x) <=> c.arg[2])
      BY <1>3 DEF Adds, Delta, WatchFrame
    <3>6. WillWatch(x)' <=> IF x \in c.arg[1] THEN c.arg[2] ELSE x \in watchSet
      BY <1>1, <2>2, <3>3, <3>4, <3>5 DEF WillWatch, Named
    <3> QED BY <1>1, <1>3, <3>6 DEF Rewatched
  <2> QED BY <2>3, <2>4, <2>5, <2>6 DEF ClientInv
<1>8. CASE inner = 0
  <2>1. sup' = sup  BY <1>1, <1>8
  <2>2. ClientTyped'
    BY <1>1, <1>2, <1>3, <1>4, <1>5, <2>1 DEF ClientTyped
  <2>3. PhaseInv' /\ AckInv'
    BY <1>1, <1>6, <2>1 DEF ClientInv, PhaseInv, AckInv, At, Sending
  <2>4. WatchInv'  BY <1>1, <1>8 DEF WatchInv
  <2> QED BY <2>2, <2>3, <2>4 DEF ClientInv
<1> QED BY <1>7, <1>8

\* Any other frame is taken in hand, or dropped; reconnect_now is a no-op here.
LEMMA TakeFrameStep ==
    ASSUME ClientInv, TakeFrame \/ TakeReconnectNow
    PROVE  ClientInv'
<1>1. /\ At("loop") /\ cmds # << >> /\ cmds' = Tail(cmds)
      /\ sup' = sup \/ (inner # 0 /\ sup' = [sup EXCEPT !.at = "lock", !.frame = OtherFrame])
      /\ UNCHANGED <<inner, nextGen, attempts, watchSet, connState, socket, relaySide, result,
                     raised, calls, faults>>
  BY DEF TakeFrame, TakeReconnectNow, Take
<1>2. ClientTyped /\ AckedWasAccepted  BY DEF ClientInv, AckInv
<1>3. Tail(cmds) \in Seq(Commands)  BY <1>1, <1>2, NextCommand
<1>4. Commands' = Commands /\ Answers' = Answers /\ Socket' = Socket  BY <1>1, SameSets
<1>5. AckedWasAccepted'  BY <1>1, <1>2 DEF AckedWasAccepted
<1>6. CASE sup' = sup
  <2>1. ClientTyped'  BY <1>1, <1>2, <1>3, <1>4, <1>6 DEF ClientTyped
  <2> QED BY <1>1, <1>5, <1>6, <2>1, QuietStep
<1>7. CASE inner # 0 /\ sup' = [sup EXCEPT !.at = "lock", !.frame = OtherFrame]
  <2>1. sup' \in Supervisor /\ sup'.at = "lock" /\ sup'.frame = OtherFrame
    <3>1. OtherFrame \in Frames  BY DEF Frames
    <3> QED BY <1>2, <1>7, <3>1, ClientTypes DEF Supervisor, Points
  <2>2. ClientTyped'  BY <1>1, <1>2, <1>3, <1>4, <2>1 DEF ClientTyped
  <2>3. PhaseInv'
    BY <1>1, <1>7, <2>1 DEF PhaseInv, At, Sending, NoFrame, OtherFrame
  <2>4. AckInv'  BY <1>5, <2>1 DEF AckInv, Sending, OtherFrame
  <2>5. sup.frame = NoFrame  BY <1>1 DEF ClientInv, PhaseInv, At
  <2>6. WatchInv'
    BY <1>1, <2>1, <2>5, MentionsNone, WatchSame DEF ClientInv, Named
  <2> QED BY <2>2, <2>3, <2>4, <2>6 DEF ClientInv
<1> QED BY <1>1, <1>6, <1>7
\* The task returns: no connection, no queue, and what was queued is answered Closed.
LEMMA StopStep ==
    ASSUME ClientInv, NEW rest, Stop(rest), attempts' \in Nat,
           connState' \in {"connecting", "connected", "disconnected", "permanent"},
           UNCHANGED <<nextGen, watchSet, relaySide, raised, calls, faults>>
    PROVE  ClientInv'
<1>1. /\ sup' = [sup EXCEPT !.at = "stopped", !.frame = NoFrame] /\ cmds' = << >>
      /\ inner' = 0 /\ socket' = NoSocket
      /\ result' = [s \in Send |-> IF s \in QueuedSends(rest) THEN "closed" ELSE result[s]]
  BY DEF Stop
<1>2. ClientTyped /\ AckedWasAccepted  BY DEF ClientInv, AckInv
<1>3. Commands' = Commands /\ Answers' = Answers /\ Socket' = Socket  BY SameSets
<1>4. sup' \in Supervisor /\ sup'.at = "stopped" /\ sup'.frame = NoFrame
  BY <1>1, <1>2, ClientTypes DEF Supervisor, Points
<1>5. result' \in [Send -> Results] /\ AckedWasAccepted'
  BY <1>1, <1>2 DEF ClientTyped, AckedWasAccepted, Results
<1>6. ClientTyped'
  BY <1>1, <1>2, <1>3, <1>4, <1>5, ClientTypes DEF ClientTyped
<1>7. PhaseInv'  BY <1>1, <1>4 DEF PhaseInv, At
<1>8. AckInv'  BY <1>4, <1>5 DEF AckInv, Sending, NoFrame
<1>9. WatchInv'  BY <1>1 DEF WatchInv
<1> QED BY <1>6, <1>7, <1>8, <1>9 DEF ClientInv

\* shutdown, taken from the loop or during the backoff.
LEMMA ShutdownStep ==
    ASSUME ClientInv, TakeShutdown \/ DrainShutdown
    PROVE  ClientInv'
<1>1. /\ Stop(Tail(cmds))
      /\ UNCHANGED <<nextGen, attempts, watchSet, connState, relaySide, raised, calls, faults>>
  BY DEF TakeShutdown, DrainShutdown
<1> QED BY <1>1, StopStep DEF ClientInv, ClientTyped

\* A Disconnected is taken: of the installed connection it tears it down, any other is
\* dropped.
LEMMA TakeDownStep ==
    ASSUME ClientInv, TakeDown
    PROVE  ClientInv' /\ (inner # 0 /\ inner' # inner => inner \in raised)
<1>1. /\ At("loop") /\ cmds # << >> /\ Head(cmds).op = "down" /\ cmds' = Tail(cmds)
      /\ UNCHANGED <<nextGen, watchSet, relaySide, result, raised, calls, faults>>
  BY DEF TakeDown, Take
<1>2. ClientTyped /\ AckedWasAccepted  BY DEF ClientInv, AckInv
<1>3. Head(cmds).arg \in raised /\ Tail(cmds) \in Seq(Commands)
  BY <1>1, <1>2, NextCommand, CommandKinds
<1>4. Commands' = Commands /\ Answers' = Answers /\ Socket' = Socket  BY <1>1, SameSets
<1>5. AckedWasAccepted'  BY <1>1, <1>2 DEF AckedWasAccepted
<1>6. CASE inner # 0 /\ Head(cmds).arg = inner
  <2>1. /\ inner' = 0 /\ socket' = NoSocket /\ sup' = [sup EXCEPT !.at = "backoff"]
        /\ attempts' = 0 /\ connState' = "disconnected"
    BY <1>6 DEF TakeDown, TearDown
  <2>2. sup.frame = NoFrame  BY <1>1 DEF ClientInv, PhaseInv, At
  <2>3. sup' \in Supervisor /\ sup'.at = "backoff" /\ sup'.frame = NoFrame
    BY <1>2, <2>1, <2>2, ClientTypes DEF Supervisor, Points
  <2>4. ClientTyped'
    BY <1>1, <1>2, <1>3, <1>4, <2>1, <2>3, ClientTypes DEF ClientTyped
  <2>5. PhaseInv'  BY <2>1, <2>3 DEF PhaseInv, At
  <2>6. AckInv'  BY <1>5, <2>3 DEF AckInv, Sending, NoFrame
  <2>7. WatchInv'  BY <2>1 DEF WatchInv
  <2> QED BY <1>3, <1>6, <2>4, <2>5, <2>6, <2>7 DEF ClientInv
<1>7. CASE ~(inner # 0 /\ Head(cmds).arg = inner)
  <2>1. UNCHANGED <<sup, inner, attempts, connState, socket>>  BY <1>7 DEF TakeDown
  <2>2. ClientTyped'  BY <1>1, <1>2, <1>3, <1>4, <2>1 DEF ClientTyped
  <2> QED BY <1>1, <1>5, <2>1, <2>2, QuietStep
<1> QED BY <1>6, <1>7

-----------------------------------------------------------------------------
(* A frame's way out. *)

\* The supervisor gets the mutex.
LEMMA TakeMutexStep ==
    ASSUME ClientInv, TakeMutex
    PROVE  ClientInv'
<1>1. /\ At("lock") /\ socket' = [socket EXCEPT !.mutex = "supervisor"]
      /\ sup' = [sup EXCEPT !.at = "write"]
      /\ UNCHANGED <<cmds, inner, nextGen, attempts, watchSet, connState, relaySide, result,
                     raised, calls, faults>>
  BY DEF TakeMutex
<1>2. ClientTyped /\ AckedWasAccepted  BY DEF ClientInv, AckInv
<1>3. Commands' = Commands /\ Answers' = Answers /\ Socket' = Socket  BY <1>1, SameSets
<1>4. sup' \in Supervisor /\ sup'.at = "write" /\ sup'.frame = sup.frame /\ sup'.cur = sup.cur
  BY <1>1, <1>2, ClientTypes DEF Supervisor, Points
<1>5. /\ socket' \in Socket /\ socket'.up = socket.up /\ socket'.link = socket.link
      /\ socket'.answer = socket.answer
  BY <1>1, <1>2, ClientTypes DEF Socket
<1>6. ClientTyped'  BY <1>1, <1>2, <1>3, <1>4, <1>5 DEF ClientTyped
<1>7. PhaseInv'  BY <1>1, <1>4 DEF ClientInv, PhaseInv, At, Sending
<1>8. AckInv'  BY <1>1, <1>4, <1>5 DEF ClientInv, AckInv, Sending, AckedWasAccepted
<1>9. WatchInv'  BY <1>1, <1>4, <1>5, WatchSame DEF ClientInv, Named
<1> QED BY <1>6, <1>7, <1>8, <1>9 DEF ClientInv

\* The supervisor after a frame is done with.
LEMMA IdleAgain ==
    ASSUME ClientTyped
    PROVE  Idle(sup) \in Supervisor /\ Idle(sup).at = "loop" /\ Idle(sup).frame = NoFrame
BY ClientTypes DEF Idle, Supervisor, Points

\* The write ends: the frame is on the wire, and a send goes on to wait.
LEMMA WriteEndsStep ==
    ASSUME ClientInv, WriteEnds
    PROVE  ClientInv'
<1>1. /\ At("write") /\ socket.link \in {"up", "stalled"}
      /\ socket' = [socket EXCEPT !.mutex = "free", !.up = Append(socket.up, sup.frame)]
      /\ sup' = IF Sending THEN [sup EXCEPT !.at = "ack"] ELSE Idle(sup)
      /\ UNCHANGED <<cmds, inner, nextGen, attempts, watchSet, connState, relaySide, result,
                     raised, calls, faults>>
  BY DEF WriteEnds
<1>2. ClientTyped /\ AckedWasAccepted  BY DEF ClientInv, AckInv
<1>3. Commands' = Commands /\ Answers' = Answers /\ Socket' = Socket  BY <1>1, SameSets
<1>4. inner # 0 /\ sup.frame \in Frames
  BY <1>1, <1>2, ClientTypes DEF ClientInv, PhaseInv, At
<1>5. Append(socket.up, sup.frame) \in Seq(Frames)
  BY <1>2, <1>4, ClientTypes, AppendProperties
<1>6. /\ socket' \in Socket /\ socket'.up = Append(socket.up, sup.frame)
      /\ socket'.answer = socket.answer
  BY <1>1, <1>2, <1>5, ClientTypes DEF Socket
<1>7. /\ sup' \in Supervisor
      /\ \/ /\ Sending /\ sup'.at = "ack" /\ sup'.frame = sup.frame /\ sup'.cur = sup.cur
         \/ ~Sending /\ sup'.at = "loop" /\ sup'.frame = NoFrame
  BY <1>1, <1>2, ClientTypes, IdleAgain DEF Supervisor, Points
<1>8. ClientTyped'  BY <1>1, <1>2, <1>3, <1>6, <1>7 DEF ClientTyped
<1>9. PhaseInv'  BY <1>1, <1>4, <1>7 DEF ClientInv, PhaseInv, At, Sending
<1>10. AckInv'
  BY <1>1, <1>6, <1>7 DEF ClientInv, AckInv, Sending, AckedWasAccepted, NoFrame
<1>11. WatchInv'
  <2>1. SUFFICES ASSUME NEW x \in Contact  PROVE x \in watchSet <=> WillWatch(x)'
    BY <1>1 DEF WatchInv
  <2>2. x \in watchSet <=> WillWatch(x)  BY <1>1, <1>4 DEF ClientInv, WatchInv
  <2>3. ~Mentions(sup'.frame, x)  BY <1>7, MentionsNone DEF Sending
  <2>4. Will(socket'.up, Named, x)
           <=> IF Mentions(sup.frame, x) THEN Adds(sup.frame, x)
               ELSE Will(socket.up, Named, x)
    BY <1>2, <1>4, <1>6, ClientTypes, WillAppend
  <2> QED BY <1>1, <2>2, <2>3, <2>4 DEF WillWatch, Named
<1> QED BY <1>8, <1>9, <1>10, <1>11 DEF ClientInv
\* A send is answered, with Ack only if the relay accepted its key; the wire is as before but
\* for frames that mention nobody.
LEMMA AnsweredStep ==
    ASSUME ClientInv, Sending, sup.at \in {"write", "ack"}, NEW r \in Results, Answered(r),
           r = "acked" => sup.frame.arg \in relaySide.accepted,
           socket' \in Socket, socket'.link = socket.link,
           \A x \in Contact : Will(socket'.up, Named, x)
                                 <=> Will(socket.up, Named, x),
           UNCHANGED <<cmds, inner, nextGen, attempts, watchSet, connState, relaySide, raised,
                       calls, faults>>
    PROVE  ClientInv'
<1>1. result' = [result EXCEPT ![sup.cur] = r] /\ sup' = Idle(sup)  BY DEF Answered
<1>2. ClientTyped /\ AckedWasAccepted  BY DEF ClientInv, AckInv
<1>3. Commands' = Commands /\ Answers' = Answers /\ Socket' = Socket  BY SameSets
<1>4. sup' \in Supervisor /\ sup'.at = "loop" /\ sup'.frame = NoFrame  BY <1>1, <1>2, IdleAgain
<1>5. sup.cur \in Send /\ inner # 0  BY <1>2, ClientTypes DEF ClientInv, PhaseInv
<1>6. result' \in [Send -> Results]  BY <1>1, <1>2, <1>5 DEF ClientTyped
<1>7. AckedWasAccepted'
  <2>1. SUFFICES ASSUME NEW s \in Send, result'[s] = "acked"
                 PROVE  KeyOf[s] \in relaySide.accepted
    BY DEF AckedWasAccepted
  <2>2. CASE s = sup.cur
    <3>1. result'[s] = r  BY <1>1, <1>2, <1>5, <2>2 DEF ClientTyped
    <3> QED BY <2>1, <2>2, <3>1 DEF ClientInv, AckInv
  <2>3. CASE s # sup.cur
    <3>1. result'[s] = result[s]  BY <1>1, <1>2, <1>5, <2>3 DEF ClientTyped
    <3> QED BY <1>2, <2>1, <3>1 DEF AckedWasAccepted
  <2> QED BY <2>2, <2>3
<1>8. ClientTyped'  BY <1>2, <1>3, <1>4, <1>6 DEF ClientTyped
<1>9. PhaseInv'  BY <1>4, <1>5 DEF PhaseInv, At
<1>10. AckInv'  BY <1>4, <1>7 DEF AckInv, Sending, NoFrame
<1>11. WatchInv'
  <2>1. SUFFICES ASSUME socket.link \in {"up", "stalled"}, NEW x \in Contact
                 PROVE  x \in watchSet <=> WillWatch(x)'
    BY DEF WatchInv
  <2>2. ~Mentions(sup.frame, x) /\ ~Mentions(sup'.frame, x)
    BY <1>4, MentionsNone DEF Sending
  <2>3. x \in watchSet <=> Will(socket.up, Named, x)
    BY <1>5, <2>1, <2>2 DEF ClientInv, WatchInv, WillWatch
  <2> QED BY <2>2, <2>3 DEF WillWatch, Named
<1> QED BY <1>8, <1>9, <1>10, <1>11 DEF ClientInv

\* The write fails, on a dead link.
LEMMA WriteErrsStep ==
    ASSUME ClientInv, WriteErrs
    PROVE  ClientInv'
<1>1. /\ At("write") /\ socket.link = "dead" /\ socket' = [socket EXCEPT !.mutex = "free"]
      /\ UNCHANGED <<cmds, inner, nextGen, attempts, watchSet, connState, relaySide, raised,
                     calls, faults>>
  BY DEF WriteErrs
<1>2. ClientTyped /\ AckedWasAccepted  BY DEF ClientInv, AckInv
<1>3. /\ socket' \in Socket /\ socket'.up = socket.up /\ socket'.link = socket.link
  BY <1>1, <1>2, ClientTypes DEF Socket
<1>4. CASE Sending
  <2>1. Answered("error") /\ "error" \in Results  BY <1>4 DEF WriteErrs, Results
  <2> QED BY <1>1, <1>3, <1>4, <2>1, AnsweredStep DEF At
<1>5. CASE ~Sending
  <2>1. sup' = Idle(sup) /\ result' = result  BY <1>5 DEF WriteErrs
  <2>2. sup' \in Supervisor /\ sup'.at = "loop" /\ sup'.frame = NoFrame  BY <1>2, <2>1, IdleAgain
  <2>3. Commands' = Commands /\ Answers' = Answers /\ Socket' = Socket  BY <1>1, SameSets
  <2>4. ClientTyped'  BY <1>1, <1>2, <1>3, <2>1, <2>2, <2>3 DEF ClientTyped
  <2>5. PhaseInv'  BY <1>1, <2>2 DEF ClientInv, PhaseInv, At
  <2>6. AckInv'  BY <1>1, <1>2, <2>1, <2>2 DEF AckInv, Sending, NoFrame, AckedWasAccepted
  <2>7. WatchInv'  BY <1>1, <1>3 DEF WatchInv
  <2> QED BY <2>4, <2>5, <2>6, <2>7 DEF ClientInv
<1> QED BY <1>4, <1>5

\* The write or the wait for the Ack is given up on; the frame may be on the wire.
LEMMA TimesOutStep ==
    ASSUME ClientInv, WriteTimesOut \/ AckTimesOut
    PROVE  ClientInv'
<1>1. ClientTyped  BY DEF ClientInv
<1>2. "timeout" \in Results /\ "timeout" # "acked"  BY DEF Results
<1>3. CASE WriteTimesOut
  <2>1. /\ At("write") /\ Sending /\ Answered("timeout")
        /\ UNCHANGED <<cmds, inner, nextGen, attempts, watchSet, connState, relaySide, raised,
                       calls, faults>>
    BY <1>3 DEF WriteTimesOut
  <2>2. PICK buffered \in BOOLEAN :
          socket' = [socket EXCEPT !.mutex = "free",
                                   !.up = IF buffered THEN Append(socket.up, sup.frame) ELSE socket.up]
    BY <1>3 DEF WriteTimesOut
  <2>3. sup.frame \in Frames  BY <1>1, <2>1, ClientTypes DEF ClientInv, PhaseInv, At
  <2> DEFINE u == IF buffered THEN Append(socket.up, sup.frame) ELSE socket.up
  <2>4. Append(socket.up, sup.frame) \in Seq(Frames)
    BY <1>1, <2>3, ClientTypes, AppendProperties
  <2>5. u \in Seq(Frames)  BY <1>1, <2>4, ClientTypes
  <2>6. ASSUME NEW x \in Contact
        PROVE  Will(u, Named, x) <=> Will(socket.up, Named, x)
    <3>1. ~Mentions(sup.frame, x)  BY <2>1, MentionsNone DEF Sending
    <3>2. Will(Append(socket.up, sup.frame), Named, x)
             <=> Will(socket.up, Named, x)
      BY <1>1, <2>3, <3>1, ClientTypes, WillAppend
    <3> QED BY <3>2
  <2> HIDE DEF u
  <2>7. socket' = [socket EXCEPT !.mutex = "free", !.up = u]  BY <2>2 DEF u
  <2>8. socket' \in Socket /\ socket'.up = u /\ socket'.link = socket.link
    BY <1>1, <2>5, <2>7, ClientTypes DEF Socket
  <2> QED BY <1>2, <2>1, <2>6, <2>8, AnsweredStep DEF At
<1>4. CASE AckTimesOut
  <2>1. /\ At("ack") /\ Answered("timeout")
        /\ UNCHANGED <<cmds, inner, nextGen, attempts, watchSet, connState, socket, relaySide,
                       raised, calls, faults>>
    BY <1>4 DEF AckTimesOut
  <2>2. Sending  BY <2>1 DEF ClientInv, PhaseInv
  <2> QED BY <1>1, <1>2, <2>1, <2>2, AnsweredStep, ClientTypes DEF At
<1> QED BY <1>3, <1>4

\* The reader resolved the send.
LEMMA AckArrivesStep ==
    ASSUME ClientInv, AckArrives
    PROVE  ClientInv'
<1>1. /\ At("ack") /\ socket.answer # "none" /\ Answered(socket.answer)
      /\ UNCHANGED <<cmds, inner, nextGen, attempts, watchSet, connState, socket, relaySide,
                     raised, calls, faults>>
  BY DEF AckArrives
<1>2. Sending /\ ClientTyped  BY <1>1 DEF ClientInv, PhaseInv
<1>3. socket.answer \in Results  BY <1>2, ClientTypes DEF Socket, Results
<1>4. socket.answer = "acked" => sup.frame.arg \in relaySide.accepted
  BY <1>2 DEF ClientInv, AckInv
<1> QED BY <1>1, <1>2, <1>3, <1>4, AnsweredStep, ClientTypes DEF At

-----------------------------------------------------------------------------
(* Reconnecting. *)

\* Without a connection, a step that keeps the types keeps the invariant, as long as it
\* claims no Ack and takes no frame in hand.
LEMMA UnconnectedStep ==
    ASSUME ClientInv, ClientTyped', AckedWasAccepted', inner = 0, inner' = 0, socket' = socket,
           sup'.at \in {"loop", "backoff", "opening"}, sup'.frame = NoFrame
    PROVE  ClientInv'
<1>1. PhaseInv'  BY DEF ClientInv, PhaseInv, At
<1>2. AckInv'  BY DEF AckInv, Sending, NoFrame
<1>3. WatchInv'  BY DEF WatchInv
<1> QED BY <1>1, <1>2, <1>3 DEF ClientInv

\* The steps of reconnect() between two attempts.
LEMMA BackoffStep ==
    ASSUME ClientInv, BackoffEnds \/ OpenFails
    PROVE  ClientInv'
<1>1. /\ sup.at \in {"backoff", "opening"}
      /\ sup' = [sup EXCEPT !.at = "opening"] \/ sup' = [sup EXCEPT !.at = "backoff"]
      /\ connState' \in {"connecting", "disconnected"}
      /\ UNCHANGED <<cmds, inner, nextGen, watchSet, socket, relaySide, result, raised, calls,
                     faults>>
  BY DEF BackoffEnds, OpenFails, At
<1>2. ClientTyped /\ AckedWasAccepted  BY DEF ClientInv, AckInv
<1>3. attempts' \in Nat  BY <1>2 DEF BackoffEnds, OpenFails, ClientTyped
<1>4. inner = 0 /\ sup.frame = NoFrame  BY <1>1 DEF ClientInv, PhaseInv
<1>5. sup' \in Supervisor /\ sup'.at \in {"backoff", "opening"} /\ sup'.frame = NoFrame
  BY <1>1, <1>2, <1>4, ClientTypes DEF Supervisor, Points
<1>6. Commands' = Commands /\ Answers' = Answers /\ Socket' = Socket  BY <1>1, SameSets
<1>7. ClientTyped'  BY <1>1, <1>2, <1>3, <1>5, <1>6 DEF ClientTyped
<1>8. AckedWasAccepted'  BY <1>1, <1>2 DEF AckedWasAccepted
<1> QED BY <1>1, <1>4, <1>5, <1>7, <1>8, UnconnectedStep

\* The queue is drained during the wait.
LEMMA DrainStep ==
    ASSUME ClientInv, Drain
    PROVE  ClientInv'
<1> DEFINE c == Head(cmds)
<1>1. /\ At("backoff") /\ cmds # << >> /\ cmds' = Tail(cmds)
      /\ result' = IF c.op = "send" THEN [result EXCEPT ![c.arg] = "disconnected"] ELSE result
      /\ watchSet' = IF c.op = "watch" THEN Rewatched(c) ELSE watchSet
      /\ \/ sup' = [sup EXCEPT !.at = "opening"] /\ connState' = "connecting"
         \/ UNCHANGED <<sup, connState>>
      /\ UNCHANGED <<inner, nextGen, attempts, socket, relaySide, raised, calls, faults>>
  BY DEF Drain
<1>2. ClientTyped /\ AckedWasAccepted  BY DEF ClientInv, AckInv
<1>3. /\ Tail(cmds) \in Seq(Commands)
      /\ c.op = "send" => c.arg \in Send
      /\ c.op = "watch" => c.arg[1] \subseteq Contact
  BY <1>1, <1>2, NextCommand, CommandKinds
<1>4. Commands' = Commands /\ Answers' = Answers /\ Socket' = Socket  BY <1>1, SameSets
<1> HIDE DEF c
<1>5. watchSet' \in SUBSET Contact  BY <1>1, <1>2, <1>3 DEF Rewatched, ClientTyped
<1>6. result' \in [Send -> Results] /\ AckedWasAccepted'
  <2>1. "disconnected" \in Results \ {"acked"}  BY DEF Results
  <2>2. CASE c.op = "send"
    BY <1>1, <1>2, <1>3, <2>1, <2>2, ResultKeeps
  <2>3. CASE c.op # "send"
    BY <1>1, <1>2, <2>3 DEF ClientTyped, AckedWasAccepted
  <2> QED BY <2>2, <2>3
<1>7. inner = 0 /\ sup.frame = NoFrame  BY <1>1 DEF ClientInv, PhaseInv, At
<1>8. sup' \in Supervisor /\ sup'.at \in {"backoff", "opening"} /\ sup'.frame = NoFrame
  BY <1>1, <1>2, <1>7, ClientTypes DEF Supervisor, Points, At
<1>9. ClientTyped'
  BY <1>1, <1>2, <1>3, <1>4, <1>5, <1>6, <1>8 DEF ClientTyped
<1> QED BY <1>1, <1>6, <1>7, <1>8, <1>9, UnconnectedStep

\* install(): the new connection's first frame is the whole watch set.
LEMMA InstallStep ==
    ASSUME ClientInv, OpenSucceeds
    PROVE  ClientInv' /\ inner = 0
<1>1. /\ At("opening") /\ nextGen \in Gen /\ inner' = nextGen /\ nextGen' = nextGen + 1
      /\ socket' = Fresh /\ relaySide' = [relaySide EXCEPT !.watching = {}, !.ignored = {}]
      /\ connState' = "connected"
      /\ sup' = IF watchSet = {}
                THEN [sup EXCEPT !.at = "loop", !.boot = FALSE]
                ELSE [sup EXCEPT !.at = "lock", !.boot = FALSE, !.frame = WatchFrame(watchSet, {})]
      /\ UNCHANGED <<cmds, attempts, watchSet, result, raised, calls, faults>>
  BY DEF OpenSucceeds, Install
<1>2. ClientTyped /\ AckedWasAccepted  BY DEF ClientInv, AckInv
<1>3. inner = 0 /\ sup.frame = NoFrame  BY <1>1 DEF ClientInv, PhaseInv, At
<1>4. /\ relaySide' \in RelaySide
      /\ Named' = {} /\ relaySide'.accepted = relaySide.accepted
  BY <1>1, <1>2 DEF ClientTyped, RelaySide, Named
<1>5. Commands' = Commands /\ Answers' = Answers /\ Socket' = Socket
  BY <1>1, <1>4 DEF Commands, Answers, Socket
<1>6. WatchFrame(watchSet, {}) \in Frames
  <2>1. watchSet \in SUBSET Contact /\ {} \in SUBSET Contact  BY <1>2 DEF ClientTyped
  <2> QED BY <2>1 DEF Frames
<1>7. /\ sup' \in Supervisor
      /\ \/ watchSet = {} /\ sup'.at = "loop" /\ sup'.frame = NoFrame
         \/ sup'.at = "lock" /\ sup'.frame = WatchFrame(watchSet, {})
  BY <1>1, <1>2, <1>3, <1>6, ClientTypes DEF Supervisor, Points
<1>8. inner' \in 0..MaxGen /\ nextGen' \in 1..MaxGen + 1 /\ inner' # 0
  BY <1>1, ClientAssumption DEF Gen
<1>9. ClientTyped'
  BY <1>1, <1>2, <1>4, <1>5, <1>7, <1>8, ClientTypes DEF ClientTyped
<1>10. PhaseInv'
  BY <1>7, <1>8 DEF PhaseInv, At, Sending, WatchFrame, NoFrame
<1>11. AckInv'
  BY <1>1, <1>2, <1>4, <1>7 DEF AckInv, Sending, WatchFrame, NoFrame, AckedWasAccepted
<1>12. WatchInv'
  <2>1. SUFFICES ASSUME NEW x \in Contact  PROVE x \in watchSet <=> WillWatch(x)'
    BY <1>1 DEF WatchInv
  <2>2. socket'.up = << >> /\ Len(<< >>) = 0  BY <1>1 DEF Fresh
  <2>3. ~Will(socket'.up, Named', x)  BY <1>4, <2>2 DEF Will
  <2>4. CASE watchSet = {} /\ sup'.frame = NoFrame
    BY <2>3, <2>4, MentionsNone DEF WillWatch
  <2>5. CASE sup'.frame = WatchFrame(watchSet, {})
    BY <2>3, <2>5 DEF WillWatch, Mentions, Adds, WatchFrame
  <2> QED BY <1>7, <2>4, <2>5
<1> QED BY <1>3, <1>9, <1>10, <1>11, <1>12 DEF ClientInv

\* The last attempt failed.
LEMMA GiveUpStep ==
    ASSUME ClientInv, GiveUp
    PROVE  ClientInv' /\ inner = 0
<1>1. /\ At("opening") /\ attempts' = attempts + 1 /\ connState' = "permanent"
      /\ UNCHANGED <<nextGen, watchSet, relaySide, raised, calls, faults>>
  BY DEF GiveUp
<1>2. ClientTyped /\ AckedWasAccepted /\ attempts' \in Nat
  BY <1>1 DEF ClientInv, AckInv, ClientTyped
<1>3. inner = 0  BY <1>1 DEF ClientInv, PhaseInv, At
<1>4. CASE sup.boot
  <2>1. sup' = Idle(sup) /\ UNCHANGED <<cmds, inner, socket, result>>  BY <1>4 DEF GiveUp
  <2>2. sup' \in Supervisor /\ sup'.at = "loop" /\ sup'.frame = NoFrame  BY <1>2, <2>1, IdleAgain
  <2>3. Commands' = Commands /\ Answers' = Answers /\ Socket' = Socket  BY <1>1, SameSets
  <2>4. ClientTyped'  BY <1>1, <1>2, <2>1, <2>2, <2>3 DEF ClientTyped
  <2>5. AckedWasAccepted'  BY <1>1, <1>2, <2>1 DEF AckedWasAccepted
  <2> QED BY <1>3, <2>1, <2>2, <2>4, <2>5, UnconnectedStep
<1>5. CASE ~sup.boot
  <2>1. Stop(cmds)  BY <1>5 DEF GiveUp
  <2> QED BY <1>1, <1>2, <1>3, <2>1, StopStep
<1> QED BY <1>4, <1>5
-----------------------------------------------------------------------------
(* The reader, the keepalive, the network and the relay. *)

\* A report of the installed connection's own tasks.
LEMMA RaiseStep ==
    ASSUME ClientInv, inner # 0, Raise
    PROVE  cmds' \in Seq(Commands)' /\ raised' \in SUBSET Gen
<1>1. raised' = raised \cup {inner} /\ cmds' = Append(cmds, DownCmd(inner))  BY DEF Raise
<1>2. ClientTyped /\ inner \in Gen  BY ClientAssumption DEF ClientInv, ClientTyped, Gen
<1>3. DownCmd(inner) \in Commands'  BY <1>1 DEF Commands
<1> QED BY <1>1, <1>2, <1>3, QueueGrows DEF ClientTyped

\* A step of the installed connection: its wire to the relay and the frame in hand stay, and
\* no Ack turns up that the relay did not send.
LEMMA ConnectionStep ==
    ASSUME ClientInv, inner # 0, socket' \in Socket, socket'.up = socket.up,
           socket'.link = socket.link,
           (Sending /\ socket'.answer = "acked") => sup.frame.arg \in relaySide.accepted,
           cmds' \in Seq(Commands)', raised' \in SUBSET Gen, faults' \in 0..MaxFaults,
           UNCHANGED <<sup, inner, nextGen, attempts, watchSet, connState, relaySide, result, calls>>
    PROVE  ClientInv'
<1>1. Socket' = Socket  BY DEF Socket, Answers
<1>2. ClientTyped'  BY <1>1 DEF ClientInv, ClientTyped
<1>3. PhaseInv'  BY DEF ClientInv, PhaseInv, At, Sending
<1>4. AckInv'  BY DEF ClientInv, AckInv, Sending, AckedWasAccepted
<1>5. WatchInv'  BY WatchSame DEF ClientInv, Named
<1> QED BY <1>2, <1>3, <1>4, <1>5 DEF ClientInv

\* There is no such task without a connection.
LEMMA TaskHasConnection ==
    ASSUME ClientInv, socket.reader = "on" \/ socket.keepalive \in {"idle", "writing"}
    PROVE  inner # 0
BY DEF ClientInv, PhaseInv, NoSocket, Fresh

\* The steps of the reader and keepalive tasks.
LEMMA TasksStep ==
    ASSUME ClientInv,
           \/ ReaderReads \/ ReaderEnds \/ PingTakesMutex \/ PingWritten \/ PingErrs \/ PongLate
    PROVE  ClientInv'
<1>1. ClientTyped  BY DEF ClientInv
<1>2. inner # 0
  BY TaskHasConnection DEF ReaderReads, ReaderEnds, PingTakesMutex, PingWritten, PingErrs, PongLate
<1>3. UNCHANGED <<sup, inner, nextGen, attempts, watchSet, connState, relaySide, result, calls>>
  BY DEF ReaderReads, ReaderEnds, PingTakesMutex, PingWritten, PingErrs, PongLate
<1>4. faults' \in 0..MaxFaults
  <2>1. faults \in 0..MaxFaults /\ (Fault => faults' \in 0..MaxFaults)
    BY <1>1, ClientAssumption DEF ClientTyped, Fault
  <2> QED BY <2>1 DEF ReaderReads, ReaderEnds, PingTakesMutex, PingWritten, PingErrs, PongLate
<1>5. cmds' \in Seq(Commands)' /\ raised' \in SUBSET Gen
  <2>1. CASE Raise  BY <1>2, <2>1, RaiseStep
  <2>2. CASE UNCHANGED <<cmds, raised>>
    <3>1. Commands' = Commands  BY <2>2 DEF Commands
    <3> QED BY <1>1, <2>2, <3>1 DEF ClientTyped
  <2> QED BY <2>1, <2>2 DEF ReaderReads, ReaderEnds, PingTakesMutex, PingWritten, PingErrs, PongLate
<1>6. (Sending /\ socket.answer = "acked") => sup.frame.arg \in relaySide.accepted
  BY DEF ClientInv, AckInv
<1>7. CASE ReaderReads
  <2> DEFINE m == Head(socket.down)
  <2>1. socket.down # << >>  BY <1>7 DEF ReaderReads
  <2>2. m \in Answers /\ Tail(socket.down) \in Seq(Answers)
    BY <1>1, <2>1, ClientTypes, HeadTailProperties
  <2>3. CASE m.op = "bye"
    <3>1. socket' = [socket EXCEPT !.down = Tail(socket.down), !.reader = "ended"]
      BY <1>7, <2>3 DEF ReaderReads
    <3>2. /\ socket' \in Socket /\ socket'.up = socket.up /\ socket'.link = socket.link
          /\ socket'.answer = socket.answer
      BY <1>1, <2>2, <3>1, ClientTypes DEF Socket
    <3> QED BY <1>2, <1>3, <1>4, <1>5, <1>6, <3>2, ConnectionStep
  <2>4. CASE m.op # "bye"
    <3>1. socket' = [Resolved(m.arg, m.op) EXCEPT !.down = Tail(Resolved(m.arg, m.op).down)]
      BY <1>7, <2>4 DEF ReaderReads
    <3>2. m.op \in {"acked", "moved"} /\ (m.op = "acked" => m.arg \in relaySide.accepted)
      BY <2>2, <2>4 DEF Answers, Reply
    <3> HIDE DEF m
    <3>3. PICK s : s = Resolved(m.arg, m.op)  OBVIOUS
    <3>4. /\ s \in Socket /\ s.up = socket.up /\ s.link = socket.link /\ s.down = socket.down
          /\ \/ s.answer = socket.answer
             \/ Sending /\ sup.frame.arg = m.arg /\ s.answer = m.op
      BY <1>1, <3>2, <3>3, ClientTypes DEF Resolved, Socket
    <3>5. socket' = [s EXCEPT !.down = Tail(socket.down)]  BY <3>1, <3>3, <3>4
    <3>6. /\ socket' \in Socket /\ socket'.up = socket.up /\ socket'.link = socket.link
          /\ socket'.answer = s.answer
      BY <2>2, <3>4, <3>5 DEF Socket
    <3>7. (Sending /\ socket'.answer = "acked") => sup.frame.arg \in relaySide.accepted
      BY <1>6, <3>2, <3>4, <3>6
    <3> QED BY <1>2, <1>3, <1>4, <1>5, <3>6, <3>7, ConnectionStep
  <2> QED BY <2>3, <2>4
<1>8. CASE ~ReaderReads
  <2>1. \/ socket' = [socket EXCEPT !.reader = "ended"]
        \/ socket' = [socket EXCEPT !.keepalive = "writing", !.mutex = "keepalive"]
        \/ socket' = [socket EXCEPT !.keepalive = "idle", !.mutex = "free"]
        \/ socket' = [socket EXCEPT !.keepalive = "ended", !.mutex = "free"]
    BY <1>8 DEF ReaderEnds, PingTakesMutex, PingWritten, PingErrs, PongLate
  <2>2. /\ socket' \in Socket /\ socket'.up = socket.up /\ socket'.link = socket.link
        /\ socket'.answer = socket.answer
    BY <1>1, <2>1, ClientTypes DEF Socket
  <2> QED BY <1>2, <1>3, <1>4, <1>5, <1>6, <2>2, ConnectionStep
<1> QED BY <1>7, <1>8

\* The link stalls, recovers or breaks; a broken one is not mended.
LEMMA LinkStep ==
    ASSUME ClientInv, LinkChanges
    PROVE  ClientInv'
<1>1. /\ inner # 0
      /\ UNCHANGED <<cmds, sup, inner, nextGen, attempts, watchSet, connState, relaySide, result,
                     raised, calls>>
  BY DEF LinkChanges, Connected
<1>2. ClientTyped /\ AckedWasAccepted  BY DEF ClientInv, AckInv
<1>3. faults' \in 0..MaxFaults
  BY <1>2, ClientAssumption DEF LinkChanges, ClientTyped, Fault
<1>4. /\ socket' \in Socket /\ socket'.answer = socket.answer
      /\ \/ socket'.link = "dead"
         \/ socket'.up = socket.up /\ socket.link \in {"up", "stalled"}
  <2>1. << >> \in Seq(Frames) /\ << >> \in Seq(Answers)  OBVIOUS
  <2>2. CASE socket' = [socket EXCEPT !.link = "stalled"] /\ socket.link = "up"
    BY <1>2, <2>2, ClientTypes DEF Socket
  <2>3. CASE socket' = [socket EXCEPT !.link = "up"] /\ socket.link = "stalled"
    BY <1>2, <2>3, ClientTypes DEF Socket
  <2>4. CASE socket' = [socket EXCEPT !.link = "dead", !.up = << >>, !.down = << >>]
    BY <1>2, <2>1, <2>4, ClientTypes DEF Socket
  <2> QED BY <2>2, <2>3, <2>4 DEF LinkChanges
<1>5. Commands' = Commands /\ Answers' = Answers /\ Socket' = Socket  BY <1>1, SameSets
<1>6. ClientTyped'  BY <1>1, <1>2, <1>3, <1>4, <1>5 DEF ClientTyped
<1>7. PhaseInv'  BY <1>1 DEF ClientInv, PhaseInv, At, Sending
<1>8. AckInv'  BY <1>1, <1>4 DEF ClientInv, AckInv, Sending, AckedWasAccepted
<1>9. WatchInv'
  <2>1. CASE socket'.link = "dead"  BY <2>1 DEF WatchInv
  <2>2. CASE socket'.up = socket.up /\ socket.link \in {"up", "stalled"}
    BY <1>1, <2>2, WatchSame DEF ClientInv, Named
  <2> QED BY <1>4, <2>1, <2>2
<1> QED BY <1>6, <1>7, <1>8, <1>9 DEF ClientInv

\* The relay ends the session with a Bye.
LEMMA ByeStep ==
    ASSUME ClientInv, RelayByes
    PROVE  ClientInv'
<1>1. /\ inner # 0 /\ socket' = [socket EXCEPT !.down = Append(socket.down, Reply("bye", 0))]
      /\ UNCHANGED <<cmds, sup, inner, nextGen, attempts, watchSet, connState, relaySide, result,
                     raised, calls>>
  BY DEF RelayByes, Connected
<1>2. ClientTyped  BY DEF ClientInv
<1>3. faults' \in 0..MaxFaults
  BY <1>2, ClientAssumption DEF RelayByes, ClientTyped, Fault
<1>4. Append(socket.down, Reply("bye", 0)) \in Seq(Answers)
  <2>1. Reply("bye", 0) \in Answers  BY DEF Answers
  <2> QED BY <1>2, <2>1, ClientTypes, AppendProperties
<1>5. /\ socket' \in Socket /\ socket'.up = socket.up /\ socket'.link = socket.link
      /\ socket'.answer = socket.answer
  BY <1>1, <1>2, <1>4, ClientTypes DEF Socket
<1>6. cmds' \in Seq(Commands)' /\ raised' \in SUBSET Gen
  <2>1. Commands' = Commands  BY <1>1 DEF Commands
  <2> QED BY <1>1, <1>2, <2>1 DEF ClientTyped
<1> QED BY <1>1, <1>3, <1>5, <1>6, ConnectionStep DEF ClientInv, AckInv
\* The relay takes the next frame.
LEMMA RelayTakesStep ==
    ASSUME ClientInv, RelayTakes
    PROVE  ClientInv'
<1> DEFINE f == Head(socket.up)
           rest == [socket EXCEPT !.up = Tail(socket.up)]
<1>1. /\ inner # 0 /\ socket.link = "up" /\ socket.up # << >>
      /\ UNCHANGED <<cmds, sup, inner, nextGen, attempts, watchSet, connState, result, raised,
                     calls, faults>>
  BY DEF RelayTakes, Connected
<1>2. ClientTyped /\ AckedWasAccepted  BY DEF ClientInv, AckInv
<1>3. f \in Frames /\ Tail(socket.up) \in Seq(Frames)
  BY <1>1, <1>2, ClientTypes, HeadTailProperties
<1>4. /\ f.op = "send" => f.arg \in Key
      /\ f.op = "watch" => f.arg[1] \subseteq Contact /\ f.arg[2] \subseteq Contact
  BY <1>3 DEF Frames, SendFrame, WatchFrame, OtherFrame
<1>5. PICK g : g = f  OBVIOUS
<1>6. PICK d :
        /\ socket' = [rest EXCEPT !.down = d]
        /\ \/ /\ g.op = "send" /\ d = Append(socket.down, Reply("acked", g.arg))
              /\ relaySide' = [relaySide EXCEPT !.accepted = relaySide.accepted \cup {g.arg}]
           \/ /\ g.op = "send" /\ d = Append(socket.down, Reply("moved", g.arg))
              /\ relaySide' = relaySide
           \/ /\ g.op = "watch" /\ d = socket.down
              /\ \E kept \in Indexed(relaySide.watching, g.arg[1]) :
                    relaySide' = [relaySide EXCEPT
                        !.watching = kept \ g.arg[2],
                        !.ignored = ((relaySide.ignored \cup g.arg[1]) \ kept) \ g.arg[2]]
           \/ g.op # "watch" /\ d = socket.down /\ relaySide' = relaySide
  <2>1. rest = [rest EXCEPT !.down = socket.down] /\ rest.down = socket.down
    BY <1>2, <1>3, ClientTypes DEF Socket
  <2>2. CASE g.op = "send"
    <3>1. \/ /\ socket' = [rest EXCEPT !.down = Append(rest.down, Reply("acked", g.arg))]
             /\ relaySide' = [relaySide EXCEPT !.accepted = relaySide.accepted \cup {g.arg}]
          \/ /\ socket' = [rest EXCEPT !.down = Append(rest.down, Reply("moved", g.arg))]
             /\ relaySide' = relaySide
          \/ socket' = rest /\ relaySide' = relaySide
      BY <1>5, <2>2 DEF RelayTakes
    <3> HIDE DEF rest
    <3> QED BY <2>1, <2>2, <3>1
  <2>3. CASE g.op = "watch"
    <3>1. /\ socket' = rest
          /\ \E kept \in Indexed(relaySide.watching, g.arg[1]) :
                relaySide' = [relaySide EXCEPT
                    !.watching = kept \ g.arg[2],
                    !.ignored = ((relaySide.ignored \cup g.arg[1]) \ kept) \ g.arg[2]]
      BY <1>5, <2>3 DEF RelayTakes
    <3> HIDE DEF rest
    <3> QED BY <2>1, <2>3, <3>1
  <2>4. CASE g.op # "send" /\ g.op # "watch"
    <3>1. socket' = rest /\ relaySide' = relaySide
      BY <1>5, <2>4 DEF RelayTakes
    <3> HIDE DEF rest
    <3> QED BY <2>1, <2>4, <3>1
  <2> QED BY <2>2, <2>3, <2>4
<1>7. /\ relaySide' \in RelaySide
      /\ relaySide.accepted \subseteq relaySide'.accepted
      /\ Named' = IF g.op = "watch" THEN (Named \cup g.arg[1]) \ g.arg[2] ELSE Named
  <2>1. /\ relaySide \in RelaySide
        /\ relaySide.accepted \subseteq Key /\ relaySide.watching \subseteq Contact
        /\ relaySide.ignored \subseteq Contact
    BY <1>2 DEF ClientTyped, RelaySide
  <2>2. CASE relaySide' = relaySide /\ g.op # "watch"  BY <2>1, <2>2 DEF Named
  <2>3. CASE /\ g.op = "send"
             /\ relaySide' = [relaySide EXCEPT !.accepted = relaySide.accepted \cup {g.arg}]
    <3>1. relaySide.accepted \cup {g.arg} \in SUBSET Key  BY <1>4, <1>5, <2>1, <2>3
    <3> QED BY <2>1, <2>3, <3>1 DEF RelaySide, Named
  <2>4. ASSUME g.op = "watch",
               NEW kept \in Indexed(relaySide.watching, g.arg[1]),
               relaySide' = [relaySide EXCEPT
                   !.watching = kept \ g.arg[2],
                   !.ignored = ((relaySide.ignored \cup g.arg[1]) \ kept) \ g.arg[2]]
        PROVE  /\ relaySide' \in RelaySide /\ relaySide.accepted \subseteq relaySide'.accepted
               /\ Named' = (Named \cup g.arg[1]) \ g.arg[2]
    <3>1. /\ relaySide.watching \subseteq kept /\ kept \subseteq relaySide.watching \cup g.arg[1]
          /\ g.arg[1] \subseteq Contact
      BY <1>4, <1>5, <2>4 DEF Indexed
    <3>2. /\ kept \ g.arg[2] \in SUBSET Contact
          /\ ((relaySide.ignored \cup g.arg[1]) \ kept) \ g.arg[2] \in SUBSET Contact
      BY <2>1, <3>1
    <3>3. /\ relaySide' \in RelaySide /\ relaySide'.accepted = relaySide.accepted
          /\ relaySide'.watching = kept \ g.arg[2]
          /\ relaySide'.ignored = ((relaySide.ignored \cup g.arg[1]) \ kept) \ g.arg[2]
      BY <2>1, <2>4, <3>2 DEF RelaySide
    <3> QED BY <3>1, <3>3 DEF Named
  <2> QED BY <1>6, <2>2, <2>3, <2>4
<1>8. d \in Seq(Answers')
  <2>1. Answers \subseteq Answers'  BY <1>7 DEF Answers
  <2>2. Seq(Answers) \subseteq Seq(Answers')  BY <2>1, SeqMonotonic
  <2>3. socket.down \in Seq(Answers')  BY <1>2, <2>2, ClientTypes
  <2>4. CASE d = socket.down  BY <2>3, <2>4
  <2>5. CASE /\ g.op = "send" /\ d = Append(socket.down, Reply("acked", g.arg))
             /\ relaySide' = [relaySide EXCEPT !.accepted = relaySide.accepted \cup {g.arg}]
    <3>1. g.arg \in relaySide'.accepted  BY <1>2, <2>5 DEF ClientTyped
    <3>2. Reply("acked", g.arg) \in Answers'  BY <3>1 DEF Answers
    <3> QED BY <2>3, <2>5, <3>2, AppendProperties
  <2>6. CASE g.op = "send" /\ d = Append(socket.down, Reply("moved", g.arg))
    <3>1. g.arg \in Key  BY <1>4, <1>5, <2>6
    <3>2. Reply("moved", g.arg) \in Answers'  BY <3>1 DEF Answers
    <3> QED BY <2>3, <2>6, <3>2, AppendProperties
  <2> QED BY <1>6, <2>4, <2>5, <2>6
<1>9. /\ socket' \in Socket' /\ socket'.up = Tail(socket.up) /\ socket'.link = "up"
      /\ socket'.answer = socket.answer
  <2>1. socket' = [socket EXCEPT !.up = Tail(socket.up), !.down = d]
    BY <1>2, <1>6, ClientTypes DEF Socket
  <2> QED BY <1>1, <1>2, <1>3, <1>8, <2>1, ClientTypes DEF Socket
<1>10. Commands' = Commands  BY <1>1 DEF Commands
<1>11. ClientTyped'  BY <1>1, <1>2, <1>7, <1>9, <1>10 DEF ClientTyped
<1>12. PhaseInv'  BY <1>1 DEF ClientInv, PhaseInv, At, Sending
<1>13. AckInv'
  BY <1>1, <1>7, <1>9 DEF ClientInv, AckInv, Sending, AckedWasAccepted
<1>14. WatchInv'
  <2>1. SUFFICES ASSUME NEW x \in Contact  PROVE x \in watchSet <=> WillWatch(x)'
    BY <1>1 DEF WatchInv
  <2>2. x \in watchSet <=> WillWatch(x)  BY <1>1 DEF ClientInv, WatchInv
  <2>3. x \in Named' <=> IF Mentions(g, x) THEN Adds(g, x) ELSE x \in Named
    BY <1>7 DEF Mentions, Adds
  <2>4. Will(Tail(socket.up), Named', x) <=> Will(socket.up, Named, x)
    BY <1>1, <1>2, <1>5, <2>3, ClientTypes, WillTail
  <2> QED BY <1>1, <1>9, <2>2, <2>4 DEF WillWatch
<1> QED BY <1>11, <1>12, <1>13, <1>14 DEF ClientInv

-----------------------------------------------------------------------------
\* The invariant holds of a client that just connected, and of one that could not.
LEMMA ClientInvInit == ClientInit => ClientInv
<1>1. SUFFICES ASSUME ClientInit  PROVE ClientInv  OBVIOUS
<1>2. PICK first \in Send : first = CHOOSE s \in Send : TRUE  BY ClientAssumption
<1>3. << >> \in Seq(Frames) /\ << >> \in Seq(Answers) /\ << >> \in Seq(Commands)  OBVIOUS
<1>4. Fresh \in Socket /\ NoSocket \in Socket  BY <1>3 DEF Fresh, NoSocket, Socket
<1>5. sup \in Supervisor /\ sup.at \in {"loop", "backoff"} /\ sup.frame = NoFrame
  <2>1. PICK at \in {"loop", "backoff"}, boot \in BOOLEAN :
           sup = [at |-> at, cur |-> first, frame |-> NoFrame, boot |-> boot]
    BY <1>1, <1>2 DEF ClientInit
  <2> QED BY <2>1 DEF Supervisor, Points
<1>6. /\ relaySide \in RelaySide
      /\ Named = {} /\ watchSet = {}
  BY <1>1 DEF ClientInit, RelaySide, Named
<1>7. ClientTyped
  BY <1>1, <1>3, <1>4, <1>5, <1>6, ClientAssumption DEF ClientInit, ClientTyped, Results
<1>8. PhaseInv
  BY <1>1, <1>5 DEF ClientInit, PhaseInv, At
<1>9. AckInv
  BY <1>1, <1>5 DEF ClientInit, AckInv, Sending, NoFrame, AckedWasAccepted
<1>10. WatchInv
  <2>1. SUFFICES ASSUME inner # 0, NEW x \in Contact  PROVE ~WillWatch(x)
    BY <1>6 DEF WatchInv
  <2>2. socket.up = << >> /\ Len(<< >>) = 0  BY <1>1, <2>1 DEF ClientInit, Fresh
  <2> QED BY <1>5, <1>6, <2>2, MentionsNone DEF WillWatch, Will
<1> QED BY <1>7, <1>8, <1>9, <1>10 DEF ClientInv

\* Every step of the tasks, the network and the relay keeps it, and a connection is torn
\* down only on its own report or by shutdown.
LEMMA ClientInvStep ==
    ClientInv /\ [ClientNext]_clientVars =>
        ClientInv' /\ (inner # 0 /\ inner' # inner => inner \in raised \/ sup'.at = "stopped")
<1>1. SUFFICES ASSUME ClientInv, [ClientNext]_clientVars
               PROVE  ClientInv' /\ (inner # 0 /\ inner' # inner
                                        => inner \in raised \/ sup'.at = "stopped")
  OBVIOUS
<1>2. CASE UNCHANGED clientVars
  <2>1. UNCHANGED <<cmds, sup, inner, nextGen, attempts, watchSet, connState, socket, relaySide,
                    result, raised, calls, faults>>
    BY <1>2 DEF clientVars
  <2>2. Commands' = Commands /\ Answers' = Answers /\ Socket' = Socket  BY <2>1, SameSets
  <2>3. ClientTyped' /\ AckedWasAccepted'
    BY <1>1, <2>1, <2>2 DEF ClientInv, ClientTyped, AckInv, AckedWasAccepted
  <2> QED BY <1>1, <2>1, <2>3, QuietStep
<1>3. CASE (\E s \in Send : Submit(s)) \/ (\E c \in Calls : Call(c))
  <2>1. ClientInv'  BY <1>1, <1>3, HandleStep
  <2>2. inner' = inner  BY <1>3 DEF Submit, Call
  <2> QED BY <2>1, <2>2
<1>4. CASE TakeSend \/ TakeWatch \/ TakeFrame \/ TakeReconnectNow
  <2>1. ClientInv'  BY <1>1, <1>4, TakeSendStep, TakeWatchStep, TakeFrameStep
  <2>2. inner' = inner  BY <1>4 DEF TakeSend, TakeWatch, TakeFrame, TakeReconnectNow
  <2> QED BY <2>1, <2>2
<1>5. CASE TakeShutdown \/ DrainShutdown
  <2>1. ClientInv'  BY <1>1, <1>5, ShutdownStep
  <2>2. Stop(Tail(cmds))  BY <1>5 DEF TakeShutdown, DrainShutdown
  <2>3. sup'.at = "stopped"
    BY <1>1, <2>2, ClientTypes DEF Stop, ClientInv, Supervisor
  <2> QED BY <2>1, <2>3
<1>6. CASE TakeDown  BY <1>1, <1>6, TakeDownStep
<1>7. CASE \/ TakeMutex \/ WriteEnds \/ WriteErrs \/ WriteTimesOut \/ AckArrives \/ AckTimesOut
  <2>1. ClientInv'
    BY <1>1, <1>7, TakeMutexStep, WriteEndsStep, WriteErrsStep, TimesOutStep, AckArrivesStep
  <2>2. inner' = inner
    BY <1>7 DEF TakeMutex, WriteEnds, WriteErrs, WriteTimesOut, AckArrives, AckTimesOut
  <2> QED BY <2>1, <2>2
<1>8. CASE BackoffEnds \/ Drain \/ OpenFails
  <2>1. ClientInv'  BY <1>1, <1>8, BackoffStep, DrainStep
  <2>2. inner' = inner  BY <1>8 DEF BackoffEnds, Drain, OpenFails
  <2> QED BY <2>1, <2>2
<1>9. CASE OpenSucceeds  BY <1>1, <1>9, InstallStep
<1>10. CASE GiveUp  BY <1>1, <1>10, GiveUpStep
<1>11. CASE \/ ReaderReads \/ ReaderEnds \/ PingTakesMutex \/ PingWritten \/ PingErrs \/ PongLate
  <2>1. ClientInv'  BY <1>1, <1>11, TasksStep
  <2>2. inner' = inner
    BY <1>11 DEF ReaderReads, ReaderEnds, PingTakesMutex, PingWritten, PingErrs, PongLate
  <2> QED BY <2>1, <2>2
<1>12. CASE LinkChanges \/ RelayTakes \/ RelayByes
  <2>1. ClientInv'  BY <1>1, <1>12, LinkStep, RelayTakesStep, ByeStep
  <2>2. inner' = inner  BY <1>12 DEF LinkChanges, RelayTakes, RelayByes
  <2> QED BY <2>1, <2>2
<1> QED BY <1>1, <1>2, <1>3, <1>4, <1>5, <1>6, <1>7, <1>8, <1>9, <1>10, <1>11, <1>12
        DEF ClientNext, SupervisorNext

\* The inductive invariant of the supervisor holds throughout.
THEOREM ClientInvariant == ClientSpec => []ClientInv
<1>1. ClientInv /\ [ClientNext]_clientVars => ClientInv'  BY ClientInvStep
<1> QED BY <1>1, ClientInvInit, PTL DEF ClientSpec

\* Every variable of the client holds a value of its kind.
THEOREM ClientTypeCorrect == ClientSpec => []ClientTypeOK
<1>1. ClientInv => ClientTypeOK
  BY ClientTypes DEF ClientInv, ClientTyped, ClientTypeOK, Socket, Supervisor, RelaySide
<1> QED BY <1>1, ClientInvariant, PTL

\* A send that was reported accepted was accepted by the relay, for any number of sends, any
\* reuse of keys and any faults (do_send, Outbox::ack).
THEOREM AckedSendsAccepted == ClientSpec => []AckedWasAccepted
<1>1. ClientInv => AckedWasAccepted  BY DEF ClientInv, AckInv
<1> QED BY <1>1, ClientInvariant, PTL

\* The relay's index stays within the cap, and no agent is both indexed and ignored.
CapInv ==
    /\ relaySide.watching \cap relaySide.ignored = {}
    /\ Cardinality(relaySide.watching) <= SessionCap

\* add_watches stops at the cap, and a new session starts with nothing.
LEMMA CapStep ==
    ASSUME ClientTyped, CapInv, [ClientNext]_clientVars
    PROVE  CapInv'
<1>1. CASE UNCHANGED relaySide  BY <1>1 DEF CapInv
<1>2. CASE OpenSucceeds
  <2>1. relaySide'.watching = {} /\ relaySide'.ignored = {}
    BY <1>2 DEF OpenSucceeds, Install, ClientTyped, RelaySide
  <2> QED BY <2>1, FS_EmptySet, ClientAssumption DEF CapInv
<1>3. CASE RelayTakes
  <2> DEFINE f == Head(socket.up)
  <2>1. relaySide \in RelaySide  BY DEF ClientTyped
  <2>2. CASE f.op = "send"
    <3>1. \/ relaySide' = [relaySide EXCEPT !.accepted = relaySide.accepted \cup {f.arg}]
          \/ relaySide' = relaySide
      BY <1>3, <2>2 DEF RelayTakes
    <3>2. relaySide'.watching = relaySide.watching /\ relaySide'.ignored = relaySide.ignored
      BY <2>1, <3>1 DEF RelaySide
    <3> QED BY <3>2 DEF CapInv
  <2>3. CASE f.op = "watch"
    <3>1. PICK kept \in Indexed(relaySide.watching, f.arg[1]) :
             relaySide' = [relaySide EXCEPT
                 !.watching = kept \ f.arg[2],
                 !.ignored = ((relaySide.ignored \cup f.arg[1]) \ kept) \ f.arg[2]]
      BY <1>3, <2>3 DEF RelayTakes
    <3>2. /\ relaySide'.watching = kept \ f.arg[2]
          /\ relaySide'.ignored = ((relaySide.ignored \cup f.arg[1]) \ kept) \ f.arg[2]
      BY <2>1, <3>1 DEF RelaySide
    <3>3. /\ kept \subseteq relaySide.watching \cup f.arg[1]
          /\ Cardinality(kept) <= SessionCap
      BY DEF Indexed
    <3>4. f.arg[1] \subseteq Contact
      <4>1. socket.up \in Seq(Frames) /\ socket.up # << >>
        BY <1>3, ClientTypes DEF RelayTakes
      <4>2. f \in Frames  BY <4>1, HeadTailProperties
      <4> QED BY <2>3, <4>2 DEF Frames, SendFrame, WatchFrame, OtherFrame
    <3>5. kept \subseteq Contact  BY <2>1, <3>3, <3>4 DEF RelaySide
    <3>6. IsFiniteSet(kept)  BY <3>5, FS_Subset, ClientAssumption
    <3>7. /\ IsFiniteSet(kept \ f.arg[2]) /\ Cardinality(kept) \in Nat
          /\ Cardinality(kept \ f.arg[2]) <= Cardinality(kept)
      BY <3>6, FS_Subset, FS_CardinalityType
    <3>8. Cardinality(kept \ f.arg[2]) \in Nat  BY <3>7, FS_CardinalityType
    <3>9. Cardinality(kept \ f.arg[2]) <= SessionCap
      BY <3>3, <3>7, <3>8, ClientAssumption
    <3> QED BY <3>2, <3>9 DEF CapInv
  <2>4. CASE f.op # "send" /\ f.op # "watch"
    BY <1>1, <1>3, <2>4 DEF RelayTakes
  <2> QED BY <2>2, <2>3, <2>4
<1>4. CASE ~OpenSucceeds /\ ~RelayTakes
  <2>1. UNCHANGED relaySide
    BY <1>4
       DEF ClientNext, SupervisorNext, Submit, Call, TakeSend, TakeWatch, TakeFrame,
           TakeReconnectNow, TakeShutdown, TakeDown, TakeMutex, WriteEnds, WriteErrs,
           WriteTimesOut, AckArrives, AckTimesOut, BackoffEnds, Drain, DrainShutdown,
           OpenFails, GiveUp, ReaderReads, ReaderEnds, PingTakesMutex, PingWritten,
           PingErrs, PongLate, LinkChanges, RelayByes, clientVars
  <2> QED BY <1>1, <2>1
<1> QED BY <1>2, <1>3, <1>4

\* The relay watches what the application asked for, once the frames are through, however
\* often the connection was replaced (install, reconnect), but for what this session's
\* add_watches ignored at its cap; and never more than the cap.
THEOREM WatchesSurvive == ClientSpec => []WatchesCarryOver
<1>1. ClientInit => CapInv
  <2>1. SUFFICES ASSUME ClientInit  PROVE CapInv  OBVIOUS
  <2>2. relaySide.watching = {} /\ relaySide.ignored = {}  BY <2>1 DEF ClientInit
  <2> QED BY <2>2, FS_EmptySet, ClientAssumption DEF CapInv
<1>2. ClientInv /\ CapInv /\ [ClientNext]_clientVars => CapInv'
  BY CapStep DEF ClientInv
<1>3. ClientInv /\ CapInv => WatchesCarryOver
  <2>1. SUFFICES ASSUME ClientInv, CapInv, inner # 0, socket.link = "up", socket.up = << >>,
                        At("loop")
                 PROVE  /\ relaySide.watching = watchSet \ relaySide.ignored
                        /\ Cardinality(relaySide.watching) <= SessionCap
    BY DEF WatchesCarryOver, Connected
  <2>2. sup.frame = NoFrame  BY <2>1 DEF ClientInv, PhaseInv, At
  <2>3. ASSUME NEW x \in Contact  PROVE x \in watchSet <=> x \in Named
    <3>1. x \in watchSet <=> Will(<< >>, Named, x)
      BY <2>1, <2>2, MentionsNone DEF ClientInv, WatchInv, WillWatch
    <3>2. Len(<< >>) = 0  OBVIOUS
    <3> QED BY <3>1, <3>2 DEF Will
  <2>4. watchSet \subseteq Contact /\ Named \subseteq Contact
    BY <2>1 DEF ClientInv, ClientTyped, RelaySide, Named
  <2>5. watchSet = Named  BY <2>3, <2>4
  <2> QED BY <2>1, <2>5 DEF CapInv, Named
<1> QED BY <1>1, <1>2, <1>3, ClientInvariant, PTL DEF ClientSpec

\* A connection is torn down only on the report of its own tasks or by shutdown, for any
\* number of connections whose reports arrive late (ConnGen).
THEOREM OwnSignalOnly == ClientSpec => OnlyOwnSignal
<1>1. ClientInv /\ [ClientNext]_clientVars
         => [inner # 0 /\ inner' # inner => inner \in raised \/ sup'.at = "stopped"]_clientVars
  BY ClientInvStep
<1> QED BY <1>1, ClientInvariant, PTL DEF ClientSpec, OnlyOwnSignal

-----------------------------------------------------------------------------
(* The home relay: the inductive invariant while no flows overlap, in parts. *)

\* No other flow than f is under way.
Alone(f) == \A g \in Flow : g # f => FlowAt(g, "idle")

\* At most one flow is under way.
Lone == \A f \in Flow : FlowAt(f, "idle") \/ Alone(f)

FlowPoints == {"idle", "swap", "point", "publish", "post", "repost", "forward", "fpost", "frepost",
               "finish"}
FlowRecord ==
    [kind : {"none", "migrate", "failover", "reconnect"}, at : FlowPoints,
     from : Relay \cup {Nowhere}, to : Relay \cup {Nowhere}, url : Relay \cup {Nowhere}, issued : Nat]
ForwardRecord == [to : Relay \cup {Nowhere}, issued : Nat]
Hint == [relay : Relay, epoch : Nat]

HomingTyped ==
    /\ slot \in Relay /\ primary \in Relay /\ ratchet \in Nat
    /\ flow \in [Flow -> FlowRecord]
    /\ pair \in [Relay -> Nat] /\ fwd \in [Relay -> ForwardRecord]
    /\ missed \in SUBSET Relay
    /\ card \in Hint /\ hints \in SUBSET Hint
    /\ sender \in [at : {"idle", "first", "resolve", "second"}, url : Relay \cup {Nowhere}]

\* The ratchet is ahead of every record, and a record on its way is newer than any a relay has.
ClockInv ==
    /\ \A r \in Relay : pair[r] <= ratchet /\ fwd[r].issued <= ratchet
    /\ \A f \in Flow : Posting(f) =>
          /\ flow[f].issued <= ratchet
          /\ \A r \in Relay : flow[f].issued > pair[r] /\ flow[f].issued > fwd[r].issued

\* Where slot 0 and primary_relay_url are at each point of a flow, and whom it writes to.
PlaceInv ==
    /\ Quiet => slot = primary
    /\ \A f \in Flow : ~FlowAt(f, "idle") =>
         /\ flow[f].from \in Relay /\ flow[f].to \in Relay /\ flow[f].kind # "none"
         /\ (flow[f].kind = "reconnect") <=> (flow[f].from = flow[f].to)
         /\ slot = IF FlowAt(f, "swap") THEN flow[f].from ELSE flow[f].to
         /\ primary = IF flow[f].at \in {"swap", "point"} THEN flow[f].from ELSE flow[f].to
         /\ flow[f].at \in {"forward", "fpost", "frepost"} => flow[f].kind = "migrate"
         /\ Pairing(f) => flow[f].url = flow[f].to
         /\ flow[f].at \in {"fpost", "frepost"} => flow[f].url = flow[f].from

\* The relay in slot 0 has not been told yet.
Unsaid(f) == flow[f].at \in {"point", "publish", "post", "repost"}

\* The relay the migration left has not been told yet.
Leaving(f) == flow[f].kind = "migrate" /\ flow[f].at \notin {"idle", "swap", "finish"}

\* The home relay's newest statement is that the agent is there.
HomeInv ==
    (\A f \in Flow : ~Unsaid(f)) /\ slot \notin missed => pair[slot] > 0 /\ ~Departed(slot)

\* Every other relay that ever heard of the agent knows that it left.
AwayInv ==
    \A r \in Relay : r # slot /\ r \notin missed /\ pair[r] > 0 =>
        Departed(r) \/ \E f \in Flow : Leaving(f) /\ r = flow[f].from

\* The relay was told of the agent, or was to be told.
Met(r) == r = slot \/ r \in missed \/ pair[r] > 0

\* Nobody is sent to a relay that was never told of the agent.
MetInv ==
    /\ Met(primary) /\ Met(card.relay)
    /\ sender.at \in {"resolve", "second"} => sender.url \in Relay /\ Met(sender.url)
    /\ \A h \in hints : Met(h.relay)
    /\ \A r \in Relay : fwd[r].issued > 0 => fwd[r].to \in Relay /\ Met(fwd[r].to)

HomingInv == HomingTyped /\ ClockInv /\ PlaceInv /\ HomeInv /\ AwayInv /\ MetInv

\* The agent starts at home.
LEMMA HomingInvInit == ASSUME HomingInit PROVE HomingInv
<1>1. HomingTyped
  BY HomingAssumption DEF HomingInit, HomingTyped, FlowRecord, FlowPoints, NoFlow, ForwardRecord, NoForward, Hint
<1>2. ClockInv /\ PlaceInv
  BY HomingAssumption DEF HomingInit, ClockInv, PlaceInv, NoFlow, NoForward, Posting, FlowAt, Quiet
<1>3. /\ \A r \in Relay : fwd[r].issued = 0 /\ (pair[r] > 0 <=> r = FirstHome)
      /\ slot = FirstHome /\ primary = FirstHome /\ card.relay = FirstHome
      /\ sender.at = "idle" /\ hints = {} /\ FirstHome \in Relay
  BY HomingAssumption DEF HomingInit, NoForward
<1>4. HomeInv /\ AwayInv  BY <1>3 DEF HomeInv, AwayInv, Departed
<1>5. MetInv  BY <1>3 DEF MetInv, Met
<1> QED BY <1>1, <1>2, <1>4, <1>5 DEF HomingInv

\* What a relay was told stays told or missed, so whoever is met stays met.
LEMMA MetStays ==
    ASSUME MetInv, HomingTyped, HomingTyped',
           \A r \in Relay : Met(r) => Met(r)',
           card' = card \/ \E r \in Relay : Met(r) /\ card'.relay = r,
           sender'.at \in {"resolve", "second"} => sender'.url \in Relay /\ Met(sender'.url),
           \A h \in hints' : h \in hints \/ Met(h.relay),
           Met(primary'),
           \A r \in Relay : fwd'[r].issued > 0 =>
               fwd'[r] = fwd[r] \/ (fwd'[r].to \in Relay /\ Met(fwd'[r].to))
    PROVE  MetInv'
<1>1. Met(primary)'  BY DEF HomingTyped, Met
<1>2. Met(card.relay)'
  <2>1. card'.relay \in Relay  BY DEF HomingTyped, Hint
  <2> QED BY <2>1 DEF MetInv, Met
<1>3. (sender.at \in {"resolve", "second"} => sender.url \in Relay /\ Met(sender.url))'
  BY DEF Met
<1>4. \A h \in hints' : h.relay \in Relay  BY DEF HomingTyped, Hint
<1>5. (\A h \in hints : Met(h.relay))'  BY <1>4 DEF MetInv, Met
<1>6. (\A r \in Relay : fwd[r].issued > 0 => fwd[r].to \in Relay /\ Met(fwd[r].to))'
  BY DEF MetInv, Met
<1> QED BY <1>1, <1>2, <1>3, <1>5, <1>6 DEF MetInv

\* A step of the flow that only moves on.
LEMMA StepEffect ==
    ASSUME flow \in [Flow -> FlowRecord], NEW f \in Flow, NEW p \in FlowPoints, Step(f, p)
    PROVE  /\ flow' \in [Flow -> FlowRecord] /\ flow'[f].at = p
           /\ flow'[f].kind = flow[f].kind /\ flow'[f].from = flow[f].from /\ flow'[f].to = flow[f].to
           /\ flow'[f].url = flow[f].url /\ flow'[f].issued = flow[f].issued
BY DEF Step, FlowRecord

\* A flow starts.
LEMMA StartStep ==
    ASSUME HomingInv, NEW f \in Flow, Alone(f), Alone(f)', StartMigrate(f) \/ StartReconnect(f) \/ StartFailover(f)
    PROVE  HomingInv'
<1>0. HomingTyped /\ ClockInv /\ PlaceInv /\ HomeInv /\ AwayInv /\ MetInv  BY DEF HomingInv
<1>u. \A g \in Flow : g # f => flow[g].at = "idle" /\ flow'[g].at = "idle"  BY DEF Alone, FlowAt
<1>1. PICK kind \in {"migrate", "failover", "reconnect"}, to \in Relay :
          /\ Start(f, kind, to) /\ (kind = "reconnect" <=> to = primary)
  BY <1>0 DEF StartMigrate, StartReconnect, StartFailover, Candidate, HomingTyped
<1> DEFINE new == [NoFlow EXCEPT !.kind = kind, !.at = "swap", !.from = primary, !.to = to]
<1>a. new.kind = kind /\ new.at = "swap" /\ new.from = primary /\ new.to = to
  BY DEF NoFlow
<1>b. new \in FlowRecord
  BY <1>0 DEF NoFlow, FlowRecord, FlowPoints, HomingTyped
<1>2. /\ flow' = [flow EXCEPT ![f] = new] /\ FlowAt(f, "idle")
      /\ UNCHANGED <<slot, primary, ratchet, missed, pair, fwd, card, sender, hints>>
  BY <1>1 DEF Start, homeRelayVars, senderVars
<1> HIDE DEF new
<1>3. /\ flow' \in [Flow -> FlowRecord] /\ flow'[f].kind = kind /\ flow'[f].at = "swap"
      /\ flow'[f].from = primary /\ flow'[f].to = to
  BY <1>0, <1>2, <1>a, <1>b DEF HomingTyped
<1>4. HomingTyped'  BY <1>0, <1>2, <1>3 DEF HomingTyped
<1>5. ClockInv'  BY <1>u, <1>0, <1>2, <1>3 DEF ClockInv, Posting
<1>6. PlaceInv'
  <2>1. Quiet /\ slot = primary  BY <1>u, <1>0, <1>2 DEF PlaceInv, Quiet, FlowAt
  <2> QED BY <1>u, <1>0, <1>1, <1>2, <1>3, <2>1 DEF PlaceInv, Quiet, FlowAt, Pairing, HomingTyped
<1>7. HomeInv'  BY <1>u, <1>0, <1>2, <1>3 DEF HomeInv, Unsaid, FlowAt, Departed
<1>8. AwayInv'  BY <1>u, <1>0, <1>2, <1>3 DEF AwayInv, Leaving, FlowAt, Departed
<1>9. MetInv'  BY <1>0, <1>2 DEF MetInv, Met
<1> QED BY <1>4, <1>5, <1>6, <1>7, <1>8, <1>9 DEF HomingInv

\* A flow ends: before the swap, when nothing was touched, or at its end.
LEMMA EndStep ==
    ASSUME HomingInv, NEW f \in Flow, Alone(f), Alone(f)', SwapFails(f) \/ Finish(f)
    PROVE  HomingInv'
<1>0. HomingTyped /\ ClockInv /\ PlaceInv /\ HomeInv /\ AwayInv /\ MetInv  BY DEF HomingInv
<1>u. \A g \in Flow : g # f => flow[g].at = "idle" /\ flow'[g].at = "idle"  BY DEF Alone, FlowAt
<1>1. /\ flow' = [flow EXCEPT ![f] = NoFlow] /\ flow[f].at \in {"swap", "finish"}
      /\ UNCHANGED <<slot, primary, ratchet, missed, pair, fwd, card, sender, hints>>
  BY DEF SwapFails, Finish, FlowAt, homeRelayVars, senderVars, countVars
<1>2. NoFlow \in FlowRecord /\ NoFlow.at = "idle" /\ NoFlow.kind = "none"
  BY DEF NoFlow, FlowRecord, FlowPoints
<1>3. flow' \in [Flow -> FlowRecord] /\ flow'[f].at = "idle" /\ flow'[f].kind = "none"
  BY <1>0, <1>1, <1>2 DEF HomingTyped
<1>4. HomingTyped'  BY <1>0, <1>1, <1>3 DEF HomingTyped
<1>5. ClockInv'  BY <1>u, <1>0, <1>1, <1>3 DEF ClockInv, Posting
<1>6. PlaceInv'
  <2>1. slot = primary  BY <1>0, <1>1 DEF PlaceInv, FlowAt
  <2> QED BY <1>u, <1>1, <1>3, <2>1 DEF PlaceInv, FlowAt
<1>7. HomeInv'  BY <1>u, <1>0, <1>1, <1>3 DEF HomeInv, Unsaid, Departed
<1>8. AwayInv'  BY <1>u, <1>0, <1>1, <1>3 DEF AwayInv, Leaving, Departed
<1>9. MetInv'  BY <1>0, <1>1 DEF MetInv, Met
<1> QED BY <1>4, <1>5, <1>6, <1>7, <1>8, <1>9 DEF HomingInv

\* The new session goes into slot 0.
LEMMA SwapStep == ASSUME HomingInv, NEW f \in Flow, Alone(f), Alone(f)', Swap(f) PROVE HomingInv'
<1>0. HomingTyped /\ ClockInv /\ PlaceInv /\ HomeInv /\ AwayInv /\ MetInv  BY DEF HomingInv
<1>u. \A g \in Flow : g # f => flow[g].at = "idle" /\ flow'[g].at = "idle"  BY DEF Alone, FlowAt
<1> DEFINE p == IF flow[f].kind = "reconnect" THEN "publish" ELSE "point"
<1>1. /\ flow[f].at = "swap" /\ slot' = flow[f].to /\ Step(f, p)
      /\ missed' = IF flow[f].kind = "failover" THEN missed \cup {slot} ELSE missed
      /\ UNCHANGED <<primary, ratchet, pair, fwd, card, sender, hints>>
  BY DEF Swap, FlowAt, senderVars
<1>2. /\ flow' \in [Flow -> FlowRecord] /\ flow'[f].at = p
      /\ flow'[f].kind = flow[f].kind /\ flow'[f].from = flow[f].from /\ flow'[f].to = flow[f].to
  BY <1>0, <1>1, StepEffect DEF HomingTyped, FlowPoints
<1>3. /\ flow[f].from \in Relay /\ flow[f].to \in Relay /\ flow[f].kind # "none"
      /\ (flow[f].kind = "reconnect") <=> (flow[f].from = flow[f].to)
      /\ slot = flow[f].from /\ primary = flow[f].from
  BY <1>0, <1>1 DEF PlaceInv, FlowAt
<1>4. HomingTyped'  BY <1>0, <1>1, <1>2, <1>3 DEF HomingTyped
<1>5. ClockInv'  BY <1>u, <1>0, <1>1, <1>2 DEF ClockInv, Posting
<1>6. PlaceInv'  BY <1>u, <1>1, <1>2, <1>3 DEF PlaceInv, FlowAt, Quiet, Pairing
<1>7. HomeInv'  BY <1>u, <1>2 DEF HomeInv, Unsaid
<1>8. AwayInv'
  <2>1. SUFFICES ASSUME NEW r \in Relay, r # slot', r \notin missed', pair'[r] > 0
                 PROVE  Departed(r)' \/ (Leaving(f)' /\ r = flow'[f].from)
    BY DEF AwayInv
  <2>2. CASE r = slot
    <3>1. flow[f].kind \in {"migrate", "failover", "reconnect"}
      BY <1>0, <1>3 DEF HomingTyped, FlowRecord
    <3>2. flow[f].kind = "migrate"  BY <1>1, <1>3, <2>1, <2>2, <3>1
    <3> QED BY <1>2, <1>3, <2>2, <3>2 DEF Leaving
  <2>3. CASE r # slot
    BY <1>u, <1>0, <1>1, <2>1, <2>3 DEF AwayInv, Leaving, Departed
  <2> QED BY <2>2, <2>3
<1>9. \A r \in Relay : Met(r) => Met(r)'
  <2>1. slot \in missed \/ pair[slot] > 0
    BY <1>u, <1>0, <1>1 DEF HomeInv, Unsaid
  <2> QED BY <1>1, <2>1 DEF Met
<1>10. MetInv'
  BY <1>0, <1>1, <1>9 DEF MetInv, HomingTyped, Hint
<1> QED BY <1>4, <1>5, <1>6, <1>7, <1>8, <1>10 DEF HomingInv

\* The live primary follows slot 0.
LEMMA PointStep == ASSUME HomingInv, NEW f \in Flow, Alone(f), Alone(f)', Point(f) PROVE HomingInv'
<1>0. HomingTyped /\ ClockInv /\ PlaceInv /\ HomeInv /\ AwayInv /\ MetInv  BY DEF HomingInv
<1>u. \A g \in Flow : g # f => flow[g].at = "idle" /\ flow'[g].at = "idle"  BY DEF Alone, FlowAt
<1>1. /\ flow[f].at = "point" /\ primary' = flow[f].to /\ Step(f, "publish")
      /\ UNCHANGED <<slot, ratchet, missed, pair, fwd, card, sender, hints>>
  BY DEF Point, FlowAt, homeRelayVars, senderVars, countVars
<1>2. /\ flow' \in [Flow -> FlowRecord] /\ flow'[f].at = "publish"
      /\ flow'[f].kind = flow[f].kind /\ flow'[f].from = flow[f].from /\ flow'[f].to = flow[f].to
  BY <1>0, <1>1, StepEffect DEF HomingTyped, FlowPoints
<1>3. /\ flow[f].from \in Relay /\ flow[f].to \in Relay /\ flow[f].kind # "none"
      /\ (flow[f].kind = "reconnect") <=> (flow[f].from = flow[f].to)
      /\ slot = flow[f].to
  BY <1>0, <1>1 DEF PlaceInv, FlowAt
<1>4. HomingTyped'  BY <1>0, <1>1, <1>2, <1>3 DEF HomingTyped
<1>5. ClockInv'  BY <1>u, <1>0, <1>1, <1>2 DEF ClockInv, Posting
<1>6. PlaceInv'  BY <1>u, <1>1, <1>2, <1>3 DEF PlaceInv, FlowAt, Quiet, Pairing
<1>7. HomeInv'  BY <1>u, <1>2 DEF HomeInv, Unsaid
<1>8. AwayInv'  BY <1>u, <1>0, <1>1, <1>2 DEF AwayInv, Leaving, Departed
<1>9. MetInv'  BY <1>0, <1>1, <1>3 DEF MetInv, Met
<1> QED BY <1>4, <1>5, <1>6, <1>7, <1>8, <1>9 DEF HomingInv

\* A record is issued, or issued once more after a 409: nothing but the ratchet and the
\* flow moves, and the ratchet passes every record.
LEMMA IssuedStep ==
    ASSUME HomingInv, NEW f \in Flow, Alone(f), Alone(f)', NEW now \in Nat, now > ratchet, ratchet' = now,
           UNCHANGED <<slot, primary, missed, card, sender, hints>>,
           pair' \in [Relay -> Nat], fwd' \in [Relay -> ForwardRecord],
           \A r \in Relay : pair'[r] <= ratchet /\ fwd'[r].issued <= ratchet,
           flow' \in [Flow -> FlowRecord], flow'[f].issued = now,
           flow'[f].kind = flow[f].kind, flow'[f].from = flow[f].from, flow'[f].to = flow[f].to,
           \/ flow[f].at \in {"publish", "post"} /\ flow'[f].at \in {"post", "repost"}
              /\ flow'[f].url = flow[f].to
           \/ flow[f].at \in {"forward", "fpost"} /\ flow'[f].at \in {"fpost", "frepost"}
              /\ flow'[f].url = flow[f].from
    PROVE  HomingTyped' /\ ClockInv' /\ PlaceInv'
<1>0. HomingTyped /\ ClockInv /\ PlaceInv  BY DEF HomingInv
<1>u. \A g \in Flow : g # f => flow[g].at = "idle" /\ flow'[g].at = "idle"  BY DEF Alone, FlowAt
<1>1. flow[f].at \in {"publish", "post", "forward", "fpost"}  OBVIOUS
<1>2. /\ flow[f].from \in Relay /\ flow[f].to \in Relay /\ flow[f].kind # "none"
      /\ (flow[f].kind = "reconnect") <=> (flow[f].from = flow[f].to)
      /\ slot = flow[f].to /\ primary = flow[f].to
      /\ flow[f].at \in {"forward", "fpost"} => flow[f].kind = "migrate"
  BY <1>0, <1>1 DEF PlaceInv, FlowAt
<1>3. HomingTyped'  BY <1>0 DEF HomingTyped
<1>4. \A r \in Relay : /\ pair'[r] <= ratchet' /\ fwd'[r].issued <= ratchet'
                       /\ flow'[f].issued > pair'[r] /\ flow'[f].issued > fwd'[r].issued
  BY <1>0 DEF HomingTyped, ForwardRecord
<1>5. flow'[f].issued <= ratchet'  BY <1>0 DEF HomingTyped
<1>6. ClockInv'  BY <1>u, <1>4, <1>5 DEF ClockInv, Posting
<1>7. PlaceInv'  BY <1>u, <1>2 DEF PlaceInv, FlowAt, Quiet, Pairing
<1> QED BY <1>3, <1>6, <1>7

\* next_issued_at_ms: the record is signed and on its way.
LEMMA IssueStep == ASSUME HomingInv, NEW f \in Flow, Alone(f), Alone(f)', Issue(f) PROVE HomingInv'
<1>0. HomingTyped /\ ClockInv /\ PlaceInv /\ HomeInv /\ AwayInv /\ MetInv  BY DEF HomingInv
<1>u. \A g \in Flow : g # f => flow[g].at = "idle" /\ flow'[g].at = "idle"  BY DEF Alone, FlowAt
<1>1. /\ flow[f].at \in {"publish", "forward"} /\ ratchet' = ratchet + 1
      /\ UNCHANGED <<slot, primary, missed, pair, fwd, card, sender, hints>>
  BY DEF Issue, homeRelayVars, senderVars, countVars
<1>2. flow[f].from \in Relay /\ flow[f].to \in Relay /\ primary = flow[f].to
  BY <1>0, <1>1 DEF PlaceInv, FlowAt
<1>3. ratchet' \in Nat /\ ratchet' > ratchet  BY <1>0, <1>1 DEF HomingTyped
<1>4. /\ flow' \in [Flow -> FlowRecord] /\ flow'[f].issued = ratchet'
      /\ flow'[f].at = IF flow[f].at = "publish" THEN "post" ELSE "fpost"
      /\ flow'[f].url = IF flow[f].at = "publish" THEN primary ELSE flow[f].from
      /\ flow'[f].kind = flow[f].kind /\ flow'[f].from = flow[f].from /\ flow'[f].to = flow[f].to
  BY <1>0, <1>2, <1>3 DEF Issue, FlowAt, HomingTyped, FlowRecord, FlowPoints
<1>5. HomingTyped' /\ ClockInv' /\ PlaceInv'
  BY <1>0, <1>1, <1>2, <1>3, <1>4, IssuedStep DEF HomingTyped, ClockInv
<1>6. HomeInv'  BY <1>u, <1>0, <1>1, <1>4 DEF HomeInv, Unsaid, Departed
<1>7. AwayInv'  BY <1>u, <1>0, <1>1, <1>4 DEF AwayInv, Leaving, Departed
<1>8. MetInv'  BY <1>0, <1>1 DEF MetInv, Met
<1> QED BY <1>5, <1>6, <1>7, <1>8 DEF HomingInv

\* What a flow knows of itself while its record is on its way.
LEMMA PostingFacts ==
    ASSUME HomingInv, NEW f \in Flow, Posting(f)
    PROVE  /\ flow[f].from \in Relay /\ flow[f].to \in Relay /\ flow[f].kind # "none"
           /\ (flow[f].kind = "reconnect") <=> (flow[f].from = flow[f].to)
           /\ slot = flow[f].to /\ primary = flow[f].to /\ flow[f].issued \in Nat
           /\ flow[f].issued <= ratchet
           /\ Pairing(f) => flow[f].url = flow[f].to /\ flow[f].at \in {"post", "repost"}
           /\ ~Pairing(f) => /\ flow[f].url = flow[f].from /\ flow[f].at \in {"fpost", "frepost"}
                             /\ flow[f].kind = "migrate" /\ flow[f].from # flow[f].to
           /\ flow[f].url \in Relay
           /\ \A r \in Relay : flow[f].issued > pair[r] /\ flow[f].issued > fwd[r].issued
<1>1. HomingTyped /\ ClockInv /\ PlaceInv /\ flow[f].at \in {"post", "repost", "fpost", "frepost"}
  BY DEF HomingInv, Posting
<1>2. /\ flow[f].from \in Relay /\ flow[f].to \in Relay /\ flow[f].kind # "none"
      /\ (flow[f].kind = "reconnect") <=> (flow[f].from = flow[f].to)
      /\ slot = flow[f].to /\ primary = flow[f].to
  BY <1>1 DEF PlaceInv, FlowAt
<1>3. /\ Pairing(f) => flow[f].url = flow[f].to /\ flow[f].at \in {"post", "repost"}
      /\ ~Pairing(f) => /\ flow[f].url = flow[f].from /\ flow[f].at \in {"fpost", "frepost"}
                        /\ flow[f].kind = "migrate"
  BY <1>1 DEF PlaceInv, FlowAt, Pairing
<1>4. flow[f].issued \in Nat  BY <1>1 DEF HomingTyped, FlowRecord
<1>5. /\ flow[f].issued <= ratchet
      /\ \A r \in Relay : flow[f].issued > pair[r] /\ flow[f].issued > fwd[r].issued
  BY <1>1 DEF ClockInv
<1> QED BY <1>2, <1>3, <1>4, <1>5

\* A relay stores the record of a flow: the pair record at home, or the forwarding record at
\* the relay that was left.
LEMMA StoredEffect ==
    ASSUME HomingInv, NEW f \in Flow, Posting(f), Stored(f)
    PROVE  /\ pair' \in [Relay -> Nat] /\ fwd' \in [Relay -> ForwardRecord]
           /\ \A r \in Relay : pair'[r] <= ratchet /\ fwd'[r].issued <= ratchet
           /\ \A r \in Relay : pair[r] > 0 => pair'[r] > 0
           /\ \A r \in Relay : r # flow[f].url => pair'[r] = pair[r] /\ fwd'[r] = fwd[r]
           /\ Pairing(f) => /\ pair'[flow[f].url] > 0 /\ fwd' = fwd
                            /\ pair'[flow[f].url] > fwd'[flow[f].url].issued
           /\ ~Pairing(f) => /\ pair' = pair /\ fwd'[flow[f].url].to = flow[f].to
                             /\ fwd'[flow[f].url].issued > 0
                             /\ fwd'[flow[f].url].issued > pair'[flow[f].url]
<1>1. /\ pair \in [Relay -> Nat] /\ fwd \in [Relay -> ForwardRecord] /\ ratchet \in Nat
      /\ \A r \in Relay : pair[r] <= ratchet /\ fwd[r].issued <= ratchet
  BY DEF HomingInv, HomingTyped, ClockInv
<1>2. /\ flow[f].url \in Relay /\ flow[f].to \in Relay /\ flow[f].issued \in Nat
      /\ flow[f].issued <= ratchet
      /\ flow[f].issued > pair[flow[f].url] /\ flow[f].issued > fwd[flow[f].url].issued
  BY PostingFacts
<1>3. CASE Pairing(f)
  <2>1. pair' = [pair EXCEPT ![flow[f].url] = flow[f].issued] /\ fwd' = fwd
    BY <1>3 DEF Stored
  <2> QED BY <1>1, <1>2, <1>3, <2>1 DEF ForwardRecord
<1>4. CASE ~Pairing(f)
  <2> DEFINE new == [to |-> flow[f].to, issued |-> flow[f].issued]
  <2>1. fwd' = [fwd EXCEPT ![flow[f].url] = new] /\ pair' = pair
    BY <1>4 DEF Stored
  <2>2. new \in ForwardRecord /\ new.to = flow[f].to /\ new.issued = flow[f].issued
    BY <1>2 DEF ForwardRecord
  <2> HIDE DEF new
  <2>3. fwd' \in [Relay -> ForwardRecord] /\ fwd'[flow[f].url] = new
        /\ \A r \in Relay : r # flow[f].url => fwd'[r] = fwd[r]
    BY <1>1, <1>2, <2>1, <2>2
  <2>4. \A r \in Relay : fwd'[r].issued <= ratchet  BY <1>1, <1>2, <2>2, <2>3
  <2>5. fwd'[flow[f].url].issued > 0 /\ fwd'[flow[f].url].issued > pair'[flow[f].url]
    BY <1>1, <1>2, <2>1, <2>2, <2>3
  <2> QED BY <1>1, <1>4, <2>1, <2>2, <2>3, <2>4, <2>5
<1> QED BY <1>3, <1>4

\* 409: a later issued_at_ms, for the same record at the same relay.
LEMMA ReissueEffect ==
    ASSUME HomingInv, NEW f \in Flow, flow[f].at \in {"post", "fpost"}, NEW seen \in Nat, seen <= ratchet,
           Reissue(f, seen)
    PROVE  /\ ratchet' \in Nat /\ ratchet' > ratchet
           /\ flow' \in [Flow -> FlowRecord] /\ flow'[f].issued = ratchet'
           /\ flow'[f].at = IF Pairing(f) THEN "repost" ELSE "frepost"
           /\ flow'[f].url = flow[f].url /\ flow'[f].kind = flow[f].kind
           /\ flow'[f].from = flow[f].from /\ flow'[f].to = flow[f].to
<1>1. ratchet \in Nat /\ flow \in [Flow -> FlowRecord]  BY DEF HomingInv, HomingTyped
<1>2. ratchet' = ratchet + 1
  BY <1>1 DEF Reissue
<1>3. flow' = [flow EXCEPT ![f].issued = ratchet', ![f].at = IF Pairing(f) THEN "repost" ELSE "frepost"]
  BY DEF Reissue
<1> QED BY <1>1, <1>2, <1>3 DEF FlowRecord, FlowPoints

\* A post that is tried once more, whether or not the first one was stored.
LEMMA RepostStep ==
    ASSUME HomingInv, NEW f \in Flow, Alone(f), Alone(f)', PostTooOld(f) \/ PostUnanswered(f)
    PROVE  HomingInv'
<1>0. HomingTyped /\ ClockInv /\ PlaceInv /\ HomeInv /\ AwayInv /\ MetInv  BY DEF HomingInv
<1>u. \A g \in Flow : g # f => flow[g].at = "idle" /\ flow'[g].at = "idle"  BY DEF Alone, FlowAt
<1>1. /\ flow[f].at \in {"post", "fpost"} /\ Posting(f)
      /\ UNCHANGED <<slot, primary, missed, card, sender, hints>>
  BY DEF PostTooOld, PostUnanswered, Posting, senderVars, countVars
<1>2. PICK seen \in Nat : seen <= ratchet /\ Reissue(f, seen)
  <2>1. Watermark(f) \in Nat /\ Watermark(f) <= ratchet
    BY <1>0, <1>1, PostingFacts DEF Watermark, HomingTyped, ClockInv, ForwardRecord
  <2>2. flow[f].issued \in Nat /\ flow[f].issued <= ratchet  BY <1>1, PostingFacts
  <2> QED BY <2>1, <2>2 DEF PostTooOld, PostUnanswered
<1>3. (pair' = pair /\ fwd' = fwd) \/ Stored(f)
  BY DEF PostTooOld, PostUnanswered, homeRelayVars
<1>4. /\ pair' \in [Relay -> Nat] /\ fwd' \in [Relay -> ForwardRecord]
      /\ \A r \in Relay : pair'[r] <= ratchet /\ fwd'[r].issued <= ratchet
      /\ \A r \in Relay : pair[r] > 0 => pair'[r] > 0
      /\ \A r \in Relay : r # flow[f].url => pair'[r] = pair[r] /\ fwd'[r] = fwd[r]
      /\ Pairing(f) => fwd' = fwd
      /\ ~Pairing(f) => pair' = pair /\ (fwd' = fwd \/ fwd'[flow[f].url].to = flow[f].to)
  BY <1>0, <1>1, <1>3, StoredEffect DEF HomingTyped, ClockInv
<1>5. /\ ratchet' \in Nat /\ ratchet' > ratchet
      /\ flow' \in [Flow -> FlowRecord] /\ flow'[f].issued = ratchet'
      /\ flow'[f].at = IF Pairing(f) THEN "repost" ELSE "frepost"
      /\ flow'[f].url = flow[f].url /\ flow'[f].kind = flow[f].kind
      /\ flow'[f].from = flow[f].from /\ flow'[f].to = flow[f].to
  BY <1>1, <1>2, ReissueEffect
<1>6. /\ flow[f].from \in Relay /\ flow[f].to \in Relay /\ slot = flow[f].to /\ primary = flow[f].to
      /\ Pairing(f) => flow[f].url = flow[f].to /\ flow[f].at = "post"
      /\ ~Pairing(f) => /\ flow[f].url = flow[f].from /\ flow[f].at = "fpost"
                        /\ flow[f].kind = "migrate" /\ flow[f].from # flow[f].to
  BY <1>1, PostingFacts
<1>7. HomingTyped' /\ ClockInv' /\ PlaceInv'
  <2>1. \/ flow[f].at \in {"publish", "post"} /\ flow'[f].at \in {"post", "repost"}
           /\ flow'[f].url = flow[f].to
        \/ flow[f].at \in {"forward", "fpost"} /\ flow'[f].at \in {"fpost", "frepost"}
           /\ flow'[f].url = flow[f].from
    BY <1>5, <1>6
  <2> QED BY <1>1, <1>4, <1>5, <2>1, IssuedStep
<1>8. HomeInv'
  <2>1. CASE Pairing(f)  BY <1>5, <2>1 DEF HomeInv, Unsaid
  <2>2. CASE ~Pairing(f)
    <3>1. fwd'[slot] = fwd[slot] /\ pair' = pair  BY <1>0, <1>4, <1>6, <2>2 DEF HomingTyped
    <3>2. ~Unsaid(f)  BY <1>6, <2>2 DEF Unsaid
    <3> QED BY <1>0, <1>1, <1>u, <3>1, <3>2 DEF HomeInv, Unsaid, Departed
  <2> QED BY <2>1, <2>2
<1>9. AwayInv'
  <2>1. SUFFICES ASSUME NEW r \in Relay, r # slot', r \notin missed', pair'[r] > 0
                 PROVE  Departed(r)' \/ (Leaving(f)' /\ r = flow'[f].from)
    BY DEF AwayInv
  <2>2. CASE ~Pairing(f) /\ r = flow[f].from
    BY <1>5, <1>6, <2>2 DEF Leaving
  <2>3. CASE ~(~Pairing(f) /\ r = flow[f].from)
    <3>1. pair'[r] = pair[r] /\ fwd'[r] = fwd[r]
      BY <1>1, <1>4, <1>6, <2>1, <2>3
    <3>2. Departed(r) \/ (Leaving(f) /\ r = flow[f].from)
      BY <1>u, <1>0, <1>1, <2>1, <3>1 DEF AwayInv, Leaving
    <3>3. Leaving(f) => Leaving(f)'
      BY <1>5 DEF Leaving
    <3> QED BY <1>5, <3>1, <3>2, <3>3 DEF Departed
  <2> QED BY <2>2, <2>3
<1>10. MetInv'
  <2>1. \A r \in Relay : Met(r) => Met(r)'  BY <1>1, <1>4 DEF Met
  <2>2. \A r \in Relay : fwd'[r].issued > 0 =>
            fwd'[r] = fwd[r] \/ (fwd'[r].to \in Relay /\ Met(fwd'[r].to))
    BY <1>4, <1>6 DEF Met
  <2>3. Met(primary')  BY <1>0, <1>1 DEF MetInv
  <2>4. sender'.at \in {"resolve", "second"} => sender'.url \in Relay /\ Met(sender'.url)
    BY <1>0, <1>1 DEF MetInv
  <2> QED BY <1>0, <1>1, <1>7, <2>1, <2>2, <2>3, <2>4, MetStays
<1> QED BY <1>7, <1>8, <1>9, <1>10 DEF HomingInv

\* The relay takes the record, or the flow gives up on it and the relay has missed it.
LEMMA PostedStep ==
    ASSUME HomingInv, NEW f \in Flow, Alone(f), Alone(f)', PostAccepted(f) \/ PostFails(f)
    PROVE  HomingInv'
<1>0. HomingTyped /\ ClockInv /\ PlaceInv /\ HomeInv /\ AwayInv /\ MetInv  BY DEF HomingInv
<1>u. \A g \in Flow : g # f => flow[g].at = "idle" /\ flow'[g].at = "idle"  BY DEF Alone, FlowAt
<1>1. /\ Posting(f) /\ Step(f, Posted(f))
      /\ UNCHANGED <<slot, primary, ratchet, card, sender, hints>>
  BY DEF PostAccepted, PostFails, senderVars
<1>2. \/ Stored(f) /\ Taken(f) /\ missed' = missed \ {flow[f].url}
      \/ pair' = pair /\ fwd' = fwd /\ missed' = missed \cup {flow[f].url}
  BY DEF PostAccepted, PostFails, homeRelayVars
<1>3. /\ flow[f].from \in Relay /\ flow[f].to \in Relay /\ flow[f].kind # "none" /\ flow[f].url \in Relay
      /\ (flow[f].kind = "reconnect") <=> (flow[f].from = flow[f].to)
      /\ slot = flow[f].to /\ primary = flow[f].to
      /\ Pairing(f) => flow[f].url = flow[f].to /\ flow[f].at \in {"post", "repost"}
      /\ ~Pairing(f) => /\ flow[f].url = flow[f].from /\ flow[f].at \in {"fpost", "frepost"}
                        /\ flow[f].kind = "migrate" /\ flow[f].from # flow[f].to
  BY <1>1, PostingFacts
<1>4. /\ Posted(f) \in {"forward", "finish"}
      /\ Posted(f) = "forward" <=> Pairing(f) /\ flow[f].kind = "migrate"
  BY DEF Posted
<1>5. /\ flow' \in [Flow -> FlowRecord] /\ flow'[f].at = Posted(f)
      /\ flow'[f].kind = flow[f].kind /\ flow'[f].from = flow[f].from /\ flow'[f].to = flow[f].to
  BY <1>0, <1>1, <1>4, StepEffect DEF HomingTyped, FlowPoints
<1>6. /\ pair' \in [Relay -> Nat] /\ fwd' \in [Relay -> ForwardRecord]
      /\ \A r \in Relay : pair'[r] <= ratchet /\ fwd'[r].issued <= ratchet
      /\ \A r \in Relay : pair[r] > 0 => pair'[r] > 0
      /\ \A r \in Relay : r # flow[f].url => pair'[r] = pair[r] /\ fwd'[r] = fwd[r]
      /\ Pairing(f) => fwd' = fwd
      /\ ~Pairing(f) => pair' = pair /\ (fwd' = fwd \/ fwd'[flow[f].url].to = flow[f].to)
  BY <1>0, <1>1, <1>2, StoredEffect DEF HomingTyped, ClockInv
<1>7. flow[f].url \notin missed' =>
          /\ pair'[flow[f].url] > 0
          /\ Pairing(f) => pair'[flow[f].url] > fwd'[flow[f].url].issued
          /\ ~Pairing(f) => /\ fwd'[flow[f].url].issued > 0
                            /\ fwd'[flow[f].url].issued > pair'[flow[f].url]
  <2>1. SUFFICES ASSUME flow[f].url \notin missed'  PROVE Stored(f) /\ Taken(f)
    BY <1>1, <1>6, StoredEffect DEF Taken
  <2> QED BY <1>2, <2>1
<1>8. HomingTyped'
  BY <1>0, <1>1, <1>2, <1>3, <1>5, <1>6 DEF HomingTyped
<1>9. ClockInv'  BY <1>u, <1>1, <1>4, <1>5, <1>6 DEF ClockInv, Posting
<1>10. PlaceInv'
  BY <1>u, <1>1, <1>3, <1>4, <1>5 DEF PlaceInv, FlowAt, Quiet, Pairing
<1>11. HomeInv'
  <2>1. CASE Pairing(f)
    BY <1>1, <1>3, <1>6, <1>7, <1>8, <2>1 DEF HomeInv, Departed, HomingTyped, ForwardRecord
  <2>2. CASE ~Pairing(f)
    <3>1. fwd'[slot] = fwd[slot] /\ pair' = pair  BY <1>0, <1>3, <1>6, <2>2 DEF HomingTyped
    <3>2. ~Unsaid(f)  BY <1>3, <2>2 DEF Unsaid
    <3>3. slot \in missed => slot \in missed'  BY <1>2, <1>3, <2>2
    <3> QED BY <1>0, <1>1, <1>u, <3>1, <3>2, <3>3 DEF HomeInv, Unsaid, Departed
  <2> QED BY <2>1, <2>2
<1>12. AwayInv'
  <2>1. SUFFICES ASSUME NEW r \in Relay, r # slot', r \notin missed', pair'[r] > 0
                 PROVE  Departed(r)' \/ (Leaving(f)' /\ r = flow'[f].from)
    BY DEF AwayInv
  <2>2. CASE r = flow[f].url
    <3>1. ~Pairing(f)  BY <1>1, <1>3, <2>1, <2>2
    <3>2. fwd'[r].issued > 0 /\ fwd'[r].issued > pair'[r]  BY <1>7, <2>1, <2>2, <3>1
    <3>3. fwd'[r].issued \in Nat /\ pair'[r] \in Nat  BY <1>6 DEF ForwardRecord
    <3> QED BY <3>2, <3>3 DEF Departed
  <2>3. CASE r # flow[f].url
    <3>1. pair'[r] = pair[r] /\ fwd'[r] = fwd[r] /\ r \notin missed
      BY <1>2, <1>6, <2>1, <2>3
    <3>2. Departed(r) \/ (Leaving(f) /\ r = flow[f].from)
      BY <1>u, <1>0, <1>1, <2>1, <3>1 DEF AwayInv, Leaving
    <3>3. CASE Leaving(f) /\ r = flow[f].from
      <4>1. Pairing(f) /\ flow[f].kind = "migrate"  BY <1>3, <2>3, <3>3 DEF Leaving
      <4> QED BY <1>4, <1>5, <3>3, <4>1 DEF Leaving
    <3> QED BY <3>1, <3>2, <3>3 DEF Departed
  <2> QED BY <2>2, <2>3
<1>13. MetInv'
  <2>1. \A r \in Relay : Met(r) => Met(r)'
    <3>1. SUFFICES ASSUME NEW r \in Relay, Met(r)  PROVE Met(r)'  OBVIOUS
    <3>2. CASE r = flow[f].url  BY <1>7, <3>2 DEF Met
    <3>3. CASE r # flow[f].url  BY <1>1, <1>2, <1>6, <3>1, <3>3 DEF Met
    <3> QED BY <3>2, <3>3
  <2>2. \A r \in Relay : fwd'[r].issued > 0 =>
            fwd'[r] = fwd[r] \/ (fwd'[r].to \in Relay /\ Met(fwd'[r].to))
    BY <1>3, <1>6 DEF Met
  <2>3. Met(primary')  BY <1>0, <1>1 DEF MetInv
  <2>4. sender'.at \in {"resolve", "second"} => sender'.url \in Relay /\ Met(sender'.url)
    BY <1>0, <1>1 DEF MetInv
  <2> QED BY <1>0, <1>1, <1>8, <2>1, <2>2, <2>3, <2>4, MetStays
<1> QED BY <1>8, <1>9, <1>10, <1>11, <1>12, <1>13 DEF HomingInv

\* Links and sessions come and go without a word about where the agent lives.
LEMMA LinksStep ==
    ASSUME HomingInv,
           LinkLost \/ Relink \/ (\E r \in Relay : SessionEnds(r) \/ RelayStops(r))
    PROVE  HomingInv'
<1>1. UNCHANGED <<slot, primary, ratchet, flow, missed, pair, fwd, card, sender, hints>>
  BY DEF LinkLost, Relink, SessionEnds, RelayStops, ownerVars, homeRelayVars, senderVars, countVars
<1> QED BY <1>1 DEF HomingInv, HomingTyped, ClockInv, PlaceInv, HomeInv, AwayInv, MetInv, Met, Quiet,
                    FlowAt, Posting, Pairing, Unsaid, Leaving, Departed

\* A relay forgets what it was told, in a restart or because a record expires: it has missed it.
LEMMA ForgetsStep ==
    ASSUME HomingInv, NEW r \in Relay, RelayRestarts(r) \/ RecordExpires(r)
    PROVE  HomingInv'
<1>0. HomingTyped /\ ClockInv /\ PlaceInv /\ HomeInv /\ AwayInv /\ MetInv  BY DEF HomingInv
<1>1. missed' = missed \cup {r} /\ UNCHANGED <<slot, primary, ratchet, flow, card, sender, hints>>
  BY DEF RelayRestarts, RecordExpires, ownerVars, senderVars
<1>2. NoForward \in ForwardRecord /\ NoForward.issued = 0  BY DEF NoForward, ForwardRecord
<1>3. /\ pair' = pair \/ pair' = [pair EXCEPT ![r] = 0]
      /\ fwd' = fwd \/ fwd' = [fwd EXCEPT ![r] = NoForward]
  BY DEF RelayRestarts, RecordExpires
<1>4. /\ pair' \in [Relay -> Nat] /\ fwd' \in [Relay -> ForwardRecord]
      /\ \A q \in Relay : q # r => pair'[q] = pair[q] /\ fwd'[q] = fwd[q]
      /\ pair'[r] <= pair[r] /\ fwd'[r].issued <= fwd[r].issued
      /\ fwd'[r].issued = 0 \/ fwd'[r] = fwd[r]
  BY <1>0, <1>2, <1>3 DEF HomingTyped, ForwardRecord
<1>5. HomingTyped'  BY <1>0, <1>1, <1>4 DEF HomingTyped
<1>6. ClockInv'
  <2>1. \A q \in Relay : pair'[q] <= pair[q] /\ fwd'[q].issued <= fwd[q].issued
    BY <1>0, <1>4 DEF HomingTyped, ForwardRecord
  <2>2. \A q \in Relay : /\ pair'[q] \in Nat /\ pair[q] \in Nat
                         /\ fwd'[q].issued \in Nat /\ fwd[q].issued \in Nat
    BY <1>0, <1>5 DEF HomingTyped, ForwardRecord
  <2>3. ratchet \in Nat /\ \A f \in Flow : flow[f].issued \in Nat
    BY <1>0 DEF HomingTyped, FlowRecord
  <2> QED BY <1>0, <1>1, <2>1, <2>2, <2>3 DEF ClockInv, Posting
<1>7. PlaceInv'  BY <1>0, <1>1 DEF PlaceInv, Quiet, FlowAt, Pairing
<1>8. HomeInv'
  BY <1>0, <1>1, <1>4 DEF HomeInv, Unsaid, Departed, HomingTyped
<1>9. AwayInv'  BY <1>0, <1>1, <1>4 DEF AwayInv, Leaving, Departed
<1>10. MetInv'
  <2>1. \A q \in Relay : Met(q) => Met(q)'  BY <1>1, <1>4 DEF Met
  <2>2. \A q \in Relay : fwd'[q].issued > 0 =>
            fwd'[q] = fwd[q] \/ (fwd'[q].to \in Relay /\ Met(fwd'[q].to))
    BY <1>4
  <2>3. Met(primary')  BY <1>0, <1>1 DEF MetInv
  <2>4. sender'.at \in {"resolve", "second"} => sender'.url \in Relay /\ Met(sender'.url)
    BY <1>0, <1>1 DEF MetInv
  <2> QED BY <1>0, <1>1, <1>5, <2>1, <2>2, <2>3, <2>4, MetStays
<1> QED BY <1>5, <1>6, <1>7, <1>8, <1>9, <1>10 DEF HomingInv

\* The sender and what it is told: its card goes only where a record or a hint points.
LEMMA SenderStep ==
    ASSUME HomingInv, Compose \/ Deposit \/ Resolve \/ OwnerTalks \/ (\E h \in hints : SenderHears(h))
    PROVE  HomingInv'
<1>0. HomingTyped /\ ClockInv /\ PlaceInv /\ HomeInv /\ AwayInv /\ MetInv  BY DEF HomingInv
<1>1. UNCHANGED <<slot, primary, ratchet, flow, missed, pair, fwd>>
  BY DEF Compose, Deposit, Resolve, OwnerTalks, SenderHears, ownerVars, homeRelayVars, countVars
<1>2. /\ card' \in Hint /\ Met(card'.relay)
      /\ sender' \in [at : {"idle", "first", "resolve", "second"}, url : Relay \cup {Nowhere}]
      /\ sender'.at \in {"resolve", "second"} => sender'.url \in Relay /\ Met(sender'.url)
      /\ hints' \in SUBSET Hint /\ \A h \in hints' : h \in hints \/ Met(h.relay)
  <2> DEFINE Goal == /\ card' \in Hint /\ Met(card'.relay)
                     /\ sender' \in [at : {"idle", "first", "resolve", "second"}, url : Relay \cup {Nowhere}]
                     /\ sender'.at \in {"resolve", "second"} => sender'.url \in Relay /\ Met(sender'.url)
                     /\ hints' \in SUBSET Hint /\ \A h \in hints' : h \in hints \/ Met(h.relay)
  <2>1. ASSUME Compose PROVE Goal
    BY <1>0, <2>1 DEF Compose, HomingTyped, MetInv
  <2>2. ASSUME Deposit PROVE Goal
    <3>1. UNCHANGED <<card, hints>>  BY <2>2 DEF Deposit
    <3>2. card.relay \in Relay /\ Met(card.relay)  BY <1>0 DEF HomingTyped, Hint, MetInv
    <3>3. \/ sender' = sender \/ sender' = [at |-> "first", url |-> Nowhere]
          \/ sender' = [at |-> "resolve", url |-> card.relay]
      BY <2>2 DEF Deposit
    <3> QED BY <1>0, <3>1, <3>2, <3>3 DEF HomingTyped, MetInv
  <2>3. ASSUME Resolve PROVE Goal
    <3>1. hints' = hints /\ sender.at = "resolve" /\ sender.url \in Relay
      BY <1>0, <2>3 DEF Resolve, MetInv
    <3> DEFINE to == fwd[sender.url].to
               issued == fwd[sender.url].issued
    <3>2. \/ /\ issued > card.epoch /\ issued > 0 /\ card' = [relay |-> to, epoch |-> issued]
             /\ sender' = [at |-> "second", url |-> to]
          \/ card' = card /\ sender' = [at |-> "first", url |-> Nowhere]
      BY <2>3 DEF Resolve, ApplyHint, Departed
    <3>3. issued \in Nat /\ (issued > 0 => to \in Relay /\ Met(to))
      BY <1>0, <3>1 DEF HomingTyped, ForwardRecord, MetInv
    <3> HIDE DEF to, issued
    <3> QED BY <1>0, <3>1, <3>2, <3>3 DEF HomingTyped, MetInv, Hint
  <2>4. ASSUME OwnerTalks PROVE Goal
    BY <1>0, <2>4 DEF OwnerTalks, HomingTyped, MetInv, Hint
  <2>5. ASSUME NEW h \in hints, SenderHears(h) PROVE Goal
    <3>1. /\ hints' = hints \ {h} /\ sender' = sender
          /\ card' = card \/ card' = [relay |-> h.relay, epoch |-> h.epoch]
      BY <2>5 DEF SenderHears, ApplyHint
    <3> QED BY <1>0, <3>1 DEF HomingTyped, MetInv, Hint
  <2> QED BY <2>1, <2>2, <2>3, <2>4, <2>5
<1>3. HomingTyped'  BY <1>0, <1>1, <1>2 DEF HomingTyped
<1>4. ClockInv' /\ PlaceInv'
  BY <1>0, <1>1 DEF ClockInv, PlaceInv, Quiet, FlowAt, Posting, Pairing
<1>5. HomeInv' /\ AwayInv'
  BY <1>0, <1>1 DEF HomeInv, AwayInv, Unsaid, Leaving, Departed
<1>6. MetInv'
  <2>1. \A r \in Relay : Met(r) => Met(r)'  BY <1>1 DEF Met
  <2>2. card'.relay \in Relay  BY <1>2 DEF Hint
  <2> QED BY <1>0, <1>1, <1>2, <1>3, <2>1, <2>2, MetStays DEF MetInv
<1> QED BY <1>3, <1>4, <1>5, <1>6 DEF HomingInv

\* A flow that goes on was under way, and its step is about itself.
LEMMA OwnFlow ==
    ASSUME HomingTyped, NEW f \in Flow,
           \/ StartMigrate(f) \/ StartReconnect(f) \/ StartFailover(f)
           \/ Swap(f) \/ SwapFails(f) \/ Point(f) \/ Issue(f)
           \/ PostAccepted(f) \/ PostTooOld(f) \/ PostUnanswered(f) \/ PostFails(f) \/ Finish(f)
    PROVE  /\ \A g \in Flow : g # f => flow'[g] = flow[g]
           /\ ~FlowAt(f, "idle") \/ (Quiet \/ overlapped')
<1>0. DOMAIN flow = Flow  BY DEF HomingTyped
<1>1. CASE StartMigrate(f) \/ StartReconnect(f) \/ StartFailover(f)
  <2>1. PICK kind, to : Start(f, kind, to)  BY <1>1 DEF StartMigrate, StartReconnect, StartFailover
  <2> QED BY <1>0, <2>1 DEF Start
<1>2. CASE Swap(f) \/ SwapFails(f) \/ Point(f) \/ Issue(f)
  BY <1>0, <1>2 DEF Swap, SwapFails, Point, Issue, Step, FlowAt
<1>3. CASE PostAccepted(f) \/ PostTooOld(f) \/ PostUnanswered(f) \/ PostFails(f) \/ Finish(f)
  BY <1>0, <1>3 DEF PostAccepted, PostTooOld, PostUnanswered, PostFails, Finish, Reissue, Posting, Step, FlowAt
<1> QED BY <1>1, <1>2, <1>3

\* An overlap is not forgotten.
LEMMA OverlapStays == ASSUME overlapped, [HomingNext]_homingVars PROVE overlapped'
BY DEF HomingNext, homingVars, countVars, StartMigrate, StartReconnect, StartFailover, Start, Swap,
       SwapFails, Point, Issue, PostAccepted, PostTooOld, PostUnanswered, PostFails, Finish, LinkLost,
       Relink, SessionEnds, RelayStops, RelayRestarts, RecordExpires, Compose, Deposit, Resolve,
       OwnerTalks, SenderHears

\* Every step that does not overlap two flows keeps the invariant.
LEMMA HomingInvStep ==
    ASSUME Lone, HomingInv, [HomingNext]_homingVars, ~overlapped'
    PROVE  Lone' /\ HomingInv'
<1>1. ASSUME NEW f \in Flow,
             \/ StartMigrate(f) \/ StartReconnect(f) \/ StartFailover(f)
             \/ Swap(f) \/ SwapFails(f) \/ Point(f) \/ Issue(f)
             \/ PostAccepted(f) \/ PostTooOld(f) \/ PostUnanswered(f) \/ PostFails(f) \/ Finish(f)
      PROVE  Lone' /\ HomingInv'
  <2>1. Alone(f)
    BY <1>1, OwnFlow DEF HomingInv, Lone, Quiet, Alone
  <2>2. Alone(f)'
    BY <1>1, <2>1, OwnFlow DEF HomingInv, Alone, FlowAt
  <2>3. Lone'  BY <2>2 DEF Lone, Alone
  <2>4. HomingInv'
    BY <1>1, <2>1, <2>2, StartStep, SwapStep, EndStep, PointStep, IssueStep, PostedStep, RepostStep
  <2> QED BY <2>3, <2>4
<1>2. ASSUME flow' = flow, HomingInv' PROVE Lone' /\ HomingInv'
  BY <1>2 DEF Lone, Alone, FlowAt
<1>3. CASE LinkLost \/ Relink \/ (\E r \in Relay : SessionEnds(r) \/ RelayStops(r))
  <2>1. flow' = flow  BY <1>3 DEF LinkLost, Relink, SessionEnds, RelayStops, ownerVars
  <2> QED BY <1>2, <1>3, <2>1, LinksStep
<1>4. ASSUME NEW r \in Relay, RelayRestarts(r) \/ RecordExpires(r) PROVE Lone' /\ HomingInv'
  <2>1. flow' = flow  BY <1>4 DEF RelayRestarts, RecordExpires, ownerVars
  <2> QED BY <1>2, <1>4, <2>1, ForgetsStep
<1>5. CASE Compose \/ Deposit \/ Resolve \/ OwnerTalks \/ (\E h \in hints : SenderHears(h))
  <2>1. flow' = flow  BY <1>5 DEF Compose, Deposit, Resolve, OwnerTalks, SenderHears, ownerVars
  <2> QED BY <1>2, <1>5, <2>1, SenderStep
<1>6. CASE UNCHANGED homingVars
  <2>1. flow' = flow  BY <1>6 DEF homingVars
  <2>2. HomingInv'
    BY <1>6 DEF homingVars, HomingInv, HomingTyped, ClockInv, PlaceInv, HomeInv, AwayInv, MetInv, Met,
                Quiet, FlowAt, Posting, Pairing, Unsaid, Leaving, Departed
  <2> QED BY <1>2, <2>1, <2>2
<1> QED BY <1>1, <1>3, <1>4, <1>5, <1>6 DEF HomingNext

\* Until flows overlap, at most one is under way and the invariant of the moves holds.
SoloInv == ~overlapped => Lone /\ HomingInv

\* The inductive invariant of the moves holds throughout.
THEOREM HomingInvariant == HomingSpec => []SoloInv
<1>1. HomingInit => SoloInv
  <2>1. ASSUME HomingInit PROVE Lone
    BY <2>1 DEF HomingInit, Lone, FlowAt, NoFlow
  <2> QED BY <2>1, HomingInvInit DEF SoloInv
<1>2. SoloInv /\ [HomingNext]_homingVars => SoloInv'
  <2>1. SUFFICES ASSUME SoloInv, [HomingNext]_homingVars, ~overlapped'  PROVE Lone' /\ HomingInv'
    BY DEF SoloInv
  <2>2. ~overlapped  BY <2>1, OverlapStays
  <2> QED BY <2>1, <2>2, HomingInvStep DEF SoloInv
<1> QED BY <1>1, <1>2, PTL DEF HomingSpec

\* Between moves that do not overlap the agent advertises the relay it is connected to, and
\* that relay keeps mail for it, for any relays and any number of moves, with every post, link,
\* relay and record failing when it likes (migrate_primary, failover_to_next_relay).
THEOREM HomeKeepsMail == HomingSpec => []HomeTakesMail
<1>1. SoloInv => HomeTakesMail
  BY DEF SoloInv, HomingInv, PlaceInv, HomeInv, HomeTakesMail, Quiet, FlowAt, Unsaid
<1> QED BY <1>1, HomingInvariant, PTL

\* Between moves that do not overlap no relay but the home stores mail for the agent, unless it
\* missed the record that says so or still has a session of the agent (ws.rs handle_send).
THEOREM NothingStoredAway == HomingSpec => NoBlackHole
<1>1. SoloInv /\ [HomingNext]_homingVars
        => [mail' # mail /\ mail' # slot /\ Quiet /\ ~overlapped /\ mail' \notin missed
                => mail' \in present]_homingVars
  <2>1. SUFFICES ASSUME SoloInv, HomingNext, mail' # mail, mail' # slot, Quiet, ~overlapped,
                        mail' \notin missed
                 PROVE  mail' \in present
    BY DEF homingVars
  <2>0. HomingInv  BY <2>1 DEF SoloInv
  <2>2. Deposit
    BY <2>1 DEF HomingNext, StartMigrate, StartReconnect, StartFailover, Start, Swap, SwapFails, Point,
         Issue, PostAccepted, PostTooOld, PostUnanswered, PostFails, Finish, LinkLost, Relink,
         SessionEnds, RelayStops, RelayRestarts, RecordExpires, Compose, Resolve, OwnerTalks,
         SenderHears, senderVars
  <2>3. mail' \in Relay /\ Met(mail') /\ Accepts(mail')
    BY <2>0, <2>1, <2>2 DEF Deposit, HomingInv, HomingTyped, Hint, MetInv
  <2>4. Departed(mail')
    BY <2>0, <2>1, <2>3 DEF Met, HomingInv, AwayInv, Quiet, FlowAt, Leaving
  <2> QED BY <2>3, <2>4 DEF Accepts
<1> QED BY <1>1, HomingInvariant, PTL DEF HomingSpec, NoBlackHole

-----------------------------------------------------------------------------
(* The home relay with flows that overlap: what the types rest on. *)

\* A flow under way knows two relays, a record being posted has a relay to go to, and
\* the ratchet is not behind any record, hint or card.
FlowsInv ==
    \A f \in Flow :
        /\ flow[f].issued <= ratchet
        /\ ~FlowAt(f, "idle") => flow[f].from \in Relay /\ flow[f].to \in Relay
        /\ Posting(f) => flow[f].url \in Relay

RecordsInv ==
    \A r \in Relay :
        /\ pair[r] <= ratchet /\ fwd[r].issued <= ratchet
        /\ fwd[r].issued > 0 => fwd[r].to \in Relay

SenderInv ==
    /\ \A h \in hints : h.epoch \in 1..ratchet
    /\ sender.at \in {"resolve", "second"} => sender.url \in Relay

MovesInv ==
    HomingTyped /\ HomingTypeOK /\ 1 <= ratchet /\ FlowsInv /\ RecordsInv /\ SenderInv

\* A set of natural numbers that is not empty has a least one.
LEMMA LeastNatural ==
    ASSUME NEW T, T \subseteq Nat, T # {}
    PROVE  \E n \in T : \A m \in T : n <= m
<1>1. PICK n \in T : \A m \in T : ~(<<m, n>> \in OpToRel(<, Nat))
  BY NatLessThanWellFounded, WFMin, Zenon
<1>2. ASSUME NEW m \in T, m < n  PROVE FALSE
  <2>1. <<m, n>> \in Nat \X Nat  OBVIOUS
  <2>2. <<m, n>>[1] < <<m, n>>[2]  BY <1>2
  <2>3. <<m, n>> \in OpToRel(<, Nat)  BY <2>1, <2>2, Zenon DEF OpToRel
  <2> QED BY <1>1, <2>3
<1> QED BY <1>2

\* The filter over the first N entries of q.
Sieve(N, q, x) ==
    LET kept[n \in 0..N] == IF n = 0 THEN << >> ELSE Kept(kept[n - 1], q[n], x) IN kept[N]

\* The filter's values stay in a set G that each of its steps keeps: the function its
\* equation describes exists, and a least entry at which it leaves G does not.
LEMMA SieveStays ==
    ASSUME NEW N \in Nat, NEW q, NEW x, NEW G, << >> \in G,
           \A l \in G : \A n \in 1..N : Kept(l, q[n], x) \in G
    PROVE  Sieve(N, q, x) \in G
<1> DEFINE Good(f, m) == f[0] = << >> /\ \A n \in 1..m : f[n] = Kept(f[n-1], q[n], x)
           T == {m \in 0..N : ~\E f \in [0..m -> G] : Good(f, m)}
           Eq(g) == g = [n \in 0..N |-> IF n = 0 THEN << >> ELSE Kept(g[n-1], q[n], x)]
<1>1. T = {}
  <2>1. SUFFICES ASSUME T # {}  PROVE FALSE  OBVIOUS
  <2>2. T \subseteq Nat  OBVIOUS
  <2>3. PICK m \in T : \A k \in T : m <= k
    <3> HIDE DEF T
    <3> QED BY <2>1, <2>2, LeastNatural
  <2>4. m \in 0..N /\ ~\E f \in [0..m -> G] : Good(f, m)  OBVIOUS
  <2>5. m # 0
    <3>1. SUFFICES ASSUME m = 0  PROVE FALSE  OBVIOUS
    <3>2. [n \in 0..0 |-> << >>] \in [0..m -> G] /\ Good([n \in 0..0 |-> << >>], m)
      BY <3>1
    <3> QED BY <3>2, <2>4
  <2>6. m - 1 \in 0..N /\ m \in 1..N  BY <2>4, <2>5
  <2>7. m - 1 \notin T
    <3>1. ~(m <= m - 1)  BY <2>6
    <3> HIDE DEF T
    <3> QED BY <2>3, <3>1
  <2>8. PICK g \in [0..(m-1) -> G] : Good(g, m - 1)  BY <2>6, <2>7
  <2> DEFINE h == [n \in 0..m |-> IF n = m THEN Kept(g[m-1], q[m], x) ELSE g[n]]
  <2>9. Kept(g[m-1], q[m], x) \in G  BY <2>6, <2>8
  <2>10. h \in [0..m -> G]  BY <2>6, <2>8, <2>9
  <2>11. Good(h, m)
    <3>1. h[0] = << >>  BY <2>6, <2>8
    <3>2. ASSUME NEW n \in 1..m  PROVE h[n] = Kept(h[n-1], q[n], x)
      <4>1. n \in 0..m /\ n - 1 \in 0..m /\ n - 1 # m /\ h[n-1] = g[n-1]  BY <2>6, <3>2
      <4>2. CASE n = m
        <5>1. h[m] = Kept(g[m-1], q[m], x)  BY <2>6
        <5> HIDE DEF h
        <5> QED BY <4>1, <4>2, <5>1, Zenon
      <4>3. CASE n # m
        <5>1. h[n] = g[n] /\ n \in 1..(m-1)  BY <2>6, <3>2, <4>1, <4>3
        <5>2. g[n] = Kept(g[n-1], q[n], x)  BY <2>8, <5>1
        <5> HIDE DEF h
        <5> QED BY <4>1, <5>1, <5>2, Zenon
      <4> QED BY <4>2, <4>3
    <3> HIDE DEF h
    <3> QED BY <3>1, <3>2
  <2> QED BY <2>4, <2>10, <2>11
<1>2. PICK f \in [0..N -> G] : Good(f, N)
  BY <1>1
<1>3. Eq(f)
  BY <1>2
<1>4. PICK r : r = (CHOOSE g : Eq(g))  OBVIOUS
<1>5. Eq(r)
  <2> HIDE DEF Eq
  <2> QED BY <1>3, <1>4
<1>6. r[0] = << >> /\ \A n \in 1..N : r[n] = Kept(r[n-1], q[n], x)  BY <1>5
<1> DEFINE U == {n \in 0..N : r[n] \notin G}
<1>7. U = {}
  <2>1. SUFFICES ASSUME U # {}  PROVE FALSE  OBVIOUS
  <2>2. U \subseteq Nat  OBVIOUS
  <2>3. PICK m \in U : \A k \in U : m <= k
    <3> HIDE DEF U
    <3> QED BY <2>1, <2>2, LeastNatural
  <2>4. m \in 1..N /\ m - 1 \in 0..N  BY <1>6
  <2>5. r[m-1] \in G  BY <2>3, <2>4
  <2> QED BY <1>6, <2>4, <2>5
<1>8. r[N] \in G  BY <1>7
<1> QED BY <1>4, <1>8, Zenon DEF Sieve

\* What the filter leaves of a list of relays is a list of relays.
LEMMA WithoutType ==
    ASSUME NEW q \in Seq(Relay), NEW x
    PROVE  Without(q, x) \in Seq(Relay)
<1>1. Len(q) \in Nat /\ \A n \in 1..Len(q) : q[n] \in Relay
  BY LenProperties, ElementOfSeq
<1>2. << >> \in Seq(Relay)  BY EmptySeq
<1>3. \A l \in Seq(Relay) : \A n \in 1..Len(q) : Kept(l, q[n], x) \in Seq(Relay)
  BY <1>1, AppendProperties DEF Kept
<1>4. Sieve(Len(q), q, x) \in Seq(Relay)
  BY <1>1, <1>2, <1>3, SieveStays, Zenon
<1>5. Without(q, x) = Sieve(Len(q), q, x)
  BY Zenon DEF Without, Sieve
<1> QED BY <1>4, <1>5, Zenon

\* The list after a flow is a list of relays.
LEMMA RelistedType ==
    ASSUME advertised \in Seq(Relay), NEW f, flow[f].to \in Relay
    PROVE  Relisted(f) \in Seq(Relay)
<1>1. Without(advertised, flow[f].from) \in Seq(Relay)  BY WithoutType
<1> DEFINE swapped == [i \in DOMAIN advertised |->
                         IF advertised[i] = flow[f].from THEN flow[f].to ELSE advertised[i]]
<1>2. swapped \in Seq(Relay)
  <2>1. Len(advertised) \in Nat /\ DOMAIN advertised = 1..Len(advertised)
        /\ \A n \in 1..Len(advertised) : advertised[n] \in Relay
    BY LenProperties, ElementOfSeq
  <2> QED BY <2>1, IsASeq
<1> HIDE DEF swapped
<1>3. Relisted(f) \in {Without(advertised, flow[f].from), swapped, advertised}
  BY Zenon DEF Relisted, swapped
<1> QED BY <1>1, <1>2, <1>3

\* The agent starts at home, and every record is of its first epoch.
LEMMA MovesInvInit == ASSUME HomingInit PROVE MovesInv
<1>1. HomingTyped  BY HomingInvInit DEF HomingInv
<1>2. card = [relay |-> FirstHome, epoch |-> 1] /\ ratchet = 1 /\ FirstHome \in Relay
  BY HomingAssumption DEF HomingInit
<1>3. /\ slot \in Relay /\ primary \in Relay /\ linked \in BOOLEAN /\ advertised \in Seq(Relay)
      /\ up \in [Relay -> BOOLEAN] /\ present \in SUBSET Relay /\ mail \in Relay \cup {Nowhere}
  BY HomingAssumption DEF HomingInit
<1>4. HomingTypeOK  BY <1>1, <1>2, <1>3 DEF HomingTypeOK, HomingTyped, ForwardRecord
<1>5. FlowsInv
  <2>1. \A f \in Flow : flow[f] = NoFlow  BY DEF HomingInit
  <2> QED BY <1>2, <2>1 DEF FlowsInv, NoFlow, FlowAt, Posting
<1>6. RecordsInv
  <2>1. \A r \in Relay : fwd[r].issued = 0 /\ pair[r] \in {0, 1}  BY DEF HomingInit, NoForward
  <2> QED BY <1>2, <2>1 DEF RecordsInv
<1>7. SenderInv
  <2>1. hints = {} /\ sender.at = "idle"  BY DEF HomingInit
  <2> QED BY <2>1 DEF SenderInv
<1> QED BY <1>1, <1>2, <1>4, <1>5, <1>6, <1>7 DEF MovesInv

\* The part of a typed state that the flows, the links and the relays change.
PlacesTyped ==
    /\ slot \in Relay /\ primary \in Relay /\ linked \in BOOLEAN /\ advertised \in Seq(Relay)
    /\ up \in [Relay -> BOOLEAN] /\ present \in SUBSET Relay /\ missed \in SUBSET Relay

\* A step that leaves the records, the ratchet and the sender alone.
LEMMA MovesKept ==
    ASSUME MovesInv, PlacesTyped', flow' \in [Flow -> FlowRecord], FlowsInv',
           UNCHANGED <<ratchet, pair, fwd, card, sender, hints, mail>>
    PROVE  MovesInv'
<1>1. HomingTyped'  BY DEF MovesInv, HomingTyped, PlacesTyped
<1>2. HomingTypeOK'  BY DEF MovesInv, HomingTypeOK, PlacesTyped
<1>3. (1 <= ratchet)' /\ RecordsInv' /\ SenderInv'  BY DEF MovesInv, RecordsInv, SenderInv
<1> QED BY <1>1, <1>2, <1>3 DEF MovesInv

\* One flow changes: the others stay what they were.
LEMMA FlowChanges ==
    ASSUME MovesInv, NEW f \in Flow, NEW new \in FlowRecord, flow' = [flow EXCEPT ![f] = new],
           ratchet' \in Nat, ratchet <= ratchet', new.issued <= ratchet',
           new.at # "idle" => new.from \in Relay /\ new.to \in Relay,
           new.at \in {"post", "repost", "fpost", "frepost"} => new.url \in Relay
    PROVE  flow' \in [Flow -> FlowRecord] /\ FlowsInv'
<1>1. flow \in [Flow -> FlowRecord] /\ ratchet \in Nat /\ FlowsInv  BY DEF MovesInv, HomingTyped
<1>2. flow' \in [Flow -> FlowRecord]  BY <1>1
<1>3. SUFFICES ASSUME NEW g \in Flow
               PROVE  /\ flow'[g].issued <= ratchet'
                      /\ flow'[g].at # "idle" => flow'[g].from \in Relay /\ flow'[g].to \in Relay
                      /\ flow'[g].at \in {"post", "repost", "fpost", "frepost"} => flow'[g].url \in Relay
  BY <1>2 DEF FlowsInv, FlowAt, Posting
<1>4. CASE g = f  BY <1>1, <1>4
<1>5. CASE g # f
  <2>1. flow'[g] = flow[g] /\ flow[g].issued \in Nat  BY <1>1, <1>5 DEF FlowRecord
  <2> QED BY <1>1, <2>1 DEF FlowsInv, FlowAt, Posting
<1> QED BY <1>4, <1>5

\* A flow that moves on, with the same relays and the same record.
LEMMA FlowMovesOn ==
    ASSUME MovesInv, NEW f \in Flow, NEW p \in FlowPoints \ {"idle", "post", "repost", "fpost", "frepost"},
           Step(f, p), ~FlowAt(f, "idle"), ratchet' = ratchet
    PROVE  flow' \in [Flow -> FlowRecord] /\ FlowsInv'
<1>1. flow[f] \in FlowRecord /\ flow \in [Flow -> FlowRecord] /\ ratchet \in Nat
  BY DEF MovesInv, HomingTyped
<1> DEFINE new == [flow[f] EXCEPT !.at = p]
<1>2. /\ new \in FlowRecord /\ new.at = p /\ new.issued = flow[f].issued
      /\ new.from = flow[f].from /\ new.to = flow[f].to
  BY <1>1 DEF FlowRecord
<1>3. flow' = [flow EXCEPT ![f] = new]  BY <1>1 DEF Step
<1>4. flow[f].issued <= ratchet /\ flow[f].from \in Relay /\ flow[f].to \in Relay
  BY DEF MovesInv, FlowsInv
<1>5. ratchet' \in Nat /\ ratchet <= ratchet' /\ new.issued <= ratchet'  BY <1>1, <1>2, <1>4
<1>6. new.at \notin {"post", "repost", "fpost", "frepost"} /\ new.from \in Relay /\ new.to \in Relay
  BY <1>2, <1>4
<1> HIDE DEF new
<1> QED BY <1>2, <1>3, <1>5, <1>6, FlowChanges, Zenon

\* A flow ends.
LEMMA FlowEnds ==
    ASSUME MovesInv, NEW f \in Flow, flow' = [flow EXCEPT ![f] = NoFlow], ratchet' = ratchet
    PROVE  flow' \in [Flow -> FlowRecord] /\ FlowsInv'
<1>1. NoFlow \in FlowRecord /\ NoFlow.at = "idle" /\ NoFlow.issued = 0
  BY DEF NoFlow, FlowRecord, FlowPoints
<1>2. ratchet' \in Nat /\ ratchet <= ratchet' /\ NoFlow.issued <= ratchet'
  BY <1>1 DEF MovesInv, HomingTyped
<1>3. ~(NoFlow.at # "idle") /\ NoFlow.at \notin {"post", "repost", "fpost", "frepost"}  BY <1>1
<1> QED BY <1>1, <1>2, <1>3, FlowChanges, Zenon

\* The flow actions that leave every record where it is.
LEMMA MovesFlowStep ==
    ASSUME MovesInv, NEW f \in Flow,
           \/ StartMigrate(f) \/ StartReconnect(f) \/ StartFailover(f)
           \/ Swap(f) \/ SwapFails(f) \/ Point(f) \/ Finish(f)
    PROVE  MovesInv'
<1>0. /\ HomingTyped /\ HomingTypeOK /\ FlowsInv /\ PlacesTyped /\ ratchet \in Nat
      /\ flow \in [Flow -> FlowRecord]
  BY DEF MovesInv, HomingTyped, HomingTypeOK, PlacesTyped
<1>1. UNCHANGED <<ratchet, pair, fwd, card, sender, hints, mail>>
  BY DEF StartMigrate, StartReconnect, StartFailover, Start, Swap, SwapFails, Point, Finish,
         homeRelayVars, senderVars, countVars
<1>2. CASE StartMigrate(f) \/ StartReconnect(f) \/ StartFailover(f)
  <2>1. PICK kind \in {"migrate", "failover", "reconnect"}, to \in Relay : Start(f, kind, to)
    BY <1>0, <1>2 DEF StartMigrate, StartReconnect, StartFailover, HomingTyped
  <2> DEFINE new == [NoFlow EXCEPT !.kind = kind, !.at = "swap", !.from = primary, !.to = to]
  <2>2. new.at = "swap" /\ new.from = primary /\ new.to = to /\ new.issued = 0  BY DEF NoFlow
  <2>3. new \in FlowRecord  BY <1>0 DEF NoFlow, FlowRecord, FlowPoints, HomingTyped
  <2>4. flow' = [flow EXCEPT ![f] = new]  BY <2>1 DEF Start
  <2>5. UNCHANGED <<slot, linked, primary, advertised, up, present, missed>>
    BY <2>1 DEF Start, homeRelayVars
  <2> HIDE DEF new
  <2>6. ratchet' \in Nat /\ ratchet <= ratchet' /\ new.issued <= ratchet'  BY <1>0, <1>1, <2>2
  <2>7. /\ new.from \in Relay /\ new.to \in Relay
        /\ new.at \notin {"post", "repost", "fpost", "frepost"}
    BY <1>0, <2>2 DEF HomingTyped
  <2>8. flow' \in [Flow -> FlowRecord] /\ FlowsInv'
    BY <2>3, <2>4, <2>6, <2>7, FlowChanges, Zenon
  <2>9. PlacesTyped'  BY <1>0, <2>5 DEF PlacesTyped
  <2> QED BY <1>1, <2>8, <2>9, MovesKept
<1>3. CASE Swap(f)
  <2> DEFINE p == IF flow[f].kind = "reconnect" THEN "publish" ELSE "point"
  <2>1. /\ FlowAt(f, "swap") /\ slot' = flow[f].to /\ linked' = TRUE
        /\ present' = present \cup {flow[f].to} /\ missed' \in {missed, missed \cup {slot}}
        /\ Step(f, p) /\ UNCHANGED <<primary, advertised, up>>
    BY <1>3 DEF Swap
  <2>2. ~FlowAt(f, "idle") /\ flow[f].to \in Relay  BY <1>0, <2>1 DEF FlowsInv, FlowAt
  <2>3. p \in FlowPoints \ {"idle", "post", "repost", "fpost", "frepost"}  BY DEF FlowPoints
  <2> HIDE DEF p
  <2>4. flow' \in [Flow -> FlowRecord] /\ FlowsInv'
    BY <1>1, <2>1, <2>2, <2>3, FlowMovesOn
  <2>5. PlacesTyped'  BY <1>0, <2>1, <2>2 DEF PlacesTyped
  <2> QED BY <1>1, <2>4, <2>5, MovesKept
<1>4. CASE SwapFails(f)
  <2>1. /\ flow' = [flow EXCEPT ![f] = NoFlow]
        /\ UNCHANGED <<slot, linked, primary, advertised, up, present, missed>>
    BY <1>4 DEF SwapFails, homeRelayVars
  <2>2. flow' \in [Flow -> FlowRecord] /\ FlowsInv'  BY <1>1, <2>1, FlowEnds
  <2>3. PlacesTyped'  BY <1>0, <2>1 DEF PlacesTyped
  <2> QED BY <1>1, <2>2, <2>3, MovesKept
<1>5. CASE Point(f)
  <2>1. /\ FlowAt(f, "point") /\ primary' = flow[f].to /\ Step(f, "publish")
        /\ UNCHANGED <<slot, linked, advertised, up, present, missed>>
    BY <1>5 DEF Point, homeRelayVars, countVars
  <2>2. ~FlowAt(f, "idle") /\ flow[f].to \in Relay  BY <1>0, <2>1 DEF FlowsInv, FlowAt
  <2>3. "publish" \in FlowPoints \ {"idle", "post", "repost", "fpost", "frepost"}  BY DEF FlowPoints
  <2>4. flow' \in [Flow -> FlowRecord] /\ FlowsInv'
    BY <1>1, <2>1, <2>2, <2>3, FlowMovesOn
  <2>5. PlacesTyped'  BY <1>0, <2>1, <2>2 DEF PlacesTyped
  <2> QED BY <1>1, <2>4, <2>5, MovesKept
<1>6. CASE Finish(f)
  <2>1. /\ FlowAt(f, "finish") /\ flow' = [flow EXCEPT ![f] = NoFlow]
        /\ advertised' = Relisted(f) \/ advertised' = advertised
        /\ UNCHANGED <<slot, linked, primary, up, present, missed>>
    BY <1>6 DEF Finish, homeRelayVars
  <2>2. flow[f].to \in Relay  BY <1>0, <2>1 DEF FlowsInv, FlowAt
  <2>3. advertised' \in Seq(Relay)  BY <1>0, <2>1, <2>2, RelistedType DEF PlacesTyped
  <2>4. flow' \in [Flow -> FlowRecord] /\ FlowsInv'  BY <1>1, <2>1, FlowEnds
  <2>5. PlacesTyped'  BY <1>0, <2>1, <2>3 DEF PlacesTyped
  <2> QED BY <1>1, <2>4, <2>5, MovesKept
<1> QED BY <1>2, <1>3, <1>4, <1>5, <1>6

\* A step that issues, posts or forgets records: the ratchet stays ahead of all of them.
LEMMA MovesRecords ==
    ASSUME MovesInv, UNCHANGED <<slot, linked, primary, advertised, up, present, card, sender, hints, mail>>,
           missed' \in SUBSET Relay, flow' \in [Flow -> FlowRecord], FlowsInv',
           ratchet' \in Nat, ratchet <= ratchet',
           pair' \in [Relay -> Nat], fwd' \in [Relay -> ForwardRecord],
           \A r \in Relay : pair'[r] <= ratchet' /\ fwd'[r].issued <= ratchet',
           \A r \in Relay : fwd'[r].issued > 0 => fwd'[r].to \in Relay
    PROVE  MovesInv'
<1>0. ratchet \in Nat /\ 1 <= ratchet /\ card.epoch \in 1..ratchet  BY DEF MovesInv, HomingTypeOK
<1>1. HomingTyped'  BY DEF MovesInv, HomingTyped
<1>2. card'.epoch \in 1..ratchet'  BY <1>0
<1>3. HomingTypeOK'  BY <1>2 DEF MovesInv, HomingTypeOK, ForwardRecord
<1>4. RecordsInv'  BY DEF RecordsInv
<1>5. SenderInv'  BY <1>0 DEF MovesInv, SenderInv
<1> QED BY <1>0, <1>1, <1>3, <1>4, <1>5 DEF MovesInv

\* A record that goes out or is tried again under a newer issued_at_ms.
LEMMA FlowIssues ==
    ASSUME MovesInv, NEW f \in Flow, ~FlowAt(f, "idle"), ratchet' \in Nat, ratchet <= ratchet',
           NEW p \in {"post", "repost", "fpost", "frepost"}, NEW u \in Relay,
           NEW i \in Nat, i <= ratchet',
           flow' = [flow EXCEPT ![f] = [@ EXCEPT !.issued = i, !.at = p, !.url = u]]
    PROVE  flow' \in [Flow -> FlowRecord] /\ FlowsInv'
<1>1. flow[f] \in FlowRecord /\ flow \in [Flow -> FlowRecord]  BY DEF MovesInv, HomingTyped
<1> DEFINE new == [flow[f] EXCEPT !.issued = i, !.at = p, !.url = u]
<1>2. /\ new \in FlowRecord /\ new.at = p /\ new.issued = i /\ new.url = u
      /\ new.from = flow[f].from /\ new.to = flow[f].to
  BY <1>1 DEF FlowRecord, FlowPoints
<1>3. flow' = [flow EXCEPT ![f] = new]  BY <1>1
<1>4. flow[f].from \in Relay /\ flow[f].to \in Relay  BY DEF MovesInv, FlowsInv
<1> HIDE DEF new
<1>5. new.issued <= ratchet' /\ new.from \in Relay /\ new.to \in Relay /\ new.url \in Relay
  BY <1>2, <1>4
<1> QED BY <1>2, <1>3, <1>5, FlowChanges, Zenon

\* next_issued_at_ms: the record is signed and on its way.
LEMMA MovesIssueStep == ASSUME MovesInv, NEW f \in Flow, Issue(f) PROVE MovesInv'
<1>0. HomingTyped /\ RecordsInv /\ FlowsInv /\ ratchet \in Nat  BY DEF MovesInv, HomingTyped
<1> DEFINE p == IF flow[f].at = "publish" THEN "post" ELSE "fpost"
           u == IF FlowAt(f, "publish") THEN primary ELSE flow[f].from
<1>1. /\ flow[f].at \in {"publish", "forward"} /\ ratchet' = ratchet + 1
      /\ UNCHANGED <<slot, linked, primary, advertised, up, present, card, sender, hints, mail, missed,
                     pair, fwd>>
  BY DEF Issue, homeRelayVars, senderVars, countVars
<1>2. ~FlowAt(f, "idle") /\ p \in {"post", "repost", "fpost", "frepost"}  BY <1>1 DEF FlowAt
<1>3. u \in Relay  BY <1>0, <1>2 DEF FlowsInv, HomingTyped
<1>4. ratchet' \in Nat /\ ratchet <= ratchet' /\ ratchet' <= ratchet'  BY <1>0, <1>1
<1>5. flow' = [flow EXCEPT ![f] = [@ EXCEPT !.issued = ratchet', !.at = p, !.url = u]]
  BY <1>0 DEF Issue, HomingTyped, FlowRecord
<1> HIDE DEF p, u
<1>6. flow' \in [Flow -> FlowRecord] /\ FlowsInv'
  BY <1>2, <1>3, <1>4, <1>5, FlowIssues
<1>7. \A r \in Relay : /\ pair'[r] <= ratchet' /\ fwd'[r].issued <= ratchet'
                       /\ fwd'[r].issued > 0 => fwd'[r].to \in Relay
  BY <1>0, <1>1, <1>4 DEF RecordsInv, HomingTyped, ForwardRecord
<1> QED BY <1>0, <1>1, <1>4, <1>6, <1>7, MovesRecords DEF HomingTyped

\* A record that a relay stores names a relay, and is not ahead of the ratchet.
LEMMA StoredRecords ==
    ASSUME MovesInv, NEW f \in Flow, Posting(f), Stored(f)
    PROVE  /\ pair' \in [Relay -> Nat] /\ fwd' \in [Relay -> ForwardRecord]
           /\ \A r \in Relay : /\ pair'[r] <= ratchet /\ fwd'[r].issued <= ratchet
                               /\ fwd'[r].issued > 0 => fwd'[r].to \in Relay
<1>1. /\ pair \in [Relay -> Nat] /\ fwd \in [Relay -> ForwardRecord] /\ ratchet \in Nat
      /\ flow[f] \in FlowRecord
      /\ \A r \in Relay : /\ pair[r] <= ratchet /\ fwd[r].issued <= ratchet
                          /\ fwd[r].issued > 0 => fwd[r].to \in Relay
  BY DEF MovesInv, HomingTyped, RecordsInv
<1>2. ~FlowAt(f, "idle")  BY DEF Posting, FlowAt
<1>3. flow[f].url \in Relay /\ flow[f].to \in Relay /\ flow[f].issued <= ratchet
  BY <1>2 DEF MovesInv, FlowsInv
<1>4. flow[f].issued \in Nat  BY <1>1 DEF FlowRecord
<1>5. CASE Pairing(f)
  <2>1. pair' = [pair EXCEPT ![flow[f].url] = flow[f].issued] /\ fwd' = fwd
    BY <1>5 DEF Stored
  <2> QED BY <1>1, <1>3, <1>4, <2>1
<1>6. CASE ~Pairing(f)
  <2> DEFINE new == [to |-> flow[f].to, issued |-> flow[f].issued]
  <2>1. fwd' = [fwd EXCEPT ![flow[f].url] = new] /\ pair' = pair
    BY <1>6 DEF Stored
  <2>2. new \in ForwardRecord /\ new.to = flow[f].to /\ new.issued = flow[f].issued
    BY <1>3, <1>4 DEF ForwardRecord
  <2> HIDE DEF new
  <2>3. /\ fwd' \in [Relay -> ForwardRecord] /\ fwd'[flow[f].url] = new
        /\ \A r \in Relay : r # flow[f].url => fwd'[r] = fwd[r]
    BY <1>1, <1>3, <2>1, <2>2
  <2>4. \A r \in Relay : /\ fwd'[r].issued <= ratchet
                         /\ fwd'[r].issued > 0 => fwd'[r].to \in Relay
    BY <1>1, <1>3, <2>2, <2>3
  <2> QED BY <1>1, <2>1, <2>3, <2>4
<1> QED BY <1>5, <1>6

\* The relay takes the record, or the flow gives up on it.
LEMMA MovesPostedStep ==
    ASSUME MovesInv, NEW f \in Flow, PostAccepted(f) \/ PostFails(f)
    PROVE  MovesInv'
<1>0. HomingTyped /\ RecordsInv /\ FlowsInv /\ ratchet \in Nat  BY DEF MovesInv, HomingTyped
<1>1. /\ Posting(f) /\ Step(f, Posted(f))
      /\ UNCHANGED <<slot, linked, primary, advertised, ratchet, up, present, card, sender, hints, mail>>
  BY DEF PostAccepted, PostFails, senderVars, homeRelayVars
<1>2. ~FlowAt(f, "idle") /\ flow[f].url \in Relay  BY <1>0, <1>1 DEF Posting, FlowAt, FlowsInv
<1>3. Posted(f) \in FlowPoints \ {"idle", "post", "repost", "fpost", "frepost"}
  BY DEF Posted, FlowPoints
<1>4. flow' \in [Flow -> FlowRecord] /\ FlowsInv'  BY <1>1, <1>2, <1>3, FlowMovesOn
<1>5. missed' \in SUBSET Relay
  <2>1. missed' \in {missed \ {flow[f].url}, missed \cup {flow[f].url}}  BY DEF PostAccepted, PostFails
  <2> QED BY <1>0, <1>2, <2>1 DEF HomingTyped
<1>6. /\ pair' \in [Relay -> Nat] /\ fwd' \in [Relay -> ForwardRecord]
      /\ \A r \in Relay : /\ pair'[r] <= ratchet /\ fwd'[r].issued <= ratchet
                          /\ fwd'[r].issued > 0 => fwd'[r].to \in Relay
  <2>1. CASE PostAccepted(f)
    <3>1. Stored(f)  BY <2>1 DEF PostAccepted
    <3> QED BY <1>1, <3>1, StoredRecords
  <2>2. CASE PostFails(f)
    <3>1. UNCHANGED <<pair, fwd>>  BY <2>2 DEF PostFails, homeRelayVars
    <3> QED BY <1>0, <3>1 DEF HomingTyped, RecordsInv
  <2> QED BY <2>1, <2>2
<1>7. ratchet' \in Nat /\ ratchet <= ratchet'  BY <1>0, <1>1
<1>8. \A r \in Relay : pair'[r] <= ratchet' /\ fwd'[r].issued <= ratchet'  BY <1>1, <1>6
<1> QED BY <1>1, <1>4, <1>5, <1>6, <1>7, <1>8, MovesRecords

\* 409: one more try, whether or not the first one was stored.
LEMMA MovesRepostStep ==
    ASSUME MovesInv, NEW f \in Flow, PostTooOld(f) \/ PostUnanswered(f)
    PROVE  MovesInv'
<1>0. HomingTyped /\ RecordsInv /\ FlowsInv /\ ratchet \in Nat /\ flow[f] \in FlowRecord
  BY DEF MovesInv, HomingTyped
<1>1. /\ flow[f].at \in {"post", "fpost"} /\ Posting(f)
      /\ UNCHANGED <<slot, linked, primary, advertised, up, present, card, sender, hints, mail, missed>>
  BY DEF PostTooOld, PostUnanswered, Posting, senderVars, homeRelayVars, countVars
<1>2. ~FlowAt(f, "idle") /\ flow[f].url \in Relay  BY <1>0, <1>1 DEF Posting, FlowAt, FlowsInv
<1>3. PICK seen \in Nat : Reissue(f, seen)
  <2>1. CASE PostTooOld(f)
    <3>1. Watermark(f) \in Nat  BY <1>0, <1>2 DEF Watermark, HomingTyped, ForwardRecord
    <3> QED BY <2>1, <3>1 DEF PostTooOld
  <2>2. CASE PostUnanswered(f)
    <3>1. flow[f].issued \in Nat  BY <1>0 DEF FlowRecord
    <3> QED BY <2>2, <3>1 DEF PostUnanswered
  <2> QED BY <2>1, <2>2
<1> DEFINE p == IF Pairing(f) THEN "repost" ELSE "frepost"
<1>4. ratchet' \in Nat /\ ratchet <= ratchet' /\ ratchet' <= ratchet'  BY <1>0, <1>3 DEF Reissue
<1>5. flow' = [flow EXCEPT ![f].issued = ratchet', ![f].at = p]  BY <1>3 DEF Reissue
<1>6. flow' = [flow EXCEPT ![f] = [@ EXCEPT !.issued = ratchet', !.at = p, !.url = flow[f].url]]
  BY <1>0, <1>5 DEF HomingTyped, FlowRecord
<1>7. p \in {"post", "repost", "fpost", "frepost"}  OBVIOUS
<1> HIDE DEF p
<1>8. flow' \in [Flow -> FlowRecord] /\ FlowsInv'
  BY <1>2, <1>4, <1>6, <1>7, FlowIssues
<1>9. /\ pair' \in [Relay -> Nat] /\ fwd' \in [Relay -> ForwardRecord]
      /\ \A r \in Relay : /\ pair'[r] <= ratchet /\ fwd'[r].issued <= ratchet
                          /\ fwd'[r].issued > 0 => fwd'[r].to \in Relay
  <2>1. CASE PostUnanswered(f)
    <3>1. Stored(f)  BY <2>1 DEF PostUnanswered
    <3> QED BY <1>1, <3>1, StoredRecords
  <2>2. CASE PostTooOld(f)
    <3>1. UNCHANGED <<pair, fwd>>  BY <2>2 DEF PostTooOld, homeRelayVars
    <3> QED BY <1>0, <3>1 DEF HomingTyped, RecordsInv
  <2> QED BY <2>1, <2>2
<1>10. \A r \in Relay : pair'[r] <= ratchet' /\ fwd'[r].issued <= ratchet'
  <2>1. \A r \in Relay : pair'[r] \in Nat /\ fwd'[r].issued \in Nat  BY <1>9 DEF ForwardRecord
  <2> QED BY <1>0, <1>4, <1>9, <2>1
<1>11. missed' \in SUBSET Relay  BY <1>0, <1>1 DEF HomingTyped
<1> QED BY <1>1, <1>4, <1>8, <1>9, <1>10, <1>11, MovesRecords

\* Links and sessions come and go.
LEMMA MovesLinksStep ==
    ASSUME MovesInv,
           LinkLost \/ Relink \/ (\E r \in Relay : SessionEnds(r) \/ RelayStops(r))
    PROVE  MovesInv'
<1>0. PlacesTyped /\ FlowsInv /\ flow \in [Flow -> FlowRecord]
  BY DEF MovesInv, HomingTyped, HomingTypeOK, PlacesTyped
<1>1. UNCHANGED <<slot, primary, advertised, ratchet, flow, missed, pair, fwd, card, sender, hints, mail>>
  BY DEF LinkLost, Relink, SessionEnds, RelayStops, ownerVars, homeRelayVars, senderVars, countVars
<1>2. PlacesTyped'
  <2>1. CASE LinkLost  BY <1>0, <1>1, <2>1 DEF LinkLost, PlacesTyped, homeRelayVars
  <2>2. CASE Relink  BY <1>0, <1>1, <2>2 DEF Relink, PlacesTyped
  <2>3. ASSUME NEW r \in Relay, SessionEnds(r) PROVE PlacesTyped'
    BY <1>0, <1>1, <2>3 DEF SessionEnds, PlacesTyped, ownerVars
  <2>4. ASSUME NEW r \in Relay, RelayStops(r) PROVE PlacesTyped'
    <3>1. linked' \in BOOLEAN  BY <2>4 DEF RelayStops
    <3>2. up' = [up EXCEPT ![r] = FALSE] /\ present' = present \ {r}  BY <2>4 DEF RelayStops
    <3> QED BY <1>0, <1>1, <3>1, <3>2 DEF PlacesTyped
  <2> QED BY <2>1, <2>2, <2>3, <2>4
<1>3. flow' \in [Flow -> FlowRecord] /\ FlowsInv'  BY <1>0, <1>1 DEF FlowsInv, FlowAt, Posting
<1> QED BY <1>1, <1>2, <1>3, MovesKept

\* A relay forgets a record.
LEMMA MovesForgetsStep ==
    ASSUME MovesInv, NEW r \in Relay, RelayRestarts(r) \/ RecordExpires(r)
    PROVE  MovesInv'
<1>0. HomingTyped /\ HomingTypeOK /\ RecordsInv /\ FlowsInv /\ SenderInv /\ 1 <= ratchet
  BY DEF MovesInv
<1>1. /\ missed' = missed \cup {r}
      /\ UNCHANGED <<slot, linked, primary, advertised, ratchet, flow, present, card, sender, hints, mail>>
  BY DEF RelayRestarts, RecordExpires, ownerVars, senderVars
<1>2. NoForward \in ForwardRecord /\ NoForward.issued = 0  BY DEF NoForward, ForwardRecord
<1>3. /\ pair' = pair \/ pair' = [pair EXCEPT ![r] = 0]
      /\ fwd' = fwd \/ fwd' = [fwd EXCEPT ![r] = NoForward]
      /\ up' = up \/ up' = [up EXCEPT ![r] = TRUE]
  BY DEF RelayRestarts, RecordExpires
<1>4. pair' \in [Relay -> Nat] /\ \A q \in Relay : pair'[q] <= ratchet
  BY <1>0, <1>3 DEF HomingTyped, RecordsInv
<1>5. /\ fwd' \in [Relay -> ForwardRecord]
      /\ \A q \in Relay : fwd'[q].issued <= ratchet /\ (fwd'[q].issued > 0 => fwd'[q].to \in Relay)
  BY <1>0, <1>2, <1>3 DEF HomingTyped, RecordsInv
<1>6. up' \in [Relay -> BOOLEAN]  BY <1>0, <1>3 DEF HomingTypeOK
<1>7. HomingTyped'  BY <1>0, <1>1, <1>4, <1>5 DEF HomingTyped
<1>8. HomingTypeOK'  BY <1>0, <1>1, <1>4, <1>5, <1>6 DEF HomingTypeOK, ForwardRecord
<1>9. RecordsInv'  BY <1>1, <1>4, <1>5 DEF RecordsInv
<1>10. FlowsInv' /\ SenderInv' /\ (1 <= ratchet)'
  BY <1>0, <1>1 DEF FlowsInv, SenderInv, FlowAt, Posting
<1> QED BY <1>7, <1>8, <1>9, <1>10 DEF MovesInv

\* The sender and what it is told.
LEMMA MovesSenderStep ==
    ASSUME MovesInv, Compose \/ Deposit \/ Resolve \/ OwnerTalks \/ (\E h \in hints : SenderHears(h))
    PROVE  MovesInv'
<1>0. HomingTyped /\ HomingTypeOK /\ RecordsInv /\ FlowsInv /\ SenderInv /\ 1 <= ratchet
  BY DEF MovesInv
<1>1. UNCHANGED <<slot, linked, primary, advertised, ratchet, flow, up, pair, fwd, present, missed>>
  BY DEF Compose, Deposit, Resolve, OwnerTalks, SenderHears, ownerVars, homeRelayVars, countVars
<1> DEFINE Senders == [at : {"idle", "first", "resolve", "second"}, url : Relay \cup {Nowhere}]
           Goal == /\ card' \in Hint /\ card'.epoch \in 1..ratchet
                   /\ sender' \in Senders
                   /\ sender'.at \in {"resolve", "second"} => sender'.url \in Relay
                   /\ hints' \in SUBSET Hint /\ \A h \in hints' : h.epoch \in 1..ratchet
                   /\ mail' \in Relay \cup {Nowhere}
<1>2. /\ card \in Hint /\ card.epoch \in 1..ratchet /\ card.relay \in Relay /\ ratchet \in Nat
      /\ sender \in Senders /\ (sender.at \in {"resolve", "second"} => sender.url \in Relay)
      /\ hints \in SUBSET Hint /\ (\A h \in hints : h.epoch \in 1..ratchet)
      /\ mail \in Relay \cup {Nowhere}
  BY <1>0 DEF HomingTyped, HomingTypeOK, SenderInv
<1>3. Goal
  <2>1. ASSUME Compose PROVE Goal
    <3>1. /\ UNCHANGED <<card, mail, hints>> /\ sender' = [sender EXCEPT !.at = "first"]
      BY <2>1 DEF Compose
    <3>2. sender' \in Senders /\ sender'.at = "first"  BY <1>2, <3>1
    <3> QED BY <1>2, <3>1, <3>2
  <2>2. ASSUME Deposit PROVE Goal
    <3> DEFINE r == IF sender.at = "first" THEN card.relay ELSE sender.url
    <3>1. r \in Relay /\ UNCHANGED <<card, hints>>  BY <1>2, <2>2 DEF Deposit
    <3>2. \/ mail' = r /\ sender' = sender
          \/ mail' = mail /\ sender' = [at |-> "resolve", url |-> r]
          \/ mail' = mail /\ sender' = [at |-> "first", url |-> Nowhere]
      BY <2>2 DEF Deposit
    <3> HIDE DEF r
    <3> QED BY <1>2, <3>1, <3>2
  <2>3. ASSUME Resolve PROVE Goal
    <3>1. UNCHANGED <<hints, mail>> /\ sender.url \in Relay  BY <1>2, <2>3 DEF Resolve
    <3> DEFINE to == fwd[sender.url].to
               issued == fwd[sender.url].issued
    <3>2. \/ /\ issued > card.epoch /\ issued > 0 /\ card' = [relay |-> to, epoch |-> issued]
             /\ sender' = [at |-> "second", url |-> to]
          \/ card' = card /\ sender' = [at |-> "first", url |-> Nowhere]
      BY <2>3 DEF Resolve, ApplyHint, Departed
    <3>3. issued \in Nat /\ issued <= ratchet /\ (issued > 0 => to \in Relay)
      BY <1>0, <3>1 DEF HomingTyped, ForwardRecord, RecordsInv
    <3> HIDE DEF to, issued
    <3>4. CASE card' = card /\ sender' = [at |-> "first", url |-> Nowhere]
      BY <1>2, <3>1, <3>4
    <3>5. CASE /\ issued > card.epoch /\ issued > 0 /\ card' = [relay |-> to, epoch |-> issued]
               /\ sender' = [at |-> "second", url |-> to]
      BY <1>2, <3>1, <3>3, <3>5 DEF Hint
    <3> QED BY <3>2, <3>4, <3>5
  <2>4. ASSUME OwnerTalks PROVE Goal
    <3> DEFINE new == [relay |-> primary, epoch |-> ratchet]
    <3>1. hints' = hints \cup {new} /\ UNCHANGED <<card, sender, mail>>  BY <2>4 DEF OwnerTalks
    <3>2. new \in Hint /\ new.epoch \in 1..ratchet  BY <1>0, <1>2 DEF Hint, HomingTyped
    <3> HIDE DEF new
    <3> QED BY <1>2, <3>1, <3>2
  <2>5. ASSUME NEW h \in hints, SenderHears(h) PROVE Goal
    <3>1. /\ hints' = hints \ {h} /\ UNCHANGED <<sender, mail>>
          /\ card' = card \/ card' = [relay |-> h.relay, epoch |-> h.epoch]
      BY <2>5 DEF SenderHears, ApplyHint
    <3>2. h \in Hint /\ h.epoch \in 1..ratchet  BY <1>2, <2>5
    <3> QED BY <1>2, <3>1, <3>2 DEF Hint
  <2> QED BY <2>1, <2>2, <2>3, <2>4, <2>5
<1> HIDE DEF Goal
<1>4. HomingTyped'  BY <1>0, <1>1, <1>3 DEF HomingTyped, Goal
<1>5. card'.relay \in Relay  BY <1>3 DEF Goal, Hint
<1>6. HomingTypeOK'  BY <1>0, <1>1, <1>3, <1>5 DEF HomingTypeOK, Goal
<1>7. FlowsInv' /\ RecordsInv'  BY <1>0, <1>1 DEF FlowsInv, RecordsInv, FlowAt, Posting
<1>8. SenderInv' /\ (1 <= ratchet)'  BY <1>0, <1>1, <1>3 DEF SenderInv, Goal
<1> QED BY <1>4, <1>6, <1>7, <1>8 DEF MovesInv

\* Every step keeps what the types rest on, however many flows overlap.
LEMMA MovesInvStep == ASSUME MovesInv, [HomingNext]_homingVars PROVE MovesInv'
<1>1. ASSUME NEW f \in Flow,
             \/ StartMigrate(f) \/ StartReconnect(f) \/ StartFailover(f)
             \/ Swap(f) \/ SwapFails(f) \/ Point(f) \/ Issue(f)
             \/ PostAccepted(f) \/ PostTooOld(f) \/ PostUnanswered(f) \/ PostFails(f) \/ Finish(f)
      PROVE  MovesInv'
  BY <1>1, MovesFlowStep, MovesIssueStep, MovesPostedStep, MovesRepostStep
<1>2. CASE LinkLost \/ Relink \/ (\E r \in Relay : SessionEnds(r) \/ RelayStops(r))
  BY <1>2, MovesLinksStep
<1>3. ASSUME NEW r \in Relay, RelayRestarts(r) \/ RecordExpires(r) PROVE MovesInv'
  BY <1>3, MovesForgetsStep
<1>4. CASE Compose \/ Deposit \/ Resolve \/ OwnerTalks \/ (\E h \in hints : SenderHears(h))
  BY <1>4, MovesSenderStep
<1>5. CASE UNCHANGED homingVars
  <2>1. UNCHANGED <<slot, linked, primary, advertised, ratchet, flow, up, pair, fwd, present, card,
                    sender, mail, hints, missed>>
    BY <1>5 DEF homingVars
  <2> QED BY <2>1 DEF MovesInv, HomingTyped, HomingTypeOK, FlowsInv, RecordsInv, SenderInv, FlowAt, Posting
<1> QED BY <1>1, <1>2, <1>3, <1>4, <1>5 DEF HomingNext

\* Every variable of the moves holds a value of its kind, and the sender's card is never
\* ahead of what the agent has issued, however many flows run at once.
THEOREM HomingTypeCorrect == HomingSpec => []HomingTypeOK
<1>1. HomingInit => MovesInv  BY MovesInvInit
<1>2. MovesInv /\ [HomingNext]_homingVars => MovesInv'  BY MovesInvStep
<1>3. MovesInv => HomingTypeOK  BY DEF MovesInv
<1> QED BY <1>1, <1>2, <1>3, PTL DEF HomingSpec

-----------------------------------------------------------------------------
(* The three views together: the specification the run sessions checks. *)

\* A step of the views is a step of one component, and the others stutter.
LEMMA SessionViewsStep ==
    ASSUME [Next]_vars
    PROVE  [ClientNext]_clientVars /\ [PresenceNext]_presenceVars /\ [HomingNext]_homingVars
<1>1. CASE ClientNext /\ UNCHANGED <<part, presenceVars, homingVars>>  BY <1>1, Zenon
<1>2. CASE PresenceNext /\ UNCHANGED <<part, clientVars, homingVars>>  BY <1>2, Zenon
<1>3. CASE HomingNext /\ UNCHANGED <<part, clientVars, presenceVars>>  BY <1>3, Zenon
<1>4. CASE UNCHANGED vars  BY <1>4, Zenon DEF vars
<1> QED BY <1>1, <1>2, <1>3, <1>4, Zenon DEF Next

\* A behaviour of the views is one of each component, so all that is proved of a component
\* holds of the specification the run checks.
THEOREM SessionViewsFaithful ==
    Spec => /\ ClientInit /\ [][ClientNext]_clientVars
            /\ PresenceInit /\ [][PresenceNext]_presenceVars
            /\ HomingInit /\ [][HomingNext]_homingVars
<1>1. Init => ClientInit /\ PresenceInit /\ HomingInit  BY DEF Init
<1>2. [Next]_vars => [ClientNext]_clientVars /\ [PresenceNext]_presenceVars /\ [HomingNext]_homingVars
  BY SessionViewsStep
<1> QED BY <1>1, <1>2, PTL DEF Spec

\* Every variable of a client, of its relay's registry and of the moves between relays holds a
\* value of its kind, and no session watches more agents than the cap, for any number of
\* sends, connections, relays and flows.
THEOREM SessionsTypeCorrect == Spec => []SessionsTypeOK
<1> DEFINE Inv == ClientInv /\ PresenceInv /\ MovesInv
<1>1. Init => Inv  BY ClientInvInit, PresenceInvInit, MovesInvInit DEF Init
<1>2. Inv /\ [Next]_vars => Inv'
  BY SessionViewsStep, ClientInvStep, PresenceInvStep, MovesInvStep, Zenon
<1>3. Inv => SessionsTypeOK
  <2>1. ClientInv => ClientTypeOK
    BY ClientTypes DEF ClientInv, ClientTyped, ClientTypeOK, Socket, Supervisor, RelaySide
  <2>2. PresenceInv => PresenceTypeOK  BY DEF PresenceInv
  <2>3. MovesInv => HomingTypeOK  BY DEF MovesInv
  <2> QED BY <2>1, <2>2, <2>3 DEF SessionsTypeOK
<1> QED BY <1>1, <1>2, <1>3, PTL DEF Spec
=============================================================================
