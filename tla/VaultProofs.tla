----------------------------- MODULE VaultProofs -----------------------------
(***************************************************************************)
(* What TLAPS proves of the conversation vault.                            *)
(*                                                                         *)
(* The cache over the file, for one conversation under any number of       *)
(* callers, jobs, deaths and failing file operations: a successful update  *)
(* is where the next read takes it from, or was written over in one of     *)
(* the three ways the code leaves open.                                    *)
(*                                                                         *)
(* The key the files are under, for any number of files, passes, clients   *)
(* and accidents: the identity is re-sealed last, so every conversation is *)
(* under its key or still to be visited, unless a pass was cut short or a  *)
(* client of an older key wrote behind it.                                 *)
(*                                                                         *)
(* The composition of these two with the relay's store and the inbound     *)
(* path: each of its behaviours is one of each part's specification.       *)
(***************************************************************************)
EXTENDS RecipientViews, TLAPS

Places == {"look", "open", "fill", "save", "publish", "mutate", "seal", "done"}
CallAnswers == {"none", "found", "absent", "ok", "error", "repeat"}

Succeeded(t) == answer[t] = "ok"

\* The map's entry without the mutation in progress: what MutateFails goes back to.
CacheEntry == IF lock = Free THEN cache ELSE call[lock].image

\* The call has put its update in the file, as far as anyone can tell.
Wrote(o) == CallAt(o, "publish") \/ (CallAt(o, "done") /\ answer[o] \in {"ok", "none"})
Written == {job[o].u : o \in {o \in Caller : Wrote(o)}}

-----------------------------------------------------------------------------
(* The inductive invariant of one conversation, in parts. *)

\* The mutation that holds the mutex added its own update, which was not there, to the entry.
HolderInv ==
    \A t \in Caller : CallAt(t, "seal") =>
        /\ cache = Holding(call[t].image.has \cup {job[t].u})
        /\ call[t].image.known /\ job[t].u \notin call[t].image.has

\* A call answers when it is done; only an install reaches save, and a mark does not read.
AnswerInv ==
    \A t \in Caller :
        /\ answer[t] # "none" => CallAt(t, "done")
        /\ call[t].at \in {"save", "publish"} => job[t].op = "install"
        /\ call[t].at \in {"look", "open", "fill"} => job[t].op # "mark"

\* What is absent is empty, what was read from the file was there, and no call succeeds
\* on a conversation that has no file.
PresentInv ==
    /\ ~disk.known => disk.has = {}
    /\ ~cache.known => cache.has = {}
    /\ \A t \in Caller : /\ CallAt(t, "fill") => call[t].image.known
                         /\ Succeeded(t) \/ CallAt(t, "publish") => disk.known

\* What a half-done save wrote is in the file.
SavedInv == \A t \in Caller : CallAt(t, "publish") => job[t].u \in disk.has \cup clobbered

\* A successful update is where the next read of the conversation will take it from: the
\* map's entry or, while the map has none, the file and the images of it on their way to
\* the map; a save under way found no file, so it comes before the first success.
KeptInv ==
    \A o \in Caller : Succeeded(o) =>
        /\ cache.known => job[o].u \in CacheEntry.has \cup clobbered
        /\ ~cache.known => \A t \in Caller :
              /\ CallAt(t, "fill") => job[o].u \in call[t].image.has \cup clobbered
              /\ call[t].at \notin {"save", "publish"}

\* Whatever the file, the entry and the images hold, a call wrote to the file.
OriginInv ==
    /\ disk.has \subseteq Written /\ CacheEntry.has \subseteq Written
    /\ \A t \in Caller : call[t].image.has \subseteq Written

CacheInv ==
    /\ CacheTypeOK /\ HolderInv /\ AnswerInv /\ PresentInv
    /\ SavedInv /\ UpdatesAreKept /\ KeptInv /\ OriginInv /\ RecordedOnce

-----------------------------------------------------------------------------
(* Moves of one call *)

Calls == [Caller -> [at : Places, image : Conversations]]

\* The types of the conversation's variables, in the form the steps below use them.
LEMMA CacheTypes ==
    ASSUME CacheTypeOK
    PROVE  /\ job \in [Caller -> Job] /\ call \in Calls /\ answer \in [Caller -> CallAnswers]
           /\ disk \in Conversations /\ cache \in Conversations /\ clobbered \in SUBSET Update
           /\ lock \in Caller \cup {Free} /\ Free \notin Caller
           /\ deaths \in Nat /\ failures \in Nat
           /\ \A t \in Caller : job[t].u \in Update /\ job[t].op \in Ops
<1>1. job \in [Caller -> Job]  BY CacheAssumption DEF CacheTypeOK
<1>2. \A t \in Caller : job[t].u \in Update /\ job[t].op \in Ops  BY <1>1 DEF Job
<1> QED BY <1>1, <1>2, CacheAssumption DEF CacheTypeOK, Calls, Places, CallAnswers, Free

\* The two shapes of a conversation: absent, or holding a set of updates.
LEMMA EmptyType ==
    /\ Absent \in Conversations /\ Absent.has = {} /\ ~Absent.known
    /\ \A us \in SUBSET Update : /\ Holding(us) \in Conversations
                                  /\ Holding(us).has = us /\ Holding(us).known
BY DEF Absent, Holding, Conversations

\* A call that moves changes its own place and image, and nobody else's.
LEMMA GoesEffect ==
    ASSUME call \in Calls, NEW t \in Caller, NEW p \in Places, NEW i \in Conversations, Goes(t, p, i)
    PROVE  /\ call' \in Calls /\ call'[t].at = p /\ call'[t].image = i
           /\ \A o \in Caller \ {t} : call'[o] = call[o]
           /\ \A o \in Caller : o # t => call'[o] = call[o]
<1>1. [at |-> p, image |-> i] \in [at : Places, image : Conversations]  OBVIOUS
<1> QED BY <1>1 DEF Goes, Calls

\* A call that only looks: nothing changes but its own place, and it does not succeed.
LEMMA QuietStep ==
    ASSUME CacheInv, NEW t \in Caller, NEW p \in Places \ {"publish", "seal"},
           NEW i \in Conversations, Goes(t, p, i),
           UNCHANGED <<job, disk, cache, lock, clobbered, deaths>>, failures' \in 0..MaxFailures,
           call[t].at \notin {"publish", "seal", "done"},
           i = Absent \/ i = disk,
           p = "fill" => disk.known /\ i = disk,
           p = "save" => ~disk.known /\ job[t].op = "install",
           p \in {"look", "open", "fill"} => job[t].op # "mark",
           answer' \in [Caller -> CallAnswers], \A o \in Caller : o # t => answer'[o] = answer[o],
           answer'[t] # "ok", answer'[t] # "none" => p = "done"
    PROVE  CacheInv'
<1>0. CacheTypeOK /\ HolderInv /\ AnswerInv /\ PresentInv /\ SavedInv /\ UpdatesAreKept /\ KeptInv
      /\ OriginInv /\ RecordedOnce
  BY DEF CacheInv
<1>1. /\ call' \in Calls /\ call'[t].at = p /\ call'[t].image = i
      /\ \A o \in Caller : o # t => call'[o] = call[o]
  BY <1>0, CacheTypes, GoesEffect
<1>2. \A o \in Caller : CallAt(o, "seal")' <=> CallAt(o, "seal")
  BY <1>1 DEF CallAt
<1>3. CacheTypeOK'
  BY <1>0, <1>1, <1>2 DEF CacheTypeOK, Calls, Places, CallAnswers
<1>4. HolderInv'
  BY <1>0, <1>1, <1>2 DEF HolderInv, CallAt
<1>5. AnswerInv'
  BY <1>0, <1>1 DEF AnswerInv, CallAt
<1>6. PresentInv'
  BY <1>0, <1>1 DEF PresentInv, CallAt, Succeeded
<1>7. SavedInv' /\ UpdatesAreKept' /\ RecordedOnce'
  BY <1>0, <1>1 DEF SavedInv, UpdatesAreKept, RecordedOnce, CallAt
<1>8. CacheEntry' = CacheEntry
  BY <1>0, <1>1, <1>2 DEF CacheEntry, CacheTypeOK, CallAt, Free
<1>9. KeptInv'
  BY <1>0, <1>1, <1>8, EmptyType DEF KeptInv, UpdatesAreKept, PresentInv, CallAt, Succeeded
<1>10. Written \subseteq Written'
  BY <1>0, <1>1 DEF Written, Wrote, CallAt
<1>11. OriginInv'
  BY <1>0, <1>1, <1>8, <1>10, EmptyType DEF OriginInv
<1> QED BY <1>3, <1>4, <1>5, <1>6, <1>7, <1>9, <1>11 DEF CacheInv

\* What Found and NotFound do.
LEMMA FoundEffect ==
    ASSUME CacheTypeOK, NEW t \in Caller, Found(t)
    PROVE  \E p \in {"mutate", "done"} :
              /\ Goes(t, p, Absent)
              /\ answer' \in [Caller -> CallAnswers] /\ \A o \in Caller : o # t => answer'[o] = answer[o]
              /\ p = "mutate" => answer' = answer
              /\ p = "done" => answer'[t] = "found"
<1>1. answer \in [Caller -> CallAnswers]  BY CacheTypes
<1>2. CASE job[t].op \in {"read", "scan"}
  <2>1. Goes(t, "done", Absent) /\ answer' = [answer EXCEPT ![t] = "found"]
    BY <1>2 DEF Found, Return, Move
  <2> QED BY <1>1, <2>1 DEF CallAnswers
<1>3. CASE job[t].op \notin {"read", "scan"}
  <2>1. Goes(t, "mutate", Absent) /\ answer' = answer
    BY <1>3 DEF Found, Move
  <2> QED BY <1>1, <2>1
<1> QED BY <1>2, <1>3

\* What each operation makes of a conversation that is in neither place.
LEMMA NotFoundEffect ==
    ASSUME CacheTypeOK, NEW t \in Caller, NotFound(t), job[t].op # "mark"
    PROVE  \E p \in {"mutate", "save", "done"} :
              /\ Goes(t, p, Absent)
              /\ answer' \in [Caller -> CallAnswers] /\ \A o \in Caller : o # t => answer'[o] = answer[o]
              /\ p # "done" => answer' = answer
              /\ p = "done" => answer'[t] = "absent"
              /\ p = "save" => job[t].op = "install"
<1>1. answer \in [Caller -> CallAnswers] /\ job[t].op \in Ops  BY CacheTypes
<1>2. CASE job[t].op \in {"read", "scan", "receive"}
  <2>1. Goes(t, "done", Absent) /\ answer' = [answer EXCEPT ![t] = "absent"]
    BY <1>2 DEF NotFound, Return, Move
  <2> QED BY <1>1, <2>1 DEF CallAnswers
<1>3. CASE job[t].op = "create"
  <2>1. Goes(t, "mutate", Absent) /\ answer' = answer
    BY <1>3 DEF NotFound, Move
  <2> QED BY <1>1, <2>1
<1>4. CASE job[t].op = "install"
  <2>1. Goes(t, "save", Absent) /\ answer' = answer
    BY <1>4 DEF NotFound, Move
  <2> QED BY <1>1, <1>4, <2>1
<1> QED BY <1>1, <1>2, <1>3, <1>4 DEF Ops

\* What Return does.
LEMMA ReturnEffect ==
    ASSUME CacheTypeOK, NEW t \in Caller, NEW r \in CallAnswers, Return(t, r)
    PROVE  /\ Goes(t, "done", Absent)
           /\ answer' \in [Caller -> CallAnswers] /\ \A o \in Caller : o # t => answer'[o] = answer[o]
           /\ answer'[t] = r
<1>1. answer \in [Caller -> CallAnswers]  BY CacheTypes
<1> QED BY <1>1 DEF Return, Move

-----------------------------------------------------------------------------
(* One lemma per action *)

LEMMA LookStep == ASSUME CacheInv, NEW t \in Caller, Look(t) PROVE CacheInv'
<1>0. CacheTypeOK /\ AnswerInv  BY DEF CacheInv
<1>1. answer \in [Caller -> CallAnswers] /\ failures \in 0..MaxFailures
  BY <1>0, CacheTypes DEF CacheTypeOK
<1>2. answer[t] = "none" /\ job[t].op # "mark"  BY <1>0 DEF AnswerInv, Look, CallAt
<1>3. CASE cache.known /\ job[t].op # "scan"
  <2>1. Found(t)  BY <1>3 DEF Look
  <2> QED BY <1>0, <1>1, <1>2, <2>1, FoundEffect, QuietStep, EmptyType DEF Look, CallAt, Places
<1>4. CASE ~(cache.known /\ job[t].op # "scan")
  <2>1. Goes(t, "open", Absent) /\ answer' = answer  BY <1>4 DEF Look, Move
  <2> QED BY <1>0, <1>1, <1>2, <2>1, QuietStep, EmptyType DEF Look, CallAt, Places
<1> QED BY <1>3, <1>4

\* get and find_dm_with read the file, after they looked in the map.
LEMMA OpenStep == ASSUME CacheInv, NEW t \in Caller, Open(t) PROVE CacheInv'
<1>0. CacheTypeOK /\ AnswerInv  BY DEF CacheInv
<1>1. /\ answer \in [Caller -> CallAnswers] /\ failures \in 0..MaxFailures /\ disk \in Conversations
      /\ MaxFailures \in Nat
  BY <1>0, CacheTypes, CacheAssumption DEF CacheTypeOK
<1>2. answer[t] = "none" /\ job[t].op # "mark"  BY <1>0 DEF AnswerInv, Open, CallAt
<1>3. CASE disk.known /\ Goes(t, "fill", disk) /\ UNCHANGED <<answer, failures>>
  BY <1>0, <1>1, <1>2, <1>3, QuietStep DEF Open, CallAt, Places
<1>4. CASE ~disk.known /\ UNCHANGED failures
  <2>1. CASE Found(t)
    BY <1>0, <1>1, <1>2, <1>4, <2>1, FoundEffect, QuietStep, EmptyType DEF Open, CallAt, Places
  <2>2. CASE NotFound(t)
    BY <1>0, <1>1, <1>2, <1>4, <2>2, NotFoundEffect, QuietStep, EmptyType DEF Open, CallAt, Places
  <2> QED BY <1>4, <2>1, <2>2 DEF Open
<1>5. CASE disk.known /\ Fails /\ Return(t, "error")
  <2>1. failures' \in 0..MaxFailures  BY <1>1, <1>5 DEF Fails
  <2> QED BY <1>0, <1>1, <1>2, <1>5, <2>1, ReturnEffect, QuietStep, EmptyType
             DEF Open, CallAt, Places, CallAnswers
<1> QED BY <1>3, <1>4, <1>5 DEF Open

\* An image put into the map over a known entry is a new entry or a loss on record.
LEMMA DiscardedEffect ==
    ASSUME CacheTypeOK, NEW old \in Conversations, NEW new \in Conversations
    PROVE  /\ Discarded(old, new) \in SUBSET Update /\ clobbered \subseteq Discarded(old, new)
           /\ old.known => old.has \subseteq new.has \cup Discarded(old, new)
           /\ ~old.known => Discarded(old, new) = clobbered
BY CacheTypes DEF Discarded, Conversations

\* get puts the image it read into the map; find_dm_with only fills a gap.
LEMMA FillStep == ASSUME CacheInv, NEW t \in Caller, Fill(t) PROVE CacheInv'
<1>0. CacheTypeOK /\ HolderInv /\ AnswerInv /\ PresentInv /\ SavedInv /\ UpdatesAreKept /\ KeptInv
      /\ OriginInv /\ RecordedOnce
  BY DEF CacheInv
<1>1. PICK p \in {"mutate", "done"} :
              /\ Goes(t, p, Absent)
              /\ answer' \in [Caller -> CallAnswers] /\ \A o \in Caller : o # t => answer'[o] = answer[o]
              /\ p = "mutate" => answer' = answer
              /\ p = "done" => answer'[t] = "found"
  BY <1>0, FoundEffect DEF Fill
<1>2. /\ call' \in Calls /\ call'[t].at = p /\ call'[t].image = Absent
      /\ \A o \in Caller : o # t => call'[o] = call[o]
  BY <1>0, <1>1, CacheTypes, GoesEffect, EmptyType DEF Places
<1>3. call[t].at = "fill" /\ lock = Free /\ answer[t] = "none" /\ call[t].image.known
  BY <1>0 DEF Fill, CallAt, AnswerInv, PresentInv
<1>4. /\ UNCHANGED <<job, disk, lock, deaths, failures>>
      /\ cache' \in {cache, call[t].image} /\ (cache' = cache => cache.known)
      /\ cache' \in Conversations /\ cache'.known /\ clobbered' = Discarded(cache, cache')
  BY <1>0, <1>3, CacheTypes DEF Fill, Calls
<1>5. /\ clobbered' \in SUBSET Update /\ clobbered \subseteq clobbered'
      /\ cache.known => cache.has \subseteq cache'.has \cup clobbered'
      /\ ~cache.known => cache' = call[t].image /\ clobbered' = clobbered
  BY <1>0, <1>4, CacheTypes, DiscardedEffect
<1>6. \A o \in Caller : ~CallAt(o, "seal") /\ ~CallAt(o, "seal")'
  BY <1>0, <1>2, <1>3, CacheTypes DEF CallAt, CacheTypeOK
<1>7. CacheTypeOK'
  BY <1>0, <1>1, <1>2, <1>3, <1>4, <1>5, <1>6, CacheTypes DEF CacheTypeOK, Calls, Places, CallAnswers
<1>8. HolderInv' /\ AnswerInv' /\ PresentInv'
  BY <1>0, <1>1, <1>2, <1>3, <1>4, <1>6 DEF HolderInv, AnswerInv, PresentInv, CallAt, Succeeded
<1>9. SavedInv' /\ UpdatesAreKept' /\ RecordedOnce'
  BY <1>0, <1>1, <1>2, <1>3, <1>4, <1>5 DEF SavedInv, UpdatesAreKept, RecordedOnce, CallAt
<1>10. CacheEntry = cache /\ CacheEntry' = cache'
  BY <1>3, <1>4 DEF CacheEntry
<1>11. KeptInv'
  <2> SUFFICES ASSUME NEW o \in Caller, Succeeded(o)' PROVE job[o].u \in cache'.has \cup clobbered'
    BY <1>4, <1>10 DEF KeptInv
  <2>1. Succeeded(o)  BY <1>1, <1>3 DEF Succeeded
  <2> QED BY <1>0, <1>3, <1>5, <1>10, <2>1 DEF KeptInv, CallAt
<1>12. Written \subseteq Written'
  BY <1>0, <1>1, <1>2, <1>3, <1>4 DEF Written, Wrote, CallAt
<1>13. OriginInv'
  BY <1>0, <1>2, <1>4, <1>10, <1>12, EmptyType DEF OriginInv
<1> QED BY <1>7, <1>8, <1>9, <1>11, <1>13 DEF CacheInv

\* save writes the file: its first half.
LEMMA SaveSealsStep == ASSUME CacheInv, NEW t \in Caller, SaveSeals(t) PROVE CacheInv'
<1>0. CacheTypeOK /\ HolderInv /\ AnswerInv /\ PresentInv /\ SavedInv /\ UpdatesAreKept /\ KeptInv
      /\ OriginInv /\ RecordedOnce
  BY DEF CacheInv
<1>1. call[t].at = "save" /\ answer[t] = "none" /\ job[t].op = "install"
  BY <1>0 DEF SaveSeals, CallAt, AnswerInv
<1>2. CASE Fails /\ Return(t, "error") /\ UNCHANGED <<disk, clobbered>>
  <2>1. failures' \in 0..MaxFailures  BY <1>0, <1>2, CacheAssumption DEF Fails, CacheTypeOK
  <2> QED BY <1>0, <1>1, <1>2, <2>1, ReturnEffect, QuietStep, EmptyType
             DEF SaveSeals, CallAt, Places, CallAnswers
<1>3. CASE /\ disk' = Holding({job[t].u}) /\ clobbered' = Discarded(disk, disk')
           /\ Move(t, "publish") /\ UNCHANGED <<answer, failures>>
  <2>1. /\ call' \in Calls /\ call'[t].at = "publish" /\ call'[t].image = Absent
        /\ \A o \in Caller : o # t => call'[o] = call[o]
    BY <1>0, <1>3, CacheTypes, GoesEffect, EmptyType DEF Move, Places
  <2>2. /\ UNCHANGED <<job, cache, lock, deaths>>
        /\ disk' \in Conversations /\ disk'.known /\ disk'.has = {job[t].u}
        /\ clobbered' = Discarded(disk, disk') /\ answer' = answer /\ failures' = failures
    BY <1>0, <1>3, CacheTypes, EmptyType DEF SaveSeals
  <2>3. /\ clobbered' \in SUBSET Update /\ clobbered \subseteq clobbered'
        /\ disk.known => disk.has \subseteq disk'.has \cup clobbered'
    BY <1>0, <2>2, CacheTypes, DiscardedEffect
  <2>4. \A o \in Caller : CallAt(o, "seal")' <=> CallAt(o, "seal")
    BY <1>1, <2>1 DEF CallAt
  <2>5. CacheTypeOK'
    BY <1>0, <1>3, <2>1, <2>2, <2>3, <2>4, CacheTypes DEF CacheTypeOK, Calls, Places, CallAnswers
  <2>6. HolderInv' /\ AnswerInv' /\ PresentInv'
    <3>1. HolderInv'  BY <1>0, <2>1, <2>2, <2>4 DEF HolderInv, CallAt
    <3>2. AnswerInv'  BY <1>0, <1>1, <2>1, <2>2 DEF AnswerInv, CallAt
    <3>3. PresentInv'  BY <1>0, <2>1, <2>2 DEF PresentInv, CallAt, Succeeded
    <3> QED BY <3>1, <3>2, <3>3
  <2>7. SavedInv' /\ UpdatesAreKept' /\ RecordedOnce'
    BY <1>0, <1>1, <2>1, <2>2, <2>3
       DEF SavedInv, UpdatesAreKept, RecordedOnce, PresentInv, CallAt, Succeeded
  <2>8. CacheEntry' = CacheEntry
    BY <1>0, <1>1, <2>1, <2>2, CacheTypes DEF CacheEntry, CacheTypeOK, CallAt
  <2>9. KeptInv'
    BY <1>0, <1>1, <2>1, <2>2, <2>3, <2>8 DEF KeptInv, CallAt, Succeeded
  <2>10. Written \subseteq Written' /\ job[t].u \in Written'
    BY <1>0, <1>1, <1>3, <2>1, <2>2 DEF Written, Wrote, CallAt
  <2>11. OriginInv'
    BY <1>0, <2>1, <2>2, <2>8, <2>10, EmptyType DEF OriginInv
  <2> QED BY <2>5, <2>6, <2>7, <2>9, <2>11 DEF CacheInv
<1> QED BY <1>2, <1>3 DEF SaveSeals

\* save publishes to the map: its second half.
LEMMA SavePublishesStep == ASSUME CacheInv, NEW t \in Caller, SavePublishes(t) PROVE CacheInv'
<1>0. CacheTypeOK /\ HolderInv /\ AnswerInv /\ PresentInv /\ SavedInv /\ UpdatesAreKept /\ KeptInv
      /\ OriginInv /\ RecordedOnce
  BY DEF CacheInv
<1>1. call[t].at = "publish" /\ lock = Free /\ answer[t] = "none" /\ job[t].op = "install"
  BY <1>0 DEF SavePublishes, CallAt, AnswerInv
<1>2. /\ Goes(t, "done", Absent)
      /\ answer' \in [Caller -> CallAnswers] /\ \A o \in Caller : o # t => answer'[o] = answer[o]
      /\ answer'[t] = "ok"
  BY <1>0, ReturnEffect DEF SavePublishes, CallAnswers
<1>3. /\ call' \in Calls /\ call'[t].at = "done" /\ call'[t].image = Absent
      /\ \A o \in Caller : o # t => call'[o] = call[o]
  BY <1>0, <1>2, CacheTypes, GoesEffect, EmptyType DEF Places
<1>4. /\ UNCHANGED <<job, disk, lock, deaths, failures>>
      /\ cache' \in Conversations /\ cache'.known /\ cache'.has = {job[t].u}
      /\ clobbered' = Discarded(cache, cache')
  BY <1>0, CacheTypes, EmptyType DEF SavePublishes
<1>5. /\ clobbered' \in SUBSET Update /\ clobbered \subseteq clobbered'
      /\ cache.known => cache.has \subseteq cache'.has \cup clobbered'
  BY <1>0, <1>4, CacheTypes, DiscardedEffect
<1>6. \A o \in Caller : ~CallAt(o, "seal") /\ ~CallAt(o, "seal")'
  BY <1>0, <1>1, <1>3, CacheTypes DEF CallAt, CacheTypeOK
<1>7. CacheTypeOK'
  BY <1>0, <1>1, <1>2, <1>3, <1>4, <1>5, <1>6, CacheTypes DEF CacheTypeOK, Calls, Places, CallAnswers
<1>8. disk.known
  BY <1>0, <1>1 DEF PresentInv, CallAt
<1>9. HolderInv' /\ AnswerInv' /\ PresentInv'
  BY <1>0, <1>1, <1>2, <1>3, <1>4, <1>6, <1>8 DEF HolderInv, AnswerInv, PresentInv, CallAt, Succeeded
<1>10. SavedInv' /\ UpdatesAreKept' /\ RecordedOnce'
  BY <1>0, <1>1, <1>2, <1>3, <1>4, <1>5 DEF SavedInv, UpdatesAreKept, RecordedOnce, CallAt
<1>11. CacheEntry = cache /\ CacheEntry' = cache'
  BY <1>1, <1>4 DEF CacheEntry
<1>12. KeptInv'
  <2> SUFFICES ASSUME NEW o \in Caller, Succeeded(o)' PROVE job[o].u \in cache'.has \cup clobbered'
    BY <1>4, <1>11 DEF KeptInv
  <2>1. CASE o = t  BY <2>1, <1>4
  <2>2. CASE o # t
    <3>1. Succeeded(o)  BY <1>2, <2>2 DEF Succeeded
    <3> QED BY <1>0, <1>1, <1>5, <1>11, <3>1 DEF KeptInv
  <2> QED BY <2>1, <2>2
<1>13. Written \subseteq Written' /\ job[t].u \in Written'
  BY <1>0, <1>1, <1>2, <1>3, <1>4 DEF Written, Wrote, CallAt
<1>14. OriginInv'
  BY <1>0, <1>3, <1>4, <1>11, <1>13, EmptyType DEF OriginInv
<1> QED BY <1>7, <1>9, <1>10, <1>12, <1>14 DEF CacheInv

\* The entry a mutation starts from: every successful update is in it, or is a loss on
\* record, and a call wrote whatever is in it.
LEMMA HydratedEffect ==
    ASSUME CacheInv, NEW t \in Caller, lock = Free
    PROVE  /\ Hydrated(t) \in Conversations /\ Hydrated(t).has \subseteq Written
           /\ \A o \in Caller : Succeeded(o) => job[o].u \in Hydrated(t).has \cup clobbered
<1>0. CacheTypeOK /\ PresentInv /\ UpdatesAreKept /\ KeptInv /\ OriginInv
  BY DEF CacheInv
<1>1. CacheEntry = cache  BY DEF CacheEntry
<1>2. CASE cache.known
  BY <1>0, <1>1, <1>2, CacheTypes DEF Hydrated, KeptInv, OriginInv
<1>3. CASE ~cache.known /\ disk.known
  BY <1>0, <1>3, CacheTypes DEF Hydrated, UpdatesAreKept, OriginInv, Succeeded
<1>4. CASE ~cache.known /\ ~disk.known
  <2>1. Hydrated(t) \in {Holding({}), Absent}  BY <1>4 DEF Hydrated
  <2>2. Hydrated(t) \in Conversations /\ Hydrated(t).has = {}  BY <2>1, EmptyType
  <2> QED BY <1>0, <1>4, <2>2 DEF UpdatesAreKept, PresentInv, Succeeded
<1> QED BY <1>2, <1>3, <1>4

\* mutate_in_place_impl takes the mutex and changes the map's entry.
LEMMA MutateBeginsStep == ASSUME CacheInv, NEW t \in Caller, MutateBegins(t) PROVE CacheInv'
<1>0. CacheTypeOK /\ HolderInv /\ AnswerInv /\ PresentInv /\ SavedInv /\ UpdatesAreKept /\ KeptInv
      /\ OriginInv /\ RecordedOnce
  BY DEF CacheInv
<1>1. call[t].at = "mutate" /\ lock = Free /\ answer[t] = "none"
  BY <1>0 DEF MutateBegins, CallAt, AnswerInv
<1>2. UNCHANGED <<job, disk, clobbered, deaths>>
  BY DEF MutateBegins
<1>3. /\ Hydrated(t) \in Conversations /\ Hydrated(t).has \subseteq Written
      /\ \A o \in Caller : Succeeded(o) => job[o].u \in Hydrated(t).has \cup clobbered
  BY <1>1, HydratedEffect
<1>4. \A o \in Caller : ~CallAt(o, "seal")
  BY <1>0, <1>1, CacheTypes DEF CallAt, CacheTypeOK
<1>5. CASE failures' \in 0..MaxFailures /\ Return(t, "error") /\ UNCHANGED <<cache, lock>>
  BY <1>0, <1>1, <1>2, <1>5, ReturnEffect, QuietStep, EmptyType DEF CallAt, Places, CallAnswers
<1>6. CASE /\ UNCHANGED failures /\ Hydrated(t).known
           /\ Return(t, "repeat") /\ cache' = Hydrated(t) /\ UNCHANGED lock
  <2>1. /\ Goes(t, "done", Absent)
        /\ answer' \in [Caller -> CallAnswers] /\ \A o \in Caller : o # t => answer'[o] = answer[o]
        /\ answer'[t] = "repeat"
    BY <1>0, <1>6, ReturnEffect DEF CallAnswers
  <2>2. /\ call' \in Calls /\ call'[t].at = "done" /\ call'[t].image = Absent
        /\ \A o \in Caller : o # t => call'[o] = call[o]
    BY <1>0, <2>1, CacheTypes, GoesEffect, EmptyType DEF Places
  <2>3. CacheTypeOK'
    BY <1>0, <1>1, <1>2, <1>3, <1>4, <1>6, <2>1, <2>2, CacheTypes
       DEF CacheTypeOK, Calls, Places, CallAnswers, CallAt
  <2>4. HolderInv'  BY <1>4, <2>2 DEF HolderInv, CallAt
  <2>5. AnswerInv'  BY <1>0, <1>2, <2>1, <2>2 DEF AnswerInv, CallAt
  <2>6. PresentInv'
    BY <1>0, <1>1, <1>2, <1>6, <2>1, <2>2 DEF PresentInv, CallAt, Succeeded
  <2>7. SavedInv' /\ UpdatesAreKept' /\ RecordedOnce'
    BY <1>0, <1>1, <1>2, <2>1, <2>2 DEF SavedInv, UpdatesAreKept, RecordedOnce, CallAt
  <2>8. CacheEntry' = Hydrated(t)
    BY <1>1, <1>6 DEF CacheEntry
  <2>9. KeptInv'
    BY <1>1, <1>2, <1>3, <1>6, <2>1, <2>8 DEF KeptInv, Succeeded
  <2>10. Written \subseteq Written'
    BY <1>1, <1>2, <2>1, <2>2 DEF Written, Wrote, CallAt
  <2>11. OriginInv'
    BY <1>0, <1>2, <1>3, <2>2, <2>8, <2>10, EmptyType DEF OriginInv
  <2> QED BY <2>3, <2>4, <2>5, <2>6, <2>7, <2>9, <2>11 DEF CacheInv
<1>7. CASE /\ UNCHANGED <<failures, answer>> /\ Hydrated(t).known /\ job[t].u \notin Hydrated(t).has
           /\ cache' = Holding(Hydrated(t).has \cup {job[t].u}) /\ lock' = t
           /\ Goes(t, "seal", Hydrated(t))
  <2>1. /\ call' \in Calls /\ call'[t].at = "seal" /\ call'[t].image = Hydrated(t)
        /\ \A o \in Caller : o # t => call'[o] = call[o]
    BY <1>0, <1>3, <1>7, CacheTypes, GoesEffect DEF Places
  <2>2. cache' \in Conversations /\ cache'.known
    <3>1. Hydrated(t).has \cup {job[t].u} \in SUBSET Update
      BY <1>0, <1>3, CacheTypes DEF Conversations
    <3> QED BY <1>7, <3>1, EmptyType
  <2>3. CacheTypeOK'
    BY <1>0, <1>1, <1>2, <1>4, <1>7, <2>1, <2>2, CacheTypes
       DEF CacheTypeOK, Calls, Places, CallAnswers, CallAt
  <2>4. HolderInv'  BY <1>2, <1>4, <1>7, <2>1 DEF HolderInv, CallAt
  <2>5. AnswerInv'  BY <1>0, <1>1, <1>2, <1>7, <2>1 DEF AnswerInv, CallAt
  <2>6. PresentInv'
    BY <1>0, <1>1, <1>2, <1>7, <2>1, <2>2 DEF PresentInv, CallAt, Succeeded
  <2>7. SavedInv' /\ UpdatesAreKept' /\ RecordedOnce'
    BY <1>0, <1>1, <1>2, <1>7, <2>1 DEF SavedInv, UpdatesAreKept, RecordedOnce, CallAt
  <2>8. CacheEntry' = Hydrated(t)
    BY <1>0, <1>7, <2>1, CacheTypes DEF CacheEntry
  <2>9. KeptInv'
    BY <1>1, <1>2, <1>3, <1>7, <2>2, <2>8 DEF KeptInv, Succeeded
  <2>10. Written \subseteq Written'
    BY <1>1, <1>2, <1>7, <2>1 DEF Written, Wrote, CallAt
  <2>11. OriginInv'
    BY <1>0, <1>2, <1>3, <2>1, <2>8, <2>10 DEF OriginInv
  <2> QED BY <2>3, <2>4, <2>5, <2>6, <2>7, <2>9, <2>11 DEF CacheInv
<1>8. CASE ~cache.known /\ disk.known /\ Fails /\ Return(t, "error") /\ UNCHANGED <<cache, lock>>
  <2>1. failures' \in 0..MaxFailures  BY <1>0, <1>8, CacheAssumption DEF Fails, CacheTypeOK
  <2> QED BY <1>5, <1>8, <2>1
<1>9. CASE UNCHANGED failures /\ ~Hydrated(t).known /\ Return(t, "error") /\ UNCHANGED <<cache, lock>>
  BY <1>0, <1>5, <1>9 DEF CacheTypeOK
<1> QED BY <1>6, <1>7, <1>8, <1>9 DEF MutateBegins

\* mutate_in_place_impl writes the file and lets the mutex go.
LEMMA MutateSealsStep == ASSUME CacheInv, NEW t \in Caller, MutateSeals(t) PROVE CacheInv'
<1>0. CacheTypeOK /\ HolderInv /\ AnswerInv /\ PresentInv /\ SavedInv /\ UpdatesAreKept /\ KeptInv
      /\ OriginInv /\ RecordedOnce
  BY DEF CacheInv
<1>1. call[t].at = "seal" /\ lock = t /\ answer[t] = "none"
  BY <1>0 DEF MutateSeals, Sealed, CallAt, AnswerInv, CacheTypeOK
<1>2. /\ cache = Holding(call[t].image.has \cup {job[t].u}) /\ job[t].u \notin call[t].image.has
      /\ CacheEntry = call[t].image
  BY <1>0, <1>1, CacheTypes DEF HolderInv, CallAt, CacheEntry
<1>3. /\ UNCHANGED <<job, cache, deaths, failures>> /\ lock' = Free /\ disk' = cache
      /\ clobbered' = clobbered \cup (HalfSaved \cap (disk.has \ disk'.has))
  BY <1>2 DEF MutateSeals, Sealed
<1>4. /\ cache.known /\ cache.has = call[t].image.has \cup {job[t].u}
      /\ cache \in Conversations /\ clobbered \subseteq clobbered' /\ clobbered' \in SUBSET Update
  <2>1. call[t].image.has \cup {job[t].u} \in SUBSET Update
    BY <1>0, CacheTypes DEF Conversations, Calls
  <2>2. cache.known /\ cache.has = call[t].image.has \cup {job[t].u} /\ cache \in Conversations
    BY <1>2, <2>1, EmptyType
  <2> QED BY <1>0, <1>3, <2>2, CacheTypes DEF Conversations
<1>5. /\ Goes(t, "done", Absent)
      /\ answer' \in [Caller -> CallAnswers] /\ \A o \in Caller : o # t => answer'[o] = answer[o]
      /\ answer'[t] = "ok"
  BY <1>0, ReturnEffect DEF MutateSeals, Sealed, CallAnswers
<1>6. /\ call' \in Calls /\ call'[t].at = "done" /\ call'[t].image = Absent
      /\ \A o \in Caller : o # t => call'[o] = call[o]
  BY <1>0, <1>5, CacheTypes, GoesEffect, EmptyType DEF Places
<1>7. \A o \in Caller : ~CallAt(o, "seal")'
  BY <1>0, <1>1, <1>6 DEF CallAt, CacheTypeOK
<1>8. CacheTypeOK'
  BY <1>0, <1>3, <1>4, <1>5, <1>6, <1>7, CacheTypes
     DEF CacheTypeOK, Calls, Places, CallAnswers
<1>9. HolderInv' /\ AnswerInv'
  BY <1>0, <1>1, <1>3, <1>5, <1>6, <1>7 DEF HolderInv, AnswerInv, CallAt
<1>10. PresentInv'
  BY <1>0, <1>3, <1>4, <1>6 DEF PresentInv, CallAt, Succeeded
<1>11. \A o \in Caller : Succeeded(o) => job[o].u \in call[t].image.has \cup clobbered
  BY <1>0, <1>2, <1>4 DEF KeptInv
<1>12. SavedInv'
  <2> SUFFICES ASSUME NEW o \in Caller, CallAt(o, "publish")'
               PROVE  job[o].u \in disk'.has \cup clobbered'
    BY <1>3 DEF SavedInv
  <2>1. CallAt(o, "publish")  BY <1>6 DEF CallAt
  <2>2. job[o].u \in disk.has \cup clobbered  BY <1>0, <2>1 DEF SavedInv
  <2>3. job[o].u \in HalfSaved  BY <2>1 DEF HalfSaved
  <2> QED BY <1>3, <2>2, <2>3
<1>13. UpdatesAreKept'
  BY <1>3, <1>4, <1>5, <1>11 DEF UpdatesAreKept, Succeeded
<1>14. RecordedOnce'
  BY <1>0, <1>1, <1>2, <1>3, <1>4, <1>5, <1>11 DEF RecordedOnce, Succeeded
<1>15. CacheEntry' = cache
  BY <1>3 DEF CacheEntry
<1>16. KeptInv'
  BY <1>3, <1>4, <1>5, <1>11, <1>15 DEF KeptInv, Succeeded
<1>17. Written \subseteq Written' /\ job[t].u \in Written'
  BY <1>1, <1>3, <1>5, <1>6 DEF Written, Wrote, CallAt
<1>18. OriginInv'
  BY <1>0, <1>3, <1>4, <1>6, <1>15, <1>17, EmptyType DEF OriginInv
<1> QED BY <1>8, <1>9, <1>10, <1>12, <1>13, <1>14, <1>16, <1>18 DEF CacheInv

\* mutate_in_place_impl puts the entry back when the seal fails.
LEMMA MutateFailsStep == ASSUME CacheInv, NEW t \in Caller, MutateFails(t) PROVE CacheInv'
<1>0. CacheTypeOK /\ HolderInv /\ AnswerInv /\ PresentInv /\ SavedInv /\ UpdatesAreKept /\ KeptInv
      /\ OriginInv /\ RecordedOnce
  BY DEF CacheInv
<1>1. call[t].at = "seal" /\ lock = t /\ answer[t] = "none"
  BY <1>0 DEF MutateFails, CallAt, AnswerInv, CacheTypeOK
<1>2. CacheEntry = call[t].image /\ call[t].image.known /\ call[t].image \in Conversations /\ cache.known
  BY <1>0, <1>1, CacheTypes DEF HolderInv, CallAt, CacheEntry, Calls, Holding
<1>3. /\ UNCHANGED <<job, disk, clobbered, deaths>> /\ lock' = Free /\ cache' = call[t].image
      /\ failures' \in 0..MaxFailures
  BY <1>0, CacheAssumption DEF MutateFails, Fails, CacheTypeOK
<1>4. /\ Goes(t, "done", Absent)
      /\ answer' \in [Caller -> CallAnswers] /\ \A o \in Caller : o # t => answer'[o] = answer[o]
      /\ answer'[t] = "error"
  BY <1>0, ReturnEffect DEF MutateFails, CallAnswers
<1>5. /\ call' \in Calls /\ call'[t].at = "done" /\ call'[t].image = Absent
      /\ \A o \in Caller : o # t => call'[o] = call[o]
  BY <1>0, <1>4, CacheTypes, GoesEffect, EmptyType DEF Places
<1>6. \A o \in Caller : ~CallAt(o, "seal")'
  BY <1>0, <1>1, <1>5 DEF CallAt, CacheTypeOK
<1>7. CacheTypeOK'
  BY <1>0, <1>2, <1>3, <1>4, <1>5, <1>6, CacheTypes DEF CacheTypeOK, Calls, Places, CallAnswers
<1>8. HolderInv' /\ AnswerInv'
  BY <1>0, <1>1, <1>3, <1>4, <1>5, <1>6 DEF HolderInv, AnswerInv, CallAt
<1>9. PresentInv'
  BY <1>0, <1>2, <1>3, <1>4, <1>5 DEF PresentInv, CallAt, Succeeded
<1>10. SavedInv' /\ UpdatesAreKept' /\ RecordedOnce'
  BY <1>0, <1>1, <1>3, <1>4, <1>5 DEF SavedInv, UpdatesAreKept, RecordedOnce, CallAt
<1>11. CacheEntry' = CacheEntry
  BY <1>2, <1>3 DEF CacheEntry
<1>12. KeptInv'
  BY <1>0, <1>2, <1>3, <1>4, <1>11 DEF KeptInv, Succeeded
<1>13. Written \subseteq Written'
  BY <1>1, <1>3, <1>4, <1>5 DEF Written, Wrote, CallAt
<1>14. OriginInv'
  BY <1>0, <1>3, <1>5, <1>11, <1>13, EmptyType DEF OriginInv
<1> QED BY <1>7, <1>8, <1>9, <1>10, <1>12, <1>14 DEF CacheInv

\* The process dies: the map is gone and the calls with it, the file stays.
LEMMA DiesStep == ASSUME CacheInv, Dies PROVE CacheInv'
<1>0. CacheTypeOK /\ HolderInv /\ AnswerInv /\ PresentInv /\ SavedInv /\ UpdatesAreKept /\ KeptInv
      /\ OriginInv /\ RecordedOnce
  BY DEF CacheInv
<1>1. /\ UNCHANGED <<job, disk, answer, clobbered, failures>>
      /\ lock' = Free /\ cache' = Absent /\ deaths' \in 0..MaxDeaths
  BY <1>0, CacheAssumption DEF Dies, CacheTypeOK
<1>2. ASSUME NEW o \in Caller
      PROVE  /\ call'[o] \in [at : Places, image : Conversations] /\ call'[o].image = Absent
             /\ \/ call'[o].at = "done"
                \/ call'[o].at \in {"look", "mutate"} /\ call'[o] = call[o]
  <2>1. call'[o] = IF call[o] = CacheStart(job)[o] THEN call[o] ELSE [at |-> "done", image |-> Absent]
    BY DEF Dies
  <2>2. CacheStart(job)[o] = [at |-> IF job[o].op = "mark" THEN "mutate" ELSE "look", image |-> Absent]
    BY DEF CacheStart
  <2> QED BY <2>1, <2>2, EmptyType DEF Places
<1>3. call' \in Calls
  <2>1. call' = [o \in Caller |-> call'[o]]  BY DEF Dies
  <2> QED BY <1>2, <2>1 DEF Calls
<1>4. \A o \in Caller : CallAt(o, "done") => CallAt(o, "done")'
  BY <1>2 DEF CallAt
<1>5. CacheTypeOK'
  BY <1>0, <1>1, <1>2, <1>3, CacheTypes, EmptyType DEF CacheTypeOK, Calls, Places, CallAnswers, CallAt
<1>6. HolderInv'  BY <1>2 DEF HolderInv, CallAt
<1>7. AnswerInv'  BY <1>0, <1>1, <1>2, <1>4 DEF AnswerInv, CallAt
<1>8. PresentInv'
  BY <1>0, <1>1, <1>2, EmptyType DEF PresentInv, CallAt, Succeeded
<1>9. SavedInv' /\ UpdatesAreKept' /\ RecordedOnce'
  BY <1>0, <1>1, <1>2 DEF SavedInv, UpdatesAreKept, RecordedOnce, CallAt
<1>10. CacheEntry' = Absent
  BY <1>1 DEF CacheEntry
<1>11. KeptInv'
  BY <1>1, <1>2, EmptyType DEF KeptInv, CallAt
<1>12. Written \subseteq Written'
  BY <1>0, <1>1, <1>2 DEF Written, Wrote, CallAt, AnswerInv
<1>13. OriginInv'
  BY <1>0, <1>1, <1>2, <1>10, <1>12, EmptyType DEF OriginInv
<1> QED BY <1>5, <1>6, <1>7, <1>8, <1>9, <1>11, <1>13 DEF CacheInv

\* The conversation's invariant holds at the start.
LEMMA CacheInvInit == CacheInit => CacheInv
<1> SUFFICES ASSUME CacheInit PROVE CacheInv
  OBVIOUS
<1>1. \A t \in Caller : /\ call[t] \in [at : Places, image : Conversations]
                        /\ call[t].at = IF job[t].op = "mark" THEN "mutate" ELSE "look"
                        /\ call[t].image = Absent /\ answer[t] = "none"
  BY EmptyType DEF CacheInit, CacheStart, Places
<1>2. call \in Calls
  BY <1>1, EmptyType DEF Calls, CacheInit, CacheStart, Places
<1>3. CacheTypeOK
  BY <1>1, <1>2, EmptyType, CacheAssumption
     DEF CacheInit, CacheTypeOK, Calls, Places, Free, CallAt
<1>4. disk.has = {} /\ cache = Absent /\ CacheEntry = Absent
  BY EmptyType DEF CacheInit, CacheEntry
<1>5. HolderInv /\ AnswerInv /\ PresentInv /\ SavedInv /\ UpdatesAreKept /\ KeptInv /\ RecordedOnce
  BY <1>1, <1>4, EmptyType
     DEF HolderInv, AnswerInv, PresentInv, SavedInv, UpdatesAreKept, KeptInv, RecordedOnce, CallAt, Succeeded
<1>6. OriginInv
  BY <1>1, <1>4, EmptyType DEF OriginInv
<1> QED BY <1>3, <1>5, <1>6 DEF CacheInv

\* Every step keeps the conversation's invariant.
LEMMA CacheInvStep == CacheInv /\ [CacheNext]_cacheVars => CacheInv'
<1> SUFFICES ASSUME CacheInv, [CacheNext]_cacheVars PROVE CacheInv'
  OBVIOUS
<1>1. CASE UNCHANGED cacheVars
  <2> USE <1>1 DEF cacheVars, CallAt, Succeeded
  <2>1. CacheTypeOK'  BY DEF CacheInv, CacheTypeOK
  <2>2. HolderInv' /\ AnswerInv'  BY DEF CacheInv, HolderInv, AnswerInv
  <2>3. PresentInv' /\ SavedInv'  BY DEF CacheInv, PresentInv, SavedInv
  <2>4. UpdatesAreKept' /\ RecordedOnce'  BY DEF CacheInv, UpdatesAreKept, RecordedOnce
  <2>5. KeptInv'  BY DEF CacheInv, KeptInv, CacheEntry
  <2>6. OriginInv'  BY DEF CacheInv, OriginInv, CacheEntry, Written, Wrote
  <2> QED BY <2>1, <2>2, <2>3, <2>4, <2>5, <2>6 DEF CacheInv
<1>2. CASE Dies  BY <1>2, DiesStep
<1>3. ASSUME NEW t \in Caller,
             \/ Look(t) \/ Open(t) \/ Fill(t) \/ SaveSeals(t) \/ SavePublishes(t)
             \/ MutateBegins(t) \/ MutateSeals(t) \/ MutateFails(t)
      PROVE  CacheInv'
  BY <1>3, LookStep, OpenStep, FillStep, SaveSealsStep, SavePublishesStep, MutateBeginsStep,
     MutateSealsStep, MutateFailsStep
<1> QED BY <1>1, <1>2, <1>3 DEF CacheNext

\* The inductive invariant holds in every reachable state.
THEOREM CacheInvariant == CacheSpec => []CacheInv
BY CacheInvInit, CacheInvStep, PTL DEF CacheSpec

\* Types, and the registry's mutex is held exactly while a mutation writes the file.
THEOREM CacheTypeCorrect == CacheSpec => []CacheTypeOK
<1>1. CacheInv => CacheTypeOK  BY DEF CacheInv
<1> QED BY <1>1, CacheInvariant, PTL

\* A successful update is in the file unless one of the unguarded writes took it.
THEOREM CacheKeepsUpdates == CacheSpec => []UpdatesAreKept
<1>1. CacheInv => UpdatesAreKept  BY DEF CacheInv
<1> QED BY <1>1, CacheInvariant, PTL

\* A nonce delivered twice is recorded once, unless one of the unguarded writes took it.
THEOREM CacheRecordsOnce == CacheSpec => []RecordedOnce
<1>1. CacheInv => RecordedOnce  BY DEF CacheInv
<1> QED BY <1>1, CacheInvariant, PTL

\* A failed update is in neither the file nor the map: whatever is there, another call put.
THEOREM CacheForgetsFailures == CacheSpec => []FailedLeavesNoTrace
<1>1. CacheInv => FailedLeavesNoTrace
  <2> SUFFICES ASSUME CacheInv, NEW t \in Caller, answer[t] = "error",
                      job[t].u \in disk.has \cup cache.has
               PROVE  \E o \in Caller \ {t} : job[o].u = job[t].u
    BY DEF FailedLeavesNoTrace
  <2>0. CacheTypeOK /\ HolderInv /\ AnswerInv /\ OriginInv  BY DEF CacheInv
  <2>1. CASE job[t].u \in Written
    BY <2>0, <2>1 DEF Written, Wrote, AnswerInv, CallAt
  <2>2. CASE job[t].u \notin Written
    <3>1. lock # Free /\ lock \in Caller
      BY <2>0, <2>2, CacheTypes DEF OriginInv, CacheEntry
    <3>2. CallAt(lock, "seal") /\ lock # t
      BY <2>0, <3>1 DEF CacheTypeOK, AnswerInv, CallAt
    <3>3. cache = Holding(call[lock].image.has \cup {job[lock].u})
      BY <2>0, <3>1, <3>2 DEF HolderInv
    <3>4. job[t].u = job[lock].u
      BY <2>0, <2>2, <3>1, <3>3 DEF OriginInv, Holding
    <3> QED BY <3>1, <3>2, <3>4
  <2> QED BY <2>1, <2>2
<1> QED BY <1>1, CacheInvariant, PTL

-----------------------------------------------------------------------------
(* The inductive invariant of the custody switch, in parts. *)

\* A keychain entry that the next resolve has to make.
Owed == IF keychain = NoKey /\ (custody = "keychain" \/ pass.at = "mint") THEN 1 ELSE 0

\* Two keys for each switch, and every key in use has been made.
MintInv ==
    /\ minted + Owed <= 2 * passes + 1
    /\ \A f \in File : sealed[f] <= minted
    /\ keychain <= minted /\ pass.old <= minted /\ pass.new <= minted
    /\ \A k \in running : k <= minted

\* The identity is the last file of a pass.  Once it is moved, the header and the keychain
\* say so.
PassInv ==
    /\ pass.at = "idle" => pass = NoSwitch
    /\ pass.at = "files" =>
          /\ pass.new # NoKey
          /\ pass.todo # {} => Identity \in pass.todo
          /\ pass.todo = {} => sealed[Identity] = pass.new /\ custody = pass.to
          /\ pass.to = "keychain" => keychain = pass.new

\* Nobody runs with a key that the identity is not under, if the vault would resolve it or
\* the pass starts from it.
StrayInv ==
    /\ custody = "keychain" /\ keychain # sealed[Identity] => keychain \notin running
    /\ pass.at = "mint" \/ (pass.at = "files" /\ pass.todo # {}) =>
          (pass.old # sealed[Identity] => pass.old \notin running)

\* Every conversation is under the identity's key or, during a pass, under the new one; those
\* under the identity's key are still to be visited.
FilesInv ==
    \A f \in Conversation :
        \/ sealed[f] = NoKey \/ f \in torn \cup overtaken
        \/ pass.at # "files" /\ sealed[f] = sealed[Identity]
        \/ pass.at = "files" /\ sealed[f] = pass.new
        \/ pass.at = "files" /\ sealed[f] = sealed[Identity] /\ f \in pass.todo

\* Between switches the header leads to the identity's key.
HeaderInv == pass = NoSwitch /\ custody = "keychain" => rotated \/ keychain = sealed[Identity]

CustodyInv ==
    CustodyTypeOK /\ MintInv /\ PassInv /\ StrayInv /\ FilesInv /\ HeaderInv

\* The types, in the form the steps below use them.
LEMMA CustodyTypes ==
    ASSUME CustodyInv
    PROVE  /\ sealed \in [File -> Nat] /\ sealed[Identity] \in Nat \ {NoKey} /\ Identity \in File
           /\ \A f \in Conversation : f \in File /\ f # Identity
           /\ custody \in {"keychain", "passphrase"} /\ keychain \in Nat /\ minted \in Nat \ {NoKey}
           /\ running \subseteq Nat \ {NoKey} /\ handle \in running \cup {NoKey}
           /\ pass.at \in {"idle", "mint", "files"} /\ pass.to \in {"keychain", "passphrase"}
           /\ pass.old \in Nat /\ pass.new \in Nat /\ pass.todo \subseteq File
           /\ pass = [at |-> pass.at, todo |-> pass.todo, old |-> pass.old, new |-> pass.new, to |-> pass.to]
           /\ torn \subseteq Conversation /\ overtaken \subseteq Conversation
           /\ passes \in Nat /\ passes <= MaxPasses /\ MaxPasses \in Nat
           /\ NoKey = 0 /\ MasterKey \subseteq Nat \ {NoKey}
<1>1. MasterKey \subseteq Nat \ {0} /\ NoKey = 0 /\ MaxPasses \in Nat
  BY CustodyAssumption DEF MasterKey, NoKey
<1>2. CustodyTypeOK  BY DEF CustodyInv
<1>3. MasterKey \cup {NoKey} \subseteq Nat  BY <1>1
<1>4. pass \in [at : {"idle", "mint", "files"}, to : {"keychain", "passphrase"}, todo : SUBSET File,
                old : MasterKey \cup {NoKey}, new : MasterKey \cup {NoKey}]
  BY <1>2 DEF CustodyTypeOK
<1>5. pass = [at |-> pass.at, todo |-> pass.todo, old |-> pass.old, new |-> pass.new, to |-> pass.to]
  BY <1>4
<1>6. /\ pass.at \in {"idle", "mint", "files"} /\ pass.to \in {"keychain", "passphrase"}
      /\ pass.old \in Nat /\ pass.new \in Nat /\ pass.todo \subseteq File
  BY <1>3, <1>4
<1>7. Identity \in File /\ \A f \in Conversation : f \in File /\ f # Identity
  BY CustodyAssumption DEF File
<1>8. sealed \in [File -> Nat] /\ sealed[Identity] \in Nat \ {NoKey}
  BY <1>2, <1>3, <1>7 DEF CustodyTypeOK
<1>9. /\ custody \in {"keychain", "passphrase"} /\ keychain \in Nat /\ minted \in Nat \ {NoKey}
      /\ running \subseteq Nat \ {NoKey} /\ handle \in running \cup {NoKey}
      /\ torn \subseteq Conversation /\ overtaken \subseteq Conversation
      /\ passes \in Nat /\ passes <= MaxPasses
  BY <1>1, <1>2, <1>3 DEF CustodyTypeOK
<1> QED BY <1>1, <1>5, <1>6, <1>7, <1>8, <1>9

\* What resolving the key leaves in the keychain, and the keys it makes.
LEMMA ResolvedEffect ==
    ASSUME CustodyInv
    PROVE  /\ Resolved \in Nat \ {NoKey} /\ KeychainAfter \in Nat /\ MintedAfter \in Nat
           /\ minted <= MintedAfter /\ MintedAfter <= minted + Owed
           /\ Resolved <= MintedAfter /\ KeychainAfter <= MintedAfter
           /\ custody = "keychain" => KeychainAfter = Resolved
           /\ custody = "passphrase" => /\ Resolved = sealed[Identity] /\ KeychainAfter = keychain
                                       /\ MintedAfter = minted
           /\ keychain # NoKey => KeychainAfter = keychain /\ MintedAfter = minted
           /\ Resolved # sealed[Identity] => Resolved \notin running
           /\ keychain = sealed[Identity] => Resolved = sealed[Identity]
<1>0. CustodyTypeOK /\ MintInv /\ StrayInv  BY DEF CustodyInv
<1>1. CASE custody = "passphrase"
  BY <1>0, <1>1, CustodyTypes DEF Resolved, KeychainAfter, MintedAfter, Fresh, MintInv, Owed
<1>2. CASE custody = "keychain" /\ keychain # NoKey
  BY <1>0, <1>2, CustodyTypes DEF Resolved, KeychainAfter, MintedAfter, Fresh, MintInv, StrayInv, Owed
<1>3. CASE custody = "keychain" /\ keychain = NoKey
  <2>1. Resolved = minted + 1 /\ KeychainAfter = minted + 1 /\ MintedAfter = minted + 1 /\ Owed = 1
    BY <1>3, CustodyTypes DEF Resolved, KeychainAfter, MintedAfter, Fresh, Owed
  <2>2. minted + 1 \notin running
    BY <1>0, CustodyTypes DEF MintInv
  <2> QED BY <1>3, <2>1, <2>2, CustodyTypes
<1> QED BY <1>1, <1>2, <1>3, CustodyTypes

\* A key made within the bound of MintInv is a master key.
LEMMA KeyBound ==
    ASSUME MaxPasses \in Nat, NEW n \in Nat, NEW q \in Nat, q <= MaxPasses, n <= 2 * q + 1, n # 0
    PROVE  n \in MasterKey
BY DEF MasterKey

\* A switch to a passphrase starts, with a new key and every file to visit.
LEMMA BeginPassphraseStep == ASSUME CustodyInv, BeginPassphrase PROVE CustodyInv'
<1>0. CustodyTypeOK /\ MintInv /\ PassInv /\ StrayInv /\ FilesInv /\ HeaderInv  BY DEF CustodyInv
<1>1. /\ pass = NoSwitch /\ passes < MaxPasses /\ passes' = passes + 1
      /\ keychain' = KeychainAfter /\ minted' = MintedAfter + 1
      /\ pass' = [at |-> "files", to |-> "passphrase", old |-> Resolved, new |-> minted', todo |-> Listed]
      /\ UNCHANGED <<sealed, custody, handle, running, cached, torn, overtaken, rotated, accidents>>
  BY DEF BeginPassphrase
<1>2. /\ pass'.at = "files" /\ pass'.to = "passphrase" /\ pass'.old = Resolved
      /\ pass'.new = MintedAfter + 1 /\ pass'.todo = Listed /\ pass.at = "idle"
  BY <1>1 DEF NoSwitch
<1>3. Owed' = 0
  BY <1>1, <1>2, ResolvedEffect, CustodyTypes DEF Owed
<1>4. minted' + Owed' <= 2 * passes' + 1 /\ minted' \in Nat /\ minted' # 0 /\ minted <= minted'
  BY <1>0, <1>1, <1>2, <1>3, ResolvedEffect, CustodyTypes DEF MintInv, Owed
<1>5. MintInv'
  BY <1>0, <1>1, <1>2, <1>4, ResolvedEffect, CustodyTypes DEF MintInv
<1>6. minted' \in MasterKey /\ Resolved \in MasterKey /\ KeychainAfter \in MasterKey \cup {NoKey}
  BY <1>1, <1>3, <1>4, ResolvedEffect, CustodyTypes, KeyBound
<1>7. Listed \subseteq File /\ Identity \in Listed /\ \A f \in Conversation : f \in Listed \/ sealed[f] = NoKey
  BY CustodyTypes DEF Listed
<1>8. CustodyTypeOK'
  BY <1>0, <1>1, <1>2, <1>6, <1>7, CustodyTypes DEF CustodyTypeOK
<1>9. PassInv'
  BY <1>2, <1>7, ResolvedEffect, CustodyTypes DEF PassInv
<1>10. StrayInv'
  BY <1>0, <1>1, <1>2, ResolvedEffect, CustodyTypes DEF StrayInv
<1>11. FilesInv'
  BY <1>0, <1>1, <1>2, <1>7 DEF FilesInv
<1>12. HeaderInv'
  BY <1>2 DEF HeaderInv, NoSwitch
<1> QED BY <1>5, <1>8, <1>9, <1>10, <1>11, <1>12 DEF CustodyInv

\* A switch to the keychain starts: the old entry is deleted, or stays by accident.
LEMMA BeginKeychainStep == ASSUME CustodyInv, BeginKeychain PROVE CustodyInv'
<1>0. CustodyTypeOK /\ MintInv /\ PassInv /\ StrayInv /\ FilesInv /\ HeaderInv  BY DEF CustodyInv
<1>1. /\ pass = NoSwitch /\ passes < MaxPasses /\ passes' = passes + 1
      /\ keychain' \in {NoKey, KeychainAfter} /\ minted' = MintedAfter
      /\ UNCHANGED <<sealed, custody, handle, running, cached, torn, overtaken, rotated>>
  BY DEF BeginKeychain
<1>2. accidents' \in 0..MaxAccidents
  BY <1>0, CustodyAssumption DEF BeginKeychain, Accident, CustodyTypeOK
<1>3. /\ pass' = [at |-> "mint", todo |-> {}, old |-> Resolved, new |-> NoKey, to |-> "keychain"]
      /\ pass.at = "idle"
  BY DEF BeginKeychain, NoSwitch
<1>4. Owed' <= 1 /\ Owed' \in Nat
  BY DEF Owed
<1>5. minted' + Owed' <= 2 * passes' + 1 /\ minted' \in Nat /\ minted' # 0 /\ minted <= minted'
  <2>1. MintedAfter <= 2 * passes + 1
    BY <1>0, ResolvedEffect, CustodyTypes DEF MintInv, Owed
  <2> QED BY <1>1, <1>4, <2>1, ResolvedEffect, CustodyTypes
<1>6. MintInv'
  BY <1>0, <1>1, <1>3, <1>5, ResolvedEffect, CustodyTypes DEF MintInv
<1>7. minted' \in MasterKey /\ Resolved \in MasterKey /\ keychain' \in MasterKey \cup {NoKey}
  BY <1>1, <1>4, <1>5, ResolvedEffect, CustodyTypes, KeyBound
<1>8. CustodyTypeOK'
  BY <1>0, <1>1, <1>2, <1>3, <1>7, CustodyTypes DEF CustodyTypeOK
<1>9. PassInv' /\ HeaderInv'
  BY <1>3 DEF PassInv, HeaderInv, NoSwitch
<1>10. StrayInv'
  BY <1>0, <1>1, <1>3, ResolvedEffect, CustodyTypes DEF StrayInv
<1>11. FilesInv'
  BY <1>0, <1>1, <1>3 DEF FilesInv
<1> QED BY <1>6, <1>8, <1>9, <1>10, <1>11 DEF CustodyInv

\* The switch takes the keychain's entry, or makes one, and lists the files.
LEMMA MintsEntryStep == ASSUME CustodyInv, MintsEntry PROVE CustodyInv'
<1>0. CustodyTypeOK /\ MintInv /\ PassInv /\ StrayInv /\ FilesInv /\ HeaderInv  BY DEF CustodyInv
<1>1. /\ pass.at = "mint" /\ keychain' = IF keychain # NoKey THEN keychain ELSE minted + 1
      /\ minted' = IF keychain' = minted + 1 THEN minted + 1 ELSE minted
      /\ pass' = [pass EXCEPT !.at = "files", !.new = keychain', !.todo = Listed]
      /\ UNCHANGED <<sealed, custody, handle, running, cached, torn, overtaken, rotated, passes, accidents>>
  BY DEF MintsEntry, Fresh
<1>2. /\ pass'.at = "files" /\ pass'.to = pass.to /\ pass'.old = pass.old
      /\ pass'.new = keychain' /\ pass'.todo = Listed
      /\ pass' = [at |-> "files", todo |-> Listed, old |-> pass.old, new |-> keychain', to |-> pass.to]
  BY <1>1, CustodyTypes
<1>3. /\ keychain' # NoKey /\ keychain' \in Nat /\ keychain' <= minted' /\ minted <= minted'
      /\ minted' \in Nat \ {0} /\ minted' + Owed' <= 2 * passes + 1
      /\ keychain' = keychain \/ keychain' \notin running
  <2>1. CASE keychain # NoKey
    BY <1>0, <1>1, <1>2, <2>1, CustodyTypes DEF MintInv, Owed
  <2>2. CASE keychain = NoKey
    BY <1>0, <1>1, <1>2, <2>2, CustodyTypes DEF MintInv, Owed
  <2> QED BY <2>1, <2>2
<1>4. Owed' = 0
  BY <1>3 DEF Owed
<1>5. MintInv'
  BY <1>0, <1>1, <1>2, <1>3, CustodyTypes DEF MintInv
<1>6. minted' \in MasterKey /\ keychain' \in MasterKey
  BY <1>3, <1>4, CustodyTypes, KeyBound
<1>7. Listed \subseteq File /\ Identity \in Listed /\ \A f \in Conversation : f \in Listed \/ sealed[f] = NoKey
  BY CustodyTypes DEF Listed
<1>8. CustodyTypeOK'
  BY <1>0, <1>1, <1>2, <1>6, <1>7, CustodyTypes DEF CustodyTypeOK
<1>9. PassInv'
  BY <1>2, <1>3, <1>7 DEF PassInv
<1>10. StrayInv'
  BY <1>0, <1>1, <1>2, <1>3 DEF StrayInv
<1>11. FilesInv'
  BY <1>0, <1>1, <1>2, <1>7 DEF FilesInv
<1>12. HeaderInv'
  BY <1>2 DEF HeaderInv, NoSwitch
<1> QED BY <1>5, <1>8, <1>9, <1>10, <1>11, <1>12 DEF CustodyInv

\* The pass re-seals one file, the identity after every other.
LEMMA ResealStep == ASSUME CustodyInv, NEW f \in File, Reseal(f) PROVE CustodyInv'
<1>0. CustodyTypeOK /\ MintInv /\ PassInv /\ StrayInv /\ FilesInv /\ HeaderInv  BY DEF CustodyInv
<1>1. /\ pass.at = "files" /\ f \in pass.todo /\ (f = Identity => pass.todo = {Identity})
      /\ sealed' = [sealed EXCEPT ![f] = pass.new]
      /\ overtaken' = overtaken \ {f} /\ torn' = torn \ {f}
      /\ custody' = IF f = Identity THEN pass.to ELSE custody
      /\ rotated' = (rotated /\ f # Identity)
      /\ pass' = [pass EXCEPT !.todo = @ \ {f}]
      /\ UNCHANGED <<keychain, minted, handle, running, cached, passes, accidents>>
  BY DEF Reseal, Due
<1>2. /\ pass' = [at |-> "files", todo |-> pass.todo \ {f}, old |-> pass.old, new |-> pass.new, to |-> pass.to]
      /\ pass'.at = "files" /\ pass'.to = pass.to /\ pass'.old = pass.old
      /\ pass'.new = pass.new /\ pass'.todo = pass.todo \ {f}
  BY <1>1, CustodyTypes
<1>3. /\ sealed' \in [File -> Nat] /\ sealed'[f] = pass.new
      /\ \A g \in File : g # f => sealed'[g] = sealed[g]
  BY <1>1, CustodyTypes
<1>4. pass.new # NoKey /\ pass.new \in MasterKey /\ Identity \in pass.todo
  BY <1>0, <1>1 DEF PassInv, CustodyTypeOK
<1>5. /\ f = Identity => pass'.todo = {} /\ sealed'[Identity] = pass.new /\ custody' = pass.to
      /\ f # Identity => Identity \in pass'.todo /\ sealed'[Identity] = sealed[Identity] /\ custody' = custody
  BY <1>1, <1>2, <1>3, <1>4, CustodyTypes
<1>6. CustodyTypeOK'
  <2>1. sealed' \in [File -> MasterKey \cup {NoKey}] /\ sealed'[Identity] # NoKey
    BY <1>0, <1>1, <1>4, <1>5 DEF CustodyTypeOK
  <2>2. rotated' \in BOOLEAN /\ custody' \in {"keychain", "passphrase"}
    BY <1>0, <1>1, CustodyTypes DEF CustodyTypeOK
  <2> QED BY <1>0, <1>1, <1>2, <2>1, <2>2 DEF CustodyTypeOK
<1>7. Owed' <= Owed /\ Owed' \in Nat /\ Owed \in Nat
  BY <1>0, <1>1, <1>2, <1>4, <1>5, CustodyTypes DEF Owed, PassInv
<1>8. MintInv'
  BY <1>0, <1>1, <1>2, <1>3, <1>7, CustodyTypes DEF MintInv
<1>9. PassInv'
  BY <1>0, <1>1, <1>2, <1>4, <1>5 DEF PassInv
<1>10. StrayInv'
  BY <1>0, <1>1, <1>2, <1>5 DEF StrayInv, PassInv
<1>11. FilesInv'
  BY <1>0, <1>1, <1>2, <1>3, <1>5, CustodyTypes DEF FilesInv
<1>12. HeaderInv'
  BY <1>2 DEF HeaderInv, NoSwitch
<1> QED BY <1>6, <1>8, <1>9, <1>10, <1>11, <1>12 DEF CustodyInv

\* A pass that ends before the identity leaves the vault as it was for the next start, but
\* for the files it moved and the entry it rotated, which it has on record.
LEMMA EndsEarlyStep ==
    ASSUME CustodyInv, EndsEarly, handle' \in running' \cup {NoKey}, running' \subseteq running,
           cached' \in [MasterKey -> SUBSET Conversation], accidents' \in 0..MaxAccidents,
           UNCHANGED <<sealed, custody, keychain, minted, overtaken, passes>>
    PROVE  CustodyInv'
<1>0. CustodyTypeOK /\ MintInv /\ PassInv /\ StrayInv /\ FilesInv /\ HeaderInv  BY DEF CustodyInv
<1>1. /\ pass' = NoSwitch /\ torn' = (IF pass.at = "files" THEN torn \cup Moved ELSE torn)
      /\ rotated' = (rotated \/ (custody = "keychain" /\ keychain # sealed[Identity]))
  BY DEF EndsEarly
<1>2. pass'.at = "idle" /\ pass'.old = NoKey /\ pass'.new = NoKey
  BY <1>1 DEF NoSwitch
<1>3. CustodyTypeOK'
  <2>1. torn' \subseteq Conversation /\ rotated' \in BOOLEAN
    BY <1>0, <1>1 DEF Moved, CustodyTypeOK
  <2>2. pass' \in [at : {"idle", "mint", "files"}, to : {"keychain", "passphrase"}, todo : SUBSET File,
                   old : MasterKey \cup {NoKey}, new : MasterKey \cup {NoKey}]
    BY <1>1 DEF NoSwitch
  <2> QED BY <1>0, <2>1, <2>2 DEF CustodyTypeOK
<1>4. Owed' <= Owed /\ Owed' \in Nat /\ Owed \in Nat
  BY <1>2 DEF Owed
<1>5. MintInv'
  BY <1>0, <1>2, <1>4, CustodyTypes DEF MintInv
<1>6. PassInv'
  BY <1>1, <1>2 DEF PassInv
<1>7. StrayInv'
  BY <1>0, <1>2 DEF StrayInv
<1>8. FilesInv'
  BY <1>0, <1>1, <1>2 DEF FilesInv, Moved
<1>9. HeaderInv'
  BY <1>1 DEF HeaderInv
<1> QED BY <1>3, <1>5, <1>6, <1>7, <1>8, <1>9 DEF CustodyInv

\* The pass gives up on a file that does not open or does not write.
LEMMA PassFailsStep == ASSUME CustodyInv, PassFails PROVE CustodyInv'
<1>1. CustodyTypeOK  BY DEF CustodyInv
<1>2. accidents' \in 0..MaxAccidents
  BY <1>1, CustodyAssumption DEF PassFails, Accident, CustodyTypeOK
<1> QED BY <1>1, <1>2, EndsEarlyStep DEF PassFails, CustodyTypeOK

\* The end of a pass that is through with its files.
LEMMA PassDone ==
    ASSUME CustodyInv, pass.at = "files", pass.todo = {}, pass' = NoSwitch,
           handle' = NoKey, running' \subseteq running,
           cached' \in [MasterKey -> SUBSET Conversation], accidents' \in 0..MaxAccidents,
           UNCHANGED <<sealed, custody, keychain, minted, torn, overtaken, rotated, passes>>
    PROVE  CustodyInv'
<1>0. CustodyTypeOK /\ MintInv /\ PassInv /\ StrayInv /\ FilesInv /\ HeaderInv  BY DEF CustodyInv
<1>1. pass'.at = "idle" /\ pass'.old = NoKey /\ pass'.new = NoKey
  BY DEF NoSwitch
<1>2. sealed[Identity] = pass.new /\ (custody = "keychain" => keychain = pass.new)
  BY <1>0 DEF PassInv
<1>3. CustodyTypeOK'
  <2>1. pass' \in [at : {"idle", "mint", "files"}, to : {"keychain", "passphrase"}, todo : SUBSET File,
                   old : MasterKey \cup {NoKey}, new : MasterKey \cup {NoKey}]
    BY DEF NoSwitch
  <2> QED BY <1>0, <2>1 DEF CustodyTypeOK
<1>4. Owed' <= Owed /\ Owed' \in Nat /\ Owed \in Nat
  BY <1>1 DEF Owed
<1>5. MintInv'
  BY <1>0, <1>1, <1>4, CustodyTypes DEF MintInv
<1>6. PassInv' /\ HeaderInv'
  BY <1>1, <1>2 DEF PassInv, HeaderInv
<1>7. StrayInv'
  BY <1>1, <1>2 DEF StrayInv
<1>8. FilesInv'
  BY <1>0, <1>1, <1>2 DEF FilesInv
<1> QED BY <1>3, <1>5, <1>6, <1>7, <1>8 DEF CustodyInv

\* The process dies, in the middle of a pass or not.
LEMMA CrashStep == ASSUME CustodyInv, Crash PROVE CustodyInv'
<1>0. CustodyTypeOK /\ MintInv /\ PassInv /\ StrayInv /\ FilesInv /\ HeaderInv  BY DEF CustodyInv
<1>1. /\ accidents' \in 0..MaxAccidents /\ handle' = NoKey /\ running' = {}
      /\ cached' \in [MasterKey -> SUBSET Conversation]
      /\ UNCHANGED <<sealed, custody, keychain, minted, overtaken, passes>>
  BY <1>0, CustodyAssumption DEF Crash, Accident, CustodyTypeOK
<1>2. CASE pass = NoSwitch /\ pass' = NoSwitch /\ UNCHANGED <<torn, rotated>>
  <2>1. CustodyTypeOK'  BY <1>0, <1>1, <1>2 DEF CustodyTypeOK
  <2>2. MintInv' /\ PassInv'  BY <1>0, <1>1, <1>2 DEF MintInv, PassInv, Owed
  <2>3. StrayInv'  BY <1>1 DEF StrayInv
  <2>4. FilesInv' /\ HeaderInv'  BY <1>0, <1>1, <1>2 DEF FilesInv, HeaderInv
  <2> QED BY <2>1, <2>2, <2>3, <2>4 DEF CustodyInv
<1>3. CASE pass.at = "files" /\ pass.todo = {} /\ pass' = NoSwitch /\ UNCHANGED <<torn, rotated>>
  BY <1>1, <1>3, PassDone
<1>4. CASE EndsEarly
  BY <1>1, <1>4, EndsEarlyStep
<1> QED BY <1>2, <1>3, <1>4 DEF Crash

\* The pass ends with every file visited.
LEMMA PassEndsStep == ASSUME CustodyInv, PassEnds PROVE CustodyInv'
<1>1. CustodyTypeOK  BY DEF CustodyInv
<1> QED BY <1>1, PassDone DEF PassEnds, CustodyTypeOK

\* A client is built: it resolves a key and opens the identity with it.
LEMMA BuildStep == ASSUME CustodyInv, Build PROVE CustodyInv'
<1>0. CustodyTypeOK /\ MintInv /\ PassInv /\ StrayInv /\ FilesInv /\ HeaderInv  BY DEF CustodyInv
<1>1. /\ keychain' = KeychainAfter /\ minted' = MintedAfter
      /\ running' \subseteq running \cup {sealed[Identity]} /\ handle' \in running' \cup {NoKey}
      /\ UNCHANGED <<sealed, custody, cached, pass, torn, overtaken, rotated, passes, accidents>>
  BY CustodyTypes DEF Build
<1>2. minted' + Owed' <= 2 * passes + 1 /\ Owed' \in Nat /\ minted <= minted' /\ minted' \in Nat \ {0}
  <2>1. CASE keychain # NoKey \/ custody = "passphrase"
    BY <1>0, <1>1, <2>1, ResolvedEffect, CustodyTypes DEF MintInv, Owed
  <2>2. CASE keychain = NoKey /\ custody = "keychain"
    BY <1>0, <1>1, <2>2, ResolvedEffect, CustodyTypes DEF MintInv, Owed
  <2> QED BY <2>1, <2>2, CustodyTypes
<1>3. MintInv'
  BY <1>0, <1>1, <1>2, ResolvedEffect, CustodyTypes DEF MintInv
<1>4. minted' \in MasterKey /\ keychain' \in MasterKey \cup {NoKey}
  BY <1>1, <1>2, ResolvedEffect, CustodyTypes, KeyBound
<1>5. CustodyTypeOK'
  <2>1. sealed[Identity] \in MasterKey  BY <1>0, CustodyTypes DEF CustodyTypeOK
  <2> QED BY <1>0, <1>1, <1>4, <2>1 DEF CustodyTypeOK
<1>6. PassInv'
  BY <1>0, <1>1, ResolvedEffect, CustodyTypes DEF PassInv
<1>7. StrayInv'
  BY <1>0, <1>1, ResolvedEffect, CustodyTypes DEF StrayInv
<1>8. FilesInv'
  BY <1>0, <1>1 DEF FilesInv
<1>9. HeaderInv'
  BY <1>0, <1>1, ResolvedEffect, CustodyTypes DEF HeaderInv
<1> QED BY <1>3, <1>5, <1>6, <1>7, <1>8, <1>9 DEF CustodyInv

\* A client that goes leaves the vault alone.
LEMMA ClientGoes ==
    ASSUME CustodyInv, running' \subseteq running, handle' \in running' \cup {NoKey},
           cached' \in [MasterKey -> SUBSET Conversation],
           UNCHANGED <<sealed, custody, keychain, minted, pass, torn, overtaken, rotated, passes, accidents>>
    PROVE  CustodyInv'
<1>0. CustodyTypeOK /\ MintInv /\ PassInv /\ StrayInv /\ FilesInv /\ HeaderInv  BY DEF CustodyInv
<1>1. CustodyTypeOK'  BY <1>0 DEF CustodyTypeOK
<1>2. MintInv' /\ PassInv'  BY <1>0 DEF MintInv, PassInv, Owed
<1>3. StrayInv'  BY <1>0 DEF StrayInv
<1>4. FilesInv' /\ HeaderInv'  BY <1>0 DEF FilesInv, HeaderInv
<1> QED BY <1>1, <1>2, <1>3, <1>4 DEF CustodyInv

\* A running client writes a conversation under the key it holds.
LEMMA SaveStep == ASSUME CustodyInv, NEW k \in MasterKey, NEW f \in Conversation, Save(k, f) PROVE CustodyInv'
<1>0. CustodyTypeOK /\ MintInv /\ PassInv /\ StrayInv /\ FilesInv /\ HeaderInv  BY DEF CustodyInv
<1>1. /\ k \in running /\ sealed' = [sealed EXCEPT ![f] = k]
      /\ cached' = [cached EXCEPT ![k] = @ \cup {f}]
      /\ overtaken' = (IF InStep(k, f) THEN overtaken \ {f} ELSE overtaken \cup {f})
      /\ torn' = (IF InStep(k, f) THEN torn \ {f} ELSE torn)
      /\ UNCHANGED <<custody, keychain, minted, handle, running, pass, rotated, passes, accidents>>
  BY DEF Save
<1>2. /\ sealed' \in [File -> Nat] /\ sealed'[f] = k /\ sealed'[Identity] = sealed[Identity]
      /\ \A g \in File : g # f => sealed'[g] = sealed[g]
  BY <1>1, CustodyTypes
<1>3. CustodyTypeOK'
  BY <1>0, <1>1, <1>2, CustodyTypes DEF CustodyTypeOK
<1>4. MintInv'
  BY <1>0, <1>1, <1>2, CustodyTypes DEF MintInv, Owed
<1>5. PassInv' /\ StrayInv' /\ HeaderInv'
  BY <1>0, <1>1, <1>2 DEF PassInv, StrayInv, HeaderInv
<1>6. FilesInv'
  <2>1. CASE ~InStep(k, f)
    BY <1>0, <1>1, <1>2, <2>1, CustodyTypes DEF FilesInv
  <2>2. CASE InStep(k, f)
    <3>1. \A g \in Conversation : g # f =>
             sealed'[g] = sealed[g] /\ (g \in torn' \cup overtaken' <=> g \in torn \cup overtaken)
      BY <1>1, <1>2, CustodyTypes
    <3>2. CASE pass.at # "files"
      BY <1>0, <1>1, <1>2, <2>2, <3>1, <3>2 DEF FilesInv, InStep
    <3>3. CASE pass.at = "files"
      BY <1>0, <1>1, <1>2, <2>2, <3>1, <3>3 DEF FilesInv, InStep, StrayInv
    <3> QED BY <3>2, <3>3
  <2> QED BY <2>1, <2>2
<1> QED BY <1>3, <1>4, <1>5, <1>6 DEF CustodyInv

\* The vault's invariant holds at the start.
LEMMA CustodyInvInit == CustodyInit => CustodyInv
<1> SUFFICES ASSUME CustodyInit PROVE CustodyInv
  OBVIOUS
<1>1. 1 \in MasterKey /\ NoKey = 0 /\ NoKey \notin MasterKey
  BY CustodyAssumption DEF MasterKey, NoKey
<1>2. Identity \in File /\ \A f \in Conversation : f \in File /\ f # Identity
  BY CustodyAssumption DEF File
<1>3. /\ sealed \in [File -> {NoKey, 1}] /\ sealed[Identity] = 1
  BY <1>2, CustodyAssumption DEF CustodyInit
<1>4. /\ pass.at = "idle" /\ pass.old = NoKey /\ pass.new = NoKey /\ pass = NoSwitch
      /\ pass \in [at : {"idle", "mint", "files"}, to : {"keychain", "passphrase"}, todo : SUBSET File,
                   old : MasterKey \cup {NoKey}, new : MasterKey \cup {NoKey}]
  BY DEF CustodyInit, NoSwitch
<1>5. CustodyTypeOK
  <2>1. sealed \in [File -> MasterKey \cup {NoKey}] /\ sealed[Identity] # NoKey
    BY <1>1, <1>3
  <2>2. keychain \in MasterKey \cup {NoKey} /\ custody \in {"keychain", "passphrase"}
    BY <1>1 DEF CustodyInit
  <2>3. cached \in [MasterKey -> SUBSET Conversation] /\ handle \in running \cup {NoKey}
        /\ running \subseteq MasterKey /\ minted \in MasterKey /\ rotated \in BOOLEAN
    BY <1>1 DEF CustodyInit
  <2>4. passes \in 0..MaxPasses /\ accidents \in 0..MaxAccidents
    BY CustodyAssumption DEF CustodyInit
  <2> QED BY <1>4, <2>1, <2>2, <2>3, <2>4 DEF CustodyInit, CustodyTypeOK
<1>6. MintInv
  BY <1>1, <1>3, <1>4 DEF CustodyInit, MintInv, Owed
<1>7. PassInv /\ StrayInv /\ FilesInv /\ HeaderInv
  BY <1>1, <1>2, <1>3, <1>4 DEF CustodyInit, PassInv, StrayInv, FilesInv, HeaderInv
<1> QED BY <1>5, <1>6, <1>7 DEF CustodyInv

\* Every step of custody keeps the vault's invariant.
LEMMA CustodyInvStep == CustodyInv /\ [CustodyNext]_custodyVars => CustodyInv'
<1> SUFFICES ASSUME CustodyInv, [CustodyNext]_custodyVars PROVE CustodyInv'
  OBVIOUS
<1>0. CustodyTypeOK  BY DEF CustodyInv
<1>1. CASE UNCHANGED custodyVars
  BY <1>0, <1>1, ClientGoes DEF custodyVars, CustodyTypeOK
<1>2. CASE BeginPassphrase  BY <1>2, BeginPassphraseStep
<1>3. CASE BeginKeychain  BY <1>3, BeginKeychainStep
<1>4. CASE MintsEntry  BY <1>4, MintsEntryStep
<1>5. CASE PassFails  BY <1>5, PassFailsStep
<1>6. CASE PassEnds  BY <1>6, PassEndsStep
<1>7. CASE Build  BY <1>7, BuildStep
<1>8. CASE Invalidate
  BY <1>0, <1>8, ClientGoes DEF Invalidate, CustodyTypeOK
<1>9. CASE Crash  BY <1>9, CrashStep
<1>10. ASSUME NEW f \in File, Reseal(f) PROVE CustodyInv'  BY <1>10, ResealStep
<1>11. ASSUME NEW k \in MasterKey, Release(k) PROVE CustodyInv'
  BY <1>0, <1>11, ClientGoes DEF Release, CustodyTypeOK
<1>12. ASSUME NEW k \in MasterKey, NEW f \in Conversation, Save(k, f) PROVE CustodyInv'
  BY <1>12, SaveStep
<1> QED BY <1>1, <1>2, <1>3, <1>4, <1>5, <1>6, <1>7, <1>8, <1>9, <1>10, <1>11, <1>12 DEF CustodyNext

\* The inductive invariant of the custody switch holds in every reachable state.
THEOREM CustodyInvariant == CustodySpec => []CustodyInv
BY CustodyInvInit, CustodyInvStep, PTL DEF CustodySpec

\* Types: in particular, two keys for each switch are enough (MasterKey).
THEOREM CustodyTypeCorrect == CustodySpec => []CustodyTypeOK
<1>1. CustodyInv => CustodyTypeOK  BY DEF CustodyInv
<1> QED BY <1>1, CustodyInvariant, PTL

\* Between switches every file opens under the key the next start resolves, but for the
\* three exceptions that the code has.
THEOREM VaultReadable == CustodySpec => []VaultStaysReadable
<1>1. CustodyInv => VaultStaysReadable
  BY DEF CustodyInv, PassInv, HeaderInv, FilesInv, VaultStaysReadable, NoSwitch
<1> QED BY <1>1, CustodyInvariant, PTL

-----------------------------------------------------------------------------
(* The relay's store and the recipient together: the specification the run inbound_path checks. *)

\* A step of the views is a step of one component, and the others stutter.
LEMMA RecipientViewsStep ==
    ASSUME [VaultNext]_recipientVars
    PROVE  /\ [TransitNext]_relayVars /\ [Next]_inboundVars
           /\ [CacheNext]_cacheVars /\ [CustodyNext]_custodyVars
<1>1. CASE TransitNext /\ UNCHANGED <<part, inboundVars, cacheVars, custodyVars>>  BY <1>1, Zenon
<1>2. CASE Next /\ UNCHANGED <<part, relayVars, cacheVars, custodyVars>>  BY <1>2, Zenon
<1>3. CASE CacheNext /\ UNCHANGED <<part, relayVars, inboundVars, custodyVars>>  BY <1>3, Zenon
<1>4. CASE CustodyNext /\ UNCHANGED <<part, relayVars, inboundVars, cacheVars>>  BY <1>4, Zenon
<1>5. CASE UNCHANGED recipientVars  BY <1>5, Zenon DEF recipientVars
<1> QED BY <1>1, <1>2, <1>3, <1>4, <1>5, Zenon DEF VaultNext

\* A behaviour of the views is one of each component, so all that is proved of the relay's
\* store, of the inbound path, of the cache and of custody holds of the specification the run
\* checks.
THEOREM RecipientViewsFaithful == VaultSpec => TransitSpec /\ Spec /\ CacheSpec /\ CustodySpec
<1>1. VaultInit => TransitInit /\ Init /\ CacheInit /\ CustodyInit  BY DEF VaultInit
<1>2. [VaultNext]_recipientVars
        => /\ [TransitNext]_relayVars /\ [Next]_inboundVars
           /\ [CacheNext]_cacheVars /\ [CustodyNext]_custodyVars
  BY RecipientViewsStep
<1> QED BY <1>1, <1>2, PTL DEF VaultSpec, TransitSpec, Spec, CacheSpec, CustodySpec

\* Every variable of the vault holds a value of its kind, and the registry's mutex is held
\* while a mutation writes the file and at no other time, for any callers, jobs, files,
\* deaths, failures and switches of custody.
THEOREM VaultTypeCorrect == VaultSpec => []VaultTypeOK
<1>1. VaultTypeOK <=> CacheTypeOK /\ CustodyTypeOK  BY DEF VaultTypeOK
<1> QED BY <1>1, RecipientViewsFaithful, CacheTypeCorrect, CustodyTypeCorrect, PTL
=============================================================================
