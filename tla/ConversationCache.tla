-------------------------- MODULE ConversationCache --------------------------
(***************************************************************************)
(* One conversation in the registry: its sealed file, its entry in the     *)
(* in-memory map, and the calls that run at once against both (the relay   *)
(* pump, the LAN pump, the sender, the user interface).                    *)
(*                                                                         *)
(* Mutations hold the map's mutex from the read to the write of the file.  *)
(* Two operations do not: `get` opens the file between two acquisitions of *)
(* the mutex, and `save` seals before it takes it.  A conversation is the  *)
(* set of updates it carries: the Welcome that installed it, replay        *)
(* nonces, history entries, delivery and read marks.                       *)
(***************************************************************************)
EXTENDS Naturals

CONSTANTS
    Caller,      \* tasks that call the registry
    Update,      \* the updates a conversation may carry
    Scenarios,   \* a set of functions from Caller to jobs; a behaviour follows one
    MaxDeaths,   \* bound: process deaths
    MaxFailures  \* bound: file operations that fail

\* "read": get.  "scan": find_dm_with.  "mark": mutate_in_place alone.  "receive": get,
\* then record_nonce or record_delivery.  "create": get, then mutate_in_place_or_init.
\* "install": a Welcome.
Ops == {"read", "scan", "mark", "receive", "create", "install"}
Job == [op : Ops, u : Update]

ASSUME CacheAssumption ==
    /\ Scenarios \subseteq [Caller -> Job] /\ MaxDeaths \in Nat /\ MaxFailures \in Nat
    /\ "free" \notin Caller   \* nobody's name for the mutex that nobody holds

VARIABLES
    job,        \* the scenario of this behaviour
    disk,       \* the sealed file
    cache,      \* by_group_id
    lock,       \* who holds the mutex of by_group_id across a mutation
    call,       \* where each call is, the file image it read and its rollback snapshot
    answer,     \* what each call returned
    clobbered,  \* history: updates lost to a write outside the mutex
    deaths,
    failures

cacheVars == <<job, disk, cache, lock, call, answer, clobbered, deaths, failures>>

-----------------------------------------------------------------------------
Absent == [known |-> FALSE, has |-> {}]
Holding(us) == [known |-> TRUE, has |-> us]

Free == "free"
CallAt(t, p) == call[t].at = p
Goes(t, p, i) == call' = [call EXCEPT ![t] = [at |-> p, image |-> i]]
Move(t, p) == Goes(t, p, Absent)
Return(t, r) == Move(t, "done") /\ answer' = [answer EXCEPT ![t] = r]

\* What the caller does once get or find_dm_with has told it that the conversation
\* exists, or that it does not.
Found(t) ==
    IF job[t].op \in {"read", "scan"} THEN Return(t, "found") ELSE Move(t, "mutate") /\ UNCHANGED answer
NotFound(t) ==
    CASE job[t].op \in {"read", "scan", "receive"} -> Return(t, "absent")
      [] job[t].op = "create" -> Move(t, "mutate") /\ UNCHANGED answer
      [] job[t].op = "install" -> Move(t, "save") /\ UNCHANGED answer

Fails == failures < MaxFailures /\ failures' = failures + 1

-----------------------------------------------------------------------------
(* get and find_dm_with. *)

\* The map first.  find_dm_with reads the file in any case.
Look(t) ==
    /\ CallAt(t, "look") /\ lock = Free
    /\ IF cache.known /\ job[t].op # "scan" THEN Found(t) ELSE Move(t, "open") /\ UNCHANGED answer
    /\ UNCHANGED <<job, disk, cache, lock, clobbered, deaths, failures>>

\* path.exists, open_from_path: no mutex is held.
Open(t) ==
    /\ CallAt(t, "open")
    /\ \/ /\ disk.known
          /\ Goes(t, "fill", disk)
          /\ UNCHANGED <<answer, failures>>
       \/ /\ ~disk.known
          /\ IF job[t].op = "scan" /\ cache.known THEN Found(t) ELSE NotFound(t)
          /\ UNCHANGED failures
       \/ disk.known /\ Fails /\ Return(t, "error")
    /\ UNCHANGED <<job, disk, cache, lock, clobbered, deaths>>

\* An image that replaces a newer entry.
Discarded(old, new) == IF old.known THEN clobbered \cup (old.has \ new.has) ELSE clobbered

\* get puts what it read into the map, whatever is there by now; find_dm_with only
\* fills a gap (or_insert_with).
Fill(t) ==
    /\ CallAt(t, "fill") /\ lock = Free
    /\ LET image == IF job[t].op = "scan" /\ cache.known THEN cache ELSE call[t].image IN
          /\ cache' = image
          /\ clobbered' = Discarded(cache, image)
    /\ Found(t)
    /\ UNCHANGED <<job, disk, lock, deaths, failures>>

-----------------------------------------------------------------------------
(* save, as install_or_rekey_conversation calls it: the file, then the map. *)

SaveSeals(t) ==
    /\ CallAt(t, "save")
    /\ \/ /\ disk' = Holding({job[t].u})
          /\ clobbered' = Discarded(disk, disk')
          /\ Move(t, "publish") /\ UNCHANGED <<answer, failures>>
       \/ Fails /\ Return(t, "error") /\ UNCHANGED <<disk, clobbered>>
    /\ UNCHANGED <<job, cache, lock, deaths>>

SavePublishes(t) ==
    /\ CallAt(t, "publish") /\ lock = Free
    /\ cache' = Holding({job[t].u})
    /\ clobbered' = Discarded(cache, cache')
    /\ Return(t, "ok")
    /\ UNCHANGED <<job, disk, lock, deaths, failures>>

-----------------------------------------------------------------------------
(* mutate_in_place_impl, record_nonce and record_delivery. *)

\* The entry the mutation works on: the map's, else the file's, else a new one for
\* mutate_in_place_or_init.
Hydrated(t) ==
    IF cache.known THEN cache
    ELSE IF disk.known THEN disk
    ELSE IF job[t].op = "create" THEN Holding({}) ELSE Absent

\* The entry copied out, changed and sealed without the mutex.
MutateBeginsUnlocked(t) ==
    /\ CallAt(t, "mutate") /\ lock = Free
    /\ LET entry == Hydrated(t) IN
       /\ entry.known /\ job[t].u \notin entry.has
       /\ Goes(t, "seal", entry)
    /\ UNCHANGED <<job, disk, cache, lock, answer, clobbered, deaths, failures>>

\* The mutex is taken and the closure runs on the entry.  An update that is there
\* already is a replay or a Skip, and leaves the entry as it was.
MutateBegins(t) ==
    /\ CallAt(t, "mutate") /\ lock = Free
    /\ LET entry == Hydrated(t) IN
       \/ /\ ~cache.known /\ disk.known /\ Fails
          /\ Return(t, "error") /\ UNCHANGED <<cache, lock>>
       \/ /\ UNCHANGED failures
          /\ IF ~entry.known
             THEN Return(t, "error") /\ UNCHANGED <<cache, lock>>
             ELSE IF job[t].u \in entry.has
             THEN Return(t, "repeat") /\ cache' = entry /\ UNCHANGED lock
             ELSE /\ cache' = Holding(entry.has \cup {job[t].u})
                  /\ lock' = t
                  /\ Goes(t, "seal", entry)
                  /\ UNCHANGED answer
    /\ UNCHANGED <<job, disk, clobbered, deaths>>

\* What a save has put in the file and not yet in the map.
HalfSaved == {job[o].u : o \in {o \in Caller : CallAt(o, "publish")}}

\* The file is written: what a half-done save put there is gone.
Sealed(t) ==
    /\ CallAt(t, "seal")
    /\ disk' = Holding(call[t].image.has \cup {job[t].u})
    /\ clobbered' = clobbered \cup (HalfSaved \cap (disk.has \ disk'.has))
    /\ Return(t, "ok")
    /\ UNCHANGED <<job, cache, deaths, failures>>

\* The file is written and the mutex kept.
MutateSealsHolding(t) == Sealed(t) /\ UNCHANGED lock

\* The file is written and the mutex released.
MutateSeals(t) == Sealed(t) /\ lock' = Free

\* A seal that fails and leaves the mutation in the map.
MutateFailsUnrestored(t) ==
    /\ CallAt(t, "seal") /\ Fails
    /\ lock' = Free
    /\ Return(t, "error")
    /\ UNCHANGED <<job, disk, cache, clobbered, deaths>>

\* The seal failed: the entry goes back to the snapshot.
MutateFails(t) ==
    /\ CallAt(t, "seal") /\ Fails
    /\ cache' = call[t].image
    /\ lock' = Free
    /\ Return(t, "error")
    /\ UNCHANGED <<job, disk, clobbered, deaths>>

-----------------------------------------------------------------------------
\* Every call before its first step.
CacheStart(j) ==
    [t \in Caller |-> [at |-> IF j[t].op = "mark" THEN "mutate" ELSE "look", image |-> Absent]]

\* The process dies: the map and the running calls go, the file stays.
Dies ==
    /\ deaths < MaxDeaths /\ deaths' = deaths + 1
    /\ cache' = Absent /\ lock' = Free
    /\ call' = [t \in Caller |-> IF call[t] = CacheStart(job)[t] THEN call[t]
                                 ELSE [at |-> "done", image |-> Absent]]
    /\ UNCHANGED <<job, disk, answer, clobbered, failures>>

\* A first contact, or a process started on an existing file.
CacheInit ==
    /\ job \in Scenarios
    /\ disk \in {Absent, Holding({})}
    /\ cache = Absent /\ lock = Free
    /\ call = CacheStart(job)
    /\ answer = [t \in Caller |-> "none"]
    /\ clobbered = {} /\ deaths = 0 /\ failures = 0

CacheNext ==
    \/ \E t \in Caller :
          \/ Look(t) \/ Open(t) \/ Fill(t) \/ SaveSeals(t) \/ SavePublishes(t)
          \/ MutateBegins(t) \/ MutateSeals(t) \/ MutateFails(t)
    \/ Dies

CacheSpec == CacheInit /\ [][CacheNext]_cacheVars

-----------------------------------------------------------------------------
Conversations == [known : BOOLEAN, has : SUBSET Update]

\* Every variable holds a value of its kind, and the mutex is held while a mutation writes
\* the file and at no other time.
CacheTypeOK ==
    /\ job \in Scenarios
    /\ disk \in Conversations /\ cache \in Conversations
    /\ lock \in Caller \cup {Free}
    /\ call \in [Caller -> [at : {"look", "open", "fill", "save", "publish", "mutate", "seal", "done"},
                            image : Conversations]]
    /\ answer \in [Caller -> {"none", "found", "absent", "ok", "error", "repeat"}]
    /\ clobbered \in SUBSET Update
    /\ deaths \in 0..MaxDeaths /\ failures \in 0..MaxFailures
    /\ \A t \in Caller : lock = t <=> CallAt(t, "seal")

\* An update whose call returned Ok is in the file, through deaths and failing seals,
\* unless a cold get or a second install wrote an older image over it (registry.rs get,
\* inbound.rs install_or_rekey_conversation), or a mutation wrote the file between the two
\* halves of the save that put it there (registry.rs save): there is no other way to lose one.
UpdatesAreKept ==
    \A t \in Caller : answer[t] = "ok" => job[t].u \in disk.has \cup clobbered

\* An update whose call failed reaches neither the file nor the map, so that no later
\* write carries it along (the restore in mutate_in_place_impl and record_nonce).
FailedLeavesNoTrace ==
    \A t \in Caller :
        answer[t] = "error" /\ job[t].u \in disk.has \cup cache.has
            => \E o \in Caller \ {t} : job[o].u = job[t].u

\* One nonce delivered over two transports at once is recorded once, unless one of the
\* unguarded writes took the first record away (record_nonce).
RecordedOnce ==
    \A t, o \in Caller :
        (/\ t # o /\ answer[t] = "ok" /\ answer[o] = "ok" /\ job[t].u = job[o].u
         /\ "install" \notin {job[t].op, job[o].op})
            => job[t].u \in clobbered
=============================================================================
