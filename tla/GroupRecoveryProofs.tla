------------------------- MODULE GroupRecoveryProofs -------------------------
(***************************************************************************)
(* What TLAPS proves of a member that catches up over the group log: for   *)
(* any number of joins, any log capacity and any chunking, sequence        *)
(* numbers are never reused and the cursor passes no commit that the       *)
(* member still lacks, until a relay loses a log it kept in RAM.           *)
(*                                                                         *)
(* What a batch does is a recursion over its records; it is taken apart    *)
(* with the least number at which a claim about it fails.                  *)
(***************************************************************************)
EXTENDS GroupRecovery, Integers, FiniteSetTheorems, SequenceTheorems, WellFoundedInduction,
        TLAPS

-----------------------------------------------------------------------------
(* The inductive invariant, in parts. *)

Commit(r) == r.kind = "commit"
Owed(kind) == [seq |-> 0, kind |-> kind, epoch |-> groupEpoch]

\* The owner owes the records of its last join: both, the commit, or none.
OwedInv ==
    \/ owed = << >> \/ owed = <<Owed("commit")>>
    \/ \E kind \in {"mine", "foreign"} : owed = <<Owed(kind), Owed("commit")>>

\* Sequence numbers are below the watermark: those of the stored records, and of all there
\* ever were unless a relay forgot its log.
SeqInv ==
    /\ IsFiniteSet(appended) /\ log \subseteq appended
    /\ \A r \in appended : 1 <= r.seq
    /\ \A r \in log : r.seq < nextSeq
    /\ ~forgot => \A r \in appended : r.seq < nextSeq

\* A sequence number names one stored record, a new log or an old one.
StoredOnce == \A r, s \in log : r.seq = s.seq => r = s

\* No commit got into the log of a join whose records are still owed, and the commits came
\* in the order of their epochs.
CommitInv ==
    /\ owed # << >> => 1 <= groupEpoch
    /\ \A r \in appended : Commit(r) =>
          /\ 1 <= r.epoch /\ r.epoch <= groupEpoch
          /\ owed # << >> => r.epoch < groupEpoch
          /\ ~forgot => \A s \in appended : (Commit(s) /\ r.epoch < s.epoch) => r.seq < s.seq

\* Whatever a reply or a pass carries was stored once.
Carried == [records: Seq(appended), done: BOOLEAN]
CarryInv == wire \in Seq(Carried) /\ chan \in Seq(Carried) /\ drv.got \in Seq(appended)

\* No commit at or below sequence c is beyond epoch e, unless one before it was never stored.
SkipsNone(c, e) ==
    \A r \in appended :
        (Commit(r) /\ r.seq <= c) => r.epoch <= e \/ \E x \in 1..r.epoch : ~Logged(x)

\* While the log is remembered, a cursor c at epoch e is below the watermark and skips none.
Reached(c, e) == ~forgot => c < nextSeq /\ SkipsNone(c, e)

ReachInv == epoch <= groupEpoch /\ Reached(cursor, epoch)

RecoveryInv ==
    /\ RecoveryTypeOK /\ OwedInv /\ SeqInv /\ StoredOnce /\ SeqNamesOne /\ CommitInv
    /\ CarryInv /\ ReachInv

-----------------------------------------------------------------------------
(* A pass over a batch. *)

\* A set of natural numbers that is not empty has a least one.
LEMMA LeastNatural ==
    ASSUME NEW T, T \subseteq Nat, T # {}
    PROVE  \E n \in T : \A m \in T : n <= m
<1>1. PICK n \in T : \A m \in T : ~(<<m, n>> \in OpToRel(<, Nat))
  BY NatLessThanWellFounded, WFMin, Zenon
<1>2. ASSUME NEW m \in T, m < n  PROVE FALSE
  <2>1. <<m, n>> \in Nat \X Nat  OBVIOUS
  <2>2. <<m, n>>[1] < <<m, n>>[2]  BY <1>2
  <2>3. <<m, n>> \in OpToRel(<, Nat)  BY <2>1, <2>2, Zenon DEF OpToRel
  <2> QED BY <1>1, <2>3
<1> QED BY <1>2

\* The recursion of Run, over the first N entries of b.
Recursion(N, b, z) ==
    LET run[n \in 0..N] == IF n = 0 THEN z ELSE Step(run[n - 1], b[n]) IN run[N]

\* A recursion over the first N numbers, whose values stay in a set G that its step keeps,
\* is what its equation says it is.
LEMMA RecursionStays ==
    ASSUME NEW N \in Nat, NEW b, NEW G, NEW z \in G,
           \A s \in G : \A n \in 1..N : Step(s, b[n]) \in G
    PROVE  Recursion(N, b, z) \in G
<1> DEFINE Good(f, m) == f[0] = z /\ \A n \in 1..m : f[n] = Step(f[n-1], b[n])
           T == {m \in 0..N : ~\E f \in [0..m -> G] : Good(f, m)}
           Eq(g) == g = [n \in 0..N |-> IF n = 0 THEN z ELSE Step(g[n-1], b[n])]
<1>1. T = {}
  <2>1. SUFFICES ASSUME T # {}  PROVE FALSE  OBVIOUS
  <2>2. T \subseteq Nat  OBVIOUS
  <2>3. PICK m \in T : \A k \in T : m <= k
    <3> HIDE DEF T
    <3> QED BY <2>1, <2>2, LeastNatural
  <2>4. m \in 0..N /\ ~\E f \in [0..m -> G] : Good(f, m)  OBVIOUS
  <2>5. m # 0
    <3>1. SUFFICES ASSUME m = 0  PROVE FALSE  OBVIOUS
    <3>2. [n \in 0..0 |-> z] \in [0..m -> G] /\ Good([n \in 0..0 |-> z], m)
      BY <3>1
    <3> QED BY <3>2, <2>4
  <2>6. m - 1 \in 0..N /\ m \in 1..N  BY <2>4, <2>5
  <2>7. m - 1 \notin T
    <3>1. ~(m <= m - 1)  BY <2>6
    <3> HIDE DEF T
    <3> QED BY <2>3, <3>1
  <2>8. PICK g \in [0..(m-1) -> G] : Good(g, m - 1)  BY <2>6, <2>7
  <2> DEFINE h == [n \in 0..m |-> IF n = m THEN Step(g[m-1], b[m]) ELSE g[n]]
  <2>9. Step(g[m-1], b[m]) \in G  BY <2>6, <2>8
  <2>10. h \in [0..m -> G]  BY <2>6, <2>8, <2>9
  <2>11. Good(h, m)
    <3>1. h[0] = z  BY <2>6, <2>8
    <3>2. ASSUME NEW n \in 1..m  PROVE h[n] = Step(h[n-1], b[n])
      BY <2>6, <2>8
    <3> HIDE DEF h
    <3> QED BY <3>1, <3>2
  <2> QED BY <2>4, <2>10, <2>11
<1>2. PICK f \in [0..N -> G] : Good(f, N)
  BY <1>1
<1>3. Eq(f)
  BY <1>2
<1>4. PICK r : r = (CHOOSE g : Eq(g))  OBVIOUS
<1>5. Eq(r)
  <2> HIDE DEF Eq
  <2> QED BY <1>3, <1>4
<1>6. r[0] = z /\ \A n \in 1..N : r[n] = Step(r[n-1], b[n])  BY <1>5
<1> DEFINE U == {n \in 0..N : r[n] \notin G}
<1>7. U = {}
  <2>1. SUFFICES ASSUME U # {}  PROVE FALSE  OBVIOUS
  <2>2. U \subseteq Nat  OBVIOUS
  <2>3. PICK m \in U : \A k \in U : m <= k
    <3> HIDE DEF U
    <3> QED BY <2>1, <2>2, LeastNatural
  <2>4. m \in 1..N /\ m - 1 \in 0..N  BY <1>6
  <2>5. r[m-1] \in G  BY <2>3, <2>4
  <2> QED BY <1>6, <2>4, <2>5
<1>8. r[N] \in G  BY <1>7
<1> QED BY <1>4, <1>8, Zenon DEF Recursion

Passes == [c: Nat, e: Nat, gap: BOOLEAN]

\* A pass that has skipped nothing.
Sound ==
    {s \in Passes : epoch <= s.e /\ s.e <= groupEpoch /\ Reached(s.c, s.e)}

\* The numbers of a typed state.
LEMMA RecoveryTypes ==
    ASSUME RecoveryTypeOK
    PROVE  /\ epoch \in Nat /\ groupEpoch \in Nat /\ cursor \in Nat /\ nextSeq \in Nat \ {0}
           /\ appended \subseteq LogRecord
           /\ \A r \in appended : r.seq \in Nat /\ r.epoch \in Nat /\ r.kind \in Kinds
BY RecoveryAssumption DEF RecoveryTypeOK, LogRecord

\* A stored record takes a pass that has skipped nothing to one that has skipped nothing:
\* the commit it may apply is the next one, and if it is further ahead, then a commit
\* before it is either behind the cursor, where nothing was skipped, or was never stored.
LEMMA StepSound ==
    ASSUME RecoveryInv, NEW s \in Sound, NEW r \in appended
    PROVE  Step(s, r) \in Sound
<1>1. /\ epoch \in Nat /\ groupEpoch \in Nat /\ nextSeq \in Nat
      /\ \A q \in appended : q.seq \in Nat /\ q.epoch \in Nat
  BY RecoveryTypes DEF RecoveryInv
<1>2. /\ s \in Passes /\ s.c \in Nat /\ s.e \in Nat /\ epoch <= s.e
      /\ s.e <= groupEpoch /\ Reached(s.c, s.e)
  BY DEF Sound, Passes
<1>3. CASE s.gap \/ r.seq <= s.c
  BY <1>3 DEF Step
<1>4. CASE ~s.gap /\ r.seq = s.c + 1
  <2> DEFINE e == After(s.e, r)
             new == [c |-> r.seq, e |-> e, gap |-> FALSE]
  <2>1. Step(s, r) = new
    BY <1>1, <1>2, <1>4 DEF Step
  <2>2. e \in Nat /\ s.e <= e /\ (Commit(r) /\ r.epoch = s.e + 1 => e = s.e + 1)
    BY <1>2 DEF After, Commit
  <2>3. e <= groupEpoch
    BY <1>1, <1>2 DEF After, Commit, RecoveryInv, CommitInv
  <2> HIDE DEF e
  <2>4. ASSUME ~forgot  PROVE SkipsNone(r.seq, e)
    <3>1. SUFFICES ASSUME NEW q \in appended, Commit(q), q.seq <= r.seq, ~(q.epoch <= e)
                   PROVE  \E x \in 1..q.epoch : ~Logged(x)
      BY DEF SkipsNone
    <3>0. SkipsNone(s.c, s.e)  BY <1>2, <2>4 DEF Reached
    <3>2. CASE q.seq <= s.c
      <4>1. ~(q.epoch <= s.e)  BY <1>1, <1>2, <2>2, <3>1
      <4> QED BY <3>0, <3>1, <3>2, <4>1 DEF SkipsNone
    <3>3. CASE q.seq = r.seq
      <4>1. q = r  BY <2>4, <3>3 DEF RecoveryInv, SeqNamesOne
      <4>2. s.e + 1 \in 1..q.epoch /\ s.e + 1 < q.epoch
        BY <1>1, <1>2, <2>2, <3>1, <4>1
      <4>3. ASSUME Logged(s.e + 1)  PROVE \E x \in 1..q.epoch : ~Logged(x)
        <5>1. PICK l \in appended : Commit(l) /\ l.epoch = s.e + 1  BY <4>3 DEF Logged, Commit
        <5>2. l.seq < q.seq  BY <2>4, <3>1, <4>2, <5>1 DEF RecoveryInv, CommitInv
        <5>3. l.seq <= s.c /\ ~(l.epoch <= s.e)  BY <1>1, <1>2, <1>4, <3>3, <5>1, <5>2
        <5>4. PICK x \in 1..l.epoch : ~Logged(x)  BY <3>0, <5>1, <5>3 DEF SkipsNone
        <5>5. x \in 1..q.epoch  BY <1>1, <4>2, <5>1, <5>4
        <5> QED BY <5>4, <5>5
      <4> QED BY <4>2, <4>3
    <3> QED BY <1>1, <1>2, <1>4, <3>1, <3>2, <3>3
  <2>5. new.c = r.seq /\ new.e = e /\ new \in Passes
    BY <1>1, <2>2 DEF Passes
  <2>6. Reached(r.seq, e)  BY <2>4 DEF RecoveryInv, SeqInv, Reached
  <2> HIDE DEF new
  <2> QED BY <1>1, <1>2, <2>1, <2>2, <2>3, <2>5, <2>6 DEF Sound
<1>5. CASE ~s.gap /\ r.seq > s.c /\ r.seq # s.c + 1
  <2>1. Step(s, r) = [s EXCEPT !.gap = TRUE]  BY <1>1, <1>2, <1>5 DEF Step
  <2>2. /\ [s EXCEPT !.gap = TRUE].c = s.c /\ [s EXCEPT !.gap = TRUE].e = s.e
        /\ [s EXCEPT !.gap = TRUE] \in Passes
    BY <1>2 DEF Passes
  <2> QED BY <1>2, <2>1, <2>2 DEF Sound
<1> QED BY <1>1, <1>2, <1>3, <1>4, <1>5

\* Whatever a pass carries, applying it skips nothing.
LEMMA RunSound ==
    ASSUME RecoveryInv, NEW batch \in Seq(appended)
    PROVE  Run(batch) \in Sound
<1>1. Len(batch) \in Nat /\ \A n \in 1..Len(batch) : batch[n] \in appended
  BY LenProperties, ElementOfSeq
<1>2. Begun \in Sound
  <2>1. Begun \in Passes /\ Begun.c = cursor /\ Begun.e = epoch
    BY RecoveryTypes DEF RecoveryInv, Begun, Passes
  <2> QED BY <2>1, RecoveryTypes DEF RecoveryInv, ReachInv, Sound
<1>3. \A s \in Sound : \A n \in 1..Len(batch) : Step(s, batch[n]) \in Sound
  BY <1>1, StepSound
<1>4. Recursion(Len(batch), batch, Begun) \in Sound
  BY <1>1, <1>2, <1>3, RecursionStays, Zenon
<1>5. Run(batch) = Recursion(Len(batch), batch, Begun)
  BY Zenon DEF Run, Recursion
<1> QED BY <1>4, <1>5, Zenon

-----------------------------------------------------------------------------
(* The owner and the log. *)

\* Nothing that the invariant says of the log and of the member changes.
LogSame == UNCHANGED <<log, nextSeq, appended, forgot, groupEpoch, owed, epoch, cursor>>

\* Such a step keeps the invariant if it keeps the types and what is carried.
LEMMA SameStep ==
    ASSUME RecoveryInv, LogSame, RecoveryTypeOK', CarryInv'
    PROVE  RecoveryInv'
BY DEF RecoveryInv, LogSame, OwedInv, Owed, SeqInv, StoredOnce, SeqNamesOne, CommitInv, Commit,
       ReachInv, Reached, SkipsNone, Logged

\* What was stored once stays stored, so what is carried stays so.
LEMMA CarryGrows ==
    ASSUME CarryInv, appended \subseteq appended', UNCHANGED <<wire, chan, drv>>
    PROVE  CarryInv'
<1>1. Seq(appended) \subseteq Seq(appended')  BY SeqMonotonic
<1>2. Carried \subseteq Carried'  BY <1>1 DEF Carried
<1>3. Seq(Carried) \subseteq Seq(Carried')  BY <1>2, SeqMonotonic
<1> QED BY <1>1, <1>3 DEF CarryInv

\* A join: the epoch advances and its two records are owed.
LEMMA OwnerJoinsStep ==
    ASSUME RecoveryInv, NEW kind \in {"mine", "foreign"}, OwnerJoins(kind)
    PROVE  RecoveryInv'
<1>1. /\ groupEpoch' = groupEpoch + 1 /\ groupEpoch < MaxJoins /\ groupEpoch \in Nat
      /\ owed = << >> /\ owed' = <<Owed(kind)', Owed("commit")'>>
      /\ UNCHANGED <<log, nextSeq, appended, forgot, epoch, cursor, requests, wire, chan, drv,
                     status, engineA, daemon, setbacks>>
  BY RecoveryTypes DEF OwnerJoins, Owed, RecoveryInv
<1>2. Owed(kind)' \in LogRecord /\ Owed("commit")' \in LogRecord
  BY <1>1 DEF Owed, LogRecord, Kinds
<1>3. owed' \in Seq(LogRecord)  BY <1>1, <1>2
<1>4. RecoveryTypeOK'
  BY <1>1, <1>3, RecoveryAssumption DEF RecoveryInv, RecoveryTypeOK
<1>5. OwedInv'  BY <1>1 DEF OwedInv
<1>6. SeqInv' /\ StoredOnce' /\ SeqNamesOne'
  BY <1>1 DEF RecoveryInv, SeqInv, StoredOnce, SeqNamesOne
<1>7. CommitInv'
  BY <1>1, RecoveryTypes DEF RecoveryInv, CommitInv, Commit
<1>8. CarryInv'  BY <1>1, CarryGrows DEF RecoveryInv
<1>9. ReachInv'
  BY <1>1, RecoveryTypes DEF RecoveryInv, ReachInv, Reached, SkipsNone, Commit, Logged
<1> QED BY <1>4, <1>5, <1>6, <1>7, <1>8, <1>9 DEF RecoveryInv

\* An append: the watermark names the record, past the cursor and past all others.
LEMMA StoreStep ==
    ASSUME RecoveryInv, AppendOwed(FALSE)
    PROVE  RecoveryInv'
<1> DEFINE new == [Head(owed) EXCEPT !.seq = nextSeq]
<1>1. /\ owed # << >> /\ owed' = Tail(owed)
      /\ log' \subseteq log \cup {new} /\ appended' = appended \cup {new} /\ nextSeq' = nextSeq + 1
      /\ UNCHANGED <<forgot, groupEpoch, epoch, cursor, requests, wire, chan, drv, status, engineA,
                     daemon, setbacks>>
  BY DEF AppendOwed, StoreRecord
<1>2. /\ nextSeq \in Nat \ {0} /\ groupEpoch \in Nat /\ cursor \in Nat /\ epoch \in Nat
      /\ \A r \in appended : r.seq \in Nat /\ r.epoch \in Nat
  BY RecoveryTypes DEF RecoveryInv
<1>3. /\ Head(owed) \in LogRecord /\ Head(owed).epoch = groupEpoch
      /\ owed' = << >> \/ owed' = <<Owed("commit")>>
      /\ Head(owed).kind = "commit" => owed' = << >>
      /\ owed' \in Seq(LogRecord)
  <2>1. CASE owed = <<Owed("commit")>>
    BY <1>1, <1>2, <2>1 DEF Owed, LogRecord, Kinds
  <2>2. ASSUME NEW kind \in {"mine", "foreign"}, owed = <<Owed(kind), Owed("commit")>>
        PROVE  /\ Head(owed) \in LogRecord /\ Head(owed).epoch = groupEpoch
               /\ owed' = <<Owed("commit")>> /\ Head(owed).kind # "commit"
               /\ owed' \in Seq(LogRecord)
    <3>1. Head(owed) = Owed(kind) /\ owed' = <<Owed("commit")>>  BY <1>1, <2>2
    <3>2. Owed(kind) \in LogRecord /\ Owed("commit") \in LogRecord /\ Owed(kind).kind = kind
          /\ Owed(kind).epoch = groupEpoch
      BY <1>2 DEF Owed, LogRecord, Kinds
    <3> HIDE DEF Owed
    <3> QED BY <3>1, <3>2
  <2> QED BY <1>1, <2>1, <2>2 DEF RecoveryInv, OwedInv
<1>4. /\ new \in LogRecord /\ new.seq = nextSeq /\ new.epoch = groupEpoch
      /\ new.kind = Head(owed).kind
  BY <1>2, <1>3 DEF LogRecord
<1> HIDE DEF new
<1>5. RecoveryTypeOK'
  <2>1. log' \in SUBSET LogRecord /\ appended' \in SUBSET LogRecord /\ nextSeq' \in Nat \ {0}
    BY <1>1, <1>2, <1>4 DEF RecoveryInv, RecoveryTypeOK
  <2> QED BY <1>1, <1>3, <2>1 DEF RecoveryInv, RecoveryTypeOK
<1>6. OwedInv'
  <2>1. Owed("commit")' = Owed("commit")  BY <1>1 DEF Owed
  <2> QED BY <1>3, <2>1 DEF OwedInv
<1>7. SeqInv'
  BY <1>1, <1>2, <1>4, FS_AddElement DEF RecoveryInv, SeqInv
<1>8. StoredOnce' /\ SeqNamesOne'
  <2>1. StoredOnce'
    BY <1>1, <1>2, <1>4 DEF RecoveryInv, SeqInv, StoredOnce
  <2>2. CASE ~forgot
    <3>1. \A r, s \in appended : r.seq = s.seq => r = s
      BY <2>2 DEF RecoveryInv, SeqNamesOne
    <3>2. \A r \in appended : r.seq < nextSeq
      BY <2>2 DEF RecoveryInv, SeqInv
    <3>3. \A r, s \in appended' : r.seq = s.seq => r = s
      BY <1>1, <1>2, <1>4, <3>1, <3>2
    <3>4. ~forgot'  BY <1>1, <2>2
    <3> QED BY <2>1, <3>3, <3>4 DEF SeqNamesOne
  <2>3. CASE forgot
    BY <1>1, <2>1, <2>3 DEF StoredOnce, SeqNamesOne
  <2> QED BY <2>1, <2>2, <2>3
<1>9. CommitInv'
  <2>1. \A r \in appended : Commit(r) => /\ r.epoch < groupEpoch /\ 1 <= r.epoch
                                         /\ ~forgot => r.seq < nextSeq
    BY <1>1 DEF RecoveryInv, CommitInv, SeqInv
  <2>2. Commit(new) => 1 <= groupEpoch /\ owed' = << >>
    BY <1>1, <1>3, <1>4 DEF Commit, RecoveryInv, CommitInv
  <2>3. ASSUME NEW r \in appended', Commit(r)
        PROVE  /\ 1 <= r.epoch /\ r.epoch <= groupEpoch'
               /\ owed' # << >> => r.epoch < groupEpoch'
               /\ ~forgot' =>
                     \A s \in appended' : (Commit(s) /\ r.epoch < s.epoch) => r.seq < s.seq
    <3>1. CASE r \in appended
      BY <1>1, <1>2, <1>4, <2>1, <2>3, <3>1 DEF RecoveryInv, CommitInv
    <3>2. CASE r = new
      BY <1>1, <1>2, <1>4, <2>1, <2>2, <2>3, <3>2
    <3> QED BY <1>1, <3>1, <3>2
  <2> QED BY <1>1, <2>2, <2>3, <1>3, <1>2 DEF CommitInv, Commit, RecoveryInv
<1>10. CarryInv'  BY <1>1, CarryGrows DEF RecoveryInv
<1>11. ReachInv'
  <2>1. epoch' <= groupEpoch' /\ (~forgot => cursor' < nextSeq')
    BY <1>1, <1>2 DEF RecoveryInv, ReachInv, Reached
  <2>2. SUFFICES ASSUME ~forgot, NEW r \in appended', Commit(r), r.seq <= cursor,
                        ~(r.epoch <= epoch)
                 PROVE  \E x \in 1..r.epoch : ~Logged(x)'
    BY <1>1, <2>1 DEF ReachInv, Reached, SkipsNone, Commit
  <2>3. r \in appended /\ r.epoch < groupEpoch
    BY <1>1, <1>2, <1>4, <2>2 DEF RecoveryInv, ReachInv, Reached, CommitInv
  <2>4. PICK x \in 1..r.epoch : ~Logged(x)
    BY <2>2, <2>3 DEF RecoveryInv, ReachInv, Reached, SkipsNone
  <2>5. ~Logged(x)'
    BY <1>1, <1>2, <1>4, <2>3, <2>4 DEF Logged
  <2> QED BY <2>4, <2>5
<1> QED BY <1>5, <1>6, <1>7, <1>8, <1>9, <1>10, <1>11 DEF RecoveryInv

\* A setback is counted.
LEMMA SetbackCounted ==
    ASSUME RecoveryTypeOK, Setback
    PROVE  setbacks' \in 0..MaxSetbacks
BY RecoveryAssumption DEF RecoveryTypeOK, Setback

\* An append is lost: nothing is stored, and the record is not owed any more.
LEMMA LoseStep ==
    ASSUME RecoveryInv, AppendOwed(TRUE)
    PROVE  RecoveryInv'
<1>1. /\ owed # << >> /\ owed' = Tail(owed) /\ setbacks' \in 0..MaxSetbacks
      /\ UNCHANGED <<log, nextSeq, appended, forgot, groupEpoch, epoch, cursor, requests, wire,
                     chan, drv, status, engineA, daemon>>
  BY SetbackCounted DEF AppendOwed, RecoveryInv
<1>2. owed' = << >> \/ owed' = <<Owed("commit")>>
  <2>1. CASE owed = <<Owed("commit")>>  BY <1>1, <2>1
  <2>2. ASSUME NEW kind \in {"mine", "foreign"}, owed = <<Owed(kind), Owed("commit")>>
        PROVE  owed' = <<Owed("commit")>>
    BY <1>1, <2>2
  <2> QED BY <1>1, <2>1, <2>2 DEF RecoveryInv, OwedInv
<1>3. owed' \in Seq(LogRecord)
  BY <1>1, HeadTailProperties DEF RecoveryInv, RecoveryTypeOK
<1>4. RecoveryTypeOK'  BY <1>1, <1>3 DEF RecoveryInv, RecoveryTypeOK
<1>5. OwedInv'
  <2>1. Owed("commit")' = Owed("commit")  BY <1>1 DEF Owed
  <2> QED BY <1>2, <2>1 DEF OwedInv
<1>6. SeqInv' /\ StoredOnce' /\ SeqNamesOne' /\ CommitInv'
  BY <1>1 DEF RecoveryInv, SeqInv, StoredOnce, SeqNamesOne, CommitInv, Commit
<1>7. CarryInv'  BY <1>1, CarryGrows DEF RecoveryInv
<1>8. ReachInv'  BY <1>1 DEF RecoveryInv, ReachInv, Reached, SkipsNone, Commit, Logged
<1> QED BY <1>4, <1>5, <1>6, <1>7, <1>8 DEF RecoveryInv

\* The retention window passes for a record.
LEMMA SweepStep ==
    ASSUME RecoveryInv, SweepLog
    PROVE  RecoveryInv'
<1>1. /\ log' \subseteq log /\ setbacks' \in 0..MaxSetbacks
      /\ UNCHANGED <<nextSeq, appended, forgot, groupEpoch, owed, epoch, cursor, requests, wire,
                     chan, drv, status, engineA, daemon>>
  BY SetbackCounted DEF SweepLog, RecoveryInv
<1>2. RecoveryTypeOK'  BY <1>1 DEF RecoveryInv, RecoveryTypeOK
<1>3. OwedInv' /\ SeqInv' /\ StoredOnce' /\ SeqNamesOne' /\ CommitInv'
  BY <1>1 DEF RecoveryInv, OwedInv, Owed, SeqInv, StoredOnce, SeqNamesOne, CommitInv, Commit
<1>4. CarryInv'  BY <1>1, CarryGrows DEF RecoveryInv
<1>5. ReachInv'  BY <1>1 DEF RecoveryInv, ReachInv, Reached, SkipsNone, Commit, Logged
<1> QED BY <1>2, <1>3, <1>4, <1>5 DEF RecoveryInv

\* The relay's process restarts.  A log in RAM is gone, and with it all that is claimed of
\* the records there were; what the member applied it keeps.
LEMMA RelayRestartsStep ==
    ASSUME RecoveryInv, NEW ram \in BOOLEAN, RelayRestarts(ram)
    PROVE  RecoveryInv'
<1>1. /\ requests' = << >> /\ wire' = << >> /\ setbacks' \in 0..MaxSetbacks
      /\ UNCHANGED <<appended, groupEpoch, owed, epoch, cursor, chan, drv, status, engineA, daemon>>
  BY SetbackCounted DEF RelayRestarts, RecoveryInv
<1>2. \/ log' = {} /\ nextSeq' = 1 /\ forgot' = TRUE
      \/ UNCHANGED <<log, nextSeq, forgot>>
  BY DEF RelayRestarts
<1>3. RecoveryTypeOK'
  <2>1. << >> \in Seq(Nat) /\ << >> \in Seq(LogFrame)  OBVIOUS
  <2>2. log' \in SUBSET LogRecord /\ nextSeq' \in Nat \ {0}
    BY <1>2 DEF RecoveryInv, RecoveryTypeOK
  <2> QED BY <1>1, <2>1, <2>2 DEF RecoveryInv, RecoveryTypeOK
<1>4. OwedInv'  BY <1>1 DEF RecoveryInv, OwedInv, Owed
<1>5. CarryInv'
  <2>1. << >> \in Seq(Carried)  OBVIOUS
  <2> QED BY <1>1, <2>1 DEF RecoveryInv, CarryInv, Carried
<1>6. CASE log' = {} /\ nextSeq' = 1 /\ forgot' = TRUE
  BY <1>1, <1>3, <1>4, <1>5, <1>6
     DEF RecoveryInv, SeqInv, StoredOnce, SeqNamesOne, CommitInv, Commit, ReachInv, Reached
<1>7. CASE UNCHANGED <<log, nextSeq, forgot>>
  BY <1>1, <1>3, <1>5, <1>7, SameStep DEF LogSame
<1> QED BY <1>2, <1>6, <1>7

\* A higher epoch skips less.
LEMMA SkipsLess ==
    ASSUME RecoveryTypeOK, NEW c \in Nat, NEW e \in Nat, NEW f \in Nat, e <= f, Reached(c, e)
    PROVE  Reached(c, f)
BY RecoveryTypes DEF Reached, SkipsNone

\* The member's epoch moves up to the owner's at most, the cursor where it skips nothing.
LEMMA MemberMoves ==
    ASSUME RecoveryInv, UNCHANGED <<log, nextSeq, appended, forgot, groupEpoch, owed>>,
           RecoveryTypeOK', CarryInv', epoch' <= groupEpoch, Reached(cursor', epoch')
    PROVE  RecoveryInv'
BY DEF RecoveryInv, OwedInv, Owed, SeqInv, StoredOnce, SeqNamesOne, CommitInv, Commit, ReachInv,
       Reached, SkipsNone, Logged

\* A live commit is applied.
LEMMA LiveStep ==
    ASSUME RecoveryInv, LiveCommit
    PROVE  RecoveryInv'
<1>1. /\ epoch' = epoch + 1 /\ epoch < groupEpoch
      /\ UNCHANGED <<log, nextSeq, appended, forgot, groupEpoch, owed, cursor, requests, wire,
                     chan, drv, status, engineA, daemon, setbacks>>
  BY DEF LiveCommit
<1>2. epoch \in Nat /\ groupEpoch \in 0..MaxJoins /\ cursor \in Nat
  BY RecoveryTypes DEF RecoveryInv, RecoveryTypeOK
<1>3. epoch' \in 0..MaxJoins /\ epoch' \in Nat /\ epoch' <= groupEpoch /\ epoch <= epoch'
  BY <1>1, <1>2, RecoveryAssumption
<1>4. RecoveryTypeOK'  BY <1>1, <1>3 DEF RecoveryInv, RecoveryTypeOK
<1>5. Reached(cursor, epoch')  BY <1>2, <1>3, SkipsLess DEF RecoveryInv, ReachInv
<1>6. CarryInv'  BY <1>1, CarryGrows DEF RecoveryInv
<1> QED BY <1>1, <1>3, <1>4, <1>5, <1>6, MemberMoves DEF RecoveryInv, ReachInv

-----------------------------------------------------------------------------
(* Replies. *)

\* The chunks of an ordered set of stored records carry only stored records.
LEMMA ChunksCarry ==
    ASSUME RecoveryInv, NEW S \in SUBSET appended, NEW q \in InSeqOrder(S)
    PROVE  Chunks(q) \in Seq(Carried)
<1>1. Cardinality(S) \in Nat
  BY FS_Subset, FS_CardinalityType DEF RecoveryInv, SeqInv
<1>2. q \in Seq(S)  BY <1>1 DEF InSeqOrder
<1>3. Len(q) \in Nat /\ \A i \in 1..Len(q) : q[i] \in appended
  BY <1>2, LenProperties, ElementOfSeq
<1> DEFINE n == IF q = << >> THEN 1 ELSE (Len(q) + Chunk - 1) \div Chunk
           lo(i) == (i - 1) * Chunk + 1
           hi(i) == IF i * Chunk < Len(q) THEN i * Chunk ELSE Len(q)
           f(i) == [records |-> SubSeq(q, lo(i), hi(i)), done |-> i = n]
<1>4. n \in Nat
  <2>1. ASSUME NEW a \in Nat  PROVE a \div Chunk \in Nat  BY RecoveryAssumption
  <2>2. Len(q) + Chunk - 1 \in Nat  BY <1>3, RecoveryAssumption
  <2> QED BY <2>1, <2>2
<1> HIDE DEF n
<1>5. ASSUME NEW i \in 1..n  PROVE f(i) \in Carried
  <2>1. (i - 1) * Chunk \in Nat /\ i * Chunk \in Nat
    <3>1. \A a \in Nat : a * Chunk \in Nat  BY RecoveryAssumption
    <3>2. i - 1 \in Nat /\ i \in Nat  BY <1>4
    <3> QED BY <3>1, <3>2
  <2>2. lo(i) \in Int /\ hi(i) \in Int /\ 1 <= lo(i) /\ hi(i) <= Len(q)
    BY <1>3, <2>1
  <2> HIDE DEF lo, hi
  <2>3. \A j \in lo(i)..hi(i) : q[j] \in appended
    BY <1>3, <2>2
  <2>4. SubSeq(q, lo(i), hi(i)) \in Seq(appended)
    BY <2>2, <2>3, SubSeqProperties
  <2> QED BY <2>4 DEF Carried
<1>6. [i \in 1..n |-> f(i)] \in Seq(Carried)
  <2> HIDE DEF f
  <2> QED BY <1>4, <1>5
<1> QED BY <1>6 DEF Chunks, n

\* The relay answers a fetch, whole or cut short.
LEMMA ServeStep ==
    ASSUME RecoveryInv, Serve
    PROVE  RecoveryInv'
<1>1. /\ requests # << >> /\ requests' = Tail(requests)
      /\ UNCHANGED <<log, nextSeq, appended, forgot, groupEpoch, owed, epoch, cursor, chan, drv,
                     status, engineA, daemon>>
  BY DEF Serve
<1>2. PICK q \in InSeqOrder({r \in log : r.seq > Head(requests) /\ Visible(r)}) :
         \/ wire' = wire \o Chunks(q) /\ UNCHANGED setbacks
         \/ /\ Setback
            /\ \E n \in 0..Len(Chunks(q)) - 1 : wire' = wire \o SubSeq(Chunks(q), 1, n)
  BY DEF Serve
<1>3. {r \in log : r.seq > Head(requests) /\ Visible(r)} \in SUBSET appended
  BY DEF RecoveryInv, SeqInv
<1>4. Chunks(q) \in Seq(Carried)  BY <1>2, <1>3, ChunksCarry
<1>5. PICK reply \in Seq(Carried) : wire' = wire \o reply
  <2>1. CASE wire' = wire \o Chunks(q)  BY <1>4, <2>1
  <2>2. ASSUME NEW n \in 0..Len(Chunks(q)) - 1, wire' = wire \o SubSeq(Chunks(q), 1, n)
        PROVE  SubSeq(Chunks(q), 1, n) \in Seq(Carried)
    <3>1. Len(Chunks(q)) \in Nat /\ \A i \in 1..Len(Chunks(q)) : Chunks(q)[i] \in Carried
      BY <1>4, LenProperties, ElementOfSeq
    <3>2. n \in Int /\ 1 \in Int /\ \A i \in 1..n : Chunks(q)[i] \in Carried  BY <3>1
    <3> QED BY <3>2, SubSeqProperties
  <2> QED BY <1>2, <2>1, <2>2
<1>6. wire' \in Seq(Carried)  BY <1>5, ConcatProperties DEF RecoveryInv, CarryInv
<1>7. Carried' = Carried  BY <1>1 DEF Carried
<1>8. CarryInv'  BY <1>1, <1>6, <1>7 DEF RecoveryInv, CarryInv
<1>9. Seq(Carried) \subseteq Seq(LogFrame)
  <2>1. Seq(appended) \subseteq Seq(LogRecord)
    BY SeqMonotonic, RecoveryTypes DEF RecoveryInv
  <2>2. Carried \subseteq LogFrame  BY <2>1 DEF Carried, LogFrame
  <2> QED BY <2>2, SeqMonotonic
<1>10. requests' \in Seq(Nat)
  BY <1>1, HeadTailProperties DEF RecoveryInv, RecoveryTypeOK
<1>11. setbacks' \in 0..MaxSetbacks
  BY <1>2, SetbackCounted DEF RecoveryInv, RecoveryTypeOK
<1>12. RecoveryTypeOK'
  BY <1>1, <1>6, <1>9, <1>10, <1>11 DEF RecoveryInv, RecoveryTypeOK
<1> QED BY <1>1, <1>8, <1>12, SameStep DEF LogSame

\* A chunk arrives at the member.
LEMMA ArrivesStep ==
    ASSUME RecoveryInv, ChunkArrives
    PROVE  RecoveryInv'
<1>1. /\ wire # << >> /\ wire' = Tail(wire) /\ chan' = Append(chan, Head(wire)) /\ LogSame
      /\ UNCHANGED <<requests, drv, status, engineA, daemon, setbacks>>
  BY DEF ChunkArrives, LogSame
<1>2. wire' \in Seq(Carried) /\ chan' \in Seq(Carried)
  BY <1>1, HeadTailProperties, AppendProperties DEF RecoveryInv, CarryInv
<1>3. wire' \in Seq(LogFrame) /\ chan' \in Seq(LogFrame)
  BY <1>1, HeadTailProperties, AppendProperties DEF RecoveryInv, RecoveryTypeOK
<1>4. RecoveryTypeOK'  BY <1>1, <1>3 DEF RecoveryInv, RecoveryTypeOK, LogSame
<1>5. CarryInv'  BY <1>1, <1>2 DEF RecoveryInv, CarryInv, Carried, LogSame
<1> QED BY <1>1, <1>4, <1>5, SameStep

-----------------------------------------------------------------------------
(* The recovery pass. *)

PassType == [at: {"idle", "probe", "fetch", "await", "apply"}, target: 0..MaxJoins,
             got: Seq(LogRecord)]

\* No pass is a pass.
LEMMA NoPassTyped == NoPass \in PassType /\ NoPass.got = << >>
BY RecoveryAssumption DEF NoPass, PassType

\* Steps of the pass that move neither the log nor the member.
PassMoves ==
    /\ LogSame /\ UNCHANGED <<wire, daemon, setbacks>>
    /\ chan' = chan \/ chan' = << >> \/ (chan # << >> /\ chan' = Tail(chan))
    /\ requests' \in {requests, Append(requests, cursor)}
    /\ drv' \in PassType /\ drv'.got \in Seq(appended)
    /\ status' \in {"live", "reconnecting"} /\ engineA' \in BOOLEAN

\* They keep the invariant.
LEMMA PassStep ==
    ASSUME RecoveryInv, PassMoves
    PROVE  RecoveryInv'
<1>1. chan' \in Seq(Carried) /\ chan' \in Seq(LogFrame)
  <2>1. CASE chan' = chan  BY <2>1 DEF RecoveryInv, CarryInv, RecoveryTypeOK
  <2>2. CASE chan' = << >>  BY <2>2
  <2>3. CASE chan' = Tail(chan) /\ chan # << >>
    BY <2>3, HeadTailProperties DEF RecoveryInv, CarryInv, RecoveryTypeOK
  <2> QED BY <2>1, <2>2, <2>3 DEF PassMoves
<1>2. requests' \in Seq(Nat)
  <2>1. cursor \in Nat /\ requests \in Seq(Nat)  BY DEF RecoveryInv, RecoveryTypeOK
  <2>2. Append(requests, cursor) \in Seq(Nat)  BY <2>1, AppendProperties
  <2> QED BY <2>1, <2>2 DEF PassMoves
<1>3. RecoveryTypeOK'
  BY <1>1, <1>2 DEF PassMoves, PassType, RecoveryInv, RecoveryTypeOK, LogSame
<1>4. CarryInv'
  BY <1>1 DEF PassMoves, RecoveryInv, CarryInv, Carried, LogSame
<1> QED BY <1>3, <1>4, SameStep DEF PassMoves

\* The pass in flight.
LEMMA PassTyped ==
    ASSUME RecoveryInv
    PROVE  /\ drv \in PassType /\ drv.got \in Seq(appended) /\ drv.target \in Nat
           /\ << >> \in Seq(appended) /\ << >> \in Seq(LogRecord)
           /\ status \in {"live", "reconnecting"} /\ engineA \in BOOLEAN
BY RecoveryAssumption DEF RecoveryInv, RecoveryTypeOK, CarryInv, PassType

\* A pass is triggered.
LEMMA TriggerStep ==
    ASSUME RecoveryInv, NEW t \in 0..MaxJoins, Trigger(t)
    PROVE  RecoveryInv'
<1>1. [NoPass EXCEPT !.at = "probe", !.target = t] \in PassType
      /\ [NoPass EXCEPT !.at = "probe", !.target = t].got = << >>
  BY NoPassTyped DEF PassType, NoPass
<1>2. PassMoves
  BY <1>1, PassTyped DEF Trigger, PassMoves, LogSame
<1> QED BY <1>2, PassStep

\* The steps of a pass that read.
LEMMA ReadStep ==
    ASSUME RecoveryInv, Probe \/ Fetch \/ Drained
    PROVE  RecoveryInv'
<1>1. CASE Probe
  <2>1. [drv EXCEPT !.at = "fetch"] \in PassType /\ [drv EXCEPT !.at = "fetch"].got = drv.got
    BY PassTyped DEF PassType
  <2>2. PassMoves
    BY <1>1, <2>1, PassTyped, NoPassTyped DEF Probe, PassMoves, LogSame
  <2> QED BY <2>2, PassStep
<1>2. CASE Fetch
  <2>1. /\ [drv EXCEPT !.at = "await", !.got = << >>] \in PassType
        /\ [drv EXCEPT !.at = "await", !.got = << >>].got = << >>
        /\ [drv EXCEPT !.at = "apply", !.got = << >>] \in PassType
        /\ [drv EXCEPT !.at = "apply", !.got = << >>].got = << >>
    BY PassTyped DEF PassType
  <2>2. drv' \in PassType /\ drv'.got = << >>  BY <1>2, <2>1 DEF Fetch
  <2>3. PassMoves
    BY <1>2, <2>2, PassTyped DEF Fetch, PassMoves, LogSame
  <2> QED BY <2>3, PassStep
<1>3. CASE Drained
  <2>1. PassMoves
    BY <1>3, PassTyped, NoPassTyped DEF Drained, PassMoves, LogSame
  <2> QED BY <2>1, PassStep
<1> QED BY <1>1, <1>2, <1>3

\* A probe that the daemon does not answer ends the pass.
LEMMA ProbeFailsStep ==
    ASSUME RecoveryInv, ProbeFails
    PROVE  RecoveryInv'
<1>1. drv' = NoPass /\ LogSame /\ UNCHANGED <<requests, wire, chan, status, engineA, daemon>>
  BY DEF ProbeFails, LogSame
<1>2. setbacks' \in 0..MaxSetbacks
  BY SetbackCounted DEF ProbeFails, RecoveryInv
<1>3. RecoveryTypeOK'
  BY <1>1, <1>2, NoPassTyped DEF RecoveryInv, RecoveryTypeOK, LogSame, PassType
<1>4. CarryInv'
  BY <1>1, NoPassTyped, PassTyped DEF RecoveryInv, CarryInv, Carried, LogSame
<1> QED BY <1>1, <1>3, <1>4, SameStep

\* The next chunk is taken.
LEMMA TakeChunkStep ==
    ASSUME RecoveryInv, TakeChunk
    PROVE  RecoveryInv'
<1> DEFINE new == [drv EXCEPT !.got = drv.got \o Head(chan).records,
                              !.at = IF Head(chan).done THEN "apply" ELSE "await"]
<1>1. chan # << >> /\ chan' = Tail(chan) /\ drv' = new
  BY DEF TakeChunk
<1>2. Head(chan) \in Carried /\ Head(chan) \in LogFrame
  BY <1>1, HeadTailProperties DEF RecoveryInv, CarryInv, RecoveryTypeOK
<1>3. drv.got \in Seq(LogRecord)  BY PassTyped DEF PassType
<1>4. /\ drv.got \o Head(chan).records \in Seq(appended)
      /\ drv.got \o Head(chan).records \in Seq(LogRecord)
  BY <1>2, <1>3, PassTyped, ConcatProperties DEF Carried, LogFrame
<1>5. new \in PassType /\ new.got = drv.got \o Head(chan).records
  BY <1>4, PassTyped DEF PassType
<1> HIDE DEF new
<1>6. PassMoves
  BY <1>1, <1>4, <1>5, PassTyped DEF TakeChunk, PassMoves, LogSame
<1> QED BY <1>6, PassStep

\* The deadline passes without a chunk, on a connection that lives or one that died.
LEMMA TimeoutStep ==
    ASSUME RecoveryInv, NEW dead \in BOOLEAN, FetchTimesOut(dead)
    PROVE  RecoveryInv'
<1>1. /\ drv' = NoPass /\ LogSame /\ UNCHANGED <<chan, status, engineA, daemon>>
      /\ requests' = requests \/ requests' = << >>
      /\ wire' = wire \/ wire' = << >>
  BY DEF FetchTimesOut, LogSame
<1>2. setbacks' \in 0..MaxSetbacks
  BY SetbackCounted DEF FetchTimesOut, RecoveryInv, RecoveryTypeOK
<1>3. requests' \in Seq(Nat) /\ wire' \in Seq(LogFrame) /\ wire' \in Seq(Carried)
  <2>1. << >> \in Seq(Nat) /\ << >> \in Seq(LogFrame) /\ << >> \in Seq(Carried)  OBVIOUS
  <2>2. requests \in Seq(Nat) /\ wire \in Seq(LogFrame) /\ wire \in Seq(Carried)
    BY DEF RecoveryInv, RecoveryTypeOK, CarryInv
  <2> QED BY <1>1, <2>1, <2>2, Zenon
<1>4. RecoveryTypeOK'
  BY <1>1, <1>2, <1>3, NoPassTyped DEF RecoveryInv, RecoveryTypeOK, LogSame, PassType
<1>5. CarryInv'
  BY <1>1, <1>3, NoPassTyped, PassTyped DEF RecoveryInv, CarryInv, Carried, LogSame
<1> QED BY <1>1, <1>4, <1>5, SameStep

\* A pass that skipped nothing, in numbers.
LEMMA SoundPass ==
    ASSUME RecoveryInv, NEW s \in Sound
    PROVE  /\ s.c \in Nat /\ s.e \in Nat /\ s.e \in 0..MaxJoins /\ epoch <= s.e
           /\ s.e <= groupEpoch /\ Reached(s.c, s.e)
BY RecoveryAssumption DEF RecoveryInv, RecoveryTypeOK, Sound, Passes

\* The batch is applied.
LEMMA ApplyBatchStep ==
    ASSUME RecoveryInv, ApplyBatch
    PROVE  RecoveryInv'
<1>1. PICK s : s = Run(drv.got)  OBVIOUS
<1>2. s \in Sound  BY <1>1, RunSound, PassTyped
<1>3. /\ epoch' = s.e /\ cursor' = s.c
      /\ UNCHANGED <<log, nextSeq, appended, forgot, groupEpoch, owed, requests, wire, chan,
                     engineA, daemon>>
      /\ setbacks' \in 0..MaxSetbacks
  BY <1>1, SetbackCounted DEF ApplyBatch, RecoveryInv, RecoveryTypeOK
<1>4. /\ drv' = NoPass \/ drv' = [drv EXCEPT !.at = "fetch"]
      /\ status' = status \/ status' = "live"
  BY <1>1 DEF ApplyBatch
<1>5. drv' \in PassType /\ drv'.got \in Seq(appended)
  <2>1. [drv EXCEPT !.at = "fetch"] \in PassType /\ [drv EXCEPT !.at = "fetch"].got = drv.got
    BY PassTyped DEF PassType
  <2> QED BY <1>4, <2>1, NoPassTyped, PassTyped
<1>6. RecoveryTypeOK'
  BY <1>2, <1>3, <1>4, <1>5, SoundPass DEF RecoveryInv, RecoveryTypeOK, PassType
<1>7. CarryInv'
  BY <1>3, <1>5 DEF RecoveryInv, CarryInv, Carried
<1>8. epoch' <= groupEpoch /\ Reached(cursor', epoch')
  BY <1>2, <1>3, SoundPass
<1> QED BY <1>3, <1>6, <1>7, <1>8, MemberMoves

\* The daemon fails on the batch, after any number of its records.
LEMMA ApplyFailsStep ==
    ASSUME RecoveryInv, ApplyFails
    PROVE  RecoveryInv'
<1>1. /\ drv' = NoPass
      /\ UNCHANGED <<log, nextSeq, appended, forgot, groupEpoch, owed, cursor, requests, wire, chan,
                     status, daemon>>
      /\ engineA' \in BOOLEAN
  BY PassTyped DEF ApplyFails
<1>2. setbacks' \in 0..MaxSetbacks
  BY SetbackCounted DEF ApplyFails, RecoveryInv, RecoveryTypeOK
<1>3. epoch' \in Nat /\ epoch' \in 0..MaxJoins /\ epoch <= epoch' /\ epoch' <= groupEpoch
  <2>1. CASE epoch' = epoch
    BY <2>1, RecoveryTypes DEF RecoveryInv, ReachInv, RecoveryTypeOK
  <2>2. ASSUME NEW n \in 0..Len(drv.got) - 1, epoch' = Run(SubSeq(drv.got, 1, n)).e
        PROVE  epoch' \in Nat /\ epoch' \in 0..MaxJoins /\ epoch <= epoch' /\ epoch' <= groupEpoch
    <3>1. Len(drv.got) \in Nat /\ \A i \in 1..Len(drv.got) : drv.got[i] \in appended
      BY PassTyped, LenProperties, ElementOfSeq
    <3>2. n \in Int /\ 1 \in Int /\ \A i \in 1..n : drv.got[i] \in appended  BY <3>1
    <3>3. SubSeq(drv.got, 1, n) \in Seq(appended)  BY <3>2, SubSeqProperties
    <3>4. PICK s : s = Run(SubSeq(drv.got, 1, n))  OBVIOUS
    <3>5. s \in Sound  BY <3>3, <3>4, RunSound
    <3> QED BY <2>2, <3>4, <3>5, SoundPass
  <2> QED BY <2>1, <2>2 DEF ApplyFails
<1>4. RecoveryTypeOK'
  BY <1>1, <1>2, <1>3, NoPassTyped DEF RecoveryInv, RecoveryTypeOK, PassType
<1>5. CarryInv'
  BY <1>1, NoPassTyped, PassTyped DEF RecoveryInv, CarryInv, Carried
<1>6. Reached(cursor, epoch')
  BY <1>3, RecoveryTypes, SkipsLess DEF RecoveryInv, ReachInv
<1>7. epoch' <= groupEpoch /\ Reached(cursor', epoch')
  BY <1>1, <1>3, <1>6 DEF RecoveryInv, ReachInv
<1> QED BY <1>1, <1>4, <1>5, <1>7, MemberMoves

\* A restart forgets the cursor, behind which there is then nothing.
LEMMA RebootStep ==
    ASSUME RecoveryInv, Reboot
    PROVE  RecoveryInv'
<1>1. /\ cursor' = 0 /\ drv' = NoPass /\ status' = "live" /\ engineA' = TRUE
      /\ requests' = << >> /\ wire' = << >> /\ chan' = << >> /\ setbacks' \in 0..MaxSetbacks
      /\ UNCHANGED <<log, nextSeq, appended, forgot, groupEpoch, owed, epoch, daemon>>
  BY SetbackCounted DEF Reboot, RecoveryInv
<1>2. RecoveryTypeOK'
  BY <1>1, NoPassTyped DEF RecoveryInv, RecoveryTypeOK, PassType
<1>3. CarryInv'
  BY <1>1, NoPassTyped DEF CarryInv
<1>4. Reached(0, epoch)
  BY RecoveryTypes DEF Reached, SkipsNone, RecoveryInv, SeqInv
<1>5. epoch' <= groupEpoch /\ Reached(cursor', epoch')
  BY <1>1, <1>4, RecoveryTypes DEF RecoveryInv, ReachInv
<1> QED BY <1>1, <1>2, <1>3, <1>5, MemberMoves

-----------------------------------------------------------------------------
(* The theorems. *)

\* The invariant holds of a new group.
LEMMA RecoveryInvInit == RecoveryInit => RecoveryInv
<1>1. SUFFICES ASSUME RecoveryInit  PROVE RecoveryInv  OBVIOUS
<1>2. IsFiniteSet({})  BY FS_EmptySet
<1>3. RecoveryTypeOK
  BY <1>1, NoPassTyped, RecoveryAssumption DEF RecoveryInit, RecoveryTypeOK, PassType
<1>4. CarryInv
  BY <1>1, NoPassTyped DEF RecoveryInit, CarryInv
<1> QED BY <1>1, <1>2, <1>3, <1>4 DEF RecoveryInit, RecoveryInv, OwedInv, SeqInv, StoredOnce,
              SeqNamesOne, CommitInv, ReachInv, Reached, SkipsNone

\* Every step keeps it.
LEMMA RecoveryInvStep == RecoveryInv /\ [RecoveryNext]_recoveryVars => RecoveryInv'
<1>1. SUFFICES ASSUME RecoveryInv, [RecoveryNext]_recoveryVars  PROVE RecoveryInv'  OBVIOUS
<1>2. CASE UNCHANGED recoveryVars
  <2>1. UNCHANGED <<log, nextSeq, appended, forgot, groupEpoch, owed, epoch, cursor, requests,
                    wire, chan, drv, status, engineA, daemon, setbacks>>
    BY <1>2 DEF recoveryVars
  <2>2. RecoveryTypeOK'  BY <1>1, <2>1 DEF RecoveryInv, RecoveryTypeOK
  <2>3. CarryInv'  BY <1>1, <2>1, CarryGrows DEF RecoveryInv
  <2> QED BY <1>1, <2>1, <2>2, <2>3, SameStep DEF LogSame
<1>3. ASSUME NEW kind \in {"mine", "foreign"}, OwnerJoins(kind)  PROVE RecoveryInv'
  BY <1>1, <1>3, OwnerJoinsStep
<1>4. ASSUME NEW b \in BOOLEAN, AppendOwed(b)  PROVE RecoveryInv'
  <2>1. CASE b = TRUE  BY <1>1, <1>4, <2>1, LoseStep
  <2>2. CASE b = FALSE  BY <1>1, <1>4, <2>2, StoreStep
  <2> QED BY <2>1, <2>2
<1>5. ASSUME NEW b \in BOOLEAN, FetchTimesOut(b)  PROVE RecoveryInv'
  BY <1>1, <1>5, TimeoutStep
<1>6. CASE StaleFrame
  <2>1. PICK t \in epoch + 1..groupEpoch : Trigger(t)  BY <1>6 DEF StaleFrame
  <2>2. t \in 0..MaxJoins
    BY <1>1, RecoveryAssumption DEF RecoveryInv, RecoveryTypeOK
  <2> QED BY <1>1, <2>1, <2>2, TriggerStep
<1>7. CASE Watchdog
  BY <1>1, <1>7, RecoveryAssumption, TriggerStep DEF Watchdog
<1>8. CASE SweepLog  BY <1>1, <1>8, SweepStep
<1>9. CASE LiveCommit  BY <1>1, <1>9, LiveStep
<1>10. CASE Serve  BY <1>1, <1>10, ServeStep
<1>11. CASE ChunkArrives  BY <1>1, <1>11, ArrivesStep
<1>12. CASE PassNext
  BY <1>1, <1>12, ReadStep, TakeChunkStep, ApplyBatchStep, ApplyFailsStep DEF PassNext
<1>13. CASE Reboot  BY <1>1, <1>13, RebootStep
<1>14. ASSUME NEW b \in BOOLEAN, RelayRestarts(b)  PROVE RecoveryInv'
  BY <1>1, <1>14, RelayRestartsStep
<1>15. CASE ProbeFails  BY <1>1, <1>15, ProbeFailsStep
<1> QED BY <1>1, <1>2, <1>3, <1>4, <1>5, <1>6, <1>7, <1>8, <1>9, <1>10, <1>11, <1>12, <1>13,
           <1>14, <1>15 DEF RecoveryNext

\* The inductive invariant holds throughout.
THEOREM RecoveryInvariant == RecoverySpec => []RecoveryInv
BY RecoveryInvInit, RecoveryInvStep, PTL DEF RecoverySpec

\* Every variable holds a value of its kind, whatever the log and the pass go through.
THEOREM RecoveryTypeCorrect == RecoverySpec => []RecoveryTypeOK
<1>1. RecoveryInv => RecoveryTypeOK  BY DEF RecoveryInv
<1> QED BY <1>1, RecoveryInvariant, PTL

\* A sequence number names one record for as long as the group lives, for any capacity of
\* the log, however often eviction or the retention window empties it and a durable relay
\* restarts; and once a relay lost a log in RAM, one record of those it has.
THEOREM SequenceNumbersUnique == RecoverySpec => []SeqNamesOne
<1>1. RecoveryInv => SeqNamesOne  BY DEF RecoveryInv
<1> QED BY <1>1, RecoveryInvariant, PTL

\* The cursor never passes a commit that the member could still have applied, for any number
\* of joins, any chunking and any mixture of abandoned fetches (apply_records_in_order), as
\* long as no relay lost a log in RAM.
THEOREM CursorNeverSkips == RecoverySpec => []CursorSkipsNothing
<1>1. RecoveryInv => CursorSkipsNothing
  BY DEF RecoveryInv, ReachInv, Reached, SkipsNone, Commit, CursorSkipsNothing
<1> QED BY <1>1, RecoveryInvariant, PTL
=============================================================================
