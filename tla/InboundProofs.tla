---------------------------- MODULE InboundProofs ----------------------------
(***************************************************************************)
(* What TLAPS proves of the inbound path, for any number of relays and     *)
(* frames, any replay window and any number of mishaps; and that the       *)
(* relays it is checked against keep the contract RelayTransit implements. *)
(***************************************************************************)
EXTENDS InboundPath, TLAPS

\* The window has held f's nonce.
Known(f) == Recorded(f) \/ f \in evicted

-----------------------------------------------------------------------------
(* The replay window *)

\* Recording a nonce keeps the window's type and bound, and forgets no frame that it does
\* not note as evicted.
LEMMA WindowStep ==
    ASSUME TypeOK, NEW f \in Frame, Remembered(f)
    PROVE  /\ nonces' \in Seq(Frame) /\ Len(nonces') <= Window
           /\ evicted' \in SUBSET Frame
           /\ Known(f)' /\ \A g \in Frame : Known(g) => Known(g)'
<1> USE InboundAssumption
<1>0. nonces \in Seq(Frame) /\ Len(nonces) <= Window /\ evicted \in SUBSET Frame
  BY DEF TypeOK
<1>1. CASE Len(nonces) >= Window
  <2>1. nonces' = Append(Tail(nonces), f) /\ evicted' = evicted \cup {Head(nonces)}
    BY <1>1 DEF Remembered
  <2>2. nonces # << >> /\ Head(nonces) \in Frame /\ Tail(nonces) \in Seq(Frame)
        /\ Len(Tail(nonces)) = Len(nonces) - 1
    BY <1>0, <1>1
  <2>3. nonces' \in Seq(Frame) /\ Len(nonces') = Len(nonces) /\ nonces'[Len(nonces)] = f
    BY <2>1, <2>2, <1>0
  <2>4. Recorded(f)'
    <3>1. Len(nonces) \in DOMAIN nonces'  BY <2>3, <2>2, <1>0
    <3> QED BY <3>1, <2>3 DEF Recorded
  <2>5. ASSUME NEW g \in Frame, Known(g) PROVE Known(g)'
    <3>1. CASE g \in evicted  BY <3>1, <2>1 DEF Known
    <3>2. CASE Recorded(g)
      <4>1. PICK i \in DOMAIN nonces : nonces[i] = g  BY <3>2 DEF Recorded
      <4>2. CASE i = 1
        BY <4>1, <4>2, <2>1, <2>2, <1>0 DEF Known
      <4>3. CASE i # 1
        <5>1. i - 1 \in 1..Len(Tail(nonces)) /\ Tail(nonces)[i - 1] = g
          BY <4>1, <4>3, <2>2, <1>0
        <5>2. i - 1 \in DOMAIN nonces' /\ nonces'[i - 1] = g
          BY <5>1, <2>1, <2>2, <2>3, <1>0
        <5> QED BY <5>2 DEF Known, Recorded
      <4> QED BY <4>2, <4>3
    <3> QED BY <2>5, <3>1, <3>2 DEF Known
  <2> QED BY <1>0, <2>1, <2>2, <2>3, <2>4, <2>5 DEF Known
<1>2. CASE ~(Len(nonces) >= Window)
  <2>1. nonces' = Append(nonces, f) /\ evicted' = evicted
    BY <1>2 DEF Remembered
  <2>2. nonces' \in Seq(Frame) /\ Len(nonces') = Len(nonces) + 1 /\ nonces'[Len(nonces) + 1] = f
    BY <2>1, <1>0
  <2>3. Recorded(f)'
    <3>1. Len(nonces) + 1 \in DOMAIN nonces'  BY <2>2, <1>0
    <3> QED BY <3>1, <2>2 DEF Recorded
  <2>4. ASSUME NEW g \in Frame, Known(g) PROVE Known(g)'
    <3>1. CASE g \in evicted  BY <3>1, <2>1 DEF Known
    <3>2. CASE Recorded(g)
      <4>1. PICK i \in DOMAIN nonces : nonces[i] = g  BY <3>2 DEF Recorded
      <4>2. i \in DOMAIN nonces' /\ nonces'[i] = g  BY <4>1, <2>1, <2>2, <1>0
      <4> QED BY <4>2 DEF Known, Recorded
    <3> QED BY <2>4, <3>1, <3>2 DEF Known
  <2>5. Len(nonces') <= Window
    BY <1>0, <1>2, <2>2
  <2> QED BY <1>0, <2>1, <2>2, <2>3, <2>4, <2>5 DEF Known
<1> QED BY <1>1, <1>2

\* A step that leaves the window alone forgets nothing.
LEMMA WindowSame ==
    ASSUME UNCHANGED <<nonces, evicted>>
    PROVE  \A g : Known(g)' <=> Known(g)
BY DEF Known, Recorded

-----------------------------------------------------------------------------
(* Types *)

\* Counting to two.
LEMMA Cap2Type == \A n \in Nat : Cap2(n) \in 0..2 /\ (n > 0 => Cap2(n) > 0)
BY DEF Cap2

\* An entry more of f, and no other.
LEMMA AppendedType ==
    ASSUME TypeOK, NEW f \in Frame, Appended(f)
    PROVE  /\ entries' \in [Frame -> 0..2] /\ entries'[f] > 0
           /\ entries[f] = 0 => entries'[f] = 1
           /\ \A g \in Frame \ {f} : entries'[g] = entries[g]
<1>1. entries \in [Frame -> 0..2]  BY DEF TypeOK
<1>2. /\ Cap2(entries[f] + 1) \in 0..2 /\ Cap2(entries[f] + 1) > 0
      /\ entries[f] = 0 => Cap2(entries[f] + 1) = 1
  BY <1>1 DEF Cap2
<1>3. entries' = [entries EXCEPT ![f] = Cap2(entries[f] + 1)]  BY DEF Appended
<1> QED BY <1>1, <1>2, <1>3

\* What the dispatcher does next is still a step on the same frame.
LEMMA NowType ==
    ASSUME TypeOK, work.pc # "idle", NEW pc \in Steps \ {"idle"}, Now(pc)
    PROVE  /\ work \in Working /\ work' \in Working
           /\ work'.pc = pc /\ work'.relay = work.relay /\ work'.frame = work.frame
<1>1. work \in Working
  BY DEF TypeOK, Idle
<1>2. PICK w \in Steps \ {"idle"}, r \in Relay, f \in Frame :
          work = [pc |-> w, relay |-> r, frame |-> f]
  BY <1>1 DEF Working
<1>3. work' = [pc |-> pc, relay |-> r, frame |-> f]
  BY <1>2 DEF Now
<1> QED BY <1>1, <1>2, <1>3 DEF Working

\* Every step keeps the types.
LEMMA TypeStep == TypeOK /\ [Next]_inboundVars => TypeOK'
<1> SUFFICES ASSUME TypeOK, [Next]_inboundVars PROVE TypeOK'
  OBVIOUS
<1> USE InboundAssumption
<1>1. ASSUME NEW r \in Relay, Connect(r) PROVE TypeOK'
  <2>1. flow' \in [Relay -> [Frame -> 0..2]]
    BY <1>1, Cap2Type DEF Connect, TypeOK
  <2> QED BY <1>1, <2>1 DEF Connect, TypeOK
<1>2. ASSUME NEW r \in Relay, Disconnect(r) PROVE TypeOK'
  BY <1>2 DEF Disconnect, Mishap, TypeOK
<1>3. ASSUME NEW r \in Relay, NEW f \in Frame, Deposit(r, f) PROVE TypeOK'
  <2>1. flow' \in [Relay -> [Frame -> 0..2]]
    <3>1. CASE r \in up
      <4>1. PICK n \in 1..2 : flow' = [flow EXCEPT ![r][f] = Cap2(@ + n)]
        BY <1>3, <3>1 DEF Deposit
      <4>2. Cap2(flow[r][f] + n) \in 0..2  BY Cap2Type DEF TypeOK
      <4> QED BY <4>1, <4>2 DEF TypeOK
    <3>2. CASE r \notin up  BY <1>3, <3>2 DEF Deposit, TypeOK
    <3> QED BY <3>1, <3>2
  <2>2. copy' \in [Relay -> [Frame -> Fates]]
    BY <1>3 DEF Deposit, TypeOK, Fates
  <2> QED BY <1>3, <2>1, <2>2 DEF Deposit, TypeOK
<1>4. ASSUME NEW r \in Relay, NEW f \in Frame, Expire(r, f) PROVE TypeOK'
  BY <1>4 DEF Expire, Mishap, TypeOK, Fates
<1>5. ASSUME NEW r \in Relay, NEW f \in Frame, FanIn(r, f) PROVE TypeOK'
  <2>1. flow' \in [Relay -> [Frame -> 0..2]]
    BY <1>5 DEF FanIn, TypeOK
  <2>2. [relay |-> r, frame |-> f] \in Token  BY DEF Token
  <2>3. CASE FirstSeen(r, f)
    BY <1>5, <2>1, <2>2, <2>3 DEF FanIn, FirstSeen, TypeOK
  <2>4. CASE Duplicate(r, f)
    BY <1>5, <2>1, <2>2, <2>4 DEF FanIn, Duplicate, Confirm, TypeOK
  <2> QED BY <1>5, <2>3, <2>4 DEF FanIn
<1>6. ASSUME NEW t \in Token, AckArrives(t) PROVE TypeOK'
  BY <1>6 DEF AckArrives, TypeOK, Fates, Token
<1>7. ASSUME NEW f \in Frame, SeenLapses(f) \/ KeyArrives(f) \/ KeyLapses(f) PROVE TypeOK'
  BY <1>7 DEF SeenLapses, KeyArrives, KeyLapses, Mishap, TypeOK
<1>8. ASSUME Take PROVE TypeOK'
  <2>1. Head(inbox) \in Token /\ inbox' \in Seq(Token)
    BY <1>8 DEF Take, TypeOK
  <2>2. work' \in Working
    BY <1>8, <2>1 DEF Take, Working, Token, Steps
  <2> QED BY <1>8, <2>1, <2>2 DEF Take, TypeOK
<1>9. ASSUME Hold PROVE TypeOK'
  <2>1. work \in Working  BY <1>9 DEF Hold, TypeOK, Idle
  <2>2. [relay |-> work.relay, frame |-> work.frame] \in Token
    BY <2>1 DEF Working, Token
  <2> QED BY <1>9, <2>2 DEF Hold, TypeOK
<1>10. ASSUME Reject PROVE TypeOK'
  <2>1. work \in Working /\ work' \in Working
    BY <1>10, NowType DEF Reject, Steps
  <2>2. work.frame \in Frame  BY <2>1 DEF Working
  <2>3. nonces' \in Seq(Frame) /\ Len(nonces') <= Window /\ evicted' \in SUBSET Frame
    BY <1>10, <2>2, WindowStep DEF Reject, TypeOK
  <2> QED BY <1>10, <2>1, <2>2, <2>3 DEF Reject, TypeOK
<1>11. ASSUME ReceiveGroup PROVE TypeOK'
  <2>1. work \in Working /\ work' \in Working
    BY <1>11, NowType DEF ReceiveGroup, Steps
  <2>2. work.frame \in Frame  BY <2>1 DEF Working
  <2>3. nonces' \in Seq(Frame) /\ Len(nonces') <= Window /\ evicted' \in SUBSET Frame
    BY <1>11, <2>2, WindowStep DEF ReceiveGroup, TypeOK
  <2>4. entries' \in [Frame -> 0..2]
    BY <1>11, <2>2, AppendedType DEF ReceiveGroup, TypeOK
  <2> QED BY <1>11, <2>1, <2>3, <2>4 DEF ReceiveGroup, TypeOK
<1>12. ASSUME RecordNonce PROVE TypeOK'
  <2>1. work \in Working /\ work' \in Working
    BY <1>12, NowType DEF RecordNonce, Steps
  <2>2. work.frame \in Frame  BY <2>1 DEF Working
  <2>3. nonces' \in Seq(Frame) /\ Len(nonces') <= Window /\ evicted' \in SUBSET Frame
    BY <1>12, <2>2, WindowStep DEF RecordNonce, TypeOK
  <2> QED BY <1>12, <2>1, <2>3 DEF RecordNonce, TypeOK
<1>13. ASSUME PushHistory PROVE TypeOK'
  <2>1. work \in Working /\ work' \in Working
    BY <1>13, NowType DEF PushHistory, Steps
  <2>2. work.frame \in Frame  BY <2>1 DEF Working
  <2>3. entries' \in [Frame -> 0..2]
    BY <1>13, <2>2, AppendedType DEF PushHistory, TypeOK
  <2> QED BY <1>13, <2>1, <2>3 DEF PushHistory, TypeOK
<1>14. ASSUME ConfirmDelivery PROVE TypeOK'
  <2>1. work \in Working  BY <1>14 DEF ConfirmDelivery, TypeOK, Idle
  <2>2. [relay |-> work.relay, frame |-> work.frame] \in Token
    BY <2>1 DEF Working, Token
  <2> QED BY <1>14, <2>2 DEF ConfirmDelivery, Confirm, TypeOK
<1>15. ASSUME ProcessDies PROVE TypeOK'
  BY <1>15 DEF ProcessDies, Volatile, Mishap, TypeOK
<1>16. ASSUME UNCHANGED inboundVars PROVE TypeOK'
  BY <1>16 DEF inboundVars, TypeOK
<1> QED
  BY <1>1, <1>2, <1>3, <1>4, <1>5, <1>6, <1>7, <1>8, <1>9, <1>10, <1>11, <1>12, <1>13,
     <1>14, <1>15, <1>16 DEF Next

\* The initial state is well typed.
LEMMA InitType == Init => TypeOK
BY InboundAssumption DEF Init, TypeOK, Fates

\* In every reachable state the variables have their types, and the vault's replay window
\* holds at most Window nonces (Conversation::check_and_record_nonce).
THEOREM InboundTypeCorrect == Spec => []TypeOK
BY InitType, TypeStep, PTL DEF Spec

-----------------------------------------------------------------------------
(* No copy is forgotten *)

\* Somebody in the client answers for the copy of f that relay r sent.
Tracked(r, f) ==
    LET t == [relay |-> r, frame |-> f] IN
    \/ flow[r][f] > 0 \/ t \in {inbox[i] : i \in DOMAIN inbox}
    \/ work.pc # "idle" /\ work.relay = r /\ work.frame = f
    \/ t \in acks \/ t \in held

\* NoCopyForgotten in terms of Tracked.
LEMMA ForgottenDef ==
    NoCopyForgotten <=> \A r \in up, f \in Frame : copy[r][f] = "stored" => Tracked(r, f)
BY DEF NoCopyForgotten, Tracked

\* A step that touches none of the five places tracks what was tracked.
LEMMA TrackedSame ==
    ASSUME UNCHANGED <<flow, inbox, work, acks, held>>
    PROVE  \A r, f : Tracked(r, f)' <=> Tracked(r, f)
BY DEF Tracked

\* A step of the dispatcher that stays on its frame does not lose track of it either.
LEMMA TrackedNow ==
    ASSUME TypeOK, work.pc # "idle", NEW pc \in Steps \ {"idle"}, Now(pc),
           UNCHANGED <<flow, inbox, acks, held>>
    PROVE  \A r, f : Tracked(r, f) => Tracked(r, f)'
<1>1. work'.pc # "idle" /\ work'.relay = work.relay /\ work'.frame = work.frame
  BY NowType
<1> QED BY <1>1 DEF Tracked

\* Every step keeps the copies of connected relays tracked.
LEMMA ForgottenStep == TypeOK /\ NoCopyForgotten /\ [Next]_inboundVars => NoCopyForgotten'
<1> SUFFICES ASSUME TypeOK, NoCopyForgotten, [Next]_inboundVars,
                    NEW r \in up', NEW f \in Frame, copy'[r][f] = "stored"
             PROVE  Tracked(r, f)'
  BY DEF NoCopyForgotten, Tracked
<1> DEFINE t == [relay |-> r, frame |-> f]
<1>0. TypeOK'  BY TypeStep
<1>1. ASSUME r \in up, copy[r][f] = "stored" PROVE Tracked(r, f)
  BY <1>1, ForgottenDef
<1>a. ASSUME NEW s \in Relay, Connect(s) PROVE Tracked(r, f)'
  <2>1. CASE r = s
    <3>1. flow'[r][f] = Cap2(flow[r][f] + 1)
      BY <1>a, <2>1 DEF Connect, TypeOK
    <3>2. flow'[r][f] > 0  BY <3>1, <2>1, Cap2Type DEF TypeOK
    <3> QED BY <3>2 DEF Tracked
  <2>2. CASE r # s
    <3>1. Tracked(r, f)  BY <1>1, <1>a, <2>2 DEF Connect
    <3>2. flow'[r] = flow[r] /\ (t \in acks => t \in acks') /\ (t \in held => t \in held')
      BY <1>a, <2>2 DEF Connect, TypeOK
    <3> QED BY <1>a, <3>1, <3>2 DEF Tracked, Connect
  <2> QED BY <2>1, <2>2
<1>b. ASSUME NEW s \in Relay, Disconnect(s) PROVE Tracked(r, f)'
  <2>1. r # s /\ Tracked(r, f)  BY <1>1, <1>b DEF Disconnect
  <2>2. flow'[r] = flow[r]  BY <1>b, <2>1 DEF Disconnect, TypeOK
  <2> QED BY <1>b, <2>1, <2>2 DEF Tracked, Disconnect
<1>c. ASSUME NEW s \in Relay, NEW g \in Frame, Deposit(s, g) PROVE Tracked(r, f)'
  <2>0. r \in up /\ r \in Relay  BY <1>c DEF Deposit, TypeOK
  <2>1. CASE r = s /\ f = g
    <3>1. PICK n \in 1..2 : flow' = [flow EXCEPT ![s][g] = Cap2(@ + n)]
      BY <1>c, <2>0, <2>1 DEF Deposit
    <3>2. flow'[r][f] = Cap2(flow[r][f] + n)  BY <3>1, <2>0, <2>1 DEF TypeOK
    <3>3. flow'[r][f] > 0  BY <3>2, <2>0, Cap2Type DEF TypeOK
    <3> QED BY <3>3 DEF Tracked
  <2>2. CASE ~(r = s /\ f = g)
    <3>1. copy'[r][f] = copy[r][f] /\ flow'[r][f] = flow[r][f]
      BY <1>c, <2>0, <2>2 DEF Deposit, TypeOK
    <3> QED BY <1>1, <1>c, <2>0, <3>1 DEF Tracked, Deposit
  <2> QED BY <2>1, <2>2
<1>d. ASSUME NEW s \in Relay, NEW g \in Frame, Expire(s, g) PROVE Tracked(r, f)'
  <2>1. r \in up /\ copy[r][f] = "stored"
    BY <1>d DEF Expire, TypeOK
  <2>2. UNCHANGED <<flow, inbox, work, acks, held>>  BY <1>d DEF Expire
  <2> QED BY <1>1, <2>1, <2>2, TrackedSame
<1>e. ASSUME NEW s \in Relay, NEW g \in Frame, FanIn(s, g) PROVE Tracked(r, f)'
  <2>1. Tracked(r, f) /\ r \in Relay  BY <1>1, <1>e DEF FanIn, TypeOK
  <2>2. inbox \in Seq(Token) /\ [relay |-> s, frame |-> g] \in Token
    BY DEF TypeOK, Token
  <2>3. \A x \in {inbox[i] : i \in DOMAIN inbox} : x \in {inbox'[i] : i \in DOMAIN inbox'}
    <3>1. CASE FirstSeen(s, g)
      <4>1. inbox' = Append(inbox, [relay |-> s, frame |-> g])  BY <3>1 DEF FirstSeen
      <4>2. \A i \in DOMAIN inbox : i \in DOMAIN inbox' /\ inbox'[i] = inbox[i]
        BY <4>1, <2>2
      <4> QED BY <4>2
    <3>2. CASE Duplicate(s, g)  BY <3>2 DEF Duplicate
    <3> QED BY <1>e, <3>1, <3>2 DEF FanIn
  <2>4. acks \subseteq acks'
    BY <1>e DEF FanIn, FirstSeen, Duplicate, Confirm
  <2>5. CASE r = s /\ f = g
    <3>1. CASE FirstSeen(s, g)
      <4>1. inbox' = Append(inbox, t)  BY <3>1, <2>5 DEF FirstSeen
      <4>2. Len(inbox) + 1 \in DOMAIN inbox' /\ inbox'[Len(inbox) + 1] = t
        BY <4>1, <2>2, <2>5
      <4> QED BY <4>2 DEF Tracked
    <3>2. CASE Duplicate(s, g)
      BY <3>2, <2>5 DEF Duplicate, Confirm, Tracked
    <3> QED BY <1>e, <3>1, <3>2 DEF FanIn
  <2>6. CASE ~(r = s /\ f = g)
    <3>1. flow'[r][f] = flow[r][f]  BY <1>e, <2>1, <2>6 DEF FanIn, TypeOK
    <3>2. UNCHANGED <<work, held>>  BY <1>e DEF FanIn
    <3> QED BY <2>1, <2>3, <2>4, <3>1, <3>2 DEF Tracked
  <2> QED BY <2>5, <2>6
<1>f. ASSUME NEW u \in Token, AckArrives(u) PROVE Tracked(r, f)'
  <2>1. r \in up /\ r \in Relay /\ u.relay \in Relay /\ u.frame \in Frame
    BY <1>f DEF AckArrives, TypeOK, Token
  <2>2. copy[r][f] = "stored" /\ u # t
    BY <1>f, <2>1 DEF AckArrives, TypeOK
  <2>3. Tracked(r, f)  BY <1>1, <2>1, <2>2
  <2> QED BY <1>f, <2>2, <2>3 DEF Tracked, AckArrives
<1>g. ASSUME NEW g \in Frame, SeenLapses(g) \/ KeyArrives(g) \/ KeyLapses(g)
      PROVE  Tracked(r, f)'
  BY <1>1, <1>g, TrackedSame DEF SeenLapses, KeyArrives, KeyLapses
<1>h. ASSUME Take PROVE Tracked(r, f)'
  <2>1. Tracked(r, f)  BY <1>1, <1>h DEF Take
  <2>2. inbox \in Seq(Token) /\ inbox # << >> /\ work = Idle  BY <1>h DEF Take, TypeOK
  <2>3. CASE t \in {inbox[i] : i \in DOMAIN inbox}
    <3>1. PICK i \in DOMAIN inbox : inbox[i] = t  BY <2>3
    <3>2. CASE i = 1
      <4>1. Head(inbox) = t  BY <3>1, <3>2, <2>2
      <4> QED BY <1>h, <4>1 DEF Take, Tracked
    <3>3. CASE i # 1
      <4>1. i - 1 \in DOMAIN Tail(inbox) /\ Tail(inbox)[i - 1] = t  BY <3>1, <3>3, <2>2
      <4> QED BY <1>h, <4>1 DEF Take, Tracked
    <3> QED BY <3>2, <3>3
  <2>4. CASE t \notin {inbox[i] : i \in DOMAIN inbox}
    BY <1>h, <2>1, <2>2, <2>4 DEF Take, Tracked, Idle
  <2> QED BY <2>3, <2>4
<1>i. ASSUME Hold \/ ConfirmDelivery PROVE Tracked(r, f)'
  <2>1. Tracked(r, f)  BY <1>1, <1>i DEF Hold, ConfirmDelivery
  <2> QED BY <1>i, <2>1 DEF Hold, ConfirmDelivery, Confirm, Tracked
<1>j. ASSUME Reject \/ ReceiveGroup \/ RecordNonce \/ PushHistory PROVE Tracked(r, f)'
  <2>1. Tracked(r, f)
    BY <1>1, <1>j DEF Reject, ReceiveGroup, RecordNonce, PushHistory
  <2>2. work.pc # "idle" /\ UNCHANGED <<flow, inbox, acks, held>>
    BY <1>j DEF Reject, ReceiveGroup, RecordNonce, PushHistory
  <2>3. \E pc \in Steps \ {"idle"} : Now(pc)
    BY <1>j DEF Reject, ReceiveGroup, RecordNonce, PushHistory, Steps
  <2> QED BY <2>1, <2>2, <2>3, TrackedNow
<1>k. ASSUME ProcessDies PROVE Tracked(r, f)'
  BY <1>k DEF ProcessDies, Volatile
<1>l. ASSUME UNCHANGED inboundVars PROVE Tracked(r, f)'
  BY <1>1, <1>l, TrackedSame DEF inboundVars
<1> QED
  BY <1>a, <1>b, <1>c, <1>d, <1>e, <1>f, <1>g, <1>h, <1>i, <1>j, <1>k, <1>l DEF Next

\* A copy stored at a connected relay is never forgotten: it is on its way to the
\* dispatcher, or its ack is on the way back, or it is held for a later connect
\* (spawn_fan_in_for_slot confirms a duplicate; a dropped token is redelivered).
THEOREM CopiesAreTracked == Spec => []NoCopyForgotten
<1>1. Init => NoCopyForgotten  BY DEF Init, NoCopyForgotten
<1> QED BY <1>1, InitType, TypeStep, ForgottenStep, PTL DEF Spec

-----------------------------------------------------------------------------
(* Losses and double reads *)

\* f may be confirmed: it is settled, or it is one of the two ways to lose a frame.
Excused(f) == Settled(f) \/ f \in early \/ Known(f)

\* What the ack path knows of a frame before its copy may go.
AckInv ==
    /\ \A t \in acks : Excused(t.frame)
    /\ \A r \in Relay, f \in Frame : copy[r][f] = "reclaimed" => Excused(f)
    /\ work.pc = "confirm" => Excused(work.frame)

\* What the vault knows of a frame: no history entry without its nonce, and the second
\* write of dispatch_message adds a first entry unless the nonce was pushed out.
VaultInv ==
    /\ \A f \in Frame : entries[f] > 0 => Known(f)
    /\ work.pc = "history" =>
         Known(work.frame) /\ (entries[work.frame] > 0 => work.frame \in evicted)
    /\ ReadOnce

\* A history entry more: the others stay, and its own is the first or one of several.
LEMMA AppendedGrows ==
    ASSUME TypeOK, NEW g \in Frame, Appended(g)
    PROVE  /\ \A f \in Frame : f # g => entries'[f] = entries[f]
           /\ entries'[g] > 0
           /\ entries[g] = 0 => entries'[g] = 1
BY DEF Appended, TypeOK, Cap2

\* Nothing a frame is excused by is ever taken back.
LEMMA ExcuseStays ==
    ASSUME TypeOK, [Next]_inboundVars
    PROVE  /\ evicted \subseteq evicted'
           /\ \A f \in Frame : Known(f) => Known(f)'
           /\ \A f \in Frame : Excused(f) => Excused(f)'
<1>1. /\ evicted \subseteq evicted'
      /\ \A f \in Frame : Known(f) => Known(f)'
  <2>1. CASE UNCHANGED <<nonces, evicted>>  BY <2>1, WindowSame
  <2>2. CASE work.pc = "check" /\ Remembered(work.frame)
    <3>1. work.frame \in Frame  BY <2>2 DEF TypeOK, Idle, Working
    <3> QED BY <2>2, <3>1, WindowStep DEF Remembered
  <2>3. \/ UNCHANGED <<nonces, evicted>>
        \/ work.pc = "check" /\ Remembered(work.frame)
    BY DEF Next, Connect, Disconnect, Deposit, Expire, FanIn, AckArrives, SeenLapses,
           KeyArrives, KeyLapses, Take, Hold, Reject, ReceiveGroup, RecordNonce,
           PushHistory, ConfirmDelivery, ProcessDies, inboundVars
  <2> QED BY <2>1, <2>2, <2>3
<1>2. rejected \subseteq rejected'
  BY DEF Next, Connect, Disconnect, Deposit, Expire, FanIn, AckArrives, SeenLapses,
         KeyArrives, KeyLapses, Take, Hold, Reject, ReceiveGroup, RecordNonce,
         PushHistory, ConfirmDelivery, ProcessDies, inboundVars
<1>3. early \subseteq early'
  BY DEF Next, Connect, Disconnect, Deposit, Expire, FanIn, FirstSeen, Duplicate,
         AckArrives, SeenLapses, KeyArrives, KeyLapses, Take, Hold, Reject, ReceiveGroup,
         RecordNonce, PushHistory, ConfirmDelivery, ProcessDies, inboundVars
<1>4. \A f \in Frame : entries[f] > 0 => entries'[f] > 0
  <2>1. CASE UNCHANGED entries  BY <2>1
  <2>2. CASE work.pc # "idle" /\ Appended(work.frame)
    <3>1. work.frame \in Frame  BY <2>2 DEF TypeOK, Idle, Working
    <3> QED BY <2>2, <3>1, AppendedGrows
  <2>3. UNCHANGED entries \/ (work.pc # "idle" /\ Appended(work.frame))
    BY DEF Next, Connect, Disconnect, Deposit, Expire, FanIn, AckArrives, SeenLapses,
           KeyArrives, KeyLapses, Take, Hold, Reject, ReceiveGroup, RecordNonce,
           PushHistory, ConfirmDelivery, ProcessDies, inboundVars
  <2> QED BY <2>1, <2>2, <2>3
<1> QED BY <1>1, <1>2, <1>3, <1>4 DEF Excused, Settled

\* Every step keeps what the vault knows.
LEMMA VaultStep == TypeOK /\ VaultInv /\ [Next]_inboundVars => VaultInv'
<1> SUFFICES ASSUME TypeOK, VaultInv, [Next]_inboundVars PROVE VaultInv'
  OBVIOUS
<1>0. /\ evicted \subseteq evicted'
      /\ \A f \in Frame : Known(f) => Known(f)'
  BY ExcuseStays
<1>1. CASE UNCHANGED entries /\ (work'.pc = "history" => UNCHANGED work)
  <2>1. work'.pc = "history" => work.frame \in Frame
    BY <1>1 DEF TypeOK, Idle, Working
  <2> QED BY <1>0, <1>1, <2>1 DEF VaultInv, ReadOnce
<1>2. CASE RecordNonce
  <2>1. work.frame \in Frame /\ work \in Working
    BY <1>2 DEF RecordNonce, TypeOK, Idle, Working
  <2>2. CASE Recorded(work.frame)
    <3>1. work'.pc = "confirm" /\ UNCHANGED entries
      BY <1>2, <2>1, <2>2, NowType DEF RecordNonce, Steps
    <3> QED BY <1>0, <3>1 DEF VaultInv, ReadOnce
  <2>3. CASE ~Recorded(work.frame)
    <3>0. PICK g \in Frame : g = work.frame  BY <2>1
    <3>1. work'.frame = g /\ UNCHANGED entries /\ Remembered(g)
      BY <1>2, <2>1, <2>3, <3>0, NowType DEF RecordNonce, Steps
    <3>2. Known(g)'  BY <3>1, WindowStep
    <3>3. entries[g] > 0 => g \in evicted'
      BY <1>0, <2>3, <3>0 DEF VaultInv, Known
    <3> QED BY <1>0, <3>1, <3>2, <3>3 DEF VaultInv, ReadOnce
  <2> QED BY <2>2, <2>3
<1>3. CASE ReceiveGroup
  <2>1. work.frame \in Frame /\ work.pc # "idle"
    BY <1>3 DEF ReceiveGroup, TypeOK, Idle, Working
  <2>2. work'.pc = "confirm"  BY <1>3, <2>1, NowType DEF ReceiveGroup, Steps
  <2>3. CASE Recorded(work.frame)
    BY <1>0, <1>3, <2>2, <2>3 DEF ReceiveGroup, VaultInv, ReadOnce
  <2>4. CASE ~Recorded(work.frame)
    <3>0. PICK g \in Frame : g = work.frame  BY <2>1
    <3>1. Remembered(g) /\ Appended(g)  BY <1>3, <2>4, <3>0 DEF ReceiveGroup
    <3>2. Known(g)'  BY <3>1, WindowStep
    <3>3. entries[g] > 0 => g \in evicted'
      BY <1>0, <2>4, <3>0 DEF VaultInv, Known
    <3>4. entries[g] \in 0..2  BY DEF TypeOK
    <3> QED BY <1>0, <2>2, <3>1, <3>2, <3>3, <3>4, AppendedGrows DEF VaultInv, ReadOnce
  <2> QED BY <2>3, <2>4
<1>4. CASE PushHistory
  <2>1. work.frame \in Frame /\ work.pc # "idle"
    BY <1>4 DEF PushHistory, TypeOK, Idle, Working
  <2>2. work'.pc = "confirm"  BY <1>4, <2>1, NowType DEF PushHistory, Steps
  <2>3. CASE Appended(work.frame)
    <3>0. PICK g \in Frame : g = work.frame  BY <2>1
    <3>1. Known(g)' /\ (entries[g] > 0 => g \in evicted')
      BY <1>0, <1>4, <3>0 DEF VaultInv, PushHistory
    <3>2. entries[g] \in 0..2 /\ Appended(g)  BY <2>3, <3>0 DEF TypeOK
    <3> QED BY <1>0, <2>2, <3>1, <3>2, AppendedGrows DEF VaultInv, ReadOnce
  <2>4. CASE UNCHANGED entries
    BY <1>0, <2>2, <2>4 DEF VaultInv, ReadOnce
  <2> QED BY <1>4, <2>3, <2>4 DEF PushHistory
<1>5. CASE Reject
  <2>1. work'.pc = "confirm" /\ UNCHANGED entries
    BY <1>5, NowType DEF Reject, TypeOK, Idle, Working, Steps
  <2> QED BY <1>1, <2>1
<1>6. CASE Take \/ Hold \/ ConfirmDelivery \/ ProcessDies
  BY <1>1, <1>6 DEF Take, Hold, ConfirmDelivery, ProcessDies, Volatile, Idle
<1>7. ASSUME NEW r \in Relay, Connect(r) \/ Disconnect(r) PROVE VaultInv'
  BY <1>1, <1>7 DEF Connect, Disconnect
<1>8. ASSUME NEW r \in Relay, NEW f \in Frame, Deposit(r, f) \/ Expire(r, f) \/ FanIn(r, f)
      PROVE  VaultInv'
  BY <1>1, <1>8 DEF Deposit, Expire, FanIn
<1>9. ASSUME NEW f \in Frame, SeenLapses(f) \/ KeyArrives(f) \/ KeyLapses(f)
      PROVE  VaultInv'
  BY <1>1, <1>9 DEF SeenLapses, KeyArrives, KeyLapses
<1>10. ASSUME NEW t \in Token, AckArrives(t) PROVE VaultInv'
  BY <1>1, <1>10 DEF AckArrives
<1>11. CASE UNCHANGED inboundVars  BY <1>1, <1>11 DEF inboundVars
<1> QED BY <1>2, <1>3, <1>4, <1>5, <1>6, <1>7, <1>8, <1>9, <1>10, <1>11 DEF Next

\* Every step keeps what the ack path knows.
LEMMA AckStep == TypeOK /\ VaultInv /\ AckInv /\ [Next]_inboundVars => AckInv'
<1> SUFFICES ASSUME TypeOK, VaultInv, AckInv, [Next]_inboundVars PROVE AckInv'
  OBVIOUS
<1>0. \A f \in Frame : Excused(f) => Excused(f)'
  BY ExcuseStays
<1>1. CASE /\ acks' \subseteq acks /\ work'.pc # "confirm"
           /\ \A r \in Relay, f \in Frame :
                copy'[r][f] = "reclaimed" => copy[r][f] = "reclaimed"
  BY <1>0, <1>1 DEF AckInv, TypeOK, Token
<1>2. CASE /\ acks' \subseteq acks /\ UNCHANGED work
           /\ \A r \in Relay, f \in Frame :
                copy'[r][f] = "reclaimed" => copy[r][f] = "reclaimed"
  <2>1. work.pc = "confirm" => work.frame \in Frame
    BY DEF TypeOK, Idle, Working
  <2> QED BY <1>0, <1>2, <2>1 DEF AckInv, TypeOK, Token
<1>3. ASSUME NEW r \in Relay, NEW f \in Frame, FanIn(r, f) PROVE AckInv'
  <2>1. CASE FirstSeen(r, f)  BY <1>2, <1>3, <2>1 DEF FanIn, FirstSeen
  <2>2. CASE Duplicate(r, f)
    <3>1. Excused(f)'
      BY <1>3, <2>2 DEF FanIn, Duplicate, Excused, Settled
    <3>2. \A t \in acks' : t \in acks \/ t.frame = f
      BY <2>2 DEF Duplicate, Confirm
    <3>3. work.pc = "confirm" => work.frame \in Frame
      BY DEF TypeOK, Idle, Working
    <3>4. UNCHANGED <<copy, work>>  BY <1>3 DEF FanIn
    <3> QED BY <1>0, <3>1, <3>2, <3>3, <3>4 DEF AckInv, TypeOK, Token
  <2> QED BY <1>3, <2>1, <2>2 DEF FanIn
<1>4. ASSUME NEW u \in Token, AckArrives(u) PROVE AckInv'
  <2>1. Excused(u.frame) /\ u.frame \in Frame /\ u.relay \in Relay
    BY <1>4 DEF AckArrives, AckInv, Token
  <2>2. \A r \in Relay, f \in Frame :
          copy'[r][f] = "reclaimed" => copy[r][f] = "reclaimed" \/ f = u.frame
    BY <1>4, <2>1 DEF AckArrives, TypeOK
  <2>3. work.pc = "confirm" => work.frame \in Frame
    BY DEF TypeOK, Idle, Working
  <2>4. acks' \subseteq acks /\ UNCHANGED work  BY <1>4 DEF AckArrives
  <2> QED BY <1>0, <2>1, <2>2, <2>3, <2>4 DEF AckInv, TypeOK, Token
<1>5. CASE ConfirmDelivery
  <2>1. work.frame \in Frame /\ Excused(work.frame)
    BY <1>5 DEF ConfirmDelivery, TypeOK, Idle, Working, AckInv
  <2>2. \A t \in acks' : t \in acks \/ t.frame = work.frame
    BY <1>5 DEF ConfirmDelivery, Confirm
  <2>3. work'.pc # "confirm" /\ UNCHANGED copy  BY <1>5 DEF ConfirmDelivery, Idle
  <2> QED BY <1>0, <2>1, <2>2, <2>3 DEF AckInv, TypeOK, Token
<1>6. ASSUME NEW g \in Frame, work'.frame = g, Excused(g)', UNCHANGED <<acks, copy>>
      PROVE  AckInv'
  BY <1>0, <1>6 DEF AckInv, TypeOK, Token
<1>7. CASE Reject \/ ReceiveGroup \/ PushHistory \/ RecordNonce
  <2>1. work.pc # "idle" /\ UNCHANGED <<acks, copy>>
    BY <1>7 DEF Reject, ReceiveGroup, PushHistory, RecordNonce
  <2>2. PICK g \in Frame : g = work.frame  BY <2>1 DEF TypeOK, Idle, Working
  <2>3. work'.frame = g
    BY <1>7, <2>1, <2>2, NowType DEF Reject, ReceiveGroup, PushHistory, RecordNonce, Steps
  <2>4. Known(g) \/ Remembered(g) \/ g \in rejected'
    BY <1>7, <2>2
    DEF Reject, ReceiveGroup, PushHistory, RecordNonce, VaultInv, Known
  <2>5. Excused(g)'
    BY <1>0, <2>4, WindowStep DEF Excused, Settled
  <2> QED BY <1>6, <2>1, <2>3, <2>5
<1>8. CASE Take \/ Hold \/ ProcessDies
  BY <1>1, <1>8 DEF Take, Hold, ProcessDies, Volatile, Idle
<1>9. ASSUME NEW r \in Relay, Connect(r) \/ Disconnect(r) PROVE AckInv'
  BY <1>2, <1>9 DEF Connect, Disconnect
<1>10. ASSUME NEW r \in Relay, NEW f \in Frame, Deposit(r, f) \/ Expire(r, f) PROVE AckInv'
  <2>1. \A q \in Relay, g \in Frame : copy'[q][g] = "reclaimed" => copy[q][g] = "reclaimed"
    <3>1. PICK fate \in {"stored", "expired"} : copy' = [copy EXCEPT ![r][f] = fate]
      BY <1>10 DEF Deposit, Expire
    <3> QED BY <3>1 DEF TypeOK
  <2> QED BY <1>2, <1>10, <2>1 DEF Deposit, Expire
<1>11. ASSUME NEW f \in Frame, SeenLapses(f) \/ KeyArrives(f) \/ KeyLapses(f)
       PROVE  AckInv'
  BY <1>2, <1>11 DEF SeenLapses, KeyArrives, KeyLapses
<1>12. CASE UNCHANGED inboundVars  BY <1>2, <1>12 DEF inboundVars
<1> QED BY <1>3, <1>4, <1>5, <1>7, <1>8, <1>9, <1>10, <1>11, <1>12 DEF Next

\* Both parts hold initially.
LEMMA InitSafe == Init => VaultInv /\ AckInv
BY DEF Init, VaultInv, AckInv, ReadOnce, Idle

\* A frame that is lost had a copy reclaimed, so it was excused without being settled.
LEMMA LossIsExcused == TypeOK /\ AckInv => LostInTwoWays
<1> SUFFICES ASSUME TypeOK, AckInv, NEW f \in Frame, Lost(f), f \notin early
             PROVE  Torn(f)
  BY DEF LostInTwoWays
<1>1. PICK r \in Relay : copy[r][f] = "reclaimed"  BY DEF Lost
<1>2. Excused(f) /\ ~Settled(f)  BY <1>1 DEF AckInv, Lost
<1>3. Known(f) /\ ~(entries[f] > 0)  BY <1>2 DEF Excused, Settled
<1>4. entries[f] \in 0..2  BY DEF TypeOK
<1> QED BY <1>3, <1>4 DEF Torn, Known

\* Whatever the order of holds, redeliveries, lost acks and process deaths, a frame is lost
\* only behind a duplicate confirmed early by the fan-in or between dispatch_message's two
\* vault writes.
THEOREM LossIsBounded == Spec => []LostInTwoWays
<1>1. TypeOK /\ VaultInv /\ AckInv /\ [Next]_inboundVars => VaultInv' /\ AckInv'
  BY VaultStep, AckStep
<1> QED BY <1>1, InitType, InitSafe, TypeStep, LossIsExcused, PTL DEF Spec

\* A frame is read twice only after Window other frames pushed its nonce out of the vault.
THEOREM ReadOnceInWindow == Spec => []ReadOnce
<1>1. VaultInv => ReadOnce  BY DEF VaultInv
<1> QED BY <1>1, InitType, InitSafe, TypeStep, VaultStep, PTL DEF Spec

-----------------------------------------------------------------------------
(* Frames that are persisted whole *)

\* The nonce of f and its history entry do not come apart: a private-group frame is one
\* vault write, and the two writes of a direct message both happen where nothing fails.
Whole(f) == Kind[f] = "group" \/ (~VaultMayFail /\ MaxMishaps = 0)

\* Where nothing comes apart, a nonce in the vault means a settled frame, but for the
\* direct message between its two writes.
WholeInv ==
    /\ work.pc = "history" => Kind[work.frame] = "dm"
    /\ \A f \in Frame : Whole(f) /\ Known(f) =>
          Settled(f) \/ (work.pc = "history" /\ work.frame = f)
    /\ work.pc = "confirm" /\ Whole(work.frame) => Settled(work.frame)

\* A whole frame is confirmed after it is settled, and is lost in one way only.
WholeIsKept ==
    /\ work.pc = "confirm" /\ Whole(work.frame) => Settled(work.frame)
    /\ \A f \in Frame : Whole(f) /\ Lost(f) => f \in early

\* Recording a nonce makes no other frame known.
LEMMA OneMoreKnown ==
    ASSUME TypeOK, NEW f \in Frame, Remembered(f)
    PROVE  \A g \in Frame : Known(g)' => Known(g) \/ g = f
<1>1. nonces \in Seq(Frame) /\ Window \in Nat \ {0}
  BY InboundAssumption DEF TypeOK
<1>2. CASE Len(nonces) >= Window
  <2>1. nonces' = Append(Tail(nonces), f) /\ evicted' = evicted \cup {Head(nonces)}
    BY <1>2 DEF Remembered
  <2>2. nonces # << >> /\ 1 \in DOMAIN nonces /\ Head(nonces) = nonces[1]
    BY <1>1, <1>2
  <2>3. ASSUME NEW i \in DOMAIN nonces'
        PROVE  nonces'[i] = f \/ \E j \in DOMAIN nonces : nonces'[i] = nonces[j]
    <3>1. Tail(nonces) \in Seq(Frame) /\ Len(Tail(nonces)) = Len(nonces) - 1
      BY <1>1, <2>2
    <3>2. CASE i = Len(nonces)  BY <2>1, <3>1, <3>2
    <3>3. CASE i # Len(nonces)
      <4>1. i \in 1..Len(Tail(nonces)) /\ nonces'[i] = Tail(nonces)[i]
        BY <2>1, <3>1, <3>3
      <4>2. i + 1 \in DOMAIN nonces /\ Tail(nonces)[i] = nonces[i + 1]
        BY <1>1, <3>1, <4>1
      <4> QED BY <4>1, <4>2
    <3> QED BY <3>2, <3>3
  <2> QED BY <2>1, <2>2, <2>3 DEF Known, Recorded
<1>3. CASE ~(Len(nonces) >= Window)
  <2>1. nonces' = Append(nonces, f) /\ evicted' = evicted
    BY <1>3 DEF Remembered
  <2>2. ASSUME NEW i \in DOMAIN nonces'
        PROVE  nonces'[i] = f \/ (i \in DOMAIN nonces /\ nonces'[i] = nonces[i])
    BY <1>1, <2>1
  <2> QED BY <2>1, <2>2 DEF Known, Recorded
<1> QED BY <1>2, <1>3

\* What is settled stays settled.
LEMMA SettledStays ==
    ASSUME TypeOK, [Next]_inboundVars
    PROVE  \A f \in Frame : Settled(f) => Settled(f)'
<1>1. rejected \subseteq rejected'
  BY DEF Next, Connect, Disconnect, Deposit, Expire, FanIn, AckArrives, SeenLapses,
         KeyArrives, KeyLapses, Take, Hold, Reject, ReceiveGroup, RecordNonce,
         PushHistory, ConfirmDelivery, ProcessDies, inboundVars
<1>2. CASE UNCHANGED entries  BY <1>1, <1>2 DEF Settled
<1>3. CASE work.pc # "idle" /\ Appended(work.frame)
  <2>1. work.frame \in Frame  BY <1>3 DEF TypeOK, Idle, Working
  <2> QED BY <1>1, <1>3, <2>1, AppendedGrows DEF Settled
<1>4. UNCHANGED entries \/ (work.pc # "idle" /\ Appended(work.frame))
  BY DEF Next, Connect, Disconnect, Deposit, Expire, FanIn, AckArrives, SeenLapses,
         KeyArrives, KeyLapses, Take, Hold, Reject, ReceiveGroup, RecordNonce,
         PushHistory, ConfirmDelivery, ProcessDies, inboundVars
<1> QED BY <1>2, <1>3, <1>4

\* Every step keeps whole frames whole.
LEMMA WholeStep == TypeOK /\ WholeInv /\ [Next]_inboundVars => WholeInv'
<1> SUFFICES ASSUME TypeOK, WholeInv, [Next]_inboundVars PROVE WholeInv'
  OBVIOUS
<1>0. \A f \in Frame : Settled(f) => Settled(f)'  BY SettledStays
<1>1. \A f \in Frame : Whole(f)' = Whole(f)  BY DEF Whole
<1>2. work.pc # "idle" => work \in Working /\ work.frame \in Frame
  BY DEF TypeOK, Idle, Working
<1>3. CASE UNCHANGED <<nonces, evicted, work>>
  <2>1. \A f \in Frame : Known(f)' => Known(f)  BY <1>3 DEF Known, Recorded
  <2>2. work.pc = "confirm" => work.frame \in Frame  BY <1>2
  <2> QED BY <1>0, <1>3, <2>1, <2>2 DEF WholeInv, Whole
<1>4. CASE UNCHANGED <<nonces, evicted>> /\ work.pc # "history" /\ work'.pc \in {"idle", "check"}
  <2>1. \A f \in Frame : Known(f)' => Known(f)  BY <1>4 DEF Known, Recorded
  <2> QED BY <1>0, <1>4, <2>1 DEF WholeInv, Whole
<1>5. CASE Reject
  <2>1. PICK g \in Frame : g = work.frame  BY <1>2, <1>5 DEF Reject
  <2>2. work.pc = "check" /\ work'.pc = "confirm" /\ work'.frame = g
    BY <1>5, <2>1, NowType DEF Reject, Steps
  <2>3. \A f \in Frame : Known(f)' => Known(f) \/ f = g
    BY <1>5, <2>1, OneMoreKnown DEF Reject, Known, Recorded
  <2>4. Settled(g)'  BY <1>5, <2>1 DEF Reject, Settled
  <2> QED BY <1>0, <2>2, <2>3, <2>4 DEF WholeInv, Whole
<1>6. CASE ReceiveGroup
  <2>1. PICK g \in Frame : g = work.frame  BY <1>2, <1>6 DEF ReceiveGroup
  <2>2. /\ work.pc = "check" /\ Kind[g] = "group"
        /\ work'.pc = "confirm" /\ work'.frame = g
    BY <1>6, <2>1, NowType DEF ReceiveGroup, Steps
  <2>3. Settled(g)'
    <3>1. CASE Recorded(g)
      <4>1. Settled(g)  BY <2>2, <3>1 DEF WholeInv, Whole, Known
      <4> QED BY <1>0, <4>1
    <3>2. CASE ~Recorded(g)
      <4>1. Appended(g)  BY <1>6, <2>1, <3>2 DEF ReceiveGroup
      <4> QED BY <4>1, AppendedGrows DEF Settled
    <3> QED BY <3>1, <3>2
  <2>4. \A f \in Frame : Known(f)' => Known(f) \/ f = g
    BY <1>6, <2>1, OneMoreKnown DEF ReceiveGroup, Known, Recorded
  <2> QED BY <1>0, <2>2, <2>3, <2>4 DEF WholeInv, Whole
<1>7. CASE RecordNonce
  <2>1. work.pc = "check" /\ work.frame \in Frame /\ Kind[work.frame] = "dm"
    BY <1>2, <1>7 DEF RecordNonce
  <2>2. CASE Recorded(work.frame)
    <3>1. Now("confirm") /\ UNCHANGED <<nonces, evicted>>  BY <1>7, <2>2 DEF RecordNonce
    <3>2. work'.pc = "confirm" /\ work'.frame = work.frame
      BY <2>1, <3>1, NowType DEF Steps
    <3>3. \A f \in Frame : Known(f)' => Known(f)  BY <3>1 DEF Known, Recorded
    <3>4. Whole(work.frame) => Settled(work.frame)
      BY <2>1, <2>2 DEF WholeInv, Known
    <3> QED BY <1>0, <2>1, <3>2, <3>3, <3>4 DEF WholeInv, Whole
  <2>3. CASE ~Recorded(work.frame)
    <3>1. Now("history") /\ Remembered(work.frame)  BY <1>7, <2>3 DEF RecordNonce
    <3>2. work'.pc = "history" /\ work'.frame = work.frame
      BY <2>1, <3>1, NowType DEF Steps
    <3>3. \A f \in Frame : Known(f)' => Known(f) \/ f = work.frame
      BY <2>1, <3>1, OneMoreKnown
    <3> QED BY <1>0, <2>1, <3>2, <3>3 DEF WholeInv, Whole
  <2> QED BY <2>2, <2>3
<1>8. CASE PushHistory
  <2>1. PICK g \in Frame : g = work.frame  BY <1>2, <1>8 DEF PushHistory
  <2>2. /\ work.pc = "history" /\ UNCHANGED <<nonces, evicted>>
        /\ work'.pc = "confirm" /\ work'.frame = g
    BY <1>8, <2>1, NowType DEF PushHistory, Steps
  <2>3. \A f \in Frame : Known(f)' => Known(f)  BY <2>2 DEF Known, Recorded
  <2>4. Whole(g) => ~VaultMayFail  BY <2>1, <2>2 DEF WholeInv, Whole
  <2>5. Whole(g) => Settled(g)'
    <3>1. Whole(g) => Appended(g)  BY <1>8, <2>1, <2>4 DEF PushHistory
    <3> QED BY <3>1, AppendedGrows DEF Settled
  <2> QED BY <1>0, <2>1, <2>2, <2>3, <2>5 DEF WholeInv, Whole
<1>9. CASE ProcessDies
  <2>1. UNCHANGED <<nonces, evicted>> /\ work'.pc = "idle" /\ MaxMishaps # 0
    BY <1>9 DEF ProcessDies, Volatile, Idle, Mishap, TypeOK
  <2>2. \A f \in Frame : Known(f)' => Known(f)  BY <2>1 DEF Known, Recorded
  <2>3. \A f \in Frame : Whole(f) => ~(work.pc = "history" /\ work.frame = f)
    BY <2>1 DEF WholeInv, Whole
  <2> QED BY <1>0, <2>1, <2>2, <2>3 DEF WholeInv, Whole
<1>10. CASE Take \/ Hold \/ ConfirmDelivery
  BY <1>4, <1>10 DEF Take, Hold, ConfirmDelivery, Idle
<1>11. \/ UNCHANGED <<nonces, evicted, work>>
       \/ Take \/ Hold \/ Reject \/ ReceiveGroup \/ RecordNonce \/ PushHistory
       \/ ConfirmDelivery \/ ProcessDies
  BY DEF Next, Connect, Disconnect, Deposit, Expire, FanIn, AckArrives, SeenLapses,
         KeyArrives, KeyLapses, inboundVars
<1> QED BY <1>3, <1>5, <1>6, <1>7, <1>8, <1>9, <1>10, <1>11

\* Under any mishaps a private-group frame is confirmed only once it is in the history or
\* rejected, and is lost only behind a duplicate confirmed early; and so is a direct message
\* where no process dies and the vault does not fail.
THEOREM WholeFramesPersist == Spec => []WholeIsKept
<1>1. Init => WholeInv  BY DEF Init, WholeInv, Idle, Known, Recorded
<1>2. TypeOK /\ VaultInv /\ AckInv /\ [Next]_inboundVars => VaultInv' /\ AckInv'
  BY VaultStep, AckStep
<1>3. TypeOK /\ AckInv /\ WholeInv => WholeIsKept
  <2> SUFFICES ASSUME TypeOK, AckInv, WholeInv, NEW f \in Frame, Whole(f), Lost(f)
               PROVE  f \in early
    BY DEF WholeInv, WholeIsKept
  <2>1. f \in early \/ Torn(f)  BY LossIsExcused DEF LostInTwoWays
  <2>2. ~Settled(f) /\ ~(work.pc = "history" /\ work.frame = f)  BY DEF Lost, InHand
  <2>3. ~Torn(f)  BY <2>2 DEF WholeInv, Torn, Known
  <2> QED BY <2>1, <2>3
<1> QED BY <1>1, <1>2, <1>3, InitType, InitSafe, TypeStep, WholeStep, PTL DEF Spec

\* What the doc of confirms_delivery says of every frame holds where every frame is whole.
THEOREM ConfirmedIsPersisted ==
    ASSUME \A f \in Frame : Whole(f)
    PROVE  Spec => []ConfirmAfterPersist
<1>1. TypeOK /\ WholeIsKept => ConfirmAfterPersist
  BY DEF TypeOK, Idle, Working, WholeIsKept, ConfirmAfterPersist
<1> QED BY <1>1, InboundTypeCorrect, WholeFramesPersist, PTL

-----------------------------------------------------------------------------
(* The relays keep to the transit contract *)

InInbox(t) == \E i \in DOMAIN inbox : inbox[i] = t

\* The client has relay r's copy of f, on the way in or on the way to being confirmed.
Holds(r, f) ==
    \/ flow[r][f] > 0
    \/ InInbox([relay |-> r, frame |-> f])
    \/ work.pc # "idle" /\ work.relay = r /\ work.frame = f
    \/ [relay |-> r, frame |-> f] \in acks

\* Relay r's transit store, with this client as its one recipient.  How the senders learn
\* of their deposits is none of this client's business.
Store(r) == INSTANCE TransitContract
    WITH Agent <- {"client"}, Envelope <- Frame, Recipient <- [f \in Frame |-> "client"],
         copy <- copy[r], told <- {},
         hand <- [a \in {"client"} |-> {f \in Frame : Holds(r, f)}]

\* A step that leaves the socket side alone: what the client holds afterwards it held, in
\* its inbox or at work.
LEMMA HoldsSame ==
    ASSUME NEW r \in Relay, NEW f \in Frame, UNCHANGED <<flow, acks>>, Holds(r, f)',
           InInbox([relay |-> r, frame |-> f])' => Holds(r, f),
           work'.pc # "idle" /\ work'.relay = r /\ work'.frame = f => Holds(r, f)
    PROVE  Holds(r, f)
BY DEF Holds

\* Taking a frame off the inbox finds it there.
LEMMA TakeHolds ==
    ASSUME TypeOK, Take, NEW t \in Token
    PROVE  /\ InInbox(t)' => InInbox(t)
           /\ work'.relay = t.relay /\ work'.frame = t.frame => InInbox(t)
<1>1. inbox \in Seq(Token) /\ inbox # << >> /\ inbox' = Tail(inbox)
  BY DEF Take, TypeOK
<1>2. Head(inbox) \in Token /\ Head(inbox) = inbox[1] /\ 1 \in DOMAIN inbox
  BY <1>1
<1>3. ASSUME NEW i \in DOMAIN inbox' PROVE i + 1 \in DOMAIN inbox /\ inbox'[i] = inbox[i + 1]
  BY <1>1
<1>4. InInbox(t)' => InInbox(t)  BY <1>3 DEF InInbox
<1>5. work'.relay = Head(inbox).relay /\ work'.frame = Head(inbox).frame
  BY DEF Take
<1>6. \A a, b \in Token : a.relay = b.relay /\ a.frame = b.frame => a = b
  BY DEF Token
<1> QED BY <1>2, <1>4, <1>5, <1>6 DEF InInbox

\* What the client gains from a relay in a step is a frame the relay has taken.
LEMMA HoldsStep ==
    ASSUME TypeOK, [Next]_inboundVars, NEW r \in Relay, NEW f \in Frame, Holds(r, f)'
    PROVE  Holds(r, f) \/ copy'[r][f] # "absent"
<1> DEFINE t == [relay |-> r, frame |-> f]
           Goal == Holds(r, f) \/ copy'[r][f] # "absent"
<1>0. t \in Token /\ t.relay = r /\ t.frame = f  BY DEF Token
<1>a. flow \in [Relay -> [Frame -> 0..2]] /\ copy \in [Relay -> [Frame -> Fates]]
  BY DEF TypeOK
<1>1. ASSUME NEW q \in Relay, Connect(q) PROVE Goal
  <2>1. flow'[r][f] > 0 => flow[r][f] > 0 \/ copy[r][f] = "stored"
    BY <1>1, <1>a DEF Connect
  <2>2. UNCHANGED <<copy, inbox, work>> /\ acks' \subseteq acks  BY <1>1 DEF Connect
  <2> QED BY <2>1, <2>2 DEF Holds, InInbox
<1>2. ASSUME NEW q \in Relay, Disconnect(q) PROVE Goal
  <2>1. flow'[r][f] > 0 => flow[r][f] > 0
    BY <1>2, <1>a DEF Disconnect
  <2>2. UNCHANGED <<inbox, work, acks>>  BY <1>2 DEF Disconnect
  <2> QED BY <2>1, <2>2 DEF Holds, InInbox
<1>3. ASSUME NEW q \in Relay, NEW g \in Frame, Deposit(q, g) PROVE Goal
  <2>1. CASE q = r /\ g = f
    BY <1>3, <1>a, <2>1 DEF Deposit
  <2>2. CASE ~(q = r /\ g = f)
    <3>1. flow'[r][f] = flow[r][f]
      <4>1. CASE q \in up
        <5>1. PICK n \in 1..2 : flow' = [flow EXCEPT ![q][g] = Cap2(@ + n)]
          BY <1>3, <4>1 DEF Deposit
        <5> QED BY <5>1, <1>a, <2>2
      <4>2. CASE q \notin up  BY <1>3, <4>2 DEF Deposit
      <4> QED BY <4>1, <4>2
    <3>2. UNCHANGED <<inbox, work, acks>>  BY <1>3 DEF Deposit
    <3> QED BY <3>1, <3>2 DEF Holds, InInbox
  <2> QED BY <2>1, <2>2
<1>4. ASSUME NEW q \in Relay, NEW g \in Frame, Expire(q, g) PROVE Goal
  <2>1. UNCHANGED <<flow, inbox, work, acks>>  BY <1>4 DEF Expire
  <2> QED BY <2>1 DEF Holds, InInbox
<1>5. ASSUME NEW q \in Relay, NEW g \in Frame, FanIn(q, g) PROVE Goal
  <2> DEFINE n == [relay |-> q, frame |-> g]
  <2>1. UNCHANGED <<work>> /\ flow[q][g] > 0 /\ flow' = [flow EXCEPT ![q][g] = @ - 1]
    BY <1>5 DEF FanIn
  <2>2. flow'[r][f] > 0 => flow[r][f] > 0  BY <2>1, <1>a
  <2>3. n = t => q = r /\ g = f  OBVIOUS
  <2>4. t \in acks' => t \in acks \/ n = t
    BY <1>5 DEF FanIn, FirstSeen, Duplicate, Confirm
  <2>5. InInbox(t)' => InInbox(t) \/ n = t
    <3>1. CASE FirstSeen(q, g)
      <4>1. inbox \in Seq(Token) /\ inbox' = Append(inbox, n)
        BY <3>1 DEF FirstSeen, TypeOK
      <4>2. \A i \in DOMAIN inbox' : (i \in DOMAIN inbox /\ inbox'[i] = inbox[i]) \/ inbox'[i] = n
        BY <4>1
      <4> HIDE DEF n, t
      <4> QED BY <4>2 DEF InInbox
    <3>2. CASE Duplicate(q, g)  BY <3>2 DEF Duplicate, InInbox
    <3> QED BY <1>5, <3>1, <3>2 DEF FanIn
  <2> HIDE DEF n
  <2> QED BY <2>1, <2>2, <2>3, <2>4, <2>5 DEF Holds
<1>6. ASSUME NEW u \in Token, AckArrives(u) PROVE Goal
  <2>1. UNCHANGED <<flow, inbox, work>> /\ acks' \subseteq acks  BY <1>6 DEF AckArrives
  <2> QED BY <2>1 DEF Holds, InInbox
<1>7. ASSUME NEW g \in Frame, SeenLapses(g) \/ KeyArrives(g) \/ KeyLapses(g) PROVE Goal
  <2>1. UNCHANGED <<flow, inbox, work, acks>>
    BY <1>7 DEF SeenLapses, KeyArrives, KeyLapses
  <2> QED BY <2>1 DEF Holds, InInbox
<1>8. ASSUME Take PROVE Goal
  <2>1. UNCHANGED <<flow, acks>>  BY <1>8 DEF Take
  <2>2. /\ InInbox(t)' => InInbox(t)
        /\ work'.relay = r /\ work'.frame = f => InInbox(t)
    BY <1>0, <1>8, TakeHolds
  <2>3. InInbox(t) => Holds(r, f)  BY DEF Holds
  <2> QED BY <2>1, <2>2, <2>3, HoldsSame
<1>9. ASSUME Hold PROVE Goal
  <2>1. UNCHANGED <<flow, acks, inbox>> /\ work' = Idle  BY <1>9 DEF Hold
  <2> QED BY <2>1 DEF Holds, InInbox, Idle
<1>10. ASSUME Reject \/ ReceiveGroup \/ RecordNonce \/ PushHistory PROVE Goal
  <2>1. UNCHANGED <<flow, acks, inbox>>
    BY <1>10 DEF Reject, ReceiveGroup, RecordNonce, PushHistory
  <2>2. work.pc # "idle" /\ (Now("confirm") \/ Now("history"))
    BY <1>10 DEF Reject, ReceiveGroup, RecordNonce, PushHistory
  <2>3. work'.relay = work.relay /\ work'.frame = work.frame
    BY <2>2, NowType DEF Steps
  <2> QED BY <2>1, <2>2, <2>3 DEF Holds, InInbox
<1>11. ASSUME ConfirmDelivery PROVE Goal
  <2>1. /\ UNCHANGED <<flow, inbox>> /\ work' = Idle /\ work.pc # "idle"
        /\ acks' = acks \cup {[relay |-> work.relay, frame |-> work.frame]}
    BY <1>11 DEF ConfirmDelivery, Confirm
  <2>2. t = [relay |-> work.relay, frame |-> work.frame] => work.relay = r /\ work.frame = f
    OBVIOUS
  <2> QED BY <2>1, <2>2 DEF Holds, InInbox, Idle
<1>12. ASSUME ProcessDies PROVE Goal
  <2>1. flow'[r][f] = 0 /\ acks' = {} /\ inbox' = << >> /\ work' = Idle
    BY <1>12 DEF ProcessDies, Volatile
  <2>2. ~InInbox(t)'  BY <2>1 DEF InInbox
  <2> QED BY <2>1, <2>2 DEF Holds, Idle
<1>13. ASSUME UNCHANGED inboundVars PROVE Goal
  <2>1. UNCHANGED <<flow, inbox, work, acks>>  BY <1>13 DEF inboundVars
  <2> QED BY <2>1 DEF Holds, InInbox
<1> HIDE DEF Goal, t
<1>14. Goal
  BY <1>1, <1>2, <1>3, <1>4, <1>5, <1>6, <1>7, <1>8, <1>9, <1>10, <1>11, <1>12, <1>13 DEF Next
<1> QED BY <1>14 DEF Goal

\* A relay's copies change by a deposit, an expiry or the arrival of an acknowledgement.
LEMMA CopiesStep ==
    ASSUME [Next]_inboundVars
    PROVE  \/ UNCHANGED copy
           \/ \E q \in Relay, g \in Frame : Deposit(q, g) \/ Expire(q, g)
           \/ \E t \in Token : AckArrives(t)
BY DEF Next, inboundVars, Connect, Disconnect, FanIn, SeenLapses, KeyArrives, KeyLapses,
       Take, Hold, Reject, ReceiveGroup, RecordNonce, PushHistory, ConfirmDelivery, ProcessDies

\* Each relay of the inbound path is a transit store as TransitContract has it: nothing
\* comes down a connection that the relay was not given, and a copy is reclaimed only while
\* the client holds that very relay's copy, or expires.  With RelayImplementsContract, the
\* relays this path is checked against and the relay the code runs keep one contract.
THEOREM RelaysKeepContract ==
    ASSUME NEW r \in Relay
    PROVE  Spec => Store(r)!ContractSpec
<1>1. Init => Store(r)!ContractInit
  BY InboundAssumption DEF Init, Holds, InInbox, Store!ContractInit, Idle
<1>2. TypeOK /\ [Next]_inboundVars => Store(r)!ContractNext
  <2> SUFFICES ASSUME TypeOK, [Next]_inboundVars PROVE Store(r)!ContractNext  OBVIOUS
  <2>0. copy \in [Relay -> [Frame -> Fates]]  BY DEF TypeOK
  <2>1. Store(r)!Delivered
    BY HoldsStep DEF Store!Delivered
  <2>2. CASE copy'[r] = copy[r]  BY <2>1, <2>2 DEF Store!ContractNext
  <2>3. ASSUME NEW q \in Relay, NEW g \in Frame, Deposit(q, g) PROVE Store(r)!ContractNext
    <3>1. CASE q # r  BY <2>0, <2>2, <2>3, <3>1 DEF Deposit
    <3>2. CASE q = r
      <4>1. copy[r][g] = "absent" /\ copy'[r] = [copy[r] EXCEPT ![g] = "stored"]
        BY <2>0, <2>3, <3>2 DEF Deposit
      <4>2. Store(r)!Enqueued(g)  BY <4>1 DEF Store!Enqueued
      <4> QED BY <2>1, <4>2 DEF Store!ContractNext
    <3> QED BY <3>1, <3>2
  <2>4. ASSUME NEW q \in Relay, NEW g \in Frame, Expire(q, g) PROVE Store(r)!ContractNext
    <3>1. CASE q # r  BY <2>0, <2>2, <2>4, <3>1 DEF Expire
    <3>2. CASE q = r
      <4>1. /\ {g} \in SUBSET {f \in Frame : copy[r][f] = "stored"}
            /\ copy'[r] = [f \in Frame |-> IF f \in {g} THEN "expired" ELSE copy[r][f]]
        BY <2>0, <2>4, <3>2 DEF Expire
      <4>2. Store(r)!SweptExpired  BY <4>1 DEF Store!SweptExpired
      <4> QED BY <2>1, <4>2 DEF Store!ContractNext
    <3> QED BY <3>1, <3>2
  <2>5. ASSUME NEW t \in Token, AckArrives(t) PROVE Store(r)!ContractNext
    <3>0. t.relay \in Relay /\ t.frame \in Frame /\ t = [relay |-> t.relay, frame |-> t.frame]
      BY DEF Token
    <3>1. copy' = [copy EXCEPT ![t.relay][t.frame] = IF @ = "stored" THEN "reclaimed" ELSE @]
      BY <2>5 DEF AckArrives
    <3>2. CASE t.relay # r \/ copy[t.relay][t.frame] # "stored"
      <4>1. copy'[r] = copy[r]  BY <2>0, <3>0, <3>1, <3>2
      <4> QED BY <2>2, <4>1
    <3>3. CASE t.relay = r /\ copy[t.relay][t.frame] = "stored"
      <4>1. /\ copy[r][t.frame] = "stored"
            /\ copy'[r] = [copy[r] EXCEPT ![t.frame] = "reclaimed"]
        BY <2>0, <3>0, <3>1, <3>3
      <4>2. Holds(r, t.frame)  BY <2>5, <3>0, <3>3 DEF AckArrives, Holds
      <4>3. Store(r)!Deleted(t.frame)  BY <3>0, <4>1, <4>2 DEF Store!Deleted
      <4> QED BY <2>1, <3>0, <4>3 DEF Store!ContractNext
    <3> QED BY <3>2, <3>3
  <2> QED BY <2>2, <2>3, <2>4, <2>5, CopiesStep
<1>3. TypeOK /\ [Next]_inboundVars => [Store(r)!ContractNext]_(Store(r)!contractVars)
  BY <1>2
<1> QED BY <1>1, <1>3, InboundTypeCorrect, PTL DEF Spec, Store!ContractSpec

=============================================================================
