----------------------- MODULE PriorityRequestsProofs ------------------------
(***************************************************************************)
(* Theorems of PriorityRequests: the safety properties of the way of a     *)
(* request hold for any vehicles, delays and lifetimes.                    *)
(*                                                                         *)
(* The argument is about the distance between a message and the last one   *)
(* its vehicle sent.  A message in transit is at most MaxDelay behind, so  *)
(* its sequence number tells which message it is, and its identifier tells *)
(* to which request it belongs; what the caches of the road-side unit hold *)
(* is at most their lifetime further behind.                               *)
(***************************************************************************)
EXTENDS PriorityRequests, SequenceTheorems, FiniteSetTheorems, WellFoundedInduction, TLAPS

Ids == 1 .. MaxRequestId
Numbers == 0 .. SequenceModulus - 1
Kinds == {"request", "update", "cancellation"}

Messages ==
    [vehicle : Vehicles, n : Nat, id : Ids, seq : Numbers, kind : Kinds, age : Nat]

Parcels == [m : Messages, wait : Nat]

Entries == [vehicle : Vehicles, id : Ids, seq : Numbers, age : Nat]

Beliefs ==
    [status : {"none", "detected", "active", "granted", "expired", "cleared"},
     about : Messages \cup {NoMessage}, unseen : Nat]

\* The shape of every variable.
TypeOK ==
    /\ obu \in [Vehicles -> [seq : Numbers, id : 0 .. MaxRequestId, nextId : Ids, idle : Nat]]
    /\ wire \in Seq(Parcels)
    /\ batch \subseteq [vehicle : Vehicles, id : Ids, seq : Numbers]
    /\ rsu \in [processed : SUBSET Entries, last : SUBSET Entries,
                slots : SUBSET [vehicle : Vehicles, id : Ids, left : Int],
                rested : [Vehicles -> Nat]]
    /\ store \in [Vehicles -> Beliefs]
    /\ answers \subseteq Messages
    /\ sent \in [Vehicles -> Nat]
    /\ past \in [Vehicles -> [Ids -> [received : Nat, forwarded : Nat, cancelled : Nat]]]

\* How many messages the vehicle has sent after this one.
Behind(v, n) == sent[v] - n

\* The n-th message of the vehicle carries this sequence number.
Carries(v, n, seq) ==
    \/ obu[v].seq = seq + Behind(v, n)
    \/ obu[v].seq = seq + Behind(v, n) - SequenceModulus

\* The requests a vehicle has begun from this identifier on, its own included.
Begun(id, v) ==
    IF obu[v].nextId > id THEN obu[v].nextId - id ELSE obu[v].nextId - id + MaxRequestId

Received(m) == past[m.vehicle][m.id].received

\* The on-board unit's next identifier follows the one in use.
UnitOrderly ==
    \A v \in Vehicles :
        /\ obu[v].id # 0 =>
              obu[v].nextId = IF obu[v].id = MaxRequestId THEN 1 ELSE obu[v].id + 1

\* Where a message that is still about, in transit or answered, stands.
Placed(m, wait) ==
    LET v == m.vehicle IN
    /\ m.n <= sent[v]
    /\ Behind(v, m.n) + obu[v].idle + wait <= MaxDelay
    /\ Carries(v, m.n, m.seq)
    /\ m.age = 0 => m.n = sent[v]
    /\ ~IsCancellation(m) /\ m.n = sent[v] => obu[v].id = m.id

\* A cancellation is the last message of its request, and the identifier is
\* not used again while it is in transit.
ClosesItsRequest(m) ==
    LET v == m.vehicle IN
    /\ obu[v].id # m.id
    /\ Behind(v, m.n) >= 2 * (Begun(m.id, v) - 1) - (IF obu[v].id = 0 THEN 0 ELSE 1)
    /\ Received(m) <= m.n
    /\ \A i \in DOMAIN wire :
          wire[i].m.vehicle = v /\ wire[i].m.id = m.id => wire[i].m.n <= m.n

WirePlaced ==
    \A i \in DOMAIN wire :
        /\ Placed(wire[i].m, wire[i].wait)
        /\ IsCancellation(wire[i].m) => ClosesItsRequest(wire[i].m)

AnswersPlaced ==
    \A m \in answers : Placed(m, 0) /\ ~IsCancellation(m)

\* What the caches hold is a message that was received, not too long ago.
Remembered(e, n, age) ==
    /\ n <= past[e.vehicle][e.id].received
    /\ Carries(e.vehicle, n, e.seq)
    /\ Behind(e.vehicle, n) + obu[e.vehicle].idle <= MaxDelay + age

\* The caches: one newest message per request, the last received.
CachesSound ==
    /\ \A k \in batch : \E n \in Nat : Remembered(k, n, 0)
    /\ \A e \in rsu.processed :
          e.age <= DedupeTTL /\ \E n \in Nat : Remembered(e, n, e.age)
    /\ \A e \in rsu.last :
          e.age <= DedupeTTL /\ Remembered(e, past[e.vehicle][e.id].received, e.age)
    /\ \A e, f \in rsu.last : SameRequest(e, f) => e = f

\* While a message that was overtaken is in transit, the cache still holds
\* the one that overtook it.
OvertakersRemembered ==
    \A i \in DOMAIN wire :
        wire[i].m.n <= Received(wire[i].m) =>
            \E e \in rsu.last : SameRequest(e, wire[i].m) /\ e.age + wire[i].wait <= MaxDelay

PastOrderly ==
    \A v \in Vehicles, id \in Ids :
        LET p == past[v][id] IN
        p.received <= sent[v] /\ p.forwarded <= p.received /\ p.cancelled <= p.received

StoreFollowsUnit ==
    \A v \in Vehicles :
        IsOpen(store[v]) =>
            /\ store[v].about \in Messages
            /\ obu[v].idle <= MaxDelay => store[v].about.seq = obu[v].seq

\* The store has an open entry for what was said in this pass.
FreshIsStored ==
    /\ \A i \in DOMAIN wire : wire[i].m.age = 0 => IsOpen(store[wire[i].m.vehicle])
    /\ \A m \in answers : m.age = 0 => IsOpen(store[m.vehicle])

SlotsHeld ==
    /\ IsFiniteSet(rsu.slots) /\ Cardinality(rsu.slots) <= MaxActive
    /\ \A s \in rsu.slots : past[s.vehicle][s.id].forwarded > past[s.vehicle][s.id].cancelled
    /\ \A s, t \in rsu.slots : SameRequest(s, t) => s = t

IInv ==
    /\ TypeOK /\ UnitOrderly /\ WirePlaced /\ AnswersPlaced /\ CachesSound
    /\ OvertakersRemembered /\ PastOrderly /\ StoreFollowsUnit /\ FreshIsStored /\ SlotsHeld
-----------------------------------------------------------------------------
(***************************************************************************)
(* Arithmetic of the fields that wrap.                                     *)
(***************************************************************************)

\* What the assumptions say of each constant.
LEMMA ConstantsTyped ==
    /\ RequestTTL \in Nat /\ CancellationTTL \in Nat /\ StoreTTL \in Nat
    /\ DedupeTTL \in Nat /\ Cooldown \in Nat /\ MaxActive \in Nat
    /\ Retention \in Nat /\ MaxDelay \in Nat
    /\ MaxRequestId \in Nat /\ MaxRequestId > 0
    /\ SequenceModulus \in Nat /\ SequenceModulus > 0
    /\ MaxDelay <= DedupeTTL /\ MaxDelay + DedupeTTL < Retention
    /\ 2 * (MaxDelay + DedupeTTL) < SequenceModulus
    /\ MaxDelay + 1 < 2 * MaxRequestId
BY RequestsAssumption, RetentionCoversCaches, CachesCoverDelay, NumbersCoverDelay

\* The remainder of a difference of two sequence numbers.
LEMMA Wrapped ==
    ASSUME NEW a \in Int, -SequenceModulus < a, a < SequenceModulus
    PROVE  a % SequenceModulus = IF a >= 0 THEN a ELSE a + SequenceModulus
BY ConstantsTyped

\* _sequence_not_newer compares the order in which two messages of a vehicle
\* were sent, as long as they are less than half the modulus apart.
LEMMA NotNewerIsOrder ==
    ASSUME NEW x \in Numbers, NEW y \in Numbers, NEW d \in Int,
           2 * d < SequenceModulus, -SequenceModulus < 2 * d,
           \/ x = y + d
           \/ x = y + d - SequenceModulus
           \/ x = y + d + SequenceModulus
    PROVE  NotNewer(x, y) <=> d <= 0
<1>1. x - y \in Int /\ -SequenceModulus < x - y /\ x - y < SequenceModulus
      BY ConstantsTyped DEF Numbers
<1>2. (x - y) % SequenceModulus = IF x - y >= 0 THEN x - y ELSE x - y + SequenceModulus
      BY <1>1, Wrapped
<1>3. (SequenceModulus - 1) \div 2 \in Int
      /\ 2 * ((SequenceModulus - 1) \div 2) <= SequenceModulus - 1
      /\ SequenceModulus - 2 <= 2 * ((SequenceModulus - 1) \div 2)
      BY ConstantsTyped
<1> QED BY <1>1, <1>2, <1>3, ConstantsTyped DEF NotNewer, Numbers
-----------------------------------------------------------------------------
(***************************************************************************)
(* What a pass does to a vehicle: it says one message, or it is silent.    *)
(***************************************************************************)
Succ(id) == IF id = MaxRequestId THEN 1 ELSE id + 1

Says(v, m) ==
    /\ m \in Messages /\ m.vehicle = v /\ m.age = 0
    /\ sent'[v] = sent[v] + 1 /\ m.n = sent[v] + 1
    /\ m.seq = obu'[v].seq
    /\ obu'[v].seq = (IF obu[v].seq = SequenceModulus - 1 THEN 0 ELSE obu[v].seq + 1)
    /\ obu'[v].idle = 0
    /\ \/ /\ IsCancellation(m)
          /\ obu[v].id # 0 /\ m.id = obu[v].id
          /\ obu'[v].id = 0 /\ obu'[v].nextId = obu[v].nextId
       \/ /\ ~IsCancellation(m)
          /\ obu[v].id # 0 /\ m.id = obu[v].id
          /\ obu'[v].id = m.id /\ obu'[v].nextId = obu[v].nextId
       \/ /\ ~IsCancellation(m)
          /\ obu[v].id = 0 /\ m.id = obu[v].nextId
          /\ obu'[v].id = m.id /\ obu'[v].nextId = Succ(m.id)

Forgets(v) ==
    /\ sent'[v] = sent[v]
    /\ obu[v].id = 0 /\ obu[v].idle + 1 >= Retention
    /\ obu'[v] = Fresh

KeepsSilent(v) ==
    /\ sent'[v] = sent[v]
    /\ obu'[v].seq = obu[v].seq
    /\ obu'[v].id = obu[v].id /\ obu'[v].nextId = obu[v].nextId
    /\ obu'[v].idle = Lesser(obu[v].idle + 1, Retention)

\* Identifiers run from 1 to MaxRequestId.
LEMMA NextIdentifier ==
    ASSUME NEW id \in Ids
    PROVE  (id % MaxRequestId) + 1 = Succ(id) /\ Succ(id) \in Ids
BY ConstantsTyped DEF Succ, Ids

\* generate_requests for each vehicle in turn, and the message it published.
LEMMA PassOfAVehicle ==
    ASSUME TypeOK, NEW place \in [Vehicles -> Places], NEW asking \in SUBSET Vehicles,
           Pass(place, asking), NEW v \in Vehicles
    PROVE  LET cancelling == {u \in Vehicles : MustCancel(u, place[u])}
               m == IF v \in asking THEN Request(v) ELSE Cancellation(v)
           IN  /\ obu'[v] \in [seq : Numbers, id : 0 .. MaxRequestId, nextId : Ids, idle : Nat]
               /\ v \in cancelling \cup asking => Says(v, m)
               /\ v \notin cancelling \cup asking => Forgets(v) \/ KeepsSilent(v)
<1> DEFINE cancelling == {u \in Vehicles : MustCancel(u, place[u])}
           m == IF v \in asking THEN Request(v) ELSE Cancellation(v)
<1>1. /\ obu[v] \in [seq : Numbers, id : 0 .. MaxRequestId, nextId : Ids, idle : Nat]
      /\ sent[v] \in Nat
      BY DEF TypeOK
<1>12. obu'[v] = CASE v \in cancelling -> AfterCancelling(obu[v])
                   [] v \in asking -> AfterAsking(obu[v])
                   [] OTHER -> AfterSilence(obu[v], place[v])
      BY DEF Pass
<1>3. sent'[v] = IF v \in cancelling \cup asking THEN sent[v] + 1 ELSE sent[v]
      BY DEF Pass
<1>9. v \in cancelling => MustCancel(v, place[v])
      OBVIOUS
<1>10. v \in asking => MayAsk(v, place[v])
      BY DEF Pass
<1>11. /\ v \in asking => m = Request(v)
       /\ v \notin asking => m = Cancellation(v)
      OBVIOUS
<1> HIDE DEF cancelling, m
<1>2. /\ v \in cancelling => v \notin asking
      /\ v \in cancelling => obu'[v] = AfterCancelling(obu[v])
      /\ v \in asking /\ v \notin cancelling => obu'[v] = AfterAsking(obu[v])
      /\ v \notin asking /\ v \notin cancelling => obu'[v] = AfterSilence(obu[v], place[v])
  <2>1. v \in cancelling => v \notin asking
        BY <1>9, <1>10 DEF MustCancel, MayAsk
  <2> QED BY <1>12, <2>1
<1>4. NextSeq(obu[v]) = (IF obu[v].seq = SequenceModulus - 1 THEN 0 ELSE obu[v].seq + 1)
      /\ NextSeq(obu[v]) \in Numbers
      BY <1>1, ConstantsTyped DEF NextSeq, Numbers
<1>5. (obu[v].nextId % MaxRequestId) + 1 = Succ(obu[v].nextId) /\ Succ(obu[v].nextId) \in Ids
      BY <1>1, NextIdentifier
<1>6. CASE v \in cancelling
  <2>1. v \notin asking
        BY <1>2, <1>6
  <2>2. obu[v].id # 0 /\ obu'[v] = AfterCancelling(obu[v]) /\ sent'[v] = sent[v] + 1
    <3>1. obu[v].id # 0
          BY <1>6, <1>9 DEF MustCancel
    <3> QED BY <1>2, <1>3, <1>6, <3>1
  <2>3. m = Cancellation(v)
        BY <1>11, <2>1
  <2>4. obu'[v] = [seq |-> NextSeq(obu[v]), id |-> 0, nextId |-> obu[v].nextId, idle |-> 0]
        BY <1>1, <2>2 DEF AfterCancelling
  <2>5. m = [vehicle |-> v, n |-> sent[v] + 1, id |-> obu[v].id, seq |-> NextSeq(obu[v]),
             kind |-> "cancellation", age |-> 0]
        BY <2>3 DEF Cancellation, Message
  <2>6. obu[v].id \in Ids
        BY <1>1, <2>2, ConstantsTyped DEF Ids
  <2>7. m \in Messages
        BY <1>1, <1>4, <2>5, <2>6 DEF Messages, Kinds
  <2>8. Says(v, m)
        BY <1>4, <2>2, <2>4, <2>5, <2>7 DEF Says, IsCancellation
  <2>9. obu'[v] \in [seq : Numbers, id : 0 .. MaxRequestId, nextId : Ids, idle : Nat]
        BY <1>1, <1>4, <2>4, ConstantsTyped
  <2> QED BY <1>6, <2>8, <2>9 DEF cancelling, m
<1>7. CASE v \in asking /\ v \notin cancelling
  <2>1. obu'[v] = AfterAsking(obu[v]) /\ sent'[v] = sent[v] + 1 /\ m = Request(v)
        BY <1>2, <1>3, <1>7, <1>11
  <2>2. CASE obu[v].id # 0
    <3>1. /\ obu'[v] = [obu[v] EXCEPT !.seq = NextSeq(obu[v]), !.idle = 0]
          /\ m = [vehicle |-> v, n |-> sent[v] + 1, id |-> obu[v].id, seq |-> NextSeq(obu[v]),
                  kind |-> "update", age |-> 0]
          BY <2>1, <2>2 DEF AfterAsking, Request, Message
    <3>2. obu'[v] = [seq |-> NextSeq(obu[v]), id |-> obu[v].id, nextId |-> obu[v].nextId,
                     idle |-> 0]
          BY <1>1, <3>1
    <3>3. obu[v].id \in Ids
          BY <1>1, <2>2, ConstantsTyped DEF Ids
    <3>4. m \in Messages
          BY <1>1, <1>4, <3>1, <3>3 DEF Messages, Kinds
    <3>5. Says(v, m)
          BY <1>4, <2>1, <2>2, <3>1, <3>2, <3>4 DEF Says, IsCancellation
    <3>6. obu'[v] \in [seq : Numbers, id : 0 .. MaxRequestId, nextId : Ids, idle : Nat]
          BY <1>1, <1>4, <3>2
    <3> QED BY <1>7, <3>5, <3>6 DEF cancelling, m
  <2>3. CASE obu[v].id = 0
    <3>1. /\ obu'[v] = [obu[v] EXCEPT !.seq = NextSeq(obu[v]), !.idle = 0,
                          !.id = obu[v].nextId, !.nextId = (obu[v].nextId % MaxRequestId) + 1]
          BY <1>1, <2>1, <2>3 DEF AfterAsking
    <3>7. m = [vehicle |-> v, n |-> sent[v] + 1, id |-> obu[v].nextId,
               seq |-> NextSeq(obu[v]), kind |-> "request", age |-> 0]
          BY <2>1, <2>3 DEF Request, Message
    <3>2. obu'[v] = [seq |-> NextSeq(obu[v]), id |-> obu[v].nextId,
                     nextId |-> Succ(obu[v].nextId), idle |-> 0]
          BY <1>1, <1>5, <3>1
    <3>3. m \in Messages
          BY <1>1, <1>4, <3>7 DEF Messages, Kinds
    <3>8. sent'[v] = sent[v] + 1
          BY <2>1
    <3>4. Says(v, m)
          BY <1>4, <2>3, <3>2, <3>3, <3>7, <3>8 DEF Says, IsCancellation
    <3>5. obu'[v] \in [seq : Numbers, id : 0 .. MaxRequestId, nextId : Ids, idle : Nat]
          BY <1>1, <1>4, <1>5, <3>2, ConstantsTyped DEF Ids
    <3> QED BY <1>7, <3>4, <3>5 DEF cancelling, m
  <2> QED BY <2>2, <2>3
<1>8. CASE v \notin asking /\ v \notin cancelling
  <2>1. obu'[v] = AfterSilence(obu[v], place[v]) /\ sent'[v] = sent[v]
        BY <1>2, <1>3, <1>8
  <2>2. CASE place[v] = "gone" /\ obu[v].id = 0 /\ obu[v].idle + 1 >= Retention
    <3>1. obu'[v] = Fresh
          BY <2>1, <2>2 DEF AfterSilence
    <3>2. Fresh \in [seq : Numbers, id : 0 .. MaxRequestId, nextId : Ids, idle : Nat]
          BY ConstantsTyped DEF Fresh, Numbers, Ids
    <3> QED BY <1>8, <2>1, <2>2, <3>1, <3>2 DEF Forgets, cancelling, m
  <2>3. CASE ~(place[v] = "gone" /\ obu[v].id = 0 /\ obu[v].idle + 1 >= Retention)
    <3>1. obu'[v] = [obu[v] EXCEPT !.idle = Lesser(obu[v].idle + 1, Retention)]
          BY <1>1, <2>1, <2>3 DEF AfterSilence
    <3>2. Lesser(obu[v].idle + 1, Retention) \in Nat
          BY <1>1, ConstantsTyped DEF Lesser
    <3>3. obu'[v] = [seq |-> obu[v].seq, id |-> obu[v].id, nextId |-> obu[v].nextId,
                     idle |-> Lesser(obu[v].idle + 1, Retention)]
          BY <1>1, <3>1
    <3>4. KeepsSilent(v)
          BY <2>1, <3>3 DEF KeepsSilent
    <3>5. obu'[v] \in [seq : Numbers, id : 0 .. MaxRequestId, nextId : Ids, idle : Nat]
          BY <1>1, <3>2, <3>3
    <3> QED BY <1>8, <3>4, <3>5 DEF cancelling, m
  <2> QED BY <2>2, <2>3
<1> QED BY <1>6, <1>7, <1>8

\* What is in transit after the start of a pass: what was in transit before,
\* one tick closer, and what the vehicles have just said.
LEMMA WireOfAPass ==
    ASSUME TypeOK, NEW place \in [Vehicles -> Places], NEW asking \in SUBSET Vehicles,
           Pass(place, asking), Due = {}
    PROVE  /\ wire' \in Seq(Parcels)
           /\ \A j \in DOMAIN wire' :
                 \/ \E i \in DOMAIN wire :
                       /\ wire[i].wait > 0
                       /\ wire'[j].m = Aged(wire[i].m) /\ wire'[j].wait = wire[i].wait - 1
                 \/ /\ wire'[j].wait <= MaxDelay
                    /\ \E v \in Vehicles : Says(v, wire'[j].m)
<1> DEFINE cancelling == {u \in Vehicles : MustCancel(u, place[u])}
           speaking == cancelling \cup asking
           message == [v \in speaking |-> IF v \in asking THEN Request(v) ELSE Cancellation(v)]
<1>1. PICK copies \in Copies(speaking) :
         \E order \in SetToSeqs(copies), delay \in [copies -> 0 .. MaxDelay] :
            wire' = OneTickCloser \o Scheduled(order, message, delay)
      BY DEF Pass
<1>2. PICK order \in SetToSeqs(copies), delay \in [copies -> 0 .. MaxDelay] :
            wire' = OneTickCloser \o Scheduled(order, message, delay)
      BY <1>1
<1>3. speaking \subseteq Vehicles
      OBVIOUS
<1>4. \A v \in speaking : Says(v, message[v])
  <2> SUFFICES ASSUME NEW v \in speaking PROVE Says(v, message[v])
      OBVIOUS
  <2>1. message[v] = IF v \in asking THEN Request(v) ELSE Cancellation(v)
        OBVIOUS
  <2>2. v \in cancelling \cup asking =>
           Says(v, IF v \in asking THEN Request(v) ELSE Cancellation(v))
        BY PassOfAVehicle
  <2> QED BY <2>1, <2>2
<1> HIDE DEF speaking, message
<1>5. copies \subseteq speaking \X (1 .. MaxCopies)
      BY DEF Copies
<1>6. IsFiniteSet(copies)
  <2>1. IsFiniteSet(speaking) /\ IsFiniteSet(1 .. MaxCopies)
    <3>1. IsFiniteSet(Vehicles) /\ MaxCopies \in Int
          BY RequestsAssumption
    <3>2. IsFiniteSet(speaking)
          BY <1>3, <3>1, FS_Subset
    <3>3. IsFiniteSet(1 .. MaxCopies)
          BY <3>1, FS_Interval
    <3> QED BY <3>2, <3>3
  <2>2. IsFiniteSet(speaking \X (1 .. MaxCopies))
        BY <2>1, FS_Product
  <2> QED BY <1>5, <2>2, FS_Subset
<1>7. order \in Seq(copies)
  <2>1. Cardinality(copies) \in Nat
        BY <1>6, FS_CardinalityType
  <2>2. order \in [1 .. Cardinality(copies) -> copies]
        BY <1>2 DEF SetToSeqs
  <2> QED BY <2>1, <2>2
<1> DEFINE added == Scheduled(order, message, delay)
<1>8. /\ added \in Seq(Parcels)
      /\ \A i \in DOMAIN added :
            added[i].wait <= MaxDelay /\ \E v \in Vehicles : Says(v, added[i].m)
  <2>1. \A i \in DOMAIN order : order[i] \in copies /\ order[i][1] \in speaking
        BY <1>5, <1>7
  <2>2. \A i \in DOMAIN order :
           message[order[i][1]] \in Messages /\ delay[order[i]] \in 0 .. MaxDelay
        BY <1>2, <1>4, <2>1 DEF Says
  <2>3. added = [i \in 1 .. Len(order) |->
                    [m |-> message[order[i][1]], wait |-> delay[order[i]]]]
        BY <1>7 DEF Scheduled
  <2>4. Len(order) \in Nat /\ DOMAIN order = 1 .. Len(order)
        BY <1>7
  <2>5. \A i \in 1 .. Len(order) :
           [m |-> message[order[i][1]], wait |-> delay[order[i]]] \in Parcels
        BY <2>2, <2>4, ConstantsTyped DEF Parcels
  <2> QED BY <1>3, <1>4, <2>1, <2>2, <2>3, <2>4, <2>5, ConstantsTyped
<1>9. /\ OneTickCloser \in Seq(Parcels) /\ Len(OneTickCloser) = Len(wire)
      /\ \A i \in DOMAIN OneTickCloser :
            /\ i \in DOMAIN wire /\ wire[i].wait > 0
            /\ OneTickCloser[i].m = Aged(wire[i].m)
            /\ OneTickCloser[i].wait = wire[i].wait - 1
  <2>1. wire \in Seq(Parcels)
        BY DEF TypeOK
  <2>6. \A i \in DOMAIN wire : wire[i] \in Parcels
        BY <2>1
  <2>7. \A i \in DOMAIN wire : wire[i].wait # 0
        BY DEF Due
  <2>2. \A i \in DOMAIN wire : wire[i].m \in Messages /\ wire[i].wait \in Nat /\ wire[i].wait # 0
        BY <2>6, <2>7 DEF Parcels
  <2>3. \A m \in Messages : Aged(m) \in Messages
        BY ConstantsTyped DEF Messages, Aged, Lesser
  <2>4. OneTickCloser = [i \in 1 .. Len(wire) |->
                            [m |-> Aged(wire[i].m), wait |-> wire[i].wait - 1]]
        BY <2>1 DEF OneTickCloser
  <2>5. \A i \in 1 .. Len(wire) : [m |-> Aged(wire[i].m), wait |-> wire[i].wait - 1] \in Parcels
        BY <2>1, <2>2, <2>3 DEF Parcels
  <2> QED BY <2>1, <2>2, <2>4, <2>5
<1>13. wire' = OneTickCloser \o added
       BY <1>2
<1>14. Len(OneTickCloser) \in Nat /\ DOMAIN OneTickCloser = 1 .. Len(OneTickCloser)
       /\ Len(added) \in Nat /\ DOMAIN added = 1 .. Len(added)
       BY <1>8, <1>9
<1> HIDE DEF added
<1>10. /\ wire' \in Seq(Parcels)
       /\ Len(wire') = Len(OneTickCloser) + Len(added)
       /\ \A j \in 1 .. Len(wire') :
             wire'[j] = IF j <= Len(OneTickCloser) THEN OneTickCloser[j]
                        ELSE added[j - Len(OneTickCloser)]
  <2>1. /\ OneTickCloser \o added \in Seq(Parcels)
        /\ Len(OneTickCloser \o added) = Len(OneTickCloser) + Len(added)
        /\ \A j \in 1 .. Len(OneTickCloser) + Len(added) :
              (OneTickCloser \o added)[j] =
                 IF j <= Len(OneTickCloser) THEN OneTickCloser[j]
                 ELSE added[j - Len(OneTickCloser)]
        BY <1>8, <1>9, ConcatProperties, ZenonT(30)
  <2> QED BY <1>13, <2>1
<1>15. DOMAIN wire' = 1 .. Len(OneTickCloser) + Len(added)
       BY <1>10
<1>11. ASSUME NEW j \in DOMAIN wire', j <= Len(OneTickCloser)
       PROVE  \E i \in DOMAIN wire :
                 /\ wire[i].wait > 0
                 /\ wire'[j].m = Aged(wire[i].m) /\ wire'[j].wait = wire[i].wait - 1
  <2>1. j \in DOMAIN OneTickCloser /\ wire'[j] = OneTickCloser[j]
        BY <1>10, <1>11, <1>14, <1>15
  <2> QED BY <1>9, <2>1
<1>12. ASSUME NEW j \in DOMAIN wire', j > Len(OneTickCloser)
       PROVE  wire'[j].wait <= MaxDelay /\ \E v \in Vehicles : Says(v, wire'[j].m)
  <2>1. j - Len(OneTickCloser) \in DOMAIN added /\ wire'[j] = added[j - Len(OneTickCloser)]
        BY <1>10, <1>12, <1>14, <1>15
  <2> QED BY <1>8, <2>1
<1> QED BY <1>10, <1>11, <1>12, <1>14, <1>15
-----------------------------------------------------------------------------
(***************************************************************************)
(* The start of a pass keeps the invariant.                                *)
(***************************************************************************)

UnitState == [seq : Numbers, id : 0 .. MaxRequestId, nextId : Ids, idle : Nat]

LEMMA TickOfAVehicle ==
    ASSUME TypeOK, Tick, NEW v \in Vehicles
    PROVE  /\ obu[v] \in UnitState /\ obu'[v] \in UnitState
           /\ sent[v] \in Nat /\ sent'[v] \in Nat
           /\ (\E m \in Messages : Says(v, m)) \/ Forgets(v) \/ KeepsSilent(v)
<1>1. PICK place \in [Vehicles -> Places], asking \in SUBSET Vehicles : Pass(place, asking)
      BY DEF Tick
<1> DEFINE cancelling == {u \in Vehicles : MustCancel(u, place[u])}
           m == IF v \in asking THEN Request(v) ELSE Cancellation(v)
<1>2. /\ obu'[v] \in UnitState
      /\ v \in cancelling \cup asking => Says(v, m)
      /\ v \notin cancelling \cup asking => Forgets(v) \/ KeepsSilent(v)
      BY <1>1, PassOfAVehicle DEF UnitState
<1>3. obu[v] \in UnitState /\ sent[v] \in Nat
      BY DEF TypeOK, UnitState
<1> HIDE DEF cancelling, m
<1>4. Says(v, m) => m \in Messages
      BY DEF Says
<1>5. sent'[v] \in Nat
      BY <1>2, <1>3 DEF Says, Forgets, KeepsSilent
<1> QED BY <1>2, <1>3, <1>4, <1>5

LEMMA TickOfTheWire ==
    ASSUME TypeOK, Tick
    PROVE  /\ wire' \in Seq(Parcels)
           /\ \A j \in DOMAIN wire' :
                 \/ \E i \in DOMAIN wire :
                       /\ wire[i].wait > 0
                       /\ wire'[j].m = Aged(wire[i].m) /\ wire'[j].wait = wire[i].wait - 1
                 \/ /\ wire'[j].wait <= MaxDelay
                    /\ \E v \in Vehicles : Says(v, wire'[j].m)
<1>1. PICK place \in [Vehicles -> Places], asking \in SUBSET Vehicles : Pass(place, asking)
      BY DEF Tick
<1>2. Due = {}
      BY DEF Tick
<1> QED BY <1>1, <1>2, WireOfAPass

\* What is about stays countable back from the last message of its vehicle,
\* one further back or one tick older, and its vehicle is not forgotten.
LEMMA DistanceGrows ==
    ASSUME NEW v \in Vehicles, TypeOK, Tick,
           NEW n \in Nat, NEW q \in Numbers, NEW a \in Int,
           n <= sent[v], Carries(v, n, q), Behind(v, n) + obu[v].idle <= a,
           a < MaxDelay + DedupeTTL
    PROVE  /\ n <= sent'[v] /\ Carries(v, n, q)' /\ Behind(v, n)' + obu'[v].idle <= a + 1
           /\ ~Forgets(v)
<1>1. /\ obu[v] \in UnitState /\ obu'[v] \in UnitState
      /\ sent[v] \in Nat /\ sent'[v] \in Nat
      /\ (\E m \in Messages : Says(v, m)) \/ Forgets(v) \/ KeepsSilent(v)
      BY TickOfAVehicle
<1>2. /\ obu[v].seq \in Numbers /\ obu[v].idle \in Nat
      /\ obu'[v].seq \in Numbers /\ obu'[v].idle \in Nat
      BY <1>1 DEF UnitState
<1>3. ~Forgets(v)
      BY <1>1, <1>2, ConstantsTyped DEF Forgets, Behind
<1>4. ASSUME NEW m \in Messages, Says(v, m)
      PROVE  n <= sent'[v] /\ Carries(v, n, q)' /\ Behind(v, n)' + obu'[v].idle <= a + 1
  <2>1. /\ sent'[v] = sent[v] + 1 /\ obu'[v].idle = 0
        /\ obu'[v].seq = (IF obu[v].seq = SequenceModulus - 1 THEN 0 ELSE obu[v].seq + 1)
        BY <1>4 DEF Says
  <2> QED BY <1>1, <1>2, <2>1, ConstantsTyped DEF Carries, Behind, Numbers
<1>5. ASSUME KeepsSilent(v)
      PROVE  n <= sent'[v] /\ Carries(v, n, q)' /\ Behind(v, n)' + obu'[v].idle <= a + 1
  <2>1. /\ sent'[v] = sent[v] /\ obu'[v].seq = obu[v].seq
        /\ obu'[v].idle <= obu[v].idle + 1
        BY <1>2, <1>5, ConstantsTyped DEF KeepsSilent, Lesser
  <2> QED BY <1>1, <1>2, <2>1, ConstantsTyped DEF Carries, Behind, Numbers
<1> QED BY <1>1, <1>3, <1>4, <1>5

\* The elements of the wire, one by one.
LEMMA OnTheWire ==
    ASSUME TypeOK
    PROVE  \A i \in DOMAIN wire : wire[i].m \in Messages /\ wire[i].wait \in Nat
<1>1. \A i \in DOMAIN wire : wire[i] \in Parcels
      BY DEF TypeOK
<1> QED BY <1>1 DEF Parcels

LEMMA FieldsOfAMessage ==
    ASSUME NEW m \in Messages
    PROVE  /\ m.vehicle \in Vehicles /\ m.n \in Nat /\ m.id \in Ids /\ m.seq \in Numbers
           /\ m.kind \in Kinds /\ m.age \in Nat
           /\ Aged(m) \in Messages
           /\ Aged(m).vehicle = m.vehicle /\ Aged(m).n = m.n /\ Aged(m).id = m.id
           /\ Aged(m).seq = m.seq /\ Aged(m).kind = m.kind /\ Aged(m).age # 0
BY ConstantsTyped DEF Messages, Aged, Lesser

\* A message that was in transit, one tick later.
LEMMA PlacedAfterTick ==
    ASSUME IInv, Tick, NEW m \in Messages, NEW wait \in Nat, wait > 0, Placed(m, wait)
    PROVE  /\ ~Forgets(m.vehicle)
           /\ m.n <= sent'[m.vehicle]
           /\ Behind(m.vehicle, m.n)' + obu'[m.vehicle].idle + (wait - 1) <= MaxDelay
           /\ Carries(m.vehicle, m.n, m.seq)'
           /\ ~IsCancellation(m) /\ m.n = sent'[m.vehicle] => obu'[m.vehicle].id = m.id
<1> DEFINE v == m.vehicle
<1>1. v \in Vehicles /\ m.n \in Nat /\ m.seq \in Numbers
      BY FieldsOfAMessage
<1>2. m.n <= sent[v] /\ Carries(v, m.n, m.seq) /\ Behind(v, m.n) + obu[v].idle <= MaxDelay - wait
      /\ (~IsCancellation(m) /\ m.n = sent[v] => obu[v].id = m.id)
  <2>1. obu[v].idle \in Nat /\ sent[v] \in Nat
        BY <1>1 DEF IInv, TypeOK
  <2> QED BY <1>1, <2>1, ConstantsTyped DEF Placed, Behind
<1>3. MaxDelay - wait \in Int /\ MaxDelay - wait < MaxDelay + DedupeTTL
      BY ConstantsTyped
<1>4. TypeOK
      BY DEF IInv
<1> HIDE DEF v
<1>5. /\ ~Forgets(v) /\ m.n <= sent'[v] /\ Carries(v, m.n, m.seq)'
      /\ Behind(v, m.n)' + obu'[v].idle <= (MaxDelay - wait) + 1
  <2> DEFINE a == MaxDelay - wait
  <2>1. a \in Int /\ a < MaxDelay + DedupeTTL /\ Behind(v, m.n) + obu[v].idle <= a
        BY <1>2, <1>3
  <2> HIDE DEF a
  <2>2. /\ ~Forgets(v) /\ m.n <= sent'[v] /\ Carries(v, m.n, m.seq)'
        /\ Behind(v, m.n)' + obu'[v].idle <= a + 1
        BY <1>1, <1>2, <1>4, <2>1, DistanceGrows
  <2> QED BY <2>2 DEF a
<1>6. /\ sent[v] \in Nat /\ sent'[v] \in Nat /\ obu'[v].idle \in Nat
      /\ (\E o \in Messages : Says(v, o)) \/ KeepsSilent(v)
      BY <1>1, <1>4, <1>5, TickOfAVehicle DEF UnitState
<1>7. ~IsCancellation(m) /\ m.n = sent'[v] => obu'[v].id = m.id
  <2>1. CASE \E o \in Messages : Says(v, o)
    <3>1. sent'[v] = sent[v] + 1
          BY <2>1 DEF Says
    <3> QED BY <1>1, <1>2, <1>6, <3>1
  <2>2. CASE KeepsSilent(v)
        BY <1>2, <2>2 DEF KeepsSilent
  <2> QED BY <1>6, <2>1, <2>2
<1>8. Behind(v, m.n)' + obu'[v].idle + (wait - 1) <= MaxDelay
      BY <1>1, <1>5, <1>6, ConstantsTyped DEF Behind
<1> QED BY <1>5, <1>7, <1>8 DEF v

\* A cancellation in transit, one tick later: its identifier is still not in
\* use, for the vehicle has not sent enough to come round to it.
LEMMA ClosedAfterTick ==
    ASSUME IInv, Tick, NEW c \in Messages, NEW wait \in Nat, wait > 0,
           Placed(c, wait), IsCancellation(c), ClosesItsRequest(c)
    PROVE  /\ obu'[c.vehicle].id # c.id
           /\ Behind(c.vehicle, c.n)' >=
                 2 * (Begun(c.id, c.vehicle)' - 1) - (IF obu'[c.vehicle].id = 0 THEN 0 ELSE 1)
           /\ \A m \in Messages : Says(c.vehicle, m) => m.id # c.id
<1> DEFINE v == c.vehicle
<1>1. v \in Vehicles /\ c.n \in Nat /\ c.id \in Ids
      BY FieldsOfAMessage
<1>2. TypeOK /\ UnitOrderly
      BY DEF IInv
<1>3. /\ obu[v] \in UnitState /\ obu'[v] \in UnitState
      /\ sent[v] \in Nat /\ sent'[v] \in Nat
      /\ (\E m \in Messages : Says(v, m)) \/ KeepsSilent(v)
      BY <1>1, <1>2, PlacedAfterTick, TickOfAVehicle
<1>4. /\ obu[v].id # c.id
      /\ Behind(v, c.n) >= 2 * (Begun(c.id, v) - 1) - (IF obu[v].id = 0 THEN 0 ELSE 1)
      BY DEF ClosesItsRequest
<1>5. Behind(v, c.n)' + obu'[v].idle + (wait - 1) <= MaxDelay
      BY PlacedAfterTick
<1> HIDE DEF v
<1>6. /\ obu[v].id \in 0 .. MaxRequestId /\ obu[v].nextId \in Ids
      /\ obu'[v].id \in 0 .. MaxRequestId /\ obu'[v].nextId \in Ids /\ obu'[v].idle \in Nat
      BY <1>3 DEF UnitState
<1>7. obu[v].id # 0 => obu[v].nextId = Succ(obu[v].id)
      BY <1>1, <1>2 DEF UnitOrderly, Succ
<1>8. ASSUME NEW m \in Messages, Says(v, m)
      PROVE  /\ obu'[v].id # c.id /\ m.id # c.id
             /\ Behind(v, c.n)' >= 2 * (Begun(c.id, v)' - 1) - (IF obu'[v].id = 0 THEN 0 ELSE 1)
  <2>1. sent'[v] = sent[v] + 1
        BY <1>8 DEF Says
  <2>2. CASE obu[v].id # 0 /\ m.id = obu[v].id /\ obu'[v].id \in {0, m.id}
             /\ obu'[v].nextId = obu[v].nextId
    <3>1. obu'[v].id # c.id /\ m.id # c.id
          BY <1>1, <1>4, <2>2 DEF Ids
    <3>2. Begun(c.id, v)' = Begun(c.id, v)
          BY <2>2 DEF Begun
    <3>3. Begun(c.id, v) \in Int
          BY <1>1, <1>6, ConstantsTyped DEF Begun, Ids
    <3> QED BY <1>1, <1>3, <1>4, <2>1, <2>2, <3>1, <3>2, <3>3 DEF Behind
  <2>3. CASE obu[v].id = 0 /\ m.id = obu[v].nextId /\ obu'[v].id = m.id
             /\ obu'[v].nextId = Succ(m.id)
    <3>1. Behind(v, c.n) >= 2 * (Begun(c.id, v) - 1)
          BY <1>1, <1>3, <1>4, <1>6, <2>3, ConstantsTyped DEF Begun, Ids, Behind
    <3>2. Behind(v, c.n) + 1 <= MaxDelay
          BY <1>1, <1>3, <1>5, <1>6, <2>1, ConstantsTyped DEF Behind
    <3>3. m.id # c.id
          BY <1>1, <1>3, <1>6, <2>3, <3>1, <3>2, ConstantsTyped DEF Begun, Ids, Behind
    <3>4. Begun(c.id, v)' = Begun(c.id, v) + 1
      <4>1. obu'[v].nextId = IF obu[v].nextId = MaxRequestId THEN 1 ELSE obu[v].nextId + 1
            BY <2>3 DEF Succ
      <4>2. obu[v].nextId # c.id
            BY <2>3, <3>3
      <4>3. /\ obu[v].nextId \in Int /\ 1 <= obu[v].nextId /\ obu[v].nextId <= MaxRequestId
            /\ c.id \in Int /\ 1 <= c.id /\ c.id <= MaxRequestId
            BY <1>1, <1>6, ConstantsTyped DEF Ids
      <4> QED BY <4>1, <4>2, <4>3, ConstantsTyped DEF Begun
    <3>5. Begun(c.id, v) \in Int
          BY <1>1, <1>6, ConstantsTyped DEF Begun, Ids
    <3>6. obu'[v].id # 0
          BY <1>6, <2>3 DEF Ids
    <3> QED BY <1>1, <1>3, <2>1, <2>3, <3>1, <3>3, <3>4, <3>5, <3>6 DEF Behind
  <2> QED BY <1>8, <2>2, <2>3 DEF Says
<1>9. ASSUME KeepsSilent(v)
      PROVE  /\ obu'[v].id # c.id /\ \A m \in Messages : ~Says(v, m)
             /\ Behind(v, c.n)' >= 2 * (Begun(c.id, v)' - 1) - (IF obu'[v].id = 0 THEN 0 ELSE 1)
  <2>1. sent'[v] = sent[v] /\ obu'[v].id = obu[v].id /\ obu'[v].nextId = obu[v].nextId
        BY <1>9 DEF KeepsSilent
  <2>2. \A m \in Messages : ~Says(v, m)
        BY <1>3, <2>1 DEF Says
  <2> QED BY <1>4, <2>1, <2>2 DEF Behind, Begun
<1>10. \A m \in Messages : Says(v, m) => m.id # c.id
       BY <1>8
<1> QED BY <1>3, <1>8, <1>9, <1>10 DEF v

\* A message that is said in this pass is in its place.
LEMMA SaidIsPlaced ==
    ASSUME IInv, Tick, NEW v \in Vehicles, NEW m \in Messages, Says(v, m),
           NEW wait \in Nat, wait <= MaxDelay
    PROVE  /\ m.vehicle = v /\ m.n = sent'[v] /\ m.n > sent[v]
           /\ Placed(m, wait)'
           /\ IsCancellation(m) =>
                 /\ obu'[v].id # m.id
                 /\ Begun(m.id, v)' = 1
<1>1. /\ obu[v] \in UnitState /\ obu'[v] \in UnitState
      /\ sent[v] \in Nat /\ sent'[v] \in Nat
      BY TickOfAVehicle DEF IInv
<1>2. /\ obu[v].id \in 0 .. MaxRequestId /\ obu[v].nextId \in Ids
      /\ obu'[v].seq \in Numbers /\ m.id \in Ids
      BY <1>1, FieldsOfAMessage DEF UnitState
<1>3. /\ m.vehicle = v /\ sent'[v] = sent[v] + 1 /\ m.n = sent[v] + 1
      /\ obu'[v].idle = 0 /\ m.seq = obu'[v].seq
      BY DEF Says
<1>4. ~IsCancellation(m) => obu'[v].id = m.id
      BY DEF Says
<1>5. Placed(m, wait)'
  <2>1. Behind(v, m.n)' = 0
        BY <1>1, <1>3 DEF Behind
  <2>2. Carries(v, m.n, m.seq)'
        BY <1>1, <1>2, <1>3, <2>1 DEF Carries, Numbers
  <2> QED BY <1>1, <1>3, <1>4, <2>1, <2>2, ConstantsTyped DEF Placed
<1>6. ASSUME IsCancellation(m)
      PROVE  obu'[v].id # m.id /\ Begun(m.id, v)' = 1
  <2>1. obu[v].id # 0 /\ m.id = obu[v].id /\ obu'[v].id = 0 /\ obu'[v].nextId = obu[v].nextId
        BY <1>6 DEF Says
  <2>2. obu[v].nextId = Succ(obu[v].id)
        BY <2>1 DEF IInv, UnitOrderly, Succ
  <2> QED BY <1>2, <2>1, <2>2, ConstantsTyped DEF Begun, Succ, Ids
<1> QED BY <1>1, <1>3, <1>5, <1>6

LEMMA PastUntouchedByTick ==
    ASSUME Tick
    PROVE  past' = past /\ answers = {} /\ answers' = {} /\ batch' = {} /\ rsu' = Prune(rsu)
BY DEF Tick

\* Every parcel on the wire after the start of a pass is in its place.
LEMMA TickKeepsPlaces ==
    ASSUME IInv, Tick, NEW j \in DOMAIN wire'
    PROVE  /\ Placed(wire[j].m, wire[j].wait)'
           /\ \/ /\ wire'[j].m.n <= sent[wire'[j].m.vehicle]
                 /\ ~Forgets(wire'[j].m.vehicle)
                 /\ \E i \in DOMAIN wire :
                       /\ wire[i].wait > 0
                       /\ wire'[j].m = Aged(wire[i].m) /\ wire'[j].wait = wire[i].wait - 1
              \/ Says(wire'[j].m.vehicle, wire'[j].m)
<1>1. TypeOK /\ WirePlaced
      BY DEF IInv
<1>2. wire' \in Seq(Parcels)
      BY <1>1, TickOfTheWire
<1>3. wire'[j] \in Parcels
      BY <1>2
<1>4. wire'[j].m \in Messages /\ wire'[j].wait \in Nat
      BY <1>3 DEF Parcels
<1>5. \/ \E i \in DOMAIN wire :
            /\ wire[i].wait > 0
            /\ wire'[j].m = Aged(wire[i].m) /\ wire'[j].wait = wire[i].wait - 1
      \/ wire'[j].wait <= MaxDelay /\ \E v \in Vehicles : Says(v, wire'[j].m)
      BY <1>1, TickOfTheWire
<1>6. ASSUME NEW i \in DOMAIN wire, wire[i].wait > 0,
             wire'[j].m = Aged(wire[i].m), wire'[j].wait = wire[i].wait - 1
      PROVE  /\ Placed(wire[j].m, wire[j].wait)'
             /\ wire'[j].m.n <= sent[wire'[j].m.vehicle] /\ ~Forgets(wire'[j].m.vehicle)
  <2>1. PICK m \in Messages, w \in Nat :
           w > 0 /\ Placed(m, w) /\ wire'[j].m = Aged(m) /\ wire'[j].wait = w - 1
        BY <1>1, <1>6, OnTheWire DEF WirePlaced
  <2>3. /\ Aged(m).vehicle = m.vehicle /\ Aged(m).n = m.n /\ Aged(m).id = m.id
        /\ Aged(m).seq = m.seq /\ Aged(m).kind = m.kind /\ Aged(m).age # 0
        BY <2>1, FieldsOfAMessage
  <2>4. /\ ~Forgets(m.vehicle)
        /\ m.n <= sent'[m.vehicle]
        /\ Behind(m.vehicle, m.n)' + obu'[m.vehicle].idle + (w - 1) <= MaxDelay
        /\ Carries(m.vehicle, m.n, m.seq)'
        /\ ~IsCancellation(m) /\ m.n = sent'[m.vehicle] => obu'[m.vehicle].id = m.id
        BY <2>1, PlacedAfterTick
  <2>5. m.n <= sent[m.vehicle]
        BY <2>1 DEF Placed
  <2> QED BY <2>1, <2>3, <2>4, <2>5 DEF Placed, IsCancellation, Carries, Behind
<1>7. ASSUME NEW v \in Vehicles, wire'[j].wait <= MaxDelay, Says(v, wire'[j].m)
      PROVE  Placed(wire[j].m, wire[j].wait)' /\ Says(wire'[j].m.vehicle, wire'[j].m)
  <2>1. wire'[j].m.vehicle = v
        BY <1>7 DEF Says
  <2>2. PICK m \in Messages, w \in Nat : m = wire'[j].m /\ w = wire'[j].wait
        BY <1>4
  <2>3. Placed(m, w)'
        BY <1>7, <2>2, SaidIsPlaced
  <2> QED BY <1>7, <2>1, <2>2, <2>3 DEF Placed, Carries, Behind
<1> QED BY <1>5, <1>6, <1>7

LEMMA TickKeepsWire ==
    ASSUME IInv, Tick
    PROVE  WirePlaced'
<1>1. TypeOK /\ WirePlaced /\ PastOrderly
      BY DEF IInv
<1>2. \A j \in DOMAIN wire' : wire'[j].m \in Messages /\ wire'[j].wait \in Nat
  <2>1. wire' \in Seq(Parcels)
        BY <1>1, TickOfTheWire
  <2>2. \A j \in DOMAIN wire' : wire'[j] \in Parcels
        BY <2>1
  <2> QED BY <2>2 DEF Parcels
<1>3. \A j \in DOMAIN wire' : wire'[j].m.n <= sent'[wire'[j].m.vehicle]
      BY TickKeepsPlaces DEF Placed
<1>4. ASSUME NEW j \in DOMAIN wire', IsCancellation(wire'[j].m)
      PROVE  ClosesItsRequest(wire[j].m)'
  <2>1. PICK c \in Messages : c = wire'[j].m
        BY <1>2
  <2>2. c.vehicle \in Vehicles /\ c.n \in Nat /\ c.id \in Ids
        BY FieldsOfAMessage
  <2>3. CASE /\ c.n <= sent[c.vehicle] /\ ~Forgets(c.vehicle)
             /\ \E i \in DOMAIN wire : wire[i].wait > 0 /\ c = Aged(wire[i].m)
    <3>1. PICK i \in DOMAIN wire : wire[i].wait > 0 /\ c = Aged(wire[i].m)
          BY <2>3
    <3>2. PICK o \in Messages, w \in Nat :
             /\ w > 0 /\ c = Aged(o) /\ o = wire[i].m
             /\ Placed(o, w) /\ (IsCancellation(o) => ClosesItsRequest(o))
          BY <1>1, <3>1, OnTheWire DEF WirePlaced
    <3>3. /\ c.vehicle = o.vehicle /\ c.n = o.n /\ c.id = o.id /\ c.kind = o.kind
          BY <3>2, FieldsOfAMessage
    <3>4. IsCancellation(o)
          BY <1>4, <2>1, <3>3 DEF IsCancellation
    <3>5. /\ obu'[o.vehicle].id # o.id
          /\ Behind(o.vehicle, o.n)' >=
                2 * (Begun(o.id, o.vehicle)' - 1) - (IF obu'[o.vehicle].id = 0 THEN 0 ELSE 1)
          /\ \A m \in Messages : Says(o.vehicle, m) => m.id # o.id
          BY <3>2, <3>4, ClosedAfterTick
    <3>6. past'[o.vehicle][o.id].received <= o.n
          BY <3>2, <3>4, PastUntouchedByTick DEF ClosesItsRequest, Received
    <3>7. ASSUME NEW k \in DOMAIN wire', wire'[k].m.vehicle = o.vehicle, wire'[k].m.id = o.id
          PROVE  wire'[k].m.n <= o.n
      <4>1. ~Says(o.vehicle, wire'[k].m)
            BY <1>2, <3>5, <3>7
      <4>2. PICK l \in DOMAIN wire : wire'[k].m = Aged(wire[l].m)
            BY <3>7, <4>1, TickKeepsPlaces
      <4>3. wire[l].m.vehicle = o.vehicle /\ wire[l].m.id = o.id /\ wire'[k].m.n = wire[l].m.n
        <5>1. wire[l].m \in Messages
              BY <1>1, OnTheWire
        <5> QED BY <3>7, <4>2, <5>1, FieldsOfAMessage
      <4> QED BY <3>2, <3>4, <4>3 DEF ClosesItsRequest
    <3> QED BY <2>1, <3>3, <3>5, <3>6, <3>7 DEF ClosesItsRequest, Behind, Begun, Received
  <2>4. CASE Says(c.vehicle, c)
    <3> DEFINE v == c.vehicle
    <3>1. /\ c.n = sent'[v] /\ c.n > sent[v]
          /\ obu'[v].id # c.id /\ Begun(c.id, v)' = 1
          BY <1>4, <2>1, <2>2, <2>4, SaidIsPlaced, ConstantsTyped
    <3>2. sent[v] \in Nat /\ sent'[v] \in Nat
          BY <1>1, <2>2, TickOfAVehicle
    <3>3. Behind(v, c.n)' >= 2 * (Begun(c.id, v)' - 1) - (IF obu'[v].id = 0 THEN 0 ELSE 1)
          BY <3>1, <3>2 DEF Behind
    <3>4. past'[v][c.id].received <= c.n
      <4>1. past[v][c.id].received <= sent[v] /\ past[v][c.id].received \in Nat
            BY <1>1, <2>2 DEF PastOrderly, TypeOK
      <4> QED BY <2>2, <3>1, <3>2, <4>1, PastUntouchedByTick
    <3>5. \A k \in DOMAIN wire' : wire'[k].m.vehicle = v => wire'[k].m.n <= c.n
          BY <1>3, <3>1
    <3> QED BY <2>1, <3>1, <3>3, <3>4, <3>5 DEF ClosesItsRequest, Behind, Begun, Received
  <2> QED BY <2>1, <2>3, <2>4, TickKeepsPlaces
<1>5. \A j \in DOMAIN wire' : Placed(wire[j].m, wire[j].wait)'
      BY TickKeepsPlaces
<1> QED BY <1>4, <1>5 DEF WirePlaced, IsCancellation

\* f is what pruning leaves of the entry e of a cache.
Survives(e, f) ==
    /\ e.vehicle = f.vehicle /\ e.id = f.id /\ e.seq = f.seq
    /\ f.age = e.age + 1 /\ f.age <= DedupeTTL /\ f \in Entries

\* Pruning keeps of a cache the entries that have not outlived it.
LEMMA PrunedCaches ==
    ASSUME TypeOK
    PROVE  /\ \A f \in Prune(rsu).processed : \E e \in rsu.processed : Survives(e, f)
           /\ \A f \in Prune(rsu).last : \E e \in rsu.last : Survives(e, f)
           /\ \A e \in rsu.last : e.age + 1 <= DedupeTTL =>
                 \E f \in Prune(rsu).last : Survives(e, f)
<1>1. rsu.processed \subseteq Entries /\ rsu.last \subseteq Entries
      BY DEF TypeOK
<1>2. ASSUME NEW e \in Entries
      PROVE  /\ [e EXCEPT !.age = @ + 1].age = e.age + 1
             /\ [e EXCEPT !.age = @ + 1].age <= DedupeTTL => Survives(e, [e EXCEPT !.age = @ + 1])
  <2>1. [e EXCEPT !.age = @ + 1] = [vehicle |-> e.vehicle, id |-> e.id, seq |-> e.seq,
                                    age |-> e.age + 1]
        BY DEF Entries
  <2>2. [e EXCEPT !.age = @ + 1] \in Entries
        BY <2>1 DEF Entries
  <2> QED BY <2>1, <2>2 DEF Survives
<1>3. /\ Prune(rsu).processed = {f \in Older(rsu.processed) : f.age <= DedupeTTL}
      /\ Prune(rsu).last = {f \in Older(rsu.last) : f.age <= DedupeTTL}
      BY DEF Prune
<1>4. ASSUME NEW S \in SUBSET Entries, NEW f \in Older(S), f.age <= DedupeTTL
      PROVE  \E e \in S : Survives(e, f)
      BY <1>2, <1>4 DEF Older
<1>5. ASSUME NEW e \in rsu.last, e.age + 1 <= DedupeTTL
      PROVE  \E f \in Prune(rsu).last : Survives(e, f)
  <2>1. [e EXCEPT !.age = @ + 1] \in Older(rsu.last)
        BY DEF Older
  <2> QED BY <1>1, <1>2, <1>3, <1>5, <2>1
<1> QED BY <1>1, <1>3, <1>4, <1>5

LEMMA FieldsOfAnEntry ==
    ASSUME NEW e \in Entries
    PROVE  e.vehicle \in Vehicles /\ e.id \in Ids /\ e.seq \in Numbers /\ e.age \in Nat
BY DEF Entries

\* What an entry of the caches stands for, one tick later.
LEMMA RememberedAfterTick ==
    ASSUME IInv, Tick, NEW v \in Vehicles, NEW id \in Ids, NEW q \in Numbers, NEW n \in Nat,
           NEW age \in Nat, age < DedupeTTL,
           n <= past[v][id].received, Carries(v, n, q),
           Behind(v, n) + obu[v].idle <= MaxDelay + age
    PROVE  /\ n <= past'[v][id].received /\ Carries(v, n, q)'
           /\ Behind(v, n)' + obu'[v].idle <= MaxDelay + (age + 1)
<1>1. TypeOK /\ PastOrderly
      BY DEF IInv
<1>2. n <= sent[v]
  <2>1. past[v][id].received \in Nat /\ sent[v] \in Nat /\ past[v][id].received <= sent[v]
        BY <1>1 DEF TypeOK, PastOrderly
  <2> QED BY <2>1
<1> DEFINE a == MaxDelay + age
<1>3. a \in Int /\ a < MaxDelay + DedupeTTL /\ Behind(v, n) + obu[v].idle <= a
      BY ConstantsTyped
<1>4. a + 1 = MaxDelay + (age + 1)
      BY ConstantsTyped
<1> HIDE DEF a
<1>5. Carries(v, n, q)' /\ Behind(v, n)' + obu'[v].idle <= a + 1
      BY <1>1, <1>2, <1>3, DistanceGrows
<1> QED BY <1>4, <1>5, PastUntouchedByTick

LEMMA TickKeepsCaches ==
    ASSUME IInv, Tick
    PROVE  CachesSound'
<1>1. TypeOK /\ CachesSound
      BY DEF IInv
<1>2. batch' = {} /\ rsu' = Prune(rsu) /\ past' = past
      BY PastUntouchedByTick
<1>3. rsu.processed \subseteq Entries /\ rsu.last \subseteq Entries
      BY <1>1 DEF TypeOK
<1>4. ASSUME NEW f \in rsu'.processed
      PROVE  f.age <= DedupeTTL /\ \E n \in Nat : Remembered(f, n, f.age)'
  <2>1. PICK e \in rsu.processed :
           /\ e.vehicle = f.vehicle /\ e.id = f.id /\ e.seq = f.seq
           /\ f.age = e.age + 1 /\ f.age <= DedupeTTL
        BY <1>1, <1>2, <1>4, PrunedCaches DEF Survives
  <2>2. PICK n \in Nat : Remembered(e, n, e.age)
        BY <1>1 DEF CachesSound
  <2>3. e.vehicle \in Vehicles /\ e.id \in Ids /\ e.seq \in Numbers /\ e.age \in Nat
        BY <1>3, FieldsOfAnEntry
  <2>4. e.age < DedupeTTL
        BY <2>1, <2>3, ConstantsTyped
  <2>5. /\ n <= past'[e.vehicle][e.id].received /\ Carries(e.vehicle, n, e.seq)'
        /\ Behind(e.vehicle, n)' + obu'[e.vehicle].idle <= MaxDelay + (e.age + 1)
    <3>1. PICK v \in Vehicles, id \in Ids, q \in Numbers, age \in Nat :
             v = e.vehicle /\ id = e.id /\ q = e.seq /\ age = e.age
          BY <2>3
    <3>2. /\ age < DedupeTTL /\ n <= past[v][id].received /\ Carries(v, n, q)
          /\ Behind(v, n) + obu[v].idle <= MaxDelay + age
          BY <2>2, <2>4, <3>1 DEF Remembered
    <3> QED BY <3>1, <3>2, RememberedAfterTick
  <2> QED BY <2>1, <2>5 DEF Remembered, Carries, Behind
<1>5. ASSUME NEW f \in rsu'.last
      PROVE  f.age <= DedupeTTL /\ Remembered(f, past[f.vehicle][f.id].received, f.age)'
  <2>1. PICK e \in rsu.last :
           /\ e.vehicle = f.vehicle /\ e.id = f.id /\ e.seq = f.seq
           /\ f.age = e.age + 1 /\ f.age <= DedupeTTL
        BY <1>1, <1>2, <1>5, PrunedCaches DEF Survives
  <2>2. e.vehicle \in Vehicles /\ e.id \in Ids /\ e.seq \in Numbers /\ e.age \in Nat
        BY <1>3, FieldsOfAnEntry
  <2>3. PICK n \in Nat : n = past[e.vehicle][e.id].received
        BY <1>1, <2>2 DEF TypeOK
  <2>4. Remembered(e, n, e.age)
        BY <1>1, <2>3 DEF CachesSound
  <2>5. /\ n <= past'[e.vehicle][e.id].received /\ Carries(e.vehicle, n, e.seq)'
        /\ Behind(e.vehicle, n)' + obu'[e.vehicle].idle <= MaxDelay + (e.age + 1)
    <3>1. PICK v \in Vehicles, id \in Ids, q \in Numbers, age \in Nat :
             v = e.vehicle /\ id = e.id /\ q = e.seq /\ age = e.age
          BY <2>2
    <3>2. /\ age < DedupeTTL /\ n <= past[v][id].received /\ Carries(v, n, q)
          /\ Behind(v, n) + obu[v].idle <= MaxDelay + age
          BY <2>1, <2>2, <2>4, <3>1, ConstantsTyped DEF Remembered
    <3> QED BY <3>1, <3>2, RememberedAfterTick
  <2>6. past'[f.vehicle][f.id].received = n
        BY <1>2, <2>1, <2>3
  <2> QED BY <2>1, <2>5, <2>6 DEF Remembered, Carries, Behind
<1>6. ASSUME NEW f \in rsu'.last, NEW g \in rsu'.last, SameRequest(f, g)
      PROVE  f = g
  <2>1. PICK e \in rsu.last :
           /\ e.vehicle = f.vehicle /\ e.id = f.id /\ e.seq = f.seq /\ f.age = e.age + 1
           /\ f \in Entries
        BY <1>1, <1>2, PrunedCaches DEF Survives
  <2>2. PICK d \in rsu.last :
           /\ d.vehicle = g.vehicle /\ d.id = g.id /\ d.seq = g.seq /\ g.age = d.age + 1
           /\ g \in Entries
        BY <1>1, <1>2, PrunedCaches DEF Survives
  <2>3. e = d
        BY <1>1, <1>6, <2>1, <2>2 DEF CachesSound, SameRequest
  <2> QED BY <2>1, <2>2, <2>3 DEF Entries
<1> QED BY <1>2, <1>4, <1>5, <1>6 DEF CachesSound

LEMMA TickKeepsOvertakers ==
    ASSUME IInv, Tick
    PROVE  OvertakersRemembered'
<1>1. TypeOK /\ OvertakersRemembered /\ PastOrderly
      BY DEF IInv
<1>2. rsu' = Prune(rsu) /\ past' = past
      BY PastUntouchedByTick
<1> SUFFICES ASSUME NEW j \in DOMAIN wire',
                    wire'[j].m.n <= past'[wire'[j].m.vehicle][wire'[j].m.id].received
             PROVE  \E f \in rsu'.last :
                       SameRequest(f, wire'[j].m) /\ f.age + wire'[j].wait <= MaxDelay
    BY DEF OvertakersRemembered, Received, SameRequest
<1>3. wire'[j].m \in Messages
  <2>1. wire' \in Seq(Parcels)
        BY <1>1, TickOfTheWire
  <2>2. wire'[j] \in Parcels
        BY <2>1
  <2> QED BY <2>2 DEF Parcels
<1>4. CASE \E i \in DOMAIN wire :
             /\ wire[i].wait > 0
             /\ wire'[j].m = Aged(wire[i].m) /\ wire'[j].wait = wire[i].wait - 1
  <2>1. PICK i \in DOMAIN wire :
             /\ wire[i].wait > 0
             /\ wire'[j].m = Aged(wire[i].m) /\ wire'[j].wait = wire[i].wait - 1
        BY <1>4
  <2>2. wire[i].m \in Messages /\ wire[i].wait \in Nat
        BY <1>1, OnTheWire
  <2>3. /\ wire'[j].m.vehicle = wire[i].m.vehicle /\ wire'[j].m.id = wire[i].m.id
        /\ wire'[j].m.n = wire[i].m.n
        BY <2>1, <2>2, FieldsOfAMessage
  <2>4. PICK e \in rsu.last : SameRequest(e, wire[i].m) /\ e.age + wire[i].wait <= MaxDelay
        BY <1>1, <1>2, <2>3 DEF OvertakersRemembered, Received
  <2>5. e.age \in Nat
        BY <1>1, FieldsOfAnEntry DEF TypeOK
  <2>6. PICK f \in Prune(rsu).last : Survives(e, f)
        BY <1>1, <2>1, <2>2, <2>4, <2>5, PrunedCaches, ConstantsTyped
  <2> QED BY <1>2, <2>1, <2>2, <2>3, <2>4, <2>5, <2>6, ConstantsTyped DEF Survives, SameRequest
<1>5. CASE Says(wire'[j].m.vehicle, wire'[j].m)
  <2>1. PICK m \in Messages : m = wire'[j].m
        BY <1>3
  <2>2. m.vehicle \in Vehicles /\ m.id \in Ids /\ m.n \in Nat
        BY FieldsOfAMessage
  <2>3. m.n = sent[m.vehicle] + 1
        BY <1>5, <2>1 DEF Says
  <2>4. /\ past[m.vehicle][m.id].received \in Nat /\ sent[m.vehicle] \in Nat
        /\ past[m.vehicle][m.id].received <= sent[m.vehicle]
        BY <1>1, <2>2 DEF TypeOK, PastOrderly
  <2> QED BY <1>2, <2>1, <2>2, <2>3, <2>4
<1> QED BY <1>4, <1>5, TickKeepsPlaces

LEMMA TickKeepsPast ==
    ASSUME IInv, Tick
    PROVE  PastOrderly' /\ AnswersPlaced' /\ UnitOrderly'
<1>1. TypeOK /\ PastOrderly /\ UnitOrderly
      BY DEF IInv
<1>2. ASSUME NEW v \in Vehicles
      PROVE  sent'[v] \in Nat /\ sent[v] \in Nat /\ sent[v] <= sent'[v]
      BY <1>1, TickOfAVehicle DEF Says, Forgets, KeepsSilent
<1>3. PastOrderly'
  <2> SUFFICES ASSUME NEW v \in Vehicles, NEW id \in Ids
               PROVE  LET p == past'[v][id] IN
                      p.received <= sent'[v] /\ p.forwarded <= p.received
                      /\ p.cancelled <= p.received
      BY DEF PastOrderly
  <2>1. past[v][id].received \in Nat /\ past' = past
        BY <1>1, PastUntouchedByTick DEF TypeOK
  <2> QED BY <1>1, <1>2, <2>1 DEF PastOrderly
<1>4. AnswersPlaced'
      BY PastUntouchedByTick DEF AnswersPlaced
<1>5. ASSUME NEW v \in Vehicles, obu'[v].id # 0
      PROVE  obu'[v].nextId = IF obu'[v].id = MaxRequestId THEN 1 ELSE obu'[v].id + 1
  <2>1. CASE \E m \in Messages : Says(v, m)
        BY <1>1, <1>5, <2>1 DEF Says, UnitOrderly, Succ
  <2>2. CASE Forgets(v)
        BY <1>5, <2>2 DEF Forgets, Fresh
  <2>3. CASE KeepsSilent(v)
        BY <1>1, <1>5, <2>3 DEF KeepsSilent, UnitOrderly
  <2> QED BY <1>1, <2>1, <2>2, <2>3, TickOfAVehicle
<1> QED BY <1>3, <1>4, <1>5 DEF UnitOrderly

SlotType == [vehicle : Vehicles, id : Ids, left : Int]

\* Pruning the quota only releases slots.
LEMMA PrunedSlots ==
    ASSUME TypeOK, SlotsHeld
    PROVE  LET slots == Prune(rsu).slots IN
           /\ slots \subseteq SlotType
           /\ IsFiniteSet(slots) /\ Cardinality(slots) <= MaxActive
           /\ \A t \in slots : \E s \in rsu.slots :
                 t = [vehicle |-> s.vehicle, id |-> s.id, left |-> s.left - 1]
<1> DEFINE older == {[s EXCEPT !.left = @ - 1] : s \in rsu.slots}
           slots == Prune(rsu).slots
           f == [s \in rsu.slots |-> [s EXCEPT !.left = @ - 1]]
<1>1. slots = {s \in older : s.left > 0}
      BY DEF Prune
<1>2. rsu.slots \subseteq SlotType
      BY DEF TypeOK, SlotType
<1>3. \A s \in SlotType :
         [s EXCEPT !.left = @ - 1] = [vehicle |-> s.vehicle, id |-> s.id, left |-> s.left - 1]
      BY DEF SlotType
<1>4. \A s \in SlotType :
         [vehicle |-> s.vehicle, id |-> s.id, left |-> s.left - 1] \in SlotType
      BY DEF SlotType
<1>5. f \in Surjection(rsu.slots, older)
      BY DEF Surjection
<1>6. /\ IsFiniteSet(rsu.slots) /\ Cardinality(rsu.slots) <= MaxActive
      BY DEF SlotsHeld
<1> HIDE DEF f, older, slots
<1>7. IsFiniteSet(older) /\ Cardinality(older) <= Cardinality(rsu.slots)
      BY <1>5, <1>6, FS_Surjection
<1>8. IsFiniteSet(slots) /\ Cardinality(slots) <= Cardinality(older)
      BY <1>1, <1>7, FS_Subset
<1>9. /\ Cardinality(slots) \in Nat /\ Cardinality(older) \in Nat
      /\ Cardinality(rsu.slots) \in Nat
      BY <1>6, <1>7, <1>8, FS_CardinalityType
<1>10. \A t \in slots : \E s \in rsu.slots :
          t = [vehicle |-> s.vehicle, id |-> s.id, left |-> s.left - 1]
       BY <1>1, <1>2, <1>3 DEF older
<1>11. slots \subseteq SlotType
       BY <1>2, <1>4, <1>10
<1> QED BY <1>6, <1>7, <1>8, <1>9, <1>10, <1>11, ConstantsTyped DEF slots

LEMMA TickKeepsSlots ==
    ASSUME IInv, Tick
    PROVE  SlotsHeld'
<1>1. TypeOK /\ SlotsHeld
      BY DEF IInv
<1>2. rsu' = Prune(rsu) /\ past' = past
      BY PastUntouchedByTick
<1>3. /\ IsFiniteSet(rsu'.slots) /\ Cardinality(rsu'.slots) <= MaxActive
      /\ \A t \in rsu'.slots : \E s \in rsu.slots :
            t = [vehicle |-> s.vehicle, id |-> s.id, left |-> s.left - 1]
      BY <1>1, <1>2, PrunedSlots
<1>4. \A t \in rsu'.slots :
         past'[t.vehicle][t.id].forwarded > past'[t.vehicle][t.id].cancelled
      BY <1>1, <1>2, <1>3 DEF SlotsHeld
<1>5. \A t, u \in rsu'.slots : SameRequest(t, u) => t = u
  <2> SUFFICES ASSUME NEW t \in rsu'.slots, NEW u \in rsu'.slots, SameRequest(t, u)
               PROVE  t = u
      OBVIOUS
  <2>1. PICK s \in rsu.slots : t = [vehicle |-> s.vehicle, id |-> s.id, left |-> s.left - 1]
        BY <1>3
  <2>2. PICK r \in rsu.slots : u = [vehicle |-> r.vehicle, id |-> r.id, left |-> r.left - 1]
        BY <1>3
  <2>3. SameRequest(s, r)
        BY <2>1, <2>2 DEF SameRequest
  <2>4. s = r
        BY <1>1, <2>3 DEF SlotsHeld
  <2> QED BY <2>1, <2>2, <2>4
<1> QED BY <1>3, <1>4, <1>5 DEF SlotsHeld

\* What the store believes of a vehicle after the start of a pass.
LEMMA TickOfTheStore ==
    ASSUME IInv, Tick, NEW v \in Vehicles
    PROVE  /\ store'[v] \in Beliefs
           /\ IsOpen(store'[v]) =>
                 /\ store'[v].about \in Messages
                 /\ obu'[v].idle <= MaxDelay => store'[v].about.seq = obu'[v].seq
           /\ sent'[v] # sent[v] => IsOpen(store'[v])
<1>1. TypeOK /\ StoreFollowsUnit
      BY DEF IInv
<1>2. PICK place \in [Vehicles -> Places], asking \in SUBSET Vehicles : Pass(place, asking)
      BY DEF Tick
<1> DEFINE cancelling == {u \in Vehicles : MustCancel(u, place[u])}
           speaking == cancelling \cup asking
           message == [u \in speaking |-> IF u \in asking THEN Request(u) ELSE Cancellation(u)]
           m == IF v \in asking THEN Request(v) ELSE Cancellation(v)
           seen == UpdateFromObservation(OneTickLater(store[v]), place[v])
<1>3. store'[v] = ExpireIfNeeded(IF v \in speaking THEN Ingest(seen, message[v]) ELSE seen)
      BY <1>2 DEF Pass
<1>4. v \in speaking => message[v] = m
      OBVIOUS
<1>5. /\ v \in speaking => Says(v, m)
      /\ v \notin speaking => Forgets(v) \/ KeepsSilent(v)
  <2> HIDE DEF message, seen
  <2>1. /\ v \in cancelling \cup asking => Says(v, m)
        /\ v \notin cancelling \cup asking => Forgets(v) \/ KeepsSilent(v)
        BY <1>1, <1>2, PassOfAVehicle
  <2> QED BY <2>1
<1>6. store[v] \in Beliefs
      BY <1>1 DEF TypeOK
<1> DEFINE later == OneTickLater(store[v])
<1>7. /\ later \in Beliefs
      /\ IsOpen(later) => /\ IsOpen(store[v]) /\ later.about \in Messages
                          /\ later.about.seq = store[v].about.seq
  <2>1. CASE IsOpen(store[v])
    <3>1. store[v].about \in Messages
          BY <1>1, <2>1 DEF StoreFollowsUnit
    <3>2. later = [status |-> store[v].status, about |-> Aged(store[v].about),
                   unseen |-> Lesser(store[v].unseen + 1, StoreTTL + 1)]
          BY <1>6, <2>1 DEF OneTickLater, Beliefs
    <3>3. Lesser(store[v].unseen + 1, StoreTTL + 1) \in Nat
          BY <1>6, ConstantsTyped DEF Lesser, Beliefs
    <3>4. Aged(store[v].about) \in Messages /\ Aged(store[v].about).seq = store[v].about.seq
          BY <3>1, FieldsOfAMessage
    <3> QED BY <1>6, <2>1, <3>2, <3>3, <3>4 DEF Beliefs, IsOpen
  <2>2. CASE ~IsOpen(store[v])
        BY <1>6, <2>2 DEF OneTickLater
  <2> QED BY <2>1, <2>2
<1> HIDE DEF later
<1>8. \A s \in {"expired", "cleared"} : Closing(s) \in Beliefs /\ ~IsOpen(Closing(s))
      BY DEF Closing, Beliefs, IsOpen
<1>9. /\ seen \in Beliefs
      /\ IsOpen(seen) => IsOpen(later) /\ seen.about = later.about
  <2>1. seen = UpdateFromObservation(later, place[v])
        BY DEF later
  <2>2. ExpireIfNeeded(later) \in {later, Closing("expired")}
        BY DEF ExpireIfNeeded
  <2>3. CASE IsOpen(later)
    <3>1. [later EXCEPT !.unseen = 0] =
             [status |-> later.status, about |-> later.about, unseen |-> 0]
          BY <1>7 DEF Beliefs
    <3>2. [later EXCEPT !.unseen = 0] \in Beliefs
          BY <1>7, <3>1 DEF Beliefs
    <3>3. seen \in {later, Closing("expired"), Closing("cleared"), [later EXCEPT !.unseen = 0]}
          BY <2>1, <2>2, <2>3 DEF UpdateFromObservation
    <3> HIDE DEF seen
    <3> QED BY <1>7, <1>8, <2>3, <3>1, <3>2, <3>3
  <2>4. CASE ~IsOpen(later)
        BY <1>7, <2>1, <2>4 DEF UpdateFromObservation
  <2> QED BY <2>3, <2>4
<1> HIDE DEF seen, speaking, message, m
<1>10. CASE v \in speaking
  <2>1. Says(v, m) /\ m \in Messages /\ m.seq = obu'[v].seq
        BY <1>5, <1>10 DEF Says
  <2>2. /\ Ingest(seen, m) \in Beliefs /\ IsOpen(Ingest(seen, m))
        /\ Ingest(seen, m).about = m /\ Ingest(seen, m).unseen = 0
        BY <1>9, <2>1 DEF Ingest, Beliefs, IsOpen
  <2>3. store'[v] = ExpireIfNeeded(Ingest(seen, m))
        BY <1>3, <1>4, <1>10
  <2>4. m.age = 0
        BY <2>1 DEF Says
  <2> HIDE DEF Ingest
  <2>5. store'[v] = Ingest(seen, m)
        BY <2>2, <2>3, <2>4, ConstantsTyped DEF ExpireIfNeeded, PastItsTTL
  <2> QED BY <2>1, <2>2, <2>5
<1>11. CASE v \notin speaking
  <2>1. store'[v] = ExpireIfNeeded(seen)
        BY <1>3, <1>11
  <2>2. store'[v] \in {seen, Closing("expired")}
        BY <2>1 DEF ExpireIfNeeded
  <2>3. ASSUME IsOpen(store'[v])
        PROVE  /\ IsOpen(store[v]) /\ store'[v].about \in Messages
               /\ store'[v].about.seq = store[v].about.seq
        BY <1>7, <1>8, <1>9, <2>2, <2>3
  <2>4. ASSUME obu'[v].idle <= MaxDelay
        PROVE  obu[v].idle <= MaxDelay /\ obu'[v].seq = obu[v].seq
    <3>1. obu[v].idle \in Nat
          BY <1>1 DEF TypeOK
    <3>2. CASE Forgets(v)
          BY <2>4, <3>2, ConstantsTyped DEF Forgets, Fresh
    <3>3. CASE KeepsSilent(v)
          BY <2>4, <3>1, <3>3, ConstantsTyped DEF KeepsSilent, Lesser
    <3> QED BY <1>5, <1>11, <3>2, <3>3
  <2>5. sent'[v] = sent[v]
        BY <1>5, <1>11 DEF Forgets, KeepsSilent
  <2> QED BY <1>1, <1>8, <1>9, <2>2, <2>3, <2>4, <2>5 DEF StoreFollowsUnit
<1> QED BY <1>10, <1>11

LEMMA TickKeepsTypes ==
    ASSUME IInv, Tick
    PROVE  TypeOK'
<1>1. TypeOK /\ SlotsHeld
      BY DEF IInv
<1>2. PICK place \in [Vehicles -> Places], asking \in SUBSET Vehicles : Pass(place, asking)
      BY DEF Tick
<1>3. rsu' = Prune(rsu) /\ past' = past /\ answers' = {} /\ batch' = {}
      BY PastUntouchedByTick
<1>4. obu' \in [Vehicles -> UnitState]
  <2>1. obu' = [v \in Vehicles |-> obu'[v]]
        BY <1>2 DEF Pass
  <2>2. \A v \in Vehicles : obu'[v] \in UnitState
        BY <1>1, TickOfAVehicle
  <2> QED BY <2>1, <2>2
<1>5. sent' \in [Vehicles -> Nat]
  <2>1. sent' = [v \in Vehicles |-> sent'[v]]
        BY <1>2 DEF Pass
  <2>2. \A v \in Vehicles : sent'[v] \in Nat
        BY <1>1, TickOfAVehicle
  <2> QED BY <2>1, <2>2
<1>6. store' \in [Vehicles -> Beliefs]
  <2>1. store' = [v \in Vehicles |-> store'[v]]
        BY <1>2 DEF Pass
  <2>2. \A v \in Vehicles : store'[v] \in Beliefs
        BY TickOfTheStore
  <2> QED BY <2>1, <2>2
<1>7. wire' \in Seq(Parcels)
      BY <1>1, TickOfTheWire
<1>8. rsu' \in [processed : SUBSET Entries, last : SUBSET Entries,
                slots : SUBSET SlotType, rested : [Vehicles -> Nat]]
  <2>1. Prune(rsu).processed \subseteq Entries /\ Prune(rsu).last \subseteq Entries
        BY <1>1, PrunedCaches DEF Survives
  <2>2. Prune(rsu).slots \subseteq SlotType
        BY <1>1, PrunedSlots
  <2>3. Prune(rsu).rested \in [Vehicles -> Nat]
    <3>1. rsu.rested \in [Vehicles -> Nat]
          BY <1>1 DEF TypeOK
    <3>2. Prune(rsu).rested = [v \in Vehicles |->
             IF rsu.rested[v] < Cooldown THEN rsu.rested[v] + 1 ELSE Cooldown]
          BY DEF Prune
    <3> QED BY <3>1, <3>2, ConstantsTyped
  <2>4. Prune(rsu) = [processed |-> Prune(rsu).processed, last |-> Prune(rsu).last,
                      slots |-> Prune(rsu).slots, rested |-> Prune(rsu).rested]
        BY DEF Prune
  <2> HIDE DEF Prune
  <2> QED BY <1>3, <2>1, <2>2, <2>3, <2>4
<1> QED BY <1>1, <1>3, <1>4, <1>5, <1>6, <1>7, <1>8 DEF TypeOK, UnitState, SlotType

LEMMA TickKeepsInvariant ==
    ASSUME IInv, Tick
    PROVE  IInv'
<1>1. StoreFollowsUnit'
      BY TickOfTheStore DEF StoreFollowsUnit
<1>2. ASSUME NEW j \in DOMAIN wire', wire'[j].m.age = 0
      PROVE  IsOpen(store'[wire'[j].m.vehicle])
  <2>1. Says(wire'[j].m.vehicle, wire'[j].m)
    <3>1. \A i \in DOMAIN wire : Aged(wire[i].m).age # 0
          BY OnTheWire, FieldsOfAMessage DEF IInv
    <3> QED BY <1>2, <3>1, TickKeepsPlaces
  <2>2. PICK v \in Vehicles : v = wire'[j].m.vehicle
        BY <2>1, FieldsOfAMessage DEF Says
  <2>3. sent[v] \in Nat /\ sent'[v] = sent[v] + 1
        BY <2>1, <2>2 DEF Says, IInv, TypeOK
  <2>4. sent'[v] # sent[v]
        BY <2>3
  <2> QED BY <2>2, <2>4, TickOfTheStore
<1>3. FreshIsStored'
      BY <1>2, PastUntouchedByTick DEF FreshIsStored, IsOpen
<1> QED BY <1>1, <1>3, TickKeepsTypes, TickKeepsWire, TickKeepsCaches, TickKeepsOvertakers,
           TickKeepsPast, TickKeepsSlots DEF IInv
-----------------------------------------------------------------------------
(***************************************************************************)
(* The road-side unit handles the message that is due.                     *)
(***************************************************************************)

\* There is a first among the due.
LEMMA ArrivingIsDue ==
    ASSUME TypeOK, Due # {}
    PROVE  Arriving \in Due /\ Arriving \in DOMAIN wire
<1>1. Due \subseteq Nat
  <2>1. DOMAIN wire = 1 .. Len(wire) /\ Len(wire) \in Nat
        BY DEF TypeOK
  <2> QED BY <2>1 DEF Due
<1> DEFINE R == OpToRel(<, Nat)
<1>2. /\ IsWellFoundedOn(R, Nat)
      /\ \A x, y \in Nat : y < x => <<y, x>> \in R
      BY NatLessThanWellFounded, Zenon DEF OpToRel
<1> HIDE DEF R
<1>5. \E x \in Due : \A y \in Due : <<y, x>> \notin R
      BY <1>1, <1>2, WFMin
<1>3. \E x \in Due : \A y \in Due : x =< y
  <2>1. PICK x \in Due : \A y \in Due : <<y, x>> \notin R
        BY <1>5
  <2>2. ASSUME NEW y \in Due PROVE x =< y
    <3>1. x \in Nat /\ y \in Nat /\ ~(y < x)
          BY <1>1, <1>2, <2>1
    <3> QED BY <3>1
  <2> QED BY <2>2
<1>4. Arriving \in Due
      BY <1>3 DEF Arriving, Min
<1> QED BY <1>4 DEF Due

\* What is left when an element of a sequence is removed was there before.
LEMMA ElementsAfterRemoval ==
    ASSUME NEW S, NEW q \in Seq(S), NEW i \in DOMAIN q
    PROVE  /\ RemoveAt(q, i) \in Seq(S)
           /\ \A j \in DOMAIN RemoveAt(q, i) : \E k \in DOMAIN q : RemoveAt(q, i)[j] = q[k]
<1> DEFINE a == SubSeq(q, 1, i - 1)
           b == SubSeq(q, i + 1, Len(q))
<1>1. Len(q) \in Nat /\ DOMAIN q = 1 .. Len(q) /\ i \in 1 .. Len(q) /\ \A k \in 1 .. Len(q) : q[k] \in S
      BY ElementOfSeq
<1>2. /\ a \in Seq(S) /\ Len(a) = i - 1 /\ \A j \in 1 .. i - 1 : a[j] = q[j]
  <2>1. \A k \in 1 .. i - 1 : q[k] \in S
        BY <1>1
  <2> QED BY <1>1, <2>1, SubSeqProperties
<1>3. /\ b \in Seq(S) /\ Len(b) = Len(q) - i
      /\ \A j \in 1 .. Len(q) - i : b[j] = q[i + j]
  <2>1. \A k \in i + 1 .. Len(q) : q[k] \in S
        BY <1>1
  <2>2. b \in Seq(S) /\ Len(b) = (IF i + 1 <= Len(q) THEN Len(q) - (i + 1) + 1 ELSE 0)
        /\ \A j \in 1 .. Len(q) - (i + 1) + 1 : b[j] = q[(i + 1) + j - 1]
        BY <1>1, <2>1, SubSeqProperties
  <2>3. ASSUME NEW j \in 1 .. Len(q) - i PROVE b[j] = q[i + j]
    <3>1. j \in 1 .. Len(q) - (i + 1) + 1 /\ (i + 1) + j - 1 = i + j
          BY <1>1
    <3> QED BY <2>2, <3>1
  <2>4. Len(b) = Len(q) - i
        BY <1>1, <2>2
  <2> QED BY <2>2, <2>3, <2>4
<1>4. RemoveAt(q, i) = a \o b
      BY DEF RemoveAt
<1> HIDE DEF a, b
<1>5. /\ a \o b \in Seq(S) /\ Len(a \o b) = Len(a) + Len(b)
      /\ \A j \in 1 .. Len(a) + Len(b) :
            (a \o b)[j] = IF j <= Len(a) THEN a[j] ELSE b[j - Len(a)]
      BY <1>2, <1>3, ConcatProperties
<1>6. DOMAIN (a \o b) = 1 .. Len(a) + Len(b)
      BY <1>5
<1>7. ASSUME NEW j \in 1 .. Len(a) + Len(b)
      PROVE  \E k \in DOMAIN q : (a \o b)[j] = q[k]
  <2>1. CASE j <= Len(a)
    <3>1. j \in 1 .. i - 1 /\ j \in DOMAIN q
          BY <1>1, <1>2, <1>3, <2>1
    <3>2. (a \o b)[j] = q[j]
          BY <1>2, <1>5, <2>1, <3>1
    <3> QED BY <3>1, <3>2
  <2>2. CASE j > Len(a)
    <3>1. j - Len(a) \in 1 .. Len(q) - i
          BY <1>1, <1>2, <1>3, <2>2
    <3>2. (a \o b)[j] = b[j - Len(a)]
          BY <1>2, <1>3, <1>5, <2>2
    <3>3. b[j - Len(a)] = q[i + (j - Len(a))]
          BY <1>3, <3>1
    <3>4. i + (j - Len(a)) \in DOMAIN q
          BY <1>1, <1>2, <3>1
    <3> QED BY <3>2, <3>3, <3>4
  <2> QED BY <1>1, <1>2, <2>1, <2>2
<1> QED BY <1>4, <1>5, <1>6, <1>7

\* The message that is handled, and what stays on the wire.
LEMMA HandledMessage ==
    ASSUME IInv, Due # {}
    PROVE  /\ Upcoming \in Messages /\ Placed(Upcoming, 0)
           /\ IsCancellation(Upcoming) => ClosesItsRequest(Upcoming)
           /\ Upcoming.n <= Received(Upcoming) =>
                 \E e \in rsu.last : SameRequest(e, Upcoming) /\ e.age <= MaxDelay
           /\ \A i \in DOMAIN wire :
                 /\ wire[i].m.vehicle = Upcoming.vehicle /\ wire[i].m.id = Upcoming.id
                 /\ IsCancellation(wire[i].m)
                 => Upcoming.n <= wire[i].m.n
<1>1. TypeOK /\ WirePlaced /\ OvertakersRemembered
      BY DEF IInv
<1>2. Arriving \in Due /\ Arriving \in DOMAIN wire
      BY <1>1, ArrivingIsDue
<1>3. wire[Arriving].wait = 0 /\ Upcoming = wire[Arriving].m
      BY <1>2 DEF Due, Upcoming
<1>4. Upcoming \in Messages
      BY <1>1, <1>2, <1>3, OnTheWire
<1>5. Placed(Upcoming, 0) /\ (IsCancellation(Upcoming) => ClosesItsRequest(Upcoming))
      BY <1>1, <1>2, <1>3 DEF WirePlaced
<1>6. ASSUME Upcoming.n <= Received(Upcoming)
      PROVE  \E e \in rsu.last : SameRequest(e, Upcoming) /\ e.age <= MaxDelay
  <2>1. PICK e \in rsu.last : SameRequest(e, Upcoming) /\ e.age + 0 <= MaxDelay
        BY <1>1, <1>2, <1>3, <1>6 DEF OvertakersRemembered
  <2>2. e.age \in Nat
        BY <1>1, FieldsOfAnEntry DEF TypeOK
  <2> QED BY <2>1, <2>2
<1>7. ASSUME NEW i \in DOMAIN wire,
             wire[i].m.vehicle = Upcoming.vehicle, wire[i].m.id = Upcoming.id,
             IsCancellation(wire[i].m)
      PROVE  Upcoming.n <= wire[i].m.n
  <2>1. ClosesItsRequest(wire[i].m)
        BY <1>1, <1>7 DEF WirePlaced
  <2> QED BY <1>2, <1>3, <1>7, <2>1 DEF ClosesItsRequest
<1> QED BY <1>4, <1>5, <1>6, <1>7

\* Two numbers of a vehicle's messages, not far back, are in the order of the
\* sequence numbers they carry.
LEMMA OrderOfNumbers ==
    ASSUME TypeOK, NEW v \in Vehicles, NEW x \in Numbers, NEW y \in Numbers,
           NEW i \in Nat, NEW j \in Nat, i <= sent[v], j <= sent[v],
           Behind(v, i) <= MaxDelay + DedupeTTL, Behind(v, j) <= MaxDelay + DedupeTTL,
           Carries(v, i, x), Carries(v, j, y)
    PROVE  /\ NotNewer(x, y) <=> i <= j
           /\ x = y => i = j
<1>1. sent[v] \in Nat /\ obu[v].seq \in Numbers
      BY DEF TypeOK
<1>2. /\ i - j \in Int
      /\ 2 * (i - j) < SequenceModulus /\ -SequenceModulus < 2 * (i - j)
      BY <1>1, ConstantsTyped DEF Behind
<1>3. \/ x = y + (i - j)
      \/ x = y + (i - j) - SequenceModulus
      \/ x = y + (i - j) + SequenceModulus
      BY <1>1, ConstantsTyped DEF Carries, Behind, Numbers
<1> DEFINE d == i - j
<1>4. NotNewer(x, y) <=> d <= 0
  <2>1. d \in Int /\ 2 * d < SequenceModulus /\ -SequenceModulus < 2 * d
        BY <1>2
  <2>2. x = y + d \/ x = y + d - SequenceModulus \/ x = y + d + SequenceModulus
        BY <1>3
  <2> HIDE DEF d
  <2> QED BY <2>1, <2>2, NotNewerIsOrder
<1>5. x = y => i = j
      BY <1>1, <1>2, <1>3, ConstantsTyped DEF Numbers
<1> QED BY <1>4, <1>5

\* What an entry of the caches says of a message that is being handled.
LEMMA EntryAgainstMessage ==
    ASSUME IInv, NEW m \in Messages, Placed(m, 0),
           NEW q \in Numbers, NEW n \in Nat, NEW age \in Nat, age <= DedupeTTL,
           n <= Received(m), Carries(m.vehicle, n, q),
           Behind(m.vehicle, n) + obu[m.vehicle].idle <= MaxDelay + age
    PROVE  /\ NotNewer(m.seq, q) <=> m.n <= n
           /\ m.seq = q => m.n = n
<1> DEFINE v == m.vehicle
<1>1. TypeOK /\ PastOrderly
      BY DEF IInv
<1>2. v \in Vehicles /\ m.id \in Ids /\ m.n \in Nat /\ m.seq \in Numbers
      BY FieldsOfAMessage
<1>3. /\ sent[v] \in Nat /\ obu[v].idle \in Nat
      /\ past[v][m.id].received \in Nat /\ past[v][m.id].received <= sent[v]
      BY <1>1, <1>2 DEF TypeOK, PastOrderly
<1>4. /\ m.n <= sent[v] /\ Behind(v, m.n) <= MaxDelay + DedupeTTL /\ Carries(v, m.n, m.seq)
      BY <1>2, <1>3, ConstantsTyped DEF Placed, Behind
<1>5. n <= sent[v] /\ Behind(v, n) <= MaxDelay + DedupeTTL
      BY <1>3, ConstantsTyped DEF Received, Behind
<1> HIDE DEF v
<1>6. Carries(v, n, q)
      BY DEF v
<1> QED BY <1>1, <1>2, <1>4, <1>5, <1>6, OrderOfNumbers

\* What the answer of the road-side unit says about what it received before.
LEMMA MeaningOfTheAnswer ==
    ASSUME IInv, Due # {}
    PROVE  /\ Answer \in NotEvaluated =>
                 ~IsCancellation(Upcoming) /\ Received(Upcoming) >= Upcoming.n
           /\ Answer \notin NotEvaluated => Received(Upcoming) <= Upcoming.n
           /\ Answer = "processing" =>
                 /\ ~IsCancellation(Upcoming)
                 /\ Received(Upcoming) < Upcoming.n
                 /\ ~TooManyActive(rsu, Upcoming)
<1>1. TypeOK /\ CachesSound
      BY DEF IInv
<1>2. PICK m \in Messages : m = Upcoming
      BY HandledMessage
<1>3. /\ Placed(m, 0) /\ (IsCancellation(m) => ClosesItsRequest(m))
      /\ m.n <= Received(m) => \E e \in rsu.last : SameRequest(e, m) /\ e.age <= MaxDelay
      BY <1>2, HandledMessage
<1>4. m.vehicle \in Vehicles /\ m.id \in Ids /\ m.n \in Nat /\ m.seq \in Numbers
      BY FieldsOfAMessage
<1>5. Received(m) \in Nat
      BY <1>1, <1>4 DEF Received, TypeOK
<1>6. Key(m) \in batch => Received(m) >= m.n
  <2> SUFFICES ASSUME Key(m) \in batch PROVE Received(m) >= m.n
      OBVIOUS
  <2>1. PICK n \in Nat : Remembered(Key(m), n, 0)
        BY <1>1 DEF CachesSound
  <2>2. /\ n <= Received(m) /\ Carries(m.vehicle, n, m.seq)
        /\ Behind(m.vehicle, n) + obu[m.vehicle].idle <= MaxDelay + 0
        BY <2>1 DEF Remembered, Key, Received
  <2>3. PICK age \in Nat : age = 0
        OBVIOUS
  <2>4. age <= DedupeTTL /\ Behind(m.vehicle, n) + obu[m.vehicle].idle <= MaxDelay + age
        BY <2>2, <2>3, ConstantsTyped
  <2>5. m.n = n
        BY <1>3, <1>4, <2>2, <2>4, EntryAgainstMessage
  <2> QED BY <1>5, <2>2, <2>5
<1>7. Replayed(rsu, m) => Received(m) >= m.n
  <2> SUFFICES ASSUME NEW e \in rsu.processed, SameRequest(e, m), e.seq = m.seq
               PROVE  Received(m) >= m.n
      BY DEF Replayed
  <2>1. e.seq \in Numbers /\ e.age \in Nat
        BY <1>1, FieldsOfAnEntry DEF TypeOK
  <2>2. e.age <= DedupeTTL
        BY <1>1 DEF CachesSound
  <2>3. PICK n \in Nat : Remembered(e, n, e.age)
        BY <1>1 DEF CachesSound
  <2>4. /\ n <= Received(m) /\ Carries(m.vehicle, n, m.seq)
        /\ Behind(m.vehicle, n) + obu[m.vehicle].idle <= MaxDelay + e.age
        BY <2>3 DEF Remembered, SameRequest, Received
  <2>5. m.n = n
        BY <1>3, <1>4, <2>1, <2>2, <2>4, EntryAgainstMessage
  <2> QED BY <1>5, <2>4, <2>5
<1>8. ASSUME NEW e \in rsu.last, SameRequest(e, m)
      PROVE  NotNewer(m.seq, e.seq) <=> m.n <= Received(m)
  <2>1. e.seq \in Numbers /\ e.age \in Nat /\ e.age <= DedupeTTL
        BY <1>1, FieldsOfAnEntry DEF TypeOK, CachesSound
  <2>2. PICK n \in Nat : n = Received(m)
        BY <1>5
  <2>3. Remembered(e, n, e.age)
        BY <1>1, <1>8, <2>2 DEF CachesSound, SameRequest, Received
  <2>4. /\ n <= Received(m) /\ Carries(m.vehicle, n, e.seq)
        /\ Behind(m.vehicle, n) + obu[m.vehicle].idle <= MaxDelay + e.age
        BY <1>8, <2>3 DEF Remembered, SameRequest, Received
  <2>5. NotNewer(m.seq, e.seq) <=> m.n <= n
        BY <1>3, <1>4, <2>1, <2>4, EntryAgainstMessage
  <2> QED BY <2>2, <2>5
<1>9. OutOfOrder(rsu, m) <=> m.n <= Received(m)
      BY <1>3, <1>8 DEF OutOfOrder
<1>10. Answer = Verdict(rsu, batch, m)
       BY <1>2 DEF Answer
<1>11. CASE IsCancellation(m)
  <2>1. Received(m) <= m.n
        BY <1>3, <1>11 DEF ClosesItsRequest
  <2>2. Answer \in {"certificate_expired", "cancelled"}
        BY <1>10, <1>11 DEF Verdict
  <2> QED BY <1>2, <1>11, <2>1, <2>2 DEF NotEvaluated
<1>12. CASE ~IsCancellation(m)
  <2>1. Answer \in NotEvaluated => Key(m) \in batch \/ Replayed(rsu, m) \/ OutOfOrder(rsu, m)
        BY <1>10, <1>12 DEF Verdict, NotEvaluated
  <2>2. OutOfOrder(rsu, m) => Answer \in NotEvaluated
    <3>1. CASE Key(m) \in batch
          BY <1>10, <1>12, <3>1 DEF Verdict, NotEvaluated
    <3>2. CASE Key(m) \notin batch /\ Replayed(rsu, m)
          BY <1>10, <1>12, <3>2 DEF Verdict, NotEvaluated
    <3>3. CASE Key(m) \notin batch /\ ~Replayed(rsu, m)
          BY <1>10, <1>12, <3>3 DEF Verdict, NotEvaluated
    <3> QED BY <3>1, <3>2, <3>3
  <2>3. Answer = "processing" => ~OutOfOrder(rsu, m) /\ ~TooManyActive(rsu, m)
        BY <1>10, <1>12 DEF Verdict
  <2> QED BY <1>2, <1>4, <1>5, <1>6, <1>7, <1>9, <1>12, <2>1, <2>2, <2>3
<1> QED BY <1>11, <1>12

\* The road-side unit after a message it has looked at.
LEMMA UnitAfterMessage ==
    ASSUME TypeOK, NEW m \in Messages, NEW verdict, verdict \notin NotEvaluated
    PROVE  LET entry == [vehicle |-> m.vehicle, id |-> m.id, seq |-> m.seq, age |-> 0]
               others == {s \in rsu.slots : ~SameRequest(s, m)}
               slot == [vehicle |-> m.vehicle, id |-> m.id, left |-> RequestTTL - m.age]
           IN  AfterMessage(rsu, m, verdict) =
                  [processed |-> IF verdict = "processing" THEN rsu.processed \cup {entry}
                                 ELSE rsu.processed,
                   last |-> {e \in rsu.last : ~SameRequest(e, m)} \cup {entry},
                   slots |-> IF verdict = "processing" THEN others \cup {slot}
                             ELSE IF IsCancellation(m) THEN others ELSE rsu.slots,
                   rested |-> rsu.rested]
<1> DEFINE entry == [vehicle |-> m.vehicle, id |-> m.id, seq |-> m.seq, age |-> 0]
           slot == [vehicle |-> m.vehicle, id |-> m.id, left |-> RequestTTL - m.age]
           others == {s \in rsu.slots : ~SameRequest(s, m)}
           newest == {e \in rsu.last : ~SameRequest(e, m)} \cup {entry}
           done == IF verdict = "processing" THEN rsu.processed \cup {entry} ELSE rsu.processed
           remembered == [processed |-> done, last |-> newest, slots |-> rsu.slots,
                          rested |-> rsu.rested]
<1>1. rsu = [processed |-> rsu.processed, last |-> rsu.last, slots |-> rsu.slots,
             rested |-> rsu.rested]
      BY DEF TypeOK
<1>2. Remember(rsu, m, verdict) = [rsu EXCEPT !.processed = done, !.last = newest]
      BY <1>1 DEF Remember
<1>3. AfterMessage(rsu, m, verdict) = Track(Remember(rsu, m, verdict), m, verdict)
      BY DEF AfterMessage
<1> HIDE DEF entry, slot, done, newest
<1>4. Remember(rsu, m, verdict) = remembered
      BY <1>1, <1>2
<1>5. Track(remembered, m, verdict) =
         IF verdict = "processing"
         THEN [remembered EXCEPT !.slots = {s \in rsu.slots : ~SameRequest(s, m)} \cup {slot}]
         ELSE IF IsCancellation(m)
         THEN [remembered EXCEPT !.slots = {s \in rsu.slots : ~SameRequest(s, m)}]
         ELSE remembered
      BY DEF Track, slot
<1> DEFINE result == [processed |-> done, last |-> newest,
                      slots |-> IF verdict = "processing" THEN others \cup {slot}
                                ELSE IF IsCancellation(m) THEN others ELSE rsu.slots,
                      rested |-> rsu.rested]
<1> HIDE DEF others
<1>6. Track(remembered, m, verdict) = result
  <2>1. others = {s \in rsu.slots : ~SameRequest(s, m)}
        BY DEF others
  <2>2. CASE verdict = "processing"
        BY <1>5, <2>1, <2>2
  <2>3. CASE verdict # "processing" /\ IsCancellation(m)
        BY <1>5, <2>1, <2>3
  <2>4. CASE verdict # "processing" /\ ~IsCancellation(m)
        BY <1>5, <2>4
  <2> QED BY <2>2, <2>3, <2>4
<1> HIDE DEF remembered
<1> QED BY <1>3, <1>4, <1>6 DEF others, slot, entry, done, newest

\* What the history records of the message that is handled: a message that
\* was looked at is the last one received of its request.
LEMMA HistoryAfterHandling ==
    ASSUME IInv, Handle, NEW m \in Messages, m = Upcoming
    PROVE  /\ past' \in [Vehicles -> [Ids -> [received : Nat, forwarded : Nat, cancelled : Nat]]]
           /\ \A u \in Vehicles, i \in Ids :
                 /\ ~(u = m.vehicle /\ i = m.id) => past'[u][i] = past[u][i]
                 /\ past[u][i].received <= past'[u][i].received
           /\ LET p == past[m.vehicle][m.id]
                  q == past'[m.vehicle][m.id]
              IN  /\ Answer \in NotEvaluated => q = p
                  /\ Answer \notin NotEvaluated => q.received = m.n
                  /\ q.forwarded = IF Answer = "processing" THEN m.n ELSE p.forwarded
                  /\ q.cancelled = IF IsCancellation(m) THEN Greater(p.cancelled, m.n)
                                   ELSE p.cancelled
<1>1. TypeOK /\ Due # {}
      BY DEF IInv, Handle
<1>2. m.vehicle \in Vehicles /\ m.id \in Ids /\ m.n \in Nat
      BY FieldsOfAMessage
<1> DEFINE p == past[m.vehicle][m.id]
           q == past'[m.vehicle][m.id]
           Histories == [received : Nat, forwarded : Nat, cancelled : Nat]
<1>3. p \in Histories /\ past \in [Vehicles -> [Ids -> Histories]]
      BY <1>1, <1>2 DEF TypeOK
<1>4. past' = [past EXCEPT ![m.vehicle][m.id] = Recorded(@, m, Answer)]
      BY DEF Handle
<1>5. Recorded(p, m, Answer) =
         [received |-> Greater(p.received, m.n),
          forwarded |-> IF Answer = "processing" THEN m.n ELSE p.forwarded,
          cancelled |-> IF IsCancellation(m) THEN Greater(p.cancelled, m.n) ELSE p.cancelled]
      BY DEF Recorded
<1>6. Recorded(p, m, Answer) \in Histories
      BY <1>2, <1>3, <1>5 DEF Greater
<1>7. q = Recorded(p, m, Answer)
      BY <1>2, <1>3, <1>4
<1>8. past' \in [Vehicles -> [Ids -> Histories]]
      BY <1>2, <1>3, <1>4, <1>6
<1>9. ASSUME NEW u \in Vehicles, NEW i \in Ids, ~(u = m.vehicle /\ i = m.id)
      PROVE  past'[u][i] = past[u][i]
  <2>1. past' = [past EXCEPT ![m.vehicle] =
                    [past[m.vehicle] EXCEPT ![m.id] = Recorded(p, m, Answer)]]
        BY <1>4
  <2>2. CASE u # m.vehicle
        BY <1>3, <2>1, <2>2
  <2>3. CASE u = m.vehicle /\ i # m.id
    <3>1. past'[m.vehicle] = [past[m.vehicle] EXCEPT ![m.id] = Recorded(p, m, Answer)]
          BY <1>2, <1>3, <2>1
    <3>2. past[m.vehicle] \in [Ids -> Histories]
          BY <1>2, <1>3
    <3> QED BY <2>3, <3>1, <3>2
  <2> QED BY <1>9, <2>2, <2>3
<1>10. Greater(p.received, m.n) >= p.received /\ p.received \in Nat
       BY <1>2, <1>3 DEF Greater
<1>11. /\ Answer \in NotEvaluated => ~IsCancellation(m) /\ p.received >= m.n
       /\ Answer \notin NotEvaluated => p.received <= m.n
       /\ Answer \in NotEvaluated => Answer # "processing"
       BY <1>1, MeaningOfTheAnswer DEF Received, NotEvaluated
<1> HIDE DEF p, q
<1>12. Answer \in NotEvaluated => q = p
  <2> SUFFICES ASSUME Answer \in NotEvaluated PROVE q = p
      OBVIOUS
  <2>1. Greater(p.received, m.n) = p.received
        BY <1>2, <1>3, <1>11 DEF Greater
  <2>2. q = [received |-> p.received, forwarded |-> p.forwarded, cancelled |-> p.cancelled]
        BY <1>5, <1>7, <1>11, <2>1
  <2> QED BY <1>3, <2>2
<1>13. Answer \notin NotEvaluated => q.received = m.n
  <2>1. q.received = Greater(p.received, m.n)
        BY <1>5, <1>7
  <2>2. p.received \in Nat
        BY <1>3
  <2> QED BY <1>2, <1>11, <2>1, <2>2 DEF Greater
<1>14. ASSUME NEW u \in Vehicles, NEW i \in Ids
       PROVE  past[u][i].received <= past'[u][i].received
  <2>1. CASE u = m.vehicle /\ i = m.id
        BY <1>5, <1>7, <1>10, <2>1 DEF p, q
  <2>2. CASE ~(u = m.vehicle /\ i = m.id)
    <3>1. past[u][i].received \in Nat
          BY <1>3
    <3> QED BY <1>9, <2>2, <3>1
  <2> QED BY <2>1, <2>2
<1>15. /\ q.forwarded = IF Answer = "processing" THEN m.n ELSE p.forwarded
       /\ q.cancelled = IF IsCancellation(m) THEN Greater(p.cancelled, m.n) ELSE p.cancelled
       BY <1>5, <1>7
<1> QED BY <1>8, <1>9, <1>12, <1>13, <1>14, <1>15 DEF p, q

\* Handling leaves the on-board units and what they have sent alone, and takes
\* one message off the wire.
LEMMA WireAfterHandling ==
    ASSUME IInv, Handle
    PROVE  /\ obu' = obu /\ sent' = sent /\ store' = store
           /\ wire' \in Seq(Parcels)
           /\ \A j \in DOMAIN wire' : \E k \in DOMAIN wire : wire'[j] = wire[k]
<1>1. TypeOK /\ Due # {}
      BY DEF IInv, Handle
<1>2. wire \in Seq(Parcels) /\ Arriving \in DOMAIN wire
      BY <1>1, ArrivingIsDue DEF TypeOK
<1>3. wire' = RemoveAt(wire, Arriving)
      BY DEF Handle
<1>4. obu' = obu /\ sent' = sent /\ store' = store
      BY DEF Handle
<1> QED BY <1>2, <1>3, <1>4, ElementsAfterRemoval

\* A place depends on the on-board unit only.
LEMMA PlacedStays ==
    ASSUME obu' = obu, sent' = sent, NEW m, NEW wait, Placed(m, wait)
    PROVE  Placed(m, wait)'
BY DEF Placed, Behind, Carries

LEMMA HandleKeepsWire ==
    ASSUME IInv, Handle
    PROVE  WirePlaced' /\ StoreFollowsUnit' /\ FreshIsStored' /\ UnitOrderly'
<1>1. /\ TypeOK /\ WirePlaced /\ StoreFollowsUnit /\ FreshIsStored /\ UnitOrderly
      /\ Due # {}
      BY DEF IInv, Handle
<1>2. obu' = obu /\ sent' = sent /\ store' = store
      BY WireAfterHandling
<1>3. PICK m \in Messages : m = Upcoming
      BY <1>1, HandledMessage
<1>4. ASSUME NEW j \in DOMAIN wire'
      PROVE  /\ Placed(wire[j].m, wire[j].wait)'
             /\ IsCancellation(wire[j].m)' => ClosesItsRequest(wire[j].m)'
  <2>1. PICK k \in DOMAIN wire : wire'[j] = wire[k]
        BY WireAfterHandling
  <2>2. PICK c \in Messages, w \in Nat : c = wire[k].m /\ w = wire[k].wait
        BY <1>1, OnTheWire
  <2>3. Placed(c, w)
        BY <1>1, <2>2 DEF WirePlaced
  <2>4. Placed(c, w)'
        BY <1>2, <2>3, PlacedStays
  <2>5. ASSUME IsCancellation(c) PROVE ClosesItsRequest(c)'
    <3>1. ClosesItsRequest(c)
          BY <1>1, <2>2, <2>5 DEF WirePlaced
    <3>2. c.vehicle \in Vehicles /\ c.id \in Ids /\ c.n \in Nat
          BY FieldsOfAMessage
    <3>3. past'[c.vehicle][c.id].received <= c.n
      <4>1. CASE Answer \notin NotEvaluated /\ c.vehicle = m.vehicle /\ c.id = m.id
        <5>1. m.n <= c.n
              BY <1>1, <1>3, <2>2, <2>5, <4>1, HandledMessage
        <5>2. past'[m.vehicle][m.id].received = m.n
              BY <1>3, <4>1, HistoryAfterHandling
        <5> QED BY <4>1, <5>1, <5>2
      <4>2. CASE ~(Answer \notin NotEvaluated /\ c.vehicle = m.vehicle /\ c.id = m.id)
        <5>1. past'[c.vehicle][c.id] = past[c.vehicle][c.id]
              BY <1>3, <3>2, <4>2, HistoryAfterHandling
        <5> QED BY <3>1, <5>1 DEF ClosesItsRequest, Received
      <4> QED BY <4>1, <4>2
    <3>4. ASSUME NEW i \in DOMAIN wire',
                 wire'[i].m.vehicle = c.vehicle, wire'[i].m.id = c.id
          PROVE  wire'[i].m.n <= c.n
      <4>1. PICK l \in DOMAIN wire : wire'[i] = wire[l]
            BY WireAfterHandling
      <4> QED BY <3>1, <3>4, <4>1 DEF ClosesItsRequest
    <3> QED BY <1>2, <3>1, <3>3, <3>4 DEF ClosesItsRequest, Received, Behind, Begun
  <2> QED BY <2>1, <2>2, <2>4, <2>5 DEF Placed, ClosesItsRequest, Received, Behind, Carries,
             Begun, IsCancellation
<1>5. WirePlaced'
      BY <1>4 DEF WirePlaced
<1>6. FreshIsStored'
  <2>1. ASSUME NEW j \in DOMAIN wire', wire'[j].m.age = 0
        PROVE  IsOpen(store'[wire'[j].m.vehicle])
        BY <1>1, <1>2, <2>1, WireAfterHandling DEF FreshIsStored
  <2>2. ASSUME NEW a \in answers', a.age = 0
        PROVE  IsOpen(store'[a.vehicle])
    <3>1. CASE a \in answers
          BY <1>1, <1>2, <2>2, <3>1 DEF FreshIsStored
    <3>2. CASE a \notin answers
      <4>1. a = wire[Arriving].m /\ Arriving \in DOMAIN wire
            BY <1>1, <2>2, <3>2, ArrivingIsDue DEF Handle, Upcoming
      <4> QED BY <1>1, <1>2, <2>2, <4>1 DEF FreshIsStored
    <3> QED BY <3>1, <3>2
  <2> QED BY <2>1, <2>2 DEF FreshIsStored, IsOpen
<1> QED BY <1>1, <1>2, <1>5, <1>6 DEF StoreFollowsUnit, UnitOrderly

\* The caches after a message that was looked at.
LEMMA HandleKeepsCaches ==
    ASSUME IInv, Handle
    PROVE  CachesSound' /\ OvertakersRemembered'
<1>1. TypeOK /\ CachesSound /\ OvertakersRemembered /\ WirePlaced /\ Due # {}
      BY DEF IInv, Handle
<1>2. obu' = obu /\ sent' = sent
      BY WireAfterHandling
<1>3. PICK m \in Messages : m = Upcoming
      BY <1>1, HandledMessage
<1>4. m.vehicle \in Vehicles /\ m.id \in Ids /\ m.n \in Nat /\ m.seq \in Numbers
      BY FieldsOfAMessage
<1>5. Placed(m, 0)
      BY <1>1, <1>3, HandledMessage
<1> DEFINE entry == [vehicle |-> m.vehicle, id |-> m.id, seq |-> m.seq, age |-> 0]
           looked == Answer \notin NotEvaluated
<1>6. /\ \A k \in batch' : k \in batch \/ (looked /\ k = Key(m))
      /\ \A e \in rsu'.processed : e \in rsu.processed \/ (looked /\ e = entry)
      /\ \A e \in rsu'.last :
            \/ e \in rsu.last /\ (looked => ~SameRequest(e, m))
            \/ looked /\ e = entry
      /\ looked => entry \in rsu'.last
      /\ \A e \in rsu.last : (looked /\ SameRequest(e, m)) \/ e \in rsu'.last
  <2>1. CASE Answer \in NotEvaluated
    <3>1. rsu' = rsu /\ batch' = batch
          BY <2>1 DEF Handle, AfterMessage
    <3> QED BY <2>1, <3>1
  <2>2. CASE Answer \notin NotEvaluated
    <3>1. batch' = batch \cup {Key(m)} /\ rsu' = AfterMessage(rsu, m, Answer)
          BY <1>3, <2>2 DEF Handle
    <3>2. PICK answer : answer = Answer
          OBVIOUS
    <3>3. PICK slots : AfterMessage(rsu, m, answer) =
             [processed |-> IF answer = "processing" THEN rsu.processed \cup {entry}
                            ELSE rsu.processed,
              last |-> {e \in rsu.last : ~SameRequest(e, m)} \cup {entry},
              slots |-> slots,
              rested |-> rsu.rested]
          BY <1>1, <2>2, <3>2, UnitAfterMessage
    <3> HIDE DEF entry
    <3>4. /\ rsu'.processed = rsu.processed \/ rsu'.processed = rsu.processed \cup {entry}
          /\ rsu'.last = {e \in rsu.last : ~SameRequest(e, m)} \cup {entry}
          BY <3>1, <3>2, <3>3
    <3> QED BY <2>2, <3>1, <3>4
  <2> QED BY <2>1, <2>2
<1>7. /\ entry \in Entries /\ SameRequest(entry, m) /\ entry.age = 0 /\ entry.seq = m.seq
      /\ Key(m).vehicle = m.vehicle /\ Key(m).id = m.id /\ Key(m).seq = m.seq
      BY <1>4 DEF Entries, SameRequest, Key
<1> HIDE DEF entry
<1>8. looked => past'[m.vehicle][m.id].received = m.n
      BY <1>3, HistoryAfterHandling
<1>9. ASSUME NEW u \in Vehicles, NEW i \in Ids
      PROVE  /\ past[u][i].received \in Nat /\ past'[u][i].received \in Nat
             /\ past[u][i].received <= past'[u][i].received
             /\ ~(u = m.vehicle /\ i = m.id) => past'[u][i] = past[u][i]
             /\ ~looked => past'[u][i] = past[u][i]
  <2>1. past[u][i].received \in Nat
        BY <1>1 DEF TypeOK
  <2>2. past'[u][i].received \in Nat
    <3>1. past'[u][i] \in [received : Nat, forwarded : Nat, cancelled : Nat]
          BY <1>3, HistoryAfterHandling
    <3> QED BY <3>1
  <2>3. /\ past[u][i].received <= past'[u][i].received
        /\ ~(u = m.vehicle /\ i = m.id) => past'[u][i] = past[u][i]
        /\ ~looked => past'[m.vehicle][m.id] = past[m.vehicle][m.id]
        BY <1>3, HistoryAfterHandling
  <2> QED BY <2>1, <2>2, <2>3
<1>10. ASSUME NEW e, e.vehicle \in Vehicles, e.id \in Ids,
              NEW n \in Nat, NEW age, Remembered(e, n, age)
       PROVE  Remembered(e, n, age)'
  <2>1. n <= past'[e.vehicle][e.id].received
        BY <1>9, <1>10 DEF Remembered
  <2> QED BY <1>2, <1>10, <2>1 DEF Remembered, Carries, Behind
<1>11. ASSUME looked, NEW e, e.vehicle = m.vehicle, e.id = m.id, e.seq = m.seq,
              NEW age, age = 0
       PROVE  Remembered(e, m.n, age)'
  <2>1. /\ Carries(m.vehicle, m.n, m.seq)
        /\ Behind(m.vehicle, m.n) + obu[m.vehicle].idle + 0 <= MaxDelay
        BY <1>5 DEF Placed
  <2>2. Behind(m.vehicle, m.n) \in Int /\ obu[m.vehicle].idle \in Nat
        BY <1>1, <1>4 DEF TypeOK, Behind
  <2>3. Behind(m.vehicle, m.n) + obu[m.vehicle].idle <= MaxDelay + age
        BY <1>11, <2>1, <2>2, ConstantsTyped
  <2> QED BY <1>2, <1>4, <1>8, <1>11, <2>1, <2>3 DEF Remembered, Carries, Behind
<1>12. \A k \in batch' : \E n \in Nat : Remembered(k, n, 0)'
  <2> TAKE k \in batch'
  <2>1. CASE k \in batch
    <3>1. PICK n \in Nat : Remembered(k, n, 0)
          BY <1>1, <2>1 DEF CachesSound
    <3>2. k.vehicle \in Vehicles /\ k.id \in Ids
          BY <1>1, <2>1 DEF TypeOK
    <3> QED BY <1>10, <3>1, <3>2
  <2>2. CASE looked /\ k = Key(m)
        BY <1>4, <1>7, <1>11, <2>2
  <2> QED BY <1>6, <2>1, <2>2
<1>13. \A e \in rsu'.processed :
          e.age <= DedupeTTL /\ \E n \in Nat : Remembered(e, n, e.age)'
  <2> TAKE e \in rsu'.processed
  <2>1. CASE e \in rsu.processed
    <3>1. e \in Entries /\ e.age <= DedupeTTL
          BY <1>1, <2>1 DEF TypeOK, CachesSound
    <3>2. PICK n \in Nat : Remembered(e, n, e.age)
          BY <1>1, <2>1 DEF CachesSound
    <3>3. Remembered(e, n, e.age)'
          BY <1>10, <3>1, <3>2, FieldsOfAnEntry
    <3> QED BY <3>1, <3>3
  <2>2. CASE looked /\ e = entry
    <3>1. e.vehicle = m.vehicle /\ e.id = m.id /\ e.seq = m.seq /\ e.age = 0
          BY <1>7, <2>2 DEF SameRequest
    <3> QED BY <1>4, <1>11, <2>2, <3>1, ConstantsTyped
  <2> QED BY <1>6, <2>1, <2>2
<1>14. \A e \in rsu'.last :
          /\ e.age <= DedupeTTL
          /\ Remembered(e, past[e.vehicle][e.id].received, e.age)'
  <2> TAKE e \in rsu'.last
  <2>1. CASE e \in rsu.last /\ (looked => ~SameRequest(e, m))
    <3>1. e \in Entries /\ e.age <= DedupeTTL
          BY <1>1, <2>1 DEF TypeOK, CachesSound
    <3>2. PICK n : n = past[e.vehicle][e.id].received
          OBVIOUS
    <3>3. n \in Nat /\ past'[e.vehicle][e.id].received = n
          BY <1>9, <2>1, <3>1, <3>2, FieldsOfAnEntry DEF SameRequest
    <3>4. Remembered(e, n, e.age)
          BY <1>1, <2>1, <3>2 DEF CachesSound
    <3>5. Remembered(e, n, e.age)'
          BY <1>10, <3>1, <3>3, <3>4, FieldsOfAnEntry
    <3> QED BY <3>1, <3>3, <3>5 DEF Remembered, Carries, Behind
  <2>2. CASE looked /\ e = entry
    <3>1. e.vehicle = m.vehicle /\ e.id = m.id /\ e.seq = m.seq /\ e.age = 0
          BY <1>7, <2>2 DEF SameRequest
    <3>2. Remembered(e, m.n, e.age)'
          BY <1>11, <2>2, <3>1
    <3> QED BY <1>8, <2>2, <3>1, <3>2, ConstantsTyped DEF Remembered, Carries, Behind
  <2> QED BY <1>6, <2>1, <2>2
<1>15. \A e, f \in rsu'.last : SameRequest(e, f) => e = f
  <2> SUFFICES ASSUME NEW e \in rsu'.last, NEW f \in rsu'.last, SameRequest(e, f)
               PROVE  e = f
      OBVIOUS
  <2>1. e \in rsu.last /\ f \in rsu.last => e = f
        BY <1>1 DEF CachesSound
  <2> QED BY <1>6, <1>7, <2>1 DEF SameRequest
<1>16. OvertakersRemembered'
  <2> SUFFICES ASSUME NEW j \in DOMAIN wire',
                      wire'[j].m.n <= past'[wire'[j].m.vehicle][wire'[j].m.id].received
               PROVE  \E e \in rsu'.last :
                         SameRequest(e, wire'[j].m) /\ e.age + wire'[j].wait <= MaxDelay
      BY DEF OvertakersRemembered, Received, SameRequest
  <2>1. PICK k \in DOMAIN wire : wire'[j] = wire[k]
        BY WireAfterHandling
  <2>2. PICK c \in Messages, w \in Nat : c = wire[k].m /\ w = wire[k].wait
        BY <1>1, OnTheWire
  <2>3. c.vehicle \in Vehicles /\ c.id \in Ids /\ c.n \in Nat
        BY FieldsOfAMessage
  <2>4. CASE looked /\ SameRequest(c, m)
    <3>1. Placed(c, w)
          BY <1>1, <2>2 DEF WirePlaced
    <3>2. w <= MaxDelay
      <4>1. sent[c.vehicle] \in Nat /\ obu[c.vehicle].idle \in Nat
            BY <1>1, <2>3 DEF TypeOK
      <4> QED BY <2>3, <3>1, <4>1, ConstantsTyped DEF Placed, Behind
    <3>3. entry \in rsu'.last /\ SameRequest(entry, c)
          BY <1>6, <1>7, <2>4 DEF SameRequest
    <3> QED BY <1>7, <2>1, <2>2, <3>2, <3>3
  <2>5. CASE ~(looked /\ SameRequest(c, m))
    <3>1. c.n <= past[c.vehicle][c.id].received
          BY <1>9, <2>1, <2>2, <2>3, <2>5 DEF SameRequest
    <3>2. PICK e \in rsu.last : SameRequest(e, c) /\ e.age + w <= MaxDelay
          BY <1>1, <2>2, <3>1 DEF OvertakersRemembered, Received
    <3>3. e \in rsu'.last
          BY <1>6, <2>5, <3>2 DEF SameRequest
    <3> QED BY <2>1, <2>2, <3>2, <3>3
  <2> QED BY <2>4, <2>5
<1> QED BY <1>12, <1>13, <1>14, <1>15, <1>16 DEF CachesSound, SameRequest

LEMMA HandleKeepsPast ==
    ASSUME IInv, Handle
    PROVE  PastOrderly' /\ AnswersPlaced'
<1>1. TypeOK /\ PastOrderly /\ AnswersPlaced /\ Due # {}
      BY DEF IInv, Handle
<1>2. obu' = obu /\ sent' = sent
      BY WireAfterHandling
<1>3. PICK m \in Messages : m = Upcoming
      BY <1>1, HandledMessage
<1>4. m.vehicle \in Vehicles /\ m.id \in Ids /\ m.n \in Nat
      BY FieldsOfAMessage
<1>5. Placed(m, 0)
      BY <1>1, <1>3, HandledMessage
<1>6. ASSUME NEW u \in Vehicles, NEW i \in Ids
      PROVE  /\ past'[u][i].received <= sent'[u]
             /\ past'[u][i].forwarded <= past'[u][i].received
             /\ past'[u][i].cancelled <= past'[u][i].received
  <2> DEFINE p == past[u][i]
             q == past'[u][i]
  <2>1. /\ p.received \in Nat /\ p.forwarded \in Nat /\ p.cancelled \in Nat
        /\ p.received <= sent[u] /\ p.forwarded <= p.received /\ p.cancelled <= p.received
        BY <1>1 DEF TypeOK, PastOrderly
  <2>2. CASE u = m.vehicle /\ i = m.id /\ Answer \notin NotEvaluated
    <3>1. /\ q.received = m.n
          /\ q.forwarded = IF Answer = "processing" THEN m.n ELSE p.forwarded
          /\ q.cancelled = IF IsCancellation(m) THEN Greater(p.cancelled, m.n) ELSE p.cancelled
          BY <1>3, <2>2, HistoryAfterHandling
    <3>2. p.received <= m.n
          BY <1>1, <1>3, <2>2, MeaningOfTheAnswer DEF Received
    <3>3. m.n <= sent[u]
          BY <1>5, <2>2 DEF Placed
    <3> HIDE DEF p, q
    <3>4. q.forwarded = m.n \/ q.forwarded = p.forwarded
          BY <3>1
    <3>5. q.cancelled = m.n \/ q.cancelled = p.cancelled
          BY <3>1 DEF Greater
    <3>6. q.received <= sent'[u] /\ q.forwarded <= q.received /\ q.cancelled <= q.received
          BY <1>2, <1>4, <2>1, <3>1, <3>2, <3>3, <3>4, <3>5
    <3> QED BY <3>6 DEF q
  <2>3. CASE ~(u = m.vehicle /\ i = m.id /\ Answer \notin NotEvaluated)
    <3>1. past'[u][i] = past[u][i]
          BY <1>3, <2>3, HistoryAfterHandling
    <3> QED BY <1>2, <2>1, <3>1
  <2> QED BY <2>2, <2>3
<1>7. ASSUME NEW a \in answers'
      PROVE  Placed(a, 0)' /\ ~IsCancellation(a)
  <2>1. CASE a \in answers
        BY <1>1, <1>2, <2>1, PlacedStays DEF AnswersPlaced
  <2>2. CASE a \notin answers
    <3>1. a = m /\ Answer = "processing"
          BY <1>3, <1>7, <2>2 DEF Handle
    <3>2. ~IsCancellation(m)
          BY <1>1, <1>3, <3>1, MeaningOfTheAnswer
    <3> QED BY <1>2, <1>5, <3>1, <3>2, PlacedStays
  <2> QED BY <2>1, <2>2
<1> QED BY <1>6, <1>7 DEF PastOrderly, AnswersPlaced, Placed, Behind, Carries, IsCancellation

\* A slot is taken by a message that was forwarded and released by a
\* cancellation of its request.
LEMMA HandleKeepsSlots ==
    ASSUME IInv, Handle
    PROVE  SlotsHeld' /\ rsu'.slots \subseteq SlotType
<1>1. TypeOK /\ PastOrderly /\ SlotsHeld /\ Due # {}
      BY DEF IInv, Handle
<1>2. PICK m \in Messages : m = Upcoming
      BY <1>1, HandledMessage
<1>3. /\ m.vehicle \in Vehicles /\ m.id \in Ids /\ m.n \in Nat /\ m.age \in Nat
      /\ RequestTTL - m.age \in Int
      BY FieldsOfAMessage, ConstantsTyped DEF Messages
<1> DEFINE others == {s \in rsu.slots : ~SameRequest(s, m)}
           slot == [vehicle |-> m.vehicle, id |-> m.id, left |-> RequestTTL - m.age]
           Held(s) == past'[s.vehicle][s.id].forwarded > past'[s.vehicle][s.id].cancelled
<1>4. slot \in SlotType /\ SameRequest(slot, m)
      BY <1>3 DEF SlotType, SameRequest
<1>5. rsu.slots \subseteq SlotType /\ others \subseteq rsu.slots
      BY <1>1 DEF TypeOK, SlotType
<1>6. rsu'.slots = IF Answer = "processing" THEN others \cup {slot}
                   ELSE IF Answer \notin NotEvaluated /\ IsCancellation(m) THEN others
                   ELSE rsu.slots
  <2>1. rsu' = AfterMessage(rsu, m, Answer)
        BY <1>2 DEF Handle
  <2>2. CASE Answer \in NotEvaluated
        BY <2>1, <2>2 DEF AfterMessage, NotEvaluated
  <2>3. CASE Answer \notin NotEvaluated
    <3>1. PICK answer : answer = Answer
          OBVIOUS
    <3>2. PICK processed, last, rested : AfterMessage(rsu, m, answer) =
             [processed |-> processed, last |-> last,
              slots |-> IF answer = "processing" THEN others \cup {slot}
                        ELSE IF IsCancellation(m) THEN others ELSE rsu.slots,
              rested |-> rested]
          BY <1>1, <2>3, <3>1, UnitAfterMessage
    <3> HIDE DEF slot, others
    <3> QED BY <2>1, <2>3, <3>1, <3>2
  <2> QED BY <2>2, <2>3
<1> HIDE DEF slot
<1>7. /\ IsFiniteSet(rsu.slots) /\ IsFiniteSet(others)
      /\ Cardinality(rsu.slots) \in Nat /\ Cardinality(others) \in Nat
      /\ Cardinality(others) <= Cardinality(rsu.slots) /\ Cardinality(rsu.slots) <= MaxActive
      BY <1>1, <1>5, FS_Subset, FS_CardinalityType DEF SlotsHeld
<1>8. \A s \in others : s.vehicle \in Vehicles /\ s.id \in Ids /\ Held(s)
  <2> TAKE s \in others
  <2>1. s.vehicle \in Vehicles /\ s.id \in Ids
        BY <1>5 DEF SlotType
  <2>2. past'[s.vehicle][s.id] = past[s.vehicle][s.id]
        BY <1>2, <2>1, HistoryAfterHandling DEF SameRequest
  <2> QED BY <1>1, <2>1, <2>2 DEF SlotsHeld
<1> DEFINE p == past[m.vehicle][m.id]
           q == past'[m.vehicle][m.id]
<1>9. /\ p.received \in Nat /\ p.cancelled \in Nat /\ p.cancelled <= p.received
      /\ q.forwarded = IF Answer = "processing" THEN m.n ELSE p.forwarded
      /\ q.cancelled = IF IsCancellation(m) THEN Greater(p.cancelled, m.n) ELSE p.cancelled
      BY <1>1, <1>2, <1>3, HistoryAfterHandling DEF TypeOK, PastOrderly
<1>10. CASE Answer = "processing"
  <2>1. ~IsCancellation(m) /\ p.received < m.n /\ ~TooManyActive(rsu, m)
        BY <1>1, <1>2, <1>10, MeaningOfTheAnswer DEF Received
  <2>2. Held(slot)
    <3>1. q.forwarded = m.n /\ q.cancelled = p.cancelled
          BY <1>9, <1>10, <2>1
    <3>2. q.forwarded > q.cancelled
          BY <1>3, <1>9, <2>1, <3>1
    <3> QED BY <1>4, <3>2 DEF SameRequest
  <2>3. Cardinality(others) < MaxActive
    <3>1. CASE \E s \in rsu.slots : SameRequest(s, m)
      <4>1. PICK s \in rsu.slots : SameRequest(s, m)
            BY <3>1
      <4>2. others \subseteq rsu.slots \ {s}
            BY <4>1
      <4>3. /\ IsFiniteSet(rsu.slots \ {s})
            /\ Cardinality(rsu.slots \ {s}) = Cardinality(rsu.slots) - 1
            BY <1>7, <4>1, FS_RemoveElement
      <4>4. Cardinality(others) <= Cardinality(rsu.slots \ {s})
            BY <4>2, <4>3, FS_Subset
      <4> QED BY <1>7, <4>3, <4>4, ConstantsTyped
    <3>2. CASE ~\E s \in rsu.slots : SameRequest(s, m)
      <4>1. Cardinality(rsu.slots) < MaxActive
            BY <1>7, <2>1, <3>2, ConstantsTyped DEF TooManyActive
      <4> QED BY <1>7, <4>1, ConstantsTyped
    <3> QED BY <3>1, <3>2
  <2>4. /\ IsFiniteSet(others \cup {slot})
        /\ Cardinality(others \cup {slot}) <= MaxActive
    <3>1. slot \notin others
          BY <1>4
    <3> HIDE DEF others
    <3>2. /\ IsFiniteSet(others \cup {slot})
          /\ Cardinality(others \cup {slot}) = Cardinality(others) + 1
          BY <1>7, <3>1, FS_AddElement
    <3> QED BY <1>7, <2>3, <3>2, ConstantsTyped
  <2>5. \A s, t \in others \cup {slot} : SameRequest(s, t) => s = t
        BY <1>1, <1>4 DEF SlotsHeld, SameRequest
  <2> QED BY <1>4, <1>5, <1>6, <1>8, <1>10, <2>2, <2>4, <2>5 DEF SlotsHeld, SameRequest
<1>11. CASE Answer # "processing" /\ Answer \notin NotEvaluated /\ IsCancellation(m)
       BY <1>1, <1>5, <1>6, <1>7, <1>8, <1>11, ConstantsTyped DEF SlotsHeld, SameRequest
<1>12. CASE Answer # "processing" /\ ~(Answer \notin NotEvaluated /\ IsCancellation(m))
  <2>1. rsu'.slots = rsu.slots
        BY <1>6, <1>12
  <2>2. ~IsCancellation(m)
        BY <1>1, <1>2, <1>12, MeaningOfTheAnswer
  <2>3. q.forwarded = p.forwarded /\ q.cancelled = p.cancelled
        BY <1>9, <1>12, <2>2
  <2>4. ASSUME NEW s \in rsu.slots PROVE Held(s)
    <3>1. CASE SameRequest(s, m)
          BY <1>1, <2>3, <3>1 DEF SlotsHeld, SameRequest
    <3>2. CASE ~SameRequest(s, m)
          BY <1>8, <3>2
    <3> QED BY <3>1, <3>2
  <2> QED BY <1>1, <1>5, <2>1, <2>4 DEF SlotsHeld, SameRequest
<1> QED BY <1>10, <1>11, <1>12

LEMMA HandleKeepsTypes ==
    ASSUME IInv, Handle
    PROVE  TypeOK'
<1>1. TypeOK /\ Due # {}
      BY DEF IInv, Handle
<1>2. PICK m \in Messages : m = Upcoming
      BY <1>1, HandledMessage
<1>3. m.vehicle \in Vehicles /\ m.id \in Ids /\ m.n \in Nat /\ m.seq \in Numbers
      BY FieldsOfAMessage
<1> DEFINE entry == [vehicle |-> m.vehicle, id |-> m.id, seq |-> m.seq, age |-> 0]
           Units == [processed : SUBSET Entries, last : SUBSET Entries,
                     slots : SUBSET [vehicle : Vehicles, id : Ids, left : Int],
                     rested : [Vehicles -> Nat]]
<1>4. entry \in Entries /\ Key(m) \in [vehicle : Vehicles, id : Ids, seq : Numbers]
      BY <1>3 DEF Entries, Key
<1>5. rsu' = AfterMessage(rsu, m, Answer)
      BY <1>2 DEF Handle
<1>6. rsu' \in Units
  <2>1. CASE Answer \in NotEvaluated
        BY <1>1, <1>5, <2>1 DEF AfterMessage, TypeOK
  <2>2. CASE Answer \notin NotEvaluated
    <3>1. PICK answer : answer = Answer
          OBVIOUS
    <3>2. PICK slots : AfterMessage(rsu, m, answer) =
             [processed |-> IF answer = "processing" THEN rsu.processed \cup {entry}
                            ELSE rsu.processed,
              last |-> {e \in rsu.last : ~SameRequest(e, m)} \cup {entry},
              slots |-> slots,
              rested |-> rsu.rested]
          BY <1>1, <2>2, <3>1, UnitAfterMessage
    <3>3. rsu'.slots = slots
          BY <1>5, <3>1, <3>2
    <3>4. slots \in SUBSET [vehicle : Vehicles, id : Ids, left : Int]
          BY <3>3, HandleKeepsSlots DEF SlotType
    <3>5. /\ rsu.processed \in SUBSET Entries /\ rsu.last \in SUBSET Entries
          /\ rsu.rested \in [Vehicles -> Nat]
          BY <1>1 DEF TypeOK
    <3> HIDE DEF entry
    <3>6. /\ rsu.processed \cup {entry} \in SUBSET Entries
          /\ {e \in rsu.last : ~SameRequest(e, m)} \cup {entry} \in SUBSET Entries
          BY <1>4, <3>5
    <3> QED BY <1>5, <3>1, <3>2, <3>4, <3>5, <3>6
  <2> QED BY <2>1, <2>2
<1>7. /\ obu' = obu /\ sent' = sent /\ store' = store /\ wire' \in Seq(Parcels)
      BY WireAfterHandling
<1>8. past' \in [Vehicles -> [Ids -> [received : Nat, forwarded : Nat, cancelled : Nat]]]
      BY <1>2, HistoryAfterHandling
<1>9. /\ batch' \subseteq [vehicle : Vehicles, id : Ids, seq : Numbers]
      /\ answers' \subseteq Messages
      BY <1>1, <1>2, <1>4 DEF Handle, TypeOK
<1> HIDE DEF entry
<1> QED BY <1>1, <1>6, <1>7, <1>8, <1>9 DEF TypeOK

LEMMA HandleKeepsInvariant ==
    ASSUME IInv, Handle
    PROVE  IInv'
BY HandleKeepsTypes, HandleKeepsWire, HandleKeepsCaches, HandleKeepsPast, HandleKeepsSlots
   DEF IInv
-----------------------------------------------------------------------------
(***************************************************************************)
(* The decision on one of the requests that were forwarded.                *)
(***************************************************************************)

\* A request that is resolved has an open entry in the store: mark_granted
\* finds what it marks.
LEMMA ResolvedIsOpen ==
    ASSUME IInv, NEW m \in answers, Resolved(m)
    PROVE  IsOpen(store[m.vehicle])
BY DEF IInv, FreshIsStored, Resolved, Holds

\* A grant changes one entry of the store, and releases slots.
LEMMA GrantOfAVehicle ==
    ASSUME IInv, NEW m \in answers, Grant(m)
    PROVE  /\ store' \in [Vehicles -> Beliefs]
           /\ \A v \in Vehicles : /\ IsOpen(store'[v]) <=> IsOpen(store[v])
                                  /\ store'[v].about = store[v].about
           /\ rsu'.processed = rsu.processed /\ rsu'.last = rsu.last
           /\ rsu'.slots \subseteq rsu.slots
           /\ rsu'.rested \in [Vehicles -> Nat]
           /\ rsu' = [processed |-> rsu'.processed, last |-> rsu'.last,
                      slots |-> rsu'.slots, rested |-> rsu'.rested]
<1>1. TypeOK /\ m.vehicle \in Vehicles
      BY FieldsOfAMessage DEF IInv, TypeOK
<1> DEFINE e == store[m.vehicle]
<1>2. e \in Beliefs /\ IsOpen(e) /\ store \in [Vehicles -> Beliefs]
      BY <1>1, ResolvedIsOpen DEF Grant, TypeOK
<1>3. store' = [store EXCEPT ![m.vehicle] = MarkGranted(e)]
      BY DEF Grant
<1> HIDE DEF e
<1>4. MarkGranted(e) = [status |-> "granted", about |-> e.about, unseen |-> 0]
  <2> DEFINE marked == [status |-> "granted", about |-> e.about, unseen |-> e.unseen]
  <2>1. [e EXCEPT !.status = "granted"] = marked
        BY <1>2 DEF Beliefs
  <2>2. [marked EXCEPT !.unseen = 0] = [status |-> "granted", about |-> e.about, unseen |-> 0]
        OBVIOUS
  <2>3. [e EXCEPT !.status = "granted", !.unseen = 0] =
           [[e EXCEPT !.status = "granted"] EXCEPT !.unseen = 0]
        OBVIOUS
  <2> HIDE DEF marked
  <2> QED BY <2>1, <2>2, <2>3 DEF MarkGranted
<1>5. /\ MarkGranted(e) \in Beliefs /\ IsOpen(MarkGranted(e))
      /\ MarkGranted(e).about = e.about
      BY <1>2, <1>4 DEF Beliefs, IsOpen
<1>6. /\ store' \in [Vehicles -> Beliefs]
      /\ \A v \in Vehicles : /\ IsOpen(store'[v]) <=> IsOpen(store[v])
                             /\ store'[v].about = store[v].about
  <2> HIDE DEF MarkGranted
  <2> QED BY <1>1, <1>2, <1>3, <1>5 DEF e
<1> DEFINE slots == {s \in rsu.slots : s.vehicle # m.vehicle}
           rested == [rsu.rested EXCEPT ![m.vehicle] = 0]
<1>7. rsu' = [rsu EXCEPT !.rested[m.vehicle] = 0, !.slots = slots]
      BY DEF Grant, PriorityGranted
<1>8. rested \in [Vehicles -> Nat]
      BY <1>1 DEF TypeOK
<1>9. rsu = [processed |-> rsu.processed, last |-> rsu.last, slots |-> rsu.slots,
             rested |-> rsu.rested]
      BY <1>1 DEF TypeOK
<1>10. slots \subseteq rsu.slots
       OBVIOUS
<1> HIDE DEF slots
<1>11. rsu' = [rsu EXCEPT !.rested = rested, !.slots = slots]
       BY <1>7, <1>9
<1> HIDE DEF rested
<1>12. rsu' = [processed |-> rsu.processed, last |-> rsu.last, slots |-> slots,
               rested |-> rested]
       BY <1>9, <1>11
<1> QED BY <1>6, <1>8, <1>10, <1>12

LEMMA DecideKeepsInvariant ==
    ASSUME IInv, NEW m \in answers, Decide(m)
    PROVE  IInv'
<1>1. /\ obu' = obu /\ wire' = wire /\ batch' = batch /\ sent' = sent /\ past' = past
      /\ answers' \subseteq answers
      BY DEF Decide
<1>2. /\ TypeOK /\ UnitOrderly /\ WirePlaced /\ AnswersPlaced /\ CachesSound
      /\ OvertakersRemembered /\ PastOrderly /\ StoreFollowsUnit /\ FreshIsStored /\ SlotsHeld
      BY DEF IInv
<1>3. /\ store' \in [Vehicles -> Beliefs]
      /\ \A v \in Vehicles : /\ IsOpen(store'[v]) <=> IsOpen(store[v])
                             /\ store'[v].about = store[v].about
      /\ rsu'.processed = rsu.processed /\ rsu'.last = rsu.last
      /\ rsu'.slots \subseteq rsu.slots
      /\ rsu'.rested \in [Vehicles -> Nat]
      /\ rsu' = [processed |-> rsu'.processed, last |-> rsu'.last,
                 slots |-> rsu'.slots, rested |-> rsu'.rested]
  <2>1. CASE Grant(m)
        BY <2>1, GrantOfAVehicle
  <2>2. CASE store' = store /\ rsu' = rsu
        BY <1>2, <2>2 DEF TypeOK
  <2> QED BY <2>1, <2>2 DEF Decide, FailedIntervention, NoIntervention
<1>4. TypeOK'
  <2>1. rsu' \in [processed : SUBSET Entries, last : SUBSET Entries,
                  slots : SUBSET [vehicle : Vehicles, id : Ids, left : Int],
                  rested : [Vehicles -> Nat]]
    <3>1. /\ rsu.processed \in SUBSET Entries /\ rsu.last \in SUBSET Entries
          /\ rsu.slots \in SUBSET [vehicle : Vehicles, id : Ids, left : Int]
          BY <1>2 DEF TypeOK
    <3> QED BY <1>3, <3>1
  <2> QED BY <1>1, <1>2, <1>3, <2>1 DEF TypeOK
<1>5. UnitOrderly' /\ WirePlaced' /\ PastOrderly'
      BY <1>1, <1>2 DEF UnitOrderly, WirePlaced, PastOrderly, Placed, ClosesItsRequest, Received,
         Behind, Begun, Carries
<1>6. AnswersPlaced'
      BY <1>1, <1>2 DEF AnswersPlaced, Placed, Behind, Carries
<1>7. CachesSound' /\ OvertakersRemembered'
      BY <1>1, <1>2, <1>3 DEF CachesSound, OvertakersRemembered, Remembered, Received, Behind,
         Carries
<1>8. StoreFollowsUnit'
      BY <1>1, <1>2, <1>3 DEF StoreFollowsUnit
<1>9. FreshIsStored'
  <2>1. \A i \in DOMAIN wire : wire[i].m.vehicle \in Vehicles
        BY <1>2, OnTheWire, FieldsOfAMessage
  <2>2. \A a \in answers : a.vehicle \in Vehicles
        BY <1>2, FieldsOfAMessage DEF TypeOK
  <2> QED BY <1>1, <1>2, <1>3, <2>1, <2>2 DEF FreshIsStored
<1>10. SlotsHeld'
  <2>1. /\ IsFiniteSet(rsu.slots) /\ Cardinality(rsu.slots) <= MaxActive
        /\ IsFiniteSet(rsu'.slots) /\ Cardinality(rsu'.slots) <= Cardinality(rsu.slots)
        /\ Cardinality(rsu.slots) \in Nat /\ Cardinality(rsu'.slots) \in Nat
        BY <1>2, <1>3, FS_Subset, FS_CardinalityType DEF SlotsHeld
  <2>2. Cardinality(rsu'.slots) <= MaxActive
        BY <2>1, ConstantsTyped
  <2> QED BY <1>1, <1>2, <1>3, <2>1, <2>2 DEF SlotsHeld
<1> QED BY <1>4, <1>5, <1>6, <1>7, <1>8, <1>9, <1>10 DEF IInv
-----------------------------------------------------------------------------
(***************************************************************************)
(* The theorems.                                                           *)
(***************************************************************************)

LEMMA InitialInvariant ==
    ASSUME Init
    PROVE  IInv
<1>1. TypeOK
  <2>1. Fresh \in [seq : Numbers, id : 0 .. MaxRequestId, nextId : Ids, idle : Nat]
        BY ConstantsTyped DEF Fresh, Numbers, Ids
  <2>2. NoEntry \in Beliefs
        BY DEF NoEntry, Beliefs
  <2>3. InitialUnit \in [processed : SUBSET Entries, last : SUBSET Entries,
                         slots : SUBSET [vehicle : Vehicles, id : Ids, left : Int],
                         rested : [Vehicles -> Nat]]
        BY ConstantsTyped DEF InitialUnit
  <2>4. NothingYet \in [received : Nat, forwarded : Nat, cancelled : Nat]
        BY DEF NothingYet
  <2>5. /\ obu = [v \in Vehicles |-> Fresh] /\ wire = <<>> /\ batch = {} /\ answers = {}
        /\ rsu = InitialUnit /\ store = [v \in Vehicles |-> NoEntry]
        /\ sent = [v \in Vehicles |-> 0]
        /\ past = [v \in Vehicles |-> [id \in Ids |-> NothingYet]]
        BY DEF Init, Ids
  <2>6. wire \in Seq(Parcels)
        BY <2>5
  <2> HIDE DEF Fresh, NoEntry, InitialUnit, NothingYet
  <2> QED BY <2>1, <2>2, <2>3, <2>4, <2>5, <2>6 DEF TypeOK
<1>2. UnitOrderly
      BY DEF Init, UnitOrderly, Fresh
<1>3. wire = <<>> /\ DOMAIN wire = {} /\ answers = {} /\ batch = {}
      BY DEF Init
<1>4. WirePlaced /\ AnswersPlaced /\ OvertakersRemembered /\ FreshIsStored
      BY <1>3 DEF WirePlaced, AnswersPlaced, OvertakersRemembered, FreshIsStored
<1>5. CachesSound
      BY <1>3 DEF Init, CachesSound, InitialUnit
<1>6. PastOrderly
      BY DEF Init, PastOrderly, NothingYet, Ids
<1>7. StoreFollowsUnit
      BY DEF Init, StoreFollowsUnit, NoEntry, IsOpen
<1>8. SlotsHeld
  <2>1. rsu.slots = {}
        BY DEF Init, InitialUnit
  <2>2. IsFiniteSet(rsu.slots) /\ Cardinality(rsu.slots) = 0
        BY <2>1, FS_EmptySet
  <2> QED BY <2>1, <2>2, ConstantsTyped DEF SlotsHeld
<1> QED BY <1>1, <1>2, <1>4, <1>5, <1>6, <1>7, <1>8 DEF IInv

\* The inductive invariant: where every message stands that is in transit,
\* in the caches, in the store or in the quota, counted back from the last one
\* its vehicle sent.
THEOREM MessagesKeepTheirPlaces == Spec => []IInv
<1>1. Init => IInv
      BY InitialInvariant
<1>2. IInv /\ [Next]_vars => IInv'
  <2> SUFFICES ASSUME IInv, [Next]_vars PROVE IInv'
      OBVIOUS
  <2>1. CASE Tick
        BY <2>1, TickKeepsInvariant
  <2>2. CASE Handle
        BY <2>2, HandleKeepsInvariant
  <2>3. CASE \E m \in answers : Decide(m)
        BY <2>3, DecideKeepsInvariant
  <2>4. CASE UNCHANGED vars
    <3>1. /\ obu' = obu /\ wire' = wire /\ batch' = batch /\ rsu' = rsu /\ store' = store
          /\ answers' = answers /\ sent' = sent /\ past' = past
          BY <2>4 DEF vars
    <3> QED BY <3>1 DEF IInv, TypeOK, UnitOrderly, WirePlaced, AnswersPlaced, CachesSound,
            OvertakersRemembered, PastOrderly, StoreFollowsUnit, FreshIsStored, SlotsHeld,
            Placed, ClosesItsRequest, Remembered, Received, Behind, Begun, Carries
  <2> QED BY <2>1, <2>2, <2>3, <2>4 DEF Next
<1> QED BY <1>1, <1>2, PTL DEF Spec

\* Received(m) is about the history the properties read.
LEMMA WhatIsForwardedIsNew ==
    ASSUME IInv, Due # {}, Answer = "processing"
    PROVE  /\ past[Upcoming.vehicle][Upcoming.id].forwarded < Upcoming.n
           /\ past[Upcoming.vehicle][Upcoming.id].cancelled < Upcoming.n
<1>1. PICK m \in Messages : m = Upcoming
      BY HandledMessage
<1>2. m.vehicle \in Vehicles /\ m.id \in Ids /\ m.n \in Nat
      BY FieldsOfAMessage
<1> DEFINE p == past[m.vehicle][m.id]
<1>3. /\ p.received \in Nat /\ p.forwarded \in Nat /\ p.cancelled \in Nat
      /\ p.forwarded <= p.received /\ p.cancelled <= p.received
      BY <1>2 DEF IInv, TypeOK, PastOrderly
<1>4. p.received < m.n
      BY <1>1, MeaningOfTheAnswer DEF Received
<1> QED BY <1>1, <1>2, <1>3, <1>4

\* ForwardedInOrder: however messages are delayed, repeated or lost, the
\* gateway forwards no message of a request after a later one of it
\* (_replay_or_ordering_problem, _prune_replay_cache).
THEOREM MessagesAreForwardedInOrder == Spec => []ForwardedInOrder
<1>1. IInv => ForwardedInOrder
      BY WhatIsForwardedIsNew DEF ForwardedInOrder
<1> QED BY <1>1, MessagesKeepTheirPlaces, PTL

\* CancelledStaysClosed: after a cancellation was received nothing that the
\* vehicle sent before it is forwarded, even if the certificate of the
\* cancellation had expired (_remember_request).
THEOREM CancellationsAreFinal == Spec => []CancelledStaysClosed
<1>1. IInv => CancelledStaysClosed
      BY WhatIsForwardedIsNew DEF CancelledStaysClosed
<1> QED BY <1>1, MessagesKeepTheirPlaces, PTL

\* FirstCopyNotMistaken: only a message that arrived before, or that a later
\* one overtook, is refused as a replay; identifiers and sequence numbers that
\* come round again, or that a vehicle takes up after its state was dropped,
\* are never confused (_prune_departed_vehicles, state_retention_s).
THEOREM FirstCopiesAreHeard == Spec => []FirstCopyNotMistaken
<1>1. IInv => FirstCopyNotMistaken
      BY MeaningOfTheAnswer DEF FirstCopyNotMistaken, Received
<1> QED BY <1>1, MessagesKeepTheirPlaces, PTL

\* QuotaHeldByOpenRequests: the quota is never exceeded, and no slot is held
\* by a request that was cancelled (_track_processing_request).
THEOREM QuotaIsHeldByOpenRequests == Spec => []QuotaHeldByOpenRequests
<1>1. IInv => QuotaHeldByOpenRequests
      BY DEF IInv, SlotsHeld, QuotaHeldByOpenRequests
<1> QED BY <1>1, MessagesKeepTheirPlaces, PTL

\* OnlyTheLatestIsServed: whatever was delayed or lost, what get_by_request_id
\* resolves is the last message of the vehicle, about the request it still has.
THEOREM OnlyTheLatestLeadsToAnIntervention == Spec => []OnlyTheLatestIsServed
<1>1. ASSUME IInv, NEW m \in answers, Resolved(m)
      PROVE  m.n = sent[m.vehicle] /\ m.id = obu[m.vehicle].id
  <2>1. TypeOK /\ AnswersPlaced /\ StoreFollowsUnit
        BY <1>1 DEF IInv
  <2>2. m \in Messages /\ Placed(m, 0) /\ ~IsCancellation(m)
        BY <2>1 DEF TypeOK, AnswersPlaced
  <2>3. m.vehicle \in Vehicles /\ m.n \in Nat /\ m.seq \in Numbers
        BY <2>2, FieldsOfAMessage
  <2>4. sent[m.vehicle] \in Nat /\ obu[m.vehicle].idle \in Nat /\ obu[m.vehicle].seq \in Numbers
        BY <2>1, <2>3 DEF TypeOK
  <2>5. m.n = sent[m.vehicle]
    <3>1. CASE m.age = 0
          BY <2>2, <3>1 DEF Placed
    <3>2. CASE Holds(store[m.vehicle], m)
      <4>1. obu[m.vehicle].idle <= MaxDelay /\ m.n <= sent[m.vehicle]
            BY <2>2, <2>3, <2>4, ConstantsTyped DEF Placed, Behind
      <4>2. m.seq = obu[m.vehicle].seq
            BY <2>1, <2>3, <3>2, <4>1 DEF Holds, StoreFollowsUnit
      <4>3. Behind(m.vehicle, m.n) <= MaxDelay
            BY <2>2, <2>3, <2>4, ConstantsTyped DEF Placed, Behind
      <4>4. /\ Behind(m.vehicle, m.n) \in Nat
            /\ Behind(m.vehicle, m.n) = 0 \/ Behind(m.vehicle, m.n) = SequenceModulus
            BY <2>2, <2>3, <2>4, <4>1, <4>2, ConstantsTyped DEF Placed, Carries, Behind, Numbers
      <4>5. Behind(m.vehicle, m.n) = 0
            BY <4>3, <4>4, ConstantsTyped
      <4> QED BY <2>3, <2>4, <4>5 DEF Behind
    <3> QED BY <1>1, <3>1, <3>2 DEF Resolved
  <2> QED BY <2>2, <2>5 DEF Placed
<1>2. IInv => OnlyTheLatestIsServed
      BY <1>1 DEF OnlyTheLatestIsServed
<1> QED BY <1>2, MessagesKeepTheirPlaces, PTL
=============================================================================
