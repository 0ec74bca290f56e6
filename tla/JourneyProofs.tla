---------------------------- MODULE JourneyProofs -----------------------------
(***************************************************************************)
(* For any route, any vehicle and anything TraCI may answer: what a        *)
(* vehicle, the unit on board and the road-side units keep to on the way   *)
(* past several signals.                                                   *)
(***************************************************************************)
EXTENDS Journey, DataInduction, SequenceTheorems

\* The observation of a pass is what there was to be read in it.
SeenInv == look \in Looks /\ seen = Observe(kind, at, look)

-----------------------------------------------------------------------------
(* What the adapter reads of a vehicle.                                     *)

LEMMA TravelType ==
    ASSUME NEW d \in Int, NEW v \in Nat \ {0}
    PROVE  Travel(d, v) \in Int
BY DEF Travel

\* The numbers an arrival time is made of.
LEMMA ReadingsType ==
    ASSUME NEW l \in Looks
    PROVE  /\ Distance(l) \in Nat /\ Penalty(l) \in Nat
           /\ AtCurrentSpeed(l) \in Int /\ AtFreeFlow(l) \in Int
           /\ l.speed \in Int /\ l.wait \in Int
<1>1. /\ l.position \in Int /\ l.length \in Int /\ l.speed \in Int /\ l.wait \in Int
      /\ IsFiniteSet(l.others)
  BY LooksAssumption
<1>2. Distance(l) \in Nat
  BY <1>1 DEF Distance, LaneLength, Greater
<1>3. QueueAhead(l) \in Nat
  BY <1>1, FS_Subset, FS_CardinalityType DEF QueueAhead
<1>4. Penalty(l) \in Nat
  BY <1>3, EtaAssumption DEF Penalty
<1>5. Greater(l.speed, MinSpeed) \in Nat \ {0}
  BY <1>1, EtaAssumption DEF Greater
<1>. QED
  BY <1>1, <1>2, <1>4, <1>5, EtaAssumption, TravelType DEF AtCurrentSpeed, AtFreeFlow

\* The delay by the queue that an arrival time includes is what the queue
\* has added to it, and no less than nothing.
LEMMA IncludedIsTheQueue ==
    ASSUME NEW l \in Looks
    PROVE  /\ Eta(l) \in Int /\ IncludedDelay(l) \in Nat
           /\ Eta(l) - IncludedDelay(l) = EtaWith(l, 0)
<1>. DEFINE waited == Lesser(l.wait * 1000, WaitingCap)
<1>1. waited \in Int
  BY ReadingsType, EtaAssumption DEF Lesser
<1>. HIDE DEF waited
<1>2. CASE l.speed < MinSpeed
  <2>1. /\ Eta(l) = AtFreeFlow(l) + Penalty(l) + waited
        /\ EtaWith(l, 0) = AtFreeFlow(l) + 0 + waited
        /\ IncludedDelay(l) = Penalty(l)
    BY <1>2 DEF Eta, EtaWith, IncludedDelay, waited
  <2>. QED
    BY <1>1, <2>1, ReadingsType
<1>3. CASE ~(l.speed < MinSpeed)
  <2>1. /\ Eta(l) = Lesser(AtCurrentSpeed(l), AtFreeFlow(l) + Penalty(l))
        /\ EtaWith(l, 0) = Lesser(AtCurrentSpeed(l), AtFreeFlow(l) + 0)
        /\ IncludedDelay(l) = Eta(l) - Lesser(AtCurrentSpeed(l), AtFreeFlow(l))
    BY <1>3 DEF Eta, EtaWith, IncludedDelay
  <2>. QED
    BY <2>1, ReadingsType DEF Lesser
<1>. QED
  BY <1>2, <1>3

\* An observation is of an edge of the configuration, with these numbers.
LEMMA ObservationRead ==
    ASSUME NEW k, NEW i, NEW l \in Looks, Observe(k, i, l) # NoObservation
    PROVE  /\ Observe(k, i, l).edge \in DOMAIN SignalOf
           /\ Observe(k, i, l).eta = Eta(l)
           /\ Observe(k, i, l).included = IncludedDelay(l)
           /\ Observe(k, i, l).distance = Distance(l)
BY DEF Observe

-----------------------------------------------------------------------------
(* What it reads of the lanes of a signal.                                  *)

\* The queue of a lane, counted from the stop line back, is part of the
\* vehicles of that lane that SUMO says have halted.
LEMMA QueueHasHalted ==
    ASSUME NEW lane, IsLane(lane), ~Failed(lane)
    PROVE  /\ LaneQueue(lane) \in Int /\ HaltingNumber(lane) \in Int
           /\ LaneQueue(lane) <= HaltingNumber(lane)
<1>. DEFINE halting == {s \in lane.samples : s.speed < HaltingThreshold}
            read == {s \in lane.samples : s.readable}
            queued == {s \in read : \A ahead \in read :
                           ahead.position >= s.position => ahead.speed < QueueHaltSpeed}
<1>1. "halting" \notin lane.broken
  BY DEF Failed
<1>2. HaltingNumber(lane) = Cardinality(halting)
  BY <1>1 DEF HaltingNumber
<1>3. LaneQueue(lane) = HaltingNumber(lane) \/ LaneQueue(lane) = Cardinality(queued)
  BY DEF LaneQueue, HaltedFromStopline
<1>4. queued \subseteq halting
  <2>. SUFFICES ASSUME NEW s \in queued PROVE s \in halting
    OBVIOUS
  <2>1. s \in lane.samples /\ s.position \in Int /\ s.speed \in Int
    BY DEF IsLane
  <2>2. s.speed < QueueHaltSpeed
    BY <2>1
  <2>. QED
    BY <2>1, <2>2, QueueAssumption
<1>5. IsFiniteSet(halting)
  BY FS_Subset DEF IsLane
<1>. HIDE DEF halting, queued
<1>6. Cardinality(queued) \in Nat /\ Cardinality(halting) \in Nat
          /\ Cardinality(queued) <= Cardinality(halting)
  BY <1>4, <1>5, FS_Subset, FS_CardinalityType
<1>. QED
  BY <1>2, <1>3, <1>6

\* The halted vehicles of a signal, as a sum over a function of its lanes.
LEMMA HaltedIsASum ==
    ASSUME NEW lanes, IsFiniteSet(lanes), \A l \in lanes : HaltingNumber(l) \in Int
    PROVE  \E sum : /\ SumsOf([l \in lanes |-> HaltingNumber(l)], lanes, sum)
                    /\ MapThenSumSet(HaltingNumber, lanes) = sum[lanes]
<1>. DEFINE counts == [l \in lanes |-> HaltingNumber(l)]
            Body(sum, s) == IF s = {} THEN 0
                            ELSE LET l == CHOOSE l \in s : TRUE
                                 IN HaltingNumber(l) + sum[s \ {l}]
            Term(sum, s) == IF s = {} THEN 0 ELSE counts[First(s)] + sum[s \ {First(s)}]
            Iterates(sum) == sum = [s \in SUBSET lanes |-> Body(sum, s)]
<1>1. \A l \in lanes : counts[l] = HaltingNumber(l) /\ counts[l] \in Int
  OBVIOUS
<1>2. MapThenSumSet(HaltingNumber, lanes) = (CHOOSE sum : Iterates(sum))[lanes]
  BY DEF MapThenSumSet, MapThenFoldSet
<1>. HIDE DEF counts
<1>3. ASSUME NEW sum PROVE Iterates(sum) <=> SumsOf(counts, lanes, sum)
  <2>1. \A s \in SUBSET lanes : Body(sum, s) = Term(sum, s)
    BY <1>1 DEF First
  <2>2. SumsOf(counts, lanes, sum) <=> sum = [s \in SUBSET lanes |-> Term(sum, s)]
    BY DEF SumsOf
  <2>. HIDE DEF Body, Term
  <2>3. [s \in SUBSET lanes |-> Body(sum, s)] = [s \in SUBSET lanes |-> Term(sum, s)]
    BY <2>1
  <2>. QED
    BY <2>2, <2>3
<1>4. \E sum : SumsOf(counts, lanes, sum)
  BY <1>1, SumsExist
<1>. HIDE DEF Iterates
<1>5. SumsOf(counts, lanes, CHOOSE sum : Iterates(sum))
  BY <1>3, <1>4
<1>. QED
  BY <1>2, <1>5 DEF counts

\* And its queue.
LEMMA QueueIsASum ==
    ASSUME NEW lanes, IsFiniteSet(lanes), \A l \in lanes : LaneQueue(l) \in Int
    PROVE  \E sum : /\ SumsOf([l \in lanes |-> LaneQueue(l)], lanes, sum)
                    /\ MapThenSumSet(LaneQueue, lanes) = sum[lanes]
<1>. DEFINE counts == [l \in lanes |-> LaneQueue(l)]
            Body(sum, s) == IF s = {} THEN 0
                            ELSE LET l == CHOOSE l \in s : TRUE
                                 IN LaneQueue(l) + sum[s \ {l}]
            Term(sum, s) == IF s = {} THEN 0 ELSE counts[First(s)] + sum[s \ {First(s)}]
            Iterates(sum) == sum = [s \in SUBSET lanes |-> Body(sum, s)]
<1>1. \A l \in lanes : counts[l] = LaneQueue(l) /\ counts[l] \in Int
  OBVIOUS
<1>2. MapThenSumSet(LaneQueue, lanes) = (CHOOSE sum : Iterates(sum))[lanes]
  BY DEF MapThenSumSet, MapThenFoldSet
<1>. HIDE DEF counts
<1>3. ASSUME NEW sum PROVE Iterates(sum) <=> SumsOf(counts, lanes, sum)
  <2>1. \A s \in SUBSET lanes : Body(sum, s) = Term(sum, s)
    BY <1>1 DEF First
  <2>2. SumsOf(counts, lanes, sum) <=> sum = [s \in SUBSET lanes |-> Term(sum, s)]
    BY DEF SumsOf
  <2>. HIDE DEF Body, Term
  <2>3. [s \in SUBSET lanes |-> Body(sum, s)] = [s \in SUBSET lanes |-> Term(sum, s)]
    BY <2>1
  <2>. QED
    BY <2>2, <2>3
<1>4. \E sum : SumsOf(counts, lanes, sum)
  BY <1>1, SumsExist
<1>. HIDE DEF Iterates
<1>5. SumsOf(counts, lanes, CHOOSE sum : Iterates(sum))
  BY <1>3, <1>4
<1>. QED
  BY <1>2, <1>5 DEF counts

-----------------------------------------------------------------------------
\* Unless the snapshot says it is degraded, no more vehicles queue than halt.
LEMMA QueueIsWithinHalted ==
    ASSUME NEW lanes, IsFiniteSet(lanes), \A lane \in lanes : IsLane(lane)
    PROVE  NetworkState(lanes).degraded
               \/ NetworkState(lanes).queue <= NetworkState(lanes).halted
<1>1. SUFFICES ASSUME \A lane \in lanes : ~Failed(lane)
               PROVE  MapThenSumSet(LaneQueue, lanes) <= MapThenSumSet(HaltingNumber, lanes)
  <2>. HIDE DEF Failed
  <2>1. /\ NetworkState(lanes).degraded = \E lane \in lanes : Failed(lane)
        /\ NetworkState(lanes).queue = MapThenSumSet(LaneQueue, lanes)
        /\ NetworkState(lanes).halted = MapThenSumSet(HaltingNumber, lanes)
    BY DEF NetworkState
  <2>. QED
    BY <2>1
<1>. DEFINE halts == [l \in lanes |-> HaltingNumber(l)]
            queues == [l \in lanes |-> LaneQueue(l)]
<1>2. \A l \in lanes : LaneQueue(l) \in Int /\ HaltingNumber(l) \in Int
                           /\ LaneQueue(l) <= HaltingNumber(l)
  BY <1>1, QueueHasHalted
<1>3. PICK halted : SumsOf(halts, lanes, halted)
                        /\ MapThenSumSet(HaltingNumber, lanes) = halted[lanes]
  BY <1>2, HaltedIsASum
<1>4. PICK queued : SumsOf(queues, lanes, queued)
                        /\ MapThenSumSet(LaneQueue, lanes) = queued[lanes]
  BY <1>2, QueueIsASum
<1>5. /\ \A l \in lanes : halts[l] \in Int
      /\ \A l \in lanes : queues[l] \in Int /\ queues[l] <= halts[l] + 0
      /\ \A l \in lanes : queues[l] <= halts[l] + (IF l = lanes THEN 0 ELSE 0)
  BY <1>2
<1>. HIDE DEF halts, queues
<1>6. queued[lanes] <= halted[lanes] + 0
  BY <1>3, <1>4, <1>5, SumGrowsBy
<1>7. halted \in [SUBSET lanes -> Int]
  BY <1>3, <1>5, SumsAreNumbers
<1>8. halted[lanes] \in Int
  BY <1>7
<1>. QED
  BY <1>3, <1>4, <1>6, <1>8

LEMMA InitSeen == Init => SeenInv
BY DEF Init, SeenInv, Observe

\* A pass reads anew, and nothing else touches what was read.
LEMMA SeenStep == SeenInv /\ [Next]_vars => SeenInv'
BY DEF SeenInv, Next, Tick, Pass, Handle, Decide, vars

\* What the road-side unit holds about the lanes, and the picture an on-board
\* unit acts on, were read from the simulation in this very pass.
THEOREM SeenIsRead == Spec => []SeenInv
BY InitSeen, SeenStep, PTL DEF Spec

\* What the engine is told of the queue is true: the delay it has to subtract
\* is the one the queue had added, and the vehicles counted have halted
\* (eta_queue_delay_included_s, queue_vehicle_count).
THEOREM QueueIsKnown == Spec => []QueueKnown
<1>1. SeenInv => QueueKnown
  <2>. SUFFICES ASSUME SeenInv PROVE QueueKnown
    OBVIOUS
  <2>1. QueueCountedOnce
    BY ObservationRead, IncludedIsTheQueue DEF SeenInv, QueueCountedOnce
  <2>2. QueueWithinHalted
    <3>. DEFINE lanes == LanesRead(look.controlled, look.approach)
    <3>1. IsFiniteSet(lanes) /\ \A lane \in lanes : IsLane(lane)
      BY LooksAssumption DEF SeenInv, LanesRead
    <3>. QED
      BY <3>1, QueueIsWithinHalted DEF QueueWithinHalted, Reading
  <2>. QED
    BY <2>1, <2>2 DEF QueueKnown
<1>. QED
  BY <1>1, SeenIsRead, PTL
-----------------------------------------------------------------------------
(* What the on-board unit says.                                             *)

States == [seq : 0 .. SequenceModulus - 1, id : 0 .. MaxRequestId,
           nextId : 1 .. MaxRequestId, idle : Int, signal : Intersections \cup {NoSignal}]

WellFormed(m) == m.vehicle = "vehicle" /\ m.age = 0 /\ m.id \in 1 .. MaxRequestId /\ ~Malformed(m)

\* A request is about the signal ahead and entitles the vehicle to ask.
Entitled(k, m) ==
    /\ m.signal \in Controlled
    /\ m.class = "emergency" <=> k.emergencyLike
    /\ m.role = (IF k.emergencyLike THEN "emergency" ELSE "public_transport")
    /\ EtaInWindow(m) /\ PriorityConditionMet(m)

\* The request the vehicle has open is about the signal it is in front of.
InFrontOf(id, s) ==
    obu.id = id /\ obu.signal = s /\ seen # NoObservation /\ SignalOf[seen.edge] = s

\* Messages of a pass: at most a cancellation and then a request.
WireShape ==
    \/ wire = <<>>
    \/ wire # <<>> /\ wire = <<wire[1]>>
    \/ Len(wire) = 2 /\ wire = <<wire[1], wire[2]>> /\ IsCancellation(wire[1])

Said ==
    \A i \in 1 .. Len(wire) :
        /\ WellFormed(wire[i])
        /\ ~IsCancellation(wire[i]) =>
               Entitled(kind, wire[i]) /\ InFrontOf(wire[i].id, wire[i].signal)

SaidInv == obu \in States /\ WireShape /\ Said /\ SenderAndGatewayAgree

Slots == [vehicle : {"vehicle"}, id : 1 .. MaxRequestId, left : Int]

UnitsType ==
    /\ DOMAIN rsu = Intersections
    /\ \A s \in Intersections : "slots" \in DOMAIN rsu[s] /\ rsu[s].slots \subseteq Slots

Cancelled(id, s) ==
    \E i \in 1 .. Len(wire) :
        IsCancellation(wire[i]) /\ wire[i].id = id /\ wire[i].signal = s

\* A slot is that of the open request, or its cancellation is on the way.
SlotsInv ==
    \A s \in Intersections : \A slot \in rsu[s].slots :
        InFrontOf(slot.id, s) \/ Cancelled(slot.id, s)
-----------------------------------------------------------------------------
LEMMA AppendIsPair ==
    ASSUME NEW a, NEW b PROVE Append(<<a>>, b) = <<a, b>> /\ Append(<<>>, b) = <<b>>
<1>1. <<a>> \in Seq({a, b}) /\ <<a, b>> \in Seq({a, b}) /\ Len(<<a, b>>) = 2
  OBVIOUS
<1>2. /\ Append(<<a>>, b) \in Seq({a, b}) /\ Len(Append(<<a>>, b)) = 2
      /\ Append(<<a>>, b)[1] = a /\ Append(<<a>>, b)[2] = b
  BY <1>1, AppendProperties
<1>. DEFINE s == Append(<<a>>, b)
            t == <<a, b>>
<1>3. /\ s \in Seq({a, b}) /\ t \in Seq({a, b}) /\ Len(s) = Len(t)
      /\ \A i \in 1 .. Len(s) : s[i] = t[i]
  BY <1>1, <1>2
<1>4. s = t
  <2>. HIDE DEF s, t
  <2>. QED
    BY <1>3, SeqEqual
<1>. QED
  BY <1>4

LEMMA OneMessage ==
    ASSUME NEW w, NEW a, w = <<a>>
    PROVE  Len(w) = 1 /\ w[1] = a /\ Head(w) = a /\ Tail(w) = <<>>
OBVIOUS

LEMMA TwoMessages ==
    ASSUME NEW w, NEW a, NEW b, w = <<a, b>>
    PROVE  Len(w) = 2 /\ w[1] = a /\ w[2] = b /\ Head(w) = a /\ Tail(w) = <<b>>
OBVIOUS

LEMMA NextSeqType == ASSUME NEW state \in States PROVE NextSeq(state) \in 0 .. SequenceModulus - 1
<1>1. ASSUME NEW n \in Nat, NEW m \in Nat \ {0} PROVE n % m \in 0 .. m - 1
  BY <1>1
<1>2. state.seq + 1 \in Nat /\ SequenceModulus \in Nat \ {0}
  BY UnitAssumption DEF States
<1>. QED
  BY <1>1, <1>2 DEF NextSeq

\* A cancellation is about the request the vehicle had open.
LEMMA FarewellSaid ==
    ASSUME NEW state \in States, state.id # 0
    PROVE  /\ WellFormed(CancellationFrom(state)) /\ IsCancellation(CancellationFrom(state))
           /\ CancellationFrom(state).id = state.id
           /\ CancellationFrom(state).signal = state.signal
<1>. DEFINE m == CancellationFrom(state)
<1>1. /\ m.vehicle = "vehicle" /\ m.age = 0 /\ m.id = state.id /\ m.signal = state.signal
      /\ m.seq = NextSeq(state) /\ m.kind = "cancellation"
      /\ m.eta = 0 /\ m.distance = 0 /\ m.included = 0
  BY DEF CancellationFrom
<1>. HIDE DEF m
<1>2. IsCancellation(m)
  BY <1>1 DEF IsCancellation
<1>3. m.id \in 1 .. MaxRequestId /\ m.id <= 255
  BY <1>1, UnitAssumption DEF States
<1>4. m.seq \in Int /\ 0 <= m.seq /\ m.seq <= 65535
  <2>1. m.seq \in 0 .. SequenceModulus - 1
    BY <1>1, NextSeqType
  <2>. QED
    BY <2>1, UnitAssumption
<1>5. ~Malformed(m)
  BY <1>1, <1>2, <1>3, <1>4 DEF Malformed
<1>. QED
  BY <1>1, <1>2, <1>3, <1>5 DEF WellFormed, m

\* A request is well-formed, entitled, and about the signal ahead; it keeps
\* the identifier of the one the vehicle has open there.
LEMMA RequestSaid ==
    ASSUME NEW state \in States, NEW i, NEW l \in Looks, NEW o, o = Observe(kind, i, l),
           Eligible(kind, o)
    PROVE  LET m == RequestFrom(kind, state, o)
           IN  /\ WellFormed(m) /\ ~IsCancellation(m) /\ Entitled(kind, m)
               /\ m.signal = SignalOf[o.edge] /\ m.signal \in Intersections
               /\ m.seq \in 0 .. SequenceModulus - 1
               /\ m.id = IF state.id # 0 /\ state.signal = SignalOf[o.edge] THEN state.id
                         ELSE state.nextId
               /\ m.kind \in {"request", "update"}
<1>. DEFINE m == RequestFrom(kind, state, o)
            signal == SignalOf[o.edge]
            same == state.id # 0 /\ state.signal = signal
<1>1. /\ m.vehicle = "vehicle" /\ m.age = 0 /\ m.id = (IF same THEN state.id ELSE state.nextId)
      /\ m.seq = NextSeq(state) /\ m.kind = (IF same THEN "update" ELSE "request")
      /\ m.signal = signal /\ m.edge = o.edge /\ m.class = PriorityClass(kind, o)
      /\ m.role = (IF kind.emergencyLike THEN "emergency" ELSE "public_transport")
      /\ m.eta = o.eta /\ m.distance = o.distance /\ m.included = o.included
      /\ m.delay = EffectiveDelay(o) /\ m.headway = o.adherence.headway
  BY DEF RequestFrom
<1>2. o # NoObservation
  BY DEF Eligible
<1>3. /\ o.edge \in DOMAIN SignalOf /\ o.eta \in Int /\ o.included \in Nat
      /\ o.distance \in Nat
  BY <1>2, ObservationRead, IncludedIsTheQueue, ReadingsType
<1>4. /\ signal \in Controlled /\ o.eta \in Window(kind.emergencyLike)
      /\ kind.emergencyLike \/ Delayed(o)
  BY DEF Eligible
<1>. HIDE DEF m
<1>5. signal \in Intersections
  BY <1>3 DEF Intersections
<1>. HIDE DEF signal
<1>6. ~IsCancellation(m)
  BY <1>1 DEF IsCancellation
<1>7. m.id \in 1 .. MaxRequestId /\ m.id <= 255
  BY <1>1, UnitAssumption DEF States
<1>8. m.seq \in 0 .. SequenceModulus - 1 /\ m.seq <= 65535
  <2>1. m.seq \in 0 .. SequenceModulus - 1
    BY <1>1, NextSeqType
  <2>. QED
    BY <2>1, UnitAssumption
<1>9. o.eta >= 0
  BY <1>3, <1>4, UnitAssumption DEF Window
<1>10. ~Malformed(m)
  BY <1>1, <1>3, <1>6, <1>7, <1>8, <1>9, UnitAssumption DEF Malformed
<1>11. m.class = "emergency" <=> kind.emergencyLike
  BY <1>1 DEF PriorityClass
<1>12. EtaInWindow(m)
  BY <1>1, <1>4, <1>11 DEF EtaInWindow, Window
<1>13. PriorityConditionMet(m)
  BY <1>1, <1>4, <1>11 DEF PriorityConditionMet, Delayed
<1>14. Entitled(kind, m)
  BY <1>1, <1>4, <1>11, <1>12, <1>13 DEF Entitled
<1>. QED
  BY <1>1, <1>5, <1>6, <1>7, <1>8, <1>10, <1>14 DEF WellFormed, m, signal, same

\* What generate_requests leaves of the state of the vehicle, and says.
LEMMA GenerateSaid ==
    ASSUME NEW state \in States, NEW i, NEW l \in Looks, NEW o, o = Observe(kind, i, l)
    PROVE  LET said == Generate(kind, state, o)
               cancels == MustCancel(kind, state, o)
               cleared == IF cancels THEN AfterCancellation(state) ELSE state
               request == RequestFrom(kind, cleared, o)
               farewell == CancellationFrom(state)
               asks == Eligible(kind, o) /\ ~Throttled(cleared, o)
           IN  /\ said.state \in States /\ cleared \in States
               /\ said.messages = IF cancels THEN IF asks THEN <<farewell, request>>
                                                  ELSE <<farewell>>
                                  ELSE IF asks THEN <<request>> ELSE <<>>
               /\ asks => said.state.id = request.id /\ said.state.signal = request.signal
               /\ ~cancels /\ state.id # 0 =>
                      said.state.id = state.id /\ said.state.signal = state.signal
<1>. DEFINE said == Generate(kind, state, o)
            cancels == MustCancel(kind, state, o)
            cleared == IF cancels THEN AfterCancellation(state) ELSE state
            request == RequestFrom(kind, cleared, o)
            asks == Eligible(kind, o) /\ ~Throttled(cleared, o)
            kept == AfterNoRequest(cleared, o, cancels)
<1>1. cleared \in States /\ (cancels => cleared.id = 0)
  <2>. DEFINE counted == [state EXCEPT !.seq = NextSeq(state)]
              closed == [counted EXCEPT !.id = 0]
              spoken == [closed EXCEPT !.idle = 0]
              left == [spoken EXCEPT !.signal = NoSignal]
  <2>1. counted \in States
    BY NextSeqType DEF States
  <2>. HIDE DEF counted
  <2>2. closed \in States /\ closed.id = 0
    BY <2>1, UnitAssumption DEF States
  <2>. HIDE DEF closed
  <2>3. spoken \in States /\ spoken.id = 0
    BY <2>2 DEF States
  <2>. HIDE DEF spoken
  <2>4. left \in States /\ left.id = 0
    BY <2>3 DEF States
  <2>5. AfterCancellation(state) = left
    BY DEF AfterCancellation, counted, closed, spoken
  <2>. QED
    BY <2>4, <2>5
<1>. HIDE DEF cleared, cancels
<1>2. ASSUME asks
      PROVE  /\ AfterRequest(cleared, request) \in States
             /\ AfterRequest(cleared, request).id = request.id
             /\ AfterRequest(cleared, request).signal = request.signal
             /\ cleared.id # 0 /\ cleared.signal = SignalOf[o.edge] =>
                    request.id = cleared.id /\ request.signal = cleared.signal
  <2>1. /\ request.signal \in Intersections /\ request.signal = SignalOf[o.edge]
        /\ request.seq \in 0 .. SequenceModulus - 1 /\ request.id \in 1 .. MaxRequestId
        /\ request.id = IF cleared.id # 0 /\ cleared.signal = SignalOf[o.edge] THEN cleared.id
                        ELSE cleared.nextId
    BY <1>1, <1>2, RequestSaid DEF WellFormed
  <2>2. ASSUME NEW n \in Nat, NEW m \in Nat \ {0} PROVE (n % m) + 1 \in 1 .. m
    BY <2>2
  <2>3. (cleared.nextId % MaxRequestId) + 1 \in 1 .. MaxRequestId
    BY <1>1, <2>2, UnitAssumption DEF States
  <2>. HIDE DEF request
  <2>. QED
    BY <1>1, <2>1, <2>3 DEF AfterRequest, States
<1>3. /\ kept \in States
      /\ ~cancels /\ cleared.id # 0 => kept.id = cleared.id /\ kept.signal = cleared.signal
  <2>1. FreshState \in States
    BY UnitAssumption DEF FreshState, States
  <2>2. [cleared EXCEPT !.idle = Lesser(@ + 1, Retention)] \in States
    BY <1>1, UnitAssumption DEF States, Lesser
  <2>. QED
    BY <1>1, <2>1, <2>2 DEF AfterNoRequest, States
<1>4. /\ said.state = IF asks THEN AfterRequest(cleared, request) ELSE kept
      /\ said.messages = IF cancels THEN IF asks THEN <<CancellationFrom(state), request>>
                                         ELSE <<CancellationFrom(state)>>
                         ELSE IF asks THEN <<request>> ELSE <<>>
  <2>. HIDE DEF request
  <2>1. Append(<<CancellationFrom(state)>>, request) = <<CancellationFrom(state), request>>
        /\ Append(<<>>, request) = <<request>>
    BY AppendIsPair
  <2>. QED
    BY <2>1 DEF Generate, cancels, cleared, request
<1>5. ~cancels => cleared = state
  BY DEF cleared
<1>6. ASSUME ~cancels, state.id # 0, asks PROVE state.signal = SignalOf[o.edge]
  BY <1>6 DEF cancels, MustCancel, Eligible
<1>7. ~cancels /\ state.id # 0 =>
          said.state.id = state.id /\ said.state.signal = state.signal
  BY <1>2, <1>3, <1>4, <1>5, <1>6
<1>. QED
  BY <1>1, <1>2, <1>3, <1>4, <1>7 DEF cancels, cleared
-----------------------------------------------------------------------------
\* The checks that need no memory repeat those of the sender.
LEMMA EvaluationRepeats ==
    ASSUME NEW m, WellFormed(m), IsCancellation(m) \/ Entitled(kind, m)
    PROVE  IF Authorized THEN Given(m) = Precheck(m) ELSE Given(m) # "processing"
<1>. DEFINE r == rsu[m.signal]
<1>1. ~Malformed(m) /\ m.age = 0
  BY DEF WellFormed
<1>2. Given(m) = IF Precheck(m) \in NotEvaluated THEN Precheck(m)
                 ELSE Evaluation(kind, r, m, m.signal)
  BY DEF Given
<1>3. CASE IsCancellation(m)
  <2>1. Precheck(m) = IF m.age >= CancellationTTL THEN "certificate_expired" ELSE "cancelled"
    BY <1>3 DEF Precheck, Verdict
  <2>2. Evaluation(kind, r, m, m.signal) =
            IF m.age >= CancellationTTL THEN "certificate_expired"
            ELSE IF ~SignerAuthorized(kind) THEN "signer_not_authorized" ELSE "cancelled"
    BY <1>1, <1>3 DEF Evaluation, CertificateExpired
  <2>. QED
    BY <1>2, <2>1, <2>2 DEF NotEvaluated, Authorized
<1>4. CASE ~IsCancellation(m)
  <2>1. Entitled(kind, m)
    BY <1>4
  <2>2. Precheck(m) \notin NotEvaluated =>
            Precheck(m) = IF m.age >= RequestTTL THEN "certificate_expired"
                          ELSE IF TooManyActive(r, m) THEN "limit_exceeded"
                          ELSE IF r.rested[m.vehicle] < Cooldown THEN "cooldown"
                          ELSE "processing"
    BY <1>4 DEF Precheck, Verdict, NotEvaluated
  <2>3. Precheck(m) \in NotEvaluated => Precheck(m) # "processing"
    BY DEF NotEvaluated
  <2>4. ~PastItsTTL(m) \/ m.age >= RequestTTL
    BY <1>1, UnitAssumption DEF PastItsTTL
  <2>5. ASSUME Authorized
        PROVE  Evaluation(kind, r, m, m.signal) =
                   IF m.age >= RequestTTL THEN "certificate_expired"
                   ELSE IF TooManyActive(r, m) THEN "limit_exceeded"
                   ELSE IF r.rested[m.vehicle] < Cooldown THEN "cooldown"
                   ELSE "processing"
    <3>1. /\ SignerAuthorized(kind) /\ (kind.emergencyLike => EmergencyAuthorized(kind))
          /\ CertificateExpired(m) <=> m.age >= RequestTTL
      BY <1>4, <2>5 DEF Authorized, CertificateExpired
    <3>2. /\ ~(m.class = "emergency" /\ ~EmergencyAuthorized(kind))
          /\ ~(m.class = "emergency" /\ m.role # "emergency")
          /\ m.signal \in Controlled /\ EtaInWindow(m) /\ PriorityConditionMet(m)
      BY <2>1, <3>1 DEF Entitled
    <3>. QED
      BY <1>1, <1>4, <2>4, <3>1, <3>2 DEF Evaluation
  <2>6. ASSUME ~Authorized PROVE Evaluation(kind, r, m, m.signal) # "processing"
    <3>1. ~SignerAuthorized(kind) \/ (m.class = "emergency" /\ ~EmergencyAuthorized(kind))
      BY <2>1, <2>6 DEF Authorized, Entitled
    <3>. QED
      BY <1>4, <3>1 DEF Evaluation
  <2>. HIDE DEF r
  <2>. QED
    BY <1>2, <2>2, <2>3, <2>5, <2>6
<1>. QED
  BY <1>3, <1>4

LEMMA InitSaid == Init => SaidInv
<1>. SUFFICES ASSUME Init PROVE SaidInv
  OBVIOUS
<1>1. obu \in States
  BY UnitAssumption DEF Init, FreshState, States
<1>2. WireShape /\ Said
  BY DEF Init, WireShape, Said
<1>3. SenderAndGatewayAgree
  BY DEF Init, SenderAndGatewayAgree, NoVerdict
<1>. QED
  BY <1>1, <1>2, <1>3 DEF SaidInv

LEMMA TickSaid ==
    ASSUME SaidInv, NEW i, NEW l \in Looks, Pass(i, l)
    PROVE  SaidInv'
<1>. DEFINE o == Observe(kind, i, l)
            said == Generate(kind, obu, o)
            cancels == MustCancel(kind, obu, o)
            cleared == IF cancels THEN AfterCancellation(obu) ELSE obu
            request == RequestFrom(kind, cleared, o)
            farewell == CancellationFrom(obu)
            asks == Eligible(kind, o) /\ ~Throttled(cleared, o)
<1>1. /\ seen' = o /\ obu' = said.state /\ wire' = said.messages
      /\ kind' = kind /\ verdict' = NoVerdict
  BY DEF Pass
<1>2. obu \in States
  BY DEF SaidInv
<1>3. /\ said.state \in States /\ cleared \in States
      /\ said.messages = IF cancels THEN IF asks THEN <<farewell, request>> ELSE <<farewell>>
                         ELSE IF asks THEN <<request>> ELSE <<>>
      /\ asks => said.state.id = request.id /\ said.state.signal = request.signal
  BY <1>2, GenerateSaid
<1>4. ASSUME cancels PROVE WellFormed(farewell) /\ IsCancellation(farewell)
  BY <1>2, <1>4, FarewellSaid DEF MustCancel
<1>5. ASSUME asks
      PROVE  /\ WellFormed(request) /\ ~IsCancellation(request) /\ Entitled(kind, request)
             /\ request.signal = SignalOf[o.edge] /\ o # NoObservation
  BY <1>3, <1>5, RequestSaid DEF Eligible
<1>. HIDE DEF o, said, cancels, request, farewell, asks
<1>6. obu' \in States
  BY <1>1, <1>3
<1>7. asks => /\ obu'.id = request.id /\ obu'.signal = request.signal
              /\ seen' # NoObservation /\ SignalOf[seen'.edge] = request.signal
  BY <1>1, <1>3, <1>5
<1>8. SenderAndGatewayAgree'
  BY <1>1 DEF SenderAndGatewayAgree, NoVerdict
<1>9. CASE cancels /\ asks
  <2>1. wire' = <<farewell, request>>
    BY <1>1, <1>3, <1>9
  <2>2. Len(wire') = 2 /\ wire'[1] = farewell /\ wire'[2] = request
    BY <2>1
  <2>3. WireShape'
    BY <1>4, <1>9, <2>1, <2>2 DEF WireShape
  <2>4. Said'
    BY <1>1, <1>4, <1>5, <1>7, <1>9, <2>2 DEF Said, InFrontOf
  <2>. QED
    BY <1>6, <1>8, <2>3, <2>4 DEF SaidInv
<1>10. CASE cancels /\ ~asks
  <2>1. wire' = <<farewell>>
    BY <1>1, <1>3, <1>10
  <2>. QED
    BY <1>1, <1>4, <1>6, <1>8, <1>10, <2>1 DEF SaidInv, WireShape, Said
<1>11. CASE ~cancels /\ asks
  <2>1. wire' = <<request>>
    BY <1>1, <1>3, <1>11
  <2>2. Len(wire') = 1 /\ wire'[1] = request
    BY <2>1
  <2>3. WireShape'
    BY <2>1, <2>2 DEF WireShape
  <2>4. Said'
    BY <1>1, <1>5, <1>7, <1>11, <2>2 DEF Said, InFrontOf
  <2>. QED
    BY <1>6, <1>8, <2>3, <2>4 DEF SaidInv
<1>12. CASE ~cancels /\ ~asks
  <2>1. wire' = <<>>
    BY <1>1, <1>3, <1>12
  <2>. QED
    BY <1>6, <1>8, <2>1 DEF SaidInv, WireShape, Said
<1>. QED
  BY <1>9, <1>10, <1>11, <1>12

LEMMA HandleSaid == ASSUME SaidInv, Handle PROVE SaidInv'
<1>1. /\ wire # <<>> /\ wire' = Tail(wire)
      /\ verdict' = [given |-> Given(Head(wire)), expected |-> Precheck(Head(wire))]
      /\ obu' = obu /\ kind' = kind /\ seen' = seen
  BY DEF Handle
<1>2. obu \in States /\ WireShape /\ Said
  BY DEF SaidInv
<1>3. \/ wire = <<wire[1]>>
      \/ wire = <<wire[1], wire[2]>>
  BY <1>1, <1>2 DEF WireShape
<1>4. /\ Head(wire) = wire[1] /\ 1 \in 1 .. Len(wire)
      /\ Tail(wire) = <<>> \/ (2 \in 1 .. Len(wire) /\ Tail(wire) = <<wire[2]>>)
  <2>1. CASE wire = <<wire[1]>>
    BY <2>1, OneMessage
  <2>2. CASE wire = <<wire[1], wire[2]>>
    BY <2>2, TwoMessages
  <2>. QED
    BY <1>3, <2>1, <2>2
<1>5. /\ WellFormed(wire[1])
      /\ IsCancellation(wire[1]) \/ Entitled(kind, wire[1])
  BY <1>2, <1>4 DEF Said
<1>6. SenderAndGatewayAgree'
  <2>1. Authorized' = Authorized
    BY <1>1 DEF Authorized, SignerAuthorized, EmergencyAuthorized
  <2>2. IF Authorized THEN Given(wire[1]) = Precheck(wire[1]) ELSE Given(wire[1]) # "processing"
    BY <1>5, EvaluationRepeats
  <2>. QED
    BY <1>1, <1>4, <2>1, <2>2 DEF SenderAndGatewayAgree
<1>7. CASE wire' = <<>>
  BY <1>1, <1>2, <1>6, <1>7 DEF SaidInv, WireShape, Said
<1>8. CASE 2 \in 1 .. Len(wire) /\ wire' = <<wire[2]>>
  <2>1. /\ WellFormed(wire[2])
        /\ ~IsCancellation(wire[2]) =>
               Entitled(kind, wire[2]) /\ InFrontOf(wire[2].id, wire[2].signal)
    BY <1>2, <1>8 DEF Said
  <2>2. Len(wire') = 1 /\ wire'[1] = wire[2] /\ wire' # <<>> /\ wire' = <<wire'[1]>>
    BY <1>8
  <2>3. Said'
    BY <1>1, <2>1, <2>2 DEF Said, InFrontOf
  <2>. QED
    BY <1>1, <1>2, <1>6, <2>2, <2>3 DEF SaidInv, WireShape
<1>. QED
  BY <1>1, <1>4, <1>7, <1>8

LEMMA SaidStep == SeenInv /\ SaidInv /\ [Next]_vars => SaidInv'
<1>. SUFFICES ASSUME SaidInv, [Next]_vars PROVE SaidInv'
  OBVIOUS
<1>1. CASE Tick
  BY <1>1, TickSaid DEF Tick
<1>2. CASE Handle
  BY <1>2, HandleSaid
<1>3. CASE Decide
  BY <1>3 DEF Decide, SaidInv, WireShape, Said, InFrontOf, SenderAndGatewayAgree, Authorized,
              SignerAuthorized, EmergencyAuthorized
<1>4. CASE UNCHANGED vars
  BY <1>4 DEF vars, SaidInv, WireShape, Said, InFrontOf, SenderAndGatewayAgree, Authorized,
              SignerAuthorized, EmergencyAuthorized
<1>. QED
  BY <1>1, <1>2, <1>3, <1>4 DEF Next

\* The wire holds at most a cancellation and then a request, each naming what
\* its sender is and has seen, and the gateway's answers agree with them.
THEOREM WhatIsSaid == Spec => []SaidInv
BY InitSeen, InitSaid, SeenStep, SaidStep, PTL DEF Spec

\* The gateway answers an authorised vehicle from its own memory alone: its
\* checks of structure, identity, arrival time and delay never contradict
\* what the on-board unit checked, and an unauthorised vehicle is never
\* served (_evaluate_request, _generate_request_or_update).
THEOREM GatewayAgreesWithSender == Spec => []SenderAndGatewayAgree
BY WhatIsSaid, PTL DEF SaidInv
-----------------------------------------------------------------------------
(* What the road-side units hold.                                           *)

\* A tick passes: slots only run out.
LEMMA PruneSlots ==
    ASSUME NEW r, r.slots \subseteq Slots
    PROVE  /\ "slots" \in DOMAIN Prune(r) /\ Prune(r).slots \subseteq Slots
           /\ \A q \in Prune(r).slots : \E t \in r.slots : q.id = t.id
<1>1. \A t \in Slots : /\ [t EXCEPT !.left = @ - 1] \in Slots
                       /\ [t EXCEPT !.left = @ - 1].id = t.id
  BY DEF Slots
<1>2. /\ "slots" \in DOMAIN Prune(r)
      /\ Prune(r).slots = {s \in {[t EXCEPT !.left = @ - 1] : t \in r.slots} : s.left > 0}
  BY DEF Prune
<1>. QED
  BY <1>1, <1>2

\* A message adds the slot of its request only when it is accepted, and a
\* cancellation takes that slot away.
LEMMA MessageSlots ==
    ASSUME NEW r, "slots" \in DOMAIN r, r.slots \subseteq Slots,
           NEW m, WellFormed(m), NEW v
    PROVE  /\ "slots" \in DOMAIN AfterMessage(r, m, v) /\ AfterMessage(r, m, v).slots \subseteq Slots
           /\ \A t \in AfterMessage(r, m, v).slots :
                  \/ v = "processing" /\ t.id = m.id
                  \/ t \in r.slots /\ (IsCancellation(m) /\ v \notin NotEvaluated => t.id # m.id)
<1>. DEFINE kept == Remember(r, m, v)
            others == {s \in kept.slots : ~SameRequest(s, m)}
            slot == [vehicle |-> m.vehicle, id |-> m.id, left |-> RequestTTL - m.age]
<1>1. "slots" \in DOMAIN kept /\ kept.slots = r.slots
  BY DEF Remember
<1>. HIDE DEF kept
<1>2. slot \in Slots /\ slot.id = m.id
  BY UnitAssumption DEF Slots, WellFormed
<1>. HIDE DEF slot
<1>3. \A t \in others : t \in r.slots /\ t.id # m.id
  BY <1>1 DEF SameRequest, Slots, WellFormed
<1>4. CASE v \in NotEvaluated
  BY <1>4 DEF AfterMessage
<1>5. CASE v \notin NotEvaluated /\ v = "processing"
  <2>1. AfterMessage(r, m, v) = [kept EXCEPT !.slots = others \cup {slot}]
    BY <1>5 DEF AfterMessage, Track, kept, slot
  <2>. HIDE DEF others
  <2>2. /\ AfterMessage(r, m, v).slots = others \cup {slot}
        /\ "slots" \in DOMAIN AfterMessage(r, m, v)
    BY <1>1, <2>1
  <2>. QED
    BY <1>2, <1>3, <1>5, <2>2
<1>6. CASE v \notin NotEvaluated /\ v # "processing" /\ IsCancellation(m)
  <2>1. AfterMessage(r, m, v) = [kept EXCEPT !.slots = others]
    BY <1>6 DEF AfterMessage, Track, kept
  <2>. HIDE DEF others
  <2>2. AfterMessage(r, m, v).slots = others /\ "slots" \in DOMAIN AfterMessage(r, m, v)
    BY <1>1, <2>1
  <2>. QED
    BY <1>3, <2>2
<1>7. CASE v \notin NotEvaluated /\ v # "processing" /\ ~IsCancellation(m)
  <2>1. AfterMessage(r, m, v) = kept
    BY <1>7 DEF AfterMessage, Track, kept
  <2>. QED
    BY <1>1, <1>7, <2>1
<1>. QED
  BY <1>4, <1>5, <1>6, <1>7

\* A cancellation is always looked at, and never accepted as a request.
LEMMA CancellationEvaluated ==
    ASSUME NEW m, IsCancellation(m)
    PROVE  Given(m) \notin NotEvaluated /\ Given(m) # "processing"
<1>1. Precheck(m) \in {"certificate_expired", "cancelled"}
  BY DEF Precheck, Verdict
<1>2. Evaluation(kind, rsu[m.signal], m, m.signal)
          \in {"malformed", "certificate_expired", "signer_not_authorized", "cancelled"}
  BY DEF Evaluation
<1>. QED
  BY <1>1, <1>2 DEF Given, NotEvaluated

UnitsInv == UnitsType /\ SlotsInv

LEMMA InitUnits == Init => UnitsInv
BY DEF Init, UnitsInv, UnitsType, SlotsInv, InitialUnit

\* A new pass: the vehicle is still in front of the signal its request is
\* about, or says goodbye to it.
LEMMA TickUnits ==
    ASSUME SaidInv, UnitsInv, NEW i, NEW l \in Looks, Pass(i, l)
    PROVE  UnitsInv'
<1>. DEFINE o == Observe(kind, i, l)
            said == Generate(kind, obu, o)
            cancels == MustCancel(kind, obu, o)
            cleared == IF cancels THEN AfterCancellation(obu) ELSE obu
            request == RequestFrom(kind, cleared, o)
            farewell == CancellationFrom(obu)
            asks == Eligible(kind, o) /\ ~Throttled(cleared, o)
<1>1. /\ wire = <<>> /\ seen' = o /\ obu' = said.state /\ wire' = said.messages
      /\ rsu' = [s \in Intersections |-> Prune(rsu[s])]
  BY DEF Pass, Between
<1>2. obu \in States
  BY DEF SaidInv
<1>3. /\ said.messages = IF cancels THEN IF asks THEN <<farewell, request>> ELSE <<farewell>>
                         ELSE IF asks THEN <<request>> ELSE <<>>
      /\ ~cancels /\ obu.id # 0 => said.state.id = obu.id /\ said.state.signal = obu.signal
  BY <1>2, GenerateSaid
<1>4. ASSUME cancels
      PROVE  IsCancellation(farewell) /\ farewell.id = obu.id /\ farewell.signal = obu.signal
  BY <1>2, <1>4, FarewellSaid DEF MustCancel
<1>5. ~cancels /\ obu.id # 0 => o # NoObservation /\ SignalOf[o.edge] = obu.signal
  BY DEF MustCancel
<1>. HIDE DEF o, said, cancels, request, farewell, asks
<1>6. ASSUME cancels PROVE 1 \in 1 .. Len(wire') /\ wire'[1] = farewell
  <2>1. wire' = <<farewell, request>> \/ wire' = <<farewell>>
    BY <1>1, <1>3, <1>6
  <2>2. (Len(wire') = 2 \/ Len(wire') = 1) /\ wire'[1] = farewell
    BY <2>1, OneMessage, TwoMessages
  <2>. QED
    BY <2>2
<1>7. UnitsType'
  <2>1. \A s \in Intersections :
            "slots" \in DOMAIN Prune(rsu[s]) /\ Prune(rsu[s]).slots \subseteq Slots
    BY PruneSlots DEF UnitsInv, UnitsType
  <2>. QED
    BY <1>1, <2>1 DEF UnitsType
<1>8. ASSUME NEW s \in Intersections, NEW q \in rsu'[s].slots
      PROVE  InFrontOf(q.id, s)' \/ Cancelled(q.id, s)'
  <2>1. rsu'[s] = Prune(rsu[s]) /\ rsu[s].slots \subseteq Slots
    BY <1>1 DEF UnitsInv, UnitsType
  <2>2. PICK t \in rsu[s].slots : q.id = t.id
    BY <2>1, PruneSlots
  <2>3. ~Cancelled(t.id, s)
    BY <1>1 DEF Cancelled
  <2>4. obu.id = q.id /\ obu.signal = s /\ obu.id # 0
    BY <2>1, <2>2, <2>3 DEF UnitsInv, SlotsInv, InFrontOf, Slots
  <2>5. CASE cancels
    BY <1>4, <1>6, <2>4, <2>5 DEF Cancelled
  <2>6. CASE ~cancels
    BY <1>1, <1>3, <1>5, <2>4, <2>6 DEF InFrontOf
  <2>. QED
    BY <2>5, <2>6
<1>. QED
  BY <1>7, <1>8 DEF UnitsInv, SlotsInv

LEMMA HandleUnits == ASSUME SaidInv, UnitsInv, Handle PROVE UnitsInv'
<1>. DEFINE m == wire[1]
            v == Given(m)
<1>1. /\ wire # <<>> /\ wire' = Tail(wire)
      /\ rsu' = [rsu EXCEPT ![Head(wire).signal] = AfterMessage(@, Head(wire), Given(Head(wire)))]
      /\ obu' = obu /\ seen' = seen
  BY DEF Handle
<1>2. /\ Head(wire) = m /\ 1 \in 1 .. Len(wire)
      /\ \A k \in 1 .. Len(wire) : k # 1 => k - 1 \in 1 .. Len(wire') /\ wire'[k - 1] = wire[k]
  <2>1. WireShape
    BY DEF SaidInv
  <2>2. CASE wire = <<wire[1]>>
    <3>1. Head(wire) = m /\ Len(wire) = 1
      BY <2>2, OneMessage
    <3>. QED
      BY <3>1
  <2>3. CASE wire = <<wire[1], wire[2]>>
    <3>1. Head(wire) = m /\ Len(wire) = 2 /\ wire' = <<wire[2]>>
      BY <1>1, <2>3, TwoMessages
    <3>2. Len(wire') = 1 /\ wire'[1] = wire[2]
      BY <3>1, OneMessage
    <3>. QED
      BY <3>1, <3>2
  <2>. QED
    BY <1>1, <2>1, <2>2, <2>3 DEF WireShape
<1>3. /\ WellFormed(m)
      /\ ~IsCancellation(m) => InFrontOf(m.id, m.signal)
  BY <1>2 DEF SaidInv, Said
<1>4. IsCancellation(m) => v \notin NotEvaluated /\ v # "processing"
  BY CancellationEvaluated
<1>. HIDE DEF v
<1>5. rsu' = [rsu EXCEPT ![m.signal] = AfterMessage(@, m, v)]
  BY <1>1, <1>2 DEF v
<1>. HIDE DEF m
<1>6. ASSUME NEW s \in Intersections
      PROVE  /\ "slots" \in DOMAIN rsu'[s] /\ rsu'[s].slots \subseteq Slots
             /\ \A t \in rsu'[s].slots :
                    \/ ~IsCancellation(m) /\ s = m.signal /\ t.id = m.id
                    \/ t \in rsu[s].slots
                           /\ (IsCancellation(m) /\ s = m.signal => t.id # m.id)
  <2>1. DOMAIN rsu = Intersections /\ "slots" \in DOMAIN rsu[s] /\ rsu[s].slots \subseteq Slots
    BY DEF UnitsInv, UnitsType
  <2>2. CASE s = m.signal
    <3>1. rsu'[s] = AfterMessage(rsu[s], m, v)
      BY <1>5, <2>1, <2>2
    <3>. QED
      BY <1>3, <1>4, <2>1, <2>2, <3>1, MessageSlots
  <2>3. CASE s # m.signal
    <3>1. rsu'[s] = rsu[s]
      BY <1>5, <2>1, <2>3
    <3>. QED
      BY <2>1, <2>3, <3>1
  <2>. QED
    BY <2>2, <2>3
<1>7. DOMAIN rsu' = Intersections
  BY <1>5 DEF UnitsInv, UnitsType
<1>8. ASSUME NEW s \in Intersections, NEW t \in rsu'[s].slots
      PROVE  InFrontOf(t.id, s)' \/ Cancelled(t.id, s)'
  <2>1. CASE InFrontOf(t.id, s)
    BY <1>1, <2>1 DEF InFrontOf
  <2>2. CASE ~InFrontOf(t.id, s)
    <3>1. t \in rsu[s].slots /\ (IsCancellation(m) /\ s = m.signal => t.id # m.id)
      BY <1>3, <1>6, <2>2
    <3>2. PICK k \in 1 .. Len(wire) :
              IsCancellation(wire[k]) /\ wire[k].id = t.id /\ wire[k].signal = s
      BY <2>2, <3>1 DEF UnitsInv, SlotsInv, Cancelled
    <3>3. k # 1
      BY <3>1, <3>2 DEF m
    <3>4. k - 1 \in 1 .. Len(wire') /\ wire'[k - 1] = wire[k]
      BY <1>2, <3>3
    <3>. QED
      BY <3>2, <3>4 DEF Cancelled
  <2>. QED
    BY <2>1, <2>2
<1>9. UnitsType'
  BY <1>6, <1>7 DEF UnitsType
<1>. QED
  BY <1>8, <1>9 DEF UnitsInv, SlotsInv

\* A grant takes slots away.
LEMMA DecideUnits == ASSUME UnitsInv, Decide PROVE UnitsInv'
<1>1. /\ wire' = wire /\ obu' = obu /\ seen' = seen
      /\ \/ rsu' = rsu
         \/ \E m : rsu' = [rsu EXCEPT ![m.signal] = PriorityGranted(@, m.vehicle)]
  BY DEF Decide
<1>2. /\ DOMAIN rsu' = Intersections
      /\ \A s \in Intersections : "slots" \in DOMAIN rsu'[s] /\ rsu'[s].slots \subseteq rsu[s].slots
  <2>1. CASE rsu' = rsu
    BY <2>1 DEF UnitsInv, UnitsType
  <2>2. ASSUME NEW m, rsu' = [rsu EXCEPT ![m.signal] = PriorityGranted(@, m.vehicle)]
        PROVE  /\ DOMAIN rsu' = Intersections
               /\ \A s \in Intersections :
                      "slots" \in DOMAIN rsu'[s] /\ rsu'[s].slots \subseteq rsu[s].slots
    <3>1. ASSUME NEW r, "slots" \in DOMAIN r
          PROVE  /\ "slots" \in DOMAIN PriorityGranted(r, m.vehicle)
                 /\ PriorityGranted(r, m.vehicle).slots \subseteq r.slots
      <4>. DEFINE rested == [r EXCEPT !.rested[m.vehicle] = 0]
      <4>1. "slots" \in DOMAIN rested /\ rested.slots = r.slots
        BY <3>1
      <4>2. PriorityGranted(r, m.vehicle) = [rested EXCEPT !.slots = {s \in @ : s.vehicle # m.vehicle}]
        BY DEF PriorityGranted
      <4>. HIDE DEF rested
      <4>. QED
        BY <4>1, <4>2
    <3>. QED
      BY <2>2, <3>1 DEF UnitsInv, UnitsType
  <2>. QED
    BY <1>1, <2>1, <2>2
<1>3. UnitsType'
  BY <1>2 DEF UnitsInv, UnitsType
<1>4. SlotsInv'
  BY <1>1, <1>2 DEF UnitsInv, SlotsInv, InFrontOf, Cancelled
<1>. QED
  BY <1>3, <1>4 DEF UnitsInv

LEMMA UnitsStep == SaidInv /\ UnitsInv /\ [Next]_vars => UnitsInv'
<1>. SUFFICES ASSUME SaidInv, UnitsInv, [Next]_vars PROVE UnitsInv'
  OBVIOUS
<1>1. CASE Tick
  BY <1>1, TickUnits DEF Tick
<1>2. CASE UNCHANGED vars
  BY <1>2 DEF vars, UnitsInv, UnitsType, SlotsInv, InFrontOf, Cancelled
<1>. QED
  BY <1>1, <1>2, HandleUnits, DecideUnits DEF Next

\* Between passes every slot of every road-side unit belongs to the open
\* request of the vehicle that is in front of its signal: whatever it does on
\* its way, no signal holds on to a vehicle that has passed, turned away,
\* stopped or been lost sight of (_should_cancel, _track_processing_request).
THEOREM SlotsFollowTheVehicle == Spec => []RequestFollowsTheVehicle
<1>1. UnitsInv => RequestFollowsTheVehicle
  BY DEF UnitsInv, SlotsInv, InFrontOf, Cancelled, RequestFollowsTheVehicle, Between
<1>. QED
  BY <1>1, InitSeen, InitSaid, InitUnits, SeenStep, SaidStep, UnitsStep, PTL DEF Spec
-----------------------------------------------------------------------------
(* What the audit makes of the log.                                         *)

Keys == [vehicle : {"vehicle"}, id : 1 .. MaxRequestId, seq : 0 .. SequenceModulus - 1]

Stages == {"created", "processing", "granted", "rejected", "cancelled"}

ChainRecords ==
    [state : Stages, asked : BOOLEAN, final : BOOLEAN, orphan : BOOLEAN,
     faults : SUBSET (Stages \X Stages)]

\* The key of a cancellation used again, by a request that is refused.
Reuse == {<<"cancelled", "rejected">>}

\* Every chain begins with what the vehicle has said.
Log(c) == \A k \in DOMAIN c : /\ k \in Keys /\ c[k] \in ChainRecords
                             /\ c[k].asked /\ ~c[k].orphan

OfOpenRequest(k) == obu.id # 0 /\ k.id = obu.id /\ k.seq <= obu.seq

Unanswered(k) ==
    \/ \E i \in 1 .. Len(wire) : Key(wire[i]) = k
    \/ \E i \in 1 .. Len(answers) : Key(answers[i]) = k

\* What is on its way has been logged, and of the requests there is only the
\* latest of the one the vehicle has open.
UnderWay ==
    /\ \A i \in 1 .. Len(wire) :
           /\ Key(wire[i]) \in DOMAIN chains
           /\ ~IsCancellation(wire[i]) => OfOpenRequest(Key(wire[i])) /\ answers = <<>>
    /\ \/ answers = <<>>
       \/ /\ answers # <<>> /\ answers = <<answers[1]>>
          /\ Key(answers[1]) \in DOMAIN chains /\ OfOpenRequest(Key(answers[1]))

Answered == \A k \in DOMAIN chains : chains[k].final \/ Unanswered(k)

\* A fault is of a message overtaken since, or of the request still open, for
\* the key it uses again; the cancellation of that request will overtake it.
FaultsPass ==
    SignerAuthorized(kind) =>
        \A k \in DOMAIN chains :
            \/ chains[k].faults = {} \/ Superseded(chains, k)
            \/ OfOpenRequest(k) /\ chains[k].faults \subseteq Reuse

\* Of a request that is over there is left the cancellation, and what that
\* has overtaken.
Over ==
    SignerAuthorized(kind) =>
        \A k \in DOMAIN chains :
            OfOpenRequest(k) \/ Superseded(chains, k) \/ chains[k].state = "cancelled"

\* So a request on its way has a key of its own, or that of a cancellation.
Fresh ==
    SignerAuthorized(kind) =>
        \A i \in 1 .. Len(wire) :
            \/ IsCancellation(wire[i])
            \/ Superseded(chains, Key(wire[i]))
            \/ chains[Key(wire[i])].state \in {"created", "cancelled"}

\* And one the decision still has to look at has been accepted.
Accepted ==
    answers # <<>> => wire = <<>> /\ chains[Key(answers[1])].state = "processing"

\* A vehicle has said two things for every request at most, and still owes
\* the cancellation of the one it has open.
Spoken ==
    /\ sent \in Nat /\ sent <= RequestCap
    /\ obu.seq + (IF obu.id = 0 THEN 0 ELSE 1) <= 2 * sent

LogInv ==
    Log(chains) /\ UnderWay /\ Answered /\ FaultsPass /\ Over /\ Fresh /\ Accepted /\ Spoken

\* A journey too short for sequence numbers to begin again.
ShortJourney == RequestCap \in Nat /\ 2 * RequestCap < SequenceModulus
-----------------------------------------------------------------------------
\* A step of the lifecycle to a cancellation or to PROCESSING is always
\* allowed, from a chain that is opened again if it was settled.
LEMMA ReopenedMoves ==
    ASSUME NEW c \in ChainRecords, NEW state \in {"cancelled", "processing"}
    PROVE  LET d == MovedTo(Reopened(c), state)
           IN  /\ d \in ChainRecords /\ d.asked = c.asked /\ d.orphan = c.orphan
               /\ d.final = c.final /\ d.faults = c.faults /\ d.state = state
<1>. DEFINE r == Reopened(c)
<1>1. /\ r \in ChainRecords /\ r.asked = c.asked /\ r.orphan = c.orphan
      /\ r.final = c.final /\ r.faults = c.faults
  BY DEF Reopened, ChainRecords, Stages
<1>2. r.state \in {"created", "processing"}
  BY DEF Reopened, ChainRecords, Stages, AllowedFrom
<1>. HIDE DEF r
<1>3. state = r.state \/ state \in AllowedFrom(r.state)
  BY <1>2 DEF AllowedFrom
<1>4. MovedTo(r, state) = [r EXCEPT !.state = state]
  BY <1>3 DEF MovedTo
<1>. QED
  BY <1>1, <1>4 DEF ChainRecords, Stages, r

\* To any other state it goes, or the fault is noted: none after PROCESSING,
\* and only one when a new request is refused, or one under a key that was
\* cancelled.
LEMMA SettledMoves ==
    ASSUME NEW c \in ChainRecords, NEW state \in {"granted", "rejected"}
    PROVE  LET d == MovedTo(c, state)
           IN  /\ d \in ChainRecords /\ d.asked = c.asked /\ d.orphan = c.orphan
               /\ d.final = c.final
               /\ c.state = "processing" => d.faults = c.faults
               /\ c.state \in {"created", "cancelled"} /\ state = "rejected"
                      => d.faults \subseteq c.faults \cup Reuse
<1>1. CASE state = c.state \/ state \in AllowedFrom(c.state)
  <2>1. MovedTo(c, state) = [c EXCEPT !.state = state]
    BY <1>1 DEF MovedTo
  <2>. QED
    BY <2>1 DEF ChainRecords, Stages
<1>2. CASE ~(state = c.state \/ state \in AllowedFrom(c.state))
  <2>1. MovedTo(c, state) = [c EXCEPT !.faults = @ \cup {<<c.state, state>>}]
    BY <1>2 DEF MovedTo
  <2>2. <<c.state, state>> \in Stages \X Stages
    BY DEF ChainRecords, Stages
  <2>3. c.state \in {"created", "cancelled"} /\ state = "rejected" => c.state = "cancelled"
    BY <1>2 DEF AllowedFrom
  <2>4. c.state # "processing"
    BY <1>2 DEF AllowedFrom
  <2>. QED
    BY <2>1, <2>2, <2>3, <2>4 DEF ChainRecords, Reuse
<1>. QED
  BY <1>1, <1>2

\* From c to d the log has grown by what the vehicle said: without a fault, and
\* only a cancellation moves a chain.
Grows(c, d) ==
    /\ Log(d)
    /\ \A k \in DOMAIN c :
           /\ d[k].faults = c[k].faults
           /\ c[k].final => d[k].final
           /\ d[k].state = c[k].state \/ d[k].state = "cancelled"
    /\ \A k \in DOMAIN d :
           k \notin DOMAIN c => d[k].faults = {} /\ d[k].state \in {"created", "cancelled"}

\* An SREM of the log opens the chain of its key.
LEMMA LogsSREM ==
    ASSUME NEW c, Log(c), NEW m, Key(m) \in Keys
    PROVE  LET d == ReplaySREM(c, m)
           IN  /\ Grows(c, d) /\ DOMAIN d = DOMAIN c \cup {Key(m)}
               /\ IsCancellation(m) => d[Key(m)].state = "cancelled"
<1>. DEFINE key == Key(m)
            found == ChainOf(c, key)
            asked == [found EXCEPT !.asked = TRUE]
            chain == IF IsCancellation(m) THEN MovedTo(Reopened(asked), "cancelled") ELSE asked
            d == WithChain(c, key, chain)
<1>1. /\ found \in ChainRecords /\ ~found.orphan
      /\ key \notin DOMAIN c => found.faults = {} /\ found.state = "created"
      /\ key \in DOMAIN c => found = c[key]
  BY DEF ChainOf, NewChain, ChainRecords, Stages, Log
<1>. HIDE DEF found
<1>2. /\ asked \in ChainRecords /\ asked.asked /\ ~asked.orphan
      /\ asked.faults = found.faults /\ asked.final = found.final /\ asked.state = found.state
  BY <1>1 DEF ChainRecords
<1>. HIDE DEF asked
<1>3. /\ chain \in ChainRecords /\ chain.asked /\ ~chain.orphan
      /\ chain.faults = found.faults /\ chain.final = found.final
      /\ chain.state = IF IsCancellation(m) THEN "cancelled" ELSE found.state
  BY <1>2, ReopenedMoves
<1>4. ReplaySREM(c, m) = d
  BY DEF ReplaySREM, chain, asked, found, key
<1>. HIDE DEF chain
<1>5. /\ DOMAIN d = DOMAIN c \cup {key} /\ d[key] = chain
      /\ \A j \in DOMAIN c : j # key => d[j] = c[j]
  <2>. HIDE DEF key
  <2>. QED
    BY DEF WithChain
<1>. HIDE DEF d
<1>6. ASSUME NEW k \in DOMAIN d
      PROVE  /\ k \in Keys /\ d[k] \in ChainRecords /\ d[k].asked /\ ~d[k].orphan
             /\ k \in DOMAIN c =>
                    /\ d[k].faults = c[k].faults
                    /\ c[k].final => d[k].final
                    /\ d[k].state = c[k].state \/ d[k].state = "cancelled"
             /\ k \notin DOMAIN c => d[k].faults = {} /\ d[k].state \in {"created", "cancelled"}
  <2>1. CASE k = key
    BY <1>1, <1>3, <1>5, <2>1
  <2>2. CASE k # key
    BY <1>5, <2>2 DEF Log
  <2>. QED
    BY <2>1, <2>2
<1>. HIDE DEF key
<1>7. Grows(c, d)
  BY <1>5, <1>6 DEF Log, Grows
<1>8. IsCancellation(m) => d[key].state = "cancelled"
  BY <1>3, <1>5
<1>. QED
  BY <1>4, <1>5, <1>7, <1>8 DEF key

\* What an SSEM says moves a chain from `was' to `is': for good unless it says
\* PROCESSING, and only one that rejects or grants can be a fault.
Answers(was, status, is) ==
    /\ was.final => is.final
    /\ status # "processing" => is.final
    /\ status \in {"processing", "cancelled"} => is.state = status /\ is.faults = was.faults
    /\ was.state = "processing" => is.faults = was.faults
    /\ was.state \in {"created", "cancelled"} /\ status = "rejected"
           => is.faults \subseteq was.faults \cup Reuse

\* An SSEM of the log answers the chain of its key.
LEMMA LogsSSEM ==
    ASSUME NEW c, Log(c), NEW m, Key(m) \in DOMAIN c,
           NEW status \in {"processing", "cancelled", "rejected", "granted"}
    PROVE  LET d == ReplaySSEM(c, m, status)
           IN  /\ Log(d) /\ DOMAIN d = DOMAIN c
               /\ \A k \in DOMAIN c : k # Key(m) => d[k] = c[k]
               /\ Answers(c[Key(m)], status, d[Key(m)])
<1>. DEFINE key == Key(m)
            found == [ChainOf(c, key) EXCEPT !.orphan = @ \/ key \notin DOMAIN c]
            closed == [found EXCEPT !.final = TRUE]
            chain == CASE status = "processing" -> MovedTo(Reopened(found), "processing")
                       [] status = "cancelled"  -> MovedTo(Reopened(closed), "cancelled")
                       [] OTHER                 -> MovedTo(closed, status)
            d == WithChain(c, key, chain)
<1>1. /\ key \in Keys /\ c[key] \in ChainRecords /\ c[key].asked /\ ~c[key].orphan
  BY DEF Log
<1>2. /\ found \in ChainRecords /\ found.asked /\ ~found.orphan
      /\ found.faults = c[key].faults /\ found.final = c[key].final
      /\ found.state = c[key].state
  BY <1>1 DEF ChainOf, ChainRecords
<1>. HIDE DEF found
<1>3. /\ closed \in ChainRecords /\ closed.asked /\ ~closed.orphan /\ closed.final
      /\ closed.faults = c[key].faults /\ closed.state = c[key].state
  BY <1>2 DEF ChainRecords
<1>. HIDE DEF closed
<1>4. /\ chain \in ChainRecords /\ chain.asked /\ ~chain.orphan
      /\ Answers(c[key], status, chain)
  <2>1. CASE status = "processing"
    <3>1. chain = MovedTo(Reopened(found), "processing")
      BY <2>1
    <3>. HIDE DEF chain
    <3>. QED
      BY <1>2, <2>1, <3>1, ReopenedMoves DEF Answers
  <2>2. CASE status = "cancelled"
    <3>1. chain = MovedTo(Reopened(closed), "cancelled")
      BY <2>2
    <3>. HIDE DEF chain
    <3>. QED
      BY <1>3, <2>2, <3>1, ReopenedMoves DEF Answers
  <2>3. CASE status \in {"rejected", "granted"}
    <3>1. chain = MovedTo(closed, status)
      BY <2>3
    <3>. HIDE DEF chain
    <3>. QED
      BY <1>3, <2>3, <3>1, SettledMoves DEF Answers
  <2>. QED
    BY <2>1, <2>2, <2>3
<1>5. ReplaySSEM(c, m, status) = d
  BY DEF ReplaySSEM, chain, closed, found, key
<1>. HIDE DEF chain
<1>6. /\ DOMAIN d = DOMAIN c \cup {key} /\ d[key] = chain
      /\ \A j \in DOMAIN c : j # key => d[j] = c[j]
  <2>. HIDE DEF key
  <2>. QED
    BY DEF WithChain
<1>. HIDE DEF d
<1>7. DOMAIN d = DOMAIN c
  BY <1>6
<1>8. ASSUME NEW k \in DOMAIN c
      PROVE  k \in Keys /\ d[k] \in ChainRecords /\ d[k].asked /\ ~d[k].orphan
  <2>1. CASE k = key
    BY <1>1, <1>4, <1>6, <2>1
  <2>2. CASE k # key
    BY <1>6, <2>2 DEF Log
  <2>. QED
    BY <2>1, <2>2
<1>9. Log(d)
  BY <1>7, <1>8 DEF Log
<1>. HIDE DEF key
<1>. QED
  BY <1>4, <1>5, <1>6, <1>7, <1>9 DEF key

\* What has been overtaken stays so.
LEMMA SupersededStays ==
    ASSUME NEW c, NEW d, DOMAIN c \subseteq DOMAIN d, Log(d), NEW k, Superseded(c, k)
    PROVE  Superseded(d, k)
BY DEF Superseded, Log
-----------------------------------------------------------------------------
LEMMA HighestOfTwo ==
    ASSUME NEW s \in SUBSET {1, 2}, s # {}
    PROVE  /\ Max(s) \in s
           /\ s = {1} \/ (s = {2}) \/ (s = {1, 2})
           /\ s = {1} => Max(s) = 1
           /\ s # {1} => Max(s) = 2
<1>. DEFINE Highest(x) == x \in s /\ \A y \in s : x >= y
<1>1. s = {1} \/ s = {2} \/ s = {1, 2}
  OBVIOUS
<1>2. \E x : Highest(x)
  BY <1>1
<1>3. Max(s) = CHOOSE x : Highest(x)
  BY DEF Max
<1>4. Highest(Max(s))
  <2>. HIDE DEF Highest
  <2>. QED
    BY <1>2, <1>3
<1>. QED
  BY <1>1, <1>4

\* The log after the one or two messages of a pass.
LEMMA LoggedIs ==
    ASSUME NEW ms, DOMAIN ms \subseteq {1, 2}
    PROVE  Logged(ms) =
               IF DOMAIN ms = {} THEN chains
               ELSE IF DOMAIN ms = {1} THEN ReplaySREM(chains, ms[1])
               ELSE IF DOMAIN ms = {2} THEN ReplaySREM(chains, ms[2])
               ELSE ReplaySREM(ReplaySREM(chains, ms[1]), ms[2])
<1>. DEFINE D == DOMAIN ms
            Value(s) == IF s = {} THEN chains
                        ELSE IF s = {1} THEN ReplaySREM(chains, ms[1])
                        ELSE IF s = {2} THEN ReplaySREM(chains, ms[2])
                        ELSE ReplaySREM(ReplaySREM(chains, ms[1]), ms[2])
            Body(f, s) == IF s = {} THEN chains
                          ELSE LET x == Max(s) IN ReplaySREM(f[s \ {x}], ms[x])
            Iterates(f) == f = [s \in SUBSET D |-> Body(f, s)]
            g == [s \in SUBSET D |-> Value(s)]
<1>1. Logged(ms) = (CHOOSE f : Iterates(f))[D]
  BY DEF Logged, FoldLeft, MapThenFoldSet
<1>. HIDE DEF D
<1>2. ASSUME NEW f, NEW s \in SUBSET D, \A t \in SUBSET D : t # s /\ t \subseteq s => f[t] = Value(t)
      PROVE  Body(f, s) = Value(s)
  <2>1. CASE s = {}
    BY <2>1
  <2>2. CASE s # {}
    <3>. DEFINE x == Max(s)
    <3>1. /\ x \in s /\ (s = {1} \/ s = {2} \/ s = {1, 2})
          /\ s = {1} => x = 1
          /\ s # {1} => x = 2
      BY <2>2, HighestOfTwo DEF D
    <3>. HIDE DEF x
    <3>2. f[s \ {x}] = Value(s \ {x})
      <4>. HIDE DEF Value
      <4>. QED
        BY <1>2, <3>1
    <3>3. Body(f, s) = ReplaySREM(Value(s \ {x}), ms[x])
      <4>. HIDE DEF Value
      <4>. QED
        BY <2>2, <3>2 DEF x
    <3>4. CASE s = {1}
      <4>1. x = 1 /\ s \ {x} = {}
        BY <3>1, <3>4
      <4>2. Value({}) = chains /\ Value({1}) = ReplaySREM(chains, ms[1])
        OBVIOUS
      <4>. HIDE DEF Value, Body
      <4>. QED
        BY <3>3, <3>4, <4>1, <4>2
    <3>5. CASE s = {2}
      <4>1. x = 2 /\ s \ {x} = {}
        BY <3>1, <3>5
      <4>2. Value({}) = chains /\ Value({2}) = ReplaySREM(chains, ms[2])
        OBVIOUS
      <4>. HIDE DEF Value, Body
      <4>. QED
        BY <3>3, <3>5, <4>1, <4>2
    <3>6. CASE s = {1, 2}
      <4>1. x = 2 /\ s \ {x} = {1}
        BY <3>1, <3>6
      <4>2. /\ Value({1}) = ReplaySREM(chains, ms[1])
            /\ Value({1, 2}) = ReplaySREM(ReplaySREM(chains, ms[1]), ms[2])
        OBVIOUS
      <4>. HIDE DEF Value, Body
      <4>. QED
        BY <3>3, <3>6, <4>1, <4>2
    <3>. QED
      BY <3>1, <3>4, <3>5, <3>6
  <2>. QED
    BY <2>1, <2>2
<1>3. Iterates(g)
  <2>1. \A s \in SUBSET D : g[s] = Value(s)
    OBVIOUS
  <2>. HIDE DEF Value, g
  <2>2. \A s \in SUBSET D : Body(g, s) = Value(s)
    BY <1>2, <2>1
  <2>. HIDE DEF Body
  <2>3. [s \in SUBSET D |-> Body(g, s)] = [s \in SUBSET D |-> Value(s)]
    BY <2>2
  <2>. QED
    BY <2>3 DEF g
<1>. DEFINE h == CHOOSE f : Iterates(f)
<1>4. Iterates(h)
  <2>. HIDE DEF Iterates, g
  <2>. QED
    BY <1>3
<1>5. h[{}] = Value({})
  <2>1. {} \in SUBSET D
    OBVIOUS
  <2>. HIDE DEF h
  <2>. QED
    BY <1>4, <2>1
<1>. HIDE DEF h
<1>6. \A s \in SUBSET D : h[s] = Body(h, s)
  <2>. HIDE DEF Body
  <2>. QED
    BY <1>4
<1>7. \A s \in SUBSET D : s = {1} \/ s = {2} => h[s] = Value(s)
  <2>. SUFFICES ASSUME NEW s \in SUBSET D, s = {1} \/ s = {2} PROVE h[s] = Value(s)
    OBVIOUS
  <2>1. \A t \in SUBSET D : t # s /\ t \subseteq s => t = {}
    OBVIOUS
  <2>. HIDE DEF Value, Body, Iterates
  <2>2. \A t \in SUBSET D : t # s /\ t \subseteq s => h[t] = Value(t)
    BY <1>5, <2>1
  <2>3. Body(h, s) = Value(s)
    BY <1>2, <2>2
  <2>. QED
    BY <1>6, <2>3
<1>8. h[D] = Value(D)
  <2>1. \A t \in SUBSET D : t # D => t = {} \/ t = {1} \/ t = {2}
    BY DEF D
  <2>. HIDE DEF Value, Body, Iterates
  <2>2. \A t \in SUBSET D : t # D /\ t \subseteq D => h[t] = Value(t)
    BY <1>5, <1>7, <2>1
  <2>3. D \in SUBSET D
    OBVIOUS
  <2>4. Body(h, D) = Value(D)
    BY <1>2, <2>2, <2>3
  <2>. QED
    BY <1>6, <2>3, <2>4
<1>. QED
  BY <1>1, <1>8 DEF D, h

\* What the messages of a pass add to the log: their chains, and no fault.
LEMMA LogsPass ==
    ASSUME Log(chains), NEW ms,
           \/ ms = <<>>
           \/ ms = <<ms[1]>> /\ Key(ms[1]) \in Keys
           \/ ms = <<ms[1], ms[2]>> /\ Key(ms[1]) \in Keys /\ Key(ms[2]) \in Keys
    PROVE  LET d == Logged(ms)
           IN  /\ Grows(chains, d)
               /\ DOMAIN d = DOMAIN chains \cup {Key(ms[i]) : i \in 1 .. Len(ms)}
               /\ \A i \in 1 .. Len(ms) :
                      IsCancellation(ms[i]) => d[Key(ms[i])].state = "cancelled"
<1>1. CASE ms = <<>>
  <2>1. DOMAIN ms = {} /\ Len(ms) = 0
    BY <1>1
  <2>2. Logged(ms) = chains
    BY <2>1, LoggedIs
  <2>3. {Key(ms[i]) : i \in 1 .. Len(ms)} = {}
    <3>1. 1 .. Len(ms) = {}
      BY <2>1
    <3>. QED
      BY <3>1, Zenon
  <2>4. DOMAIN chains \cup {Key(ms[i]) : i \in 1 .. Len(ms)} = DOMAIN chains
    BY <2>3
  <2>5. 1 .. Len(ms) = {}
    BY <2>1
  <2>. QED
    BY <2>2, <2>4, <2>5 DEF Grows
<1>2. CASE ms = <<ms[1]>> /\ Key(ms[1]) \in Keys
  <2>1. DOMAIN ms = {1} /\ Len(ms) = 1
    BY <1>2
  <2>2. Logged(ms) = ReplaySREM(chains, ms[1])
    BY <2>1, LoggedIs
  <2>3. {Key(ms[i]) : i \in 1 .. Len(ms)} = {Key(ms[1])}
    BY <2>1
  <2>4. \A i \in 1 .. Len(ms) : ms[i] = ms[1]
    BY <2>1
  <2>. DEFINE d == ReplaySREM(chains, ms[1])
  <2>5. /\ Grows(chains, d) /\ DOMAIN d = DOMAIN chains \cup {Key(ms[1])}
        /\ IsCancellation(ms[1]) => d[Key(ms[1])].state = "cancelled"
    BY <1>2, LogsSREM
  <2>. HIDE DEF d
  <2>. QED
    BY <2>2, <2>3, <2>4, <2>5 DEF d
<1>3. CASE ms = <<ms[1], ms[2]>> /\ Key(ms[1]) \in Keys /\ Key(ms[2]) \in Keys
  <2>. DEFINE c == ReplaySREM(chains, ms[1])
              d == ReplaySREM(c, ms[2])
  <2>1. DOMAIN ms = {1, 2} /\ Len(ms) = 2
    BY <1>3, TwoMessages
  <2>2. Logged(ms) = d
    <3>1. {1, 2} # {} /\ {1, 2} # {1} /\ {1, 2} # {2}
      OBVIOUS
    <3>. QED
      BY <2>1, <3>1, LoggedIs
  <2>3. {Key(ms[i]) : i \in 1 .. Len(ms)} = {Key(ms[1]), Key(ms[2])}
    BY <2>1
  <2>4. /\ Grows(chains, c) /\ DOMAIN c = DOMAIN chains \cup {Key(ms[1])}
        /\ IsCancellation(ms[1]) => c[Key(ms[1])].state = "cancelled"
    BY <1>3, LogsSREM
  <2>. HIDE DEF c
  <2>5. /\ Grows(c, d) /\ DOMAIN d = DOMAIN c \cup {Key(ms[2])}
        /\ IsCancellation(ms[2]) => d[Key(ms[2])].state = "cancelled"
    BY <1>3, <2>4, LogsSREM DEF Grows
  <2>. HIDE DEF d
  <2>6. Grows(chains, d)
    BY <2>4, <2>5 DEF Grows
  <2>7. \A i \in 1 .. Len(ms) : IsCancellation(ms[i]) => d[Key(ms[i])].state = "cancelled"
    BY <2>1, <2>4, <2>5 DEF Grows
  <2>. QED
    BY <2>2, <2>3, <2>4, <2>5, <2>6, <2>7
<1>. QED
  BY <1>1, <1>2, <1>3

\* Sequence numbers, as long as they do not begin again.
LEMMA NextSeqIs ==
    ASSUME NEW state \in States, state.seq + 1 < SequenceModulus
    PROVE  NextSeq(state) = state.seq + 1
<1>1. ASSUME NEW n \in Nat, NEW w \in Nat, n < w PROVE n % w = n
  BY <1>1
<1>2. state.seq + 1 \in Nat /\ SequenceModulus \in Nat
  BY UnitAssumption DEF States
<1>. QED
  BY <1>1, <1>2 DEF NextSeq

\* How a pass moves the sequence number, and what is said with which key.
LEMMA GenerateCounts ==
    ASSUME NEW state \in States, NEW i, NEW l \in Looks, NEW o, o = Observe(kind, i, l)
    PROVE  LET said == Generate(kind, state, o)
               cancels == MustCancel(kind, state, o)
               cleared == IF cancels THEN AfterCancellation(state) ELSE state
               request == RequestFrom(kind, cleared, o)
               farewell == CancellationFrom(state)
               asks == Eligible(kind, o) /\ ~Throttled(cleared, o)
           IN  /\ cancels => /\ cleared.id = 0 /\ cleared.seq = NextSeq(state)
                             /\ Key(farewell) \in Keys /\ IsCancellation(farewell)
                             /\ farewell.id = state.id /\ farewell.seq = NextSeq(state)
                             /\ state.id # 0
               /\ asks => /\ Key(request) \in Keys /\ ~IsCancellation(request)
                          /\ request.id = said.state.id /\ request.id # 0
                          /\ request.seq = said.state.seq /\ request.seq = NextSeq(cleared)
               /\ ~asks => /\ said.state.id = cleared.id
                           /\ \/ said.state.seq = cleared.seq
                              \/ cleared.id = 0 /\ said.state.seq = 0
<1>. DEFINE said == Generate(kind, state, o)
            cancels == MustCancel(kind, state, o)
            cleared == IF cancels THEN AfterCancellation(state) ELSE state
            request == RequestFrom(kind, cleared, o)
            farewell == CancellationFrom(state)
            asks == Eligible(kind, o) /\ ~Throttled(cleared, o)
            kept == AfterNoRequest(cleared, o, cancels)
<1>1. said.state = IF asks THEN AfterRequest(cleared, request) ELSE kept
  BY DEF Generate
<1>2. ASSUME cancels
      PROVE  /\ cleared.id = 0 /\ cleared.seq = NextSeq(state)
             /\ Key(farewell) \in Keys /\ IsCancellation(farewell)
             /\ farewell.id = state.id /\ farewell.seq = NextSeq(state)
             /\ state.id # 0
  <2>1. state.id # 0
    BY <1>2 DEF MustCancel
  <2>2. WellFormed(farewell) /\ IsCancellation(farewell) /\ farewell.id = state.id
    BY <2>1, FarewellSaid
  <2>3. farewell.seq = NextSeq(state) /\ farewell.seq \in 0 .. SequenceModulus - 1
    BY NextSeqType DEF CancellationFrom
  <2>4. AfterCancellation(state).id = 0 /\ AfterCancellation(state).seq = NextSeq(state)
    BY DEF AfterCancellation, States
  <2>. HIDE DEF farewell
  <2>. QED
    BY <1>2, <2>1, <2>2, <2>3, <2>4 DEF Key, Keys, WellFormed
<1>3. cleared \in States
  BY GenerateSaid
<1>. HIDE DEF cancels, cleared
<1>4. ASSUME asks
      PROVE  /\ Key(request) \in Keys /\ ~IsCancellation(request)
             /\ request.id = said.state.id /\ request.id # 0
             /\ request.seq = said.state.seq /\ request.seq = NextSeq(cleared)
  <2>1. /\ WellFormed(request) /\ ~IsCancellation(request)
        /\ request.seq \in 0 .. SequenceModulus - 1
    BY <1>3, <1>4, RequestSaid
  <2>2. request.seq = NextSeq(cleared)
    BY DEF RequestFrom
  <2>. HIDE DEF request
  <2>3. said.state.id = request.id /\ said.state.seq = request.seq
    BY <1>1, <1>4 DEF AfterRequest
  <2>. QED
    BY <2>1, <2>2, <2>3 DEF Key, Keys, WellFormed
<1>5. ASSUME ~asks
      PROVE  /\ said.state.id = cleared.id
             /\ said.state.seq = cleared.seq \/ (cleared.id = 0 /\ said.state.seq = 0)
  BY <1>1, <1>3, <1>5 DEF AfterNoRequest, FreshState, States
<1>. QED
  BY <1>2, <1>4, <1>5 DEF cancels, cleared
-----------------------------------------------------------------------------
LEMMA InitLog == ASSUME ShortJourney, Init PROVE LogInv
<1>1. /\ chains = <<>> /\ wire = <<>> /\ answers = <<>> /\ sent = 0
      /\ obu.seq = 0 /\ obu.id = 0
  BY DEF Init, FreshState
<1>2. DOMAIN chains = {} /\ Len(wire) = 0
  BY <1>1
<1>3. Log(chains) /\ Answered /\ FaultsPass /\ Over /\ Fresh /\ Accepted
  BY <1>1, <1>2 DEF Log, Answered, FaultsPass, Over, Fresh, Accepted
<1>4. UnderWay
  BY <1>1, <1>2 DEF UnderWay
<1>5. Spoken
  BY <1>1 DEF Spoken, ShortJourney
<1>. QED
  BY <1>3, <1>4, <1>5 DEF LogInv

\* A pass logs what the vehicle says: a cancellation overtakes whatever was
\* said about its request before.
LEMMA TickLog ==
    ASSUME ShortJourney, SaidInv, LogInv, NEW i, NEW l \in Looks, Pass(i, l)
    PROVE  LogInv'
<1>. DEFINE o == Observe(kind, i, l)
            said == Generate(kind, obu, o)
            cancels == MustCancel(kind, obu, o)
            cleared == IF cancels THEN AfterCancellation(obu) ELSE obu
            request == RequestFrom(kind, cleared, o)
            farewell == CancellationFrom(obu)
            asks == Eligible(kind, o) /\ ~Throttled(cleared, o)
            requests == {j \in DOMAIN wire' : ~IsCancellation(wire'[j])}
<1>1. /\ wire = <<>> /\ answers = <<>> /\ answers' = answers /\ kind' = kind
      /\ obu' = said.state /\ wire' = said.messages /\ chains' = Logged(said.messages)
      /\ sent' <= RequestCap
  BY DEF Pass, Between
<1>2. sent' = sent + Cardinality(requests)
  BY DEF Pass
<1>3. obu \in States
  BY DEF SaidInv
<1>4. /\ said.messages = IF cancels THEN IF asks THEN <<farewell, request>> ELSE <<farewell>>
                         ELSE IF asks THEN <<request>> ELSE <<>>
      /\ said.state \in States /\ cleared \in States
      /\ ~cancels /\ obu.id # 0 => said.state.id = obu.id
  BY <1>3, GenerateSaid
<1>5. /\ cancels => /\ cleared.id = 0 /\ cleared.seq = NextSeq(obu)
                    /\ Key(farewell) \in Keys /\ IsCancellation(farewell)
                    /\ farewell.id = obu.id /\ farewell.seq = NextSeq(obu) /\ obu.id # 0
      /\ asks => /\ Key(request) \in Keys /\ ~IsCancellation(request)
                 /\ request.id = said.state.id /\ request.id # 0
                 /\ request.seq = said.state.seq /\ request.seq = NextSeq(cleared)
      /\ ~asks => /\ said.state.id = cleared.id
                  /\ said.state.seq = cleared.seq \/ (cleared.id = 0 /\ said.state.seq = 0)
  BY <1>3, GenerateCounts
<1>6. ~cancels => cleared = obu
  OBVIOUS
<1>. HIDE DEF o, said, cancels, cleared, request, farewell, asks
<1>7. /\ Log(chains) /\ Answered /\ FaultsPass /\ Over /\ Spoken
      /\ sent \in Nat /\ RequestCap \in Nat /\ 2 * RequestCap < SequenceModulus
      /\ obu.seq \in Nat /\ obu.id \in Nat /\ obu'.seq \in Nat /\ obu'.id \in Nat
      /\ cleared.seq \in Nat /\ cleared.id \in Nat
      /\ SequenceModulus \in Nat
  <2>1. /\ SequenceModulus \in Nat /\ MaxRequestId \in Nat
        /\ \A state \in States : state.seq \in Nat /\ state.id \in Nat
    BY UnitAssumption DEF States
  <2>2. obu' \in States
    BY <1>1, <1>4
  <2>. HIDE DEF ShortJourney
  <2>3. RequestCap \in Nat /\ 2 * RequestCap < SequenceModulus
    BY DEF ShortJourney
  <2>4. Log(chains) /\ Answered /\ FaultsPass /\ Over /\ Spoken /\ sent \in Nat
    BY DEF LogInv, Spoken
  <2>. QED
    BY <1>3, <1>4, <2>1, <2>2, <2>3, <2>4
<1>8. Cardinality(requests) = IF asks THEN 1 ELSE 0
  <2>1. ASSUME asks PROVE \E j : requests = {j}
    <3>1. CASE cancels
      <4>1. wire' = <<farewell, request>>
        BY <1>1, <1>4, <2>1, <3>1
      <4>2. DOMAIN wire' = {1, 2} /\ wire'[1] = farewell /\ wire'[2] = request
        BY <4>1
      <4>3. requests = {2}
        BY <1>5, <2>1, <3>1, <4>2
      <4>. QED
        BY <4>3
    <3>2. CASE ~cancels
      <4>1. wire' = <<request>>
        BY <1>1, <1>4, <2>1, <3>2
      <4>2. DOMAIN wire' = {1} /\ wire'[1] = request
        BY <4>1
      <4>3. requests = {1}
        BY <1>5, <2>1, <3>2, <4>2
      <4>. QED
        BY <4>3
    <3>. QED
      BY <3>1, <3>2
  <2>2. ASSUME ~asks PROVE requests = {}
    <3>1. (wire' = <<farewell>> /\ cancels) \/ wire' = <<>>
      BY <1>1, <1>4, <2>2
    <3>2. \A j \in DOMAIN wire' : IsCancellation(wire'[j])
      BY <1>5, <3>1
    <3>. QED
      BY <3>2
  <2>. QED
    BY <2>1, <2>2, FS_EmptySet, FS_Singleton
<1>9. sent' = sent + (IF asks THEN 1 ELSE 0)
  BY <1>2, <1>8
<1>10. cancels => NextSeq(obu) = obu.seq + 1
  <2>1. cancels => obu.seq + 1 < SequenceModulus
    BY <1>5, <1>7 DEF Spoken
  <2>. QED
    BY <1>3, <2>1, NextSeqIs
<1>11. /\ cleared.seq + (IF cleared.id = 0 THEN 0 ELSE 1) <= 2 * sent
       /\ ~cancels => cleared.seq = obu.seq /\ cleared.id = obu.id
  BY <1>5, <1>6, <1>7, <1>10 DEF Spoken
<1>12. asks => NextSeq(cleared) = cleared.seq + 1
  <2>1. asks => cleared.seq + 1 < SequenceModulus
    BY <1>1, <1>7, <1>9, <1>11
  <2>. QED
    BY <1>4, <2>1, NextSeqIs
<1>13. Spoken'
  <2>1. CASE asks
    BY <1>1, <1>5, <1>7, <1>9, <1>11, <1>12, <2>1 DEF Spoken
  <2>2. CASE ~asks
    BY <1>1, <1>5, <1>7, <1>9, <1>11, <2>2 DEF Spoken
  <2>. QED
    BY <2>1, <2>2
<1>14. /\ Log(chains')
       /\ DOMAIN chains' = DOMAIN chains \cup {Key(wire'[j]) : j \in 1 .. Len(wire')}
       /\ \A k \in DOMAIN chains :
              /\ chains'[k].faults = chains[k].faults
              /\ chains[k].final => chains'[k].final
              /\ chains'[k].state = chains[k].state \/ chains'[k].state = "cancelled"
       /\ \A k \in DOMAIN chains' :
              k \notin DOMAIN chains =>
                  chains'[k].faults = {} /\ chains'[k].state \in {"created", "cancelled"}
       /\ \A j \in 1 .. Len(wire') :
              IsCancellation(wire'[j]) => chains'[Key(wire'[j])].state = "cancelled"
  <2>1. \/ wire' = <<>>
        \/ wire' = <<wire'[1]>> /\ Key(wire'[1]) \in Keys
        \/ wire' = <<wire'[1], wire'[2]>> /\ Key(wire'[1]) \in Keys /\ Key(wire'[2]) \in Keys
    <3>1. CASE cancels /\ asks
      <4>1. wire' = <<farewell, request>>
        BY <1>1, <1>4, <3>1
      <4>2. wire'[1] = farewell /\ wire'[2] = request
        BY <4>1
      <4>. QED
        BY <1>5, <3>1, <4>1, <4>2
    <3>2. CASE cancels /\ ~asks
      <4>1. wire' = <<farewell>>
        BY <1>1, <1>4, <3>2
      <4>2. wire'[1] = farewell
        BY <4>1
      <4>. QED
        BY <1>5, <3>2, <4>1, <4>2
    <3>3. CASE ~cancels /\ asks
      <4>1. wire' = <<request>>
        BY <1>1, <1>4, <3>3
      <4>2. wire'[1] = request
        BY <4>1
      <4>. QED
        BY <1>5, <3>3, <4>1, <4>2
    <3>4. CASE ~cancels /\ ~asks
      BY <1>1, <1>4, <3>4
    <3>. QED
      BY <3>1, <3>2, <3>3, <3>4
  <2>2. chains' = Logged(wire')
    BY <1>1
  <2>3. /\ Grows(chains, chains')
        /\ DOMAIN chains' = DOMAIN chains \cup {Key(wire'[j]) : j \in 1 .. Len(wire')}
        /\ \A j \in 1 .. Len(wire') :
               IsCancellation(wire'[j]) => chains'[Key(wire'[j])].state = "cancelled"
    BY <1>7, <2>1, <2>2, LogsPass
  <2>. QED
    BY <2>3 DEF Grows
<1>15. \A j \in 1 .. Len(wire') : ~IsCancellation(wire'[j]) => asks /\ wire'[j] = request
  <2>1. CASE cancels /\ asks
    <3>1. Len(wire') = 2 /\ wire'[1] = farewell /\ wire'[2] = request
      BY <1>1, <1>4, <2>1, TwoMessages
    <3>. QED
      BY <1>5, <2>1, <3>1
  <2>2. CASE cancels /\ ~asks
    <3>1. Len(wire') = 1 /\ wire'[1] = farewell
      BY <1>1, <1>4, <2>2, OneMessage
    <3>. QED
      BY <1>5, <2>2, <3>1
  <2>3. CASE ~cancels /\ asks
    <3>1. Len(wire') = 1 /\ wire'[1] = request
      BY <1>1, <1>4, <2>3, OneMessage
    <3>. QED
      BY <2>3, <3>1
  <2>4. CASE ~cancels /\ ~asks
    <3>1. Len(wire') = 0
      BY <1>1, <1>4, <2>4
    <3>. QED
      BY <3>1
  <2>. QED
    BY <2>1, <2>2, <2>3, <2>4
<1>16. UnderWay'
  <2>1. \A j \in 1 .. Len(wire') : Key(wire'[j]) \in DOMAIN chains'
    BY <1>14
  <2>2. asks => obu'.id # 0 /\ request.id = obu'.id /\ request.seq <= obu'.seq
    BY <1>1, <1>5, <1>7
  <2>3. ASSUME NEW j \in 1 .. Len(wire'), ~IsCancellation(wire'[j])
        PROVE  OfOpenRequest(Key(wire[j]))'
    <3>1. obu'.id # 0 /\ wire'[j].id = obu'.id /\ wire'[j].seq <= obu'.seq
      BY <1>15, <2>2, <2>3
    <3>. QED
      BY <3>1 DEF OfOpenRequest, Key
  <2>. QED
    BY <1>1, <2>1, <2>3 DEF UnderWay
<1>17. Answered'
  <2>. SUFFICES ASSUME NEW k \in DOMAIN chains' PROVE chains'[k].final \/ Unanswered(k)'
    BY DEF Answered
  <2>1. CASE k \in DOMAIN chains
    <3>1. ~Unanswered(k)
      BY <1>1 DEF Unanswered
    <3>. QED
      BY <1>7, <1>14, <2>1, <3>1 DEF Answered
  <2>2. CASE k \notin DOMAIN chains
    BY <1>14, <2>2 DEF Unanswered
  <2>. QED
    BY <2>1, <2>2
<1>18. \A k : Superseded(chains, k) => Superseded(chains', k)
  BY <1>14, SupersededStays
\* What was said of the request open until now is of the one open still, or
\* has been overtaken by its cancellation.
<1>19. ASSUME NEW k \in DOMAIN chains, OfOpenRequest(k)
       PROVE  Superseded(chains', k) \/ OfOpenRequest(k)'
  <2>2. k \in Keys
    BY <1>7 DEF Log
  <2>4. CASE cancels
    <3>. DEFINE j == Key(farewell)
    <3>1. \E n \in 1 .. Len(wire') : wire'[n] = farewell
      <4>1. CASE asks
        <5>1. Len(wire') = 2 /\ wire'[1] = farewell
          BY <1>1, <1>4, <2>4, <4>1, TwoMessages
        <5>. QED
          BY <5>1
      <4>2. CASE ~asks
        <5>1. Len(wire') = 1 /\ wire'[1] = farewell
          BY <1>1, <1>4, <2>4, <4>2, OneMessage
        <5>. QED
          BY <5>1
      <4>. QED
        BY <4>1, <4>2
    <3>2. j \in DOMAIN chains' /\ j \in Keys
      BY <1>5, <1>14, <2>4, <3>1
    <3>3. chains'[j].asked
      BY <1>14, <3>2 DEF Log
    <3>4. j.id = obu.id /\ j.seq = obu.seq + 1
      BY <1>5, <1>10, <2>4 DEF Key
    <3>. HIDE DEF j
    <3>5. SameRequest(j, k) /\ j.seq > k.seq
      BY <1>7, <1>19, <2>2, <3>2, <3>4 DEF SameRequest, OfOpenRequest, Keys
    <3>. QED
      BY <3>2, <3>3, <3>5 DEF Superseded
  <2>5. CASE ~cancels
    <3>1. obu'.id = obu.id /\ obu.id # 0
      BY <1>1, <1>4, <1>19, <2>5 DEF OfOpenRequest
    <3>2. obu'.seq >= obu.seq
      BY <1>1, <1>5, <1>7, <1>11, <1>12, <2>5, <3>1
    <3>. QED
      BY <1>7, <1>19, <2>2, <3>1, <3>2 DEF OfOpenRequest, Keys
  <2>. QED
    BY <2>4, <2>5
<1>20. FaultsPass'
  <2>. SUFFICES ASSUME SignerAuthorized(kind), NEW k \in DOMAIN chains', chains'[k].faults # {}
                PROVE  \/ Superseded(chains', k)
                       \/ OfOpenRequest(k)' /\ chains'[k].faults \subseteq Reuse
    BY <1>1 DEF FaultsPass
  <2>1. k \in DOMAIN chains /\ chains'[k].faults = chains[k].faults
    BY <1>14
  <2>2. Superseded(chains, k) \/ (OfOpenRequest(k) /\ chains[k].faults \subseteq Reuse)
    BY <1>7, <2>1 DEF FaultsPass
  <2>. QED
    BY <1>18, <1>19, <2>1, <2>2
<1>21. asks => ~OfOpenRequest(Key(request))
  <2>1. asks => request.seq = cleared.seq + 1 /\ cleared.seq >= obu.seq
    BY <1>5, <1>7, <1>10, <1>11, <1>12
  <2>2. asks => ~(request.seq <= obu.seq)
    BY <1>7, <2>1
  <2>. QED
    BY <2>2 DEF OfOpenRequest, Key
<1>22. asks => obu'.id # 0 /\ request.id = obu'.id /\ request.seq <= obu'.seq
  BY <1>1, <1>5, <1>7
<1>23. Over'
  <2>. SUFFICES ASSUME SignerAuthorized(kind), NEW k \in DOMAIN chains'
                PROVE  \/ OfOpenRequest(k)' \/ Superseded(chains', k)
                       \/ chains'[k].state = "cancelled"
    BY <1>1 DEF Over
  <2>1. CASE k \in DOMAIN chains
    BY <1>7, <1>14, <1>18, <1>19, <2>1 DEF Over
  <2>2. CASE k \notin DOMAIN chains
    <3>1. PICK j \in 1 .. Len(wire') : k = Key(wire'[j])
      BY <1>14, <2>2
    <3>2. CASE IsCancellation(wire'[j])
      BY <1>14, <3>1, <3>2
    <3>3. CASE ~IsCancellation(wire'[j])
      BY <1>15, <1>22, <3>1, <3>3 DEF OfOpenRequest, Key
    <3>. QED
      BY <3>2, <3>3
  <2>. QED
    BY <2>1, <2>2
<1>24. Fresh'
  <2>. SUFFICES ASSUME SignerAuthorized(kind), NEW j \in 1 .. Len(wire'), ~IsCancellation(wire'[j])
                PROVE  \/ Superseded(chains', Key(wire'[j]))
                       \/ chains'[Key(wire'[j])].state \in {"created", "cancelled"}
    BY <1>1 DEF Fresh
  <2>. DEFINE k == Key(wire'[j])
  <2>1. k \in DOMAIN chains' /\ ~OfOpenRequest(k)
    BY <1>14, <1>15, <1>21
  <2>. HIDE DEF k
  <2>2. CASE k \in DOMAIN chains
    BY <1>7, <1>14, <1>18, <2>1, <2>2 DEF Over, k
  <2>3. CASE k \notin DOMAIN chains
    BY <1>14, <2>1, <2>3 DEF k
  <2>. QED
    BY <2>2, <2>3
<1>25. Accepted'
  BY <1>1 DEF Accepted
<1>. QED
  BY <1>13, <1>14, <1>16, <1>17, <1>20, <1>23, <1>24, <1>25 DEF LogInv

\* The cancellation of a trusted signer is always accepted.
LEMMA CancellationAccepted ==
    ASSUME NEW m, WellFormed(m), IsCancellation(m), SignerAuthorized(kind)
    PROVE  Given(m) = "cancelled"
<1>1. ~Malformed(m) /\ m.age = 0 /\ ~(0 >= CancellationTTL)
  BY CancellationAssumption DEF WellFormed
<1>2. Precheck(m) = "cancelled"
  BY <1>1 DEF Precheck, Verdict
<1>3. Evaluation(kind, rsu[m.signal], m, m.signal) = "cancelled"
  BY <1>1 DEF Evaluation, CertificateExpired
<1>. QED
  BY <1>2, <1>3 DEF Given, NotEvaluated

\* An SSEM that rejects or grants a request is a fault only if the request
\* was overtaken, or if its key had been cancelled.
LEMMA AnswerLogged ==
    ASSUME LogInv, NEW m, Key(m) \in DOMAIN chains,
           NEW status \in {"processing", "cancelled", "rejected", "granted"},
           chains' = ReplaySSEM(chains, m, status), obu' = obu, kind' = kind, sent' = sent,
           SignerAuthorized(kind) /\ status # "cancelled" => OfOpenRequest(Key(m)),
           SignerAuthorized(kind) /\ status \in {"rejected", "granted"} =>
               \/ chains[Key(m)].state = "processing" \/ Superseded(chains, Key(m))
               \/ chains[Key(m)].state \in {"created", "cancelled"} /\ status = "rejected"
    PROVE  /\ Log(chains') /\ DOMAIN chains' = DOMAIN chains
           /\ FaultsPass' /\ Over' /\ Spoken'
           /\ \A k \in DOMAIN chains : chains[k].final => chains'[k].final
           /\ \A k \in DOMAIN chains : k # Key(m) => chains'[k] = chains[k]
           /\ \A k : Superseded(chains, k) => Superseded(chains', k)
           /\ status # "processing" => chains'[Key(m)].final
           /\ status = "processing" => chains'[Key(m)].state = "processing"
<1>. DEFINE key == Key(m)
            was == chains[key]
            is == chains'[key]
<1>1. /\ Log(chains') /\ DOMAIN chains' = DOMAIN chains
      /\ \A k \in DOMAIN chains : k # key => chains'[k] = chains[k]
      /\ Answers(was, status, is)
  BY LogsSSEM DEF LogInv
<1>2. Spoken'
  BY DEF LogInv, Spoken
<1>3. \A k : Superseded(chains, k) => Superseded(chains', k)
  BY <1>1, SupersededStays
<1>. HIDE DEF key
<1>4. ASSUME SignerAuthorized(kind), NEW k \in DOMAIN chains'
      PROVE  /\ \/ chains'[k].faults = {} \/ Superseded(chains', k)
                \/ OfOpenRequest(k) /\ chains'[k].faults \subseteq Reuse
             /\ OfOpenRequest(k) \/ Superseded(chains', k) \/ chains'[k].state = "cancelled"
  <2>1. /\ \/ chains[k].faults = {} \/ Superseded(chains, k)
           \/ OfOpenRequest(k) /\ chains[k].faults \subseteq Reuse
        /\ OfOpenRequest(k) \/ Superseded(chains, k) \/ chains[k].state = "cancelled"
    BY <1>1, <1>4 DEF LogInv, FaultsPass, Over
  <2>2. CASE k # key
    BY <1>1, <1>3, <1>4, <2>1, <2>2
  <2>3. CASE k = key /\ status = "cancelled"
    BY <1>1, <1>3, <2>1, <2>3 DEF Answers
  <2>4. CASE k = key /\ status # "cancelled"
    <3>1. OfOpenRequest(k)
      BY <1>4, <2>4 DEF key
    <3>2. \/ is.faults = was.faults \/ Superseded(chains, k)
          \/ is.faults \subseteq was.faults \cup Reuse
      BY <1>1, <1>4, <2>4 DEF key, Answers
    <3>. QED
      BY <1>3, <2>1, <2>4, <3>1, <3>2
  <2>. QED
    BY <2>2, <2>3, <2>4
<1>5. FaultsPass' /\ Over'
  BY <1>4 DEF FaultsPass, Over, SignerAuthorized, OfOpenRequest
<1>6. \A k \in DOMAIN chains : chains[k].final => chains'[k].final
  BY <1>1 DEF Answers
<1>. QED
  BY <1>1, <1>2, <1>3, <1>5, <1>6 DEF key, Answers

LEMMA HandleLog == ASSUME SaidInv, LogInv, Handle PROVE LogInv'
<1>. DEFINE m == wire[1]
            status == StatusOf(Given(m))
<1>1. /\ wire # <<>> /\ wire' = Tail(wire)
      /\ answers' = IF Given(Head(wire)) = "processing" THEN Append(answers, Head(wire)) ELSE answers
      /\ chains' = ReplaySSEM(chains, Head(wire), StatusOf(Given(Head(wire))))
      /\ obu' = obu /\ kind' = kind /\ sent' = sent
  BY DEF Handle
<1>2. /\ Head(wire) = m /\ 1 \in 1 .. Len(wire)
      /\ wire' = <<>> \/ (Len(wire) = 2 /\ wire' = <<wire[2]>> /\ IsCancellation(m))
  <2>1. WireShape
    BY DEF SaidInv
  <2>2. CASE wire = <<wire[1]>>
    BY <1>1, <2>2, OneMessage
  <2>3. CASE Len(wire) = 2 /\ wire = <<wire[1], wire[2]>> /\ IsCancellation(wire[1])
    BY <1>1, <2>3, TwoMessages
  <2>. QED
    BY <1>1, <2>1, <2>2, <2>3 DEF WireShape
<1>3. /\ WellFormed(m) /\ Key(m) \in DOMAIN chains
      /\ ~IsCancellation(m) => OfOpenRequest(Key(m)) /\ answers = <<>>
  BY <1>2 DEF SaidInv, Said, LogInv, UnderWay
<1>4. /\ IsCancellation(m) => Given(m) # "processing"
      /\ IsCancellation(m) /\ SignerAuthorized(kind) => Given(m) = "cancelled"
  BY <1>3, CancellationEvaluated, CancellationAccepted
<1>5. /\ status \in {"processing", "cancelled", "rejected", "granted"}
      /\ status = "processing" <=> Given(m) = "processing"
      /\ Given(m) = "cancelled" => status \notin {"rejected", "granted"}
  BY DEF StatusOf
<1>6. /\ chains' = ReplaySSEM(chains, m, status)
      /\ answers' = IF status = "processing" THEN Append(answers, m) ELSE answers
  BY <1>1, <1>2, <1>5
<1>. HIDE DEF status
<1>7. /\ SignerAuthorized(kind) /\ status # "cancelled" =>
             /\ ~IsCancellation(m) /\ OfOpenRequest(Key(m))
             /\ \/ Superseded(chains, Key(m))
                \/ chains[Key(m)].state \in {"created", "cancelled"}
      /\ status # "granted"
  <2>1. SignerAuthorized(kind) /\ status # "cancelled" => ~IsCancellation(m)
    BY <1>4 DEF status, StatusOf
  <2>2. status # "granted"
    BY DEF status, StatusOf
  <2>3. /\ SignerAuthorized(kind) /\ ~IsCancellation(m) =>
             \/ Superseded(chains, Key(m))
             \/ chains[Key(m)].state \in {"created", "cancelled"}
    BY <1>2 DEF LogInv, Fresh
  <2>. QED
    BY <1>3, <2>1, <2>2, <2>3
<1>8. /\ Log(chains') /\ DOMAIN chains' = DOMAIN chains
      /\ FaultsPass' /\ Over' /\ Spoken'
      /\ \A k \in DOMAIN chains : chains[k].final => chains'[k].final
      /\ \A k \in DOMAIN chains : k # Key(m) => chains'[k] = chains[k]
      /\ \A k : Superseded(chains, k) => Superseded(chains', k)
      /\ status # "processing" => chains'[Key(m)].final
      /\ status = "processing" => chains'[Key(m)].state = "processing"
  <2>. HIDE DEF m
  <2>1. SignerAuthorized(kind) /\ status # "cancelled" => OfOpenRequest(Key(m))
    BY <1>7
  <2>2. SignerAuthorized(kind) /\ status \in {"rejected", "granted"} =>
            \/ chains[Key(m)].state = "processing" \/ Superseded(chains, Key(m))
            \/ chains[Key(m)].state \in {"created", "cancelled"} /\ status = "rejected"
    BY <1>7
  <2>. QED
    BY <1>1, <1>3, <1>5, <1>6, <2>1, <2>2, AnswerLogged
<1>9. status = "processing" => ~IsCancellation(m) /\ answers = <<>> /\ answers' = <<m>>
  <2>1. Append(<<>>, m) = <<m>>
    BY AppendIsPair
  <2>. QED
    BY <1>3, <1>4, <1>5, <1>6, <2>1
<1>10. UnderWay'
  <2>1. ASSUME NEW i \in 1 .. Len(wire')
        PROVE  /\ Key(wire'[i]) \in DOMAIN chains
               /\ ~IsCancellation(wire'[i]) => OfOpenRequest(Key(wire'[i])) /\ answers' = <<>>
    <3>1. /\ i = 1 /\ Len(wire) = 2 /\ wire'[1] = wire[2] /\ 2 \in 1 .. Len(wire)
          /\ IsCancellation(m)
      BY <1>2, <2>1
    <3>2. answers' = answers
      BY <1>6, <1>9, <3>1
    <3>. QED
      BY <3>1, <3>2 DEF LogInv, UnderWay
  <2>2. \/ answers' = <<>>
        \/ /\ answers' # <<>> /\ answers' = <<answers'[1]>>
           /\ Key(answers'[1]) \in DOMAIN chains /\ OfOpenRequest(Key(answers'[1]))
    <3>1. CASE status = "processing"
      <4>1. answers' = <<m>> /\ answers'[1] = m /\ answers' # <<>>
        BY <1>9, <3>1
      <4>. QED
        BY <1>3, <1>9, <3>1, <4>1
    <3>2. CASE status # "processing"
      BY <1>6, <3>2 DEF LogInv, UnderWay
    <3>. QED
      BY <3>1, <3>2
  <2>. QED
    BY <1>1, <1>8, <2>1, <2>2 DEF UnderWay, OfOpenRequest
<1>11. Answered'
  <2>. SUFFICES ASSUME NEW k \in DOMAIN chains', ~chains'[k].final PROVE Unanswered(k)'
    BY DEF Answered
  <2>1. Unanswered(k) /\ (k = Key(m) => status = "processing")
    BY <1>8 DEF LogInv, Answered
  <2>2. CASE k = Key(m)
    <3>1. Len(answers') = 1 /\ answers'[1] = m
      BY <1>9, <2>1, <2>2, OneMessage
    <3>. QED
      BY <2>2, <3>1 DEF Unanswered
  <2>3. ASSUME k # Key(m), NEW i \in 1 .. Len(wire), Key(wire[i]) = k
        PROVE  Unanswered(k)'
    <3>1. CASE wire' = <<>>
      <4>1. Len(wire) = 1
        <5>1. CASE wire = <<wire[1]>>
          BY <5>1, OneMessage
        <5>2. CASE wire = <<wire[1], wire[2]>>
          <6>1. wire' = <<wire[2]>>
            BY <1>1, <5>2, TwoMessages
          <6>. QED
            BY <3>1, <6>1
        <5>. QED
          BY <1>1, <5>1, <5>2 DEF SaidInv, WireShape
      <4>. QED
        BY <2>3, <4>1
    <3>2. CASE Len(wire) = 2 /\ wire' = <<wire[2]>>
      <4>1. i = 2 /\ Len(wire') = 1 /\ wire'[1] = wire[i]
        BY <2>3, <3>2
      <4>. QED
        BY <2>3, <4>1 DEF Unanswered
    <3>. QED
      BY <1>2, <3>1, <3>2
  <2>4. ASSUME k # Key(m), NEW i \in 1 .. Len(answers), Key(answers[i]) = k
        PROVE  Unanswered(k)'
    <3>1. answers # <<>>
      BY <2>4
    <3>2. answers' = answers
      BY <1>6, <1>9, <3>1
    <3>. QED
      BY <2>4, <3>2 DEF Unanswered
  <2>. QED
    BY <2>1, <2>2, <2>3, <2>4 DEF Unanswered
<1>12. answers = <<>> \/ answers' = answers
  BY <1>6, <1>9
<1>13. wire' # <<>> => answers = <<>> /\ IsCancellation(m)
  BY <1>1, <1>2 DEF LogInv, Accepted
<1>14. Accepted'
  <2>1. CASE status = "processing"
    <3>1. wire' = <<>>
      BY <1>9, <1>13, <2>1
    <3>2. answers'[1] = m
      BY <1>9, <2>1
    <3>. QED
      BY <1>8, <2>1, <3>1, <3>2 DEF Accepted
  <2>2. CASE status # "processing"
    BY <1>1, <1>6, <2>2 DEF LogInv, Accepted
  <2>. QED
    BY <2>1, <2>2
<1>15. Fresh'
  <2>. SUFFICES ASSUME SignerAuthorized(kind), NEW i \in 1 .. Len(wire'), ~IsCancellation(wire'[i])
                PROVE  \/ Superseded(chains', Key(wire'[i]))
                       \/ chains'[Key(wire'[i])].state \in {"created", "cancelled"}
    BY <1>1 DEF Fresh
  <2>1. /\ i = 1 /\ Len(wire) = 2 /\ wire'[1] = wire[2] /\ 2 \in 1 .. Len(wire)
        /\ IsCancellation(m)
    BY <1>2
  <2>2. \/ Superseded(chains, Key(wire[2]))
        \/ chains[Key(wire[2])].state \in {"created", "cancelled"}
    BY <2>1 DEF LogInv, Fresh
  <2>3. Key(wire[2]) \in DOMAIN chains
    BY <2>1 DEF LogInv, UnderWay
  <2>4. Key(wire[2]) = Key(m) => chains'[Key(m)].state = "cancelled"
    <3>1. status = "cancelled"
      BY <1>4, <2>1 DEF status, StatusOf
    <3>. QED
      BY <1>3, <1>6, <3>1, LogsSSEM DEF LogInv, Answers
  <2>. QED
    BY <1>8, <2>1, <2>2, <2>3, <2>4
<1>. QED
  BY <1>8, <1>10, <1>11, <1>14, <1>15 DEF LogInv

LEMMA DecideLog == ASSUME LogInv, Decide PROVE LogInv'
<1>. DEFINE m == answers[1]
<1>1. /\ wire = <<>> /\ answers # <<>> /\ answers' = Tail(answers)
      /\ obu' = obu /\ kind' = kind /\ sent' = sent /\ wire' = wire
  BY DEF Decide
<1>2. PICK status \in {"rejected", "granted"} : chains' = ReplaySSEM(chains, Head(answers), status)
  BY DEF Decide
<1>3. /\ answers = <<m>> /\ Key(m) \in DOMAIN chains /\ OfOpenRequest(Key(m))
  BY <1>1 DEF LogInv, UnderWay
<1>4. Head(answers) = m /\ answers' = <<>> /\ Len(answers) = 1
  BY <1>1, <1>3, OneMessage
<1>5. /\ Log(chains') /\ DOMAIN chains' = DOMAIN chains
      /\ FaultsPass' /\ Over' /\ Spoken'
      /\ \A k \in DOMAIN chains : chains[k].final => chains'[k].final
      /\ chains'[Key(m)].final
  <2>1. chains[Key(m)].state = "processing"
    BY <1>1 DEF LogInv, Accepted
  <2>. HIDE DEF m
  <2>2. chains' = ReplaySSEM(chains, m, status)
    BY <1>2, <1>4
  <2>. QED
    BY <1>1, <1>3, <2>1, <2>2, AnswerLogged
<1>6. UnderWay'
  <2>1. Len(wire') = 0
    BY <1>1
  <2>. QED
    BY <1>4, <2>1 DEF UnderWay
<1>7. Answered'
  <2>. SUFFICES ASSUME NEW k \in DOMAIN chains', ~chains'[k].final PROVE FALSE
    BY DEF Answered
  <2>1. Unanswered(k) /\ k # Key(m)
    BY <1>5 DEF LogInv, Answered
  <2>2. Len(wire) = 0
    BY <1>1
  <2>. QED
    BY <1>4, <2>1, <2>2 DEF Unanswered
<1>8. Fresh' /\ Accepted'
  <2>1. Len(wire') = 0
    BY <1>1
  <2>. QED
    BY <1>4, <2>1 DEF Fresh, Accepted
<1>. QED
  BY <1>5, <1>6, <1>7, <1>8 DEF LogInv

LEMMA LogStep == ASSUME ShortJourney, SaidInv, LogInv, [Next]_vars PROVE LogInv'
<1>1. CASE Tick
  BY <1>1, TickLog DEF Tick
<1>2. CASE Handle
  BY <1>2, HandleLog
<1>3. CASE Decide
  BY <1>3, DecideLog
<1>4. CASE UNCHANGED vars
  <2>1. /\ chains' = chains /\ wire' = wire /\ answers' = answers
        /\ obu' = obu /\ kind' = kind /\ sent' = sent
    BY <1>4 DEF vars
  <2>2. UnderWay'
    BY <2>1 DEF LogInv, UnderWay, OfOpenRequest
  <2>3. Answered'
    BY <2>1 DEF LogInv, Answered, Unanswered
  <2>4. FaultsPass' /\ Spoken'
    BY <2>1 DEF LogInv, FaultsPass, SignerAuthorized, OfOpenRequest, Spoken
  <2>5. Over' /\ Fresh' /\ Accepted'
    BY <2>1 DEF LogInv, Over, Fresh, Accepted, SignerAuthorized, OfOpenRequest
  <2>. QED
    BY <2>1, <2>2, <2>3, <2>4, <2>5 DEF LogInv
<1>. QED
  BY <1>1, <1>2, <1>3, <1>4 DEF Next

LEMMA LogExplained == ASSUME LogInv PROVE AuditFaultsKnown
<1>1. Between => MissingFinal(chains) = {}
  BY DEF Between, Unanswered, LogInv, Answered, MissingFinal
<1>2. Orphans(chains) = {}
  BY DEF LogInv, Log, Orphans
<1>3. ASSUME SignerAuthorized(kind), NEW k \in InvalidTransitions(chains)
      PROVE  k.id = obu.id /\ chains[k].faults = {<<"cancelled", "rejected">>}
  <2>1. k \in DOMAIN chains /\ chains[k].faults # {} /\ ~Superseded(chains, k)
    BY <1>3 DEF InvalidTransitions
  <2>2. OfOpenRequest(k) /\ chains[k].faults \subseteq Reuse
    BY <1>3, <2>1 DEF LogInv, FaultsPass
  <2>. QED
    BY <2>1, <2>2 DEF OfOpenRequest, Reuse
<1>. QED
  BY <1>1, <1>2, <1>3 DEF AuditFaultsKnown

\* On a journey whose sequence numbers do not begin again, the replay of the
\* log finds every request answered between passes and no answer to what
\* nobody asked; and the transitions it reports of a trusted vehicle are all
\* of its open request, refused under the key of a cancellation that the unit
\* has forgotten (audit_protocol_lifecycle, generate_requests,
\* handle_messages).
THEOREM ReplayFaultsKnown == ShortJourney => (Spec => []AuditFaultsKnown)
<1>. SUFFICES ASSUME ShortJourney PROVE Spec => []AuditFaultsKnown
  OBVIOUS
<1>1. Init => LogInv
  BY InitLog
<1>2. SaidInv /\ LogInv /\ [Next]_vars => LogInv'
  BY LogStep
<1>. QED
  BY <1>1, <1>2, WhatIsSaid, LogExplained, PTL DEF Spec
=============================================================================
