----------------------------- MODULE VehicleView ------------------------------
(***************************************************************************)
(* What the TraCI adapter reports of one vehicle in a tick                 *)
(* (read_vehicle_observations, src/pps57_cits/traci_adapter.py) and what   *)
(* VehicleObservation (src/pps57_cits/models.py) makes of it.              *)
(*                                                                         *)
(* A look is what there is to be read: the vehicle's place on its lane     *)
(* (metres), its speed (dm/s), its waiting times (seconds), the clock, the *)
(* other vehicles of the lane, and "fault", the read that fails.  Times of *)
(* arrival are in milliseconds.  At the end, what it reports of the lanes  *)
(* of a signal.                                                            *)
(***************************************************************************)
EXTENDS Seconds, FiniteSets, FiniteSetsExt, SequencesExt

CONSTANTS
    Route,        \* getRoute: the vehicle's edges in order
    SignalOf,     \* edge_to_intersection: the edges of the configuration
    Movements,    \* [edge |-> the priority movements configured for it]
    Timetable,    \* the vehicle's stops in the feed: <<[edge, until], ...>>
    NoObservation,
    NoEdge,       \* an edge left out, the empty string
    FreeFlow,     \* eta_free_flow_speed_mps
    QueuePenalty, \* eta_queue_penalty_s
    WaitingCap,   \* eta_waiting_cap_s
    MinSpeed,     \* eta_min_speed_mps
    HaltSpeed     \* below it a vehicle ahead is part of the queue, 0.5 m/s

\* EtaParameters: speeds to divide by, and delays.
ASSUME EtaAssumption ==
    /\ FreeFlow \in Nat \ {0} /\ MinSpeed \in Nat \ {0}
    /\ QueuePenalty \in Nat /\ WaitingCap \in Int

Unseen == {"clock", "vehicle"}

\* getRouteIndex and getRoute; without them there is no next edge.
NextEdge(at, look) ==
    IF look.fault = "route" \/ at = Len(Route) THEN NoEdge ELSE Route[at + 1]

\* _lane_length: a failed read counts as a lane of no length.
LaneLength(look) == IF look.fault = "length" THEN 0 ELSE look.length

Distance(look) == Greater(LaneLength(look) - look.position, 0)

\* _queue_ahead_vehicle_count; a vehicle that cannot be read is left out.
QueueAhead(look) ==
    Cardinality({o \in look.others : o.readable /\ o.position > look.position
                                               /\ o.speed < HaltSpeed})

Travel(distance, speed) == (distance * 10000) \div speed

AtCurrentSpeed(look) == Travel(Distance(look), Greater(look.speed, MinSpeed))

AtFreeFlow(look) == Travel(Distance(look), FreeFlow)

Penalty(look) == QueueAhead(look) * QueuePenalty

\* eta_to_stopline_s, with the queue taken as this long a delay.
EtaWith(look, penalty) ==
    IF look.speed < MinSpeed
    THEN AtFreeFlow(look) + penalty + Lesser(look.wait * 1000, WaitingCap)
    ELSE Lesser(AtCurrentSpeed(look), AtFreeFlow(look) + penalty)

Eta(look) == EtaWith(look, Penalty(look))

\* Mutant: the penalty of the queue, also when the current speed decides.
WholePenalty(look) == Penalty(look)

\* eta_queue_delay_included_s.
IncludedDelay(look) ==
    IF look.speed < MinSpeed THEN Penalty(look)
    ELSE Eta(look) - Lesser(AtCurrentSpeed(look), AtFreeFlow(look))
-----------------------------------------------------------------------------
(***************************************************************************)
(* _with_schedule_adherence: no plan, a synthetic deviation per vehicle    *)
(* and edge, or the timetable of the scenario.                             *)
(***************************************************************************)
FirstPosition(edge) == SelectInSeq(Route, LAMBDA e : e = edge)

\* GtfsScheduleAdherenceProvider: the first stop of the feed still ahead.
StopsAhead(at) == SelectSeq(Timetable, LAMBDA stop : FirstPosition(stop.edge) >= at)

NotSourced == [sourced |-> FALSE, delay |-> 0, headway |-> 0]

Sourced(delay, headway) == [sourced |-> TRUE, delay |-> delay, headway |-> headway]

Adherence(kind, at, look) ==
    CASE kind.plan = "synthetic" -> Sourced(look.delay, look.headway)
      [] kind.plan = "timetable" /\ look.fault # "route" /\ StopsAhead(at) # <<>> ->
             Sourced(Greater(0, look.now - StopsAhead(at)[1].until), 0)
      [] OTHER -> NotSourced

\* _observation_from_subscription, and _read_vehicle_observation to the same
\* effect: nothing off the edges of the configuration (junctions included).
Observe(kind, at, look) ==
    IF look.fault \in Unseen \/ look.inJunction \/ at > Len(Route) \/ Route[at] \notin DOMAIN SignalOf
    THEN NoObservation
    ELSE [edge |-> Route[at], next |-> NextEdge(at, look), atStop |-> look.atStop,
          distance |-> Distance(look), eta |-> Eta(look), included |-> IncludedDelay(look),
          waited |-> Greater(look.wait, look.accumulated),
          adherence |-> Adherence(kind, at, look)]
-----------------------------------------------------------------------------
\* normalise_vehicle_class.
Normalised(class) ==
    IF class \in {"bus", "coach", "public_transport_bus"} THEN "public_transport" ELSE class

\* priority_movement_for_request without a movement_id; <<>> is none.
PriorityMovement(edge, next, class) ==
    LET configured == IF edge \in DOMAIN Movements THEN Movements[edge] ELSE <<>>
        onward == SelectSeq(configured, LAMBDA m : next \in m.egress)
        narrowed == IF next = NoEdge THEN configured
                    ELSE IF onward # <<>> THEN onward
                    ELSE SelectSeq(configured, LAMBDA m : m.egress = {})
    IN  SelectSeq(narrowed, LAMBDA m :
            m.classes = {} \/ "*" \in m.classes
            \/ \E c \in m.classes : Normalised(c) = Normalised(class))
-----------------------------------------------------------------------------
(***************************************************************************)
(* read_network_state: the snapshot of the lanes of one signal that the    *)
(* engine reads.  A lane is a record: "id", which of the lanes it is;      *)
(* "samples", its vehicles with their positions and speeds (dm/s);         *)
(* "occupancy", in percent; and "broken", the reads of it that fail.  A    *)
(* failed read counts as zero.                                             *)
(***************************************************************************)
CONSTANTS
    RealBackOfQueue,    \* state_estimation.real_back_of_queue
    HaltingThreshold,   \* --halting-speed-threshold of SUMO
    QueueHaltSpeed,     \* queue_halt_speed_mps
    SpillbackOccupancy, \* spillback_occupancy_threshold, in percent
    SpillbackHalted     \* spillback_halted_per_lane

\* The comment of _back_of_queue_count and the note of the configuration.
ASSUME QueueAssumption ==
    /\ QueueHaltSpeed \in Int /\ HaltingThreshold \in Int
    /\ QueueHaltSpeed <= HaltingThreshold

\* _network_state_lanes: the lanes of the signal, or those of its approaches.
LanesRead(controlled, approach) == IF controlled # {} THEN controlled ELSE approach

VehicleNumber(lane) == IF "number" \in lane.broken THEN 0 ELSE Cardinality(lane.samples)

\* getLastStepHaltingNumber.
HaltingNumber(lane) ==
    IF "halting" \in lane.broken THEN 0
    ELSE Cardinality({s \in lane.samples : s.speed < HaltingThreshold})

\* _contiguous_halted_from_stopline over what _back_of_queue_count could read.
HaltedFromStopline(lane) ==
    LET read == {s \in lane.samples : s.readable} IN
    Cardinality({s \in read : \A ahead \in read :
                     ahead.position >= s.position => ahead.speed < QueueHaltSpeed})

LaneQueue(lane) ==
    IF ~RealBackOfQueue \/ "ids" \in lane.broken THEN HaltingNumber(lane)
    ELSE HaltedFromStopline(lane)

Failed(lane) == lane.broken \ {"ids"} # {}

\* The snapshot of these lanes; "occupancy" is the mean of those read.
NetworkState(lanes) ==
    LET known == {l \in lanes : "occupancy" \notin l.broken}
        occupancy == IF known = {} THEN 0
                     ELSE MapThenSumSet(LAMBDA l : l.occupancy, known) \div Cardinality(known)
        halted == MapThenSumSet(HaltingNumber, lanes)
        degraded == \E l \in lanes : Failed(l)
    IN  [lanes |-> Cardinality(lanes), vehicles |-> MapThenSumSet(VehicleNumber, lanes),
         halted |-> halted, queue |-> MapThenSumSet(LaneQueue, lanes),
         occupancy |-> occupancy, degraded |-> degraded,
         spillback |-> \/ degraded
                       \/ occupancy >= SpillbackOccupancy
                       \/ lanes # {} /\ halted >= Cardinality(lanes) * SpillbackHalted]
=============================================================================
