----------------------------- MODULE OnBoardUnit ------------------------------
(***************************************************************************)
(* OBUEmulator (src/pps57_cits/obu.py) for one vehicle that drives past    *)
(* several signals: whether it asks, what it says and when it cancels.     *)
(* PriorityRequests leaves whether it asks open; here it follows from what *)
(* the vehicle sees.                                                       *)
(*                                                                         *)
(* A kind of vehicle is a record: "prefix" of its identifier, "class" (its *)
(* SUMO class), "busLike" and "emergencyLike" (words of its identifiers),  *)
(* "onLine" (its line is one of priority_line_ids) and "plan", the source  *)
(* of its adherence to the schedule.                                       *)
(***************************************************************************)
EXTENDS VehicleView, RequestMessages

CONSTANTS
    Controlled,       \* intersections that are signal_controlled
    MaxRequestId,     \* request identifiers run from 1 to this
    Refresh,          \* request_refresh_s
    Retention,        \* state_retention_s
    RequestDistance,  \* request_distance_m
    EtaMin, EtaMax,   \* request_eta_min_s, request_eta_max_s
    EmergencyEtaMax,  \* emergency_request_eta_max_s
    DelayThreshold,   \* delay_threshold_s
    HeadwayThreshold, \* headway_deviation_threshold_s
    NoSignal

\* The widths of requestID and of SequenceNumber; an edge has a name.
ASSUME UnitAssumption ==
    /\ MaxRequestId \in Nat \ {0} /\ MaxRequestId <= 255
    /\ SequenceModulus \in Nat \ {0} /\ SequenceModulus <= 65536
    /\ Retention \in Int /\ RequestTTL \in Int
    /\ EtaMin \in Nat /\ EtaMax \in Int /\ EmergencyEtaMax \in Int
    /\ NoEdge \notin DOMAIN SignalOf

\* _RequestorState.
FreshState == [seq |-> 0, id |-> 0, nextId |-> 1, idle |-> Retention, signal |-> NoSignal]

IsPriorityVehicle(kind) ==
    \/ kind.prefix \in {"bus_", "ev_", "emergency_"}
    \/ kind.emergencyLike \/ kind.busLike \/ kind.onLine

\* Mutant: the request is cancelled only when nothing is seen of the vehicle.
CancelWhenUnseen(kind, state, seen) == state.id # 0 /\ seen = NoObservation

\* _should_cancel.
MustCancel(kind, state, seen) ==
    /\ state.id # 0
    /\ \/ seen = NoObservation
       \/ SignalOf[seen.edge] # state.signal
       \/ seen.atStop /\ ~kind.emergencyLike

\* _effective_schedule_delay.
EffectiveDelay(seen) ==
    IF seen.adherence.sourced THEN seen.adherence.delay
    ELSE Greater(seen.adherence.delay, seen.waited)

Magnitude(n) == Greater(n, -n)

Delayed(seen) ==
    \/ EffectiveDelay(seen) >= DelayThreshold
    \/ Magnitude(seen.adherence.headway) >= HeadwayThreshold

\* Mutant: the window of an ambulance for everybody.
SameWindow(emergency) == 0 .. EmergencyEtaMax

Window(emergency) == IF emergency THEN 0 .. EmergencyEtaMax ELSE EtaMin .. EtaMax

\* The conditions of _generate_request_or_update on what is seen.
Eligible(kind, seen) ==
    /\ IsPriorityVehicle(kind)
    /\ seen # NoObservation
    /\ SignalOf[seen.edge] \in Controlled
    /\ PriorityMovement(seen.edge, seen.next, kind.class) # <<>>
    /\ kind.emergencyLike \/ ~seen.atStop
    /\ seen.distance <= RequestDistance
    /\ seen.eta \in Window(kind.emergencyLike)
    /\ kind.emergencyLike \/ Delayed(seen)

\* The throttle, in a tick that comes one after the last.
Throttled(state, seen) == state.signal = SignalOf[seen.edge] /\ state.idle + 1 < Refresh

\* _operator_priority_class.
PriorityClass(kind, seen) ==
    IF kind.emergencyLike THEN "emergency"
    ELSE IF EffectiveDelay(seen) >= DelayThreshold THEN "high_delay"
    ELSE IF Magnitude(seen.adherence.headway) >= HeadwayThreshold THEN "headway_recovery"
    ELSE "nominal"

NextSeq(state) == (state.seq + 1) % SequenceModulus

\* _build_message.
RequestFrom(kind, state, seen) ==
    LET signal == SignalOf[seen.edge]
        same == state.id # 0 /\ state.signal = signal
    IN  [vehicle |-> "vehicle", id |-> IF same THEN state.id ELSE state.nextId,
         seq |-> NextSeq(state), kind |-> IF same THEN "update" ELSE "request", age |-> 0,
         signal |-> signal, edge |-> seen.edge,
         class |-> PriorityClass(kind, seen),
         role |-> IF kind.emergencyLike THEN "emergency" ELSE "public_transport",
         eta |-> seen.eta, distance |-> seen.distance, included |-> seen.included,
         delay |-> EffectiveDelay(seen), headway |-> seen.adherence.headway]

\* _build_cancellation: of a vehicle in public transport, whatever it is.
CancellationFrom(state) ==
    [vehicle |-> "vehicle", id |-> state.id, seq |-> NextSeq(state),
     kind |-> "cancellation", age |-> 0, signal |-> state.signal, edge |-> NoEdge,
     class |-> "nominal", role |-> "public_transport",
     eta |-> 0, distance |-> 0, included |-> 0, delay |-> 0, headway |-> 0]

AfterCancellation(state) ==
    [state EXCEPT !.seq = NextSeq(state), !.id = 0, !.idle = 0, !.signal = NoSignal]

AfterRequest(state, m) ==
    [seq |-> m.seq, id |-> m.id, idle |-> 0, signal |-> m.signal,
     nextId |-> IF m.kind = "request" THEN (state.nextId % MaxRequestId) + 1 ELSE state.nextId]

\* A tick without a request, and _prune_departed_vehicles before it.
AfterNoRequest(state, seen, spoke) ==
    IF spoke THEN state
    ELSE IF seen = NoObservation /\ state.id = 0 /\ state.idle + 1 >= Retention THEN FreshState
    ELSE [state EXCEPT !.idle = Lesser(@ + 1, Retention)]

\* generate_requests for one vehicle: at most a cancellation, then a request.
Generate(kind, state, seen) ==
    LET cancels == MustCancel(kind, state, seen)
        cleared == IF cancels THEN AfterCancellation(state) ELSE state
        farewell == IF cancels THEN <<CancellationFrom(state)>> ELSE <<>>
        asks == Eligible(kind, seen) /\ ~Throttled(cleared, seen)
        request == RequestFrom(kind, cleared, seen)
    IN  [messages |-> IF asks THEN Append(farewell, request) ELSE farewell,
         state |-> IF asks THEN AfterRequest(cleared, request)
                   ELSE AfterNoRequest(cleared, seen, cancels)]
=============================================================================
