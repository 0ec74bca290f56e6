------------------------------- MODULE Journey --------------------------------
(***************************************************************************)
(* One vehicle on its route past several signals: what the adapter sees of *)
(* it (VehicleView), what its on-board unit says (OnBoardUnit), what the   *)
(* road-side unit of each signal answers (RoadSideUnit and, below, the     *)
(* checks that need no memory), how the decision ends and what the audit   *)
(* of the log makes of it (ProtocolAudit), in the order of a pass of the   *)
(* control loop (run_with_sumo, src/pps57_tsp/controller.py).              *)
(*                                                                         *)
(* The transport is the default one, which delivers within the pass.       *)
(* PriorityRequests models the one that loses, delays and repeats, with    *)
(* what the vehicle asks left open.                                        *)
(***************************************************************************)
EXTENDS OnBoardUnit, RoadSideUnit, ProtocolAudit

CONSTANTS
    TrustedPrefixes,   \* trust_store.allowed_signer_prefixes, without "OBU_"
    Provisioned,       \* kinds in trust_store.emergency_authorization
    Kinds,             \* the vehicles to choose from
    Looks,             \* what there may be to read in a tick
    RequestCap         \* a bound of the model: requests and updates of the vehicle

Distinct(lanes) == \A l, m \in lanes : l.id = m.id => l = m

IsLane(lane) ==
    /\ IsFiniteSet(lane.samples)
    /\ \A s \in lane.samples : s.position \in Int /\ s.speed \in Int

\* What TraCI can answer: finitely many lanes and vehicles, and numbers.
ASSUME LooksAssumption ==
    \A l \in Looks :
        /\ l.position \in Int /\ l.length \in Int /\ l.speed \in Int /\ l.wait \in Int
        /\ IsFiniteSet(l.others)
        /\ IsFiniteSet(l.controlled) /\ IsFiniteSet(l.approach)
        /\ \A lane \in l.controlled \cup l.approach : IsLane(lane)
        /\ Distinct(l.controlled) /\ Distinct(l.approach)

\* The validity _build_cancellation gives a cancellation: 5 s.
ASSUME CancellationAssumption == CancellationTTL \in Nat \ {0}

\* state_retention_s outlives the caches of the road-side unit.
ASSUME RetentionAssumption == DedupeTTL < Retention
-----------------------------------------------------------------------------
(***************************************************************************)
(* _evaluate_request of the RSU agent (src/pps57_cits/rsu.py), every check *)
(* in its order, for a message of OnBoardUnit.  RoadSideUnit!Verdict keeps *)
(* only the checks whose outcome depends on the memory of the road-side    *)
(* unit and takes the others for granted.                                  *)
(***************************************************************************)
\* validate_cits_message, for the fields that are not written as literals.
Malformed(m) ==
    \/ m.id < 1 \/ m.id > 255 \/ m.seq < 0 \/ m.seq > 65535
    \/ m.edge = NoEdge /\ ~IsCancellation(m)
    \/ m.eta < 0 \/ m.distance < 0 \/ m.included < 0

\* _validate_security: the validity that build_security_envelope was given.
CertificateExpired(m) ==
    m.age >= (IF IsCancellation(m) THEN CancellationTTL ELSE RequestTTL)

\* _validate_simulated_trust in the mode prefix_allowlist.
SignerAuthorized(kind) == kind.prefix \in TrustedPrefixes

\* _emergency_identity_authorized.
EmergencyAuthorized(kind) ==
    IF Provisioned # {} THEN kind \in Provisioned
    ELSE kind.prefix \in {"ev_", "emergency_"}

EtaInWindow(m) ==
    m.eta \in (IF m.class = "emergency" THEN 0 .. EmergencyEtaMax ELSE EtaMin .. EtaMax)

PriorityConditionMet(m) ==
    \/ m.class = "emergency"
    \/ m.delay >= DelayThreshold
    \/ Magnitude(m.headway) >= HeadwayThreshold

\* What _evaluate_request says of a message this vehicle sent to this signal.
Evaluation(kind, r, m, signal) ==
    IF Malformed(m) THEN "malformed"
    ELSE IF CertificateExpired(m) THEN "certificate_expired"
    ELSE IF ~SignerAuthorized(kind) THEN "signer_not_authorized"
    ELSE IF IsCancellation(m) THEN "cancelled"
    ELSE IF m.class = "emergency" /\ ~EmergencyAuthorized(kind) THEN "not_emergency_identity"
    ELSE IF m.class = "emergency" /\ m.role # "emergency" THEN "not_emergency_role"
    ELSE IF m.signal # signal THEN "not_this_intersection"
    ELSE IF signal \notin Controlled THEN "not_signal_controlled"
    ELSE IF PastItsTTL(m) THEN "expired"
    ELSE IF TooManyActive(r, m) THEN "limit_exceeded"
    ELSE IF r.rested[m.vehicle] < Cooldown THEN "cooldown"
    ELSE IF ~EtaInWindow(m) THEN "eta_out_of_window"
    ELSE IF ~PriorityConditionMet(m) THEN "not_eligible"
    ELSE "processing"
-----------------------------------------------------------------------------
VARIABLES
    kind,    \* the vehicle
    at,      \* getRouteIndex; past the last edge it has arrived
    look,    \* what there was to read in this pass
    seen,    \* the observation, or NoObservation
    obu,     \* the state of its on-board unit
    wire,    \* messages of this pass the road-side units have still to handle
    batch,   \* [signal |-> the keys handled in this pass]
    rsu,     \* [signal |-> its road-side unit]
    answers, \* requests in PROCESSING the decision has still to look at
    verdict, \* the message handled last, and what was said of it
    chains,  \* what the audit makes of the log so far
    sent     \* history: requests and updates sent so far

vars == <<kind, at, look, seen, obu, wire, batch, rsu, answers, verdict, chains, sent>>

Intersections == {SignalOf[e] : e \in DOMAIN SignalOf}

NoVerdict == [given |-> "none", expected |-> "none"]

Between == wire = <<>> /\ answers = <<>>

Reading == NetworkState(LanesRead(look.controlled, look.approach))

Init ==
    /\ kind \in Kinds
    /\ at = 1
    /\ look \in {l \in Looks : l.inJunction}
    /\ seen = NoObservation
    /\ obu = FreshState
    /\ wire = <<>> /\ answers = <<>>
    /\ batch = [s \in Intersections |-> {}]
    /\ rsu = [s \in Intersections |-> InitialUnit]
    /\ verdict = NoVerdict
    /\ chains = <<>>
    /\ sent = 0
-----------------------------------------------------------------------------
Logged(messages) == FoldLeft(ReplaySREM, chains, messages)

\* A step of the simulation, the observation, the on-board unit, the log.
Pass(next, l) ==
    LET observed == Observe(kind, next, l)
        said == Generate(kind, obu, observed)
    IN  /\ Between
        /\ sent' = sent + Cardinality({i \in DOMAIN said.messages : ~IsCancellation(said.messages[i])})
        /\ sent' <= RequestCap
        /\ at' = next /\ look' = l /\ seen' = observed
        /\ obu' = said.state
        /\ wire' = said.messages
        /\ chains' = Logged(said.messages)
        /\ rsu' = [s \in Intersections |-> Prune(rsu[s])]
        /\ batch' = [s \in Intersections |-> {}]
        /\ verdict' = NoVerdict
        /\ UNCHANGED <<kind, answers>>

\* The vehicle stays on its edge or goes on to the next; then it has arrived.
Tick ==
    \E next \in {at, Lesser(at + 1, Len(Route) + 1)}, l \in Looks : Pass(next, l)

\* Before _evaluate_request: repeated, replayed or overtaken.
Precheck(m) == Verdict(rsu[m.signal], batch[m.signal], m)

Given(m) ==
    IF Precheck(m) \in NotEvaluated THEN Precheck(m)
    ELSE Evaluation(kind, rsu[m.signal], m, m.signal)

StatusOf(given) ==
    IF given \in {"processing", "cancelled"} THEN given ELSE "rejected"

\* handle_messages of the unit the message is addressed to.
Handle ==
    /\ wire # <<>>
    /\ LET m == Head(wire) IN
       /\ wire' = Tail(wire)
       /\ verdict' = [given |-> Given(m), expected |-> Precheck(m)]
       /\ batch' = [batch EXCEPT ![m.signal] =
                       IF Given(m) \in NotEvaluated THEN @ ELSE @ \cup {Key(m)}]
       /\ rsu' = [rsu EXCEPT ![m.signal] = AfterMessage(@, m, Given(m))]
       /\ answers' = IF Given(m) = "processing" THEN Append(answers, m) ELSE answers
       /\ chains' = ReplaySSEM(chains, m, StatusOf(Given(m)))
    /\ UNCHANGED <<kind, at, look, seen, obu, sent>>

\* What the engine, the Safety Layer and the actuator make of a request: an
\* intervention, the green it already has, or neither.
Outcomes == {"intervened", "no_action", "refused"}

\* The rest of a turn of _process_acknowledged_requests, and its final SSEM.
Decide ==
    /\ wire = <<>> /\ answers # <<>>
    /\ LET m == Head(answers) IN
       \E outcome \in Outcomes :
          /\ answers' = Tail(answers)
          /\ rsu' = IF outcome = "intervened"
                    THEN [rsu EXCEPT ![m.signal] = PriorityGranted(@, m.vehicle)] ELSE rsu
          /\ chains' = ReplaySSEM(chains, m, IF outcome = "refused" THEN "rejected" ELSE "granted")
    /\ UNCHANGED <<kind, at, look, seen, obu, wire, batch, verdict, sent>>

Next == Tick \/ Handle \/ Decide

Spec == Init /\ [][Next]_vars
-----------------------------------------------------------------------------
\* Vehicles whose signer is trusted and whose class they are provisioned for.
Authorized == SignerAuthorized(kind) /\ (kind.emergencyLike => EmergencyAuthorized(kind))

\* What an authorised on-board unit sends, the gateway judges by its own
\* memory alone: the checks of structure, arrival time, delay and identity
\* (_evaluate_request) repeat those of the sender (_generate_request_or_update)
\* and never contradict them.  An unauthorised vehicle is never served.
SenderAndGatewayAgree ==
    IF Authorized THEN verdict.given = verdict.expected ELSE verdict.given # "processing"

\* A slot of a road-side unit's quota belongs to the one request its vehicle
\* has, and to the signal that vehicle is in front of: no signal holds on to
\* a vehicle that has passed, turned away, stopped or been lost sight of
\* (_should_cancel with _track_processing_request).
RequestFollowsTheVehicle ==
    Between => \A s \in Intersections : \A slot \in rsu[s].slots :
        /\ obu.id = slot.id /\ obu.signal = s
        /\ seen # NoObservation /\ SignalOf[seen.edge] = s

\* Between passes the replay finds an answer to every request and no answer to
\* what nobody asked.  The transitions it reports, superseded ones aside, are
\* all of one kind: the open request has the key of a cancellation the unit has
\* forgotten, and was refused.  Any other request under a key used before
\* replays as a new one, and with the request itself the fault goes away
\* (_reopen_if_settled, superseded_by_newer_sequence).  A signer that is not
\* trusted is left out: its cancellation is refused as well.
AuditFaultsKnown ==
    Between =>
        /\ MissingFinal(chains) = {} /\ Orphans(chains) = {}
        /\ SignerAuthorized(kind) =>
              \A k \in InvalidTransitions(chains) :
                  k.id = obu.id /\ chains[k].faults = {<<"cancelled", "rejected">>}

\* What the engine subtracts before it counts the queue by its own detectors
\* is exactly what the queue had added (eta_queue_delay_included_s).
QueueCountedOnce ==
    seen # NoObservation => seen.eta - seen.included = EtaWith(look, 0)

\* The queue the engine is told of stands still in SUMO's own count as well,
\* unless the snapshot says it is degraded (queue_vehicle_count).
QueueWithinHalted == Reading.degraded \/ Reading.queue <= Reading.halted

\* The queue is counted once, from vehicles that stand.
QueueKnown == QueueCountedOnce /\ QueueWithinHalted
=============================================================================
