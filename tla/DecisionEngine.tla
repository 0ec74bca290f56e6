--------------------------- MODULE DecisionEngine ----------------------------
(***************************************************************************)
(* TSPDecisionEngine.decide (src/pps57_tsp/engine.py): what is proposed    *)
(* for one request, one reading of its signal and one reading of the       *)
(* network.  Policy is the decision_policy block of the configuration.     *)
(*                                                                         *)
(* A request is a record with lane, edge, next, group, movement, level,    *)
(* cancelled, ttl (expires_at_s - sim_time_s), delay, headway, eta,        *)
(* queueDelay (eta_queue_delay_s), distance and halting (slower than       *)
(* 0.1 m/s).  A network reading is a record with occupancy, spilling and   *)
(* halted, a function from lanes to vehicles; NoReading is none at all.    *)
(* The score is kept exact, as a numerator over ScoreUnit; the code rounds *)
(* it to four decimals.                                                    *)
(***************************************************************************)
EXTENDS SignalView

CONSTANTS
    Policy,       \* decision_policy
    Contract,     \* the contract of the TLS
    PhaseMapping, \* [movements -> target_phase_index, Nowhere if not mapped]
    NoReading, EventLifecycleEnabled

ASSUME EngineAssumption ==
    /\ Unread \notin Int
    /\ {Policy.extensionMin, Policy.extensionMax, Policy.extensionDefault,
        Policy.extensionMaxCongested, Policy.rollingIncrement, Policy.arrivalBuffer,
        Policy.truncateTo, Policy.maxGreenRemoved, Policy.dischargeHeadway} \subseteq Int
    /\ Policy.jamSpacing \in Nat \ {0}
    /\ \A g \in Contract.groups : g.maxGreen \in Int /\ g.maxExtension \in Int

Actuating == {"green_extension", "early_green"}

Decision(action, extension, to, target) ==
    [action |-> action, extension |-> extension, to |-> to, target |-> target]

NoIntervention(action) == Decision(action, 0, Unread, Nowhere)

IsEmergency(req) == req.level = "emergency"

-----------------------------------------------------------------------------
(* Score and need.                                                          *)

Clip(value, limit) == Greater(0, Lesser(limit, value))

Magnitude(n) == IF n < 0 THEN -n ELSE n

ScoreUnit == 100 * Policy.delayNorm * Policy.headwayNorm * Policy.distanceNorm

\* _score_breakdown; weights and level weights are hundredths.
Score(req) ==
      Policy.wDelay * Clip(req.delay, Policy.delayNorm)
          * 100 * Policy.headwayNorm * Policy.distanceNorm
    + Policy.wHeadway * Clip(Magnitude(req.headway), Policy.headwayNorm)
          * 100 * Policy.delayNorm * Policy.distanceNorm
    + Policy.wProximity * Clip(Policy.distanceNorm - req.distance, Policy.distanceNorm)
          * 100 * Policy.delayNorm * Policy.headwayNorm
    + Policy.wLevel * Policy.levelWeight[req.level]
          * Policy.delayNorm * Policy.headwayNorm * Policy.distanceNorm

Congested(net) == net # NoReading /\ net.occupancy >= Policy.congestedOccupancy

NeededDelay(net) ==
    IF Congested(net) THEN Greater(Policy.needDelay, Policy.needDelayCongested)
    ELSE Policy.needDelay

NeedMet(req, net) ==
    \/ IsEmergency(req)
    \/ req.delay >= NeededDelay(net)
    \/ Magnitude(req.headway) >= Policy.needHeadway

MinScore(net) ==
    IF Congested(net) THEN Greater(Policy.minScore, Policy.minScoreCongested)
    ELSE Policy.minScore

\* Mutant: the congested threshold holds for emergency vehicles too.
ScoreReached(req, net) == Score(req) >= MinScore(net) * ScoreUnit

ScoreSuffices(req, net) == IsEmergency(req) \/ Score(req) >= MinScore(net) * ScoreUnit

-----------------------------------------------------------------------------
(* Arrival and pressure.                                                    *)

\* _queue_eta_correction_s, less what the on-board unit already counted.
QueueAhead(req, net) ==
    LET halted == net.halted[req.lane]
                      - (IF net.halted[req.lane] > 0 /\ req.halting THEN 1 ELSE 0)
    IN  Lesser(halted, req.distance \div Policy.jamSpacing)

QueueCorrection(req, net) ==
    IF net = NoReading \/ req.lane \notin DOMAIN net.halted THEN 0
    ELSE AtLeastZero(QueueAhead(req, net) * Policy.dischargeHeadway
                         - Greater(0, req.queueDelay))

EffectiveEta(req, net) == req.eta + QueueCorrection(req, net)

CharsOf(view, lane) ==
    IF Len(view.lanes) # Len(view.state) THEN {}
    ELSE {view.state[i] : i \in {i \in DOMAIN view.lanes : view.lanes[i] = lane}}

Greens == {"g", "G"}
Reds == {"r", "R"}

\* The lanes an intervention would hold back: those in pure red for an
\* extension, those in green for a truncation; unknown lanes count.
VictimLanes(req, view, net, victims) ==
    {lane \in DOMAIN net.halted :
        LET chars == CharsOf(view, lane) IN
        /\ EdgeOf[lane] # req.edge
        /\ \/ chars = {}
           \/ victims = "red" /\ chars \cap Greens = {} /\ chars \cap Reds # {}
           \/ victims = "green" /\ chars \cap Greens # {}}

\* _victim_pressure_halted against its threshold.
UnderPressure(req, view, net, victims) ==
    /\ net # NoReading
    /\ req.edge # Nowhere
    /\ MapThenSumSet(LAMBDA lane : net.halted[lane], VictimLanes(req, view, net, victims))
           >= Policy.crossPressure

-----------------------------------------------------------------------------
(* Green: how much longer.                                                  *)

HasGroup(req) == GroupsOf(Contract, req) # {}

\* _target_phase_for_request
TargetPhase(req) ==
    IF PhaseMapping[req.movement] # Nowhere THEN PhaseMapping[req.movement]
    ELSE IF HasGroup(req) THEN Group(Contract, req).phase ELSE Nowhere

\* is_priority_movement_green; without a group the strict flags apply.
MovementIsGreen(req, view) ==
    LET protected == HasGroup(req) => Group(Contract, req).protected
        fallback  == HasGroup(req) /\ Group(Contract, req).edgeFallback
        position  == MovementPosition(view, req, fallback)
    IN  IF position > 0 THEN IsGreenFor(view.state[position], protected)
        ELSE /\ fallback /\ ~protected
             /\ TargetPhase(req) # Nowhere /\ view.phase = TargetPhase(req)

RequiredGreen(req, net) == EffectiveEta(req, net) + Policy.arrivalBuffer

LongestInstalment(req, view, net) ==
    LET max       == Greater(Policy.extensionMin, Policy.extensionMax)
        rolling   == IF EventLifecycleEnabled /\ Policy.rollingIncrement < max
                     THEN Greater(Policy.extensionMin, Policy.rollingIncrement) ELSE max
        pressured == ~IsEmergency(req) /\ UnderPressure(req, view, net, "red")
    IN  IF pressured /\ Policy.extensionMaxCongested < rolling
        THEN Greater(Policy.extensionMin, Policy.extensionMaxCongested) ELSE rolling

DecideInGreen(req, view, net) ==
    IF view.left = Unread \/ view.spent = Unread
    THEN NoIntervention("reevaluate_next_cycle")
    ELSE IF view.left >= RequiredGreen(req, net) THEN NoIntervention("no_action")
    ELSE Decision("green_extension",
                  Greater(Policy.extensionMin,
                          Lesser(LongestInstalment(req, view, net),
                                 RequiredGreen(req, net) - view.left)),
                  Unread, Nowhere)

-----------------------------------------------------------------------------
(* Red: whether to cut the phase, and to what.                              *)

EarliestEta(req) ==
    IF IsEmergency(req) THEN Policy.emergencyMinEta ELSE Policy.earlyGreenMinEta

TruncateTo(view) ==
    IF view.left = Unread THEN Policy.truncateTo
    ELSE Greater(Policy.truncateTo, view.left - Policy.maxGreenRemoved)

NetworkDefers(req, view, net) ==
    /\ ~IsEmergency(req) /\ net # NoReading
    /\ net.spilling \/ UnderPressure(req, view, net, "green")

\* Mutant: the minimum green of the phase to be cut is not looked up.
SequenceAllows(view, target) == SequenceClear(Contract, view.phase, target)

ContractAllows(view, target) ==
    /\ SequenceClear(Contract, view.phase, target)
    /\ view.spent # Unread =>
           view.spent >= MinGreenOf(Contract, Policy.minGreen, view.phase)

WorthCutting(req, view) ==
    view.left = Unread \/ IsEmergency(req)
        \/ AtLeastZero(view.left - TruncateTo(view)) >= Policy.minUseful

DecideInRed(req, view, net) ==
    IF /\ EffectiveEta(req, net) >= EarliestEta(req)
       /\ ~NetworkDefers(req, view, net)
       /\ ContractAllows(view, TargetPhase(req))
       /\ WorthCutting(req, view)
    THEN Decision("early_green", 0, TruncateTo(view), TargetPhase(req))
    ELSE NoIntervention("reevaluate_next_cycle")

Expired(req) == req.ttl # Unread /\ req.ttl < 0

Decide(req, view, net) ==
    IF req.cancelled \/ Expired(req) \/ ~NeedMet(req, net) \/ ~ScoreSuffices(req, net)
    THEN NoIntervention("reject")
    ELSE IF MovementIsGreen(req, view) THEN DecideInGreen(req, view, net)
    ELSE DecideInRed(req, view, net)
=============================================================================
