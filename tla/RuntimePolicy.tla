---------------------------- MODULE RuntimePolicy ----------------------------
(***************************************************************************)
(* The learned policy at run time (src/pps57_opt/policy_runtime.py): the   *)
(* situation of a request is classified into a bucket (state.py), and a    *)
(* rule for that bucket replaces the action the engine proposed            *)
(* (action_planner.py), except that it may not suppress an intervention.   *)
(* Rules are a function from buckets to actions; a bucket is a record.     *)
(***************************************************************************)
EXTENDS DecisionEngine

CONSTANTS
    BucketLimits,   \* policy_runtime.state_buckets
    AllowSuppress   \* allow_policy_suppress_baseline_actuation

CharBucket(char) ==
    CASE char \in {"y", "Y"} -> "yellow"
      [] char = "G" -> "priority_movement_green"
      [] char = "g" -> "priority_movement_permissive_green"
      [] char \in {"r", "R"} -> "priority_movement_not_green"
      [] OTHER -> "phase_unknown"

PhaseBucket(req, view) ==
    LET position == MovementPosition(view, req, FALSE)
        bucket == IF position > 0 THEN CharBucket(view.state[position]) ELSE "phase_unknown"
    IN  CASE bucket # "phase_unknown" -> bucket
          [] bucket = "phase_unknown" /\ PhaseMapping[req.movement] # Nowhere
                 /\ view.phase = PhaseMapping[req.movement] -> "priority_movement_green"
          [] bucket = "phase_unknown" /\ view.phase # Unread
                 /\ (PhaseMapping[req.movement] = Nowhere \/ view.phase # PhaseMapping[req.movement]) ->
                 "priority_movement_not_green"
          [] OTHER -> IF AnyYellow(view) THEN "yellow" ELSE "phase_unknown"

EtaBucket(eta) ==
    IF eta >= BucketLimits.etaFar THEN "eta_far"
    ELSE IF eta <= BucketLimits.etaClose THEN "eta_close" ELSE "eta_mid"

DelayBucket(delay) ==
    IF delay >= BucketLimits.delayHigh THEN "delay_high"
    ELSE IF delay >= BucketLimits.delayMedium THEN "delay_medium" ELSE "delay_low"

SwitchClose(view) == view.left # Unread /\ view.left <= BucketLimits.switchClose

\* A traffic reading: requests, queue, halted, speed, waiting, occupancy (per
\* cent) and spilling.
TrafficPressure(traffic) ==
    \/ traffic.requests >= BucketLimits.highRequests
    \/ traffic.queue >= BucketLimits.highQueue
    \/ traffic.halted >= BucketLimits.highHalted
    \/ 0 < traffic.speed /\ traffic.speed <= BucketLimits.lowSpeed
    \/ traffic.waiting >= BucketLimits.highWaiting
    \/ traffic.occupancy >= BucketLimits.highOccupancy
    \/ traffic.spilling

InterventionBucket(since) ==
    IF since = Unread THEN "intervention_unknown"
    ELSE IF since < BucketLimits.recent THEN "intervention_recent" ELSE "intervention_clear"

\* state_bucket_for_context
Bucket(req, view, traffic, since) ==
    [phase        |-> PhaseBucket(req, view),
     eta          |-> EtaBucket(req.eta),
     delay        |-> DelayBucket(req.delay),
     switch       |-> SwitchClose(view),
     pressure     |-> TrafficPressure(traffic),
     intervention |-> InterventionBucket(since)]

\* decision_for_action: the action in place of the one of the baseline.
PlanAction(action, req, baseline) ==
    CASE action = "green_extension" ->
            Decision(action,
                     IF baseline.extension > 0 THEN baseline.extension
                     ELSE Policy.extensionDefault, Unread, Nowhere)
      [] action = "early_green" ->
            Decision(action, 0, Policy.truncateTo,
                     IF baseline.target # Nowhere THEN baseline.target
                     ELSE PhaseMapping[req.movement])
      [] OTHER -> NoIntervention(action)

\* RuntimePolicy.decide
ApplyRule(rules, bucket, req, baseline) ==
    IF \/ bucket \notin DOMAIN rules
       \/ /\ baseline.action \in Actuating
          /\ rules[bucket] \notin Actuating
          /\ ~AllowSuppress
    THEN baseline
    ELSE PlanAction(rules[bucket], req, baseline)
=============================================================================
