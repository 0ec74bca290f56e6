---------------------------- MODULE PolicyLearning ----------------------------
(***************************************************************************)
(* From the log of one run to the policy of the next (src/pps57_opt):      *)
(* every decision is logged, event_dataset.py turns the rows into          *)
(* scenarios, optimizer.py or rl_trainer.py learns one rule per bucket     *)
(* from them, and policy_runtime.py loads the rules for the next vehicle.  *)
(*                                                                         *)
(* Rewards are in hundredths; the code rounds them to four decimals.  The  *)
(* exploration rate never reaches zero, so any safe action may be sampled. *)
(***************************************************************************)
EXTENDS BusApproach, SequencesExt

CONSTANTS
    CandidateActions, \* offline_training.candidate_actions, a sequence
    Reward,           \* the reward block of the configuration
    Episodes,         \* reinforcement_learning.episodes
    LearningRate,     \* 1 / alpha
    LoggedBuses, LoggedReadings, \* what comes by in the run that is logged
    LogCap            \* bound of the model on the rows that become scenarios

\* What is logged are vehicles and readings like those to come.
ASSUME LearningAssumption ==
    /\ LoggedBuses \subseteq Buses
    /\ LoggedReadings \subseteq NetworkReadings \cup {NoReading}
    /\ CandidateActions \in Seq({"no_action", "green_extension", "early_green",
                                "reevaluate_next_cycle", "reject"})
    /\ {Reward.perDelay, Reward.perHeadway, Reward.perEta, Reward.etaBaseline,
        Reward.traffic, Reward.pressureFactor, Reward.reevaluate, Reward.reject,
        Reward.unsafe, Reward.truncation, Reward.sufficientGreen,
        Reward.insufficientGreen, Reward.tooClose, Reward.lowScore,
        Reward.rejectPerDelay} \subseteq Int

VARIABLES
    mode,         \* "given", "logging", "training", "sampling" or "learned"
    log,          \* the scenarios, in the order of their time
    cases,        \* what training makes of them: bucket and candidates of each
    sinceApplied, \* seconds since the last row that was applied, Unread if none
    table,        \* q_values: [bucket and action -> value], once visited
    pending,      \* rows that the episode has yet to visit
    episode

learning == <<mode, log, cases, sinceApplied, table, pending, episode>>
allVars == <<vars, learning>>

-----------------------------------------------------------------------------
(* event_dataset.py                                                         *)

\* A row without a network reading is skipped by the loader.
Scenario ==
    [req |-> Request, view |-> View, traffic |-> Traffic, since |-> sinceApplied,
     live |-> Bucket(Request, View, Traffic, sinceIntervention)]

\* The logged state of a signal has its lanes, not its links.
LoggedView(row) == [row.view EXCEPT !.links = <<>>]

OfflineBucket(row) == Bucket(row.req, LoggedView(row), row.traffic, row.since)

-----------------------------------------------------------------------------
(* optimizer.py                                                             *)

Proposals(row) ==
    LET baseline == Decide(row.req, LoggedView(row), NoReading) IN
    <<baseline>> \o [i \in DOMAIN CandidateActions |->
                        PlanAction(CandidateActions[i], row.req, baseline)]

\* A safe cut of a phase about to switch is not blocked: the Safety Layer
\* answers that there is nothing to cut yet.
PutOff(row, d) ==
    /\ d.action = "early_green" /\ Actuable
    /\ ~InYellow(LoggedView(row), row.req, d)
    /\ TruncationSafe(row.req, LoggedView(row), d)
    /\ AboutToSwitch(LoggedView(row), d)

SafeDecision(row, d) ==
    IF PutOff(row, d) THEN NoIntervention("reevaluate_next_cycle") ELSE d

\* A fresh Safety Layer knows no cooldown, no counter and no debt.
Blocked(row, d) == d.action \in Actuating /\ ~Approves(row.req, LoggedView(row), d, 0)

Benefit(req) ==
      Reward.perDelay * AtLeastZero(req.delay)
    + Reward.perHeadway * Magnitude(req.headway)
    + Reward.perEta * AtLeastZero(Reward.etaBaseline - req.eta)

\* The thresholds of _traffic_pressure_multiplier, which are not all those of
\* the bucket.
UnderLoad(traffic) ==
    \/ traffic.queue >= BucketLimits.highQueue \/ traffic.halted >= BucketLimits.highQueue
    \/ traffic.occupancy >= BucketLimits.highOccupancy
    \/ traffic.requests >= BucketLimits.highRequests
    \/ traffic.spilling

PerSecond(row) ==
    Reward.traffic * (IF UnderLoad(row.traffic) THEN Reward.pressureFactor ELSE 1)

Remaining(row) == IF row.view.left = Unread THEN 0 ELSE row.view.left
GreenNeeded(row) == row.req.eta + Policy.arrivalBuffer

RewardOfExtension(row, seconds) ==
    LET missing == GreenNeeded(row) - Remaining(row) IN
    IF missing <= 0 THEN -seconds * PerSecond(row)
    ELSE (Benefit(row.req) * Lesser(seconds, missing)) \div missing - seconds * PerSecond(row)

RewardOfTruncation(row, to) ==
    IF row.req.eta < Policy.earlyGreenMinEta THEN -2 * Reward.reevaluate
    ELSE Benefit(row.req) - AtLeastZero(Remaining(row) - to) * PerSecond(row) - Reward.truncation

RewardOfNoAction(row) ==
    IF /\ PhaseMapping[row.req.movement] # Nowhere
       /\ row.view.phase = PhaseMapping[row.req.movement]
       /\ Remaining(row) >= GreenNeeded(row)
    THEN Benefit(row.req) + Reward.sufficientGreen
    ELSE -((Benefit(row.req) * Reward.insufficientGreen) \div 100)

RewardOfWaiting(row) ==
    IF row.req.eta < Policy.earlyGreenMinEta THEN Reward.tooClose ELSE -Reward.reevaluate

LowScore(req) == Score(req) < Policy.minScore * ScoreUnit

RewardOfRejecting(row) ==
    IF LowScore(row.req) THEN Reward.lowScore
    ELSE -Reward.reject - Reward.rejectPerDelay * AtLeastZero(row.req.delay)

RewardOf(row, d) ==
    CASE Blocked(row, d) -> -Reward.unsafe
      [] ~Blocked(row, d) /\ d.action \in Actuating /\ LowScore(row.req) -> -2 * Reward.reject
      [] OTHER ->
          CASE d.action = "green_extension" ->
                  RewardOfExtension(row, ApprovedExtension(row.req, LoggedView(row), d, 0))
            [] d.action = "early_green" -> RewardOfTruncation(row, d.to)
            [] d.action = "no_action" -> RewardOfNoAction(row)
            [] d.action = "reevaluate_next_cycle" -> RewardOfWaiting(row)
            [] d.action = "reject" -> RewardOfRejecting(row)

Candidate(row, d) ==
    [action |-> d.action, blocked |-> Blocked(row, d), reward |-> RewardOf(row, d)]

Candidates(row) ==
    [i \in DOMAIN Proposals(row) |-> Candidate(row, SafeDecision(row, Proposals(row)[i]))]

\* _evaluate_scenario
Case(row) == [bucket |-> OfflineBucket(row), candidates |-> Candidates(row)]

\* _select_candidate: the first of the best that the Safety Layer lets through.
Selected(all) ==
    LET allowed == {i \in DOMAIN all : ~all[i].blocked}
        best    == {i \in allowed : \A j \in allowed : all[j].reward <= all[i].reward}
    IN  IF allowed = {} THEN all[1] ELSE all[Min(best)]

\* Of the scenarios of a bucket, the first with the largest reward makes the rule.
OptimizerRules ==
    LET chosen == [i \in DOMAIN cases |-> Selected(cases[i].candidates)] IN
    [b \in {c.bucket : c \in Range(cases)} |->
        LET same == {i \in DOMAIN cases : cases[i].bucket = b}
            best == {i \in same : \A j \in same : chosen[j].reward <= chosen[i].reward}
        IN  chosen[Min(best)].action]

-----------------------------------------------------------------------------
(* rl_trainer.py                                                            *)

\* Of two candidates with one action, the later one counts.
CandidateFor(i, action) ==
    LET all == cases[i].candidates IN all[Max({k \in DOMAIN all : all[k].action = action})]

\* Those that some candidate has: one that was put off is not among them.
Available(i) ==
    {a \in Range(CandidateActions) : \E c \in Range(cases[i].candidates) : c.action = a}

\* Mutant: what the Safety Layer blocked may be sampled.
SampledActions(i) == Available(i)

SafeActions(i) == {a \in Available(i) : ~CandidateFor(i, a).blocked}

Value(state, action) ==
    IF <<state, action>> \in DOMAIN table THEN table[<<state, action>>] ELSE 0

\* Values are kept exact, in units that the updates of a training divide.
Unit == LearningRate ^ (Episodes * LogCap)

Updated(i, action) ==
    LET old == Value(cases[i].bucket, action) IN
    old + (CandidateFor(i, action).reward * Unit - old) \div LearningRate

WithValue(key, value) ==
    [k \in DOMAIN table \cup {key} |-> IF k = key THEN value ELSE table[k]]

VisitedActions(b) == {key[2] : key \in {key \in DOMAIN table : key[1] = b}}

\* Equal values are told apart by the order in which they were inserted.
BestActions(b) ==
    {a \in VisitedActions(b) : \A other \in VisitedActions(b) : Value(b, other) <= Value(b, a)}

LearnedBuckets == {key[1] : key \in DOMAIN table}

-----------------------------------------------------------------------------

LearnInit ==
    /\ Init
    /\ \/ mode = "given"
       \/ /\ mode = "logging" /\ rules = <<>> /\ fault = "none"
          /\ bus \in LoggedBuses /\ net \in LoggedReadings
    /\ log = <<>> /\ cases = <<>> /\ sinceApplied = Unread
    /\ table = <<>> /\ pending = {} /\ episode = 0

Logs == mode = "logging" /\ net # NoReading

\* The decision is logged before the actuation; whether it was applied, with it.
Serve(action, applied) ==
    /\ action
    /\ log' = IF Logs THEN Append(log, Scenario) ELSE log
    /\ sinceApplied' = IF mode = "logging" /\ applied THEN 0 ELSE sinceApplied
    /\ UNCHANGED <<mode, cases, table, pending, episode>>

IsRoom == Len(log) < LogCap

\* The readings of the run that is logged are complete at most LogCap times.
Pass ==
    /\ Drive \/ Cross
    /\ mode # "given" /\ stage' = "decide" =>
          /\ fault' = "none"
          /\ net' \in IF mode = "logging" /\ IsRoom THEN LoggedReadings ELSE {NoReading}
    /\ sinceApplied' = IF stage' = "decide" /\ sinceApplied # Unread
                       THEN Lesser(sinceApplied + 1, BucketLimits.recent) ELSE sinceApplied
    /\ UNCHANGED <<mode, log, cases, table, pending, episode>>

\* The next vehicle comes to a signal at rest, under the rules just exported.
NextVehicle(policy) ==
    /\ mode' = "learned"
    /\ log' = <<>> /\ cases' = <<>> /\ sinceApplied' = Unread /\ table' = <<>> /\ pending' = {} /\ episode' = 0
    /\ rules' = policy
    /\ phase' \in 0 .. PhaseCount - 1 /\ spent' = 0 /\ left' = PlanDuration[phase']
    /\ bus' \in Buses /\ eta' \in FirstEtas
    /\ net' = NoReading /\ fault' = "none"
    /\ ration' = Rested /\ sinceIntervention' = Unread /\ event' = NoEvent
    /\ stage' = "decide" /\ covered' = FALSE

\* The log is read and every scenario evaluated, once for both ways of training.
LoadLog ==
    /\ mode = "logging" /\ stage = "crossed" /\ log # <<>>
    /\ mode' = "training"
    /\ cases' = [i \in DOMAIN log |-> Case(log[i])]
    /\ UNCHANGED <<vars, log, sinceApplied, table, pending, episode>>

Optimize == mode = "training" /\ NextVehicle(OptimizerRules)

NextEpisode ==
    /\ mode = "training" \/ (mode = "sampling" /\ pending = {} /\ episode < Episodes)
    /\ mode' = "sampling" /\ pending' = DOMAIN cases /\ episode' = episode + 1
    /\ UNCHANGED <<vars, log, cases, sinceApplied, table>>

\* A scenario of the shuffled order; without a safe action it is passed over.
Sample(i, action) ==
    /\ mode = "sampling" /\ i \in pending
    /\ IF SafeActions(i) = {} THEN table' = table
       ELSE /\ action \in SafeActions(i)
            /\ table' = WithValue(<<cases[i].bucket, action>>, Updated(i, action))
    /\ pending' = pending \ {i}
    /\ UNCHANGED <<vars, mode, log, cases, sinceApplied, episode>>

ExportRules ==
    /\ mode = "sampling" /\ pending = {} /\ episode = Episodes
    /\ \E policy \in [LearnedBuckets -> Range(CandidateActions)] :
          /\ \A b \in LearnedBuckets : policy[b] \in BestActions(b)
          /\ NextVehicle(policy)

LearnNext ==
    \/ Serve(Intervene, TRUE) \/ Serve(LeaveAlone, FALSE) \/ Pass
    \/ LoadLog \/ Optimize \/ NextEpisode \/ ExportRules
    \/ \E i \in 1 .. LogCap, action \in Range(CandidateActions) : Sample(i, action)

LearnSpec == LearnInit /\ [][LearnNext]_allVars
-----------------------------------------------------------------------------
(* Properties.                                                              *)

\* Both ways of training export, for the bucket of a scenario, only an action
\* that the Safety Layer let through in a scenario of that bucket.
RulesComeFromSafeActions ==
    [][mode # "learned" /\ mode' = "learned" =>
          \A b \in DOMAIN rules' : \E c \in Range(cases) :
              /\ c.bucket = b
              /\ \E k \in DOMAIN c.candidates :
                    /\ c.candidates[k].action = rules'[b]
                    /\ ~c.candidates[k].blocked]_allVars

=============================================================================
