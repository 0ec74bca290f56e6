--------------------------- MODULE CampaignVerdicts ---------------------------
(***************************************************************************)
(* How scripts/run_sumo_scenario.py judges a scenario: the verdict of one  *)
(* run, the insertion gate relative to the baseline of the same seed, the  *)
(* worst of the replications, the comparison of the arms on means, the     *)
(* test paired by seed (with pps57_sumo/stats.py), and the verdict of the  *)
(* scenario.  Reasons are sets.                                            *)
(*                                                                         *)
(* An arm is the sequence of its replications, in the order of the seeds:  *)
(* [seed, kpis, verdict].  An arm with one seed is not aggregated; the     *)
(* mean, the maximum and the worst of one replication are its own.         *)
(***************************************************************************)
EXTENDS SumoOutputs

\* configs' sumo_quality_thresholds: [collisions, teleports, jam, braking, brakingPerThousand,
\* enoughForRates, waiting, waitingAtEnd, gapAtEnd, backlogPercent].
CONSTANT Thresholds

Rank(status) == CASE status = "pass" -> 0 [] status = "inconclusive" -> 1 [] OTHER -> 2

Worst(statuses) ==
    IF statuses = {} THEN "pass"
    ELSE CHOOSE s \in statuses : \A t \in statuses : Rank(t) <= Rank(s)

TooMuchBraking(k) ==
    \/ k.safety.braking > Thresholds.braking
    \/ /\ k.trips.vehicles >= Thresholds.enoughForRates
       /\ 1000 * k.safety.braking
             > Thresholds.brakingPerThousand
                   * (IF k.trips.vehicles > 0 THEN k.trips.vehicles ELSE 1000)

\* The hard reasons of _verdict_reason_lists; `short' is a run of fewer than 1800 steps.
HardReasons(k, short) ==
    LET holds == [no_completed_vehicles |-> k.trips.vehicles = 0,
                  no_completed_buses    |-> k.trips.buses = 0 /\ ~short,
                  collisions            |-> k.safety.collisions > Thresholds.collisions,
                  teleports             |-> k.safety.teleports > Thresholds.teleports,
                  jam_teleports         |-> k.safety.jam > Thresholds.jam,
                  emergency_braking     |-> TooMuchBraking(k),
                  waiting_at_end        |-> k.safety.waiting > Thresholds.waitingAtEnd,
                  gap_at_end            |-> k.insertion.gapAtEnd > Thresholds.gapAtEnd,
                  max_waiting           |-> k.insertion.maxWaiting > Thresholds.waiting,
                  backlog               |-> 100 * k.insertion.backlog
                                               > Thresholds.backlogPercent * k.insertion.steps]
    IN  {r \in DOMAIN holds : holds[r]}

Inconclusive(k, short) ==
    LET holds == [statistics_unavailable |-> ~k.safety.complete,
                  summary_unavailable    |-> k.insertion.parseError,
                  no_buses_in_short_run  |-> k.trips.buses = 0 /\ short]
    IN  {r \in DOMAIN holds : holds[r]}

RunVerdict(k, short) ==
    IF k.tripinfo # "whole" THEN [status |-> "fail", reasons |-> {k.tripinfo}]
    ELSE IF HardReasons(k, short) # {}
    THEN [status |-> "fail", reasons |-> HardReasons(k, short)]
    ELSE IF Inconclusive(k, short) # {}
    THEN [status |-> "inconclusive", reasons |-> Inconclusive(k, short)]
    ELSE [status |-> "pass", reasons |-> {}]

(***************************************************************************)
(* apply_relative_insertion_gate.                                          *)
(***************************************************************************)
OfSeed(arm, seed) == {arm[i] : i \in {j \in DOMAIN arm : arm[j].seed = seed}}

WithinBaseline(candidate, base) ==
    10 * candidate.insertion.maxWaiting
        <= Max({10 * Thresholds.waiting, 11 * base.insertion.maxWaiting})

\* Mutant: nothing is left of the verdict, so the run passes.
RelaxedToPass(verdict, k, short) ==
    LET left == verdict.reasons \ {"max_waiting"}
    IN  [status |-> IF left = {} THEN "pass" ELSE "fail", reasons |-> left]

\* The verdict without the insertion reason: what is inconclusive comes back.
Relaxed(verdict, k, short) ==
    LET left == verdict.reasons \ {"max_waiting"}
    IN  IF left # {} THEN [status |-> "fail", reasons |-> left]
        ELSE [status |-> IF Inconclusive(k, short) # {} THEN "inconclusive" ELSE "pass",
              reasons |-> Inconclusive(k, short)]

Gated(replica, baseline, short) ==
    IF /\ "max_waiting" \in replica.verdict.reasons
       /\ \E base \in OfSeed(baseline, replica.seed) : WithinBaseline(replica.kpis, base.kpis)
    THEN [replica EXCEPT !.verdict = Relaxed(replica.verdict, replica.kpis, short)]
    ELSE replica

AfterGate(arms, short) ==
    [a \in DOMAIN arms |->
        IF a = "baseline" \/ "baseline" \notin DOMAIN arms THEN arms[a]
        ELSE [i \in DOMAIN arms[a] |-> Gated(arms[a][i], arms["baseline"], short)]]

\* _recompute_aggregate_verdict: the worst of the replications.
ArmStatus(arm) == Worst({arm[i].verdict.status : i \in DOMAIN arm})

(***************************************************************************)
(* The comparison of the arms.                                             *)
(***************************************************************************)
BusLoss(arm) == [i \in DOMAIN arm |-> [seed |-> arm[i].seed, value |-> arm[i].kpis.trips.busLoss]]
GeneralLoss(arm) ==
    [i \in DOMAIN arm |-> [seed |-> arm[i].seed, value |-> arm[i].kpis.trips.generalLoss]]
Queue(arm) == [i \in DOMAIN arm |-> arm[i].kpis.queue]

\* _aggregate_replications, _compute_kpi_aggregate, _mean_kpis_for_compare: the mean over seeds.
MeanOverSeeds(loss) == Mean([i \in DOMAIN loss |-> loss[i].value])

\* _metric_delta.
Delta(base, candidate) ==
    [known |-> base # Missing /\ candidate # Missing,
     change |-> candidate - base, base |-> base]

\* compare_kpis: the queue is the longest of any seed, not a mean.
Comparison(baseline, candidate) ==
    LET bus == Delta(MeanOverSeeds(BusLoss(baseline)), MeanOverSeeds(BusLoss(candidate)))
        general == Delta(MeanOverSeeds(GeneralLoss(baseline)),
                         MeanOverSeeds(GeneralLoss(candidate)))
        holds == [bus_regression |-> bus.known /\ bus.base # 0 /\ 10 * bus.change > bus.base,
                  general_penalty |-> general.known /\ general.change > 90,
                  queue |-> Highest(Queue(candidate)) > 30]
    IN  [busChange |-> bus, fails |-> {r \in DOMAIN holds : holds[r]}]

(***************************************************************************)
(* _paired_significance with mean_ci95.  The 95% interval of the mean      *)
(* excludes 0 iff mean^2 > t^2 s^2 / n, in integers: the square of t in    *)
(* hundredths, for up to 5 seeds (the scenarios have 5).                   *)
(***************************************************************************)
TSquared == <<16144, 1852, 1013, 771>>

ExcludesZero(deltas) ==
    LET n == Cardinality(DOMAIN deltas)
        squares == SumFunction([i \in DOMAIN deltas |-> deltas[i] * deltas[i]])
        sum == SumFunction(deltas)
    IN  100 * sum * sum * (n - 1) > TSquared[n - 1] * (n * squares - sum * sum)

\* Improvement of each seed both arms have a value for.
PairedImprovements(baseline, candidate) ==
    LET pairs == {i \in DOMAIN baseline :
                     /\ baseline[i].value # Missing
                     /\ \E c \in OfSeed(candidate, baseline[i].seed) : c.value # Missing}
    IN  [i \in pairs |->
            baseline[i].value - (CHOOSE c \in OfSeed(candidate, baseline[i].seed) : TRUE).value]

Significance(baseline, candidate) ==
    LET deltas == PairedImprovements(baseline, candidate)
    IN  IF Cardinality(DOMAIN deltas) < 2 THEN "none"
        ELSE IF ~ExcludesZero(deltas) THEN "includes_zero"
        ELSE IF SumFunction(deltas) > 0 THEN "improvement"
        ELSE "regression"

\* compare_scenario_runs.
Comparisons(arms) ==
    IF {"baseline", "tsp_actuation"} \subseteq DOMAIN arms
    THEN {[result |-> Comparison(arms["baseline"], arms["tsp_actuation"]),
           bus |-> Significance(BusLoss(arms["baseline"]), BusLoss(arms["tsp_actuation"]))]}
    ELSE {}

\* scenario_verdict: a failure dominates, then what is inconclusive.
ScenarioStatus(arms) ==
    Worst({ArmStatus(arms[a]) : a \in DOMAIN arms}
              \cup {IF c.result.fails # {} THEN "fail" ELSE "pass" : c \in Comparisons(arms)})
===============================================================================
