------------------------------- MODULE Campaign -------------------------------
(***************************************************************************)
(* A campaign of simulations: scripts/run_sumo_scenario.py.  An invocation *)
(* runs every arm of every scenario asked for with every seed (a leaf),    *)
(* either one after the other in its own process or in a pool of worker    *)
(* processes, each with a TraCI port of its own and up to three attempts;  *)
(* it then judges the scenarios (CampaignVerdicts) and merges their        *)
(* summaries into the suite on disk, from which the exit code and the      *)
(* reports come.                                                           *)
(*                                                                         *)
(* The world around it: a simulation may fail or leave any of a set of     *)
(* files behind; `make run' may have left its outputs in the global        *)
(* directory; the process may be killed at any point, in the middle of the *)
(* write of the suite too.                                                 *)
(***************************************************************************)
EXTENDS CampaignVerdicts

CONSTANTS
    Catalog,        \* the sequence of the scenarios
    SeedsOf,        \* scenario -> the sequence of its seeds
    FilesOf,        \* [scenario, arm] -> the files a simulation may leave
    StaleFiles,     \* the files `make run' leaves
    Invocations,    \* [asked, all, arms, jobs, short, generate]
    MaxInvocations,
    PortBase,       \* PPS57_TRACI_PORT_BASE
    MaxAttempts     \* PPS57_LEAF_MAX_ATTEMPTS

PortStride == 20000
MaxPort == 65535

ASSUME CampaignAssumption ==
    /\ IsInjective(Catalog)
    /\ \A s \in DOMAIN SeedsOf :
          SeedsOf[s] \in Seq(Nat) /\ SeedsOf[s] # <<>> /\ IsInjective(SeedsOf[s])
    /\ \A a \in Invocations :
          /\ a.asked \in Seq(DOMAIN SeedsOf) /\ a.arms \in Seq(STRING)
          /\ a.arms = <<"baseline", "tsp_actuation">> \/ Len(a.arms) = 1
    /\ PortBase \in Nat /\ MaxAttempts \in Nat \ {0}

\* A file that is missing or cannot be read says nothing.
IsFiles(files) ==
    /\ files.tripinfo \in {"whole", "broken", "malformed", "absent"}
    /\ files.trips \in Seq(ToSet(files.trips))
    /\ \A i \in DOMAIN files.trips : files.trips[i].loss \in Nat
    /\ files.waiting \in Seq(Nat) /\ (files.summary # "whole" => files.waiting = <<>>)
    /\ \A name \in {"collisions", "jam"} : files.counters[name] \in Nat
    /\ files.queues \in Seq(Seq(Int)) /\ (files.detectors = "absent" => files.queues = <<>>)

ASSUME FilesAssumption ==
    /\ {Thresholds.collisions, Thresholds.jam, Thresholds.waiting} \subseteq Int
    /\ \A a \in Invocations, scenario \in DOMAIN SeedsOf : \A arm \in ToSet(a.arms) :
          \A files \in FilesOf[scenario, arm] : IsFiles(files)

VARIABLES
    args,       \* the invocation under way
    phase,      \* "idle", "running" or "writing"
    leaves,     \* leaf -> [state, attempt, files, read]
    completed,  \* the leaves collected, in the order they completed
    summaries,  \* the summaries of this invocation, one per scenario judged
    judged,     \* how many of the scenarios asked for have been judged
    suite,      \* scenario_suite_summary.json
    pending,    \* what is being written into it
    globals,    \* are there files in the global output directory?
    invoked,    \* how many invocations were started
    exit        \* how the last one ended, or "running"

vars == <<args, phase, leaves, completed, summaries, judged, suite, pending, globals, invoked, exit>>

Absent == [kind |-> "absent"]
Corrupt == [kind |-> "corrupt"]
Stored(verdicts) == [kind |-> "stored", verdicts |-> verdicts]

Verdicts(s) == IF s.kind = "stored" THEN s.verdicts ELSE <<>>

\* _scenario_run_plan and the task list: scenario by scenario, arm by arm, seed by seed.
LeavesOf(a, scenario) ==
    FlattenSeq([i \in DOMAIN a.arms |->
        [j \in DOMAIN SeedsOf[scenario] |->
            [scenario |-> scenario, arm |-> a.arms[i], seed |-> SeedsOf[scenario][j]]]])

Tasks(a) == FlattenSeq([i \in DOMAIN a.asked |-> LeavesOf(a, a.asked[i])])

\* _resolve_jobs; generating files is always serial.
Jobs(a) == IF a.jobs <= Len(Tasks(a)) THEN a.jobs ELSE Len(Tasks(a))
Parallel(a) == Jobs(a) > 1 /\ ~a.generate

Index(leaf) == CHOOSE i \in DOMAIN Tasks(args) : Tasks(args)[i] = leaf

\* The port of an attempt of a pooled leaf.
Port(index, attempt) == PortBase + index - 1 + attempt * PortStride

Live == {leaf \in DOMAIN leaves : leaves[leaf].state = "live"}
Ended(leaf) == leaves[leaf].state \in {"done", "failed"}

NoInvocation == [asked |-> <<>>, all |-> FALSE, arms |-> <<>>, jobs |-> 1,
                 short |-> FALSE, generate |-> FALSE]

\* The process is gone: nothing but the files is left.
Idle ==
    /\ args' = NoInvocation
    /\ leaves' = <<>>
    /\ completed' = <<>>
    /\ summaries' = <<>>
    /\ judged' = 0
    /\ pending' = <<>>

\* main, up to the first leaf: more leaves than there are ports is refused.
Start(a) ==
    /\ phase = "idle" /\ invoked < MaxInvocations
    /\ ~Parallel(a) \/ PortBase + Len(Tasks(a)) <= 65000
    /\ invoked' = invoked + 1
    /\ phase' = "running"
    /\ args' = a
    /\ leaves' = [leaf \in ToSet(Tasks(a)) |-> [state |-> "queued", attempt |-> 0]]
    /\ exit' = "running"
    /\ UNCHANGED <<completed, summaries, judged, suite, pending, globals>>

\* The next leaf of the plan starts when a worker is free; serially, when the
\* scenarios before it have been judged.  A simulation first clears the global outputs.
Launch(leaf) ==
    /\ phase = "running" /\ leaves[leaf].state = "queued"
    /\ \A i \in 1..(Index(leaf) - 1) : leaves[Tasks(args)[i]].state # "queued"
    /\ IF Parallel(args) THEN Cardinality(Live) < Jobs(args)
       ELSE Live = {} /\ leaf.scenario = args.asked[judged + 1]
    /\ leaves' = [leaves EXCEPT ![leaf].state = "live"]
    /\ globals' = (globals /\ args.generate)
    /\ UNCHANGED <<args, phase, completed, summaries, judged, suite, pending, invoked, exit>>

\* run_scenario_type ends: what it reads are the files of the global directory, if
\* there are any, over its own.
Finish(leaf) ==
    /\ phase = "running" /\ leaf \in Live
    /\ \E files \in (IF args.generate THEN {StaleFiles} ELSE FilesOf[leaf.scenario, leaf.arm]) :
          /\ args.generate \/ ~Unreadable(files)
          /\ leaves' = [leaves EXCEPT ![leaf] =
                           [state |-> "done", attempt |-> @.attempt, files |-> files,
                            read |-> IF globals THEN StaleFiles ELSE files]]
    /\ completed' = Append(completed, leaf)
    /\ UNCHANGED <<args, phase, summaries, judged, suite, pending, globals, invoked, exit>>

TriesAgain(attempt) == attempt + 1 < MaxAttempts

\* _run_leaf_task: a failed simulation is tried again on another port, then given up.
Retry(leaf) ==
    /\ phase = "running" /\ leaf \in Live /\ Parallel(args)
    /\ TriesAgain(leaves[leaf].attempt)
    /\ leaves' = [leaves EXCEPT ![leaf].attempt = @ + 1]
    /\ globals' = FALSE
    /\ UNCHANGED <<args, phase, completed, summaries, judged, suite, pending, invoked, exit>>

GiveUp(leaf) ==
    /\ phase = "running" /\ leaf \in Live /\ Parallel(args)
    /\ ~TriesAgain(leaves[leaf].attempt)
    /\ leaves' = [leaves EXCEPT ![leaf].state = "failed"]
    /\ UNCHANGED <<args, phase, completed, summaries, judged, suite, pending, globals, invoked, exit>>

\* Serially nothing catches the failure: the invocation ends there.
Fails(leaf) ==
    /\ phase = "running" /\ leaf \in Live /\ ~Parallel(args) /\ ~args.generate
    /\ phase' = "idle" /\ exit' = "failed"
    /\ Idle
    /\ UNCHANGED <<suite, globals, invoked>>

(***************************************************************************)
(* Judging a scenario.                                                     *)
(***************************************************************************)
Arms(a) == ToSet(a.arms)
LeafOf(scenario, arm, seed) == [scenario |-> scenario, arm |-> arm, seed |-> seed]

EveryArmHasIt(scenario, seed) ==
    \A arm \in Arms(args) : leaves[LeafOf(scenario, arm, seed)].state = "done"

\* Those elements of a sequence that are in a set, in their order.
Only(seq, set) ==
    FlattenSeq([i \in DOMAIN seq |-> IF seq[i] \in set THEN <<seq[i]>> ELSE <<>>])

Complete(scenario) == {seed \in ToSet(SeedsOf[scenario]) : EveryArmHasIt(scenario, seed)}

\* effective_seeds: a leaf that was given up takes its seed out of every arm.
EffectiveSeeds(scenario) == Only(SeedsOf[scenario], Complete(scenario))

\* Mutant: replications in the order they completed.
InOrderOfCompletion(scenario, arm, seeds) ==
    [i \in DOMAIN SelectSeq(completed, LAMBDA l : l.scenario = scenario /\ l.arm = arm) |->
        SelectSeq(completed, LAMBDA l : l.scenario = scenario /\ l.arm = arm)[i].seed]

\* _scenario_runs_from_leaves: replications in the order of the plan.
InOrderOfPlan(scenario, arm, seeds) == seeds

Replications(scenario, arm) ==
    LET seeds == InOrderOfPlan(scenario, arm, EffectiveSeeds(scenario))
    IN  [i \in DOMAIN seeds |->
            LET kpis == RunKpis(leaves[LeafOf(scenario, arm, seeds[i])].read)
            IN  [seed |-> seeds[i], kpis |-> kpis, verdict |-> RunVerdict(kpis, args.short)]]

\* finalize_scenario.  Files that were only generated have no verdicts.
Summary(scenario) ==
    IF args.generate
    THEN [scenario |-> scenario, seeds |-> SeedsOf[scenario], arms |-> <<>>,
          comparisons |-> {}, status |-> "pass"]
    ELSE LET arms == AfterGate([arm \in Arms(args) |-> Replications(scenario, arm)], args.short)
         IN  [scenario |-> scenario, seeds |-> EffectiveSeeds(scenario), arms |-> arms,
              comparisons |-> Comparisons(arms), status |-> ScenarioStatus(arms)]

\* Scenarios are judged in the order asked for: all at the end of the pool, or each
\* when its own leaves are done.  One with no seed complete is left out.
Judge ==
    /\ phase = "running" /\ judged < Len(args.asked)
    /\ LET scenario == args.asked[judged + 1]
       IN  /\ \A leaf \in DOMAIN leaves :
                 (Parallel(args) \/ leaf.scenario = scenario) => Ended(leaf)
           /\ summaries' = IF EffectiveSeeds(scenario) = <<>> THEN summaries
                           ELSE Append(summaries, Summary(scenario))
    /\ judged' = judged + 1
    /\ UNCHANGED <<args, phase, leaves, completed, suite, pending, globals, invoked, exit>>

(***************************************************************************)
(* The suite.                                                              *)
(***************************************************************************)
\* Mutant: a summary that cannot be read counts as empty.
AlwaysReadable(a) == TRUE

\* A corrupt suite is not overwritten by part of it.
MayMerge(a) == a.all \/ suite.kind # "corrupt"

Judged == [s \in {summaries[i].scenario : i \in DOMAIN summaries} |->
              (CHOOSE r \in ToSet(summaries) : r.scenario = s).status]

Merged(a) ==
    LET stored == IF a.all THEN <<>> ELSE Verdicts(suite)
    IN  [s \in DOMAIN Judged \cup DOMAIN stored |->
            IF s \in DOMAIN Judged THEN Judged[s] ELSE stored[s]]

ExitCode(verdicts) ==
    IF \A s \in DOMAIN verdicts : verdicts[s] = "pass" THEN "ok" ELSE "not_passing"

\* Generated files leave the suite alone, and exit on their own verdicts.
Close ==
    /\ phase = "running" /\ judged = Len(args.asked)
    /\ args.generate \/ ~MayMerge(args)
    /\ phase' = "idle"
    /\ exit' = IF args.generate THEN ExitCode(Judged) ELSE "refused"
    /\ Idle
    /\ UNCHANGED <<suite, globals, invoked>>

\* write_text empties the file before it writes.
OpenSuite ==
    /\ phase = "running" /\ judged = Len(args.asked)
    /\ ~args.generate /\ MayMerge(args)
    /\ phase' = "writing"
    /\ pending' = Merged(args)
    /\ suite' = Corrupt
    /\ UNCHANGED <<args, leaves, completed, summaries, judged, globals, invoked, exit>>

WriteSuite ==
    /\ phase = "writing"
    /\ suite' = Stored(pending)
    /\ phase' = "idle"
    /\ exit' = ExitCode(pending)
    /\ Idle
    /\ UNCHANGED <<globals, invoked>>

(***************************************************************************)
(* The world around.                                                       *)
(***************************************************************************)
Killed ==
    /\ phase # "idle"
    /\ phase' = "idle" /\ exit' = "killed"
    /\ Idle
    /\ UNCHANGED <<suite, globals, invoked>>

MakeRun ==
    /\ phase = "idle" /\ ~globals
    /\ globals' = TRUE
    /\ UNCHANGED <<args, phase, leaves, completed, summaries, judged, suite, pending, invoked, exit>>

Init ==
    /\ args = NoInvocation
    /\ phase = "idle"
    /\ leaves = <<>> /\ completed = <<>> /\ summaries = <<>> /\ judged = 0
    /\ suite = Absent /\ pending = <<>>
    /\ globals = FALSE
    /\ invoked = 0 /\ exit = "ok"

Step ==
    \/ \E leaf \in DOMAIN leaves :
          Launch(leaf) \/ Finish(leaf) \/ Retry(leaf) \/ GiveUp(leaf) \/ Fails(leaf)
    \/ Judge \/ Close \/ OpenSuite \/ WriteSuite

Next == Step \/ Killed \/ MakeRun \/ \E a \in Invocations : Start(a)

Spec == Init /\ [][Next]_vars

(***************************************************************************)
(* Properties.                                                             *)
(***************************************************************************)
Longest(files) == Max({0} \cup ToSet(files.waiting))

\* A run that stands for its seed: its own files are all there and say that vehicles and
\* buses arrived, within every threshold that has no relative form.
Sound(files) ==
    /\ files.tripinfo = "whole" /\ files.statistics = "whole" /\ files.summary # "broken"
    /\ ToSet(Blocks) \subseteq files.blocks
    /\ \E i \in DOMAIN files.trips : files.trips[i].bus
    /\ files.counters.collisions <= Thresholds.collisions
    /\ files.counters.jam <= Thresholds.jam

\* A scenario passes only on evidence: every run of every seed judged is sound by the files
\* that very run wrote, and nobody waited longer than the threshold, except that the
\* candidate may stay within a tenth of the baseline of the same seed.
PassIsEarned ==
    \A i \in DOMAIN summaries :
        LET r == summaries[i]
            Files(arm, seed) == leaves[LeafOf(r.scenario, arm, seed)].files
        IN  r.status = "pass" /\ ~args.generate =>
            /\ r.seeds # <<>>
            /\ \A arm \in Arms(args), seed \in ToSet(r.seeds) :
                  /\ Sound(Files(arm, seed))
                  /\ arm = "tsp_actuation" /\ Len(args.arms) = 2 =>
                        \A e \in DOMAIN Files(arm, seed).queues :
                            Highest(Files(arm, seed).queues[e]) <= 30
                  /\ \/ Longest(Files(arm, seed)) <= Thresholds.waiting
                     \/ /\ arm # "baseline" /\ "baseline" \in Arms(args)
                        /\ 10 * Longest(Files(arm, seed))
                              <= 11 * Longest(Files("baseline", seed))

\* The comparison of means that decides the verdict and the test paired by seed that the
\* reports quote never point in opposite directions, when every run has buses.
ComparisonAgreesWithPairs ==
    \A i \in DOMAIN summaries : \A c \in summaries[i].comparisons :
        (\A arm \in DOMAIN summaries[i].arms :
            \A j \in DOMAIN summaries[i].arms[arm] :
                summaries[i].arms[arm][j].kpis.trips.busLoss # Missing) =>
        /\ c.bus = "improvement" => c.result.busChange.change <= 0
        /\ c.bus = "regression" => c.result.busChange.change >= 0

\* Neither a verdict nor the statistic quoted beside it claims more than the runs show.
VerdictsEarned == PassIsEarned /\ ComparisonAgreesWithPairs

\* Whatever order a pool completed its leaves in and whichever it lost, a scenario is judged
\* as a serial run over the seeds complete in every arm would have judged it.
SameAsSerial ==
    \A i \in DOMAIN summaries : \A arm \in DOMAIN summaries[i].arms :
        [j \in DOMAIN summaries[i].arms[arm] |-> summaries[i].arms[arm][j].seed]
            = Only(SeedsOf[summaries[i].scenario], Complete(summaries[i].scenario))

\* No two simulations alive have one port, retries included, and every port exists.
PortsDistinct ==
    Parallel(args) =>
        \A leaf \in Live :
            LET port(l) == Port(Index(l), leaves[l].attempt)
            IN  /\ port(leaf) <= MaxPort
                /\ \A other \in Live \ {leaf} : port(other) # port(leaf)

\* A pool gives what a serial campaign gives: its simulations do not meet, and their order
\* of completion leaves no trace.
PoolAsSerial == SameAsSerial /\ PortsDistinct

\* A partial run loses no verdict of the suite it did not run itself, and generated files
\* or a suite nobody can read are never written over by one.
StoredVerdictsKept ==
    [][phase = "running" /\ phase' = "writing" =>
          /\ ~args.generate
          /\ args.all \/ suite.kind # "corrupt"
          /\ \A s \in DOMAIN Verdicts(suite) :
                \/ args.all \/ s \in ToSet(args.asked)
                \/ s \in DOMAIN pending' /\ pending'[s] = Verdicts(suite)[s]]_vars
===============================================================================
