---------------------------- MODULE CampaignProofs ----------------------------
(***************************************************************************)
(* For any catalog, any seeds, any invocations and whatever the            *)
(* simulations leave behind: a campaign keeps the verdicts of others, a    *)
(* pool judges what a serial run would have judged, and a pass is earned   *)
(* by the runs it is given to.                                             *)
(***************************************************************************)
EXTENDS Campaign, DataInduction, SequenceTheorems

\* What has been judged was asked for (finalize_scenario runs over the plan).
SummariesAsked ==
    /\ args.asked \in Seq(ToSet(args.asked))
    /\ judged \in Nat
    /\ summaries \in Seq(ToSet(summaries))
    /\ \A r \in ToSet(summaries) : r.scenario \in ToSet(args.asked)

\* Whatever a campaign may run.
AnyLeaf == [scenario : DOMAIN SeedsOf, arm : STRING, seed : Nat]

-----------------------------------------------------------------------------
LEMMA SequenceOfItsElements ==
    ASSUME NEW S, NEW s \in Seq(S)
    PROVE  s \in Seq(ToSet(s))
<1>1. s \in [1 .. Len(s) -> ToSet(s)] /\ Len(s) \in Nat
  BY DEF ToSet
<1>. QED
  BY <1>1

LEMMA ElementsOfAppend ==
    ASSUME NEW S, NEW s \in Seq(S), NEW e
    PROVE  ToSet(Append(s, e)) = ToSet(s) \cup {e} /\ Append(s, e) \in Seq(S \cup {e})
<1>1. s \in Seq(S \cup {e})
  OBVIOUS
<1>2. /\ Append(s, e) \in Seq(S \cup {e})
      /\ Len(Append(s, e)) = Len(s) + 1
      /\ \A i \in 1 .. Len(s) : Append(s, e)[i] = s[i]
      /\ Append(s, e)[Len(s) + 1] = e
  BY <1>1, AppendProperties
<1>3. DOMAIN Append(s, e) = 1 .. Len(s) + 1 /\ DOMAIN s = 1 .. Len(s) /\ Len(s) \in Nat
  BY <1>1, <1>2
<1>. QED
  BY <1>2, <1>3 DEF ToSet

-----------------------------------------------------------------------------
\* What is selected of a sequence is a sequence of what was selected.
LEMMA OnlyIsSequence ==
    ASSUME NEW T, NEW s \in Seq(T), NEW set
    PROVE  Only(s, set) \in Seq(T \cap set)
<1>. DEFINE parts == [i \in DOMAIN s |-> IF s[i] \in set THEN <<s[i]>> ELSE <<>>]
<1>1. parts \in Seq(Seq(T \cap set))
  <2>1. DOMAIN s = 1 .. Len(s) /\ Len(s) \in Nat
    OBVIOUS
  <2>2. ASSUME NEW i \in DOMAIN s PROVE parts[i] \in Seq(T \cap set)
    <3>1. CASE s[i] \in set
      <4>1. s[i] \in T \cap set
        BY <3>1
      <4>2. parts[i] = <<s[i]>>
        BY <3>1
      <4>. HIDE DEF parts
      <4>. QED
        BY <4>1, <4>2
    <3>2. CASE s[i] \notin set
      <4>1. parts[i] = <<>>
        BY <3>2
      <4>. HIDE DEF parts
      <4>. QED
        BY <4>1
    <3>. QED
      BY <3>1, <3>2
  <2>. HIDE DEF parts
  <2>3. parts \in [1 .. Len(s) -> Seq(T \cap set)]
    BY <2>1, <2>2 DEF parts
  <2>. QED
    BY <2>1, <2>3
<1>. HIDE DEF parts
<1>2. FlattenSeq(parts) \in Seq(T \cap set)
  BY <1>1, FlattenedIsSequence
<1>. QED
  BY <1>2 DEF Only, parts

\* The leaves of the plan: one for every scenario asked for, arm and seed.
LEMMA LeavesOfPlan ==
    ASSUME NEW a \in Invocations, NEW scenario \in DOMAIN SeedsOf
    PROVE  /\ LeavesOf(a, scenario) \in Seq(AnyLeaf)
           /\ \A arm \in ToSet(a.arms), seed \in ToSet(SeedsOf[scenario]) :
                  LeafOf(scenario, arm, seed) \in ToSet(LeavesOf(a, scenario))
<1>. DEFINE seeds == SeedsOf[scenario]
            row(i) == [j \in DOMAIN seeds |->
                          [scenario |-> scenario, arm |-> a.arms[i], seed |-> seeds[j]]]
            rows == [i \in DOMAIN a.arms |-> row(i)]
<1>1. /\ a.arms \in Seq(STRING) /\ seeds \in Seq(Nat)
      /\ DOMAIN a.arms = 1 .. Len(a.arms) /\ Len(a.arms) \in Nat
      /\ DOMAIN seeds = 1 .. Len(seeds) /\ Len(seeds) \in Nat
  BY CampaignAssumption
<1>2. \A i \in DOMAIN a.arms : row(i) \in Seq(AnyLeaf)
  <2>. SUFFICES ASSUME NEW i \in DOMAIN a.arms PROVE row(i) \in Seq(AnyLeaf)
    OBVIOUS
  <2>1. a.arms[i] \in STRING /\ \A j \in DOMAIN seeds : seeds[j] \in Nat
    BY <1>1
  <2>2. row(i) \in [1 .. Len(seeds) -> AnyLeaf]
    BY <1>1, <2>1 DEF AnyLeaf
  <2>. HIDE DEF row
  <2>. QED
    BY <1>1, <2>2, SMTT(30)
<1>3. rows \in Seq(Seq(AnyLeaf)) /\ DOMAIN rows = DOMAIN a.arms
  <2>. HIDE DEF row
  <2>1. rows \in [1 .. Len(a.arms) -> Seq(AnyLeaf)]
    BY <1>1, <1>2
  <2>. QED
    BY <1>1, <2>1
<1>4. LeavesOf(a, scenario) = FlattenSeq(rows)
  BY DEF LeavesOf
<1>5. ASSUME NEW i \in DOMAIN a.arms, NEW j \in DOMAIN seeds
      PROVE  LeafOf(scenario, a.arms[i], seeds[j]) \in ToSet(rows[i])
  BY DEF LeafOf, ToSet
<1>. HIDE DEF rows
<1>6. /\ FlattenSeq(rows) \in Seq(AnyLeaf)
      /\ \A i \in DOMAIN rows : ToSet(rows[i]) \subseteq ToSet(FlattenSeq(rows))
  BY <1>3, FlattenedIsSequence
<1>7. ASSUME NEW arm \in ToSet(a.arms), NEW seed \in ToSet(seeds)
      PROVE  LeafOf(scenario, arm, seed) \in ToSet(FlattenSeq(rows))
  <2>1. PICK i \in DOMAIN a.arms, j \in DOMAIN seeds : arm = a.arms[i] /\ seed = seeds[j]
    BY <1>7 DEF ToSet
  <2>. QED
    BY <1>3, <1>5, <1>6, <2>1
<1>. QED
  BY <1>4, <1>6, <1>7

LEMMA TasksOfPlan ==
    ASSUME NEW a \in Invocations
    PROVE  /\ Tasks(a) \in Seq(AnyLeaf)
           /\ \A scenario \in ToSet(a.asked), arm \in ToSet(a.arms) :
                 \A seed \in ToSet(SeedsOf[scenario]) :
                    LeafOf(scenario, arm, seed) \in ToSet(Tasks(a))
<1>. DEFINE rows == [i \in DOMAIN a.asked |-> LeavesOf(a, a.asked[i])]
<1>1. /\ a.asked \in Seq(DOMAIN SeedsOf) /\ Len(a.asked) \in Nat
      /\ DOMAIN a.asked = 1 .. Len(a.asked)
      /\ \A i \in DOMAIN a.asked : a.asked[i] \in DOMAIN SeedsOf
  BY CampaignAssumption
<1>2. rows \in [1 .. Len(a.asked) -> Seq(AnyLeaf)]
  BY <1>1, LeavesOfPlan
<1>3. DOMAIN rows = DOMAIN a.asked /\ \A i \in DOMAIN a.asked : rows[i] = LeavesOf(a, a.asked[i])
  OBVIOUS
<1>4. Tasks(a) = FlattenSeq(rows)
  BY DEF Tasks
<1>. HIDE DEF rows
<1>5. rows \in Seq(Seq(AnyLeaf))
  BY <1>1, <1>2
<1>6. /\ FlattenSeq(rows) \in Seq(AnyLeaf)
      /\ \A i \in DOMAIN rows : ToSet(rows[i]) \subseteq ToSet(FlattenSeq(rows))
  BY <1>5, FlattenedIsSequence
<1>7. ASSUME NEW scenario \in ToSet(a.asked), NEW arm \in ToSet(a.arms),
             NEW seed \in ToSet(SeedsOf[scenario])
      PROVE  LeafOf(scenario, arm, seed) \in ToSet(FlattenSeq(rows))
  <2>1. PICK i \in DOMAIN a.asked : scenario = a.asked[i]
    BY <1>7 DEF ToSet
  <2>2. LeafOf(scenario, arm, seed) \in ToSet(rows[i])
    BY <1>1, <1>3, <2>1, LeavesOfPlan
  <2>. QED
    BY <1>3, <1>6, <2>1, <2>2
<1>. QED
  BY <1>4, <1>6, <1>7

-----------------------------------------------------------------------------
LEMMA ElementsInAppend ==
    ASSUME NEW S, NEW s \in Seq(S), NEW e
    PROVE  /\ DOMAIN s = 1 .. Len(s) /\ Len(s) \in Nat
           /\ DOMAIN Append(s, e) = 1 .. Len(s) + 1
           /\ \A i \in 1 .. Len(s) : Append(s, e)[i] = s[i]
           /\ Append(s, e)[Len(s) + 1] = e
<1>1. s \in Seq(S \cup {e})
  OBVIOUS
<1>. QED
  BY <1>1, AppendProperties

LEMMA NothingAsked == args = NoInvocation /\ summaries = <<>> /\ judged = 0 => SummariesAsked
BY DEF SummariesAsked, NoInvocation, ToSet

LEMMA IdleAsksNothing == Idle => SummariesAsked'
BY DEF Idle, SummariesAsked, NoInvocation, ToSet

-----------------------------------------------------------------------------
LEMMA InitAsked == Init => SummariesAsked
BY NothingAsked DEF Init

\* An invocation starts from nothing, which is what the one before it left.
LEMMA StartAsked ==
    ASSUME NEW a \in Invocations, Start(a), summaries = <<>>, judged = 0
    PROVE  SummariesAsked'
<1>1. a.asked \in Seq(ToSet(a.asked))
  BY CampaignAssumption, SequenceOfItsElements
<1>. QED
  BY <1>1 DEF Start, SummariesAsked, ToSet

LEMMA SummaryOf == \A scenario : Summary(scenario).scenario = scenario
BY DEF Summary

LEMMA JudgeAsked ==
    ASSUME SummariesAsked, Judge
    PROVE  SummariesAsked'
<1>. DEFINE scenario == args.asked[judged + 1]
<1>1. /\ args' = args /\ judged' = judged + 1 /\ judged < Len(args.asked)
      /\ summaries' \in {summaries, Append(summaries, Summary(scenario))}
  BY DEF Judge
<1>2. scenario \in ToSet(args.asked)
  BY <1>1 DEF SummariesAsked, ToSet
<1>3. CASE summaries' = summaries
  BY <1>1, <1>3 DEF SummariesAsked
<1>4. CASE summaries' = Append(summaries, Summary(scenario))
  <2>1. /\ ToSet(summaries') = ToSet(summaries) \cup {Summary(scenario)}
        /\ summaries' \in Seq(ToSet(summaries) \cup {Summary(scenario)})
    BY <1>4, ElementsOfAppend DEF SummariesAsked
  <2>2. summaries' \in Seq(ToSet(summaries'))
    BY <2>1
  <2>3. \A r \in ToSet(summaries') : r.scenario \in ToSet(args.asked)
    BY <2>1, <1>2, SummaryOf DEF SummariesAsked
  <2>. QED
    BY <1>1, <2>2, <2>3 DEF SummariesAsked
<1>. QED
  BY <1>1, <1>3, <1>4

\* Between invocations nothing is asked for and nothing judged.
NothingUnderWay == phase = "idle" => args = NoInvocation /\ summaries = <<>> /\ judged = 0

AskedInv == SummariesAsked /\ NothingUnderWay

LEMMA AskedStep == AskedInv /\ [Next]_vars => AskedInv'
<1>. SUFFICES ASSUME AskedInv, [Next]_vars PROVE AskedInv'
  OBVIOUS
<1>. USE DEF AskedInv
<1>1. CASE UNCHANGED vars
  BY <1>1 DEF vars, SummariesAsked, NothingUnderWay
<1>2. ASSUME NEW a \in Invocations, Start(a) PROVE AskedInv'
  <2>1. phase = "idle" /\ phase' = "running"
    BY <1>2 DEF Start
  <2>. QED
    BY <1>2, <2>1, StartAsked DEF NothingUnderWay
<1>3. ASSUME NEW leaf, Launch(leaf) \/ Finish(leaf) \/ Retry(leaf) \/ GiveUp(leaf)
      PROVE  AskedInv'
  BY <1>3 DEF Launch, Finish, Retry, GiveUp, SummariesAsked, NothingUnderWay
<1>4. CASE Judge
  BY <1>4, JudgeAsked DEF Judge, NothingUnderWay
<1>5. CASE OpenSuite
  BY <1>5 DEF OpenSuite, SummariesAsked, NothingUnderWay
<1>6. CASE MakeRun
  BY <1>6 DEF MakeRun, SummariesAsked, NothingUnderWay
<1>7. CASE Idle
  BY <1>7, IdleAsksNothing DEF Idle, NothingUnderWay
<1>8. Close \/ WriteSuite \/ Killed \/ (\E leaf \in DOMAIN leaves : Fails(leaf)) => Idle
  BY DEF Close, WriteSuite, Killed, Fails
<1>. QED
  BY <1>1, <1>2, <1>3, <1>4, <1>5, <1>6, <1>7, <1>8 DEF Next, Step

-----------------------------------------------------------------------------
LEMMA JudgedDomain ==
    ASSUME SummariesAsked
    PROVE  DOMAIN Judged \subseteq ToSet(args.asked)
BY DEF Judged, SummariesAsked, ToSet

\* What the merge takes from the summary on disk.
LEMMA MergedKeepsOthers ==
    ASSUME SummariesAsked, ~args.all,
           NEW s \in DOMAIN Verdicts(suite), s \notin ToSet(args.asked)
    PROVE  s \in DOMAIN Merged(args) /\ Merged(args)[s] = Verdicts(suite)[s]
<1>1. s \notin DOMAIN Judged
  BY JudgedDomain
<1>. QED
  BY <1>1 DEF Merged

\* Only the merge leads from running to writing.
LEMMA OnlyTheMergeWrites ==
    ASSUME Next, phase = "running", phase' = "writing"
    PROVE  OpenSuite
<1>1. ASSUME NEW leaf, Launch(leaf) \/ Finish(leaf) \/ Retry(leaf) \/ GiveUp(leaf) \/ Fails(leaf)
      PROVE  phase' # "writing"
  BY <1>1 DEF Launch, Finish, Retry, GiveUp, Fails
<1>2. Judge \/ Close \/ WriteSuite \/ Killed \/ MakeRun => phase' # "writing"
  BY DEF Judge, Close, WriteSuite, Killed, MakeRun
<1>3. \A a \in Invocations : Start(a) => phase' # "writing"
  BY DEF Start
<1>. QED
  BY <1>1, <1>2, <1>3 DEF Next, Step

\* A partial run loses no verdict of the suite it did not run itself, and
\* neither generated files nor a suite nobody can read start a write
\* (_write_suite_summary and its merge), wherever earlier runs were killed.
THEOREM VerdictsOfOthersKept == Spec => StoredVerdictsKept
<1>1. Init => AskedInv
  BY InitAsked DEF AskedInv, NothingUnderWay, Init
<1>2. AskedInv /\ [Next]_vars =>
        [phase = "running" /\ phase' = "writing" =>
          /\ ~args.generate
          /\ args.all \/ suite.kind # "corrupt"
          /\ \A s \in DOMAIN Verdicts(suite) :
                \/ args.all \/ s \in ToSet(args.asked)
                \/ s \in DOMAIN pending' /\ pending'[s] = Verdicts(suite)[s]]_vars
  <2>. SUFFICES ASSUME AskedInv, Next, phase = "running", phase' = "writing"
                PROVE  /\ ~args.generate
                       /\ args.all \/ suite.kind # "corrupt"
                       /\ \A s \in DOMAIN Verdicts(suite) :
                             \/ args.all \/ s \in ToSet(args.asked)
                             \/ s \in DOMAIN pending' /\ pending'[s] = Verdicts(suite)[s]
    OBVIOUS
  <2>1. OpenSuite
    BY OnlyTheMergeWrites
  <2>2. ~args.generate /\ MayMerge(args) /\ pending' = Merged(args)
    BY <2>1 DEF OpenSuite
  <2>. QED
    BY <2>2, MergedKeepsOthers DEF MayMerge, AskedInv
<1>. QED
  BY <1>1, <1>2, AskedStep, PTL DEF Spec, StoredVerdictsKept

-----------------------------------------------------------------------------
(* What a pool leaves behind.                                               *)

\* The leaves are those of the plan of the invocation under way.
PlanUnderWay ==
    IF phase = "idle" THEN leaves = <<>>
    ELSE args \in Invocations /\ DOMAIN leaves = ToSet(Tasks(args))

\* A leaf that has not ended has attempts left to it.
AttemptsLeft ==
    \A leaf \in DOMAIN leaves : ~Ended(leaf) =>
        leaves[leaf] \in [state : {"queued", "live"}, attempt : 0 .. MaxAttempts - 1]

\* A scenario is judged when all its leaves have ended.
JudgedHaveEnded ==
    \A i \in DOMAIN summaries : \A leaf \in DOMAIN leaves :
        leaf.scenario = summaries[i].scenario => Ended(leaf)

\* The inductive invariant of a campaign.
PoolInv == AskedInv /\ PlanUnderWay /\ AttemptsLeft /\ JudgedHaveEnded /\ SameAsSerial

\* A leaf goes on or ends, and what has ended stays as it is.
LEMMA LeavesGoOn ==
    ASSUME PoolInv, NEW leaf \in DOMAIN leaves,
           Launch(leaf) \/ Finish(leaf) \/ Retry(leaf) \/ GiveUp(leaf)
    PROVE  /\ DOMAIN leaves' = DOMAIN leaves
           /\ \A l \in DOMAIN leaves : Ended(l) => leaves'[l] = leaves[l]
           /\ AttemptsLeft'
<1>1. ~Ended(leaf)
  BY DEF Launch, Finish, Retry, GiveUp, Live, Ended
<1>2. /\ leaves[leaf] \in [state : {"queued", "live"}, attempt : 0 .. MaxAttempts - 1]
      /\ MaxAttempts \in Nat \ {0}
  BY <1>1, CampaignAssumption DEF PoolInv, AttemptsLeft
<1>. DEFINE next == leaves'[leaf]
<1>3. /\ leaves' = [leaves EXCEPT ![leaf] = next]
      /\ \/ next \in [state : {"queued", "live"}, attempt : 0 .. MaxAttempts - 1]
         \/ next.state \in {"done", "failed"}
  <2>1. CASE Launch(leaf)
    <3>1. leaves' = [leaves EXCEPT ![leaf] = [leaves[leaf] EXCEPT !.state = "live"]]
      BY <2>1 DEF Launch
    <3>2. [leaves[leaf] EXCEPT !.state = "live"]
              \in [state : {"queued", "live"}, attempt : 0 .. MaxAttempts - 1]
      BY <1>2
    <3>. QED
      BY <3>1, <3>2
  <2>2. CASE Finish(leaf)
    <3>1. PICK files, read :
              leaves' = [leaves EXCEPT ![leaf] =
                  [state |-> "done", attempt |-> leaves[leaf].attempt,
                   files |-> files, read |-> read]]
      BY <2>2 DEF Finish
    <3>. QED
      BY <3>1
  <2>3. CASE Retry(leaf)
    <3>1. leaves' = [leaves EXCEPT ![leaf] =
                        [leaves[leaf] EXCEPT !.attempt = leaves[leaf].attempt + 1]]
      BY <2>3 DEF Retry
    <3>2. leaves[leaf].attempt + 1 \in 0 .. MaxAttempts - 1
      BY <1>2, <2>3 DEF Retry, TriesAgain
    <3>3. [leaves[leaf] EXCEPT !.attempt = leaves[leaf].attempt + 1]
              \in [state : {"queued", "live"}, attempt : 0 .. MaxAttempts - 1]
      BY <1>2, <3>2
    <3>. QED
      BY <3>1, <3>3
  <2>4. CASE GiveUp(leaf)
    <3>1. leaves' = [leaves EXCEPT ![leaf] = [leaves[leaf] EXCEPT !.state = "failed"]]
      BY <2>4 DEF GiveUp
    <3>2. [leaves[leaf] EXCEPT !.state = "failed"].state = "failed"
      BY <1>2
    <3>. QED
      BY <3>1, <3>2
  <2>. QED
    BY <2>1, <2>2, <2>3, <2>4
<1>. HIDE DEF next
<1>4. DOMAIN leaves' = DOMAIN leaves
      /\ \A l \in DOMAIN leaves \ {leaf} : leaves'[l] = leaves[l]
  BY <1>3
<1>5. leaves'[leaf] = next
  BY DEF next
<1>6. AttemptsLeft'
  BY <1>3, <1>4, <1>5 DEF PoolInv, AttemptsLeft, Ended
<1>. QED
  BY <1>1, <1>4, <1>6

\* The leaves of a scenario that was judged are there, and stay as they are.
LEMMA JudgedLeavesStay ==
    ASSUME PoolInv, phase # "idle", NEW i \in DOMAIN summaries,
           \A l \in DOMAIN leaves : Ended(l) => leaves'[l] = leaves[l],
           NEW arm \in Arms(args), NEW seed \in ToSet(SeedsOf[summaries[i].scenario])
    PROVE  leaves'[LeafOf(summaries[i].scenario, arm, seed)]
               = leaves[LeafOf(summaries[i].scenario, arm, seed)]
<1>. DEFINE scenario == summaries[i].scenario
<1>1. scenario \in ToSet(args.asked) /\ args \in Invocations
  BY DEF PoolInv, AskedInv, SummariesAsked, PlanUnderWay, ToSet
<1>2. LeafOf(scenario, arm, seed) \in DOMAIN leaves
  BY <1>1, TasksOfPlan DEF PoolInv, PlanUnderWay, Arms
<1>3. LeafOf(scenario, arm, seed).scenario = scenario
  BY DEF LeafOf
<1>. QED
  BY <1>2, <1>3 DEF PoolInv, JudgedHaveEnded

LEMMA JudgedSeedsStay ==
    ASSUME PoolInv, phase # "idle", args' = args, NEW i \in DOMAIN summaries,
           summaries' = summaries,
           \A l \in DOMAIN leaves : Ended(l) => leaves'[l] = leaves[l]
    PROVE  Complete(summaries[i].scenario)' = Complete(summaries[i].scenario)
<1>. DEFINE scenario == summaries[i].scenario
<1>1. ASSUME NEW seed \in ToSet(SeedsOf[scenario])
      PROVE  EveryArmHasIt(scenario, seed)' <=> EveryArmHasIt(scenario, seed)
  BY JudgedLeavesStay DEF EveryArmHasIt, Arms
<1>2. scenario' = scenario
  OBVIOUS
<1>. HIDE DEF scenario
<1>3. Complete(scenario)' = Complete(scenario)
  BY <1>1, <1>2 DEF Complete, EveryArmHasIt, Arms, LeafOf
<1>. QED
  BY <1>3 DEF scenario

\* While leaves end, what was judged stays the judgement of a serial run.
LEMMA JudgedStays ==
    ASSUME PoolInv, phase # "idle", args' = args, summaries' = summaries,
           DOMAIN leaves' = DOMAIN leaves,
           \A l \in DOMAIN leaves : Ended(l) => leaves'[l] = leaves[l]
    PROVE  JudgedHaveEnded' /\ SameAsSerial'
<1>1. JudgedHaveEnded'
  BY DEF PoolInv, JudgedHaveEnded, Ended
<1>2. \A i \in DOMAIN summaries :
          Complete(summaries[i].scenario)' = Complete(summaries[i].scenario)
  BY JudgedSeedsStay
<1>3. SameAsSerial'
  BY <1>2 DEF PoolInv, SameAsSerial
<1>. QED
  BY <1>1, <1>3

\* The insertion gate changes the verdict of a run, never which seed it has.
LEMMA GateKeepsSeeds ==
    ASSUME NEW seed, NEW kpis, NEW verdict, NEW baseline, NEW short
    PROVE  Gated([seed |-> seed, kpis |-> kpis, verdict |-> verdict], baseline, short).seed
               = seed
BY DEF Gated

LEMMA ReplicationsOfPlan ==
    ASSUME NEW scenario \in DOMAIN SeedsOf, NEW arm \in DOMAIN Summary(scenario).arms
    PROVE  [j \in DOMAIN Summary(scenario).arms[arm] |-> Summary(scenario).arms[arm][j].seed]
               = Only(SeedsOf[scenario], Complete(scenario))
<1>. DEFINE seeds == Only(SeedsOf[scenario], Complete(scenario))
            runs(a) == Replications(scenario, a)
            arms == [a \in Arms(args) |-> runs(a)]
            gated == AfterGate(arms, args.short)
<1>1. seeds \in Seq(Nat \cap Complete(scenario))
  BY CampaignAssumption, OnlyIsSequence
<1>2. ~args.generate /\ Summary(scenario).arms = gated
  BY DEF Summary
<1>3. DOMAIN gated = Arms(args) /\ arm \in Arms(args)
  BY <1>2 DEF AfterGate
<1>4. /\ DOMAIN runs(arm) = DOMAIN seeds
      /\ \A j \in DOMAIN seeds : \E kpis, verdict :
            runs(arm)[j] = [seed |-> seeds[j], kpis |-> kpis, verdict |-> verdict]
  BY DEF Replications, InOrderOfPlan, EffectiveSeeds
<1>. HIDE DEF seeds, runs
<1>5. \/ gated[arm] = runs(arm)
      \/ gated[arm] = [j \in DOMAIN runs(arm) |->
                          Gated(runs(arm)[j], arms["baseline"], args.short)]
  BY <1>3 DEF AfterGate
<1>. HIDE DEF gated, arms
<1>6. DOMAIN gated[arm] = DOMAIN seeds
  BY <1>4, <1>5
<1>7. \A j \in DOMAIN seeds : gated[arm][j].seed = seeds[j]
  BY <1>4, <1>5, GateKeepsSeeds
<1>8. [j \in DOMAIN gated[arm] |-> gated[arm][j].seed] = [j \in DOMAIN seeds |-> seeds[j]]
  BY <1>6, <1>7
<1>9. [j \in DOMAIN seeds |-> seeds[j]] = seeds
  BY <1>1
<1>. QED
  BY <1>2, <1>8, <1>9 DEF seeds

LEMMA JudgeAsSerial ==
    ASSUME PoolInv, Judge
    PROVE  JudgedHaveEnded' /\ SameAsSerial'
<1>. DEFINE scenario == args.asked[judged + 1]
            summary == Summary(scenario)
<1>1. /\ leaves' = leaves /\ args' = args /\ phase = "running"
      /\ judged < Len(args.asked)
      /\ summaries' = summaries \/ summaries' = Append(summaries, summary)
      /\ \A leaf \in DOMAIN leaves : leaf.scenario = scenario => Ended(leaf)
  BY DEF Judge
<1>2. scenario \in DOMAIN SeedsOf
  <2>1. args.asked \in Seq(DOMAIN SeedsOf) /\ judged \in Nat
    BY <1>1, CampaignAssumption DEF PoolInv, PlanUnderWay, AskedInv, SummariesAsked
  <2>. QED
    BY <1>1, <2>1
<1>3. \A s : Complete(s)' = Complete(s)
  BY <1>1 DEF Complete, EveryArmHasIt, Arms
<1>4. CASE summaries' = summaries
  BY <1>1, <1>3, <1>4 DEF PoolInv, JudgedHaveEnded, SameAsSerial, Ended
<1>5. CASE summaries' = Append(summaries, summary)
  <2>1. summaries \in Seq(ToSet(summaries))
    BY DEF PoolInv, AskedInv, SummariesAsked
  <2>. DEFINE n == Len(summaries)
  <2>. HIDE DEF summary
  <2>2. /\ DOMAIN summaries = 1 .. n /\ n \in Nat
        /\ DOMAIN summaries' = 1 .. n + 1
        /\ \A i \in 1 .. n : summaries'[i] = summaries[i]
        /\ summaries'[n + 1] = summary
    BY <1>5, <2>1, ElementsInAppend
  <2>3. \A i \in DOMAIN summaries' :
            \/ i \in DOMAIN summaries /\ summaries'[i] = summaries[i]
            \/ summaries'[i] = summary
    BY <2>2
  <2>4. summary.scenario = scenario
    BY SummaryOf DEF summary
  <2>. HIDE DEF n
  <2>5. JudgedHaveEnded'
    BY <1>1, <2>3, <2>4 DEF PoolInv, JudgedHaveEnded, Ended
  <2>6. ASSUME NEW i \in DOMAIN summaries', NEW arm \in DOMAIN summaries'[i].arms
        PROVE  [j \in DOMAIN summaries'[i].arms[arm] |-> summaries'[i].arms[arm][j].seed]
                   = Only(SeedsOf[summaries'[i].scenario], Complete(summaries'[i].scenario))
    <3>1. CASE i \in DOMAIN summaries /\ summaries'[i] = summaries[i]
      BY <3>1 DEF PoolInv, SameAsSerial
    <3>2. CASE summaries'[i] = summary
      <4>1. arm \in DOMAIN summary.arms
        BY <2>6, <3>2
      <4>2. [j \in DOMAIN summary.arms[arm] |-> summary.arms[arm][j].seed]
                = Only(SeedsOf[scenario], Complete(scenario))
        BY <1>2, <4>1, ReplicationsOfPlan DEF summary
      <4>. HIDE DEF scenario
      <4>. QED
        BY <2>4, <3>2, <4>2
    <3>. QED
      BY <2>3, <3>1, <3>2
  <2>7. SameAsSerial'
    BY <1>1, <2>6 DEF SameAsSerial, Complete, EveryArmHasIt, Arms
  <2>. QED
    BY <2>5, <2>7
<1>. QED
  BY <1>1, <1>4, <1>5

LEMMA StartPlan ==
    ASSUME PoolInv, NEW a \in Invocations, Start(a)
    PROVE  PlanUnderWay' /\ AttemptsLeft' /\ JudgedHaveEnded' /\ SameAsSerial'
<1>1. /\ summaries = <<>> /\ summaries' = summaries /\ args' = a /\ phase' = "running"
      /\ leaves' = [leaf \in ToSet(Tasks(a)) |-> [state |-> "queued", attempt |-> 0]]
  BY DEF PoolInv, AskedInv, NothingUnderWay, Start
<1>2. PlanUnderWay'
  BY <1>1 DEF PlanUnderWay
<1>3. MaxAttempts \in Nat \ {0}
  BY CampaignAssumption
<1>4. AttemptsLeft'
  BY <1>1, <1>3 DEF AttemptsLeft
<1>5. DOMAIN summaries' = {}
  BY <1>1
<1>. QED
  BY <1>2, <1>4, <1>5 DEF JudgedHaveEnded, SameAsSerial

LEMMA NothingPlanned ==
    ASSUME leaves' = <<>>, summaries' = <<>>, phase' = "idle"
    PROVE  PlanUnderWay' /\ AttemptsLeft' /\ JudgedHaveEnded' /\ SameAsSerial'
<1>1. DOMAIN leaves' = {} /\ DOMAIN summaries' = {}
  OBVIOUS
<1>. QED
  BY <1>1 DEF PlanUnderWay, AttemptsLeft, JudgedHaveEnded, SameAsSerial

LEMMA NothingChanged ==
    ASSUME PoolInv, UNCHANGED <<args, leaves, summaries>>, (phase' = "idle") = (phase = "idle")
    PROVE  PlanUnderWay' /\ AttemptsLeft' /\ JudgedHaveEnded' /\ SameAsSerial'
<1>1. PlanUnderWay'
  BY DEF PoolInv, PlanUnderWay
<1>2. AttemptsLeft' /\ JudgedHaveEnded'
  BY DEF PoolInv, AttemptsLeft, JudgedHaveEnded, Ended
<1>3. \A s : Complete(s)' = Complete(s)
  BY DEF Complete, EveryArmHasIt, Arms
<1>4. SameAsSerial'
  BY <1>3 DEF PoolInv, SameAsSerial
<1>. QED
  BY <1>1, <1>2, <1>4

LEMMA InitPool == Init => PoolInv
<1>. SUFFICES ASSUME Init PROVE PoolInv
  OBVIOUS
<1>1. leaves = <<>> /\ summaries = <<>> /\ phase = "idle" /\ AskedInv
  BY InitAsked DEF Init, AskedInv, NothingUnderWay
<1>2. DOMAIN leaves = {} /\ DOMAIN summaries = {}
  BY <1>1
<1>. QED
  BY <1>1, <1>2 DEF PoolInv, PlanUnderWay, AttemptsLeft, JudgedHaveEnded, SameAsSerial

LEMMA PoolStep == PoolInv /\ [Next]_vars => PoolInv'
<1>. SUFFICES ASSUME PoolInv, [Next]_vars
              PROVE  PlanUnderWay' /\ AttemptsLeft' /\ JudgedHaveEnded' /\ SameAsSerial'
  BY AskedStep DEF PoolInv
<1>1. CASE UNCHANGED vars
  BY <1>1, NothingChanged DEF vars
<1>2. ASSUME NEW a \in Invocations, Start(a)
      PROVE  PlanUnderWay' /\ AttemptsLeft' /\ JudgedHaveEnded' /\ SameAsSerial'
  BY <1>2, StartPlan
<1>3. ASSUME NEW leaf \in DOMAIN leaves,
             Launch(leaf) \/ Finish(leaf) \/ Retry(leaf) \/ GiveUp(leaf)
      PROVE  PlanUnderWay' /\ AttemptsLeft' /\ JudgedHaveEnded' /\ SameAsSerial'
  <2>1. args' = args /\ summaries' = summaries /\ phase = "running" /\ phase' = "running"
    BY <1>3 DEF Launch, Finish, Retry, GiveUp
  <2>2. /\ DOMAIN leaves' = DOMAIN leaves
        /\ \A l \in DOMAIN leaves : Ended(l) => leaves'[l] = leaves[l]
        /\ AttemptsLeft'
    BY <1>3, LeavesGoOn
  <2>3. PlanUnderWay'
    BY <2>1, <2>2 DEF PoolInv, PlanUnderWay
  <2>. QED
    BY <2>1, <2>2, <2>3, JudgedStays
<1>4. CASE Judge
  <2>1. leaves' = leaves /\ args' = args /\ phase' = phase
    BY <1>4 DEF Judge
  <2>2. PlanUnderWay' /\ AttemptsLeft'
    BY <2>1 DEF PoolInv, PlanUnderWay, AttemptsLeft, Ended
  <2>. QED
    BY <1>4, <2>2, JudgeAsSerial
<1>5. CASE OpenSuite \/ MakeRun
  BY <1>5, NothingChanged DEF OpenSuite, MakeRun
<1>6. CASE Idle /\ phase' = "idle"
  BY <1>6, NothingPlanned DEF Idle
<1>7. Close \/ WriteSuite \/ Killed \/ (\E leaf \in DOMAIN leaves : Fails(leaf))
          => Idle /\ phase' = "idle"
  BY DEF Close, WriteSuite, Killed, Fails
<1>. QED
  BY <1>1, <1>2, <1>3, <1>4, <1>5, <1>6, <1>7 DEF Next, Step

\* For every pool there is a port for each of its leaves, retries included:
\* the bound that _run_scenarios_parallel checks counts first attempts only.
PortsSuffice ==
    \A a \in Invocations : Parallel(a) =>
        /\ Len(Tasks(a)) <= PortStride
        /\ PortBase + Len(Tasks(a)) - 1 + (MaxAttempts - 1) * PortStride <= MaxPort

LEMMA PortsAreDistinct ==
    ASSUME PoolInv, PortsSuffice
    PROVE  PortsDistinct
<1>. DEFINE n == Len(Tasks(args))
            port(l) == Port(Index(l), leaves[l].attempt)
<1>. SUFFICES ASSUME Parallel(args), NEW leaf \in Live
              PROVE  /\ port(leaf) <= MaxPort
                     /\ \A other \in Live \ {leaf} : port(other) # port(leaf)
  BY DEF PortsDistinct
<1>1. args \in Invocations /\ DOMAIN leaves = ToSet(Tasks(args))
  <2>1. phase # "idle"
    BY DEF PoolInv, PlanUnderWay, Live
  <2>. QED
    BY <2>1 DEF PoolInv, PlanUnderWay
<1>2. Tasks(args) \in Seq(AnyLeaf) /\ DOMAIN Tasks(args) = 1 .. n /\ n \in Nat
  BY <1>1, TasksOfPlan
<1>3. /\ n <= 20000 /\ PortBase + n - 1 + (MaxAttempts - 1) * 20000 <= 65535
      /\ PortBase \in Nat /\ MaxAttempts \in Nat \ {0}
  BY <1>1, CampaignAssumption DEF PortsSuffice, PortStride, MaxPort
<1>4. ASSUME NEW l \in Live
      PROVE  /\ Index(l) \in 1 .. n /\ Tasks(args)[Index(l)] = l
             /\ leaves[l].attempt \in 0 .. MaxAttempts - 1
  <2>1. l \in DOMAIN leaves /\ leaves[l].state = "live"
    BY DEF Live
  <2>2. \E i \in DOMAIN Tasks(args) : Tasks(args)[i] = l
    BY <1>1, <2>1 DEF ToSet
  <2>3. leaves[l].attempt \in 0 .. MaxAttempts - 1
    BY <2>1 DEF PoolInv, AttemptsLeft, Ended
  <2>. QED
    BY <1>2, <2>2, <2>3 DEF Index
<1>. HIDE DEF n
<1>5. port(leaf) <= MaxPort
  <2>. DEFINE i == Index(leaf)
              k == leaves[leaf].attempt
  <2>1. i \in 1 .. n /\ k \in 0 .. MaxAttempts - 1
    BY <1>4
  <2>2. port(leaf) = PortBase + i - 1 + k * 20000
    BY DEF Port, PortStride
  <2>. HIDE DEF i, k, port
  <2>3. k * 20000 <= (MaxAttempts - 1) * 20000
    BY <1>3, <2>1
  <2>. QED
    BY <1>2, <1>3, <2>1, <2>2, <2>3 DEF MaxPort
<1>6. ASSUME NEW other \in Live \ {leaf}
      PROVE  port(other) # port(leaf)
  <2>. DEFINE i == Index(leaf)
              j == Index(other)
              k == leaves[leaf].attempt
              m == leaves[other].attempt
  <2>1. i # j /\ i \in 1 .. n /\ j \in 1 .. n /\ k \in Nat /\ m \in Nat
    BY <1>3, <1>4
  <2>2. /\ port(leaf) = PortBase + i - 1 + k * 20000
        /\ port(other) = PortBase + j - 1 + m * 20000
    BY DEF Port, PortStride
  <2>. HIDE DEF i, j, k, m, port
  <2>. QED
    BY <1>2, <1>3, <2>1, <2>2
<1>. QED
  BY <1>5, <1>6

\* However the leaves of a pool fail, are retried and complete, a scenario is
\* judged as a serial run over the seeds complete in every arm would have
\* judged it, and no two simulations alive share a port
\* (_scenario_runs_from_leaves, _run_leaf_task).
THEOREM PoolsAreSerial == ASSUME PortsSuffice PROVE Spec => []PoolAsSerial
<1>1. Init => PoolInv
  BY InitPool
<1>2. PoolInv => PoolAsSerial
  BY PortsAreDistinct DEF PoolInv, PoolAsSerial
<1>. QED
  BY <1>1, <1>2, PoolStep, PTL DEF Spec

-----------------------------------------------------------------------------
(* What a passing verdict says of the runs.                                 *)

\* The worst of several verdicts passes only if each does.
LEMMA WorstPasses ==
    ASSUME NEW S, Worst(S) = "pass"
    PROVE  \A s \in S : s = "pass"
<1>. SUFFICES ASSUME S # {} PROVE \A s \in S : s = "pass"
  OBVIOUS
<1>1. \A s \in S : /\ Rank(s) \in 0 .. 2
                   /\ Rank(s) <= 0 => s = "pass"
  BY DEF Rank
<1>2. \E s \in S : \A t \in S : Rank(t) <= Rank(s)
  <2>. HIDE DEF Rank
  <2>1. CASE \E s \in S : Rank(s) = 2
    BY <1>1, <2>1
  <2>2. CASE (\A s \in S : Rank(s) # 2) /\ \E s \in S : Rank(s) = 1
    BY <1>1, <2>2
  <2>3. CASE \A s \in S : Rank(s) # 2 /\ Rank(s) # 1
    BY <1>1, <2>3
  <2>. QED
    BY <2>1, <2>2, <2>3
<1>3. \A t \in S : Rank(t) <= Rank("pass")
  BY <1>2 DEF Worst
<1>4. Rank("pass") = 0
  BY DEF Rank
<1>. QED
  BY <1>1, <1>3, <1>4

LEMMA StatusPasses ==
    ASSUME NEW arms, ScenarioStatus(arms) = "pass"
    PROVE  /\ \A a \in DOMAIN arms : \A i \in DOMAIN arms[a] : arms[a][i].verdict.status = "pass"
           /\ \A c \in Comparisons(arms) : c.result.fails = {}
<1>. DEFINE judgements == {IF c.result.fails # {} THEN "fail" ELSE "pass" : c \in Comparisons(arms)}
            statuses == {ArmStatus(arms[a]) : a \in DOMAIN arms} \cup judgements
<1>1. \A s \in statuses : s = "pass"
  BY WorstPasses DEF ScenarioStatus
<1>2. ASSUME NEW a \in DOMAIN arms, NEW i \in DOMAIN arms[a]
      PROVE  arms[a][i].verdict.status = "pass"
  <2>1. ArmStatus(arms[a]) \in statuses
    OBVIOUS
  <2>. HIDE DEF statuses
  <2>2. Worst({arms[a][j].verdict.status : j \in DOMAIN arms[a]}) = "pass"
    BY <1>1, <2>1 DEF ArmStatus
  <2>. QED
    BY <2>2, WorstPasses
<1>3. ASSUME NEW c \in Comparisons(arms), c.result.fails # {} PROVE FALSE
  <2>1. "fail" \in statuses
    BY <1>3
  <2>. HIDE DEF statuses
  <2>. QED
    BY <1>1, <2>1
<1>. QED
  BY <1>2, <1>3

\* What a run that passed, by the gate or without it, cannot have shown.
LEMMA GatePasses ==
    ASSUME NEW seed, NEW k, NEW short, NEW baseline,
           k.tripinfo \in {"whole", "broken", "malformed", "absent"},
           Gated([seed |-> seed, kpis |-> k, verdict |-> RunVerdict(k, short)],
                 baseline, short).verdict.status = "pass"
    PROVE  /\ k.tripinfo = "whole" /\ Inconclusive(k, short) = {}
           /\ HardReasons(k, short) \subseteq {"max_waiting"}
           /\ \/ "max_waiting" \notin HardReasons(k, short)
              \/ \E base \in OfSeed(baseline, seed) : WithinBaseline(k, base.kpis)
<1>. DEFINE verdict == RunVerdict(k, short)
            replica == [seed |-> seed, kpis |-> k, verdict |-> verdict]
            excused == /\ "max_waiting" \in verdict.reasons
                       /\ \E base \in OfSeed(baseline, seed) : WithinBaseline(k, base.kpis)
<1>1. CASE ~excused
  <2>1. Gated(replica, baseline, short) = replica
    BY <1>1 DEF Gated
  <2>2. verdict.status = "pass"
    BY <2>1
  <2>. QED
    BY <2>2 DEF RunVerdict
<1>2. CASE excused
  <2>1. Gated(replica, baseline, short) = [replica EXCEPT !.verdict = Relaxed(verdict, k, short)]
    BY <1>2 DEF Gated
  <2>2. Relaxed(verdict, k, short).status = "pass"
    BY <2>1
  <2>. HIDE DEF verdict
  <2>3. verdict.reasons \subseteq {"max_waiting"} /\ Inconclusive(k, short) = {}
    BY <2>2 DEF Relaxed
  <2>4. "max_waiting" \notin {"broken", "malformed", "absent"}
    OBVIOUS
  <2>5. k.tripinfo = "whole" /\ HardReasons(k, short) = verdict.reasons
    BY <1>2, <2>3, <2>4 DEF verdict, RunVerdict
  <2>. QED
    BY <1>2, <2>3, <2>5
<1>. QED
  BY <1>1, <1>2

-----------------------------------------------------------------------------
(* What is read of files that are sound.                                    *)

\* A finite set of numbers has a greatest.
LEMMA MaxOfNumbers ==
    ASSUME NEW S \in SUBSET Int, IsFiniteSet(S), S # {}
    PROVE  Max(S) \in S /\ \A n \in S : n <= Max(S)
<1>. DEFINE id == [n \in S |-> n]
<1>1. \A n \in S : id[n] = n /\ id[n] \in Int
  OBVIOUS
<1>. HIDE DEF id
<1>2. PICK m \in S : \A n \in S : id[n] <= id[m]
  BY <1>1, HighestExists
<1>3. \A n \in S : m >= n
  BY <1>1, <1>2
<1>4. Max(S) \in S /\ \A n \in S : Max(S) >= n
  BY <1>3 DEF Max
<1>. QED
  BY <1>4

\* The values of a sequence are finitely many.
LEMMA ValuesAreFinite ==
    ASSUME NEW f, IsFiniteSet(DOMAIN f), NEW S \in SUBSET DOMAIN f
    PROVE  IsFiniteSet(S) /\ IsFiniteSet({f[i] : i \in S})
<1>. DEFINE g == [i \in S |-> f[i]]
<1>1. IsFiniteSet(S)
  BY FS_Subset
<1>2. g \in Surjection(S, {f[i] : i \in S})
  BY DEF Surjection
<1>. QED
  BY <1>1, <1>2, FS_Surjection

LEMMA HighestIsHighest ==
    ASSUME NEW f, IsFiniteSet(DOMAIN f), \A i \in DOMAIN f : f[i] \in Int
    PROVE  /\ Highest(f) \in Int
           /\ \A i \in DOMAIN f : f[i] = Missing \/ f[i] <= Highest(f)
<1>. DEFINE values == {f[i] : i \in Known(f)}
<1>1. Known(f) \subseteq DOMAIN f
  BY DEF Known
<1>2. values \in SUBSET Int /\ IsFiniteSet(values) /\ (values = {} <=> Known(f) = {})
  BY <1>1, ValuesAreFinite
<1>3. CASE Known(f) = {}
  BY <1>3 DEF Highest, Known, Missing
<1>4. CASE Known(f) # {}
  <2>1. Highest(f) = Max(values)
    BY <1>4 DEF Highest
  <2>2. Max(values) \in values /\ \A n \in values : n <= Max(values)
    BY <1>2, <1>4, MaxOfNumbers
  <2>3. \A i \in DOMAIN f : f[i] = Missing \/ f[i] \in values
    BY DEF Known
  <2>. HIDE DEF values
  <2>. QED
    BY <1>2, <2>1, <2>2, <2>3
<1>. QED
  BY <1>3, <1>4

LEMMA DomainOfSeq ==
    ASSUME NEW T, NEW s \in Seq(T)
    PROVE  IsFiniteSet(DOMAIN s) /\ \A i \in DOMAIN s : s[i] \in T
<1>1. DOMAIN s = 1 .. Len(s) /\ Len(s) \in Nat
  OBVIOUS
<1>. QED
  BY <1>1, FS_Interval

\* The longest queue the detectors tell of is the longest of any of them.
LEMMA QueuesWithin ==
    ASSUME NEW files, IsFiles(files), NEW n \in Nat, QueueKpi(files) <= n,
           NEW e \in DOMAIN files.queues
    PROVE  QueueKpi(files) \in Int /\ Highest(files.queues[e]) <= n
<1>. DEFINE edges == files.queues
            longest == [i \in DOMAIN edges |-> Highest(edges[i])]
<1>1. edges \in Seq(Seq(Int)) /\ edges # <<>>
  BY DEF IsFiles
<1>2. QueueKpi(files) = Highest(longest)
  BY <1>1 DEF QueueKpi, IsFiles
<1>3. IsFiniteSet(DOMAIN edges) /\ \A i \in DOMAIN edges : edges[i] \in Seq(Int)
  BY <1>1, DomainOfSeq
<1>4. \A i \in DOMAIN edges : Highest(edges[i]) \in Int
  BY <1>3, DomainOfSeq, HighestIsHighest
<1>5. DOMAIN longest = DOMAIN edges /\ \A i \in DOMAIN edges : longest[i] = Highest(edges[i])
  OBVIOUS
<1>. HIDE DEF longest
<1>6. Highest(longest) \in Int /\ (longest[e] = Missing \/ longest[e] <= Highest(longest))
  BY <1>3, <1>4, <1>5, HighestIsHighest
<1>. QED
  BY <1>2, <1>4, <1>5, <1>6 DEF Missing

LEMMA QueueIsNumber ==
    ASSUME NEW files, IsFiles(files)
    PROVE  QueueKpi(files) \in Int
<1>. DEFINE edges == files.queues
            longest == [i \in DOMAIN edges |-> Highest(edges[i])]
<1>1. IsFiniteSet(DOMAIN edges) /\ \A i \in DOMAIN edges : edges[i] \in Seq(Int)
  BY DomainOfSeq DEF IsFiles
<1>2. \A i \in DOMAIN edges : Highest(edges[i]) \in Int
  BY <1>1, DomainOfSeq, HighestIsHighest
<1>3. DOMAIN longest = DOMAIN edges /\ \A i \in DOMAIN edges : longest[i] \in Int
  BY <1>2
<1>4. QueueKpi(files) = Missing \/ QueueKpi(files) = Highest(longest)
  BY DEF QueueKpi
<1>. HIDE DEF longest
<1>5. Highest(longest) \in Int
  BY <1>1, <1>3, HighestIsHighest
<1>. QED
  BY <1>4, <1>5 DEF Missing

\* The longest time anybody waited is what the summary says.
LEMMA WaitingIsRead ==
    ASSUME NEW files, IsFiles(files)
    PROVE  /\ Longest(files) \in Nat
           /\ RunKpis(files).insertion.maxWaiting = Longest(files)
<1>. DEFINE all == <<0>> \o files.waiting
            values == {0} \cup ToSet(files.waiting)
<1>1. files.waiting \in Seq(Nat) /\ (files.summary # "whole" => files.waiting = <<>>)
  BY DEF IsFiles
<1>2. RunKpis(files).insertion.maxWaiting = Highest(all)
  BY <1>1 DEF RunKpis, InsertionKpis
<1>. DEFINE zero == <<0>>
<1>3. zero \in Seq(Nat) /\ ToSet(zero) = {0}
  <2>1. zero \in Seq(Nat)
    OBVIOUS
  <2>2. DOMAIN zero = {1} /\ zero[1] = 0
    OBVIOUS
  <2>. HIDE DEF zero
  <2>. QED
    BY <2>1, <2>2 DEF ToSet
<1>4. all \in Seq(Nat) /\ ToSet(all) = values
  <2>1. all = zero \o files.waiting
    OBVIOUS
  <2>. HIDE DEF all, zero
  <2>. QED
    BY <1>1, <1>3, <2>1, ElementsOfConcat
<1>. HIDE DEF all
<1>5. IsFiniteSet(DOMAIN all) /\ \A i \in DOMAIN all : all[i] \in Nat
  BY <1>4, DomainOfSeq
<1>6. Known(all) = DOMAIN all
  BY <1>5 DEF Known, Missing
<1>7. {all[i] : i \in DOMAIN all} = values
  BY <1>4 DEF ToSet
<1>8. Highest(all) = Max(values)
  <2>1. DOMAIN all # {}
    BY <1>7
  <2>. QED
    BY <1>6, <1>7, <2>1 DEF Highest
<1>9. values \in SUBSET Nat /\ values # {} /\ IsFiniteSet(values)
  BY <1>5, <1>7, ValuesAreFinite
<1>10. Max(values) \in values
  BY <1>9, MaxOfNumbers
<1>. QED
  BY <1>2, <1>8, <1>9, <1>10 DEF Longest

LEMMA BaselineAllows ==
    ASSUME NEW m \in Nat, NEW b \in Nat, NEW k, NEW base,
           k.insertion.maxWaiting = m, base.insertion.maxWaiting = b, WithinBaseline(k, base)
    PROVE  m <= Thresholds.waiting \/ 10 * m <= 11 * b
<1>. DEFINE S == {10 * Thresholds.waiting, 11 * b}
<1>1. Thresholds.waiting \in Int
  BY FilesAssumption
<1>2. S \in SUBSET Int /\ S # {} /\ IsFiniteSet(S)
  <2>1. IsFiniteSet({10 * Thresholds.waiting}) /\ IsFiniteSet({11 * b})
    BY FS_Singleton
  <2>2. S = {10 * Thresholds.waiting} \cup {11 * b}
    OBVIOUS
  <2>3. S \in SUBSET Int /\ S # {}
    BY <1>1
  <2>. HIDE DEF S
  <2>. QED
    BY <2>1, <2>2, <2>3, FS_Union
<1>3. Max(S) \in S
  BY <1>2, MaxOfNumbers
<1>4. 10 * m <= Max(S)
  BY DEF WithinBaseline
<1>. QED
  BY <1>1, <1>3, <1>4

\* The reasons by name.
LEMMA NothingInconclusive ==
    ASSUME NEW k, NEW short, Inconclusive(k, short) = {}
    PROVE  k.safety.complete /\ ~k.insertion.parseError /\ ~(k.trips.buses = 0 /\ short)
<1>. DEFINE holds == [statistics_unavailable |-> ~k.safety.complete,
                      summary_unavailable    |-> k.insertion.parseError,
                      no_buses_in_short_run  |-> k.trips.buses = 0 /\ short]
<1>1. Inconclusive(k, short) = {r \in DOMAIN holds : holds[r]}
  BY DEF Inconclusive
<1>2. DOMAIN holds = {"statistics_unavailable", "summary_unavailable", "no_buses_in_short_run"}
  OBVIOUS
<1>3. /\ holds["statistics_unavailable"] <=> ~k.safety.complete
      /\ holds["summary_unavailable"] <=> k.insertion.parseError
      /\ holds["no_buses_in_short_run"] <=> (k.trips.buses = 0 /\ short)
  OBVIOUS
<1>. HIDE DEF holds
<1>4. \A r \in DOMAIN holds : ~holds[r]
  BY <1>1
<1>. QED
  BY <1>2, <1>3, <1>4

LEMMA NothingHard ==
    ASSUME NEW k, NEW short
    PROVE  /\ HardReasons(k, short) \subseteq {"max_waiting"} =>
                 /\ ~(k.trips.buses = 0 /\ ~short)
                 /\ ~(k.safety.collisions > Thresholds.collisions)
                 /\ ~(k.safety.jam > Thresholds.jam)
           /\ "max_waiting" \notin HardReasons(k, short) =>
                 ~(k.insertion.maxWaiting > Thresholds.waiting)
<1>. DEFINE braking == TooMuchBraking(k)
            holds == [no_completed_vehicles |-> k.trips.vehicles = 0,
                      no_completed_buses    |-> k.trips.buses = 0 /\ ~short,
                      collisions            |-> k.safety.collisions > Thresholds.collisions,
                      teleports             |-> k.safety.teleports > Thresholds.teleports,
                      jam_teleports         |-> k.safety.jam > Thresholds.jam,
                      emergency_braking     |-> braking,
                      waiting_at_end        |-> k.safety.waiting > Thresholds.waitingAtEnd,
                      gap_at_end            |-> k.insertion.gapAtEnd > Thresholds.gapAtEnd,
                      max_waiting           |-> k.insertion.maxWaiting > Thresholds.waiting,
                      backlog               |-> 100 * k.insertion.backlog
                                              > Thresholds.backlogPercent * k.insertion.steps]
<1>1. HardReasons(k, short) = {r \in DOMAIN holds : holds[r]}
  BY DEF HardReasons
<1>2. {"no_completed_buses", "collisions", "jam_teleports", "max_waiting"} \subseteq DOMAIN holds
  OBVIOUS
<1>. HIDE DEF braking
<1>3. /\ holds["no_completed_buses"] <=> (k.trips.buses = 0 /\ ~short)
      /\ holds["collisions"] <=> k.safety.collisions > Thresholds.collisions
      /\ holds["jam_teleports"] <=> k.safety.jam > Thresholds.jam
      /\ holds["max_waiting"] <=> k.insertion.maxWaiting > Thresholds.waiting
  OBVIOUS
<1>. HIDE DEF holds
<1>4. \A r \in DOMAIN holds : holds[r] => r \in HardReasons(k, short)
  BY <1>1
<1>. QED
  BY <1>2, <1>3, <1>4

\* Files in which nothing is missing and no hard reason found are sound.
LEMMA RunIsSound ==
    ASSUME NEW files, IsFiles(files), ~Unreadable(files), NEW short,
           files.tripinfo = "whole", Inconclusive(RunKpis(files), short) = {},
           HardReasons(RunKpis(files), short) \subseteq {"max_waiting"}
    PROVE  /\ Sound(files)
           /\ \/ "max_waiting" \in HardReasons(RunKpis(files), short)
              \/ Longest(files) <= Thresholds.waiting
<1>. DEFINE k == RunKpis(files)
<1>1. /\ k.safety = SafetyKpis(files) /\ k.insertion = InsertionKpis(files)
      /\ k.trips = TripKpis(files.trips)
  BY DEF RunKpis
<1>. HIDE DEF k
<1>2. k.safety.complete /\ ~k.insertion.parseError /\ ~(k.trips.buses = 0 /\ short)
  BY NothingInconclusive DEF k
<1>3. /\ ~(k.trips.buses = 0 /\ ~short) /\ ~(k.safety.collisions > Thresholds.collisions)
      /\ ~(k.safety.jam > Thresholds.jam)
  BY NothingHard DEF k
<1>4. files.statistics = "whole" /\ \A i \in DOMAIN Blocks : Blocks[i] \in BlocksRead(files)
  BY <1>1, <1>2 DEF SafetyKpis, StatisticsComplete
<1>5. BlocksRead(files) \subseteq files.blocks
  BY DEF BlocksRead
<1>6. DOMAIN Blocks = 1 .. 3 /\ Blocks[2] = "teleports" /\ Blocks[3] = "safety"
  BY DEF Blocks
<1>7. k.safety.collisions = files.counters["collisions"] /\ k.safety.jam = files.counters["jam"]
  BY <1>1, <1>4, <1>6 DEF SafetyKpis, Counter
<1>8. files.counters.collisions <= Thresholds.collisions /\ files.counters.jam <= Thresholds.jam
  <2>1. files.counters["collisions"] \in Nat /\ files.counters["jam"] \in Nat
    BY DEF IsFiles
  <2>2. Thresholds.collisions \in Int /\ Thresholds.jam \in Int
    BY FilesAssumption
  <2>. QED
    BY <1>3, <1>7, <2>1, <2>2
<1>9. \E i \in DOMAIN files.trips : files.trips[i].bus
  <2>1. Cardinality(Buses(files.trips)) # 0
    BY <1>1, <1>2, <1>3 DEF TripKpis
  <2>2. Buses(files.trips) # {}
    BY <2>1, FS_EmptySet
  <2>. QED
    BY <2>2 DEF Buses
<1>10. files.summary # "broken"
  <2>1. InsertionKpis(files).parseError <=> files.summary = "broken"
    BY DEF InsertionKpis
  <2>. QED
    BY <1>1, <1>2, <2>1
<1>11. ToSet(Blocks) \subseteq files.blocks
  BY <1>4, <1>5 DEF ToSet
<1>12. "max_waiting" \in HardReasons(k, short) \/ Longest(files) <= Thresholds.waiting
  <2>1. SUFFICES ASSUME "max_waiting" \notin HardReasons(k, short)
                 PROVE  Longest(files) <= Thresholds.waiting
    BY DEF k
  <2>2. ~(k.insertion.maxWaiting > Thresholds.waiting)
    BY <2>1, NothingHard
  <2>3. k.insertion.maxWaiting = Longest(files) /\ Longest(files) \in Nat
    BY WaitingIsRead DEF k
  <2>4. Thresholds.waiting \in Int
    BY FilesAssumption
  <2>. QED
    BY <2>2, <2>3, <2>4
<1>. QED
  BY <1>4, <1>8, <1>9, <1>10, <1>11, <1>12 DEF Sound, k

-----------------------------------------------------------------------------
(* What a summary rests on.                                                 *)

\* What is read for a run are the files that run wrote: the stale files of the
\* global directory are gone before a simulation ends.
ReadsItsOwn ==
    ~args.generate =>
        /\ Live # {} => ~globals
        /\ \A leaf \in DOMAIN leaves : leaves[leaf].state = "done" =>
              /\ leaves[leaf].read = leaves[leaf].files
              /\ leaves[leaf].files \in FilesOf[leaf.scenario, leaf.arm]
              /\ ~Unreadable(leaves[leaf].files)

\* A summary is still what would be written of the leaves.
SummariesStand ==
    \A i \in DOMAIN summaries :
        /\ summaries[i] = Summary(summaries[i].scenario)
        /\ EffectiveSeeds(summaries[i].scenario) # <<>>

EvidenceInv == PoolInv /\ ReadsItsOwn /\ SummariesStand

LEMMA SummaryOfRuns ==
    ASSUME NEW scenario, ~args.generate
    PROVE  LET arms == AfterGate([arm \in Arms(args) |-> Replications(scenario, arm)], args.short)
           IN  /\ Summary(scenario).seeds = EffectiveSeeds(scenario)
               /\ Summary(scenario).arms = arms
               /\ Summary(scenario).comparisons = Comparisons(arms)
               /\ Summary(scenario).status = ScenarioStatus(arms)
<1>. DEFINE arms == AfterGate([arm \in Arms(args) |-> Replications(scenario, arm)], args.short)
            comparisons == Comparisons(arms)
            status == ScenarioStatus(arms)
            seeds == EffectiveSeeds(scenario)
<1>1. Summary(scenario) = [scenario |-> scenario, seeds |-> seeds, arms |-> arms,
                           comparisons |-> comparisons, status |-> status]
  BY DEF Summary
<1>. HIDE DEF arms, comparisons, status, seeds
<1>2. /\ Summary(scenario).seeds = seeds /\ Summary(scenario).arms = arms
      /\ Summary(scenario).comparisons = comparisons /\ Summary(scenario).status = status
  BY <1>1
<1>. QED
  BY <1>2 DEF arms, comparisons, status, seeds

\* What is judged was asked for by an invocation that is under way.
LEMMA JudgedUnderWay ==
    ASSUME PoolInv, NEW i \in DOMAIN summaries
    PROVE  /\ phase # "idle" /\ args \in Invocations /\ DOMAIN leaves = ToSet(Tasks(args))
           /\ summaries[i].scenario \in ToSet(args.asked)
           /\ summaries[i].scenario \in DOMAIN SeedsOf
           /\ SeedsOf[summaries[i].scenario] \in Seq(Nat)
           /\ \A k, l \in DOMAIN SeedsOf[summaries[i].scenario] :
                 SeedsOf[summaries[i].scenario][k] = SeedsOf[summaries[i].scenario][l] => k = l
<1>. DEFINE scenario == summaries[i].scenario
<1>1. phase # "idle"
  <2>1. DOMAIN summaries # {}
    OBVIOUS
  <2>2. phase = "idle" => summaries = <<>>
    BY DEF PoolInv, AskedInv, NothingUnderWay
  <2>. QED
    BY <2>1, <2>2
<1>2. scenario \in ToSet(args.asked) /\ args \in Invocations /\ DOMAIN leaves = ToSet(Tasks(args))
  BY <1>1 DEF PoolInv, AskedInv, SummariesAsked, PlanUnderWay, ToSet
<1>3. scenario \in DOMAIN SeedsOf
  <2>1. args.asked \in Seq(DOMAIN SeedsOf)
    BY <1>2, CampaignAssumption
  <2>. QED
    BY <1>2, <2>1 DEF ToSet
<1>. HIDE DEF scenario
<1>4. SeedsOf[scenario] \in Seq(Nat) /\ IsInjective(SeedsOf[scenario])
  BY <1>3, CampaignAssumption
<1>. QED
  BY <1>1, <1>2, <1>3, <1>4 DEF scenario, IsInjective

\* The replications of a scenario, each with its own files.
LEMMA RunsOfPlan ==
    ASSUME EvidenceInv, NEW i \in DOMAIN summaries, ~args.generate,
           NEW arm \in Arms(args), NEW j \in DOMAIN EffectiveSeeds(summaries[i].scenario)
    PROVE  LET scenario == summaries[i].scenario
               seed == EffectiveSeeds(scenario)[j]
               files == leaves[LeafOf(scenario, arm, seed)].files
               kpis == RunKpis(files)
           IN  /\ IsFiles(files) /\ ~Unreadable(files)
               /\ Replications(scenario, arm)[j].seed = seed
               /\ Replications(scenario, arm)[j].kpis = kpis
               /\ Replications(scenario, arm)[j]
                     = [seed |-> seed, kpis |-> kpis, verdict |-> RunVerdict(kpis, args.short)]
<1>. DEFINE scenario == summaries[i].scenario
            seeds == EffectiveSeeds(scenario)
            leaf == LeafOf(scenario, arm, seeds[j])
            kpis == RunKpis(leaves[leaf].files)
<1>2. scenario \in ToSet(args.asked) /\ args \in Invocations /\ DOMAIN leaves = ToSet(Tasks(args))
  BY JudgedUnderWay DEF EvidenceInv
<1>3. scenario \in DOMAIN SeedsOf /\ SeedsOf[scenario] \in Seq(Nat)
  BY JudgedUnderWay DEF EvidenceInv
<1>4. seeds[j] \in ToSet(SeedsOf[scenario]) /\ EveryArmHasIt(scenario, seeds[j])
  <2>1. SeedsOf[scenario] \in Seq(ToSet(SeedsOf[scenario]))
    BY <1>3, SequenceOfItsElements
  <2>2. seeds \in Seq(ToSet(SeedsOf[scenario]) \cap Complete(scenario))
    BY <2>1, OnlyIsSequence DEF EffectiveSeeds
  <2>3. seeds[j] \in Complete(scenario)
    <3>1. j \in DOMAIN seeds
      OBVIOUS
    <3>. HIDE DEF seeds
    <3>. QED
      BY <2>2, <3>1, DomainOfSeq
  <2>. QED
    BY <2>3 DEF Complete
<1>5. leaf \in DOMAIN leaves /\ leaves[leaf].state = "done"
  BY <1>2, <1>4, TasksOfPlan DEF EveryArmHasIt, Arms
<1>6. leaf.scenario = scenario /\ leaf.arm = arm
  BY DEF LeafOf
<1>7. /\ leaves[leaf].read = leaves[leaf].files /\ ~Unreadable(leaves[leaf].files)
      /\ leaves[leaf].files \in FilesOf[scenario, arm]
  BY <1>5, <1>6 DEF EvidenceInv, ReadsItsOwn
<1>8. IsFiles(leaves[leaf].files)
  BY <1>2, <1>3, <1>7, FilesAssumption DEF Arms
<1>9. Replications(scenario, arm)[j]
          = [seed |-> seeds[j], kpis |-> kpis, verdict |-> RunVerdict(kpis, args.short)]
  BY <1>7 DEF Replications, InOrderOfPlan
<1>10. \A x, y, z : [seed |-> x, kpis |-> y, verdict |-> z].seed = x
                   /\ [seed |-> x, kpis |-> y, verdict |-> z].kpis = y
  OBVIOUS
<1>. HIDE DEF kpis, leaf, seeds
<1>11. Replications(scenario, arm)[j].seed = seeds[j] /\ Replications(scenario, arm)[j].kpis = kpis
  BY <1>9, <1>10
<1>. QED
  BY <1>7, <1>8, <1>9, <1>11 DEF kpis, leaf, seeds

\* A queue longer than 30 at any seed fails the comparison.
LEMMA ComparisonLimitsQueue ==
    ASSUME NEW baseline, NEW candidate, Comparison(baseline, candidate).fails = {}
    PROVE  ~(Highest(Queue(candidate)) > 30)
<1>. DEFINE bus == Delta(MeanOverSeeds(BusLoss(baseline)), MeanOverSeeds(BusLoss(candidate)))
            general == Delta(MeanOverSeeds(GeneralLoss(baseline)),
                             MeanOverSeeds(GeneralLoss(candidate)))
            regression == bus.known /\ bus.base # 0 /\ 10 * bus.change > bus.base
            penalty == general.known /\ general.change > 90
            longest == Highest(Queue(candidate))
            holds == [bus_regression |-> regression, general_penalty |-> penalty,
                      queue |-> longest > 30]
<1>1. Comparison(baseline, candidate).fails = {r \in DOMAIN holds : holds[r]}
  BY DEF Comparison
<1>. HIDE DEF regression, penalty, longest
<1>2. "queue" \in DOMAIN holds /\ (holds["queue"] <=> longest > 30)
  OBVIOUS
<1>. HIDE DEF holds
<1>. QED
  BY <1>1, <1>2 DEF longest

\* A pass is earned.
LEMMA PassRests ==
    ASSUME EvidenceInv
    PROVE  PassIsEarned
<1>. SUFFICES ASSUME NEW i \in DOMAIN summaries, summaries[i].status = "pass", ~args.generate,
                     NEW arm \in Arms(args), NEW seed \in ToSet(summaries[i].seeds)
              PROVE  LET Files(a, n) == leaves[LeafOf(summaries[i].scenario, a, n)].files
                     IN  /\ Sound(Files(arm, seed))
                         /\ arm = "tsp_actuation" /\ Len(args.arms) = 2 =>
                               \A e \in DOMAIN Files(arm, seed).queues :
                                   Highest(Files(arm, seed).queues[e]) <= 30
                         /\ \/ Longest(Files(arm, seed)) <= Thresholds.waiting
                            \/ /\ arm # "baseline" /\ "baseline" \in Arms(args)
                               /\ 10 * Longest(Files(arm, seed))
                                     <= 11 * Longest(Files("baseline", seed))
  <2>1. \A i \in DOMAIN summaries : ~args.generate => summaries[i].seeds # <<>>
    <3>1. \A scenario : ~args.generate => Summary(scenario).seeds = EffectiveSeeds(scenario)
      BY SummaryOfRuns
    <3>. QED
      BY <3>1 DEF EvidenceInv, SummariesStand
  <2>. QED
    BY <2>1 DEF PassIsEarned
<1>. DEFINE scenario == summaries[i].scenario
            seeds == EffectiveSeeds(scenario)
            runs == [a \in Arms(args) |-> Replications(scenario, a)]
            arms == AfterGate(runs, args.short)
            Files(a, n) == leaves[LeafOf(scenario, a, n)].files
<1>1. /\ summaries[i].seeds = seeds /\ summaries[i].status = ScenarioStatus(arms)
  <2>1. summaries[i] = Summary(scenario)
    BY DEF EvidenceInv, SummariesStand
  <2>. HIDE DEF scenario
  <2>. QED
    BY <2>1, SummaryOfRuns
<1>2. PICK j \in DOMAIN seeds : seeds[j] = seed
  BY <1>1 DEF ToSet
<1>3. ASSUME NEW a \in Arms(args), NEW k \in DOMAIN seeds
      PROVE  /\ IsFiles(Files(a, seeds[k])) /\ ~Unreadable(Files(a, seeds[k]))
             /\ runs[a][k].seed = seeds[k] /\ runs[a][k].kpis = RunKpis(Files(a, seeds[k]))
             /\ runs[a][k] = [seed |-> seeds[k], kpis |-> RunKpis(Files(a, seeds[k])),
                              verdict |-> RunVerdict(RunKpis(Files(a, seeds[k])), args.short)]
  BY RunsOfPlan
<1>4. \A a \in Arms(args) : DOMAIN runs[a] = DOMAIN seeds
  BY DEF Replications, InOrderOfPlan
<1>5. /\ DOMAIN arms = Arms(args)
      /\ \A a \in Arms(args) :
            \/ arms[a] = runs[a]
            \/ /\ a # "baseline" /\ "baseline" \in Arms(args)
               /\ arms[a] = [k \in DOMAIN seeds |-> Gated(runs[a][k], runs["baseline"], args.short)]
  <2>1. DOMAIN runs = Arms(args)
    OBVIOUS
  <2>. HIDE DEF runs
  <2>. QED
    BY <1>4, <2>1 DEF AfterGate
<1>. DEFINE files == Files(arm, seed)
            kpis == RunKpis(files)
            run == [seed |-> seed, kpis |-> kpis, verdict |-> RunVerdict(kpis, args.short)]
<1>6. IsFiles(files) /\ ~Unreadable(files) /\ runs[arm][j] = run
  BY <1>2, <1>3
<1>7. kpis.tripinfo = files.tripinfo /\ kpis.queue = QueueKpi(files)
  BY DEF RunKpis
<1>. HIDE DEF Files, runs, seeds, arms
<1>8. arms[arm][j].verdict.status = "pass" /\ \A c \in Comparisons(arms) : c.result.fails = {}
  <2>1. DOMAIN arms[arm] = DOMAIN seeds
    BY <1>4, <1>5
  <2>. QED
    BY <1>1, <1>5, <2>1, StatusPasses
<1>. HIDE DEF files, kpis, run
<1>9. /\ Inconclusive(kpis, args.short) = {} /\ kpis.tripinfo = "whole"
      /\ HardReasons(kpis, args.short) \subseteq {"max_waiting"}
      /\ \/ "max_waiting" \notin HardReasons(kpis, args.short)
         \/ /\ arm # "baseline" /\ "baseline" \in Arms(args)
            /\ \E base \in OfSeed(runs["baseline"], seed) : WithinBaseline(kpis, base.kpis)
  <2>1. CASE arms[arm] = runs[arm]
    <3>1. RunVerdict(kpis, args.short).status = "pass"
      BY <1>6, <1>8, <2>1 DEF run
    <3>. QED
      BY <3>1 DEF RunVerdict
  <2>2. CASE /\ arm # "baseline" /\ "baseline" \in Arms(args)
             /\ arms[arm] = [k \in DOMAIN seeds |->
                               Gated(runs[arm][k], runs["baseline"], args.short)]
    <3>1. Gated(run, runs["baseline"], args.short).verdict.status = "pass"
      BY <1>2, <1>6, <1>8, <2>2
    <3>2. kpis.tripinfo \in {"whole", "broken", "malformed", "absent"}
      BY <1>6, <1>7 DEF IsFiles
    <3>. QED
      BY <2>2, <3>1, <3>2, GatePasses DEF run
  <2>. QED
    BY <1>5, <2>1, <2>2
<1>10. /\ Sound(files)
       /\ "max_waiting" \in HardReasons(kpis, args.short) \/ Longest(files) <= Thresholds.waiting
  BY <1>6, <1>7, <1>9, RunIsSound DEF kpis
<1>11. ASSUME "max_waiting" \in HardReasons(kpis, args.short)
       PROVE  /\ arm # "baseline" /\ "baseline" \in Arms(args)
              /\ \/ Longest(files) <= Thresholds.waiting
                 \/ 10 * Longest(files) <= 11 * Longest(Files("baseline", seed))
  <2>1. PICK base \in OfSeed(runs["baseline"], seed) : WithinBaseline(kpis, base.kpis)
    BY <1>9, <1>11
  <2>2. PICK k \in DOMAIN runs["baseline"] : base = runs["baseline"][k] /\ base.seed = seed
    BY <2>1 DEF OfSeed
  <2>3. "baseline" \in Arms(args) /\ k \in DOMAIN seeds /\ seeds[k] = seed
    <3>1. "baseline" \in Arms(args)
      BY <1>9, <1>11
    <3>2. k \in DOMAIN seeds
      BY <1>4, <2>2, <3>1
    <3>. QED
      BY <1>3, <2>2, <3>1, <3>2
  <2>4. IsFiles(Files("baseline", seed)) /\ base.kpis = RunKpis(Files("baseline", seed))
    BY <1>3, <2>2, <2>3
  <2>5. /\ Longest(files) \in Nat /\ kpis.insertion.maxWaiting = Longest(files)
        /\ Longest(Files("baseline", seed)) \in Nat
        /\ base.kpis.insertion.maxWaiting = Longest(Files("baseline", seed))
    BY <1>6, <2>4, WaitingIsRead DEF kpis
  <2>6. \/ Longest(files) <= Thresholds.waiting
        \/ 10 * Longest(files) <= 11 * Longest(Files("baseline", seed))
    BY <2>1, <2>5, BaselineAllows
  <2>. QED
    BY <1>9, <1>11, <2>6
<1>12. ASSUME arm = "tsp_actuation", Len(args.arms) = 2, NEW e \in DOMAIN files.queues
       PROVE  Highest(files.queues[e]) <= 30
  <2>1. {"baseline", "tsp_actuation"} \subseteq Arms(args)
    <3>1. args \in Invocations
      BY JudgedUnderWay DEF EvidenceInv
    <3>2. args.arms = <<"baseline", "tsp_actuation">> \/ Len(args.arms) = 1
      BY <3>1, CampaignAssumption
    <3>3. args.arms = <<"baseline", "tsp_actuation">>
      BY <1>12, <3>2
    <3>4. DOMAIN args.arms = 1 .. 2 /\ args.arms[1] = "baseline" /\ args.arms[2] = "tsp_actuation"
      BY <3>3
    <3>. QED
      BY <3>4 DEF Arms, ToSet
  <2>2. PICK c \in Comparisons(arms) :
            c.result = Comparison(arms["baseline"], arms["tsp_actuation"])
    BY <1>5, <2>1 DEF Comparisons
  <2>3. ~(Highest(Queue(arms[arm])) > 30)
    BY <1>8, <1>12, <2>2, ComparisonLimitsQueue
  <2>. DEFINE queue == Queue(arms[arm])
  <2>4. /\ DOMAIN queue = DOMAIN seeds
        /\ \A k \in DOMAIN seeds : queue[k] = QueueKpi(Files(arm, seeds[k]))
    <3>1. DOMAIN arms[arm] = DOMAIN seeds
      BY <1>4, <1>5
    <3>2. ASSUME NEW k \in DOMAIN seeds
          PROVE  arms[arm][k].kpis = RunKpis(Files(arm, seeds[k]))
      <4>1. runs[arm][k].kpis = RunKpis(Files(arm, seeds[k]))
        BY <1>3
      <4>2. Gated(runs[arm][k], runs["baseline"], args.short).kpis = runs[arm][k].kpis
        BY <1>3 DEF Gated
      <4>. QED
        BY <1>5, <4>1, <4>2
    <3>3. \A f : RunKpis(f).queue = QueueKpi(f)
      BY DEF RunKpis
    <3>. QED
      BY <3>1, <3>2, <3>3 DEF Queue
  <2>5. IsFiniteSet(DOMAIN seeds)
    <3>1. SeedsOf[scenario] \in Seq(Nat)
      BY JudgedUnderWay DEF EvidenceInv
    <3>2. seeds \in Seq(Nat \cap Complete(scenario))
      BY <3>1, OnlyIsSequence DEF EffectiveSeeds, seeds
    <3>. QED
      BY <3>2, DomainOfSeq
  <2>6. \A k \in DOMAIN seeds : QueueKpi(Files(arm, seeds[k])) \in Int
    BY <1>3, QueueIsNumber
  <2>. HIDE DEF queue
  <2>7. Highest(queue) \in Int /\ (queue[j] = Missing \/ queue[j] <= Highest(queue))
    BY <1>2, <2>4, <2>5, <2>6, HighestIsHighest
  <2>8. QueueKpi(files) <= 30
    <3>1. queue[j] = QueueKpi(files) /\ QueueKpi(files) \in Int
      BY <1>2, <2>4, <2>6 DEF files
    <3>. QED
      BY <2>3, <2>7, <3>1 DEF Missing, queue
  <2>. QED
    BY <1>6, <1>12, <2>8, QueuesWithin
<1>. QED
  BY <1>9, <1>10, <1>11, <1>12 DEF files, Files

-----------------------------------------------------------------------------
(* The comparison and the pairs.                                            *)

\* The sum of a function over a finite set, as the community modules take it.
LEMMA SumIsASum ==
    ASSUME NEW f, NEW S, IsFiniteSet(S), \A x \in S : f[x] \in Int
    PROVE  \E sum : SumsOf(f, S, sum) /\ SumFunctionOnSet(f, S) = sum[S]
<1>. DEFINE Body(sum, s) == IF s = {} THEN 0
                            ELSE LET x == CHOOSE x \in s : TRUE
                                 IN f[x] + sum[s \ {x}]
            Term(sum, s) == IF s = {} THEN 0 ELSE f[First(s)] + sum[s \ {First(s)}]
            Iterates(sum) == sum = [s \in SUBSET S |-> Body(sum, s)]
<1>1. SumFunctionOnSet(f, S) = (CHOOSE sum : Iterates(sum))[S]
  BY DEF SumFunctionOnSet, FoldFunctionOnSet, MapThenFoldSet
<1>2. ASSUME NEW sum PROVE Iterates(sum) <=> SumsOf(f, S, sum)
  <2>1. \A s \in SUBSET S : Body(sum, s) = Term(sum, s)
    BY DEF First
  <2>2. SumsOf(f, S, sum) <=> sum = [s \in SUBSET S |-> Term(sum, s)]
    BY DEF SumsOf
  <2>. HIDE DEF Body, Term
  <2>3. [s \in SUBSET S |-> Body(sum, s)] = [s \in SUBSET S |-> Term(sum, s)]
    BY <2>1
  <2>. QED
    BY <2>2, <2>3
<1>3. \E sum : SumsOf(f, S, sum)
  BY SumsExist
<1>. HIDE DEF Iterates
<1>4. SumsOf(f, S, CHOOSE sum : Iterates(sum))
  BY <1>2, <1>3
<1>. QED
  BY <1>1, <1>4

LEMMA SumOfDifferences ==
    ASSUME NEW D, IsFiniteSet(D), NEW f, NEW g, NEW h,
           \A x \in D : f[x] \in Int /\ g[x] \in Int /\ h[x] = f[x] - g[x]
    PROVE  /\ SumFunctionOnSet(f, D) \in Int /\ SumFunctionOnSet(g, D) \in Int
           /\ SumFunctionOnSet(h, D) = SumFunctionOnSet(f, D) - SumFunctionOnSet(g, D)
<1>1. PICK sumf : SumsOf(f, D, sumf) /\ SumFunctionOnSet(f, D) = sumf[D]
  BY SumIsASum
<1>2. PICK sumg : SumsOf(g, D, sumg) /\ SumFunctionOnSet(g, D) = sumg[D]
  BY SumIsASum
<1>3. PICK sumh : SumsOf(h, D, sumh) /\ SumFunctionOnSet(h, D) = sumh[D]
  <2>1. \A x \in D : h[x] \in Int
    OBVIOUS
  <2>. QED
    BY <2>1, SumIsASum
<1>4. sumf \in [SUBSET D -> Int] /\ sumg \in [SUBSET D -> Int]
  BY <1>1, <1>2, SumsAreNumbers
<1>5. sumf[D] \in Int /\ sumg[D] \in Int
  BY <1>4
<1>6. sumh[D] = sumf[D] - sumg[D]
  BY <1>1, <1>2, <1>3, SumsDiffer
<1>. QED
  BY <1>1, <1>2, <1>3, <1>5, <1>6

\* Rounding down keeps an order.
LEMMA QuotientsInOrder ==
    ASSUME NEW a \in Int, NEW b \in Int, a <= b, NEW n \in Nat, n # 0
    PROVE  a \div n \in Int /\ b \div n \in Int /\ a \div n <= b \div n
<1>1. PICK p \in Int : p = a \div n /\ n * p <= a
  OBVIOUS
<1>2. PICK q \in Int : q = b \div n /\ b < n * q + n
  OBVIOUS
<1>3. q + 1 <= p => n * (q + 1) <= n * p
  <2>. SUFFICES ASSUME q + 1 <= p PROVE n * (q + 1) <= n * p
    OBVIOUS
  <2>. HIDE <1>1, <1>2
  <2>. QED
    BY SMT
<1>4. n * (q + 1) = n * q + n /\ n * q \in Int /\ n * p \in Int
  OBVIOUS
<1>. QED
  BY <1>1, <1>2, <1>3, <1>4

\* The mean of values that are all known.
LEMMA MeanOfKnown ==
    ASSUME NEW f, IsFiniteSet(DOMAIN f), DOMAIN f # {},
           \A x \in DOMAIN f : f[x] \in Int /\ f[x] # Missing
    PROVE  /\ Mean(f) = SumFunctionOnSet(f, DOMAIN f) \div Cardinality(DOMAIN f)
           /\ Cardinality(DOMAIN f) \in Nat /\ Cardinality(DOMAIN f) # 0
<1>1. Known(f) = DOMAIN f
  BY DEF Known
<1>. QED
  BY <1>1, FS_CardinalityType, FS_EmptySet DEF Mean, Total

\* The loss of the buses of a run is a number.
LEMMA LossIsNumber ==
    ASSUME NEW files, IsFiles(files)
    PROVE  RunKpis(files).trips.busLoss \in Int
<1>. DEFINE trips == IF files.tripinfo = "whole" THEN files.trips ELSE <<>>
            losses == [i \in Buses(trips) |-> trips[i].loss]
<1>1. IsFiniteSet(DOMAIN trips) /\ \A i \in DOMAIN trips : trips[i].loss \in Nat
  <2>1. files.trips \in Seq(ToSet(files.trips)) /\ \A i \in DOMAIN files.trips : files.trips[i].loss \in Nat
    BY DEF IsFiles
  <2>2. IsFiniteSet(DOMAIN files.trips)
    BY <2>1, DomainOfSeq
  <2>3. DOMAIN <<>> = {}
    OBVIOUS
  <2>. QED
    BY <2>1, <2>2, <2>3, FS_EmptySet
<1>2. RunKpis(files).trips.busLoss = Mean(losses)
  BY DEF RunKpis, TripKpis, LossOf
<1>3. Buses(trips) \subseteq DOMAIN trips
  BY DEF Buses
<1>. HIDE DEF trips
<1>4. IsFiniteSet(DOMAIN losses) /\ \A i \in DOMAIN losses : losses[i] \in Int /\ losses[i] # Missing
  BY <1>1, <1>3, FS_Subset DEF Missing
<1>. HIDE DEF losses
<1>5. CASE DOMAIN losses = {}
  BY <1>2, <1>5 DEF Mean, Known, Missing
<1>6. CASE DOMAIN losses # {}
  <2>1. /\ Mean(losses) = SumFunctionOnSet(losses, DOMAIN losses) \div Cardinality(DOMAIN losses)
        /\ Cardinality(DOMAIN losses) \in Nat /\ Cardinality(DOMAIN losses) # 0
    BY <1>4, <1>6, MeanOfKnown
  <2>2. PICK sum : /\ SumsOf(losses, DOMAIN losses, sum)
                   /\ SumFunctionOnSet(losses, DOMAIN losses) = sum[DOMAIN losses]
    BY <1>4, SumIsASum
  <2>3. sum \in [SUBSET DOMAIN losses -> Int]
    BY <1>4, <2>2, SumsAreNumbers
  <2>4. SumFunctionOnSet(losses, DOMAIN losses) \in Int
    BY <2>2, <2>3
  <2>. QED
    BY <1>2, <2>1, <2>4, QuotientsInOrder
<1>. QED
  BY <1>5, <1>6

\* What is selected of a sequence without repetitions has none.
LEMMA OnlyIsInjective ==
    ASSUME NEW T, NEW s \in Seq(T), NEW set,
           \A k, l \in DOMAIN s : s[k] = s[l] => k = l
    PROVE  \A k, l \in DOMAIN Only(s, set) : Only(s, set)[k] = Only(s, set)[l] => k = l
<1>. DEFINE parts == [i \in DOMAIN s |-> IF s[i] \in set THEN <<s[i]>> ELSE <<>>]
            NoneTwice(t) == \A k, l \in DOMAIN t : t[k] = t[l] => k = l
<1>1. parts \in Seq(Seq(T)) /\ DOMAIN s = 1 .. Len(s) /\ Len(s) \in Nat /\ Len(parts) = Len(s)
  <2>1. DOMAIN s = 1 .. Len(s) /\ Len(s) \in Nat
    OBVIOUS
  <2>2. ASSUME NEW i \in DOMAIN s PROVE parts[i] \in Seq(T)
    <3>1. parts[i] = <<s[i]>> \/ parts[i] = <<>>
      OBVIOUS
    <3>2. <<s[i]>> \in Seq(T) /\ <<>> \in Seq(T)
      <4>1. s[i] \in T
        OBVIOUS
      <4>. QED
        BY <4>1
    <3>. HIDE DEF parts
    <3>. QED
      BY <3>1, <3>2
  <2>3. DOMAIN parts = DOMAIN s
    OBVIOUS
  <2>. HIDE DEF parts
  <2>4. parts \in [1 .. Len(s) -> Seq(T)]
    <3>1. parts = [i \in DOMAIN s |-> parts[i]]
      BY DEF parts
    <3>. QED
      BY <2>1, <2>2, <3>1
  <2>. QED
    BY <2>1, <2>4
<1>2. Only(s, set) = FlattenSeq(parts)
  BY DEF Only
<1>3. CASE Len(s) = 0
  <2>. HIDE DEF parts
  <2>1. FlattenSeq(parts) = <<>>
    BY <1>1, <1>3 DEF FlattenSeq
  <2>. QED
    BY <1>2, <2>1
<1>4. CASE Len(s) # 0
  <2>. DEFINE f == CHOOSE g : FlattensUpto(g, parts, Len(parts))
  <2>1. FlattensUpto(f, parts, Len(parts))
    <3>. HIDE DEF parts
    <3>. QED
      BY <1>1, <1>4, FlatteningExists
  <2>2. FlattenSeq(parts) = f[Len(s)]
    <3>. HIDE DEF parts
    <3>. QED
      BY <1>1, <1>4 DEF FlattenSeq, FlattensUpto
  <2>. DEFINE Faithful(n) == /\ f[n] \in Seq(T) /\ NoneTwice(f[n])
                             /\ \A e \in ToSet(f[n]) : \E m \in 1 .. n : e = s[m]
              Reached == {n \in Nat : 1 <= n /\ n <= Len(s) => Faithful(n)}
  <2>. HIDE DEF f
  <2>3. \A i \in 1 .. Len(s) : f[i] = IF i = 1 THEN parts[i] ELSE f[i - 1] \o parts[i]
    <3>. HIDE DEF parts
    <3>. QED
      BY <1>1, <2>1 DEF FlattensUpto
  <2>4. 0 \in Reached
    OBVIOUS
  <2>5. ASSUME NEW n \in Nat, n \in Reached
        PROVE  n + 1 \in Reached
    <3>. SUFFICES ASSUME n + 1 <= Len(s) PROVE Faithful(n + 1)
      OBVIOUS
    <3>. DEFINE e == s[n + 1]
                before == IF n = 0 THEN <<>> ELSE f[n]
    <3>1. e \in T /\ n + 1 \in 1 .. Len(s) /\ (parts[n + 1] = <<e>> \/ parts[n + 1] = <<>>)
      BY <1>1
    <3>2. /\ before \in Seq(T) /\ NoneTwice(before)
          /\ \A x \in ToSet(before) : \E m \in 1 .. n : x = s[m]
      <4>1. CASE n = 0
        BY <4>1 DEF ToSet
      <4>2. CASE n # 0
        BY <2>5, <4>2
      <4>. QED
        BY <4>1, <4>2
    <3>3. f[n + 1] = before \/ f[n + 1] = Append(before, e)
      <4>1. CASE n = 0
        <5>1. f[n + 1] = parts[n + 1]
          <6>1. n + 1 = 1 /\ n + 1 \in 1 .. Len(s)
            BY <3>1, <4>1
          <6>. HIDE DEF parts
          <6>. QED
            BY <2>3, <6>1
        <5>2. before = <<>> /\ Append(<<>>, e) = <<e>>
          BY <4>1
        <5>. HIDE DEF parts, e
        <5>. QED
          BY <3>1, <5>1, <5>2
      <4>2. CASE n # 0
        <5>1. f[n + 1] = f[n] \o parts[n + 1]
          <6>1. n + 1 # 1 /\ (n + 1) - 1 = n
            BY <4>2
          <6>. HIDE DEF parts
          <6>. QED
            BY <2>3, <3>1, <6>1
        <5>2. before = f[n]
          BY <4>2
        <5>. HIDE DEF parts, e, before
        <5>3. before \o <<e>> = Append(before, e) /\ before \o <<>> = before
          <6>1. before \in Seq(T)
            BY <3>2
          <6>. QED
            BY <3>1, <6>1, AppendIsConcat, ConcatEmptySeq
        <5>. QED
          BY <3>1, <5>1, <5>2, <5>3
      <4>. QED
        BY <4>1, <4>2
    <3>4. e \notin ToSet(before) /\ \E m \in 1 .. n + 1 : e = s[m]
      <4>1. \A m \in 1 .. n : s[m] # e
        <5>1. \A m \in 1 .. n : m \in DOMAIN s /\ n + 1 \in DOMAIN s /\ m # n + 1
          BY <1>1, <3>1
        <5>. QED
          BY <5>1
      <4>. QED
        BY <3>2, <4>1
    <3>. HIDE DEF e, before, parts
    <3>5. CASE f[n + 1] = before
      <4>1. 1 .. n \subseteq 1 .. n + 1
        OBVIOUS
      <4>. QED
        BY <3>2, <3>5, <4>1
    <3>6. CASE f[n + 1] = Append(before, e)
      <4>1. /\ DOMAIN before = 1 .. Len(before) /\ Len(before) \in Nat
            /\ DOMAIN f[n + 1] = 1 .. Len(before) + 1
            /\ \A i \in 1 .. Len(before) : f[n + 1][i] = before[i]
            /\ f[n + 1][Len(before) + 1] = e
        BY <3>2, <3>6, ElementsInAppend
      <4>2. \A i \in DOMAIN before : before[i] # e
        BY <3>4 DEF ToSet
      <4>3. NoneTwice(f[n + 1])
        BY <3>2, <4>1, <4>2
      <4>4. ToSet(f[n + 1]) = ToSet(before) \cup {e} /\ f[n + 1] \in Seq(T)
        BY <3>1, <3>2, <3>6, ElementsOfAppend
      <4>5. \A x \in ToSet(f[n + 1]) : \E m \in 1 .. n + 1 : x = s[m]
        <5>1. 1 .. n \subseteq 1 .. n + 1
          OBVIOUS
        <5>. QED
          BY <3>2, <3>4, <4>4, <5>1
      <4>. HIDE DEF NoneTwice
      <4>. QED
        BY <4>3, <4>4, <4>5
    <3>. HIDE DEF Faithful
    <3>. QED
      BY <3>3, <3>5, <3>6
  <2>. HIDE DEF Reached
  <2>6. Len(s) \in Reached
    BY <1>1, <2>4, <2>5, NatSetInduction
  <2>7. Faithful(Len(s))
    <3>. HIDE DEF Faithful
    <3>. QED
      BY <1>1, <1>4, <2>6 DEF Reached
  <2>. QED
    BY <1>2, <2>2, <2>7
<1>. QED
  BY <1>1, <1>3, <1>4

\* Where every seed has a value in both arms, the test is about the same differences as
\* the means: neither points away from the other.
LEMMA PairsAgreeWithMeans ==
    ASSUME NEW D, IsFiniteSet(D), D # {}, NEW base, NEW candidate,
           DOMAIN base = D, DOMAIN candidate = D,
           \A k \in D : /\ base[k].seed = candidate[k].seed
                        /\ base[k].value \in Int /\ base[k].value # Missing
                        /\ candidate[k].value \in Int /\ candidate[k].value # Missing,
           \A k, l \in D : candidate[k].seed = candidate[l].seed => k = l
    PROVE  LET change == MeanOverSeeds(candidate) - MeanOverSeeds(base)
           IN  /\ Significance(base, candidate) = "improvement" => change <= 0
               /\ Significance(base, candidate) = "regression" => change >= 0
<1>. DEFINE f == [k \in D |-> base[k].value]
            g == [k \in D |-> candidate[k].value]
            h == [k \in D |-> f[k] - g[k]]
            n == Cardinality(D)
<1>1. \A k \in D : OfSeed(candidate, base[k].seed) = {candidate[k]}
  BY DEF OfSeed
<1>2. PairedImprovements(base, candidate) = h
  <2>. DEFINE pairs == {k \in D :
                           /\ base[k].value # Missing
                           /\ \E c \in OfSeed(candidate, base[k].seed) : c.value # Missing}
              Paired(k) == base[k].value
                              - (CHOOSE c \in OfSeed(candidate, base[k].seed) : TRUE).value
  <2>1. pairs = D
    BY <1>1
  <2>2. \A k \in D : Paired(k) = h[k]
    <3>1. \A c : (CHOOSE x \in {c} : TRUE) = c
      OBVIOUS
    <3>2. \A k \in D : Paired(k) = base[k].value - candidate[k].value
      <4>. SUFFICES ASSUME NEW k \in D PROVE Paired(k) = base[k].value - candidate[k].value
        BY Zenon
      <4>1. (CHOOSE c \in OfSeed(candidate, base[k].seed) : TRUE) = candidate[k]
        BY <1>1, <3>1
      <4>. QED
        BY <4>1
    <3>. QED
      BY <3>2
  <2>3. PairedImprovements(base, candidate) = [k \in pairs |-> Paired(k)]
    BY DEF PairedImprovements
  <2>4. h = [k \in D |-> h[k]]
    OBVIOUS
  <2>. HIDE DEF pairs, Paired, h
  <2>. QED
    BY <2>1, <2>2, <2>3, <2>4
<1>3. \A k \in D : f[k] \in Int /\ g[k] \in Int /\ h[k] = f[k] - g[k]
  OBVIOUS
<1>4. DOMAIN f = D /\ DOMAIN g = D /\ DOMAIN h = D
  OBVIOUS
<1>5. \A k \in D : f[k] # Missing /\ g[k] # Missing
  OBVIOUS
<1>6. MeanOverSeeds(base) = Mean(f) /\ MeanOverSeeds(candidate) = Mean(g)
  BY DEF MeanOverSeeds
<1>. HIDE DEF f, g, h
<1>7. /\ SumFunctionOnSet(f, D) \in Int /\ SumFunctionOnSet(g, D) \in Int
      /\ SumFunctionOnSet(h, D) = SumFunctionOnSet(f, D) - SumFunctionOnSet(g, D)
  BY <1>3, SumOfDifferences
<1>8. /\ Mean(f) = SumFunctionOnSet(f, D) \div n /\ n \in Nat /\ n # 0
      /\ Mean(g) = SumFunctionOnSet(g, D) \div n
  BY <1>3, <1>4, <1>5, MeanOfKnown
<1>9. SumFunction(h) = SumFunctionOnSet(h, D)
  BY <1>4 DEF SumFunction, SumFunctionOnSet, FoldFunction
<1>. HIDE DEF n
<1>10. /\ Significance(base, candidate) = "improvement" => SumFunctionOnSet(h, D) > 0
       /\ Significance(base, candidate) = "regression" => ~(SumFunctionOnSet(h, D) > 0)
  BY <1>2, <1>9 DEF Significance
<1>. DEFINE sf == SumFunctionOnSet(f, D)
            sg == SumFunctionOnSet(g, D)
<1>11. sg <= sf => sg \div n <= sf \div n /\ sg \div n \in Int /\ sf \div n \in Int
  BY <1>7, <1>8, QuotientsInOrder
<1>12. sf <= sg => sf \div n <= sg \div n /\ sg \div n \in Int /\ sf \div n \in Int
  BY <1>7, <1>8, QuotientsInOrder
<1>. HIDE DEF sf, sg
<1>. QED
  BY <1>6, <1>7, <1>8, <1>10, <1>11, <1>12 DEF sf, sg

\* The comparison of means and the test paired by seed agree.
LEMMA ComparisonRests ==
    ASSUME EvidenceInv
    PROVE  ComparisonAgreesWithPairs
<1>. SUFFICES ASSUME NEW i \in DOMAIN summaries, NEW c \in summaries[i].comparisons,
                     \A a \in DOMAIN summaries[i].arms :
                         \A k \in DOMAIN summaries[i].arms[a] :
                             summaries[i].arms[a][k].kpis.trips.busLoss # Missing
              PROVE  /\ c.bus = "improvement" => c.result.busChange.change <= 0
                     /\ c.bus = "regression" => c.result.busChange.change >= 0
  BY DEF ComparisonAgreesWithPairs
<1>. DEFINE scenario == summaries[i].scenario
            seeds == EffectiveSeeds(scenario)
            runs == [a \in Arms(args) |-> Replications(scenario, a)]
            arms == AfterGate(runs, args.short)
            Files(a, n) == leaves[LeafOf(scenario, a, n)].files
<1>1. summaries[i] = Summary(scenario) /\ seeds # <<>>
  BY DEF EvidenceInv, SummariesStand
<1>2. ~args.generate
  <2>1. args.generate => Summary(scenario).comparisons = {}
    BY DEF Summary
  <2>. HIDE DEF scenario
  <2>. QED
    BY <1>1, <2>1
<1>3. summaries[i].arms = arms /\ summaries[i].comparisons = Comparisons(arms)
  <2>. HIDE DEF scenario
  <2>. QED
    BY <1>1, <1>2, SummaryOfRuns
<1>4. ASSUME NEW a \in Arms(args), NEW k \in DOMAIN seeds
      PROVE  /\ IsFiles(Files(a, seeds[k])) /\ runs[a][k].seed = seeds[k]
             /\ runs[a][k].kpis = RunKpis(Files(a, seeds[k]))
  BY <1>2, RunsOfPlan
<1>5. \A a \in Arms(args) : DOMAIN runs[a] = DOMAIN seeds
  BY DEF Replications, InOrderOfPlan
<1>6. /\ DOMAIN arms = Arms(args)
      /\ \A a \in Arms(args) :
            \/ arms[a] = runs[a]
            \/ arms[a] = [k \in DOMAIN seeds |-> Gated(runs[a][k], runs["baseline"], args.short)]
  <2>1. DOMAIN runs = Arms(args)
    OBVIOUS
  <2>. HIDE DEF runs
  <2>. QED
    BY <1>5, <2>1 DEF AfterGate
<1>7. IsFiniteSet(DOMAIN seeds) /\ DOMAIN seeds # {}
  <2>1. SeedsOf[scenario] \in Seq(Nat)
    BY JudgedUnderWay DEF EvidenceInv
  <2>2. seeds \in Seq(Nat \cap Complete(scenario))
    BY <2>1, OnlyIsSequence DEF EffectiveSeeds, seeds
  <2>. HIDE DEF seeds
  <2>3. DOMAIN seeds # {}
    <3>1. Len(seeds) # 0 /\ Len(seeds) \in Nat /\ DOMAIN seeds = 1 .. Len(seeds)
      BY <1>1, <2>2, EmptySeq
    <3>. QED
      BY <3>1
  <2>. QED
    BY <2>2, <2>3, DomainOfSeq
<1>8. \A k, l \in DOMAIN seeds : seeds[k] = seeds[l] => k = l
  <2>1. /\ SeedsOf[scenario] \in Seq(Nat)
        /\ \A k, l \in DOMAIN SeedsOf[scenario] :
              SeedsOf[scenario][k] = SeedsOf[scenario][l] => k = l
    BY JudgedUnderWay DEF EvidenceInv
  <2>. HIDE DEF scenario
  <2>. QED
    BY <2>1, OnlyIsInjective DEF EffectiveSeeds
<1>9. ASSUME NEW run, NEW baseline, NEW short,
             run = [seed |-> run.seed, kpis |-> run.kpis, verdict |-> run.verdict]
      PROVE  /\ Gated(run, baseline, short).kpis = run.kpis
             /\ Gated(run, baseline, short).seed = run.seed
  BY <1>9 DEF Gated
<1>10. ASSUME NEW a \in Arms(args)
       PROVE  /\ DOMAIN BusLoss(arms[a]) = DOMAIN seeds
              /\ \A k \in DOMAIN seeds :
                    /\ BusLoss(arms[a])[k].seed = seeds[k]
                    /\ BusLoss(arms[a])[k].value \in Int
                    /\ BusLoss(arms[a])[k].value # Missing
  <2>. HIDE DEF seeds, Files, arms
  <2>1. DOMAIN arms[a] = DOMAIN seeds
    BY <1>5, <1>6
  <2>2. ASSUME NEW k \in DOMAIN seeds
        PROVE  arms[a][k].seed = seeds[k] /\ arms[a][k].kpis = RunKpis(Files(a, seeds[k]))
    <3>1. /\ runs[a][k] = [seed |-> runs[a][k].seed, kpis |-> runs[a][k].kpis,
                           verdict |-> runs[a][k].verdict]
      BY DEF Replications, InOrderOfPlan, seeds
    <3>. HIDE DEF runs
    <3>2. arms[a][k] = runs[a][k] \/ arms[a][k] = Gated(runs[a][k], runs["baseline"], args.short)
      BY <1>6
    <3>3. Gated(runs[a][k], runs["baseline"], args.short).kpis = runs[a][k].kpis
      BY <1>9, <3>1
    <3>4. Gated(runs[a][k], runs["baseline"], args.short).seed = runs[a][k].seed
      BY <1>9, <3>1
    <3>. QED
      BY <1>4, <3>2, <3>3, <3>4
  <2>3. \A k \in DOMAIN seeds : /\ BusLoss(arms[a])[k].seed = seeds[k]
                                 /\ BusLoss(arms[a])[k].value = arms[a][k].kpis.trips.busLoss
    BY <2>1, <2>2 DEF BusLoss
  <2>4. \A k \in DOMAIN seeds : arms[a][k].kpis.trips.busLoss \in Int
    BY <1>4, <2>2, LossIsNumber
  <2>5. \A k \in DOMAIN seeds : arms[a][k].kpis.trips.busLoss # Missing
    BY <1>3, <1>6, <2>1
  <2>6. DOMAIN BusLoss(arms[a]) = DOMAIN seeds
    BY <2>1 DEF BusLoss
  <2>. QED
    BY <2>3, <2>4, <2>5, <2>6
<1>. HIDE DEF seeds, arms, runs
<1>. DEFINE base == BusLoss(arms["baseline"])
            candidate == BusLoss(arms["tsp_actuation"])
<1>11. /\ {"baseline", "tsp_actuation"} \subseteq Arms(args)
       /\ c.result = Comparison(arms["baseline"], arms["tsp_actuation"])
       /\ c.bus = Significance(base, candidate)
  BY <1>3, <1>6 DEF Comparisons
<1>12. c.result.busChange.change = MeanOverSeeds(candidate) - MeanOverSeeds(base)
  BY <1>11 DEF Comparison, Delta
<1>13. LET change == MeanOverSeeds(candidate) - MeanOverSeeds(base)
       IN  /\ Significance(base, candidate) = "improvement" => change <= 0
           /\ Significance(base, candidate) = "regression" => change >= 0
  <2>1. /\ DOMAIN base = DOMAIN seeds /\ DOMAIN candidate = DOMAIN seeds
        /\ \A k \in DOMAIN seeds :
              /\ base[k].seed = candidate[k].seed
              /\ base[k].value \in Int /\ base[k].value # Missing
              /\ candidate[k].value \in Int /\ candidate[k].value # Missing
        /\ \A k, l \in DOMAIN seeds : candidate[k].seed = candidate[l].seed => k = l
    BY <1>8, <1>10, <1>11
  <2>. HIDE DEF base, candidate
  <2>. QED
    BY <1>7, <2>1, PairsAgreeWithMeans
<1>. QED
  BY <1>11, <1>12, <1>13

-----------------------------------------------------------------------------
(* Nothing a summary rests on changes after it was written.                 *)

LEMMA SummaryOfReplications ==
    ASSUME NEW scenario, args' = args, EffectiveSeeds(scenario)' = EffectiveSeeds(scenario),
           \A arm \in Arms(args) :
              Replications(scenario, arm)' = Replications(scenario, arm)
    PROVE  Summary(scenario)' = Summary(scenario)
<1>. DEFINE runs == [arm \in Arms(args) |-> Replications(scenario, arm)]
<1>1. runs' = runs
  BY DEF Arms
<1>2. AfterGate(runs, args.short)' = AfterGate(runs, args.short)
  <2>. HIDE DEF runs
  <2>. QED
    BY <1>1
<1>. QED
  BY <1>2 DEF Summary

LEMMA SummaryOfLeaves ==
    ASSUME NEW scenario, SeedsOf[scenario] \in Seq(Nat), args' = args,
           Complete(scenario)' = Complete(scenario),
           \A arm \in Arms(args), seed \in Complete(scenario) :
              leaves'[LeafOf(scenario, arm, seed)] = leaves[LeafOf(scenario, arm, seed)]
    PROVE  /\ Summary(scenario)' = Summary(scenario)
           /\ EffectiveSeeds(scenario)' = EffectiveSeeds(scenario)
<1>. DEFINE seeds == EffectiveSeeds(scenario)
<1>1. seeds' = seeds
  BY DEF EffectiveSeeds
<1>2. \A j \in DOMAIN seeds : seeds[j] \in Complete(scenario)
  <2>1. seeds \in Seq(Nat \cap Complete(scenario))
    BY OnlyIsSequence DEF EffectiveSeeds
  <2>. HIDE DEF seeds
  <2>. QED
    BY <2>1, DomainOfSeq
<1>3. ASSUME NEW arm \in Arms(args)
      PROVE  Replications(scenario, arm)' = Replications(scenario, arm)
  <2>. DEFINE Run(leaf, seed) ==
                  LET kpis == RunKpis(leaf.read)
                  IN  [seed |-> seed, kpis |-> kpis, verdict |-> RunVerdict(kpis, args.short)]
  <2>1. Replications(scenario, arm)
            = [j \in DOMAIN seeds |-> Run(leaves[LeafOf(scenario, arm, seeds[j])], seeds[j])]
    BY DEF Replications, InOrderOfPlan
  <2>2. Replications(scenario, arm)'
            = [j \in DOMAIN seeds' |->
                  Run(leaves'[LeafOf(scenario, arm, seeds'[j])], seeds'[j])]
    BY DEF Replications, InOrderOfPlan, LeafOf
  <2>. HIDE DEF seeds, Run
  <2>. QED
    BY <1>1, <1>2, <2>1, <2>2
<1>. HIDE DEF seeds
<1>4. Summary(scenario)' = Summary(scenario)
  BY <1>1, <1>3, SummaryOfReplications DEF seeds
<1>. QED
  BY <1>1, <1>4 DEF seeds

\* Of the same leaves the same summary is made.
LEMMA SummaryOfSameLeaves ==
    ASSUME NEW scenario, args' = args, leaves' = leaves
    PROVE  /\ Summary(scenario)' = Summary(scenario)
           /\ EffectiveSeeds(scenario)' = EffectiveSeeds(scenario)
<1>1. Complete(scenario)' = Complete(scenario)
  BY DEF Complete, EveryArmHasIt, Arms
<1>2. EffectiveSeeds(scenario)' = EffectiveSeeds(scenario)
  BY <1>1 DEF EffectiveSeeds
<1>3. ASSUME NEW arm \in Arms(args)
      PROVE  Replications(scenario, arm)' = Replications(scenario, arm)
  BY <1>2 DEF Replications, InOrderOfPlan
<1>. QED
  BY <1>2, <1>3, SummaryOfReplications

LEMMA SummaryStays ==
    ASSUME PoolInv, phase # "idle", args' = args, summaries' = summaries,
           NEW i \in DOMAIN summaries, NEW scenario, scenario = summaries[i].scenario,
           \A l \in DOMAIN leaves : Ended(l) => leaves'[l] = leaves[l]
    PROVE  /\ Summary(scenario)' = Summary(scenario)
           /\ EffectiveSeeds(scenario)' = EffectiveSeeds(scenario)
<1>1. SeedsOf[scenario] \in Seq(Nat)
  BY JudgedUnderWay
<1>2. Complete(scenario)' = Complete(scenario)
  <2>1. summaries'[i].scenario = scenario
    OBVIOUS
  <2>. QED
    BY <2>1, JudgedSeedsStay
<1>3. Complete(scenario) \subseteq ToSet(SeedsOf[scenario])
  BY DEF Complete
<1>4. ASSUME NEW arm \in Arms(args), NEW seed \in Complete(scenario)
      PROVE  leaves'[LeafOf(scenario, arm, seed)] = leaves[LeafOf(scenario, arm, seed)]
  BY <1>3, JudgedLeavesStay
<1>. QED
  BY <1>1, <1>2, <1>4, SummaryOfLeaves

\* What is read is what was written, as long as a leaf that ends does so in a
\* directory without the files of others.
LEMMA ReadingGoesOn ==
    ASSUME PoolInv, ReadsItsOwn, NEW leaf \in DOMAIN leaves,
           Launch(leaf) \/ Finish(leaf) \/ Retry(leaf) \/ GiveUp(leaf)
    PROVE  ReadsItsOwn'
<1>0. args' = args
  BY DEF Launch, Finish, Retry, GiveUp
<1>. SUFFICES ASSUME ~args.generate PROVE ReadsItsOwn'
  BY <1>0 DEF ReadsItsOwn
<1>1. /\ DOMAIN leaves' = DOMAIN leaves /\ args' = args
      /\ \A l \in DOMAIN leaves \ {leaf} : leaves'[l] = leaves[l]
  <2>1. DOMAIN leaves' = DOMAIN leaves
    BY LeavesGoOn
  <2>. QED
    BY <2>1 DEF Launch, Finish, Retry, GiveUp
<1>2. leaves[leaf] \in [state : {"queued", "live"}, attempt : 0 .. MaxAttempts - 1]
  BY DEF PoolInv, AttemptsLeft, Launch, Finish, Retry, GiveUp, Live, Ended
<1>3. CASE Launch(leaf)
  <2>1. ~globals' /\ leaves'[leaf] = [leaves[leaf] EXCEPT !.state = "live"]
    BY <1>3 DEF Launch
  <2>2. leaves'[leaf].state = "live"
    BY <1>2, <2>1
  <2>. QED
    BY <1>1, <2>1, <2>2 DEF ReadsItsOwn, Live
<1>4. CASE Finish(leaf)
  <2>1. leaf \in Live /\ ~globals /\ globals' = globals
    BY <1>4 DEF Finish, ReadsItsOwn
  <2>2. PICK files : /\ files \in FilesOf[leaf.scenario, leaf.arm] /\ ~Unreadable(files)
                     /\ leaves'[leaf] = [state |-> "done", attempt |-> leaves[leaf].attempt,
                                         files |-> files, read |-> files]
    BY <1>4, <2>1 DEF Finish
  <2>3. leaves'[leaf].read = files /\ leaves'[leaf].files = files
    <3>1. leaves'[leaf] = [state |-> "done", attempt |-> leaves[leaf].attempt,
                           files |-> files, read |-> files]
      BY <2>2
    <3>. QED
      BY <3>1
  <2>4. ASSUME NEW l \in DOMAIN leaves \ {leaf}, leaves'[l].state = "done"
        PROVE  /\ leaves'[l].read = leaves'[l].files
               /\ leaves'[l].files \in FilesOf[l.scenario, l.arm]
               /\ ~Unreadable(leaves'[l].files)
    BY <1>1, <2>4 DEF ReadsItsOwn
  <2>. QED
    BY <1>1, <2>1, <2>2, <2>3, <2>4 DEF ReadsItsOwn
<1>5. CASE Retry(leaf)
  <2>1. ~globals' /\ leaves'[leaf] = [leaves[leaf] EXCEPT !.attempt = leaves[leaf].attempt + 1]
    BY <1>5 DEF Retry
  <2>2. leaves'[leaf].state # "done"
    BY <1>2, <2>1
  <2>. QED
    BY <1>1, <2>1, <2>2 DEF ReadsItsOwn
<1>6. CASE GiveUp(leaf)
  <2>1. ~globals' /\ leaves'[leaf] = [leaves[leaf] EXCEPT !.state = "failed"]
    BY <1>6 DEF GiveUp, ReadsItsOwn
  <2>2. leaves'[leaf].state = "failed"
    BY <1>2, <2>1
  <2>. QED
    BY <1>1, <2>1, <2>2 DEF ReadsItsOwn
<1>. QED
  BY <1>3, <1>4, <1>5, <1>6

LEMMA JudgeStands ==
    ASSUME EvidenceInv, Judge
    PROVE  SummariesStand'
<1>. SUFFICES ASSUME NEW i \in DOMAIN summaries', NEW scenario,
                     scenario = summaries'[i].scenario
              PROVE  /\ summaries'[i] = Summary(scenario)'
                     /\ EffectiveSeeds(scenario)' # <<>>
  BY DEF SummariesStand
<1>1. /\ leaves' = leaves /\ args' = args /\ phase = "running"
      /\ \/ summaries' = summaries
         \/ /\ EffectiveSeeds(args.asked[judged + 1]) # <<>>
            /\ summaries' = Append(summaries, Summary(args.asked[judged + 1]))
  BY DEF Judge
<1>2. \A s : Summary(s)' = Summary(s) /\ EffectiveSeeds(s)' = EffectiveSeeds(s)
  BY <1>1, SummaryOfSameLeaves
<1>3. CASE i \in DOMAIN summaries /\ summaries'[i] = summaries[i]
  BY <1>2, <1>3 DEF EvidenceInv, SummariesStand
<1>4. CASE /\ EffectiveSeeds(args.asked[judged + 1]) # <<>>
           /\ summaries'[i] = Summary(args.asked[judged + 1])
  <2>1. scenario = args.asked[judged + 1]
    BY <1>4, SummaryOf
  <2>. QED
    BY <1>2, <1>4, <2>1
<1>5. CASE summaries' = summaries
  BY <1>3, <1>5
<1>6. CASE /\ EffectiveSeeds(args.asked[judged + 1]) # <<>>
           /\ summaries' = Append(summaries, Summary(args.asked[judged + 1]))
  <2>1. summaries \in Seq(ToSet(summaries))
    BY DEF EvidenceInv, PoolInv, AskedInv, SummariesAsked
  <2>2. \/ i \in DOMAIN summaries /\ summaries'[i] = summaries[i]
        \/ summaries'[i] = Summary(args.asked[judged + 1])
    <3>. DEFINE summary == Summary(args.asked[judged + 1])
    <3>. HIDE DEF summary
    <3>1. /\ DOMAIN summaries = 1 .. Len(summaries) /\ Len(summaries) \in Nat
          /\ DOMAIN summaries' = 1 .. Len(summaries) + 1
          /\ \A k \in 1 .. Len(summaries) : summaries'[k] = summaries[k]
          /\ summaries'[Len(summaries) + 1] = summary
      BY <1>6, <2>1, ElementsInAppend DEF summary
    <3>. QED
      BY <3>1 DEF summary
  <2>. QED
    BY <1>3, <1>4, <1>6, <2>2
<1>. QED
  BY <1>1, <1>5, <1>6

LEMMA NothingStands ==
    ASSUME leaves' = <<>>, summaries' = <<>>
    PROVE  ReadsItsOwn' /\ SummariesStand'
<1>1. DOMAIN leaves' = {} /\ DOMAIN summaries' = {}
  OBVIOUS
<1>. QED
  BY <1>1 DEF ReadsItsOwn, SummariesStand, Live

LEMMA EvidenceStep == EvidenceInv /\ [Next]_vars => EvidenceInv'
<1>. SUFFICES ASSUME EvidenceInv, [Next]_vars
              PROVE  ReadsItsOwn' /\ SummariesStand'
  BY PoolStep DEF EvidenceInv
<1>1. \A l \in DOMAIN leaves : leaves' = leaves => leaves'[l] = leaves[l]
  OBVIOUS
<1>2. ASSUME phase # "idle", args' = args, summaries' = summaries,
             \A l \in DOMAIN leaves : Ended(l) => leaves'[l] = leaves[l]
      PROVE  SummariesStand'
  <2>1. ASSUME NEW i \in DOMAIN summaries, NEW scenario, scenario = summaries[i].scenario
        PROVE  /\ summaries[i] = Summary(scenario)' /\ EffectiveSeeds(scenario)' # <<>>
    <3>1. summaries[i] = Summary(scenario) /\ EffectiveSeeds(scenario) # <<>>
      BY <2>1 DEF EvidenceInv, SummariesStand
    <3>2. /\ Summary(scenario)' = Summary(scenario)
          /\ EffectiveSeeds(scenario)' = EffectiveSeeds(scenario)
      BY <1>2, <2>1, SummaryStays DEF EvidenceInv
    <3>. QED
      BY <3>1, <3>2
  <2>. QED
    BY <1>2, <2>1 DEF SummariesStand
<1>3. CASE UNCHANGED vars
  <2>1. ReadsItsOwn'
    BY <1>3 DEF vars, EvidenceInv, ReadsItsOwn, Live
  <2>2. SummariesStand'
    <3>1. \A s : Summary(s)' = Summary(s) /\ EffectiveSeeds(s)' = EffectiveSeeds(s)
      BY <1>3, SummaryOfSameLeaves DEF vars
    <3>. QED
      BY <1>3, <3>1 DEF vars, EvidenceInv, SummariesStand
  <2>. QED
    BY <2>1, <2>2
<1>4. ASSUME NEW a \in Invocations, Start(a)
      PROVE  ReadsItsOwn' /\ SummariesStand'
  <2>1. /\ leaves' = [leaf \in ToSet(Tasks(a)) |-> [state |-> "queued", attempt |-> 0]]
        /\ summaries' = <<>>
    BY <1>4 DEF Start, EvidenceInv, PoolInv, AskedInv, NothingUnderWay
  <2>2. \A l \in DOMAIN leaves' : leaves'[l].state = "queued"
    BY <2>1
  <2>3. DOMAIN summaries' = {}
    BY <2>1
  <2>. QED
    BY <2>2, <2>3 DEF ReadsItsOwn, SummariesStand, Live
<1>5. ASSUME NEW leaf \in DOMAIN leaves,
             Launch(leaf) \/ Finish(leaf) \/ Retry(leaf) \/ GiveUp(leaf)
      PROVE  ReadsItsOwn' /\ SummariesStand'
  <2>1. args' = args /\ summaries' = summaries /\ phase = "running"
    BY <1>5 DEF Launch, Finish, Retry, GiveUp
  <2>2. \A l \in DOMAIN leaves : Ended(l) => leaves'[l] = leaves[l]
    BY <1>5, LeavesGoOn DEF EvidenceInv
  <2>3. ReadsItsOwn'
    BY <1>5, ReadingGoesOn DEF EvidenceInv
  <2>. QED
    BY <1>2, <2>1, <2>2, <2>3
<1>6. CASE Judge
  <2>1. ReadsItsOwn'
    BY <1>6 DEF Judge, EvidenceInv, ReadsItsOwn, Live
  <2>. QED
    BY <1>6, <2>1, JudgeStands
<1>7. CASE OpenSuite
  <2>1. /\ args' = args /\ summaries' = summaries /\ leaves' = leaves /\ globals' = globals
        /\ phase = "running"
    BY <1>7 DEF OpenSuite
  <2>2. ReadsItsOwn'
    BY <2>1 DEF EvidenceInv, ReadsItsOwn, Live
  <2>. QED
    BY <1>2, <2>1, <2>2
<1>8. CASE MakeRun
  <2>1. leaves' = <<>> /\ summaries' = <<>>
    BY <1>8 DEF MakeRun, EvidenceInv, PoolInv, AskedInv, NothingUnderWay, PlanUnderWay
  <2>. QED
    BY <2>1, NothingStands
<1>9. CASE Idle /\ phase' = "idle"
  BY <1>9, NothingStands DEF Idle
<1>10. Close \/ WriteSuite \/ Killed \/ (\E leaf \in DOMAIN leaves : Fails(leaf))
           => Idle /\ phase' = "idle"
  BY DEF Close, WriteSuite, Killed, Fails
<1>. QED
  BY <1>3, <1>4, <1>5, <1>6, <1>7, <1>8, <1>9, <1>10 DEF Next, Step

\* A pass is given only to runs whose own files are all there, show vehicles and
\* buses and keep every threshold, and the test paired by seed never points away
\* from the means that decide: whatever files any simulation leaves, whichever
\* leaves fail, are retried or are lost, and whatever `make run' left behind
\* (run_verdict, apply_relative_insertion_gate, compare_kpis,
\* _paired_significance, finalize_scenario).
THEOREM VerdictsAreEarned == Spec => []VerdictsEarned
<1>1. Init => EvidenceInv
  <2>. SUFFICES ASSUME Init PROVE EvidenceInv
    OBVIOUS
  <2>1. PoolInv
    BY InitPool
  <2>2. DOMAIN leaves = {} /\ DOMAIN summaries = {}
    BY DEF Init
  <2>. QED
    BY <2>1, <2>2 DEF EvidenceInv, ReadsItsOwn, SummariesStand, Live
<1>2. EvidenceInv => VerdictsEarned
  BY PassRests, ComparisonRests DEF VerdictsEarned
<1>. QED
  BY <1>1, <1>2, EvidenceStep, PTL DEF Spec
=============================================================================
