------------------------- MODULE PolicyLearningProofs -------------------------
(***************************************************************************)
(* What the engine, the learned policy and the Safety Layer owe to each    *)
(* other, for any signal, any policy and any vehicles: what is learned was *)
(* safe where it was learned; nothing that was learned keeps an emergency  *)
(* vehicle from the truncation the signal would allow; a truncation that   *)
(* is proposed is one the checks let through; and a vehicle for which a    *)
(* green is held passes in it.                                             *)
(***************************************************************************)
EXTENDS PolicyLearning, DataInduction, SequenceTheorems

Actions == {"no_action", "green_extension", "early_green", "reevaluate_next_cycle", "reject"}

Phases == 0 .. PhaseCount - 1

Readings == NetworkReadings \cup {NoReading}

\* A view of the signal as the program gives it, as far as it could be read.
IsView(view) ==
    /\ view.phase \in Phases
    /\ view.spent \in Nat \cup {Unread} /\ view.left \in Int \cup {Unread}

\* The numbers of a request.
IsRequest(req) ==
    /\ req.delay \in Int /\ req.headway \in Int
    /\ req.eta \in Nat /\ req.distance \in Nat /\ req.queueDelay \in Int

\* The numbers of a decision.
HasNumbers(d) ==
    /\ d.extension \in Int
    /\ d.action = "early_green" => d.to \in Int

-----------------------------------------------------------------------------
(* Numbers.                                                                 *)

LEMMA ClampTypes ==
    ASSUME NEW m \in Int, NEW n \in Int
    PROVE  /\ Lesser(m, n) \in Int /\ Greater(m, n) \in Int
           /\ AtLeastZero(m) \in Nat /\ Magnitude(m) \in Int
BY DEF Lesser, Greater, AtLeastZero, Magnitude

\* A set of numbers has a first one.
LEMMA FirstNumber ==
    ASSUME NEW S \in SUBSET Nat, S # {}
    PROVE  Min(S) \in S
<1>. DEFINE U == {n \in Nat : \A k \in S : k <= n => \E j \in S : \A i \in S : j <= i}
<1>1. 0 \in U
  OBVIOUS
<1>2. ASSUME NEW n \in Nat, n \in U PROVE n + 1 \in U
  <2>. SUFFICES ASSUME NEW k \in S, k <= n + 1 PROVE \E j \in S : \A i \in S : j <= i
    OBVIOUS
  <2>1. CASE \E l \in S : l <= n
    BY <1>2, <2>1
  <2>2. CASE \A l \in S : ~(l <= n)
    <3>1. \A l \in S : k <= l
      BY <2>2
    <3>. QED
      BY <3>1
  <2>. QED
    BY <2>1, <2>2
<1>3. Nat \subseteq U
  <2>. HIDE DEF U
  <2>. QED
    BY <1>1, <1>2, NatSetInduction
<1>4. PICK k \in S : k \in U /\ k \in Nat
  BY <1>3
<1>5. \E j \in S : \A i \in S : j <= i
  BY <1>4
<1>. QED
  BY <1>5 DEF Min

\* Of finitely many, one is best, and so there is a first among the best.
LEMMA FirstOfTheBest ==
    ASSUME NEW S \in SUBSET Nat, IsFiniteSet(S), S # {}, NEW f, \A i \in S : f[i] \in Int
    PROVE  Min({i \in S : \A j \in S : f[j] <= f[i]}) \in {i \in S : \A j \in S : f[j] <= f[i]}
<1>1. PICK i \in S : \A j \in S : f[j] <= f[i]
  BY HighestExists
<1>2. {k \in S : \A j \in S : f[j] <= f[k]} \in SUBSET Nat
  OBVIOUS
<1>3. {k \in S : \A j \in S : f[j] <= f[k]} # {}
  BY <1>1
<1>. QED
  BY <1>2, <1>3, FirstNumber

-----------------------------------------------------------------------------
(* The engine.                                                              *)

LEMMA GroupIsOfContract ==
    ASSUME NEW req, HasGroup(req)
    PROVE  Group(Contract, req) \in Contract.groups
<1>1. GroupsOf(Contract, req) # {}
  BY DEF HasGroup
<1>2. Group(Contract, req) \in GroupsOf(Contract, req)
  BY <1>1 DEF Group
<1>. QED
  BY <1>2 DEF GroupsOf, GroupsById, GroupsByMovement

\* A queue never makes a vehicle early.
LEMMA QueueOnlyDelays ==
    ASSUME NEW req, IsRequest(req), NEW reading \in Readings
    PROVE  QueueCorrection(req, reading) \in Nat /\ EffectiveEta(req, reading) \in Nat
<1>1. QueueCorrection(req, reading) \in Nat
  <2>1. CASE reading = NoReading \/ req.lane \notin DOMAIN reading.halted
    BY <2>1 DEF QueueCorrection
  <2>2. CASE ~(reading = NoReading \/ req.lane \notin DOMAIN reading.halted)
    <3>1. reading.halted[req.lane] \in Nat
      BY <2>2, ApproachAssumption DEF Readings
    <3>2. req.distance \div Policy.jamSpacing \in Int
      BY EngineAssumption DEF IsRequest
    <3>3. QueueAhead(req, reading) \in Int
      BY <3>1, <3>2 DEF QueueAhead, Lesser
    <3>4. Policy.dischargeHeadway \in Int /\ Greater(0, req.queueDelay) \in Int
      BY EngineAssumption DEF IsRequest, Greater
    <3>5. QueueAhead(req, reading) * Policy.dischargeHeadway - Greater(0, req.queueDelay) \in Int
      BY <3>3, <3>4
    <3>. QED
      BY <2>2, <3>5, ClampTypes DEF QueueCorrection
  <2>. QED
    BY <2>1, <2>2
<1>. QED
  BY <1>1 DEF EffectiveEta, IsRequest

LEMMA DecisionType ==
    ASSUME NEW req, IsRequest(req), NEW view, IsView(view), NEW reading \in Readings
    PROVE  Decide(req, view, reading).action \in Actions /\ HasNumbers(Decide(req, view, reading))
<1>1. ASSUME NEW a \in {"reject", "no_action", "reevaluate_next_cycle"}
      PROVE  NoIntervention(a).action \in Actions /\ HasNumbers(NoIntervention(a))
  BY <1>1 DEF NoIntervention, Decision, HasNumbers, Actions
<1>2. /\ DecideInGreen(req, view, reading).action \in Actions
      /\ HasNumbers(DecideInGreen(req, view, reading))
  <2>1. CASE view.left = Unread \/ view.spent = Unread
                \/ view.left >= RequiredGreen(req, reading)
    BY <1>1, <2>1 DEF DecideInGreen
  <2>2. CASE ~(view.left = Unread \/ view.spent = Unread
                \/ view.left >= RequiredGreen(req, reading))
    <3>. DEFINE most == LongestInstalment(req, view, reading)
                need == RequiredGreen(req, reading) - view.left
                seconds == Greater(Policy.extensionMin, Lesser(most, need))
    <3>1. most \in Int
      BY EngineAssumption DEF LongestInstalment, Greater
    <3>2. need \in Int
      BY <2>2, QueueOnlyDelays, EngineAssumption DEF RequiredGreen, IsView
    <3>3. DecideInGreen(req, view, reading) = Decision("green_extension", seconds, Unread, Nowhere)
      BY <2>2 DEF DecideInGreen
    <3>. HIDE DEF most, need
    <3>4. seconds \in Int
      BY <3>1, <3>2, EngineAssumption DEF Lesser, Greater
    <3>. QED
      BY <3>3, <3>4 DEF Decision, HasNumbers, Actions
  <2>. QED
    BY <2>1, <2>2
<1>3. /\ DecideInRed(req, view, reading).action \in Actions
      /\ HasNumbers(DecideInRed(req, view, reading))
  <2>1. TruncateTo(view) \in Int
    BY EngineAssumption DEF TruncateTo, Greater, IsView
  <2>2. ASSUME NEW target
        PROVE  /\ Decision("early_green", 0, TruncateTo(view), target).action \in Actions
               /\ HasNumbers(Decision("early_green", 0, TruncateTo(view), target))
    BY <2>1 DEF Decision, HasNumbers, Actions
  <2>. QED
    BY <1>1, <2>2 DEF DecideInRed
<1>. QED
  BY <1>1, <1>2, <1>3 DEF Decide

\* A rule's action has the numbers it needs, whatever was proposed.
LEMMA PlannedNumbers ==
    ASSUME NEW action, NEW req, NEW baseline, HasNumbers(baseline)
    PROVE  /\ PlanAction(action, req, baseline).action = action
           /\ HasNumbers(PlanAction(action, req, baseline))
BY EngineAssumption DEF PlanAction, Decision, NoIntervention, HasNumbers

-----------------------------------------------------------------------------
(* The Safety Layer.                                                        *)

Served == {g.phase : g \in Contract.groups}

\* Nothing is approved in a phase that serves no group.
LEMMA ApprovedWhereServed ==
    ASSUME NEW req, NEW view, NEW d, NEW granted, Approves(req, view, d, granted)
    PROVE  view.phase \in Served
<1>1. CASE d.action = "green_extension"
  <2>1. ApprovedExtension(req, view, d, granted) > 0
    BY <1>1 DEF Approves
  <2>2. HasGroup(req) /\ view.phase = Group(Contract, req).phase
    BY <2>1 DEF ApprovedExtension
  <2>. QED
    BY <2>2, GroupIsOfContract DEF Served
<1>2. CASE d.action # "green_extension"
  BY <1>2 DEF Approves, TruncationApproved, TruncationSafe, CurrentPhaseConflicts, Served
<1>. QED
  BY <1>1, <1>2

LEMMA ApprovedExtensionType ==
    ASSUME NEW req, NEW view, IsView(view), NEW d, HasNumbers(d), NEW granted \in Int
    PROVE  ApprovedExtension(req, view, d, granted) \in Nat
<1>1. CASE ~HasGroup(req) \/ view.left = Unread \/ view.spent = Unread
  BY <1>1 DEF ApprovedExtension
<1>2. CASE HasGroup(req) /\ view.left # Unread /\ view.spent # Unread
  <2>1. Group(Contract, req).maxGreen \in Int /\ Group(Contract, req).maxExtension \in Int
    BY <1>2, GroupIsOfContract, EngineAssumption
  <2>2. Room(req, view) \in Int
    BY <1>2, <2>1, LimitsAssumption DEF Room, Lesser, IsView
  <2>3. ExtensionLimit(req, granted) \in Int
    BY <2>1, LimitsAssumption, EngineAssumption DEF ExtensionLimit, Lesser
  <2>4. Lesser(Lesser(d.extension, ExtensionLimit(req, granted)), Room(req, view)) \in Int
    BY <2>2, <2>3 DEF Lesser, HasNumbers
  <2>. QED
    BY <2>4, ClampTypes DEF ApprovedExtension
<1>. QED
  BY <1>1, <1>2
-----------------------------------------------------------------------------
(* Where vehicle and signal may be.                                         *)

Views ==
    [phase : Phases, spent : Nat \cup {Unread}, left : Int \cup {Unread},
     state : {Program[p] : p \in Phases}, links : {Links}, lanes : {Lanes}]

SituationInv ==
    /\ bus \in Buses /\ (mode = "logging" => bus \in LoggedBuses)
    /\ eta \in Nat /\ net \in Readings
    /\ phase \in Phases /\ spent \in Nat /\ left \in Int
    /\ event \in Int \cup {NoEvent}

\* What a row of the log says of a vehicle and its signal.
IsRow(row) ==
    /\ DOMAIN row = {"req", "view", "traffic", "since", "live"}
    /\ IsRequest(row.req) /\ row.view \in Views /\ row.view.state = Program[row.view.phase]
    /\ \E b \in LoggedBuses : /\ row.req.lane = b.lane
                              /\ row.req.group = b.group /\ row.req.movement = b.movement

LEMMA ViewOfTheSignal ==
    ASSUME SituationInv
    PROVE  View \in Views /\ IsView(View)
BY DEF SituationInv, View, Views, IsView

LEMMA RequestOfTheVehicle ==
    ASSUME SituationInv
    PROVE  IsRequest(Request)
<1>1. eta * Speed \in Nat
  BY ApproachAssumption DEF SituationInv
<1>. QED
  BY <1>1, ApproachAssumption DEF SituationInv, Request, IsRequest

LEMMA ProposalNumbers ==
    ASSUME SituationInv
    PROVE  HasNumbers(Baseline) /\ HasNumbers(Proposal)
<1>1. HasNumbers(Baseline)
  BY ViewOfTheSignal, RequestOfTheVehicle, DecisionType DEF Baseline, SituationInv
<1>2. \A action : HasNumbers(PlanAction(action, Request, Baseline))
  BY <1>1, PlannedNumbers
<1>. QED
  BY <1>1, <1>2 DEF Proposal, ApplyRule

LEMMA InitSituation == LearnInit => SituationInv
BY ApproachAssumption, LearningAssumption DEF LearnInit, Init, SituationInv, Readings, Phases

LEMMA InterveneSituation ==
    ASSUME SituationInv, Intervene
    PROVE  left' \in Int /\ event' \in Int \cup {NoEvent} /\ phase \in Served
<1>. DEFINE d == Proposal
            granted == Granted(d)
<1>1. granted \in Int
  BY DEF Granted, Continues, SituationInv
<1>2. Approves(Request, View, d, granted)
  BY DEF Intervene, Accepted
<1>3. phase \in Served
  BY <1>2, ApprovedWhereServed DEF View
<1>4. HasNumbers(d) /\ IsView(View) /\ left \in Int
  BY ProposalNumbers, ViewOfTheSignal DEF SituationInv
<1>5. SentDuration(Request, View, d, granted) \in Int
  <2>1. CASE d.action = "green_extension"
    <3>1. ApprovedExtension(Request, View, d, granted) > 0
      BY <1>2, <2>1 DEF Approves
    <3>2. View.left # Unread
      BY <3>1 DEF ApprovedExtension
    <3>3. View.left \in Int
      BY <1>4, <3>2 DEF IsView
    <3>4. ApprovedExtension(Request, View, d, granted) \in Nat
      BY <1>1, <1>4, ApprovedExtensionType
    <3>. QED
      BY <2>1, <3>3, <3>4 DEF SentDuration
  <2>2. CASE d.action # "green_extension"
    BY <1>2, <1>4, <2>2 DEF Approves, Actuating, SentDuration, HasNumbers
  <2>. QED
    BY <2>1, <2>2
<1>6. left' = SentDuration(Request, View, d, granted)
  BY DEF Intervene
<1>7. event' = IF d.action = "green_extension" /\ EventLifecycleEnabled
               THEN granted + SentDuration(Request, View, d, granted) - left ELSE event
  BY DEF Intervene
<1>. HIDE DEF d, granted
<1>. QED
  BY <1>1, <1>3, <1>4, <1>5, <1>6, <1>7 DEF SituationInv

LEMMA NextVehicleSituation ==
    ASSUME NEW policy, NextVehicle(policy)
    PROVE  SituationInv'
BY ApproachAssumption DEF NextVehicle, SituationInv, Readings, Phases

LEMMA SituationStep ==
    ASSUME SituationInv, [LearnNext]_allVars
    PROVE  SituationInv'
<1>1. CASE Serve(Intervene, TRUE)
  <2>1. Intervene /\ mode' = mode
    BY <1>1 DEF Serve
  <2>. QED
    BY <2>1, InterveneSituation DEF SituationInv, Intervene
<1>2. CASE Serve(LeaveAlone, FALSE)
  BY <1>2 DEF Serve, LeaveAlone, SituationInv
<1>3. CASE Pass
  <2>1. CASE Cross
    BY <1>3, <2>1 DEF Pass, Cross, SituationInv
  <2>2. CASE Drive
    <3>1. eta' \in Nat /\ net' \in Readings /\ bus' = bus /\ mode' = mode
      BY <1>3, <2>2, ClampTypes DEF Pass, Drive, SituationInv, Readings
    <3>2. CASE left > 1
      BY <2>2, <3>1, <3>2 DEF Drive, SituationInv
    <3>3. CASE ~(left > 1)
      <4>1. (phase + 1) % PhaseCount \in Phases
        BY ApproachAssumption DEF SituationInv, Phases
      <4>2. /\ phase' = (phase + 1) % PhaseCount /\ spent' = 0
            /\ left' = PlanDuration[phase'] /\ event' = NoEvent
        BY <2>2, <3>3 DEF Drive
      <4>3. left' \in Int
        BY <4>1, <4>2, ApproachAssumption DEF Phases
      <4>. QED
        BY <3>1, <4>1, <4>2, <4>3 DEF SituationInv
    <3>. QED
      BY <3>2, <3>3
  <2>. QED
    BY <1>3, <2>1, <2>2 DEF Pass
<1>4. CASE LoadLog \/ NextEpisode \/ \E i \in 1 .. LogCap, a \in Range(CandidateActions) : Sample(i, a)
  BY <1>4 DEF LoadLog, NextEpisode, Sample, vars, SituationInv
<1>5. CASE Optimize \/ ExportRules
  BY <1>5, NextVehicleSituation DEF Optimize, ExportRules
<1>6. CASE UNCHANGED allVars
  BY <1>6 DEF allVars, vars, learning, SituationInv
<1>. QED
  BY <1>1, <1>2, <1>3, <1>4, <1>5, <1>6 DEF LearnNext
-----------------------------------------------------------------------------
(* What training makes of a row.                                            *)

\* One of the actions that are tried leaves the signal alone; then the Safety
\* Layer never blocks them all, and the baseline with them
\* (_select_candidate falls back to a blocked one).
SomethingIsHarmless == \E i \in DOMAIN CandidateActions : CandidateActions[i] \notin Actuating

LEMMA LoggedViewType ==
    ASSUME NEW row, IsRow(row)
    PROVE  /\ IsView(LoggedView(row))
           /\ LoggedView(row).phase = row.view.phase
           /\ LoggedView(row).state = row.view.state
           /\ LoggedView(row).lanes = row.view.lanes
           /\ LoggedView(row).links = <<>>
BY DEF IsRow, Views, LoggedView, IsView

LEMMA RewardNumbers ==
    /\ Reward.perDelay \in Int /\ Reward.perHeadway \in Int /\ Reward.perEta \in Int
    /\ Reward.etaBaseline \in Int /\ Reward.traffic \in Int /\ Reward.pressureFactor \in Int
    /\ Reward.reevaluate \in Int /\ Reward.reject \in Int /\ Reward.unsafe \in Int
    /\ Reward.truncation \in Int /\ Reward.sufficientGreen \in Int /\ Reward.insufficientGreen \in Int
    /\ Reward.tooClose \in Int /\ Reward.lowScore \in Int /\ Reward.rejectPerDelay \in Int
BY LearningAssumption

LEMMA BenefitType ==
    ASSUME NEW req, IsRequest(req)
    PROVE  Benefit(req) \in Int
<1>1. /\ AtLeastZero(req.delay) \in Int /\ Magnitude(req.headway) \in Int
      /\ AtLeastZero(Reward.etaBaseline - req.eta) \in Int
  BY RewardNumbers DEF IsRequest, AtLeastZero, Magnitude
<1>2. /\ Reward.perDelay * AtLeastZero(req.delay) \in Int
      /\ Reward.perHeadway * Magnitude(req.headway) \in Int
      /\ Reward.perEta * AtLeastZero(Reward.etaBaseline - req.eta) \in Int
  BY <1>1, RewardNumbers
<1>. QED
  BY <1>2 DEF Benefit

LEMMA RewardOfExtensionType ==
    ASSUME NEW row, IsRow(row), NEW seconds \in Int
    PROVE  RewardOfExtension(row, seconds) \in Int
<1>1. PerSecond(row) \in Int
  BY RewardNumbers DEF PerSecond
<1>2. Remaining(row) \in Int /\ GreenNeeded(row) \in Int
  BY EngineAssumption DEF IsRow, Views, IsRequest, Remaining, GreenNeeded
<1>. DEFINE missing == GreenNeeded(row) - Remaining(row)
<1>3. missing \in Int /\ -seconds * PerSecond(row) \in Int /\ seconds * PerSecond(row) \in Int
  BY <1>1, <1>2
<1>4. Benefit(row.req) * Lesser(seconds, missing) \in Int
  <2>1. Lesser(seconds, missing) \in Int
    BY <1>3 DEF Lesser
  <2>. QED
    BY <2>1, BenefitType DEF IsRow
<1>. HIDE DEF missing
<1>5. CASE missing <= 0
  BY <1>3, <1>5 DEF RewardOfExtension, missing
<1>6. CASE ~(missing <= 0)
  <2>1. (Benefit(row.req) * Lesser(seconds, missing)) \div missing \in Int
    BY <1>3, <1>4, <1>6
  <2>2. RewardOfExtension(row, seconds) =
            (Benefit(row.req) * Lesser(seconds, missing)) \div missing - seconds * PerSecond(row)
    BY <1>6 DEF RewardOfExtension, missing
  <2>. QED
    BY <1>3, <2>1, <2>2
<1>. QED
  BY <1>5, <1>6

LEMMA RewardType ==
    ASSUME NEW row, IsRow(row), NEW d, d.action \in Actions, HasNumbers(d)
    PROVE  RewardOf(row, d) \in Int
<1>1. IsRequest(row.req) /\ Benefit(row.req) \in Int
  BY BenefitType DEF IsRow
<1>2. -Reward.unsafe \in Int /\ -2 * Reward.reject \in Int /\ -2 * Reward.reevaluate \in Int
  BY RewardNumbers
<1>3. RewardOfExtension(row, ApprovedExtension(row.req, LoggedView(row), d, 0)) \in Int
  BY LoggedViewType, ApprovedExtensionType, RewardOfExtensionType
<1>4. d.action = "early_green" => RewardOfTruncation(row, d.to) \in Int
  <2>. SUFFICES ASSUME d.action = "early_green" PROVE RewardOfTruncation(row, d.to) \in Int
    OBVIOUS
  <2>1. PerSecond(row) \in Int /\ Remaining(row) - d.to \in Int
    BY RewardNumbers DEF PerSecond, Remaining, IsRow, Views, HasNumbers
  <2>2. AtLeastZero(Remaining(row) - d.to) \in Int
    BY <2>1 DEF AtLeastZero
  <2>3. AtLeastZero(Remaining(row) - d.to) * PerSecond(row) \in Int
    BY <2>1, <2>2
  <2>. QED
    BY <1>1, <1>2, <2>3, RewardNumbers DEF RewardOfTruncation
<1>5. RewardOfNoAction(row) \in Int
  <2>1. Benefit(row.req) * Reward.insufficientGreen \in Int
    BY <1>1, RewardNumbers
  <2>. QED
    BY <1>1, <2>1, RewardNumbers DEF RewardOfNoAction
<1>6. RewardOfWaiting(row) \in Int
  BY RewardNumbers DEF RewardOfWaiting
<1>7. RewardOfRejecting(row) \in Int
  <2>1. AtLeastZero(row.req.delay) \in Int
    BY <1>1 DEF IsRequest, AtLeastZero
  <2>2. Reward.rejectPerDelay * AtLeastZero(row.req.delay) \in Int
    BY <2>1, RewardNumbers
  <2>. QED
    BY <2>2, RewardNumbers DEF RewardOfRejecting
<1>. QED
  BY <1>2, <1>3, <1>4, <1>5, <1>6, <1>7 DEF RewardOf, Actions

LEMMA ProposalsOf ==
    ASSUME NEW row
    PROVE  LET baseline == Decide(row.req, LoggedView(row), NoReading) IN
           /\ DOMAIN Proposals(row) = 1 .. Len(CandidateActions) + 1
           /\ Proposals(row)[1] = baseline
           /\ \A i \in 1 .. Len(CandidateActions) :
                  Proposals(row)[i + 1] = PlanAction(CandidateActions[i], row.req, baseline)
<1>. DEFINE baseline == Decide(row.req, LoggedView(row), NoReading)
            n == Len(CandidateActions)
            planned == [i \in DOMAIN CandidateActions |->
                           PlanAction(CandidateActions[i], row.req, baseline)]
            U == {baseline} \cup {planned[i] : i \in 1 .. n}
<1>1. n \in Nat /\ DOMAIN CandidateActions = 1 .. n
  BY LearningAssumption
<1>2. planned \in Seq(U) /\ Len(planned) = n
  BY <1>1
<1>3. <<baseline>> \in Seq(U) /\ Len(<<baseline>>) = 1 /\ <<baseline>>[1] = baseline
  OBVIOUS
<1>4. \A i \in 1 .. n : planned[i] = PlanAction(CandidateActions[i], row.req, baseline)
  BY <1>1
<1>5. Proposals(row) = <<baseline>> \o planned
  BY DEF Proposals
<1>. HIDE DEF baseline, n, planned, U
<1>6. /\ Len(<<baseline>> \o planned) = 1 + n
      /\ \A i \in 1 .. 1 + n :
            (<<baseline>> \o planned)[i] = IF i <= 1 THEN baseline ELSE planned[i - 1]
      /\ DOMAIN (<<baseline>> \o planned) = 1 .. 1 + n
  BY <1>1, <1>2, <1>3, ConcatProperties
<1>7. \A i \in 1 .. n : i + 1 \in 1 .. 1 + n /\ ~(i + 1 <= 1) /\ (i + 1) - 1 = i
  BY <1>1
<1>8. 1 \in 1 .. 1 + n /\ 1 + n = n + 1
  BY <1>1
<1>. QED
  BY <1>4, <1>5, <1>6, <1>7, <1>8 DEF baseline, n
-----------------------------------------------------------------------------
(* Cases.                                                                   *)

\* The candidates of a scenario are numbered, and one of them is harmless.
IsCase(c) ==
    /\ \E n \in Nat : DOMAIN c.candidates = 1 .. n
    /\ \A k \in DOMAIN c.candidates : c.candidates[k].reward \in Int
    /\ \E k \in DOMAIN c.candidates : ~c.candidates[k].blocked

\* What the Safety Layer answers has its numbers too, and what it leaves an
\* intervention is the proposal.
LEMMA SafeDecisionType ==
    ASSUME NEW row, NEW d, d.action \in Actions, HasNumbers(d)
    PROVE  /\ SafeDecision(row, d).action \in Actions
           /\ HasNumbers(SafeDecision(row, d))
BY DEF SafeDecision, NoIntervention, Decision, Actions, HasNumbers

LEMMA InterventionsAreProposals ==
    ASSUME NEW row, NEW d, SafeDecision(row, d).action \in Actuating
    PROVE  SafeDecision(row, d) = d
BY DEF SafeDecision, NoIntervention, Decision, Actuating

LEMMA CaseOfRow ==
    ASSUME SomethingIsHarmless, NEW row, IsRow(row)
    PROVE  IsCase(Case(row))
<1>. DEFINE baseline == Decide(row.req, LoggedView(row), NoReading)
            n == Len(CandidateActions)
            all == Candidates(row)
<1>1. /\ n \in Nat /\ DOMAIN CandidateActions = 1 .. n
      /\ \A i \in 1 .. n : CandidateActions[i] \in Actions
  BY LearningAssumption DEF Actions
<1>2. baseline.action \in Actions /\ HasNumbers(baseline)
  BY LoggedViewType, DecisionType DEF IsRow, Readings
<1>3. /\ DOMAIN Proposals(row) = 1 .. n + 1
      /\ Proposals(row)[1] = baseline
      /\ \A i \in 1 .. n : Proposals(row)[i + 1] = PlanAction(CandidateActions[i], row.req, baseline)
  BY ProposalsOf
<1>4. \A i \in 1 .. n : /\ Proposals(row)[i + 1].action = CandidateActions[i]
                        /\ HasNumbers(Proposals(row)[i + 1])
  <2>. HIDE DEF baseline
  <2>. QED
    BY <1>2, <1>3, PlannedNumbers
<1>5. ASSUME NEW k \in 1 .. n + 1
      PROVE  Proposals(row)[k].action \in Actions /\ HasNumbers(Proposals(row)[k])
  <2>1. CASE k = 1
    BY <1>2, <1>3, <2>1
  <2>2. CASE k # 1
    <3>1. k - 1 \in 1 .. n /\ (k - 1) + 1 = k
      BY <1>1, <2>2
    <3>. QED
      BY <1>1, <1>4, <3>1
  <2>. QED
    BY <2>1, <2>2
<1>6. /\ DOMAIN all = 1 .. n + 1
      /\ \A k \in 1 .. n + 1 :
            /\ all[k].blocked = Blocked(row, SafeDecision(row, Proposals(row)[k]))
            /\ all[k].reward = RewardOf(row, SafeDecision(row, Proposals(row)[k]))
  BY <1>3 DEF Candidates, Candidate
<1>7. ASSUME NEW k \in 1 .. n + 1 PROVE all[k].reward \in Int
  <2>1. /\ SafeDecision(row, Proposals(row)[k]).action \in Actions
        /\ HasNumbers(SafeDecision(row, Proposals(row)[k]))
    BY <1>5, SafeDecisionType
  <2>. QED
    BY <1>6, <2>1, RewardType
<1>8. \E k \in 1 .. n + 1 : ~all[k].blocked
  <2>1. PICK i \in 1 .. n : CandidateActions[i] \notin Actuating
    BY <1>1 DEF SomethingIsHarmless
  <2>2. i + 1 \in 1 .. n + 1
    BY <1>1
  <2>3. ~Blocked(row, SafeDecision(row, Proposals(row)[i + 1]))
    <3>1. SafeDecision(row, Proposals(row)[i + 1]).action \notin Actuating
      BY <1>4, <2>1 DEF SafeDecision, NoIntervention, Decision, Actuating
    <3>. QED
      BY <3>1 DEF Blocked
  <2>. QED
    BY <1>6, <2>2, <2>3
<1>9. Case(row).candidates = all /\ n + 1 \in Nat
  BY <1>1 DEF Case
<1>. HIDE DEF all, n
<1>. QED
  BY <1>6, <1>7, <1>8, <1>9 DEF IsCase

\* What is selected is a candidate that the Safety Layer lets through.
LEMMA SelectedIsSafe ==
    ASSUME NEW c, IsCase(c)
    PROVE  \E k \in DOMAIN c.candidates :
               /\ Selected(c.candidates) = c.candidates[k]
               /\ ~c.candidates[k].blocked /\ c.candidates[k].reward \in Int
<1>. DEFINE all == c.candidates
            allowed == {i \in DOMAIN all : ~all[i].blocked}
            reward == [i \in DOMAIN all |-> all[i].reward]
            best == {i \in allowed : \A j \in allowed : all[j].reward <= all[i].reward}
<1>1. PICK n \in Nat : DOMAIN all = 1 .. n
  BY DEF IsCase
<1>2. allowed \in SUBSET Nat /\ IsFiniteSet(allowed) /\ allowed # {}
  <2>1. IsFiniteSet(1 .. n) /\ allowed \subseteq 1 .. n
    BY <1>1, FS_Interval
  <2>. QED
    BY <2>1, FS_Subset DEF IsCase
<1>3. \A i \in allowed : reward[i] \in Int /\ reward[i] = all[i].reward
  BY DEF IsCase
<1>4. Min({i \in allowed : \A j \in allowed : reward[j] <= reward[i]})
          \in {i \in allowed : \A j \in allowed : reward[j] <= reward[i]}
  <2>. HIDE DEF allowed, reward
  <2>. QED
    BY <1>2, <1>3, FirstOfTheBest
<1>5. {i \in allowed : \A j \in allowed : reward[j] <= reward[i]} = best
  BY <1>3
<1>6. Min(best) \in allowed
  BY <1>4, <1>5
<1>7. Selected(all) = all[Min(best)]
  BY <1>2 DEF Selected
<1>. QED
  BY <1>3, <1>6, <1>7

\* The Safety Layer let this action through in a scenario of this bucket.
LetThrough(b, action) ==
    \E i \in DOMAIN cases :
        /\ cases[i].bucket = b
        /\ \E k \in DOMAIN cases[i].candidates :
              /\ cases[i].candidates[k].action = action
              /\ ~cases[i].candidates[k].blocked

Cases == (\E n \in Nat : DOMAIN cases = 1 .. n) /\ \A i \in DOMAIN cases : IsCase(cases[i])

LEMMA OptimizerIsSafe ==
    ASSUME Cases, NEW b \in DOMAIN OptimizerRules
    PROVE  LetThrough(b, OptimizerRules[b])
<1>. DEFINE chosen == [i \in DOMAIN cases |-> Selected(cases[i].candidates)]
            reward == [i \in DOMAIN cases |-> chosen[i].reward]
            same == {i \in DOMAIN cases : cases[i].bucket = b}
            best == {i \in same : \A j \in same : chosen[j].reward <= chosen[i].reward}
<1>1. PICK n \in Nat : DOMAIN cases = 1 .. n
  BY DEF Cases
<1>2. b \in {c.bucket : c \in Range(cases)} /\ OptimizerRules[b] = chosen[Min(best)].action
  BY DEF OptimizerRules
<1>3. same \in SUBSET Nat /\ IsFiniteSet(same) /\ same # {}
  <2>1. IsFiniteSet(1 .. n) /\ same \subseteq 1 .. n
    BY <1>1, FS_Interval
  <2>2. same # {}
    BY <1>2 DEF Range
  <2>. QED
    BY <2>1, <2>2, FS_Subset
<1>4. ASSUME NEW i \in DOMAIN cases
      PROVE  \E k \in DOMAIN cases[i].candidates :
                 /\ chosen[i] = cases[i].candidates[k]
                 /\ ~cases[i].candidates[k].blocked /\ chosen[i].reward \in Int
  BY SelectedIsSafe DEF Cases
<1>5. \A i \in same : reward[i] = chosen[i].reward /\ reward[i] \in Int
  BY <1>4
<1>6. Min({i \in same : \A j \in same : reward[j] <= reward[i]})
          \in {i \in same : \A j \in same : reward[j] <= reward[i]}
  <2>. HIDE DEF same, reward
  <2>. QED
    BY <1>3, <1>5, FirstOfTheBest
<1>7. {i \in same : \A j \in same : reward[j] <= reward[i]} = best
  BY <1>5
<1>8. PICK i \in DOMAIN cases : i = Min(best) /\ cases[i].bucket = b
  BY <1>6, <1>7
<1>9. PICK k \in DOMAIN cases[i].candidates :
          chosen[i] = cases[i].candidates[k] /\ ~cases[i].candidates[k].blocked
  BY <1>4
<1>10. OptimizerRules[b] = cases[i].candidates[k].action
  BY <1>2, <1>8, <1>9
<1>. QED
  BY <1>8, <1>9, <1>10 DEF LetThrough

\* A finite set of numbers has a last one.
LEMMA LastNumber ==
    ASSUME NEW S \in SUBSET Nat, IsFiniteSet(S), S # {}
    PROVE  Max(S) \in S
<1>. DEFINE id == [k \in S |-> k]
<1>1. \A k \in S : id[k] = k /\ id[k] \in Int
  OBVIOUS
<1>. HIDE DEF id
<1>2. PICK m \in S : \A k \in S : id[k] <= id[m]
  BY <1>1, HighestExists
<1>3. \A k \in S : m >= k
  BY <1>1, <1>2
<1>. QED
  BY <1>3 DEF Max

LEMMA SampledIsSafe ==
    ASSUME Cases, NEW i \in DOMAIN cases, NEW a \in SafeActions(i)
    PROVE  LetThrough(cases[i].bucket, a)
<1>. DEFINE all == cases[i].candidates
            same == {k \in DOMAIN all : all[k].action = a}
<1>1. /\ a \in Range(CandidateActions) /\ ~all[Max(same)].blocked
      /\ \E k \in DOMAIN all : all[k].action = a
  BY DEF SafeActions, Available, CandidateFor, Range
<1>2. PICK n \in Nat : DOMAIN all = 1 .. n
  BY DEF Cases, IsCase
<1>3. same # {} /\ same \in SUBSET Nat /\ IsFiniteSet(same)
  <2>1. IsFiniteSet(1 .. n) /\ same \subseteq 1 .. n
    BY <1>2, FS_Interval
  <2>2. same # {}
    BY <1>1
  <2>. QED
    BY <2>1, <2>2, FS_Subset
<1>4. Max(same) \in same
  <2>. HIDE DEF same
  <2>. QED
    BY <1>3, LastNumber
<1>. QED
  BY <1>1, <1>4 DEF LetThrough

-----------------------------------------------------------------------------
(* Learning.                                                                *)

\* What is learned from is what was logged, and what was learned is safe.
TrainingInv ==
    /\ log \in Seq(Range(log)) /\ \A i \in DOMAIN log : IsRow(log[i])
    /\ mode \in {"training", "sampling"} => cases = [i \in DOMAIN log |-> Case(log[i])]
    /\ mode \in {"logging", "training"} => DOMAIN table = {}
    /\ mode = "sampling" =>
          /\ pending \subseteq DOMAIN cases
          /\ \A key \in DOMAIN table : LetThrough(key[1], key[2])

LEMMA TrainedOnCases ==
    ASSUME SomethingIsHarmless, TrainingInv, mode \in {"training", "sampling"}
    PROVE  Cases
<1>1. cases = [i \in DOMAIN log |-> Case(log[i])]
  BY DEF TrainingInv
<1>2. DOMAIN log = 1 .. Len(log) /\ Len(log) \in Nat
  BY DEF TrainingInv
<1>3. \A i \in DOMAIN log : IsCase(Case(log[i]))
  BY CaseOfRow DEF TrainingInv
<1>. QED
  BY <1>1, <1>2, <1>3 DEF Cases

LEMMA ExportedRulesAreSafe ==
    ASSUME SomethingIsHarmless, TrainingInv, Optimize \/ ExportRules
    PROVE  \A b \in DOMAIN rules' : LetThrough(b, rules'[b])
<1>1. CASE Optimize
  <2>1. rules' = OptimizerRules /\ Cases
    BY <1>1, TrainedOnCases DEF Optimize, NextVehicle
  <2>. QED
    BY <2>1, OptimizerIsSafe
<1>2. CASE ExportRules
  <2>1. PICK policy \in [LearnedBuckets -> Range(CandidateActions)] :
            (\A b \in LearnedBuckets : policy[b] \in BestActions(b)) /\ NextVehicle(policy)
    BY <1>2 DEF ExportRules
  <2>2. rules' = policy /\ DOMAIN policy = LearnedBuckets
    BY <2>1 DEF NextVehicle
  <2>3. ASSUME NEW b \in LearnedBuckets PROVE LetThrough(b, policy[b])
    <3>1. policy[b] \in VisitedActions(b)
      BY <2>1 DEF BestActions
    <3>2. PICK key \in DOMAIN table : key[1] = b /\ key[2] = policy[b]
      BY <3>1 DEF VisitedActions
    <3>. QED
      BY <1>2, <3>2 DEF TrainingInv, ExportRules
  <2>. QED
    BY <2>2, <2>3
<1>. QED
  BY <1>1, <1>2

LEMMA AppendRow ==
    ASSUME NEW s, s \in Seq(Range(s)), NEW e
    PROVE  /\ Append(s, e) \in Seq(Range(Append(s, e)))
           /\ DOMAIN Append(s, e) = 1 .. Len(s) + 1
           /\ \A i \in 1 .. Len(s) : i \in DOMAIN s /\ Append(s, e)[i] = s[i]
           /\ Append(s, e)[Len(s) + 1] = e
<1>. DEFINE longer == Append(s, e)
<1>1. s \in Seq(Range(s) \cup {e})
  OBVIOUS
<1>2. /\ longer \in Seq(Range(s) \cup {e})
      /\ Len(longer) = Len(s) + 1
      /\ \A i \in 1 .. Len(s) : longer[i] = s[i]
      /\ longer[Len(s) + 1] = e
  BY <1>1, AppendProperties
<1>3. DOMAIN longer = 1 .. Len(s) + 1 /\ DOMAIN s = 1 .. Len(s) /\ Len(s) \in Nat
  BY <1>1, <1>2
<1>4. longer \in [1 .. Len(s) + 1 -> Range(longer)]
  <2>. HIDE DEF longer
  <2>. QED
    BY <1>2, <1>3 DEF Range
<1>5. longer \in Seq(Range(longer))
  <2>. HIDE DEF longer
  <2>. QED
    BY <1>3, <1>4
<1>. QED
  BY <1>2, <1>3, <1>5

LEMMA InitTraining == LearnInit => TrainingInv
BY DEF LearnInit, TrainingInv

LEMMA ServeTraining ==
    ASSUME SituationInv, TrainingInv, NEW applied,
           Serve(Intervene, applied) \/ Serve(LeaveAlone, applied)
    PROVE  TrainingInv'
<1>1. /\ log' = IF Logs THEN Append(log, Scenario) ELSE log
      /\ UNCHANGED <<mode, cases, table, pending>>
  BY DEF Serve
<1>2. CASE Logs
  <2>1. mode = "logging" /\ bus \in LoggedBuses
    BY <1>2 DEF Logs, SituationInv
  <2>2. IsRow(Scenario)
    <3>1. /\ Scenario.req = Request /\ Scenario.view = View
          /\ Request.lane = bus.lane
          /\ Request.group = bus.group /\ Request.movement = bus.movement
          /\ View.state = Program[View.phase]
          /\ DOMAIN Scenario = {"req", "view", "traffic", "since", "live"}
      BY DEF Scenario, Request, View
    <3>. QED
      BY <2>1, <3>1, RequestOfTheVehicle, ViewOfTheSignal DEF IsRow
  <2>3. log' = Append(log, Scenario)
    BY <1>1, <1>2
  <2>4. log' \in Seq(Range(log')) /\ \A i \in DOMAIN log' : IsRow(log'[i])
    <3>1. log \in Seq(Range(log)) /\ Len(log) \in Nat
      BY DEF TrainingInv
    <3>2. /\ Append(log, Scenario) \in Seq(Range(Append(log, Scenario)))
          /\ DOMAIN Append(log, Scenario) = 1 .. Len(log) + 1
          /\ \A i \in 1 .. Len(log) : i \in DOMAIN log /\ Append(log, Scenario)[i] = log[i]
          /\ Append(log, Scenario)[Len(log) + 1] = Scenario
      BY <3>1, AppendRow
    <3>3. \A i \in 1 .. Len(log) + 1 : i \in 1 .. Len(log) \/ i = Len(log) + 1
      BY <3>1
    <3>. QED
      BY <2>2, <2>3, <3>2, <3>3 DEF TrainingInv
  <2>. QED
    BY <1>1, <2>1, <2>4 DEF TrainingInv
<1>3. CASE ~Logs
  BY <1>1, <1>3 DEF TrainingInv, LetThrough
<1>. QED
  BY <1>2, <1>3

LEMMA SampleTraining ==
    ASSUME SomethingIsHarmless, TrainingInv, NEW i, NEW a, Sample(i, a)
    PROVE  TrainingInv'
<1>1. mode = "sampling" /\ i \in DOMAIN cases /\ Cases /\ UNCHANGED <<mode, log, cases>>
  BY TrainedOnCases DEF Sample, TrainingInv
<1>2. pending' \subseteq DOMAIN cases
  BY <1>1 DEF Sample, TrainingInv
<1>3. \A key \in DOMAIN table' : LetThrough(key[1], key[2])
  <2>1. CASE table' = table
    BY <1>1, <2>1 DEF TrainingInv
  <2>2. CASE table' # table
    <3>1. a \in SafeActions(i) /\ DOMAIN table' = DOMAIN table \cup {<<cases[i].bucket, a>>}
      BY <2>2 DEF Sample, WithValue
    <3>2. LetThrough(cases[i].bucket, a)
      BY <1>1, <3>1, SampledIsSafe
    <3>. QED
      BY <1>1, <3>1, <3>2 DEF TrainingInv
  <2>. QED
    BY <2>1, <2>2
<1>. QED
  BY <1>1, <1>2, <1>3 DEF TrainingInv, LetThrough

LEMMA TrainingStep ==
    ASSUME SomethingIsHarmless, SituationInv, TrainingInv, [LearnNext]_allVars
    PROVE  TrainingInv'
<1>1. CASE Serve(Intervene, TRUE) \/ Serve(LeaveAlone, FALSE)
  BY <1>1, ServeTraining
<1>2. CASE Pass
  BY <1>2 DEF Pass, TrainingInv, LetThrough
<1>3. CASE LoadLog
  BY <1>3 DEF LoadLog, TrainingInv
<1>4. CASE NextEpisode
  BY <1>4 DEF NextEpisode, TrainingInv, LetThrough
<1>5. CASE \E i \in 1 .. LogCap, a \in Range(CandidateActions) : Sample(i, a)
  BY <1>5, SampleTraining
<1>6. ASSUME NEW policy, NextVehicle(policy) PROVE TrainingInv'
  BY <1>6 DEF NextVehicle, TrainingInv
<1>7. CASE Optimize \/ ExportRules
  BY <1>6, <1>7 DEF Optimize, ExportRules
<1>8. CASE UNCHANGED allVars
  BY <1>8 DEF allVars, learning, TrainingInv, LetThrough
<1>. QED
  BY <1>1, <1>2, <1>3, <1>4, <1>5, <1>7, <1>8 DEF LearnNext

\* Whatever was logged, in whatever order it was trained on and whatever was
\* explored: a rule is an action that the Safety Layer let through in a
\* scenario of its bucket (optimizer.py, rl_trainer.py).
THEOREM RulesAreSafe ==
    ASSUME SomethingIsHarmless
    PROVE  LearnSpec => RulesComeFromSafeActions
<1>1. LearnInit => SituationInv /\ TrainingInv
  BY InitSituation, InitTraining
<1>2. SituationInv /\ TrainingInv /\ [LearnNext]_allVars => SituationInv' /\ TrainingInv'
  BY SituationStep, TrainingStep
<1>3. SituationInv /\ TrainingInv /\ [LearnNext]_allVars =>
          [mode # "learned" /\ mode' = "learned" =>
              \A b \in DOMAIN rules' : \E c \in Range(cases) :
                  /\ c.bucket = b
                  /\ \E k \in DOMAIN c.candidates :
                        /\ c.candidates[k].action = rules'[b]
                        /\ ~c.candidates[k].blocked]_allVars
  <2>. SUFFICES ASSUME TrainingInv, LearnNext, mode # "learned", mode' = "learned",
                       NEW b \in DOMAIN rules'
                PROVE  \E c \in Range(cases) :
                           /\ c.bucket = b
                           /\ \E k \in DOMAIN c.candidates :
                                 /\ c.candidates[k].action = rules'[b]
                                 /\ ~c.candidates[k].blocked
    OBVIOUS
  <2>1. Optimize \/ ExportRules
    BY DEF LearnNext, Serve, Pass, LoadLog, NextEpisode, Sample
  <2>2. LetThrough(b, rules'[b])
    BY <2>1, ExportedRulesAreSafe
  <2>. QED
    BY <2>2 DEF LetThrough, Range
<1>. QED
  BY <1>1, <1>2, <1>3, PTL DEF LearnSpec, RulesComeFromSafeActions

-----------------------------------------------------------------------------
(* Emergency vehicles.                                                      *)

\* No arrival of an emergency vehicle is too close, and a rule may not keep an
\* intervention from a vehicle: the defaults of the code
\* (emergency_early_green_min_eta_s, allow_policy_suppress_baseline_actuation).
DefaultPolicy ==
    Policy.emergencyMinEta \in Int /\ Policy.emergencyMinEta <= 0 /\ ~AllowSuppress

\* What the profile of a network writes into a contract, where every movement
\* has a protected green (allow_edge_state_fallback is never set).
ProtectedGreens == \A g \in Contract.groups : g.protected /\ ~g.edgeFallback

ExtendsGreens(policy) ==
    \A b \in DOMAIN policy : policy[b] = "green_extension" => b.phase = "priority_movement_green"

\* The policies that are given were learned in this way too.
GivenRulesExtendGreens == \A policy \in RuleSets : ExtendsGreens(policy)

\* What was logged as an approved extension was logged in a green.
LEMMA ExtensionsAreOfGreens ==
    ASSUME ProtectedGreens, NEW row, NEW d, d.action = "green_extension", ~Blocked(row, d)
    PROVE  OfflineBucket(row).phase = "priority_movement_green"
<1>. DEFINE view == LoggedView(row)
            req == row.req
<1>1. ApprovedExtension(req, view, d, 0) > 0
  BY DEF Blocked, Approves, Actuating
<1>2. HasGroup(req) /\ (Group(Contract, req).protected => HasProtectedGreen(view, req))
  BY <1>1 DEF ApprovedExtension
<1>3. Group(Contract, req).protected /\ ~Group(Contract, req).edgeFallback
  BY <1>2, GroupIsOfContract DEF ProtectedGreens
<1>. DEFINE position == MovementPosition(view, req, FALSE)
<1>4. position > 0 /\ view.state[position] = "G"
  <2>1. MovementPosition(view, req, Group(Contract, req).edgeFallback) = position
    BY <1>3 DEF MovementPosition
  <2>. QED
    BY <1>2, <1>3, <2>1 DEF HasProtectedGreen
<1>5. PhaseBucket(req, view) = "priority_movement_green"
  <2>1. CharBucket(view.state[position]) = "priority_movement_green"
    BY <1>4 DEF CharBucket
  <2>. HIDE DEF position, view, req
  <2>2. PhaseBucket(req, view) = CharBucket(view.state[position])
    BY <1>4, <2>1 DEF PhaseBucket, position
  <2>. QED
    BY <2>1, <2>2
<1>. QED
  BY <1>5 DEF OfflineBucket, Bucket

\* In such a bucket a movement that is not green has no phase to cut for.
LEMMA GreensNeedNoTruncation ==
    ASSUME NEW req, NEW view, ~MovementIsGreen(req, view),
           PhaseBucket(req, view) = "priority_movement_green"
    PROVE  ~SequenceClear(Contract, view.phase, TargetPhase(req))
<1>. DEFINE position == MovementPosition(view, req, FALSE)
            bucket == IF position > 0 THEN CharBucket(view.state[position]) ELSE "phase_unknown"
<1>1. CASE bucket = "priority_movement_green"
  <2>1. position > 0 /\ view.state[position] = "G"
    BY <1>1 DEF CharBucket
  <2>2. \A fallback \in BOOLEAN : MovementPosition(view, req, fallback) = position
    <3>1. LinkPositions(view, req) # {} \/ LanePositions(view, req) # {}
      BY <2>1 DEF MovementPosition
    <3>. QED
      BY <3>1 DEF MovementPosition
  <2>3. MovementIsGreen(req, view)
    BY <2>1, <2>2 DEF MovementIsGreen, IsGreenFor
  <2>. QED
    BY <2>3
<1>2. CASE bucket # "priority_movement_green"
  <2>1. /\ PhaseMapping[req.movement] # Nowhere
        /\ view.phase = PhaseMapping[req.movement]
    BY <1>2 DEF PhaseBucket
  <2>. QED
    BY <2>1 DEF SequenceClear, TargetPhase
<1>. QED
  BY <1>1, <1>2

LEMMA LearnedExtendGreens ==
    ASSUME SomethingIsHarmless, ProtectedGreens, TrainingInv, Optimize \/ ExportRules
    PROVE  ExtendsGreens(rules')
<1>. SUFFICES ASSUME NEW b \in DOMAIN rules', rules'[b] = "green_extension"
              PROVE  b.phase = "priority_movement_green"
  BY DEF ExtendsGreens
<1>1. LetThrough(b, "green_extension")
  BY ExportedRulesAreSafe
<1>2. cases = [i \in DOMAIN log |-> Case(log[i])]
  BY DEF Optimize, ExportRules, TrainingInv
<1>3. PICK i \in DOMAIN log :
          /\ OfflineBucket(log[i]) = b
          /\ \E k \in DOMAIN Candidates(log[i]) :
                /\ Candidates(log[i])[k].action = "green_extension"
                /\ ~Candidates(log[i])[k].blocked
  BY <1>1, <1>2 DEF LetThrough, Case
<1>4. PICK k \in DOMAIN Proposals(log[i]) :
          /\ Proposals(log[i])[k].action = "green_extension"
          /\ ~Blocked(log[i], Proposals(log[i])[k])
  BY <1>3, InterventionsAreProposals DEF Candidates, Candidate, Actuating
<1>. QED
  BY <1>3, <1>4, ExtensionsAreOfGreens

RulesInv == ExtendsGreens(rules)

LEMMA RulesStep ==
    ASSUME SomethingIsHarmless, ProtectedGreens, TrainingInv, RulesInv, [LearnNext]_allVars
    PROVE  RulesInv'
<1>1. CASE Optimize \/ ExportRules
  BY <1>1, LearnedExtendGreens DEF RulesInv, ExtendsGreens
<1>2. CASE ~(Optimize \/ ExportRules)
  <2>1. rules' = rules
    BY <1>2 DEF LearnNext, Serve, Intervene, LeaveAlone, Pass, Drive, Cross, LoadLog,
                NextEpisode, Sample, allVars, vars
  <2>. QED
    BY <2>1 DEF RulesInv, ExtendsGreens
<1>. QED
  BY <1>1, <1>2

LEMMA OnlySafetyHolds ==
    ASSUME DefaultPolicy, SituationInv, RulesInv
    PROVE  EmergencyHeldOnlyBySafety
<1>. DEFINE cut == Decision("early_green", 0, TruncateTo(View), TargetPhase(Request))
            bucket == Bucket(Request, View, Traffic, sinceIntervention)
<1>. SUFFICES ASSUME IsEmergency(Request), ~ShowsGreen, Approves(Request, View, cut, 0)
              PROVE  Proposal.action = "early_green"
  BY DEF EmergencyHeldOnlyBySafety
<1>1. /\ View.spent # Unread
      /\ View.spent >= MinGreenOf(Contract, Limits.minGreen, View.phase)
      /\ SequenceClear(Contract, View.phase, TargetPhase(Request))
  BY DEF Approves, TruncationApproved, TruncationSafe, Decision
<1>2. Baseline.action = "early_green"
  <2>1. ContractAllows(View, TargetPhase(Request))
    BY <1>1, LimitsAssumption DEF ContractAllows
  <2>2. EffectiveEta(Request, net) >= EarliestEta(Request)
    <3>1. EffectiveEta(Request, net) \in Nat
      BY RequestOfTheVehicle, QueueOnlyDelays DEF SituationInv
    <3>. QED
      BY <3>1 DEF EarliestEta, DefaultPolicy
  <2>3. DecideInRed(Request, View, net).action = "early_green"
    BY <2>1, <2>2 DEF DecideInRed, NetworkDefers, WorthCutting, Decision
  <2>4. ~Request.cancelled /\ ~Expired(Request)
    BY DEF Request, Expired
  <2>5. NeedMet(Request, net) /\ ScoreSuffices(Request, net)
    BY DEF NeedMet, ScoreSuffices
  <2>. QED
    BY <2>3, <2>4, <2>5 DEF Baseline, Decide, ShowsGreen
<1>3. PhaseBucket(Request, View) # "priority_movement_green"
  BY <1>1, GreensNeedNoTruncation DEF ShowsGreen
<1>4. bucket \in DOMAIN rules => rules[bucket] # "green_extension"
  BY <1>3 DEF RulesInv, ExtendsGreens, Bucket
<1>. HIDE DEF bucket
<1>5. CASE bucket \in DOMAIN rules /\ rules[bucket] = "early_green"
  <2>1. PlanAction(rules[bucket], Request, Baseline).action = "early_green"
    BY <1>5 DEF PlanAction, Decision
  <2>. QED
    BY <1>2, <2>1 DEF Proposal, ApplyRule, bucket
<1>6. CASE ~(bucket \in DOMAIN rules /\ rules[bucket] = "early_green")
  <2>1. bucket \in DOMAIN rules => rules[bucket] \notin Actuating
    BY <1>4, <1>6 DEF Actuating
  <2>. QED
    BY <1>2, <2>1 DEF Proposal, ApplyRule, bucket, DefaultPolicy, Actuating
<1>. QED
  BY <1>5, <1>6

\* Under the engine, the Safety Layer and any policy that was learned: where
\* the signal may be cut for an emergency vehicle, the cut is proposed; need,
\* score, congestion, a queue, a small benefit or a rule do not stand in its
\* way (engine.py, policy_runtime.py, safety.py).
THEOREM EmergencyIsHeldOnlyBySafety ==
    ASSUME SomethingIsHarmless, DefaultPolicy, ProtectedGreens, GivenRulesExtendGreens
    PROVE  LearnSpec => []EmergencyHeldOnlyBySafety
<1>1. LearnInit => SituationInv /\ TrainingInv /\ RulesInv
  BY InitSituation, InitTraining DEF LearnInit, Init, GivenRulesExtendGreens, RulesInv
<1>2. SituationInv /\ TrainingInv /\ RulesInv /\ [LearnNext]_allVars =>
          SituationInv' /\ TrainingInv' /\ RulesInv'
  BY SituationStep, TrainingStep, RulesStep
<1>3. SituationInv /\ RulesInv => EmergencyHeldOnlyBySafety
  BY OnlySafetyHolds
<1>. QED
  BY <1>1, <1>2, <1>3, PTL DEF LearnSpec

-----------------------------------------------------------------------------
(* Truncations.                                                             *)

\* The vehicles that come have a group that may be given an early green, and
\* the program of the signal passed the verification.
MayBeGivenGreen ==
    /\ Actuable /\ EarlyGreenActuable
    /\ \A b \in Buses : HasGroup(b) /\ "early_green" \in Group(Contract, b).allowed

\* What is green when a vehicle's own phase is not, conflicts with its group.
OthersConflict ==
    \A b \in Buses, g \in Contract.groups :
        g.phase # TargetPhase(b) =>
            \E other \in Contract.groups :
                /\ other.phase = g.phase /\ other.id # Group(Contract, b).id
                /\ other.id \in Group(Contract, b).conflicts

\* The phases of groups are greens; all others are transitions, over before
\* the minimum green.
GreensAndTransitions ==
    /\ \A p \in Phases \cap Served : \A i \in DOMAIN Program[p] : Program[p][i] \notin Yellows
    /\ \A p \in Phases \ Served : PlanDuration[p] <= Policy.minGreen

\* A transition lasts as planned.
TransitionInv == phase \notin Served => left >= 1 /\ spent + left = PlanDuration[phase]

LEMMA InitTransition == LearnInit => TransitionInv
<1>. SUFFICES ASSUME LearnInit PROVE TransitionInv
  OBVIOUS
<1>1. phase \in 0 .. PhaseCount - 1 /\ spent = 0 /\ left = PlanDuration[phase]
  BY DEF LearnInit, Init
<1>. QED
  BY <1>1, ApproachAssumption DEF TransitionInv

LEMMA TransitionStep ==
    ASSUME SituationInv, TransitionInv, [LearnNext]_allVars
    PROVE  TransitionInv'
<1>1. CASE UNCHANGED <<phase, spent, left>>
  BY <1>1 DEF TransitionInv, Served
<1>2. CASE Intervene
  BY <1>2, InterveneSituation DEF Intervene, TransitionInv, Served
<1>3. ASSUME phase' \in Phases, spent' = 0, left' = PlanDuration[phase']
      PROVE  TransitionInv'
  <2>1. left' \in Nat \ {0}
    BY <1>3, ApproachAssumption DEF Phases
  <2>. QED
    BY <1>3, <2>1 DEF TransitionInv, Served
<1>4. CASE Drive
  <2>1. CASE left > 1
    <3>1. phase' = phase /\ spent' = spent + 1 /\ left' = left - 1
      BY <1>4, <2>1 DEF Drive
    <3>. QED
      BY <2>1, <3>1 DEF SituationInv, TransitionInv, Served
  <2>2. CASE ~(left > 1)
    <3>1. phase' = (phase + 1) % PhaseCount /\ spent' = 0 /\ left' = PlanDuration[phase']
      BY <1>4, <2>2 DEF Drive
    <3>2. (phase + 1) % PhaseCount \in Phases
      BY ApproachAssumption DEF SituationInv, Phases
    <3>. QED
      BY <1>3, <3>1, <3>2
  <2>. QED
    BY <2>1, <2>2
<1>5. CASE Optimize \/ ExportRules
  BY <1>3, <1>5 DEF Optimize, ExportRules, NextVehicle, Phases
<1>6. CASE Serve(Intervene, TRUE) \/ Serve(LeaveAlone, FALSE)
  BY <1>1, <1>2, <1>6 DEF Serve, LeaveAlone
<1>7. CASE Pass
  BY <1>1, <1>4, <1>7 DEF Pass, Cross
<1>8. CASE LoadLog \/ NextEpisode \/ \E i \in 1 .. LogCap, a \in Range(CandidateActions) : Sample(i, a)
  BY <1>1, <1>8 DEF LoadLog, NextEpisode, Sample, vars
<1>9. CASE UNCHANGED allVars
  BY <1>1, <1>9 DEF allVars, vars
<1>. QED
  BY <1>5, <1>6, <1>7, <1>8, <1>9 DEF LearnNext

\* The group of a vehicle does not depend on where it is.
LEMMA GroupOfTheVehicle ==
    /\ HasGroup(Request) <=> HasGroup(bus)
    /\ Group(Contract, Request) = Group(Contract, bus)
    /\ TargetPhase(Request) = TargetPhase(bus)
<1>1. Request.group = bus.group /\ Request.movement = bus.movement
  BY DEF Request
<1>2. GroupsOf(Contract, Request) = GroupsOf(Contract, bus)
  BY <1>1 DEF GroupsOf, GroupsById, GroupsByMovement
<1>3. (HasGroup(Request) <=> HasGroup(bus)) /\ Group(Contract, Request) = Group(Contract, bus)
  BY <1>2 DEF HasGroup, Group
<1>. QED
  BY <1>1, <1>3 DEF TargetPhase

LEMMA ProposedTruncation ==
    ASSUME NEW req, NEW view, NEW reading, Decide(req, view, reading).action = "early_green"
    PROVE  /\ Decide(req, view, reading).target = TargetPhase(req)
           /\ ContractAllows(view, TargetPhase(req))
<1>1. DecideInGreen(req, view, reading).action # "early_green"
  BY DEF DecideInGreen, NoIntervention, Decision
<1>2. Decide(req, view, reading) = DecideInRed(req, view, reading)
  BY <1>1 DEF Decide, NoIntervention, Decision
<1>. QED
  BY <1>2 DEF DecideInRed, NoIntervention, Decision

LEMMA NoneInTransition ==
    ASSUME GreensAndTransitions, SituationInv, TransitionInv, fault = "none",
           Unread \notin Int, ContractAllows(View, TargetPhase(Request))
    PROVE  phase \in Served
<1>. SUFFICES ASSUME phase \notin Served PROVE FALSE
  OBVIOUS
<1>1. View.phase = phase /\ View.spent = spent /\ spent \in Nat /\ left \in Int /\ phase \in Phases
  BY DEF View, SituationInv
<1>2. spent >= MinGreenOf(Contract, Policy.minGreen, phase)
  BY <1>1 DEF ContractAllows
<1>3. MinGreenOf(Contract, Policy.minGreen, phase) = Policy.minGreen
  <2>1. {g.minGreen : g \in {g \in Contract.groups : g.phase = phase}} = {}
    BY DEF Served
  <2>2. MinGreenOf(Contract, Policy.minGreen, phase) = Max({Policy.minGreen})
    BY <2>1 DEF MinGreenOf
  <2>. QED
    BY <2>2, LimitsAssumption DEF Max
<1>4. spent + left = PlanDuration[phase] /\ left >= 1 /\ PlanDuration[phase] <= Policy.minGreen
  BY <1>1 DEF TransitionInv, GreensAndTransitions
<1>5. Policy.minGreen \in Int
  BY LimitsAssumption
<1>. QED
  BY <1>1, <1>2, <1>3, <1>4, <1>5

LEMMA ProposedIsLetThrough ==
    ASSUME MayBeGivenGreen, OthersConflict, GreensAndTransitions, SituationInv, TransitionInv
    PROVE  TruncationsProposedAreSafe
<1>. SUFFICES ASSUME Baseline.action = "early_green", fault = "none", left > Baseline.to
              PROVE  Approves(Request, View, Baseline, 0)
  BY DEF TruncationsProposedAreSafe
<1>1. Baseline.target = TargetPhase(Request) /\ ContractAllows(View, TargetPhase(Request))
  BY ProposedTruncation DEF Baseline
<1>2. phase \in Served \cap Phases
  BY <1>1, NoneInTransition, EngineAssumption DEF SituationInv
<1>3. View.phase = phase /\ View.spent = spent /\ View.left = left /\ View.state = Program[phase]
  BY DEF View
<1>4. spent # Unread /\ bus \in Buses
  BY EngineAssumption DEF SituationInv
<1>5. /\ SequenceClear(Contract, phase, TargetPhase(Request))
      /\ spent >= MinGreenOf(Contract, Limits.minGreen, phase)
  BY <1>1, <1>3, <1>4, LimitsAssumption DEF ContractAllows
<1>6. PICK other \in Contract.groups :
          /\ other.phase = phase /\ other.id # Group(Contract, Request).id
          /\ other.id \in Group(Contract, Request).conflicts
  <2>1. PICK g \in Contract.groups : g.phase = phase
    BY <1>2 DEF Served
  <2>2. g.phase # TargetPhase(bus)
    BY <1>5, <2>1, GroupOfTheVehicle DEF SequenceClear
  <2>. QED
    BY <1>4, <2>1, <2>2, GroupOfTheVehicle DEF OthersConflict
<1>7. ~InYellow(View, Request, Baseline)
  BY <1>2, <1>3 DEF InYellow, AnyYellow, GreensAndTransitions
<1>8. HasGroup(Request) /\ "early_green" \in Group(Contract, Request).allowed
  BY <1>4, GroupOfTheVehicle DEF MayBeGivenGreen
<1>9. CurrentPhaseConflicts(Request, View)
  BY <1>3, <1>6 DEF CurrentPhaseConflicts
<1>10. TruncationApproved(Request, View, Baseline)
  <2>1. TruncationSafe(Request, View, Baseline)
    BY <1>1, <1>3, <1>4, <1>5, <1>6, <1>8, <1>9 DEF TruncationSafe, MayBeGivenGreen
  <2>2. Baseline.to \in Int
    BY ViewOfTheSignal, RequestOfTheVehicle, DecisionType DEF Baseline, SituationInv, HasNumbers
  <2>3. ~AboutToSwitch(View, Baseline)
    BY <1>3, <2>2 DEF AboutToSwitch, SituationInv
  <2>. QED
    BY <2>1, <2>3 DEF TruncationApproved
<1>. QED
  BY <1>7, <1>10 DEF Approves, Actuating, MayBeGivenGreen

\* The engine's sequence and minimum green checks say at least what those of
\* the Safety Layer say: in a signal of greens and short transitions, what the
\* engine proposes to cut the Safety Layer lets be cut (engine.py, safety.py).
THEOREM ProposedTruncationsAreSafe ==
    ASSUME MayBeGivenGreen, OthersConflict, GreensAndTransitions
    PROVE  LearnSpec => []TruncationsProposedAreSafe
<1>1. LearnInit => SituationInv /\ TransitionInv
  BY InitSituation, InitTransition
<1>2. SituationInv /\ TransitionInv /\ [LearnNext]_allVars => SituationInv' /\ TransitionInv'
  BY SituationStep, TransitionStep
<1>3. SituationInv /\ TransitionInv => TruncationsProposedAreSafe
  BY ProposedIsLetThrough
<1>. QED
  BY <1>1, <1>2, <1>3, PTL DEF LearnSpec

-----------------------------------------------------------------------------
(* The rationing of the signal.                                            *)

\* The counter is reset later than the cooldown ends (safety.py, 525-542).
LEMMA WindowOutlastsCooldown ==
    /\ ResetWindow \in Nat
    /\ Cooldown < ResetWindow
BY RationingAssumption, SMT DEF ResetWindow

\* What is left of a debt is a number of seconds, and no more than the debt.
LEMMA DebtNowType ==
    ASSUME NEW r \in Ration
    PROVE  DebtNow(r) \in Nat /\ DebtNow(r) <= r.debt
<1>1. r.debt \in Nat /\ r.debtAge \in Nat
  BY DEF Ration
<1>2. r.debtAge * PaybackRate \in Nat
  BY <1>1, RationingAssumption, SMT
<1>. QED
  BY <1>1, <1>2, SMT DEF DebtNow, AtLeastZero

\* Every operation on a ration yields a ration.
LEMMA ElapseType ==
    ASSUME NEW r \in Ration
    PROVE  Elapse(r) \in Ration
<1>1. r.since \in 0 .. ResetWindow /\ r.debt \in Nat /\ r.debtAge \in Nat
  BY DEF Ration
<1>2. Lesser(r.since + 1, ResetWindow) \in 0 .. ResetWindow
  BY <1>1, WindowOutlastsCooldown, SMT DEF Lesser
<1>3. Lesser(r.debtAge + 1, r.debt) \in Nat
  BY <1>1, SMT DEF Lesser
<1>. QED
  BY <1>1, <1>2, <1>3 DEF Ration, Elapse

LEMMA RecoverDebtType ==
    ASSUME NEW r \in Ration
    PROVE  RecoverDebt(r) \in Ration
<1>1. DebtNow(r) \in Nat
  BY DebtNowType
<1>. QED
  BY <1>1 DEF Ration, RecoverDebt

LEMMA ResetCountType ==
    ASSUME NEW r \in Ration
    PROVE  ResetCountAfterRecoveryWindow(r) \in Ration
BY SMT DEF Ration, ResetCountAfterRecoveryWindow

LEMMA AfterValidateType ==
    ASSUME NEW r \in Ration, NEW e \in BOOLEAN, NEW c \in BOOLEAN
    PROVE  AfterValidate(r, e, c) \in Ration
BY RecoverDebtType, ResetCountType DEF AfterValidate

LEMMA MarkAppliedType ==
    ASSUME NEW r \in Ration, NEW c \in BOOLEAN, NEW added \in Nat
    PROVE  MarkApplied(r, c, added) \in Ration
<1>1. DebtNow(r) + added \in Nat
  BY DebtNowType, SMT
<1>. QED
  BY <1>1, WindowOutlastsCooldown, SMT DEF Ration, MarkApplied

\* Bringing the debt up to date does not change what is left of it.
LEMMA RecoverDebtKeepsDebt ==
    ASSUME NEW r \in Ration
    PROVE  DebtNow(RecoverDebt(r)) = DebtNow(r)
<1>1. DebtNow(r) \in Nat
  BY DebtNowType
<1>2. RecoverDebt(r).debt = DebtNow(r) /\ RecoverDebt(r).debtAge = 0
  BY DEF RecoverDebt, Ration
<1>3. DebtNow(RecoverDebt(r)) = AtLeastZero(DebtNow(r) - 0 * PaybackRate)
  BY <1>2 DEF DebtNow
<1>4. 0 * PaybackRate = 0
  BY RationingAssumption, SMT
<1>. QED
  BY <1>1, <1>3, <1>4, SMT DEF AtLeastZero

LEMMA ResetCountKeepsDebt ==
    ASSUME NEW r \in Ration
    PROVE  DebtNow(ResetCountAfterRecoveryWindow(r)) = DebtNow(r)
BY DEF ResetCountAfterRecoveryWindow, DebtNow, Ration

LEMMA AfterValidateKeepsDebt ==
    ASSUME NEW r \in Ration, NEW e \in BOOLEAN, NEW c \in BOOLEAN
    PROVE  DebtNow(AfterValidate(r, e, c)) = DebtNow(r)
BY ResetCountKeepsDebt, ResetCountType, RecoverDebtKeepsDebt DEF AfterValidate

\* A second pays back the rate, down to zero; an age that has reached the debt
\* stops there because nothing is left by then.
LEMMA ElapsePaysBack ==
    ASSUME NEW r \in Ration
    PROVE  DebtNow(Elapse(r)) =
               IF DebtNow(r) > PaybackRate THEN DebtNow(r) - PaybackRate ELSE 0
<1>. DEFINE d == r.debt
            a == r.debtAge
<1>1. d \in Nat /\ a \in Nat /\ PaybackRate \in Nat /\ PaybackRate >= 1
  BY RationingAssumption, SMT DEF Ration
<1>2. Elapse(r).debt = d /\ Elapse(r).debtAge = Lesser(a + 1, d)
  BY DEF Elapse, Ration
<1>3. CASE a + 1 <= d
  <2>1. Elapse(r).debtAge = a + 1
    BY <1>2, <1>3 DEF Lesser
  <2>2. (a + 1) * PaybackRate = a * PaybackRate + PaybackRate
    BY <1>1, SMT
  <2>3. a * PaybackRate \in Nat
    BY <1>1, SMT
  <2>4. DebtNow(Elapse(r)) = AtLeastZero(d - (a * PaybackRate + PaybackRate))
    BY <1>2, <2>1, <2>2 DEF DebtNow
  <2>5. DebtNow(r) = AtLeastZero(d - a * PaybackRate)
    BY DEF DebtNow
  <2>. QED
    BY <1>1, <2>3, <2>4, <2>5, SMT DEF AtLeastZero
<1>4. CASE ~(a + 1 <= d)
  <2>1. Elapse(r).debtAge = d
    BY <1>2, <1>4 DEF Lesser
  <2>2. d * PaybackRate >= d /\ a * PaybackRate >= a
    BY <1>1, SMT
  <2>3. d * PaybackRate \in Nat /\ a * PaybackRate \in Nat
    BY <1>1, SMT
  <2>4. DebtNow(Elapse(r)) = AtLeastZero(d - d * PaybackRate)
    BY <1>2, <2>1 DEF DebtNow
  <2>5. DebtNow(r) = AtLeastZero(d - a * PaybackRate)
    BY DEF DebtNow
  <2>6. a >= d
    BY <1>1, <1>4, SMT
  <2>. QED
    BY <1>1, <2>2, <2>3, <2>4, <2>5, <2>6, SMT DEF AtLeastZero
<1>. QED
  BY <1>3, <1>4

\* An intervention adds exactly what it perturbs.
LEMMA MarkAppliedAddsDebt ==
    ASSUME NEW r \in Ration, NEW c \in BOOLEAN, NEW added \in Nat
    PROVE  DebtNow(MarkApplied(r, c, added)) = DebtNow(r) + added
<1>1. DebtNow(r) \in Nat
  BY DebtNowType
<1>2. MarkApplied(r, c, added).debt = DebtNow(r) + added
  BY DEF MarkApplied
<1>3. MarkApplied(r, c, added).debtAge = 0
  BY DEF MarkApplied
<1>4. ASSUME NEW m, m.debt = DebtNow(r) + added, m.debtAge = 0
      PROVE  DebtNow(m) = DebtNow(r) + added
  <2>1. m.debt - m.debtAge * PaybackRate = DebtNow(r) + added
    BY <1>1, <1>4, RationingAssumption, SMT
  <2>2. DebtNow(m) = AtLeastZero(DebtNow(r) + added)
    BY <2>1 DEF DebtNow
  <2>. QED
    BY <1>1, <2>2, SMT DEF AtLeastZero
<1>. QED
  BY <1>2, <1>3, <1>4

LEMMA AfterValidateKeepsAge ==
    ASSUME NEW r \in Ration, NEW e \in BOOLEAN, NEW c \in BOOLEAN
    PROVE  AfterValidate(r, e, c).since = r.since
BY DEF AfterValidate, RecoverDebt, ResetCountAfterRecoveryWindow, Ration

-----------------------------------------------------------------------------
(* Rules that cut.                                                          *)

CutsReds(policy) ==
    \A b \in DOMAIN policy : policy[b] = "early_green" => b.phase # "priority_movement_green"

GivenRulesCutReds == \A policy \in RuleSets : CutsReds(policy)

\* While a lane has its protected green no group that conflicts has its own.
GreensDoNotConflict ==
    \A b \in LoggedBuses, p \in Phases : \A i \in DOMAIN Lanes \cap DOMAIN Program[p] :
        Lanes[i] = b.lane /\ Program[p][i] = "G" => ~CurrentPhaseConflicts(b, [phase |-> p])

\* What was logged as an approved cut was logged in a red.
LEMMA CutsAreOfReds ==
    ASSUME GreensDoNotConflict, NEW row, IsRow(row), NEW k \in DOMAIN Proposals(row),
           Proposals(row)[k].action = "early_green", ~Blocked(row, Proposals(row)[k])
    PROVE  OfflineBucket(row).phase # "priority_movement_green"
<1>. DEFINE view == LoggedView(row)
            req == row.req
            d == Proposals(row)[k]
            baseline == Decide(req, view, NoReading)
            position == MovementPosition(view, req, FALSE)
<1>. SUFFICES ASSUME PhaseBucket(req, view) = "priority_movement_green" PROVE FALSE
  BY DEF OfflineBucket, Bucket
<1>1. TruncationApproved(req, view, d)
  BY DEF Blocked, Approves, Actuating
<1>2. SequenceClear(Contract, view.phase, d.target) /\ CurrentPhaseConflicts(req, view)
  BY <1>1 DEF TruncationApproved, TruncationSafe
<1>3. baseline.action # "early_green"
  <2>. SUFFICES ASSUME baseline.action = "early_green" PROVE FALSE
    OBVIOUS
  <2>1. ~MovementIsGreen(req, view)
    BY DEF Decide, DecideInGreen, NoIntervention, Decision
  <2>2. ContractAllows(view, TargetPhase(req))
    BY ProposedTruncation
  <2>. QED
    BY <2>1, <2>2, GreensNeedNoTruncation DEF ContractAllows
<1>4. d.target = PhaseMapping[req.movement]
  <2>1. baseline.target = Nowhere
    BY <1>3 DEF Decide, DecideInGreen, DecideInRed, NoIntervention, Decision
  <2>2. CASE k = 1
    BY <1>3, <2>2, ProposalsOf
  <2>3. CASE k # 1
    <3>1. k - 1 \in 1 .. Len(CandidateActions) /\ (k - 1) + 1 = k
      <4>1. Len(CandidateActions) \in Nat
        BY LearningAssumption
      <4>2. k \in 1 .. Len(CandidateActions) + 1
        BY ProposalsOf
      <4>. QED
        BY <2>3, <4>1, <4>2
    <3>2. d = PlanAction(CandidateActions[k - 1], req, baseline)
      BY <3>1, ProposalsOf
    <3>. HIDE DEF baseline
    <3>3. \A a : PlanAction(a, req, baseline).action = "early_green" =>
              PlanAction(a, req, baseline).target = PhaseMapping[req.movement]
      BY <2>1 DEF PlanAction, NoIntervention, Decision
    <3>. QED
      BY <3>2, <3>3
  <2>. QED
    BY <2>2, <2>3
<1>5. position > 0 /\ view.state[position] = "G"
  BY <1>2, <1>4 DEF PhaseBucket, CharBucket, SequenceClear
<1>6. PICK b \in LoggedBuses : req.lane = b.lane /\ req.group = b.group /\ req.movement = b.movement
  BY DEF IsRow
<1>7. /\ view.lanes = Lanes /\ view.phase \in Phases /\ view.state = Program[view.phase]
      /\ view.links = <<>>
  BY DEF IsRow, Views, LoggedView
<1>8. position \in LanePositions(view, req)
  <2>1. LinkPositions(view, req) = {}
    BY <1>7 DEF LinkPositions
  <2>2. LanePositions(view, req) # {} /\ position = Min(LanePositions(view, req))
    BY <1>5, <2>1 DEF MovementPosition
  <2>3. LanePositions(view, req) \in SUBSET Nat
    BY <1>7, ApproachAssumption DEF LanePositions
  <2>. QED
    BY <2>2, <2>3, FirstNumber
<1>9. /\ position \in DOMAIN Lanes \cap DOMAIN Program[view.phase]
      /\ Lanes[position] = b.lane /\ Program[view.phase][position] = "G"
  BY <1>5, <1>6, <1>7, <1>8 DEF LanePositions
<1>10. ~CurrentPhaseConflicts(b, [phase |-> view.phase])
  BY <1>7, <1>9 DEF GreensDoNotConflict
<1>11. Group(Contract, req) = Group(Contract, b)
  BY <1>6 DEF Group, GroupsOf, GroupsById, GroupsByMovement
<1>. QED
  BY <1>2, <1>10, <1>11 DEF CurrentPhaseConflicts

LEMMA LearnedCutReds ==
    ASSUME SomethingIsHarmless, GreensDoNotConflict, TrainingInv, Optimize \/ ExportRules
    PROVE  CutsReds(rules')
<1>. SUFFICES ASSUME NEW b \in DOMAIN rules', rules'[b] = "early_green"
              PROVE  b.phase # "priority_movement_green"
  BY DEF CutsReds
<1>1. LetThrough(b, "early_green")
  BY ExportedRulesAreSafe
<1>2. cases = [i \in DOMAIN log |-> Case(log[i])]
  BY DEF Optimize, ExportRules, TrainingInv
<1>3. PICK i \in DOMAIN log :
          /\ OfflineBucket(log[i]) = b
          /\ \E k \in DOMAIN Candidates(log[i]) :
                /\ Candidates(log[i])[k].action = "early_green"
                /\ ~Candidates(log[i])[k].blocked
  BY <1>1, <1>2 DEF LetThrough, Case
<1>4. PICK k \in DOMAIN Proposals(log[i]) :
          /\ Proposals(log[i])[k].action = "early_green"
          /\ ~Blocked(log[i], Proposals(log[i])[k])
  BY <1>3, InterventionsAreProposals DEF Candidates, Candidate, Actuating
<1>. QED
  BY <1>3, <1>4, CutsAreOfReds DEF TrainingInv

CutsInv == CutsReds(rules)

LEMMA CutsStep ==
    ASSUME SomethingIsHarmless, GreensDoNotConflict, TrainingInv, CutsInv, [LearnNext]_allVars
    PROVE  CutsInv'
<1>1. CASE Optimize \/ ExportRules
  BY <1>1, LearnedCutReds DEF CutsInv, CutsReds
<1>2. CASE ~(Optimize \/ ExportRules)
  <2>1. rules' = rules
    BY <1>2 DEF LearnNext, Serve, Intervene, LeaveAlone, Pass, Drive, Cross, LoadLog,
                NextEpisode, Sample, allVars, vars
  <2>. QED
    BY <2>1 DEF CutsInv, CutsReds
<1>. QED
  BY <1>1, <1>2

-----------------------------------------------------------------------------
(* A green that is held until the vehicle has passed.                       *)

\* What an event may be given in all, and how long the green may get.
Budget(b) == ExtensionLimit(b, 0)

LongestGreen(b) == Lesser(Limits.maxTotalGreen, Group(Contract, b).maxGreen)

\* The longest a phase is without an extension.
Longest == Max({PlanDuration[p] : p \in Phases} \cup {Policy.truncateTo})

\* Instalments are on, each is at least a second, and a vehicle is given a
\* second to pass the stop line (priority_event_lifecycle_enabled,
\* green_extension_min_s, eta_arrival_buffer_s).
InstalmentsAreOn ==
    /\ EventLifecycleEnabled /\ ~AllowSuppress
    /\ Policy.extensionMin >= 1 /\ Policy.arrivalBuffer >= 1 /\ Policy.truncateTo >= 0

\* What a cooldown pays back.
Paid == Cooldown * PaybackRate

\* It is no less than a phase, and than the budget of one event, and the debt
\* that is allowed is no less than that budget.
DebtsArePaidInTime ==
    \A b \in Buses :
        /\ HasGroup(b) /\ Budget(b) \in 0 .. MaxRecoveryDebt
        /\ Longest <= Paid /\ Budget(b) <= Paid

\* What does not depend on the second: where vehicle and signal are.
Still(p) == [phase |-> p, state |-> Program[p], links |-> Links, lanes |-> Lanes]

Extension == Decision("green_extension", 0, Unread, Nowhere)

InOwnGreen(b, p) ==
    /\ Actuable /\ HasGroup(b) /\ "green_extension" \in Group(Contract, b).allowed
    /\ p = Group(Contract, b).phase
    /\ HasProtectedGreen(Still(p), b) /\ ~InYellow(Still(p), b, Extension)

Given == IF event = NoEvent THEN 0 ELSE event

DebtInv ==
    /\ ration \in Ration
    /\ event # NoEvent /\ ~IsEmergency(bus) => DebtNow(ration) <= event
    /\ ~IsEmergency(bus) =>
          \/ DebtNow(ration) = 0
          \/ DebtNow(ration) + ration.since * PaybackRate <= Paid

EventInv ==
    /\ stage = "decide" => left >= 1
    /\ left <= Longest + Given
    /\ event # NoEvent => InOwnGreen(bus, phase) /\ event \in 0 .. Budget(bus)

CoverInv ==
    covered =>
        /\ event # NoEvent
        /\ eta + Policy.arrivalBuffer <= left + Budget(bus) - event
        /\ eta + Policy.arrivalBuffer <= LongestGreen(bus) - spent
        /\ stage = "drive" => eta = 0 \/ left >= 2

HoldInv == DebtInv /\ EventInv /\ CoverInv

LEMMA LongestIsLongest ==
    ASSUME Policy.truncateTo >= 0
    PROVE  /\ Longest \in Nat /\ Policy.truncateTo \in 0 .. Longest
           /\ \A p \in Phases : PlanDuration[p] <= Longest
<1>. DEFINE Durations == {PlanDuration[p] : p \in Phases} \cup {Policy.truncateTo}
            id == [n \in Durations |-> n]
<1>1. Durations \in SUBSET Nat
  BY EngineAssumption, ApproachAssumption DEF Phases
<1>2. IsFiniteSet(Durations)
  <2>1. IsFiniteSet(Phases)
    BY FS_Interval, ApproachAssumption DEF Phases
  <2>2. IsFiniteSet({PlanDuration[p] : p \in Phases})
    <3>1. PlanDuration \in Surjection(Phases, {PlanDuration[p] : p \in Phases})
      BY ApproachAssumption DEF Surjection, Phases
    <3>. QED
      BY <2>1, <3>1, FS_Surjection
  <2>. QED
    BY <2>2, FS_Singleton, FS_Union
<1>3. \A n \in Durations : id[n] = n /\ id[n] \in Int
  BY <1>1
<1>4. Policy.truncateTo \in Durations /\ \A p \in Phases : PlanDuration[p] \in Durations
  OBVIOUS
<1>5. Longest = Max(Durations)
  BY DEF Longest
<1>. HIDE DEF Durations, id
<1>6. PICK m \in Durations : \A n \in Durations : id[n] <= id[m]
  BY <1>2, <1>3, <1>4, HighestExists
<1>7. \A n \in Durations : m >= n
  BY <1>1, <1>3, <1>6
<1>8. Longest \in Durations /\ \A n \in Durations : Longest >= n
  BY <1>5, <1>7 DEF Max
<1>9. Longest \in Nat /\ Policy.truncateTo \in Nat /\ \A p \in Phases : PlanDuration[p] \in Nat
  BY <1>1, <1>4, <1>8
<1>. QED
  BY <1>4, <1>8, <1>9

\* The movement is where it is, whatever the second.
LEMMA SameMovement ==
    /\ \A fallback \in BOOLEAN : MovementPosition(View, Request, fallback)
                                     = MovementPosition(Still(phase), bus, fallback)
    /\ HasProtectedGreen(View, Request) <=> HasProtectedGreen(Still(phase), bus)
    /\ InYellow(View, Request, Extension) <=> InYellow(Still(phase), bus, Extension)
    /\ HasGroup(Request) <=> HasGroup(bus)
    /\ Group(Contract, Request) = Group(Contract, bus)
<1>. DEFINE still == Still(phase)
<1>1. /\ View.state = still.state /\ View.links = still.links /\ View.lanes = still.lanes
      /\ Request.lane = bus.lane /\ Request.next = bus.next /\ Request.edge = bus.edge
  BY DEF View, Still, Request
<1>. HIDE DEF still
<1>2. /\ LinkPositions(View, Request) = LinkPositions(still, bus)
      /\ LanePositions(View, Request) = LanePositions(still, bus)
      /\ EdgePositions(View, Request) = EdgePositions(still, bus)
  BY <1>1 DEF LinkPositions, LanePositions, EdgePositions, Matches
<1>3. \A fallback : MovementPosition(View, Request, fallback) = MovementPosition(still, bus, fallback)
  BY <1>2 DEF MovementPosition
<1>4. Group(Contract, Request) = Group(Contract, bus) /\ (HasGroup(Request) <=> HasGroup(bus))
  BY GroupOfTheVehicle
<1>5. HasProtectedGreen(View, Request) <=> HasProtectedGreen(still, bus)
  BY <1>1, <1>3, <1>4 DEF HasProtectedGreen
<1>6. InYellow(View, Request, Extension) <=> InYellow(still, bus, Extension)
  BY <1>1, <1>2 DEF InYellow, AnyYellow
<1>. QED
  BY <1>3, <1>4, <1>5, <1>6 DEF still

LEMMA OwnGreenShows ==
    ASSUME ProtectedGreens, InOwnGreen(bus, phase)
    PROVE  ShowsGreen /\ PhaseBucket(Request, View) = "priority_movement_green"
<1>1. HasGroup(Request) /\ HasProtectedGreen(View, Request)
  BY SameMovement DEF InOwnGreen
<1>3. ~Group(Contract, Request).edgeFallback
  BY <1>1, GroupIsOfContract DEF ProtectedGreens
<1>. DEFINE position == MovementPosition(View, Request, FALSE)
<1>4. \A fallback : ~fallback => MovementPosition(View, Request, fallback) = position
  BY DEF MovementPosition
<1>5. position > 0 /\ View.state[position] = "G"
  BY <1>1, <1>3, <1>4 DEF HasProtectedGreen
<1>6. ShowsGreen
  BY <1>3, <1>4, <1>5 DEF ShowsGreen, MovementIsGreen, IsGreenFor
<1>7. CharBucket(View.state[position]) = "priority_movement_green"
  BY <1>5 DEF CharBucket
<1>8. PhaseBucket(Request, View) = CharBucket(View.state[position])
  BY <1>5, <1>7 DEF PhaseBucket
<1>. QED
  BY <1>6, <1>7, <1>8

\* In its own green a vehicle is given more of it, and no other phase is cut.
LEMMA ProposedInOwnGreen ==
    ASSUME ProtectedGreens, SituationInv, CutsInv, InOwnGreen(bus, phase)
    PROVE  /\ Proposal.action # "early_green"
           /\ Baseline.action = "green_extension" /\ Baseline.extension > 0 /\ ~AllowSuppress =>
                  Proposal.action = "green_extension" /\ Proposal.extension = Baseline.extension
<1>. DEFINE bucket == Bucket(Request, View, Traffic, sinceIntervention)
<1>1. ShowsGreen /\ PhaseBucket(Request, View) = "priority_movement_green"
  BY OwnGreenShows
<1>2. Baseline.action # "early_green"
  BY <1>1 DEF ShowsGreen, Baseline, Decide, DecideInGreen, NoIntervention, Decision
<1>3. bucket \in DOMAIN rules => rules[bucket] # "early_green"
  BY <1>1 DEF CutsInv, CutsReds, Bucket
<1>. HIDE DEF bucket
<1>4. Proposal = ApplyRule(rules, bucket, Request, Baseline)
  BY DEF Proposal, bucket
<1>5. \A action : PlanAction(action, Request, Baseline).action = action
  BY DEF PlanAction, NoIntervention, Decision
<1>6. Proposal.action # "early_green"
  BY <1>2, <1>3, <1>4, <1>5 DEF ApplyRule
<1>7. ASSUME Baseline.action = "green_extension", Baseline.extension > 0, ~AllowSuppress
      PROVE  Proposal.action = "green_extension" /\ Proposal.extension = Baseline.extension
  <2>1. CASE Proposal = Baseline
    BY <1>7, <2>1
  <2>2. CASE Proposal # Baseline
    <3>1. /\ bucket \in DOMAIN rules /\ rules[bucket] = "green_extension"
          /\ Proposal = PlanAction(rules[bucket], Request, Baseline)
      BY <1>3, <1>4, <1>7, <2>2 DEF ApplyRule, Actuating
    <3>. QED
      BY <1>7, <3>1 DEF PlanAction, Decision
  <2>. QED
    BY <2>1, <2>2
<1>. QED
  BY <1>6, <1>7

LEMMA BudgetNumbers ==
    ASSUME HasGroup(bus)
    PROVE  /\ Budget(bus) \in Int /\ LongestGreen(bus) \in Int
           /\ \A granted \in Int : ExtensionLimit(Request, granted) = Budget(bus) - granted
           /\ spent \in Int /\ left \in Int /\ View.left = left /\ View.spent = spent =>
                  Room(Request, View) = LongestGreen(bus) - spent - left
<1>1. Group(Contract, bus).maxGreen \in Int /\ Group(Contract, bus).maxExtension \in Int
  BY GroupIsOfContract, EngineAssumption
<1>. DEFINE most == Lesser(Limits.maxExtension,
                           Lesser(Group(Contract, bus).maxExtension, Policy.extensionMax))
<1>2. most \in Int
  BY <1>1, LimitsAssumption, EngineAssumption DEF Lesser
<1>3. Group(Contract, Request) = Group(Contract, bus)
  BY GroupOfTheVehicle
<1>4. /\ Budget(bus) = most - 0
      /\ \A granted : ExtensionLimit(Request, granted) = most - granted
  BY <1>3 DEF Budget, ExtensionLimit
<1>5. LongestGreen(bus) \in Int
  BY <1>1, LimitsAssumption DEF LongestGreen, Lesser
<1>6. Room(Request, View) = LongestGreen(bus) - View.spent - View.left
  BY <1>3 DEF Room, LongestGreen
<1>. HIDE DEF most
<1>. QED
  BY <1>2, <1>4, <1>5, <1>6

\* What an approved extension adds fits in the budget and in the green.
LEMMA ApprovedAdds ==
    ASSUME SituationInv, ProtectedGreens, NEW d, HasNumbers(d), d.action = "green_extension",
           NEW granted \in Int, Approves(Request, View, d, granted)
    PROVE  /\ InOwnGreen(bus, phase) /\ View.left = left
           /\ \E added \in Nat \ {0} :
                 /\ SentDuration(Request, View, d, granted) = left + added
                 /\ added <= Budget(bus) - granted
                 /\ added <= LongestGreen(bus) - spent - left
<1>. DEFINE added == ApprovedExtension(Request, View, d, granted)
<1>1. added > 0 /\ Actuable /\ ~InYellow(View, Request, d)
  BY DEF Approves
<1>2. /\ HasGroup(Request) /\ "green_extension" \in Group(Contract, Request).allowed
      /\ View.phase = Group(Contract, Request).phase
      /\ (Group(Contract, Request).protected => HasProtectedGreen(View, Request))
      /\ View.left # Unread /\ View.spent # Unread
  BY <1>1 DEF ApprovedExtension
<1>3. View.left = left /\ View.spent = spent /\ View.phase = phase
  BY <1>2 DEF View
<1>4. added \in Nat
  BY ViewOfTheSignal, ApprovedExtensionType
<1>5. InOwnGreen(bus, phase)
  <2>1. HasProtectedGreen(View, Request)
    BY <1>2, GroupIsOfContract DEF ProtectedGreens
  <2>2. ~InYellow(View, Request, Extension)
    BY <1>1 DEF InYellow, Extension, Decision
  <2>. QED
    BY <1>1, <1>2, <1>3, <2>1, <2>2, SameMovement DEF InOwnGreen
<1>6. HasGroup(bus)
  BY <1>5 DEF InOwnGreen
<1>7. added = AtLeastZero(Lesser(Lesser(d.extension, ExtensionLimit(Request, granted)),
                                 Room(Request, View)))
  BY <1>1 DEF ApprovedExtension
<1>8. /\ ExtensionLimit(Request, granted) = Budget(bus) - granted /\ Budget(bus) \in Int
      /\ Room(Request, View) = LongestGreen(bus) - spent - left /\ LongestGreen(bus) \in Int
      /\ spent \in Int /\ left \in Int
  BY <1>3, <1>6, BudgetNumbers DEF SituationInv
<1>9. SentDuration(Request, View, d, granted) = left + added
  BY <1>3 DEF SentDuration
<1>. HIDE DEF added
<1>10. added <= Budget(bus) - granted /\ added <= LongestGreen(bus) - spent - left
  BY <1>1, <1>4, <1>7, <1>8 DEF AtLeastZero, Lesser, HasNumbers
<1>. QED
  BY <1>1, <1>3, <1>4, <1>5, <1>9, <1>10

LEMMA MarkedDebt ==
    ASSUME NEW r \in Ration, NEW emergency \in BOOLEAN, NEW continuation \in BOOLEAN,
           NEW moved \in Nat
    PROVE  LET marked == MarkApplied(AfterValidate(r, emergency, continuation),
                                     continuation, moved)
           IN  /\ marked \in Ration /\ marked.since = 0
               /\ DebtNow(marked) = DebtNow(r) + moved
<1>. DEFINE checked == AfterValidate(r, emergency, continuation)
<1>1. checked \in Ration /\ DebtNow(checked) = DebtNow(r)
  BY AfterValidateType, AfterValidateKeepsDebt
<1>. HIDE DEF checked
<1>2. /\ MarkApplied(checked, continuation, moved) \in Ration
      /\ DebtNow(MarkApplied(checked, continuation, moved)) = DebtNow(r) + moved
  BY <1>1, MarkAppliedType, MarkAppliedAddsDebt
<1>3. MarkApplied(checked, continuation, moved).since = 0
  BY DEF MarkApplied
<1>. QED
  BY <1>2, <1>3 DEF checked

LEMMA PaidIsNumber == Paid \in Nat
BY RationingAssumption DEF Paid

LEMMA Distributes ==
    ASSUME NEW i \in Nat, NEW j \in Nat, NEW k \in Nat
    PROVE  (i + j) * k = i * k + j * k
OBVIOUS

\* When the cooldown lets a first intervention through, nothing is owed.
LEMMA PaidByThen ==
    ASSUME NEW r \in Ration, ~StoppedByCooldown(r, FALSE, FALSE),
           DebtNow(r) = 0 \/ DebtNow(r) + r.since * PaybackRate <= Paid
    PROVE  DebtNow(r) = 0
<1>1. r.since \in Nat /\ Cooldown \in Nat /\ PaybackRate \in Nat /\ r.since >= Cooldown
  BY RationingAssumption, WindowOutlastsCooldown
     DEF Ration, StoppedByCooldown, CooldownActive
<1>2. DebtNow(r) \in Nat
  BY DebtNowType
<1>. DEFINE more == r.since - Cooldown
<1>3. more \in Nat /\ r.since = Cooldown + more
  BY <1>1
<1>. HIDE DEF more
<1>4. (Cooldown + more) * PaybackRate = Cooldown * PaybackRate + more * PaybackRate
  BY <1>1, <1>3, Distributes
<1>5. more * PaybackRate \in Nat /\ Cooldown * PaybackRate \in Nat
  BY <1>1, <1>3
<1>6. r.since * PaybackRate = Cooldown * PaybackRate + more * PaybackRate
  BY <1>3, <1>4
<1>. QED
  BY <1>2, <1>5, <1>6 DEF Paid

LEMMA ElapsedDebt ==
    ASSUME NEW r \in Ration,
           DebtNow(r) = 0 \/ DebtNow(r) + r.since * PaybackRate <= Paid
    PROVE  /\ DebtNow(Elapse(r)) <= DebtNow(r)
           /\ \/ DebtNow(Elapse(r)) = 0
              \/ DebtNow(Elapse(r)) + Elapse(r).since * PaybackRate <= Paid
<1>1. DebtNow(r) \in Nat /\ PaybackRate \in Nat \ {0} /\ r.since \in Nat
  BY DebtNowType, RationingAssumption, WindowOutlastsCooldown DEF Ration
<1>2. DebtNow(Elapse(r)) = IF DebtNow(r) > PaybackRate THEN DebtNow(r) - PaybackRate ELSE 0
  BY ElapsePaysBack
<1>3. DebtNow(Elapse(r)) <= DebtNow(r)
  BY <1>1, <1>2
<1>4. ASSUME DebtNow(r) > PaybackRate, DebtNow(r) + r.since * PaybackRate <= Paid
      PROVE  DebtNow(Elapse(r)) + Elapse(r).since * PaybackRate <= Paid
  <2>1. PICK less \in Nat : Elapse(r).since + less = r.since + 1
    <3>1. Elapse(r).since = Lesser(r.since + 1, ResetWindow)
      BY DEF Elapse
    <3>2. ResetWindow \in Nat
      BY WindowOutlastsCooldown
    <3>3. CASE r.since + 1 <= ResetWindow
      <4>1. Elapse(r).since + 0 = r.since + 1
        BY <1>1, <3>1, <3>3 DEF Lesser
      <4>. QED
        BY <4>1
    <3>4. CASE ~(r.since + 1 <= ResetWindow)
      <4>1. Elapse(r).since = ResetWindow /\ r.since + 1 - ResetWindow \in Nat
        BY <1>1, <3>1, <3>2, <3>4 DEF Lesser
      <4>2. Elapse(r).since + (r.since + 1 - ResetWindow) = r.since + 1
        BY <1>1, <3>2, <4>1
      <4>. QED
        BY <4>1, <4>2
    <3>. QED
      BY <3>3, <3>4
  <2>2. Elapse(r).since \in Nat
    BY ElapseType, WindowOutlastsCooldown DEF Ration
  <2>3. Elapse(r).since * PaybackRate + less * PaybackRate = r.since * PaybackRate + PaybackRate
    <3>1. (Elapse(r).since + less) * PaybackRate = Elapse(r).since * PaybackRate + less * PaybackRate
      BY <1>1, <2>2, Distributes
    <3>2. (r.since + 1) * PaybackRate = r.since * PaybackRate + PaybackRate
      BY <1>1, Distributes
    <3>. QED
      BY <2>1, <3>1, <3>2
  <2>4. /\ less * PaybackRate \in Nat /\ r.since * PaybackRate \in Nat
        /\ Elapse(r).since * PaybackRate \in Nat /\ Paid \in Nat
    BY <1>1, <2>2, PaidIsNumber
  <2>. QED
    BY <1>1, <1>2, <1>4, <2>3, <2>4
<1>. QED
  BY <1>1, <1>2, <1>3, <1>4

\* With every second read and needed, a held green goes on being held, until
\* what is left of it suffices.
LEMMA HeldUnlessEnough ==
    ASSUME InstalmentsAreOn, DebtsArePaidInTime, ProtectedGreens, SituationInv, CutsInv, HoldInv,
           covered, fault = "none", stage = "decide", Baseline.action # "reject", ~Accepted(Proposal)
    PROVE  eta = 0 \/ left >= 2
<1>1. /\ event # NoEvent /\ InOwnGreen(bus, phase) /\ event \in 0 .. Budget(bus)
      /\ eta + Policy.arrivalBuffer <= left + Budget(bus) - event
      /\ eta + Policy.arrivalBuffer <= LongestGreen(bus) - spent
  BY DEF HoldInv, EventInv, CoverInv
<1>2. /\ eta \in Nat /\ left \in Int /\ spent \in Nat /\ net \in Readings
      /\ Policy.arrivalBuffer \in Int /\ Policy.extensionMin \in Int
  BY EngineAssumption DEF SituationInv
<1>3. View.left = left /\ View.spent = spent /\ View.left # Unread /\ View.spent # Unread
  BY <1>2, EngineAssumption DEF View
<1>4. ASSUME eta + Policy.arrivalBuffer <= left PROVE eta = 0 \/ left >= 2
  BY <1>2, <1>4 DEF InstalmentsAreOn
<1>5. Baseline = DecideInGreen(Request, View, net)
  BY <1>1, OwnGreenShows DEF Baseline, Decide, ShowsGreen, NoIntervention, Decision
<1>6. RequiredGreen(Request, net) \in Int /\ RequiredGreen(Request, net) >= eta + Policy.arrivalBuffer
  <2>1. QueueCorrection(Request, net) \in Nat
    BY <1>2, RequestOfTheVehicle, QueueOnlyDelays
  <2>2. EffectiveEta(Request, net) = eta + QueueCorrection(Request, net)
    BY DEF EffectiveEta, Request
  <2>. QED
    BY <1>2, <2>1, <2>2 DEF RequiredGreen
<1>7. CASE left >= RequiredGreen(Request, net)
  BY <1>2, <1>4, <1>6, <1>7
<1>8. CASE ~(left >= RequiredGreen(Request, net))
  <2>1. /\ Baseline.action = "green_extension"
        /\ \E most : Baseline.extension = Greater(Policy.extensionMin, most)
    BY <1>3, <1>5, <1>8 DEF DecideInGreen, Decision
  <2>2. Baseline.extension \in Int /\ Baseline.extension >= 1
    <3>1. Baseline.extension \in Int
      BY ProposalNumbers DEF HasNumbers
    <3>. QED
      BY <1>2, <2>1, <3>1 DEF Greater, InstalmentsAreOn
  <2>3. Proposal.action = "green_extension" /\ Proposal.extension = Baseline.extension
    BY <1>1, <2>1, <2>2, ProposedInOwnGreen DEF InstalmentsAreOn
  <2>4. Continues(Proposal) /\ Granted(Proposal) = event
    BY <1>1, <2>3 DEF Continues, Granted, InstalmentsAreOn
  <2>5. /\ HasGroup(bus) /\ Budget(bus) \in Int /\ LongestGreen(bus) \in Int
        /\ ExtensionLimit(Request, event) = Budget(bus) - event
        /\ Room(Request, View) = LongestGreen(bus) - spent - left
    BY <1>1, <1>2, <1>3, BudgetNumbers DEF InOwnGreen
  <2>6. ASSUME Budget(bus) - event > 0, LongestGreen(bus) - spent - left > 0
        PROVE  FALSE
    <3>1. ApprovedExtension(Request, View, Proposal, event) > 0
      <4>1. ApprovedExtension(Request, View, Proposal, event)
                = AtLeastZero(Lesser(Lesser(Proposal.extension, Budget(bus) - event),
                                     LongestGreen(bus) - spent - left))
        <5>1. /\ HasGroup(Request) /\ "green_extension" \in Group(Contract, Request).allowed
              /\ View.phase = Group(Contract, Request).phase
              /\ HasProtectedGreen(View, Request)
          BY <1>1, SameMovement DEF InOwnGreen, View
        <5>. QED
          BY <1>3, <2>5, <5>1 DEF ApprovedExtension
      <4>. QED
        BY <1>1, <1>2, <2>2, <2>3, <2>5, <2>6, <4>1 DEF AtLeastZero, Lesser
    <3>2. Approves(Request, View, Proposal, event)
      <4>1. Actuable /\ ~InYellow(View, Request, Extension)
        BY <1>1, SameMovement DEF InOwnGreen
      <4>2. ~InYellow(View, Request, Proposal)
        BY <2>3, <4>1 DEF InYellow, Extension, Decision
      <4>. QED
        BY <2>3, <3>1, <4>1, <4>2 DEF Approves, Actuating
    <3>3. Admits(ration, IsEmergency(Request), TRUE)
      <4>1. ~StoppedByCooldown(ration, IsEmergency(Request), TRUE)
        BY DEF StoppedByCooldown
      <4>2. ASSUME ~IsEmergency(Request)
            PROVE  AfterValidate(ration, IsEmergency(Request), TRUE).debt < MaxRecoveryDebt
        <5>1. ration \in Ration /\ DebtNow(ration) <= event
          BY <1>1, <4>2 DEF HoldInv, DebtInv, IsEmergency, Request
        <5>2. AfterValidate(ration, IsEmergency(Request), TRUE).debt = DebtNow(ration)
          BY <4>1, <4>2, <5>1, ResetCountKeepsDebt DEF AfterValidate, RecoverDebt
        <5>3. DebtNow(ration) \in Nat
          BY <5>1, DebtNowType
        <5>4. Budget(bus) \in 0 .. MaxRecoveryDebt /\ MaxRecoveryDebt \in Nat
          BY RationingAssumption DEF DebtsArePaidInTime, SituationInv
        <5>5. event \in Int /\ event < Budget(bus)
          BY <1>1, <2>5, <2>6
        <5>6. DebtNow(ration) < MaxRecoveryDebt
          BY <5>1, <5>3, <5>4, <5>5
        <5>. QED
          BY <5>2, <5>6
      <4>. QED
        BY <4>1, <4>2 DEF Admits
    <3>. QED
      BY <2>4, <3>2, <3>3 DEF Accepted
  <2>7. CASE ~(Budget(bus) - event > 0)
    BY <1>1, <1>2, <1>4, <2>5, <2>7
  <2>8. CASE ~(LongestGreen(bus) - spent - left > 0)
    BY <1>1, <1>2, <1>4, <2>5, <2>8
  <2>. QED
    BY <2>6, <2>7, <2>8
<1>. QED
  BY <1>7, <1>8

LEMMA RestedOwesNothing == Rested \in Ration /\ DebtNow(Rested) = 0
<1>1. Rested \in Ration
  BY WindowOutlastsCooldown DEF Rested, Ration
<1>2. DebtNow(Rested) \in Nat /\ DebtNow(Rested) <= Rested.debt
  BY <1>1, DebtNowType
<1>3. Rested.debt = 0
  BY DEF Rested
<1>. QED
  BY <1>1, <1>2, <1>3

LEMMA PlannedLength ==
    ASSUME InstalmentsAreOn, NEW p \in Phases
    PROVE  PlanDuration[p] >= 1 /\ PlanDuration[p] <= Longest /\ Longest = Longest + 0
<1>1. PlanDuration[p] \in Nat \ {0} /\ PlanDuration[p] <= Longest /\ Longest \in Nat
  BY LongestIsLongest, ApproachAssumption DEF InstalmentsAreOn, Phases
<1>. QED
  BY <1>1

LEMMA InitHold ==
    ASSUME InstalmentsAreOn, LearnInit
    PROVE  HoldInv
<1>1. /\ phase \in Phases /\ left = PlanDuration[phase] /\ event = NoEvent /\ ration = Rested
      /\ covered = FALSE
  BY DEF LearnInit, Init, Phases
<1>. QED
  BY <1>1, RestedOwesNothing, PlannedLength DEF HoldInv, DebtInv, EventInv, CoverInv, Given

LEMMA NextVehicleHold ==
    ASSUME InstalmentsAreOn, NEW policy, NextVehicle(policy)
    PROVE  HoldInv'
<1>1. /\ phase' \in Phases /\ left' = PlanDuration[phase'] /\ event' = NoEvent /\ ration' = Rested
      /\ covered' = FALSE
  BY DEF NextVehicle, Phases
<1>. QED
  BY <1>1, RestedOwesNothing, PlannedLength DEF HoldInv, DebtInv, EventInv, CoverInv, Given

\* An extension moves what is left of the budget into the green.
LEMMA ExtendHold ==
    ASSUME InstalmentsAreOn, DebtsArePaidInTime, ProtectedGreens, SituationInv, HoldInv,
           Intervene, Proposal.action = "green_extension"
    PROVE  HoldInv'
<1>. DEFINE d == Proposal
            granted == Granted(d)
            emergency == IsEmergency(Request)
<1>1. granted = Given /\ granted \in Nat /\ (event # NoEvent => granted = event)
  BY DEF Granted, Continues, Given, InstalmentsAreOn, HoldInv, EventInv
<1>2. Approves(Request, View, d, granted) /\ HasNumbers(d)
  BY ProposalNumbers DEF Intervene, Accepted
<1>3. /\ InOwnGreen(bus, phase) /\ View.left = left
      /\ \E added \in Nat \ {0} :
            /\ SentDuration(Request, View, d, granted) = left + added
            /\ added <= Budget(bus) - granted
            /\ added <= LongestGreen(bus) - spent - left
  BY <1>1, <1>2, ApprovedAdds
<1>4. PICK added \in Nat \ {0} :
          /\ SentDuration(Request, View, d, granted) = left + added
          /\ added <= Budget(bus) - granted
  BY <1>3
<1>5. /\ eta \in Nat /\ left \in Int /\ spent \in Nat /\ left # Unread
      /\ Policy.arrivalBuffer \in Int /\ left >= 1
      /\ HasGroup(bus) /\ Budget(bus) \in Int /\ LongestGreen(bus) \in Int /\ Longest \in Nat
  BY <1>3, BudgetNumbers, LongestIsLongest, EngineAssumption
     DEF SituationInv, InOwnGreen, HoldInv, EventInv, Intervene, InstalmentsAreOn
<1>6. /\ left' = left + added
      /\ event' = granted + (left + added) - left
      /\ ration' = MarkApplied(AfterValidate(ration, emergency, Continues(d)), Continues(d),
                               Magnitude((left + added) - left))
      /\ covered' = (covered \/ (event = NoEvent /\ Feasible(d)))
      /\ Admits(ration, emergency, Continues(d))
      /\ stage = "decide" /\ stage' = "drive"
      /\ phase' = phase /\ spent' = spent /\ bus' = bus /\ eta' = eta
  BY <1>3, <1>4, <1>5 DEF Intervene, Accepted, InstalmentsAreOn
<1>7. Continues(d) \in BOOLEAN /\ (Continues(d) <=> event # NoEvent) /\ emergency \in BOOLEAN
  BY DEF Continues, InstalmentsAreOn, IsEmergency
<1>. HIDE DEF d, granted, emergency
<1>8. /\ event' = granted + added /\ Magnitude((left + added) - left) = added
      /\ event' # NoEvent /\ event' \in 0 .. Budget(bus)
  BY <1>1, <1>4, <1>5, <1>6, ApproachAssumption, SMTT(30) DEF Magnitude
<1>9. DebtInv'
  <2>1. /\ ration \in Ration
        /\ ration' \in Ration /\ ration'.since = 0 /\ DebtNow(ration') = DebtNow(ration) + added
    BY <1>6, <1>7, <1>8, MarkedDebt DEF HoldInv, DebtInv
  <2>2. ASSUME ~IsEmergency(bus) PROVE DebtNow(ration) <= granted
    <3>1. CASE event # NoEvent
      BY <1>1, <2>2, <3>1 DEF HoldInv, DebtInv
    <3>2. CASE event = NoEvent
      <4>1. emergency = FALSE /\ Continues(d) = FALSE
        BY <1>7, <2>2, <3>2 DEF emergency, IsEmergency, Request
      <4>2. ~StoppedByCooldown(ration, FALSE, FALSE)
        BY <1>6, <4>1 DEF Admits
      <4>3. DebtNow(ration) = 0
        BY <2>1, <2>2, <4>2, PaidByThen DEF HoldInv, DebtInv
      <4>. QED
        BY <1>1, <4>3
    <3>. QED
      BY <3>1, <3>2
  <2>3. DebtNow(ration) \in Nat
    BY <2>1, DebtNowType
  <2>4. ~IsEmergency(bus) => DebtNow(ration') <= event'
    BY <1>1, <1>4, <1>8, <2>1, <2>2, <2>3
  <2>5. 0 * PaybackRate = 0
    BY RationingAssumption
  <2>6. Budget(bus) <= Paid /\ Paid \in Nat
    BY PaidIsNumber DEF DebtsArePaidInTime, SituationInv
  <2>7. ~IsEmergency(bus) => DebtNow(ration') + ration'.since * PaybackRate <= Paid
    BY <1>5, <1>8, <2>1, <2>3, <2>4, <2>5, <2>6
  <2>. QED
    BY <1>6, <2>1, <2>4, <2>7 DEF DebtInv
<1>10. EventInv'
  <2>1. left' <= Longest + event'
    BY <1>1, <1>4, <1>5, <1>6, <1>8 DEF HoldInv, EventInv
  <2>. QED
    BY <1>3, <1>6, <1>8, <2>1 DEF EventInv, Given
<1>11. CoverInv'
  <2>. SUFFICES ASSUME covered' PROVE CoverInv'
    BY DEF CoverInv
  <2>1. /\ eta + Policy.arrivalBuffer <= left + Budget(bus) - granted
        /\ eta + Policy.arrivalBuffer <= LongestGreen(bus) - spent
    <3>1. CASE covered
      BY <1>1, <3>1 DEF HoldInv, CoverInv
    <3>2. CASE ~covered
      <4>1. event = NoEvent /\ Feasible(d)
        BY <1>6, <3>2
      <4>2. granted = 0
        BY <1>1, <4>1 DEF Given
      <4>3. View.spent = spent
        BY <1>2 DEF d, Approves, ApprovedExtension, View
      <4>4. /\ ExtensionLimit(Request, 0) = Budget(bus) - 0
            /\ Room(Request, View) = LongestGreen(bus) - spent - left
        BY <1>3, <1>5, <4>3, BudgetNumbers
      <4>. QED
        BY <1>5, <4>1, <4>2, <4>4 DEF Feasible
    <3>. QED
      BY <3>1, <3>2
  <2>2. /\ eta' + Policy.arrivalBuffer <= left' + Budget(bus) - event'
        /\ eta' + Policy.arrivalBuffer <= LongestGreen(bus) - spent'
        /\ left' >= 2
    BY <1>1, <1>4, <1>5, <1>6, <1>8, <2>1
  <2>. QED
    BY <1>6, <1>8, <2>2 DEF CoverInv
<1>. QED
  BY <1>9, <1>10, <1>11 DEF HoldInv

LEMMA CutTo ==
    ASSUME InstalmentsAreOn, SituationInv, Proposal.action = "early_green"
    PROVE  /\ Proposal.to \in Nat
           /\ View.left = Unread => Proposal.to = Policy.truncateTo
<1>1. Policy.truncateTo \in Nat /\ Policy.maxGreenRemoved \in Int
  BY EngineAssumption DEF InstalmentsAreOn
<1>2. View.left \in Int \cup {Unread}
  BY ViewOfTheSignal DEF IsView
<1>3. /\ TruncateTo(View) \in Nat
      /\ View.left = Unread => TruncateTo(View) = Policy.truncateTo
  BY <1>1, <1>2 DEF TruncateTo, Greater
<1>4. CASE Proposal = Baseline
  <2>1. Baseline.to = TruncateTo(View)
    BY <1>4 DEF Baseline, Decide, DecideInGreen, DecideInRed, NoIntervention, Decision
  <2>. QED
    BY <1>3, <1>4, <2>1
<1>5. CASE Proposal # Baseline
  <2>1. PICK action : Proposal = PlanAction(action, Request, Baseline)
    BY <1>5 DEF Proposal, ApplyRule
  <2>2. Proposal.to = Policy.truncateTo
    BY <2>1 DEF PlanAction, NoIntervention, Decision
  <2>. QED
    BY <1>1, <2>2
<1>. QED
  BY <1>4, <1>5

\* A cut is of another phase, when nothing is held.
LEMMA CutHold ==
    ASSUME InstalmentsAreOn, DebtsArePaidInTime, ProtectedGreens, SituationInv, CutsInv, HoldInv,
           Intervene, Proposal.action # "green_extension"
    PROVE  HoldInv'
<1>. DEFINE d == Proposal
            granted == Granted(d)
            emergency == IsEmergency(Request)
            moved == IF View.left = Unread THEN d.to ELSE Magnitude(d.to - left)
<1>1. d.action = "early_green" /\ Approves(Request, View, d, granted) /\ granted = 0
  BY DEF Intervene, Accepted, Approves, Actuating, Granted, Continues
<1>2. event = NoEvent /\ ~covered
  BY <1>1, ProposedInOwnGreen DEF HoldInv, EventInv, CoverInv
<1>3. /\ left \in Int /\ left <= Longest /\ Longest \in Nat /\ left >= 1
      /\ Policy.truncateTo \in 0 .. Longest /\ Budget(bus) \in Nat
  BY <1>2, LongestIsLongest
     DEF SituationInv, HoldInv, EventInv, Given, InstalmentsAreOn, DebtsArePaidInTime, Intervene
<1>4. d.to \in Nat /\ (View.left = Unread => d.to = Policy.truncateTo)
  BY <1>1, CutTo
<1>5. View.left # Unread => View.left = left /\ left > d.to
  <2>. SUFFICES ASSUME View.left # Unread PROVE View.left = left /\ left > d.to
    OBVIOUS
  <2>1. View.left = left
    BY DEF View
  <2>2. ~AboutToSwitch(View, d)
    BY <1>1 DEF Approves, TruncationApproved
  <2>. QED
    BY <1>3, <1>4, <2>1, <2>2 DEF AboutToSwitch
<1>6. /\ left' = d.to /\ event' = event /\ stage' = "drive"
      /\ ration' = MarkApplied(AfterValidate(ration, emergency, FALSE), FALSE, moved)
      /\ Admits(ration, emergency, FALSE)
      /\ covered' = (covered \/ (event = NoEvent /\ Feasible(d)))
      /\ phase' = phase /\ bus' = bus
  <2>1. Continues(d) = FALSE
    BY <1>1 DEF Continues
  <2>2. SentDuration(Request, View, d, granted) = d.to
    BY <1>1 DEF SentDuration
  <2>. QED
    BY <1>1, <2>1, <2>2 DEF Intervene, Accepted
<1>7. ~covered'
  BY <1>1, <1>2, <1>6 DEF Feasible
<1>8. moved \in Nat /\ moved <= Longest
  BY <1>3, <1>4, <1>5 DEF Magnitude
<1>. HIDE DEF d, granted, moved
<1>9. DebtInv'
  <2>1. emergency \in BOOLEAN /\ ration \in Ration
    BY DEF IsEmergency, HoldInv, DebtInv
  <2>. HIDE DEF emergency
  <2>2. ration' \in Ration /\ ration'.since = 0 /\ DebtNow(ration') = DebtNow(ration) + moved
    BY <1>6, <1>8, <2>1, MarkedDebt
  <2>3. ASSUME ~IsEmergency(bus) PROVE DebtNow(ration) = 0
    <3>1. emergency = FALSE
      BY <2>3 DEF emergency, IsEmergency, Request
    <3>2. ~StoppedByCooldown(ration, FALSE, FALSE)
      BY <1>6, <3>1 DEF Admits
    <3>. QED
      BY <2>1, <2>3, <3>2, PaidByThen DEF HoldInv, DebtInv
  <2>4. 0 * PaybackRate = 0
    BY RationingAssumption
  <2>5. Longest <= Paid /\ Paid \in Nat
    BY PaidIsNumber DEF DebtsArePaidInTime, SituationInv
  <2>6. ~IsEmergency(bus) => DebtNow(ration') + ration'.since * PaybackRate <= Paid
    BY <1>3, <1>8, <2>2, <2>3, <2>4, <2>5
  <2>. QED
    BY <1>2, <1>6, <2>2, <2>6 DEF DebtInv
<1>10. EventInv'
  <2>1. left' <= Longest
    BY <1>3, <1>4, <1>5, <1>6
  <2>. QED
    BY <1>2, <1>3, <1>6, <2>1 DEF EventInv, Given
<1>. QED
  BY <1>7, <1>9, <1>10 DEF HoldInv, CoverInv

LEMMA LeaveHold ==
    ASSUME InstalmentsAreOn, DebtsArePaidInTime, ProtectedGreens, SituationInv, CutsInv, HoldInv,
           LeaveAlone
    PROVE  HoldInv'
<1>1. /\ UNCHANGED <<phase, spent, left, bus, eta, event>>
      /\ stage = "decide" /\ stage' = "drive"
      /\ covered' = (covered /\ fault = "none" /\ Baseline.action # "reject")
      /\ ~Accepted(Proposal)
  BY DEF LeaveAlone
<1>2. /\ ration' \in Ration /\ ration'.since = ration.since
      /\ DebtNow(ration') = DebtNow(ration)
  <2>1. CASE ration' = ration
    BY <2>1 DEF HoldInv, DebtInv
  <2>2. CASE ration' = AfterValidate(ration, IsEmergency(Request), Continues(Proposal))
    <3>1. IsEmergency(Request) \in BOOLEAN /\ Continues(Proposal) \in BOOLEAN /\ ration \in Ration
      BY DEF IsEmergency, Continues, HoldInv, DebtInv, InstalmentsAreOn
    <3>. QED
      BY <2>2, <3>1, AfterValidateType, AfterValidateKeepsDebt, AfterValidateKeepsAge
  <2>. QED
    BY <2>1, <2>2 DEF LeaveAlone
<1>3. DebtInv'
  BY <1>1, <1>2 DEF HoldInv, DebtInv
<1>4. EventInv'
  BY <1>1 DEF HoldInv, EventInv, Given
<1>5. CoverInv'
  <2>1. covered' => eta = 0 \/ left >= 2
    BY <1>1, HeldUnlessEnough
  <2>. QED
    BY <1>1, <2>1 DEF HoldInv, CoverInv
<1>. QED
  BY <1>3, <1>4, <1>5 DEF HoldInv

LEMMA DriveHold ==
    ASSUME InstalmentsAreOn, DebtsArePaidInTime, ProtectedGreens, SituationInv, HoldInv, Drive
    PROVE  HoldInv'
<1>1. /\ stage = "drive" /\ ~(eta = 0 /\ ShowsGreen) /\ stage' = "decide"
      /\ eta' = AtLeastZero(eta - 1) /\ ration' = Elapse(ration)
      /\ bus' = bus /\ covered' = covered
  BY DEF Drive
<1>2. /\ eta \in Nat /\ left \in Int /\ spent \in Nat /\ phase \in Phases
      /\ Longest \in Nat /\ bus \in Buses /\ HasGroup(bus) /\ Budget(bus) \in Nat
      /\ Policy.arrivalBuffer \in Int
  BY LongestIsLongest, EngineAssumption DEF SituationInv, InstalmentsAreOn, DebtsArePaidInTime
<1>3. covered => eta # 0 /\ left >= 2
  <2>1. covered => ShowsGreen
    BY OwnGreenShows DEF HoldInv, CoverInv, EventInv
  <2>. QED
    BY <1>1, <2>1 DEF HoldInv, CoverInv
<1>4. /\ ration \in Ration /\ ration' \in Ration
      /\ DebtNow(ration') <= DebtNow(ration)
      /\ DebtNow(ration) \in Nat /\ DebtNow(ration') \in Nat
      /\ ~IsEmergency(bus) =>
            \/ DebtNow(ration') = 0
            \/ DebtNow(ration') + ration'.since * PaybackRate <= Paid
  <2>1. ration \in Ration /\ ration' \in Ration
    BY <1>1, ElapseType DEF HoldInv, DebtInv
  <2>2. DebtNow(ration) \in Nat /\ DebtNow(ration') \in Nat
    BY <2>1, DebtNowType
  <2>3. CASE ~IsEmergency(bus)
    BY <1>1, <2>1, <2>2, <2>3, ElapsedDebt DEF HoldInv, DebtInv
  <2>4. CASE IsEmergency(bus)
    <3>1. DebtNow(ration') <= DebtNow(ration)
      BY <1>1, <2>1, <2>2, ElapsePaysBack, RationingAssumption
    <3>. QED
      BY <2>1, <2>2, <2>4, <3>1
  <2>. QED
    BY <2>3, <2>4
<1>5. CASE left > 1
  <2>1. phase' = phase /\ spent' = spent + 1 /\ left' = left - 1 /\ event' = event
    BY <1>5 DEF Drive
  <2>2. DebtInv'
    <3>1. event # NoEvent => event \in Nat
      BY <1>2 DEF HoldInv, EventInv
    <3>2. event # NoEvent /\ ~IsEmergency(bus) => DebtNow(ration') <= event
      BY <1>4, <3>1 DEF HoldInv, DebtInv
    <3>. QED
      BY <1>1, <1>4, <2>1, <3>2 DEF DebtInv
  <2>3. EventInv'
    <3>1. Given \in Int
      BY <1>2 DEF HoldInv, EventInv, Given
    <3>2. left' >= 1 /\ left' <= Longest + Given
      BY <1>2, <1>5, <2>1, <3>1 DEF HoldInv, EventInv
    <3>. QED
      BY <1>1, <2>1, <3>2 DEF HoldInv, EventInv, Given
  <2>4. CoverInv'
    <3>1. ASSUME covered
          PROVE  /\ eta' + Policy.arrivalBuffer <= left' + Budget(bus) - event
                 /\ eta' + Policy.arrivalBuffer <= LongestGreen(bus) - spent'
      <4>1. eta' = eta - 1
        BY <1>1, <1>2, <1>3, <3>1 DEF AtLeastZero
      <4>2. event \in Nat /\ LongestGreen(bus) \in Int
        BY <1>2, <3>1, BudgetNumbers DEF HoldInv, CoverInv, EventInv
      <4>. QED
        BY <1>2, <2>1, <3>1, <4>1, <4>2 DEF HoldInv, CoverInv
    <3>. QED
      BY <1>1, <2>1, <3>1 DEF HoldInv, CoverInv
  <2>. QED
    BY <2>2, <2>3, <2>4 DEF HoldInv
<1>6. CASE ~(left > 1)
  <2>1. ~covered'
    BY <1>1, <1>2, <1>3, <1>6
  <2>2. phase' = (phase + 1) % PhaseCount /\ left' = PlanDuration[phase'] /\ event' = NoEvent
    BY <1>6 DEF Drive
  <2>3. (phase + 1) % PhaseCount \in Phases
    BY <1>2, ApproachAssumption DEF Phases
  <2>4. left' \in Nat \ {0} /\ left' <= Longest
    BY <2>2, <2>3, LongestIsLongest, ApproachAssumption DEF InstalmentsAreOn, Phases
  <2>5. EventInv'
    BY <1>2, <2>2, <2>4 DEF EventInv, Given
  <2>6. DebtInv'
    BY <1>1, <1>4, <2>2 DEF DebtInv
  <2>. QED
    BY <2>1, <2>5, <2>6 DEF HoldInv, CoverInv
<1>. QED
  BY <1>5, <1>6

LEMMA HoldStep ==
    ASSUME InstalmentsAreOn, DebtsArePaidInTime, ProtectedGreens, SituationInv, CutsInv, HoldInv,
           [LearnNext]_allVars
    PROVE  HoldInv'
<1>1. CASE Serve(Intervene, TRUE) \/ Serve(LeaveAlone, FALSE)
  <2>1. Intervene \/ LeaveAlone
    BY <1>1 DEF Serve
  <2>. QED
    BY <2>1, ExtendHold, CutHold, LeaveHold
<1>2. CASE Pass
  <2>1. CASE Drive
    BY <2>1, DriveHold
  <2>2. CASE Cross
    <3>1. /\ UNCHANGED <<phase, spent, left, bus, eta, event, ration, covered>>
          /\ stage' = "crossed"
      BY <2>2 DEF Cross
    <3>. QED
      BY <3>1 DEF HoldInv, DebtInv, EventInv, CoverInv, Given
  <2>. QED
    BY <1>2, <2>1, <2>2 DEF Pass
<1>3. CASE UNCHANGED vars
  BY <1>3 DEF vars, HoldInv, DebtInv, EventInv, CoverInv, Given
<1>4. CASE LoadLog \/ NextEpisode \/ \E i \in 1 .. LogCap, a \in Range(CandidateActions) : Sample(i, a)
  BY <1>3, <1>4 DEF LoadLog, NextEpisode, Sample
<1>5. CASE Optimize \/ ExportRules
  BY <1>5, NextVehicleHold DEF Optimize, ExportRules
<1>6. CASE UNCHANGED allVars
  BY <1>3, <1>6 DEF allVars
<1>. QED
  BY <1>1, <1>2, <1>4, <1>5, <1>6 DEF LearnNext

\* Once a green is held for a vehicle that the budget of one event suffices
\* for, the vehicle passes in it: the instalments, the budget and the green
\* they share, the cooldown they are exempt from and the debt they add to
\* never leave it in front of a red (engine.py, safety.py, controller.py).
THEOREM HeldVehiclesPass ==
    ASSUME SomethingIsHarmless, InstalmentsAreOn, DebtsArePaidInTime, ProtectedGreens,
           GreensDoNotConflict, GivenRulesCutReds
    PROVE  LearnSpec => []FeasibleBusPasses
<1>1. LearnInit => SituationInv /\ TrainingInv /\ CutsInv /\ HoldInv
  BY InitSituation, InitTraining, InitHold
     DEF LearnInit, Init, GivenRulesCutReds, CutsInv
<1>2. SituationInv /\ TrainingInv /\ CutsInv /\ HoldInv /\ [LearnNext]_allVars =>
          SituationInv' /\ TrainingInv' /\ CutsInv' /\ HoldInv'
  BY SituationStep, TrainingStep, CutsStep, HoldStep
<1>3. HoldInv => FeasibleBusPasses
  BY OwnGreenShows DEF HoldInv, CoverInv, EventInv, FeasibleBusPasses
<1>. QED
  BY <1>1, <1>2, <1>3, PTL DEF LearnSpec
=============================================================================
