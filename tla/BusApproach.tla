----------------------------- MODULE BusApproach -----------------------------
(***************************************************************************)
(* One vehicle on its way to one signal: in every second it is read, the   *)
(* engine proposes (engine.py), a rule of the learned policy may replace   *)
(* the proposal (policy_runtime.py), the Safety Layer validates it         *)
(* (safety.py), and what it approves is sent (actuator.py), as             *)
(* _process_acknowledged_requests does (controller.py).                    *)
(*                                                                         *)
(* (Which refreshes the road-side unit acknowledges, and its cooldown      *)
(* after a grant, are in PriorityRequests: here every second brings an     *)
(* acknowledged one, as with a unit that has no cooldown.)                 *)
(*                                                                         *)
(* The behaviour ends when the vehicle has crossed the stop line; what its *)
(* check-out gives back is in PrioritySignal.                              *)
(***************************************************************************)
EXTENDS SafetyChecks, RuntimePolicy, Rationing

CONSTANTS
    Buses,        \* requests that may come, without eta and distance
    FirstEtas,    \* eta_to_stopline_s of the first request
    Speed,        \* metres per second
    PhaseCount, PlanDuration, Program, \* the signal program: durations, states
    Links, Lanes,                      \* controlled links and lanes
    NetworkReadings,
    RuleSets,     \* policies that may have been loaded
    ReadFaults,   \* subset of {"none", "left", "spent"}
    NoEvent

ASSUME ApproachAssumption ==
    /\ PhaseCount \in Nat \ {0} /\ Speed \in Nat /\ FirstEtas \subseteq Nat
    /\ PlanDuration \in [0 .. PhaseCount - 1 -> Nat \ {0}]
    /\ Lanes \in Seq(DOMAIN EdgeOf) /\ NoEvent \notin Int
    /\ \A b \in Buses : b.delay \in Int /\ b.headway \in Int
    /\ \A r \in NetworkReadings \ {NoReading} :
           \A lane \in DOMAIN r.halted : r.halted[lane] \in Nat

VARIABLES
    phase, spent, left,  \* the signal in SUMO
    bus, eta,            \* the vehicle and its distance in seconds
    net, fault,          \* this second's readings
    rules,               \* the policy that was loaded
    ration, event,       \* Safety Layer counters, granted_total_s of the event
    sinceIntervention,   \* since last_intervention_time_by_tls, Unread if none
    stage,               \* "decide", "drive" or "crossed"
    covered              \* see FeasibleBusPasses

vars == <<phase, spent, left, bus, eta, net, fault, rules, ration, event,
          sinceIntervention, stage, covered>>

View ==
    [phase |-> phase,
     spent |-> IF fault = "spent" THEN Unread ELSE spent,
     left  |-> IF fault = "left" THEN Unread ELSE left,
     state |-> Program[phase], links |-> Links, lanes |-> Lanes]

Request ==
    [lane |-> bus.lane, edge |-> bus.edge, next |-> bus.next, group |-> bus.group,
     movement |-> bus.movement, level |-> bus.level, cancelled |-> FALSE,
     ttl |-> Unread, delay |-> bus.delay, headway |-> bus.headway, eta |-> eta,
     queueDelay |-> 0, distance |-> eta * Speed, halting |-> eta = 0]

\* What the policy is told: the network reading, when there is one.
Traffic ==
    [requests |-> 1,
     queue |-> 0,
     halted |-> IF net = NoReading THEN 0
                ELSE MapThenSumSet(LAMBDA lane : net.halted[lane], DOMAIN net.halted),
     speed |-> 0, waiting |-> 0,
     occupancy |-> IF net = NoReading THEN 0 ELSE net.occupancy,
     spilling |-> net # NoReading /\ net.spilling]

Init ==
    /\ phase \in 0 .. PhaseCount - 1
    /\ spent = 0 /\ left = PlanDuration[phase]
    /\ bus \in Buses /\ eta \in FirstEtas
    /\ net \in NetworkReadings /\ fault \in ReadFaults /\ rules \in RuleSets
    /\ ration = Rested /\ sinceIntervention = Unread /\ event = NoEvent
    /\ stage = "decide" /\ covered = FALSE

-----------------------------------------------------------------------------

Baseline == Decide(Request, View, net)

Proposal ==
    ApplyRule(rules, Bucket(Request, View, Traffic, sinceIntervention), Request, Baseline)

\* Mutant: an instalment is rationed like a first intervention.
NeverContinues(d) == FALSE

\* _continuation_event: a further instalment of the open event.
Continues(d) ==
    EventLifecycleEnabled /\ event # NoEvent /\ d.action = "green_extension"

Granted(d) == IF Continues(d) THEN event ELSE 0

Accepted(d) ==
    /\ Approves(Request, View, d, Granted(d))
    /\ Admits(ration, IsEmergency(Request), Continues(d))

\* The required green fits in what one event may be given.
Feasible(d) ==
    /\ d.action = "green_extension"
    /\ eta + Policy.arrivalBuffer <= left + ExtensionLimit(Request, 0)
    /\ eta + Policy.arrivalBuffer <= left + Room(Request, View)

Intervene ==
    LET d == Proposal
        sent == SentDuration(Request, View, d, Granted(d))
        moved == IF View.left = Unread THEN d.to ELSE Magnitude(sent - left)
    IN
    /\ stage = "decide"
    /\ Accepted(d)
    /\ left' = sent
    /\ ration' = MarkApplied(AfterValidate(ration, IsEmergency(Request), Continues(d)),
                             Continues(d), moved)
    /\ event' = IF d.action = "green_extension" /\ EventLifecycleEnabled
                THEN Granted(d) + sent - left ELSE event
    /\ covered' = (covered \/ (event = NoEvent /\ Feasible(d)))
    /\ sinceIntervention' = 0
    /\ stage' = "drive"
    /\ UNCHANGED <<phase, spent, bus, eta, net, fault, rules>>

\* Nothing is sent; a proposal that got past the yellow was at least counted.
LeaveAlone ==
    LET d == Proposal IN
    /\ stage = "decide"
    /\ ~Accepted(d)
    /\ ration' = IF d.action \in Actuating /\ Actuable /\ ~InYellow(View, Request, d)
                 THEN AfterValidate(ration, IsEmergency(Request), Continues(d)) ELSE ration
    /\ covered' = (covered /\ fault = "none" /\ Baseline.action # "reject")
    /\ stage' = "drive"
    /\ UNCHANGED <<phase, spent, left, bus, eta, net, fault, rules, event,
                   sinceIntervention>>

ShowsGreen == MovementIsGreen(Request, View)

Cross ==
    /\ stage = "drive" /\ eta = 0 /\ ShowsGreen
    /\ stage' = "crossed"
    /\ UNCHANGED <<phase, spent, left, bus, eta, net, fault, rules, ration, event,
                   sinceIntervention, covered>>

\* The next second; an event ends with its phase.
Drive ==
    /\ stage = "drive"
    /\ ~(eta = 0 /\ ShowsGreen)
    /\ IF left > 1
       THEN phase' = phase /\ spent' = spent + 1 /\ left' = left - 1 /\ event' = event
       ELSE /\ phase' = (phase + 1) % PhaseCount
            /\ spent' = 0 /\ left' = PlanDuration[phase'] /\ event' = NoEvent
    /\ eta' = AtLeastZero(eta - 1)
    /\ net' \in NetworkReadings /\ fault' \in ReadFaults
    /\ ration' = Elapse(ration)
    /\ sinceIntervention' = IF sinceIntervention = Unread THEN Unread
                            ELSE Lesser(sinceIntervention + 1, BucketLimits.recent)
    /\ stage' = "decide"
    /\ UNCHANGED <<bus, rules, covered>>

Next == Intervene \/ LeaveAlone \/ Cross \/ Drive

Spec == Init /\ [][Next]_vars
-----------------------------------------------------------------------------
(* Properties.                                                              *)

\* Once the engine has begun to hold the green for a vehicle that the budget
\* of one event suffices for, it is green when the vehicle arrives: the small
\* instalments, the budget they share and the cooldown they are exempt from
\* add up, as long as the signal can be read and the need lasts.
FeasibleBusPasses ==
    covered /\ eta = 0 => ShowsGreen

\* Nothing but the signal holds an emergency vehicle back: where the Safety
\* Layer would let a truncation through, neither need, score, pressure, a small
\* benefit nor a learned rule keeps it from being proposed.
EmergencyHeldOnlyBySafety ==
    LET cut == Decision("early_green", 0, TruncateTo(View), TargetPhase(Request)) IN
    IsEmergency(Request) /\ ~ShowsGreen /\ Approves(Request, View, cut, 0) =>
        Proposal.action = "early_green"

\* A truncation that the engine proposes on a signal that can be read is one
\* that the checks of the Safety Layer would let through: the two copies of
\* the sequence and minimum green checks agree.
TruncationsProposedAreSafe ==
    Baseline.action = "early_green" /\ fault = "none" /\ left > Baseline.to =>
        Approves(Request, View, Baseline, 0)

=============================================================================
