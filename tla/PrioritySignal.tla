---------------------------- MODULE PrioritySignal ----------------------------
(***************************************************************************)
(* One traffic light under the TSP control loop: the fixed-time program    *)
(* that SUMO runs, the Safety Layer that approves or blocks each proposed  *)
(* intervention (safety.py), the actuator that sends it (actuator.py), the *)
(* green compensation (compensation.py) and the check-in/check-out of      *)
(* priority events (events.py), in the order TSPControlController runs     *)
(* them in each step (controller.py).                                      *)
(*                                                                         *)
(* A simulation step is the pass of the loop:                              *)
(*   SimulationStep   SUMO advances and the controller reads the signal;   *)
(*   decisions        any proposals, validated and applied;                *)
(*   CompensationStep payback on phase entry;                              *)
(*   event steps      each open event ends, checks out or goes on.         *)
(* Every command of a step is computed from the reading taken at its       *)
(* start, as the code does.  The Safety Layer must hold whatever the       *)
(* engine or a learned policy proposes, so proposals are arbitrary.        *)
(*                                                                         *)
(* The dictionaries of the code are keyed by TLS and no handler modelled   *)
(* here reads the entry of another TLS, so the module is one of them.      *)
(* Times are ages or remaining times, in whole steps of one second.        *)
(***************************************************************************)
EXTENDS Rationing, GreenCompensation

CONSTANTS
    Vehicles,         \* vehicles that ask for priority at this TLS
    Emergency,        \* those of emergency priority level
    TargetPhase,      \* [Vehicles -> phase_index of their signal group]
    PhaseCount,       \* phases are 0 .. PhaseCount - 1, in sequence order
    PlanDuration,     \* [Phases -> duration in the signal program]
    GreenPhases,      \* phases of a configured signal group
    IntergreenPhases, \* intergreen_phase_indices of the contract
    ConflictsWith,    \* [GreenPhases -> conflicts_with of the group, as phases]
    GroupMinGreen,    \* min_green_s of the groups' contracts
    GroupMaxGreen,    \* max_green_s of the groups' contracts
    MaxExtension,     \* least of the three bounds on an extension
    Extensions,       \* extension_s of the decisions proposed
    Truncations,      \* phase_duration_s of the decisions proposed
    AllowedActions,   \* allowed_actions of the contract
    EventLifecycleEnabled,  \* actuation.priority_event_lifecycle_enabled
    CommandOutcomes,  \* subset of {"applied", "error"}
    ReadFaults,       \* subset of {"none", "phase", "spent", "switch"}
    CountCap, DebtCap, AccountCap, \* bounds of the model on what piles up
    NoEvent

\* originalLeft is original_end_s - sim_time_s, which the code floors at 0.
Event == [phase : Phases, originalLeft : Nat, granted : Nat]

ASSUME SignalAssumption ==
    /\ Emergency \subseteq Vehicles
    /\ PhaseCount \in Nat \ {0, 1}
    /\ Phases = 0 .. PhaseCount - 1
    /\ PlanDuration \in [Phases -> Nat \ {0}]
    /\ GreenPhases \subseteq Phases
    /\ IntergreenPhases \subseteq Phases \ GreenPhases
    /\ ConflictsWith \in [GreenPhases -> SUBSET GreenPhases]
    /\ TargetPhase \in [Vehicles -> GreenPhases]
    /\ GroupMinGreen \in Nat /\ GroupMaxGreen \in Nat
    /\ MaxExtension \in Nat \ {0}
    /\ Extensions \subseteq Nat
    /\ Truncations \subseteq Nat \ {0}
    /\ EventLifecycleEnabled \in BOOLEAN
    /\ AllowedActions \subseteq {"green_extension", "early_green"}
    /\ CommandOutcomes \subseteq {"applied", "error"}
    /\ ReadFaults \subseteq {"none", "phase", "spent", "switch"}
    /\ CountCap \in Nat /\ DebtCap \in Nat /\ AccountCap \in Nat
    /\ Unread \notin Nat /\ NoEvent \notin Event

VARIABLES
    phase, spent, left, \* the signal program in SUMO
    reading,     \* the SignalState read at the start of the step
    cleared,     \* vehicles with an event whose request is cleared or expired
    stage,       \* "decide" or "events"
    pending,     \* vehicles whose event this step has still to visit
    intervened,  \* this TLS is in _intervened_tls_this_step
    commanded,   \* this TLS is in commanded_tls_this_step
    ration,      \* Safety Layer counters
    accounts,    \* compensation accounts
    events       \* events_by_key of the PriorityEventManager

VARIABLE served  \* history: the class of vehicle that intervened in this step
                 \* ("nobody" if none did), which only BudgetKept reads

plant == <<phase, spent, left>>
books == <<ration, accounts, events>>
loop  == <<reading, cleared, stage, pending, intervened, commanded, served>>
vars  == <<plant, books, loop>>

Reading ==
    [phase : Phases \cup {Unread}, spent : Nat \cup {Unread},
     left : Nat \cup {Unread}]

TypeOK ==
    /\ phase \in Phases /\ spent \in Nat /\ left \in Nat
    /\ reading \in Reading
    /\ cleared \subseteq Vehicles
    /\ stage \in {"decide", "events"}
    /\ pending \subseteq Vehicles
    /\ intervened \in BOOLEAN /\ commanded \in BOOLEAN
    /\ ration \in Ration
    /\ accounts \in Accounts
    /\ events \in [Vehicles -> Event \cup {NoEvent}]
    /\ served \in {"nobody", "ordinary", "emergency"}

NextPhase(p) == IF p = PhaseCount - 1 THEN 0 ELSE p + 1

Read(p, s, l, fault) ==
    [phase |-> IF fault = "phase" THEN Unread ELSE p,
     spent |-> IF fault = "spent" THEN Unread ELSE s,
     left  |-> IF fault = "switch" THEN Unread ELSE l]

Init ==
    /\ phase = 0 /\ spent = 0 /\ left = PlanDuration[0]
    /\ reading = Read(0, 0, PlanDuration[0], "none")
    /\ cleared = {}
    /\ stage = "events" /\ pending = {}
    /\ intervened = FALSE /\ commanded = FALSE /\ served = "nobody"
    /\ ration = Rested
    /\ accounts = NothingOwed
    /\ events = [v \in Vehicles |-> NoEvent]

-----------------------------------------------------------------------------
(* SUMO and the reading of the signal.                                      *)

\* A phase whose time is up, or was set to 0, gives way to the next one.
ProgramAdvances ==
    IF left > 1
    THEN phase' = phase /\ spent' = spent + 1 /\ left' = left - 1
    ELSE /\ phase' = NextPhase(phase)
         /\ spent' = 0
         /\ left' = PlanDuration[NextPhase(phase)]

EventNearsItsEnd(e) ==
    IF e = NoEvent THEN e ELSE [e EXCEPT !.originalLeft = AtLeastZero(@ - 1)]

SimulationStep ==
    /\ stage = "events" /\ pending = {}
    /\ ProgramAdvances
    /\ \E fault \in ReadFaults : reading' = Read(phase', spent', left', fault)
    /\ ration' = Elapse(ration)
    /\ events' = [v \in Vehicles |-> EventNearsItsEnd(events[v])]
    /\ \E done \in SUBSET {v \in Vehicles : events[v] # NoEvent} : cleared' = done
    /\ stage' = "decide"
    /\ intervened' = FALSE /\ commanded' = FALSE /\ served' = "nobody"
    /\ UNCHANGED <<pending, accounts>>

-----------------------------------------------------------------------------
(* Decisions: validate, apply, mark_applied, the two register_applied.      *)

\* _continuation_event: an instalment of the vehicle's event on this phase.
Continues(v) ==
    /\ EventLifecycleEnabled
    /\ events[v] # NoEvent
    /\ events[v].phase = reading.phase

\* One intervention per TLS and step; later proposals are superseded.  A
\* request that the store has cleared or expired resolves to none.
MayDecide(v) == stage = "decide" /\ ~intervened /\ v \notin cleared

(***************************************************************************)
(* A decision that ends without an intervention: blocked by a check of the *)
(* Safety Layer, by a degraded detector reading or by the controller.      *)
(***************************************************************************)
RefusedDecision(v, continuation) ==
    /\ MayDecide(v)
    /\ ration' = AfterValidate(ration, v \in Emergency, continuation)
    /\ UNCHANGED <<plant, loop, accounts, events>>

\* Mutant: every instalment has the whole budget.
SafeInstalment(v, asked) ==
    Lesser(Lesser(asked, MaxExtension),
           Lesser(MaxTotalGreen, GroupMaxGreen) - reading.spent - reading.left)

\* The ceilings of _validate_green_extension, on an asked extension.
SafeExtension(v, asked) ==
    LET budget  == IF Continues(v) THEN MaxExtension - events[v].granted
                                   ELSE MaxExtension
        ceiling == Lesser(MaxTotalGreen, GroupMaxGreen)
    IN  Lesser(Lesser(asked, budget), ceiling - reading.spent - reading.left)

\* Events.register_applied: opens an event, or adds to the one of this phase.
RegisterEvent(v, granted) ==
    IF ~EventLifecycleEnabled THEN events
    ELSE IF Continues(v) THEN [events EXCEPT ![v].granted = @ + granted]
    ELSE [events EXCEPT ![v] = [phase        |-> reading.phase,
                                originalLeft |-> reading.left,
                                granted      |-> granted]]

\* The bounds of the model: none of the three is bounded by the code.
WithinCaps(added, account) ==
    /\ ration.count < CountCap
    /\ ration.debt + added <= DebtCap
    /\ account + added <= AccountCap

\* A command reaches the signal, or TraCI raises and the phase stays as it was;
\* both mark the intervention as applied.
SendsDuration(duration) ==
    /\ \E outcome \in CommandOutcomes :
           left' = IF outcome = "applied" THEN duration ELSE left
    /\ intervened' = TRUE /\ commanded' = TRUE
    /\ UNCHANGED <<phase, spent, reading, cleared, stage, pending>>

ClassOf(v) == IF v \in Emergency THEN "emergency" ELSE "ordinary"

GreenExtension(v, asked) ==
    LET granted == SafeExtension(v, asked) IN
    /\ MayDecide(v)
    /\ "green_extension" \in AllowedActions
    /\ reading.phase = TargetPhase[v]
    /\ reading.left # Unread /\ reading.spent # Unread
    /\ Admits(ration, v \in Emergency, Continues(v))
    /\ granted > 0
    /\ WithinCaps(granted, accounts.reclaim[reading.phase])
    /\ SendsDuration(reading.left + granted)
    /\ ration' = MarkApplied(AfterValidate(ration, v \in Emergency, Continues(v)),
                             Continues(v), granted)
    /\ accounts' = RegisterGreenExtension(accounts, reading.phase, granted)
    /\ events' = RegisterEvent(v, granted)
    /\ served' = ClassOf(v)

\* phase_sequence_clearance_problem: an intergreen phase lies between the two.
ClearanceBetween(current, target) ==
    \E p \in IntergreenPhases :
        (p - current) % PhaseCount < (target - current) % PhaseCount

\* _current_phase_conflict_check, with the non-empty matrix asked for before it.
InConflict(current, target) ==
    /\ current \in GreenPhases
    /\ ConflictsWith[target] # {}
    /\ current \in ConflictsWith[target] \/ target \in ConflictsWith[current]

\* Mutant: the truncated phase may be cut as soon as it starts.
MinGreenIgnored == reading.spent # Unread

MinGreenSatisfied ==
    reading.spent # Unread /\ reading.spent >= Greater(MinGreen, GroupMinGreen)

\* The green removed; the truncated duration itself when it cannot be known.
TruncationDebt(l, to) == IF l = Unread THEN to ELSE AtLeastZero(l - to)

EarlyGreen(v, to) ==
    LET added == TruncationDebt(reading.left, to) IN
    /\ MayDecide(v)
    /\ "early_green" \in AllowedActions
    /\ reading.phase # Unread
    /\ ClearanceBetween(reading.phase, TargetPhase[v])
    /\ InConflict(reading.phase, TargetPhase[v])
    /\ MinGreenSatisfied
    /\ reading.left # Unread => reading.left > to
    /\ Admits(ration, v \in Emergency, FALSE)
    /\ WithinCaps(added, accounts.owed[reading.phase])
    /\ SendsDuration(to)
    /\ ration' = MarkApplied(AfterValidate(ration, v \in Emergency, FALSE), FALSE, added)
    /\ accounts' = RegisterEarlyGreen(accounts, reading.phase, reading.left, to)
    /\ served' = ClassOf(v)
    /\ UNCHANGED events

-----------------------------------------------------------------------------
(* GreenCompensationManager.step.                                           *)

PaysBack ==
    LET grant == Grant(accounts, reading) IN
    /\ grant > 0
    /\ left' = reading.left + grant
    /\ accounts' = [RememberPhase(accounts, reading.phase, FALSE)
                        EXCEPT !.owed[reading.phase] = @ - grant]
    /\ commanded' = TRUE

TakesBack ==
    LET take == Take(accounts, reading) IN
    /\ Grant(accounts, reading) = 0
    /\ take > 0
    /\ left' = reading.left - take
    /\ accounts' = [RememberPhase(accounts, reading.phase, FALSE)
                        EXCEPT !.reclaim[reading.phase] = @ - take]
    /\ commanded' = TRUE

OnlyRemembers ==
    /\ ~intervened /\ EntersPhase(accounts, reading) =>
           Grant(accounts, reading) = 0 /\ Take(accounts, reading) = 0
    /\ accounts' = RememberPhase(accounts, reading.phase, intervened)
    /\ UNCHANGED <<left, commanded>>

CompensationStep ==
    /\ stage = "decide"
    /\ \/ OnlyRemembers
       \/ ~intervened /\ EntersPhase(accounts, reading) /\ (PaysBack \/ TakesBack)
    /\ stage' = "events"
    /\ pending' = {v \in Vehicles : events[v] # NoEvent}
    /\ UNCHANGED <<phase, spent, reading, cleared, intervened, served, ration, events>>

-----------------------------------------------------------------------------
(* PriorityEventManager.step, one iteration of its loop per action.  The    *)
(* dictionary yields the events oldest first; the loop may take them in any *)
(* order here.                                                              *)

Visits(v) == stage = "events" /\ v \in pending /\ pending' = pending \ {v}

LeavesLoop ==
    UNCHANGED <<phase, spent, reading, cleared, stage, intervened, commanded, served>>

\* Mutant: the event is kept for the next time its phase is green.
EventOutlivesItsPhase(v) ==
    /\ Visits(v)
    /\ reading.phase # events[v].phase
    /\ UNCHANGED <<left, books>> /\ LeavesLoop

EventEndsWithItsPhase(v) ==
    /\ Visits(v)
    /\ reading.phase # events[v].phase
    /\ events' = [events EXCEPT ![v] = NoEvent]
    /\ UNCHANGED <<left, ration, accounts>> /\ LeavesLoop

\* Mutant: a signal commanded in this step is not skipped.
ChecksOutUnskipped(v) ==
    /\ reading.phase = events[v].phase
    /\ v \in cleared /\ reading.left # Unread

ChecksOut(v) ==
    /\ reading.phase = events[v].phase
    /\ v \in cleared /\ ~commanded /\ reading.left # Unread

EventGoesOn(v) ==
    /\ Visits(v)
    /\ reading.phase = events[v].phase
    /\ ~ChecksOut(v)
    /\ UNCHANGED <<left, books>> /\ LeavesLoop

\* _terminate_at_checkout: the phase gets back the end it had at the check-in.
CheckOut(v) ==
    LET returned == reading.left - events[v].originalLeft IN
    /\ Visits(v)
    /\ ChecksOut(v)
    /\ events' = [events EXCEPT ![v] = NoEvent]
    /\ IF returned >= 1
       THEN /\ left' = events[v].originalLeft
            /\ ration' = ReturnRecoveryDebt(ration, returned)
            /\ accounts' = ReduceReclaim(accounts, reading.phase, returned)
       ELSE UNCHANGED <<left, ration, accounts>>
    /\ LeavesLoop

-----------------------------------------------------------------------------

Next ==
    \/ SimulationStep
    \/ \E v \in Vehicles :
           \/ \E continuation \in {FALSE, Continues(v)} : RefusedDecision(v, continuation)
           \/ \E asked \in Extensions : GreenExtension(v, asked)
           \/ \E to \in Truncations : EarlyGreen(v, to)
           \/ EventEndsWithItsPhase(v) \/ EventGoesOn(v) \/ CheckOut(v)
    \/ CompensationStep

Spec == Init /\ [][Next]_vars

\* The loop of the controller runs: it never stops between two passes.
Fairness ==
    /\ WF_vars(SimulationStep)
    /\ WF_vars(CompensationStep)
    /\ WF_vars(\E v \in Vehicles :
                   EventEndsWithItsPhase(v) \/ EventGoesOn(v) \/ CheckOut(v))

FairSpec == Spec /\ Fairness
-----------------------------------------------------------------------------
(* Safety.                                                                  *)

\* No sequence of extensions, paybacks and check-outs keeps a phase longer
\* than max_total_green_s, or than its plan where the plan is longer.
TotalGreenBound == spent + left <= Greater(PlanDuration[phase], MaxTotalGreen)

\* No sequence of truncations, reclaims and check-outs ends a green before
\* min_green_s, or before its plan where the plan is shorter.
MinGreenKept ==
    phase \in GreenPhases => spent + left >= Lesser(PlanDuration[phase], MinGreen)

\* Whatever is owed and reclaimed, a phase that is not a green of the
\* contract (yellow, all-red) runs exactly as planned.
IntergreenUntouched ==
    phase \notin GreenPhases => spent + left = PlanDuration[phase]

(***************************************************************************)
(* What makes those three hold at the next step too: the remaining time    *)
(* that was read, and the end every open event would restore, keep them as *)
(* well; an event outlives its phase only until the loop visits it; and    *)
(* nothing is booked on a phase that is not a green of the contract.       *)
(***************************************************************************)
WithinPlan(p, s, l) ==
    /\ s + l <= Greater(PlanDuration[p], MaxTotalGreen)
    /\ p \in GreenPhases => s + l >= Lesser(PlanDuration[p], MinGreen)
    /\ p \notin GreenPhases => s + l = PlanDuration[p]

ReadingOfThisStep ==
    /\ reading.phase \in {phase, Unread} /\ reading.spent \in {spent, Unread}
    /\ reading.left # Unread => WithinPlan(phase, spent, reading.left)
    /\ "switch" \notin ReadFaults => reading.left # Unread

EventsRestorePlan ==
    \A v \in Vehicles : events[v] # NoEvent =>
        /\ events[v].phase \in GreenPhases
        /\ events[v].phase = phase => WithinPlan(phase, spent, events[v].originalLeft)
        /\ stage = "events" /\ v \notin pending => events[v].phase = phase

OnlyGreensBooked ==
    \A p \in Phases \ GreenPhases : accounts.owed[p] = 0 /\ accounts.reclaim[p] = 0

PlanInv ==
    /\ WithinPlan(phase, spent, left)
    /\ ReadingOfThisStep
    /\ EventsRestorePlan
    /\ OnlyGreensBooked

\* The instalments of one priority event share the budget of one extension;
\* without emergencies, whose events may overlap, they and one payback are all
\* that keeps the phase green past the end fixed at the check-in.
EventBudgetKept ==
    \A v \in Vehicles : events[v] # NoEvent =>
        /\ events[v].granted <= MaxExtension
        /\ Emergency = {} /\ events[v].phase = phase =>
               left <= events[v].originalLeft + events[v].granted + MaxPerCycle

InStep == ~(stage = "events" /\ stage' = "decide")

\* A command is computed from the remaining time the signal still has, not
\* from one that an earlier command of the same step has replaced.
CommandsActOnFreshReading ==
    [][InStep /\ left' # left => reading.left \in {left, Unread}]_vars

\* What the accounts promise the cycle is what the commands did to it: a
\* command that lengthens the phase is reclaimed or was owed by as much, and
\* one that shortens it is owed or was reclaimed by as much.
Displacement(a) == a.reclaim[phase] - a.owed[phase]

DisplacementAccounted ==
    [][InStep => left' - left = Displacement(accounts') - Displacement(accounts)]_vars

-----------------------------------------------------------------------------
(* The budget of an intervention, in the view of the traffic that crosses.  *)

Budget == INSTANCE PriorityBudget WITH
    Window  <- ResetWindow,
    MaxDebt <- MaxRecoveryDebt,
    idle    <- ration.since,
    used    <- IF ration.since >= ResetWindow THEN 0 ELSE ration.count,
    owing   <- DebtNow(ration)

\* The lazily updated counters of the Safety Layer never let an ordinary vehicle
\* through that the budget, kept up to date at every moment, forbids, however
\* many emergency vehicles have passed the limits by in the meantime.
BudgetKept == Budget!Spec

-----------------------------------------------------------------------------
(* Liveness.                                                                *)

\* When interventions stop, everything they displaced is settled for good: no
\* phase stays owed a green or has one to give back.
AccountsSettled ==
    <>[](~intervened) =>
        <>[](\A p \in Phases : accounts.owed[p] = 0 /\ accounts.reclaim[p] = 0)

\* Without emergencies, the cooldown, the counter, the debt and the
\* instalments of open events never lock ordinary priority out for good.
PriorityComesBack == Emergency = {} => []<>Admits(ration, FALSE, FALSE)

\* Every event that is opened is closed, checked out or not.
EventsClose == \A v \in Vehicles : []<>(events[v] = NoEvent)
=============================================================================
