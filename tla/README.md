# TLA+ models of the PPS57 transit signal priority project

This directory holds TLA+ specifications, TLC configurations and TLAPS proofs
about the Python program under `src/`: a controller that gives buses and
emergency vehicles priority at SUMO-simulated traffic lights, the C-ITS messages
through which they ask for it, the policy it learns from its own logs, and the
tools that build its scenarios and judge its simulations. `PROJECT.json` maps
every definition to the lines it models, and lists the components, the runs, the
mutants that show each property can fail, the findings, the hazards and the
theorems.

## 1. The system

One pass of `TSPControlController.run_with_sumo` (`pps57_tsp/controller.py:236`)
is the heartbeat of a simulation. It is single-threaded and runs once per step:

1. SUMO advances one step; the broker's clock advances and delivers what is due.
2. The state of every signal is read once (`TraciAdapter.read_signal_state`), and
   a snapshot of its lanes (`read_network_state`).
3. Vehicles are observed. The request store clears and expires entries; the
   on-board units build cancellations, then requests; the store ingests them
   directly; the broker publishes them.
4. Each road-side unit handles its queue and answers PROCESSING or a rejection.
5. Each PROCESSING answer is matched to its request, classified by the engine,
   perhaps overruled by a learned rule, validated by the corridor arbiter, the
   Safety Layer and the simulated controller, actuated, booked and answered
   finally. The order over all signals is that of `_response_priority_sort_key`.
6. Green compensation pays back on phase entry; open priority events end, check
   out or go on.

Around it, `run_sumo_scenario.py` turns a scenario into SUMO files
(`scenarios.py`, `generate_plain_corridor.py`, `apply_tls_offsets.py`), runs every
arm with every seed, in worker processes if asked to, and judges the results;
`pps57_opt` reads the logs and writes the rules of the next run.

The difficulty is seldom concurrency of threads. It is that many small stateful
parts act on one signal in one pass from one reading, remember things by time
stamp, and are brought up to date lazily; that what passes between vehicle and
signal may be lost, late, doubled or overtaken; that the same judgement is made
in two places which must agree; and that files written by one tool are trusted by
the next.

| Component | State | Operations | Hard behaviour | What makes it correct |
|---|---|---|---|---|
| Safety Layer (`safety.py`) | last intervention, consecutive count, recovery debt per signal | `validate`, `mark_applied`, `return_recovery_debt` | counters updated only when read; instalments of an event exempt from some checks, emergencies from others; missing readings | bounds of greens and clearances hold whatever is proposed; rationing is what it would be if kept up to date |
| Green compensation (`compensation.py`) | green owed and to be reclaimed per phase, last phase seen | `register_applied`, `reduce_reclaim`, `step` | phase entry detected from memory that other commands leave stale | nothing is paid on a clearance, twice, or past a bound; everything is eventually settled |
| Priority events (`events.py`) | open events with their original end and budget | `register_applied`, `step` | several events on one phase; check-out restores an end fixed long before | an event keeps to its budget and ends; its check-out stays in the plan |
| Actuator (`actuator.py`) | none | `apply` | TraCI raises half way | an error is booked as an intervention, not as a grant |
| Control loop (`controller.py`) | the pass itself, signals that have intervened | the order above | one reading, several commands, several signals | one intervention per signal and pass, emergencies first |
| Corridor arbiter (`corridor_arbiter.py`) | none | `arbitrate` | reads other signals' debts, which may be stale | the corridor as a whole keeps to its cap |
| Controller contract, simulated controller (`signal_control.py`) | contract, verification; pending command, last command | build, binding, reconcile, verify; `validate_actuation` | programs change under it; clearance between phases | a green only after its foes are red |
| Decision engine, planner (`engine.py`, `action_planner.py`) | none | `decide` | readings missing; checks repeated elsewhere | an emergency is held by nothing but safety; what begins a hold suffices |
| Learned policy (`pps57_opt/policy_runtime.py`, `event_dataset.py`, `optimizer.py`, `rl_trainer.py`, `state.py`) | rules; value table | log, load, optimise or train, export, `apply` | off-line judgement of what the Safety Layer did on line | a rule is an action that was safe in its situation |
| Request store (`request_store.py`) | entry per vehicle and signal | `ingest_requests`, `mark_granted`, `update_from_observations`, `expire_old` | a cancellation is ingested like a request; a cleared entry reopens | closed when the vehicle has passed; the latest message is the one acted on |
| OBU (`pps57_cits/obu.py`, `schedule_plan.py`) | request and sequence counters, request in progress, time of the last | `generate_requests` | counters are forgotten after a retention time | no counter is reused while somebody remembers it |
| RSU (`pps57_cits/rsu.py`) | replay cache, last sequence numbers, quota, last grants | `handle_messages`, `mark_priority_granted` | duplicates, reordering, expiry, full quota, cooldown | forwards a request at most once, in order, never after its cancellation; judges as the sender did |
| Broker (`pps57_cits/broker.py`) | pending deliveries, queues | `publish`, `advance_time`, `consume` | loss, latency, jitter, duplication, reordering | delivers in order of due time |
| TraCI adapter (`traci_adapter.py`) | none | readings of vehicles, signals, lanes | each read fails on its own | the queue is counted once and of standing vehicles |
| Lifecycle and audit (`lifecycle.py`, `audit.py`) | replay of a message log | fold over messages | episodes that share a key | accepts every log the agents write |
| Network profile, binding, offsets (`network_profile.py`, `network_binding.py`, `build_network.py`, `apply_tls_offsets.py`) | network and overrides files | build, apply, reapply | phases inserted, carved out, stripped | the overridden program verifies, nobody loses green |
| Scenario tools (`scenarios.py`, `generate_plain_corridor.py`) | configuration | apply a profile, materialise, generate | inheritance chains, rings, random draws per seed | routes connect; replications are independent; the summary tells what the file holds |
| Campaign (`run_sumo_scenario.py`, `stats.py`) | suite summary, worker pool | run, retry, judge, merge, exit | completion order, retries, kill while writing, stale files | a pass is earned; a pool gives what a serial run gives; stored verdicts survive |
| Output parsing (`parse_tripinfo.py`, `parse_insertion.py`, `detector_kpis.py`) | none | parse | absent, broken, partial files | absence is not zero |

The C-ITS emulation controller, configuration loading and the dashboard are not
modelled; `PROJECT.json` gives the reason for each.

## 2. Modules

Four groups, each with its machine (a module with `VARIABLES`), the operators it
is built from, and an `MC` module of constants. Operators are modules of their
own where two machines use them, or where the code has a module of its own.

| Machine | Operators | Models |
|---|---|---|
| `PrioritySignal` | `Seconds`, `Rationing`, `GreenCompensation`, `PriorityBudget` (abstract) | one signal under steps 1, 2, 5 and 6 of the pass, and how its rationing implements the abstract one |
| `CorridorControl` | `Rationing` | several signals in one pass: order, arbiter, simulated controller |
| `SignalPrograms` | `NetworkProfile`, `ControllerContract`, `TlsOffsets` | the life of a signal program and of the contract made of it |
| `BusApproach` | `SignalView`, `DecisionEngine`, `SafetyChecks`, `RuntimePolicy`, `Rationing` | one vehicle, one signal, second by second: engine, policy, Safety Layer |
| `PolicyLearning` | those of `BusApproach` | the log, the two ways of training, the next vehicle |
| `PriorityRequests` | `RequestMessages`, `RequestStore`, `RoadSideUnit` | OBUs, lossy transport, RSU, store and grants at one signal |
| `Journey` | `VehicleView`, `OnBoardUnit`, `ProtocolAudit` | one vehicle past several signals: readings, messages, the complete judgement of the gateway, audit |
| `ScenarioBuild` | `CorridorNetwork`, `DemandProfiles` | how a scenario becomes SUMO inputs |
| `Campaign` | `SumoOutputs`, `CampaignVerdicts` | how simulations are run and judged |

The theorems are in `PrioritySignalProofs`, `CorridorControlProofs`,
`PolicyLearningProofs`, `PriorityRequestsProofs`, `SignalProgramsProofs`,
`JourneyProofs` and `CampaignProofs`, each over the machine it is named after;
`PolicyLearningProofs` has those of `BusApproach` too, whose actions are steps of
`PolicyLearning`.
`DataInduction` holds the lemmas they share: induction over numbers and finite
sets with the statement given as a set, and the sums and unions that the machines
form with the folds of the community modules.

### PrioritySignal

`phase`, `spent`, `left` are the program SUMO runs: the phase, the seconds it
has run and those it has left. `reading` is the `SignalState` read at the start
of the pass, any part of which may be `Unread`. `ration`, `accounts` and
`events` are the dictionaries of the Safety Layer, the compensation and the event
manager at one signal. `served` is history: the class of the vehicle that
intervened in this step. `stage`, `pending`, `intervened`, `commanded` and `cleared`
are where the pass is, which events it has still to visit, and the two sets of
signals skipped.

| Action | Code |
|---|---|
| `SimulationStep` | `simulation_step`, `read_signal_state`, `update_from_observations` |
| `RefusedDecision` | every path of `validate` that ends in a block, or a command the actuator does not send |
| `GreenExtension` | `_validate_green_extension`, `apply`, the three registrations |
| `EarlyGreen` | `_validate_early_green`, `apply`, the three registrations |
| `CompensationStep` | `GreenCompensationManager.step`: payback, reclaim, or memory only |
| `EventEndsWithItsPhase`, `ChecksOut`, `EventGoesOn` (`CheckOut`) | one turn of the loop of `PriorityEventManager.step` |

Proposals are arbitrary here: the engine, the learned policy and the arbiter can
only choose which vehicle asks for how much, and the Safety Layer must hold for
every choice. Times are ages or remaining times, not clocks, so that the state
space is finite; each age stops one past the largest limit it is compared with.

### CorridorControl

`rations` are the counters of the Safety Layer per signal, `screen` the seconds
since the simulated controller accepted a command, `extended` the requests whose
vehicle has an event open, `network` and `eta` what this pass read, `verdict` what it
made of each request so far. `Serve(r)` is one turn of
`_process_acknowledged_requests`: `Supersede` (the signal has intervened), `Defer`
(`arbitrate`), `Block` (`validate`), `Refuse` (`validate_actuation`), `Intervene`
(`apply` and the bookings; an error counts as an intervention). `CheckOut` gives a
part of the debt back at the end of a pass. `NewPass` reads everything again. The
debts the arbiter sums are those stored, not those brought up to date. Which checks
of an action fail is left open, and with them the phases: an intervention for a
vehicle with an open event may continue it or be a first one (`MayContinue`), may be
the extension that opens an event (`OpensEvent`), and an event may end with any pass.
What really happens is in `PrioritySignal`.

### SignalPrograms

Files (`net`, `overrides`, `applied`) survive a session; `running`, `contract` and
`problems` live in one. `Rebuild` is `build_tls_offsets` and netconvert,
`ApplyOffsets` is `apply_phase_program` and may be run again on its own result,
`StartSession` builds the contract, gives it the conflicts of the network,
reconciles it with what TraCI reports and verifies it; `SwitchProgram` lets SUMO
run another program with the contract left as it was. Phases are numbered from 1.
`Foes` is the table of the junctions (netconvert, external); link sets stand for
the lane and edge names.

### BusApproach and PolicyLearning

`Proposal` is what `decide` makes of a request, one reading of its signal and one
of the network, overruled by a rule where `apply` may overrule it. `Intervene` and
`LeaveAlone` are one turn of the loop, `Drive` the next second, `Cross` the end. In
contrast to `PrioritySignal` the proposal is computed, with every threshold of the
decision policy; scores are exact numerators where the code rounds to four
decimals. `covered` is history: a hold was begun that one event's budget suffices
for, and since then nothing was unreadable.

`PolicyLearning` runs a logged vehicle (`Serve`, `Pass`), reads the log
(`LoadLog`: `event_dataset.py` evaluates each candidate action as the Safety Layer
would; a cut of a phase about to switch becomes a candidate that waits, `SafeDecision`),
then `Optimize` (`optimizer.py`) or `NextEpisode`, `Sample` and
`ExportRules` (`rl_trainer.py`, in any order of scenarios and with any action the
exploration may draw), and lets the next vehicle drive under the exported rules.

### PriorityRequests

`obu`, `store` and `rsu` are the states of the on-board units, the store and the
road-side unit; `wire` the messages in transit, in order of publication, each
with its remaining wait; `batch` the keys seen in this call of
`handle_messages`; `answers` the PROCESSING responses not yet decided; `acted`
whether the signal has intervened in this pass. `sent` and `past` are history.
`even` is the parity of the pass and only makes an uneventful pass a step, so that
fairness cannot force an event.

| Action | Code |
|---|---|
| `Tick` (`Pass`) | start of a pass: `advance_time`, `update_from_observations`, `generate_requests`, `ingest_requests`, `expire_old`, `publish`; the prunings at the head of `handle_messages` |
| `Handle` | one message in `handle_messages`: evaluation, `_remember_request`, `_track_processing_request` |
| `Decide` | one response in `_process_acknowledged_requests`, its outcome an open choice |

Where a vehicle is changes freely from pass to pass, and so does whether it is
entitled to ask: this covers every route and every estimate of arrival. A unit
says at most one thing in a pass about its one signal; the broker publishes it
with the delay drawn for it, twice where it duplicates it, not at all where it
loses it.

### Journey

The same pass with the choice taken out. `look` is what there is to read (place,
speed, waiting times, neighbours, which read fails), `seen` the observation the
adapter makes of it, `obu` the unit's state, `rsu` one road-side unit per
signal, `chains` what the audit makes of the log so far. `Tick` observes, lets the
unit speak and logs; `Handle` is `_evaluate_request` with every check in its
order; `Decide` any outcome of the decision. The transport is the default one,
which delivers within the pass; loss and delay are in `PriorityRequests`.

### ScenarioBuild

`Init` takes any base configuration and any draw per seed; `Apply` or `Refuse` is
`apply_scenario` with its validation; `BuildLeaf` materialises the incidents of
one seed and generates network and traffic. `CorridorNetwork` is the plain network
with its routes, by junctions with or without a ring; `DemandProfiles` the
derivation of profiles and the departures emitted from them. Random generators
are functions of the seed, chosen freely. Departures are counted in tenths of a
second (`Ticks`), so that the jitter may be a fraction of one.

### Campaign

`Start` begins one of the invocations; `Launch`, `Finish`, `Retry`, `GiveUp`,
`Fails` are the leaves, in a pool or in the process itself; `Judge` makes the
summary of a scenario; `OpenSuite` and `WriteSuite` are the two halves of
`write_text`; `Close` ends without writing. `Killed` may strike at any point,
between the halves too, and `MakeRun` leaves files in the global output
directory. `SumoOutputs` parses, `CampaignVerdicts` judges.

## 3. Runs

What the control depends on is the order of its limits (which is reached first),
and the small instances keep that order. Deadlock is checked except in
`BusApproach` (the vehicle has passed), `Campaign` (the invocations are used up)
and `Scenario` (all leaves are built), which really end.

| Run | Distinct states | Instance | What it shows |
|---|---|---|---|
| `SignalOrdinary` | 1 298 080 | bus and tram on conflicting greens, readings intact | green and clearance bounds, event budget, one command from one reading |
| `SignalEmergency` | 2 669 977 | bus and ambulance on one green, TraCI errors, readings with parts missing | the inductive `PlanInv`, and that the lazy rationing of the bus implements `PriorityBudget`, whatever the ambulance takes |
| `SignalExtensions` | 1 098 851 | extensions only, every read fault | what the accounts say the cycle was displaced is what the commands displaced it |
| `SignalLive` | 340 514 | as the first, tighter, with fairness | accounts are settled once interventions stop, events close, priority comes back |
| `RequestsOneVehicle` | 213 232 | one bus, four messages, loss, two copies, delays 0 to 2 | order, cancellation, no mistaken replay, only the latest message acted on, quota given back, the store closes |
| `RefreshAfterGrant` | (violation) | one bus, perfect transport | section 6 |
| `SignalPrograms` | 7 813 | a junction with left and right turn, cross street and two crossings; the timings the build accepts, two compiled programs, six replacements | overrides balance, overridden programs verify, green only after red |
| `Corridor` | 466 827 | two signals, two buses, two emergency vehicles; instalments and check-outs; cap 4 | emergencies first, the corridor's cap |
| `BusApproach` | 522 474 | seven vehicles on a four-phase signal, given, passive or learned rules, lost remaining time | what the engine begins suffices, nothing but safety holds an emergency, proposals agree with the checks, rules come from safe actions |
| `Journey` | 114 995 | five kinds of vehicle, two signals, an uncontrolled junction, the first signal again; nine readings | sender and gateway agree, the request follows the vehicle, the faults of the audit are known, the queue is known |
| `Campaign` | 600 592 | two invocations of four, two scenarios, two seeds, two attempts | verdicts are earned, a pool is as good as a serial run, stored verdicts survive |
| `Scenario` | 1 640 | 19 configurations, four draws for two seeds | routes, places, derived demand, replications, summary |

**Signal.** Four phases: two conflicting greens of 5 s, each followed by an
intergreen of 1 s. `MinGreen` 2, `MaxTotalGreen` 8, extensions 1 or 3 of at most
3, truncation to 1 or 2, payback of at most 1 per cycle. `Cooldown` 9 is most of
a cycle, so that a second intervention may fall in the same green or the next
one; `MaxConsecutive` 2 and `MaxRecoveryDebt` 3 or 4 are reached. `CountCap`,
`DebtCap` and `AccountCap` bound what could pile up without limit; they are in
the guards of the intervening actions (`WithinCaps`) and nowhere else.

**Corridor.** `Cooldown` 2, `MaxRecoveryDebt` 4, displacements of 3, cap 4: the cap
is reached by two signals, none of which is at its own limit, and by instalments at
one signal, which wait for no cooldown. A check-out gives 1 back. `CountsCap` 2 is the
bound of the model on interventions counted. Two emergency vehicles want one
signal, and the hierarchy ranks them last, so the order rests on the key alone; they
differ in nothing else, which the symmetry of the run uses. A controller accepts a
command every other second, so that commands are refused.

**Requests.** `RequestTTL` 3, certificate of a cancellation 1, `DedupeTTL` 3,
`StoreTTL` 3, `Retention` 6, `Refresh` 1: a cancellation can expire in transit, an
update can overtake a request, a vehicle can be forgotten and return. `MessageCap`
bounds requests per vehicle; three suffice to ask, cancel and ask again, and a
cancellation may follow the last. `MaxRequestId` 2 makes identifiers start again;
`SequenceModulus` is the real 65536, which no run wraps.

**SignalPrograms.** Seconds at their real scale for yellow and all-red, greens
shortened. The compiled programs are those netconvert writes with and without
walking phases, with the clearance of the crossings where the code has to merge
or strip it. Replacements are a staged turn, an early right turn, a program
without all-red, one that never serves the turn, an adaptive one and one that
cannot be read. The pedestrians may be given no time at all, which the build refuses
only where their clearance is taken from it.

**BusApproach.** Thresholds of the shipped policy at about a third; the eta is at
most 8 s, which covers the whole range in which the engine acts on a 6 s green.
`LogCap` 2 rows and `Episodes` 2 let one bucket see two scenarios with different
verdicts, and the table be updated twice.

**Journey.** A pass is 15 s here, so that one vehicle gets round the route within
the memories of the road-side units; `RequestCap` 3. The readings are chosen at
the edges of the rules: halted and creeping queues, a detector that fails, a
vehicle inside a junction, at a stop, beyond the reach of a request.

**Campaign.** Thresholds are those of the code where they are relative (a tenth,
30 vehicles). A simulation leaves one of two to four outcomes: clean, close to the
waiting limit, within a tenth of the baseline, without telemetry, without buses,
with broken statistics. `MaxInvocations` 2 suffices for a partial run over an
earlier suite, killed or not; `MaxAttempts` is 2 instead of 3.

**Scenario.** Corridors of one to four junctions with no, one and two adjacent
rings; a chain of three derived profiles; seven accepted configurations (three
cannot be generated), one that depends on the draw, and the rest refused, each for
another reason. Jitters of up to a second and a half are drawn in tenths; one service has a
headway of 3 s and a jitter of 1.4 s, so that two of its buses may depart in the same
second. Edges are of 15 to 40 m, where the detectors are pushed back to their bounds,
and in one configuration of 100 m, where they find their usual place.

### Fairness

`PrioritySignal` asks weak fairness of the steps of the pass that the loop always
takes (`SimulationStep`, `CompensationStep`, the visit of each event), never of
decisions. `PriorityRequests` asks weak fairness of `Next`. The justification is
the same: `while adapter.min_expected_number() > 0` runs every pass to its end
and the next follows, as long as there are vehicles. Neither makes a vehicle
ask, a message arrive or a command land.

- `AccountsSettled`: if interventions stop for good, every account goes to zero.
  Without that premise new debts could be booked for ever.
- `PriorityComesBack`: without emergency vehicles, an ordinary first intervention
  is admitted again and again.
- `EventsClose`: no event stays open for ever.
- `StoreCloses`: once no on-board unit holds a request, no store entry is open.

The other machines claim no liveness: a campaign can be killed, a scenario is
built when somebody builds it, and `BusApproach` ends with the vehicle.

### What the properties of the newer modules mean

- `OverridesBalance`: the program on disk has the cycle of the scenario however
  often the overrides were applied, and no vehicle movement lost its green.
  `OverriddenProgramsVerify`: a scenario that gives both all-red times their
  minimum yields a program that the control loop verifies without a problem;
  two tools, one judgement.
- `GreenOnlyAfterFoesAreRed`: on a program that passed the verification, a link
  turns green only after its foes are red, unless they stay green beside it (a
  permissive turn). The verification looks at phases and
  groups; the property looks at links and at what SUMO does.
- `CorridorDebtBounded`: the arbiter reads stored debts, several signals act in one
  pass, and still the sum never passes the cap by more than one intervention.
- `FeasibleBusPasses`: instalments, their budget, the cooldown they are exempt
  from, the maximum green and the estimate add up to a green at the stop line. This
  is a property of the engine and the Safety Layer, given a request in every second.
  In the whole program the road-side unit's cooldown rejects the refreshes after a
  grant (`RefreshAfterGrant`, section 6), so that later instalments may never be
  proposed and a vehicle that could be served is not.
- `EmergencyHeldOnlyBySafety`, `TruncationsProposedAreSafe`: the engine's own checks
  agree with those of the Safety Layer, in the direction that matters for each.
- `SenderAndGatewayAgree`: a message of an authorised unit is never refused on the
  ground of its content; `RequestFollowsTheVehicle`: no signal holds a slot for a
  vehicle that is elsewhere.
- `AuditFaultsKnown`: the replay explains what the agents log, across episodes that
  share a key, but for one transition it reports wrongly: from the cancellation of a
  forgotten episode to the refusal of the request still open (section 6). A replay
  that opened no settled chain again would report others.
- `QueueKnown`: what the engine subtracts from the arrival time is what the adapter
  had added, and the queue it is told of is standing.
- `VerdictsEarned`, `PoolAsSerial`, `StoredVerdictsKept`: see the comments in
  `Campaign`.
- `RoutesSound`: routes connect through the rings and make all twelve movements of
  every junction, as the docstring of the generator says.
- `LeavesSound`: both arms of a replication meet the same traffic, whatever was
  built before, and the summary says what the route file holds. Each bus has an
  identifier of its own where the jitter leaves a whole second between any two
  departures of a line and direction; the code names a bus by the whole seconds of
  its departure, so without that premise two buses may share one (section 6).

## 4. Abstract specification and refinement

`PriorityBudget` states what cross traffic is promised: after an intervention a
rest of `Cooldown` before the next ordinary one; at most `MaxConsecutive` of them
without a longer rest of `Window`; none while the debt is at its limit. It keeps
all three up to date at every second. The code does not: it stores time stamps,
and resets the counter and pays the debt back only when a decision reaches the
line that reads them (`safety.py:511`, `:544`). `PrioritySignal` maps one to
the other, with the counter as it would be after a reset and the debt as it would
be after recovery, and `BudgetKept` is `Budget!Spec` under that mapping. Emergency
vehicles are exempt, and what they take is counted all the same. `served` says who
intervened in a step, so that only a step that serves an emergency vehicle may be
the abstract `Preempt`: a bus that ignored one of the three limits would break the
refinement although an ambulance is about. The run `SignalEmergency` checks it and
`BudgetNeverBroken` proves it.

`PoolAsSerial` and `SenderAndGatewayAgree` are the same idea on a smaller scale:
the pooled campaign against the serial one, the complete judgement of the gateway
against the part of it that depends on its memory (`RoadSideUnit`, which
`PriorityRequests` uses; so what is shown there for arbitrary messages is shown
of the real gateway).

## 5. What is proved

`tlapm` proves the following for every value of the constants. TLC evaluates the
named assumptions on every run:

| Assumption | What it says, and why the code justifies it |
|---|---|
| `RationingAssumption`, `CompensationAssumption`, `SignalAssumption`, `CorridorAssumption`, `RequestsAssumption`, `UnitAssumption`, `EtaAssumption`, `QueueAssumption`, `LooksAssumption`, `NetworkAssumption`, `ContractAssumption` | the types of the constants, what is finite (vehicles, signals, links, lanes), that a speed by which is divided is positive, and that a queue counts no vehicle that is faster than what SUMO calls halting |
| `EngineAssumption`, `ApproachAssumption`, `LearningAssumption` | the thresholds of the policy and the numbers of requests, readings and rewards are numbers; the spacing of a jam is positive; every lane belongs to an edge; what is logged is among the vehicles and readings to come; the candidate actions are among the five the code knows |
| `LimitsAssumption` | the Safety Layer's limits are numbers, and its minimum green is that of the engine: both read `safety_constraints.min_green_s` (`engine.py:535`, `safety.py:419`) |
| `HierarchyAssumption` | the levels of `priority_hierarchy` are numbered from 1 |
| `CancellationAssumption` | the certificate of a cancellation is valid for some time: 5 s (`_build_cancellation`) |
| `RetentionCoversCaches`, `RetentionAssumption` | an on-board unit forgets a vehicle later than a road-side unit can (`state_retention_s`, and the comment at the pruning) |
| `CachesCoverDelay` | transport is not slower than `dedupe_ttl_s` |
| `NumbersCoverDelay` | 65536 sequence numbers and 255 identifiers, one message a pass, do not come round again while a message is in transit or remembered |
| `CampaignAssumption` | the names of a catalog differ, a scenario asked for has seeds, and none twice, and its arms are the baseline and the candidate, or one of them (`_scenario_run_plan`) |
| `ProgramsAssumption` | netconvert writes a sequence of phases, and a scenario gives times in whole seconds to the roles that `build_tls_offsets` knows and no others (`role_pairs`) |
| `FilesAssumption` | the thresholds that decide a pass are numbers, and so are the losses, counters, waiting times and queues in the files of a simulation, where a file that is missing says nothing |

| Theorem | Statement |
|---|---|
| `TypeCorrect` | `Spec => []TypeOK`: no debt, account or remaining time is ever negative |
| `PlanKept` | `Spec => []PlanInv`, under `NoBlindTruncation` |
| `TotalGreenNeverExceeded`, `MinGreenNeverCut`, `IntergreenNeverTouched` | `Spec => []TotalGreenBound`, `[]MinGreenKept`, `[]IntergreenUntouched`, likewise |
| `BudgetNeverBroken` | `Spec => BudgetKept` |
| `LoopKept` | `Spec => []LoopInv`, under `CooldownOutlastsGreen`, `NoEmergencies`, `NoBlindTruncation` |
| `CommandsNeverActOnStaleReadings` | `Spec => CommandsActOnFreshReading`, likewise |
| `EventBudgetNeverExceeded` | `Spec => []EventBudgetKept`, under `CooldownOutlastsGreen`, `NoBlindTruncation` |
| `AccountsTellTheDisplacement` | `Spec => DisplacementAccounted`, under `ExtensionsAlone`, `CooldownOutlastsGreen`, `NoEmergencies` |
| `EmergencyYieldsToEmergency` | `Spec => []EmergencySuperseded`, for any number of signals and requests |
| `CorridorOwesNoMore` | `Spec => []CorridorDebtBounded`, for any finite set of signals, any instalments and any check-outs |
| `RulesAreSafe` | `LearnSpec => RulesComeFromSafeActions`, under `SomethingIsHarmless` |
| `EmergencyIsHeldOnlyBySafety` | `LearnSpec => []EmergencyHeldOnlyBySafety`, under `SomethingIsHarmless`, `DefaultPolicy`, `ProtectedGreens`, `GivenRulesExtendGreens` |
| `ProposedTruncationsAreSafe` | `LearnSpec => []TruncationsProposedAreSafe`, under `MayBeGivenGreen`, `OthersConflict`, `GreensAndTransitions` |
| `HeldVehiclesPass` | `LearnSpec => []FeasibleBusPasses`, under `SomethingIsHarmless`, `InstalmentsAreOn`, `DebtsArePaidInTime`, `ProtectedGreens`, `GreensDoNotConflict`, `GivenRulesCutReds` |
| `MessagesKeepTheirPlaces` | `Spec => []IInv` of `PriorityRequests`, for any vehicles, delays and lifetimes |
| `MessagesAreForwardedInOrder`, `CancellationsAreFinal`, `FirstCopiesAreHeard`, `QuotaIsHeldByOpenRequests`, `OnlyTheLatestLeadsToAnIntervention` | the five invariants the run `RequestsOneVehicle` checks |
| `VerifiedGreenFollowsRed` | `Spec /\ []ProgramsWellPhased => GreenOnlyAfterFoesAreRed`, if `MinAllRed > 0`, for any network |
| `OverridesAlwaysBalance` | `Spec => []OverridesBalance`, under `CorridorPrograms` |
| `OverriddenAlwaysVerify` | `Spec => []OverriddenProgramsVerify`, under `VerifiablePrograms` |
| `ApplyingAgainChangesNothing` | `Spec => []NetInv /\ [][applied /\ ApplyOffsets => net' = net]_vars`, for any programs and scenarios |
| `QueueIsKnown`, `GatewayAgreesWithSender`, `SlotsFollowTheVehicle` | `Spec => []QueueKnown`, `[]SenderAndGatewayAgree`, `[]RequestFollowsTheVehicle`, for any route and any readings |
| `ReplayFaultsKnown` | `Spec => []AuditFaultsKnown`, under `ShortJourney` |
| `VerdictsOfOthersKept` | `Spec => StoredVerdictsKept`, for any catalog, seeds, invocations and files |
| `PoolsAreSerial` | `Spec => []PoolAsSerial`, under `PortsSuffice` |
| `VerdictsAreEarned` | `Spec => []VerdictsEarned`, for any thresholds, any files and any number of seeds |

**Hypotheses that are observations.** Where a theorem has a hypothesis beyond the
assumptions, the property is false without it in some configuration the code
accepts; section 6 says how to see it. `NoBlindTruncation`: if early greens are
allowed, the remaining time of a phase is always read. `CooldownOutlastsGreen`:
`Cooldown >= MaxTotalGreen`, 90 s against 55 s as configured. `NoEmergencies`: an
emergency vehicle is exempt from the cooldown, so it may open a second event on a
green; the order of two check-outs then matters. `ExtensionsAlone`: no early
green, and no command lost on its way. `MinAllRed > 0`: the verification asks for
nothing between two greens otherwise. `ProgramsWellPhased` is a condition on the
programs SUMO runs, which the verification does not look at: yellow follows green
and lasts one phase, no phase mixes a yellow with a green that others follow, and no
green is interrupted beside one that ends.
`CorridorPrograms` and `VerifiablePrograms` are conditions on what netconvert
compiles and on the scenarios, of what `_apply_phase_program` and
`verify_controller_contracts` do not look at themselves. For the balance: every
vehicle link has its green outside the phases of the pedestrians, and the program,
without the phases the overrides drop, is made of greens and yellows of the two
streets that the overrides time, with one yellow of each. For the verification
also: without a yellow no phase gives a green that the one before did not give, the
scenario gives yellow its minimum, the conflicts of the priority groups could be
read from the network, and none of the programs SUMO may put in its place is the
overridden one. `ASSUME HypothesesHold` in `MCSignalPrograms` has TLC evaluate both
on the instance.
`PortsSuffice`: a port for every leaf and every attempt. `ShortJourney`: the requests of
a vehicle and their cancellations are fewer than the sequence numbers; the audit
compares these as numbers (`audit.py:188`), so a cancellation whose number has
wrapped supersedes nothing.
The approach of a vehicle has more of them, because engine, policy, contract and
Safety Layer are configured separately:

- `SomethingIsHarmless`: one candidate action does not actuate, as in the
  configured list (`no_action`). Were all of them blocked, `_select_candidate`
  would export the first in its blocked form (`optimizer.py:156`).
- `DefaultPolicy`: the defaults `emergency_early_green_min_eta_s = 0` and
  `allow_policy_suppress_baseline_actuation = false`.
- `ProtectedGreens`: every group of the contract has a protected green and no
  fallback to the edge, as the network profile makes them. With a permissive green
  a rule learned from one movement may extend in a bucket where that of another
  vehicle is red.
- `GivenRulesExtendGreens`, `GivenRulesCutReds`: the policies found on disk have the
  shape of those the training exports, an extension only in a green and a cut only
  in a red; the proofs show that the exported ones have it.
- `GreensDoNotConflict`: no conflicting group has its phase while a lane has its
  protected green.
- `MayBeGivenGreen`, `OthersConflict`, `GreensAndTransitions`: early green is allowed for
  the vehicles' groups, a phase that is not a vehicle's own belongs to a group its
  own conflicts with, and other phases than the groups' are over before the
  minimum green. Otherwise the engine proposes what `_validate_sequence` refuses.
- `InstalmentsAreOn`: the event lifecycle is on, an instalment and the arrival buffer
  are at least a second.
- `DebtsArePaidInTime`: the debt allowed is no less than the budget of one event
  (24 s against 12 s as shipped), and a cooldown pays back that budget and the
  longest phase (90 s against 12 s and 55 s).

Each is met by the instance of the run that checks the property, and holds there
with `ProgramsWellPhased` as an invariant.

**The inductive invariant of a signal.** None of the three bounds is inductive. A
check-out sends an end that was fixed at the check-in, so the bound on the current
phase needs that every open event would restore an end within the plan
(`EventsRestorePlan`). Commands are computed from the reading, so it needs that
the reading, where it is not missing, is of this step and of this phase
(`ReadingOfThisStep`) until a command is sent. And the payback is only bounded by
the accounts, so clearance phases stay untouched because nothing is ever owed on
them (`OnlyGreensBooked`). `PlanInv` is the conjunction of these with
`WithinPlan` for the running phase. `TypeCorrect` needs one strengthening of its
own, `PendingOpen`: the events that a pass has still to visit are open. One lemma
per action carries each part; `TypeStep` and `PlanStep` split `Next` over them.

**The invariant of the loop.** Nothing marks a signal that a check-out has
commanded in this step, so a second check-out would compute from a reading that the
first has replaced. `LoopInv` says why that does not happen: one event per green
(`OneEventPerGreen`), because the cooldown outlasts a green and a green that
carries an event is younger than the cooldown of the intervention that opened it
(`EventsAreRecent`); and the reading is the remaining time of the signal until
something is commanded (`ReadingFresh`). The budget of an event needs besides that
what an event was granted is within the budget, that a running phase ends no
later than the end of some event on it plus what that was granted, and one
payback; the payback happens once because the phase memory then holds the phase.
The accounts need that what an event has beyond the end it would restore is there
to be reclaimed (`ReclaimCoversEvents`), so that the account never stops at zero
when a check-out gives green back.

**The refinement.** `BudgetNeverBroken` rests on one fact per operation of
`Rationing`: bringing the counter or the debt up to date is invisible to the
abstract state (`RecoverDebtKeepsDebt`, `ResetCountKeepsDebt`), a second of
waiting is a second of payback (`ElapsePaysBack`), and `mark_applied` is one of
the three abstract interventions, the last of them only for an emergency vehicle.
The window that resets the counter is longer than the cooldown, whatever is
configured (`WindowOutlastsCooldown`), so the counter is never reset early.

**The invariant of a pass.** That an emergency is superseded only by another is not
inductive: it needs that no ordinary request has had its turn while an emergency
waits (`EmergencyFirst`), which the sort key guarantees as long as no ordinary
level ranks 0 (`EmergencyIsFirst`). With the type of the verdicts it is inductive
(`ServeCorridor`, `NewPassCorridor`).

**The debt of the corridor.** The arbiter sums debts that are stored, and only a
validation brings one up to date. Bringing up to date never raises a debt, what is
stored is never less than what is owed, and an intervention comes only below the
cap and adds one displacement, be it a first one or an instalment; a check-out takes
debt away. The sum over a finite set of signals is compared
term by term, by the induction of `DataInduction`.

**What is learned.** A rule is looked up among the cases of its bucket, and the
cases are what `LoadLog` makes of the log, so the invariant (`TrainingInv`) says that
every case has numbers for rewards and a candidate that is not blocked; a maximum
of finitely many rewards exists, its first candidate in the order of the code is
unblocked when any is, and a value in the table is always that of an action that
was safe in some scenario of its bucket. From this follows what the rules at run
time may do to a vehicle: an exported extension comes from a green, an exported cut
from a red (`RulesInv`, `CutsInv`), because a proposal of the other kind would have
been blocked.

**The emergency and the truncation.** Both are properties of one second. Each
compares two copies of the same checks, those of the engine, with its thresholds,
and those of the Safety Layer; the invariants are only that what was read is of
the program (`SituationInv`) and that a transition runs as planned
(`TransitionInv`), without which the engine's remaining time would not be the
Safety Layer's.

**The held green.** `FeasibleBusPasses` is the one that needs a long invariant. The
vehicle is `covered` from the first instalment on, if one budget suffices for it.
`CoverInv` says that it then arrives, with its buffer, before the end of the green
plus what is left of the budget, and before the longest green. To keep this while
the instalments are given one by one, each must be granted in full: the cooldown
exempts an open event, and the debt does not stand in the way, because what is
owed is at most what this event was given (`DebtInv`): an earlier debt was paid
back by the time the cooldown let the event open. That `left` never exceeds a phase
and what the event was given (`EventInv`), and that an open event is in its
vehicle's own green, exclude that the engine finds nothing to extend.

**The way of a message.** A message in transit is at most `MaxDelay` messages
behind the last one its vehicle sent, because it waits and ages once a pass; an
entry of a cache of the road-side unit is at most `DedupeTTL` further behind. Within
that distance a sequence number that wraps still tells which message it is
(`Carries`), and an identifier to which request it belongs (`Begun`). `IInv` keeps
for the wire (`WirePlaced`), the answers (`AnswersPlaced`), the caches
(`CachesSound`) and the store (`StoreFollowsUnit`) where their messages are in that
order; that whatever overtook a message still in transit is remembered until it
arrives (`OvertakersRemembered`); that what was forwarded fresh has an open entry
in the store (`FreshIsStored`); and that a slot is held by a request forwarded
after its cancellation (`SlotsHeld`). The five properties are then consequences in
a single state. The assumptions are where it would break: with slower transport or
a shorter retention an identifier or a number names two things at once.

**The contract of a session.** During a session the contract has its fields and
its groups, and SUMO is in a phase of the program (`InSession`). That a link turns
green only after its foes follows phase by phase: a link newly green is served by
a group whose phase the verification looked at, so between the green before and
this one lies a clearance, or the foe stays green.

**The overrides.** `NetInv` says that the overrides are those of one scenario, and
that a network which holds them is a compiled program with these overrides,
applied once. It is inductive because applying is idempotent (`AppliedAgain`).
That rests on `StrippedIs`, which says in one sentence what three passes over the
phases and the one over the crossings leave, and on a description of what is
inserted (`InsertionsMade`): up to four phases, each all red or for walking only,
so exactly those that the strips of the next run take out, and the roles of what
remains, by which the durations and the places are found, are those it had.

Properties of the sequence are carried across one insertion at a time. A green
stays (`InsertionsKeep`), so `VehiclesKept`. The cycle and the total of the
scenario, which the code adds up by folds, are shown to be sums (`CycleIsASum`,
`TotalIsASum`); an insertion adds its own duration (`CycleInserted`), the phases
that remain add one duration per role (`FourPhasesCycle`), and the clearance of the
pedestrians is taken from their own time (`TotalCarved`). So the cycle is the total
of the scenario in whatever order the phases come.

**The verification of the overrides.** That no all-red is missing is about
neighbours: without the insertions only a yellow precedes a new green
(`GreensOnlyShrink`), and after a yellow comes its all-red or the phases for
walking, which have one behind them. `Chained` says this of every pair, and
`InsertedPairs` that an insertion changes two of them; from it `ChainedMissesNone`
shows that between two services lies an all-red that is long enough, past the end
of the program too (`Wrap`). The other checks are on phases and groups: the yellows
are timed (`YellowsTimed`), and the groups the contract was built with are green in
the program it is reconciled with (`GroupsAreGreen`). `SessionInv` is what makes
these a statement about the session: while SUMO runs the program of the network, the
contract held is the one built from it, and the problems known are those found then.

**The journey.** What a pass observes is what there was to read (`SeenInv`), so the
checks of the gateway are compared with those of the sender on the same numbers;
the wire holds at most a cancellation and then a request (`WireShape`), each as
the unit made it (`Said`). A slot of a road-side unit is that of the open request,
or its cancellation is on the wire (`SlotsInv`), and the wire is empty between
passes. `QueueIsKnown` compares two counts of the same lanes, an induction over
the lanes.

**The log.** `LogInv` follows the log through the journey: what is on the wire or waits for
its decision has been logged, and of the requests that is only the latest of the one
the vehicle has open (`UnderWay`); every other chain has its final answer
(`Answered`). Of a request that is over there remain the cancellation and what that
has superseded (`Over`), so a request that uses a key again finds that cancellation
there (`Fresh`). A decision is taken only of what was accepted, whose chain has been
opened again (`Accepted`); a request that is refused outright is replayed as the step
from cancelled to rejected, the one fault there is (`FaultsPass`). The cancellation
of the open request is numbered above everything before it, so it will supersede
that too: `Spoken` bounds the sequence numbers by the requests sent.

**The suite.** `VerdictsOfOthersKept` needs to know that what has been judged was
asked for (`SummariesAsked`), so that the merge replaces nothing else, and that an
invocation starts from nothing (`NothingUnderWay`), also after a kill.

**The pool.** A scenario is judged when all its leaves have ended
(`JudgedHaveEnded`), and a leaf that has ended stays as it is; the leaves are those
of the plan (`PlanUnderWay`), so the replications taken in the order of the plan
are those of a serial run, whatever the order of completion was
(`SameAsSerial`). The port of a leaf is its position in the plan plus a stride per
attempt; positions are below the stride and attempts below their number
(`AttemptsLeft`), so two that are alive differ (`PortsAreDistinct`).

**The evidence of a pass.** A summary is written once, and what it says must still be
true of the files when the suite is written: the leaves it rests on have ended and stay
(`SummariesStand`), and what was read for each is what it wrote (`ReadsItsOwn`),
because a simulation clears the global directory before it starts and `make run`
does not start one beside it. From a summary that passes, `PassRests` goes back
through the worst of the verdicts, the gate and the reasons to the files. That the
two ways of comparing the arms agree (`ComparisonRests`) is arithmetic: seeds are not
repeated, so each has one partner; with a value for every seed the sum of the paired
differences is the difference of the sums (`SumsDiffer`), and rounding the means down
keeps their order. How wide the confidence interval is does not matter to it.

**Only model-checked.** Liveness, which is outside the prover's reach: the four
properties of section 3 under "Fairness". And the four invariants of `ScenarioBuild`
(`PlacesExist`, `RoutesSound`, `FlowsFollowTheirChain`, `LeavesSound`), which rest on
`DemandProfiles`: a profile is resolved by recursion over those it derives from, and
departures follow each other by recursion over the headways. The operators are
recursive, which the prover does not support, and what they compute for chains and
timetables of any length would need induction over data.

## 6. Findings and observations

One run shows a disagreement between the code and its documentation:
`RefreshAfterGrant`. The cooldown of the RSU starts at the grant (`rsu.py:185`) and
rejects the refreshes by which `src/README.md:425` has an event prolonged.

The following were seen while modelling. Where a property fails outside the
instance that is checked, the change of the `.cfg` that shows it is given. Most are
defects or surprises of which the repository says nothing. Some contradict what it
says of itself, and are marked (*).

At one signal:

- `events.py:149`: two events of one signal that check out in the same step both
  command from the reading taken before the first command. (`SignalOrdinary` with
  both vehicles on one green and extensions only: `CommandsActOnFreshReading` fails.)
- `compensation.py:151`: an extension on the tick its phase starts is shortened
  again at the next tick; the skipped signal keeps an old phase memory, so the
  phase looks entered.
- `events.py:186`: a check-out gives back compensation together with extended green
  and subtracts both from the reclaim. (`SignalExtensions` with `early_green`
  allowed: `DisplacementAccounted` fails.)
- `events.py:190`: the check-out of an older event shortens the green of a newer one
  on the same phase.
- (*) `safety.py:469`: an early green with unknown remaining time is approved and may
  lengthen the phase past `max_total_green_s`. The docstring of the module
  (`safety.py:20-21`) says that a decision whose safety the data do not show is
  blocked, never approved. (`ReadFaults = {"none", "switch"}`,
  `Truncations = {2}`, an emergency vehicle on the second green: `TotalGreenBound`
  fails.)
- `compensation.py:216`: a TraCI error in a payback or check-out is not caught and
  ends the loop.
- An actuation error is booked as if the phase had changed (deliberate for the
  cooldown).
- `signal_control.py:1145`: a phase with yellow and green is a green phase to the
  verification, so a clearance inside one is not asked for. (`Replacements <-
  WithMixedPhases`: `GreenOnlyAfterFoesAreRed` fails.)
- (*) `signal_control.py:287`: a group that no phase of the running program serves
  keeps its old target index, and the verification only asks for some green in that
  phase, so that red may be cut for a phase that does not serve the vehicle. The
  comment at `signal_control.py:782-783` calls keeping the index fail-closed. What a
  vehicle is given then is useless, not unsafe: the run `SignalPrograms` has such a
  program, and `GreenOnlyAfterFoesAreRed` holds.
- The policy's `early_green` ignores `max_green_removed_per_event_s`
  (`tsp_safety_config.json:22`).
- `engine.py:85`: a learned rule may intervene for a vehicle that has no need.

On the corridor and on the way:

- The arbiter's cap is compared with stored debts, which only a validation brings
  up to date, and the arbiter keeps decisions from being validated: debts at the
  cap can close the corridor to everybody for good.
- (*) `rsu.py:539`: a rejected request leaves its sequence number, so its
  retransmission is refused as out of order although the comment at `rsu.py:533`
  wants it evaluated.
- `rsu.py:111`: a final rejection by the decision keeps the quota slot until it
  ages out. `request_store.py:138`: a granted request expires with its last
  message. `mark_cancelled` is unreachable.
- A request cleared at the stop line is opened again if the unit refreshes it in
  the same pass, and a cancellation ingested after the vehicle has left opens an
  entry that only age closes.
- A failed read of the vehicle cancels a granted request; a failed read of the lane
  length counts as distance 0, that is, as standing at the stop line.
- (*) `audit.py:310`: a key is used again after the unit forgets the vehicle. If the
  new request is refused outright, the replay reports a transition from cancelled to
  rejected until a later message supersedes it, because only `processing` and a
  cancellation open a settled chain again. The docstring there says that a new episode
  is not flagged, and `audit.py:200-203` that the gate keys on defects in live
  episodes only. `AuditFaultsKnown` states it. The cancellation of an untrusted signer
  is refused itself, which replays in the same way; the property is stated for trusted
  signers.
- The timetable provider (`schedule_plan.py:75`) uses the first position of an edge
  that the route passes twice.
- The data set for learning drops the controlled links, so that the bucket of a row
  off line may be computed from the first link of the lane (`state.py:2`).

In the tools:

- A scenario whose every seed failed disappears from an `--all` suite and from the
  exit code, and keeps its earlier verdict in a partial run
  (`run_sumo_scenario.py:507-513`).
- An absent `summary.xml` passes the insertion gates (1221-1226); malformed counters
  raise uncaught; `--generate-only` overwrites the summary of a scenario (329).
- The check of the port range (`run_sumo_scenario.py:446`) counts first attempts: with
  a base configured near the end of the range a retry leaves it
  (`PortsSuffice`; not so from 8900, the default); `--seeds 57 57` share a
  directory; outputs of `make run` are copied in place of missing ones (977-986);
  a suite cut off while it is written is refused by the next partial run and
  replaced by the next complete one.
- The incidents of seeds other than the base seed are never validated
  (`scenarios.py:614`).
- (*) A ring at either end of the corridor leaves routes with missing edges, and a
  route that turns back at a ring gets no ring pieces
  (`generate_plain_corridor.py:224-242`, `263-281`, `568`). The docstring of the
  neighbours of a ring (487-490) covers a ring that comes first.
- Two buses of a line and direction that depart in the same second have the same
  identifier: it holds `int(depart)` (`generate_plain_corridor.py:892`), and the jitter
  is any fraction (1270). A headway of 3 s and a jitter of 1.4 s may give 1.4 and 1.6,
  although twice the jitter is less than the headway. (`LeavesSound` without its
  premise fails on `Scenario`.) So do services that share line and direction.
- A base configuration with an active derived profile and no scenario has no cars
  (828); `estimated_car_departures` ignores the cool-down; stops of a service are not
  checked to lie on its route; a normal dwell without deviation may lie outside its
  bounds.

## 7. What is left out, and why

- A pass is one second and durations are whole seconds at the signal; the real step
  is half a second, and durations may be fractions of it.
- No-actuation mode: no command is sent there, so the plan properties are empty;
  the bookkeeping is the same as with an error. `CorridorControl` has dry runs.
- A TraCI exception in a compensation or check-out command: it is not caught and
  ends the loop, after which there is nothing to check.
- Messages made by something other than this system's own units. Encodings (JSON,
  UPER) and the MAPEM and SPATEM contents, which no decision reads back.
- The C-ITS emulation controller: the agents of the control loop without actuation,
  which `Journey` runs, and log files.
- Configuration loading: no state of its own; its values are the `CONSTANTS`.
- The dashboard, reports, emissions, calibration metrics (GEH), off-policy estimates:
  numbers for people, which no decision of the program reads.
- Geometry, XML and the calls of netconvert and SUMO: external. What the code relies
  on is in `Foes`, `Compiled` and `FilesOf`.
- A composition of all machines. Each takes the part of a pass that its question
  needs and leaves open what another one determines: statuses of the store in
  `PrioritySignal`, outcomes of decisions in `PriorityRequests` and `Journey`, checks
  on a phase and what a check-out returns in `CorridorControl`. What is left open
  contains what the other determines, for the values a run enumerates.
- The road-side unit in `BusApproach`, where the vehicle has a request in every second.

## 8. Plan

Done: the signal, the corridor, the requests, one vehicle's approach and its
journey, learning, signal programs, scenarios and campaigns, all checked; and
proofs of every safety property of the signal, the corridor, the requests, the
approach, the journey, the learning, the campaign and the signal programs. What is
left are the four invariants of `ScenarioBuild`: places and routes need no recursion,
and could be proved from `CorridorNetwork` alone once `DemandProfiles` resolves profiles
by recursive functions.
