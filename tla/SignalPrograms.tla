---------------------------- MODULE SignalPrograms ----------------------------
(***************************************************************************)
(* The life of a signal program: compiled by netconvert, overridden with   *)
(* the scenario's timings (build_network.py, apply_tls_offsets.py), built  *)
(* into a controller contract and verified when the control loop starts    *)
(* (controller.py, signal_control.py), and run by SUMO, which may put      *)
(* another program in its place by the time of day.                        *)
(***************************************************************************)
EXTENDS ControllerContract, TlsOffsets

CONSTANTS
    Compiled,      \* programs that netconvert compiles
    TlsPrograms,   \* [program, cycle] of the scenarios
    Replacements,  \* what SUMO may run instead of the program of the network
    None

ScenarioRoles == GreenAndYellowRoles \cup AllRedRoles \cup {"pedestrian"}

ASSUME ProgramsAssumption ==
    /\ Compiled \subseteq Seq(Phase)
    /\ \A scenario \in TlsPrograms :
           /\ DOMAIN scenario.program \subseteq ScenarioRoles
           /\ \A role \in DOMAIN scenario.program : scenario.program[role] \in Nat

VARIABLES
    net,        \* the program of the compiled network
    overrides,  \* the overrides file
    applied,    \* the overrides are in the network
    running,    \* what TraCI reports, None outside a session
    contract,   \* held by the engine and the Safety Layer, None outside a session
    problems,   \* of the verification at the start of the session
    at          \* the phase SUMO is in

files == <<net, overrides, applied>>
session == <<running, contract, problems, at>>
vars == <<files, session>>

NoSession == running = None /\ contract = None /\ problems = {} /\ at = 1

\* The overrides are written before netconvert runs; a refusal ends the build.
Build(program, scenario) ==
    /\ BuildTlsOffsets(scenario.program, scenario.cycle) # Failed
    /\ net' = program
    /\ overrides' = BuildTlsOffsets(scenario.program, scenario.cycle)
    /\ applied' = FALSE

Init ==
    /\ \E scenario \in TlsPrograms :
           /\ overrides = BuildTlsOffsets(scenario.program, scenario.cycle)
           /\ overrides # Failed
    /\ net \in Compiled /\ applied = FALSE
    /\ NoSession

Rebuild ==
    /\ running = None
    /\ \E program \in Compiled, scenario \in TlsPrograms : Build(program, scenario)
    /\ UNCHANGED session

\* The step may be run again on its own result.
ApplyOffsets ==
    /\ running = None
    /\ ApplyPhaseProgram(net, overrides) # Failed
    /\ net' = ApplyPhaseProgram(net, overrides)
    /\ applied' = TRUE
    /\ UNCHANGED <<overrides, session>>

StartSession ==
    /\ running = None
    /\ running' \in Replacements \cup {[phases |-> net, fixedTime |-> TRUE]}
    /\ contract' = Reconcile(ApplyBinding(BuildContract(net)), running')
    /\ problems' = VerifyContract(contract', running')
    /\ at' = 1
    /\ UNCHANGED files

\* Time, an extension or a truncation: the next phase comes in the end.
ProgramAdvances ==
    /\ running # None /\ running.phases # Unreadable
    /\ at' = (at % Len(running.phases)) + 1
    /\ UNCHANGED <<files, running, contract, problems>>

\* A program for another time of day: the contract is not read again.
SwitchProgram ==
    /\ running # None
    /\ running' \in Replacements \ {running}
    /\ at' = 1
    /\ UNCHANGED <<files, contract, problems>>

EndSession ==
    /\ running # None
    /\ running' = None /\ contract' = None /\ problems' = {} /\ at' = 1
    /\ UNCHANGED files

Next ==
    \/ Rebuild \/ ApplyOffsets \/ StartSession
    \/ ProgramAdvances \/ SwitchProgram \/ EndSession

Spec == Init /\ [][Next]_vars

-----------------------------------------------------------------------------
(* What the compiled programs are like: hypotheses of the theorems, which   *)
(* the instances satisfy.                                                   *)

\* Vehicles have their green outside of the phases for pedestrians.
ServesVehicles(phases) ==
    \A l \in VehicleLinks : \E i \in DOMAIN phases :
        l \in Greens(phases[i].state) /\ RoleOf(phases[i].state) # "pedestrian"

\* What is left when the overrides have dropped their phases: greens and yellows
\* of the two streets, one yellow of each, and the overrides time them all.
FourPhases(phases, durations) ==
    LET stripped == Stripped(phases, durations)
    IN /\ GreenAndYellowRoles \subseteq DOMAIN durations
       /\ \A i \in DOMAIN stripped : RoleOf(stripped[i].state) \in GreenAndYellowRoles
       /\ \A role \in {"main_yellow", "cross_yellow"} : ExactlyOne(stripped, role)

\* Without a yellow no phase gives a green that the one before it did not give.
GreensOnlyShrink(phases, durations) ==
    LET stripped == Stripped(phases, durations)
    IN \A i \in DOMAIN stripped :
           \/ RoleOf(stripped[i].state) \in {"main_yellow", "cross_yellow"}
           \/ Greens(stripped[(i % Len(stripped)) + 1].state)
                  \subseteq Greens(stripped[i].state)

CorridorPrograms ==
    \A phases \in Compiled :
        /\ ServesVehicles(phases)
        /\ \A scenario \in TlsPrograms :
               LET durations == BuildTlsOffsets(scenario.program, scenario.cycle)
               IN durations # Failed /\ ApplyPhaseProgram(phases, durations) # Failed
                  => FourPhases(phases, durations)

\* The conflicts of the priority groups come from the network, yellow is given
\* its minimum, and SUMO replaces the program by another one.
VerifiablePrograms ==
    /\ BindingEnabled /\ \A g \in PriorityGroups : GroupMatrixKnown(g)
    /\ \A phases \in Compiled, scenario \in TlsPrograms :
           LET durations == BuildTlsOffsets(scenario.program, scenario.cycle)
               result == ApplyPhaseProgram(phases, durations)
           IN durations # Failed /\ result # Failed =>
               /\ FourPhases(phases, durations) /\ GreensOnlyShrink(phases, durations)
               /\ \A role \in {"main_yellow", "cross_yellow"} : durations[role] >= MinYellow
               /\ [phases |-> result, fixedTime |-> TRUE] \notin Replacements \cup {None}

-----------------------------------------------------------------------------
(* Properties.                                                              *)

\* The overridden program takes the cycle of the scenario: what is inserted,
\* carved out and stripped balances.  (Not where netconvert's clearance of the
\* crossings is left beside the green it follows: only a pedestrian phase
\* removes it, and the override lengthens the first of the two only.)
CycleAsConfigured ==
    applied /\ (\A role \in {"main_green", "cross_green"} : ExactlyOne(net, role))
    => \E s \in TlsPrograms :
        /\ BuildTlsOffsets(s.program, s.cycle) = overrides
        /\ CycleOf(net) = Total(s.program)

\* No vehicle movement loses its green to the overrides, and with a pedestrian
\* phase no crossing is green with vehicles.
VehiclesKeepTheirGreen ==
    applied =>
        /\ \A l \in VehicleLinks : GreenPhases(net, {l}) # {}
        /\ "pedestrian" \in DOMAIN overrides =>
               \A i \in DOMAIN net : Greens(net[i].state) \cap PedestrianLinks # {} =>
                   Greens(net[i].state) \cap VehicleLinks = {}

\* The overrides move time between the phases and take it from nobody.
OverridesBalance == CycleAsConfigured /\ VehiclesKeepTheirGreen

\* A scenario that gives both all-red times their minimum yields a program that
\* the control loop verifies without a problem.
OverriddenProgramsVerify ==
    /\ applied /\ AllRedRoles \subseteq DOMAIN overrides
    /\ \A role \in AllRedRoles : overrides[role] >= MinAllRed
    /\ running = [phases |-> net, fixedTime |-> TRUE]
    /\ contract = Reconcile(contract, running)
    => problems = {}

\* The contract and its verification are those of the program that runs.
IsCurrent ==
    /\ running # None /\ running.phases # Unreadable
    /\ contract = Reconcile(contract, running)
    /\ problems = VerifyContract(contract, running)

\* On a program that passed the verification, a link turns green only when the
\* links it conflicts with are already red, or stay green beside it.
GreenOnlyAfterFoesAreRed ==
    [][ /\ IsCurrent /\ EarlyGreenActuable(problems) /\ running' = running
        => LET from == running.phases[at].state
               to == running.phases[at'].state
           IN \A l \in Greens(to) \ Greens(from) : \A k \in LinkConflicts(l) :
                  from[k] = "r" \/ k \in Greens(to) ]_vars
=============================================================================
