-------------------------- MODULE ControllerContract --------------------------
(***************************************************************************)
(* The controller contract of a traffic light                              *)
(* (src/pps57_tsp/signal_control.py): built from the configuration and the *)
(* compiled network, given the network's conflicts, reconciled with the    *)
(* program that SUMO runs, and verified against it.  The Safety Layer lets *)
(* green be extended, and red be cut short, only where the verification    *)
(* allows it (controller.py).                                              *)
(***************************************************************************)
EXTENDS NetworkProfile

CONSTANTS
    MinYellow, MinAllRed,     \* yellow_s and all_red_s
    PriorityGroups,           \* target groups of the priority movements
    PedestrianPhaseRequired,  \* pedestrian_phase_required
    BindingEnabled            \* conflict matrices come from the network

ASSUME ContractAssumption ==
    /\ MinYellow \in Nat /\ MinAllRed \in Nat
    /\ PriorityGroups \subseteq Groups
    /\ PedestrianPhaseRequired \in BOOLEAN /\ BindingEnabled \in BOOLEAN

\* A program that TraCI does not report has no phases.
Unreadable == <<>>

\* A phase for pedestrians only.
PedestrianPhases(program) ==
    GreenPhases(program, Links \ VehicleLinks) \ GreenPhases(program, VehicleLinks)

GroupContract(program, g) ==
    [phase     |-> TargetPhase(program, LinksOf[g]),
     serves    |-> g \in PriorityGroups,
     protected |-> ProtectedPhases(program, LinksOf[g]) # {},
     conflicts |-> DisjointGroups(program, g),
     known     |-> FALSE]

BuildContract(program) ==
    [sequence   |-> [i \in PhaseIndices(program) |-> i],
     service    |-> ServicePhases(program),
     intergreen |-> IntergreenPhases(program),
     cycle      |-> CycleOf(program),
     pedestrian |-> PedestrianPhases(program),
     pedestrianRequired |->
         PedestrianPhaseRequired /\ PedestrianPhases(program) # {},
     groups     |-> [g \in Groups |-> GroupContract(program, g)],
     bound      |-> FALSE]

BindGroup(group, g) ==
    IF GroupMatrixKnown(g)
    THEN [group EXCEPT !.conflicts = GroupConflicts(g), !.known = TRUE]
    ELSE group

ApplyBinding(contract) ==
    IF BindingEnabled
    THEN [contract EXCEPT
             !.groups = [g \in Groups |-> BindGroup(@[g], g)], !.bound = TRUE]
    ELSE contract

-----------------------------------------------------------------------------
(* Reconciliation with the running program.                                 *)

RuntimePhase(program, g, group) ==
    LET protected == ProtectedPhases(program, LinksOf[g])
        candidates ==
            IF group.protected /\ protected # {} THEN protected
            ELSE GreenPhases(program, LinksOf[g])
    IN IF candidates = {} THEN group.phase
       ELSE BestPhase(program, LinksOf[g], candidates)

RemapGroup(program, g, group) ==
    [group EXCEPT !.phase = RuntimePhase(program, g, group)]

\* The pedestrian phases and the conflicts stay as they were built.
Reconcile(contract, running) ==
    IF running.phases = Unreadable THEN contract
    ELSE LET program == running.phases IN
         [contract EXCEPT
             !.sequence = [i \in PhaseIndices(program) |-> i],
             !.service = ServicePhases(program),
             !.intergreen = IntergreenPhases(program),
             !.cycle = CycleOf(program),
             !.groups = [g \in Groups |-> RemapGroup(program, g, @[g])]]

-----------------------------------------------------------------------------
(* Verification.                                                            *)

\* Mutant: only movements that stay green count as conflicting.
NeedsAllRedBesideGreen(contract, from, to) ==
    ~contract.bound \/ \E l \in Greens(to) \ Greens(from) :
        LinkConflicts(l) \cap Greens(to) \cap Greens(from) # {}

\* A movement that ends and one that starts: they conflict, or may do so.
TransitionNeedsAllRed(contract, from, to) ==
    LET newly == Greens(to) \ Greens(from)
        ending == Greens(from) \ Greens(to)
    IN \/ ~contract.bound
       \/ /\ newly # {}
          /\ \/ \E l \in newly, k \in ending : k \in LinkConflicts(l)
             \/ ~(newly \cup ending \subseteq KnownLinks)

\* The phases between position pos and the next service phase, and that phase.
NextService(contract, pos) ==
    LET n == Len(contract.sequence)
        At(k) == contract.sequence[((pos + k - 1) % n) + 1]
        reach == CHOOSE k \in 1 .. n :
                     /\ At(k) \in contract.service
                     /\ \A j \in 1 .. (k - 1) : At(j) \notin contract.service
    IN [to |-> At(reach), between |-> {At(j) : j \in 1 .. (reach - 1)}]

MissingAllRed(contract, program) ==
    {pos \in DOMAIN contract.sequence :
        /\ contract.sequence[pos] \in contract.service
        /\ Cardinality({p \in DOMAIN contract.sequence :
                            contract.sequence[p] \in contract.service}) > 1
        /\ LET next == NextService(contract, pos)
               from == contract.sequence[pos]
           IN /\ ~\E i \in next.between \cap PhaseIndices(program) :
                     IsAllRed(program[i].state) /\ program[i].duration >= MinAllRed
              /\ \/ {from, next.to} \cap PhaseIndices(program) # {from, next.to}
                 \/ TransitionNeedsAllRed(contract, program[from].state,
                                          program[next.to].state)}

HasPedestrianPhase(contract, program) ==
    \E i \in contract.pedestrian \cap PhaseIndices(program) :
        /\ Greens(program[i].state) # {}
        /\ Greens(program[i].state) \cap VehicleLinks = {}

GroupIsGreen(group, program) ==
    (IF group.protected THEN Protected(program[group.phase].state)
                        ELSE Greens(program[group.phase].state)) # {}

LacksConflictMatrix(group) == group.serves /\ group.conflicts = {} /\ ~group.known

If(holds, problem) == IF holds THEN {problem} ELSE {}

StructureProblems(contract, program) ==
    LET inside == PhaseIndices(program)
        mapped == {contract.groups[g] : g \in Groups}
        present == {group \in mapped : group.phase \in inside}
    IN If(\E group \in mapped : group.phase \notin inside \cup {NoPhase},
          "group outside the program")
       \cup If(~(Range(contract.sequence) \cup contract.service
                 \cup contract.intergreen \subseteq inside), "phase outside the program")
       \cup If(\E group \in present : ~GroupIsGreen(group, program), "group without green")
       \cup If(\E i \in contract.intergreen \cap inside : Greens(program[i].state) # {},
               "intergreen with green")
       \cup If(\E i \in contract.intergreen \cap inside :
                   /\ \E l \in Links : program[i].state[l] = "y"
                   /\ program[i].duration < MinYellow, "short yellow")
       \cup If(MinAllRed > 0 /\ MissingAllRed(contract, program) # {}, "no all-red")
       \cup If(CycleOf(program) # contract.cycle, "other cycle")
       \cup If(contract.pedestrianRequired /\ ~HasPedestrianPhase(contract, program),
               "no pedestrian phase")

VerifyContract(contract, running) ==
    IF running.phases = Unreadable THEN {"unreadable"}
    ELSE StructureProblems(contract, running.phases)
         \cup If(\E g \in Groups : LacksConflictMatrix(contract.groups[g]),
                 "no conflict matrix")
         \cup If(~running.fixedTime, "not fixed-time")

EarlyGreenActuable(problems) == problems = {}
=============================================================================
