------------------------------ MODULE TlsOffsets ------------------------------
(***************************************************************************)
(* The signal programs of the synthetic corridor.  The scenario's          *)
(* tls_program becomes a list of overrides by role                         *)
(* (build_tls_offsets of src/pps57_sumo/generate_plain_corridor.py), which *)
(* are written into the program that netconvert compiled                   *)
(* (src/pps57_sumo/apply_tls_offsets.py).  A step that the code refuses    *)
(* with an exception yields Failed, which nothing else is.                 *)
(***************************************************************************)
EXTENDS NetworkProfile

CONSTANTS
    MainLinks, CrossLinks  \* through links of the corridor and of the cross street

ASSUME RolesAssumption ==
    MainLinks \subseteq VehicleLinks /\ CrossLinks \subseteq VehicleLinks \ MainLinks

Failed == <<>>
PedestrianLinks == Links \ VehicleLinks

AllRedRoles == {"all_red_main_to_cross", "all_red_cross_to_main"}
GreenAndYellowRoles == {"main_green", "main_yellow", "cross_green", "cross_yellow"}

-----------------------------------------------------------------------------
(* build_tls_offsets: durations by role, from the roles the scenario gives. *)

Total(durations) ==
    MapThenSumSet(LAMBDA role : durations[role], DOMAIN durations)

\* Mutant: the clearance is added to the cycle instead of carved out of it.
ClearanceOnTop(program) ==
    IF {"pedestrian", "all_red_cross_to_main"} \subseteq DOMAIN program
    THEN [role \in DOMAIN program \cup {"all_red_ped_to_main"} |->
             IF role = "all_red_ped_to_main"
             THEN program.all_red_cross_to_main ELSE program[role]]
    ELSE program

Carved(program) == {"pedestrian", "all_red_cross_to_main"} \subseteq DOMAIN program

\* The clearance after the pedestrian phase is taken out of that phase.
CarveClearance(program) ==
    IF Carved(program)
    THEN [role \in DOMAIN program \cup {"all_red_ped_to_main"} |->
             CASE role = "pedestrian" ->
                      program.pedestrian - program.all_red_cross_to_main
               [] role = "all_red_ped_to_main" -> program.all_red_cross_to_main
               [] OTHER -> program[role]]
    ELSE program

\* Something of the pedestrian phase must be left by the clearance.
BuildTlsOffsets(program, cycle) ==
    LET overrides == CarveClearance(program)
    IN IF \/ Carved(program) /\ overrides.pedestrian <= 0
          \/ cycle > 0 /\ Total(program) # cycle
       THEN Failed ELSE overrides

-----------------------------------------------------------------------------
(* apply_tls_offsets: the roles of the compiled phases.                     *)

Shows(state, links, colours) == \E l \in links : state[l] \in colours

RoleOf(state) ==
    LET mainGreen   == Shows(state, MainLinks, {"G", "g"})
        mainYellow  == Shows(state, MainLinks, {"y"})
        crossGreen  == Shows(state, CrossLinks, {"G", "g"})
        crossYellow == Shows(state, CrossLinks, {"y"})
        shown == <<mainGreen, mainYellow, crossGreen, crossYellow>>
    IN CASE IsAllRed(state) -> "all_red"
         [] shown = <<TRUE, FALSE, FALSE, FALSE>> -> "main_green"
         [] shown = <<FALSE, TRUE, FALSE, FALSE>> -> "main_yellow"
         [] shown = <<FALSE, FALSE, TRUE, FALSE>> -> "cross_green"
         [] shown = <<FALSE, FALSE, FALSE, TRUE>> -> "cross_yellow"
         [] /\ shown = <<FALSE, FALSE, FALSE, FALSE>>
            /\ Greens(state) # {} -> "pedestrian"
         [] OTHER -> "none"

FirstWithRole(phases, role) ==
    CHOOSE i \in DOMAIN phases :
        /\ RoleOf(phases[i].state) = role
        /\ \A j \in 1 .. (i - 1) : RoleOf(phases[j].state) # role
HasRole(phases, role) == \E i \in DOMAIN phases : RoleOf(phases[i].state) = role

\* The phases that are not dropped, in their order.
Without(phases, dropped) ==
    FlattenSeq([i \in DOMAIN phases |-> IF i \in dropped THEN <<>> ELSE <<phases[i]>>])

StripAllRed(phases) ==
    Without(phases, {i \in DOMAIN phases : IsAllRed(phases[i].state)})
StripPedestrian(phases) ==
    Without(phases, {i \in DOMAIN phases : RoleOf(phases[i].state) = "pedestrian"})

\* The sub-phase of a green that only turns its crossings red.
IsPedClearanceOf(candidate, original) ==
    \A l \in Links :
        \/ candidate[l] = original[l]
        \/ l \in PedestrianLinks /\ original[l] \in {"G", "g"} /\ candidate[l] = "r"

StripPedClearance(phases) ==
    LET Repeats(i) ==
            LET role == RoleOf(phases[i].state)
                first == FirstWithRole(phases, role)
            IN /\ role \in {"main_green", "cross_green"} /\ first # i
               /\ IsPedClearanceOf(phases[i].state, phases[first].state)
    IN Without(phases, {i \in DOMAIN phases : Repeats(i)})

ExactlyOne(phases, role) ==
    Cardinality({i \in DOMAIN phases : RoleOf(phases[i].state) = role}) = 1

DisableCrossings(phases) ==
    [i \in DOMAIN phases |-> [phases[i] EXCEPT
        !.state = [l \in Links |->
            IF l \in PedestrianLinks /\ @[l] \in {"G", "g"} THEN "r" ELSE @[l]]]]

\* The first phase of each role takes the duration of the override.
SetDurations(phases, overrides) ==
    [i \in DOMAIN phases |->
        LET role == RoleOf(phases[i].state)
        IN IF /\ role \in GreenAndYellowRoles \cap DOMAIN overrides
              /\ FirstWithRole(phases, role) = i
           THEN [phases[i] EXCEPT !.duration = overrides[role]]
           ELSE phases[i]]

AllRedPhase(duration) == [state |-> [l \in Links |-> "r"], duration |-> duration]
PedestrianPhase(duration) ==
    [state |-> [l \in Links |-> IF l \in PedestrianLinks THEN "G" ELSE "r"],
     duration |-> duration]

InsertAllRed(phases, overrides, role, after) ==
    IF role \in DOMAIN overrides
    THEN InsertAt(phases, FirstWithRole(phases, after) + 1, AllRedPhase(overrides[role]))
    ELSE phases

\* Mutant: the pedestrian phase is put between the yellow and its all-red.
InsertPedestrianAtYellow(phases, overrides) ==
    InsertAt(phases, FirstWithRole(phases, "cross_yellow") + 1,
             PedestrianPhase(overrides.pedestrian))

\* The pedestrian phase follows the cross street's yellow and its all-red.
InsertPedestrian(phases, overrides) ==
    LET yellow == FirstWithRole(phases, "cross_yellow")
        last == CHOOSE i \in yellow .. Len(phases) :
                    /\ \A j \in (yellow + 1) .. i : IsAllRed(phases[j].state)
                    /\ i = Len(phases) \/ ~IsAllRed(phases[i + 1].state)
        clearance ==
            IF "all_red_ped_to_main" \in DOMAIN overrides
            THEN <<AllRedPhase(overrides.all_red_ped_to_main)>> ELSE <<>>
    IN SubSeq(phases, 1, last)
         \o <<PedestrianPhase(overrides.pedestrian)>> \o clearance
         \o SubSeq(phases, last + 1, Len(phases))

Inserted(phases, overrides) ==
    LET cross == InsertAllRed(phases, overrides, "all_red_cross_to_main", "cross_yellow")
        both == InsertAllRed(cross, overrides, "all_red_main_to_cross", "main_yellow")
    IN IF "pedestrian" \in DOMAIN overrides
       THEN InsertPedestrian(both, overrides) ELSE both

Stripped(phases, overrides) ==
    LET noAllRed == IF AllRedRoles \cap DOMAIN overrides # {}
                    THEN StripAllRed(phases) ELSE phases
    IN IF "pedestrian" \in DOMAIN overrides
       THEN DisableCrossings(StripPedClearance(StripPedestrian(noAllRed)))
       ELSE noAllRed

\* Roles that the overrides need and the stripped program must have.
Needed(overrides) ==
    (GreenAndYellowRoles \cap DOMAIN overrides)
      \cup (IF "all_red_main_to_cross" \in DOMAIN overrides THEN {"main_yellow"} ELSE {})
      \cup (IF {"all_red_cross_to_main", "pedestrian"} \cap DOMAIN overrides # {}
            THEN {"cross_yellow"} ELSE {})

ApplyPhaseProgram(phases, overrides) ==
    LET stripped == Stripped(phases, overrides)
    IN IF \/ MainLinks = {} \/ CrossLinks = {}
          \/ "pedestrian" \in DOMAIN overrides /\ PedestrianLinks = {}
          \/ /\ "pedestrian" \in DOMAIN overrides
             /\ \E role \in {"main_green", "cross_green"} : ~ExactlyOne(stripped, role)
          \/ \E role \in Needed(overrides) : ~HasRole(stripped, role)
       THEN Failed
       ELSE Inserted(SetDurations(stripped, overrides), overrides)
=============================================================================
