-------------------------- MODULE MCPrioritySignal --------------------------
(***************************************************************************)
(* PrioritySignal on a four-phase signal: two conflicting greens, each     *)
(* followed by one intergreen phase.                                       *)
(***************************************************************************)
EXTENDS PrioritySignal

CONSTANTS bus, tram, ambulance

MCPhases == 0 .. 3
MCGreens == {0, 2}
MCIntergreens == {1, 3}
MCPlan == [p \in MCPhases |-> IF p \in MCGreens THEN 5 ELSE 1]
MCConflicts == [p \in MCGreens |-> MCGreens \ {p}]
\* The tram asks for the second green, everybody else for the first.
MCTargets == [v \in Vehicles |-> IF v = tram THEN 2 ELSE 0]
=============================================================================
