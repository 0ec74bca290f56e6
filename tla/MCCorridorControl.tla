-------------------------- MODULE MCCorridorControl --------------------------
(***************************************************************************)
(* CorridorControl on two signals: a bus and two emergency vehicles at the *)
(* first, upstream of the second, and a delayed bus at the second.  The    *)
(* controllers accept a command every other second only.                   *)
(***************************************************************************)
EXTENDS CorridorControl, TLC

CONSTANTS upstream, downstream, bus, late, ambulance, doctor

MCSignalOf == [r \in Requests |->
    IF r = late THEN downstream ELSE upstream]
MCNextSignal == [r \in Requests |->
    IF r = late THEN NoSignal ELSE downstream]
\* A hierarchy without the emergency level, which then has the default rank.
MCHierarchy == [r \in Requests |->
    IF r \in {ambulance, doctor} THEN 9 ELSE IF r = late THEN 2 ELSE 4]
MCDelay == [r \in Requests |-> IF r = late THEN 1 ELSE 0]
\* Downstream all is well, or traffic spills back and the detectors fail.
MCReadings == {[spilling |-> t, degraded |-> t] : t \in {{}, {downstream}}}
\* The two emergency vehicles differ in nothing, and only invariants are checked.
MCSymmetry == Permutations({ambulance, doctor})
=============================================================================
