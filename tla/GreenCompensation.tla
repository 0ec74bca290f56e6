-------------------------- MODULE GreenCompensation --------------------------
(***************************************************************************)
(* GreenCompensationManager (src/pps57_tsp/compensation.py) for one TLS.   *)
(* It remembers, per phase, the green that early greens removed ("owed")   *)
(* and the green that extensions added ("reclaim"), and settles them in    *)
(* instalments when the phase is next entered: by lengthening a phase that *)
(* was cut, or else by shortening one that was extended.                   *)
(*                                                                         *)
(* Seconds are integers, so an instalment under one second, for which the  *)
(* code sends no command, is an instalment of 0.                           *)
(***************************************************************************)
EXTENDS Seconds

CONSTANTS
    Phases,            \* phase indices of the signal program
    Unread,            \* a phase or a time SUMO did not report this step
    NoPhase,           \* no phase remembered yet
    MinGreen,          \* safety_constraints.min_green_s
    MaxTotalGreen,     \* safety_constraints.max_total_green_s
    MaxPerCycle,       \* actuation.compensation_max_per_cycle_s
    CompensationEnabled,         \* actuation.compensation_enabled
    CoordinationRecoveryEnabled  \* actuation.coordination_recovery_enabled

ASSUME CompensationAssumption ==
    /\ MinGreen \in Nat
    /\ MaxTotalGreen \in Nat
    /\ MaxPerCycle \in Nat
    /\ CompensationEnabled \in BOOLEAN
    /\ CoordinationRecoveryEnabled \in BOOLEAN
    /\ Unread \notin Phases
    /\ NoPhase \notin Phases

Accounts ==
    [owed : [Phases -> Nat], reclaim : [Phases -> Nat],
     lastPhase : Phases \cup {Unread, NoPhase}]

NothingOwed ==
    [owed |-> [p \in Phases |-> 0], reclaim |-> [p \in Phases |-> 0],
     lastPhase |-> NoPhase]

\* Mutant: the green is owed to the phase after the truncated one.
OwedToNextPhase(a, p, left, truncatedTo) ==
    IF CompensationEnabled /\ left # Unread
    THEN [a EXCEPT !.owed[p + 1] = @ + AtLeastZero(left - truncatedTo)]
    ELSE a

\* Without next_switch the removed green cannot be measured: no debt is made up.
RegisterEarlyGreen(a, p, left, truncatedTo) ==
    IF CompensationEnabled /\ left # Unread
    THEN [a EXCEPT !.owed[p] = @ + AtLeastZero(left - truncatedTo)]
    ELSE a

RegisterGreenExtension(a, p, extension) ==
    IF CoordinationRecoveryEnabled
    THEN [a EXCEPT !.reclaim[p] = @ + extension]
    ELSE a

\* Mutant: the green handed back is reclaimed all the same.
KeepReclaim(a, p, returned) == a

\* Extended green handed back at a check-out never displaced the cycle.
ReduceReclaim(a, p, returned) ==
    [a EXCEPT !.reclaim[p] = AtLeastZero(@ - returned)]

(***************************************************************************)
(* step: the phase memory.  A TLS commanded earlier in the same step is    *)
(* skipped and keeps its memory, so that a phase entry it missed is still  *)
(* an entry at the next step; without a memory, the current phase is it.   *)
(***************************************************************************)
RememberPhase(a, p, skipped) ==
    IF skipped /\ a.lastPhase # NoPhase THEN a ELSE [a EXCEPT !.lastPhase = p]

\* Mutant: the memory is updated before the entry is looked for.
EntersRememberedPhase(a, reading) ==
    /\ reading.phase # Unread
    /\ reading.phase # RememberPhase(a, reading.phase, FALSE).lastPhase
    /\ reading.left # Unread
    /\ reading.spent # Unread

EntersPhase(a, reading) ==
    /\ reading.phase # Unread
    /\ reading.phase # a.lastPhase
    /\ reading.left # Unread
    /\ reading.spent # Unread

\* Mutant: the payback forgets max_total_green_s.
GrantWithoutHeadroom(a, reading) ==
    IF CompensationEnabled THEN Lesser(a.owed[reading.phase], MaxPerCycle) ELSE 0

\* _pay_compensation: how far the entered phase is lengthened.
Grant(a, reading) ==
    IF CompensationEnabled
    THEN Lesser(Lesser(a.owed[reading.phase], MaxPerCycle),
                 AtLeastZero(MaxTotalGreen - (reading.spent + reading.left)))
    ELSE 0

\* _reclaim_extension: how far it is shortened, never below the minimum green.
Take(a, reading) ==
    IF CoordinationRecoveryEnabled
    THEN Lesser(Lesser(a.reclaim[reading.phase], MaxPerCycle),
                 AtLeastZero(reading.left - AtLeastZero(MinGreen - reading.spent)))
    ELSE 0
=============================================================================
