--------------------------- MODULE PriorityBudget ----------------------------
(***************************************************************************)
(* What the rationing of TSPSafetyLayer (src/pps57_tsp/safety.py) promises *)
(* the traffic that crosses a bus at one signal, said without the way the  *)
(* code computes it.  Here every quantity is up to date at every moment:   *)
(* the code stores time stamps instead, and brings the counter and the     *)
(* debt up to date only when a decision reaches the check that reads them. *)
(***************************************************************************)
EXTENDS Integers

CONSTANTS
    Cooldown,         \* rest between two interventions
    Window,           \* rest that makes the next intervention a first one
    MaxConsecutive,   \* interventions without such a rest
    MaxDebt,          \* debt at which ordinary priority stops
    PaybackRate       \* debt paid back per second

VARIABLES
    idle,   \* seconds without an intervention, up to Window
    used,   \* interventions without a rest of Window
    owing,  \* the debt
    served  \* who obtained priority in this second, if anybody

budgetVars == <<idle, used, owing, served>>

Init == idle = Window /\ used = 0 /\ owing = 0 /\ served = "nobody"

\* A second passes: the rest grows, the debt is paid back.
Rest ==
    /\ idle' = IF idle < Window THEN idle + 1 ELSE idle
    /\ used' = IF idle' = Window THEN 0 ELSE used
    /\ owing' = IF owing > PaybackRate THEN owing - PaybackRate ELSE 0
    /\ served' = "nobody"

\* An ordinary vehicle obtains priority.
Intervene ==
    /\ idle >= Cooldown /\ used < MaxConsecutive /\ owing < MaxDebt
    /\ idle' = 0 /\ used' = used + 1 /\ owing' >= owing
    /\ served' = "ordinary"

\* It obtains more of the green it is already being given.
Continue ==
    /\ owing < MaxDebt
    /\ idle' = 0 /\ used' = used /\ owing' >= owing
    /\ served' = "ordinary"

\* An emergency vehicle is not rationed, but what it takes is counted: only
\* one that is being served may pass the three limits by.
Preempt ==
    /\ idle' = 0 /\ used' \in {used, used + 1} /\ owing' >= owing
    /\ served' = "emergency"

\* Extended green that was not needed is given back.
GiveBack == owing' \in 0 .. owing /\ UNCHANGED <<idle, used, served>>

Next == Rest \/ Intervene \/ Continue \/ Preempt \/ GiveBack

Spec == Init /\ [][Next]_budgetVars
=============================================================================
