------------------------------ MODULE Rationing ------------------------------
(***************************************************************************)
(* The part of TSPSafetyLayer (src/pps57_tsp/safety.py) that rations       *)
(* priority at one signal: the cooldown after an intervention, the number  *)
(* of consecutive interventions, and the recovery debt.  The layer keeps   *)
(* these in dictionaries keyed by TLS and reads only the entry of the TLS  *)
(* of the decision, so one record stands for one TLS.                      *)
(*                                                                         *)
(* The code stores times and compares them with sim_time_s; the record     *)
(* stores the ages instead.  "since" is sim_time_s - last_intervention and *)
(* stops at ResetWindow: from there on no comparison of the code changes,  *)
(* and a TLS that never intervened behaves like one at rest that long.     *)
(* "debtAge" is sim_time_s - recovery_debt_update_time and stops at debt:  *)
(* the payback has then covered all of it.                                 *)
(***************************************************************************)
EXTENDS Seconds

CONSTANTS
    Cooldown,        \* safety_constraints.cooldown_after_priority_s
    ExplicitWindow,  \* consecutive_interventions_reset_after_s, 0 if absent
    MaxConsecutive,  \* max_consecutive_priority_interventions_per_tls
    MaxRecoveryDebt, \* max_recovery_debt_s
    PaybackRate      \* recovery_debt_payback_rate_s_per_s

ASSUME RationingAssumption ==
    /\ Cooldown \in Nat \ {0}
    /\ ExplicitWindow \in Nat
    /\ MaxConsecutive \in Nat \ {0}
    /\ MaxRecoveryDebt \in Nat \ {0}
    /\ PaybackRate \in Nat \ {0}

\* An explicit window counts only when longer than the cooldown.
ResetWindow ==
    IF ExplicitWindow > Cooldown THEN ExplicitWindow ELSE 2 * Cooldown

Ration == [since : 0 .. ResetWindow, count : Nat, debt : Nat, debtAge : Nat]

Rested == [since |-> ResetWindow, count |-> 0, debt |-> 0, debtAge |-> 0]

\* One unit of simulated time passes.
Elapse(r) ==
    [since   |-> Lesser(r.since + 1, ResetWindow),
     count   |-> r.count,
     debt    |-> r.debt,
     debtAge |-> Lesser(r.debtAge + 1, r.debt)]

CooldownActive(r) == r.since < Cooldown

ResetCountAfterRecoveryWindow(r) ==
    IF r.since >= ResetWindow THEN [r EXCEPT !.count = 0] ELSE r

\* What is left of the debt once the time since its last update is paid back.
DebtNow(r) == AtLeastZero(r.debt - r.debtAge * PaybackRate)

\* Mutant: the update time advances and nothing is paid back.
RecoverNothing(r) == [r EXCEPT !.debtAge = 0]

RecoverDebt(r) ==
    [since |-> r.since, count |-> r.count, debt |-> DebtNow(r), debtAge |-> 0]

(***************************************************************************)
(* The rationing half of validate: what the ration is afterwards, and      *)
(* whether the decision goes on to the checks of its action.  A decision   *)
(* stopped by the cooldown leaves the ration alone; every other one resets *)
(* the counter when due, and an ordinary one also brings the debt up to    *)
(* date, whether or not it is approved in the end.                         *)
(***************************************************************************)
StoppedByCooldown(r, emergency, continuation) ==
    ~emergency /\ ~continuation /\ CooldownActive(r)

AfterValidate(r, emergency, continuation) ==
    IF StoppedByCooldown(r, emergency, continuation) THEN r
    ELSE IF emergency THEN ResetCountAfterRecoveryWindow(r)
    ELSE RecoverDebt(ResetCountAfterRecoveryWindow(r))

\* Mutant: the counter is compared one intervention too late.
AdmitsOneMore(r, emergency, continuation) ==
    LET checked == AfterValidate(r, emergency, continuation) IN
    /\ ~StoppedByCooldown(r, emergency, continuation)
    /\ ~emergency => checked.debt < MaxRecoveryDebt
    /\ ~emergency /\ ~continuation => checked.count <= MaxConsecutive

Admits(r, emergency, continuation) ==
    LET checked == AfterValidate(r, emergency, continuation) IN
    /\ ~StoppedByCooldown(r, emergency, continuation)
    /\ ~emergency => checked.debt < MaxRecoveryDebt
    /\ ~emergency /\ ~continuation => checked.count < MaxConsecutive

\* mark_applied, after a validate in the same step.
MarkApplied(r, continuation, added) ==
    [since   |-> 0,
     count   |-> IF continuation THEN r.count ELSE r.count + 1,
     debt    |-> DebtNow(r) + added,
     debtAge |-> 0]

\* Mutant: the debt is not floored at zero.
ReturnMoreThanOwed(r, returned) == [r EXCEPT !.debt = @ - returned]

\* return_recovery_debt: the update time is left as it was.
ReturnRecoveryDebt(r, returned) ==
    [r EXCEPT !.debt = AtLeastZero(@ - returned)]
=============================================================================
