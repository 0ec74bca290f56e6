------------------------- MODULE PrioritySignalProofs -------------------------
(***************************************************************************)
(* Theorems about the controlled signal: what the rationing does to its    *)
(* debt, its types, the bounds on its phases, the budget it keeps, and the *)
(* steps of the control loop.                                              *)
(***************************************************************************)
EXTENDS PrioritySignal, TLAPS

-----------------------------------------------------------------------------
(* The rationing, for every value of its limits.                           *)

\* The window after which the counter is reset is longer than the cooldown,
\* whether it is given explicitly or derived (safety.py, 525-542): otherwise
\* no request that passes the cooldown could ever meet the counter.
LEMMA WindowOutlastsCooldown ==
    /\ ResetWindow \in Nat
    /\ Cooldown < ResetWindow
BY RationingAssumption, SMT DEF ResetWindow

\* What is left of a debt is a number of seconds, and no more than the debt.
LEMMA DebtNowType ==
    ASSUME NEW r \in Ration
    PROVE  DebtNow(r) \in Nat /\ DebtNow(r) <= r.debt
<1>1. r.debt \in Nat /\ r.debtAge \in Nat
  BY DEF Ration
<1>2. r.debtAge * PaybackRate \in Nat
  BY <1>1, RationingAssumption, SMT
<1>. QED
  BY <1>1, <1>2, SMT DEF DebtNow, AtLeastZero

\* Every operation on a ration yields a ration.
LEMMA ElapseType ==
    ASSUME NEW r \in Ration
    PROVE  Elapse(r) \in Ration
<1>1. r.since \in 0 .. ResetWindow /\ r.debt \in Nat /\ r.debtAge \in Nat
  BY DEF Ration
<1>2. Lesser(r.since + 1, ResetWindow) \in 0 .. ResetWindow
  BY <1>1, WindowOutlastsCooldown, SMT DEF Lesser
<1>3. Lesser(r.debtAge + 1, r.debt) \in Nat
  BY <1>1, SMT DEF Lesser
<1>. QED
  BY <1>1, <1>2, <1>3 DEF Ration, Elapse

LEMMA RecoverDebtType ==
    ASSUME NEW r \in Ration
    PROVE  RecoverDebt(r) \in Ration
<1>1. DebtNow(r) \in Nat
  BY DebtNowType
<1>. QED
  BY <1>1 DEF Ration, RecoverDebt

LEMMA ResetCountType ==
    ASSUME NEW r \in Ration
    PROVE  ResetCountAfterRecoveryWindow(r) \in Ration
BY SMT DEF Ration, ResetCountAfterRecoveryWindow

LEMMA AfterValidateType ==
    ASSUME NEW r \in Ration, NEW e \in BOOLEAN, NEW c \in BOOLEAN
    PROVE  AfterValidate(r, e, c) \in Ration
BY RecoverDebtType, ResetCountType DEF AfterValidate

LEMMA MarkAppliedType ==
    ASSUME NEW r \in Ration, NEW c \in BOOLEAN, NEW added \in Nat
    PROVE  MarkApplied(r, c, added) \in Ration
<1>1. DebtNow(r) + added \in Nat
  BY DebtNowType, SMT
<1>. QED
  BY <1>1, WindowOutlastsCooldown, SMT DEF Ration, MarkApplied

LEMMA ReturnRecoveryDebtType ==
    ASSUME NEW r \in Ration, NEW returned \in Int
    PROVE  ReturnRecoveryDebt(r, returned) \in Ration
BY SMT DEF Ration, ReturnRecoveryDebt, AtLeastZero

-----------------------------------------------------------------------------
(* What each operation does to the debt, as it stands at that moment: the    *)
(* code's lazy updates (recover, mark, return) change nothing else.          *)

\* Bringing the debt up to date does not change what is left of it.
LEMMA RecoverDebtKeepsDebt ==
    ASSUME NEW r \in Ration
    PROVE  DebtNow(RecoverDebt(r)) = DebtNow(r)
<1>1. DebtNow(r) \in Nat
  BY DebtNowType
<1>2. RecoverDebt(r).debt = DebtNow(r) /\ RecoverDebt(r).debtAge = 0
  BY DEF RecoverDebt, Ration
<1>3. DebtNow(RecoverDebt(r)) = AtLeastZero(DebtNow(r) - 0 * PaybackRate)
  BY <1>2 DEF DebtNow
<1>4. 0 * PaybackRate = 0
  BY RationingAssumption, SMT
<1>. QED
  BY <1>1, <1>3, <1>4, SMT DEF AtLeastZero

LEMMA ResetCountKeepsDebt ==
    ASSUME NEW r \in Ration
    PROVE  DebtNow(ResetCountAfterRecoveryWindow(r)) = DebtNow(r)
BY DEF ResetCountAfterRecoveryWindow, DebtNow, Ration

LEMMA AfterValidateKeepsDebt ==
    ASSUME NEW r \in Ration, NEW e \in BOOLEAN, NEW c \in BOOLEAN
    PROVE  DebtNow(AfterValidate(r, e, c)) = DebtNow(r)
BY ResetCountKeepsDebt, ResetCountType, RecoverDebtKeepsDebt DEF AfterValidate

\* A second pays back the rate, down to zero; an age that has reached the debt
\* stops there because nothing is left by then.
LEMMA ElapsePaysBack ==
    ASSUME NEW r \in Ration
    PROVE  DebtNow(Elapse(r)) =
               IF DebtNow(r) > PaybackRate THEN DebtNow(r) - PaybackRate ELSE 0
<1>. DEFINE d == r.debt
            a == r.debtAge
<1>1. d \in Nat /\ a \in Nat /\ PaybackRate \in Nat /\ PaybackRate >= 1
  BY RationingAssumption, SMT DEF Ration
<1>2. Elapse(r).debt = d /\ Elapse(r).debtAge = Lesser(a + 1, d)
  BY DEF Elapse, Ration
<1>3. CASE a + 1 <= d
  <2>1. Elapse(r).debtAge = a + 1
    BY <1>2, <1>3 DEF Lesser
  <2>2. (a + 1) * PaybackRate = a * PaybackRate + PaybackRate
    BY <1>1, SMT
  <2>3. a * PaybackRate \in Nat
    BY <1>1, SMT
  <2>4. DebtNow(Elapse(r)) = AtLeastZero(d - (a * PaybackRate + PaybackRate))
    BY <1>2, <2>1, <2>2 DEF DebtNow
  <2>5. DebtNow(r) = AtLeastZero(d - a * PaybackRate)
    BY DEF DebtNow
  <2>. QED
    BY <1>1, <2>3, <2>4, <2>5, SMT DEF AtLeastZero
<1>4. CASE ~(a + 1 <= d)
  <2>1. Elapse(r).debtAge = d
    BY <1>2, <1>4 DEF Lesser
  <2>2. d * PaybackRate >= d /\ a * PaybackRate >= a
    BY <1>1, SMT
  <2>3. d * PaybackRate \in Nat /\ a * PaybackRate \in Nat
    BY <1>1, SMT
  <2>4. DebtNow(Elapse(r)) = AtLeastZero(d - d * PaybackRate)
    BY <1>2, <2>1 DEF DebtNow
  <2>5. DebtNow(r) = AtLeastZero(d - a * PaybackRate)
    BY DEF DebtNow
  <2>6. a >= d
    BY <1>1, <1>4, SMT
  <2>. QED
    BY <1>1, <2>2, <2>3, <2>4, <2>5, <2>6, SMT DEF AtLeastZero
<1>. QED
  BY <1>3, <1>4

\* An intervention adds exactly what it perturbs.
LEMMA MarkAppliedAddsDebt ==
    ASSUME NEW r \in Ration, NEW c \in BOOLEAN, NEW added \in Nat
    PROVE  DebtNow(MarkApplied(r, c, added)) = DebtNow(r) + added
<1>1. DebtNow(r) \in Nat
  BY DebtNowType
<1>2. MarkApplied(r, c, added).debt = DebtNow(r) + added
  BY DEF MarkApplied
<1>3. MarkApplied(r, c, added).debtAge = 0
  BY DEF MarkApplied
<1>4. ASSUME NEW m, m.debt = DebtNow(r) + added, m.debtAge = 0
      PROVE  DebtNow(m) = DebtNow(r) + added
  <2>1. m.debt - m.debtAge * PaybackRate = DebtNow(r) + added
    BY <1>1, <1>4, RationingAssumption, SMT
  <2>2. DebtNow(m) = AtLeastZero(DebtNow(r) + added)
    BY <2>1 DEF DebtNow
  <2>. QED
    BY <1>1, <2>2, SMT DEF AtLeastZero
<1>. QED
  BY <1>2, <1>3, <1>4

\* Returned green lowers the debt, whatever part of it is already paid back.
LEMMA ReturnLowersDebt ==
    ASSUME NEW r \in Ration, NEW returned \in Nat
    PROVE  DebtNow(ReturnRecoveryDebt(r, returned)) \in 0 .. DebtNow(r)
<1>. DEFINE paid == r.debtAge * PaybackRate
<1>1. r.debt \in Nat /\ paid \in Nat
  BY RationingAssumption, SMT DEF Ration
<1>2. DebtNow(ReturnRecoveryDebt(r, returned)) =
          AtLeastZero(AtLeastZero(r.debt - returned) - paid)
  BY DEF ReturnRecoveryDebt, DebtNow, Ration
<1>3. DebtNow(r) = AtLeastZero(r.debt - paid)
  BY DEF DebtNow
<1>. QED
  BY <1>1, <1>2, <1>3, SMT DEF AtLeastZero

-----------------------------------------------------------------------------
(* Operators on the accounts and the events yield accounts and events.      *)

LEMMA NothingOwedType == NothingOwed \in Accounts
BY DEF NothingOwed, Accounts

LEMMA RegisterEarlyGreenType ==
    ASSUME NEW a \in Accounts, NEW p \in Phases,
           NEW l \in Nat \cup {Unread}, NEW to \in Nat
    PROVE  RegisterEarlyGreen(a, p, l, to) \in Accounts
<1>1. CASE CompensationEnabled /\ l # Unread
  <2>1. AtLeastZero(l - to) \in Nat
    BY <1>1, SMT DEF AtLeastZero
  <2>2. a.owed[p] + AtLeastZero(l - to) \in Nat
    BY <2>1, SMT DEF Accounts
  <2>. QED
    BY <1>1, <2>2 DEF Accounts, RegisterEarlyGreen
<1>2. CASE ~(CompensationEnabled /\ l # Unread)
  BY <1>2 DEF RegisterEarlyGreen
<1>. QED
  BY <1>1, <1>2

LEMMA RegisterGreenExtensionType ==
    ASSUME NEW a \in Accounts, NEW p \in Phases, NEW extension \in Nat
    PROVE  RegisterGreenExtension(a, p, extension) \in Accounts
<1>1. a.reclaim[p] + extension \in Nat
  BY SMT DEF Accounts
<1>. QED
  BY <1>1 DEF Accounts, RegisterGreenExtension

LEMMA ReduceReclaimType ==
    ASSUME NEW a \in Accounts, NEW p \in Phases, NEW returned \in Int
    PROVE  ReduceReclaim(a, p, returned) \in Accounts
<1>1. AtLeastZero(a.reclaim[p] - returned) \in Nat
  BY SMT DEF Accounts, AtLeastZero
<1>. QED
  BY <1>1 DEF Accounts, ReduceReclaim

LEMMA RememberPhaseType ==
    ASSUME NEW a \in Accounts, NEW p \in Phases \cup {Unread}, NEW s \in BOOLEAN
    PROVE  RememberPhase(a, p, s) \in Accounts
BY DEF Accounts, RememberPhase

\* Remembering a phase touches no account.
LEMMA RememberPhaseKeepsAccounts ==
    ASSUME NEW a \in Accounts, NEW p, NEW s \in BOOLEAN
    PROVE  /\ RememberPhase(a, p, s).owed = a.owed
           /\ RememberPhase(a, p, s).reclaim = a.reclaim
BY DEF Accounts, RememberPhase

\* A payback is owed, and fits under max_total_green_s.
LEMMA GrantBounds ==
    ASSUME NEW a \in Accounts, NEW r \in Reading, r.phase # Unread,
           r.spent # Unread, r.left # Unread
    PROVE  /\ Grant(a, r) \in Nat
           /\ Grant(a, r) <= a.owed[r.phase]
           /\ Grant(a, r) > 0 => r.spent + r.left + Grant(a, r) <= MaxTotalGreen
<1>1. r.phase \in Phases /\ r.spent \in Nat /\ r.left \in Nat
  BY DEF Reading
<1>2. a.owed[r.phase] \in Nat
  BY <1>1 DEF Accounts
<1>. QED
  BY <1>1, <1>2, CompensationAssumption, SMT DEF Grant, Lesser, AtLeastZero

\* A reclaim is due, and leaves min_green_s to the phase.
LEMMA TakeBounds ==
    ASSUME NEW a \in Accounts, NEW r \in Reading, r.phase # Unread,
           r.spent # Unread, r.left # Unread
    PROVE  /\ Take(a, r) \in Nat
           /\ Take(a, r) <= a.reclaim[r.phase]
           /\ Take(a, r) <= r.left
           /\ Take(a, r) > 0 => r.spent + r.left - Take(a, r) >= MinGreen
<1>1. r.phase \in Phases /\ r.spent \in Nat /\ r.left \in Nat
  BY DEF Reading
<1>2. a.reclaim[r.phase] \in Nat
  BY <1>1 DEF Accounts
<1>. QED
  BY <1>1, <1>2, CompensationAssumption, SMT DEF Take, Lesser, AtLeastZero

-----------------------------------------------------------------------------
(* Types.                                                                   *)

LEMMA ReadType ==
    ASSUME NEW p \in Phases, NEW s \in Nat, NEW l \in Nat, NEW fault
    PROVE  Read(p, s, l, fault) \in Reading
BY DEF Read, Reading

LEMMA NextPhaseType ==
    ASSUME NEW p \in Phases
    PROVE  NextPhase(p) \in Phases /\ NextPhase(p) # p
BY SignalAssumption, SMT DEF NextPhase

\* An extension that is granted stays within the budget and the ceiling.
LEMMA SafeExtensionBounds ==
    ASSUME TypeOK, NEW v \in Vehicles, NEW asked \in Extensions,
           reading.left # Unread, reading.spent # Unread, SafeExtension(v, asked) > 0
    PROVE  /\ SafeExtension(v, asked) \in Nat
           /\ reading.spent + reading.left + SafeExtension(v, asked) <= MaxTotalGreen
           /\ SafeExtension(v, asked) <= MaxExtension
           /\ Continues(v) =>
                 events[v].granted + SafeExtension(v, asked) <= MaxExtension
<1>1. reading.left \in Nat /\ reading.spent \in Nat /\ asked \in Nat
  BY SignalAssumption DEF TypeOK, Reading
<1>2. Continues(v) => events[v].granted \in Nat
  BY DEF Continues, TypeOK, Event
<1>3. /\ MaxExtension \in Nat /\ MaxTotalGreen \in Nat /\ GroupMaxGreen \in Nat
  BY SignalAssumption, CompensationAssumption, SMT
<1>. QED
  BY <1>1, <1>2, <1>3, SMT DEF SafeExtension, Lesser

LEMMA RegisterEventType ==
    ASSUME TypeOK, NEW v \in Vehicles, NEW granted \in Nat,
           reading.phase # Unread, reading.left # Unread
    PROVE  /\ RegisterEvent(v, granted) \in [Vehicles -> Event \cup {NoEvent}]
           /\ \A w \in Vehicles :
                  events[w] # NoEvent => RegisterEvent(v, granted)[w] # NoEvent
<1>1. reading.phase \in Phases /\ reading.left \in Nat
  BY DEF TypeOK, Reading
<1>2. events \in [Vehicles -> Event \cup {NoEvent}]
  BY DEF TypeOK
<1>3. CASE Continues(v)
  <2>1. events[v] \in Event
    BY <1>2, <1>3 DEF Continues
  <2>2. events[v].granted + granted \in Nat
    BY <2>1, SMT DEF Event
  <2>3. [events[v] EXCEPT !.granted = @ + granted] \in Event
    BY <2>1, <2>2 DEF Event
  <2>4. RegisterEvent(v, granted) =
            [events EXCEPT ![v] = [events[v] EXCEPT !.granted = @ + granted]]
    BY <1>2, <1>3 DEF RegisterEvent, Continues
  <2>5. \A e \in Event :
            /\ [events EXCEPT ![v] = e] \in [Vehicles -> Event \cup {NoEvent}]
            /\ \A w \in Vehicles :
                   events[w] # NoEvent => [events EXCEPT ![v] = e][w] # NoEvent
    BY <1>2, SignalAssumption
  <2>. QED
    BY <2>3, <2>4, <2>5
<1>4. CASE ~Continues(v)
  <2>1. [phase |-> reading.phase, originalLeft |-> reading.left,
         granted |-> granted] \in Event
    BY <1>1 DEF Event
  <2>. QED
    BY <1>2, <1>4, <2>1, SignalAssumption DEF RegisterEvent
<1>. QED
  BY <1>3, <1>4

LEMMA ProgramAdvancesType ==
    ASSUME TypeOK, ProgramAdvances
    PROVE  phase' \in Phases /\ spent' \in Nat /\ left' \in Nat
<1>1. phase \in Phases /\ spent \in Nat /\ left \in Nat
  BY DEF TypeOK
<1>2. NextPhase(phase) \in Phases
  BY <1>1, NextPhaseType
<1>3. PlanDuration[NextPhase(phase)] \in Nat
  BY <1>2, SignalAssumption
<1>. QED
  BY <1>1, <1>2, <1>3, SMT DEF ProgramAdvances

LEMMA EventNearsItsEndType ==
    ASSUME NEW e \in Event \cup {NoEvent}
    PROVE  EventNearsItsEnd(e) \in Event \cup {NoEvent}
<1>1. CASE e # NoEvent
  <2>1. e \in Event
    BY <1>1
  <2>2. AtLeastZero(e.originalLeft - 1) \in Nat
    BY <2>1, SMT DEF Event, AtLeastZero
  <2>. QED
    BY <1>1, <2>1, <2>2 DEF Event, EventNearsItsEnd
<1>2. CASE e = NoEvent
  BY <1>2 DEF EventNearsItsEnd
<1>. QED
  BY <1>1, <1>2

LEMMA ContinuesType == \A v : Continues(v) \in BOOLEAN
BY SignalAssumption DEF Continues

LEMMA InitType == Init => TypeOK
<1>. SUFFICES ASSUME Init PROVE TypeOK
  OBVIOUS
<1>1. 0 \in Phases
  BY SignalAssumption, SMT
<1>2. PlanDuration[0] \in Nat
  BY <1>1, SignalAssumption
<1>3. reading \in Reading
  BY <1>1, <1>2, ReadType DEF Init
<1>4. ration \in Ration
  BY WindowOutlastsCooldown, SMT DEF Init, Rested, Ration
<1>5. accounts \in Accounts
  BY NothingOwedType DEF Init
<1>. QED
  BY <1>1, <1>2, <1>3, <1>4, <1>5 DEF Init, TypeOK

LEMMA SimulationStepType == TypeOK /\ SimulationStep => TypeOK'
<1>. SUFFICES ASSUME TypeOK, SimulationStep PROVE TypeOK'
  OBVIOUS
<1>1. phase' \in Phases /\ spent' \in Nat /\ left' \in Nat
  BY ProgramAdvancesType DEF SimulationStep
<1>2. reading' \in Reading
  BY <1>1, ReadType DEF SimulationStep
<1>3. ration' \in Ration
  BY ElapseType DEF SimulationStep, TypeOK
<1>4. events' \in [Vehicles -> Event \cup {NoEvent}]
  BY EventNearsItsEndType DEF SimulationStep, TypeOK
<1>. QED
  BY <1>1, <1>2, <1>3, <1>4 DEF SimulationStep, TypeOK

\* The ration after a validation, for the class of the vehicle that asks.
LEMMA ValidatedRation ==
    ASSUME TypeOK, NEW v \in Vehicles, NEW c \in BOOLEAN
    PROVE  AfterValidate(ration, v \in Emergency, c) \in Ration
BY ResetCountType, RecoverDebtType DEF AfterValidate, TypeOK

LEMMA RefusedDecisionType ==
    ASSUME TypeOK, NEW v \in Vehicles, NEW c \in BOOLEAN, RefusedDecision(v, c)
    PROVE  TypeOK'
<1>1. ration' \in Ration
  BY ValidatedRation DEF RefusedDecision, TypeOK
<1>. QED
  BY <1>1 DEF RefusedDecision, TypeOK, plant, loop

LEMMA GreenExtensionType ==
    ASSUME TypeOK, NEW v \in Vehicles, NEW asked \in Extensions,
           GreenExtension(v, asked)
    PROVE  TypeOK'
<1>. DEFINE granted == SafeExtension(v, asked)
<1>1. granted \in Nat
  BY SafeExtensionBounds DEF GreenExtension
<1>2. reading.phase \in Phases /\ reading.phase # Unread /\ reading.left \in Nat
  <2>1. reading.phase = TargetPhase[v] /\ reading.left # Unread
    BY DEF GreenExtension
  <2>2. TargetPhase[v] \in Phases
    BY SignalAssumption
  <2>3. reading \in Reading
    BY DEF TypeOK
  <2>. QED
    BY <2>1, <2>2, <2>3, CompensationAssumption DEF Reading
<1>3. reading.left + granted \in Nat
  BY <1>1, <1>2, SMT
<1>4. left' \in Nat /\ intervened' \in BOOLEAN /\ commanded' \in BOOLEAN
  BY <1>3 DEF GreenExtension, SendsDuration, TypeOK
<1>5. ration' \in Ration
  BY <1>1, ValidatedRation, MarkAppliedType, ContinuesType DEF GreenExtension
<1>6. accounts' \in Accounts
  BY <1>1, <1>2, RegisterGreenExtensionType DEF GreenExtension, TypeOK
<1>7. events' \in [Vehicles -> Event \cup {NoEvent}]
  BY <1>1, <1>2, RegisterEventType DEF GreenExtension
<1>8. served' \in {"ordinary", "emergency"}
  BY DEF GreenExtension, ClassOf
<1>. QED
  BY <1>4, <1>5, <1>6, <1>7, <1>8 DEF GreenExtension, SendsDuration, TypeOK

LEMMA EarlyGreenType ==
    ASSUME TypeOK, NEW v \in Vehicles, NEW to \in Truncations, EarlyGreen(v, to)
    PROVE  TypeOK'
<1>. DEFINE added == TruncationDebt(reading.left, to)
<1>1. reading.phase \in Phases
  BY DEF EarlyGreen, TypeOK, Reading
<1>2. reading.left \in Nat \cup {Unread} /\ to \in Nat
  BY SignalAssumption DEF TypeOK, Reading
<1>3. added \in Nat
  BY <1>2, SMT DEF TruncationDebt, AtLeastZero
<1>4. left' \in Nat /\ intervened' \in BOOLEAN /\ commanded' \in BOOLEAN
  BY <1>2 DEF EarlyGreen, SendsDuration, TypeOK
<1>5. ration' \in Ration
  BY <1>3, ValidatedRation, MarkAppliedType DEF EarlyGreen
<1>6. accounts' \in Accounts
  BY <1>1, <1>2, RegisterEarlyGreenType DEF EarlyGreen, TypeOK
<1>7. served' \in {"ordinary", "emergency"}
  BY DEF EarlyGreen, ClassOf
<1>. QED
  BY <1>4, <1>5, <1>6, <1>7 DEF EarlyGreen, SendsDuration, TypeOK

\* The two instalments of a phase that is entered.
LEMMA PaysBackType ==
    ASSUME TypeOK, EntersPhase(accounts, reading), PaysBack
    PROVE  left' \in Nat /\ accounts' \in Accounts /\ commanded' \in BOOLEAN
<1>. DEFINE grant == Grant(accounts, reading)
            before == RememberPhase(accounts, reading.phase, FALSE)
<1>1. reading.phase \in Phases /\ reading.left \in Nat /\ reading.spent \in Nat
  BY DEF EntersPhase, TypeOK, Reading
<1>2. grant \in Nat /\ grant <= accounts.owed[reading.phase]
  BY GrantBounds DEF EntersPhase, TypeOK
<1>3. before \in Accounts /\ before.owed = accounts.owed
  BY <1>1, RememberPhaseType, RememberPhaseKeepsAccounts DEF TypeOK
<1>4. before.owed[reading.phase] - grant \in Nat
  <2>1. accounts.owed[reading.phase] \in Nat
    BY <1>1 DEF TypeOK, Accounts
  <2>2. accounts.owed[reading.phase] - grant \in Nat
    BY <2>1, <1>2, SMT
  <2>. QED
    BY <2>2, <1>3
<1>5. accounts' \in Accounts
  <2>1. accounts' = [before EXCEPT !.owed[reading.phase] = @ - grant]
    BY DEF PaysBack
  <2>. HIDE DEF before, grant
  <2>. QED
    BY <2>1, <1>1, <1>3, <1>4 DEF Accounts
<1>6. left' \in Nat
  BY <1>1, <1>2, SMT DEF PaysBack
<1>. QED
  BY <1>5, <1>6 DEF PaysBack

LEMMA TakesBackType ==
    ASSUME TypeOK, EntersPhase(accounts, reading), TakesBack
    PROVE  left' \in Nat /\ accounts' \in Accounts /\ commanded' \in BOOLEAN
<1>. DEFINE take == Take(accounts, reading)
            before == RememberPhase(accounts, reading.phase, FALSE)
<1>1. reading.phase \in Phases /\ reading.left \in Nat /\ reading.spent \in Nat
  BY DEF EntersPhase, TypeOK, Reading
<1>2. /\ take \in Nat /\ take <= accounts.reclaim[reading.phase]
      /\ take <= reading.left
  BY TakeBounds DEF EntersPhase, TypeOK
<1>3. before \in Accounts /\ before.reclaim = accounts.reclaim
  BY <1>1, RememberPhaseType, RememberPhaseKeepsAccounts DEF TypeOK
<1>4. before.reclaim[reading.phase] - take \in Nat
  <2>1. accounts.reclaim[reading.phase] \in Nat
    BY <1>1 DEF TypeOK, Accounts
  <2>2. accounts.reclaim[reading.phase] - take \in Nat
    BY <2>1, <1>2, SMT
  <2>. QED
    BY <2>2, <1>3
<1>5. accounts' \in Accounts
  <2>1. accounts' = [before EXCEPT !.reclaim[reading.phase] = @ - take]
    BY DEF TakesBack
  <2>. HIDE DEF before, take
  <2>. QED
    BY <2>1, <1>1, <1>3, <1>4 DEF Accounts
<1>6. left' \in Nat
  BY <1>1, <1>2, SMT DEF TakesBack
<1>. QED
  BY <1>5, <1>6 DEF TakesBack

LEMMA CompensationStepType == TypeOK /\ CompensationStep => TypeOK'
<1>. SUFFICES ASSUME TypeOK, CompensationStep PROVE TypeOK'
  OBVIOUS
<1>1. left' \in Nat /\ accounts' \in Accounts /\ commanded' \in BOOLEAN
  <2>1. CASE OnlyRemembers
    <3>1. reading.phase \in Phases \cup {Unread} /\ intervened \in BOOLEAN
      BY DEF TypeOK, Reading
    <3>. QED
      BY <2>1, <3>1, RememberPhaseType DEF OnlyRemembers, TypeOK
  <2>2. CASE EntersPhase(accounts, reading) /\ PaysBack
    BY <2>2, PaysBackType
  <2>3. CASE EntersPhase(accounts, reading) /\ TakesBack
    BY <2>3, TakesBackType
  <2>. QED
    BY <2>1, <2>2, <2>3 DEF CompensationStep
<1>2. pending' \subseteq Vehicles /\ stage' \in {"decide", "events"}
  BY DEF CompensationStep
<1>. QED
  BY <1>1, <1>2 DEF CompensationStep, TypeOK

LEMMA CheckOutType ==
    ASSUME TypeOK, NEW v \in Vehicles, events[v] # NoEvent, CheckOut(v)
    PROVE  TypeOK'
<1>. DEFINE returned == reading.left - events[v].originalLeft
<1>1. events[v] \in Event /\ reading.left \in Nat
  BY DEF CheckOut, ChecksOut, TypeOK, Reading
<1>2. returned \in Int /\ events[v].originalLeft \in Nat /\ reading.phase \in Phases
  BY <1>1, SMT DEF Event, CheckOut, ChecksOut
<1>3. left' \in Nat
  BY <1>2 DEF CheckOut, TypeOK
<1>4. ration' \in Ration
  BY <1>2, ReturnRecoveryDebtType DEF CheckOut, TypeOK
<1>5. accounts' \in Accounts
  BY <1>2, ReduceReclaimType DEF CheckOut, TypeOK
<1>. QED
  BY <1>3, <1>4, <1>5 DEF CheckOut, Visits, LeavesLoop, TypeOK

\* An event still to be visited in a step is open: visiting closes at most the
\* visited one.
PendingOpen == \A v \in pending : events[v] # NoEvent

LEMMA TypeStep == TypeOK /\ PendingOpen /\ [Next]_vars => TypeOK' /\ PendingOpen'
<1>. SUFFICES ASSUME TypeOK, PendingOpen, [Next]_vars
              PROVE  TypeOK' /\ PendingOpen'
  OBVIOUS
<1>1. CASE SimulationStep
  <2>1. PendingOpen'
    BY <1>1 DEF SimulationStep, PendingOpen
  <2>. QED
    BY <1>1, <2>1, SimulationStepType
<1>2. CASE \E v \in Vehicles, c \in BOOLEAN : RefusedDecision(v, c)
  <2>1. PendingOpen'
    BY <1>2 DEF RefusedDecision, PendingOpen, loop
  <2>. QED
    BY <1>2, <2>1, RefusedDecisionType
<1>3. ASSUME NEW v \in Vehicles, NEW asked \in Extensions, GreenExtension(v, asked)
      PROVE  TypeOK' /\ PendingOpen'
  <2>1. TypeOK'
    BY <1>3, GreenExtensionType
  <2>2. PendingOpen'
    <3>1. reading.phase # Unread /\ reading.left # Unread
      <4>1. TargetPhase[v] \in Phases
        BY SignalAssumption
      <4>. QED
        BY <1>3, <4>1, CompensationAssumption DEF GreenExtension
    <3>2. SafeExtension(v, asked) \in Nat
      BY <1>3, SafeExtensionBounds DEF GreenExtension
    <3>3. \A w \in Vehicles : events[w] # NoEvent => events'[w] # NoEvent
      BY <1>3, <3>1, <3>2, RegisterEventType DEF GreenExtension
    <3>. QED
      BY <1>3, <3>3 DEF GreenExtension, SendsDuration, PendingOpen, TypeOK
  <2>. QED
    BY <2>1, <2>2
<1>4. CASE \E v \in Vehicles, to \in Truncations : EarlyGreen(v, to)
  <2>1. PendingOpen'
    BY <1>4 DEF EarlyGreen, SendsDuration, PendingOpen
  <2>. QED
    BY <1>4, <2>1, EarlyGreenType
<1>5. CASE CompensationStep
  <2>1. PendingOpen'
    BY <1>5 DEF CompensationStep, PendingOpen
  <2>. QED
    BY <1>5, <2>1, CompensationStepType
<1>6. ASSUME NEW v \in Vehicles,
             EventEndsWithItsPhase(v) \/ EventGoesOn(v) \/ CheckOut(v)
      PROVE  TypeOK' /\ PendingOpen'
  <2>1. events[v] # NoEvent
    BY <1>6 DEF EventEndsWithItsPhase, EventGoesOn, CheckOut, Visits, PendingOpen
  <2>2. TypeOK'
    <3>1. CASE EventEndsWithItsPhase(v)
      BY <3>1 DEF EventEndsWithItsPhase, Visits, LeavesLoop, TypeOK
    <3>2. CASE EventGoesOn(v)
      BY <3>2 DEF EventGoesOn, Visits, LeavesLoop, books, TypeOK
    <3>3. CASE CheckOut(v)
      BY <3>3, <2>1, CheckOutType
    <3>. QED
      BY <1>6, <3>1, <3>2, <3>3
  <2>3. pending' = pending \ {v}
    BY <1>6 DEF EventEndsWithItsPhase, EventGoesOn, CheckOut, Visits
  <2>4. \A w \in Vehicles : w # v => events'[w] = events[w]
    BY <1>6 DEF EventEndsWithItsPhase, EventGoesOn, CheckOut, books, TypeOK
  <2>. QED
    BY <2>2, <2>3, <2>4 DEF PendingOpen, TypeOK
<1>7. CASE UNCHANGED vars
  BY <1>7 DEF vars, plant, books, loop, TypeOK, PendingOpen
<1>. QED
  BY <1>1, <1>2, <1>3, <1>4, <1>5, <1>6, <1>7, ContinuesType DEF Next

\* Every reachable state of the controlled signal is well typed: no duration,
\* account or debt ever falls below zero, whatever is subtracted from it.
THEOREM TypeCorrect == Spec => []TypeOK
<1>1. Init => TypeOK /\ PendingOpen
  BY InitType DEF Init, PendingOpen
<1>. QED
  BY <1>1, TypeStep, PTL DEF Spec

-----------------------------------------------------------------------------
(* The plan is kept: TotalGreenBound, MinGreenKept and IntergreenUntouched. *)

\* An early green is only tried on a signal whose remaining time is read: the
\* Safety Layer approves one without it (safety.py, 468-471), and it may then
\* lengthen the phase it means to cut.
NoBlindTruncation == "early_green" \in AllowedActions => "switch" \notin ReadFaults

LEMMA PlanTypes ==
    /\ \A p \in Phases : PlanDuration[p] \in Nat /\ PlanDuration[p] >= 1
    /\ MinGreen \in Nat /\ MaxTotalGreen \in Nat
    /\ Unread \notin Nat /\ Unread \notin Phases
BY SignalAssumption, CompensationAssumption, SMT

\* A phase that starts, starts as planned.
LEMMA PlannedPhase ==
    ASSUME NEW p \in Phases
    PROVE  WithinPlan(p, 0, PlanDuration[p])
BY PlanTypes, SMT DEF WithinPlan, Greater, Lesser

LEMMA InitPlan == Init => PlanInv
<1>. SUFFICES ASSUME Init PROVE PlanInv
  OBVIOUS
<1>1. 0 \in Phases
  BY SignalAssumption, SMT
<1>2. WithinPlan(0, 0, PlanDuration[0])
  BY <1>1, PlannedPhase
<1>3. PlanDuration[0] # Unread
  BY <1>1, PlanTypes
<1>4. ReadingOfThisStep
  BY <1>2, <1>3 DEF Init, Read, ReadingOfThisStep
<1>5. OnlyGreensBooked
  BY DEF Init, NothingOwed, OnlyGreensBooked
<1>. QED
  BY <1>2, <1>4, <1>5 DEF Init, PlanInv, EventsRestorePlan

\* As time passes, an open event nears its end without leaving the plan.
LEMMA EventStaysWithinPlan ==
    ASSUME TypeOK, NEW e \in Event, left > 1, WithinPlan(phase, spent, left),
           e.phase = phase, phase \in GreenPhases,
           WithinPlan(phase, spent, e.originalLeft)
    PROVE  WithinPlan(phase, spent + 1, AtLeastZero(e.originalLeft - 1))
<1>1. e.originalLeft \in Nat /\ spent \in Nat /\ left \in Nat /\ phase \in Phases
  BY DEF Event, TypeOK
<1>2. PlanDuration[phase] \in Nat
  BY <1>1, PlanTypes
<1>. QED
  BY <1>1, <1>2, PlanTypes, SMT DEF WithinPlan, Greater, Lesser, AtLeastZero

LEMMA SimulationStepPlan ==
    ASSUME TypeOK, PlanInv, SimulationStep
    PROVE  PlanInv'
<1>1. phase \in Phases /\ spent \in Nat /\ left \in Nat
  BY DEF TypeOK
<1>2. phase' \in Phases /\ spent' \in Nat /\ left' \in Nat
  BY ProgramAdvancesType DEF SimulationStep
<1>3. WithinPlan(phase, spent, left)' 
  <2>1. CASE left > 1
    <3>1. phase' = phase /\ spent' = spent + 1 /\ left' = left - 1
      BY <2>1 DEF SimulationStep, ProgramAdvances
    <3>2. spent' + left' = spent + left
      BY <1>1, <3>1, SMT
    <3>. QED
      BY <3>1, <3>2 DEF PlanInv, WithinPlan
  <2>2. CASE ~(left > 1)
    <3>1. phase' = NextPhase(phase) /\ spent' = 0 /\ left' = PlanDuration[NextPhase(phase)]
      BY <2>2 DEF SimulationStep, ProgramAdvances
    <3>2. WithinPlan(NextPhase(phase), 0, PlanDuration[NextPhase(phase)])
      BY <1>1, NextPhaseType, PlannedPhase
    <3>. QED
      BY <3>1, <3>2 DEF WithinPlan
  <2>. QED
    BY <2>1, <2>2
<1>4. ReadingOfThisStep'
  <2>1. PICK fault \in ReadFaults : reading' = Read(phase', spent', left', fault)
    BY DEF SimulationStep
  <2>2. left' # Unread
    BY <1>2, PlanTypes
  <2>3. reading'.left \in {left', Unread} /\ (fault # "switch" => reading'.left = left')
    BY <2>1 DEF Read
  <2>4. reading'.phase \in {phase', Unread} /\ reading'.spent \in {spent', Unread}
    BY <2>1 DEF Read
  <2>5. reading'.left # Unread => WithinPlan(phase, spent, reading.left)'
    BY <1>3, <2>3 DEF WithinPlan
  <2>. QED
    BY <2>2, <2>3, <2>4, <2>5 DEF ReadingOfThisStep
<1>5. EventsRestorePlan'
  <2>. SUFFICES ASSUME NEW v \in Vehicles, events'[v] # NoEvent
                PROVE  /\ events'[v].phase \in GreenPhases
                       /\ events'[v].phase = phase' =>
                             WithinPlan(phase, spent, events[v].originalLeft)'
    BY DEF EventsRestorePlan, SimulationStep
  <2>1. events'[v] = EventNearsItsEnd(events[v])
    BY DEF SimulationStep
  <2>2. events[v] # NoEvent /\ events[v] \in Event
    BY <2>1 DEF EventNearsItsEnd, TypeOK
  <2>3. events'[v].phase = events[v].phase
    BY <2>1, <2>2 DEF EventNearsItsEnd, Event
  <2>4. events'[v].originalLeft = AtLeastZero(events[v].originalLeft - 1)
    BY <2>1, <2>2 DEF EventNearsItsEnd, Event
  <2>5. events[v].phase = phase /\ phase \in GreenPhases
    BY <2>2 DEF PlanInv, EventsRestorePlan, SimulationStep
  <2>6. CASE left > 1
    <3>1. phase' = phase /\ spent' = spent + 1
      BY <2>6 DEF SimulationStep, ProgramAdvances
    <3>2. WithinPlan(phase, spent, events[v].originalLeft)
      BY <2>2, <2>5 DEF PlanInv, EventsRestorePlan
    <3>3. WithinPlan(phase, spent + 1, AtLeastZero(events[v].originalLeft - 1))
      BY <2>2, <2>5, <2>6, <3>2, EventStaysWithinPlan DEF PlanInv
    <3>. QED
      BY <2>3, <2>4, <2>5, <3>1, <3>3 DEF WithinPlan
  <2>7. CASE ~(left > 1)
    <3>1. phase' # phase
      BY <1>1, <2>7, NextPhaseType DEF SimulationStep, ProgramAdvances
    <3>. QED
      BY <2>3, <2>5, <3>1
  <2>. QED
    BY <2>6, <2>7
<1>. QED
  BY <1>3, <1>4, <1>5 DEF PlanInv, OnlyGreensBooked, SimulationStep

\* A command replaces the remaining time of the phase or, lost, leaves it.
LEMMA SentWithinPlan ==
    ASSUME NEW d, WithinPlan(phase, spent, left), WithinPlan(phase, spent, d),
           SendsDuration(d)
    PROVE  WithinPlan(phase, spent, left)'
BY DEF SendsDuration, WithinPlan

LEMMA GreenExtensionPlan ==
    ASSUME TypeOK, PlanInv, NEW v \in Vehicles, NEW asked \in Extensions,
           GreenExtension(v, asked)
    PROVE  PlanInv'
<1>. DEFINE granted == SafeExtension(v, asked)
<1>1. /\ reading.phase = TargetPhase[v] /\ TargetPhase[v] \in GreenPhases
      /\ GreenPhases \subseteq Phases
  BY SignalAssumption DEF GreenExtension
<1>2. reading.phase = phase /\ phase \in GreenPhases /\ phase \in Phases
  BY <1>1, PlanTypes DEF PlanInv, ReadingOfThisStep
<1>3. /\ reading.left \in Nat /\ reading.spent = spent /\ spent \in Nat
      /\ WithinPlan(phase, spent, reading.left)
  BY DEF GreenExtension, PlanInv, ReadingOfThisStep, TypeOK, Reading
<1>4. granted \in Nat /\ reading.spent + reading.left + granted <= MaxTotalGreen
  BY SafeExtensionBounds DEF GreenExtension
<1>5. PlanDuration[phase] \in Nat
  BY <1>2, PlanTypes
<1>6. WithinPlan(phase, spent, reading.left + granted)
  BY <1>2, <1>3, <1>4, <1>5, PlanTypes, SMT DEF WithinPlan, Greater, Lesser
<1>7. WithinPlan(phase, spent, left)'
  BY <1>6, SentWithinPlan DEF GreenExtension, PlanInv
<1>8. ReadingOfThisStep'
  BY DEF GreenExtension, SendsDuration, PlanInv, ReadingOfThisStep, WithinPlan
<1>9. EventsRestorePlan'
  <2>. SUFFICES ASSUME NEW w \in Vehicles, events'[w] # NoEvent
                PROVE  /\ events'[w].phase \in GreenPhases
                       /\ events'[w].phase = phase' =>
                             WithinPlan(phase, spent, events[w].originalLeft)'
    BY DEF EventsRestorePlan, GreenExtension, SendsDuration, MayDecide
  <2>1. phase' = phase /\ spent' = spent
    BY DEF GreenExtension, SendsDuration
  <2>2. events' = RegisterEvent(v, granted)
    BY DEF GreenExtension
  <2>3. events \in [Vehicles -> Event \cup {NoEvent}]
    BY DEF TypeOK
  <2>4. CASE w # v \/ ~EventLifecycleEnabled
    <3>1. events'[w] = events[w]
      BY <2>2, <2>3, <2>4 DEF RegisterEvent, Continues
    <3>. QED
      BY <2>1, <3>1 DEF PlanInv, EventsRestorePlan, WithinPlan
  <2>5. CASE w = v /\ EventLifecycleEnabled /\ Continues(v)
    <3>1. events[v] # NoEvent /\ events[v] \in Event
      BY <2>3, <2>5 DEF Continues
    <3>2. /\ events'[v].phase = events[v].phase
          /\ events'[v].originalLeft = events[v].originalLeft
      BY <2>2, <2>3, <2>5, <3>1 DEF RegisterEvent, Event
    <3>. QED
      BY <2>1, <2>5, <3>1, <3>2 DEF PlanInv, EventsRestorePlan, WithinPlan
  <2>6. CASE w = v /\ EventLifecycleEnabled /\ ~Continues(v)
    <3>1. events'[v] = [phase |-> reading.phase, originalLeft |-> reading.left,
                        granted |-> granted]
      BY <2>2, <2>3, <2>6 DEF RegisterEvent
    <3>2. events'[v].phase = phase /\ events'[v].originalLeft = reading.left
      BY <1>2, <3>1
    <3>. QED
      BY <1>2, <1>3, <2>1, <2>6, <3>2 DEF WithinPlan
  <2>. QED
    BY <2>4, <2>5, <2>6
<1>10. OnlyGreensBooked'
  BY <1>1 DEF GreenExtension, RegisterGreenExtension, PlanInv, OnlyGreensBooked,
              TypeOK, Accounts
<1>. QED
  BY <1>7, <1>8, <1>9, <1>10 DEF PlanInv

LEMMA EarlyGreenPlan ==
    ASSUME NoBlindTruncation, TypeOK, PlanInv,
           NEW v \in Vehicles, NEW to \in Truncations, EarlyGreen(v, to)
    PROVE  PlanInv'
<1>1. reading.phase = phase /\ phase \in GreenPhases /\ phase \in Phases
  BY SignalAssumption DEF EarlyGreen, InConflict, PlanInv, ReadingOfThisStep
<1>2. reading.left # Unread /\ to \in Nat
  BY SignalAssumption
     DEF EarlyGreen, NoBlindTruncation, PlanInv, ReadingOfThisStep
<1>3. /\ reading.left \in Nat /\ spent \in Nat /\ reading.left > to
      /\ WithinPlan(phase, spent, reading.left)
  BY <1>2 DEF EarlyGreen, PlanInv, ReadingOfThisStep, TypeOK, Reading
<1>4. spent >= MinGreen
  <2>1. reading.spent = spent /\ reading.spent >= Greater(MinGreen, GroupMinGreen)
    BY DEF EarlyGreen, MinGreenSatisfied, PlanInv, ReadingOfThisStep
  <2>. QED
    BY <1>3, <2>1, PlanTypes, SignalAssumption, SMT DEF Greater
<1>5. PlanDuration[phase] \in Nat
  BY <1>1, PlanTypes
<1>6. WithinPlan(phase, spent, to)
  BY <1>1, <1>2, <1>3, <1>4, <1>5, PlanTypes, SMT DEF WithinPlan, Greater, Lesser
<1>7. WithinPlan(phase, spent, left)'
  BY <1>6, SentWithinPlan DEF EarlyGreen, PlanInv
<1>8. ReadingOfThisStep'
  BY DEF EarlyGreen, SendsDuration, PlanInv, ReadingOfThisStep, WithinPlan
<1>9. EventsRestorePlan'
  BY DEF EarlyGreen, SendsDuration, MayDecide, PlanInv, EventsRestorePlan, WithinPlan
<1>10. OnlyGreensBooked'
  BY <1>1 DEF EarlyGreen, RegisterEarlyGreen, PlanInv, OnlyGreensBooked,
              TypeOK, Accounts
<1>. QED
  BY <1>7, <1>8, <1>9, <1>10 DEF PlanInv

\* A settlement keeps the plan: only a green has something to settle, a payback
\* stays under max_total_green_s and a reclaim leaves min_green_s.
LEMMA PaysBackPlan ==
    ASSUME TypeOK, PlanInv, EntersPhase(accounts, reading), PaysBack
    PROVE  WithinPlan(phase, spent, reading.left)
           /\ WithinPlan(phase, spent, left') /\ OnlyGreensBooked'
<1>. DEFINE grant == Grant(accounts, reading)
<1>1. /\ reading.phase = phase /\ phase \in Phases /\ reading.spent = spent
      /\ spent \in Nat /\ reading.left \in Nat
      /\ WithinPlan(phase, spent, reading.left)
  BY DEF EntersPhase, PlanInv, ReadingOfThisStep, TypeOK, Reading
<1>2. /\ grant \in Nat /\ grant <= accounts.owed[phase]
      /\ grant > 0 => spent + reading.left + grant <= MaxTotalGreen
  BY <1>1, GrantBounds DEF EntersPhase, TypeOK
<1>3. grant > 0 /\ left' = reading.left + grant
  BY DEF PaysBack
<1>4. phase \in GreenPhases
  <2>. SUFFICES ASSUME phase \notin GreenPhases PROVE FALSE
    OBVIOUS
  <2>1. accounts.owed[phase] = 0
    BY <1>1 DEF PlanInv, OnlyGreensBooked
  <2>. QED
    BY <1>2, <1>3, <2>1, SMT
<1>5. PlanDuration[phase] \in Nat
  BY <1>1, PlanTypes
<1>6. WithinPlan(phase, spent, left')
  BY <1>1, <1>2, <1>3, <1>4, <1>5, PlanTypes, SMT DEF WithinPlan, Greater, Lesser
<1>7. OnlyGreensBooked'
  <2>1. /\ RememberPhase(accounts, reading.phase, FALSE).owed = accounts.owed
        /\ RememberPhase(accounts, reading.phase, FALSE).reclaim = accounts.reclaim
        /\ RememberPhase(accounts, reading.phase, FALSE) \in Accounts
    BY <1>1, RememberPhaseType, RememberPhaseKeepsAccounts DEF TypeOK
  <2>. QED
    BY <1>1, <1>4, <2>1 DEF PaysBack, PlanInv, OnlyGreensBooked, Accounts
<1>. QED
  BY <1>1, <1>6, <1>7

LEMMA TakesBackPlan ==
    ASSUME TypeOK, PlanInv, EntersPhase(accounts, reading), TakesBack
    PROVE  WithinPlan(phase, spent, left') /\ OnlyGreensBooked'
<1>. DEFINE take == Take(accounts, reading)
<1>1. /\ reading.phase = phase /\ phase \in Phases /\ reading.spent = spent
      /\ spent \in Nat /\ reading.left \in Nat
      /\ WithinPlan(phase, spent, reading.left)
  BY DEF EntersPhase, PlanInv, ReadingOfThisStep, TypeOK, Reading
<1>2. /\ take \in Nat /\ take <= accounts.reclaim[phase] /\ take <= reading.left
      /\ take > 0 => spent + reading.left - take >= MinGreen
  BY <1>1, TakeBounds DEF EntersPhase, TypeOK
<1>3. take > 0 /\ left' = reading.left - take
  BY DEF TakesBack
<1>4. phase \in GreenPhases
  <2>. SUFFICES ASSUME phase \notin GreenPhases PROVE FALSE
    OBVIOUS
  <2>1. accounts.reclaim[phase] = 0
    BY <1>1 DEF PlanInv, OnlyGreensBooked
  <2>. QED
    BY <1>2, <1>3, <2>1, SMT
<1>5. PlanDuration[phase] \in Nat
  BY <1>1, PlanTypes
<1>6. WithinPlan(phase, spent, left')
  BY <1>1, <1>2, <1>3, <1>4, <1>5, PlanTypes, SMT DEF WithinPlan, Greater, Lesser
<1>7. OnlyGreensBooked'
  <2>1. /\ RememberPhase(accounts, reading.phase, FALSE).owed = accounts.owed
        /\ RememberPhase(accounts, reading.phase, FALSE).reclaim = accounts.reclaim
        /\ RememberPhase(accounts, reading.phase, FALSE) \in Accounts
    BY <1>1, RememberPhaseType, RememberPhaseKeepsAccounts DEF TypeOK
  <2>. QED
    BY <1>1, <1>4, <2>1 DEF TakesBack, PlanInv, OnlyGreensBooked, Accounts
<1>. QED
  BY <1>6, <1>7

LEMMA CompensationStepPlan ==
    ASSUME TypeOK, PlanInv, CompensationStep
    PROVE  PlanInv'
<1>1. WithinPlan(phase, spent, left') /\ OnlyGreensBooked'
  <2>1. CASE OnlyRemembers
    <3>1. reading.phase \in Phases \cup {Unread} /\ intervened \in BOOLEAN
      BY DEF TypeOK, Reading
    <3>. QED
      BY <2>1, <3>1, RememberPhaseKeepsAccounts
         DEF OnlyRemembers, PlanInv, OnlyGreensBooked, TypeOK
  <2>2. CASE EntersPhase(accounts, reading) /\ PaysBack
    BY <2>2, PaysBackPlan
  <2>3. CASE EntersPhase(accounts, reading) /\ TakesBack
    BY <2>3, TakesBackPlan
  <2>. QED
    BY <2>1, <2>2, <2>3 DEF CompensationStep
<1>2. /\ phase' = phase /\ spent' = spent /\ reading' = reading /\ events' = events
      /\ pending' = {v \in Vehicles : events[v] # NoEvent}
  BY DEF CompensationStep
<1>. QED
  BY <1>1, <1>2 DEF PlanInv, ReadingOfThisStep, EventsRestorePlan, WithinPlan

\* Closing an event: another event is visited later or was on this phase.
LEMMA EventStepPlan ==
    ASSUME TypeOK, PendingOpen, PlanInv, NEW v \in Vehicles,
           EventEndsWithItsPhase(v) \/ EventGoesOn(v) \/ CheckOut(v)
    PROVE  PlanInv'
<1>1. /\ phase' = phase /\ spent' = spent /\ reading' = reading /\ stage' = stage
      /\ stage = "events" /\ v \in pending /\ pending' = pending \ {v}
  BY DEF EventEndsWithItsPhase, EventGoesOn, CheckOut, Visits, LeavesLoop
<1>2. events[v] # NoEvent
  BY <1>1 DEF PendingOpen
<1>3. WithinPlan(phase, spent, left')
  <2>1. CASE CheckOut(v)
    <3>1. reading.phase = events[v].phase /\ events[v].phase \in GreenPhases
      BY <1>2, <2>1 DEF CheckOut, ChecksOut, PlanInv, EventsRestorePlan
    <3>2. events[v].phase = phase
      BY <3>1, PlanTypes, SignalAssumption DEF PlanInv, ReadingOfThisStep
    <3>3. left' \in {left, events[v].originalLeft}
      BY <2>1 DEF CheckOut
    <3>. QED
      BY <1>2, <3>2, <3>3 DEF PlanInv, EventsRestorePlan
  <2>2. CASE ~CheckOut(v)
    BY <2>2 DEF EventEndsWithItsPhase, EventGoesOn, PlanInv
  <2>. QED
    BY <2>1, <2>2
<1>4. \/ events' = [events EXCEPT ![v] = NoEvent]
      \/ (events' = events /\ reading.phase = events[v].phase)
  BY DEF EventEndsWithItsPhase, EventGoesOn, CheckOut, books
<1>5. EventsRestorePlan'
  <2>. SUFFICES ASSUME NEW w \in Vehicles, events'[w] # NoEvent
                PROVE  /\ events'[w].phase \in GreenPhases
                       /\ events'[w].phase = phase =>
                             WithinPlan(phase, spent, events'[w].originalLeft)
                       /\ w \notin pending \ {v} => events'[w].phase = phase
    BY <1>1 DEF EventsRestorePlan, WithinPlan
  <2>1. events'[w] = events[w] /\ events[w] # NoEvent
    BY <1>4 DEF TypeOK
  <2>2. w = v => events[w].phase = phase
    BY <1>2, <1>4, <2>1, PlanTypes, SignalAssumption, ZenonT(30)
       DEF TypeOK, PlanInv, ReadingOfThisStep, EventsRestorePlan
  <2>. QED
    BY <1>1, <2>1, <2>2 DEF PlanInv, EventsRestorePlan
<1>6. OnlyGreensBooked'
  <2>1. CASE CheckOut(v)
    <3>1. reading.phase \in GreenPhases
      BY <1>2, <2>1 DEF CheckOut, ChecksOut, PlanInv, EventsRestorePlan
    <3>. QED
      BY <2>1, <3>1 DEF CheckOut, ReduceReclaim, PlanInv, OnlyGreensBooked,
                        TypeOK, Accounts
  <2>2. CASE ~CheckOut(v)
    BY <2>2 DEF EventEndsWithItsPhase, EventGoesOn, books, PlanInv, OnlyGreensBooked
  <2>. QED
    BY <2>1, <2>2
<1>. QED
  BY <1>1, <1>3, <1>5, <1>6 DEF PlanInv, ReadingOfThisStep, WithinPlan

LEMMA PlanStep ==
    ASSUME NoBlindTruncation, TypeOK, PendingOpen, PlanInv, [Next]_vars
    PROVE  PlanInv'
<1>1. CASE SimulationStep
  BY <1>1, SimulationStepPlan
<1>2. CASE \E v \in Vehicles, c \in BOOLEAN : RefusedDecision(v, c)
  BY <1>2 DEF RefusedDecision, plant, loop, PlanInv, ReadingOfThisStep,
              EventsRestorePlan, OnlyGreensBooked, WithinPlan
<1>3. CASE \E v \in Vehicles, asked \in Extensions : GreenExtension(v, asked)
  BY <1>3, GreenExtensionPlan
<1>4. CASE \E v \in Vehicles, to \in Truncations : EarlyGreen(v, to)
  BY <1>4, EarlyGreenPlan
<1>5. CASE CompensationStep
  BY <1>5, CompensationStepPlan
<1>6. CASE \E v \in Vehicles :
               EventEndsWithItsPhase(v) \/ EventGoesOn(v) \/ CheckOut(v)
  BY <1>6, EventStepPlan
<1>7. CASE UNCHANGED vars
  BY <1>7 DEF vars, plant, books, loop, PlanInv, ReadingOfThisStep,
              EventsRestorePlan, OnlyGreensBooked, WithinPlan
<1>. QED
  BY <1>1, <1>2, <1>3, <1>4, <1>5, <1>6, <1>7, ContinuesType DEF Next

\* The inductive invariant behind the three bounds.
THEOREM PlanKept == ASSUME NoBlindTruncation PROVE Spec => []PlanInv
<1>1. Init => TypeOK /\ PendingOpen /\ PlanInv
  BY InitType, InitPlan DEF Init, PendingOpen
<1>2. TypeOK /\ PendingOpen /\ PlanInv /\ [Next]_vars
          => TypeOK' /\ PendingOpen' /\ PlanInv'
  BY TypeStep, PlanStep
<1>. QED
  BY <1>1, <1>2, PTL DEF Spec

\* No interleaving of extensions, paybacks, reclaims, check-outs, lost commands
\* and lost readings keeps a phase longer than max_total_green_s or its plan.
THEOREM TotalGreenNeverExceeded == ASSUME NoBlindTruncation PROVE Spec => []TotalGreenBound
<1>1. PlanInv => TotalGreenBound
  BY DEF PlanInv, WithinPlan, TotalGreenBound
<1>. QED
  BY <1>1, PlanKept, PTL

\* Nor does any end a green before min_green_s or its plan.
THEOREM MinGreenNeverCut == ASSUME NoBlindTruncation PROVE Spec => []MinGreenKept
<1>1. PlanInv => MinGreenKept
  BY DEF PlanInv, WithinPlan, MinGreenKept
<1>. QED
  BY <1>1, PlanKept, PTL

\* Yellow and all-red phases run exactly as planned.
THEOREM IntergreenNeverTouched ==
    ASSUME NoBlindTruncation PROVE Spec => []IntergreenUntouched
<1>1. PlanInv => IntergreenUntouched
  BY DEF PlanInv, WithinPlan, IntergreenUntouched
<1>. QED
  BY <1>1, PlanKept, PTL

-----------------------------------------------------------------------------
(* The budget: PrioritySignal implements PriorityBudget.                    *)

Used(r) == IF r.since >= ResetWindow THEN 0 ELSE r.count

\* A decision that reaches the check of its action has the counter and the debt
\* of that moment, however old the stored ones were.
LEMMA ValidatedBudget ==
    ASSUME TypeOK, NEW v \in Vehicles, NEW c \in BOOLEAN,
           Admits(ration, v \in Emergency, c)
    PROVE  LET checked == AfterValidate(ration, v \in Emergency, c) IN
           /\ checked \in Ration
           /\ checked.count = Used(ration)
           /\ DebtNow(checked) = DebtNow(ration)
           /\ v \notin Emergency => DebtNow(ration) < MaxRecoveryDebt
           /\ v \notin Emergency /\ ~c =>
                 ration.since >= Cooldown /\ Used(ration) < MaxConsecutive
<1>. DEFINE reset == ResetCountAfterRecoveryWindow(ration)
            checked == AfterValidate(ration, v \in Emergency, c)
<1>1. ration \in Ration /\ reset \in Ration
  BY ResetCountType DEF TypeOK
<1>2. reset.count = Used(ration) /\ reset.since = ration.since
  BY <1>1 DEF ResetCountAfterRecoveryWindow, Used, Ration
<1>3. DebtNow(reset) = DebtNow(ration)
  BY <1>1, ResetCountKeepsDebt
<1>4. checked = IF v \in Emergency THEN reset ELSE RecoverDebt(reset)
  BY DEF Admits, AfterValidate
<1>5. /\ RecoverDebt(reset).count = reset.count
      /\ RecoverDebt(reset).debt = DebtNow(reset)
      /\ RecoverDebt(reset) \in Ration
      /\ DebtNow(RecoverDebt(reset)) = DebtNow(reset)
  <2>. HIDE DEF reset
  <2>. QED
    BY <1>1, RecoverDebtType, RecoverDebtKeepsDebt DEF RecoverDebt
<1>6. checked \in Ration /\ checked.count = Used(ration) /\ DebtNow(checked) = DebtNow(ration)
  BY <1>1, <1>2, <1>3, <1>4, <1>5
<1>7. v \notin Emergency => DebtNow(ration) < MaxRecoveryDebt
  BY <1>3, <1>4, <1>5 DEF Admits
<1>8. v \notin Emergency /\ ~c => Used(ration) < MaxConsecutive
  BY <1>6 DEF Admits
<1>9. v \notin Emergency /\ ~c => ration.since >= Cooldown
  <2>1. ration.since \in Nat /\ Cooldown \in Nat
    BY <1>1, WindowOutlastsCooldown, RationingAssumption, SMT DEF Ration
  <2>. QED
    BY <2>1, SMT DEF Admits, StoppedByCooldown, CooldownActive
<1>. QED
  BY <1>6, <1>7, <1>8, <1>9

\* An applied intervention is the one the budget has for the vehicle's class.
LEMMA InterventionInBudget ==
    ASSUME TypeOK, NEW v \in Vehicles, NEW c \in BOOLEAN, NEW added \in Nat,
           Admits(ration, v \in Emergency, c),
           ration' = MarkApplied(AfterValidate(ration, v \in Emergency, c), c, added),
           served' = ClassOf(v)
    PROVE  Budget!Next
<1>. DEFINE checked == AfterValidate(ration, v \in Emergency, c)
<1>1. /\ checked \in Ration
      /\ checked.count = Used(ration)
      /\ DebtNow(checked) = DebtNow(ration)
      /\ v \notin Emergency => DebtNow(ration) < MaxRecoveryDebt
      /\ v \notin Emergency /\ ~c =>
            ration.since >= Cooldown /\ Used(ration) < MaxConsecutive
  BY ValidatedBudget
<1>2. DebtNow(ration') = DebtNow(ration) + added
  <2>. HIDE DEF checked
  <2>1. DebtNow(MarkApplied(checked, c, added)) = DebtNow(checked) + added
    BY <1>1, MarkAppliedAddsDebt
  <2>. QED
    BY <1>1, <2>1 DEF checked
<1>3. /\ ration'.since = 0
      /\ ration'.count = IF c THEN Used(ration) ELSE Used(ration) + 1
  BY <1>1 DEF MarkApplied
<1>4. Used(ration') = IF c THEN Used(ration) ELSE Used(ration) + 1
  BY <1>3, WindowOutlastsCooldown, RationingAssumption, SMT DEF Used
<1>5. DebtNow(ration) \in Nat
  BY DebtNowType DEF TypeOK
<1>6. DebtNow(ration') >= DebtNow(ration)
  BY <1>2, <1>5, SMT
<1>7. CASE v \in Emergency
  BY <1>3, <1>4, <1>6, <1>7 DEF Used, ClassOf, Budget!Next, Budget!Preempt
<1>8. CASE v \notin Emergency /\ c
  BY <1>1, <1>3, <1>4, <1>6, <1>8 DEF Used, ClassOf, Budget!Next, Budget!Continue
<1>9. CASE v \notin Emergency /\ ~c
  BY <1>1, <1>3, <1>4, <1>6, <1>9 DEF Used, ClassOf, Budget!Next, Budget!Intervene
<1>. QED
  BY <1>7, <1>8, <1>9

LEMMA RestInBudget ==
    ASSUME TypeOK, ration' = Elapse(ration), served' = "nobody"
    PROVE  Budget!Rest
<1>1. ration \in Ration /\ ration.since \in 0 .. ResetWindow
  BY DEF TypeOK, Ration
<1>2. ration'.since = Lesser(ration.since + 1, ResetWindow) /\ ration'.count = ration.count
  BY DEF Elapse
<1>3. DebtNow(ration') =
          IF DebtNow(ration) > PaybackRate THEN DebtNow(ration) - PaybackRate ELSE 0
  BY <1>1, ElapsePaysBack
<1>4. ration'.since = IF ration.since < ResetWindow THEN ration.since + 1 ELSE ration.since
  BY <1>1, <1>2, WindowOutlastsCooldown, SMT DEF Lesser
<1>5. Used(ration') = IF ration'.since = ResetWindow THEN 0 ELSE Used(ration)
  BY <1>1, <1>2, <1>4, WindowOutlastsCooldown, SMT DEF Used
<1>. QED
  BY <1>3, <1>4, <1>5 DEF Used, Budget!Rest

LEMMA RefusalInBudget ==
    ASSUME TypeOK, NEW v \in Vehicles, NEW c \in BOOLEAN,
           ration' = AfterValidate(ration, v \in Emergency, c), UNCHANGED served
    PROVE  UNCHANGED Budget!budgetVars
<1>1. ration \in Ration
  BY DEF TypeOK
<1>. DEFINE reset == ResetCountAfterRecoveryWindow(ration)
<1>2. reset \in Ration /\ DebtNow(reset) = DebtNow(ration)
  BY <1>1, ResetCountType, ResetCountKeepsDebt
<1>3. reset.since = ration.since /\ Used(reset) = Used(ration)
  BY <1>1 DEF ResetCountAfterRecoveryWindow, Used, Ration
<1>4. /\ RecoverDebt(reset).since = reset.since
      /\ Used(RecoverDebt(reset)) = Used(reset)
      /\ DebtNow(RecoverDebt(reset)) = DebtNow(reset)
  <2>. HIDE DEF reset
  <2>1. DebtNow(RecoverDebt(reset)) = DebtNow(reset)
    BY <1>2, RecoverDebtKeepsDebt
  <2>. QED
    BY <2>1 DEF RecoverDebt, Used
<1>5. ration' \in {ration, reset, RecoverDebt(reset)}
  BY DEF AfterValidate
<1>6. /\ ration'.since = ration.since
      /\ Used(ration') = Used(ration)
      /\ DebtNow(ration') = DebtNow(ration)
  BY <1>2, <1>3, <1>4, <1>5
<1>. QED
  BY <1>6 DEF Used, Budget!budgetVars

LEMMA ReturnInBudget ==
    ASSUME TypeOK, NEW returned \in Nat,
           ration' = ReturnRecoveryDebt(ration, returned), UNCHANGED served
    PROVE  Budget!GiveBack
<1>1. ration \in Ration
  BY DEF TypeOK
<1>2. DebtNow(ration') \in 0 .. DebtNow(ration)
  BY <1>1, ReturnLowersDebt
<1>3. ration'.since = ration.since /\ ration'.count = ration.count
  BY <1>1 DEF ReturnRecoveryDebt, Ration
<1>. QED
  BY <1>2, <1>3 DEF Budget!GiveBack

LEMMA BudgetUnchanged == UNCHANGED <<ration, served>> => UNCHANGED Budget!budgetVars
BY DEF Budget!budgetVars

LEMMA BudgetStep ==
    ASSUME TypeOK, PendingOpen, [Next]_vars
    PROVE  [Budget!Next]_(Budget!budgetVars)
<1>1. CASE SimulationStep
  BY <1>1, RestInBudget DEF SimulationStep, Budget!Next
<1>2. CASE \E v \in Vehicles, c \in BOOLEAN : RefusedDecision(v, c)
  BY <1>2, RefusalInBudget DEF RefusedDecision, loop
<1>3. ASSUME NEW v \in Vehicles, NEW asked \in Extensions, GreenExtension(v, asked)
      PROVE  Budget!Next
  <2>1. SafeExtension(v, asked) \in Nat
    BY <1>3, SafeExtensionBounds DEF GreenExtension
  <2>. QED
    BY <1>3, <2>1, InterventionInBudget, ContinuesType DEF GreenExtension
<1>4. ASSUME NEW v \in Vehicles, NEW to \in Truncations, EarlyGreen(v, to)
      PROVE  Budget!Next
  <2>1. reading.left \in Nat \cup {Unread} /\ to \in Nat
    BY SignalAssumption DEF TypeOK, Reading
  <2>2. TruncationDebt(reading.left, to) \in Nat
    BY <2>1, SMT DEF TruncationDebt, AtLeastZero
  <2>. QED
    BY <1>4, <2>2, InterventionInBudget DEF EarlyGreen
<1>5. CASE CompensationStep
  BY <1>5, BudgetUnchanged DEF CompensationStep
<1>6. ASSUME NEW v \in Vehicles,
             EventEndsWithItsPhase(v) \/ EventGoesOn(v) \/ CheckOut(v)
      PROVE  [Budget!Next]_(Budget!budgetVars)
  <2>. served' = served
    BY <1>6 DEF EventEndsWithItsPhase, EventGoesOn, CheckOut, LeavesLoop
  <2>1. CASE ration' = ration
    BY <2>1, BudgetUnchanged
  <2>2. CASE ration' # ration
    <3>. DEFINE returned == reading.left - events[v].originalLeft
    <3>1. CheckOut(v) /\ returned >= 1 /\ ration' = ReturnRecoveryDebt(ration, returned)
      BY <1>6, <2>2 DEF EventEndsWithItsPhase, EventGoesOn, CheckOut, books
    <3>2. events[v] \in Event /\ reading.left \in Nat
      BY <3>1 DEF CheckOut, ChecksOut, Visits, PendingOpen, TypeOK, Reading
    <3>3. returned \in Nat
      BY <3>1, <3>2, SMT DEF Event
    <3>. QED
      BY <3>1, <3>3, ReturnInBudget DEF Budget!Next
  <2>. QED
    BY <2>1, <2>2
<1>7. CASE UNCHANGED vars
  BY <1>7, BudgetUnchanged DEF vars, books, loop
<1>. QED
  BY <1>1, <1>2, <1>3, <1>4, <1>5, <1>6, <1>7, ContinuesType DEF Next

LEMMA BudgetInit == Init => Budget!Init
<1>1. 0 * PaybackRate = 0
  BY RationingAssumption, SMT
<1>2. DebtNow(Rested) = 0
  BY <1>1, SMT DEF DebtNow, Rested, AtLeastZero
<1>. QED
  BY <1>2 DEF Init, Rested, Budget!Init

\* Whatever is proposed, refused, applied, lost and returned at the signal, the
\* interventions it sees are those of a budget that is up to date at every
\* moment: the counters the code updates only when it reads them are enough.
THEOREM BudgetNeverBroken == Spec => BudgetKept
<1>1. Init => TypeOK /\ PendingOpen
  BY InitType DEF Init, PendingOpen
<1>2. TypeOK /\ PendingOpen /\ [Next]_vars => [Budget!Next]_(Budget!budgetVars)
  BY BudgetStep
<1>. QED
  BY <1>1, <1>2, BudgetInit, TypeStep, PTL DEF Spec, BudgetKept, Budget!Spec

-----------------------------------------------------------------------------
(***************************************************************************)
(* The steps of the control loop: every command is computed from the       *)
(* remaining time the signal still has, the instalments of a priority      *)
(* event share one budget, and the accounts of the compensation say what   *)
(* the commands did to the cycle.                                          *)
(*                                                                         *)
(* What the three need is that the events of two vehicles never share a    *)
(* green: a check-out leaves no mark in commanded_tls_this_step, so that a *)
(* second one in the same step would restore its end from a remaining time *)
(* that the first has replaced.  The cooldown keeps them apart, as long as *)
(* it outlasts a green and no emergency vehicle passes it by.              *)
(***************************************************************************)

\* 90 s against 55 s in configs/cits_v2x_config.json.
CooldownOutlastsGreen == Cooldown >= MaxTotalGreen

NoEmergencies == Emergency = {}

-----------------------------------------------------------------------------
(* The invariant.                                                           *)

EventAt(v) == events[v] # NoEvent /\ events[v].phase = phase

OneEventPerGreen == \A v, w \in Vehicles : EventAt(v) /\ EventAt(w) => v = w

\* An event of the present green was opened during that green.
EventsAreRecent == \A v \in Vehicles : EventAt(v) => ration.since <= spent

\* As long as nothing was commanded in the step, and an event that could still
\* check out is waiting for its turn, the reading is what the signal has left.
ReadingFresh ==
    /\ stage = "decide" => commanded = intervened
    /\ ~commanded /\ (stage = "decide" \/ \E v \in pending : EventAt(v))
           => reading.left \in {left, Unread}

\* Without the lifecycle of events there are none.
EventsNeedLifecycle == ~EventLifecycleEnabled => \A v \in Vehicles : events[v] = NoEvent

LoopInv == OneEventPerGreen /\ EventsAreRecent /\ ReadingFresh /\ EventsNeedLifecycle

-----------------------------------------------------------------------------
(* Reading the actions.                                                     *)

LEMMA ReadingTypes ==
    ASSUME TypeOK
    PROVE  /\ reading.phase \in Phases \cup {Unread}
           /\ reading.spent \in Nat \cup {Unread}
           /\ reading.left \in Nat \cup {Unread}
BY DEF TypeOK, Reading

\* What a green extension finds and does, without its bookkeeping.
LEMMA ExtensionFacts ==
    ASSUME TypeOK, PlanInv, NEW v \in Vehicles, NEW asked \in Extensions,
           GreenExtension(v, asked)
    PROVE  /\ reading.phase = phase /\ phase \in Phases /\ reading.left \in Nat
           /\ SafeExtension(v, asked) \in Nat
           /\ spent < MaxTotalGreen
           /\ stage = "decide" /\ ~intervened
           /\ left' \in {left, reading.left + SafeExtension(v, asked)}
           /\ intervened' = TRUE /\ commanded' = TRUE
           /\ phase' = phase /\ spent' = spent /\ reading' = reading
           /\ stage' = stage /\ pending' = pending
           /\ ration'.since = 0
           /\ events' = RegisterEvent(v, SafeExtension(v, asked))
           /\ accounts' = RegisterGreenExtension(accounts, phase, SafeExtension(v, asked))
<1>1. reading.phase = TargetPhase[v] /\ TargetPhase[v] \in Phases
  BY SignalAssumption DEF GreenExtension
<1>2. reading.phase = phase
  BY <1>1, PlanTypes DEF PlanInv, ReadingOfThisStep
<1>3. reading.left \in Nat /\ reading.spent = spent /\ spent \in Nat
  BY DEF GreenExtension, PlanInv, ReadingOfThisStep, TypeOK, Reading
<1>4. /\ SafeExtension(v, asked) \in Nat /\ SafeExtension(v, asked) > 0
      /\ reading.spent + reading.left + SafeExtension(v, asked) <= MaxTotalGreen
  BY SafeExtensionBounds DEF GreenExtension
<1>5. spent < MaxTotalGreen
  BY <1>3, <1>4, PlanTypes, SMT
<1>6. ration'.since = 0
  BY DEF GreenExtension, MarkApplied
<1>. QED
  BY <1>1, <1>2, <1>3, <1>4, <1>5, <1>6 DEF GreenExtension, SendsDuration, MayDecide

\* The vehicle that opens an event on a green finds no other there.
LEMMA CheckInFindsNoEvent ==
    ASSUME CooldownOutlastsGreen, NoEmergencies, TypeOK, PlanInv, EventsAreRecent,
           NEW v \in Vehicles, NEW asked \in Extensions, GreenExtension(v, asked),
           ~Continues(v), NEW w \in Vehicles
    PROVE  ~EventAt(w)
<1>1. v \notin Emergency
  BY DEF NoEmergencies
<1>2. ration.since >= Cooldown
  BY <1>1, ContinuesType, ValidatedBudget DEF GreenExtension
<1>3. spent < MaxTotalGreen
  BY ExtensionFacts
<1>4. ration.since \in Nat /\ spent \in Nat /\ Cooldown \in Nat /\ MaxTotalGreen \in Nat
  <2>1. ration.since \in 0 .. ResetWindow
    BY DEF TypeOK, Ration
  <2>. QED
    BY <2>1, WindowOutlastsCooldown, RationingAssumption, PlanTypes, SMT DEF TypeOK
<1>5. ~(ration.since <= spent)
  BY <1>2, <1>3, <1>4, SMT DEF CooldownOutlastsGreen
<1>. QED
  BY <1>5 DEF EventsAreRecent

\* Only the event of the vehicle that is given an extension changes: it counts
\* the extension, or is opened with it at the end the green had.
LEMMA ExtensionEvents ==
    ASSUME TypeOK, PlanInv, EventsNeedLifecycle,
           NEW v \in Vehicles, NEW asked \in Extensions, GreenExtension(v, asked)
    PROVE  /\ \A w \in Vehicles \ {v} : events'[w] = events[w]
           /\ EventLifecycleEnabled => EventAt(v)'
           /\ EventAt(v)' =>
                 \/ /\ EventAt(v) /\ Continues(v)
                    /\ events'[v].originalLeft = events[v].originalLeft
                    /\ events'[v].granted = events[v].granted + SafeExtension(v, asked)
                 \/ /\ ~Continues(v) /\ events'[v].originalLeft = reading.left
                    /\ events'[v].granted = SafeExtension(v, asked)
           /\ ~EventLifecycleEnabled => events' = events
<1>. DEFINE granted == SafeExtension(v, asked)
<1>1. events \in [Vehicles -> Event \cup {NoEvent}]
  BY DEF TypeOK
<1>2. /\ events' = RegisterEvent(v, granted)
      /\ reading.phase = phase /\ phase' = phase /\ phase \in Phases
      /\ reading.left \in Nat /\ granted \in Nat
  BY ExtensionFacts
<1>. HIDE DEF granted
<1>3. \A w \in Vehicles \ {v} : events'[w] = events[w]
  BY <1>1, <1>2 DEF RegisterEvent, Continues
<1>4. CASE ~EventLifecycleEnabled
  <2>1. events' = events
    BY <1>2, <1>4 DEF RegisterEvent
  <2>. QED
    BY <1>3, <1>4, <2>1 DEF EventAt, EventsNeedLifecycle
<1>5. CASE EventLifecycleEnabled /\ Continues(v)
  <2>1. events[v] # NoEvent /\ events[v] \in Event /\ events[v].phase = phase
    BY <1>1, <1>2, <1>5 DEF Continues
  <2>2. events' = [events EXCEPT ![v] = [events[v] EXCEPT !.granted = @ + granted]]
    BY <1>1, <1>2, <1>5 DEF RegisterEvent
  <2>3. events'[v] = [events[v] EXCEPT !.granted = @ + granted]
    BY <1>1, <2>2
  <2>4. /\ events'[v].phase = phase /\ events'[v].originalLeft = events[v].originalLeft
        /\ events'[v].granted = events[v].granted + granted
    BY <2>1, <2>3 DEF Event
  <2>5. events'[v] # NoEvent
    <3>1. events[v].granted + granted \in Nat
      BY <1>2, <2>1, SMT DEF Event
    <3>2. events'[v] \in Event
      BY <2>1, <2>3, <3>1 DEF Event
    <3>. QED
      BY <3>2, SignalAssumption
  <2>. QED
    BY <1>2, <1>3, <1>5, <2>1, <2>4, <2>5 DEF EventAt, granted
<1>6. CASE EventLifecycleEnabled /\ ~Continues(v)
  <2>1. events'[v] = [phase |-> reading.phase, originalLeft |-> reading.left,
                      granted |-> granted]
    BY <1>1, <1>2, <1>6 DEF RegisterEvent
  <2>2. events'[v] \in Event
    BY <1>2, <2>1 DEF Event
  <2>. QED
    BY <1>2, <1>3, <1>6, <2>1, <2>2, SignalAssumption DEF EventAt, granted
<1>. QED
  BY <1>4, <1>5, <1>6

\* What an early green finds and does, without its bookkeeping.
LEMMA EarlyGreenFacts ==
    ASSUME NoBlindTruncation, TypeOK, PlanInv, NEW v \in Vehicles,
           NEW to \in Truncations, EarlyGreen(v, to)
    PROVE  /\ reading.phase = phase /\ reading.left \in Nat
           /\ to \in Nat /\ to < reading.left
           /\ stage = "decide" /\ ~intervened
           /\ left' \in {left, to}
           /\ intervened' = TRUE /\ commanded' = TRUE
           /\ phase' = phase /\ spent' = spent /\ reading' = reading
           /\ stage' = stage /\ pending' = pending
           /\ ration'.since = 0 /\ events' = events
           /\ accounts'.lastPhase = accounts.lastPhase
<1>1. reading.phase = phase
  BY SignalAssumption DEF EarlyGreen, PlanInv, ReadingOfThisStep
<1>2. reading.left # Unread /\ to \in Nat
  BY SignalAssumption
     DEF EarlyGreen, NoBlindTruncation, PlanInv, ReadingOfThisStep
<1>3. reading.left \in Nat /\ reading.left > to /\ to < reading.left
  BY <1>2, ReadingTypes, SMT DEF EarlyGreen
<1>4. ration'.since = 0
  BY DEF EarlyGreen, MarkApplied
<1>5. accounts'.lastPhase = accounts.lastPhase
  BY DEF EarlyGreen, RegisterEarlyGreen, TypeOK, Accounts
<1>. QED
  BY <1>1, <1>2, <1>3, <1>4, <1>5 DEF EarlyGreen, SendsDuration, MayDecide

\* A phase settles what it has to at its entry, once, and nothing is settled in a
\* step that commanded the signal already.
LEMMA SettlementFacts ==
    ASSUME TypeOK, PlanInv, CompensationStep
    PROVE  /\ stage = "decide" /\ stage' = "events"
           /\ phase' = phase /\ spent' = spent /\ reading' = reading
           /\ ration' = ration /\ events' = events /\ intervened' = intervened
           /\ pending' = {v \in Vehicles : events[v] # NoEvent}
           /\ \/ /\ OnlyRemembers
                 /\ left' = left /\ commanded' = commanded
              \/ /\ PaysBack \/ TakesBack
                 /\ ~intervened /\ commanded' = TRUE
                 /\ reading.phase = phase /\ accounts.lastPhase # phase
                 /\ phase \in Phases /\ reading.left \in Nat
                 /\ left' <= reading.left + MaxPerCycle
                 /\ accounts'.lastPhase = phase
<1>1. ASSUME ~intervened, EntersPhase(accounts, reading), PaysBack \/ TakesBack
      PROVE  /\ commanded' = TRUE
             /\ reading.phase = phase /\ accounts.lastPhase # phase
             /\ phase \in Phases /\ reading.left \in Nat
             /\ left' <= reading.left + MaxPerCycle
             /\ accounts'.lastPhase = phase
  <2>1. /\ reading.phase = phase /\ accounts.lastPhase # phase
        /\ reading.left \in Nat /\ phase \in Phases
    BY <1>1, ReadingTypes DEF EntersPhase, PlanInv, ReadingOfThisStep, TypeOK
  <2>2. /\ RememberPhase(accounts, reading.phase, FALSE).lastPhase = reading.phase
        /\ RememberPhase(accounts, reading.phase, FALSE) \in Accounts
    BY <2>1, RememberPhaseType DEF RememberPhase, TypeOK, Accounts
  <2>3. accounts'.lastPhase = reading.phase
    BY <1>1, <2>2 DEF PaysBack, TakesBack, Accounts
  <2>4. left' <= reading.left + MaxPerCycle
    <3>1. /\ Grant(accounts, reading) \in Nat
          /\ Grant(accounts, reading) <= MaxPerCycle
          /\ Take(accounts, reading) \in Nat
      <4>1. reading.spent \in Nat /\ accounts.owed[phase] \in Nat
        BY <1>1, <2>1, ReadingTypes DEF EntersPhase, TypeOK, Accounts
      <4>2. Grant(accounts, reading) <= MaxPerCycle
        BY <2>1, <4>1, CompensationAssumption, SMT DEF Grant, Lesser, AtLeastZero
      <4>. QED
        BY <1>1, <4>2, GrantBounds, TakeBounds DEF EntersPhase, TypeOK
    <3>2. \/ left' = reading.left + Grant(accounts, reading)
          \/ left' = reading.left - Take(accounts, reading)
      BY <1>1 DEF PaysBack, TakesBack
    <3>. QED
      BY <2>1, <3>1, <3>2, CompensationAssumption, SMT
  <2>. QED
    BY <1>1, <2>1, <2>3, <2>4 DEF PaysBack, TakesBack
<1>. QED
  BY <1>1 DEF CompensationStep, OnlyRemembers

\* Visiting an event leaves every other one as it is.
LEMMA VisitFacts ==
    ASSUME TypeOK, PendingOpen, PlanInv, NEW v \in Vehicles,
           EventEndsWithItsPhase(v) \/ EventGoesOn(v) \/ CheckOut(v)
    PROVE  /\ stage = "events" /\ v \in pending /\ pending' = pending \ {v}
           /\ events[v] # NoEvent
           /\ phase' = phase /\ spent' = spent /\ reading' = reading
           /\ stage' = stage /\ intervened' = intervened /\ commanded' = commanded
           /\ ration'.since = ration.since
           /\ accounts'.lastPhase = accounts.lastPhase
           /\ \A w \in Vehicles \ {v} : events'[w] = events[w]
           /\ \/ events'[v] = NoEvent
              \/ EventGoesOn(v) /\ events' = events /\ left' = left
           /\ left' # left =>
                 /\ CheckOut(v) /\ EventAt(v) /\ ~commanded
                 /\ reading.left \in Nat /\ left' = events[v].originalLeft
                 /\ reading.left - events[v].originalLeft >= 1
<1>1. /\ stage = "events" /\ v \in pending /\ pending' = pending \ {v}
      /\ phase' = phase /\ spent' = spent /\ reading' = reading
      /\ stage' = stage /\ intervened' = intervened /\ commanded' = commanded
  BY DEF EventEndsWithItsPhase, EventGoesOn, CheckOut, Visits, LeavesLoop
<1>2. events[v] # NoEvent
  BY <1>1 DEF PendingOpen
<1>3. ration'.since = ration.since
  BY DEF EventEndsWithItsPhase, EventGoesOn, CheckOut, books, ReturnRecoveryDebt,
         TypeOK, Ration
<1>4. accounts'.lastPhase = accounts.lastPhase
  BY DEF EventEndsWithItsPhase, EventGoesOn, CheckOut, books, ReduceReclaim,
         TypeOK, Accounts
<1>5. /\ \A w \in Vehicles \ {v} : events'[w] = events[w]
      /\ \/ events'[v] = NoEvent
         \/ EventGoesOn(v) /\ events' = events /\ left' = left
  BY DEF EventEndsWithItsPhase, EventGoesOn, CheckOut, books, TypeOK
<1>6. ASSUME left' # left
      PROVE  /\ CheckOut(v) /\ EventAt(v) /\ ~commanded
             /\ reading.left \in Nat /\ left' = events[v].originalLeft
             /\ reading.left - events[v].originalLeft >= 1
  <2>1. CheckOut(v)
    BY <1>6 DEF EventEndsWithItsPhase, EventGoesOn
  <2>2. reading.phase = events[v].phase /\ reading.left \in Nat /\ ~commanded
    BY <2>1, ReadingTypes DEF CheckOut, ChecksOut
  <2>3. events[v].phase \in Phases
    BY <1>2 DEF TypeOK, Event
  <2>4. events[v].phase = phase
    BY <2>2, <2>3, PlanTypes DEF PlanInv, ReadingOfThisStep
  <2>. QED
    BY <1>2, <1>6, <2>1, <2>2, <2>4 DEF CheckOut, EventAt
<1>. QED
  BY <1>1, <1>2, <1>3, <1>4, <1>5, <1>6

-----------------------------------------------------------------------------
(* The loop: a fresh reading for every command.                             *)

LEMMA LoopInit == Init => LoopInv
BY DEF Init, LoopInv, OneEventPerGreen, EventsAreRecent, ReadingFresh,
       EventsNeedLifecycle, EventAt

LEMMA SimulationStepLoop ==
    ASSUME TypeOK, PlanInv, LoopInv, SimulationStep
    PROVE  LoopInv'
<1>1. phase \in Phases /\ spent \in Nat /\ left \in Nat
  BY DEF TypeOK
<1>2. phase' \in Phases /\ spent' \in Nat /\ left' \in Nat
  BY ProgramAdvancesType DEF SimulationStep
<1>3. \A v \in Vehicles :
          events'[v] # NoEvent =>
              events[v] # NoEvent /\ events'[v].phase = events[v].phase
  BY DEF SimulationStep, EventNearsItsEnd, TypeOK, Event
<1>4. \A v \in Vehicles : events[v] # NoEvent => events[v].phase = phase
  BY DEF SimulationStep, PlanInv, EventsRestorePlan
<1>5. \A v \in Vehicles : EventAt(v)' => EventAt(v) /\ phase' = phase
  BY <1>3, <1>4 DEF EventAt
<1>6. EventsAreRecent'
  <2>. SUFFICES ASSUME NEW v \in Vehicles, EventAt(v)'
                PROVE  ration'.since <= spent'
    BY DEF EventsAreRecent
  <2>1. ration.since <= spent /\ phase' = phase
    BY <1>5 DEF LoopInv, EventsAreRecent
  <2>2. spent' = spent + 1
    BY <1>1, <2>1, NextPhaseType DEF SimulationStep, ProgramAdvances
  <2>3. ration.since \in 0 .. ResetWindow /\ ration'.since = Lesser(ration.since + 1, ResetWindow)
    BY DEF SimulationStep, Elapse, TypeOK, Ration
  <2>. QED
    BY <1>1, <2>1, <2>2, <2>3, WindowOutlastsCooldown, SMT DEF Lesser
<1>7. ReadingFresh'
  <2>1. reading'.left \in {left', Unread}
    BY DEF SimulationStep, Read
  <2>. QED
    BY <2>1 DEF SimulationStep, ReadingFresh
<1>8. OneEventPerGreen'
  BY <1>5 DEF LoopInv, OneEventPerGreen
<1>9. EventsNeedLifecycle'
  BY <1>3 DEF LoopInv, EventsNeedLifecycle
<1>. QED
  BY <1>6, <1>7, <1>8, <1>9 DEF LoopInv

LEMMA GreenExtensionLoop ==
    ASSUME CooldownOutlastsGreen, NoEmergencies, TypeOK, PlanInv, LoopInv,
           NEW v \in Vehicles, NEW asked \in Extensions, GreenExtension(v, asked)
    PROVE  LoopInv'
<1>1. /\ phase' = phase /\ spent' = spent /\ stage' = stage /\ stage = "decide"
      /\ commanded' = TRUE /\ intervened' = TRUE /\ ration'.since = 0
      /\ spent \in Nat
  BY ExtensionFacts DEF TypeOK
<1>2. \A w \in Vehicles \ {v} : events'[w] = events[w]
  BY ExtensionEvents DEF LoopInv
<1>3. \A w \in Vehicles \ {v} : EventAt(w)' => EventAt(w)
  BY <1>1, <1>2 DEF EventAt
<1>4. EventsAreRecent'
  BY <1>1, SMT DEF EventsAreRecent
<1>5. ReadingFresh'
  BY <1>1 DEF ReadingFresh
<1>6. OneEventPerGreen'
  <2>1. CASE Continues(v)
    <3>1. EventAt(v)
      BY <2>1, ExtensionFacts DEF Continues, EventAt
    <3>. QED
      BY <1>3, <3>1 DEF LoopInv, OneEventPerGreen
  <2>2. CASE ~Continues(v)
    BY <1>3, <2>2, CheckInFindsNoEvent DEF LoopInv, OneEventPerGreen
  <2>. QED
    BY <2>1, <2>2
<1>7. EventsNeedLifecycle'
  BY ExtensionEvents DEF LoopInv, EventsNeedLifecycle
<1>. QED
  BY <1>4, <1>5, <1>6, <1>7 DEF LoopInv

LEMMA CompensationStepLoop ==
    ASSUME TypeOK, PlanInv, LoopInv, CompensationStep
    PROVE  LoopInv'
<1>1. /\ stage = "decide" /\ stage' = "events"
      /\ phase' = phase /\ spent' = spent /\ reading' = reading
      /\ ration' = ration /\ events' = events
      /\ (left' = left /\ commanded' = commanded) \/ commanded' = TRUE
  BY SettlementFacts
<1>2. ReadingFresh'
  BY <1>1 DEF LoopInv, ReadingFresh
<1>. QED
  BY <1>1, <1>2 DEF LoopInv, OneEventPerGreen, EventsAreRecent, EventAt,
                    EventsNeedLifecycle

LEMMA EventStepLoop ==
    ASSUME TypeOK, PendingOpen, PlanInv, LoopInv, NEW v \in Vehicles,
           EventEndsWithItsPhase(v) \/ EventGoesOn(v) \/ CheckOut(v)
    PROVE  LoopInv'
<1>1. /\ stage = "events" /\ v \in pending /\ pending' = pending \ {v}
      /\ phase' = phase /\ spent' = spent /\ reading' = reading
      /\ stage' = stage /\ intervened' = intervened /\ commanded' = commanded
      /\ ration'.since = ration.since
      /\ \A w \in Vehicles \ {v} : events'[w] = events[w]
      /\ events'[v] = NoEvent \/ events'[v] = events[v]
  BY VisitFacts
<1>2. \A w \in Vehicles : EventAt(w)' => EventAt(w)
  BY <1>1 DEF EventAt
<1>3. ReadingFresh'
  <2>. SUFFICES ASSUME ~commanded, NEW w \in pending \ {v}, EventAt(w)'
                PROVE  reading.left \in {left', Unread}
    BY <1>1 DEF ReadingFresh
  <2>1. w \in Vehicles /\ EventAt(w)
    BY <1>2 DEF TypeOK
  <2>2. left' = left
    <3>1. left' # left => EventAt(v)
      BY VisitFacts
    <3>. QED
      BY <2>1, <3>1 DEF LoopInv, OneEventPerGreen
  <2>. QED
    BY <2>1, <2>2 DEF LoopInv, ReadingFresh
<1>4. OneEventPerGreen' /\ EventsAreRecent'
  BY <1>1, <1>2 DEF LoopInv, OneEventPerGreen, EventsAreRecent
<1>5. EventsNeedLifecycle'
  BY <1>1 DEF LoopInv, EventsNeedLifecycle
<1>. QED
  BY <1>3, <1>4, <1>5 DEF LoopInv

LEMMA LoopStep ==
    ASSUME CooldownOutlastsGreen, NoEmergencies, NoBlindTruncation,
           TypeOK, PendingOpen, PlanInv, LoopInv, [Next]_vars
    PROVE  LoopInv'
<1>1. CASE SimulationStep
  BY <1>1, SimulationStepLoop
<1>2. ASSUME NEW v \in Vehicles, NEW c \in BOOLEAN, RefusedDecision(v, c)
      PROVE  LoopInv'
  <2>1. ration'.since = ration.since
    BY <1>2 DEF RefusedDecision, AfterValidate, RecoverDebt,
                ResetCountAfterRecoveryWindow, TypeOK, Ration
  <2>. QED
    BY <1>2, <2>1 DEF RefusedDecision, plant, loop, LoopInv, OneEventPerGreen,
            EventsAreRecent, ReadingFresh, EventsNeedLifecycle, EventAt
<1>3. CASE \E v \in Vehicles, asked \in Extensions : GreenExtension(v, asked)
  BY <1>3, GreenExtensionLoop
<1>4. ASSUME NEW v \in Vehicles, NEW to \in Truncations, EarlyGreen(v, to)
      PROVE  LoopInv'
  <2>1. /\ phase' = phase /\ spent' = spent /\ stage' = stage /\ stage = "decide"
        /\ commanded' = TRUE /\ intervened' = TRUE /\ ration'.since = 0
        /\ events' = events /\ spent \in Nat
    BY <1>4, EarlyGreenFacts DEF TypeOK
  <2>2. EventsAreRecent'
    BY <2>1, SMT DEF EventsAreRecent
  <2>. QED
    BY <2>1, <2>2 DEF LoopInv, OneEventPerGreen, ReadingFresh, EventsNeedLifecycle,
                      EventAt
<1>5. CASE CompensationStep
  BY <1>5, CompensationStepLoop
<1>6. CASE \E v \in Vehicles :
               EventEndsWithItsPhase(v) \/ EventGoesOn(v) \/ CheckOut(v)
  BY <1>6, EventStepLoop
<1>7. CASE UNCHANGED vars
  BY <1>7 DEF vars, plant, books, loop, LoopInv, OneEventPerGreen,
              EventsAreRecent, ReadingFresh, EventsNeedLifecycle, EventAt
<1>. QED
  BY <1>1, <1>2, <1>3, <1>4, <1>5, <1>6, <1>7, ContinuesType DEF Next

\* The command of a step meets the remaining time that was read.
LEMMA FreshCommand ==
    ASSUME NoBlindTruncation, TypeOK, PendingOpen, PlanInv, LoopInv,
           [Next]_vars, InStep, left' # left
    PROVE  reading.left = left /\ reading.phase = phase
<1>1. ASSUME NEW v \in Vehicles, NEW asked \in Extensions, GreenExtension(v, asked)
      PROVE  reading.left = left /\ reading.phase = phase
  <2>1. reading.phase = phase /\ reading.left \in Nat /\ stage = "decide" /\ ~intervened
    BY <1>1, ExtensionFacts
  <2>. QED
    BY <2>1, PlanTypes DEF LoopInv, ReadingFresh
<1>2. ASSUME NEW v \in Vehicles, NEW to \in Truncations, EarlyGreen(v, to)
      PROVE  reading.left = left /\ reading.phase = phase
  <2>1. reading.phase = phase /\ reading.left \in Nat /\ stage = "decide" /\ ~intervened
    BY <1>2, EarlyGreenFacts
  <2>. QED
    BY <2>1, PlanTypes DEF LoopInv, ReadingFresh
<1>3. CASE CompensationStep
  <2>1. reading.phase = phase /\ reading.left \in Nat /\ stage = "decide" /\ ~intervened
    BY <1>3, SettlementFacts
  <2>. QED
    BY <2>1, PlanTypes DEF LoopInv, ReadingFresh
<1>4. ASSUME NEW v \in Vehicles,
             EventEndsWithItsPhase(v) \/ EventGoesOn(v) \/ CheckOut(v)
      PROVE  reading.left = left /\ reading.phase = phase
  <2>1. /\ EventAt(v) /\ ~commanded /\ v \in pending /\ reading.left \in Nat
        /\ CheckOut(v)
    BY <1>4, VisitFacts
  <2>2. reading.phase = phase
    BY <2>1 DEF CheckOut, ChecksOut, EventAt
  <2>. QED
    BY <2>1, <2>2, PlanTypes DEF LoopInv, ReadingFresh
<1>5. CASE SimulationStep
  BY <1>5 DEF SimulationStep, InStep
<1>6. CASE \E v \in Vehicles, c \in BOOLEAN : RefusedDecision(v, c)
  BY <1>6 DEF RefusedDecision, plant
<1>7. CASE UNCHANGED vars
  BY <1>7 DEF vars, plant
<1>. QED
  BY <1>1, <1>2, <1>3, <1>4, <1>5, <1>6, <1>7, ContinuesType DEF Next

\* The inductive invariant of the control loop at a signal: at most one event
\* holds an end of the running green, it was opened during that green, and until
\* something is commanded the reading is the remaining time the signal has.
THEOREM LoopKept ==
    ASSUME CooldownOutlastsGreen, NoEmergencies, NoBlindTruncation
    PROVE  Spec => [](TypeOK /\ PendingOpen /\ PlanInv /\ LoopInv)
<1>1. Init => TypeOK /\ PendingOpen /\ PlanInv /\ LoopInv
  BY InitType, InitPlan, LoopInit DEF Init, PendingOpen
<1>2. TypeOK /\ PendingOpen /\ PlanInv /\ LoopInv /\ [Next]_vars
          => TypeOK' /\ PendingOpen' /\ PlanInv' /\ LoopInv'
  BY TypeStep, PlanStep, LoopStep
<1>. QED
  BY <1>1, <1>2, PTL DEF Spec

\* However decisions, settlements and check-outs of one step follow each other,
\* each command starts from the remaining time the signal has at that moment:
\* the reading taken before the step is never used after it was overtaken.
THEOREM CommandsNeverActOnStaleReadings ==
    ASSUME CooldownOutlastsGreen, NoEmergencies, NoBlindTruncation
    PROVE  Spec => CommandsActOnFreshReading
<1>1. TypeOK /\ PendingOpen /\ PlanInv /\ LoopInv /\ [Next]_vars =>
          [InStep /\ left' # left => reading.left \in {left, Unread}]_vars
  BY FreshCommand
<1>. QED
  BY <1>1, LoopKept, PTL DEF Spec, CommandsActOnFreshReading

-----------------------------------------------------------------------------
(* The budget of an event.                                                  *)

GrantedWithinBudget ==
    \A v \in Vehicles : events[v] # NoEvent => events[v].granted <= MaxExtension

\* The end an event may bring its green to: the one fixed at the check-in, and
\* what it was granted.
GrantedEnd(v) == events[v].originalLeft + events[v].granted

\* An event that its step will find on another phase, or on none it can read.
AboutToEnd(v) == stage = "events" /\ v \in pending /\ reading.phase # phase

\* One payback at most may be added to it, and only by remembering the phase; a
\* phase is forgotten again only by a reading that also ends its events.
InstalmentsShared ==
    \A v \in Vehicles : EventAt(v) =>
        /\ left <= GrantedEnd(v) + MaxPerCycle
        /\ accounts.lastPhase = phase \/ AboutToEnd(v) \/ left <= GrantedEnd(v)

LEMMA GrantedStep ==
    ASSUME TypeOK, PendingOpen, PlanInv, EventsNeedLifecycle,
           GrantedWithinBudget, [Next]_vars
    PROVE  GrantedWithinBudget' /\ EventsNeedLifecycle'
<1>1. CASE SimulationStep
  <2>1. \A v \in Vehicles :
            events'[v] # NoEvent =>
                events[v] # NoEvent /\ events'[v].granted = events[v].granted
    BY <1>1 DEF SimulationStep, EventNearsItsEnd, TypeOK, Event
  <2>. QED
    BY <2>1 DEF GrantedWithinBudget, EventsNeedLifecycle
<1>2. ASSUME NEW v \in Vehicles, NEW asked \in Extensions, GreenExtension(v, asked)
      PROVE  GrantedWithinBudget' /\ EventsNeedLifecycle'
  <2>1. /\ SafeExtension(v, asked) <= MaxExtension
        /\ Continues(v) =>
              events[v].granted + SafeExtension(v, asked) <= MaxExtension
    BY <1>2, SafeExtensionBounds DEF GreenExtension
  <2>2. /\ \A w \in Vehicles \ {v} : events'[w] = events[w]
        /\ ~EventLifecycleEnabled => events' = events
    BY <1>2, ExtensionEvents
  <2>3. ASSUME events'[v] # NoEvent
        PROVE  events'[v].granted <= MaxExtension
    <3>1. EventAt(v)'
      BY <1>2, <2>2, <2>3, ExtensionEvents DEF EventsNeedLifecycle
    <3>. QED
      BY <1>2, <2>1, <3>1, ExtensionEvents
  <2>. QED
    BY <2>2, <2>3 DEF GrantedWithinBudget, EventsNeedLifecycle
<1>3. ASSUME NEW v \in Vehicles,
             EventEndsWithItsPhase(v) \/ EventGoesOn(v) \/ CheckOut(v)
      PROVE  GrantedWithinBudget' /\ EventsNeedLifecycle'
  <2>1. /\ \A w \in Vehicles \ {v} : events'[w] = events[w]
        /\ events'[v] = NoEvent \/ events'[v] = events[v]
    BY <1>3, VisitFacts
  <2>. QED
    BY <2>1 DEF GrantedWithinBudget, EventsNeedLifecycle
<1>4. CASE UNCHANGED events
  BY <1>4 DEF GrantedWithinBudget, EventsNeedLifecycle
<1>5. \/ SimulationStep
      \/ \E v \in Vehicles, asked \in Extensions : GreenExtension(v, asked)
      \/ \E v \in Vehicles :
             EventEndsWithItsPhase(v) \/ EventGoesOn(v) \/ CheckOut(v)
      \/ UNCHANGED events
  BY DEF Next, RefusedDecision, EarlyGreen, CompensationStep, vars, books
<1>. QED
  BY <1>1, <1>2, <1>3, <1>4, <1>5
LEMMA SimulationStepShares ==
    ASSUME TypeOK, PlanInv, InstalmentsShared, SimulationStep
    PROVE  InstalmentsShared'
<1>. SUFFICES ASSUME NEW v \in Vehicles, EventAt(v)'
              PROVE  /\ left' <= GrantedEnd(v)' + MaxPerCycle
                     /\ accounts'.lastPhase = phase' \/ left' <= GrantedEnd(v)'
  BY DEF InstalmentsShared, AboutToEnd
<1>1. events'[v] = EventNearsItsEnd(events[v]) /\ events'[v] # NoEvent
  BY DEF SimulationStep, EventAt
<1>2. events[v] # NoEvent /\ events[v] \in Event
  BY <1>1 DEF EventNearsItsEnd, TypeOK
<1>3. /\ events'[v].phase = events[v].phase
      /\ events'[v].granted = events[v].granted
      /\ events'[v].originalLeft = AtLeastZero(events[v].originalLeft - 1)
  BY <1>1, <1>2 DEF EventNearsItsEnd, Event
<1>4. events[v].phase = phase /\ EventAt(v)
  BY <1>2 DEF SimulationStep, PlanInv, EventsRestorePlan, EventAt
<1>5. phase' = phase /\ phase \in Phases
  BY <1>3, <1>4 DEF EventAt, TypeOK
<1>6. left' = left - 1 /\ left > 1
  BY <1>5, NextPhaseType DEF SimulationStep, ProgramAdvances
<1>7. accounts' = accounts /\ ~AboutToEnd(v)
  BY DEF SimulationStep, AboutToEnd
<1>8. /\ left <= GrantedEnd(v) + MaxPerCycle
      /\ accounts.lastPhase = phase \/ left <= GrantedEnd(v)
  BY <1>4, <1>7 DEF InstalmentsShared
<1>9. events[v].granted \in Nat /\ events[v].originalLeft \in Nat /\ left \in Nat
  BY <1>2 DEF Event, TypeOK
<1>10. GrantedEnd(v)' = AtLeastZero(events[v].originalLeft - 1) + events[v].granted
  BY <1>3 DEF GrantedEnd
<1>11. MaxPerCycle \in Nat
  BY CompensationAssumption
<1>. QED
  BY <1>5, <1>6, <1>7, <1>8, <1>9, <1>10, <1>11, SMT DEF GrantedEnd, AtLeastZero

LEMMA GreenExtensionShares ==
    ASSUME CooldownOutlastsGreen, NoEmergencies, NoBlindTruncation,
           TypeOK, PendingOpen, PlanInv, LoopInv, InstalmentsShared,
           NEW v \in Vehicles, NEW asked \in Extensions, GreenExtension(v, asked)
    PROVE  InstalmentsShared'
<1>. DEFINE granted == SafeExtension(v, asked)
<1>1. /\ left' \in {left, reading.left + granted} /\ granted \in Nat
      /\ phase' = phase /\ reading' = reading /\ stage' = stage /\ stage = "decide"
      /\ pending' = pending /\ reading.left \in Nat /\ ~intervened
      /\ accounts'.lastPhase = accounts.lastPhase
  <2>1. phase \in Phases /\ granted \in Nat
            /\ accounts' = RegisterGreenExtension(accounts, phase, granted)
    BY ExtensionFacts
  <2>2. accounts'.lastPhase = accounts.lastPhase
    BY <2>1 DEF RegisterGreenExtension, TypeOK, Accounts
  <2>. QED
    BY <2>2, ExtensionFacts
<1>. HIDE DEF granted
<1>2. reading.left = left
  BY <1>1, PlanTypes DEF LoopInv, ReadingFresh
<1>3. \A w \in Vehicles \ {v} : ~EventAt(w)'
  <2>. SUFFICES ASSUME NEW w \in Vehicles \ {v}, EventAt(w)' PROVE FALSE
    OBVIOUS
  <2>1. EventAt(w)
    BY <1>1, ExtensionEvents DEF LoopInv, EventAt
  <2>2. CASE Continues(v)
    <3>1. EventAt(v)
      BY <2>2, ExtensionFacts DEF Continues, EventAt
    <3>. QED
      BY <2>1, <3>1 DEF LoopInv, OneEventPerGreen
  <2>3. CASE ~Continues(v)
    BY <2>1, <2>3, CheckInFindsNoEvent DEF LoopInv
  <2>. QED
    BY <2>2, <2>3
<1>4. ASSUME EventAt(v)'
      PROVE  /\ left' <= GrantedEnd(v)' + MaxPerCycle
             /\ accounts'.lastPhase = phase' \/ left' <= GrantedEnd(v)'
  <2>1. \/ /\ EventAt(v) /\ events'[v].originalLeft = events[v].originalLeft
           /\ events'[v].granted = events[v].granted + granted
        \/ /\ events'[v].originalLeft = reading.left
           /\ events'[v].granted = granted
    BY <1>4, ExtensionEvents DEF LoopInv, granted
  <2>2. MaxPerCycle \in Nat /\ left \in Nat
    BY CompensationAssumption DEF TypeOK
  <2>3. CASE /\ EventAt(v) /\ events'[v].originalLeft = events[v].originalLeft
             /\ events'[v].granted = events[v].granted + granted
    <3>1. /\ left <= GrantedEnd(v) + MaxPerCycle
          /\ accounts.lastPhase = phase \/ left <= GrantedEnd(v)
      BY <1>1, <2>3 DEF InstalmentsShared, AboutToEnd
    <3>2. events[v].granted \in Nat /\ events[v].originalLeft \in Nat
      BY <2>3 DEF EventAt, TypeOK, Event
    <3>3. GrantedEnd(v)' = GrantedEnd(v) + granted /\ GrantedEnd(v) \in Nat
      BY <1>1, <2>3, <3>2, SMT DEF GrantedEnd
    <3>. QED
      BY <1>1, <1>2, <2>2, <3>1, <3>3, SMT
  <2>4. CASE /\ events'[v].originalLeft = reading.left
             /\ events'[v].granted = granted
    <3>1. GrantedEnd(v)' = left + granted
      BY <1>2, <2>4 DEF GrantedEnd
    <3>. QED
      BY <1>1, <1>2, <2>2, <3>1, SMT
  <2>. QED
    BY <2>1, <2>3, <2>4
<1>. QED
  BY <1>3, <1>4 DEF InstalmentsShared

LEMMA SettlementShares ==
    ASSUME TypeOK, PlanInv, LoopInv, InstalmentsShared, CompensationStep
    PROVE  InstalmentsShared'
<1>. SUFFICES ASSUME NEW v \in Vehicles, EventAt(v)'
              PROVE  /\ left' <= GrantedEnd(v)' + MaxPerCycle
                     /\ \/ accounts'.lastPhase = phase'
                        \/ AboutToEnd(v)'
                        \/ left' <= GrantedEnd(v)'
  BY DEF InstalmentsShared
<1>1. /\ stage = "decide" /\ stage' = "events"
      /\ phase' = phase /\ reading' = reading /\ events' = events
      /\ pending' = {w \in Vehicles : events[w] # NoEvent}
  BY SettlementFacts
<1>2. EventAt(v) /\ v \in pending' /\ GrantedEnd(v)' = GrantedEnd(v)
  BY <1>1 DEF EventAt, GrantedEnd
<1>3. /\ left <= GrantedEnd(v) + MaxPerCycle
      /\ accounts.lastPhase = phase \/ left <= GrantedEnd(v)
  BY <1>1, <1>2 DEF InstalmentsShared, AboutToEnd
<1>4. GrantedEnd(v) \in Nat /\ left \in Nat /\ MaxPerCycle \in Nat
  <2>1. events[v].granted \in Nat /\ events[v].originalLeft \in Nat
    BY <1>2 DEF EventAt, TypeOK, Event
  <2>. QED
    BY <2>1, CompensationAssumption, SMT DEF GrantedEnd, TypeOK
<1>5. CASE OnlyRemembers /\ left' = left
  <2>1. CASE reading.phase # phase
    BY <1>1, <1>2, <1>3, <1>5, <2>1 DEF AboutToEnd
  <2>2. CASE reading.phase = phase
    <3>1. accounts' = accounts \/ accounts'.lastPhase = phase
      BY <1>5, <2>2 DEF OnlyRemembers, RememberPhase, TypeOK, Accounts
    <3>. QED
      BY <1>1, <1>2, <1>3, <1>5, <3>1
  <2>. QED
    BY <2>1, <2>2
<1>6. CASE /\ ~intervened /\ reading.phase = phase /\ accounts.lastPhase # phase
           /\ reading.left \in Nat /\ left' <= reading.left + MaxPerCycle
           /\ accounts'.lastPhase = phase
  <2>1. reading.left = left
    BY <1>1, <1>6, PlanTypes DEF LoopInv, ReadingFresh
  <2>2. left <= GrantedEnd(v)
    BY <1>3, <1>6
  <2>3. left' \in Nat
    BY CompensationStepType DEF TypeOK
  <2>. QED
    BY <1>1, <1>2, <1>4, <1>6, <2>1, <2>2, <2>3, SMT
<1>. QED
  BY <1>5, <1>6, SettlementFacts

LEMMA EventStepShares ==
    ASSUME TypeOK, PendingOpen, PlanInv, LoopInv, InstalmentsShared,
           NEW v \in Vehicles,
           EventEndsWithItsPhase(v) \/ EventGoesOn(v) \/ CheckOut(v)
    PROVE  InstalmentsShared'
<1>1. /\ stage = "events" /\ v \in pending /\ pending' = pending \ {v}
      /\ phase' = phase /\ reading' = reading /\ stage' = stage
      /\ accounts'.lastPhase = accounts.lastPhase
      /\ \A w \in Vehicles \ {v} : events'[w] = events[w]
      /\ events'[v] = NoEvent \/ (EventGoesOn(v) /\ events' = events /\ left' = left)
      /\ left' # left => EventAt(v)
  BY VisitFacts
<1>. SUFFICES ASSUME NEW w \in Vehicles, EventAt(w)'
              PROVE  /\ left' <= GrantedEnd(w)' + MaxPerCycle
                     /\ \/ accounts'.lastPhase = phase'
                        \/ AboutToEnd(w)'
                        \/ left' <= GrantedEnd(w)'
  BY DEF InstalmentsShared
<1>2. events'[w] = events[w]
  BY <1>1 DEF EventAt
<1>3. EventAt(w) /\ GrantedEnd(w)' = GrantedEnd(w)
  BY <1>1, <1>2 DEF EventAt, GrantedEnd
<1>4. left' = left
  BY <1>1, <1>3 DEF LoopInv, OneEventPerGreen, EventAt
<1>5. AboutToEnd(w) => AboutToEnd(w)'
  <2>1. w = v => reading.phase = phase
    BY <1>1, <1>3 DEF EventGoesOn, EventAt
  <2>. QED
    BY <1>1, <2>1 DEF AboutToEnd
<1>. QED
  BY <1>1, <1>3, <1>4, <1>5 DEF InstalmentsShared

LEMMA InstalmentsStep ==
    ASSUME CooldownOutlastsGreen, NoEmergencies, NoBlindTruncation,
           TypeOK, PendingOpen, PlanInv, LoopInv, InstalmentsShared, [Next]_vars
    PROVE  InstalmentsShared'
<1>1. CASE SimulationStep
  BY <1>1, SimulationStepShares
<1>2. CASE \E v \in Vehicles, c \in BOOLEAN : RefusedDecision(v, c)
  BY <1>2 DEF RefusedDecision, plant, loop, InstalmentsShared, EventAt,
              AboutToEnd, GrantedEnd
<1>3. CASE \E v \in Vehicles, asked \in Extensions : GreenExtension(v, asked)
  BY <1>3, GreenExtensionShares
<1>4. ASSUME NEW v \in Vehicles, NEW to \in Truncations, EarlyGreen(v, to)
      PROVE  InstalmentsShared'
  <2>1. /\ left' \in {left, to} /\ to < reading.left /\ reading.left \in Nat /\ to \in Nat
        /\ phase' = phase /\ reading' = reading /\ stage' = stage /\ pending' = pending
        /\ stage = "decide" /\ ~intervened /\ events' = events
        /\ accounts'.lastPhase = accounts.lastPhase
    BY <1>4, EarlyGreenFacts
  <2>2. reading.left = left /\ left \in Nat
    BY <2>1, PlanTypes DEF LoopInv, ReadingFresh, TypeOK
  <2>3. left' \in Nat /\ left' <= left
    BY <2>1, <2>2, SMT
  <2>. SUFFICES ASSUME NEW w \in Vehicles, EventAt(w)'
                PROVE  /\ left' <= GrantedEnd(w) + MaxPerCycle
                       /\ accounts.lastPhase = phase \/ left' <= GrantedEnd(w)
    BY <2>1 DEF InstalmentsShared, GrantedEnd, AboutToEnd
  <2>4. /\ left <= GrantedEnd(w) + MaxPerCycle
        /\ accounts.lastPhase = phase \/ left <= GrantedEnd(w)
    BY <2>1 DEF InstalmentsShared, EventAt, AboutToEnd
  <2>5. GrantedEnd(w) \in Nat /\ MaxPerCycle \in Nat
    <3>1. events[w].granted \in Nat /\ events[w].originalLeft \in Nat
      BY <2>1 DEF EventAt, TypeOK, Event
    <3>. QED
      BY <3>1, CompensationAssumption, SMT DEF GrantedEnd
  <2>. QED
    BY <2>2, <2>3, <2>4, <2>5, SMT
<1>5. CASE CompensationStep
  BY <1>5, SettlementShares
<1>6. CASE \E v \in Vehicles :
               EventEndsWithItsPhase(v) \/ EventGoesOn(v) \/ CheckOut(v)
  BY <1>6, EventStepShares
<1>7. CASE UNCHANGED vars
  BY <1>7 DEF vars, plant, books, loop, InstalmentsShared, EventAt, AboutToEnd,
              GrantedEnd
<1>. QED
  BY <1>1, <1>2, <1>3, <1>4, <1>5, <1>6, <1>7, ContinuesType DEF Next

\* The instalments of a priority event share the budget of one extension, and,
\* unless an emergency vehicle extends the same green, they and one payback are
\* all that keeps it past the end fixed at the check-in: instalments, lost
\* commands, phases that could not be read and settlements never add up to more.
THEOREM EventBudgetNeverExceeded ==
    ASSUME CooldownOutlastsGreen, NoBlindTruncation
    PROVE  Spec => []EventBudgetKept
<1>1. Spec => []GrantedWithinBudget
  <2>1. Init => /\ TypeOK /\ PendingOpen /\ PlanInv
                /\ EventsNeedLifecycle /\ GrantedWithinBudget
    BY InitType, InitPlan DEF Init, PendingOpen, EventsNeedLifecycle, GrantedWithinBudget
  <2>2. TypeOK /\ PendingOpen /\ PlanInv /\ EventsNeedLifecycle
             /\ GrantedWithinBudget /\ [Next]_vars
            => TypeOK' /\ PendingOpen' /\ PlanInv' /\ EventsNeedLifecycle'
               /\ GrantedWithinBudget'
    BY TypeStep, PlanStep, GrantedStep
  <2>. QED
    BY <2>1, <2>2, PTL DEF Spec
<1>2. CASE NoEmergencies
  <2>1. Init => InstalmentsShared
    BY DEF Init, InstalmentsShared, EventAt
  <2>2. TypeOK /\ PendingOpen /\ PlanInv /\ LoopInv
             /\ InstalmentsShared /\ [Next]_vars => InstalmentsShared'
    BY <1>2, InstalmentsStep
  <2>3. Spec => [](TypeOK /\ PendingOpen /\ PlanInv /\ LoopInv)
    BY <1>2, LoopKept
  <2>4. GrantedWithinBudget /\ InstalmentsShared => EventBudgetKept
    BY DEF GrantedWithinBudget, InstalmentsShared, EventBudgetKept, EventAt, GrantedEnd
  <2>. QED
    BY <1>1, <2>1, <2>2, <2>3, <2>4, PTL DEF Spec
<1>3. CASE ~NoEmergencies
  <2>1. GrantedWithinBudget => EventBudgetKept
    BY <1>3 DEF GrantedWithinBudget, EventBudgetKept, NoEmergencies
  <2>. QED
    BY <1>1, <2>1, PTL
<1>. QED
  BY <1>2, <1>3
-----------------------------------------------------------------------------
(* The accounts of the compensation.                                        *)

\* Extensions alone, each of which reaches the signal: a truncation is paid back
\* at the entry of its phase, and a check-out that follows takes the payback away
\* with the extension; a command that is lost is booked all the same.
ExtensionsAlone ==
    /\ AllowedActions \subseteq {"green_extension"}
    /\ CommandOutcomes = {"applied"}
    /\ CoordinationRecoveryEnabled

NothingIsOwed == \A p \in Phases : accounts.owed[p] = 0

\* What an event holds of its green beyond the end it would restore is there to
\* be reclaimed.
ReclaimCoversEvents ==
    \A v \in Vehicles : EventAt(v) =>
        left - events[v].originalLeft <= accounts.reclaim[phase]

LEMMA ExtensionsAloneFacts ==
    ASSUME ExtensionsAlone
    PROVE  /\ NoBlindTruncation
           /\ \A v \in Vehicles, to \in Truncations : ~EarlyGreen(v, to)
BY DEF ExtensionsAlone, NoBlindTruncation, EarlyGreen

LEMMA AccountTypes ==
    ASSUME TypeOK, NEW p \in Phases
    PROVE  accounts.owed[p] \in Nat /\ accounts.reclaim[p] \in Nat
BY DEF TypeOK, Accounts

\* An extension lengthens the green it is booked on, by as much.
LEMMA ExtensionDisplaces ==
    ASSUME ExtensionsAlone, TypeOK, PlanInv, LoopInv,
           NEW v \in Vehicles, NEW asked \in Extensions, GreenExtension(v, asked)
    PROVE  /\ phase \in Phases /\ reading.left = left
           /\ SafeExtension(v, asked) \in Nat
           /\ left' = left + SafeExtension(v, asked)
           /\ accounts'.owed = accounts.owed
           /\ accounts'.reclaim[phase] = accounts.reclaim[phase] + SafeExtension(v, asked)
<1>. DEFINE granted == SafeExtension(v, asked)
<1>1. /\ granted \in Nat /\ reading.left \in Nat /\ stage = "decide" /\ ~intervened
      /\ phase \in Phases
      /\ accounts' = RegisterGreenExtension(accounts, phase, granted)
  BY ExtensionFacts
<1>2. reading.left = left
  BY <1>1, PlanTypes DEF LoopInv, ReadingFresh
<1>3. left' = reading.left + granted
  BY DEF GreenExtension, SendsDuration, ExtensionsAlone
<1>. HIDE DEF granted
<1>4. /\ accounts'.owed = accounts.owed
      /\ accounts'.reclaim[phase] = accounts.reclaim[phase] + granted
  BY <1>1 DEF RegisterGreenExtension, ExtensionsAlone, TypeOK, Accounts
<1>. QED
  BY <1>1, <1>2, <1>3, <1>4 DEF granted

\* A settlement does so too: nothing is paid back where nothing is owed.
LEMMA SettlementDisplaces ==
    ASSUME TypeOK, PlanInv, LoopInv, NothingIsOwed, CompensationStep
    PROVE  /\ phase' = phase /\ events' = events /\ accounts'.owed = accounts.owed
           /\ \/ left' = left /\ accounts'.reclaim = accounts.reclaim
              \/ /\ phase \in Phases /\ left' \in Int
                 /\ accounts'.reclaim[phase] - accounts.reclaim[phase] = left' - left
<1>1. phase' = phase /\ events' = events /\ stage = "decide"
  BY SettlementFacts
<1>2. CASE OnlyRemembers
  <2>1. reading.phase \in Phases \cup {Unread} /\ intervened \in BOOLEAN
    BY DEF TypeOK, Reading
  <2>. QED
    BY <1>1, <1>2, <2>1, RememberPhaseKeepsAccounts DEF OnlyRemembers, TypeOK
<1>3. ASSUME ~intervened, EntersPhase(accounts, reading), PaysBack
      PROVE  FALSE
  <2>1. reading.phase \in Phases
    BY <1>3, ReadingTypes DEF EntersPhase
  <2>2. Grant(accounts, reading) \in Nat /\ Grant(accounts, reading) <= 0
    BY <1>3, <2>1, GrantBounds DEF EntersPhase, TypeOK, NothingIsOwed
  <2>. QED
    BY <1>3, <2>2, SMT DEF PaysBack
<1>4. ASSUME ~intervened, EntersPhase(accounts, reading), TakesBack
      PROVE  /\ accounts'.owed = accounts.owed
             /\ phase \in Phases /\ left' \in Int
             /\ accounts'.reclaim[phase] - accounts.reclaim[phase] = left' - left
  <2>. DEFINE take == Take(accounts, reading)
              before == RememberPhase(accounts, reading.phase, FALSE)
  <2>1. /\ reading.phase = phase /\ reading.left \in Nat /\ phase \in Phases
    BY <1>4, ReadingTypes DEF EntersPhase, PlanInv, ReadingOfThisStep, TypeOK
  <2>2. reading.left = left
    BY <1>1, <1>4, <2>1, PlanTypes DEF LoopInv, ReadingFresh
  <2>3. take \in Nat
    BY <1>4, TakeBounds DEF EntersPhase, TypeOK
  <2>4. left' = left - take
    BY <1>4, <2>2 DEF TakesBack
  <2>5. /\ before \in Accounts
        /\ before.owed = accounts.owed /\ before.reclaim = accounts.reclaim
    BY <2>1, RememberPhaseType, RememberPhaseKeepsAccounts DEF TypeOK
  <2>6. accounts' = [before EXCEPT !.reclaim[phase] = @ - take]
    BY <1>4, <2>1 DEF TakesBack
  <2>. HIDE DEF take, before
  <2>7. /\ accounts'.owed = accounts.owed
        /\ accounts'.reclaim[phase] = accounts.reclaim[phase] - take
    BY <2>1, <2>5, <2>6 DEF Accounts
  <2>. QED
    BY <2>1, <2>2, <2>3, <2>4, <2>7, AccountTypes, SMT
<1>. QED
  BY <1>1, <1>2, <1>3, <1>4 DEF CompensationStep

\* A check-out takes out of the account what it takes from the green.
LEMMA CheckOutDisplaces ==
    ASSUME TypeOK, PendingOpen, PlanInv, LoopInv, ReclaimCoversEvents,
           NEW v \in Vehicles,
           EventEndsWithItsPhase(v) \/ EventGoesOn(v) \/ CheckOut(v)
    PROVE  /\ phase' = phase /\ accounts'.owed = accounts.owed
           /\ \/ left' = left /\ accounts' = accounts
              \/ /\ EventAt(v) /\ phase \in Phases
                 /\ accounts'.reclaim[phase] - accounts.reclaim[phase] = left' - left
<1>1. phase' = phase
  BY VisitFacts
<1>2. CASE accounts' = accounts /\ left' = left
  BY <1>1, <1>2
<1>3. CASE ~(accounts' = accounts /\ left' = left)
  <2>. DEFINE returned == reading.left - events[v].originalLeft
  <2>1. /\ CheckOut(v) /\ returned >= 1 /\ left' = events[v].originalLeft
        /\ accounts' = ReduceReclaim(accounts, reading.phase, returned)
    BY <1>3 DEF EventEndsWithItsPhase, EventGoesOn, CheckOut, books
  <2>2. /\ v \in pending /\ events[v] # NoEvent /\ events[v] \in Event
        /\ reading.left \in Nat /\ ~commanded /\ reading.phase = events[v].phase
    BY <2>1, ReadingTypes DEF CheckOut, ChecksOut, Visits, PendingOpen, TypeOK
  <2>3. reading.phase = phase /\ phase \in Phases
    BY <2>2, PlanTypes DEF PlanInv, ReadingOfThisStep, Event
  <2>4. EventAt(v)
    BY <2>2, <2>3 DEF EventAt
  <2>5. reading.left = left
    BY <2>2, <2>4, PlanTypes DEF LoopInv, ReadingFresh
  <2>6. /\ returned = left - left' /\ returned \in Nat /\ left \in Nat /\ left' \in Nat
        /\ returned <= accounts.reclaim[phase]
    BY <2>1, <2>2, <2>4, <2>5, SMT DEF ReclaimCoversEvents, Event
  <2>. HIDE DEF returned
  <2>7. /\ accounts'.owed = accounts.owed
        /\ accounts'.reclaim[phase] = AtLeastZero(accounts.reclaim[phase] - returned)
    BY <2>1, <2>3 DEF ReduceReclaim, TypeOK, Accounts
  <2>8. accounts.reclaim[phase] \in Nat
    BY <2>3, AccountTypes
  <2>9. accounts'.reclaim[phase] - accounts.reclaim[phase] = left' - left
    BY <2>6, <2>7, <2>8, SMT DEF AtLeastZero
  <2>. QED
    BY <1>1, <2>3, <2>4, <2>7, <2>9
<1>. QED
  BY <1>2, <1>3

LEMMA CoverStep ==
    ASSUME ExtensionsAlone, TypeOK, PendingOpen, PlanInv, LoopInv,
           NothingIsOwed, ReclaimCoversEvents, [Next]_vars
    PROVE  NothingIsOwed' /\ ReclaimCoversEvents'
<1>1. phase \in Phases /\ left \in Nat /\ left' \in Nat
  BY TypeStep DEF TypeOK
<1>2. CASE SimulationStep
  <2>. SUFFICES ASSUME NEW v \in Vehicles, EventAt(v)'
                PROVE  left' - events'[v].originalLeft <= accounts.reclaim[phase']
    BY <1>2 DEF SimulationStep, NothingIsOwed, ReclaimCoversEvents
  <2>1. events'[v] = EventNearsItsEnd(events[v]) /\ events'[v] # NoEvent
    BY <1>2 DEF SimulationStep, EventAt
  <2>2. events[v] # NoEvent /\ events[v] \in Event
    BY <2>1 DEF EventNearsItsEnd, TypeOK
  <2>3. /\ events'[v].phase = events[v].phase
        /\ events'[v].originalLeft = AtLeastZero(events[v].originalLeft - 1)
    BY <2>1, <2>2 DEF EventNearsItsEnd, Event
  <2>4. EventAt(v)
    BY <1>2, <2>2 DEF SimulationStep, PlanInv, EventsRestorePlan, EventAt
  <2>5. phase' = phase
    BY <2>3, <2>4 DEF EventAt
  <2>6. left' = left - 1 /\ left > 1
    BY <1>1, <1>2, <2>5, NextPhaseType DEF SimulationStep, ProgramAdvances
  <2>7. left - events[v].originalLeft <= accounts.reclaim[phase]
    BY <2>4 DEF ReclaimCoversEvents
  <2>8. events[v].originalLeft \in Nat /\ accounts.reclaim[phase] \in Nat
    BY <1>1, <2>2, AccountTypes DEF Event
  <2>. QED
    BY <1>1, <2>3, <2>5, <2>6, <2>7, <2>8, SMT DEF AtLeastZero
<1>3. ASSUME NEW v \in Vehicles, NEW asked \in Extensions, GreenExtension(v, asked)
      PROVE  NothingIsOwed' /\ ReclaimCoversEvents'
  <2>. DEFINE granted == SafeExtension(v, asked)
  <2>1. /\ reading.left = left /\ granted \in Nat /\ left' = left + granted
        /\ accounts'.owed = accounts.owed
        /\ accounts'.reclaim[phase] = accounts.reclaim[phase] + granted
    BY <1>3, ExtensionDisplaces
  <2>2. /\ phase' = phase
        /\ \A w \in Vehicles \ {v} : events'[w] = events[w]
    BY <1>3, ExtensionFacts, ExtensionEvents DEF LoopInv
  <2>. HIDE DEF granted
  <2>. SUFFICES ASSUME NEW w \in Vehicles, EventAt(w)'
                PROVE  left' - events'[w].originalLeft <= accounts'.reclaim[phase]
    BY <2>1, <2>2 DEF NothingIsOwed, ReclaimCoversEvents
  <2>3. \/ EventAt(w) /\ events'[w].originalLeft = events[w].originalLeft
        \/ events'[w].originalLeft = left
    BY <1>3, <2>1, <2>2, ExtensionEvents DEF EventAt, LoopInv
  <2>4. accounts.reclaim[phase] \in Nat
    BY <1>1, AccountTypes
  <2>5. CASE EventAt(w) /\ events'[w].originalLeft = events[w].originalLeft
    <3>1. /\ left - events[w].originalLeft <= accounts.reclaim[phase]
          /\ events[w].originalLeft \in Nat
      BY <2>5 DEF ReclaimCoversEvents, EventAt, TypeOK, Event
    <3>. QED
      BY <1>1, <2>1, <2>4, <2>5, <3>1, SMT
  <2>6. CASE events'[w].originalLeft = left
    BY <1>1, <2>1, <2>4, <2>6, SMT
  <2>. QED
    BY <2>3, <2>5, <2>6
<1>4. CASE CompensationStep
  <2>1. /\ phase' = phase /\ events' = events /\ accounts'.owed = accounts.owed
        /\ \/ left' = left /\ accounts'.reclaim = accounts.reclaim
           \/ accounts'.reclaim[phase] - accounts.reclaim[phase] = left' - left
    BY <1>4, SettlementDisplaces
  <2>. SUFFICES ASSUME NEW w \in Vehicles, EventAt(w)'
                PROVE  left' - events[w].originalLeft <= accounts'.reclaim[phase]
    BY <2>1 DEF NothingIsOwed, ReclaimCoversEvents
  <2>2. /\ left - events[w].originalLeft <= accounts.reclaim[phase]
        /\ events[w].originalLeft \in Nat
    BY <2>1 DEF ReclaimCoversEvents, EventAt, TypeOK, Event
  <2>3. accounts.reclaim[phase] \in Nat /\ accounts'.reclaim[phase] \in Nat
    BY <1>1, <1>4, CompensationStepType DEF TypeOK, Accounts
  <2>. QED
    BY <1>1, <2>1, <2>2, <2>3, SMT
<1>5. ASSUME NEW v \in Vehicles,
             EventEndsWithItsPhase(v) \/ EventGoesOn(v) \/ CheckOut(v)
      PROVE  NothingIsOwed' /\ ReclaimCoversEvents'
  <2>1. /\ phase' = phase /\ accounts'.owed = accounts.owed
        /\ (left' = left /\ accounts' = accounts) \/ EventAt(v)
    BY <1>5, CheckOutDisplaces
  <2>2. /\ \A w \in Vehicles \ {v} : events'[w] = events[w]
        /\ events'[v] = NoEvent \/ (events' = events /\ left' = left /\ EventGoesOn(v))
    BY <1>5, VisitFacts
  <2>. SUFFICES ASSUME NEW w \in Vehicles, EventAt(w)'
                PROVE  left' - events'[w].originalLeft <= accounts'.reclaim[phase]
    BY <2>1 DEF NothingIsOwed, ReclaimCoversEvents
  <2>3. EventAt(w) /\ events'[w] = events[w]
    BY <2>1, <2>2 DEF EventAt
  <2>4. left' = left /\ accounts' = accounts
    <3>1. CASE w = v
      <4>1. EventGoesOn(v)
        BY <2>2, <3>1 DEF EventAt
      <4>. QED
        BY <4>1 DEF EventGoesOn, books
    <3>2. CASE w # v
      BY <2>1, <2>3, <3>2 DEF LoopInv, OneEventPerGreen
    <3>. QED
      BY <3>1, <3>2
  <2>. QED
    BY <2>3, <2>4 DEF ReclaimCoversEvents
<1>6. CASE UNCHANGED <<phase, left, accounts, events>>
  BY <1>6 DEF NothingIsOwed, ReclaimCoversEvents, EventAt
<1>7. \/ SimulationStep
      \/ \E v \in Vehicles, asked \in Extensions : GreenExtension(v, asked)
      \/ CompensationStep
      \/ \E v \in Vehicles :
             EventEndsWithItsPhase(v) \/ EventGoesOn(v) \/ CheckOut(v)
      \/ UNCHANGED <<phase, left, accounts, events>>
  BY ExtensionsAloneFacts DEF Next, RefusedDecision, vars, plant, books
<1>. QED
  BY <1>2, <1>3, <1>4, <1>5, <1>6, <1>7

LEMMA StepIsAccounted ==
    ASSUME ExtensionsAlone, TypeOK, PendingOpen, PlanInv, LoopInv,
           NothingIsOwed, ReclaimCoversEvents, [Next]_vars, InStep
    PROVE  left' - left = Displacement(accounts') - Displacement(accounts)
<1>1. /\ phase \in Phases /\ left \in Nat /\ left' \in Nat
      /\ accounts.owed[phase] \in Nat /\ accounts.reclaim[phase] \in Nat
  BY TypeStep, AccountTypes DEF TypeOK
<1>2. accounts'.owed[phase] \in Nat /\ accounts'.reclaim[phase] \in Nat
  BY <1>1, TypeStep DEF TypeOK, Accounts
<1>3. CASE left' = left /\ accounts'.owed = accounts.owed /\ accounts'.reclaim = accounts.reclaim
  BY <1>1, <1>3, SMT DEF Displacement
<1>4. CASE /\ accounts'.owed = accounts.owed
           /\ accounts'.reclaim[phase] - accounts.reclaim[phase] = left' - left
  BY <1>1, <1>2, <1>4, SMT DEF Displacement
<1>5. CASE \E v \in Vehicles, asked \in Extensions : GreenExtension(v, asked)
  <2>1. PICK v \in Vehicles, asked \in Extensions : GreenExtension(v, asked)
    BY <1>5
  <2>2. /\ SafeExtension(v, asked) \in Nat /\ left' = left + SafeExtension(v, asked)
        /\ accounts'.owed = accounts.owed
        /\ accounts'.reclaim[phase] = accounts.reclaim[phase] + SafeExtension(v, asked)
    BY <2>1, ExtensionDisplaces
  <2>. QED
    BY <1>1, <1>4, <2>2, SMT
<1>6. CASE CompensationStep
  BY <1>3, <1>4, <1>6, SettlementDisplaces
<1>7. CASE \E v \in Vehicles :
               EventEndsWithItsPhase(v) \/ EventGoesOn(v) \/ CheckOut(v)
  BY <1>3, <1>4, <1>7, CheckOutDisplaces
<1>8. ~SimulationStep
  BY DEF SimulationStep, InStep
<1>9. CASE UNCHANGED <<left, accounts>>
  BY <1>3, <1>9
<1>. QED
  BY <1>5, <1>6, <1>7, <1>8, <1>9, ExtensionsAloneFacts
     DEF Next, RefusedDecision, vars, plant, books

\* What extensions, reclaims and check-outs do to the cycle is exactly what the
\* accounts say: no green is reclaimed that was never given or that a check-out
\* had already handed back, and none that was given is forgotten.
THEOREM AccountsTellTheDisplacement ==
    ASSUME ExtensionsAlone, CooldownOutlastsGreen, NoEmergencies
    PROVE  Spec => DisplacementAccounted
<1>1. Init => NothingIsOwed /\ ReclaimCoversEvents
  BY DEF Init, NothingOwed, NothingIsOwed, ReclaimCoversEvents, EventAt
<1>2. TypeOK /\ PendingOpen /\ PlanInv /\ LoopInv /\ NothingIsOwed
          /\ ReclaimCoversEvents /\ [Next]_vars
          => NothingIsOwed' /\ ReclaimCoversEvents'
  BY CoverStep
<1>3. TypeOK /\ PendingOpen /\ PlanInv /\ LoopInv /\ NothingIsOwed
          /\ ReclaimCoversEvents /\ [Next]_vars
          => [InStep => left' - left = Displacement(accounts') - Displacement(accounts)]_vars
  BY StepIsAccounted
<1>4. Spec => [](TypeOK /\ PendingOpen /\ PlanInv /\ LoopInv)
  BY ExtensionsAloneFacts, LoopKept
<1>. QED
  BY <1>1, <1>2, <1>3, <1>4, PTL DEF Spec, DisplacementAccounted
=============================================================================
