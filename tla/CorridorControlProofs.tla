------------------------ MODULE CorridorControlProofs ------------------------
(***************************************************************************)
(* For any number of signals and requests, any hierarchy whose levels      *)
(* start at 1 and any cap of the corridor: what the order of a pass        *)
(* guarantees emergency vehicles, and that the stored debts the arbiter    *)
(* sums suffice to bound what is really owed, instalments of open events   *)
(* and returns at check-outs included.                                     *)
(***************************************************************************)
EXTENDS CorridorControl, DataInduction

-----------------------------------------------------------------------------
(* The rationing of one signal.                                            *)

\* The counter is reset later than the cooldown ends (safety.py, 525-542).
LEMMA WindowOutlastsCooldown ==
    /\ ResetWindow \in Nat
    /\ Cooldown < ResetWindow
BY RationingAssumption, SMT DEF ResetWindow

\* What is left of a debt is a number of seconds, and no more than the debt.
LEMMA DebtNowType ==
    ASSUME NEW r \in Ration
    PROVE  DebtNow(r) \in Nat /\ DebtNow(r) <= r.debt
<1>1. r.debt \in Nat /\ r.debtAge \in Nat
  BY DEF Ration
<1>2. r.debtAge * PaybackRate \in Nat
  BY <1>1, RationingAssumption, SMT
<1>. QED
  BY <1>1, <1>2, SMT DEF DebtNow, AtLeastZero

\* Every operation on a ration yields a ration.
LEMMA ElapseType ==
    ASSUME NEW r \in Ration
    PROVE  Elapse(r) \in Ration
<1>1. r.since \in 0 .. ResetWindow /\ r.debt \in Nat /\ r.debtAge \in Nat
  BY DEF Ration
<1>2. Lesser(r.since + 1, ResetWindow) \in 0 .. ResetWindow
  BY <1>1, WindowOutlastsCooldown, SMT DEF Lesser
<1>3. Lesser(r.debtAge + 1, r.debt) \in Nat
  BY <1>1, SMT DEF Lesser
<1>. QED
  BY <1>1, <1>2, <1>3 DEF Ration, Elapse

LEMMA RecoverDebtType ==
    ASSUME NEW r \in Ration
    PROVE  RecoverDebt(r) \in Ration
<1>1. DebtNow(r) \in Nat
  BY DebtNowType
<1>. QED
  BY <1>1 DEF Ration, RecoverDebt

LEMMA ResetCountType ==
    ASSUME NEW r \in Ration
    PROVE  ResetCountAfterRecoveryWindow(r) \in Ration
BY SMT DEF Ration, ResetCountAfterRecoveryWindow

LEMMA AfterValidateType ==
    ASSUME NEW r \in Ration, NEW e \in BOOLEAN, NEW c \in BOOLEAN
    PROVE  AfterValidate(r, e, c) \in Ration
BY RecoverDebtType, ResetCountType DEF AfterValidate

LEMMA MarkAppliedType ==
    ASSUME NEW r \in Ration, NEW c \in BOOLEAN, NEW added \in Nat
    PROVE  MarkApplied(r, c, added) \in Ration
<1>1. DebtNow(r) + added \in Nat
  BY DebtNowType, SMT
<1>. QED
  BY <1>1, WindowOutlastsCooldown, SMT DEF Ration, MarkApplied

\* What a check-out returns lowers the debt, to zero at most.
LEMMA ReturnOwesNoMore ==
    ASSUME NEW r \in Ration, NEW d \in Nat
    PROVE  /\ ReturnRecoveryDebt(r, d) \in Ration
           /\ ReturnRecoveryDebt(r, d).debt <= r.debt
<1>1. r.debt \in Nat
  BY DEF Ration
<1>2. AtLeastZero(r.debt - d) \in Nat /\ AtLeastZero(r.debt - d) <= r.debt
  BY <1>1, SMT DEF AtLeastZero
<1>. QED
  BY <1>2 DEF Ration, ReturnRecoveryDebt

-----------------------------------------------------------------------------
(* The order of a pass.                                                    *)

\* What a pass has made of each request.
VerdictType == verdict \in [Requests -> {"actuating"} \cup Settled \cup Intervening]

\* As long as an emergency vehicle waits for its turn in a pass, no ordinary
\* request of any signal has had its own.
EmergencyFirst ==
    \A r \in EmergencyRequests, s \in Requests \ EmergencyRequests :
        verdict[r] = "actuating" => verdict[s] \in {"idle", "actuating"}

CorridorInv == VerdictType /\ EmergencyFirst /\ EmergencySuperseded

-----------------------------------------------------------------------------
\* Every turn settles one open request, the first in line, and no other.
LEMMA ServeSettles ==
    ASSUME NEW r \in Requests, Serve(r)
    PROVE  /\ FirstInLine(r)
           /\ \E v \in Settled \cup Intervening : verdict' = [verdict EXCEPT ![r] = v]
BY DEF Serve, Supersede, Defer, Block, Refuse, Intervene, Approved, ReachesSafety, Settled,
       Intervening

\* A request is superseded only by an intervention at its own signal.
LEMMA ServeSupersedes ==
    ASSUME NEW r \in Requests, Serve(r), VerdictType, verdict'[r] = "superseded"
    PROVE  SignalOf[r] \in Intervened
<1>1. Defer(r) \/ (\E c \in MayContinue(r) : Block(r, c) \/ Refuse(r, c))
          => verdict'[r] # "superseded"
  BY DEF Defer, Block, Refuse, VerdictType
<1>2. (\E c \in MayContinue(r), added \in Displacements, outcome \in Intervening :
           Intervene(r, c, added, outcome)) => verdict'[r] # "superseded"
  BY DEF Intervene, Intervening, VerdictType
<1>3. Supersede(r)
  BY <1>1, <1>2 DEF Serve
<1>. QED
  BY <1>3 DEF Supersede

\* The first in line is an emergency vehicle as long as one is open.
LEMMA EmergencyIsFirst ==
    ASSUME NEW r \in EmergencyRequests, NEW s \in Requests \ EmergencyRequests,
           verdict[r] = "actuating"
    PROVE  ~FirstInLine(s)
<1>1. r \in Requests /\ Hierarchy[r] \in Nat /\ Hierarchy[s] \in Nat /\ Hierarchy[s] >= 1
  BY CorridorAssumption, HierarchyAssumption
<1>2. Rank(r) = 0
  BY <1>1, SMT DEF Rank, Lesser
<1>3. Rank(s) >= 1
  BY <1>1 DEF Rank
<1>4. ServedBefore(r, s)
  BY <1>1, <1>2, <1>3, SMT DEF ServedBefore, Rank
<1>5. r \in Open
  BY <1>1 DEF Open
<1>. QED
  BY <1>4, <1>5 DEF FirstInLine

-----------------------------------------------------------------------------
LEMMA InitCorridor == Init => CorridorInv
BY CorridorAssumption DEF Init, CorridorInv, VerdictType, EmergencyFirst, EmergencySuperseded,
                          Settled, Intervening

\* A new pass forgets what the one before made of the requests.
LEMMA NewPassCorridor == ASSUME NewPass PROVE CorridorInv'
<1>1. verdict' \in [Requests -> {"idle", "actuating"}]
  BY DEF NewPass
<1>2. \A r \in Requests : verdict'[r] \in {"idle", "actuating"}
  BY <1>1
<1>. QED
  BY <1>1, <1>2, CorridorAssumption
     DEF CorridorInv, VerdictType, EmergencyFirst, EmergencySuperseded, Settled, Intervening

LEMMA ServeCorridor ==
    ASSUME CorridorInv, NEW r \in Requests, Serve(r)
    PROVE  CorridorInv'
<1>. USE DEF CorridorInv
<1>1. FirstInLine(r) /\ verdict[r] = "actuating"
  BY ServeSettles DEF FirstInLine, Open
<1>2. PICK v \in Settled \cup Intervening : verdict' = [verdict EXCEPT ![r] = v]
  BY ServeSettles
<1>3. VerdictType'
  BY <1>2 DEF VerdictType
<1>4. verdict'[r] = v /\ \A q \in Requests \ {r} : verdict'[q] = verdict[q]
  BY <1>2 DEF VerdictType
<1>5. EmergencyFirst'
  <2>. SUFFICES ASSUME NEW e \in EmergencyRequests, NEW s \in Requests \ EmergencyRequests,
                       verdict'[e] = "actuating"
                PROVE  verdict'[s] \in {"idle", "actuating"}
    BY DEF EmergencyFirst
  <2>1. e \in Requests /\ e # r
    BY <1>4, CorridorAssumption DEF Settled, Intervening
  <2>2. verdict[e] = "actuating"
    BY <2>1, <1>4
  <2>3. s # r
    BY <2>2, <1>1, EmergencyIsFirst
  <2>. QED
    BY <2>2, <2>3, <1>4 DEF EmergencyFirst
<1>6. EmergencySuperseded'
  <2>. SUFFICES ASSUME NEW e \in EmergencyRequests, verdict'[e] = "superseded"
                PROVE  \E s \in EmergencyRequests :
                           SignalOf[s] = SignalOf[e] /\ verdict'[s] \in Intervening
    BY DEF EmergencySuperseded
  <2>. e \in Requests
    BY CorridorAssumption
  <2>1. ASSUME NEW s \in EmergencyRequests, verdict[s] \in Intervening
        PROVE  verdict'[s] \in Intervening
    BY <2>1, <1>1, <1>4, CorridorAssumption DEF Intervening
  <2>2. CASE e # r
    BY <2>1, <2>2, <1>4 DEF EmergencySuperseded
  <2>3. CASE e = r
    <3>1. PICK s \in Requests : verdict[s] \in Intervening /\ SignalOf[s] = SignalOf[e]
      BY <2>3, ServeSupersedes DEF Intervened
    <3>2. s \in EmergencyRequests
      BY <3>1, <2>3, <1>1 DEF EmergencyFirst, Intervening
    <3>. QED
      BY <3>1, <3>2, <2>1
  <2>. QED
    BY <2>2, <2>3
<1>. QED
  BY <1>3, <1>5, <1>6

LEMMA CorridorStep == CorridorInv /\ [Next]_vars => CorridorInv'
<1>. SUFFICES ASSUME CorridorInv, [Next]_vars PROVE CorridorInv'
  OBVIOUS
<1>1. CASE NewPass
  BY <1>1, NewPassCorridor
<1>2. ASSUME NEW r \in Requests, Serve(r) PROVE CorridorInv'
  BY <1>2, ServeCorridor
<1>3. CASE UNCHANGED verdict
  BY <1>3 DEF CorridorInv, VerdictType, EmergencyFirst, EmergencySuperseded
<1>. QED
  BY <1>1, <1>2, <1>3 DEF Next, CheckOut, vars

-----------------------------------------------------------------------------
(* The debt of the corridor.                                                *)

\* What signals with these counters owe, each and between them.
Debts(counters) == [t \in Signals |-> counters[t].debt]
Owed(counters) == MapThenSumSet(LAMBDA t : counters[t].debt, Signals)

\* The sum of the specification is one over a function of the signals.
LEMMA OwedIsASum ==
    ASSUME NEW counters \in [Signals -> Ration]
    PROVE  /\ \A t \in Signals : Debts(counters)[t] \in Int
           /\ \E sum : SumsOf(Debts(counters), Signals, sum) /\ Owed(counters) = sum[Signals]
<1>1. \A t \in Signals : Debts(counters)[t] = counters[t].debt /\ Debts(counters)[t] \in Int
  BY DEF Ration, Debts
<1>2. PICK one \in [SUBSET Signals -> Int] : SumsOf(Debts(counters), Signals, one)
  BY <1>1, CorridorAssumption, SumsExist
<1>. DEFINE Body(sum, s) == IF s = {} THEN 0
                            ELSE LET t == CHOOSE t \in s : TRUE
                                 IN counters[t].debt + sum[s \ {t}]
            Term(sum, s) == IF s = {} THEN 0
                            ELSE Debts(counters)[First(s)] + sum[s \ {First(s)}]
            Iterates(sum) == sum = [s \in SUBSET Signals |-> Body(sum, s)]
<1>3. ASSUME NEW sum PROVE Iterates(sum) <=> SumsOf(Debts(counters), Signals, sum)
  <2>1. \A s \in SUBSET Signals : Body(sum, s) = Term(sum, s)
    BY <1>1 DEF First
  <2>2. SumsOf(Debts(counters), Signals, sum)
            <=> sum = [s \in SUBSET Signals |-> Term(sum, s)]
    BY DEF SumsOf
  <2>. HIDE DEF Body, Term
  <2>3. [s \in SUBSET Signals |-> Body(sum, s)] = [s \in SUBSET Signals |-> Term(sum, s)]
    BY <2>1
  <2>. QED
    BY <2>2, <2>3
<1>4. Owed(counters) = (CHOOSE sum : Iterates(sum))[Signals]
  BY DEF Owed, MapThenSumSet, MapThenFoldSet
<1>. HIDE DEF Iterates
<1>5. Iterates(CHOOSE sum : Iterates(sum))
  BY <1>2, <1>3
<1>6. SumsOf(Debts(counters), Signals, CHOOSE sum : Iterates(sum))
  BY <1>3, <1>5
<1>. QED
  BY <1>1, <1>4, <1>6, Zenon

\* Where the debt of one signal grows by d at most and that of no other, the
\* corridor owes d more at most.
LEMMA OwedGrowsBy ==
    ASSUME NEW before \in [Signals -> Ration], NEW after \in [Signals -> Ration],
           NEW d \in Nat, NEW s,
           \A t \in Signals : after[t].debt <= before[t].debt + (IF t = s THEN d ELSE 0)
    PROVE  /\ Owed(before) \in Int /\ Owed(after) \in Int
           /\ Owed(after) <= Owed(before) + d
<1>1. PICK sum : SumsOf(Debts(before), Signals, sum) /\ Owed(before) = sum[Signals]
  BY OwedIsASum
<1>2. PICK later : SumsOf(Debts(after), Signals, later) /\ Owed(after) = later[Signals]
  BY OwedIsASum
<1>3. /\ \A t \in Signals : Debts(before)[t] \in Int
      /\ \A t \in Signals :
             /\ Debts(after)[t] \in Int
             /\ Debts(after)[t] <= Debts(before)[t] + (IF t = s THEN d ELSE 0)
  <2>1. \A t \in Signals : Debts(before)[t] = before[t].debt /\ Debts(after)[t] = after[t].debt
    BY DEF Debts
  <2>. QED
    BY <2>1, OwedIsASum
<1>4. later[Signals] <= sum[Signals] + d
  BY <1>1, <1>2, <1>3, CorridorAssumption, SumGrowsBy
<1>5. sum[Signals] \in Int /\ later[Signals] \in Int
  <2>1. sum \in [SUBSET Signals -> Int] /\ later \in [SUBSET Signals -> Int]
    BY <1>1, <1>2, <1>3, CorridorAssumption, SumsAreNumbers
  <2>. QED
    BY <2>1
<1>. QED
  BY <1>1, <1>2, <1>4, <1>5

\* At every moment of every pass the invariant holds: it adds to the two
\* results below the order in which they follow, emergencies first.
THEOREM CorridorInvariant == Spec => []CorridorInv
BY InitCorridor, CorridorStep, PTL DEF Spec

\* An emergency vehicle loses its signal within a pass only to another one,
\* because no ordinary request has its turn before it
\* (_response_priority_sort_key).
THEOREM EmergencyYieldsToEmergency == Spec => []EmergencySuperseded
BY CorridorInvariant, PTL DEF CorridorInv

-----------------------------------------------------------------------------
(* The debt of the corridor.                                                *)

\* The Safety Layer's counters at every signal.
RationsType == rations \in [Signals -> Ration]

\* Every operation of a pass keeps the counters well typed.
LEMMA CountersOfTheCorridor ==
    ASSUME RationsType, [Next]_vars
    PROVE  RationsType'
<1>. USE DEF RationsType
<1>1. CASE NewPass
  <2>1. \A t \in Signals : Elapse(rations[t]) \in Ration
    BY ElapseType
  <2>. QED
    BY <1>1, <2>1 DEF NewPass
<1>2. ASSUME NEW r \in Requests, Serve(r) PROVE RationsType'
  <2>1. SignalOf[r] \in Signals /\ (r \in EmergencyRequests) \in BOOLEAN
    BY CorridorAssumption
  <2>2. MayContinue(r) \subseteq BOOLEAN
    BY DEF MayContinue
  <2>3. \A c \in MayContinue(r) : Validated(r, c) \in Ration
    BY <2>1, <2>2, AfterValidateType DEF Validated
  <2>4. \A c \in MayContinue(r), added \in Displacements : Book(r, c, added) \in Ration
    BY <2>2, <2>3, CorridorAssumption, MarkAppliedType DEF Book
  <2>. QED
    BY <1>2, <2>3, <2>4 DEF Serve, Supersede, Defer, Block, Refuse, Intervene
<1>3. ASSUME NEW r \in Requests, CheckOut(r) PROVE RationsType'
  <2>1. SignalOf[r] \in Signals /\ Returns \subseteq Nat
    BY CorridorAssumption
  <2>2. \A d \in Returns : ReturnRecoveryDebt(rations[SignalOf[r]], d) \in Ration
    BY <2>1, ReturnOwesNoMore
  <2>. QED
    BY <1>3, <2>1, <2>2 DEF CheckOut
<1>. QED
  BY <1>1, <1>2, <1>3 DEF Next, vars

\* A validation brings the debt up to date and never raises it.
LEMMA ValidationOwesNoMore ==
    ASSUME NEW r \in Ration, NEW e \in BOOLEAN, NEW c \in BOOLEAN
    PROVE  AfterValidate(r, e, c).debt <= r.debt
<1>1. ResetCountAfterRecoveryWindow(r) \in Ration /\ ResetCountAfterRecoveryWindow(r).debt = r.debt
  BY ResetCountType DEF ResetCountAfterRecoveryWindow, Ration
<1>2. RecoverDebt(ResetCountAfterRecoveryWindow(r)).debt <= r.debt
  BY <1>1, DebtNowType DEF RecoverDebt
<1>3. r.debt <= r.debt
  BY DEF Ration
<1>. QED
  BY <1>1, <1>2, <1>3 DEF AfterValidate

\* An intervention adds what it displaces to the debt of its signal; nothing
\* else that a pass does makes a signal owe more.
LEMMA InterventionOwes ==
    ASSUME RationsType, NEW r \in Requests, NEW c \in BOOLEAN,
           NEW added \in Displacements, NEW outcome, Intervene(r, c, added, outcome)
    PROVE  \A t \in Signals :
               rations'[t].debt <= rations[t].debt + (IF t = SignalOf[r] THEN added ELSE 0)
<1>. DEFINE s == SignalOf[r]
<1>1. s \in Signals /\ rations[s] \in Ration /\ added \in Nat
  BY CorridorAssumption DEF RationsType
<1>2. Validated(r, c) \in Ration /\ Validated(r, c).debt <= rations[s].debt
  <2>1. (r \in EmergencyRequests) \in BOOLEAN
    OBVIOUS
  <2>2. Validated(r, c) = AfterValidate(rations[s], r \in EmergencyRequests, c)
    BY DEF Validated
  <2>. HIDE DEF s
  <2>. QED
    BY <1>1, <2>1, <2>2, AfterValidateType, ValidationOwesNoMore
<1>3. rations' = [rations EXCEPT ![s] = Book(r, c, added)]
  BY DEF Intervene
<1>4. Book(r, c, added).debt = DebtNow(Validated(r, c)) + added
  BY DEF Book, MarkApplied
<1>5. DebtNow(Validated(r, c)) \in Nat /\ DebtNow(Validated(r, c)) <= Validated(r, c).debt
  BY <1>2, DebtNowType
<1>6. rations[s].debt \in Nat /\ Validated(r, c).debt \in Nat
  BY <1>1, <1>2 DEF Ration
<1>. HIDE DEF s
<1>7. rations'[s].debt <= rations[s].debt + added
  BY <1>1, <1>2, <1>3, <1>4, <1>5, <1>6 DEF RationsType
<1>8. \A t \in Signals \ {s} : rations'[t] = rations[t] /\ rations[t].debt \in Nat
  BY <1>3 DEF RationsType, Ration
<1>. QED
  BY <1>7, <1>8 DEF s

LEMMA OnlyInterventionsOwe ==
    ASSUME RationsType, [Next]_vars,
           ~\E r \in Requests, c \in BOOLEAN, added \in Displacements,
               outcome \in Intervening : Intervene(r, c, added, outcome)
    PROVE  \A t \in Signals : rations'[t].debt <= rations[t].debt
<1>1. \A t \in Signals : rations[t] \in Ration /\ rations[t].debt \in Nat
  BY DEF RationsType, Ration
<1>2. CASE NewPass
  <2>1. \A t \in Signals : rations'[t] = Elapse(rations[t])
    BY <1>2 DEF NewPass
  <2>2. ASSUME NEW c PROVE Elapse(c).debt = c.debt
    BY DEF Elapse
  <2>3. \A t \in Signals : rations'[t].debt = rations[t].debt
    BY <2>1, <2>2
  <2>. QED
    BY <1>1, <2>3
<1>3. ASSUME NEW r \in Requests, NEW c \in BOOLEAN, Block(r, c) \/ Refuse(r, c)
      PROVE  \A t \in Signals : rations'[t].debt <= rations[t].debt
  <2>1. SignalOf[r] \in Signals /\ (r \in EmergencyRequests) \in BOOLEAN
    BY CorridorAssumption
  <2>2. Validated(r, c).debt <= rations[SignalOf[r]].debt
    BY <1>1, <2>1, ValidationOwesNoMore DEF Validated
  <2>3. rations' = [rations EXCEPT ![SignalOf[r]] = Validated(r, c)]
    BY <1>3 DEF Block, Refuse
  <2>4. rations'[SignalOf[r]] = Validated(r, c)
    BY <2>1, <2>3 DEF RationsType
  <2>5. \A t \in Signals \ {SignalOf[r]} : rations'[t] = rations[t]
    BY <2>3 DEF RationsType
  <2>. QED
    BY <1>1, <2>2, <2>4, <2>5
<1>4. ASSUME NEW r \in Requests, CheckOut(r)
      PROVE  \A t \in Signals : rations'[t].debt <= rations[t].debt
  <2>1. PICK d \in Returns : rations' = [rations EXCEPT ![SignalOf[r]] =
                                             ReturnRecoveryDebt(@, d)]
    BY <1>4 DEF CheckOut
  <2>2. SignalOf[r] \in Signals /\ d \in Nat
    BY CorridorAssumption
  <2>3. rations'[SignalOf[r]].debt <= rations[SignalOf[r]].debt
    BY <1>1, <2>1, <2>2, ReturnOwesNoMore DEF RationsType
  <2>4. \A t \in Signals \ {SignalOf[r]} : rations'[t] = rations[t]
    BY <2>1 DEF RationsType
  <2>. QED
    BY <1>1, <2>3, <2>4
<1>5. CASE rations' = rations
  BY <1>1, <1>5
<1>6. \A r \in Requests : MayContinue(r) \subseteq BOOLEAN
  BY DEF MayContinue
<1>. QED
  BY <1>2, <1>3, <1>4, <1>5, <1>6 DEF Next, vars, Serve, Supersede, Defer

\* The largest displacement is one, and no other is larger.
LEMMA LargestDisplacement ==
    /\ Max(Displacements) \in Nat
    /\ \A d \in Displacements : d <= Max(Displacements)
<1>. DEFINE id == [d \in Displacements |-> d]
<1>1. \A d \in Displacements : id[d] = d /\ d \in Nat /\ id[d] \in Int
  BY CorridorAssumption
<1>. HIDE DEF id
<1>2. PICK m \in Displacements : \A d \in Displacements : id[d] <= id[m]
  BY <1>1, CorridorAssumption, HighestExists
<1>3. \A d \in Displacements : m >= d
  BY <1>1, <1>2
<1>4. /\ Max(Displacements) \in Displacements
      /\ \A d \in Displacements : Max(Displacements) >= d
  BY <1>3 DEF Max
<1>. QED
  BY <1>1, <1>4

LEMMA DebtInit == Init => RationsType /\ CorridorDebtBounded
<1>. SUFFICES ASSUME Init PROVE RationsType /\ CorridorDebtBounded
  OBVIOUS
<1>1. RationsType
  BY WindowOutlastsCooldown DEF Init, RationsType, Rested, Ration
<1>2. PICK sum : SumsOf(Debts(rations), Signals, sum) /\ Owed(rations) = sum[Signals]
  BY <1>1, OwedIsASum DEF RationsType
<1>3. \A t \in Signals : Debts(rations)[t] = 0
  BY DEF Init, Rested, Debts
<1>4. Owed(rations) = 0
  BY <1>2, <1>3, CorridorAssumption, SumOfZeros
<1>5. CorridorDebt = Owed(rations)
  BY DEF CorridorDebt, Owed
<1>. QED
  BY <1>1, <1>4, <1>5, LargestDisplacement, CorridorAssumption DEF CorridorDebtBounded

LEMMA DebtStep ==
    ASSUME RationsType, CorridorDebtBounded, [Next]_vars
    PROVE  RationsType' /\ CorridorDebtBounded'
<1>1. RationsType'
  BY CountersOfTheCorridor
<1>2. CorridorDebt = Owed(rations) /\ CorridorDebt' = Owed(rations')
  BY DEF CorridorDebt, Owed, MapThenSumSet, MapThenFoldSet
<1>3. Max(Displacements) \in Nat /\ CorridorCap \in Nat
  BY LargestDisplacement, CorridorAssumption
<1>4. ASSUME NEW r \in Requests, NEW c \in BOOLEAN, NEW added \in Displacements,
             NEW outcome \in Intervening, Intervene(r, c, added, outcome)
      PROVE  CorridorDebtBounded'
  <2>1. added \in Nat /\ added <= Max(Displacements)
    BY LargestDisplacement, CorridorAssumption
  <2>2. /\ Owed(rations) \in Int /\ Owed(rations') \in Int
        /\ Owed(rations') <= Owed(rations) + added
    BY <1>1, <1>4, <2>1, InterventionOwes, OwedGrowsBy DEF RationsType
  <2>3. ~CorridorExhausted
    BY <1>4 DEF Intervene, Approved, Allowed
  <2>. QED
    BY <1>2, <1>3, <2>1, <2>2, <2>3 DEF CorridorExhausted, CorridorDebtBounded
<1>5. CASE ~\E r \in Requests, c \in BOOLEAN, added \in Displacements,
               outcome \in Intervening : Intervene(r, c, added, outcome)
  <2>1. \A t \in Signals : rations'[t].debt <= rations[t].debt
    BY <1>5, OnlyInterventionsOwe
  <2>2. \A t \in Signals : rations[t].debt \in Nat
    BY DEF RationsType, Ration
  <2>3. \A t \in Signals :
            rations'[t].debt <= rations[t].debt + (IF t = NoSignal THEN 0 ELSE 0)
    BY <2>1, <2>2
  <2>4. /\ Owed(rations) \in Int /\ Owed(rations') \in Int
        /\ Owed(rations') <= Owed(rations) + 0
    BY <1>1, <2>3, OwedGrowsBy DEF RationsType
  <2>. QED
    BY <1>1, <1>2, <1>3, <2>4 DEF CorridorDebtBounded
<1>. QED
  BY <1>1, <1>4, <1>5

\* The signals of a corridor never owe more between them than the cap and what
\* one intervention displaces, whichever of them intervene in one pass, with a
\* first instalment or a later one, whether or not their commands arrive
\* (arbitrate, mark_applied).
THEOREM CorridorOwesNoMore == Spec => []CorridorDebtBounded
<1>1. Spec => [](RationsType /\ CorridorDebtBounded)
  BY DebtInit, DebtStep, PTL DEF Spec
<1>. QED
  BY <1>1, PTL
=============================================================================
