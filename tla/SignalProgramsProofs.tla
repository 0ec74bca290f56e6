------------------------- MODULE SignalProgramsProofs -------------------------
(***************************************************************************)
(* What the overrides of a scenario make of a compiled program, however    *)
(* often they are applied; and what the verification of a controller       *)
(* contract guarantees, for every network and every program that SUMO may  *)
(* run, and what it takes for granted of those programs.                   *)
(***************************************************************************)
EXTENDS SignalPrograms, DataInduction

\* The phase after phase i.
After(program, i) == (i % Len(program)) + 1

YellowLinks(state) == {l \in Links : state[l] = "y"}

\* What the verification does not look at: yellow follows green, and lasts one
\* phase; a phase that is green for some and yellow for others gives no link a
\* new green in the next; and a link whose green is interrupted for one phase
\* conflicts with none that loses its green there.
WellPhased(program) ==
    /\ program \in Seq(Phase)
    /\ \A i \in PhaseIndices(program) :
           LET next   == After(program, i)
               second == After(program, next)
               now    == Greens(program[i].state)
           IN /\ YellowLinks(program[next].state) \subseteq now
              /\ now # {} /\ YellowLinks(program[i].state) # {}
                     => Greens(program[next].state) \subseteq now
              /\ Greens(program[next].state) = {} =>
                     \A l \in now \cap Greens(program[second].state) :
                         LinkConflicts(l) \cap now \subseteq Greens(program[second].state)

\* The programs that run are such.
ProgramsWellPhased == running # None => WellPhased(running.phases)

-----------------------------------------------------------------------------
(* The contract of a session.                                               *)

Fields == {"sequence", "service", "intergreen", "cycle", "pedestrian",
           "pedestrianRequired", "groups", "bound"}

\* A contract has its fields, and its groups have a phase.
IsContract(c) ==
    /\ DOMAIN c = Fields
    /\ DOMAIN c.groups = Groups
    /\ \A g \in Groups : "phase" \in DOMAIN c.groups[g]

\* During a session there is a contract, and SUMO is in a phase of the program.
InSession ==
    running # None =>
        /\ IsContract(contract)
        /\ (running.phases \in Seq(Phase) /\ running.phases # Unreadable
                => at \in PhaseIndices(running.phases))

LEMMA BuiltContract ==
    ASSUME NEW program
    PROVE  IsContract(BuildContract(program))
BY DEF BuildContract, IsContract, Fields, GroupContract

LEMMA BoundContract ==
    ASSUME NEW c, IsContract(c)
    PROVE  IsContract(ApplyBinding(c))
<1>1. \A g \in Groups : "phase" \in DOMAIN BindGroup(c.groups[g], g)
  BY DEF BindGroup, IsContract
<1>. QED
  BY <1>1 DEF ApplyBinding, IsContract, Fields

LEMMA ReconciledContract ==
    ASSUME NEW c, IsContract(c), NEW r
    PROVE  IsContract(Reconcile(c, r))
<1>1. \A g \in Groups : "phase" \in DOMAIN RemapGroup(r.phases, g, c.groups[g])
  BY DEF RemapGroup, IsContract
<1>. QED
  BY <1>1 DEF Reconcile, IsContract, Fields

LEMMA SessionInit == Init => InSession
BY DEF Init, NoSession, InSession

LEMMA FirstPhase ==
    ASSUME NEW phases \in Seq(Phase), phases # Unreadable
    PROVE  Len(phases) \in Nat \ {0} /\ 1 \in PhaseIndices(phases)
BY DEF Unreadable, PhaseIndices

LEMMA PhaseAfter ==
    ASSUME NEW n \in Nat \ {0}, NEW i \in 1 .. n
    PROVE  (i % n) + 1 = IF i = n THEN 1 ELSE i + 1
<1>1. n % n = 0
  OBVIOUS
<1>2. ASSUME i < n PROVE i % n = i
  BY <1>2
<1>. QED
  BY <1>1, <1>2

LEMMA SessionStep == InSession /\ [Next]_vars => InSession'
<1>. SUFFICES ASSUME InSession, [Next]_vars PROVE InSession'
  OBVIOUS
<1>1. CASE StartSession
  <2>1. IsContract(contract')
    BY <1>1, BuiltContract, BoundContract, ReconciledContract DEF StartSession
  <2>2. at' = 1
    BY <1>1 DEF StartSession
  <2>. QED
    BY <2>1, <2>2, FirstPhase DEF InSession
<1>2. CASE ProgramAdvances
  <2>1. /\ running' = running /\ contract' = contract /\ running # None
        /\ at' = (at % Len(running.phases)) + 1 /\ running.phases # Unreadable
    BY <1>2 DEF ProgramAdvances
  <2>2. ASSUME running.phases \in Seq(Phase)
        PROVE  at' \in PhaseIndices(running.phases)
    <3>. DEFINE n == Len(running.phases)
    <3>1. n \in Nat \ {0} /\ at \in 1 .. n
      BY <2>1, <2>2, FirstPhase DEF InSession, PhaseIndices
    <3>. HIDE DEF n
    <3>2. (at % n) + 1 \in 1 .. n
      BY <3>1, PhaseAfter
    <3>. QED
      BY <2>1, <3>2 DEF PhaseIndices, n
  <2>. QED
    BY <2>1, <2>2 DEF InSession
<1>3. CASE SwitchProgram
  <2>1. running # None /\ contract' = contract /\ at' = 1
    BY <1>3 DEF SwitchProgram
  <2>. QED
    BY <2>1, FirstPhase DEF InSession
<1>4. CASE UNCHANGED session
  BY <1>4 DEF session, InSession
<1>5. CASE EndSession
  BY <1>5 DEF EndSession, InSession
<1>. QED
  BY <1>1, <1>2, <1>3, <1>4, <1>5 DEF Next, Rebuild, ApplyOffsets, vars

-----------------------------------------------------------------------------
(* What a verified contract says of the program.                            *)

\* The contract that was last reconciled with the program describes it.
LEMMA CurrentContract ==
    ASSUME IsContract(contract), IsCurrent
    PROVE  /\ contract.sequence = [i \in PhaseIndices(running.phases) |-> i]
           /\ contract.service = ServicePhases(running.phases)
           /\ \A g \in Groups :
                  contract.groups[g].phase =
                      RuntimePhase(running.phases, g, contract.groups[g])
<1>. DEFINE program == running.phases
            sequence == [i \in PhaseIndices(program) |-> i]
            service == ServicePhases(program)
            groups == [g \in Groups |-> RemapGroup(program, g, contract.groups[g])]
<1>1. contract = [contract EXCEPT
                     !.sequence = sequence, !.service = service,
                     !.intergreen = IntergreenPhases(program),
                     !.cycle = CycleOf(program), !.groups = groups]
  BY DEF IsCurrent, Reconcile
<1>. HIDE DEF sequence, service, groups
<1>2. contract.sequence = sequence /\ contract.service = service /\ contract.groups = groups
  BY <1>1 DEF IsContract, Fields
<1>3. ASSUME NEW g \in Groups
      PROVE  contract.groups[g].phase = RuntimePhase(program, g, contract.groups[g])
  <2>1. contract.groups[g] = RemapGroup(program, g, contract.groups[g])
    BY <1>2 DEF groups
  <2>. QED
    BY <2>1 DEF RemapGroup, IsContract
<1>. QED
  BY <1>2, <1>3 DEF sequence, service

\* A program without a problem lacks no all-red.
LEMMA NoAllRedIsMissing ==
    ASSUME IsCurrent, EarlyGreenActuable(problems), MinAllRed > 0
    PROVE  MissingAllRed(contract, running.phases) = {}
<1>1. VerifyContract(contract, running) = {}
  BY DEF IsCurrent, EarlyGreenActuable
<1>2. StructureProblems(contract, running.phases) = {}
  BY <1>1 DEF VerifyContract, IsCurrent
<1>3. If(MinAllRed > 0 /\ MissingAllRed(contract, running.phases) # {}, "no all-red") = {}
  BY <1>2 DEF StructureProblems
<1>. QED
  BY <1>3 DEF If

-----------------------------------------------------------------------------
(* The way from one green to the next.                                      *)

\* The contract of a program, as far as the search for the next green goes.
Describes(c, program) ==
    /\ c.sequence = [i \in PhaseIndices(program) |-> i]
    /\ c.service = ServicePhases(program)

LEMMA Positions ==
    ASSUME NEW program \in Seq(Phase), NEW c, Describes(c, program),
           NEW p \in PhaseIndices(program)
    PROVE  /\ Len(c.sequence) = Len(program) /\ Len(program) \in Nat \ {0}
           /\ \A i \in PhaseIndices(program) : c.sequence[i] = i
           /\ After(program, p) \in PhaseIndices(program)
<1>1. Len(program) \in Nat /\ p \in 1 .. Len(program)
  BY DEF PhaseIndices
<1>. DEFINE n == Len(program)
<1>2. c.sequence = [i \in 1 .. n |-> i]
  BY DEF Describes, PhaseIndices
<1>. HIDE DEF n
<1>3. n \in Nat \ {0} /\ p \in 1 .. n
  BY <1>1 DEF n
<1>4. c.sequence \in Seq(Nat) /\ Len(c.sequence) = n
  BY <1>2, <1>3
<1>5. (p % n) + 1 \in 1 .. n
  BY <1>3, PhaseAfter
<1>. QED
  BY <1>2, <1>3, <1>4, <1>5 DEF n, After, PhaseIndices

LEMMA PhaseBefore ==
    ASSUME NEW program \in Seq(Phase), NEW i \in PhaseIndices(program)
    PROVE  \E p \in PhaseIndices(program) : After(program, p) = i
<1>. DEFINE n == Len(program)
<1>1. n \in Nat \ {0} /\ i \in 1 .. n
  BY DEF PhaseIndices
<1>. DEFINE p == IF i = 1 THEN n ELSE i - 1
<1>. HIDE DEF n
<1>2. p \in 1 .. n /\ (p = n => i = 1) /\ (p # n => p + 1 = i)
  BY <1>1
<1>3. (p % n) + 1 = i
  <2>. HIDE DEF p
  <2>. QED
    BY <1>1, <1>2, PhaseAfter
<1>. QED
  BY <1>2, <1>3 DEF After, PhaseIndices, n

\* The next phase serves someone.
LEMMA NextServiceAtOnce ==
    ASSUME NEW program \in Seq(Phase), NEW c, Describes(c, program),
           NEW p \in PhaseIndices(program), After(program, p) \in ServicePhases(program)
    PROVE  NextService(c, p) = [to |-> After(program, p), between |-> {}]
<1>. DEFINE n == Len(c.sequence)
            At(k) == c.sequence[((p + k - 1) % n) + 1]
            Reaches(k) == /\ At(k) \in c.service
                          /\ \A j \in 1 .. (k - 1) : At(j) \notin c.service
            reach == CHOOSE k \in 1 .. n : Reaches(k)
<1>1. n = Len(program) /\ n \in Nat \ {0} /\ p \in 1 .. n
  BY Positions DEF PhaseIndices
<1>2. At(1) = After(program, p)
  <2>1. p + 1 - 1 = p
    BY <1>1
  <2>2. (p % n) + 1 \in PhaseIndices(program)
    BY <1>1, Positions DEF After
  <2>. QED
    BY <1>1, <2>1, <2>2, Positions DEF After
<1>3. Reaches(1)
  BY <1>2 DEF Describes
<1>. HIDE DEF At, n
<1>4. \A k \in 1 .. n : Reaches(k) => k = 1
  <2>. SUFFICES ASSUME NEW k \in 1 .. n, Reaches(k), k # 1 PROVE FALSE
    OBVIOUS
  <2>1. 1 \in 1 .. (k - 1)
    BY <1>1
  <2>. QED
    BY <2>1, <1>3
<1>5. 1 \in 1 .. n
  BY <1>1
<1>. HIDE DEF Reaches
<1>6. reach = 1
  BY <1>3, <1>4, <1>5
<1>7. NextService(c, p) = [to |-> At(reach), between |-> {At(j) : j \in 1 .. (reach - 1)}]
  BY DEF NextService, At, n, Reaches
<1>8. {At(j) : j \in 1 .. (1 - 1)} = {}
  OBVIOUS
<1>. QED
  BY <1>2, <1>6, <1>7, <1>8

\* One phase lies in between.
LEMMA NextServiceInTwo ==
    ASSUME NEW program \in Seq(Phase), NEW c, Describes(c, program),
           NEW p \in PhaseIndices(program),
           After(program, p) \notin ServicePhases(program),
           After(program, After(program, p)) \in ServicePhases(program)
    PROVE  NextService(c, p) = [to |-> After(program, After(program, p)),
                                between |-> {After(program, p)}]
<1>. DEFINE n == Len(c.sequence)
            At(k) == c.sequence[((p + k - 1) % n) + 1]
            Reaches(k) == /\ At(k) \in c.service
                          /\ \A j \in 1 .. (k - 1) : At(j) \notin c.service
            reach == CHOOSE k \in 1 .. n : Reaches(k)
            one == After(program, p)
            two == After(program, one)
<1>1. n = Len(program) /\ n \in Nat \ {0} /\ p \in 1 .. n
  BY Positions DEF PhaseIndices
<1>2. one \in PhaseIndices(program) /\ two \in PhaseIndices(program) /\ one # two
  <2>1. one \in PhaseIndices(program)
    BY Positions
  <2>. QED
    BY <2>1, Positions
<1>3. one = (p % n) + 1 /\ two = (one % n) + 1
  BY <1>1 DEF After
<1>. HIDE DEF n, one, two
<1>4. n > 1
  BY <1>1, <1>2 DEF PhaseIndices
<1>5. ((p + 1) % n) + 1 = two
  <2>1. CASE p = n
    <3>1. (n + 1) % n = 1 /\ 1 % n = 1 /\ n % n = 0
      BY <1>1, <1>4
    <3>. QED
      BY <2>1, <3>1, <1>3
  <2>2. CASE p < n
    <3>1. p % n = p
      BY <1>1, <2>2
    <3>. QED
      BY <3>1, <1>3
  <2>. QED
    BY <1>1, <2>1, <2>2
<1>6. At(1) = one /\ At(2) = two
  <2>1. p + 1 - 1 = p /\ p + 2 - 1 = p + 1
    BY <1>1
  <2>. QED
    BY <1>2, <1>3, <1>5, <2>1, Positions
<1>7. Reaches(2) /\ ~Reaches(1)
  <2>1. \A j \in 1 .. (2 - 1) : j = 1
    OBVIOUS
  <2>2. one \notin c.service /\ two \in c.service
    BY DEF Describes, one, two
  <2>. QED
    BY <1>6, <2>1, <2>2
<1>. HIDE DEF At
<1>8. \A k \in 1 .. n : Reaches(k) => k = 2
  <2>. SUFFICES ASSUME NEW k \in 1 .. n, Reaches(k), k # 2 PROVE FALSE
    OBVIOUS
  <2>1. k # 1
    BY <1>7
  <2>2. 2 \in 1 .. (k - 1)
    BY <1>1, <2>1
  <2>. QED
    BY <2>2, <1>7
<1>9. 2 \in 1 .. n
  BY <1>1, <1>4
<1>10. NextService(c, p) = [to |-> At(reach), between |-> {At(j) : j \in 1 .. (reach - 1)}]
  BY DEF NextService, At, n, Reaches
<1>. HIDE DEF Reaches
<1>11. reach = 2
  BY <1>7, <1>8, <1>9
<1>12. {At(j) : j \in 1 .. (2 - 1)} = {one}
  BY <1>6
<1>. QED
  BY <1>6, <1>10, <1>11, <1>12 DEF one, two

\* Where the next green follows without an all-red, the verification has looked
\* at the links that lose their green and those that get it.
LEMMA NoConflictAcross ==
    ASSUME NEW program \in Seq(Phase), NEW c, Describes(c, program),
           MissingAllRed(c, program) = {},
           NEW p \in ServicePhases(program), NEW q \in ServicePhases(program), p # q,
           NextService(c, p).to = q,
           \A i \in NextService(c, p).between \cap PhaseIndices(program) :
               ~IsAllRed(program[i].state),
           NEW l \in Greens(program[q].state) \ Greens(program[p].state),
           NEW k \in Greens(program[p].state) \ Greens(program[q].state)
    PROVE  k \notin LinkConflicts(l)
<1>1. /\ p \in PhaseIndices(program) /\ q \in PhaseIndices(program)
      /\ DOMAIN c.sequence = PhaseIndices(program)
      /\ \A i \in PhaseIndices(program) : c.sequence[i] = i
      /\ c.service = ServicePhases(program)
  BY DEF ServicePhases, GreenPhases, Describes
<1>. DEFINE positions == {i \in DOMAIN c.sequence : c.sequence[i] \in c.service}
<1>2. Cardinality(positions) > 1
  <2>1. IsFiniteSet(1 .. Len(program))
    <3>1. 1 \in Int /\ Len(program) \in Int
      OBVIOUS
    <3>. QED
      BY <3>1, FS_Interval
  <2>2. positions \subseteq 1 .. Len(program) /\ {p, q} \subseteq positions
    BY <1>1 DEF PhaseIndices
  <2>3. IsFiniteSet(positions) /\ Cardinality(positions) \in Nat
    BY <2>1, <2>2, FS_Subset, FS_CardinalityType
  <2>4. Cardinality({p, q}) <= Cardinality(positions)
    BY <2>2, <2>3, FS_Subset
  <2>5. Cardinality({p} \cup {q}) = Cardinality({p}) + 1 /\ Cardinality({p}) = 1
    BY FS_Singleton, FS_AddElement
  <2>6. {p} \cup {q} = {p, q}
    OBVIOUS
  <2>7. Cardinality({p, q}) = Cardinality({p}) + 1 /\ Cardinality({p}) = 1
    BY <2>5, <2>6, Zenon
  <2>. HIDE DEF positions
  <2>. QED
    BY <2>3, <2>4, <2>7
<1>3. ~TransitionNeedsAllRed(c, program[p].state, program[q].state)
  <2>1. p \notin MissingAllRed(c, program)
    OBVIOUS
  <2>2. ~\E i \in NextService(c, p).between \cap PhaseIndices(program) :
            IsAllRed(program[i].state) /\ program[i].duration >= MinAllRed
    OBVIOUS
  <2>. QED
    BY <1>1, <1>2, <2>1, <2>2 DEF MissingAllRed
<1>. QED
  BY <1>3 DEF TransitionNeedsAllRed

LEMMA ColoursOfALink ==
    ASSUME NEW program \in Seq(Phase), NEW i \in PhaseIndices(program), NEW l \in Links
    PROVE  /\ l \in Greens(program[i].state)
                \/ l \in YellowLinks(program[i].state) \/ program[i].state[l] = "r"
           /\ l \in Greens(program[i].state) \union YellowLinks(program[i].state)
                => program[i].state[l] # "r"
<1>1. program[i] \in Phase
  BY DEF PhaseIndices
<1>2. program[i].state[l] \in {"G", "g", "y", "r"}
  BY <1>1 DEF Phase
<1>. QED
  BY <1>2 DEF Greens, YellowLinks

LEMMA ServicePhase ==
    ASSUME NEW program, NEW i \in PhaseIndices(program), Greens(program[i].state) # {}
    PROVE  i \in ServicePhases(program)
BY DEF ServicePhases, GreenPhases, Greens

\* On the way from a phase to the next a link turns green only when those it
\* conflicts with are red, or are green beside it.
LEMMA VerifiedTransition ==
    ASSUME NEW program, WellPhased(program), NEW c, Describes(c, program),
           MissingAllRed(c, program) = {},
           NEW i \in PhaseIndices(program),
           NEW l \in Greens(program[After(program, i)].state) \ Greens(program[i].state),
           NEW k \in LinkConflicts(l)
    PROVE  program[i].state[k] = "r" \/ k \in Greens(program[After(program, i)].state)
<1>. DEFINE j == After(program, i)
<1>1. program \in Seq(Phase) /\ j \in PhaseIndices(program) /\ j \in ServicePhases(program)
  BY Positions, ServicePhase DEF WellPhased
<1>2. k \in Links /\ l \in Links
  BY DEF LinkConflicts, KnownLinks, Greens
<1>3. SUFFICES ASSUME program[i].state[k] # "r", k \notin Greens(program[j].state)
               PROVE  FALSE
  OBVIOUS
<1>4. i # j
  OBVIOUS
<1>5. CASE i \in ServicePhases(program)
  <2>1. Greens(program[i].state) # {}
    BY <1>5 DEF ServicePhases, GreenPhases
  <2>2. k \notin YellowLinks(program[i].state)
    BY <2>1, <1>1 DEF WellPhased
  <2>3. k \in Greens(program[i].state)
    BY <1>1, <1>2, <1>3, <2>2, ColoursOfALink
  <2>4. NextService(c, i) = [to |-> j, between |-> {}]
    BY <1>1, NextServiceAtOnce
  <2>. QED
    BY <1>1, <1>3, <1>4, <1>5, <2>3, <2>4, NoConflictAcross, SMTT(30)
<1>6. CASE i \notin ServicePhases(program)
  <2>1. Greens(program[i].state) = {}
    BY <1>6, ServicePhase
  <2>2. k \in YellowLinks(program[i].state)
    BY <1>1, <1>2, <1>3, <2>1, ColoursOfALink
  <2>3. PICK p \in PhaseIndices(program) : After(program, p) = i
    BY <1>1, PhaseBefore
  <2>4. k \in Greens(program[p].state) /\ p \in ServicePhases(program)
    BY <2>2, <2>3, ServicePhase DEF WellPhased
  <2>5. p # j
    BY <2>4, <1>3
  <2>6. NextService(c, p) = [to |-> j, between |-> {i}]
    BY <1>1, <1>6, <2>3, NextServiceInTwo
  <2>7. ~IsAllRed(program[i].state)
    BY <1>2, <1>3 DEF IsAllRed
  <2>8. l \notin Greens(program[p].state)
    <3>1. l \in Greens(program[p].state) =>
              LinkConflicts(l) \cap Greens(program[p].state) \subseteq Greens(program[j].state)
      BY <2>1, <2>3 DEF WellPhased
    <3>. QED
      BY <3>1, <2>4, <1>3
  <2>9. /\ NextService(c, p).to = j
        /\ \A m \in NextService(c, p).between \cap PhaseIndices(program) :
               ~IsAllRed(program[m].state)
    BY <2>6, <2>7
  <2>10. /\ l \in Greens(program[j].state) \ Greens(program[p].state)
         /\ k \in Greens(program[p].state) \ Greens(program[j].state)
    BY <1>3, <2>4, <2>8
  <2>. HIDE DEF j
  <2>. QED
    BY <1>1, <2>4, <2>5, <2>9, <2>10, NoConflictAcross
<1>. QED
  BY <1>5, <1>6

-----------------------------------------------------------------------------
(* The phase that serves a group.                                           *)

LEMMA OutscoresInOrder ==
    ASSUME NEW s, NEW t, DOMAIN s = 1 .. 4,
           \/ s[1] > t[1]
           \/ s[1] = t[1] /\ s[2] > t[2]
           \/ s[1] = t[1] /\ s[2] = t[2] /\ s[3] > t[3]
           \/ s[1] = t[1] /\ s[2] = t[2] /\ s[3] = t[3] /\ s[4] > t[4]
    PROVE  Outscores(s, t)
<1>. DEFINE Decides(n) == s[n] > t[n] /\ \A k \in 1 .. (n - 1) : s[k] = t[k]
<1>1. Decides(1) \/ Decides(2) \/ Decides(3) \/ Decides(4)
  <2>1. CASE s[1] > t[1]
    BY <2>1
  <2>2. CASE s[1] = t[1] /\ s[2] > t[2]
    <3>1. \A k \in 1 .. (2 - 1) : k = 1
      OBVIOUS
    <3>. QED
      BY <2>2, <3>1
  <2>3. CASE s[1] = t[1] /\ s[2] = t[2] /\ s[3] > t[3]
    <3>1. \A k \in 1 .. (3 - 1) : k = 1 \/ k = 2
      OBVIOUS
    <3>. QED
      BY <2>3, <3>1
  <2>4. CASE s[1] = t[1] /\ s[2] = t[2] /\ s[3] = t[3] /\ s[4] > t[4]
    <3>1. \A k \in 1 .. (4 - 1) : k = 1 \/ k = 2 \/ k = 3
      OBVIOUS
    <3>. QED
      BY <2>4, <3>1
  <2>. QED
    BY <2>1, <2>2, <2>3, <2>4
<1>2. 1 \in 1 .. 4 /\ 2 \in 1 .. 4 /\ 3 \in 1 .. 4 /\ 4 \in 1 .. 4
  OBVIOUS
<1>3. \E n \in DOMAIN s : Decides(n)
  <2>. HIDE DEF Decides
  <2>. QED
    BY <1>1, <1>2
<1>. QED
  BY <1>3 DEF Outscores

\* No two phases score the same, so that one of them is the best.
LEMMA BestPhaseIsACandidate ==
    ASSUME NEW program \in Seq(Phase), NEW links,
           NEW candidates \in SUBSET PhaseIndices(program), candidates # {}
    PROVE  BestPhase(program, links, candidates) \in candidates
<1>. DEFINE s(i) == Cardinality(Protected(program[i].state) \cap links)
            g(i) == Cardinality(Greens(program[i].state) \cap links)
            d(i) == program[i].duration
            n(i) == -i
<1>1. \A i \in candidates : n(i) \in Int /\ s(i) \in Int /\ g(i) \in Int /\ d(i) \in Int
  <2>. SUFFICES ASSUME NEW i \in candidates
                PROVE  n(i) \in Int /\ s(i) \in Int /\ g(i) \in Int /\ d(i) \in Int
    OBVIOUS
  <2>1. program[i] \in Phase /\ i \in Int
    BY DEF PhaseIndices
  <2>2. /\ Protected(program[i].state) \cap links \in SUBSET Links
        /\ Greens(program[i].state) \cap links \in SUBSET Links
    BY DEF Protected, Greens
  <2>3. s(i) \in Nat /\ g(i) \in Nat
    <3>1. \A set \in SUBSET Links : Cardinality(set) \in Nat
      BY NetworkAssumption, FS_Subset, FS_CardinalityType
    <3>. QED
      BY <2>2, <3>1
  <2>. QED
    BY <2>1, <2>3 DEF Phase
<1>2. \A i \in candidates : Score(program, links, i) = <<s(i), g(i), d(i), n(i)>>
  BY DEF Score
<1>3. \A i, j \in candidates : n(i) = n(j) => i = j
  BY DEF PhaseIndices
<1>. HIDE DEF s, g, d, n
<1>10. IsFiniteSet(candidates)
  <2>1. 1 \in Int /\ Len(program) \in Int
    OBVIOUS
  <2>2. IsFiniteSet(1 .. Len(program))
    BY <2>1, FS_Interval
  <2>. QED
    BY <2>2, FS_Subset DEF PhaseIndices
<1>4. PICK a \in candidates : \A i \in candidates : s(i) <= s(a)
  <2>. DEFINE f == [i \in candidates |-> s(i)]
  <2>1. \A i \in candidates : f[i] = s(i) /\ f[i] \in Int
    BY <1>1
  <2>. HIDE DEF f
  <2>2. \E a \in candidates : \A i \in candidates : f[i] <= f[a]
    BY <1>10, <2>1, HighestExists
  <2>. QED
    BY <2>1, <2>2
<1>. DEFINE second == {i \in candidates : s(i) = s(a)}
<1>5. PICK b \in second : \A i \in second : g(i) <= g(b)
  <2>. DEFINE f == [i \in second |-> g(i)]
  <2>1. \A i \in second : f[i] = g(i) /\ f[i] \in Int
    BY <1>1
  <2>2. IsFiniteSet(second) /\ second # {}
    BY <1>10, <1>4, FS_Subset
  <2>. HIDE DEF f, second
  <2>3. \E b \in second : \A i \in second : f[i] <= f[b]
    BY <2>1, <2>2, HighestExists
  <2>. QED
    BY <2>1, <2>3
<1>. DEFINE third == {i \in second : g(i) = g(b)}
<1>6. PICK c \in third : \A i \in third : d(i) <= d(c)
  <2>. DEFINE f == [i \in third |-> d(i)]
  <2>1. \A i \in third : f[i] = d(i) /\ f[i] \in Int
    BY <1>1
  <2>2. IsFiniteSet(third) /\ third # {}
    BY <1>10, <1>5, FS_Subset
  <2>. HIDE DEF f, third
  <2>3. \E c \in third : \A i \in third : f[i] <= f[c]
    BY <2>1, <2>2, HighestExists
  <2>. QED
    BY <2>1, <2>3
<1>. DEFINE fourth == {i \in third : d(i) = d(c)}
<1>7. PICK e \in fourth : \A i \in fourth : n(i) <= n(e)
  <2>. DEFINE f == [i \in fourth |-> n(i)]
  <2>1. \A i \in fourth : f[i] = n(i) /\ f[i] \in Int
    BY <1>1
  <2>2. IsFiniteSet(fourth) /\ fourth # {}
    BY <1>10, <1>6, FS_Subset
  <2>. HIDE DEF f, fourth
  <2>3. \E e \in fourth : \A i \in fourth : f[i] <= f[e]
    BY <2>1, <2>2, HighestExists
  <2>. QED
    BY <2>1, <2>3
<1>8. ASSUME NEW j \in candidates \ {e}
      PROVE  Outscores(Score(program, links, e), Score(program, links, j))
  <2>1. /\ s(e) \in Int /\ g(e) \in Int /\ d(e) \in Int /\ n(e) \in Int
        /\ s(j) \in Int /\ g(j) \in Int /\ d(j) \in Int /\ n(j) \in Int
        /\ e \in candidates
    BY <1>1
  <2>2. \/ s(e) > s(j)
        \/ s(e) = s(j) /\ g(e) > g(j)
        \/ s(e) = s(j) /\ g(e) = g(j) /\ d(e) > d(j)
        \/ s(e) = s(j) /\ g(e) = g(j) /\ d(e) = d(j) /\ n(e) > n(j)
    <3>1. s(e) = s(a) /\ g(e) = g(b) /\ d(e) = d(c)
      OBVIOUS
    <3>2. s(j) <= s(e)
      BY <1>4, <3>1
    <3>3. s(j) = s(e) => g(j) <= g(e)
      BY <1>5, <3>1
    <3>4. s(j) = s(e) /\ g(j) = g(e) => d(j) <= d(e)
      BY <1>6, <3>1
    <3>5. s(j) = s(e) /\ g(j) = g(e) /\ d(j) = d(e) => n(j) <= n(e)
      BY <1>7, <3>1
    <3>6. n(j) # n(e)
      BY <1>3
    <3>. HIDE DEF second, third, fourth
    <3>. QED
      BY <2>1, <3>2, <3>3, <3>4, <3>5, <3>6
  <2>. DEFINE best == Score(program, links, e)
              other == Score(program, links, j)
  <2>3. /\ best = <<s(e), g(e), d(e), n(e)>>
        /\ other = <<s(j), g(j), d(j), n(j)>>
    BY <1>2, <2>1
  <2>. HIDE DEF best, other
  <2>4. /\ DOMAIN best = 1 .. 4
        /\ best[1] = s(e) /\ best[2] = g(e) /\ best[3] = d(e) /\ best[4] = n(e)
        /\ other[1] = s(j) /\ other[2] = g(j) /\ other[3] = d(j) /\ other[4] = n(j)
    BY <2>3
  <2>5. Outscores(best, other)
    BY <2>2, <2>4, OutscoresInOrder
  <2>. QED
    BY <2>5 DEF best, other
<1>9. e \in candidates
  OBVIOUS
<1>. QED
  BY <1>8, <1>9 DEF BestPhase

-----------------------------------------------------------------------------
(* What the overrides leave of a program.                                    *)

Parts(phases, dropped) ==
    [i \in DOMAIN phases |-> IF i \in dropped THEN <<>> ELSE <<phases[i]>>]

LEMMA PartsOfProgram ==
    ASSUME NEW T, NEW phases \in Seq(T), NEW dropped
    PROVE  /\ Parts(phases, dropped) \in Seq(Seq(T))
           /\ Len(Parts(phases, dropped)) = Len(phases)
           /\ Without(phases, dropped) = FlattenSeq(Parts(phases, dropped))
           /\ Without(phases, dropped) \in Seq(T)
<1>. DEFINE parts == Parts(phases, dropped)
<1>1. DOMAIN phases = 1 .. Len(phases) /\ Len(phases) \in Nat
  OBVIOUS
<1>2. ASSUME NEW i \in 1 .. Len(phases) PROVE parts[i] \in Seq(T)
  <2>1. parts[i] = IF i \in dropped THEN <<>> ELSE <<phases[i]>>
    BY <1>1 DEF Parts
  <2>. HIDE DEF parts
  <2>2. phases[i] \in T
    OBVIOUS
  <2>. QED
    BY <2>1, <2>2
<1>3. parts \in [1 .. Len(phases) -> Seq(T)]
  <2>1. DOMAIN parts = 1 .. Len(phases) /\ parts = [i \in DOMAIN parts |-> parts[i]]
    BY <1>1 DEF Parts
  <2>. HIDE DEF parts
  <2>. QED
    BY <1>2, <2>1
<1>. HIDE DEF parts
<1>4. parts \in Seq(Seq(T)) /\ Len(parts) = Len(phases)
  BY <1>1, <1>3
<1>5. Without(phases, dropped) = FlattenSeq(parts)
  BY DEF Without, Parts, parts
<1>6. FlattenSeq(parts) \in Seq(T)
  BY <1>4, FlattenedIsSequence
<1>. QED
  BY <1>4, <1>5, <1>6 DEF parts

\* Each phase is kept that is not dropped.
LEMMA KeptPhases ==
    ASSUME NEW T, NEW phases \in Seq(T), NEW dropped,
           NEW i \in DOMAIN phases, i \notin dropped
    PROVE  \E k \in DOMAIN Without(phases, dropped) :
               Without(phases, dropped)[k] = phases[i]
<1>. DEFINE parts == Parts(phases, dropped)
<1>1. parts \in Seq(Seq(T)) /\ Without(phases, dropped) = FlattenSeq(parts)
  BY PartsOfProgram
<1>2. i \in DOMAIN parts /\ parts[i] = <<phases[i]>>
  BY DEF Parts
<1>. HIDE DEF parts
<1>3. ToSet(parts[i]) \subseteq ToSet(FlattenSeq(parts))
  BY <1>1, <1>2, FlattenedIsSequence
<1>4. phases[i] \in ToSet(parts[i])
  <2>1. 1 \in DOMAIN <<phases[i]>> /\ <<phases[i]>>[1] = phases[i]
    OBVIOUS
  <2>. QED
    BY <1>2, <2>1, Zenon DEF ToSet
<1>. QED
  BY <1>1, <1>3, <1>4 DEF ToSet

\* And none that is.
LEMMA KeptAreNotDropped ==
    ASSUME NEW T, NEW phases \in Seq(T), NEW dropped
    PROVE  Without(phases, dropped) \in Seq({phases[i] : i \in DOMAIN phases \ dropped})
<1>. DEFINE parts == Parts(phases, dropped)
            K == {phases[i] : i \in DOMAIN phases \ dropped}
<1>1. /\ Len(parts) = Len(phases) /\ Without(phases, dropped) = FlattenSeq(parts)
      /\ parts \in Seq(Seq(T)) /\ DOMAIN phases = 1 .. Len(phases) /\ Len(phases) \in Nat
  BY PartsOfProgram
<1>2. ASSUME NEW i \in 1 .. Len(phases) PROVE parts[i] \in Seq(K)
  <2>1. parts[i] = IF i \in dropped THEN <<>> ELSE <<phases[i]>>
    BY <1>1 DEF Parts
  <2>2. i \notin dropped => phases[i] \in K
    BY <1>1
  <2>. HIDE DEF parts, K
  <2>. QED
    BY <2>1, <2>2
<1>. HIDE DEF parts, K
<1>3. parts \in Seq(Seq(K))
  <2>1. parts \in [1 .. Len(phases) -> Seq(K)]
    BY <1>1, <1>2
  <2>2. Len(phases) \in Nat
    BY <1>1
  <2>. QED
    BY <2>1, <2>2
<1>4. FlattenSeq(parts) \in Seq(K)
  BY <1>3, FlattenedIsSequence
<1>. QED
  BY <1>1, <1>4 DEF K

\* A program of which nothing is dropped stays as it is.
LEMMA WithoutNothing ==
    ASSUME NEW T, NEW phases \in Seq(T), NEW dropped, DOMAIN phases \cap dropped = {}
    PROVE  Without(phases, dropped) = phases
<1>. DEFINE parts == Parts(phases, dropped)
            n == Len(phases)
<1>1. /\ Without(phases, dropped) = FlattenSeq(parts)
      /\ parts \in Seq(Seq(T)) /\ DOMAIN phases = 1 .. n /\ n \in Nat /\ Len(parts) = n
  BY PartsOfProgram
<1>2. ASSUME NEW i \in 1 .. n PROVE parts[i] = <<phases[i]>>
  BY <1>1 DEF Parts
<1>. HIDE DEF parts
<1>3. CASE n = 0
  <2>1. parts = <<>> /\ phases = <<>>
    BY <1>1, <1>3
  <2>2. FlattenSeq(<<>>) = <<>>
    BY DEF FlattenSeq
  <2>. QED
    BY <1>1, <2>1, <2>2
<1>4. CASE n # 0
  <2>. HIDE DEF n
  <2>1. parts # <<>>
    BY <1>1, <1>4
  <2>2. PICK f : /\ \A i \in 1 .. n : f[i] = IF i = 1 THEN parts[i] ELSE f[i - 1] \o parts[i]
                 /\ FlattenSeq(parts) = f[n]
    BY <1>1, <2>1, FlattenSteps
  <2>. DEFINE Reached == {k \in Nat : 1 <= k /\ k <= n => f[k] = SubSeq(phases, 1, k)}
  <2>3. 0 \in Reached
    OBVIOUS
  <2>4. ASSUME NEW k \in Nat, k \in Reached PROVE k + 1 \in Reached
    <3>. DEFINE j == k + 1
    <3>. SUFFICES ASSUME j <= n PROVE f[j] = SubSeq(phases, 1, j)
      OBVIOUS
    <3>1. j \in 1 .. n /\ j - 1 = k
      BY <1>1
    <3>2. parts[j] = <<phases[j]>> /\ phases[j] \in T
      BY <1>1, <1>2, <3>1
    <3>3. SubSeq(phases, 1, j) = SubSeq(phases, 1, k) \o <<phases[j]>>
      <4>1. 1 \in 1 .. Len(phases) /\ j \in 1 .. Len(phases)
        BY <1>1, <3>1 DEF n
      <4>. QED
        BY <3>1, <4>1, SubSeqRecursiveSecond
    <3>. HIDE DEF j
    <3>4. CASE k = 0
      <4>1. j = 1
        BY <3>4 DEF j
      <4>2. f[j] = <<phases[j]>>
        BY <2>2, <3>1, <3>2, <4>1
      <4>3. SubSeq(phases, 1, k) = <<>>
        BY <3>4, SubSeqEmpty
      <4>4. <<>> \o <<phases[j]>> = <<phases[j]>>
        BY <3>2
      <4>. QED
        BY <3>3, <4>2, <4>3, <4>4
    <3>5. CASE k # 0
      <4>1. 1 <= k /\ k <= n /\ j # 1
        BY <1>1, <3>1, <3>5
      <4>2. f[k] = SubSeq(phases, 1, k)
        BY <2>4, <4>1
      <4>3. f[j] = f[k] \o parts[j]
        BY <2>2, <3>1, <4>1
      <4>. QED
        BY <3>2, <3>3, <4>2, <4>3
    <3>. QED
      BY <3>4, <3>5
  <2>. HIDE DEF Reached
  <2>5. n \in Reached
    BY <1>1, <2>3, <2>4, NatSetInduction
  <2>6. 1 <= n /\ n <= n
    BY <1>1, <1>4
  <2>7. f[n] = SubSeq(phases, 1, n)
    BY <2>5, <2>6, Zenon DEF Reached
  <2>8. SubSeq(phases, 1, n) = phases
    BY SubSeqFull DEF n
  <2>. QED
    BY <1>1, <2>2, <2>7, <2>8
<1>. QED
  BY <1>3, <1>4

\* The phases outside a set.
Outside(phases, X) == Without(phases, {i \in DOMAIN phases : phases[i] \in X})

LEMMA OutsideConcat ==
    ASSUME NEW T, NEW s \in Seq(T), NEW t \in Seq(T), NEW X
    PROVE  Outside(s \o t, X) = Outside(s, X) \o Outside(t, X)
<1>. DEFINE In(phases) == {i \in DOMAIN phases : phases[i] \in X}
            both == s \o t
            m == Len(s)
            n == Len(t)
            a == Parts(s, In(s))
            b == Parts(t, In(t))
            ab == Parts(both, In(both))
<1>1. /\ both \in Seq(T) /\ Len(both) = m + n /\ m \in Nat /\ n \in Nat
      /\ \A i \in 1 .. m + n : both[i] = IF i <= m THEN s[i] ELSE t[i - m]
  BY ConcatProperties
<1>. HIDE DEF both
<1>2. /\ a \in Seq(Seq(T)) /\ Len(a) = m /\ Outside(s, X) = FlattenSeq(a)
      /\ b \in Seq(Seq(T)) /\ Len(b) = n /\ Outside(t, X) = FlattenSeq(b)
      /\ ab \in Seq(Seq(T)) /\ Len(ab) = m + n /\ Outside(both, X) = FlattenSeq(ab)
  BY <1>1, PartsOfProgram DEF Outside
<1>3. /\ a \o b \in Seq(Seq(T)) /\ Len(a \o b) = m + n
      /\ \A i \in 1 .. m + n : (a \o b)[i] = IF i <= m THEN a[i] ELSE b[i - m]
  <2>. HIDE DEF a, b, ab, m, n
  <2>. QED
    BY <1>2, ConcatProperties
<1>4. /\ \A i \in 1 .. m : a[i] = IF s[i] \in X THEN <<>> ELSE <<s[i]>>
      /\ \A i \in 1 .. n : b[i] = IF t[i] \in X THEN <<>> ELSE <<t[i]>>
      /\ \A i \in 1 .. m + n : ab[i] = IF both[i] \in X THEN <<>> ELSE <<both[i]>>
  BY <1>1 DEF Parts
<1>. HIDE DEF a, b, ab, m, n
<1>5. \A i \in 1 .. m + n : ab[i] = IF i <= m THEN a[i] ELSE b[i - m]
  <2>. SUFFICES ASSUME NEW i \in 1 .. m + n
                PROVE  ab[i] = IF i <= m THEN a[i] ELSE b[i - m]
    OBVIOUS
  <2>1. CASE i <= m
    <3>1. i \in 1 .. m
      BY <1>1, <2>1
    <3>. QED
      BY <1>1, <1>4, <2>1, <3>1
  <2>2. CASE ~(i <= m)
    <3>. DEFINE j == i - m
    <3>1. j \in 1 .. n
      BY <1>1, <2>2
    <3>. HIDE DEF j
    <3>2. both[i] = t[j]
      BY <1>1, <2>2 DEF j
    <3>3. ab[i] = b[j]
      BY <1>4, <3>1, <3>2
    <3>. QED
      BY <2>2, <3>3 DEF j
  <2>. QED
    BY <2>1, <2>2
<1>6. ab = a \o b
  <2>. DEFINE c == a \o b
  <2>1. c \in Seq(Seq(T)) /\ Len(c) = Len(ab) /\ \A i \in 1 .. Len(ab) : ab[i] = c[i]
    BY <1>2, <1>3, <1>5
  <2>. HIDE DEF c
  <2>2. ab = c
    BY <1>2, <2>1, SeqEqual
  <2>. QED
    BY <2>2 DEF c
<1>7. FlattenSeq(a \o b) = FlattenSeq(a) \o FlattenSeq(b)
  BY <1>2, FlattenConcat
<1>. QED
  BY <1>2, <1>6, <1>7 DEF both

LEMMA OutsideOne ==
    ASSUME NEW X, NEW x \in X
    PROVE  Outside(<<x>>, X) = <<>>
<1>. DEFINE one == <<x>>
            parts == [i \in DOMAIN one |->
                         IF i \in {j \in DOMAIN one : one[j] \in X} THEN <<>> ELSE <<one[i]>>]
<1>1. DOMAIN one = {1} /\ one[1] = x
  OBVIOUS
<1>. HIDE DEF one
<1>2. parts = [i \in {1} |-> <<>>]
  BY <1>1
<1>3. Len(parts) = 1 /\ parts \in Seq(Seq(X)) /\ parts # <<>>
  <2>. DEFINE nothing == <<>>
  <2>1. [i \in {1} |-> nothing] = <<nothing>> /\ nothing \in Seq(X)
    OBVIOUS
  <2>. HIDE DEF parts, nothing
  <2>2. parts = <<nothing>>
    BY <1>2, <2>1 DEF nothing
  <2>. QED
    BY <2>1, <2>2
<1>. HIDE DEF parts
<1>4. FlattenSeq(parts) = parts[1]
  <2>1. PICK f : /\ \A i \in 1 .. Len(parts) :
                        f[i] = IF i = 1 THEN parts[i] ELSE f[i - 1] \o parts[i]
                 /\ FlattenSeq(parts) = f[Len(parts)]
    BY <1>3, FlattenSteps
  <2>2. 1 \in 1 .. 1
    OBVIOUS
  <2>. QED
    BY <1>3, <2>1, <2>2
<1>5. Outside(one, X) = FlattenSeq(parts)
  BY DEF Outside, Without, parts
<1>. QED
  BY <1>2, <1>4, <1>5 DEF one

LEMMA OutsideNothing ==
    ASSUME NEW T, NEW s \in Seq(T), NEW X, \A i \in DOMAIN s : s[i] \notin X
    PROVE  Outside(s, X) = s
<1>1. DOMAIN s \cap {i \in DOMAIN s : s[i] \in X} = {}
  OBVIOUS
<1>. QED
  BY <1>1, WithoutNothing DEF Outside

\* What is inserted of the set goes again, and what is not of it stays.
LEMMA OutsideInserted ==
    ASSUME NEW T, NEW s \in Seq(T), NEW t \in Seq(T), NEW X, NEW x \in T
    PROVE  /\ x \in X => Outside(s \o <<x>> \o t, X) = Outside(s \o t, X)
           /\ x \notin X => Outside(s \o <<x>> \o t, X)
                                = Outside(s, X) \o <<x>> \o Outside(t, X)
<1>. DEFINE one == <<x>>
<1>1. one \in Seq(T) /\ s \o one \in Seq(T)
  OBVIOUS
<1>2. x \in X => Outside(one, X) = <<>>
  BY OutsideOne
<1>3. x \notin X => Outside(one, X) = one
  <2>1. \A i \in DOMAIN one : one[i] = x
    OBVIOUS
  <2>. HIDE DEF one
  <2>. QED
    BY <1>1, <2>1, OutsideNothing
<1>. HIDE DEF one
<1>4. Outside(s \o one \o t, X) = Outside(s \o one, X) \o Outside(t, X)
  <2>. DEFINE u == s \o one
  <2>1. u \in Seq(T)
    BY <1>1
  <2>. HIDE DEF u
  <2>2. Outside(u \o t, X) = Outside(u, X) \o Outside(t, X)
    BY <2>1, OutsideConcat
  <2>. QED
    BY <2>2 DEF u
<1>5. Outside(s \o one, X) = Outside(s, X) \o Outside(one, X)
  BY <1>1, OutsideConcat
<1>6. Outside(s \o t, X) = Outside(s, X) \o Outside(t, X)
  BY OutsideConcat
<1>7. Outside(s, X) \in Seq(T)
  BY PartsOfProgram DEF Outside
<1>8. Outside(s, X) \o <<>> = Outside(s, X)
  BY <1>7, ConcatEmptySeq
<1>. QED
  BY <1>2, <1>3, <1>4, <1>5, <1>6, <1>8 DEF one

-----------------------------------------------------------------------------
(* The roles of the phases.                                                  *)

LEMMA LinksOfTheRoles ==
    /\ MainLinks \subseteq VehicleLinks /\ CrossLinks \subseteq VehicleLinks
    /\ VehicleLinks \subseteq Links
BY NetworkAssumption, RolesAssumption

LEMMA RoleIs ==
    ASSUME NEW state
    PROVE  LET mainGreen   == Shows(state, MainLinks, {"G", "g"})
               mainYellow  == Shows(state, MainLinks, {"y"})
               crossGreen  == Shows(state, CrossLinks, {"G", "g"})
               crossYellow == Shows(state, CrossLinks, {"y"})
           IN /\ RoleOf(state) = "all_red" <=> IsAllRed(state)
              /\ RoleOf(state) = "main_green" <=>
                     ~IsAllRed(state) /\ mainGreen /\ ~mainYellow /\ ~crossGreen /\ ~crossYellow
              /\ RoleOf(state) = "main_yellow" <=>
                     ~IsAllRed(state) /\ ~mainGreen /\ mainYellow /\ ~crossGreen /\ ~crossYellow
              /\ RoleOf(state) = "cross_green" <=>
                     ~IsAllRed(state) /\ ~mainGreen /\ ~mainYellow /\ crossGreen /\ ~crossYellow
              /\ RoleOf(state) = "cross_yellow" <=>
                     ~IsAllRed(state) /\ ~mainGreen /\ ~mainYellow /\ ~crossGreen /\ crossYellow
              /\ RoleOf(state) = "pedestrian" <=>
                     /\ ~IsAllRed(state) /\ Greens(state) # {}
                     /\ ~mainGreen /\ ~mainYellow /\ ~crossGreen /\ ~crossYellow
              /\ RoleOf(state) \in GreenAndYellowRoles \cup {"all_red", "pedestrian", "none"}
<1>. DEFINE mg == Shows(state, MainLinks, {"G", "g"})
            my == Shows(state, MainLinks, {"y"})
            cg == Shows(state, CrossLinks, {"G", "g"})
            cy == Shows(state, CrossLinks, {"y"})
            red == IsAllRed(state)
            some == Greens(state) # {}
<1>1. /\ mg \in BOOLEAN /\ my \in BOOLEAN /\ cg \in BOOLEAN /\ cy \in BOOLEAN
      /\ red \in BOOLEAN /\ some \in BOOLEAN
  BY DEF Shows, IsAllRed
<1>2. RoleOf(state) =
          CASE red -> "all_red"
            [] <<mg, my, cg, cy>> = <<TRUE, FALSE, FALSE, FALSE>> -> "main_green"
            [] <<mg, my, cg, cy>> = <<FALSE, TRUE, FALSE, FALSE>> -> "main_yellow"
            [] <<mg, my, cg, cy>> = <<FALSE, FALSE, TRUE, FALSE>> -> "cross_green"
            [] <<mg, my, cg, cy>> = <<FALSE, FALSE, FALSE, TRUE>> -> "cross_yellow"
            [] <<mg, my, cg, cy>> = <<FALSE, FALSE, FALSE, FALSE>> /\ some -> "pedestrian"
            [] OTHER -> "none"
  BY DEF RoleOf
<1>0. red => ~mg /\ ~my /\ ~cg /\ ~cy /\ ~some
  BY LinksOfTheRoles DEF Shows, IsAllRed, Greens
<1>. HIDE DEF mg, my, cg, cy, red, some
<1>3. \A a, b, c, d, e, f, g, h : <<a, b, c, d>> = <<e, f, g, h>> <=>
                                       a = e /\ b = f /\ c = g /\ d = h
  OBVIOUS
<1>4. /\ <<mg, my, cg, cy>> = <<TRUE, FALSE, FALSE, FALSE>> <=> mg /\ ~my /\ ~cg /\ ~cy
      /\ <<mg, my, cg, cy>> = <<FALSE, TRUE, FALSE, FALSE>> <=> ~mg /\ my /\ ~cg /\ ~cy
      /\ <<mg, my, cg, cy>> = <<FALSE, FALSE, TRUE, FALSE>> <=> ~mg /\ ~my /\ cg /\ ~cy
      /\ <<mg, my, cg, cy>> = <<FALSE, FALSE, FALSE, TRUE>> <=> ~mg /\ ~my /\ ~cg /\ cy
      /\ <<mg, my, cg, cy>> = <<FALSE, FALSE, FALSE, FALSE>> <=> ~mg /\ ~my /\ ~cg /\ ~cy
  <2>1. <<mg, my, cg, cy>> = <<TRUE, FALSE, FALSE, FALSE>> <=> mg /\ ~my /\ ~cg /\ ~cy
    <3>1. <<mg, my, cg, cy>> = <<TRUE, FALSE, FALSE, FALSE>> <=>
              mg = TRUE /\ my = FALSE /\ cg = FALSE /\ cy = FALSE
      BY <1>3, Zenon
    <3>. QED
      BY <1>1, <3>1, Zenon
  <2>2. <<mg, my, cg, cy>> = <<FALSE, TRUE, FALSE, FALSE>> <=> ~mg /\ my /\ ~cg /\ ~cy
    <3>1. <<mg, my, cg, cy>> = <<FALSE, TRUE, FALSE, FALSE>> <=>
              mg = FALSE /\ my = TRUE /\ cg = FALSE /\ cy = FALSE
      BY <1>3, Zenon
    <3>. QED
      BY <1>1, <3>1, Zenon
  <2>3. <<mg, my, cg, cy>> = <<FALSE, FALSE, TRUE, FALSE>> <=> ~mg /\ ~my /\ cg /\ ~cy
    <3>1. <<mg, my, cg, cy>> = <<FALSE, FALSE, TRUE, FALSE>> <=>
              mg = FALSE /\ my = FALSE /\ cg = TRUE /\ cy = FALSE
      BY <1>3, Zenon
    <3>. QED
      BY <1>1, <3>1, Zenon
  <2>4. <<mg, my, cg, cy>> = <<FALSE, FALSE, FALSE, TRUE>> <=> ~mg /\ ~my /\ ~cg /\ cy
    <3>1. <<mg, my, cg, cy>> = <<FALSE, FALSE, FALSE, TRUE>> <=>
              mg = FALSE /\ my = FALSE /\ cg = FALSE /\ cy = TRUE
      BY <1>3, Zenon
    <3>. QED
      BY <1>1, <3>1, Zenon
  <2>5. <<mg, my, cg, cy>> = <<FALSE, FALSE, FALSE, FALSE>> <=> ~mg /\ ~my /\ ~cg /\ ~cy
    <3>1. <<mg, my, cg, cy>> = <<FALSE, FALSE, FALSE, FALSE>> <=>
              mg = FALSE /\ my = FALSE /\ cg = FALSE /\ cy = FALSE
      BY <1>3, Zenon
    <3>. QED
      BY <1>1, <3>1, Zenon
  <2>. QED
    BY <2>1, <2>2, <2>3, <2>4, <2>5
<1>. DEFINE role == RoleOf(state)
            shown == <<mg, my, cg, cy>>
            t1 == shown = <<TRUE, FALSE, FALSE, FALSE>>
            t2 == shown = <<FALSE, TRUE, FALSE, FALSE>>
            t3 == shown = <<FALSE, FALSE, TRUE, FALSE>>
            t4 == shown = <<FALSE, FALSE, FALSE, TRUE>>
            t5 == shown = <<FALSE, FALSE, FALSE, FALSE>>
<1>5. role = CASE red -> "all_red"
               [] t1 -> "main_green"
               [] t2 -> "main_yellow"
               [] t3 -> "cross_green"
               [] t4 -> "cross_yellow"
               [] t5 /\ some -> "pedestrian"
               [] OTHER -> "none"
  BY <1>2
<1>6. /\ t1 <=> mg /\ ~my /\ ~cg /\ ~cy
      /\ t2 <=> ~mg /\ my /\ ~cg /\ ~cy
      /\ t3 <=> ~mg /\ ~my /\ cg /\ ~cy
      /\ t4 <=> ~mg /\ ~my /\ ~cg /\ cy
      /\ t5 <=> ~mg /\ ~my /\ ~cg /\ ~cy
  BY <1>4
<1>. HIDE DEF role, shown, t1, t2, t3, t4, t5
<1>7. /\ red => role = "all_red"
      /\ ~red /\ t1 => role = "main_green"
      /\ ~red /\ t2 /\ ~t1 => role = "main_yellow"
      /\ ~red /\ t3 /\ ~t1 /\ ~t2 => role = "cross_green"
      /\ ~red /\ t4 /\ ~t1 /\ ~t2 /\ ~t3 => role = "cross_yellow"
      /\ ~red /\ t5 /\ some /\ ~t1 /\ ~t2 /\ ~t3 /\ ~t4 => role = "pedestrian"
      /\ ~red /\ ~(t5 /\ some) /\ ~t1 /\ ~t2 /\ ~t3 /\ ~t4 => role = "none"
  <2>1. ASSUME red PROVE role = "all_red"
    BY <1>0, <1>5, <1>6, <2>1
  <2>2. ASSUME ~red /\ t1 PROVE role = "main_green"
    BY <1>0, <1>5, <1>6, <2>2
  <2>3. ASSUME ~red /\ t2 /\ ~t1 PROVE role = "main_yellow"
    BY <1>0, <1>5, <1>6, <2>3
  <2>4. ASSUME ~red /\ t3 /\ ~t1 /\ ~t2 PROVE role = "cross_green"
    BY <1>0, <1>5, <1>6, <2>4
  <2>5. ASSUME ~red /\ t4 /\ ~t1 /\ ~t2 /\ ~t3 PROVE role = "cross_yellow"
    BY <1>0, <1>5, <1>6, <2>5
  <2>6. ASSUME ~red /\ t5 /\ some /\ ~t1 /\ ~t2 /\ ~t3 /\ ~t4 PROVE role = "pedestrian"
    BY <1>0, <1>5, <1>6, <2>6
  <2>7. ASSUME ~red /\ ~(t5 /\ some) /\ ~t1 /\ ~t2 /\ ~t3 /\ ~t4 PROVE role = "none"
    BY <1>0, <1>5, <1>6, <2>7
  <2>. QED
    BY <2>1, <2>2, <2>3, <2>4, <2>5, <2>6, <2>7
<1>8. /\ role = "all_red" <=> red
      /\ role = "main_green" <=> ~red /\ t1
      /\ role = "main_yellow" <=> ~red /\ t2
      /\ role = "cross_green" <=> ~red /\ t3
      /\ role = "cross_yellow" <=> ~red /\ t4
      /\ role = "pedestrian" <=> ~red /\ some /\ t5
      /\ role \in GreenAndYellowRoles \cup {"all_red", "pedestrian", "none"}
  BY <1>6, <1>7 DEF GreenAndYellowRoles
<1>9. /\ role = "all_red" <=> red
      /\ role = "main_green" <=> ~red /\ mg /\ ~my /\ ~cg /\ ~cy
      /\ role = "main_yellow" <=> ~red /\ ~mg /\ my /\ ~cg /\ ~cy
      /\ role = "cross_green" <=> ~red /\ ~mg /\ ~my /\ cg /\ ~cy
      /\ role = "cross_yellow" <=> ~red /\ ~mg /\ ~my /\ ~cg /\ cy
      /\ role = "pedestrian" <=> ~red /\ some /\ ~mg /\ ~my /\ ~cg /\ ~cy
      /\ role \in GreenAndYellowRoles \cup {"all_red", "pedestrian", "none"}
  BY <1>6, <1>8
<1>. QED
  BY <1>9 DEF role, mg, my, cg, cy, red, some

\* The first phase of a role is the only one that no other of the role precedes.
LEMMA FirstIs ==
    ASSUME NEW phases \in Seq(Phase), NEW role, NEW i \in DOMAIN phases,
           RoleOf(phases[i].state) = role,
           \A j \in 1 .. (i - 1) : RoleOf(phases[j].state) # role
    PROVE  FirstWithRole(phases, role) = i
<1>. DEFINE IsFirst(k) == /\ RoleOf(phases[k].state) = role
                          /\ \A j \in 1 .. (k - 1) : RoleOf(phases[j].state) # role
<1>1. DOMAIN phases = 1 .. Len(phases) /\ Len(phases) \in Nat
  OBVIOUS
<1>2. ASSUME NEW k \in DOMAIN phases, IsFirst(k) PROVE k = i
  <2>1. k < i => k \in 1 .. (i - 1)
    BY <1>1
  <2>2. i < k => i \in 1 .. (k - 1)
    BY <1>1
  <2>. QED
    BY <1>1, <1>2, <2>1, <2>2
<1>3. IsFirst(i)
  OBVIOUS
<1>4. FirstWithRole(phases, role) = CHOOSE k \in DOMAIN phases : IsFirst(k)
  BY DEF FirstWithRole
<1>. HIDE DEF IsFirst
<1>. QED
  BY <1>2, <1>3, <1>4

LEMMA FirstExists ==
    ASSUME NEW phases \in Seq(Phase), NEW role, HasRole(phases, role)
    PROVE  /\ FirstWithRole(phases, role) \in DOMAIN phases
           /\ RoleOf(phases[FirstWithRole(phases, role)].state) = role
           /\ \A j \in 1 .. (FirstWithRole(phases, role) - 1) :
                  RoleOf(phases[j].state) # role
<1>. DEFINE S == {i \in DOMAIN phases : RoleOf(phases[i].state) = role}
            f == [i \in S |-> -i]
<1>1. DOMAIN phases = 1 .. Len(phases) /\ Len(phases) \in Nat
  OBVIOUS
<1>2. S # {} /\ S \subseteq 1 .. Len(phases)
  BY <1>1 DEF HasRole
<1>3. IsFiniteSet(S)
  <2>. HIDE DEF S
  <2>1. IsFiniteSet(1 .. Len(phases))
    BY <1>1, FS_Interval
  <2>. QED
    BY <1>2, <2>1, FS_Subset
<1>4. \A x \in S : f[x] \in Int /\ f[x] = -x
  BY <1>1, <1>2
<1>. HIDE DEF f, S
<1>5. PICK i \in S : \A y \in S : f[y] <= f[i]
  BY <1>2, <1>3, <1>4, HighestExists
<1>6. i \in 1 .. Len(phases) /\ \A y \in S : i <= y
  <2>1. i \in 1 .. Len(phases)
    BY <1>2
  <2>2. ASSUME NEW y \in S PROVE i <= y
    <3>1. -y <= -i /\ y \in 1 .. Len(phases)
      BY <1>2, <1>4, <1>5
    <3>. QED
      BY <2>1, <3>1, <1>1
  <2>. QED
    BY <2>1, <2>2
<1>7. \A j \in 1 .. (i - 1) : RoleOf(phases[j].state) # role
  <2>. SUFFICES ASSUME NEW j \in 1 .. (i - 1), RoleOf(phases[j].state) = role PROVE FALSE
    OBVIOUS
  <2>1. j \in DOMAIN phases /\ j < i
    BY <1>1, <1>6
  <2>2. j \in S
    BY <2>1 DEF S
  <2>. QED
    BY <1>6, <2>1, <2>2, <1>1
<1>8. i \in DOMAIN phases /\ RoleOf(phases[i].state) = role
  BY DEF S
<1>9. FirstWithRole(phases, role) = i
  BY <1>7, <1>8, FirstIs
<1>. QED
  BY <1>7, <1>8, <1>9

\* Programs of the same roles have the same first phases.
LEMMA SameFirst ==
    ASSUME NEW phases \in Seq(Phase), NEW other \in Seq(Phase), Len(other) = Len(phases),
           \A i \in DOMAIN phases : RoleOf(other[i].state) = RoleOf(phases[i].state),
           NEW role, HasRole(phases, role)
    PROVE  FirstWithRole(other, role) = FirstWithRole(phases, role)
<1>. DEFINE i == FirstWithRole(phases, role)
<1>1. /\ i \in DOMAIN phases /\ RoleOf(phases[i].state) = role
      /\ \A j \in 1 .. (i - 1) : RoleOf(phases[j].state) # role
  BY FirstExists
<1>. HIDE DEF i
<1>2. /\ DOMAIN phases = 1 .. Len(phases) /\ DOMAIN other = 1 .. Len(phases)
      /\ Len(phases) \in Nat
  OBVIOUS
<1>3. \A j \in 1 .. (i - 1) : RoleOf(other[j].state) # role
  <2>1. \A j \in 1 .. (i - 1) : j \in DOMAIN phases
    BY <1>1, <1>2
  <2>. QED
    BY <1>1, <2>1
<1>4. FirstWithRole(other, role) = i
  BY <1>1, <1>2, <1>3, FirstIs
<1>. QED
  BY <1>4 DEF i

-----------------------------------------------------------------------------
(* The overrides of a scenario.                                              *)

OverrideRoles == GreenAndYellowRoles \cup AllRedRoles
                     \cup {"pedestrian", "all_red_ped_to_main"}

\* The clearance after the pedestrian phase is as long as the all-red before the
\* corridor's green.
IsOverrides(o) ==
    /\ DOMAIN o \subseteq OverrideRoles
    /\ \A role \in DOMAIN o : o[role] \in Nat
    /\ "all_red_ped_to_main" \in DOMAIN o
           <=> {"pedestrian", "all_red_cross_to_main"} \subseteq DOMAIN o
    /\ "all_red_ped_to_main" \in DOMAIN o
           => o.all_red_ped_to_main = o.all_red_cross_to_main

LEMMA OverridesBuilt ==
    ASSUME NEW s \in TlsPrograms, BuildTlsOffsets(s.program, s.cycle) # Failed
    PROVE  /\ IsOverrides(BuildTlsOffsets(s.program, s.cycle))
           /\ BuildTlsOffsets(s.program, s.cycle) = CarveClearance(s.program)
<1>. DEFINE program == s.program
            o == CarveClearance(program)
<1>1. /\ DOMAIN program \subseteq ScenarioRoles
      /\ \A role \in DOMAIN program : program[role] \in Nat
  BY ProgramsAssumption
<1>2. /\ BuildTlsOffsets(program, s.cycle) = o
      /\ Carved(program) => ~(o.pedestrian <= 0)
  BY DEF BuildTlsOffsets
<1>. HIDE DEF program
<1>3. CASE {"pedestrian", "all_red_cross_to_main"} \subseteq DOMAIN program
  <2>1. o = [role \in DOMAIN program \cup {"all_red_ped_to_main"} |->
             CASE role = "pedestrian" ->
                      program.pedestrian - program.all_red_cross_to_main
               [] role = "all_red_ped_to_main" -> program.all_red_cross_to_main
               [] OTHER -> program[role]]
    BY <1>3 DEF CarveClearance, Carved
  <2>. HIDE DEF o
  <2>2. /\ DOMAIN o = DOMAIN program \cup {"all_red_ped_to_main"}
        /\ o["pedestrian"] = program.pedestrian - program.all_red_cross_to_main
        /\ o["all_red_ped_to_main"] = program.all_red_cross_to_main
        /\ \A role \in DOMAIN program \ {"pedestrian", "all_red_ped_to_main"} :
               o[role] = program[role]
    BY <1>3, <2>1
  <2>3. o["pedestrian"] \in Nat
    BY <1>1, <1>2, <1>3, <2>2 DEF Carved
  <2>4. \A role \in DOMAIN o : o[role] \in Nat
    BY <1>1, <1>3, <2>2, <2>3 DEF ScenarioRoles, GreenAndYellowRoles, AllRedRoles
  <2>5. IsOverrides(o)
    BY <1>1, <1>3, <2>2, <2>4
       DEF IsOverrides, ScenarioRoles, OverrideRoles, GreenAndYellowRoles, AllRedRoles
  <2>. QED
    BY <1>2, <2>5 DEF program, o
<1>4. CASE ~({"pedestrian", "all_red_cross_to_main"} \subseteq DOMAIN program)
  <2>1. o = program
    BY <1>4 DEF CarveClearance, Carved
  <2>2. IsOverrides(program)
    BY <1>1, <1>4
       DEF IsOverrides, ScenarioRoles, OverrideRoles, GreenAndYellowRoles, AllRedRoles
  <2>. QED
    BY <1>2, <2>1, <2>2 DEF program, o
<1>. QED
  BY <1>3, <1>4

\* The durations are all that is set.
LEMMA DurationsSet ==
    ASSUME NEW p \in Seq(Phase), NEW o, IsOverrides(o)
    PROVE  LET d == SetDurations(p, o) IN
           /\ d \in Seq(Phase) /\ Len(d) = Len(p)
           /\ \A i \in DOMAIN p : d[i].state = p[i].state
           /\ \A i \in DOMAIN p :
                  LET role == RoleOf(p[i].state)
                  IN d[i].duration = IF /\ role \in GreenAndYellowRoles \cap DOMAIN o
                                        /\ FirstWithRole(p, role) = i
                                     THEN o[role] ELSE p[i].duration
<1>. DEFINE d == SetDurations(p, o)
            Role(i) == RoleOf(p[i].state)
            IsSet(i) == /\ Role(i) \in GreenAndYellowRoles \cap DOMAIN o
                        /\ FirstWithRole(p, Role(i)) = i
<1>1. DOMAIN p = 1 .. Len(p) /\ Len(p) \in Nat /\ \A i \in 1 .. Len(p) : p[i] \in Phase
  OBVIOUS
<1>2. \A i \in 1 .. Len(p) :
          d[i] = IF IsSet(i) THEN [p[i] EXCEPT !.duration = o[Role(i)]] ELSE p[i]
  BY <1>1 DEF SetDurations
<1>3. ASSUME NEW i \in 1 .. Len(p)
      PROVE  /\ d[i] \in Phase /\ d[i].state = p[i].state
             /\ d[i].duration = IF IsSet(i) THEN o[Role(i)] ELSE p[i].duration
  <2>. DEFINE ph == p[i]
              t == o[Role(i)]
  <2>1. ph \in Phase /\ (IsSet(i) => t \in Nat)
    BY <1>1 DEF IsOverrides
  <2>2. d[i] = IF IsSet(i) THEN [ph EXCEPT !.duration = t] ELSE ph
    BY <1>2
  <2>. HIDE DEF IsSet, ph, t, d
  <2>3. ph = [state |-> ph.state, duration |-> ph.duration] /\ ph.state \in [Links -> {"G", "g", "y", "r"}]
    BY <2>1 DEF Phase
  <2>4. CASE IsSet(i)
    <3>1. d[i] = [state |-> ph.state, duration |-> t]
      BY <2>2, <2>3, <2>4
    <3>2. d[i] \in Phase /\ d[i].state = ph.state /\ d[i].duration = t
      BY <2>1, <2>3, <2>4, <3>1 DEF Phase
    <3>. QED
      BY <2>4, <3>2 DEF ph, t
  <2>5. CASE ~IsSet(i)
    BY <2>1, <2>2, <2>5 DEF ph
  <2>. QED
    BY <2>4, <2>5
<1>4. DOMAIN d = 1 .. Len(p) /\ d = [i \in DOMAIN d |-> d[i]]
  BY <1>1 DEF SetDurations
<1>. HIDE DEF d, IsSet, Role
<1>5. d \in [1 .. Len(p) -> Phase]
  BY <1>3, <1>4
<1>6. d \in Seq(Phase) /\ Len(d) = Len(p)
  BY <1>1, <1>4, <1>5
<1>. QED
  BY <1>1, <1>3, <1>6 DEF d, IsSet, Role

\* Phases are equal that are equal in both fields.
LEMMA SamePhase ==
    ASSUME NEW a \in Phase, NEW b \in Phase, a.state = b.state, a.duration = b.duration
    PROVE  a = b
BY DEF Phase

LEMMA SamePhases ==
    ASSUME NEW p \in Seq(Phase), NEW q \in Seq(Phase), Len(p) = Len(q),
           \A i \in DOMAIN p : p[i].state = q[i].state /\ p[i].duration = q[i].duration
    PROVE  p = q
<1>1. DOMAIN p = 1 .. Len(p) /\ DOMAIN q = 1 .. Len(p)
  OBVIOUS
<1>2. \A i \in 1 .. Len(p) : p[i] = q[i]
  <2>. SUFFICES ASSUME NEW i \in 1 .. Len(p) PROVE p[i] = q[i]
    OBVIOUS
  <2>1. p[i] \in Phase /\ q[i] \in Phase
    BY <1>1
  <2>. QED
    BY <1>1, <2>1, SamePhase
<1>. QED
  BY <1>1, <1>2, SeqEqual

\* Setting the durations again changes nothing.
LEMMA DurationsStay ==
    ASSUME NEW p \in Seq(Phase), NEW o, IsOverrides(o)
    PROVE  SetDurations(SetDurations(p, o), o) = SetDurations(p, o)
<1>. DEFINE d == SetDurations(p, o)
            e == SetDurations(d, o)
<1>1. /\ d \in Seq(Phase) /\ Len(d) = Len(p) /\ DOMAIN p = 1 .. Len(p) /\ DOMAIN d = 1 .. Len(p)
      /\ \A i \in DOMAIN p : d[i].state = p[i].state
      /\ \A i \in DOMAIN p :
             LET role == RoleOf(p[i].state)
             IN d[i].duration = IF /\ role \in GreenAndYellowRoles \cap DOMAIN o
                                   /\ FirstWithRole(p, role) = i
                                THEN o[role] ELSE p[i].duration
  BY DurationsSet
<1>. HIDE DEF d
<1>2. /\ e \in Seq(Phase) /\ Len(e) = Len(d)
      /\ \A i \in DOMAIN d : e[i].state = d[i].state
      /\ \A i \in DOMAIN d :
             LET role == RoleOf(d[i].state)
             IN e[i].duration = IF /\ role \in GreenAndYellowRoles \cap DOMAIN o
                                   /\ FirstWithRole(d, role) = i
                                THEN o[role] ELSE d[i].duration
  BY <1>1, DurationsSet
<1>. HIDE DEF e
<1>3. ASSUME NEW i \in DOMAIN e PROVE e[i].state = d[i].state /\ e[i].duration = d[i].duration
  <2>. DEFINE role == RoleOf(p[i].state)
  <2>1. i \in DOMAIN p /\ i \in DOMAIN d /\ RoleOf(d[i].state) = role
    BY <1>1, <1>2
  <2>2. FirstWithRole(d, role) = FirstWithRole(p, role)
    <3>1. HasRole(p, role)
      BY <2>1 DEF HasRole
    <3>2. \A k \in DOMAIN p : RoleOf(d[k].state) = RoleOf(p[k].state)
      BY <1>1
    <3>. HIDE DEF role
    <3>. QED
      BY <1>1, <3>1, <3>2, SameFirst
  <2>3. d[i].duration = IF /\ role \in GreenAndYellowRoles \cap DOMAIN o
                           /\ FirstWithRole(p, role) = i
                        THEN o[role] ELSE p[i].duration
    BY <1>1, <2>1
  <2>4. e[i].duration = IF /\ role \in GreenAndYellowRoles \cap DOMAIN o
                           /\ FirstWithRole(d, role) = i
                        THEN o[role] ELSE d[i].duration
    BY <1>2, <2>1
  <2>. HIDE DEF role
  <2>. QED
    BY <1>2, <2>1, <2>2, <2>3, <2>4
<1>4. e = d
  BY <1>1, <1>2, <1>3, SamePhases
<1>. QED
  BY <1>4 DEF d, e

\* Only crossings are turned red.
LEMMA CrossingsDisabled ==
    ASSUME NEW p \in Seq(Phase)
    PROVE  LET d == DisableCrossings(p) IN
           /\ d \in Seq(Phase) /\ Len(d) = Len(p)
           /\ \A i \in DOMAIN p :
                  /\ d[i].duration = p[i].duration
                  /\ \A l \in Links :
                         d[i].state[l] = IF l \in PedestrianLinks /\ p[i].state[l] \in {"G", "g"}
                                         THEN "r" ELSE p[i].state[l]
<1>. DEFINE d == DisableCrossings(p)
            Colour(i, l) == IF l \in PedestrianLinks /\ p[i].state[l] \in {"G", "g"}
                            THEN "r" ELSE p[i].state[l]
            State(i) == [l \in Links |-> Colour(i, l)]
<1>1. DOMAIN p = 1 .. Len(p) /\ Len(p) \in Nat /\ \A i \in 1 .. Len(p) : p[i] \in Phase
  OBVIOUS
<1>2. d = [i \in 1 .. Len(p) |-> [p[i] EXCEPT !.state = State(i)]]
  <2>1. \A i \in 1 .. Len(p) :
            [p[i] EXCEPT !.state = [l \in Links |->
                 IF l \in PedestrianLinks /\ @[l] \in {"G", "g"} THEN "r" ELSE @[l]]]
              = [p[i] EXCEPT !.state = State(i)]
    OBVIOUS
  <2>. QED
    BY <1>1, <2>1 DEF DisableCrossings
<1>3. ASSUME NEW i \in 1 .. Len(p)
      PROVE  d[i] \in Phase /\ d[i].duration = p[i].duration /\ d[i].state = State(i)
  <2>. DEFINE st == State(i)
  <2>1. p[i] \in Phase
    BY <1>1
  <2>2. st \in [Links -> {"G", "g", "y", "r"}]
    BY <2>1 DEF Phase
  <2>3. d[i] = [p[i] EXCEPT !.state = st]
    BY <1>2
  <2>. HIDE DEF st, d
  <2>4. d[i] = [state |-> st, duration |-> p[i].duration] /\ p[i].duration \in Nat
    BY <2>1, <2>3 DEF Phase
  <2>5. d[i] \in Phase /\ d[i].duration = p[i].duration /\ d[i].state = st
    BY <2>2, <2>4 DEF Phase
  <2>. QED
    BY <2>5 DEF st
<1>4. DOMAIN d = 1 .. Len(p) /\ d = [i \in DOMAIN d |-> d[i]]
  BY <1>2
<1>. HIDE DEF d
<1>5. d \in [1 .. Len(p) -> Phase]
  BY <1>3, <1>4
<1>6. d \in Seq(Phase) /\ Len(d) = Len(p)
  BY <1>1, <1>4, <1>5
<1>7. \A i \in 1 .. Len(p) : \A l \in Links : d[i].state[l] = Colour(i, l)
  BY <1>3
<1>. QED
  BY <1>1, <1>3, <1>6, <1>7 DEF d

\* States that agree on the vehicle links show the same of both streets.
LEMMA SameShown ==
    ASSUME NEW a, NEW b, \A l \in VehicleLinks : a[l] = b[l], NEW colours
    PROVE  /\ Shows(a, MainLinks, colours) <=> Shows(b, MainLinks, colours)
           /\ Shows(a, CrossLinks, colours) <=> Shows(b, CrossLinks, colours)
BY LinksOfTheRoles DEF Shows

\* A phase of vehicles keeps its role without its crossings.
LEMMA RoleWithoutCrossings ==
    ASSUME NEW p \in Seq(Phase), NEW i \in DOMAIN p, RoleOf(p[i].state) # "pedestrian"
    PROVE  RoleOf(DisableCrossings(p)[i].state) = RoleOf(p[i].state)
<1>. DEFINE a == p[i].state
            b == DisableCrossings(p)[i].state
<1>1. \A l \in Links : b[l] = IF l \in PedestrianLinks /\ a[l] \in {"G", "g"} THEN "r" ELSE a[l]
  BY CrossingsDisabled
<1>. HIDE DEF a, b
<1>2. \A l \in VehicleLinks : b[l] = a[l]
  BY <1>1, LinksOfTheRoles DEF PedestrianLinks
<1>. DEFINE mg(s) == Shows(s, MainLinks, {"G", "g"})
            my(s) == Shows(s, MainLinks, {"y"})
            cg(s) == Shows(s, CrossLinks, {"G", "g"})
            cy(s) == Shows(s, CrossLinks, {"y"})
<1>3. (mg(a) <=> mg(b)) /\ (my(a) <=> my(b)) /\ (cg(a) <=> cg(b)) /\ (cy(a) <=> cy(b))
  BY <1>2, SameShown
<1>4. /\ IsAllRed(a) => IsAllRed(b)
      /\ Greens(b) \subseteq Greens(a)
      /\ IsAllRed(b) => ~mg(b) /\ ~my(b) /\ ~cg(b) /\ ~cy(b)
  BY <1>1, LinksOfTheRoles DEF IsAllRed, Greens, Shows
<1>5. Greens(a) = {} /\ IsAllRed(b) => IsAllRed(a)
  BY <1>1 DEF IsAllRed, Greens
<1>. DEFINE Facts(s) ==
                /\ RoleOf(s) = "all_red" <=> IsAllRed(s)
                /\ RoleOf(s) = "main_green" <=> ~IsAllRed(s) /\ mg(s) /\ ~my(s) /\ ~cg(s) /\ ~cy(s)
                /\ RoleOf(s) = "main_yellow" <=> ~IsAllRed(s) /\ ~mg(s) /\ my(s) /\ ~cg(s) /\ ~cy(s)
                /\ RoleOf(s) = "cross_green" <=> ~IsAllRed(s) /\ ~mg(s) /\ ~my(s) /\ cg(s) /\ ~cy(s)
                /\ RoleOf(s) = "cross_yellow" <=> ~IsAllRed(s) /\ ~mg(s) /\ ~my(s) /\ ~cg(s) /\ cy(s)
                /\ RoleOf(s) = "pedestrian" <=> /\ ~IsAllRed(s) /\ Greens(s) # {}
                                               /\ ~mg(s) /\ ~my(s) /\ ~cg(s) /\ ~cy(s)
                /\ RoleOf(s) \in GreenAndYellowRoles \cup {"all_red", "pedestrian", "none"}
<1>6. Facts(a) /\ Facts(b)
  BY RoleIs
<1>7. RoleOf(a) # "pedestrian"
  BY DEF a
<1>. HIDE DEF mg, my, cg, cy
<1>8. IsAllRed(a) <=> IsAllRed(b)
  BY <1>3, <1>4, <1>5, <1>6, <1>7
<1>9. RoleOf(b) # "pedestrian"
  BY <1>3, <1>4, <1>6, <1>7, <1>8
<1>. QED
  BY <1>3, <1>6, <1>7, <1>8, <1>9 DEF a, b, GreenAndYellowRoles

-----------------------------------------------------------------------------
(* What is inserted into a program.                                          *)

\* x stands after the first k phases of p.
Inserts(p, q, x, k) ==
    \E s, t \in Seq(Phase) : p = s \o t /\ q = s \o <<x>> \o t /\ Len(s) = k

LEMMA InsertAtInserts ==
    ASSUME NEW p \in Seq(Phase), NEW k \in 1 .. Len(p), NEW x \in Phase
    PROVE  Inserts(p, InsertAt(p, k + 1, x), x, k)
<1>. DEFINE s == SubSeq(p, 1, k)
            t == SubSeq(p, k + 1, Len(p))
<1>1. Len(p) \in Nat /\ k \in Nat /\ k + 1 - 1 = k
  OBVIOUS
<1>2. s \in Seq(Phase) /\ t \in Seq(Phase) /\ Len(s) = k
  <2>1. \A i \in 1 .. k : i \in 1 .. Len(p)
    BY <1>1
  <2>2. \A i \in (k + 1) .. Len(p) : i \in 1 .. Len(p)
    BY <1>1
  <2>3. \A i \in 1 .. Len(p) : p[i] \in Phase
    OBVIOUS
  <2>. QED
    BY <1>1, <2>1, <2>2, <2>3, SubSeqProperties
<1>3. p = s \o t
  <2>1. 1 \in 1 .. Len(p) + 1 /\ k \in 1 - 1 .. Len(p) /\ Len(p) \in k .. Len(p)
    BY <1>1
  <2>2. SubSeq(p, 1, k) \o SubSeq(p, k + 1, Len(p)) = SubSeq(p, 1, Len(p))
    BY <2>1, ConcatAdjacentSubSeq
  <2>. QED
    BY <2>2, SubSeqFull
<1>4. InsertAt(p, k + 1, x) = s \o <<x>> \o t
  <2>. DEFINE j == k + 1
              m == j - 1
  <2>1. InsertAt(p, j, x) = SubSeq(p, 1, m) \o <<x>> \o SubSeq(p, j, Len(p))
    BY DEF InsertAt
  <2>2. m = k
    BY <1>1
  <2>. HIDE DEF m
  <2>. QED
    BY <2>1, <2>2, Zenon
<1>. HIDE DEF s, t
<1>. QED
  BY <1>2, <1>3, <1>4 DEF Inserts

LEMMA InsertedPhases ==
    ASSUME NEW p, NEW q, NEW x \in Phase, NEW k, Inserts(p, q, x, k)
    PROVE  /\ p \in Seq(Phase) /\ q \in Seq(Phase)
           /\ Len(q) = Len(p) + 1 /\ k \in 0 .. Len(p)
           /\ \A i \in 1 .. Len(q) :
                  q[i] = IF i <= k THEN p[i] ELSE IF i = k + 1 THEN x ELSE p[i - 1]
<1>1. PICK s \in Seq(Phase), t \in Seq(Phase) :
          p = s \o t /\ q = s \o <<x>> \o t /\ Len(s) = k
  BY DEF Inserts
<1>. DEFINE one == <<x>>
            u == s \o one
<1>2. one \in Seq(Phase) /\ Len(one) = 1 /\ one[1] = x
  OBVIOUS
<1>3. Len(s) \in Nat /\ Len(t) \in Nat
  OBVIOUS
<1>. HIDE DEF one
<1>4. /\ u \in Seq(Phase) /\ Len(u) = Len(s) + 1
      /\ \A i \in 1 .. Len(s) + 1 : u[i] = IF i <= Len(s) THEN s[i] ELSE one[i - Len(s)]
  BY <1>2, ConcatProperties
<1>. HIDE DEF u
<1>5. /\ q \in Seq(Phase) /\ Len(q) = Len(u) + Len(t)
      /\ \A i \in 1 .. Len(u) + Len(t) : q[i] = IF i <= Len(u) THEN u[i] ELSE t[i - Len(u)]
  <2>1. q = u \o t
    BY <1>1 DEF u, one
  <2>. QED
    BY <1>4, <2>1, ConcatProperties
<1>6. /\ p \in Seq(Phase) /\ Len(p) = Len(s) + Len(t)
      /\ \A i \in 1 .. Len(s) + Len(t) : p[i] = IF i <= Len(s) THEN s[i] ELSE t[i - Len(s)]
  BY <1>1, ConcatProperties
<1>7. ASSUME NEW i \in 1 .. Len(q)
      PROVE  q[i] = IF i <= k THEN p[i] ELSE IF i = k + 1 THEN x ELSE p[i - 1]
  <2>1. CASE i <= k
    <3>1. i \in 1 .. Len(u) + Len(t) /\ i \in 1 .. Len(s) + 1 /\ i \in 1 .. Len(s) + Len(t)
      BY <1>1, <1>3, <1>4, <1>5, <2>1
    <3>. QED
      BY <1>1, <1>4, <1>5, <1>6, <2>1, <3>1, <1>3
  <2>2. CASE i = k + 1
    <3>1. i \in 1 .. Len(s) + 1 /\ i <= Len(u) /\ ~(i <= Len(s)) /\ i - Len(s) = 1
      BY <1>1, <1>3, <1>4, <2>2
    <3>2. u[i] = x
      BY <1>2, <1>4, <3>1
    <3>. QED
      BY <1>1, <1>3, <1>4, <1>5, <2>2, <3>1, <3>2
  <2>3. CASE i > k + 1
    <3>. DEFINE j == i - 1
    <3>1. /\ j \in 1 .. Len(s) + Len(t) /\ ~(j <= Len(s)) /\ ~(i <= Len(u))
          /\ i - Len(u) = j - Len(s) /\ i \in 1 .. Len(u) + Len(t)
      BY <1>1, <1>3, <1>4, <1>5, <2>3
    <3>. DEFINE m == j - Len(s)
    <3>2. p[j] = t[m]
      BY <1>6, <3>1
    <3>3. q[i] = t[m]
      BY <1>5, <3>1
    <3>4. ~(i <= k) /\ i # k + 1
      BY <1>1, <1>3, <2>3
    <3>. HIDE DEF m
    <3>. QED
      BY <3>2, <3>3, <3>4
  <2>. QED
    BY <1>1, <1>3, <1>5, <2>1, <2>2, <2>3
<1>8. Len(q) = Len(p) + 1 /\ k \in 0 .. Len(p)
  BY <1>1, <1>3, <1>4, <1>5, <1>6
<1>. QED
  BY <1>5, <1>6, <1>7, <1>8, Zenon

\* An insertion takes nothing away.
LEMMA InsertedKeeps ==
    ASSUME NEW p, NEW q, NEW x \in Phase, NEW k, Inserts(p, q, x, k)
    PROVE  /\ \A i \in DOMAIN p : \E j \in DOMAIN q : q[j] = p[i]
           /\ \A j \in DOMAIN q : q[j] = x \/ \E i \in DOMAIN p : q[j] = p[i]
           /\ \A role : HasRole(p, role) => HasRole(q, role)
<1>1. /\ p \in Seq(Phase) /\ q \in Seq(Phase)
      /\ Len(q) = Len(p) + 1 /\ k \in 0 .. Len(p)
      /\ \A i \in 1 .. Len(q) :
             q[i] = IF i <= k THEN p[i] ELSE IF i = k + 1 THEN x ELSE p[i - 1]
  BY InsertedPhases
<1>2. DOMAIN p = 1 .. Len(p) /\ DOMAIN q = 1 .. Len(q) /\ Len(p) \in Nat
  BY <1>1
<1>3. ASSUME NEW i \in DOMAIN p PROVE \E j \in DOMAIN q : q[j] = p[i]
  <2>1. CASE i <= k
    <3>1. i \in DOMAIN q
      BY <1>1, <1>2
    <3>. QED
      BY <1>1, <1>2, <2>1, <3>1
  <2>2. CASE ~(i <= k)
    <3>. DEFINE j == i + 1
    <3>1. j \in 1 .. Len(q) /\ ~(j <= k) /\ j # k + 1 /\ j - 1 = i
      BY <1>1, <1>2, <2>2
    <3>2. q[j] = p[i]
      BY <1>1, <3>1
    <3>. QED
      BY <1>2, <3>1, <3>2
  <2>. QED
    BY <2>1, <2>2
<1>4. ASSUME NEW j \in DOMAIN q PROVE q[j] = x \/ \E i \in DOMAIN p : q[j] = p[i]
  <2>1. CASE j <= k
    <3>1. j \in DOMAIN p
      BY <1>1, <1>2, <2>1
    <3>. QED
      BY <1>1, <1>2, <2>1, <3>1
  <2>2. CASE j = k + 1
    BY <1>1, <1>2, <2>2
  <2>3. CASE ~(j <= k) /\ j # k + 1
    <3>. DEFINE i == j - 1
    <3>1. i \in DOMAIN p
      BY <1>1, <1>2, <2>3
    <3>2. q[j] = p[i]
      BY <1>1, <1>2, <2>3
    <3>. QED
      BY <3>1, <3>2
  <2>. QED
    BY <2>1, <2>2, <2>3
<1>. QED
  BY <1>3, <1>4, Zenon DEF HasRole

-----------------------------------------------------------------------------
(* Stripping a program of what an earlier run inserted.                      *)

Reds == {ph \in Phase : IsAllRed(ph.state)}
Walks == {ph \in Phase : RoleOf(ph.state) = "pedestrian"}

LEMMA StrippedPhases ==
    ASSUME NEW p \in Seq(Phase)
    PROVE  StripAllRed(p) = Outside(p, Reds) /\ StripPedestrian(p) = Outside(p, Walks)
<1>1. \A i \in DOMAIN p : p[i] \in Phase
  OBVIOUS
<1>2. {i \in DOMAIN p : IsAllRed(p[i].state)} = {i \in DOMAIN p : p[i] \in Reds}
  BY <1>1 DEF Reds
<1>3. {i \in DOMAIN p : RoleOf(p[i].state) = "pedestrian"} = {i \in DOMAIN p : p[i] \in Walks}
  BY <1>1 DEF Walks
<1>. QED
  BY <1>2, <1>3, Zenon DEF StripAllRed, StripPedestrian, Outside

\* What is dropped by the role alone.
DroppedReds(o) == IF AllRedRoles \cap DOMAIN o # {} THEN Reds ELSE {}
DroppedWalks(o) == IF "pedestrian" \in DOMAIN o THEN Walks ELSE {}
Kept(p, o) == Outside(Outside(p, DroppedReds(o)), DroppedWalks(o))

LEMMA OutsideIsProgram ==
    ASSUME NEW p \in Seq(Phase), NEW X
    PROVE  Outside(p, X) \in Seq(Phase)
BY PartsOfProgram DEF Outside

LEMMA StrippedIs ==
    ASSUME NEW p \in Seq(Phase), NEW o
    PROVE  Stripped(p, o) = IF "pedestrian" \in DOMAIN o
                            THEN DisableCrossings(StripPedClearance(Kept(p, o)))
                            ELSE Kept(p, o)
<1>. DEFINE noAllRed == IF AllRedRoles \cap DOMAIN o # {} THEN StripAllRed(p) ELSE p
            ped == "pedestrian" \in DOMAIN o
<1>1. \A q \in Seq(Phase) : Outside(q, {}) = q
  BY OutsideNothing
<1>2. noAllRed = Outside(p, DroppedReds(o))
  BY <1>1, StrippedPhases DEF DroppedReds
<1>3. Stripped(p, o) = IF ped THEN DisableCrossings(StripPedClearance(StripPedestrian(noAllRed)))
                       ELSE noAllRed
  BY DEF Stripped
<1>4. noAllRed \in Seq(Phase)
  BY <1>2, OutsideIsProgram
<1>. HIDE DEF noAllRed
<1>5. ped => Kept(p, o) = StripPedestrian(noAllRed)
  BY <1>2, <1>4, StrippedPhases DEF Kept, DroppedWalks
<1>6. ~ped => Kept(p, o) = noAllRed
  BY <1>1, <1>2, <1>4 DEF Kept, DroppedWalks
<1>. QED
  BY <1>3, <1>5, <1>6

\* What was inserted of them is dropped again.
LEMMA KeptInserted ==
    ASSUME NEW p, NEW q, NEW x \in Phase, NEW k, Inserts(p, q, x, k), NEW o,
           x \in DroppedReds(o) \cup DroppedWalks(o)
    PROVE  Kept(q, o) = Kept(p, o)
<1>. DEFINE X == DroppedReds(o)
            Y == DroppedWalks(o)
<1>1. PICK s \in Seq(Phase), t \in Seq(Phase) : p = s \o t /\ q = s \o <<x>> \o t
  BY DEF Inserts
<1>2. x \in X \cup Y
  OBVIOUS
<1>. HIDE DEF X, Y
<1>3. CASE x \in X
  <2>1. Outside(q, X) = Outside(p, X)
    BY <1>1, <1>3, OutsideInserted
  <2>. QED
    BY <2>1, Zenon DEF Kept, X
<1>4. CASE x \notin X
  <2>. DEFINE a == Outside(s, X)
              b == Outside(t, X)
  <2>1. a \in Seq(Phase) /\ b \in Seq(Phase)
    BY OutsideIsProgram
  <2>2. Outside(q, X) = a \o <<x>> \o b
    BY <1>1, <1>4, OutsideInserted
  <2>3. Outside(p, X) = a \o b
    BY <1>1, OutsideConcat
  <2>. HIDE DEF a, b
  <2>4. Outside(a \o <<x>> \o b, Y) = Outside(a \o b, Y)
    BY <1>2, <1>4, <2>1, OutsideInserted
  <2>. QED
    BY <2>2, <2>3, <2>4, Zenon DEF Kept, X, Y
<1>. QED
  BY <1>3, <1>4

\* None of them is left.
LEMMA KeptIsClean ==
    ASSUME NEW p \in Seq(Phase), NEW o
    PROVE  /\ Kept(p, o) \in Seq(Phase)
           /\ \A i \in DOMAIN Kept(p, o) :
                  /\ Kept(p, o)[i] \notin DroppedReds(o) \cup DroppedWalks(o)
                  /\ \E j \in DOMAIN p : Kept(p, o)[i] = p[j]
<1>1. ASSUME NEW q \in Seq(Phase), NEW X, NEW i \in DOMAIN Outside(q, X)
      PROVE  Outside(q, X)[i] \notin X /\ \E j \in DOMAIN q : Outside(q, X)[i] = q[j]
  <2>. DEFINE dropped == {j \in DOMAIN q : q[j] \in X}
              K == {q[j] : j \in DOMAIN q \ dropped}
  <2>1. Outside(q, X) = Without(q, dropped)
    BY DEF Outside
  <2>. HIDE DEF dropped
  <2>2. Without(q, dropped) \in Seq(K)
    BY KeptAreNotDropped
  <2>3. Outside(q, X)[i] \in K
    <3>. HIDE DEF K
    <3>. QED
      BY <2>1, <2>2
  <2>. QED
    BY <2>3 DEF dropped
<1>. DEFINE a == Outside(p, DroppedReds(o))
            b == Outside(a, DroppedWalks(o))
<1>2. a \in Seq(Phase) /\ b \in Seq(Phase) /\ b = Kept(p, o)
  BY OutsideIsProgram DEF Kept
<1>3. \A j \in DOMAIN a : a[j] \notin DroppedReds(o) /\ \E m \in DOMAIN p : a[j] = p[m]
  BY <1>1
<1>. HIDE DEF a
<1>4. \A i \in DOMAIN b : b[i] \notin DroppedWalks(o) /\ \E j \in DOMAIN a : b[i] = a[j]
  BY <1>1, <1>2
<1>. HIDE DEF b
<1>. QED
  BY <1>2, <1>3, <1>4

LEMMA CleanIsKept ==
    ASSUME NEW p \in Seq(Phase), NEW o,
           \A i \in DOMAIN p : p[i] \notin DroppedReds(o) \cup DroppedWalks(o)
    PROVE  Kept(p, o) = p
<1>1. Outside(p, DroppedReds(o)) = p
  BY OutsideNothing
<1>2. Outside(p, DroppedWalks(o)) = p
  BY OutsideNothing
<1>. QED
  BY <1>1, <1>2, Zenon DEF Kept

\* A program with one green for each street has none that repeats it.
LEMMA NoClearanceToStrip ==
    ASSUME NEW p \in Seq(Phase),
           ExactlyOne(p, "main_green"), ExactlyOne(p, "cross_green")
    PROVE  StripPedClearance(p) = p
<1>1. ASSUME NEW role, ExactlyOne(p, role), NEW i \in DOMAIN p, RoleOf(p[i].state) = role
      PROVE  FirstWithRole(p, role) = i
  <2>. DEFINE S == {j \in DOMAIN p : RoleOf(p[j].state) = role}
              first == FirstWithRole(p, role)
  <2>1. first \in S /\ i \in S
    BY <1>1, FirstExists DEF HasRole
  <2>2. DOMAIN p = 1 .. Len(p) /\ Len(p) \in Nat
    OBVIOUS
  <2>3. IsFiniteSet(S)
    <3>1. IsFiniteSet(1 .. Len(p)) /\ S \subseteq 1 .. Len(p)
      BY <2>2, FS_Interval
    <3>. QED
      BY <3>1, FS_Subset
  <2>4. Cardinality(S) = 1
    BY <1>1 DEF ExactlyOne
  <2>. HIDE DEF S, first
  <2>5. PICK x : S = {x}
    BY <2>3, <2>4, FS_Singleton
  <2>. QED
    BY <2>1, <2>5 DEF first
<1>. DEFINE Repeats(i) ==
                LET role == RoleOf(p[i].state)
                    first == FirstWithRole(p, role)
                IN /\ role \in {"main_green", "cross_green"} /\ first # i
                   /\ IsPedClearanceOf(p[i].state, p[first].state)
<1>2. \A i \in DOMAIN p : ~Repeats(i)
  BY <1>1
<1>3. StripPedClearance(p) = Without(p, {i \in DOMAIN p : Repeats(i)})
  BY DEF StripPedClearance
<1>. HIDE DEF Repeats
<1>4. DOMAIN p \cap {i \in DOMAIN p : Repeats(i)} = {}
  BY <1>2
<1>. QED
  BY <1>3, <1>4, WithoutNothing

-----------------------------------------------------------------------------
(* The phases that are inserted, one after the other.                        *)

LEMMA AllRedIsRed ==
    ASSUME NEW t \in Nat
    PROVE  AllRedPhase(t) \in Reds /\ AllRedPhase(t).duration = t
BY DEF AllRedPhase, Reds, Phase, IsAllRed

LEMMA PedestrianWalks ==
    ASSUME NEW t \in Nat
    PROVE  /\ PedestrianPhase(t) \in Phase /\ PedestrianPhase(t).duration = t
           /\ \A l \in VehicleLinks : PedestrianPhase(t).state[l] = "r"
           /\ PedestrianLinks # {} => PedestrianPhase(t) \in Walks
           /\ \A l \in Links : PedestrianPhase(t).state[l] # "y"
<1>. DEFINE st == [l \in Links |-> IF l \in PedestrianLinks THEN "G" ELSE "r"]
<1>1. PedestrianPhase(t) = [state |-> st, duration |-> t]
  BY DEF PedestrianPhase
<1>2. st \in [Links -> {"G", "g", "y", "r"}]
  OBVIOUS
<1>3. \A l \in VehicleLinks : st[l] = "r"
  BY LinksOfTheRoles DEF PedestrianLinks
<1>4. \A l \in Links : st[l] # "y"
  OBVIOUS
<1>5. PedestrianLinks # {} => ~IsAllRed(st) /\ Greens(st) # {}
  BY DEF IsAllRed, Greens, PedestrianLinks
<1>. HIDE DEF st
<1>6. /\ ~Shows(st, MainLinks, {"G", "g"}) /\ ~Shows(st, MainLinks, {"y"})
      /\ ~Shows(st, CrossLinks, {"G", "g"}) /\ ~Shows(st, CrossLinks, {"y"})
  BY <1>3, LinksOfTheRoles DEF Shows
<1>7. PedestrianLinks # {} => RoleOf(st) = "pedestrian"
  BY <1>5, <1>6, RoleIs
<1>. QED
  BY <1>1, <1>2, <1>3, <1>4, <1>7 DEF Phase, Walks

\* The last of the all-red phases that follow the cross street's yellow.
IsLastRed(p, k) ==
    LET yellow == FirstWithRole(p, "cross_yellow") IN
    /\ k \in yellow .. Len(p)
    /\ \A j \in (yellow + 1) .. k : IsAllRed(p[j].state)
    /\ k = Len(p) \/ ~IsAllRed(p[k + 1].state)

LEMMA LastRedExists ==
    ASSUME NEW p \in Seq(Phase), HasRole(p, "cross_yellow")
    PROVE  \E k : IsLastRed(p, k)
<1>. DEFINE y == FirstWithRole(p, "cross_yellow")
            S == {k \in y .. Len(p) : \A j \in (y + 1) .. k : IsAllRed(p[j].state)}
            f == [k \in S |-> k]
<1>1. y \in 1 .. Len(p) /\ Len(p) \in Nat
  BY FirstExists
<1>. HIDE DEF y
<1>2. y \in S
  BY <1>1
<1>3. IsFiniteSet(S)
  <2>1. S \subseteq y .. Len(p) /\ IsFiniteSet(y .. Len(p))
    BY <1>1, FS_Interval
  <2>. QED
    BY <2>1, FS_Subset
<1>4. \A k \in S : f[k] = k /\ k \in Int
  BY <1>1
<1>. HIDE DEF f
<1>5. PICK k \in S : \A m \in S : f[m] <= f[k]
  <2>. HIDE DEF S
  <2>. QED
    BY <1>2, <1>3, <1>4, HighestExists
<1>6. k = Len(p) \/ ~IsAllRed(p[k + 1].state)
  <2>. SUFFICES ASSUME k # Len(p), IsAllRed(p[k + 1].state) PROVE FALSE
    OBVIOUS
  <2>1. k + 1 \in y .. Len(p)
    BY <1>1
  <2>2. \A j \in (y + 1) .. (k + 1) : j \in (y + 1) .. k \/ j = k + 1
    BY <1>1
  <2>3. k + 1 \in S
    BY <2>1, <2>2
  <2>4. k + 1 <= k
    <3>. HIDE DEF S
    <3>. QED
      BY <1>4, <1>5, <2>3
  <2>. QED
    BY <1>1, <2>4
<1>. QED
  BY <1>6 DEF IsLastRed, y

\* One after the other, each where it belongs.
Insertions(d, o, cross, both, walked, r, k) ==
    /\ IF "all_red_cross_to_main" \in DOMAIN o
       THEN Inserts(d, cross, AllRedPhase(o.all_red_cross_to_main),
                    FirstWithRole(d, "cross_yellow"))
       ELSE cross = d
    /\ IF "all_red_main_to_cross" \in DOMAIN o
       THEN Inserts(cross, both, AllRedPhase(o.all_red_main_to_cross),
                    FirstWithRole(cross, "main_yellow"))
       ELSE both = cross
    /\ IF "pedestrian" \in DOMAIN o
       THEN IsLastRed(both, k) /\ Inserts(both, walked, PedestrianPhase(o.pedestrian), k)
       ELSE walked = both
    /\ IF "all_red_ped_to_main" \in DOMAIN o
       THEN Inserts(walked, r, AllRedPhase(o.all_red_ped_to_main), k + 1)
       ELSE r = walked
    /\ cross \in Seq(Phase) /\ both \in Seq(Phase)
    /\ walked \in Seq(Phase) /\ r \in Seq(Phase)

LEMMA AllRedInserted ==
    ASSUME NEW p \in Seq(Phase), NEW o, IsOverrides(o), NEW role, NEW after,
           role \in DOMAIN o => HasRole(p, after)
    PROVE  LET q == InsertAllRed(p, o, role, after) IN
           /\ IF role \in DOMAIN o
              THEN Inserts(p, q, AllRedPhase(o[role]), FirstWithRole(p, after)) ELSE q = p
           /\ q \in Seq(Phase)
           /\ \A other : HasRole(p, other) => HasRole(q, other)
<1>. DEFINE q == InsertAllRed(p, o, role, after)
            k == FirstWithRole(p, after)
            x == AllRedPhase(o[role])
<1>1. CASE role \in DOMAIN o
  <2>1. q = InsertAt(p, k + 1, x)
    BY <1>1 DEF InsertAllRed
  <2>2. x \in Phase
    BY <1>1, AllRedIsRed DEF IsOverrides, Reds
  <2>3. k \in 1 .. Len(p)
    BY <1>1, FirstExists
  <2>. HIDE DEF k, x, q
  <2>4. Inserts(p, q, x, k)
    BY <2>1, <2>2, <2>3, InsertAtInserts
  <2>5. q \in Seq(Phase)
    BY <2>2, <2>4, InsertedPhases
  <2>6. \A other : HasRole(p, other) => HasRole(q, other)
    BY <2>2, <2>4, InsertedKeeps
  <2>. QED
    BY <1>1, <2>4, <2>5, <2>6 DEF q, k, x
<1>2. CASE role \notin DOMAIN o
  BY <1>2 DEF InsertAllRed
<1>. QED
  BY <1>1, <1>2

LEMMA PedestrianInserted ==
    ASSUME NEW p \in Seq(Phase), NEW o, IsOverrides(o), "pedestrian" \in DOMAIN o,
           HasRole(p, "cross_yellow")
    PROVE  \E walked, k :
               /\ IsLastRed(p, k) /\ Inserts(p, walked, PedestrianPhase(o.pedestrian), k)
               /\ IF "all_red_ped_to_main" \in DOMAIN o
                  THEN Inserts(walked, InsertPedestrian(p, o),
                               AllRedPhase(o.all_red_ped_to_main), k + 1)
                  ELSE InsertPedestrian(p, o) = walked
               /\ walked \in Seq(Phase) /\ InsertPedestrian(p, o) \in Seq(Phase)
<1>. DEFINE y == FirstWithRole(p, "cross_yellow")
            EndsAt(i) ==
                /\ \A j \in (y + 1) .. i : IsAllRed(p[j].state)
                /\ i = Len(p) \/ ~IsAllRed(p[i + 1].state)
            k == CHOOSE i \in y .. Len(p) : EndsAt(i)
            s == SubSeq(p, 1, k)
            t == SubSeq(p, k + 1, Len(p))
            x == PedestrianPhase(o.pedestrian)
            one == <<x>>
            ar == AllRedPhase(o.all_red_ped_to_main)
            clearance == IF "all_red_ped_to_main" \in DOMAIN o THEN <<ar>> ELSE <<>>
            r == InsertPedestrian(p, o)
            sx == s \o one
            walked == sx \o t
<1>1. r = s \o one \o clearance \o t
  BY DEF InsertPedestrian
<1>2. \A i : IsLastRed(p, i) <=> i \in y .. Len(p) /\ EndsAt(i)
  BY DEF IsLastRed
<1>3. IsLastRed(p, k)
  <2>. HIDE DEF EndsAt, y
  <2>1. \E i \in y .. Len(p) : EndsAt(i)
    BY <1>2, LastRedExists
  <2>. QED
    BY <1>2, <2>1
<1>4. y \in 1 .. Len(p) /\ Len(p) \in Nat
  BY FirstExists
<1>5. k \in 1 .. Len(p)
  <2>. HIDE DEF k, EndsAt, y
  <2>. QED
    BY <1>2, <1>3, <1>4
<1>6. x \in Phase
  BY PedestrianWalks DEF IsOverrides
<1>7. "all_red_ped_to_main" \in DOMAIN o => ar \in Phase
  BY AllRedIsRed DEF IsOverrides, Reds
<1>. HIDE DEF k, r, x, ar
<1>8. s \in Seq(Phase) /\ t \in Seq(Phase) /\ Len(s) = k
  <2>1. \A i \in 1 .. k : i \in 1 .. Len(p)
    BY <1>4, <1>5
  <2>2. \A i \in (k + 1) .. Len(p) : i \in 1 .. Len(p)
    BY <1>4, <1>5
  <2>3. \A i \in 1 .. Len(p) : p[i] \in Phase
    OBVIOUS
  <2>4. k \in Int /\ 1 \in Int /\ k + 1 \in Int /\ Len(p) \in Int /\ 1 <= k /\ k - 1 + 1 = k
    BY <1>4, <1>5
  <2>5. \A i \in 1 .. k : p[i] \in Phase
    BY <2>1, <2>3
  <2>6. \A i \in (k + 1) .. Len(p) : p[i] \in Phase
    BY <2>2, <2>3
  <2>7. s \in Seq(Phase) /\ Len(s) = IF 1 <= k THEN k - 1 + 1 ELSE 0
    BY <2>4, <2>5, SubSeqProperties
  <2>8. t \in Seq(Phase)
    BY <2>4, <2>6, SubSeqProperties
  <2>. QED
    BY <2>4, <2>7, <2>8
<1>9. p = s \o t
  <2>1. 1 \in 1 .. Len(p) + 1 /\ k \in 1 - 1 .. Len(p) /\ Len(p) \in k .. Len(p)
    BY <1>4, <1>5
  <2>2. SubSeq(p, 1, k) \o SubSeq(p, k + 1, Len(p)) = SubSeq(p, 1, Len(p))
    BY <2>1, ConcatAdjacentSubSeq
  <2>. QED
    BY <2>2, SubSeqFull
<1>10. one \in Seq(Phase) /\ Len(one) = 1
  BY <1>6
<1>. HIDE DEF s, t
<1>11. Inserts(p, walked, x, k)
  BY <1>8, <1>9 DEF Inserts
<1>. HIDE DEF one
<1>12. sx \in Seq(Phase) /\ Len(sx) = k + 1
  <2>1. /\ s \o one \in Seq(Phase) /\ Len(s \o one) = Len(s) + Len(one)
    BY <1>8, <1>10, ConcatProperties
  <2>. QED
    BY <1>8, <1>10, <2>1, Zenon
<1>. HIDE DEF sx
<1>13. walked \in Seq(Phase)
  BY <1>8, <1>12, ConcatProperties
<1>14. CASE "all_red_ped_to_main" \in DOMAIN o
  <2>1. r = sx \o <<ar>> \o t
    BY <1>1, <1>14, Zenon DEF sx
  <2>2. Inserts(walked, r, ar, k + 1)
    BY <1>8, <1>12, <2>1 DEF Inserts
  <2>. HIDE DEF walked
  <2>3. r \in Seq(Phase)
    BY <1>7, <1>14, <2>2, InsertedPhases
  <2>. QED
    BY <1>3, <1>11, <1>13, <1>14, <2>2, <2>3, Zenon DEF r, x, ar
<1>15. CASE ~("all_red_ped_to_main" \in DOMAIN o)
  <2>1. sx \o <<>> = sx
    BY <1>12, ConcatEmptySeq
  <2>2. r = walked
    BY <1>1, <1>15, <2>1, Zenon DEF sx
  <2>. HIDE DEF walked
  <2>. QED
    BY <1>3, <1>11, <1>13, <1>15, <2>2, Zenon DEF r, x
<1>. QED
  BY <1>14, <1>15

LEMMA InsertionsMade ==
    ASSUME NEW d \in Seq(Phase), NEW o, IsOverrides(o),
           \A role \in Needed(o) : HasRole(d, role)
    PROVE  \E cross, both, walked, k : Insertions(d, o, cross, both, walked, Inserted(d, o), k)
<1>. DEFINE c2m == "all_red_cross_to_main"
            m2c == "all_red_main_to_cross"
            cross == InsertAllRed(d, o, c2m, "cross_yellow")
            both == InsertAllRed(cross, o, m2c, "main_yellow")
            r == Inserted(d, o)
<1>1. /\ c2m \in DOMAIN o => HasRole(d, "cross_yellow")
      /\ m2c \in DOMAIN o => HasRole(d, "main_yellow")
      /\ "pedestrian" \in DOMAIN o => HasRole(d, "cross_yellow")
  BY DEF Needed
<1>2. /\ IF c2m \in DOMAIN o
         THEN Inserts(d, cross, AllRedPhase(o[c2m]), FirstWithRole(d, "cross_yellow"))
         ELSE cross = d
      /\ cross \in Seq(Phase)
      /\ \A other : HasRole(d, other) => HasRole(cross, other)
  BY <1>1, AllRedInserted
<1>. HIDE DEF cross
<1>3. /\ IF m2c \in DOMAIN o
         THEN Inserts(cross, both, AllRedPhase(o[m2c]), FirstWithRole(cross, "main_yellow"))
         ELSE both = cross
      /\ both \in Seq(Phase)
      /\ \A other : HasRole(cross, other) => HasRole(both, other)
  BY <1>1, <1>2, AllRedInserted
<1>4. r = IF "pedestrian" \in DOMAIN o THEN InsertPedestrian(both, o) ELSE both
  BY DEF Inserted, cross
<1>. HIDE DEF both, r
<1>5. CASE "pedestrian" \in DOMAIN o
  <2>1. HasRole(both, "cross_yellow")
    BY <1>1, <1>2, <1>3, <1>5
  <2>2. PICK walked, k :
               /\ IsLastRed(both, k) /\ Inserts(both, walked, PedestrianPhase(o.pedestrian), k)
               /\ IF "all_red_ped_to_main" \in DOMAIN o
                  THEN Inserts(walked, InsertPedestrian(both, o),
                               AllRedPhase(o.all_red_ped_to_main), k + 1)
                  ELSE InsertPedestrian(both, o) = walked
               /\ walked \in Seq(Phase) /\ InsertPedestrian(both, o) \in Seq(Phase)
    BY <1>3, <1>5, <2>1, PedestrianInserted
  <2>3. Insertions(d, o, cross, both, walked, r, k)
    BY <1>2, <1>3, <1>4, <1>5, <2>2, Zenon DEF Insertions
  <2>. QED
    BY <2>3 DEF r
<1>6. CASE "pedestrian" \notin DOMAIN o
  <2>1. "all_red_ped_to_main" \notin DOMAIN o
    BY <1>6 DEF IsOverrides
  <2>2. Insertions(d, o, cross, both, both, r, 0)
    BY <1>2, <1>3, <1>4, <1>6, <2>1, Zenon DEF Insertions
  <2>. QED
    BY <2>2 DEF r
<1>. QED
  BY <1>5, <1>6

-----------------------------------------------------------------------------
(* The overrides applied, once and again.                                    *)

LEMMA ClearanceStripped ==
    ASSUME NEW p \in Seq(Phase)
    PROVE  /\ StripPedClearance(p) \in Seq(Phase)
           /\ \A i \in DOMAIN StripPedClearance(p) :
                  \E j \in DOMAIN p : StripPedClearance(p)[i] = p[j]
<1>. DEFINE Repeats(i) ==
                LET role == RoleOf(p[i].state)
                    first == FirstWithRole(p, role)
                IN /\ role \in {"main_green", "cross_green"} /\ first # i
                   /\ IsPedClearanceOf(p[i].state, p[first].state)
            dropped == {i \in DOMAIN p : Repeats(i)}
            K == {p[i] : i \in DOMAIN p \ dropped}
            q == StripPedClearance(p)
<1>1. q = Without(p, dropped)
  BY DEF StripPedClearance
<1>. HIDE DEF dropped, q
<1>2. q \in Seq(Phase)
  BY <1>1, PartsOfProgram
<1>3. q \in Seq(K)
  BY <1>1, KeptAreNotDropped
<1>4. \A i \in DOMAIN q : q[i] \in K
  <2>. HIDE DEF K
  <2>. QED
    BY <1>3
<1>. QED
  BY <1>2, <1>4 DEF q

\* Whether a phase is all-red, or for pedestrians only, its role says.
LEMMA DroppedByRole ==
    ASSUME NEW ph \in Phase
    PROVE  /\ ph \in Reds <=> RoleOf(ph.state) = "all_red"
           /\ ph \in Walks <=> RoleOf(ph.state) = "pedestrian"
<1>1. RoleOf(ph.state) = "all_red" <=> IsAllRed(ph.state)
  BY RoleIs
<1>. QED
  BY <1>1 DEF Reds, Walks

\* What is left is clean, and with a pedestrian phase no crossing is green.
LEMMA StrippedIsClean ==
    ASSUME NEW p \in Seq(Phase), NEW o
    PROVE  /\ Stripped(p, o) \in Seq(Phase)
           /\ \A i \in DOMAIN Stripped(p, o) :
                  Stripped(p, o)[i] \notin DroppedReds(o) \cup DroppedWalks(o)
           /\ "pedestrian" \in DOMAIN o =>
                  \A i \in DOMAIN Stripped(p, o) : \A l \in PedestrianLinks :
                      Stripped(p, o)[i].state[l] \notin {"G", "g"}
<1>. DEFINE q == Kept(p, o)
            c == StripPedClearance(q)
            s == DisableCrossings(c)
<1>1. /\ q \in Seq(Phase)
      /\ \A i \in DOMAIN q : q[i] \notin DroppedReds(o) \cup DroppedWalks(o)
  BY KeptIsClean
<1>. HIDE DEF q
<1>2. c \in Seq(Phase) /\ \A i \in DOMAIN c : \E j \in DOMAIN q : c[i] = q[j]
  BY <1>1, ClearanceStripped
<1>. HIDE DEF c
<1>3. CASE "pedestrian" \in DOMAIN o
  <2>1. /\ s \in Seq(Phase) /\ Len(s) = Len(c)
        /\ \A i \in DOMAIN c : \A l \in Links :
               s[i].state[l] = IF l \in PedestrianLinks /\ c[i].state[l] \in {"G", "g"}
                               THEN "r" ELSE c[i].state[l]
    BY <1>2, CrossingsDisabled
  <2>2. DOMAIN s = DOMAIN c /\ \A i \in DOMAIN c : c[i] \in Phase /\ s[i] \in Phase
    BY <1>2, <2>1
  <2>3. \A i \in DOMAIN c : c[i] \notin DroppedReds(o) /\ c[i] \notin Walks
    BY <1>1, <1>2, <1>3 DEF DroppedWalks
  <2>4. ASSUME NEW i \in DOMAIN c PROVE RoleOf(s[i].state) = RoleOf(c[i].state)
    <3>1. RoleOf(c[i].state) # "pedestrian"
      BY <2>2, <2>3, DroppedByRole
    <3>. QED
      BY <1>2, <3>1, RoleWithoutCrossings
  <2>. HIDE DEF s
  <2>5. ASSUME NEW i \in DOMAIN s
        PROVE  s[i] \notin DroppedReds(o) \cup DroppedWalks(o)
    <3>1. c[i] \in Reds <=> s[i] \in Reds
      BY <2>2, <2>4, DroppedByRole
    <3>2. c[i] \in Walks <=> s[i] \in Walks
      BY <2>2, <2>4, DroppedByRole
    <3>. QED
      BY <2>2, <2>3, <3>1, <3>2 DEF DroppedReds, DroppedWalks
  <2>6. \A i \in DOMAIN s : \A l \in PedestrianLinks : s[i].state[l] \notin {"G", "g"}
    <3>1. PedestrianLinks \subseteq Links
      BY DEF PedestrianLinks
    <3>. QED
      BY <2>1, <2>2, <3>1
  <2>7. Stripped(p, o) = s
    BY <1>3, StrippedIs DEF s, c, q
  <2>. QED
    BY <2>1, <2>5, <2>6, <2>7
<1>4. CASE "pedestrian" \notin DOMAIN o
  <2>1. Stripped(p, o) = q
    BY <1>4, StrippedIs DEF q
  <2>. QED
    BY <1>1, <1>4, <2>1
<1>. QED
  BY <1>3, <1>4

\* Why the overrides are refused for a stripped program.
Refuses(s, o) ==
    \/ MainLinks = {} \/ CrossLinks = {}
    \/ "pedestrian" \in DOMAIN o /\ PedestrianLinks = {}
    \/ /\ "pedestrian" \in DOMAIN o
       /\ \E role \in {"main_green", "cross_green"} : ~ExactlyOne(s, role)
    \/ \E role \in Needed(o) : ~HasRole(s, role)

LEMMA AppliedIs ==
    ASSUME NEW p, NEW o
    PROVE  ApplyPhaseProgram(p, o) =
               IF Refuses(Stripped(p, o), o) THEN Failed
               ELSE Inserted(SetDurations(Stripped(p, o), o), o)
BY DEF ApplyPhaseProgram, Refuses

\* It depends on the roles only.
LEMMA SameRoles ==
    ASSUME NEW s \in Seq(Phase), NEW d \in Seq(Phase), Len(d) = Len(s),
           \A i \in DOMAIN s : d[i].state = s[i].state
    PROVE  /\ \A role : HasRole(d, role) <=> HasRole(s, role)
           /\ \A role : ExactlyOne(d, role) <=> ExactlyOne(s, role)
           /\ \A o : Refuses(d, o) <=> Refuses(s, o)
<1>1. DOMAIN d = DOMAIN s
  OBVIOUS
<1>2. \A role : HasRole(d, role) <=> HasRole(s, role)
  BY <1>1 DEF HasRole
<1>3. \A role : {i \in DOMAIN d : RoleOf(d[i].state) = role}
                    = {i \in DOMAIN s : RoleOf(s[i].state) = role}
  BY <1>1
<1>4. \A role : ExactlyOne(d, role) <=> ExactlyOne(s, role)
  BY <1>3 DEF ExactlyOne
<1>. QED
  BY <1>2, <1>4, Zenon DEF Refuses

\* The stripped program with its durations set: the program without what is
\* inserted.
Timed(p, o) == SetDurations(Stripped(p, o), o)

LEMMA TimedIsClean ==
    ASSUME NEW p \in Seq(Phase), NEW o, IsOverrides(o)
    PROVE  /\ Timed(p, o) \in Seq(Phase) /\ Stripped(p, o) \in Seq(Phase)
           /\ Len(Timed(p, o)) = Len(Stripped(p, o))
           /\ \A i \in DOMAIN Stripped(p, o) : Timed(p, o)[i].state = Stripped(p, o)[i].state
           /\ \A i \in DOMAIN Timed(p, o) :
                  Timed(p, o)[i] \notin DroppedReds(o) \cup DroppedWalks(o)
           /\ "pedestrian" \in DOMAIN o =>
                  \A i \in DOMAIN Timed(p, o) : \A l \in PedestrianLinks :
                      Timed(p, o)[i].state[l] \notin {"G", "g"}
<1>. DEFINE s == Stripped(p, o)
            d == Timed(p, o)
<1>1. /\ s \in Seq(Phase)
      /\ \A i \in DOMAIN s : s[i] \notin DroppedReds(o) \cup DroppedWalks(o)
      /\ "pedestrian" \in DOMAIN o =>
             \A i \in DOMAIN s : \A l \in PedestrianLinks : s[i].state[l] \notin {"G", "g"}
  BY StrippedIsClean
<1>. HIDE DEF s
<1>2. d \in Seq(Phase) /\ Len(d) = Len(s) /\ \A i \in DOMAIN s : d[i].state = s[i].state
  BY <1>1, DurationsSet DEF Timed, s
<1>. HIDE DEF d
<1>3. DOMAIN d = DOMAIN s /\ \A i \in DOMAIN s : d[i] \in Phase /\ s[i] \in Phase
  BY <1>1, <1>2
<1>4. ASSUME NEW i \in DOMAIN d PROVE d[i] \notin DroppedReds(o) \cup DroppedWalks(o)
  <2>1. (d[i] \in Reds <=> s[i] \in Reds) /\ (d[i] \in Walks <=> s[i] \in Walks)
    BY <1>2, <1>3, DroppedByRole
  <2>. QED
    BY <1>1, <1>3, <2>1 DEF DroppedReds, DroppedWalks
<1>5. "pedestrian" \in DOMAIN o =>
          \A i \in DOMAIN d : \A l \in PedestrianLinks : d[i].state[l] \notin {"G", "g"}
  BY <1>1, <1>2, <1>3
<1>. QED
  BY <1>1, <1>2, <1>4, <1>5 DEF s, d

\* With its crossings red, a program has none to disable.
LEMMA NothingToDisable ==
    ASSUME NEW p \in Seq(Phase),
           \A i \in DOMAIN p : \A l \in PedestrianLinks : p[i].state[l] \notin {"G", "g"}
    PROVE  DisableCrossings(p) = p
<1>. DEFINE d == DisableCrossings(p)
<1>1. /\ d \in Seq(Phase) /\ Len(d) = Len(p)
      /\ \A i \in DOMAIN p :
             /\ d[i].duration = p[i].duration
             /\ \A l \in Links :
                    d[i].state[l] = IF l \in PedestrianLinks /\ p[i].state[l] \in {"G", "g"}
                                    THEN "r" ELSE p[i].state[l]
  BY CrossingsDisabled
<1>. HIDE DEF d
<1>2. DOMAIN d = DOMAIN p
  BY <1>1
<1>3. ASSUME NEW i \in DOMAIN d PROVE d[i].state = p[i].state
  <2>1. d[i] \in Phase /\ p[i] \in Phase
    BY <1>1, <1>2
  <2>2. \A l \in Links : d[i].state[l] = p[i].state[l]
    BY <1>1, <1>2
  <2>3. /\ d[i].state \in [Links -> {"G", "g", "y", "r"}]
        /\ p[i].state \in [Links -> {"G", "g", "y", "r"}]
    BY <2>1 DEF Phase
  <2>. QED
    BY <2>2, <2>3
<1>4. d = p
  BY <1>1, <1>2, <1>3, SamePhases
<1>. QED
  BY <1>4 DEF d

\* What the overrides make of a program.
LEMMA AppliedProgram ==
    ASSUME NEW p \in Seq(Phase), NEW o, IsOverrides(o), ApplyPhaseProgram(p, o) # Failed
    PROVE  /\ ApplyPhaseProgram(p, o) = Inserted(Timed(p, o), o)
           /\ ~Refuses(Timed(p, o), o)
           /\ \E cross, both, walked, k :
                  Insertions(Timed(p, o), o, cross, both, walked, ApplyPhaseProgram(p, o), k)
<1>1. /\ ApplyPhaseProgram(p, o) = Inserted(Timed(p, o), o)
      /\ ~Refuses(Stripped(p, o), o)
  BY AppliedIs, Zenon DEF Timed
<1>2. ~Refuses(Timed(p, o), o)
  <2>1. /\ Timed(p, o) \in Seq(Phase) /\ Stripped(p, o) \in Seq(Phase)
        /\ Len(Timed(p, o)) = Len(Stripped(p, o))
        /\ \A i \in DOMAIN Stripped(p, o) : Timed(p, o)[i].state = Stripped(p, o)[i].state
    BY TimedIsClean, Zenon
  <2>2. Refuses(Timed(p, o), o) <=> Refuses(Stripped(p, o), o)
    BY <2>1, SameRoles, Zenon
  <2>. QED
    BY <1>1, <2>2, Zenon
<1>3. \A role \in Needed(o) : HasRole(Timed(p, o), role)
  BY <1>2 DEF Refuses
<1>4. Timed(p, o) \in Seq(Phase)
  BY TimedIsClean
<1>. QED
  BY <1>1, <1>2, <1>3, <1>4, InsertionsMade

\* The program with the overrides, stripped, is the one without.
LEMMA AppliedStrips ==
    ASSUME NEW p \in Seq(Phase), NEW o, IsOverrides(o), ApplyPhaseProgram(p, o) # Failed
    PROVE  Stripped(ApplyPhaseProgram(p, o), o) = Timed(p, o)
<1>. DEFINE d == Timed(p, o)
            r == ApplyPhaseProgram(p, o)
<1>1. ~Refuses(d, o)
  BY AppliedProgram
<1>2. PICK cross, both, walked, k : Insertions(d, o, cross, both, walked, r, k)
  BY AppliedProgram
<1>3. /\ d \in Seq(Phase)
      /\ \A i \in DOMAIN d : d[i] \notin DroppedReds(o) \cup DroppedWalks(o)
      /\ "pedestrian" \in DOMAIN o =>
             \A i \in DOMAIN d : \A l \in PedestrianLinks : d[i].state[l] \notin {"G", "g"}
  BY TimedIsClean
<1>. HIDE DEF d, r
<1>4. cross \in Seq(Phase) /\ both \in Seq(Phase) /\ walked \in Seq(Phase) /\ r \in Seq(Phase)
  BY <1>2 DEF Insertions
<1>5. \A role \in AllRedRoles \cup {"all_red_ped_to_main"} :
          role \in DOMAIN o =>
              AllRedPhase(o[role]) \in Phase /\ AllRedPhase(o[role]) \in DroppedReds(o)
  BY AllRedIsRed DEF IsOverrides, DroppedReds, Reds, AllRedRoles
<1>6. "pedestrian" \in DOMAIN o =>
          /\ PedestrianPhase(o.pedestrian) \in Phase
          /\ PedestrianPhase(o.pedestrian) \in DroppedWalks(o)
  BY <1>1, PedestrianWalks DEF IsOverrides, DroppedWalks, Refuses
<1>7. Kept(cross, o) = Kept(d, o)
  <2>1. CASE "all_red_cross_to_main" \in DOMAIN o
    <3>. DEFINE x == AllRedPhase(o.all_red_cross_to_main)
                m == FirstWithRole(d, "cross_yellow")
    <3>1. Inserts(d, cross, x, m)
      BY <1>2, <2>1 DEF Insertions
    <3>2. x \in Phase /\ x \in DroppedReds(o) \cup DroppedWalks(o)
      BY <1>5, <2>1 DEF AllRedRoles
    <3>. HIDE DEF x, m
    <3>. QED
      BY <3>1, <3>2, KeptInserted
  <2>2. CASE "all_red_cross_to_main" \notin DOMAIN o
    BY <1>2, <2>2, Zenon DEF Insertions
  <2>. QED
    BY <2>1, <2>2
<1>8. Kept(both, o) = Kept(cross, o)
  <2>1. CASE "all_red_main_to_cross" \in DOMAIN o
    <3>. DEFINE x == AllRedPhase(o.all_red_main_to_cross)
                m == FirstWithRole(cross, "main_yellow")
    <3>1. Inserts(cross, both, x, m)
      BY <1>2, <2>1 DEF Insertions
    <3>2. x \in Phase /\ x \in DroppedReds(o) \cup DroppedWalks(o)
      BY <1>5, <2>1 DEF AllRedRoles
    <3>. HIDE DEF x, m
    <3>. QED
      BY <3>1, <3>2, KeptInserted
  <2>2. CASE "all_red_main_to_cross" \notin DOMAIN o
    BY <1>2, <2>2, Zenon DEF Insertions
  <2>. QED
    BY <2>1, <2>2
<1>9. Kept(walked, o) = Kept(both, o)
  <2>1. CASE "pedestrian" \in DOMAIN o
    <3>. DEFINE x == PedestrianPhase(o.pedestrian)
    <3>1. Inserts(both, walked, x, k)
      BY <1>2, <2>1 DEF Insertions
    <3>2. x \in Phase /\ x \in DroppedReds(o) \cup DroppedWalks(o)
      BY <1>6, <2>1
    <3>. HIDE DEF x
    <3>. QED
      BY <3>1, <3>2, KeptInserted
  <2>2. CASE "pedestrian" \notin DOMAIN o
    BY <1>2, <2>2, Zenon DEF Insertions
  <2>. QED
    BY <2>1, <2>2
<1>10. Kept(r, o) = Kept(walked, o)
  <2>1. CASE "all_red_ped_to_main" \in DOMAIN o
    <3>. DEFINE x == AllRedPhase(o.all_red_ped_to_main)
                m == k + 1
    <3>1. Inserts(walked, r, x, m)
      BY <1>2, <2>1 DEF Insertions
    <3>2. x \in Phase /\ x \in DroppedReds(o) \cup DroppedWalks(o)
      BY <1>5, <2>1
    <3>. HIDE DEF x, m
    <3>. QED
      BY <3>1, <3>2, KeptInserted
  <2>2. CASE "all_red_ped_to_main" \notin DOMAIN o
    BY <1>2, <2>2, Zenon DEF Insertions
  <2>. QED
    BY <2>1, <2>2
<1>11. Kept(d, o) = d
  BY <1>3, CleanIsKept
<1>12. Kept(r, o) = d
  BY <1>7, <1>8, <1>9, <1>10, <1>11, Zenon
<1>13. "pedestrian" \in DOMAIN o => DisableCrossings(StripPedClearance(d)) = d
  <2>. SUFFICES ASSUME "pedestrian" \in DOMAIN o
                PROVE  DisableCrossings(StripPedClearance(d)) = d
    OBVIOUS
  <2>1. ExactlyOne(d, "main_green") /\ ExactlyOne(d, "cross_green")
    BY <1>1 DEF Refuses
  <2>2. StripPedClearance(d) = d
    BY <1>3, <2>1, NoClearanceToStrip
  <2>3. DisableCrossings(d) = d
    BY <1>3, NothingToDisable
  <2>. QED
    BY <2>2, <2>3, Zenon
<1>14. Stripped(r, o) = d
  BY <1>4, <1>12, <1>13, StrippedIs
<1>. QED
  BY <1>14 DEF d, r

\* Applying the overrides to their own result changes nothing: what an earlier
\* run inserted is taken out and put back where it was (apply_tls_offsets).
LEMMA AppliedAgain ==
    ASSUME NEW p \in Seq(Phase), NEW o, IsOverrides(o), ApplyPhaseProgram(p, o) # Failed
    PROVE  LET r == ApplyPhaseProgram(p, o) IN r \in Seq(Phase) /\ ApplyPhaseProgram(r, o) = r
<1>. DEFINE d == Timed(p, o)
            r == ApplyPhaseProgram(p, o)
<1>1. r = Inserted(d, o) /\ ~Refuses(d, o)
  BY AppliedProgram
<1>2. Stripped(r, o) = d
  BY AppliedStrips
<1>3. SetDurations(d, o) = d
  BY TimedIsClean, DurationsStay DEF Timed
<1>4. r \in Seq(Phase)
  BY AppliedProgram DEF Insertions
<1>. HIDE DEF d
<1>5. ApplyPhaseProgram(r, o) = r
  <2>. HIDE DEF r
  <2>. QED
    BY <1>1, <1>2, <1>3, AppliedIs, Zenon
<1>. QED
  BY <1>4, <1>5 DEF r

-----------------------------------------------------------------------------
(* The files of the network.                                                 *)

\* The overrides are a scenario's, and once applied the network is a compiled
\* program with these overrides, however often they were applied.
NetInv ==
    /\ \E s \in TlsPrograms :
           overrides = BuildTlsOffsets(s.program, s.cycle) /\ overrides # Failed
    /\ IF applied
       THEN \E p \in Compiled : net = ApplyPhaseProgram(p, overrides) /\ net # Failed
       ELSE net \in Compiled

LEMMA NetOverrides ==
    ASSUME NetInv
    PROVE  IsOverrides(overrides)
BY OverridesBuilt DEF NetInv

LEMMA CompiledPrograms == Compiled \subseteq Seq(Phase)
BY ProgramsAssumption

LEMMA NetInit == Init => NetInv
BY DEF Init, NetInv

LEMMA NetApplied ==
    ASSUME NetInv, applied, ApplyOffsets
    PROVE  net' = net
<1>1. PICK p \in Compiled : net = ApplyPhaseProgram(p, overrides) /\ net # Failed
  BY DEF NetInv
<1>2. p \in Seq(Phase) /\ IsOverrides(overrides)
  BY CompiledPrograms, NetOverrides
<1>3. ApplyPhaseProgram(net, overrides) = net
  BY <1>1, <1>2, AppliedAgain
<1>. QED
  BY <1>3 DEF ApplyOffsets

LEMMA NetStep == NetInv /\ [Next]_vars => NetInv'
<1>. SUFFICES ASSUME NetInv, [Next]_vars PROVE NetInv'
  OBVIOUS
<1>1. CASE Rebuild
  <2>1. PICK program \in Compiled, scenario \in TlsPrograms : Build(program, scenario)
    BY <1>1 DEF Rebuild
  <2>. QED
    BY <2>1 DEF Build, NetInv
<1>2. CASE ApplyOffsets
  <2>1. overrides' = overrides /\ applied' = TRUE
    BY <1>2 DEF ApplyOffsets
  <2>2. CASE applied
    <3>1. net' = net
      BY <1>2, <2>2, NetApplied
    <3>. QED
      BY <2>1, <2>2, <3>1 DEF NetInv
  <2>3. CASE ~applied
    <3>1. net \in Compiled
      BY <2>3 DEF NetInv
    <3>2. net' = ApplyPhaseProgram(net, overrides) /\ ApplyPhaseProgram(net, overrides) # Failed
      BY <1>2 DEF ApplyOffsets
    <3>. QED
      BY <2>1, <3>1, <3>2 DEF NetInv
  <2>. QED
    BY <2>2, <2>3
<1>3. CASE UNCHANGED files
  BY <1>3 DEF files, NetInv
<1>. QED
  BY <1>1, <1>2, <1>3
     DEF Next, StartSession, ProgramAdvances, SwitchProgram, EndSession, vars

\* Once the overrides are applied, the network holds a compiled program with the
\* overrides of a scenario, and applying them again leaves it as it is: the step
\* of the build may be run on its own result (apply_tls_offsets.py).
THEOREM ApplyingAgainChangesNothing ==
    Spec => [](NetInv) /\ [][applied /\ ApplyOffsets => net' = net]_vars
<1>1. NetInv /\ [Next]_vars => [applied /\ ApplyOffsets => net' = net]_vars
  BY NetApplied
<1>. QED
  BY <1>1, NetInit, NetStep, PTL DEF Spec

-----------------------------------------------------------------------------
(* The greens of the vehicles.                                               *)

\* A phase that is put in has no green for vehicles, and the phases that were
\* there stay.
LEMMA InsertionsKeep ==
    ASSUME NEW p \in Seq(Phase), NEW o, IsOverrides(o), ApplyPhaseProgram(p, o) # Failed
    PROVE  LET d == Timed(p, o)
               r == ApplyPhaseProgram(p, o)
           IN /\ r \in Seq(Phase)
              /\ \A i \in DOMAIN d : \E j \in DOMAIN r : r[j] = d[i]
              /\ \A j \in DOMAIN r :
                     \/ \E i \in DOMAIN d : r[j] = d[i]
                     \/ r[j].state \in {AllRedPhase(0).state, PedestrianPhase(0).state}
<1>. DEFINE d == Timed(p, o)
            r == ApplyPhaseProgram(p, o)
            X == {AllRedPhase(0).state, PedestrianPhase(0).state}
            Keeps(a, b) == /\ \A i \in DOMAIN a : \E j \in DOMAIN b : b[j] = a[i]
                           /\ \A j \in DOMAIN b :
                                  \/ \E i \in DOMAIN a : b[j] = a[i]
                                  \/ b[j].state \in X
<1>1. PICK cross, both, walked, k : Insertions(d, o, cross, both, walked, r, k)
  BY AppliedProgram
<1>2. r \in Seq(Phase)
  BY <1>1 DEF Insertions
<1>3. \A role \in DOMAIN o : /\ AllRedPhase(o[role]) \in Phase
                             /\ AllRedPhase(o[role]).state \in X
  BY AllRedIsRed DEF IsOverrides, Reds, AllRedPhase
<1>4. \A role \in DOMAIN o : /\ PedestrianPhase(o[role]) \in Phase
                             /\ PedestrianPhase(o[role]).state \in X
  BY PedestrianWalks DEF IsOverrides, PedestrianPhase
<1>. HIDE DEF d, r, X
<1>5. ASSUME NEW a, NEW b, NEW x \in Phase, x.state \in X, NEW m, Inserts(a, b, x, m)
      PROVE  Keeps(a, b)
  <2>1. /\ \A i \in DOMAIN a : \E j \in DOMAIN b : b[j] = a[i]
        /\ \A j \in DOMAIN b : b[j] = x \/ \E i \in DOMAIN a : b[j] = a[i]
    BY <1>5, InsertedKeeps
  <2>. QED
    BY <1>5, <2>1
<1>6. \A a : Keeps(a, a)
  OBVIOUS
<1>7. ASSUME NEW a, NEW b, NEW c, Keeps(a, b), Keeps(b, c) PROVE Keeps(a, c)
  <2>1. ASSUME NEW i \in DOMAIN a PROVE \E j \in DOMAIN c : c[j] = a[i]
    <3>1. PICK j \in DOMAIN b : b[j] = a[i]
      BY <1>7
    <3>2. PICK m \in DOMAIN c : c[m] = b[j]
      BY <1>7
    <3>. QED
      BY <3>1, <3>2
  <2>2. ASSUME NEW j \in DOMAIN c, c[j].state \notin X PROVE \E i \in DOMAIN a : c[j] = a[i]
    <3>1. PICK m \in DOMAIN b : c[j] = b[m]
      BY <1>7, <2>2
    <3>2. PICK i \in DOMAIN a : b[m] = a[i]
      BY <1>7, <2>2, <3>1
    <3>. QED
      BY <3>1, <3>2
  <2>. QED
    BY <2>1, <2>2
<1>. HIDE DEF Keeps
<1>8. Keeps(d, cross)
  BY <1>1, <1>3, <1>5, <1>6, Zenon DEF Insertions
<1>9. Keeps(cross, both)
  BY <1>1, <1>3, <1>5, <1>6, Zenon DEF Insertions
<1>10. Keeps(both, walked)
  BY <1>1, <1>4, <1>5, <1>6, Zenon DEF Insertions
<1>11. Keeps(walked, r)
  BY <1>1, <1>3, <1>5, <1>6, Zenon DEF Insertions
<1>12. Keeps(d, r)
  BY <1>7, <1>8, <1>9, <1>10, <1>11
<1>. QED
  BY <1>2, <1>12 DEF Keeps, d, r, X

\* No phase that is dropped or changed is the only one that serves a vehicle
\* movement.
LEMMA StrippedServesVehicles ==
    ASSUME NEW p \in Seq(Phase), ServesVehicles(p), NEW o, NEW l \in VehicleLinks
    PROVE  \E i \in DOMAIN Stripped(p, o) : l \in Greens(Stripped(p, o)[i].state)
<1>. DEFINE q == Kept(p, o)
            c == StripPedClearance(q)
            s == DisableCrossings(c)
            G(ph) == l \in Greens(ph.state)
<1>1. PICK i \in DOMAIN p : G(p[i]) /\ RoleOf(p[i].state) # "pedestrian"
  BY DEF ServesVehicles
<1>2. p[i] \in Phase /\ l \in Links
  BY LinksOfTheRoles
<1>3. p[i] \notin Reds /\ p[i] \notin Walks
  BY <1>1, <1>2 DEF Reds, Walks, IsAllRed, Greens
<1>4. \E j \in DOMAIN q : q[j] = p[i]
  <2>1. ASSUME NEW a \in Seq(Phase), NEW X, NEW m \in DOMAIN a, a[m] \notin X
        PROVE  \E j \in DOMAIN Outside(a, X) : Outside(a, X)[j] = a[m]
    <3>. DEFINE dropped == {j \in DOMAIN a : a[j] \in X}
    <3>1. m \notin dropped
      BY <2>1
    <3>2. Outside(a, X) = Without(a, dropped)
      BY DEF Outside
    <3>. HIDE DEF dropped
    <3>. QED
      BY <3>1, <3>2, KeptPhases
  <2>. DEFINE a == Outside(p, DroppedReds(o))
  <2>2. a \in Seq(Phase)
    BY OutsideIsProgram
  <2>3. PICK m \in DOMAIN a : a[m] = p[i]
    <3>1. p[i] \notin DroppedReds(o)
      BY <1>3 DEF DroppedReds
    <3>. QED
      BY <2>1, <3>1
  <2>. HIDE DEF a
  <2>4. \E j \in DOMAIN Outside(a, DroppedWalks(o)) : Outside(a, DroppedWalks(o))[j] = a[m]
    <3>1. a[m] \notin DroppedWalks(o)
      BY <1>3, <2>3 DEF DroppedWalks
    <3>. QED
      BY <2>1, <2>2, <3>1
  <2>. QED
    BY <2>3, <2>4 DEF Kept, a
<1>5. q \in Seq(Phase)
  BY KeptIsClean
<1>. HIDE DEF q
<1>6. PICK j \in DOMAIN q : G(q[j])
  BY <1>1, <1>4
<1>7. \E m \in DOMAIN c : G(c[m])
  <2>. DEFINE Repeats(n) ==
                  LET role == RoleOf(q[n].state)
                      first == FirstWithRole(q, role)
                  IN /\ role \in {"main_green", "cross_green"} /\ first # n
                     /\ IsPedClearanceOf(q[n].state, q[first].state)
              dropped == {n \in DOMAIN q : Repeats(n)}
  <2>1. c = Without(q, dropped)
    BY DEF StripPedClearance
  <2>2. ASSUME NEW n \in DOMAIN q, n \notin dropped, G(q[n]) PROVE \E m \in DOMAIN c : G(c[m])
    <3>. HIDE DEF dropped, c
    <3>1. \E m \in DOMAIN Without(q, dropped) : Without(q, dropped)[m] = q[n]
      BY <1>5, <2>2, KeptPhases
    <3>. QED
      BY <2>1, <2>2, <3>1
  <2>3. CASE j \notin dropped
    <3>. HIDE DEF dropped, c
    <3>. QED
      BY <1>6, <2>2, <2>3
  <2>4. CASE j \in dropped
    <3>. DEFINE role == RoleOf(q[j].state)
                first == FirstWithRole(q, role)
    <3>1. IsPedClearanceOf(q[j].state, q[first].state)
      BY <2>4
    <3>2. first \in DOMAIN q /\ RoleOf(q[first].state) = role
      <4>1. HasRole(q, role)
        BY DEF HasRole
      <4>. HIDE DEF role
      <4>. QED
        BY <1>5, <4>1, FirstExists
    <3>3. first \notin dropped
      BY <3>2
    <3>. HIDE DEF dropped, c, first
    <3>4. l \notin PedestrianLinks
      BY DEF PedestrianLinks
    <3>5. q[j].state[l] = q[first].state[l]
      BY <1>2, <3>1, <3>4 DEF IsPedClearanceOf
    <3>6. G(q[first])
      BY <1>6, <3>5 DEF Greens
    <3>. QED
      BY <2>2, <3>2, <3>3, <3>6
  <2>. QED
    BY <2>3, <2>4
<1>8. c \in Seq(Phase)
  BY <1>5, ClearanceStripped
<1>. HIDE DEF c
<1>9. PICK m \in DOMAIN c : G(c[m])
  BY <1>7
<1>10. G(s[m]) /\ m \in DOMAIN s
  <2>1. /\ s \in Seq(Phase) /\ Len(s) = Len(c)
        /\ \A n \in DOMAIN c : \A k \in Links :
               s[n].state[k] = IF k \in PedestrianLinks /\ c[n].state[k] \in {"G", "g"}
                               THEN "r" ELSE c[n].state[k]
    BY <1>8, CrossingsDisabled
  <2>. HIDE DEF s
  <2>2. l \notin PedestrianLinks /\ DOMAIN s = DOMAIN c
    BY <1>8, <2>1 DEF PedestrianLinks
  <2>. QED
    BY <1>2, <1>9, <2>1, <2>2 DEF Greens
<1>11. Stripped(p, o) = IF "pedestrian" \in DOMAIN o THEN s ELSE q
  BY StrippedIs DEF s, c, q
<1>. HIDE DEF s
<1>. QED
  BY <1>6, <1>10, <1>11

LEMMA VehiclesKept ==
    ASSUME NEW p \in Seq(Phase), ServesVehicles(p), NEW o, IsOverrides(o),
           ApplyPhaseProgram(p, o) # Failed
    PROVE  LET r == ApplyPhaseProgram(p, o)
           IN /\ \A l \in VehicleLinks : GreenPhases(r, {l}) # {}
              /\ "pedestrian" \in DOMAIN o =>
                     \A i \in DOMAIN r : Greens(r[i].state) \cap PedestrianLinks # {} =>
                         Greens(r[i].state) \cap VehicleLinks = {}
<1>. DEFINE s == Stripped(p, o)
            d == Timed(p, o)
            r == ApplyPhaseProgram(p, o)
<1>1. /\ d \in Seq(Phase) /\ s \in Seq(Phase) /\ Len(d) = Len(s)
      /\ \A i \in DOMAIN s : d[i].state = s[i].state
      /\ "pedestrian" \in DOMAIN o =>
             \A i \in DOMAIN d : \A l \in PedestrianLinks : d[i].state[l] \notin {"G", "g"}
  BY TimedIsClean
<1>2. /\ r \in Seq(Phase)
      /\ \A i \in DOMAIN d : \E j \in DOMAIN r : r[j] = d[i]
      /\ \A j \in DOMAIN r :
             \/ \E i \in DOMAIN d : r[j] = d[i]
             \/ r[j].state \in {AllRedPhase(0).state, PedestrianPhase(0).state}
  BY InsertionsKeep
<1>3. ASSUME NEW l \in VehicleLinks PROVE GreenPhases(r, {l}) # {}
  <2>1. PICK i \in DOMAIN s : l \in Greens(s[i].state)
    BY StrippedServesVehicles
  <2>. HIDE DEF s, d, r
  <2>2. i \in DOMAIN d /\ d[i].state = s[i].state
    BY <1>1
  <2>3. PICK j \in DOMAIN r : r[j] = d[i]
    BY <1>2, <2>2
  <2>4. j \in PhaseIndices(r) /\ Greens(r[j].state) \cap {l} # {}
    BY <1>2, <2>1, <2>2, <2>3 DEF PhaseIndices
  <2>. QED
    BY <2>4 DEF GreenPhases
<1>4. ASSUME "pedestrian" \in DOMAIN o, NEW i \in DOMAIN r,
             Greens(r[i].state) \cap PedestrianLinks # {}
      PROVE  Greens(r[i].state) \cap VehicleLinks = {}
  <2>. HIDE DEF s, d, r
  <2>1. CASE \E j \in DOMAIN d : r[i] = d[j]
    BY <1>1, <1>4, <2>1 DEF Greens
  <2>2. CASE r[i].state \in {AllRedPhase(0).state, PedestrianPhase(0).state}
    <3>1. \A l \in VehicleLinks : PedestrianPhase(0).state[l] = "r"
      BY PedestrianWalks
    <3>2. \A l \in VehicleLinks : AllRedPhase(0).state[l] = "r"
      BY LinksOfTheRoles DEF AllRedPhase
    <3>. QED
      BY <2>2, <3>1, <3>2 DEF Greens
  <2>. QED
    BY <1>2, <2>1, <2>2
<1>. QED
  BY <1>3, <1>4

-----------------------------------------------------------------------------
(* Cycles and totals as sums.                                                *)

LEMMA CycleIsASum ==
    ASSUME NEW p \in Seq(Phase)
    PROVE  \E sum : /\ SumsOf([i \in DOMAIN p |-> p[i].duration], DOMAIN p, sum)
                    /\ CycleOf(p) = sum[DOMAIN p]
<1>. DEFINE S == DOMAIN p
            times == [i \in S |-> p[i].duration]
            Body(sum, s) == IF s = {} THEN 0
                            ELSE LET i == CHOOSE i \in s : TRUE
                                 IN sum[s \ {i}] + p[i].duration
            Term(sum, s) == IF s = {} THEN 0 ELSE times[First(s)] + sum[s \ {First(s)}]
            Iterates(sum) == sum = [s \in SUBSET S |-> Body(sum, s)]
            total == CHOOSE sum : Iterates(sum)
<1>1. IsFiniteSet(S)
  <2>1. S = 1 .. Len(p) /\ Len(p) \in Int
    OBVIOUS
  <2>. QED
    BY <2>1, FS_Interval
<1>2. \A i \in S : times[i] = p[i].duration /\ times[i] \in Int
  <2>1. \A i \in S : p[i] \in Phase
    OBVIOUS
  <2>. QED
    BY <2>1 DEF Phase
<1>3. CycleOf(p) = total[S]
  BY DEF CycleOf, FoldSeq, FoldFunction, FoldFunctionOnSet, MapThenFoldSet
<1>. HIDE DEF times, S
<1>4. PICK a \in [SUBSET S -> Int] : SumsOf(times, S, a)
  BY <1>1, <1>2, SumsExist
<1>5. \A s \in SUBSET S : s # {} => First(s) \in s
  BY DEF First
<1>6. ASSUME NEW sum \in [SUBSET S -> Int], NEW s \in SUBSET S PROVE Body(sum, s) = Term(sum, s)
  <2>1. CASE s = {}
    BY <2>1
  <2>2. CASE s # {}
    <3>. DEFINE i == First(s)
                rest == s \ {i}
    <3>1. i \in S /\ rest \in SUBSET S
      BY <1>5, <2>2
    <3>2. Body(sum, s) = sum[rest] + p[i].duration /\ Term(sum, s) = times[i] + sum[rest]
      BY <2>2 DEF First
    <3>. HIDE DEF Body, Term, i, rest
    <3>. QED
      BY <1>2, <3>1, <3>2
  <2>. QED
    BY <2>1, <2>2
<1>7. ASSUME NEW sum, Iterates(sum) PROVE sum \in [SUBSET S -> Int]
  <2>. DEFINE T == {s \in SUBSET S : sum[s] \in Int}
  <2>1. \A s \in SUBSET S : sum[s] = Body(sum, s)
    BY <1>7
  <2>2. {} \in T
    <3>1. {} \in SUBSET S /\ Body(sum, {}) = 0
      OBVIOUS
    <3>2. sum[{}] = 0
      <4>. HIDE DEF Body
      <4>. QED
        BY <2>1, <3>1, Zenon
    <3>. QED
      BY <3>1, <3>2
  <2>3. ASSUME NEW s \in SUBSET S, s # {}, \A x \in s : s \ {x} \in T PROVE s \in T
    <3>1. sum[s] = sum[s \ {First(s)}] + p[First(s)].duration
      BY <2>1, <2>3 DEF First
    <3>2. First(s) \in s
      BY <1>5, <2>3
    <3>3. sum[s \ {First(s)}] \in Int /\ p[First(s)].duration \in Int
      BY <1>2, <2>3, <3>2
    <3>. QED
      BY <3>1, <3>3
  <2>. HIDE DEF T
  <2>4. SUBSET S \subseteq T
    BY <1>1, <2>2, <2>3, FiniteSetInduction
  <2>5. \A s \in SUBSET S : sum[s] \in Int
    BY <2>4 DEF T
  <2>6. sum = [s \in SUBSET S |-> sum[s]]
    BY <1>7
  <2>. QED
    BY <2>5, <2>6
<1>8. ASSUME NEW sum \in [SUBSET S -> Int] PROVE Iterates(sum) <=> SumsOf(times, S, sum)
  <2>1. \A s \in SUBSET S : Body(sum, s) = Term(sum, s)
    BY <1>6
  <2>2. SumsOf(times, S, sum) <=> sum = [s \in SUBSET S |-> Term(sum, s)]
    BY DEF SumsOf
  <2>. HIDE DEF Body, Term
  <2>3. [s \in SUBSET S |-> Body(sum, s)] = [s \in SUBSET S |-> Term(sum, s)]
    BY <2>1
  <2>. QED
    BY <2>2, <2>3
<1>. HIDE DEF Iterates
<1>9. Iterates(total)
  BY <1>4, <1>8
<1>10. SumsOf(times, S, total)
  BY <1>7, <1>8, <1>9
<1>. HIDE DEF total
<1>. QED
  BY <1>3, <1>10 DEF times, S

LEMMA TotalIsASum ==
    ASSUME NEW f, IsFiniteSet(DOMAIN f), \A role \in DOMAIN f : f[role] \in Int
    PROVE  \E sum : SumsOf(f, DOMAIN f, sum) /\ Total(f) = sum[DOMAIN f]
<1>. DEFINE S == DOMAIN f
            Body(sum, s) == IF s = {} THEN 0
                            ELSE LET x == CHOOSE x \in s : TRUE IN f[x] + sum[s \ {x}]
            Iterates(sum) == sum = [s \in SUBSET S |-> Body(sum, s)]
            total == CHOOSE sum : Iterates(sum)
<1>1. Total(f) = total[S]
  BY DEF Total, MapThenSumSet, MapThenFoldSet
<1>2. \A sum : Iterates(sum) <=> SumsOf(f, S, sum)
  BY DEF SumsOf, First
<1>3. \E sum : SumsOf(f, S, sum)
  BY SumsExist
<1>. HIDE DEF Iterates
<1>4. SumsOf(f, S, total)
  BY <1>2, <1>3
<1>. QED
  BY <1>1, <1>4

\* The cycle, phase by phase.
LEMMA CycleSteps ==
    ASSUME NEW p \in Seq(Phase)
    PROVE  \E F : /\ F[0] = 0 /\ CycleOf(p) = F[Len(p)]
                  /\ \A i \in 0 .. Len(p) : F[i] \in Int
                  /\ \A i \in 1 .. Len(p) : F[i] = F[i - 1] + p[i].duration
<1>. DEFINE n == Len(p)
            S == 1 .. n
            times == [i \in DOMAIN p |-> p[i].duration]
            upto == [i \in 0 .. n |-> 1 .. i]
<1>1. n \in Nat /\ DOMAIN p = S /\ \A i \in S : p[i] \in Phase
  OBVIOUS
<1>2. PICK sum : SumsOf(times, S, sum) /\ CycleOf(p) = sum[S]
  BY <1>1, CycleIsASum
<1>3. \A i \in S : times[i] = p[i].duration /\ times[i] \in Int
  BY <1>1 DEF Phase
<1>. HIDE DEF times, n
<1>4. IsFiniteSet(S)
  BY <1>1, FS_Interval
<1>5. sum \in [SUBSET S -> Int]
  BY <1>2, <1>3, <1>4, SumsAreNumbers
<1>6. /\ \A i \in 0 .. n : upto[i] \in SUBSET S
      /\ upto[0] = {} /\ upto[n] = S
      /\ \A i \in 1 .. n : i \in upto[i] /\ upto[i] \ {i} = upto[i - 1]
  BY <1>1
<1>. DEFINE F == [i \in 0 .. n |-> sum[upto[i]]]
<1>7. F[0] = 0
  <2>1. sum[{}] = 0
    BY <1>2 DEF SumsOf
  <2>. QED
    BY <1>1, <1>6, <2>1
<1>8. CycleOf(p) = F[n]
  BY <1>1, <1>2, <1>6
<1>9. \A i \in 0 .. n : F[i] \in Int
  BY <1>5, <1>6
<1>. HIDE DEF S, upto
<1>10. ASSUME NEW i \in 1 .. n PROVE F[i] = F[i - 1] + p[i].duration
  <2>. DEFINE s == upto[i]
              j == i - 1
  <2>1. s \in SUBSET S /\ i \in s /\ s \ {i} = upto[j] /\ i \in 0 .. n /\ j \in 0 .. n /\ i \in S
    BY <1>1, <1>6 DEF S
  <2>2. sum[s] = times[i] + sum[upto[j]]
    <3>. DEFINE r == upto[j]
    <3>. HIDE DEF s, r
    <3>1. \A x \in S : times[x] \in Int
      BY <1>3
    <3>2. \A u \in SUBSET S, v \in SUBSET S : \A y \in u :
              v = u \ {y} => sum[u] = times[y] + sum[v]
      BY <1>2, <1>4, <3>1, SumWithout
    <3>3. r \in SUBSET S /\ r = s \ {i}
      BY <1>1, <1>6, <2>1 DEF r, S
    <3>4. sum[s] = times[i] + sum[r]
      BY <2>1, <3>2, <3>3, SMT
    <3>. QED
      BY <3>4 DEF r
  <2>3. F[i] = sum[s] /\ F[j] = sum[upto[j]]
    BY <2>1
  <2>4. F[i] \in Int /\ F[j] \in Int /\ times[i] = p[i].duration /\ times[i] \in Int
    BY <1>3, <1>9, <2>1
  <2>. HIDE DEF s, F, j
  <2>6. F[i] = times[i] + F[j]
    BY <2>2, <2>3, Zenon
  <2>7. F[i] = F[j] + p[i].duration
    BY <2>4, <2>6
  <2>. QED
    BY <2>7 DEF j
<1>. HIDE DEF F
<1>. QED
  BY <1>7, <1>8, <1>9, <1>10 DEF n

\* An insertion lengthens the cycle by what it inserts.
LEMMA CycleInserted ==
    ASSUME NEW p, NEW q, NEW x \in Phase, NEW k, Inserts(p, q, x, k)
    PROVE  CycleOf(q) = CycleOf(p) + x.duration
<1>1. /\ p \in Seq(Phase) /\ q \in Seq(Phase)
      /\ Len(q) = Len(p) + 1 /\ k \in 0 .. Len(p)
      /\ \A i \in 1 .. Len(q) :
             q[i] = IF i <= k THEN p[i] ELSE IF i = k + 1 THEN x ELSE p[i - 1]
  BY InsertedPhases
<1>. DEFINE n == Len(p)
<1>2. PICK F : /\ F[0] = 0 /\ CycleOf(p) = F[n]
               /\ \A i \in 0 .. n : F[i] \in Int
               /\ \A i \in 1 .. n : F[i] = F[i - 1] + p[i].duration
  BY <1>1, CycleSteps
<1>3. PICK H : /\ H[0] = 0 /\ CycleOf(q) = H[n + 1]
               /\ \A i \in 0 .. n + 1 : H[i] \in Int
               /\ \A i \in 1 .. n + 1 : H[i] = H[i - 1] + q[i].duration
  <2>. DEFINE m == Len(q)
  <2>1. \E H : /\ H[0] = 0 /\ CycleOf(q) = H[m]
               /\ \A i \in 0 .. m : H[i] \in Int
               /\ \A i \in 1 .. m : H[i] = H[i - 1] + q[i].duration
    BY <1>1, CycleSteps
  <2>2. m = n + 1
    BY <1>1
  <2>. HIDE DEF m, n
  <2>. QED
    BY <2>1, <2>2
<1>4. n \in Nat /\ k \in 0 .. n /\ x.duration \in Int
  BY <1>1 DEF Phase
<1>5. \A i \in 1 .. n : p[i] \in Phase /\ p[i].duration \in Int
  <2>1. \A i \in 1 .. n : p[i] \in Phase
    BY <1>1
  <2>. QED
    BY <2>1 DEF Phase
<1>6. \A i \in 1 .. n + 1 : q[i] = IF i <= k THEN p[i] ELSE IF i = k + 1 THEN x ELSE p[i - 1]
  BY <1>1
<1>. HIDE DEF n
<1>. DEFINE Is(i) == IF i <= k THEN H[i] = F[i] ELSE H[i] = F[i - 1] + x.duration
            T == {i \in Nat : i <= n + 1 => Is(i)}
<1>7. 0 \in T
  BY <1>2, <1>3, <1>4
<1>8. ASSUME NEW i \in Nat, i \in T PROVE i + 1 \in T
  <2>. DEFINE j == i + 1
  <2>. SUFFICES ASSUME j <= n + 1 PROVE Is(j)
    OBVIOUS
  <2>1. j \in 1 .. n + 1 /\ j - 1 = i /\ i \in 0 .. n /\ Is(i)
    BY <1>4, <1>8
  <2>2. H[j] = H[i] + q[j].duration
    BY <1>3, <2>1
  <2>3. F[i] \in Int /\ H[i] \in Int
    BY <1>2, <1>3, <2>1, <1>4
  <2>4. CASE j <= k
    <3>1. j \in 1 .. n /\ i <= k
      BY <1>4, <2>1, <2>4
    <3>2. F[j] = F[i] + p[j].duration /\ q[j] = p[j] /\ H[i] = F[i]
      BY <1>2, <1>6, <2>1, <2>4, <3>1
    <3>. HIDE DEF j
    <3>. QED
      BY <2>2, <2>4, <3>2
  <2>5. CASE j = k + 1
    <3>1. i <= k /\ ~(j <= k)
      BY <1>4, <2>1, <2>5
    <3>2. q[j] = x /\ H[i] = F[i]
      BY <1>6, <2>1, <2>5, <3>1
    <3>3. H[j] = F[i] + x.duration
      BY <2>2, <3>2
    <3>. HIDE DEF j
    <3>. QED
      BY <2>1, <3>1, <3>3
  <2>6. CASE ~(j <= k) /\ j # k + 1
    <3>. DEFINE h == i - 1
    <3>1. i \in 1 .. n /\ ~(i <= k) /\ h \in 0 .. n
      BY <1>4, <2>1, <2>6
    <3>2. q[j] = p[i] /\ H[i] = F[h] + x.duration
      BY <1>6, <2>1, <2>6, <3>1
    <3>3. F[i] = F[h] + p[i].duration /\ p[i].duration \in Int /\ F[h] \in Int
      BY <1>2, <1>5, <3>1
    <3>. HIDE DEF h
    <3>4. H[j] = F[i] + x.duration
      BY <1>4, <2>2, <2>3, <3>2, <3>3
    <3>. HIDE DEF j
    <3>. QED
      BY <2>1, <2>6, <3>4
  <2>. QED
    BY <2>4, <2>5, <2>6
<1>. HIDE DEF T
<1>9. n + 1 \in T
  BY <1>4, <1>7, <1>8, NatSetInduction
<1>10. n + 1 <= n + 1 /\ ~(n + 1 <= k) /\ n + 1 - 1 = n
  BY <1>4
<1>11. Is(n + 1)
  BY <1>9, <1>10, Zenon DEF T
<1>12. H[n + 1] = F[n] + x.duration
  <2>. DEFINE m == n + 1
              h == m - 1
  <2>1. ~(m <= k) /\ h = n
    BY <1>4
  <2>2. IF m <= k THEN H[m] = F[m] ELSE H[m] = F[h] + x.duration
    BY <1>11
  <2>. HIDE DEF m, h
  <2>3. H[m] = F[n] + x.duration
    BY <2>1, <2>2
  <2>. QED
    BY <2>3 DEF m
<1>. QED
  BY <1>2, <1>3, <1>12

\* What durations give to a role.
Given(f, role) == IF role \in DOMAIN f THEN f[role] ELSE 0

LEMMA SumSplit ==
    ASSUME NEW S, IsFiniteSet(S), NEW f, \A x \in S : f[x] \in Int, DOMAIN f = S,
           NEW sum, SumsOf(f, S, sum), NEW s \in SUBSET S, NEW role
    PROVE  sum[s] = (IF role \in s THEN Given(f, role) ELSE 0) + sum[s \ {role}]
<1>. DEFINE r == s \ {role}
<1>1. r \in SUBSET S
  OBVIOUS
<1>2. sum \in [SUBSET S -> Int]
  BY SumsAreNumbers
<1>3. CASE role \in s
  <2>1. r = s \ {role}
    OBVIOUS
  <2>. HIDE DEF r
  <2>2. \A u \in SUBSET S, v \in SUBSET S : \A y \in u : v = u \ {y} => sum[u] = f[y] + sum[v]
    BY SumWithout
  <2>3. sum[s] = f[role] + sum[r]
    BY <1>1, <1>3, <2>1, <2>2, SMT
  <2>. QED
    BY <1>3, <2>1, <2>3 DEF Given
<1>4. CASE role \notin s
  <2>1. r = s
    BY <1>4
  <2>2. sum[s] \in Int
    BY <1>2
  <2>. HIDE DEF r
  <2>3. sum[s] = 0 + sum[r]
    BY <2>1, <2>2
  <2>. QED
    BY <1>4, <2>3 DEF r
<1>. QED
  BY <1>3, <1>4

LEMMA TotalOfRoles ==
    ASSUME NEW f, DOMAIN f \subseteq OverrideRoles, \A role \in DOMAIN f : f[role] \in Int
    PROVE  /\ Total(f) = Given(f, "main_green") + Given(f, "main_yellow")
                           + Given(f, "cross_green") + Given(f, "cross_yellow")
                           + Given(f, "all_red_main_to_cross") + Given(f, "all_red_cross_to_main")
                           + Given(f, "pedestrian") + Given(f, "all_red_ped_to_main")
           /\ \A role : Given(f, role) \in Int
<1>. DEFINE S == DOMAIN f
            a == S \ {"main_green"}
            b == a \ {"main_yellow"}
            c == b \ {"cross_green"}
            d == c \ {"cross_yellow"}
            e == d \ {"all_red_main_to_cross"}
            g == e \ {"all_red_cross_to_main"}
            h == g \ {"pedestrian"}
            k == h \ {"all_red_ped_to_main"}
<1>1. IsFiniteSet(S)
  <2>1. IsFiniteSet(OverrideRoles)
    <3>0. ASSUME NEW u, NEW v PROVE IsFiniteSet({u, v})
      <4>1. IsFiniteSet({u}) /\ IsFiniteSet({v}) /\ {u, v} = {u} \cup {v}
        BY FS_Singleton
      <4>. QED
        BY <4>1, FS_Union
    <3>1. IsFiniteSet({"main_green", "main_yellow"}) /\ IsFiniteSet({"cross_green", "cross_yellow"})
      BY <3>0
    <3>2. IsFiniteSet(AllRedRoles) /\ IsFiniteSet({"pedestrian", "all_red_ped_to_main"})
      BY <3>0 DEF AllRedRoles
    <3>3. OverrideRoles = {"main_green", "main_yellow"} \cup {"cross_green", "cross_yellow"}
                            \cup AllRedRoles \cup {"pedestrian", "all_red_ped_to_main"}
      BY DEF OverrideRoles, GreenAndYellowRoles
    <3>. QED
      BY <3>1, <3>2, <3>3, FS_Union
  <2>. QED
    BY <2>1, FS_Subset
<1>2. \A x \in S : f[x] \in Int
  OBVIOUS
<1>3. \A role : Given(f, role) \in Int
  BY <1>2 DEF Given
<1>4. PICK sum : SumsOf(f, S, sum) /\ Total(f) = sum[S]
  BY <1>1, <1>2, TotalIsASum
<1>5. sum \in [SUBSET S -> Int]
  BY <1>1, <1>2, <1>4, SumsAreNumbers
<1>6. /\ a \in SUBSET S /\ b \in SUBSET S /\ c \in SUBSET S /\ d \in SUBSET S
      /\ e \in SUBSET S /\ g \in SUBSET S /\ h \in SUBSET S /\ S \in SUBSET S
      /\ k = {}
  BY DEF OverrideRoles, GreenAndYellowRoles, AllRedRoles
<1>0. /\ a = S \ {"main_green"} /\ b = a \ {"main_yellow"}
      /\ c = b \ {"cross_green"} /\ d = c \ {"cross_yellow"}
      /\ e = d \ {"all_red_main_to_cross"} /\ g = e \ {"all_red_cross_to_main"}
      /\ h = g \ {"pedestrian"} /\ k = h \ {"all_red_ped_to_main"}
  OBVIOUS
<1>7. /\ "main_yellow" \in S <=> "main_yellow" \in a
      /\ "cross_green" \in S <=> "cross_green" \in b
      /\ "cross_yellow" \in S <=> "cross_yellow" \in c
      /\ "all_red_main_to_cross" \in S <=> "all_red_main_to_cross" \in d
      /\ "all_red_cross_to_main" \in S <=> "all_red_cross_to_main" \in e
      /\ "pedestrian" \in S <=> "pedestrian" \in g
      /\ "all_red_ped_to_main" \in S <=> "all_red_ped_to_main" \in h
  OBVIOUS
<1>8. ASSUME NEW s \in SUBSET S, NEW role, NEW r, r = s \ {role}, role \in S <=> role \in s
      PROVE  sum[s] = Given(f, role) + sum[r]
  <2>1. sum[s] = (IF role \in s THEN Given(f, role) ELSE 0) + sum[s \ {role}]
    BY <1>1, <1>2, <1>4, SumSplit
  <2>2. sum[s] = (IF role \in s THEN Given(f, role) ELSE 0) + sum[r]
    BY <1>8, <2>1, Zenon
  <2>3. ~(role \in s) => Given(f, role) = 0
    BY <1>8 DEF Given
  <2>. QED
    BY <2>2, <2>3
<1>. HIDE DEF S, a, b, c, d, e, g, h, k
<1>9. /\ sum[S] = Given(f, "main_green") + sum[a]
      /\ sum[a] = Given(f, "main_yellow") + sum[b]
      /\ sum[b] = Given(f, "cross_green") + sum[c]
      /\ sum[c] = Given(f, "cross_yellow") + sum[d]
  <2>1. sum[S] = Given(f, "main_green") + sum[a]
    BY <1>0, <1>6, <1>8
  <2>2. sum[a] = Given(f, "main_yellow") + sum[b]
    BY <1>0, <1>6, <1>7, <1>8
  <2>3. sum[b] = Given(f, "cross_green") + sum[c]
    BY <1>0, <1>6, <1>7, <1>8
  <2>4. sum[c] = Given(f, "cross_yellow") + sum[d]
    BY <1>0, <1>6, <1>7, <1>8
  <2>. QED
    BY <2>1, <2>2, <2>3, <2>4
<1>10. /\ sum[d] = Given(f, "all_red_main_to_cross") + sum[e]
       /\ sum[e] = Given(f, "all_red_cross_to_main") + sum[g]
       /\ sum[g] = Given(f, "pedestrian") + sum[h]
       /\ sum[h] = Given(f, "all_red_ped_to_main") + sum[k]
  <2>1. sum[d] = Given(f, "all_red_main_to_cross") + sum[e]
    BY <1>0, <1>6, <1>7, <1>8
  <2>2. sum[e] = Given(f, "all_red_cross_to_main") + sum[g]
    BY <1>0, <1>6, <1>7, <1>8
  <2>3. sum[g] = Given(f, "pedestrian") + sum[h]
    BY <1>0, <1>6, <1>7, <1>8
  <2>4. sum[h] = Given(f, "all_red_ped_to_main") + sum[k]
    BY <1>0, <1>6, <1>7, <1>8
  <2>. QED
    BY <2>1, <2>2, <2>3, <2>4
<1>11. sum[k] = 0
  <2>1. sum[{}] = 0
    BY <1>4 DEF SumsOf
  <2>. QED
    BY <1>6, <2>1, Zenon
<1>12. /\ sum[a] \in Int /\ sum[b] \in Int /\ sum[c] \in Int /\ sum[d] \in Int
       /\ sum[e] \in Int /\ sum[g] \in Int /\ sum[h] \in Int
  BY <1>5, <1>6
<1>. QED
  BY <1>3, <1>4, <1>9, <1>10, <1>11, <1>12

\* The clearance is carved out, never added.
LEMMA TotalCarved ==
    ASSUME NEW s \in TlsPrograms, BuildTlsOffsets(s.program, s.cycle) # Failed
    PROVE  Total(BuildTlsOffsets(s.program, s.cycle)) = Total(s.program)
<1>. DEFINE p == s.program
            o == CarveClearance(p)
<1>1. IsOverrides(o) /\ BuildTlsOffsets(p, s.cycle) = o
  BY OverridesBuilt
<1>2. DOMAIN p \subseteq OverrideRoles \ {"all_red_ped_to_main"}
      /\ \A role \in DOMAIN p : p[role] \in Int
  BY ProgramsAssumption DEF ScenarioRoles, OverrideRoles, GreenAndYellowRoles, AllRedRoles
<1>3. DOMAIN o \subseteq OverrideRoles /\ \A role \in DOMAIN o : o[role] \in Int
  BY <1>1 DEF IsOverrides
<1>4. DOMAIN p \subseteq OverrideRoles
  BY <1>2
<1>5. CASE ~({"pedestrian", "all_red_cross_to_main"} \subseteq DOMAIN p)
  BY <1>1, <1>5 DEF CarveClearance, Carved
<1>6. CASE {"pedestrian", "all_red_cross_to_main"} \subseteq DOMAIN p
  <2>1. /\ DOMAIN o = DOMAIN p \cup {"all_red_ped_to_main"}
        /\ \A role \in DOMAIN o :
               o[role] = CASE role = "pedestrian" -> p.pedestrian - p.all_red_cross_to_main
                           [] role = "all_red_ped_to_main" -> p.all_red_cross_to_main
                           [] OTHER -> p[role]
    BY <1>6 DEF CarveClearance, Carved
  <2>. HIDE DEF o, p
  <2>2. \A role \in DOMAIN o \ {"pedestrian", "all_red_ped_to_main"} : o[role] = p[role]
    BY <2>1
  <2>3. \A role : role \notin {"pedestrian", "all_red_ped_to_main"} => Given(o, role) = Given(p, role)
    BY <2>1, <2>2 DEF Given
  <2>4. /\ Given(o, "main_green") = Given(p, "main_green")
        /\ Given(o, "main_yellow") = Given(p, "main_yellow")
        /\ Given(o, "cross_green") = Given(p, "cross_green")
        /\ Given(o, "cross_yellow") = Given(p, "cross_yellow")
        /\ Given(o, "all_red_main_to_cross") = Given(p, "all_red_main_to_cross")
        /\ Given(o, "all_red_cross_to_main") = Given(p, "all_red_cross_to_main")
    BY <2>3
  <2>5. /\ Given(o, "pedestrian") = p.pedestrian - p.all_red_cross_to_main
        /\ Given(o, "all_red_ped_to_main") = p.all_red_cross_to_main
        /\ Given(p, "pedestrian") = p.pedestrian
        /\ Given(p, "all_red_ped_to_main") = 0
        /\ p.pedestrian \in Int /\ p.all_red_cross_to_main \in Int
    BY <1>2, <1>6, <2>1 DEF Given
  <2>6. Total(o) = Given(o, "main_green") + Given(o, "main_yellow")
                           + Given(o, "cross_green") + Given(o, "cross_yellow")
                           + Given(o, "all_red_main_to_cross") + Given(o, "all_red_cross_to_main")
                           + Given(o, "pedestrian") + Given(o, "all_red_ped_to_main")
    BY <1>3, TotalOfRoles
  <2>7. /\ Total(p) = Given(p, "main_green") + Given(p, "main_yellow")
                           + Given(p, "cross_green") + Given(p, "cross_yellow")
                           + Given(p, "all_red_main_to_cross") + Given(p, "all_red_cross_to_main")
                           + Given(p, "pedestrian") + Given(p, "all_red_ped_to_main")
        /\ \A role : Given(p, role) \in Int
    BY <1>2, <1>4, TotalOfRoles
  <2>8. Total(o) = Total(p)
    BY <2>4, <2>5, <2>6, <2>7
  <2>. QED
    BY <1>1, <2>8 DEF p, o
<1>. QED
  BY <1>5, <1>6

-----------------------------------------------------------------------------
(* The cycle of the overridden program.                                     *)

LEMMA OneIndex ==
    ASSUME NEW p \in Seq(Phase), NEW role
    PROVE  ExactlyOne(p, role) <=>
               \E i \in DOMAIN p : \A j \in DOMAIN p : RoleOf(p[j].state) = role <=> j = i
<1>. DEFINE T == {i \in DOMAIN p : RoleOf(p[i].state) = role}
<1>1. IsFiniteSet(T)
  <2>1. DOMAIN p = 1 .. Len(p) /\ Len(p) \in Int
    OBVIOUS
  <2>2. IsFiniteSet(1 .. Len(p)) /\ T \subseteq 1 .. Len(p)
    BY <2>1, FS_Interval
  <2>. QED
    BY <2>2, FS_Subset
<1>2. ExactlyOne(p, role) <=> Cardinality(T) = 1
  BY DEF ExactlyOne
<1>3. ASSUME Cardinality(T) = 1
      PROVE  \E i \in DOMAIN p : \A j \in DOMAIN p : RoleOf(p[j].state) = role <=> j = i
  <2>1. PICK i : T = {i}
    BY <1>1, <1>3, FS_Singleton
  <2>2. \A j : j \in T <=> j = i
    BY <2>1
  <2>3. i \in DOMAIN p /\ \A j \in DOMAIN p : RoleOf(p[j].state) = role <=> j = i
    BY <2>2
  <2>. QED
    BY <2>3, Zenon
<1>4. ASSUME NEW i \in DOMAIN p, \A j \in DOMAIN p : RoleOf(p[j].state) = role <=> j = i
      PROVE  Cardinality(T) = 1
  <2>1. T = {i}
    BY <1>4
  <2>. HIDE DEF T
  <2>. QED
    BY <2>1, FS_Singleton
<1>. QED
  BY <1>2, <1>3, <1>4

\* What is there only once with an insertion is there only once without it.
LEMMA InsertedOnce ==
    ASSUME NEW p, NEW q, NEW x \in Phase, NEW k, Inserts(p, q, x, k),
           NEW role, HasRole(p, role), ExactlyOne(q, role)
    PROVE  ExactlyOne(p, role)
<1>1. /\ p \in Seq(Phase) /\ q \in Seq(Phase)
      /\ Len(q) = Len(p) + 1 /\ k \in 0 .. Len(p)
      /\ \A i \in 1 .. Len(q) :
             q[i] = IF i <= k THEN p[i] ELSE IF i = k + 1 THEN x ELSE p[i - 1]
  BY InsertedPhases
<1>. DEFINE At(i) == IF i <= k THEN i ELSE i + 1
<1>2. ASSUME NEW i \in DOMAIN p PROVE At(i) \in DOMAIN q /\ q[At(i)] = p[i]
  <2>1. CASE i <= k
    <3>1. i \in 1 .. Len(q)
      BY <1>1
    <3>. QED
      BY <1>1, <2>1, <3>1
  <2>2. CASE ~(i <= k)
    <3>. DEFINE j == i + 1
    <3>1. j \in 1 .. Len(q) /\ ~(j <= k) /\ j # k + 1 /\ j - 1 = i
      BY <1>1, <2>2
    <3>2. q[j] = p[j - 1]
      BY <1>1, <3>1
    <3>. HIDE DEF j
    <3>3. j \in DOMAIN q /\ q[j] = p[i]
      BY <1>1, <3>1, <3>2
    <3>. QED
      BY <2>2, <3>3 DEF j
  <2>. QED
    BY <2>1, <2>2
<1>3. \A i, j \in DOMAIN p : At(i) = At(j) => i = j
  BY <1>1
<1>. HIDE DEF At
<1>4. PICK n \in DOMAIN q : \A j \in DOMAIN q : RoleOf(q[j].state) = role <=> j = n
  <2>1. q \in Seq(Phase)
    BY <1>1
  <2>2. ExactlyOne(q, role) <=>
            \E n \in DOMAIN q : \A j \in DOMAIN q : RoleOf(q[j].state) = role <=> j = n
    BY <2>1, OneIndex
  <2>. QED
    BY <2>2, ZenonT(60)
<1>5. PICK i \in DOMAIN p : RoleOf(p[i].state) = role
  BY DEF HasRole
<1>6. At(i) = n
  BY <1>2, <1>4, <1>5
<1>7. ASSUME NEW j \in DOMAIN p PROVE RoleOf(p[j].state) = role <=> j = i
  <2>1. RoleOf(p[j].state) = role => At(j) = n
    BY <1>2, <1>4
  <2>. QED
    BY <1>3, <1>5, <1>6, <2>1
<1>. QED
  BY <1>1, <1>7, OneIndex

\* A program of one phase for each green and each yellow.
LEMMA FourPhasesCycle ==
    ASSUME NEW s \in Seq(Phase), NEW o, IsOverrides(o), GreenAndYellowRoles \subseteq DOMAIN o,
           \A i \in DOMAIN s : RoleOf(s[i].state) \in GreenAndYellowRoles,
           \A role \in GreenAndYellowRoles : ExactlyOne(s, role)
    PROVE  CycleOf(SetDurations(s, o)) = Given(o, "main_green") + Given(o, "main_yellow")
                                         + Given(o, "cross_green") + Given(o, "cross_yellow")
<1>. DEFINE d == SetDurations(s, o)
            S == DOMAIN d
            times == [i \in DOMAIN d |-> d[i].duration]
<1>1. /\ d \in Seq(Phase) /\ Len(d) = Len(s) /\ S = DOMAIN s
      /\ \A i \in DOMAIN s :
             LET role == RoleOf(s[i].state)
             IN d[i].duration = IF /\ role \in GreenAndYellowRoles \cap DOMAIN o
                                   /\ FirstWithRole(s, role) = i
                                THEN o[role] ELSE s[i].duration
  BY DurationsSet
<1>2. \A role \in GreenAndYellowRoles :
          \E i \in S : \A j \in S : RoleOf(s[j].state) = role <=> j = i
  <2>. HIDE DEF S
  <2>. QED
    BY <1>1, OneIndex, Zenon
<1>3. ASSUME NEW role \in GreenAndYellowRoles, NEW i \in S,
             \A j \in S : RoleOf(s[j].state) = role <=> j = i
      PROVE  times[i] = Given(o, role)
  <2>. HIDE DEF d
  <2>1. i \in DOMAIN s /\ \A j \in 1 .. (i - 1) : RoleOf(s[j].state) # role
    BY <1>1, <1>3
  <2>2. RoleOf(s[i].state) = role
    BY <1>3
  <2>3. FirstWithRole(s, role) = i
    BY <2>1, <2>2, FirstIs
  <2>4. role \in GreenAndYellowRoles \cap DOMAIN o
    OBVIOUS
  <2>5. d[i].duration = o[role]
    BY <1>1, <2>1, <2>2, <2>3, <2>4
  <2>. QED
    BY <2>4, <2>5 DEF Given
<1>. HIDE DEF d
<1>4. PICK a \in S : \A j \in S : RoleOf(s[j].state) = "main_green" <=> j = a
  BY <1>2 DEF GreenAndYellowRoles
<1>5. PICK b \in S : \A j \in S : RoleOf(s[j].state) = "main_yellow" <=> j = b
  BY <1>2 DEF GreenAndYellowRoles
<1>6. PICK c \in S : \A j \in S : RoleOf(s[j].state) = "cross_green" <=> j = c
  BY <1>2 DEF GreenAndYellowRoles
<1>7. PICK e \in S : \A j \in S : RoleOf(s[j].state) = "cross_yellow" <=> j = e
  BY <1>2 DEF GreenAndYellowRoles
<1>8. a # b /\ a # c /\ a # e /\ b # c /\ b # e /\ c # e
  <2>1. /\ RoleOf(s[a].state) = "main_green" /\ RoleOf(s[b].state) = "main_yellow"
        /\ RoleOf(s[c].state) = "cross_green" /\ RoleOf(s[e].state) = "cross_yellow"
    BY <1>4, <1>5, <1>6, <1>7
  <2>. QED
    BY <2>1
<1>9. S = {a, b, c, e}
  <2>1. \A j \in S : RoleOf(s[j].state) \in GreenAndYellowRoles
    BY <1>1
  <2>. QED
    BY <1>4, <1>5, <1>6, <1>7, <2>1 DEF GreenAndYellowRoles
<1>10. PICK sum : SumsOf(times, S, sum) /\ CycleOf(d) = sum[S]
  BY <1>1, CycleIsASum
<1>11. /\ times[a] = Given(o, "main_green") /\ times[b] = Given(o, "main_yellow")
       /\ times[c] = Given(o, "cross_green") /\ times[e] = Given(o, "cross_yellow")
  <2>. HIDE DEF S, times
  <2>. QED
    BY <1>3, <1>4, <1>5, <1>6, <1>7 DEF GreenAndYellowRoles
<1>12. \A x \in S : times[x] \in Int
  <2>1. \A i \in S : d[i] \in Phase
    BY <1>1
  <2>. QED
    BY <2>1 DEF Phase
<1>13. IsFiniteSet(S)
  BY <1>1, FS_Interval
<1>. HIDE DEF S, times
<1>14. \A u \in SUBSET S, v \in SUBSET S : \A y \in u : v = u \ {y} => sum[u] = times[y] + sum[v]
  BY <1>10, <1>12, <1>13, SumWithout
<1>. DEFINE T == {b, c, e}
            U == {c, e}
            V == {e}
<1>15. /\ T \in SUBSET S /\ U \in SUBSET S /\ V \in SUBSET S /\ S \in SUBSET S /\ {} \in SUBSET S
       /\ a \in S /\ T = S \ {a}
       /\ b \in T /\ U = T \ {b}
       /\ c \in U /\ V = U \ {c}
       /\ e \in V /\ {} = V \ {e}
  BY <1>8, <1>9
<1>. HIDE DEF T, U, V
<1>16. /\ sum[S] = times[a] + sum[T] /\ sum[T] = times[b] + sum[U]
       /\ sum[U] = times[c] + sum[V] /\ sum[V] = times[e] + sum[{}]
  <2>1. sum[S] = times[a] + sum[T]
    BY <1>14, <1>15
  <2>2. sum[T] = times[b] + sum[U]
    BY <1>14, <1>15
  <2>3. sum[U] = times[c] + sum[V]
    BY <1>14, <1>15
  <2>4. sum[V] = times[e] + sum[{}]
    BY <1>14, <1>15
  <2>. QED
    BY <2>1, <2>2, <2>3, <2>4
<1>17. sum[{}] = 0
  BY <1>10, <1>15 DEF SumsOf
<1>18. CycleOf(d) = times[a] + times[b] + times[c] + times[e]
  <2>1. times[a] \in Int /\ times[b] \in Int /\ times[c] \in Int /\ times[e] \in Int
    BY <1>4, <1>5, <1>6, <1>7, <1>12
  <2>. QED
    BY <1>10, <1>16, <1>17, <2>1
<1>. QED
  BY <1>11, <1>18 DEF d

\* What is put in lengthens the cycle by its override, and the green of each
\* street that is the only one is so without it.
LEMMA InsertionsLengthen ==
    ASSUME NEW p \in Seq(Phase), NEW o, IsOverrides(o), ApplyPhaseProgram(p, o) # Failed
    PROVE  LET d == Timed(p, o)
               r == ApplyPhaseProgram(p, o)
           IN /\ CycleOf(r) = CycleOf(d) + Given(o, "all_red_cross_to_main")
                                + Given(o, "all_red_main_to_cross")
                                + Given(o, "pedestrian") + Given(o, "all_red_ped_to_main")
              /\ CycleOf(d) \in Int
              /\ \A role : HasRole(d, role) /\ ExactlyOne(r, role) => ExactlyOne(d, role)
<1>. DEFINE d == Timed(p, o)
            r == ApplyPhaseProgram(p, o)
            Longer(a, b, v) ==
                /\ CycleOf(b) = CycleOf(a) + v
                /\ \A role : HasRole(a, role) =>
                       HasRole(b, role) /\ (ExactlyOne(b, role) => ExactlyOne(a, role))
<1>1. PICK cross, both, walked, k : Insertions(d, o, cross, both, walked, r, k)
  BY AppliedProgram
<1>2. d \in Seq(Phase)
  BY TimedIsClean
<1>3. \A role \in DOMAIN o : /\ AllRedPhase(o[role]) \in Phase
                             /\ AllRedPhase(o[role]).duration = Given(o, role)
  BY AllRedIsRed DEF IsOverrides, Reds, AllRedPhase, Given
<1>4. \A role \in DOMAIN o : /\ PedestrianPhase(o[role]) \in Phase
                             /\ PedestrianPhase(o[role]).duration = Given(o, role)
  BY PedestrianWalks DEF IsOverrides, PedestrianPhase, Given
<1>5. \A a \in Seq(Phase) : CycleOf(a) \in Int
  <2>1. ASSUME NEW a \in Seq(Phase) PROVE CycleOf(a) \in Int
    <3>1. PICK F : CycleOf(a) = F[Len(a)] /\ \A i \in 0 .. Len(a) : F[i] \in Int
      BY CycleSteps
    <3>2. Len(a) \in 0 .. Len(a)
      OBVIOUS
    <3>. QED
      BY <3>1, <3>2
  <2>. QED
    BY <2>1
<1>6. \A role : role \notin DOMAIN o => Given(o, role) = 0
  BY DEF Given
<1>. HIDE DEF d, r
<1>7. ASSUME NEW a, NEW b, NEW x \in Phase, NEW m, Inserts(a, b, x, m)
      PROVE  Longer(a, b, x.duration)
  <2>1. CycleOf(b) = CycleOf(a) + x.duration
    BY <1>7, CycleInserted
  <2>2. \A role : HasRole(a, role) => HasRole(b, role)
    BY <1>7, InsertedKeeps
  <2>3. \A role : HasRole(a, role) /\ ExactlyOne(b, role) => ExactlyOne(a, role)
    BY <1>7, InsertedOnce
  <2>. QED
    BY <2>1, <2>2, <2>3
<1>8. \A a \in Seq(Phase) : Longer(a, a, 0)
  BY <1>5
<1>9. /\ cross \in Seq(Phase) /\ both \in Seq(Phase) /\ walked \in Seq(Phase) /\ r \in Seq(Phase)
  BY <1>1 DEF Insertions
<1>. HIDE DEF Longer
<1>10. Longer(d, cross, Given(o, "all_red_cross_to_main"))
  <2>1. CASE "all_red_cross_to_main" \in DOMAIN o
    <3>1. Inserts(d, cross, AllRedPhase(o["all_red_cross_to_main"]), FirstWithRole(d, "cross_yellow"))
      BY <1>1, <2>1 DEF Insertions
    <3>. QED
      BY <1>3, <1>7, <2>1, <3>1, Zenon
  <2>2. CASE "all_red_cross_to_main" \notin DOMAIN o
    <3>1. cross = d
      BY <1>1, <2>2 DEF Insertions
    <3>. QED
      BY <1>2, <1>6, <1>8, <2>2, <3>1, Zenon
  <2>. QED
    BY <2>1, <2>2
<1>11. Longer(cross, both, Given(o, "all_red_main_to_cross"))
  <2>1. CASE "all_red_main_to_cross" \in DOMAIN o
    <3>1. Inserts(cross, both, AllRedPhase(o["all_red_main_to_cross"]),
                  FirstWithRole(cross, "main_yellow"))
      BY <1>1, <2>1 DEF Insertions
    <3>. QED
      BY <1>3, <1>7, <2>1, <3>1, Zenon
  <2>2. CASE "all_red_main_to_cross" \notin DOMAIN o
    <3>1. both = cross
      BY <1>1, <2>2 DEF Insertions
    <3>. QED
      BY <1>6, <1>8, <1>9, <2>2, <3>1, Zenon
  <2>. QED
    BY <2>1, <2>2
<1>12. Longer(both, walked, Given(o, "pedestrian"))
  <2>1. CASE "pedestrian" \in DOMAIN o
    <3>1. Inserts(both, walked, PedestrianPhase(o["pedestrian"]), k)
      BY <1>1, <2>1 DEF Insertions
    <3>. QED
      BY <1>4, <1>7, <2>1, <3>1, Zenon
  <2>2. CASE "pedestrian" \notin DOMAIN o
    <3>1. walked = both
      BY <1>1, <2>2 DEF Insertions
    <3>. QED
      BY <1>6, <1>8, <1>9, <2>2, <3>1, Zenon
  <2>. QED
    BY <2>1, <2>2
<1>13. Longer(walked, r, Given(o, "all_red_ped_to_main"))
  <2>1. CASE "all_red_ped_to_main" \in DOMAIN o
    <3>1. Inserts(walked, r, AllRedPhase(o["all_red_ped_to_main"]), k + 1)
      BY <1>1, <2>1 DEF Insertions
    <3>. QED
      BY <1>3, <1>7, <2>1, <3>1, Zenon
  <2>2. CASE "all_red_ped_to_main" \notin DOMAIN o
    <3>1. r = walked
      BY <1>1, <2>2 DEF Insertions
    <3>. QED
      BY <1>6, <1>8, <1>9, <2>2, <3>1, Zenon
  <2>. QED
    BY <2>1, <2>2
<1>14. /\ CycleOf(cross) = CycleOf(d) + Given(o, "all_red_cross_to_main")
       /\ CycleOf(both) = CycleOf(cross) + Given(o, "all_red_main_to_cross")
       /\ CycleOf(walked) = CycleOf(both) + Given(o, "pedestrian")
       /\ CycleOf(r) = CycleOf(walked) + Given(o, "all_red_ped_to_main")
  BY <1>10, <1>11, <1>12, <1>13 DEF Longer
<1>15. ASSUME NEW role, HasRole(d, role), ExactlyOne(r, role) PROVE ExactlyOne(d, role)
  BY <1>10, <1>11, <1>12, <1>13, <1>15 DEF Longer
<1>16. CycleOf(d) \in Int
  BY <1>2, <1>5
<1>17. CycleOf(r) = CycleOf(d) + Given(o, "all_red_cross_to_main")
                      + Given(o, "all_red_main_to_cross")
                      + Given(o, "pedestrian") + Given(o, "all_red_ped_to_main")
  BY <1>14
<1>. QED
  BY <1>15, <1>16, <1>17 DEF d, r

\* The cycle of the program with its overrides is what they give in all.
LEMMA AppliedCycle ==
    ASSUME NEW p \in Seq(Phase), NEW o, IsOverrides(o), ApplyPhaseProgram(p, o) # Failed,
           FourPhases(p, o),
           \A role \in {"main_green", "cross_green"} : ExactlyOne(ApplyPhaseProgram(p, o), role)
    PROVE  CycleOf(ApplyPhaseProgram(p, o)) = Total(o)
<1>. DEFINE s == Stripped(p, o)
            d == Timed(p, o)
            r == ApplyPhaseProgram(p, o)
<1>1. /\ d \in Seq(Phase) /\ s \in Seq(Phase) /\ Len(d) = Len(s)
      /\ \A i \in DOMAIN s : d[i].state = s[i].state
  BY TimedIsClean
<1>2. /\ CycleOf(r) = CycleOf(d) + Given(o, "all_red_cross_to_main")
                        + Given(o, "all_red_main_to_cross")
                        + Given(o, "pedestrian") + Given(o, "all_red_ped_to_main")
      /\ CycleOf(d) \in Int
      /\ \A role : HasRole(d, role) /\ ExactlyOne(r, role) => ExactlyOne(d, role)
  BY InsertionsLengthen
<1>3. /\ GreenAndYellowRoles \subseteq DOMAIN o
      /\ \A i \in DOMAIN s : RoleOf(s[i].state) \in GreenAndYellowRoles
      /\ \A role \in {"main_yellow", "cross_yellow"} : ExactlyOne(s, role)
  BY DEF FourPhases
<1>4. \A role \in GreenAndYellowRoles : HasRole(s, role)
  <2>1. ~Refuses(s, o)
    BY AppliedIs
  <2>. HIDE DEF s
  <2>. QED
    BY <1>3, <2>1 DEF Refuses, Needed
<1>5. \A role \in {"main_green", "cross_green"} : ExactlyOne(r, role)
  OBVIOUS
<1>. HIDE DEF r
<1>6. d = SetDurations(s, o)
  BY DEF Timed
<1>. HIDE DEF d, s
<1>7. /\ \A role : HasRole(d, role) <=> HasRole(s, role)
      /\ \A role : ExactlyOne(d, role) <=> ExactlyOne(s, role)
  BY <1>1, SameRoles
<1>8. \A role \in GreenAndYellowRoles : ExactlyOne(s, role)
  <2>1. ASSUME NEW role \in {"main_green", "cross_green"} PROVE ExactlyOne(s, role)
    <3>1. role \in GreenAndYellowRoles
      BY DEF GreenAndYellowRoles
    <3>2. HasRole(d, role) /\ ExactlyOne(r, role)
      BY <1>4, <1>5, <1>7, <3>1, Zenon
    <3>. QED
      BY <1>2, <1>7, <3>2, Zenon
  <2>. QED
    BY <1>3, <2>1 DEF GreenAndYellowRoles
<1>9. CycleOf(SetDurations(s, o)) = Given(o, "main_green") + Given(o, "main_yellow")
                                         + Given(o, "cross_green") + Given(o, "cross_yellow")
  BY <1>1, <1>3, <1>8, FourPhasesCycle
<1>10. DOMAIN o \subseteq OverrideRoles /\ \A role \in DOMAIN o : o[role] \in Int
  BY DEF IsOverrides
<1>11. /\ Total(o) = Given(o, "main_green") + Given(o, "main_yellow")
                           + Given(o, "cross_green") + Given(o, "cross_yellow")
                           + Given(o, "all_red_main_to_cross") + Given(o, "all_red_cross_to_main")
                           + Given(o, "pedestrian") + Given(o, "all_red_ped_to_main")
       /\ \A role : Given(o, role) \in Int
  BY <1>10, TotalOfRoles
<1>12. CycleOf(d) = Given(o, "main_green") + Given(o, "main_yellow")
                      + Given(o, "cross_green") + Given(o, "cross_yellow")
  BY <1>6, <1>9, Zenon
<1>13. CycleOf(r) = Total(o)
  BY <1>2, <1>11, <1>12
<1>. QED
  BY <1>13 DEF r

\* Where the corridor's programs are as CorridorPrograms says, the overrides
\* balance: the network that holds them takes the cycle of the scenario they
\* come from and leaves every vehicle movement its green, and where it has a
\* pedestrian phase no crossing is green with vehicles (_apply_phase_program).
THEOREM OverridesAlwaysBalance == CorridorPrograms => (Spec => []OverridesBalance)
<1>. SUFFICES ASSUME CorridorPrograms PROVE Spec => []OverridesBalance
  OBVIOUS
<1>1. NetInv => OverridesBalance
  <2>. SUFFICES ASSUME NetInv, applied PROVE OverridesBalance
    BY DEF OverridesBalance, CycleAsConfigured, VehiclesKeepTheirGreen
  <2>1. PICK p \in Compiled : net = ApplyPhaseProgram(p, overrides) /\ net # Failed
    BY DEF NetInv
  <2>2. PICK s \in TlsPrograms :
            overrides = BuildTlsOffsets(s.program, s.cycle) /\ overrides # Failed
    BY DEF NetInv
  <2>3. /\ IsOverrides(overrides) /\ p \in Seq(Phase)
        /\ ApplyPhaseProgram(p, overrides) # Failed
    BY <2>1, NetOverrides, CompiledPrograms
  <2>4. ServesVehicles(p) /\ FourPhases(p, overrides)
    BY <2>1, <2>2 DEF CorridorPrograms
  <2>5. VehiclesKeepTheirGreen
    <3>1. LET r == ApplyPhaseProgram(p, overrides)
          IN /\ \A l \in VehicleLinks : GreenPhases(r, {l}) # {}
             /\ "pedestrian" \in DOMAIN overrides =>
                    \A i \in DOMAIN r : Greens(r[i].state) \cap PedestrianLinks # {} =>
                        Greens(r[i].state) \cap VehicleLinks = {}
      BY <2>3, <2>4, VehiclesKept
    <3>. QED
      BY <2>1, <3>1, Zenon DEF VehiclesKeepTheirGreen
  <2>6. CycleAsConfigured
    <3>. SUFFICES ASSUME \A role \in {"main_green", "cross_green"} : ExactlyOne(net, role)
                  PROVE  CycleOf(net) = Total(s.program)
      BY <2>2 DEF CycleAsConfigured
    <3>1. \A role \in {"main_green", "cross_green"} :
              ExactlyOne(ApplyPhaseProgram(p, overrides), role)
      BY <2>1, Zenon
    <3>2. CycleOf(ApplyPhaseProgram(p, overrides)) = Total(overrides)
      BY <2>3, <2>4, <3>1, AppliedCycle
    <3>3. Total(overrides) = Total(s.program)
      BY <2>2, TotalCarved
    <3>. QED
      BY <2>1, <3>2, <3>3, Zenon
  <2>. QED
    BY <2>5, <2>6 DEF OverridesBalance
<1>. QED
  BY <1>1, NetInit, NetStep, PTL DEF Spec

-----------------------------------------------------------------------------
(* What follows what once the overrides are in.                              *)

\* The pairs of neighbours around an insertion.
LEMMA InsertedPairs ==
    ASSUME NEW p, NEW q, NEW x \in Phase, NEW k, Inserts(p, q, x, k), k # 0,
           NEW j \in DOMAIN q
    PROVE  \/ q[j] = p[k] /\ q[After(q, j)] = x
           \/ j = k + 1 /\ q[j] = x
           \/ \E i \in DOMAIN p \ {k} : q[j] = p[i] /\ q[After(q, j)] = p[After(p, i)]
<1>. DEFINE n == Len(p)
            m == n + 1
<1>1. /\ p \in Seq(Phase) /\ q \in Seq(Phase)
      /\ Len(q) = m /\ k \in 1 .. n /\ n \in Nat \ {0} /\ m \in Nat \ {0}
      /\ DOMAIN p = 1 .. n /\ j \in 1 .. m
      /\ \A i \in 1 .. m :
             q[i] = IF i <= k THEN p[i] ELSE IF i = k + 1 THEN x ELSE p[i - 1]
  BY InsertedPhases
<1>2. \A i \in 1 .. n : After(p, i) = IF i = n THEN 1 ELSE i + 1
  BY <1>1, PhaseAfter DEF After
<1>3. \A i \in 1 .. m : After(q, i) = IF i = m THEN 1 ELSE i + 1
  <2>. HIDE DEF m
  <2>. QED
    BY <1>1, PhaseAfter DEF After
<1>. DEFINE next == After(q, j)
<1>4. CASE j < k
  <2>. DEFINE t == j + 1
  <2>1. /\ j \in 1 .. n /\ j \in 1 .. m /\ j # n /\ j # m /\ j # k /\ j <= k
        /\ t \in 1 .. m /\ t <= k
    BY <1>1, <1>4
  <2>2. next = t /\ After(p, j) = t
    <3>. HIDE DEF n, m
    <3>. QED
      BY <1>2, <1>3, <2>1
  <2>3. q[j] = p[j] /\ q[t] = p[t]
    <3>. HIDE DEF t
    <3>. QED
      BY <1>1, <2>1
  <2>. HIDE DEF t, next
  <2>4. q[next] = p[After(p, j)]
    BY <2>2, <2>3
  <2>. QED
    BY <1>1, <2>1, <2>3, <2>4 DEF next
<1>5. CASE j = k
  <2>1. q[j] = p[k] /\ next = k + 1 /\ k + 1 \in 1 .. m /\ ~(k + 1 <= k)
    BY <1>1, <1>3, <1>5
  <2>2. q[k + 1] = x
    BY <1>1, <2>1
  <2>. QED
    BY <2>1, <2>2
<1>6. CASE j = k + 1
  <2>1. ~(j <= k)
    BY <1>1, <1>6
  <2>. QED
    BY <1>1, <1>6, <2>1
<1>7. CASE j > k + 1
  <2>. DEFINE i == j - 1
  <2>1. i \in 1 .. n /\ i # k /\ ~(j <= k) /\ j # k + 1
    BY <1>1, <1>7
  <2>2. q[j] = p[i]
    BY <1>1, <2>1
  <2>3. CASE j = m
    <3>0. i = n /\ 1 \in 1 .. m /\ 1 <= k
      BY <1>1, <2>3
    <3>1. next = 1 /\ After(p, i) = 1 /\ q[1] = p[1]
      <4>. HIDE DEF i, n, m
      <4>. QED
        BY <1>1, <1>2, <1>3, <2>1, <2>3, <3>0
    <3>2. q[next] = p[After(p, i)]
      BY <3>1
    <3>. HIDE DEF i, next
    <3>. QED
      BY <1>1, <2>1, <2>2, <3>2 DEF next
  <2>4. CASE j # m
    <3>. DEFINE t == j + 1
    <3>0. t \in 1 .. m /\ ~(t <= k) /\ t # k + 1 /\ t - 1 = j /\ i # n /\ i + 1 = j
      <4>1. k \in 1 .. n /\ n \in Nat /\ m = n + 1 /\ j \in 1 .. m
        BY <1>1
      <4>. HIDE DEF n, m
      <4>. QED
        BY <1>7, <2>4, <4>1
    <3>1. /\ next = t /\ t \in 1 .. m /\ ~(t <= k) /\ t # k + 1 /\ t - 1 = j
          /\ After(p, i) = j
      <4>1. next = t
        <5>. HIDE DEF m
        <5>. QED
          BY <1>1, <1>3, <2>4
      <4>2. After(p, i) = j
        <5>. HIDE DEF i, n
        <5>. QED
          BY <1>2, <2>1, <3>0
      <4>. QED
        BY <3>0, <4>1, <4>2
    <3>2. q[t] = p[t - 1]
      <4>. HIDE DEF t
      <4>. QED
        BY <1>1, <3>1
    <3>3. q[next] = p[After(p, i)]
      <4>. HIDE DEF t, next, i
      <4>. QED
        BY <3>1, <3>2
    <3>. HIDE DEF i, next, t
    <3>. QED
      BY <1>1, <2>1, <2>2, <3>3 DEF next
  <2>. QED
    BY <2>3, <2>4
<1>. QED
  BY <1>1, <1>4, <1>5, <1>6, <1>7

\* The only phase of a role stays the only one.
IsOnly(q, role, i) ==
    i \in DOMAIN q /\ \A j \in DOMAIN q : RoleOf(q[j].state) = role <=> j = i

LEMMA OnlyOne ==
    ASSUME NEW p \in Seq(Phase), NEW role, ExactlyOne(p, role)
    PROVE  \E i : IsOnly(p, role, i)
<1>1. ExactlyOne(p, role) <=>
          \E i \in DOMAIN p : \A j \in DOMAIN p : RoleOf(p[j].state) = role <=> j = i
  BY OneIndex
<1>2. PICK i \in DOMAIN p : \A j \in DOMAIN p : RoleOf(p[j].state) = role <=> j = i
  BY <1>1
<1>3. IsOnly(p, role, i)
  BY <1>2 DEF IsOnly
<1>. QED
  BY <1>3

LEMMA OnlyIsFirst ==
    ASSUME NEW p \in Seq(Phase), NEW role, NEW i, IsOnly(p, role, i)
    PROVE  FirstWithRole(p, role) = i /\ i # 0 /\ RoleOf(p[i].state) = role
<1>1. i \in 1 .. Len(p) /\ i \in DOMAIN p /\ RoleOf(p[i].state) = role
  BY DEF IsOnly
<1>2. \A j \in 1 .. (i - 1) : RoleOf(p[j].state) # role
  BY <1>1 DEF IsOnly
<1>. QED
  BY <1>1, <1>2, FirstIs

LEMMA InsertedStillOnce ==
    ASSUME NEW p, NEW q, NEW x \in Phase, NEW k, Inserts(p, q, x, k),
           NEW role, RoleOf(x.state) # role, NEW a, IsOnly(p, role, a),
           NEW b, b = IF a <= k THEN a ELSE a + 1
    PROVE  IsOnly(q, role, b)
<1>1. /\ p \in Seq(Phase) /\ q \in Seq(Phase)
      /\ Len(q) = Len(p) + 1 /\ k \in 0 .. Len(p)
      /\ \A i \in 1 .. Len(q) :
             q[i] = IF i <= k THEN p[i] ELSE IF i = k + 1 THEN x ELSE p[i - 1]
  BY InsertedPhases
<1>0. a \in DOMAIN p /\ \A i \in DOMAIN p : RoleOf(p[i].state) = role <=> i = a
  BY DEF IsOnly
<1>2. a \in 1 .. Len(p) /\ b \in 1 .. Len(q)
  BY <1>0, <1>1
<1>3. ASSUME NEW j \in 1 .. Len(q) PROVE RoleOf(q[j].state) = role <=> j = b
  <2>1. CASE j <= k
    <3>1. q[j] = p[j] /\ j \in DOMAIN p
      BY <1>1, <2>1
    <3>2. RoleOf(q[j].state) = role <=> j = a
      BY <1>0, <3>1
    <3>. QED
      BY <1>1, <1>2, <2>1, <3>2
  <2>2. CASE j = k + 1
    <3>1. ~(j <= k)
      BY <1>1, <2>2
    <3>2. q[j] = x
      BY <1>1, <2>2, <3>1
    <3>. QED
      BY <1>1, <1>2, <2>2, <3>2
  <2>3. CASE ~(j <= k) /\ j # k + 1
    <3>. DEFINE i == j - 1
    <3>1. i \in DOMAIN p /\ ~(i <= k)
      BY <1>1, <2>3
    <3>2. q[j] = p[i]
      BY <1>1, <2>3
    <3>3. RoleOf(q[j].state) = role <=> i = a
      <4>. HIDE DEF i
      <4>. QED
        BY <1>0, <3>1, <3>2
    <3>4. i = a <=> j = b
      BY <1>1, <1>2, <2>3
    <3>. QED
      BY <3>3, <3>4
  <2>. QED
    BY <2>1, <2>2, <2>3
<1>. QED
  BY <1>1, <1>2, <1>3 DEF IsOnly

LEMMA AfterIsIn ==
    ASSUME NEW q \in Seq(Phase), NEW j \in DOMAIN q
    PROVE  After(q, j) \in DOMAIN q
<1>. DEFINE n == Len(q)
<1>1. n \in Nat \ {0} /\ j \in 1 .. n
  OBVIOUS
<1>2. After(q, j) = (j % n) + 1
  BY DEF After
<1>. HIDE DEF n
<1>3. (j % n) + 1 = IF j = n THEN 1 ELSE j + 1
  BY <1>1, PhaseAfter
<1>4. (j % n) + 1 \in 1 .. n
  BY <1>1, <1>3
<1>. QED
  BY <1>2, <1>4 DEF n

LEMMA TheInserted ==
    ASSUME NEW p, NEW q, NEW x \in Phase, NEW k, Inserts(p, q, x, k)
    PROVE  k + 1 \in DOMAIN q /\ q[k + 1] = x
<1>1. /\ p \in Seq(Phase) /\ q \in Seq(Phase)
      /\ Len(q) = Len(p) + 1 /\ k \in 0 .. Len(p)
      /\ \A i \in 1 .. Len(q) :
             q[i] = IF i <= k THEN p[i] ELSE IF i = k + 1 THEN x ELSE p[i - 1]
  BY InsertedPhases
<1>. DEFINE t == k + 1
<1>2. t \in 1 .. Len(q) /\ ~(t <= k)
  BY <1>1
<1>. HIDE DEF t
<1>3. q[t] = x
  BY <1>1, <1>2 DEF t
<1>. QED
  BY <1>1, <1>2, <1>3 DEF t

\* No green begins, or it begins after an all-red that is long enough.
Follows(a, b) ==
    \/ Greens(b.state) \subseteq Greens(a.state)
    \/ IsAllRed(a.state) /\ a.duration >= MinAllRed
Chained(q, but) ==
    \A j \in DOMAIN q : RoleOf(q[j].state) \in but \/ Follows(q[j], q[After(q, j)])

LEMMA AllRedFollows ==
    ASSUME NEW x \in Phase, IsAllRed(x.state), NEW a
    PROVE  Follows(a, x) /\ (x.duration >= MinAllRed => Follows(x, a))
<1>1. Greens(x.state) = {}
  BY DEF Greens, IsAllRed
<1>. QED
  BY <1>1 DEF Follows

LEMMA ChainedAllRed ==
    ASSUME NEW p, NEW q, NEW x \in Phase, IsAllRed(x.state), x.duration >= MinAllRed,
           NEW k, k # 0, Inserts(p, q, x, k), NEW role, NEW but, Chained(p, but \cup {role}),
           \A i \in DOMAIN p : RoleOf(p[i].state) = role => i = k
    PROVE  Chained(q, but)
<1>. SUFFICES ASSUME NEW j \in DOMAIN q
              PROVE  RoleOf(q[j].state) \in but \/ Follows(q[j], q[After(q, j)])
  BY DEF Chained
<1>. DEFINE next == q[After(q, j)]
<1>1. \/ q[j] = p[k] /\ next = x
      \/ j = k + 1 /\ q[j] = x
      \/ \E i \in DOMAIN p \ {k} : q[j] = p[i] /\ next = p[After(p, i)]
  BY InsertedPairs
<1>. HIDE DEF next
<1>2. CASE next = x \/ q[j] = x
  BY <1>2, AllRedFollows DEF next
<1>3. CASE \E i \in DOMAIN p \ {k} : q[j] = p[i] /\ next = p[After(p, i)]
  <2>1. PICK i \in DOMAIN p \ {k} : q[j] = p[i] /\ next = p[After(p, i)]
    BY <1>3
  <2>2. RoleOf(p[i].state) \in but \cup {role} \/ Follows(p[i], p[After(p, i)])
    BY <2>1 DEF Chained
  <2>3. RoleOf(p[i].state) # role
    BY <2>1
  <2>. QED
    BY <2>1, <2>2, <2>3 DEF next
<1>. QED
  BY <1>1, <1>2, <1>3

\* The all-red after the yellow of the cross street stays there.
LEMMA RedStaysNext ==
    ASSUME NEW p, NEW q, NEW x \in Phase, NEW k, Inserts(p, q, x, k),
           NEW a \in DOMAIN p, a # k, a + 1 \in DOMAIN p, IsAllRed(p[a + 1].state)
    PROVE  LET b == IF a <= k THEN a ELSE a + 1
           IN b + 1 \in DOMAIN q /\ IsAllRed(q[b + 1].state)
<1>. DEFINE b == IF a <= k THEN a ELSE a + 1
            t == b + 1
            s == a + 1
<1>1. /\ p \in Seq(Phase) /\ q \in Seq(Phase)
      /\ Len(q) = Len(p) + 1 /\ k \in 0 .. Len(p)
      /\ \A i \in 1 .. Len(q) :
             q[i] = IF i <= k THEN p[i] ELSE IF i = k + 1 THEN x ELSE p[i - 1]
  BY InsertedPhases
<1>2. a \in 1 .. Len(p) /\ s \in 1 .. Len(p)
  BY <1>1
<1>3. CASE a <= k
  <2>1. t = s /\ t <= k /\ t \in 1 .. Len(q)
    BY <1>1, <1>2, <1>3
  <2>. HIDE DEF t, s
  <2>2. q[t] = p[s]
    BY <1>1, <2>1
  <2>. QED
    BY <1>1, <2>1, <2>2 DEF t, s
<1>4. CASE ~(a <= k)
  <2>1. t - 1 = s /\ ~(t <= k) /\ t # k + 1 /\ t \in 1 .. Len(q)
    BY <1>1, <1>2, <1>4
  <2>. HIDE DEF t, s
  <2>2. q[t] = p[s]
    BY <1>1, <2>1
  <2>. QED
    BY <1>1, <2>1, <2>2 DEF t, s
<1>. QED
  BY <1>3, <1>4

\* The two all-reds and the pedestrian phase with its clearance.
LEMMA ChainedProgram ==
    ASSUME NEW p \in Seq(Phase), NEW o, IsOverrides(o), ApplyPhaseProgram(p, o) # Failed,
           FourPhases(p, o), GreensOnlyShrink(p, o),
           AllRedRoles \subseteq DOMAIN o, \A role \in AllRedRoles : o[role] >= MinAllRed
    PROVE  Chained(ApplyPhaseProgram(p, o), {})
<1>. DEFINE s == Stripped(p, o)
            d == Timed(p, o)
            r == ApplyPhaseProgram(p, o)
            crossRed == AllRedPhase(o.all_red_cross_to_main)
            mainRed == AllRedPhase(o.all_red_main_to_cross)
<1>1. /\ d \in Seq(Phase) /\ s \in Seq(Phase) /\ Len(d) = Len(s)
      /\ \A i \in DOMAIN s : d[i].state = s[i].state
  BY TimedIsClean
<1>2. PICK cross, both, walked, k : Insertions(d, o, cross, both, walked, r, k)
  BY AppliedProgram
<1>3. /\ \A i \in DOMAIN s : RoleOf(s[i].state) \in GreenAndYellowRoles
      /\ ExactlyOne(s, "main_yellow") /\ ExactlyOne(s, "cross_yellow")
      /\ \A i \in DOMAIN s : \/ RoleOf(s[i].state) \in {"main_yellow", "cross_yellow"}
                             \/ Greens(s[After(s, i)].state) \subseteq Greens(s[i].state)
  BY DEF FourPhases, GreensOnlyShrink, After
<1>. HIDE DEF s, d, r
<1>4. /\ crossRed \in Phase /\ IsAllRed(crossRed.state) /\ crossRed.duration >= MinAllRed
      /\ mainRed \in Phase /\ IsAllRed(mainRed.state) /\ mainRed.duration >= MinAllRed
      /\ {"all_red_cross_to_main", "all_red_main_to_cross"} \subseteq DOMAIN o
  <2>1. /\ o["all_red_cross_to_main"] \in Nat /\ o["all_red_cross_to_main"] >= MinAllRed
        /\ o["all_red_main_to_cross"] \in Nat /\ o["all_red_main_to_cross"] >= MinAllRed
    BY DEF AllRedRoles, IsOverrides
  <2>. QED
    BY <2>1, AllRedIsRed DEF AllRedRoles, Reds
<1>. HIDE DEF crossRed, mainRed
<1>5. /\ Inserts(d, cross, crossRed, FirstWithRole(d, "cross_yellow"))
      /\ Inserts(cross, both, mainRed, FirstWithRole(cross, "main_yellow"))
      /\ cross \in Seq(Phase) /\ both \in Seq(Phase)
  BY <1>2, <1>4 DEF Insertions, crossRed, mainRed
<1>6. DOMAIN d = DOMAIN s /\ \A i \in DOMAIN d : RoleOf(d[i].state) = RoleOf(s[i].state)
  BY <1>1
<1>7. Chained(d, {"main_yellow"} \cup {"cross_yellow"})
  <2>. SUFFICES ASSUME NEW j \in DOMAIN d,
                       RoleOf(d[j].state) \notin {"main_yellow", "cross_yellow"}
                PROVE  Follows(d[j], d[After(d, j)])
    BY DEF Chained
  <2>. DEFINE n == After(d, j)
  <2>1. n = After(s, j) /\ n \in DOMAIN s
    <3>1. n = After(s, j)
      BY <1>1 DEF After
    <3>3. n \in DOMAIN d
      BY <1>1, AfterIsIn
    <3>. QED
      BY <1>1, <3>1, <3>3
  <2>2. Greens(s[n].state) \subseteq Greens(s[j].state)
    BY <1>3, <1>6, <2>1
  <2>. HIDE DEF n
  <2>3. d[n].state = s[n].state /\ d[j].state = s[j].state
    BY <1>1, <1>6, <2>1
  <2>4. Greens(d[n].state) \subseteq Greens(d[j].state)
    BY <2>2, <2>3
  <2>. QED
    BY <2>4 DEF Follows, n
<1>8. PICK y : IsOnly(d, "cross_yellow", y)
  <2>1. \E i : IsOnly(s, "cross_yellow", i)
    BY <1>1, <1>3, OnlyOne
  <2>. QED
    BY <1>6, <2>1 DEF IsOnly
<1>9. PICK m0 : IsOnly(d, "main_yellow", m0)
  <2>1. \E i : IsOnly(s, "main_yellow", i)
    BY <1>1, <1>3, OnlyOne
  <2>. QED
    BY <1>6, <2>1 DEF IsOnly
<1>10. FirstWithRole(d, "cross_yellow") = y
  BY <1>1, <1>8, OnlyIsFirst
<1>11. RoleOf(crossRed.state) = "all_red" /\ RoleOf(mainRed.state) = "all_red"
  BY <1>4, RoleIs
<1>12. y # 0 /\ y \in 1 .. Len(d)
  BY <1>1, <1>8 DEF IsOnly
<1>13. Chained(cross, {"main_yellow"})
  <2>1. Inserts(d, cross, crossRed, y)
    BY <1>5, <1>10
  <2>2. \A i \in DOMAIN d : RoleOf(d[i].state) = "cross_yellow" => i = y
    BY <1>8 DEF IsOnly
  <2>. QED
    BY <1>4, <1>7, <1>12, <2>1, <2>2, ChainedAllRed, Zenon
<1>14. IsOnly(cross, "cross_yellow", y)
  <2>1. /\ RoleOf(crossRed.state) # "cross_yellow" /\ Inserts(d, cross, crossRed, y)
        /\ y = IF y <= y THEN y ELSE y + 1
    BY <1>5, <1>10, <1>11, <1>12
  <2>. QED
    BY <1>4, <1>8, <2>1, InsertedStillOnce, Zenon
<1>15. PICK m : IsOnly(cross, "main_yellow", m)
  <2>. DEFINE b == IF m0 <= y THEN m0 ELSE m0 + 1
  <2>1. RoleOf(crossRed.state) # "main_yellow" /\ Inserts(d, cross, crossRed, y)
    BY <1>5, <1>10, <1>11
  <2>2. IsOnly(cross, "main_yellow", b)
    BY <1>4, <1>9, <2>1, InsertedStillOnce, Zenon
  <2>. QED
    BY <2>2, Zenon
<1>16. y + 1 \in DOMAIN cross /\ IsAllRed(cross[y + 1].state)
  <2>1. Inserts(d, cross, crossRed, y)
    BY <1>5, <1>10
  <2>2. crossRed \in Phase
    BY <1>4
  <2>3. y + 1 \in DOMAIN cross /\ cross[y + 1] = crossRed
    BY <2>1, <2>2, TheInserted
  <2>. QED
    BY <1>4, <2>3
<1>17. FirstWithRole(cross, "main_yellow") = m /\ m # 0 /\ m # y
  <2>1. FirstWithRole(cross, "main_yellow") = m /\ m # 0 /\ RoleOf(cross[m].state) = "main_yellow"
    BY <1>5, <1>15, OnlyIsFirst
  <2>2. RoleOf(cross[y].state) = "cross_yellow"
    BY <1>5, <1>14, OnlyIsFirst
  <2>. QED
    BY <2>1, <2>2
<1>18. Chained(both, {})
  <2>1. Chained(cross, {} \cup {"main_yellow"})
    BY <1>13
  <2>2. \A i \in DOMAIN cross : RoleOf(cross[i].state) = "main_yellow" => i = m
    BY <1>15 DEF IsOnly
  <2>3. Inserts(cross, both, mainRed, m)
    BY <1>5, <1>17
  <2>. QED
    BY <1>4, <1>17, <2>1, <2>2, <2>3, ChainedAllRed
<1>. DEFINE z == IF y <= m THEN y ELSE y + 1
<1>19. IsOnly(both, "cross_yellow", z)
  <2>1. RoleOf(mainRed.state) # "cross_yellow" /\ Inserts(cross, both, mainRed, m)
    BY <1>5, <1>11, <1>17
  <2>. QED
    BY <1>4, <1>14, <2>1, InsertedStillOnce, Zenon
<1>20. z + 1 \in DOMAIN both /\ IsAllRed(both[z + 1].state)
  <2>1. Inserts(cross, both, mainRed, m)
    BY <1>5, <1>17
  <2>. QED
    BY <1>4, <1>14, <1>16, <1>17, <2>1, RedStaysNext DEF IsOnly
<1>. HIDE DEF z
<1>21. FirstWithRole(both, "cross_yellow") = z /\ z \in DOMAIN both
  BY <1>5, <1>19, OnlyIsFirst DEF IsOnly
<1>22. ASSUME NEW j \in DOMAIN both, IsAllRed(both[j].state)
       PROVE  both[j].duration >= MinAllRed
  <2>1. \A i \in DOMAIN d : ~IsAllRed(d[i].state)
    <3>1. \A i \in DOMAIN d : RoleOf(d[i].state) # "all_red"
      BY <1>3, <1>6 DEF GreenAndYellowRoles
    <3>. QED
      BY <3>1, RoleIs
  <2>2. \A i \in DOMAIN cross : cross[i] = crossRed \/ \E h \in DOMAIN d : cross[i] = d[h]
    <3>1. Inserts(d, cross, crossRed, y)
      BY <1>5, <1>10
    <3>2. crossRed \in Phase
      BY <1>4
    <3>3. \A i \in DOMAIN cross : cross[i] = crossRed \/ \E h \in DOMAIN d : cross[i] = d[h]
      BY <3>1, <3>2, InsertedKeeps
    <3>. QED
      BY <3>3
  <2>3. both[j] = mainRed \/ \E i \in DOMAIN cross : both[j] = cross[i]
    BY <1>4, <1>5, InsertedKeeps
  <2>4. both[j] \in {mainRed, crossRed}
    BY <1>22, <2>1, <2>2, <2>3
  <2>. QED
    BY <1>4, <2>4
<1>23. CASE "pedestrian" \notin DOMAIN o
  <2>1. walked = both
    BY <1>2, <1>23 DEF Insertions
  <2>2. "all_red_ped_to_main" \notin DOMAIN o
    BY <1>23 DEF IsOverrides
  <2>3. r = walked
    BY <1>2, <2>2 DEF Insertions
  <2>. QED
    BY <1>18, <2>1, <2>3 DEF r
<1>24. CASE "pedestrian" \in DOMAIN o
  <2>. DEFINE walk == PedestrianPhase(o.pedestrian)
              pedRed == AllRedPhase(o.all_red_ped_to_main)
  <2>1. /\ "all_red_ped_to_main" \in DOMAIN o
        /\ o.all_red_ped_to_main = o.all_red_cross_to_main
    BY <1>4, <1>24 DEF IsOverrides
  <2>2. pedRed = crossRed
    BY <2>1 DEF crossRed
  <2>3. walk \in Phase
    BY <1>24, PedestrianWalks DEF IsOverrides
  <2>. HIDE DEF walk, pedRed
  <2>4. /\ IsLastRed(both, k) /\ Inserts(both, walked, walk, k)
        /\ Inserts(walked, r, pedRed, k + 1)
    BY <1>2, <1>24, <2>1 DEF Insertions, walk, pedRed
  <2>5. /\ k \in z .. Len(both) /\ k # z
        /\ IsAllRed(both[k].state)
    <3>1. /\ k \in z .. Len(both)
          /\ \A j \in (z + 1) .. k : IsAllRed(both[j].state)
          /\ k = Len(both) \/ ~IsAllRed(both[k + 1].state)
      BY <1>21, <2>4 DEF IsLastRed
    <3>2. z \in 1 .. Len(both) /\ z + 1 \in 1 .. Len(both)
      BY <1>5, <1>20, <1>21
    <3>3. k # z
      BY <1>20, <3>1, <3>2
    <3>4. k \in (z + 1) .. k
      BY <3>1, <3>2, <3>3
    <3>. QED
      BY <3>1, <3>3, <3>4
  <2>6. k \in DOMAIN both /\ k # 0 /\ k \in Nat /\ k + 1 # 0
    BY <1>5, <1>21, <2>5
  <2>7. both[k].duration >= MinAllRed
    BY <1>22, <2>5, <2>6
  <2>8. ASSUME NEW j \in DOMAIN walked, j # k + 1
        PROVE  Follows(walked[j], walked[After(walked, j)])
    <3>. DEFINE next == walked[After(walked, j)]
    <3>1. \/ walked[j] = both[k] /\ next = walk
          \/ \E i \in DOMAIN both \ {k} : walked[j] = both[i] /\ next = both[After(both, i)]
      BY <2>3, <2>4, <2>6, <2>8, InsertedPairs
    <3>. HIDE DEF next
    <3>2. CASE walked[j] = both[k]
      BY <2>5, <2>7, <3>2 DEF Follows
    <3>3. CASE \E i \in DOMAIN both \ {k} : walked[j] = both[i] /\ next = both[After(both, i)]
      BY <1>18, <3>3 DEF Chained, next
    <3>. QED
      BY <3>1, <3>2, <3>3
  <2>9. ASSUME NEW j \in DOMAIN r PROVE Follows(r[j], r[After(r, j)])
    <3>. DEFINE next == r[After(r, j)]
                h == k + 1
    <3>1. \/ r[j] = walked[h] /\ next = crossRed
          \/ r[j] = crossRed
          \/ \E i \in DOMAIN walked \ {h} : r[j] = walked[i] /\ next = walked[After(walked, i)]
      <4>1. Inserts(walked, r, crossRed, h) /\ h # 0
        BY <2>2, <2>4, <2>6
      <4>. HIDE DEF h
      <4>2. \/ r[j] = walked[h] /\ r[After(r, j)] = crossRed
            \/ j = h + 1 /\ r[j] = crossRed
            \/ \E i \in DOMAIN walked \ {h} :
                   r[j] = walked[i] /\ r[After(r, j)] = walked[After(walked, i)]
        BY <1>4, <4>1, InsertedPairs, SMTT(30)
      <4>. QED
        BY <4>2 DEF next
    <3>. HIDE DEF next
    <3>2. CASE next = crossRed
      BY <1>4, <3>2, AllRedFollows DEF next
    <3>3. CASE r[j] = crossRed
      BY <1>4, <3>3, AllRedFollows
    <3>4. CASE \E i \in DOMAIN walked \ {h} : r[j] = walked[i] /\ next = walked[After(walked, i)]
      BY <2>8, <3>4 DEF next
    <3>. QED
      BY <3>1, <3>2, <3>3, <3>4
  <2>. QED
    BY <2>9 DEF Chained, r
<1>. QED
  BY <1>23, <1>24

\* What comes k phases after another.
LEMMA Wrap ==
    ASSUME NEW n \in Nat \ {0}, NEW x \in Nat, x < 2 * n
    PROVE  x % n = IF x < n THEN x ELSE x - n
<1>1. CASE x < n
  BY <1>1
<1>2. CASE ~(x < n)
  <2>. DEFINE t == x - n
  <2>1. t \in 0 .. (n - 1) /\ x = n + t
    BY <1>2
  <2>. HIDE DEF t
  <2>2. (n + t) % n = t
    BY <2>1
  <2>. QED
    BY <1>2, <2>1, <2>2
<1>. QED
  BY <1>1, <1>2

\* The next service phase: k phases on, with none in between.
IsNextService(program, c, p, k, At) ==
    /\ At[0] = p /\ \A j \in 0 .. k : At[j] \in PhaseIndices(program)
    /\ \A j \in 1 .. k : At[j] = After(program, At[j - 1])
    /\ k \in Nat \ {0} /\ At[k] \in ServicePhases(program)
    /\ \A j \in 1 .. (k - 1) : At[j] \notin ServicePhases(program)
    /\ NextService(c, p) = [to |-> At[k], between |-> {At[j] : j \in 1 .. (k - 1)}]

LEMMA NextServiceIs ==
    ASSUME NEW program \in Seq(Phase), NEW c, Describes(c, program),
           NEW p \in ServicePhases(program)
    PROVE  \E k, At : IsNextService(program, c, p, k, At)
<1>. DEFINE n == Len(c.sequence)
            Turn(k) == c.sequence[((p + k - 1) % n) + 1]
            Reaches(k) == /\ Turn(k) \in c.service
                          /\ \A j \in 1 .. (k - 1) : Turn(j) \notin c.service
            reach == CHOOSE k \in 1 .. n : Reaches(k)
            At == [k \in 0 .. n |-> Turn(k)]
<1>1. p \in PhaseIndices(program)
  BY DEF ServicePhases, GreenPhases
<1>2. /\ n = Len(program) /\ n \in Nat \ {0} /\ p \in 1 .. n
      /\ \A i \in 1 .. n : c.sequence[i] = i
      /\ c.service = ServicePhases(program) /\ PhaseIndices(program) = 1 .. n
  BY <1>1, Positions DEF PhaseIndices, Describes
<1>. HIDE DEF n
<1>3. ASSUME NEW k \in 0 .. n
      PROVE  /\ Turn(k) \in 1 .. n
             /\ Turn(k) = IF p + k <= n THEN p + k ELSE p + k - n
  <2>. DEFINE x == p + k - 1
  <2>1. x \in Nat /\ x < 2 * n
    BY <1>2
  <2>. HIDE DEF x
  <2>2. x % n = IF x < n THEN x ELSE x - n
    BY <1>2, <2>1, Wrap
  <2>. DEFINE i == (x % n) + 1
  <2>3. i \in 1 .. n /\ i = IF x < n THEN x + 1 ELSE x - n + 1
    BY <1>2, <2>1, <2>2
  <2>4. Turn(k) = c.sequence[i]
    BY DEF x
  <2>. HIDE DEF i, Turn
  <2>5. Turn(k) = i
    BY <1>2, <2>3, <2>4
  <2>. QED
    BY <1>2, <2>3, <2>5 DEF x
<1>. HIDE DEF Turn
<1>4. Turn(0) = p /\ Turn(n) = p
  <2>1. 0 \in 0 .. n /\ n \in 0 .. n
    BY <1>2
  <2>2. Turn(0) = IF p + 0 <= n THEN p + 0 ELSE p + 0 - n
    BY <1>3, <2>1, Zenon
  <2>3. Turn(n) = IF p + n <= n THEN p + n ELSE p + n - n
    BY <1>3, <2>1, Zenon
  <2>. QED
    BY <1>2, <2>2, <2>3
<1>5. ASSUME NEW k \in 1 .. n PROVE Turn(k) = After(program, Turn(k - 1))
  <2>. DEFINE j == k - 1
              t == Turn(j)
  <2>1. j \in 0 .. n /\ k \in 0 .. n
    BY <1>2
  <2>. HIDE DEF j
  <2>2. t \in 1 .. n /\ t = IF p + j <= n THEN p + j ELSE p + j - n
    BY <1>3, <2>1
  <2>3. Turn(k) = IF p + k <= n THEN p + k ELSE p + k - n
    BY <1>3, <2>1
  <2>. HIDE DEF t
  <2>4. (t % n) + 1 = IF t = n THEN 1 ELSE t + 1
    <3>1. n \in Nat \ {0} /\ t \in 1 .. n
      BY <1>2, <2>2
    <3>. QED
      BY <3>1, PhaseAfter, Zenon
  <2>5. After(program, t) = (t % n) + 1
    BY <1>2 DEF After
  <2>6. Turn(k) = IF t = n THEN 1 ELSE t + 1
    BY <1>2, <2>1, <2>2, <2>3 DEF j
  <2>. QED
    BY <2>4, <2>5, <2>6 DEF t, j
<1>6. \E k \in 1 .. n : Reaches(k)
  <2>. DEFINE S == {k \in 1 .. n : Turn(k) \in c.service}
              f == [k \in S |-> 0 - k]
  <2>1. n \in S
    BY <1>2, <1>4
  <2>2. IsFiniteSet(S)
    <3>1. S \subseteq 1 .. n /\ IsFiniteSet(1 .. n)
      BY <1>2, FS_Interval
    <3>. QED
      BY <3>1, FS_Subset
  <2>3. \A k \in S : f[k] = 0 - k /\ f[k] \in Int /\ k \in 1 .. n
    BY <1>2
  <2>. HIDE DEF f
  <2>4. PICK k \in S : \A m \in S : f[m] <= f[k]
    <3>. HIDE DEF S
    <3>. QED
      BY <2>1, <2>2, <2>3, HighestExists
  <2>5. \A j \in 1 .. (k - 1) : Turn(j) \notin c.service
    <3>. SUFFICES ASSUME NEW j \in 1 .. (k - 1), Turn(j) \in c.service PROVE FALSE
      OBVIOUS
    <3>1. j \in S
      BY <1>2, <2>3
    <3>2. f[j] <= f[k] /\ f[j] = 0 - j /\ f[k] = 0 - k
      BY <2>3, <2>4, <3>1
    <3>. QED
      BY <1>2, <2>3, <2>4, <3>2
  <2>. QED
    BY <2>3, <2>4, <2>5
<1>7. reach \in 1 .. n /\ Reaches(reach)
  <2>. HIDE DEF Reaches
  <2>. QED
    BY <1>6
<1>8. NextService(c, p) = [to |-> Turn(reach), between |-> {Turn(j) : j \in 1 .. (reach - 1)}]
  BY DEF NextService, Turn, n, Reaches
<1>. HIDE DEF reach
<1>9. \A j \in 0 .. reach : j \in 0 .. n /\ At[j] = Turn(j)
  BY <1>2, <1>7
<1>10. \A j \in 1 .. reach : j \in 1 .. n /\ j \in 0 .. reach /\ j - 1 \in 0 .. reach
  BY <1>2, <1>7
<1>11. reach \in Nat /\ reach # 0 /\ 0 \in 0 .. reach /\ reach \in 0 .. reach
       /\ \A j \in 1 .. (reach - 1) : j \in 0 .. reach
  BY <1>2, <1>7
<1>. HIDE DEF At
<1>12. At[0] = p /\ \A j \in 0 .. reach : At[j] \in PhaseIndices(program)
  <2>1. Turn(0) = p /\ \A j \in 0 .. reach : Turn(j) \in PhaseIndices(program)
    BY <1>2, <1>3, <1>4, <1>9
  <2>. QED
    BY <1>9, <1>11, <2>1, Zenon
<1>13. ASSUME NEW j \in 1 .. reach PROVE At[j] = After(program, At[j - 1])
  BY <1>5, <1>9, <1>10
<1>14. /\ At[reach] \in ServicePhases(program)
       /\ \A j \in 1 .. (reach - 1) : At[j] \notin ServicePhases(program)
  BY <1>2, <1>7, <1>9, <1>11
<1>15. NextService(c, p) = [to |-> At[reach], between |-> {At[j] : j \in 1 .. (reach - 1)}]
  BY <1>8, <1>9, <1>11
<1>16. IsNextService(program, c, p, reach, At)
  BY <1>11, <1>12, <1>13, <1>14, <1>15 DEF IsNextService
<1>. QED
  BY <1>16, Zenon

\* Where every green follows an all-red or one it was part of, none is missing.
LEMMA ChainedMissesNone ==
    ASSUME NEW program \in Seq(Phase), NEW c, Describes(c, program), c.bound,
           Chained(program, {})
    PROVE  MissingAllRed(c, program) = {}
<1>. SUFFICES ASSUME NEW p \in MissingAllRed(c, program) PROVE FALSE
  OBVIOUS
<1>1. /\ DOMAIN c.sequence = PhaseIndices(program)
      /\ \A i \in PhaseIndices(program) : c.sequence[i] = i
      /\ c.service = ServicePhases(program)
  BY DEF Describes
<1>2. /\ p \in PhaseIndices(program) /\ p \in ServicePhases(program)
      /\ ~\E i \in NextService(c, p).between \cap PhaseIndices(program) :
             IsAllRed(program[i].state) /\ program[i].duration >= MinAllRed
      /\ \/ {p, NextService(c, p).to} \cap PhaseIndices(program) # {p, NextService(c, p).to}
         \/ TransitionNeedsAllRed(c, program[p].state, program[NextService(c, p).to].state)
  BY <1>1 DEF MissingAllRed
<1>0. PICK k, At : IsNextService(program, c, p, k, At)
  BY <1>2, NextServiceIs
<1>3. /\ At[0] = p /\ \A j \in 0 .. k : At[j] \in PhaseIndices(program)
      /\ \A j \in 1 .. k : At[j] = After(program, At[j - 1])
      /\ k \in Nat \ {0} /\ At[k] \in ServicePhases(program)
      /\ \A j \in 1 .. (k - 1) : At[j] \notin ServicePhases(program)
      /\ NextService(c, p) = [to |-> At[k], between |-> {At[j] : j \in 1 .. (k - 1)}]
  BY <1>0 DEF IsNextService
<1>. DEFINE h == k - 1
            i == At[h]
            q == At[k]
<1>4. h \in 0 .. k /\ k \in 1 .. k /\ k \in 0 .. k
  BY <1>3
<1>5. q = After(program, i) /\ i \in PhaseIndices(program) /\ q \in PhaseIndices(program)
  BY <1>3, <1>4
<1>6. Follows(program[i], program[q])
  <2>1. i \in DOMAIN program
    BY <1>5 DEF PhaseIndices
  <2>. QED
    BY <1>5, <2>1 DEF Chained
<1>7. Greens(program[q].state) # {}
  BY <1>3 DEF ServicePhases, GreenPhases
<1>8. CASE k = 1
  <2>1. i = p
    BY <1>3, <1>8
  <2>2. Greens(program[p].state) # {}
    BY <1>2 DEF ServicePhases, GreenPhases
  <2>3. ~IsAllRed(program[p].state)
    BY <2>2 DEF IsAllRed, Greens
  <2>4. Greens(program[q].state) \subseteq Greens(program[p].state)
    BY <1>6, <2>1, <2>3 DEF Follows
  <2>5. NextService(c, p).to = q
    BY <1>3
  <2>6. TransitionNeedsAllRed(c, program[p].state, program[q].state)
    BY <1>2, <1>5, <2>5
  <2>. QED
    BY <2>4, <2>6 DEF TransitionNeedsAllRed
<1>9. CASE k # 1
  <2>1. h \in 1 .. (k - 1)
    BY <1>3, <1>9
  <2>2. i \notin ServicePhases(program) /\ i \in NextService(c, p).between
    BY <1>3, <2>1
  <2>3. Greens(program[i].state) = {}
    BY <1>5, <2>2, ServicePhase
  <2>4. IsAllRed(program[i].state) /\ program[i].duration >= MinAllRed
    BY <1>6, <1>7, <2>3 DEF Follows
  <2>. QED
    BY <1>2, <1>5, <2>2, <2>4
<1>. QED
  BY <1>8, <1>9

-----------------------------------------------------------------------------
(* The overridden program passes the verification.                           *)

\* A yellow without green has the time that the override gives it.
LEMMA YellowsTimed ==
    ASSUME NEW p \in Seq(Phase), NEW o, IsOverrides(o), ApplyPhaseProgram(p, o) # Failed,
           FourPhases(p, o),
           NEW j \in DOMAIN ApplyPhaseProgram(p, o),
           Greens(ApplyPhaseProgram(p, o)[j].state) = {},
           \E l \in Links : ApplyPhaseProgram(p, o)[j].state[l] = "y"
    PROVE  \E role \in {"main_yellow", "cross_yellow"} :
               ApplyPhaseProgram(p, o)[j].duration = o[role]
<1>. DEFINE s == Stripped(p, o)
            d == Timed(p, o)
            r == ApplyPhaseProgram(p, o)
<1>1. /\ d \in Seq(Phase) /\ s \in Seq(Phase) /\ Len(d) = Len(s)
      /\ \A i \in DOMAIN s : d[i].state = s[i].state
  BY TimedIsClean
<1>2. \/ \E i \in DOMAIN d : r[j] = d[i]
      \/ r[j].state \in {AllRedPhase(0).state, PedestrianPhase(0).state}
  BY InsertionsKeep
<1>3. /\ GreenAndYellowRoles \subseteq DOMAIN o
      /\ \A i \in DOMAIN s : RoleOf(s[i].state) \in GreenAndYellowRoles
      /\ ExactlyOne(s, "main_yellow") /\ ExactlyOne(s, "cross_yellow")
  BY DEF FourPhases
<1>4. d = SetDurations(s, o)
  BY DEF Timed
<1>5. /\ j \in DOMAIN r /\ Greens(r[j].state) = {}
      /\ \E l \in Links : r[j].state[l] = "y"
  OBVIOUS
<1>6. \A l \in Links : AllRedPhase(0).state[l] # "y" /\ PedestrianPhase(0).state[l] # "y"
  BY PedestrianWalks DEF AllRedPhase
<1>. HIDE DEF r, d, s
<1>7. PICK i \in DOMAIN d : r[j] = d[i]
  BY <1>2, <1>5, <1>6
<1>8. i \in DOMAIN s /\ Greens(s[i].state) = {} /\ RoleOf(s[i].state) \in GreenAndYellowRoles
  BY <1>1, <1>3, <1>5, <1>7
<1>9. RoleOf(s[i].state) \notin {"main_green", "cross_green"}
  <2>. DEFINE state == s[i].state
  <2>1. /\ ~Shows(state, MainLinks, {"G", "g"})
        /\ ~Shows(state, CrossLinks, {"G", "g"})
    BY <1>8, LinksOfTheRoles DEF Shows, Greens
  <2>. HIDE DEF state
  <2>2. RoleOf(state) # "main_green" /\ RoleOf(state) # "cross_green"
    BY <2>1, RoleIs
  <2>. QED
    BY <2>2 DEF state
<1>. DEFINE role == RoleOf(s[i].state)
<1>10. role \in {"main_yellow", "cross_yellow"}
  BY <1>8, <1>9 DEF GreenAndYellowRoles
<1>11. \E a : IsOnly(s, role, a)
  <2>1. \E a : IsOnly(s, "main_yellow", a)
    BY <1>1, <1>3, OnlyOne
  <2>2. \E a : IsOnly(s, "cross_yellow", a)
    BY <1>1, <1>3, OnlyOne
  <2>. HIDE DEF role
  <2>. QED
    BY <1>10, <2>1, <2>2
<1>12. IsOnly(s, role, i)
  BY <1>8, <1>11 DEF IsOnly
<1>. HIDE DEF role
<1>13. FirstWithRole(s, role) = i
  BY <1>1, <1>12, OnlyIsFirst
<1>14. role \in GreenAndYellowRoles \cap DOMAIN o
  BY <1>3, <1>10 DEF GreenAndYellowRoles
<1>15. d[i].duration = o[role]
  <2>1. d[i].duration = IF /\ role \in GreenAndYellowRoles \cap DOMAIN o
                           /\ FirstWithRole(s, role) = i
                        THEN o[role] ELSE s[i].duration
    BY <1>1, <1>4, <1>8, DurationsSet DEF role
  <2>. QED
    BY <1>13, <1>14, <2>1
<1>. QED
  BY <1>7, <1>10, <1>15 DEF r

\* The contract that a session starts with, on the program of the network.
LEMMA StartedContract ==
    ASSUME NEW r \in Seq(Phase), r # Unreadable, BindingEnabled
    PROVE  LET run == [phases |-> r, fixedTime |-> TRUE]
               c == Reconcile(ApplyBinding(BuildContract(r)), run)
           IN /\ Describes(c, r) /\ c.bound /\ c.cycle = CycleOf(r)
              /\ c.intergreen = IntergreenPhases(r) /\ c.pedestrian = PedestrianPhases(r)
              /\ c.pedestrianRequired => PedestrianPhases(r) # {}
              /\ \A g \in Groups :
                     /\ c.groups[g].protected <=> ProtectedPhases(r, LinksOf[g]) # {}
                     /\ c.groups[g].serves => g \in PriorityGroups
                     /\ GroupMatrixKnown(g) => c.groups[g].known
                     /\ c.groups[g].phase =
                            LET protected == ProtectedPhases(r, LinksOf[g])
                                candidates == IF protected # {} THEN protected
                                              ELSE GreenPhases(r, LinksOf[g])
                            IN IF candidates = {} THEN NoPhase
                               ELSE BestPhase(r, LinksOf[g], candidates)
<1>. DEFINE run == [phases |-> r, fixedTime |-> TRUE]
            b == BuildContract(r)
            a == ApplyBinding(b)
            c == Reconcile(a, run)
<1>1. IsContract(b) /\ IsContract(a) /\ IsContract(c)
  BY BuiltContract, BoundContract, ReconciledContract
<1>2. /\ b.pedestrian = PedestrianPhases(r)
      /\ b.pedestrianRequired <=> PedestrianPhaseRequired /\ PedestrianPhases(r) # {}
      /\ \A g \in Groups : b.groups[g] = GroupContract(r, g)
  BY DEF BuildContract
<1>. HIDE DEF b
<1>3. /\ a.bound = TRUE /\ a.pedestrian = b.pedestrian
      /\ a.pedestrianRequired = b.pedestrianRequired
      /\ \A g \in Groups : a.groups[g] = BindGroup(b.groups[g], g)
  BY <1>1 DEF ApplyBinding, IsContract, Fields
<1>. HIDE DEF a
<1>4. /\ c.sequence = [i \in PhaseIndices(r) |-> i] /\ c.service = ServicePhases(r)
      /\ c.intergreen = IntergreenPhases(r) /\ c.cycle = CycleOf(r)
      /\ c.bound = a.bound /\ c.pedestrian = a.pedestrian
      /\ c.pedestrianRequired = a.pedestrianRequired
      /\ \A g \in Groups : c.groups[g] = RemapGroup(r, g, a.groups[g])
  BY <1>1 DEF Reconcile, IsContract, Fields
<1>. HIDE DEF c
<1>5. ASSUME NEW g \in Groups
      PROVE  /\ c.groups[g].protected <=> ProtectedPhases(r, LinksOf[g]) # {}
             /\ c.groups[g].serves => g \in PriorityGroups
             /\ GroupMatrixKnown(g) => c.groups[g].known
             /\ c.groups[g].phase =
                    LET protected == ProtectedPhases(r, LinksOf[g])
                        candidates == IF protected # {} THEN protected
                                      ELSE GreenPhases(r, LinksOf[g])
                    IN IF candidates = {} THEN NoPhase
                       ELSE BestPhase(r, LinksOf[g], candidates)
  <2>. DEFINE built == b.groups[g]
              bound == a.groups[g]
              group == c.groups[g]
  <2>1. /\ built = GroupContract(r, g) /\ bound = BindGroup(built, g)
        /\ group = RemapGroup(r, g, bound)
    BY <1>2, <1>3, <1>4
  <2>. HIDE DEF built, bound, group
  <2>2. /\ built.phase = TargetPhase(r, LinksOf[g]) /\ built.serves = (g \in PriorityGroups)
        /\ built.protected = (ProtectedPhases(r, LinksOf[g]) # {})
        /\ DOMAIN built = {"phase", "serves", "protected", "conflicts", "known"}
    BY <2>1 DEF GroupContract
  <2>3. /\ bound.phase = built.phase /\ bound.serves = built.serves
        /\ bound.protected = built.protected
        /\ GroupMatrixKnown(g) => bound.known = TRUE
        /\ DOMAIN bound = {"phase", "serves", "protected", "conflicts", "known"}
    <3>. HIDE DEF GroupMatrixKnown, GroupConflicts
    <3>1. CASE GroupMatrixKnown(g)
      BY <2>1, <2>2, <3>1 DEF BindGroup
    <3>2. CASE ~GroupMatrixKnown(g)
      BY <2>1, <2>2, <3>2 DEF BindGroup
    <3>. QED
      BY <3>1, <3>2
  <2>4. /\ group.phase = RuntimePhase(r, g, bound) /\ group.serves = bound.serves
        /\ group.protected = bound.protected /\ group.known = bound.known
    BY <2>1, <2>3 DEF RemapGroup
  <2>5. group.phase =
            LET protected == ProtectedPhases(r, LinksOf[g])
                candidates == IF protected # {} THEN protected
                              ELSE GreenPhases(r, LinksOf[g])
            IN IF candidates = {} THEN NoPhase
               ELSE BestPhase(r, LinksOf[g], candidates)
    <3>1. CASE ProtectedPhases(r, LinksOf[g]) # {}
      BY <2>2, <2>3, <2>4, <3>1 DEF RuntimePhase, TargetPhase
    <3>2. CASE ProtectedPhases(r, LinksOf[g]) = {}
      BY <2>2, <2>3, <2>4, <3>2 DEF RuntimePhase, TargetPhase
    <3>. QED
      BY <3>1, <3>2
  <2>. QED
    BY <2>2, <2>3, <2>4, <2>5 DEF group
<1>. QED
  BY <1>2, <1>3, <1>4, <1>5 DEF Describes, c, a, b

\* A group is given a phase of the program in which it is green.
LEMMA GroupsAreGreen ==
    ASSUME NEW r \in Seq(Phase), NEW g \in Groups, NEW group,
           group.protected <=> ProtectedPhases(r, LinksOf[g]) # {},
           group.phase =
               LET protected == ProtectedPhases(r, LinksOf[g])
                   candidates == IF protected # {} THEN protected
                                 ELSE GreenPhases(r, LinksOf[g])
               IN IF candidates = {} THEN NoPhase
                  ELSE BestPhase(r, LinksOf[g], candidates)
    PROVE  \/ group.phase = NoPhase
           \/ group.phase \in PhaseIndices(r) /\ GroupIsGreen(group, r)
<1>1. CASE ProtectedPhases(r, LinksOf[g]) # {}
  <2>. DEFINE i == BestPhase(r, LinksOf[g], ProtectedPhases(r, LinksOf[g]))
  <2>1. group.phase = i /\ group.protected
    BY <1>1
  <2>2. ProtectedPhases(r, LinksOf[g]) \in SUBSET PhaseIndices(r)
    BY DEF ProtectedPhases
  <2>3. i \in ProtectedPhases(r, LinksOf[g])
    BY <1>1, <2>2, BestPhaseIsACandidate
  <2>. HIDE DEF i
  <2>4. i \in PhaseIndices(r) /\ Protected(r[i].state) # {}
    BY <2>3 DEF ProtectedPhases
  <2>. QED
    BY <2>1, <2>4 DEF GroupIsGreen
<1>2. CASE ProtectedPhases(r, LinksOf[g]) = {} /\ GreenPhases(r, LinksOf[g]) # {}
  <2>. DEFINE i == BestPhase(r, LinksOf[g], GreenPhases(r, LinksOf[g]))
  <2>1. group.phase = i /\ ~group.protected
    BY <1>2
  <2>2. GreenPhases(r, LinksOf[g]) \in SUBSET PhaseIndices(r)
    BY DEF GreenPhases
  <2>3. i \in GreenPhases(r, LinksOf[g])
    BY <1>2, <2>2, BestPhaseIsACandidate
  <2>. HIDE DEF i
  <2>4. i \in PhaseIndices(r) /\ Greens(r[i].state) # {}
    BY <2>3 DEF GreenPhases
  <2>. QED
    BY <2>1, <2>4 DEF GroupIsGreen
<1>3. CASE ProtectedPhases(r, LinksOf[g]) = {} /\ GreenPhases(r, LinksOf[g]) = {}
  BY <1>3
<1>. QED
  BY <1>1, <1>2, <1>3

LEMMA AppliedVerifies ==
    ASSUME NEW p \in Seq(Phase), NEW o, IsOverrides(o), ApplyPhaseProgram(p, o) # Failed,
           FourPhases(p, o), GreensOnlyShrink(p, o),
           AllRedRoles \subseteq DOMAIN o, \A role \in AllRedRoles : o[role] >= MinAllRed,
           \A role \in {"main_yellow", "cross_yellow"} : o[role] >= MinYellow,
           BindingEnabled, \A g \in PriorityGroups : GroupMatrixKnown(g)
    PROVE  LET r == ApplyPhaseProgram(p, o)
               run == [phases |-> r, fixedTime |-> TRUE]
           IN VerifyContract(Reconcile(ApplyBinding(BuildContract(r)), run), run) = {}
<1>. DEFINE r == ApplyPhaseProgram(p, o)
            run == [phases |-> r, fixedTime |-> TRUE]
            c == Reconcile(ApplyBinding(BuildContract(r)), run)
            inside == PhaseIndices(r)
<1>1. r \in Seq(Phase) /\ r # Unreadable
  BY InsertionsKeep DEF Failed, Unreadable
<1>2. /\ Describes(c, r) /\ c.bound /\ c.cycle = CycleOf(r)
      /\ c.intergreen = IntergreenPhases(r) /\ c.pedestrian = PedestrianPhases(r)
      /\ c.pedestrianRequired => PedestrianPhases(r) # {}
      /\ \A g \in Groups :
             /\ c.groups[g].protected <=> ProtectedPhases(r, LinksOf[g]) # {}
             /\ c.groups[g].serves => g \in PriorityGroups
             /\ GroupMatrixKnown(g) => c.groups[g].known
             /\ c.groups[g].phase =
                    LET protected == ProtectedPhases(r, LinksOf[g])
                        candidates == IF protected # {} THEN protected
                                      ELSE GreenPhases(r, LinksOf[g])
                    IN IF candidates = {} THEN NoPhase
                       ELSE BestPhase(r, LinksOf[g], candidates)
  <2>. HIDE DEF r
  <2>. QED
    BY <1>1, StartedContract
<1>3. Chained(r, {})
  BY ChainedProgram
<1>4. \A i \in inside : Greens(r[i].state) = {} /\ (\E l \in Links : r[i].state[l] = "y")
          => r[i].duration >= MinYellow
  <2>. SUFFICES ASSUME NEW i \in inside, Greens(r[i].state) = {},
                       \E l \in Links : r[i].state[l] = "y"
                PROVE  r[i].duration >= MinYellow
    OBVIOUS
  <2>1. i \in DOMAIN r
    BY <1>1 DEF PhaseIndices
  <2>2. PICK role \in {"main_yellow", "cross_yellow"} : r[i].duration = o[role]
    BY <2>1, YellowsTimed
  <2>. QED
    BY <2>2
<1>5. run.phases = r /\ run.fixedTime = TRUE
  OBVIOUS
<1>. HIDE DEF r, run, c
<1>6. MissingAllRed(c, r) = {}
  BY <1>1, <1>2, <1>3, ChainedMissesNone
<1>7. \A g \in Groups : \/ c.groups[g].phase = NoPhase
                        \/ c.groups[g].phase \in inside /\ GroupIsGreen(c.groups[g], r)
  BY <1>1, <1>2, GroupsAreGreen
<1>8. c.service = ServicePhases(r) /\ c.sequence = [i \in inside |-> i]
  BY <1>2 DEF Describes
<1>9. /\ ServicePhases(r) \subseteq inside /\ IntergreenPhases(r) \subseteq inside
      /\ \A i \in IntergreenPhases(r) : Greens(r[i].state) = {}
  BY ServicePhase DEF ServicePhases, GreenPhases, IntergreenPhases
<1>10. NoPhase \notin inside
  BY DEF NoPhase, PhaseIndices
<1>. DEFINE mapped == {c.groups[g] : g \in Groups}
            present == {group \in mapped : group.phase \in inside}
<1>11. ~\E group \in mapped : group.phase \notin inside \cup {NoPhase}
  BY <1>7
<1>12. Range(c.sequence) \cup c.service \cup c.intergreen \subseteq inside
  <2>1. Range(c.sequence) \subseteq inside
    BY <1>8 DEF Range
  <2>. QED
    BY <1>2, <1>8, <1>9, <2>1
<1>13. ~\E group \in present : ~GroupIsGreen(group, r)
  BY <1>7, <1>10
<1>14. ~\E i \in c.intergreen \cap inside : Greens(r[i].state) # {}
  BY <1>2, <1>9
<1>15. ~\E i \in c.intergreen \cap inside :
            /\ \E l \in Links : r[i].state[l] = "y"
            /\ r[i].duration < MinYellow
  <2>. SUFFICES ASSUME NEW i \in c.intergreen \cap inside, \E l \in Links : r[i].state[l] = "y"
                PROVE  ~(r[i].duration < MinYellow)
    OBVIOUS
  <2>1. Greens(r[i].state) = {}
    BY <1>2, <1>9
  <2>2. r[i].duration >= MinYellow
    BY <1>4, <2>1
  <2>3. r[i].duration \in Int /\ MinYellow \in Int
    <3>1. r[i] \in Phase
      BY <1>1 DEF PhaseIndices
    <3>. QED
      BY <3>1, ContractAssumption DEF Phase
  <2>. QED
    BY <2>2, <2>3
<1>16. ~(c.pedestrianRequired /\ ~HasPedestrianPhase(c, r))
  <2>. SUFFICES ASSUME c.pedestrianRequired PROVE HasPedestrianPhase(c, r)
    OBVIOUS
  <2>1. PICK i : i \in PedestrianPhases(r)
    BY <1>2
  <2>2. /\ i \in inside /\ Greens(r[i].state) # {} /\ Greens(r[i].state) \cap VehicleLinks = {}
    BY <2>1 DEF PedestrianPhases, GreenPhases
  <2>. QED
    BY <1>2, <2>1, <2>2 DEF HasPedestrianPhase
<1>17. StructureProblems(c, r) = {}
  <2>. HIDE DEF mapped, present, inside
  <2>1. StructureProblems(c, r) =
            If(\E group \in mapped : group.phase \notin inside \cup {NoPhase},
               "group outside the program")
            \cup If(~(Range(c.sequence) \cup c.service \cup c.intergreen \subseteq inside),
                    "phase outside the program")
            \cup If(\E group \in present : ~GroupIsGreen(group, r), "group without green")
            \cup If(\E i \in c.intergreen \cap inside : Greens(r[i].state) # {},
                    "intergreen with green")
            \cup If(\E i \in c.intergreen \cap inside :
                        /\ \E l \in Links : r[i].state[l] = "y"
                        /\ r[i].duration < MinYellow, "short yellow")
            \cup If(MinAllRed > 0 /\ MissingAllRed(c, r) # {}, "no all-red")
            \cup If(CycleOf(r) # c.cycle, "other cycle")
            \cup If(c.pedestrianRequired /\ ~HasPedestrianPhase(c, r), "no pedestrian phase")
    BY Zenon DEF StructureProblems, mapped, present, inside
  <2>. QED
    BY <1>2, <1>6, <1>11, <1>12, <1>13, <1>14, <1>15, <1>16, <2>1 DEF If
<1>18. ~\E g \in Groups : LacksConflictMatrix(c.groups[g])
  BY <1>2 DEF LacksConflictMatrix
<1>19. VerifyContract(c, run) = {}
  BY <1>1, <1>5, <1>17, <1>18 DEF VerifyContract, If
<1>. QED
  BY <1>19 DEF c, run, r

\* A session on the program of the network holds the contract and the problems
\* that it started with.
SessionInv ==
    applied /\ running = [phases |-> net, fixedTime |-> TRUE] =>
        /\ contract = Reconcile(ApplyBinding(BuildContract(net)), running)
        /\ problems = VerifyContract(contract, running)

LEMMA AppliedNet ==
    ASSUME NetInv, applied
    PROVE  \E p \in Compiled, s \in TlsPrograms :
               /\ overrides = BuildTlsOffsets(s.program, s.cycle) /\ overrides # Failed
               /\ net = ApplyPhaseProgram(p, overrides) /\ net # Failed
BY DEF NetInv

LEMMA SessionInvStep ==
    ASSUME VerifiablePrograms, NetInv, NetInv', SessionInv, [Next]_vars
    PROVE  SessionInv'
<1>. DEFINE Own == [phases |-> net, fixedTime |-> TRUE]
<1>1. applied' => Own' \notin Replacements \cup {None}
  <2>. SUFFICES ASSUME applied' PROVE Own' \notin Replacements \cup {None}
    OBVIOUS
  <2>1. PICK p \in Compiled, s \in TlsPrograms :
            /\ overrides' = BuildTlsOffsets(s.program, s.cycle) /\ overrides' # Failed
            /\ net' = ApplyPhaseProgram(p, overrides') /\ net' # Failed
    BY DEF NetInv
  <2>. QED
    BY <2>1 DEF VerifiablePrograms
<1>. HIDE DEF Own
<1>2. CASE Rebuild
  BY <1>2 DEF Rebuild, Build, SessionInv
<1>3. CASE ApplyOffsets
  <2>1. running' = None /\ applied'
    BY <1>3 DEF ApplyOffsets, session
  <2>2. running' # Own'
    BY <1>1, <2>1
  <2>. QED
    BY <2>2 DEF SessionInv, Own
<1>4. CASE StartSession
  <2>1. /\ net' = net
        /\ contract' = Reconcile(ApplyBinding(BuildContract(net)), running')
        /\ problems' = VerifyContract(contract', running')
    BY <1>4 DEF StartSession, files
  <2>. QED
    BY <2>1 DEF SessionInv
<1>5. CASE ProgramAdvances \/ UNCHANGED vars
  <2>1. /\ net' = net /\ applied' = applied /\ running' = running
        /\ contract' = contract /\ problems' = problems
    BY <1>5 DEF ProgramAdvances, files, session, vars
  <2>. QED
    BY <2>1 DEF SessionInv
<1>6. CASE SwitchProgram
  <2>1. running' \in Replacements
    BY <1>6 DEF SwitchProgram
  <2>2. applied' => running' # Own'
    BY <1>1, <2>1
  <2>. QED
    BY <2>2 DEF SessionInv, Own
<1>7. CASE EndSession
  <2>1. running' = None
    BY <1>7 DEF EndSession
  <2>2. applied' => running' # Own'
    BY <1>1, <2>1
  <2>. QED
    BY <2>2 DEF SessionInv, Own
<1>. QED
  BY <1>2, <1>3, <1>4, <1>5, <1>6, <1>7 DEF Next

\* Where the programs, the yellows and the conflicts are as VerifiablePrograms
\* says, a scenario that gives both all-red times their minimum yields, with all
\* its insertions, a program that the control loop verifies without a problem.
THEOREM OverriddenAlwaysVerify == VerifiablePrograms => (Spec => []OverriddenProgramsVerify)
<1>. SUFFICES ASSUME VerifiablePrograms PROVE Spec => []OverriddenProgramsVerify
  OBVIOUS
<1>1. Init => SessionInv
  BY DEF Init, SessionInv
<1>2. NetInv /\ NetInv' /\ SessionInv /\ [Next]_vars => SessionInv'
  BY SessionInvStep
<1>3. NetInv /\ SessionInv => OverriddenProgramsVerify
  <2>. SUFFICES ASSUME NetInv, SessionInv, applied,
                       AllRedRoles \subseteq DOMAIN overrides,
                       \A role \in AllRedRoles : overrides[role] >= MinAllRed,
                       running = [phases |-> net, fixedTime |-> TRUE]
                PROVE  problems = {}
    BY DEF OverriddenProgramsVerify
  <2>1. PICK p \in Compiled, s \in TlsPrograms :
            /\ overrides = BuildTlsOffsets(s.program, s.cycle) /\ overrides # Failed
            /\ net = ApplyPhaseProgram(p, overrides) /\ net # Failed
    BY AppliedNet
  <2>2. /\ IsOverrides(overrides) /\ p \in Seq(Phase)
        /\ ApplyPhaseProgram(p, overrides) # Failed
    BY <2>1, NetOverrides, CompiledPrograms
  <2>3. /\ FourPhases(p, overrides) /\ GreensOnlyShrink(p, overrides)
        /\ \A role \in {"main_yellow", "cross_yellow"} : overrides[role] >= MinYellow
        /\ BindingEnabled /\ \A g \in PriorityGroups : GroupMatrixKnown(g)
    BY <2>1 DEF VerifiablePrograms
  <2>. DEFINE r == ApplyPhaseProgram(p, overrides)
              run == [phases |-> r, fixedTime |-> TRUE]
  <2>4. VerifyContract(Reconcile(ApplyBinding(BuildContract(r)), run), run) = {}
    BY <2>2, <2>3, AppliedVerifies
  <2>5. r = net /\ run = running
    BY <2>1
  <2>. HIDE DEF r, run
  <2>6. VerifyContract(Reconcile(ApplyBinding(BuildContract(net)), running), running) = {}
    BY <2>4, <2>5, Zenon
  <2>. QED
    BY <2>6 DEF SessionInv
<1>. QED
  BY <1>1, <1>2, <1>3, NetInit, NetStep, PTL DEF Spec

-----------------------------------------------------------------------------
(* The two properties of a verified signal.                                 *)

\* Where the verification allows red to be cut short, no link turns green while
\* one that it conflicts with still shows yellow or loses its green beside it:
\* for every network and every program (verify_contract), as long as yellow
\* follows green, no phase mixes yellow with a green that others follow, and no
\* green is interrupted beside one that ends.
THEOREM VerifiedGreenFollowsRed ==
    ASSUME MinAllRed > 0
    PROVE  Spec /\ []ProgramsWellPhased => GreenOnlyAfterFoesAreRed
<1>1. InSession /\ ProgramsWellPhased /\ [Next]_vars =>
          [/\ IsCurrent /\ EarlyGreenActuable(problems) /\ running' = running
           => LET from == running.phases[at].state
                  to == running.phases[at'].state
              IN \A l \in Greens(to) \ Greens(from) : \A k \in LinkConflicts(l) :
                     from[k] = "r" \/ k \in Greens(to)]_vars
  <2>. SUFFICES ASSUME InSession, ProgramsWellPhased, Next, vars' # vars,
                       IsCurrent, EarlyGreenActuable(problems), running' = running,
                       NEW l \in Greens(running.phases[at'].state)
                                   \ Greens(running.phases[at].state),
                       NEW k \in LinkConflicts(l)
                PROVE  \/ running.phases[at].state[k] = "r"
                       \/ k \in Greens(running.phases[at'].state)
    OBVIOUS
  <2>1. running # None /\ running.phases # Unreadable
    BY DEF IsCurrent
  <2>2. ProgramAdvances
    BY <2>1 DEF Next, Rebuild, ApplyOffsets, StartSession, SwitchProgram, EndSession
  <2>3. at' = After(running.phases, at)
    BY <2>2 DEF ProgramAdvances, After
  <2>4. WellPhased(running.phases) /\ running.phases \in Seq(Phase)
    BY <2>1 DEF ProgramsWellPhased, WellPhased
  <2>5. IsContract(contract) /\ at \in PhaseIndices(running.phases)
    BY <2>1, <2>4 DEF InSession
  <2>6. Describes(contract, running.phases)
    BY <2>5, CurrentContract DEF Describes
  <2>7. MissingAllRed(contract, running.phases) = {}
    BY NoAllRedIsMissing
  <2>. QED
    BY <2>3, <2>4, <2>5, <2>6, <2>7, VerifiedTransition
<1>. QED
  BY <1>1, SessionInit, SessionStep, PTL DEF Spec, GreenOnlyAfterFoesAreRed
===============================================================================
