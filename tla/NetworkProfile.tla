---------------------------- MODULE NetworkProfile ----------------------------
(***************************************************************************)
(* What the tools read from a compiled network: the fixed-time program of  *)
(* a traffic light, the phase that serves each movement                    *)
(* (src/pps57_sumo/network_profile.py), and the conflicts between its      *)
(* links, from the foes tables of the junctions                            *)
(* (src/pps57_sumo/network_binding.py).                                    *)
(*                                                                         *)
(* A program is a sequence of phases; a state gives each link its colour.  *)
(* Phases are numbered from 1 where the code counts from 0.                *)
(***************************************************************************)
EXTENDS Integers, Sequences, FiniteSets, FiniteSetsExt, SequencesExt

CONSTANTS
    Links,          \* link indices of the traffic light
    VehicleLinks,   \* those of connections between normal edges
    Groups,         \* signal groups: the movements (from edge, to edge)
    LinksOf,        \* [Groups -> links of the movement]
    Foes,           \* [Links -> foes of the link, or Unresolved]
    Unresolved      \* the link's internal lane has no slot in a foes table

ASSUME NetworkAssumption ==
    /\ IsFiniteSet(Links)
    /\ VehicleLinks \subseteq Links
    /\ LinksOf \in [Groups -> SUBSET VehicleLinks]
    /\ \A l \in Links : Foes[l] = Unresolved \/ Foes[l] \subseteq Links

Phase == [state : [Links -> {"G", "g", "y", "r"}], duration : Nat]

Greens(state) == {l \in Links : state[l] \in {"G", "g"}}
Protected(state) == {l \in Links : state[l] = "G"}
IsAllRed(state) == \A l \in Links : state[l] = "r"

PhaseIndices(program) == 1 .. Len(program)
GreenPhases(program, links) ==
    {i \in PhaseIndices(program) : Greens(program[i].state) \cap links # {}}
ProtectedPhases(program, links) ==
    {i \in PhaseIndices(program) : Protected(program[i].state) \cap links # {}}
ServicePhases(program) == GreenPhases(program, Links)
IntergreenPhases(program) == PhaseIndices(program) \ ServicePhases(program)
CycleOf(program) == FoldSeq(LAMBDA ph, sum : sum + ph.duration, 0, program)

-----------------------------------------------------------------------------
(* The phase that serves a group.                                           *)

\* Scores are compared component by component; the first difference decides.
Outscores(a, b) ==
    \E n \in DOMAIN a : a[n] > b[n] /\ \A k \in 1 .. (n - 1) : a[k] = b[k]

Score(program, links, i) ==
    <<Cardinality(Protected(program[i].state) \cap links),
      Cardinality(Greens(program[i].state) \cap links),
      program[i].duration, -i>>

BestPhase(program, links, candidates) ==
    CHOOSE i \in candidates : \A j \in candidates \ {i} :
        Outscores(Score(program, links, i), Score(program, links, j))

\* The candidates are the protected phases, or the green ones if there is none.
NoPhase == 0
TargetPhase(program, links) ==
    LET protected == ProtectedPhases(program, links)
        candidates ==
            IF protected # {} THEN protected ELSE GreenPhases(program, links)
    IN IF candidates = {} THEN NoPhase ELSE BestPhase(program, links, candidates)

\* Without foes: two movements conflict when no phase gives both green.
DisjointGroups(program, g) ==
    {h \in Groups \ {g} :
        GreenPhases(program, LinksOf[g]) \cap GreenPhases(program, LinksOf[h]) = {}}

-----------------------------------------------------------------------------
(* The authoritative conflicts.                                             *)

KnownLinks == {l \in Links : Foes[l] # Unresolved}

\* The link matrix is made symmetric.
LinkConflicts(l) ==
    {k \in KnownLinks \ {l} : l \in KnownLinks /\ (k \in Foes[l] \/ l \in Foes[k])}

\* The group matrix reads the group's own foes only.
GroupOfLink(l) == {g \in Groups : l \in LinksOf[g]}
GroupConflicts(g) ==
    UNION {UNION {GroupOfLink(k) : k \in Foes[l] \cap KnownLinks} :
               l \in LinksOf[g] \cap KnownLinks} \ {g}

\* One resolved link is enough for the matrix to count as known.
GroupMatrixKnown(g) == LinksOf[g] \cap KnownLinks # {}
=============================================================================
