----------------------------- MODULE SignalView ------------------------------
(***************************************************************************)
(* What the decision code reads of a signal (SignalState) and how it finds *)
(* the movement of a request in it (src/pps57_opt/state.py,                *)
(* src/pps57_tsp/engine.py, safety.py, signal_control.py).                 *)
(*                                                                         *)
(* A view is a record: phase, spent and left (next_switch_s - sim_time_s)  *)
(* may be Unread; "state" is the sequence of signal characters, "links"    *)
(* the controlled links, each a set of [from, to] with the lane it leaves  *)
(* and the edge it enters, and "lanes" the controlled lanes.               *)
(***************************************************************************)
EXTENDS Seconds, Sequences, FiniteSets, FiniteSetsExt

CONSTANTS
    Unread,   \* a value TraCI did not deliver (None)
    Nowhere,  \* an empty lane, edge or phase
    EdgeOf    \* [lanes -> edges]

\* _controlled_links_match_request
Matches(links, req) ==
    /\ req.lane # Nowhere
    /\ \E link \in links :
           link.from = req.lane /\ (req.next = Nowhere \/ link.to = req.next)

LinkPositions(view, req) ==
    {i \in DOMAIN view.links \cap DOMAIN view.state : Matches(view.links[i], req)}

LanePositions(view, req) ==
    {i \in DOMAIN view.lanes \cap DOMAIN view.state : view.lanes[i] = req.lane}

EdgePositions(view, req) ==
    {i \in DOMAIN view.lanes \cap DOMAIN view.state : EdgeOf[view.lanes[i]] = req.edge}

\* The position that speaks for the movement: its first link, else its lane,
\* else, where the group allows it, its edge; 0 if there is none.
MovementPosition(view, req, edgeFallback) ==
    CASE LinkPositions(view, req) # {} -> Min(LinkPositions(view, req))
      [] LinkPositions(view, req) = {} /\ LanePositions(view, req) # {} ->
             Min(LanePositions(view, req))
      [] LinkPositions(view, req) \cup LanePositions(view, req) = {}
             /\ edgeFallback /\ EdgePositions(view, req) # {} ->
             Min(EdgePositions(view, req))
      [] OTHER -> 0

IsGreenFor(char, protected) == char = "G" \/ (char = "g" /\ ~protected)

Yellows == {"y", "Y"}

AnyYellow(view) == \E i \in DOMAIN view.state : view.state[i] \in Yellows

\* phase_sequence_clearance_problem: the target lies ahead in the sequence of
\* the contract, with an intergreen phase in between.
Between(sequence, current, target) ==
    {i \in DOMAIN sequence :
        \E c, t \in DOMAIN sequence :
            /\ sequence[c] = current /\ sequence[t] = target
            /\ LET after(k) == (k - c) % Len(sequence)
               IN  0 < after(i) /\ after(i) < after(t)}

SequenceClear(contract, current, target) ==
    /\ current \notin {Unread, Nowhere} /\ target \notin {Unread, Nowhere}
    /\ current # target
    /\ \E i \in Between(contract.sequence, current, target) :
           contract.sequence[i] \in contract.intergreens

\* min_green_for_phase with the global min_green_s: the larger of the two.
MinGreenOf(contract, minGreen, phase) ==
    Max({minGreen} \cup
        {g.minGreen : g \in {g \in contract.groups : g.phase = phase}})

\* _signal_group: by the id of the request, else by its movement.
GroupsById(contract, req) == {g \in contract.groups : g.id = req.group}
GroupsByMovement(contract, req) ==
    {g \in contract.groups : req.movement \in g.movements}

GroupsOf(contract, req) ==
    IF GroupsById(contract, req) # {} THEN GroupsById(contract, req)
    ELSE GroupsByMovement(contract, req)

Group(contract, req) == CHOOSE g \in GroupsOf(contract, req) : TRUE
=============================================================================
