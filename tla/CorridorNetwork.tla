-------------------------- MODULE CorridorNetwork --------------------------
(***************************************************************************)
(* The corridor that src/src/pps57_sumo/generate_plain_corridor.py writes  *)
(* for SUMO: the nodes and edges of the plain network and the routes over  *)
(* them.  A corridor is a sequence `net' of junctions from the city        *)
(* (east) to the ocean (west), each either a signalled junction or a ring  *)
(* roundabout with four arms.  Places are numbered along the corridor: 0   *)
(* is the terminal CITY_EAST, Len(net) + 1 is ATLANTIC_WEST.               *)
(*                                                                         *)
(* A node is <<part, place>>; an edge identifier is <<kind, from, to>>,    *)
(* where "road" joins two places, "N_in" and the like join a junction to   *)
(* its side street, and the name of an arm of a ring is the piece of the   *)
(* ring that leaves that arm.  A route identifier is <<family, place,      *)
(* way>>.                                                                  *)
(***************************************************************************)
EXTENDS Integers, Sequences, FiniteSets, SequencesExt, FiniteSetsExt, TLC

City == 0

Atlantic(net) == Len(net) + 1

IsRing(net, p) == p \in DOMAIN net /\ net[p].ring

\* The arms of a ring in the order in which it is driven.
Cycle == <<"CITY", "NORTH", "ATLANTIC", "SOUTH">>

ArmNo(arm) == CHOOSE i \in 1..4 : Cycle[i] = arm

NextArm(i) == (i % 4) + 1

(***************************************************************************)
(* Nodes and edges.                                                        *)
(***************************************************************************)

\* The node at which the road leaves p, westwards or eastwards.
SourceNode(net, p, west) ==
    IF IsRing(net, p)
    THEN <<IF west THEN "ATLANTIC" ELSE "CITY", p>>
    ELSE <<"centre", p>>

\* The node at which the road reaches p.
DestNode(net, p, west) ==
    IF IsRing(net, p)
    THEN <<IF west THEN "CITY" ELSE "ATLANTIC", p>>
    ELSE <<"centre", p>>

Nodes(net) ==
    {<<"centre", City>>, <<"centre", Atlantic(net)>>}
    \cup UNION {IF IsRing(net, p)
                THEN {<<arm, p>> : arm \in {"CITY", "NORTH", "ATLANTIC", "SOUTH"}}
                ELSE {<<"centre", p>>} : p \in DOMAIN net}
    \cup {<<side, p>> : side \in {"N", "S"}, p \in DOMAIN net}

Edge(id, from, to, lanes) == [id |-> id, from |-> from, to |-> to, lanes |-> lanes]

\* The edges to and from the terminals start and end at the junction's own
\* node, which a ring does not have: a ring is never first or last.
TerminalEdges(net) ==
    LET n == Len(net)
        Pair(t, j) ==
            {Edge(<<"road", t, j>>, <<"centre", t>>, <<"centre", j>>, net[j].major),
             Edge(<<"road", j, t>>, <<"centre", j>>, <<"centre", t>>, net[j].major)}
    IN Pair(City, 1) \cup Pair(Atlantic(net), n)

CorridorEdges(net) ==
    UNION {LET lanes == Min({net[p].major, net[p + 1].major})
           IN {Edge(<<"road", p, p + 1>>, SourceNode(net, p, TRUE), DestNode(net, p + 1, TRUE), lanes),
               Edge(<<"road", p + 1, p>>, SourceNode(net, p + 1, FALSE), DestNode(net, p, FALSE), lanes)}
           : p \in 1..(Len(net) - 1)}

\* The two side streets of every junction; a ring receives them at its
\* northern and southern arms.
MinorEdges(net) ==
    UNION {LET Mouth(side) == IF ~ IsRing(net, p) THEN <<"centre", p>>
                              ELSE <<IF side = "N" THEN "NORTH" ELSE "SOUTH", p>>
               Street(side, in, out) ==
                  {Edge(<<in, p, p>>, <<side, p>>, Mouth(side), net[p].minor),
                   Edge(<<out, p, p>>, Mouth(side), <<side, p>>, net[p].minor)}
           IN Street("N", "N_in", "N_out") \cup Street("S", "S_in", "S_out")
           : p \in DOMAIN net}

RingEdges(net) ==
    {Edge(<<Cycle[i], p, p>>, <<Cycle[i], p>>, <<Cycle[NextArm(i)], p>>, 2)
     : i \in 1..4, p \in {q \in DOMAIN net : IsRing(net, q)}}

Edges(net) ==
    TerminalEdges(net) \cup CorridorEdges(net) \cup MinorEdges(net) \cup RingEdges(net)

EdgeOf(net, id) == CHOOSE e \in Edges(net) : e.id = id

(***************************************************************************)
(* Routes.                                                                 *)
(***************************************************************************)

\* The roads of the corridor between two places, in the order driven.
West(a, b) == [k \in 1..(b - a) |-> <<"road", a + k - 1, a + k>>]
East(a, b) == [k \in 1..(a - b) |-> <<"road", a - k + 1, a - k>>]

Into(side) == IF side = "N" THEN "N_in" ELSE "S_in"
OutOf(side) == IF side = "N" THEN "N_out" ELSE "S_out"

CrossRoutes(net) ==
    [r \in {"cross"} \X (DOMAIN net) \X {"N", "S"} |->
        <<<<Into(r[3]), r[2], r[2]>>, <<OutOf(IF r[3] = "N" THEN "S" ELSE "N"), r[2], r[2]>>>>]

\* The eight turning movements of every junction.
TurningRoutes(net) ==
    LET Sides == {"N", "S"}
        Ways == {"city", "atlantic"}
    IN [r \in {"inbound"} \X (DOMAIN net) \X Sides |->
            Append(East(Atlantic(net), r[2]), <<OutOf(r[3]), r[2], r[2]>>)]
       @@ [r \in {"outbound"} \X (DOMAIN net) \X Sides |->
            Append(West(City, r[2]), <<OutOf(r[3]), r[2], r[2]>>)]
       @@ [r \in {"minor_N"} \X (DOMAIN net) \X Ways |->
            <<<<"N_in", r[2], r[2]>>>>
                \o (IF r[3] = "city" THEN East(r[2], City) ELSE West(r[2], Atlantic(net)))]
       @@ [r \in {"minor_S"} \X (DOMAIN net) \X Ways |->
            <<<<"S_in", r[2], r[2]>>>>
                \o (IF r[3] = "city" THEN East(r[2], City) ELSE West(r[2], Atlantic(net)))]

ThroughRoutes(net) ==
    (<<"boavista", 0, "west">> :> West(City, Atlantic(net)))
    @@ (<<"boavista", 0, "east">> :> East(Atlantic(net), City))
    @@ (<<"emergency", 0, "east">> :> East(Atlantic(net), City))

\* The arm by which an edge enters or leaves the ring at p; "none" when it
\* does not touch it.
ArmEntered(p, id) ==
    CASE id = <<"road", p - 1, p>> -> "CITY"
      [] id = <<"road", p + 1, p>> -> "ATLANTIC"
      [] id = <<"N_in", p, p>>     -> "NORTH"
      [] id = <<"S_in", p, p>>     -> "SOUTH"
      [] OTHER                     -> "none"

ArmLeft(p, id) ==
    CASE id = <<"road", p, p - 1>> -> "CITY"
      [] id = <<"road", p, p + 1>> -> "ATLANTIC"
      [] id = <<"N_out", p, p>>    -> "NORTH"
      [] id = <<"S_out", p, p>>    -> "SOUTH"
      [] OTHER                     -> "none"

\* Mutant: the ring is driven one piece too far.
PathPastTheArm(p, in, out) ==
    LET i == ArmNo(ArmEntered(p, in))
        j == ArmNo(ArmLeft(p, out))
        steps == (j - i + 4) % 4
    IN [k \in 1..(IF steps = 0 THEN 0 ELSE steps + 1) |-> <<Cycle[((i + k - 2) % 4) + 1], p, p>>]

\* The pieces of the ring at p between two edges of a route; entering and
\* leaving by the same arm takes none of them.
InternalPath(p, in, out) ==
    LET i == ArmNo(ArmEntered(p, in))
        j == ArmNo(ArmLeft(p, out))
    IN [k \in 1..((j - i + 4) % 4) |-> <<Cycle[((i + k - 2) % 4) + 1], p, p>>]

\* A route that touches a ring without crossing it is refused.
Derivable(net, route) ==
    \A k \in 1..(Len(route) - 1) : \A p \in {q \in DOMAIN net : IsRing(net, q)} :
        (ArmEntered(p, route[k]) = "none") <=> (ArmLeft(p, route[k + 1]) = "none")

Expanded(net, route) ==
    LET Crossed(k) == {p \in DOMAIN net : IsRing(net, p)
                           /\ ArmEntered(p, route[k]) # "none"
                           /\ ArmLeft(p, route[k + 1]) # "none"}
        Piece(k) ==
            <<route[k]>> \o
            (IF k = Len(route) \/ Crossed(k) = {} THEN <<>>
             ELSE LET p == Min(Crossed(k)) IN InternalPath(p, route[k], route[k + 1]))
    IN FlattenSeq([k \in DOMAIN route |-> Piece(k)])

\* The configuration's own routes replace those of the same name.
PlainRoutes(net, authored) ==
    authored @@ ThroughRoutes(net) @@ CrossRoutes(net) @@ TurningRoutes(net)

RoutesDerivable(net, authored) ==
    LET plain == PlainRoutes(net, authored)
    IN \A r \in DOMAIN plain : Derivable(net, plain[r])

Routes(net, authored) ==
    LET plain == PlainRoutes(net, authored)
    IN [r \in DOMAIN plain |-> Expanded(net, plain[r])]

(***************************************************************************)
(* Bus stops, detectors and parking areas, placed on the lanes of an edge  *)
(* of the given length.  Lengths and positions are in tenths of a metre;   *)
(* with sidewalks netconvert inserts lane 0, so every lane moves up.       *)
(***************************************************************************)

LaneOffset(sidewalks) == IF sidewalks THEN 1 ELSE 0

\* A bus stop or parking area of an unknown edge or lane stops the generator.
StopPlaceable(net, stop) ==
    \E e \in Edges(net) : e.id = stop.edge /\ stop.lane \in 0..(e.lanes - 1)

\* A calibrator of an unknown edge does, too.
CalibratorPlaceable(net, calibrator) == \E e \in Edges(net) : e.id = calibrator.edge

BusStop(stop, length, sidewalks) ==
    LET half == stop.length \div 2
        centre == Min({Max({stop.centre, half + 10}), length - half - 10})
    IN [lane |-> stop.lane + LaneOffset(sidewalks),
        start |-> Max({1, centre - half}), end |-> Min({length - 1, centre + half})]

\* A parking area keeps the positions it was given: SUMO is asked to be
\* lenient about those past the end of the lane.
ParkingArea(area, sidewalks) ==
    [lane |-> area.lane + LaneOffset(sidewalks), start |-> area.start, end |-> area.end,
     capacity |-> area.capacity]

\* The loop and the queue detector of every vehicle lane of an edge.
Detectors(edge, length, setback, queue, sidewalks) ==
    LET loop == Max({50, length - setback})
        start == Max({10, loop - queue \div 2})
    IN {[lane |-> l + LaneOffset(sidewalks), loop |-> loop, start |-> start,
         end |-> start + Min({queue, Max({50, length - start - 10})})] : l \in 0..(edge.lanes - 1)}

============================================================================
