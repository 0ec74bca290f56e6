--------------------------- MODULE ScenarioBuild ---------------------------
(***************************************************************************)
(* How one scenario becomes the SUMO inputs of its runs.  The scenario's   *)
(* profile is laid over the base configuration and validated               *)
(* (src/src/pps57_sumo/scenarios.py); then every leaf of the campaign, one *)
(* arm with one random seed, copies the result, draws its own stochastic   *)
(* incidents (src/scripts/run_sumo_scenario.py) and generates network and  *)
(* traffic (generate_plain_corridor.py).                                   *)
(*                                                                         *)
(* The random generators are functions of the seed: `draws[seed]' is what  *)
(* they yield.  Its `incidents' are, for each template in turn, whether    *)
(* the incident happens, which of the possible places, when and how long.  *)
(***************************************************************************)
EXTENDS CorridorNetwork, DemandProfiles

CONSTANTS Bases,        \* base configurations
          Seeds,        \* random seeds of the replications
          Draws         \* what the random generators of one seed can yield

Arms == {"baseline", "tsp_actuation"}

VARIABLES
    base,       \* the configuration file, which holds the scenario's profile
    draws,      \* what each seed yields
    config,     \* the scenario's configuration once applied
    refused,    \* the scenario was refused
    leaves      \* the generated leaves, by arm and seed

vars == <<base, draws, config, refused, leaves>>

NoConfig == <<>>

(***************************************************************************)
(* What the profile overrides.                                             *)
(***************************************************************************)

StopsOverridden(stops, overrides) ==
    [s \in DOMAIN stops |->
        IF s \in DOMAIN overrides THEN [stops[s] EXCEPT !.dwell = overrides[s]] ELSE stops[s]]

\* An override names a line code, or a line and its direction.
ServiceMatches(service, override) ==
    IF override.code # "" THEN service.code = override.code
    ELSE service.line = override.line /\ service.direction = override.direction

ServicesOverridden(services, overrides) ==
    LET Override(all, o) ==
            [k \in DOMAIN all |-> IF ServiceMatches(all[k], o) THEN o.set @@ all[k] ELSE all[k]]
    IN FoldLeft(Override, services, overrides)

OverridesMatch(services, overrides) ==
    \A o \in Range(overrides) : \E s \in Range(services) : ServiceMatches(s, o)

\* The more specific override wins, field by field; percentages scale, a
\* delta is added.
VehicleOverridden(type, o) ==
    LET merged == (IF type.id \in DOMAIN o.byId THEN o.byId[type.id] ELSE <<>>)
                  @@ (IF type.class \in DOMAIN o.byClass THEN o.byClass[type.class] ELSE <<>>)
                  @@ o.all
        Scaled(field, value) ==
            IF field \in DOMAIN merged THEN Rounded(value * merged[field], 100) ELSE value
    IN [type EXCEPT
           !.tau = IF "tau_delta" \in DOMAIN merged THEN @ + merged.tau_delta ELSE @,
           !.decel = Scaled("decel_multiplier", @),
           !.emergencyDecel = Scaled("decel_multiplier", @),
           !.speed = Scaled("speed_factor_multiplier", @)]

KnownTypes(types) == {types[k].id : k \in DOMAIN types}

MixesOverridden(mixes, overrides) ==
    [k \in DOMAIN mixes |->
        IF mixes[k].id \in DOMAIN overrides
        THEN [mixes[k] EXCEPT !.components = overrides[mixes[k].id]] ELSE mixes[k]]

OverriddenMixesKnown(mixes, overrides, types) ==
    \A k \in DOMAIN mixes :
        mixes[k].id \in DOMAIN overrides =>
            /\ overrides[mixes[k].id] # <<>>
            /\ \A c \in Range(overrides[mixes[k].id]) : c.type \in KnownTypes(types)

(***************************************************************************)
(* Stochastic incidents.                                                   *)
(***************************************************************************)

\* Mutant: every pair of a route and an edge.
EveryPair(c, template) == template.routes \X template.edges

\* The routes and edges of a template that fit together.
CompatiblePairs(c, template) ==
    LET routes == Routes(c.net, c.authored)
    IN {pair \in template.routes \X template.edges :
          pair[1] \in DOMAIN routes /\ pair[2] \in Range(routes[pair[1]])}

Happens(draw, k) == draw.incidents[k].happens

\* A template that happens but has no place to happen is refused.
IncidentsPossible(c, draw) ==
    \A k \in DOMAIN c.templates :
        Happens(draw, k) /\ c.templates[k].routes # {} /\ c.templates[k].edges # {}
            => CompatiblePairs(c, c.templates[k]) # {}

Incident(c, k, d) ==
    LET pairs == SetToSeq(CompatiblePairs(c, c.templates[k]))
        place == pairs[(d.place % Len(pairs)) + 1]
    IN [kind |-> "stopped_vehicle", route |-> place[1], stopEdge |-> place[2],
        depart |-> c.templates[k].window[1]
                     + (d.depart % (c.templates[k].window[2] - c.templates[k].window[1] + 1)),
        duration |-> Max({c.templates[k].shortest, d.duration}), stochastic |-> TRUE]

\* Mutant: the incidents already drawn are kept.
AllEvents(events) == events

\* The events that the configuration's author wrote.
Authored(events) == LET Written(e) == ~ e.stochastic IN SelectSeq(events, Written)

\* The incidents drawn for a seed take the place of those drawn before.
Materialised(c, draw) ==
    LET Drawn(k) == Happens(draw, k) /\ c.templates[k].routes # {} /\ c.templates[k].edges # {}
        drawn == SetToSortSeq({k \in DOMAIN c.templates : Drawn(k)}, <)
    IN IF c.templates = <<>> THEN c
       ELSE [c EXCEPT !.events = Authored(@)
                  \o [i \in DOMAIN drawn |-> Incident(c, drawn[i], draw.incidents[drawn[i]])]]

(***************************************************************************)
(* Laying the profile over the base, and validation.                       *)
(***************************************************************************)

Overlaid(b, profile) ==
    [net |-> b.net, authored |-> b.authored, sidewalks |-> b.sidewalks, length |-> b.length,
     coolDown |-> b.coolDown,
     end |-> IF profile.end = <<>> THEN b.end ELSE profile.end[1],
     seed |-> IF profile.seed = <<>> THEN b.seed ELSE profile.seed[1],
     active |-> profile.demand, demand |-> ResolvedProfiles(b.demand),
     stops |-> StopsOverridden(b.stops, profile.stops),
     services |-> ServicesOverridden(b.services, profile.services),
     types |-> [k \in DOMAIN b.types |-> VehicleOverridden(b.types[k], profile.vehicles)],
     mixes |-> MixesOverridden(b.mixes, profile.mixes),
     events |-> IF profile.events = <<>> THEN b.events ELSE profile.events[1],
     templates |-> profile.templates,
     areas |-> b.areas, calibrators |-> b.calibrators, parked |-> b.parked, walks |-> b.walks, rides |-> b.rides,
     thresholds |-> profile.thresholds @@ b.thresholds]

WindowOpen(begin, end) == begin < end

FlowValid(flow, routes) ==
    /\ WindowOpen(flow.begin, flow.end)
    /\ flow.period > 0
    /\ flow.route \in routes
    /\ \A e \in Range(flow.entries) : WindowOpen(e.begin, e.end) /\ e.value > 0

DwellValid(spec) ==
    IF spec.drawn THEN spec.mean > 0 /\ spec.std >= 0 /\ spec.min <= spec.max ELSE spec.mean > 0

ServiceValid(service, c, routes) ==
    LET window == ServiceWindow(service, c.end)
    IN /\ WindowOpen(window[1], window[2])
       /\ service.headway > 0
       /\ service.route \in routes
       /\ Range(service.stops) \subseteq DOMAIN c.stops
       /\ service.jitter >= 0
       /\ \A e \in Range(service.schedule) : WindowOpen(e.begin, e.end) /\ e.headway > 0

\* Shares are percentages and add up to one hundred.
MixesValid(mixes, types) ==
    /\ \A j, k \in DOMAIN mixes : mixes[j].id = mixes[k].id => j = k
    /\ \A k \in DOMAIN mixes :
          LET parts == mixes[k].components
          IN /\ parts # <<>>
             /\ \A p \in Range(parts) : p.type \in KnownTypes(types) /\ p.share \in 0..100
             /\ FoldLeft(LAMBDA n, p : n + p.share, 0, parts) = 100

EventValid(event, c, routes) ==
    /\ event.route \in DOMAIN routes
    /\ event.depart \in 0..c.end
    /\ event.kind = "stopped_vehicle" => event.stopEdge \in Range(routes[event.route])

ActiveFlows(c) == c.demand[c.active].flows

Valid(c) ==
    LET routes == Routes(c.net, c.authored)
    IN /\ c.active \in DOMAIN c.demand
       /\ ActiveFlows(c) # <<>>
       /\ \A f \in Range(ActiveFlows(c)) : FlowValid(f, DOMAIN routes)
       /\ \A s \in DOMAIN c.stops : DwellValid(c.stops[s].dwell)
       /\ \A s \in Range(c.services) : ServiceValid(s, c, DOMAIN routes)
       /\ MixesValid(c.mixes, c.types)
       /\ \A e \in Range(c.events) : EventValid(e, c, routes)

\* Every way in which laying a profile over the base can be refused.
Applicable(b, profile) ==
    /\ AllResolvable(b.demand)
    /\ OverridesMatch(b.services, profile.services)
    /\ OverriddenMixesKnown(b.mixes, profile.mixes, b.types)
    /\ RoutesDerivable(b.net, b.authored)

Accepted(b, profile, d) ==
    /\ Applicable(b, profile)
    /\ LET c == Overlaid(b, profile)
       IN IncidentsPossible(c, d[c.seed]) /\ Valid(Materialised(c, d[c.seed]))

(***************************************************************************)
(* The generated traffic and the summary of a leaf.                        *)
(***************************************************************************)

Element(kind, time, body) == [kind |-> kind, time |-> time, body |-> body]

\* What departs at a whole second.
AtSecond(kind, second, body) == Element(kind, Ticks * second, body)

\* An event that stops on the road carries its stop; any other is a vehicle
\* with the attributes it was given.
EventElement(e) ==
    AtSecond("event", e.depart,
            [route |-> e.route,
             stop |-> IF e.kind = "stopped_vehicle" THEN <<e.stopEdge, e.duration>> ELSE <<>>])

ParkingElement(e) ==
    AtSecond("parked", e.depart, [route |-> e.route, stop |-> <<e.area, e.duration>>])

\* People who walk from edge to edge, and people who walk to a bus stop and
\* ride a line; a period of nothing becomes the usual one.
PersonElement(p, usual, stages) ==
    AtSecond("person", p.begin, [end |-> p.end, stages |-> stages,
                                 period |-> IF p.period > 0 THEN p.period ELSE usual])

WalkElement(p) == PersonElement(p, 60, <<<<"walk", p.from, p.to>>>>)

RideElement(p) == PersonElement(p, 120, <<<<"walk", p.from, p.board>>, <<"ride", p.line, p.alight>>>>)

\* In the file, elements stand in the order of their times; those of one
\* time in the order in which they were produced.
InOrderOfTime(elements) ==
    LET Earlier(j, k) == \/ elements[j].time < elements[k].time
                         \/ elements[j].time = elements[k].time /\ j < k
        order == SortSeq([k \in DOMAIN elements |-> k], Earlier)
    IN [k \in DOMAIN order |-> elements[order[k]]]

Elements(c, draw) ==
    LET cars == CarElements(ActiveFlows(c), c.coolDown, c.end)
        buses == FlattenSeq([k \in DOMAIN c.services |->
                               BusElements(c.services[k], c.stops, c.end, draw)])
    IN [k \in DOMAIN cars |-> AtSecond("flow", cars[k].begin, cars[k])]
       \o [k \in DOMAIN buses |-> Element("bus", buses[k].depart, buses[k])]
       \o [k \in DOMAIN c.events |-> EventElement(c.events[k])]
       \o [k \in DOMAIN c.parked |-> ParkingElement(c.parked[k])]
       \o [k \in DOMAIN c.walks |-> WalkElement(c.walks[k])]
       \o [k \in DOMAIN c.rides |-> RideElement(c.rides[k])]

RouteFile(c, draw) ==
    [types |-> c.types, mixes |-> c.mixes, elements |-> InOrderOfTime(Elements(c, draw))]

Summary(c) ==
    [flows |-> FoldLeft(LAMBDA n, f : n + ExpandedFlowCount(f), 0, ActiveFlows(c)),
     cars |-> FoldLeft(LAMBDA n, f : n + EstimatedDepartures(f), 0, ActiveFlows(c)),
     buses |-> FoldLeft(LAMBDA n, s : n + EstimatedBuses(s, c.end), 0, c.services),
     events |-> Len(c.events)]

Generable(c) ==
    /\ \A s \in DOMAIN c.stops : StopPlaceable(c.net, c.stops[s])
    /\ \A a \in DOMAIN c.areas : StopPlaceable(c.net, c.areas[a])
    /\ \A k \in DOMAIN c.calibrators : CalibratorPlaceable(c.net, c.calibrators[k])

(***************************************************************************)
(* The steps.                                                              *)
(***************************************************************************)

Init ==
    /\ base \in Bases
    /\ draws \in [Seeds -> Draws]
    /\ config = NoConfig
    /\ refused = FALSE
    /\ leaves = <<>>

Apply ==
    /\ config = NoConfig /\ ~ refused
    /\ Accepted(base, base.profile, draws)
    /\ LET c == Overlaid(base, base.profile) IN config' = Materialised(c, draws[c.seed])
    /\ UNCHANGED <<base, draws, refused, leaves>>

Refuse ==
    /\ config = NoConfig /\ ~ refused
    /\ ~ Accepted(base, base.profile, draws)
    /\ refused' = TRUE
    /\ UNCHANGED <<base, draws, config, leaves>>

\* One leaf.  Its incidents are drawn but not validated again.
BuildLeaf(arm, seed) ==
    /\ config # NoConfig /\ <<arm, seed>> \notin DOMAIN leaves
    /\ Generable(config)
    /\ IncidentsPossible(config, draws[seed])
    /\ LET c == Materialised([config EXCEPT !.seed = seed], draws[seed])
       IN leaves' = leaves @@ (<<arm, seed>> :>
                       [config |-> c, file |-> RouteFile(c, draws[seed]), summary |-> Summary(c)])
    /\ UNCHANGED <<base, draws, config, refused>>

Next ==
    \/ Apply
    \/ Refuse
    \/ \E arm \in Arms, seed \in Seeds : BuildLeaf(arm, seed)

Spec == Init /\ [][Next]_vars

(***************************************************************************)
(* Properties.                                                             *)
(***************************************************************************)

\* Every route of an applied scenario drives over edges of the network, each
\* of which starts at the node where the one before it ends, through the
\* rings as well (build_routes and generate name the edges independently).
RoutesConnected ==
    config # NoConfig =>
        LET routes == Routes(config.net, config.authored)
            edges == Edges(config.net)
        IN \A r \in DOMAIN routes :
              /\ \A id \in Range(routes[r]) :
                    \E e \in edges : e.id = id /\ {e.from, e.to} \subseteq Nodes(config.net)
              /\ \A k \in 1..(Len(routes[r]) - 1) :
                    EdgeOf(config.net, routes[r][k]).to = EdgeOf(config.net, routes[r][k + 1]).from

\* The routes together make all twelve movements of every junction (the
\* docstring of _add_turning_movement_routes): from each of its four sides
\* to each other, with nothing but the junction's ring between.
EveryMovementRouted ==
    config # NoConfig =>
        LET routes == Routes(config.net, config.authored)
            Makes(r, p, in, out) ==
                \E j, k \in DOMAIN routes[r] :
                    /\ j < k /\ ArmEntered(p, routes[r][j]) = in /\ ArmLeft(p, routes[r][k]) = out
                    /\ \A i \in (j + 1)..(k - 1) : routes[r][i] \in {<<Cycle[n], p, p>> : n \in 1..4}
        IN \A p \in DOMAIN config.net : \A in, out \in Range(Cycle) :
              in # out => \E r \in DOMAIN routes : Makes(r, p, in, out)

\* The routes of a scenario can be driven, and together they cover all its
\* junctions.
RoutesSound == RoutesConnected /\ EveryMovementRouted

\* Bus stops and detectors lie within their edge, and with the parking areas
\* on a lane for vehicles, never on the sidewalk that netconvert inserts.
FurnitureOnLane ==
    config # NoConfig /\ Generable(config) =>
        LET Fits(place, edge) ==
                /\ 0 <= place.start /\ place.start < place.end
                /\ "capacity" \in DOMAIN place \/ place.end <= config.length
                /\ place.lane \in IF config.sidewalks THEN 1..edge.lanes ELSE 0..(edge.lanes - 1)
        IN /\ \A s \in DOMAIN config.stops :
                 Fits(BusStop(config.stops[s], config.length, config.sidewalks),
                      EdgeOf(config.net, config.stops[s].edge))
           /\ \A a \in DOMAIN config.areas :
                 Fits(ParkingArea(config.areas[a], config.sidewalks),
                      EdgeOf(config.net, config.areas[a].edge))
           /\ \A e \in Edges(config.net) :
                 \A d \in Detectors(e, config.length, 850, 800, config.sidewalks) : Fits(d, e)

\* A vehicle that stops on the road stops on an edge of its own route, in
\* every replication, although only the first draw is validated.
EventsOnTheirRoutes ==
    \A l \in DOMAIN leaves :
        \A e \in {x \in Range(leaves[l].file.elements) : x.kind = "event"} :
            LET routes == Routes(config.net, config.authored)
            IN e.body.route \in DOMAIN routes
               /\ (e.body.stop # <<>> => e.body.stop[1] \in Range(routes[e.body.route]))

\* Whatever is placed on the network, when it is generated or when a vehicle
\* breaks down, is where a vehicle can stop or drive over it.
PlacesExist == FurnitureOnLane /\ EventsOnTheirRoutes

\* In a derived profile the period of a flow is the one at the root times
\* the scale of every profile on the chain, however often the flow has been
\* renamed on the way; a flow is missing only if one of them removed it.
\* Stated for flows that no profile of the chain overrides or updates.
FlowsFollowTheirChain ==
    config # NoConfig =>
        LET chain[name \in DOMAIN base.demand] ==
                IF base.demand[name].parent = "" THEN {} ELSE {name} \cup chain[base.demand[name].parent]
            Root(name) == CHOOSE r \in DOMAIN base.demand :
                base.demand[r].parent = ""
                    /\ r \in {name} \cup {base.demand[n].parent : n \in chain[name]}
            Names(f, n) == {<<f, s>> : s \in {""} \cup {base.demand[m].suffix : m \in DOMAIN base.demand}}
            Touched(f, n) ==
                (DOMAIN base.demand[n].override \cup DOMAIN base.demand[n].updates) \cap Names(f, n) # {}
            RemovedBy(f, n) == base.demand[n].remove \cap Names(f, n) # {}
            Factor(flow, n) ==
                LET keys == DOMAIN base.demand[n].flowScale \cap Names(flow.id[1], n)
                    own == IF keys = {} THEN One ELSE base.demand[n].flowScale[CHOOSE k \in keys : TRUE]
                    routed == IF flow.route \in DOMAIN base.demand[n].routeScale
                              THEN base.demand[n].routeScale[flow.route] ELSE One
                IN base.demand[n].scale * own * routed
            Periods(name, f) == {g.period : g \in {h \in Range(config.demand[name].flows) : h.base = <<f, "">>}}
        IN \A name \in DOMAIN base.demand : \A flow \in Range(base.demand[Root(name)].flows) :
              LET f == flow.id[1]
              IN \/ \E n \in chain[name] : Touched(f, n)
                 \/ /\ \E n \in chain[name] : RemovedBy(f, n)
                    /\ Periods(name, f) = {}
                 \/ LET product == FoldSet(LAMBDA n, x : x * Factor(flow, n), 1, chain[name])
                        unit == 8 ^ Cardinality(chain[name])
                    IN /\ \A n \in chain[name] : ~RemovedBy(f, n)
                       /\ Periods(name, f) # {}
                       /\ \A p \in Periods(name, f) : p * unit = flow.period * product

\* Both arms of a replication meet the same traffic, and a replication has
\* the scenario's own events and the incidents of its own seed, whatever the
\* scenario's configuration already carried and whatever was built before.
ReplicationsIndependent ==
    \A arm \in Arms, seed \in Seeds : <<arm, seed>> \in DOMAIN leaves =>
        LET fresh == Materialised([Overlaid(base, base.profile) EXCEPT !.seed = seed], draws[seed])
        IN /\ leaves[<<arm, seed>>].config = fresh
           /\ leaves[<<arm, seed>>].file = RouteFile(fresh, draws[seed])
           /\ Len(fresh.events) <= Len(Authored(config.events)) + Len(config.templates)

OfKind(file, kind) == SelectSeq(file.elements, LAMBDA e : e.kind = kind)

\* The summary of a leaf announces the buses and events that its route file
\* holds and at least the flows, exactly as many without a cool-down.  The
\* file is in order of departure, as SUMO reads it, and every bus has an
\* identifier of its own as long as each line and direction is one service
\* whose jitter leaves a whole second between any two of its departures.
SummaryMatchesFile ==
    \A l \in DOMAIN leaves :
        LET leaf == leaves[l]
            elements == leaf.file.elements
            flows == Len(OfKind(leaf.file, "flow"))
            buses == OfKind(leaf.file, "bus")
            Way(k) == <<config.services[k].line, config.services[k].direction>>
            Headways(s) == {s.headway} \cup {e.headway : e \in Range(s.schedule)}
        IN /\ leaf.summary.buses = Len(buses)
           /\ leaf.summary.events = Len(OfKind(leaf.file, "event"))
           /\ flows <= leaf.summary.flows /\ (config.coolDown = 0 => flows = leaf.summary.flows)
           /\ \A k \in 2..Len(elements) : elements[k - 1].time <= elements[k].time
           /\ (/\ \A j, k \in DOMAIN config.services : Way(j) = Way(k) => j = k
               /\ \A s \in Range(config.services) : \A h \in Headways(s) : 2 * s.jitter + Ticks <= Ticks * h)
                 => Cardinality({b.body.id : b \in Range(buses)}) = Len(buses)

\* A leaf is the scenario under its own seed, in its files and in its summary.
LeavesSound == ReplicationsIndependent /\ SummaryMatchesFile

=============================================================================
