-------------------------- MODULE MCScenarioBuild --------------------------
(***************************************************************************)
(* Instances of ScenarioBuild: corridors of one to four junctions with and *)
(* without rings, a chain of three demand profiles, two bus services, two  *)
(* incident templates; and configurations that must be refused.            *)
(***************************************************************************)
EXTENDS ScenarioBuild

None == [x \in {} |-> 0]

Junction(ring) == [ring |-> ring, major |-> 2, minor |-> 1]
Signals == <<Junction(FALSE), Junction(FALSE), Junction(FALSE)>>
OneRing == <<Junction(FALSE), Junction(TRUE), [Junction(FALSE) EXCEPT !.major = 3]>>
TwoRings == <<Junction(FALSE), Junction(TRUE), Junction(TRUE), Junction(FALSE)>>
Lone == <<Junction(FALSE)>>

WestWay == <<"boavista", 0, "west">>
EastWay == <<"boavista", 0, "east">>

Flow(name, route, period, entries) ==
    [id |-> <<name, "">>, base |-> <<name, "">>, route |-> route, begin |-> 0, end |-> 12,
     period |-> period, entries |-> entries]

Entry(b, e, kind, value) == [begin |-> b, end |-> e, kind |-> kind, value |-> value]

Root(flows) ==
    [parent |-> "", flows |-> flows, scale |-> One, routeScale |-> None, flowScale |-> None,
     override |-> None, updates |-> None, remove |-> {}, extra |-> <<>>, suffix |-> "", window |-> <<>>]

Derived(parent, suffix, scale) == [Root(<<>>) EXCEPT !.parent = parent, !.suffix = suffix, !.scale = scale]

CarFlows == <<Flow("in", EastWay, 6400, <<Entry(0, 6, "scale", 1), Entry(6, 12, "scale", 4)>>),
              Flow("out", WestWay, 6400, <<Entry(0, 6, "period", 3200)>>),
              Flow("side", <<"cross", 1, "N">>, 6400, <<>>)>>

Demand == [am  |-> Root(CarFlows),
           op  |-> [Derived("am", "op", 4) EXCEPT !.routeScale = (WestWay :> 1)],
           off |-> [Derived("op", "off", One) EXCEPT !.flowScale = (<<"in", "">> :> 4) @@ (<<"side", "op">> :> 1),
                                                   !.extra = <<Flow("late", EastWay, 3200, <<>>)>>],
           few |-> [Derived("off", "few", 4) EXCEPT !.remove = {<<"out", "">>}, !.override = (<<"side", "">> :> 1000),
                                                  !.updates = (<<"late", "">> :> [begin |-> 6]), !.window = <<0, 9>>]]

Stop(edge, lane, dwell) == [edge |-> edge, lane |-> lane, centre |-> 60, length |-> 300, dwell |-> dwell]
Drawn == [drawn |-> TRUE, mean |-> 20, std |-> 5, min |-> 12, max |-> 28]
Fixed(n) == [drawn |-> FALSE, mean |-> n, std |-> 0, min |-> 0, max |-> 0]

Stops == [w |-> Stop(<<"road", 0, 1>>, 0, Drawn), e |-> Stop(<<"road", 1, 0>>, 1, Fixed(18))]

Service(line, dir, route, stops, headway) ==
    [line |-> line, direction |-> dir, code |-> line \o dir, route |-> route, stops |-> stops,
     window |-> <<>>, offset |-> 0, headway |-> headway, schedule |-> <<>>, jitter |-> 15]

Services == <<Service("500", "W", WestWay, <<"w">>, 4),
              [Service("502", "E", EastWay, <<"e">>, 6) EXCEPT
                 !.offset = 1, !.schedule = <<[begin |-> 0, end |-> 5, headway |-> 3]>>, !.jitter = 10]>>

Types == <<[id |-> "car", class |-> "passenger", tau |-> 10, decel |-> 45, emergencyDecel |-> 90, speed |-> 100],
           [id |-> "bus", class |-> "bus", tau |-> 12, decel |-> 40, emergencyDecel |-> 80, speed |-> 90]>>

Mix(a, b) == <<[type |-> "car", share |-> a], [type |-> "bus", share |-> b]>>
Mixes == <<[id |-> "urban", components |-> Mix(90, 10)]>>

Rain == [all |-> [tau_delta |-> 2, speed_factor_multiplier |-> 90], byClass |-> ("bus" :> [tau_delta |-> 4]),
         byId |-> ("car" :> [decel_multiplier |-> 80])]
Dry == [all |-> None, byClass |-> None, byId |-> None]

Stopped(route, edge, t) == [kind |-> "stopped_vehicle", route |-> route, stopEdge |-> edge, depart |-> t,
                            duration |-> 5, stochastic |-> FALSE]

Template(routes, edges, b, e) == [routes |-> routes, edges |-> edges, window |-> <<b, e>>, shortest |-> 3]

Templates == <<Template({WestWay, EastWay}, {<<"road", 0, 1>>, <<"road", 1, 0>>}, 2, 8),
               Template({WestWay}, {<<"road", 1, 2>>, <<"road", 2, 1>>}, 0, 3)>>

Deliveries == <<[route |-> EastWay, depart |-> 3, duration |-> 2, area |-> "kerb"]>>

Walks == <<[from |-> <<"N_in", 1, 1>>, to |-> <<"S_out", 1, 1>>, begin |-> 0, end |-> 9, period |-> 0]>>

Rides == <<[from |-> <<"N_in", 1, 1>>, board |-> "w", line |-> "500", alight |-> "w2",
            begin |-> 2, end |-> 9, period |-> 3]>>

Plain == [demand |-> "op", end |-> <<>>, seed |-> <<>>, services |-> <<>>, stops |-> None, events |-> <<>>,
          vehicles |-> Dry, mixes |-> None, templates |-> <<>>, thresholds |-> None]

Base(net, profile) ==
    [net |-> net, authored |-> None, sidewalks |-> FALSE, length |-> 400, coolDown |-> 0, end |-> 12, seed |-> 57,
     demand |-> Demand, stops |-> Stops, services |-> Services, types |-> Types, mixes |-> Mixes,
     events |-> <<Stopped(WestWay, <<"road", 0, 1>>, 1)>>, thresholds |-> [max_gap |-> 3], profile |-> profile,
     areas |-> [kerb |-> [edge |-> <<"road", 1, 0>>, lane |-> 0, start |-> 0, end |-> 300, capacity |-> 4]],
     calibrators |-> <<>>, parked |-> Deliveries, walks |-> Walks, rides |-> Rides]

Override(code, line, dir, set) == [code |-> code, line |-> line, direction |-> dir, set |-> set]

MCBases == {
    [Base(Signals, Plain) EXCEPT !.length = 1000],
    Base(OneRing, [Plain EXCEPT !.demand = "off", !.templates = Templates, !.vehicles = Rain]),
    [Base(TwoRings, [Plain EXCEPT !.demand = "few", !.templates = Templates, !.seed = <<58>>,
                                  !.mixes = ("urban" :> Mix(70, 30)), !.thresholds = [max_gap |-> 9]])
        EXCEPT !.coolDown = 4, !.sidewalks = TRUE, !.length = 150,
               !.authored = (<<"detour", 2, "">> :> <<<<"road", 1, 2>>, <<"N_out", 2, 2>>>>)],
    [Base(Lone, [Plain EXCEPT !.events = <<<<>>>>, !.end = <<9>>, !.stops = [w |-> Fixed(30)],
                              !.services = <<Override("", "500", "W", [headway |-> 3, offset |-> 2, jitter |-> 14]),
                                             Override("502E", "", "", [headway |-> 4])>>])
        EXCEPT !.coolDown = 2, !.length = 300],
    \* Refused: a cycle of profiles, an unknown one, a scale of nothing.
    [Base(Lone, Plain) EXCEPT !.demand.am.parent = "off"],
    [Base(Lone, Plain) EXCEPT !.demand.op.parent = "pm"],
    [Base(Lone, Plain) EXCEPT !.demand.off.scale = 0],
    Base(Lone, [Plain EXCEPT !.demand = "pm"]),
    \* Refused: overrides of what is not there.
    Base(Lone, [Plain EXCEPT !.services = <<Override("900W", "", "", [headway |-> 5])>>]),
    Base(Lone, [Plain EXCEPT !.mixes = ("urban" :> <<[type |-> "tram", share |-> 100]>>)]),
    Base(Lone, [Plain EXCEPT !.mixes = ("urban" :> Mix(70, 20))]),
    \* Refused: events outside the simulation or off their route, windows
    \* that are closed, and a route that misses the ring it touches.
    Base(Lone, [Plain EXCEPT !.events = <<<<Stopped(WestWay, <<"road", 0, 1>>, 13)>>>>]),
    Base(Lone, [Plain EXCEPT !.events = <<<<Stopped(EastWay, <<"road", 0, 1>>, 3)>>>>]),
    Base(Lone, [Plain EXCEPT !.demand = "few", !.end = <<0>>]),
    [Base(OneRing, Plain) EXCEPT !.authored = (<<"broken", 2, "">> :> <<<<"road", 1, 2>>, <<"road", 3, 2>>>>)],
    \* Refused only when it happens: an incident without a place.
    Base(Signals, [Plain EXCEPT !.templates = <<Template({WestWay}, {<<"road", 2, 1>>}, 0, 3)>>]),
    \* Never generated: a stop, parking area or calibrator without its place.
    [Base(Lone, Plain) EXCEPT !.stops.e.lane = 2],
    [Base(Lone, Plain) EXCEPT !.areas.kerb.edge = <<"road", 2, 3>>],
    [Base(Lone, Plain) EXCEPT !.calibrators = <<[edge |-> <<"road", 2, 3>>]>>]}

MCSeeds == {57, 58}

Draw(jitter, step, first, second) ==
    [jitter |-> jitter, step |-> step,
     incidents |-> <<[happens |-> first > 0, place |-> first, depart |-> 3 * first, duration |-> 2 * first],
                     [happens |-> second > 0, place |-> second, depart |-> second, duration |-> 4]>>]

MCDraws == {Draw(<<10, -10>>, 1, 0, 0), Draw(<<-10, 3, 9>>, -2, 1, 0), Draw(<<0>>, 0, 2, 1), Draw(<<7>>, 2, 0, 3)}

=============================================================================
