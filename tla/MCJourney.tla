------------------------------ MODULE MCJourney -------------------------------
(***************************************************************************)
(* Journey with two signals and an uncontrolled junction, which leads back *)
(* to the first signal.                                                    *)
(***************************************************************************)
EXTENDS Journey

MCRoute == <<"a1", "a2", "u", "a1">>

MCSignalOf == [e \in {"a1", "a2", "u"} |->
                  CASE e = "a1" -> "I1" [] e = "a2" -> "I2" [] e = "u" -> "roundabout"]

MCMovements ==
    [e \in {"a1", "a2"} |->
        IF e = "a1" THEN <<[id |-> "through", egress |-> {"a2"},
                            classes |-> {"public_transport", "emergency"}]>>
        ELSE <<[id |-> "turn", egress |-> {"side"}, classes |-> {"public_transport"}],
               [id |-> "all", egress |-> {}, classes |-> {"bus", "emergency"}]>>]

MCTimetable == <<[edge |-> "a1", until |-> 100], [edge |-> "a2", until |-> 200]>>

MCVehicles == {"vehicle"}

Vehicle(prefix, class, plan) ==
    [prefix |-> prefix, class |-> class, plan |-> plan,
     busLike |-> class = "bus", emergencyLike |-> class = "emergency", onLine |-> FALSE]

Bus == Vehicle("bus_", "bus", "none")
PlannedBus == Vehicle("bus_", "bus", "timetable")
Ambulance == Vehicle("ev_", "emergency", "none")

MCKinds == {Bus, PlannedBus, Ambulance, [Ambulance EXCEPT !.prefix = "emergency_"],
            [Bus EXCEPT !.prefix = "line_", !.plan = "synthetic"]}

MCProvisioned == {Ambulance}

Other(position, speed) == [position |-> position, speed |-> speed, readable |-> TRUE]

Lane(id, samples) == [id |-> id, samples |-> samples, occupancy |-> 10, broken |-> {}]

Queue == {Other(280, 0), Other(290, 0), Other(299, 0)}

\* A late vehicle at the end of a queue.
Queued ==
    [position |-> 200, length |-> 300, speed |-> 0, wait |-> 30, accumulated |-> 40,
     now |-> 150, delay |-> 30, headway |-> -130, others |-> Queue, atStop |-> FALSE,
     inJunction |-> FALSE, fault |-> "none",
     controlled |-> {Lane(0, Queue), Lane(1, Queue)}, approach |-> {Lane(0, Queue)}]

\* Not seen: in a junction, or its reads have failed.
Crossing == [Queued EXCEPT !.inJunction = TRUE, !.fault = "vehicle"]
Creeping == [Queued EXCEPT !.speed = 20, !.wait = 0,
                           !.controlled = {Lane(0, {Other(299, 30), Other(280, 0)}), Lane(1, {})}]
Fast == [Queued EXCEPT !.speed = 140, !.position = 170, !.accumulated = 0,
                       !.controlled = {Lane(0, {Other(299, 3), Other(280, 0)})}]
Near == [Fast EXCEPT !.position = 290, !.others = {},
                     !.controlled = {}, !.approach = {[Lane(0, Queue) EXCEPT !.broken = {"ids"}]}]
AtStop == [Queued EXCEPT !.atStop = TRUE, !.others = {}]
Remote == [Queued EXCEPT !.position = 100,
              !.others = {Other(200 + i, 0) : i \in 1 .. 12},
              !.controlled = {[Lane(0, Queue) EXCEPT !.broken = {"halting"}]}]
Unmeasured == [Queued EXCEPT !.fault = "length"]
Unrouted == [Queued EXCEPT !.fault = "route", !.now = 400]

MCLooks == {Queued, Crossing, Creeping, Fast, Near, AtStop, Remote, Unmeasured, Unrouted}
=============================================================================
