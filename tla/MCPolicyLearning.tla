---------------------------- MODULE MCPolicyLearning ----------------------------
(***************************************************************************)
(* PolicyLearning on a signal with one corridor and one cross street; the     *)
(* opposite direction of the corridor shares its green.  The thresholds    *)
(* are those of the shipped configuration at about a third of their size.  *)
(***************************************************************************)
EXTENDS PolicyLearning

MCDurations == [p \in 0 .. 3 |-> IF p \in {0, 2} THEN 6 ELSE 1]
MCProgram == [p \in 0 .. 3 |->
    CASE p = 0 -> <<"G", "G", "r">> [] p = 1 -> <<"y", "y", "r">>
      [] p = 2 -> <<"r", "r", "G">> [] p = 3 -> <<"r", "r", "y">>]
MCLinks == << {[from |-> "in", to |-> "out"]},
              {[from |-> "opposite", to |-> "back"]},
              {[from |-> "cross", to |-> "side"]} >>
MCLanes == <<"in", "opposite", "cross">>
MCEdgeOf == [lane \in {"in", "opposite", "cross"} |-> lane]

MCGroup(id, p, other) ==
    [id |-> id, phase |-> p, movements |-> {id}, protected |-> TRUE,
     edgeFallback |-> FALSE, allowed |-> {"green_extension", "early_green"},
     minGreen |-> 2, maxGreen |-> 14, maxExtension |-> 4, conflicts |-> {other}]
MCContract ==
    [sequence |-> <<0, 1, 2, 3>>, intergreens |-> {1, 3},
     groups |-> {MCGroup("main", 0, "side"), MCGroup("side", 2, "main")}]
MCPhaseMapping == [m \in {"main", "side"} |-> IF m = "main" THEN 0 ELSE Nowhere]

MCPolicy ==
    [delayNorm |-> 18, headwayNorm |-> 24, distanceNorm |-> 25,
     wDelay |-> 45, wHeadway |-> 20, wProximity |-> 20, wLevel |-> 15,
     levelWeight |-> [l \in {"emergency", "high_delay", "nominal"} |->
         CASE l = "emergency" -> 100 [] l = "high_delay" -> 85 [] l = "nominal" -> 45],
     minScore |-> 20, minScoreCongested |-> 40,
     needDelay |-> 2, needDelayCongested |-> 4, needHeadway |-> 12,
     congestedOccupancy |-> 50, crossPressure |-> 2, jamSpacing |-> 2,
     dischargeHeadway |-> 1, arrivalBuffer |-> 1,
     extensionMin |-> 1, extensionMax |-> 4, extensionDefault |-> 3,
     extensionMaxCongested |-> 1, rollingIncrement |-> 2,
     earlyGreenMinEta |-> 3, emergencyMinEta |-> 0, minGreen |-> 2,
     truncateTo |-> 1, maxGreenRemoved |-> 2, minUseful |-> 2]
MCLimits == [maxTotalGreen |-> 12, maxExtension |-> 4, minGreen |-> 2]
MCBucketLimits ==
    [etaClose |-> 3, etaFar |-> 8, delayMedium |-> 6, delayHigh |-> 9, switchClose |-> 1,
     highRequests |-> 2, highQueue |-> 8, highHalted |-> 8, lowSpeed |-> 1,
     highWaiting |-> 9, highOccupancy |-> 60, recent |-> 9]

MCBus(level, delay, headway) ==
    [lane |-> "in", edge |-> "in", next |-> "out", group |-> "main", movement |-> "main",
     level |-> level, delay |-> delay, headway |-> headway]
MCBuses ==
    {MCBus("nominal", d, 0) : d \in {0, 1, 3, 9}}
        \cup {MCBus("nominal", 0, -12), MCBus("high_delay", 9, 0), MCBus("emergency", 0, 0)}

MCReading(occupancy, spilling, own, cross) ==
    [occupancy |-> occupancy, spilling |-> spilling,
     halted |-> [lane \in {"in", "opposite", "cross"} |->
         CASE lane = "in" -> own [] lane = "opposite" -> 2 [] lane = "cross" -> cross]]
MCReadings == {NoReading, MCReading(0, FALSE, 1, 0), MCReading(50, FALSE, 0, 2),
               MCReading(0, TRUE, 0, 0)}

MCPassive ==
    [b \in {[phase |-> p, eta |-> "eta_mid", delay |-> "delay_low",
             switch |-> FALSE, pressure |-> FALSE, intervention |-> "intervention_unknown"]
            : p \in {"priority_movement_green", "priority_movement_not_green"}} |-> "no_action"]
\* No policy, and one that lets the phase run whatever the engine would do.
MCRuleSets == {<<>>, MCPassive}

MCActions == <<"no_action", "green_extension", "early_green", "reevaluate_next_cycle", "reject">>
MCReward ==
    [perDelay |-> 30, perHeadway |-> 7, perEta |-> 30, etaBaseline |-> 15, traffic |-> 35,
     pressureFactor |-> 8, reevaluate |-> 800, reject |-> 2000, unsafe |-> 100000,
     truncation |-> 200, sufficientGreen |-> 500, insufficientGreen |-> 80,
     tooClose |-> 600, lowScore |-> 600, rejectPerDelay |-> 15]
MCLoggedBuses == {MCBus("nominal", 3, 0), MCBus("high_delay", 9, 0)}
MCLoggedReadings == {NoReading, MCReading(0, FALSE, 1, 0)}
=============================================================================
