------------------------- MODULE MCPriorityRequests --------------------------
(***************************************************************************)
(* PriorityRequests with one bus and one ambulance.                        *)
(***************************************************************************)
EXTENDS PriorityRequests

CONSTANTS bus, ambulance, BusCap, AmbulanceCap

MCCap == [v \in Vehicles |-> IF v = bus THEN BusCap ELSE AmbulanceCap]
=============================================================================
