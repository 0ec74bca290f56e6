-------------------------- MODULE RequestMessages ----------------------------
(***************************************************************************)
(* SREMLike (src/pps57_cits/messages.py) as far as the gateway and the     *)
(* store tell messages apart.  A message is a record with "vehicle", "n"   *)
(* (its number among those the vehicle sent, which no component reads),    *)
(* "id" and "seq" (request_id and sequence_number), "kind" and "age", the  *)
(* time since it was generated.  Ages stop one unit past RequestTTL.       *)
(***************************************************************************)
EXTENDS Seconds

CONSTANTS
    Vehicles,
    RequestTTL,     \* obu_policy.request_ttl_s: a request and its certificate
    SequenceModulus \* sequence numbers wrap here

Aged(m) == [m EXCEPT !.age = Lesser(@ + 1, RequestTTL + 1)]

IsCancellation(m) == m.kind = "cancellation"

\* A cancellation carries no expires_at_s.
PastItsTTL(m) == ~IsCancellation(m) /\ m.age > RequestTTL

Key(m) == [vehicle |-> m.vehicle, id |-> m.id, seq |-> m.seq]

SameRequest(e, m) == e.vehicle = m.vehicle /\ e.id = m.id

\* _sequence_not_newer, modulo the width of the field.
NotNewer(candidate, previous) ==
    LET delta == (candidate - previous) % SequenceModulus
    IN  delta = 0 \/ delta > (SequenceModulus - 1) \div 2
=============================================================================
