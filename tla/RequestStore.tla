---------------------------- MODULE RequestStore -----------------------------
(***************************************************************************)
(* PriorityRequestStore (src/pps57_tsp/request_store.py): what the control *)
(* centre believes of the request of one vehicle at one signal.  An entry  *)
(* is a function of the vehicle in the module that uses this one.          *)
(*                                                                         *)
(* "unseen" is sim_time_s - last_seen_s and stops one unit past StoreTTL.  *)
(* The request of a closed entry is never read again, so it is not kept.   *)
(***************************************************************************)
EXTENDS RequestMessages

CONSTANTS
    StoreTTL, \* obu_policy.request_lifecycle_ttl_s
    NoMessage

NoEntry == [status |-> "none", about |-> NoMessage, unseen |-> 0]

Closing(status) == [status |-> status, about |-> NoMessage, unseen |-> 0]

IsOpen(e) == e.status \in {"detected", "active", "granted"}

\* Mutant: a cancellation is not a request and is not stored.
IngestRequestsOnly(e, m) ==
    IF IsCancellation(m) THEN e
    ELSE IF IsOpen(e)
    THEN [status |-> IF e.status = "detected" THEN "active" ELSE e.status,
          about |-> m, unseen |-> 0]
    ELSE [status |-> "detected", about |-> m, unseen |-> 0]

\* ingest_requests: a message of any kind opens an entry or renews it.
Ingest(e, m) ==
    IF IsOpen(e)
    THEN [status |-> IF e.status = "detected" THEN "active" ELSE e.status,
          about |-> m, unseen |-> 0]
    ELSE [status |-> "detected", about |-> m, unseen |-> 0]

\* Mutant: only the messages expire.
ExpireByMessage(e) ==
    IF IsOpen(e) /\ PastItsTTL(e.about) THEN Closing("expired") ELSE e

ExpireIfNeeded(e) ==
    IF IsOpen(e) /\ (PastItsTTL(e.about) \/ e.unseen > StoreTTL)
    THEN Closing("expired") ELSE e

(***************************************************************************)
(* update_from_observations.  The request is cleared when the vehicle is   *)
(* seen on another edge than the request's, or at the stop line; that of a *)
(* cancellation is no edge at all, so being seen anywhere clears it.       *)
(***************************************************************************)
UpdateFromObservation(e, place) ==
    IF ~IsOpen(e) THEN e
    ELSE IF place = "gone" THEN ExpireIfNeeded(e)
    ELSE IF place \in {"away", "line"} \/ IsCancellation(e.about)
    THEN Closing("cleared")
    ELSE [e EXCEPT !.unseen = 0]

\* mark_granted, for a request that was resolved, whose entry is open.
MarkGranted(e) == [e EXCEPT !.status = "granted", !.unseen = 0]

\* get_by_request_id, on the entry of the vehicle that sent it.
Holds(e, m) == IsOpen(e) /\ e.about.id = m.id /\ e.about.seq = m.seq
=============================================================================
