---------------------------- MODULE RoadSideUnit -----------------------------
(***************************************************************************)
(* RSUAgent (src/pps57_cits/rsu.py): the gateway that decides which SREMs  *)
(* reach the decision engine.  Its state is one record:                    *)
(*   processed  keys of the requests it forwarded, with their ages;        *)
(*   last       the newest sequence number per request, with its age;      *)
(*   slots      the requests of the active quota, with the time left;      *)
(*   rested     per vehicle, time since its last grant, up to Cooldown.    *)
(*                                                                         *)
(* The checks of the envelope, the identity and the addressing have one    *)
(* outcome for the messages the on-board units of this system build: they  *)
(* pass, until the certificate they carry has expired.  So have the checks *)
(* of arrival time and delay, which the sender has made on the same data.  *)
(***************************************************************************)
EXTENDS RequestMessages, FiniteSets

CONSTANTS
    CancellationTTL, \* validity of a cancellation's certificate
    DedupeTTL,       \* rsu_policy.dedupe_cache_ttl_s
    Cooldown,        \* rsu_policy.cooldown_after_grant_s
    MaxActive        \* rsu_policy.max_active_requests_per_rsu

InitialUnit ==
    [processed |-> {}, last |-> {}, slots |-> {},
     rested |-> [v \in Vehicles |-> Cooldown]]

Older(entries) == {[e EXCEPT !.age = @ + 1] : e \in entries}

\* Mutant: the caches live for one batch.
ForgetBatch(r) ==
    [processed |-> {}, last |-> {},
     slots |-> {s \in {[t EXCEPT !.left = @ - 1] : t \in r.slots} : s.left > 0},
     rested |-> [v \in Vehicles |-> IF r.rested[v] < Cooldown THEN r.rested[v] + 1 ELSE Cooldown]]

\* A tick passes; _prune_replay_cache and _prune_processing_requests.
Prune(r) ==
    [processed |-> {e \in Older(r.processed) : e.age <= DedupeTTL},
     last |-> {e \in Older(r.last) : e.age <= DedupeTTL},
     slots |-> {s \in {[t EXCEPT !.left = @ - 1] : t \in r.slots} : s.left > 0},
     rested |-> [v \in Vehicles |-> IF r.rested[v] < Cooldown THEN r.rested[v] + 1 ELSE Cooldown]]

Replayed(r, m) ==
    \E e \in r.processed : SameRequest(e, m) /\ e.seq = m.seq

OutOfOrder(r, m) == \E e \in r.last : SameRequest(e, m) /\ NotNewer(m.seq, e.seq)

\* Mutant: one request more than the limit.
OneMoreActive(r, m) ==
    /\ ~\E s \in r.slots : SameRequest(s, m)
    /\ Cardinality(r.slots) > MaxActive

TooManyActive(r, m) ==
    /\ ~\E s \in r.slots : SameRequest(s, m)
    /\ Cardinality(r.slots) >= MaxActive

\* The answer to a message; "batch" holds the keys handled in this tick.
Verdict(r, batch, m) ==
    IF IsCancellation(m)
    THEN IF m.age >= CancellationTTL THEN "certificate_expired" ELSE "cancelled"
    ELSE IF Key(m) \in batch THEN "duplicate_in_batch"
    ELSE IF Replayed(r, m) THEN "replayed"
    ELSE IF OutOfOrder(r, m) THEN "out_of_order"
    ELSE IF m.age >= RequestTTL THEN "certificate_expired"
    ELSE IF TooManyActive(r, m) THEN "limit_exceeded"
    ELSE IF r.rested[m.vehicle] < Cooldown THEN "cooldown"
    ELSE "processing"

\* The first three of these are given before the message is looked at.
NotEvaluated == {"duplicate_in_batch", "replayed", "out_of_order"}

\* Mutant: a cancellation leaves no trace in the caches.
ForgetCancellation(r, m, verdict) ==
    IF IsCancellation(m) THEN r
    ELSE [r EXCEPT !.last = {e \in @ : ~SameRequest(e, m)} \cup
        {[vehicle |-> m.vehicle, id |-> m.id, seq |-> m.seq, age |-> 0]}]

(***************************************************************************)
(* _remember_request: the key only when accepted, the sequence number of   *)
(* every message that was evaluated, cancellations and refusals included.  *)
(***************************************************************************)
Remember(r, m, verdict) ==
    LET entry == [vehicle |-> m.vehicle, id |-> m.id, seq |-> m.seq, age |-> 0] IN
    [r EXCEPT !.processed = IF verdict = "processing" THEN @ \cup {entry} ELSE @,
              !.last = {e \in @ : ~SameRequest(e, m)} \cup {entry}]

\* _track_processing_request: a refused update keeps the slot it had.
Track(r, m, verdict) ==
    LET others == {s \in r.slots : ~SameRequest(s, m)} IN
    IF verdict = "processing"
    THEN [r EXCEPT !.slots = others \cup
             {[vehicle |-> m.vehicle, id |-> m.id, left |-> RequestTTL - m.age]}]
    ELSE IF IsCancellation(m) THEN [r EXCEPT !.slots = others]
    ELSE r

AfterMessage(r, m, verdict) ==
    IF verdict \in NotEvaluated THEN r ELSE Track(Remember(r, m, verdict), m, verdict)

\* mark_priority_granted.
PriorityGranted(r, v) ==
    [r EXCEPT !.rested[v] = 0, !.slots = {s \in @ : s.vehicle # v}]
=============================================================================
