-------------------------- MODULE PriorityRequests ---------------------------
(***************************************************************************)
(* The way of a priority request at one signal, from the on-board units    *)
(* through the broker to the road-side unit, the control centre's store    *)
(* and the decision: OBUEmulator (src/pps57_cits/obu.py) and               *)
(* InMemoryMessageBroker (src/pps57_cits/broker.py) composed with          *)
(* RoadSideUnit and RequestStore in the order of a pass of the control     *)
(* loop.  A pass takes one unit of time.                                   *)
(*                                                                         *)
(* What a vehicle sees is an open choice, and so is whether it is entitled *)
(* to ask (distance, time of arrival, delay).  The decision of the engine  *)
(* and the Safety Layer is an open choice as well: PrioritySignal models   *)
(* it.  Requests to other signals leave no trace here.                     *)
(***************************************************************************)
EXTENDS RequestStore, RoadSideUnit, SequencesExt

CONSTANTS
    Emergency,     \* vehicles that is_emergency_like
    Refresh,       \* obu_policy.request_refresh_s
    Retention,     \* obu_policy.state_retention_s
    MaxRequestId,  \* request identifiers run from 1 to this
    MaxDelay,      \* the largest latency, jitter and reordering of the broker
    MaxCopies,     \* 2 when the broker duplicates
    MessageCap     \* a bound of the model: messages a vehicle sends

ASSUME RequestsAssumption ==
    /\ IsFiniteSet(Vehicles) /\ Emergency \subseteq Vehicles
    /\ {RequestTTL, CancellationTTL, StoreTTL, DedupeTTL, Cooldown, MaxActive} \subseteq Nat
    /\ {Refresh, Retention, MaxDelay} \subseteq Nat
    /\ {MaxRequestId, SequenceModulus} \subseteq Nat \ {0}
    /\ MaxCopies \in {1, 2} /\ MessageCap \in [Vehicles -> Nat]

\* The comment at the pruning of departed vehicles: what an on-board unit
\* forgets is no longer in the caches of the road-side unit.
ASSUME RetentionCoversCaches == MaxDelay + DedupeTTL < Retention

\* Transport that is not slower than the memory of the road-side unit.
ASSUME CachesCoverDelay == MaxDelay <= DedupeTTL

\* Sequence numbers and request identifiers come round again only after what
\* they named before is neither in transit nor in the caches: 65536 numbers
\* and 255 identifiers, one message a pass.
ASSUME NumbersCoverDelay ==
    /\ 2 * (MaxDelay + DedupeTTL) < SequenceModulus
    /\ MaxDelay + 1 < 2 * MaxRequestId

VARIABLES
    even,    \* parity of the pass: a pass in which nothing happens is a step
    obu,     \* state of each on-board unit
    wire,    \* published messages not yet received, in order of publication
    batch,   \* keys the road-side unit has handled in this pass
    rsu,     \* state of the road-side unit
    store,   \* the entry of each vehicle in the store
    answers, \* requests in PROCESSING that the decision has still to look at
    acted,   \* the signal has intervened in this pass
    sent,    \* history: messages each vehicle has sent
    past     \* history: per request, the latest message received, forwarded
             \* and received as a cancellation

vars == <<even, obu, wire, batch, rsu, store, answers, acted, sent, past>>

Places == {"edge", "line", "stop", "away", "gone"}

\* _RequestorState; id 0 is no request.  A fresh one and none are the same.
Fresh == [seq |-> 0, id |-> 0, nextId |-> 1, idle |-> Retention]

NothingYet == [received |-> 0, forwarded |-> 0, cancelled |-> 0]

Init ==
    /\ even = TRUE
    /\ obu = [v \in Vehicles |-> Fresh]
    /\ wire = <<>>
    /\ batch = {} /\ answers = {} /\ acted = FALSE
    /\ rsu = InitialUnit
    /\ store = [v \in Vehicles |-> NoEntry]
    /\ sent = [v \in Vehicles |-> 0]
    /\ past = [v \in Vehicles |-> [id \in 1 .. MaxRequestId |-> NothingYet]]
-----------------------------------------------------------------------------
(***************************************************************************)
(* The on-board units (generate_requests).                                 *)
(***************************************************************************)
NextSeq(state) == (state.seq + 1) % SequenceModulus

\* _should_cancel, for a vehicle at this place.
MustCancel(v, place) ==
    /\ obu[v].id # 0
    /\ \/ place \in {"away", "gone"}
       \/ place = "stop" /\ v \notin Emergency

\* The vehicle is on the edge of the signal, and not suppressed at a stop.
MayAsk(v, place) ==
    /\ \/ place \in {"edge", "line"}
       \/ place = "stop" /\ v \in Emergency
    /\ obu[v].id = 0 \/ obu[v].idle + 1 >= Refresh
    /\ sent[v] < MessageCap[v]

AfterCancelling(state) == [state EXCEPT !.seq = NextSeq(state), !.id = 0, !.idle = 0]

AfterAsking(state) ==
    LET asked == [state EXCEPT !.seq = NextSeq(state), !.idle = 0] IN
    IF state.id # 0 THEN asked
    ELSE [asked EXCEPT !.id = state.nextId, !.nextId = (@ % MaxRequestId) + 1]

\* Mutant: the state of a departed vehicle is dropped at once.
ForgetDeparted(state, place) ==
    IF place = "gone" /\ state.id = 0 THEN Fresh
    ELSE [state EXCEPT !.idle = Lesser(@ + 1, Retention)]

\* A tick in silence, and _prune_departed_vehicles.
AfterSilence(state, place) ==
    IF place = "gone" /\ state.id = 0 /\ state.idle + 1 >= Retention THEN Fresh
    ELSE [state EXCEPT !.idle = Lesser(@ + 1, Retention)]

Message(v, kind, id) ==
    [vehicle |-> v, n |-> sent[v] + 1, id |-> id, seq |-> NextSeq(obu[v]),
     kind |-> kind, age |-> 0]

Cancellation(v) == Message(v, "cancellation", obu[v].id)

Request(v) ==
    IF obu[v].id = 0 THEN Message(v, "request", obu[v].nextId)
    ELSE Message(v, "update", obu[v].id)
-----------------------------------------------------------------------------
(***************************************************************************)
(* The broker.  What is due is received before anything else happens, in   *)
(* order of publication.                                                   *)
(***************************************************************************)
\* A message is lost, or published once or twice: <<v, 1>> and <<v, 2>> are
\* the copies of the message of v.
Copies(speaking) ==
    {{c \in speaking \X (1 .. MaxCopies) : c[2] <= number[c[1]]} :
        number \in [speaking -> 0 .. MaxCopies]}

\* Cancellations come before requests, the copies of a message together.
InOrderOfPublication(order, cancelling) ==
    \A i, j \in DOMAIN order : i < j =>
        /\ order[j][1] \in cancelling => order[i][1] \in cancelling
        /\ order[i][1] = order[j][1] => j = i + 1 /\ order[i][2] < order[j][2]

\* Each copy has a delay of its own.
Scheduled(order, message, delay) ==
    [i \in DOMAIN order |-> [m |-> message[order[i][1]], wait |-> delay[order[i]]]]

\* advance_time.
OneTickCloser == [i \in DOMAIN wire |-> [m |-> Aged(wire[i].m), wait |-> wire[i].wait - 1]]

Due == {i \in DOMAIN wire : wire[i].wait = 0}
-----------------------------------------------------------------------------
(***************************************************************************)
(* The start of a pass: observations, the on-board units (cancellations of *)
(* all of them are built before any request), the store, the publication.  *)
(***************************************************************************)
OneTickLater(e) ==
    IF IsOpen(e)
    THEN [e EXCEPT !.about = Aged(@), !.unseen = Lesser(@ + 1, StoreTTL + 1)]
    ELSE e

Pass(place, asking) ==
    LET cancelling == {v \in Vehicles : MustCancel(v, place[v])}
        speaking == cancelling \cup asking
        message == [v \in speaking |-> IF v \in asking THEN Request(v) ELSE Cancellation(v)]
        observed == [v \in Vehicles |->
                        UpdateFromObservation(OneTickLater(store[v]), place[v])]
    IN
    /\ asking \subseteq {v \in Vehicles : MayAsk(v, place[v])}
    /\ obu' = [v \in Vehicles |->
                  CASE v \in cancelling -> AfterCancelling(obu[v])
                    [] v \in asking -> AfterAsking(obu[v])
                    [] OTHER -> AfterSilence(obu[v], place[v])]
    /\ store' = [v \in Vehicles |->
                    ExpireIfNeeded(IF v \in speaking THEN Ingest(observed[v], message[v])
                                   ELSE observed[v])]
    /\ sent' = [v \in Vehicles |-> IF v \in speaking THEN sent[v] + 1 ELSE sent[v]]
    /\ \E copies \in Copies(speaking) :
          \E order \in SetToSeqs(copies), delay \in [copies -> 0 .. MaxDelay] :
              /\ InOrderOfPublication(order, cancelling)
              /\ wire' = OneTickCloser \o Scheduled(order, message, delay)

Tick ==
    /\ Due = {} /\ answers = {}
    /\ even' = ~even
    /\ \E place \in [Vehicles -> Places], asking \in SUBSET Vehicles : Pass(place, asking)
    /\ rsu' = Prune(rsu)
    /\ batch' = {}
    /\ acted' = FALSE
    /\ UNCHANGED <<answers, past>>
-----------------------------------------------------------------------------
(***************************************************************************)
(* The road-side unit handles what the broker has delivered, in order.     *)
(***************************************************************************)
Arriving == Min(Due)

Upcoming == wire[Arriving].m

Answer == Verdict(rsu, batch, Upcoming)

Recorded(p, m, verdict) ==
    [received |-> Greater(p.received, m.n),
     forwarded |-> IF verdict = "processing" THEN m.n ELSE p.forwarded,
     cancelled |-> IF IsCancellation(m) THEN Greater(p.cancelled, m.n) ELSE p.cancelled]

Handle ==
    /\ Due # {}
    /\ LET m == Upcoming IN
       /\ wire' = RemoveAt(wire, Arriving)
       /\ batch' = IF Answer \in NotEvaluated THEN batch ELSE batch \cup {Key(m)}
       /\ rsu' = AfterMessage(rsu, m, Answer)
       /\ answers' = IF Answer = "processing" THEN answers \cup {m} ELSE answers
       /\ past' = [past EXCEPT ![m.vehicle][m.id] = Recorded(@, m, Answer)]
    /\ UNCHANGED <<even, obu, store, acted, sent>>
-----------------------------------------------------------------------------
(***************************************************************************)
(* _process_acknowledged_requests: emergency vehicles first.  A request    *)
(* that was not built in this pass is looked up in the store.              *)
(***************************************************************************)
Resolved(m) == m.age = 0 \/ Holds(store[m.vehicle], m)

\* The first intervention of a pass supersedes the others.
Grant(m) ==
    /\ Resolved(m) /\ ~acted
    /\ store' = [store EXCEPT ![m.vehicle] = MarkGranted(@)]
    /\ rsu' = PriorityGranted(rsu, m.vehicle)
    /\ acted' = TRUE

\* TraCI raised: booked as an intervention, not granted.
FailedIntervention(m) ==
    /\ Resolved(m) /\ ~acted
    /\ acted' = TRUE
    /\ UNCHANGED <<store, rsu>>

\* Unresolved, or no intervention came of it.
NoIntervention(m) == UNCHANGED <<store, rsu, acted>>

Decide(m) ==
    /\ Due = {}
    /\ m.vehicle \in Emergency \/ \A other \in answers : other.vehicle \notin Emergency
    /\ answers' = answers \ {m}
    /\ Grant(m) \/ FailedIntervention(m) \/ NoIntervention(m)
    /\ UNCHANGED <<even, obu, wire, batch, sent, past>>

Next ==
    \/ Tick
    \/ Handle
    \/ \E m \in answers : Decide(m)

Spec == Init /\ [][Next]_vars

FairSpec == Spec /\ WF_vars(Next)
-----------------------------------------------------------------------------
\* No message of a request is forwarded to the decision after a later one of
\* the same request, however they were delayed or repeated
\* (_replay_or_ordering_problem with the pruning of its caches).
ForwardedInOrder ==
    Due # {} /\ Answer = "processing" =>
        past[Upcoming.vehicle][Upcoming.id].forwarded < Upcoming.n

\* No message of a request is forwarded after a later cancellation of it was
\* received, even one whose certificate had expired (_remember_request).
CancelledStaysClosed ==
    Due # {} /\ Answer = "processing" =>
        past[Upcoming.vehicle][Upcoming.id].cancelled < Upcoming.n

\* A message that nothing overtook and that comes for the first time is never
\* mistaken for a replay: the identifiers and sequence numbers of a vehicle
\* that returns after its state was dropped have left the caches
\* (_prune_departed_vehicles, state_retention_s).
FirstCopyNotMistaken ==
    Due # {} /\ Answer \in NotEvaluated =>
        past[Upcoming.vehicle][Upcoming.id].received >= Upcoming.n

\* The quota is respected, and every slot is held by a request that was
\* forwarded and of which no later cancellation was received
\* (_track_processing_request, _prune_processing_requests).
QuotaHeldByOpenRequests ==
    /\ Cardinality(rsu.slots) <= MaxActive
    /\ \A s \in rsu.slots :
          past[s.vehicle][s.id].forwarded > past[s.vehicle][s.id].cancelled

\* Whatever was delayed or lost, only the last message a vehicle sent about
\* the request it still has leads to an intervention
\* (get_by_request_id over what ingest_requests stored).
OnlyTheLatestIsServed ==
    \A m \in answers : Resolved(m) => m.n = sent[m.vehicle] /\ m.id = obu[m.vehicle].id

\* A refresh of a granted request reaches the decision, so that the event can
\* be prolonged: it is not refused for the cooldown the grant started.
InstalmentsReachTheDecision ==
    Due # {} /\ Holds(store[Upcoming.vehicle], Upcoming)
            /\ store[Upcoming.vehicle].status = "granted" => Answer # "cooldown"

\* Once the on-board units have no request, the store has no open entry, not
\* even one that a cancellation opened (expire_old, update_from_observations).
StoreCloses ==
    <>[](\A v \in Vehicles : obu[v].id = 0) => <>[](\A v \in Vehicles : ~IsOpen(store[v]))
=============================================================================
