---------------------------- MODULE ProtocolAudit -----------------------------
(***************************************************************************)
(* The replay of the message log (src/pps57_cits/audit.py) through the     *)
(* lifecycle of a request (src/pps57_cits/lifecycle.py).  A chain is what  *)
(* the log says under one key station:request:sequence; the keys here are  *)
(* the records Key of RequestMessages.  "faults" are the transitions that   *)
(* invalid_transitions lists under the key.                                *)
(***************************************************************************)
EXTENDS RequestMessages

\* ALLOWED_TRANSITIONS; nothing ever moves a request to "expired".
AllowedFrom(state) ==
    CASE state = "created"    -> {"processing", "rejected", "cancelled"}
      [] state = "processing" -> {"granted", "rejected", "cancelled"}
      [] OTHER                -> {}

NewChain == [state |-> "created", asked |-> FALSE, final |-> FALSE,
             orphan |-> FALSE, faults |-> {}]

\* Mutant: a settled chain stays settled.
LeftSettled(chain) == chain

\* _reopen_if_settled.
Reopened(chain) ==
    IF AllowedFrom(chain.state) = {} THEN [chain EXCEPT !.state = "created"] ELSE chain

\* _transition_chain.
MovedTo(chain, state) ==
    IF state = chain.state \/ state \in AllowedFrom(chain.state)
    THEN [chain EXCEPT !.state = state]
    ELSE [chain EXCEPT !.faults = @ \cup {<<chain.state, state>>}]

ChainOf(chains, key) == IF key \in DOMAIN chains THEN chains[key] ELSE NewChain

WithChain(chains, key, chain) ==
    [k \in DOMAIN chains \cup {key} |-> IF k = key THEN chain ELSE chains[k]]

\* An SREM of the log.
ReplaySREM(chains, m) ==
    LET asked == [ChainOf(chains, Key(m)) EXCEPT !.asked = TRUE]
    IN  WithChain(chains, Key(m),
            IF IsCancellation(m) THEN MovedTo(Reopened(asked), "cancelled") ELSE asked)

\* An SSEM of the log: "processing", "granted", "rejected" or "cancelled".
ReplaySSEM(chains, m, status) ==
    LET found == [ChainOf(chains, Key(m)) EXCEPT !.orphan = @ \/ Key(m) \notin DOMAIN chains]
        closed == [found EXCEPT !.final = TRUE]
    IN  WithChain(chains, Key(m),
            CASE status = "processing" -> MovedTo(Reopened(found), "processing")
              [] status = "cancelled"  -> MovedTo(Reopened(closed), "cancelled")
              [] OTHER                 -> MovedTo(closed, status))

\* superseded_by_newer_sequence: compared as numbers, not modulo their width.
Superseded(chains, key) ==
    \E k \in DOMAIN chains : chains[k].asked /\ SameRequest(k, key) /\ k.seq > key.seq

MissingFinal(chains) ==
    {k \in DOMAIN chains : chains[k].asked /\ ~chains[k].final
                           /\ chains[k].state # "cancelled" /\ ~Superseded(chains, k)}

InvalidTransitions(chains) ==
    {k \in DOMAIN chains : chains[k].faults # {} /\ ~Superseded(chains, k)}

Orphans(chains) == {k \in DOMAIN chains : chains[k].orphan}
=============================================================================
