---------------------------- MODULE HTTPExchange ----------------------------
(***************************************************************************)
(* What HTTPSClient::get promises its callers, one exchange after another: *)
(* an answer comes from a peer that got the whole request, and over TLS    *)
(* that peer is the one that was asked.  A failure promises nothing: the   *)
(* request may have been delivered.  Portal's exchanges are of this kind.  *)
(***************************************************************************)

VARIABLES
    state,       \* of the latest exchange
    rightPeer,   \* does the connection lead to whom was asked?
    delivered    \* does the peer have the whole request?

vars == <<state, rightPeer, delivered>>

Init == state = "idle" /\ rightPeer \in BOOLEAN /\ ~delivered

Send ==
    /\ state \in {"idle", "answered", "failed"}
    /\ state' = "sent"
    /\ rightPeer' \in BOOLEAN
    /\ delivered' = FALSE

Deliver ==
    /\ state = "sent" /\ rightPeer
    /\ delivered' = TRUE
    /\ UNCHANGED <<state, rightPeer>>

Answer ==
    /\ state = "sent" /\ delivered
    /\ state' = "answered"
    /\ UNCHANGED <<rightPeer, delivered>>

Fail ==
    /\ state = "sent"
    /\ state' = "failed"
    /\ UNCHANGED <<rightPeer, delivered>>

\* The process is killed by SIGPIPE: before the request got through.
Die ==
    /\ state = "sent" /\ ~delivered
    /\ state' = "dead"
    /\ UNCHANGED <<rightPeer, delivered>>

Next == Send \/ Deliver \/ Answer \/ Fail \/ Die

Spec == Init /\ [][Next]_vars

=============================================================================
