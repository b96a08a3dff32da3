----------------------- MODULE HTTPSClientRefinement -----------------------
(***************************************************************************)
(* HTTPSClient implements HTTPExchange: all that get does with sockets,    *)
(* contexts and loops is one exchange to its caller.                       *)
(***************************************************************************)
EXTENDS HTTPSClient

exchangeState ==
    CASE at = "dead" -> "dead"
      [] at = "idle" /\ outcome = "none" -> "idle"
      [] at = "idle" /\ outcome = "returned" -> "answered"
      [] at = "idle" /\ outcome \notin {"none", "returned"} -> "failed"
      [] OTHER -> "sent"

\* Over HTTP whoever is connected to counts as the one who was asked.
rightPeer == scheme = "http" \/ peer = "genuine"

Exchange == INSTANCE HTTPExchange WITH
    state <- exchangeState, delivered <- (wire = Request)

\* Every behaviour of the client is one of the exchange: whatever get returns
\* was read from a peer that had the whole request and, over TLS, had proved
\* to be the host of the URL (HTTPSClient.cpp:31-40, 112-298).
ImplementsExchange == Exchange!Spec

=============================================================================
