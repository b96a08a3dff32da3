---------------------------- MODULE HTTPSClient ----------------------------
(***************************************************************************)
(* HTTPSClient::get (lib/HTTPSClient.cpp), called again and again by one   *)
(* thread at a time: what it holds (a descriptor, an address list, the six *)
(* TLS contexts), what reaches which peer, and how it ends.                *)
(*                                                                         *)
(* The operating system and mbedTLS decide the outcome of every call.      *)
(* Bytes come in units; a request and a response are a few of them.        *)
(***************************************************************************)
EXTENDS Naturals, Sequences

CONSTANTS
    RequestUnits,    \* the length of a request
    ResponseUnits    \* the length of what a peer sends

ASSUME HTTPSClientConstants ==
    RequestUnits \in Nat \ {0} /\ ResponseUnits \in Nat

Contexts == {"ssl", "conf", "entropy", "ctrDrbg", "cacert", "serverFd"}

\* Whom the connection leads to: the host of the URL, somebody with a
\* certificate no CA file vouches for, or with one for another name.
Peers == {"genuine", "unvouched", "otherName"}

VARIABLES
    at,          \* the step of httpGet or httpsGet, "idle" or "dead"
    scheme,      \* of the URL
    contexts,    \* the state of each TLS context
    fd,          \* does sockfd or serverFd hold a descriptor number?
    sockets,     \* how many descriptors the calls so far left open
    addresses,   \* how many address lists they left allocated
    strayClose,  \* history: was a number closed that was not open?
    anchors,     \* what became of the two CA files
    checksName,  \* was the host name set for verification?
    peer,        \* whom the connection leads to
    flags,       \* does the verify result report a problem?
    refusal,     \* history: how did mbedtls_net_connect fail in this get?
    wire,        \* the units the peer was sent
    received,    \* how many units were read
    outcome,     \* how the last get ended
    sigpipe      \* what the process does on SIGPIPE

held == <<contexts, fd, sockets, addresses, strayClose>>
peering == <<anchors, checksName, peer, flags, refusal>>
vars == <<at, scheme, held, peering, wire, received, outcome, sigpipe>>

Bundles == {"ca-certificates", "cert.pem"}
Request == [i \in 1..RequestUnits |-> i]

TypeOK ==
    /\ at \in {"idle", "resolve", "socket", "dial", "send", "recv", "seed",
               "defaults", "loadCa", "setup", "hostname", "connect",
               "handshake", "verify", "write", "read", "dead"}
    /\ scheme \in {"http", "https"}
    /\ contexts \in [Contexts -> {"raw", "live", "freed", "corrupt"}]
    /\ fd \in BOOLEAN
    /\ sockets \in 0..1
    /\ addresses \in 0..1
    /\ strayClose \in BOOLEAN
    /\ anchors \in [Bundles -> {"untried", "whole", "partial", "none"}]
    /\ checksName \in BOOLEAN
    /\ peer \in Peers
    /\ flags \in BOOLEAN
    /\ refusal \in {"none", "unreached", "refused"}
    /\ wire \in Seq(1..RequestUnits)
    /\ received \in 0..ResponseUnits
    /\ outcome \in {"none", "returned", "threw", "killed"}
    /\ sigpipe \in {"default", "ignored"}

Init ==
    /\ at = "idle"
    /\ scheme = "https"
    /\ contexts = [c \in Contexts |-> "raw"]
    /\ fd = FALSE
    /\ sockets = 0
    /\ addresses = 0
    /\ strayClose = FALSE
    /\ anchors = [b \in Bundles |-> "untried"]
    /\ checksName = FALSE
    /\ peer = "genuine"
    /\ flags = FALSE
    /\ refusal = "none"
    /\ wire = <<>>
    /\ received = 0
    /\ outcome = "none"
    /\ sigpipe = "default"

-----------------------------------------------------------------------------
(* get, and what both ways have in common.                                 *)

\* What the locals of a get start from, but for serverFd.
FreshLocals(s) ==
    /\ at = "idle"
    /\ scheme' = s
    /\ at' = IF s = "https" THEN "seed" ELSE "resolve"
    /\ contexts' = [c \in Contexts |-> IF s = "https" THEN "live" ELSE "raw"]
    /\ strayClose' = FALSE
    /\ anchors' = [b \in Bundles |-> "untried"]
    /\ checksName' = FALSE
    /\ peer' \in Peers
    /\ flags' = FALSE
    /\ refusal' = "none"
    /\ wire' = <<>>
    /\ received' = 0
    /\ outcome' = "none"
    /\ UNCHANGED <<sockets, addresses, sigpipe>>

\* Mutant: mbedtls_net_init is forgotten, and serverFd has any number.
NetInitForgotten(s) ==
    /\ FreshLocals(s)
    /\ fd' \in IF s = "https" THEN BOOLEAN ELSE {FALSE}

\* get(url): a fresh set of locals; httpsGet initializes its contexts first.
Get(s) ==
    /\ FreshLocals(s)
    /\ fd' = FALSE

\* close() of what the client takes for its descriptor, if it has a number.
CloseNumber(has) ==
    /\ sockets' = IF has /\ sockets > 0 THEN sockets - 1 ELSE sockets
    /\ strayClose' = (strayClose \/ (has /\ sockets = 0))

\* cleanup: every context is freed; mbedtls_net_free closes unless fd is -1.
CleanupWith(has) ==
    /\ contexts' = [c \in Contexts |->
                       IF contexts[c] = "live" THEN "freed" ELSE "corrupt"]
    /\ CloseNumber(has)
    /\ fd' = FALSE
    /\ UNCHANGED addresses

Cleanup == CleanupWith(fd)

\* Mutant: SIGPIPE keeps its default action.
NetPrepareForgotten == UNCHANGED sigpipe

\* mbedtls_net_connect starts with it, whether it then succeeds or fails.
NetPrepare == sigpipe' = IF at = "connect" THEN "ignored" ELSE sigpipe

Finish(how) ==
    /\ at' = "idle"
    /\ outcome' = how
    /\ NetPrepare
    /\ UNCHANGED scheme

\* A call at this step succeeds, and the next one is due.
Passes(step, next) ==
    /\ at = step
    /\ at' = next
    /\ NetPrepare
    /\ UNCHANGED <<scheme, outcome>>

\* A call at this step fails: cleanup and throw.
Fails(step) ==
    /\ at = step
    /\ Cleanup
    /\ Finish("threw")
    /\ UNCHANGED <<peering, wire, received>>

-----------------------------------------------------------------------------
(* httpsGet.                                                               *)

\* mbedtls_ctr_drbg_seed and mbedtls_ssl_config_defaults
Prepare ==
    /\ Passes("seed", "defaults") \/ Passes("defaults", "loadCa")
    /\ UNCHANGED <<held, peering, wire, received>>

\* The first CA file that parses as a whole ends the search; certificates of
\* one that parses in part stay in the chain.  caFile_ is empty in every call
\* of the program.
LoadCa ==
    \E first \in {"whole", "partial", "none"},
       second \in {"untried", "whole", "partial", "none"} :
        /\ (first = "whole") <=> (second = "untried")
        /\ anchors' = [anchors EXCEPT !["ca-certificates"] = first,
                                      !["cert.pem"] = second]
        /\ \/ /\ "whole" \in {first, second}
              /\ Passes("loadCa", "setup")
              /\ UNCHANGED held
           \/ /\ "whole" \notin {first, second}
              /\ at = "loadCa"
              /\ Cleanup
              /\ Finish("threw")
        /\ UNCHANGED <<checksName, peer, flags, refusal, wire, received>>

Setup ==
    /\ Passes("setup", "hostname")
    /\ UNCHANGED <<held, peering, wire, received>>

\* Mutant: the host name is not set.
SkipHostname ==
    /\ Passes("hostname", "connect")
    /\ UNCHANGED <<held, peering, wire, received>>

\* mbedtls_ssl_set_hostname
SetHostname ==
    /\ Passes("hostname", "connect")
    /\ checksName' = TRUE
    /\ UNCHANGED <<held, anchors, peer, flags, refusal, wire, received>>

\* mbedtls_net_connect
Connect ==
    /\ Passes("connect", "handshake")
    /\ sockets' = sockets + 1
    /\ fd' = TRUE
    /\ UNCHANGED <<contexts, addresses, strayClose, peering, wire, received>>

\* It fails: nothing was resolved or no socket was made, and fd is -1; or the
\* last address refused, its socket is closed again, and fd keeps the number.
ConnectFails ==
    /\ at = "connect"
    /\ \E why \in {"unreached", "refused"} :
        /\ refusal' = why
        /\ CleanupWith(why = "refused")
    /\ Finish("threw")
    /\ UNCHANGED <<anchors, checksName, peer, flags, wire, received>>

\* mbedtls_ssl_handshake; what it may let through with a reported problem is
\* its caller's to reject.
Handshake ==
    /\ Passes("handshake", "verify")
    /\ flags' = (peer = "unvouched" \/ (peer = "otherName" /\ checksName))
    /\ UNCHANGED <<held, anchors, checksName, peer, refusal, wire, received>>

\* mbedtls_ssl_get_verify_result
Verify ==
    /\ ~flags
    /\ Passes("verify", "write")
    /\ UNCHANGED <<held, peering, wire, received>>

VerifyFails == flags /\ Fails("verify")

Sent(n) == SubSeq(Request, Len(wire) + 1, Len(wire) + n)

Remaining == RequestUnits - Len(wire)

\* Mutant: the units written are not added up.
WriteFromStart ==
    /\ \E n \in 1..RequestUnits :
           /\ wire' = wire \o SubSeq(Request, 1, n)
           /\ IF n < RequestUnits THEN Passes("write", "write")
                                  ELSE Passes("write", "read")
    /\ Len(wire) < 2 * RequestUnits
    /\ UNCHANGED <<held, peering, received>>

\* One mbedtls_ssl_write; the loop goes on until the request is written.
Write ==
    /\ \E n \in 1..Remaining :
           /\ wire' = wire \o Sent(n)
           /\ IF n < Remaining THEN Passes("write", "write")
                               ELSE Passes("write", "read")
    /\ UNCHANGED <<held, peering, received>>

\* One mbedtls_ssl_read that gets something.
Read ==
    /\ \E n \in 1..(ResponseUnits - received) : received' = received + n
    /\ Passes("read", "read")
    /\ UNCHANGED <<held, peering, wire>>

\* close_notify, or the end of the stream without one: the two are not told
\* apart, nor is it asked whether the response is complete.
ReadEnd ==
    /\ at = "read"
    /\ Cleanup
    /\ Finish("returned")
    /\ UNCHANGED <<peering, wire, received>>

\* Mutant: a failed mbedtls_ssl_write throws without cleanup.
LeakOnWrite ==
    \/ \E step \in {"seed", "defaults", "setup", "hostname", "handshake",
                    "read"} : Fails(step)
    \/ /\ at = "write"
       /\ Finish("threw")
       /\ UNCHANGED <<held, peering, wire, received>>

TlsFails ==
    \E step \in {"seed", "defaults", "setup", "hostname", "handshake", "write",
                 "read"} : Fails(step)

HttpsStep ==
    \/ Prepare \/ LoadCa \/ Setup \/ SetHostname \/ Connect \/ ConnectFails
    \/ Handshake \/ Verify \/ VerifyFails \/ Write \/ Read \/ ReadEnd
    \/ TlsFails

-----------------------------------------------------------------------------
(* httpGet.                                                                *)

Throws == Finish("threw") /\ UNCHANGED <<peering, wire, received>>

\* getaddrinfo
Resolve ==
    \/ /\ Passes("resolve", "socket")
       /\ addresses' = addresses + 1
       /\ UNCHANGED <<contexts, fd, sockets, strayClose, peering, wire,
                      received>>
    \/ at = "resolve" /\ Throws /\ UNCHANGED held

\* socket
Socket ==
    \/ /\ Passes("socket", "dial")
       /\ sockets' = sockets + 1
       /\ fd' = TRUE
       /\ UNCHANGED <<contexts, addresses, strayClose, peering, wire, received>>
    \/ /\ at = "socket"
       /\ addresses' = addresses - 1
       /\ Throws
       /\ UNCHANGED <<contexts, fd, sockets, strayClose>>

\* connect to the first address only; the list is freed either way
Dial ==
    /\ addresses' = addresses - 1
    /\ \/ /\ Passes("dial", "send")
          /\ UNCHANGED <<fd, sockets, strayClose, peering, wire, received>>
       \/ /\ at = "dial"
          /\ CloseNumber(fd)
          /\ Throws
          /\ UNCHANGED fd
    /\ UNCHANGED contexts

\* send to a peer that has closed the connection while SIGPIPE has its default
\* action: the process ends, and with it whatever it held.
KilledBySend ==
    /\ at = "send"
    /\ sigpipe = "default"
    /\ at' = "dead"
    /\ outcome' = "killed"
    /\ sockets' = 0
    /\ UNCHANGED <<scheme, contexts, fd, addresses, strayClose, peering, wire,
                   received, sigpipe>>

\* one send; less than the whole request is an error
SendRequest ==
    \/ /\ wire' = Request
       /\ Passes("send", "recv")
       /\ UNCHANGED <<held, peering, received>>
    \/ /\ at = "send"
       /\ \E n \in 0..(RequestUnits - 1) : wire' = Sent(n)
       /\ CloseNumber(fd)
       /\ Finish("threw")
       /\ UNCHANGED <<contexts, fd, addresses, peering, received>>

\* recv until the stream ends or breaks
Recv ==
    \/ /\ \E n \in 1..(ResponseUnits - received) : received' = received + n
       /\ Passes("recv", "recv")
       /\ UNCHANGED <<held, peering, wire>>
    \/ /\ at = "recv"
       /\ CloseNumber(fd)
       /\ \E how \in {"returned", "threw"} : Finish(how)
       /\ UNCHANGED <<contexts, fd, addresses, peering, wire, received>>

HttpStep == Resolve \/ Socket \/ Dial \/ SendRequest \/ KilledBySend \/ Recv

-----------------------------------------------------------------------------
Step == HttpsStep \/ HttpStep

Next == Step \/ \E s \in {"http", "https"} : Get(s)

Spec == Init /\ [][Next]_vars

-----------------------------------------------------------------------------
(* Safety.                                                                 *)

\* However a get ends, and however many came before, nothing stays open or
\* allocated, and nothing was freed twice (HTTPSClient.cpp:112-156, 173-297).
NothingHeldWhenIdle ==
    at = "idle" =>
        /\ sockets = 0
        /\ addresses = 0
        /\ \A c \in Contexts : contexts[c] \notin {"live", "corrupt"}

\* Over TLS not a unit of the request, which carries the user's name and the
\* encrypted credentials, reaches anybody but the host of the URL, and only
\* if a whole CA file was read (HTTPSClient.cpp:200-277).
OnlyTheHostReadsRequest ==
    scheme = "https" /\ wire # <<>>
        => /\ peer = "genuine"
           /\ \E b \in Bundles : anchors[b] = "whole"

\* A peer sees the request from its start, in order, each unit once, and all
\* of it before get begins to read (HTTPSClient.cpp:135-140, 266-277).
RequestArrivesInOrder ==
    /\ wire = SubSeq(Request, 1, Len(wire))
    /\ at \in {"read", "recv"} \/ outcome = "returned" => wire = Request

\* The client closes a number it does not own only in a get whose
\* mbedtls_net_connect was refused by the last address, which leaves the number
\* of a closed socket behind; no other failure, early or late, and no regular
\* end does, and nothing was sent then (HTTPSClient.cpp:112-156, 173-297,
\* net_sockets.c:193, 684-694).
StrayCloseOnlyIfRefused ==
    strayClose => refusal = "refused" /\ wire = <<>>

\* A peer that goes away ends a get and not the process, once the process has
\* opened a connection over TLS (HTTPSClient.cpp:136, net_sockets.c:114).
NeverKilledAfterTls == [](at = "handshake" => [](at # "dead"))

-----------------------------------------------------------------------------
(* Why they hold: an inductive invariant, in parts.                        *)

TlsPlaces == {"seed", "defaults", "loadCa", "setup", "hostname", "connect",
              "handshake", "verify", "write", "read"}
HttpPlaces == {"resolve", "socket", "dial", "send", "recv"}
Connected == {"handshake", "verify", "write", "read", "dial", "send", "recv"}

\* The place in get determines what is held.
HoldInv ==
    /\ at \in TlsPlaces
           => scheme = "https" /\ \A c \in Contexts : contexts[c] = "live"
    /\ at \notin TlsPlaces
           => \A c \in Contexts : contexts[c] \in {"raw", "freed"}
    /\ at \in HttpPlaces => scheme = "http"
    /\ sockets = IF at \in Connected THEN 1 ELSE 0
    /\ addresses = IF at \in {"socket", "dial"} THEN 1 ELSE 0
    /\ at \notin {"idle", "dead"} => /\ fd <=> at \in Connected
                                    /\ ~strayClose
                                    /\ outcome = "none"
                                    /\ refusal = "none"
    /\ at = "dead" => ~strayClose
    /\ at \in {"handshake", "verify", "write", "read"} => sigpipe = "ignored"

\* And what is known of the peer.
PeerInv ==
    /\ at \in TlsPlaces \ {"seed", "defaults", "loadCa"}
           => \E b \in Bundles : anchors[b] = "whole"
    /\ at \in {"connect", "handshake", "verify"} => checksName
    /\ at = "verify" => (flags <=> peer # "genuine")
    /\ at \in {"write", "read"} => peer = "genuine"

\* And how far the request is.
WireInv ==
    /\ Len(wire) \in 0..RequestUnits
    /\ at \in (TlsPlaces \cup HttpPlaces) \ {"write", "read", "recv"}
           => wire = <<>>
    /\ at = "write" => Len(wire) < RequestUnits

IndInv ==
    /\ TypeOK /\ HoldInv /\ PeerInv /\ WireInv
    /\ OnlyTheHostReadsRequest
    /\ RequestArrivesInOrder
    /\ StrayCloseOnlyIfRefused

=============================================================================
