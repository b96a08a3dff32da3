------------------------- MODULE HTTPSClientProofs -------------------------
(***************************************************************************)
(* Proofs about HTTPSClient, for requests and responses of every length    *)
(* and any number of calls.                                                *)
(***************************************************************************)
EXTENDS HTTPSClientRefinement, SequenceTheorems, TLAPS

-----------------------------------------------------------------------------
(* The request as a sequence.                                              *)

\* The request is a sequence, and its pieces have the expected lengths.
LEMMA RequestIsSequence ==
  /\ Request \in Seq(1..RequestUnits)
  /\ Len(Request) = RequestUnits
  /\ \A i \in 0..RequestUnits : Len(SubSeq(Request, 1, i)) = i
<1>1. Request \in Seq(1..RequestUnits) /\ Len(Request) = RequestUnits
  BY HTTPSClientConstants DEF Request
<1>2. ASSUME NEW i \in 0..RequestUnits PROVE Len(SubSeq(Request, 1, i)) = i
  BY <1>1, <1>2, SubSeqProperties, HTTPSClientConstants DEF Request
<1> QED BY <1>1, <1>2

\* What is sent next continues what was sent before.
LEMMA NextUnits ==
  ASSUME NEW w \in 0..RequestUnits,
         NEW n \in 0..(RequestUnits - w)
  PROVE  /\ SubSeq(Request, 1, w) \o SubSeq(Request, w + 1, w + n)
              = SubSeq(Request, 1, w + n)
         /\ Len(SubSeq(Request, 1, w + n)) = w + n
         /\ SubSeq(Request, 1, w + n) \in Seq(1..RequestUnits)
<1>1. /\ w \in Int /\ w + n \in Int /\ w + n \in 0..RequestUnits
      /\ 1 \in 1..(Len(Request) + 1)
      /\ w \in (1 - 1)..Len(Request)
      /\ w + n \in w..Len(Request)
  BY RequestIsSequence, HTTPSClientConstants
<1>2. SubSeq(Request, 1, w) \o SubSeq(Request, w + 1, w + n)
         = SubSeq(Request, 1, w + n)
  <2> HIDE DEF Request
  <2> QED BY <1>1, RequestIsSequence, ConcatAdjacentSubSeq
<1>3. Len(SubSeq(Request, 1, w + n)) = w + n
  BY <1>1, RequestIsSequence
<1>4. SubSeq(Request, 1, w + n) \in Seq(1..RequestUnits)
  <2>1. \A i \in 1..(w + n) : Request[i] \in 1..RequestUnits
    BY <1>1, HTTPSClientConstants DEF Request
  <2> QED BY <1>1, <2>1, SubSeqProperties
<1> QED BY <1>2, <1>3, <1>4

\* A request of which nothing was sent yet is a prefix of itself.
LEMMA NothingIsAPrefix == <<>> = SubSeq(Request, 1, Len(<<>>))
<1>1. Len(<<>>) = 0
  OBVIOUS
<1> QED BY <1>1, SubSeqEmpty

\* A single send puts a prefix of the request on the wire.
LEMMA PrefixOfRequest ==
  ASSUME NEW n \in 0..RequestUnits
  PROVE  Len(SubSeq(Request, 1, n)) = n
         /\ SubSeq(Request, 1, n) \in Seq(1..RequestUnits)
<1>1. 0 \in 0..RequestUnits /\ n \in 0..(RequestUnits - 0) /\ 0 + n = n
  BY HTTPSClientConstants
<1> QED BY <1>1, NextUnits

\* The longest prefix is the request.
LEMMA WholeIsAPrefix == SubSeq(Request, 1, RequestUnits) = Request
<1>1. RequestUnits \in 0..RequestUnits /\ 1 \in Int /\ RequestUnits \in Int
  BY HTTPSClientConstants
<1>2. \A i \in 1..RequestUnits : Request[i] \in 1..RequestUnits
  BY HTTPSClientConstants DEF Request
<1>3. /\ SubSeq(Request, 1, RequestUnits) \in Seq(1..RequestUnits)
      /\ Len(SubSeq(Request, 1, RequestUnits)) = RequestUnits
      /\ \A i \in 1..(RequestUnits - 1 + 1) :
             SubSeq(Request, 1, RequestUnits)[i] = Request[1 + i - 1]
  BY <1>1, <1>2, SubSeqProperties, PrefixOfRequest
<1>4. \A i \in 1..RequestUnits : SubSeq(Request, 1, RequestUnits)[i] = Request[i]
  BY <1>3, HTTPSClientConstants
<1> QED BY <1>3, <1>4, RequestIsSequence, SeqEqual

-----------------------------------------------------------------------------
(* The invariant, action by action.                                        *)

\* The three kinds of state a step can touch come apart in the invariant:
\* what is held, whom the connection leads to, what was sent.
LEMMA InitEstablishes == Init => IndInv
<1> SUFFICES ASSUME Init PROVE IndInv
  OBVIOUS
<1> USE DEF Init
<1>1. TypeOK
  <2>1. wire \in Seq(1..RequestUnits)
    OBVIOUS
  <2>2. contexts \in [Contexts -> {"raw", "live", "freed", "corrupt"}]
    OBVIOUS
  <2>3. anchors \in [Bundles -> {"untried", "whole", "partial", "none"}]
    OBVIOUS
  <2>4. received \in 0..ResponseUnits
    BY HTTPSClientConstants
  <2>5. /\ fd \in BOOLEAN /\ strayClose \in BOOLEAN /\ checksName \in BOOLEAN
        /\ flags \in BOOLEAN
    OBVIOUS
  <2>6. sockets \in 0..1 /\ addresses \in 0..1
    OBVIOUS
  <2> QED BY <2>1, <2>2, <2>3, <2>4, <2>5, <2>6, Zenon DEF TypeOK, Peers
<1>2. HoldInv
  BY DEF HoldInv, TlsPlaces, HttpPlaces, Connected
<1>3. PeerInv /\ WireInv
  BY HTTPSClientConstants DEF PeerInv, WireInv, TlsPlaces
<1>4. RequestArrivesInOrder
  BY NothingIsAPrefix DEF RequestArrivesInOrder
<1> QED BY <1>1, <1>2, <1>3, <1>4
        DEF IndInv, OnlyTheHostReadsRequest, StrayCloseOnlyIfRefused

\* A new call starts from nothing.
LEMMA GetPreserves ==
  ASSUME IndInv, NEW s \in {"http", "https"}, Get(s)
  PROVE  IndInv'
<1> USE DEF Get, FreshLocals, IndInv
<1>1. TypeOK'
  <2>1. wire' \in Seq(1..RequestUnits)
    OBVIOUS
  <2>2. contexts' \in [Contexts -> {"raw", "live", "freed", "corrupt"}]
    OBVIOUS
  <2>3. anchors' \in [Bundles -> {"untried", "whole", "partial", "none"}]
    OBVIOUS
  <2>4. received' \in 0..ResponseUnits
    BY HTTPSClientConstants
  <2> QED BY <2>1, <2>2, <2>3, <2>4 DEF TypeOK
<1>2. HoldInv'
  BY DEF HoldInv, TlsPlaces, HttpPlaces, Connected
<1>3. PeerInv' /\ WireInv'
  BY HTTPSClientConstants DEF PeerInv, WireInv, TlsPlaces
<1>4. RequestArrivesInOrder'
  BY NothingIsAPrefix DEF RequestArrivesInOrder
<1> QED BY <1>1, <1>2, <1>3, <1>4
        DEF OnlyTheHostReadsRequest, StrayCloseOnlyIfRefused

\* A call that only passes on to the next one, or learns about the peer.
LEMMA CallsPreserve ==
  ASSUME IndInv,
         Prepare \/ Setup \/ SetHostname \/ Connect \/ Handshake \/ Verify
            \/ Read
  PROVE  IndInv'
<1> USE HTTPSClientConstants
    DEF IndInv, TypeOK, HoldInv, PeerInv, WireInv, OnlyTheHostReadsRequest,
        RequestArrivesInOrder, StrayCloseOnlyIfRefused, TlsPlaces, HttpPlaces,
        Connected, Peers, Passes, NetPrepare, held, peering
<1>1. CASE Prepare
  BY <1>1 DEF Prepare
<1>2. CASE Setup
  BY <1>2 DEF Setup
<1>3. CASE SetHostname
  BY <1>3 DEF SetHostname
<1>4. CASE Connect
  BY <1>4 DEF Connect
<1>5. CASE Handshake
  BY <1>5 DEF Handshake
<1>6. CASE Verify
  BY <1>6 DEF Verify
<1>7. CASE Read
  BY <1>7 DEF Read
<1> QED BY <1>1, <1>2, <1>3, <1>4, <1>5, <1>6, <1>7

\* cleanup closes and frees what there is: it leaves nothing, and a number
\* closed by mistake can only come from a refused connection.
LEMMA CleanupFrees ==
  ASSUME TypeOK, HoldInv, at \in TlsPlaces, NEW has \in BOOLEAN,
         CleanupWith(has), at' = "idle", (at # "connect") => (has <=> fd)
  PROVE  /\ contexts' = [c \in Contexts |-> "freed"]
         /\ fd' = FALSE
         /\ sockets' = 0
         /\ addresses' = 0
         /\ strayClose' => at = "connect" /\ has
         /\ strayClose' \in BOOLEAN
<1>1. contexts' = [c \in Contexts |-> "freed"]
  BY DEF CleanupWith, HoldInv
<1>2. fd' = FALSE /\ addresses' = 0
  BY DEF CleanupWith, HoldInv, TlsPlaces
<1>3. sockets' = 0 /\ (strayClose' => at = "connect" /\ has)
      /\ strayClose' \in BOOLEAN
  BY DEF CleanupWith, CloseNumber, HoldInv, TypeOK, TlsPlaces, Connected
<1> QED BY <1>1, <1>2, <1>3

\* Every way to leave httpsGet leaves the invariant.
LEMMA LeavingPreserves ==
  ASSUME IndInv, at \in TlsPlaces, NEW has \in BOOLEAN, CleanupWith(has),
         (at # "connect") => (has <=> fd),
         NEW how \in {"returned", "threw"}, Finish(how),
         how = "returned" => at = "read",
         UNCHANGED <<checksName, peer, flags, wire, received>>,
         refusal' \in {"none", "unreached", "refused"},
         at = "connect" /\ has => refusal' = "refused",
         anchors' \in [Bundles -> {"untried", "whole", "partial", "none"}],
         anchors' = anchors \/ at = "loadCa"
  PROVE  IndInv'
<1> USE DEF IndInv
<1>0. /\ at' = "idle" /\ scheme' = scheme /\ scheme = "https" /\ outcome' = how
      /\ sigpipe' \in {"default", "ignored"}
  BY DEF Finish, NetPrepare, HoldInv, TypeOK
<1>1. /\ contexts' = [c \in Contexts |-> "freed"]
      /\ fd' = FALSE
      /\ sockets' = 0
      /\ addresses' = 0
      /\ strayClose' => at = "connect" /\ has
      /\ strayClose' \in BOOLEAN
  BY <1>0, CleanupFrees
<1>2. TypeOK'
  <2>1. contexts' \in [Contexts -> {"raw", "live", "freed", "corrupt"}]
    BY <1>1
  <2>2. /\ fd' \in BOOLEAN /\ strayClose' \in BOOLEAN /\ checksName' \in BOOLEAN
        /\ flags' \in BOOLEAN
    BY <1>1, Zenon DEF TypeOK
  <2>3. /\ anchors' \in [Bundles -> {"untried", "whole", "partial", "none"}]
        /\ received' \in 0..ResponseUnits
        /\ wire' \in Seq(1..RequestUnits)
        /\ peer' \in Peers
    BY DEF TypeOK
  <2>4. scheme' \in {"http", "https"} /\ outcome' \in {"none", "returned", "threw", "killed"}
    BY <1>0
  <2>5. sockets' \in 0..1 /\ addresses' \in 0..1
        /\ refusal' \in {"none", "unreached", "refused"}
    BY <1>1
  <2> QED BY <1>0, <2>1, <2>2, <2>3, <2>4, <2>5, Zenon DEF TypeOK
<1>3. HoldInv'
  BY <1>0, <1>1 DEF HoldInv, TlsPlaces, HttpPlaces, Connected
<1>4. PeerInv' /\ WireInv'
  BY <1>0 DEF PeerInv, WireInv, TlsPlaces, HttpPlaces
<1>5. OnlyTheHostReadsRequest'
  BY <1>0 DEF OnlyTheHostReadsRequest, WireInv, TlsPlaces
<1>6. RequestArrivesInOrder'
  BY <1>0 DEF RequestArrivesInOrder
<1>7. StrayCloseOnlyIfRefused'
  BY <1>0, <1>1 DEF StrayCloseOnlyIfRefused, WireInv, TlsPlaces
<1> QED BY <1>2, <1>3, <1>4, <1>5, <1>6, <1>7

\* The failures and the regular end of httpsGet are such ways.
LEMMA EndsPreserve ==
  ASSUME IndInv, ConnectFails \/ VerifyFails \/ ReadEnd \/ TlsFails
  PROVE  IndInv'
<1>0. fd \in BOOLEAN
      /\ anchors \in [Bundles -> {"untried", "whole", "partial", "none"}]
      /\ refusal \in {"none", "unreached", "refused"}
  BY DEF IndInv, TypeOK
<1>1. ASSUME NEW step \in TlsPlaces, Fails(step), step # "connect" PROVE IndInv'
  BY <1>0, <1>1, LeavingPreserves DEF Fails, Cleanup, peering
<1>2. CASE ConnectFails
  <2>1. PICK why \in {"unreached", "refused"} :
          refusal' = why /\ CleanupWith(why = "refused")
    BY <1>2 DEF ConnectFails
  <2>2. (why = "refused") \in BOOLEAN
    OBVIOUS
  <2> QED BY <1>0, <1>2, <2>1, <2>2, LeavingPreserves DEF ConnectFails, TlsPlaces
<1>3. CASE VerifyFails
  BY <1>1, <1>3 DEF VerifyFails, TlsPlaces
<1>4. CASE ReadEnd
  BY <1>0, <1>4, LeavingPreserves DEF ReadEnd, Cleanup, peering, TlsPlaces
<1>5. CASE TlsFails
  BY <1>1, <1>5 DEF TlsFails, TlsPlaces
<1> QED BY <1>2, <1>3, <1>4, <1>5

\* Loading the CA files ends in a chain with a whole file in it, or leaves.
LEMMA LoadCaPreserves ==
  ASSUME IndInv, LoadCa
  PROVE  IndInv'
<1>1. PICK first \in {"whole", "partial", "none"},
           second \in {"untried", "whole", "partial", "none"} :
        /\ anchors' = [anchors EXCEPT !["ca-certificates"] = first,
                                      !["cert.pem"] = second]
        /\ \/ /\ "whole" \in {first, second}
              /\ Passes("loadCa", "setup")
              /\ UNCHANGED held
           \/ /\ at = "loadCa"
              /\ Cleanup
              /\ Finish("threw")
        /\ UNCHANGED <<checksName, peer, flags, refusal, wire, received>>
  BY DEF LoadCa
<1>2. /\ anchors' \in [Bundles -> {"untried", "whole", "partial", "none"}]
      /\ anchors'["ca-certificates"] = first
      /\ anchors'["cert.pem"] = second
  BY <1>1 DEF IndInv, TypeOK, Bundles
<1>3. CASE "whole" \in {first, second} /\ Passes("loadCa", "setup")
             /\ UNCHANGED held
  <2>1. \E b \in Bundles : anchors'[b] = "whole"
    BY <1>2, <1>3 DEF Bundles
  <2> QED
    BY <1>1, <1>2, <1>3, <2>1
       DEF IndInv, TypeOK, HoldInv, PeerInv, WireInv, OnlyTheHostReadsRequest,
           RequestArrivesInOrder, StrayCloseOnlyIfRefused, TlsPlaces,
           HttpPlaces, Connected, Passes, NetPrepare, held
<1>4. CASE at = "loadCa" /\ Cleanup /\ Finish("threw")
  BY <1>1, <1>2, <1>4, LeavingPreserves
     DEF IndInv, TypeOK, Cleanup, TlsPlaces
<1> QED BY <1>1, <1>3, <1>4

\* mbedtls_ssl_write continues where the last one ended.
LEMMA WritePreserves ==
  ASSUME IndInv, Write
  PROVE  IndInv'
<1> DEFINE w == Len(wire)
<1>1. PICK n \in 1..Remaining :
        /\ wire' = wire \o Sent(n)
        /\ IF n < Remaining THEN Passes("write", "write")
                            ELSE Passes("write", "read")
        /\ UNCHANGED <<held, peering, received>>
  BY DEF Write
<1>2. at = "write" /\ w \in 0..RequestUnits /\ wire = SubSeq(Request, 1, w)
  BY <1>1 DEF IndInv, WireInv, RequestArrivesInOrder, Passes
<1>3. n \in 0..(RequestUnits - w) /\ n \in 1..(RequestUnits - w)
  BY <1>1, <1>2, HTTPSClientConstants DEF Remaining
<1>4. /\ wire' = SubSeq(Request, 1, w + n)
      /\ Len(wire') = w + n
      /\ wire' \in Seq(1..RequestUnits)
  <2>1. wire' = SubSeq(Request, 1, w) \o SubSeq(Request, w + 1, w + n)
    BY <1>1, <1>2 DEF Sent
  <2> HIDE DEF w
  <2> QED BY <1>2, <1>3, <2>1, NextUnits
<1>5. CASE w + n < RequestUnits
  <2>1. Passes("write", "write")
    BY <1>1, <1>2, <1>3, <1>5, HTTPSClientConstants DEF Remaining
  <2> QED
    BY <1>1, <1>2, <1>3, <1>4, <1>5, <2>1, HTTPSClientConstants
       DEF IndInv, TypeOK, HoldInv, PeerInv, WireInv, OnlyTheHostReadsRequest,
           RequestArrivesInOrder, StrayCloseOnlyIfRefused, TlsPlaces,
           HttpPlaces, Connected, Passes, NetPrepare, held, peering
<1>6. CASE w + n = RequestUnits
  <2>1. Passes("write", "read")
    BY <1>1, <1>2, <1>3, <1>6, HTTPSClientConstants DEF Remaining
  <2>2. wire' = Request
    BY <1>4, <1>6, WholeIsAPrefix
  <2> QED
    BY <1>1, <1>2, <1>3, <1>4, <1>6, <2>1, <2>2, HTTPSClientConstants
       DEF IndInv, TypeOK, HoldInv, PeerInv, WireInv, OnlyTheHostReadsRequest,
           RequestArrivesInOrder, StrayCloseOnlyIfRefused, TlsPlaces,
           HttpPlaces, Connected, Passes, NetPrepare, held, peering
<1> QED BY <1>2, <1>3, <1>5, <1>6, HTTPSClientConstants

\* What httpGet does before and after its one send.
LEMMA HttpCallsPreserve ==
  ASSUME IndInv, Resolve \/ Socket \/ Dial \/ Recv
  PROVE  IndInv'
<1> USE HTTPSClientConstants
    DEF IndInv, TypeOK, HoldInv, PeerInv, WireInv, OnlyTheHostReadsRequest,
        RequestArrivesInOrder, StrayCloseOnlyIfRefused, TlsPlaces, HttpPlaces,
        Connected, Peers, Passes, NetPrepare, Finish, Throws, CloseNumber, held, peering
<1>1. CASE Resolve
  BY <1>1 DEF Resolve
<1>2. CASE Socket
  <2>1. CASE Passes("socket", "dial") /\ sockets' = sockets + 1 /\ fd' = TRUE
               /\ UNCHANGED <<contexts, addresses, strayClose, peering, wire,
                              received>>
    BY <2>1
  <2>2. CASE at = "socket" /\ addresses' = addresses - 1 /\ Throws
               /\ UNCHANGED <<contexts, fd, sockets, strayClose>>
    BY <2>2
  <2> QED BY <1>2, <2>1, <2>2 DEF Socket
<1>3. CASE Dial
  BY <1>3 DEF Dial
<1>4. CASE Recv
  BY <1>4 DEF Recv
<1> QED BY <1>1, <1>2, <1>3, <1>4

\* The one send of httpGet.
LEMMA SendRequestPreserves ==
  ASSUME IndInv, SendRequest
  PROVE  IndInv'
<1> USE HTTPSClientConstants
    DEF IndInv, TypeOK, HoldInv, PeerInv, WireInv, OnlyTheHostReadsRequest,
        RequestArrivesInOrder, StrayCloseOnlyIfRefused, TlsPlaces, HttpPlaces,
        Connected, Peers, Passes, NetPrepare, Finish, CloseNumber, held, peering
<1>1. CASE wire' = Request /\ Passes("send", "recv")
             /\ UNCHANGED <<held, peering, received>>
  BY <1>1, RequestIsSequence, WholeIsAPrefix
<1>2. CASE /\ at = "send"
           /\ \E n \in 0..(RequestUnits - 1) : wire' = Sent(n)
           /\ CloseNumber(fd)
           /\ Finish("threw")
           /\ UNCHANGED <<contexts, fd, addresses, peering, received>>
  <2>1. PICK n \in 0..(RequestUnits - 1) : wire' = Sent(n)
    BY <1>2
  <2>2. wire' = SubSeq(Request, 1, n)
    BY <1>2, <2>1 DEF Sent
  <2>3. Len(wire') = n /\ wire' \in Seq(1..RequestUnits)
    BY <2>2, PrefixOfRequest
  <2> QED BY <1>2, <2>2, <2>3
<1> QED BY <1>1, <1>2 DEF SendRequest

\* The signal that a send to a closed connection raises.
LEMMA KilledBySendPreserves ==
  ASSUME IndInv, KilledBySend
  PROVE  IndInv'
<1> USE DEF IndInv, KilledBySend, peering
<1>1. TypeOK' /\ HoldInv'
  BY DEF TypeOK, HoldInv, TlsPlaces, HttpPlaces, Connected
<1>2. PeerInv' /\ WireInv'
  BY DEF PeerInv, WireInv, TlsPlaces, HttpPlaces
<1>3. OnlyTheHostReadsRequest' /\ RequestArrivesInOrder' /\ StrayCloseOnlyIfRefused'
  BY DEF OnlyTheHostReadsRequest, RequestArrivesInOrder, HoldInv,
         StrayCloseOnlyIfRefused, HttpPlaces
<1> QED BY <1>1, <1>2, <1>3

-----------------------------------------------------------------------------
(* The theorems.                                                           *)

\* The invariant holds in every state, for every length of request and
\* response, after any number of calls (HTTPSClient.cpp:112-298).
THEOREM ClientInvariance == Spec => []IndInv
<1>1. ASSUME IndInv, [Next]_vars PROVE IndInv'
  <2>1. CASE \E s \in {"http", "https"} : Get(s)
    BY <1>1, <2>1, GetPreserves
  <2>2. CASE HttpsStep
    BY <1>1, <2>2, CallsPreserve, EndsPreserve, LoadCaPreserves, WritePreserves
       DEF HttpsStep
  <2>3. CASE HttpStep
    BY <1>1, <2>3, HttpCallsPreserve, SendRequestPreserves,
       KilledBySendPreserves DEF HttpStep
  <2>4. CASE UNCHANGED vars
    BY <1>1, <2>4
       DEF IndInv, TypeOK, HoldInv, PeerInv, WireInv, OnlyTheHostReadsRequest,
           RequestArrivesInOrder, StrayCloseOnlyIfRefused, vars, held, peering
  <2> QED BY <1>1, <2>1, <2>2, <2>3, <2>4 DEF Next, Step
<1> QED BY <1>1, InitEstablishes, PTL DEF Spec

\* Every variable keeps its type; in particular at most one descriptor and one
\* address list are ever held, however often get was called.
THEOREM ClientTypeCorrect == Spec => []TypeOK
<1>1. IndInv => TypeOK
  BY DEF IndInv
<1> QED BY <1>1, ClientInvariance, PTL

\* Every end of get, returning or throwing, gives back what it took, once
\* (HTTPSClient.cpp:112-156, 173-297).
THEOREM NothingLeaks == Spec => []NothingHeldWhenIdle
<1>1. IndInv => NothingHeldWhenIdle
  BY DEF IndInv, HoldInv, NothingHeldWhenIdle, TlsPlaces, Connected
<1> QED BY <1>1, ClientInvariance, PTL

\* Over TLS only the verified host of the URL sees any of the request
\* (HTTPSClient.cpp:200-277).
THEOREM RequestIsPrivate == Spec => []OnlyTheHostReadsRequest
<1>1. IndInv => OnlyTheHostReadsRequest
  BY DEF IndInv
<1> QED BY <1>1, ClientInvariance, PTL

\* What is sent is the request from its start, and all of it before the
\* response is read (HTTPSClient.cpp:135-140, 266-277).
THEOREM RequestInOrder == Spec => []RequestArrivesInOrder
<1>1. IndInv => RequestArrivesInOrder
  BY DEF IndInv
<1> QED BY <1>1, ClientInvariance, PTL

\* Of all ways to leave a get only one closes a number that is not the
\* client's: the last address refused the connection (HTTPSClient.cpp:243-245,
\* net_sockets.c:193).
THEOREM StrayCloses == Spec => []StrayCloseOnlyIfRefused
<1>1. IndInv => StrayCloseOnlyIfRefused
  BY DEF IndInv
<1> QED BY <1>1, ClientInvariance, PTL

\* A process that has come as far as a TLS handshake is never killed by a
\* peer that goes away (HTTPSClient.cpp:136, net_sockets.c:114).
THEOREM TlsUserSurvives == Spec => NeverKilledAfterTls
<1> DEFINE Safe == sigpipe = "ignored" /\ at # "dead"
<1>1. IndInv /\ at = "handshake" => Safe
  BY DEF IndInv, HoldInv, TypeOK
<1>2. Safe /\ [Next]_vars => Safe'
  <2> SUFFICES ASSUME Safe, [Next]_vars PROVE Safe'
    OBVIOUS
  <2>1. CASE UNCHANGED vars
    BY <2>1 DEF vars
  <2>2. CASE HttpsStep
    BY <2>2 DEF HttpsStep, Prepare, LoadCa, Setup, SetHostname, Connect,
       ConnectFails, Handshake, Verify, VerifyFails, Write, Read, ReadEnd,
       TlsFails, Fails, Passes, Finish, NetPrepare
  <2>3. CASE HttpStep
    BY <2>3 DEF HttpStep, Resolve, Socket, Dial, SendRequest, KilledBySend,
       Recv, Throws, Passes, Finish, NetPrepare
  <2>4. ASSUME NEW s \in {"http", "https"}, Get(s) PROVE Safe'
    BY <2>4 DEF Get, FreshLocals
  <2> QED BY <2>1, <2>2, <2>3, <2>4 DEF Next, Step
<1>3. Safe => at # "dead"
  OBVIOUS
<1> HIDE DEF Safe
<1> QED BY <1>1, <1>2, <1>3, ClientInvariance, PTL DEF Spec, NeverKilledAfterTls

-----------------------------------------------------------------------------
(* The refinement.                                                         *)

Busy == at \notin {"idle", "dead"}
SamePeer == UNCHANGED <<scheme, peer>>

\* A step inside get that sends nothing is none of the exchange.
LEMMA InnerStepStutters ==
  ASSUME Busy, Busy', SamePeer, wire' = wire
  PROVE  UNCHANGED Exchange!vars
  BY DEF Busy, SamePeer, exchangeState, rightPeer, Exchange!vars

\* A step that leaves get answers, with the request delivered, or fails.
LEMMA EndAnswersOrFails ==
  ASSUME IndInv', Busy, at' = "idle", outcome' \in {"returned", "threw"},
         SamePeer, wire' = wire
  PROVE  Exchange!Next
<1> USE DEF Busy, SamePeer, exchangeState, rightPeer
<1>1. CASE outcome' = "returned"
  <2>1. wire' = Request
    BY <1>1 DEF IndInv, RequestArrivesInOrder
  <2> QED BY <1>1, <2>1 DEF Exchange!Answer, Exchange!Next
<1>2. CASE outcome' = "threw"
  BY <1>2 DEF Exchange!Fail, Exchange!Next
<1> QED BY <1>1, <1>2

\* A shorter sequence is not the request.
LEMMA ShorterIsNotRequest ==
  ASSUME NEW w, Len(w) < RequestUnits PROVE w # Request
  BY RequestIsSequence, HTTPSClientConstants

LEMMA NothingIsNotRequest == <<>> # Request
  BY ShorterIsNotRequest, HTTPSClientConstants

\* The steps of httpsGet.
LEMMA HttpsStepMaps ==
  ASSUME IndInv, IndInv', HttpsStep
  PROVE  [Exchange!Next]_(Exchange!vars)
<1>1. CASE Prepare \/ Setup \/ SetHostname \/ Connect \/ Handshake \/ Verify \/ Read
  <2>1. Busy /\ Busy' /\ SamePeer /\ wire' = wire
    BY <1>1 DEF Prepare, Setup, SetHostname, Connect, Handshake, Verify, Read,
       Passes, Busy, SamePeer, held, peering
  <2> QED BY <2>1, InnerStepStutters
<1>2. CASE ConnectFails \/ VerifyFails \/ ReadEnd \/ TlsFails
  <2>1. Busy /\ at' = "idle" /\ outcome' \in {"returned", "threw"}
        /\ SamePeer /\ wire' = wire
    BY <1>2 DEF ConnectFails, VerifyFails, ReadEnd, TlsFails, Fails, Finish,
       Busy, SamePeer, peering
  <2> QED BY <2>1, EndAnswersOrFails
<1>3. CASE LoadCa
  <2>1. at = "loadCa" /\ SamePeer /\ wire' = wire
        /\ (at' = "setup" \/ (at' = "idle" /\ outcome' = "threw"))
    BY <1>3 DEF LoadCa, Passes, Finish, SamePeer
  <2>2. CASE at' = "setup"
    BY <2>1, <2>2, InnerStepStutters DEF Busy
  <2>3. CASE at' = "idle" /\ outcome' = "threw"
    BY <2>1, <2>3, EndAnswersOrFails DEF Busy
  <2> QED BY <2>1, <2>2, <2>3
<1>4. CASE Write
  <2>1. at = "write" /\ at' \in {"write", "read"} /\ SamePeer
    BY <1>4 DEF Write, Passes, SamePeer, peering
  <2>2. wire # Request /\ rightPeer
    BY <2>1, ShorterIsNotRequest DEF IndInv, WireInv, PeerInv, rightPeer
  <2>3. CASE at' = "write"
    <3>1. wire' # Request
      BY <2>3, ShorterIsNotRequest DEF IndInv, WireInv
    <3> QED BY <2>1, <2>2, <2>3, <3>1
            DEF SamePeer, exchangeState, rightPeer, Exchange!vars
  <2>4. CASE at' = "read"
    <3>1. wire' = Request
      BY <2>4 DEF IndInv, RequestArrivesInOrder
    <3> QED BY <2>1, <2>2, <2>4, <3>1
            DEF SamePeer, exchangeState, rightPeer, Exchange!Deliver, Exchange!Next
  <2> QED BY <2>1, <2>3, <2>4
<1> QED BY <1>1, <1>2, <1>3, <1>4 DEF HttpsStep

\* The steps of httpGet.
LEMMA HttpStepMaps ==
  ASSUME IndInv, IndInv', HttpStep
  PROVE  [Exchange!Next]_(Exchange!vars)
<1>1. CASE Resolve \/ Socket \/ Dial \/ Recv
  <2>1. Busy /\ SamePeer /\ wire' = wire
        /\ (Busy' \/ (at' = "idle" /\ outcome' \in {"returned", "threw"}))
    BY <1>1 DEF Resolve, Socket, Dial, Recv, Throws, Passes, Finish,
       Busy, SamePeer, held, peering
  <2>2. CASE Busy'
    BY <2>1, <2>2, InnerStepStutters
  <2>3. CASE at' = "idle" /\ outcome' \in {"returned", "threw"}
    BY <2>1, <2>3, EndAnswersOrFails
  <2> QED BY <2>1, <2>2, <2>3
<1>2. CASE SendRequest \/ KilledBySend
  <2>1. at = "send" /\ SamePeer /\ wire = <<>> /\ scheme = "http"
    BY <1>2 DEF SendRequest, KilledBySend, Passes, Finish, SamePeer, peering,
       IndInv, HoldInv, WireInv, TlsPlaces, HttpPlaces
  <2>2. CASE at' = "recv" /\ wire' = Request
    BY <2>1, <2>2, NothingIsNotRequest
       DEF SamePeer, exchangeState, rightPeer, Exchange!Deliver, Exchange!Next
  <2>3. CASE at' = "idle" /\ outcome' = "threw" /\ wire' # Request
    BY <2>1, <2>3, NothingIsNotRequest
       DEF SamePeer, exchangeState, rightPeer, Exchange!Fail, Exchange!Next
  <2>4. CASE at' = "dead" /\ wire' = wire
    BY <2>1, <2>4, NothingIsNotRequest
       DEF SamePeer, exchangeState, rightPeer, Exchange!Die, Exchange!Next
  <2>5. CASE SendRequest
    <3>1. CASE wire' = Request /\ Passes("send", "recv")
      BY <2>2, <3>1 DEF Passes
    <3>2. CASE Finish("threw") /\ \E n \in 0..(RequestUnits - 1) : wire' = Sent(n)
      <4>1. PICK n \in 0..(RequestUnits - 1) : wire' = Sent(n)
        BY <3>2
      <4>2. wire' = SubSeq(Request, 1, n)
        BY <2>1, <4>1 DEF Sent
      <4>3. Len(wire') = n /\ n < RequestUnits
        BY <4>2, PrefixOfRequest, HTTPSClientConstants
      <4> QED BY <2>3, <3>2, <4>3, ShorterIsNotRequest DEF Finish
    <3> QED BY <2>5, <3>1, <3>2 DEF SendRequest
  <2>6. CASE KilledBySend
    BY <2>4, <2>6 DEF KilledBySend
  <2> QED BY <1>2, <2>5, <2>6
<1> QED BY <1>1, <1>2 DEF HttpStep

\* get is one exchange for its caller: what it returns was read from a peer
\* that had the whole request and, over TLS, was the host of the URL
\* (HTTPSClient.cpp:31-40, 112-298).
THEOREM ClientImplementsExchange == Spec => ImplementsExchange
<1>1. Init => Exchange!Init
  BY NothingIsNotRequest DEF Init, exchangeState, rightPeer, Exchange!Init
<1>2. IndInv /\ IndInv' /\ [Next]_vars => [Exchange!Next]_(Exchange!vars)
  <2> SUFFICES ASSUME IndInv, IndInv', [Next]_vars
               PROVE  [Exchange!Next]_(Exchange!vars)
    OBVIOUS
  <2>1. CASE UNCHANGED vars
    BY <2>1 DEF vars, held, peering, exchangeState, rightPeer, Exchange!vars
  <2>2. ASSUME NEW s \in {"http", "https"}, Get(s) PROVE Exchange!Send
    BY <2>2, NothingIsNotRequest
       DEF Get, FreshLocals, exchangeState, rightPeer, Exchange!Send
  <2> QED BY <2>1, <2>2, HttpsStepMaps, HttpStepMaps
          DEF Next, Step, Exchange!Next
<1> QED BY <1>1, <1>2, ClientInvariance, PTL
        DEF Spec, ImplementsExchange, Exchange!Spec

=============================================================================
