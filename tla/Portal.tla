------------------------------- MODULE Portal -------------------------------
(***************************************************************************)
(* The srun authentication portal and the HTTP exchanges with it, as the   *)
(* client in src/Authenticator.cpp uses them.  The portal is not part of   *)
(* the repository: everything here is external, and as free as the client  *)
(* has to expect it to be.                                                 *)
(*                                                                         *)
(* One exchange is in progress at a time, as HTTPSClient::get is           *)
(* synchronous.  A request can be lost; so can the reply to a request that *)
(* took effect; a reply can arrive as text that is no JSON (an error page, *)
(* a body cut short, a JSONP call followed by anything).  Meanwhile other  *)
(* clients at the same address log in, get challenges, and sessions end.   *)
(***************************************************************************)
EXTENDS Naturals

CONSTANTS
    Users,      \* account names, non-empty strings
    Passwords,  \* non-empty strings
    UrlSafe,    \* the names that read the same put into a URL as they are
    JsonSafe,   \* the names and passwords that do between JSON quotes
    Tokens,     \* the challenges the portal can issue, non-empty strings
    AcIds,      \* access controller ids, non-empty strings
    Address     \* the address the portal sees this machine at, non-empty

None == ""
Mangled == "?"   \* what is left of a text where it is not safe

ASSUME PortalConstants ==
    /\ {None, Mangled} \cap (Users \cup Passwords \cup Tokens \cup AcIds) = {}
    /\ Address # None
    /\ UrlSafe \subseteq Users
    /\ JsonSafe \subseteq Users \cup Passwords

VARIABLES
    session,      \* the user the portal has online at Address, or None
    seenOnline,   \* history: the users it had online there during this run
    challenge,    \* the latest challenge issued to Address
    issued,       \* the tokens issued so far
    exchange,     \* the HTTP exchange: its state, request and last reply
    performed     \* history: what the portal did for this run's requests

portalVars == <<session, seenOnline, challenge, issued, exchange, performed>>

-----------------------------------------------------------------------------
(* Requests and replies.                                                   *)

DetectRequest == [kind |-> "detect"]
PageRequest(acId) == [kind |-> "page", acId |-> acId]
InfoRequest(ip) == [kind |-> "info", ip |-> ip]
ChallengeRequest(name) == [kind |-> "challenge", username |-> name]

String(text) == [type |-> "string", text |-> text]
Number(text) == [type |-> "number", text |-> text]

\* No such property, one that is null, or an empty text: all read the same.
Null == [type |-> "null", text |-> None]

JsonBody(fields) == [kind |-> "json", fields |-> fields, found |-> None]
PageBody(found) == [kind |-> "page", fields |-> <<>>, found |-> found]
Noise == [kind |-> "noise", fields |-> <<>>, found |-> None]

\* What the portal reads where the client put text without encoding it: the
\* name in the URL of get_challenge, name and password inside info.
ReadRaw(text) == IF text \in UrlSafe \cup {None} THEN text ELSE Mangled
ReadQuoted(text) == IF text \in JsonSafe \cup {None} THEN text ELSE Mangled

NoRequest == [kind |-> "none"]

PortalInit ==
    /\ session \in Users \cup {None}
    /\ seenOnline = {session} \ {None}
    /\ challenge = [token |-> None, name |-> None, ours |-> FALSE]
    /\ issued = {}
    /\ exchange = [state |-> "idle", request |-> NoRequest, reply |-> Noise]
    /\ performed = {}

-----------------------------------------------------------------------------
(* The client's side of an exchange, used by Authenticator.                *)

Send(request) == exchange' = [exchange EXCEPT !.state = "sent",
                                              !.request = request]

Answered == exchange.state = "answered"
Failed == exchange.state = "failed"
Consume == exchange' = [exchange EXCEPT !.state = "idle"]

-----------------------------------------------------------------------------
(* The network's and the portal's side.                                    *)

Handling(kind) == exchange.state = "sent" /\ exchange.request.kind = kind

\* The client gets one of bodies, or noise, or no reply at all.
Respond(bodies) ==
    \/ \E body \in bodies \cup {Noise} :
           exchange' = [exchange EXCEPT !.state = "answered", !.reply = body]
    \/ exchange' = [exchange EXCEPT !.state = "failed"]

\* The request does not get through: no host, no connection, no certificate.
Lose ==
    /\ exchange.state = "sent"
    /\ exchange' = [exchange EXCEPT !.state = "failed"]
    /\ UNCHANGED <<session, seenOnline, challenge, issued, performed>>

\* The page behind detect_ac_id, with or without an ac_id in it, and the
\* portal page, with or without an ip.
ServePage ==
    /\ \/ Handling("detect") /\ Respond({PageBody(id) : id \in AcIds})
       \/ Handling("page") /\ Respond({PageBody(Address)})
    /\ UNCHANGED <<session, seenOnline, challenge, issued, performed>>

OnlineBodies ==
    {JsonBody([error |-> String("ok"), user_name |-> String(session)]),
     JsonBody([error |-> String("ok"), user_name |-> Number(session)]),
     JsonBody([error |-> String("ok")])}

OfflineBodies == {JsonBody([error |-> String("not_online_error")])}

ServeInfo ==
    /\ Handling("info")
    /\ Respond(IF session # None THEN OnlineBodies ELSE OfflineBodies)
    /\ UNCHANGED <<session, seenOnline, challenge, issued, performed>>

ServeChallenge ==
    /\ Handling("challenge")
    /\ \/ \E token \in Tokens \ issued :
           /\ challenge' = [token |-> token, ours |-> TRUE,
                            name |-> ReadRaw(exchange.request.username)]
           /\ issued' = issued \cup {token}
           /\ Respond({JsonBody([challenge |-> String(token),
                                 client_ip |-> String(Address)]),
                       JsonBody([challenge |-> String(token)])})
       \/ /\ Respond({JsonBody([error |-> String("challenge_error")])})
          /\ UNCHANGED <<challenge, issued>>
    /\ UNCHANGED <<session, seenOnline, performed>>

\* The portal recomputes the checksum from the parameters it decoded and the
\* challenge it issued, and opens info with that challenge.
Verifies(r) ==
    /\ r.chksum = [token |-> challenge.token, over |-> r.params]
    /\ r.params.info.key = challenge.token
    /\ \A f \in {"username", "ip", "acId"} : r.params.info[f] = r.params[f]

\* A refusal explains itself by a code, a message, a result, several of them
\* or none, whatever kind of error it reports.
Refusal(error, ecode, error_msg, res) ==
    JsonBody([error |-> String(error), ecode |-> ecode,
              error_msg |-> error_msg, res |-> res])

Refusals ==
    {Refusal(error, ecode, error_msg, res) :
        error \in {"login_error", "sign_error"},
        ecode \in {Null, String("E2553"), Number("0")},
        error_msg \in {Null, String("busy")},
        res \in {Null, String("sign_error")}}

Acceptance == {JsonBody([error |-> String("ok"), suc_msg |-> String("done")])}

\* The texts in them that the client may show.
Messages == {"E2553", "0", "busy", "sign_error", "done"}

\* Any request may be refused; only one that verifies may be accepted.
Refuse ==
    /\ \/ Handling("login") \/ Handling("logout")
    /\ Respond(Refusals)
    /\ UNCHANGED <<session, seenOnline, challenge, issued, performed>>

AcceptLogin ==
    /\ Handling("login")
    /\ Verifies(exchange.request)
    /\ session' = exchange.request.params.username
    /\ seenOnline' = seenOnline \cup {session'}
    /\ performed' = performed \cup {"login"}
    /\ Respond(Acceptance)
    /\ UNCHANGED <<challenge, issued>>

AcceptLogout ==
    /\ Handling("logout")
    /\ Verifies(exchange.request)
    /\ session' = None
    /\ performed' = performed \cup {"logout"}
    /\ Respond(Acceptance)
    /\ UNCHANGED <<seenOnline, challenge, issued>>

PortalStep ==
    \/ ServePage \/ ServeInfo \/ ServeChallenge
    \/ Refuse \/ AcceptLogin \/ AcceptLogout

-----------------------------------------------------------------------------
(* Everybody else at this address.                                         *)

SessionEnds ==
    /\ session # None
    /\ session' = None
    /\ UNCHANGED <<seenOnline, challenge, issued, exchange, performed>>

OtherLogin ==
    /\ \E user \in Users :
           /\ session' = user
           /\ seenOnline' = seenOnline \cup {user}
    /\ UNCHANGED <<challenge, issued, exchange, performed>>

OtherChallenge ==
    /\ \E token \in Tokens \ issued :
           /\ challenge' = [token |-> token, name |-> None, ours |-> FALSE]
           /\ issued' = issued \cup {token}
    /\ UNCHANGED <<session, seenOnline, exchange, performed>>

OthersStep == SessionEnds \/ OtherLogin \/ OtherChallenge

=============================================================================
