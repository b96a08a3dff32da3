--------------------------- MODULE ThuloginProofs ---------------------------
(***************************************************************************)
(* Proofs about Thulogin, for every set of users, passwords, challenges,   *)
(* command lines and configurations, and every number of requests, replies *)
(* and other clients.                                                      *)
(***************************************************************************)
EXTENDS Thulogin, TLAPS

-----------------------------------------------------------------------------
(* Texts.                                                                  *)

\* The texts a reply is compared with are not the empty one.
LEMMA TextsDiffer ==
  /\ "ok" # None /\ "login_error" # None /\ "not_online_error" # None
  /\ "challenge_error" # None /\ "sign_error" # None
  /\ "E2553" # None /\ "0" # None /\ "busy" # None /\ "done" # None
BY DEF None

-----------------------------------------------------------------------------
(* What the client reads in each reply.                                    *)

\* In noise it finds nothing.
LEMMA NoiseReads ==
  /\ Noise.found = None
  /\ \A prop : FetchFromJson(Noise, prop) = None
  /\ ~Online(Noise) /\ ~ReportsOk(Noise)
  /\ ResponseMsg(Noise) = None
<1>1. Noise.kind = "noise" /\ Noise.found = None
  BY DEF Noise
<1>2. \A prop : FetchFromJson(Noise, prop) = None
  BY <1>1 DEF FetchFromJson
<1>3. ~Online(Noise)
  BY <1>1 DEF Online
<1>4. ~ReportsOk(Noise)
  BY <1>2, TextsDiffer DEF ReportsOk
<1>5. ResponseMsg(Noise) = None
  BY <1>2, <1>4, TextsDiffer DEF ResponseMsg
<1> QED BY <1>1, <1>2, <1>3, <1>4, <1>5

\* In a page it finds what the page holds.
LEMMA PageReads == ASSUME NEW text PROVE PageBody(text).found = text
BY DEF PageBody

\* A string or a number that is there is read, whatever is not there is None.
LEMMA FieldReads ==
  ASSUME NEW fields, NEW prop
  PROVE  /\ /\ prop \in DOMAIN fields
            /\ fields[prop].type \in {"string", "number"}
            => FetchFromJson(JsonBody(fields), prop) = fields[prop].text
         /\ prop \notin DOMAIN fields
            => FetchFromJson(JsonBody(fields), prop) = None
<1>1. JsonBody(fields).kind = "json" /\ JsonBody(fields).fields = fields
  BY DEF JsonBody
<1> QED BY <1>1 DEF FetchFromJson

\* A user is reported online by name or not at all.
LEMMA InfoReads ==
  /\ \A body \in OnlineBodies :
        FetchFromJson(body, "user_name") \in {session, None}
  /\ \A body \in OfflineBodies : ~Online(body)
<1>1. FetchFromJson(JsonBody([error |-> String("ok"),
                              user_name |-> String(session)]), "user_name")
         = session
  BY FieldReads DEF String
<1>2. FetchFromJson(JsonBody([error |-> String("ok"),
                              user_name |-> Number(session)]), "user_name")
         = session
  BY FieldReads DEF Number
<1>3. FetchFromJson(JsonBody([error |-> String("ok")]), "user_name") = None
  BY FieldReads
<1>4. ASSUME NEW body \in OfflineBodies PROVE ~Online(body)
  <2>1. body.fields["error"] = String("not_online_error")
    BY DEF OfflineBodies, JsonBody
  <2>2. String("not_online_error") # String("ok")
    BY DEF String
  <2> QED BY <2>1, <2>2 DEF Online
<1> QED BY <1>1, <1>2, <1>3, <1>4 DEF OnlineBodies

\* A challenge comes with the address or without it, and is no acceptance.
LEMMA ChallengeReads ==
  ASSUME NEW t,
         NEW body \in {JsonBody([challenge |-> String(t),
                                 client_ip |-> String(Address)]),
                       JsonBody([challenge |-> String(t)])}
  PROVE  /\ FetchFromJson(body, "challenge") = t
         /\ FetchFromJson(body, "client_ip") \in {Address, None}
         /\ ~ReportsOk(body)
<1>1. CASE body = JsonBody([challenge |-> String(t),
                            client_ip |-> String(Address)])
  BY <1>1, FieldReads, TextsDiffer DEF String, ReportsOk
<1>2. CASE body = JsonBody([challenge |-> String(t)])
  BY <1>2, FieldReads, TextsDiffer DEF String, ReportsOk
<1> QED BY <1>1, <1>2

\* A portal that issues no challenge sends neither.
LEMMA ChallengeErrorReads ==
  ASSUME NEW body \in {JsonBody([error |-> String("challenge_error")])}
  PROVE  /\ FetchFromJson(body, "challenge") = None
         /\ FetchFromJson(body, "client_ip") = None
         /\ ~ReportsOk(body)
<1>1. FetchFromJson(body, "error") = "challenge_error"
  BY FieldReads DEF String
<1> QED BY <1>1, FieldReads DEF ReportsOk

\* A code, a message or a result is read, and one that is not there is not.
LEMMA TextReads ==
  ASSUME NEW fields, NEW prop \in DOMAIN fields, NEW text,
         fields[prop] \in {Null, String(text), Number(text)}
  PROVE  /\ FetchFromJson(JsonBody(fields), prop) \in {None, text}
         /\ text # None => (FetchFromJson(JsonBody(fields), prop) = None
                               <=> fields[prop] = Null)
<1>1. /\ Null.type = "null" /\ Null.text = None
      /\ String(text).type = "string" /\ String(text).text = text
      /\ Number(text).type = "number" /\ Number(text).text = text
  BY DEF Null, String, Number
<1>2. JsonBody(fields).kind = "json" /\ JsonBody(fields).fields = fields
  BY DEF JsonBody
<1>3. CASE fields[prop] = Null
  BY <1>1, <1>2, <1>3 DEF FetchFromJson
<1>4. CASE fields[prop] \in {String(text), Number(text)}
  BY <1>1, <1>4, FieldReads
<1> QED BY <1>3, <1>4

\* Each refusal is taken for one, and leaves a message exactly if it explains
\* itself where this kind of error is looked at.
LEMMA RefusalReads ==
  ASSUME NEW body \in Refusals
  PROVE  /\ ~ReportsOk(body)
         /\ ResponseMsg(body) \in Messages \cup {None}
         /\ ResponseMsg(body) = None <=> Unexplained(body.fields)
<1>1. PICK error \in {"login_error", "sign_error"},
           ecode \in {Null, String("E2553"), Number("0")},
           error_msg \in {Null, String("busy")},
           res \in {Null, String("sign_error")} :
         body = Refusal(error, ecode, error_msg, res)
  BY DEF Refusals
<1> DEFINE says == [error |-> String(error), ecode |-> ecode,
                    error_msg |-> error_msg, res |-> res]
<1>2. body = JsonBody(says) /\ body.fields = says
  BY <1>1 DEF Refusal, JsonBody
<1>3. /\ DOMAIN says = {"error", "ecode", "error_msg", "res"}
      /\ says["error"] = String(error) /\ says["ecode"] = ecode
      /\ says["error_msg"] = error_msg /\ says["res"] = res
      /\ says.error = String(error) /\ says.ecode = ecode
      /\ says.error_msg = error_msg /\ says.res = res
  OBVIOUS
<1> HIDE DEF says
<1>4. FetchFromJson(body, "error") = error
  BY <1>2, <1>3, FieldReads DEF String
<1>5. /\ FetchFromJson(body, "ecode") \in {None, "E2553", "0"}
      /\ FetchFromJson(body, "ecode") = None <=> ecode = Null
  <2>1. CASE ecode \in {Null, String("E2553"), Number("E2553")}
    BY <1>2, <1>3, <2>1, TextReads, TextsDiffer
  <2>2. CASE ecode \in {Null, String("0"), Number("0")}
    BY <1>2, <1>3, <2>2, TextReads, TextsDiffer
  <2> QED BY <2>1, <2>2
<1>6. /\ FetchFromJson(body, "error_msg") \in {None, "busy"}
      /\ FetchFromJson(body, "error_msg") = None <=> error_msg = Null
  BY <1>2, <1>3, TextReads, TextsDiffer
<1>7. /\ FetchFromJson(body, "res") \in {None, "sign_error"}
      /\ FetchFromJson(body, "res") = None <=> res = Null
  BY <1>2, <1>3, TextReads, TextsDiffer
<1>8. ~ReportsOk(body)
  BY <1>4 DEF ReportsOk
<1>9. says.error = String("login_error") <=> error = "login_error"
  BY <1>3 DEF String
<1>10. CASE error = "login_error"
  BY <1>2, <1>3, <1>4, <1>5, <1>6, <1>8, <1>9, <1>10
     DEF ResponseMsg, Messages, Unexplained
<1>11. CASE error = "sign_error"
  BY <1>2, <1>3, <1>4, <1>7, <1>8, <1>9, <1>11
     DEF ResponseMsg, Messages, Unexplained
<1> QED BY <1>8, <1>10, <1>11

\* An acceptance is taken for one.
LEMMA AcceptanceReads ==
  ASSUME NEW body \in Acceptance
  PROVE  ReportsOk(body) /\ ResponseMsg(body) \in Messages
<1>1. /\ FetchFromJson(body, "error") = "ok"
      /\ FetchFromJson(body, "suc_msg") = "done"
  BY FieldReads DEF Acceptance, String
<1> QED BY <1>1 DEF ReportsOk, ResponseMsg, Messages

-----------------------------------------------------------------------------
(* The exchange.                                                           *)

Shaped == DOMAIN exchange = {"state", "request", "reply"}

\* A request is sent; the last reply stays until the next.
LEMMA SendFacts ==
  ASSUME NEW request, Shaped, Send(request)
  PROVE  /\ exchange'.state = "sent" /\ exchange'.request = request
         /\ exchange'.reply = exchange.reply /\ Shaped'
BY DEF Shaped, Send

\* A reply is consumed: request and reply stay for whoever looks at them.
LEMMA ConsumeFacts ==
  ASSUME Shaped, Consume
  PROVE  /\ exchange'.state = "idle" /\ exchange'.request = exchange.request
         /\ exchange'.reply = exchange.reply /\ Shaped'
BY DEF Shaped, Consume

\* A response answers the request it finds or fails it.
LEMMA RespondFacts ==
  ASSUME NEW bodies, Shaped, Respond(bodies)
  PROVE  /\ exchange'.request = exchange.request /\ Shaped'
         /\ exchange'.state \in {"answered", "failed"}
         /\ exchange'.state = "answered" => exchange'.reply \in bodies \cup {Noise}
         /\ exchange'.state = "failed" => exchange'.reply = exchange.reply
<1>1. CASE \E body \in bodies \cup {Noise} :
              exchange' = [exchange EXCEPT !.state = "answered", !.reply = body]
  BY <1>1 DEF Shaped
<1>2. CASE exchange' = [exchange EXCEPT !.state = "failed"]
  BY <1>2 DEF Shaped
<1> QED BY <1>1, <1>2 DEF Respond

-----------------------------------------------------------------------------
(* The portal and the network.                                             *)

Elsewhere == UNCHANGED <<authenticatorVars, monitorVars, mainVars>>

\* What the program says of itself does not change while it does nothing.
LEMMA ElsewhereKeeps ==
  ASSUME TypeOK, PcInv, WatchInv, EchoInv, Elsewhere
  PROVE  TypeOK' /\ PcInv' /\ WatchInv' /\ EchoInv'
<1> USE DEF Elsewhere, authenticatorVars, memberVars, monitorVars, mainVars
<1>1. TypeOK'
  BY DEF TypeOK, AuthenticatorTypeOK, MonitorTypeOK
<1>2. PcInv'
  BY DEF PcInv, Prompts
<1>3. WatchInv'
  BY DEF WatchInv
<1>4. EchoInv'
  BY DEF EchoInv, EchoAsFound
<1> QED BY <1>1, <1>2, <1>3, <1>4

\* Once the portal dealt with the request, all that is left to show is what the
\* reply says, whose challenge is in force and who is online.
LEMMA Delivered ==
  ASSUME IndInv, Elsewhere, exchange.state = "sent", Shaped',
         exchange'.request = exchange.request,
         exchange'.state \in {"answered", "failed"},
         seenOnline \subseteq seenOnline', performed \subseteq performed',
         exchange.request.kind \in {"login", "logout"} \/ UNCHANGED performed,
         SessionInv', ChallengeInv', ReplyInv'
  PROVE  IndInv'
<1> USE DEF Elsewhere, authenticatorVars, memberVars, monitorVars, mainVars
<1>1. TypeOK' /\ PcInv' /\ WatchInv' /\ EchoInv'
  BY ElsewhereKeeps DEF IndInv
<1>2. ExchangeInv' /\ at # "ready"
  BY DEF IndInv, ExchangeInv, Shaped
<1>3. PerformedInv'
  BY DEF IndInv, PerformedInv
<1>4. ReturnedInv'
  BY <1>2 DEF IndInv, ReturnedInv
<1>5. NameInv'
  BY DEF IndInv, NameInv, LogoutNamesSomebodyKnown
<1>6. said' = "nothing"
  BY <1>2 DEF IndInv, SaidInv
<1>7. SaidInv' /\ SuccessIsReal' /\ RefusalIsExplained'
  BY <1>6 DEF SaidInv, SuccessIsReal, RefusalIsExplained
<1>8. ExitStatusMeaning'
  BY <1>2 DEF IndInv, ExitStatusMeaning, PerformedInv, Over, Confirmed
<1> QED BY <1>1, <1>2, <1>3, <1>4, <1>5, <1>7, <1>8 DEF IndInv

\* Noise says nothing.
LEMMA NoiseSays == ASSUME NEW kind PROVE CanSay(kind, Noise)
BY NoiseReads, AcceptanceReads DEF CanSay

\* A request is being handled.
LEMMA HandlingFacts ==
  ASSUME IndInv, NEW kind, Handling(kind)
  PROVE  Shaped /\ exchange.state = "sent" /\ exchange.request.kind = kind
BY DEF IndInv, ExchangeInv, Shaped, Handling

\* An answer that changes nothing at the portal keeps the invariant if every
\* body can be said.
LEMMA Answers ==
  ASSUME IndInv, Elsewhere, NEW kind, Handling(kind), NEW bodies,
         Respond(bodies), \A body \in bodies : CanSay(kind, body),
         UNCHANGED <<session, seenOnline, challenge, issued, performed>>
  PROVE  IndInv'
<1>1. Shaped /\ exchange.state = "sent" /\ exchange.request.kind = kind
  BY HandlingFacts
<1>2. /\ exchange'.request = exchange.request /\ Shaped'
      /\ exchange'.state \in {"answered", "failed"}
      /\ exchange'.state = "answered" => exchange'.reply \in bodies \cup {Noise}
      /\ exchange'.state = "failed" => exchange'.reply = exchange.reply
  BY <1>1, RespondFacts
<1>3. username' = username
  BY DEF Elsewhere, authenticatorVars, memberVars
<1>4. ReplyInv'
  BY <1>1, <1>2, NoiseSays DEF IndInv, ReplyInv, Answered, Reply, CanSay
<1>5. SessionInv' /\ ChallengeInv'
  BY <1>1, <1>2, <1>3 DEF IndInv, SessionInv, ChallengeInv
<1> QED BY <1>1, <1>2, <1>4, <1>5, Delivered

\* A page shows an ac_id or the address.
LEMMA ServePageKeeps == ASSUME IndInv, ServePage, Elsewhere PROVE IndInv'
<1>1. CASE Handling("detect") /\ Respond({PageBody(id) : id \in AcIds})
  <2>1. \A body \in {PageBody(id) : id \in AcIds} : CanSay("detect", body)
    BY PageReads DEF CanSay
  <2> QED BY <1>1, <2>1, Answers DEF ServePage
<1>2. CASE Handling("page") /\ Respond({PageBody(Address)})
  <2>1. CanSay("page", PageBody(Address))
    BY PageReads DEF CanSay
  <2> QED BY <1>2, <2>1, Answers DEF ServePage
<1> QED BY <1>1, <1>2 DEF ServePage

\* rad_user_info names whoever is online, and nobody else.
LEMMA ServeInfoKeeps == ASSUME IndInv, ServeInfo, Elsewhere PROVE IndInv'
<1>1. CASE session # None
  <2>1. \A body \in OnlineBodies : CanSay("info", body)
    BY <1>1, InfoReads DEF CanSay, IndInv, SessionInv
  <2> QED BY <1>1, <2>1, Answers DEF ServeInfo
<1>2. CASE session = None
  <2>1. \A body \in OfflineBodies : CanSay("info", body)
    BY InfoReads DEF CanSay
  <2> QED BY <1>2, <2>1, Answers DEF ServeInfo
<1> QED BY <1>1, <1>2

\* A refusal claims nothing.
LEMMA RefuseKeeps == ASSUME IndInv, Refuse, Elsewhere PROVE IndInv'
<1>1. \A body \in Refusals : CanSay("login", body) /\ CanSay("logout", body)
  BY RefusalReads, AcceptanceReads DEF CanSay
<1> QED BY <1>1, Answers DEF Refuse

\* A new challenge is ours, and the reply holds it or nothing.
LEMMA ServeChallengeKeeps ==
  ASSUME IndInv, ServeChallenge, Elsewhere PROVE IndInv'
<1>1. ASSUME NEW t \in Tokens \ issued,
             challenge' = [token |-> t, ours |-> TRUE,
                           name |-> ReadRaw(exchange.request.username)],
             Respond({JsonBody([challenge |-> String(t),
                                client_ip |-> String(Address)]),
                      JsonBody([challenge |-> String(t)])})
      PROVE  IndInv'
  <2> DEFINE bodies == {JsonBody([challenge |-> String(t),
                                  client_ip |-> String(Address)]),
                        JsonBody([challenge |-> String(t)])}
  <2>1. Shaped /\ exchange.state = "sent" /\ exchange.request.kind = "challenge"
    BY HandlingFacts DEF ServeChallenge
  <2>2. /\ exchange'.request = exchange.request /\ Shaped'
        /\ exchange'.state \in {"answered", "failed"}
        /\ exchange'.state = "answered"
               => exchange'.reply \in bodies \cup {Noise}
    BY <1>1, <2>1, RespondFacts
  <2>3. UNCHANGED <<session, seenOnline, performed, username>>
    BY DEF ServeChallenge, Elsewhere, authenticatorVars, memberVars
  <2>4. \A body \in bodies : /\ FetchFromJson(body, "challenge") = t
                             /\ FetchFromJson(body, "client_ip")
                                    \in {Address, None}
                             /\ body \notin Acceptance
    BY ChallengeReads, AcceptanceReads
  <2>5. ReplyInv'
    <3> HIDE DEF bodies
    <3> QED BY <1>1, <2>1, <2>2, <2>4, NoiseReads, AcceptanceReads
            DEF ReplyInv, Answered, Reply, CanSay
  <2>6. ChallengeInv'
    BY <1>1, <2>1, <2>2, <2>3 DEF IndInv, ChallengeInv
  <2>7. SessionInv'
    BY <2>3 DEF IndInv, SessionInv
  <2> QED BY <2>1, <2>2, <2>3, <2>5, <2>6, <2>7, Delivered
<1>2. CASE /\ Respond({JsonBody([error |-> String("challenge_error")])})
           /\ UNCHANGED <<challenge, issued>>
  <2>1. CanSay("challenge", JsonBody([error |-> String("challenge_error")]))
    BY ChallengeErrorReads, AcceptanceReads DEF CanSay
  <2> QED BY <1>2, <2>1, Answers DEF ServeChallenge
<1> QED BY <1>1, <1>2 DEF ServeChallenge

\* Only a login or a logout that was performed is accepted.
LEMMA AcceptKeeps ==
  ASSUME IndInv, AcceptLogin \/ AcceptLogout, Elsewhere PROVE IndInv'
<1> DEFINE kind == exchange.request.kind
<1>1. /\ Shaped /\ exchange.state = "sent" /\ kind \in {"login", "logout"}
      /\ AcceptLogin => kind = "login"
  BY HandlingFacts DEF AcceptLogin, AcceptLogout
<1>2. Respond(Acceptance) /\ UNCHANGED challenge
  BY DEF AcceptLogin, AcceptLogout
<1>3. /\ exchange'.request = exchange.request /\ Shaped'
      /\ exchange'.state \in {"answered", "failed"}
      /\ exchange'.state = "answered"
             => exchange'.reply \in Acceptance \cup {Noise}
      /\ exchange'.state = "failed" => exchange'.reply = exchange.reply
  BY <1>1, <1>2, RespondFacts
<1>4. performed' = performed \cup {kind} /\ seenOnline \subseteq seenOnline'
  BY <1>1, HandlingFacts DEF AcceptLogin, AcceptLogout
<1>5. username' = username
  BY DEF Elsewhere, authenticatorVars, memberVars
<1>6. ReplyInv'
  <2>1. \A body \in Acceptance : ReportsOk(body) /\ ResponseMsg(body) \in Messages
    BY AcceptanceReads
  <2> QED BY <1>1, <1>3, <1>4, <2>1, NoiseReads
          DEF IndInv, ReplyInv, Answered, Reply, CanSay
<1>7. ChallengeInv'
  BY <1>1, <1>2, <1>3, <1>5 DEF IndInv, ChallengeInv
<1>8. SessionInv'
  BY <1>1 DEF IndInv, SessionInv, PerformedInv, AcceptLogin, AcceptLogout
<1> QED BY <1>1, <1>3, <1>4, <1>6, <1>7, <1>8, Delivered

\* A request that is lost is answered by nothing.
LEMMA LoseKeeps == ASSUME IndInv, Lose, Elsewhere PROVE IndInv'
<1>1. Shaped /\ exchange.state = "sent"
  BY DEF IndInv, ExchangeInv, Shaped, Lose
<1>2. exchange'.request = exchange.request /\ Shaped'
      /\ exchange'.state = "failed" /\ exchange'.reply = exchange.reply
  BY <1>1 DEF Lose, Shaped
<1>3. UNCHANGED <<session, seenOnline, challenge, performed, username>>
  BY DEF Lose, Elsewhere, authenticatorVars, memberVars
<1>4. ReplyInv'
  BY <1>1, <1>2 DEF IndInv, ReplyInv, Answered, Reply
<1>5. SessionInv' /\ ChallengeInv'
  BY <1>1, <1>2, <1>3 DEF IndInv, SessionInv, ChallengeInv
<1> QED BY <1>1, <1>2, <1>3, <1>4, <1>5, Delivered

\* What others do changes no exchange, and a challenge of theirs is not ours.
LEMMA OthersKeep == ASSUME IndInv, OthersStep, Elsewhere PROVE IndInv'
<1> USE DEF Elsewhere, authenticatorVars, memberVars, monitorVars, mainVars
<1>1. UNCHANGED <<exchange, performed>>
  BY DEF OthersStep, SessionEnds, OtherLogin, OtherChallenge
<1>2. /\ seenOnline \subseteq seenOnline'
      /\ SessionInv'
      /\ challenge' = challenge \/ ~challenge'.ours
  BY DEF OthersStep, SessionEnds, OtherLogin, OtherChallenge, IndInv, SessionInv
<1>3. TypeOK' /\ PcInv' /\ WatchInv' /\ EchoInv'
  BY ElsewhereKeeps DEF IndInv
<1>4. ExchangeInv' /\ PerformedInv'
  BY <1>1 DEF IndInv, ExchangeInv, PerformedInv
<1>5. ChallengeInv'
  BY <1>1, <1>2 DEF IndInv, ChallengeInv
<1>6. ReplyInv'
  BY <1>1, <1>2 DEF IndInv, ReplyInv, CanSay, Answered, Reply
<1>7. ReturnedInv' /\ NameInv'
  BY <1>1, <1>2 DEF IndInv, ReturnedInv, Confirmed, Reply, NameInv,
                    LogoutNamesSomebodyKnown
<1>8. SaidInv' /\ SuccessIsReal' /\ RefusalIsExplained'
  BY <1>1 DEF IndInv, SaidInv, SuccessIsReal, RefusalIsExplained, Reply
<1>9. ExitStatusMeaning'
  BY <1>1, <1>2 DEF IndInv, ExitStatusMeaning, Over, Confirmed, Reply
<1> QED BY <1>2, <1>3, <1>4, <1>5, <1>6, <1>7, <1>8, <1>9 DEF IndInv

-----------------------------------------------------------------------------
(* The Authenticator.                                                      *)

\* The Authenticator runs alone: only its members and the exchange change.
Inside == UNCHANGED <<session, seenOnline, challenge, issued, performed,
                      monitorVars, mainVars>>

\* Which operation of the program waits at which place.
LEMMA WhoWaits ==
  ASSUME IndInv, pc # "exited", at # "ready"
  PROVE  /\ at = "detect" => pc = "detect"
         /\ at \in {"page", "info"} => pc = "online"
         /\ at \in {"authChallenge", "login"} => pc = "auth"
         /\ at \in {"logoutChallenge", "logout"} => pc = "logout"
         /\ said = "nothing"
BY DEF IndInv, PcInv, TypeOK, AuthenticatorTypeOK, Places, Pcs, SaidInv

\* Where nothing is said, nothing wrong is said.
LEMMA NothingSaid ==
  ASSUME IndInv, at # "ready", UNCHANGED said
  PROVE  SuccessIsReal' /\ RefusalIsExplained'
BY DEF IndInv, SaidInv, SuccessIsReal, RefusalIsExplained

\* A request that continues an operation keeps the invariant if its kind fits
\* the place that waits for it.
LEMMA EnterKeeps ==
  ASSUME IndInv, Inside, pc # "exited", at # "ready", NEW place, NEW request,
         Enter(place, request),
         UNCHANGED <<username, password, ac_id, response_msg>>,
         ip_addr' \in {Address, None}, token' \in Tokens \cup {None},
         \/ at = "page" /\ place = "info"
         \/ at = "authChallenge" /\ place = "login"
         \/ at = "logoutChallenge" /\ place = "logout",
         request.kind = place,
         place \in {"login", "logout"} =>
             /\ request.params.username = username
             /\ challenge.ours => request.chksum.token = challenge.token,
         place = "logout" => Reply \notin Acceptance
  PROVE  IndInv'
<1> USE DEF Inside, monitorVars, mainVars
<1>1. /\ exchange'.state = "sent" /\ exchange'.request = request
      /\ exchange'.reply = exchange.reply /\ Shaped'
  BY SendFacts DEF Enter, IndInv, ExchangeInv, Shaped
<1>2. at' = place /\ UNCHANGED <<returned, said>>
  BY DEF Enter
<1>3. /\ said = "nothing" /\ performed = {}
      /\ place = "info" => pc = "online" /\ exchange.request.kind = "page"
      /\ place = "login" => pc = "auth" /\ exchange.request.kind = "challenge"
      /\ place = "logout" => pc = "logout" /\ exchange.request.kind = "challenge"
  BY WhoWaits DEF IndInv, PerformedInv, ExchangeInv
<1>4. TypeOK'
  BY <1>2 DEF IndInv, TypeOK, AuthenticatorTypeOK, MonitorTypeOK, Places
<1>5. ExchangeInv' /\ PcInv'
  BY <1>1, <1>2, <1>3 DEF IndInv, ExchangeInv, PcInv, Shaped, Prompts
<1>6. PerformedInv'
  <2>1. place = "login" => username \in Users
    BY <1>3 DEF IndInv, PcInv, NameInv, TypeOK, AuthenticatorTypeOK
  <2>2. place = "logout" => username \in Users
    BY <1>3 DEF IndInv, NameInv, SessionInv, TypeOK, AuthenticatorTypeOK
  <2> QED BY <1>1, <1>3, <2>1, <2>2 DEF IndInv, PerformedInv
<1>7. SessionInv' /\ WatchInv' /\ EchoInv'
  BY DEF IndInv, SessionInv, WatchInv, EchoInv, EchoAsFound
<1>8. ChallengeInv'
  <2>1. CASE place = "info"
    BY <1>1, <1>3, <2>1 DEF IndInv, ChallengeInv
  <2>2. CASE place \in {"login", "logout"}
    BY <1>1, <1>3, <2>2 DEF IndInv, ChallengeInv
  <2> QED BY <2>1, <2>2
<1>9. ReplyInv' /\ ReturnedInv'
  BY <1>1, <1>2, <1>3 DEF IndInv, ReplyInv, Answered, Reply, ReturnedInv
<1>10. NameInv'
  BY <1>1, <1>3 DEF IndInv, NameInv, LogoutNamesSomebodyKnown
<1>11. SaidInv' /\ SuccessIsReal' /\ RefusalIsExplained'
  BY <1>2, <1>3 DEF SaidInv, SuccessIsReal, RefusalIsExplained
<1>12. ExitStatusMeaning'
  BY DEF ExitStatusMeaning, Over, IndInv
<1> QED BY <1>4, <1>5, <1>6, <1>7, <1>8, <1>9, <1>10, <1>11, <1>12 DEF IndInv

\* An operation that returns keeps the invariant if what it returns and says is
\* what its caller may find.
LEMMA LeaveKeeps ==
  ASSUME IndInv, Inside, pc # "exited", at # "ready",
         NEW result \in {"ok", "failed"},
         NEW text \in AcIds \cup {DefaultAcId} \cup Users \cup {None},
         Leave(result, text),
         UNCHANGED <<username, password, ac_id>>,
         ip_addr' \in {Address, None}, token' \in Tokens \cup {None},
         response_msg' \in Messages \cup {None}, said' \in Sayings,
         at = "detect" => text \in AcIds \cup {DefaultAcId},
         at \in {"page", "info"} /\ result = "ok"
             => seenOnline # {} /\ text \in seenOnline \cup {None},
         at \in {"authChallenge", "logoutChallenge"} => result = "failed",
         at = "login" => result = "ok",
         at = "logout" => /\ result = "ok" <=> Reply \in Acceptance
                          /\ result = "ok" => said' = "loggedOut",
         at \in {"detect", "page", "info"} => UNCHANGED said,
         SuccessIsReal', RefusalIsExplained'
  PROVE  IndInv'
<1> USE DEF Inside, monitorVars, mainVars
<1>1. /\ exchange'.state = "idle" /\ exchange'.request = exchange.request
      /\ exchange'.reply = exchange.reply /\ Shaped'
  BY ConsumeFacts DEF Leave, IndInv, ExchangeInv, Shaped
<1>2. at' = "ready" /\ returned' = [result |-> result, text |-> text]
  BY DEF Leave
<1>3. /\ at = "detect" => pc = "detect"
      /\ at \in {"page", "info"} => pc = "online"
      /\ at = "authChallenge" => pc = "auth" /\ exchange.request.kind = "challenge"
      /\ at = "login" => pc = "auth" /\ exchange.request.kind = "login"
      /\ at = "logoutChallenge"
             => pc = "logout" /\ exchange.request.kind = "challenge"
      /\ at = "logout" => pc = "logout" /\ exchange.request.kind = "logout"
      /\ said = "nothing"
  BY WhoWaits DEF IndInv, ExchangeInv
<1>4. at \in {"detect", "page", "info", "authChallenge", "login",
             "logoutChallenge", "logout"}
  BY DEF IndInv, TypeOK, AuthenticatorTypeOK, Places
<1>5. TypeOK'
  BY <1>2 DEF IndInv, TypeOK, AuthenticatorTypeOK, MonitorTypeOK, Places
<1>6. ExchangeInv' /\ PcInv'
  BY <1>1, <1>2 DEF IndInv, ExchangeInv, PcInv, Shaped, Prompts
<1>7. PerformedInv'
  BY <1>1 DEF IndInv, PerformedInv
<1>8. SessionInv' /\ WatchInv' /\ EchoInv'
  BY DEF IndInv, SessionInv, WatchInv, EchoInv, EchoAsFound
<1>9. ChallengeInv' /\ ReplyInv'
  BY <1>1 DEF IndInv, ChallengeInv, ReplyInv, Answered
<1>10. ReturnedInv'
  BY <1>1, <1>2, <1>3, <1>4 DEF IndInv, ReturnedInv, Confirmed, Reply
<1>11. NameInv'
  BY <1>1 DEF IndInv, NameInv, LogoutNamesSomebodyKnown
<1>12. SaidInv'
  BY <1>2, <1>3, <1>4 DEF SaidInv
<1>13. ExitStatusMeaning'
  BY DEF ExitStatusMeaning, Over, IndInv
<1> QED BY <1>5, <1>6, <1>7, <1>8, <1>9, <1>10, <1>11, <1>12, <1>13 DEF IndInv

\* What stands in a reply that came, at each place that waits for one.
LEMMA AtFacts ==
  ASSUME IndInv, NEW place, At(place), place # "ready"
  PROVE  /\ Answered => CanSay(exchange.request.kind, Reply)
         /\ place \in {"detect", "page", "info", "login", "logout"}
                => exchange.request.kind = place
         /\ place \in {"authChallenge", "logoutChallenge"}
                => exchange.request.kind = "challenge"
         /\ Answered \/ Failed
BY DEF IndInv, ReplyInv, ExchangeInv, At

\* detect_ac_id returns an id, the default one when it finds none.
LEMMA DetectReturnKeeps ==
  ASSUME IndInv, Inside, pc # "exited", DetectReturn PROVE IndInv'
<1>1. Answered => Reply.found \in AcIds \cup {None}
  BY AtFacts DEF DetectReturn, CanSay
<1>2. PICK text \in AcIds \cup {DefaultAcId} : Leave("ok", text)
  BY <1>1 DEF DetectReturn
<1>3. at = "detect" /\ UNCHANGED <<memberVars, said>>
  BY DEF DetectReturn, At
<1> QED BY <1>2, <1>3, LeaveKeeps, NothingSaid
        DEF memberVars, IndInv, TypeOK, AuthenticatorTypeOK

\* is_online asks for the address the portal page showed.
LEMMA OnlineAskKeeps ==
  ASSUME IndInv, Inside, pc # "exited", OnlineAsk PROVE IndInv'
<1> DEFINE request == InfoRequest(Reply.found)
<1>1. at = "page" /\ Enter("info", request) /\ UNCHANGED memberVars
  BY DEF OnlineAsk, At
<1>2. request.kind = "info"
  BY DEF InfoRequest
<1> HIDE DEF request
<1> QED BY <1>1, <1>2, EnterKeeps
        DEF memberVars, IndInv, TypeOK, AuthenticatorTypeOK

\* is_online returns a name only if somebody was seen online.
LEMMA OnlineReturnKeeps ==
  ASSUME IndInv, Inside, pc # "exited", OnlineReturn PROVE IndInv'
<1>1. UNCHANGED <<memberVars, said>> /\ at \in {"page", "info"}
  BY DEF OnlineReturn, At
<1>2. SuccessIsReal' /\ RefusalIsExplained'
  BY <1>1, NothingSaid
<1>3. CASE Leave("failed", None)
  BY <1>1, <1>2, <1>3, LeaveKeeps
     DEF memberVars, IndInv, TypeOK, AuthenticatorTypeOK
<1>4. CASE /\ At("info") /\ Answered /\ Online(Reply)
           /\ Leave("ok", FetchFromJson(Reply, "user_name"))
  <2>1. /\ seenOnline # {}
        /\ FetchFromJson(Reply, "user_name") \in seenOnline \cup {None}
    BY <1>4, AtFacts DEF CanSay
  <2>2. PICK text \in seenOnline \cup {None} : Leave("ok", text)
    BY <1>4, <2>1
  <2> QED BY <1>1, <1>2, <2>1, <2>2, LeaveKeeps
          DEF memberVars, IndInv, SessionInv, TypeOK, AuthenticatorTypeOK
<1> QED BY <1>3, <1>4 DEF OnlineReturn

\* get_info leaves the address and the challenge of the reply, or what there was.
LEMMA GetInfoFacts ==
  ASSUME IndInv, NEW place \in {"authChallenge", "logoutChallenge"},
         At(place), GetInfo
  PROVE  /\ ip_addr' \in {Address, None} /\ token' \in Tokens \cup {None}
         /\ GetInfoSucceeds /\ challenge.ours => token' = challenge.token
         /\ GetInfoSucceeds => Reply \notin Acceptance
         /\ UNCHANGED <<username, password, ac_id, response_msg>>
<1>1. Answered => CanSay("challenge", Reply)
  BY AtFacts
<1> QED BY <1>1 DEF GetInfo, GetInfoSucceeds, CanSay, IndInv, TypeOK,
                    AuthenticatorTypeOK

\* Without a challenge nothing is sent.
LEMMA GetInfoFailsKeeps ==
  ASSUME IndInv, Inside, pc # "exited",
         NEW place \in {"authChallenge", "logoutChallenge"},
         GetInfoFails(place)
  PROVE  IndInv'
<1>1. at = place /\ Leave("failed", None) /\ said' = "noToken"
  BY DEF GetInfoFails, At
<1>2. /\ ip_addr' \in {Address, None} /\ token' \in Tokens \cup {None}
      /\ UNCHANGED <<username, password, ac_id, response_msg>>
  BY GetInfoFacts DEF GetInfoFails
<1>3. SuccessIsReal' /\ RefusalIsExplained' /\ said' \in Sayings
  BY <1>1 DEF SuccessIsReal, RefusalIsExplained, Sayings
<1> QED BY <1>1, <1>2, <1>3, LeaveKeeps DEF IndInv, TypeOK, AuthenticatorTypeOK

\* The login request carries the challenge and the name it was issued for.
LEMMA AuthSendKeeps ==
  ASSUME IndInv, Inside, pc # "exited", AuthSend PROVE IndInv'
<1> DEFINE request == LoginRequest(token', ip_addr')
<1>1. at = "authChallenge" /\ Enter("login", request)
  BY DEF AuthSend, At
<1>2. /\ ip_addr' \in {Address, None} /\ token' \in Tokens \cup {None}
      /\ challenge.ours => token' = challenge.token
      /\ UNCHANGED <<username, password, ac_id, response_msg>>
  BY GetInfoFacts DEF AuthSend
<1>3. /\ request.kind = "login" /\ request.params.username = username
      /\ request.chksum.token = token'
  BY DEF LoginRequest
<1> HIDE DEF request
<1> QED BY <1>1, <1>2, <1>3, EnterKeeps

\* So does the logout request.
LEMMA LogoutSendKeeps ==
  ASSUME IndInv, Inside, pc # "exited", LogoutSend PROVE IndInv'
<1> DEFINE request == LogoutRequest(token', ip_addr')
<1>1. at = "logoutChallenge" /\ Enter("logout", request)
  BY DEF LogoutSend, At
<1>2. /\ ip_addr' \in {Address, None} /\ token' \in Tokens \cup {None}
      /\ challenge.ours => token' = challenge.token
      /\ Reply \notin Acceptance
      /\ UNCHANGED <<username, password, ac_id, response_msg>>
  BY GetInfoFacts DEF LogoutSend
<1>3. /\ request.kind = "logout" /\ request.params.username = username
      /\ request.chksum.token = token'
  BY DEF LogoutRequest
<1> HIDE DEF request
<1> QED BY <1>1, <1>2, <1>3, EnterKeeps

\* What auth and logout say of the portal's answer is true and explained.
LEMMA AnswerFacts ==
  ASSUME IndInv, NEW place \in {"login", "logout"}, At(place), Consume,
         UNCHANGED performed,
         NEW done \in {"loggedIn", "loggedOut"},
         (place = "login") = (done = "loggedIn"),
         \/ /\ Answered
            /\ response_msg' = ResponseMsg(Reply)
            /\ said' = IF ReportsOk(Reply) THEN done ELSE "refused"
         \/ Failed /\ said' = "failed" /\ UNCHANGED response_msg
  PROVE  /\ SuccessIsReal' /\ RefusalIsExplained' /\ said' \in Sayings
         /\ response_msg' \in Messages \cup {None}
         /\ place = "logout" => (said' = done <=> Reply \in Acceptance)
<1>1. exchange'.reply = exchange.reply
  BY ConsumeFacts DEF IndInv, ExchangeInv, Shaped
<1>2. CASE /\ Answered
           /\ response_msg' = ResponseMsg(Reply)
           /\ said' = IF ReportsOk(Reply) THEN done ELSE "refused"
  <2>1. /\ ReportsOk(Reply) => place \in performed
        /\ ReportsOk(Reply) <=> Reply \in Acceptance
        /\ ResponseMsg(Reply) \in Messages \cup {None}
    BY <1>2, AtFacts DEF CanSay
  <2>2. Reply \in Refusals
            => (ResponseMsg(Reply) = None <=> Unexplained(Reply.fields))
    BY RefusalReads
  <2>3. SuccessIsReal'
    BY <1>2, <2>1 DEF SuccessIsReal
  <2>4. RefusalIsExplained'
    BY <1>1, <1>2, <2>2 DEF RefusalIsExplained, Unexplained, Reply
  <2> QED BY <1>2, <2>1, <2>3, <2>4 DEF Sayings
<1>3. CASE Failed /\ said' = "failed" /\ UNCHANGED response_msg
  <2>1. place = "logout" => Reply \notin Acceptance
    BY <1>3, AtFacts DEF IndInv, ReplyInv, Failed
  <2> QED BY <1>3, <2>1 DEF SuccessIsReal, RefusalIsExplained, Sayings, IndInv,
                            TypeOK, AuthenticatorTypeOK
<1> QED BY <1>2, <1>3

\* auth returns.
LEMMA AuthReturnKeeps ==
  ASSUME IndInv, Inside, pc # "exited", AuthReturn PROVE IndInv'
<1>1. /\ at = "login" /\ At("login") /\ Leave("ok", None) /\ Consume
      /\ UNCHANGED <<username, password, ac_id, token, ip_addr, performed>>
  BY DEF AuthReturn, At, Leave, Inside
<1>2. /\ SuccessIsReal' /\ RefusalIsExplained' /\ said' \in Sayings
      /\ response_msg' \in Messages \cup {None}
  BY <1>1, AnswerFacts DEF AuthReturn
<1> QED BY <1>1, <1>2, LeaveKeeps DEF IndInv, TypeOK, AuthenticatorTypeOK

\* logout returns 0 exactly if it says that the user is logged out.
LEMMA LogoutReturnKeeps ==
  ASSUME IndInv, Inside, pc # "exited", LogoutReturn PROVE IndInv'
<1> DEFINE result == IF said' = "loggedOut" THEN "ok" ELSE "failed"
<1>1. /\ at = "logout" /\ At("logout") /\ Leave(result, None) /\ Consume
      /\ UNCHANGED <<username, password, ac_id, token, ip_addr, performed>>
  BY DEF LogoutReturn, At, Leave, Inside
<1>2. /\ SuccessIsReal' /\ RefusalIsExplained' /\ said' \in Sayings
      /\ response_msg' \in Messages \cup {None}
      /\ said' = "loggedOut" <=> Reply \in Acceptance
  BY <1>1, AnswerFacts DEF LogoutReturn
<1>3. result \in {"ok", "failed"} /\ (result = "ok" <=> said' = "loggedOut")
  OBVIOUS
<1> HIDE DEF result
<1> QED BY <1>1, <1>2, <1>3, LeaveKeeps DEF IndInv, TypeOK, AuthenticatorTypeOK

\* Every step of the Authenticator keeps the invariant.
LEMMA AuthenticatorKeeps == ASSUME IndInv, AuthenticatorRuns PROVE IndInv'
<1>1. pc # "exited" /\ AuthenticatorStep /\ Inside
  BY DEF AuthenticatorRuns, Inside
<1> QED BY <1>1, DetectReturnKeeps, OnlineAskKeeps, OnlineReturnKeeps,
           AuthSendKeeps, AuthReturnKeeps, LogoutSendKeeps, LogoutReturnKeeps,
           GetInfoFailsKeeps DEF AuthenticatorStep

-----------------------------------------------------------------------------
(* main.                                                                   *)

Early == {"launch", "hideEcho", "showEcho", "check"} \cup Prompts

\* Before doAuth or doDeauth nothing is sent or said: what is left to show is
\* where the program is, for whom, and the echo.
LEMMA OwnKeeps ==
  ASSUME IndInv, NEW place \in Early, Own(place),
         params' \in Lines, params'.subcommand = params.subcommand,
         echo' \in BOOLEAN, oldt' \in BOOLEAN,
         \/ pc' \in Early \cup {"setup"} /\ UNCHANGED status
         \/ pc' = "exited" /\ status' = 1,
         pc' \in Early \ {"launch"} => params.subcommand = "auth",
         pc' = "setup" /\ params.subcommand = "auth" => params'.username # None,
         EchoInv'
  PROVE  IndInv'
<1> USE DEF Own, portalVars, authenticatorVars, memberVars, monitorVars
<1>1. /\ at = "ready" /\ said = "nothing"
      /\ exchange.request.kind \notin {"challenge", "login", "logout"}
      /\ performed = {} /\ phase = "idle" /\ ~interrupted
  BY DEF Early, Prompts, IndInv, PcInv, SaidInv, PerformedInv, WatchInv
<1>2. TypeOK'
  BY DEF IndInv, TypeOK, AuthenticatorTypeOK, MonitorTypeOK, Early, Pcs
<1>3. ExchangeInv' /\ SessionInv' /\ ChallengeInv' /\ ReplyInv'
  BY DEF IndInv, ExchangeInv, SessionInv, ChallengeInv, ReplyInv, CanSay,
         Answered, Reply
<1>4. PcInv'
  BY <1>1 DEF PcInv, Early, Prompts
<1>5. PerformedInv' /\ NameInv'
  BY <1>1 DEF PerformedInv, NameInv, LogoutNamesSomebodyKnown, Early, Prompts
<1>6. WatchInv' /\ ReturnedInv'
  BY <1>1 DEF IndInv, WatchInv, ReturnedInv, Early, Prompts
<1>7. SaidInv' /\ SuccessIsReal' /\ RefusalIsExplained'
  BY <1>1 DEF SaidInv, SuccessIsReal, RefusalIsExplained
<1>8. ExitStatusMeaning'
  BY <1>1 DEF ExitStatusMeaning, Over, Confirmed, Early, Prompts
<1> QED BY <1>2, <1>3, <1>4, <1>5, <1>6, <1>7, <1>8 DEF IndInv

\* What is merged, asked for and checked keeps the invariant.
LEMMA MergeConfigKeeps == ASSUME IndInv, MergeConfig PROVE IndInv'
<1>1. params \in Lines /\ config.username \in Users \cup {None}
      /\ config.password \in Passwords \cup {None}
  BY ThuloginConstants DEF IndInv, TypeOK
<1>2. params' \in Lines /\ params'.subcommand = params.subcommand
  BY <1>1 DEF MergeConfig, Lines
<1>3. /\ pc' \in Early \cup {"setup"} /\ UNCHANGED status
      /\ pc' \in Early => params.subcommand = "auth"
      /\ pc' = "setup" => params.subcommand = "deauth"
      /\ pc' \notin {"askPassword", "showEcho"}
  BY <1>1 DEF MergeConfig, Goto, NeedPassword, Early, Prompts, Lines
<1>4. Own("launch") /\ UNCHANGED <<echo, oldt>> /\ "launch" \in Early
  BY DEF MergeConfig, Early
<1>5. EchoInv' /\ echo' \in BOOLEAN /\ oldt' \in BOOLEAN
  BY <1>3, <1>4 DEF IndInv, EchoInv, EchoAsFound, Own, TypeOK, MonitorTypeOK,
                    monitorVars
<1> QED BY <1>2, <1>3, <1>4, <1>5, OwnKeeps

LEMMA AskNameKeeps == ASSUME IndInv, AskName PROVE IndInv'
<1>1. params' \in Lines /\ params'.subcommand = params.subcommand
  BY DEF AskName, IndInv, TypeOK, Lines
<1>2. /\ pc' \in {"hideEcho", "check"} /\ UNCHANGED status
      /\ pc = "askName" /\ params.subcommand = "auth"
  BY DEF AskName, Own, Goto, NeedPassword, IndInv, PcInv, Prompts
<1>3. Own("askName") /\ UNCHANGED <<echo, oldt>> /\ "askName" \in Early
  BY DEF AskName, Early, Prompts
<1>4. EchoInv' /\ echo' \in BOOLEAN /\ oldt' \in BOOLEAN
  BY <1>2, <1>3 DEF IndInv, EchoInv, EchoAsFound, Own, TypeOK, monitorVars
<1> QED BY <1>1, <1>2, <1>3, <1>4, OwnKeeps DEF Early

LEMMA PwdInputKeeps ==
  ASSUME IndInv, HideEcho \/ AskPassword \/ ShowEcho PROVE IndInv'
<1>1. params' \in Lines /\ params'.subcommand = params.subcommand
  BY DEF HideEcho, AskPassword, ShowEcho, IndInv, TypeOK, Lines
<1>2. params.subcommand = "auth" /\ UNCHANGED status
  BY DEF HideEcho, AskPassword, ShowEcho, Own, Goto, IndInv, PcInv, Prompts
<1>3. PICK place \in {"hideEcho", "askPassword", "showEcho"} :
         Own(place) /\ pc' \in {"askPassword", "showEcho", "check"}
  BY DEF HideEcho, AskPassword, ShowEcho, Goto
<1>4. EchoInv' /\ echo' \in BOOLEAN /\ oldt' \in BOOLEAN
  BY DEF IndInv, EchoInv, EchoAsFound, HideEcho, AskPassword, ShowEcho, Own,
         Goto, TypeOK, WatchInv, monitorVars
<1> QED BY <1>1, <1>2, <1>3, <1>4, OwnKeeps DEF Early, Prompts

LEMMA CheckCredentialsKeeps == ASSUME IndInv, CheckCredentials PROVE IndInv'
<1>1. /\ Own("check") /\ UNCHANGED <<params, echo, oldt>> /\ "check" \in Early
      /\ params \in Lines
  BY DEF CheckCredentials, Early, IndInv, TypeOK
<1>2. \/ pc' = "setup" /\ UNCHANGED status /\ params.username # None
      \/ pc' = "exited" /\ status' = 1
  BY DEF CheckCredentials, Goto, Exit
<1>3. EchoInv' /\ echo' \in BOOLEAN /\ oldt' \in BOOLEAN
  BY <1>1, <1>2 DEF IndInv, EchoInv, EchoAsFound, Own, TypeOK, monitorVars
<1> QED BY <1>1, <1>2, <1>3, OwnKeeps DEF Early, Prompts

-----------------------------------------------------------------------------
(* doAuth and doDeauth.                                                    *)

\* What is the same at every step of the two bodies.
LEMMA BodyFacts ==
  ASSUME IndInv, NEW place \in {"setup", "detect", "connected", "online",
                                "auth", "logout"},
         InBody(place)
  PROVE  /\ pc = place /\ at = "ready" /\ exchange.state = "idle" /\ Shaped
         /\ phase = "idle" /\ ~interrupted
         /\ place \notin {"auth", "logout"}
                => /\ exchange.request.kind
                          \notin {"challenge", "login", "logout"}
                   /\ performed = {} /\ said = "nothing" /\ ~challenge.ours
         /\ UNCHANGED <<session, seenOnline, challenge, issued, performed,
                        monitorVars, params, config, echo, oldt, echoFound>>
BY DEF InBody, IndInv, ExchangeInv, WatchInv, PerformedInv, SaidInv,
       ChallengeInv, Shaped

\* A call of an operation keeps the invariant if the operation fits the place.
LEMMA CallKeeps ==
  ASSUME IndInv, NEW place \in {"setup", "connected", "online"}, InBody(place),
         NEW target, NEW request, Send(request), at' = target,
         UNCHANGED <<returned, said, token, ip_addr, response_msg, status>>,
         username' \in Users \cup {None}, password' \in Passwords \cup {None},
         ac_id' \in AcIds \cup {DefaultAcId},
         \/ /\ place = "setup" /\ target = "detect" /\ pc' = "detect"
            /\ request.kind = "detect"
         \/ /\ place = "connected" /\ target = "page" /\ pc' = "online"
            /\ request.kind = "page"
            /\ params.subcommand = "deauth" => params.username = None
         \/ /\ place \in {"connected", "online"}
            /\ target = "authChallenge" /\ pc' = "auth"
            /\ request.kind = "challenge" /\ request.username = username'
            /\ params.subcommand = "auth" /\ username' = params.username
         \/ /\ place \in {"connected", "online"}
            /\ target = "logoutChallenge" /\ pc' = "logout"
            /\ request.kind = "challenge" /\ request.username = username'
            /\ params.subcommand = "deauth"
            /\ \/ username' = params.username /\ username' # None
               \/ params.username = None /\ username' \in seenOnline
  PROVE  IndInv'
<1> USE DEF monitorVars
<1>1. /\ pc = place /\ at = "ready" /\ phase = "idle" /\ ~interrupted
      /\ exchange.request.kind \notin {"login", "logout"}
      /\ performed = {} /\ said = "nothing" /\ ~challenge.ours
      /\ UNCHANGED <<session, seenOnline, challenge, issued, performed,
                     monitorVars, params, config, echo, oldt, echoFound>>
  BY BodyFacts
<1>2. /\ exchange'.state = "sent" /\ exchange'.request = request
      /\ exchange'.reply = exchange.reply /\ Shaped'
  BY BodyFacts, SendFacts
<1>3. TypeOK'
  BY <1>1 DEF IndInv, TypeOK, AuthenticatorTypeOK, MonitorTypeOK, Places, Pcs
<1>4. ExchangeInv'
  BY <1>2 DEF ExchangeInv, Shaped
<1>5. PcInv'
  BY <1>1 DEF IndInv, PcInv, Prompts
<1>6. PerformedInv' /\ SessionInv' /\ WatchInv'
  BY <1>1, <1>2 DEF IndInv, PerformedInv, SessionInv, WatchInv
<1>7. ChallengeInv'
  BY <1>1, <1>2 DEF ChallengeInv
<1>8. ReplyInv' /\ ReturnedInv'
  BY <1>2 DEF ReplyInv, Answered, ReturnedInv
<1>9. NameInv'
  BY <1>1, <1>2 DEF NameInv, LogoutNamesSomebodyKnown
<1>10. SaidInv' /\ SuccessIsReal' /\ RefusalIsExplained'
  BY <1>1 DEF SaidInv, SuccessIsReal, RefusalIsExplained
<1>11. EchoInv' /\ ExitStatusMeaning'
  BY <1>1 DEF IndInv, EchoInv, EchoAsFound, ExitStatusMeaning, Over
<1> QED BY <1>3, <1>4, <1>5, <1>6, <1>7, <1>8, <1>9, <1>10, <1>11 DEF IndInv

\* A step between two calls, or after the last, keeps the invariant if what it
\* returns is what is known.
LEMMA MoveKeeps ==
  ASSUME IndInv, NEW place \in {"setup", "detect", "connected", "online",
                                "auth", "logout"},
         InBody(place),
         UNCHANGED <<exchange, at, returned, said, username, password, token,
                     ip_addr, response_msg>>,
         ac_id' \in AcIds \cup {DefaultAcId},
         \/ /\ place \in {"setup", "detect"} /\ pc' = "connected"
            /\ UNCHANGED status
         \/ /\ place \in {"online", "auth"} /\ pc' = "watch" /\ UNCHANGED status
            /\ params.subcommand = "auth"
            /\ seenOnline # {} \/ exchange.request.kind = "login"
         \/ /\ pc' = "exited" /\ status' = 0 /\ params.subcommand = "auth"
            /\ seenOnline # {} \/ exchange.request.kind = "login"
         \/ /\ pc' = "exited" /\ status' = 0 /\ params.subcommand = "deauth"
            /\ Confirmed("logout") /\ "logout" \in performed
         \/ /\ pc' = "exited" /\ status' = 1
            /\ exchange.request.kind \notin {"login", "logout"}
         \/ /\ pc' = "exited" /\ status' = MinusOne
            /\ ~Confirmed("logout")
  PROVE  IndInv'
<1> USE DEF monitorVars
<1>1. /\ pc = place /\ at = "ready" /\ phase = "idle" /\ ~interrupted
      /\ exchange.state = "idle"
      /\ UNCHANGED <<session, seenOnline, challenge, issued, performed,
                     monitorVars, params, config, echo, oldt, echoFound>>
  BY BodyFacts
<1>2. 0 # 1 /\ MinusOne \notin {0, 1, BrokenPipe} /\ BrokenPipe \notin {0, 1}
  BY DEF MinusOne, BrokenPipe
<1>3. TypeOK'
  BY <1>1 DEF IndInv, TypeOK, AuthenticatorTypeOK, MonitorTypeOK, Pcs
<1>4. ExchangeInv'
  BY <1>1 DEF IndInv, ExchangeInv
<1>5. PcInv'
  BY <1>1 DEF IndInv, PcInv, Prompts
<1>6. PerformedInv'
  BY <1>1, <1>2, BodyFacts DEF IndInv, PerformedInv
<1>7. SessionInv' /\ WatchInv' /\ ChallengeInv'
  BY <1>1 DEF IndInv, SessionInv, WatchInv, ChallengeInv
<1>8. ReplyInv' /\ ReturnedInv'
  BY <1>1 DEF ReplyInv, Answered, ReturnedInv
<1>9. NameInv'
  BY <1>1 DEF IndInv, NameInv, LogoutNamesSomebodyKnown
<1>10. SaidInv'
  BY <1>1, BodyFacts DEF IndInv, SaidInv
<1>11. SuccessIsReal' /\ RefusalIsExplained'
  BY <1>1 DEF IndInv, SuccessIsReal, RefusalIsExplained, Reply
<1>12. EchoInv'
  BY <1>1 DEF IndInv, EchoInv, EchoAsFound
<1>13. ExitStatusMeaning'
  BY <1>1, <1>2 DEF IndInv, ExitStatusMeaning, Over, Confirmed, Reply,
                    PerformedInv
<1> QED BY <1>3, <1>4, <1>5, <1>6, <1>7, <1>8, <1>9, <1>10, <1>11, <1>12, <1>13
        DEF IndInv

\* The Authenticator is set up with an ac_id, given or to be detected.
LEMMA SetupKeeps == ASSUME IndInv, Setup PROVE IndInv'
<1>1. /\ InBody("setup") /\ params \in Lines
      /\ UNCHANGED <<username, password, token, ip_addr, response_msg>>
      /\ username \in Users \cup {None} /\ password \in Passwords \cup {None}
  BY DEF Setup, IndInv, TypeOK, AuthenticatorTypeOK
<1>2. ac_id' \in AcIds \cup {DefaultAcId}
  BY <1>1 DEF Setup, Detecting, Lines
<1>3. CASE Detecting
  <2>1. /\ Send(DetectRequest) /\ at' = "detect" /\ pc' = "detect"
        /\ UNCHANGED <<returned, said, status>>
    BY <1>3 DEF Setup, DetectCall, Enter, Goto
  <2>2. DetectRequest.kind = "detect"
    BY DEF DetectRequest
  <2> QED BY <1>1, <1>2, <2>1, <2>2, CallKeeps
<1>4. CASE ~Detecting
  <2>1. pc' = "connected" /\ UNCHANGED <<exchange, at, returned, said, status>>
    BY <1>4 DEF Setup, Goto
  <2> QED BY <1>1, <1>2, <2>1, MoveKeeps
<1> QED BY <1>3, <1>4

LEMMA SetAcIdKeeps == ASSUME IndInv, SetAcId PROVE IndInv'
<1>1. InBody("detect") /\ ac_id' \in AcIds \cup {DefaultAcId}
  BY DEF SetAcId, InBody, IndInv, ReturnedInv
<1> QED BY <1>1, MoveKeeps DEF SetAcId, Goto

\* The three calls of the bodies.
LEMMA AskOnlineKeeps ==
  ASSUME IndInv, InBody("connected"), AskOnline,
         params.subcommand = "deauth" => params.username = None
  PROVE  IndInv'
<1> DEFINE request == PageRequest(ac_id)
<1>1. /\ Send(request) /\ at' = "page" /\ pc' = "online"
      /\ UNCHANGED <<returned, said, status>> /\ UNCHANGED memberVars
  BY DEF AskOnline, OnlineCall, Enter, Goto
<1>2. request.kind = "page"
  BY DEF PageRequest
<1> HIDE DEF request
<1> QED BY <1>1, <1>2, CallKeeps
        DEF memberVars, IndInv, TypeOK, AuthenticatorTypeOK

LEMMA LoginKeeps ==
  ASSUME IndInv, NEW place \in {"connected", "online"}, InBody(place), Login,
         params.subcommand = "auth"
  PROVE  IndInv'
<1> DEFINE request == ChallengeRequest(params.username)
<1>1. /\ Send(request) /\ at' = "authChallenge" /\ pc' = "auth"
      /\ UNCHANGED <<returned, said, status, ac_id, token, ip_addr, response_msg>>
      /\ username' = params.username /\ password' = params.password
  BY DEF Login, AuthCall, GetInfoCall, Enter, Goto
<1>2. request.kind = "challenge" /\ request.username = params.username
  BY DEF ChallengeRequest
<1>3. /\ params.username \in Users \cup {None}
      /\ params.password \in Passwords \cup {None}
  BY DEF IndInv, TypeOK, Lines
<1> HIDE DEF request
<1> QED BY <1>1, <1>2, <1>3, CallKeeps DEF IndInv, TypeOK, AuthenticatorTypeOK

LEMMA LogoutKeeps ==
  ASSUME IndInv, NEW place \in {"connected", "online"}, InBody(place),
         NEW name \in Users \cup {None}, Logout(name),
         params.subcommand = "deauth",
         \/ name = params.username /\ name # None
         \/ params.username = None /\ name \in seenOnline
  PROVE  IndInv'
<1> DEFINE request == ChallengeRequest(name)
<1>1. /\ Send(request) /\ at' = "logoutChallenge" /\ pc' = "logout"
      /\ UNCHANGED <<returned, said, status, password, ac_id, token, ip_addr,
                     response_msg>>
      /\ username' = name
  BY DEF Logout, LogoutCall, GetInfoCall, Enter, Goto
<1>2. request.kind = "challenge" /\ request.username = name
  BY DEF ChallengeRequest
<1> HIDE DEF request
<1> QED BY <1>1, <1>2, CallKeeps DEF IndInv, TypeOK, AuthenticatorTypeOK

\* A step that calls nothing leaves the Authenticator alone.
LEMMA NoCallFacts ==
  ASSUME IndInv, NoCall
  PROVE  /\ UNCHANGED <<exchange, at, returned, said, username, password, token,
                        ip_addr, response_msg>>
         /\ ac_id' \in AcIds \cup {DefaultAcId}
BY DEF NoCall, authenticatorVars, memberVars, IndInv, TypeOK, AuthenticatorTypeOK

\* doAuth ends well only if somebody is online or the login was sent.
LEMMA doAuthKeeps == ASSUME IndInv, doAuth PROVE IndInv'
<1>1. params.subcommand = "auth" /\ "auth" # "deauth"
  BY DEF doAuth
<1>2. CASE InBody("connected") /\ AskOnline
  BY <1>1, <1>2, AskOnlineKeeps
<1>3. ASSUME NEW place \in {"connected", "online"}, InBody(place), Login
      PROVE  IndInv'
  BY <1>1, <1>3, LoginKeeps
<1>4. ASSUME NEW place \in {"online", "auth"}, InBody(place),
             returned.result = "ok", Succeed
      PROVE  IndInv'
  <2>1. seenOnline # {} \/ exchange.request.kind = "login"
    BY <1>4 DEF InBody, IndInv, ReturnedInv
  <2>2. \/ pc' = "watch" /\ UNCHANGED status
        \/ pc' = "exited" /\ status' = 0
    BY <1>4 DEF Succeed, Goto, Exit
  <2> QED BY <1>1, <1>4, <2>1, <2>2, NoCallFacts, MoveKeeps DEF Succeed
<1>5. CASE InBody("auth") /\ returned.result = "failed" /\ NoCall /\ Exit(1)
  <2>1. exchange.request.kind = "challenge"
    BY <1>5 DEF InBody, IndInv, ReturnedInv
  <2> QED BY <1>5, <2>1, NoCallFacts, MoveKeeps DEF Exit
<1> QED BY <1>2, <1>3, <1>4, <1>5 DEF doAuth

\* doDeauth ends well only if the logout was performed.
LEMMA doDeauthKeeps == ASSUME IndInv, doDeauth PROVE IndInv'
<1>1. /\ params.subcommand = "deauth" /\ params.username \in Users \cup {None}
  BY DEF doDeauth, IndInv, TypeOK, Lines
<1>2. CASE InBody("connected") /\ params.username = None /\ AskOnline
  BY <1>2, AskOnlineKeeps
<1>3. CASE /\ InBody("connected") /\ params.username # None
           /\ Logout(params.username)
  BY <1>1, <1>3, LogoutKeeps
<1>4. CASE InBody("online") /\ UserDetected /\ Logout(returned.text)
  <2>1. returned.text \in seenOnline /\ params.username = None
    BY <1>1, <1>4 DEF UserDetected, InBody, IndInv, ReturnedInv, PcInv
  <2>2. returned.text \in Users \cup {None}
    BY <2>1 DEF IndInv, SessionInv
  <2> QED BY <1>1, <1>4, <2>1, <2>2, LogoutKeeps
<1>5. CASE InBody("online") /\ NoCall /\ Exit(1)
  BY <1>5, BodyFacts, NoCallFacts, MoveKeeps DEF Exit
<1>6. CASE /\ InBody("logout") /\ NoCall
           /\ Exit(IF returned.result = "ok" THEN 0 ELSE MinusOne)
  <2>1. /\ returned.result = "ok" => "logout" \in performed
        /\ returned.result = "ok" <=> Confirmed("logout")
    BY <1>6 DEF InBody, IndInv, ReturnedInv, SuccessIsReal
  <2> QED BY <1>1, <1>6, <2>1, NoCallFacts, MoveKeeps DEF Exit
<1> QED BY <1>2, <1>3, <1>4, <1>5, <1>6 DEF doDeauth

-----------------------------------------------------------------------------
(* The keep-alive phase, and the ends of the program.                      *)

\* What depends on the exchange and the Authenticator alone outlives a step of
\* neither.
LEMMA ExchangeStays ==
  ASSUME IndInv, UNCHANGED <<portalVars, authenticatorVars>>
  PROVE  /\ ExchangeInv' /\ SessionInv' /\ ChallengeInv' /\ ReplyInv'
         /\ SuccessIsReal' /\ RefusalIsExplained'
<1> USE DEF portalVars, authenticatorVars, memberVars
<1>1. ExchangeInv' /\ SessionInv' /\ ChallengeInv'
  BY DEF IndInv, ExchangeInv, SessionInv, ChallengeInv
<1>2. ReplyInv'
  BY DEF IndInv, ReplyInv, CanSay, Answered, Reply
<1>3. SuccessIsReal' /\ RefusalIsExplained'
  BY DEF IndInv, SuccessIsReal, RefusalIsExplained, Reply
<1> QED BY <1>1, <1>2, <1>3

\* However the program ends, the invariant asks little of what it leaves.
LEMMA EndKeeps ==
  ASSUME IndInv, UNCHANGED <<portalVars, authenticatorVars, phase, failures,
                             params, config, echo, oldt, echoFound>>,
         pc # "exited", interrupted' \in BOOLEAN, pc' = "exited",
         status' \in {0, Aborted, Segfault, BrokenPipe},
         \/ interrupted' /\ status' \in {0, Aborted, Segfault}
         \/ /\ UNCHANGED interrupted
            /\ pc \notin {"askPassword", "showEcho", "logout"}
            /\ status' = 0 =>
                  /\ params.subcommand = "auth"
                  /\ seenOnline # {} \/ exchange.request.kind = "login"
            /\ status' = BrokenPipe =>
                  exchange.request.kind \notin {"login", "logout"}
  PROVE  IndInv'
<1> USE DEF portalVars, authenticatorVars, memberVars
<1>1. /\ ExchangeInv' /\ SessionInv' /\ ChallengeInv' /\ ReplyInv'
      /\ SuccessIsReal' /\ RefusalIsExplained'
  BY ExchangeStays
<1>2. /\ 0 \notin {1, BrokenPipe} /\ Aborted \notin {1, BrokenPipe}
      /\ Segfault \notin {1, BrokenPipe} /\ BrokenPipe \notin {0, 1}
  BY DEF Aborted, Segfault, BrokenPipe
<1>3. TypeOK'
  BY DEF IndInv, TypeOK, AuthenticatorTypeOK, MonitorTypeOK, Pcs
<1>4. PcInv' /\ WatchInv' /\ ReturnedInv'
  BY DEF IndInv, PcInv, WatchInv, ReturnedInv, Prompts
<1>5. PerformedInv'
  BY <1>2 DEF IndInv, PerformedInv
<1>6. NameInv' /\ SaidInv'
  BY DEF IndInv, NameInv, LogoutNamesSomebodyKnown, SaidInv
<1>7. EchoInv'
  BY DEF IndInv, EchoInv, EchoAsFound
<1>8. ExitStatusMeaning'
  <2>1. CASE interrupted' /\ status' \in {0, Aborted, Segfault}
    BY <1>2, <2>1 DEF ExitStatusMeaning, Over
  <2>2. CASE /\ pc # "logout"
             /\ status' = 0 => /\ params.subcommand = "auth"
                               /\ \/ seenOnline # {}
                                  \/ exchange.request.kind = "login"
             /\ status' = BrokenPipe =>
                    exchange.request.kind \notin {"login", "logout"}
    BY <1>2, <2>2 DEF IndInv, PerformedInv, ExitStatusMeaning, Over, Confirmed
  <2> QED BY <2>1, <2>2
<1> QED BY <1>1, <1>3, <1>4, <1>5, <1>6, <1>7, <1>8 DEF IndInv

LEMMA SignalKeeps == ASSUME IndInv, Signal PROVE IndInv'
BY EndKeeps DEF Signal, Exit

LEMMA KilledBySendKeeps == ASSUME IndInv, KilledBySend PROVE IndInv'
<1>1. exchange.request.kind = "detect" /\ pc = "detect"
  BY DEF KilledBySend, IndInv, ExchangeInv, PcInv
<1> QED BY <1>1, EndKeeps
        DEF KilledBySend, Exit, monitorVars, BrokenPipe, IndInv, TypeOK,
            MonitorTypeOK

LEMMA WatchOverKeeps == ASSUME IndInv, WatchOver PROVE IndInv'
<1>1. /\ params.subcommand = "auth"
      /\ seenOnline # {} \/ exchange.request.kind = "login"
  BY DEF WatchOver, Own, IndInv, PcInv, ReturnedInv
<1>2. /\ \/ interrupted /\ status' \in {0, Aborted, Segfault}
         \/ ~interrupted /\ status' \in {0, Aborted}
      /\ Aborted # BrokenPipe /\ 0 # BrokenPipe
  BY DEF WatchOver, Exit, Aborted, BrokenPipe
<1> QED BY <1>1, <1>2, EndKeeps
        DEF WatchOver, Own, Exit, monitorVars, portalVars, authenticatorVars,
            memberVars, IndInv, TypeOK, MonitorTypeOK

\* The watch itself touches nothing but its count, its phase and the signal.
LEMMA WatchKeeps == ASSUME IndInv, Watch PROVE IndInv'
<1> USE DEF portalVars, authenticatorVars, memberVars, mainVars
<1>1. /\ pc = "watch" /\ MonitorNext
      /\ UNCHANGED <<portalVars, authenticatorVars, mainVars>>
  BY DEF Watch
<1>2. /\ ExchangeInv' /\ SessionInv' /\ ChallengeInv' /\ ReplyInv'
      /\ SuccessIsReal' /\ RefusalIsExplained'
  BY <1>1, ExchangeStays
<1>3. MonitorTypeOK' /\ WatchInv'
  <2>1. MonitorTypeOK /\ WatchInv
    BY DEF IndInv, TypeOK
  <2>2. CASE Begin
    BY <1>1, <2>1, <2>2, MonitorConstants DEF Begin, MonitorTypeOK, WatchInv
  <2>3. CASE CannotBegin
    BY <1>1, <2>1, <2>3 DEF CannotBegin, MonitorTypeOK, WatchInv
  <2>4. CASE TargetAnswers
    BY <1>1, <2>1, <2>4, MonitorConstants DEF TargetAnswers, MonitorTypeOK, WatchInv
  <2>5. CASE TargetFails
    BY <1>1, <2>1, <2>5, MonitorConstants DEF TargetFails, MonitorTypeOK, WatchInv
  <2>6. CASE Interrupt
    BY <1>1, <2>1, <2>6 DEF Interrupt, MonitorTypeOK, WatchInv
  <2>7. CASE End
    BY <1>1, <2>1, <2>7 DEF End, MonitorTypeOK, WatchInv
  <2> QED BY <1>1, <2>2, <2>3, <2>4, <2>5, <2>6, <2>7 DEF MonitorNext
<1>4. TypeOK'
  BY <1>1, <1>3 DEF IndInv, TypeOK, AuthenticatorTypeOK
<1>5. PcInv' /\ PerformedInv'
  BY <1>1 DEF IndInv, PcInv, PerformedInv
<1>6. ReturnedInv' /\ NameInv' /\ SaidInv'
  BY <1>1 DEF IndInv, ReturnedInv, NameInv, LogoutNamesSomebodyKnown, SaidInv
<1>7. EchoInv'
  <2>1. interrupted => interrupted'
    BY <1>1 DEF MonitorNext, Begin, CannotBegin, TargetAnswers, TargetFails,
                Interrupt, End
  <2> QED BY <1>1, <2>1 DEF IndInv, EchoInv, EchoAsFound
<1>8. ExitStatusMeaning'
  BY <1>1 DEF ExitStatusMeaning, Over
<1> QED BY <1>2, <1>3, <1>4, <1>5, <1>6, <1>7, <1>8 DEF IndInv

-----------------------------------------------------------------------------
(* The theorems.                                                           *)

LEMMA InitEstablishes == ASSUME Init PROVE IndInv
<1> USE DEF Init, PortalInit, AuthenticatorInit, MonitorInit
<1>1. /\ exchange.state = "idle" /\ exchange.request.kind = "none" /\ Shaped
  BY DEF NoRequest, Shaped
<1>2. TypeOK
  <2>1. AuthenticatorTypeOK
    BY DEF AuthenticatorTypeOK, Places, Sayings
  <2>2. MonitorTypeOK
    <3>1. 0 \in 0..RetryLimit
      BY MonitorConstants
    <3>2. FALSE \in BOOLEAN
      BY Zenon
    <3> QED BY <3>1, <3>2 DEF MonitorTypeOK
  <2>3. params \in Lines /\ config \in Configs
    BY ThuloginConstants
  <2>4. pc \in Pcs /\ status \in {0, 1, MinusOne, Aborted, Segfault, BrokenPipe}
    BY DEF Pcs
  <2>5. {echo, oldt, echoFound} \subseteq BOOLEAN
    BY Zenon
  <2> QED BY <2>1, <2>2, <2>3, <2>4, <2>5 DEF TypeOK
<1>3. ExchangeInv /\ PcInv /\ PerformedInv
  BY <1>1 DEF ExchangeInv, PcInv, PerformedInv, Shaped, Prompts
<1>4. SessionInv /\ WatchInv
  BY MonitorConstants DEF SessionInv, WatchInv
<1>5. ChallengeInv /\ ReplyInv /\ ReturnedInv
  BY <1>1 DEF ChallengeInv, ReplyInv, Answered, ReturnedInv
<1>6. NameInv /\ SaidInv /\ EchoInv
  BY <1>1 DEF NameInv, LogoutNamesSomebodyKnown, SaidInv, EchoInv, EchoAsFound
<1>7. SuccessIsReal /\ ExitStatusMeaning /\ RefusalIsExplained
  BY DEF SuccessIsReal, ExitStatusMeaning, Over, RefusalIsExplained
<1> QED BY <1>2, <1>3, <1>4, <1>5, <1>6, <1>7 DEF IndInv

LEMMA StepKeeps == ASSUME IndInv, [Next]_vars PROVE IndInv'
<1>1. CASE MainStep
  BY <1>1, MergeConfigKeeps, PwdInputKeeps, CheckCredentialsKeeps, SetupKeeps,
     SetAcIdKeeps, doAuthKeeps, doDeauthKeeps, WatchOverKeeps DEF MainStep
<1>2. CASE UserStep
  BY <1>2, AskNameKeeps, PwdInputKeeps DEF UserStep
<1>3. CASE Signal \/ KilledBySend \/ Watch
  BY <1>3, SignalKeeps, KilledBySendKeeps, WatchKeeps
<1>4. CASE AuthenticatorRuns
  BY <1>4, AuthenticatorKeeps
<1>5. CASE OutsideStep
  <2>1. Elsewhere /\ (PortalStep \/ Lose \/ OthersStep)
    BY <1>5 DEF OutsideStep, Elsewhere
  <2> QED BY <2>1, ServePageKeeps, ServeInfoKeeps, ServeChallengeKeeps,
             RefuseKeeps, AcceptKeeps, LoseKeeps, OthersKeep DEF PortalStep
<1>6. CASE UNCHANGED vars
  <2> USE DEF vars, portalVars, authenticatorVars, memberVars, monitorVars,
              mainVars
  <2>1. Elsewhere /\ UNCHANGED portalVars
    BY <1>6 DEF Elsewhere
  <2>2. TypeOK' /\ PcInv' /\ WatchInv' /\ EchoInv'
    BY <2>1, ElsewhereKeeps DEF IndInv
  <2>3. /\ ExchangeInv' /\ SessionInv' /\ ChallengeInv' /\ ReplyInv'
        /\ SuccessIsReal' /\ RefusalIsExplained'
    BY <1>6, ExchangeStays
  <2>4. PerformedInv' /\ ReturnedInv' /\ NameInv' /\ SaidInv'
    BY <1>6 DEF IndInv, PerformedInv, ReturnedInv, Confirmed, Reply, NameInv,
                LogoutNamesSomebodyKnown, SaidInv
  <2>5. ExitStatusMeaning'
    BY <1>6 DEF IndInv, ExitStatusMeaning, Over, Confirmed, Reply
  <2> QED BY <2>2, <2>3, <2>4, <2>5 DEF IndInv
<1> QED BY <1>1, <1>2, <1>3, <1>4, <1>5, <1>6 DEF Next

\* IndInv holds in every state of the program (main.cpp, Authenticator.cpp).
THEOREM ProgramInvariance == Spec => []IndInv
<1>1. Init => IndInv
  BY InitEstablishes
<1>2. IndInv /\ [Next]_vars => IndInv'
  BY StepKeeps
<1> QED BY <1>1, <1>2, PTL DEF Spec

\* The program's state is well formed: the members, what is returned and what is
\* shown come from the portal, the user or the defaults (Authenticator.cpp).
THEOREM ProgramTypes == Spec => []TypeOK
<1>1. IndInv => TypeOK
  BY DEF IndInv
<1> QED BY <1>1, ProgramInvariance, PTL

\* Success is announced only for what the portal did (Authenticator.cpp:74-75,
\* 124-125).
THEOREM SuccessIsAlwaysReal == Spec => []SuccessIsReal
<1>1. IndInv => SuccessIsReal
  BY DEF IndInv
<1> QED BY <1>1, ProgramInvariance, PTL

\* The exit status of an uninterrupted run means what a script takes it for; of
\* a deauth it is 0 exactly if the logout was confirmed (main.cpp:145-207).
THEOREM ExitStatusAlwaysMeans == Spec => []ExitStatusMeaning
<1>1. IndInv => ExitStatusMeaning
  BY DEF IndInv
<1> QED BY <1>1, ProgramInvariance, PTL

\* A request on its way uses the challenge issued for it, and its user's if his
\* name survives the URL (Authenticator.cpp:58-72, 199-220).
THEOREM RequestsUseTheirChallenges == Spec => []RequestUsesItsChallenge
<1>1. \A name \in Users : ReadRaw(name) = name <=> name \in UrlSafe
  BY PortalConstants DEF ReadRaw
<1>2. IndInv => RequestUsesItsChallenge
  BY <1>1 DEF IndInv, ChallengeInv, PerformedInv, RequestUsesItsChallenge
<1> QED BY <1>2, ProgramInvariance, PTL

\* Whom a logout names was given or was online here, and is never nobody
\* (main.cpp:192-205).
THEOREM LogoutsNameSomebodyKnown == Spec => []LogoutNamesSomebodyKnown
<1>1. IndInv => LogoutNamesSomebodyKnown
  BY DEF IndInv, NameInv
<1> QED BY <1>1, ProgramInvariance, PTL

\* The terminal echoes as it was found, but for the password and a signal
\* (PwdInput.cpp:16-22).
THEOREM EchoIsRestored == Spec => []EchoAsFound
<1>1. IndInv => EchoAsFound
  BY DEF IndInv, EchoInv
<1> QED BY <1>1, ProgramInvariance, PTL

\* A refusal lacks a text exactly if it explains itself in no field that is read
\* for its kind of error (Authenticator.cpp:271-293).
THEOREM RefusalsAreExplained == Spec => []RefusalIsExplained
<1>1. IndInv => RefusalIsExplained
  BY DEF IndInv
<1> QED BY <1>1, ProgramInvariance, PTL

=============================================================================
