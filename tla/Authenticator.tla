--------------------------- MODULE Authenticator ---------------------------
(***************************************************************************)
(* The class Authenticator (src/Authenticator.cpp): the state machine of   *)
(* its four operations detect_ac_id, is_online, auth and logout, each a    *)
(* sequence of HTTP exchanges with the portal, and what it makes of the    *)
(* replies.                                                                *)
(*                                                                         *)
(* A caller starts an operation with one of the ...Call actions while at = *)
(* "ready" and finds its result in returned once at is "ready" again.      *)
(*                                                                         *)
(* Cryptography is symbolic: an MD5 is a record that names its argument, a *)
(* checksum one that names the token and the parameters it was taken over, *)
(* and an x_encode'd info one that names its key.                          *)
(***************************************************************************)
EXTENDS Portal

VARIABLES
    username,      \* members of the object
    password,
    ac_id,
    token,
    ip_addr,
    response_msg,
    at,            \* the exchange the current operation waits for, or "ready"
    returned,      \* what the last operation returned
    said           \* what it told the user

memberVars == <<username, password, ac_id, token, ip_addr, response_msg>>
authenticatorVars == <<memberVars, at, returned, said>>

DefaultAcId == "1"

Places == {"ready", "detect", "page", "info", "authChallenge", "login",
           "logoutChallenge", "logout"}

Sayings == {"nothing", "loggedIn", "refused", "failed", "noToken",
            "loggedOut"}

AuthenticatorTypeOK ==
    /\ username \in Users \cup {None}
    /\ password \in Passwords \cup {None}
    /\ ac_id \in AcIds \cup {DefaultAcId}
    /\ token \in Tokens \cup {None}
    /\ ip_addr \in {Address, None}
    /\ response_msg \in Messages \cup {None}
    /\ at \in Places
    /\ returned.result \in {"none", "ok", "failed"}
    /\ returned.text \in AcIds \cup {DefaultAcId} \cup Users \cup {None}
    /\ said \in Sayings

AuthenticatorInit ==
    /\ username = None
    /\ password = None
    /\ ac_id = DefaultAcId
    /\ token = None
    /\ ip_addr = None
    /\ response_msg = None
    /\ at = "ready"
    /\ returned = [result |-> "none", text |-> None]
    /\ said = "nothing"

-----------------------------------------------------------------------------
(* Reading replies.                                                        *)

\* fetch_from_json on a stripped body: strings as they are, numbers printed,
\* everything else, a missing property or a text that is no JSON as "".
FetchFromJson(body, prop) ==
    IF /\ body.kind = "json"
       /\ prop \in DOMAIN body.fields
       /\ body.fields[prop].type \in {"string", "number"}
    THEN body.fields[prop].text
    ELSE None

\* Mutant: whatever is not a login_error is taken for a success.
ReportsNoLoginError(body) == FetchFromJson(body, "error") # "login_error"

\* fetch_error_state returns 0.
ReportsOk(body) == FetchFromJson(body, "error") = "ok"

\* Mutant: no error_msg in place of a missing ecode.
ResponseMsgCodeOnly(body) ==
    CASE ReportsOk(body) -> FetchFromJson(body, "suc_msg")
      [] FetchFromJson(body, "error") = "login_error" ->
            FetchFromJson(body, "ecode")
      [] OTHER -> FetchFromJson(body, "res")

\* The response_msg it leaves behind, without the text looked up for it.
ResponseMsg(body) ==
    LET ecode == FetchFromJson(body, "ecode")
    IN  CASE ReportsOk(body) -> FetchFromJson(body, "suc_msg")
          [] FetchFromJson(body, "error") = "login_error" ->
                IF ecode # None THEN ecode ELSE FetchFromJson(body, "error_msg")
          [] OTHER -> FetchFromJson(body, "res")

\* Mutant: any JSON reply counts as online.
OnlineIfParsed(body) == body.kind = "json"

\* A user_name that is no string throws, and is_online answers false.
Online(body) ==
    /\ body.kind = "json"
    /\ "error" \in DOMAIN body.fields
    /\ body.fields["error"] = String("ok")
    /\ "user_name" \in DOMAIN body.fields
            => body.fields["user_name"].type = "string"

-----------------------------------------------------------------------------
(* Building requests.                                                      *)

Md5(text) == [md5 |-> text]

\* build_auth_info and the URL of action=login; the parameters are URL-encoded
\* and arrive as they are, what is inside info is not.
LoginRequest(key, ip) ==
    LET info == [key |-> key, username |-> ReadQuoted(username),
                 password |-> ReadQuoted(password), ip |-> ip, acId |-> ac_id]
        params == [username |-> username, hmd5 |-> Md5(password),
                   acId |-> ac_id, ip |-> ip, info |-> info]
    IN  [kind |-> "login", params |-> params,
         chksum |-> [token |-> key, over |-> params]]

\* The same for action=logout: neither hmd5 nor a password.
LogoutRequest(key, ip) ==
    LET info == [key |-> key, username |-> ReadQuoted(username), ip |-> ip,
                 acId |-> ac_id]
        params == [username |-> username, acId |-> ac_id, ip |-> ip,
                   info |-> info]
    IN  [kind |-> "logout", params |-> params,
         chksum |-> [token |-> key, over |-> params]]

-----------------------------------------------------------------------------
(* The operations.                                                         *)

Enter(place, request) ==
    /\ at' = place
    /\ Send(request)
    /\ UNCHANGED <<returned, said>>

Leave(result, text) ==
    /\ at' = "ready"
    /\ Consume
    /\ returned' = [result |-> result, text |-> text]

At(place) == at = place /\ (Answered \/ Failed)

Reply == exchange.reply

\* detect_ac_id(v6)
DetectCall == at = "ready" /\ Enter("detect", DetectRequest)

\* Mutant: a page without an ac_id yields "".
DetectReturnUnchecked ==
    /\ At("detect")
    /\ Leave("ok", IF Answered THEN Reply.found ELSE DefaultAcId)
    /\ UNCHANGED <<memberVars, said>>

DetectReturn ==
    /\ At("detect")
    /\ Leave("ok", IF Answered /\ Reply.found # None THEN Reply.found
                                                     ELSE DefaultAcId)
    /\ UNCHANGED <<memberVars, said>>

\* is_online(out_username): the portal page for the ip, then rad_user_info
OnlineCall == at = "ready" /\ Enter("page", PageRequest(ac_id))

OnlineAsk ==
    /\ At("page")
    /\ Answered /\ Reply.found # None
    /\ Enter("info", InfoRequest(Reply.found))
    /\ UNCHANGED memberVars

OnlineReturn ==
    /\ \/ /\ At("page")
          /\ ~(Answered /\ Reply.found # None)
          /\ Leave("failed", None)
       \/ /\ At("info")
          /\ IF Answered /\ Online(Reply)
             THEN Leave("ok", FetchFromJson(Reply, "user_name"))
             ELSE Leave("failed", None)
    /\ UNCHANGED <<memberVars, said>>

\* get_info: the challenge request, and what its reply does to the members
GetInfoCall(place, name) ==
    /\ at = "ready"
    /\ username' = name
    /\ Enter(place, ChallengeRequest(name))

GetInfo ==
    /\ IF Answered
       THEN /\ ip_addr' = FetchFromJson(Reply, "client_ip")
            /\ token' = FetchFromJson(Reply, "challenge")
       ELSE UNCHANGED <<ip_addr, token>>
    /\ UNCHANGED <<username, password, ac_id, response_msg>>

GetInfoSucceeds == Answered /\ ip_addr' # None /\ token' # None

GetInfoFails(place) ==
    /\ At(place)
    /\ GetInfo
    /\ ~GetInfoSucceeds
    /\ Leave("failed", None)
    /\ said' = "noToken"

\* auth(username, password)
AuthCall(name, secret) ==
    /\ GetInfoCall("authChallenge", name)
    /\ password' = secret

\* Mutant: the request is built before get_info.
AuthSendTooEarly ==
    /\ At("authChallenge")
    /\ GetInfo
    /\ GetInfoSucceeds
    /\ Enter("login", LoginRequest(token, ip_addr))

AuthSend ==
    /\ At("authChallenge")
    /\ GetInfo
    /\ GetInfoSucceeds
    /\ Enter("login", LoginRequest(token', ip_addr'))

\* auth returns 0 once get_info succeeded, whatever the portal answers.
AuthReturn ==
    /\ At("login")
    /\ \/ /\ Answered
          /\ response_msg' = ResponseMsg(Reply)
          /\ said' = IF ReportsOk(Reply) THEN "loggedIn" ELSE "refused"
       \/ /\ Failed
          /\ said' = "failed"
          /\ UNCHANGED response_msg
    /\ Leave("ok", None)
    /\ UNCHANGED <<username, password, ac_id, token, ip_addr>>

\* logout(), after setUsername
LogoutCall(name) == GetInfoCall("logoutChallenge", name)

LogoutSend ==
    /\ At("logoutChallenge")
    /\ GetInfo
    /\ GetInfoSucceeds
    /\ Enter("logout", LogoutRequest(token', ip_addr'))

\* Mutant: it returns -1 whatever the portal answers, as auth returns 0.
LogoutReturnsMinusOne ==
    /\ At("logout")
    /\ \/ /\ Answered
          /\ response_msg' = ResponseMsg(Reply)
          /\ said' = IF ReportsOk(Reply) THEN "loggedOut" ELSE "refused"
       \/ Failed /\ said' = "failed" /\ UNCHANGED response_msg
    /\ Leave("failed", None)
    /\ UNCHANGED <<username, password, ac_id, token, ip_addr>>

LogoutReturn ==
    /\ At("logout")
    /\ \/ /\ Answered
          /\ response_msg' = ResponseMsg(Reply)
          /\ said' = IF ReportsOk(Reply) THEN "loggedOut" ELSE "refused"
       \/ /\ Failed
          /\ said' = "failed"
          /\ UNCHANGED response_msg
    /\ Leave(IF said' = "loggedOut" THEN "ok" ELSE "failed", None)
    /\ UNCHANGED <<username, password, ac_id, token, ip_addr>>

AuthenticatorStep ==
    \/ DetectReturn \/ OnlineAsk \/ OnlineReturn
    \/ AuthSend \/ AuthReturn \/ LogoutSend \/ LogoutReturn
    \/ GetInfoFails("authChallenge") \/ GetInfoFails("logoutChallenge")

=============================================================================
