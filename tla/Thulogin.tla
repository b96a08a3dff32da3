------------------------------ MODULE Thulogin ------------------------------
(***************************************************************************)
(* The program: main, doAuth and doDeauth (src/main.cpp) with the prompts  *)
(* of pwd_input (src/PwdInput.cpp), driving an Authenticator against the   *)
(* Portal and then watching a target as a KeepAliveMonitor.                *)
(*                                                                         *)
(* Until the keep-alive phase there is one thread and g_keepAlive is null, *)
(* so a signal is one step: exit(0).  The keep-alive phase is the abstract *)
(* monitor; KeepAliveRefinement justifies it by the threads' behaviour.    *)
(***************************************************************************)
EXTENDS Authenticator, KeepAliveMonitor

CONSTANTS
    CommandLines,   \* what parseArgs and parseSubcommand can return
    Configs         \* what Config::load can return

Lines == [subcommand : {"auth", "deauth"}, username : Users \cup {None},
          password : Passwords \cup {None}, acId : AcIds \cup {None},
          daemon : BOOLEAN, keepOnline : BOOLEAN, noCheck : BOOLEAN]

ASSUME ThuloginConstants ==
    /\ CommandLines \subseteq Lines
    /\ Configs \subseteq [username : Users \cup {None},
                          password : Passwords \cup {None}]

VARIABLES
    params,       \* CliParams and the subcommand
    config,       \* the loaded ConfigData
    pc,           \* where main, doAuth or doDeauth is
    echo,         \* does the terminal echo?
    oldt,         \* the local of pwd_input: the terminal's setting to restore
    echoFound,    \* history: the terminal's setting at the start
    status        \* the process's exit status

mainVars == <<params, config, pc, echo, oldt, echoFound, status>>

vars == <<portalVars, authenticatorVars, monitorVars, mainVars>>

Aborted == 134   \* the shell's name for SIGABRT
MinusOne == 255  \* what is left of return -1
Segfault == 139  \* the shell's name for SIGSEGV
BrokenPipe == 141  \* the shell's name for SIGPIPE

Prompts == {"askName", "askPassword"}

Pcs == {"launch", "hideEcho", "showEcho", "check", "setup", "detect",
        "connected", "online", "auth", "logout", "watch", "exited"}
            \cup Prompts

TypeOK ==
    /\ AuthenticatorTypeOK
    /\ MonitorTypeOK
    /\ params \in Lines
    /\ config \in Configs
    /\ pc \in Pcs
    /\ {echo, oldt, echoFound} \subseteq BOOLEAN
    /\ status \in {0, 1, MinusOne, Aborted, Segfault, BrokenPipe}

Init ==
    /\ PortalInit
    /\ AuthenticatorInit
    /\ MonitorInit
    /\ params \in CommandLines
    /\ config \in Configs
    /\ pc = "launch"
    /\ echo \in BOOLEAN
    /\ oldt = FALSE
    /\ echoFound = echo
    /\ status = 0

-----------------------------------------------------------------------------
(* main, up to the call of doAuth or doDeauth.                             *)

Goto(place) == pc' = place /\ UNCHANGED status
Exit(code) == pc' = "exited" /\ status' = code

\* Main runs its own code: nothing of the Authenticator is in progress.
Own(place) ==
    /\ pc = place
    /\ UNCHANGED <<portalVars, authenticatorVars, monitorVars, config,
                   echoFound>>

NeedPassword(p) == IF p.password = None THEN "hideEcho" ELSE "check"

\* What the command line leaves open comes from the configuration, the name
\* and the password each for itself; then, unless -D, from the user.
MergeConfig ==
    /\ Own("launch")
    /\ params' =
          [params EXCEPT
              !.username = IF @ = None THEN config.username ELSE @,
              !.password = IF @ = None THEN config.password ELSE @]
    /\ Goto(CASE params.subcommand = "deauth" -> "setup"
              [] params.subcommand = "auth" /\ params.daemon -> "check"
              [] OTHER -> IF params'.username = None THEN "askName"
                                                     ELSE NeedPassword(params'))
    /\ UNCHANGED <<echo, oldt>>

\* std::getline(std::cin, params.username); an empty line or no line is ""
AskName ==
    /\ Own("askName")
    /\ \E line \in Users \cup {None} : params' = [params EXCEPT !.username = line]
    /\ Goto(NeedPassword(params))
    /\ UNCHANGED <<echo, oldt>>

\* pwd_input: tcgetattr, tcsetattr without ECHO ...
HideEcho ==
    /\ Own("hideEcho")
    /\ oldt' = echo
    /\ echo' = FALSE
    /\ Goto("askPassword")
    /\ UNCHANGED params

\* ... std::getline ...
AskPassword ==
    /\ Own("askPassword")
    /\ \E line \in Passwords \cup {None} :
           params' = [params EXCEPT !.password = line]
    /\ Goto("showEcho")
    /\ UNCHANGED <<echo, oldt>>

\* Mutant: ECHO is set instead of restoring what was there.
ShowEchoAlways ==
    /\ Own("showEcho")
    /\ echo' = TRUE
    /\ Goto("check")
    /\ UNCHANGED <<params, oldt>>

\* ... tcsetattr(oldt)
ShowEcho ==
    /\ Own("showEcho")
    /\ echo' = oldt
    /\ Goto("check")
    /\ UNCHANGED <<params, oldt>>

\* Mutant: what is missing is asked for again, -D or not.
AskAgain ==
    /\ Own("check")
    /\ Goto(CASE params.username = None -> "askName"
              [] params.password = None -> "hideEcho"
              [] OTHER -> "setup")
    /\ UNCHANGED <<params, echo, oldt>>

\* "Username and password are required"
CheckCredentials ==
    /\ Own("check")
    /\ IF None \in {params.username, params.password} THEN Exit(1)
                                                      ELSE Goto("setup")
    /\ UNCHANGED <<params, echo, oldt>>

-----------------------------------------------------------------------------
(* doAuth and doDeauth.                                                    *)

InBody(place) ==
    /\ pc = place
    /\ at = "ready"
    /\ UNCHANGED <<session, seenOnline, challenge, issued, performed,
                   monitorVars, params, config, echo, oldt, echoFound>>

NoCall == UNCHANGED <<exchange, authenticatorVars>>

Detecting == params.acId = None

\* Authenticator au(baseUrl, ...) and, without --ac-id, au.detect_ac_id(...)
Setup ==
    /\ InBody("setup")
    /\ ac_id' = IF Detecting THEN DefaultAcId ELSE params.acId
    /\ IF Detecting THEN DetectCall /\ Goto("detect")
       ELSE Goto("connected") /\ UNCHANGED <<exchange, at, returned, said>>
    /\ UNCHANGED <<username, password, token, ip_addr, response_msg>>

\* au.setAcId(acId)
SetAcId ==
    /\ InBody("detect")
    /\ ac_id' = returned.text
    /\ Goto("connected")
    /\ UNCHANGED <<exchange, username, password, token, ip_addr, response_msg,
                   at, returned, said>>

AskOnline ==
    /\ OnlineCall
    /\ Goto("online")
    /\ UNCHANGED memberVars

Login ==
    /\ AuthCall(params.username, params.password)
    /\ Goto("auth")
    /\ UNCHANGED <<ac_id, token, ip_addr, response_msg>>

Logout(name) ==
    /\ LogoutCall(name)
    /\ Goto("logout")
    /\ UNCHANGED <<password, ac_id, token, ip_addr, response_msg>>

\* return 0, or startKeepAlive first
Succeed ==
    /\ NoCall
    /\ IF params.keepOnline \/ params.daemon THEN Goto("watch") ELSE Exit(0)

doAuth ==
    /\ params.subcommand = "auth"
    /\ \/ InBody("connected") /\ ~params.noCheck /\ AskOnline
       \/ InBody("connected") /\ params.noCheck /\ Login
       \/ InBody("online") /\ returned.result = "ok" /\ Succeed
       \/ InBody("online") /\ returned.result = "failed" /\ Login
       \/ InBody("auth") /\ returned.result = "ok" /\ Succeed
       \/ InBody("auth") /\ returned.result = "failed" /\ NoCall /\ Exit(1)

\* Mutant: a session whose user is not named is taken for a user.
SomebodyDetected == returned.result = "ok"

\* is_online answered true and gave a name.
UserDetected == returned.result = "ok" /\ returned.text # None

doDeauth ==
    /\ params.subcommand = "deauth"
    /\ \/ InBody("connected") /\ params.username = None /\ AskOnline
       \/ InBody("connected") /\ params.username # None /\ Logout(params.username)
       \/ InBody("online") /\ UserDetected /\ Logout(returned.text)
       \/ InBody("online") /\ ~UserDetected /\ NoCall /\ Exit(1)
       \/ /\ InBody("logout")
          /\ NoCall
          /\ Exit(IF returned.result = "ok" THEN 0 ELSE MinusOne)

-----------------------------------------------------------------------------
(* The keep-alive phase, signals and the rest of the world.                *)

Watch ==
    /\ pc = "watch"
    /\ MonitorNext
    /\ UNCHANGED <<portalVars, authenticatorVars, mainVars>>

\* startKeepAlive returned, or std::thread threw, or a handler ended the process:
\* by exit, or by its second load of g_keepAlive, if that finds null; or it was
\* interrupted where std::thread then threw.
WatchOver ==
    /\ Own("watch")
    /\ phase = "over"
    /\ \/ ~interrupted /\ Exit(IF failures >= RetryLimit THEN 0 ELSE Aborted)
       \/ interrupted /\ \E code \in {0, Aborted, Segfault} : Exit(code)
    /\ UNCHANGED <<params, echo, oldt>>

\* signalHandler outside the keep-alive phase
Signal ==
    /\ pc \notin {"watch", "exited"}
    /\ interrupted' = TRUE
    /\ Exit(0)
    /\ UNCHANGED <<portalVars, authenticatorVars, phase, failures, params,
                   config, echo, oldt, echoFound>>

\* SIGPIPE in the one request over plain HTTP, which comes before any over
\* TLS: until then the process does not ignore it.
KilledBySend ==
    /\ pc = "detect"
    /\ exchange.state = "sent"
    /\ Exit(BrokenPipe)
    /\ UNCHANGED <<portalVars, authenticatorVars, monitorVars, params, config,
                   echo, oldt, echoFound>>

AuthenticatorRuns ==
    /\ pc # "exited"
    /\ AuthenticatorStep
    /\ UNCHANGED <<session, seenOnline, challenge, issued, performed,
                   monitorVars, mainVars>>

OutsideStep ==
    /\ PortalStep \/ Lose \/ OthersStep
    /\ UNCHANGED <<authenticatorVars, monitorVars, mainVars>>

\* The steps only the scheduler decides.
MainStep ==
    \/ MergeConfig \/ HideEcho \/ ShowEcho \/ CheckCredentials
    \/ Setup \/ SetAcId \/ doAuth \/ doDeauth \/ WatchOver

UserStep == AskName \/ AskPassword

Next ==
    \/ MainStep \/ UserStep \/ Signal \/ KilledBySend \/ Watch
    \/ AuthenticatorRuns \/ OutsideStep

Spec == Init /\ [][Next]_vars

\* The process runs when it can.  Nothing obliges the portal, the network or
\* the user to answer.
FairSpec == Spec /\ WF_vars(MainStep) /\ WF_vars(AuthenticatorRuns)

-----------------------------------------------------------------------------
(* Safety.                                                                 *)

Over(command) == pc = "exited" /\ ~interrupted /\ params.subcommand = command

\* "Logged in successfully!" and "Logged out successfully!" are printed only
\* for a login or logout the portal did perform, whatever was lost or garbled
\* on the way (Authenticator.cpp:74-75, 124-125).
SuccessIsReal ==
    /\ said = "loggedIn" => "login" \in performed
    /\ said = "loggedOut" => "logout" \in performed

\* The portal's confirmation of this run's login or logout has arrived.
Confirmed(kind) == exchange.request.kind = kind /\ Reply \in Acceptance

\* What the exit status of an uninterrupted run tells a script.  auth: 0 only
\* if somebody was online here during the run or a login request was sent.
\* deauth: 0 exactly if the portal's confirmation of the logout arrived, and
\* then the logout was performed.  Both: 1 only if nothing was changed, as after
\* a death by SIGPIPE (main.cpp:145-207, Authenticator.cpp:87-136).
ExitStatusMeaning ==
    /\ Over("auth") /\ status = 0
           => seenOnline # {} \/ exchange.request.kind = "login"
    /\ Over("deauth")
           => /\ status = 0 <=> Confirmed("logout")
              /\ status = 0 => "logout" \in performed
    /\ pc = "exited" /\ status \in {1, BrokenPipe} => performed = {}

\* A request that is on its way uses the challenge the portal issued for it,
\* unless another client at this address was given a newer one meanwhile; and
\* the portal issued it for the very user the request names exactly if the name
\* survives being put into a URL as it is, for any other it issued it for
\* somebody else (Authenticator.cpp:58-72, 199-220).
RequestUsesItsChallenge ==
    exchange.state = "sent" /\ exchange.request.kind \in {"login", "logout"}
        => LET r == exchange.request
           IN  challenge.ours =>
                  /\ r.chksum.token = challenge.token
                  /\ challenge.name = r.params.username
                         <=> r.params.username \in UrlSafe

\* Whom a deauth logs out: the user the command line or the configuration
\* named, or, if neither named one, somebody who was online here during the
\* run; never an empty name (main.cpp:192-205).
LogoutNamesSomebodyKnown ==
    exchange.request.kind = "logout" =>
        \/ /\ params.username # None
           /\ exchange.request.params.username = params.username
        \/ /\ params.username = None
           /\ exchange.request.params.username \in seenOnline

\* The terminal's echo is off beyond its setting only while pwd_input waits
\* for the password or if a signal cut pwd_input off (PwdInput.cpp:16-22).
EchoAsFound ==
    echo # echoFound => pc \in {"askPassword", "showEcho"} \/ interrupted

\* The portal explained itself in no field that is read for this kind of error.
Unexplained(says) ==
    IF says.error = String("login_error")
    THEN says.ecode = Null /\ says.error_msg = Null
    ELSE says.res = Null

\* A refusal is reported without any text exactly if a login_error came with
\* neither code nor message, or another error without a result, whatever else
\* the portal said in it (Authenticator.cpp:74-77, 124-127, 271-293).
RefusalIsExplained ==
    said = "refused" /\ Reply \in Refusals
        => (response_msg = None <=> Unexplained(Reply.fields))

-----------------------------------------------------------------------------
(* The inductive invariant.                                                *)

\* One exchange at a time, and it is the one the operation waits for.
ExchangeInv ==
    /\ DOMAIN exchange = {"state", "request", "reply"}
    /\ exchange.state \in {"idle", "sent", "answered", "failed"}
    /\ at = "ready" <=> exchange.state = "idle"
    /\ at \in {"detect", "page", "info", "login", "logout"}
           => exchange.request.kind = at
    /\ at \in {"authChallenge", "logoutChallenge"}
           => exchange.request.kind = "challenge"

\* Which operation runs where, on whose behalf, and what must be known there.
PcInv ==
    /\ pc = "detect" => at \in {"ready", "detect"}
    /\ pc = "online" => at \in {"ready", "page", "info"}
    /\ pc = "auth" => at \in {"ready", "authChallenge", "login"}
    /\ pc = "logout" => at \in {"ready", "logoutChallenge", "logout"}
    /\ pc \notin {"detect", "online", "auth", "logout", "exited"}
           => at = "ready"
    /\ pc \in Prompts \cup {"hideEcho", "showEcho", "check", "auth", "watch"}
           => params.subcommand = "auth"
    /\ pc = "logout" => params.subcommand = "deauth"
    /\ pc = "online" /\ params.subcommand = "deauth" => params.username = None
    /\ /\ pc \in {"setup", "detect", "connected", "online", "auth"}
       /\ params.subcommand = "auth"
       => params.username # None

\* Challenges, logins and logouts are asked for late, and what was performed
\* was asked for.
PerformedInv ==
    /\ exchange.request.kind = "challenge"
           => pc \in {"auth", "logout", "watch", "exited"}
    /\ exchange.request.kind = "login"
           => /\ pc \in {"auth", "watch", "exited"}
              /\ exchange.request.params.username \in Users
    /\ exchange.request.kind = "logout"
           => /\ pc \in {"logout", "exited"}
              /\ exchange.request.params.username \in Users
              /\ pc = "exited" /\ ~interrupted => at = "ready"
    /\ performed # {} => exchange.request.kind \in {"login", "logout"}
    /\ pc = "exited" /\ status \in {1, BrokenPipe}
           => exchange.request.kind \notin {"login", "logout"}

\* Who is online was noticed.
SessionInv ==
    /\ seenOnline \subseteq Users
    /\ session \in seenOnline \cup {None}

\* The watch counts its failures; a signal ends everything but the watch.
WatchInv ==
    /\ phase # "idle" \/ interrupted => pc \in {"watch", "exited"}
    /\ phase = "idle" => failures = 0
    /\ phase = "watching" => failures < RetryLimit

\* The challenge in force, if it is ours, is the one this exchange asked for.
ChallengeInv ==
    LET request == exchange.request
    IN  /\ challenge.ours => request.kind \in {"challenge", "login", "logout"}
        /\ request.kind = "challenge" => request.username = username
        /\ request.kind = "challenge" /\ exchange.state = "sent"
               => ~challenge.ours
        /\ request.kind = "challenge" /\ challenge.ours
               => challenge.name = ReadRaw(username)
        /\ request.kind \in {"login", "logout"} /\ challenge.ours
               => /\ request.chksum.token = challenge.token
                  /\ challenge.name = ReadRaw(request.params.username)

\* What a reply to a request of this kind can say ...
CanSay(kind, reply) ==
    /\ kind = "detect" => reply.found \in AcIds \cup {None}
    /\ kind = "page" => reply.found \in {Address, None}
    /\ kind = "info" /\ Online(reply)
           => /\ seenOnline # {}
              /\ FetchFromJson(reply, "user_name") \in seenOnline \cup {None}
    /\ kind = "challenge"
           => /\ FetchFromJson(reply, "client_ip") \in {Address, None}
              /\ FetchFromJson(reply, "challenge") \in Tokens \cup {None}
              /\ challenge.ours => FetchFromJson(reply, "challenge")
                                       \in {challenge.token, None}
              /\ reply \notin Acceptance
    /\ kind \in {"login", "logout"}
           => /\ ReportsOk(reply) => kind \in performed
              /\ ReportsOk(reply) <=> reply \in Acceptance
              /\ ResponseMsg(reply) \in Messages \cup {None}

\* ... and does; until there is one to a logout, the last is no confirmation.
ReplyInv ==
    /\ Answered => CanSay(exchange.request.kind, Reply)
    /\ exchange.request.kind = "logout" /\ exchange.state \in {"sent", "failed"}
           => Reply \notin Acceptance

\* What an operation returned, where it is used.
ReturnedInv ==
    /\ pc = "detect" /\ at = "ready"
           => returned.text \in AcIds \cup {DefaultAcId}
    /\ pc = "online" /\ at = "ready" /\ returned.result = "ok"
           => seenOnline # {} /\ returned.text \in seenOnline \cup {None}
    /\ pc = "auth" /\ at = "ready"
           => \/ returned.result = "ok" /\ exchange.request.kind = "login"
              \/ /\ returned.result = "failed"
                 /\ exchange.request.kind = "challenge"
    /\ pc = "logout" /\ at = "ready"
           => /\ returned.result = "ok" <=> Confirmed("logout")
              /\ returned.result = "ok" => said = "loggedOut"
    /\ pc = "watch" => seenOnline # {} \/ exchange.request.kind = "login"

\* The name a login or logout is for, before and after the request names it.
NameInv ==
    /\ pc = "auth" => username = params.username
    /\ pc = "logout" => \/ username = params.username /\ username # None
                        \/ params.username = None /\ username \in seenOnline
    /\ LogoutNamesSomebodyKnown

\* Whatever auth and logout say is their last word.
SaidInv == said # "nothing" => at = "ready" /\ pc \in {"auth", "logout",
                                                     "watch", "exited"}

EchoInv ==
    /\ pc \in {"askPassword", "showEcho"} => oldt = echoFound
    /\ EchoAsFound

IndInv ==
    /\ TypeOK
    /\ ExchangeInv /\ PcInv /\ PerformedInv /\ SessionInv /\ WatchInv
    /\ ChallengeInv /\ ReplyInv /\ ReturnedInv /\ NameInv /\ SaidInv
    /\ EchoInv
    /\ SuccessIsReal /\ ExitStatusMeaning /\ RefusalIsExplained

-----------------------------------------------------------------------------
(* Liveness.                                                               *)

\* If no prompt and no HTTP exchange stays unanswered for ever, every run ends
\* or comes to watch its target: doAuth and doDeauth never go back.
Terminates ==
    ([]<>(pc \notin Prompts) /\ []<>(exchange.state # "sent"))
        => <>(pc \in {"watch", "exited"})

-----------------------------------------------------------------------------
(* What the program's own texts say of it.                                 *)

\* "Keep online after login" (main.cpp:58): the keep-alive phase begins with
\* somebody online at this address.
KeepOnlineAfterLogin == phase # "idle" => seenOnline # {}

\* "deauth: password not needed; username is auto-detected via is_online"
\* (main.cpp:236): without -u, whom deauth logs out was online here.
DeauthDetectsUser ==
    exchange.request.kind = "logout"
        => exchange.request.params.username \in seenOnline

=============================================================================
