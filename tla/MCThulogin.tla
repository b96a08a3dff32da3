----------------------------- MODULE MCThulogin -----------------------------
(* Small instances of Thulogin for TLC.                                    *)
EXTENDS Thulogin

\* One name that survives any context, one that does not survive a URL and one
\* that does not survive JSON.
MCUsers == {"alice", "m&m", "o\"hara"}
MCPasswords == {"pw"}
MCUrlSafe == {"alice", "o\"hara"}
MCJsonSafe == {"alice", "m&m", "pw"}
\* Two challenges: ours and another client's, in either order.
MCTokens == {"t1", "t2"}
\* The one id that detection can find; the portal's page names it (README.md:28-31).
MCAcIds == {"173"}

Line(command, user, secret, acId) ==
    [subcommand |-> command, username |-> user, password |-> secret,
     acId |-> acId, daemon |-> FALSE, keepOnline |-> FALSE, noCheck |-> FALSE]

\* thulogin; -u alice -p pw; -k --no-check --ac-id 173 -u m&m; -D; deauth;
\* deauth -u alice
MCCommandLines ==
    {Line("auth", None, None, None),
     Line("auth", "alice", "pw", None),
     [Line("auth", "m&m", None, "173") EXCEPT !.keepOnline = TRUE,
                                              !.noCheck = TRUE],
     [Line("auth", None, None, None) EXCEPT !.daemon = TRUE],
     Line("deauth", None, None, "173"),
     Line("deauth", "alice", None, None)}

\* No file; a complete file; a file whose password is no JSON string.
MCConfigs ==
    {[username |-> None, password |-> None],
     [username |-> "m&m", password |-> "pw"],
     [username |-> "alice", password |-> None]}

\* For the liveness run and the claims: a run that asks for everything, one that
\* keeps online, and a deauth that names nobody.
MCFewLines ==
    {Line("auth", None, None, None),
     [Line("auth", "alice", "pw", "173") EXCEPT !.keepOnline = TRUE],
     Line("deauth", None, None, None)}

MCNoConfig == {[username |-> None, password |-> None]}

MCSavedConfig == {[username |-> "alice", password |-> "pw"]}

=============================================================================
