---------------------------- MODULE CommandLogin ----------------------------
(***************************************************************************)
(* Login from the command line (cmd/login/main.go, login.sh).  "login url" *)
(* listens for the browser's callback, prints the link and stays until the *)
(* result file is there or ten minutes are over; its callback handler      *)
(* exchanges the code, writes the credential file and then the result      *)
(* file, which "login poll" prints and removes.                            *)
(*                                                                         *)
(* The two commands are run by login.sh, or by hand in two terminals.      *)
(* os.WriteFile is not atomic: a file is part written for a moment.  A     *)
(* deadline may have come at any pass of its loop.  A callback with a      *)
(* wrong state or no code is answered 400 and changes nothing.             *)
(***************************************************************************)

VARIABLES
    byScript,     \* login.sh runs the commands
    script,       \* where login.sh is; "off" by hand
    url,          \* what "login url" does next
    listening,    \* the callback server accepts connections
    linkSeen,     \* the user has the link on the screen
    callback,     \* what the callback handler does next
    poll,         \* what "login poll" does
    stateFile,    \* lb2api-login-state.json is there
    result,       \* its ".result" file: how much of it is there
    credential    \* the file in auths/: how much of it is there

vars == <<byScript, script, url, listening, linkSeen, callback, poll,
          stateFile, result, credential>>

FileStates == {"absent", "part", "whole"}

\* An earlier login may have left its files behind.
Init ==
    /\ byScript \in BOOLEAN
    /\ script = IF byScript THEN "begins" ELSE "off"
    /\ url = "ready" /\ listening = FALSE /\ linkSeen = FALSE
    /\ callback = "none" /\ poll = "ready"
    /\ stateFile \in BOOLEAN
    /\ result \in FileStates /\ credential = "absent"

ScriptRunsUrl ==
    /\ script = "begins"
    /\ script' = "waits for url"
    /\ UNCHANGED <<byScript, url, listening, linkSeen, callback, poll, stateFile, result, credential>>

\* Leftovers are removed, so that the loop does not take them for a callback.
UrlCleans ==
    /\ url = "ready" /\ script \in {"waits for url", "off"}
    /\ url' = "cleaned"
    /\ result' = "absent" /\ stateFile' = FALSE
    /\ UNCHANGED <<byScript, script, listening, linkSeen, callback, poll, credential>>

\* The server is up before the state is written and the link printed; login.sh
\* captures what the command prints, $(...), until the command ends.
UrlPrints ==
    /\ url = "cleaned"
    /\ url' = "waits"
    /\ listening' = TRUE /\ stateFile' = TRUE
    /\ linkSeen' = ~byScript
    /\ UNCHANGED <<byScript, script, callback, poll, result, credential>>

\* No port, no state file, or an address missing from the environment; the
\* upstream's is looked up in the callback only.
UrlFails ==
    /\ url = "cleaned" \/ callback = "exchanges"
    /\ url' = "failed" /\ listening' = FALSE /\ callback' = "none"
    /\ stateFile' \in {stateFile, TRUE}
    /\ UNCHANGED <<byScript, script, linkSeen, poll, result, credential>>

UrlSeesResult ==
    /\ url = "waits" /\ result # "absent"
    /\ url' = "closes"
    /\ UNCHANGED <<byScript, script, listening, linkSeen, callback, poll, stateFile, result, credential>>

\* At the deadline, or half a second after it saw the result.  The process
\* ends, and with it a callback that is still at work.
UrlCloses ==
    /\ url \in {"waits", "closes"}
    /\ url' = "ended"
    /\ listening' = FALSE /\ callback' = "none"
    /\ UNCHANGED <<byScript, script, linkSeen, poll, stateFile, result, credential>>

ScriptShowsLink ==
    /\ script = "waits for url" /\ url = "ended"
    /\ script' = "asks" /\ linkSeen' = TRUE
    /\ UNCHANGED <<byScript, url, listening, callback, poll, stateFile, result, credential>>

ScriptStops ==
    /\ \/ script = "waits for url" /\ url = "failed"
       \/ script = "asks"
       \/ script = "waits for poll" /\ poll = "timed out"
    /\ script' = "stopped"
    /\ UNCHANGED <<byScript, url, listening, linkSeen, callback, poll, stateFile, result, credential>>

\* The portal sends the browser to the callback when the user has logged in.
Callback ==
    /\ linkSeen /\ listening /\ callback = "none"
    /\ callback' = "exchanges"
    /\ UNCHANGED <<byScript, script, url, listening, linkSeen, poll, stateFile, result, credential>>

\* exchange returned nil, perhaps for the disk; the page says that the login
\* succeeded.
ExchangeFails ==
    /\ callback \in {"exchanges", "saves"}
    /\ callback' = "none"
    /\ UNCHANGED <<byScript, script, url, listening, linkSeen, poll, stateFile, result, credential>>

WritesCredential ==
    /\ \/ callback = "exchanges" /\ credential' = "part" /\ callback' = "saves"
       \/ callback = "saves" /\ credential' = "whole" /\ callback' = "reports"
    /\ UNCHANGED <<byScript, script, url, listening, linkSeen, poll, stateFile, result>>

\* Errors are not looked at.  Poll may remove the name meanwhile: the rest
\* then goes to a file without one.
WritesResult ==
    /\ \/ callback = "reports" /\ result' \in {result, "part"} /\ callback' = "ends"
       \/ /\ callback = "ends" /\ callback' = "none"
          /\ result' \in {result, IF result = "part" THEN "whole" ELSE result}
    /\ UNCHANGED <<byScript, script, url, listening, linkSeen, poll, stateFile, credential>>

\* By hand it may be started at any time, before "login url" too.
StartPoll ==
    /\ poll = "ready" /\ script \in {"asks", "off"}
    /\ poll' = "waits"
    /\ script' = IF byScript THEN "waits for poll" ELSE "off"
    /\ UNCHANGED <<byScript, url, listening, linkSeen, callback, stateFile, result, credential>>

PollTakesResult ==
    /\ poll = "waits" /\ result # "absent"
    /\ poll' = IF result = "whole" THEN "printed" ELSE "printed part"
    /\ result' = "absent" /\ stateFile' = FALSE
    /\ UNCHANGED <<byScript, script, url, listening, linkSeen, callback, credential>>

PollTimesOut ==
    /\ poll = "waits"
    /\ poll' = "timed out"
    /\ UNCHANGED <<byScript, script, url, listening, linkSeen, callback, stateFile, result, credential>>

\* Without a uid in what poll printed the script gives up.
ScriptReports ==
    /\ script = "waits for poll" /\ poll \in {"printed", "printed part"}
    /\ script' = IF poll = "printed" THEN "logged in" ELSE "stopped"
    /\ UNCHANGED <<byScript, url, listening, linkSeen, callback, poll, stateFile, result, credential>>

Next ==
    \/ ScriptRunsUrl \/ ScriptShowsLink \/ ScriptStops \/ ScriptReports
    \/ UrlCleans \/ UrlPrints \/ UrlFails \/ UrlSeesResult \/ UrlCloses
    \/ Callback \/ ExchangeFails \/ WritesCredential \/ WritesResult
    \/ StartPoll \/ PollTakesResult \/ PollTimesOut

Spec == Init /\ [][Next]_vars

-----------------------------------------------------------------------------

\* The link is put on the screen while the callback server listens: the user
\* "opens the URL in the browser to finish the login" (login.sh:9) after
\* "login url starts the callback server and prints the URL" (login.sh:8).
\* By hand it is so; login.sh shows the link when the server is gone.
LinkIsLive == [][linkSeen' /\ ~linkSeen => listening']_vars
=============================================================================
