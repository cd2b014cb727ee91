------------------------------ MODULE WebLogin ------------------------------
(***************************************************************************)
(* The web login: the table of login sessions and the two handlers of      *)
(* internal/server/admin.go, the exchange of internal/auth/oauth.go, and   *)
(* with them the credential of module Credentials, which a login replaces  *)
(* while the requests of the pool go on using and refreshing it.           *)
(*                                                                         *)
(* Random ids are numbers in the order they were drawn; a session's state  *)
(* and the code the portal returns with it are named by the session's id.  *)
(* A page may return any address to any session, and as often as it likes. *)
(* Every login is one of the account Credentials follows.                  *)
(***************************************************************************)
EXTENDS Credentials, FiniteSets

CONSTANTS
    MaxIds,             \* bound: login sessions drawn
    MaxOAuthSessions    \* maxOAuthSessions

ASSUME MaxIdsAssumption == MaxIds \in Nat
ASSUME LimitAssumption == MaxOAuthSessions \in Nat \ {0}

Ids == 1 .. MaxIds
NoLogin == 0

VARIABLES
    drawn,    \* ids NewLogin has drawn
    byID,     \* the table: ids of the sessions in it
    expired,  \* ids whose link was given out oauthSessionTTL ago
    login,    \* login[w]: the session adminOAuthComplete has taken
    code,     \* code[w]: the code of the address that was returned to it
    used,     \* upstream: codes it has accepted
    sent,     \* history: exchanges sent of each code
    given,    \* history: ids whose link this process has given to a page
    named     \* history: ids a completion has named

loginVars == <<drawn, byID, expired, login, code, used, sent, given, named>>
allVars == <<vars, loginVars>>

Free(w) == wk[w].pc = "idle" /\ login[w] = NoLogin

-----------------------------------------------------------------------------
(* adminOAuthStart *)

\* put clears the expired sessions, whether or not there is room then.
Kept == byID \ expired

\* NewLogin, and put if the table has room.
Start ==
    /\ drawn < MaxIds
    /\ drawn' = drawn + 1
    /\ IF Cardinality(Kept) >= MaxOAuthSessions
       THEN byID' = Kept /\ UNCHANGED given
       ELSE byID' = Kept \cup {drawn'} /\ given' = given \cup {drawn'}
    /\ UNCHANGED <<vars, expired, login, code, used, sent, named>>

\* The links that a page has been given by this process, at most
\* oauthSessionTTL ago, and that no completion has named.
OpenLinks == given \ (named \cup expired)

\* Sessions live equally long: they expire in the order they were put.
\* That one expires after it was taken makes no difference.
Expire(i) ==
    /\ i \in OpenLinks
    /\ \A j \in OpenLinks : j >= i
    /\ expired' = expired \cup {i}
    /\ UNCHANGED <<vars, drawn, byID, login, code, used, sent, given, named>>

-----------------------------------------------------------------------------
(* adminOAuthComplete *)

\* Mutant: the session stays in the table until the login is complete.
LeftIn(i) == byID

Taken(i) == byID \ {i}

\* Mutant: the state of the address is not compared with the session's.
AnyState(i, state) == i \notin expired

Admitted(i, state) == i \notin expired /\ state = i

\* The request names session i and returns the address of session state: it
\* takes the session, and gives up if that has expired or is not its own.
Take(w, i, state) ==
    /\ Free(w)
    /\ i \in byID /\ state \in 1 .. drawn
    /\ byID' = Taken(i)
    /\ named' = named \cup {i}
    /\ IF Admitted(i, state)
       THEN /\ login' = [login EXCEPT ![w] = i]
            /\ code' = [code EXCEPT ![w] = state]
       ELSE UNCHANGED <<login, code>>
    /\ UNCHANGED <<vars, drawn, expired, used, sent, given>>

Sending(w) ==
    /\ login[w] # NoLogin
    /\ sent' = [sent EXCEPT ![code[w]] = @ + 1]
    /\ login' = [login EXCEPT ![w] = NoLogin]
    /\ code' = [code EXCEPT ![w] = NoLogin]
    /\ UNCHANGED <<drawn, byID, expired, given, named>>

\* Upstream takes each code once.  The exchange does not depend on the page:
\* WithoutCancel lets it finish when the browser has gone.
ExchangeAccepted(w) ==
    /\ Sending(w)
    /\ code[w] \notin used
    /\ used' = used \cup {code[w]}
    /\ Login(w)

\* Upstream refuses the code, or its answer is lost or of no use.
ExchangeFails(w) ==
    /\ Sending(w)
    /\ used' \in {used, used \cup {code[w]}}
    /\ UNCHANGED vars

-----------------------------------------------------------------------------
(* The credential beside it *)

\* Refreshes, the save and the Add of a login, the administrator, the server.
\* An error of the save is answered to the page, and the credential is gone.
CredentialStep ==
    /\ \/ \E w \in Workers : login[w] = NoLogin /\ (OwnStep(w) \/ SaveFails(w))
       \/ Enable
       \/ \E s \in Sessions : EndSession(s)
    /\ UNCHANGED loginVars

\* The table is lost with the process.
WebRestart ==
    /\ Restart
    /\ byID' = {} /\ given' = {}
    /\ login' = [w \in Workers |-> NoLogin]
    /\ code' = [w \in Workers |-> NoLogin]
    /\ UNCHANGED <<drawn, expired, used, sent, named>>

WebInit ==
    /\ Init
    /\ drawn = 0 /\ byID = {} /\ expired = {} /\ used = {}
    /\ given = {} /\ named = {}
    /\ login = [w \in Workers |-> NoLogin]
    /\ code = [w \in Workers |-> NoLogin]
    /\ sent = [i \in Ids |-> 0]

WebNext ==
    \/ Start
    \/ \E i \in Ids : Expire(i)
    \/ \E w \in Workers :
          \/ \E i, state \in Ids : Take(w, i, state)
          \/ ExchangeAccepted(w) \/ ExchangeFails(w)
    \/ CredentialStep
    \/ WebRestart

WebSpec == WebInit /\ [][WebNext]_allVars

-----------------------------------------------------------------------------
(* Properties *)

\* A session is consumed once, and with its own code: whatever requests
\* complete it at the same time, and whichever addresses are returned to which
\* sessions, no code is sent twice and none for another session.
OneShotSpec ==
    INSTANCE OneShot WITH
        status <- [i \in Ids |->
                      IF i > drawn THEN "new"
                      ELSE IF \E w \in Workers : login[w] = i THEN "claimed"
                      ELSE IF i \in byID THEN "open" ELSE "closed"]

ConsumedOnce == OneShotSpec!Spec

\* A login is refused for too many sessions only if that many links wait for
\* their page: neither links that have expired, nor logins under way, nor
\* those that failed or were given up keep the table full.
RefusedOnlyByLive ==
    [][Start /\ given' = given =>
          Cardinality(OpenLinks) >= MaxOAuthSessions]_allVars
=============================================================================
