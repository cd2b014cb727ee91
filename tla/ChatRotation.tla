---------------------------- MODULE ChatRotation ----------------------------
(***************************************************************************)
(* Chat requests rotating over the pool (internal/server/handler.go),      *)
(* together with everything else that works on the pool or on the shared   *)
(* upstream client while they run: balance refreshes (scheduler and admin  *)
(* page), token keepalive, the admin's account actions, a login, a restart.*)
(*                                                                         *)
(* A request is a goroutine; a step of it ends where another goroutine can *)
(* be observed: at an upstream reply, at a write or a read of the client's *)
(* unsynchronised LastBody, and at a call of a pool method.  The upstream  *)
(* is external: it may answer anything, or nothing (a transport error).    *)
(***************************************************************************)
EXTENDS Pool, FiniteSets

CONSTANTS
    Requests,      \* chat handlers in flight
    Balancers,     \* goroutines in RunCreditRefreshNow / adminAccountsRefresh
    Keepers,       \* goroutines in RunKeepaliveNow
    AdminActions,  \* subset of {"enable", "disable", "cooldown", "login"}
    Restarts,      \* may the process be restarted?
    Replies,       \* the error replies of the upstream: records status, body
    MaxRotate,     \* Config.MaxRotate
    HardCooldown, SoftCooldown, ErrCooldown, ManualCooldown,  \* durations
    Stats,         \* Config.Stats is configured
    MaxFrames      \* bound on the usage frames of one streamed answer

\* What a body is to Classify: does it hold a marker of hardMarkers, else one
\* of sessionDeadMarkers?
Plain == "plain"
HardBody == "insufficient credit"
DeadBody == "40100"
Bodies == {Plain, HardBody, DeadBody}

HardReason == "insufficient balance"
SoftReason == "429 rate limit"
NotFoundReason == "upstream 404"
DeadReason == "session dead"
RefreshDeadReason == "refresh session dead"
RefreshReason == "refresh failed"
ManualDisable == "manually disabled"
ManualCool == "manually cooled"

Kinds == {"none", "hard_credit", "soft_rate", "session_dead", "not_found",
          "server", "client"}

Nobody == "nobody"

ASSUME ChatReasonsAssumption ==
    /\ {HardReason, SoftReason, NotFoundReason, DeadReason, RefreshDeadReason,
        RefreshReason, ManualDisable, ManualCool} \subseteq Reasons
    /\ ErrReason \in Reasons
ASSUME ChatDurationsAssumption ==
    {HardCooldown, SoftCooldown, ErrCooldown, ManualCooldown} \subseteq Durations
ASSUME ChatConstantsAssumption ==
    /\ MaxRotate \in Nat \ {0} /\ MaxFrames \in Nat \ {0}
    /\ Stats \in BOOLEAN /\ Restarts \in BOOLEAN
    /\ Replies \subseteq [status : 400 .. 599, body : Bodies]
    /\ Nobody \notin Accounts \cup Requests \cup Balancers \cup Keepers

VARIABLES
    req,        \* the local variables of each chat handler
    bg,         \* those of each background goroutine
    lastBody,   \* upstream.Client.LastBody
    lastWriter  \* who assigned it last: the others race with that assignment

chatVars == <<req, bg, lastBody, lastWriter>>
vars == <<poolVars, chatVars>>

-----------------------------------------------------------------------------
(* Classify, in the order of its tests *)

\* Mutant: the body markers are tested before the status 402.
ClassifyBodyFirst(status, body) ==
    IF body = DeadBody THEN "session_dead"
    ELSE IF status = 402 \/ body = HardBody THEN "hard_credit"
    ELSE IF status = 429 THEN "soft_rate"
    ELSE IF status = 404 THEN "not_found"
    ELSE IF status >= 500 THEN "server"
    ELSE IF status >= 400 THEN "client"
    ELSE "none"

Classify(status, body) ==
    IF status = 402 \/ body = HardBody THEN "hard_credit"
    ELSE IF body = DeadBody THEN "session_dead"
    ELSE IF status = 429 THEN "soft_rate"
    ELSE IF status = 404 THEN "not_found"
    ELSE IF status >= 500 THEN "server"
    ELSE IF status >= 400 THEN "client"
    ELSE "none"

-----------------------------------------------------------------------------
(* Local state *)

Request == [pc : {"idle", "pick", "refresh", "refreshFailed", "chat",
                  "classify", "penalise", "body", "answered"},
            acct : Accounts \cup {Nobody},
            a : {Placeholder, Credential},   \* the *auth.Auth in hand
            tried : SUBSET Accounts,
            i : 0 .. MaxRotate,
            status : 0 .. 599, body : Bodies, kind : Kinds,
            counted : Nat, recorded : Nat,   \* calls of AddFailure, RecordTokens
            refused : Nat,                   \* history, with Stats: failed refreshes
            answer : {"none", "ok", "bad_gateway", "no_healthy_account"}]

IdleRequest == [pc |-> "idle", acct |-> Nobody, a |-> Credential, tried |-> {},
                i |-> 0, status |-> 0, body |-> Plain, kind |-> "none",
                counted |-> 0, recorded |-> 0, refused |-> 0,
                answer |-> "none"]

\* A background loop works off the accounts its List call showed enabled.
Background == [pc : {"idle", "loop", "apply"},
               todo : SUBSET Accounts, acct : Accounts \cup {Nobody},
               remain : Credits]

IdleBackground == [pc |-> "idle", todo |-> {}, acct |-> Nobody, remain |-> 0]

Goto(r, pc) == req' = [req EXCEPT ![r] = [req[r] EXCEPT !.pc = pc]]

\* continue: the next rotation, with what the attempt left in locals cleared.
Rotated(q, n) ==
    [q EXCEPT !.pc = "pick", !.acct = Nobody, !.a = Credential, !.status = 0,
              !.body = Plain, !.kind = "none", !.counted = @ + n]

NextRotation(r, n) == req' = [req EXCEPT ![r] = Rotated(req[r], n)]

\* Writing the answer ends the handler; what it tried and counted stays for
\* the properties until the client sends the next request.
Answered(q, answer, n) ==
    [IdleRequest EXCEPT !.pc = "answered", !.answer = answer, !.i = q.i,
                        !.tried = q.tried, !.counted = q.counted,
                        !.recorded = n, !.refused = q.refused]

Answer(r, answer, n) == req' = [req EXCEPT ![r] = Answered(req[r], answer, n)]

\* One call of the stats recorder, if there is one.
Count == IF Stats THEN 1 ELSE 0

WriteBody(who, body) == lastBody' = body /\ lastWriter' = who

\* A read of LastBody by a goroutine that was not its last writer races with
\* that write: it may see the new slice, its own, or a mix of the two headers,
\* which cuts a body short of its marker.
ReadableBodies(r) ==
    IF lastWriter = r THEN {req[r].body} ELSE {lastBody, req[r].body, Plain}

-----------------------------------------------------------------------------
(* chatCompletions *)

Arrive(r) ==
    /\ req[r].pc \in {"idle", "answered"}
    /\ req' = [req EXCEPT ![r] = [IdleRequest EXCEPT !.pc = "pick"]]
    /\ UNCHANGED <<poolVars, bg, lastBody, lastWriter>>

\* Mutant: the account is not entered in tried.
PickedUntried(q, u, needsRefresh) ==
    [q EXCEPT !.pc = IF needsRefresh THEN "refresh" ELSE "chat",
              !.acct = u, !.a = byUID[u].a, !.i = @ + 1]

\* Mutant: neither tried nor the loop counter moves on.
PickedForever(q, u, needsRefresh) ==
    [q EXCEPT !.pc = IF needsRefresh THEN "refresh" ELSE "chat",
              !.acct = u, !.a = byUID[u].a]

Picked(q, u, needsRefresh) ==
    [q EXCEPT !.pc = IF needsRefresh THEN "refresh" ELSE "chat",
              !.acct = u, !.a = byUID[u].a, !.tried = @ \cup {u}, !.i = @ + 1]

\* A placeholder has no expiry: NeedsRefresh.  A credential may be near its.
Pick(r) ==
    /\ req[r].pc = "pick"
    /\ req[r].i < MaxRotate
    /\ \E u \in PickExcluding(req[r].tried), needsRefresh \in BOOLEAN :
        /\ byUID[u].a = Placeholder => needsRefresh
        /\ req' = [req EXCEPT ![r] = Picked(req[r], u, needsRefresh)]
    /\ UNCHANGED <<poolVars, bg, lastBody, lastWriter>>

Exhausted(r) ==
    /\ req[r].pc = "pick"
    /\ req[r].i = MaxRotate \/ PickExcluding(req[r].tried) = {}
    /\ Answer(r, "no_healthy_account", 0)
    /\ UNCHANGED <<poolVars, bg, lastBody, lastWriter>>

RefreshRefused(q, kind) ==
    [q EXCEPT !.pc = "refreshFailed", !.kind = kind, !.refused = @ + Count]

\* doJSON on HTTP 200 with a non-zero code: only the message is classified.
CodedKind(msg) == IF msg = Plain THEN "client" ELSE Classify(200, msg)

\* RefreshToken through doJSON: without a refresh token it fails at once; a
\* transport error leaves LastBody alone; any reply overwrites it, a refusal
\* by status, by code or one that does not parse.
RefreshFails(r) ==
    /\ req[r].pc = "refresh"
    /\ \/ /\ req' = [req EXCEPT ![r] = RefreshRefused(req[r], "client")]
          /\ UNCHANGED <<lastBody, lastWriter>>
       \/ /\ req[r].a = Credential
          /\ \E reply \in Replies :
              /\ WriteBody(r, reply.body)
              /\ req' = [req EXCEPT ![r] = RefreshRefused(req[r],
                                        Classify(reply.status, reply.body))]
       \/ /\ req[r].a = Credential
          /\ \E body \in Bodies, msg \in Bodies :
              /\ msg \in {Plain, body}
              /\ WriteBody(r, body)
              /\ req' = [req EXCEPT ![r] =
                             RefreshRefused(req[r], CodedKind(msg))]
    /\ UNCHANGED <<poolVars, bg>>

RefreshSucceeds(r) ==
    /\ req[r].pc = "refresh"
    /\ req[r].a = Credential
    /\ WriteBody(r, Plain)
    /\ Goto(r, "chat")
    /\ UNCHANGED <<poolVars, bg>>

PenaliseRefresh(r) ==
    /\ req[r].pc = "refreshFailed"
    /\ IF req[r].kind = "session_dead"
       THEN Disable(req[r].acct, RefreshDeadReason)
       ELSE Cooldown(req[r].acct, ErrCooldown, RefreshReason)
    /\ NextRotation(r, 0)
    /\ UNCHANGED <<bg, lastBody, lastWriter>>

ChatTransportError(r) ==
    /\ req[r].pc = "chat"
    /\ NoteError(req[r].acct, ErrCooldown)
    /\ NextRotation(r, Count)
    /\ UNCHANGED <<bg, lastBody, lastWriter>>

ChatRejected(r) ==
    /\ req[r].pc = "chat"
    /\ \E reply \in Replies :
        /\ WriteBody(r, reply.body)
        /\ req' = [req EXCEPT ![r] = [req[r] EXCEPT
                !.pc = "classify", !.body = reply.body, !.status = reply.status]]
    /\ UNCHANGED <<poolVars, bg>>

Classified(q, kind) ==
    [q EXCEPT !.pc = "penalise", !.kind = kind, !.counted = @ + Count]

\* The handler classifies LastBody, not the body of its own reply.
ClassifyReply(r) ==
    /\ req[r].pc = "classify"
    /\ \E body \in ReadableBodies(r) :
          req' = [req EXCEPT ![r] =
                     Classified(req[r], Classify(req[r].status, body))]
    /\ UNCHANGED <<poolVars, bg, lastBody, lastWriter>>

\* Mutant: other client errors rotate without a trace.
PenaltyNotForClient(u, kind) ==
    CASE kind = "hard_credit"  -> Cooldown(u, HardCooldown, HardReason)
      [] kind = "soft_rate"    -> Cooldown(u, SoftCooldown, SoftReason)
      [] kind = "session_dead" -> Disable(u, DeadReason)
      [] kind = "not_found"    -> Cooldown(u, SoftCooldown, NotFoundReason)
      [] kind = "server"       -> NoteError(u, ErrCooldown)
      [] OTHER                 -> UNCHANGED poolVars

Penalty(u, kind) ==
    CASE kind = "hard_credit"  -> Cooldown(u, HardCooldown, HardReason)
      [] kind = "soft_rate"    -> Cooldown(u, SoftCooldown, SoftReason)
      [] kind = "session_dead" -> Disable(u, DeadReason)
      [] kind = "not_found"    -> Cooldown(u, SoftCooldown, NotFoundReason)
      [] OTHER                 -> NoteError(u, ErrCooldown)

\* Mutant: the penalised failure is counted once more.
PenaliseCounting(r) ==
    /\ req[r].pc = "penalise"
    /\ Penalty(req[r].acct, req[r].kind)
    /\ NextRotation(r, Count)
    /\ UNCHANGED <<bg, lastBody, lastWriter>>

Penalise(r) ==
    /\ req[r].pc = "penalise"
    /\ Penalty(req[r].acct, req[r].kind)
    /\ NextRotation(r, 0)
    /\ UNCHANGED <<bg, lastBody, lastWriter>>

\* Success is noted at the response headers, before the body is read.
ChatAccepted(r) ==
    /\ req[r].pc = "chat"
    /\ NoteSuccess(req[r].acct)
    /\ Goto(r, "body")
    /\ UNCHANGED <<bg, lastBody, lastWriter>>

\* A streamed answer is counted once per usage frame the tap sees (so not at
\* all without one), whether or not the stream then breaks off; an aggregated
\* one is counted once if it could be parsed.
FinishBody(r) ==
    /\ req[r].pc = "body"
    /\ \/ \E answer \in {"ok", "bad_gateway"}, frames \in 0 .. MaxFrames :
             Answer(r, answer, frames * Count)
       \/ Answer(r, "ok", Count)
       \/ Answer(r, "bad_gateway", 0)
    /\ UNCHANGED <<poolVars, bg, lastBody, lastWriter>>

RequestStep(r) ==
    \/ Pick(r) \/ Exhausted(r)
    \/ RefreshFails(r) \/ RefreshSucceeds(r) \/ PenaliseRefresh(r)
    \/ ChatTransportError(r) \/ ChatRejected(r) \/ ClassifyReply(r)
    \/ Penalise(r) \/ ChatAccepted(r) \/ FinishBody(r)

-----------------------------------------------------------------------------
(* Background work *)

EnabledAccounts == {u \in DOMAIN byUID : ~byUID[u].disabled}

\* RunCreditRefreshNow, RunKeepaliveNow: List, and a loop over what it showed.
StartLoop(b) ==
    /\ bg[b].pc = "idle"
    /\ EnabledAccounts # {}
    /\ bg' = [bg EXCEPT ![b] = [IdleBackground EXCEPT
                                    !.pc = "loop", !.todo = EnabledAccounts]]
    /\ UNCHANGED <<poolVars, req, lastBody, lastWriter>>

EndLoop(b) ==
    /\ bg[b].pc = "loop"
    /\ bg[b].todo = {}
    /\ bg' = [bg EXCEPT ![b] = IdleBackground]
    /\ UNCHANGED <<poolVars, req, lastBody, lastWriter>>

Skipped(g, u) == [g EXCEPT !.todo = @ \ {u}]

Applied(g) == [g EXCEPT !.pc = "loop", !.acct = Nobody, !.remain = 0]

\* The account is skipped (no token to use) or the call fails; a reply that
\* says so still overwrites LastBody, with whatever it holds.
SkipAccount(b) ==
    /\ bg[b].pc = "loop"
    /\ \E u \in bg[b].todo :
        /\ bg' = [bg EXCEPT ![b] = Skipped(bg[b], u)]
        /\ \/ UNCHANGED <<lastBody, lastWriter>>
           \/ /\ byUID[u].a = Credential
              /\ \E body \in Bodies : WriteBody(b, body)
    /\ UNCHANGED <<poolVars, req>>

\* QuotaUsage answers; the balance is applied in a later step.
BalanceReply(b) ==
    /\ bg[b].pc = "loop"
    /\ \E u \in bg[b].todo, remain \in Credits :
        /\ byUID[u].a = Credential
        /\ bg' = [bg EXCEPT ![b] = [pc |-> "apply", todo |-> bg[b].todo \ {u},
                                   acct |-> u, remain |-> remain]]
    /\ WriteBody(b, Plain)
    /\ UNCHANGED <<poolVars, req>>

BalanceApply(b) ==
    /\ bg[b].pc = "apply"
    /\ ReenableIfCredits(bg[b].acct, bg[b].remain)
    /\ bg' = [bg EXCEPT ![b] = Applied(bg[b])]
    /\ UNCHANGED <<req, lastBody, lastWriter>>

\* Keepalive: the refresh is accepted, or rejected for good.
KeepaliveOk(k) ==
    /\ bg[k].pc = "loop"
    /\ \E u \in bg[k].todo :
        /\ byUID[u].a = Credential
        /\ bg' = [bg EXCEPT ![k] = Skipped(bg[k], u)]
    /\ WriteBody(k, Plain)
    /\ UNCHANGED <<poolVars, req>>

\* Only a reply with one of its markers is classified as a dead session.
KeepaliveDead(k) ==
    /\ bg[k].pc = "loop"
    /\ \E u \in bg[k].todo :
        /\ byUID[u].a = Credential
        /\ bg' = [bg EXCEPT ![k] = [pc |-> "apply", todo |-> bg[k].todo \ {u},
                                   acct |-> u, remain |-> 0]]
    /\ WriteBody(k, DeadBody)
    /\ UNCHANGED <<poolVars, req>>

\* Mutant: the keepalive flags the account itself, past the pool's save.
KeepaliveFlags(k) ==
    /\ bg[k].pc = "apply"
    /\ Update(bg[k].acct, [byUID[bg[k].acct] EXCEPT
                              !.disabled = TRUE, !.reason = RefreshDeadReason])
    /\ bg' = [bg EXCEPT ![k] = Applied(bg[k])]
    /\ UNCHANGED <<file, now, durable, req, lastBody, lastWriter>>

KeepaliveDisable(k) ==
    /\ bg[k].pc = "apply"
    /\ Disable(bg[k].acct, RefreshDeadReason)
    /\ bg' = [bg EXCEPT ![k] = Applied(bg[k])]
    /\ UNCHANGED <<req, lastBody, lastWriter>>

BackgroundStep ==
    \/ \E b \in Balancers \cup Keepers :
          StartLoop(b) \/ SkipAccount(b) \/ EndLoop(b)
    \/ \E b \in Balancers : BalanceReply(b) \/ BalanceApply(b)
    \/ \E k \in Keepers : KeepaliveOk(k) \/ KeepaliveDead(k) \/ KeepaliveDisable(k)

-----------------------------------------------------------------------------
(* The administrator, the clock and restarts *)

\* adminAccountsManage calls one pool method per listed account, and
\* adminOAuthComplete adds an account: to the rest, single calls.
AdminStep(u) ==
    /\ \/ /\ u \in DOMAIN byUID
          /\ \/ "enable" \in AdminActions /\ Enable(u)
             \/ "disable" \in AdminActions /\ Disable(u, ManualDisable)
             \/ /\ "cooldown" \in AdminActions
                /\ ForceCooldown(u, ManualCool, ManualCooldown)
       \/ "login" \in AdminActions /\ Add(u)
    /\ UNCHANGED chatVars

Time == Tick /\ UNCHANGED chatVars

RestartServer ==
    /\ Restarts
    /\ \E auths \in SUBSET Accounts, readable \in BOOLEAN :
          Restart(auths, readable)
    /\ req' = [r \in Requests |-> IdleRequest]
    /\ bg' = [b \in Balancers \cup Keepers |-> IdleBackground]
    /\ WriteBody(Nobody, Plain)

Init ==
    /\ PoolInit
    /\ req = [r \in Requests |-> IdleRequest]
    /\ bg = [b \in Balancers \cup Keepers |-> IdleBackground]
    /\ lastBody = Plain
    /\ lastWriter = Nobody

Next ==
    \/ \E r \in Requests : Arrive(r) \/ RequestStep(r)
    \/ BackgroundStep
    \/ \E u \in Accounts : AdminStep(u)
    \/ Time
    \/ RestartServer

\* Every upstream call returns: the HTTP client has a timeout; no pool method
\* blocks.  Nothing makes a client send a request, time pass or an admin act.
Fairness == \A r \in Requests : WF_vars(RequestStep(r))

Spec == Init /\ [][Next]_vars /\ Fairness

-----------------------------------------------------------------------------
(* Properties *)

\* Types of the handlers' and background loops' locals.
ChatTypeOK ==
    /\ TypeOK
    /\ req \in [Requests -> Request]
    /\ bg \in [Balancers \cup Keepers -> Background]
    /\ lastBody \in Bodies
    /\ lastWriter \in Requests \cup Balancers \cup Keepers \cup {Nobody}

\* A request spends at most MaxRotate attempts, never two on the same account,
\* whatever happens to the account meanwhile: re-enabled, restarted, logged in
\* again (README: at most 3 account switches per request).
RotationBounded ==
    \A r \in Requests : /\ Cardinality(req[r].tried) = req[r].i
                        /\ req[r].i <= MaxRotate

\* An account in use that fails leaves rotation or gets an error counted: the
\* step that gives up an account for the next one never leaves it as it was,
\* unless the pool lost it or it was disabled already.
FailureIsPenalised ==
    [][\A r \in Requests :
          LET u == req[r].acct
          IN  req[r].pc # "pick" /\ req'[r].pc = "pick" /\ u \in DOMAIN byUID =>
                 \/ ~Healthy(byUID'[u], now)
                 \/ byUID'[u].errCount = byUID[u].errCount + 1]_vars

\* Every request is answered (or cut off by a restart).
EveryRequestAnswered ==
    \A r \in Requests : req[r].pc = "pick" ~> req[r].pc \in {"answered", "idle"}

\* The penalty follows from the reply to this request's own call, as the
\* comment on ChatStream says: the body is in LastBody, for the caller to
\* classify with the status.
OwnReplyDecides ==
    \A r \in Requests : req[r].pc = "penalise" =>
        req[r].kind = Classify(req[r].status, req[r].body)

\* What the LastBody race cannot spoil: a 402 always costs the hard cooldown.
PaymentRequiredIsHard ==
    \A r \in Requests : req[r].pc = "penalise" /\ req[r].status = 402 =>
        req[r].kind = "hard_credit"

\* The chat that answers a request, be it with a stream that broke off.
Served(q) == IF q.answer \in {"ok", "bad_gateway"} THEN 1 ELSE 0

\* Whenever a request goes on to another account or is answered, the failures
\* counted for it are exactly its chats that failed, once each: its attempts
\* but those whose refresh failed and the one that answered.  Tokens are
\* recorded for the one that answered only, and never as a failure too.
AttemptCountedOnce ==
    \A r \in Requests :
        LET q == req[r]
        IN  q.pc \in {"pick", "answered"} =>
                /\ q.counted = IF Stats THEN q.i - q.refused - Served(q) ELSE 0
                /\ q.recorded > 0 => Served(q) = 1

=============================================================================
