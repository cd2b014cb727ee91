----------------------------- MODULE ChatProofs -----------------------------
(***************************************************************************)
(* ChatRotation implements Pool: whatever chat requests, background loops, *)
(* the administrator and restarts do, the pool only takes steps of its own *)
(* methods, so that everything proved in PoolProofs holds of the           *)
(* composition.  The invariant needed for it, LocalsOK, types the          *)
(* goroutines' locals and says that a goroutine that is about to call the  *)
(* pool has an account in hand.                                            *)
(***************************************************************************)
EXTENDS ChatRotation, PoolProofs, FiniteSetTheorems

InUse == {"refresh", "refreshFailed", "chat", "classify", "penalise", "body"}

RequestOK(e) == e \in Request /\ (e.pc \in InUse => e.acct \in Accounts)

BackgroundOK(e) == e \in Background /\ (e.pc = "apply" => e.acct \in Accounts)

Goroutines == Requests \cup Balancers \cup Keepers \cup {Nobody}

LocalsOK ==
    /\ req \in [Requests -> Request]
    /\ \A r \in Requests : RequestOK(req[r])
    /\ bg \in [Balancers \cup Keepers -> Background]
    /\ \A b \in Balancers \cup Keepers : BackgroundOK(bg[b])
    /\ lastBody \in Bodies
    /\ lastWriter \in Goroutines

-----------------------------------------------------------------------------
(* Facts about the values the steps build *)

LEMMA ClassifyKind ==
  ASSUME NEW status, NEW body PROVE Classify(status, body) \in Kinds
  BY DEF Classify, Kinds

LEMMA ReplyTypes ==
  ASSUME NEW reply \in Replies
  PROVE  reply.status \in 0 .. 599 /\ reply.body \in Bodies
  BY ChatConstantsAssumption

LEMMA IdleRequestOK == RequestOK(IdleRequest) /\ IdleRequest \in Request
<1>1. 0 \in 0 .. MaxRotate /\ 0 \in 0 .. 599 /\ 0 \in Nat
  BY ChatConstantsAssumption
<1>2. QED
  BY <1>1 DEF IdleRequest, RequestOK, Request, InUse, Bodies, Kinds

LEMMA IdleBackgroundOK == BackgroundOK(IdleBackground)
  BY CreditsAssumption DEF IdleBackground, BackgroundOK, Background

\* Replacing one request's locals by well-formed ones.
LEMMA ReqUpdate ==
  ASSUME LocalsOK, NEW r \in Requests, NEW e, RequestOK(e),
         req' = [req EXCEPT ![r] = e], bg' = bg,
         lastBody' \in Bodies, lastWriter' \in Goroutines
  PROVE  LocalsOK'
<1>1. req' \in [Requests -> Request]
  BY DEF LocalsOK, RequestOK
<1>2. \A q \in Requests : req'[q] = IF q = r THEN e ELSE req[q]
  BY DEF LocalsOK
<1>3. \A q \in Requests : RequestOK(req'[q])
  BY <1>2 DEF LocalsOK
<1>4. QED
  BY <1>1, <1>3 DEF LocalsOK, RequestOK, BackgroundOK

LEMMA BgUpdate ==
  ASSUME LocalsOK, NEW b \in Balancers \cup Keepers, NEW e, BackgroundOK(e),
         bg' = [bg EXCEPT ![b] = e], req' = req,
         lastBody' \in Bodies, lastWriter' \in Goroutines
  PROVE  LocalsOK'
<1>1. bg' \in [Balancers \cup Keepers -> Background]
  BY DEF LocalsOK, BackgroundOK
<1>2. \A c \in Balancers \cup Keepers : bg'[c] = IF c = b THEN e ELSE bg[c]
  BY DEF LocalsOK
<1>3. \A c \in Balancers \cup Keepers : BackgroundOK(bg'[c])
  BY <1>2 DEF LocalsOK
<1>4. QED
  BY <1>1, <1>3 DEF LocalsOK, RequestOK, BackgroundOK

LEMMA NextRotationOK ==
  ASSUME LocalsOK, NEW r \in Requests, NEW n \in Nat, NextRotation(r, n),
         bg' = bg, lastBody' = lastBody, lastWriter' = lastWriter
  PROVE  LocalsOK'
<1> DEFINE e == Rotated(req[r], n)
<1>1. req[r] \in Request
  BY DEF LocalsOK
<1>2. 0 \in 0 .. 599 /\ req[r].counted + n \in Nat
  BY <1>1 DEF Request
<1>3. e \in Request
  BY <1>1, <1>2 DEF Request, Bodies, Kinds, Rotated
<1>4. e.pc = "pick"
  BY <1>1 DEF Request, Rotated
<1>5. RequestOK(e)
  BY <1>3, <1>4 DEF RequestOK, InUse
<1>6. req' = [req EXCEPT ![r] = e]
  BY DEF NextRotation
<1>7. lastBody' \in Bodies /\ lastWriter' \in Goroutines
  BY DEF LocalsOK
<1> HIDE DEF e
<1>8. QED
  BY <1>5, <1>6, <1>7, ReqUpdate

LEMMA AnswerOK ==
  ASSUME LocalsOK, NEW r \in Requests, NEW n \in Nat,
         NEW answer \in {"ok", "bad_gateway", "no_healthy_account"},
         Answer(r, answer, n),
         bg' = bg, lastBody' = lastBody, lastWriter' = lastWriter
  PROVE  LocalsOK'
<1> DEFINE e == Answered(req[r], answer, n)
<1>1. req[r] \in Request
  BY DEF LocalsOK
<1>2. /\ req[r].counted \in Nat /\ req[r].refused \in Nat
      /\ req[r].tried \in SUBSET Accounts /\ req[r].i \in 0 .. MaxRotate
  BY <1>1 DEF Request
<1>3. e \in Request
  BY <1>2, IdleRequestOK DEF Request, Answered
<1>4. e.pc = "answered"
  BY IdleRequestOK DEF Request, Answered
<1>5. RequestOK(e)
  BY <1>3, <1>4 DEF RequestOK, InUse
<1>6. req' = [req EXCEPT ![r] = e]
  BY DEF Answer
<1>7. lastBody' \in Bodies /\ lastWriter' \in Goroutines
  BY DEF LocalsOK
<1> HIDE DEF e
<1>8. QED
  BY <1>5, <1>6, <1>7, ReqUpdate

-----------------------------------------------------------------------------
(* Every step of the composition keeps LocalsOK and, on the pool's          *)
(* variables, is a step of Pool or leaves them alone.                       *)

PoolStep == PoolNext \/ UNCHANGED poolVars

LEMMA PoolCallStep ==
  ASSUME NEW u \in Accounts, PoolCall(u)
  PROVE  PoolStep
  BY DEF PoolStep, PoolNext

LEMMA CooldownStep ==
  ASSUME NEW u \in Accounts, NEW d \in Durations, NEW r \in Reasons,
         Cooldown(u, d, r)
  PROVE  PoolStep
  BY PoolCallStep DEF PoolCall

LEMMA DisableStep ==
  ASSUME NEW u \in Accounts, NEW r \in Reasons, Disable(u, r)
  PROVE  PoolStep
  BY PoolCallStep DEF PoolCall

LEMMA NoteErrorStep ==
  ASSUME NEW u \in Accounts, NEW d \in Durations, NoteError(u, d)
  PROVE  PoolStep
  BY PoolCallStep DEF PoolCall

LEMMA CountNat == Count \in Nat
  BY DEF Count

LEMMA ArriveOK ==
  ASSUME LocalsOK, NEW r \in Requests, Arrive(r)
  PROVE  LocalsOK' /\ PoolStep
<1> DEFINE e == [IdleRequest EXCEPT !.pc = "pick"]
<1>1. e \in Request /\ e.pc = "pick"
  BY IdleRequestOK DEF Request
<1>2. RequestOK(e)
  BY <1>1 DEF RequestOK, InUse
<1>3. /\ req' = [req EXCEPT ![r] = e] /\ bg' = bg
      /\ lastBody' \in Bodies /\ lastWriter' \in Goroutines
      /\ UNCHANGED poolVars
  BY DEF Arrive, LocalsOK
<1> HIDE DEF e
<1>4. QED
  BY <1>2, <1>3, ReqUpdate DEF PoolStep

\* The locals after a pick, from the new values: arithmetic and EXCEPT apart.
With(q, pc, u, a, tried, i) ==
  [q EXCEPT !.pc = pc, !.acct = u, !.a = a, !.tried = tried, !.i = i]

LEMMA WithType ==
  ASSUME NEW q \in Request, NEW pc \in {"refresh", "chat"},
         NEW u \in Accounts, NEW a \in {Placeholder, Credential},
         NEW tried \in SUBSET Accounts, NEW i \in 0 .. MaxRotate
  PROVE  With(q, pc, u, a, tried, i) \in Request
         /\ With(q, pc, u, a, tried, i).acct = u
<1> DEFINE e == With(q, pc, u, a, tried, i)
<1>1. e = [q EXCEPT !.pc = pc, !.acct = u, !.a = a, !.tried = tried, !.i = i]
  BY DEF With
<1> HIDE DEF e
<1>2. e = [pc |-> pc, acct |-> u, a |-> a, tried |-> tried, i |-> i,
           status |-> q.status, body |-> q.body, kind |-> q.kind,
           counted |-> q.counted, recorded |-> q.recorded,
           refused |-> q.refused, answer |-> q.answer]
  BY <1>1, Zenon DEF Request
<1>3. /\ q.status \in 0 .. 599 /\ q.body \in Bodies /\ q.kind \in Kinds
      /\ q.counted \in Nat /\ q.recorded \in Nat /\ q.refused \in Nat
      /\ q.answer \in {"none", "ok", "bad_gateway", "no_healthy_account"}
  BY Zenon DEF Request
<1>4. [pc |-> pc, acct |-> u, a |-> a, tried |-> tried, i |-> i,
       status |-> q.status, body |-> q.body, kind |-> q.kind,
       counted |-> q.counted, recorded |-> q.recorded,
           refused |-> q.refused, answer |-> q.answer] \in Request
  BY <1>3, Zenon DEF Request
<1>5. e \in Request /\ e.acct = u
  BY <1>2, <1>4
<1>6. QED
  BY <1>5 DEF e

LEMMA PickedType ==
  ASSUME NEW q \in Request, NEW u \in Accounts, NEW b \in BOOLEAN,
         byUID[u].a \in {Placeholder, Credential},
         q.i + 1 \in 0 .. MaxRotate
  PROVE  Picked(q, u, b) \in Request /\ Picked(q, u, b).acct = u
<1> DEFINE pc == IF b THEN "refresh" ELSE "chat"
           a == byUID[u].a
           tried == q.tried \cup {u}
           i == q.i + 1
<1>1. /\ pc \in {"refresh", "chat"} /\ a \in {Placeholder, Credential}
      /\ tried \in SUBSET Accounts /\ i \in 0 .. MaxRotate
  BY DEF Request
<1>2. Picked(q, u, b) = With(q, pc, u, a, tried, i)
  BY DEF Picked, With
<1> HIDE DEF pc, a, tried, i
<1>3. With(q, pc, u, a, tried, i) \in Request
      /\ With(q, pc, u, a, tried, i).acct = u
  BY <1>1, WithType
<1>4. QED
  BY <1>2, <1>3

LEMMA PickOK ==
  ASSUME TypeOK, LocalsOK, NEW r \in Requests, Pick(r)
  PROVE  LocalsOK' /\ PoolStep
<1>1. PICK u \in PickExcluding(req[r].tried), needsRefresh \in BOOLEAN :
        req' = [req EXCEPT ![r] = Picked(req[r], u, needsRefresh)]
  BY DEF Pick
<1>2. u \in DOMAIN byUID /\ u \in Accounts /\ byUID[u] \in Entry
  BY DEF PickExcluding, Eligible, TypeOK
<1>3. byUID[u].a \in {Placeholder, Credential}
  BY <1>2 DEF Entry
<1>4. req[r] \in Request /\ req[r].i < MaxRotate
  BY DEF LocalsOK, Pick
<1>5. req[r].i + 1 \in 0 .. MaxRotate
  BY <1>4, ChatConstantsAssumption DEF Request
<1> DEFINE e == Picked(req[r], u, needsRefresh)
<1>6. e \in Request /\ e.acct = u
  BY <1>2, <1>3, <1>4, <1>5, PickedType
<1>7. RequestOK(e)
  BY <1>2, <1>6 DEF RequestOK
<1>8. /\ bg' = bg /\ lastBody' \in Bodies /\ lastWriter' \in Goroutines
      /\ UNCHANGED poolVars
  BY DEF Pick, LocalsOK
<1> HIDE DEF e
<1>9. req' = [req EXCEPT ![r] = e]
  BY <1>1 DEF e
<1>10. QED
  BY <1>7, <1>8, <1>9, ReqUpdate DEF PoolStep

LEMMA ExhaustedOK ==
  ASSUME LocalsOK, NEW r \in Requests, Exhausted(r)
  PROVE  LocalsOK' /\ PoolStep
<1>1. Answer(r, "no_healthy_account", 0) /\ 0 \in Nat
  BY DEF Exhausted
<1>2. bg' = bg /\ lastBody' = lastBody /\ lastWriter' = lastWriter
      /\ UNCHANGED poolVars
  BY DEF Exhausted
<1>3. QED
  BY <1>1, <1>2, AnswerOK DEF PoolStep

\* Steps that only move a request on: its account stays in hand.
LEMMA LocalStep ==
  ASSUME LocalsOK, NEW r \in Requests, NEW e \in Request,
         e.acct = req[r].acct, req[r].pc \in InUse,
         req' = [req EXCEPT ![r] = e], bg' = bg,
         lastBody' \in Bodies, lastWriter' \in Goroutines
  PROVE  LocalsOK'
<1>1. RequestOK(e)
  BY DEF LocalsOK, RequestOK
<1>2. QED
  BY <1>1, ReqUpdate

LEMMA RefreshFailsOK ==
  ASSUME LocalsOK, NEW r \in Requests, RefreshFails(r)
  PROVE  LocalsOK' /\ PoolStep
<1>1. req[r] \in Request /\ req[r].pc \in InUse /\ bg' = bg
      /\ UNCHANGED poolVars
  BY DEF RefreshFails, LocalsOK, InUse
<1>2. ASSUME NEW kind \in Kinds
      PROVE  /\ RefreshRefused(req[r], kind) \in Request
             /\ RefreshRefused(req[r], kind).acct = req[r].acct
  <2>1. PICK n : n = req[r].refused + Count
    OBVIOUS
  <2>2. n \in Nat
    BY <1>1, <2>1, CountNat DEF Request
  <2>3. RefreshRefused(req[r], kind) =
          [req[r] EXCEPT !.pc = "refreshFailed", !.kind = kind, !.refused = n]
    BY <1>1, <2>1 DEF RefreshRefused, Request
  <2>4. [req[r] EXCEPT !.pc = "refreshFailed", !.kind = kind, !.refused = n]
           \in Request
    BY <1>1, <2>2 DEF Request
  <2>5. RefreshRefused(req[r], kind).acct = req[r].acct
    BY <1>1 DEF RefreshRefused, Request
  <2>6. QED
    BY <2>3, <2>4, <2>5
<1>3. CASE /\ req' = [req EXCEPT ![r] = RefreshRefused(req[r], "client")]
           /\ UNCHANGED <<lastBody, lastWriter>>
  <2>1. "client" \in Kinds /\ lastBody' \in Bodies /\ lastWriter' \in Goroutines
    BY <1>3 DEF Kinds, LocalsOK
  <2>2. QED
    BY <1>1, <1>2, <1>3, <2>1, LocalStep DEF PoolStep
<1>4. ASSUME NEW reply \in Replies, WriteBody(r, reply.body),
             req' = [req EXCEPT ![r] = RefreshRefused(req[r],
                                        Classify(reply.status, reply.body))]
      PROVE  LocalsOK' /\ PoolStep
  <2>1. lastBody' \in Bodies /\ lastWriter' \in Goroutines
    BY <1>4, ReplyTypes DEF WriteBody, Goroutines
  <2>2. QED
    BY <1>1, <1>2, <1>4, <2>1, ClassifyKind, LocalStep DEF PoolStep
<1>5. ASSUME NEW body \in Bodies, NEW msg \in {Plain, body}, WriteBody(r, body),
             req' = [req EXCEPT ![r] = RefreshRefused(req[r], CodedKind(msg))]
      PROVE  LocalsOK' /\ PoolStep
  <2>1. lastBody' \in Bodies /\ lastWriter' \in Goroutines
    BY <1>5 DEF WriteBody, Goroutines
  <2>2. CodedKind(msg) \in Kinds
    BY DEF CodedKind, Classify, Kinds
  <2>3. QED
    BY <1>1, <1>2, <1>5, <2>1, <2>2, LocalStep DEF PoolStep
<1>6. QED
  BY <1>3, <1>4, <1>5 DEF RefreshFails

LEMMA GotoOK ==
  ASSUME LocalsOK, NEW r \in Requests, NEW pc \in InUse, Goto(r, pc),
         req[r].pc \in InUse, bg' = bg,
         lastBody' \in Bodies, lastWriter' \in Goroutines
  PROVE  LocalsOK'
<1> DEFINE e == [req[r] EXCEPT !.pc = pc]
<1>1. req[r] \in Request
  BY DEF LocalsOK
<1>2. e \in Request /\ e.acct = req[r].acct
  BY <1>1 DEF Request, InUse
<1>3. req' = [req EXCEPT ![r] = e]
  BY DEF Goto
<1> HIDE DEF e
<1>4. QED
  BY <1>2, <1>3, LocalStep

LEMMA RefreshSucceedsOK ==
  ASSUME LocalsOK, NEW r \in Requests, RefreshSucceeds(r)
  PROVE  LocalsOK' /\ PoolStep
<1>1. /\ Goto(r, "chat") /\ "chat" \in InUse /\ req[r].pc \in InUse /\ bg' = bg
      /\ UNCHANGED poolVars
  BY DEF RefreshSucceeds, InUse
<1>2. lastBody' \in Bodies /\ lastWriter' \in Goroutines
  BY DEF RefreshSucceeds, WriteBody, Bodies, Goroutines
<1>3. QED
  BY <1>1, <1>2, GotoOK DEF PoolStep

\* What the pool calls of a request have in common.
LEMMA InHand ==
  ASSUME LocalsOK, NEW r \in Requests, req[r].pc \in InUse
  PROVE  req[r].acct \in Accounts
  BY DEF LocalsOK, RequestOK

LEMMA PenaliseRefreshOK ==
  ASSUME LocalsOK, NEW r \in Requests, PenaliseRefresh(r)
  PROVE  LocalsOK' /\ PoolStep
<1>1. req[r].acct \in Accounts
  BY InHand DEF PenaliseRefresh, InUse
<1>2. RefreshDeadReason \in Reasons /\ RefreshReason \in Reasons
      /\ ErrCooldown \in Durations
  BY ChatReasonsAssumption, ChatDurationsAssumption
<1>3. \/ Disable(req[r].acct, RefreshDeadReason)
      \/ Cooldown(req[r].acct, ErrCooldown, RefreshReason)
  BY DEF PenaliseRefresh
<1>4. PoolStep
  BY <1>1, <1>2, <1>3, DisableStep, CooldownStep
<1>5. LocalsOK'
  <2>1. NextRotation(r, 0) /\ 0 \in Nat /\ bg' = bg /\ lastBody' = lastBody
        /\ lastWriter' = lastWriter
    BY DEF PenaliseRefresh
  <2>2. QED
    BY <2>1, NextRotationOK
<1>6. QED
  BY <1>4, <1>5

LEMMA ChatTransportErrorOK ==
  ASSUME LocalsOK, NEW r \in Requests, ChatTransportError(r)
  PROVE  LocalsOK' /\ PoolStep
<1>1. req[r].acct \in Accounts /\ NoteError(req[r].acct, ErrCooldown)
  BY InHand DEF ChatTransportError, InUse
<1>2. ErrCooldown \in Durations
  BY ChatDurationsAssumption
<1>3. NextRotation(r, Count) /\ bg' = bg /\ lastBody' = lastBody
      /\ lastWriter' = lastWriter
  BY DEF ChatTransportError
<1>4. QED
  BY <1>1, <1>2, <1>3, NoteErrorStep, NextRotationOK, CountNat

LEMMA ChatRejectedOK ==
  ASSUME LocalsOK, NEW r \in Requests, ChatRejected(r)
  PROVE  LocalsOK' /\ PoolStep
<1>1. PICK reply \in Replies :
        /\ WriteBody(r, reply.body)
        /\ req' = [req EXCEPT ![r] = [req[r] EXCEPT
                !.pc = "classify", !.body = reply.body, !.status = reply.status]]
  BY DEF ChatRejected
<1> DEFINE e == [req[r] EXCEPT
                !.pc = "classify", !.body = reply.body, !.status = reply.status]
<1>2. req[r] \in Request /\ req[r].pc \in InUse /\ bg' = bg
      /\ UNCHANGED poolVars
  BY DEF ChatRejected, LocalsOK, InUse
<1>3. e \in Request /\ e.acct = req[r].acct
  <2>1. reply.status \in 0 .. 599 /\ reply.body \in Bodies
    BY ReplyTypes
  <2>2. QED
    BY <1>2, <2>1 DEF Request
<1>4. lastBody' \in Bodies /\ lastWriter' \in Goroutines
  BY <1>1, ReplyTypes DEF WriteBody, Goroutines
<1>5. req' = [req EXCEPT ![r] = e]
  BY <1>1
<1> HIDE DEF e
<1>6. QED
  BY <1>2, <1>3, <1>4, <1>5, LocalStep DEF PoolStep

LEMMA ClassifyReplyOK ==
  ASSUME LocalsOK, NEW r \in Requests, ClassifyReply(r)
  PROVE  LocalsOK' /\ PoolStep
<1>1. PICK body \in ReadableBodies(r) :
        req' = [req EXCEPT ![r] =
                  Classified(req[r], Classify(req[r].status, body))]
  BY DEF ClassifyReply
<1> DEFINE e == Classified(req[r], Classify(req[r].status, body))
<1>2. req[r] \in Request /\ req[r].pc \in InUse /\ bg' = bg
      /\ lastBody' \in Bodies /\ lastWriter' \in Goroutines
      /\ UNCHANGED poolVars
  BY DEF ClassifyReply, LocalsOK, InUse
<1>3. req[r].counted + Count \in Nat /\ Classify(req[r].status, body) \in Kinds
  BY <1>2, CountNat, ClassifyKind DEF Request
<1>4. e \in Request /\ e.acct = req[r].acct
  BY <1>2, <1>3 DEF Request, Classified
<1>5. req' = [req EXCEPT ![r] = e]
  BY <1>1
<1> HIDE DEF e
<1>6. QED
  BY <1>2, <1>4, <1>5, LocalStep DEF PoolStep

LEMMA PenaliseOK ==
  ASSUME LocalsOK, NEW r \in Requests, Penalise(r)
  PROVE  LocalsOK' /\ PoolStep
<1> DEFINE u == req[r].acct
<1>1. u \in Accounts
  BY InHand DEF Penalise, InUse
<1>2. /\ {HardReason, SoftReason, NotFoundReason, DeadReason} \subseteq Reasons
      /\ {HardCooldown, SoftCooldown, ErrCooldown} \subseteq Durations
  BY ChatReasonsAssumption, ChatDurationsAssumption
<1>3. \/ Cooldown(u, HardCooldown, HardReason)
      \/ Cooldown(u, SoftCooldown, SoftReason)
      \/ Disable(u, DeadReason)
      \/ Cooldown(u, SoftCooldown, NotFoundReason)
      \/ NoteError(u, ErrCooldown)
  BY DEF Penalise, Penalty
<1> HIDE DEF u
<1>4. PoolStep
  BY <1>1, <1>2, <1>3, CooldownStep, DisableStep, NoteErrorStep
<1>5. NextRotation(r, 0) /\ 0 \in Nat /\ bg' = bg /\ lastBody' = lastBody
      /\ lastWriter' = lastWriter
  BY DEF Penalise
<1>6. QED
  BY <1>4, <1>5, NextRotationOK

LEMMA ChatAcceptedOK ==
  ASSUME LocalsOK, NEW r \in Requests, ChatAccepted(r)
  PROVE  LocalsOK' /\ PoolStep
<1>1. NoteSuccess(req[r].acct) /\ req[r].acct \in Accounts
  BY InHand DEF ChatAccepted, InUse
<1>2. PoolStep
  BY <1>1, PoolCallStep DEF PoolCall
<1>3. /\ Goto(r, "body") /\ "body" \in InUse /\ req[r].pc \in InUse /\ bg' = bg
      /\ lastBody' \in Bodies /\ lastWriter' \in Goroutines
  BY DEF ChatAccepted, InUse, LocalsOK
<1>4. QED
  BY <1>2, <1>3, GotoOK

LEMMA FinishBodyOK ==
  ASSUME LocalsOK, NEW r \in Requests, FinishBody(r)
  PROVE  LocalsOK' /\ PoolStep
<1>1. /\ bg' = bg /\ lastBody' = lastBody /\ lastWriter' = lastWriter
      /\ UNCHANGED poolVars
  BY DEF FinishBody
<1>2. PICK answer \in {"ok", "bad_gateway"}, n \in Nat : Answer(r, answer, n)
  <2>1. ASSUME NEW answer \in {"ok", "bad_gateway"},
               NEW frames \in 0 .. MaxFrames, Answer(r, answer, frames * Count)
        PROVE  \E n \in Nat : Answer(r, answer, n)
    <3>1. frames * Count \in Nat
      BY ChatConstantsAssumption DEF Count
    <3>2. QED
      BY <2>1, <3>1
  <2>2. 0 \in Nat
    OBVIOUS
  <2>3. QED
    BY <2>1, <2>2, CountNat DEF FinishBody
<1>3. QED
  BY <1>1, <1>2, AnswerOK DEF PoolStep

LEMMA RequestStepOK ==
  ASSUME TypeOK, LocalsOK, NEW r \in Requests, Arrive(r) \/ RequestStep(r)
  PROVE  LocalsOK' /\ PoolStep
  BY ArriveOK, PickOK, ExhaustedOK, RefreshFailsOK, RefreshSucceedsOK,
     PenaliseRefreshOK, ChatTransportErrorOK, ChatRejectedOK, ClassifyReplyOK,
     PenaliseOK, ChatAcceptedOK, FinishBodyOK DEF RequestStep

-----------------------------------------------------------------------------
(* Background loops *)

LEMMA StartLoopOK ==
  ASSUME TypeOK, LocalsOK, NEW b \in Balancers \cup Keepers,
         StartLoop(b) \/ EndLoop(b)
  PROVE  LocalsOK' /\ PoolStep
<1> DEFINE e == [IdleBackground EXCEPT !.pc = "loop", !.todo = EnabledAccounts]
<1>1. EnabledAccounts \in SUBSET Accounts
  BY DEF EnabledAccounts, TypeOK
<1>2. BackgroundOK(e)
  <2>1. IdleBackground \in Background
    BY IdleBackgroundOK DEF BackgroundOK
  <2>2. e \in Background /\ e.pc = "loop"
    BY <1>1, <2>1 DEF Background
  <2>3. QED
    BY <2>2 DEF BackgroundOK
<1>3. /\ req' = req /\ UNCHANGED poolVars
      /\ lastBody' \in Bodies /\ lastWriter' \in Goroutines
      /\ \/ bg' = [bg EXCEPT ![b] = e]
         \/ bg' = [bg EXCEPT ![b] = IdleBackground]
  BY DEF StartLoop, EndLoop, LocalsOK
<1> HIDE DEF e
<1>4. QED
  BY <1>2, <1>3, IdleBackgroundOK, BgUpdate DEF PoolStep

LEMMA LoopFacts ==
  ASSUME LocalsOK, NEW b \in Balancers \cup Keepers, NEW u \in bg[b].todo
  PROVE  /\ bg[b] \in Background /\ u \in Accounts
         /\ bg[b].todo \ {u} \in SUBSET Accounts
  BY DEF LocalsOK, Background

LEMMA SkippedOK ==
  ASSUME LocalsOK, NEW b \in Balancers \cup Keepers, NEW u \in bg[b].todo
  PROVE  BackgroundOK(Skipped(bg[b], u))
<1>1. /\ bg[b] \in Background /\ bg[b].todo \ {u} \in SUBSET Accounts
      /\ bg[b].pc = "apply" => bg[b].acct \in Accounts
  BY LoopFacts DEF LocalsOK, BackgroundOK
<1>2. /\ Skipped(bg[b], u) \in Background
      /\ Skipped(bg[b], u).pc = bg[b].pc /\ Skipped(bg[b], u).acct = bg[b].acct
  BY <1>1 DEF Skipped, Background
<1>3. QED
  BY <1>1, <1>2 DEF BackgroundOK

LEMMA AppliedOK ==
  ASSUME LocalsOK, NEW b \in Balancers \cup Keepers
  PROVE  BackgroundOK(Applied(bg[b]))
<1>1. bg[b] \in Background /\ 0 \in Credits
  BY CreditsAssumption DEF LocalsOK
<1>2. Applied(bg[b]) \in Background /\ Applied(bg[b]).pc = "loop"
  BY <1>1 DEF Applied, Background
<1>3. QED
  BY <1>2 DEF BackgroundOK

LEMMA SkipAccountOK ==
  ASSUME LocalsOK, NEW b \in Balancers \cup Keepers, SkipAccount(b)
  PROVE  LocalsOK' /\ PoolStep
<1>1. PICK u \in bg[b].todo :
        /\ bg' = [bg EXCEPT ![b] = Skipped(bg[b], u)]
        /\ \/ UNCHANGED <<lastBody, lastWriter>>
           \/ \E body \in Bodies : WriteBody(b, body)
  BY DEF SkipAccount
<1>2. lastBody' \in Bodies /\ lastWriter' \in Goroutines
  BY <1>1 DEF WriteBody, Goroutines, LocalsOK
<1>3. req' = req /\ UNCHANGED poolVars
  BY DEF SkipAccount
<1>4. QED
  BY <1>1, <1>2, <1>3, SkippedOK, BgUpdate DEF PoolStep

LEMMA BalanceReplyOK ==
  ASSUME LocalsOK, NEW b \in Balancers, BalanceReply(b)
  PROVE  LocalsOK' /\ PoolStep
<1>1. PICK u \in bg[b].todo, remain \in Credits :
        bg' = [bg EXCEPT ![b] = [pc |-> "apply", todo |-> bg[b].todo \ {u},
                                 acct |-> u, remain |-> remain]]
  BY DEF BalanceReply
<1>2. BackgroundOK([pc |-> "apply", todo |-> bg[b].todo \ {u},
                    acct |-> u, remain |-> remain])
  BY LoopFacts DEF BackgroundOK, Background
<1>3. /\ req' = req /\ UNCHANGED poolVars
      /\ lastBody' \in Bodies /\ lastWriter' \in Goroutines
  BY DEF BalanceReply, WriteBody, Bodies, Goroutines
<1>4. QED
  BY <1>1, <1>2, <1>3, BgUpdate DEF PoolStep

LEMMA BalanceApplyOK ==
  ASSUME LocalsOK, NEW b \in Balancers, BalanceApply(b)
  PROVE  LocalsOK' /\ PoolStep
<1>1. bg[b].acct \in Accounts /\ bg[b].remain \in Credits
  BY DEF BalanceApply, LocalsOK, BackgroundOK, Background
<1>2. ReenableIfCredits(bg[b].acct, bg[b].remain)
  BY DEF BalanceApply
<1>3. PoolStep
  BY <1>1, <1>2, PoolCallStep DEF PoolCall
<1>4. /\ req' = req /\ bg' = [bg EXCEPT ![b] = Applied(bg[b])]
      /\ lastBody' \in Bodies /\ lastWriter' \in Goroutines
  BY DEF BalanceApply, LocalsOK
<1>5. QED
  BY <1>3, <1>4, AppliedOK, BgUpdate

LEMMA KeepaliveReplyOK ==
  ASSUME LocalsOK, NEW k \in Keepers, KeepaliveOk(k) \/ KeepaliveDead(k)
  PROVE  LocalsOK' /\ PoolStep
<1>1. CASE KeepaliveOk(k)
  <2>1. PICK u \in bg[k].todo : bg' = [bg EXCEPT ![k] = Skipped(bg[k], u)]
    BY <1>1 DEF KeepaliveOk
  <2>2. /\ req' = req /\ UNCHANGED poolVars
        /\ lastBody' \in Bodies /\ lastWriter' \in Goroutines
    BY <1>1 DEF KeepaliveOk, WriteBody, Bodies, Goroutines
  <2>3. QED
    BY <2>1, <2>2, SkippedOK, BgUpdate DEF PoolStep
<1>2. CASE KeepaliveDead(k)
  <2>1. PICK u \in bg[k].todo :
          /\ WriteBody(k, DeadBody)
          /\ bg' = [bg EXCEPT ![k] = [pc |-> "apply", todo |-> bg[k].todo \ {u},
                                     acct |-> u, remain |-> 0]]
    BY <1>2 DEF KeepaliveDead
  <2>2. BackgroundOK([pc |-> "apply", todo |-> bg[k].todo \ {u},
                      acct |-> u, remain |-> 0])
    BY LoopFacts, CreditsAssumption DEF BackgroundOK, Background
  <2>3. lastBody' \in Bodies /\ lastWriter' \in Goroutines
    BY <2>1 DEF WriteBody, Goroutines, Bodies
  <2>4. req' = req /\ UNCHANGED poolVars
    BY <1>2 DEF KeepaliveDead
  <2>5. QED
    BY <2>1, <2>2, <2>3, <2>4, BgUpdate DEF PoolStep
<1>3. QED
  BY <1>1, <1>2

LEMMA KeepaliveDisableOK ==
  ASSUME LocalsOK, NEW k \in Keepers, KeepaliveDisable(k)
  PROVE  LocalsOK' /\ PoolStep
<1>1. bg[k].acct \in Accounts /\ RefreshDeadReason \in Reasons
      /\ Disable(bg[k].acct, RefreshDeadReason)
  BY ChatReasonsAssumption DEF KeepaliveDisable, LocalsOK, BackgroundOK
<1>2. /\ req' = req /\ bg' = [bg EXCEPT ![k] = Applied(bg[k])]
      /\ lastBody' \in Bodies /\ lastWriter' \in Goroutines
  BY DEF KeepaliveDisable, LocalsOK
<1>3. QED
  BY <1>1, <1>2, DisableStep, AppliedOK, BgUpdate

-----------------------------------------------------------------------------
(* The administrator, the clock, restarts *)

LEMMA ChatVarsUnchanged ==
  ASSUME LocalsOK, UNCHANGED chatVars
  PROVE  LocalsOK'
  BY DEF LocalsOK, chatVars, RequestOK, BackgroundOK

LEMMA AdminStepOK ==
  ASSUME LocalsOK, NEW u \in Accounts, AdminStep(u)
  PROVE  LocalsOK' /\ PoolStep
<1>1. ManualDisable \in Reasons /\ ManualCool \in Reasons
      /\ ManualCooldown \in Durations
  BY ChatReasonsAssumption, ChatDurationsAssumption
<1>2. \/ Enable(u) \/ Disable(u, ManualDisable)
      \/ ForceCooldown(u, ManualCool, ManualCooldown) \/ Add(u)
  BY DEF AdminStep
<1>3. PoolStep
  BY <1>1, <1>2, PoolCallStep DEF PoolCall
<1>4. UNCHANGED chatVars
  BY DEF AdminStep
<1>5. QED
  BY <1>3, <1>4, ChatVarsUnchanged

LEMMA RestartServerOK ==
  ASSUME RestartServer
  PROVE  LocalsOK' /\ PoolStep
<1>1. PoolStep
  BY DEF RestartServer, PoolStep, PoolNext
<1>2. /\ req' = [r \in Requests |-> IdleRequest]
      /\ bg' = [b \in Balancers \cup Keepers |-> IdleBackground]
      /\ lastBody' \in Bodies /\ lastWriter' \in Goroutines
  BY DEF RestartServer, WriteBody, Bodies, Goroutines
<1>3. IdleBackground \in Background
  BY IdleBackgroundOK DEF BackgroundOK
<1>4. LocalsOK'
  BY <1>2, <1>3, IdleRequestOK, IdleBackgroundOK DEF LocalsOK
<1>5. QED
  BY <1>1, <1>4

LEMMA StepOK == TypeOK /\ LocalsOK /\ [Next]_vars => LocalsOK' /\ PoolStep
<1> SUFFICES ASSUME TypeOK, LocalsOK, [Next]_vars PROVE LocalsOK' /\ PoolStep
  OBVIOUS
<1>1. ASSUME NEW r \in Requests, Arrive(r) \/ RequestStep(r)
      PROVE  LocalsOK' /\ PoolStep
  BY <1>1, RequestStepOK
<1>2. CASE BackgroundStep
  <2>1. ASSUME NEW b \in Balancers \cup Keepers,
               StartLoop(b) \/ SkipAccount(b) \/ EndLoop(b)
        PROVE  LocalsOK' /\ PoolStep
    BY <2>1, StartLoopOK, SkipAccountOK
  <2>2. ASSUME NEW b \in Balancers, BalanceReply(b) \/ BalanceApply(b)
        PROVE  LocalsOK' /\ PoolStep
    BY <2>2, BalanceReplyOK, BalanceApplyOK
  <2>3. ASSUME NEW k \in Keepers,
               KeepaliveOk(k) \/ KeepaliveDead(k) \/ KeepaliveDisable(k)
        PROVE  LocalsOK' /\ PoolStep
    BY <2>3, KeepaliveReplyOK, KeepaliveDisableOK
  <2>4. QED
    BY <1>2, <2>1, <2>2, <2>3 DEF BackgroundStep
<1>3. ASSUME NEW u \in Accounts, AdminStep(u) PROVE LocalsOK' /\ PoolStep
  BY <1>3, AdminStepOK
<1>4. CASE Time
  BY <1>4, ChatVarsUnchanged DEF Time, PoolStep, PoolNext
<1>5. CASE RestartServer
  BY <1>5, RestartServerOK
<1>6. CASE UNCHANGED vars
  BY <1>6, ChatVarsUnchanged DEF vars, PoolStep
<1>7. QED
  BY <1>1, <1>2, <1>3, <1>4, <1>5, <1>6 DEF Next

LEMMA InitLocals == Init => LocalsOK
<1>1. IdleBackground \in Background
  BY IdleBackgroundOK DEF BackgroundOK
<1>2. QED
  BY <1>1, IdleRequestOK, IdleBackgroundOK
  DEF Init, LocalsOK, Bodies, Goroutines

LEMMA ChatInvariant == Spec => [](Inv /\ LocalsOK)
<1>1. Init => Inv /\ LocalsOK
  BY InitInv, InitLocals DEF Init
<1>2. Inv /\ LocalsOK /\ [Next]_vars => Inv' /\ LocalsOK'
  <2>1. Inv => TypeOK
    BY DEF Inv
  <2>2. PoolStep => [PoolNext]_poolVars
    BY DEF PoolStep
  <2>3. QED
    BY <2>1, <2>2, StepOK, NextInv
<1>3. QED
  BY <1>1, <1>2, PTL DEF Spec

\* The locals of every handler and background loop keep their types, in every
\* interleaving of any number of them with restarts and the administrator.
THEOREM ChatTypeCorrect == Spec => []ChatTypeOK
<1>1. Inv /\ LocalsOK => ChatTypeOK
  BY DEF Inv, LocalsOK, ChatTypeOK, Goroutines
<1>2. QED
  BY <1>1, ChatInvariant, PTL

\* However many requests, balance refreshes and keepalives run, with whatever
\* upstream replies, the pool sees only calls of its own methods: the
\* composition implements the pool's specification.
THEOREM ChatImplementsPool == Spec => PoolSpec
<1>1. Init => PoolInit
  BY DEF Init
<1>2. Inv /\ LocalsOK /\ [Next]_vars => [PoolNext]_poolVars
  <2>1. Inv => TypeOK
    BY DEF Inv
  <2>2. PoolStep => [PoolNext]_poolVars
    BY DEF PoolStep
  <2>3. QED
    BY <2>1, <2>2, StepOK
<1>3. QED
  BY <1>1, <1>2, ChatInvariant, PTL DEF Spec, PoolSpec

\* Hence a chat request, a late balance or a keepalive brings an account back
\* into rotation only by the pool's rules.
COROLLARY ChatReturnsByRule == Spec => ReturnsOnlyByRule
  BY ChatImplementsPool, PoolReturns, PTL

-----------------------------------------------------------------------------
(* What the LastBody race cannot spoil *)

\* Only ClassifyReply brings a request to the point of penalising.
LEMMA OnlyClassifyPenalises ==
  ASSUME LocalsOK, NEW r \in Requests, Arrive(r) \/ RequestStep(r),
         ~ClassifyReply(r)
  PROVE  \A q \in Requests : req'[q] = req[q] \/ req'[q].pc # "penalise"
<1>1. req \in [Requests -> Request] /\ req[r] \in Request
  BY DEF LocalsOK
<1>2. ASSUME NEW e, e.pc # "penalise", req' = [req EXCEPT ![r] = e]
      PROVE  \A q \in Requests : req'[q] = req[q] \/ req'[q].pc # "penalise"
  BY <1>1, <1>2
<1>3. CASE Arrive(r)
  <2>1. [IdleRequest EXCEPT !.pc = "pick"].pc = "pick"
    BY IdleRequestOK DEF Request
  <2>2. QED
    BY <1>2, <1>3, <2>1 DEF Arrive
<1>4. CASE Pick(r)
  <2>1. PICK u \in PickExcluding(req[r].tried), needsRefresh \in BOOLEAN :
          req' = [req EXCEPT ![r] = Picked(req[r], u, needsRefresh)]
    BY <1>4 DEF Pick
  <2>2. Picked(req[r], u, needsRefresh).pc # "penalise"
    BY <1>1 DEF Picked, Request
  <2>3. QED
    BY <1>2, <2>1, <2>2
<1>5. CASE Exhausted(r) \/ FinishBody(r)
  <2>1. PICK answer, n : req' = [req EXCEPT ![r] = Answered(req[r], answer, n)]
    BY <1>5 DEF Exhausted, FinishBody, Answer
  <2>2. Answered(req[r], answer, n).pc = "answered"
    BY IdleRequestOK DEF Answered, Request
  <2>3. QED
    BY <1>2, <2>1, <2>2
<1>6. CASE RefreshFails(r)
  <2>1. PICK kind : req' = [req EXCEPT ![r] = RefreshRefused(req[r], kind)]
    BY <1>6 DEF RefreshFails
  <2>2. RefreshRefused(req[r], kind).pc = "refreshFailed"
    BY <1>1 DEF RefreshRefused, Request
  <2>3. QED
    BY <1>2, <2>1, <2>2
<1>7. CASE RefreshSucceeds(r) \/ ChatAccepted(r)
  <2>1. \/ req' = [req EXCEPT ![r] = [req[r] EXCEPT !.pc = "chat"]]
        \/ req' = [req EXCEPT ![r] = [req[r] EXCEPT !.pc = "body"]]
    BY <1>7 DEF RefreshSucceeds, ChatAccepted, Goto
  <2>2. /\ [req[r] EXCEPT !.pc = "chat"].pc = "chat"
        /\ [req[r] EXCEPT !.pc = "body"].pc = "body"
    BY <1>1 DEF Request
  <2>3. QED
    BY <1>2, <2>1, <2>2
<1>8. CASE PenaliseRefresh(r) \/ ChatTransportError(r) \/ Penalise(r)
  <2>1. PICK n : req' = [req EXCEPT ![r] = Rotated(req[r], n)]
    BY <1>8 DEF PenaliseRefresh, ChatTransportError, Penalise, NextRotation
  <2>2. Rotated(req[r], n).pc = "pick"
    BY <1>1 DEF Rotated, Request
  <2>3. QED
    BY <1>2, <2>1, <2>2
<1>9. CASE ChatRejected(r)
  <2>1. PICK reply \in Replies :
          req' = [req EXCEPT ![r] = [req[r] EXCEPT
                !.pc = "classify", !.body = reply.body, !.status = reply.status]]
    BY <1>9 DEF ChatRejected
  <2>2. [req[r] EXCEPT !.pc = "classify", !.body = reply.body,
                       !.status = reply.status].pc = "classify"
    BY <1>1 DEF Request
  <2>3. QED
    BY <1>2, <2>1, <2>2
<1>10. QED
  BY <1>3, <1>4, <1>5, <1>6, <1>7, <1>8, <1>9 DEF RequestStep

\* A 402 always costs the account the hard cooldown, whichever request's body
\* LastBody holds when it is read.
THEOREM ChatPaymentRequired == Spec => []PaymentRequiredIsHard
<1>1. Init => PaymentRequiredIsHard
  BY DEF Init, PaymentRequiredIsHard, IdleRequest
<1>2. LocalsOK /\ PaymentRequiredIsHard /\ [Next]_vars => PaymentRequiredIsHard'
  <2> SUFFICES ASSUME LocalsOK, PaymentRequiredIsHard, [Next]_vars
               PROVE  PaymentRequiredIsHard'
    OBVIOUS
  <2>1. ASSUME NEW r \in Requests, Arrive(r) \/ RequestStep(r),
               ~ClassifyReply(r)
        PROVE  PaymentRequiredIsHard'
    BY <2>1, OnlyClassifyPenalises DEF PaymentRequiredIsHard
  <2>2. ASSUME NEW r \in Requests, ClassifyReply(r)
        PROVE  PaymentRequiredIsHard'
    <3>1. PICK body :
            req' = [req EXCEPT ![r] =
                      Classified(req[r], Classify(req[r].status, body))]
      BY <2>2 DEF ClassifyReply
    <3> DEFINE e == Classified(req[r], Classify(req[r].status, body))
    <3>2. req \in [Requests -> Request] /\ req[r] \in Request
      BY DEF LocalsOK
    <3>3. e.status = req[r].status /\ e.kind = Classify(req[r].status, body)
      BY <3>2 DEF Classified, Request
    <3>4. e.status = 402 => e.kind = "hard_credit"
      BY <3>3 DEF Classify
    <3> HIDE DEF e
    <3>5. \A q \in Requests : req'[q] = IF q = r THEN e ELSE req[q]
      BY <3>1, <3>2 DEF e
    <3>6. QED
      BY <3>4, <3>5 DEF PaymentRequiredIsHard
  <2>3. ASSUME req' = req PROVE PaymentRequiredIsHard'
    BY <2>3 DEF PaymentRequiredIsHard
  <2>4. CASE BackgroundStep
    <3>1. req' = req
      BY <2>4 DEF BackgroundStep, StartLoop, SkipAccount, EndLoop, BalanceReply,
                  BalanceApply, KeepaliveOk, KeepaliveDead, KeepaliveDisable
    <3>2. QED
      BY <2>3, <3>1
  <2>5. ASSUME NEW u \in Accounts, AdminStep(u) PROVE PaymentRequiredIsHard'
    BY <2>3, <2>5 DEF AdminStep, chatVars
  <2>6. CASE Time
    BY <2>3, <2>6 DEF Time, chatVars
  <2>7. CASE RestartServer
    BY <2>7 DEF RestartServer, PaymentRequiredIsHard, IdleRequest
  <2>8. CASE UNCHANGED vars
    BY <2>3, <2>8 DEF vars, chatVars
  <2>9. QED
    BY <2>1, <2>2, <2>4, <2>5, <2>6, <2>7, <2>8 DEF Next
<1>3. QED
  BY <1>1, <1>2, ChatInvariant, PTL DEF Spec

-----------------------------------------------------------------------------
(* How often a request tries, and how often it counts that *)

\* An attempt that has not failed: it is under way or has answered.
Open(e) == e.pc \in {"refresh", "chat", "classify", "body"} \/ Served(e) = 1

\* Every attempt was refused its refresh, is counted or is the open one.
AttemptsOK(e) ==
    /\ IsFiniteSet(e.tried) /\ Cardinality(e.tried) = e.i
    /\ e.pc \in {"idle", "answered"} => e.acct = Nobody
    /\ e.pc # "answered" => e.answer = "none" /\ e.recorded = 0
    /\ e.recorded > 0 => Served(e) = 1
    /\ e.counted = IF Stats THEN e.i - e.refused - (IF Open(e) THEN 1 ELSE 0)
                   ELSE 0

AllAttemptsOK == \A r \in Requests : AttemptsOK(req[r])

LEMMA IdleAttempts ==
  AttemptsOK(IdleRequest) /\ AttemptsOK([IdleRequest EXCEPT !.pc = "pick"])
  BY FS_EmptySet DEF AttemptsOK, IdleRequest, Open, Served

\* A step that stays in the same attempt, or fails and accounts for that.
LEMMA SameAttempt ==
  ASSUME NEW q \in Request, AttemptsOK(q), q.pc \notin {"idle", "pick", "answered"},
         NEW e, e.pc \notin {"idle", "answered"}, e.tried = q.tried, e.i = q.i,
         e.recorded = q.recorded, e.answer = q.answer,
         \/ Open(e) /\ Open(q) /\ e.counted = q.counted /\ e.refused = q.refused
         \/ ~Open(e) /\ ~Open(q) /\ e.counted = q.counted /\ e.refused = q.refused
         \/ /\ ~Open(e) /\ Open(q) /\ e.counted = q.counted
            /\ e.refused = q.refused + Count
         \/ /\ ~Open(e) /\ Open(q) /\ e.refused = q.refused
            /\ e.counted = q.counted + Count
  PROVE  AttemptsOK(e)
<1>1. q.counted \in Nat /\ q.refused \in Nat /\ q.i \in Int
  BY DEF Request
<1>2. /\ IsFiniteSet(e.tried) /\ Cardinality(e.tried) = e.i
      /\ e.answer = "none" /\ e.recorded = 0
  BY DEF AttemptsOK
<1>3. e.counted = IF Stats THEN e.i - e.refused - (IF Open(e) THEN 1 ELSE 0) ELSE 0
  BY <1>1 DEF AttemptsOK, Count
<1>4. QED
  BY <1>2, <1>3 DEF AttemptsOK

LEMMA NewAttempt ==
  ASSUME NEW q \in Request, AttemptsOK(q), q.pc = "pick",
         NEW u, u \notin q.tried,
         NEW e, e.pc \in {"refresh", "chat"}, e.tried = q.tried \cup {u},
         e.i = q.i + 1, e.counted = q.counted, e.recorded = q.recorded,
         e.refused = q.refused, e.answer = q.answer
  PROVE  AttemptsOK(e)
<1>1. q.counted \in Nat /\ q.refused \in Nat /\ q.i \in Int
  BY DEF Request
<1>2. IsFiniteSet(q.tried) /\ Cardinality(q.tried) = q.i
  BY DEF AttemptsOK
<1>3. /\ IsFiniteSet(q.tried \cup {u})
      /\ Cardinality(q.tried \cup {u}) = Cardinality(q.tried) + 1
  BY <1>2, FS_AddElement
<1>4. IsFiniteSet(e.tried) /\ Cardinality(e.tried) = e.i
  BY <1>2, <1>3
<1>5. Open(e) /\ ~Open(q)
  BY DEF AttemptsOK, Open, Served
<1>6. QED
  BY <1>1, <1>4, <1>5 DEF AttemptsOK

\* What a handler answers with: the body of its last attempt, or nothing.
LEMMA AnswerAttempts ==
  ASSUME NEW q \in Request, AttemptsOK(q), NEW answer, NEW n \in Nat,
         \/ q.pc = "pick" /\ answer = "no_healthy_account" /\ n = 0
         \/ q.pc = "body" /\ answer \in {"ok", "bad_gateway"}
  PROVE  AttemptsOK(Answered(q, answer, n))
<1> DEFINE e == Answered(q, answer, n)
<1>1. /\ e.pc = "answered" /\ e.answer = answer /\ e.i = q.i
      /\ e.tried = q.tried /\ e.counted = q.counted /\ e.acct = Nobody
      /\ e.recorded = n /\ e.refused = q.refused
  BY DEF Answered, IdleRequest
<1> HIDE DEF e
<1>2. /\ Open(e) <=> Open(q)
      /\ n > 0 => Served(e) = 1
  BY <1>1 DEF AttemptsOK, Open, Served
<1>3. AttemptsOK(e)
  BY <1>1, <1>2 DEF AttemptsOK
<1>4. QED
  BY <1>3 DEF e

\* Every step of a handler leaves its locals as they are or counts right.
LEMMA RequestAttempts ==
  ASSUME LocalsOK, NEW r \in Requests, AttemptsOK(req[r]),
         Arrive(r) \/ RequestStep(r)
  PROVE  \E e : AttemptsOK(e) /\ req' = [req EXCEPT ![r] = e]
<1> DEFINE q == req[r]
<1>1. q \in Request
  BY DEF LocalsOK
<1>2. CASE Arrive(r)
  BY <1>2, IdleAttempts DEF Arrive
<1>3. CASE Pick(r)
  <2>1. PICK u \in PickExcluding(q.tried), b \in BOOLEAN :
          req' = [req EXCEPT ![r] = Picked(q, u, b)]
    BY <1>3 DEF Pick
  <2>2. u \notin q.tried
    BY DEF PickExcluding, Eligible
  <2> DEFINE e == Picked(q, u, b)
  <2>3. /\ e.pc \in {"refresh", "chat"} /\ e.tried = q.tried \cup {u} /\ e.i = q.i + 1
        /\ e.counted = q.counted /\ e.answer = q.answer
        /\ e.recorded = q.recorded /\ e.refused = q.refused
    BY <1>1 DEF Picked, Request
  <2>4. q.pc = "pick"
    BY <1>3 DEF Pick
  <2> HIDE DEF e, q
  <2>5. AttemptsOK(e)
    BY <1>1, <2>2, <2>3, <2>4, NewAttempt DEF q
  <2>6. QED
    BY <2>1, <2>5 DEF e, q
<1>4. CASE Exhausted(r)
  BY <1>1, <1>4, AnswerAttempts DEF Exhausted, Answer
<1>5. CASE RefreshFails(r)
  <2>1. PICK kind : req' = [req EXCEPT ![r] = RefreshRefused(q, kind)]
    BY <1>5 DEF RefreshFails
  <2> DEFINE e == RefreshRefused(q, kind)
  <2>2. /\ e.pc = "refreshFailed" /\ e.tried = q.tried /\ e.i = q.i
        /\ e.counted = q.counted /\ e.answer = q.answer
        /\ e.recorded = q.recorded /\ e.refused = q.refused + Count
    BY <1>1 DEF RefreshRefused, Request
  <2>3. q.pc = "refresh" /\ Open(q) /\ ~Open(e)
    BY <1>5, <2>2 DEF RefreshFails, Open, AttemptsOK, Served
  <2> HIDE DEF e, q
  <2>4. AttemptsOK(e)
    BY <1>1, <2>2, <2>3, SameAttempt DEF q
  <2>5. QED
    BY <2>1, <2>4 DEF e, q
<1>6. CASE RefreshSucceeds(r) \/ ChatAccepted(r)
  <2>1. PICK pc \in {"chat", "body"} : req' = [req EXCEPT ![r] = [q EXCEPT !.pc = pc]]
    BY <1>6 DEF RefreshSucceeds, ChatAccepted, Goto
  <2> DEFINE e == [q EXCEPT !.pc = pc]
  <2>2. /\ e.pc \in {"chat", "body"} /\ e.tried = q.tried /\ e.i = q.i
        /\ e.counted = q.counted /\ e.answer = q.answer
        /\ e.recorded = q.recorded /\ e.refused = q.refused
    BY <1>1 DEF Request
  <2>3. q.pc \in {"refresh", "chat"} /\ Open(q) /\ Open(e)
    BY <1>6, <2>2 DEF RefreshSucceeds, ChatAccepted, Open
  <2> HIDE DEF e, q
  <2>4. AttemptsOK(e)
    BY <1>1, <2>2, <2>3, SameAttempt DEF q
  <2>5. QED
    BY <2>1, <2>4 DEF e, q
<1>7. CASE PenaliseRefresh(r) \/ ChatTransportError(r) \/ Penalise(r)
  <2>1. PICK n \in {0, Count} :
           /\ req' = [req EXCEPT ![r] = Rotated(q, n)]
           /\ \/ q.pc \in {"refreshFailed", "penalise"} /\ n = 0
              \/ q.pc = "chat" /\ n = Count
    BY <1>7 DEF PenaliseRefresh, ChatTransportError, Penalise, NextRotation
  <2> DEFINE e == Rotated(q, n)
  <2>2. /\ e.pc = "pick" /\ e.tried = q.tried /\ e.i = q.i
        /\ e.counted = q.counted + n /\ e.answer = q.answer
        /\ e.recorded = q.recorded /\ e.refused = q.refused
    BY <1>1 DEF Rotated, Request
  <2>3. ~Open(e) /\ (Open(q) <=> q.pc = "chat")
    BY <2>1, <2>2 DEF Open, AttemptsOK, Served
  <2>4. q.counted \in Nat
    BY <1>1 DEF Request
  <2> HIDE DEF e, q
  <2>5. AttemptsOK(e)
    <3>1. CASE q.pc \in {"refreshFailed", "penalise"} /\ n = 0
      <4>1. e.counted = q.counted /\ ~Open(q)
        BY <2>2, <2>3, <2>4, <3>1
      <4>2. QED
        BY <1>1, <2>2, <2>3, <3>1, <4>1, SameAttempt DEF q
    <3>2. CASE q.pc = "chat" /\ n = Count
      BY <1>1, <2>2, <2>3, <3>2, SameAttempt DEF q
    <3>3. QED
      BY <2>1, <3>1, <3>2
  <2>6. QED
    BY <2>1, <2>5 DEF e, q
<1>8. CASE ChatRejected(r)
  <2>1. PICK reply \in Replies :
          req' = [req EXCEPT ![r] = [q EXCEPT
                !.pc = "classify", !.body = reply.body, !.status = reply.status]]
    BY <1>8, Zenon DEF ChatRejected
  <2> DEFINE e == [q EXCEPT !.pc = "classify", !.body = reply.body,
                            !.status = reply.status]
  <2>2. /\ e.pc = "classify" /\ e.tried = q.tried /\ e.i = q.i
        /\ e.counted = q.counted /\ e.answer = q.answer
        /\ e.recorded = q.recorded /\ e.refused = q.refused
    BY <1>1 DEF Request
  <2>3. q.pc = "chat" /\ Open(q) /\ Open(e)
    BY <1>8, <2>2 DEF ChatRejected, Open
  <2> HIDE DEF e, q
  <2>4. AttemptsOK(e)
    BY <1>1, <2>2, <2>3, SameAttempt DEF q
  <2>5. QED
    BY <2>1, <2>4 DEF e, q
<1>9. CASE ClassifyReply(r)
  <2>1. PICK kind : req' = [req EXCEPT ![r] = Classified(q, kind)]
    BY <1>9 DEF ClassifyReply
  <2> DEFINE e == Classified(q, kind)
  <2>2. /\ e.pc = "penalise" /\ e.tried = q.tried /\ e.i = q.i
        /\ e.counted = q.counted + Count /\ e.answer = q.answer
        /\ e.recorded = q.recorded /\ e.refused = q.refused
    BY <1>1 DEF Classified, Request
  <2>3. q.pc = "classify" /\ Open(q) /\ ~Open(e)
    BY <1>9, <2>2 DEF ClassifyReply, Open, AttemptsOK, Served
  <2> HIDE DEF e, q
  <2>4. AttemptsOK(e)
    BY <1>1, <2>2, <2>3, SameAttempt DEF q
  <2>5. QED
    BY <2>1, <2>4 DEF e, q
<1>10. CASE FinishBody(r)
  <2>1. MaxFrames \in Nat \ {0} /\ Count \in {0, 1}
    BY ChatConstantsAssumption DEF Count
  <2>2. PICK answer \in {"ok", "bad_gateway"}, n \in Nat :
          req' = [req EXCEPT ![r] = Answered(q, answer, n)]
    <3>1. \A frames \in 0 .. MaxFrames : frames * Count \in Nat
      BY <2>1
    <3>2. Count \in Nat /\ 0 \in Nat
      BY <2>1
    <3>3. QED
      BY <1>10, <3>1, <3>2 DEF FinishBody, Answer
  <2>3. q.pc = "body"
    BY <1>10 DEF FinishBody
  <2> HIDE DEF q
  <2>4. AttemptsOK(Answered(q, answer, n))
    BY <1>1, <2>2, <2>3, AnswerAttempts DEF q
  <2>5. QED
    BY <2>2, <2>4 DEF q
<1>11. QED
  BY <1>2, <1>3, <1>4, <1>5, <1>6, <1>7, <1>8, <1>9, <1>10 DEF RequestStep

\* Nothing else touches a handler's locals, but the end of the process.
LEMMA OtherSteps ==
  ASSUME [Next]_vars, \A r \in Requests : ~(Arrive(r) \/ RequestStep(r))
  PROVE  req' = req \/ req' = [r \in Requests |-> IdleRequest]
<1>1. CASE BackgroundStep
  BY <1>1 DEF BackgroundStep, StartLoop, SkipAccount, EndLoop, BalanceReply,
              BalanceApply, KeepaliveOk, KeepaliveDead, KeepaliveDisable
<1>2. ASSUME NEW u \in Accounts, AdminStep(u) PROVE req' = req
  BY <1>2 DEF AdminStep, chatVars
<1>3. CASE Time \/ UNCHANGED vars
  BY <1>3 DEF Time, vars, chatVars
<1>4. CASE RestartServer
  BY <1>4 DEF RestartServer
<1>5. QED
  BY <1>1, <1>2, <1>3, <1>4 DEF Next

LEMMA ChatAttempts == Spec => [](LocalsOK /\ AllAttemptsOK)
<1>1. Init => AllAttemptsOK
  BY IdleAttempts DEF Init, AllAttemptsOK
<1>2. LocalsOK /\ AllAttemptsOK /\ [Next]_vars => AllAttemptsOK'
  <2> SUFFICES ASSUME LocalsOK, AllAttemptsOK, [Next]_vars PROVE AllAttemptsOK'
    OBVIOUS
  <2>1. ASSUME NEW r \in Requests, Arrive(r) \/ RequestStep(r)
        PROVE  AllAttemptsOK'
    <3>1. AttemptsOK(req[r]) /\ DOMAIN req = Requests
      BY DEF AllAttemptsOK, LocalsOK
    <3>2. PICK e : AttemptsOK(e) /\ req' = [req EXCEPT ![r] = e]
      BY <2>1, <3>1, RequestAttempts
    <3>3. \A q \in Requests : req'[q] = IF q = r THEN e ELSE req[q]
      BY <3>1, <3>2
    <3>4. \A q \in Requests : AttemptsOK(req'[q])
      BY <3>2, <3>3 DEF AllAttemptsOK
    <3>5. QED
      BY <3>4 DEF AllAttemptsOK, AttemptsOK
  <2>2. CASE req' = req
    BY <2>2 DEF AllAttemptsOK, AttemptsOK
  <2>3. CASE req' = [r \in Requests |-> IdleRequest]
    <3>1. \A r \in Requests : AttemptsOK(req'[r])
      BY <2>3, IdleAttempts
    <3>2. QED
      BY <3>1 DEF AllAttemptsOK, AttemptsOK
  <2>4. QED
    BY <2>1, <2>2, <2>3, OtherSteps
<1>3. QED
  BY <1>1, <1>2, ChatInvariant, PTL DEF Spec

\* A request makes MaxRotate attempts at most and each on another account,
\* whatever becomes of the accounts meanwhile.
THEOREM ChatRotationBounded == Spec => []RotationBounded
<1>1. LocalsOK /\ AllAttemptsOK => RotationBounded
  BY DEF LocalsOK, AllAttemptsOK, AttemptsOK, RotationBounded, Request
<1>2. QED
  BY <1>1, ChatAttempts, PTL

\* chatCompletions: for a request of any number of attempts, AddFailure is
\* called for exactly the chats that failed, once each.
THEOREM ChatCountsOnce == Spec => []AttemptCountedOnce
<1>1. ASSUME LocalsOK, AllAttemptsOK, NEW r \in Requests,
             req[r].pc \in {"pick", "answered"}
      PROVE  /\ req[r].counted =
                    IF Stats THEN req[r].i - req[r].refused - Served(req[r]) ELSE 0
             /\ req[r].recorded > 0 => Served(req[r]) = 1
  <2>1. AttemptsOK(req[r]) /\ req[r] \in Request
    BY <1>1 DEF LocalsOK, AllAttemptsOK
  <2>2. Served(req[r]) = IF Open(req[r]) THEN 1 ELSE 0
    BY <1>1 DEF Open, Served
  <2>3. QED
    BY <2>1, <2>2 DEF AttemptsOK
<1>2. LocalsOK /\ AllAttemptsOK => AttemptCountedOnce
  BY <1>1 DEF AttemptCountedOnce
<1>3. QED
  BY <1>2, ChatAttempts, PTL

-----------------------------------------------------------------------------
(* An attempt that fails leaves its mark *)

Marked(u) ==
    u \in DOMAIN byUID =>
        \/ ~Healthy(byUID'[u], now)
        \/ byUID'[u].errCount = byUID[u].errCount + 1

LEMMA CooldownMarks ==
  ASSUME TypeOK, NEW u, NEW d \in Durations, NEW reason, Cooldown(u, d, reason)
  PROVE  Marked(u)
<1> SUFFICES ASSUME u \in DOMAIN byUID PROVE ~Healthy(byUID'[u], now)
  BY DEF Marked
<1>1. byUID'[u].until = now + d
  BY DEF Cooldown, Update, TypeOK, Entry
<1>2. now \in Nat /\ d \in Nat \ {0}
  BY DurationsAssumption DEF TypeOK
<1>3. QED
  BY <1>1, <1>2 DEF Healthy, Cooling, ZeroTime

LEMMA DisableMarks ==
  ASSUME TypeOK, NEW u, NEW reason, Disable(u, reason)
  PROVE  Marked(u)
  BY DEF Disable, Update, Marked, Healthy, TypeOK, Entry

LEMMA NoteErrorMarks ==
  ASSUME TypeOK, NEW u, NEW d \in Durations, NoteError(u, d)
  PROVE  Marked(u)
<1> SUFFICES ASSUME u \in DOMAIN byUID
             PROVE  \/ ~Healthy(byUID'[u], now)
                    \/ byUID'[u].errCount = byUID[u].errCount + 1
  BY DEF Marked
<1>1. byUID[u] \in Entry /\ byUID'[u] = ErredEntry(byUID[u], d)
  BY DEF NoteError, Update, TypeOK
<1>2. now \in Nat /\ d \in Nat \ {0}
  BY DurationsAssumption DEF TypeOK
<1>3. CASE byUID[u].errCount + 1 >= ErrThreshold
  <2>1. byUID'[u].until = now + d
    BY <1>1, <1>3 DEF ErredEntry, Entry
  <2>2. QED
    BY <1>2, <2>1 DEF Healthy, Cooling, ZeroTime
<1>4. CASE ~(byUID[u].errCount + 1 >= ErrThreshold)
  BY <1>1, <1>4 DEF ErredEntry, Entry
<1>5. QED
  BY <1>3, <1>4

LEMMA PenaltyMarks ==
  ASSUME TypeOK, LocalsOK, NEW r \in Requests,
         PenaliseRefresh(r) \/ ChatTransportError(r) \/ Penalise(r)
  PROVE  Marked(req[r].acct)
<1>1. ErrCooldown \in Durations /\ HardCooldown \in Durations
      /\ SoftCooldown \in Durations
  BY ChatDurationsAssumption
<1>2. CASE PenaliseRefresh(r)
  BY <1>1, <1>2, CooldownMarks, DisableMarks DEF PenaliseRefresh
<1>3. CASE ChatTransportError(r)
  BY <1>1, <1>3, NoteErrorMarks DEF ChatTransportError
<1>4. CASE Penalise(r)
  <2>1. Penalty(req[r].acct, req[r].kind) /\ req[r].kind \in Kinds
    BY <1>4 DEF Penalise, LocalsOK, Request
  <2>2. \/ Cooldown(req[r].acct, HardCooldown, HardReason)
        \/ Cooldown(req[r].acct, SoftCooldown, SoftReason)
        \/ Disable(req[r].acct, DeadReason)
        \/ Cooldown(req[r].acct, SoftCooldown, NotFoundReason)
        \/ NoteError(req[r].acct, ErrCooldown)
    BY <2>1 DEF Penalty, Kinds
  <2>3. QED
    BY <1>1, <2>2, CooldownMarks, DisableMarks, NoteErrorMarks
<1>5. QED
  BY <1>2, <1>3, <1>4

\* Only a failure sends a request that has an account back to the pick.
LEMMA ToPick ==
  ASSUME LocalsOK, NEW r \in Requests, RequestStep(r),
         NEW q \in Requests, req[q].pc # "pick", req'[q].pc = "pick"
  PROVE  q = r /\ (PenaliseRefresh(r) \/ ChatTransportError(r) \/ Penalise(r))
<1>1. req \in [Requests -> Request] /\ req[r] \in Request
  BY DEF LocalsOK
<1>2. \A e : req' = [req EXCEPT ![r] = e] =>
               \A p \in Requests : req'[p] = IF p = r THEN e ELSE req[p]
  BY <1>1
<1>3. ASSUME NEW e, e.pc # "pick", req' = [req EXCEPT ![r] = e] PROVE FALSE
  BY <1>2, <1>3
<1>4. CASE Pick(r)
  <2>1. PICK u \in PickExcluding(req[r].tried), b \in BOOLEAN :
          req' = [req EXCEPT ![r] = Picked(req[r], u, b)]
    BY <1>4 DEF Pick
  <2>2. Picked(req[r], u, b).pc # "pick"
    BY <1>1 DEF Picked, Request
  <2>3. QED
    BY <1>3, <2>1, <2>2
<1>5. CASE Exhausted(r) \/ FinishBody(r)
  <2>1. PICK answer, n : req' = [req EXCEPT ![r] = Answered(req[r], answer, n)]
    BY <1>5 DEF Exhausted, FinishBody, Answer
  <2>2. Answered(req[r], answer, n).pc # "pick"
    BY DEF Answered, IdleRequest
  <2>3. QED
    BY <1>3, <2>1, <2>2
<1>6. CASE RefreshFails(r)
  <2>1. PICK kind : req' = [req EXCEPT ![r] = RefreshRefused(req[r], kind)]
    BY <1>6 DEF RefreshFails
  <2>2. RefreshRefused(req[r], kind).pc # "pick"
    BY <1>1 DEF RefreshRefused, Request
  <2>3. QED
    BY <1>3, <2>1, <2>2
<1>7. CASE RefreshSucceeds(r) \/ ChatAccepted(r)
  <2>1. PICK pc \in {"chat", "body"} :
          req' = [req EXCEPT ![r] = [req[r] EXCEPT !.pc = pc]]
    BY <1>7 DEF RefreshSucceeds, ChatAccepted, Goto
  <2>2. [req[r] EXCEPT !.pc = pc].pc # "pick"
    BY <1>1 DEF Request
  <2>3. QED
    BY <1>3, <2>1, <2>2
<1>8. CASE ChatRejected(r)
  <2>1. PICK reply \in Replies :
          req' = [req EXCEPT ![r] = [req[r] EXCEPT
                !.pc = "classify", !.body = reply.body, !.status = reply.status]]
    BY <1>8, Zenon DEF ChatRejected
  <2>2. [req[r] EXCEPT !.pc = "classify", !.body = reply.body,
                       !.status = reply.status].pc # "pick"
    BY <1>1 DEF Request
  <2>3. QED
    BY <1>3, <2>1, <2>2
<1>9. CASE ClassifyReply(r)
  <2>1. PICK kind : req' = [req EXCEPT ![r] = Classified(req[r], kind)]
    BY <1>9 DEF ClassifyReply
  <2>2. Classified(req[r], kind).pc # "pick"
    BY <1>1 DEF Classified, Request
  <2>3. QED
    BY <1>3, <2>1, <2>2
<1>10. CASE PenaliseRefresh(r) \/ ChatTransportError(r) \/ Penalise(r)
  <2>1. PICK n : req' = [req EXCEPT ![r] = Rotated(req[r], n)]
    BY <1>10 DEF PenaliseRefresh, ChatTransportError, Penalise, NextRotation
  <2>2. QED
    BY <1>2, <1>10, <2>1
<1>11. QED
  BY <1>4, <1>5, <1>6, <1>7, <1>8, <1>9, <1>10 DEF RequestStep

LEMMA StepMarks ==
  ASSUME TypeOK, LocalsOK, AllAttemptsOK, [Next]_vars,
         NEW q \in Requests, req[q].pc # "pick", req'[q].pc = "pick"
  PROVE  Marked(req[q].acct)
<1>1. ASSUME NEW r \in Requests, RequestStep(r) PROVE Marked(req[q].acct)
  BY <1>1, ToPick, PenaltyMarks
<1>2. ASSUME NEW r \in Requests, Arrive(r) PROVE Marked(req[q].acct)
  <2>1. q = r
    BY <1>2 DEF Arrive, LocalsOK
  <2>2. req[q].acct = Nobody
    BY <1>2, <2>1 DEF Arrive, AllAttemptsOK, AttemptsOK
  <2>3. Nobody \notin DOMAIN byUID
    BY ChatConstantsAssumption DEF TypeOK
  <2>4. QED
    BY <2>2, <2>3 DEF Marked
<1>3. CASE \A r \in Requests : ~(Arrive(r) \/ RequestStep(r))
  <2>1. req' = req \/ req' = [r \in Requests |-> IdleRequest]
    BY <1>3, OtherSteps
  <2>2. QED
    BY <2>1 DEF IdleRequest
<1>4. QED
  BY <1>1, <1>2, <1>3

\* chatCompletions: whatever the upstream answered and whoever else works on
\* the pool, an account that failed a request leaves rotation or has an error
\* more.
THEOREM ChatFailurePenalised == Spec => FailureIsPenalised
<1>1. Inv /\ LocalsOK /\ AllAttemptsOK /\ [Next]_vars =>
        [\A r \in Requests :
          LET u == req[r].acct
          IN  req[r].pc # "pick" /\ req'[r].pc = "pick" /\ u \in DOMAIN byUID =>
                 \/ ~Healthy(byUID'[u], now)
                 \/ byUID'[u].errCount = byUID[u].errCount + 1]_vars
  BY StepMarks DEF Inv, Marked
<1>2. QED
  BY <1>1, ChatInvariant, ChatAttempts, PTL DEF Spec, FailureIsPenalised
=============================================================================
