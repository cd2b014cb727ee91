----------------------------- MODULE Credentials -----------------------------
(***************************************************************************)
(* The credential of one account: the *auth.Auth the pool points to, which *)
(* every request and the keepalive share and refresh in place, the file    *)
(* SaveAtomic rewrites (internal/auth/auth.go), the web login that replaces *)
(* both (internal/server/admin.go), and the restart that reads the file.   *)
(*                                                                         *)
(* Accounts do not share credentials, so one account is enough.  Of a      *)
(* credential only the refresh token is kept: the login session it belongs *)
(* to, and how many times that session's token was rotated.                *)
(*                                                                         *)
(* The auth server is external.  RefreshToken is written for a server that *)
(* may rotate the refresh token and then rejects the old one (40100,       *)
(* "refresh token was rejected"), and that is what is modelled.            *)
(***************************************************************************)
EXTENDS Integers, Sequences

CONSTANTS
    Workers,      \* goroutines: chat handlers, keepalives, login handlers
    Faults,       \* subset of {"disk", "lost", "crash"}
    Broken,       \* a document that does not parse: empty or cut short
    Nothing,      \* no token: none held, or a reply without a refreshToken
    MaxSessions,  \* bound: logins
    MaxRotations  \* bound: rotations of one session's refresh token

ASSUME BoundsAssumption == MaxSessions \in Nat \ {0} /\ MaxRotations \in Nat
ASSUME FaultsAssumption == Faults \subseteq {"disk", "lost", "crash"}

Sessions == 1 .. MaxSessions
Token == [session : Sessions, gen : 0 .. MaxRotations]

ASSUME MarkersAssumption == Broken \notin Token /\ Nothing \notin Token

NoObject == 0

VARIABLES
    objs,      \* the Auth objects of this process, in order of their Add;
               \* entry.a points to the last
    file,      \* lobsterai-<uid>.json
    temp,      \* the temporary files of the saves under way
    disabled,  \* entry.disabled, set by a dead session
    gen,       \* server: the rotation each session's live token has reached
    ended,     \* server: the sessions it has ended
    logins,    \* server: sessions begun so far
    onDisk,    \* history: sessions whose token has been in the file
    wk,        \* the locals of each goroutine
    behind,    \* history: how the last save to end has left the file
    passed,    \* history: goroutines whose save or login another has passed
    crossed    \* history: goroutines whose refresh another or a login met

history == <<behind, passed, crossed>>
vars == <<objs, file, temp, disabled, gen, ended, logins, onDisk, wk, history>>

\* o is the object the goroutine holds, NoObject for a login's own; tok is
\* what it received, or the document it is writing.
Worker == [pc : {"idle", "refresh", "apply", "disable", "save", "write",
                 "rename", "add"},
           o : Nat, tok : Token \cup {Nothing}]

IdleWorker == [pc |-> "idle", o |-> NoObject, tok |-> Nothing]

\* Go on with another step, or be done.
Goto(w, pc, tok) ==
    wk' = [wk EXCEPT ![w] = [pc |-> pc, o |-> wk[w].o, tok |-> tok]]
Begin(w, pc, o, tok) ==
    wk' = [wk EXCEPT ![w] = [pc |-> pc, o |-> o, tok |-> tok]]
Done(w) == wk' = [wk EXCEPT ![w] = IdleWorker]

Live(t) == t.session \notin ended /\ t.gen = gen[t.session]

FirstToken(s) == [session |-> s, gen |-> 0]
Rotate(t) == [session |-> t.session, gen |-> t.gen + 1]

-----------------------------------------------------------------------------
(* Refreshing *)

\* The goroutines with the pool's object whose next step is pc.
At(pc) == {v \in Workers : wk[v].pc = pc /\ wk[v].o = Len(objs)}

\* The requests to refresh the pool's object that overlap the one w begins,
\* and that one.
Meeting(w) ==
    IF At("refresh") \cup At("apply") = {} THEN {}
    ELSE At("refresh") \cup {w}

\* PickExcluding or List and AuthByUID: the pointer outlives the lock.
Pick(w) ==
    /\ wk[w].pc = "idle"
    /\ ~disabled /\ objs # <<>>
    /\ Begin(w, "refresh", Len(objs), Nothing)
    /\ crossed' = crossed \cup Meeting(w)
    /\ UNCHANGED <<objs, file, temp, disabled, gen, ended, logins, onDisk,
                   behind, passed>>

\* Mutant: the reply is decoded over a struct filled with the token sent, so
\* that a missing field stores that token again.
Prefilled(sent) == sent

\* A reply without a refreshToken leaves the field of the object alone.
NotRotated(sent) == Nothing

\* The server accepts the token in the object and may rotate it; it answers
\* that it did not, or with the new one, and the answer may be lost.
Accepted(w) ==
    /\ wk[w].pc = "refresh"
    /\ LET t == objs[wk[w].o]
       IN  /\ Live(t)
           /\ \/ /\ Goto(w, "apply", NotRotated(t))
                 /\ gen' = gen
              \/ /\ t.gen < MaxRotations
                 /\ gen' = [gen EXCEPT ![t.session] = @ + 1]
                 /\ \/ Goto(w, "apply", Rotate(t))
                    \/ "lost" \in Faults /\ Done(w)
    /\ crossed' = crossed \ {w}
    /\ UNCHANGED <<objs, file, temp, disabled, ended, logins, onDisk,
                   behind, passed>>

\* Mutant: any error of the refresh disables the account.
FailedForGood(w) ==
    /\ wk[w].pc = "refresh"
    /\ Goto(w, "disable", Nothing)
    /\ UNCHANGED <<objs, file, temp, disabled, gen, ended, logins, onDisk,
                   history>>

\* A server or transport error the server did not act on: a cooldown at most.
Failed(w) ==
    /\ wk[w].pc = "refresh"
    /\ Done(w)
    /\ crossed' = crossed \ {w}
    /\ UNCHANGED <<objs, file, temp, disabled, gen, ended, logins, onDisk,
                   behind, passed>>

Rejected(w) ==
    /\ wk[w].pc = "refresh"
    /\ ~Live(objs[wk[w].o])
    /\ Goto(w, "disable", Nothing)
    /\ UNCHANGED <<objs, file, temp, disabled, gen, ended, logins, onDisk,
                   history>>

\* Pool.Disable goes by uid: it hits whatever credential is there by now.
Disable(w) ==
    /\ wk[w].pc = "disable"
    /\ disabled' = TRUE
    /\ Done(w)
    /\ crossed' = crossed \ {w}
    /\ UNCHANGED <<objs, file, temp, gen, ended, logins, onDisk,
                   behind, passed>>

\* if tok.RefreshToken != "" { a.RefreshToken = tok.RefreshToken }
Store(old, tok) == IF tok = Nothing THEN old ELSE tok

\* Mutant: a refreshed credential is only kept in memory.
ApplyUnsaved(w) ==
    /\ wk[w].pc = "apply"
    /\ objs' = [objs EXCEPT ![wk[w].o] = Store(@, wk[w].tok)]
    /\ Done(w)
    /\ UNCHANGED <<file, temp, disabled, gen, ended, logins, onDisk,
                   history>>

Apply(w) ==
    /\ wk[w].pc = "apply"
    /\ objs' = [objs EXCEPT ![wk[w].o] = Store(@, wk[w].tok)]
    /\ Goto(w, "save", Nothing)
    /\ UNCHANGED <<file, temp, disabled, gen, ended, logins, onDisk,
                   history>>

-----------------------------------------------------------------------------
(* SaveAtomic *)

\* Mutant: every save uses the same temporary file.
SharedTemp(w) == "tmp"

\* os.CreateTemp: a name of its own for every save.
TempName(w) == w

IsLogin(w) == wk[w].o = NoObject

\* The document is built from the object, then the temporary file is made.
CreateTemp(w) ==
    /\ wk[w].pc = "save"
    /\ Goto(w, "write", IF IsLogin(w) THEN wk[w].tok ELSE objs[wk[w].o])
    /\ temp' = [n \in DOMAIN temp \cup {TempName(w)} |->
                   IF n = TempName(w) THEN Broken ELSE temp[n]]
    /\ UNCHANGED <<objs, file, disabled, gen, ended, logins, onDisk,
                   history>>

Without(n) == [m \in DOMAIN temp \ {n} |-> temp[m]]

Write(w) ==
    /\ wk[w].pc = "write"
    /\ Goto(w, "rename", wk[w].tok)
    /\ temp' = [n \in DOMAIN temp |->
                   IF n = TempName(w) THEN wk[w].tok ELSE temp[n]]
    /\ UNCHANGED <<objs, file, disabled, gen, ended, logins, onDisk,
                   history>>

\* Mutant: a login adds the account although it could not save it.
AddAnyway(w, saved) == IsLogin(w)

\* A login goes on to Pool.Add if the credential is saved; the others are
\* done, saved or not.
GoesOn(w, saved) == IsLogin(w) /\ saved

AfterSave(w, saved) ==
    IF GoesOn(w, saved) THEN Goto(w, "add", wk[w].tok) ELSE Done(w)

\* What the save of w writes, or would have written.
Document(w) == IF wk[w].pc = "save" THEN objs[wk[w].o] ELSE wk[w].tok

\* The saves with an older document of the object that w saves.
Overtaken(w) ==
    {v \in Workers : /\ ~IsLogin(w) /\ wk[v].o = wk[w].o
                     /\ wk[v].pc \in {"write", "rename"}
                     /\ wk[v].tok.gen < Document(w).gen}

\* The logins that have saved their credential and not yet added it.
Adding == {v \in Workers : wk[v].pc = "add"}

\* History: the file is behind the pool's object if its save failed, or if
\* the save that succeeded was one another had overtaken, or of an object
\* that a login had replaced.  A login has its say when it adds its own.
SaveEnds(w, saved) ==
    /\ behind' = CASE IsLogin(w) -> behind
                   [] ~IsLogin(w) /\ saved ->
                          w \in passed \/ wk[w].o # Len(objs)
                   [] OTHER -> behind \/ wk[w].o = Len(objs)
    /\ passed' = (passed \ {w}) \cup Overtaken(w)
                    \cup (IF saved THEN Adding ELSE {})
    /\ UNCHANGED crossed

\* Creating, writing or renaming fails: the temporary file is removed.
SaveFails(w) ==
    /\ "disk" \in Faults
    /\ wk[w].pc \in {"save", "write", "rename"}
    /\ temp' = IF wk[w].pc = "save" THEN temp ELSE Without(TempName(w))
    /\ AfterSave(w, FALSE)
    /\ SaveEnds(w, FALSE)
    /\ UNCHANGED <<objs, file, disabled, gen, ended, logins, onDisk>>

Rename(w) ==
    /\ wk[w].pc = "rename"
    /\ IF TempName(w) \in DOMAIN temp
       THEN /\ file' = temp[TempName(w)]
            /\ onDisk' = IF file' = Broken THEN onDisk
                         ELSE onDisk \cup {file'.session}
            /\ AfterSave(w, TRUE) /\ SaveEnds(w, TRUE)
       ELSE /\ UNCHANGED <<file, onDisk>>
            /\ AfterSave(w, FALSE) /\ SaveEnds(w, FALSE)
    /\ temp' = Without(TempName(w))
    /\ UNCHANGED <<objs, disabled, gen, ended, logins>>

-----------------------------------------------------------------------------
(* Login, administrator, server, restart *)

\* adminOAuthComplete: Exchange has begun a session.
Login(w) ==
    /\ wk[w].pc = "idle"
    /\ logins < MaxSessions
    /\ logins' = logins + 1
    /\ Begin(w, "save", NoObject, FirstToken(logins'))
    /\ UNCHANGED <<objs, file, temp, disabled, gen, ended, onDisk,
                   history>>

\* Pool.Add replaces the pointer and leaves disabled as it is.
Add(w) ==
    /\ wk[w].pc = "add"
    /\ objs' = Append(objs, wk[w].tok)
    /\ Done(w)
    /\ behind' = (w \in passed)
    /\ passed' = passed \ {w}
    /\ crossed' = crossed \cup {v \in Workers :
                                  wk[v].pc \in {"refresh", "disable"}}
    /\ UNCHANGED <<file, temp, disabled, gen, ended, logins, onDisk>>

Enable ==
    /\ disabled
    /\ disabled' = FALSE
    /\ UNCHANGED <<objs, file, temp, gen, ended, logins, onDisk, wk, history>>

EndSession(s) ==
    /\ s \notin ended
    /\ ended' = ended \cup {s}
    /\ UNCHANGED <<objs, file, temp, disabled, gen, logins, onDisk, wk,
                   history>>

\* LoadDir skips a file that does not parse; left-over temporary files do not
\* match its pattern and CreateTemp never reuses their names.
Restart ==
    /\ "crash" \in Faults
    /\ objs' = IF file = Broken THEN <<>> ELSE <<file>>
    /\ temp' = [n \in {} |-> Broken]
    /\ wk' = [w \in Workers |-> IdleWorker]
    /\ behind' = FALSE /\ passed' = {} /\ crossed' = {}
    /\ UNCHANGED <<file, disabled, gen, ended, logins, onDisk>>

Init ==
    /\ objs = <<FirstToken(1)>>
    /\ file = FirstToken(1)
    /\ temp = [n \in {} |-> Broken]
    /\ disabled = FALSE
    /\ gen = [s \in Sessions |-> 0]
    /\ ended = {}
    /\ logins = 1
    /\ onDisk = {1}
    /\ wk = [w \in Workers |-> IdleWorker]
    /\ behind = FALSE /\ passed = {} /\ crossed = {}

OwnStep(w) ==
    \/ Pick(w) \/ Accepted(w) \/ Failed(w) \/ Rejected(w) \/ Disable(w)
    \/ Apply(w) \/ CreateTemp(w) \/ Write(w) \/ Rename(w) \/ Add(w)

WorkerStep(w) == OwnStep(w) \/ SaveFails(w) \/ Login(w)

Next ==
    \/ \E w \in Workers : WorkerStep(w)
    \/ Enable
    \/ \E s \in Sessions : EndSession(s)
    \/ Restart

Spec == Init /\ [][Next]_vars

-----------------------------------------------------------------------------
(* Properties *)

TypeOK ==
    /\ objs \in Seq(Token)
    /\ file \in Token \cup {Broken}
    /\ DOMAIN temp \subseteq Workers
    /\ \A n \in DOMAIN temp : temp[n] \in Token \cup {Broken}
    /\ disabled \in BOOLEAN
    /\ gen \in [Sessions -> 0 .. MaxRotations]
    /\ ended \subseteq Sessions
    /\ logins \in Sessions
    /\ onDisk \subseteq Sessions
    /\ wk \in [Workers -> Worker]

\* Whatever saves run at the same time and wherever a crash cuts them, the
\* credential file is a whole document: a restart finds the account.
FileWhole == file # Broken

\* A login's credential is used only after it has been on disk: whatever
\* saves fail, no login enters the pool whose own save has failed.  (A refresh
\* whose save ends later may have overwritten the file by then.)
SavedBeforeUsed == \A o \in DOMAIN objs : objs[o].session \in onDisk

\* Refreshes that overlap never put an older refresh token back into the
\* object they share.
NeverBackwards ==
    [][\A o \in DOMAIN objs \cap DOMAIN objs' :
          \/ objs'[o].session = objs[o].session /\ objs'[o].gen >= objs[o].gen
          \/ Restart]_vars

\* A refresh token the server would take: in the pool's object, or answered
\* to a goroutine that is about to put it there.
Usable ==
    \/ objs # <<>> /\ Live(objs[Len(objs)])
    \/ \E v \in At("apply") : wk[v].tok # Nothing /\ Live(wk[v].tok)

\* Whatever fails, is lost or restarts: a refresh disables the account only
\* when the pool has no refresh token left that the server would take, be it
\* that the session has ended or that the answer with the new token was lost.
\* The exceptions are a refresh that overlapped another one of the same
\* object, and one during which a login replaced the object.  (What a chat's
\* own reply disables is not this module's.)
OnlyDeadDisabled ==
    [][\A w \in Workers : Disable(w) /\ w \notin crossed => ~Usable]_vars

\* While no save is under way the file holds the pool's credential, the
\* refreshed one: a restart would go on with a token the server accepts.
FileCurrent ==
    (\A w \in Workers : wk[w].pc \notin {"save", "write", "rename", "add"}) =>
        file = objs[Len(objs)]

\* Saves may overlap, fail or be cut off by a crash: when all are over, the
\* file holds the pool's credential unless the last word was a failing save
\* of it, a save another one with a newer token had overtaken, or a save of
\* a credential that a login had replaced.
FileCatchesUp == ~behind => FileCurrent

=============================================================================
