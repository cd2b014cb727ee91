--------------------------- MODULE WebLoginProofs ---------------------------
(***************************************************************************)
(* For any number of goroutines, logins, rotations and login sessions,     *)
(* with failing saves, lost answers and crashes.                           *)
(*                                                                         *)
(* Credentials: the credential file is always a whole document, a login is *)
(* on disk before it is used, and overlapping refreshes never put an older *)
(* refresh token back.  The last one needs Pending: between a server's     *)
(* answer and its assignment the answer is newer than the object, so that  *)
(* no other refresh of that object can be accepted meanwhile.              *)
(*                                                                         *)
(* That the file catches up needs FileInv: what each save under way will   *)
(* leave there, and that a document older than its object is marked as     *)
(* passed.  That a refresh disables only what is dead needs KnownTokens,   *)
(* nobody holds a token the server has not given out, and UncrossedOK, a   *)
(* refresh that nothing crossed has the pool's object for itself.          *)
(*                                                                         *)
(* WebLogin: it is a way of using credentials that Credentials allows, so  *)
(* that all of this holds of it, and every login session is consumed at    *)
(* most once, with its own code.  The second needs to know that a session  *)
(* a handler has taken is out of the table, in no other handler's hands    *)
(* and not yet exchanged (InHand).  That only links that wait fill the     *)
(* table needs LinksOK: a link is in it until it is named or expires.      *)
(***************************************************************************)
EXTENDS WebLogin, SequenceTheorems, FiniteSetTheorems, TLAPS

Pending(l) == l.pc = "apply" /\ l.tok # Nothing

\* What goroutine w knows, with locals l, objects ob, temporary files tp,
\* saved sessions od and the server's rotations g.
LocalsOK(w, l, ob, tp, od, g) ==
    /\ l \in Worker
    /\ l.o \in {NoObject} \cup DOMAIN ob
    /\ l.pc \in {"refresh", "apply", "disable"} => l.o # NoObject
    /\ l.pc \in {"write", "rename", "add"} => l.tok \in Token
    /\ l.pc = "save" /\ l.o = NoObject => l.tok \in Token
    /\ l.pc = "write" => w \in DOMAIN tp
    /\ l.pc = "rename" => w \in DOMAIN tp /\ tp[w] = l.tok
    /\ l.pc = "add" => l.tok.session \in od
    /\ Pending(l) => /\ l.tok \in Token
                     /\ l.tok.session = ob[l.o].session
                     /\ ob[l.o].gen < l.tok.gen
                     /\ l.tok.gen <= g[l.tok.session]

WorkersOK == \A w \in Workers : LocalsOK(w, wk[w], objs, temp, onDisk, gen)

OnePending ==
    \A v, w \in Workers :
        Pending(wk[v]) /\ Pending(wk[w]) /\ wk[v].o = wk[w].o => v = w

FileSaved == file \in Token /\ file.session \in onDisk

IInv == TypeOK /\ FileSaved /\ SavedBeforeUsed /\ WorkersOK /\ OnePending

-----------------------------------------------------------------------------
(* Facts about the values the steps build *)

LEMMA TokenFields ==
  ASSUME NEW t \in Token
  PROVE  /\ t.session \in Sessions /\ t.gen \in 0 .. MaxRotations
         /\ t.gen \in Nat /\ t # Broken /\ t # Nothing
  BY MarkersAssumption DEF Token

LEMMA FirstTokenType ==
  ASSUME NEW s \in Sessions
  PROVE  FirstToken(s) \in Token /\ FirstToken(s).session = s
<1>1. 0 \in 0 .. MaxRotations
  BY BoundsAssumption
<1>2. QED
  BY <1>1 DEF FirstToken, Token

LEMMA RotateType ==
  ASSUME NEW t \in Token, t.gen < MaxRotations
  PROVE  /\ Rotate(t) \in Token
         /\ Rotate(t).session = t.session
         /\ Rotate(t).gen = t.gen + 1
<1>1. t.gen + 1 \in 0 .. MaxRotations
  BY TokenFields, BoundsAssumption
<1>2. t.session \in Sessions
  BY TokenFields
<1>3. QED
  BY <1>1, <1>2 DEF Rotate, Token

LEMMA IdleOK ==
  ASSUME NEW w, NEW ob, NEW tp, NEW od, NEW g
  PROVE  LocalsOK(w, IdleWorker, ob, tp, od, g) /\ ~Pending(IdleWorker)
<1>1. IdleWorker \in Worker /\ IdleWorker.pc = "idle" /\ IdleWorker.o = NoObject
  BY DEF IdleWorker, Worker, NoObject
<1>2. QED
  BY <1>1 DEF LocalsOK, Pending

\* What a goroutine knows stays true while the others only add objects,
\* saved sessions and rotations and leave its temporary file alone.
LEMMA Frame ==
  ASSUME TypeOK, NEW v \in Workers,
         LocalsOK(v, wk[v], objs, temp, onDisk, gen),
         NEW ob, NEW tp, NEW od, NEW g,
         DOMAIN objs \subseteq DOMAIN ob,
         \A o \in DOMAIN objs : ob[o] = objs[o],
         onDisk \subseteq od,
         g \in [Sessions -> 0 .. MaxRotations],
         \A s \in Sessions : gen[s] <= g[s],
         v \in DOMAIN temp => v \in DOMAIN tp /\ tp[v] = temp[v]
  PROVE  LocalsOK(v, wk[v], ob, tp, od, g)
<1> DEFINE l == wk[v]
<1>1. Pending(l) => /\ l.tok \in Token
                    /\ l.tok.session = ob[l.o].session
                    /\ ob[l.o].gen < l.tok.gen
                    /\ l.tok.gen <= g[l.tok.session]
  <2> SUFFICES ASSUME Pending(l)
               PROVE  /\ l.tok \in Token
                      /\ l.tok.session = ob[l.o].session
                      /\ ob[l.o].gen < l.tok.gen
                      /\ l.tok.gen <= g[l.tok.session]
    OBVIOUS
  <2>1. l.o \in DOMAIN objs
    BY DEF LocalsOK, Pending
  <2>2. l.tok \in Token /\ l.tok.session = objs[l.o].session
        /\ objs[l.o].gen < l.tok.gen /\ l.tok.gen <= gen[l.tok.session]
    BY DEF LocalsOK
  <2>3. ob[l.o] = objs[l.o]
    BY <2>1
  <2>4. l.tok.session \in Sessions /\ l.tok.gen \in Nat
    BY <2>2, TokenFields
  <2>5. gen[l.tok.session] <= g[l.tok.session]
    BY <2>4
  <2>6. gen[l.tok.session] \in Nat /\ g[l.tok.session] \in Nat
    BY <2>4 DEF TypeOK
  <2>7. QED
    BY <2>2, <2>3, <2>4, <2>5, <2>6
<1> HIDE DEF l
<1>2. l.o \in {NoObject} \cup DOMAIN ob
  BY DEF LocalsOK, l
<1>3. QED
  BY <1>1, <1>2 DEF LocalsOK, l

\* One goroutine moves on, the others keep what they know.
LEMMA Step ==
  ASSUME WorkersOK, OnePending, wk \in [Workers -> Worker],
         NEW w \in Workers, NEW l, wk' = [wk EXCEPT ![w] = l],
         LocalsOK(w, l, objs', temp', onDisk', gen'),
         \A v \in Workers \ {w} : LocalsOK(v, wk[v], objs', temp', onDisk', gen'),
         \A v \in Workers \ {w} :
             ~(Pending(l) /\ Pending(wk[v]) /\ l.o = wk[v].o)
  PROVE  WorkersOK' /\ OnePending' /\ wk' \in [Workers -> Worker]
<1>1. \A v \in Workers : wk'[v] = IF v = w THEN l ELSE wk[v]
  OBVIOUS
<1>2. WorkersOK'
  BY <1>1 DEF WorkersOK
<1>3. OnePending'
  BY <1>1 DEF OnePending
<1>4. l \in Worker
  BY DEF LocalsOK
<1>5. QED
  BY <1>2, <1>3, <1>4

-----------------------------------------------------------------------------
(* Every step keeps IInv: refreshing *)

\* Goroutine w moves to locals l and touches nothing the others know.
LEMMA LocalStep ==
  ASSUME IInv, NEW w \in Workers, NEW l, wk' = [wk EXCEPT ![w] = l],
         LocalsOK(w, l, objs', temp', onDisk', gen'), ~Pending(l),
         UNCHANGED <<objs, file, temp, gen, onDisk>>,
         disabled' \in BOOLEAN, UNCHANGED <<ended, logins>>
  PROVE  IInv'
<1>1. \A v \in Workers \ {w} :
        LocalsOK(v, wk[v], objs', temp', onDisk', gen')
  BY DEF IInv, WorkersOK
<1>2. WorkersOK' /\ OnePending' /\ wk' \in [Workers -> Worker]
  BY <1>1, Step DEF IInv, TypeOK
<1>3. TypeOK'
  BY <1>2 DEF IInv, TypeOK
<1>4. FileSaved' /\ SavedBeforeUsed'
  BY DEF IInv, FileSaved, SavedBeforeUsed
<1>5. QED
  BY <1>2, <1>3, <1>4 DEF IInv

LEMMA DoneStep ==
  ASSUME IInv, NEW w \in Workers, Done(w),
         UNCHANGED <<objs, file, temp, gen, onDisk>>,
         disabled' \in BOOLEAN, UNCHANGED <<ended, logins>>
  PROVE  IInv'
BY IdleOK, LocalStep DEF Done

LEMMA PickOK ==
  ASSUME IInv, NEW w \in Workers, Pick(w)
  PROVE  IInv'
<1> DEFINE l == [pc |-> "refresh", o |-> Len(objs), tok |-> Nothing]
<1>1. Len(objs) \in DOMAIN objs /\ Len(objs) \in Nat /\ Len(objs) # NoObject
  BY DEF Pick, IInv, TypeOK, NoObject
<1>2. l \in Worker /\ l.pc = "refresh" /\ l.o = Len(objs) /\ l.tok = Nothing
  BY <1>1 DEF Worker
<1>3. wk' = [wk EXCEPT ![w] = l]
  BY DEF Pick, Begin
<1>4. disabled' \in BOOLEAN /\ UNCHANGED <<objs, file, temp, gen, onDisk, ended, logins>>
  BY DEF Pick, IInv, TypeOK
<1> HIDE DEF l
<1>5. LocalsOK(w, l, objs', temp', onDisk', gen') /\ ~Pending(l)
  BY <1>1, <1>2, <1>4 DEF LocalsOK, Pending
<1>6. QED
  BY <1>3, <1>4, <1>5, LocalStep

LEMMA RejectedOK ==
  ASSUME IInv, NEW w \in Workers, Rejected(w)
  PROVE  IInv'
<1> DEFINE l == [pc |-> "disable", o |-> wk[w].o, tok |-> Nothing]
<1>1. LocalsOK(w, wk[w], objs, temp, onDisk, gen) /\ wk[w] \in Worker
  BY DEF IInv, WorkersOK, TypeOK
<1>2. wk[w].o \in Nat /\ wk[w].o \in {NoObject} \cup DOMAIN objs /\ wk[w].o # NoObject
  BY <1>1 DEF Worker, LocalsOK, Rejected
<1>3. l \in Worker /\ l.pc = "disable" /\ l.o = wk[w].o /\ l.tok = Nothing
  BY <1>2 DEF Worker
<1>4. wk' = [wk EXCEPT ![w] = l]
  BY DEF Rejected, Goto
<1>5. disabled' \in BOOLEAN /\ UNCHANGED <<objs, file, temp, gen, onDisk, ended, logins>>
  BY DEF Rejected, IInv, TypeOK
<1> HIDE DEF l
<1>6. LocalsOK(w, l, objs', temp', onDisk', gen') /\ ~Pending(l)
  BY <1>2, <1>3, <1>5 DEF LocalsOK, Pending
<1>7. QED
  BY <1>4, <1>5, <1>6, LocalStep

LEMMA DisableOK ==
  ASSUME IInv, NEW w \in Workers, Disable(w) \/ Failed(w)
  PROVE  IInv'
BY DoneStep DEF Disable, Failed, IInv, TypeOK

\* The object of an accepted refresh is live, so no answer to another
\* refresh of it is waiting: its token would be newer than the server's.
LEMMA AcceptedOK ==
  ASSUME IInv, NEW w \in Workers, Accepted(w)
  PROVE  IInv'
<1> DEFINE o == wk[w].o
           t == objs[o]
<1>1. LocalsOK(w, wk[w], objs, temp, onDisk, gen) /\ wk[w] \in Worker
  BY DEF IInv, WorkersOK, TypeOK
<1>2. o \in Nat /\ o \in DOMAIN objs /\ o # NoObject
  BY <1>1 DEF Worker, LocalsOK, Accepted
<1>3. t \in Token /\ t.session \in Sessions /\ t.gen \in Nat
  BY <1>2, TokenFields, ElementOfSeq DEF IInv, TypeOK
<1>4. t.gen = gen[t.session]
  BY DEF Accepted, Live
<1>5. UNCHANGED <<objs, file, temp, disabled, ended, logins, onDisk>>
  BY DEF Accepted
<1>6. CASE Goto(w, "apply", NotRotated(t)) /\ gen' = gen
  <2> DEFINE l == [pc |-> "apply", o |-> o, tok |-> Nothing]
  <2>1. l \in Worker /\ l.pc = "apply" /\ l.o = o /\ l.tok = Nothing
    BY <1>2 DEF Worker
  <2>2. wk' = [wk EXCEPT ![w] = l]
    BY <1>6 DEF Goto, NotRotated
  <2> HIDE DEF l
  <2>3. LocalsOK(w, l, objs', temp', onDisk', gen') /\ ~Pending(l)
    BY <1>2, <1>5, <2>1 DEF LocalsOK, Pending
  <2>4. disabled' \in BOOLEAN
    BY <1>5 DEF IInv, TypeOK
  <2>5. QED
    BY <1>5, <1>6, <2>2, <2>3, <2>4, LocalStep
<1>7. CASE /\ t.gen < MaxRotations /\ gen' = [gen EXCEPT ![t.session] = @ + 1]
           /\ Goto(w, "apply", Rotate(t)) \/ Done(w)
  <2>1. /\ gen' \in [Sessions -> 0 .. MaxRotations]
        /\ gen'[t.session] = t.gen + 1
        /\ \A s \in Sessions : gen[s] <= gen'[s]
    BY <1>3, <1>4, <1>7, BoundsAssumption DEF IInv, TypeOK
  <2>2. \A v \in Workers : LocalsOK(v, wk[v], objs', temp', onDisk', gen')
    BY <1>5, <2>1, Frame DEF IInv, WorkersOK
  <2>3. FileSaved' /\ SavedBeforeUsed'
    BY <1>5 DEF IInv, FileSaved, SavedBeforeUsed
  <2>4. CASE Done(w)
    <3>1. WorkersOK' /\ OnePending' /\ wk' \in [Workers -> Worker]
      BY <2>2, <2>4, IdleOK, Step DEF Done, IInv, TypeOK
    <3>2. TypeOK'
      BY <1>5, <2>1, <3>1 DEF IInv, TypeOK
    <3>3. QED
      BY <2>3, <3>1, <3>2 DEF IInv
  <2>5. CASE Goto(w, "apply", Rotate(t))
    <3> DEFINE l == [pc |-> "apply", o |-> o, tok |-> Rotate(t)]
    <3>1. /\ Rotate(t) \in Token /\ Rotate(t).session = t.session
          /\ Rotate(t).gen = t.gen + 1
      BY <1>3, <1>7, RotateType
    <3>2. l \in Worker /\ l.pc = "apply" /\ l.o = o /\ l.tok = Rotate(t)
      BY <1>2, <3>1 DEF Worker
    <3>3. wk' = [wk EXCEPT ![w] = l]
      BY <2>5 DEF Goto
    <3> HIDE DEF l
    <3>4. t.gen < t.gen + 1 /\ t.gen + 1 <= gen'[t.session]
      BY <1>3, <2>1
    <3>5. LocalsOK(w, l, objs', temp', onDisk', gen')
      BY <1>2, <1>5, <3>1, <3>2, <3>4 DEF LocalsOK, Pending
    <3>6. ASSUME NEW v \in Workers, Pending(wk[v]), wk[v].o = o
          PROVE  FALSE
      <4>1. /\ wk[v].tok \in Token /\ wk[v].tok.session = t.session
            /\ t.gen < wk[v].tok.gen
            /\ wk[v].tok.gen <= gen[wk[v].tok.session]
        BY <3>6 DEF IInv, WorkersOK, LocalsOK
      <4>2. wk[v].tok.gen \in Nat
        BY <4>1, TokenFields
      <4>3. QED
        BY <1>3, <1>4, <4>1, <4>2
    <3>7. \A v \in Workers \ {w} :
             ~(Pending(l) /\ Pending(wk[v]) /\ l.o = wk[v].o)
      BY <3>2, <3>6
    <3>8. WorkersOK /\ OnePending /\ wk \in [Workers -> Worker]
      BY DEF IInv, TypeOK
    <3> HIDE DEF o, t
    <3>9. WorkersOK' /\ OnePending' /\ wk' \in [Workers -> Worker]
      BY <2>2, <3>3, <3>5, <3>7, <3>8, Step
    <3>10. TypeOK'
      BY <1>5, <2>1, <3>9 DEF IInv, TypeOK
    <3>11. QED
      BY <2>3, <3>9, <3>10 DEF IInv
  <2>6. QED
    BY <1>7, <2>4, <2>5
<1>8. QED
  BY <1>6, <1>7 DEF Accepted

LEMMA StoreType ==
  ASSUME NEW old \in Token, NEW tok \in Token \cup {Nothing}
  PROVE  Store(old, tok) \in Token
  BY DEF Store

\* Applying the answer: the object moves to the token received, or stays.
LEMMA ApplyOK ==
  ASSUME IInv, NEW w \in Workers, Apply(w)
  PROVE  /\ IInv'
         /\ \A o \in DOMAIN objs :
               /\ o \in DOMAIN objs'
               /\ objs'[o].session = objs[o].session
               /\ objs'[o].gen >= objs[o].gen
<1> DEFINE p == wk[w].o
           tok == wk[w].tok
           l == [pc |-> "save", o |-> p, tok |-> Nothing]
<1>1. LocalsOK(w, wk[w], objs, temp, onDisk, gen) /\ wk[w] \in Worker
  BY DEF IInv, WorkersOK, TypeOK
<1>2. p \in Nat /\ p \in DOMAIN objs /\ p # NoObject /\ tok \in Token \cup {Nothing}
  BY <1>1 DEF Worker, LocalsOK, Apply
<1>3. tok # Nothing => /\ tok \in Token /\ tok.session = objs[p].session
                       /\ objs[p].gen < tok.gen
  BY <1>1 DEF LocalsOK, Pending, Apply
<1>4. objs \in Seq(Token) /\ objs[p] \in Token
  BY <1>2, ElementOfSeq DEF IInv, TypeOK
<1>5. Store(objs[p], tok) \in Token
  BY <1>2, <1>4, StoreType
<1>6. objs' = [objs EXCEPT ![p] = Store(objs[p], tok)]
  BY DEF Apply
<1>7. /\ objs' \in Seq(Token) /\ DOMAIN objs' = DOMAIN objs
      /\ objs'[p] = Store(objs[p], tok)
      /\ \A o \in DOMAIN objs \ {p} : objs'[o] = objs[o]
  BY <1>2, <1>4, <1>5, <1>6, ExceptSeq
<1>8. objs'[p].session = objs[p].session /\ objs'[p].gen >= objs[p].gen
  <2>1. CASE tok = Nothing
    BY <1>4, <1>7, <2>1, TokenFields DEF Store
  <2>2. CASE tok # Nothing
    BY <1>3, <1>4, <1>7, <2>2, TokenFields DEF Store
  <2>3. QED
    BY <2>1, <2>2
<1>9. \A o \in DOMAIN objs : objs[o] \in Token /\ objs[o].gen \in Nat
  BY <1>4, ElementOfSeq, TokenFields
<1>10. \A o \in DOMAIN objs :
         /\ o \in DOMAIN objs'
         /\ objs'[o].session = objs[o].session
         /\ objs'[o].gen >= objs[o].gen
  BY <1>7, <1>8, <1>9
<1>11. UNCHANGED <<file, temp, disabled, gen, ended, logins, onDisk>>
  BY DEF Apply
<1>12. l \in Worker /\ l.pc = "save" /\ l.o = p /\ l.tok = Nothing
  BY <1>2 DEF Worker
<1>13. wk' = [wk EXCEPT ![w] = l]
  BY DEF Apply, Goto
<1> HIDE DEF l
<1>14. LocalsOK(w, l, objs', temp', onDisk', gen') /\ ~Pending(l)
  BY <1>2, <1>7, <1>12 DEF LocalsOK, Pending
<1>15. \A v \in Workers \ {w} : LocalsOK(v, wk[v], objs', temp', onDisk', gen')
  <2> SUFFICES ASSUME NEW v \in Workers \ {w}
               PROVE  LocalsOK(v, wk[v], objs', temp', onDisk', gen')
    OBVIOUS
  <2>1. LocalsOK(v, wk[v], objs, temp, onDisk, gen)
    BY DEF IInv, WorkersOK
  <2>2. CASE Pending(wk[v])
    <3>1. tok = Nothing \/ wk[v].o # p
      BY <2>2 DEF Apply, Pending, IInv, OnePending
    <3>2. wk[v].o \in DOMAIN objs
      BY <2>1, <2>2 DEF LocalsOK, Pending
    <3>3. objs'[wk[v].o] = objs[wk[v].o]
      BY <1>7, <3>1, <3>2 DEF Store
    <3>4. QED
      BY <1>7, <1>11, <2>1, <3>3 DEF LocalsOK
  <2>3. CASE ~Pending(wk[v])
    BY <1>7, <1>11, <2>1, <2>3 DEF LocalsOK
  <2>4. QED
    BY <2>2, <2>3
<1>16. WorkersOK /\ OnePending /\ wk \in [Workers -> Worker]
  BY DEF IInv, TypeOK
<1>17. WorkersOK' /\ OnePending' /\ wk' \in [Workers -> Worker]
  BY <1>13, <1>14, <1>15, <1>16, Step
<1>18. TypeOK'
  BY <1>7, <1>11, <1>17 DEF IInv, TypeOK
<1>19. FileSaved' /\ SavedBeforeUsed'
  BY <1>7, <1>10, <1>11 DEF IInv, FileSaved, SavedBeforeUsed
<1>20. QED
  BY <1>10, <1>17, <1>18, <1>19 DEF IInv

-----------------------------------------------------------------------------
(* Every step keeps IInv: SaveAtomic *)

\* The steps of a save move w to l and touch no temporary file but its own.
LEMMA SaveStep ==
  ASSUME IInv, NEW w \in Workers, NEW l, wk' = [wk EXCEPT ![w] = l],
         LocalsOK(w, l, objs', temp', onDisk', gen'), ~Pending(l),
         DOMAIN temp' \subseteq Workers,
         \A n \in DOMAIN temp' : temp'[n] \in Token \cup {Broken},
         \A v \in Workers \ {w} :
             v \in DOMAIN temp => v \in DOMAIN temp' /\ temp'[v] = temp[v],
         file' \in Token, file'.session \in onDisk',
         onDisk \subseteq onDisk', onDisk' \subseteq Sessions,
         UNCHANGED <<objs, disabled, gen, ended, logins>>
  PROVE  IInv'
<1>1. \A v \in Workers \ {w} : LocalsOK(v, wk[v], objs', temp', onDisk', gen')
  <2> SUFFICES ASSUME NEW v \in Workers \ {w}
               PROVE  LocalsOK(v, wk[v], objs', temp', onDisk', gen')
    OBVIOUS
  <2>1. LocalsOK(v, wk[v], objs, temp, onDisk, gen)
    BY DEF IInv, WorkersOK
  <2>2. v \in DOMAIN temp => v \in DOMAIN temp' /\ temp'[v] = temp[v]
    OBVIOUS
  <2>3. QED
    BY <2>1, <2>2 DEF LocalsOK
<1>2. WorkersOK /\ OnePending /\ wk \in [Workers -> Worker]
  BY DEF IInv, TypeOK
<1>3. WorkersOK' /\ OnePending' /\ wk' \in [Workers -> Worker]
  BY <1>1, <1>2, Step
<1>4. TypeOK'
  BY <1>3 DEF IInv, TypeOK
<1>5. FileSaved' /\ SavedBeforeUsed'
  BY DEF IInv, FileSaved, SavedBeforeUsed
<1>6. QED
  BY <1>3, <1>4, <1>5 DEF IInv

LEMMA CreateTempOK ==
  ASSUME IInv, NEW w \in Workers, CreateTemp(w)
  PROVE  IInv'
<1> DEFINE doc == IF IsLogin(w) THEN wk[w].tok ELSE objs[wk[w].o]
           l == [pc |-> "write", o |-> wk[w].o, tok |-> doc]
<1>1. LocalsOK(w, wk[w], objs, temp, onDisk, gen) /\ wk[w] \in Worker
  BY DEF IInv, WorkersOK, TypeOK
<1>2. wk[w].o \in Nat /\ wk[w].o \in {NoObject} \cup DOMAIN objs
  BY <1>1 DEF Worker, LocalsOK
<1>3. doc \in Token
  BY <1>1, <1>2, ElementOfSeq DEF LocalsOK, IsLogin, CreateTemp, IInv, TypeOK
<1>4. l \in Worker /\ l.pc = "write" /\ l.o = wk[w].o /\ l.tok = doc
  BY <1>2, <1>3 DEF Worker
<1>5. wk' = [wk EXCEPT ![w] = l]
  BY DEF CreateTemp, Goto
<1>6. temp' = [n \in DOMAIN temp \cup {w} |-> IF n = w THEN Broken ELSE temp[n]]
  BY DEF CreateTemp, TempName
<1>7. UNCHANGED <<objs, file, disabled, gen, ended, logins, onDisk>>
  BY DEF CreateTemp
<1> HIDE DEF l, doc
<1>8. w \in DOMAIN temp'
  BY <1>6
<1>9. LocalsOK(w, l, objs', temp', onDisk', gen') /\ ~Pending(l)
  BY <1>2, <1>3, <1>4, <1>7, <1>8 DEF LocalsOK, Pending
<1>10. /\ DOMAIN temp' \subseteq Workers
       /\ \A n \in DOMAIN temp' : temp'[n] \in Token \cup {Broken}
       /\ \A v \in Workers \ {w} :
             v \in DOMAIN temp => v \in DOMAIN temp' /\ temp'[v] = temp[v]
  BY <1>6 DEF IInv, TypeOK
<1>11. file' \in Token /\ file'.session \in onDisk' /\ onDisk \subseteq onDisk'
       /\ onDisk' \subseteq Sessions
  BY <1>7 DEF IInv, TypeOK, FileSaved
<1>12. QED
  BY <1>5, <1>7, <1>9, <1>10, <1>11, SaveStep

LEMMA WriteOK ==
  ASSUME IInv, NEW w \in Workers, Write(w)
  PROVE  IInv'
<1> DEFINE l == [pc |-> "rename", o |-> wk[w].o, tok |-> wk[w].tok]
<1>1. LocalsOK(w, wk[w], objs, temp, onDisk, gen) /\ wk[w] \in Worker
  BY DEF IInv, WorkersOK, TypeOK
<1>2. /\ wk[w].o \in Nat /\ wk[w].o \in {NoObject} \cup DOMAIN objs
      /\ wk[w].tok \in Token /\ w \in DOMAIN temp
  BY <1>1 DEF Worker, LocalsOK, Write
<1>3. l \in Worker /\ l.pc = "rename" /\ l.o = wk[w].o /\ l.tok = wk[w].tok
  BY <1>2 DEF Worker
<1>4. wk' = [wk EXCEPT ![w] = l]
  BY DEF Write, Goto
<1>5. temp' = [n \in DOMAIN temp |-> IF n = w THEN wk[w].tok ELSE temp[n]]
  BY DEF Write, TempName
<1>6. UNCHANGED <<objs, file, disabled, gen, ended, logins, onDisk>>
  BY DEF Write
<1> HIDE DEF l
<1>7. w \in DOMAIN temp' /\ temp'[w] = wk[w].tok
  BY <1>2, <1>5
<1>8. LocalsOK(w, l, objs', temp', onDisk', gen') /\ ~Pending(l)
  BY <1>2, <1>3, <1>6, <1>7 DEF LocalsOK, Pending
<1>9. /\ DOMAIN temp' \subseteq Workers
      /\ \A n \in DOMAIN temp' : temp'[n] \in Token \cup {Broken}
      /\ \A v \in Workers \ {w} :
            v \in DOMAIN temp => v \in DOMAIN temp' /\ temp'[v] = temp[v]
  BY <1>2, <1>5 DEF IInv, TypeOK
<1>10. file' \in Token /\ file'.session \in onDisk' /\ onDisk \subseteq onDisk'
       /\ onDisk' \subseteq Sessions
  BY <1>6 DEF IInv, TypeOK, FileSaved
<1>11. QED
  BY <1>4, <1>6, <1>8, <1>9, <1>10, SaveStep

LEMMA WithoutTemp ==
  ASSUME IInv, NEW w \in Workers, temp' = Without(w) \/ temp' = temp
  PROVE  /\ DOMAIN temp' \subseteq Workers
         /\ \A n \in DOMAIN temp' : temp'[n] \in Token \cup {Broken}
         /\ \A v \in Workers \ {w} :
               v \in DOMAIN temp => v \in DOMAIN temp' /\ temp'[v] = temp[v]
  BY DEF IInv, TypeOK, Without

LEMMA SaveFailsOK ==
  ASSUME IInv, NEW w \in Workers, SaveFails(w)
  PROVE  IInv'
<1>1. wk' = [wk EXCEPT ![w] = IdleWorker]
  BY DEF SaveFails, AfterSave, GoesOn, Done
<1>2. temp' = Without(w) \/ temp' = temp
  BY DEF SaveFails, TempName
<1>3. file' \in Token /\ file'.session \in onDisk' /\ onDisk \subseteq onDisk'
      /\ onDisk' \subseteq Sessions
  BY DEF SaveFails, IInv, TypeOK, FileSaved
<1>4. UNCHANGED <<objs, disabled, gen, ended, logins>>
  BY DEF SaveFails
<1>5. QED
  BY <1>1, <1>2, <1>3, <1>4, IdleOK, WithoutTemp, SaveStep

LEMMA RenameOK ==
  ASSUME IInv, NEW w \in Workers, Rename(w)
  PROVE  IInv'
<1> DEFINE l == IF IsLogin(w)
                THEN [pc |-> "add", o |-> wk[w].o, tok |-> wk[w].tok]
                ELSE IdleWorker
<1>1. LocalsOK(w, wk[w], objs, temp, onDisk, gen) /\ wk[w] \in Worker
  BY DEF IInv, WorkersOK, TypeOK
<1>2. /\ wk[w].o \in Nat /\ wk[w].o \in {NoObject} \cup DOMAIN objs
      /\ wk[w].tok \in Token /\ w \in DOMAIN temp /\ temp[w] = wk[w].tok
  BY <1>1 DEF Worker, LocalsOK, Rename
<1>3. wk[w].tok.session \in Sessions /\ wk[w].tok # Broken
  BY <1>2, TokenFields
<1>4. file' = wk[w].tok /\ onDisk' = onDisk \cup {wk[w].tok.session}
  BY <1>2, <1>3 DEF Rename, TempName
<1>5. wk' = [wk EXCEPT ![w] = l]
  BY <1>2 DEF Rename, TempName, AfterSave, GoesOn, Goto, Done
<1>6. temp' = Without(w)
  BY DEF Rename, TempName
<1>7. UNCHANGED <<objs, disabled, gen, ended, logins>>
  BY DEF Rename
<1>8. LocalsOK(w, l, objs', temp', onDisk', gen') /\ ~Pending(l)
  <2>1. CASE IsLogin(w)
    <3>1. l \in Worker /\ l.pc = "add" /\ l.o = wk[w].o /\ l.tok = wk[w].tok
      BY <1>2, <2>1 DEF Worker
    <3> HIDE DEF l
    <3>2. QED
      BY <1>2, <1>4, <1>7, <3>1 DEF LocalsOK, Pending
  <2>2. CASE ~IsLogin(w)
    BY <2>2, IdleOK
  <2>3. QED
    BY <2>1, <2>2
<1> HIDE DEF l
<1>9. file' \in Token /\ file'.session \in onDisk' /\ onDisk \subseteq onDisk'
      /\ onDisk' \subseteq Sessions
  BY <1>2, <1>3, <1>4 DEF IInv, TypeOK
<1>10. QED
  BY <1>5, <1>6, <1>7, <1>8, <1>9, WithoutTemp, SaveStep

-----------------------------------------------------------------------------
(* Every step keeps IInv: login, administrator, server, restart *)

LEMMA LoginOK ==
  ASSUME IInv, NEW w \in Workers, Login(w)
  PROVE  IInv'
<1> DEFINE t == FirstToken(logins')
           l == [pc |-> "save", o |-> NoObject, tok |-> t]
<1>1. logins' \in Sessions
  BY BoundsAssumption DEF Login, IInv, TypeOK, Sessions
<1>2. t \in Token
  BY <1>1, FirstTokenType
<1>3. l \in Worker /\ l.pc = "save" /\ l.o = NoObject /\ l.tok = t
  BY <1>2 DEF Worker, NoObject
<1>4. wk' = [wk EXCEPT ![w] = l]
  BY DEF Login, Begin
<1>5. UNCHANGED <<objs, file, temp, disabled, gen, ended, onDisk>>
  BY DEF Login
<1> HIDE DEF l, t
<1>6. LocalsOK(w, l, objs', temp', onDisk', gen') /\ ~Pending(l)
  BY <1>2, <1>3 DEF LocalsOK, Pending
<1>7. \A v \in Workers \ {w} : LocalsOK(v, wk[v], objs', temp', onDisk', gen')
  BY <1>5 DEF IInv, WorkersOK
<1>8. WorkersOK /\ OnePending /\ wk \in [Workers -> Worker]
  BY DEF IInv, TypeOK
<1>9. WorkersOK' /\ OnePending' /\ wk' \in [Workers -> Worker]
  BY <1>4, <1>6, <1>7, <1>8, Step
<1>10. TypeOK'
  BY <1>1, <1>5, <1>9 DEF IInv, TypeOK
<1>11. FileSaved' /\ SavedBeforeUsed'
  BY <1>5 DEF IInv, FileSaved, SavedBeforeUsed
<1>12. QED
  BY <1>9, <1>10, <1>11 DEF IInv

LEMMA AddOK ==
  ASSUME IInv, NEW w \in Workers, Add(w)
  PROVE  IInv' /\ \A o \in DOMAIN objs : o \in DOMAIN objs' /\ objs'[o] = objs[o]
<1> DEFINE t == wk[w].tok
<1>1. LocalsOK(w, wk[w], objs, temp, onDisk, gen)
  BY DEF IInv, WorkersOK
<1>2. t \in Token /\ t.session \in onDisk
  BY <1>1 DEF LocalsOK, Add
<1>3. objs \in Seq(Token) /\ objs' = Append(objs, t)
  BY DEF IInv, TypeOK, Add
<1>4. /\ objs' \in Seq(Token) /\ Len(objs') = Len(objs) + 1
      /\ objs'[Len(objs) + 1] = t
      /\ \A o \in 1 .. Len(objs) : objs'[o] = objs[o]
  BY <1>2, <1>3, AppendProperties
<1>5. /\ DOMAIN objs = 1 .. Len(objs) /\ Len(objs) \in Nat
      /\ DOMAIN objs' = DOMAIN objs \cup {Len(objs) + 1}
  BY <1>3, <1>4
<1>6. UNCHANGED <<file, temp, disabled, gen, ended, logins, onDisk>>
  BY DEF Add
<1>7. wk' = [wk EXCEPT ![w] = IdleWorker]
  BY DEF Add, Done
<1> HIDE DEF t
<1>8. ASSUME NEW v \in Workers
      PROVE  LocalsOK(v, wk[v], objs', temp', onDisk', gen')
  <2>1. LocalsOK(v, wk[v], objs, temp, onDisk, gen)
    BY DEF IInv, WorkersOK
  <2>2. gen \in [Sessions -> 0 .. MaxRotations] /\ \A s \in Sessions : gen[s] <= gen[s]
    BY DEF IInv, TypeOK
  <2>3. DOMAIN objs \subseteq DOMAIN objs' /\ \A o \in DOMAIN objs : objs'[o] = objs[o]
    BY <1>4, <1>5
  <2>4. LocalsOK(v, wk[v], objs', temp, onDisk, gen)
    BY <2>1, <2>2, <2>3, Frame DEF IInv
  <2>5. QED
    BY <1>6, <2>4
<1>9. WorkersOK /\ OnePending /\ wk \in [Workers -> Worker]
  BY DEF IInv, TypeOK
<1>10. WorkersOK' /\ OnePending' /\ wk' \in [Workers -> Worker]
  BY <1>7, <1>8, <1>9, IdleOK, Step
<1>11. TypeOK'
  BY <1>4, <1>6, <1>10 DEF IInv, TypeOK
<1>12. FileSaved'
  BY <1>6 DEF IInv, FileSaved
<1>13. SavedBeforeUsed'
  BY <1>2, <1>4, <1>5, <1>6 DEF IInv, SavedBeforeUsed
<1>14. QED
  BY <1>4, <1>5, <1>10, <1>11, <1>12, <1>13 DEF IInv

LEMMA EnvironmentOK ==
  ASSUME IInv, Enable \/ (\E s \in Sessions : EndSession(s)) \/ UNCHANGED vars
  PROVE  IInv' /\ objs' = objs
<1>1. /\ UNCHANGED <<objs, file, temp, gen, logins, onDisk, wk>>
      /\ disabled' \in BOOLEAN /\ ended' \subseteq Sessions
  BY DEF Enable, EndSession, vars, IInv, TypeOK
<1>2. QED
  BY <1>1 DEF IInv, TypeOK, FileSaved, SavedBeforeUsed, WorkersOK, OnePending

LEMMA RestartOK ==
  ASSUME IInv, Restart
  PROVE  IInv'
<1>1. file \in Token /\ file # Broken /\ file.session \in onDisk
  BY TokenFields DEF IInv, FileSaved
<1>2. objs' = <<file>>
  BY <1>1 DEF Restart
<1>3. /\ DOMAIN temp' = {}
      /\ \A w \in Workers : wk'[w] = IdleWorker
      /\ DOMAIN wk' = Workers
  BY DEF Restart
<1>4. UNCHANGED <<file, disabled, gen, ended, logins, onDisk>>
  BY DEF Restart
<1>5. WorkersOK' /\ OnePending'
  BY <1>3, IdleOK DEF WorkersOK, OnePending
<1>6. wk' = [w \in Workers |-> IdleWorker] /\ IdleWorker \in Worker
  BY DEF Restart, IdleWorker, Worker, NoObject
<1>7. TypeOK'
  <2>1. wk' \in [Workers -> Worker]
    BY <1>6
  <2>2. QED
    BY <1>1, <1>2, <1>3, <1>4, <2>1 DEF IInv, TypeOK
<1>8. FileSaved' /\ SavedBeforeUsed'
  BY <1>1, <1>2, <1>4 DEF FileSaved, SavedBeforeUsed
<1>9. QED
  BY <1>5, <1>7, <1>8 DEF IInv

LEMMA InitOK == Init => IInv
<1> SUFFICES ASSUME Init PROVE IInv
  OBVIOUS
<1>1. 1 \in Sessions /\ 0 \in 0 .. MaxRotations
  BY BoundsAssumption DEF Sessions
<1>2. FirstToken(1) \in Token /\ FirstToken(1).session = 1
  BY <1>1, FirstTokenType
<1>3. \A w \in Workers : wk[w] = IdleWorker
  BY DEF Init
<1>4. WorkersOK /\ OnePending
  BY <1>3, IdleOK DEF WorkersOK, OnePending
<1>5. wk \in [Workers -> Worker]
  BY DEF Init, IdleWorker, Worker, NoObject
<1>6. TypeOK
  <2>1. objs \in Seq(Token) /\ file \in Token
    BY <1>2 DEF Init
  <2>2. DOMAIN temp = {}
    BY DEF Init
  <2>3. gen \in [Sessions -> 0 .. MaxRotations]
    BY <1>1 DEF Init
  <2>4. disabled \in BOOLEAN /\ ended \subseteq Sessions /\ logins \in Sessions
        /\ onDisk \subseteq Sessions
    BY <1>1 DEF Init
  <2>5. QED
    BY <1>5, <2>1, <2>2, <2>3, <2>4 DEF TypeOK
<1>7. FileSaved /\ SavedBeforeUsed
  BY <1>2 DEF Init, FileSaved, SavedBeforeUsed
<1>8. QED
  BY <1>4, <1>6, <1>7 DEF IInv

\* What a step does to the object o, unless it is a restart.
Forward ==
    \A o \in DOMAIN objs \cap DOMAIN objs' :
        \/ objs'[o].session = objs[o].session /\ objs'[o].gen >= objs[o].gen
        \/ Restart

LEMMA StillForward ==
  ASSUME IInv, \A o \in DOMAIN objs : objs'[o] = objs[o]
  PROVE  Forward
<1>1. \A o \in DOMAIN objs : objs[o] \in Token
  BY ElementOfSeq DEF IInv, TypeOK
<1>2. \A o \in DOMAIN objs : objs[o].gen \in Nat
  BY <1>1, TokenFields
<1>3. QED
  BY <1>2 DEF Forward

LEMMA NextOK ==
  ASSUME IInv, [Next]_vars
  PROVE  IInv' /\ Forward
<1>1. ASSUME NEW w \in Workers, WorkerStep(w)
      PROVE  IInv' /\ Forward
  <2>1. CASE Pick(w)
    BY <2>1, PickOK, StillForward DEF Pick
  <2>2. CASE Accepted(w)
    BY <2>2, AcceptedOK, StillForward DEF Accepted
  <2>3. CASE Failed(w) \/ Disable(w)
    BY <2>3, DisableOK, StillForward DEF Failed, Disable
  <2>4. CASE Rejected(w)
    BY <2>4, RejectedOK, StillForward DEF Rejected
  <2>5. CASE Apply(w)
    BY <2>5, ApplyOK DEF Forward
  <2>6. CASE CreateTemp(w)
    BY <2>6, CreateTempOK, StillForward DEF CreateTemp
  <2>7. CASE Write(w)
    BY <2>7, WriteOK, StillForward DEF Write
  <2>8. CASE SaveFails(w)
    BY <2>8, SaveFailsOK, StillForward DEF SaveFails
  <2>9. CASE Rename(w)
    BY <2>9, RenameOK, StillForward DEF Rename
  <2>10. CASE Login(w)
    BY <2>10, LoginOK, StillForward DEF Login
  <2>11. CASE Add(w)
    BY <2>11, AddOK, StillForward
  <2>12. QED
    BY <1>1, <2>1, <2>2, <2>3, <2>4, <2>5, <2>6, <2>7, <2>8, <2>9, <2>10,
       <2>11 DEF WorkerStep, OwnStep
<1>2. CASE Enable \/ (\E s \in Sessions : EndSession(s)) \/ UNCHANGED vars
  BY <1>2, EnvironmentOK, StillForward
<1>3. CASE Restart
  BY <1>3, RestartOK DEF Forward
<1>4. QED
  BY <1>1, <1>2, <1>3 DEF Next

-----------------------------------------------------------------------------
(* The theorems *)

\* Every variable keeps its type: what is picked, applied, written or added
\* is a token, never the mark for a missing one.
THEOREM CredentialsTyped == Spec => []TypeOK
<1>1. IInv => TypeOK
  BY DEF IInv
<1>2. QED
  BY <1>1, InitOK, NextOK, PTL DEF Spec

\* SaveAtomic: no crash, failing write or overlapping save leaves a
\* credential file that LoadDir would skip.
THEOREM CredentialFileWhole == Spec => []FileWhole
<1>1. IInv => FileWhole
  BY TokenFields DEF IInv, FileSaved, FileWhole
<1>2. QED
  BY <1>1, InitOK, NextOK, PTL DEF Spec

\* adminOAuthComplete: a login answered by the pool is on disk already.
THEOREM LoginSaved == Spec => []SavedBeforeUsed
<1>1. IInv => SavedBeforeUsed
  BY DEF IInv
<1>2. QED
  BY <1>1, InitOK, NextOK, PTL DEF Spec

\* RefreshToken: concurrent refreshes of one account keep the newest token.
THEOREM RefreshForward == Spec => NeverBackwards
<1>1. IInv /\ [Next]_vars =>
        [\A o \in DOMAIN objs \cap DOMAIN objs' :
            \/ objs'[o].session = objs[o].session /\ objs'[o].gen >= objs[o].gen
            \/ Restart]_vars
  BY NextOK DEF Forward
<1>2. QED
  BY <1>1, InitOK, NextOK, PTL DEF Spec, NeverBackwards

-----------------------------------------------------------------------------
(* The file catches up *)

Current == objs[Len(objs)]
Writing(l) == l.pc \in {"write", "rename"}

\* Goroutine v will leave the pool's credential in the file, if nothing fails.
Comes(v) ==
    /\ wk[v].o = Len(objs)
    /\ \/ wk[v].pc = "save"
       \/ Writing(wk[v]) /\ wk[v].tok = Current /\ v \notin passed

Coming == \E v \in Workers : Comes(v)

\* A document is no newer than the object it was taken from.
DocumentsOK ==
    \A v \in Workers : Writing(wk[v]) /\ wk[v].o # NoObject =>
        /\ wk[v].tok.session = objs[wk[v].o].session
        /\ wk[v].tok.gen <= objs[wk[v].o].gen

\* Only who has a document can be overtaken; whoever writes an older one
\* without having been overtaken has a newer one coming after; and what a
\* login has saved is in the file until another one passes it.
PassedOK ==
    /\ passed \subseteq {v \in Workers : Writing(wk[v]) \/ wk[v].pc = "add"}
    /\ \A v \in Workers \ passed :
          Writing(wk[v]) /\ wk[v].o = Len(objs) /\ wk[v].tok # Current => Coming
    /\ \A v \in Workers \ passed : wk[v].pc = "add" => file = wk[v].tok

CaughtUp ==
    ~behind => file = Current \/ Coming \/ \E v \in Workers : wk[v].pc = "add"

FileInv == objs # <<>> /\ DocumentsOK /\ PassedOK /\ CaughtUp

\* Facts on the pool's object.
LEMMA Pool ==
  ASSUME IInv, FileInv
  PROVE  /\ Len(objs) \in Nat /\ Len(objs) \in DOMAIN objs /\ Len(objs) # NoObject
         /\ Current \in Token /\ DOMAIN objs = 1 .. Len(objs)
         /\ \A o \in DOMAIN objs : objs[o] \in Token /\ objs[o].gen \in Nat
<1>1. objs \in Seq(Token) /\ objs # <<>>
  BY DEF IInv, TypeOK, FileInv
<1>2. Len(objs) \in Nat /\ Len(objs) \in DOMAIN objs /\ DOMAIN objs = 1 .. Len(objs)
  BY <1>1
<1>3. \A o \in DOMAIN objs : objs[o] \in Token
  BY <1>1, <1>2
<1>4. \A o \in DOMAIN objs : objs[o].gen \in Nat
  BY <1>3, TokenFields
<1>5. QED
  BY <1>2, <1>3, <1>4 DEF Current, NoObject

\* Two documents of one session and generation are the same.
LEMMA SameToken ==
  ASSUME NEW s \in Token, NEW t \in Token, s.session = t.session, s.gen = t.gen
  PROVE  s = t
  BY DEF Token

\* The steps of w that begin and end outside a save of the pool's object.
LEMMA FileStill ==
  ASSUME IInv, FileInv, NEW w \in Workers, NEW l, wk' = [wk EXCEPT ![w] = l],
         wk[w].pc \in {"idle", "refresh", "disable"},
         \/ l.pc \in {"idle", "refresh", "apply", "disable"}
         \/ l.pc = "save" /\ l.o = NoObject,
         UNCHANGED <<objs, file, behind, passed>>
  PROVE  FileInv'
<1>1. /\ wk'[w] = l /\ \A v \in Workers \ {w} : wk'[v] = wk[v]
      /\ ~Writing(wk[w]) /\ ~Writing(l) /\ wk[w].pc # "add" /\ l.pc # "add"
      /\ wk[w].pc # "save"
  BY DEF IInv, TypeOK, Writing
<1>2. Current' = Current
  BY DEF Current
<1>3. ASSUME NEW v \in Workers PROVE Comes(v)' <=> Comes(v)
  <2>1. CASE v = w
    BY <1>1, <2>1, Pool DEF Comes
  <2>2. CASE v # w
    BY <1>1, <1>2, <2>2 DEF Comes
  <2>3. QED
    BY <2>1, <2>2
<1>4. Coming' <=> Coming
  BY <1>3 DEF Coming
<1>5. DocumentsOK'
  BY <1>1 DEF FileInv, DocumentsOK
<1>6. PassedOK'
  <2>1. passed' \subseteq {v \in Workers : Writing(wk'[v]) \/ wk'[v].pc = "add"}
    BY <1>1 DEF FileInv, PassedOK
  <2>2. \A v \in Workers \ passed' :
           Writing(wk'[v]) /\ wk'[v].o = Len(objs') /\ wk'[v].tok # Current' => Coming'
    BY <1>1, <1>2, <1>4 DEF FileInv, PassedOK
  <2>3. \A v \in Workers \ passed' : wk'[v].pc = "add" => file' = wk'[v].tok
    BY <1>1 DEF FileInv, PassedOK
  <2>4. QED
    BY <2>1, <2>2, <2>3 DEF PassedOK
<1>7. CaughtUp'
  BY <1>1, <1>2, <1>4 DEF FileInv, CaughtUp
<1>8. QED
  BY <1>5, <1>6, <1>7 DEF FileInv

\* After its assignment the goroutine's own save is to come.
LEMMA FileApply ==
  ASSUME IInv, FileInv, NEW w \in Workers, Apply(w)
  PROVE  FileInv'
<1> DEFINE p == wk[w].o
           l == [pc |-> "save", o |-> p, tok |-> Nothing]
<1>1. LocalsOK(w, wk[w], objs, temp, onDisk, gen) /\ wk \in [Workers -> Worker]
  BY DEF IInv, WorkersOK, TypeOK
<1>2. p \in DOMAIN objs /\ wk[w].pc = "apply"
  BY <1>1 DEF LocalsOK, Apply
<1>3. wk' = [wk EXCEPT ![w] = l] /\ UNCHANGED <<file, behind, passed>>
      /\ objs' = [objs EXCEPT ![p] = Store(objs[p], wk[w].tok)]
  BY DEF Apply, Goto, history
<1>4. l.pc = "save" /\ l.o = p
  OBVIOUS
<1> HIDE DEF l
<1>5. /\ wk'[w] = l /\ \A v \in Workers \ {w} : wk'[v] = wk[v]
      /\ ~Writing(wk[w]) /\ ~Writing(l)
  BY <1>1, <1>2, <1>3, <1>4 DEF Writing
<1>6. Len(objs') = Len(objs) /\ objs' # <<>>
      /\ \A o \in DOMAIN objs \ {p} : objs'[o] = objs[o]
  <2>1. objs \in Seq(Token) /\ objs # <<>>
    BY DEF IInv, TypeOK, FileInv
  <2>2. \A o \in DOMAIN objs \ {p} : objs'[o] = objs[o]
    BY <1>2, <1>3
  <2>3. Len(objs') = Len(objs)
    BY <1>3, <2>1
  <2>4. Len(objs) # 0
    BY <2>1
  <2>5. QED
    BY <2>2, <2>3, <2>4
<1>7. \A o \in DOMAIN objs : objs'[o].session = objs[o].session
                             /\ objs'[o].gen >= objs[o].gen /\ objs'[o].gen \in Nat
  <2>1. IInv' /\ \A o \in DOMAIN objs :
           o \in DOMAIN objs' /\ objs'[o].session = objs[o].session
           /\ objs'[o].gen >= objs[o].gen
    BY ApplyOK
  <2>2. \A o \in DOMAIN objs' : objs'[o] \in Token
    BY <2>1, ElementOfSeq DEF IInv, TypeOK
  <2>3. QED
    BY <2>1, <2>2, TokenFields
<1>8. DocumentsOK'
  <2> SUFFICES ASSUME NEW v \in Workers, Writing(wk'[v]), wk'[v].o # NoObject
               PROVE  /\ wk'[v].tok.session = objs'[wk'[v].o].session
                      /\ wk'[v].tok.gen <= objs'[wk'[v].o].gen
    BY DEF DocumentsOK
  <2>1. v # w /\ wk'[v] = wk[v]
    BY <1>5
  <2>2. LocalsOK(v, wk[v], objs, temp, onDisk, gen)
    BY DEF IInv, WorkersOK
  <2>3. wk[v].o \in DOMAIN objs /\ wk[v].tok \in Token
    BY <2>1, <2>2 DEF LocalsOK, Writing
  <2>4. wk[v].tok.session = objs[wk[v].o].session
        /\ wk[v].tok.gen <= objs[wk[v].o].gen
    BY <2>1 DEF FileInv, DocumentsOK
  <2>5. wk[v].tok.gen \in Nat /\ objs[wk[v].o].gen \in Nat
    BY <2>3, TokenFields, Pool
  <2>6. QED
    BY <1>7, <2>1, <2>3, <2>4, <2>5
<1>9. CASE p = Len(objs)
  <2>1. Coming'
    BY <1>4, <1>5, <1>6, <1>9 DEF Coming, Comes
  <2>2. PassedOK'
    BY <1>2, <1>3, <1>4, <1>5, <2>1 DEF FileInv, PassedOK
  <2>3. QED
    BY <1>6, <1>8, <2>1, <2>2 DEF FileInv, CaughtUp
<1>10. CASE p # Len(objs)
  <2>1. Current' = Current
    BY <1>6, <1>10, Pool DEF Current
  <2>2. ASSUME NEW v \in Workers, Comes(v) PROVE Comes(v)'
    <3>1. v # w
      BY <1>10, <2>2 DEF Comes
    <3>2. QED
      BY <1>3, <1>5, <1>6, <2>1, <2>2, <3>1 DEF Comes
  <2>3. Coming => Coming'
    BY <2>2 DEF Coming
  <2>4. PassedOK'
    BY <1>2, <1>3, <1>4, <1>5, <1>6, <2>1, <2>3 DEF FileInv, PassedOK
  <2>5. CaughtUp'
    BY <1>2, <1>3, <1>5, <2>1, <2>3 DEF FileInv, CaughtUp
  <2>6. QED
    BY <1>6, <1>8, <2>4, <2>5 DEF FileInv
<1>11. QED
  BY <1>9, <1>10

\* The document of the pool's object is the pool's credential, and writing it
\* changes nothing that counts.
LEMMA FileCreate ==
  ASSUME IInv, FileInv, NEW w \in Workers, CreateTemp(w) \/ Write(w)
  PROVE  FileInv'
<1> DEFINE l == wk'[w]
<1>1. LocalsOK(w, wk[w], objs, temp, onDisk, gen) /\ wk \in [Workers -> Worker]
  BY DEF IInv, WorkersOK, TypeOK
<1>2. /\ l.o = wk[w].o /\ Writing(l) /\ l.pc # "add" /\ l.pc # "save"
      /\ wk[w].pc # "add" /\ wk[w].pc # "idle"
      /\ \/ (wk[w].pc = "save" /\ (l.o # NoObject => l.tok = objs[l.o]))
         \/ Writing(wk[w]) /\ l.tok = wk[w].tok
      /\ \A v \in Workers \ {w} : wk'[v] = wk[v]
      /\ UNCHANGED <<objs, file, behind, passed>>
  <2>1. CASE CreateTemp(w)
    BY <1>1, <2>1 DEF CreateTemp, Goto, IsLogin, Writing, history
  <2>2. CASE Write(w)
    BY <1>1, <2>2 DEF Write, Goto, Writing, history
  <2>3. QED
    BY <2>1, <2>2
<1> HIDE DEF l
<1>3. Current' = Current
  BY <1>2 DEF Current
<1>4. w \in passed => wk[w].pc # "save"
  BY DEF FileInv, PassedOK, Writing
<1>5. ASSUME NEW v \in Workers, Comes(v) PROVE Comes(v)'
  <2>1. CASE v # w
    BY <1>2, <1>3, <1>5, <2>1 DEF Comes
  <2>2. CASE v = w
    <3>1. l.o = Len(objs) /\ Len(objs) # NoObject
      BY <1>2, <1>5, <2>2, Pool DEF Comes
    <3>2. l.tok = Current /\ w \notin passed
      BY <1>2, <1>4, <1>5, <2>2, <3>1 DEF Comes, Current, Writing
    <3>3. QED
      BY <1>2, <1>3, <2>2, <3>1, <3>2 DEF Comes, l
  <2>3. QED
    BY <2>1, <2>2
<1>6. Coming => Coming'
  BY <1>5 DEF Coming
<1>7. DocumentsOK'
  <2> SUFFICES ASSUME NEW v \in Workers, Writing(wk'[v]), wk'[v].o # NoObject
               PROVE  /\ wk'[v].tok.session = objs[wk'[v].o].session
                      /\ wk'[v].tok.gen <= objs[wk'[v].o].gen
    BY <1>2 DEF DocumentsOK
  <2>1. CASE v = w /\ wk[w].pc = "save"
    <3>1. l.o \in DOMAIN objs /\ l.tok = objs[l.o]
      BY <1>1, <1>2, <2>1 DEF LocalsOK, l, Writing
    <3>2. QED
      BY <2>1, <3>1, Pool DEF l
  <2>2. CASE v = w /\ wk[w].pc # "save"
    BY <1>2, <2>2 DEF FileInv, DocumentsOK, l
  <2>3. CASE v # w
    BY <1>2, <2>3 DEF FileInv, DocumentsOK
  <2>4. QED
    BY <2>1, <2>2, <2>3
<1>8. PassedOK'
  <2>1. passed' \subseteq {v \in Workers : Writing(wk'[v]) \/ wk'[v].pc = "add"}
    BY <1>2 DEF FileInv, PassedOK, l
  <2>2. ASSUME NEW v \in Workers \ passed', Writing(wk'[v]),
               wk'[v].o = Len(objs'), wk'[v].tok # Current'
        PROVE  Coming'
    <3>1. CASE v # w
      BY <1>2, <1>3, <1>6, <2>2, <3>1 DEF FileInv, PassedOK
    <3>2. CASE v = w
      <4>1. l.o = Len(objs) /\ l.tok # Current
        BY <1>2, <1>3, <2>2, <3>2 DEF l
      <4>2. Writing(wk[w]) /\ wk[w].tok = l.tok /\ wk[w].o = Len(objs)
        BY <1>2, <4>1, Pool DEF Current
      <4>3. QED
        BY <1>2, <1>6, <2>2, <3>2, <4>1, <4>2 DEF FileInv, PassedOK
    <3>3. QED
      BY <3>1, <3>2
  <2>3. \A v \in Workers \ passed' : wk'[v].pc = "add" => file' = wk'[v].tok
    BY <1>2 DEF FileInv, PassedOK, l
  <2>4. QED
    BY <2>1, <2>2, <2>3 DEF PassedOK
<1>9. CaughtUp'
  BY <1>2, <1>3, <1>6 DEF FileInv, CaughtUp
<1>10. QED
  BY <1>2, <1>7, <1>8, <1>9 DEF FileInv

\* The save of w ends, and with it others are overtaken: those that are not
\* are as good as before.
LEMMA SaveEnded ==
  ASSUME IInv, FileInv, NEW w \in Workers, NEW S \in SUBSET Adding,
         wk[w].pc \in {"save", "write", "rename"},
         \A v \in Workers \ {w} : wk'[v] = wk[v],
         ~Writing(wk'[w]), wk'[w].pc # "save",
         objs' = objs,
         passed' = (passed \ {w}) \cup Overtaken(w) \cup S
  PROVE  /\ DocumentsOK'
         /\ passed' \subseteq {v \in Workers : Writing(wk'[v]) \/ wk'[v].pc = "add"}
         /\ \A v \in Workers \ {w} : Comes(v) => Comes(v)'
         /\ \A v \in Workers \ passed' :
               Writing(wk'[v]) /\ wk'[v].o = Len(objs') /\ wk'[v].tok # Current'
                   => Coming'
<1>0. LocalsOK(w, wk[w], objs, temp, onDisk, gen) /\ wk[w] \in Worker
  BY DEF IInv, WorkersOK, TypeOK
<1>1. Current' = Current
  BY DEF Current
<1>2. DocumentsOK'
  BY DEF FileInv, DocumentsOK
<1>3. ASSUME ~IsLogin(w), wk[w].o = Len(objs)
      PROVE  /\ Document(w) \in Token /\ Document(w).gen \in Nat
             /\ Document(w).session = Current.session
             /\ Document(w).gen <= Current.gen
  <2>1. CASE wk[w].pc = "save"
    <3>1. Document(w) = Current
      BY <1>3, <2>1 DEF Document, Current
    <3>2. QED
      BY <3>1, Pool, TokenFields
  <2>2. CASE Writing(wk[w])
    <3>1. Document(w) = wk[w].tok /\ wk[w].tok \in Token
      BY <1>0, <2>2 DEF Document, Writing, LocalsOK
    <3>2. wk[w].tok.session = Current.session /\ wk[w].tok.gen <= Current.gen
      BY <1>3, <2>2 DEF FileInv, DocumentsOK, IsLogin, Current
    <3>3. QED
      BY <3>1, <3>2, TokenFields
  <2>3. QED
    BY <2>1, <2>2 DEF Writing
<1>4. w \notin passed'
  <2>1. w \notin S
    BY DEF Adding
  <2>2. ASSUME w \in Overtaken(w) PROVE FALSE
    <3>1. wk[w].tok.gen < wk[w].tok.gen /\ wk[w].tok \in Token
      BY <1>0, <2>2 DEF Overtaken, Document, LocalsOK
    <3>2. QED
      BY <3>1, TokenFields
  <2>3. QED
    BY <2>1, <2>2
<1>5. passed' \subseteq {v \in Workers : Writing(wk'[v]) \/ wk'[v].pc = "add"}
  <2> SUFFICES ASSUME NEW v \in passed'
               PROVE  v \in Workers /\ (Writing(wk'[v]) \/ wk'[v].pc = "add")
    OBVIOUS
  <2>1. v # w
    BY <1>4
  <2>2. v \in Workers /\ (Writing(wk[v]) \/ wk[v].pc = "add")
    BY DEF FileInv, PassedOK, Overtaken, Adding, Writing
  <2>3. QED
    BY <2>1, <2>2
<1>6. ASSUME NEW v \in Workers \ {w}, Comes(v) PROVE Comes(v)'
  <2>1. CASE wk[v].pc = "save"
    BY <1>6, <2>1 DEF Comes
  <2>2. CASE Writing(wk[v]) /\ wk[v].tok = Current /\ v \notin passed
    <3>1. v \notin S
      BY <2>2 DEF Adding, Writing
    <3>2. ASSUME v \in Overtaken(w) PROVE FALSE
      <4>1. ~IsLogin(w) /\ wk[w].o = Len(objs) /\ Current.gen < Document(w).gen
        BY <1>6, <2>2, <3>2 DEF Overtaken, Comes
      <4>2. QED
        BY <1>3, <4>1, Pool, TokenFields
    <3>3. v \notin passed'
      BY <2>2, <3>1, <3>2
    <3>4. QED
      BY <1>1, <1>6, <2>2, <3>3 DEF Comes
  <2>3. QED
    BY <1>6, <2>1, <2>2 DEF Comes
<1>7. ASSUME NEW v \in Workers \ passed', Writing(wk'[v]),
             wk'[v].o = Len(objs'), wk'[v].tok # Current'
      PROVE  Coming'
  <2>1. v # w /\ wk'[v] = wk[v] /\ v \notin passed
    BY <1>7
  <2>2. PICK u \in Workers : Comes(u)
    BY <1>1, <1>7, <2>1 DEF FileInv, PassedOK, Coming
  <2>3. CASE u # w
    BY <1>6, <2>2, <2>3 DEF Coming
  <2>4. CASE u = w
    <3>1. ~IsLogin(w) /\ wk[w].o = Len(objs) /\ Document(w) = Current
      BY <2>2, <2>4, Pool DEF Comes, IsLogin, Document, Current, Writing
    <3>2. /\ wk[v].tok.session = Current.session
          /\ wk[v].tok.gen <= Current.gen
      BY <1>7, <2>1, Pool DEF FileInv, DocumentsOK, Current
    <3>3. wk[v].tok \in Token
      <4>1. LocalsOK(v, wk[v], objs, temp, onDisk, gen)
        BY <2>1 DEF IInv, WorkersOK
      <4>2. QED
        BY <1>7, <2>1, <4>1 DEF LocalsOK, Writing
    <3>4. wk[v].tok.gen # Current.gen
      BY <1>1, <1>7, <2>1, <3>2, <3>3, Pool, SameToken
    <3>5. wk[v].tok.gen < Document(w).gen
      BY <3>1, <3>2, <3>3, <3>4, Pool, TokenFields
    <3>6. v \in Overtaken(w)
      BY <1>7, <2>1, <3>1, <3>5 DEF Overtaken, Writing
    <3>7. QED
      BY <1>7, <3>6
  <2>5. QED
    BY <2>3, <2>4
<1>8. QED
  BY <1>2, <1>5, <1>6, <1>7

LEMMA FileSaveFails ==
  ASSUME IInv, FileInv, NEW w \in Workers, SaveFails(w)
  PROVE  FileInv'
<1>1. /\ wk' = [wk EXCEPT ![w] = IdleWorker] /\ wk \in [Workers -> Worker]
      /\ UNCHANGED <<objs, file>> /\ wk[w].pc \in {"save", "write", "rename"}
      /\ passed' = (passed \ {w}) \cup Overtaken(w) \cup {}
  BY DEF SaveFails, SaveEnds, AfterSave, GoesOn, Done, IInv, TypeOK
<1>2. /\ wk'[w] = IdleWorker /\ \A v \in Workers \ {w} : wk'[v] = wk[v]
      /\ ~Writing(wk'[w]) /\ wk'[w].pc # "save" /\ wk'[w].pc # "add"
      /\ wk[w].pc # "add"
  BY <1>1 DEF IdleWorker, Writing
<1>3. {} \in SUBSET Adding
  OBVIOUS
<1>4. /\ DocumentsOK'
      /\ passed' \subseteq {v \in Workers : Writing(wk'[v]) \/ wk'[v].pc = "add"}
      /\ \A v \in Workers \ {w} : Comes(v) => Comes(v)'
      /\ \A v \in Workers \ passed' :
            Writing(wk'[v]) /\ wk'[v].o = Len(objs') /\ wk'[v].tok # Current'
                => Coming'
  BY <1>1, <1>2, <1>3, SaveEnded
<1>5. \A v \in Workers \ passed' : wk'[v].pc = "add" => file' = wk'[v].tok
  BY <1>1, <1>2 DEF FileInv, PassedOK
<1>6. CaughtUp'
  <2> SUFFICES ASSUME ~behind'
               PROVE  file' = Current' \/ Coming' \/ \E v \in Workers : wk'[v].pc = "add"
    BY DEF CaughtUp
  <2>1. ~behind /\ (IsLogin(w) \/ wk[w].o # Len(objs))
    BY DEF SaveFails, SaveEnds
  <2>2. ~Comes(w)
    BY <2>1, Pool DEF Comes, IsLogin
  <2>3. Coming => Coming'
    BY <1>4, <2>2 DEF Coming
  <2>4. Current' = Current /\ file' = file
    BY <1>1 DEF Current
  <2>5. QED
    BY <1>2, <2>1, <2>3, <2>4 DEF FileInv, CaughtUp
<1>7. QED
  BY <1>1, <1>4, <1>5, <1>6 DEF FileInv, PassedOK

LEMMA FileRename ==
  ASSUME IInv, FileInv, NEW w \in Workers, Rename(w)
  PROVE  FileInv'
<1>0. LocalsOK(w, wk[w], objs, temp, onDisk, gen) /\ wk \in [Workers -> Worker]
  BY DEF IInv, WorkersOK, TypeOK
<1>1. /\ wk[w].pc = "rename" /\ w \in DOMAIN temp /\ temp[w] = wk[w].tok
  BY <1>0 DEF Rename, LocalsOK
<1>2. /\ file' = wk[w].tok /\ objs' = objs /\ AfterSave(w, TRUE) /\ SaveEnds(w, TRUE)
  BY <1>1 DEF Rename, TempName
<1>3. passed' = (passed \ {w}) \cup Overtaken(w) \cup Adding
      /\ Adding \in SUBSET Adding
  BY <1>2 DEF SaveEnds
<1>4. /\ \A v \in Workers \ {w} : wk'[v] = wk[v]
      /\ IF IsLogin(w) THEN wk'[w].pc = "add" /\ wk'[w].tok = wk[w].tok
         ELSE wk'[w].pc = "idle"
  BY <1>0, <1>2 DEF AfterSave, GoesOn, Goto, Done, IdleWorker
<1>5. ~Writing(wk'[w]) /\ wk'[w].pc # "save"
  BY <1>4 DEF Writing
<1>6. /\ DocumentsOK'
      /\ passed' \subseteq {v \in Workers : Writing(wk'[v]) \/ wk'[v].pc = "add"}
      /\ \A v \in Workers \ {w} : Comes(v) => Comes(v)'
      /\ \A v \in Workers \ passed' :
            Writing(wk'[v]) /\ wk'[v].o = Len(objs') /\ wk'[v].tok # Current'
                => Coming'
  BY <1>1, <1>2, <1>3, <1>4, <1>5, SaveEnded
<1>7. \A v \in Workers \ passed' : wk'[v].pc = "add" => file' = wk'[v].tok
  <2> SUFFICES ASSUME NEW v \in Workers \ passed', wk'[v].pc = "add"
               PROVE  file' = wk'[v].tok
    OBVIOUS
  <2>1. v = w
    BY <1>3, <1>4 DEF Adding
  <2>2. QED
    BY <1>2, <1>4, <2>1
<1>8. CaughtUp'
  <2> SUFFICES ASSUME ~behind'
               PROVE  file' = Current' \/ Coming' \/ \E v \in Workers : wk'[v].pc = "add"
    BY DEF CaughtUp
  <2>1. CASE IsLogin(w)
    BY <1>4, <2>1
  <2>2. CASE ~IsLogin(w)
    <3>1. w \notin passed /\ wk[w].o = Len(objs)
      BY <1>2, <2>2 DEF SaveEnds
    <3>2. CASE wk[w].tok = Current
      BY <1>2, <3>2 DEF Current
    <3>3. CASE wk[w].tok # Current
      <4>1. PICK u \in Workers : Comes(u)
        BY <1>1, <3>1, <3>3 DEF FileInv, PassedOK, Writing, Coming
      <4>2. u # w
        BY <1>1, <3>3, <4>1 DEF Comes
      <4>3. QED
        BY <1>6, <4>1, <4>2 DEF Coming
    <3>4. QED
      BY <3>2, <3>3
  <2>3. QED
    BY <2>1, <2>2
<1>9. QED
  BY <1>2, <1>6, <1>7, <1>8 DEF FileInv, PassedOK

\* A login adds what it has saved; nobody has a document of the new object.
LEMMA FileAdd ==
  ASSUME IInv, FileInv, NEW w \in Workers, Add(w)
  PROVE  FileInv'
<1>0. LocalsOK(w, wk[w], objs, temp, onDisk, gen) /\ wk \in [Workers -> Worker]
      /\ objs \in Seq(Token)
  BY DEF IInv, WorkersOK, TypeOK
<1>1. /\ wk[w].pc = "add" /\ wk[w].tok \in Token /\ objs' = Append(objs, wk[w].tok)
      /\ wk' = [wk EXCEPT ![w] = IdleWorker] /\ file' = file
      /\ behind' = (w \in passed) /\ passed' = passed \ {w}
  BY <1>0 DEF Add, Done, LocalsOK
<1>2. /\ \A v \in Workers \ {w} : wk'[v] = wk[v]
      /\ wk'[w].pc = "idle"
  BY <1>0, <1>1 DEF IdleWorker
<1>3. /\ Len(objs') = Len(objs) + 1 /\ objs'[Len(objs')] = wk[w].tok
      /\ \A o \in DOMAIN objs : objs'[o] = objs[o]
      /\ objs' # <<>>
  BY <1>0, <1>1, AppendProperties
<1>4. ASSUME NEW v \in Workers PROVE wk[v].o \in {NoObject} \cup DOMAIN objs
  BY DEF IInv, WorkersOK, LocalsOK
<1>5. \A v \in Workers \ {w} : wk'[v].o # Len(objs')
  BY <1>2, <1>3, <1>4, Pool DEF NoObject
<1>6. DocumentsOK'
  BY <1>2, <1>3, <1>4 DEF FileInv, DocumentsOK, Writing
<1>7. PassedOK'
  <2>1. passed' \subseteq {v \in Workers : Writing(wk'[v]) \/ wk'[v].pc = "add"}
    BY <1>1, <1>2 DEF FileInv, PassedOK
  <2>2. \A v \in Workers \ passed' :
           Writing(wk'[v]) /\ wk'[v].o = Len(objs') /\ wk'[v].tok # Current' => Coming'
    BY <1>2, <1>5 DEF Writing
  <2>3. \A v \in Workers \ passed' : wk'[v].pc = "add" => file' = wk'[v].tok
    BY <1>1, <1>2 DEF FileInv, PassedOK
  <2>4. QED
    BY <2>1, <2>2, <2>3 DEF PassedOK
<1>8. CaughtUp'
  BY <1>1, <1>3 DEF FileInv, PassedOK, CaughtUp, Current
<1>9. QED
  BY <1>3, <1>6, <1>7, <1>8 DEF FileInv

LEMMA FileRestart ==
  ASSUME IInv, Restart
  PROVE  FileInv'
<1>1. file # Broken
  BY TokenFields DEF IInv, FileSaved
<1>2. /\ objs' = <<file>> /\ file' = file /\ passed' = {}
      /\ \A v \in Workers : wk'[v].pc = "idle"
  BY <1>1 DEF Restart, IdleWorker
<1>3. objs' # <<>> /\ Current' = file'
  BY <1>2 DEF Current
<1>4. QED
  BY <1>2, <1>3 DEF FileInv, DocumentsOK, PassedOK, CaughtUp, Writing

LEMMA FileOK ==
  ASSUME IInv, FileInv, [Next]_vars
  PROVE  FileInv'
<1>1. ASSUME NEW w \in Workers, WorkerStep(w) PROVE FileInv'
  <2>0. LocalsOK(w, wk[w], objs, temp, onDisk, gen) /\ wk \in [Workers -> Worker]
    BY DEF IInv, WorkersOK, TypeOK
  <2>1. CASE \/ Pick(w) \/ Accepted(w) \/ Failed(w) \/ Rejected(w) \/ Disable(w)
             \/ Login(w)
    <3>0. PICK l : l = wk'[w]
      OBVIOUS
    <3>1. /\ wk' = [wk EXCEPT ![w] = l]
          /\ \/ l.pc \in {"idle", "refresh", "apply", "disable"}
             \/ l.pc = "save" /\ l.o = NoObject
      <4>1. CASE Pick(w) \/ Login(w)
        BY <2>0, <3>0, <4>1 DEF Pick, Login, Begin
      <4>2. CASE Accepted(w)
        <5>1. Done(w) \/ \E tok : Goto(w, "apply", tok)
          BY <4>2, Zenon DEF Accepted
        <5>2. QED
          BY <2>0, <3>0, <5>1 DEF Goto, Done, IdleWorker
      <4>3. CASE Failed(w) \/ Rejected(w) \/ Disable(w)
        BY <2>0, <3>0, <4>3 DEF Failed, Rejected, Disable, Goto, Done, IdleWorker
      <4>4. QED
        BY <2>1, <4>1, <4>2, <4>3
    <3>2. wk[w].pc \in {"idle", "refresh", "disable"}
      BY <2>1 DEF Pick, Accepted, Failed, Rejected, Disable, Login
    <3>3. UNCHANGED <<objs, file, behind, passed>>
      BY <2>1 DEF Pick, Accepted, Failed, Rejected, Disable, Login, history
    <3>4. QED
      BY <3>1, <3>2, <3>3, FileStill
  <2>2. CASE Apply(w)
    BY <2>2, FileApply
  <2>3. CASE CreateTemp(w) \/ Write(w)
    BY <2>3, FileCreate
  <2>4. CASE SaveFails(w)
    BY <2>4, FileSaveFails
  <2>5. CASE Rename(w)
    BY <2>5, FileRename
  <2>6. CASE Add(w)
    BY <2>6, FileAdd
  <2>7. QED
    BY <1>1, <2>1, <2>2, <2>3, <2>4, <2>5, <2>6 DEF WorkerStep, OwnStep
<1>2. CASE Enable \/ (\E s \in Sessions : EndSession(s)) \/ UNCHANGED vars
  <2>1. UNCHANGED <<objs, file, wk, behind, passed>>
    BY <1>2 DEF Enable, EndSession, vars, history
  <2>2. QED
    BY <2>1 DEF FileInv, DocumentsOK, PassedOK, CaughtUp, Coming, Comes, Current
<1>3. CASE Restart
  BY <1>3, FileRestart
<1>4. QED
  BY <1>1, <1>2, <1>3 DEF Next

LEMMA FileInit == Init => FileInv
<1> SUFFICES ASSUME Init PROVE FileInv
  OBVIOUS
<1>1. objs # <<>> /\ file = Current /\ passed = {}
      /\ \A v \in Workers : wk[v].pc = "idle"
  BY DEF Init, Current, IdleWorker
<1>2. QED
  BY <1>1 DEF FileInv, DocumentsOK, PassedOK, CaughtUp, Writing

\* RefreshToken, adminOAuthComplete, SaveAtomic: whatever refreshes, logins
\* and their saves do beside one another, the file comes to hold the pool's
\* credential, unless a save of it failed or was overtaken.
THEOREM CredentialFileCatchesUp == Spec => []FileCatchesUp
<1>1. FileInv => FileCatchesUp
  BY DEF FileInv, CaughtUp, Coming, Comes, Writing, Current, FileCatchesUp, FileCurrent
<1>2. IInv /\ FileInv /\ [Next]_vars => (IInv /\ FileInv)'
  BY FileOK, NextOK
<1>3. QED
  BY <1>1, <1>2, InitOK, FileInit, PTL DEF Spec

-----------------------------------------------------------------------------
(* Only without a usable token is the account disabled *)

\* The server has rotated the token's session at least as often.
Known(t) == t.gen <= gen[t.session]

\* The goroutine has a document or the credential of a login in hand.
Carries(l) ==
    \/ l.pc \in {"write", "rename", "add"}
    \/ l.pc = "save" /\ l.o = NoObject

\* Nobody holds a token the server has not given out yet.
KnownTokens ==
    /\ Known(file)
    /\ \A o \in DOMAIN objs : Known(objs[o])
    /\ \A w \in Workers : Carries(wk[w]) => Known(wk[w].tok)

Refreshing(l) == l.pc \in {"refresh", "apply"}

\* A refresh that nothing crossed has the pool's object for itself; once it
\* was refused, the object's token is dead and no answer is on its way.
UncrossedOK ==
    \A w \in Workers \ crossed :
        /\ wk[w].pc = "refresh" =>
              /\ wk[w].o = Len(objs)
              /\ \A v \in Workers \ {w} :
                    ~(Refreshing(wk[v]) /\ wk[v].o = Len(objs))
        /\ wk[w].pc = "disable" =>
              /\ wk[w].o = Len(objs) /\ ~Live(objs[Len(objs)])
              /\ \A v \in Workers : ~(wk[v].pc = "apply" /\ wk[v].o = Len(objs))

\* A goroutine moves on with a token that is known.
LEMMA KnownStep ==
  ASSUME KnownTokens, wk \in [Workers -> Worker],
         NEW w \in Workers, NEW l, wk' = [wk EXCEPT ![w] = l],
         Carries(l) => Known(l.tok),
         UNCHANGED <<objs, gen>>, file' = file \/ Known(file')
  PROVE  KnownTokens'
<1>1. wk'[w] = l /\ \A v \in Workers \ {w} : wk'[v] = wk[v]
  OBVIOUS
<1>2. Known(file)'
  BY DEF Known, KnownTokens
<1>3. \A o \in DOMAIN objs' : Known(objs[o])'
  BY DEF Known, KnownTokens
<1>4. ASSUME NEW v \in Workers, Carries(wk'[v])
      PROVE  Known(wk[v].tok)'
  <2>1. CASE v = w
    BY <1>1, <1>4, <2>1 DEF Known
  <2>2. CASE v # w
    BY <1>1, <1>4, <2>2 DEF Known, KnownTokens
  <2>3. QED
    BY <2>1, <2>2
<1>5. QED
  BY <1>2, <1>3, <1>4 DEF KnownTokens

\* The server's rotations only grow.
LEMMA KnownAccepted ==
  ASSUME IInv, KnownTokens, NEW w \in Workers, Accepted(w)
  PROVE  /\ KnownTokens'
         /\ \A s \in Sessions : gen[s] <= gen'[s]
<1>0. LocalsOK(w, wk[w], objs, temp, onDisk, gen) /\ wk \in [Workers -> Worker]
      /\ objs \in Seq(Token) /\ file \in Token
      /\ gen \in [Sessions -> 0 .. MaxRotations]
  BY DEF IInv, WorkersOK, TypeOK, FileSaved
<1> DEFINE t == objs[wk[w].o]
<1>1. t \in Token
  <2>1. wk[w].o \in DOMAIN objs
    BY <1>0 DEF LocalsOK, Accepted
  <2>2. QED
    BY <1>0, <2>1, ElementOfSeq
<1>2. gen' = gen \/ gen' = [gen EXCEPT ![t.session] = @ + 1]
  BY DEF Accepted
<1>3. t.session \in Sessions
  BY <1>1, TokenFields
<1> HIDE DEF t
<1>4. \A s \in Sessions : gen[s] \in Nat /\ gen'[s] \in Nat /\ gen[s] <= gen'[s]
  BY <1>0, <1>2, <1>3, BoundsAssumption
<1>5. wk'[w].pc \in {"idle", "apply"} /\ \A v \in Workers \ {w} : wk'[v] = wk[v]
  <2>1. Done(w) \/ \E tok : Goto(w, "apply", tok)
    BY Zenon DEF Accepted
  <2>2. QED
    BY <1>0, <2>1 DEF Done, Goto, IdleWorker
<1>6. UNCHANGED <<objs, file>>
  BY DEF Accepted
<1>7. ASSUME NEW k \in Token, Known(k) PROVE k.gen <= gen'[k.session]
  BY <1>4, <1>7, TokenFields DEF Known
<1>8. Known(file)'
  BY <1>0, <1>6, <1>7 DEF Known, KnownTokens
<1>9. \A o \in DOMAIN objs' : Known(objs[o])'
  <2>1. \A o \in DOMAIN objs : objs[o] \in Token
    BY <1>0, ElementOfSeq
  <2>2. QED
    BY <1>6, <1>7, <2>1 DEF Known, KnownTokens
<1>10. ASSUME NEW v \in Workers, Carries(wk'[v])
       PROVE  Known(wk[v].tok)'
  <2>1. v # w /\ wk'[v] = wk[v]
    BY <1>5, <1>10 DEF Carries
  <2>2. LocalsOK(v, wk[v], objs, temp, onDisk, gen)
    BY DEF IInv, WorkersOK
  <2>3. wk[v].tok \in Token
    BY <1>10, <2>1, <2>2 DEF LocalsOK, Carries
  <2>4. Known(wk[v].tok)
    BY <1>10, <2>1 DEF KnownTokens
  <2>5. QED
    BY <1>7, <2>1, <2>3, <2>4 DEF Known
<1>11. QED
  BY <1>4, <1>8, <1>9, <1>10 DEF KnownTokens

LEMMA KnownOK ==
  ASSUME IInv, KnownTokens, [Next]_vars
  PROVE  /\ KnownTokens'
         /\ \A s \in Sessions : gen[s] <= gen'[s]
<1>0. wk \in [Workers -> Worker] /\ objs \in Seq(Token) /\ file \in Token
      /\ gen \in [Sessions -> 0 .. MaxRotations]
      /\ \A v \in Workers : LocalsOK(v, wk[v], objs, temp, onDisk, gen)
  BY DEF IInv, TypeOK, FileSaved, WorkersOK
<1>1. gen' = gen => \A s \in Sessions : gen[s] <= gen'[s]
  <2>1. \A s \in Sessions : gen[s] \in Nat
    BY <1>0, BoundsAssumption
  <2>2. QED
    BY <2>1
<1>2. ASSUME NEW w \in Workers, WorkerStep(w), ~Accepted(w)
      PROVE  KnownTokens' /\ gen' = gen
  <2>0. PICK l : l = wk'[w]
    OBVIOUS
  <2>1. CASE Pick(w) \/ Failed(w) \/ Rejected(w) \/ Disable(w) \/ SaveFails(w)
    <3>1. wk' = [wk EXCEPT ![w] = l] /\ l.pc \in {"idle", "refresh", "disable"}
          /\ UNCHANGED <<objs, gen, file>>
      <4>1. CASE Pick(w)
        BY <1>0, <2>0, <4>1 DEF Pick, Begin
      <4>2. CASE Failed(w) \/ Disable(w)
        BY <1>0, <2>0, <4>2 DEF Failed, Disable, Done, IdleWorker
      <4>3. CASE Rejected(w)
        BY <1>0, <2>0, <4>3 DEF Rejected, Goto
      <4>4. CASE SaveFails(w)
        BY <1>0, <2>0, <4>4 DEF SaveFails, AfterSave, GoesOn, Done, IdleWorker
      <4>5. QED
        BY <2>1, <4>1, <4>2, <4>3, <4>4
    <3>2. ~Carries(l)
      BY <3>1 DEF Carries
    <3>3. QED
      BY <1>0, <3>1, <3>2, KnownStep
  <2>2. CASE Login(w)
    <3>1. /\ wk' = [wk EXCEPT ![w] = l] /\ l.tok = FirstToken(logins')
          /\ UNCHANGED <<objs, gen, file>>
      BY <1>0, <2>0, <2>2 DEF Login, Begin
    <3>2. logins' \in Sessions
      BY <2>2, LoginOK DEF IInv, TypeOK
    <3>3. Known(l.tok)
      <4>1. l.tok.gen = 0 /\ l.tok.session = logins'
        BY <3>1 DEF FirstToken
      <4>2. gen[logins'] \in Nat
        BY <1>0, <3>2, BoundsAssumption
      <4>3. QED
        BY <4>1, <4>2 DEF Known
    <3>4. QED
      BY <1>0, <3>1, <3>3, KnownStep
  <2>3. CASE CreateTemp(w) \/ Write(w)
    <3>1. wk' = [wk EXCEPT ![w] = l] /\ UNCHANGED <<objs, gen, file>>
      BY <1>0, <2>0, <2>3 DEF CreateTemp, Write, Goto
    <3>2. Known(l.tok)
      <4>1. CASE CreateTemp(w) /\ ~IsLogin(w)
        <5>1. l.tok = objs[wk[w].o] /\ wk[w].o \in DOMAIN objs
          BY <1>0, <2>0, <4>1 DEF CreateTemp, Goto, IsLogin, LocalsOK
        <5>2. QED
          BY <5>1 DEF KnownTokens
      <4>2. CASE CreateTemp(w) /\ IsLogin(w)
        <5>1. l.tok = wk[w].tok
          BY <1>0, <2>0, <4>2 DEF CreateTemp, Goto
        <5>2. QED
          BY <4>2, <5>1 DEF KnownTokens, CreateTemp, IsLogin, Carries
      <4>3. CASE Write(w)
        <5>1. l.tok = wk[w].tok
          BY <1>0, <2>0, <4>3 DEF Write, Goto
        <5>2. QED
          BY <4>3, <5>1 DEF KnownTokens, Write, Carries
      <4>4. QED
        BY <2>3, <4>1, <4>2, <4>3
    <3>3. QED
      BY <1>0, <3>1, <3>2, KnownStep
  <2>4. CASE Rename(w)
    <3>1. w \in DOMAIN temp /\ temp[w] = wk[w].tok /\ Known(wk[w].tok)
      BY <1>0, <2>4 DEF Rename, LocalsOK, KnownTokens, Carries
    <3>2. /\ wk' = [wk EXCEPT ![w] = l] /\ file' = wk[w].tok
          /\ l.pc = "idle" \/ l.tok = wk[w].tok
          /\ UNCHANGED <<objs, gen>>
      <4>1. AfterSave(w, TRUE) /\ file' = temp[w] /\ UNCHANGED <<objs, gen>>
        BY <2>4, <3>1 DEF Rename, TempName
      <4>2. Goto(w, "add", wk[w].tok) \/ Done(w)
        BY <4>1 DEF AfterSave
      <4>3. QED
        BY <1>0, <2>0, <3>1, <4>1, <4>2 DEF Goto, Done, IdleWorker
    <3>3. Carries(l) => Known(l.tok)
      BY <3>1, <3>2 DEF Carries
    <3>4. QED
      BY <1>0, <3>1, <3>2, <3>3, KnownStep DEF Known
  <2>5. CASE Apply(w)
    <3> DEFINE p == wk[w].o
    <3>1. p \in DOMAIN objs /\ objs[p] \in Token /\ wk[w].pc = "apply"
      BY <1>0, <2>5, ElementOfSeq DEF LocalsOK, Apply
    <3>2. /\ objs' = [objs EXCEPT ![p] = Store(objs[p], wk[w].tok)]
          /\ UNCHANGED <<gen, file>>
          /\ \A v \in Workers \ {w} : wk'[v] = wk[v]
          /\ wk'[w].pc = "save" /\ wk'[w].o = p /\ p # NoObject
      BY <1>0, <2>5 DEF Apply, Goto, LocalsOK
    <3>3. Known(Store(objs[p], wk[w].tok))
      <4>1. wk[w].tok # Nothing => Known(wk[w].tok)
        BY <1>0, <2>5 DEF LocalsOK, Pending, Apply, Known
      <4>2. QED
        BY <3>1, <4>1 DEF Store, KnownTokens
    <3> HIDE DEF p
    <3>4. \A o \in DOMAIN objs' : Known(objs[o])'
      BY <3>1, <3>2, <3>3 DEF Known, KnownTokens
    <3>5. \A v \in Workers : Carries(wk'[v]) => Known(wk[v].tok)'
      BY <3>2 DEF Known, KnownTokens, Carries
    <3>6. QED
      BY <3>2, <3>4, <3>5 DEF Known, KnownTokens
  <2>6. CASE Add(w)
    <3>1. Known(wk[w].tok) /\ wk[w].tok \in Token
      BY <1>0, <2>6 DEF Add, KnownTokens, LocalsOK, Carries
    <3>2. /\ objs' = Append(objs, wk[w].tok) /\ UNCHANGED <<gen, file>>
          /\ \A v \in Workers \ {w} : wk'[v] = wk[v]
          /\ wk'[w].pc = "idle"
      BY <1>0, <2>6 DEF Add, Done, IdleWorker
    <3>3. \A o \in DOMAIN objs' : (o \in DOMAIN objs /\ objs'[o] = objs[o])
                                  \/ objs'[o] = wk[w].tok
      BY <1>0, <3>1, <3>2, AppendProperties
    <3>4. \A o \in DOMAIN objs' : Known(objs[o])'
      BY <3>1, <3>2, <3>3 DEF Known, KnownTokens
    <3>5. \A v \in Workers : Carries(wk'[v]) => Known(wk[v].tok)'
      BY <3>2 DEF Known, KnownTokens, Carries
    <3>6. QED
      BY <3>2, <3>4, <3>5 DEF Known, KnownTokens
  <2>7. QED
    BY <1>2, <2>1, <2>2, <2>3, <2>4, <2>5, <2>6 DEF WorkerStep, OwnStep
<1>3. CASE Enable \/ (\E s \in Sessions : EndSession(s)) \/ UNCHANGED vars
  <2>1. UNCHANGED <<objs, file, wk, gen>>
    BY <1>3 DEF Enable, EndSession, vars
  <2>2. QED
    BY <1>1, <2>1 DEF KnownTokens, Known, Carries
<1>4. CASE Restart
  <2>1. /\ objs' = <<file>> /\ UNCHANGED <<file, gen>>
        /\ \A v \in Workers : wk'[v].pc = "idle"
    BY <1>0, <1>4, TokenFields DEF Restart, IdleWorker
  <2>2. \A o \in DOMAIN objs' : objs'[o] = file
    BY <2>1
  <2>3. QED
    BY <1>1, <2>1, <2>2 DEF KnownTokens, Known, Carries
<1>5. QED
  BY <1>1, <1>2, <1>3, <1>4, KnownAccepted DEF Next

\* A token that is dead stays dead.
LEMMA DeadForGood ==
  ASSUME IInv, KnownTokens, NEW t \in Token, Known(t), ~Live(t),
         ended \subseteq ended', \A s \in Sessions : gen[s] <= gen'[s],
         gen' \in [Sessions -> 0 .. MaxRotations]
  PROVE  ~Live(t)'
<1>1. t.session \in Sessions /\ t.gen \in Nat
  BY TokenFields
<1>2. gen[t.session] \in Nat /\ gen'[t.session] \in Nat /\ gen[t.session] <= gen'[t.session]
  BY <1>1, BoundsAssumption DEF IInv, TypeOK
<1>3. QED
  BY <1>1, <1>2 DEF Live, Known

\* Steps of w during which nothing a refresh relies on changes.
LEMMA CrossStill ==
  ASSUME UncrossedOK, NEW w \in Workers,
         \A v \in Workers \ {w} : wk'[v] = wk[v],
         wk'[w].pc \notin {"refresh", "apply", "disable"},
         Len(objs') = Len(objs), objs'[Len(objs)] = objs[Len(objs)],
         UNCHANGED <<gen, ended>>, crossed \ {w} \subseteq crossed'
  PROVE  UncrossedOK'
<1>1. Len(objs') = Len(objs) /\ objs'[Len(objs)] = objs[Len(objs)]
  OBVIOUS
<1>2. Live(objs[Len(objs)])' <=> Live(objs[Len(objs)])
  BY <1>1 DEF Live
<1> SUFFICES ASSUME NEW u \in Workers \ crossed'
             PROVE  /\ wk'[u].pc = "refresh" =>
                         /\ wk'[u].o = Len(objs)
                         /\ \A v \in Workers \ {u} :
                               ~(Refreshing(wk'[v]) /\ wk'[v].o = Len(objs))
                    /\ wk'[u].pc = "disable" =>
                         /\ wk'[u].o = Len(objs) /\ ~Live(objs[Len(objs)])
                         /\ \A v \in Workers :
                               ~(wk'[v].pc = "apply" /\ wk'[v].o = Len(objs))
  BY <1>1, <1>2 DEF UncrossedOK
<1>3. CASE u = w
  BY <1>3
<1>4. CASE u # w
  <2>1. u \notin crossed /\ wk'[u] = wk[u]
    BY <1>4
  <2>2. ~Refreshing(wk'[w])
    BY DEF Refreshing
  <2>3. QED
    BY <2>1, <2>2 DEF UncrossedOK
<1>5. QED
  BY <1>3, <1>4

\* A refresh begins: it crosses those under way, if there are any.
LEMMA CrossPick ==
  ASSUME IInv, UncrossedOK, NEW w \in Workers, Pick(w)
  PROVE  UncrossedOK'
<1>1. /\ wk'[w].pc = "refresh" /\ wk'[w].o = Len(objs) /\ wk[w].pc = "idle"
      /\ \A v \in Workers \ {w} : wk'[v] = wk[v]
      /\ UNCHANGED <<objs, gen, ended>> /\ crossed' = crossed \cup Meeting(w)
  BY DEF Pick, Begin, IInv, TypeOK
<1>2. Live(objs[Len(objs)])' <=> Live(objs[Len(objs)])
  BY <1>1 DEF Live
<1>3. ASSUME NEW u \in Workers \ crossed', wk'[u].pc = "refresh"
      PROVE  /\ wk'[u].o = Len(objs)
             /\ \A v \in Workers \ {u} :
                   ~(Refreshing(wk'[v]) /\ wk'[v].o = Len(objs))
  <2>1. CASE u = w
    <3>1. At("refresh") \cup At("apply") = {}
      BY <1>1, <1>3, <2>1 DEF Meeting
    <3>2. \A v \in Workers \ {u} : ~(Refreshing(wk[v]) /\ wk[v].o = Len(objs))
      BY <3>1 DEF At, Refreshing
    <3>3. QED
      BY <1>1, <2>1, <3>2
  <2>2. CASE u # w
    <3>1. wk[u].pc = "refresh" /\ wk[u].o = Len(objs) /\ u \notin crossed
      BY <1>1, <1>3, <2>2 DEF UncrossedOK
    <3>2. u \in At("refresh")
      BY <3>1 DEF At
    <3>3. u \in Meeting(w)
      BY <3>2 DEF Meeting
    <3>4. QED
      BY <1>1, <1>3, <3>3
  <2>3. QED
    BY <2>1, <2>2
<1>4. ASSUME NEW u \in Workers \ crossed', wk'[u].pc = "disable"
      PROVE  /\ wk'[u].o = Len(objs) /\ ~Live(objs[Len(objs)])
             /\ \A v \in Workers : ~(wk'[v].pc = "apply" /\ wk'[v].o = Len(objs))
  BY <1>1, <1>4 DEF UncrossedOK
<1>5. QED
  BY <1>1, <1>2, <1>3, <1>4 DEF UncrossedOK

\* Whoever is about to disable has seen the pool's token refused: no refresh
\* of it can be accepted any more.
LEMMA CrossAccepted ==
  ASSUME IInv, FileInv, KnownTokens, UncrossedOK, NEW w \in Workers, Accepted(w)
  PROVE  UncrossedOK'
<1>1. /\ wk'[w].pc = "idle" \/ (wk'[w].pc = "apply" /\ wk'[w].o = wk[w].o)
      /\ \A v \in Workers \ {w} : wk'[v] = wk[v]
      /\ wk[w].pc = "refresh"
  <2>1. wk \in [Workers -> Worker] /\ wk[w].pc = "refresh"
    BY DEF IInv, TypeOK, Accepted
  <2>2. Done(w) \/ \E tok : Goto(w, "apply", tok)
    BY Zenon DEF Accepted
  <2>3. QED
    BY <2>1, <2>2 DEF Done, Goto, IdleWorker
<1>2. UNCHANGED <<objs, ended>> /\ crossed' = crossed \ {w} /\ Live(objs[wk[w].o])
  BY DEF Accepted
<1>3. Live(objs[Len(objs)])' => Live(objs[Len(objs)])
  <2>1. gen' \in [Sessions -> 0 .. MaxRotations]
    BY AcceptedOK DEF IInv, TypeOK
  <2>2. Current \in Token /\ Known(Current)
    BY Pool DEF KnownTokens, Current
  <2>3. \A s \in Sessions : gen[s] <= gen'[s]
    BY KnownAccepted
  <2>4. ~Live(Current) => ~Live(Current)'
    <3>1. PICK t : t = Current
      OBVIOUS
    <3>2. Current' = t
      BY <1>2, <3>1 DEF Current
    <3>3. t \in Token /\ Known(t) /\ (~Live(t) => ~Live(t)')
      BY <1>2, <2>1, <2>2, <2>3, <3>1, DeadForGood
    <3>4. QED
      BY <3>1, <3>2, <3>3 DEF Live
  <2>5. QED
    BY <1>2, <2>4 DEF Current, Live
<1>4. ASSUME NEW u \in Workers \ crossed', wk'[u].pc = "refresh"
      PROVE  /\ wk'[u].o = Len(objs)
             /\ \A v \in Workers \ {u} :
                   ~(Refreshing(wk'[v]) /\ wk'[v].o = Len(objs))
  <2>1. u # w /\ wk'[u] = wk[u] /\ u \notin crossed
    BY <1>1, <1>2, <1>4
  <2>2. wk[u].o = Len(objs) /\ \A v \in Workers \ {u} :
                   ~(Refreshing(wk[v]) /\ wk[v].o = Len(objs))
    BY <1>4, <2>1 DEF UncrossedOK
  <2>3. wk[w].o # Len(objs)
    BY <1>1, <2>1, <2>2 DEF Refreshing
  <2>4. QED
    BY <1>1, <2>1, <2>2, <2>3 DEF Refreshing
<1>5. ASSUME NEW u \in Workers \ crossed', wk'[u].pc = "disable"
      PROVE  /\ wk'[u].o = Len(objs) /\ ~Live(objs[Len(objs)])
             /\ \A v \in Workers : ~(wk'[v].pc = "apply" /\ wk'[v].o = Len(objs))
  <2>1. u # w /\ wk'[u] = wk[u] /\ u \notin crossed
    BY <1>1, <1>2, <1>5
  <2>2. wk[u].o = Len(objs) /\ ~Live(objs[Len(objs)])
        /\ \A v \in Workers : ~(wk[v].pc = "apply" /\ wk[v].o = Len(objs))
    BY <1>5, <2>1 DEF UncrossedOK
  <2>3. wk[w].o # Len(objs)
    BY <1>2, <2>2
  <2>4. QED
    BY <1>1, <2>1, <2>2, <2>3
<1>6. QED
  BY <1>2, <1>3, <1>4, <1>5 DEF UncrossedOK

LEMMA CrossRejected ==
  ASSUME IInv, UncrossedOK, NEW w \in Workers, Rejected(w)
  PROVE  UncrossedOK'
<1>1. /\ wk'[w].pc = "disable" /\ wk'[w].o = wk[w].o /\ wk[w].pc = "refresh"
      /\ \A v \in Workers \ {w} : wk'[v] = wk[v]
      /\ UNCHANGED <<objs, gen, ended, crossed>> /\ ~Live(objs[wk[w].o])
  BY DEF Rejected, Goto, history, IInv, TypeOK
<1>2. Live(objs[Len(objs)])' <=> Live(objs[Len(objs)])
  BY <1>1 DEF Live
<1>3. ASSUME NEW u \in Workers \ crossed', wk'[u].pc = "refresh"
      PROVE  /\ wk'[u].o = Len(objs)
             /\ \A v \in Workers \ {u} :
                   ~(Refreshing(wk'[v]) /\ wk'[v].o = Len(objs))
  BY <1>1, <1>3 DEF UncrossedOK, Refreshing
<1>4. ASSUME NEW u \in Workers \ crossed', wk'[u].pc = "disable"
      PROVE  /\ wk'[u].o = Len(objs) /\ ~Live(objs[Len(objs)])
             /\ \A v \in Workers : ~(wk'[v].pc = "apply" /\ wk'[v].o = Len(objs))
  BY <1>1, <1>4 DEF UncrossedOK, Refreshing
<1>5. QED
  BY <1>1, <1>2, <1>3, <1>4 DEF UncrossedOK

LEMMA CrossOK ==
  ASSUME IInv, FileInv, KnownTokens, UncrossedOK, [Next]_vars
  PROVE  UncrossedOK'
<1>0. wk \in [Workers -> Worker] /\ objs \in Seq(Token) /\ objs # <<>>
      /\ \A v \in Workers : LocalsOK(v, wk[v], objs, temp, onDisk, gen)
  BY DEF IInv, TypeOK, WorkersOK, FileInv
<1>1. ASSUME NEW w \in Workers, WorkerStep(w) PROVE UncrossedOK'
  <2>1. CASE Pick(w)
    BY <2>1, CrossPick
  <2>2. CASE Accepted(w)
    BY <2>2, CrossAccepted
  <2>3. CASE Rejected(w)
    BY <2>3, CrossRejected
  <2>4. CASE Failed(w) \/ Disable(w)
    BY <1>0, <2>4, CrossStill DEF Failed, Disable, Done, IdleWorker
  <2>5. CASE CreateTemp(w) \/ Write(w) \/ Login(w)
    <3>1. /\ wk'[w].pc \in {"write", "rename", "save"}
          /\ \A v \in Workers \ {w} : wk'[v] = wk[v]
      <4>1. CASE CreateTemp(w)
        BY <1>0, <4>1 DEF CreateTemp, Goto
      <4>2. CASE Write(w)
        BY <1>0, <4>2 DEF Write, Goto
      <4>3. CASE Login(w)
        BY <1>0, <4>3 DEF Login, Begin
      <4>4. QED
        BY <2>5, <4>1, <4>2, <4>3
    <3>2. UNCHANGED <<objs, gen, ended, crossed>>
      BY <2>5 DEF CreateTemp, Write, Login, history
    <3>3. QED
      BY <3>1, <3>2, CrossStill
  <2>6. CASE SaveFails(w) \/ Rename(w)
    <3>1. (\E saved \in BOOLEAN : AfterSave(w, saved) /\ SaveEnds(w, saved))
          /\ UNCHANGED <<objs, gen, ended>>
      BY <2>6 DEF SaveFails, Rename
    <3>2. Goto(w, "add", wk[w].tok) \/ Done(w)
      BY <3>1 DEF AfterSave
    <3>3. wk'[w].pc \in {"add", "idle"} /\ \A v \in Workers \ {w} : wk'[v] = wk[v]
      BY <1>0, <3>2 DEF Goto, Done, IdleWorker
    <3>4. crossed' = crossed
      BY <3>1 DEF SaveEnds
    <3>5. QED
      BY <3>1, <3>3, <3>4, CrossStill
  <2>7. CASE Apply(w)
    <3> DEFINE p == wk[w].o
    <3>1. /\ p \in DOMAIN objs /\ objs' = [objs EXCEPT ![p] = Store(objs[p], wk[w].tok)]
          /\ wk'[w].pc = "save" /\ wk[w].pc = "apply"
          /\ \A v \in Workers \ {w} : wk'[v] = wk[v]
          /\ UNCHANGED <<gen, ended, crossed>>
      BY <1>0, <2>7 DEF Apply, Goto, history, LocalsOK
    <3>2. Len(objs') = Len(objs) /\ Len(objs) \in DOMAIN objs
      BY <1>0, <3>1
    <3>3. CASE p # Len(objs)
      <4>1. objs'[Len(objs)] = objs[Len(objs)]
        BY <3>1, <3>2, <3>3
      <4>2. QED
        BY <3>1, <3>2, <4>1, CrossStill
    <3>4. CASE p = Len(objs)
      <4>1. \A u \in Workers \ crossed : wk[u].pc # "disable" /\ wk[u].pc # "refresh"
        BY <3>1, <3>4 DEF UncrossedOK, Refreshing
      <4>2. \A u \in Workers \ crossed' : wk'[u].pc # "disable" /\ wk'[u].pc # "refresh"
        BY <3>1, <4>1
      <4>3. QED
        BY <4>2 DEF UncrossedOK
    <3>5. QED
      BY <3>3, <3>4
  <2>8. CASE Add(w)
    <3>1. \A u \in Workers \ crossed' : wk'[u].pc \notin {"refresh", "disable"}
      BY <1>0, <2>8 DEF Add, Done, IdleWorker
    <3>2. QED
      BY <3>1 DEF UncrossedOK
  <2>9. QED
    BY <1>1, <2>1, <2>2, <2>3, <2>4, <2>5, <2>6, <2>7, <2>8 DEF WorkerStep, OwnStep
<1>2. CASE Enable \/ (\E s \in Sessions : EndSession(s)) \/ UNCHANGED vars
  <2>1. UNCHANGED <<objs, wk, gen, crossed>> /\ ended \subseteq ended'
    BY <1>2 DEF Enable, EndSession, vars, history
  <2>2. QED
    BY <2>1 DEF UncrossedOK, Live
<1>3. CASE Restart
  <2>1. \A u \in Workers : wk'[u].pc = "idle"
    BY <1>3 DEF Restart, IdleWorker
  <2>2. QED
    BY <2>1 DEF UncrossedOK
<1>4. QED
  BY <1>1, <1>2, <1>3 DEF Next

LEMMA CrossInit == Init => KnownTokens /\ UncrossedOK
<1> SUFFICES ASSUME Init PROVE KnownTokens /\ UncrossedOK
  OBVIOUS
<1>1. 1 \in Sessions
  BY BoundsAssumption DEF Sessions
<1>2. \A v \in Workers : wk[v].pc = "idle"
  BY DEF Init, IdleWorker
<1>3. Known(FirstToken(1))
  BY <1>1 DEF Init, Known, FirstToken
<1>4. objs = <<FirstToken(1)>> /\ file = FirstToken(1)
  BY DEF Init
<1>5. \A o \in DOMAIN objs : objs[o] = FirstToken(1)
  BY <1>4
<1>6. KnownTokens
  BY <1>2, <1>3, <1>4, <1>5 DEF KnownTokens, Carries
<1>7. UncrossedOK
  BY <1>2 DEF UncrossedOK
<1>8. QED
  BY <1>6, <1>7

\* RunKeepaliveNow: a 40100 answer disables the account only when the pool
\* has no refresh token left that the server would take, unless the refresh
\* overlapped another one of its object or a login replaced that.
THEOREM OnlyDeadSessionDisables == Spec => OnlyDeadDisabled
<1> DEFINE I == IInv /\ FileInv /\ KnownTokens /\ UncrossedOK
<1>1. I => \A w \in Workers : Disable(w) /\ w \notin crossed => ~Usable
  BY DEF Disable, UncrossedOK, Usable, At
<1>2. I /\ [Next]_vars =>
        I' /\ [\A w \in Workers : Disable(w) /\ w \notin crossed => ~Usable]_vars
  BY <1>1, NextOK, FileOK, KnownOK, CrossOK
<1>3. Init => I
  BY InitOK, FileInit, CrossInit
<1> HIDE DEF I
<1>4. QED
  BY <1>2, <1>3, PTL DEF Spec, OnlyDeadDisabled

-----------------------------------------------------------------------------
(* The sessions of the web login *)

LoginTypeOK ==
    /\ drawn \in 0 .. MaxIds
    /\ byID \subseteq 1 .. drawn
    /\ login \in [Workers -> 0 .. drawn]
    /\ code \in [Workers -> 0 .. drawn]
    /\ sent \in [Ids -> Nat]

InHand ==
    /\ \A i \in Ids : i \in byID \/ i > drawn => sent[i] = 0
    /\ \A w \in Workers : login[w] # NoLogin =>
           login[w] \notin byID /\ sent[login[w]] = 0 /\ code[w] = login[w]
    /\ \A v, w \in Workers : login[v] = login[w] /\ login[v] # NoLogin => v = w

LoginInv == LoginTypeOK /\ InHand

\* The session's state as the abstract specification sees it.
Status == [i \in Ids |->
              IF i > drawn THEN "new"
              ELSE IF \E w \in Workers : login[w] = i THEN "claimed"
              ELSE IF i \in byID THEN "open" ELSE "closed"]

-----------------------------------------------------------------------------
(* Credentials *)

\* A step of the web login is one of Credentials or leaves its state alone.
LEMMA WebStepProjects ==
  ASSUME [WebNext]_allVars
  PROVE  [Next]_vars
<1>1. CASE Start \/ (\E i \in Ids : Expire(i)) \/ UNCHANGED allVars
  BY <1>1 DEF Start, Expire, allVars
<1>2. ASSUME NEW w \in Workers, NEW i \in Ids, NEW state \in Ids, Take(w, i, state)
      PROVE  UNCHANGED vars
  BY <1>2 DEF Take
<1>3. ASSUME NEW w \in Workers, ExchangeAccepted(w) PROVE Next
  BY <1>3 DEF ExchangeAccepted, Next, WorkerStep
<1>4. ASSUME NEW w \in Workers, ExchangeFails(w) PROVE UNCHANGED vars
  BY <1>4 DEF ExchangeFails
<1>5. CASE CredentialStep
  BY <1>5 DEF CredentialStep, Next, WorkerStep
<1>6. CASE WebRestart
  BY <1>6 DEF WebRestart, Next
<1>7. QED
  BY <1>1, <1>2, <1>3, <1>4, <1>5, <1>6 DEF WebNext

\* The web login uses credentials as Credentials describes, whatever happens
\* to its sessions.
THEOREM WebLoginImplementsCredentials == WebSpec => Spec
<1>1. WebInit => Init
  BY DEF WebInit
<1>2. QED
  BY <1>1, WebStepProjects, PTL DEF WebSpec, Spec

\* A login with its credential file whole, whatever fails: from Credentials.
THEOREM WebLoginFileWhole == WebSpec => []FileWhole
BY WebLoginImplementsCredentials, CredentialFileWhole, PTL

\* No web login is used before it is on disk: from Credentials.
THEOREM WebLoginSaved == WebSpec => []SavedBeforeUsed
BY WebLoginImplementsCredentials, LoginSaved, PTL

\* Web logins beside refreshes never put an older token back: from
\* Credentials.
THEOREM WebLoginForward == WebSpec => NeverBackwards
BY WebLoginImplementsCredentials, RefreshForward, PTL

\* Web logins beside refreshes: the file catches up with the pool unless the
\* last save failed, was overtaken or was of a replaced object: from
\* Credentials.
THEOREM WebLoginFileCatchesUp == WebSpec => []FileCatchesUp
BY WebLoginImplementsCredentials, CredentialFileCatchesUp, PTL

\* Web logins beside refreshes: a refresh that neither another one of its
\* object nor a login crossed disables the account only when the server would
\* take none of its tokens: from Credentials.
THEOREM WebLoginOnlyDeadDisabled == WebSpec => OnlyDeadDisabled
BY WebLoginImplementsCredentials, OnlyDeadSessionDisables, PTL

-----------------------------------------------------------------------------
(* OneShot *)

\* Steps that leave the sessions alone.
LEMMA LoginStill ==
  ASSUME LoginInv, UNCHANGED <<drawn, byID, login, code, sent>>
  PROVE  LoginInv' /\ Status' = Status
  BY DEF LoginInv, LoginTypeOK, InHand, Status

LEMMA StartOK ==
  ASSUME LoginInv, Start
  PROVE  LoginInv' /\ OneShotSpec!Next
<1>0. PICK i, E : i = drawn + 1 /\ E = byID \cap expired
  OBVIOUS
<1>1. /\ drawn \in Nat /\ i \in Ids /\ drawn' = i /\ drawn' \in 0 .. MaxIds
      /\ login' = login /\ code' = code /\ sent' = sent
      /\ byID' = byID \ E \/ byID' = (byID \ E) \cup {i}
  <2>1. drawn \in 0 .. MaxIds /\ drawn < MaxIds /\ drawn' = drawn + 1
        /\ login' = login /\ code' = code /\ sent' = sent
    BY DEF LoginInv, LoginTypeOK, Start
  <2>2. drawn \in Nat /\ i \in Ids /\ drawn' \in 0 .. MaxIds
    BY <1>0, <2>1, MaxIdsAssumption DEF Ids
  <2>3. Kept = byID \ E
    BY <1>0 DEF Kept
  <2>4. byID' = Kept \/ byID' = Kept \cup {i}
    BY <1>0, <2>1 DEF Start
  <2>5. QED
    BY <1>0, <2>1, <2>2, <2>3, <2>4
<1>2. byID \subseteq Ids /\ byID \subseteq 1 .. drawn /\ i \notin byID
      /\ \A w \in Workers : /\ login[w] \in 0 .. drawn /\ login[w] # i
                            /\ code[w] \in 0 .. drawn
  <2>1. drawn <= MaxIds /\ byID \subseteq 1 .. drawn
        /\ login \in [Workers -> 0 .. drawn] /\ code \in [Workers -> 0 .. drawn]
    BY MaxIdsAssumption DEF LoginInv, LoginTypeOK
  <2>2. QED
    BY <1>0, <1>1, <2>1, MaxIdsAssumption DEF Ids
<1>3. LoginTypeOK'
  <2>1. byID' \subseteq 1 .. i
    <3>1. 1 .. drawn \subseteq 1 .. i /\ i \in 1 .. i
      BY <1>0, <1>1
    <3>2. QED
      BY <1>1, <1>2, <3>1
  <2>2. login \in [Workers -> 0 .. i] /\ code \in [Workers -> 0 .. i]
    BY <1>0, <1>1, <1>2 DEF LoginInv, LoginTypeOK
  <2>3. QED
    BY <1>1, <2>1, <2>2 DEF LoginInv, LoginTypeOK
<1>4. InHand'
  <2>1. sent[i] = 0
    BY <1>0, <1>1, <1>2 DEF LoginInv, InHand
  <2>2. \A j \in Ids : j \in byID' \/ j > i => sent[j] = 0
    BY <1>0, <1>1, <1>2, <2>1 DEF LoginInv, InHand, Ids
  <2>3. \A w \in Workers : login[w] # NoLogin =>
            login[w] \notin byID' /\ sent[login[w]] = 0 /\ code[w] = login[w]
    BY <1>0, <1>1, <1>2 DEF LoginInv, InHand
  <2>4. QED
    BY <1>0, <1>1, <2>2, <2>3 DEF LoginInv, InHand
<1>5. ASSUME NEW first \in {"open", "closed"},
             byID' = IF first = "open" THEN (byID \ E) \cup {i} ELSE byID \ E
      PROVE  Status' = [j \in Ids |-> IF j = i THEN first
                                     ELSE IF j \in E THEN "closed"
                                     ELSE Status[j]]
  <2> SUFFICES ASSUME NEW j \in Ids
               PROVE  Status'[j] = IF j = i THEN first
                                  ELSE IF j \in E THEN "closed"
                                  ELSE Status[j]
    BY DEF Status
  <2>0. j \in Nat /\ i \in Nat /\ (j > i => j > drawn) /\ (j > drawn => j = i \/ j > i)
        /\ ~(i > i) /\ i > drawn
    BY <1>0, <1>1 DEF Ids
  <2>1. \A w \in Workers : login'[w] = login[w]
    BY <1>1
  <2>2. CASE j = i
    <3>1. ~(j > drawn') /\ ~(\E w \in Workers : login'[w] = j)
          /\ (j \in byID' <=> first = "open")
      BY <1>1, <1>2, <1>5, <2>0, <2>1, <2>2
    <3>2. Status'[j] = first
      BY <3>1 DEF Status
    <3>3. QED
      BY <2>2, <3>2
  <2>3. CASE j # i /\ j \in E
    <3>1. j \in byID /\ ~(j > drawn) /\ j \notin byID'
      BY <1>0, <1>1, <1>2, <1>5, <2>3
    <3>2. ~(\E w \in Workers : login'[w] = j) /\ ~(j > drawn')
      BY <1>1, <2>0, <2>1, <3>1 DEF LoginInv, InHand, NoLogin, Ids
    <3>3. Status'[j] = "closed"
      BY <3>1, <3>2 DEF Status
    <3>4. QED
      BY <2>3, <3>3
  <2>4. CASE j # i /\ j \notin E
    <3>1. (j > drawn' <=> j > drawn) /\ (j \in byID' <=> j \in byID)
      BY <1>1, <1>5, <2>0, <2>4
    <3>2. Status'[j] = Status[j]
      BY <2>1, <3>1 DEF Status
    <3>3. QED
      BY <2>4, <3>2
  <2>5. QED
    BY <2>2, <2>3, <2>4
<1>6. Status[i] = "new" /\ \A e \in E : Status[e] = "open"
  <2>1. Status[i] = "new"
    BY <1>0, <1>1 DEF Status
  <2>2. ASSUME NEW e \in E PROVE Status[e] = "open"
    <3>1. e \in Ids /\ e \in byID /\ ~(e > drawn)
      BY <1>0, <1>1, <1>2
    <3>2. ~\E w \in Workers : login[w] = e
      BY <1>0, <1>2, <3>1 DEF LoginInv, InHand, NoLogin, Ids
    <3>3. QED
      BY <3>1, <3>2 DEF Status
  <2>3. QED
    BY <2>1, <2>2
<1>7. OneShotSpec!Open(i, E)
  <2>1. \E first \in {"open", "closed"} :
           Status' = [j \in Ids |-> IF j = i THEN first
                                   ELSE IF j \in E THEN "closed"
                                   ELSE Status[j]]
    BY <1>0, <1>1, <1>5
  <2>2. QED
    BY <1>0, <1>1, <1>6, <2>1 DEF OneShotSpec!Open, Status
<1>8. E \in SUBSET Ids
  BY <1>0, <1>2
<1>9. QED
  BY <1>1, <1>3, <1>4, <1>7, <1>8 DEF OneShotSpec!Next, LoginInv

LEMMA TakeOK ==
  ASSUME LoginInv, NEW w \in Workers, NEW i \in Ids, NEW state \in Ids,
         Take(w, i, state)
  PROVE  LoginInv' /\ OneShotSpec!Next
<1>1. /\ login[w] = NoLogin /\ i \in byID /\ i \in 1 .. drawn /\ drawn \in Nat
      /\ byID' = byID \ {i} /\ drawn' = drawn /\ sent' = sent
      /\ \/ login' = [login EXCEPT ![w] = i] /\ code' = [code EXCEPT ![w] = i]
         \/ login' = login /\ code' = code
  <2>1. i \in byID /\ byID \subseteq 1 .. drawn /\ drawn \in Nat
    BY MaxIdsAssumption DEF Take, LoginInv, LoginTypeOK
  <2>2. login[w] = NoLogin /\ byID' = byID \ {i} /\ drawn' = drawn /\ sent' = sent
    BY DEF Take, Free, Taken
  <2>3. \/ login' = [login EXCEPT ![w] = i] /\ code' = [code EXCEPT ![w] = i]
        \/ login' = login /\ code' = code
    BY DEF Take, Admitted
  <2>4. QED
    BY <2>1, <2>2, <2>3
<1>2. /\ sent[i] = 0 /\ i # NoLogin /\ ~(i > drawn)
      /\ \A v \in Workers : login[v] # i
  BY <1>1 DEF LoginInv, InHand, NoLogin
<1>3. login \in [Workers -> 0 .. drawn] /\ code \in [Workers -> 0 .. drawn]
  BY DEF LoginInv, LoginTypeOK
<1>4. CASE login' = [login EXCEPT ![w] = i] /\ code' = [code EXCEPT ![w] = i]
  <2>1. \A v \in Workers : /\ login'[v] = IF v = w THEN i ELSE login[v]
                           /\ code'[v] = IF v = w THEN i ELSE code[v]
    BY <1>3, <1>4
  <2>2. LoginTypeOK'
    BY <1>1, <1>3, <1>4 DEF LoginInv, LoginTypeOK
  <2>3. InHand'
    BY <1>1, <1>2, <2>1 DEF LoginInv, InHand
  <2>4. Status[i] = "open"
    BY <1>1, <1>2 DEF Status
  <2>5. ASSUME NEW j \in Ids
        PROVE  Status'[j] = IF j = i THEN "claimed" ELSE Status[j]
    <3>1. CASE j = i
      BY <1>1, <1>2, <2>1, <3>1 DEF Status
    <3>2. CASE j # i
      <4>1. (\E v \in Workers : login'[v] = j) <=> (\E v \in Workers : login[v] = j)
        <5>1. CASE j = NoLogin
          BY <5>1 DEF Ids, NoLogin
        <5>2. CASE j # NoLogin
          BY <1>1, <2>1, <3>2, <5>2
        <5>3. QED
          BY <5>1, <5>2
      <4>2. QED
        BY <1>1, <3>2, <4>1 DEF Status
    <3>3. QED
      BY <3>1, <3>2
  <2>6. Status' = [j \in Ids |-> IF j = i THEN "claimed" ELSE Status[j]]
    BY <2>5 DEF Status
  <2>7. OneShotSpec!Claim(i)
    BY <1>1, <2>4, <2>6 DEF OneShotSpec!Claim, Status
  <2>8. QED
    BY <2>2, <2>3, <2>7 DEF OneShotSpec!Next, LoginInv
<1>5. CASE login' = login /\ code' = code
  <2>1. login' = login /\ code' = code
    BY <1>5
  <2>2. LoginTypeOK' /\ InHand'
    BY <1>1, <2>1 DEF LoginInv, LoginTypeOK, InHand
  <2>3. Status[i] = "open"
    BY <1>1, <1>2 DEF Status
  <2>4. Status' = [j \in Ids |-> IF j \in {i} THEN "closed" ELSE Status[j]]
    BY <1>1, <1>2, <2>1 DEF Status
  <2>5. OneShotSpec!Close({i})
    BY <1>1, <2>3, <2>4 DEF OneShotSpec!Close, Status
  <2>6. QED
    BY <2>2, <2>5 DEF OneShotSpec!Next, LoginInv
<1>6. QED
  BY <1>1, <1>4, <1>5

\* The session in a handler's hands is sent, and out of its hands.
LEMMA SendingOK ==
  ASSUME LoginInv, NEW w \in Workers, Sending(w)
  PROVE  LoginInv' /\ OneShotSpec!Next
<1>0. PICK i : i = login[w]
  OBVIOUS
<1>1. /\ i # NoLogin /\ i \in 1 .. drawn /\ i \in Ids /\ drawn \in Nat
      /\ byID' = byID /\ drawn' = drawn
      /\ login' = [login EXCEPT ![w] = NoLogin]
      /\ code' = [code EXCEPT ![w] = NoLogin]
      /\ sent' = [sent EXCEPT ![i] = sent[i] + 1]
  <2>1. code[w] = i /\ login[w] # NoLogin /\ login[w] \in 0 .. drawn /\ drawn \in 0 .. MaxIds
    BY <1>0 DEF Sending, LoginInv, LoginTypeOK, InHand
  <2>2. i \in 1 .. drawn /\ i \in Ids /\ drawn \in Nat
    BY <1>0, <2>1, MaxIdsAssumption DEF Ids, NoLogin
  <2>3. QED
    BY <1>0, <2>1, <2>2 DEF Sending
<1>2. i \notin byID /\ sent[i] = 0 /\ ~(i > drawn)
      /\ \A v \in Workers : login[v] = i => v = w
  BY <1>0, <1>1 DEF LoginInv, InHand
<1>3. login \in [Workers -> 0 .. drawn] /\ sent \in [Ids -> Nat]
      /\ code \in [Workers -> 0 .. drawn]
  BY DEF LoginInv, LoginTypeOK
<1>4. /\ \A v \in Workers : /\ login'[v] = IF v = w THEN NoLogin ELSE login[v]
                            /\ code'[v] = IF v = w THEN NoLogin ELSE code[v]
      /\ \A j \in Ids : sent'[j] = IF j = i THEN 1 ELSE sent[j]
  BY <1>0, <1>1, <1>2, <1>3
<1>5. LoginTypeOK'
  <2>1. login' \in [Workers -> 0 .. drawn'] /\ code' \in [Workers -> 0 .. drawn']
    BY <1>1, <1>3 DEF NoLogin
  <2>2. sent' \in [Ids -> Nat]
    BY <1>1, <1>3
  <2>3. QED
    BY <1>1, <2>1, <2>2 DEF LoginInv, LoginTypeOK
<1>6. InHand'
  <2>1. \A j \in Ids : j \in byID \/ j > drawn => j # i /\ sent[j] = 0
    BY <1>1, <1>2 DEF LoginInv, InHand
  <2>2. \A v \in Workers : v # w /\ login[v] # NoLogin =>
            login[v] \notin byID /\ sent[login[v]] = 0 /\ login[v] # i
            /\ login[v] \in Ids /\ code[v] = login[v]
    <3>1. \A v \in Workers : login[v] \in 0 .. drawn
      BY <1>3
    <3>2. \A v \in Workers : login[v] # NoLogin => login[v] \in Ids
      BY <1>1, <3>1, MaxIdsAssumption DEF NoLogin, Ids, LoginInv, LoginTypeOK
    <3>3. QED
      BY <1>0, <1>2, <3>2 DEF LoginInv, InHand
  <2>3. \A j \in Ids : j \in byID' \/ j > drawn' => sent'[j] = 0
    BY <1>1, <1>4, <2>1
  <2>4. \A v \in Workers : login'[v] # NoLogin =>
            login'[v] \notin byID' /\ sent'[login'[v]] = 0 /\ code'[v] = login'[v]
    BY <1>1, <1>4, <2>2
  <2>5. \A u, v \in Workers : login'[u] = login'[v] /\ login'[u] # NoLogin => u = v
    BY <1>4 DEF LoginInv, InHand
  <2>6. QED
    BY <2>3, <2>4, <2>5 DEF InHand
<1>7. Status[i] = "claimed"
  BY <1>0, <1>1, <1>2 DEF Status
<1>8. ASSUME NEW j \in Ids
      PROVE  Status'[j] = IF j = i THEN "closed" ELSE Status[j]
  <2>0. j # NoLogin
    BY DEF Ids, NoLogin
  <2>1. (\E v \in Workers : login'[v] = j) <=>
            (j # i /\ \E v \in Workers : login[v] = j)
    BY <1>0, <1>1, <1>2, <1>4, <2>0
  <2>2. QED
    BY <1>1, <1>2, <2>1 DEF Status
<1>9. Status' = [j \in Ids |-> IF j = i THEN "closed" ELSE Status[j]]
  BY <1>8 DEF Status
<1>10. sent' = [j \in Ids |-> IF j = i THEN 1 ELSE sent[j]]
  <2>1. sent' \in [Ids -> Nat]
    BY <1>5 DEF LoginTypeOK
  <2>2. QED
    BY <1>4, <2>1
<1>11. OneShotSpec!Send(i)
  BY <1>1, <1>2, <1>7, <1>9, <1>10 DEF OneShotSpec!Send, Status
<1>12. QED
  BY <1>1, <1>5, <1>6, <1>11 DEF OneShotSpec!Next, LoginInv

LEMMA WebRestartOK ==
  ASSUME LoginInv, WebRestart
  PROVE  LoginInv' /\ OneShotSpec!Next
<1>0. PICK E : E = {i \in Ids : Status[i] \in {"open", "claimed"}}
  OBVIOUS
<1>1. byID' = {} /\ login' = [w \in Workers |-> NoLogin]
      /\ code' = [w \in Workers |-> NoLogin] /\ drawn' = drawn /\ sent' = sent
  BY DEF WebRestart
<1>2. LoginTypeOK'
  BY <1>1 DEF LoginInv, LoginTypeOK, NoLogin
<1>3. InHand'
  BY <1>1 DEF LoginInv, InHand
<1>4. ASSUME NEW j \in Ids
      PROVE  Status'[j] = IF j \in E THEN "closed" ELSE Status[j]
  <2>1. ~\E w \in Workers : login'[w] = j
    BY <1>1 DEF Ids, NoLogin
  <2>2. Status'[j] = IF j > drawn THEN "new" ELSE "closed"
    BY <1>1, <2>1 DEF Status
  <2>3. QED
    BY <1>0, <2>2 DEF Status
<1>5. Status' = [j \in Ids |-> IF j \in E THEN "closed" ELSE Status[j]]
  BY <1>4 DEF Status
<1>6. E \in SUBSET Ids /\ \A e \in E : Status[e] \in {"open", "claimed"}
  BY <1>0
<1>7. OneShotSpec!Close(E)
  BY <1>1, <1>5, <1>6 DEF OneShotSpec!Close, Status
<1>8. QED
  BY <1>2, <1>3, <1>6, <1>7 DEF OneShotSpec!Next, LoginInv

LEMMA WebNextOK ==
  ASSUME LoginInv, [WebNext]_allVars
  PROVE  LoginInv' /\ (OneShotSpec!Next \/ UNCHANGED <<Status, sent>>)
<1>1. CASE Start
  BY <1>1, StartOK
<1>2. CASE (\E i \in Ids : Expire(i)) \/ CredentialStep \/ UNCHANGED allVars
  <2>1. UNCHANGED <<drawn, byID, login, code, sent>>
    BY <1>2 DEF Expire, CredentialStep, allVars, loginVars
  <2>2. QED
    BY <2>1, LoginStill
<1>3. ASSUME NEW w \in Workers, NEW i \in Ids, NEW state \in Ids, Take(w, i, state)
      PROVE  LoginInv' /\ OneShotSpec!Next
  BY <1>3, TakeOK
<1>4. ASSUME NEW w \in Workers, ExchangeAccepted(w) \/ ExchangeFails(w)
      PROVE  LoginInv' /\ OneShotSpec!Next
  BY <1>4, SendingOK DEF ExchangeAccepted, ExchangeFails
<1>5. CASE WebRestart
  BY <1>5, WebRestartOK
<1>6. QED
  BY <1>1, <1>2, <1>3, <1>4, <1>5 DEF WebNext

\* oauthSessions.take: whatever requests complete logins at the same time, and
\* whichever addresses are returned to which sessions, a session is claimed
\* once and only its own code is sent to upstream, once.
THEOREM WebLoginConsumesOnce == WebSpec => ConsumedOnce
<1>1. WebInit => LoginInv /\ OneShotSpec!Init
  <2> SUFFICES ASSUME WebInit PROVE LoginInv /\ OneShotSpec!Init
    OBVIOUS
  <2>1. drawn = 0 /\ byID = {} /\ login = [w \in Workers |-> NoLogin]
        /\ code = [w \in Workers |-> NoLogin] /\ sent = [i \in Ids |-> 0]
    BY DEF WebInit
  <2>2. LoginInv
    BY <2>1, MaxIdsAssumption DEF LoginInv, LoginTypeOK, InHand, NoLogin
  <2>3. Status = [i \in Ids |-> "new"]
    BY <2>1 DEF Status, Ids
  <2>4. QED
    BY <2>1, <2>2, <2>3 DEF OneShotSpec!Init, Status
<1>2. LoginInv /\ [WebNext]_allVars =>
          LoginInv' /\ [OneShotSpec!Next]_<<Status, sent>>
  BY WebNextOK
<1>3. QED
  BY <1>1, <1>2, PTL DEF WebSpec, ConsumedOnce, OneShotSpec!Spec,
     OneShotSpec!vars, Status

-----------------------------------------------------------------------------
(* The size of the table *)

TableBounded == IsFiniteSet(byID) /\ Cardinality(byID) <= MaxOAuthSessions

\* A smaller table is within the bound too.
LEMMA TableShrinks ==
  ASSUME TableBounded, byID' \subseteq byID
  PROVE  TableBounded'
BY FS_Subset, FS_CardinalityType, LimitAssumption DEF TableBounded

LEMMA StartBounded ==
  ASSUME TableBounded, Start
  PROVE  TableBounded'
<1>1. /\ IsFiniteSet(Kept) /\ Cardinality(Kept) \in Nat
      /\ Cardinality(Kept) <= Cardinality(byID) /\ Cardinality(byID) \in Nat
  BY FS_Subset, FS_CardinalityType DEF TableBounded, Kept
<1>2. CASE Cardinality(Kept) >= MaxOAuthSessions
  <2>1. byID' \subseteq byID
    BY <1>2 DEF Start, Kept
  <2>2. QED
    BY <2>1, TableShrinks
<1>3. CASE ~(Cardinality(Kept) >= MaxOAuthSessions)
  <2>1. byID' = Kept \cup {drawn'}
    BY <1>3 DEF Start
  <2>2. IsFiniteSet(byID') /\ Cardinality(byID') <= Cardinality(Kept) + 1
        /\ Cardinality(byID') \in Nat
    BY <1>1, <2>1, FS_AddElement, FS_CardinalityType
  <2>3. QED
    BY <1>1, <1>3, <2>1, <2>2, LimitAssumption DEF TableBounded
<1>4. QED
  BY <1>2, <1>3

LEMMA BoundedOK ==
  ASSUME TableBounded, [WebNext]_allVars
  PROVE  TableBounded'
<1>1. CASE Start
  BY <1>1, StartBounded
<1>2. CASE UNCHANGED allVars \/ ~Start
  <2>1. byID' \subseteq byID
    BY <1>2 DEF WebNext, Expire, Take, Taken, ExchangeAccepted, ExchangeFails,
       Sending, CredentialStep, WebRestart, allVars, loginVars
  <2>2. QED
    BY <2>1, TableShrinks
<1>3. QED
  BY <1>1, <1>2

LEMMA BoundedInit == WebInit => TableBounded
  BY FS_EmptySet, LimitAssumption DEF WebInit, TableBounded

\* oauthSessions.put: the table never holds more than maxOAuthSessions,
\* expired ones included, however many logins are begun and left.
THEOREM WebLoginTableBounded == WebSpec => []TableBounded
BY BoundedInit, BoundedOK, PTL DEF WebSpec

-----------------------------------------------------------------------------
(* The links a page may still return to *)

\* A link given out is in the table until it is named, expires or is lost.
LinksOK ==
    /\ drawn \in Nat
    /\ given \cup named \subseteq 1 .. drawn
    /\ byID \subseteq given \ named
    /\ given \ named \subseteq byID \cup expired

LEMMA LinksAreKept ==
  ASSUME LinksOK
  PROVE  OpenLinks = Kept
  BY DEF LinksOK, OpenLinks, Kept

LEMMA LinksStart ==
  ASSUME LinksOK, Start
  PROVE  /\ LinksOK'
         /\ given' = given => Cardinality(OpenLinks) >= MaxOAuthSessions
<1>1. /\ drawn \in Nat /\ drawn' = drawn + 1 /\ drawn' \notin 1 .. drawn
      /\ 1 .. drawn \subseteq 1 .. drawn' /\ drawn' \in 1 .. drawn'
      /\ UNCHANGED <<named, expired>>
  BY DEF LinksOK, Start
<1>2. CASE Cardinality(Kept) >= MaxOAuthSessions
  <2>1. byID' = byID \ expired /\ given' = given
    BY <1>2 DEF Start, Kept
  <2>2. QED
    BY <1>1, <1>2, <2>1, LinksAreKept DEF LinksOK
<1>3. CASE ~(Cardinality(Kept) >= MaxOAuthSessions)
  <2>1. byID' = (byID \ expired) \cup {drawn'} /\ given' = given \cup {drawn'}
    BY <1>3 DEF Start, Kept
  <2>2. drawn' \notin given /\ drawn' \notin named
    BY <1>1 DEF LinksOK
  <2>3. QED
    BY <1>1, <2>1, <2>2 DEF LinksOK
<1>4. QED
  BY <1>2, <1>3

LEMMA LinksNext ==
  ASSUME LinksOK, [WebNext]_allVars
  PROVE  LinksOK'
<1>1. CASE Start
  BY <1>1, LinksStart
<1>2. ASSUME NEW i \in Ids, Expire(i) PROVE LinksOK'
  BY <1>2 DEF LinksOK, Expire
<1>3. ASSUME NEW w \in Workers, NEW i \in Ids, NEW state \in Ids, Take(w, i, state)
      PROVE  LinksOK'
  BY <1>3 DEF LinksOK, Take, Taken
<1>4. CASE \/ \E w \in Workers : ExchangeAccepted(w) \/ ExchangeFails(w)
           \/ CredentialStep
           \/ UNCHANGED allVars
  <2>1. UNCHANGED <<drawn, given, named, byID, expired>>
    BY <1>4 DEF ExchangeAccepted, ExchangeFails, Sending, CredentialStep, allVars,
       loginVars
  <2>2. QED
    BY <2>1 DEF LinksOK
<1>5. CASE WebRestart
  BY <1>5 DEF LinksOK, WebRestart
<1>6. QED
  BY <1>1, <1>2, <1>3, <1>4, <1>5 DEF WebNext

\* oauthSessions.put: a login that is refused finds as many links waiting for
\* their page as the table takes: no link that has expired, was returned or
\* failed counts, whatever order they did it in.
THEOREM WebLoginRefusedOnlyByLive == WebSpec => RefusedOnlyByLive
<1>1. WebInit => LinksOK
  BY DEF WebInit, LinksOK
<1>2. LinksOK /\ [WebNext]_allVars =>
        /\ LinksOK'
        /\ [Start /\ given' = given =>
               Cardinality(OpenLinks) >= MaxOAuthSessions]_allVars
  BY LinksStart, LinksNext
<1>3. QED
  BY <1>1, <1>2, PTL DEF WebSpec, RefusedOnlyByLive

=============================================================================
