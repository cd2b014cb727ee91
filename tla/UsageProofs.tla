----------------------------- MODULE UsageProofs -----------------------------
(***************************************************************************)
(* For any models, lines, reads and bounds: the recorder keeps the promise *)
(* of module Totals (CountsTrail), its columns add up (RowsAddUp), the tap *)
(* counts every usage frame once (UsageCountedOnce), a stream is closed    *)
(* with one [DONE] (ClosedWithDone), and an answer that is not streamed    *)
(* says what the stream would have said (SameAnswer).                      *)
(*                                                                         *)
(* The refinement needs to know where the document of a flush under way    *)
(* lies: between the file and the memory (Ordered).  The sums are over a   *)
(* set of any size, and an answer is made of any number of lines: what the *)
(* folds compute is shown with the smallest set and the first line for     *)
(* which it would not hold.  The three properties of a stream follow from  *)
(* one invariant (StreamOK): all that is on its way is the pieces upstream *)
(* sent, cut into consecutive parts.                                       *)
(***************************************************************************)
EXTENDS Usage, WellFoundedInduction, FiniteSetTheorems, SequenceTheorems, TLAPS

\* The events in the file, as the refinement maps them.
Disk == IF file = Absent THEN 0 ELSE file.sum.total

StatsTypeOK ==
    /\ data \in Data
    /\ file \in Data \cup {Absent}
    /\ flusher \in [pc : {"wait", "write", "last", "gone"}, doc : Data]

\* The file lies behind the document being written, and that behind memory.
Ordered ==
    /\ Disk <= data.sum.total
    /\ flusher.pc \in {"write", "last"} =>
           Disk <= flusher.doc.sum.total /\ flusher.doc.sum.total <= data.sum.total

StatsInv == StatsTypeOK /\ Ordered

\* A step of the recorder or of one event, without the bounds of the runs.
CountStep ==
    /\ \E m \in Requested : AddFailure(m) \/ \E n \in Int : RecordTokens(m, n)
    /\ UNCHANGED <<file, flusher, stopping, broken>>
StatsStep == CountStep \/ Flusher \/ Stop \/ Restart \/ DiskChanges

LEMMA ZeroTyped == ZeroRow \in Row /\ NewData \in Data /\ NewData.sum.total = 0
  BY DEF ZeroRow, NewData, Row, Data

\* Adding to a row gives a row with one event more.
LEMMA RowsTyped ==
  ASSUME NEW row \in Row, NEW n \in Nat
  PROVE  /\ WithSuccess(row, n) \in Row /\ WithFailure(row) \in Row
         /\ WithSuccess(row, n).total = row.total + 1
         /\ WithFailure(row).total = row.total + 1
  BY DEF Row, WithSuccess, WithFailure

\* An event keeps the types and adds one to the total.
LEMMA CountStepAdds ==
  ASSUME data \in Data, CountStep
  PROVE  data' \in Data /\ data'.sum.total = data.sum.total + 1
<1>0. data.sum \in Row /\ \A r \in Rows : data.rows[r] \in Row
  BY DEF Data
<1>1. ASSUME NEW m \in Requested, AddFailure(m)
      PROVE  data' \in Data /\ data'.sum.total = data.sum.total + 1
  <2>1. data'.sum = WithFailure(data.sum)
        /\ data'.rows = [r \in Rows |-> IF r = Key(m)
                                       THEN WithFailure(data.rows[r])
                                       ELSE data.rows[r]]
        /\ data' = [sum |-> data'.sum, rows |-> data'.rows]
    BY <1>1 DEF AddFailure
  <2>2. data'.sum \in Row /\ data'.sum.total = data.sum.total + 1
    BY <1>0, <2>1, RowsTyped
  <2>3. data'.rows \in [Rows -> Row]
    BY <1>0, <2>1, RowsTyped
  <2>4. QED
    BY <2>1, <2>2, <2>3 DEF Data
<1>2. ASSUME NEW m \in Requested, NEW n \in Int, RecordTokens(m, n)
      PROVE  data' \in Data /\ data'.sum.total = data.sum.total + 1
  <2>0. NotNegative(n) \in Nat
    BY DEF NotNegative
  <2>1. data'.sum = WithSuccess(data.sum, NotNegative(n))
        /\ data'.rows = [r \in Rows |->
                            IF r = Key(m)
                            THEN WithSuccess(data.rows[r], NotNegative(n))
                            ELSE data.rows[r]]
        /\ data' = [sum |-> data'.sum, rows |-> data'.rows]
    BY <1>2 DEF RecordTokens
  <2>2. data'.sum \in Row /\ data'.sum.total = data.sum.total + 1
    BY <1>0, <2>0, <2>1, RowsTyped
  <2>3. data'.rows \in [Rows -> Row]
    BY <1>0, <2>0, <2>1, RowsTyped
  <2>4. QED
    BY <2>1, <2>2, <2>3 DEF Data
<1>3. QED
  BY <1>1, <1>2 DEF CountStep

\* Totals are natural numbers.
LEMMA TotalsNat ==
  ASSUME StatsTypeOK
  PROVE  /\ data.sum.total \in Nat /\ Disk \in Nat
         /\ flusher.doc \in Data /\ flusher.doc.sum.total \in Nat
         /\ (file # Absent => file \in Data /\ file.sum.total \in Nat)
  BY AbsentAssumption DEF StatsTypeOK, Disk, Data, Row

\* What each step does to memory and file, as the abstract counter sees it.
LEMMA StatsStepRefines ==
  ASSUME StatsInv, StatsStep
  PROVE  /\ StatsInv'
         /\ \/ data'.sum.total = data.sum.total + 1 /\ Disk' = Disk
            \/ data'.sum.total = data.sum.total /\ Disk' \in Disk .. data.sum.total
            \/ data'.sum.total = Disk /\ Disk' = Disk
<1> USE DEF StatsInv
<1>0. /\ data.sum.total \in Nat /\ Disk \in Nat
      /\ flusher.doc \in Data /\ flusher.doc.sum.total \in Nat
      /\ (file # Absent => file \in Data /\ file.sum.total \in Nat)
  BY TotalsNat
<1>1. CASE CountStep
  <2>1. data' \in Data /\ data'.sum.total = data.sum.total + 1
    BY <1>1, CountStepAdds DEF StatsTypeOK
  <2>2. file' = file /\ flusher' = flusher /\ Disk' = Disk
    BY <1>1 DEF CountStep, Disk
  <2>3. StatsTypeOK'
    BY <2>1, <2>2 DEF StatsTypeOK
  <2>4. Ordered'
    BY <1>0, <2>1, <2>2 DEF Ordered
  <2>5. QED
    BY <2>1, <2>2, <2>3, <2>4
<1>2. CASE Encode
  <2>1. data' = data /\ file' = file /\ Disk' = Disk
        /\ flusher' = [pc |-> "write", doc |-> data]
    BY <1>2 DEF Encode, Disk
  <2>2. StatsTypeOK'
    BY <2>1 DEF StatsTypeOK
  <2>3. Ordered'
    BY <1>0, <2>1 DEF Ordered
  <2>4. QED
    BY <1>0, <2>1, <2>2, <2>3 DEF Ordered
<1>3. CASE LastFlush
  <2>1. data' = data /\ file' = file /\ Disk' = Disk
        /\ \/ flusher' = [pc |-> "last", doc |-> data]
           \/ flusher' = Gone
    BY <1>3 DEF LastFlush, Disk
  <2>2. StatsTypeOK'
    BY <2>1, ZeroTyped DEF StatsTypeOK, Gone
  <2>3. Ordered'
    BY <1>0, <2>1 DEF Ordered, Gone
  <2>4. QED
    BY <1>0, <2>1, <2>2, <2>3 DEF Ordered
<1>4. CASE Write
  <2>1. /\ data' = data
        /\ flusher.pc \in {"write", "last"}
        /\ file' = file \/ file' = flusher.doc
        /\ flusher' \in {Gone, Waiting}
    BY <1>4 DEF Write
  <2>2. flusher'.pc \notin {"write", "last"}
    BY <2>1 DEF Gone, Waiting
  <2>3. StatsTypeOK'
    BY <1>0, <2>1, ZeroTyped DEF StatsTypeOK, Gone, Waiting
  <2>4. Disk' = Disk \/ Disk' = flusher.doc.sum.total
    BY <1>0, <2>1, AbsentAssumption DEF Disk
  <2>5. Disk' \in Disk .. data.sum.total
    BY <1>0, <2>1, <2>4 DEF Ordered
  <2>6. Ordered'
    BY <1>0, <2>1, <2>2, <2>5 DEF Ordered
  <2>7. QED
    BY <2>1, <2>3, <2>5, <2>6
<1>5. CASE Restart
  <2>1. file' = file /\ Disk' = Disk /\ flusher' = Waiting
        /\ data' = IF file = Absent THEN NewData ELSE file
    BY <1>5 DEF Restart, LoadFile, Disk
  <2>2. data' \in Data /\ data'.sum.total = Disk
    BY <1>0, <2>1, ZeroTyped DEF Disk
  <2>3. StatsTypeOK'
    BY <2>1, <2>2, ZeroTyped DEF StatsTypeOK, Waiting
  <2>4. Ordered'
    BY <1>0, <2>1, <2>2 DEF Ordered, Waiting
  <2>5. QED
    BY <2>1, <2>2, <2>3, <2>4
<1>6. CASE Stop \/ DiskChanges
  <2>1. data' = data /\ file' = file /\ flusher' = flusher /\ Disk' = Disk
    BY <1>6 DEF Stop, DiskChanges, Disk
  <2>2. QED
    BY <1>0, <2>1 DEF StatsTypeOK, Ordered
<1>7. QED
  BY <1>1, <1>2, <1>3, <1>4, <1>5, <1>6 DEF StatsStep, Flusher

\* Every step of the composition is a step of the recorder or leaves it alone.
LEMMA StepsProject ==
  ASSUME [Next]_vars
  PROVE  StatsStep \/ UNCHANGED <<data, file, flusher>>
<1> USE TokensAssumption, ModelAssumption
<1>1. CASE Send \/ Close \/ Read \/ ReadReturns \/ WriteLine \/ WriteFails
           \/ StreamEnds \/ ReadAll \/ AggregateFails \/ UNCHANGED vars
  BY <1>1 DEF Send, Close, Read, ReadReturns, WriteLine, WriteFails,
              StreamEnds, ReadAll, AggregateFails, vars, statsVars
<1>2. CASE FeedLine
  <2>1. UNCHANGED <<file, flusher, stopping, broken>>
        /\ (data' = data \/ \E n \in Tokens : RecordTokens(Model, n))
    BY <1>2 DEF FeedLine
  <2>2. QED
    BY <2>1 DEF StatsStep, CountStep
<1>3. CASE AnswerWhole
  <2>1. UNCHANGED <<file, flusher, stopping, broken>>
        /\ \E n \in ExtractUsageTokens(Answer) : RecordTokens(Model, n)
    BY <1>3 DEF AnswerWhole
  <2>2. ExtractUsageTokens(Answer) \subseteq Int
    BY DEF ExtractUsageTokens
  <2>3. QED
    BY <2>1, <2>2 DEF StatsStep, CountStep
<1>4. CASE Recorder
  <2>1. CASE Event
    <3>1. UNCHANGED <<file, flusher, stopping, broken>>
          /\ \E m \in Requested :
                AddFailure(m) \/ \E n \in Tokens : RecordTokens(m, n)
      BY <2>1 DEF Event
    <3>2. QED
      BY <3>1 DEF StatsStep, CountStep
  <2>2. QED
    BY <1>4, <2>1 DEF Recorder, StatsStep, Flusher
<1>5. QED
  BY <1>1, <1>2, <1>3, <1>4 DEF Next, Request

LEMMA StatsInvariant == Spec => []StatsInv
<1>1. Init => StatsInv
  <2> SUFFICES ASSUME Init PROVE StatsInv
    OBVIOUS
  <2>1. data = NewData /\ file = Absent /\ flusher = Waiting
    BY DEF Init, StatsInit
  <2>2. StatsTypeOK
    BY <2>1, ZeroTyped DEF StatsTypeOK, Waiting
  <2>3. Disk = 0 /\ data.sum.total = 0
    BY <2>1, ZeroTyped DEF Disk
  <2>4. Ordered
    BY <2>1, <2>3 DEF Ordered, Waiting
  <2>5. QED
    BY <2>2, <2>4 DEF StatsInv
<1>2. StatsInv /\ [Next]_vars => StatsInv'
  <2> SUFFICES ASSUME StatsInv, [Next]_vars PROVE StatsInv'
    OBVIOUS
  <2>1. CASE StatsStep
    BY <2>1, StatsStepRefines
  <2>2. CASE UNCHANGED <<data, file, flusher>>
    BY <2>2 DEF StatsInv, StatsTypeOK, Ordered, Disk
  <2>3. QED
    BY <2>1, <2>2, StepsProject
<1>3. QED
  BY <1>1, <1>2, PTL DEF Spec

\* Whatever streams, failures, saves, disk faults and restarts come together,
\* the recorder is the abstract counter: the file never goes back, never
\* runs ahead, and a restart goes on from it.
THEOREM UsageRefinesTotals == Spec => CountsTrail
<1>1. Init => TotalsSpec!Init
  <2> SUFFICES ASSUME Init PROVE TotalsSpec!Init
    OBVIOUS
  <2>1. data = NewData /\ file = Absent
    BY DEF Init, StatsInit
  <2>2. QED
    BY <2>1, ZeroTyped DEF TotalsSpec!Init
<1>2. StatsInv /\ [Next]_vars =>
          [TotalsSpec!Next]_<<data.sum.total,
                              IF file = Absent THEN 0 ELSE file.sum.total>>
  <2> SUFFICES ASSUME StatsInv, [Next]_vars
               PROVE  \/ TotalsSpec!Next
                      \/ UNCHANGED <<data.sum.total, Disk>>
    BY DEF Disk
  <2>1. CASE StatsStep
    <3>1. \/ data'.sum.total = data.sum.total + 1 /\ Disk' = Disk
          \/ data'.sum.total = data.sum.total /\ Disk' \in Disk .. data.sum.total
          \/ data'.sum.total = Disk /\ Disk' = Disk
      BY <2>1, StatsStepRefines
    <3>2. QED
      BY <3>1 DEF TotalsSpec!Next, TotalsSpec!Count, TotalsSpec!Persist,
                  TotalsSpec!Restart, Disk
  <2>2. CASE UNCHANGED <<data, file, flusher>>
    BY <2>2 DEF Disk
  <2>3. QED
    BY <2>1, <2>2, StepsProject
<1>3. QED
  BY <1>1, <1>2, StatsInvariant, PTL DEF Spec, CountsTrail, TotalsSpec!Spec

-----------------------------------------------------------------------------
(* Sums over the rows *)

\* The sum of f over the sets in D, each set's without one of its elements
\* first: what MapThenSumSet computes.
Some(s) == CHOOSE x \in s : TRUE
IsSum(it, D, f) ==
    it = [s \in D |-> IF s = {} THEN 0 ELSE f[Some(s)] + it[s \ {Some(s)}]]

Small(R, n) == {s \in SUBSET R : Cardinality(s) <= n}

LEMMA LeastNumber ==
  ASSUME NEW S \in SUBSET Nat, S # {}
  PROVE  \E n \in S : \A m \in S : n <= m
<1>1. \E x \in S : \A y \in S : ~(<<y, x>> \in OpToRel(<, Nat))
  BY NatLessThanWellFounded, WFMin
<1>2. PICK x \in S : \A y \in S : ~(<<y, x>> \in OpToRel(<, Nat))
  BY <1>1
<1>3. ASSUME NEW y \in S PROVE x <= y
  <2>1. ~(<<y, x>> \in {ss \in Nat \X Nat : ss[1] < ss[2]})
    BY <1>2 DEF OpToRel
  <2>2. x \in Nat /\ y \in Nat
    OBVIOUS
  <2>3. QED
    BY <2>1, <2>2
<1>4. QED
  BY <1>3

LEMMA WithoutSome ==
  ASSUME NEW R, IsFiniteSet(R), NEW s \in SUBSET R
  PROVE  /\ Cardinality(s) \in Nat /\ Cardinality(s) <= Cardinality(R)
         /\ s = {} => Cardinality(s) = 0
         /\ s # {} => /\ Some(s) \in s /\ s \ {Some(s)} \in SUBSET R
                      /\ Cardinality(s \ {Some(s)}) = Cardinality(s) - 1
                      /\ Cardinality(s \ {Some(s)}) \in Nat
<1>1. IsFiniteSet(s) /\ Cardinality(s) <= Cardinality(R)
  BY FS_Subset
<1>2. Cardinality(s) \in Nat
  BY <1>1, FS_CardinalityType
<1>3. s = {} => Cardinality(s) = 0
  BY FS_EmptySet
<1>4. ASSUME s # {}
      PROVE  /\ Some(s) \in s /\ s \ {Some(s)} \in SUBSET R
             /\ Cardinality(s \ {Some(s)}) = Cardinality(s) - 1
             /\ Cardinality(s \ {Some(s)}) \in Nat
  <2>1. Some(s) \in s
    BY <1>4 DEF Some
  <2>2. IsFiniteSet(s \ {Some(s)}) /\ Cardinality(s \ {Some(s)}) = Cardinality(s) - 1
    BY <1>1, <2>1, FS_RemoveElement
  <2>3. Cardinality(s \ {Some(s)}) \in Nat
    BY <2>2, FS_CardinalityType
  <2>4. QED
    BY <2>1, <2>2, <2>3
<1>5. QED
  BY <1>1, <1>2, <1>3, <1>4

\* There is such a sum: the smallest size for which there is none would have
\* one, made from the sums of the next smaller size.
LEMMA SumUpTo ==
  ASSUME NEW R, IsFiniteSet(R), NEW f, NEW n \in Nat
  PROVE  \E it : IsSum(it, Small(R, n), f)
<1> DEFINE Bad == {m \in Nat : ~\E it : IsSum(it, Small(R, m), f)}
<1> SUFFICES ASSUME Bad # {} PROVE FALSE
  OBVIOUS
<1>1. PICK m \in Bad : \A k \in Bad : m <= k
  BY LeastNumber
<1>2. m \in Nat /\ ~\E it : IsSum(it, Small(R, m), f)
  OBVIOUS
<1>3. CASE m = 0
  <2> DEFINE g == [s \in Small(R, 0) |-> 0]
  <2>1. \A s \in Small(R, 0) : s = {}
    <3> SUFFICES ASSUME NEW s \in Small(R, 0), s # {} PROVE FALSE
      OBVIOUS
    <3>1. s \in SUBSET R /\ Cardinality(s) <= 0
      BY DEF Small
    <3>2. Cardinality(s) \in Nat /\ Cardinality(s \ {Some(s)}) \in Nat
          /\ Cardinality(s \ {Some(s)}) = Cardinality(s) - 1
      BY <3>1, WithoutSome
    <3>3. QED
      BY <3>1, <3>2
  <2>2. IsSum(g, Small(R, 0), f)
    BY <2>1 DEF IsSum
  <2>3. QED
    BY <1>2, <1>3, <2>2
<1>4. CASE m # 0
  <2>1. m - 1 \in Nat /\ ~(m <= m - 1)
    BY <1>2, <1>4
  <2>2. m - 1 \notin Bad
    BY <1>1, <2>1
  <2>3. PICK it : IsSum(it, Small(R, m - 1), f)
    BY <2>1, <2>2
  <2> DEFINE g == [s \in Small(R, m) |->
                      IF s = {} THEN 0 ELSE f[Some(s)] + it[s \ {Some(s)}]]
             h == [s \in Small(R, m) |->
                      IF s = {} THEN 0 ELSE f[Some(s)] + g[s \ {Some(s)}]]
  <2>4. ASSUME NEW t \in Small(R, m - 1)
        PROVE  t \in Small(R, m) /\ it[t] = g[t]
    <3>1. t \in SUBSET R /\ Cardinality(t) <= m - 1
      BY DEF Small
    <3>2. Cardinality(t) \in Nat
      BY <3>1, WithoutSome
    <3>3. t \in Small(R, m)
      BY <1>2, <3>1, <3>2 DEF Small
    <3>4. it[t] = IF t = {} THEN 0 ELSE f[Some(t)] + it[t \ {Some(t)}]
      BY <2>3 DEF IsSum
    <3>5. QED
      BY <3>3, <3>4
  <2>5. ASSUME NEW s \in Small(R, m), s # {}
        PROVE  s \ {Some(s)} \in Small(R, m - 1)
    <3>1. s \in SUBSET R /\ Cardinality(s) <= m
      BY DEF Small
    <3>2. /\ s \ {Some(s)} \in SUBSET R
          /\ Cardinality(s) \in Nat
          /\ Cardinality(s \ {Some(s)}) = Cardinality(s) - 1
      BY <2>5, <3>1, WithoutSome
    <3>3. Cardinality(s \ {Some(s)}) <= m - 1
      BY <1>2, <3>1, <3>2
    <3>4. QED
      BY <3>2, <3>3 DEF Small
  <2>6. \A s \in Small(R, m) :
           s # {} => it[s \ {Some(s)}] = g[s \ {Some(s)}]
    <3> HIDE DEF g
    <3>1. QED
      BY <2>4, <2>5
  <2>7. g = h
    <3>1. ASSUME NEW s \in Small(R, m) PROVE g[s] = h[s]
      BY <2>6
    <3>2. QED
      BY <3>1
  <2>8. IsSum(g, Small(R, m), f)
    BY <2>7 DEF IsSum
  <2>9. QED
    BY <1>2, <2>8
<1>5. QED
  BY <1>3, <1>4

LEMMA SumExists ==
  ASSUME NEW R, IsFiniteSet(R), NEW f
  PROVE  \E it : IsSum(it, SUBSET R, f)
<1>1. Cardinality(R) \in Nat
  BY FS_CardinalityType
<1>2. Small(R, Cardinality(R)) = SUBSET R
  <2>1. \A s \in SUBSET R : Cardinality(s) <= Cardinality(R)
    BY WithoutSome
  <2>2. Small(R, Cardinality(R)) = {s \in SUBSET R : Cardinality(s) <= Cardinality(R)}
    BY DEF Small
  <2> HIDE DEF Small
  <2>3. QED
    BY <2>1, <2>2, Zenon
<1>3. \E it : IsSum(it, Small(R, Cardinality(R)), f)
  BY <1>1, SumUpTo
<1>4. QED
  BY <1>2, <1>3, Zenon

\* What one value changes, the sum of every set with it changes.
LEMMA SumsShift ==
  ASSUME NEW R, IsFiniteSet(R), NEW f \in [R -> Int], NEW g \in [R -> Int],
         NEW k \in R, NEW c \in Int, g[k] = f[k] + c,
         \A r \in R \ {k} : g[r] = f[r],
         NEW a, IsSum(a, SUBSET R, f), NEW b, IsSum(b, SUBSET R, g)
  PROVE  a[R] \in Int /\ b[R] = a[R] + c
<1> DEFINE Moved(s) == a[s] \in Int /\ b[s] = a[s] + (IF k \in s THEN c ELSE 0)
           Bad == {s \in SUBSET R : ~Moved(s)}
           Sizes == {Cardinality(s) : s \in Bad}
<1>1. ASSUME Bad # {} PROVE FALSE
  <2>1. Sizes \in SUBSET Nat /\ Sizes # {}
    <3>1. \A s \in Bad : Cardinality(s) \in Nat
      BY WithoutSome
    <3> HIDE DEF Bad
    <3>2. QED
      BY <1>1, <3>1
  <2>2. PICK n \in Sizes : \A m \in Sizes : n <= m
    <3> HIDE DEF Sizes
    <3>1. QED
      BY <2>1, LeastNumber
  <2>3. PICK s \in Bad : n = Cardinality(s)
    OBVIOUS
  <2>4. s \in SUBSET R /\ ~Moved(s)
    OBVIOUS
  <2> HIDE DEF Moved
  <2>5. a[s] = IF s = {} THEN 0 ELSE f[Some(s)] + a[s \ {Some(s)}]
    BY <2>4 DEF IsSum
  <2>6. b[s] = IF s = {} THEN 0 ELSE g[Some(s)] + b[s \ {Some(s)}]
    BY <2>4 DEF IsSum
  <2>7. CASE s = {}
    BY <2>4, <2>5, <2>6, <2>7 DEF Moved
  <2>8. CASE s # {}
    <3> DEFINE x == Some(s)
               t == s \ {Some(s)}
    <3>1. x \in s /\ x \in R /\ t \in SUBSET R
          /\ Cardinality(t) = Cardinality(s) - 1
          /\ Cardinality(s) \in Nat /\ Cardinality(t) \in Nat
      BY <2>4, <2>8, WithoutSome
    <3>2. ~(Cardinality(s) <= Cardinality(t))
      BY <3>1
    <3>3. Cardinality(t) \notin Sizes
      BY <2>2, <2>3, <3>2
    <3>4. Moved(t)
      BY <3>1, <3>3
    <3>5. a[s] = f[x] + a[t] /\ b[s] = g[x] + b[t]
      BY <2>5, <2>6, <2>8
    <3>6. f[x] \in Int /\ (x = k => g[x] = f[x] + c) /\ (x # k => g[x] = f[x])
      BY <3>1
    <3>7. (k \in s <=> (x = k \/ k \in t)) /\ (x = k => k \notin t)
      BY <3>1
    <3> HIDE DEF x, t
    <3>8. a[t] \in Int /\ b[t] = a[t] + (IF k \in t THEN c ELSE 0)
      BY <3>4 DEF Moved
    <3>9. Moved(s)
      <4>1. CASE x = k
        BY <3>5, <3>6, <3>7, <3>8, <4>1 DEF Moved
      <4>2. CASE x # k
        BY <3>5, <3>6, <3>7, <3>8, <4>2 DEF Moved
      <4>3. QED
        BY <4>1, <4>2
    <3>10. QED
      BY <2>4, <3>9
  <2>9. QED
    BY <2>7, <2>8
<1>2. Moved(R)
  BY <1>1
<1>3. QED
  BY <1>2

\* A sum of zeros: the smallest set whose sum is not zero would have one
\* element too many.
LEMMA SumOfZeros ==
  ASSUME NEW R, IsFiniteSet(R), NEW f, \A r \in R : f[r] = 0,
         NEW a, IsSum(a, SUBSET R, f)
  PROVE  a[R] = 0
<1> DEFINE Bad == {s \in SUBSET R : a[s] # 0}
           Sizes == {Cardinality(s) : s \in Bad}
<1>1. ASSUME Bad # {} PROVE FALSE
  <2>1. Sizes \in SUBSET Nat /\ Sizes # {}
    <3>1. \A s \in Bad : Cardinality(s) \in Nat
      BY WithoutSome
    <3> HIDE DEF Bad
    <3>2. QED
      BY <1>1, <3>1
  <2>2. PICK n \in Sizes : \A m \in Sizes : n <= m
    <3> HIDE DEF Sizes
    <3>1. QED
      BY <2>1, LeastNumber
  <2>3. PICK s \in Bad : n = Cardinality(s)
    OBVIOUS
  <2>4. a[s] = IF s = {} THEN 0 ELSE f[Some(s)] + a[s \ {Some(s)}]
    BY DEF IsSum
  <2>5. s # {} /\ s \in SUBSET R
    BY <2>4
  <2> DEFINE t == s \ {Some(s)}
  <2>6. Some(s) \in R /\ t \in SUBSET R /\ Cardinality(t) = Cardinality(s) - 1
        /\ Cardinality(s) \in Nat /\ Cardinality(t) \in Nat
    BY <2>5, WithoutSome
  <2>7. ~(Cardinality(s) <= Cardinality(t))
    BY <2>6
  <2>8. Cardinality(t) \notin Sizes
    BY <2>2, <2>3, <2>7
  <2>9. a[t] = 0
    BY <2>6, <2>8
  <2>10. QED
    BY <2>4, <2>5, <2>6, <2>9
<1>2. QED
  BY <1>1

\* SumOver is such a sum.
LEMMA SumOverIs ==
  ASSUME IsFiniteSet(Rows), NEW d, NEW column
  PROVE  \E it : /\ IsSum(it, SUBSET Rows, [r \in Rows |-> d.rows[r][column]])
                 /\ SumOver(d, column) = it[Rows]
<1> DEFINE f == [r \in Rows |-> d.rows[r][column]]
<1>1. PICK it : IsSum(it, SUBSET Rows, f)
  BY SumExists
<1>2. ASSUME NEW g
      PROVE  IsSum(g, SUBSET Rows, f) <=>
                g = [s \in SUBSET Rows |->
                        IF s = {} THEN 0
                        ELSE LET x == CHOOSE x \in s : TRUE
                             IN  d.rows[x][column] + g[s \ {x}]]
  <2>1. \A s \in SUBSET Rows : s # {} => f[Some(s)] = d.rows[Some(s)][column]
    BY DEF Some
  <2> HIDE DEF f
  <2>2. QED
    BY <2>1 DEF IsSum, Some
<1>3. PICK g : /\ g = [s \in SUBSET Rows |->
                          IF s = {} THEN 0
                          ELSE LET x == CHOOSE x \in s : TRUE
                               IN  d.rows[x][column] + g[s \ {x}]]
               /\ SumOver(d, column) = g[Rows]
  <2>1. it = [s \in SUBSET Rows |->
                 IF s = {} THEN 0
                 ELSE LET x == CHOOSE x \in s : TRUE
                      IN  d.rows[x][column] + it[s \ {x}]]
    BY <1>1, <1>2
  <2> HIDE DEF f
  <2>2. QED
    BY <2>1 DEF SumOver, MapThenSumSet, MapThenFoldSet
<1>4. QED
  BY <1>2, <1>3

Columns == {"total", "success", "failed", "tokens"}

LEMMA RowColumns ==
  ASSUME NEW row \in Row, NEW column \in Columns
  PROVE  row[column] \in Nat
  BY DEF Row, Columns

\* One row's column changes by c: so does the column's sum.
LEMMA SumOverShift ==
  ASSUME IsFiniteSet(Rows), NEW d \in Data, NEW e \in Data, NEW column \in Columns,
         NEW k \in Rows, NEW c \in Int,
         e.rows[k][column] = d.rows[k][column] + c,
         \A r \in Rows \ {k} : e.rows[r] = d.rows[r]
  PROVE  SumOver(d, column) \in Int /\ SumOver(e, column) = SumOver(d, column) + c
<1> DEFINE f == [r \in Rows |-> d.rows[r][column]]
           g == [r \in Rows |-> e.rows[r][column]]
<1>1. \A r \in Rows : d.rows[r] \in Row /\ e.rows[r] \in Row
  BY DEF Data
<1>2. \A r \in Rows : d.rows[r][column] \in Int /\ e.rows[r][column] \in Int
  BY <1>1, RowColumns
<1>3. f \in [Rows -> Int] /\ g \in [Rows -> Int]
  BY <1>2
<1>4. g[k] = f[k] + c /\ \A r \in Rows \ {k} : g[r] = f[r]
  OBVIOUS
<1>5. PICK a : IsSum(a, SUBSET Rows, f) /\ SumOver(d, column) = a[Rows]
  BY SumOverIs
<1>6. PICK b : IsSum(b, SUBSET Rows, g) /\ SumOver(e, column) = b[Rows]
  BY SumOverIs
<1> HIDE DEF f, g
<1>7. a[Rows] \in Int /\ b[Rows] = a[Rows] + c
  BY <1>3, <1>4, <1>5, <1>6, SumsShift
<1>8. QED
  BY <1>5, <1>6, <1>7

LEMMA ZeroSums ==
  ASSUME IsFiniteSet(Rows)
  PROVE  AddsUp(NewData)
<1>1. ASSUME NEW column \in Columns PROVE SumOver(NewData, column) = 0
  <2> DEFINE f == [r \in Rows |-> NewData.rows[r][column]]
  <2>1. \A r \in Rows : f[r] = 0
    BY DEF NewData, ZeroRow, Columns
  <2>2. PICK a : IsSum(a, SUBSET Rows, f) /\ SumOver(NewData, column) = a[Rows]
    BY SumOverIs
  <2> HIDE DEF f
  <2>3. QED
    BY <2>1, <2>2, SumOfZeros
<1>2. /\ NewData.sum.total = 0 /\ NewData.sum.success = 0
      /\ NewData.sum.failed = 0 /\ NewData.sum.tokens = 0
      /\ \A r \in Rows : NewData.rows[r].tokens = 0
  BY DEF NewData, ZeroRow
<1>3. QED
  BY <1>1, <1>2 DEF AddsUp, Columns

\* One event of c tokens in row k, a failure (x = 1) or a success (y = 1).
LEMMA AddedUp ==
  ASSUME IsFiniteSet(Rows), NEW d \in Data, AddsUp(d), NEW e \in Data,
         NEW k \in Rows, NEW x \in {0, 1}, NEW y \in {0, 1}, x + y = 1, NEW c \in Nat,
         \A r \in Rows \ {k} : e.rows[r] = d.rows[r],
         e.rows[k]["total"] = d.rows[k]["total"] + 1,
         e.rows[k]["failed"] = d.rows[k]["failed"] + x,
         e.rows[k]["success"] = d.rows[k]["success"] + y,
         e.rows[k]["tokens"] = d.rows[k]["tokens"] + c,
         e.sum.total = d.sum.total + 1, e.sum.failed = d.sum.failed + x,
         e.sum.success = d.sum.success + y, e.sum.tokens = d.sum.tokens + c
  PROVE  AddsUp(e)
<1>1. /\ x \in Int /\ y \in Int /\ c \in Int /\ 1 \in Int
      /\ "total" \in Columns /\ "failed" \in Columns
      /\ "success" \in Columns /\ "tokens" \in Columns
  BY DEF Columns
<1>2. SumOver(d, "total") \in Int /\ SumOver(e, "total") = SumOver(d, "total") + 1
  BY <1>1, SumOverShift
<1>3. SumOver(d, "failed") \in Int /\ SumOver(e, "failed") = SumOver(d, "failed") + x
  BY <1>1, SumOverShift
<1>4. SumOver(d, "success") \in Int /\ SumOver(e, "success") = SumOver(d, "success") + y
  BY <1>1, SumOverShift
<1>5. SumOver(d, "tokens") \in Int /\ SumOver(e, "tokens") = SumOver(d, "tokens") + c
  BY <1>1, SumOverShift
<1>6. e.sum.total = e.sum.success + e.sum.failed
  BY <1>1, <1>3, <1>4 DEF AddsUp
<1>7. \A r \in Rows : e.rows[r].tokens >= 0
  BY DEF Data, Row
<1>8. QED
  BY <1>2, <1>3, <1>4, <1>5, <1>6, <1>7 DEF AddsUp

LEMMA CountAddsUp ==
  ASSUME IsFiniteSet(Rows), data \in Data, AddsUp(data), CountStep
  PROVE  AddsUp(data')
<1>0. data' \in Data
  BY CountStepAdds
<1>1. data.sum \in Row /\ \A r \in Rows : data.rows[r] \in Row /\ data'.rows[r] \in Row
  BY <1>0 DEF Data
<1>2. ASSUME NEW m \in Requested, AddFailure(m) PROVE AddsUp(data')
  <2> DEFINE k == Key(m)
             row == data.rows[k]
  <2>1. k \in Rows /\ row \in Row
    BY <1>1 DEF Key, Rows
  <2>2. /\ data'.sum = WithFailure(data.sum)
        /\ data'.rows = [r \in Rows |-> IF r = k THEN WithFailure(data.rows[r])
                                        ELSE data.rows[r]]
    BY <1>2 DEF AddFailure
  <2>3. data'.rows[k] = WithFailure(row) /\ \A r \in Rows \ {k} : data'.rows[r] = data.rows[r]
    BY <2>1, <2>2
  <2> HIDE DEF k
  <2>4. /\ data'.rows[k]["total"] = row["total"] + 1
        /\ data'.rows[k]["failed"] = row["failed"] + 1
        /\ data'.rows[k]["success"] = row["success"] + 0
        /\ data'.rows[k]["tokens"] = row["tokens"] + 0
    BY <2>1, <2>3 DEF WithFailure, Row
  <2>5. /\ data'.sum.total = data.sum.total + 1
        /\ data'.sum.failed = data.sum.failed + 1
        /\ data'.sum.success = data.sum.success + 0
        /\ data'.sum.tokens = data.sum.tokens + 0
    BY <1>1, <2>2 DEF WithFailure, Row
  <2>6. QED
    BY <1>0, <1>1, <2>1, <2>3, <2>4, <2>5, AddedUp DEF row
<1>3. ASSUME NEW m \in Requested, NEW n \in Int, RecordTokens(m, n)
      PROVE  AddsUp(data')
  <2> DEFINE k == Key(m)
             row == data.rows[k]
             c == NotNegative(n)
  <2>0. c \in Nat
    BY DEF NotNegative
  <2>1. k \in Rows /\ row \in Row
    BY <1>1 DEF Key, Rows
  <2>2. /\ data'.sum = WithSuccess(data.sum, c)
        /\ data'.rows = [r \in Rows |-> IF r = k THEN WithSuccess(data.rows[r], c)
                                        ELSE data.rows[r]]
    BY <1>3 DEF RecordTokens
  <2>3. data'.rows[k] = WithSuccess(row, c)
        /\ \A r \in Rows \ {k} : data'.rows[r] = data.rows[r]
    BY <2>1, <2>2
  <2> HIDE DEF k, c
  <2>4. /\ data'.rows[k]["total"] = row["total"] + 1
        /\ data'.rows[k]["failed"] = row["failed"] + 0
        /\ data'.rows[k]["success"] = row["success"] + 1
        /\ data'.rows[k]["tokens"] = row["tokens"] + c
    BY <2>1, <2>3 DEF WithSuccess, Row
  <2>5. /\ data'.sum.total = data.sum.total + 1
        /\ data'.sum.failed = data.sum.failed + 0
        /\ data'.sum.success = data.sum.success + 1
        /\ data'.sum.tokens = data.sum.tokens + c
    BY <1>1, <2>0, <2>2 DEF WithSuccess, Row
  <2>6. QED
    BY <1>0, <1>1, <2>0, <2>1, <2>3, <2>4, <2>5, AddedUp DEF row
<1>4. QED
  BY <1>2, <1>3 DEF CountStep

\* Memory, file and the document of a flush under way all add up.
Sums ==
    /\ AddsUp(data)
    /\ file # Absent => AddsUp(file)
    /\ flusher.pc \in {"write", "last"} => AddsUp(flusher.doc)

LEMMA StatsStepAddsUp ==
  ASSUME IsFiniteSet(Rows), StatsInv, Sums, StatsStep
  PROVE  Sums'
<1>1. CASE CountStep
  <2>1. data \in Data
    BY DEF StatsInv, StatsTypeOK
  <2>2. AddsUp(data') /\ file' = file /\ flusher' = flusher
    BY <1>1, <2>1, CountAddsUp DEF CountStep, Sums
  <2>3. QED
    BY <2>2 DEF Sums
<1>2. CASE Encode
  <2>1. data' = data /\ file' = file /\ flusher' = [pc |-> "write", doc |-> data]
    BY <1>2 DEF Encode
  <2>2. QED
    BY <2>1 DEF Sums
<1>3. CASE LastFlush
  <2>1. data' = data /\ file' = file
        /\ (flusher' = [pc |-> "last", doc |-> data] \/ flusher' = Gone)
    BY <1>3 DEF LastFlush
  <2>2. QED
    BY <2>1 DEF Sums, Gone
<1>4. CASE Write
  <2>1. /\ data' = data /\ flusher.pc \in {"write", "last"}
        /\ file' = file \/ file' = flusher.doc
        /\ flusher' = Gone \/ flusher' = Waiting
    BY <1>4 DEF Write
  <2>2. flusher'.pc \notin {"write", "last"}
    BY <2>1 DEF Gone, Waiting
  <2>3. QED
    BY <2>1, <2>2 DEF Sums
<1>5. CASE Restart
  <2>1. file' = file /\ flusher' = Waiting
        /\ data' = IF file = Absent THEN NewData ELSE file
    BY <1>5 DEF Restart, LoadFile
  <2>2. AddsUp(data')
    BY <2>1, ZeroSums DEF Sums
  <2>3. QED
    BY <2>1, <2>2 DEF Sums, Waiting
<1>6. CASE Stop \/ DiskChanges
  BY <1>6 DEF Stop, DiskChanges, Sums
<1>7. QED
  BY <1>1, <1>2, <1>3, <1>4, <1>5, <1>6 DEF StatsStep, Flusher

\* RecordTokens, AddFailure, Run and Load: for finitely many models, each
\* column of the reports is the sum of its rows, in memory and in the file.
THEOREM UsageRowsAddUp == Spec => []RowsAddUp
<1>1. IsFiniteSet(Rows)
  <2>1. IsFiniteSet(Requested \ {NoName})
    BY FiniteNames, FS_RemoveElement
  <2>2. QED
    BY <2>1, FS_AddElement DEF Rows
<1>2. Init => Sums
  <2> SUFFICES ASSUME Init PROVE Sums
    OBVIOUS
  <2>1. data = NewData /\ file = Absent /\ flusher = Waiting
    BY DEF Init, StatsInit
  <2>2. QED
    BY <1>1, <2>1, ZeroSums DEF Sums, Waiting
<1>3. StatsInv /\ Sums /\ [Next]_vars => Sums'
  <2> SUFFICES ASSUME StatsInv, Sums, [Next]_vars PROVE Sums'
    OBVIOUS
  <2>1. CASE StatsStep
    BY <1>1, <2>1, StatsStepAddsUp
  <2>2. CASE UNCHANGED <<data, file, flusher>>
    BY <2>2 DEF Sums
  <2>3. QED
    BY <2>1, <2>2, StepsProject
<1>4. Sums => RowsAddUp
  BY DEF Sums, RowsAddUp
<1>5. QED
  BY <1>2, <1>3, <1>4, StatsInvariant, PTL DEF Spec

-----------------------------------------------------------------------------
(* Pieces of a stream, by their number *)

\* The j-th piece upstream sends.
Piece(j) == <<((j - 1) \div 3) + 1, ((j - 1) % 3) + 1>>

\* s is what follows the first a pieces.
Cut(s, a) ==
    /\ s \in Seq(Int \X Int)
    /\ \A i \in 1 .. Len(s) : s[i] = Piece(a + i)

LEMMA Pieces ==
  ASSUME NEW j \in Nat
  PROVE  /\ Piece(j) \in Int \X Int
         /\ Piece(j)[2] = 3 <=> j % 3 = 0
         /\ Piece(j)[2] \in 1 .. 3
         /\ j = 3 * (Piece(j)[1] - 1) + Piece(j)[2]
         /\ Piece(j + 1) = IF Piece(j)[2] = 3 THEN <<Piece(j)[1] + 1, 1>>
                           ELSE <<Piece(j)[1], Piece(j)[2] + 1>>
<1> DEFINE q == (j - 1) \div 3
           r == (j - 1) % 3
<1>1. q \in Int /\ r \in 0 .. 2 /\ j - 1 = 3 * q + r
  OBVIOUS
<1>2. Piece(j) = <<q + 1, r + 1>> /\ Piece(j)[1] = q + 1 /\ Piece(j)[2] = r + 1
  BY DEF Piece
<1>3. CASE r = 2
  <2>1. (j + 1 - 1) \div 3 = q + 1 /\ (j + 1 - 1) % 3 = 0
    BY <1>1, <1>3
  <2>2. Piece(j + 1) = <<q + 2, 1>>
    BY <1>1, <2>1 DEF Piece
  <2> HIDE DEF q, r
  <2>3. QED
    BY <1>1, <1>2, <1>3, <2>2
<1>4. CASE r # 2
  <2>1. (j + 1 - 1) \div 3 = q /\ (j + 1 - 1) % 3 = r + 1
    BY <1>1, <1>4
  <2>2. Piece(j + 1) = <<q + 1, r + 2>>
    BY <1>1, <2>1 DEF Piece
  <2> HIDE DEF q, r
  <2>3. QED
    BY <1>1, <1>2, <1>4, <2>2
<1>5. QED
  BY <1>3, <1>4

LEMMA PieceAt ==
  ASSUME NEW n \in Int, NEW k \in 1 .. 3, NEW j \in Nat
  PROVE  Piece(j) = <<n, k>> <=> j = 3 * (n - 1) + k
<1> DEFINE q == (j - 1) \div 3
           r == (j - 1) % 3
<1>1. q \in Int /\ r \in 0 .. 2 /\ j - 1 = 3 * q + r
  OBVIOUS
<1>2. Piece(j) = <<q + 1, r + 1>>
  BY DEF Piece
<1> HIDE DEF q, r
<1>3. QED
  BY <1>1, <1>2

LEMMA CutEmpty ==
  ASSUME NEW a \in Nat
  PROVE  Cut(<<>>, a) /\ Len(<<>>) = 0
  BY DEF Cut

LEMMA CutLen ==
  ASSUME NEW a, NEW s, Cut(s, a)
  PROVE  Len(s) \in Nat /\ DOMAIN s = 1 .. Len(s)
  BY LenProperties DEF Cut

LEMMA CutAppend ==
  ASSUME NEW a \in Nat, NEW s, Cut(s, a)
  PROVE  LET t == Append(s, Piece(a + Len(s) + 1))
         IN  Cut(t, a) /\ Len(t) = Len(s) + 1
<1> DEFINE p == Piece(a + Len(s) + 1)
           t == Append(s, p)
<1>1. Len(s) \in Nat /\ s \in Seq(Int \X Int)
  BY CutLen DEF Cut
<1>2. p \in Int \X Int
  <2>1. a + Len(s) + 1 \in Nat
    BY <1>1
  <2>2. QED
    BY <2>1, Pieces
<1> HIDE DEF p
<1>3. /\ t \in Seq(Int \X Int) /\ Len(t) = Len(s) + 1 /\ t[Len(s) + 1] = p
      /\ \A i \in 1 .. Len(s) : t[i] = s[i]
  BY <1>1, <1>2, AppendProperties
<1>4. ASSUME NEW i \in 1 .. Len(t) PROVE t[i] = Piece(a + i)
  <2>1. CASE i = Len(s) + 1
    <3>1. a + i = a + Len(s) + 1
      BY <1>1, <2>1
    <3>2. QED
      BY <1>3, <2>1, <3>1 DEF p
  <2>2. CASE i # Len(s) + 1
    <3>1. i \in 1 .. Len(s)
      BY <1>1, <1>3, <2>2
    <3>2. QED
      BY <1>3, <3>1 DEF Cut
  <2>3. QED
    BY <2>1, <2>2
<1>5. QED
  BY <1>3, <1>4 DEF Cut, p

LEMMA CutConcat ==
  ASSUME NEW a \in Nat, NEW s, Cut(s, a), NEW t, Cut(t, a + Len(s))
  PROVE  Cut(s \o t, a) /\ Len(s \o t) = Len(s) + Len(t)
<1> DEFINE u == s \o t
<1>1. /\ Len(s) \in Nat /\ s \in Seq(Int \X Int)
      /\ Len(t) \in Nat /\ t \in Seq(Int \X Int)
  BY CutLen DEF Cut
<1>2. /\ u \in Seq(Int \X Int) /\ Len(u) = Len(s) + Len(t)
      /\ \A i \in 1 .. Len(s) + Len(t) :
            u[i] = IF i <= Len(s) THEN s[i] ELSE t[i - Len(s)]
  BY <1>1, ConcatProperties
<1> HIDE DEF u
<1>3. ASSUME NEW i \in 1 .. Len(u) PROVE u[i] = Piece(a + i)
  <2>1. CASE i <= Len(s)
    <3>1. i \in 1 .. Len(s)
      BY <1>1, <1>2, <2>1
    <3>2. QED
      BY <1>1, <1>2, <2>1, <3>1 DEF Cut
  <2>2. CASE ~(i <= Len(s))
    <3>1. i - Len(s) \in 1 .. Len(t) /\ a + Len(s) + (i - Len(s)) = a + i
      BY <1>1, <1>2, <2>2
    <3>2. QED
      BY <1>1, <1>2, <2>2, <3>1 DEF Cut
  <2>3. QED
    BY <2>1, <2>2
<1>4. QED
  BY <1>2, <1>3 DEF Cut, u

\* What begins with a line has a whole one if it is three pieces long.
LEMMA CutEnds ==
  ASSUME NEW c \in Nat, NEW s, Cut(s, 3 * c)
  PROVE  Ends(s) <=> Len(s) >= 3
<1>1. Len(s) \in Nat /\ DOMAIN s = 1 .. Len(s)
  BY CutLen
<1>2. \A i \in 1 .. Len(s) : s[i] = Piece(3 * c + i) /\ (s[i][2] = 3 <=> i % 3 = 0)
  <2> TAKE i \in 1 .. Len(s)
  <2>1. s[i] = Piece(3 * c + i)
    BY DEF Cut
  <2> DEFINE j == 3 * c + i
  <2>2. j \in Nat /\ (j % 3 = 0 <=> i % 3 = 0)
    BY <1>1
  <2>3. Piece(j)[2] = 3 <=> j % 3 = 0
    BY <2>2, Pieces
  <2>4. QED
    BY <2>1, <2>2, <2>3
<1>3. ASSUME Len(s) >= 3 PROVE Ends(s)
  <2>1. 3 \in 1 .. Len(s) /\ 3 % 3 = 0
    BY <1>1, <1>3
  <2>2. s[3][2] = 3
    BY <1>2, <2>1
  <2>3. QED
    BY <1>1, <2>1, <2>2 DEF Ends, Range, Eol
<1>4. ASSUME Ends(s) PROVE Len(s) >= 3
  <2>1. PICK i \in 1 .. Len(s) : s[i][2] = 3
    BY <1>1, <1>4 DEF Ends, Range, Eol
  <2>2. i % 3 = 0
    BY <1>2, <2>1
  <2>3. QED
    BY <1>1, <2>1, <2>2
<1>5. QED
  BY <1>3, <1>4

LEMMA ThirdOrLater ==
  ASSUME NEW n \in Int, NEW i \in 1 .. n, i % 3 = 0
  PROVE  i >= 3
  OBVIOUS

\* The first line of it, and the rest.
LEMMA CutLine ==
  ASSUME NEW c \in Nat, NEW s, Cut(s, 3 * c), Ends(s)
  PROVE  /\ Cut(FirstLine(s), 3 * c) /\ Len(FirstLine(s)) = 3
         /\ FirstLine(s)[1][1] = c + 1
         /\ Cut(RestOf(s), 3 * (c + 1)) /\ Len(RestOf(s)) = Len(s) - 3
<1>1. Len(s) \in Nat /\ DOMAIN s = 1 .. Len(s) /\ s \in Seq(Int \X Int) /\ Len(s) >= 3
  BY CutLen, CutEnds DEF Cut
<1> DEFINE L == Len(s)
<1>0. L \in Nat /\ L >= 3
  BY <1>1
<1>2. \A i \in 1 .. Len(s) : s[i] = Piece(3 * c + i) /\ (s[i][2] = 3 <=> i % 3 = 0)
  <2> TAKE i \in 1 .. Len(s)
  <2>1. s[i] = Piece(3 * c + i)
    BY DEF Cut
  <2> DEFINE j == 3 * c + i
  <2>2. j \in Nat /\ (j % 3 = 0 <=> i % 3 = 0)
    BY <1>1
  <2>3. Piece(j)[2] = 3 <=> j % 3 = 0
    BY <2>2, Pieces
  <2>4. QED
    BY <2>1, <2>2, <2>3
<1>3. FirstEol(s) = 3
  <2> DEFINE P(i) == s[i][2] = Eol /\ \A j \in 1 .. i - 1 : s[j][2] # Eol
  <2>1. 3 \in DOMAIN s /\ P(3)
    <3>1. ASSUME NEW j \in 1 .. 2 PROVE j \in 1 .. Len(s) /\ ~(j % 3 = 0)
      <4>1. j = 1 \/ j = 2
        OBVIOUS
      <4>2. j \in 1 .. L /\ ~(j % 3 = 0)
        <5> HIDE DEF L
        <5>1. QED
          BY <1>0, <4>1
      <4>3. QED
        BY <4>2
    <3>2. 3 \in 1 .. Len(s) /\ 3 % 3 = 0 /\ 3 - 1 = 2
      BY <1>1
    <3>3. QED
      BY <1>1, <1>2, <3>1, <3>2 DEF Eol
  <2>2. ASSUME NEW i \in DOMAIN s, P(i) PROVE i = 3
    <3>1. i \in 1 .. Len(s) /\ i % 3 = 0
      <4>1. i \in 1 .. Len(s) /\ s[i][2] = 3
        BY <1>1, <2>2 DEF Eol
      <4>2. QED
        BY <1>2, <4>1
    <3>2. i >= 3
      BY <3>1, ThirdOrLater
    <3>3. ASSUME i > 3 PROVE FALSE
      <4>1. 3 \in 1 .. i - 1
        BY <1>1, <3>1, <3>3
      <4>2. s[3][2] # Eol
        BY <2>2, <4>1
      <4>3. QED
        BY <2>1, <4>2
    <3>4. QED
      BY <1>1, <3>1, <3>2, <3>3
  <2>3. FirstEol(s) = CHOOSE i \in DOMAIN s : P(i)
    BY DEF FirstEol
  <2> HIDE DEF P
  <2>4. QED
    BY <2>1, <2>2, <2>3
<1>4. FirstLine(s) = SubSeq(s, 1, 3) /\ RestOf(s) = SubSeq(s, 4, Len(s))
  BY <1>3 DEF FirstLine, RestOf
<1>5. /\ SubSeq(s, 1, 3) \in Seq(Int \X Int) /\ Len(SubSeq(s, 1, 3)) = 3
      /\ \A i \in 1 .. 3 : SubSeq(s, 1, 3)[i] = s[i]
  <2>1. 1 \in 1 .. Len(s) + 1 /\ 3 \in 0 .. Len(s) /\ 1 \in 1 .. Len(s) /\ 3 \in 1 .. Len(s)
    BY <1>1
  <2>2. QED
    BY <1>1, <2>1, SubSeqProperties
<1>6. /\ SubSeq(s, 4, Len(s)) \in Seq(Int \X Int) /\ Len(SubSeq(s, 4, Len(s))) = Len(s) - 3
      /\ \A i \in 1 .. Len(s) - 3 : SubSeq(s, 4, Len(s))[i] = s[i + 3]
  <2>1. 4 \in Int /\ Len(s) \in Int /\ \A i \in 4 .. Len(s) : s[i] \in Int \X Int
    <3>1. \A i \in 4 .. Len(s) : i \in 1 .. Len(s)
      BY <1>1
    <3>2. QED
      BY <1>1, <3>1
  <2> DEFINE t == SubSeq(s, 4, Len(s))
  <2>2. /\ t \in Seq(Int \X Int)
        /\ Len(t) = IF 4 <= Len(s) THEN Len(s) - 4 + 1 ELSE 0
        /\ \A i \in 1 .. Len(s) - 4 + 1 : t[i] = s[4 + i - 1]
    BY <1>1, <2>1, SubSeqProperties
  <2> HIDE DEF t
  <2>3. Len(t) = Len(s) - 3
    <3>1. Len(t) = IF 4 <= L THEN L - 4 + 1 ELSE 0
      BY <2>2
    <3> HIDE DEF L
    <3>2. Len(t) = L - 3
      BY <1>0, <3>1
    <3>3. QED
      BY <3>2 DEF L
  <2>4. \A i \in 1 .. Len(s) - 3 : i \in 1 .. Len(s) - 4 + 1 /\ 4 + i - 1 = i + 3
    BY <1>1
  <2>5. QED
    BY <2>2, <2>3, <2>4 DEF t
<1>7. Cut(SubSeq(s, 1, 3), 3 * c)
  <2>1. \A i \in 1 .. 3 : i \in 1 .. Len(s)
    BY <1>1
  <2>2. QED
    BY <1>2, <1>5, <2>1 DEF Cut
<1>8. Cut(SubSeq(s, 4, Len(s)), 3 * (c + 1))
  <2>1. \A i \in 1 .. Len(s) - 3 : i + 3 \in 1 .. Len(s) /\ 3 * c + (i + 3) = 3 * (c + 1) + i
    BY <1>1
  <2>2. QED
    BY <1>2, <1>6, <2>1 DEF Cut
<1>9. s[1][1] = c + 1
  <2>1. 1 \in 1 .. Len(s) /\ 3 * c + 1 \in Nat /\ 3 * c + 1 = 3 * ((c + 1) - 1) + 1
        /\ c + 1 \in Int /\ 1 \in 1 .. 3
    BY <1>1
  <2>2. Piece(3 * c + 1) = <<c + 1, 1>>
    BY <2>1, PieceAt
  <2>3. s[1] = Piece(3 * c + 1)
    BY <1>2, <2>1
  <2>4. s[1] = <<c + 1, 1>>
    BY <2>2, <2>3, Zenon
  <2>5. QED
    BY <2>4
<1>10. QED
  <2>1. SubSeq(s, 1, 3)[1][1] = c + 1
    BY <1>5, <1>9
  <2>2. QED
    BY <1>4, <1>5, <1>6, <1>7, <1>8, <2>1

\* Which pieces are among the first Len(s).
LEMMA CutRange ==
  ASSUME NEW s, Cut(s, 0), NEW n \in Int, NEW k \in 1 .. 3
  PROVE  <<n, k>> \in Range(s) <=> 3 * (n - 1) + k \in 1 .. Len(s)
<1>1. Len(s) \in Nat /\ DOMAIN s = 1 .. Len(s)
  BY CutLen
<1>2. \A i \in 1 .. Len(s) : i \in Nat /\ s[i] = Piece(i)
  <2> TAKE i \in 1 .. Len(s)
  <2>1. s[i] = Piece(0 + i) /\ 0 + i = i /\ i \in Nat
    BY <1>1 DEF Cut
  <2>2. QED
    BY <2>1
<1>3. \A i \in 1 .. Len(s) : s[i] = <<n, k>> <=> i = 3 * (n - 1) + k
  BY <1>2, PieceAt
<1>4. QED
  BY <1>1, <1>3 DEF Range

-----------------------------------------------------------------------------
(* Aggregate *)

LEMMA MaxIs ==
  ASSUME NEW m \in Nat, NEW S \in SUBSET (0 .. m), S # {}
  PROVE  Max(S) \in S /\ \A y \in S : y <= Max(S)
<1> DEFINE T == {m - y : y \in S}
<1>1. \A y \in S : y \in Int
  <2>1. \A y \in 0 .. m : y \in Int
    OBVIOUS
  <2>2. QED
    BY <2>1
<1>2. T \in SUBSET Nat /\ T # {}
  <2>1. \A y \in S : m - y \in Nat
    OBVIOUS
  <2>2. QED
    BY <2>1
<1>3. PICK n \in T : \A k \in T : n <= k
  BY <1>2, LeastNumber
<1>4. PICK x \in S : n = m - x
  OBVIOUS
<1>5. ASSUME NEW y \in S PROVE x >= y
  <2>1. n <= m - y
    BY <1>3
  <2>2. x \in Int /\ y \in Int
    BY <1>1
  <2>3. QED
    BY <1>4, <2>1, <2>2
<1>6. Max(S) \in S /\ \A y \in S : Max(S) >= y
  BY <1>5 DEF Max
<1>7. \A y \in S : y \in Int /\ Max(S) \in Int
  BY <1>1, <1>6
<1>8. QED
  BY <1>6, <1>7

\* What the loop of Aggregate makes of line n.
Turn(kinds, whole, n, answer) ==
    IF n \in whole THEN AddLine(kinds[n], n, answer) ELSE answer

\* The loop over the sets of lines in D, the last line of a set last: what
\* FoldLeft computes.
IsLoop(it, D, kinds, whole) ==
    it = [S \in D |-> IF S = {} THEN NoAnswer
                      ELSE Turn(kinds, whole, Max(S), it[S \ {Max(S)}])]

\* There is one: the first length for which there is none would have one, made
\* from that of the length before.
LEMMA LoopExists ==
  ASSUME NEW kinds, NEW whole, NEW n \in Nat
  PROVE  \E it : IsLoop(it, SUBSET (1 .. n), kinds, whole)
<1> DEFINE Bad == {m \in Nat : ~\E it : IsLoop(it, SUBSET (1 .. m), kinds, whole)}
<1> SUFFICES ASSUME Bad # {} PROVE FALSE
  OBVIOUS
<1>1. PICK m \in Bad : \A k \in Bad : m <= k
  BY LeastNumber
<1>2. m \in Nat /\ ~\E it : IsLoop(it, SUBSET (1 .. m), kinds, whole)
  OBVIOUS
<1>3. CASE m = 0
  <2> DEFINE g == [S \in SUBSET (1 .. 0) |-> NoAnswer]
  <2>1. \A S \in SUBSET (1 .. 0) : S = {}
    OBVIOUS
  <2>2. IsLoop(g, SUBSET (1 .. 0), kinds, whole)
    BY <2>1 DEF IsLoop
  <2>3. QED
    BY <1>2, <1>3, <2>2
<1>4. CASE m # 0
  <2>1. m - 1 \in Nat /\ ~(m <= m - 1)
    BY <1>2, <1>4
  <2>2. m - 1 \notin Bad
    BY <1>1, <2>1
  <2>3. PICK it : IsLoop(it, SUBSET (1 .. (m - 1)), kinds, whole)
    BY <2>1, <2>2
  <2> DEFINE g == [S \in SUBSET (1 .. m) |->
                      IF S = {} THEN NoAnswer
                      ELSE Turn(kinds, whole, Max(S), it[S \ {Max(S)}])]
             h == [S \in SUBSET (1 .. m) |->
                      IF S = {} THEN NoAnswer
                      ELSE Turn(kinds, whole, Max(S), g[S \ {Max(S)}])]
  <2>4. ASSUME NEW T \in SUBSET (1 .. (m - 1))
        PROVE  it[T] = g[T]
    <3>1. T \in SUBSET (1 .. m)
      BY <1>2
    <3>2. it[T] = IF T = {} THEN NoAnswer
                  ELSE Turn(kinds, whole, Max(T), it[T \ {Max(T)}])
      BY <2>3 DEF IsLoop
    <3>3. QED
      BY <3>1, <3>2
  <2>5. ASSUME NEW S \in SUBSET (1 .. m), S # {}
        PROVE  S \ {Max(S)} \in SUBSET (1 .. (m - 1))
    <3>1. Max(S) \in S /\ \A y \in S : y <= Max(S)
      <4>1. S \in SUBSET (0 .. m)
        BY <1>2
      <4>2. QED
        BY <1>2, <2>5, <4>1, MaxIs
    <3>2. ASSUME NEW y \in S, y # Max(S) PROVE y \in 1 .. (m - 1)
      <4>1. y <= Max(S)
        BY <3>1
      <4>2. y \in 1 .. m /\ Max(S) \in 1 .. m
        BY <3>1
      <4>3. QED
        BY <1>2, <3>2, <4>1, <4>2
    <3>3. QED
      BY <3>2
  <2>6. \A S \in SUBSET (1 .. m) :
           S # {} => it[S \ {Max(S)}] = g[S \ {Max(S)}]
    <3> HIDE DEF g
    <3>1. QED
      BY <2>4, <2>5
  <2>7. g = h
    <3>1. ASSUME NEW S \in SUBSET (1 .. m) PROVE g[S] = h[S]
      BY <2>6
    <3>2. QED
      BY <3>1
  <2>8. IsLoop(g, SUBSET (1 .. m), kinds, whole)
    BY <2>7 DEF IsLoop
  <2>9. QED
    BY <1>2, <2>8
<1>5. QED
  BY <1>3, <1>4

\* F holds the answer after each of the lines.
Loop(F, kinds, whole) ==
    /\ F[0] = NoAnswer
    /\ \A k \in 1 .. Len(kinds) : F[k] = Turn(kinds, whole, k, F[k - 1])

LEMMA AggregateLoops ==
  ASSUME NEW kinds \in Seq(Kinds), NEW whole
  PROVE  \E F : Loop(F, kinds, whole) /\ Aggregate(kinds, whole) = F[Len(kinds)]
<1> DEFINE L == Len(kinds)
           D == SUBSET (1 .. L)
           q == [i \in DOMAIN kinds |-> i]
<1>1. L \in Nat /\ DOMAIN kinds = 1 .. L /\ DOMAIN q = DOMAIN kinds
  BY LenProperties
<1>2. PICK it : IsLoop(it, D, kinds, whole)
  BY <1>1, LoopExists
<1>3. ASSUME NEW S \in D, S # {}
      PROVE  Max(S) \in DOMAIN kinds /\ q[Max(S)] = Max(S)
  <2>1. S \in SUBSET (0 .. L)
    BY <1>1
  <2>2. Max(S) \in S
    BY <1>1, <1>3, <2>1, MaxIs
  <2>3. QED
    BY <1>1, <2>2
<1>4. ASSUME NEW g
      PROVE  IsLoop(g, D, kinds, whole) <=>
                g = [S \in SUBSET DOMAIN q |->
                         IF S = {} THEN NoAnswer
                         ELSE LET x == Max(S)
                              IN  IF q[x] \in whole
                                  THEN AddLine(kinds[q[x]], q[x], g[S \ {x}])
                                  ELSE g[S \ {x}]]
  <2> HIDE DEF q
  <2>1. QED
    BY <1>1, <1>3 DEF IsLoop, Turn
<1>5. PICK g : /\ g = [S \in SUBSET DOMAIN q |->
                         IF S = {} THEN NoAnswer
                         ELSE LET x == Max(S)
                              IN  IF q[x] \in whole
                                  THEN AddLine(kinds[q[x]], q[x], g[S \ {x}])
                                  ELSE g[S \ {x}]]
               /\ Aggregate(kinds, whole) = g[DOMAIN q]
  <2>1. it = [S \in SUBSET DOMAIN q |->
                         IF S = {} THEN NoAnswer
                         ELSE LET x == Max(S)
                              IN  IF q[x] \in whole
                                  THEN AddLine(kinds[q[x]], q[x], it[S \ {x}])
                                  ELSE it[S \ {x}]]
    BY <1>2, <1>4
  <2>2. QED
    BY <2>1 DEF Aggregate, FoldLeftDomain, FoldLeft, MapThenFoldSet
<1>6. IsLoop(g, D, kinds, whole)
  BY <1>4, <1>5
<1> DEFINE F == [k \in 0 .. L |-> g[1 .. k]]
<1>7. ASSUME NEW k \in 0 .. L PROVE F[k] = g[1 .. k] /\ 1 .. k \in D
  BY <1>1
<1>8. F[0] = NoAnswer
  <2>1. 0 \in 0 .. L /\ 1 .. 0 = {}
    BY <1>1
  <2>2. g[{}] = NoAnswer
    BY <1>6 DEF IsLoop
  <2>3. QED
    BY <1>7, <2>1, <2>2
<1>9. ASSUME NEW k \in 1 .. L PROVE F[k] = Turn(kinds, whole, k, F[k - 1])
  <2>1. /\ k \in 0 .. L /\ k - 1 \in 0 .. L /\ 1 .. k # {} /\ k \in Nat
        /\ k \in 1 .. k /\ (1 .. k) \ {k} = 1 .. (k - 1)
    BY <1>1
  <2>2. Max(1 .. k) = k
    <3>1. 1 .. k \in SUBSET (0 .. k)
      BY <2>1
    <3>2. Max(1 .. k) \in 1 .. k /\ k <= Max(1 .. k)
      BY <2>1, <3>1, MaxIs
    <3>3. QED
      BY <2>1, <3>2
  <2>3. 1 .. k \in D
    BY <1>7, <2>1
  <2>4. g[1 .. k] = Turn(kinds, whole, Max(1 .. k), g[(1 .. k) \ {Max(1 .. k)}])
    BY <1>6, <2>1, <2>3 DEF IsLoop
  <2>5. g[1 .. k] = Turn(kinds, whole, k, g[1 .. (k - 1)])
    BY <2>1, <2>2, <2>4
  <2> HIDE DEF F
  <2>6. QED
    BY <1>7, <2>1, <2>5
<1>10. F[L] = g[DOMAIN q]
  BY <1>1
<1>11. Loop(F, kinds, whole)
  <2> HIDE DEF F
  <2>1. QED
    BY <1>8, <1>9 DEF Loop
<1>12. QED
  BY <1>5, <1>10, <1>11

-----------------------------------------------------------------------------
(* What a line adds *)

IsAnswer(a) ==
    /\ a = [content |-> a.content, delta |-> a.delta, usage |-> a.usage, calls |-> a.calls]
    /\ a.content \in Seq(Nat)
    /\ \A i \in DOMAIN a.calls :
          /\ a.calls[i] = [name |-> a.calls[i].name, args |-> a.calls[i].args]
          /\ a.calls[i].args \in Seq(Nat)

\* The texts and the calls the line leaves.
LEMMA TextAdds ==
  ASSUME NEW a, IsAnswer(a), NEW n \in Nat
  PROVE  LET b == AddLine("text", n, a)
         IN  /\ b = [content |-> b.content, delta |-> b.delta, usage |-> b.usage,
                     calls |-> b.calls]
             /\ b.content = Append(a.content, n) /\ b.calls = a.calls
<1>1. PICK b : b = [a EXCEPT !.content = Append(@, n), !.delta = TRUE]
  OBVIOUS
<1>2. AddLine("text", n, a) = b
  BY <1>1 DEF AddLine, Opens, ArgParts
<1>3. /\ b = [content |-> b.content, delta |-> b.delta, usage |-> b.usage,
              calls |-> b.calls]
      /\ b.content = Append(a.content, n) /\ b.calls = a.calls
  BY <1>1 DEF IsAnswer
<1>4. QED
  BY <1>2, <1>3

LEMMA UsageAdds ==
  ASSUME NEW a, IsAnswer(a), NEW n \in Nat
  PROVE  LET b == AddLine("usage", n, a)
         IN  /\ b = [content |-> b.content, delta |-> b.delta, usage |-> b.usage,
                     calls |-> b.calls]
             /\ b.content = a.content /\ b.calls = a.calls
<1>1. PICK b : b = [a EXCEPT !.usage = n]
  OBVIOUS
<1>2. AddLine("usage", n, a) = b
  BY <1>1 DEF AddLine, Opens, ArgParts
<1>3. /\ b = [content |-> b.content, delta |-> b.delta, usage |-> b.usage,
              calls |-> b.calls]
      /\ b.content = a.content /\ b.calls = a.calls
  BY <1>1 DEF IsAnswer
<1>4. QED
  BY <1>2, <1>3

LEMMA PartAdds ==
  ASSUME NEW a, IsAnswer(a), NEW n \in Nat, NEW kind \in Opens \cup ArgParts
  PROVE  LET b == AddLine(kind, n, a)
         IN  /\ b = [content |-> b.content, delta |-> b.delta, usage |-> b.usage,
                     calls |-> b.calls]
             /\ b.content = a.content /\ b.calls = Touch(a.calls, kind, n)
<1>1. PICK t : t = Touch(a.calls, kind, n)
  OBVIOUS
<1>2. PICK b : b = [a EXCEPT !.calls = t]
  OBVIOUS
<1>3. AddLine(kind, n, a) = b
  <2>1. kind # "text" /\ kind # "message" /\ kind # "usage"
    BY DEF Opens, ArgParts
  <2>2. AddLine(kind, n, a) = [a EXCEPT !.calls = Touch(@, kind, n)]
    BY <2>1 DEF AddLine
  <2>3. QED
    BY <1>1, <1>2, <2>2
<1>4. /\ b = [content |-> b.content, delta |-> b.delta, usage |-> b.usage,
              calls |-> b.calls]
      /\ b.content = a.content /\ b.calls = t
  BY <1>2 DEF IsAnswer
<1>5. QED
  BY <1>1, <1>3, <1>4

LEMMA OtherAdds ==
  ASSUME NEW a, NEW n, NEW kind \in {"done", "other"}
  PROVE  AddLine(kind, n, a) = a
BY DEF AddLine, Opens, ArgParts

\* A line after those in S at the end of their list.
LEMMA ListsMore ==
  ASSUME NEW s \in Seq(Nat), NEW S, Lists(s, S), NEW n \in Nat, \A m \in S : m < n
  PROVE  Append(s, n) \in Seq(Nat) /\ Lists(Append(s, n), S \cup {n})
<1> DEFINE u == Append(s, n)
<1>1. Len(s) \in Nat /\ DOMAIN s = 1 .. Len(s)
  BY LenProperties
<1>2. /\ u \in Seq(Nat) /\ Len(u) = Len(s) + 1 /\ u[Len(s) + 1] = n
      /\ \A i \in 1 .. Len(s) : u[i] = s[i]
  BY AppendProperties
<1>3. DOMAIN u = 1 .. (Len(s) + 1)
  BY <1>2, LenProperties
<1> HIDE DEF u
<1>4. /\ \A i \in 1 .. (Len(s) + 1) : i \in 1 .. Len(s) \/ i = Len(s) + 1
      /\ \A i \in 1 .. Len(s) : i \in 1 .. (Len(s) + 1) /\ i < Len(s) + 1
      /\ Len(s) + 1 \in 1 .. (Len(s) + 1)
  BY <1>1
<1>5. Range(u) = Range(s) \cup {n}
  BY <1>1, <1>2, <1>3, <1>4 DEF Range
<1>6. \A i \in 1 .. Len(s) : s[i] < n
  BY <1>1 DEF Lists, Range
<1>7. ASSUME NEW i \in DOMAIN u, NEW j \in DOMAIN u, i < j PROVE u[i] < u[j]
  <2>1. i \in 1 .. Len(s)
    BY <1>1, <1>3, <1>7
  <2>2. CASE j \in 1 .. Len(s)
    BY <1>1, <1>2, <1>7, <2>1, <2>2 DEF Lists
  <2>3. CASE j = Len(s) + 1
    BY <1>2, <1>6, <2>1, <2>3
  <2>4. QED
    BY <1>3, <1>4, <2>2, <2>3
<1>8. QED
  BY <1>2, <1>5, <1>7 DEF Lists, u

-----------------------------------------------------------------------------
(* What the answer says *)

TextsIn(kinds, S) == {n \in S : kinds[n] \in {"text"}}
TouchedIn(kinds, S) == {IndexOf(kinds[n]) : n \in {m \in S : kinds[m] \in Opens \cup ArgParts}}
CallIn(kinds, S, i, K) == {n \in {m \in S : kinds[m] \in K} : IndexOf(kinds[n]) = i}

CallSays(call, kinds, S, i) ==
    /\ call = [name |-> call.name, args |-> call.args]
    /\ call.args \in Seq(Nat)
    /\ call.name = Max({0} \cup CallIn(kinds, S, i, Opens))
    /\ Lists(call.args, CallIn(kinds, S, i, ArgParts))

\* Says, with the form of the answer.
GoodAnswer(a, kinds, S) ==
    /\ a = [content |-> a.content, delta |-> a.delta, usage |-> a.usage, calls |-> a.calls]
    /\ a.content \in Seq(Nat)
    /\ Lists(a.content, TextsIn(kinds, S))
    /\ DOMAIN a.calls = TouchedIn(kinds, S)
    /\ \A i \in DOMAIN a.calls : CallSays(a.calls[i], kinds, S, i)

LEMMA GoodAnswerSays ==
  ASSUME NEW a, NEW kinds, NEW S, GoodAnswer(a, kinds, S)
  PROVE  Says(a, kinds, S) /\ IsAnswer(a)
<1>1. IsAnswer(a)
  BY DEF GoodAnswer, CallSays, IsAnswer
<1>2. Says(a, kinds, S)
  BY DEF GoodAnswer, CallSays, Says, TextsIn, TouchedIn, CallIn
<1>3. QED
  BY <1>1, <1>2

LEMMA EmptyIsListed ==
  Lists(<<>>, {}) /\ <<>> \in Seq(Nat)
<1>1. DOMAIN <<>> = {}
  OBVIOUS
<1>2. QED
  BY <1>1 DEF Lists, Range

LEMMA MaxOfZero == Max({0} \cup {}) = 0
<1>1. {0} \cup {} \in SUBSET (0 .. 0) /\ {0} \cup {} # {} /\ 0 \in Nat
  OBVIOUS
<1>2. Max({0} \cup {}) \in {0} \cup {}
  BY <1>1, MaxIs
<1>3. QED
  BY <1>2

LEMMA NewCallSays ==
  ASSUME NEW kinds, NEW S, NEW i, i \notin TouchedIn(kinds, S)
  PROVE  CallSays(NewCall, kinds, S, i)
<1>1. CallIn(kinds, S, i, Opens) = {} /\ CallIn(kinds, S, i, ArgParts) = {}
  BY DEF CallIn, TouchedIn
<1>2. NewCall = [name |-> 0, args |-> <<>>] /\ NewCall.name = 0 /\ NewCall.args = <<>>
  BY DEF NewCall
<1>3. QED
  BY <1>1, <1>2, EmptyIsListed, MaxOfZero DEF CallSays

LEMMA NoAnswerSays ==
  ASSUME NEW kinds
  PROVE  GoodAnswer(NoAnswer, kinds, {})
<1>1. /\ NoAnswer.content = <<>> /\ DOMAIN NoAnswer.calls = {}
      /\ NoAnswer = [content |-> NoAnswer.content, delta |-> NoAnswer.delta,
                     usage |-> NoAnswer.usage, calls |-> NoAnswer.calls]
  BY DEF NoAnswer
<1>2. TextsIn(kinds, {}) = {} /\ TouchedIn(kinds, {}) = {}
  BY DEF TextsIn, TouchedIn
<1>3. QED
  BY <1>1, <1>2, EmptyIsListed DEF GoodAnswer

\* The highest of the lines is the last one.
LEMMA MaxOfLast ==
  ASSUME NEW k \in Nat \ {0}, NEW S \in SUBSET (1 .. (k - 1))
  PROVE  Max({0} \cup (S \cup {k})) = k
<1> DEFINE T == {0} \cup (S \cup {k})
<1>1. T \in SUBSET (0 .. k) /\ T # {} /\ k \in T
  OBVIOUS
<1>2. Max(T) \in T /\ k <= Max(T)
  BY <1>1, MaxIs
<1>3. Max(T) \in 0 .. k
  BY <1>1, <1>2
<1>4. QED
  BY <1>2, <1>3

\* What the fields of a call are after a fragment.
LEMMA OpenMerged ==
  ASSUME NEW call, call = [name |-> call.name, args |-> call.args],
         NEW kind \in Opens, NEW n
  PROVE  MergeToolCallDelta(call, kind, n) = [name |-> n, args |-> call.args]
<1>1. [call EXCEPT !.name = n] = [name |-> n, args |-> call.args]
  OBVIOUS
<1>2. QED
  BY <1>1 DEF MergeToolCallDelta

LEMMA ArgsMerged ==
  ASSUME NEW call, call = [name |-> call.name, args |-> call.args],
         NEW kind \in ArgParts, NEW n
  PROVE  MergeToolCallDelta(call, kind, n)
            = [name |-> call.name, args |-> Append(call.args, n)]
<1>1. PICK more : more = Append(call.args, n)
  OBVIOUS
<1>2. [call EXCEPT !.args = more] = [name |-> call.name, args |-> more]
  OBVIOUS
<1>3. kind \notin Opens
  BY DEF Opens, ArgParts
<1>4. QED
  BY <1>1, <1>2, <1>3 DEF MergeToolCallDelta

\* A fragment of call i.
LEMMA FragmentSays ==
  ASSUME NEW kinds, NEW k \in Nat \ {0}, kinds[k] \in Opens \cup ArgParts,
         NEW call, CallSays(call, kinds, 1 .. (k - 1), IndexOf(kinds[k]))
  PROVE  CallSays(MergeToolCallDelta(call, kinds[k], k), kinds, 1 .. k, IndexOf(kinds[k]))
<1> DEFINE S == 1 .. (k - 1)
           i == IndexOf(kinds[k])
           m == MergeToolCallDelta(call, kinds[k], k)
           P(K) == CallIn(kinds, S, i, K)
<1>1. 1 .. k = S \cup {k} /\ k \in Nat /\ \A n \in S : n < k
  OBVIOUS
<1>2. /\ kinds[k] \in Opens => CallIn(kinds, 1 .. k, i, Opens) = P(Opens) \cup {k}
      /\ kinds[k] \notin Opens => CallIn(kinds, 1 .. k, i, Opens) = P(Opens)
      /\ kinds[k] \in ArgParts => CallIn(kinds, 1 .. k, i, ArgParts) = P(ArgParts) \cup {k}
      /\ kinds[k] \notin ArgParts => CallIn(kinds, 1 .. k, i, ArgParts) = P(ArgParts)
  <2> HIDE DEF S
  <2>1. QED
    BY <1>1 DEF CallIn
<1>3. /\ call = [name |-> call.name, args |-> call.args]
      /\ call.args \in Seq(Nat)
      /\ call.name = Max({0} \cup P(Opens))
      /\ Lists(call.args, P(ArgParts))
  BY DEF CallSays
<1>4. P(Opens) \in SUBSET S /\ P(ArgParts) \in SUBSET S
  BY DEF CallIn
<1>5. CASE kinds[k] \in Opens
  <2>1. m = [name |-> k, args |-> call.args]
    BY <1>3, <1>5, OpenMerged
  <2>2. kinds[k] \notin ArgParts
    BY <1>5 DEF Opens, ArgParts
  <2>3. Max({0} \cup (P(Opens) \cup {k})) = k
    BY <1>4, MaxOfLast
  <2>4. m = [name |-> m.name, args |-> m.args] /\ m.name = k /\ m.args = call.args
    BY <2>1
  <2> HIDE DEF m, P, S
  <2>5. CallSays(m, kinds, 1 .. k, i)
    BY <1>2, <1>3, <1>5, <2>2, <2>3, <2>4 DEF CallSays
  <2>6. QED
    BY <2>5 DEF m
<1>6. CASE kinds[k] \in ArgParts
  <2>1. m = [name |-> call.name, args |-> Append(call.args, k)]
    BY <1>3, <1>6, ArgsMerged
  <2>2. kinds[k] \notin Opens
    BY <1>6 DEF Opens, ArgParts
  <2>3. Append(call.args, k) \in Seq(Nat) /\ Lists(Append(call.args, k), P(ArgParts) \cup {k})
    <3>1. \A n \in P(ArgParts) : n < k
      BY <1>1, <1>4
    <3> HIDE DEF P
    <3>2. QED
      BY <1>1, <1>3, <3>1, ListsMore
  <2>4. m = [name |-> m.name, args |-> m.args] /\ m.name = call.name
        /\ m.args = Append(call.args, k)
    BY <2>1
  <2> HIDE DEF m, P, S
  <2>5. CallSays(m, kinds, 1 .. k, i)
    BY <1>2, <1>3, <1>6, <2>2, <2>3, <2>4 DEF CallSays
  <2>6. QED
    BY <2>5 DEF m
<1>7. QED
  BY <1>5, <1>6

\* A line that is no fragment of call i says nothing of it.
LEMMA SameCall ==
  ASSUME NEW kinds, NEW k \in Nat \ {0}, NEW i,
         kinds[k] \in Opens \cup ArgParts => IndexOf(kinds[k]) # i,
         NEW call, CallSays(call, kinds, 1 .. (k - 1), i)
  PROVE  CallSays(call, kinds, 1 .. k, i)
<1>1. 1 .. k = (1 .. (k - 1)) \cup {k}
  OBVIOUS
<1>2. /\ CallIn(kinds, 1 .. k, i, Opens) = CallIn(kinds, 1 .. (k - 1), i, Opens)
      /\ CallIn(kinds, 1 .. k, i, ArgParts) = CallIn(kinds, 1 .. (k - 1), i, ArgParts)
  BY <1>1 DEF CallIn
<1>3. QED
  BY <1>2 DEF CallSays

\* One turn of the loop.
LEMMA TurnSays ==
  ASSUME NEW kinds \in Seq(Kinds), NEW k \in 1 .. Len(kinds), kinds[k] # "message",
         NEW a, GoodAnswer(a, kinds, 1 .. (k - 1))
  PROVE  GoodAnswer(AddLine(kinds[k], k, a), kinds, 1 .. k)
<1> DEFINE S == 1 .. (k - 1)
           b == AddLine(kinds[k], k, a)
<1>1. k \in Nat \ {0} /\ k \in Nat /\ 1 .. k = S \cup {k} /\ kinds[k] \in Kinds
      /\ k \notin S /\ \A n \in S : n < k
  <2>1. Len(kinds) \in Nat
    BY LenProperties
  <2>2. kinds[k] \in Kinds
    BY ElementOfSeq
  <2>3. QED
    BY <2>1, <2>2
<1>2. IsAnswer(a) /\ a.content \in Seq(Nat)
  BY GoodAnswerSays DEF GoodAnswer
<1>3. /\ kinds[k] = "text" => TextsIn(kinds, 1 .. k) = TextsIn(kinds, S) \cup {k}
      /\ kinds[k] # "text" => TextsIn(kinds, 1 .. k) = TextsIn(kinds, S)
  <2> HIDE DEF S
  <2>1. QED
    BY <1>1 DEF TextsIn
<1>4. /\ kinds[k] \in Opens \cup ArgParts =>
            TouchedIn(kinds, 1 .. k) = TouchedIn(kinds, S) \cup {IndexOf(kinds[k])}
      /\ kinds[k] \notin Opens \cup ArgParts =>
            TouchedIn(kinds, 1 .. k) = TouchedIn(kinds, S)
  <2> HIDE DEF S
  <2>1. QED
    BY <1>1 DEF TouchedIn
<1>5. /\ Lists(a.content, TextsIn(kinds, S))
      /\ DOMAIN a.calls = TouchedIn(kinds, S)
      /\ \A i \in DOMAIN a.calls : CallSays(a.calls[i], kinds, S, i)
  BY DEF GoodAnswer
<1>6. kinds[k] \notin Opens \cup ArgParts =>
         \A i \in DOMAIN a.calls : CallSays(a.calls[i], kinds, 1 .. k, i)
  BY <1>1, <1>5, SameCall
<1>7. CASE kinds[k] = "text"
  <2>1. /\ b = [content |-> b.content, delta |-> b.delta, usage |-> b.usage,
                calls |-> b.calls]
        /\ b.content = Append(a.content, k) /\ b.calls = a.calls
    BY <1>1, <1>2, <1>7, TextAdds
  <2>2. Append(a.content, k) \in Seq(Nat)
        /\ Lists(Append(a.content, k), TextsIn(kinds, S) \cup {k})
    <3>1. \A n \in TextsIn(kinds, S) : n < k
      BY <1>1 DEF TextsIn
    <3>2. QED
      BY <1>1, <1>2, <1>5, <3>1, ListsMore
  <2>3. kinds[k] \notin Opens \cup ArgParts
    BY <1>7 DEF Opens, ArgParts
  <2> HIDE DEF b, S
  <2>4. GoodAnswer(b, kinds, 1 .. k)
    BY <1>3, <1>4, <1>5, <1>6, <1>7, <2>1, <2>2, <2>3 DEF GoodAnswer
  <2>5. QED
    BY <2>4 DEF b
<1>8. CASE kinds[k] = "usage"
  <2>1. /\ b = [content |-> b.content, delta |-> b.delta, usage |-> b.usage,
                calls |-> b.calls]
        /\ b.content = a.content /\ b.calls = a.calls
    BY <1>1, <1>2, <1>8, UsageAdds
  <2>2. kinds[k] \notin Opens \cup ArgParts /\ kinds[k] # "text"
    BY <1>8 DEF Opens, ArgParts
  <2> HIDE DEF b, S
  <2>3. GoodAnswer(b, kinds, 1 .. k)
    BY <1>2, <1>3, <1>4, <1>5, <1>6, <2>1, <2>2 DEF GoodAnswer
  <2>4. QED
    BY <2>3 DEF b
<1>9. CASE kinds[k] \in {"done", "other"}
  <2>1. b = a
    BY <1>9, OtherAdds
  <2>2. kinds[k] \notin Opens \cup ArgParts /\ kinds[k] # "text"
    BY <1>9 DEF Opens, ArgParts
  <2> HIDE DEF b, S
  <2>3. GoodAnswer(a, kinds, 1 .. k)
    <3>1. a = [content |-> a.content, delta |-> a.delta, usage |-> a.usage, calls |-> a.calls]
      BY <1>2 DEF IsAnswer
    <3>2. QED
      BY <1>2, <1>3, <1>4, <1>5, <1>6, <2>2, <3>1 DEF GoodAnswer
  <2>4. QED
    BY <2>1, <2>3 DEF b
<1>10. CASE kinds[k] \in Opens \cup ArgParts
  <2> DEFINE i == IndexOf(kinds[k])
             old == IF i \in DOMAIN a.calls THEN a.calls[i] ELSE NewCall
             c == Touch(a.calls, kinds[k], k)
  <2>1. /\ b = [content |-> b.content, delta |-> b.delta, usage |-> b.usage,
                calls |-> b.calls]
        /\ b.content = a.content /\ b.calls = c
    BY <1>1, <1>2, <1>10, PartAdds
  <2>2. /\ DOMAIN c = DOMAIN a.calls \cup {i}
        /\ c[i] = MergeToolCallDelta(old, kinds[k], k)
        /\ \A j \in DOMAIN c : j # i => j \in DOMAIN a.calls /\ c[j] = a.calls[j]
    BY DEF Touch
  <2>3. CallSays(old, kinds, S, i)
    BY <1>5, NewCallSays
  <2>4. CallSays(c[i], kinds, 1 .. k, i)
    <3>1. CallSays(MergeToolCallDelta(old, kinds[k], k), kinds, 1 .. k, i)
      <4> HIDE DEF old
      <4>1. QED
        BY <1>1, <1>10, <2>3, FragmentSays
    <3>2. QED
      BY <2>2, <3>1
  <2>5. \A j \in DOMAIN c : CallSays(c[j], kinds, 1 .. k, j)
    <3>1. ASSUME NEW j \in DOMAIN c, j # i PROVE CallSays(c[j], kinds, 1 .. k, j)
      <4>1. CallSays(a.calls[j], kinds, S, j) /\ c[j] = a.calls[j]
        BY <1>5, <2>2, <3>1
      <4>2. CallSays(a.calls[j], kinds, 1 .. k, j)
        BY <1>1, <3>1, <4>1, SameCall
      <4>3. QED
        BY <4>1, <4>2
    <3>2. QED
      BY <2>4, <3>1
  <2>6. kinds[k] # "text"
    BY <1>10 DEF Opens, ArgParts
  <2> HIDE DEF b, S, c, old
  <2>7. GoodAnswer(b, kinds, 1 .. k)
    BY <1>2, <1>3, <1>4, <1>5, <1>10, <2>1, <2>2, <2>5, <2>6 DEF GoodAnswer
  <2>8. QED
    BY <2>7 DEF b
<1>11. QED
  BY <1>1, <1>7, <1>8, <1>9, <1>10 DEF Kinds, Opens, ArgParts

\* By the first line after which the answer would say something else.
LEMMA AggregateSays ==
  ASSUME NEW kinds \in Seq(Kinds), "message" \notin Range(kinds)
  PROVE  Says(Aggregate(kinds, DOMAIN kinds), kinds, DOMAIN kinds)
<1> DEFINE L == Len(kinds)
<1>1. L \in Nat /\ DOMAIN kinds = 1 .. L
  BY LenProperties
<1>2. PICK F : /\ Loop(F, kinds, DOMAIN kinds)
               /\ Aggregate(kinds, DOMAIN kinds) = F[L]
  BY AggregateLoops
<1> DEFINE Bad == {k \in 0 .. L : ~GoodAnswer(F[k], kinds, 1 .. k)}
<1>3. Bad = {}
  <2> SUFFICES ASSUME Bad # {} PROVE FALSE
    OBVIOUS
  <2>1. Bad \in SUBSET Nat
    BY <1>1
  <2>2. PICK k \in Bad : \A m \in Bad : k <= m
    BY <2>1, LeastNumber
  <2>3. k # 0
    <3>1. 1 .. 0 = {}
      OBVIOUS
    <3>2. QED
      BY <1>2, <3>1, NoAnswerSays DEF Loop
  <2>4. k \in 1 .. L /\ k - 1 \in 0 .. L /\ ~(k <= k - 1)
    BY <1>1, <2>3
  <2>5. GoodAnswer(F[k - 1], kinds, 1 .. (k - 1))
    BY <2>2, <2>4
  <2>6. kinds[k] # "message"
    BY <1>1, <2>4 DEF Range
  <2>7. F[k] = AddLine(kinds[k], k, F[k - 1])
    BY <1>1, <1>2, <2>4 DEF Loop, Turn
  <2>8. GoodAnswer(F[k], kinds, 1 .. k)
    BY <2>4, <2>5, <2>6, <2>7, TurnSays
  <2>9. QED
    BY <2>8
<1>4. GoodAnswer(F[L], kinds, 1 .. L)
  BY <1>1, <1>3
<1>5. QED
  BY <1>1, <1>2, <1>4, GoodAnswerSays

\* Lines that carry neither text nor parts of a call can be left out.
LEMMA SaysLess ==
  ASSUME NEW answer, NEW kinds, NEW S, NEW T \in SUBSET S,
         Says(answer, kinds, S),
         \A n \in S \ T : kinds[n] \notin {"text"} \cup Opens \cup ArgParts
  PROVE  Says(answer, kinds, T)
<1>1. ASSUME NEW K \in SUBSET ({"text"} \cup Opens \cup ArgParts)
      PROVE  {n \in S : kinds[n] \in K} = {n \in T : kinds[n] \in K}
  OBVIOUS
<1>2. /\ {n \in S : kinds[n] \in {"text"}} = {n \in T : kinds[n] \in {"text"}}
      /\ {n \in S : kinds[n] \in Opens} = {n \in T : kinds[n] \in Opens}
      /\ {n \in S : kinds[n] \in ArgParts} = {n \in T : kinds[n] \in ArgParts}
      /\ {n \in S : kinds[n] \in Opens \cup ArgParts}
            = {n \in T : kinds[n] \in Opens \cup ArgParts}
  BY <1>1
<1>3. QED
  BY <1>2 DEF Says

-----------------------------------------------------------------------------
(* One streamed answer *)

Arrived == Len(out) + Len(buf) + Len(chunk)

Usages(c) == {n \in 1 .. c : lines[n] = "usage"}

\* The client has e lines and the tap has looked at c: what is written,
\* buffered, being fed and on the wire are the pieces one after the other, and
\* pending is what follows the c lines.
StreamOK(e, c) ==
    /\ Cut(out, 0) /\ Len(out) = 3 * e
    /\ Cut(buf, Len(out))
    /\ Cut(chunk, Len(out) + Len(buf))
    /\ Cut(wire, Arrived)
    /\ Cut(pending, 3 * c) /\ 3 * c + Len(pending) = Arrived
    /\ sent = Piece(Arrived + Len(wire))
    /\ lines \in Seq(LineKinds) /\ Len(lines) = sent[1]
    /\ counted = Cardinality(Usages(c))
    /\ chunk = <<>> => Len(pending) < 3

LEMMA StreamLens ==
  ASSUME NEW e \in Nat, NEW c \in Nat, StreamOK(e, c)
  PROVE  /\ Len(out) \in Nat /\ Len(buf) \in Nat /\ Len(chunk) \in Nat
         /\ Len(wire) \in Nat /\ Len(pending) \in Nat /\ Len(lines) \in Nat
         /\ Arrived \in Nat /\ Arrived + Len(wire) \in Nat
         /\ DOMAIN lines = 1 .. Len(lines)
<1>1. /\ Len(out) \in Nat /\ Len(buf) \in Nat /\ Len(chunk) \in Nat
      /\ Len(wire) \in Nat /\ Len(pending) \in Nat
  BY CutLen DEF StreamOK
<1>2. Len(lines) \in Nat /\ DOMAIN lines = 1 .. Len(lines)
  BY LenProperties DEF StreamOK
<1>3. QED
  BY <1>1, <1>2 DEF Arrived

\* The tap is not ahead of upstream.
LEMMA FedAreSent ==
  ASSUME NEW e \in Nat, NEW c \in Nat, StreamOK(e, c)
  PROVE  /\ c <= Len(lines)
         /\ sent[2] \in 1 .. 3
         /\ Arrived + Len(wire) = 3 * (sent[1] - 1) + sent[2]
         /\ sent[2] = 3 <=> (Arrived + Len(wire)) % 3 = 0
<1> DEFINE N == Arrived + Len(wire)
<1>1. N \in Nat /\ Len(pending) \in Nat /\ Arrived \in Nat /\ Len(wire) \in Nat
      /\ Len(lines) \in Nat
  BY StreamLens
<1>2. sent = Piece(N) /\ Len(lines) = sent[1] /\ 3 * c + Len(pending) = Arrived
  BY DEF StreamOK
<1>3. 3 * c <= N
  BY <1>1, <1>2
<1> HIDE DEF N
<1>4. /\ sent[2] = 3 <=> N % 3 = 0
      /\ sent[2] \in 1 .. 3 /\ N = 3 * (sent[1] - 1) + sent[2]
  BY <1>1, <1>2, Pieces
<1>5. c <= Len(lines)
  <2> DEFINE L == Len(lines)
             k == sent[2]
  <2>1. L \in Nat /\ k \in 1 .. 3 /\ N = 3 * (L - 1) + k
    BY <1>1, <1>2, <1>4
  <2> HIDE DEF L, k
  <2>2. c <= L
    BY <1>3, <2>1
  <2>3. QED
    BY <2>2 DEF L
<1>6. QED
  BY <1>4, <1>5 DEF N

LEMMA SendOK ==
  ASSUME NEW e \in Nat, NEW c \in Nat, StreamOK(e, c), Send
  PROVE  StreamOK(e, c)'
<1> DEFINE N == Arrived + Len(wire)
<1>1. N \in Nat /\ Arrived \in Nat /\ Len(wire) \in Nat /\ Len(lines) \in Nat
      /\ N + 1 = Arrived + Len(wire) + 1
  BY StreamLens
<1>2. UNCHANGED <<chunk, pending, buf, out, counted>> /\ wire' = Append(wire, sent')
  BY DEF Send
<1>3. sent = Piece(N) /\ Len(lines) = sent[1] /\ lines \in Seq(LineKinds) /\ Cut(wire, Arrived)
  BY DEF StreamOK
<1>4. \/ /\ sent[2] = 3 /\ sent' = <<sent[1] + 1, 1>>
         /\ \E k \in LineKinds : lines' = Append(lines, k)
      \/ sent[2] # 3 /\ sent' = <<sent[1], sent[2] + 1>> /\ lines' = lines
  BY DEF Send, Eol
<1> HIDE DEF N
<1>5. sent' = Piece(N + 1)
  BY <1>1, <1>3, <1>4, Pieces
<1>6. /\ lines' \in Seq(LineKinds) /\ Len(lines') = sent'[1]
      /\ \A n \in 1 .. Len(lines) : lines'[n] = lines[n]
  <2>1. CASE lines' = lines /\ sent' = <<sent[1], sent[2] + 1>>
    BY <1>3, <2>1
  <2>2. ASSUME NEW k \in LineKinds, lines' = Append(lines, k), sent' = <<sent[1] + 1, 1>>
        PROVE  /\ lines' \in Seq(LineKinds) /\ Len(lines') = sent'[1]
               /\ \A n \in 1 .. Len(lines) : lines'[n] = lines[n]
    BY <1>3, <2>2, AppendProperties
  <2>3. QED
    BY <1>4, <2>1, <2>2
<1>7. Cut(wire', Arrived) /\ Len(wire') = Len(wire) + 1
  BY <1>1, <1>2, <1>3, <1>5, CutAppend
<1>8. Arrived' = Arrived /\ sent' = Piece(Arrived' + Len(wire'))
  <2>1. Arrived' = Arrived
    BY <1>2 DEF Arrived
  <2>2. N + 1 = Arrived + Len(wire')
    BY <1>1, <1>7
  <2>3. QED
    BY <1>5, <2>1, <2>2
<1>9. Usages(c)' = Usages(c)
  <2>1. \A n \in 1 .. c : n \in 1 .. Len(lines)
    BY <1>1, FedAreSent
  <2>2. QED
    BY <1>6, <2>1 DEF Usages
<1>10. QED
  BY <1>2, <1>6, <1>7, <1>8, <1>9 DEF StreamOK

LEMMA ReadOK ==
  ASSUME NEW e \in Nat, NEW c \in Nat, StreamOK(e, c), Read
  PROVE  StreamOK(e, c)'
<1>1. /\ wire # <<>> /\ chunk = <<>> /\ chunk' = wire /\ wire' = <<>>
      /\ pending' = pending \o wire
      /\ UNCHANGED <<lines, sent, buf, out, counted>>
  BY DEF Read, Feed
<1>2. /\ Len(out) \in Nat /\ Len(buf) \in Nat /\ Len(chunk) = 0
      /\ Len(wire) \in Nat /\ Len(pending) \in Nat /\ Arrived \in Nat
      /\ Arrived = Len(out) + Len(buf)
  BY <1>1, StreamLens DEF Arrived
<1>3. Cut(wire, Arrived) /\ Cut(pending, 3 * c) /\ 3 * c + Len(pending) = Arrived
      /\ sent = Piece(Arrived + Len(wire))
  BY DEF StreamOK
<1>4. Cut(pending', 3 * c) /\ Len(pending') = Len(pending) + Len(wire)
  <2>1. 3 * c \in Nat
    OBVIOUS
  <2>2. QED
    BY <1>1, <1>3, <2>1, CutConcat
<1>5. Arrived' = Arrived + Len(wire)
  BY <1>1, <1>2 DEF Arrived
<1>6. Cut(wire', Arrived') /\ Len(wire') = 0
  <2>1. Arrived' \in Nat
    BY <1>2, <1>5
  <2>2. QED
    BY <1>1, <2>1, CutEmpty
<1>7. 3 * c + Len(pending') = Arrived' /\ Arrived' + Len(wire') = Arrived + Len(wire)
  BY <1>2, <1>3, <1>4, <1>5, <1>6
<1>8. Usages(c)' = Usages(c)
  BY <1>1 DEF Usages
<1>9. Cut(chunk', Len(out') + Len(buf')) /\ chunk' # <<>>
  BY <1>1, <1>2, <1>3
<1>10. QED
  BY <1>1, <1>3, <1>4, <1>6, <1>7, <1>8, <1>9 DEF StreamOK

LEMMA FeedLineOK ==
  ASSUME NEW e \in Nat, NEW c \in Nat, StreamOK(e, c), FeedLine
  PROVE  StreamOK(e, c + 1)'
<1>1. /\ chunk # <<>> /\ Ends(pending) /\ pending' = RestOf(pending)
      /\ UNCHANGED <<lines, sent, wire, chunk, buf, out>>
      /\ IF SeesUsage(FirstLine(pending)) THEN counted' = counted + 1
         ELSE counted' = counted
  BY DEF FeedLine
<1>2. Cut(pending, 3 * c) /\ 3 * c + Len(pending) = Arrived
  BY DEF StreamOK
<1>3. /\ Len(FirstLine(pending)) = 3 /\ FirstLine(pending)[1][1] = c + 1
      /\ Cut(pending', 3 * (c + 1)) /\ Len(pending') = Len(pending) - 3
  BY <1>1, <1>2, CutLine
<1>4. SeesUsage(FirstLine(pending)) <=> lines[c + 1] = "usage"
  BY <1>3 DEF SeesUsage
<1>5. Arrived' = Arrived /\ Usages(c)' = Usages(c)
  BY <1>1 DEF Arrived, Usages
<1>6. 3 * (c + 1) + Len(pending') = Arrived'
  BY <1>2, <1>3, <1>5, StreamLens
<1>7. counted' = Cardinality(Usages(c + 1)')
  <2>1. Usages(c + 1)' = Usages(c + 1)
    BY <1>1 DEF Usages
  <2>2. IsFiniteSet(Usages(c)) /\ c + 1 \notin Usages(c)
    <3>1. IsFiniteSet(1 .. c) /\ Usages(c) \in SUBSET (1 .. c)
      BY FS_Interval DEF Usages
    <3>2. QED
      BY <3>1, FS_Subset
  <2>3. Usages(c + 1) = IF lines[c + 1] = "usage" THEN Usages(c) \cup {c + 1}
                        ELSE Usages(c)
    <3>1. 1 .. c + 1 = (1 .. c) \cup {c + 1}
      OBVIOUS
    <3>2. QED
      BY <3>1 DEF Usages
  <2>4. Cardinality(Usages(c) \cup {c + 1}) = Cardinality(Usages(c)) + 1
    BY <2>2, FS_AddElement
  <2>5. counted = Cardinality(Usages(c))
    BY DEF StreamOK
  <2>6. QED
    BY <1>1, <1>4, <2>1, <2>3, <2>4, <2>5
<1>8. QED
  BY <1>1, <1>3, <1>5, <1>6, <1>7 DEF StreamOK

LEMMA ReadReturnsOK ==
  ASSUME NEW e \in Nat, NEW c \in Nat, StreamOK(e, c), ReadReturns
  PROVE  StreamOK(e, c)'
<1>1. /\ ~Ends(pending) /\ buf' = buf \o chunk /\ chunk' = <<>>
      /\ UNCHANGED <<lines, sent, wire, pending, out, counted>>
  BY DEF ReadReturns
<1>2. /\ Len(out) \in Nat /\ Len(buf) \in Nat /\ Len(chunk) \in Nat
      /\ Len(pending) \in Nat
  BY StreamLens
<1>3. Cut(buf', Len(out)) /\ Len(buf') = Len(buf) + Len(chunk)
  BY <1>1, <1>2, CutConcat DEF StreamOK
<1>4. Cut(chunk', Len(out') + Len(buf')) /\ Len(chunk') = 0
  BY <1>1, <1>2, <1>3, CutEmpty
<1>5. Arrived' = Arrived /\ Usages(c)' = Usages(c)
  BY <1>1, <1>2, <1>3, <1>4 DEF Arrived, Usages
<1>6. Len(pending) < 3
  BY <1>1, <1>2, CutEnds DEF StreamOK
<1>7. QED
  BY <1>1, <1>3, <1>4, <1>5, <1>6 DEF StreamOK

LEMMA WriteLineOK ==
  ASSUME NEW e \in Nat, NEW c \in Nat, StreamOK(e, c), WriteLine
  PROVE  StreamOK(e + 1, c)'
<1>1. /\ Ends(buf) /\ out' = out \o FirstLine(buf) /\ buf' = RestOf(buf)
      /\ UNCHANGED <<lines, sent, wire, chunk, pending, counted>>
  BY DEF WriteLine
<1>2. /\ Len(out) \in Nat /\ Len(buf) \in Nat /\ Len(chunk) \in Nat
      /\ Len(out) = 3 * e /\ Cut(out, 0) /\ Cut(buf, 3 * e)
  BY StreamLens DEF StreamOK
<1>3. /\ Cut(FirstLine(buf), 3 * e) /\ Len(FirstLine(buf)) = 3
      /\ Cut(buf', 3 * (e + 1)) /\ Len(buf') = Len(buf) - 3
  BY <1>1, <1>2, CutLine
<1>4. Cut(out', 0) /\ Len(out') = Len(out) + 3
  <2> DEFINE f == FirstLine(buf)
  <2>1. /\ 0 + Len(out) = Len(out) /\ 0 \in Nat
        /\ Cut(out, 0) /\ Cut(f, Len(out)) /\ Len(f) = 3 /\ out' = out \o f
    BY <1>1, <1>2, <1>3
  <2> HIDE DEF f
  <2>2. Cut(out \o f, 0) /\ Len(out \o f) = Len(out) + Len(f)
    <3> DEFINE a == 0
    <3>1. a \in Nat /\ Cut(out, a) /\ Cut(f, a + Len(out))
      BY <2>1
    <3> HIDE DEF a
    <3>2. Cut(out \o f, a) /\ Len(out \o f) = Len(out) + Len(f)
      BY <3>1, CutConcat
    <3>3. QED
      BY <3>2 DEF a
  <2>3. QED
    BY <2>1, <2>2
<1>5. Len(out') = 3 * (e + 1) /\ Len(out') + Len(buf') = Len(out) + Len(buf)
  BY <1>2, <1>3, <1>4
<1>6. Arrived' = Arrived /\ Usages(c)' = Usages(c)
  BY <1>1, <1>2, <1>5 DEF Arrived, Usages
<1>7. QED
  BY <1>1, <1>3, <1>4, <1>5, <1>6 DEF StreamOK

\* When feed is at rest the usage frames it counted are those that have
\* arrived whole.
LEMMA AllCounted ==
  ASSUME NEW e \in Nat, NEW c \in Nat, StreamOK(e, c), chunk = <<>>
  PROVE  /\ Cut(out \o buf, 0) /\ Len(out \o buf) = Arrived
         /\ counted = Cardinality({n \in DOMAIN lines :
                         lines[n] = "usage" /\ <<n, Eol>> \in Range(out \o buf)})
<1> DEFINE W == out \o buf
           S == {n \in DOMAIN lines : lines[n] = "usage" /\ <<n, Eol>> \in Range(W)}
<1>1. /\ Len(out) \in Nat /\ Len(buf) \in Nat /\ Len(chunk) = 0
      /\ Len(pending) \in Nat /\ Len(lines) \in Nat /\ Arrived \in Nat
      /\ DOMAIN lines = 1 .. Len(lines) /\ c <= Len(lines)
  BY StreamLens, FedAreSent
<1>2. Cut(W, 0) /\ Len(W) = Len(out) + Len(buf)
  <2>1. 0 + Len(out) = Len(out) /\ 0 \in Nat /\ Cut(out, 0) /\ Cut(buf, Len(out))
    BY <1>1 DEF StreamOK
  <2>2. QED
    BY <2>1, CutConcat
<1>3. Len(W) = Arrived
  BY <1>1, <1>2 DEF Arrived
<1>4. 3 * c + Len(pending) = Arrived /\ Len(pending) < 3 /\ counted = Cardinality(Usages(c))
  BY DEF StreamOK
<1> HIDE DEF W
<1>5. ASSUME NEW n \in 1 .. Len(lines)
      PROVE  <<n, Eol>> \in Range(W) <=> n <= c
  <2>1. <<n, 3>> \in Range(W) <=> 3 * (n - 1) + 3 \in 1 .. Len(W)
    <3>1. n \in Int /\ 3 \in 1 .. 3
      BY <1>1
    <3>2. QED
      BY <1>2, <3>1, CutRange
  <2> DEFINE p == Len(pending)
             r == Arrived
  <2>2. 3 * (n - 1) + 3 \in 1 .. r <=> n <= c
    <3>1. p \in Nat /\ p < 3 /\ r = 3 * c + p /\ n \in Int /\ n >= 1
      BY <1>1, <1>4
    <3> HIDE DEF p, r
    <3>2. QED
      BY <3>1
  <2>3. QED
    BY <1>3, <2>1, <2>2 DEF Eol
<1>6. S = Usages(c)
  <2>1. \A n : n \in 1 .. c <=> n \in 1 .. Len(lines) /\ n <= c
    BY <1>1
  <2>2. QED
    BY <1>1, <1>5, <2>1 DEF Usages
<1>7. QED
  BY <1>2, <1>3, <1>4, <1>6 DEF W

LEMMA StreamEndsOK ==
  ASSUME NEW e \in Nat, NEW c \in Nat, StreamOK(e, c), StreamEnds
  PROVE  /\ chunk' = <<>>
         /\ \/ phase' = "failed"
            \/ /\ phase' = "answered"
               /\ UsageCountedOnce' /\ ClosedWithDone' /\ SameAnswer'
<1> DEFINE W == out \o buf
<1>1. /\ chunk = <<>> /\ chunk' = <<>> /\ wire = <<>> /\ buf' = <<>>
      /\ UNCHANGED <<lines, sent, counted>>
      /\ phase' = IF ended = "error" THEN "failed" ELSE "answered"
      /\ ended # "error" => out' = IF SawDone(W) THEN W ELSE Append(W, DoneLine)
  BY DEF StreamEnds, Streaming
<1> SUFFICES ASSUME ended # "error"
             PROVE  UsageCountedOnce' /\ ClosedWithDone' /\ SameAnswer'
  BY <1>1
<1>2. /\ Cut(W, 0) /\ Len(W) = Arrived
      /\ counted = Cardinality({n \in DOMAIN lines :
                         lines[n] = "usage" /\ <<n, Eol>> \in Range(W)})
  BY <1>1, AllCounted
<1>3. /\ Arrived \in Nat /\ Len(wire) = 0 /\ Arrived + Len(wire) = Arrived
      /\ DOMAIN lines = 1 .. Len(lines) /\ Len(lines) \in Nat
  BY <1>1, StreamLens
<1>4. W \in Seq(Int \X Int) /\ Len(W) \in Nat /\ DOMAIN W = 1 .. Len(W)
  BY <1>2, CutLen DEF Cut
<1>5. out' = W \/ out' = Append(W, DoneLine)
  BY <1>1
<1> HIDE DEF W
<1>6. DoneLine \in Int \X Int
  BY DEF DoneLine
<1>7. /\ Append(W, DoneLine) \in Seq(Int \X Int) /\ Append(W, DoneLine) # <<>>
      /\ Len(Append(W, DoneLine)) = Len(W) + 1
      /\ Append(W, DoneLine)[Len(W) + 1] = DoneLine
      /\ \A i \in 1 .. Len(W) : Append(W, DoneLine)[i] = W[i]
  <2> DEFINE S == Int \X Int
             d == DoneLine
  <2>1. W \in Seq(S) /\ d \in S
    BY <1>4, <1>6
  <2> HIDE DEF S, d
  <2>2. /\ Append(W, d) \in Seq(S) /\ Append(W, d) # <<>>
        /\ Len(Append(W, d)) = Len(W) + 1
        /\ Append(W, d)[Len(W) + 1] = d
        /\ \A i \in 1 .. Len(W) : Append(W, d)[i] = W[i]
    BY <2>1, AppendProperties
  <2>3. QED
    BY <2>2 DEF S, d
<1>8. ASSUME NEW n \in Int, n >= 1, NEW k \in 1 .. 3
      PROVE  <<n, k>> \in Range(out') <=> <<n, k>> \in Range(W)
  <2>1. CASE out' = W
    BY <2>1
  <2>2. CASE out' = Append(W, DoneLine)
    <3>1. DOMAIN out' = (1 .. Len(W)) \cup {Len(W) + 1}
      <4>1. DOMAIN out' = 1 .. Len(W) + 1
        BY <1>7, <2>2, LenProperties
      <4>2. QED
        BY <1>4, <4>1
    <3>2. out'[Len(W) + 1] # <<n, k>>
      BY <1>7, <1>8, <2>2 DEF DoneLine
    <3>3. QED
      BY <1>4, <1>7, <2>2, <3>1, <3>2 DEF Range
  <2>3. QED
    BY <1>5, <2>1, <2>2
<1>9. WholeIn(out') = WholeIn(W) /\ WholeLines(out') = WholeLines(W)
  <2>1. \A n \in DOMAIN lines : n \in Int /\ n >= 1
    BY <1>3
  <2>2. \A n \in DOMAIN lines :
           /\ <<n, 1>> \in Range(out') <=> <<n, 1>> \in Range(W)
           /\ <<n, 2>> \in Range(out') <=> <<n, 2>> \in Range(W)
           /\ <<n, Eol>> \in Range(out') <=> <<n, Eol>> \in Range(W)
    <3>1. 1 \in 1 .. 3 /\ 2 \in 1 .. 3 /\ 3 \in 1 .. 3
      OBVIOUS
    <3>2. QED
      BY <1>8, <2>1, <3>1, Zenon DEF Eol
  <2>3. WholeIn(out') = WholeIn(W)
    BY <2>2 DEF WholeIn
  <2>4. \A n \in WholeIn(W) : n \in DOMAIN lines
    BY DEF WholeIn
  <2>5. QED
    BY <2>2, <2>3, <2>4 DEF WholeLines
<1>10. out' # <<>>
  <2>1. CASE SawDone(W)
    <3>1. WholeIn(W) # {} /\ out' = W
      BY <1>1, <2>1 DEF SawDone, W
    <3>2. Range(W) # {}
      BY <3>1 DEF WholeIn
    <3>3. W # <<>>
      BY <3>2 DEF Range
    <3>4. QED
      BY <3>1, <3>3
  <2>2. CASE ~SawDone(W)
    BY <1>1, <1>7, <2>2 DEF W
  <2>3. QED
    BY <2>1, <2>2
<1>11. out' \o buf' = out'
  BY <1>1, <1>4, <1>5, <1>7, ConcatEmptySeq
<1>12. counted' = Cardinality({n \in DOMAIN lines' :
                     lines'[n] = "usage" /\ <<n, Eol>> \in Range(out' \o buf')})
  <2>1. \A n \in DOMAIN lines : <<n, Eol>> \in Range(out') <=> <<n, Eol>> \in Range(W)
    <3>1. 3 \in 1 .. 3 /\ \A n \in DOMAIN lines : n \in Int /\ n >= 1
      BY <1>3
    <3>2. QED
      BY <1>8, <3>1, Zenon DEF Eol
  <2>2. {n \in DOMAIN lines' : lines'[n] = "usage" /\ <<n, Eol>> \in Range(out' \o buf')}
        = {n \in DOMAIN lines : lines[n] = "usage" /\ <<n, Eol>> \in Range(W)}
    BY <1>1, <1>11, <2>1
  <2>3. QED
    BY <1>1, <1>2, <2>2
<1>13. UsageCountedOnce'
  BY <1>1, <1>10, <1>12 DEF UsageCountedOnce, Streamed
<1>14. ASSUME sent[2] = Eol
       PROVE  Last(out') = DoneLine <=> \A n \in WholeLines(W) : lines[n] # "done"
  <2>1. Arrived % 3 = 0 /\ sent = Piece(Arrived)
    BY <1>3, <1>14, FedAreSent DEF Eol, StreamOK
  <2>2. CASE SawDone(W)
    <3>1. PICK n \in WholeIn(W) : lines[n] = "done"
      BY <2>2 DEF SawDone
    <3>2. n \in Int /\ n >= 1 /\ <<n, 2>> \in Range(W)
      BY <1>3 DEF WholeIn
    <3>3. 3 * (n - 1) + 2 \in 1 .. Arrived
      <4>1. 2 \in 1 .. 3
        OBVIOUS
      <4>2. 3 * (n - 1) + 2 \in 1 .. Len(W)
        BY <1>2, <3>2, <4>1, CutRange
      <4>3. QED
        BY <1>2, <4>2
    <3>4. 3 * (n - 1) + 3 \in 1 .. Arrived
      <4> DEFINE r == Arrived
      <4>1. r \in Nat /\ r % 3 = 0 /\ n \in Int /\ 3 * (n - 1) + 2 \in 1 .. r
        BY <1>3, <2>1, <3>2, <3>3
      <4> HIDE DEF r
      <4>2. 3 * (n - 1) + 3 \in 1 .. r
        BY <4>1
      <4>3. QED
        BY <4>2 DEF r
    <3>5. <<n, 3>> \in Range(W)
      <4>1. 3 \in 1 .. 3 /\ 3 * (n - 1) + 3 \in 1 .. Len(W)
        BY <1>2, <3>4
      <4>2. QED
        BY <1>2, <3>2, <4>1, CutRange
    <3>6. n \in WholeLines(W)
      BY <3>5 DEF WholeLines, Eol
    <3>7. Last(out') # DoneLine
      <4>1. out' = W /\ Len(W) = Arrived /\ Arrived \in 1 .. Len(W)
        BY <1>1, <1>2, <1>3, <2>2, <3>4 DEF W
      <4>2. W[Arrived] = sent
        <5>1. W[Arrived] = Piece(0 + Arrived) /\ 0 + Arrived = Arrived
          BY <1>2, <1>3, <4>1 DEF Cut
        <5>2. QED
          BY <2>1, <5>1
      <4>3. QED
        BY <1>14, <4>1, <4>2 DEF Last, DoneLine, Eol
    <3>8. QED
      BY <3>1, <3>6, <3>7
  <2>3. CASE ~SawDone(W)
    <3>1. out' = Append(W, DoneLine)
      BY <1>1, <2>3 DEF W
    <3>2. Last(out') = DoneLine
      BY <1>7, <3>1 DEF Last
    <3>3. \A n \in WholeLines(W) : lines[n] # "done"
      BY <2>3 DEF SawDone, WholeLines
    <3>4. QED
      BY <3>2, <3>3
  <2>4. QED
    BY <2>2, <2>3
<1>15. ClosedWithDone'
  <2>1. lines' = lines /\ sent' = sent
    BY <1>1
  <2>2. WholeLines(out)' = WholeLines(W)
    BY <1>9, <2>1 DEF WholeLines, WholeIn
  <2>3. QED
    BY <1>14, <2>1, <2>2 DEF ClosedWithDone
<1>16. ASSUME sent[2] = Eol PROVE WholeLines(W) = DOMAIN lines
  <2>1. Arrived = 3 * Len(lines)
    <3>1. /\ Len(lines) = sent[1] /\ sent[2] = 3
          /\ Arrived = 3 * (sent[1] - 1) + sent[2]
      BY <1>3, <1>16, FedAreSent DEF StreamOK, Eol
    <3>2. QED
      BY <1>3, <3>1
  <2>2. ASSUME NEW n \in DOMAIN lines, NEW k \in 1 .. 3
        PROVE  <<n, k>> \in Range(W)
    <3> DEFINE L == Len(lines)
    <3>1. n \in Int /\ 3 * (n - 1) + k \in 1 .. (3 * L)
      BY <1>3
    <3>2. QED
      BY <1>2, <2>1, <3>1, CutRange
  <2>3. 1 \in 1 .. 3 /\ 2 \in 1 .. 3 /\ 3 \in 1 .. 3
    OBVIOUS
  <2>4. QED
    BY <2>2, <2>3 DEF WholeLines, WholeIn, Eol
<1>17. SameAnswer'
  <2>1. lines \in Seq(Kinds)
    BY KindsAssumption, SeqMonotonic DEF StreamOK
  <2>2. "message" \notin Range(lines) =>
           Says(Aggregate(lines, DOMAIN lines), lines, DOMAIN lines)
    BY <2>1, AggregateSays
  <2>3. lines' = lines /\ sent' = sent
    BY <1>1
  <2>4. WholeLines(out)' = WholeLines(W)
    BY <1>9, <2>3 DEF WholeLines, WholeIn
  <2>5. sent[2] = Eol => WholeLines(out)' = DOMAIN lines
    BY <1>16, <2>4
  <2>6. ASSUME sent[2] = Eol, "message" \notin Range(lines), SilentAfterDone
        PROVE  Says(Aggregate(lines, DOMAIN lines), lines, ReadByClient(out)')
    <3> DEFINE T == {n \in DOMAIN lines : \A m \in 1 .. n - 1 : lines[m] # "done"}
    <3>1. ReadByClient(out)' = T
      BY <2>3, <2>5, <2>6 DEF ReadByClient
    <3>2. \A n \in DOMAIN lines \ T :
             lines[n] \notin {"text"} \cup Opens \cup ArgParts
      BY <2>6 DEF SilentAfterDone
    <3>3. T \in SUBSET (DOMAIN lines)
      OBVIOUS
    <3> HIDE DEF T
    <3>4. Says(Aggregate(lines, DOMAIN lines), lines, T)
      BY <2>2, <2>6, <3>2, <3>3, SaysLess
    <3>5. QED
      BY <3>1, <3>4
  <2>7. SilentAfterDone' <=> SilentAfterDone
    BY <2>3 DEF SilentAfterDone
  <2>8. QED
    BY <2>3, <2>6, <2>7 DEF SameAnswer
<1>18. QED
  BY <1>13, <1>15, <1>17

\* Where a request is.
RequestInv ==
    \/ phase = "stream" /\ \E e, c \in Nat : StreamOK(e, c)
    \/ phase = "aggregate" /\ chunk = <<>> /\ out = <<>> /\ counted = 0
    \/ /\ phase = "answered" /\ chunk = <<>>
       /\ UsageCountedOnce /\ ClosedWithDone /\ SameAnswer
    \/ phase \in {"failed", "others"} /\ chunk = <<>>

LEMMA RequestInit == Init => RequestInv
<1> SUFFICES ASSUME Init PROVE RequestInv
  OBVIOUS
<1>1. /\ phase \in {"stream", "aggregate", "others"}
      /\ lines = <<>> /\ sent = <<0, 3>> /\ wire = <<>> /\ chunk = <<>>
      /\ pending = <<>> /\ buf = <<>> /\ out = <<>> /\ counted = 0
  BY DEF Init, Eol
<1>2. StreamOK(0, 0)
  <2>1. Cut(<<>>, 0) /\ Len(<<>>) = 0 /\ 3 * 0 = 0 /\ 0 + 0 = 0 /\ Arrived = 0
    BY <1>1, CutEmpty DEF Arrived
  <2>2. Piece(0) = <<0, 3>>
    <3>1. 0 = 3 * (0 - 1) + 3 /\ 3 \in 1 .. 3 /\ 0 \in Int /\ 0 \in Nat
      OBVIOUS
    <3>2. QED
      BY <3>1, PieceAt
  <2>3. Cardinality(Usages(0)) = 0
    <3>1. Usages(0) = {}
      BY DEF Usages
    <3>2. QED
      BY <3>1, FS_EmptySet
  <2>4. <<>> \in Seq(LineKinds) /\ <<0, 3>>[1] = 0
    OBVIOUS
  <2>5. QED
    BY <1>1, <2>1, <2>2, <2>3, <2>4 DEF StreamOK
<1>3. QED
  BY <1>1, <1>2 DEF RequestInv

LEMMA RequestNext ==
  ASSUME RequestInv, [Next]_vars
  PROVE  RequestInv'
<1>1. CASE UNCHANGED reqVars
  BY <1>1 DEF reqVars, RequestInv, StreamOK, Arrived, Usages, UsageCountedOnce,
              ClosedWithDone, SameAnswer, SilentAfterDone, ReadByClient,
              Streamed, WholeLines, WholeIn
<1>2. CASE phase = "stream" /\ (Send \/ Close \/ Request)
  <2>1. PICK e \in Nat, c \in Nat : StreamOK(e, c)
    BY <1>2 DEF RequestInv
  <2>2. CASE Send \/ Read \/ FeedLine \/ ReadReturns \/ WriteLine
    <3>1. phase' = "stream"
      BY <1>2, <2>2 DEF Send, Read, FeedLine, ReadReturns, WriteLine
    <3>2. \E i, j \in Nat : StreamOK(i, j)'
      <4>1. e + 1 \in Nat /\ c + 1 \in Nat
        OBVIOUS
      <4>2. QED
        BY <2>1, <2>2, <4>1, SendOK, ReadOK, FeedLineOK, ReadReturnsOK, WriteLineOK
    <3>3. QED
      BY <3>1, <3>2 DEF RequestInv
  <2>3. CASE Close
    <3>1. UNCHANGED <<phase, lines, sent, wire, chunk, pending, buf, out, counted>>
      BY <2>3 DEF Close
    <3>2. StreamOK(e, c)'
      BY <2>1, <3>1 DEF StreamOK, Arrived, Usages
    <3>3. QED
      BY <1>2, <3>1, <3>2 DEF RequestInv
  <2>4. CASE WriteFails
    BY <2>4 DEF WriteFails, Streaming, RequestInv
  <2>5. CASE StreamEnds
    BY <2>1, <2>5, StreamEndsOK DEF RequestInv
  <2>6. CASE ReadAll \/ AnswerWhole \/ AggregateFails
    BY <1>2, <2>6 DEF ReadAll, AnswerWhole, AggregateFails
  <2>7. QED
    BY <1>2, <2>2, <2>3, <2>4, <2>5, <2>6 DEF Request
<1>3. CASE phase = "aggregate" /\ (Send \/ Close \/ Request)
  <2>1. chunk = <<>> /\ out = <<>> /\ counted = 0
    BY <1>3 DEF RequestInv
  <2>2. CASE Send \/ Close \/ ReadAll
    BY <1>3, <2>1, <2>2 DEF Send, Close, ReadAll, RequestInv
  <2>3. CASE AggregateFails
    BY <2>1, <2>3 DEF AggregateFails, RequestInv
  <2>4. CASE AnswerWhole
    <3>1. phase' = "answered" /\ chunk' = <<>> /\ out' = <<>> /\ counted' = 1
      BY <2>1, <2>4 DEF AnswerWhole
    <3>2. QED
      BY <3>1 DEF RequestInv, UsageCountedOnce, ClosedWithDone, SameAnswer, Streamed
  <2>5. CASE Read \/ FeedLine \/ ReadReturns \/ WriteLine \/ WriteFails \/ StreamEnds
    BY <1>3, <2>1, <2>5
    DEF Read, FeedLine, ReadReturns, WriteLine, WriteFails, StreamEnds, Streaming
  <2>6. QED
    BY <1>3, <2>2, <2>3, <2>4, <2>5 DEF Request
<1>4. CASE phase \in {"answered", "failed", "others"} /\ (Send \/ Close \/ Request)
  <2>1. chunk = <<>>
    BY <1>4 DEF RequestInv
  <2>2. QED
    BY <1>4, <2>1
    DEF Send, Close, Upstream, Request, Read, FeedLine, ReadReturns, WriteLine,
        WriteFails, StreamEnds, Streaming, ReadAll, AnswerWhole, AggregateFails
<1>5. phase \in {"stream", "aggregate", "answered", "failed", "others"}
  BY DEF RequestInv
<1>6. Send \/ Close \/ Request \/ UNCHANGED reqVars
  BY DEF Next, Recorder, vars
<1>7. QED
  BY <1>1, <1>2, <1>3, <1>4, <1>5, <1>6

LEMMA RequestInvariant == Spec => []RequestInv
  BY RequestInit, RequestNext, PTL DEF Spec

\* TapReader: however the bytes of a stream are cut into reads, each usage
\* frame that arrived whole is counted exactly once, and an answer that was
\* aggregated once.
THEOREM UsageFramesCountedOnce == Spec => []UsageCountedOnce
<1>1. RequestInv => UsageCountedOnce
  <2> SUFFICES ASSUME RequestInv PROVE UsageCountedOnce
    OBVIOUS
  <2>1. CASE phase = "stream"
    <3>1. PICK e \in Nat, c \in Nat : StreamOK(e, c)
      BY <2>1 DEF RequestInv
    <3>2. chunk = <<>> =>
             counted = Cardinality({n \in DOMAIN lines :
                         lines[n] = "usage" /\ <<n, Eol>> \in Range(out \o buf)})
      BY <3>1, AllCounted
    <3>3. QED
      BY <2>1, <3>2 DEF UsageCountedOnce
  <2>2. CASE phase # "stream"
    BY <2>2 DEF RequestInv, UsageCountedOnce, Streamed
  <2>3. QED
    BY <2>1, <2>2
<1>2. QED
  BY <1>1, RequestInvariant, PTL

\* Stream: an answer that ended with a whole line is closed with a [DONE],
\* upstream's or Stream's own, and with no second one.
THEOREM StreamClosedWithDone == Spec => []ClosedWithDone
<1>1. RequestInv => ClosedWithDone
  BY DEF RequestInv, ClosedWithDone, Streamed
<1>2. QED
  BY <1>1, RequestInvariant, PTL

\* Aggregate and Stream: whatever the lines are, the answer that is put
\* together for a client that does not stream has the texts, calls, names and
\* arguments that the lines have which a streaming client reads, if upstream is
\* silent after its [DONE].
THEOREM StreamSaysTheSame == Spec => []SameAnswer
<1>1. RequestInv => SameAnswer
  BY DEF RequestInv, SameAnswer, Streamed
<1>2. QED
  BY <1>1, RequestInvariant, PTL
=============================================================================
