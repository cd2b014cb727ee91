-------------------------- MODULE CheckinPageProofs --------------------------
(***************************************************************************)
(* Proofs about the store of check-in records as CheckinPage uses it, for  *)
(* any number of check-ins, any limit, any page sizes and any failing      *)
(* saves: it holds the newest records there were, its pages hold each of   *)
(* the records that pass the filter once, and a reader who goes through    *)
(* them misses none.                                                       *)
(*                                                                         *)
(* NewestKept alone is not inductive: a restart takes the records from the *)
(* file, so IInv adds that a durable file holds the store's records.       *)
(*                                                                         *)
(* The filter is a loop, so what it keeps is proved by the shortest list   *)
(* for which it would not hold. A page is cut from the end, so the walk's  *)
(* invariant counts from there: a record that the reader has not seen has  *)
(* at least as many newer ones as the pages so far hold. An Add only makes *)
(* them more, as it drops the oldest record.                               *)
(***************************************************************************)
EXTENDS CheckinPage, WellFoundedInduction, SequenceTheorems, FiniteSetTheorems, TLAPS

IInv ==
    /\ TypeOK
    /\ NewestKept
    /\ durable => file = records

-----------------------------------------------------------------------------
(* Newest *)

\* Newest cuts a sequence to its last MaxRecords elements.
LEMMA NewestIs ==
  ASSUME NEW s \in Seq(Record)
  PROVE  /\ Newest(s) \in Seq(Record)
         /\ Len(Newest(s)) = IF Len(s) < MaxRecords THEN Len(s) ELSE MaxRecords
         /\ \A i \in 1 .. Len(Newest(s)) :
               Newest(s)[i] = s[Len(s) - Len(Newest(s)) + i]
<1>1. MaxRecords \in Nat \ {0} /\ Len(s) \in Nat
  BY StoreAssumption, LenProperties
<1>2. CASE Len(s) > MaxRecords
  <2> DEFINE m == Len(s) - MaxRecords + 1
             t == SubSeq(s, m, Len(s))
  <2>1. m \in 1 .. Len(s) /\ Len(s) \in 1 .. Len(s) /\ m \in 1 .. Len(s) + 1
    BY <1>1, <1>2
  <2>2. /\ t \in Seq(Record)
        /\ Len(t) = IF m <= Len(s) THEN Len(s) - m + 1 ELSE 0
        /\ \A i \in 1 .. Len(s) - m + 1 : t[i] = s[m + i - 1]
    BY <2>1, SubSeqProperties
  <2>3. Newest(s) = t
    BY <1>2 DEF Newest
  <2>4. Len(t) = MaxRecords
    BY <1>1, <1>2, <2>2
  <2>5. \A i \in 1 .. MaxRecords : t[i] = s[Len(s) - MaxRecords + i]
    <3> TAKE i \in 1 .. MaxRecords
    <3>1. i \in 1 .. Len(s) - m + 1
      BY <1>1
    <3>2. m + i - 1 = Len(s) - MaxRecords + i
      BY <1>1
    <3>3. QED
      BY <2>2, <3>1, <3>2
  <2> HIDE DEF m, t
  <2>6. QED
    BY <1>1, <1>2, <2>2, <2>3, <2>4, <2>5
<1>3. CASE Len(s) <= MaxRecords
  <2>1. Newest(s) = s
    BY <1>1, <1>3 DEF Newest
  <2>2. Len(s) = IF Len(s) < MaxRecords THEN Len(s) ELSE MaxRecords
    BY <1>1, <1>3
  <2>3. \A i \in 1 .. Len(s) : s[i] = s[Len(s) - Len(s) + i]
    BY <1>1
  <2>4. QED
    BY <2>1, <2>2, <2>3
<1>4. QED
  BY <1>1, <1>2, <1>3

-----------------------------------------------------------------------------
(* The steps *)

LEMMA AddRecordOK ==
  ASSUME IInv, AddRecord
  PROVE  IInv'
<1>1. PICK status \in Statuses :
         LET r == [n |-> added + 1, status |-> status]
         IN  Add(r) /\ log' = Append(log, r)
  BY DEF AddRecord
<1> DEFINE r == [n |-> added + 1, status |-> status]
           s == Append(records, r)
<1>2. r \in Record /\ added' \in 0 .. MaxAdds
  BY PageAssumption DEF AddRecord, IInv, TypeOK
<1>3. /\ records \in Seq(Record) /\ log \in Seq(Record) /\ file \in Seq(Record)
      /\ Len(file) <= MaxRecords
  BY DEF IInv, TypeOK, StoreTypeOK
<1>4. records' = Newest(s) /\ log' = Append(log, r)
  BY <1>1 DEF Add
<1>5. \/ file' = records' /\ durable' = TRUE
      \/ file' = file /\ durable' = FALSE
  BY <1>1 DEF Add, saveLocked
<1> HIDE DEF r
<1>6. /\ s \in Seq(Record) /\ Len(s) = Len(records) + 1 /\ s[Len(records) + 1] = r
      /\ \A i \in 1 .. Len(records) : s[i] = records[i]
  BY <1>2, <1>3, AppendProperties
<1>7. /\ log' \in Seq(Record) /\ Len(log') = Len(log) + 1 /\ log'[Len(log) + 1] = r
      /\ \A i \in 1 .. Len(log) : log'[i] = log[i]
  BY <1>2, <1>3, <1>4, AppendProperties
<1> HIDE DEF s
<1>8. /\ records' \in Seq(Record)
      /\ Len(records') = IF Len(s) < MaxRecords THEN Len(s) ELSE MaxRecords
      /\ \A i \in 1 .. Len(records') : records'[i] = s[Len(s) - Len(records') + i]
  BY <1>4, <1>6, NewestIs
<1>9. /\ MaxRecords \in Nat \ {0} /\ Len(records) \in Nat /\ Len(log) \in Nat
      /\ Len(records) = IF Len(log) < MaxRecords THEN Len(log) ELSE MaxRecords
      /\ \A i \in 1 .. Len(records) : records[i] = log[Len(log) - Len(records) + i]
  BY <1>3, StoreAssumption, LenProperties DEF IInv, NewestKept
<1>10. Len(records') = IF Len(log') < MaxRecords THEN Len(log') ELSE MaxRecords
  BY <1>6, <1>7, <1>8, <1>9
<1>11. ASSUME NEW i \in 1 .. Len(records')
       PROVE  records'[i] = log'[Len(log') - Len(records') + i]
  <2> DEFINE j == Len(s) - Len(records') + i
             k == Len(log') - Len(records') + i
  <2>1. Len(records') \in Nat /\ Len(s) \in Nat /\ Len(log') \in Nat
    BY <1>6, <1>7, <1>8, LenProperties
  <2>2. i \in Int /\ 1 <= i /\ i <= Len(records')
    BY <1>11, <2>1
  <2>3. records'[i] = s[j]
    BY <1>8, <1>11
  <2>4. Len(records') <= Len(s) /\ Len(log') - Len(s) = Len(log) - Len(records)
    BY <1>6, <1>7, <1>8, <1>9, <2>1
  <2>5. Len(log) \in Nat /\ Len(records) \in Nat /\ Len(s) = Len(records) + 1
    BY <1>6, <1>9
  <2>6. k = Len(log) - Len(records) + j
    BY <2>1, <2>2, <2>4, <2>5
  <2>7. j \in 1 .. Len(records) + 1
    BY <2>1, <2>2, <2>4, <2>5
  <2> SUFFICES s[j] = log'[k]
    BY <2>3
  <2> HIDE DEF j, k
  <2>8. CASE j = Len(records) + 1
    <3>1. k = Len(log) + 1
      BY <2>8, <2>5, <2>6
    <3>2. QED
      BY <1>6, <1>7, <2>8, <3>1
  <2>9. CASE j \in 1 .. Len(records)
    <3>1. s[j] = log[k]
      BY <1>6, <1>9, <2>6, <2>9
    <3>2. k \in 1 .. Len(log)
      BY <1>9, <2>6, <2>9
    <3>3. QED
      BY <1>7, <3>1, <3>2
  <2>10. QED
    BY <2>5, <2>7, <2>8, <2>9
<1>12. Len(records') <= MaxRecords
  BY <1>8, <1>9, <1>10, <1>7
<1>13. NewestKept'
  BY <1>10, <1>11 DEF NewestKept
<1>14. /\ file' \in Seq(Record) /\ Len(file') <= MaxRecords
       /\ durable' \in BOOLEAN
  BY <1>3, <1>5, <1>8, <1>12
<1>15. durable' => file' = records'
  BY <1>5
<1>16. QED
  BY <1>2, <1>7, <1>8, <1>12, <1>13, <1>14, <1>15
  DEF IInv, TypeOK, StoreTypeOK

LEMMA RestartOK ==
  ASSUME IInv, Restart
  PROVE  IInv'
<1>1. /\ records' = Newest(file) /\ durable' = TRUE /\ file' = file
      /\ log' = (IF durable THEN log ELSE file) /\ added' = added
  BY DEF Restart, Load
<1>2. /\ file \in Seq(Record) /\ Len(file) <= MaxRecords /\ log \in Seq(Record)
      /\ Len(file) \in Nat /\ MaxRecords \in Nat
  BY LenProperties, StoreAssumption DEF IInv, TypeOK, StoreTypeOK
<1>3. records' = file
  BY <1>1, <1>2 DEF Newest
<1>4. NewestKept'
  <2>1. CASE durable
    <3>1. records' = records /\ log' = log
      BY <1>1, <1>3, <2>1 DEF IInv
    <3>2. QED
      BY <3>1 DEF IInv, NewestKept
  <2>2. CASE ~durable
    <3>1. records' = file /\ log' = file
      BY <1>1, <1>3, <2>2
    <3>2. Len(file) = IF Len(file) < MaxRecords THEN Len(file) ELSE MaxRecords
      BY <1>2
    <3>3. \A i \in 1 .. Len(file) : file[i] = file[Len(file) - Len(file) + i]
      BY <1>2
    <3>4. QED
      BY <3>1, <3>2, <3>3 DEF NewestKept
  <2>3. QED
    BY <2>1, <2>2
<1>5. log' \in Seq(Record)
  BY <1>1, <1>2
<1>6. QED
  BY <1>1, <1>2, <1>3, <1>4, <1>5 DEF IInv, TypeOK, StoreTypeOK

LEMMA InitOK == Init => IInv
<1> SUFFICES ASSUME Init PROVE IInv
  OBVIOUS
<1>1. /\ records = <<>> /\ file = <<>> /\ durable = TRUE /\ added = 0 /\ log = <<>>
  BY DEF Init, StoreInit
<1>2. <<>> \in Seq(Record) /\ Len(<<>>) = 0
  OBVIOUS
<1>3. 0 < MaxRecords /\ 0 <= MaxRecords /\ 0 \in 0 .. MaxAdds
  BY StoreAssumption, PageAssumption
<1>4. NewestKept
  BY <1>1, <1>2, <1>3 DEF NewestKept
<1>5. QED
  BY <1>1, <1>2, <1>3, <1>4 DEF IInv, TypeOK, StoreTypeOK

LEMMA NextOK ==
  ASSUME IInv, [Next]_vars
  PROVE  IInv'
<1>1. CASE UNCHANGED <<storeVars, added, log>>
  BY <1>1 DEF IInv, TypeOK, StoreTypeOK, NewestKept, storeVars
<1>2. QED
  BY <1>1, AddRecordOK, RestartOK DEF Next, Open, NextPage, vars

LEMMA LeastNumber ==
  ASSUME NEW S \in SUBSET Nat, S # {}
  PROVE  \E n \in S : \A m \in S : n <= m
<1>1. \E x \in S : \A y \in S : ~(<<y, x>> \in OpToRel(<, Nat))
  BY NatLessThanWellFounded, WFMin
<1>2. PICK x \in S : \A y \in S : ~(<<y, x>> \in OpToRel(<, Nat))
  BY <1>1
<1>3. ASSUME NEW y \in S PROVE x <= y
  <2>1. ~(<<y, x>> \in {ss \in Nat \X Nat : ss[1] < ss[2]})
    BY <1>2 DEF OpToRel
  <2>2. x \in Nat /\ y \in Nat
    OBVIOUS
  <2>3. QED
    BY <2>1, <2>2
<1>4. QED
  BY <1>3

-----------------------------------------------------------------------------
(* The filter *)

LEMMA MaxIs ==
  ASSUME NEW m \in Nat, NEW S \in SUBSET (1 .. m), S # {}
  PROVE  Max(S) \in S /\ \A y \in S : y <= Max(S)
<1> DEFINE T == {m - y : y \in S}
<1>0. \A y \in S : y \in Int
  <2>1. \A y \in 1 .. m : y \in Int
    OBVIOUS
  <2>2. QED
    BY <2>1
<1>1. T \in SUBSET Nat /\ T # {}
  <2>1. \A y \in S : m - y \in Nat
    OBVIOUS
  <2>2. QED
    BY <2>1
<1>2. PICK n \in T : \A k \in T : n <= k
  BY <1>1, LeastNumber
<1>3. PICK x \in S : n = m - x
  OBVIOUS
<1>4. ASSUME NEW y \in S PROVE x >= y
  <2>1. n <= m - y
    BY <1>2
  <2>2. x \in Int /\ y \in Int
    BY <1>0
  <2>3. QED
    BY <1>3, <2>1, <2>2
<1>5. Max(S) \in S /\ \A y \in S : Max(S) >= y
  BY <1>4 DEF Max
<1>6. \A y \in S : y \in Int /\ Max(S) \in Int
  BY <1>0, <1>5
<1>7. QED
  BY <1>5, <1>6

\* What the loop of filterRecordsLocked makes of the record at x.
Sifted(s, E, x, out) == IF s[x].status \in E THEN out ELSE Append(out, s[x])

\* The loop over the sets of places in D, the last one of a set last: what
\* FoldLeft computes.
IsSieve(it, D, s, E) ==
    it = [S \in D |-> IF S = {} THEN <<>>
                      ELSE Sifted(s, E, Max(S), it[S \ {Max(S)}])]

\* There is one: the first length for which there is none would have one, made
\* from that of the length before.
LEMMA SieveExists ==
  ASSUME NEW s, NEW E, NEW n \in Nat
  PROVE  \E it : IsSieve(it, SUBSET (1 .. n), s, E)
<1> DEFINE Bad == {m \in Nat : ~\E it : IsSieve(it, SUBSET (1 .. m), s, E)}
<1> SUFFICES ASSUME Bad # {} PROVE FALSE
  OBVIOUS
<1>1. PICK m \in Bad : \A k \in Bad : m <= k
  BY LeastNumber
<1>2. m \in Nat /\ ~\E it : IsSieve(it, SUBSET (1 .. m), s, E)
  OBVIOUS
<1>3. CASE m = 0
  <2> DEFINE g == [S \in SUBSET (1 .. 0) |-> <<>>]
  <2>1. \A S \in SUBSET (1 .. 0) : S = {}
    OBVIOUS
  <2>2. IsSieve(g, SUBSET (1 .. 0), s, E)
    BY <2>1 DEF IsSieve
  <2>3. QED
    BY <1>2, <1>3, <2>2
<1>4. CASE m # 0
  <2>1. m - 1 \in Nat /\ ~(m <= m - 1)
    BY <1>2, <1>4
  <2>2. m - 1 \notin Bad
    BY <1>1, <2>1
  <2>3. PICK it : IsSieve(it, SUBSET (1 .. (m - 1)), s, E)
    BY <2>1, <2>2
  <2> DEFINE g == [S \in SUBSET (1 .. m) |->
                      IF S = {} THEN <<>>
                      ELSE Sifted(s, E, Max(S), it[S \ {Max(S)}])]
             h == [S \in SUBSET (1 .. m) |->
                      IF S = {} THEN <<>>
                      ELSE Sifted(s, E, Max(S), g[S \ {Max(S)}])]
  <2>4. ASSUME NEW T \in SUBSET (1 .. (m - 1))
        PROVE  it[T] = g[T]
    <3>1. T \in SUBSET (1 .. m)
      BY <1>2
    <3>2. it[T] = IF T = {} THEN <<>>
                  ELSE Sifted(s, E, Max(T), it[T \ {Max(T)}])
      BY <2>3 DEF IsSieve
    <3>3. QED
      BY <3>1, <3>2
  <2>5. ASSUME NEW S \in SUBSET (1 .. m), S # {}
        PROVE  S \ {Max(S)} \in SUBSET (1 .. (m - 1))
    <3>1. Max(S) \in S /\ \A y \in S : y <= Max(S)
      BY <1>2, <2>5, MaxIs
    <3>2. ASSUME NEW y \in S, y # Max(S) PROVE y \in 1 .. (m - 1)
      <4>1. y <= Max(S)
        BY <3>1
      <4>2. y \in 1 .. m /\ Max(S) \in 1 .. m
        BY <3>1
      <4>3. QED
        BY <1>2, <3>2, <4>1, <4>2
    <3>3. QED
      BY <3>2
  <2>6. \A S \in SUBSET (1 .. m) :
           S # {} => it[S \ {Max(S)}] = g[S \ {Max(S)}]
    <3> HIDE DEF g
    <3>1. QED
      BY <2>4, <2>5
  <2>7. g = h
    <3>1. ASSUME NEW S \in SUBSET (1 .. m) PROVE g[S] = h[S]
      BY <2>6
    <3>2. QED
      BY <3>1
  <2>8. IsSieve(g, SUBSET (1 .. m), s, E)
    BY <2>7 DEF IsSieve
  <2>9. QED
    BY <1>2, <2>8
<1>5. QED
  BY <1>3, <1>4

\* F holds what the loop has put out after each of the records.
Run(F, s, E) ==
    /\ F[0] = <<>>
    /\ \A k \in 1 .. Len(s) : F[k] = Sifted(s, E, k, F[k - 1])

LEMMA FilterRuns ==
  ASSUME NEW s \in Seq(Record), NEW E
  PROVE  \E F : Run(F, s, E) /\ filterRecordsLocked(s, E) = F[Len(s)]
<1> DEFINE L == Len(s)
           D == SUBSET (1 .. L)
<1>1. L \in Nat /\ DOMAIN s = 1 .. L
  BY LenProperties
<1>2. PICK it : IsSieve(it, D, s, E)
  BY <1>1, SieveExists
<1>3. PICK g : /\ g = [S \in SUBSET DOMAIN s |->
                         IF S = {} THEN <<>>
                         ELSE LET x == Max(S)
                              IN  IF s[x].status \in E THEN g[S \ {x}]
                                  ELSE Append(g[S \ {x}], s[x])]
               /\ filterRecordsLocked(s, E) = g[DOMAIN s]
  <2>1. it = [S \in SUBSET DOMAIN s |->
                 IF S = {} THEN <<>>
                 ELSE LET x == Max(S)
                      IN  IF s[x].status \in E THEN it[S \ {x}]
                          ELSE Append(it[S \ {x}], s[x])]
    BY <1>1, <1>2 DEF IsSieve, Sifted
  <2>2. QED
    BY <2>1 DEF filterRecordsLocked, FoldLeft, MapThenFoldSet
<1>4. IsSieve(g, D, s, E)
  BY <1>1, <1>3 DEF IsSieve, Sifted
<1> DEFINE F == [k \in 0 .. L |-> g[1 .. k]]
<1>5. ASSUME NEW k \in 0 .. L PROVE F[k] = g[1 .. k] /\ 1 .. k \in D
  BY <1>1
<1>6. F[0] = <<>>
  <2>1. 0 \in 0 .. L /\ 1 .. 0 = {}
    BY <1>1
  <2>2. g[{}] = <<>>
    BY <1>4 DEF IsSieve
  <2>3. QED
    BY <1>5, <2>1, <2>2
<1>7. ASSUME NEW k \in 1 .. L PROVE F[k] = Sifted(s, E, k, F[k - 1])
  <2>1. /\ k \in 0 .. L /\ k - 1 \in 0 .. L /\ 1 .. k # {} /\ k \in Nat
        /\ k \in 1 .. k /\ (1 .. k) \ {k} = 1 .. (k - 1)
    BY <1>1
  <2>2. Max(1 .. k) = k
    <3>1. Max(1 .. k) \in 1 .. k /\ k <= Max(1 .. k)
      BY <2>1, MaxIs
    <3>2. QED
      BY <2>1, <3>1
  <2>3. 1 .. k \in D
    BY <1>5, <2>1
  <2>4. g[1 .. k] = Sifted(s, E, Max(1 .. k), g[(1 .. k) \ {Max(1 .. k)}])
    BY <1>4, <2>1, <2>3 DEF IsSieve
  <2>5. g[1 .. k] = Sifted(s, E, k, g[1 .. (k - 1)])
    BY <2>1, <2>2, <2>4
  <2> HIDE DEF F
  <2>6. QED
    BY <1>5, <2>1, <2>5
<1>8. F[L] = g[DOMAIN s]
  BY <1>1
<1>9. Run(F, s, E)
  <2> HIDE DEF F
  <2>1. QED
    BY <1>6, <1>7 DEF Run
<1>10. QED
  BY <1>3, <1>8, <1>9

\* Older records come first.
Ordered(s) == \A i, j \in 1 .. Len(s) : i < j => s[i].n < s[j].n

\* What the filter makes of the first k records.
SiftedWell(t, s, E, k) ==
    /\ t \in Seq(Record)
    /\ Members(t) = {s[i] : i \in {m \in 1 .. k : s[m].status \notin E}}
    /\ Ordered(s) => Ordered(t)

LEMMA SiftedStep ==
  ASSUME NEW s \in Seq(Record), NEW E, NEW k \in 1 .. Len(s), NEW t,
         SiftedWell(t, s, E, k - 1)
  PROVE  SiftedWell(Sifted(s, E, k, t), s, E, k)
<1>1. Len(s) \in Nat /\ k \in Nat /\ k <= Len(s) /\ s[k] \in Record
  <2>1. Len(s) \in Nat
    BY LenProperties
  <2>2. QED
    BY <2>1
<1>2. CASE s[k].status \in E
  <2>1. Sifted(s, E, k, t) = t
    BY <1>2 DEF Sifted
  <2>2. {m \in 1 .. k : s[m].status \notin E} = {m \in 1 .. (k - 1) : s[m].status \notin E}
    BY <1>1, <1>2
  <2>3. QED
    BY <2>1, <2>2 DEF SiftedWell
<1>3. CASE s[k].status \notin E
  <2> DEFINE u == Append(t, s[k])
  <2>1. Sifted(s, E, k, t) = u
    BY <1>3 DEF Sifted
  <2>2. t \in Seq(Record) /\ Len(t) \in Nat /\ DOMAIN t = 1 .. Len(t)
    BY LenProperties DEF SiftedWell
  <2>3. /\ u \in Seq(Record) /\ Len(u) = Len(t) + 1 /\ u[Len(t) + 1] = s[k]
        /\ \A i \in 1 .. Len(t) : u[i] = t[i]
    BY <1>1, <2>2, AppendProperties
  <2>4. DOMAIN u = 1 .. (Len(t) + 1)
    BY <2>3, LenProperties
  <2> HIDE DEF u
  <2>5. Members(u) = Members(t) \cup {s[k]}
    <3>1. \A i \in 1 .. (Len(t) + 1) : i \in 1 .. Len(t) \/ i = Len(t) + 1
      BY <2>2
    <3>2. \A i \in 1 .. Len(t) : i \in 1 .. (Len(t) + 1)
      BY <2>2
    <3>3. Len(t) + 1 \in 1 .. (Len(t) + 1)
      BY <2>2
    <3>4. QED
      BY <2>2, <2>3, <2>4, <3>1, <3>2, <3>3 DEF Members
  <2>6. {m \in 1 .. k : s[m].status \notin E}
          = {m \in 1 .. (k - 1) : s[m].status \notin E} \cup {k}
    BY <1>1, <1>3
  <2>7. Members(u) = {s[i] : i \in {m \in 1 .. k : s[m].status \notin E}}
    BY <2>5, <2>6 DEF SiftedWell
  <2>8. ASSUME Ordered(s) PROVE Ordered(u)
    <3>1. Ordered(t)
      BY <2>8 DEF SiftedWell
    <3>2. ASSUME NEW i \in 1 .. Len(t) PROVE t[i].n < s[k].n
      <4>1. t[i] \in Members(t)
        BY <2>2 DEF Members
      <4>2. PICK m \in 1 .. (k - 1) : t[i] = s[m]
        BY <4>1 DEF SiftedWell
      <4>3. m \in 1 .. Len(s) /\ m < k /\ k \in 1 .. Len(s)
        BY <1>1
      <4>4. QED
        BY <2>8, <4>2, <4>3 DEF Ordered
    <3>3. ASSUME NEW i \in 1 .. Len(u), NEW j \in 1 .. Len(u), i < j
          PROVE  u[i].n < u[j].n
      <4>1. i \in 1 .. Len(t)
        BY <2>2, <2>3, <3>3
      <4>2. CASE j \in 1 .. Len(t)
        BY <2>3, <3>1, <3>3, <4>1, <4>2 DEF Ordered
      <4>3. CASE j = Len(t) + 1
        BY <2>3, <3>2, <4>1, <4>3
      <4>4. QED
        BY <2>2, <2>3, <4>2, <4>3
    <3>4. QED
      BY <3>3 DEF Ordered
  <2>9. QED
    BY <2>1, <2>3, <2>7, <2>8 DEF SiftedWell
<1>4. QED
  BY <1>2, <1>3

\* filterRecordsLocked keeps the records whose status passes, in their order.
LEMMA FilterIs ==
  ASSUME NEW s \in Seq(Record), NEW E
  PROVE  SiftedWell(filterRecordsLocked(s, E), s, E, Len(s))
<1> DEFINE L == Len(s)
<1>1. L \in Nat
  BY LenProperties
<1>2. PICK F : Run(F, s, E) /\ filterRecordsLocked(s, E) = F[L]
  BY FilterRuns
<1> DEFINE Bad == {k \in 0 .. L : ~SiftedWell(F[k], s, E, k)}
<1> SUFFICES ASSUME Bad # {} PROVE FALSE
  BY <1>1, <1>2
<1>3. Bad \in SUBSET Nat
  BY <1>1
<1>4. PICK k \in Bad : \A m \in Bad : k <= m
  BY <1>3, LeastNumber
<1>5. k \in 0 .. L /\ ~SiftedWell(F[k], s, E, k)
  OBVIOUS
<1>6. CASE k = 0
  <2>1. F[0] = <<>>
    BY <1>2 DEF Run
  <2>2. /\ <<>> \in Seq(Record) /\ Len(<<>>) = 0 /\ DOMAIN <<>> = {} /\ 1 .. 0 = {}
    OBVIOUS
  <2>3. Members(<<>>) = {s[i] : i \in {m \in 1 .. 0 : s[m].status \notin E}}
    BY <2>2 DEF Members
  <2>4. Ordered(<<>>)
    BY <2>2 DEF Ordered
  <2>5. SiftedWell(F[0], s, E, 0)
    BY <2>1, <2>2, <2>3, <2>4 DEF SiftedWell
  <2>6. QED
    BY <1>5, <1>6, <2>5
<1>7. CASE k # 0
  <2>1. k \in 1 .. L /\ k - 1 \in 0 .. L /\ ~(k <= k - 1)
    BY <1>1, <1>5, <1>7
  <2>2. k - 1 \notin Bad
    BY <1>4, <2>1
  <2>3. SiftedWell(F[k - 1], s, E, k - 1)
    BY <2>1, <2>2
  <2>4. F[k] = Sifted(s, E, k, F[k - 1])
    BY <1>2, <2>1 DEF Run
  <2>5. SiftedWell(Sifted(s, E, k, F[k - 1]), s, E, k)
    BY <2>1, <2>3, SiftedStep
  <2>6. QED
    BY <1>5, <2>4, <2>5
<1>8. QED
  BY <1>6, <1>7

-----------------------------------------------------------------------------
(* Pages *)

LEMMA Division ==
  ASSUME NEW t \in Nat, NEW d \in Nat \ {0}
  PROVE  /\ t \div d \in Nat /\ t % d \in 0 .. d - 1
         /\ t = (t \div d) * d + (t % d)
  OBVIOUS

LEMMA Multiples ==
  ASSUME NEW d \in Nat \ {0}, NEW i \in Int, NEW j \in Int
  PROVE  /\ i * d \in Int /\ (i - 1) * d = i * d - d
         /\ i < j => i * d + d <= j * d
         /\ i = 0 => i * d = 0
  OBVIOUS

\* The pages are as many as it takes to hold the records.
LEMMA EnoughPages ==
  ASSUME NEW T \in Nat, NEW z \in Nat \ {0}, NEW P, P = TotalPages(T, z)
  PROVE  P \in Nat /\ T <= P * z /\ (P - 1) * z < T
<1>1. T + z - 1 \in Nat /\ P = (T + z - 1) \div z
  BY DEF TotalPages
<1>2. /\ P \in Nat /\ (T + z - 1) % z \in 0 .. z - 1
      /\ T + z - 1 = P * z + ((T + z - 1) % z)
  BY <1>1, Division
<1>3. P * z \in Int /\ (P - 1) * z = P * z - z
  BY <1>2, Multiples
<1> DEFINE e == (T + z - 1) % z
           A == P * z
           B == (P - 1) * z
<1>4. e \in Nat /\ e < z /\ T + z - 1 = A + e /\ A \in Int /\ B = A - z
  BY <1>2, <1>3
<1> HIDE DEF e, A, B
<1>5. T <= A /\ B < T
  BY <1>4
<1>6. QED
  BY <1>2, <1>5 DEF A, B

\* The records of a page: the newest first, from behind the pages before it.
Shown(t, page, size) ==
    LET end == PageEnd(Len(t), page, size)
    IN  IF end <= 0 THEN 0 ELSE IF end < size THEN end ELSE size

LEMMA PageIs ==
  ASSUME NEW page, NEW size, NEW E, NEW t, t = filterRecordsLocked(records, E)
  PROVE  Page(page, size, E)
           = [i \in 1 .. Shown(t, page, size) |-> t[PageEnd(Len(t), page, size) + 1 - i]]
  BY DEF Page, Shown

LEMMA Empty ==
  ASSUME NEW f(_)
  PROVE  [i \in 1 .. 0 |-> f(i)] = <<>>
<1>1. 1 .. 0 = {}
  OBVIOUS
<1>2. QED
  BY <1>1

LEMMA FunLen ==
  ASSUME NEW n \in Nat, NEW f(_)
  PROVE  /\ Len([i \in 1 .. n |-> f(i)]) = n
         /\ DOMAIN [i \in 1 .. n |-> f(i)] = 1 .. n
  OBVIOUS

LEMMA PagesOK ==
  ASSUME records \in Seq(Record), NEW size \in Nat \ {0}, NEW E,
         NEW kept, kept = filterRecordsLocked(records, E),
         NEW pages, pages = TotalPages(Total(E), size)
  PROVE  /\ Page(pages + 1, size, E) = <<>>
         /\ \A i \in 1 .. Len(kept) :
               \E page \in 1 .. pages :
                   LET at == i - (page - 1) * size
                   IN  /\ at \in DOMAIN Page(page, size, E)
                       /\ Page(page, size, E)[at] = kept[Len(kept) + 1 - i]
         /\ \A page \in 1 .. pages :
               Len(Page(page, size, E)) =
                   IF page < pages THEN size ELSE Len(kept) - (pages - 1) * size
<1> DEFINE T == Len(kept)
<1>1. T \in Nat /\ pages = TotalPages(T, size)
  <2>1. kept \in Seq(Record)
    BY FilterIs DEF SiftedWell
  <2>2. QED
    BY <2>1, LenProperties DEF Total
<1> HIDE DEF T
<1>2. pages \in Nat /\ T <= pages * size /\ (pages - 1) * size < T
  BY <1>1, EnoughPages
<1>3. ASSUME NEW page \in Int
      PROVE  /\ page * size \in Int /\ (page - 1) * size = page * size - size
             /\ PageEnd(T, page, size) = T - (page - 1) * size
             /\ PageEnd(T, page, size) \in Int
  BY <1>1, Multiples DEF PageEnd
<1>4. ASSUME NEW page \in Int
      PROVE  /\ Page(page, size, E) =
                   [i \in 1 .. Shown(kept, page, size) |-> kept[PageEnd(T, page, size) + 1 - i]]
             /\ Shown(kept, page, size) =
                   LET end == PageEnd(T, page, size)
                   IN  IF end <= 0 THEN 0 ELSE IF end < size THEN end ELSE size
             /\ Shown(kept, page, size) \in Nat
  <2>1. Page(page, size, E) =
          [i \in 1 .. Shown(kept, page, size) |-> kept[PageEnd(T, page, size) + 1 - i]]
    BY PageIs DEF T
  <2>2. Shown(kept, page, size) =
          LET end == PageEnd(T, page, size)
          IN  IF end <= 0 THEN 0 ELSE IF end < size THEN end ELSE size
    BY DEF Shown, T
  <2> DEFINE end == PageEnd(T, page, size)
  <2>3. end \in Int
    BY <1>3
  <2> HIDE DEF end
  <2>4. (IF end <= 0 THEN 0 ELSE IF end < size THEN end ELSE size) \in Nat
    BY <2>3
  <2>5. QED
    BY <2>1, <2>2, <2>4 DEF end
<1>5. Page(pages + 1, size, E) = <<>>
  <2>1. pages + 1 \in Int /\ (pages + 1) - 1 = pages
    BY <1>2
  <2>2. PageEnd(T, pages + 1, size) = T - pages * size
    BY <1>3, <2>1
  <2> DEFINE A == pages * size
  <2>3. A \in Int /\ T <= A
    BY <1>2, <1>3
  <2> HIDE DEF A
  <2>4. T - A <= 0
    BY <1>1, <2>3
  <2>5. Shown(kept, pages + 1, size) = 0
    BY <1>4, <2>1, <2>2, <2>4 DEF A
  <2>6. Page(pages + 1, size, E) =
          [i \in 1 .. 0 |-> kept[PageEnd(T, pages + 1, size) + 1 - i]]
    BY <1>4, <2>1, <2>5
  <2>7. QED
    BY <2>6, Empty
<1>6. ASSUME NEW i \in 1 .. T
      PROVE  \E page \in 1 .. pages :
                 LET at == i - (page - 1) * size
                 IN  /\ at \in DOMAIN Page(page, size, E)
                     /\ Page(page, size, E)[at] = kept[T + 1 - i]
  <2> DEFINE q == (i - 1) \div size
             e == (i - 1) % size
             page == q + 1
             A == q * size
             at == i - (page - 1) * size
             end == PageEnd(T, page, size)
             n == Shown(kept, page, size)
  <2>1. i \in Int /\ 1 <= i /\ i <= T /\ i - 1 \in Nat
    BY <1>1
  <2>2. q \in Nat /\ e \in 0 .. size - 1 /\ i - 1 = A + e
    BY <2>1, Division
  <2>3. page \in Int /\ page - 1 = q /\ A \in Int
    BY <2>2, Multiples
  <2>4. at = i - A /\ end = T - A
    BY <1>3, <2>3
  <2>5. e \in Int /\ 0 <= e /\ e < size
    BY <2>2
  <2>6. n = IF end <= 0 THEN 0 ELSE IF end < size THEN end ELSE size
    BY <1>4, <2>3
  <2>7. /\ Page(page, size, E) = [j \in 1 .. n |-> kept[end + 1 - j]]
        /\ n \in Nat
    BY <1>4, <2>3
  <2>8. page \in 1 .. pages
    <3> HIDE DEF q, e
    <3> SUFFICES ASSUME ~(page <= pages) PROVE FALSE
      BY <1>2, <2>2, <2>3
    <3>1. pages <= q
      BY <1>2, <2>2, <2>3
    <3>2. pages = q \/ pages < q
      BY <1>2, <2>2, <3>1
    <3> DEFINE B == pages * size
    <3>3. B = A \/ B + size <= A
      <4>1. pages \in Int /\ q \in Int
        BY <1>2, <2>2
      <4>2. pages < q => B + size <= A
        BY <4>1, Multiples
      <4>3. pages = q => B = A
        OBVIOUS
      <4> HIDE DEF A, B
      <4>4. QED
        BY <3>2, <4>2, <4>3
    <3>4. B \in Int /\ T <= B
      BY <1>2, <1>3
    <3> HIDE DEF A, B
    <3>5. QED
      BY <1>1, <2>1, <2>2, <2>3, <2>5, <3>3, <3>4
  <2> HIDE DEF page, at, end, n, A, q, e
  <2>9. at \in 1 .. n /\ end + 1 - at = T + 1 - i
    BY <1>1, <2>1, <2>2, <2>3, <2>4, <2>5, <2>6
  <2>10. at \in DOMAIN Page(page, size, E) /\ Page(page, size, E)[at] = kept[T + 1 - i]
    BY <2>7, <2>9
  <2>11. QED
    BY <2>8, <2>10 DEF at
<1>7. ASSUME NEW page \in 1 .. pages
      PROVE  Len(Page(page, size, E)) =
                 IF page < pages THEN size ELSE T - (pages - 1) * size
  <2> DEFINE end == PageEnd(T, page, size)
             n == Shown(kept, page, size)
             A == page * size
             B == (pages - 1) * size
  <2>1. page \in Int /\ page <= pages /\ pages - 1 \in Int
    BY <1>2
  <2>2. /\ Page(page, size, E) = [j \in 1 .. n |-> kept[end + 1 - j]]
        /\ n \in Nat /\ n = IF end <= 0 THEN 0 ELSE IF end < size THEN end ELSE size
    BY <1>4, <2>1
  <2>3. Len(Page(page, size, E)) = n
    <3> HIDE DEF n, end
    <3>1. QED
      BY <2>2, FunLen
  <2>4. A \in Int /\ end = T - (A - size) /\ B \in Int /\ B < T
    BY <1>2, <1>3, <2>1, Multiples
  <2>5. CASE page < pages
    <3>1. page < pages - 1 \/ page = pages - 1
      BY <1>2, <2>1, <2>5
    <3>2. A <= B
      <4>1. page < pages - 1 => A + size <= B
        BY <2>1, Multiples
      <4>2. page = pages - 1 => A = B
        OBVIOUS
      <4> HIDE DEF A, B
      <4>3. QED
        BY <2>4, <3>1, <4>1, <4>2
    <3> HIDE DEF A, B, end, n
    <3>3. n = size
      BY <1>1, <2>2, <2>4, <3>2
    <3>4. QED
      BY <2>3, <2>5, <3>3
  <2>6. CASE page = pages
    <3>1. B = A - size
      BY <1>3, <2>1, <2>6
    <3>2. pages * size \in Int /\ T <= A
      BY <1>2, <1>3, <2>6
    <3> HIDE DEF A, B, end, n
    <3>3. n = T - B
      BY <1>1, <2>2, <2>4, <3>1, <3>2
    <3>4. QED
      BY <2>1, <2>3, <2>6, <3>3 DEF B
  <2>7. QED
    BY <1>2, <2>1, <2>5, <2>6
<1>8. QED
  BY <1>5, <1>6, <1>7 DEF T

-----------------------------------------------------------------------------
(* The reader's walk *)

\* The records on the page that were added after x.
Newer(x, exclude) ==
    {y \in Members(records) : y.status \notin exclude /\ y.n > x.n}

\* The record's number is the time it was added at.
InTime ==
    /\ Ordered(records) /\ Ordered(file)
    /\ \A x \in Members(records) \cup Members(file) : x.n <= added

\* What the reader has not seen yet lies behind the pages so far, and there
\* is a next page then.
Ahead(x) ==
    /\ reader.page * reader.size <= Cardinality(Newer(x, reader.exclude))
    /\ ~LastPage

ReaderOK ==
    reader.open =>
        /\ reader.size \in PageSizes /\ reader.page \in Nat \ {0}
        /\ reader.base \subseteq Record
        /\ \A x \in reader.base : x.n <= added /\ x.status \notin reader.exclude
        /\ ~reader.cut =>
              \A x \in reader.base \cap Members(records) :
                  x \in reader.seen \/ Ahead(x)

WalkInv == InTime /\ ReaderOK

LEMMA MembersFinite ==
  ASSUME NEW s \in Seq(Record)
  PROVE  IsFiniteSet(Members(s)) /\ Members(s) \subseteq Record
<1>1. DOMAIN s = 1 .. Len(s) /\ Len(s) \in Nat /\ \A i \in 1 .. Len(s) : s[i] \in Record
  BY LenProperties
<1>2. IsFiniteSet(1 .. Len(s))
  BY <1>1, FS_Interval
<1>3. s \in Surjection(1 .. Len(s), Members(s))
  <2>1. s \in [1 .. Len(s) -> Members(s)]
    BY <1>1 DEF Members
  <2>2. \A x \in Members(s) : \E i \in 1 .. Len(s) : s[i] = x
    BY <1>1 DEF Members
  <2>3. QED
    BY <2>1, <2>2 DEF Surjection
<1>4. IsFiniteSet(Members(s))
  BY <1>2, <1>3, FS_Surjection
<1>5. QED
  BY <1>1, <1>4 DEF Members

LEMMA Behind ==
  ASSUME NEW L \in Nat, NEW i \in 1 .. L
  PROVE  IsFiniteSet((i + 1) .. L) /\ Cardinality((i + 1) .. L) = L - i
<1> DEFINE a == i + 1
           c == Cardinality(a .. L)
<1>1. a \in Int /\ L \in Int /\ i \in Int /\ a = i + 1 /\ i <= L
  OBVIOUS
<1> HIDE DEF a
<1>2. IsFiniteSet(a .. L) /\ c = IF a > L THEN 0 ELSE L - a + 1
  BY <1>1, FS_Interval
<1> HIDE DEF c
<1>3. c = L - i
  BY <1>1, <1>2
<1>4. QED
  BY <1>2, <1>3 DEF a, c

\* The newer ones are those behind it.
LEMMA NewerCount ==
  ASSUME records \in Seq(Record), Ordered(records), NEW E,
         NEW kept, kept = filterRecordsLocked(records, E),
         NEW i \in 1 .. Len(kept)
  PROVE  Cardinality(Newer(kept[i], E)) = Len(kept) - i
<1>1. /\ kept \in Seq(Record) /\ Ordered(kept)
      /\ Members(kept) = {records[j] : j \in {m \in 1 .. Len(records) : records[m].status \notin E}}
  BY FilterIs DEF SiftedWell
<1>2. /\ Len(kept) \in Nat /\ DOMAIN kept = 1 .. Len(kept)
      /\ DOMAIN records = 1 .. Len(records)
  BY <1>1, LenProperties
<1>3. Members(kept) = {y \in Members(records) : y.status \notin E}
  BY <1>1, <1>2 DEF Members
<1>4. \A j \in 1 .. Len(kept) : kept[j] \in Record /\ kept[j].n \in Int
  <2>1. \A r \in Record : r.n \in Int
    BY PageAssumption
  <2>2. QED
    BY <1>1, <1>2, <2>1
<1> DEFINE L == Len(kept)
           S == (i + 1) .. L
           N == {kept[j] : j \in S}
           f == [j \in S |-> kept[j]]
<1>5. i \in Int /\ 1 <= i /\ i <= L
  BY <1>2
<1>6. \A j \in S : j \in 1 .. L /\ i < j /\ j \in Int
  BY <1>2, <1>5
<1>7. Newer(kept[i], E) = N
  <2>1. Newer(kept[i], E) = {y \in Members(kept) : y.n > kept[i].n}
    BY <1>3 DEF Newer
  <2>2. ASSUME NEW j \in S PROVE kept[j] \in Members(kept) /\ kept[j].n > kept[i].n
    <3>1. kept[i].n < kept[j].n
      BY <1>1, <1>5, <1>6 DEF Ordered
    <3>2. QED
      BY <1>2, <1>4, <1>6, <3>1 DEF Members
  <2>3. ASSUME NEW y \in Members(kept), y.n > kept[i].n PROVE y \in N
    <3>1. PICK j \in 1 .. L : y = kept[j]
      BY <1>2 DEF Members
    <3>2. ~(j < i)
      <4> SUFFICES ASSUME j < i PROVE FALSE
        OBVIOUS
      <4>1. kept[j].n < kept[i].n
        BY <1>1 DEF Ordered
      <4>2. QED
        BY <1>4, <2>3, <3>1, <4>1
    <3>3. j # i
      BY <1>4, <2>3, <3>1
    <3>4. j \in S
      BY <1>2, <1>5, <3>2, <3>3
    <3>5. QED
      BY <3>1, <3>4
  <2>4. QED
    BY <2>1, <2>2, <2>3
<1>8. IsFiniteSet(S) /\ Cardinality(S) = L - i
  BY <1>2, Behind
<1>9. ExistsBijection(S, N)
  <2>1. ASSUME NEW j \in S, NEW k \in S, kept[j] = kept[k] PROVE j = k
    <3>1. ~(j < k) /\ ~(k < j)
      BY <1>1, <1>4, <1>6, <2>1 DEF Ordered
    <3>2. QED
      BY <1>6, <3>1
  <2> HIDE DEF S
  <2>2. f \in Bijection(S, N)
    BY <2>1 DEF Bijection, Injection, Surjection, IsInjective
  <2>3. QED
    BY <2>2 DEF ExistsBijection
<1>10. Cardinality(N) = Cardinality(S)
  BY <1>8, <1>9, FS_Bijection
<1>11. QED
  BY <1>7, <1>8, <1>10

\* Behind the pages before it, a record is on this page or behind it, and
\* then there is a next one.
LEMMA PageShows ==
  ASSUME records \in Seq(Record), Ordered(records), NEW E, NEW size \in Nat \ {0},
         NEW page \in Nat \ {0},
         NEW x \in Members(records), x.status \notin E,
         (page - 1) * size <= Cardinality(Newer(x, E))
  PROVE  \/ x \in Members(Page(page, size, E))
         \/ /\ page * size <= Cardinality(Newer(x, E))
            /\ ~(page >= TotalPages(Total(E), size))
<1> DEFINE kept == filterRecordsLocked(records, E)
           T == Len(kept)
           P == TotalPages(T, size)
<1>1. /\ kept \in Seq(Record)
      /\ Members(kept) = {records[j] : j \in {m \in 1 .. Len(records) : records[m].status \notin E}}
  BY FilterIs DEF SiftedWell
<1> HIDE DEF kept
<1>2. /\ T \in Nat /\ DOMAIN kept = 1 .. T /\ DOMAIN records = 1 .. Len(records)
  BY <1>1, LenProperties
<1>3. PICK i \in 1 .. T : x = kept[i]
  <2>1. x \in Members(kept)
    BY <1>1, <1>2 DEF Members
  <2>2. QED
    BY <1>2, <2>1 DEF Members
<1>4. Cardinality(Newer(x, E)) = T - i
  BY <1>3, NewerCount DEF kept
<1> DEFINE A == page * size
           end == PageEnd(T, page, size)
           n == Shown(kept, page, size)
<1>5. /\ A \in Int /\ (page - 1) * size = A - size
      /\ end = T - (A - size)
  BY Multiples DEF PageEnd
<1>6. n = IF end <= 0 THEN 0 ELSE IF end < size THEN end ELSE size
  BY DEF Shown
<1>7. Page(page, size, E) = [j \in 1 .. n |-> kept[end + 1 - j]]
  BY PageIs DEF kept
<1>8. P \in Nat /\ T <= P * size /\ P = TotalPages(Total(E), size)
  BY <1>2, EnoughPages DEF Total, kept
<1>9. i \in Int /\ 1 <= i /\ i <= T /\ A - size <= T - i
  BY <1>2, <1>4, <1>5
<1>10. page >= P => T <= A
  <2> HIDE DEF P
  <2>1. page = P \/ P < page \/ ~(page >= P)
    BY <1>8
  <2> DEFINE B == P * size
  <2>2. P < page => B + size <= A
    <3>1. P \in Int /\ page \in Int
      BY <1>8
    <3>2. QED
      BY <3>1, Multiples
  <2>3. page = P => B = A
    OBVIOUS
  <2>4. B \in Int /\ T <= B
    BY <1>8, Multiples
  <2> HIDE DEF A, B, T
  <2>5. QED
    BY <1>2, <1>5, <2>1, <2>2, <2>3, <2>4
<1> HIDE DEF T, A, end, n, P
<1>11. CASE T - i < A
  <2> DEFINE j == end + 1 - i
  <2>1. j \in 1 .. n /\ end + 1 - j = i
    BY <1>2, <1>5, <1>6, <1>9, <1>11
  <2> HIDE DEF j
  <2>2. DOMAIN Page(page, size, E) = 1 .. n /\ Page(page, size, E)[j] = kept[i]
    BY <1>7, <2>1
  <2>3. QED
    BY <1>3, <2>1, <2>2 DEF Members
<1>12. CASE ~(T - i < A)
  <2>1. A <= T - i
    BY <1>2, <1>5, <1>9, <1>12
  <2>2. ~(T <= A)
    BY <1>2, <1>5, <1>9, <2>1
  <2>3. A <= Cardinality(Newer(x, E)) /\ ~(page >= P)
    BY <1>4, <1>10, <2>1, <2>2
  <2>4. QED
    BY <1>8, <2>3 DEF A
<1>13. QED
  BY <1>11, <1>12

\* q has the fields of the reader.
IsReader(q) ==
    q = [open |-> q.open, exclude |-> q.exclude, size |-> q.size, page |-> q.page,
         total |-> q.total, base |-> q.base, seen |-> q.seen, cut |-> q.cut]

-----------------------------------------------------------------------------
(* The reader's steps *)

\* Loading a page keeps ReaderOK, given what was not seen lies behind the
\* pages before it.
LEMMA Positive == \A n \in Nat \ {0} : n \in Int
OBVIOUS

LEMMA LoadedOK ==
  ASSUME IInv, InTime, NEW r, NEW page \in Nat \ {0},
         r.open, r.size \in PageSizes, r.base \subseteq Record,
         IsReader(r),
         \A x \in r.base : x.n <= added /\ x.status \notin r.exclude,
         ~r.cut => \A x \in r.base \cap Members(records) :
                      \/ x \in r.seen
                      \/ (page - 1) * r.size <= Cardinality(Newer(x, r.exclude)),
         reader' = Loaded(r, page),
         UNCHANGED <<storeVars, added>>
  PROVE  ReaderOK'
<1>1. reader' = [open |-> r.open, exclude |-> r.exclude, size |-> r.size, page |-> page,
                 total |-> Total(r.exclude), base |-> r.base,
                 seen |-> r.seen \cup Members(Page(page, r.size, r.exclude)),
                 cut |-> r.cut]
  <2> DEFINE d == Response(page, r.size, r.exclude)
  <2>1. d.total = Total(r.exclude) /\ d.records = Page(page, r.size, r.exclude)
    BY DEF Response
  <2>2. reader' = [r EXCEPT !.page = page, !.total = d.total,
                            !.seen = r.seen \cup Members(d.records)]
    BY DEF Loaded
  <2> HIDE DEF d
  <2>3. QED
    BY <2>1, <2>2 DEF IsReader
<1>2. /\ records' = records /\ added' = added /\ r.size \in Nat \ {0}
      /\ records \in Seq(Record) /\ Ordered(records)
  BY PageAssumption DEF storeVars, IInv, TypeOK, StoreTypeOK, InTime
<1>3. \A x, E : Newer(x, E)' = Newer(x, E)
  BY <1>2 DEF Newer, Members
<1>4. ASSUME ~r.cut, NEW x \in r.base \cap Members(records)
      PROVE  x \in reader'.seen \/ Ahead(x)'
  <2>1. CASE x \in r.seen
    BY <1>1, <2>1
  <2>2. CASE x \notin r.seen
    <3>1. (page - 1) * r.size <= Cardinality(Newer(x, r.exclude))
      BY <1>4, <2>2
    <3>2. x \in Members(records) /\ x.status \notin r.exclude
      BY <1>4
    <3>3. \/ x \in Members(Page(page, r.size, r.exclude))
          \/ /\ page * r.size <= Cardinality(Newer(x, r.exclude))
             /\ ~(page >= TotalPages(Total(r.exclude), r.size))
      BY <1>2, <3>1, <3>2, PageShows
    <3>4. Ahead(x)' <=> /\ page * r.size <= Cardinality(Newer(x, r.exclude))
                        /\ ~(page >= TotalPages(Total(r.exclude), r.size))
      BY <1>1, <1>3 DEF Ahead, LastPage, TotalPages
    <3>5. QED
      BY <1>1, <3>3, <3>4
  <2>3. QED
    BY <2>1, <2>2
<1>5. Members(records)' = Members(records)
  BY <1>2
<1>6. QED
  BY <1>1, <1>2, <1>4, <1>5 DEF ReaderOK

\* The page as Open leaves it to Loaded.
With(q, o, exclude, size, base) ==
    [q EXCEPT !.open = o, !.exclude = exclude, !.size = size, !.base = base]
Chosen(exclude, size, base) == With(Closed, TRUE, exclude, size, base)

LEMMA WithFields ==
  ASSUME NEW q, IsReader(q), NEW o, NEW exclude, NEW size, NEW base
  PROVE  LET r == With(q, o, exclude, size, base)
         IN  /\ r.open = o /\ r.exclude = exclude /\ r.size = size
             /\ r.base = base /\ r.seen = q.seen /\ r.cut = q.cut
BY DEF IsReader, With

LEMMA WithIsReader ==
  ASSUME NEW q, IsReader(q), NEW o, NEW exclude, NEW size, NEW base
  PROVE  IsReader(With(q, o, exclude, size, base))
<1>1. PICK r : r = With(q, o, exclude, size, base)
  OBVIOUS
<1>2. IsReader(r)
  BY <1>1 DEF IsReader, With
<1>3. QED
  BY <1>1, <1>2

LEMMA Opened ==
  ASSUME NEW exclude, NEW size, NEW base
  PROVE  LET r == Chosen(exclude, size, base)
         IN  /\ IsReader(r)
             /\ r.open /\ r.exclude = exclude /\ r.size = size
             /\ r.base = base /\ r.seen = {} /\ ~r.cut
<1>1. PICK q : q = Closed
  OBVIOUS
<1>2. IsReader(q)
  BY <1>1 DEF Closed, IsReader
<1>3. q.seen = {} /\ ~q.cut
  BY <1>1 DEF Closed
<1>4. PICK o : o = TRUE
  OBVIOUS
<1> DEFINE r == With(q, o, exclude, size, base)
<1>5. /\ IsReader(r)
      /\ r.open = o /\ r.exclude = exclude /\ r.size = size
      /\ r.base = base /\ r.seen = q.seen /\ r.cut = q.cut
  BY <1>2, WithFields, WithIsReader
<1>6. r = Chosen(exclude, size, base)
  BY <1>1, <1>4, Zenon DEF Chosen
<1> HIDE DEF r
<1>7. r.open /\ ~r.cut
  BY <1>3, <1>4, <1>5, Zenon
<1>8. QED
  BY <1>3, <1>5, <1>6, <1>7, Zenon

LEMMA OpenOK ==
  ASSUME IInv, InTime, Open
  PROVE  ReaderOK'
<1>1. PICK size \in PageSizes, exclude \in {{}, {AlreadyClaimed}} :
         reader' = Loaded([Closed EXCEPT
              !.open = TRUE, !.exclude = exclude, !.size = size,
              !.base = Members(filterRecordsLocked(records, exclude))], 1)
  BY DEF Open
<1> DEFINE kept == filterRecordsLocked(records, exclude)
           m == Members(kept)
           r == Chosen(exclude, size, m)
<1>2. reader' = Loaded(r, 1)
  BY <1>1 DEF Chosen, With
<1>3. /\ records \in Seq(Record) /\ size \in Nat \ {0} /\ Ordered(records)
      /\ DOMAIN records = 1 .. Len(records)
  BY PageAssumption, LenProperties DEF IInv, TypeOK, StoreTypeOK, InTime
<1>4. Members(kept) = {records[j] : j \in {k \in 1 .. Len(records) : records[k].status \notin exclude}}
  BY <1>3, FilterIs DEF SiftedWell
<1>5. \A x \in Members(kept) : x \in Members(records) /\ x.status \notin exclude
  BY <1>3, <1>4 DEF Members
<1>6. \A x \in Members(records) : x \in Record /\ x.n <= added
  BY <1>3, MembersFinite DEF InTime
<1>7. \A x \in Members(records) :
         (1 - 1) * size <= Cardinality(Newer(x, exclude))
  <2> TAKE x \in Members(records)
  <2>1. Newer(x, exclude) \in SUBSET Members(records)
    BY DEF Newer
  <2>2. Cardinality(Newer(x, exclude)) \in Nat
    BY <1>3, <2>1, MembersFinite, FS_Subset, FS_CardinalityType
  <2>3. (1 - 1) * size = 0
    BY <1>3
  <2>4. QED
    BY <2>2, <2>3
<1> HIDE DEF kept
<1>8. UNCHANGED <<storeVars, added>>
  BY DEF Open
<1> HIDE DEF m
<1>9. /\ IsReader(r)
      /\ r.open /\ r.exclude = exclude /\ r.size = size
      /\ r.base = m /\ r.seen = {} /\ ~r.cut
  BY Opened
<1> HIDE DEF r
<1>10. QED
  BY <1>1, <1>2, <1>5, <1>6, <1>7, <1>8, <1>9, LoadedOK DEF m

LEMMA NextPageOK ==
  ASSUME IInv, InTime, ReaderOK, IsReader(reader), NextPage
  PROVE  ReaderOK'
<1> DEFINE p == reader.page + 1
<1>1. reader.open /\ ~LastPage /\ reader' = Loaded(reader, p) /\ UNCHANGED <<storeVars, added>>
  BY DEF NextPage
<1>2. /\ reader.size \in PageSizes /\ reader.page \in Nat \ {0}
      /\ reader.base \subseteq Record
      /\ \A x \in reader.base : x.n <= added /\ x.status \notin reader.exclude
  BY <1>1 DEF ReaderOK
<1>3. p \in Nat \ {0} /\ p - 1 = reader.page
  BY <1>2
<1>4. ~reader.cut =>
         \A x \in reader.base \cap Members(records) :
            \/ x \in reader.seen
            \/ (p - 1) * reader.size <= Cardinality(Newer(x, reader.exclude))
  BY <1>1, <1>3 DEF ReaderOK, Ahead
<1> HIDE DEF p
<1>5. QED
  BY <1>1, <1>2, <1>3, <1>4, LoadedOK DEF IsReader

LEMMA ReaderStays ==
  ASSUME IInv, IsReader(reader), [Next]_vars
  PROVE  IsReader(reader)'
<1>1. CASE reader' = reader
  BY <1>1 DEF IsReader
<1>2. ASSUME NEW r, NEW page, reader' = Loaded(r, page),
             IsReader(r)
      PROVE  IsReader(reader)'
  BY <1>2 DEF Loaded, IsReader
<1>3. CASE Open
  <2>1. PICK size \in PageSizes, exclude \in {{}, {AlreadyClaimed}} :
           reader' = Loaded([Closed EXCEPT
              !.open = TRUE, !.exclude = exclude, !.size = size,
              !.base = Members(filterRecordsLocked(records, exclude))], 1)
    BY <1>3 DEF Open
  <2> DEFINE b == Members(filterRecordsLocked(records, exclude))
             r == Chosen(exclude, size, b)
  <2>2. reader' = Loaded(r, 1)
    BY <2>1 DEF Chosen, With
  <2> HIDE DEF b
  <2>3. IsReader(r)
    BY Opened
  <2> HIDE DEF r
  <2>4. QED
    BY <1>2, <2>2, <2>3
<1>4. CASE NextPage
  BY <1>2, <1>4 DEF NextPage, IsReader
<1>5. CASE Restart
  BY <1>5 DEF Restart, IsReader
<1>6. QED
  BY <1>1, <1>3, <1>4, <1>5 DEF Next, AddRecord, vars

-----------------------------------------------------------------------------
(* The store's steps *)

LEMMA AddInTime ==
  ASSUME IInv, InTime, AddRecord
  PROVE  InTime' /\
         \A E : \A x \in Members(records') :
            x.n <= added => x \in Members(records) /\ Newer(x, E) \subseteq Newer(x, E)'
<1>1. PICK status \in Statuses :
         LET r == [n |-> added + 1, status |-> status]
         IN  Add(r) /\ log' = Append(log, r)
  BY DEF AddRecord
<1> DEFINE r == [n |-> added + 1, status |-> status]
           s == Append(records, r)
<1>2. r \in Record /\ r.n = added + 1 /\ added' = added + 1 /\ added \in Nat
  BY PageAssumption DEF AddRecord, IInv, TypeOK
<1>3. records \in Seq(Record) /\ file \in Seq(Record)
  BY DEF IInv, TypeOK, StoreTypeOK
<1>4. records' = Newest(s)
  BY <1>1 DEF Add
<1>5. file' = records' \/ file' = file
  BY <1>1 DEF Add, saveLocked
<1> HIDE DEF r
<1>6. /\ s \in Seq(Record) /\ Len(s) = Len(records) + 1 /\ s[Len(records) + 1] = r
      /\ \A i \in 1 .. Len(records) : s[i] = records[i]
  BY <1>2, <1>3, AppendProperties
<1> HIDE DEF s
<1>7. /\ records' \in Seq(Record)
      /\ Len(records') = IF Len(s) < MaxRecords THEN Len(s) ELSE MaxRecords
      /\ \A i \in 1 .. Len(records') : records'[i] = s[Len(s) - Len(records') + i]
  BY <1>4, <1>6, NewestIs
<1> DEFINE L == Len(records)
           M == Len(records')
           d == L + 1 - M
<1>8. /\ L \in Nat /\ M \in Nat /\ M <= L + 1 /\ d \in Nat
      /\ DOMAIN records = 1 .. L /\ DOMAIN records' = 1 .. M
  <2>1. L \in Nat /\ M \in Nat /\ DOMAIN records = 1 .. L /\ DOMAIN records' = 1 .. M
    BY <1>3, <1>7, LenProperties
  <2>2. MaxRecords \in Nat
    BY StoreAssumption
  <2>3. M <= L + 1
    BY <1>6, <1>7, <2>1, <2>2
  <2>4. QED
    BY <2>1, <2>3
<1>9. \A i \in 1 .. M : records'[i] = s[d + i] /\ d + i \in 1 .. L + 1
  <2>1. \A i \in 1 .. M : records'[i] = s[d + i]
    BY <1>6, <1>7
  <2>2. \A i \in 1 .. M : d + i \in 1 .. L + 1
    BY <1>8
  <2>3. QED
    BY <2>1, <2>2
<1>10. \A q \in Record : q.n \in Int
  BY PageAssumption
<1>11. \A i \in 1 .. L : records[i] \in Record /\ records[i].n <= added /\ records[i].n < r.n
  <2> TAKE i \in 1 .. L
  <2>1. records[i] \in Record /\ records[i] \in Members(records)
    BY <1>3, <1>8 DEF Members
  <2>2. records[i].n <= added
    BY <2>1 DEF InTime
  <2>3. QED
    BY <1>2, <1>10, <2>1, <2>2
<1> DEFINE e == L + 1
<1>12. /\ \A i \in 1 .. e : i \in 1 .. L \/ i = e
       /\ s[e] = r /\ e \notin 1 .. L /\ Len(s) = e
       /\ \A i \in 1 .. L : s[i] = records[i] /\ i < e
  BY <1>6, <1>8
<1> HIDE DEF L, M, d
<1>13. ASSUME NEW i \in 1 .. e, NEW j \in 1 .. e, i < j
       PROVE  s[i].n < s[j].n
  <2>1. i \in 1 .. L
    BY <1>8, <1>13
  <2>2. CASE j = e
    BY <1>11, <1>12, <2>1, <2>2
  <2>3. CASE j \in 1 .. L
    <3>1. records[i].n < records[j].n
      BY <1>13, <2>1, <2>3 DEF InTime, Ordered, L
    <3>2. QED
      BY <1>12, <2>1, <2>3, <3>1
  <2>4. QED
    BY <1>12, <2>2, <2>3
<1>14. Ordered(records')
  <2>1. ASSUME NEW i \in 1 .. M, NEW j \in 1 .. M, i < j
        PROVE  records'[i].n < records'[j].n
    <3>1. d + i < d + j
      BY <1>8, <2>1
    <3>2. QED
      BY <1>9, <1>13, <3>1
  <2>2. QED
    BY <2>1 DEF Ordered, M
<1>15. \A x \in Members(records') : x = r \/ x \in Members(records)
  <2> TAKE x \in Members(records')
  <2>1. PICK i \in 1 .. M : x = records'[i]
    BY <1>8 DEF Members
  <2>2. CASE d + i = e
    BY <1>9, <1>12, <2>1, <2>2
  <2>3. CASE d + i \in 1 .. L
    <3>1. x = records[d + i]
      BY <1>9, <1>12, <2>1, <2>3
    <3>2. QED
      BY <1>8, <2>3, <3>1 DEF Members
  <2>4. QED
    BY <1>9, <1>12, <2>2, <2>3
<1>16. \A x \in Members(records') : x.n <= added'
  <2> TAKE x \in Members(records')
  <2>1. CASE x = r
    BY <1>2, <2>1
  <2>2. CASE x \in Members(records)
    <3>1. x \in Record /\ x.n <= added
      BY <1>3, <2>2, MembersFinite DEF InTime
    <3>2. QED
      BY <1>2, <1>10, <3>1
  <2>3. QED
    BY <1>15, <2>1, <2>2
<1>17. \A x \in Members(file) : x.n <= added'
  <2> TAKE x \in Members(file)
  <2>1. x \in Record /\ x.n <= added
    BY <1>3, MembersFinite DEF InTime
  <2>2. QED
    BY <1>2, <1>10, <2>1
<1>18. InTime'
  <2>1. CASE file' = records'
    BY <1>14, <1>16, <2>1 DEF InTime
  <2>2. CASE file' = file
    BY <1>14, <1>16, <1>17, <2>2 DEF InTime
  <2>3. QED
    BY <1>5, <2>1, <2>2
<1>19. ASSUME NEW x \in Members(records'), x.n <= added
       PROVE  x \in Members(records)
  <2>1. x # r
    BY <1>2, <1>19
  <2>2. QED
    BY <1>15, <2>1
<1>20. ASSUME NEW x \in Members(records'), x.n <= added, NEW y \in Members(records), y.n > x.n
       PROVE  y \in Members(records')
  <2>1. PICK i \in 1 .. M : x = records'[i]
    BY <1>8 DEF Members
  <2>2. PICK j \in 1 .. L : y = records[j]
    BY <1>8 DEF Members
  <2>3. x \in Record /\ y \in Record
    BY <1>3, <1>7, MembersFinite
  <2>4. x = s[d + i] /\ y = s[j] /\ d + i \in 1 .. e /\ j \in 1 .. e
    BY <1>8, <1>9, <1>12, <2>1, <2>2
  <2>5. ~(j < d + i)
    <3> SUFFICES ASSUME j < d + i PROVE FALSE
      OBVIOUS
    <3>1. s[j].n < s[d + i].n
      BY <1>13, <2>4
    <3>2. QED
      BY <1>10, <1>20, <2>3, <2>4, <3>1
  <2>6. j - d \in 1 .. M /\ d + (j - d) = j
    <3>1. j \in Int /\ 1 <= j /\ j <= L /\ i \in Int /\ 1 <= i /\ i <= M
      BY <1>8, <2>1, <2>2
    <3>2. d \in Int /\ d = L + 1 - M
      BY <1>8 DEF d
    <3>3. QED
      BY <1>8, <2>5, <3>1, <3>2
  <2>7. records'[j - d] = y
    BY <1>9, <2>4, <2>6
  <2>8. QED
    BY <1>8, <2>6, <2>7 DEF Members
<1>21. QED
  BY <1>18, <1>19, <1>20 DEF Newer

LEMMA AddWalks ==
  ASSUME IInv, WalkInv, AddRecord
  PROVE  WalkInv'
<1>1. InTime' /\ \A E : \A x \in Members(records') :
         x.n <= added => x \in Members(records) /\ Newer(x, E) \subseteq Newer(x, E)'
  BY AddInTime DEF WalkInv
<1>2. reader' = reader /\ added' = added + 1 /\ added \in Nat
  BY PageAssumption DEF AddRecord, IInv, TypeOK
<1>3. ASSUME reader.open PROVE ReaderOK'
  <2>1. /\ reader.size \in PageSizes /\ reader.page \in Nat \ {0}
        /\ reader.base \subseteq Record
        /\ \A x \in reader.base : x.n <= added /\ x.status \notin reader.exclude
    BY <1>3 DEF WalkInv, ReaderOK
  <2>2. \A x \in reader.base : x.n <= added'
    <3>1. \A x \in reader.base : x.n \in Int
      BY <2>1, PageAssumption
    <3>2. QED
      BY <1>2, <2>1, <3>1
  <2>3. ASSUME ~reader.cut, NEW x \in reader.base, x \in Members(records')
        PROVE  x \in reader.seen \/ Ahead(x)'
    <3>1. PICK E : E = reader.exclude
      OBVIOUS
    <3>2. x \in Members(records) /\ Newer(x, E) \subseteq Newer(x, E)'
      BY <1>1, <2>1, <2>3
    <3> SUFFICES ASSUME x \notin reader.seen PROVE Ahead(x)'
      BY <1>2
    <3>3. Ahead(x)
      BY <1>3, <2>3, <3>2 DEF WalkInv, ReaderOK
    <3> DEFINE A == reader.page * reader.size
               c == Cardinality(Newer(x, E))
               d == Cardinality(Newer(x, E)')
    <3>4. records' \in Seq(Record)
      BY AddRecordOK DEF IInv, TypeOK, StoreTypeOK
    <3>5. Newer(x, E)' \in SUBSET Members(records')
      BY DEF Newer
    <3>6. IsFiniteSet(Newer(x, E)')
      BY <3>4, <3>5, MembersFinite, FS_Subset
    <3>7. c <= d /\ IsFiniteSet(Newer(x, E))
      BY <3>2, <3>6, FS_Subset
    <3>8. c \in Nat /\ d \in Nat
      BY <3>6, <3>7, FS_CardinalityType
    <3>9. A \in Int
      <4>1. reader.size \in Nat \ {0} /\ reader.page \in Int
        BY <2>1, PageAssumption, Positive
      <4>2. QED
        BY <4>1, Multiples
    <3>10. A <= c /\ ~LastPage
      BY <3>1, <3>3 DEF Ahead
    <3>11. A <= d
      <4> HIDE DEF A, c, d
      <4>1. QED
        BY <3>7, <3>8, <3>9, <3>10
    <3>12. ~LastPage'
      BY <1>2, <3>10 DEF LastPage
    <3>13. QED
      BY <1>2, <3>1, <3>11, <3>12 DEF Ahead, Newer
  <2>4. QED
    BY <1>2, <1>3, <2>1, <2>2, <2>3 DEF ReaderOK
<1>4. ReaderOK'
  BY <1>2, <1>3 DEF ReaderOK
<1>5. QED
  BY <1>1, <1>4 DEF WalkInv

LEMMA RestartWalks ==
  ASSUME IInv, WalkInv, IsReader(reader), Restart
  PROVE  WalkInv'
<1>1. /\ records' = Newest(file) /\ file' = file /\ added' = added
      /\ reader' = [reader EXCEPT !.cut = reader.cut \/ ~durable]
  BY DEF Restart, Load
<1>2. /\ file \in Seq(Record) /\ Len(file) <= MaxRecords
      /\ Len(file) \in Nat /\ MaxRecords \in Nat
  BY LenProperties, StoreAssumption DEF IInv, TypeOK, StoreTypeOK
<1>3. records' = file
  BY <1>1, <1>2 DEF Newest
<1>4. InTime'
  BY <1>1, <1>3 DEF WalkInv, InTime, Ordered
<1>5. /\ reader'.open = reader.open /\ reader'.size = reader.size
      /\ reader'.page = reader.page /\ reader'.base = reader.base
      /\ reader'.seen = reader.seen /\ reader'.exclude = reader.exclude
      /\ reader'.total = reader.total
      /\ reader'.cut <=> (reader.cut \/ ~durable)
  BY <1>1 DEF IsReader
<1>6. ASSUME reader.open PROVE ReaderOK'
  <2>1. CASE ~durable
    BY <1>1, <1>5, <1>6, <2>1 DEF WalkInv, ReaderOK
  <2>2. CASE durable
    <3>1. records' = records /\ (~reader'.cut => ~reader.cut)
      BY <1>3, <1>5, <2>2 DEF IInv
    <3>2. Members(records') = Members(records) /\ \A x, E : Newer(x, E)' = Newer(x, E)
      BY <3>1 DEF Newer, Members
    <3>3. \A x : Ahead(x)' <=> Ahead(x)
      BY <1>5, <3>2 DEF Ahead, LastPage, TotalPages
    <3>4. QED
      BY <1>1, <1>5, <1>6, <3>1, <3>2, <3>3 DEF WalkInv, ReaderOK
  <2>3. QED
    BY <2>1, <2>2
<1>7. ReaderOK'
  BY <1>5, <1>6 DEF ReaderOK
<1>8. QED
  BY <1>4, <1>7 DEF WalkInv

-----------------------------------------------------------------------------
(* The invariant of the walk *)

Inv == IInv /\ IsReader(reader) /\ WalkInv

LEMMA InvInit == Init => Inv
<1> SUFFICES ASSUME Init PROVE Inv
  OBVIOUS
<1>1. IInv
  BY InitOK
<1>2. records = <<>> /\ file = <<>> /\ reader = Closed
  BY DEF Init, StoreInit
<1>3. IsReader(reader) /\ ~reader.open
  BY <1>2 DEF Closed, IsReader
<1>4. Len(<<>>) = 0 /\ DOMAIN <<>> = {} /\ 1 .. 0 = {}
  OBVIOUS
<1>5. InTime
  BY <1>2, <1>4 DEF InTime, Ordered, Members
<1>6. ReaderOK
  BY <1>3 DEF ReaderOK
<1>7. QED
  BY <1>1, <1>3, <1>5, <1>6 DEF Inv, WalkInv

LEMMA InvNext ==
  ASSUME Inv, [Next]_vars
  PROVE  Inv'
<1>1. IInv /\ IsReader(reader) /\ WalkInv /\ InTime /\ ReaderOK
  BY DEF Inv, WalkInv
<1>2. IInv'
  BY <1>1, NextOK
<1>3. IsReader(reader)'
  BY <1>1, ReaderStays
<1>4. WalkInv'
  <2>1. CASE AddRecord
    BY <1>1, <2>1, AddWalks
  <2>2. CASE Restart
    BY <1>1, <2>2, RestartWalks
  <2>3. ASSUME UNCHANGED <<storeVars, added>> PROVE InTime'
    BY <1>1, <2>3 DEF InTime, Ordered, Members, storeVars
  <2>4. CASE Open
    <3>1. UNCHANGED <<storeVars, added>>
      BY <2>4 DEF Open
    <3>2. QED
      BY <1>1, <2>3, <2>4, <3>1, OpenOK DEF WalkInv
  <2>5. CASE NextPage
    <3>1. UNCHANGED <<storeVars, added>>
      BY <2>5 DEF NextPage
    <3>2. QED
      BY <1>1, <2>3, <2>5, <3>1, NextPageOK DEF WalkInv
  <2>6. CASE UNCHANGED vars
    <3>1. UNCHANGED <<storeVars, added>> /\ records' = records /\ added' = added
          /\ reader' = reader
      BY <2>6 DEF vars, storeVars
    <3>2. Members(records)' = Members(records) /\ \A x : Ahead(x)' <=> Ahead(x)
      BY <3>1 DEF Ahead, LastPage, Newer, Members
    <3>3. ReaderOK'
      BY <1>1, <3>1, <3>2 DEF ReaderOK
    <3>4. QED
      BY <2>3, <3>1, <3>3 DEF WalkInv
  <2>7. QED
    BY <2>1, <2>2, <2>4, <2>5, <2>6 DEF Next
<1>5. QED
  BY <1>2, <1>3, <1>4 DEF Inv

-----------------------------------------------------------------------------
(* The theorems *)

\* Store: the list and the file keep their types and never hold more than
\* MaxRecords records.
THEOREM StoreBounded == Spec => []TypeOK
<1>1. IInv => TypeOK
  BY DEF IInv
<1>2. QED
  BY <1>1, InitOK, NextOK, PTL DEF Spec

\* Add, Load: the list is the newest check-ins of all there were.
THEOREM StoreKeepsNewest == Spec => []NewestKept
<1>1. IInv => NewestKept
  BY DEF IInv
<1>2. QED
  BY <1>1, InitOK, NextOK, PTL DEF Spec

\* Page: whatever the page size and the filter, the pages hold each of the
\* records that pass once, and the page after the last none.
THEOREM PagesHoldEach == Spec => []PagesPartition
<1>1. ASSUME IInv PROVE PagesPartition
  <2>1. records \in Seq(Record) /\ \A size \in PageSizes : size \in Nat \ {0}
    BY <1>1, PageAssumption DEF IInv, TypeOK, StoreTypeOK
  <2>2. QED
    <3>1. ASSUME NEW size \in PageSizes, NEW exclude
          PROVE  LET kept == filterRecordsLocked(records, exclude)
                     pages == TotalPages(Total(exclude), size)
                 IN  /\ Page(pages + 1, size, exclude) = <<>>
                     /\ \A i \in 1 .. Len(kept) :
                           \E page \in 1 .. pages :
                               LET at == i - (page - 1) * size
                               IN  /\ at \in DOMAIN Page(page, size, exclude)
                                   /\ Page(page, size, exclude)[at]
                                         = kept[Len(kept) + 1 - i]
                     /\ \A page \in 1 .. pages :
                           Len(Page(page, size, exclude)) =
                               IF page < pages THEN size
                               ELSE Len(kept) - (pages - 1) * size
      <4>1. size \in Nat \ {0}
        BY <2>1
      <4>2. QED
        BY <2>1, <4>1, PagesOK
    <3>2. QED
      BY <3>1, Zenon DEF PagesPartition
<1>2. QED
  BY <1>1, InitOK, NextOK, PTL DEF Spec

\* loadCheckins: a reader at the last page has seen every record that was
\* there from the first, although check-ins move the pages on meanwhile.
THEOREM WalkSeesAll == Spec => []WalkMissesNothing
<1>1. ASSUME Inv PROVE WalkMissesNothing
  BY <1>1 DEF Inv, WalkInv, ReaderOK, Ahead, WalkMissesNothing
<1>2. QED
  BY <1>1, InvInit, InvNext, PTL DEF Spec
=============================================================================
