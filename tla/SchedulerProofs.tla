--------------------------- MODULE SchedulerProofs ---------------------------
(***************************************************************************)
(* For any number of loops and administrators, any hours and any task      *)
(* durations: no change of the settings is lost between two waits of a     *)
(* loop (NoChangeMissed), no loop runs an hour's tasks twice (NoHourTwice) *)
(* or passes over an hour while it waits (EveryHourRuns), and a restart    *)
(* brings back the settings last saved (RestartKeepsSettings) - the latter *)
(* as long as the configuration has no model refresh hours, which a reset  *)
(* forgets.                                                                *)
(***************************************************************************)
EXTENDS Scheduler, WellFoundedInduction, TLAPS

-----------------------------------------------------------------------------
(* Settings and their file *)

\* FormatInterval and ParseInterval are inverse on what Set is given.
LEMMA IntervalRoundTrip ==
  ASSUME NEW d \in Intervals
  PROVE  ParseInterval(FormatInterval(d)) = d
<1>1. d \in Nat /\ (d = 0 \/ d >= 60)
  BY SettingsAssumption
<1>2. CASE d = 0
  BY <1>2 DEF ParseInterval, FormatInterval, Off
<1>3. CASE d >= 60
  <2> DEFINE h == d \div 3600
             m == (d % 3600) \div 60
             s == d % 60
  <2>1. h * 3600 + m * 60 + s = d
    BY <1>1
  <2>2. FormatInterval(d) = [h |-> h, m |-> m, s |-> s]
    BY <1>1, <1>3 DEF FormatInterval
  <2> HIDE DEF h, m, s
  <2>3. [h |-> h, m |-> m, s |-> s] # Off
    BY <1>3, <2>1 DEF Off
  <2>4. QED
    BY <1>1, <1>3, <2>1, <2>2, <2>3 DEF ParseInterval
<1>4. QED
  BY <1>1, <1>2, <1>3

LEMMA IntervalOnDisk ==
  ASSUME NEW d \in Intervals
  PROVE  FormatInterval(d) \in [h : Nat, m : 0 .. 59, s : 0 .. 59]
<1>1. d \in Nat
  BY SettingsAssumption
<1>2. d \div 3600 \in Nat /\ (d % 3600) \div 60 \in 0 .. 59 /\ d % 60 \in 0 .. 59
  BY <1>1
<1>3. QED
  BY <1>1, <1>2 DEF FormatInterval, Off

\* What is saved is what is loaded.
LEMMA FileRoundTrip ==
  ASSUME NEW s \in Setting
  PROVE  fileFormat(s) \in FileDoc /\ Loaded(fileFormat(s)) = s
<1> DEFINE f == fileFormat(s)
<1>1. s.every \in Intervals
  BY DEF Setting
<1>2. f.every = FormatInterval(s.every) /\ f \in FileDoc
  BY <1>1, IntervalOnDisk DEF Setting, FileDoc, fileFormat
<1>3. ParseInterval(f.every) = s.every
  BY <1>1, <1>2, IntervalRoundTrip
<1>4. s.every # Invalid
  BY <1>1, SettingsAssumption DEF Invalid
<1>5. f # NoFile
  BY <1>2, NoFileAssumption
<1>6. Loaded(f) = [f EXCEPT !.every = s.every]
  BY <1>3, <1>4, <1>5 DEF Loaded
<1>7. [f EXCEPT !.every = s.every] = s
  BY DEF fileFormat, Setting
<1>8. QED
  BY <1>2, <1>6, <1>7

\* The file is one a save has written.
FileOK == file = NoFile \/ \E s \in Setting : file = fileFormat(s)

SettingsInv == SettingsTypeOK /\ FileOK

LEMMA DefaultsType == Defaults \in Setting
  BY SettingsAssumption DEF Defaults, Setting

LEMMA LoadedType ==
  ASSUME FileOK
  PROVE  Loaded(file) \in Setting /\ file \in FileDoc \cup {NoFile}
<1>1. CASE file = NoFile
  BY <1>1, SettingsAssumption DEF Loaded
<1>2. ASSUME NEW s \in Setting, file = fileFormat(s)
      PROVE  Loaded(file) \in Setting /\ file \in FileDoc \cup {NoFile}
  BY <1>2, FileRoundTrip
<1>3. QED
  BY <1>1, <1>2 DEF FileOK

LEMMA SaveOK ==
  ASSUME SettingsInv, NEW s \in Setting, saveLocked(s), settings' = s
  PROVE  /\ FileOK' /\ file' \in FileDoc \cup {NoFile} /\ durable' \in BOOLEAN
         /\ RestartKeepsSettings'
<1>1. CASE file' = fileFormat(s) /\ durable' = TRUE
  BY <1>1, FileRoundTrip DEF FileOK, RestartKeepsSettings
<1>2. CASE file' = file /\ durable' = FALSE
  BY <1>2 DEF SettingsInv, SettingsTypeOK, FileOK, RestartKeepsSettings
<1>3. QED
  BY <1>1, <1>2 DEF saveLocked

LEMMA NotifyOK ==
  ASSUME SettingsTypeOK, Notify
  PROVE  ch' \in 0 .. MaxChanges /\ ch' = ch + 1
  BY SettingsAssumption DEF SettingsTypeOK, Notify

LEMMA CompleteRequest ==
  ASSUME SettingsTypeOK, NEW c \in Requested
  PROVE  [c EXCEPT !.every = Interval(c)] \in Setting
<1>1. Interval(c) \in Intervals
  BY SettingsAssumption DEF Interval, SettingsTypeOK, Setting
<1>2. QED
  BY <1>1, SettingsAssumption DEF Setting

LEMMA SettingsStep ==
  ASSUME SettingsInv, RestartKeepsSettings,
         AdminStep \/ SettingsRestart
  PROVE  SettingsInv' /\ RestartKeepsSettings'
<1>1. ASSUME NEW a \in Admins, AdminGet(a)
      PROVE  SettingsInv' /\ RestartKeepsSettings'
  <2>1. PICK c \in Requested :
          admin' = [admin EXCEPT ![a] =
              [pc |-> "set", new |-> [c EXCEPT !.every = Interval(c)]]]
    BY <1>1 DEF AdminGet
  <2>2. [c EXCEPT !.every = Interval(c)] \in Setting
    BY CompleteRequest DEF SettingsInv
  <2>4. admin' \in [Admins -> [pc : {"idle", "set"}, new : Setting]]
    BY <2>1, <2>2 DEF SettingsInv, SettingsTypeOK
  <2>5. UNCHANGED <<settings, ch, file, durable>>
    BY <1>1 DEF AdminGet
  <2>6. QED
    BY <2>4, <2>5 DEF SettingsInv, SettingsTypeOK, FileOK, RestartKeepsSettings
<1>2. ASSUME NEW a \in Admins, AdminSet(a)
      PROVE  SettingsInv' /\ RestartKeepsSettings'
  <2>1. admin[a].new \in Setting
    BY DEF SettingsInv, SettingsTypeOK
  <2>2. settings' = admin[a].new /\ Notify /\ saveLocked(admin[a].new)
    BY <1>2 DEF AdminSet, Set
  <2>3. FileOK' /\ file' \in FileDoc \cup {NoFile} /\ durable' \in BOOLEAN
        /\ RestartKeepsSettings'
    BY <2>1, <2>2, SaveOK
  <2>4. ch' \in 0 .. MaxChanges
    BY <2>2, NotifyOK DEF SettingsInv
  <2>5. IdleAdmin \in [pc : {"idle", "set"}, new : Setting]
    BY SettingsAssumption DEF IdleAdmin
  <2>6. admin' \in [Admins -> [pc : {"idle", "set"}, new : Setting]]
    BY <1>2, <2>5 DEF AdminSet, SettingsInv, SettingsTypeOK
  <2>7. QED
    BY <2>1, <2>2, <2>3, <2>4, <2>6 DEF SettingsInv, SettingsTypeOK
<1>3. ASSUME NEW a \in Admins, Reset(a)
      PROVE  SettingsInv' /\ RestartKeepsSettings'
  <2>1. settings' \in Setting /\ settings' = Defaults
    BY <1>3, DefaultsType DEF Reset
  <2>2. file' = NoFile /\ durable' = TRUE /\ admin' = admin
    BY <1>3 DEF Reset
  <2>3. ch' \in 0 .. MaxChanges
    BY <1>3, NotifyOK DEF Reset, SettingsInv
  <2>4. QED
    BY <2>1, <2>2, <2>3
    DEF SettingsInv, SettingsTypeOK, FileOK, RestartKeepsSettings
<1>4. CASE SettingsRestart
  <2>1. settings' = Loaded(file) /\ file' = file /\ ch' = 0 /\ durable' = TRUE
    BY <1>4 DEF SettingsRestart
  <2>2. settings' \in Setting /\ file' \in FileDoc \cup {NoFile}
    BY <2>1, LoadedType DEF SettingsInv
  <2>3. IdleAdmin \in [pc : {"idle", "set"}, new : Setting]
    BY SettingsAssumption DEF IdleAdmin
  <2>4. admin' \in [Admins -> [pc : {"idle", "set"}, new : Setting]]
    BY <1>4, <2>3 DEF SettingsRestart
  <2>5. ch' \in 0 .. MaxChanges
    BY <2>1, SettingsAssumption
  <2>6. QED
    BY <2>1, <2>2, <2>4, <2>5
    DEF SettingsInv, SettingsTypeOK, FileOK, RestartKeepsSettings
<1>5. QED
  BY <1>1, <1>2, <1>3, <1>4 DEF AdminStep

-----------------------------------------------------------------------------
(* The calendar: a tick on the hour is its midnight plus its hour *)

LEMMA Division ==
  ASSUME NEW t \in Nat, NEW d \in Nat \ {0}
  PROVE  /\ t \div d \in Nat /\ t % d \in 0 .. d - 1
         /\ t = d * (t \div d) + (t % d)
  OBVIOUS

LEMMA Multiples ==
  ASSUME NEW d \in Nat \ {0}, NEW i \in Int, NEW j \in Int
  PROVE  /\ d * i \in Int /\ d * j \in Int
         /\ i < j => d * i + d <= d * j
         /\ j < i => d * j + d <= d * i
  OBVIOUS

\* What is left of whole hours is whole hours.
LEMMA WholeRest ==
  ASSUME NEW g \in Nat \ {0}, NEW i \in Int, NEW h \in Int, NEW e \in 0 .. g - 1,
         g * i = g * h + e
  PROVE  e = 0
<1>1. i = h \/ i < h \/ h < i
  OBVIOUS
<1>2. QED
  BY <1>1, Multiples

LEMMA OnTheHourParts ==
  ASSUME NEW x \in Nat, OnTheHour(x)
  PROVE  Midnight(x) + Hour(x) * TicksPerHour = x
<1> DEFINE D == DayTicks
           G == TicksPerHour
           K == D \div G
           b == x \div G
           q == x \div D
           r == x % D
           h == r \div G
           e == r % G
<1>1. D \in Nat \ {0} /\ G \in Nat \ {0}
  BY SchedulerAssumption
<1>2. K \in Nat /\ D = G * K
  <2>1. D % G = 0
    BY WholeHoursAssumption
  <2>2. K \in Nat /\ D = G * K + (D % G)
    BY <1>1, Division
  <2> HIDE DEF K, D, G
  <2>3. QED
    BY <1>1, <2>1, <2>2
<1>3. b \in Nat /\ x = G * b
  BY <1>1, Division DEF OnTheHour
<1>4. q \in Nat /\ r \in 0 .. D - 1 /\ x = D * q + r
  BY <1>1, Division
<1>5. r \in Nat
  BY <1>1, <1>4
<1>6. h \in Nat /\ e \in 0 .. G - 1 /\ r = G * h + e
  BY <1>1, <1>5, Division
<1>7. Midnight(x) = x - r /\ Hour(x) = h
  BY DEF Midnight, Hour
<1> HIDE DEF D, G, K, b, q, r, h, e
<1>8. G * (b - K * q) = G * h + e
  <2>1. K * q \in Nat /\ G * K * q = G * (K * q)
    BY <1>1, <1>2, <1>4
  <2>2. G * (b - K * q) = G * b - G * (K * q)
    BY <1>1, <1>3, <2>1
  <2>3. G * b = G * (K * q) + G * h + e
    <3>1. D * q = G * (K * q)
      BY <1>2, <2>1
    <3>2. G * (K * q) \in Int /\ G * h \in Int /\ e \in Int
      BY <1>1, <1>6, <2>1
    <3>3. QED
      BY <1>3, <1>4, <1>6, <3>1, <3>2
  <2>4. G * (K * q) \in Int /\ G * h \in Int /\ e \in Int
    BY <1>1, <1>6, <2>1
  <2>5. QED
    BY <2>2, <2>3, <2>4
<1>9. b - K * q \in Int
  BY <1>2, <1>3, <1>4
<1>10. e = 0
  <2> DEFINE i == b - K * q
  <2>1. i \in Int /\ h \in Int /\ G * i = G * h + e
    BY <1>6, <1>8, <1>9
  <2> HIDE DEF i
  <2>2. QED
    BY <1>1, <1>6, <2>1, WholeRest
<1>11. QED
  <2>1. h * G = G * h /\ G * h \in Int
    BY <1>1, <1>6
  <2>2. Midnight(x) + h * G = x
    BY <1>3, <1>5, <1>6, <1>7, <1>10, <2>1
  <2>3. QED
    BY <1>7, <2>2 DEF G

\* A later day begins a whole day later or more.
LEMMA LaterDay ==
  ASSUME NEW t \in Nat, NEW x \in Nat, t < x
  PROVE  /\ Midnight(t) \in Int /\ Midnight(x) \in Int
         /\ Midnight(x) = Midnight(t) \/ Midnight(t) + DayTicks <= Midnight(x)
<1> DEFINE D == DayTicks
           p == t \div D
           q == x \div D
<1>1. D \in Nat \ {0}
  BY SchedulerAssumption
<1>2. /\ p \in Nat /\ t % D \in 0 .. D - 1 /\ t = D * p + (t % D)
      /\ q \in Nat /\ x % D \in 0 .. D - 1 /\ x = D * q + (x % D)
  BY <1>1, Division
<1>3. D * p \in Int /\ D * q \in Int /\ Midnight(t) = D * p /\ Midnight(x) = D * q
  BY <1>1, <1>2 DEF Midnight
<1>4. /\ p < q => D * p + D <= D * q
      /\ q < p => D * q + D <= D * p
  BY <1>1, <1>2, Multiples
<1>5. p = q \/ p < q \/ q < p
  BY <1>2
<1> HIDE DEF D, p, q
<1>6. ~(q < p)
  BY <1>1, <1>2, <1>3, <1>4
<1>7. QED
  BY <1>3, <1>4, <1>5, <1>6 DEF D

-----------------------------------------------------------------------------
(* nextFire *)

\* Min is the least element of a set of times.
LEMMA MinOfTimes ==
  ASSUME NEW S \in SUBSET Nat, S # {}
  PROVE  Min(S) \in S /\ \A y \in S : Min(S) <= y
<1>1. \E x \in S : \A y \in S : ~(<<y, x>> \in OpToRel(<, Nat))
  BY NatLessThanWellFounded, WFMin
<1>2. PICK x \in S : \A y \in S : ~(<<y, x>> \in OpToRel(<, Nat))
  BY <1>1
<1>3. ASSUME NEW y \in S PROVE x <= y
  <2>1. ~(<<y, x>> \in {ss \in Nat \X Nat : ss[1] < ss[2]})
    BY <1>2 DEF OpToRel
  <2>2. x \in Nat /\ y \in Nat
    OBVIOUS
  <2>3. QED
    BY <2>1, <2>2
<1>4. QED
  BY <1>3 DEF Min

LEMMA TodayOrLater ==
  ASSUME NEW t \in Nat, NEW h \in Hours
  PROVE  LET d == Midnight(t) + h * TicksPerHour
         IN  d \in Int /\ d + DayTicks > t
<1> DEFINE r == t % DayTicks
           k == h * TicksPerHour
<1>1. DayTicks \in Nat \ {0}
  BY SchedulerAssumption
<1>2. h \in Nat /\ TicksPerHour \in Nat
  BY SchedulerAssumption
<1>3. k \in Nat
  BY <1>2
<1>4. r \in 0 .. DayTicks - 1
  BY <1>1
<1>5. Midnight(t) = t - r
  BY DEF Midnight
<1> HIDE DEF r, k
<1>6. Midnight(t) + k \in Int /\ Midnight(t) + k + DayTicks > t
  BY <1>1, <1>3, <1>4, <1>5
<1>7. QED
  BY <1>6 DEF k

\* The next hour is still to come.
LEMMA NextFireLater ==
  ASSUME NEW t \in Nat, NEW hours \in SUBSET Hours
  PROVE  \/ nextFire(t, hours) = Never
         \/ nextFire(t, hours) \in Nat /\ nextFire(t, hours) > t
<1> DEFINE At(h) == LET d == Midnight(t) + h * TicksPerHour
                    IN  IF d <= t THEN d + DayTicks ELSE d
           S == {At(h) : h \in hours}
<1>1. CASE hours = {}
  BY <1>1 DEF nextFire
<1>2. CASE hours # {}
  <2>1. \A h \in hours : At(h) \in Nat /\ At(h) > t
    BY TodayOrLater, SchedulerAssumption
  <2>2. nextFire(t, hours) = Min(S)
    BY <1>2 DEF nextFire
  <2> HIDE DEF At
  <2>3. S \in SUBSET Nat /\ S # {} /\ \A x \in S : x > t
    BY <1>2, <2>1
  <2> HIDE DEF S
  <2>4. QED
    BY <2>2, <2>3, MinOfTimes
<1>3. QED
  BY <1>1, <1>2

\* The hour nextFire finds is not after the next hour of a task.
LEMMA NextFireBefore ==
  ASSUME NEW t \in Nat, NEW hours \in SUBSET Hours, NEW x \in Nat, t < x,
         OnTheHour(x), Hour(x) \in hours
  PROVE  nextFire(t, hours) \in Nat /\ nextFire(t, hours) <= x
<1> DEFINE At(h) == LET d == Midnight(t) + h * TicksPerHour
                    IN  IF d <= t THEN d + DayTicks ELSE d
           S == {At(h) : h \in hours}
           hx == Hour(x)
<1>1. nextFire(t, hours) = Min(S)
  BY DEF nextFire
<1>2. \A h \in hours : At(h) \in Nat
  BY TodayOrLater, SchedulerAssumption
<1>3. At(hx) <= x
  <2> DEFINE k == hx * TicksPerHour
             d == Midnight(t) + k
  <2>1. hx \in Nat /\ DayTicks \in Nat /\ TicksPerHour \in Nat
    <3>1. hx \in Hours
      OBVIOUS
    <3> HIDE DEF hx
    <3>2. QED
      BY <3>1, SchedulerAssumption
  <2>2. k \in Int
    BY <2>1
  <2>3. Midnight(x) + k = x
    BY OnTheHourParts
  <2>4. At(hx) = IF d <= t THEN d + DayTicks ELSE d
    OBVIOUS
  <2> HIDE DEF At, k, hx
  <2>5. /\ Midnight(t) \in Int /\ Midnight(x) \in Int
        /\ Midnight(x) = Midnight(t) \/ Midnight(t) + DayTicks <= Midnight(x)
    BY LaterDay
  <2>6. QED
    BY <2>1, <2>2, <2>3, <2>4, <2>5
<1>4. hx \in hours
  OBVIOUS
<1> HIDE DEF At, hx
<1>5. S \in SUBSET Nat /\ S # {} /\ At(hx) \in S
  BY <1>2, <1>4
<1> HIDE DEF S
<1>6. Min(S) \in S /\ Min(S) <= At(hx)
  BY <1>5, MinOfTimes
<1>7. Min(S) \in Nat /\ At(hx) \in Nat
  BY <1>5, <1>6
<1> DEFINE m == Min(S)
           a == At(hx)
<1> HIDE DEF m, a
<1>8. m \in Nat /\ a \in Nat /\ m <= a /\ a <= x /\ nextFire(t, hours) = m
  BY <1>1, <1>3, <1>6, <1>7 DEF m, a
<1>9. QED
  BY <1>8

-----------------------------------------------------------------------------
(* The loops *)

Pcs == {"off", "compute", "select", "tasks"}

\* What loop l knows with locals r, when s is in force, c is the channel, f
\* the hours run.
LocalOK(l, r, s, c, f) ==
    /\ {"pc", "cur", "ch", "hourNext", "creditNext", "creditDue", "until"} \subseteq DOMAIN r
    /\ r.pc \in Pcs
    /\ r.cur \in Setting
    /\ r.ch \in 0 .. c
    /\ r.pc # "off" /\ r.ch = c => r.cur = s
    /\ r.pc = "select" => r.hourNext \in Int /\ <<l, r.hourNext>> \notin f

LoopsOK ==
    /\ DOMAIN loop = Loops
    /\ \A l \in Loops : LocalOK(l, loop[l], settings, ch, fired)

\* Hours are run when they have come.
FiredOK == \A l, x : <<l, x>> \in fired => x \in Int /\ x # Never /\ x <= now

IInv ==
    /\ SettingsInv
    /\ RestartKeepsSettings
    /\ now \in Nat
    /\ LoopsOK
    /\ FiredOK

\* Loop l moves to locals r; the settings stay.
LEMMA LoopMoves ==
  ASSUME IInv, NEW l \in Loops, NEW r, Update(l, r),
         LocalOK(l, r, settings, ch, fired'), FiredOK',
         \A k \in Loops \ {l} : \A x : <<k, x>> \in fired' => <<k, x>> \in fired,
         UNCHANGED <<settings, ch, file, durable, admin, now>>
  PROVE  IInv'
<1>1. DOMAIN loop' = Loops /\ loop'[l] = r /\ \A k \in Loops \ {l} : loop'[k] = loop[k]
  BY DEF Update, IInv, LoopsOK
<1>2. \A k \in Loops \ {l} : LocalOK(k, loop'[k], settings, ch, fired')
  <2> SUFFICES ASSUME NEW k \in Loops \ {l}
               PROVE  LocalOK(k, loop[k], settings, ch, fired')
    BY <1>1
  <2>1. LocalOK(k, loop[k], settings, ch, fired)
    BY DEF IInv, LoopsOK
  <2>2. QED
    BY <2>1 DEF LocalOK
<1>3. LoopsOK'
  BY <1>1, <1>2 DEF LoopsOK
<1>4. SettingsInv' /\ RestartKeepsSettings'
  BY DEF IInv, SettingsInv, SettingsTypeOK, FileOK, RestartKeepsSettings
<1>5. QED
  BY <1>3, <1>4 DEF IInv

LEMMA SnapshotOK ==
  ASSUME IInv, NEW l \in Loops, Snapshot(l),
         UNCHANGED <<settings, ch, file, durable, admin, now, fired>>
  PROVE  IInv'
<1> DEFINE r == [OffLoop EXCEPT !.pc = "compute", !.cur = settings, !.ch = ch,
                                !.creditNext = nextIntervalFire(now, settings.every),
                                !.since = now]
<1>1. /\ DOMAIN r = {"pc", "cur", "ch", "hourNext", "creditNext", "creditDue",
                     "until", "since"}
      /\ r.pc = "compute" /\ r.cur = settings /\ r.ch = ch
  BY DEF OffLoop
<1>2. Update(l, r)
  BY DEF Snapshot
<1> HIDE DEF r
<1>3. settings \in Setting /\ ch \in 0 .. ch
  BY DEF IInv, SettingsInv, SettingsTypeOK
<1>4. LocalOK(l, r, settings, ch, fired')
  BY <1>1, <1>3 DEF LocalOK, Pcs
<1>5. FiredOK'
  BY DEF IInv, FiredOK
<1>6. QED
  BY <1>2, <1>4, <1>5, LoopMoves

LEMMA ComputeOK ==
  ASSUME IInv, NEW l \in Loops, Compute(l)
  PROVE  IInv'
<1> DEFINE n == nextFire(now, AllHours(loop[l].cur))
           r == [loop[l] EXCEPT !.pc = "select", !.hourNext = n]
<1>1. LocalOK(l, loop[l], settings, ch, fired)
  BY DEF IInv, LoopsOK
<1>2. AllHours(loop[l].cur) \in SUBSET Hours
  BY <1>1 DEF LocalOK, AllHours, Setting
<1>3. n = Never \/ (n \in Nat /\ n > now)
  BY <1>2, NextFireLater DEF IInv
<1>4. <<l, n>> \notin fired
  BY <1>3 DEF IInv, FiredOK
<1>5. /\ DOMAIN r = DOMAIN loop[l] /\ r.pc = "select" /\ r.cur = loop[l].cur
      /\ r.ch = loop[l].ch /\ r.hourNext = n
  BY <1>1 DEF LocalOK
<1>6. Update(l, r) /\ loop[l].pc = "compute"
      /\ UNCHANGED <<settings, ch, file, durable, admin, now, fired>>
  BY DEF Compute
<1> HIDE DEF n, r
<1>7. n \in Int
  BY <1>3 DEF Never
<1>8. LocalOK(l, r, settings, ch, fired')
  BY <1>1, <1>4, <1>5, <1>6, <1>7 DEF LocalOK, Pcs
<1>9. FiredOK'
  BY <1>6 DEF IInv, FiredOK
<1>10. QED
  BY <1>6, <1>8, <1>9, LoopMoves

LEMMA TimerOK ==
  ASSUME IInv, NEW l \in Loops, Timer(l)
  PROVE  IInv'
<1>1. LocalOK(l, loop[l], settings, ch, fired)
  BY DEF IInv, LoopsOK
<1>2. PICK u : Update(l, [loop[l] EXCEPT !.pc = "tasks", !.until = u,
                                        !.creditDue = CreditDue(l),
                                        !.since = Since(l, u)])
  BY DEF Timer
<1> DEFINE r == [loop[l] EXCEPT !.pc = "tasks", !.until = u,
                                !.creditDue = CreditDue(l),
                                !.since = Since(l, u)]
<1>3. /\ DOMAIN r = DOMAIN loop[l] /\ r.pc = "tasks" /\ r.cur = loop[l].cur
      /\ r.ch = loop[l].ch
  BY <1>1 DEF LocalOK
<1>4. loop[l].pc = "select" /\ UNCHANGED <<settings, ch, file, durable, admin, now>>
  BY DEF Timer
<1>5. Update(l, r)
  BY <1>2
<1> HIDE DEF r
<1>6. LocalOK(l, r, settings, ch, fired')
  BY <1>1, <1>3, <1>4 DEF LocalOK, Pcs
<1>7. fired' = fired \/ (HourDue(l) /\ fired' = fired \cup {<<l, loop[l].hourNext>>})
  BY DEF Timer
<1>8. FiredOK'
  <2>1. CASE fired' = fired
    BY <1>4, <2>1 DEF IInv, FiredOK
  <2>2. CASE HourDue(l) /\ fired' = fired \cup {<<l, loop[l].hourNext>>}
    <3>1. loop[l].hourNext \in Int
      BY <1>1, <1>4 DEF LocalOK
    <3>2. QED
      BY <1>4, <2>2, <3>1 DEF HourDue, IInv, FiredOK
  <2>3. QED
    BY <1>7, <2>1, <2>2
<1>9. \A k \in Loops \ {l} : \A x : <<k, x>> \in fired' => <<k, x>> \in fired
  BY <1>7
<1>10. QED
  BY <1>4, <1>5, <1>6, <1>8, <1>9, LoopMoves

LEMMA TasksDoneOK ==
  ASSUME IInv, NEW l \in Loops, TasksDone(l)
  PROVE  IInv'
<1> DEFINE c == IF loop[l].creditDue THEN nextIntervalFire(now, loop[l].cur.every)
                ELSE loop[l].creditNext
           r == [loop[l] EXCEPT !.pc = "compute", !.creditNext = c,
                                !.creditDue = FALSE, !.until = 0]
<1>1. LocalOK(l, loop[l], settings, ch, fired)
  BY DEF IInv, LoopsOK
<1>2. /\ DOMAIN r = DOMAIN loop[l] /\ r.pc = "compute" /\ r.cur = loop[l].cur
      /\ r.ch = loop[l].ch
  BY <1>1 DEF LocalOK
<1>3. Update(l, r) /\ loop[l].pc = "tasks"
      /\ UNCHANGED <<settings, ch, file, durable, admin, now, fired>>
  BY DEF TasksDone
<1> HIDE DEF r, c
<1>4. LocalOK(l, r, settings, ch, fired')
  BY <1>1, <1>2, <1>3 DEF LocalOK, Pcs
<1>5. FiredOK'
  BY <1>3 DEF IInv, FiredOK
<1>6. QED
  BY <1>3, <1>4, <1>5, LoopMoves

LEMMA LoopStepOK ==
  ASSUME IInv, NEW l \in Loops, LoopStep(l)
  PROVE  IInv'
<1>1. CASE Start(l) \/ Changed(l)
  BY <1>1, SnapshotOK DEF Start, Changed
<1>2. QED
  BY <1>1, ComputeOK, TimerOK, TasksDoneOK DEF LoopStep

LEMMA TickOK ==
  ASSUME IInv, Tick
  PROVE  IInv'
<1>1. now' \in Nat /\ now' = now + 1
  BY DEF Tick, IInv
<1>2. UNCHANGED <<settings, ch, file, durable, admin, loop, fired>>
  BY DEF Tick
<1>3. FiredOK'
  BY <1>1, <1>2 DEF IInv, FiredOK
<1>4. LoopsOK' /\ SettingsInv' /\ RestartKeepsSettings'
  BY <1>2 DEF IInv, LoopsOK, SettingsInv, SettingsTypeOK, FileOK, RestartKeepsSettings
<1>5. QED
  BY <1>1, <1>3, <1>4 DEF IInv

\* A change closes the channel of every loop.
LEMMA AdminOK ==
  ASSUME IInv, Admin
  PROVE  IInv'
<1>1. SettingsInv' /\ RestartKeepsSettings'
  BY SettingsStep DEF IInv, Admin
<1>2. (settings' = settings /\ ch' = ch) \/ (settings' \in Setting /\ ch' = ch + 1)
  BY <1>1 DEF Admin, AdminStep, AdminGet, AdminSet, Set, Reset, Notify,
              SettingsInv, SettingsTypeOK
<1>3. UNCHANGED <<now, loop, fired>>
  BY DEF Admin
<1>4. ch \in Nat
  BY SettingsAssumption DEF IInv, SettingsInv, SettingsTypeOK
<1>5. ASSUME NEW l \in Loops
      PROVE  LocalOK(l, loop[l], settings', ch', fired)
  <2>1. LocalOK(l, loop[l], settings, ch, fired)
    BY DEF IInv, LoopsOK
  <2>2. CASE settings' = settings /\ ch' = ch
    BY <2>1, <2>2
  <2>3. CASE ch' = ch + 1
    BY <1>4, <2>1, <2>3 DEF LocalOK
  <2>4. QED
    BY <1>2, <2>2, <2>3
<1>6. LoopsOK'
  BY <1>3, <1>5 DEF IInv, LoopsOK
<1>7. FiredOK'
  BY <1>3 DEF IInv, FiredOK
<1>8. QED
  BY <1>1, <1>3, <1>6, <1>7 DEF IInv

LEMMA OffLoopOK ==
  ASSUME NEW l, NEW s, NEW c \in Nat
  PROVE  LocalOK(l, OffLoop, s, c, {})
<1>1. /\ DOMAIN OffLoop = {"pc", "cur", "ch", "hourNext", "creditNext",
                           "creditDue", "until", "since"}
      /\ OffLoop.pc = "off" /\ OffLoop.cur = Initial /\ OffLoop.ch = 0
  BY DEF OffLoop
<1>2. QED
  BY <1>1, SettingsAssumption DEF LocalOK, Pcs

LEMMA RestartOK ==
  ASSUME IInv, Restart
  PROVE  IInv'
<1>1. SettingsInv' /\ RestartKeepsSettings'
  BY SettingsStep DEF IInv, Restart
<1>2. loop' = [l \in Loops |-> OffLoop] /\ fired' = {} /\ now' = now /\ ch' = 0
  BY DEF Restart, SettingsRestart
<1>3. LoopsOK'
  BY <1>2, OffLoopOK DEF LoopsOK
<1>4. FiredOK'
  BY <1>2 DEF FiredOK
<1>5. QED
  BY <1>1, <1>2, <1>3, <1>4 DEF IInv

LEMMA InitOK == Init => IInv
<1> SUFFICES ASSUME Init PROVE IInv
  OBVIOUS
<1>1. Initial \in Setting /\ Loaded(NoFile) = Initial /\ 0 \in 0 .. MaxChanges
  BY SettingsAssumption DEF Loaded
<1>2. IdleAdmin \in [pc : {"idle", "set"}, new : Setting]
  BY <1>1 DEF IdleAdmin
<1>3. SettingsInv /\ RestartKeepsSettings
  BY <1>1, <1>2
  DEF Init, SettingsInit, SettingsInv, SettingsTypeOK, FileOK, RestartKeepsSettings
<1>4. LoopsOK
  <2>1. ch = 0 /\ fired = {} /\ loop = [l \in Loops |-> OffLoop]
    BY DEF Init, SettingsInit
  <2>2. QED
    BY <2>1, OffLoopOK DEF LoopsOK
<1>5. FiredOK /\ now \in Nat
  BY DEF Init, FiredOK
<1>6. QED
  BY <1>3, <1>4, <1>5 DEF IInv

LEMMA NextOK ==
  ASSUME IInv, [Next]_schedulerVars
  PROVE  IInv'
<1>1. CASE UNCHANGED schedulerVars
  BY <1>1 DEF schedulerVars, IInv, LoopsOK, FiredOK, SettingsInv, SettingsTypeOK,
              FileOK, RestartKeepsSettings
<1>2. QED
  BY <1>1, LoopStepOK, TickOK, AdminOK, RestartOK DEF Next

LEMMA Invariance == Spec => []IInv
  BY InitOK, NextOK, PTL DEF Spec

-----------------------------------------------------------------------------
(* No hour is passed over *)

\* The hours of a task that loop l with locals r, when f were run, has yet to
\* run: since it took its settings over or its last tasks ended.
Open(l, r, f) ==
    {x \in Nat : /\ r.since < x
                 /\ OnTheHour(x) /\ Hour(x) \in AllHours(r.cur)
                 /\ <<l, x>> \notin f}

\* At t, what is open is still to come, and a loop that waits does so for
\* nothing later than the first of it.
WatchOK(l, r, t, f) ==
    /\ {"pc", "cur", "hourNext", "creditNext", "until", "since"} \subseteq DOMAIN r
    /\ r.since \in Nat
    /\ r.creditNext \in Nat \cup {Never}
    /\ r.pc = "compute" => \A x \in Open(l, r, f) : t < x
    /\ r.pc = "select" =>
          /\ r.hourNext = Never \/ (r.hourNext \in Nat /\ t <= r.hourNext)
          /\ \A x \in Open(l, r, f) : r.hourNext \in Nat /\ r.hourNext <= x
    /\ r.pc = "tasks" =>
          /\ r.until \in Nat /\ t <= r.until
          /\ \A x \in Open(l, r, f) : r.until < x

Watch == \A l \in Loops : WatchOK(l, loop[l], now, fired)

\* Loop l moves to locals r.
LEMMA WatchMoves ==
  ASSUME IInv, Watch, NEW l \in Loops, NEW r, Update(l, r),
         WatchOK(l, r, now, fired'), fired \subseteq fired', now' = now
  PROVE  Watch'
<1>1. loop'[l] = r /\ \A k \in Loops \ {l} : loop'[k] = loop[k]
  BY DEF Update, IInv, LoopsOK
<1>2. ASSUME NEW k \in Loops \ {l} PROVE WatchOK(k, loop[k], now, fired')
  <2>1. WatchOK(k, loop[k], now, fired)
    BY DEF Watch
  <2>2. Open(k, loop[k], fired') \subseteq Open(k, loop[k], fired)
    BY DEF Open
  <2>3. QED
    BY <2>1, <2>2 DEF WatchOK
<1>3. QED
  BY <1>1, <1>2 DEF Watch

LEMMA IntervalFireType ==
  ASSUME NEW t \in Nat, NEW every \in Intervals
  PROVE  nextIntervalFire(t, every) \in Nat \cup {Never}
<1>1. every \in Nat /\ TickSeconds \in Nat \ {0}
  BY SettingsAssumption, SchedulerAssumption
<1>2. every \div TickSeconds \in Nat
  BY <1>1
<1>3. QED
  BY <1>1, <1>2 DEF nextIntervalFire

LEMMA WatchSnapshot ==
  ASSUME IInv, Watch, NEW l \in Loops, Snapshot(l),
         UNCHANGED <<settings, ch, file, durable, admin, now, fired>>
  PROVE  Watch'
<1> DEFINE c == nextIntervalFire(now, settings.every)
           r == [OffLoop EXCEPT !.pc = "compute", !.cur = settings, !.ch = ch,
                                !.creditNext = c, !.since = now]
<1>1. /\ DOMAIN r = {"pc", "cur", "ch", "hourNext", "creditNext", "creditDue",
                     "until", "since"}
      /\ r.pc = "compute" /\ r.creditNext = c /\ r.since = now
  BY DEF OffLoop
<1>2. Update(l, r)
  BY DEF Snapshot
<1>3. now \in Nat /\ settings.every \in Intervals
  BY DEF IInv, SettingsInv, SettingsTypeOK, Setting
<1>4. c \in Nat \cup {Never}
  BY <1>3, IntervalFireType
<1> HIDE DEF c, r
<1>5. \A x \in Open(l, r, fired') : now < x
  BY <1>1 DEF Open
<1>6. WatchOK(l, r, now, fired')
  BY <1>1, <1>3, <1>4, <1>5 DEF WatchOK
<1>7. QED
  BY <1>2, <1>6, WatchMoves

LEMMA WatchCompute ==
  ASSUME IInv, Watch, NEW l \in Loops, Compute(l)
  PROVE  Watch'
<1> DEFINE n == nextFire(now, AllHours(loop[l].cur))
           r == [loop[l] EXCEPT !.pc = "select", !.hourNext = n]
<1>1. LocalOK(l, loop[l], settings, ch, fired) /\ WatchOK(l, loop[l], now, fired)
      /\ now \in Nat
  BY DEF IInv, LoopsOK, Watch
<1>2. AllHours(loop[l].cur) \in SUBSET Hours
  BY <1>1 DEF LocalOK, AllHours, Setting
<1>3. n = Never \/ (n \in Nat /\ n > now)
  BY <1>1, <1>2, NextFireLater
<1>4. Update(l, r) /\ loop[l].pc = "compute" /\ fired' = fired /\ now' = now
  BY DEF Compute
<1>5. ASSUME NEW x \in Open(l, loop[l], fired) PROVE n \in Nat /\ n <= x
  <2>1. now < x /\ x \in Nat /\ OnTheHour(x) /\ Hour(x) \in AllHours(loop[l].cur)
    BY <1>1, <1>4 DEF WatchOK, Open
  <2>2. QED
    BY <1>1, <1>2, <2>1, NextFireBefore
<1>6. /\ DOMAIN r = DOMAIN loop[l] /\ r.pc = "select" /\ r.cur = loop[l].cur
      /\ r.hourNext = n /\ r.since = loop[l].since /\ r.creditNext = loop[l].creditNext
  BY <1>1 DEF WatchOK
<1> HIDE DEF n, r
<1>7. Open(l, r, fired) = Open(l, loop[l], fired)
  BY <1>6 DEF Open
<1>8. WatchOK(l, r, now, fired)
  BY <1>1, <1>3, <1>5, <1>6, <1>7 DEF WatchOK
<1>9. QED
  BY <1>4, <1>8, WatchMoves

LEMMA WatchTimer ==
  ASSUME IInv, Watch, NEW l \in Loops, Timer(l)
  PROVE  Watch'
<1> DEFINE o == loop[l]
<1>1. /\ LocalOK(l, o, settings, ch, fired) /\ WatchOK(l, o, now, fired)
      /\ now \in Nat /\ TaskTicks \in Nat /\ o.pc = "select" /\ now' = now
  BY SchedulerAssumption DEF IInv, LoopsOK, Watch, Timer
<1>2. PICK u \in now .. now + TaskTicks :
        Update(l, [o EXCEPT !.pc = "tasks", !.until = u,
                            !.creditDue = CreditDue(l), !.since = Since(l, u)])
  BY DEF Timer
<1> DEFINE r == [o EXCEPT !.pc = "tasks", !.until = u,
                          !.creditDue = CreditDue(l), !.since = Since(l, u)]
<1>3. u \in Nat /\ now <= u
  BY <1>1, <1>2
<1>4. /\ DOMAIN r = DOMAIN o /\ r.pc = "tasks" /\ r.cur = o.cur
      /\ r.creditNext = o.creditNext /\ r.until = u /\ r.since = Since(l, u)
  BY <1>1 DEF WatchOK
<1>5. Update(l, r)
  BY <1>2
<1>6. fired' = IF HourDue(l) /\ DueTasks(o.cur, Hour(o.hourNext)) # {}
               THEN fired \cup {<<l, o.hourNext>>} ELSE fired
  BY DEF Timer
<1> HIDE DEF r
<1>7. Since(l, u) \in Nat
  BY <1>1, <1>3 DEF Since, WatchOK
<1>8. ASSUME NEW x \in Open(l, r, fired') PROVE u < x
  <2>1. x \in Nat /\ Since(l, u) < x /\ OnTheHour(x) /\ Hour(x) \in AllHours(o.cur)
        /\ <<l, x>> \notin fired'
    BY <1>4 DEF Open
  <2>2. CASE u > now
    BY <2>1, <2>2 DEF Since
  <2>3. CASE ~(u > now)
    <3>1. u = now /\ Since(l, u) = o.since
      <4>1. u = now
        BY <1>1, <1>3, <2>3
      <4>2. Since(l, u) = o.since
        BY <2>3, Zenon DEF Since
      <4>3. QED
        BY <4>1, <4>2
    <3>2. x \in Open(l, o, fired)
      BY <1>6, <2>1, <3>1 DEF Open
    <3>3. o.hourNext \in Nat /\ o.hourNext <= x /\ now <= o.hourNext
      BY <1>1, <3>2 DEF WatchOK, Never
    <3>4. ASSUME x = now PROVE FALSE
      <4>1. o.hourNext = now /\ x = o.hourNext
        BY <1>1, <2>1, <3>3, <3>4
      <4>2. HourDue(l)
        BY <1>1, <4>1 DEF HourDue, Never
      <4>3. DueTasks(o.cur, Hour(o.hourNext)) # {}
        <5>1. Hour(o.hourNext) \in o.cur.checkin \cup o.cur.keepalive \cup o.cur.model
          BY <2>1, <4>1 DEF AllHours
        <5>2. o.cur["checkin"] = o.cur.checkin /\ o.cur["keepalive"] = o.cur.keepalive
              /\ o.cur["model"] = o.cur.model
          OBVIOUS
        <5>3. QED
          BY <5>1, <5>2 DEF DueTasks, Tasks
      <4>4. QED
        BY <1>6, <2>1, <4>1, <4>2, <4>3
    <3>5. QED
      BY <1>1, <2>1, <3>1, <3>3, <3>4
  <2>4. QED
    BY <2>2, <2>3
<1>9. WatchOK(l, r, now, fired')
  BY <1>1, <1>3, <1>4, <1>7, <1>8 DEF WatchOK
<1>10. fired \subseteq fired'
  BY <1>6
<1>11. QED
  BY <1>1, <1>5, <1>9, <1>10, WatchMoves

LEMMA WatchTasksDone ==
  ASSUME IInv, Watch, NEW l \in Loops, TasksDone(l)
  PROVE  Watch'
<1> DEFINE c == IF loop[l].creditDue THEN nextIntervalFire(now, loop[l].cur.every)
                ELSE loop[l].creditNext
           r == [loop[l] EXCEPT !.pc = "compute", !.creditNext = c,
                                !.creditDue = FALSE, !.until = 0]
<1>1. LocalOK(l, loop[l], settings, ch, fired) /\ WatchOK(l, loop[l], now, fired)
      /\ now \in Nat
  BY DEF IInv, LoopsOK, Watch
<1>2. /\ Update(l, r) /\ loop[l].pc = "tasks" /\ loop[l].until <= now
      /\ fired' = fired /\ now' = now
  BY DEF TasksDone
<1>3. c \in Nat \cup {Never}
  BY <1>1, IntervalFireType DEF LocalOK, Setting, WatchOK
<1>4. /\ DOMAIN r = DOMAIN loop[l] /\ r.pc = "compute" /\ r.cur = loop[l].cur
      /\ r.creditNext = c /\ r.since = loop[l].since
  BY <1>1 DEF WatchOK
<1> HIDE DEF r, c
<1>5. Open(l, r, fired) = Open(l, loop[l], fired)
  BY <1>4 DEF Open
<1>6. \A x \in Open(l, loop[l], fired) : now < x
  <2>1. loop[l].until \in Nat /\ loop[l].until = now
    BY <1>1, <1>2 DEF WatchOK
  <2>2. QED
    BY <1>1, <1>2, <2>1 DEF WatchOK
<1>7. WatchOK(l, r, now, fired)
  BY <1>1, <1>3, <1>4, <1>5, <1>6 DEF WatchOK
<1>8. QED
  BY <1>2, <1>7, WatchMoves

\* A timer that has not fired is set to nothing that has come.
LEMMA NotFired ==
  ASSUME NEW t \in Nat, NEW a \in Nat, NEW b \in Nat \cup {Never},
         ~(earlier(a, b) # Never /\ earlier(a, b) <= t)
  PROVE  t < a
<1>1. a # Never
  BY DEF Never
<1>2. CASE b = Never
  BY <1>1, <1>2 DEF earlier
<1>3. CASE b \in Nat /\ b # Never
  <2> DEFINE m == Min({a, b})
  <2>1. earlier(a, b) = m
    BY <1>1, <1>3 DEF earlier
  <2>2. {a, b} \in SUBSET Nat /\ {a, b} # {} /\ a \in {a, b}
    BY <1>3
  <2>3. m \in {a, b} /\ m <= a
    BY <2>2, MinOfTimes
  <2> HIDE DEF m
  <2>4. QED
    BY <1>1, <1>3, <2>1, <2>3
<1>4. QED
  BY <1>2, <1>3

\* Time does not pass a loop that can run.
LEMMA WatchTick ==
  ASSUME IInv, Watch, Tick
  PROVE  Watch'
<1>1. now \in Nat /\ now' = now + 1 /\ fired' = fired /\ loop' = loop
  BY DEF Tick, IInv
<1>2. SUFFICES ASSUME NEW l \in Loops PROVE WatchOK(l, loop[l], now + 1, fired)
  BY <1>1 DEF Watch
<1>3. ~Ready(l) /\ WatchOK(l, loop[l], now, fired)
  BY DEF Tick, Watch
<1>4. loop[l].pc # "compute"
  BY <1>3 DEF Ready
<1>5. ASSUME loop[l].pc = "tasks" PROVE now + 1 <= loop[l].until
  BY <1>1, <1>3, <1>5 DEF Ready, WatchOK
<1>6. ASSUME loop[l].pc = "select", loop[l].hourNext # Never
      PROVE  now + 1 <= loop[l].hourNext
  <2>1. ~TimerFired(l) /\ loop[l].hourNext \in Nat
        /\ loop[l].creditNext \in Nat \cup {Never}
    BY <1>3, <1>6 DEF Ready, WatchOK
  <2>2. now < loop[l].hourNext
    BY <1>1, <2>1, NotFired DEF TimerFired
  <2>3. QED
    BY <1>1, <2>1, <2>2
<1>7. QED
  BY <1>3, <1>4, <1>5, <1>6 DEF WatchOK

LEMMA OffLoopWatch ==
  ASSUME NEW l, NEW t
  PROVE  WatchOK(l, OffLoop, t, {})
<1>1. /\ DOMAIN OffLoop = {"pc", "cur", "ch", "hourNext", "creditNext",
                           "creditDue", "until", "since"}
      /\ OffLoop.pc = "off" /\ OffLoop.since = 0 /\ OffLoop.creditNext = Never
  BY DEF OffLoop
<1>2. QED
  BY <1>1 DEF WatchOK

LEMMA WatchInit == Init => Watch
  BY OffLoopWatch DEF Init, Watch

LEMMA WatchNext ==
  ASSUME IInv, Watch, [Next]_schedulerVars
  PROVE  Watch'
<1>1. CASE UNCHANGED schedulerVars \/ Admin
  BY <1>1 DEF schedulerVars, Admin, Watch
<1>2. CASE Restart
  <2>1. loop' = [l \in Loops |-> OffLoop] /\ fired' = {}
    BY <1>2 DEF Restart
  <2>2. QED
    BY <2>1, OffLoopWatch DEF Watch
<1>3. CASE Tick
  BY <1>3, WatchTick
<1>4. ASSUME NEW l \in Loops, LoopStep(l) PROVE Watch'
  <2>1. CASE Start(l) \/ Changed(l)
    BY <2>1, WatchSnapshot DEF Start, Changed
  <2>2. QED
    BY <1>4, <2>1, WatchCompute, WatchTimer, WatchTasksDone DEF LoopStep
<1>5. QED
  BY <1>1, <1>2, <1>3, <1>4 DEF Next

LEMMA WatchInvariance == Spec => []Watch
<1>1. Spec => [](IInv /\ Watch)
  BY InitOK, NextOK, WatchInit, WatchNext, PTL DEF Spec
<1>2. QED
  BY <1>1, PTL

-----------------------------------------------------------------------------
(* The theorems *)

\* Snapshot and the change channel: however changes, waits and tasks
\* interleave, a loop with outdated settings is told so.
THEOREM ChangesSeen == Spec => []NoChangeMissed
<1>1. IInv => NoChangeMissed
  <2> SUFFICES ASSUME IInv, NEW l \in Loops, loop[l].pc # "off", ~Told(l)
               PROVE  loop[l].cur = settings
    BY DEF NoChangeMissed
  <2>1. LocalOK(l, loop[l], settings, ch, fired) /\ ch \in Nat
    BY SettingsAssumption DEF IInv, LoopsOK, SettingsInv, SettingsTypeOK
  <2>2. loop[l].ch = ch
    BY <2>1 DEF LocalOK, Told
  <2>3. QED
    BY <2>1, <2>2 DEF LocalOK
<1>2. QED
  BY <1>1, Invariance, PTL

\* nextFire: the hour a loop waits for is never one it has run already.
THEOREM HoursOnce == Spec => []NoHourTwice
<1>1. IInv => NoHourTwice
  BY DEF IInv, LoopsOK, LocalOK, NoHourTwice
<1>2. QED
  BY <1>1, Invariance, PTL

\* Run, nextFire and the timer: while a loop waits, every hour of a task that
\* passed since it took its settings over, or since it last ran tasks that
\* took time, has been run - whatever refreshes, changes and quick tasks came
\* between or together with it.
THEOREM NoHourMissed == Spec => []EveryHourRuns
<1>1. IInv /\ Watch => EveryHourRuns
  <2> SUFFICES ASSUME IInv, Watch, NEW l \in Loops, loop[l].pc = "select",
                      NEW t \in Passed(l), <<l, t>> \notin fired
               PROVE  FALSE
    BY DEF EveryHourRuns
  <2>1. WatchOK(l, loop[l], now, fired) /\ now \in Nat
    BY DEF IInv, Watch
  <2>2. loop[l].since \in Nat
    BY <2>1 DEF WatchOK
  <2>3. t \in Nat /\ loop[l].since < t /\ t < now
        /\ OnTheHour(t) /\ Hour(t) \in AllHours(loop[l].cur)
    BY <2>1, <2>2 DEF Passed
  <2>4. t \in Open(l, loop[l], fired)
    BY <2>3 DEF Open
  <2>5. QED
    BY <2>1, <2>3, <2>4 DEF WatchOK, Never
<1>2. QED
  BY <1>1, Invariance, WatchInvariance, PTL

\* saveLocked, Reset and Load: what a restart brings back is what was saved
\* last, after a reset the configuration's settings; it differs from what is
\* in force in the model refresh hours only, and only after a reset.
THEOREM SettingsSurvive == Spec => []RestartKeepsSettings
<1>1. IInv => RestartKeepsSettings
  BY DEF IInv
<1>2. QED
  BY <1>1, Invariance, PTL

=============================================================================
