------------------------------ MODULE Scheduler ------------------------------
(***************************************************************************)
(* The scheduler's main loop (internal/scheduler/scheduler.go): Run waits  *)
(* for the next hour of a task, for the next credit refresh or for a       *)
(* change of the settings.  main starts the loop twice (cmd/server/main.go *)
(* 80 and 107), so Loops has two members.                                  *)
(*                                                                         *)
(* Time passes in ticks of TickSeconds.  A goroutine that can run does so  *)
(* before the next tick; what takes time are the tasks, up to TaskTicks.   *)
(* The clock is the wall clock of a zone that is never put forward or back.*)
(***************************************************************************)
EXTENDS Settings, FiniteSets, FiniteSetsExt

CONSTANTS
    Loops,         \* goroutines of Run
    TickSeconds,   \* seconds per tick
    TicksPerHour,
    DayTicks,      \* ticks per day: every day, as Add(24 * time.Hour) has it
    TaskTicks,     \* bound: ticks the tasks of one wake-up take
    MaxTime        \* bound: the last tick

ASSUME SchedulerAssumption ==
    /\ Hours \subseteq 0 .. (DayTicks \div TicksPerHour) - 1
    /\ {TickSeconds, TicksPerHour, DayTicks} \subseteq Nat \ {0}
    /\ {TaskTicks, MaxTime} \subseteq Nat
    /\ \A d \in Intervals : d % TickSeconds = 0

\* A day has whole hours.
ASSUME WholeHoursAssumption == DayTicks % TicksPerHour = 0

Never == -1

Tasks == {"checkin", "keepalive", "model"}

VARIABLES
    now,   \* the clock
    loop,  \* the locals of each loop
    fired  \* history: <<loop, tick>> of every hour a loop ran tasks for

schedulerVars == <<settings, ch, file, durable, admin, now, loop, fired>>

Loop == [pc : {"off", "compute", "select", "tasks"},
         cur : Setting, ch : Nat, hourNext : Int, creditNext : Int,
         creditDue : BOOLEAN, until : Nat, since : Nat]

-----------------------------------------------------------------------------
(* Clock *)

Midnight(t) == t - (t % DayTicks)
Hour(t) == (t % DayTicks) \div TicksPerHour
OnTheHour(t) == t % TicksPerHour = 0

\* Mutant: an hour that has come is due again.
NextFireNotBefore(t, hours) ==
    IF hours = {} THEN Never
    ELSE Min({ LET d == Midnight(t) + h * TicksPerHour
               IN  IF d < t THEN d + DayTicks ELSE d : h \in hours })

\* The earliest of today's hours, those that are over moved on by 24 hours.
nextFire(t, hours) ==
    IF hours = {} THEN Never
    ELSE Min({ LET d == Midnight(t) + h * TicksPerHour
               IN  IF d <= t THEN d + DayTicks ELSE d : h \in hours })

nextIntervalFire(t, every) ==
    IF every <= 0 THEN Never ELSE t + (every \div TickSeconds)

earlier(a, b) ==
    IF a = Never THEN b ELSE IF b = Never THEN a ELSE Min({a, b})

AllHours(s) == s.checkin \cup s.keepalive \cup s.model

\* What a loop runs at hour h: the tasks whose list contains it.
DueTasks(s, h) == {t \in Tasks : h \in s[t]}

-----------------------------------------------------------------------------
(* Run *)

OffLoop == [pc |-> "off", cur |-> Initial, ch |-> 0, hourNext |-> Never,
            creditNext |-> Never, creditDue |-> FALSE, until |-> 0, since |-> 0]

Update(l, local) == loop' = [loop EXCEPT ![l] = local]

\* Snapshot: the settings together with the channel that tells of the next
\* change.
Snapshot(l) ==
    Update(l, [OffLoop EXCEPT !.pc = "compute", !.cur = settings, !.ch = ch,
                              !.creditNext = nextIntervalFire(now, settings.every),
                              !.since = now])

Start(l) ==
    /\ loop[l].pc = "off"
    /\ Snapshot(l)
    /\ UNCHANGED <<settings, ch, file, durable, admin, now, fired>>

Compute(l) ==
    /\ loop[l].pc = "compute"
    /\ Update(l, [loop[l] EXCEPT !.pc = "select",
                                 !.hourNext = nextFire(now, AllHours(loop[l].cur))])
    /\ UNCHANGED <<settings, ch, file, durable, admin, now, fired>>

TimerFired(l) ==
    LET next == earlier(loop[l].hourNext, loop[l].creditNext)
    IN  next # Never /\ next <= now

\* Mutant: a wake-up for the credit refresh does not look at the hour.
HourDueElse(l) ==
    /\ loop[l].hourNext # Never /\ loop[l].hourNext <= now
    /\ ~(loop[l].creditNext # Never /\ loop[l].creditNext <= now)

\* The clock is read once, before the tasks run.
HourDue(l) == loop[l].hourNext # Never /\ loop[l].hourNext <= now
CreditDue(l) == loop[l].creditNext # Never /\ loop[l].creditNext <= now

\* An hour that comes while tasks run is not run: see EveryHourRuns.
Since(l, u) == IF u > now THEN u ELSE loop[l].since

\* The tasks of one wake-up run one after the other until tick u.
Timer(l) ==
    /\ loop[l].pc = "select" /\ TimerFired(l)
    /\ \E u \in now .. now + TaskTicks :
          /\ u <= MaxTime
          /\ Update(l, [loop[l] EXCEPT !.pc = "tasks", !.until = u,
                                       !.creditDue = CreditDue(l),
                                       !.since = Since(l, u)])
    /\ fired' = IF HourDue(l) /\ DueTasks(loop[l].cur, Hour(loop[l].hourNext)) # {}
                THEN fired \cup {<<l, loop[l].hourNext>>} ELSE fired
    /\ UNCHANGED <<settings, ch, file, durable, admin, now>>

TasksDone(l) ==
    /\ loop[l].pc = "tasks" /\ loop[l].until <= now
    /\ Update(l, [loop[l] EXCEPT
          !.pc = "compute",
          !.creditNext = IF loop[l].creditDue
                         THEN nextIntervalFire(now, loop[l].cur.every)
                         ELSE loop[l].creditNext,
          !.creditDue = FALSE, !.until = 0])
    /\ UNCHANGED <<settings, ch, file, durable, admin, now, fired>>

\* The channel the loop holds is closed.
Told(l) == loop[l].ch < ch

\* Mutant: after a change the loop goes on with the settings it has.
ChangedKeeps(l) ==
    /\ loop[l].pc = "select" /\ Told(l)
    /\ Update(l, [loop[l] EXCEPT !.pc = "compute", !.ch = ch])
    /\ UNCHANGED <<settings, ch, file, durable, admin, now, fired>>

Changed(l) ==
    /\ loop[l].pc = "select" /\ Told(l)
    /\ Snapshot(l)
    /\ UNCHANGED <<settings, ch, file, durable, admin, now, fired>>

\* A loop that need not wait: time does not pass meanwhile.
Ready(l) ==
    \/ loop[l].pc \in {"off", "compute"}
    \/ loop[l].pc = "tasks" /\ loop[l].until <= now
    \/ loop[l].pc = "select" /\ (Told(l) \/ TimerFired(l))

Tick ==
    /\ now < MaxTime
    /\ \A l \in Loops : ~Ready(l)
    /\ now' = now + 1
    /\ UNCHANGED <<settings, ch, file, durable, admin, loop, fired>>

Restart ==
    /\ SettingsRestart
    /\ loop' = [l \in Loops |-> OffLoop]
    /\ fired' = {}
    /\ UNCHANGED now

Admin == AdminStep /\ UNCHANGED <<now, loop, fired>>

Init ==
    /\ SettingsInit
    /\ now = 0
    /\ loop = [l \in Loops |-> OffLoop]
    /\ fired = {}

LoopStep(l) ==
    Start(l) \/ Compute(l) \/ Timer(l) \/ TasksDone(l) \/ Changed(l)

Next == (\E l \in Loops : LoopStep(l)) \/ Tick \/ Admin \/ Restart

Spec == Init /\ [][Next]_schedulerVars

\* Goroutines that can run do, and of two ready cases select takes each in
\* turn: it chooses at random.
Fairness ==
    /\ \A l \in Loops : WF_schedulerVars(LoopStep(l)) /\ SF_schedulerVars(Changed(l))
    /\ WF_schedulerVars(Tick)

FairSpec == Spec /\ Fairness

-----------------------------------------------------------------------------
(* Properties *)

TypeOK ==
    /\ SettingsTypeOK
    /\ now \in 0 .. MaxTime
    /\ loop \in [Loops -> Loop]
    /\ fired \subseteq Loops \X (0 .. MaxTime)

\* No change is lost: a loop that works with outdated settings holds a
\* channel that is closed, so it cannot wait on them.
NoChangeMissed ==
    \A l \in Loops : loop[l].pc # "off" /\ ~Told(l) => loop[l].cur = settings

\* A loop runs the tasks of an hour at most once: the hour it waits for is
\* not one it has run.
NoHourTwice ==
    \A l \in Loops : loop[l].pc = "select" => <<l, loop[l].hourNext>> \notin fired

\* The hours that passed since the loop took its settings over or last ran
\* tasks that took time.
Passed(l) == {t \in loop[l].since + 1 .. now - 1 :
                 OnTheHour(t) /\ Hour(t) \in AllHours(loop[l].cur)}

\* Every hour of a task that comes while the loop waits is run, whatever
\* refreshes, changes and quick tasks come between or fall together with it.
EveryHourRuns ==
    \A l \in Loops :
        loop[l].pc = "select" => \A t \in Passed(l) : <<l, t>> \in fired

\* The tasks of an hour are run once, not once per loop.
OneLoopRuns ==
    \A p, q \in fired : p[2] = q[2] => p[1] = q[1]

\* Saved settings take effect: each loop takes them over unless they change
\* again.
SettingsReachLoops ==
    \A l \in Loops : \A c \in {Initial, Defaults} \cup Requested :
        settings = c ~> settings # c \/ loop[l].cur = c

=============================================================================
