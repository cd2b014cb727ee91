# A verification of lobsterai2api

`lobsterai2api` is a Go proxy: it offers an OpenAI-compatible chat API and spreads
the requests over a pool of LobsterAI accounts.  Everything lives in one process;
goroutines share a handful of stores, each with its own mutex and its own JSON file,
and one HTTP client that has none.  This directory holds TLA+ models of it, the TLC
runs that check them on small instances, and proofs, checked by TLAPS, for all
instances.

## Inventory

| Part (source) | State | Operations | Talks to | Hard parts | What makes it correct |
|---|---|---|---|---|---|
| Account pool (`internal/pool/pool.go`) | `byUID`: credential, credits, disabled, reason, until, errCount per account; `state.json` | Pick/PickExcluding, Add, SetCredits, Cooldown, ForceCooldown, Disable, Enable, ReenableIfCredits, NoteError, NoteSuccess, New/load | called by everything | save errors dropped, restart, stale arguments, map order | an account leaves and returns by the rules only; memory and file agree; the richest healthy account is picked |
| Chat handler (`internal/server/handler.go`) | per request: tried, acct, lastErr | chatCompletions | pool, upstream client, statistics | concurrent requests, LastBody, partial failure | bounded rotation, every failure penalised, every request answered |
| Upstream client (`internal/upstream/client.go`, `classify.go`) | LastBody, version cache | RefreshToken, ChatStream, QuotaUsage, FetchModels, Classify | LobsterAI servers | LastBody is written by every call without a lock | a reply is judged by its own body |
| Credentials (`internal/auth/auth.go`) | `*Auth` shared by pool and callers, one file each | Parse, LoadDir, SaveAtomic, NeedsRefresh | client, login, scheduler | concurrent refresh with rotating tokens, writers racing for one file, crash | the file is always whole; a live session is not declared dead |
| Scheduler (`internal/scheduler/scheduler.go`) | loop locals | Run, RunCheckinNow, RunCreditRefreshNow, RunKeepaliveNow, RunModelRefreshNow | all stores | two loops run (`main.go:80,107`), timers against setting changes, DST | each job at its hour, settings take effect at once |
| Schedule settings (`internal/schedule/schedule.go`) | hours, interval, change channel, file | Load, Snapshot, Set, Reset | scheduler, admin page | missed notification, read-modify-write | no change is missed; file = memory |
| Admin API (`internal/server/admin.go`) | OAuth session table | accounts manage/refresh, login start/complete, schedule get/set/reset, models refresh | all stores | check-then-act across stores | one-shot sessions, no lost update |
| Web login (`internal/auth/oauth.go`) | - | NewLogin, Exchange | upstream, admin API | expiry, crash between save and add | a code is exchanged once |
| Statistics (`internal/stats`) | totals and per-model rows, dirty, file; TapReader's pending line | RecordTokens, AddFailure, Flush, Run, Read | chat handler | chunked streams, asynchronous flush, shutdown | sums agree, file is a past state |
| Check-in (`internal/upstream/checkin.go`, `internal/checkin`) | bounded record list, file | DailyCheckin, Add, Page | scheduler, admin page | check-then-claim by two loops, bound, paging | pages partition the records |
| Model list (`internal/models`) | items, refreshed, file | Load, Set, ReasoningEffort | admin page, scheduler, chat | double Pick in `adminModelsRefresh`, overlapping refreshes | it is never emptied and goes back only by overlap or restart |
| SSE (`internal/upstream/sse.go`) | - | Aggregate, Stream | chat handler | partial streams, interleaved tool calls | streaming and aggregated answers agree |
| Configuration and start-up (`cmd/server`) | - | Load, main | everything | shutdown | - |
| Command-line login (`cmd/login`, `login.sh`) | state, result and credential files | login url, its callback, login poll, the script | the browser, upstream | processes that wait for one another's files | the link is shown while it leads somewhere |
| `cmd/credit`, `admin.html`, other scripts | - | - | - | presentation | - |

The hazards these parts are exposed to, each at its line and with the properties that
look at it, are in `PROJECT.json`.

## Modules

| Module | Models |
|---|---|
| `Pool` | the account pool and its state file; `PoolNext` is its most general client |
| `PickLoop` | the loop inside `PickExcluding`, one map step at a time, call after call on a pool that changes, against the definition `Pool` uses |
| `ModelStore` | the model list, its file and its two refreshers, among chats that pick; EXTENDS `PickLoop` |
| `ChatRotation` | chat requests, balance refreshes, keepalive, admin actions, restarts, all over one pool and one `LastBody`; EXTENDS `Pool` |
| `Credentials` | one account's shared `*Auth`, its refresh, its file, logins, restarts |
| `WebLogin` | the table of login sessions and the two login handlers; EXTENDS `Credentials`, which it implements |
| `OneShot` | what a login session promises, the abstract specification of the table |
| `CommandLogin` | `login url`, its callback handler, `login poll`, by hand and run by `login.sh` |
| `Settings` | the schedule's settings, their file, the handlers that change them |
| `Scheduler` | the loop `Run` over those settings; EXTENDS `Settings` |
| `CheckinRecords` | the bounded list of check-in records and its file |
| `CheckinPage` | the paged list and a reader in the browser; EXTENDS `CheckinRecords` |
| `Checkin` | overlapping daily check-ins; EXTENDS `CheckinRecords` |
| `Stats` | the statistics recorder, its flusher and its file |
| `Totals` | what the statistics promise, the abstract specification of the recorder |
| `Sse` | `Aggregate` as a fold over the lines of a stream, and what a streaming client assembles |
| `Usage` | one answer from upstream through TapReader and `Stream` or `Aggregate` to the client, and the recorder that counts it; EXTENDS `Stats` and `Sse` |
| `*Proofs` | the theorems about the module of that name (`ChatProofs`: `ChatRotation`; `SchedulerProofs`: `Settings` and `Scheduler`; `ModelStoreProofs`: `PickLoop` and `ModelStore`; `WebLoginProofs`: `Credentials` and `WebLogin`; `UsageProofs`: `Stats`, `Sse` and `Usage`) |
| `MC*` | constants for TLC; one or more `.cfg` each |

Operators named "Mutant" in their comment are not part of a model: each is a
plausible mistake in the definition next to it, and replacing that definition by it
must break a property.

### Pool

`byUID` is the Go map (a function on the uids present), `file` the decoded
`state.json`, `now` the wall clock, `durable` a history variable that says whether the
last read or write of the file succeeded.  A method is one action, because it holds
the mutex throughout, `saveLocked` included.  `saveLocked` may fail when `DiskFaults`;
as in the code nothing notices.  A credential is `Credential` or `Placeholder`: `load`
creates entries with a bare uid, `Add` replaces the auth.  `Restart` is `main`: `load`,
then `Add` for every credential file, of which any may have appeared or vanished.
A zero time is `0`; real times start at `1`.

`PickExcluding` returns a set, any member of which the code may return: Go's map order
decides between equally rich accounts.  `PickLoop` models the loop, and `PicksRichest`
is the statement that links the two.

### ChatRotation

A request is a record of the handler's locals.  Its steps end where other goroutines
can tell the difference: an upstream reply, an access to `LastBody`, a pool method.
`LastBody` is unsynchronised; a goroutine that reads it after another one wrote may see
either value or a torn slice (`ReadableBodies`).  Upstream replies are external and
arbitrary within `Replies`; a transport error is one of them.  Background loops take
the list of enabled accounts once and work it off, so what they apply may be stale.
The module EXTENDS `Pool` and uses its operators as the calls, which is how
`ChatImplementsPool` can say that the composition never does anything else to the pool.
A request also carries what the statistics have been told: `counted` is the number of its
`AddFailure` calls, `recorded` of its `RecordTokens` calls; `refused` is history, the
attempts given up because the refresh was refused, which the code counts nowhere.

### Credentials

`objs` are the `Auth` objects the pool has pointed to, in the order of their `Add`; a
goroutine keeps the one it was given, so a login may replace it while its refresh is
under way.  A token is a login session and the number of times the server rotated it.
`RefreshToken` ends a step at the server's answer and at the assignments to the
object; `SaveAtomic` is the document and a temporary file of its own, the writing, and
the rename, each of which may fail, and between any two of which the process may
crash.  `Restart` is `LoadDir` and `Add`.  The server is external: it
may rotate a refresh token, and then rejects the old one.

Three history variables name what the properties have to except, each as narrowly as the
code allows: `behind` tells how the last save to end has left the file, `passed` has the
goroutines whose save was overtaken by one with a newer token or whose object a login
replaced, `crossed` those whose refresh overlapped another one of the same object or met
such a login.  A crash, a failing write and a lost answer are no exceptions.

### Settings and Scheduler

`Settings` has one action per critical section of `schedule.go`; `adminScheduleSet`
has two (`AdminGet`, `AdminSet`), because it calls `Get` and then `Set`.  A change
channel is the number of changes before it, closed once that number has grown.  The
interval goes to disk as hours, minutes and seconds and is parsed back
(`fileFormat`, `Loaded`).  `Reset` removes the file and takes the configuration but for
its model refresh hours (`Defaults`), which come back with a restart.

`Scheduler` adds `Run`: `Snapshot` and the next due times, `select` over timer and
channel (`Changed`, `Due`), and the tasks, which take up to `TaskTicks`.  Progress is
maximal: a goroutine that can run does so before the next tick of the clock.

### CheckinRecords, CheckinPage, Checkin

`Add` appends, cuts and saves in one step, under the mutex; the save may fail.
`Page` counts from the end of the filtered list.  `CheckinPage` adds the page of the
admin interface whose reader goes on from page to page, with the pager's rule for the
last page, while check-ins add records and the server restarts.

In `Checkin` a run of `RunCheckinNow` lists the enabled accounts and for each one
makes five calls, one step each: balance, slot, context, claim, balance; then the pool
and the records are told.  Any call may fail; the claim may be granted and its answer
lost.  The context says whether the account has claimed and whether a `check_in` is
offered; both ways of skipping the claim are recorded alike, and the history `unoffered`
tells them apart.  The history `rival` of a record says that another check-in was granted
the account after this one had seen it unclaimed.  A chat that is told "no credits" tells
the pool some time later (`Refuse`, `Exhaust`).  The upstream's accounts (what was
granted, spent, claimed today) are external.

### ModelStore

The handler and the scheduler each pick an account with the loop of `PickLoop`, ask the
upstream and call `Set`; chats run the same loop with what they have tried.  Calls of
the loop hold a read lock and do not see one another, so the model runs one at a time;
in between the pool changes in any way.  A list is the number of upstream's change it
was read after; seeds are 0.  `adminModelsRefresh` picks twice and uses the second
account, which may be nil: `FetchModels` then panics, net/http recovers, the list stays.
`Set` replaces and saves under one lock, the save may fail, a restart loads the file.

### WebLogin and OneShot

`byID` is the session table.  `Start` is `NewLogin` and `put`, which clears what has
expired and then may refuse; `Take` is the completion up to the comparison of the
state; then the exchange, and with its answer the login becomes the login of
`Credentials`, whose save and add follow.  Every step of `WebLogin` is a step of
`Credentials` or leaves its variables alone.  Against `OneShot` a session is new, open,
claimed or closed, and its code has been sent so many times.  `code` is the code a
completion brings, which may belong to another session than the one it names (`login`):
the state is compared after the session was taken.  Expiry happens in the order in which
the sessions were put.  `OpenLinks` are the links whose page has not been returned and
which have not expired, counted from what was given out and named, not from the table.

### Stats, Totals, Sse, Usage

A row of zeros stands for a row that is not in the map; prompt and completion tokens
are one number.  `Flush` is two steps, encoding under the lock and writing after it;
`broken` is the disk's state, which stays as it is until `DiskChanges`, so that
fairness can speak of a disk that works.  Seen through `Totals` the recorder is two
numbers, events in memory and events in the file.

In `Usage` a line of the stream is two halves and a newline, and whatever was sent may
be read in one go or in several; upstream ends it anywhere, with EOF or an error.
`TapReader.feed` is one step per line it finds, because each is a `RecordTokens` that
other goroutines can see.  `Stream` writes whole lines as it gets them, `Aggregate` is
`Sse`'s fold over the lines that decode.  To keep the states few a behaviour follows
one answer (with the flusher beside it) or the recorder with everything that can happen
to it: events of any request, disk faults, the stop, a crash.  The two meet in the
recorder's data only.

### CommandLogin

The two processes and the script meet in files that are not written atomically, and a
deadline may come at any pass of a loop.  By hand the link is on the screen once it is
printed; in `login.sh` it is captured by `$(...)` until the process ends.

## Runs

| Run | Shows | Bounds |
|---|---|---|
| `pool` | the pool's invariants and the rule of return, under failing saves, restarts and ticks | 2 symmetric accounts, balances 0/1, durations 1 and 2, threshold 2, 1 reason, clock to 2: every order of two overlapping cooldowns, an expiry, and a restart from a stale file fit |
| `models` | a richest healthy untried account for every map order; the upstream is asked with an account that fits; the model list goes back only by overlap or restart | 3 symmetric accounts, balances 0/1, a handler and a scheduler, 1 change of the list, failing saves, restarts |
| `chat_race` | attempts bounded, failures penalised, 402 never misread, every request answered | 2 requests, 2 accounts, 2 kinds of reply, an administrator who keeps enabling, threshold 1 |
| `chat_background` | `ChatRotation` implements `PoolSpec`; every attempt upstream fails is counted once, exactly those, and tokens only for a served one | 1 account, 1 request with refresher, keeper, admin, restart, clock, 6 kinds of reply, 2 usage frames |
| `chat_own_reply` | **violated**: the penalty may follow from another request's reply | 2 requests, 2 accounts |
| `web_login` | a session is consumed once and with its own code, and refused only when that many links wait; a login is on disk before it is used; the file stays whole and catches up unless the last save failed, was overtaken or was of a replaced object; tokens never go back in memory; a refresh that nothing crossed disables only an account without a usable token | 2 symmetric goroutines, 2 sessions in a table for 1, 2 credentials, 2 rotations each, all faults |
| `scheduler` | no change is missed and each reaches the loop, no hour runs twice, none that comes while the loop waits is skipped, a restart brings back what was saved | 1 loop, 1 administrator, 2 changes, 4 hours of 2 ticks, 10 ticks: past midnight; tasks of up to a tick; failing saves; a configuration with hours for every task |
| `scheduler_twice` | **violated**: each hour's tasks are run by two loops | 2 loops |
| `checkin_page` | the newest records are kept, pages partition them, the reader misses none | room for 3 records, 5 check-ins, page sizes 1 and 2, filter on and off, failing saves, restarts |
| `checkin` | gains are explained by grants and spending, errors by failing calls or lost races, an undisturbed run claims for every account that is offered a check-in, a funded account leaves its cooldown | 1 account, 2 runs, 2 days, room for 1 record |
| `usage` | each usage frame is counted once however the stream is cut; streaming and aggregated answers agree; a stream ends with one `[DONE]`; the reports add up; the recorder implements `Totals`; what is counted reaches the file | 3 lines of 9 kinds, 4 pieces unread; 3 events of 2 models in each life of the process, disk faults, stop and crash |
| `login_script` | **violated**: the link is shown when the callback server is gone | none needed |

Times are in ticks; only their order matters: soft 1, error 2, hard 3 for 60 s, 10 min,
12 h in the chat runs, half an hour in the scheduler's.  Two requests, goroutines or
check-ins suffice for the races because each concerns one pair of accesses.  In
`checkin` accounts do not interact but through the records and the order of the loop;
with one account, one account's failure before another's turn does not occur there.
In `usage` three lines hold two interleaved tool calls, a usage frame next to a `[DONE]`,
and a line cut after any piece; a read may split one line or join two.  In `models`
three accounts let the richest come first, in the middle or last.

Deadlock is checked everywhere but in `usage` and `login_script`, where an answer or the
commands come to an end.

### Fairness

- `chat_race`: `WF(RequestStep(r))` only.  Upstream calls time out
  (`Client.HTTP.Timeout`), no pool method blocks on anything but a mutex that is always
  released.  No client, administrator or clock is forced to act.
- `scheduler`: `WF(LoopStep(l))`, since a goroutine that can run does; `SF(Changed(l))`,
  since Go's `select` picks among ready cases at random and a channel, once closed,
  stays ready; `WF(Tick)`, time passes.  No administrator is forced to act.
- `usage`: `WF(Encode)` and `WF(Write)`, the flusher is a goroutine with a ticker whose
  writes return; `WF(Restart)` once the process was told to stop, since `main` then
  returns.  Nothing is assumed of upstream, of clients or of the disk:
  `TotalsReachFile` has a disk that works in the end as its hypothesis.

## Findings

The three violated runs are disagreements between the code and what it says of itself;
`PROJECT.json` quotes the lines.

1. `LastBody` is shared: a request may be penalised for another one's reply
   (`handler.go:266`).
2. `main` starts the scheduler twice (`main.go:80` and `:107`).
3. `login.sh` shows the link when `login url` has ended, and `login url` ends when its
   callback server is gone (`login.sh:33` against `login.sh:8-9`).  Nobody can follow the
   link, so the script can only time out; its success branch is never reached.

Also met while modelling, and part of the models unless it says otherwise, but without a
run of their own:

- `SaveAtomic` calls that overtake one another leave the older refresh token on disk
  (`auth.go:167`); so does a refresh whose save ends after a login has replaced its object:
  the login's new credential is overwritten by the old session's (`scheduler.go:254`,
  `handler.go:253`); and a last save that fails leaves what was there.  `FileCatchesUp`
  excepts these three and says that no other order of saves and crashes leaves the file
  behind;
- a softer failure that comes later shortens a hard cooldown (`pool.go:178`);
- a restart makes placeholders of accounts without a credential file, and they may be
  picked (`pool.go:313`);
- `Reset` clears the model refresh hours, where its comment and the README promise the
  configured ones (`schedule.go:109` against `:97` and `README.md:135`); a restart brings
  them back, which `RestartKeepsSettings` names as its one exception;
- statistics count every usage frame and every failed attempt, where a comment says that
  a chat is counted when it ends (`handler.go:301`, `main.go:75`): a chat that three
  accounts fail counts three times, an answer with two frames twice, one with none does
  not count, nor does one whose aggregation fails or an attempt whose refresh is refused;
- the second pick of `adminModelsRefresh` may find no account, and `FetchModels` then
  panics with the nil one (`admin.go:371`); net/http recovers;
- `dirty` is never cleared, so every tick rewrites the statistics (`stats.go:109`), and
  nothing makes `main` wait for the last flush (`stats.go:93`);
- `Stream` promises a `[DONE]` (`sse.go:193`), but a last line without its newline glues
  to it, and a read error sends none; `ClosedWithDone` says when there is one;
- `Aggregate` goes on after `data: [DONE]`, where its comment says that it ends there
  (`sse.go:41` against `:15`): text after it is in the aggregated answer and a streaming
  client, which stops reading, does not see it; `SameAnswer` is about upstreams that are
  silent after `[DONE]`;
- two refreshes that overlap, with a rotating token, disable an account whose session
  is alive (`scheduler.go:250`, and `handler.go:280` for a chat's own reply, which is not
  part of `Credentials`); a lost answer with a rotated token leaves a live session without
  a token the server takes, and the next refresh disables it, too; `OnlyDeadDisabled` says
  that there is no third way;
- two administrators who save the schedule at once may undo one another's change
  (`admin.go:458`);
- a task that runs across an hour makes that hour wait for the next day
  (`scheduler.go:73`);
- `nextFire` adds 24 hours, which is not a day when the clock is put forward or back
  (`scheduler.go:47`; outside the model);
- of two check-ins of an account that overlap the slower may record an error, where
  the README calls an account that has checked in a normal result (`README.md:171`);
  `ErrorsExplained` says that without a failing call this race is the only way;
- an account that has not claimed and is offered no `check_in` is recorded as
  `already_claimed` (`checkin.go:160`);
- a chat's answer "no credits" from before a check-in's grant cools the account down
  again after the check-in (`handler.go:272`);
- `login poll` may read a result that is half written, and the callback page says
  success even if the exchange failed; the time-out message says 5 minutes where it is
  10 (`cmd/login/main.go:360`, `:368`; the wording is outside the model).

## Proofs

Every theorem holds for all values of the constants that satisfy the named `ASSUME`s.

**`PoolProofs`** proves every property of the run `pool`.  `Inv` adds `FileBounded` to
them: after a failed save the file is older than memory, and since a restart loads it,
the cooldowns in it have to be bounded too; without that conjunct `CooldownBounded` is
not inductive.  Each method replaces one entry and saves, so one lemma
(`UpdateAndSave`) carries the argument.  `PoolReturns` proves the action property
`ReturnsOnlyByRule` from the same invariant.

**`ModelStoreProofs`** proves the loop invariant of `PickLoop`, call after call on a pool
that changes between the calls, and from it `PicksRichest`, once for the loop alone and
once under `ModelStore`, which also cuts the loop off by a restart.  `AskedFits` rests on
it: a refresher that is picking is the one that runs the loop (`Calling`), and a handler
that goes on has seen an account (`Found`).  `ListGoesForward` needs `ListInv`: a list that
waits for its `Set` is no older than the one served, unless another `Set` came between.

**`ChatProofs`** proves that every step of the composition is a step of the pool or
leaves it alone (`ChatImplementsPool`), so all of `PoolProofs` holds of it, for any
number of requests and background loops.  Its invariant `LocalsOK` types the locals and
says that whoever is about to call the pool has an account in hand.
`ChatPaymentRequired` is the part of the classification the race cannot spoil.
`RotationBounded` and `AttemptCountedOnce` follow from one invariant (`AttemptsOK`): the
accounts tried are as many as the attempts, and until an attempt is given up the count is
below them; that the bound holds for more accounts than the run `chat_race` has is seen
here only (with two accounts and two attempts TLC cannot exceed it).  `FailureIsPenalised`
adds that only `PenaliseRefresh`, `ChatTransportError`
and `Penalise` send a request that has an account back to the pick (`ToPick`).

**`WebLoginProofs`**, first about `Credentials`: the invariant says of each goroutine what
its step relies on (`LocalsOK`): one about to rename has its own whole document in its own
temporary file, one about to add has had its session on disk.  `NeverBackwards` needs
`Pending` and `OnePending`: between the server's answer and its assignment the answer is
newer than the object, and no two goroutines hold such an answer for one object, since
the server rejects the older token.  `FileCatchesUp` needs `FileInv`: what each save under
way will leave in the file, that a document older than its object is marked as passed, and
that the file holds the pool's credential unless the mark `behind` or a save under way says
otherwise.  `OnlyDeadDisabled` needs `KnownTokens`, nobody holds a token the server has not
given out, and `UncrossedOK`: a refresh that nothing crossed has the pool's object for
itself, so that a token refused is one no other goroutine is about to replace.

Then two refinements.  Every step of `WebLogin` is a step of `Credentials` or leaves its
variables alone (`WebLoginImplementsCredentials`), so all of the above carries over to web
logins without a proof of its own.  Against `OneShot` (`WebLoginConsumesOnce`) the
invariant `InHand` says that a session in a handler's hand is in the table no more and in
no other handler's hand, that its code has not been sent, and that what is sent is its own
code.  The bound of the table is a statement on cardinalities (`WebLoginTableBounded`).
`WebLoginRefusedOnlyByLive` needs `LinksOK`: a link that waits for its page is in the table,
and what is in the table beside those has expired, whichever steps came between.

**`SchedulerProofs`**: `ChangesSeen` rests on a loop's settings being those of its
channel's number unless that number has grown; `HoursOnce` on the next due time being
later than every hour the loop has run (`LocalOK`, `FiredOK`), by `NextFireLater`.
`NoHourMissed` looks at the hours a loop has still to run (`Open`): none of them is past
while it computes, waits or works (`Watch`), and the time it waits for is not later than
the first.  It needs what `nextFire` computes to be the earliest of its hours, which is
arithmetic on days, and a day that is a whole number of hours (`WholeHoursAssumption`).
`SettingsSurvive` has no hypothesis on the configuration: after a reset without a file the
settings are `Defaults`, and only there a restart makes a difference.  That an interval survives its way to disk
is the lemma `IntervalRoundTrip`, on division.

**`CheckinPageProofs`**: the list is the newest records of all there were.  It needs
the history `log` to be what the file holds after a restart, hence the conjunct
`durable => file = records`, and a lemma on what `Newest` keeps of a sequence.
`PagesHoldEach` takes the loop that filters to what it keeps, in which order, and then
places each index on one page: the pages are cut from the end, so page `p` of size `z`
ends `(p - 1) * z` records before the last.  `WalkSeesAll` counts from the end, too: while a
reader is on page `p`, a record not seen yet has at least `p * z` newer ones that pass the
filter (`Ahead`).  An `Add` only raises that number, since it takes away the oldest record,
and if there are that many there is a next page.

**`CheckinProofs`**: `RunsOK` says what a check-in under way knows.  `Counted` is its
heart: a balance in hand was the account's when `granted` and `spent` were noted, and what
the claim brought was granted since, so the difference of two balances is grants less
spending, whoever else claims meanwhile.  `Claiming` accounts for every listed account: it
has claimed, was not offered to, is to come, or is the one in hand before its claim is over;
this is where a refused claim counts as well as a granted one.  `Explained` says that a run
about to claim what is claimed already has a rival; the step that grants a claim gives one
to every other run at that point (`BeatenOK`).

**`UsageProofs`** proves that the recorder implements `Totals`, under every answer that
uses it.  The mapping reads the events off the totals row in memory and in the file; the
invariant `Ordered` places the document of a flush under way between the two, which is
why a flush may only move the file forward.  `UsageRowsAddUp` is about sums over any finite
set of names (`FiniteNames`).

The stream's properties follow from one invariant, `StreamOK(e, c)`: what the client has,
what is buffered, in the hands of `feed` and on the wire are consecutive cuts of what
upstream sent, the client having `e` whole lines and the tap having looked at `c`.  Hence
`UsageFramesCountedOnce`, however reads and lines interleave, and `StreamClosedWithDone`.
`StreamSaysTheSame` adds what `Aggregate` makes of the lines: after `k` lines the answer
says what the first `k` say (`GoodAnswer`), its texts, and for each call its last name and
its arguments in order; lines after `[DONE]` that say nothing may be left out (`SaysLess`).

**Loops.**  Sums, filters and the aggregation are folds, whose library definition is a
recursive function.  Induction over it as a library theorem takes an operator as parameter
and is not available; instead each proof takes the smallest set, the shortest list or the
first line for which the claim would fail (`LeastNumber`) and shows that it does not fail
there.  That such a recursive function exists is proved the same way (`SumExists`,
`LoopExists`).

Assumed are the named `ASSUME`s only: that the model names are finitely many and a day
is whole hours, that limits are natural numbers, that the sets of values are what the code
compares, and that stand-ins like `Absent` are no documents.  TLC evaluates each in a run.

Model-checked only: liveness (`EveryRequestAnswered`, `SettingsReachLoops`,
`TotalsReachFile`), as liveness under fairness and `ENABLED` are out of the prover's reach,
and the counterexamples.  Every invariant and action property that a passing run checks
is a theorem.  No module declares a `RECURSIVE` operator.

## Plan

What is left, in this order:

1. Composition: `Checkin`'s pool steps shown to be steps of `Pool`; `Scheduler` with its
   tasks (`Checkin`, credit refresh, keepalive) over one `Pool`.
2. `CommandLogin` by hand as a run of its own: whoever follows the link in time gets a
   credential file.

A run answers one question, so a new property joins the run that asks its question.

## Not modelled

- Parsing of configuration, environment and credential files: plain data handling.
- Request bodies, and of answers everything that no property reads: ids, creation times,
  roles, finish reasons and reasoning text of SSE frames, error bodies beyond what
  classification looks at; `clientVersion`, whose failure falls back to a constant.
- Lines of more than 64 KiB in `TapReader`; a recorder or a model list without a file.
- Authentication (`withAuth`) and the endpoints that only read.  `GET /api/v1/auth/me` asks
  upstream for a balance and with that writes `LastBody` (`client.go:81`), as the balance
  queries of `ChatRotation` do; it changes nothing else.
- A chat's own reply disabling an account (`handler.go:280`) is in `ChatRotation`, where the
  reply is upstream's choice, not in `Credentials`, where tokens decide.
- `cmd/credit`, which asks for balances and prints them, and the scripts but `login.sh`.
- `admin.html` but for the check-in page's paging: presentation.  The order in which
  the answers to two page loads arrive is the browser's.
- Changes of the wall clock's offset (daylight saving time).
