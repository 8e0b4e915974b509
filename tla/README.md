# Verification of endless-ssh-rs-with-web

TLA+ models of the SSH tarpit and its dashboard, the TLC runs that check them on small
instances, and theorems about them checked by TLAPS. Paths below are relative to
`src/crates/endless-ssh-rs-with-web/src/` for Rust files and to `src/front-end/src/` for
TypeScript files. `PROJECT.json` lists every component, run, hazard and theorem, and maps every definition
to the lines it translates.

## The system

An accepted TCP connection that gets a permit is trapped: a task sends it a random line every
few seconds until the peer leaves or the process stops. What happens to it is told, through
a bounded channel of events, to one event processor, which keeps the map of active
connections, records ended connections in PostgreSQL and broadcasts everything to the
dashboards.

| part | code | state | operations | talks to |
|------|------|-------|------------|----------|
| listener | `listener.rs` | the semaphore of `max_clients` permits | bind, accept, try_acquire, spawn a client task, send `Connected` | client tasks (spawn), processor (channel), tokens |
| client task | `client.rs`, `sender.rs`, `ffi_wrapper.rs` | `bytes_sent`, `time_spent`, its permit, the next line's time, an epoll | wait, send a line, `try_send` of `BytesSent`, notice that the peer is gone, end, send `Disconnected` from a task nobody tracks | processor (channel), tokens |
| line generator | `line.rs` | none | a random line that does not begin like an SSH banner | client task |
| event processor | `events.rs` | `active_connections`, the receiver | handle each event: map, then database, then broadcast | PostgreSQL, dashboards |
| ledger | `db.rs`, migrations 0002, 0012 | tables `connections` and `totals` | `insert_connection` in one transaction, history and totals queries | - |
| supervision | `main.rs`, `server.rs`, `signal_handlers.rs` | two cancellation tokens (the clients' one is a child of the main one), drop guards, two task trackers | start the tasks, wait for a signal or a failure, drain, join, exit | every task |
| GeoIP cache | `geoip.rs` | a database file and its etag, on disk between starts | check, download, map, remove and retry | start-up, processor |
| web-socket session | `router/ws_router.rs` | broadcast receiver, `last_sequence` | subscribe, snapshot, totals, init, replay, forward, catch up | map, tables, browser |
| dashboard state | `lib/ws-state.ts` | list of connections, totals, two marks | one reducer case per message | components |
| web-socket hook | `hooks/use-web-sockets.ts`, `components/app.tsx` | socket, retry, stability and watchdog timers, backoff | dial, message, close, retry, nudge, dispose | session |
| statistics queries | `db.rs` (`get_stats`), `router/api_router.rs`, migrations 0014-0023 | rollup tables, retention | complete a request, choose a tier, query | browser |
| time range and charts | `components/time-range-selector.tsx`, `lib/stats-buckets.ts` | chosen range, fetches under way, flags | fetch, abort, refresh, fill buckets | statistics queries, hook |

### What is hard in it, and what makes it correct

*Admission.* Permits are taken in the listener and given back in another task; `Connected`
is sent by the listener after the client task is already running, so the two events of one
connection race. Right means: never more than `max_clients`, never a lost permit, each
connection announced, the map equal to what is trapped.

*A client in time.* Each wait for the next line ends by its timer, by the epoll, by a spurious
event of the epoll or by the token; a task may be late, a write may stall. Right
means: the recorded time is neither made up nor lost, lines keep their distance, a peer that left is noticed.

*Recording.* The processor awaits three database statements while the channel fills up; any
of them may fail, and the process may die between them. Right means: a connection is recorded
at most once, with its final total, and the totals are those of the rows.

*Shutdown.* Two tokens and three guards cancel each other, tasks end in any order, and
`start_tasks` waits twice with a timeout. Right means: every cause ends in an exit, failures
are reported only for failures, nothing that was trapped is forgotten.

*Following.* A session reads the map, the totals and the history at three moments while
all three change, lags behind a bounded broadcast channel, and is replaced by another one
after a disconnect; the browser's view survives it. Right means: every row counted once, none
skipped, no active connection missing, no ended one left.

*Reconnecting.* Three timers and the handlers of an old and a new socket share the variables of one
effect. Right means: one socket, which is replaced when it closes or goes silent, and none after the cleanup.

*Statistics.* The newest of several fetches must win, whatever order they end in; a query runs
later than the choice of its table, which forgets old buckets meanwhile; server and
browser compute the same grid. Right means: what is shown is of the chosen range, complete and not stale.

*Files across starts.* Two files that must agree are written and removed one after the
other, by a process that may be cut off in between. Right means: no start is misled for good.

`PROJECT.json` names each hazard with its line and the properties that watch over it.

## The modules

| module | models | theorems in |
|--------|--------|-------------|
| `ConnectionLedger` | what the tarpit promises: abstract specification, no tasks, no channel, no statements | `BackendProofs` |
| `Tarpit` | listener, client tasks, channel, event processor, transaction | `TarpitProofs`, `BackendProofs` |
| `Backend` | `start_tasks` around `Tarpit`: web server, signals, supervisor, timeouts (EXTENDS `Tarpit`) | `BackendProofs` |
| `ClientSession` | one client task in time (EXTENDS `RandLine`) | `ClientProofs` |
| `RandLine` | the line generator | `ClientProofs` |
| `GeoIpCache` | database file and etag over starts, failures and crashes | `GeoIpProofs` |
| `LiveFeed` | processor's broadcasts, web-socket sessions, reducer | `LiveFeedProofs` |
| `WebSocketHook` | the effect of `useWebSocket` | `DashboardProofs` |
| `TimeRangeSelector` | the fetches of the statistics | `DashboardProofs` |
| `Dashboard` | `App`: composes the two modules above | `DashboardProofs` |
| `Statistics` | a statistics request, from the handler to the chart | `StatsProofs` |
| `MCTarpit`, `MCBackend`, `MCClientSession`, `MCLiveFeed`, `MCWebSocketHook`, `MCDashboard`, `MCStatistics` | instances for TLC | - |

`SumLemmas` models nothing: it has what `TarpitProofs` and `StatsProofs` need to know of sums.

Definitions that a comment calls a mutant are variants of the definition after them with a
plausible bug. No specification uses them: put in the place of the original, each makes TLC find the property
violated that `PROJECT.json` names for it.

### Tarpit

| variable | code |
|----------|------|
| `listener`, `incoming` | program counter of `listen_for_new_connections` and `accept`, the socket at hand |
| `task`, `sent`, `gone` | program counter and `bytes_sent` of each `handle_client`; what the kernel knows of its peer |
| `permits` | the semaphore |
| `channel` | the mpsc channel of `ClientEvent` |
| `processor`, `handling` | program counter of `database_listen_forever`, its Disconnected event |
| `active` | `active_connections`, keyed by address |
| `rows`, `totals`, `nextId`, `tx` | the two tables, the sequence, what the open transaction sees |
| `clientsCancelled`, `mainCancelled` | the two tokens |

One action is one stretch of code between two awaits. `Admit` spawns the task,
`Announce` sends `Connected`: in between the client task may run to its end. A send that waits
(`Announce`, `ReportDisconnect`) is enabled when there is a slot; `SendLine` drops its update
when there is none, and may also drop it while other senders wait, since tokio hands a freed
slot to a waiting sender first. The listener looks at its token only where the code awaits:
in `accepting` and `announcing`, not in `admitting`. A `Crash` loses everything but the
committed tables; crashes matter to what is recorded, and the process starts again.

Left out: time (`ClientSession` has it), bytes inside a line, geo data,
transient accept errors (which change nothing), the retention policy that drops rows from the
table after a day.

### Backend

`TaskStep` runs the tasks of `Tarpit`; `SeeFailure`, `SeeSignal` and `RegistrationFails` are the biased select (its first poll
registers the handlers, and a signal before that would end the process at once, as `Crash` does in `Tarpit`),
`EndDraining` the end of the first wait, `Exit` that of the second. `DropServerGuard` and
`EndDraining` cancel the main token and with it its child. `failed` records which task stopped on its own.
After `exited` nothing moves: the runtime is gone.

### ClientSession and RandLine

| variable | code |
|----------|------|
| `now` | the monotonic clock, since the connection was accepted |
| `phase`, `line`, `bytesSent` | waiting for the next line, sending it, ended |
| `epoll` | whether `create_epoll` worked; without it only the timer and the token are awaited |
| `sendNext`, `waitStartedAt`, `timeSpent` | the variables of those names |
| `peer` | there, stalled (it reads nothing) or gone |
| `cancelled` | the token |
| `idle`, `sentAt` | history: time past the end of a wait; when the last line was finished |

A task resumes any time after what it awaits is there, so `Tick` may overtake every step. A spurious wakeup
starts the loop over, and with it the wait, as the code does. A line is a sequence of
bytes of which only those matter that the banner is made of; `Draws` are the generator's
possible outputs.

### GeoIpCache

A database is known by its version, and its etag by the version it stands for: `db`
and `etag` are the two files, `reader` the mapped one. One action per file operation: the etag is
written when the headers are there (writingEtag), the database when the body is (unpacking;
`Partial` is what a write that fails midway leaves), both are removed one after the
other, and either removal may fail (`RemoveDbFails`, `RemoveEtagFails`), which the code logs before it goes on. `Crash` cuts
a start off anywhere; `Publish` lets the server's version go up in between. Two variables are history: `failed` is about this
start; `stuck` says that the database on disk is one whose removal has failed, until it is removed after all or
another one is unpacked in its place.

### LiveFeed

The processor's input is any stream of events that `Tarpit` allows, including a late
`Connected`. Map, row and broadcast are separate steps, as sessions run on other threads. A
session goes through `dialled`, `reading` (one map entry at a time), `counted`, `querying`,
`replaying`, `live`; a session that lags returns to `querying`, since its catch-up is the same query
with the same loop. `records` are the rows a replay has yet to send, in the order of their ids;
`inbox` holds the broadcasts a receiver has not taken; more than
`BroadcastCapacity` of them means that the oldest are overwritten. `view` is the reducer's
state and survives sessions and restarts.

A message and its effect on the view are one step. Within one socket messages keep their order, a
message lost with its socket is as if never sent, and the server does not wait for the
browser, so nothing else can tell them apart. Addresses are not reused here: the
reducer's `isSameConnection` is then equality of connections. `view.total` counts connections; bytes and time
are summed at the same place in the same way.

### WebSocketHook

| variable | code |
|----------|------|
| `readyState` | of each socket; "dead" is OPEN with nobody behind it, "deferred" CONNECTING with `closeSocket`'s close to follow |
| `socket`, `backoff`, `isDisposed`, `status` | the variables of those names |
| `retryTimer` | none, pending, or fired: the callback does not reset the variable |
| `lostRetries` | pending timers that `retryTimer` was overwritten with |
| `stableTimer`, `stable` | the socket whose timer the variable holds; the sockets that have one pending |
| `watchdog` | the socket whose watchdog is pending |

Handlers are one action each, timers fire after any time. A name of a closed socket is used again, so that
the hook runs forever with two names. `nudges` counts the window's events that find a fired
timer; everything else is unbounded.

### TimeRangeSelector and Dashboard

`selected` is the state, `bound` the range the effects and handlers of the last render see:
`Select` changes the first, `SelectedEffect` the second. `current` is `abortReference`; a
fetch is known by its controller and is waiting, aborted (its rejection still to be handled) or idle. `shown` is
what `onData` last got. Data is `fresh` when its fetch has begun after the last gap of the web
socket.

`Dashboard` runs both: `Opens` is the hook's `open` event, which makes everything fetched before it stale when
the socket was not live; `Render` hands the status down as `isLive`, `BecomeVisible` runs the
listeners of both.

### Statistics

A request is `parsed`, `chosen` (a table), `answered` and `shown`, or `refused` or `failed`; time passes and
connections end in between. What a query finds is what the rollup tables have at that moment:
at least the buckets within the retention, at most everything, and not
necessarily what ended in the last `Lag`. `TIERS` is the table of the source; it is an
instance of what the module assumes of `Tiers` (`Graded`), by `TableIsGraded`.

## The runs

| run | instance | shows |
|-----|----------|-------|
| `tarpit_safety` | 3 connections, 2 permits, channel of 2, 1 line, 1 crash, sockets and statements may fail, symmetry | permits, events, entries, rows and totals stay consistent; ids appear in order |
| `tarpit_progress` | 2 connections from one address, channel of 1, 2 lines, fair | nothing lost, every connection whose peer left recorded, cancellation reaches all |
| `backend` | 2 connections, 1 permit, channel of 1, timeouts, failing tasks, statements and registrations, fair | refinement of `Tarpit` and of `ConnectionLedger`, honest exit status, every cause ends in the exit |
| `client_session` | delay of 3, clock to 8, lines of 3 to 7 bytes near the banner, fair | recorded time, distance of lines, no banner, a gone peer noticed, a cancelled session ended |
| `geoip` | 5 attempts, 3 versions, 2 crashes, any failures, fair | the files agree, a start without failures has a database, the current one unless a start was cut off or a database could not be removed; every start ends |
| `feed_safety` | 2 connections, broadcast channel of 2, 2 dials, 1 restart, failing writes, fair | exact totals, no row skipped, every row delivered while the socket stays open |
| `feed_degraded` | 2 connections, 1 update, every statement may fail, answers of commits may be lost | no active connection missing |
| `hook` | 2 sockets, 2 nudges, backoff 1 to 3, fair | never gives up, one socket at a time, dead sockets replaced, cleanup final |
| `dashboard` | 2 ranges, 2 controllers, 2 sockets, no nudges | what is shown when all is quiet is of the chosen range, and not from before a gap |
| `stats` | 3 tables with buckets of 1, 2 and 4, retention 3, 5 and none, weeks of 8, clock to 8, 2 connections of 2 countries, requests between any two of 5 times or open | the finest covering table, complete answers, points on the grid |

*Bounds.* Two connections race for a permit, a slot or an address; a third one waits meanwhile (fewer permits
than connections, so refusals occur). A channel of one or two slots is full most of the time,
which a channel of 1000 is at its worst moment; nothing in the code depends on the number. One crash
separates two lives of the process; two let a start find what another cut-off start has made of the files of
a first one. The lines are bounded by `MaxLines`, which
the code does not bound; one or two distinguish an intermediate total from a final one (`backend` has none:
its question is the supervision). A broadcast
channel of two holds one connection's events but not two connections', so a session may lag or not.
`HistoryLimit` is the number of connections, hence of rows. A delay of 3 is longer than a tick, so that waits end
early, late and on time; a clock to 8 has room for two of them, and what is proved of the client has no bound on its clock.
Two sockets are one and the one that replaces it, or that one of the two nudges dials beside it.
Two controllers are one fetch and the one it replaces, which may
still have to handle its abort; what is proved of both has any number of them.
In `stats` the tables are a few ticks wide, each twice as wide as the one before, so that spans and ages meet every limit of every
table, and a week (8) is a multiple of a day (4) anchored beside the origin, as Monday 2000-01-03 is.

`CHECK_DEADLOCK` is off everywhere: bounded peers are used up, requests end, and the process does stop.

*Fairness.* Weak fairness of what the program itself drives:
- each task of `Tarpit` and `Backend` that can run, which is what the runtime's
  scheduler gives, and the processor, whose statements end in success or error;
- in `Backend` the supervisor as well, but not its timeouts: `EndDraining` and `Exit` are fair only
  once the tasks have stopped, so that the exit does not lean on them. `backend` and `tarpit_progress`
  assume that the database answers, and `backend` that the requests which are open at the shutdown end (`ServerCancelled`); the
  timeouts of `main.rs` exist for the cases in which they do not;
- in `LiveFeed` the processor and each open session;
- in `ClientSession` the clock and the task that has something to resume for;
- in `GeoIpCache` the steps of a start (a request is answered or fails);
- in `WebSocketHook` the timers, and the browser's answer to a dial and a close.

None of peers leaving or reading, lines being written, signals, failures, timeouts, frames, dials, nudges or
sockets staying open.

## Where the code and its documentation disagree

Each of these is a run that TLC ends with a counterexample.

| run | property | what happens |
|-----|----------|--------------|
| `ghost` | `ListedAreTrapped` | a client that leaves at once: its `Disconnected` is queued before its `Connected`, and the entry stays in the map |
| `feed_ghost` | `DroppedIsDone` | a connection that begins and ends during the init of a session comes as disconnected (replay), connected, disconnected (dropped) and stays on the dashboard |

### What does not hold beyond that

The properties that are checked are as strong as the code lets them be. What they leave out:

- `LoggedAtExit`: the guards of the listener are dropped in reverse order (`main.rs:253`), which cancels the
  processor while drained clients still report; what they report is not recorded. `NothingLostInOperation` is
  about the time before.
- `NoTaskLeftAtExit`: a client accepted after the drain has ended (`listener.rs:98`) is killed with the
  runtime.
- A late `Disconnected` event removes the entry of the next connection
  from the same address and port, and a late `BytesSent` overwrites its bytes (`events.rs:192, 211`): `TrappedAreListed` and
  `EntryBytesAreItsOwn` need addresses of their own.
- A replay "of everything after it" is the newest 1000 rows (`ws_router.rs:245`): `NoRowSkipped` needs a `HistoryLimit` of the
  number of rows. And when the answer of a commit is lost (`db.rs:112`), the row exists, its
  event is never broadcast, and the next one moves every dashboard past it: it needs `~AcksMayBeLost`.
- An insert that fails loses its event (`events.rs:250`), so `NothingLostInOperation` needs `~DbMayFail`; and an init whose
  totals cannot be read says 0, so `TotalsExact` needs `~TotalsMayFail`.
- `Connected` events that a session missed by a lag are not in the table and do not come back
  (`ws_router.rs:236`): `NothingMissing` is checked with a channel that holds all events.
- `OneSocket`: an `online` or `visibilitychange` event that finds the retry timer fired but not reset
  (`use-web-sockets.ts:160, 168-176`) dials a second socket beside the first, whose close then clears the timers of the
  other. `OneAtATime`, `DeadIsReplaced` and `CleanupIsFinal` hold until there is such an event.
- With two such sockets on one dashboard, the init of the second replaces what the first has shown since that init was read: a
  connection is off the list, and a row that came meanwhile is under the mark and never counted, until the next init
  (`ws-state.ts:40`). `NothingMissing` and `TotalsExact` are of one socket at a time (`OneSession`);
  with two in `Sessions`, which no run here has, TLC finds counterexamples of seventeen states. `NoRowSkipped` holds with any number.
- A removal that fails is logged and nothing else (`geoip.rs:54-71`). If the database stays and its etag does not, it is never
  downloaded again (`geoip.rs:187-198`); if both stay after a body that failed, the old database is beside the new etag and
  counts as up to date, without any crash. `CachedHasEtag`, `EtagIsOfDatabase` and `CurrentUnlessCutOff`
  say `~stuck`: without it TLC finds each of them violated. An etag that cannot be removed does no harm by itself, and
  `CleanStartLoads` holds whatever could not be removed.
- `CleanStartIsCurrent`: a start that dies between writing the etag and the database (`geoip.rs:277`) leaves the
  old database under the new etag, and the next start takes it for current (`geoip.rs:144`).
  `CurrentUnlessCutOff` is the part without crashes and without a database that stays.
- "The last 7 days" are never served from the 5-minute table: it keeps 7 days, and the age of the request is 7 days and
  the way to the server (`db.rs:268`). `TierCovers` allows it; it is a matter of resolution.
- An auto-refresh whose interval is shorter than the answer takes aborts every fetch (`time-range-selector.tsx:179`), so
  no liveness is claimed of `TimeRangeSelector`.

## What is proved

All theorems hold for every value of the constants that satisfies the assumptions of
their module, and those that a theorem's `ASSUME` adds: any finite set of connections or sockets, any number of permits and slots, any
delay, any table of tiers, any bounds.

`TarpitProofs`:
- `TypeCorrect` - `TypeOK`, which also relates program counters to the values at hand, is inductive.
- `PermitsNeverLost`, `NeverOverCapacity` - permits plus running tasks equal `max_clients`; needs only `TypeOK`.
- `ConnectionsRecordedOnce`, `EventNeverDuplicated`, `TransactionIsOneRow`, `IdsArePositions` -
  from the inductive invariant `IInv`. `RecordedOnce` is not inductive: that a commit adds
  no second row of a connection holds because the event being written is nowhere else, which is
  `EventInOnePlace`; that the commit adds what the event says holds because the transaction differs from
  the tables by that one row, which is `TransactionAddsOneRow`.
- `TotalsCountTheRows` - `TotalsMatchRows`: the count in `totals` is the cardinality of `rows`, its bytes are the sum of
  theirs. From `IInv`, as a commit's row has a new id, and `SumLemmas`.
- `NothingIsLost` - `NothingLostInOperation`, while no statement fails (`~DbMayFail`; one that fails does lose its event,
  `events.rs:250`). From `IInv` and `StoppedIsCancelled`: the processor stops only after its token,
  so whoever waits for room in the channel has a receiver.
- `EntriesKeepTheirBytes`, `TheTrappedAreListed` - under `AddressesAreOwn` (no two connections share an address). The first
  also needs that no event on its way carries more bytes than its connection has sent. The invariant of the second
  follows a connection that is trapped: it is with the listener, its `Connected` is in the channel, or it is in the map, as long as
  the processor runs and nothing is cancelled.

`BackendProofs`:
- `TarpitImplementsLedger` - under the mapping that takes a connection's phase
  from its task, the channel and the table, every step of the tarpit is a step of the ledger or a stutter. Only
  `Commit` records, `InsertFails`, a crash and the end of the processor lose.
- `ProcessImplementsTarpit` - the supervisor only cancels, in ways `Tarpit`'s environment
  may. `ProcessRecordsOnce` carries a theorem over, `ProcessImplementsLedger` joins the two refinements.
- `FailuresAreReal` - by `CauseInv`: while
  `start_tasks` selects and no task failed, no token is cancelled and every task is in its loop.

`ClientProofs`: `NeverOvercounted`, `NeverUndercounted`, `LinesKeepTheirDistance` - by `ClockInv`, an account of the clock:
what has been credited lies before the last line, that before the wait, that before now; what is not
credited was idle, or belongs to the one wait that runs. It needs no bound on the clock. `NoBannerIsSent` - whatever is drawn,
`randline_from` makes a line of it that fits and is no banner (`RandomLineIsNoBanner`).

`GeoIpProofs`: all invariants of `GeoIpCache`, by `GeoInv`, with removals that may fail. `Paired`: a database gets its etag first
and loses it last, which no single step shows, unless it is `stuck`. `Recovering`: what is on disk can mislead a start without failures
once, at its first attempt, and the removal that follows makes the second one download; so two attempts are enough, also after
earlier removals that failed. `Matching` and `Current` say the same of versions, without crashes and for a database that is not
stuck. None of them has a hypothesis about the removal of the etag.

`DashboardProofs`:
- `HookNeverGivesUp`, `SocketsNeverOverlap`, `OpenSocketsAreGuarded` - by `HookInv`. `Orderly` is
  the rule that the variables of the effect keep without stating it: until a nudge finds a fired timer whatever is up is the last socket
  dialled, a retry is pending only when nothing is up, and the pending timers are the socket's own.
- `ShownIsSelected`, `ShownIsFresh` - by `DashboardInv`: only the newest fetch may still deliver and is for the
  bound range; a flag that is set has a fetch to clear it; the outcome of the newest fetch stays; while the socket is live
  and known to be, the newest fetch has begun after the gap.
- `HookWithinDashboard` - every step of the dashboard is a step of the hook or a stutter, so
  the theorems about the hook hold of it.

`StatsProofs`:
- `FinestCoveringTier` - the two searches of `get_stats` (by span, by age) and their combination
  give the finest table that covers both, for every graded table; `TableIsGraded` - the table of the source is one.
- `EveryConnectionIsCounted`, `ChartHasTheGrid` - by `AnswerInv`: the rows and the countries of an answer count one
  set of connections, which has all that the table had caught up with when it was asked and none that
  ended later (`Answered`); the chart has been filled with the grid of a range (`Charted`).
  The first then needs that buckets part the connections (`ConnectsByParts`), the second that server and browser
  cut time at the same moments, which is arithmetic of `%` and `\div` with a variable width: a bucket begins at a multiple
  (`BeginsAtMultiples`) and holds its moments (`BucketHolds`), and the browser's rounding up is the least such moment (`SnapUpIsFirst`).
  The solver knows nothing of a variable divisor beyond its definition, so these facts are lemmas of their own.

`SumLemmas`: a sum over a function, as the community modules fold it, has no value that the provers know. The lemmas
show by sets of finite subsets that there is exactly one, and how it changes when the domain or one value does
(`SumWith`, `SumChangedAt`), compare it (`SumOfLarger`) and regroup it (`SumByParts`).

`LiveFeedProofs`:
- `FeedTypeCorrect` - type correctness.
- `NothingIsPassedOver` - `NoRowSkipped` for any number of sockets, reconnects, lags and restarts, given `Acknowledged`
  (no lost answer of a commit, no query that fails midway) and `ReplaysAreWhole` (no replay is cut by
  `HistoryLimit`). The invariant `FeedInv` says for each session that its cursor is
  not above the mark of the dashboard, its inbox is ordered, a replay holds everything above the mark, and every row that is
  above the mark is in its replay, in its inbox or about to be broadcast. The last
  conjunct makes reconnects with an old cursor harmless and is why a session subscribes before it reads.
- `TotalsAreExact` - `TotalsExact` for one socket at a time and totals that can be read (`OneSession`, `~TotalsMayFail`), by
  `CountInv`: the total shown counts the rows up to the newer of the two marks, and what a session
  has counted and not yet sent reaches at least as far as the dashboard has seen.
- `CaughtUpMissesNothing` - `NothingMissing` for one socket at a time in which no session lags, as a step of `Lag` does
  lose (see above), while statements, answers, totals, replays, sockets and the process may fail. By `ToldInv`: for
  every entry of a connection that has not ended, what the session has read of it, or its dashboard shows, and the events still to come
  lead to its bytes (`LeadsTo`): the entry is there or a `connected` event is to come, and no update after the point at which it is
  up to date has fewer bytes. It rests on two facts about events: `EndsAreHeard` (no row and no event of an
  end precedes the end, so a replay removes nobody who is there) and `BytesAreHeard`.

Only model-checked:
- liveness under fairness (`GoneIsRecorded`, `CancellationStopsAll`, `ShutdownCompletes`, `EveryRowIsShown`,
  `GoneIsNoticed`, `CancelEndsSession`, `StartEnds`, `DeadIsReplaced`, `CleanupIsFinal`): fairness is about `ENABLED`, which the
  proof system cannot reason about.

Every invariant and every safety property of a step that a run checks is also a theorem. The hypotheses that some of them add are
in `What does not hold beyond that`, with what happens without them.

## What is left

In order of importance:

1. `LiveFeed` with two sockets of one dashboard, as a nudge may open them: `NothingIsPassedOver` covers it, and what else
   such a dashboard still promises is not stated.
2. `LiveFeed` with addresses that are used again, where the reducer's `isSameConnection` matters, and its list of the last 100 events.
3. The refresh jobs of the rollup tables and the archives of before their rebuild (migrations 0014-0023); `Statistics` has what
   a query finds.
4. An abstract specification of the dashboard (it sees a prefix of the rows, in order) and the refinement.

Not modelled, and not meant to be:
- `cli.rs`, the configuration in `main.rs`: parsing of arguments, without state;
- routing, static files, `server.rs` beyond its place in the shutdown: wiring of a library;
- the components that render the state, the page of the demonstration and its random events: no state the rest depends on;
- `db/conversions.rs`, `db/types.rs`: conversions without state, whose one limit (an interval of 292,471 years) nothing else in
  the system can reach;
- `ffi_wrapper.rs`, `tracing` and other wrappers of one call each; the epoll that `client.rs` makes of them is in `ClientSession`.
