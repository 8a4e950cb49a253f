# A TLA+ model of ensurer-v2

`ensurer-v2` runs *calculations* on an external HTTP service. A *run* groups the
calculations of one Jira issue. The daemon `runsd` accepts runs over REST or
GraphQL, keeps them in SQLite, submits each calculation to the service under a
bounded number of permits, retries transient errors, recovers after crashes and
publishes events; the terminal client `runs` shows them. This directory holds the
TLA+ modules of the daemon, its event stream and the client, the TLC configurations
that check them, and proofs checked by TLAPS.

All paths below are relative to `src/crates/`.

## 1. Inventory

| Part | Code | State | Operations | Talks to |
|---|---|---|---|---|
| Statuses | `common/src/model.rs` | none | `is_terminal`, `derive_run_status` | used by all |
| Database | `runsd/src/db/queries.rs`, `actor/db.rs` | tables `runs`, `calculations`, `events` | one function per SQL statement; the db actor runs one command at a time | every task sends it commands and waits for the reply |
| Calculation actor | `runsd/src/actor/calc.rs` | attempt counter, mailbox, heartbeat task | lease, submit, succeed, fail, back off, cancel | database, worker pool, external API, run actor |
| Run actor | `runsd/src/actor/run.rs` | senders of its calculation actors, number finished | spawn actors, count `CalcFinished`, refresh the run's status, cancel | database, calculation actors, supervisor |
| Supervisor | `runsd/src/actor/supervisor.rs` | `run_actors`, `calc_actors`, mailbox (64) | submit, cancel run, cancel calculation, reschedule, retry, shut down, restore | database, run actors, calculation actors |
| Worker pool | `runsd/src/actor/worker_pool.rs` | semaphore | acquire, release by drop | calculation actors |
| Watchdog | `runsd/src/actor/watchdog.rs` | rows listed in this tick | charge expired leases, reschedule ready retries | database, supervisor (`try_send`) |
| Startup and shutdown | `runsd/src/main.rs` | none of its own | sweep, restore, start tasks, graceful shutdown | everything |
| API | `runsd/src/api/*` | none | check, then send a command to the supervisor | supervisor, database |
| Event stream | `runsd/src/actor/event_bus.rs`, `api/sse.rs` | broadcast channel (bounded), table `events` | publish, replay, subscribe, lag, prune | calculation actors, clients |
| External API client | `calc.rs` 51-205 | poll loop | launch, poll, time out, classify the answer | external service |
| Client state | `runs/src/app/*` | lists, cursors, filters, overlays | `update` on keys, answers and events | main loop |
| Client main loop | `runs/src/main.rs` | channel `app_tx` (256) | take a message, update, send the effects; the input task puts keys and resizes into the channel | network task |
| Client network | `runs/src/network*` | last sequence number, channel `net_tx` (32) | command loop, imports, event task with reconnects | daemon, main loop |
| Rendering, configuration, rows, identifiers | `runs/src/ui*`, `config.rs`, `db/row.rs`, `types.rs`, `idempotency.rs` | none | pure functions | |

What makes the daemon hard:

* **Concurrency.** A calculation can have several actors: the one its run actor
  started, one the watchdog rescheduled, one a retry started. They share a row,
  every `UPDATE` is keyed by the id alone, and nobody checks the status, the owner
  or the attempt before writing.
* **Order.** `Start` and `Cancel` are messages in a queue that the actor does not
  read while it waits for a permit or for the service. `hb.abort()` does not wait.
  The watchdog works on rows it read earlier; a retry is checked by one task and
  carried out by another; a refresh of the run's status is a read and a write.
* **Failure.** The process may die at any step, also while it recovers; database
  commands may fail, and most callers ignore that; a lease may expire under a
  stalled heartbeat.
* **Bounds.** Permits, attempts, and the supervisor's mailbox, where a reschedule
  that does not fit is dropped. The bus keeps 1024 events, a replay has 1000. In the
  client two bounded channels lead from the main loop to the network task and back, and
  the keys, resizes, events and reconnections share the second.
* **Stale views.** The client has a list loaded some time ago, pages and answers on
  their way, an index into the list, row numbers as selections, and a dialog about a
  row that may have moved.

What makes each part correct: the run status is the one its calculations give
(statuses, run actor); a started calculation can be found again by the watchdog or
the restart (actor, watchdog, startup); it is run by one actor at a time and ends
(actor, supervisor); it stays ended unless a user retries it (everyone who writes
the row); a permit comes back from every exit (actor, pool); attempts are bounded
by `max_attempts` (actor, watchdog, sweep); cancellation and retry do what the API
says (handlers, supervisor); success means a stored result (API client). A reader of
the event stream gets every event, is told that it missed some, or knows from where
to ask again (event stream). The list can be paged through without a hole, what the
user confirms is what is sent, and the client never waits for itself (client).

## 2. Modules

| Module | What it is |
|---|---|
| `Calculation` | statuses and `derive_run_status`; no state |
| `CalcStore` | a row of `calculations` and one operator per `UPDATE` or `WHERE` clause; no state |
| `Runsd` | the daemon as a state machine: actors, heartbeats, run actors, supervisor, mailbox, watchdog, requests, crash, sweep, restore |
| `RunsdProperties` | type invariant, safety, action and liveness properties, fairness |
| `CalcLifecycle` | abstract specification: what a client sees of runs and calculations while nothing fails |
| `RunsdApi` | `Runsd` with the client of the external API (launch, poll, store) in place of the outcome it chooses |
| `EventStream` | table `events`, bus, `GET /events`, one reader |
| `EventProperties` | what a reader can rely on |
| `TuiState` | `struct App` and one operator per branch of `update`; no variables |
| `Tui` | the client at run time: main loop, keys, both channels, network task, event task, imports, and the daemon's runs |
| `TuiProperties` | what the user can rely on |
| `MCRunsd`, `MCRunsdApi`, `MCEvents`, `MCTui` | values for TLC and bounds on faults, requests, keys |
| `RunsdProofs` | the invariant of `Runsd` that needs no assumption on faults |
| `SpawnProofs` | who starts a calculation and who counts it, extends `RunsdProofs` |
| `UserProofs` | what cancellations and retries cannot break, extends `SpawnProofs` |
| `LifecycleProofs` | `Runsd` implements `CalcLifecycle`, extends `UserProofs` |
| `ApiProofs` | `RunsdApi` implements `Runsd`, and results stay, extends `UserProofs` |
| `EventProofs` | the invariant of `EventStream` |
| `TuiProofs` | the invariant of `Tui`: index, pages, dialogs |

`RunsdApi` extends `RunsdProperties` extends `Runsd` extends `CalcStore` extends
`Calculation`; `Tui` extends `TuiState` extends `Calculation`. `RunsdProperties`
instantiates `CalcLifecycle`, with the statuses in the rows for `status` and the stored
statuses of the runs for `shown`, and says that `Runsd` implements it.

Operators named "Mutant of ..." are plausible mistakes. They are not part of `Spec`: each
shows that some property notices when the operator it precedes is replaced by it.

### How `Runsd` corresponds to the code

| Variable | Code |
|---|---|
| `row[c]` | the row of `c`: status, attempt, `next_attempt_at`, `lease_expires_at` |
| `runStatus[r]` | `runs.status` |
| `actor[<<c, i>>]` | the `i`-th live `CalcActor` of `c`: where it is, its counter, its mailbox, who holds its sender |
| `beat[a]` | its heartbeat task: off, on, or aborted with one heartbeat still to land |
| `runActor[r]` | `RunActor`: notifications waiting, calculations left, told to stop, status about to be written |
| `sup`, `mailbox` | the supervisor: in `recv`, inside `submit_run` or `retry_calc`, or gone; its channel |
| `retryOk[c]` | HTTP handlers between the status check and `supervisor.retry_calc` |
| `wd` | the watchdog: asleep, or the rows it has read and not yet handled |
| `daemon` | process down, in the sweep (with the rows left) or up |
| `spent` | how many crashes, stalls, errors and requests there have been (a bound, not code) |

| Actions | Code |
|---|---|
| `ActorAcquire`, `ActorLease`, `ActorSucceeds`, `ActorFails`, `ActorExhausts`, `ActorBacksOff`, `ActorResets`, `ActorCancelled`, `ActorGone` | the arms of `CalcActor::run` and its `handle_*` functions |
| `HeartbeatTick` | the heartbeat task |
| `RunActorStops`, `RunActorReads`, `RunActorWrites` | `RunActor::run` and `refresh_run_status` |
| `SupSubmit`, `SupInsert`, `SupSpawnRun`, `SupCancelRun`, `SupCancelCalc`, `SupReschedule`, `SupRetry`, `SupRespawn`, `SupShutdown` | the supervisor's commands |
| `RequestSubmit`, `RequestCancelRun`, `RequestCancelCalc`, `RetryCheck`, `RetrySend`, `RequestShutdown` | the API handlers and Ctrl-C |
| `WatchdogTick`, `WatchdogCharges`, `WatchdogLists`, `WatchdogReschedules` | a tick of `run_watchdog`, one database command or message at a time |
| `BeginSweep`, `SweepRow`, `Restore` | `crash_recovery_sweep`, `restore_active_runs` |
| `Crash`, `Exit`, `RetryFallsDue`, `LeaseRunsOut` | the process and the clock |

Choices that decide what the model can show:

* **Grain.** A database command is one atomic step, as the db actor makes it.
  Receiving a message, taking a permit and sending a notification change only the
  task's own view and happen together with the command next to them. Where two
  commands follow each other there are two actions: the refresh (read, write), the
  retry (reset, respawn), the submission (one insert at a time), the sweep (row by
  row), the tick of the watchdog. `Restore` is one step: supervisor and watchdog do
  not run yet, and the actors of one run do not touch the rows of another. A run whose
  calculations cannot be listed is passed over, as in the code (`supervisor.rs:353`).
* **Time** is relative. `next_attempt_at` is later or due, a lease live or expired.
  The watchdog fixes `now` when a tick begins and the sweep when it starts, so the
  clock moves only between ticks (`TimeMayPass`). A lease expires under a live
  heartbeat only by spending a `stall`: the configured expiry exceeds the interval.
* **Errors** of the database are spent from `Limits`. An error whose result the code
  ignores loses the write and nothing else.
* **Channels.** An actor's mailbox is two flags, as `Start` is sent once and first.
  A sender to an actor that is gone is forgotten. A notification of an actor that
  the supervisor started goes to nobody: the receiver is dropped at once.
* **Left out of the rows:** lease owner, error text, result path, timestamps for
  display. No guard of the code reads them.
* **Bounds**, all named: `MaxActors` live actors per calculation (a further
  reschedule waits), `MailboxCap`, `MaxAttempts`, `MaxConcurrent` stand for
  configuration or the constant 64; `Limits` for faults and requests.

### How `RunsdApi` corresponds to the code

| Variable | Code |
|---|---|
| `call[a]` | the place of an actor inside `ReqwestCalcClient::submit` |
| `result[c]` | `results/<id>/result.json`: empty (or not there), whole, or broken |
| `met` | for the properties only: the actors that store a result (from opening the file to reporting) while another of the same calculation does |

| Actions | Code |
|---|---|
| `Launch`, `TaskRuns`, `TaskFails`, `PollFails` | the request, the polls and what they return |
| `Opens`, `Writes`, `Reports` | the task is complete: `tokio::fs::write` (`calc.rs:181`) opens the file, then writes it; then `submit` returns |
| `CallsFollow` | a call starts when an actor holds its lease and is forgotten when the actor ends |
| `CallsEnd` | the process ends: a write under way is finished, cut off or not begun |

`tokio::fs::write` takes no lock and renames nothing. Opening the file empties it, also
under an actor that is about to write; writing starts at the beginning of the file. An
actor that finds the file as its own opening left it writes it whole; if another has opened
or written it since, the end of a longer answer may stay behind a shorter one, or a hole,
so the file is whole or broken, whichever. A write that fails leaves what was there or a
broken file, and the outcome is transient. Other actors run between the write and its
report. When the call returns, the actor handles the outcome in the same step, by the action
of `Runsd` this outcome leads to; all other steps of `Runsd` are taken as they are.

### How `EventStream` corresponds to the code

| Variable | Code |
|---|---|
| `table`, `lastRow` | the rows of `events` and the counter of `AUTOINCREMENT` |
| `emitter[e]` | an actor inside `emit_status`, between `insert_event` and `publish` |
| `bus` | everything published since the start; the broadcast channel keeps the last `BusCap` |
| `stream` | the generator of `sse_handler`: reading, replaying, live; its position on the bus |
| `wire` | what is sent and not read |
| `reader` | the event task of the TUI, or another program that uses the frames' ids |
| `heard` | events that reach the TUI's main loop |

| Actions | Code |
|---|---|
| `Insert`, `Publish` | `emit_status` (`calc.rs:426`); a failed insert publishes with seq 0 |
| `Prune`, `Restart` | the pruning task, the process |
| `StreamReads`, `StreamReplays`, `StreamSubscribes`, `StreamPushes`, `StreamLags` | `sse_handler` |
| `ReaderConnects`, `ReaderReads`, `ReaderSeesEnd`, `ConnectionEnds` | the loop in `run_network`, `SseStream`, and the connection |

An event is a number; its frame is a record with the fields the encoder writes, and
decoding succeeds if the fields the decoder needs are there. A frame is sent when the
one before it has left a place on the wire, so a slow reader slows the handler down and
lets it lag. One connection at a time: handlers share only what they read.

### How `TuiState` and `Tui` correspond to the code

| Variable | Code |
|---|---|
| `app` | `struct App`, without status bar, scroll offset, tick and search matches |
| `todo` | the effects of the last `update` that the main loop has still to send |
| `appq`, `netq` | the channels `app_tx` and `net_tx`, both bounded; every sender waits for room |
| `net` | the network task: before the initial fetch, waiting for a command, or waiting for room for an answer |
| `import`, `stream` | messages directory imports have still to send; events on their way |
| `link` | the event task: not started, about to report that it is not connected, connecting, about to report that it is, reading |
| `server` | the runs in the daemon's database |
| `base`, `mixed`, `lost` | for `NothingSkipped` only: what existed at the last load, and whether a page of an earlier load was still to come or a page has failed since |

| Actions | Code |
|---|---|
| `MainLoadsRuns`, `MainAppendsRuns`, `MainSeesChange`, `MainShowsText`, `Tick` | the messages of `update` |
| `MainSends` | the loop over the effects (`runs/src/main.rs:153`) |
| `KeyMoves`, `KeyDown`, `KeyRefresh`, `KeyCancel`, `KeyRetry`, `KeySave`, `KeyOpens`, `KeyQuits` | the actions of `handle_key` |
| `KeyFilters`, `KeyCloses`, `KeyConfirms`, `KeyTypes`, `KeyRuns` | filter overlay, any overlay, `handle_confirm`, `handle_command_input`, `execute_command` |
| `NetStarts`, `NetRefreshes`, `NetLoadsMore`, `NetImports`, `NetPosts`, `NetSends` | `run_network` |
| `InputSends` | the input task (`main.rs:118`): a key or a resize, into the same channel |
| `LinkReports`, `LinkChanges`, `EventArrives` | the event task: `SseDisconnected` and `SseReconnected` around each connection, its end, a frame |
| `ImportReports` | `import_directory` |
| `ServerSubmits`, `ServerChanges` | the daemon, as far as a list shows it; `ListRuns` is its `list_runs` |

* **Keys** wait in the channel like every other message and take a place there. Which key
  it was is chosen when it is handled: until then nothing depends on it.
* **Messages** that change nothing but the status bar, or nothing at all (`CmdOk`, `CmdErr`,
  `ImportProgress`, `SseDisconnected`, `SseReconnected`, `Resize`), are one, `Text`.
* **Moves.** `KeyMoves` takes any key that only moves; the effect of each is an
  operator of `TuiState`. Keys that change nothing are `KeyIgnored`.
* **Imports** report their start, each file and their end, or once that there are no files.
* **Typing** a command is one step from the text opened (`:` or `/`) to a whole line.
* **Decodes** says whether the event task can decode a frame. The code cannot
  (`client_deaf`); `tui` sets it to TRUE, so that what update does with events is
  checked as well.
* **Left out:** `RunFetched` and `FetchRun`, which follow an event that no code emits;
  search matches, which nothing fills, so `n` and `N` do nothing; the dialogs to quit
  and to retry, which nothing opens.

## 3. Runs

The daemon's runs have one run of calculations. Two actors per calculation are enough for
every race of two; one attempt is enough for both branches of `Charged` (charge once,
exhaust at the second), and `faults` has two so that a respawned actor can back off while
the watchdog respawns another; `api` has two permits, as with one two actors never submit
side by side; a mailbox of one place is the smallest that drops a reschedule. A bus of one
event lags at the second, a replay of two has a third beyond its limit, and two
connections are a first one and a reconnect. Pages of one run, two runs with the same
`created_at`, the second of which comes at any time, and three keys are enough for a page,
a refresh, a second page and a dialog to overlap; `TuiProofs` has the rest. In the client
the channels have two places and one and fill again and again, as resizes and
reconnections come without end. No run depends on a channel being just large enough.

| Run | Instance | Checks |
|---|---|---|
| `healthy` | 3 calculations, 2 permits, succeed or fail for good, no faults, fair | `SettledRunIsRight`: a run shown as settled has the status its calculations give. `RunStatusCatchesUp`: whatever the interleaving of the refresh's two commands with three actors, the status ends up right. `ImplementsLifecycle`: a client sees calculations go from pending to running to ended, and a run settled once, with the right status |
| `users` | 2 calculations, 2 permits, 1 cancellation, 1 retry, late heartbeats | `SingleRunner`: never two actors leasing or submitting one calculation. `TerminalIsFinal`: only a retry takes a calculation out of a final status |
| `faults` | 1 calculation, any outcome, 1 permit, 2 attempts, 1 failed command, fair | `TypeOK`; `WatchdogCanSee`: a started row can be found by the watchdog's queries; `PendingIsFresh`: a pending row has all its attempts. `NoStarvation`: whoever waits for the only permit gets it or is gone |
| `api` | `RunsdApi`: 1 calculation, every failure of launch, poll and write, 2 permits, 2 actors, 1 attempt, 1 crash, 1 stall | `ResultsKept`: only the end of the process, or two actors that stored at once, costs a succeeded calculation the result it has or is about to get, although a second actor of it empties the file before it writes. `AloneHasResult`: while its submissions are alone, a row that says succeeded has its whole result in the file |
| `crashes` | 1 calculation, succeed or fail for good, 1 crash, 1 stall, 1 shutdown, late heartbeats, fair | `NoOrphanPending`: every pending calculation has somebody who will start it. `RunActorCounts`: the run actor neither misses nor double-counts a calculation. `AttemptsBounded`: sweep, watchdog and actor together stay within `max_attempts`. `CalcsFinish`: every calculation inserted ends |
| `events` | 2 emitters, 3 events, bus of 1, replay of 2, wire of 1, 2 connections, 1 restart, 1 failed insert or read, both kinds of readers, fair | `EventTypeOK`. `LossesAnnounced`: a live connection that skips events is told how many at least. `OnlyTheGapLoses`: else it has all it asked for, but for the gap between replay and subscription and what exceeds the replay's limit. `SeqsGrow`: no row is stored under a seq a reader has passed. `EventsGetThrough`: a slow reader delays and loses events but never stops the stream |
| `tui` | 2 runs of 1 calculation, 1 or none of them there at the start, pages of 1, 3 keys, 1 change or failed request, imports, any number of resizes and reconnections, channels of 2 and 1, fair | `TuiTypeOK`. `ListIndexed`: the index leads to each run's only row. `NothingSkipped`: paging leaves no hole. `ConfirmedIsShown`: a dialog does what it showed. `LoadingEnds`: a list that is asked for arrives, unless a request failed or the client is stuck in one of two named ways |

`healthy` is checked for the whole status pipeline, so faults are left out of it;
`users` needs two calculations so that a cancelled run has one actor at work and one
waiting; `faults`, `api` and `crashes` need only one calculation because a fault concerns a
row and its actors.

The daemon never stops for good in the model (a client may always submit the run
again that was not inserted, time passes, the watchdog ticks), so deadlock is checked in its
runs. In `events` and `client_deaf` the bounded events and connections are used up in the end
and nothing is left to do. The client really may stop: in `tui` and `bulk_stuck`
the main loop can wait for ever, and whoever else sends waits with it.

### Fairness

`FairSpec` adds: weak fairness of every task (tokio schedules a task that can run) and of
the process supervisor that restarts the daemon (`Startup`); strong fairness of
`ActorAcquire`, because the semaphore hands permits out in the order they were asked for;
strong fairness of the clock, because it moves whenever the watchdog sleeps, again and
again; weak fairness of an aborted heartbeat's last write and of a retry whose check has
passed. The external service is assumed to answer and to finish every task: each request
has a timeout, but the polls of a task that stays in `running` have no end (`TaskRuns` in
`RunsdApi`), and the permit does not come back. *How* the service answers is free. `Exit`
is assumed to happen: a graceful shutdown waits for open event streams, whose handlers
never see the bus closed (`runsd/src/api/sse.rs:65`, they hold a clone of it), so clients
are assumed to go. Users and faults owe nothing.

In `EventStream` the handler, the reader and an actor that has inserted an event are
scheduled; connecting, pruning and emitting are not promised. In `Tui` the main loop and the
network task are, and the daemon answers or the request fails. `NetSends` is strongly fair:
tokio gives the places of a channel to its senders in the order they asked, so that
resizes and reconnections that fill it again and again do not keep an answer out. Nothing is
assumed of the user, the input task, the event task and imports.

### Where the code and its documents disagree

Each of these runs checks one statement of the repository and finds a behaviour that
breaks it.

| Run | Statement | What happens |
|---|---|---|
| `retry_lost` | `docs/external-api.md:80` "`runsd` will retry with exponential back-off" | after the backoff the row is pending again and the actor waits for a `Start` nobody sends (`runsd/src/actor/calc.rs:320`); only a restart frees the calculation |
| `cancel_run` | `runsd/src/api/graphql.rs:251` "Cancel all pending/running calculations in a run." | `Cancel` waits behind the `Start` being handled: the calculation still gets its permit and is submitted (`calc.rs:254`; the abort channel of `calc.rs:259` is never used) |
| `double_retry` | `runsd/src/api/handlers.rs:201` "only calculations in 'failed' status can be retried" | two requests pass the check, the second resets what the first has already restarted (`supervisor.rs:344`) |
| `client_deaf` | `runs/src/app/msg.rs:9` "The SSE stream delivered a new server event." | frames hold the event's JSON (`runsd/src/api/sse.rs:50`), the client parses an envelope with `seq` and `event` (`runs/src/network.rs:121`, `common/src/event.rs:82`): no event ever reaches `update`, and every reconnect asks for all events again |
| `bulk_stuck` | `runs/src/app/update.rs:387` "Bulk cancel: in visual mode cancel all selected runs; otherwise single." | the main loop waits for room in `net_tx` (`runs/src/main.rs:160`), the network task for room in `app_tx` (`network.rs:215`), filled by answers, keys and resizes: a selection larger than both channels freezes the client |

Other disagreements met while modelling, not checked by a run: "Cancel a specific
calculation." (`runsd/src/api/graphql.rs:290`) does nothing to one that its run actor
started, as the supervisor looks only at the actors it rescheduled itself
(`supervisor.rs:304`), and the request succeeds; `S` is
described as "Save result to disk" (`runs/src/app/keybindings.rs:114`) and only reports
that it did; a cancel or retry that the daemon refuses is reported as done
(`runs/src/network.rs:249`); the filter list has `retrying`, a status no run has, and
lacks `partially_succeeded` (`runs/src/app/state.rs:51`); a reload leaves the cursor where
it was, past the end of a shorter list; `docs/external-api.md:46` describes one request
where the code launches a task and polls it.

### What the passing runs leave out because it does not hold

The bounds of the passing runs are also statements about the code:

* `SingleRunner` and `TerminalIsFinal` fail with a crash or a stall: the watchdog writes
  its charge, keyed by the id alone, to a row it read as expired (`watchdog.rs:41`),
  although the calculation may have been taken up again or have ended meanwhile. It goes
  back to retrying and gets a second actor.
* `CalcsFinish` and `NoOrphanPending` fail with a transient outcome (`retry_lost`) or a
  failed database command (half a submission, `supervisor.rs:263`, or an actor whose lease
  failed, `calc.rs:287`, stay behind until a restart).
* `RunActorCounts` fails when an actor's lease fails: it ends without a notification and
  its run actor waits for ever.
* `RunStatusCatchesUp` fails with a retry, a crash or a cancellation: the actors a
  supervisor starts report to nobody, a run with no active calculation is not restored,
  and a cancelled run actor leaves without a refresh.
* `ImplementsLifecycle` fails with any fault or retry, for the same reasons; a
  cancellation does not break it.
* `ResultsKept` needs a database that works, and has the two exceptions it names. A second
  actor that stores has emptied the file of a calculation that the first has already
  ended; if the process dies there, or a database command fails, the row stays `succeeded`
  and the file empty. If the first is still at the file, the two may mix it.
* `AloneHasResult` is for submissions that are alone. Without that condition it fails with
  two retries, and with a crash alone, after which both the restart and the watchdog start
  an actor of a retrying row. Two actors that both open the file before either has written it
  (`calc.rs:181`, no lock and no rename) both report success, and the file is left with
  parts of two answers under a row that says succeeded, against `docs/external-api.md:143`
  "On success the raw response body is stored at:".
* `OnlyTheGapLoses` names its exceptions: an event inserted and published between the read
  of the table and the subscription (`sse.rs:30`, `:46`), and what exceeds the 1000 rows
  of a replay. A reader that asks from 0, as the TUI does in effect, never gets past the
  oldest 1000.
* `NothingSkipped` excludes two cases that leave a hole: a page asked for before a refresh
  and appended after it, and a page that could not be loaded, whose cursor is gone.
* `LoadingEnds` excludes failed requests: nothing clears `loading` then. It names two more
  cases, and fails in `tui` without either: the main loop sends the report of a saved
  result into the channel that only it empties, and it is full (`WaitsForItself`,
  `runs/src/main.rs:163`), or sends a command into the full `net_tx` while the network
  task sends an answer into the full `app_tx` (`WaitForEachOther`). In each the client is
  frozen for good.
* `ConfirmedIsShown` is about dialogs. A visual selection is a range of rows and cancels
  what is in them when `X` is pressed, in any pane, without a dialog; it survives `Enter`,
  filters and `:refresh`.
* `NoOrphanPending`, `RunActorCounts`, `SingleRunner`, `TerminalIsFinal`, `ResultsKept`,
  `SettledRunIsRight` and `ImplementsLifecycle` are proved under
  exactly such restrictions (section 4).
* `TypeOK`, `PendingIsFresh`, `AttemptsBounded`, `WatchdogCanSee` and the safety
  properties of the event stream and of the client hold without any such restriction, and
  are proved.

## 4. Proofs

`RunsdProofs` proves, for all sets of runs and calculations, all bounds and all limits
on faults and requests that satisfy `MaxAttemptsAssumption` and `RunsdAssumption`:

| Theorem | Statement |
|---|---|
| `Invariance` | `Spec => []IInv` |
| `TypeCorrectness` | `Spec => []TypeOK` |
| `WatchdogSees` | `Spec => []WatchdogCanSee` |
| `AttemptsStayBounded` | `Spec => []AttemptsBounded` |
| `PendingStaysFresh` | `Spec => []PendingIsFresh` |

The properties are not inductive as stated. That attempts stay bounded depends on
where each writer got the attempt it writes: the actor has a counter of its own, the
watchdog a row it read some time ago, a respawn the row. So
`IInv == RowsOK /\ ActorsOK /\ TasksOK` says of every row (`RowOK`) that its columns fit
together: the attempt is bounded, a pending row is a fresh row, a running row has a
lease, a retrying row a time. It says of every actor that its counter is bounded, and
of the other tasks that what they hold (commands in the mailbox, rows the watchdog has
read, the supervisor's place in a handler) has its type. The proof first shows that
each `UPDATE` of `CalcStore` keeps `RowOK` whatever the row was before
(`UpdatesKeepRowOK`, `ChargedRowOK`): the updates are unconditional, so this is
what carries the invariant through every interleaving. Then one lemma for each group
of actions preserves `IInv`, and the theorems follow by temporal logic. The watchdog's
stale rows do no harm to these properties because a charge writes all the columns
`RowOK` relates.

`SpawnProofs`, `UserProofs` and `LifecycleProofs` prove what holds under assumptions on the
faults, for any number of runs and calculations. `DatabaseWorks`: no database command fails.
`ApiIsDefinite`: the service answers with a success or a permanent error. `RoomToSpawn`: the
bound on actors is not zero. `NoFaults`: all three, and no crash, stall or shutdown.
`RetriesApart`: of one calculation at most one retry is between its check and its reset at
a time. `AllIsWell`: `NoFaults`, and no retry. `crashes`, `users` and `healthy` are instances.

| Theorem | Assumes | Statement |
|---|---|---|
| `PendingIsNeverForgotten` | `DatabaseWorks`, `ApiIsDefinite`, `RoomToSpawn` | `Spec => []NoOrphanPending` |
| `CountsAddUp` | `DatabaseWorks`, `RoomToSpawn` | `Spec => []RunActorCounts` |
| `UsersInvariance` | `NoFaults` | `Spec /\ []RetriesApart => []UInv` |
| `NeverTwoRunners` | `NoFaults` | `Spec /\ []RetriesApart => []SingleRunner` |
| `FinishedStaysFinished` | `NoFaults` | `Spec /\ []RetriesApart => TerminalIsFinal` |
| `RetriesFindFailed` | `NoFaults` | `Spec /\ []RetriesApart => RetryOnlyFailed` |
| `OneRetryIsApart` | at most one retry | `Spec => []RetriesApart` |
| `OneRetryIsSafe` | `NoFaults`, at most one retry | `Spec => []SingleRunner /\ TerminalIsFinal /\ RetryOnlyFailed` |
| `DaemonImplementsLifecycle` | `AllIsWell` | `Spec => ImplementsLifecycle` |
| `SettledIsRight` | `AllIsWell` | `Spec => []SettledRunIsRight` |

The first two depend on what happens before a run actor is spawned. A run that is
submitted but not spawned is `Unborn`, and nobody may have heard of its calculations: no
actor, no heartbeat, no command, no row in the watchdog's or the sweep's list (`Unknown`).
`BInv` states this with what keeps it true: one submission per run in the mailbox, none
for a run that is stored, nothing but the sweep at work while the daemon is not up, and no
sender left to an actor that has ended. `BInv` needs no assumption on faults. For
`NoOrphanPending` there are then the actors, of which none backs off and each that waits
has a `Start` to handle (`StartOnce`), and the writes that make a row pending, each
followed by a spawn. For `RunActorCounts`, the count of a new run actor is the number of
its calculations; `Fresh` gives each its own actor (a bijection), none of the run's was
there before, and every step changes the two sides alike.

`UInv` says what a daemon looks like in which nothing fails, whatever users do. A calculation
has one actor and its row says where that actor is (`OneActor`, `RowFollows`); a row that
runs has a live lease (`RunningIsAlive`), so the watchdog finds nothing (`Undisturbed`). A
retry starts a second actor, and what keeps it from meeting the first is that the row is
written `failed` in the step in which its actor ends: a retry on its way finds its calculation
failed, and between its reset and its new actor there is none (`RetriesAreDue`). This is where
two retries break it: the second reset comes to a calculation that the first has restarted.
`RetryOnlyFailed` is what `double_retry` refutes without `RetriesApart`: the theorem shows that
two retries that meet are the only way to break it when nothing fails. The code does not
enforce `RetriesApart`; a user who retries once at a time does (`OneRetryIsApart`).
`OnlyServes` shows that the other actions of `Next` are disabled, `RowMoves` lists how a row
can still change, and `NextServes` carries `UInv` over each step that is left.

`LInv` adds, when nobody retries, what the refresh of a run's status needs in two commands.
`VerdictsAreRight`: what a run actor has read and not yet written is "running", or it is
final, as all calculations of the run have ended and none moves again. An outdated "running"
cannot overwrite a final status because one run actor writes it and reads in order. A
cancelled run actor leaves without a refresh: its run stays "running", which the abstract
specification allows. Each step is a step of `CalcLifecycle` or changes nothing a client
sees (`RowsProgress`, `RunsShow`, `NextImplements`).

`ApiProofs` proves of the daemon with its client of the external API, for any number of
calculations, actors and attempts:

| Theorem | Assumes | Statement |
|---|---|---|
| `ApiImplementsRunsd` | | `ApiSpec => Spec` |
| `ApiInvariance` | | `ApiSpec => []ApiInv` |
| `ResultsDieWithTheProcess` | `DatabaseWorks` | `ApiSpec => ResultsKept` |
| `SucceededHaveResults` | | `ApiSpec => AloneHasResult` |
| `RetriesKeepResults` | `NoFaults` | `ApiSpec /\ []RetriesApart => []SucceededHasResult` |
| `OneRetryKeepsResults` | `NoFaults`, at most one retry | `ApiSpec => []SucceededHasResult` |

The first carries every theorem about `Spec` over to `ApiSpec`. For the others, `ApiInv`
adds to the daemon's invariants that only an actor that submits has a call (`CallsOK`),
and `AloneWithFile`: an actor that is at the file and has met no other finds it as it left
it, empty after its opening and whole after its write. This is what an actor can know of a
file it does not lock, and it ends when another actor opens the file (`met`). In
`ResultsKept` an actor that has emptied the file of a calculation that succeeded ends by
writing it whole, or by a write to the row that takes the success back (`Gives`), or with
the process, or is in `met`; that write to the row happens with the return of the call, so
that only a failing database can separate the two. `SubmittedAlone` says that no two
actors submit one calculation and none submits one that has succeeded. Under it nobody is
in `met` and the file is whole when success is reported, whatever fails (`InOrderStays`).
`UInv` implies it, so that without faults retries that are apart keep it.

`EventProofs` proves, for any number of actors and events, any capacity of the bus, the
replay and the wire, and any number of connections, restarts and errors
(`EventStreamAssumption`):

| Theorem | Statement |
|---|---|
| `EventInvariance` | `Spec => []EInv` |
| `EventTypes` | `Spec => []EventTypeOK` |
| `LossesAreAnnounced` | `Spec => []LossesAnnounced` |
| `NothingElseIsLost` | `Spec => []OnlyTheGapLoses` |
| `SeqsKeepGrowing` | `Spec => SeqsGrow` |

`EInv` has one part for each stage of an event's way. `SeqsGivenOut`: no seq anywhere (in
the table, with an actor, on the bus, still to replay, on the wire, with the reader) is
above the counter of the table; a reader's position is only safe because everything it
could have read came from there. `OnTheBus`: what a live handler has passed over on the bus
(`Missed`) is at most what it has announced; `StreamLags` adds an interval to both, so
this is an argument about cardinalities. `Replayed`: every row that was in the table when
it was read is sent, still to be sent, not asked for, or beyond the limit; for this the
table has to be finite. `NothingElseIsLost` puts the two accounts together: with nothing
announced `Missed` is empty, so what is missing was never on the handler's part of the bus.
`NothingDecodes` is a lemma of its own: no frame of the daemon has the fields that the event
task decodes, which is `client_deaf` for every frame.

`TuiProofs` proves, for any number of runs and calculations, any creation times, page sizes,
commands and capacities of the channels (`TuiStateAssumption`, `TuiAssumption`), and with no
assumption on what the user, the daemon, the event task or the network do:

| Theorem | Statement |
|---|---|
| `TuiInvariance` | `Spec => []TInv` |
| `TuiTypes` | `Spec => []TuiTypeOK` |
| `ListStaysIndexed` | `Spec => []ListIndexed` |
| `PagingSkipsNothing` | `Spec => []NothingSkipped` |
| `DialogsDoWhatTheyShow` | `Spec => ConfirmedIsShown` |

`TInv` is `Types`, which says of every effect, message and overlay what it may hold, and
four parts. `Indexed`: a load writes row after row, and `UpsertRuns` is a recursive function;
the library's induction cannot be used, so `UpsertRunsOK` takes the least row after which the
index would be wrong (`LeastNumber`) and refutes it by `UpsertRunOK`. `WholeLoads`: a list on its
way leaves out no run but those older than its cursor. For this `PagesAreWhole` looks into
`list_runs`: a page has the runs in the order of `created_at` and id, so the rank of a run tells
where it is; different ranks, as many as there are runs, are all the ranks (`PlacesAreTaken`),
so that every run newer than the last of the page is on it. `NothingSkipped` is not inductive:
a page that is appended replaces the cursor in the state, and if that cursor were still of use
the runs behind it would be forgotten. `OnePage` excludes this. It counts the places where the
next page can be (a cursor in the state, a request waiting in `todo` or `netq`, a page with the
network task or in `appq`) and says that there is one at most, unless a load has come while
one was under way (`mixed`). `StepsKeep` reduces all this to two conditions on a step,
`NothingDropped` and `NoLoadsButWhole`, and one lemma for each action shows them.
The 14 actions for keys come down to three kinds (`KeysAct`): keys that leave the list and
the pages alone (`Acts`), the one that asks for a page (`AsksForMore`), and the end of the client.

Only model-checked: everything about liveness (`RunStatusCatchesUp`, `NoStarvation`,
`CalcsFinish`, `EventsGetThrough`, `LoadingEnds`), which the prover does not handle. No
module with a theorem declares a recursive operator.

## 5. Not modelled

Configuration, row conversion, identifiers and idempotency keys are data and pure
functions: their values are the constants and model values here. Rendering, the
terminal, the clipboard, the doctor command and shell completions are output. The
read-only queries of the API change no state; the GraphQL mutations send the same
supervisor commands as the REST handlers. In the daemon, emitting an event is one more
database command after each status change; it changes no variable of `Runsd` and is
modelled in `EventStream`. Not modelled either: the length of back-offs, timestamps,
the loss of committed rows when the power fails, and the texts of the status bar.

## 6. Plan

The most important behaviour, the life of a calculation under concurrency and failure,
came first; then its client of the external service and its abstract specification, the
event stream, and the terminal client; then the proofs. All of these are done: every safety
and action property that a passing run checks is stated by a theorem. What is left:

1. `SingleRunner` and `TerminalIsFinal` under faults: they fail with a crash or a stall, and
   a theorem should say that only a charge by the watchdog can break them.
2. An abstract specification for the event stream and one for the list of the client, of
   which `EventStream` and `Tui` are refinements, in place of the two invariants.
