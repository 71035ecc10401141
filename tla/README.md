# Verification of runner-observability

This directory holds TLA+ models of the program in `src/`, the TLC
configurations that check them and TLAPS proofs about them. Paths below such as
`outbox.py` stand for `src/src/runner_observability/outbox.py`.
`PROJECT.json` is the index: which definition models which lines, what each run
checks, which mutant shows that a property can fail, which hazards there are.

## 1. The system

A **Runner** (a machine that executes CI jobs) reports to one **Monitor**. On the
Runner, CI jobs call the command line (`emit`, `flush`) and a Windows service
sends a heartbeat; both share one outbox directory. The Monitor is an HTTP
server over a SQLite store, kept alive by a Windows service, watched through a
browser page, and updated in place by a deployment command.

    CI job -- emit/flush --+                                +-- browser page
                           +--> outbox --HTTP--> monitor <--+   (dashboard, history)
    heartbeat service -----+    (files)          (SQLite)
                                                    ^ started, stopped by service.py
                                                    ^ installed, updated by deploy.py

### Inventory

| Part | State it keeps | Operations | Talks to |
|---|---|---|---|
| Durable outbox (`outbox.py`) | `pending/`, `dead-letter/`, one lock file | enqueue, drain, reconcile, dead-letter | shared by processes through the file system |
| Delivery (`agent.py`) | attempts, clock, one socket, worker threads of one call | deliver_event, retry, backoff, resolve, connect, handshake, send, read | Monitor over HTTP; called by a drain |
| Event contract (`contracts.py`) | none | validate_event, called at four places | command line, outbox, delivery, server |
| Heartbeat service (`heartbeat.py`, `heartbeat_service.py`) | state file (epoch, next sequence), status file, stop event | loop, reserve, send, record, stop | outbox (replay), delivery, SCM |
| Event store (`store.py`, `projection.py`, `health.py`) | event log, runner and job tables, watermarks, incidents | ingest, refresh_liveness, prune_history, replay | HTTP server |
| HTTP server (`server.py`, `__main__.py`) | listening socket, one thread per connection, a lock around the store | start-up checks, accept, POST event, GET dashboard, GET history, shutdown | store, page, service host |
| Dashboard snapshot (`dashboard.py`) | none | dashboard_snapshot | store |
| Browser page (`static/app.js`) | one state object, requests under way | refresh, page, filter, pause | HTTP server |
| Monitor service (`service.py`) | child process, auto-reset stop event | run, stop | SCM, Monitor process |
| Deployment (`deploy.py`) | `releases/<revision>`, `current-release.txt` | preflight, stage, activate, smoke test, roll back | SCM, file system |
| Verification gate (`gate.py`) | the report file | suite, drills, fail-open check, report | an operator |
| Onboarding (`onboarding.py`) | the hosts file | upsert_hosts_mapping | an operator |
| Credentials, PowerShell | files written once | one-shot scripts | - |

### What is hard about it, and what correct means

* **Outbox.** Several processes, a crash between any two file operations,
  failing unlinks, damaged files, a quota over two directories. Correct: what
  was accepted is stored by the Monitor or still in a file; the two files of an
  event never disagree; dead letters stay and are not retried; the quota holds;
  the lock is given back and pending events eventually leave.
* **Delivery.** Retries against one deadline inside another, and below them a
  helper thread that cannot be stopped. Correct: nothing definite is retried, a
  file goes only when its answer said so, a drain keeps to its time, no socket
  is closed twice or under its user, an attempt leaves one thread and one socket
  at most, the caller comes back.
* **Contract.** The same event is checked four times, written differently each
  time, against one size limit. Correct: what was accepted once is accepted again, and only
  sound events are stored.
* **Whole path.** A client that gives up does not stop the thread that serves
  it, so copies of an event arrive late and out of order. Correct: end to end
  nothing accepted is lost, nothing is logged twice, a finished job is not shown
  running.
* **Store.** Events arrive late, out of order and again, also after their rows
  were pruned; a restart rebuilds the tables from the log. Correct: an event
  advances the state once, a finished job stays finished, tables agree with
  each other and with the incidents, a restart cannot be noticed, silence is.
* **Monitor process.** `main` closes the store under running daemon threads, and
  clients may say nothing. Correct: one store call at a time, no 202 without a
  commit, nothing served with half a configuration, nobody waits for a silent
  client.
* **Snapshot and page.** Tables and rows are seen through windows of different
  sizes; answers overtake each other while the reader clicks and the log grows.
* **Heartbeat.** A sequence number that must be unique across crashes and lost
  files, and a stop signal that only one wait can see.
* **Monitor service.** Two threads, one child, one auto-reset event.
* **Deployment.** Every call may fail, including those of the rollback.
* **Gate and onboarding.** A file that others hold open or edit between two runs.

The list `hazards` of `PROJECT.json` names each of these at its line, with the
properties that cover it, or the reason why none does.

## 2. Modules

| Module | Models | Role |
|---|---|---|
| `Outbox` | `DurableOutbox` driven by processes | core; abstracts a delivery to settled or retained |
| `OutboxPromise` | what `DurableOutbox` promises its callers | abstract specification; implemented by `Outbox`, used by `Telemetry` |
| `Delivery` | `deliver_event` inside a drain, in time | the "settled or retained" of `Outbox` |
| `Transport` | `_http_transport`, `_run_with_deadline` | one attempt of `Delivery`: caller, worker threads, sockets |
| `Contract` | `validate_event` and who catches what | one text from `emit` to the store |
| `Projection` | `apply_event` and its helpers as operators | pure; used by the store |
| `MonitorStore` | `Store` that never stops | abstract specification of the store |
| `MonitorRestart` | `Store` with restarts and lost tables | implements `MonitorStore` |
| `Telemetry` | outbox, requests, `do_POST` and store together | composes `OutboxPromise` and `MonitorStore` |
| `Server` | `serve`, `create_server`, the threads | the process around the store |
| `Snapshot` | `dashboard_snapshot` and its queries | extends `MonitorStore` |
| `Dashboard` | `app.js` and the GETs it makes | page, server, reader |
| `Heartbeat` | heartbeat loop, state and status files | one process, SCM, accidents |
| `ServiceHost` | `MonitorChildSupervisor` and its service class | two threads |
| `Deploy` | `deploy_release` and `main` | one operator, SCM external |
| `Gate` | `main` of `gate.py` and its report | runs on one file |
| `Hosts` | `upsert_hosts_mapping` | onboarding and editor in turns |
| `OutboxProofs`, `MonitorProofs`, `RestartProofs`, `TelemetryProofs` | - | the theorems about `Outbox`, `MonitorStore`, `MonitorRestart`, `Telemetry` |
| `ExchangeProofs`, `ReadSideProofs` | - | about `Contract`, `Delivery`, `Transport`, `Server`; about `Snapshot`, `Dashboard` |
| `ServiceProofs`, `OperationsProofs` | - | about `Heartbeat`, `ServiceHost`; about `Deploy`, `Gate`, `Hosts` |
| `MCOutbox`, `MCMonitor`, `MCTelemetry` | model values for TLC | one module each |
| `MCExchange`, `MCDashboard`, `MCOperations` | model values, and which part moves | several modules side by side |

A mutant of an operator (the comment says `Mutant of X`) stands right before
it. It is a plausible bug, used only to show that a property can fail.

The last three `MC` modules put parts side by side that share no variable:
`Contract`, `Delivery`, `Transport` and `Server`; `Snapshot` and `Dashboard`;
`Heartbeat`, `ServiceHost`, `Deploy`, `Gate` and `Hosts`. The variable `subject` is
chosen at the start and never changes; only the part it names takes steps, with
its own Init, Next and fairness, while the others stay as they begin. Such a run
is the union of the separate ones, not their product, and shows nothing about an
interplay; the parts that do interact are composed in `Telemetry` (outbox and
store), `MonitorRestart` (restarts and store) and `Snapshot` (snapshot and store).

### Outbox and OutboxPromise

A directory is a set of files; a file carries its event id (the stem of its
name), a payload (all that conflict detection compares), its `queued_at` stamp
and whether `_read_envelope` accepts it. A temporary file is not listed, so a
write is the `os.replace` that ends it. `enqueue` is `EnqueueDuplicate`, or
`EnqueueBegin` (checks under the lock) followed by `EnqueueCommit` or
`EnqueueFail`. `drain` is `StartDrain` (lock, snapshot, reconciliation of twins),
then per event `DeliverSettled` or `DeliverRetained`, `Settle` (the unlink after a
2xx), or `Bury`/`BuryExisting`/`BuryFail` and `Clear` (dead letter written, then
pending file removed), and `EndDrain`. `BudgetElapses` is the clock passing
`max_drain_seconds`; an answer that comes after it leaves the file although the
Monitor has the event. `Crash` may fall between any two of these and frees the
lock, as the operating system does. `DamagePending`, `DamageDead` and the `Faults`
kinds make files unreadable, unlinks, writes and listings fail, and the Monitor
unreachable. A directory that cannot be listed counts as empty, as
`_json_files` has it.

`OutboxPromise` has no files, lock or drains: `Put`, `Receive`, `Remove` and `Bury` on
sets of events. `KeepsPromise` is the refinement: `kept` is what the files of both
directories say, `buried` what the dead letters say. An event is a pair of name
and payload there, so the promise also says that no second payload gets in under
a name that is kept.

### Delivery and Transport

One drain over `Events` pending files on an integer clock. `NextEvent` grants the
budget: `emit` and `flush` pass what is left of the drain, the heartbeat service
the full delivery budget. `Attempt` ends at any time up to the deadline with any
answer (2xx, another definite status, 429/5xx, a network error or timeout,
another exception); `Backoff` waits 1, 2, ... units and is cut at the deadline.

`Transport` is such an attempt: `Calls` 0 resolves the host, 1, 2, ... connect to its
addresses. Each call has a thread with its own steps (`Operate`, `Look` at the
abandoned flag, `Store`, `CloseLate`, `Complete`) and the caller its steps (`Start`,
`EnterWait`, `TimesOut`, `Abandon`, `Check`, `TakeError`, `TakeSocket`, `TryNext`,
`Propagate`), which interleave freely; then `Block`, `Progress`, `Retry`, `Answered`,
`SelectTimesOut` and `Fail` are the handshake, send and read on the non-blocking
socket. `raced` holds the connects of the race between `completed` and `abandoned`: a
worker that looked at the flag before it was set and stored its socket after the
caller had gone, and one whose caller ran out of time before it began to wait and
never sets the flag. Neither side closes such a socket; it is left to the garbage
collector. `LeavesOneBehind` is therefore no claim that nothing is left: every
other open socket has an owner (`SocketOwned`), the race costs an attempt the socket
of its last connect at most (`OneSocketLost`), and one thread at most may outlive it
(`OneThreadAtATime`).

### Contract

A text is what is wrong with it and how it is written; `Defects` are the checks of
`validate_event` in their order, what each raises and which `except` sees it
(`Reasons`, `Raises`). How it is written is the ASCII and the other characters of its
value, whether those others stand as `\uXXXX` (6 bytes) or in UTF-8 (2), and the bytes
a value does not keep: blanks, needless escapes, repeated keys. `BytesOf` is the
length of a text, `Measured` what `_validate_payload_size` measures, `Compact` the text
that `json.dumps` makes of the value for the body, `Enveloped` the file of the outbox.

`Parse`, `Enqueue`, `ReadBack`, `Deliver`, `Refuse` and `Serve` are the places where it is
checked, each with its own way out: `Enqueue` rejects, `ReadBack` makes a corrupt file of
it, `Deliver` returns a reason for no attempt, which the drain takes for final, or
raises, which the drain survives and a bare `emit` does not. `Unreached` is a monitor
that does not answer, `Replay` a later drain. That `ReadBack`, `Deliver` and `Serve` never
refuse an event that was accepted is the property, not the shape of the model: a check
that measures the file, or a body sent as it was written, breaks it (the mutants).
`FailsOpenButForUncaught` names the defects whose exception nobody catches.

An event near the limit is real: its integers have no upper bound, up to the 4300
digits that Python parses. Other characters are real too: `fromisoformat` takes any
one character between date and time, and `UUID` takes the digits of every script.

### Telemetry

`Emit`, `Send`, `Settle` are the runner's side with `OutboxPromise`; `GiveUp` is its
timeout. A request has a thread on the Monitor: `ReadBody`, `SlowBody` (408),
`Unauthorized` (401), `Accept` (one `Ingest` of `MonitorStore`, then 202), `Overflow` (an
integer SQLite cannot hold: the thread ends without an answer). `waited` says
whether the client still listens; when it has given up, the request is served all
the same. `MonitorStops` loses all requests, `Rotate` and `RotateRunner` are the two
halves of a token rotation. Nothing prunes, because nothing that serves does.

### Projection, MonitorStore, MonitorRestart

`Project(db, e, now)` is `apply_event`: the watermark per producer stream, the
first-terminal-outcome rule, the older-attempt guard, then the upserts. An action
of `MonitorStore` is one method, which is one SQLite transaction under the
server's lock: `Ingest`, `RefreshLiveness`, `PruneHistory`, and `Tick`. An event id
that is still in the log is a duplicate and no step; one that was pruned comes
back as a new row. `MonitorRestart` adds `Restart(kept)`: replay the log into empty
tables in row order, then put back offline states from the tables that survived
(`kept`) and from the active incidents, as `Store.replay` does.

`MonitorStore` is the abstract specification and `MonitorRestart` implements it:
`RestartIsInvisible == Persistent!Spec`, where `Persistent` is `MonitorStore` with
every variable mapped to itself, except that the offline reason of a runner is
the one that events and timeouts gave it (`told`). A restart is then a stutter.
`OnlyGoodbyeForgotten` says exactly when that exception matters.

### Server

`proc` is where `main` is: `CheckArguments`, `OpenStore`, `CreateServer`, then the loop,
`Interrupt`, `CloseServer`, `CloseStore`, `Return`. `stage` is where each connection's
thread is: `Read`, `ReadTimesOut`, `Lock`, `Call`, `CallFails`, `Reply`. The threads are
daemons: when `main` closes the store they may be anywhere, and a call on a closed
store raises. `Kill` ends all of it between any two steps.

### Snapshot and Dashboard

`LoadDashboard` is one `dashboard_snapshot` under the lock: `RefreshLiveness` first,
then the tables, the window of newest rows (`RecentEvents`), the timeline of a job
(`RecentJobEvents`) and the feed. `Phases`, `LatestFallback` and `ProgressUnreported` are
what it computes from the window. `Formatted` is the conversion of a time to UTC+8,
which fails at the edges of the calendar (`edge`).

In `Dashboard`, `loads` and `requests` are the fetches under way; they are answered
in any order (`ServeDashboard`, `ServeHistory`), arrive in any order
(`DashboardArrives`, `HistoryArrives`) or fail. `refreshing` is `refreshInFlight`. `Store`
adds a row to the log between any two of them. Of a snapshot only the newest
`job.progress` of one job is kept. `page` is `state.historyPage`, which every answer
sets to its own page, also one to a request sent before the reader's click. What
the reader asked for is therefore the history variable `asked`: the page of the last
click, the requests that were under way by then, and whether the answer to one of
them has brought another page since (`overtaken`).

### Heartbeat

`loop` is the place in `HeartbeatLoop.run`, `_wait_for_network` or `emit_once`. The
stop event is auto-reset: every wait that sees it takes it (`Leave`). `Load` reads
or replaces the state file, `Reserve` saves the next sequence before the current
one is used, `Send` sends it, `Record` writes the status file or fails to. `StartLoop`
builds the loop (`Built`) with the last success of the status file or, when that file
cannot be read or parsed or holds none, without one (`unread`); the next failed
heartbeat then writes null.
`HeartbeatCrash` and `FileAccident` may come at any point.

### ServiceHost

`pc.run` is `SvcDoRun` inside `MonitorChildSupervisor.run`, `pc.control` is `SvcStop`;
both may be inside `MonitorChildSupervisor.stop`. `IsSet` and `Wait` consume the
event. `Terminate` and `KillChild` may raise, and `KillChild` may leave the child alive
when `KillMayFail`.

### Deploy

One attempt at a time: `Begin` (preflight), `Stop`, `Copy`, `RemoveOld`, `Replace`
(the three steps of `stage_release`), `Activate`, `Check`, `Start`, and the failure
paths `Undo`, `Rollback`, `Restart`. A fault may strike each of them, `Crash` ends
the process, the operator may remove a release directory between attempts. The
service control manager is external: a request is accepted now and takes effect
later.

### Gate and Hosts

`Gate` runs `Unlink`, `RunSuite`, `RunDrills`, `VerifyFailOpen`, `Render`, `Open`, `Write`; each
phase may raise, `KillRun` may come between any two, and `Hold` keeps the report
open in another program so that it can be neither removed nor written. A suite's
result is its exit code and the numbers its output is parsed for. `ReportIsTrue` reads
exit code and report together: 0 is a PASS of this run, 2 goes with this run's crash
report, 1 beside a report of this run with the FAIL of a run that failed. Exempt is
what a held file does: the old report stays, and the exit code is 1 whatever the
run found. `Hosts` is
`Upsert` with and without `replace_conflicting` on a sequence of lines, each an
address with names, in turns with `Edit`; `Resolved` is the resolver, which takes the
first line that has the name.

## 3. Runs

Every run is exhaustive under its bounds. "v" marks a run that must be violated:
it states what a document or test says and the code does not do.

| Run | Bounds | Shows |
|---|---|---|
| `outbox_safety` | 2 processes, 3 events, 2 payloads, 3 enqueues, limit 2 files / 6 bytes, 2 faults of crash, damage, unlink, write, outage | nothing accepted is lost, twins agree, quota, no poison retry, dead letters kept, and the refinement of `OutboxPromise` |
| `outbox_liveness` | 2 events, 2 stamps, 1 event per drain, 1 fault | pending events leave; the lock is given back |
| `monitor` | 1 runner, 3 job attempts, 7 events, log of 3 rows, clock to 4, 2 restarts with any subset of tables lost | the store's invariants (section 1), and the refinement of `MonitorStore` |
| `monitor_older_attempt` v | as above, log of 4 rows, no restart | an older attempt replaces a newer one |
| `telemetry` | start and end of a job and one integer beyond the store's limit, log of 3 rows, any number of requests, losses and late answers, 1 token rotation | end to end exactly once; ends are shown; the end of the job leaves the outbox |
| `telemetry_overflow` v | the start and the integer, no rotation | the integer never leaves the outbox |
| `exchange`, contract | 14 kinds of defects, up to 3 at once; values of 2, 3 or 9 ASCII characters and at most one other, plain or escaped, padded by 0 or 7 bytes, envelope of 3, limit 8 | what is accepted once is accepted everywhere; `emit` fails open but for named texts |
| `exchange`, delivery | 3 events, 2 per drain, 5 s and 5 s, 2 retries, both callers | retries, settlement and time |
| `exchange`, transport | 2 addresses, 2 parts to send, reads of up to 2 pieces, deadline 2, clock to 3 | at most the last thread and one raced socket are left; the caller returns |
| `exchange`, server | an event, a dashboard and a silent client, 2 launches of every setup, 1 failing call | one store call at a time, 202 means committed, start-up checks, silence blocks nobody |
| `dashboard`, page | 3 events, pages of 1, window 2, 2 clicks, 1 failure | the table shows the filter asked for, and the page unless the click was overtaken; no event skipped |
| `dashboard`, snapshot | 2 runners, 2 jobs, 9 events, log of 4 rows, window 3, feed and timeline 2, clock to 3 | one answer shows one moment; the windows agree |
| `dashboard_window` v | the page, no clicks | a phase leaves the window |
| `operations`, heartbeat | 3 heartbeats, 2 faults (crash, failed save, lost or damaged state file, unreadable status file), any number of stops | sequences advance, the last success does not go back and is lost only as null after an unreadable file, stop ends the loop |
| `operations`, service host | 3 starts, kill may fail | no monitor left behind or doubled; a stop that meets a running child ends the service |
| `operations`, deployment | 2 revisions, 3 attempts, 2 faults | rollback, verified success, whole active release |
| `operations`, gate | 3 runs, 2 drills, suites around the least number of tests | report and exit code are true |
| `operations`, hosts | 3 lines, the monitor and one other name, 2 addresses | the name resolves, again is no change, others keep theirs |
| `service_lost_stop` v | 1 start, kill succeeds | a stop before the spawn is lost |
| `deploy_broken_active` v | 2 attempts, no fault | redeploying the active revision leaves it broken |

Several properties are conjunctions of named parts: `DeploySafe`, `LeavesOneBehind`,
`StoreSafe`, `ExactlyOnce`, `ContractKept`, `RetriesAreSafe`, `ReportIsTrue`,
`OnboardingIsSafe`, `OneMoment`, `WindowsAgree`. The mutants of `PROJECT.json` break each
of the parts in turn.

Why the bounds are enough for the cases that matter:

* Outbox: with two files and three ids the third enqueue meets the limit; two
  faults allow a crash between dead letter and unlink followed by a second one in
  the recovery; two payloads make a conflict under one id. `listing` is left to
  the liveness run, because with it the quota can be exceeded: a failed
  listing is indistinguishable from an empty directory.
* Monitor: retention 1 and clock 4 let a row be logged, pruned and delivered again
  with its runner timed out; three log rows hold a job, its terminal event and an
  interloper; two restarts let a restored state be restored again. `Ingest`
  stops `Timeout` before the end of the clock so that silence is always observed.
* Telemetry: a copy of the start can be served after the end, and the refused
  event stands beside the end for ever. The two exceptions of `FinishedIsShown`
  that need a second job are covered by its proof, for any jobs.
* Contract: three defects let an earlier check hide two later ones. The lengths lie
  on both sides of the limit in each way of writing, and the ways disagree: 2 and
  one other character are 8 bytes escaped, exactly the limit, 4 in UTF-8, 11 in the
  outbox's envelope and 15 with padding; 3 and one other are too large as a value (9)
  and within the limit in UTF-8 (5); 9 is too large in every way.
* Delivery: the real constants (5 s, 5 s, two retries).
* Transport: two addresses let a thread of the first outlive the attempt at the
  second; a deadline of 2 lets each call begin before it and end after it.
* Server: one connection of each kind, and a restart that meets what the first
  process left.
* Dashboard: pages of one row make every insertion shift a page boundary; in the
  snapshot four rows exceed the window of three and the feed of two.
* Heartbeat: a lost state file, then a crash, then a heartbeat beside an old one.
* ServiceHost: all interleavings of two threads; three starts show that nothing
  is carried over.
* Deploy: install, update and a third attempt that meets what the second left; two
  faults make the rollback fail after the step it undoes.
* Gate: a run that finds a report, one that fails to remove it, and one after that.
* Hosts: three lines have a shared line, one of its own and a second for the same
  name.

No symmetry is used; the liveness runs could not have it, and the safety runs do
not need it.

## 4. Fairness

* `Outbox.FairSpec`: a process inside `enqueue` or `drain` goes on (weak; every
  step has a timeout); the heartbeat service drains again and again even though
  others take the lock between (strong on `StartDrain`: its loop never ends and
  the lock is polled); a healthy Monitor's answer is in time infinitely often
  (strong on `DeliverSettled`: an assumption about the network, without which an
  event whose delivery always uses up the budget stays); the Monitor recovers.
* `MonitorRestart.FairRestartSpec`: time passes and somebody loads the dashboard,
  because that GET is the only caller of `refresh_liveness`.
* `Telemetry.FairTelemetry`: drains go on, which is what
  `PendingEventuallyLeaves` of `Outbox` says (strong on `Send`); a client gives up in
  the end; handler threads run; the token file is brought up to date after a
  rotation; and a request for the same event that is read and served again and
  again is in time now and then (strong on `ReadBody` and `Accept`). All of it is
  asked for the events in `Followed` only, so that no event lives off another's.
* `Transport`: the caller goes on and the clock advances. The workers have no
  fairness: a resolver may hang for ever.
* `Server.ServerFairness`: the accept loop, `main` and the threads of clients that
  speak go on, and a thread that waits for the store lock gets it (strong). None
  is assumed for silent clients.
* `Heartbeat.HeartbeatFairSpec`, `ServiceHost.ServiceFairSpec`: the loop and both
  threads go on; each of their waits has a timeout. Nothing is assumed of SCM or
  of the child.
* `Dashboard.DashboardFairSpec`: the timer ticks, the Monitor answers, answers
  arrive or fail. `fetch` has no timeout, so the last is an assumption about the
  network.

In a run where only the part named by `subject` moves, the fairness of the other
parts must ask nothing of them. They begin in a state in which none of their
fair actions is enabled (no attempt has begun, no process is launched, no service
is started); where one would be, as the timer of the page, its fairness is stated
together with `subject` (`MCDashboard`).

## 5. Proofs

Eight modules hold theorems. TLAPS checks them for every value of the constants
that satisfies the modules' named assumptions; the runs of section 3 show the same
properties on small instances. Every part has the same layout: the inductive
invariant, one lemma per action (or group of actions) that a step keeps it, the
theorem that puts them together, and the theorems that follow from it.

| Module | Theorem | Statement |
|---|---|---|
| `OutboxProofs` | `TypeCorrect` | `Spec => []TypeOK` |
| | `AcceptedEventsAreKept` | `Spec => []NoAcceptedEventLost` |
| | `TwinsAlwaysAgree` | `Spec => []TwinsAgree` |
| | `DeadLettersAreKept` | `Spec => DeadLettersKept` (an action property) |
| | `QuotaIsRespected` | `Spec => []QuotaRespected`, if a listing never fails |
| | `PoisonIsNotRetried` | `Spec => []NoPoisonRetry`, if a listing never fails |
| | `OutboxKeepsPromise` | `Spec => KeepsPromise` (refinement) |
| `MonitorProofs` | `TypeCorrect` | `Spec => []TypeOK` |
| | `AppliedOnce` | `Spec => []AppliedAtMostOnce` |
| | `IncidentsMatchLiveness` | `Spec => []OfflineIffIncident` |
| | `RunnersAndJobsAgree` | `Spec => []RunningRunnerHasRunningJob` |
| | `FirstOutcomeStays` | `Spec => TerminalNeverRegresses` (an action property) |
| `RestartProofs` | `RestartImplementsStore` | `RestartSpec => RestartIsInvisible` (refinement) |
| | `RestartForgetsOnlyGoodbye` | `RestartSpec => []OnlyGoodbyeForgotten` |
| | `RestartKeepsTypes`, `RestartKeepsIncidents`, `RestartAppliesOnce`, `RestartKeepsRunnersAndJobs`, `RestartKeepsOutcomes` | the five of `MonitorProofs`, of `RestartSpec` |
| `TelemetryProofs` | `StoreIsImplemented` | `TelemetrySpec => MonitorStore's Spec` |
| | `OutboxIsUsedAsPromised` | `TelemetrySpec => Outbox!Spec` |
| | `TelemetryTypeCorrect` | `TelemetrySpec => []TelemetryTypeOK` |
| | `AcceptedIsNeverLost`, `NothingIsLoggedTwice`, `DeliveredOnce` | `TelemetrySpec => []ExactlyOnce` and its parts |
| | `EndsAreShown` | `TelemetrySpec => []FinishedIsShown` |
| `ExchangeProofs` | `ContractIsKept` | `ContractSpec => []ContractKept` |
| | `RetriesAreAlwaysSafe` | `DeliverySpec => []RetriesAreSafe` |
| | `TransportTyped` | `TransportSpec => []TransportTypeOK` |
| | `SocketsAreOwned`, `RaceCostsOne`, `OneThread`, `LeavesAtMostOne` | `TransportSpec => []LeavesOneBehind` and its parts |
| | `ServerTyped` | `ServerSpec => []ServerTypeOK` |
| | `CallsAreSerialized`, `AnsweredIsDurable`, `ServesAsItWasConfigured`, `StoreIsSafe` | `ServerSpec => []StoreSafe` and its parts |
| | `BeforeTheDatabase` | `ServerSpec => FailsBeforeTheDatabase` (an action property) |
| `ReadSideProofs` | `SnapshotShowsOneMoment` | `SnapshotSpec => []OneMoment` |
| | `SnapshotWindowsAgree` | `SnapshotSpec => []WindowsAgree` |
| | `DashboardIsTyped` | `DashboardSpec => []DashboardTypeOK` |
| | `NothingIsSkipped` | `DashboardSpec => []GoingOlderSkipsNothing` |
| | `SnapshotsGoForward` | `DashboardSpec => SnapshotNeverGoesBack` (an action property) |
| | `OnlyEarlierRequestsTakeThePage` | `DashboardSpec => []` (the page asked for is the current one unless `overtaken`) |
| `ServiceProofs` | `HeartbeatTyped` | `HeartbeatSpec => []HeartbeatTypeOK` |
| | `SequencesAdvance` | `HeartbeatSpec => []HeartbeatsAdvance` |
| | `SuccessStays` | `HeartbeatSpec => SuccessNeverGoesBack` (an action property) |
| | `HostTyped` | `ServiceSpec => []ServiceTypeOK` |
| | `NothingLeftBehind` | `ServiceSpec => []NoMonitorLeftBehind` |
| `OperationsProofs` | `DeployTyped` | `DeploySpec => []DeployTypeOK` |
| | `PointerNamesWholeRelease`, `FailureIsUndone`, `SuccessIsTrue`, `DeploymentIsSafe` | `DeploySpec => []DeploySafe` and its parts |
| | `ReportsAreTrue` | `GateSpec => []ReportIsTrue` |
| | `OnboardingStaysSafe` | `HostsSpec => OnboardingIsSafe` (an invariant and an action property) |

With these, every safety property of a passing run, invariant, action property or
refinement, is stated by a theorem about the specification the run checks. What
stays with TLC alone is liveness.

**Outbox.** `NoAcceptedEventLost` is not inductive: a drain about to unlink a file
must know that the Monitor has the event (`SettleInv`) or that its dead letter
says the same (`ClearInv`), and it knows only from its snapshot, which must still
be true of the files (`TodoInv`, `UniqueNames`). That holds because only the lock
holder is inside (`LockInv`) and what an enqueue is about to write exists nowhere
yet (`WorkInv`). Damage only changes whether a file can be read, which none of
these mention. For the quota, `QuotaInv` adds that room found under the lock is
still there at the write (`RoomKept`) and that a dead letter never adds a name
because its pending file is still there (`TodoPresent`); its steps use
`FiniteSetTheorems`. The hypothesis `"listing" \notin Faults` is needed for the quota
and for `PoisonIsNotRetried`: without it both are false. The refinement uses the
same invariant: a `Clear` or a reconciliation maps to a stutter because the dead
letter it leaves tells the same event.

**Store.** `MonitorProofs` is about `MonitorStore!Spec`, the store between two
restarts, with any log, retention and clock. Pruning makes
`AppliedAtMostOnce` interesting: the id is forgotten, so what keeps an event from
being applied again is that it is behind its stream's watermark
(`AppliedBehindMark`), which only grows. `RunningRunnerHasRunningJob` needs to know
that a runner's current job is one of its own (`CurrentJobIsOwn`): the terminal
event that ends the job then names this runner. That a job attempt runs on one
runner is the last part of `ProjectionAssumption`; two machines reporting the
same attempt would falsify it.

**Restart.** `RestartIInv` is the store's invariant and four parts. `LogTells`: as
long as nothing was pruned, the replay of the log gives the tables in all but
liveness and reason, in which it is behind by timeouts only (`Retold`), and each
row's `projection_applied` is what the replay of the rows before it decides.
`IncidentsTell`: the open incidents tell the timeouts and the goodbyes, so
`_restore_offline_incident_liveness` can put back what the replay cannot know.
`RowsOrdered` makes the replay of a longer log the replay of the old one and one more
event, `OnlyGoodbyeForgotten` bounds the difference. Then a restart changes no job and
no watermark, and of a runner the reason at most (`RestoredRows`); under the
mapping it is a stutter, and every other step is the abstract step of the same
name, because `apply_event` and `refresh_liveness` never read a reason
(`ProjectReplaced`, `TimedOutTables`).

**Whole path.** `StoreIsImplemented` and `OutboxIsUsedAsPromised` make everything
proved about `MonitorStore` and `OutboxPromise` hold of the composition. `HeldInv`
says what the 202 stands for: what was received is logged. `EndsAreShown` needs
that a watermark is the number of an event in the log (`MarkInv`), so that an end
that was not applied was overtaken by one that is there, and that the job a
runner shows was one it was given before (`ShownInv`).

**Contract.** What keeps the four checks together is `PlacesTell`: what this program
holds, in a file or in a request, is sound at the place where it is, and a body of
this program is exactly the bytes that were measured. The steps rest on facts
about the encodings: a value written again, compactly or within an envelope,
measures what it did before, and the compact text is as long as the measure. So a
check has nothing left to refuse, whatever the first text looked like.

**Delivery.** Attempts end after any time, so `InTime` carries the argument: the
deadline of the delivery in progress lies within what the drain has left, or, for
the heartbeat service, less than one delivery beyond it. `InProgress` says that
every answer so far was transient, `OneAfterAnother` that events before the one in
progress are answered and those after it untouched. The backoff is the recursive
function `Pause`, since the prover knows nothing of exponentiation.

**Transport.** What `CallInv` says of the order of calls (earlier ones are gone,
later ones have not begun), `AbandonInv` of the flag and `SocketInv` of each socket
makes the handover a protocol: a thread stores "value" and never touches the
socket again, the caller closes it only after it saw that, and the thread only
after it saw the flag. What falls between the two is `raced`. A connect gets into it
only with the timeout that ends the attempt, so there is no call after it and it is
the only one.

**Monitor process.** Every connection waiting to be accepted is queued exactly
once (`BacklogIsQueued`), a thread about to answer 202 has committed
(`AnsweringIsStored`), and what `main` has checked is still so while it serves
(`MainIsReady`).

**Snapshot.** A view is made in one step and judged against every later log, so the
invariant says which changes leave it true: `LogOrdered`, that rows are numbered in
the order of their arrival, with times that do not decrease. That the newest row
of a window is the newest of its stage, and that a window with a row missing is
full, are then facts about finite sets with their greatest elements taken
(`FiniteSetTheorems`). The next load begins with the timeouts, which is why
`ActiveWasHeard` needs no earlier state.

**Page.** `SnapshotNeverGoesBack` holds because one refresh is under way at a time
(`OneRefresh`), so an answer on its way is no older than what is shown
(`LoadsAreNewer`). `GoingOlderSkipsNothing` rests on `PagesTell`: whatever is older than
the oldest row of a page is on later pages, and stays so, as a new event only
moves rows to later pages (`NewerThan` never decreases). That a page begins where
the one before it ended needs that rows are passed one at a time
(`NoRowIsJumped`). For `OnlyEarlierRequestsTakeThePage` the invariant `AskedTells` adds
that a request sent after the click asks for the page of the click, as long as
nothing overtook it; only the answers to those in `asked.before` can.

**Heartbeat.** The sequence in the state file, and in the loop's memory, is ahead
of every heartbeat sent in its epoch, and no epoch newer than the last one drawn
was used (`ProducerInv`). A heartbeat under way has a number the file is already
beyond (`LoopInv`), so a crash between reservation and delivery skips a number
instead of repeating it. `EpochInv` bounds the epochs by the faults. For the last
success `ReportInv` says that the loop's copy is no older than the file, unless this
run could not read it (`unread`) and has had no success.

**Monitor service.** Only the thread `run` spawns, and it leaves `stop()` only when
the child has ended or a kill failed (`ChildInv`); that the control thread may be
inside `stop()` at the same time disturbs neither.

**Deployment.** Up to the switch the pointer is the one the attempt found, after
it the attempt's own (`AttemptInv`). The tree of the revision to go back to is the
one it had, unless somebody removed it or the attempt stages over it
(`PreviousInv`): staging touches no other directory. `FailureRestoresPrevious`
holds already while the service is being restarted (`Restored`).

**Gate and onboarding.** `RunTells`: a run that has not ended has no exit code, and
what it is about to write is this run's verdict, which is PASS exactly when
`LocalGatePassed`. `ReportIsPast` keeps the reports of earlier runs apart from it: until
the write, a report is one of an earlier run. For the hosts file the lemma
`UpdatedIs` says what a run that is not refused makes of it: one line for the
monitor, every other line as it was; a run after it then finds nothing to do, and a
name is moved only with its line.

**How induction is avoided.** The prover has no induction over data, but it has least
elements: `WellFoundedInduction` says that a non-empty set of numbers has a least
one (`LeastNumber`, and its like in the other modules). What is to hold for every row of the log, every
prefix or every backoff holds because a least exception would have a smaller one.
In the same way a recursive function is shown to exist before its equation is used
(`ReplayedIs`, `PauseIs`): each prefix has one function that satisfies the equation,
and these agree, so their union does.

**What a proof attempt showed.** `Restored` was once written as a `CASE` with
overlapping guards. TLC takes the first that holds and agreed with the code, but
TLA+ leaves the choice open, and the refinement could not be proved; the order
of the code's two `UPDATE`s is now an order of `IF`s. In `Hosts` the set of names of a
line was `SUBSET Names \ {{}}` without parentheses, which the prover reads the other
way round.

**Only model-checked**: liveness, which needs fairness and `ENABLED`
(`PendingEventuallyLeaves`, `LockReleased`, `SilenceIsNoticed`, `TableShowsWhatWasAsked`,
`CallerReturns`, `SilenceBlocksNobody`, `AcceptedSettles`, `StopEndsLoop`,
`StopOfRunningMonitorEndsService`). Every type invariant is proved; the runs check those that
are properties of their own or parts of one.

## 6. Disagreements found

Five have a run: see `findings` in `PROJECT.json`. Observed while reading and
modelling, without a run:

* `agent.py:114` retries 429 and 5xx only, so the 408 that `server.py:142` sends
  when a body comes slowly makes the event a dead letter. `docs/runbook.md:595`:
  "a transient network or HTTP failure leaves it there for a later bounded
  replay". (`SlowBody` in `Telemetry`.)
* `docs/runbook.md:598` says "The default limits are 1,000 pending events";
  `outbox.py:112` counts dead letters too, so an outbox without a pending event
  may refuse every further one.
* `heartbeat.py:407` hands every delivery of a drain the full five seconds, while
  `docs/runbook.md:600` says at most "5 seconds per drain"; `DrainWithinBudget`
  states the bound that does hold (less than ten).
* `agent.py:1` calls the sender fail-open. A number of more than 4300 digits, too
  many open brackets, a value too deep to be walked or to be dumped and a
  `run_url` that `urlparse` refuses raise exceptions nobody catches, and `emit` ends
  with a traceback and a non-zero exit code. (`FailsOpenButForUncaught`.)
* A date at the edge of the calendar passes validation (`contracts.py:51`:
  "safe to hand to persistence and display layers") and cannot be converted to
  UTC+8 (`dashboard.py:424`): the dashboard answers an error for as long as the row
  is shown. (`Formatted` and `Unavailable` in `Snapshot`.)
* `dashboard.py:308` says of the hint `progress_unreported`: "a fresh heartbeat with
  no new quantifiable progress". It is also given when the progress has left the
  window; `NoHintMeansProgress` is the direction that holds.
* `store.py:210` and `:377` speak of seven days of retention; only a drill of the
  gate and the tests call `prune_history`, so a serving Monitor keeps every row.
* `gate.py:594` says that "even a hard crash after this point leaves no report
  rather than a misleadingly stale one"; a report that cannot be removed stays, and
  the failure is ignored (`gate.py:598`). `StaleOnlyIfStuck` states what holds. And a
  report that cannot be written ends the gate with a traceback and exit code 1,
  which `gate.py:580` keeps for "ran, but FAIL".
* `agent.py:367` sets `abandoned` after the wait has timed out, and `_remaining_seconds`
  may raise before the wait. A connect that succeeds meanwhile stores its socket,
  and nobody closes it (`raced` in `Transport`; `OneSocketLost` bounds it).
* A click on "Older" or "Newer" while an earlier history request is under way is
  lost when that answer arrives after the click (`app.js:382`): the page number goes
  back to that of the answer, and every later refresh asks for it. (`overtaken` in
  `Dashboard`.)
* A status file that cannot be read when the service starts (`heartbeat.py:435`) counts
  as one without a success; the next failed heartbeat writes null over the time the
  file held (`heartbeat.py:456`). (`unread` in `Heartbeat`.)
* `onboarding.py:140`: "Add or safely update one exact hostname mapping in hosts
  text." With `replace_conflicting`, every other name on that line moves with it;
  `OthersKeepTheirs` has the exception.
* An unreadable outbox directory counts as empty (`outbox.py:380`), so the quota
  may be exceeded and a drain finds nothing.
* `refresh_liveness` runs only when the dashboard is loaded (`dashboard.py:130`).
* `_JOB_NAME` of `contracts.py` permits " / ", as GitHub writes the names of called
  workflows, while `_ABSOLUTE_PATH` refuses a slash after white space: such a name is
  always an invalid event.

## 7. Not modelled

* The regular expressions of `contracts.py`: a field's rule is one kind of defect.
* What a single drill of the gate does: each is a scenario of `MonitorStore` or
  `MonitorRestart`; here it passes, fails or raises.
* `validate_monitor_ip`, the choice of a certificate and `inspect_install_root` of
  `onboarding.py`: single checks of their arguments, without state.
* Configuration parsing of the services, `credentials.py` beyond a read that works
  or does not, the network probe's socket.
* Notifications (sent after the commit, best effort by design) and the degraded
  reasons; labels, units and static files.
* A crash of the service host that leaves its child running (`service.py:205`), and
  two heartbeat services on one state file (`heartbeat.py:241`): nothing in the code
  meets them, so every property about them would be false.
* The PowerShell scripts, and `build/`, an older copy of the package.

## 8. Plan

Done in this order, most important first: `Outbox` and its proofs; the store with
restarts; deployment; the Monitor service; the heartbeat service; delivery; the
page; their proofs; then the transport, the abstract outbox and its refinement,
the whole path, the Monitor process, the snapshot, the contract, the gate and
onboarding, with the proofs about transport, path and process; then the restarted
store as an implementation of the store, and the proofs about contract, delivery,
snapshot, page, gate and onboarding. What is left:

1. **Service registration**: the PowerShell module that creates, configures and
   rolls back the Windows services; composed with `ServiceHost`.
2. **Update**: `Deploy` and `ServiceHost` together, so that "success" says something
   about the process that runs.
3. **Proofs**: the safety of the two compositions above, once they are modelled.
