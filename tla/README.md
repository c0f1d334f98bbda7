# TARS: a TLA+ verification project

This directory holds TLA+ models of the concurrent and stateful parts of TARS:
its backend (`src/backend/core`, `src/web_extras`), its browser cockpit
(`src/apps/cockpit`) and the download proxy of its release site
(`src/experiments/neural-showcase-v3/functions`), TLC configurations that check
them on small instances, and TLAPS proofs of what must hold for every instance.

The **backend** is one asyncio process (FastAPI) that keeps its state in sqlite
and in day files. Every store method runs a short synchronous function in a
worker thread (`await asyncio.to_thread(...)`) over a connection of its own, so a
handler is a sequence of atomic database statements with awaits between them, and
handlers, lifespan loops and background tasks interleave at each await. Almost
nothing takes a lock across an await: the models ask what the guards in the SQL
statements still guarantee, and what they do not. The **cockpit** is one page: its
handlers run to their next `await`, and what they awaited (a socket, a stream, a
permission prompt, an audio element) answers when it likes, after a teardown too.
The **release edge** is stateless functions over caches and GitHub, which changes
between two of their reads.

Each module says `Spec`; one action is what runs between two awaits. The
properties are at the end of each module, the deliberately wrong variants of
definitions that show a property can fail (`\* Mutant: ...`) just before the
definition they vary, and `PROJECT.json` maps every definition to the lines it
stands for.

## Inventory

### Modelled

| component | state | operations | interacts with | module |
|---|---|---|---|---|
| **Policy queue** (`core/policy`, `routers/policy.py`, expire loop of `app.py`) | table `confirmations`: status, result, expiry | stage, confirm (judge, announce, run, resolve), cancel / deny, bulk approve, expire sweep | every caller of `PolicyGate.check`; events to meeet, webhooks, receipts | `PolicyConfirmations` |
| **Outgoing webhooks** (`core/webhooks`, `routers/webhooks.py`) | tables of hooks and `deliveries` | dispatch, fire, retry, tick, replay, activate / delete a hook | `emit` from every component; the remote receiver | `WebhookDeliveries` |
| **Planner** (`core/planner`, `routers/planner.py`) | table `plans`; `PlanRunRegistry` in memory | insert, approve / reject, run group by group, abort, rerun, clone, delete | policy gate and actions inside a group | `PlanRuns` |
| **Scheduler** (`core/scheduler`, `routers/scheduler.py`) | `schedules`, `run_history`; `_inflight` in memory | create, patch, delete, run now, recover, tick, fire, record | the playbook runner | `SchedulerTicks` |
| **Cron search** (`core/scheduler/cron.py`) | an expression, a zone, the local time reached | `next_after`, branch by branch | every change of a schedule's `next_run_at` | `CronSearch` |
| **Receipts ledger** (`core/receipts/store.py`, `chain.py`) | day files (source of truth), sqlite rows, a lock | append, replay of a day, verify | every action that is recorded | `ReceiptChain` |
| **Merkle roots and anchors** (`routers/receipts.py`, `app.py`, `receipts/anchor.py`) | one row of `merkle_roots` per day | root of a day, anchor, hourly loop | the day files; Solana | `ReceiptRoots` |
| **Durable event buffer** (`core/meeet/client.py`, `store.py`) | `events.pushed` | emit, privacy gate, replay, repush, loop | every emitter; the MEEET host | `EventBuffer` |
| **Cowork handoffs** (`core/cowork/handoff.py`, `store.py`) | `handoffs`, the session's owner | create, accept, revoke, expire | whoever holds the token | `Handoffs` |
| **Outreach** (`core/outreach/sender.py`, `safety.py`, `store.py`, `campaigns.py`, `routers/outreach.py`) | `drafts.status`, `sent_at` | generate, patch, approve, delete, send: read, check, post, write | Gmail; campaigns call `send_draft` for one draft after another | `OutreachSends` |
| **Agent tasks** (`core/agents/runner.py`, `store.py`, `models.py`, `routers/agents.py`) | `tasks.status` | create, run, cancel; `patch_task`: select, check the transition, update | the council, the autopilot loop, meeet | `AgentTasks` |
| **Realtime socket** (`apps/cockpit/src/runtime/ws.ts`) | one WebSocket, retry timer, handlers | setup, subscribe, connect, retry, teardown | the broker of the backend | `RealtimeSocket` |
| **Chat strand** (`runtime/chat.ts`) | thread, messages, one controller | send, consume a stream, abort, teardown | `/api/chat/stream` | `ChatStrand` |
| **Microphone and recording** (`runtime/voice.ts`, buttons of `pages/cockpit-entry.ts`) | stream, recorder, chunks, promises of both | ask, grant, start, stop, revoke, teardown | the browser, speech-to-text | `VoiceCapture` |
| **Spoken answers** (`runtime/voice.ts`) | a chain of promises | speak, fetch, play, teardown | text-to-speech | `SpeechQueue` |
| **Download proxy** (`functions/dl/[file].ts`) | edge caches of releases | look up by tag and in the listing, rank, serve | GitHub, its half-published releases | `ReleaseProxy` |

How they interact: the planner and the playbooks the scheduler fires reach the
policy gate, which stages confirmations; all of them call `emit` of the webhooks
and of meeet, and record receipts. Those calls cross by writing rows or by
events; no component reads another's status to decide a transition, so the
modules are independent, and the events of one (`told` in the policy queue) are
what the next would take as input. The two that do share state are modelled
with it: `ReceiptRoots` reads the files that `ReceiptChain` writes, as the number
of lines of each day, and `RealtimeSocket` holds both the page's subscriptions
and those the server reads off the wire.

### Not modelled

`PROJECT.json` lists every other component with its reason. Of those with a
protocol of their own, the MCP session pool and the event broker's bounded queues
would come next. The rest is adapters of external services and language models, cryptography
(wallet, vault, pairing), documents, settings, and layout.

Of the JavaScript and TypeScript of the repository the larger part cannot be
modelled faithfully: minified bundles of a page that is no longer built from this
tree (`desktop/src-tauri/web-legacy/assets`, some 10 500 of 15 000 lines), a pitch
generator, a token preview, showcase pages and a service worker without
state. What there is with behaviour (socket, strand, voice, proxy) is modelled;
the remainder answers each request from itself alone: `_middleware.ts` sets a
cookie and headers (parallel first visits each get a session, and the last
`Set-Cookie` wins), `client-error.ts` writes a row or none, the editor's views
render one answer each. The backend is Python.

## The modules

### PolicyConfirmations

`row[t]` is the row of a confirmation token (status and result column),
`lapsed` the tokens whose expiry has passed, `req[r]` where an HTTP request is
suspended, `sweep[s]` a call of `expire_stale` (the loop and the operator's
`POST /expire` may overlap) with the tokens it selected, `runs` and `returned`
count handler calls and normal returns, `told` what was announced, and `unsaid` the
expired tokens a sweep was cut off before it reported.

| actions | code |
|---|---|
| `Stage`, `AnnounceStaged` | `PolicyGate.check` |
| `ConfirmRead` .. `ConfirmFail` | `confirm`: read, four verdicts (409, expired, orphan, go), announce, run the handler, resolve or fail |
| `CancelRead`, `CancelResolve`, `CancelAnnounce` | `cancel` and `deny` |
| `BulkRead`, `BulkResolve`, `BulkAnnounce` | one token of `bulk_approve` |
| `SweepSelect`, `SweepUpdate`, `SweepEmit` | `_expire_sync` (SELECT, guarded UPDATE) and the announcements after it |
| `AnnouncementRaises`, `SweepRaises` | the `client.emit` of an announcement raises: it catches URLError, TimeoutError and OSError only (`meeet/client.py:149`), so a ValueError or an HTTPException of its HTTP call passes |
| `Lapse`, `Crash` | time; a restart, which forgets the requests and keeps the rows |

An emit that raises ends a handler where it stands. In a sweep it ends the loop over
the batch: the lifespan loop logs it and sleeps (`app.py:467`), `POST /expire` answers
500, and the rest of the batch, which already reads expired, is selected by no later
sweep. Those tokens are never announced; `ReapIsAnnounced` excepts just them (`unsaid`).

`Resolve` is `_resolve_sync`: an UPDATE guarded by `status = 'pending'`, whose
row count `confirm` ignores. That is the crux: two confirms of one token both
run the handler, and only the first writes. `OneShotConfirmation` is the
contract an operator expects (executed at most once, only while pending,
resolved once); `PolicyContract` is a copy of the queue with a single request at a
time, no sweep and no restart, and maps it to that contract.

### WebhookDeliveries

`row[d]` is a delivery, `act[a]` an actor (the loop, or a coroutine that
dispatches or replays) with the **copies** of rows it holds across awaits,
`posts[d]` the POSTs answered or refused, `acked` the deliveries some POST of which was
answered 2xx, `raising` those whose call would raise now.

| actions | code |
|---|---|
| `DispatchMatch`, `DispatchCreate`, `DispatchTake` | `dispatch` |
| `Post`, `WriteSuccess`, `WriteRetry`, `WriteFailed` | `fire_delivery` |
| `PostRaises` | `_post_sync` raises: `Request(url)` of a URL without a scheme, or an answer that is not HTTP; its caller logs it and goes on, and the row is not written |
| `LoopSelect`, `LoopTake`, `LoopDrop` | a tick of the loop |
| `ReplayBegin`, `ReplayReset`, `ReplayReread` | the replay endpoint |
| `WriteLost`, `CallRaises` | store calls that raise, after a POST and elsewhere |
| `SetActive`, `CallsChange`, `TimePasses`, `Crash` | a hook switched off or on; its URL patched, or its receiver ceasing or beginning to speak HTTP; time; a restart |

The updates of the store are unconditional, so an outcome computed from a stale copy
overwrites a newer one; `NextDelay` is `next_attempt_delay` (the counter is raised
before the lookup, so the first entry of the back-off table, 30 s, is never used: the
first retry comes after 120 s). `next_attempt_at` is null, due or later.

A call that raises leaves its row as it was: due at once, for ever, and among the
oldest. No bound limits how often that happens. So `EveryDeliverySettles` excepts the
delivery whose own call raises and one that is `Jammed` behind as many of them as the
loop takes per tick, and assumes that calls begin and cease to raise only finitely
often (rows that raise in turn would jam others without ever being a batch). Restarts,
store calls that raise and replays are bounded (`MaxFaults`, `MaxReplays`): with endless
ones nothing need settle.

### PlanRuns

`status[p]` is a plan's row, `reg` the run registry (plan to the run it holds, or
`Orphan`, an entry whose run is over), `flagged` the runs whose abort event is set,
`req[r]` a request with its locals, `lost` the plans a run of which was cut off since
their row was last written. `SetStatusSelect` and `SetStatusUpdate` are the two
statements of `_set_status_sync`; `RunRead`, `RunCheck`, `RunRegister`, `GroupBegin`,
`GroupEnd`, `RunClose` are `PlanRunner.run`. Within a group, a step either ends
or stops the run: which, is one choice. `PlanLifecycle` is the lifecycle an
operator expects; `PlanContract` is a copy of the planner with a single request at
a time and no restart, and maps it to that lifecycle.

Two emits may raise at a bad place. That of `plan.run.started` (runner.py:349) follows
the status change and the registration and is outside the `try`: the row stays running
and the entry is left behind (`RunStartRaises`), so an abort is accepted and stops
nothing, and until a restart every run of the plan is refused as already running. That
of `plan.run.exception` (549) comes in the `except` branch, before the outcome is
written: the entry goes, the row stays running (`RunExceptionRaises`). Nothing reaps such
a row, but `POST /status` may approve or reject it, as it may any row that
is not terminal: `LLose` and `LDecide` are the cut and that decision in the lifecycle.

### SchedulerTicks

`row[s]` is a schedule's row, `loop` where `scheduler_loop` is suspended and the
rows it holds (`due_now`'s snapshot, or recovery's list), `task[s][l]` a call of
`fire_schedule` (`l` in `Lanes`: started by the tick; in `Hands`: by run-now),
`inflight` the runner's counter, `history` the schedules with rows in
`run_history`, `fired` a history variable. Time is counted per schedule in
instants its cron expression matches: `instant[s]` is the last that passed,
`next_after(now)` the next one.

| actions | code |
|---|---|
| `Create`, `PatchRead`, `PatchWrite`, `Delete`, `RunNow` | the handlers |
| `RecoverList`, `RecoverWrite`, `RecoverEnd`, `RecoverRaises` | `recover_state`: list, one UPDATE per enabled schedule |
| `TickRead`, `TickFire` | `tick`: `due_now`, then one task per row below `max_concurrent` |
| `PlayEnd`, `RecordRun`, `RecordFire` and their `..Raises` | `fire_schedule` after the playbook, after `record_run`, after `record_fire`, with `_fire_and_track`'s `finally` in the last |
| `TimePasses`, `Crash` | time; a restart |

The tasks a tick creates count themselves in when they first run. They do so
before the loop's next sleep ends, hence before any later tick, and nothing
else reads the counter: `TickFire` counts them in at once.

What `next_after` computes is `CronSearch`, below. That it lies after the instant it
was asked for, which `next_after(now)` takes for granted here, is proved there but for
the hours a clock shows twice, in which it fails (`cron_strictly_after`).

### CronSearch

`next_after` walks local times, without their offsets, from the minute after the one
it was asked for. `local` is the time the walk has reached, `since` where it began,
`began` the instant it was asked for. Each branch of the loop is an action:

| actions | code |
|---|---|
| `SkipMonth`, `SkipDay`, `SkipHour`, `SkipMinute` | a field rules the time out: go to the next month, day, hour or minute that may match |
| `Found`, `GiveUp` | the expression matches; four years have passed, which raises |

`Matches` is `CronExpression.matches` with cron's rule for the two day fields (either
decides when both are restricted). A zone changes its clocks once: `Wall` and
`Instant` are what `zoneinfo` does with a time that comes twice (`fold`) or is skipped.
The calendar is a parameter: the theorems assume of it that each month begins when an
earlier one has ended and has 28 to 31 days. `MCCalendar` gives the Gregorian one of
2025 to 2031, New York's clocks in both directions, and the expressions and moments that
meet month ends, a leap day, both day fields at once and both changes;
`MCCronSearch` puts the search on it. `Eligible` is the reference the search is held
against: all the times of the years in question that match.

### RealtimeSocket

`ws` is the socket `WsManager` holds (0: none), `sock[n]` what became of the n-th
socket opened: its phase, its close code, what is on the wire and the topics the
server serves; `timers` the timeouts armed, of which `retryTimer` may remember
one. `Setup`, `Teardown`, `Subscribe`, `Unsubscribe` are the calls of the page,
`OpenEvent`, `CloseEvent` and `RetryTimerFires` the listeners and the timeout of
ws.ts, `Lose` the network, and `ServerReads` the reader of `realtime_ws`. A socket
closed by the page may still have its open event queued, and its close event
comes later.

### ChatStrand

`messages` is the strand, `req[s]` a call of `send` with what its reader holds
back, `inflight` the controller `teardown` would abort. A stream is a sequence of
frames cut into chunks anywhere; `Consume` is one chunk, which may complete
several frames or none, `Flush` what remains when the body ends without its blank
line. `overlapped` records that two sends were in flight together.

### VoiceCapture and SpeechQueue

`mic`, `recorder`, `chunks` and the two cached promises are the fields of
voice.ts; `stream[n]` is the n-th request for a media stream (asked, live or stopped),
`recording[n]` the n-th recorder, and `mic` and `recorder` say which one is held. The user clicks as the page allows: the handlers of the two
buttons in cockpit-entry.ts, whose guards they carry, are the callers. A stream
is granted or refused whenever, after a revocation and a teardown too.
`SpeechQueue` is the chain of promises of `speak`: an utterance begins when the
one it was chained to has settled, and a teardown starts a new chain.

### ReleaseProxy

`rels` are GitHub's releases, which grow one asset at a time and in any order;
`byTag` and `list` are the two edge caches, each filled from one moment and served at
a later one; `request` walks `fetchAsset`: its own tag, then the listing, ranked, and
once more for the arm64 stand-in of a missing x64 installer.

### ReceiptChain and ReceiptRoots

`lines` are the lines of all day files in the order written, `rows` those that
have a row in sqlite; `append` is line, then row, under an asyncio lock that a
cancelled call releases while its thread runs on (`strayed`). A hash is the index
of its line. In `ReceiptRoots` a root is the number of lines it was computed
over; `job[a]` is the loop or a request between its reads and writes of
`merkle[d]`, and `memos` the transactions on chain, whose answer may be lost.

### EventBuffer

`event[e]` is a row of `events` (held back by the gate or not, arrived at the
host or not, `pushed` or not), `sender[s]` a replay or repush between the post and the mark of one event. A
replay takes the newest unpushed rows up to its limit; some events the host
refuses for good (`Refused`).

### Handoffs

`handoff[h]` is a row of one session, `call[c]` a function between two calls of the
store, `moves` the transfers of ownership done. `Acceptable` and `Revocable` are
the `WHERE` clauses of the two conditional updates.

### OutreachSends

`draft[d]` is a draft's status, `send[s]` a call of `send_draft` between two awaits.

| actions | code |
|---|---|
| `Generate`, `Patch`, `Delete` | the endpoints, and approve-all, which patches what it listed before |
| `Read`, `Check`, `Post`, `Write` | `send_draft`: the status, the daily count with the other checks, the mail, its outcome |
| `WriteRaises`, `Stop`, `DayPasses` | a locked database; a stop of the server; a sent mail leaves the 24 hours that count |

Nothing is reserved between the count and the write, and the write asks for no status.

### AgentTasks

`task[t]` is a task's status, `caller[c]` a call of `run_task` or of the cancel
endpoint: about to select or to update within `patch_task`, with the status it will
write, or deliberating. `Followers` is `VALID_TASK_TRANSITIONS`. `patch_task` reads the
row and writes it in two statements, the second by the task's id alone, so a transition
that was valid when read may be written over another. `Raise` is what an exception
comes to: `run_task` catches that of its last patch, and patches the task to failed.
`CallBreaks` and `Restart` are the faults.

### Compositions

`Cockpit` is the page: the socket, the strand, the microphone and the utterances as
instances side by side, with `PageSpec` and what the page promises (`SoleSocket`,
`AnswerIsWhole`, ...). `Services` is the same of proxy, ledger, roots, event buffer,
handoffs, cron search, outreach and tasks (`ServicesSpec`). Their parts share no
variable: a step of one leaves the others as they are. `MCParts` extends both, and the
scheduler and the calendar; its first state chooses which part moves, so that one run
answers for all thirteen without their product.
`MCPolicyConfirmations` and `MCPlanRuns` run a component under concurrent requests
and, side by side, its contract (`PolicyContract`, `PlanContract`). The first state of
`MCPolicyConfirmations` and of `MCWebhookDeliveries` also chooses which mode of the
component is run: who takes part, about how many rows, and what may go wrong.

## The runs

Two requests, two workers or two lanes are the smallest numbers that race; a
third repeats a role the two already have, and the proofs below cover every
number. One crash or fault is enough for each kind of fault to hit each point;
the counters are bounded by the guards through these bounds.

| run | instance | what it shows |
|---|---|---|
| `policy_race` | either 1 token, 2 requests, 2 sweepers and 1 restart; or a batch of 2 tokens with 1 request and 1 sweeper; or 2 tokens (one orphaned, one over the bulk ceiling) with 1 request at a time and nothing else. Announcements and sweeps may raise at any point | first write wins, no claim of success that was not earned, bulk claims are true, nothing restarts once over; a lapsed row is reaped, and announced unless its sweep was cut off. One request: the queue **implements** `OneShotConfirmation`, the handler runs at most once, a denial is real |
| `policy_expire_report` | 1 token, 1 request, 1 sweeper | *violated*: a token confirmed between the sweep's SELECT and UPDATE is reported expired |
| `policy_bulk_run` | 1 token, 1 request, `InsistentSpec` | *violated*: a bulk-approved token's handler cannot be run any more (`/confirm` answers 409) |
| `webhook_race` | 1 hook and the loop with a batch of 2; either 1 delivery, 2 workers, a replay, a fault and deactivations; or 2 deliveries of 1 worker; or 3 deliveries left to the loop, the older two with calls that begin and cease to raise | a delivery is never given up before four POSTs, a success was acknowledged, a settled delivery stays settled; every delivery settles whose call does not raise and that is not jammed behind a batch of those whose calls do |
| `webhook_four_attempts` | 1 worker and the loop, 1 delivery | *violated*: dispatch and the loop both post a fresh delivery, so more than four POSTs |
| `plan_race` | 1 plan of 2 groups, 2 requests, 1 restart; side by side 2 plans and 1 request; in both the first event of a run, and that of an exception, may raise | completed plans went through, what ran was approved, a running row has a run or one was cut off, a sole run stays sole and stops on abort; running is temporary but for the runs cut off. One request: the planner **implements** `PlanLifecycle` |
| `plan_abort_persists` | 1 plan of 1 group | *violated*: an abort accepted during the last group ends in completed |
| `schedule_no_fire_lost` | 1 schedule, 2 lanes, 1 run-now, 2 instants, 1 fault | *violated*: a restart passes over a due instant |
| `cron_strictly_after` | 7 expressions, 3 zones, 7 moments | *violated*: asked in the second pass of an hour the clock shows twice, the search returns an instant of the first |
| `parts` | the thirteen parts, below | 22 properties, below |
| `receipt_days` | 1 caller, 2 receipts on 2 days, no fault | *violated*: the second day of an honest ledger does not verify |
| `replay_gate` | 1 event, no fault | *violated*: an event the privacy gate held back is posted while the mode is still strict |

The parts and their bounds in `parts`:

| part | instance | properties |
|---|---|---|
| socket | 1 topic, a setup after a teardown, 2 envelopes on the wire, 2 lost connections or failed constructors | `SoleSocket`, `TopicsInSync`, `TeardownIsFinal`, `ComesBack` |
| chat | 2 sends that may overlap, 2 frames cut into any chunks | `AnswerIsWhole`, `TornDownStaysEmpty` |
| voice | 3 streams asked for, 3 recordings | `CaptureIsHeld`, `TranscriptIsItsOwn` |
| speech | 4 utterances | `OneVoice` |
| release | 2 versions, 2 releases, the two installers of one; the alias of a version without its own file is that of the latest, so one tag is asked for | `PrefersItsTag` |
| receipts | 2 callers, 3 receipts, 3 instants, 1 fault | `OneChain` |
| roots | 1 request and the loop, 2 days, 2 lines a day, 2 memos | `AnchorMatchesRoot` |
| events | the loop and 1 request, 2 events of which 1 refused for good, limit 2, 1 fault | `BufferedArrives` |
| handoffs | 2 users, 2 calls, 2 handoffs | `SingleUse` |
| cron | 7 expressions, 3 zones, 7 moments of `MCCalendar` | `FirstMatch`, `NextFiring` |
| outreach | 3 drafts, 2 sends in flight, a cap of 1: both may pass the check, and a third draft goes beyond the bound if the check lets it | `CapNearlyKept` |
| tasks | 1 task, 3 calls that run or cancel it, 1 fault | `RunningIsRun` |
| ticks | 1 schedule, 2 lanes, 1 run-now, 1 instant, 1 fault | `NeverOverfull`, `NoOrphanRuns`, `TwiceAtMost`, `DueIsServed` |

No run repeats the type invariants: each is a theorem (`TypeCorrect`, `PageTypesHold`,
`ServicesTypesHold`). In the runs with two
racing requests one token, delivery, plan or schedule is enough: rows are only
ever changed by their own key. The instances with two or three are for the steps that go
over several.

No passing run checks deadlock: with every token resolved, every plan deleted, every
delivery settled, the bounded instants used up or a part at rest, the instance really
has nothing left to do. What must not stop is stated by the liveness properties.

### Disagreements between the code and what it says

The eight violated properties quote a docstring, a comment or a contract, and
`PROJECT.json` gives the lines: `_expire_sync` ("cannot win the race"),
`bulk_approve` (the handler still runs via `/confirm`), the dispatcher
("4 attempts max"), the abort endpoint ("persists status=aborted"),
`SCHEDULER.md` ("no scheduled fire is lost"), `next_after` ("strictly after
after_dt"), `RECEIPTS.md` (a day of the chain
verifies) and `meeet/client.py` (what the gate holds waits for "a later mode
flip + replay").

Met on the way, and recorded as notes rather than runs:

- policy, planner, scheduler: two confirms of one token run its handler twice; a
  terminal plan status is overwritten by a status change that read the row
  before; a running plan may be rejected; `record_fire` overwrites a
  `next_run_at` patched while the run was in flight;
- cron: `0 0 31 2 *` is accepted and its search raises, which cron.py:302 says cannot
  happen for a well-formed expression; of an hour the clock shows twice only the first
  pass fires;
- outreach: two sends of one draft that overlap mail it twice; sends that overlap pass
  the daily cap; PATCH puts a sent draft back to approved, to be sent again; a POST that
  timed out after Gmail accepted it reads failed;
- agents: "PENDING/FAILED → RUNNING" (runner.py:87), but failed → running is not among the
  transitions, so running a failed task always raises; a cancel and a done may
  overwrite each other, and either call reports success; a restart, or an exception out
  of the event that announces the run, leaves the task running for good; the autopilot
  takes the newest pending task (`ORDER BY created_at DESC LIMIT 1`);
- receipts: two receipts at one instant, a clock step back or a cancelled append
  fork the chain (`OneChain` excepts them); a root asked for during the day is
  kept, so the loop never computes the whole day's (app.py:634); `leaf_count` is
  re-read and may be another root's; a new root clears the anchor of the old;
- handoffs: "Transfers ownership atomically" (handoff.py:108) is two transactions: two
  accepted handoffs may move the session in either order, and a stop between them
  leaves one accepted and not moved; an old pending handoff of a former owner can
  still take the session;
- events: a limit's worth of refused events starves the older ones;
- socket: a setup after a teardown may meet the close event of the old socket and
  orphan the new one, which the page never does;
- chat: overlapping sends share one `inflight`, so a teardown may abort nothing; a
  stream has no timeout of its own; chat.ts:27 says a stream's error event fails
  the message, chat.ts:243 marks it delivered;
- voice: the labels of the buttons may lie after a revocation; data of a silenced
  recorder may come after the next has started; the utterance in flight at a
  teardown still plays;
- client errors: the header of `client-error.ts` promises 503 and 429, the code
  answers 200 and never throttles;
- proxy: `latest.json` may be served from an older release ([file].ts:80).

## Fairness

Only what the code schedules by itself is fair.

- `PolicyConfirmations`: the sweep's steps. The expire loop catches every
  exception and sleeps again; nothing is assumed of operators or handlers, and a
  sweep that raises (`SweepRaises`) is possible at any time but never due.
  `InsistentSpec` adds an operator who confirms for ever, which makes the
  violation of `BulkApprovedStillRuns` a statement about the code and not about
  a lazy operator.
- `WebhookDeliveries`: the loop, whose POSTs have a timeout and whose tick
  catches every exception; and time, which takes every `Retry-After` a receiver sends
  to be finite. Coroutines of dispatch and replay may stop at any await. Of the loop's
  call nothing is chosen: it raises when its delivery is in `raising`, and then the
  tick goes on, as the code does.
- `PlanRuns`: the steps of a request that has begun, that is, steps of a
  plan end; the emits that raise are no part of them. The runner sets no timeout of its own: this is an assumption on the
  actions a plan calls.
- `SchedulerTicks`: the loop, which survives every exception, and the
  steps of a call of `fire_schedule`. Again no timeout: a playbook that never
  returns holds its schedule's slot for good.
- `RealtimeSocket!Fairness`: the browser delivers the open and close events of a
  socket and fires a timeout that is due. Nothing is assumed of the page or the
  server; losses are bounded, without which nothing would come back.
- `EventBuffer!Fairness`: the steps of the periodic replay, whose loop catches
  every exception and whose http client has a timeout. The faults are bounded, and
  the events refused for good are fewer than the limit; with as many, the older
  ones do starve.
- `CronSearch`, `OutreachSends` and `AgentTasks` need none: they promise safety alone.

In `parts` each of these conditions is guarded by its part: where another part moves,
the steps are possible but never taken, and would deny every behaviour.

## Proofs

`*_proofs.tla` hold the TLAPS proofs, for every value of the constants that meets the
modules' assumptions: names kept apart, bounds that are natural numbers, a finite
`Lanes`; for the services (`ServicesBounds`) also that a replay takes at least one
event (`replay_cli.py` asks for `max(1, ..)`) and that every installer is of a supported
version and the x64 one of the aliased version has its stand-in
(`platformArtifactsForVersion` makes them together); of the search, what a calendar is
and what `parse` returns; of outreach, finitely many sends in flight and a cap of at
least one (`max(1, v)`, safety.py:72). TLC evaluates each assumption on
the instances of the runs.

The safety properties are seldom inductive alone: a row changes long after the
read that justifies it, so each invariant says what a suspended request, actor,
run or promise knows.

| module | theorems | inductive invariant |
|---|---|---|
| `PolicyConfirmations_proofs` | `TypeCorrect`, `FirstWriteAlwaysWins`, `ConfirmedAlwaysEarned`, `BulkClaimsAlwaysTrue`, `RunsAlwaysAnnounced`, `OverStaysOver` | a request about to resolve with a handler's result has a normal return behind it (`ReturnedKnown`), one about to announce a bulk approval has won the row (`BulkWon`), one past its announcement has announced (`Announced`) |
| the same, `OneOperator` assumed | `OneOperatorRunsOnce`, `OneOperatorDenies`, `OneOperatorRefines` | what a lone request read is still so when it writes: its row is pending, and its handler has not run before it |
| `PolicyContract_proofs` | `SoloAlwaysRunsOnce`, `SoloDenialAlwaysReal`, `SoloImplements` | the above, of the copy |
| `WebhookDeliveries_proofs` | `TypeCorrect`, `AttemptsAlwaysReal`, `NeverGivesUpEarlyHolds`, `SuccessAlwaysAcked`, `SettledAlwaysStaysSettled` | every copy an actor holds counts no more attempts than were posted, and one POST more once it has posted (`CopiesReal`): a stale copy counts too few, never too many |
| `PlanRuns_proofs` | `TypeCorrect`, `CompletedAlwaysRanThrough`, `RanAlwaysApproved`, `RunningAlwaysHasARun`, `RegistryAlwaysLive`, `SoleRunAlwaysStaysSole` | which target goes with which return point of `set_status` (`EntryOnly`), a request past the approval check has an approved plan (`Blessed`), the groups left and the outcome of a run agree (`Progress`) |
| the same, `OneOperator` assumed | `OneOperatorRefines` | the row a lone request read stays what it read, unless the plan is deleted (`RowHeld`); a running row is of the run in progress or of one cut off; a plan that went through is never run again (`ThroughIsPast`) |
| `PlanContract_proofs` | `SoloImplements` | the above, of the copy |
| `SchedulerTicks_proofs` | `TypeCorrect`, `InflightAlwaysExact`, `NeverOverfullHolds`, `NeverAnOrphanRun`, `NeverEarlyHolds`, `FiredTwiceAtMost` | the counter equals the runs in flight, so it is not zero when one ends, and run-now calls never reach `record_fire` (`HandsNeverUpdate`). For `FiredTwiceAtMost` (`SerialInv`): with no run in flight a row has passed every instant fired (`FiredOncePassed`), what a tick still holds was fired once at most (`HeldOnce`), and a run about to write moves its row past all of it (`RunsMoveOn`) |
| `Cockpit_proofs` | `SoleSocketAlways`, `TopicsStayInSync`, `TeardownStaysFinal` | `SocketInv`: in the first life every socket but the one held has had its close event, and there is a timer just when its handle is kept (`FirstLife`); only an open socket carries anything (`QuietUnlessOpen`) |
| | `AnswersAreWhole`, `TornDownStrandsStayEmpty` | `ChatInv`: what a call handled and holds back is what arrived (`CallGood`); of sends that never overlapped the one that goes on is `inflight`, or aborted (`SoleSend`, `Torn`) |
| | `CaptureStaysHeld`, `TranscriptsAreTheirOwn` | `VoiceInv`: the prompt on screen is the shared one, with no stream held beside it (`Prompt`); a recorder that records is the last, on the stream held (`Running`); while a click waits for its transcript nothing is recorded (`Wanted`) |
| | `OneVoiceAlways` | `SpeechInv`: the first n utterances form one chain, each begun only after all before it settled, and those after n are never heard (`Chain`) |
| | `PageTypesHold` | all four |
| `Services_proofs` | `DownloadsPreferTheirTag` | `ReleaseInv`: a by-tag answer, however old, has assets of that version's releases only (`ByTagIsOwn`), and the listing only of releases there are |
| | `ReceiptsFormOneChain` | `ReceiptsInv`: while none has strayed the lock admits one call, whose line is the newest (`Serial`), and a receipt not yet written links to what is still the newest row (`MadeOfNewest`) |
| | `AnchorsMatchRoots` | `RootsInv`: a signature travels with the day and root of its memo, in rows (`RowGood`) and in jobs (`JobGood`), and an upsert writes root and signature together |
| | `MarkedEventsArrived` | `EventsInv`: a POST that was accepted has arrived, wherever its mark is still to come (`AcceptedArrived`); what is refused each time never does (`RefusedStayOut`); a replay's queue holds events there are (`QueuesKnown`) |
| | `HandoffsAreSingleUse` | `CoworkInv`: between the update of an accept and the move, the row carries the accepting user and is not revoked, and no other call (`OneWinner`) and no earlier move (`Won`) has it |
| | `SearchesFindTheFirst`, `SearchesFindTheNext`, `WalksAlwaysEnd` | `CronInv`: nothing between the first local time and the one reached matches (`NothingPassed`), and the first local time follows the one the clock showed (`Asked`). The order of dates and the order of their minute numbers agree, by the calendar's assumption |
| | `CapsAreNearlyKept` | `OutreachInv`: what was sent today and the calls that may yet write that theirs was (`Away`) are together below the cap and the number of calls. A check that passes counted fewer than the cap, and away are never more than all; a write turns one that was away into one that was sent |
| | `RunningTasksAreRun`, `TasksAreOverForGood` | `AgentsInv`: the property is inductive with the types, because each of done, failed and cancelled follows running: a patch that is refused shows that the task does not run. For the second (`Settled`), a call that comes to write read the same status it writes |
| | `ServicesTypesHold` | all eight |

Each proof goes action by action, with a lemma for what a helper of the model does
and, in the later ones, a frame lemma for the steps that disturb nothing. The two
compositions add one lemma per part (`SocketAlone`, `ReleaseAlone`, ...): a
behaviour of the whole is, for the part's variables, a behaviour of the part.

**One operator.** Two confirms of a token do run its handler twice, so the contracts
hold of one request at a time only. The theorems about it are in the proofs of the
component, under `OneOperator` (any two requests are the same, no sweeper, no restart), as
an inductive invariant and a step simulation: each action maps to an action of the
abstract specification or to a stutter. `PolicyContract_proofs` and
`PlanContract_proofs` instantiate those proof modules with the copy that the runs check,
show that the copy meets the hypotheses, and carry the theorems over.

`RunsAlwaysAnnounced`, `RegistryAlwaysLive`, `NeverEarlyHolds`, `InflightAlwaysExact`,
`AttemptsAlwaysReal`, `SoloAlwaysRunsOnce`, `WalksAlwaysEnd`, `TasksAreOverForGood` and
`MarkedEventsArrived` state properties no run repeats: the last is the safety half of
`BufferedArrives`, and `SoloAlwaysRunsOnce` follows from `RefinesOneShot`, which is
checked. `WalksAlwaysEnd` is not liveness: each step of the search goes forward and
starts within four years of its first, so there are no more of them than minutes.

Only model-checked: everything temporal under fairness (`LapsedIsReaped`,
`ReapIsAnnounced`, `EveryDeliverySettles`, `RunningIsTemporary`, `DueIsServed`,
`ComesBack`, `BufferedArrives`), which the prover cannot reason about. Every other
property of the passing runs is a theorem.

## What the models leave out

- The content of payloads, arguments, results and summaries, logging and the
  wording of errors, and read-only endpoints. Hashes, signatures and Merkle roots
  are identities.
- Failed database writes of the policy queue, the planner, the handoffs and the
  roots (those of webhooks, scheduler, receipts and events are modelled). A failed
  write there aborts its request, as a restart does, and no other; in a plan's run it
  leaves the row running, as an emit that raises does. In particular the outcome of a
  confirmed action is not written if `_resolve_sync` cannot turn the handler's result
  into JSON (store.py:223): its row stays pending after the handler ran, and a second
  confirm runs it again. `OneShotConfirmation` holds of handlers whose results can be
  stored.
- What an emit that raises comes to where no row is left to write: after the outcome of
  a run or of a confirm, after a status change, in the endpoints that stage, list or
  report. The caller sees a 500, and nothing else changes. Where it does cost a
  transition or an announcement it is modelled (policy, planner, agents). The rest of
  a bulk approval's list is such a case: its tokens stay pending.
- How long a `Retry-After` may be, and the Telegram transport of a webhook, which
  catches every exception.
- A second process on the same database (the planner's CLI).
- The real clock: expiry, retry and the scheduler's times are orders of events; a
  receipt's time is an instant that may repeat or step back. `CronSearch` counts in
  minutes, in zones that change their clocks once.
- The syntax of cron expressions: the search starts from what `parse` may return.
- The content of drafts and templates, campaign counters, the agents' own rows and what
  the council answers.
- At most one PATCH of a schedule is in flight; several runs of the tick's and
  one run-now per hand.
- The socket's dispatch of other envelopes to handlers, the wording of chat
  messages, personas and badges, the bytes the proxy streams.
- Pruning of old events, pausing and presence of a cowork session.

## What would come next

1. `SessionPool` and `EventBroker`, and the broker composed with `RealtimeSocket`.
2. `SchedulerTicks` instantiated with `CronSearch`, so that an hour the clock shows twice
   reaches the tick loop.
3. A contract of a draft, mailed at most once, which `OutreachSends` implements when
   sends do not overlap, as `PolicyContract` does for the queue.
4. Proofs of what 1 to 3 add, and of the safety halves of the other liveness
   properties, as `MarkedEventsArrived` is of `BufferedArrives`.
