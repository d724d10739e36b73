# AegisRange in TLA+

AegisRange is a training range: simulated actors (or players) produce events, a
pipeline of detection rules turns them into alerts, incidents and containment,
and missions play scripted adversaries to a browser over a live stream. The
browser plays missions, keeps the player's career, lets analysts work on
incidents, and shows demo data when no backend answers. This directory holds
models of these parts as TLA+ modules, the TLC configurations that check them
on small instances, and TLAPS proofs of theorems that hold for every instance.

Paths below are relative to `src/backend/app` if they end in `.py`, and to
`src/frontend` if they end in `.ts` or `.tsx`, unless they start with `src/`.

## Inventory

Backend:

| Component | State it keeps | Operations | Hard behaviour | Correct means | Module |
|---|---|---|---|---|---|
| Event pipeline (`services/pipeline_service.py` and the services it calls) | none of its own | `process(event)` | many threads in one store, a write that raises half-way, a crash between two writes | one alert per signature; a durable call is whole | `EventPipeline` |
| Store and persistence (`store.py`, `persistence.py`) | entity lists, incident map, signatures, containment sets, risk profiles; SQLite tables; one shared transaction connection | append/extend/upsert, `transaction()`, `save()`, `load()`, `reset()` | memory first, disk later; one `_txn_conn` for all threads | disk never ahead of memory; the connection is given back | `EventPipeline`, `AlertLedger` |
| Detection rules (`services/detection/`) | metrics only | `evaluate(event)` | windows and thresholds at their boundary | every registered rule can fire | `EventPipeline` (as choice) |
| Incidents (`services/incident_service.py`, `routers/incidents.py`) | the `Incident` objects | register event/alert/response, status PATCH, notes | check and change of the status apart; several writers of one object | only legal transitions; evidence kept | `EventPipeline` (pipeline side), `IncidentDesk` (routes) |
| Missions (`services/mission/`, `services/mission_scheduler.py`, `routers/missions.py`) | run registry, `mission_runs` rows, scheduler tasks | start (async, sync, co-op), play, command, score, reset, load | event loop against pool threads, cancellation, restart in mid-script | outcomes are durable and final; no run active for ever | `MissionRuntime` |
| Mission stream (`services/mission_stream.py`, the SSE generator, `useMissionStream.ts`) | queues, replay buffers, closed set; phase and timeline of a page | subscribe, publish, close, unsubscribe; receive | late subscribers, slow readers, full buffers | no gap, no repetition, every stream ends | `MissionStream` |
| Platform authentication (`services/auth/`, `services/auth_cache.py`, `services/totp_service.py`) | failed attempts, revoked token ids, TOTP secrets | login, refresh, revoke, lock, prune | windows, expiry against pruning, restart | a revoked token stays refused | not modelled |
| Rate limiter (`services/rate_limiter.py`) | timestamps per key | `is_limited` | the window's boundary | never more than the limit in a window | not modelled |
| Simulated identity and documents | sessions | login, read, download | guard checked before the event is processed | containment refuses the next action | their events only |
| Campaigns, alert stream | groupings; queues | build, publish | merge order; unbounded queues | a partition of the incidents | not modelled |
| Reports, analytics, MITRE, kill chain, help, audit | none that others read | reads | none | | not modelled |

Frontend:

| Component | State it keeps | Operations | Hard behaviour | Correct means | Module |
|---|---|---|---|---|---|
| Player progress (`lib/player-progress.tsx`, `daily-challenge.ts`, `ops-content.ts`, `scenario-content.ts`) | a career per tab, one localStorage entry | load, record, save, reset | save before load, capped lists, two tabs, midnight, a career of the first version | what is shown follows from the missions played; nothing stored is lost | `PlayerProgress`, `DailyChallenge`, `ScenarioContent` |
| Scenario page (`app/scenarios/[scenarioId]/page.tsx`) | status, run, side, result; calls in flight | launch, co-op, join, command, reset, record | effects on one render's values, answers in any order, a lost stream | shows and records the run it is on, once | `ScenarioPage` |
| API client (`lib/api.ts`) | the cached probe; the demo copy of the incidents | probe, request, fallback | 2.5 s and 5 s timeouts, a verdict gone stale | demo data never passes for live data | `ApiClient` |
| Browser session (`lib/auth-context.tsx`, `AuthGuard`, `login`) | user, capabilities, expiry in sessionStorage | mount check, sign in, sign out | a late answer, a stale expiry | who is shown as signed in is | `IncidentDesk` |
| Incident and alert pages (`app/incidents`, `app/alerts`) | the page's incident, rows, flags | load in stages, change status, add note | navigation with calls in flight, partly answered loads | an edit told as made was made | `IncidentDesk` |
| Demo data (`lib/mock-data.ts`, mock layer of `lib/api.ts`) | tables; mutable copy of the incidents | factories; two mutations | hand-written figures next to generated rows | links lead somewhere, figures are those of the rows | `DemoRecords`, `DemoIncidents`, `DemoReports` |
| Read-only pages (dashboard, analytics, MITRE, kill chain, campaigns, risk, report) | filters | read | row limits | as above | `DemoTour` |
| Next proxy (`app/api/proxy/[...path]/route.ts`) | none | forward | reads an answer whole | streams pass | `ScenarioPage` (`ViaProxy`) |
| Command palette, shell, other pages | focus, cursor | render, navigate | an empty list | | not modelled |

Interaction: routes run on a thread pool (`def`) or on the event loop (`async
def`); both call `process()` on the one `STORE`. Mission beats call it from the
scheduler's task. Missions share only the SQLite file with the pipeline; the
stream hub is called by the scheduler and by `submit_command`. A middleware
calls `STORE.save()` after a successful mutating request. In the browser every
page calls `lib/api.ts`, which asks its cached probe whether there is a backend
and answers from the demo data if not; the scenario page subscribes to the
stream of its run and hands a finished run to the player's progress, which
reads the content modules for XP and objectives. A deployed page reaches the
backend through the Next proxy.

## Modules

| Module | Stands for |
|---|---|
| `AlertLedger` | abstract specification of the durable alerts: a set that only grows, one alert per signature |
| `EventPipeline` | `process()`, the store, the database, restart |
| `EventPipelineProofs`, `EventPipelineDurability` | the theorems about it |
| `MissionStream` | hub, SSE generator and browser hook; operators and page steps, without a specification of its own |
| `MissionRuntime` | extends `MissionStream` with runs, scheduler, commands, rows, restart |
| `MissionRuntimeProofs`, `MissionTimeline` | the theorems about it; the second has those about what a full buffer costs |
| `DailyChallenge` | the rotation of the daily challenge |
| `ScenarioContent` | objectives of the scenarios and their XP |
| `PlayerProgress` | careers of several tabs over one stored entry; extends the two above |
| `PlayerProgressProofs` | the theorems about it |
| `ScenarioPage` | the page a mission is played on |
| `ScenarioPageProofs` | the theorems about it |
| `ApiClient` | probe, request, timeout and fallback, per tab; no specification of its own |
| `IncidentDesk` | extends `ApiClient` with sessions, incident pages, edits and the incident routes |
| `IncidentDeskProofs` | the theorems about it |
| `DemoRecords`, `DemoIncidents`, `DemoReports` | the demo tables and the factories that generate rows, each extending the one before |
| `DemoTour` | extends them with the pages, their links and the visitor's edits |
| `DemoTourProofs` | the theorems about those edits |
| `MCEventPipeline`, `MCMissionRuntime`, `MCPlayerProgress`, `MCScenarioPage` | instances for TLC; `IncidentDesk` and `DemoTour` need none |

Definitions headed "Slip:" are not part of a model: each is a plausible wrong
version of the definition that follows it. Replacing the definition by its slip
makes the property named in `PROJECT.json` fail, which shows that the property
depends on that code.

### EventPipeline

A worker is a thread inside `process()`. Its `pc` names the next call; a step
ends where the code calls SQLite, because that is where the interpreter lock is
given away. Set and list operations between two SQLite calls are one step with
the write that follows them. `Begin` and `Open` are apart because
`begin_transaction()` looks at `_txn_conn`, connects (I/O), and only then
assigns it.

All records are rows `[kind, id, rule, actor, corr]`; an incident is the set of
rows of its correlation whose kind is `opened`, `seen`, `flagged` or
`answered`, so writing an incident adds that whole set. `mem` is the store,
`pending` what is written on the shared connection and not committed, `disk`
what is committed. `contained` and `scored` are the operational state, and
`savedContained`, `savedScored` its snapshot in SQLite.

A write (`Persist`) goes to the shared connection if this thread opened it, to
a connection of its own if there is none, and raises (`Raises`) if the shared
connection belongs to another thread (sqlite3 refuses a connection to every
thread but its creator) or SQLite fails. After a raise the call goes to
`Rollback`, which undoes the rows and never the memory: what the call entered in
its incident stays there, and is written with the whole incident by the next
call of the correlation. After the owner
commits, a worker that had joined writes on, each write committing alone. If
`BEGIN IMMEDIATE` raises, the exception leaves before the `try` of
`transaction()`, and `_txn_conn` stays set: `Open`'s second disjunct.

Abstractions: which of the rules that read an event type match is a choice
(`Evaluate`), so every combination of windows and thresholds is covered;
several upserts of one `update_risk` are one write; scores are the set of
alerts counted; `update_risk` upserts every incident of the actor. `Restart` is
always possible, so the system has no deadlock. Not in the model:
`STORE.reset()`, sessions, token revocations, capped lists.

### MissionStream and MissionRuntime

Every hub operation runs without a suspension on the event loop, so it is one
step. A queue is a sequence of frames bounded by `QueueSize`; `Offered` drops
what does not fit, as `put_nowait` with `QueueFull` caught does. `Watch` is
`subscribe` together with the page that opens the `EventSource`: the last
disjunct is the sentinel's `put_nowait` that raises. `Receive` is one turn of
the generator together with `applyEvent`; a sentinel or a terminal frame ends
the connection.

`_play` suspends only in `asyncio.sleep`. `PlayStart` runs from the task's
start to the first sleep (the first beat has no delay), `PlayNext` from one
sleep to the next; the last beat, the status change and `put()` run in one
piece. `put()` changes memory and serialises the run in one step (`PutRun`) and
writes the row in a later one (`Writes`), since SQLite gives the interpreter
lock away: pool threads act in between, the event loop does not, because it is
the one that waits. Each continuation after the write is its own action
(`StartWritten`, `RedWritten`, `BeatWritten`, `OutcomeWritten`, `Written`), and
`WriteFails` is the write that raises.

`Stop` and `Cancel` are the shutdown of the event loop, which cancels its tasks
(external code): a sleeping task puts the run as aborted, a task that never ran
ends silently. `Restart` is the end of the process, in order or by a crash,
followed by `load_from_persistence`. `Reset` empties the registry and leaves
tasks, streams and rows, as the code does. What a beat or a command does to the
event store, and the sharing of `_txn_conn` with the pipeline, are not part of
this model; a refused row write is `WriteFails`.

### PlayerProgress, DailyChallenge and ScenarioContent

A tab has a career in memory (`mem`), a phase (`closed`, `mounted`, `ready`)
and perhaps a change its persist effect has not written yet (`unsaved`); `disk`
is the localStorage entry. `Mount` and `Hydrate` are apart because the provider
renders an empty career before its mount effect reads the entry. `Record` is
`recordMission` whole: bests, streak, daily keys, achievements from the interim
career, XP, cap of the history, and the news for the banner. `briefed` is the
daily match, computed when the page is briefed and not again at midnight. XP
multipliers are counted in halves and rounded half up, as `Math.round` does.

`played`, `kept` and `undisturbed` are history variables: the log a career was
made from, that of the stored one, and whether the store ever had two tabs at
once or a reset. `Legacy` are logs played under the first version of the
career, and `Saved` is what that version stored of one: no streak, no bests, no
daily keys, and badges of its own. Most properties say that a part of the
career is the right function of the log, although the code computes it step by
step from a career whose lists are cut.

### ScenarioPage

A handler changes the page in one step. `Effects` is what React then does: the
effects whose dependencies changed run in the order of their declaration, all
on the values of that render, and what they set is the next render. Effects run
before the next answer, frame or click is handled. `calls` holds what was sent
and not answered, and `Answer` takes any of them. A command that the page gives
up on after 5 s may have been run by the backend, or not (`CallFails`). `server` holds each run with
the feed of frames published so far. `ViaProxy` says whether the page is a
deployed one, whose proxy passes a stream on only when it has ended; it only
delays `Receive`, so the invariants checked without it hold with it, as the
theorems show.

Left out: the `started` and `world_snapshot` frames, the elapsed timer, the
operations manual and its key, the inactivity nudge, the leaderboard card and
reloads. `Links` are the runs an invitation may name. A link to a run that
ended before a server restart is not among them: its stream never ends
(`routers/missions.py:268-270`), which is listed below.

### ApiClient and IncidentDesk

A tab has a slot for each activity that calls the backend. A read is answered
by the backend in the step in which the page takes the answer. PATCH and POST
have a stage between: the request becomes a thread of the backend and lives on
when the tab gives up after 5 s. A PATCH checks the transition in one step and
makes it in another, since the log call between them does I/O; colleagues'
PATCHes are the environment. Probes are numbered per tab, and
`cached` names the one whose verdict is kept.

The second stage of a page load asks for alerts, events, responses and notes
together. All or none is answered, or the notes are the one lost or the one
answered, which leaves a page partly live. `/responses` has no backend route.
Reloads are in the model through `Init`, which starts from any pair of a stored
expiry and a cookie the session check may find.

Bounds of the model beside `MaxMoves`: one edit of a kind per tab in flight and
one sign-in sequence per tab. Left out: `DEMO_MODE`, MFA and CSRF; a role
without the right to edit is refused just as a tab without a session is.

### DemoRecords, DemoIncidents, DemoReports and DemoTour

Times are minutes before `REFERENCE_NOW`. Rows keep the fields other tables
refer to or count; texts, addresses and payloads are left out, and so are the
platform users, whom no page lists. The factories are modelled as they work: one
counter through the specs, times spread evenly, fields taken in cycles.
`Newest` sorts by time and is exact because no two rows tie at a page's cut.

`DemoTour` makes a page load one step (`IncidentDesk` has what happens inside
one). Only what edits changed is state: a partial function over the data. The
visitor's clock is assumed to be past `REFERENCE_NOW`. The length of this group
is that of its tables; the tables of `lib/mock-data.ts` are longer.

## Runs

Passing:

| Run | Instance | Checks |
|---|---|---|
| `one_worker` | 1 thread, 3 calls, 1 SQLite error, crashes anywhere | `TypeOK`; `SeparateCallsComplete`: a durable alert has all its consequences, and what is durable without its alert or event is an incident entry, of a call that was rolled back and has no other row; `SnapshotJustified`: saved containment and risk have durable causes (as long as SQLite does not fail; a rolled-back call leaves its containment in memory to be saved by the next request) |
| `two_workers` | 2 threads, 2 calls, 1 SQLite error, crashes | `AlertOncePerSignature`; `DurableIsKnown`; `LeaksOnlyBlock`: only an SQLite error leaves the shared connection over, and then no other thread writes or answers until it is taken back; `LedgerSpec`: the alert table implements `AlertLedger` |
| `mission_play` | 1 run, 1 page, 2 beats, 1 command, 1 failure, 1 stop or crash, buffers of 8 | `TypeOK`; `CompletionIsDurable`; `TimelineIsScript`; under fairness `RunsSettle` and `StreamsEnd` |
| `mission_overflow` | 1 run, 1 page, 3 beats, 1 command, 2 failures, 1 restart, buffers of 2 | `TimelineInOrder`: frames are lost, late pages are refused, but the page shows no two beats in the wrong order; `StrandedOnlyWhenFull`: a stream is left without an end only by a close that finds its queue full, and then for good |
| `mission_pair` | 2 runs, no page, 1 pool thread, 1 command each, 1 failure, resets, 1 restart | `RowsLagRuns`: a row says nothing that is not true of its run; `BeatsAreCommands`: a feed carries only the commands of its pair, each once; `OutcomeStays`: a durable outcome changes only when the row of a score, serialised before the end, is written over it |
| `career` | 2 tabs, missions on days 1, 2 and 4, 3 recorded, history of 3, 1 daily key, a new career or one of the first version | `TypeOK`; `HistoryIsLog`; `DaysAreCounted` (streak and daily keys); `BestIsMax`; `BadgesAreEarned`; `NewsOnce`: the career is the right function of its missions; `StoreGrows`: an undisturbed store loses nothing |
| `scenario_page` | 1 page, 2 runs, 2 calls in flight, 1 beat, 1 command, 1 swap of sides, 3 links, no proxy | `TypeOK`; `TimelineIsOfRun`: the timeline shows the run the page is subscribed to; `CompletedIsRecorded`; `RecordedOnceAndFinal`; `QuietIsCurrent`: with nothing in flight the result, which the objectives are computed from and a late answer may have replaced, is up to date too; under fairness `MissionsEnd` |
| `desk` | 1 tab, 1 live and 1 demo incident, 1 fault, 3 moves of analysts | `TypeOK`; `SignedInIsLive`; `ExpiryFollowsUser`; `LiveNeverFaked`; `EditsTold`; `LegalUnlessOvertaken`: the status leaves its graph only when a PATCH was overtaken between its check and its change; under fairness `TabsSettle` |
| `demo_tour` | the demo data as it is, 2 edits | `NoDeadEnds`: every link finds one object, with all its evidence on the page, and references agree on both sides; `StoriesInOrder`: the timelines, after any edits; `FiguresMatchRows`: the figures of the dashboard, analytics, MITRE, kill-chain, campaign and report pages are those of the rows |

`mission_pair` sets `CHECK_DEADLOCK FALSE`: after a reset and the last restart
the bound allows, nobody need act. So do `desk` and `real_data`: analysts who
have made their moves may stop, and the calls they made come to an end. The
symmetry sets permute threads and event identities, runs, or tabs; no run with
a symmetry set checks liveness.

Violations, each a place where the code does not do what a text of the
repository says (quoted in `PROJECT.json`):

| Run | What it shows |
|---|---|
| `partial_commit` | With two threads a crash does leave partial calls on disk: the second joins the first's transaction, is refused, or commits write by write. |
| `beats_live` | On a deployed page (`ViaProxy`) no beat arrives while the mission runs: the proxy reads the stream to its end first. |
| `real_data` | With a backend that answers everything the incident page has no live alerts: it asks for 1000 a page, the backend gives at most 200 and refuses. |

### Bounds

Two threads are enough for the shared connection: a third can only join as the
second does. Two or three calls give a first alert, a repetition and a third
rule; one SQLite error is placed at every write. Two beats are a first (no
delay) and a last. One command per run is enough for a beat of each side of a
pair, and two for the repeated index. The hub's 256 is cut to 8 where no buffer
is to overflow and to 2 where it is: `NothingOverflows` below proves that 2 + 2
beats + 2 for each command, 6 in `mission_play`, is the most a buffer comes to
hold.
`MaxFaults`, `MaxRestarts`, `MaxCommands` and `EventIds` bound what the
environment may do; the code has no such bounds.

`career` cuts the history cap of 50 to 3 and the 366 daily keys to 1, so that
records beside the two of an old career go past both; the days 1, 2 and 4 hold
a streak and a break, three records one mission on each of them or a
repetition; the mission of the instance is the Daily Challenge of day 2, is
recorded with and without its bonus, and completes an op begun in the old
career. `scenario_page` needs two runs and two calls for answers of one mission
to reach the page of another; one beat and one command suffice to tell
timelines and results apart. In `desk` one tab meets the rest of the world as
colleagues and as its own requests that live on after a timeout; three moves
are sign in, open, edit, or two pages and an edit. In `demo_tour` two edits of
one incident make ids and order of timeline entries interesting; the data
itself is complete.

### Fairness

`MissionRuntime`: the event loop turns (a started or sleeping task runs, a
cancelled one ends), a SQLite call returns, a connected browser reads, and a
stopped server is started again. Nothing makes a player act, a page connect, a
score arrive or a crash happen. The 15 s keep-alive changes no state.

`ScenarioPage`: React runs the effects that are due, each kind of call is
answered or fails (`request` has a timeout), the scheduler plays a blue run of
one player, an open connection delivers what its server sends. Nothing of the
player: a red or co-op run may stay active for ever, and `MissionsEnd` is about
scripted ones.

`IncidentDesk`: a tab's calls go on (probe and request have timeouts), and the
threads of the backend run. No analyst need act and no backend need recover.

The other modules state safety only.

## Proofs

The theorems hold for every value of the constants that the named assumptions
allow: any number of threads, runs, pages, tabs, incidents and calls, any
script length, cap and buffer size, and any bound on errors, restarts and
moves. `tlapm <module>.tla` checks a module; `MissionRuntimeProofs` and
`PlayerProgressProofs` take longest. Each proof has one inductive invariant, a
lemma for every action that disturbs it, and a short theorem for every property
that follows. Quantities that recursive functions or cardinalities define (the
XP of a log, the blocks of days, the beats in a buffer) are handled by least
numbers (`LeastNumber`) and the theorems on finite sets, since induction itself
takes an operator as parameter, which the provers do not do.

### The pipeline

Assumptions: `PipelineAssumption` and `SourceTypesAssumption` of
`EventPipeline`.

| Theorem | Statement |
|---|---|
| `TypeCorrect` | `Spec => []TypeOK` |
| `AlertsDeduplicated` | `Spec => []AlertOncePerSignature` |
| `DurabilityLagsMemory` | `Spec => []DurableIsKnown` |
| `AlertTableIsLedger` | `Spec => LedgerSpec`, the refinement of `AlertLedger` |
| `ConnectionNeverLeaks` | `Spec => []NoLeakedTransaction` |
| `LeakStopsWrites` | `Spec => LeaksOnlyBlock` |
| `SeparateCallsAreWhole` | `Spec /\ []OneCallAtATime => []SeparateCallsComplete` |
| `SeparateCallsAreAtomic` | `Spec /\ []OneCallAtATime /\ [](faults = 0) => []DurableCallsComplete` |
| `SeparateSnapshotsLag` | `Spec /\ []OneCallAtATime => []SnapshotJustified` |
| `OneWorkerIsWhole` | `Spec => []SeparateCallsComplete /\ []SnapshotJustified`, if there is one worker |

`AlertOncePerSignature` is not inductive, since `Evaluate` looks at the
signatures and not at the alerts. `Inv` adds that every alert in memory has its
signature in `sigs` (`SignaturesCoverAlerts`) and that a call past its start has
its event, and inside the alert loop a rule (`FramesFilled`, without which a
step could write a row that is none). `DurableIsKnown` is inductive beside them
because every step puts rows in memory before it writes them, and `Restart`
takes memory from disk. For the refinement, a step adds to the durable alerts
only alerts that were in memory, which are deduplicated, and no step removes one.

`DurableCallsComplete` says that a durable alert has all its consequences
(`WholeAlerts`) and that every durable row a call adds after its event or alert,
the entries of the incidents included, has that event or alert durable
(`Cause`). `Consequences` are the rows a call always writes for an alert: the
entries `flagged` and `answered` are among them when the rule opens an incident;
an alert that does not may join an open one, and its entry needs its cause all
the same. The property is false for calls that overlap (`partial_commit`) and
for separate calls when SQLite fails: put in place of `SeparateCallsComplete`,
the run `one_worker` finds it violated. `OneCallAtATime` says of a
behaviour that no two workers are inside `process()` at once. Under it crashes
alone break nothing (`SeparateCallsAreAtomic`), and with SQLite errors
`SeparateCallsComplete` remains: the rows without a cause are incident entries
of calls that left no other row (`LeftOver`).

Two invariants carry this. Under `OneCallAtATime` `DurInv` is inductive: a
worker inside its transaction holds the connection, or finds at once that a
failed BEGIN of an earlier call has kept it (`InsideHolds`); until SQLite fails,
memory is what is written (`MemoryIsWritten`); and at every label of the alert
loop what is pending has all that the loop has done for its alert, while alerts
not yet treated are still to do (`CallsInProgress`). `EntriesInv` is inductive
beside it: an entry in memory has its cause on disk or pending, one on disk has
it on disk, or it is of a call that is over and of which only such entries are
written (`Forgotten`); it stays so, since a new call has an id of its own
(`CallsAreNew`).

`begin_transaction()` runs outside the `try` of `transaction()`, so a BEGIN that
raises leaves `_txn_conn` set (`store.py:370`). `NoLeakedTransaction` says that
without SQLite errors this does not happen. `LeakStopsWrites` says what it costs
when it does: while no worker holds the connection and none is just opening one
(`Leaked`), the disk does not change and no call comes to its reply, until the
worker that left the connection is at its next BEGIN or the process starts
again. No invariant is needed beyond `TypeOK`, but a case for every step: each
`persist_*` call of another worker is refused, and so is its roll-back.

### Missions

Assumptions: `StreamAssumption`, `RuntimeAssumption` and `NoneAssumption`.

| Theorem | Statement |
|---|---|
| `TypeCorrect` | `Spec => []TypeOK` |
| `RowsLag` | `Spec => []RowsLagRuns` |
| `BeatsPaidFor` | `Spec => []BeatsAreCommands` |
| `TimelineOrdered` | `Spec => []TimelineInOrder` |
| `OutcomesStay` | `Spec => OutcomeStays` |
| `CompletionsConfirmed` | `Spec /\ []NoneOvertaken => []CompletionIsDurable` |
| `LoopCompletionsConfirmed` | without pool threads, `Spec => []CompletionIsDurable` |
| `TimelineComplete` | `Spec /\ []NothingFull => []TimelineIsScript` |
| `ReadersAreApart` | the same for the pages of any set `C`, of whose queues alone the hypothesis speaks |
| `NothingOverflows` | `Spec => []NothingFull`, if `RoomEnough` |
| `TimelineWhole` | `Spec => []TimelineIsScript`, if `RoomEnough` |
| `EndsOnTheirWay` | `Spec /\ []NothingFull => []ClosedStreamsEnd` |
| `StreamsEndCleanly` | `Spec => []ClosedStreamsEnd`, if `RoomEnough` |
| `FullQueuesStrand` | `Spec => StrandedOnlyWhenFull` |

`RuntimeInv` says what the code relies on between two suspensions: a run with a
task is active and has beats left, or its outcome is being written (`Scheduled`;
without it a second outcome could follow the first); the row the event loop
writes is what it has just put (`LoopWrites`); what is no run has no row, beat
or frame (`NoGhosts`); rows keep the partners of their runs, and partners have
each other (`Pairs`); a feed's command beats and the one about to be published
are paid by commands of the pair (`BeatsPaid`); the beats in replay buffers,
queues and timelines are in order and behind the script (`FeedsInOrder`).

A score serialises a run on a pool thread, and its row may reach the database
after the outcome (`Overtaken`). `OutcomeStays` names that case, and
`CompletionsConfirmed` excludes it: `NoneOvertaken` says that no such row is in
writing. Then every `mission_complete` in a buffer, in a queue or on a page has
its durable row (`NewsConfirmed`). `mission_play`, without pool threads, checks
the same property without the hypothesis, which is `LoopCompletionsConfirmed`.

That nothing is missing from a timeline cannot be proved of buffers of any size:
full ones drop frames, as `mission_overflow` shows. `TimelineComplete` is about
behaviours in which no buffer fills up. Its invariant (`GapFree`) says that a
replay buffer has every beat played, a page every beat before one it shows, a
queue every beat between, and a client that is fed all there is: then backlog
and live frames meet without a gap. The invariant is stated for a set of pages:
the queues of other pages may be full meanwhile (`ReadersAreApart`), so that a
slow reader loses frames of its own and none of anybody else's. How large a buffer must be is
`NothingOverflows`: `RoomEnough` asks for more than `Most`, the beats of the
script, the two frames that start and end a run, and a beat for every command of
the run and of its partner. `RoomLeft` counts the frames a run may still
publish; `QueuesFit` says that a queue never holds more than the replay buffer.
`mission_play` has `Most` = 6 and buffers of 8. The code's buffers of 256 hold a
script of n beats and (253 - n) / 2 commands of each side; the code itself does
not limit the commands of a run, so a mission with more may lose frames.
`ClosedStreamsEnd` is the safety half of `StreamsEnd`: an open stream of a closed
run has the frame that ends it in its queue (`EndsComing`).

When a queue is full as its run closes, both frames that could end the stream
are dropped and the hub forgets the queue (`services/mission_stream.py:118`):
the stream is `Stranded`. `FullQueuesStrand` holds for buffers of any size and
says of every step that nothing else strands a stream, and that a stranded one
stays so, its page showing a mission under way, until the page goes or the
server stops. The invariant it needs beside `RuntimeInv` is that a queue the hub
still feeds is of a run that is not closed (`FedUntilClosed`); the lemmas say of
each step what it does to the end of one page's queue. Which frames are dropped
before that is not stated.

### Incident desk

Assumptions: `ClientAssumption`, `DeskAssumption` and `NoneAssumption`.

| Theorem | Statement |
|---|---|
| `DeskInvariant` | `Spec => []DeskInv` |
| `TypeCorrect` | `Spec => []TypeOK` |
| `SignedInStaysLive` | `Spec => []SignedInIsLive` |
| `ExpiryHasUser` | `Spec => []ExpiryFollowsUser` |
| `LiveIsHonest` | `Spec => []LiveNeverFaked` |
| `EditsReachBackend` | `Spec => []EditsTold` |
| `MovesAreLegal` | `Spec => LegalUnlessOvertaken` |

`DeskInv` ties the calls to the pages: the call in a slot is one that a load of
this kind of page makes (`Loads`), an edit waits for its incident (`EditsFit`)
and an answered edit was made (`EditsMade`), so that a late answer cannot land
on a page it does not fit; a trusted tab has no verdict that the backend is down
(`Trust`); a login answers with a user and the stored expiry is the one shown
(`Identity`); a thread past its check asks for a transition that was legal when
it looked (`Checked`); and a page of a live incident has nothing of the demo data
(`PagesHonest`).

### Scenario page

Assumptions: `PageAssumption`, `LinkAssumption` (an invitation names a run that
the server still has, with a feed that fits its status) and `NoneAssumption`.

| Theorem | Statement |
|---|---|
| `PageInvariant` | `Spec => []PageInv` |
| `TypeCorrect` | `Spec => []TypeOK` |
| `TimelineFollows` | `Spec => []TimelineIsOfRun` |
| `CompletedRecorded` | `Spec => []CompletedIsRecorded` |
| `QuietCurrent` | `Spec => []QuietIsCurrent` |
| `RecordedOnce` | `Spec => []RecordedOnceAndFinal` |

`PageInv` follows the effects: whatever names a run names one of the server's
(`PageRefers`, `CallsRefer`, `LogRefers`), the stream shows the frame it has
come to (`Following`), and an effect that is not due has done its work
(`Subscribed`, `Mirrored`, `Recorded`, `Matched`). The last property is about a
player who launches missions alone and keeps to a side (`plain`) and needs
`PlainInv` beside it: all runs are the player's own, and at most one launch is
awaited (`Alone`), the effects of a stream's end are due together
(`Finishing`), a complete mission was played to the end (`Finished`), and
records are of such runs, each of another one (`Logged`). The theorems cover a
page behind the proxy as well.

### Careers

Assumptions: `CareerAssumption` (there is a last day), `PlaysAssumption`
(missions are of scenarios and difficulties there are), `LegacyAssumption` (what
the first version played were missions too), `MarksAssumption` (achievements
have names of their own) and `NoneAssumption`.

| Theorem | Statement |
|---|---|
| `CareersFit` | `Spec => []CareerInvariant` |
| `TypeCorrect` | `Spec => []TypeOK` |
| `HistoryFollowsLog` | `Spec => []HistoryIsLog` |
| `StreakFollowsDays` | `Spec => []StreakIsBlock` |
| `BestsAreMaxima` | `Spec => []BestIsMax` |
| `DailyKeysFollowDays` | `Spec => []DailyKeysAreDays` |
| `DaysFollowLog` | `Spec => []DaysAreCounted`, the two as one |
| `BadgesFollowLog` | `Spec => []BadgesAreEarned` |
| `NewsToldOnce` | `Spec => []NewsOnce` |
| `StoredCareerGrows` | `Spec => StoreGrows` |

The code keeps a career step by step and cuts its lists; the properties say what
the career is of the whole log. `CareerInvariant` says of every tab, and of what
the next load would make of the stored entry, that each field fits one log
(`Fitting`), and, of an undisturbed store, that the one open tab has at least
what is stored (`Alone`, from which `StoreGrows` follows). The stored entry has
to be in it because a tab that hydrates takes over a career it did not make. The
lemmas under it are about the fields: the sum of the XP when a log grows, the
block of days that a record extends or begins, the maximum of a scenario and
side, the daily keys after the cap has cut them, the badges of a log and one
record more.

### Demo data

Assumption: `TourAssumption` (the bound on the edits is a number).

| Theorem | Statement |
|---|---|
| `TourInvariant` | `Spec => []TourInv` |
| `StoriesStayInOrder` | `Spec => []StoriesInOrder` |
| `DataStays` | `Spec => []DataIsKept` |

The sixteen incidents are as the module has them, and the proof first shows that
each is well formed (`DataFits`). `Fits` is what edits preserve, however many
there are: a timeline in order, with ids of their own, whose numbered entries
have numbers up to its length (`Numbered`, without which the id of the next
entry, its place, could be taken already), no entry later than the edits made
(`Until`), and `updated_at` and `closed_at` that agree with both. `DataIsKept`
says that an edit only adds changes of status after the story the data tells;
a reload drops them.

### What is model-checked only

`RunsSettle`, `StreamsEnd`, `MissionsEnd` and `TabsSettle` need fairness and
ENABLED, which are out of the prover's reach; `EndsOnTheirWay` and the
invariants above are the safety they rest on. `NoDeadEnds` and
`FiguresMatchRows` of `DemoTour` are about fixed tables and the rows that
factories generate from them: the run evaluates them on the data as it is, which
is all the data there is. `DailyChallenge` and `ScenarioContent` are proved about as far as
careers use them.

## What the code does beside its texts

Found while modelling; no violation run is about these.

Backend:
- The rollback of a failed `process()` does not reach the incident in memory; an
  alert flagged in it is committed with the whole incident by the next call of
  the correlation (`services/incident_service.py:16`), and has no row. This is
  entity state left partial on disk, which `services/pipeline_service.py:39-41`
  denies. `LeftOver` of `SeparateCallsComplete` names these entries.
- A crash between the commit and `save()` keeps a response and loses the
  containment it made (`store.py:133-134`); the rebuilt signature keeps the
  alert from being raised again.
- `DET-CORR-010` reads detection events, and no rule is evaluated on those
  (`services/pipeline_service.py:100`; `src/docs/scenarios/SCENARIOS.md:309` expects it).
- A score reported while the event loop writes the same run may leave the older
  row (`services/mission/store.py:35`).
- The stream of a run that ended before a restart, or was started in sync mode,
  never ends (`routers/missions.py:268-270`).
- Red missions are never concluded: the comment at
  `services/mission_scheduler.py:76-82` leaves that to the frontend, which does
  not do it.
- Command beats all carry index -1, and the page keeps the first of an index
  (`useMissionStream.ts:165`).
- A PATCH the page gave up on may still be made, and two PATCHes may pass the
  check together (`routers/incidents.py:74`).
- Rows of background beats are not saved by the middleware
  (`services/mission_scheduler.py:116`); a response after an analyst's
  containment sets `containment_status` back (`services/incident_service.py:101`);
  the blue side of a co-op pair is failed at startup (`services/mission/store.py:84`);
  a run is listed before its row is written (`services/mission/service.py:142`);
  a run is scored before it ends (`services/mission/service.py:345`).

Missions in the browser:
- A record is made again after a swap of sides, against the comment at
  `app/scenarios/[scenarioId]/page.tsx:239-241`.
- A console command answered late is merged into the result of the new run
  (`page.tsx:413`), one overtaken by the complete frame loses its credit
  (`page.tsx:410`), and a co-op launch that fails sets a running page to error
  (`page.tsx:332`). A run complete without a result leaves the panel empty. A
  blue run joined by its link after a swap is played and recorded as red: the
  join compares its side with the one of the first render (`page.tsx:115`).
- `daily-challenge.ts:81-83` claims 36 days without a repetition; with eight
  scenarios the side is tied to the parity of the scenario.
- `ops-content.ts:10-12` counts an op's mission if it was played "at least
  once"; the history it looks at keeps 50.
- The daily match is not computed again at midnight (`page.tsx:208`). Two tabs
  overwrite each other's career. Containment of anything in the world meets an
  objective (`scenario-content.ts:89`).

Analyst's pages:
- The notes list is emptied when the refresh after a posted note fails
  (`api.ts:807-824`). A demo incident is changed also when the backend refuses;
  sign-in and reset of the system report success without a backend.
- A probe that said "down" is kept: nothing calls the manual refresh that
  `api.ts:190` speaks of.
- A late answer of `/auth/me` after signing out sets capabilities without a
  user (`auth-context.tsx:199`); a sign-out that fails leaves the cookie
  (`auth-context.tsx:212`).
- The alert page asks for 500 alerts (`useAlertDetail.ts:34`) and never finds a
  live one. The timeline of a demo incident is memoised past an edit in place
  (`useIncidentDetail.ts:165`). The cursor of the command palette is -1 on an
  empty list (`CommandPalette.tsx:417`).

Demo data:
- The follow-up responses of an incident run backwards in time from its start,
  so those of inc-0001 precede the attack and those of inc-0009 its creation.
- `responses_executed` of the report, 39, is no count of the tables. Incidents
  by status stay as loaded after an edit. `responses_total` of a scenario counts
  only the responses written by hand.
- alert-0006 cites evt-0033, which is two minutes outside the window it names;
  the timelines of inc-0004 and inc-0005 date a response and an alert
  differently from their rows.
- Of sixteen incidents six have an analysis; `TACTIC_ORDER` of the MITRE page
  lacks a tactic the data has.

## Plan

1. Done: `EventPipeline`, `AlertLedger`, their proofs; `MissionStream`,
   `MissionRuntime`; `PlayerProgress`, `ScenarioPage`, `IncidentDesk` and
   `DemoTour` with the modules they extend.
2. Done: every safety invariant and action property of the pipeline, the
   missions, the desk, the scenario page and the careers is a theorem, and of the
   demo data those that edits could break.
   Left: that what a page misses is what a full buffer dropped; a bound on the
   commands that a fixed buffer holds when the partner is silent.
3. Modelling that is left: `STORE.reset()` in `EventPipeline`, the containment
   guards of the document routes, detection thresholds and windows as
   operators, campaigns as a partition of the incidents, the alert stream, the
   windows of lockout, revocation and rate limiter over a discrete clock.

## Not modelled, and why

Backend reads, reports and formatting change no state. Password hashing, JWT
encoding and TOTP arithmetic are library functions; lockout, revocation and
rate limiting are small sequential state machines over a clock, share no state
with the parts above, and come after them in the plan. The Redis auth cache is
optional external storage. CSRF and header handling keep no state. Campaigns
are computed afresh from the incidents at each request. Pages that are not
named above are layout; the command palette and the shell navigate over data
the other parts own.
