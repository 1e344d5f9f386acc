# Portable ATC Radar Trainer: TLA+ models and proofs

The trainer is a local Python service (FastAPI over SQLite) that runs training sessions for
tower controllers. A session is event-sourced: every accepted command appends immutable
events to the session's history, and all other state is derived from it. Beside the service
stand a status page in the browser and two operator tools whose steps race with the world:
the acquisition of AI models, and the offline acceptance run of a preserved runtime. This
directory holds TLA+ models of these parts, the TLC runs that check them and TLAPS proofs about them.
Source paths below are relative to `src/`.

## 1. Inventory

| Component | Code | State it keeps | Operations |
| --- | --- | --- | --- |
| Session domain | `packages/domain/session.py` | none (pure) | `create_session`, `transition_session`, `Session.__post_init__`, `allowed_transitions` |
| Event contracts | `packages/domain/events.py`, `packages/application/events.py` | none (pure) | `DomainEvent` validators, `SessionEventFactory`, `validate_append_batch` |
| Projection, unit of work | `packages/application/persistence.py` | none (pure) | `project_session`, `WriteRequest.fingerprint`, `CommitResult` |
| Event store | `packages/infrastructure/persistence/sqlite.py`, `migrations/001_initial.sql` | tables `events`, `outbox`, `sessions`, `requests`; a flag per connection: open, unhealthy, closed | `commit`, `append`, `mark_dispatched`, `recover`, `close`, readers |
| Session service, routes | `packages/application/sessions.py`, `apps/api/sessions.py` | one call's locals | `create`, `get`, `transition`, `prepare_scenario`; one store connection per HTTP request |
| Traffic domain and replay | `packages/domain/traffic.py`, `packages/application/traffic_projection.py` | none (pure) | `transition_traffic`, `route_traffic`, `occupancy`, `initial_traffic`, `project_traffic` |
| Traffic and simulation services | `packages/application/traffic.py`, `packages/application/simulation.py`, `packages/domain/simulation.py`, `packages/infrastructure/simulation/fake.py` | one call's locals | `initialise`, `transition`, `apply`, `translate_effects` |
| Health registry | `packages/application/health.py`, `packages/domain/health.py` | in-memory map of component health under one lock; durable health events | `register`, `report`, `expire`, `snapshot`, `readiness` |
| REST application | `apps/api/factory.py` | the app's registry | middleware that reports "api" and logs every request, `GET /health`, error mapping |
| Structured logging | `packages/infrastructure/structured_logging.py` | a log file | write a record, or report its failure |
| Status page | `apps/web/src/HealthStatus.tsx`, `main.tsx` | one React component, timers, an attempt in flight | poll `/health`, abort, retry |
| Scenarios | `packages/domain/scenario.py`, `packages/application/scenarios.py`, `packages/infrastructure/scenarios.py` | files in a directory; a catalogue captured per application | `get`, `validate_references` |
| Model acquisition | `scripts/acquire_model.py`, `model_acquisition.py`, `model_source_huggingface.py`, `verify_model_zoo.py` | provider cache, staging and final directories of an asset root, free space | `acquire`: resolve, check, download, copy, inventory, verify, rename; audit |
| Offline acceptance | `scripts/run_fp001d_offline.ps1`, `collect_runtime_evidence.py`, `runtime_preservation.py`, `verify_runtime_preservation.py` | run directory: `network.jsonl`, stop and violation files, `run.json`, `operator-result.json` | stages, network samples, evidence, verdict |
| Configuration, launch, benchmarks | `packages/infrastructure/configuration`, other `scripts/` | none | parse, start, measure |

**How they interact.** An HTTP request opens a store (which runs `recover()`), calls the
session service, and closes the store. The service reads the session, the scenario
catalogue and the clock, builds a closure over what it read, and hands it to
`store.commit(request, build)`, which takes SQLite's write lock (`BEGIN IMMEDIATE`), looks
the idempotency key up, compares the expected version, runs the closure, writes event,
outbox, projection and retry rows, and commits. Health reports with a session context and
traffic commands go through the same `commit()`. Many threads, and possibly many processes,
do this at once; only the database and the registry's lock serialise them. The status page polls
`GET /health`; the middleware around every request, the page's included, reports "api" and
writes a log record, and a failed record is reported to the registry. `acquire()` calls are
processes that share an asset root and meet only in the file system, at a rename. The
acceptance script and its background sampler meet only in the files of the run directory.

**What is hard.** (a) State read before the write lock and used under it: the session, the
catalogue, the simulation time, the health history, the provider's effects. (b) A COMMIT
with an unknown outcome, followed by a retry under the same key. (c) Failures and crashes
between the rows of one command. (d) The same policy evaluated twice: by live commands and by replay. (e) Errors
that must not leave a lock behind. (f) Clocks that are set back. (g) Space, collisions and the
upstream branch are checked long before the rename that relies on them. (h) A sampler that
reads the network before it takes the time, may hang, and may outlive the wait for it. (i) An
aborted attempt that settles after the next one began.

**What makes each part correct.** Domain and projection: a restart finds the session the
live commands left; no command ends in an uncoded error. Store: one effect per idempotency
key, all or nothing; what was acknowledged is durable; histories are append-only; whatever
the store writes, `recover()` accepts. Service: a success is the caller's own transition, a
retry is honoured, a refusal is about the committed session. Health: the durable health is a
chain of material changes and nothing else becomes visible. Traffic: runway membership and
aircraft agree after every event, live and replayed. Status page: what it shows is recent, and
it recovers. Acquisition: a revision appears whole, at once, for one call. Acceptance: PASSED
means that the network stayed down.

`PROJECT.json` lists the hazards at their lines, with the properties aimed at each.

## 2. Modules

| Module | Models | State and actions |
| --- | --- | --- |
| `SessionDomain` | `session.py`, session part of `events.py`, `project_session` | constant-level operators under the source's names. Identifiers, hashes, seeds and versions are one value `scenario`; failure category and reason are a Boolean. |
| `SessionHistory` | one session under sequential commands | `history`, `live`, `outcome`. `Create`, `Transition`, `RecordFact`; a refused command sets `outcome` to its error code, or to `UncodedError` when the constructor, the event contract or the projection would raise. |
| `EventStore` | `SQLiteEventStore` | `db` committed tables, `work` the open transaction's view, `writer` holder of the write lock, `pc`/`cmd`/`reply` per connection. One action per step that another connection or a failure can separate. |
| `DurableLog` | what the store promises | per session a log, an answer per key, a publication cursor. `TakeEffect`, `AppendEvents`, `Publish`. |
| `SessionService` | `DurableSessionService`, session routes, over `EventStore` | `req` per request thread, the files' `catalogue` and the one the application captured. `Load`, `BuildCreate`, `BuildTransition` run outside the lock, `Send` enters the store, `Prepare*` wrap nested transitions and read the files afresh, `EditCatalogue` changes files. |
| `HealthRegistry` | `HealthRegistry` over an atomic unit of work | `components`, `lock`, `jobs` per thread, `session`, `history`, `answers`, `now`. `Report`, `Expire`, `NextExpiry`, `Observe`, `LoadSession`, `CommitHealth`, `CommitFails`, `InstallDurable`, `ReadFails`, and the environment `SessionCommand`, `Clock`, `Restart`. |
| `TrafficDomain` | `domain/traffic.py` | constant-level operators: transitions, routes, occupancy, the facts of a move and what each refusal is for. An aircraft is the part of its record that a guard reads; a route is one value; runways are open. |
| `TrafficProjection` | `traffic_projection.py` | `initial_traffic`, and `project_traffic`'s loop as a replica: `Follows` (the round does not raise), `AfterFact`, `Complete`. |
| `SimulationPort` | `domain/simulation.py`, `translate_effects`, `fake.py` | commands, provider answers, their translation, the deterministic fake |
| `TrafficHistory` | one RUNNING session's traffic | `live`, `replica`, `unread`. `Transition`, `Apply` (a provider's answers: the fake's, and forged ones), `Replay` reads one committed fact. |
| `TrafficService` | `TrafficService`, `SimulationService` over an atomic unit of work | `session`, `log`, `answers`, `jobs` per thread. `Call` (reads the history), `Ask` (the provider), `Load` (session and clock), `Commit`, `CommitFails`, `Notify`, `Return`, and the environment `SessionCommand`, `OtherFact`, `Restart`. |
| `StatusPage` | the page, the middleware, the registry's global observations and the log | per effect an attempt and a timer; `shown`; per request its stage; `api`, `logging` as ages; `writable`, `logged`, `steady`. `Dropped` is what `logging.level` drops of the middleware's records. The page: `Deliver`, `Poller` (`Answer`, `Abort`, `LoadHealth`), `Refuse`; the API: `Serve` (`Enter`, `Read`, `Emit`, `Report`, `Leave`; a route may read health between the last two of another request); the environment: `Tick`, `ClockSetBack`, `LogFileChanges`, `Restart`, `OtherArrives`, `Rest`. |
| `ModelZoo` | what acquisition promises | per revision who preserved it and whether it is intact; per call what it was told. `Preserve`, `End`, `Ask`, `Disturb`. |
| `ModelAcquisition` | `acquire()` calls, the provider, the verifier | `job` per call, `cache`, `free`, `published`, `told`, `audit`. One action per step another process can come between, with failures, interrupts, kills, pushes to the branch and damage from outside. |
| `OfflineAcceptance` | the acceptance script, its stages and its sampler | `script`, `stage`, `process`, `watch`, `sample`, `netlog`, `stop`, `violation`, `files`, `result`, ages instead of times. |
| `SessionHistory_proofs`, `EventStore_proofs`, `SessionService_proofs`, `HealthRegistry_proofs`, `Traffic_proofs`, `StatusPage_proofs`, `ModelAcquisition_proofs`, `OfflineAcceptance_proofs` | | theorems about these modules |
| `MC*` | | instances for TLC |

Composition: `SessionHistory` and `EventStore` extend `SessionDomain`; `SessionService`
extends `EventStore`, so the service's runs execute the store's own actions; `EventStore`
implements `DurableLog` under the mapping at its end. `TrafficHistory` and `TrafficService`
extend `TrafficProjection` and `SimulationPort`, which extend `TrafficDomain`.
`HealthRegistry` and `TrafficService` use what `DurableLog` promises (a commit is one atomic
decision, whose outcome may stay unknown), which `ImplementsLog` justifies. `StatusPage`
composes page, middleware, registry and log; of the registry it keeps the two global
observations, which no other component changes. `ModelAcquisition` implements `ModelZoo`.

Definitions commented "Mutant" are plausible bugs that no specification uses: each is
substituted for the definition it deviates from to show that a property notices.

**Abstractions.** A stored event carries an auxiliary `key`, the idempotency key of the
command that wrote it; no guard reads it. A builder closure is data: the error it raises, or
the sequence it insists on, or the batch it returns. Event identities are model values; a
fresh `uuid4` is any unused one (`FreshIds`). Reading a session is one atomic step because
`get_session` is one read transaction. Wall clocks are naturals that any step may read anew.
SQLite is external: `BEGIN IMMEDIATE` waits for the lock or times out (`Busy`), a rollback
restores `db`, a raised COMMIT may or may not have happened. A model snapshot is a set of
files of one size, each whole, damaged or absent. Time in `StatusPage` and
`OfflineAcceptance` is discrete and kept as ages, which stop growing once they exceed every
bound that they are compared with.

## 3. Runs

| Run | Distinct states | Instance and bounds | What it shows |
| --- | --- | --- | --- |
| `history` | 32,232 | one scenario, 3 clock readings, 3 simulation times, 6 events | the fold over the stored history gives the live session; coded guards cover every refusal; started, simulation time, clock and terminal states evolve legally |
| `store` | 204,084 | 2 connections, 2 sessions, 3 keys, 4 event ids, 4 events a session; commands chosen to collide (section 5) | recoverable, projected, once per key, dispatched in order, acknowledged is durable, the write lock comes back, and refinement of `DurableLog`, with failures, uncertain commits and crashes at every step |
| `prepare` | 643,092 | 2 request threads, 1 session, 4 keys, 4 event ids; a creation, its preparation and a racing `READY`; catalogue edits, broken files included, at any time | retries are honoured, sessions are pinned, successes are the caller's own, refusals are about the committed session |
| `stale_refusal` | | 2 request threads, with a catalogue | **violation**: finding 1 |
| `health` | 2,343,276 | 2 threads, 1 component, 2 keys, 2 reports, clock 0..1, 2 session versions | durable health is a chain; visible health is durable; a key stays bound to its input |
| `health_retry` | | as `health`, clock 0..2 | **violation**: finding 2 |
| `traffic` | 15,157 | 2 aircraft with 3 possible starts each, 2 runways, 1 holding point, 4 versions per aircraft | the policy's validators never contradict it; every fact replays; every provider answer that translates has the effect the command asked for; nobody clears another's runway |
| `traffic_service` | 842,621 | 2 threads, 1 aircraft, 5 calls on 3 keys, 5 events, clock 0..1 | effects and refusals are about the committed state; retries are honoured when the provider fails; the hook follows durability; only a clock set back is refused without a code |
| `status_page` | 455,991 | 1 page request at a time, 1 other client, pause 1, deadline 2, latency 1, health timeout 4, clock 1 behind, all records kept | what the page shows is at most two deadlines and one pause old; a failed log record reaches the next health; polling never stops; a rested environment is shown healthy for good |
| `status_level` | | as `status_page`, INFO records dropped | **violation**: finding 3 |
| `acquire` | 195,542 | 2 calls, 2 revisions sharing 2 files, one of them known only after download, a disk that holds one download and a bit, 2 attempts, 1 push, 1 damage | refinement of `ModelZoo` with its progress; an admitted call has the space it needs; the verifier tells the truth |
| `acceptance` | 146,804 | 2 stages, gap 2, limit 3, delay 1 | PASSED was offline; the bootstrap runs once and the verdict says what happened; every invocation ends |

## 4. Findings

1. *A command is judged against a session loaded before the lock.* `transition()` loads the
   session, then takes the lock inside `commit()`; the store compares only the client's
   expected version with the log, and the builder judges the loaded copy. A client that
   expects version 2 while the service loads version 1 is refused, or fails with an uncoded
   error, although version 2 is committed when it is decided.
   `docs/session-api.md:73` says each command checks and builds under the write transaction.
   `HonestRefusal` (run `prepare`) is the half that does hold: when the loaded version is the
   expected one, refusals are honest.
2. *A same-key health retry moves the registry back* to the durable observation, older than a
   heartbeat it already showed. `health.py:133` promises observations never move backwards.
3. *A record below the level clears a log file error.* `docs/health.md:83` says that file errors
   show on the next health response. At level WARNING or ERROR only failed requests are recorded; the
   logger drops the record of any other request without a look at the file, `emit()` returns, and
   the middleware reports logging HEALTHY (`factory.py:174`). A request that was under way when an
   ERROR record failed thus clears the failure before any health response has shown it; at these
   levels the page's own poll clears it as well, once its response was made.

At the levels that keep every record of the middleware, file errors do show (`LogFailureShows`), but
for two cases that the property names. A record that failed is not reported yet: the middleware
awaits nothing in between, but `GET /health` is a synchronous route on another thread. And when the
wall clock is behind the observation that the failure has to replace, the registry refuses the
report (`logged = "lost"`). The same refusal of the
middleware's own report of "api" lies outside its `try` (`factory.py:146`), so that requests
fail until the clock has caught up; the model contains both, and `Recovers` shows that they
end with the clock. `expire()` decides on a snapshot and reports after it released the lock;
the step is modelled, nothing in the program calls `expire()`, and no document says what a
report in between is owed, so no run claims anything of it.

## 5. Bounds and why they are enough

`store`: the commands are a creation, its retry under a fresh event id, the same key in
another session with the event id the retry would use, two different commands under one key,
a command bound to a sequence, a builder that raises, and a two-event append. Its second id is the one
that another session's creation may have taken, so that it is refused after its first event was
inserted; the run reaches this. Each error path of `commit`, `append` and `_append` is thereby taken, and two
connections are enough for each conflict because the write lock admits one transaction at a
time: a third connection only repeats what a second can do between two of the first's steps.
Four events hold a creation, a transition and a two-event append. `history`: with six events a session reaches every state with a
pause/resume or a fact between; three clock readings and three
simulation times give "earlier", "equal" and "later". Service runs: two threads suffice for a
load, an overtaking commit and a decision; five events reach RUNNING with one spare. Health:
timeout 1 and clock 0..1 give fresh, stale and (after the clock is set back) future observations.
Traffic: four versions take an aircraft from a holding point onto a runway and off it, and from
final to a landing roll, vacating or a stop on the runway, with a second aircraft in any of its
states and stale, missing and unknown arguments on each command. A provider's answer is a rejection;
or effects that are the fake's, miss one, or have one field forged (aircraft, route, phase, hold, runway or
a version), with the resulting version right or wrong; or an effect on the other aircraft. What another runway or hold would add is another
identifier. Service calls: a creation of the traffic under two keys, a provider command under
one of them, and two transitions that exclude and follow it: every pair races, is retried or
reuses a key; five events hold the start of the session, one effect and a pause or a health fact.
`prepare`: a creation, a preparation under three keys and one racing transition are the
smallest set in which a preparation is overtaken between any two of its nested commands.

`status_page`: the bound of `ShownIsFresh`, two deadlines and a pause, is tight: one step less is
violated (an attempt that takes a whole deadline, a pause, an attempt that is aborted at its
deadline). So is the assumption `Timeout > Poll + 2 * Latency`: with a timeout of 3, `Recovers`
fails, because an observation of logging expires before the next poll renews it and an idle page
stays degraded. The defaults (30 > 5 + 3 + 3 seconds) satisfy it; the settings accept values that do
not. Without either exception `LogFailureShows` is violated as well. Section 7 proves it also for the level
that drops all of the middleware's records, where no record can fail. `acquire`: the disk has what
the storage check asks of the larger revision (82 units: cache, staging and the margin) and room
for one more file, so two calls contend for space; the smaller revision's size is unknown, so that
it needs a confirmation; two attempts give one retry. `acceptance`: gap 2 and delay 1 are the
least with which a sample can be on time, late, or written after a row with a later timestamp;
two stages separate the bootstrap from a stage after it; the limit lets the script run out of time
in either stage. The bound `2 * Gap` of `PassedWasOffline` is tight: with one second less TLC finds a violation.

Symmetry is used over threads and aircraft in safety runs only, where no definition names one.

`CHECK_DEADLOCK FALSE` appears in `history`, which stops at `MaxEvents`, in `traffic`, which stops
at `MaxVersion` and when every aircraft is stopped, and in `acquire`, which stops when every call
has ended.

## 6. Fairness

`EventStore`: weak fairness of `TransactionStep(w)`: a thread inside a transaction keeps
executing Python code until it leaves it; nothing makes a client call, an error
happen or the process crash. `SessionService` adds weak fairness of `ServiceStep(w)`, the
statements of a running request. `HealthRegistry`: weak fairness of `JobStep(t)`, a thread
inside `report()` or `expire()`; no run asks for its liveness. Waiting for a lock is not assumed to
end well: a lock time-out is a step of its own. `LockReturned` follows: whatever
fails between `BEGIN` and the end, `_transaction` gives the write lock back. No run asks that
every service request is answered. The traffic modules state no liveness and assume no fairness.

`StatusPage`: time passes, and the browser runs the timers that are due and the handlers of answers
that have arrived; timers are prompt, as `Tick` waits for the page. The API owes progress
only once the environment is `steady` (nothing fails, restarts or sets the clock any more). Then its
event loop takes what is ready in turn: a request of the page is stopped again and again while
another one emits and reports, and is still served (strong fairness);
`PollsForever` therefore holds against an API that never answers, `Recovers` after the environment
came to rest. `ModelAcquisition`: weak fairness of `CallStep(c)`, a process that computes,
transfers (every transfer ends by a time-out) and sleeps between attempts; an operator who is asked need not
answer. `OfflineAcceptance`: weak fairness of the script's own steps (`ScriptStep`, its
poll once it must stop a stage, its own samples), of a write that has begun (`Append`) and of time.
Nothing is assumed of the sampling job, of the stages' processes or of the network; a stage's
process tree is assumed to close its output when the process ends or is killed
(`run_fp001d_offline.ps1:85` waits for it without a bound).

## 7. Proofs

`tlapm` checks every theorem for all values of the constants that satisfy the modules'
named assumptions. They say that times and bounds are naturals, that `None` is not a value of
another type (a session, a row, a request, a replica), that commands, tasks and fingerprints are
well-typed, that every holding point has a runway, that an unknown identifier names nothing, that a
scenario spawns each of its aircraft once, in a finite order, and maps to coherent traffic, that a health observation outlives a poll and
two latencies, and that the files of a revision are finitely many. TLC evaluates each of them
in the runs.

*SessionHistory.* The invariant is that every recorded session is one that the policy can produce
(versions, times and outcomes satisfy `__post_init__`, simulation time is 0 before the start) and
that the fold of `project_session` over the history is the live session. The fold is a
recursive function; that it exists and is unique (`FoldExists`, `FoldsAgree`) and grows by one event
at a time (`ProjectAppend`) is proved by induction over the length, from the least number at which it
would fail. From the invariant follow `HistoryTypeCorrect`; `EveryRejectionCoded`, because a
request that passes the four guards yields a session and an event which constructor, contract
and projection accept; `ReplayCorrect`, for histories of any length; and the action property
`TimelineCorrect`. `PrefixProjects` says what every prefix of a history projects to; the service's
proof rests on it.

*EventStore.* The inductive invariant (`IInv`) relates the committed tables and the open
transaction's tables at each `pc`: outside a transaction they are equal (`LockedOrClean`, which is glue of the proof); while writing,
`work` extends `db` by a prefix of the stamped batch under the command's key with pending
intents; at `ready` it is a complete effect, a recovery, a mark, or nothing. The per-key property is
not inductive by itself: while a batch is written its key has events and no retry record yet,
so the invariant states it for `db` and states for `work` what is missing. From `Invariance` follow
`TypeCorrect`, `EffectOncePerKey`, `IdentitiesUnique`, `DispatchedInOrder` and the
action property `NothingRewritten`. `IdentitiesUnique`, `NothingRewritten` and the type invariants
of store and session hold for all instances, so no run repeats them.

*EventStore, recovery.* On top of it (`RInv`): the committed image is `Sound` (every history
projects, every retry record follows a prefix with the version its request expected, every derived
row is current), and an open transaction has at each `pc` a prefix of the decided batch, sound once
its projection row is written. The value of `project_session` is opaque in this argument: the store
compares folds of the same history, and a commit that would leave a history without projection fails
before its row is written. From it `NeverRefused` (`recover()` accepts what crashes leave) and
`ProjectionCorrect`. `AcknowledgementDurable` needs one more invariant (`Answers`): an answer that
waits for its COMMIT is held by the open image, every other one by the committed image; each image a
step leads to extends the one before.

*EventStore, refinement.* A transaction that is ready to commit either changes nothing the log
sees, or grows one session by one command, or marks one intent (`FInv`). With it every step
maps to one step of `DurableLog` or to a stutter: `StoreImplementsLog` is the whole refinement.

*SessionService.* The service takes the store's own steps, so `ServiceInv` contains the store's
three invariants; the lemmas that preserve them are the store's, and `StoreKeepsItsPromises` states
its safety properties again for the service with its crashes. Beside them stand two parts. `Shared`
speaks of the images, committed and open: every session's first event pins a catalogued content, and a retry
record names exactly one event, which fits every task that it would be served to. The latter is not
about any one request, because the retry may come from a request that does not exist yet. `Own` speaks
of each request as a value: a loaded session is the projection of a prefix of the committed history
(`SeenOK`, histories only grow); a plan is what its builder makes of what was loaded (`PlanOK`); a
request whose key had taken effect stays servable at every step (`SettledOK`); a result is of the
request's own key and input (`ReplyFits`); an event on its way into the tables fits the task
(`FlightFits`). Here the code's two version comparisons come together: the store compares the
expected version with the history, the projection the event's previous version with the session, so
an event that was built from an overtaken session is recorded only if it is still the asked-for
transition. From it follow `PinnedFromCreation`, `RetryNeverRefused` and `AnswersAreOwn`.
`RefusalsHonest` needs one fact more: of one history, prefixes that project to sessions of the same
version project to the same session but for facts, which keep it (`RecalledSound`), so a caller whose expected version
is the loaded one is judged against the committed session.

*HealthRegistry.* `ChainCoherent` is not inductive: a builder compares with a health that it read
from the history before `commit()`. The invariant adds that the lock is held from that read to the
installation and that nobody else wrote to the history since (`JobOK`), and that every retry
record comes with a durable event of its component (`Kept`). The position of the latest health in a
history, a `Max` over a set, is characterised once (`LatestIsHealth`) and the effect of an append on it
once (`Written`). From it follow `TypeCorrect`, `HealthIsChained` and the action property
`KeysBindTheirInput`; `SeenOnlyWhenDurable` holds where every report belongs to a session, which the
theorem states as its hypothesis (a report without one is not durable by design).

*Traffic policy and replay.* The inductive invariant of `TrafficHistory` has two parts: the live
traffic is `Coherent` (typed, references resolve, a runway's occupants are exactly the aircraft that
occupy it, each aircraft satisfies its own validator), and reading the unread facts one after the
other `LeadsTo` the live traffic, each accepted on the way. `MoveSound` and `RouteSound` show that an
accepted command preserves the first, `MoveReplays` and `RouteReplays` that its facts establish the
second. `PolicyNeverMismatched` needs membership on both sides before the move: only
then is a change of `occupied` also a change of the runway's occupants. From the invariant follow
`HistoryTypeCorrect`, `PolicyNeverMismatched`, `ReplayCorrect`, the action property
`OnlyLeavesByItself` and `EffectsAreTheCommands`. The last is about every member of `ApplyResults`, any
route and state effect on any aircraft with any versions: `SameMove` shows that of those that translate a provider may
only choose whether to name a runway version that no guard asks for, which leads to the same traffic.

*Traffic service.* Its invariant says that the durable history replays to nothing, or to traffic that
is `Coherent` (`Arrived`), that retry records name ranges of traffic facts, and, for each call, what
it computed from the history it read: as long as that history has its old length it is the same
history, so what the call knows is current. A guard on a length alone carries this, because histories only grow and a
call keeps a length that no shrunken history can repeat. The replay of a whole batch of spawn facts,
of whatever length, is an induction over the scenario's aircraft (`SpawnReplays`). From it follow
`TypeCorrect`, `RetriesAreHonoured`, `HookIsTold` and the action property `DecisionsAreCurrent`. For
`ClockAloneIsUncoded` the two traffic modules meet: a builder that raises nothing returns the
facts of the committed traffic, these lead it to coherent traffic again (`FactsArrive`, from the
`MoveLeads` and `TranslationLeads` of the policy), and session and simulation time are the ones it
loaded, so the projection that `commit()` runs can refuse them for the clock alone. The invariant needs
two assumptions on the constants: a call names references that exist or do not (`CallsAssumption`),
and the scenario is one that `initialise()` maps, with one entity per aircraft
(`ScenarioAssumption`; `initial_traffic` raises before anything is built for any other).

*StatusPage.* `ShownIsFresh` is not inductive: `Paced` ties the age of what is shown to the running
timer or to the attempt under way, `InTime` the age of an answer in transit to the time its attempt
has waited, `FailureKept` the failed record to the logging component or to a request that has still to report it. From them `NeverLate` and
`FailureVisible`.

*OfflineAcceptance.* The job takes a reading after its previous row's timestamp, so an exposure
reaches back at most one gap before the last row (`Dense`); once it has lasted
for more than two gaps no row that is still on its way can close the gap that the verification
looks for (`Exposure`). `Progress` relates the script's place, the files and the verdict. From them
`OfflineProved` and `HonestVerdict`, for every number of stages, gap, limit and delay.

*ModelAcquisition.* `Calls` says what each step of a call has established (staging whole, the stored
directory's owner, the space still needed fits while no other call used any), `Auditing` what the
verifier has compared so far. From them `EnoughStorage` and `AuditTrue`, and, step by
step, `ImplementsZooSafety`: the safety part of `ImplementsZoo`.

**Only model-checked.** Liveness (`LockReturned`, `PollsForever`, `Recovers`, `RunEnds`, the
progress half of `ImplementsZoo`) needs fairness and ENABLED. Every safety property that a passing run
checks has a theorem. The three properties of section 4 that the code violates have
counterexamples in place of proofs.

## 8. Not modelled

Corruption of stored bytes by outsiders (checks of `recover()` beyond what the store can write
itself); JSON canonicalisation, hashing and schema constants; HTTP parsing, correlation ids and error bodies;
health metrics and the readiness roll-up beyond the two global observations `StatusPage` keeps;
the contents and the rotation of the log, and an application without a log file; path validation and the schemas of manifests and
evidence; the preparation of the operator's account and the inference probe inside a stage; the
reference validation inside one scenario file; configuration, launch, lint and benchmark scripts,
which are sequential and keep no state another step meets. Reasons are in `PROJECT.json`.

Where a model is narrower than its code: `HealthRegistry` has one registry, so another process's
health report between the read of the history and the commit is not a step, and its `Restart` leaves
a component STARTING, because the HEALTHY report that `create_app` makes of its own is a global one
(`StatusPage` has it). `HonestRefusal` is checked at one clock reading, and accepts
SCENARIO_INVALID as the refusal of any `READY` command. `TrafficService` leaves out
`initialise()`'s comparison of the session's pinned scenario with the aerodrome's
(`traffic.py:137-142`). A `Kill` in `OfflineAcceptance` ends the script's children too, while an
installer that the script had started may live on in reality; and the script takes its end time and
writes the stop file in one step, so a row stamped between the two counts in the code and not
in the model, which is the stricter. Its evidence collector and verifier are assumed to end.

## 9. Plan

1. Done: session domain and history, store and its abstract log with the refinement proved, session
   service with the captured catalogue, health registry, traffic policy and services, status
   page with middleware and log, model acquisition and its abstract zoo, offline acceptance,
   eight proof modules.
2. Next proofs: that `HealthRegistry`'s and `TrafficService`'s atomic unit of work is `DurableLog`'s, as a refinement of its own.
3. Next models: the readiness roll-up and the metrics of the registry, if a component
   starts to call `expire()`.
