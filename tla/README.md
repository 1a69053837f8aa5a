# opencode-master: a formal model

opencode-master is a coordinator for OpenCode coding sessions. A *master*
process keeps users' sessions in an SQLite database, places each session on a
*worker* (or on one OpenCode instance it talks to directly, the *gateway*),
sends prompts to it, records what comes back as durable events, streams those
to clients, and moves sessions away from workers that stop sending heartbeats.

This directory holds TLA+ modules that model it, TLC configurations that check
them on small instances, and TLAPS proofs of the results that do not depend on
the size of an instance. Paths below are relative to the repository.

## 1. Inventory

| component | state it keeps | operations | talks to |
|---|---|---|---|
| worker registry (`src/services/worker-registry.ts`) | `workers` rows: status, last heartbeat | register, heartbeat, sweep | scheduler, session directory |
| session directory (`src/services/session-service.ts`) | `sessions` rows: status, owner, lease epoch | create, workerForPrompt, rehomeWorkerSessions, end | registry (healthy workers), placement |
| placement (`src/placement`) | none | ring, candidates, least loaded | session directory |
| scheduler (`src/services/scheduler.ts`) | a timer | runOnce: sweep, then rehome | registry, directory |
| turns (`src/services/turn-service.ts`) | `turns` rows | createOrGet, lease, complete, fail, isCurrentLease | handlers |
| event journal (`src/services/event-journal.ts`) | `session_events` rows, live subscribers | append, replay, subscribe, history | handlers, clients |
| HTTP handlers (`src/http/server.ts`) | none of their own | prompt, schedule trigger, ingest, control, end, stream | everything above, worker proxy, gateway |
| worker process (`src/worker/index.ts`, `session-actor.ts`, `stream-hub.ts`, `event-reporter.ts`, `proxy-server.ts`) | job queues per session, stream buffers, all in memory | prompt, control, publish, report with retries | master, executor |
| gateway (`src/services/opencode-gateway.ts`) | set of aborted sessions | prompt, resume, abort | OpenCode |
| executor (`src/worker/opencode-executor.ts`, `session-snapshot.ts`) | OpenCode child process, `hydratedSessions`, `safePoints` | execute, resume, restart, snapshot | OpenCode |
| web console (`src/http/web-console.ts`, the script from line 1263) | selected session, what is on the screen, stream, retry timers, `lastEventID` | select, create, delete, prompt, answer, login, logout | master |
| client (`src/client.ts`) | none | prompt, stream | master |
| keep-alive programs (`src/worker/index.ts`, `scripts/opencode-heartbeat.ts`, `scripts/dev-worker.ts`) | worker token, timer | log in, register, heartbeat | registry |
| workspace and config sync (`src/workspace`, `src/worker/config-sync.ts`) | files | put, get, commit, hydrate | nothing calls them |

### How the parts interact

A client calls the master over HTTP. The master's handlers call the services,
the services read and write one SQLite file, and two things leave the process:
the *proxy* call to the worker that owns a session (`server.ts:170-176`), or,
when a gateway is configured, requests to one OpenCode instance. A worker
answers the proxy call as soon as the job is queued; what the job produces comes
back later as separate `POST .../events` reports, which carry the worker, the
turn and the lease epoch. Workers register once and then send heartbeats; a
timer in the master runs `sweep` and `rehomeWorkerSessions`. Clients read the
events of a session over SSE: a replay from SQLite, then live events from the
subscribers of the journal.

`bun:sqlite` answers synchronously. A handler therefore runs from one body read,
timer or `fetch` to the next without any other handler in between, and this is
the granularity of all modules: an action is one such segment, and the
interleavings are those of segments. What a master that dies *inside* a segment
leaves in the database is a separate action (`SweepCutShort`, `PromptCutShort`,
`IngestCutShort`, `FinishCutShort`). `db/client.ts` says a Postgres backend can
be swapped in; with it every query would be a segment of its own, which the
plan (section 2) takes up.

### What is hard, and what correct means, part by part

- **Leases** (registry, directory, scheduler). Workers stall, die, come back and
  heal their row while their sessions move. Correct: an epoch of a session
  belongs to one worker for ever, a new owner always has a new epoch, a live
  session never points to an unhealthy worker, and no session stays on a dead
  worker.
- **Placement.** Two loops over a ring whose ends wrap. Correct: it ends, finds
  the nearest distinct workers, does not move users of workers that stay, and
  never returns the excluded worker.
- **Turns.** A prompt may be repeated, cross a takeover, lose its worker or its
  answer. Correct: one active turn per session, one turn per client key, a
  settled turn never changes, a turn is born under the lease it was placed with,
  a completed turn has its end in the journal, and a turn does not stay active
  for ever.
- **Reports and journal.** Reports are lost, late and repeated, and come from
  workers that lost the session. Correct: the journal is fenced (nothing of an
  earlier epoch behind a later one), in order per job whatever attempts are lost
  and whatever report is given up, and contains what was answered 202.
- **Worker jobs.** Jobs of a session queue up; one that rejects publishes its
  error outside the queue. Correct: one job at a time, and each admitted turn
  ends or waits for the user.
- **Streams.** Clients connect while events are appended, and connections break.
  Correct: no gap, no repetition, and a stream that broke goes on where it was.
- **Gateway.** A run polls OpenCode while the user aborts, answers this or an
  earlier question, or ends.
  Correct: the reply stored for a turn was written for it, the end is announced
  after the turn is settled, and no run hangs.
- **Executor.** A session moves between workers, and the OpenCode of a worker
  exits under a job. Correct: wherever a turn runs, OpenCode knows the earlier
  ones, its reply goes to that turn, a snapshot is taken while OpenCode rests,
  and a job ends.
- **Web console.** One thread, but every `await` lets clicks, stream events,
  timers and other answers in. Correct: what the stream shows is of the session
  the user looks at, an answer goes to the session that asked, nothing between
  the history and the stream is missing, and a broken stream comes back.
- **Keep-alive.** Tokens expire, heartbeats are late, lost or overtaken by a
  sweep, and the master restarts.
  Correct: a worker that heartbeats in time is never taken for stale, and one that was
  marked wrongly heals.

`PROJECT.json` lists every hazard at its line under `hazards`, with the
properties that watch it.

## 2. Plan

| step | module | state | contents |
|---|---|---|---|
| 1 | `FencedLog` | done | abstract specification: one holder, a token, a log |
| 2 | `SessionLease` | done | registry, directory, scheduler |
| 3 | `TurnDispatch`, on top of 2 | done | prompt, trigger, proxy call, ingest; implements 1 |
| 4 | `EventReports` | done | one session's jobs, hub, reporter, ingestion |
| 5 | `EventStream` | done | replay, live events, reconnecting clients |
| 6 | `GatewayRun` | done | the gateway mode |
| 7 | `Placement`, `PlacementRule` | done | ring, search, walk, pick |
| 8 | `Console` | done | one tab of the web console |
| 9 | `Executor` | done | the executor's jobs, OpenCode's restarts, export of snapshots |
| 10 | `KeepAlive` | done | registration, tokens, heartbeats, the sweep as two steps |
| 11 | `History` | open | the merge of prompts and messages in `history` |
| 12 | `AwaitMaster` | open | the master with a database that answers asynchronously |

Workspace sync and config sync were planned and dropped: nothing in `src/` calls
them, so when and by whom they run would be invented.

Proofs: every invariant and every step property that a passing run checks is
a theorem, and so is the refinement of `FencedLog`. What liveness there is stays
with TLC.

## 3. Modules

**`PlacementRule`** has one definition, `Place`: the set of workers that
`SessionService.place` may return. `SessionLease` uses it as it stands, and
`Placement` shows that the computation keeps to it.

**`SessionLease`** is the tables `workers` and `sessions` and the scheduler.
`wstatus`, `status`, `owner`, `epoch`, `user` are columns; `fresh` says whether
`last_heartbeat_at` is within the timeout, so that a clock is not needed; `alive`
is the worker process; `grants` is a history of every (session, epoch, worker)
ever written. `Start` is registration, `Heartbeat` includes the self-healing of
`worker-registry.ts:110`, `Stop`, `FallSilent` and `CutOff` are a death, the
passing of the timeout, and a live worker the master does not hear.
`CreateSession`, `WorkerForPrompt` and `End` are the methods of the directory.
`Sweep` is one `runOnce`: all marks, then all rehomes, in one segment.
`SweepCutShort` is a `runOnce` the master does not survive.

**`TurnDispatch`** extends it with the table `turns`, the journal, and the
network: `calls` are the proxy fetches the master waits for, `sent` the turns
whose prompt reached a process. `Prompt` is the whole route before its `await`:
`workerForPrompt`, the second read of the session (hence `epoch'`),
`createOrGet`, `lease`, and the opened fetch; `PromptWithoutTurn` its two other
ends (a known key, 409), which still may have moved the session. `Trigger` is
the schedule route. `CallFails` and `CallReturns` end the fetch. `Ingest` is
`ingestWorkerEvent` with its lease check, `append` and the settling of the turn.
The worker is open: once a prompt was sent, any event of the turn may arrive at
any time. `reborn` marks the workers whose process was started again, because
their event ids start from 1 again (`IdTaken`).

**`FencedLog`** is what the two promise together (repository README, lines 42
and 45). The refinement maps `holder` to `owner`, `token` to `epoch` and the log
to the (worker, epoch) of each journal row.

**`EventReports`** is one session on one worker that keeps its lease: `jobs` and
`tail` are `SessionActor`, `nextID` the hub's counter, `open` the reports the
worker awaits, `late` requests it no longer waits for. A job publishes by itself
(`Publish`), by its stream reader (`Delta`), or by the handler of its rejection
(`Throws`, `GiveUp`); `Retry` and `GiveUp` are `event-reporter.ts`. What a job
publishes is its `Script`: the result, the announcement of a `Snapshot` or the
error of its export, and the end. `GiveUp` ends the job, but for the announcement
of a snapshot, after which the job publishes the error and goes on. Until
`Register` a report does nothing (`reportEvent` of `worker/index.ts:52`): the
event is numbered (`sent` FALSE) and dropped. An attempt without an answer may have
been ingested, or half of it when the master died between the row and the status
(`HalfIngested`), may arrive later, or never. A worker that restarts numbers its
events from 1 again, and has to register again.

**`EventStream`** is one session's rows (a row is its `seq`) and its clients.
`Connect` is the replay and the subscription in one segment, `AppendEvent` calls
every subscriber, `sent` is the set that drops what a connection already has,
`Drop` breaks it. `Resume` says how a client comes back: with `?after=seq`, which
the API offers and no program in the repository does, with the event id as the
console does, or not at all (`client.ts`).

**`GatewayRun`** is the gateway mode for one session. A run is a record in `runs`
that goes through `start`, `send` and the three reads of each poll; every request
is its own step, and OpenCode (`busy`, `queue`, `replies`) moves in between. `Reply`
takes an answer to any question that was ever shown, for the turn that is active
now; OpenCode refuses one that is not to its last question (`PostAnswer`). The
request of a prompt or of an answer may be received and its answer lost
(`AnswerLost`), after which the run throws and OpenCode works on. `Known` is what a
run finds in the context: finished replies and the message OpenCode is at (`saw`).
`Heard` is the event stream of OpenCode, which reaches every run that is
`Subscribed` and is not heeded for a message the run knew. `Write` and
`NextMessage` are the messages of a turn before its last. `Finish` and `Throw` are
the tails of `runGatewayPrompt` and `runGatewayResume`. `left` and `twice` are
histories.

**`Executor`** is one session on workers that run OpenCode themselves. A job is
the sequence of its requests to OpenCode (`Begin`, `PostPrompt` or `PostReply`,
the polls), then `PublishSnapshot` and `EndJob`. `hydrated` and `safePoint` are
the executor's maps, `ctx` is OpenCode's own copy of the session, which survives
its exit and a move of the session, `known` the length of the history the master
sent. Of a message it keeps whose turn it belongs to, whether it ends the turn,
and which earlier replies a prompt carried. The model has one job at a time: two
ways the code has to queue a second one are left out. A turn the master fails
because its call to the worker failed (`server.ts:192-193`) leaves its job running,
and the next prompt queues behind it; and `control` takes more than one answer to a
question (`server.ts:294-312`). `SessionActor` runs such jobs one after the other.

**`Console`** is one tab. A *task* is an answer the script waits for, `stream` and
`wire` the connection and what is on it, `timers` the retries of two seconds, and
`shown`, `cards`, `draft` and `past` what is on the screen: which row of which
session, and whether the history or the stream put it there. The master is open:
it appends any row at any time.

**`KeepAlive`** is a process that becomes a worker and stays one, under any of the
three programs that do so (`program`): they differ in what they do when the
bootstrap fails and in when they heartbeat first. Time passes in ticks of one
heartbeat interval. Here the handler of a heartbeat has its two awaits
(`Arrives`, `Heartbeat`) and the sweep its read and its marks, which
`SessionLease` takes as one segment each: this is the registry over a database
that may answer asynchronously.

**`Placement`** is `place()` with its loops as steps: `BuildRing`, `Probe`
(binary search), `Walk`, `Compare`. `hashString` is any function: a ring is any
sequence sorted by point with `VNodes` nodes per worker, and a user hashes to
any point.

The `MC*` modules give TLC its constants. `*Proofs` modules hold the theorems.
A definition marked `mutant` is a variant of the definition after it with a
plausible bug; each property has one that breaks it (`mutants` in
`PROJECT.json`).

## 4. Runs

| run | instance | states | what it shows |
|---|---|---|---|
| `session_lease` | 2 workers, 2 sessions, 2 users, quota 1, 3 upsets, 1 master death | 274,602 | leases are fenced; without a master death a dead worker loses every session |
| `turn_dispatch` | 2 workers, 1 session, 2 turns, 2 keys, 2 upsets, 1 master death | 680,214 | one active turn, idempotence, fencing, settled turns, no completion without its event, refinement of `FencedLog` |
| `turn_lost` | 2 workers, 1 session, 1 turn | finding | the turn of a failed worker is never settled |
| `event_reports` | 2 turns, 2 jobs, 2 attempts, 1 lost, 1 restart | 336,817 | jobs one at a time, events in order, nothing answered is missing but what a restart renumbered |
| `reports_lost` | 1 turn, 2 jobs, 2 attempts, 2 lost, snapshots, 1 delta | 224,555 | events in order when reports are given up; the turn ends when fewer are lost |
| `event_stream` | 3 clients (by `seq`, by event id, never back), 3 events, 3 drops | 8,045 | nobody reads twice or out of order; who resumes by `seq` has no gap |
| `resume_by_id` | 1 console, 3 events, 1 drop | finding | the console resumes with a gap |
| `gateway_run` | 2 turns, 2 runs of a process, 1 upset | 14,929 | replies and ends, no hanging run |
| `placement` | 3 workers, 2 nodes each, 2 points, limits 0 to 3 | 444,858 | the ring, the search, the walk and the pick |
| `console` | 2 sessions (1 at the start), 2 rows, 2 clicks, 1 fault | 590,613 | the screen is of the selected session, gaps only between history and stream, streams return |
| `executor` | 2 workers, 2 turns, 2 moves, 1 exit, 1 fault | 397,015 | the past is known, replies and snapshots are right, jobs end |
| `keep_alive` | 1 process, timeout 3, delay 2, 4 faults | 34,439 | the sweep spares the punctual, wrong marks heal |

### Bounds

Every bound is a constant that a guard names. *Upsets* are what the environment
does at will: deaths and silences of workers, end calls. Two workers and two
upsets are what a session needs to move away and back, which is the case a fence
has to survive; the second session of `session_lease` is there because one sweep
moves several. The third upset lets a live worker be cut off after a move. Two
turns and two keys give every crossing of an old turn with a new one; turns of
different sessions share no state but the lease tables, which `session_lease`
checks with two sessions. `PlainKind` is empty: events that settle nothing add
rows and no behaviour. `turn_dispatch` declares workers, turns and keys
symmetric, and checks besides invariants only properties of steps, for which the
symmetry is sound; the runs with liveness declare none.

In `event_reports` two attempts instead of three keep a first and a last one; a
restart and a lost attempt are what repeats a source id under a late request.
`reports_lost` loses all attempts of one report, or the last of two, which needs no
restart and one turn with a prompt and an answer; `TurnEnds` speaks of the
behaviours among them that lose one.
In `event_stream` three events and three drops let each of two clients break
before, between and after events. In `gateway_run` two runs of a
process are a prompt and an answer to its question, or two answers of one question;
the upset may be a restart, after which a prompt of the second turn and an answer
to the first one's question make two more. A third run of one process, which can
outlive its turn (`twice` in `ReplyOfItsTurn`), is left to the theorem, which has
no bounds. In `placement` two hash
values are enough for the search, which only compares points with the user's:
against one user a ring is a row of "before" and "at or after", and every such
row occurs.

In `console` two clicks are what two loads that cross need, or a selection and an
answer, or a logout and a login, while the first load of the tab goes on; with
two rows one falls before a request and one after. In `executor` two moves bring
a session to another worker and back, and the second turn is the one that needs
the past. `keep_alive` has one process, because processes share no rows, only the
life of the master and the sweep, and neither depends on the others' rows; a
timeout of three ticks over a delay of two is the tightest the assumption of
`SweepSparesPunctual` allows, and it takes four faults to be marked, heal, and
be marked again.

Deadlock is not checked where the system stops of itself: all turns are used,
all events appended, the worker placed, the clicks spent, the process dead.

### Fairness

- `session_lease`, `turn_lost`: the scheduler's `setInterval`
  (`scheduler.ts:17`) keeps firing (`WF` of `Sweep`), and time passes for a
  worker that is dead (`WF` of `FallSilent`). `turn_lost` also assumes that
  workers come back, heartbeats arrive, fetches are answered and every sent turn
  gets its `session.idle` reported: the turn is stuck although everybody does
  their part.
- `reports_lost`: jobs go on, and a report that is not lost is answered. How many are
  lost is counted, and `TurnEnds` only speaks of fewer losses than one report makes
  attempts, of a worker that lives and of turns whose events were all sent. Nothing
  is assumed of the registration, which nobody repeats.
- `gateway_run`: the requests of a run are answered or fail, and a run that polls
  for ever passes its deadline of ten minutes (`SF` of `TimeOut`: the step comes
  and goes with each poll). Nothing is assumed of OpenCode, which may work or ask
  for ever.
- `placement`: a function that is running keeps running.
- `console`: a connection is answered or fails, a load and the first refresh end,
  timers fire and what arrived is read. Nothing is assumed of the user.
- `executor`: a job's own code goes on, its deadline included. Nothing is assumed
  of OpenCode, of its restart, or of the user.
- `keep_alive`: time passes, a dead master is started again,
  timers fire, requests end one way or the other, and the sweep goes on. A
  process that died need not come back, and a token need not expire.

## 5. Where code and documents disagree

Two runs exist to show a disagreement; each finding in `PROJECT.json` quotes
both sides.

1. `turn_lost`: reports and controls of an old epoch are refused, nothing else
   settles the turn, and `createOrGet` answers 409 to each later prompt. The
   re-placed session is unusable.
2. `resume_by_id`: the SSE id is the row id `evt_...` (`server.ts:440`), the resume
   query compares it as a number with `seq` (`event-journal.ts:32`), and nothing is
   replayed; `test/web-console.test.ts:18` says the stream is resumed from the last
   event consumed.

Read in the code, without a run of their own. Where a property has to except
one of them, it says so in its comment and excepts exactly that:

*Leases and turns*

- `sweep()` returns only workers it marks *now* (`worker-registry.ts:142`) and
  `runOnce` rehomes only those (`scheduler.ts:11-13`). After a master death between
  mark and rehome no later sweep returns the worker, and its sessions stay there
  until their users prompt; README line 42 says the master places them anew
  (`SessionsLeaveDeadWorker` excepts deaths of the master).
- The heartbeat script catches the failure of its own health check and heartbeats
  with a load of zeros (`opencode-heartbeat.ts:67-69`), so the row of an OpenCode
  that is gone stays ok and is the lightest candidate.
- A prompt to an ended session takes it over again (`session-service.ts:98`), and
  only `create` counts the quota, so a user can hold more live sessions than the
  limit of README line 113.
- Ending a session leaves its active turn active; its reports are then refused.

*Reports and streams*

- Source ids are `worker:n` with `n` from 1 in each process (`worker/index.ts:56`,
  `stream-hub.ts:47`). After a restart new events collide with old ids and are
  answered 202 without being stored, the message or the `session.idle` of a new
  turn included; README line 41 says the master persists the events of workers
  (`AnsweredIsJournaled` excepts them).
- `stream()` of `client.ts` ends with its connection (`client.ts:141-177`); README
  line 84 says it resumes. In `EventStream` such a client is one that never
  connects again.
- Between the start of its proxy (`worker/index.ts:117`) and the answer to its
  registration a worker drops its events without a word (`worker/index.ts:52`); a
  turn whose end is among them stays active. `JobEventsInOrder` and `TurnEnds`
  except such events (`sent`).
- A report whose attempts all fail ends the job; when the error's report fails too,
  the failure is only logged and the turn stays active (`TurnEnds` excepts as many
  losses as attempts).
- The error of a job is published outside the job queue, and may come after rows of
  the next job.
- The executor's stream reader may publish deltas it had buffered after the
  turn's `session.idle`; `JobEventsInOrder` speaks of a job's own events only.
- `history` takes the time of message `i` from `messageEvents[i]` after messages
  without text were filtered out of the list it counts in
  (`event-journal.ts:50-58`): after a message that is left out, later ones get
  the time of another one.

*Gateway and executor*

- The abort flag of a session without a run stays set
  (`opencode-gateway.ts:152`) and ends the next prompt's run at its first poll.
- A failed step of OpenCode (`suspendReason`) completes its turn like a reply.
- Gateway runs live in memory. `reconcile()` has no caller, so a turn that runs
  while the master restarts stays active (`TurnEndsOrAsks` excepts restarts).
- A question that is answered twice starts two runs; the second may outlive the
  turn and store the reply of the next one (`twice` in `ReplyOfItsTurn`). So may an
  answer to an earlier turn's question, whose run is started for the turn active now.
- A run or job that gives up, or whose request was received and not answered,
  leaves OpenCode at work, and the late reply is stored for the next turn (`left` and
  `abandoned`).
- A session that returns to a worker is still in its `hydratedSessions`: OpenCode
  is not told the turns that ran elsewhere (`KnowsThePast` excepts them).

*Console*

- Two loads that end in the other order show the history of one session in the
  other and leave the selected one without its stream (`strayed`).
- `lastEventID` is global: the second session that is selected gets no replay, so
  rows between its history and its stream are missing (`MissingOnlyInGap`). The
  first connection of a tab has no cursor and replays what the history showed.
- A stream that the server ends cleanly is not opened again (`StreamReturns`).
- A question that was displayed once is not displayed again after its session was
  left and selected again, and a failed answer leaves its button disabled.
- After the current session was deleted the tab selects the first of its list,
  which may be an ended one; the prompts of the suggestion buttons go to
  whatever session is selected when their timer fires; history that
  arrives after a prompt was sent shows it twice.

*Keep-alive and documents*

- The development worker whose registration is refused goes on without a token,
  and one whose bootstrap throws stays up without heartbeats (`bare`, `idle`).
- No program renews the token of its registration, which lives 8 hours by default
  (`config.ts:68`): from then on each heartbeat is answered 401 and at most logged,
  and the row of a worker that runs is unhealthy (`RowHeals` excepts it).
- README lines 91 to 98 name routes (`/api/v1/slaves/...`) that the router does
  not have.
- `WorkspaceSync.commit` writes refs before it checks the head, `hydrate` reads
  the current refs instead of the manifest's digests, and the head is checked and
  written in separate steps. Nothing in `src/` calls it.

## 6. Proofs

All theorems hold for every value of the constants that satisfies the named
assumptions (`LeaseAssumption`, `TurnAssumption`, `PlacementAssumption`,
`ReportAssumption`, `StreamAssumption`, `GatewayAssumption`,
`ConsoleAssumption`, `ExecutorAssumption`, `KeepAliveAssumption`): the stand-in
values are not workers, users or turns, the bounds are naturals, `Worker` is
finite where placement counts it. The one further premise is `Delay < Timeout` in
`PunctualAreSpared`, where it is stated.

- **`LeaseSafe`, `EpochFences`, `LeaseTyped`** (`TurnDispatchProofs`). Every
  action is shown to be a `Move`: a session keeps its epoch and at most loses its
  owner, or goes to the next epoch, and new grants are those of new epochs.
  `OneWorkerPerEpoch` alone is not inductive; the invariant adds that an owner
  holds a grant of the current epoch (`OwnerHoldsEpoch`), that no grant is ahead
  of the epoch (`NoGrantAhead`), and that an unused row is at epoch 0
  (`UnusedRow`).
- **`FencedLogSafe`** (`TurnDispatchProofs`, on an instance of `FencedLog`). The
  log is fenced because no entry is ahead of the token and an entry under the
  current token was written by the holder, unless the token has none
  (`LogBelowToken`).
- **`TurnsSafe`, `SettledTurnsStay`** and, from the first, **`TurnsTyped`,
  `KeysAdmitOnce`, `CompletedIsJournaled`, `TurnsUnderGrants`**
  (`TurnDispatchProofs`). The lease invariant is carried along; of the turn
  actions there are two shapes, inserting a row and settling one, and one lemma
  each shows that the shape keeps the invariant.
- **`TurnsImplementFencedLog`, `JournalIsFenced`**. The initial state maps to the
  initial state; a step of the directory to `Transfer`, an ingest that appends to
  `Write`, everything else to a stutter. The journal's fencing then follows from
  `FencedLogSafe` by instantiation.
- **`SearchIsRight`, `PicksLightest`, `PlacementKeepsRule`, `PlacementTyped`**
  (`PlacementProofs`). The search's invariant says that all nodes below `lo` are
  before the hash and all above `hi` are not; the pick's, that `best` is the
  lightest of the items compared. `PlacementKeepsRule` is what `SessionLease`
  takes for granted of `Place`.
- **`WalkFindsNearest`, `LeavingDisturbsNoOther`** (`PlacementProofs`). A node is
  `Far` as many steps as the walk needs to come to it. The walk's invariant says
  that the workers seen are exactly those whose first node is nearer than the
  steps made, and that they were collected nearest first; the k-th of a finite
  set by distance (`Rank`) is then the k-th collected. `LeavingDisturbsNoOther`
  compares the ring with the ring `Without` a worker: what stays keeps its order
  from the successor of the hash on (`OrderStays`), although the successor itself
  may have left, so the other workers are as near to each other as before.
- **`StreamSafe`, `StreamReadsOnce`** (`EventStreamProofs`). What a client has
  read says nothing of what it will read next, so the invariant (`StreamInv`)
  speaks of `seen` followed by `wire`: one strictly increasing run of rows, none
  ahead of the table; for a client that does not resume by id it has no gap, and
  while the connection is up it goes to the newest row.
- **`JobsAreSerial`, `AnsweredAreJournaled`, `JobEventsAreInOrder`**
  (`EventReportsProofs`). The order rests on this: a job publishes its next event
  only after the report of the one before was answered, was never made (before the
  registration), or was given up, which ends the job unless it announced a snapshot;
  and an answered event is a row, or a row of an earlier life of the worker has its
  id. So a row's predecessors in its job, but for those, are rows before it,
  whatever arrives late or was half ingested.
- **`EndIsSettled`, `GatewayTyped`** (`GatewayRunProofs`). The journal is
  described relative to the status of the turns and the number of replies: each
  entry is *good* for them. A status only ever leaves "active" and replies are
  only added, so a good entry stays good, and each step has to account only for
  the entries it appends.
- **`RepliesGoToTheirTurns`** (`GatewayRunProofs`). A run takes a reply it did not
  know when it began, so the invariant (`ReplyInv`) has to rule out that OpenCode
  still works for someone else: a run that goes on is its turn's only one and its
  turn the active one, unless the turn had two runs at once; the run that sends the
  prompt is the turn's first; OpenCode works for the active turn or for one that was
  left; and the message a run saw in the context (`saw`) counts as known when it turns
  out to be the reply. An answer to an old question needs no case of its own: its run
  is one more run of the active turn.
- **`ExecutorTyped`, `PastIsKnown`, `RepliesFitTurns`, `SnapshotsAtRest`**
  (`ExecutorProofs`). All rest on one job: the active turn is the last one, at most
  one worker has a job, and it is that turn's. So OpenCode's queue holds the turn
  whose job waits for it, or turns given up (`QueueIsOwned`). A context that is not
  empty began with a prompt that carried the past, and every reply stored since,
  while its worker owned the session, is in it (`HasPast`, `CarriesPast`); a session
  that came back to a worker is set apart by `returned`, as in the property.
- **`ConsoleTyped`, `ScreenFitsSession`, `OnlyGapIsMissing`** (`ConsoleProofs`).
  An answer may arrive after a click, so the invariant speaks of tasks, cards, the
  draft and the stream each with the session it is of. That no row is missing
  splits into two: the history on the screen is whole up to where it was read
  (`PastShown`), and from the start of the stream each message is on the screen or
  on the wire (`StreamShown`); between them lies the gap the property names.
- **`PunctualAreSpared`** (`KeepAliveProofs`). The invariant relates three clocks:
  the age of the row, the timer of the next heartbeat and the age of those on
  their way. Without a missed heartbeat the row is at most one interval older than
  the slowest request, hence not stale when `Delay < Timeout`.

Only model-checked is liveness, because the prover does not handle fairness and
`ENABLED`: `SessionsLeaveDeadWorker`, `TurnEnds`, `TurnEndsOrAsks`,
`PlacementEnds`, `StreamReturns`, `JobEnds` and `RowHeals`; and the two runs
that find a violation. Recursive definitions are
avoided throughout, so that every module can be proved about.

## 7. Not modelled

- *Config sync, workspace store and sync, `reconcile`, `restore`*: nothing in
  `src/` calls them.
- *Router, ids, configuration, schema, event envelope*: lookups and parsing
  without state that another rule reads. The uniqueness and foreign keys that
  matter are part of the actions.
- *Identity*: the life of a worker's token is in `KeepAlive`; signing, hashing,
  and the look-up of users and API keys are not modelled.
- *Routes that only read, renaming, API keys; `client.ts` besides `stream`*:
  single requests without an effect on the rest.
- *`history`'s merge of prompts and messages*: planned; `Console` and `Executor`
  use which rows it returns.
- *Console*: rendering, the node panel, renaming, suggestion buttons.
- *Executor*: the projections of its messages, its load, `simulated-executor.ts`;
  the canned replies of `dev-worker.ts`.
- *Mounted workspace*: one directory per id, created once.
- *Worker private streams* (`stream-hub.ts` replay, `SessionActor` observations):
  nothing in `src/` reads them.
