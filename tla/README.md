# A verification project for kimaki / omomaki

kimaki (the bot in `src/cli`) turns a Discord thread into a coding-agent session:
messages of a thread become turns of an opencode (or omo) session, and the
session's events become messages of the thread.  This directory models the parts
of it whose correctness depends on the order in which things happen, checks the
models with TLC on small instances, and proves what matters most with TLAPS for
every instance.

The models are translated from the TypeScript source.  `PROJECT.json` maps every
definition to the lines it stands for, and lists the runs, the mutants that show
each property can fail, the hazards of the code and the disagreements found.

## 1. The system

Everything runs in one Node process, the bot, except opencode (a child process
with an HTTP API and one event stream), the opencode plugins (inside the
child), the omo children of the RPC backend, the CLI (`kimaki send`, `kimaki task
...`, short-lived processes) and Discord.  The bot, the plugins and the CLI share
one SQLite file; the auth plugins of several opencode processes share two JSON
files.  Inside the bot there are no threads: what interleaves are asynchronous
functions, at every `await`, and each SQL statement is atomic.

| Component | State | Operations | Talks to | What is hard | What makes it correct |
|---|---|---|---|---|---|
| Sleep (`database.ts` 371-535, `task-runner.ts` 139-262, `ipc-tools-plugin.ts`, `discord-bot.ts` 844-901) | `session_sleeps`, `thread_sessions` | sleep, wake, consume, cancel, fail | plugin writes rows, the task runner posts, the gateway brings the wake back | three processes on one row; a lossy, repeating channel; restarts | woken at most once, never after a cancellation, never forgotten |
| Scheduled tasks (`task-runner.ts`, `database.ts` 53-359) | `scheduled_tasks`, `scheduled_task_runs` | create, edit, cancel, claim, run, finalize, recover | poller, Run now buttons, CLI, ingress | two claimants; stale batch; claims and runs that time out; restarts | an occurrence is posted once, one executor, claims come back, sessions do not overlap |
| Thread queue (`thread-session-runtime.ts`, `thread-runtime-state.ts`, `event-stream-state.ts`) | `queueItems`, action queue, event buffer, pending question | queue, withdraw, drain, dispatch, hand off, abort | Discord handlers, opencode's prompt API and event stream | busy is derived from events that lag; detached dispatches; failures between two steps | one dispatch at a time, only after the run, in order, nothing stranded |
| omo RPC bridge (`omo-bridge/`) | live sessions, clients and their pending requests, the turn's deadline | start, prompt, request, abort, recover | omo child, runtime | deadline against late answer, dead transport, startup death | a turn ends and ends idle; one child per session file |
| opencode server (`opencode.ts`) and event listener (`global-event-listener.ts`) | child process, start in flight, retry count; the loop and its controller | start, crash, restart, stop; connect, reconnect, pause | every opencode client, runtimes | concurrent starts, a server replaced under the loop | one server is started; the listener reaches it |
| IPC (`ipc-polling.ts`, `ipc_requests`, `ipc-tools-plugin.ts`) | request rows | create, claim, answer, cancel stale | plugin, bot | stale processing rows across restarts | every request ends |
| Permissions, questions, buttons, uploads (`commands/permissions.ts`, `action-buttons.ts`, `file-upload.ts`) | pending contexts per thread | show, answer, cancel, expire | Discord, opencode | answer against dismissal against expiry | one answer per request, none forgotten |
| Interrupt plugin (`opencode-interrupt-plugin.ts`) | held messages and their timers per session | hold, abort, replay, drain | opencode | events that are late or lost, calls that throw | a message is replayed once, none is held for ever |
| Account rotation, auth plugins | account store and `auth.json` under a lock | refresh, rotate, remove | token endpoint | single-use refresh tokens, a lock that goes stale, three files written in turn | no usable token leaves the pool while a lock is not taken for stale |
| Slack bridge (`discord-slack-bridge`) | timed events of a thread's typing status; gateway sessions | start, message, reconcile | Slack | calls in flight, rate limits, timers | a limit on a status is honoured |
| Thread runtime, rest of it | parts sent, footer, typing timers | render, type, footer | Discord | late parts, duplicate parts | each part once |
| Runtime registry, idle sweeper (`thread-session-runtime.ts`, `runtime-idle-sweeper.ts`) | map of runtimes, preprocess chain, action queue | get or create, preprocess, submit, dispose, sweep | message handler, sweeper timer, `/restart` | a message or a silent run while the runtime looks idle; awaits before the order is fixed | a run is watched; messages keep their order |
| External session sync (`external-opencode-sync.ts`) | `thread_sessions`, `part_messages`, the pass under way | poll, find or make the thread, post, record | opencode, database, the thread's runtime | two posters; timeouts and restarts between a post and its rows | each part once, none left out |
| Event stream derivations (`event-stream-state.ts`) | the runtime's event buffer | append, evict, derive | runtime | repeated, late and evicted events; markers during an await | one footer per answer, no token twice |
| Worktrees, voice, forum sync, CLI, startup, libsqlproxy, website, fly-admin, inference proxy, twins | files, sockets, per package | - | git, audio, Discord, HTTP | subprocesses and I/O | - |

`PROJECT.json` `components` has each with its status.

## 2. Modules

```
SleepPromise  <--implements--  SessionSleep  <--proofs--  SessionSleepProofs
                                    ^
                              MCSessionSleep            sleep, sleep_crash
ScheduledTasks  <--  MCScheduledTasks                   tasks_cancel
                <--proofs--  ScheduledTasksProofs
ScheduledTasks, ExternalSync
                <--  MCPolls                            tasks, tasks_live
ThreadQueue     <--  MCThreadQueue                      queue_live, queue_reported
ThreadQueue, RuntimeRegistry, EventBuffer
                <--  MCThreads                          queue
ThreadQueue     <--proofs--  ThreadProofs
SessionSleep, RpcSession, AccountPool, IpcRequests,
OpencodeServer, PermissionUi, InterruptPlugin, SlackTyping
                <--  MCServices                         services, services_live
PermissionUi, RpcSession                                perm_forgotten, rpc_wedged
IpcPromise      <--refines--  IpcRequests               services
InterruptPlugin, IpcRequests, AccountPool
                <--proofs--  PluginProofs
RpcSession      <--proofs--  RpcSessionProofs
RuntimeRegistry, EventBuffer, MCThreads
                <--proofs--  RuntimeProofs              with ThreadProofs
ExternalSync    <--proofs--  ExternalSyncProofs
OpencodeServer, PermissionUi, SlackTyping, MCServices
                <--proofs--  ServicesProofs             with RpcSessionProofs,
                                                        PluginProofs
```

### SessionSleep, SleepPromise

One action per step between two awaits.  `KimakiSleep` is the tool in the
plugin; `RunnerScan`, `RunnerClaim`, `RunnerResolve`, `RunnerPost...`,
`RunnerFail`, `RunnerDone` are `wakeDueSessionSleeps`, which works through a
batch it read at its start; `IngressWake` and `WakeTurn` are the message
handler, first consuming the row and then enqueueing the turn; `UserMessage` is
`supersedePendingSleep`; `AbortCancels` and `AbortStops` are the two halves of
`/abort`; `Resume` and `Rename` change `thread_sessions` and with it the answer
of `getThreadIdBySessionId`, kept as the order of `updated_at`.  The gateway is a
set of wakes: losing one is `LoseEvent`, handling one without removing it is the
repeated delivery.  Discord forgets a nonce after some time (`ForgetNonce`); until then a
second post of the same delivery id creates no second message.  `Crash` drops
everything that is not in SQLite or Discord.

`SleepPromise` is what the table promises to a sleeping session with none of
these actors: alarms with fresh identifiers that ring, are called off or are
settled, each once.  `SessionSleep` implements it with the mapping that forgets
`attempts` and `cooling`.

### ScheduledTasks

Executors are the poller and the Run now buttons; each stands at a step of
`processDueTask` (`Claim`, `ReadRuns`, `CheckRun`, `CheckDone`, `Begin`,
`Post`, `Execute...`, finalization).  The poller also holds the batch of
rows `runTaskRunnerTick` read, so that a row can change between scan and claim.
Runs are ledger rows; the session a run starts goes through ingress
(`IngressPrompts`, then `IngressRecords`, two steps with an await in between) and
ends by an event (`SessionEnds`, `SessionEndHandled`).  With `OmoRpc` the ingress
path never records the session, as `submitViaOmoRpc` does not; the runs leave it off, the
theorems hold for both values.

### ThreadQueue

The runtime of one thread on the opencode backend.  `acts` is the action queue
of `dispatchAction`: one action runs at a time and keeps its turn across its
awaits (`turn`).  Outside it run the detached dispatches (`job[m].at` is where
each stands: showing the indicator, ensuring the session, creating it, prompting,
reporting an error), the question handoff, and the handlers of Discord
interactions.  `buf` is what `isSessionBusy` and
`didQuestionQueueHandoffSinceLatestQuestionAsked` read of the event buffer,
including the markers `markQueueDispatchBusy`, `markQueueDispatchIdle` and
`markQuestionQueueHandoffStarted` append.  `srv`, `aborting` and `sse` are
opencode: a session runs, retries, asks, completes or fails, and its events
travel in order.  A run may complete without what
`doesLatestUserTurnHaveNaturalCompletion` asks for (no answer, an errored one, or one that
ends in tool calls): its idle event then drains nothing (`Unfinished`).  `Faults` says
what may go wrong: a dispatch throws or reports its error (`throw`, `report`), an
indicator or the report of a failed run cannot be sent (`send`, `tell`: `Settle` then
neither marks the session idle nor drains), a run fails or ends unfinished (`error`,
`unfinished`).  `missed` remembers that a drain was due and did not take place, until one
that finds the session idle does.

### RpcSession

The omo RPC backend of one thread.  `sessions` is the entry of the thread in the
bridge's map, `live` the `LiveSession` each caller may have created, `client` the
`OmoRpcClient`s of a live session by what they were created for: the first one,
the fresh one after a startup death (`quarantine`), the one of the mid-turn retry.
A client has its child (`up`), whether it counts as running, its
`pendingRequests`, its `settledWaiters` and the `settledCount` left over.
`rpc[x]` is where the caller stands: a turn (`submitViaOmoRpc`: get, start, probe, busy,
prompt, wait, deadline, abort, stop), a command's request (`withRpcClient`) or an
abort (`abortRpcSession`).  The child answers, refuses, settles or dies at any
time, or never (a wedged child); a death rejects what its client has pending, and the
callers go on as the catch blocks say (`AfterExit`, `AfterStop`).

### OpencodeServer

`startingServer` is shared by everyone who needs the server (`Ensure`,
`SpawnServer`, `ServerReady`, `ServerNotReady`); the exit handler of a process
restarts it or not (`ServerCrashes`, `ServerExits`); `/restart-opencode-server`
stops, pauses and starts again.  The listener's loop (`LoopTurns`, `Subscribed`,
`SubscribeFails`, `StreamEnds`, `DelayEnds`) makes a new controller in each turn,
connects to the server the bot refers to at that moment, pauses when no runtime
is registered, and is aborted by whoever restarts it.

### IpcRequests

A row per tool call, the plugin's loop that polls it (`PollRow`, `ToolTimesOut`),
the bot's tick that claims all pending rows and dispatches them one after the other
in the order of `created_at` (`IsNext`), and the two user interfaces.  Writes of an
answer may throw, and the catch of an upload's promise then writes an error.  An upload context is resolved by a submission, its timer,
a failing send or a new message, and its promise then completes the row
(`UploadEnds`).  Action buttons are completed as soon as they are queued; the
runtime takes the queued request when the part of the tool call is complete, or
waits for it (`TakeRequest`, `WaitTimesOut`).  A click checks the context, awaits
`deferUpdate`, and only then claims it (`Click`, `ClaimClick`).  `IpcCrash`
keeps rows and messages only; `StartBot` and `ShutDown` cancel what is pending.
`IpcPromise` is what a tool call may rely on: the table as a map from calls to what
it says of them (`TableSays`), with no poller, Discord or restart.

### PermissionUi

The runtime handles the asked and replied events of one thread one at a time.
A request is shown with buttons of its own (`ShowButtons`, then the send) or
attached to buttons that cover it (`AttachRequest`).  The timer, a click, a
message (`cancelPendingPermission`, one context after the other, then the abort)
and the teardown each take the context first (`Taken`) and answer its requests
afterwards (`Decided`), where some of the calls may fail.

### InterruptPlugin

`pending` is the plugin's Map in insertion order, `ticking` the timers,
`interrupt` the one abort and replay in flight (`AbortCall`, `Polled`,
`ReplayLands`, `ReplayReturns`, or `CallThrows`).  OpenCode is modelled from what
the plugin says of it: a queue of prompts, one run, events that may be late or
lost.

### AccountPool

Requests of the auth plugins in one or several processes.  `withAuthStateLock` is
a directory that is created, looks stale after thirty seconds and is removed by
whoever saw it stale (`SeesStale`, `BreakLock`: the lock removed may be a newer
one).  In the lock a request refreshes (`RefreshToken`, the token endpoint,
`WriteAuth`, `SaveRefreshed`), removes the account of a refused token
(`RemoveAccount`) or rotates (`RotateAccount`).  The store is read in one step
(`LoadStore`, into the request's copy `pool`) and written in another, so two sections that
overlap because a lock was taken for stale overwrite each other.  Requests of one process share the
refresh in flight.  The endpoint takes the newest generation of an account once.

### SlackTyping

The timed events of one Slack thread, the intent derived from them
(`ShouldSend`, `ShouldClear`, `NextWake`), and the reconciler that acts on it: a
call to Slack that takes time, what is logged meanwhile (`dirty`), a timer.  Setting and
clearing a status are one method of Slack, and either may be limited (`RateLimited`,
`ClearLimited`); only the first is logged.  When nothing is left the log is dropped
(`Rest`).

### RuntimeRegistry

The registry and one thread's runtimes, as the messages of the thread see them.
`RegArrives` is `getOrCreateRuntime` and the start of `enqueueIncoming`;
`ParentRead` and `ParentWritten` are the awaits of `ensureParentSessionId`, before
the message is linked to the `preprocessChain` (`links`); `PreprocessStarts` and
`Preprocessed` are its link, which ends with the action it queues (`actions`, the
action being run at its head).  `Sweeps` is `disposeInactiveRuntimes` and
`RestartsServer` `/restart-opencode-server`: both drop the runtime's memory, and
`dispatchAction` of a disposed runtime returns at once.  Time is one bit, whether
the latest activity is less than a day ago.

### EventBuffer

The `eventBuffer` of a runtime with its limit, and the derivations that decide
on a footer (`InLatestUserTurn`, `CompletedBefore`) and on tracked tokens
(`TurnTokens`, `TokensBefore`), over entries that hold only what they read.
`AnswerUpdated` and `FlushEnds` are the two halves of `handleMessageUpdated`,
around the await in which `Interleaves` may append a marker.

### ExternalSync

One pass of `pollExternalSessions` at a time (`pass`): directories one after
the other, each with its timer (`SyncsDirectory`, `SyncTimesOut`), the list, the
sessions, and for each session `syncSessionToThread` with a step per await.
`row` is `part_messages`, `posted` what is really in a thread.  The parts of answers
(`Answers`) reach the live runtimes as `events`; a runtime takes them one after the other,
posts the part (`RelaysPart`, or `RelayFails`) and only then writes its row
(`RecordsRelay`), and the pass may read the rows before, between or after.
`TypesInTerminal` and `TypesInDiscord` decide which of the two a session is driven from
(`LatestTurnFromDiscord`).

### MCServices, MCThreads, MCPolls

The components of each of these modules share no variable, so one run checks them
all without multiplying their states: `part` is chosen in the initial state, the
component it names acts, and the others stay as they start.  `SvcFairness` and
`PollFairness` repeat the fairness each component states, restricted to the part
that acts, because a part that does not act owes nothing.

## 3. Runs

Each property has a mutant in `PROJECT.json`: a plausible bug in one mapped
definition that makes exactly the same configuration fail.

### Passing

| Run | Properties | Instance |
|---|---|---|
| sleep | `WakeAtMostOnce`, `CalledOffNeverWakes`, `KeepsPromise` | 1 session, 2 threads, 2 sleeps, 2 attempts, 1 restart |
| tasks | `OccurrencePostedOnce`, `OneExecutor`, `ExtPostedOnce` | 1 task with `--allow-concurrency` (only the claim keeps executors apart), poller and one button, 2 executions, 1 occurrence and 1 edit; or 1 mirrored session of 5 parts, 2 threads, 1 fault |
| tasks_live | `OverlapIsWrittenOff`, `ClaimsAreReturned`, `ExtMirrored` | 1 task, the poller, 3 executions, 2 occurrences, 1 restart; or 2 mirrored sessions of 2 parts, each in its directory, 3 threads, 1 fault |
| queue | `ThrTypeOK`, `OneDispatchAtATime`, `OneHandoffPerQuestion`, `WaitsForTheRun`, `PromptedInOrder`, `RegRunsAreWatched`, `RegArrivalOrder`, `BufFooterOnce`, `BufTokensNotTwice` | 3 queued messages and 1 direct, bounded as below, 1 abort, 2 questions, every fault; or 2 messages, 2 runtimes and 1 `/restart`; or a buffer of 5, 7 entries, 2 turns of 2 answers |
| queue_live | `NothingStranded`, `QueueDrains` | queued and direct messages of a fresh thread, 1 retry or 1 abort or a second session, every fault but `report` |
| services | `SvcTypeOK`, `RpcTurnEndsIdle`, `RpcOneChildPerSession`, `AccFilesAgree`, `AccNewestKept`, `AccRemovedIsDead`, `IpcButtonsActOnce`, `SrvOneStart`, `PermOneDecider`, `IntReplayedOnce`, `TypHonoursLimit`, `IpcKeepsPromise` | one component at a time, instances below |
| services_live | `TypeOK`, `DueSleepSettles`, `RpcTurnsEnd`, `IpcRowsSettle`, `SrvListenerConnects`, `PermExpires`, `IntPendingDrains` | the same and kimaki_sleep, smaller, under section 4 |

What each says:

- `WakeAtMostOnce`, `CalledOffNeverWakes`: a delivery id starts at most one turn,
  and none once its row was cancelled or replaced, through any repetition of
  the post, the event or the runner's batch.  `KeepsPromise`: the table implements
  `SleepPromise`, so a row that replaced another is not settled for it.
- `DueSleepSettles`: a planned sleep ends as a turn, a cancellation or a failure.
- `OneExecutor`, `OccurrencePostedOnce`: no two executors work on one task and
  no occurrence is posted twice, unless the claim was recovered as stale from a
  working executor (`stolen`) or the process died.
- `OverlapIsWrittenOff`: if two sessions of a task run together, the ledger
  no longer counts one of the two runs.  `ClaimsAreReturned`: no row stays
  `running`.
- `OneDispatchAtATime`, `WaitsForTheRun`, `PromptedInOrder`: the gate of
  `tryDrainQueue` lets one message through, when no run is under way, in
  the order of arrival.
- `OneHandoffPerQuestion`: a question hands over one message, however its
  showing, answer and new messages interleave.
- `RegRunsAreWatched`: a run in progress has a runtime that sees its events, however
  long it is silent.  `RegArrivalOrder`: messages given to one runtime reach opencode
  in the order of their `enqueueIncoming` calls, however long each is preprocessed.
- `BufFooterOnce`: a message that ends its turn gets one footer, however often it is
  reported.  `BufTokensNotTwice`: however often a turn becomes idle, no more tokens are
  tracked than were spent.
- `ExtPostedOnce`: a part is posted to a thread once, by the poller or by the runtime,
  with the exceptions below.
  `ExtMirrored`: nothing said in a terminal is left out for ever.
- `NothingStranded`, `QueueDrains`: when nothing moves any more the queue is
  empty, and every queued message leaves it, unless a drain that was due was missed
  and none has come since.
- `RpcTurnEndsIdle`: a turn that settled or was given up (its deadline, or its transport
  lost twice) has been shown idle since it was shown busy; not a turn whose prompt was
  refused.  `RpcTurnsEnd`: a turn ends, even if its child never settles, unless its prompt
  or its abort is never answered.  `RpcOneChildPerSession`: recovering never puts
  a second child at a live session's file.
- `AccRemovedIsDead`, `AccNewestKept`, `AccFilesAgree`: only dead tokens leave
  the account pool, the newest token of a live account is in it, and opencode's
  `auth.json` holds the active one; all three as long as no lock was taken for stale.
- `IpcButtonsActOnce`, `IpcRowsSettle`: buttons act once and by a click; a claimed
  request is answered or cancelled.  `IpcKeepsPromise`: the table implements
  `IpcPromise`, so an answer is final and fits the call, whoever writes the row.
- `SrvOneStart`, `SrvListenerConnects`: one server boots at a time; a server that
  stays gets its listener.
- `PermOneDecider`, `PermExpires`: of click, timer, message and teardown one
  decides; what was shown is answered in the end.
- `IntReplayedOnce`, `IntPendingDrains`: abort and replay does not loop, and no
  message is held for ever.
- `TypHonoursLimit`: no status is sent while a limit lasts that Slack named when it
  refused a status, although the log that knows of it is dropped at rest.

Conditions on properties, each because the code does otherwise without it:
`OneDispatchAtATime`, `WaitsForTheRun` and `PromptedInOrder` are about threads
that have their session from the start, in which no message went past the queue (a
direct one or a handed-off one) and opencode has retried nothing (`Alone`);
`OneHandoffPerQuestion` is about threads with a stored session (two sessions
created at once may ask in turn); `NothingStranded` and `QueueDrains` except missed
drains, which are those of a run that was aborted or ended unfinished, of a failed run
whose report could not be sent, and of an action whose indicator could not, and their run
has no dispatch that reports its error and no question; the three properties of the
account pool hold while no lock was taken for stale, two of them between critical sections and after
`auth.set` has not failed (`AccSettled`).  `RpcTurnsEnd` excepts callers a child never
answers, and `TypHonoursLimit` knows of no limit on clearing.  `RegRunsAreWatched`
excepts detached dispatches and what a runtime of a `/restart` goes on to send,
`RegArrivalOrder` threads with a parent session,
`BufFooterOnce` and `BufTokensNotTwice` turns of which an entry was evicted and (the
first) handlers a marker interrupted, `ExtPostedOnce` posts that failed after they were
made or whose rows a restart kept from being written, parts that a runtime posts after, or
has not yet recorded when, something is typed in the terminal, and what it posts to a
thread the session has left.
What happens otherwise is in the lists below.

Why these bounds are enough to mean something.

- Sleep: two occurrences (a stale wake of the first meeting the row of the
  second), two attempts (one that gives up), two threads (one to resume in) and
  one restart.
- Tasks: two executions are the least in which two executors can meet; a
  restart, a second occurrence and a third execution give the claim that outlives
  its executor and the task that is executed again.
- Queue: three queued messages are the least in which a message can be
  overtaken while another is dispatched, two questions the least in which a
  handoff can be charged to the wrong one, two messages of a fresh thread the
  least that can create two sessions.  `Bounded` of `MCThreads` and `FreshSpec`
  of `MCThreadQueue` only bound the inputs: three queued messages, or two of any
  kind, or a direct message that asks with two queued behind it; in the fresh
  thread two messages with a retry, an abort or a second session.
- Registry: two messages are the least that can swap places or meet a sweep; three
  messages with three runtimes were checked once and show no more.
- Event buffer: two turns of two answers with a limit below the number of entries,
  so that eviction falls into a turn.
- External sync: five parts are a turn from either side with its answer and one more; a
  fault is a timeout, a failure or a restart, and a second thread replaces one that is
  lost.  The run tasks_live has three threads.
- RPC: a live session and its stale predecessor need two turns; a turn, a
  command's request and an abort meet in `RpcTrio`; two deaths give a startup
  death and the retry of a turn.
- Accounts: two accounts and two requests in one process or two, two grants
  (a token used up and its successor), one stale lock.
- IPC: one upload or one set of buttons with two users and a restart, or two
  sets that overwrite each other (`IpcCrowd`).
- Server: three processes give an old one that is slow to stop, its successor
  and the crash restart next to it.
- Permissions: two requests alike, one from outside the project's directory,
  two clicks and a message.
- Interrupt plugin: two messages in one Map, two calls that throw.
- Typing: a lease of 4, a debounce of 2 and a rate limit of 3 in a clock of 9
  keep the order the real constants have.

Deadlock is not checked: every model stops when its bounded inputs are used up,
and a bot nobody writes to does nothing.

### Violations: where the code and its own words part

| Run | Property | What happens |
|---|---|---|
| sleep_crash | `ConsumedIsATurn` | a restart after the row is consumed and before the turn is enqueued loses the wake, which `schema.ts` says is always retried |
| tasks_cancel | `CancelledStaysCancelled` | a cron task cancelled while executing is planned again |
| queue_reported | `NothingStranded` | a dispatch that reports its error leaves the busy marker |
| rpc_wedged | `RpcDeadlineStops` | a wedged child never answers the abort at the deadline: `stop()` is not reached, the turn does not end |
| perm_forgotten | `PermNoneForgotten` | a request attached to buttons that were decided a moment ago is never answered |

### Behaviours of the code worth a reader's attention

The models contain these too.  Each was found by a property that does not hold,
and is the reason for a condition above or for a hazard without a property.

- `/abort` cancels the sleep, then aborts: a `kimaki_sleep` in between survives
  (`commands/abort.ts` 73).
- The thread of a wake is resolved before the post: after a `/resume` it is
  consumed in the old thread (`task-runner.ts` 235).
- `thread_sessions.updated_at` moves with every write, not with bindings only,
  so a title change makes an old thread the owner again (`schema.ts` 39).
- A tick executes the rows it read: an edit confirmed after the scan is not what
  runs (`task-runner.ts` 695).
- A claim that outlives `staleRunningMs` is recovered under its executor, and a
  second executor claims the task (`database.ts` 309).
- A step that fails after the post, or a lost response, fails the run although its
  message starts a session: the next occurrence starts another beside it
  (`task-runner.ts` 629).
- A run whose turn goes to omo over RPC never records its session, and is written off
  after `PENDING_RUN_TIMEOUT_MS` while it works (`thread-session-runtime.ts` 3024,
  `task-runner.ts` 418): its session and the next may overlap.
- After `/abort` the queue waits for the next message: the idle event of an
  aborted run drains nothing, and nor does that of a run without an answer, with an
  errored one or with the finish reason `tool-calls` (`thread-session-runtime.ts` 2410),
  although the repository's `README.md` (83) promises the message when the current
  run finishes.
- When the report of a failed run cannot be sent, the session is not marked idle: every
  later drain finds it busy until opencode says otherwise (`thread-session-runtime.ts`
  2528).
- An indicator that cannot be sent loses its message, and nothing drains
  the rest (`thread-session-runtime.ts` 3875).
- A limit that Slack names when it refuses to clear a status is dropped: the next status
  may be sent within it (`typing-state.ts` 305).
- A critical section that outlives its lock and another load the account store before
  either saves it: what the first one wrote is lost (`anthropic-auth-state.ts` 200, 255).
- Two commands in a fresh thread create two sessions
  (`thread-session-runtime.ts` 3602, 4479).
- A thread without a session is never busy: the second of two messages queued in
  it is dispatched next to the first, whose dispatch is still creating the session,
  and may overtake it (`event-stream-state.ts` 108, `thread-session-runtime.ts` 3887).
- A message handed off while the run that asked has ended, or was aborted, starts a
  run next to the queue's, as a direct message does
  (`thread-session-runtime.ts` 2786).
- The idle event of a direct message reopens the gate of a queued dispatch
  (`thread-session-runtime.ts` 3889).
- A session that waits to retry does not count as busy
  (`event-stream-state.ts` 131).
- A server slower to stop than the pause of `/restart-opencode-server` clears
  `singleServer` of its successor when it exits: an orphan (`opencode.ts` 991).
- The idle event of the interrupt plugin's own abort, arriving after the replay,
  empties the Map of messages that were not sent (`opencode-interrupt-plugin.ts` 251).
- A status refresh that returns after the reply's debounce is due leaves the
  Slack status without a timer to clear it (`typing-state.ts` 210).
- `forgetSession` deletes the entry of the thread, whichever session it holds:
  two live sessions of one thread (`rpc-session.ts` 207).
- A second set of action buttons overwrites a request that was not shown yet
  (`action-buttons.ts` 66).
- The runtime of an old thread counts as idle since the thread was created until its
  first event: swept while it preprocesses the message it was made for, it drops
  this message without a word (`thread-session-runtime.ts` 832, 1540).
- With a parent session the awaits before the preprocess chain differ from message to
  message: a later one overtakes (`thread-session-runtime.ts` 3472, 3514).
- A detached dispatch of a runtime that does not know its session is not marked busy:
  the runtime may be swept under the run (`thread-session-runtime.ts` 3887).
- A marker appended while the parts of a completed answer are flushed makes its own
  update look like an earlier completion: no footer (`thread-session-runtime.ts` 2028).
- The 30 seconds of a directory abort a signal no call takes: a call that hangs keeps
  the polling guard locked (`external-opencode-sync.ts` 43, 580).
- A live runtime posts the answer to a turn typed in the terminal, and the poller
  may post it again (`external-opencode-sync.ts` 473).
- Two executors on one task: `createScheduledTaskRun` fails when the other has
  deleted it, and the tick ends with the rest of its batch (`database.ts` 196).
- When `auth.set` fails after a refresh, opencode keeps the token that was used
  up (`anthropic-auth-state.ts` 112).

## 4. Fairness

- **Sleep.**  The runner keeps working: `startTaskRunner` calls the tick from an
  interval, and every await in it ends.  Clocks advance (`WakeTimeComes`,
  `RetryWindowPasses`) and Discord forgets nonces.  A wake that stays in the
  gateway, or is posted again and again, is handled in the end: strong fairness
  of `IngressWake`, since a single event may be lost.  Users, agents and
  crashes owe nothing.
- **Tasks.**  The poller keeps working and clocks advance.  This assumes that a
  pre-run command exits: `runTaskCommand` sets no timeout, and one that hangs
  stops the tick for ever (hazard list).
- **Queue.**  The action queue, the handoff, every dispatch that is under way and
  the event stream make progress; opencode's runs end, and a session that waits
  to retry retries.  Nothing obliges a user to answer, withdraw or abort.
- **External sync.**  The interval fires and what a pass awaits returns: nothing in
  the code bounds a call that hangs.  Users and opencode say nothing more if they
  do not want to, and nothing obliges a timer to fire or a runtime to post.
- **RPC.**  Callers go on after each await, the deadline and the probe's timer
  fire, a signalled child exits.  A child owes nothing: it need not answer, refuse, settle
  or die.  `RpcTurnsEnd` rests on the deadline, and excepts what the deadline does not
  reach, a prompt or an abort that is never answered.
- **IPC.**  The tick runs, timers fire, promises resolve and the bot is started
  again.  Users do nothing.
- **Server.**  The loop, the start in flight and the callers go on.  A process
  may boot for ever and nobody needs the server.
- **Permissions.**  Handlers run, timers fire, calls return, possibly with an
  error.
- **Interrupt plugin.**  Timers fire and calls return.  opencode may work on
  one message for ever, and its events may never come.

## 5. What is proved

`SessionSleepProofs`, for any finite or infinite `Sessions` and `Threads`, any
`MaxAttempts > 0`, `MaxSleeps` and `MaxCrashes`, from `ConstantsAssumption`
alone:

- `TypeCorrect`: `Spec => []TypeOK`.
- `AtMostOneTurn`: `Spec => []WakeAtMostOnce`.
- `NoWakeAfterCallOff`: `Spec => []CalledOffNeverWakes`.
- `Refinement`: `Spec => KeepsPromise`, that is `Alarm!Spec` of `SleepPromise`.

None of the safety properties is inductive: that a wake starts one turn says
nothing about a wake still in the gateway or being posted.  The inductive
invariant `IInv` adds

- `RowsDistinct`: identifiers of rows are different and were drawn,
- `RunnerHolds`: what the runner holds in its batch or its claim was due,
  and is still its session's latest sleep or was replaced,
- `GatewayHolds`, `IngressHolds`: a wake in the gateway rang; a wake past the
  row's consumption is of a spent row and has no turn yet,
- `HistoryHolds`: whoever was called off or became a turn is spent.

Every action but `KimakiSleep` only erodes the rows (`RowsErode`: an identifier
stays, a plan can only end, a due time can only come), and eroding rows keep each
part for every actor that does not move (`ErosionKeeps...`).  What is left is
one lemma per actor, and the refinement reuses the same invariant: a row that is
failed or consumed was due.

`ScheduledTasksProofs`, for any `Tasks`, `Buttons` and bounds, from
`TaskAssumption` alone:

- `TypeCorrect`: `TaskSpec => []TaskTypeOK`.
- `OneAtATime`: `TaskSpec => []OneExecutor`.
- `PostedOnce`: `TaskSpec => []OccurrencePostedOnce`.
- `OverlapsWrittenOff`: `TaskSpec => []OverlapIsWrittenOff`.

That two executors do not work on a task now says nothing about who claims it
next, so the inductive invariant adds `WorkedOnIsTaken`: the row of a task that
is worked on is not planned, and has an occurrence (so `createScheduledTask`
cannot fill it anew); `RowsOccur`: every row has one; and `JobsKnown`: an executor
past its claim holds a snapshot.  The proof follows who may start and who may
return a row.  Only `Claim` starts an executor, and it finds the row planned
(`ClaimKeepsOne`).  Whoever returns a row stops working in that same step, and by
`OneExecutor` nobody else is left on it (`OneStops`).  The exception is
`recoverStaleRunningScheduledTasks`, which puts what it takes from a working
executor in `stolen` (`TickKeepsOne`): the property excludes those tasks, because
nothing in the code keeps a second executor off them.

`PostedOnce` builds on it.  That no occurrence was posted twice so far says nothing
about an executor that is about to post, so the invariant adds `PostsDrawn` (that
executor's run is of the occurrence its row is at) and `OccsSpent` (the message of an
occurrence is out only when its row is at a later one, or the occurrence is `Over`:
its executor is about to finalize the row, or nobody works on a row that is gone or
failed).  An occurrence's number moves only while nobody works on the row, or in
the step in which its executor leaves (`OccMoves`), and `Over` is kept because what is
gone or failed is never planned again (`OverByOthers`, `OverByExecutor`).  A row under
execution is not over (`NotOver`), hence no second post.  Restarts are excluded, as in
the property: a restarted bot executes again what it had posted.

`OverlapsWrittenOff` needs nothing of the sessions: the ledger has at most one active run
of a task (`OneActiveRun`).  A run is added on an earlier reading of the active runs, so the
invariant adds `SeenAll`: the runs still active are among those that the executor has to
check, and none is when it begins.  Runs only end (`RunsErode`), and only the one executor
of the task could have added another (`NoneAppears`).

`RpcSessionProofs`, for any turns, requests, aborts and number of deaths:
`RpcIdleAfterBusy`: `RpcSpec => []RpcTurnEndsIdle`, and `RpcNeverTwoChildren`:
`RpcSpec => []RpcOneChildPerSession`.  That a session has one child now says nothing
about the next one that is started beside it, so `RpcInv` adds what the starter knows:

- `StartsAlone`: a session that is being started has at most the child that is
  probed (a startup death takes that one, and the fresh client follows it);
- `UsedIsSettled`, `TurnsUseIt`: a session that is in the map or in somebody's hands
  is past its start and, until its retry, uses one client; a turn waits on that
  client, and when it lost its transport the session has no child (so the retry
  finds none);
- `WaitersUseIt`: who waits on a client belongs to its session, and a caller that
  probes waits on nothing else.  Without it the death of one client could move
  callers of another;
- `BusyIsWatched`: a turn that was shown busy was shown idle, or its adapter still
  runs.

Actions that start no child and let nobody begin to wait share three lemmas
(`NobodyStarts`, `NobodyWaits`, `NobodyIdles`); the rest is one lemma per action.

`RpcTypeCorrect`: `RpcSpec => []RpcTypeOK`.  Most of it is shape (`Shape`), but that the
settlements left over at a client (`spare`) are never more than the turns is not: it says
that no turn prompts one client twice.  `RpcBounds` (`RpcRoomInvariant`) has it with room for
what is to come (`Room`): the settlements left over, the turns a client works on and
the turns that may yet prompt it are together at most the turns.  A turn prompts a
client once, and when it goes on after a transport death it goes on with another
client, that of the retry, which no session uses before (`AgainRetried`, `RetriedUses`);
whoever has a request pending at a client is asking that client (`PendingFits`), so the
death of one client sends nobody on from another.  This part assumes, as
`RpcAssumption` does, that the turns are finitely many.

`PluginProofs` has the three components that live in opencode's plugins:

- `InterruptPlugin`, for any messages and failing calls: `IntTypeCorrect`, and
  `IntNoReplayLoop`: `IntSpec => []IntReplayedOnce`.  `IntInv` says what the Map and the
  step of the abort under way tell of the replays: a message in the Map was sent by
  the user and never replayed (`HeldIsUnsent`), a message not sent yet is known to
  nobody (`NewIsUnknown`), and a replay under way is the first of its message, which
  has left the Map for good (`ReplayIsFirst`).
- `IpcRequests`, for any buttons, uploads, users and restarts: `IpcOneClickCounts`:
  `IpcSpec => []IpcButtonsActOnce`.  `IpcInv` follows a click from the context it was
  granted to the message it sends: a granted click holds its context alone and
  the model has not been told of it.  `IpcRefinement`: `IpcSpec => IpcKeepsPromise`,
  step by step; `completeIpcRequest` writes by id alone, so that it never overwrites an
  answer is `IpcRowsInv`, one statement per call: what is left of the batch was
  claimed and is not completed (`BatchIsClaimed`), an upload that waits or is about to
  end was claimed and left the batch (`UploadIsClaimed`), and a row's status, its
  response and its tool agree (`RowSays`).  `IpcTypeCorrect` follows from both invariants
  and one of the order of rows (a call is inserted once).
- `AccountPool`, for any accounts, requests, grouping of requests in processes and
  lifetimes of locks: `AccTypeCorrect`, `AccTwoFilesAgree` (`[]AccFilesAgree`),
  `AccNewestIsSaved` (`[]AccNewestKept`) and `AccOnlyDeadLeave` (`AccRemovedIsDead`, an
  action property).  The properties speak of a free lock; `AccInv` says what each
  section has done and has yet to do: `LockExcludes` (one section while no lock was
  taken for stale), `FilesInStep` (where the files agree, and which of the two a
  section has written), `NewestInPool` (a token that is not in the store is
  on its way there), `CopiesFresh` (a copy of the store that a section has loaded is
  still the store when it saves, as long as no lock was taken for stale), and, whatever
  happens to the lock, `RefusedIsDead` (a refused token is not taken again),
  `TokensDelivered`, `CopiesDelivered` and `NewestGranted` (what the endpoint takes is not
  older than what was delivered).  It assumes
  `AccAssumption`: finitely many accounts, at least one, and a start from a store
  that holds each once.

`ThreadProofs`, for any messages, sessions, bounds and faults of `ThreadQueue`:
`QueueTypeCorrect`, `QueueOneHandoffPerQuestion` and `QueueOneDispatch`
(`[]OneHandoffPerQuestion`, `[]OneDispatchAtATime`), and the action properties
`QueueWaitsForTheRun` and `QueuePromptsInOrder` (`WaitsForTheRun`,
`PromptedInOrder`).  `TypeOK` itself needs more than types: that the queue holds
exactly the messages that wait in it is lost if an action or an indicator could be about
a message that moved on.  `Shape` ties every action of the action queue, the
action at its await and the handoff to the place of its message, and on it rest four
invariants:

- `Targets`: a prompt that is being sent knows its session;
- `HandedOnce`: a thread with a stored session keeps it, and as long as a message was
  handed off for the latest question the buffer of that session says so, where the
  gate of the next handoff looks;
- `Serial`: in a thread that is `Alone` the turn is in one place.  It is a message
  between its indicator and the answer of opencode, or the run, or the event that
  ends the run, on its way in the stream, in the action queue or being handled
  (`Lone`, `TurnsPass`); and as long as it is anywhere the session is marked busy, or
  the action that took the message is still sending its indicator (`MarkedBusy`).  This is why a derivation from events
  that lag may gate the queue: what lags is the end of a turn, never its
  beginning, which the runtime marks itself;
- `Ordered`: what is on its way to opencode came before what is in the queue, and
  the queue is in the order of arrival.

What a step may do to one message is said once (`Goes`, `MessagesGo`), and most
actions follow from it.

`QueueNotStranded`: `Spec => [](Calm => NothingStranded)` is the fifth safety property, for
threads in which no question is asked and no dispatch reports its error (`Calm`, what the
run queue_live checks; with a report it is false, as queue_reported shows).  Dispatches may
throw, runs fail, end unfinished, be aborted or retried, reports and indicators may not be
sent, and direct messages and new sessions come in between.  It says of a state
at rest what is true because of everything that was under way before, so its
invariant `Emptied` names for every state what will still drain (`Stirred`): a drain in
the action queue, a detached dispatch, an event being handled, a submission to the
session, or a run of the session; or that a drain was missed.  A drain that was missed
counts until one finds the session idle, so the exception ends with the next message that
is queued or dispatched there.  That a drain which finds the session busy leaves
such a thing behind needs

- `BusyBecause`: a session marked busy runs, or its dispatch is on its way, or the
  failure of its run is being handled or could not be reported;
- `ErrorFits`: the failure being handled is that of the thread's session, unless a new
  session has replaced it;
- `Followed`: when opencode's session is idle, every busy event of it, in the stream or
  in the action queue, is followed by the end of that run, so a late event never
  leaves the mark behind;
- `Replying`: when a submission marks its session busy on opencode's answer, the
  session runs or the end of the run is not handled yet;
- `SessionsFit`: a message goes to the session it was dequeued for unless the thread's
  session changed, and a session nothing was sent to has no events and no mark;
- `Undisturbed`: what `Calm` excludes does not happen.

`RuntimeProofs` has the two components of one thread's runtime, which share nothing, and
their composition with the queue:

- `RuntimeRegistry`, for any messages, runtimes and restarts, from
  `RegAssumption` (which also keeps a prompt among the runtime's actions apart from the
  lifecycle events, by its value): `RegTypeCorrect`, `RunsAreWatched`
  (`[]RegRunsAreWatched`) and `ArrivalOrder` (`RegArrivalOrder`, an action property).
  That a run of opencode has a runtime to hear its end cannot be seen from the sweeper,
  which looks at what the runtime has handled so far.  `RegInv` adds `RunIsAnnounced`
  (the latest lifecycle event of a session with a run says busy, whether it is still in
  the stream or is an action behind every idle one), `RunIsSeen` (the runtime of a run
  whose message is not excepted knows the session, and is either recently active or
  has marked it busy or will, which is what the sweeper reads), `ActionsHeld` and
  `QueueBehindBusy` (a prompt under way has its action in its own runtime's queue, and is
  its head while it acts).  `ArrivalOrder` needs that the links of a runtime's chain of
  promises follow the order of the calls, also across a runtime that was disposed and
  made anew (`Linked`, `RegInOrder`).
- `EventBuffer`, for any size of the buffer, turns and answers, from `BufAssumption`:
  `BufTypeCorrect`, `FooterOnce` (`[]BufFooterOnce`) and `TokensNotTwice`
  (`[]BufTokensNotTwice`).  For the footers:  `wasAlreadyCompleted` looks at the entries before the
  last one after an await, when the last one may be another.  `BufInv` adds `TurnSeen`
  (the entry of the latest user message is there until its turn is evicted, so an answer
  of it is not taken for an old one), `CompletionKept` (so is the completion of
  an answer that ended, and one that did not end has none and no footer) and `FlushKnows`
  (while parts are flushed nothing is found before the first completion, until a
  marker pushes it behind the last entry, and before a repetition there is always one).
  For the tokens `BillInv` says that of the latest turn no more was tracked than was
  counted at the last idle of that turn in the buffer (`BilledIsCounted`), which is just
  what `getIdleTokenUsageDelta` takes off at the next one.  That the sum stays below
  what the answers have come to needs that their snapshots grow (`SnapshotsGrow`), and
  that a late idle is never booked on an older turn needs the entry of the latest user
  message behind what is left of that turn (`TurnsInOrder`).  What is counted stays
  when the buffer forgets an entry of another turn and grows with every new one
  (`CountedStays`, `CountedGrows`).  The tokens of a turn are a sum over its answers
  (`MapThenSumSet`), whose recursion the prover cannot unfold by an induction rule; that
  it is a number and grows with its summands is shown by a smallest counterexample
  among the sets of answers (`SmallestSet`, from `WFMin`), and `CHOOSE` is no
  obstacle because all functions that satisfy the recursion agree (`SumsAgree`,
  `SumsExist`).
- `MCThreads`, for any constants the three components assume: `ThreadTypesCorrect`
  (`[]ThrTypeOK`).  Every step of the composition is a step or a stutter of each
  component, so the three type theorems carry over.

`ExternalSyncProofs`, for any directories, sessions, threads and faults, from
`ExtAssumption`: `ExtTypeCorrect`, and `MirroredOnce`: `ExtSpec => []ExtPostedOnce`.
What the pass is about to post it chose by rows that it read some awaits ago.  `ExtInv`
adds `PostsRecorded` (a part in its session's thread has its row, or the pass is
about to write it), `TodoUnposted` (what the pass holds was not posted since),
`InHand` (the pass has one session, posts to that session's thread and holds nothing it
has not seen) and `Unposted` (nothing is posted to a thread that is made later, nor of a
part that is said later).  The runtime posts beside the pass, with its row an await behind,
and what keeps the two apart is who drives the session (`RelayInv`): a pass posts only when it
took the session for the terminal's (`SeenContested`); a part that is not `Contested`, and
that a runtime has in its queue or has posted without a row, is one no pass may hold
(`QueuedUnposted`, `RelayedAlone`); and what a runtime posts is of its own thread's past
(`RelaysFit`).  A contested part is in the property's exception as soon as a runtime posts it.

`ServicesProofs` has three components that share nothing, and the composition of the
services:

- `OpencodeServer`, for any `SrvUsers`, `SrvRestarts`, retry limit and number of
  processes: `SrvTypeCorrect`, and `OneServerStarts`: `SrvSpec => []SrvOneStart`.
  `SrvInv` says which process a start in flight stands for: `SpawnedInOrder` (a process
  that was not spawned yet has no state), `BootsForStart` (a process that boots and was
  not killed is the one of the start in flight) and `WaitsForLatest` (the start waits
  for the last process spawned).  Two booting processes would both be that one.
- `PermissionUi`, for any requests and bounds: `PermTypeCorrect`, and `OneDecides`:
  `PermSpec => []PermOneDecider`.  That two deciders do not hold one context needs to
  know how they came by it: `DecidersHold` (a decider's context was taken from the map),
  `AskedOnce` (a request has one asked event, so a context is made once) and
  `UnhandledUnseen` (a request not handled yet has no context).
- `SlackTyping`, for any lease, debounce, retry time and call time: `TypTypeCorrect`,
  and `LimitHonoured`: `TypSpec` implies `TypHonoursLimit`, for the limits Slack names when
  it refuses a status.  `TypInv` adds that the log is in the past (`Bounded`) and that it
  knows of such a limit as long as the limit lasts (`Knows`), which is what makes dropping
  it at rest harmless.  Of a limit named for a clear (`clearLimit`) there is no such
  invariant: the log never learns of it.
- `MCServices`: `ServiceTypesCorrect` (`[]SvcTypeOK`).  Each component, exercised or not,
  starts in one of its initial states, and every step of the composition is a step or
  a stutter of each (`ServiceParts`), so the type theorems of all of them carry over.

## 6. Model-checked only

Every safety property of the passing runs, invariant, action property or refinement, is
a theorem about its component or, for `ThrTypeOK` and `SvcTypeOK`, about the
composition.  The types of `MCPolls` are those of its components, by `TypeCorrect` of
`ScheduledTasksProofs` and `ExtTypeCorrect`.  Left to TLC is liveness, because the prover
cannot reason about fairness and `ENABLED`: `DueSleepSettles`, `ClaimsAreReturned`,
`ExtMirrored`, `QueueDrains`, `RpcTurnsEnd`, `IpcRowsSettle`, `SrvListenerConnects`,
`PermExpires` and `IntPendingDrains`.  The violations that the other runs show are
counterexamples, found by TLC.

## 7. Not modelled, and what the models leave out

- Sleep: the batch limit of 20, and the time a wake takes in the preprocess chain.
- Tasks: cron arithmetic, parsing of stored payloads (they were validated when
  stored), the pre-run command's output, `setScheduledTaskRunThread`.
- Queue: the buffer restored after a restart, `retryLastUserPrompt`, a session that
  `session.get` no longer finds, a question whose message cannot be sent, subtask
  sessions.  Eviction is in `EventBuffer` and the preprocess chain in
  `RuntimeRegistry`; neither is composed with `ThreadQueue`.
- Registry: failing submissions, deleted threads, the shutdown of the bot.
- Event buffer: its snapshot in the database, subtasks, permission requests, the
  context notice.
- External sync: typing pulses, `thread_sessions.source`, writes that fail, answers
  that are still being written, the limit of 50 sessions.
- RPC bridge: live follow, extension UI requests, commands' prompts, disposal.
- Server and listener: discovery of a server of another process, a fixed port,
  the bot's teardown, the content of events.
- Permissions and UI: a question's own menus, permissions over RPC.
- Interrupt plugin: more than one session, `session.deleted`.
- Accounts: logging in, the command line, the OpenAI and xAI plugins.
- Slack bridge: gateway sessions and the translation of REST calls.
- Components with status `not_modelled`, with the reason, in `PROJECT.json`.
  Voice, worktrees, forum sync, the website, the proxies and the digital twins
  are I/O, rendering or test doubles for the most part.

## 8. Plan

In order of importance:

1. The thread queue on the RPC backend: drains of `handleSessionIdle` outside the
   action queue (`RpcSession` composed with `ThreadQueue`).
2. The restart of a runtime from its persisted buffer: `EventBuffer` with its
   snapshot, composed with `RuntimeRegistry`.
3. Part relay in the runtime, whose flushes share `sentPartIds`.
4. Subtask sessions and pending permissions as derivations of `EventBuffer`.
5. The Slack bridge's gateway sessions.

Proofs: the same invariants for these compositions, in which the components do share
state.

## 9. Running

```
tlc -config MCServices.cfg MCServices                 # any MC module with its .cfg
tlc -config PermissionUiForgotten.cfg PermissionUi
tlapm SessionSleepProofs.tla                          # any ...Proofs module
```
