--------------------------- MODULE ScheduledTasks ---------------------------
(***************************************************************************)
(* kimaki send --send-at: one-shot and cron tasks.  A task row is claimed  *)
(* (planned -> running), checked for a session of an earlier occurrence    *)
(* that is still running, executed (a pre-run command, then a Discord      *)
(* message that starts a session) and finalized.  The same path is taken   *)
(* by the poller, with a batch of rows it read earlier, and by every press *)
(* of the Run now button, while the CLI edits and cancels rows from other  *)
(* processes.                                                              *)
(*                                                                         *)
(* Abstractions.  Time is flags: a row is due (next_run_at <= now), a      *)
(* claim is stale (running_started_at is staleRunningMs old), a run is old *)
(* (started_at is PENDING_RUN_TIMEOUT_MS ago).  A payload is its version.  *)
(* Payloads and cron expressions were validated when stored: they parse,   *)
(* and the next run exists.                                                *)
(* Every execution has an id; only those of cron tasks have a run row.     *)
(***************************************************************************)
EXTENDS Naturals, FiniteSets

CONSTANTS Tasks, Buttons, Poller, NoTask,
          Parallel,     \* tasks stored with allowConcurrency
          OmoRpc,       \* turns go to omo over RPC instead of the opencode queue
          MaxRuns,      \* bound: executions
          MaxOcc,       \* bound: occurrences that become due, not counting those of edits
          MaxEdits,     \* bound: kimaki task edit
          MaxTaskCrashes \* bound: restarts of the bot

ASSUME TaskAssumption ==
  /\ Poller \notin Buttons
  /\ NoTask \notin Tasks
  /\ Parallel \subseteq Tasks
  /\ OmoRpc \in BOOLEAN
  /\ {MaxRuns, MaxOcc, MaxEdits, MaxTaskCrashes} \subseteq Nat

VARIABLES
  tasks,      \* scheduled_tasks: task -> row
  runs,       \* scheduled_task_runs, by execution id
  lastRun,    \* execution ids drawn
  exec,       \* executor -> where its processDueTask, or its tick, stands
  life,       \* execution -> its message not posted, its message posted, its
              \* session active, or gone: the session over or the message lost
  recording,  \* executions prompted, startScheduledTaskRunSession to come
  ended,      \* executions whose session.idle or session.error is on its way
  taskCrashes, \* restarts so far
  stolen      \* history: tasks recovered as stale from a working executor

ledger == <<runs, lastRun>>
sessions == <<life, recording, ended>>
history == <<taskCrashes, stolen>>
taskVars == <<tasks, ledger, exec, sessions, history>>

Executors == Buttons \cup {Poller}
RunIds == 1 .. MaxRuns
Kinds == {"at", "cron"}

TaskRows == [status : {"none", "planned", "running", "cancelled", "failed"}, kind : Kinds,
             due : BOOLEAN, stale : BOOLEAN, version : 0 .. MaxEdits, occ : Nat]
NoRow == [status |-> "none", kind |-> "at", due |-> FALSE, stale |-> FALSE,
          version |-> 0, occ |-> 0]

Runs == [task : Tasks \cup {NoTask}, occ : Nat, old : BOOLEAN, session : BOOLEAN,
         status : {"none", "pending", "running", "completed", "skipped", "failed"}]
NoRun == [task |-> NoTask, occ |-> 0, old |-> FALSE, session |-> FALSE, status |-> "none"]

Snapshots == [task : Tasks, kind : Kinds, version : 0 .. MaxEdits]
NoJob == [task |-> NoTask]
Places == {"idle", "scan", "batch", "read", "check", "begin", "execute", "skip",
           "error", "failrun", "finalize"}
Execs == [at : Places, todo : SUBSET Snapshots, job : Snapshots \cup {NoJob},
          run : 0 .. MaxRuns, seen : SUBSET [id : RunIds, session : BOOLEAN],
          blocked : BOOLEAN]
Resting == [at |-> "idle", todo |-> {}, job |-> NoJob, run |-> 0, seen |-> {},
            blocked |-> FALSE]

TaskTypeOK ==
  /\ tasks \in [Tasks -> TaskRows]
  /\ runs \in [RunIds -> Runs]
  /\ lastRun \in 0 .. MaxRuns
  /\ exec \in [Executors -> Execs]
  /\ life \in [RunIds -> {"none", "posted", "active", "gone"}]
  /\ recording \subseteq RunIds /\ ended \subseteq RunIds
  /\ taskCrashes \in 0 .. MaxTaskCrashes
  /\ stolen \subseteq Tasks

TaskInit ==
  /\ tasks = [t \in Tasks |-> NoRow]
  /\ runs = [i \in RunIds |-> NoRun]
  /\ lastRun = 0
  /\ exec = [e \in Executors |-> Resting]
  /\ life = [i \in RunIds |-> "none"]
  /\ recording = {} /\ ended = {}
  /\ taskCrashes = 0
  /\ stolen = {}

-----------------------------------------------------------------------------
(* Users: the CLI and the buttons of /tasks *)

\* createScheduledTask
Create(t, kind) ==
  /\ tasks[t].status = "none" /\ tasks[t].occ = 0
  /\ tasks' = [tasks EXCEPT ![t] = [NoRow EXCEPT !.status = "planned", !.kind = kind, !.occ = 1]]
  /\ UNCHANGED <<ledger, exec, sessions, history>>

\* updateScheduledTask: only a planned row; a new schedule is a new occurrence.
Edit(t, kind, reschedule) ==
  /\ tasks[t].status = "planned"
  /\ tasks[t].version < MaxEdits
  /\ reschedule \/ kind = tasks[t].kind
  /\ tasks' = [tasks EXCEPT ![t].version = @ + 1, ![t].kind = kind,
                            ![t].due = IF reschedule THEN FALSE ELSE @,
                            ![t].occ = IF reschedule THEN @ + 1 ELSE @]
  /\ UNCHANGED <<ledger, exec, sessions, history>>

\* cancelScheduledTask
Cancel(t) ==
  /\ tasks[t].status \in {"planned", "running"}
  /\ tasks' = [tasks EXCEPT ![t].status = "cancelled", ![t].stale = FALSE]
  /\ UNCHANGED <<ledger, exec, sessions, history>>

SnapshotOf(t) == [task |-> t, kind |-> tasks[t].kind, version |-> tasks[t].version]

\* runScheduledTaskNow reads the row, due or not, and processes it.
PressRunNow(b, t) ==
  /\ exec[b].at = "idle"
  /\ tasks[t].status = "planned"
  /\ tasks[t].occ <= MaxOcc
  /\ exec' = [exec EXCEPT ![b].at = "batch", ![b].todo = {SnapshotOf(t)}]
  /\ UNCHANGED <<tasks, ledger, sessions, history>>

-----------------------------------------------------------------------------
(* The poller's tick *)

\* Between the claim and the write that ends it.
Working(e) == exec[e].at \notin {"idle", "scan", "batch", "failrun"}

\* Mutant: a claim is never given up.
NoClaimIsStale == {}

StaleClaims == {t \in Tasks : tasks[t].status = "running" /\ tasks[t].stale}

\* recoverStaleRunningScheduledTasks
TickRecovers ==
  LET lost == StaleClaims
  IN  /\ exec[Poller].at = "idle"
      /\ tasks' = [t \in Tasks |-> IF t \in lost
                     THEN [tasks[t] EXCEPT !.status = "planned", !.stale = FALSE] ELSE tasks[t]]
      /\ stolen' = stolen \cup {t \in lost : \E e \in Executors :
                                   Working(e) /\ exec[e].job.task = t}
      /\ exec' = [exec EXCEPT ![Poller].at = "scan"]
      /\ UNCHANGED <<ledger, sessions, taskCrashes>>

\* getDuePlannedScheduledTasks
TickScans ==
  /\ exec[Poller].at = "scan"
  /\ exec' = [exec EXCEPT ![Poller].at = "batch", ![Poller].todo =
                {SnapshotOf(t) : t \in {u \in Tasks : tasks[u].status = "planned" /\ tasks[u].due}}]
  /\ UNCHANGED <<tasks, ledger, sessions, history>>

BatchDone(e) ==
  /\ exec[e].at = "batch" /\ exec[e].todo = {}
  /\ exec' = [exec EXCEPT ![e] = Resting]
  /\ UNCHANGED <<tasks, ledger, sessions, history>>

-----------------------------------------------------------------------------
(* processDueTask: claim and concurrency check *)

\* Mutant: the claim is not guarded on the row being planned.
ClaimableAnyStatus(t) == tasks[t].status # "none"

\* claimScheduledTaskRunning
Claimable(t) == tasks[t].status = "planned"

Claim(e) ==
  /\ exec[e].at = "batch"
  /\ \E x \in exec[e].todo :
       \/ /\ Claimable(x.task)
          /\ tasks' = [tasks EXCEPT ![x.task].status = "running", ![x.task].stale = FALSE]
          /\ exec' = [exec EXCEPT ![e] =
               [Resting EXCEPT !.at = IF x.task \in Parallel THEN "begin" ELSE "read",
                               !.todo = exec[e].todo \ {x}, !.job = x]]
       \/ /\ ~ Claimable(x.task)
          /\ exec' = [exec EXCEPT ![e].todo = @ \ {x}]
          /\ UNCHANGED tasks
  /\ UNCHANGED <<ledger, sessions, history>>

\* The executor turns to the next row of its batch.
NextOfBatch(e) == exec' = [exec EXCEPT ![e] = [Resting EXCEPT !.at = "batch", !.todo = exec[e].todo]]

\* releaseScheduledTaskClaim
Release(t) ==
  tasks' = [tasks EXCEPT ![t].status = IF @ = "running" THEN "planned" ELSE @,
                         ![t].stale = IF tasks[t].status = "running" THEN FALSE ELSE @]

\* Mutant: a run whose session is not known yet does not count.
ActiveStarted(t) == {i \in RunIds : runs[i].task = t /\ runs[i].status = "running"}

\* getActiveScheduledTaskRuns
ActiveRuns(t) ==
  {i \in RunIds : runs[i].task = t /\ runs[i].status \in {"pending", "running"}}

ReadRuns(e) ==
  /\ exec[e].at = "read"
  /\ exec' = [exec EXCEPT ![e].at = "check", ![e].seen =
                {[id |-> i, session |-> runs[i].session] : i \in ActiveRuns(exec[e].job.task)}]
  /\ UNCHANGED <<tasks, ledger, sessions, history>>

\* An unguarded update of a run row, if it still exists.
SetRun(i, status) ==
  runs' = [runs EXCEPT ![i].status = IF @ = "none" THEN @ ELSE status]

\* hasRunningSession, one run: without session it is active until it is old;
\* with one the server is asked, which may also call it busy because a user
\* went on with it, or not list it yet.
CheckRun(e) ==
  /\ exec[e].at = "check"
  /\ \E x \in exec[e].seen :
       LET i == x.id
           Active == /\ exec' = [exec EXCEPT ![e].seen = @ \ {x}, ![e].blocked = TRUE]
                     /\ UNCHANGED runs
           GivenUp(how) == /\ exec' = [exec EXCEPT ![e].seen = @ \ {x}]
                           /\ SetRun(i, how)
       IN  \/ ~ x.session /\ ~ runs[i].old /\ Active
           \/ ~ x.session /\ runs[i].old /\ GivenUp("failed")
           \/ x.session /\ Active
           \/ x.session /\ life[i] # "active" /\ GivenUp("completed")
  /\ UNCHANGED <<tasks, lastRun, sessions, history>>

\* The server cannot be asked, or an earlier occurrence of a one-shot task is
\* still running: the claim is given back.
GiveBack(e) ==
  /\ exec[e].at = "check"
  /\ \/ \E x \in exec[e].seen : x.session
     \/ exec[e].seen = {} /\ exec[e].blocked /\ exec[e].job.kind = "at"
  /\ Release(exec[e].job.task)
  /\ NextOfBatch(e)
  /\ UNCHANGED <<ledger, sessions, history>>

\* No run left to check: a cron occurrence that is blocked is skipped.
CheckDone(e) ==
  /\ exec[e].at = "check" /\ exec[e].seen = {}
  /\ \/ ~ exec[e].blocked /\ exec' = [exec EXCEPT ![e].at = "begin"]
     \/ /\ exec[e].blocked /\ exec[e].job.kind = "cron"
        /\ exec' = [exec EXCEPT ![e].at = "finalize"]
  /\ UNCHANGED <<tasks, ledger, sessions, history>>

-----------------------------------------------------------------------------
(* processDueTask: execution *)

\* createScheduledTaskRun, for a cron task that still exists.
Begin(e) ==
  LET t == exec[e].job.task
  IN  /\ exec[e].at = "begin"
      /\ lastRun < MaxRuns
      /\ exec[e].job.kind = "cron" => tasks[t].status # "none"
      /\ lastRun' = lastRun + 1
      /\ runs' = [runs EXCEPT ![lastRun + 1] =
           [NoRun EXCEPT !.task = t, !.occ = tasks[t].occ,
                         !.status = IF exec[e].job.kind = "cron" THEN "pending" ELSE "none"]]
      /\ exec' = [exec EXCEPT ![e].at = "execute", ![e].run = lastRun + 1]
      /\ UNCHANGED <<tasks, sessions, history>>

\* The row was deleted meanwhile: its foreign key refuses the run, and the
\* exception ends the tick with what is left of the batch.
BeginThrows(e) ==
  /\ exec[e].at = "begin"
  /\ exec[e].job.kind = "cron" /\ tasks[exec[e].job.task].status = "none"
  /\ exec' = [exec EXCEPT ![e] = Resting]
  /\ UNCHANGED <<tasks, ledger, sessions, history>>

\* executeScheduledTask: the pre-run command, then the message.
ConditionNotMet(e) ==
  /\ exec[e].at = "execute"
  /\ exec' = [exec EXCEPT ![e].at = "skip"]
  /\ UNCHANGED <<tasks, ledger, sessions, history>>

Post(e) == life' = [life EXCEPT ![exec[e].run] = "posted"]

ExecuteSucceeds(e) ==
  /\ exec[e].at = "execute"
  /\ Post(e)
  /\ exec' = [exec EXCEPT ![e].at = "finalize"]
  /\ UNCHANGED <<tasks, ledger, recording, ended, history>>

\* Nothing was posted, or a step after the post failed: the response is lost,
\* or the user cannot be added to the thread.
ExecuteFails(e) ==
  /\ exec[e].at = "execute"
  /\ Post(e) \/ UNCHANGED life
  /\ exec' = [exec EXCEPT ![e].at = "error"]
  /\ UNCHANGED <<tasks, ledger, recording, ended, history>>

-----------------------------------------------------------------------------
(* processDueTask: the ends *)

\* The task is deleted, and its runs with it (onDelete: cascade).
DeleteTask(t) ==
  /\ tasks' = [tasks EXCEPT ![t] = [NoRow EXCEPT !.occ = tasks[t].occ]]
  /\ runs' = [i \in RunIds |->
                IF runs[i].task = t THEN [runs[i] EXCEPT !.status = "none"] ELSE runs[i]]

\* An update by id: nothing happens when the row is gone.
SetTask(t, status) ==
  /\ tasks' = IF tasks[t].status = "none" THEN tasks
              ELSE [tasks EXCEPT ![t].status = status, ![t].stale = FALSE,
                                 ![t].due = IF status = "planned" THEN FALSE ELSE @,
                                 ![t].occ = IF status = "planned" THEN @ + 1 ELSE @]
  /\ UNCHANGED runs

SkipRun(e) ==
  /\ exec[e].at = "skip"
  /\ SetRun(exec[e].run, "skipped")
  /\ exec' = [exec EXCEPT ![e].at = "finalize"]
  /\ UNCHANGED <<tasks, lastRun, sessions, history>>

\* finalizeSuccessfulTask, by the kind the executor read.
FinalizeSuccessful(e) ==
  LET x == exec[e].job
  IN  /\ exec[e].at = "finalize"
      /\ IF x.kind = "at" THEN DeleteTask(x.task) ELSE SetTask(x.task, "planned")
      /\ NextOfBatch(e)
      /\ UNCHANGED <<lastRun, sessions, history>>

\* finalizeFailedTask: cron tasks wait for their next time.
FinalizeFailed(e) ==
  LET x == exec[e].job
  IN  /\ exec[e].at = "error"
      /\ SetTask(x.task, IF x.kind = "cron" THEN "planned" ELSE "failed")
      /\ exec' = [exec EXCEPT ![e].at = "failrun"]
      /\ UNCHANGED <<lastRun, sessions, history>>

FailRun(e) ==
  /\ exec[e].at = "failrun"
  /\ SetRun(exec[e].run, "failed")
  /\ NextOfBatch(e)
  /\ UNCHANGED <<tasks, lastRun, sessions, history>>

-----------------------------------------------------------------------------
(* The message's session *)

\* The handler prompts a session.  The opencode queue path records it on the
\* run; the omo path does not.
IngressPrompts(i) ==
  /\ life[i] = "posted"
  /\ life' = [life EXCEPT ![i] = "active"]
  /\ recording' = IF OmoRpc THEN recording ELSE recording \cup {i}
  /\ UNCHANGED <<tasks, ledger, exec, ended, history>>

\* startScheduledTaskRunSession
RecordSession(i) ==
  runs' = [runs EXCEPT ![i].status = IF @ = "pending" THEN "running" ELSE @,
                       ![i].session = @ \/ runs[i].status = "pending"]

IngressRecords(i) ==
  /\ i \in recording
  /\ recording' = recording \ {i}
  /\ RecordSession(i)
  /\ UNCHANGED <<tasks, lastRun, exec, life, ended, history>>

LoseMessage(i) ==
  /\ life[i] = "posted"
  /\ life' = [life EXCEPT ![i] = "gone"]
  /\ UNCHANGED <<tasks, ledger, exec, recording, ended, history>>

\* The event of the end may be lost: the listener was reconnecting.
SessionEnds(i, seen) ==
  /\ life[i] = "active"
  /\ life' = [life EXCEPT ![i] = "gone"]
  /\ ended' = IF seen THEN ended \cup {i} ELSE ended
  /\ UNCHANGED <<tasks, ledger, exec, recording, history>>

\* completeScheduledTaskRunsForSession on session.idle, or the same with failed
\* on session.error, after what ingress had in hand.
SessionEndHandled(i, how) ==
  /\ i \in ended \ recording
  /\ ended' = ended \ {i}
  /\ runs' = [runs EXCEPT ![i].status =
                IF runs[i].session /\ @ \in {"pending", "running"} THEN how ELSE @]
  /\ UNCHANGED <<tasks, lastRun, exec, life, recording, history>>

-----------------------------------------------------------------------------
(* Time and restarts *)

TimeComes(t) ==
  /\ tasks[t].status = "planned" /\ ~ tasks[t].due
  /\ tasks[t].occ <= MaxOcc + tasks[t].version
  /\ tasks' = [tasks EXCEPT ![t].due = TRUE]
  /\ UNCHANGED <<ledger, exec, sessions, history>>

ClaimGetsStale(t) ==
  /\ tasks[t].status = "running" /\ ~ tasks[t].stale
  /\ tasks' = [tasks EXCEPT ![t].stale = TRUE]
  /\ UNCHANGED <<ledger, exec, sessions, history>>

RunGetsOld(i) ==
  /\ ~ runs[i].old
  /\ \/ runs[i].status \in {"pending", "running"}
     \/ \E e \in Executors : \E x \in exec[e].seen : x.id = i
  /\ runs' = [runs EXCEPT ![i].old = TRUE]
  /\ UNCHANGED <<tasks, lastRun, exec, sessions, history>>

TaskCrash ==
  /\ taskCrashes < MaxTaskCrashes
  /\ taskCrashes' = taskCrashes + 1
  /\ exec' = [e \in Executors |-> Resting]
  /\ recording' = {}
  /\ ended' = {}
  /\ UNCHANGED <<tasks, ledger, life, stolen>>

-----------------------------------------------------------------------------

ExecutorStep(e) ==
  \/ Claim(e) \/ ReadRuns(e) \/ CheckRun(e) \/ GiveBack(e) \/ CheckDone(e)
  \/ Begin(e) \/ BeginThrows(e)
  \/ ConditionNotMet(e) \/ ExecuteSucceeds(e) \/ ExecuteFails(e)
  \/ SkipRun(e) \/ FinalizeSuccessful(e) \/ FinalizeFailed(e) \/ FailRun(e)
  \/ BatchDone(e)

PollerStep == TickRecovers \/ TickScans \/ ExecutorStep(Poller)

TaskNext ==
  \/ \E t \in Tasks, kind \in Kinds : Create(t, kind)
  \/ \E t \in Tasks, kind \in Kinds, reschedule \in BOOLEAN : Edit(t, kind, reschedule)
  \/ \E t \in Tasks : Cancel(t) \/ TimeComes(t) \/ ClaimGetsStale(t)
  \/ \E b \in Buttons : ExecutorStep(b) \/ \E t \in Tasks : PressRunNow(b, t)
  \/ PollerStep
  \/ \E i \in RunIds : \/ IngressPrompts(i) \/ IngressRecords(i) \/ LoseMessage(i)
                       \/ RunGetsOld(i) \/ \E seen \in BOOLEAN : SessionEnds(i, seen)
  \/ \E i \in RunIds, how \in {"completed", "failed"} : SessionEndHandled(i, how)
  \/ TaskCrash

TaskSpec == TaskInit /\ [][TaskNext]_taskVars

\* The interval timer ticks forever and the awaits of a tick return (a pre-run
\* command terminates); the clock moves.
TaskFairness ==
  /\ WF_taskVars(PollerStep)
  /\ \A t \in Tasks : WF_taskVars(ClaimGetsStale(t))

TaskFairSpec == TaskSpec /\ TaskFairness

-----------------------------------------------------------------------------
(* Properties *)

WorksOn(e, t) == Working(e) /\ exec[e].job.task = t

\* As long as no claim was recovered from under a working executor, a task has
\* one executor, however Run now, the poller's old batch, edits and
\* cancellations interleave.
OneExecutor ==
  \A t \in Tasks \ stolen : \A d, e \in Executors : WorksOn(d, t) /\ WorksOn(e, t) => d = e

\* An occurrence of a schedule posts its message once, unless the process died
\* or the claim was recovered while it was being executed.
OccurrencePostedOnce ==
  taskCrashes = 0 =>
    \A i, j \in {k \in RunIds : life[k] # "none"} :
      /\ runs[i].task = runs[j].task /\ runs[i].occ = runs[j].occ
      /\ runs[i].task \notin stolen
      => i = j

\* Two sessions of one task run at the same time only if the ledger does not
\* count one of the two runs as active: it was written off, or never a row.
OverlapIsWrittenOff ==
  \A i, j \in RunIds :
    /\ i # j /\ life[i] = "active" /\ life[j] = "active"
    /\ runs[i].task = runs[j].task
    /\ runs[i].task \notin Parallel \cup stolen
    => \E k \in {i, j} : runs[k].status \notin {"pending", "running"}

\* No task stays claimed for ever: not after a crash, an exception, or a button
\* whose executor never comes back.
ClaimsAreReturned ==
  \A t \in Tasks : tasks[t].status = "running" ~> tasks[t].status # "running"

-----------------------------------------------------------------------------
(* What the documentation and the messages of the CLI say *)

\* kimaki task delete: "Cancelled task": a cancelled task is not planned again.
CancelledStaysCancelled ==
  [][\A t \in Tasks :
       tasks[t].status = "cancelled" => tasks'[t].status \in {"cancelled", "none"}]_taskVars

=============================================================================
