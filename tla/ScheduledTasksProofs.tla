------------------------ MODULE ScheduledTasksProofs ------------------------
(***************************************************************************)
(* ScheduledTasks for every number of tasks, buttons, executions, edits    *)
(* and restarts: its types, that a task has one executor as long as no     *)
(* claim was recovered from under a working one, that an occurrence posts  *)
(* its message once, and that the ledger counts one active run of a task.  *)
(*                                                                         *)
(* OneExecutor is not inductive: that two executors never work on a task   *)
(* now says nothing about who may still claim it.  What keeps a second one *)
(* out is the row: while an executor works on a task, its row is not       *)
(* planned, and is no row that createScheduledTask could fill anew.        *)
(*                                                                         *)
(* OccurrencePostedOnce needs to know where an occurrence stands whose     *)
(* message is out: the row went on to the next one, or its executor is     *)
(* about to move it on, or it can never be claimed again (OccsSpent).      *)
(*                                                                         *)
(* OverlapIsWrittenOff follows from a stronger fact about the ledger alone *)
(* (OneActiveRun), which needs that nobody adds a run between the          *)
(* executor's look at the active runs and its own run (SeenAll).           *)
(***************************************************************************)
EXTENDS ScheduledTasks, TLAPS

\* Who has claimed a row knows which.
JobsKnown == \A e \in Executors :
  exec[e].at \notin {"idle", "scan", "batch"} => exec[e].job \in Snapshots

\* A row that exists has an occurrence.
RowsOccur == \A t \in Tasks : tasks[t].status # "none" => tasks[t].occ # 0

\* A row that is worked on cannot be claimed, nor created again.
WorkedOnIsTaken ==
  \A t \in Tasks \ stolen, e \in Executors :
    WorksOn(e, t) => tasks[t].status # "planned" /\ tasks[t].occ # 0

Typed == TaskTypeOK /\ JobsKnown
IInv == Typed /\ RowsOccur /\ WorkedOnIsTaken /\ OneExecutor

-----------------------------------------------------------------------------
(* Types *)

LEMMA InitTyped ==
  ASSUME TaskInit
  PROVE  Typed
  BY TaskAssumption
     DEF TaskInit, Typed, TaskTypeOK, JobsKnown, NoRow, TaskRows, Kinds, NoRun, Runs, RunIds, Resting,
         Execs, Places, NoJob

LEMMA Constants ==
  /\ MaxRuns \in Nat /\ MaxEdits \in Nat /\ MaxTaskCrashes \in Nat
  /\ NoRow \in TaskRows /\ NoRun \in Runs /\ Resting \in Execs
  BY TaskAssumption
     DEF NoRow, TaskRows, Kinds, NoRun, Runs, Resting, Execs, Places

\* An executor that goes on, knowing its job, keeps the types.
LEMMA ExecTyped ==
  ASSUME Typed, NEW e \in Executors, NEW x \in Execs,
         x.at \notin {"idle", "scan", "batch"} => x.job \in Snapshots,
         exec' = [exec EXCEPT ![e] = x]
  PROVE  exec' \in [Executors -> Execs] /\ JobsKnown'
  BY DEF Typed, TaskTypeOK, JobsKnown

LEMMA AtTyped ==
  ASSUME Typed, NEW e \in Executors, NEW p \in Places,
         p \notin {"idle", "scan", "batch"} => exec[e].job \in Snapshots,
         exec' = [exec EXCEPT ![e].at = p]
  PROVE  exec' \in [Executors -> Execs] /\ JobsKnown'
  BY DEF Typed, TaskTypeOK, JobsKnown, Execs

LEMMA NextOfBatchTyped ==
  ASSUME Typed, NEW e \in Executors, NextOfBatch(e)
  PROVE  exec' \in [Executors -> Execs] /\ JobsKnown'
  <1> DEFINE x == [Resting EXCEPT !.at = "batch", !.todo = exec[e].todo]
  <1>1. exec[e].todo \in SUBSET Snapshots
    BY DEF Typed, TaskTypeOK, Execs
  <1>2. x \in Execs /\ x.at = "batch"
    BY <1>1, Constants DEF Execs, Places
  <1> QED BY <1>2, ExecTyped DEF NextOfBatch

LEMMA RestingTyped ==
  ASSUME Typed, NEW e \in Executors, exec' = [exec EXCEPT ![e] = Resting]
  PROVE  exec' \in [Executors -> Execs] /\ JobsKnown'
  <1>1. Resting \in Execs /\ Resting.at = "idle"
    BY Constants DEF Resting
  <1> QED BY <1>1, ExecTyped

\* A row or a run overwritten by one keeps the types.
LEMMA RowTyped ==
  ASSUME Typed, NEW t \in Tasks, NEW row \in TaskRows, tasks' = [tasks EXCEPT ![t] = row]
  PROVE  tasks' \in [Tasks -> TaskRows]
  BY DEF Typed, TaskTypeOK

LEMMA SetRunTyped ==
  ASSUME Typed, NEW i, NEW status \in {"completed", "skipped", "failed"}, SetRun(i, status)
  PROVE  runs' \in [RunIds -> Runs]
  <1> DEFINE s == IF runs[i].status = "none" THEN runs[i].status ELSE status
  <1>1. runs' = [runs EXCEPT ![i].status = s]
    BY DEF SetRun
  <1>2. i \in RunIds
          => s \in {"none", "pending", "running", "completed", "skipped", "failed"}
    BY DEF Typed, TaskTypeOK, Runs
  <1> HIDE DEF s
  <1>3. CASE i \in RunIds
    BY <1>1, <1>2, <1>3 DEF Typed, TaskTypeOK, Runs
  <1>4. CASE i \notin RunIds
    BY <1>1, <1>4 DEF Typed, TaskTypeOK
  <1> QED BY <1>3, <1>4

LEMMA SetTaskTyped ==
  ASSUME Typed, NEW t \in Tasks, NEW status \in {"planned", "failed"}, SetTask(t, status)
  PROVE  tasks' \in [Tasks -> TaskRows] /\ runs' \in [RunIds -> Runs]
  <1>1. CASE tasks[t].status = "none"
    BY <1>1 DEF Typed, TaskTypeOK, SetTask
  <1>2. CASE tasks[t].status # "none"
    <2> DEFINE due == IF status = "planned" THEN FALSE ELSE tasks[t].due
               occ == IF status = "planned" THEN tasks[t].occ + 1 ELSE tasks[t].occ
    <2>1. /\ tasks' = [tasks EXCEPT ![t].status = status, ![t].stale = FALSE,
                                    ![t].due = due, ![t].occ = occ]
          /\ runs' = runs
      BY <1>2 DEF SetTask
    <2>2. tasks \in [Tasks -> TaskRows] /\ runs \in [RunIds -> Runs]
      BY DEF Typed, TaskTypeOK
    <2>3. due \in BOOLEAN
      BY <2>2 DEF TaskRows
    <2>4. occ \in Nat
      BY <2>2 DEF TaskRows
    <2>5. PICK d \in BOOLEAN, o \in Nat :
            tasks' = [tasks EXCEPT ![t].status = status, ![t].stale = FALSE,
                                   ![t].due = d, ![t].occ = o]
      BY <2>1, <2>3, <2>4
    <2> DEFINE row == [tasks[t] EXCEPT !.status = status, !.stale = FALSE, !.due = d, !.occ = o]
    <2>6. row \in TaskRows
      BY <2>2 DEF TaskRows
    <2>7. tasks' = [tasks EXCEPT ![t] = row]
      BY <2>2, <2>5
    <2> QED BY <2>1, <2>2, <2>6, <2>7, RowTyped
  <1> QED BY <1>1, <1>2

LEMMA DeleteTaskTyped ==
  ASSUME Typed, NEW t \in Tasks, DeleteTask(t)
  PROVE  tasks' \in [Tasks -> TaskRows] /\ runs' \in [RunIds -> Runs]
  <1>1. [NoRow EXCEPT !.occ = tasks[t].occ] \in TaskRows
    BY Constants DEF Typed, TaskTypeOK, TaskRows
  <1>2. tasks' \in [Tasks -> TaskRows]
    BY <1>1, RowTyped DEF DeleteTask
  <1>3. \A i \in RunIds : [runs[i] EXCEPT !.status = "none"] \in Runs /\ runs[i] \in Runs
    BY DEF Typed, TaskTypeOK, Runs
  <1> QED BY <1>2, <1>3 DEF DeleteTask

LEMMA ReleaseTyped ==
  ASSUME Typed, NEW t \in Tasks, Release(t)
  PROVE  tasks' \in [Tasks -> TaskRows]
  <1> DEFINE status == IF tasks[t].status = "running" THEN "planned" ELSE tasks[t].status
             stale == IF tasks[t].status = "running" THEN FALSE ELSE tasks[t].stale
  <1>1. tasks' = [tasks EXCEPT ![t].status = status, ![t].stale = stale]
    BY DEF Release
  <1>2. tasks \in [Tasks -> TaskRows]
    BY DEF Typed, TaskTypeOK
  <1>3. status \in {"none", "planned", "running", "cancelled", "failed"} /\ stale \in BOOLEAN
    BY <1>2 DEF TaskRows
  <1>4. PICK u \in {"none", "planned", "running", "cancelled", "failed"}, f \in BOOLEAN :
          tasks' = [tasks EXCEPT ![t].status = u, ![t].stale = f]
    BY <1>1, <1>3
  <1> QED BY <1>2, <1>4 DEF TaskRows

LEMMA UsersTyped ==
  ASSUME Typed, NEW t \in Tasks,
         \/ \E kind \in Kinds : Create(t, kind)
         \/ \E kind \in Kinds, reschedule \in BOOLEAN : Edit(t, kind, reschedule)
         \/ Cancel(t) \/ TimeComes(t) \/ ClaimGetsStale(t)
  PROVE  Typed'
  <1> USE DEF Typed, TaskTypeOK, JobsKnown, ledger, sessions, history
  <1>1. ASSUME NEW kind \in Kinds, Create(t, kind) PROVE Typed'
    <2>1. [NoRow EXCEPT !.status = "planned", !.kind = kind, !.occ = 1] \in TaskRows
      BY Constants DEF TaskRows
    <2>2. tasks' \in [Tasks -> TaskRows]
      BY <1>1, <2>1, RowTyped DEF Create
    <2> QED BY <1>1, <2>2 DEF Create
  <1>2. ASSUME NEW kind \in Kinds, NEW reschedule \in BOOLEAN, Edit(t, kind, reschedule)
        PROVE  Typed'
    <2> DEFINE due == IF reschedule THEN FALSE ELSE tasks[t].due
               occ == IF reschedule THEN tasks[t].occ + 1 ELSE tasks[t].occ
    <2>1. tasks' = [tasks EXCEPT ![t].version = tasks[t].version + 1, ![t].kind = kind,
                                 ![t].due = due, ![t].occ = occ]
      BY <1>2 DEF Edit
    <2>2. tasks \in [Tasks -> TaskRows] /\ tasks[t].version < MaxEdits /\ MaxEdits \in Nat
      BY <1>2, Constants DEF Edit
    <2>3. due \in BOOLEAN
      BY <2>2 DEF TaskRows
    <2>4. occ \in Nat
      BY <2>2 DEF TaskRows
    <2>5. tasks[t].version + 1 \in 0 .. MaxEdits
      BY <2>2 DEF TaskRows
    <2>6. PICK d \in BOOLEAN, o \in Nat, v \in 0 .. MaxEdits :
            tasks' = [tasks EXCEPT ![t].version = v, ![t].kind = kind,
                                   ![t].due = d, ![t].occ = o]
      BY <2>1, <2>3, <2>4, <2>5
    <2> DEFINE row == [tasks[t] EXCEPT !.version = v, !.kind = kind, !.due = d, !.occ = o]
    <2>7. row \in TaskRows
      BY <2>2 DEF TaskRows
    <2>8. tasks' = [tasks EXCEPT ![t] = row]
      BY <2>2, <2>6
    <2>9. tasks' \in [Tasks -> TaskRows]
      BY <2>7, <2>8, RowTyped
    <2> QED BY <1>2, <2>9 DEF Edit
  <1>3. CASE Cancel(t)
    <2>1. [tasks[t] EXCEPT !.status = "cancelled", !.stale = FALSE] \in TaskRows
      BY DEF TaskRows
    <2>2. tasks' = [tasks EXCEPT ![t] = [tasks[t] EXCEPT !.status = "cancelled", !.stale = FALSE]]
      BY <1>3 DEF Cancel
    <2>3. tasks' \in [Tasks -> TaskRows]
      BY <2>1, <2>2, RowTyped
    <2> QED BY <1>3, <2>3 DEF Cancel
  <1>4. CASE TimeComes(t)
    <2>1. [tasks[t] EXCEPT !.due = TRUE] \in TaskRows
      BY DEF TaskRows
    <2>2. tasks' = [tasks EXCEPT ![t] = [tasks[t] EXCEPT !.due = TRUE]]
      BY <1>4 DEF TimeComes
    <2>3. tasks' \in [Tasks -> TaskRows]
      BY <2>1, <2>2, RowTyped
    <2> QED BY <1>4, <2>3 DEF TimeComes
  <1>5. CASE ClaimGetsStale(t)
    <2>1. [tasks[t] EXCEPT !.stale = TRUE] \in TaskRows
      BY DEF TaskRows
    <2>2. tasks' = [tasks EXCEPT ![t] = [tasks[t] EXCEPT !.stale = TRUE]]
      BY <1>5 DEF ClaimGetsStale
    <2>3. tasks' \in [Tasks -> TaskRows]
      BY <2>1, <2>2, RowTyped
    <2> QED BY <1>5, <2>3 DEF ClaimGetsStale
  <1> QED BY <1>1, <1>2, <1>3, <1>4, <1>5

LEMMA SnapshotTyped ==
  ASSUME Typed, NEW t \in Tasks
  PROVE  SnapshotOf(t) \in Snapshots
  BY DEF Typed, TaskTypeOK, TaskRows, SnapshotOf, Snapshots

LEMMA BatchTyped ==
  ASSUME Typed, NEW e \in Executors, NEW todo \in SUBSET Snapshots,
         exec' = [exec EXCEPT ![e].at = "batch", ![e].todo = todo]
  PROVE  exec' \in [Executors -> Execs] /\ JobsKnown'
  <1> DEFINE x == [exec[e] EXCEPT !.at = "batch", !.todo = todo]
  <1>1. exec \in [Executors -> Execs]
    BY DEF Typed, TaskTypeOK
  <1>2. x \in Execs /\ x.at = "batch"
    BY <1>1 DEF Execs, Places
  <1>3. exec' = [exec EXCEPT ![e] = x]
    BY <1>1
  <1> QED BY <1>2, <1>3, ExecTyped

LEMMA PressTyped ==
  ASSUME Typed, NEW b \in Buttons, NEW t \in Tasks, PressRunNow(b, t)
  PROVE  Typed'
  <1>1. {SnapshotOf(t)} \in SUBSET Snapshots /\ b \in Executors
    BY SnapshotTyped DEF Executors
  <1>2. exec' \in [Executors -> Execs] /\ JobsKnown'
    BY <1>1, BatchTyped DEF PressRunNow
  <1> QED BY <1>2 DEF PressRunNow, Typed, TaskTypeOK, ledger, sessions, history

LEMMA TickTyped ==
  ASSUME Typed, TickRecovers \/ TickScans
  PROVE  Typed'
  <1> USE DEF ledger, sessions, history
  <1>1. Poller \in Executors
    BY DEF Executors
  <1>2. CASE TickRecovers
    <2>1. exec' \in [Executors -> Execs] /\ JobsKnown'
      BY <1>1, <1>2, AtTyped DEF TickRecovers, Places
    <2>2. tasks \in [Tasks -> TaskRows]
      BY DEF Typed, TaskTypeOK
    <2>3. \A t \in Tasks : [tasks[t] EXCEPT !.status = "planned", !.stale = FALSE] \in TaskRows
      BY <2>2 DEF TaskRows
    <2>4. tasks' \in [Tasks -> TaskRows]
      BY <1>2, <2>2, <2>3 DEF TickRecovers
    <2>5. stolen' \subseteq Tasks
      BY <1>2 DEF TickRecovers, Typed, TaskTypeOK, StaleClaims
    <2> QED BY <1>2, <2>1, <2>4, <2>5 DEF TickRecovers, Typed, TaskTypeOK
  <1>3. CASE TickScans
    <2>1. {SnapshotOf(t) : t \in {u \in Tasks : tasks[u].status = "planned" /\ tasks[u].due}}
            \in SUBSET Snapshots
      BY SnapshotTyped
    <2>2. exec' \in [Executors -> Execs] /\ JobsKnown'
      BY <1>1, <1>3, <2>1, BatchTyped DEF TickScans
    <2> QED BY <1>3, <2>2 DEF TickScans, Typed, TaskTypeOK
  <1> QED BY <1>2, <1>3

LEMMA SessionsTyped ==
  ASSUME Typed, NEW i \in RunIds,
         \/ IngressPrompts(i) \/ IngressRecords(i) \/ LoseMessage(i) \/ RunGetsOld(i)
         \/ \E seen \in BOOLEAN : SessionEnds(i, seen)
         \/ \E how \in {"completed", "failed"} : SessionEndHandled(i, how)
  PROVE  Typed'
  <1> USE DEF Typed, TaskTypeOK, JobsKnown, ledger, sessions, history
  <1>1. CASE IngressPrompts(i)
    BY <1>1 DEF IngressPrompts
  <1>2. CASE IngressRecords(i)
    <2>1. runs \in [RunIds -> Runs] /\ runs'  = [runs EXCEPT
             ![i].status = IF runs[i].status = "pending" THEN "running" ELSE runs[i].status,
             ![i].session = runs[i].session \/ runs[i].status = "pending"]
      BY <1>2 DEF IngressRecords, RecordSession
    <2>2. PICK u \in {"none", "pending", "running", "completed", "skipped", "failed"},
               f \in BOOLEAN :
            runs' = [runs EXCEPT ![i].status = u, ![i].session = f]
      BY <2>1 DEF Runs
    <2>3. [runs[i] EXCEPT !.status = u, !.session = f] \in Runs
      BY <2>1 DEF Runs
    <2>4. runs' \in [RunIds -> Runs]
      BY <2>1, <2>2, <2>3
    <2> QED BY <1>2, <2>4 DEF IngressRecords
  <1>3. CASE LoseMessage(i)
    BY <1>3 DEF LoseMessage
  <1>4. CASE RunGetsOld(i)
    <2>1. runs' = [runs EXCEPT ![i].old = TRUE]
      BY <1>4 DEF RunGetsOld
    <2>2. [runs[i] EXCEPT !.old = TRUE] \in Runs
      BY DEF Runs
    <2>3. runs' \in [RunIds -> Runs]
      BY <2>1, <2>2
    <2> QED BY <1>4, <2>3 DEF RunGetsOld
  <1>5. ASSUME NEW seen \in BOOLEAN, SessionEnds(i, seen) PROVE Typed'
    BY <1>5 DEF SessionEnds
  <1>6. ASSUME NEW how \in {"completed", "failed"}, SessionEndHandled(i, how) PROVE Typed'
    <2>1. PICK u \in {"none", "pending", "running", "completed", "skipped", "failed"} :
            runs' = [runs EXCEPT ![i].status = u]
      BY <1>6 DEF SessionEndHandled, Runs
    <2>2. runs' \in [RunIds -> Runs]
      BY <2>1 DEF Runs
    <2> QED BY <1>6, <2>2 DEF SessionEndHandled
  <1> QED BY <1>1, <1>2, <1>3, <1>4, <1>5, <1>6

LEMMA CrashTyped ==
  ASSUME Typed, TaskCrash
  PROVE  Typed'
  BY Constants DEF Typed, TaskTypeOK, JobsKnown, TaskCrash, ledger, Resting

\* The job of an executor past its claim, or about to make one.
LEMMA ClaimTyped ==
  ASSUME Typed, NEW e \in Executors, Claim(e)
  PROVE  Typed'
  <1> USE DEF ledger, sessions, history
  <1>1. exec \in [Executors -> Execs] /\ exec[e].todo \in SUBSET Snapshots
    BY DEF Typed, TaskTypeOK, Execs
  <1>2. PICK x \in exec[e].todo :
       \/ /\ tasks' = [tasks EXCEPT ![x.task].status = "running", ![x.task].stale = FALSE]
          /\ exec' = [exec EXCEPT ![e] =
               [Resting EXCEPT !.at = IF x.task \in Parallel THEN "begin" ELSE "read",
                               !.todo = exec[e].todo \ {x}, !.job = x]]
       \/ /\ exec' = [exec EXCEPT ![e].todo = exec[e].todo \ {x}]
          /\ UNCHANGED tasks
    BY DEF Claim
  <1>3. x \in Snapshots /\ x.task \in Tasks
    BY <1>1, <1>2 DEF Snapshots
  <1>4. CASE /\ tasks' = [tasks EXCEPT ![x.task].status = "running", ![x.task].stale = FALSE]
             /\ exec' = [exec EXCEPT ![e] =
                  [Resting EXCEPT !.at = IF x.task \in Parallel THEN "begin" ELSE "read",
                                  !.todo = exec[e].todo \ {x}, !.job = x]]
    <2>1. PICK p \in {"begin", "read"} : exec' = [exec EXCEPT ![e] =
                  [Resting EXCEPT !.at = p, !.todo = exec[e].todo \ {x}, !.job = x]]
      BY <1>4
    <2> DEFINE y == [Resting EXCEPT !.at = p, !.todo = exec[e].todo \ {x}, !.job = x]
    <2>2. y \in Execs /\ y.job = x
      BY <1>1, <1>3, <2>1, Constants DEF Execs, Places
    <2>3. exec' \in [Executors -> Execs] /\ JobsKnown'
      BY <1>3, <2>1, <2>2, ExecTyped
    <2>4. tasks \in [Tasks -> TaskRows]
      BY DEF Typed, TaskTypeOK
    <2> DEFINE row == [tasks[x.task] EXCEPT !.status = "running", !.stale = FALSE]
    <2>5. row \in TaskRows
      BY <1>3, <2>4 DEF TaskRows
    <2>6. tasks' = [tasks EXCEPT ![x.task] = row]
      BY <1>3, <1>4, <2>4
    <2>7. tasks' \in [Tasks -> TaskRows]
      BY <1>3, <2>5, <2>6, RowTyped
    <2> QED BY <2>3, <2>7 DEF Claim, Typed, TaskTypeOK
  <1>5. CASE exec' = [exec EXCEPT ![e].todo = exec[e].todo \ {x}] /\ UNCHANGED tasks
    <2> DEFINE y == [exec[e] EXCEPT !.todo = exec[e].todo \ {x}]
    <2>1. y \in Execs /\ y.at = "batch"
      BY <1>1 DEF Execs, Claim
    <2>2. exec' = [exec EXCEPT ![e] = y]
      BY <1>1, <1>5
    <2>3. exec' \in [Executors -> Execs] /\ JobsKnown'
      BY <2>1, <2>2, ExecTyped
    <2> QED BY <1>5, <2>3 DEF Claim, Typed, TaskTypeOK
  <1> QED BY <1>2, <1>4, <1>5

\* Reading and checking the runs of earlier occurrences.
LEMMA CheckTyped ==
  ASSUME Typed, NEW e \in Executors, ReadRuns(e) \/ CheckRun(e) \/ GiveBack(e) \/ CheckDone(e)
  PROVE  Typed'
  <1> USE DEF ledger, sessions, history
  <1>1. /\ exec \in [Executors -> Execs] /\ exec[e] \in Execs
        /\ exec[e].job \in Snapshots /\ exec[e].job.task \in Tasks
    BY DEF Typed, TaskTypeOK, JobsKnown, ReadRuns, CheckRun, GiveBack, CheckDone, Snapshots
  <1>2. CASE ReadRuns(e)
    <2> DEFINE seen == {[id |-> i, session |-> runs[i].session] : i \in ActiveRuns(exec[e].job.task)}
               y == [exec[e] EXCEPT !.at = "check", !.seen = seen]
    <2>1. seen \in SUBSET [id : RunIds, session : BOOLEAN]
      BY DEF Typed, TaskTypeOK, ActiveRuns, Runs
    <2>2. y \in Execs /\ y.job = exec[e].job
      BY <1>1, <2>1 DEF Execs, Places
    <2>3. exec' = [exec EXCEPT ![e] = y]
      BY <1>1, <1>2 DEF ReadRuns
    <2>4. exec' \in [Executors -> Execs] /\ JobsKnown'
      BY <1>1, <2>2, <2>3, ExecTyped
    <2> QED BY <1>2, <2>4 DEF ReadRuns, Typed, TaskTypeOK
  <1>3. CASE CheckRun(e)
    <2>1. PICK x \in exec[e].seen, blocked \in BOOLEAN :
            exec' = [exec EXCEPT ![e].seen = exec[e].seen \ {x}, ![e].blocked = blocked]
      <3>1. PICK x \in exec[e].seen :
              \/ exec' = [exec EXCEPT ![e].seen = exec[e].seen \ {x}, ![e].blocked = TRUE]
              \/ exec' = [exec EXCEPT ![e].seen = exec[e].seen \ {x}]
        BY <1>3 DEF CheckRun
      <3>2. CASE exec' = [exec EXCEPT ![e].seen = exec[e].seen \ {x}, ![e].blocked = TRUE]
        BY <3>1, <3>2
      <3>3. CASE exec' = [exec EXCEPT ![e].seen = exec[e].seen \ {x}]
        <4>1. exec[e].blocked \in BOOLEAN
          BY <1>1 DEF Execs
        <4>2. exec' = [exec EXCEPT ![e].seen = exec[e].seen \ {x}, ![e].blocked = exec[e].blocked]
          BY <1>1, <3>3 DEF Execs
        <4> QED BY <3>1, <4>1, <4>2
      <3> QED BY <3>1, <3>2, <3>3
    <2> DEFINE y == [exec[e] EXCEPT !.seen = exec[e].seen \ {x}, !.blocked = blocked]
    <2>2. y \in Execs /\ y.job = exec[e].job
      BY <1>1 DEF Execs
    <2>3. exec' = [exec EXCEPT ![e] = y]
      BY <1>1, <2>1
    <2>4. exec' \in [Executors -> Execs] /\ JobsKnown'
      BY <1>1, <2>2, <2>3, ExecTyped
    <2>5. runs' = runs \/ \E i \in RunIds, how \in {"failed", "completed"} : SetRun(i, how)
      BY <1>1, <1>3 DEF CheckRun, Execs
    <2>6. runs' \in [RunIds -> Runs]
      BY <2>5, SetRunTyped DEF Typed, TaskTypeOK
    <2> QED BY <1>3, <2>4, <2>6 DEF CheckRun, Typed, TaskTypeOK
  <1>4. CASE GiveBack(e)
    BY <1>1, <1>4, ReleaseTyped, NextOfBatchTyped DEF GiveBack, Typed, TaskTypeOK
  <1>5. CASE CheckDone(e)
    <2>1. \E p \in {"begin", "finalize"} : exec' = [exec EXCEPT ![e].at = p]
      BY <1>5 DEF CheckDone
    <2>2. exec' \in [Executors -> Execs] /\ JobsKnown'
      BY <1>1, <2>1, AtTyped DEF Places
    <2> QED BY <1>5, <2>2 DEF CheckDone, Typed, TaskTypeOK
  <1> QED BY <1>2, <1>3, <1>4, <1>5

LEMMA ExecuteTyped ==
  ASSUME Typed, NEW e \in Executors,
         \/ Begin(e) \/ BeginThrows(e) \/ ConditionNotMet(e)
         \/ ExecuteSucceeds(e) \/ ExecuteFails(e)
  PROVE  Typed'
  <1> USE DEF ledger, sessions, history
  <1>1. /\ exec \in [Executors -> Execs] /\ exec[e] \in Execs
        /\ exec[e].job \in Snapshots /\ exec[e].job.task \in Tasks
    BY DEF Typed, TaskTypeOK, JobsKnown, Begin, BeginThrows, ConditionNotMet, ExecuteSucceeds,
           ExecuteFails, Snapshots
  <1>2. CASE Begin(e)
    <2> DEFINE t == exec[e].job.task
               y == [exec[e] EXCEPT !.at = "execute", !.run = lastRun + 1]
    <2>1. lastRun + 1 \in 0 .. MaxRuns
      BY <1>2, Constants DEF Begin, Typed, TaskTypeOK
    <2>2. y \in Execs /\ y.job = exec[e].job
      BY <1>1, <2>1 DEF Execs, Places
    <2>3. exec' = [exec EXCEPT ![e] = y]
      BY <1>1, <1>2 DEF Begin
    <2>4. exec' \in [Executors -> Execs] /\ JobsKnown'
      BY <1>1, <2>2, <2>3, ExecTyped
    <2>5. PICK u \in {"pending", "none"} : runs' = [runs EXCEPT ![lastRun + 1] =
             [NoRun EXCEPT !.task = t, !.occ = tasks[t].occ, !.status = u]]
      BY <1>2 DEF Begin
    <2>6. tasks[t].occ \in Nat
      BY <1>1 DEF Typed, TaskTypeOK, TaskRows
    <2>7. [NoRun EXCEPT !.task = t, !.occ = tasks[t].occ, !.status = u] \in Runs
      BY <1>1, <2>5, <2>6, Constants DEF Runs
    <2>8. runs' \in [RunIds -> Runs]
      BY <2>5, <2>7 DEF Typed, TaskTypeOK
    <2> QED BY <1>2, <2>1, <2>4, <2>8 DEF Begin, Typed, TaskTypeOK
  <1>3. CASE BeginThrows(e)
    BY <1>3, RestingTyped DEF BeginThrows, Typed, TaskTypeOK
  <1>4. CASE ConditionNotMet(e)
    <2>1. exec' \in [Executors -> Execs] /\ JobsKnown'
      BY <1>1, <1>4, AtTyped DEF ConditionNotMet, Places
    <2> QED BY <1>4, <2>1 DEF ConditionNotMet, Typed, TaskTypeOK
  <1>5. CASE ExecuteSucceeds(e) \/ ExecuteFails(e)
    <2>1. exec' \in [Executors -> Execs] /\ JobsKnown'
      BY <1>1, <1>5, AtTyped DEF ExecuteSucceeds, ExecuteFails, Places
    <2>2. life' \in [RunIds -> {"none", "posted", "active", "gone"}]
      BY <1>5 DEF ExecuteSucceeds, ExecuteFails, Post, Typed, TaskTypeOK
    <2> QED BY <1>5, <2>1, <2>2 DEF ExecuteSucceeds, ExecuteFails, Typed, TaskTypeOK
  <1> QED BY <1>2, <1>3, <1>4, <1>5

LEMMA EndsTyped ==
  ASSUME Typed, NEW e \in Executors,
         \/ SkipRun(e) \/ FinalizeSuccessful(e) \/ FinalizeFailed(e) \/ FailRun(e)
         \/ BatchDone(e)
  PROVE  Typed'
  <1> USE DEF ledger, sessions, history
  <1>1. exec[e].at # "batch" => exec[e].job \in Snapshots /\ exec[e].job.task \in Tasks
    BY DEF Typed, TaskTypeOK, JobsKnown, SkipRun, FinalizeSuccessful, FinalizeFailed, FailRun,
           BatchDone, Snapshots
  <1>2. CASE SkipRun(e)
    <2>1. exec' \in [Executors -> Execs] /\ JobsKnown'
      BY <1>1, <1>2, AtTyped DEF SkipRun, Places
    <2> QED BY <1>2, <2>1, SetRunTyped DEF SkipRun, Typed, TaskTypeOK
  <1>3. CASE FinalizeSuccessful(e)
    BY <1>1, <1>3, NextOfBatchTyped, DeleteTaskTyped, SetTaskTyped
       DEF FinalizeSuccessful, Typed, TaskTypeOK
  <1>4. CASE FinalizeFailed(e)
    <2>1. exec' \in [Executors -> Execs] /\ JobsKnown'
      BY <1>1, <1>4, AtTyped DEF FinalizeFailed, Places
    <2>2. tasks' \in [Tasks -> TaskRows] /\ runs' \in [RunIds -> Runs]
      BY <1>1, <1>4, SetTaskTyped DEF FinalizeFailed
    <2> QED BY <1>4, <2>1, <2>2 DEF FinalizeFailed, Typed, TaskTypeOK
  <1>5. CASE FailRun(e)
    BY <1>5, NextOfBatchTyped, SetRunTyped DEF FailRun, Typed, TaskTypeOK
  <1>6. CASE BatchDone(e)
    BY <1>6, RestingTyped DEF BatchDone, Typed, TaskTypeOK
  <1> QED BY <1>2, <1>3, <1>4, <1>5, <1>6

LEMMA NextTyped ==
  ASSUME Typed, [TaskNext]_taskVars
  PROVE  Typed'
  <1>1. CASE UNCHANGED taskVars
    BY <1>1 DEF taskVars, ledger, sessions, history, Typed, TaskTypeOK, JobsKnown
  <1>2. ASSUME NEW e \in Executors, ExecutorStep(e) PROVE Typed'
    BY <1>2, ClaimTyped, CheckTyped, ExecuteTyped, EndsTyped DEF ExecutorStep
  <1>3. CASE TaskNext
    BY <1>2, <1>3, UsersTyped, PressTyped, TickTyped, SessionsTyped, CrashTyped
       DEF TaskNext, PollerStep, Executors
  <1> QED BY <1>1, <1>3

-----------------------------------------------------------------------------
(* One executor *)

Taken(t) == tasks[t].status # "planned" /\ tasks[t].occ # 0

\* Nobody starts to work on another task.
NobodyStarts ==
  \A d \in Executors : Working(d)' => Working(d) /\ exec'[d].job = exec[d].job

\* Only the row of this task is written, and that leaves an occurrence in it.
WritesOnly(t) ==
  /\ \A u \in Tasks \ {t} : tasks'[u] = tasks[u]
  /\ tasks'[t].status # "none" => tasks'[t].occ # 0

\* A step that starts nobody and returns no row that is still worked on.
LEMMA NobodyStartsKeeps ==
  ASSUME WorkedOnIsTaken, OneExecutor, NobodyStarts, stolen \subseteq stolen',
         \A t \in Tasks \ stolen', d \in Executors : WorksOn(d, t)' /\ Taken(t) => Taken(t)'
  PROVE  WorkedOnIsTaken' /\ OneExecutor'
  <1>1. \A t \in Tasks, d \in Executors : WorksOn(d, t)' => WorksOn(d, t)
    BY DEF NobodyStarts, WorksOn
  <1>2. OneExecutor'
    BY <1>1 DEF OneExecutor
  <1>3. WorkedOnIsTaken'
    BY <1>1 DEF WorkedOnIsTaken, Taken
  <1> QED BY <1>2, <1>3

\* A step of everyone but the executors: the rows may change as long as those
\* worked on stay taken.
LEMMA ExecutorsRest ==
  ASSUME WorkedOnIsTaken, OneExecutor, exec' = exec, stolen' = stolen,
         \A t \in Tasks : Taken(t) => Taken(t)'
  PROVE  WorkedOnIsTaken' /\ OneExecutor'
  <1>1. NobodyStarts
    BY DEF NobodyStarts, Working
  <1> QED BY <1>1, NobodyStartsKeeps

\* An executor that goes on without writing a row.
LEMMA OneGoesOn ==
  ASSUME IInv, NEW e \in Executors, tasks' = tasks, stolen' = stolen,
         \A d \in Executors \ {e} : exec'[d] = exec[d],
         Working(e)' => Working(e) /\ exec'[e].job = exec[e].job
  PROVE  RowsOccur' /\ WorkedOnIsTaken' /\ OneExecutor'
  <1>1. NobodyStarts
    BY DEF NobodyStarts, Working
  <1> QED BY <1>1, NobodyStartsKeeps DEF IInv, RowsOccur, Taken

\* An executor that gives up its claim may leave any occurrence in the row:
\* nobody else works on it.
LEMMA OneStops ==
  ASSUME IInv, NEW e \in Executors, Working(e), ~ Working(e)', stolen' = stolen,
         WritesOnly(exec[e].job.task),
         \A d \in Executors \ {e} : exec'[d] = exec[d]
  PROVE  RowsOccur' /\ WorkedOnIsTaken' /\ OneExecutor'
  <1>1. NobodyStarts
    BY DEF NobodyStarts, Working
  <1>2. ASSUME NEW t \in Tasks \ stolen, NEW d \in Executors, WorksOn(d, t)'
        PROVE  d # e /\ WorksOn(d, t)
    BY <1>2 DEF WorksOn, Working
  <1>3. ASSUME NEW t \in Tasks \ stolen, NEW d \in Executors, WorksOn(d, t)', Taken(t)
        PROVE  Taken(t)'
    <2>1. t # exec[e].job.task
      BY <1>2, <1>3 DEF IInv, OneExecutor, WorksOn
    <2> QED BY <1>3, <2>1 DEF WritesOnly, Taken
  <1>4. RowsOccur'
    BY DEF IInv, RowsOccur, WritesOnly
  <1> QED BY <1>1, <1>3, <1>4, NobodyStartsKeeps DEF IInv

LEMMA NextOfBatchStops ==
  ASSUME Typed, NEW e \in Executors, NextOfBatch(e)
  PROVE  ~ Working(e)' /\ \A d \in Executors \ {e} : exec'[d] = exec[d]
  BY DEF Typed, TaskTypeOK, NextOfBatch, Working, Resting

LEMMA EndsWriteOnly ==
  ASSUME IInv, NEW t \in Tasks,
         \/ Release(t) \/ DeleteTask(t)
         \/ \E status \in {"planned", "failed"} : SetTask(t, status)
  PROVE  WritesOnly(t)
  <1>1. tasks \in [Tasks -> TaskRows] /\ tasks[t].occ \in Nat
    BY DEF IInv, Typed, TaskTypeOK, TaskRows
  <1>2. tasks[t].status # "none" => tasks[t].occ # 0
    BY DEF IInv, RowsOccur
  <1>3. CASE Release(t)
    BY <1>1, <1>2, <1>3 DEF Release, WritesOnly
  <1>4. CASE DeleteTask(t)
    BY <1>1, <1>4 DEF DeleteTask, WritesOnly, NoRow
  <1>5. ASSUME NEW status \in {"planned", "failed"}, SetTask(t, status) PROVE WritesOnly(t)
    <2>1. CASE tasks[t].status = "none"
      BY <1>2, <1>5, <2>1 DEF SetTask, WritesOnly
    <2>2. CASE tasks[t].status # "none"
      <3>1. tasks' = [tasks EXCEPT ![t].status = status, ![t].stale = FALSE,
                         ![t].due = IF status = "planned" THEN FALSE ELSE tasks[t].due,
                         ![t].occ = IF status = "planned" THEN tasks[t].occ + 1 ELSE tasks[t].occ]
        BY <1>5, <2>2 DEF SetTask
      <3>2. tasks'[t].occ \in {tasks[t].occ, tasks[t].occ + 1}
        BY <1>1, <3>1
      <3>3. tasks'[t].occ # 0
        BY <1>1, <1>2, <2>2, <3>2
      <3>4. \A u \in Tasks \ {t} : tasks'[u] = tasks[u]
        BY <1>1, <3>1
      <3> QED BY <3>3, <3>4 DEF WritesOnly
    <2> QED BY <2>1, <2>2
  <1> QED BY <1>3, <1>4, <1>5

LEMMA UsersKeepOne ==
  ASSUME IInv, NEW t \in Tasks,
         \/ \E kind \in Kinds : Create(t, kind)
         \/ \E kind \in Kinds, reschedule \in BOOLEAN : Edit(t, kind, reschedule)
         \/ Cancel(t) \/ TimeComes(t) \/ ClaimGetsStale(t)
  PROVE  RowsOccur' /\ WorkedOnIsTaken' /\ OneExecutor'
  <1>1. tasks \in [Tasks -> TaskRows] /\ tasks[t].occ \in Nat
    BY DEF IInv, Typed, TaskTypeOK, TaskRows
  <1>2. tasks[t].status # "none" => tasks[t].occ # 0
    BY DEF IInv, RowsOccur
  <1>3. \A u \in Tasks \ {t} : tasks'[u] = tasks[u]
    BY <1>1 DEF Create, Edit, Cancel, TimeComes, ClaimGetsStale
  <1>4. tasks'[t].occ # 0 /\ (Taken(t) => Taken(t)')
    <2>1. ASSUME NEW kind \in Kinds, Create(t, kind) PROVE tasks'[t].occ # 0 /\ ~ Taken(t)
      <3>1. tasks'[t].occ = 1 /\ tasks[t].occ = 0
        BY <1>1, <2>1 DEF Create, NoRow
      <3> QED BY <3>1 DEF Taken
    <2>2. ASSUME NEW kind \in Kinds, NEW reschedule \in BOOLEAN, Edit(t, kind, reschedule)
          PROVE  tasks'[t].occ # 0 /\ ~ Taken(t)
      <3>1. tasks'[t].occ \in {tasks[t].occ, tasks[t].occ + 1} /\ tasks[t].status = "planned"
        BY <1>1, <2>2 DEF Edit, TaskRows
      <3> QED BY <1>1, <1>2, <3>1 DEF Taken
    <2>3. CASE Cancel(t)
      BY <1>1, <1>2, <2>3 DEF Cancel, Taken
    <2>4. CASE TimeComes(t) \/ ClaimGetsStale(t)
      BY <1>1, <1>2, <2>4 DEF TimeComes, ClaimGetsStale, Taken, TaskRows
    <2> QED BY <2>1, <2>2, <2>3, <2>4
  <1>5. exec' = exec /\ stolen' = stolen
    BY DEF Create, Edit, Cancel, TimeComes, ClaimGetsStale, history
  <1>6. \A u \in Tasks : Taken(u) => Taken(u)'
    BY <1>3, <1>4 DEF Taken
  <1>7. RowsOccur'
    BY <1>3, <1>4 DEF IInv, RowsOccur
  <1> QED BY <1>5, <1>6, <1>7, ExecutorsRest DEF IInv

\* The one step that puts an executor to work finds the row planned: so nobody
\* was working on it.
LEMMA ClaimKeepsOne ==
  ASSUME IInv, NEW e \in Executors, Claim(e)
  PROVE  RowsOccur' /\ WorkedOnIsTaken' /\ OneExecutor'
  <1>1. /\ exec \in [Executors -> Execs] /\ exec[e].todo \in SUBSET Snapshots
        /\ tasks \in [Tasks -> TaskRows] /\ stolen' = stolen
    BY DEF IInv, Typed, TaskTypeOK, Execs, Claim, history
  <1>2. PICK x \in exec[e].todo :
       \/ /\ Claimable(x.task)
          /\ tasks' = [tasks EXCEPT ![x.task].status = "running", ![x.task].stale = FALSE]
          /\ exec' = [exec EXCEPT ![e] =
               [Resting EXCEPT !.at = IF x.task \in Parallel THEN "begin" ELSE "read",
                               !.todo = exec[e].todo \ {x}, !.job = x]]
       \/ /\ exec' = [exec EXCEPT ![e].todo = exec[e].todo \ {x}]
          /\ UNCHANGED tasks
    BY DEF Claim
  <1>3. x.task \in Tasks
    BY <1>1, <1>2 DEF Snapshots
  <1>4. CASE exec' = [exec EXCEPT ![e].todo = exec[e].todo \ {x}] /\ UNCHANGED tasks
    <2>1. /\ \A d \in Executors \ {e} : exec'[d] = exec[d]
          /\ exec'[e].at = "batch"
      BY <1>1, <1>4 DEF Claim
    <2> QED BY <1>1, <1>4, <2>1, OneGoesOn DEF Working
  <1>5. CASE /\ Claimable(x.task)
             /\ tasks' = [tasks EXCEPT ![x.task].status = "running", ![x.task].stale = FALSE]
             /\ exec' = [exec EXCEPT ![e] =
                  [Resting EXCEPT !.at = IF x.task \in Parallel THEN "begin" ELSE "read",
                                  !.todo = exec[e].todo \ {x}, !.job = x]]
    <2>1. /\ tasks'[x.task].status = "running" /\ tasks'[x.task].occ = tasks[x.task].occ
          /\ \A u \in Tasks \ {x.task} : tasks'[u] = tasks[u]
      BY <1>1, <1>3, <1>5
    <2>2. tasks[x.task].status = "planned" /\ tasks[x.task].occ # 0
      BY <1>3, <1>5 DEF Claimable, IInv, RowsOccur
    <2>3. /\ exec'[e].job = x
          /\ \A d \in Executors \ {e} : exec'[d] = exec[d]
      BY <1>1, <1>5 DEF Resting
    <2>4. \A d \in Executors : x.task \notin stolen => ~ WorksOn(d, x.task)
      BY <1>3, <2>2 DEF IInv, WorkedOnIsTaken
    <2>5. ASSUME NEW t \in Tasks \ stolen, NEW d \in Executors, WorksOn(d, t)'
          PROVE  \/ d = e /\ t = x.task
                 \/ d # e /\ t # x.task /\ WorksOn(d, t)
      BY <2>3, <2>4, <2>5 DEF WorksOn, Working
    <2>6. OneExecutor'
      BY <1>1, <2>5 DEF IInv, OneExecutor
    <2>7. WorkedOnIsTaken'
      BY <1>1, <2>1, <2>2, <2>5 DEF IInv, WorkedOnIsTaken
    <2>8. RowsOccur'
      BY <2>1, <2>2 DEF IInv, RowsOccur
    <2> QED BY <2>6, <2>7, <2>8
  <1> QED BY <1>2, <1>4, <1>5

\* Recovery puts the tasks it takes from a working executor on record.
LEMMA TickKeepsOne ==
  ASSUME IInv, TickRecovers \/ TickScans
  PROVE  RowsOccur' /\ WorkedOnIsTaken' /\ OneExecutor'
  <1>1. Poller \in Executors /\ exec \in [Executors -> Execs] /\ tasks \in [Tasks -> TaskRows]
    BY DEF Executors, IInv, Typed, TaskTypeOK
  <1>2. CASE TickRecovers
    <2>1. \A d \in Executors \ {Poller} : exec'[d] = exec[d]
      BY <1>1, <1>2 DEF TickRecovers
    <2>2. exec'[Poller].at = "scan"
      BY <1>1, <1>2 DEF TickRecovers, Execs
    <2>3. NobodyStarts
      BY <2>1, <2>2 DEF NobodyStarts, Working
    <2>4. stolen \subseteq stolen'
      BY <1>2 DEF TickRecovers
    <2>5. \A t \in Tasks : /\ tasks'[t].occ = tasks[t].occ
                           /\ tasks'[t].status = tasks[t].status \/ t \in StaleClaims
      BY <1>1, <1>2 DEF TickRecovers, TaskRows
    <2>6. \A t \in Tasks : tasks'[t].status = "none" <=> tasks[t].status = "none"
      BY <1>1, <1>2 DEF TickRecovers, StaleClaims, TaskRows
    <2>7. ASSUME NEW t \in Tasks \ stolen', NEW d \in Executors, WorksOn(d, t)', Taken(t)
          PROVE  Taken(t)'
      <3>1. WorksOn(d, t)
        BY <2>3, <2>7 DEF NobodyStarts, WorksOn
      <3>2. t \notin StaleClaims
        BY <1>2, <2>7, <3>1 DEF TickRecovers, WorksOn
      <3> QED BY <2>5, <2>7, <3>2 DEF Taken
    <2>8. RowsOccur'
      BY <2>5, <2>6 DEF IInv, RowsOccur
    <2> QED BY <2>3, <2>4, <2>7, <2>8, NobodyStartsKeeps DEF IInv
  <1>3. CASE TickScans
    <2>1. exec'[Poller].at = "batch" /\ \A d \in Executors \ {Poller} : exec'[d] = exec[d]
      BY <1>1, <1>3 DEF TickScans
    <2> QED BY <1>1, <1>3, <2>1, OneGoesOn DEF TickScans, Working, history
  <1> QED BY <1>2, <1>3

\* What an executor does on its way, and at its ends.
LEMMA ExecutorKeepsOne ==
  ASSUME IInv, NEW e \in Executors, ExecutorStep(e)
  PROVE  RowsOccur' /\ WorkedOnIsTaken' /\ OneExecutor'
  <1> USE DEF history
  <1>1. exec \in [Executors -> Execs] /\ Typed
    BY DEF IInv, Typed, TaskTypeOK
  <1>2. Working(e) => exec[e].job.task \in Tasks
    BY DEF IInv, Typed, JobsKnown, Working, Snapshots
  <1>3. CASE Claim(e)
    BY <1>3, ClaimKeepsOne
  <1>4. CASE \/ ReadRuns(e) \/ CheckRun(e) \/ CheckDone(e)
             \/ Begin(e) \/ ConditionNotMet(e) \/ ExecuteSucceeds(e) \/ ExecuteFails(e)
             \/ SkipRun(e)
    <2>1. tasks' = tasks /\ stolen' = stolen
      BY <1>4 DEF ReadRuns, CheckRun, CheckDone, Begin, ConditionNotMet,
                  ExecuteSucceeds, ExecuteFails, SkipRun
    <2>2. exec[e] \in Execs
      BY <1>1
    <2>3. /\ \A d \in Executors \ {e} : exec'[d] = exec[d]
          /\ exec'[e].job = exec[e].job
      <3>1. CASE ReadRuns(e)
        BY <1>1, <2>2, <3>1 DEF ReadRuns, Execs
      <3>2. CASE CheckRun(e)
        <4>1. PICK x \in exec[e].seen :
                \/ exec' = [exec EXCEPT ![e].seen = exec[e].seen \ {x}, ![e].blocked = TRUE]
                \/ exec' = [exec EXCEPT ![e].seen = exec[e].seen \ {x}]
          BY <3>2 DEF CheckRun
        <4> QED BY <1>1, <2>2, <4>1 DEF Execs
      <3>3. CASE CheckDone(e) \/ Begin(e)
        BY <1>1, <2>2, <3>3 DEF CheckDone, Begin, Execs
      <3>4. CASE \/ ConditionNotMet(e) \/ ExecuteSucceeds(e) \/ ExecuteFails(e)
                 \/ SkipRun(e)
        BY <1>1, <2>2, <3>4 DEF ConditionNotMet, ExecuteSucceeds, ExecuteFails, SkipRun, Execs
      <3> QED BY <1>4, <3>1, <3>2, <3>3, <3>4
    <2>4. Working(e)
      BY <1>4 DEF ReadRuns, CheckRun, CheckDone, Begin, ConditionNotMet, ExecuteSucceeds,
                  ExecuteFails, SkipRun, Working
    <2> QED BY <2>1, <2>3, <2>4, OneGoesOn
  <1>5. CASE BeginThrows(e) \/ FailRun(e) \/ BatchDone(e)
    <2>1. tasks' = tasks /\ stolen' = stolen /\ \A d \in Executors \ {e} : exec'[d] = exec[d]
      BY <1>1, <1>5, NextOfBatchStops DEF BeginThrows, FailRun, BatchDone
    <2>2. ~ Working(e)'
      BY <1>1, <1>5, NextOfBatchStops DEF BeginThrows, FailRun, BatchDone, Working, Resting
    <2> QED BY <2>1, <2>2, OneGoesOn
  <1>6. CASE GiveBack(e) \/ FinalizeSuccessful(e)
    <2>1. Working(e) /\ stolen' = stolen
      BY <1>6 DEF GiveBack, FinalizeSuccessful, Working
    <2>2. WritesOnly(exec[e].job.task)
      BY <1>2, <1>6, <2>1, EndsWriteOnly DEF GiveBack, FinalizeSuccessful
    <2>3. ~ Working(e)' /\ \A d \in Executors \ {e} : exec'[d] = exec[d]
      BY <1>1, <1>6, NextOfBatchStops DEF GiveBack, FinalizeSuccessful
    <2> QED BY <2>1, <2>2, <2>3, OneStops
  <1>7. CASE FinalizeFailed(e)
    <2>1. Working(e) /\ stolen' = stolen
      BY <1>7 DEF FinalizeFailed, Working
    <2>2. WritesOnly(exec[e].job.task)
      BY <1>2, <1>7, <2>1, EndsWriteOnly DEF FinalizeFailed
    <2>3. ~ Working(e)' /\ \A d \in Executors \ {e} : exec'[d] = exec[d]
      BY <1>1, <1>7 DEF FinalizeFailed, Working, Execs
    <2> QED BY <2>1, <2>2, <2>3, OneStops
  <1> QED BY <1>3, <1>4, <1>5, <1>6, <1>7 DEF ExecutorStep

LEMMA OthersKeepOne ==
  ASSUME IInv,
         \/ UNCHANGED taskVars
         \/ \E b \in Buttons, t \in Tasks : PressRunNow(b, t)
         \/ \E i \in RunIds : \/ IngressPrompts(i) \/ IngressRecords(i) \/ LoseMessage(i)
                              \/ RunGetsOld(i) \/ \E seen \in BOOLEAN : SessionEnds(i, seen)
         \/ \E i \in RunIds, how \in {"completed", "failed"} : SessionEndHandled(i, how)
         \/ TaskCrash
  PROVE  RowsOccur' /\ WorkedOnIsTaken' /\ OneExecutor'
  <1> USE DEF history
  <1>1. tasks' = tasks /\ stolen' = stolen
    BY DEF taskVars, PressRunNow, IngressPrompts, IngressRecords, LoseMessage, RunGetsOld,
           SessionEnds, SessionEndHandled, TaskCrash
  <1>2. NobodyStarts
    <2>1. ASSUME NEW b \in Buttons, NEW t \in Tasks, PressRunNow(b, t) PROVE NobodyStarts
      <3>1. b \in Executors /\ exec \in [Executors -> Execs]
        BY DEF Executors, IInv, Typed, TaskTypeOK
      <3>2. exec'[b].at = "batch" /\ \A d \in Executors \ {b} : exec'[d] = exec[d]
        BY <2>1, <3>1 DEF PressRunNow, Execs
      <3> QED BY <3>2 DEF NobodyStarts, Working
    <2>2. CASE TaskCrash
      BY <2>2 DEF TaskCrash, NobodyStarts, Working, Resting
    <2>3. CASE exec' = exec
      BY <2>3 DEF NobodyStarts, Working
    <2> QED BY <2>1, <2>2, <2>3 DEF taskVars, IngressPrompts, IngressRecords, LoseMessage,
                                    RunGetsOld, SessionEnds, SessionEndHandled
  <1> QED BY <1>1, <1>2, NobodyStartsKeeps DEF IInv, RowsOccur, Taken

-----------------------------------------------------------------------------

LEMMA Invariance == TaskSpec => []IInv
  <1>1. TaskInit => IInv
    BY InitTyped DEF TaskInit, IInv, RowsOccur, WorkedOnIsTaken, OneExecutor, WorksOn, Working,
                     NoRow, Resting
  <1>2. IInv /\ [TaskNext]_taskVars => IInv'
    <2> SUFFICES ASSUME IInv, [TaskNext]_taskVars PROVE IInv'
      OBVIOUS
    <2>1. Typed'
      BY NextTyped DEF IInv
    <2>2. RowsOccur' /\ WorkedOnIsTaken' /\ OneExecutor'
      BY UsersKeepOne, TickKeepsOne, ExecutorKeepsOne, OthersKeepOne
         DEF TaskNext, PollerStep, Executors
    <2> QED BY <2>1, <2>2 DEF IInv
  <1> QED BY <1>1, <1>2, PTL DEF TaskSpec

\* The tables, the executors and the sessions keep their types.
THEOREM TypeCorrect == TaskSpec => []TaskTypeOK
  <1>1. IInv => TaskTypeOK
    BY DEF IInv, Typed
  <1> QED BY <1>1, Invariance, PTL

\* claimScheduledTaskRunning is what keeps the poller and every Run now button
\* from working on one task together, however many of them there are.
THEOREM OneAtATime == TaskSpec => []OneExecutor
  <1>1. IInv => OneExecutor
    BY DEF IInv
  <1> QED BY <1>1, Invariance, PTL

-----------------------------------------------------------------------------
(* Occurrences and runs *)

Counted == {"pending", "running"}
Posted(i) == life[i] # "none"

\* A message is of an execution that was drawn, of a task; the execution that is about
\* to post is the latest of its row's occurrence.
PostsDrawn ==
  /\ \A i \in RunIds : Posted(i) => i <= lastRun /\ runs[i].task \in Tasks
  /\ \A e \in Executors : exec[e].at = "execute" =>
       /\ exec[e].run \in RunIds /\ exec[e].run <= lastRun
       /\ runs[exec[e].run].task = exec[e].job.task
       /\ exec[e].job.task \notin stolen
            => runs[exec[e].run].occ = tasks[exec[e].job.task].occ

\* The message of the row's occurrence is posted: its executor is about to finalize the
\* row, or did, and left none that is planned or can be cancelled.
Over(t) ==
  \/ \E e \in Executors : WorksOn(e, t) /\ exec[e].at \in {"finalize", "error"}
  \/ /\ \A e \in Executors : ~ WorksOn(e, t)
     /\ tasks[t].status \in {"none", "failed"}
Spent(i) ==
  LET t == runs[i].task
  IN  runs[i].occ < tasks[t].occ \/ (runs[i].occ = tasks[t].occ /\ Over(t))
OccsSpent == taskCrashes = 0 =>
  \A i \in RunIds : Posted(i) /\ runs[i].task \notin stolen => Spent(i)

\* An executor that found no active run in the way has seen them all.
SeenAll == \A e \in Executors : \A t \in Tasks \ (Parallel \cup stolen) : exec[e].job.task = t =>
  /\ exec[e].at = "check" /\ ~ exec[e].blocked =>
       \A i \in ActiveRuns(t) : \E x \in exec[e].seen : x.id = i
  /\ exec[e].at = "begin" => ActiveRuns(t) = {}

\* A task has at most one active run.
OneActiveRun == \A i, j \in RunIds :
  /\ runs[i].task = runs[j].task /\ runs[i].task \notin Parallel \cup stolen
  /\ runs[i].status \in Counted /\ runs[j].status \in Counted
  => i = j

\* What is done to the runs besides creating one: an active run stays or ends.
RunsErode == \A i \in RunIds :
  /\ runs'[i].task = runs[i].task /\ runs'[i].occ = runs[i].occ
  /\ runs'[i].status \in Counted => runs[i].status \in Counted

OthersStep ==
  \/ UNCHANGED taskVars
  \/ \E t \in Tasks : \/ \E kind \in Kinds : Create(t, kind)
                      \/ \E kind \in Kinds, reschedule \in BOOLEAN : Edit(t, kind, reschedule)
                      \/ Cancel(t) \/ TimeComes(t) \/ ClaimGetsStale(t)
  \/ \E b \in Buttons, t \in Tasks : PressRunNow(b, t)
  \/ TickRecovers \/ TickScans
  \/ \E i \in RunIds : \/ IngressPrompts(i) \/ IngressRecords(i) \/ LoseMessage(i)
                       \/ RunGetsOld(i) \/ \E seen \in BOOLEAN : SessionEnds(i, seen)
                       \/ \E how \in {"completed", "failed"} : SessionEndHandled(i, how)
  \/ TaskCrash

LEMMA TaskSteps ==
  ASSUME [TaskNext]_taskVars
  PROVE  OthersStep \/ \E e \in Executors : ExecutorStep(e)
  BY DEF TaskNext, PollerStep, Executors, OthersStep

LEMMA SetRunErodes ==
  ASSUME Typed, NEW i, NEW status \in {"completed", "skipped", "failed"}, SetRun(i, status)
  PROVE  /\ RunsErode
         /\ i \in RunIds => runs'[i].status \notin Counted
  <1> DEFINE s == IF runs[i].status = "none" THEN runs[i].status ELSE status
  <1>1. runs' = [runs EXCEPT ![i].status = s] /\ runs \in [RunIds -> Runs]
    BY DEF SetRun, Typed, TaskTypeOK
  <1>2. s \notin Counted
    BY DEF Counted
  <1> HIDE DEF s
  <1>3. \A k \in RunIds : k # i => runs'[k] = runs[k]
    BY <1>1
  <1>4. i \in RunIds => /\ runs'[i].task = runs[i].task /\ runs'[i].occ = runs[i].occ
                        /\ runs'[i].status = s
    BY <1>1 DEF Runs
  <1> QED BY <1>2, <1>3, <1>4 DEF RunsErode

LEMMA OthersErode ==
  ASSUME Typed, OthersStep
  PROVE  RunsErode
  <1>1. CASE runs' = runs
    BY <1>1 DEF RunsErode
  <1>2. ASSUME NEW i \in RunIds,
               \/ IngressRecords(i) \/ RunGetsOld(i)
               \/ \E how \in {"completed", "failed"} : SessionEndHandled(i, how)
        PROVE  RunsErode
    <2>1. runs \in [RunIds -> Runs] /\ runs[i] \in Runs
      BY DEF Typed, TaskTypeOK
    <2>2. \A k \in RunIds : k # i => runs'[k] = runs[k]
      BY <1>2, <2>1 DEF IngressRecords, RecordSession, RunGetsOld, SessionEndHandled
    <2>3. /\ runs'[i].task = runs[i].task /\ runs'[i].occ = runs[i].occ
          /\ runs'[i].status \in Counted => runs[i].status \in Counted
      <3>1. CASE IngressRecords(i)
        BY <2>1, <3>1 DEF IngressRecords, RecordSession, Runs, Counted
      <3>2. CASE RunGetsOld(i)
        BY <2>1, <3>2 DEF RunGetsOld, Runs
      <3>3. CASE \E how \in {"completed", "failed"} : SessionEndHandled(i, how)
        BY <2>1, <3>3 DEF SessionEndHandled, Runs, Counted
      <3> QED BY <1>2, <3>1, <3>2, <3>3
    <2> QED BY <2>2, <2>3 DEF RunsErode
  <1> QED BY <1>1, <1>2 DEF OthersStep, taskVars, ledger, Create, Edit, Cancel, TimeComes,
             ClaimGetsStale, PressRunNow, TickRecovers, TickScans, IngressPrompts, LoseMessage,
             SessionEnds, TaskCrash

LEMMA ExecutorErodes ==
  ASSUME Typed, NEW e \in Executors, ExecutorStep(e)
  PROVE  RunsErode \/ Begin(e)
  <1>1. CASE runs' = runs
    BY <1>1 DEF RunsErode
  <1>2. ASSUME NEW t, DeleteTask(t)
        PROVE  RunsErode
    <2>1. runs \in [RunIds -> Runs]
      BY DEF Typed, TaskTypeOK
    <2> QED BY <1>2, <2>1 DEF DeleteTask, RunsErode, Runs, Counted
  <1>3. CASE SkipRun(e) \/ FailRun(e)
    BY <1>3, SetRunErodes DEF SkipRun, FailRun
  <1>4. CASE CheckRun(e)
    BY <1>1, <1>4, SetRunErodes DEF CheckRun
  <1>5. CASE FinalizeSuccessful(e) \/ FinalizeFailed(e)
    BY <1>1, <1>2, <1>5 DEF FinalizeSuccessful, FinalizeFailed, SetTask
  <1> QED BY <1>1, <1>3, <1>4, <1>5 DEF ExecutorStep, ledger, Claim, ReadRuns, GiveBack, CheckDone,
             BeginThrows, ConditionNotMet, ExecuteSucceeds, ExecuteFails, BatchDone

\* What a step of others does to an executor
LEMMA OthersExec ==
  ASSUME Typed, OthersStep, NEW d \in Executors
  PROVE  \/ exec'[d] = exec[d]
         \/ /\ exec'[d].at \in {"idle", "scan", "batch"}
            /\ TaskCrash \/ exec[d].at \in {"idle", "scan"}
  <1>1. exec \in [Executors -> Execs] /\ exec[d] \in Execs
    BY DEF Typed, TaskTypeOK
  <1>2. ASSUME NEW b \in Buttons, NEW t \in Tasks, PressRunNow(b, t)
        PROVE  exec'[d] = exec[d] \/ (exec'[d].at = "batch" /\ exec[d].at = "idle")
    BY <1>1, <1>2 DEF PressRunNow, Execs
  <1>3. CASE TickRecovers \/ TickScans
    <2>1. CASE d = Poller
      <3>1. \/ exec' = [exec EXCEPT ![d].at = "scan"] /\ exec[d].at = "idle"
            \/ exec[d].at = "scan" /\ \E todo : exec' = [exec EXCEPT ![d].at = "batch", ![d].todo = todo]
        BY <1>3, <2>1 DEF TickRecovers, TickScans
      <3>2. exec' = [exec EXCEPT ![d].at = "scan"] => exec'[d].at = "scan"
        BY <1>1 DEF Execs
      <3>3. ASSUME NEW todo, exec' = [exec EXCEPT ![d].at = "batch", ![d].todo = todo]
            PROVE  exec'[d].at = "batch"
        BY <1>1, <3>3 DEF Execs
      <3> QED BY <3>1, <3>2, <3>3
    <2>2. CASE d # Poller
      BY <1>1, <1>3, <2>2 DEF TickRecovers, TickScans
    <2> QED BY <2>1, <2>2
  <1>4. CASE TaskCrash
    BY <1>4 DEF TaskCrash, Resting
  <1>5. CASE exec' = exec
    BY <1>5
  <1> QED BY <1>2, <1>3, <1>4, <1>5 DEF OthersStep, taskVars, Create, Edit, Cancel, TimeComes,
             ClaimGetsStale, IngressPrompts, IngressRecords, LoseMessage, RunGetsOld, SessionEnds,
             SessionEndHandled

LEMMA CheckRunExec ==
  ASSUME Typed, NEW e \in Executors, CheckRun(e)
  PROVE  /\ exec'[e].at = "check" /\ exec'[e].job = exec[e].job /\ exec'[e].run = exec[e].run
         /\ \A d \in Executors : d # e => exec'[d] = exec[d]
         /\ ~ exec'[e].blocked =>
              /\ ~ exec[e].blocked
              /\ \E x \in exec[e].seen, how \in {"completed", "failed"} :
                   exec'[e].seen = exec[e].seen \ {x} /\ SetRun(x.id, how)
  <1>1. exec \in [Executors -> Execs] /\ exec[e] \in Execs /\ exec[e].at = "check"
    BY DEF Typed, TaskTypeOK, CheckRun
  <1>2. PICK x \in exec[e].seen :
          \/ exec' = [exec EXCEPT ![e].seen = exec[e].seen \ {x}, ![e].blocked = TRUE]
          \/ /\ exec' = [exec EXCEPT ![e].seen = exec[e].seen \ {x}]
             /\ \E how \in {"completed", "failed"} : SetRun(x.id, how)
    BY DEF CheckRun
  <1>3. CASE exec' = [exec EXCEPT ![e].seen = exec[e].seen \ {x}, ![e].blocked = TRUE]
    BY <1>1, <1>3 DEF Execs
  <1>4. CASE /\ exec' = [exec EXCEPT ![e].seen = exec[e].seen \ {x}]
             /\ \E how \in {"completed", "failed"} : SetRun(x.id, how)
    <2>1. /\ exec'[e].at = "check" /\ exec'[e].job = exec[e].job /\ exec'[e].run = exec[e].run
          /\ exec'[e].seen = exec[e].seen \ {x} /\ exec'[e].blocked = exec[e].blocked
          /\ \A d \in Executors : d # e => exec'[d] = exec[d]
      BY <1>1, <1>4 DEF Execs
    <2> QED BY <1>4, <2>1
  <1> QED BY <1>2, <1>3, <1>4

\* What an executor's step does to it: it gives up its claim, or goes on with the same job.
LEMMA OwnExec ==
  ASSUME Typed, NEW e \in Executors, ExecutorStep(e)
  PROVE  /\ \A d \in Executors : d # e => exec'[d] = exec[d]
         /\ \/ exec'[e].at \in {"idle", "batch", "failrun"}
            \/ /\ Claim(e) /\ exec[e].at = "batch" /\ exec'[e].job.task \in Tasks
               /\ tasks[exec'[e].job.task].status = "planned"
               /\ \/ exec'[e].at = "read"
                  \/ exec'[e].at = "begin" /\ exec'[e].job.task \in Parallel
            \/ /\ exec'[e].job = exec[e].job
               /\ \/ ReadRuns(e) /\ exec'[e].at = "check"
                  \/ CheckRun(e) /\ exec'[e].at = "check"
                  \/ CheckDone(e) /\ exec'[e].at \in {"begin", "finalize"}
                  \/ Begin(e) /\ exec'[e].at = "execute" /\ exec'[e].run = lastRun + 1
                  \/ ConditionNotMet(e) /\ exec'[e].at = "skip"
                  \/ ExecuteSucceeds(e) /\ exec'[e].at = "finalize"
                  \/ ExecuteFails(e) /\ exec'[e].at = "error"
                  \/ SkipRun(e) /\ exec'[e].at = "finalize"
  <1>1. exec \in [Executors -> Execs] /\ exec[e] \in Execs
    BY DEF Typed, TaskTypeOK
  <1>2. CASE Claim(e)
    <2>1. PICK x \in exec[e].todo :
       \/ /\ Claimable(x.task)
          /\ exec' = [exec EXCEPT ![e] =
               [Resting EXCEPT !.at = IF x.task \in Parallel THEN "begin" ELSE "read",
                               !.todo = exec[e].todo \ {x}, !.job = x]]
       \/ exec' = [exec EXCEPT ![e].todo = exec[e].todo \ {x}]
      BY <1>2 DEF Claim
    <2>2. x.task \in Tasks /\ exec[e].at = "batch"
      BY <1>1, <1>2, <2>1 DEF Execs, Snapshots, Claim
    <2>3. CASE exec' = [exec EXCEPT ![e].todo = exec[e].todo \ {x}]
      BY <1>1, <2>2, <2>3 DEF Execs
    <2>4. CASE /\ Claimable(x.task)
               /\ exec' = [exec EXCEPT ![e] =
                    [Resting EXCEPT !.at = IF x.task \in Parallel THEN "begin" ELSE "read",
                                    !.todo = exec[e].todo \ {x}, !.job = x]]
      BY <1>1, <1>2, <2>2, <2>4 DEF Resting, Claimable
    <2> QED BY <2>1, <2>3, <2>4
  <1>3. CASE ReadRuns(e)
    BY <1>1, <1>3 DEF ReadRuns, Execs
  <1>4. CASE CheckRun(e)
    BY <1>4, CheckRunExec
  <1>5. CASE CheckDone(e)
    BY <1>1, <1>5 DEF CheckDone, Execs
  <1>6. CASE Begin(e)
    BY <1>1, <1>6 DEF Begin, Execs
  <1>7. CASE ConditionNotMet(e) \/ SkipRun(e)
    BY <1>1, <1>7 DEF ConditionNotMet, SkipRun, Execs
  <1>8. CASE ExecuteSucceeds(e) \/ ExecuteFails(e)
    BY <1>1, <1>8 DEF ExecuteSucceeds, ExecuteFails, Execs
  <1>9. CASE BeginThrows(e) \/ BatchDone(e)
    BY <1>1, <1>9 DEF BeginThrows, BatchDone, Resting
  <1>10. CASE FinalizeFailed(e)
    BY <1>1, <1>10 DEF FinalizeFailed, Execs
  <1>11. CASE GiveBack(e) \/ FinalizeSuccessful(e) \/ FailRun(e)
    BY <1>1, <1>11 DEF GiveBack, FinalizeSuccessful, FailRun, NextOfBatch, Resting
  <1> QED BY <1>2, <1>3, <1>4, <1>5, <1>6, <1>7, <1>8, <1>9, <1>10, <1>11 DEF ExecutorStep

LEMMA StolenGrows ==
  ASSUME [TaskNext]_taskVars
  PROVE  stolen \subseteq stolen'
  <1>1. OthersStep => stolen \subseteq stolen'
    BY DEF OthersStep, taskVars, history, Create, Edit, Cancel, TimeComes, ClaimGetsStale, PressRunNow,
           TickRecovers, TickScans, IngressPrompts, IngressRecords, LoseMessage, RunGetsOld,
           SessionEnds, SessionEndHandled, TaskCrash
  <1>2. ASSUME NEW e \in Executors, ExecutorStep(e)
        PROVE  stolen \subseteq stolen'
    BY <1>2 DEF ExecutorStep, history, Claim, ReadRuns, CheckRun, GiveBack, CheckDone, Begin,
                BeginThrows, ConditionNotMet, ExecuteSucceeds, ExecuteFails, SkipRun,
                FinalizeSuccessful, FinalizeFailed, FailRun, BatchDone
  <1> QED BY <1>1, <1>2, TaskSteps

\* The new run, and the ones before it
LEMMA BeginRuns ==
  ASSUME Typed, NEW e \in Executors, Begin(e)
  PROVE  LET n == lastRun + 1
             t == exec[e].job.task
         IN  /\ n \in RunIds /\ lastRun' = n /\ t \in Tasks /\ exec[e].at = "begin"
             /\ runs'[n].task = t /\ runs'[n].occ = tasks[t].occ
             /\ \A i \in RunIds : i # n => runs'[i] = runs[i]
             /\ tasks' = tasks /\ life' = life /\ stolen' = stolen
  <1>1. /\ exec[e].at = "begin" /\ exec[e].job \in Snapshots /\ lastRun \in 0 .. MaxRuns
        /\ lastRun < MaxRuns /\ MaxRuns \in Nat /\ runs \in [RunIds -> Runs]
    BY Constants DEF Begin, Typed, TaskTypeOK, JobsKnown
  <1>2. lastRun + 1 \in RunIds
    BY <1>1 DEF RunIds
  <1>3. exec[e].job.task \in Tasks
    BY <1>1 DEF Snapshots
  <1> QED BY <1>1, <1>2, <1>3 DEF Begin, NoRun, sessions, history

LEMMA OneActiveKept ==
  ASSUME IInv, SeenAll, OneActiveRun, [TaskNext]_taskVars
  PROVE  OneActiveRun'
  <1>0. Typed /\ stolen \subseteq stolen'
    BY StolenGrows DEF IInv
  <1>1. CASE RunsErode
    BY <1>0, <1>1 DEF RunsErode, OneActiveRun
  <1>2. ASSUME NEW e \in Executors, Begin(e)
        PROVE  OneActiveRun'
    <2> DEFINE n == lastRun + 1
               t == exec[e].job.task
    <2>1. /\ n \in RunIds /\ t \in Tasks /\ exec[e].at = "begin" /\ runs'[n].task = t
          /\ \A i \in RunIds : i # n => runs'[i] = runs[i]
      BY <1>0, <1>2, BeginRuns
    <2>2. t \notin Parallel \cup stolen => ActiveRuns(t) = {}
      BY <2>1 DEF SeenAll
    <2> HIDE DEF n, t
    <2>3. \A i \in RunIds : t \notin Parallel \cup stolen /\ runs[i].task = t => runs[i].status \notin Counted
      BY <2>2 DEF ActiveRuns, Counted
    <2> SUFFICES ASSUME NEW i \in RunIds, NEW j \in RunIds,
                        runs'[i].task = runs'[j].task, runs'[i].task \notin Parallel \cup stolen',
                        runs'[i].status \in Counted, runs'[j].status \in Counted
                 PROVE  i = j
      BY DEF OneActiveRun
    <2>4. CASE i # n /\ j # n
      BY <1>0, <2>1, <2>4 DEF OneActiveRun
    <2>5. CASE i # n /\ j = n
      BY <1>0, <2>1, <2>3, <2>5
    <2>6. CASE i = n /\ j # n
      BY <1>0, <2>1, <2>3, <2>6
    <2> QED BY <2>4, <2>5, <2>6
  <1> QED BY <1>0, <1>1, <1>2, TaskSteps, OthersErode, ExecutorErodes

\* The active runs of a task do not grow while somebody who has seen them works on it.
LEMMA NoneAppears ==
  ASSUME IInv, [TaskNext]_taskVars, NEW e \in Executors, NEW t \in Tasks \ stolen, WorksOn(e, t), ~ Begin(e)
  PROVE  ActiveRuns(t)' \subseteq ActiveRuns(t)
  <1>0. Typed
    BY DEF IInv
  <1>1. CASE RunsErode
    BY <1>1 DEF RunsErode, ActiveRuns, Counted
  <1>2. ASSUME NEW d \in Executors, Begin(d)
        PROVE  ActiveRuns(t)' \subseteq ActiveRuns(t)
    <2>1. d # e
      BY <1>2
    <2>2. WorksOn(d, exec[d].job.task)
      BY <1>2 DEF Begin, WorksOn, Working
    <2>3. exec[d].job.task # t
      BY <2>1, <2>2 DEF IInv, OneExecutor
    <2> QED BY <1>0, <1>2, <2>3, BeginRuns DEF ActiveRuns
  <1> QED BY <1>0, <1>1, <1>2, TaskSteps, OthersErode, ExecutorErodes

LEMMA SeenAllKept ==
  ASSUME IInv, SeenAll, [TaskNext]_taskVars
  PROVE  SeenAll'
  <1>0. Typed /\ stolen \subseteq stolen'
    BY StolenGrows DEF IInv
  <1> SUFFICES ASSUME NEW e \in Executors, NEW t \in Tasks \ (Parallel \cup stolen), exec'[e].job.task = t
               PROVE  /\ exec'[e].at = "check" /\ ~ exec'[e].blocked =>
                           \A i \in ActiveRuns(t)' : \E x \in exec'[e].seen : x.id = i
                      /\ exec'[e].at = "begin" => ActiveRuns(t)' = {}
    BY <1>0 DEF SeenAll
  <1>1. ASSUME exec'[e] = exec[e]
        PROVE  /\ exec'[e].at = "check" /\ ~ exec'[e].blocked =>
                    \A i \in ActiveRuns(t)' : \E x \in exec'[e].seen : x.id = i
               /\ exec'[e].at = "begin" => ActiveRuns(t)' = {}
    <2>1. CASE exec[e].at \in {"check", "begin"} /\ ~ Begin(e)
      <3>1. ActiveRuns(t)' \subseteq ActiveRuns(t)
        BY <1>1, <2>1, NoneAppears DEF WorksOn, Working
      <3> QED BY <1>1, <3>1 DEF SeenAll
    <2>2. CASE Begin(e)
      <3>1. exec'[e].at = "execute" /\ exec[e].at = "begin"
        BY <1>0, <2>2 DEF Begin, Typed, TaskTypeOK, Execs
      <3> QED BY <1>1, <3>1
    <2> QED BY <1>1, <2>1, <2>2
  <1>2. CASE ReadRuns(e) /\ exec'[e].at = "check" /\ exec'[e].job = exec[e].job
    <2>1. exec \in [Executors -> Execs] /\ exec[e] \in Execs
      BY <1>0 DEF Typed, TaskTypeOK
    <2>2. exec'[e].seen = {[id |-> i, session |-> runs[i].session] : i \in ActiveRuns(t)}
      BY <1>2, <2>1 DEF ReadRuns, Execs
    <2>3. ActiveRuns(t)' = ActiveRuns(t)
      BY <1>2 DEF ReadRuns, ledger, ActiveRuns
    <2>4. ASSUME NEW i \in ActiveRuns(t)
          PROVE  \E x \in exec'[e].seen : x.id = i
      <3> DEFINE x == [id |-> i, session |-> runs[i].session]
      <3>1. x \in exec'[e].seen /\ x.id = i
        BY <2>2
      <3> QED BY <3>1
    <2> QED BY <1>2, <2>3, <2>4
  <1>3. CASE CheckRun(e) /\ exec'[e].at = "check" /\ exec'[e].job = exec[e].job
    <2> SUFFICES ASSUME ~ exec'[e].blocked, NEW i \in ActiveRuns(t)'
                 PROVE  \E x \in exec'[e].seen : x.id = i
      BY <1>3
    <2>1. PICK y \in exec[e].seen, how \in {"completed", "failed"} :
            exec'[e].seen = exec[e].seen \ {y} /\ SetRun(y.id, how)
      BY <1>0, <1>3, CheckRunExec
    <2>2. ~ exec[e].blocked /\ exec[e].at = "check"
      BY <1>0, <1>3, CheckRunExec DEF CheckRun
    <2>3. RunsErode /\ (y.id \in RunIds => runs'[y.id].status \notin Counted)
      BY <1>0, <2>1, SetRunErodes
    <2>4. i \in RunIds /\ runs'[i].task = t /\ runs'[i].status \in Counted
      BY DEF ActiveRuns, Counted
    <2>5. i \in ActiveRuns(t)
      BY <2>3, <2>4 DEF RunsErode, ActiveRuns, Counted
    <2>6. PICK x \in exec[e].seen : x.id = i
      BY <1>3, <2>2, <2>5 DEF SeenAll
    <2> QED BY <2>1, <2>3, <2>4, <2>6
  <1>4. CASE CheckDone(e) /\ exec'[e].job = exec[e].job
    <2>1. exec \in [Executors -> Execs] /\ exec[e] \in Execs /\ exec[e].seen = {}
          /\ exec[e].at = "check" /\ ActiveRuns(t)' = ActiveRuns(t)
      BY <1>0, <1>4 DEF Typed, TaskTypeOK, CheckDone, ledger, ActiveRuns
    <2>2. exec'[e].at = "begin" => ~ exec[e].blocked
      BY <1>4, <2>1 DEF CheckDone, Execs
    <2>3. exec'[e].at # "check"
      BY <1>4, <2>1 DEF CheckDone, Execs
    <2> QED BY <1>4, <2>1, <2>2, <2>3 DEF SeenAll
  <1>5. CASE exec'[e].at \notin {"check", "begin"}
    BY <1>5
  <1>6. CASE OthersStep
    BY <1>0, <1>1, <1>5, <1>6, OthersExec
  <1>7. ASSUME NEW d \in Executors, ExecutorStep(d)
        PROVE  exec'[e] = exec[e] \/ e = d
    BY <1>0, <1>7, OwnExec
  <1>8. CASE ExecutorStep(e)
    BY <1>0, <1>2, <1>3, <1>4, <1>5, <1>8, OwnExec
  <1> QED BY <1>1, <1>6, <1>7, <1>8, TaskSteps

\* What a step does to a row of a task that is not recovered from a working executor
LEMMA OccMoves ==
  ASSUME IInv, [TaskNext]_taskVars, NEW t \in Tasks \ stolen'
  PROVE  \/ tasks'[t].occ = tasks[t].occ
         \/ /\ tasks'[t].occ > tasks[t].occ
            /\ \/ \A e \in Executors : ~ WorksOn(e, t)
               \/ \E e \in Executors : WorksOn(e, t) /\ ~ Working(e)'
  <1>0. Typed /\ stolen \subseteq stolen' /\ tasks \in [Tasks -> TaskRows] /\ tasks[t].occ \in Nat
    BY StolenGrows DEF IInv, Typed, TaskTypeOK, TaskRows
  <1>1. CASE tasks' = tasks
    BY <1>1
  <1>2. ASSUME NEW u \in Tasks, NEW kind \in Kinds, Create(u, kind)
        PROVE  \/ tasks'[t].occ = tasks[t].occ
               \/ tasks'[t].occ > tasks[t].occ /\ \A e \in Executors : ~ WorksOn(e, t)
    <2>1. u # t => tasks'[t] = tasks[t]
      BY <1>0, <1>2 DEF Create
    <2>2. u = t => tasks[t].occ = 0 /\ tasks'[t].occ = 1
      BY <1>0, <1>2 DEF Create, NoRow
    <2> QED BY <1>0, <2>1, <2>2 DEF IInv, WorkedOnIsTaken
  <1>3. ASSUME NEW u \in Tasks, NEW kind \in Kinds, NEW reschedule \in BOOLEAN,
               Edit(u, kind, reschedule)
        PROVE  \/ tasks'[t].occ = tasks[t].occ
               \/ tasks'[t].occ > tasks[t].occ /\ \A e \in Executors : ~ WorksOn(e, t)
    <2>1. u # t => tasks'[t] = tasks[t]
      BY <1>0, <1>3 DEF Edit
    <2>2. u = t => /\ tasks'[t].occ = tasks[t].occ \/ tasks'[t].occ = tasks[t].occ + 1
                   /\ tasks[t].status = "planned"
      BY <1>0, <1>3 DEF Edit, TaskRows
    <2>3. tasks[t].status = "planned" => \A e \in Executors : ~ WorksOn(e, t)
      BY <1>0 DEF IInv, WorkedOnIsTaken
    <2> QED BY <1>0, <2>1, <2>2, <2>3
  <1>4. ASSUME NEW u \in Tasks, Cancel(u) \/ TimeComes(u) \/ ClaimGetsStale(u)
        PROVE  tasks'[t].occ = tasks[t].occ
    BY <1>0, <1>4 DEF Cancel, TimeComes, ClaimGetsStale, TaskRows
  <1>5. CASE TickRecovers
    <2>1. tasks \in [Tasks -> TaskRows] /\ t \in Tasks
      BY <1>0
    <2>2. tasks'[t] = tasks[t] \/ tasks'[t] = [tasks[t] EXCEPT !.status = "planned", !.stale = FALSE]
      BY <1>5 DEF TickRecovers
    <2>3. tasks[t] \in TaskRows
      BY <2>1
    <2> QED BY <2>2, <2>3 DEF TaskRows
  <1>6. ASSUME NEW e \in Executors, ExecutorStep(e)
        PROVE  \/ tasks'[t].occ = tasks[t].occ
               \/ tasks'[t].occ > tasks[t].occ /\ WorksOn(e, t) /\ ~ Working(e)'
    <2>1. CASE Claim(e)
      <3>1. \/ \E u : tasks' = [tasks EXCEPT ![u].status = "running", ![u].stale = FALSE]
            \/ tasks' = tasks
        BY <2>1 DEF Claim
      <3>2. ASSUME NEW u, tasks' = [tasks EXCEPT ![u].status = "running", ![u].stale = FALSE]
            PROVE  tasks'[t].occ = tasks[t].occ
        <4>1. tasks[t] \in TaskRows
          BY <1>0
        <4>2. CASE u = t
          BY <1>0, <3>2, <4>1, <4>2 DEF TaskRows
        <4>3. CASE u # t
          BY <1>0, <3>2, <4>3
        <4> QED BY <4>2, <4>3
      <3> QED BY <3>1, <3>2
    <2>2. CASE GiveBack(e)
      <3>1. Release(exec[e].job.task)
        BY <2>2 DEF GiveBack
      <3> QED BY <1>0, <3>1 DEF Release, TaskRows
    <2>3. CASE FinalizeSuccessful(e) \/ FinalizeFailed(e)
      <3>1. Working(e) /\ ~ Working(e)'
        BY <1>0, <2>3, NextOfBatchStops DEF FinalizeSuccessful, FinalizeFailed, Working, Typed,
           TaskTypeOK, Execs
      <3>2. DeleteTask(exec[e].job.task)
              \/ \E status \in {"planned", "failed"} : SetTask(exec[e].job.task, status)
        BY <2>3 DEF FinalizeSuccessful, FinalizeFailed
      <3>3. CASE exec[e].job.task # t
        <4>1. tasks'[t] = tasks[t]
          BY <1>0, <3>2, <3>3 DEF DeleteTask, SetTask
        <4> QED BY <4>1
      <3>4. CASE exec[e].job.task = t
        <4>1. tasks'[t].occ = tasks[t].occ \/ tasks'[t].occ = tasks[t].occ + 1
          <5>1. CASE DeleteTask(t)
            BY <1>0, <5>1 DEF DeleteTask, NoRow
          <5>2. ASSUME NEW status \in {"planned", "failed"}, SetTask(t, status)
                PROVE  tasks'[t].occ = tasks[t].occ \/ tasks'[t].occ = tasks[t].occ + 1
            BY <1>0, <5>2 DEF SetTask, TaskRows
          <5> QED BY <3>2, <3>4, <5>1, <5>2
        <4> QED BY <1>0, <3>1, <3>4, <4>1 DEF WorksOn
      <3> QED BY <3>3, <3>4
    <2>4. CASE ~ Claim(e) /\ ~ GiveBack(e) /\ ~ FinalizeSuccessful(e) /\ ~ FinalizeFailed(e)
      BY <1>6, <2>4 DEF ExecutorStep, ReadRuns, CheckRun, CheckDone, Begin, BeginThrows,
         ConditionNotMet, ExecuteSucceeds, ExecuteFails, SkipRun, FailRun, BatchDone
    <2> QED BY <2>1, <2>2, <2>3, <2>4
  <1>7. CASE OthersStep
    BY <1>1, <1>2, <1>3, <1>4, <1>5, <1>7 DEF OthersStep, taskVars, PressRunNow, TickScans, IngressPrompts,
       IngressRecords, LoseMessage, RunGetsOld, SessionEnds, SessionEndHandled, TaskCrash
  <1> QED BY <1>6, <1>7, TaskSteps

\* Only an executor about to post makes a message appear.
LEMMA PostsMove ==
  ASSUME Typed, [TaskNext]_taskVars, NEW i \in RunIds, life'[i] # "none"
  PROVE  \/ Posted(i)
         \/ \E e \in Executors : /\ exec[e].at = "execute" /\ exec[e].run = i
                                 /\ ExecuteSucceeds(e) \/ ExecuteFails(e)
  <1>0. life \in [RunIds -> {"none", "posted", "active", "gone"}]
    BY DEF Typed, TaskTypeOK
  <1>1. ASSUME NEW e \in Executors, ExecuteSucceeds(e) \/ ExecuteFails(e)
        PROVE  Posted(i) \/ (exec[e].at = "execute" /\ exec[e].run = i)
    BY <1>0, <1>1 DEF ExecuteSucceeds, ExecuteFails, Post, Posted
  <1>2. ASSUME NEW e \in Executors, ExecutorStep(e), ~ ExecuteSucceeds(e), ~ ExecuteFails(e)
        PROVE  life' = life
    BY <1>2 DEF ExecutorStep, sessions, Claim, ReadRuns, CheckRun, GiveBack, CheckDone, Begin, BeginThrows,
         ConditionNotMet, SkipRun, FinalizeSuccessful, FinalizeFailed, FailRun, BatchDone
  <1>3. CASE OthersStep
    <2>1. ASSUME NEW k \in RunIds, IngressPrompts(k) \/ LoseMessage(k) \/ \E seen \in BOOLEAN : SessionEnds(k, seen)
          PROVE  Posted(i)
      BY <1>0, <2>1 DEF IngressPrompts, LoseMessage, SessionEnds, Posted
    <2> QED BY <1>3, <2>1 DEF OthersStep, Posted, taskVars, sessions, Create, Edit, Cancel, TimeComes,
               ClaimGetsStale, PressRunNow, TickRecovers, TickScans, IngressRecords, RunGetsOld,
               SessionEndHandled, TaskCrash
  <1> QED BY <1>1, <1>2, <1>3, TaskSteps DEF Posted

\* Executions that were drawn keep their task and their occurrence.
LEMMA DrawnStay ==
  ASSUME Typed, [TaskNext]_taskVars
  PROVE  /\ lastRun <= lastRun' /\ lastRun \in Nat /\ lastRun' \in Nat
         /\ \A i \in RunIds : i <= lastRun => runs'[i].task = runs[i].task /\ runs'[i].occ = runs[i].occ
  <1>1. lastRun \in Nat /\ RunIds \subseteq Nat
    BY Constants DEF Typed, TaskTypeOK, RunIds
  <1>2. ASSUME NEW e \in Executors, Begin(e)
        PROVE  /\ lastRun' = lastRun + 1
               /\ \A i \in RunIds : i <= lastRun => runs'[i] = runs[i]
    BY <1>1, <1>2, BeginRuns
  <1>3. OthersStep => lastRun' = lastRun
    BY DEF OthersStep, taskVars, ledger, Create, Edit, Cancel, TimeComes, ClaimGetsStale, PressRunNow,
           TickRecovers, TickScans, IngressPrompts, IngressRecords, LoseMessage, RunGetsOld,
           SessionEnds, SessionEndHandled, TaskCrash
  <1>4. ASSUME NEW e \in Executors, ExecutorStep(e), ~ Begin(e)
        PROVE  lastRun' = lastRun
    BY <1>4 DEF ExecutorStep, ledger, Claim, ReadRuns, CheckRun, GiveBack, CheckDone, BeginThrows,
         ConditionNotMet, ExecuteSucceeds, ExecuteFails, SkipRun, FinalizeSuccessful, FinalizeFailed,
         FailRun, BatchDone
  <1>5. CASE OthersStep
    BY <1>1, <1>3, <1>5, OthersErode DEF RunsErode
  <1>6. ASSUME NEW e \in Executors, ExecutorStep(e), ~ Begin(e)
        PROVE  /\ lastRun' = lastRun
               /\ \A i \in RunIds : runs'[i].task = runs[i].task /\ runs'[i].occ = runs[i].occ
    BY <1>4, <1>6, ExecutorErodes DEF RunsErode
  <1> QED BY <1>1, <1>2, <1>5, <1>6, TaskSteps

LEMMA PostsDrawnKept ==
  ASSUME IInv, PostsDrawn, [TaskNext]_taskVars
  PROVE  PostsDrawn'
  <1>0. /\ Typed /\ stolen \subseteq stolen' /\ RunIds \subseteq Nat
        /\ lastRun <= lastRun' /\ lastRun \in Nat /\ lastRun' \in Nat
        /\ \A i \in RunIds : i <= lastRun => runs'[i].task = runs[i].task /\ runs'[i].occ = runs[i].occ
    BY StolenGrows, DrawnStay, Constants DEF IInv, RunIds
  <1>1. ASSUME NEW i \in RunIds, life'[i] # "none"
        PROVE  i <= lastRun' /\ runs'[i].task \in Tasks
    <2>1. i <= lastRun /\ runs[i].task \in Tasks
      <3>1. CASE Posted(i)
        BY <3>1 DEF PostsDrawn
      <3>2. ASSUME NEW e \in Executors, exec[e].at = "execute", exec[e].run = i
            PROVE  i <= lastRun /\ runs[i].task \in Tasks
        <4>1. exec[e].job.task \in Tasks
          BY <1>0, <3>2 DEF Typed, JobsKnown, Snapshots
        <4> QED BY <3>2, <4>1 DEF PostsDrawn
      <3> QED BY <1>0, <1>1, <3>1, <3>2, PostsMove
    <2> QED BY <1>0, <2>1
  <1>2. ASSUME NEW e \in Executors, exec'[e].at = "execute"
        PROVE  /\ exec'[e].run \in RunIds /\ exec'[e].run <= lastRun'
               /\ runs'[exec'[e].run].task = exec'[e].job.task
               /\ exec'[e].job.task \notin stolen'
                    => runs'[exec'[e].run].occ = tasks'[exec'[e].job.task].occ
    <2>1. CASE exec'[e] = exec[e]
      <3> DEFINE r == exec[e].run
                 t == exec[e].job.task
      <3>1. /\ r \in RunIds /\ r <= lastRun /\ runs[r].task = t /\ t \in Tasks
            /\ t \notin stolen => runs[r].occ = tasks[t].occ
        BY <1>0, <1>2, <2>1 DEF PostsDrawn, Typed, JobsKnown, Snapshots
      <3>2. WorksOn(e, t) /\ Working(e)'
        BY <1>2, <2>1 DEF WorksOn, Working
      <3>3. exec'[e].run = r /\ exec'[e].job.task = t
        BY <2>1
      <3> HIDE DEF r, t
      <3>4. t \notin stolen' => tasks'[t].occ = tasks[t].occ
        <4> SUFFICES ASSUME t \notin stolen' PROVE tasks'[t].occ = tasks[t].occ
          OBVIOUS
        <4>1. \A d \in Executors : WorksOn(d, t) => d = e
          BY <1>0, <3>1, <3>2 DEF IInv, OneExecutor
        <4> QED BY <3>1, <3>2, <4>1, OccMoves
      <3>5. r <= lastRun'
        BY <1>0, <3>1
      <3> QED BY <1>0, <3>1, <3>3, <3>4, <3>5
    <2>2. CASE Begin(e) /\ exec'[e].job = exec[e].job /\ exec'[e].run = lastRun + 1
      BY <1>0, <2>2, BeginRuns
    <2>3. CASE OthersStep
      BY <1>0, <1>2, <2>1, <2>3, OthersExec
    <2>4. ASSUME NEW d \in Executors, ExecutorStep(d)
          PROVE  exec'[e] = exec[e] \/ e = d
      BY <1>0, <2>4, OwnExec
    <2>5. CASE ExecutorStep(e)
      BY <1>0, <1>2, <2>2, <2>5, OwnExec
    <2> QED BY <2>1, <2>3, <2>4, <2>5, TaskSteps
  <1> QED BY <1>1, <1>2 DEF PostsDrawn, Posted

\* A row that is planned, or can be recovered or cancelled, has an occurrence to come.
LEMMA NotOver ==
  ASSUME IInv, NEW t \in Tasks \ stolen,
         \/ tasks[t].status = "planned"
         \/ \E e \in Executors : WorksOn(e, t) /\ exec[e].at \notin {"finalize", "error"}
         \/ tasks[t].status = "running" /\ \A e \in Executors : ~ WorksOn(e, t)
  PROVE  ~ Over(t)
  BY DEF Over, IInv, WorkedOnIsTaken, OneExecutor

\* An occurrence that is over stays so.
LEMMA OverByOthers ==
  ASSUME IInv, OthersStep, [TaskNext]_taskVars, taskCrashes' = 0, taskCrashes \in Nat,
         NEW t \in Tasks \ stolen', Over(t), tasks'[t].occ = tasks[t].occ
  PROVE  Over(t)'
  <1>0. /\ Typed /\ stolen \subseteq stolen' /\ tasks \in [Tasks -> TaskRows]
        /\ tasks[t].status \notin {"planned"}
    BY StolenGrows, NotOver DEF IInv, Typed, TaskTypeOK
  <1>1. ~ TaskCrash
    BY DEF TaskCrash
  <1>2. \A d \in Executors : /\ WorksOn(d, t)' => WorksOn(d, t)
                             /\ exec[d].at \in {"finalize", "error"} => exec'[d] = exec[d]
    BY <1>0, <1>1, OthersExec DEF WorksOn, Working
  <1>3. ASSUME NEW e \in Executors, WorksOn(e, t), exec[e].at \in {"finalize", "error"}
        PROVE  Over(t)'
    <2>1. exec'[e] = exec[e]
      BY <1>2, <1>3
    <2>2. WorksOn(e, t)' /\ exec'[e].at \in {"finalize", "error"}
      BY <1>3, <2>1 DEF WorksOn, Working
    <2> QED BY <2>2 DEF Over
  <1>4. CASE /\ \A e \in Executors : ~ WorksOn(e, t)
             /\ tasks[t].status \in {"none", "failed"}
    <2>1. tasks'[t].status = tasks[t].status
      <3>1. ASSUME NEW u \in Tasks,
               \/ \E kind \in Kinds : Create(u, kind)
               \/ \E kind \in Kinds, reschedule \in BOOLEAN : Edit(u, kind, reschedule)
               \/ Cancel(u) \/ TimeComes(u) \/ ClaimGetsStale(u)
            PROVE  tasks'[t] = tasks[t]
        <4>1. CASE u # t
          BY <1>0, <3>1, <4>1 DEF Create, Edit, Cancel, TimeComes, ClaimGetsStale
        <4>2. CASE u = t
          <5>1. ASSUME NEW kind \in Kinds, Create(t, kind)
                PROVE  FALSE
            <6>1. tasks[t].occ = 0 /\ tasks'[t].occ = 1
              BY <1>0, <5>1 DEF Create, NoRow
            <6> QED BY <6>1
          <5> QED BY <1>4, <3>1, <4>2, <5>1 DEF Edit, Cancel, TimeComes, ClaimGetsStale
        <4> QED BY <4>1, <4>2
      <3>2. TickRecovers => tasks'[t] = tasks[t]
        BY <1>0, <1>4 DEF TickRecovers, StaleClaims
      <3> QED BY <3>1, <3>2 DEF OthersStep, taskVars, PressRunNow, TickScans, IngressPrompts,
                 IngressRecords, LoseMessage, RunGetsOld, SessionEnds, SessionEndHandled, TaskCrash
    <2>2. \A e \in Executors : ~ WorksOn(e, t)'
      BY <1>2, <1>4
    <2> QED BY <1>4, <2>1, <2>2 DEF Over
  <1> QED BY <1>3, <1>4 DEF Over

\* The row that an executor finalizes has another occurrence, or none that can come.
LEMMA FinalizeEnds ==
  ASSUME IInv, NEW e \in Executors, FinalizeSuccessful(e) \/ FinalizeFailed(e)
  PROVE  LET t == exec[e].job.task
         IN  /\ WorksOn(e, t) /\ ~ Working(e)' /\ t \in Tasks /\ stolen' = stolen
             /\ \A u \in Tasks : u # t => tasks'[u] = tasks[u]
             /\ tasks'[t].occ > tasks[t].occ \/ tasks'[t].status \in {"none", "failed"}
  <1> DEFINE t == exec[e].job.task
  <1>1. Typed /\ tasks \in [Tasks -> TaskRows] /\ exec \in [Executors -> Execs] /\ exec[e] \in Execs
    BY DEF IInv, Typed, TaskTypeOK
  <1>2. WorksOn(e, t) /\ ~ Working(e)' /\ stolen' = stolen
    BY <1>1, NextOfBatchStops DEF FinalizeSuccessful, FinalizeFailed, WorksOn, Working, Execs, history
  <1>3. t \in Tasks
    BY <1>1, <1>2 DEF WorksOn, Working, Typed, JobsKnown, Snapshots
  <1>4. DeleteTask(t) \/ \E status \in {"planned", "failed"} : SetTask(t, status)
    BY DEF FinalizeSuccessful, FinalizeFailed
  <1> HIDE DEF t
  <1>5. ASSUME DeleteTask(t)
        PROVE  /\ \A u \in Tasks : u # t => tasks'[u] = tasks[u]
               /\ tasks'[t].status \in {"none", "failed"}
    <2>1. \A u \in Tasks : u # t => tasks'[u] = tasks[u]
      BY <1>1, <1>5 DEF DeleteTask
    <2>2. tasks'[t] = [NoRow EXCEPT !.occ = tasks[t].occ]
      BY <1>1, <1>3, <1>5 DEF DeleteTask
    <2>3. tasks'[t].status = "none"
      BY <2>2 DEF NoRow
    <2> QED BY <2>1, <2>3
  <1>6. ASSUME NEW status \in {"planned", "failed"}, SetTask(t, status)
        PROVE  /\ \A u \in Tasks : u # t => tasks'[u] = tasks[u]
               /\ tasks'[t].occ > tasks[t].occ \/ tasks'[t].status \in {"none", "failed"}
    <2>1. CASE tasks[t].status = "none"
      BY <1>6, <2>1 DEF SetTask
    <2>2. CASE tasks[t].status # "none"
      <3>1. /\ \A u \in Tasks : u # t => tasks'[u] = tasks[u]
            /\ tasks'[t].status = status
            /\ status = "planned" => tasks'[t].occ = tasks[t].occ + 1
        BY <1>1, <1>3, <1>6, <2>2 DEF SetTask, TaskRows
      <3>2. tasks[t].occ \in Nat
        BY <1>1, <1>3 DEF TaskRows
      <3> QED BY <3>1, <3>2
    <2> QED BY <2>1, <2>2
  <1> QED BY <1>2, <1>3, <1>4, <1>5, <1>6 DEF t

LEMMA OverByExecutor ==
  ASSUME IInv, [TaskNext]_taskVars, NEW e \in Executors, ExecutorStep(e),
         NEW t \in Tasks \ stolen', Over(t), tasks'[t].occ = tasks[t].occ
  PROVE  Over(t)'
  <1>0. /\ Typed /\ stolen \subseteq stolen' /\ tasks \in [Tasks -> TaskRows]
        /\ exec \in [Executors -> Execs] /\ tasks[t].status # "planned"
        /\ \A d \in Executors : d # e => exec'[d] = exec[d]
    BY StolenGrows, NotOver, OwnExec DEF IInv, Typed, TaskTypeOK
  <1>1. CASE FinalizeSuccessful(e) \/ FinalizeFailed(e)
    <2>1. CASE exec[e].job.task = t
      <3>1. /\ WorksOn(e, t) /\ ~ Working(e)'
            /\ tasks'[t].occ > tasks[t].occ \/ tasks'[t].status \in {"none", "failed"}
        BY <1>1, <2>1, FinalizeEnds
      <3>2. tasks'[t].status \in {"none", "failed"}
        BY <1>0, <3>1 DEF TaskRows
      <3>3. \A d \in Executors : ~ WorksOn(d, t)'
        BY <1>0, <3>1 DEF IInv, OneExecutor, WorksOn, Working
      <3> QED BY <3>2, <3>3 DEF Over
    <2>2. CASE exec[e].job.task # t
      <3>1. tasks'[t] = tasks[t] /\ ~ Working(e)' /\ ~ WorksOn(e, t)
        BY <1>1, <2>2, FinalizeEnds DEF WorksOn
      <3> QED BY <1>0, <3>1 DEF Over, WorksOn, Working
    <2> QED BY <2>1, <2>2
  <1>2. CASE ~ FinalizeSuccessful(e) /\ ~ FinalizeFailed(e)
    <2>1. exec[e].at \notin {"finalize", "error"}
      BY <1>2 DEF ExecutorStep, Claim, ReadRuns, CheckRun, GiveBack, CheckDone, Begin, BeginThrows,
         ConditionNotMet, ExecuteSucceeds, ExecuteFails, SkipRun, FailRun, BatchDone
    <2>2. ~ WorksOn(e, t)
      BY <1>0, <2>1, NotOver
    <2>3. ~ WorksOn(e, t)'
      <3>1. CASE exec'[e].at \in {"idle", "batch", "failrun"}
        BY <3>1 DEF WorksOn, Working
      <3>2. CASE exec[e].at = "batch" /\ tasks[exec'[e].job.task].status = "planned"
        BY <1>0, <3>2 DEF WorksOn
      <3>3. CASE exec'[e].job = exec[e].job /\ Working(e)
        BY <2>2, <3>3 DEF WorksOn
      <3>4. ASSUME \/ ReadRuns(e) \/ CheckRun(e) \/ CheckDone(e) \/ Begin(e) \/ ConditionNotMet(e)
                   \/ ExecuteSucceeds(e) \/ ExecuteFails(e) \/ SkipRun(e)
            PROVE  Working(e)
        BY <3>4 DEF ReadRuns, CheckRun, CheckDone, Begin, ConditionNotMet, ExecuteSucceeds,
                    ExecuteFails, SkipRun, Working
      <3> QED BY <1>0, <3>1, <3>2, <3>3, <3>4, OwnExec
    <2>4. tasks'[t].status = tasks[t].status \/ tasks[t].status \notin {"none", "failed"}
      <3>1. CASE Claim(e)
        <4>1. \/ \E u : /\ tasks[u].status = "planned"
                        /\ tasks' = [tasks EXCEPT ![u].status = "running", ![u].stale = FALSE]
              \/ tasks' = tasks
          BY <3>1 DEF Claim, Claimable
        <4> QED BY <1>0, <4>1
      <3>2. CASE GiveBack(e)
        <4>1. Release(exec[e].job.task) /\ exec[e].job.task # t
          BY <2>2, <3>2 DEF GiveBack, WorksOn, Working
        <4> QED BY <1>0, <4>1 DEF Release
      <3> QED BY <1>2, <3>1, <3>2 DEF ExecutorStep, ReadRuns, CheckRun, CheckDone, Begin, BeginThrows,
             ConditionNotMet, ExecuteSucceeds, ExecuteFails, SkipRun, FailRun, BatchDone
    <2> QED BY <1>0, <2>1, <2>3, <2>4 DEF Over, WorksOn, Working
  <1> QED BY <1>1, <1>2

LEMMA CrashesGrow ==
  ASSUME Typed, [TaskNext]_taskVars
  PROVE  taskCrashes' = 0 => taskCrashes = 0
  <1>0. taskCrashes \in Nat
    BY Constants DEF Typed, TaskTypeOK
  <1>1. OthersStep /\ ~ TaskCrash => taskCrashes' = taskCrashes
    BY DEF OthersStep, taskVars, history, Create, Edit, Cancel, TimeComes, ClaimGetsStale, PressRunNow,
       TickRecovers, TickScans, IngressPrompts, IngressRecords, LoseMessage, RunGetsOld,
       SessionEnds, SessionEndHandled
  <1>2. ASSUME NEW e \in Executors, ExecutorStep(e)
        PROVE  taskCrashes' = taskCrashes
    BY <1>2 DEF ExecutorStep, history, Claim, ReadRuns, CheckRun, GiveBack, CheckDone, Begin,
                BeginThrows, ConditionNotMet, ExecuteSucceeds, ExecuteFails, SkipRun,
                FinalizeSuccessful, FinalizeFailed, FailRun, BatchDone
  <1>3. TaskCrash => taskCrashes' = taskCrashes + 1
    BY DEF TaskCrash
  <1> QED BY <1>0, <1>1, <1>2, <1>3, TaskSteps

LEMMA OccsSpentKept ==
  ASSUME IInv, PostsDrawn, OccsSpent, [TaskNext]_taskVars
  PROVE  OccsSpent'
  <1>0. /\ Typed /\ stolen \subseteq stolen' /\ RunIds \subseteq Nat /\ taskCrashes \in Nat
        /\ tasks \in [Tasks -> TaskRows] /\ runs \in [RunIds -> Runs] /\ stolen' \subseteq Tasks
        /\ \A i \in RunIds : i <= lastRun => runs'[i].task = runs[i].task /\ runs'[i].occ = runs[i].occ
    BY StolenGrows, DrawnStay, Constants, NextTyped DEF IInv, RunIds, Typed, TaskTypeOK
  <1>1. taskCrashes' = 0 => taskCrashes = 0
    BY <1>0, CrashesGrow
  <1> SUFFICES ASSUME taskCrashes' = 0, NEW i \in RunIds, life'[i] # "none",
                      NEW t, t = runs'[i].task, t \notin stolen'
               PROVE  \/ runs'[i].occ < tasks'[t].occ
                      \/ runs'[i].occ = tasks'[t].occ /\ Over(t)'
    BY DEF OccsSpent, Spent, Posted
  <1>2. /\ i <= lastRun /\ runs[i].task = t /\ runs'[i].occ = runs[i].occ /\ t \in Tasks
        /\ runs[i].occ \in Nat /\ tasks[t].occ \in Nat
    <2>1. i <= lastRun /\ runs[i].task \in Tasks
      <3>1. ASSUME NEW e \in Executors, exec[e].at = "execute", exec[e].run = i
            PROVE  i <= lastRun /\ runs[i].task \in Tasks
        <4>1. exec[e].job.task \in Tasks
          BY <1>0, <3>1 DEF Typed, JobsKnown, Snapshots
        <4> QED BY <3>1, <4>1 DEF PostsDrawn
      <3> QED BY <1>0, <3>1, PostsMove DEF PostsDrawn
    <2> QED BY <1>0, <2>1 DEF Runs, TaskRows
  <1>3. tasks'[t].occ = tasks[t].occ \/ tasks'[t].occ > tasks[t].occ
    BY <1>2, OccMoves
  <1>4. tasks'[t].occ \in Nat
    BY <1>0, <1>2, NextTyped DEF Typed, TaskTypeOK, TaskRows
  <1>5. CASE Posted(i)
    <2>1. runs[i].occ < tasks[t].occ \/ (runs[i].occ = tasks[t].occ /\ Over(t))
      BY <1>0, <1>1, <1>2, <1>5 DEF OccsSpent, Spent
    <2>2. Over(t) /\ tasks'[t].occ = tasks[t].occ => Over(t)'
      BY <1>0, <1>2, OverByOthers, OverByExecutor, TaskSteps
    <2> QED BY <1>2, <1>3, <1>4, <2>1, <2>2
  <1>6. ASSUME NEW e \in Executors, exec[e].at = "execute", exec[e].run = i,
               ExecuteSucceeds(e) \/ ExecuteFails(e)
        PROVE  runs'[i].occ = tasks'[t].occ /\ Over(t)'
    <2>1. exec[e].job.task = t /\ runs[i].occ = tasks[t].occ
      BY <1>0, <1>2, <1>6 DEF PostsDrawn
    <2>2. tasks' = tasks
      BY <1>6 DEF ExecuteSucceeds, ExecuteFails
    <2>3. exec'[e].job = exec[e].job /\ exec'[e].at \in {"finalize", "error"}
      BY <1>0, <1>6 DEF ExecuteSucceeds, ExecuteFails, Typed, TaskTypeOK, Execs
    <2>4. WorksOn(e, t)'
      BY <2>1, <2>3 DEF WorksOn, Working
    <2> QED BY <1>2, <2>1, <2>2, <2>3, <2>4 DEF Over
  <1> QED BY <1>0, <1>5, <1>6, PostsMove

\* A message is posted for an occurrence whose earlier posts are all spent.
LEMMA PostedOnceKept ==
  ASSUME IInv, PostsDrawn, OccsSpent, OccurrencePostedOnce, taskCrashes = 0 \/ taskCrashes' # 0,
         [TaskNext]_taskVars
  PROVE  OccurrencePostedOnce'
  <1>0. /\ Typed /\ stolen \subseteq stolen' /\ RunIds \subseteq Nat
        /\ tasks \in [Tasks -> TaskRows] /\ runs \in [RunIds -> Runs]
        /\ \A i \in RunIds : i <= lastRun => runs'[i].task = runs[i].task /\ runs'[i].occ = runs[i].occ
    BY StolenGrows, DrawnStay, Constants DEF IInv, RunIds, Typed, TaskTypeOK
  <1>1. ASSUME NEW e \in Executors, exec[e].at = "execute", NEW i \in RunIds, exec[e].run = i,
               NEW j \in RunIds, Posted(j), taskCrashes = 0,
               runs[i].task = runs[j].task, runs[i].occ = runs[j].occ, runs[i].task \notin stolen
        PROVE  FALSE
    <2> DEFINE t == runs[i].task
    <2>1. t = exec[e].job.task /\ runs[i].occ = tasks[t].occ /\ WorksOn(e, t)
      BY <1>1 DEF PostsDrawn, WorksOn, Working
    <2>2. t \in Tasks
      BY <1>1, <1>0, <2>1 DEF Typed, JobsKnown, Snapshots
    <2>3. tasks[t].occ \in Nat
      BY <1>0, <2>2 DEF TaskRows
    <2>4. runs[j].occ < tasks[t].occ \/ Over(t)
      BY <1>1 DEF OccsSpent, Spent
    <2>5. ~ Over(t)
      BY <1>1, <2>1, <2>2, NotOver
    <2> QED BY <1>1, <2>1, <2>3, <2>4, <2>5
  <1> SUFFICES ASSUME taskCrashes' = 0, NEW i \in RunIds, NEW j \in RunIds,
                      life'[i] # "none", life'[j] # "none",
                      runs'[i].task = runs'[j].task, runs'[i].occ = runs'[j].occ,
                      runs'[i].task \notin stolen'
               PROVE  i = j
    BY DEF OccurrencePostedOnce
  <1>2. \A k \in RunIds : life'[k] # "none" =>
          /\ k <= lastRun
          /\ \/ Posted(k)
             \/ \E e \in Executors : exec[e].at = "execute" /\ exec[e].run = k
    BY <1>0, PostsMove DEF PostsDrawn
  <1>3. /\ runs[i].task = runs[j].task /\ runs[i].occ = runs[j].occ /\ runs[i].task \notin stolen
    BY <1>0, <1>2
  <1>4. CASE Posted(i) /\ Posted(j)
    BY <1>3, <1>4 DEF OccurrencePostedOnce, Posted
  <1>5. CASE ~ Posted(i) /\ Posted(j)
    BY <1>1, <1>2, <1>3, <1>5
  <1>6. CASE Posted(i) /\ ~ Posted(j)
    BY <1>1, <1>2, <1>3, <1>6
  <1>7. CASE ~ Posted(i) /\ ~ Posted(j)
    <2>1. PICK e \in Executors : /\ exec[e].at = "execute" /\ exec[e].run = i
                                 /\ ExecuteSucceeds(e) \/ ExecuteFails(e)
      BY <1>0, <1>7, PostsMove
    <2>2. \A k \in RunIds : k # i => life'[k] = life[k]
      BY <1>0, <2>1 DEF ExecuteSucceeds, ExecuteFails, Post, Typed, TaskTypeOK
    <2> QED BY <1>7, <2>2 DEF Posted
  <1> QED BY <1>4, <1>5, <1>6, <1>7

-----------------------------------------------------------------------------

LedgerIInv == SeenAll /\ OneActiveRun
PostsIInv == PostsDrawn /\ OccsSpent /\ OccurrencePostedOnce

LEMMA InitLedger ==
  ASSUME TaskInit
  PROVE  LedgerIInv /\ PostsIInv
  <1>1. /\ \A i \in RunIds : life[i] = "none" /\ runs[i].status = "none"
        /\ \A e \in Executors : exec[e].at = "idle"
    BY DEF TaskInit, NoRun, Resting
  <1> QED BY <1>1 DEF LedgerIInv, SeenAll, OneActiveRun, PostsIInv, PostsDrawn, OccsSpent,
                      OccurrencePostedOnce, Posted, Counted

LEMMA LedgerInvariance == TaskSpec => [](LedgerIInv /\ PostsIInv)
  <1>1. TaskInit => LedgerIInv /\ PostsIInv
    BY InitLedger
  <1>2. IInv /\ LedgerIInv /\ PostsIInv /\ [TaskNext]_taskVars => (LedgerIInv /\ PostsIInv)'
    <2> SUFFICES ASSUME IInv, LedgerIInv, PostsIInv, [TaskNext]_taskVars
                 PROVE  LedgerIInv' /\ PostsIInv'
      OBVIOUS
    <2>1. SeenAll' /\ OneActiveRun'
      BY SeenAllKept, OneActiveKept DEF LedgerIInv
    <2>2. PostsDrawn' /\ OccsSpent'
      BY PostsDrawnKept, OccsSpentKept DEF PostsIInv
    <2>3. OccurrencePostedOnce'
      BY CrashesGrow, PostedOnceKept DEF PostsIInv, IInv
    <2> QED BY <2>1, <2>2, <2>3 DEF LedgerIInv, PostsIInv
  <1> QED BY <1>1, <1>2, Invariance, PTL DEF TaskSpec

\* An occurrence of a schedule posts its message once, however Run now, the poller's
\* batch, edits and cancellations interleave, until the process restarts or a claim is
\* recovered from a working executor: claimScheduledTaskRunning is won once, and its
\* winner posts before finalizeSuccessfulTask or finalizeFailedTask moves the row on.
THEOREM PostedOnce == TaskSpec => []OccurrencePostedOnce
  <1>1. LedgerIInv /\ PostsIInv => OccurrencePostedOnce
    BY DEF PostsIInv
  <1> QED BY <1>1, LedgerInvariance, PTL

\* Of two sessions of a task that is not allowConcurrency, the ledger counts at most one
\* as active: createScheduledTaskRun follows a getActiveScheduledTaskRuns whose runs
\* hasRunningSession has all written off.
THEOREM OverlapsWrittenOff == TaskSpec => []OverlapIsWrittenOff
  <1>1. OneActiveRun => OverlapIsWrittenOff
    BY DEF OneActiveRun, OverlapIsWrittenOff, Counted
  <1>2. LedgerIInv /\ PostsIInv => OverlapIsWrittenOff
    BY <1>1 DEF LedgerIInv
  <1> QED BY <1>2, LedgerInvariance, PTL

=============================================================================
