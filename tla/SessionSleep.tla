---------------------------- MODULE SessionSleep ----------------------------
(***************************************************************************)
(* The kimaki_sleep protocol: a session asks to be woken later, the row    *)
(* survives restarts, the task runner posts a wake message to the thread   *)
(* that owns the session, and the message's own gateway event consumes the *)
(* row and becomes a turn.                                                 *)
(*                                                                         *)
(* The actors interleave at every await: the agent's tool and the task     *)
(* runner write the same SQLite rows as the Discord handlers, and Discord  *)
(* is a lossy, repeating channel that forgets a message's nonce after a    *)
(* while.                                                                  *)
(*                                                                         *)
(* Abstractions.  Time is two flags of a row: due (wake_at <= now) and     *)
(* cooling (last_attempt_at is younger than SLEEP_WAKE_RETRY_AFTER_MS).    *)
(* attempts saturates at MaxAttempts: it is only ever compared with it.    *)
(* The batch limit of getDueSessionSleeps (20 rows) is above the number of *)
(* sessions, and the order of the batch is left open.                      *)
(***************************************************************************)
EXTENDS Naturals, FiniteSets

CONSTANTS Sessions, Threads, NoSession, NoThread,
          MaxAttempts,    \* SLEEP_WAKE_MAX_ATTEMPTS
          MaxSleeps,      \* bound: kimaki_sleep calls
          MaxCrashes      \* bound: restarts of the bot

ASSUME ConstantsAssumption ==
  /\ NoSession \notin Sessions
  /\ NoThread \notin Threads
  /\ MaxAttempts \in Nat \ {0}
  /\ MaxSleeps \in Nat
  /\ MaxCrashes \in Nat

VARIABLES
  sleep,      \* session_sleeps: session -> row
  lastId,     \* delivery ids drawn so far (crypto.randomUUID never repeats)
  binding,    \* thread_sessions.session_id: thread -> session
  older,      \* thread_sessions.updated_at: <<t, u>> when t's is before u's
  active,     \* sessions whose agent is inside a turn
  runner,     \* where wakeDueSessionSleeps stands
  nonces,     \* ids whose nonce Discord still remembers
  gateway,    \* wake messages created and not yet handled by the bot
  ingress,    \* wakes that consumed their row and are not enqueued yet
  aborting,   \* threads whose /abort cancelled the sleep, abort still to come
  crashes,    \* restarts so far
  turns,      \* history: delivery id -> wake turns it started
  calledOff   \* history: ids cancelled or replaced while still planned

row == <<sleep, lastId, calledOff>>
ownership == <<binding, older>>
discord == <<nonces, gateway>>
vars == <<row, ownership, active, runner, discord, ingress, aborting, crashes,
          turns>>

Ids == 1 .. MaxSleeps
Statuses == {"planned", "consumed", "cancelled", "failed"}
Rows == [id : 0 .. MaxSleeps, status : Statuses, due : BOOLEAN,
         attempts : 0 .. MaxAttempts, cooling : BOOLEAN]
NeverSlept == [id |-> 0, status |-> "consumed", due |-> TRUE,
               attempts |-> 0, cooling |-> FALSE]

Wakes == [id : Ids, thread : Threads]
DueRows == [session : Sessions, id : Ids]
Claims == [session : Sessions, id : Ids, attempts : 0 .. MaxAttempts,
           thread : Threads \cup {NoThread}]
Idle == [at |-> "idle"]

TypeOK ==
  /\ sleep \in [Sessions -> Rows]
  /\ lastId \in 0 .. MaxSleeps
  /\ binding \in [Threads -> Sessions \cup {NoSession}]
  /\ older \subseteq Threads \X Threads
  /\ active \subseteq Sessions
  /\ runner \in {Idle} \cup [at : {"loop"}, todo : SUBSET DueRows]
                \cup [at : {"resolve", "post", "fail"}, todo : SUBSET DueRows, claim : Claims]
  /\ nonces \subseteq Ids
  /\ gateway \subseteq Wakes
  /\ ingress \subseteq Wakes
  /\ aborting \subseteq Threads
  /\ crashes \in 0 .. MaxCrashes
  /\ turns \in [Ids -> Nat]
  /\ calledOff \subseteq Ids

Init ==
  /\ sleep = [s \in Sessions |-> NeverSlept]
  /\ lastId = 0
  /\ binding = [t \in Threads |-> NoSession]
  /\ older = {}
  /\ active = {}
  /\ runner = Idle
  /\ nonces = {}
  /\ gateway = {}
  /\ ingress = {}
  /\ aborting = {}
  /\ crashes = 0
  /\ turns = [i \in Ids |-> 0]
  /\ calledOff = {}

-----------------------------------------------------------------------------
(* Thread ownership *)

\* A write to t's row makes its updated_at the newest of the table.
Touched(t) ==
  (older \ {<<t, u>> : u \in Threads}) \cup {<<u, t>> : u \in Threads \ {t}}

\* upsertThreadSession, reached through setThreadSession.
Bind(t, s) ==
  /\ binding' = [binding EXCEPT ![t] = s]
  /\ older' = Touched(t)

Owners(s) == {t \in Threads : binding[t] = s}

\* getThreadIdBySessionId: of the rows of s, the one updated last.
Owns(t, s) == t \in Owners(s) /\ \A u \in Owners(s) \ {t} : <<u, t>> \in older

\* /resume binds a new thread to a session and leaves its old row in place.
Resume(t, s) ==
  /\ binding[t] = NoSession
  /\ Bind(t, s)
  /\ UNCHANGED <<row, active, runner, discord, ingress, aborting, crashes, turns>>

\* ensureSession: a turn of t runs in the session t is bound to, or in a new
\* one when t has none or its session no longer exists.
RunsIn(t, s) == binding[t] = s \/ (Owners(s) = {} /\ sleep[s].id = 0)

\* persistLastSyncedThreadName writes the thread's row, and updated_at has an
\* $onUpdate hook: every update of the row bumps it, not only a binding.
Rename(t) ==
  /\ binding[t] # NoSession
  /\ older' = Touched(t)
  /\ UNCHANGED <<row, binding, active, runner, discord, ingress,
                 aborting, crashes, turns>>

-----------------------------------------------------------------------------
(* Sessions and users *)

PlannedIds(S) == {sleep[s].id : s \in {r \in S : sleep[r].status = "planned"}}

\* History: the planned sleeps of S are over from here on.
CallOff(S) == calledOff' = calledOff \cup PlannedIds(S)
BoundSession(t) == {s \in Sessions : s = binding[t]}

\* Mutant: a user message leaves the pending sleep alone.
CancelNothing(t) == UNCHANGED sleep

\* cancelSessionSleepForThread: the planned sleep of the session bound to t.
CancelSleepOf(t) ==
  sleep' = [s \in Sessions |->
              IF s = binding[t] /\ sleep[s].status = "planned"
              THEN [sleep[s] EXCEPT !.status = "cancelled"] ELSE sleep[s]]

\* Mutant: the row keeps its delivery_id when it is planned again.
UpsertKeepingId(s) ==
  /\ lastId < MaxSleeps
  /\ lastId' = IF sleep[s].id = 0 THEN lastId + 1 ELSE lastId
  /\ sleep' = [sleep EXCEPT ![s] =
                 [id |-> IF sleep[s].id = 0 THEN lastId + 1 ELSE sleep[s].id,
                  status |-> "planned", due |-> FALSE, attempts |-> 0, cooling |-> FALSE]]
  /\ CallOff({s})

\* upsertSessionSleep
Upsert(s) ==
  /\ lastId < MaxSleeps
  /\ lastId' = lastId + 1
  /\ sleep' = [sleep EXCEPT ![s] =
                 [id |-> lastId + 1, status |-> "planned", due |-> FALSE,
                  attempts |-> 0, cooling |-> FALSE]]
  /\ CallOff({s})

\* The kimaki_sleep tool of a running agent; a session no thread owns (a
\* subagent's) is refused.
KimakiSleep(s) ==
  /\ s \in active
  /\ Owners(s) # {}
  /\ Upsert(s)
  /\ UNCHANGED <<ownership, active, runner, discord, ingress, aborting, crashes, turns>>

TurnEnds(s) ==
  /\ s \in active
  /\ active' = active \ {s}
  /\ UNCHANGED <<row, ownership, runner, discord, ingress, aborting, crashes, turns>>

\* A turn of s is submitted from t: every submit path binds t to it again.
TurnStarts(t, s) ==
  /\ Bind(t, s)
  /\ active' = active \cup {s}

\* Any message that is not a wake: supersedePendingSleep, then a turn.
UserMessage(t, s) ==
  /\ RunsIn(t, s)
  /\ CancelSleepOf(t)
  /\ CallOff(BoundSession(t))
  /\ TurnStarts(t, s)
  /\ UNCHANGED <<lastId, runner, discord, ingress, aborting, crashes, turns>>

\* /abort cancels the sleep first and aborts the run after it.
AbortCancels(t) ==
  /\ binding[t] # NoSession
  /\ t \notin aborting
  /\ CancelSleepOf(t)
  /\ CallOff(BoundSession(t))
  /\ aborting' = aborting \cup {t}
  /\ UNCHANGED <<lastId, ownership, active, runner, discord, ingress, crashes, turns>>

AbortStops(t) ==
  /\ t \in aborting
  /\ aborting' = aborting \ {t}
  /\ active' = active \ {binding[t]}
  /\ UNCHANGED <<row, ownership, runner, discord, ingress, crashes, turns>>

-----------------------------------------------------------------------------
(* The task runner: wakeDueSessionSleeps *)

Deliverable(s) ==
  sleep[s].status = "planned" /\ sleep[s].due /\ ~ sleep[s].cooling

\* Mutant: a sleep is attempted once.
DeliverableOnce(s) == Deliverable(s) /\ sleep[s].attempts = 0

\* Mutant: the query forgets wake_at <= now.
DeliverableEarly(s) == sleep[s].status = "planned" /\ ~ sleep[s].cooling

\* getDueSessionSleeps, and the same guard in claimSessionSleepAttempt.
IsDue(s) == Deliverable(s)

RunnerScan ==
  /\ runner = Idle
  /\ LET due == {s \in Sessions : IsDue(s)}
     IN  /\ due # {}
         /\ runner' = [at |-> "loop",
                       todo |-> {[session |-> s, id |-> sleep[s].id] : s \in due}]
  /\ UNCHANGED <<row, ownership, active, discord, ingress, aborting, crashes, turns>>

BackToLoop == runner' = [at |-> "loop", todo |-> runner.todo]

\* claimSessionSleepAttempt: reserve one attempt of this occurrence.
RunnerClaim ==
  /\ runner.at = "loop"
  /\ \E x \in runner.todo :
       LET s == x.session
           tried == IF sleep[s].attempts < MaxAttempts
                    THEN sleep[s].attempts + 1 ELSE MaxAttempts
       IN  \/ /\ sleep[s].id = x.id /\ IsDue(s)
              /\ sleep' = [sleep EXCEPT ![s].attempts = tried, ![s].cooling = TRUE]
              /\ runner' = [at |-> "resolve", todo |-> runner.todo \ {x},
                            claim |-> [session |-> s, id |-> x.id, attempts |-> tried,
                                       thread |-> NoThread]]
           \/ /\ ~ (sleep[s].id = x.id /\ IsDue(s))
              /\ runner' = [at |-> "loop", todo |-> runner.todo \ {x}]
              /\ UNCHANGED sleep
  /\ UNCHANGED <<lastId, calledOff, ownership, active, discord, ingress, aborting,
                 crashes, turns>>

\* Mutant: a session without a thread is not given up.
PostToNobody ==
  \/ \E t \in Threads :
       /\ Owns(t, runner.claim.session)
       /\ runner' = [runner EXCEPT !.at = "post", !.claim.thread = t]
  \/ /\ Owners(runner.claim.session) = {}
     /\ runner' = [runner EXCEPT !.at = "post"]

\* getThreadIdBySessionId at wake time.
ResolveThread ==
  \/ \E t \in Threads :
       /\ Owns(t, runner.claim.session)
       /\ runner' = [runner EXCEPT !.at = "post", !.claim.thread = t]
  \/ /\ Owners(runner.claim.session) = {}
     /\ runner' = [runner EXCEPT !.at = "fail"]

RunnerResolve ==
  /\ runner.at = "resolve"
  /\ ResolveThread
  /\ UNCHANGED <<row, ownership, active, discord, ingress, aborting, crashes, turns>>

\* POST with nonce = delivery id and enforce_nonce: while Discord remembers
\* the nonce it returns the message it has and creates none.
Created ==
  IF runner.claim.id \in nonces THEN {}
  ELSE {[id |-> runner.claim.id, thread |-> runner.claim.thread]}

RunnerPostSucceeds ==
  /\ runner.at = "post"
  /\ gateway' = gateway \cup Created
  /\ nonces' = nonces \cup {runner.claim.id}
  /\ BackToLoop
  /\ UNCHANGED <<row, ownership, active, ingress, aborting, crashes, turns>>

\* The post fails, or it succeeds and its response is lost; the attempt budget
\* decides, and a 404 is permanent at once.
RunnerPostFails(permanent, created) ==
  /\ runner.at = "post"
  /\ permanent => ~ created
  /\ IF created
     THEN gateway' = gateway \cup Created /\ nonces' = nonces \cup {runner.claim.id}
     ELSE UNCHANGED discord
  /\ IF permanent \/ runner.claim.attempts >= MaxAttempts
     THEN runner' = [runner EXCEPT !.at = "fail"]
     ELSE BackToLoop
  /\ UNCHANGED <<row, ownership, active, ingress, aborting, crashes, turns>>

\* markSessionSleepFailed
FailClaimed ==
  LET s == runner.claim.session
  IN  sleep' = [sleep EXCEPT ![s].status =
                  IF sleep[s].id = runner.claim.id /\ @ = "planned" THEN "failed" ELSE @]

RunnerFail ==
  /\ runner.at = "fail"
  /\ FailClaimed
  /\ BackToLoop
  /\ UNCHANGED <<lastId, calledOff, ownership, active, discord, ingress, aborting,
                 crashes, turns>>

RunnerDone ==
  /\ runner.at = "loop"
  /\ runner.todo = {}
  /\ runner' = Idle
  /\ UNCHANGED <<row, ownership, active, discord, ingress, aborting, crashes, turns>>

-----------------------------------------------------------------------------
(* Ingress of the wake message *)

\* Mutant: the consuming update is not guarded on status = planned.
ConsumeAnyStatus(id) == {s \in Sessions : sleep[s].id = id}

\* The rows consumeSessionSleepWake updates.
Consumable(id) ==
  {s \in Sessions : sleep[s].id = id /\ sleep[s].status = "planned"}

\* The message handler claims the row, or drops the wake.  A gateway that
\* resumes may repeat the event: again = TRUE leaves it to be handled again.
IngressWake(m, again) ==
  /\ m \in gateway
  /\ gateway' = IF again THEN gateway ELSE gateway \ {m}
  /\ sleep' = [s \in Sessions |->
                 IF s \in Consumable(m.id) THEN [sleep[s] EXCEPT !.status = "consumed"]
                                           ELSE sleep[s]]
  /\ ingress' = IF Consumable(m.id) # {} THEN ingress \cup {m} ELSE ingress
  /\ UNCHANGED <<lastId, calledOff, ownership, active, runner, nonces, aborting,
                 crashes, turns>>

\* enqueueIncoming with isSleepWake (which does not supersede): the wake is a
\* turn of the thread it was posted in, whichever session that thread is in.
WakeTurn(m, s) ==
  /\ m \in ingress
  /\ RunsIn(m.thread, s)
  /\ ingress' = ingress \ {m}
  /\ turns' = [turns EXCEPT ![m.id] = @ + 1]
  /\ TurnStarts(m.thread, s)
  /\ UNCHANGED <<row, runner, discord, aborting, crashes>>

-----------------------------------------------------------------------------
(* Discord, the clock, restarts *)

LoseEvent(m) ==
  /\ m \in gateway
  /\ gateway' = gateway \ {m}
  /\ UNCHANGED <<row, ownership, active, runner, nonces, ingress, aborting, crashes, turns>>

ForgetNonce(id) ==
  /\ id \in nonces
  /\ nonces' = nonces \ {id}
  /\ UNCHANGED <<row, ownership, active, runner, gateway, ingress, aborting, crashes, turns>>

WakeTimeComes(s) ==
  /\ sleep[s].status = "planned" /\ ~ sleep[s].due
  /\ sleep' = [sleep EXCEPT ![s].due = TRUE]
  /\ UNCHANGED <<lastId, calledOff, ownership, active, runner, discord, ingress,
                 aborting, crashes, turns>>

RetryWindowPasses(s) ==
  /\ sleep[s].status = "planned" /\ sleep[s].cooling
  /\ sleep' = [sleep EXCEPT ![s].cooling = FALSE]
  /\ UNCHANGED <<lastId, calledOff, ownership, active, runner, discord, ingress,
                 aborting, crashes, turns>>

\* The process dies and restarts: what was only in memory is gone.
Crash ==
  /\ crashes < MaxCrashes
  /\ crashes' = crashes + 1
  /\ runner' = Idle
  /\ ingress' = {}
  /\ aborting' = {}
  /\ active' = {}
  /\ UNCHANGED <<row, ownership, discord, turns>>

-----------------------------------------------------------------------------

RunnerStep ==
  \/ RunnerScan \/ RunnerClaim \/ RunnerResolve \/ RunnerPostSucceeds
  \/ \E permanent, created \in BOOLEAN : RunnerPostFails(permanent, created)
  \/ RunnerFail \/ RunnerDone

Next ==
  \/ \E t \in Threads, s \in Sessions : Resume(t, s) \/ UserMessage(t, s)
  \/ \E t \in Threads : Rename(t) \/ AbortCancels(t) \/ AbortStops(t)
  \/ \E s \in Sessions : KimakiSleep(s) \/ TurnEnds(s)
  \/ RunnerStep
  \/ \E m \in Wakes, again \in BOOLEAN : IngressWake(m, again)
  \/ \E m \in Wakes, s \in Sessions : WakeTurn(m, s)
  \/ \E m \in Wakes : LoseEvent(m)
  \/ \E id \in Ids : ForgetNonce(id)
  \/ \E s \in Sessions : WakeTimeComes(s) \/ RetryWindowPasses(s)
  \/ Crash

Spec == Init /\ [][Next]_vars

(* The runner's interval timer fires forever, the clock moves, Discord's nonce
   memory is a few minutes long, and a message created again and again is one
   day delivered.  Users, agents and crashes owe nothing.                    *)
Fairness ==
  /\ WF_vars(RunnerStep)
  /\ \A s \in Sessions : WF_vars(WakeTimeComes(s)) /\ WF_vars(RetryWindowPasses(s))
  /\ \A id \in Ids : WF_vars(ForgetNonce(id))
  /\ \A m \in Wakes : SF_vars(IngressWake(m, FALSE))

FairSpec == Spec /\ Fairness

-----------------------------------------------------------------------------
(* Properties *)

\* One occurrence of kimaki_sleep starts at most one turn, however often its
\* wake is posted, delivered or retried.
WakeAtMostOnce == \A id \in Ids : turns[id] <= 1

\* A sleep that the user took back, or that a newer sleep of the session
\* replaced, never becomes a turn, though its wake may be posted already.
CalledOffNeverWakes ==
  \A id \in calledOff : turns[id] = 0 /\ \A m \in ingress : m.id # id

\* The table keeps its promise: no early wake, no second settlement, no
\* identifier used twice.
Alarm == [s \in Sessions |->
            [id |-> sleep[s].id, status |-> sleep[s].status, due |-> sleep[s].due]]
Alarms == INSTANCE SleepPromise WITH alarm <- Alarm
KeepsPromise == Alarms!Spec

\* A due sleep does not stay planned for ever: whatever is lost on the way,
\* the retry path brings it to a turn, to a cancellation or to a failure.
DueSleepSettles ==
  \A s \in Sessions : \A id \in Ids :
    (sleep[s].id = id /\ sleep[s].status = "planned")
      ~> ~ (sleep[s].id = id /\ sleep[s].status = "planned")

-----------------------------------------------------------------------------
(* What comments of the code say, and the code does not do *)

\* schema.ts: a row stays planned until ingress turns the wake into a turn, so
\* any loss is covered by the retry.
ConsumedIsATurn ==
  \A s \in Sessions :
    (sleep[s].id # 0 /\ sleep[s].status = "consumed")
      => turns[sleep[s].id] = 1 \/ \E m \in ingress : m.id = sleep[s].id

=============================================================================
