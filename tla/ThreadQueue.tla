---------------------------- MODULE ThreadQueue ----------------------------
(***************************************************************************)
(* The local message queue of one Discord thread (ThreadSessionRuntime,    *)
(* opencode backend).  Explicitly queued messages wait in queueItems until *)
(* the session is not busy, are dispatched detached from the serialized    *)
(* action queue, and the end of a dispatch, of a run or of an interactive  *)
(* UI drains again.  Whether the session is busy is not asked of opencode: *)
(* it is derived from the buffer of events received so far, to which the   *)
(* runtime adds markers of its own.  Direct messages go straight to        *)
(* opencode, and a question of the agent hands one queued message to it.   *)
(*                                                                         *)
(* Abstractions.  The event buffer is what is read of it: the latest       *)
(* lifecycle event is busy (isSessionBusy) and a message was handed off    *)
(* since the latest question.  Whether a turn completed naturally travels  *)
(* with its idle event.  Evicting the oldest of 1000 events is left out.   *)
(* The runtime starts with an empty buffer.  Messages are stored or sent   *)
(* in full or not at all.                                                  *)
(***************************************************************************)
EXTENDS Naturals, Sequences, FiniteSets, SequencesExt

CONSTANTS Queued,       \* messages sent with /queue, as a command, or ". queue"
          Direct,       \* messages sent to opencode at once
          NoMsg,
          Known, Saved, \* the session in memory, and in thread_sessions, at first
          MaxSessions,  \* bound: sessions
          MaxAborts,    \* bound: aborted runs
          MaxQuestions, \* bound: questions of the agent
          MaxRetries,   \* bound: failures opencode retries
          Faults        \* what may go wrong: see FaultKinds

Msgs == Queued \cup Direct
NoSession == 0
Sessions == 1 .. MaxSessions

\* A dispatch reports an error or throws, the indicator of a queued message or the
\* report of a failed run cannot be sent, a run fails or ends unfinished.
FaultKinds == {"report", "throw", "send", "tell", "error", "unfinished"}

ASSUME QueueAssumption ==
  /\ Queued \cap Direct = {} /\ NoMsg \notin Msgs
  /\ {MaxSessions, MaxAborts, MaxQuestions, MaxRetries} \subseteq Nat
  /\ Known \in Sessions \cup {NoSession} /\ Saved \in Sessions \cup {NoSession}
  /\ Known # NoSession => Saved = Known
  /\ Faults \subseteq FaultKinds

VARIABLES
  queue,     \* queueItems
  job,       \* message -> how far its delivery is
  sess,      \* the session id in the thread's state
  saved,     \* thread_sessions: the session id of the thread
  buf,       \* session -> what the event buffer says of it
  ui,        \* pendingQuestionContexts has a question of this thread
  handoff,   \* questionQueueHandoffPromise: the message being handed off
  acts,      \* actionQueue
  turn,      \* the action being run, at an await
  srv,       \* opencode: session -> its state
  aborting,  \* sessions whose session.abort request is on its way
  sse,       \* opencode's event stream
  order,     \* history: messages in the order they entered the queue
  past,      \* history: a message went past the queue, or was handed off
  since,     \* history: messages handed off since the latest question
  missed,    \* history: a drain that was due did not take place, nor any since that
             \* found the session idle
  aborts,    \* aborts requested
  questions, \* questions asked
  retries    \* retries announced

session == <<sess, saved>>
runtime == <<queue, job, session, buf, handoff, turn>>
opencode == <<srv, aborting, sse>>
counts == <<aborts, questions, retries>>
queueHistory == <<order, past, since, missed, counts>>
vars == <<runtime, ui, acts, opencode, queueHistory>>

\* Where a message is.  "reply": opencode has accepted it, the response is on
\* its way.  "report": its dispatch failed and the thread is being told.
JobPlaces == {"new", "dismissing", "waiting", "posted", "queued", "showing", "handing",
              "ensure", "create", "prompt", "reply", "report", "failing",
              "prompted", "failed", "lost", "withdrawn"}
Jobs == [at : JobPlaces,
         known : Sessions \cup {NoSession},   \* thread.sessionId when it was dequeued
         target : Sessions \cup {NoSession},  \* the session ensureSession returned
         by : Msgs \cup {NoMsg}]  \* the failed dispatch that drains it, if not an action
NewJob == [at |-> "new", known |-> NoSession, target |-> NoSession, by |-> NoMsg]

Events == [type : {"busy", "retry", "idle", "error", "asked", "replied"}, s : Sessions,
           natural : BOOLEAN]
Event(type, s) == [type |-> type, s |-> s, natural |-> FALSE]

Enqueueing(m) == [do |-> "enqueue", m |-> m]
Submitting(m) == [do |-> "submit", m |-> m]
Aborting(m) == [do |-> "abort", m |-> m]
Draining == [do |-> "drain", m |-> NoMsg]
Handling(e) == [do |-> "event", e |-> e]
Showing(m) == [do |-> "show", m |-> m]
AtRest == [do |-> "rest"]

Actions == [do : {"enqueue", "submit", "abort", "show"}, m : Msgs] \cup {Draining, AtRest}
             \cup [do : {"event"}, e : Events]

ServerStates == {"idle", "running", "retrying", "asking"}

TypeOK ==
  /\ queue \in Seq(Queued)
  /\ job \in [Msgs -> Jobs]
  /\ \A m \in Msgs : job[m].at = "queued" <=> \E i \in DOMAIN queue : queue[i] = m
  /\ {sess, saved} \subseteq Sessions \cup {NoSession}
  /\ buf \in [Sessions -> [busy : BOOLEAN, handed : BOOLEAN]]
  /\ ui \in BOOLEAN
  /\ handoff \in Queued \cup {NoMsg}
  /\ acts \in Seq(Actions) /\ turn \in Actions
  /\ srv \in [Sessions -> ServerStates]
  /\ aborting \subseteq Sessions
  /\ sse \in Seq(Events)
  /\ order \in Seq(Queued) /\ past \in BOOLEAN /\ since \in Nat /\ missed \in BOOLEAN
  /\ aborts \in 0 .. MaxAborts /\ questions \in 0 .. MaxQuestions
  /\ retries \in 0 .. MaxRetries

Init ==
  /\ queue = <<>> /\ job = [m \in Msgs |-> NewJob]
  /\ sess = Known /\ saved = Saved
  /\ buf = [s \in Sessions |-> [busy |-> FALSE, handed |-> FALSE]]
  /\ ui = FALSE /\ handoff = NoMsg
  /\ acts = <<>> /\ turn = AtRest
  /\ srv = [s \in Sessions |-> "idle"] /\ aborting = {} /\ sse = <<>>
  /\ order = <<>> /\ past = FALSE /\ since = 0 /\ missed = FALSE
  /\ aborts = 0 /\ questions = 0 /\ retries = 0

-----------------------------------------------------------------------------
(* Parts of the runtime's steps *)

Put(jobs, m, place) == [jobs EXCEPT ![m].at = place]

\* isSessionBusy, on the thread's session
Busy == sess # NoSession /\ buf[sess].busy
Marked(s, busy) == IF s = NoSession THEN buf ELSE [buf EXCEPT ![s].busy = busy]

\* dispatchAction
PostAction(action) == acts' = Append(acts, action)

\* The next action starts when the previous one has ended.
Starts(kind) == turn = AtRest /\ acts # <<>> /\ Head(acts).do = kind

\* tryDrainQueue with showIndicator: the head of the queue is dequeued and its
\* indicator is being sent; "who" is the failed dispatch that drains, or NoMsg.
Drainable(busy) == queue # <<>> /\ ~busy
Dequeued(jobs, m, place, who) ==
  [jobs EXCEPT ![m] = [at |-> place, known |-> sess, target |-> NoSession, by |-> who]]
Drain(jobs, busy) ==
  /\ missed' = (missed /\ busy)
  /\ IF Drainable(busy)
     THEN /\ queue' = Tail(queue)
          /\ job' = Dequeued(jobs, Head(queue), "showing", NoMsg)
          /\ turn' = Showing(Head(queue))
     ELSE /\ job' = jobs
          /\ turn' = AtRest
          /\ UNCHANGED queue

\* A mutant of CanHandOff: the handoff of this question is forgotten.
CanHandOffAgain(q) == sess # NoSession /\ q # <<>> /\ handoff = NoMsg

\* maybeHandoffQueuedItemForPendingQuestion
CanHandOff(q) == sess # NoSession /\ ~buf[sess].handed /\ q # <<>> /\ handoff = NoMsg
HandOff ==
  IF CanHandOff(queue)
  THEN /\ queue' = Tail(queue)
       /\ handoff' = Head(queue)
       /\ job' = Dequeued(job, Head(queue), "handing", NoMsg)
       /\ past' = TRUE
  ELSE UNCHANGED <<queue, handoff, job, past>>

\* The submit action of m ends.
Released(m) == IF handoff = m THEN NoMsg ELSE handoff

-----------------------------------------------------------------------------
(* Users *)

\* enqueueViaLocalQueue
Queue(m) ==
  /\ job[m].at = "new" /\ m \in Queued
  /\ PostAction(Enqueueing(m))
  /\ job' = Put(job, m, "posted")
  /\ UNCHANGED <<queue, session, buf, handoff, turn, ui, opencode, queueHistory>>

\* A message in the thread goes to submitViaOpencodeQueue; a question on show
\* is dismissed and its run aborted first (abortActiveRunAndWait).
Say(d) ==
  /\ job[d].at = "new" /\ d \in Direct
  /\ \/ /\ ~ui
        /\ PostAction(Submitting(d))
        /\ job' = Put(job, d, "posted")
        /\ UNCHANGED aborts
     \/ /\ ui /\ aborts < MaxAborts
        /\ aborts' = aborts + 1
        /\ IF sess # NoSession
           THEN PostAction(Aborting(d)) /\ job' = Put(job, d, "dismissing")
           ELSE PostAction(Submitting(d)) /\ job' = Put(job, d, "posted")
  /\ ui' = FALSE
  /\ past' = TRUE
  /\ UNCHANGED <<queue, session, buf, handoff, turn, opencode, order, since, missed, questions,
                 retries>>

\* The wait for the aborted run ends: it is idle, or was, or two seconds passed.
StopWaiting(d) ==
  /\ job[d].at = "waiting"
  /\ job' = Put(job, d, "posted")
  /\ PostAction(Submitting(d))
  /\ UNCHANGED <<queue, session, buf, handoff, turn, ui, opencode, queueHistory>>

\* A mutant of Withdraw: the button answers, the queue keeps the message.
WithdrawKeeping(m) ==
  /\ job[m].at = "queued"
  /\ job' = Put(job, m, "withdrawn")
  /\ UNCHANGED <<queue, session, buf, handoff, turn, ui, acts, opencode, queueHistory>>

\* Editing ". queue" away, deleting the message, the button of /queue, /clear-queue
Withdraw(m) ==
  /\ \E i \in DOMAIN queue : queue[i] = m /\ queue' = RemoveAt(queue, i)
  /\ job' = Put(job, m, "withdrawn")
  /\ UNCHANGED <<session, buf, handoff, turn, ui, acts, opencode, queueHistory>>

\* abortActiveRun, for /abort
Abort ==
  /\ aborts < MaxAborts /\ saved # NoSession
  /\ aborts' = aborts + 1
  /\ ui' = FALSE
  /\ aborting' = IF sess = NoSession THEN aborting ELSE aborting \cup {sess}
  /\ PostAction(Draining)
  /\ UNCHANGED <<runtime, srv, sse, order, past, since, missed, questions, retries>>

\* The dropdowns are answered and opencode gets the reply.
Answer ==
  /\ ui
  /\ ui' = FALSE
  /\ LET asking == {s \in Sessions : srv[s] = "asking"} IN
     /\ srv' = [s \in Sessions |-> IF s \in asking THEN "running" ELSE srv[s]]
     /\ sse' = IF asking = {} THEN sse
               ELSE Append(sse, Event("replied", CHOOSE s \in asking : TRUE))
  /\ UNCHANGED <<runtime, acts, aborting, queueHistory>>

-----------------------------------------------------------------------------
(* The action queue: one action at a time, others run while it awaits *)

\* The action of enqueueViaLocalQueue: a message handed off because a question
\* is open, then the immediate drain, whose dispatch starts without an await.
RunEnqueue ==
  /\ Starts("enqueue")
  /\ LET m == Head(acts).m
         q == Append(queue, m)
         hands == ui /\ CanHandOff(q)
         rest == IF hands THEN Tail(q) ELSE q
         takes == rest # <<>> /\ ~Busy
         joined == Put(job, m, "queued")
         given == IF hands THEN Dequeued(joined, Head(q), "handing", NoMsg) ELSE joined
     IN
     /\ queue' = IF takes THEN Tail(rest) ELSE rest
     /\ job' = IF takes THEN Dequeued(given, Head(rest), "ensure", NoMsg) ELSE given
     /\ handoff' = IF hands THEN Head(q) ELSE handoff
     /\ buf' = IF takes THEN Marked(sess, TRUE) ELSE buf
     /\ past' = (past \/ hands)
     /\ missed' = (missed /\ Busy)
  /\ order' = Append(order, Head(acts).m)
  /\ acts' = Tail(acts)
  /\ UNCHANGED <<session, turn, ui, opencode, since, counts>>

RunDrain ==
  /\ Starts("drain")
  /\ acts' = Tail(acts)
  /\ Drain(job, Busy)
  /\ UNCHANGED <<session, buf, handoff, ui, opencode, order, past, since, counts>>

RunSubmit ==
  /\ Starts("submit")
  /\ acts' = Tail(acts)
  /\ turn' = Head(acts)
  /\ job' = Put(job, Head(acts).m, "ensure")
  /\ UNCHANGED <<queue, session, buf, handoff, ui, opencode, queueHistory>>

\* The action of abortActiveRunAndWait
RunAbort ==
  /\ Starts("abort")
  /\ acts' = Tail(acts)
  /\ ui' = FALSE
  /\ aborting' = aborting \cup {sess}
  /\ job' = Put(job, Head(acts).m, "waiting")
  /\ UNCHANGED <<queue, session, buf, handoff, turn, srv, sse, queueHistory>>

\* handleEvent: appendEventToBuffer, and an await for the events that need one.
Appended(e) ==
  CASE e.type = "busy" -> Marked(e.s, TRUE)
    [] e.type \in {"retry", "idle"} -> Marked(e.s, FALSE)
    [] e.type = "asked" -> [buf EXCEPT ![e.s].handed = FALSE]
    [] OTHER -> buf
\* A mutant of Awaits: a failed run is not handled.
AwaitsNoError(e) == e.s = sess /\ (e.type = "asked" \/ (e.type = "idle" /\ e.natural))
\* A mutant of Awaits: the end of a run drains nothing.
AwaitsNoIdle(e) == e.s = sess /\ e.type \in {"error", "asked"}
Awaits(e) == e.s = sess /\ (e.type \in {"error", "asked"} \/ (e.type = "idle" /\ e.natural))

\* handleSessionIdle drains nothing when the turn has no natural completion.
Unfinished(e) == e.s = sess /\ e.type = "idle" /\ ~e.natural

RunEvent ==
  /\ Starts("event")
  /\ LET e == Head(acts).e IN
     /\ buf' = Appended(e)
     /\ turn' = IF Awaits(e) THEN Head(acts) ELSE AtRest
     /\ ui' = (ui \/ (e.type = "asked" /\ e.s = sess))
     /\ IF e.type = "replied" /\ e.s = sess
        THEN acts' = Append(Tail(acts), Draining) /\ HandOff
        ELSE acts' = Tail(acts) /\ UNCHANGED <<queue, handoff, job, past>>
     /\ since' = IF e.type = "asked" /\ e.s = sess THEN 0 ELSE since
     /\ missed' = (missed \/ (Unfinished(e) /\ queue # <<>>))
  /\ UNCHANGED <<session, opencode, order, counts>>

\* The rest of handleSessionIdle, handleSessionError and handleQuestionAsked.  When the
\* report of the error cannot be sent, neither the marker is written nor the queue drained.
Settle ==
  /\ turn.do = "event"
  /\ LET e == turn.e IN
     \/ /\ e.type = "idle"
        /\ Drain(job, Busy)
        /\ UNCHANGED <<buf, handoff, past>>
     \/ /\ e.type = "error"
        /\ buf' = Marked(e.s, FALSE)
        /\ Drain(job, FALSE)
        /\ UNCHANGED <<handoff, past>>
     \/ /\ e.type = "error" /\ "tell" \in Faults
        /\ turn' = AtRest
        /\ missed' = TRUE
        /\ UNCHANGED <<queue, job, buf, handoff, past>>
     \/ /\ e.type = "asked"
        /\ turn' = AtRest
        /\ HandOff
        /\ UNCHANGED <<buf, missed>>
  /\ UNCHANGED <<session, ui, acts, opencode, order, since, counts>>

-----------------------------------------------------------------------------
(* A dequeued message: its indicator, then its dispatch or its submission *)

\* A mutant of Shown: the window until opencode's own busy event is left open.
ShownUnmarked(m) ==
  /\ job[m].at = "showing" /\ job[m].by = NoMsg
  /\ turn' = AtRest
  /\ job' = Put(job, m, "ensure")
  /\ UNCHANGED <<queue, session, buf, handoff, ui, acts, opencode, queueHistory>>

\* tryDrainQueue after the indicator: mark busy, start the detached dispatch.
\* A failed dispatch that drained goes on to its finally.
Shown(m) ==
  /\ job[m].at = "showing"
  /\ buf' = Marked(job[m].known, TRUE)
  /\ IF job[m].by = NoMsg
     THEN turn' = AtRest /\ job' = Put(job, m, "ensure")
     ELSE job' = Put(Put(job, m, "ensure"), job[m].by, "failing") /\ UNCHANGED turn
  /\ UNCHANGED <<queue, session, handoff, ui, acts, opencode, queueHistory>>

\* handoffQueuedItemForPendingQuestion after the indicator
HandoffShown ==
  /\ handoff # NoMsg /\ job[handoff].at = "handing"
  /\ buf' = [buf EXCEPT ![job[handoff].known].handed = TRUE]
  /\ job' = Put(job, handoff, "posted")
  /\ PostAction(Submitting(handoff))
  /\ since' = since + 1
  /\ UNCHANGED <<queue, session, handoff, turn, ui, opencode, order, past, missed, counts>>

\* sendThreadMessage throws: the message is in no queue any more.
ShowFails(m) ==
  /\ "send" \in Faults
  /\ \/ /\ job[m].at = "showing" /\ job[m].by = NoMsg
        /\ turn' = AtRest
        /\ job' = Put(job, m, "lost")
        /\ missed' = (missed \/ queue # <<>>)
        /\ UNCHANGED <<buf, handoff>>
     \/ /\ job[m].at = "showing" /\ job[m].by # NoMsg
        /\ job' = Put(Put(job, m, "lost"), job[m].by, "failing")
        /\ buf' = Marked(job[job[m].by].known, FALSE)
        /\ UNCHANGED <<turn, handoff, missed>>
     \/ /\ job[m].at = "handing"
        /\ handoff' = NoMsg
        /\ job' = Put(job, m, "lost")
        /\ UNCHANGED <<turn, buf, missed>>
  /\ UNCHANGED <<queue, session, ui, acts, opencode, order, past, since, counts>>

Submits(m) == turn.do = "submit" /\ turn.m = m

\* ensureSession: the session in memory, else the stored one
EnsureSession(m) ==
  /\ job[m].at = "ensure"
  /\ LET s == IF sess # NoSession THEN sess ELSE saved IN
     IF s = NoSession THEN job' = Put(job, m, "create") /\ UNCHANGED <<session>>
     ELSE /\ job' = [job EXCEPT ![m].at = "prompt", ![m].target = s]
          /\ sess' = s /\ saved' = s
  /\ UNCHANGED <<queue, buf, handoff, turn, ui, acts, opencode, queueHistory>>

Created == {job[m].target : m \in Msgs} \cup {Known, Saved}

\* ensureSession: session.create
CreateSession(m) ==
  /\ job[m].at = "create"
  /\ \E s \in Sessions \ Created :
       /\ job' = [job EXCEPT ![m].at = "prompt", ![m].target = s]
       /\ sess' = s /\ saved' = s
  /\ UNCHANGED <<queue, buf, handoff, turn, ui, acts, opencode, queueHistory>>

\* promptAsync (session.command) is accepted.  A prompt starts a run, or joins
\* the one in progress.
Prompt(m) ==
  /\ job[m].at = "prompt"
  /\ job' = Put(job, m, "reply")
  /\ LET s == job[m].target IN
     IF srv[s] = "idle"
     THEN srv' = [srv EXCEPT ![s] = "running"] /\ sse' = Append(sse, Event("busy", s))
     ELSE UNCHANGED <<srv, sse>>
  /\ UNCHANGED <<queue, session, buf, handoff, turn, ui, acts, aborting, queueHistory>>

\* submitViaOpencodeQueue after the response: mark busy.
SubmitEnds(m) ==
  /\ job[m].at = "reply" /\ Submits(m)
  /\ buf' = Marked(job[m].target, TRUE)
  /\ job' = Put(job, m, "prompted")
  /\ turn' = AtRest
  /\ handoff' = Released(m)
  /\ UNCHANGED <<queue, session, ui, acts, opencode, queueHistory>>

\* The finally of a detached dispatch
DispatchEnds(m) ==
  /\ job[m].at \in {"reply", "failing"} /\ ~Submits(m)
  /\ job' = Put(job, m, IF job[m].at = "reply" THEN "prompted" ELSE "failed")
  /\ PostAction(Draining)
  /\ UNCHANGED <<queue, session, buf, handoff, turn, ui, opencode, queueHistory>>

\* dispatchPrompt reports an error to the thread and returns: it drains first,
\* directly before the prompt call, through the action queue after it.
DispatchFails(m) ==
  /\ "report" \in Faults /\ ~Submits(m)
  /\ \/ /\ job[m].at \in {"ensure", "create", "prompt"}
        /\ job' = Put(job, m, "report")
        /\ UNCHANGED acts
     \/ /\ job[m].at = "prompt"
        /\ job' = Put(job, m, "failing")
        /\ PostAction(Draining)
  /\ UNCHANGED <<queue, session, buf, handoff, turn, ui, opencode, queueHistory>>

Reported(m) ==
  /\ job[m].at = "report" /\ ~\E n \in Msgs : job[n].at = "showing" /\ job[n].by = m
  /\ missed' = (missed /\ Busy)
  /\ IF Drainable(Busy)
     THEN /\ queue' = Tail(queue)
          /\ job' = Dequeued(job, Head(queue), "showing", m)
     ELSE /\ job' = Put(job, m, "failing")
          /\ UNCHANGED queue
  /\ UNCHANGED <<session, buf, handoff, turn, ui, acts, opencode, order, past, since, counts>>

\* dispatchPrompt throws before the prompt is accepted.
DispatchThrows(m) ==
  /\ "throw" \in Faults /\ ~Submits(m)
  /\ job[m].at \in {"ensure", "create", "prompt"}
  /\ buf' = Marked(job[m].known, FALSE)
  /\ job' = Put(job, m, "failing")
  /\ UNCHANGED <<queue, session, handoff, turn, ui, acts, opencode, queueHistory>>

\* cleanupOnError of submitViaOpencodeQueue
SubmitFails(m) ==
  /\ "report" \in Faults /\ Submits(m)
  /\ job[m].at \in {"ensure", "create", "prompt"}
  /\ Drain(Put(job, m, "failed"), Busy)
  /\ handoff' = Released(m)
  /\ UNCHANGED <<session, buf, ui, acts, opencode, order, past, since, counts>>

-----------------------------------------------------------------------------
(* opencode, and its event stream *)

Server(s, from, to, e) ==
  /\ srv[s] = from
  /\ srv' = [srv EXCEPT ![s] = to]
  /\ sse' = Append(sse, e)
  /\ UNCHANGED <<runtime, ui, acts, order, past, since, missed, aborts>>

\* The run ends, in a natural completion or unfinished: no answer, an answer with an
\* error, or one that ends in tool calls (doesLatestUserTurnHaveNaturalCompletion).
RunCompletes(s) ==
  /\ \E natural \in BOOLEAN :
       /\ natural \/ "unfinished" \in Faults
       /\ Server(s, "running", "idle", [Event("idle", s) EXCEPT !.natural = natural])
  /\ UNCHANGED <<aborting, questions, retries>>

RunErrs(s) ==
  /\ "error" \in Faults
  /\ Server(s, "running", "idle", Event("error", s))
  /\ UNCHANGED <<aborting, questions, retries>>

RunRetries(s) ==
  /\ retries < MaxRetries
  /\ retries' = retries + 1
  /\ Server(s, "running", "retrying", Event("retry", s))
  /\ UNCHANGED <<aborting, questions>>

RetryStarts(s) ==
  /\ Server(s, "retrying", "running", Event("busy", s))
  /\ UNCHANGED <<aborting, questions, retries>>

RunAsks(s) ==
  /\ questions < MaxQuestions
  /\ questions' = questions + 1
  /\ Server(s, "running", "asking", Event("asked", s))
  /\ UNCHANGED <<aborting, retries>>

\* session.abort arrives: the run ends, and not naturally.
AbortArrives(s) ==
  /\ s \in aborting
  /\ aborting' = aborting \ {s}
  /\ IF srv[s] = "idle"
     THEN UNCHANGED <<runtime, ui, acts, srv, sse, order, past, since, missed, aborts>>
     ELSE Server(s, srv[s], "idle", Event("idle", s))
  /\ UNCHANGED <<questions, retries>>

\* The global listener hands an event to the runtime.
Deliver ==
  /\ sse # <<>>
  /\ PostAction(Handling(Head(sse)))
  /\ sse' = Tail(sse)
  /\ UNCHANGED <<runtime, ui, srv, aborting, queueHistory>>

-----------------------------------------------------------------------------
RunAction == RunEnqueue \/ RunDrain \/ RunSubmit \/ RunAbort \/ RunEvent \/ Settle

Works(m) ==
  \/ Shown(m) \/ EnsureSession(m) \/ CreateSession(m) \/ Prompt(m) \/ SubmitEnds(m)
  \/ DispatchEnds(m) \/ Reported(m)

Fails(m) == ShowFails(m) \/ DispatchFails(m) \/ DispatchThrows(m) \/ SubmitFails(m)

Next ==
  \/ \E m \in Msgs : Queue(m) \/ Say(m) \/ StopWaiting(m) \/ Withdraw(m)
  \/ Abort \/ Answer
  \/ RunAction \/ HandoffShown \/ Deliver
  \/ \E m \in Msgs : Works(m) \/ Fails(m)
  \/ \E s \in Sessions :
       \/ RunCompletes(s) \/ RunErrs(s) \/ RunRetries(s) \/ RetryStarts(s)
       \/ RunAsks(s) \/ AbortArrives(s)

Spec == Init /\ [][Next]_vars

\* The event loop, the network and opencode make progress; users need not.
\* A run ends, and a retry starts after its delay.
Fairness ==
  /\ WF_vars(RunAction) /\ WF_vars(HandoffShown) /\ WF_vars(Deliver)
  /\ \A m \in Msgs : WF_vars(Works(m)) /\ WF_vars(StopWaiting(m))
  /\ \A s \in Sessions : WF_vars(RunCompletes(s)) /\ WF_vars(RetryStarts(s))

FairSpec == Spec /\ Fairness

-----------------------------------------------------------------------------
(* Properties *)

\* Dequeued messages opencode has not been given yet
InDispatch == {m \in Queued : job[m].at \in {"showing", "ensure", "create", "prompt"}
                                /\ ~Submits(m) }

\* The thread has its session from the start, and no message went past the queue.
\* One that does, also a handed-off one, starts a run of its own next to the
\* queue's: the end of either run drains while the other is still going on, or while
\* an earlier dispatch is on its way.  So does a run that opencode retries, which
\* counts as idle until the retry; and a thread without a session is never busy.
Alone == Known # NoSession /\ ~past /\ retries = 0

\* The busy marker closes the window before opencode's own busy event: two
\* dequeued messages are never on their way to opencode at once.
OneDispatchAtATime == Alone => Cardinality(InDispatch) <= 1

\* tryDrainQueue takes a message only when the session's run is over, whatever
\* events are still on their way (the derivation never lags on the wrong side).
TakesAfterTheRun ==
  \A m \in Queued :
    (/\ job[m].at \in {"queued", "posted"} /\ job'[m].at \in {"showing", "ensure"}
     /\ ~Submits(m)' /\ Alone)
      => srv[sess] = "idle"
WaitsForTheRun == [][TakesAfterTheRun]_vars

\* Messages that waited in the queue are prompted in the order they came: an
\* overtaken message has failed or was withdrawn.
Waiting == {m \in Queued : job[m].at \in {"queued", "showing", "handing", "posted",
                                          "ensure", "create", "prompt"}}
Came(m, n) == \E i, j \in DOMAIN order : i < j /\ order[i] = m /\ order[j] = n
PromptsNext ==
  \A m, n \in Queued :
    (Alone /\ Came(m, n) /\ job[n].at = "prompt" /\ job'[n].at = "reply") => m \notin Waiting
PromptedInOrder == [][PromptsNext]_vars

\* One question hands over one message: the later ones stay in the queue.  (Two
\* sessions that are created at once can ask, and be given messages, in turn.)
OneHandoffPerQuestion == Saved # NoSession => since <= 1

Quiet ==
  /\ acts = <<>> /\ turn = AtRest /\ sse = <<>> /\ aborting = {}
  /\ \A s \in Sessions : srv[s] = "idle"
  /\ \A m \in Msgs : job[m].at \in {"new", "queued", "prompted", "failed", "lost", "withdrawn"}

\* When nothing is in flight any more, nothing is left in the queue, unless a drain was
\* missed and none came since: the last run ended unfinished or was aborted, its failure
\* could not be reported, or the drain itself could not send its indicator.
NothingStranded == Quiet /\ ~missed => queue = <<>>

\* Every queued message leaves the queue, unless such a drain is missed first.
QueueDrains == \A m \in Queued : job[m].at = "queued" ~> (job[m].at # "queued" \/ missed)

=============================================================================
