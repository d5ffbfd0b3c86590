-------------------------- MODULE RuntimeRegistry --------------------------
(***************************************************************************)
(* The registry of thread runtimes, for one thread: a message finds or     *)
(* makes the thread's runtime and goes through enqueueIncoming to opencode *)
(* or to the local queue, the idle sweeper disposes a runtime that has     *)
(* nothing to do, and /restart disposes it whatever it does.  A disposed   *)
(* runtime drops its actions and no longer sees the session's events.      *)
(*                                                                         *)
(* Abstractions.  Time is one bit: whether the latest activity, and the    *)
(* thread's creation, are less than a day ago.  A day does not pass while  *)
(* messages are in hand or events on their way.  The database answers in   *)
(* the order of the calls.  Submissions succeed, and what ThreadQueue says *)
(* of runs, questions and the queue is here only as far as the sweeper     *)
(* reads it; the buffer of a new runtime is empty.                         *)
(***************************************************************************)
EXTENDS Naturals, Sequences, FiniteSets, SequencesExt

CONSTANTS RegMessages,
          RegGiven,       \* messages that may name the session's parent
          MaxRegRuntimes, \* bound: runtimes made for the thread
          MaxRegRestarts  \* bound: /restart commands

ASSUME RegAssumption ==
  /\ RegGiven \subseteq RegMessages /\ {MaxRegRuntimes, MaxRegRestarts} \subseteq Nat
  /\ RegMessages \cap {"busy", "idle"} = {}

NoRuntime == 0
RegRuntimes == 1 .. MaxRegRuntimes

VARIABLES
  msg,         \* message -> how far it is, the runtime it was given to, and whether it
               \* names the session's parent
  calls,       \* history: messages in the order of their enqueueIncoming calls
  links,       \* messages in the order they were linked to a preprocessChain
  rt,          \* runtimes: the thread's runtime
  rtMade,      \* runtimes made so far
  restarted,   \* runtimes disposed by /restart
  recent,      \* the runtime's latest activity is less than a day ago
  young,       \* the thread was created less than a day ago
  known,       \* the session is in the thread's state
  parentKnown, \* and so is its parent
  parentSaved, \* thread_sessions.parent_session_id
  lifecycle,   \* the latest lifecycle event in the buffer
  actions,     \* actionQueue, with the action being run at its head
  items,       \* queueItems
  pendingUi,          \* the thread has pending interactive UI
  run,         \* opencode: the messages of the run in progress
  stream       \* opencode's events on their way

regState == <<recent, known, parentKnown, lifecycle, actions, items, pendingUi>>
regVars == <<msg, calls, links, rt, rtMade, restarted, young, parentSaved, regState, run, stream>>

RegPlaces == {"new", "parent", "writing", "chain", "pre", "posted", "enqueue", "acting",
              "queued", "dispatching", "sent", "skipped", "dropped"}

RegTypeOK ==
  /\ msg \in [RegMessages -> [at : RegPlaces, rt : 0 .. MaxRegRuntimes, given : BOOLEAN,
                               detached : BOOLEAN]]
  /\ {calls, links, items} \subseteq Seq(RegMessages)
  /\ rt \in 0 .. MaxRegRuntimes /\ rtMade \in 0 .. MaxRegRuntimes
  /\ restarted \subseteq RegRuntimes
  /\ {recent, young, known, parentKnown, parentSaved, pendingUi} \subseteq BOOLEAN
  /\ lifecycle \in {"none", "busy", "idle"}
  /\ actions \in Seq(RegMessages \cup {"busy", "idle"})
  /\ run \subseteq RegMessages /\ stream \in Seq({"busy", "idle"})

\* The state of a runtime that was just made, or of none
Pristine(active) ==
  /\ recent' = active /\ known' = FALSE /\ parentKnown' = FALSE /\ lifecycle' = "none"
  /\ actions' = <<>> /\ items' = <<>> /\ pendingUi' = FALSE

RegInit ==
  /\ msg = [m \in RegMessages |-> [at |-> "new", rt |-> NoRuntime, given |-> FALSE,
                               detached |-> FALSE]]
  /\ calls = <<>> /\ links = <<>>
  /\ rt = NoRuntime /\ rtMade = 0 /\ restarted = {}
  /\ young \in BOOLEAN /\ parentSaved \in BOOLEAN
  /\ recent = FALSE /\ known = FALSE /\ parentKnown = FALSE /\ lifecycle = "none"
  /\ actions = <<>> /\ items = <<>> /\ pendingUi = FALSE
  /\ run = {} /\ stream = <<>>

-----------------------------------------------------------------------------
(* Ingress *)

Moves(m, place) == msg' = [msg EXCEPT ![m].at = place]
Mine(m) == msg[m].rt = rt
Links(m) == links' = Append(links, m)

\* getOrCreateRuntime, pending UI is dismissed, enqueueIncoming is called.  A new
\* runtime has no events: its latest activity is the thread's creation.
RegArrives(m) ==
  /\ msg[m].at = "new"
  /\ calls' = Append(calls, m)
  /\ IF rt = NoRuntime
     THEN /\ rtMade < MaxRegRuntimes
          /\ rtMade' = rtMade + 1 /\ rt' = rtMade'
          /\ Pristine(young)
     ELSE /\ pendingUi' = FALSE
          /\ UNCHANGED <<rtMade, rt, recent, known, parentKnown, lifecycle, actions, items>>
  /\ \E given \in {FALSE, (m \in RegGiven)} :
       msg' = [msg EXCEPT ![m].at = IF parentKnown' THEN "chain" ELSE "parent",
                          ![m].rt = rt', ![m].given = given]
  /\ IF parentKnown' THEN Links(m) ELSE UNCHANGED links
  /\ UNCHANGED <<restarted, young, parentSaved, run, stream>>

Later(m) == {n \in RegMessages : \E i, j \in DOMAIN calls :
                                   i < j /\ calls[i] = m /\ calls[j] = n}

\* ensureParentSessionId: the read of the stored parent returns; a parent that came
\* with the message and is stored nowhere yet is remembered, then written.
ParentRead(m) ==
  /\ msg[m].at = "parent"
  /\ \A n \in RegMessages : m \in Later(n) => msg[n].at # "parent"
  /\ parentKnown' = IF Mine(m) THEN parentKnown \/ parentSaved \/ msg[m].given ELSE parentKnown
  /\ IF parentSaved \/ ~msg[m].given
     THEN Moves(m, "chain") /\ Links(m)
     ELSE Moves(m, "writing") /\ UNCHANGED links
  /\ UNCHANGED <<calls, rt, rtMade, restarted, recent, young, known, parentSaved, lifecycle,
                 actions, items, pendingUi, run, stream>>

\* The write has no effect while the thread has no row.
ParentWritten(m) ==
  /\ msg[m].at = "writing"
  /\ parentSaved' \in {parentSaved, TRUE}
  /\ Moves(m, "chain") /\ Links(m)
  /\ UNCHANGED <<calls, rt, rtMade, restarted, young, regState, run, stream>>

\* A mutant of LinkReached: messages are preprocessed as they come.
LinkIsFree(m) == TRUE

\* The links of the runtime's chain before m's have ended, each with its enqueue.
LinkReached(m) ==
  \A i, j \in DOMAIN links :
    (i < j /\ links[j] = m /\ msg[links[i]].rt = msg[m].rt)
      => msg[links[i]].at \notin {"chain", "pre", "posted", "enqueue", "acting"}

PreprocessStarts(m) ==
  /\ msg[m].at = "chain" /\ LinkReached(m)
  /\ Moves(m, "pre")
  /\ UNCHANGED <<calls, links, rt, rtMade, restarted, young, parentSaved, regState, run, stream>>

\* The preprocessor found nothing to send, or the way to send it; then dispatchAction,
\* which returns at once when the runtime is disposed.
Preprocessed(m) ==
  /\ msg[m].at = "pre"
  /\ \/ Moves(m, "skipped") /\ UNCHANGED actions
     \/ Mine(m) /\ actions' = Append(actions, m)
          /\ \E place \in {"posted", "enqueue"} : Moves(m, place)
     \/ ~Mine(m) /\ Moves(m, "dropped") /\ UNCHANGED actions
  /\ UNCHANGED <<calls, links, rt, rtMade, restarted, recent, young, known, parentKnown,
                 parentSaved, lifecycle, items, pendingUi, run, stream>>

-----------------------------------------------------------------------------
(* The actions of the runtime *)

SessionBusy == known /\ lifecycle = "busy"
Heads(m) == actions # <<>> /\ Head(actions) = m

SubmitStarts(m) ==
  /\ Heads(m) /\ msg[m].at = "posted"
  /\ Moves(m, "acting")
  /\ UNCHANGED <<calls, links, rt, rtMade, restarted, young, parentSaved, regState, run, stream>>

\* opencode accepts a prompt: it starts a run or joins the one in progress.
Accepts(m) ==
  /\ run' = run \cup {m}
  /\ stream' = IF run = {} THEN Append(stream, "busy") ELSE stream

\* promptAsync of submitViaOpencodeQueue, then markQueueDispatchBusy.  A run goes on
\* when its runtime was disposed meanwhile, but that marks nothing any more.
SubmitAccepted(m) ==
  /\ msg[m].at = "acting"
  /\ Moves(m, "sent") /\ Accepts(m)
  /\ IF Mine(m)
     THEN /\ known' = TRUE /\ lifecycle' = "busy" /\ recent' = TRUE
          /\ actions' = Tail(actions)
     ELSE UNCHANGED <<known, lifecycle, recent, actions>>
  /\ UNCHANGED <<calls, links, rt, rtMade, restarted, young, parentKnown, parentSaved, items, pendingUi>>

\* tryDrainQueue on queue q after the lifecycle event e: the head's dispatch is
\* detached, and marked busy when the session is known.
Drains(q, e) ==
  IF q # <<>> /\ ~(known /\ e = "busy")
  THEN /\ msg' = [msg EXCEPT ![Head(q)].at = "dispatching", ![Head(q)].detached = TRUE]
       /\ items' = Tail(q)
       /\ lifecycle' = IF known THEN "busy" ELSE e
  ELSE /\ msg' = [m \in RegMessages |-> IF \E i \in DOMAIN q : q[i] = m
                                        THEN [msg[m] EXCEPT !.at = "queued"] ELSE msg[m]]
       /\ items' = q /\ lifecycle' = e

\* The action of enqueueViaLocalQueue.  Nothing is left behind a message that is
\* dispatched: the queue was empty, or its session busy.
Enqueued(m) ==
  /\ Heads(m) /\ msg[m].at = "enqueue"
  /\ Drains(Append(items, m), lifecycle)
  /\ recent' = (recent \/ (known /\ lifecycle # "busy"))
  /\ actions' = Tail(actions)
  /\ UNCHANGED <<calls, links, rt, rtMade, restarted, young, known, parentKnown, parentSaved, pendingUi,
                 run, stream>>

\* The prompt of a detached dispatch is accepted.
DispatchAccepted(m) ==
  /\ msg[m].at = "dispatching"
  /\ Moves(m, "sent") /\ Accepts(m)
  /\ known' = (known \/ Mine(m))
  /\ UNCHANGED <<calls, links, rt, rtMade, restarted, recent, young, parentKnown, parentSaved,
                 lifecycle, actions, items, pendingUi>>

\* handleEvent; the end of a run drains the queue.
EventHandled(e) ==
  /\ Heads(e)
  /\ actions' = Tail(actions) /\ recent' = TRUE
  /\ IF e = "idle" THEN Drains(items, e) ELSE lifecycle' = e /\ UNCHANGED <<msg, items>>
  /\ UNCHANGED <<calls, links, rt, rtMade, restarted, young, known, parentKnown, parentSaved, pendingUi,
                 run, stream>>

-----------------------------------------------------------------------------
(* opencode, users and time *)

RegRunEnds ==
  /\ run # {} /\ ~pendingUi
  /\ run' = {} /\ stream' = Append(stream, "idle")
  /\ UNCHANGED <<msg, calls, links, rt, rtMade, restarted, young, parentSaved, regState>>

\* The global listener: without a runtime of the thread the event is lost.
RegDelivers ==
  /\ stream # <<>> /\ stream' = Tail(stream)
  /\ actions' = IF rt = NoRuntime THEN actions ELSE Append(actions, Head(stream))
  /\ UNCHANGED <<msg, calls, links, rt, rtMade, restarted, recent, young, known, parentKnown,
                 parentSaved, lifecycle, items, pendingUi, run>>

\* An event of any other session: it is appended before the session is looked at.
OtherSessionsEvent ==
  /\ rt # NoRuntime /\ ~recent
  /\ recent' = TRUE
  /\ UNCHANGED <<msg, calls, links, rt, rtMade, restarted, young, known, parentKnown,
                 parentSaved, lifecycle, actions, items, pendingUi, run, stream>>

\* The agent asks, or shows buttons; the user answers.
UiToggles ==
  /\ rt # NoRuntime /\ (pendingUi \/ run # {})
  /\ pendingUi' = ~pendingUi
  /\ UNCHANGED <<msg, calls, links, rt, rtMade, restarted, recent, young, known, parentKnown,
                 parentSaved, lifecycle, actions, items, run, stream>>

InHand(m) == msg[m].at \in {"parent", "writing", "chain", "pre", "posted", "enqueue", "acting",
                            "dispatching"}

DayPasses ==
  /\ recent \/ young
  /\ actions = <<>> /\ stream = <<>> /\ \A m \in RegMessages : ~InHand(m)
  /\ recent' = FALSE /\ young' = FALSE
  /\ UNCHANGED <<msg, calls, links, rt, rtMade, restarted, known, parentKnown, parentSaved,
                 lifecycle, actions, items, pendingUi, run, stream>>

\* A mutant of IsIdleCandidate: actions being run do not count.
IsIdleCandidateBetweenActions == ~SessionBusy /\ items = <<>> /\ ~pendingUi

\* isIdleCandidateForInactivityCheck
IsIdleCandidate == ~SessionBusy /\ items = <<>> /\ ~pendingUi /\ actions = <<>>

\* disposeInactiveRuntimes
Sweeps ==
  /\ rt # NoRuntime /\ ~recent /\ IsIdleCandidate
  /\ rt' = NoRuntime /\ Pristine(FALSE)
  /\ UNCHANGED <<msg, calls, links, rtMade, restarted, young, parentSaved, run, stream>>

\* /restart: the runtime is disposed, its queue and its actions are dropped, except
\* the action being run; opencode's runs die.
RestartsServer ==
  /\ rt # NoRuntime /\ Cardinality(restarted) < MaxRegRestarts
  /\ restarted' = restarted \cup {rt}
  /\ rt' = NoRuntime /\ Pristine(FALSE)
  /\ msg' = [m \in RegMessages |->
               IF Mine(m) /\ msg[m].at \in {"posted", "enqueue", "queued"}
               THEN [msg[m] EXCEPT !.at = "dropped"] ELSE msg[m]]
  /\ run' = {} /\ stream' = <<>>
  /\ UNCHANGED <<calls, links, rtMade, young, parentSaved>>

-----------------------------------------------------------------------------
Ingress(m) ==
  \/ RegArrives(m) \/ ParentRead(m) \/ ParentWritten(m) \/ PreprocessStarts(m) \/ Preprocessed(m)

RegNext ==
  \/ \E m \in RegMessages :
       Ingress(m) \/ SubmitStarts(m) \/ SubmitAccepted(m) \/ Enqueued(m) \/ DispatchAccepted(m)
  \/ \E e \in {"busy", "idle"} : EventHandled(e)
  \/ RegRunEnds \/ RegDelivers \/ OtherSessionsEvent \/ UiToggles
  \/ DayPasses \/ Sweeps \/ RestartsServer

RegSpec == RegInit /\ [][RegNext]_regVars

-----------------------------------------------------------------------------
(* Properties *)

\* A run in progress has a runtime that sees its events and shows its answer, however
\* long it is silent: the sweeper never takes it.  Excepted are what the runtime of
\* a /restart goes on to send, and detached dispatches.
RegRunsAreWatched ==
  \A m \in run : rt # NoRuntime \/ msg[m].rt \in restarted \/ msg[m].detached

\* Messages sent to a thread one after the other reach opencode in this order,
\* however long each takes to be preprocessed.  In a thread with a parent session
\* they may not: what is awaited before the chain differs from one to the next.
NoParent == ~parentSaved /\ \A m \in RegMessages : ~msg[m].given
RegArrivalOrder ==
  [][\A m, n \in RegMessages :
       (/\ NoParent /\ msg[m].at = "acting" /\ msg'[m].at = "sent"
        /\ m \in Later(n) /\ msg[n].rt = msg[m].rt)
         => ~InHand(n) \/ msg[n].detached]_regVars
=============================================================================
