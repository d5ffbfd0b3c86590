----------------------------- MODULE RpcSession -----------------------------
(***************************************************************************)
(* The omo RPC backend of one Discord thread (omo-bridge/rpc-session and   *)
(* rpc-client).  Turns, requests of commands and /abort share one map      *)
(* entry, the live session of the thread, and the client it holds at the   *)
(* moment; every client owns one omo child process and has the requests    *)
(* and the waiters its death rejects.  A turn is bounded by a deadline, is *)
(* retried once when the child dies, and a child that dies at startup has  *)
(* its session file quarantined and is replaced.                           *)
(*                                                                         *)
(* Abstractions.  A live session is named by the caller that started it,   *)
(* its clients by what they were created for.  Events are dispatched to    *)
(* the runtime at once and in order; only busy and idle are kept of them.  *)
(* The child answers, refuses, settles or dies, or does none of it.  The   *)
(* live follow of a resumed file, extension UI requests, the prompts of    *)
(* commands and the disposal of the runtime are left out.                  *)
(***************************************************************************)
EXTENDS Naturals, FiniteSets

CONSTANTS RpcTurns,    \* user turns: submitViaOmoRpc
          RpcCalls,    \* requests of commands: withRpcClient
          RpcAborts,   \* aborts: abortRpcSession
          NoLive,
          RpcCasts,    \* the sets of callers that act together
          MaxRpcDeaths \* bound: children that die on their own

RpcCallers == RpcTurns \cup RpcCalls \cup RpcAborts

ASSUME RpcAssumption ==
  /\ RpcTurns \cap RpcCalls = {} /\ RpcTurns \cap RpcAborts = {} /\ RpcCalls \cap RpcAborts = {}
  /\ NoLive \notin RpcCallers /\ MaxRpcDeaths \in Nat /\ IsFiniteSet(RpcTurns)
  /\ RpcCasts \subseteq SUBSET RpcCallers

\* The clients of a live session: the one it starts with, the one that replaces
\* it after a startup death, the one of the mid-turn retry.
ClientUses == {"first", "fresh", "retry"}

VARIABLES
  sessions,  \* the live session of the thread
  live,      \* caller -> the LiveSession it created
  client,    \* caller, use -> the client created for that use
  rpc,       \* caller -> its progress
  idled,     \* history: turns after whose busy event an idle event was dispatched
  deaths     \* children that died on their own

rpcVars == <<sessions, live, client, rpc, idled, deaths>>

RpcSteps == {"new", "starting", "probing", "handle", "begun", "asked", "waiting", "dead",
          "deadline", "aborting", "stop", "stopping",
          "settled", "early", "swallowed", "gaveup", "failed", "answered"}
RpcEnded == {"settled", "early", "swallowed", "gaveup", "failed", "answered"}

RpcClient == [running : BOOLEAN, up : BOOLEAN,
           pending : SUBSET RpcCallers,   \* pendingRequests
           waiters : SUBSET RpcCallers,   \* settledWaiters
           spare : 0 .. Cardinality(RpcTurns),  \* settledCount
           work : SUBSET RpcCallers]      \* prompts the child works on
NoClient == [running |-> FALSE, up |-> FALSE, pending |-> {}, waiters |-> {}, spare |-> 0,
             work |-> {}]
NewClient == [NoClient EXCEPT !.running = TRUE, !.up = TRUE]

RpcTypeOK ==
  /\ sessions \in RpcCallers \cup {NoLive}
  /\ live \in [RpcCallers -> [use : ClientUses, adapting : BOOLEAN, retried : BOOLEAN]]
  /\ client \in [RpcCallers -> [ClientUses -> RpcClient]]
  /\ rpc \in [RpcCallers -> [at : RpcSteps, of : RpcCallers \cup {NoLive}, use : ClientUses,
                             again : BOOLEAN]]
  /\ idled \subseteq RpcTurns /\ deaths \in 0 .. MaxRpcDeaths

RpcStartsWith(cast) ==
  /\ sessions = NoLive
  /\ live = [x \in RpcCallers |-> [use |-> "first", adapting |-> FALSE, retried |-> FALSE]]
  /\ client = [x \in RpcCallers |-> [u \in ClientUses |-> NoClient]]
  /\ rpc = [x \in RpcCallers |-> [at |-> IF x \in cast THEN "new" ELSE "failed",
                                  of |-> NoLive, use |-> "first", again |-> FALSE]]
  /\ idled = {} /\ deaths = 0
RpcInit == \E cast \in RpcCasts : RpcStartsWith(cast)

-----------------------------------------------------------------------------
RpcAt(x, step) == rpc[x].at = step
RpcGoes(x, step) == rpc' = [rpc EXCEPT ![x].at = step]
\* live.client of the live session x uses
Cl(x) == client[rpc[x].of][live[rpc[x].of].use]

\* Turns of live session l that have been shown busy
InTurn(l) == {t \in RpcTurns : rpc[t].of = l
                /\ rpc[t].at \notin RpcEnded \cup {"new", "starting", "probing", "handle"}}

\* adapter.abort: an idle event, which settles every turn shown busy
AbortAdapter(l) ==
  /\ live' = [live EXCEPT ![l].adapting = FALSE]
  /\ idled' = idled \cup InTurn(l)

ForgetSession == sessions' = NoLive

\* Client <<l, u>> rejects its requests and waits: the callers it leaves waiting
RejectedBy(l, u) == {x \in client[l][u].pending \cup client[l][u].waiters :
                  rpc[x].use = u /\ rpc[x].at \in {"probing", "asked", "waiting", "aborting"}}

\* failWith: the child exited unexpectedly.  For a turn this is a transport
\* death, for the first client of a session a startup death.
AfterExit(l, u) ==
  [x \in RpcCallers |->
     IF x \notin RejectedBy(l, u) THEN rpc[x]
     ELSE CASE x \in RpcTurns /\ rpc[x].at \in {"asked", "waiting"} -> [rpc[x] EXCEPT !.at = "dead"]
            [] rpc[x].at = "aborting" -> [rpc[x] EXCEPT !.at = "stop"]
            [] rpc[x].at = "probing" /\ u = "first" ->
                 [rpc[x] EXCEPT !.at = "starting", !.use = "fresh"]
            [] OTHER -> [rpc[x] EXCEPT !.at = "failed"]]

\* stop(): "omo rpc client stopped", which the first attempt of a turn swallows
AfterStop(l, u) ==
  [x \in RpcCallers |->
     IF x \notin RejectedBy(l, u) THEN rpc[x]
     ELSE CASE x \in RpcTurns /\ rpc[x].at \in {"asked", "waiting"} /\ ~rpc[x].again ->
                 [rpc[x] EXCEPT !.at = "swallowed"]
            [] rpc[x].at = "aborting" -> [rpc[x] EXCEPT !.at = "stop"]
            [] OTHER -> [rpc[x] EXCEPT !.at = "failed"]]

-----------------------------------------------------------------------------
(* getOrStartRpcSession *)

\* The map is read; a session that is being started is not in it yet.
GetSession(x) ==
  /\ RpcAt(x, "new") /\ x \notin RpcAborts
  /\ rpc' = [rpc EXCEPT ![x].at = IF sessions = NoLive THEN "starting" ELSE "handle",
                        ![x].of = IF sessions = NoLive THEN x ELSE sessions]
  /\ UNCHANGED <<sessions, live, client, idled, deaths>>

\* client.start() and the liveness probe; after a startup death the session
\* file is quarantined and a fresh client is started.
StartChild(x) ==
  /\ RpcAt(x, "starting")
  /\ client' = [client EXCEPT ![x][rpc[x].use] = [NewClient EXCEPT !.pending = {x}]]
  /\ RpcGoes(x, "probing")
  /\ UNCHANGED <<sessions, live, idled, deaths>>

\* The probe is answered: the session is entered in the map.
RegisterSession(x) ==
  /\ RpcAt(x, "probing") /\ client[x][rpc[x].use].up
  /\ client' = [client EXCEPT ![x][rpc[x].use].pending = @ \ {x}]
  /\ live' = [live EXCEPT ![x].use = rpc[x].use]
  /\ sessions' = x
  /\ RpcGoes(x, "handle")
  /\ UNCHANGED <<idled, deaths>>

\* A mutant of ProbeTimesOut: a slow start counts as a startup death.
ProbeTimeoutQuarantines(x) ==
  /\ RpcAt(x, "probing")
  /\ client' = [client EXCEPT ![x][rpc[x].use].pending = @ \ {x}]
  /\ rpc' = IF rpc[x].use = "first" THEN [rpc EXCEPT ![x].at = "starting", ![x].use = "fresh"]
                                    ELSE [rpc EXCEPT ![x].at = "failed"]
  /\ UNCHANGED <<sessions, live, idled, deaths>>

\* The probe times out: not a startup death.  Nobody stops the child.
ProbeTimesOut(x) ==
  /\ RpcAt(x, "probing")
  /\ client' = [client EXCEPT ![x][rpc[x].use].pending = @ \ {x}]
  /\ RpcGoes(x, "failed")
  /\ UNCHANGED <<sessions, live, idled, deaths>>

-----------------------------------------------------------------------------
(* A turn *)

\* prompt(): a new adapter, and its busy event
BeginTurn(t) ==
  /\ RpcAt(t, "handle") /\ t \in RpcTurns
  /\ live' = [live EXCEPT ![rpc[t].of].adapting = TRUE]
  /\ RpcGoes(t, "begun")
  /\ UNCHANGED <<sessions, client, idled, deaths>>

\* client.prompt(): a client that is not running throws, which is neither a
\* transport death nor a deadline.
SendPrompt(t) ==
  /\ RpcAt(t, "begun")
  /\ IF Cl(t).running
     THEN /\ client' = [client EXCEPT ![rpc[t].of][live[rpc[t].of].use].pending = @ \cup {t}]
          /\ rpc' = [rpc EXCEPT ![t].at = "asked", ![t].use = live[rpc[t].of].use]
     ELSE /\ RpcGoes(t, IF rpc[t].again THEN "failed" ELSE "swallowed")
          /\ UNCHANGED client
  /\ UNCHANGED <<sessions, live, idled, deaths>>

\* A mutant of DeadlineFires: the timer is only read when the turn settles.
DeadlineIgnored(t) == FALSE

\* runTurnWithDeadline: the deadline is raced with the settling only.
DeadlineFires(t) ==
  /\ RpcAt(t, "waiting")
  /\ AbortAdapter(rpc[t].of)
  /\ RpcGoes(t, "deadline")
  /\ UNCHANGED <<sessions, client, deaths>>

\* client.request('abort'), whose answer is awaited
SendAbort(t) ==
  /\ RpcAt(t, "deadline")
  /\ IF Cl(t).running
     THEN /\ client' = [client EXCEPT ![rpc[t].of][live[rpc[t].of].use].pending = @ \cup {t}]
          /\ rpc' = [rpc EXCEPT ![t].at = "aborting", ![t].use = live[rpc[t].of].use]
     ELSE RpcGoes(t, "stop") /\ UNCHANGED client
  /\ UNCHANGED <<sessions, live, idled, deaths>>

\* A mutant of RecoverTransport: the run is not settled when the budget is spent.
RecoverSilently(t) ==
  /\ RpcAt(t, "dead")
  /\ LET l == rpc[t].of IN
     IF live[l].retried
     THEN RpcGoes(t, "stop") /\ UNCHANGED <<live, idled, client>>
     ELSE /\ live' = [live EXCEPT ![l].retried = TRUE, ![l].use = "retry"]
          /\ client' = [client EXCEPT ![l]["retry"] = NewClient]
          /\ rpc' = [rpc EXCEPT ![t].at = "begun", ![t].again = TRUE]
          /\ UNCHANGED idled
  /\ UNCHANGED <<sessions, deaths>>

\* recoverTransportDeath: one fresh client per live session, whose adapter stays;
\* afterwards the run is settled and the session given up.  The client that
\* died needs no stopping; a client that replaced it meanwhile is not reached
\* here, since replacing it spends the retry.
RecoverTransport(t) ==
  /\ RpcAt(t, "dead")
  /\ LET l == rpc[t].of IN
     IF live[l].retried
     THEN RpcGoes(t, "stop") /\ AbortAdapter(l) /\ UNCHANGED client
     ELSE /\ live' = [live EXCEPT ![l].retried = TRUE, ![l].use = "retry"]
          /\ client' = [client EXCEPT ![l]["retry"] = NewClient]
          /\ rpc' = [rpc EXCEPT ![t].at = "begun", ![t].again = TRUE]
          /\ UNCHANGED idled
  /\ UNCHANGED <<sessions, deaths>>

-----------------------------------------------------------------------------
(* A command's request, an abort, and client.stop() *)

SendRequest(x) ==
  /\ RpcAt(x, "handle") /\ x \in RpcCalls
  /\ IF sessions # NoLive /\ client[sessions][live[sessions].use].running
     THEN /\ client' = [client EXCEPT ![sessions][live[sessions].use].pending = @ \cup {x}]
          /\ rpc' = [rpc EXCEPT ![x].at = "asked", ![x].of = sessions,
                                ![x].use = live[sessions].use]
     ELSE RpcGoes(x, "failed") /\ UNCHANGED client
  /\ UNCHANGED <<sessions, live, idled, deaths>>

\* stopLiveSession, up to the await of the idle event
AbortRpc(a) ==
  /\ RpcAt(a, "new") /\ a \in RpcAborts
  /\ IF sessions = NoLive
     THEN RpcGoes(a, "answered") /\ UNCHANGED <<live, idled>>
     ELSE /\ rpc' = [rpc EXCEPT ![a].at = "stop", ![a].of = sessions]
          /\ AbortAdapter(sessions)
  /\ UNCHANGED <<sessions, client, deaths>>

\* client.stop(): everything pending is rejected, the child is told to exit.
\* forgetSession follows, here at once if the client is stopped already.
StopClient(x) ==
  /\ RpcAt(x, "stop")
  /\ LET l == rpc[x].of  u == live[l].use IN
     IF client[l][u].running
     THEN /\ rpc' = [AfterStop(l, u) EXCEPT ![x].at = "stopping", ![x].use = u]
          /\ client' = [client EXCEPT ![l][u].pending = {}, ![l][u].waiters = {}]
          /\ UNCHANGED sessions
     ELSE /\ RpcGoes(x, IF x \in RpcTurns THEN "gaveup" ELSE "answered")
          /\ ForgetSession
          /\ UNCHANGED client
  /\ UNCHANGED <<live, idled, deaths>>

\* The child has exited: the thread's entry is deleted, whoever made it.
StopClientEnds(x) ==
  /\ RpcAt(x, "stopping") /\ ~client[rpc[x].of][rpc[x].use].up
  /\ RpcGoes(x, IF x \in RpcTurns THEN "gaveup" ELSE "answered")
  /\ ForgetSession
  /\ UNCHANGED <<live, client, idled, deaths>>

-----------------------------------------------------------------------------
(* The omo child of a client *)

\* A response.  A prompt that is accepted waits for agent_settled, which may be
\* one that an earlier prompt left over.
ChildAnswers(l, u, x) ==
  /\ client[l][u].up /\ x \in client[l][u].pending /\ rpc[x].at # "probing"
  /\ LET c == client[l][u] IN
     CASE rpc[x].at = "asked" /\ x \in RpcTurns /\ c.spare = 0 ->
            /\ RpcGoes(x, "waiting")
            /\ client' = [client EXCEPT ![l][u] = [c EXCEPT !.pending = @ \ {x},
                            !.waiters = @ \cup {x}, !.work = @ \cup {x}]]
       [] rpc[x].at = "asked" /\ x \in RpcTurns /\ c.spare > 0 ->
            /\ RpcGoes(x, "early")
            /\ client' = [client EXCEPT ![l][u] = [c EXCEPT !.pending = @ \ {x},
                            !.spare = @ - 1, !.work = @ \cup {x}]]
       [] OTHER ->
            /\ RpcGoes(x, IF rpc[x].at = "aborting" THEN "stop" ELSE "answered")
            /\ client' = [client EXCEPT ![l][u].pending = @ \ {x}]
  /\ UNCHANGED <<sessions, live, idled, deaths>>

\* The prompt is refused: an error that is not a transport death
ChildRefuses(l, u, t) ==
  /\ client[l][u].up /\ t \in client[l][u].pending \cap RpcTurns /\ rpc[t].at = "asked"
  /\ RpcGoes(t, IF rpc[t].again THEN "failed" ELSE "swallowed")
  /\ client' = [client EXCEPT ![l][u].pending = @ \ {t}]
  /\ UNCHANGED <<sessions, live, idled, deaths>>

\* agent_settled: every waiter is released, and the adapter completes the turn.
ChildSettles(l, u, t) ==
  /\ client[l][u].up /\ t \in client[l][u].work
  /\ LET c == client[l][u] IN
     /\ rpc' = [x \in RpcCallers |-> IF x \in c.waiters /\ rpc[x].at = "waiting"
                                    THEN [rpc[x] EXCEPT !.at = "settled"] ELSE rpc[x]]
     /\ client' = [client EXCEPT ![l][u].waiters = {}, ![l][u].work = @ \ {t},
                     ![l][u].spare = IF c.waiters = {} THEN @ + 1 ELSE @]
  /\ IF live[l].adapting THEN AbortAdapter(l) ELSE UNCHANGED <<live, idled>>
  /\ UNCHANGED <<sessions, deaths>>

\* failWith, after SIGTERM or SIGKILL or when the child dies on its own
ChildExits(l, u) ==
  /\ client[l][u].up
  /\ client' = [client EXCEPT ![l][u] = [NoClient EXCEPT !.spare = client[l][u].spare]]
  /\ rpc' = AfterExit(l, u)
  /\ UNCHANGED <<sessions, live, idled>>

ChildKilled(l, u) ==
  /\ \E x \in RpcCallers : RpcAt(x, "stopping") /\ rpc[x].of = l /\ rpc[x].use = u
  /\ ChildExits(l, u)
  /\ UNCHANGED deaths

ChildDies(l, u) ==
  /\ deaths < MaxRpcDeaths
  /\ deaths' = deaths + 1
  /\ ChildExits(l, u)

-----------------------------------------------------------------------------
RpcStep(x) ==
  \/ StartChild(x) \/ BeginTurn(x) \/ SendPrompt(x) \/ SendAbort(x) \/ RecoverTransport(x)
  \/ SendRequest(x) \/ StopClient(x) \/ StopClientEnds(x)

RpcNext ==
  \/ \E x \in RpcCallers : GetSession(x) \/ AbortRpc(x) \/ RegisterSession(x) \/ ProbeTimesOut(x)
                             \/ DeadlineFires(x) \/ RpcStep(x)
  \/ \E l \in RpcCallers, u \in ClientUses :
       \/ ChildKilled(l, u) \/ ChildDies(l, u)
       \/ \E x \in RpcCallers :
            ChildAnswers(l, u, x) \/ ChildRefuses(l, u, x) \/ ChildSettles(l, u, x)

RpcChildStops == \E l \in RpcCallers, u \in ClientUses : ChildKilled(l, u)

\* The event loop runs, timers fire, and a signalled child exits.  A child that
\* is up owes nothing: it may be wedged and neither answer nor settle.
RpcFairness ==
  /\ \A x \in RpcCallers : /\ WF_rpcVars(RpcStep(x)) /\ WF_rpcVars(DeadlineFires(x))
                           /\ WF_rpcVars(RegisterSession(x) \/ ProbeTimesOut(x))
  /\ WF_rpcVars(RpcChildStops)

RpcSpec == RpcInit /\ [][RpcNext]_rpcVars
RpcFairSpec == RpcSpec /\ RpcFairness

-----------------------------------------------------------------------------
(* Properties *)

\* A turn that settled, outlived its deadline or lost its transport twice has
\* been shown idle since it was shown busy, whatever ran next to it.  (Not so a
\* turn whose prompt was refused: the error is swallowed, and nothing shows it
\* idle.)
RpcTurnEndsIdle == \A t \in RpcTurns : rpc[t].at \in {"settled", "gaveup"} => t \in idled

\* A live session never has two omo children at its session file: neither the
\* quarantine of a startup death nor the retry of a turn starts one beside a
\* child that is still up.
RpcOneChildPerSession ==
  \A l \in RpcCallers : Cardinality({u \in ClientUses : client[l][u].up}) <= 1

\* Some child has a request of x and does not answer.
Unanswered(x) == \E l \in RpcCallers, u \in ClientUses : x \in client[l][u].pending

\* A turn ends, even if its child never settles, or else its prompt or its abort
\* is never answered: those two have no timeout.
RpcTurnsEnd ==
  \A t \in RpcTurns : <>[]Unanswered(t) \/ (RpcAt(t, "begun") ~> rpc[t].at \in RpcEnded)

\* What the comment on runTurnWithDeadline says: a turn that has outlived its
\* deadline ends, though the child may be wedged and never answer the abort.
RpcDeadlineStops == \A t \in RpcTurns : RpcAt(t, "deadline") ~> rpc[t].at \in RpcEnded

=============================================================================
