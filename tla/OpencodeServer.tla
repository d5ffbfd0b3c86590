--------------------------- MODULE OpencodeServer ---------------------------
(***************************************************************************)
(* The opencode server of the bot and the global event listener.  One      *)
(* server process is started on demand by whoever needs it, restarted when *)
(* it crashes, and replaced by /restart-opencode-server; the listener is a *)
(* loop that holds one event stream to the server the bot refers to.       *)
(*                                                                         *)
(* Abstractions.  Every server gets a port of its own, as without          *)
(* --opencode-port.  In the bot process no running server is discovered.   *)
(* A process told to stop takes as long as it wants to exit.  Its health   *)
(* answer and the assignment of singleServer are one step.  The events of  *)
(* the stream and the length of the delays are left out; the listener is   *)
(* never disposed.                                                         *)
(***************************************************************************)
EXTENDS Naturals, FiniteSets

CONSTANTS SrvUsers,     \* callers of initializeOpencodeForDirectory
          SrvRestarts,  \* callers of restartOpencodeServer
          SrvRetryLimit, \* serverRetryCount's limit, 5 in the code
          MaxProcs      \* bound: server processes

SrvCallers == SrvUsers \cup SrvRestarts
Procs == 1 .. MaxProcs

ASSUME SrvAssumption ==
  SrvUsers \cap SrvRestarts = {} /\ SrvRetryLimit \in Nat /\ MaxProcs \in Nat

VARIABLES
  procs,        \* process -> its state, and whether it got SIGTERM (process.killed)
  singleServer, \* the process it refers to, 0 for null
  starting,     \* startingServer: "no", "discover", or "wait" for the health answer
  startingServerProcess,
  serverRetryCount,
  srv,          \* caller -> its progress
  loop,         \* runEventLoop: where it is, and the server it connects to
  aborted,      \* the signal of the loop's controller
  connected,
  registered    \* a runtime is registered

srvVars == <<procs, singleServer, starting, startingServerProcess, serverRetryCount, srv,
             loop, aborted, connected, registered>>
serverVars == <<procs, singleServer, starting, startingServerProcess, serverRetryCount>>
listenerVars == <<loop, aborted, connected, registered>>

SrvTypeOK ==
  /\ procs \in [Procs -> [is : {"none", "booting", "up", "gone"}, killed : BOOLEAN]]
  /\ singleServer \in 0 .. MaxProcs /\ startingServerProcess \in 0 .. MaxProcs
  /\ starting \in {"no", "discover", "wait"}
  /\ serverRetryCount \in 0 .. SrvRetryLimit
  /\ srv \in [SrvCallers -> {"new", "ensure", "joined", "pause", "listen", "done", "failed"}]
  /\ loop \in [at : {"off", "top", "subscribing", "streaming", "delay"}, server : 0 .. MaxProcs]
  /\ {aborted, connected, registered} \subseteq BOOLEAN

SrvInit ==
  /\ procs = [p \in Procs |-> [is |-> "none", killed |-> FALSE]]
  /\ singleServer = 0 /\ starting = "no" /\ startingServerProcess = 0
  /\ serverRetryCount = 0
  /\ srv = [x \in SrvCallers |-> "new"]
  /\ loop = [at |-> "off", server |-> 0] /\ aborted = FALSE
  /\ connected = FALSE /\ registered = FALSE

-----------------------------------------------------------------------------
Fresh == {p \in Procs : procs[p].is = "none"}
Alive(p) == procs[p].is \in {"booting", "up"}
Usable == singleServer # 0 /\ ~procs[singleServer].killed
\* The process of the start in flight
Booted == CHOOSE p \in Procs : p \notin Fresh /\ \A q \in Procs \ Fresh : q <= p

SrvGoes(x, step) == srv' = [srv EXCEPT ![x] = step]
Killed(ps, p) == IF p = 0 THEN ps ELSE [ps EXCEPT ![p].killed = TRUE]

\* restartGlobalEventListener
Reconnect == connected' = FALSE /\ aborted' = TRUE /\ UNCHANGED <<loop, registered>>

-----------------------------------------------------------------------------
(* ensureSingleServer and startSingleServer *)

\* A mutant of Ensure: the start in flight is not shared.
EnsureAlone(x, next) ==
  IF Usable THEN SrvGoes(x, next) /\ UNCHANGED serverVars
  ELSE /\ SrvGoes(x, "joined")
       /\ starting' = "discover"
       /\ UNCHANGED <<procs, singleServer, startingServerProcess, serverRetryCount>>

\* The usable server, the start in flight, or a new start
Ensure(x, next) ==
  IF Usable THEN SrvGoes(x, next) /\ UNCHANGED serverVars
  ELSE /\ SrvGoes(x, "joined")
       /\ starting' = IF starting = "no" THEN "discover" ELSE starting
       /\ UNCHANGED <<procs, singleServer, startingServerProcess, serverRetryCount>>

\* A restart then waits for the listener (waitForGlobalEventListener).
AfterEnsure(x) == IF x \in SrvRestarts /\ registered THEN "listen" ELSE "done"

InitializeOpencode(x) ==
  /\ x \in SrvUsers /\ srv[x] = "new"
  /\ Ensure(x, "done")
  /\ UNCHANGED listenerVars

\* No server is discovered: a process is spawned on a port of its own.
SpawnServer ==
  /\ starting = "discover"
  /\ \E p \in Fresh :
       /\ \A q \in Fresh : p <= q
       /\ procs' = [procs EXCEPT ![p].is = "booting"]
       /\ startingServerProcess' = p
  /\ starting' = "wait"
  /\ UNCHANGED <<singleServer, serverRetryCount, srv, listenerVars>>

BootServer(p) ==
  /\ procs[p].is = "booting"
  /\ procs' = [procs EXCEPT ![p].is = "up"]
  /\ UNCHANGED <<singleServer, starting, startingServerProcess, serverRetryCount, srv,
                 listenerVars>>

Joined == {x \in SrvCallers : srv[x] = "joined"}

\* waitForServer succeeds: the listener is told to reconnect, and then the
\* callers that joined and restart again reconnect it once more.
ServerReady ==
  /\ starting = "wait" /\ procs[Booted].is = "up"
  /\ singleServer' = Booted
  /\ startingServerProcess' = IF startingServerProcess = Booted THEN 0 ELSE startingServerProcess
  /\ starting' = "no"
  /\ srv' = [x \in SrvCallers |-> IF x \in Joined THEN AfterEnsure(x) ELSE srv[x]]
  /\ Reconnect
  /\ UNCHANGED <<procs, serverRetryCount>>

\* No answer in time: the process being started is killed.
ServerNotReady ==
  /\ starting = "wait" /\ procs[Booted].is # "up"
  /\ procs' = Killed(procs, startingServerProcess)
  /\ startingServerProcess' = IF startingServerProcess = Booted THEN 0 ELSE startingServerProcess
  /\ starting' = "no"
  /\ srv' = [x \in SrvCallers |-> IF x \in Joined THEN "failed" ELSE srv[x]]
  /\ UNCHANGED <<singleServer, serverRetryCount, listenerVars>>

-----------------------------------------------------------------------------
(* The exit handler *)

Gone(p) == [procs EXCEPT ![p].is = "gone"]
Forgotten(p) ==
  /\ procs' = Gone(p)
  /\ startingServerProcess' = IF startingServerProcess = p THEN 0 ELSE startingServerProcess
  /\ singleServer' = 0

\* A mutant of ServerCrashes: the limit of restarts is not checked.
CrashesForEver(p) ==
  /\ Alive(p) /\ ~procs[p].killed
  /\ Forgotten(p)
  /\ serverRetryCount' = serverRetryCount + 1
  /\ starting' = IF starting = "no" THEN "discover" ELSE starting
  /\ UNCHANGED <<srv, listenerVars>>

\* A code other than zero: the server is restarted, a number of times.
ServerCrashes(p) ==
  /\ Alive(p) /\ ~procs[p].killed
  /\ Forgotten(p)
  /\ IF serverRetryCount < SrvRetryLimit
     THEN /\ serverRetryCount' = serverRetryCount + 1
          /\ starting' = IF starting = "no" THEN "discover" ELSE starting
     ELSE UNCHANGED <<starting, serverRetryCount>>
  /\ UNCHANGED <<srv, listenerVars>>

\* After SIGTERM, or with code zero
ServerExits(p) ==
  /\ Alive(p)
  /\ Forgotten(p)
  /\ serverRetryCount' = 0
  /\ UNCHANGED <<starting, srv, listenerVars>>

-----------------------------------------------------------------------------
(* restartOpencodeServer, with stopOpencodeServer *)

StopServer(x) ==
  /\ x \in SrvRestarts /\ srv[x] = "new"
  /\ IF singleServer = 0
     THEN /\ SrvGoes(x, "ensure")
          /\ serverRetryCount' = 0
          /\ UNCHANGED <<procs, singleServer, starting, startingServerProcess, listenerVars>>
     ELSE /\ procs' = Killed(Killed(procs, singleServer), startingServerProcess)
          /\ startingServerProcess' = 0 /\ singleServer' = 0 /\ serverRetryCount' = 0
          /\ SrvGoes(x, "pause")
          /\ Reconnect
          /\ UNCHANGED starting

PauseEnds(x) ==
  /\ srv[x] = "pause"
  /\ SrvGoes(x, "ensure")
  /\ serverRetryCount' = 0
  /\ UNCHANGED <<procs, singleServer, starting, startingServerProcess, listenerVars>>

\* The new server is up: the listener is reconnected and waited for.
StartAgain(x) ==
  /\ srv[x] = "ensure"
  /\ Ensure(x, AfterEnsure(x))
  /\ IF Usable THEN Reconnect ELSE UNCHANGED listenerVars

-----------------------------------------------------------------------------
(* The listener *)

LoopAt(place, server) == loop' = [at |-> place, server |-> server]

RegisterRuntime ==
  /\ ~registered /\ registered' = TRUE
  /\ IF loop.at = "off" THEN LoopAt("top", 0) ELSE UNCHANGED loop
  /\ UNCHANGED <<serverVars, srv, aborted, connected>>
UnregisterRuntime ==
  /\ registered /\ registered' = FALSE
  /\ UNCHANGED <<serverVars, srv, loop, aborted, connected>>

\* A mutant of LoopTurns: the loop pauses although a runtime is registered.
LoopPauses ==
  /\ loop.at = "top" /\ aborted' = FALSE
  /\ LoopAt(IF singleServer = 0 THEN "off" ELSE "subscribing", singleServer)
  /\ UNCHANGED <<serverVars, srv, connected, registered>>

\* A new controller, and the server the bot refers to by now
LoopTurns ==
  /\ loop.at = "top" /\ aborted' = FALSE
  /\ LoopAt(IF singleServer # 0 THEN "subscribing" ELSE IF registered THEN "delay" ELSE "off",
            singleServer)
  /\ UNCHANGED <<serverVars, srv, connected, registered>>

\* Those who wait for the listener go on.
Subscribed ==
  /\ loop.at = "subscribing" /\ ~aborted /\ procs[loop.server].is = "up"
  /\ LoopAt("streaming", loop.server) /\ connected' = TRUE
  /\ srv' = [x \in SrvCallers |-> IF srv[x] = "listen" THEN "done" ELSE srv[x]]
  /\ UNCHANGED <<serverVars, aborted, registered>>
SubscribeFails ==
  /\ loop.at = "subscribing" /\ (aborted \/ procs[loop.server].is # "up")
  /\ LoopAt(IF aborted THEN "top" ELSE "delay", loop.server)
  /\ UNCHANGED <<serverVars, srv, aborted, connected, registered>>
StreamEnds ==
  /\ loop.at = "streaming" /\ (aborted \/ procs[loop.server].is # "up")
  /\ LoopAt(IF aborted THEN "top" ELSE "delay", loop.server) /\ connected' = FALSE
  /\ UNCHANGED <<serverVars, srv, aborted, registered>>
DelayEnds ==
  /\ loop.at = "delay"
  /\ LoopAt("top", 0)
  /\ UNCHANGED <<serverVars, srv, aborted, connected, registered>>

-----------------------------------------------------------------------------
SrvSteps(x) == PauseEnds(x) \/ StartAgain(x)
LoopSteps == LoopTurns \/ Subscribed \/ SubscribeFails \/ StreamEnds \/ DelayEnds
StartSteps == SpawnServer \/ ServerReady \/ ServerNotReady

SrvNext ==
  \/ \E x \in SrvCallers : InitializeOpencode(x) \/ StopServer(x) \/ SrvSteps(x)
  \/ \E p \in Procs : BootServer(p) \/ ServerCrashes(p) \/ ServerExits(p)
  \/ StartSteps \/ LoopSteps \/ RegisterRuntime \/ UnregisterRuntime

\* The event loop runs and its timers fire; a process may boot for ever.
SrvFairness ==
  /\ WF_srvVars(LoopSteps) /\ WF_srvVars(StartSteps)
  /\ \A x \in SrvCallers : WF_srvVars(SrvSteps(x))

SrvSpec == SrvInit /\ [][SrvNext]_srvVars
SrvFairSpec == SrvSpec /\ SrvFairness

-----------------------------------------------------------------------------
(* Properties *)

\* However requests, crashes and restarts interleave, one server is being
\* started at a time: what is not the process of the start in flight has been
\* started, has been killed or has exited.
SrvOneStart ==
  Cardinality({p \in Procs : procs[p].is = "booting" /\ ~procs[p].killed}) <= 1

\* While a runtime is registered, a server that stays up and stays the one the
\* bot refers to gets the event stream: aborts, delays and pauses of the loop
\* do not leave the listener behind.
SrvListenerConnects ==
  \A p \in Procs :
    (registered /\ singleServer = p /\ procs[p].is = "up")
      ~> ((connected /\ loop.server = p) \/ ~registered \/ singleServer # p \/ procs[p].is # "up")

=============================================================================
