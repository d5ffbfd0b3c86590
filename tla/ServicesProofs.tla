--------------------------- MODULE ServicesProofs ---------------------------
(***************************************************************************)
(* What the server, a thread's permission buttons and the Slack bridge's   *)
(* typing indicator keep, for every value of their constants: three        *)
(* components that share nothing, as in MCServices.  Last, the types of    *)
(* MCServices, from what is shown here and of the other components.        *)
(***************************************************************************)
EXTENDS MCServices, RpcSessionProofs, PluginProofs, SequenceTheorems, FiniteSetTheorems, TLAPS

-----------------------------------------------------------------------------
(***************************************************************************)
(* OpencodeServer for any callers, any limit of restarts and any number of *)
(* processes: its types, and that one server is started at a time.         *)
(*                                                                         *)
(* The promise startingServer is shared, so what must be shown is that a   *)
(* process that still boots is the one the promise waits for.  Whoever     *)
(* ends the start, or forgets its process, has killed it: the invariant    *)
(* ties every process that boots, and was not killed, to the start in      *)
(* flight and to startingServerProcess.                                    *)
(***************************************************************************)

Boots(p) == procs[p].is = "booting" /\ ~procs[p].killed

\* Processes are numbered in the order in which they are spawned.
SpawnedInOrder == \A p \in Fresh, q \in Procs : p <= q => q \in Fresh

\* A start that waits has spawned the latest process.
Latest(p) == p \in Procs \ Fresh /\ \A q \in Procs \ Fresh : q <= p
WaitsForLatest == starting = "wait" => \E p \in Procs : Latest(p)

\* A process that boots is the one the start in flight waits for.
BootsForStart ==
  \A p \in Procs : Boots(p) => starting = "wait" /\ startingServerProcess = p /\ Latest(p)

SrvInv == SrvTypeOK /\ SpawnedInOrder /\ WaitsForLatest /\ BootsForStart

-----------------------------------------------------------------------------
LEMMA SrvConstants ==
  /\ MaxProcs \in Nat /\ SrvRetryLimit \in Nat
  /\ \A p \in Procs : p \in Nat /\ p # 0 /\ p \in 0 .. MaxProcs
  /\ 0 \in 0 .. MaxProcs
  BY SrvAssumption DEF Procs

LEMMA BootedIsLatest ==
  ASSUME NEW p, Latest(p)
  PROVE  Booted = p
<1>1. /\ Booted \in Procs /\ Booted \notin Fresh
      /\ \A q \in Procs \ Fresh : q <= Booted
  BY DEF Booted, Latest
<1>2. Booted <= p /\ p <= Booted /\ p \in Nat /\ Booted \in Nat
  BY <1>1, SrvConstants DEF Latest
<1> QED
  BY <1>2

\* Nobody spawns: the order and the latest process are as before.
LEMMA NothingSpawned ==
  ASSUME SrvInv, \A p \in Procs : procs'[p].is = "none" <=> procs[p].is = "none"
  PROVE  /\ Fresh' = Fresh /\ SpawnedInOrder'
         /\ \A p : Latest(p)' <=> Latest(p)
<1>1. Fresh' = Fresh
  BY DEF Fresh
<1> QED
  BY <1>1 DEF SrvInv, SpawnedInOrder, Latest

\* A step that spawns nothing, and in which only processes of the start in
\* flight go on booting, keeps the invariant.
LEMMA Fewer ==
  ASSUME SrvInv, SrvTypeOK',
         \A p \in Procs : procs'[p].is = "none" <=> procs[p].is = "none",
         starting' = "wait" => starting = "wait",
         \A p \in Procs : Boots(p)' =>
            Boots(p) /\ starting' = starting /\ startingServerProcess' = startingServerProcess
  PROVE  SrvInv'
<1>1. Fresh' = Fresh /\ SpawnedInOrder' /\ \A p : Latest(p)' <=> Latest(p)
  BY NothingSpawned
<1>2. WaitsForLatest'
  BY <1>1 DEF WaitsForLatest, SrvInv
<1>3. BootsForStart'
  BY <1>1 DEF BootsForStart, SrvInv
<1> QED
  BY <1>1, <1>2, <1>3 DEF SrvInv

LEMMA KilledTyped ==
  ASSUME SrvTypeOK, NEW p \in 0 .. MaxProcs
  PROVE  /\ Killed(procs, p) \in [Procs -> [is : {"none", "booting", "up", "gone"}, killed : BOOLEAN]]
         /\ \A q \in Procs : /\ Killed(procs, p)[q].is = procs[q].is
                             /\ Killed(procs, p)[q].killed <=> (procs[q].killed \/ q = p)
  BY SrvConstants DEF SrvTypeOK, Killed, Procs

-----------------------------------------------------------------------------
(* The server *)

LEMMA SpawnKeeps ==
  ASSUME SrvInv, SpawnServer
  PROVE  SrvInv'
<1>1. PICK p \in Fresh : /\ \A q \in Fresh : p <= q
                         /\ procs' = [procs EXCEPT ![p].is = "booting"]
                         /\ startingServerProcess' = p
  BY DEF SpawnServer
<1>2. p \in Procs /\ starting = "discover" /\ starting' = "wait"
  BY <1>1 DEF SpawnServer, Fresh
<1>3. SrvTypeOK'
  BY <1>1, <1>2, SrvConstants DEF SpawnServer, SrvInv, SrvTypeOK, listenerVars
<1>4. Fresh' = Fresh \ {p}
  BY <1>1, <1>2 DEF Fresh, SrvInv, SrvTypeOK
<1>5. SpawnedInOrder'
  BY <1>1, <1>2, <1>4, SrvConstants DEF SpawnedInOrder, SrvInv, Fresh
<1>6. Latest(p)'
  BY <1>1, <1>2, <1>4, SrvConstants DEF Latest, SpawnedInOrder, SrvInv, Fresh
<1>7. \A q \in Procs : Boots(q)' => q = p
  BY <1>1, <1>2 DEF Boots, BootsForStart, SrvInv, SrvTypeOK
<1> QED
  BY <1>1, <1>2, <1>3, <1>5, <1>6, <1>7 DEF SrvInv, WaitsForLatest, BootsForStart

\* The start has ended when its process is up, or its process is killed.
LEMMA ReadyKeeps ==
  ASSUME SrvInv, ServerReady
  PROVE  SrvInv'
<1>1. PICK b \in Procs : Latest(b) /\ Booted = b /\ procs[b].is = "up"
  BY BootedIsLatest DEF ServerReady, SrvInv, WaitsForLatest
<1>2. \A p \in Procs : ~Boots(p)
  BY <1>1, BootedIsLatest DEF SrvInv, BootsForStart, Boots
<1>3. SrvTypeOK'
  BY <1>1, SrvConstants
     DEF ServerReady, SrvInv, SrvTypeOK, Reconnect, AfterEnsure, Joined
<1> QED
  BY <1>2, <1>3, Fewer DEF ServerReady, Boots

LEMMA NotReadyKeeps ==
  ASSUME SrvInv, ServerNotReady
  PROVE  SrvInv'
<1>1. startingServerProcess \in 0 .. MaxProcs /\ SrvTypeOK
  BY DEF SrvInv, SrvTypeOK
<1>2. SrvTypeOK'
  BY <1>1, KilledTyped, SrvConstants
     DEF ServerNotReady, SrvInv, SrvTypeOK, Joined, listenerVars
<1>3. \A p \in Procs : ~Boots(p)'
  BY <1>1, KilledTyped DEF ServerNotReady, Boots, SrvInv, BootsForStart
<1> QED
  BY <1>1, <1>2, <1>3, KilledTyped, Fewer DEF ServerNotReady

LEMMA ForgottenKeeps ==
  ASSUME SrvInv, NEW p \in Procs, Alive(p), Forgotten(p),
         serverRetryCount' \in 0 .. SrvRetryLimit,
         starting' \in {"no", "discover", "wait"},
         starting # "no" => starting' = starting, starting' = "wait" => starting = "wait",
         UNCHANGED <<srv, listenerVars>>
  PROVE  SrvInv'
<1>1. SrvTypeOK'
  BY SrvConstants DEF SrvInv, SrvTypeOK, Forgotten, Gone, listenerVars
<1>2. \A q \in Procs : /\ procs'[q].is = "none" <=> procs[q].is = "none"
                       /\ Boots(q)' => Boots(q) /\ q # p
  BY DEF Forgotten, Gone, Alive, Boots, SrvInv, SrvTypeOK
<1>3. \A q \in Procs : Boots(q)' =>
         starting' = starting /\ startingServerProcess' = startingServerProcess
  BY <1>2 DEF SrvInv, BootsForStart, Forgotten
<1> QED
  BY <1>1, <1>2, <1>3, Fewer

LEMMA ServerKeeps ==
  ASSUME SrvInv, NEW p \in Procs, BootServer(p) \/ ServerCrashes(p) \/ ServerExits(p)
  PROVE  SrvInv'
<1>1. CASE BootServer(p)
  <2>1. SrvTypeOK'
    BY <1>1 DEF BootServer, SrvInv, SrvTypeOK, listenerVars
  <2>2. \A q \in Procs : /\ procs'[q].is = "none" <=> procs[q].is = "none"
                         /\ Boots(q)' => Boots(q)
    BY <1>1 DEF BootServer, Boots, SrvInv, SrvTypeOK
  <2> QED
    BY <1>1, <2>1, <2>2, Fewer DEF BootServer
<1>2. CASE ServerCrashes(p)
  <2>1. serverRetryCount' \in 0 .. SrvRetryLimit
    BY <1>2, SrvConstants DEF ServerCrashes, SrvInv, SrvTypeOK
  <2> QED
    BY <1>2, <2>1, ForgottenKeeps DEF ServerCrashes, SrvInv, SrvTypeOK
<1>3. CASE ServerExits(p)
  BY <1>3, SrvConstants, ForgottenKeeps DEF ServerExits, SrvInv, SrvTypeOK
<1> QED
  BY <1>1, <1>2, <1>3

-----------------------------------------------------------------------------
(* The callers *)

LEMMA EnsureKeeps ==
  ASSUME SrvInv, NEW x \in SrvCallers, NEW next \in {"done", "listen"}, Ensure(x, next),
         loop' = loop, aborted' \in BOOLEAN, connected' \in BOOLEAN, registered' = registered
  PROVE  SrvInv'
<1>1. SrvTypeOK'
  BY DEF Ensure, SrvGoes, serverVars, SrvInv, SrvTypeOK
<1>2. /\ procs' = procs /\ startingServerProcess' = startingServerProcess
      /\ starting' = "wait" <=> starting = "wait"
  BY DEF Ensure, serverVars
<1>3. \A p \in Procs : Boots(p)' => Boots(p) /\ starting' = starting
  BY <1>2 DEF Boots, SrvInv, BootsForStart
<1> QED
  BY <1>1, <1>2, <1>3, Fewer

LEMMA CallerKeeps ==
  ASSUME SrvInv, NEW x \in SrvCallers,
         InitializeOpencode(x) \/ StopServer(x) \/ SrvSteps(x)
  PROVE  SrvInv'
<1>1. CASE InitializeOpencode(x)
  BY <1>1, EnsureKeeps DEF InitializeOpencode, listenerVars, SrvInv, SrvTypeOK
<1>2. CASE StopServer(x)
  <2>1. CASE singleServer = 0
    <3>1. SrvTypeOK'
      BY <1>2, <2>1, SrvConstants DEF StopServer, SrvGoes, SrvInv, SrvTypeOK, listenerVars
    <3> QED
      BY <1>2, <2>1, <3>1, Fewer DEF StopServer, Boots
  <2>2. CASE singleServer # 0
    <3> DEFINE once == Killed(procs, singleServer)
    <3>1. /\ SrvTypeOK
          /\ singleServer \in 0 .. MaxProcs /\ startingServerProcess \in 0 .. MaxProcs
      BY DEF SrvInv, SrvTypeOK
    <3>2. /\ once \in [Procs -> [is : {"none", "booting", "up", "gone"}, killed : BOOLEAN]]
          /\ \A q \in Procs : /\ once[q].is = procs[q].is
                              /\ once[q].killed <=> (procs[q].killed \/ q = singleServer)
      BY <3>1, KilledTyped
    <3>3. procs' = Killed(once, startingServerProcess)
      BY <1>2, <2>2 DEF StopServer
    <3> HIDE DEF once
    <3>4. /\ procs' \in [Procs -> [is : {"none", "booting", "up", "gone"}, killed : BOOLEAN]]
          /\ \A q \in Procs : /\ procs'[q].is = procs[q].is
                              /\ q = startingServerProcess => procs'[q].killed
                              /\ procs[q].killed => procs'[q].killed
      BY <3>1, <3>2, <3>3, SrvConstants DEF Killed
    <3>5. SrvTypeOK'
      <4>1. srv' \in [SrvCallers -> {"new", "ensure", "joined", "pause", "listen", "done", "failed"}]
        BY <1>2, <2>2, <3>1 DEF StopServer, SrvGoes, SrvTypeOK
      <4>2. /\ aborted' = TRUE /\ connected' = FALSE /\ registered' = registered /\ loop' = loop
            /\ startingServerProcess' = 0 /\ singleServer' = 0 /\ serverRetryCount' = 0
            /\ starting' = starting
        BY <1>2, <2>2 DEF StopServer, Reconnect
      <4>3. serverRetryCount' \in 0 .. SrvRetryLimit
        BY <4>2, SrvConstants
      <4>4. registered \in BOOLEAN
        BY <3>1 DEF SrvTypeOK
      <4>5. {aborted', connected', registered'} \subseteq BOOLEAN
        BY <4>2, <4>4
      <4> QED
        BY <3>1, <3>4, <4>1, <4>2, <4>3, <4>5, SrvConstants DEF SrvTypeOK
    <3>6. \A q \in Procs : ~Boots(q)'
      BY <3>4 DEF Boots, SrvInv, BootsForStart
    <3> QED
      BY <1>2, <2>2, <3>4, <3>5, <3>6, Fewer DEF StopServer
  <2> QED
    BY <2>1, <2>2
<1>3. CASE PauseEnds(x)
  <2>1. SrvTypeOK'
    BY <1>3, SrvConstants DEF PauseEnds, SrvGoes, SrvInv, SrvTypeOK, listenerVars
  <2> QED
    BY <1>3, <2>1, Fewer DEF PauseEnds, Boots
<1>4. CASE StartAgain(x)
  BY <1>4, EnsureKeeps DEF StartAgain, AfterEnsure, Reconnect, listenerVars, SrvInv, SrvTypeOK
<1> QED
  BY <1>1, <1>2, <1>3, <1>4 DEF SrvSteps

-----------------------------------------------------------------------------
(* The listener does nothing to the server. *)

LEMMA ListenerKeeps ==
  ASSUME SrvInv, LoopSteps \/ RegisterRuntime \/ UnregisterRuntime
  PROVE  SrvInv'
<1>1. UNCHANGED serverVars
  BY DEF LoopSteps, LoopTurns, Subscribed, SubscribeFails, StreamEnds, DelayEnds,
         RegisterRuntime, UnregisterRuntime
<1>2. SrvTypeOK'
  <2>1. /\ loop' \in [at : {"off", "top", "subscribing", "streaming", "delay"},
                      server : 0 .. MaxProcs]
        /\ srv' \in [SrvCallers -> {"new", "ensure", "joined", "pause", "listen", "done", "failed"}]
    BY SrvConstants
       DEF LoopSteps, LoopTurns, Subscribed, SubscribeFails, StreamEnds, DelayEnds,
           RegisterRuntime, UnregisterRuntime, LoopAt, SrvInv, SrvTypeOK
  <2>2. {aborted', connected', registered'} \subseteq BOOLEAN
    BY DEF LoopSteps, LoopTurns, Subscribed, SubscribeFails, StreamEnds, DelayEnds,
           RegisterRuntime, UnregisterRuntime, SrvInv, SrvTypeOK
  <2> QED
    BY <1>1, <2>1, <2>2 DEF serverVars, SrvInv, SrvTypeOK
<1> QED
  BY <1>1, <1>2, Fewer DEF serverVars, Boots

LEMMA SrvInitHolds ==
  ASSUME SrvInit
  PROVE  SrvInv
<1>1. SrvTypeOK
  <2>1. 0 \in 0 .. SrvRetryLimit
    BY SrvConstants
  <2>2. procs \in [Procs -> [is : {"none", "booting", "up", "gone"}, killed : BOOLEAN]]
    BY DEF SrvInit
  <2>3. {aborted, connected, registered} \subseteq BOOLEAN
    BY DEF SrvInit
  <2> QED
    BY <2>1, <2>2, <2>3, SrvConstants DEF SrvInit, SrvTypeOK
<1> QED
  BY <1>1 DEF SrvInit, SrvInv, SpawnedInOrder, WaitsForLatest, BootsForStart, Boots, Fresh

LEMMA SrvStepHolds ==
  ASSUME SrvInv, [SrvNext]_srvVars
  PROVE  SrvInv'
<1>1. CASE UNCHANGED srvVars
  <2>1. SrvTypeOK'
    BY <1>1 DEF srvVars, SrvInv, SrvTypeOK
  <2> QED
    BY <1>1, <2>1, Fewer DEF srvVars, Boots
<1>2. CASE SrvNext
  BY <1>2, SpawnKeeps, ReadyKeeps, NotReadyKeeps, ServerKeeps, CallerKeeps, ListenerKeeps
     DEF SrvNext, StartSteps
<1> QED
  BY <1>1, <1>2

LEMMA OneBoots ==
  ASSUME SrvInv
  PROVE  SrvOneStart
<1> DEFINE S == {p \in Procs : procs[p].is = "booting" /\ ~procs[p].killed}
<1>1. S \subseteq {startingServerProcess}
  BY DEF SrvInv, BootsForStart, Boots
<1>2. Cardinality(S) <= Cardinality({startingServerProcess})
  BY <1>1, FS_Singleton, FS_Subset
<1>3. Cardinality({startingServerProcess}) = 1
  BY FS_Singleton
<1>4. SrvOneStart <=> Cardinality(S) <= 1
  BY DEF SrvOneStart
<1> HIDE DEF S
<1> QED
  BY <1>2, <1>3, <1>4

-----------------------------------------------------------------------------
\* The types of the server, its callers and the listener, for any of them.
THEOREM SrvTypeCorrect == SrvSpec => []SrvTypeOK
<1>1. SrvInit => SrvInv
  BY SrvInitHolds
<1>2. SrvInv /\ [SrvNext]_srvVars => SrvInv'
  BY SrvStepHolds
<1>3. SrvInv => SrvTypeOK
  BY DEF SrvInv
<1> QED
  BY <1>1, <1>2, <1>3, PTL DEF SrvSpec

\* However requests, crashes and restarts interleave, one server is being
\* started at a time.
THEOREM OneServerStarts == SrvSpec => []SrvOneStart
<1>1. SrvInit => SrvInv
  BY SrvInitHolds
<1>2. SrvInv /\ [SrvNext]_srvVars => SrvInv'
  BY SrvStepHolds
<1>3. SrvInv => SrvOneStart
  BY OneBoots
<1> QED
  BY <1>1, <1>2, <1>3, PTL DEF SrvSpec

-----------------------------------------------------------------------------
(***************************************************************************)
(* PermissionUi for any requests, clicks and messages: its types, and that *)
(* a context has one decider at a time.                                    *)
(*                                                                         *)
(* Who decides has taken the context out of the map, so a second one does  *)
(* not find it.  What has to be shown is that a context that is in the map *)
(* never has a decider: it is put there once, when its request is handled  *)
(* (a request is asked once), and put back by a dismissal only when the    *)
(* one that failed was the only one.                                       *)
(***************************************************************************)

EventSet == {"asked", "replied"} \X PermRequests
Ahead(r) == \E i \in DOMAIN permEvents : permEvents[i] = <<"asked", r>>

\* A request is asked once, and OpenCode knows of those on their way.
AskedOnce ==
  /\ \A r \in PermRequests : \A i, j \in DOMAIN permEvents :
       permEvents[i] = <<"asked", r>> /\ permEvents[j] = <<"asked", r>> => i = j
  /\ \A r \in PermRequests : Ahead(r) => asked[r] # "no"

\* Nobody decides about a context that is in the map.
DecidersHold == \A d \in deciding : ~contexts[d.context].there

\* A request that was not handled yet has no context and no decider.
Unseen(r) == ~contexts[r].there /\ \A d \in deciding : d.context # r
UnhandledUnseen == \A r \in PermRequests : asked[r] = "no" \/ Ahead(r) => Unseen(r)

PermInv == PermTypeOK /\ AskedOnce /\ DecidersHold /\ UnhandledUnseen /\ PermOneDecider

-----------------------------------------------------------------------------
(* The events *)

\* Nothing is asked anew: the requests ahead only become fewer.
NoNewAsk ==
  /\ permEvents' \in Seq(EventSet) /\ AskedOnce'
  /\ \A r \in PermRequests : /\ Ahead(r)' => Ahead(r)
                             /\ asked'[r] = "no" <=> asked[r] = "no"

LEMMA SameEvents ==
  ASSUME PermInv, permEvents' = permEvents,
         \A r \in PermRequests : asked'[r] = "no" <=> asked[r] = "no"
  PROVE  NoNewAsk
  BY DEF NoNewAsk, PermInv, PermTypeOK, EventSet, AskedOnce, Ahead

LEMMA EventTaken ==
  ASSUME PermInv, permEvents # <<>>, permEvents' = Tail(permEvents), asked' = asked
  PROVE  /\ NoNewAsk
         /\ \A r \in PermRequests : Head(permEvents) = <<"asked", r>> => Ahead(r) /\ ~Ahead(r)'
<1>1. permEvents \in Seq(EventSet)
  BY DEF PermInv, PermTypeOK, EventSet
<1>2. /\ permEvents' \in Seq(EventSet) /\ Len(permEvents') = Len(permEvents) - 1
      /\ \A i \in 1 .. Len(permEvents') : permEvents'[i] = permEvents[i + 1]
      /\ Len(permEvents) \in Nat /\ Len(permEvents) # 0
      /\ DOMAIN permEvents = 1 .. Len(permEvents) /\ DOMAIN permEvents' = 1 .. Len(permEvents')
      /\ Head(permEvents) = permEvents[1]
  BY <1>1, HeadTailProperties, LenProperties, EmptySeq
<1>3. \A i \in DOMAIN permEvents' : i + 1 \in DOMAIN permEvents /\ i + 1 # 1 /\ i \in Nat
  BY <1>2
<1>4. 1 \in DOMAIN permEvents
  BY <1>2
<1>5. \A r \in PermRequests : Ahead(r)' => Ahead(r)
  BY <1>2, <1>3 DEF Ahead
<1>6. \A r \in PermRequests : \A i, j \in DOMAIN permEvents' :
         permEvents'[i] = <<"asked", r>> /\ permEvents'[j] = <<"asked", r>> => i = j
  <2> SUFFICES ASSUME NEW r \in PermRequests, NEW i \in DOMAIN permEvents',
                      NEW j \in DOMAIN permEvents',
                      permEvents'[i] = <<"asked", r>>, permEvents'[j] = <<"asked", r>>
               PROVE  i = j
    OBVIOUS
  <2>1. permEvents[i + 1] = <<"asked", r>> /\ permEvents[j + 1] = <<"asked", r>>
    BY <1>2
  <2>2. i + 1 = j + 1
    BY <1>3, <2>1 DEF PermInv, AskedOnce
  <2> QED
    BY <1>3, <2>2
<1>7. \A r \in PermRequests : Head(permEvents) = <<"asked", r>> => Ahead(r) /\ ~Ahead(r)'
  <2> SUFFICES ASSUME NEW r \in PermRequests, permEvents[1] = <<"asked", r>>
               PROVE  Ahead(r) /\ ~Ahead(r)'
    BY <1>2
  <2>1. Ahead(r)
    BY <1>4 DEF Ahead
  <2>2. \A i \in DOMAIN permEvents : permEvents[i] = <<"asked", r>> => i = 1
    BY <1>4 DEF PermInv, AskedOnce
  <2>3. ~Ahead(r)'
    BY <1>2, <1>3, <2>2 DEF Ahead
  <2> QED
    BY <2>1, <2>3
<1> QED
  BY <1>2, <1>5, <1>6, <1>7 DEF NoNewAsk, AskedOnce, PermInv

\* An answer tells of replies only.
LEMMA Answered ==
  ASSUME PermInv, NEW requests \in SUBSET PermRequests, NEW answer \in {"once", "reject"},
         Answer(requests, answer)
  PROVE  /\ NoNewAsk
         /\ asked' \in [PermRequests -> {"no", "waiting", "once", "reject", "aborted"}]
<1> DEFINE heard == {r \in requests : asked[r] = "waiting"}
<1>1. /\ asked' = [r \in PermRequests |-> IF r \in heard THEN answer ELSE asked[r]]
      /\ \E order \in SetToSeqs(heard) :
           permEvents' = permEvents \o [i \in DOMAIN order |-> <<"replied", order[i]>>]
  BY DEF Answer
<1>2. PICK order \in SetToSeqs(heard) :
        permEvents' = permEvents \o [i \in DOMAIN order |-> <<"replied", order[i]>>]
  BY <1>1
<1> DEFINE replies == [i \in DOMAIN order |-> <<"replied", order[i]>>]
<1>3. heard \subseteq PermRequests /\ IsFiniteSet(heard) /\ Cardinality(heard) \in Nat
  <2>1. heard \subseteq PermRequests
    OBVIOUS
  <2>2. IsFiniteSet(heard)
    BY <2>1, FS_Subset, PermAssumption
  <2> QED
    BY <2>1, <2>2, FS_CardinalityType
<1>4. order \in [1 .. Cardinality(heard) -> heard]
  BY <1>2 DEF SetToSeqs
<1>5. replies \in [1 .. Cardinality(heard) -> EventSet]
  BY <1>3, <1>4 DEF EventSet
<1>6. /\ replies \in Seq(EventSet) /\ Len(replies) = Cardinality(heard)
      /\ \A i \in 1 .. Cardinality(heard) : replies[i][1] = "replied"
  <2>1. \A i \in 1 .. Cardinality(heard) : replies[i] = <<"replied", order[i]>>
    <3> HIDE DEF heard
    <3> QED
      BY <1>4
  <2> HIDE DEF replies, heard
  <2>2. \A i \in 1 .. Cardinality(heard) : replies[i][1] = "replied"
    BY <2>1
  <2>3. replies \in Seq(EventSet) /\ Len(replies) = Cardinality(heard)
    BY <1>3, <1>5
  <2> QED
    BY <2>2, <2>3
<1>7. permEvents \in Seq(EventSet) /\ Len(permEvents) \in Nat
  BY DEF PermInv, PermTypeOK, EventSet
<1> HIDE DEF replies
<1>8. /\ permEvents' \in Seq(EventSet)
      /\ Len(permEvents') = Len(permEvents) + Len(replies)
      /\ \A i \in 1 .. Len(permEvents) + Len(replies) :
           permEvents'[i] = IF i <= Len(permEvents) THEN permEvents[i]
                            ELSE replies[i - Len(permEvents)]
  BY <1>2, <1>6, <1>7, ConcatProperties DEF replies
<1>9. \A r \in PermRequests : \A i \in DOMAIN permEvents' :
        permEvents'[i] = <<"asked", r>> => i \in DOMAIN permEvents /\ permEvents[i] = <<"asked", r>>
  <2> SUFFICES ASSUME NEW r \in PermRequests, NEW i \in DOMAIN permEvents',
                      permEvents'[i] = <<"asked", r>>
               PROVE  i \in DOMAIN permEvents /\ permEvents[i] = <<"asked", r>>
    OBVIOUS
  <2>1. i \in 1 .. Len(permEvents) + Len(replies)
    BY <1>8
  <2>2. CASE i <= Len(permEvents)
    BY <1>7, <1>8, <2>1, <2>2
  <2>3. CASE ~(i <= Len(permEvents))
    <3>1. permEvents'[i] = replies[i - Len(permEvents)]
      BY <1>8, <2>1, <2>3
    <3>2. i - Len(permEvents) \in 1 .. Cardinality(heard)
      BY <1>3, <1>6, <1>7, <2>1, <2>3
    <3>3. replies[i - Len(permEvents)][1] = "replied"
      BY <1>6, <3>2
    <3> QED
      BY <3>1, <3>3
  <2> QED
    BY <2>2, <2>3
<1>10. /\ asked' \in [PermRequests -> {"no", "waiting", "once", "reject", "aborted"}]
       /\ \A r \in PermRequests : asked'[r] = "no" <=> asked[r] = "no"
  BY <1>1 DEF PermInv, PermTypeOK
<1>11. \A r \in PermRequests : Ahead(r)' => Ahead(r)
  BY <1>9 DEF Ahead
<1>12. AskedOnce'
  BY <1>9, <1>10, <1>11 DEF AskedOnce, PermInv
<1> QED
  BY <1>8, <1>10, <1>11, <1>12 DEF NoNewAsk

-----------------------------------------------------------------------------
(* Contexts and deciders *)

\* Nobody decides anew, and no context comes back: what held of deciders holds.
LEMMA NobodyDecides ==
  ASSUME PermInv, PermTypeOK', NoNewAsk,
         \A c \in PermRequests : contexts'[c].there => contexts[c].there,
         deciding' \subseteq deciding
  PROVE  PermInv'
<1>1. DecidersHold'
  BY DEF PermInv, DecidersHold, PermTypeOK
<1>2. UnhandledUnseen'
  BY DEF NoNewAsk, PermInv, UnhandledUnseen, Unseen
<1>3. PermOneDecider'
  BY DEF PermInv, PermOneDecider
<1> QED
  BY <1>1, <1>2, <1>3 DEF PermInv, NoNewAsk

\* Whoever takes contexts that are in the map is alone with each.
LEMMA TakersDecide ==
  ASSUME PermInv, PermTypeOK', NoNewAsk, NEW by \in Deciders, NEW answer \in {"once", "reject"},
         NEW mine \in SUBSET {c \in PermRequests : contexts[c].there},
         \A c \in PermRequests : contexts'[c].there <=> contexts[c].there /\ c \notin mine,
         deciding' = deciding \cup {Decision(by, c, answer) : c \in mine}
  PROVE  PermInv'
<1>1. \A d \in deciding' \ deciding : d.context \in mine /\ d = Decision(by, d.context, answer)
  BY DEF Decision
<1>2. \A d \in deciding : d.context \in PermRequests /\ d.context \notin mine
  BY DEF PermInv, DecidersHold, PermTypeOK
<1>3. DecidersHold'
  BY <1>1, <1>2 DEF PermInv, DecidersHold
<1>4. UnhandledUnseen'
  BY <1>1 DEF NoNewAsk, PermInv, UnhandledUnseen, Unseen
<1>5. PermOneDecider'
  BY <1>1, <1>2 DEF PermInv, PermOneDecider
<1> QED
  BY <1>3, <1>4, <1>5 DEF PermInv, NoNewAsk

LEMMA DecisionTyped ==
  ASSUME NEW by \in Deciders, NEW c \in PermRequests, NEW answer \in {"once", "reject"}
  PROVE  Decision(by, c, answer) \in [by : Deciders, context : PermRequests,
                                      answer : {"once", "reject"}, deferred : BOOLEAN]
  BY DEF Decision

LEMMA ThereTyped ==
  ASSUME NEW b \in BOOLEAN,
         NEW x \in [there : BOOLEAN, ids : SUBSET PermRequests, timer : {"off", "armed", "fired"}]
  PROVE  [x EXCEPT !.there = b]
           \in [there : BOOLEAN, ids : SUBSET PermRequests, timer : {"off", "armed", "fired"}]
  OBVIOUS

\* A context is one row of the map; changing one row of the map is changing one
\* context.
PermRows == [there : BOOLEAN, ids : SUBSET PermRequests, timer : {"off", "armed", "fired"}]

LEMMA RowChanged ==
  ASSUME NEW f \in [PermRequests -> PermRows], NEW c \in PermRequests, NEW x \in PermRows
  PROVE  [f EXCEPT ![c] = x] \in [PermRequests -> PermRows]
  OBVIOUS

LEMMA TakenTyped ==
  ASSUME PermTypeOK, NEW c \in PermRequests
  PROVE  /\ Taken(c) \in [PermRequests -> [there : BOOLEAN, ids : SUBSET PermRequests,
                                           timer : {"off", "armed", "fired"}]]
         /\ \A e \in PermRequests : Taken(c)[e].there <=> contexts[e].there /\ e # c
<1>1. Taken(c) \in [PermRequests -> [there : BOOLEAN, ids : SUBSET PermRequests,
                                     timer : {"off", "armed", "fired"}]]
  <2>1. contexts \in [PermRequests -> PermRows]
    BY DEF PermTypeOK, PermRows
  <2>2. [contexts[c] EXCEPT !.there = FALSE] \in PermRows
    BY <2>1, ThereTyped DEF PermRows
  <2>3. Taken(c) = [contexts EXCEPT ![c] = [contexts[c] EXCEPT !.there = FALSE]]
    BY DEF Taken
  <2> QED
    BY <2>1, <2>2, <2>3, RowChanged DEF PermRows
<1>2. Taken(c)[c].there = FALSE
  BY DEF PermTypeOK, Taken
<1>3. \A e \in PermRequests \ {c} : Taken(c)[e] = contexts[e]
  BY DEF PermTypeOK, Taken
<1> QED
  BY <1>1, <1>2, <1>3

-----------------------------------------------------------------------------
(* OpenCode *)

LEMMA AskKeeps ==
  ASSUME PermInv, NEW r \in PermRequests, Ask(r)
  PROVE  PermInv'
<1>1. /\ permEvents \in Seq(EventSet) /\ <<"asked", r>> \in EventSet
      /\ permEvents' = Append(permEvents, <<"asked", r>>) /\ ~Ahead(r)
  BY DEF Ask, PermInv, PermTypeOK, EventSet, AskedOnce
<1>2. /\ permEvents' \in Seq(EventSet) /\ Len(permEvents') = Len(permEvents) + 1
      /\ Len(permEvents) \in Nat
      /\ permEvents'[Len(permEvents) + 1] = <<"asked", r>>
      /\ \A i \in DOMAIN permEvents : permEvents'[i] = permEvents[i]
      /\ DOMAIN permEvents' = DOMAIN permEvents \cup {Len(permEvents) + 1}
  BY <1>1
<1>3. \A q \in PermRequests : Ahead(q)' => Ahead(q) \/ q = r
  <2> SUFFICES ASSUME NEW q \in PermRequests, NEW i \in DOMAIN permEvents',
                      permEvents'[i] = <<"asked", q>>
               PROVE  Ahead(q) \/ q = r
    BY DEF Ahead
  <2>1. CASE i \in DOMAIN permEvents
    BY <1>2, <2>1 DEF Ahead
  <2>2. CASE i = Len(permEvents) + 1
    BY <1>2, <2>2
  <2> QED
    BY <1>2, <2>1, <2>2
<1>4. /\ asked' \in [PermRequests -> {"no", "waiting", "once", "reject", "aborted"}]
      /\ \A q \in PermRequests : asked'[q] = "no" => asked[q] = "no"
      /\ asked[r] = "no" /\ asked'[r] # "no"
      /\ \A q \in PermRequests : asked[q] # "no" => asked'[q] # "no"
  BY DEF Ask, PermInv, PermTypeOK
<1>5. AskedOnce'
  <2>1. \A q \in PermRequests : \A i, j \in DOMAIN permEvents' :
          permEvents'[i] = <<"asked", q>> /\ permEvents'[j] = <<"asked", q>> => i = j
    <3>1. \A i \in DOMAIN permEvents : permEvents[i] # <<"asked", r>>
      BY <1>1 DEF Ahead
    <3> QED
      BY <1>2, <3>1 DEF PermInv, AskedOnce
  <2>2. \A q \in PermRequests : Ahead(q)' => asked'[q] # "no"
    BY <1>3, <1>4 DEF PermInv, AskedOnce
  <2> QED
    BY <2>1, <2>2 DEF AskedOnce
<1>6. UnhandledUnseen'
  BY <1>3, <1>4 DEF Ask, PermInv, UnhandledUnseen, Unseen
<1>7. DecidersHold' /\ PermOneDecider'
  BY DEF Ask, PermInv, DecidersHold, PermOneDecider
<1>8. PermTypeOK'
  BY <1>2, <1>4 DEF Ask, PermInv, PermTypeOK, EventSet
<1> QED
  BY <1>5, <1>6, <1>7, <1>8 DEF PermInv

LEMMA ElsewhereKeeps ==
  ASSUME PermInv, NEW r \in PermRequests, AnsweredElsewhere(r)
  PROVE  PermInv'
<1>1. PICK answer \in {"once", "reject"} : Answer({r}, answer)
  BY DEF AnsweredElsewhere
<1>2. /\ NoNewAsk
      /\ asked' \in [PermRequests -> {"no", "waiting", "once", "reject", "aborted"}]
  BY <1>1, Answered
<1>3. PermTypeOK'
  BY <1>2 DEF AnsweredElsewhere, NoNewAsk, PermInv, PermTypeOK, EventSet
<1> QED
  BY <1>2, <1>3, NobodyDecides DEF AnsweredElsewhere

-----------------------------------------------------------------------------
(* The runtime *)

LEMMA HandlerKeeps ==
  ASSUME PermInv, NEW r \in PermRequests, PermHandles(r)
  PROVE  PermInv'
<1>1. /\ permEvents # <<>> /\ permEvents' = Tail(permEvents) /\ asked' = asked
      /\ deciding' = deciding
  BY DEF PermHandles, AttachRequest, ShowButtons, PermissionReplied, NextEventIs
<1>2. /\ NoNewAsk
      /\ \A q \in PermRequests : Head(permEvents) = <<"asked", q>> => Ahead(q) /\ ~Ahead(q)'
  BY <1>1, EventTaken
<1>3. CASE AttachRequest(r)
  <2>1. PICK p \in Covering(r) :
          /\ tracked' = [tracked EXCEPT ![r] = tracked[p]]
          /\ contexts' = IF contexts[tracked[p]].there
                         THEN [contexts EXCEPT ![tracked[p]].ids = @ \cup {r}] ELSE contexts
    BY <1>3 DEF AttachRequest
  <2>2. p \in PermRequests /\ tracked[p] \in PermRequests
    BY PermAssumption DEF Covering, PermInv, PermTypeOK
  <2>3. PermTypeOK'
    <3>1. contexts' \in [PermRequests -> [there : BOOLEAN, ids : SUBSET PermRequests,
                                          timer : {"off", "armed", "fired"}]]
      <4> DEFINE c == tracked[p]
                 x == [contexts[c] EXCEPT !.ids = contexts[c].ids \cup {r}]
      <4>1. contexts \in [PermRequests -> PermRows]
        BY DEF PermInv, PermTypeOK, PermRows
      <4>2. c \in PermRequests
        BY <2>2
      <4>3. x \in PermRows
        BY <4>1, <4>2 DEF PermRows
      <4>4. contexts' \in {contexts, [contexts EXCEPT ![c] = x]}
        BY <2>1
      <4> HIDE DEF c, x
      <4>5. contexts' \in [PermRequests -> PermRows]
        BY <4>1, <4>2, <4>3, <4>4, RowChanged
      <4> QED
        BY <4>5 DEF PermRows
    <3>2. tracked' \in [PermRequests -> PermRequests \cup {PermNone}]
      BY <2>1, <2>2 DEF PermInv, PermTypeOK
    <3> QED
      BY <1>1, <1>2, <1>3, <3>1, <3>2
         DEF AttachRequest, NoNewAsk, PermInv, PermTypeOK, EventSet
  <2>4. \A c \in PermRequests : contexts'[c].there <=> contexts[c].there
    BY <2>1, <2>2 DEF PermInv, PermTypeOK
  <2> QED
    BY <1>1, <1>2, <2>3, <2>4, NobodyDecides
<1>4. CASE ShowButtons(r)
  <2>1. /\ contexts' = [contexts EXCEPT ![r] = [there |-> TRUE, ids |-> {r}, timer |-> "armed"]]
        /\ asking' = r /\ Ahead(r) /\ ~Ahead(r)'
    BY <1>2, <1>4 DEF ShowButtons, NextEventIs
  <2>2. PermTypeOK'
    BY <1>1, <1>2, <1>4, <2>1 DEF ShowButtons, NextEventIs, NoNewAsk, PermInv, PermTypeOK, EventSet
  <2>3. \A d \in deciding : d.context # r /\ d.context \in PermRequests
    BY <2>1 DEF PermInv, UnhandledUnseen, Unseen, PermTypeOK
  <2>4. DecidersHold'
    BY <1>1, <2>1, <2>3 DEF PermInv, DecidersHold, PermTypeOK
  <2>5. asked[r] # "no"
    BY <2>1 DEF PermInv, AskedOnce
  <2>6. UnhandledUnseen'
    BY <1>1, <1>2, <2>1, <2>5 DEF NoNewAsk, PermInv, UnhandledUnseen, Unseen, PermTypeOK
  <2> QED
    BY <1>1, <1>2, <2>2, <2>4, <2>6 DEF NoNewAsk, PermInv, PermOneDecider
<1>5. CASE PermissionReplied(r)
  <2>1. tracked[r] # PermNone => tracked[r] \in PermRequests
    BY DEF PermInv, PermTypeOK
  <2>2. /\ contexts' \in [PermRequests -> [there : BOOLEAN, ids : SUBSET PermRequests,
                                           timer : {"off", "armed", "fired"}]]
        /\ \A c \in PermRequests : contexts'[c].there => contexts[c].there
    BY <1>5, <2>1, TakenTyped DEF PermissionReplied, PermInv, PermTypeOK
  <2>3. PermTypeOK'
    BY <1>1, <1>2, <1>5, <2>2
       DEF PermissionReplied, NextEventIs, NoNewAsk, PermInv, PermTypeOK, EventSet
  <2> QED
    BY <1>1, <1>2, <2>2, <2>3, NobodyDecides
<1> QED
  BY <1>3, <1>4, <1>5 DEF PermHandles

LEMMA ShowingKeeps ==
  ASSUME PermInv, ButtonsAppear \/ PermButtonsSent
  PROVE  PermInv'
<1>1. NoNewAsk /\ contexts' = contexts /\ deciding' = deciding
  BY SameEvents DEF ButtonsAppear, PermButtonsSent
<1>2. PermTypeOK'
  BY DEF ButtonsAppear, PermButtonsSent, PermInv, PermTypeOK
<1> QED
  BY <1>1, <1>2, NobodyDecides

LEMMA TeardownKeeps ==
  ASSUME PermInv, PermTeardown
  PROVE  PermInv'
<1> DEFINE mine == {c \in PermRequests : contexts[c].there /\ \E r \in PermRequests : tracked[r] = c}
<1>1. /\ deciding' = deciding \cup {Decision("teardown", c, "reject") : c \in mine}
      /\ contexts' = [c \in PermRequests |->
                        IF c \in mine THEN [contexts[c] EXCEPT !.there = FALSE] ELSE contexts[c]]
  BY DEF PermTeardown
<1>2. mine \in SUBSET {c \in PermRequests : contexts[c].there}
  OBVIOUS
<1> HIDE DEF mine
<1>3. \A c \in PermRequests : contexts'[c].there <=> contexts[c].there /\ c \notin mine
  <2>1. \A c \in mine : contexts'[c].there = FALSE
    BY <1>1, <1>2 DEF PermInv, PermTypeOK
  <2>2. \A c \in PermRequests \ mine : contexts'[c] = contexts[c]
    BY <1>1
  <2> QED
    BY <2>1, <2>2
<1>4. contexts' \in [PermRequests -> [there : BOOLEAN, ids : SUBSET PermRequests,
                                      timer : {"off", "armed", "fired"}]]
  <2>1. \A c \in PermRequests :
          contexts[c] \in [there : BOOLEAN, ids : SUBSET PermRequests,
                           timer : {"off", "armed", "fired"}]
    BY DEF PermInv, PermTypeOK
  <2>2. \A c \in PermRequests :
          [contexts[c] EXCEPT !.there = FALSE]
             \in [there : BOOLEAN, ids : SUBSET PermRequests, timer : {"off", "armed", "fired"}]
    BY <2>1, ThereTyped
  <2> QED
    BY <1>1, <2>1, <2>2
<1>5. deciding' \subseteq [by : Deciders, context : PermRequests, answer : {"once", "reject"},
                           deferred : BOOLEAN]
  BY <1>1, <1>2, DecisionTyped DEF PermInv, PermTypeOK, Deciders
<1>6. PermTypeOK'
  BY <1>4, <1>5 DEF PermTeardown, PermInv, PermTypeOK
<1>7. NoNewAsk
  BY SameEvents DEF PermTeardown
<1>8. "teardown" \in Deciders /\ "reject" \in {"once", "reject"}
  BY DEF Deciders
<1> QED
  BY <1>1, <1>2, <1>3, <1>6, <1>7, <1>8, TakersDecide

-----------------------------------------------------------------------------
(* The timer, the click, the message *)

\* A taker of one context, or of none if it is gone
LEMMA OneTakes ==
  ASSUME PermInv, PermTypeOK', NoNewAsk, NEW by \in Deciders, NEW c \in PermRequests,
         NEW answer \in {"once", "reject"},
         \A e \in PermRequests : contexts'[e].there <=> contexts[e].there /\ e # c,
         deciding' = IF contexts[c].there THEN deciding \cup {Decision(by, c, answer)}
                     ELSE deciding
  PROVE  PermInv'
<1>1. CASE contexts[c].there
  <2>1. {c} \in SUBSET {e \in PermRequests : contexts[e].there}
    BY <1>1
  <2>2. {Decision(by, e, answer) : e \in {c}} = {Decision(by, c, answer)}
    OBVIOUS
  <2>3. \A e \in PermRequests : contexts'[e].there <=> contexts[e].there /\ e \notin {c}
    OBVIOUS
  <2>4. deciding' = deciding \cup {Decision(by, e, answer) : e \in {c}}
    BY <1>1, <2>2
  <2> QED
    BY <2>1, <2>3, <2>4, TakersDecide
<1>2. CASE ~contexts[c].there
  BY <1>2, NobodyDecides
<1> QED
  BY <1>1, <1>2

LEMMA ExpiryKeeps ==
  ASSUME PermInv, NEW c \in PermRequests, PermissionExpires(c)
  PROVE  PermInv'
<1>1. /\ contexts' \in [PermRequests -> [there : BOOLEAN, ids : SUBSET PermRequests,
                                         timer : {"off", "armed", "fired"}]]
      /\ \A e \in PermRequests : contexts'[e].there <=> contexts[e].there /\ e # c
  <2> DEFINE x == [Taken(c)[c] EXCEPT !.timer = "fired"]
  <2>1. /\ Taken(c) \in [PermRequests -> PermRows]
        /\ \A e \in PermRequests : Taken(c)[e].there <=> contexts[e].there /\ e # c
    BY TakenTyped DEF PermInv, PermRows
  <2>2. x \in PermRows /\ x.there = Taken(c)[c].there
    BY <2>1 DEF PermRows
  <2>3. contexts' = [Taken(c) EXCEPT ![c] = x]
    BY DEF PermissionExpires
  <2> HIDE DEF x
  <2>4. contexts' \in [PermRequests -> PermRows]
    BY <2>1, <2>2, <2>3, RowChanged
  <2>5. \A e \in PermRequests : contexts'[e].there <=> Taken(c)[e].there
    BY <2>1, <2>2, <2>3
  <2> QED
    BY <2>1, <2>4, <2>5 DEF PermRows
<1>2. Decision("expiry", c, "reject") \in [by : Deciders, context : PermRequests,
                                           answer : {"once", "reject"}, deferred : BOOLEAN]
  BY DecisionTyped DEF Deciders
<1>3. PermTypeOK'
  <2>1. deciding' \in {deciding, deciding \cup {Decision("expiry", c, "reject")}}
    BY DEF PermissionExpires
  <2>2. deciding' \subseteq [by : Deciders, context : PermRequests, answer : {"once", "reject"},
                             deferred : BOOLEAN]
    BY <1>2, <2>1 DEF PermInv, PermTypeOK
  <2> QED
    BY <1>1, <2>2 DEF PermissionExpires, PermInv, PermTypeOK
<1>4. NoNewAsk
  BY SameEvents DEF PermissionExpires
<1>5. "expiry" \in Deciders
  BY DEF Deciders
<1> QED
  BY <1>1, <1>3, <1>4, <1>5, OneTakes DEF PermissionExpires

LEMMA PermClickKeeps ==
  ASSUME PermInv, NEW c \in PermRequests, NEW answer \in {"once", "reject"},
         PermissionClick(c, answer)
  PROVE  PermInv'
<1>1. /\ contexts' \in [PermRequests -> [there : BOOLEAN, ids : SUBSET PermRequests,
                                         timer : {"off", "armed", "fired"}]]
      /\ \A e \in PermRequests : contexts'[e].there <=> contexts[e].there /\ e # c
  BY TakenTyped DEF PermissionClick, PermInv
<1>2. Decision("click", c, answer) \in [by : Deciders, context : PermRequests,
                                        answer : {"once", "reject"}, deferred : BOOLEAN]
  BY DecisionTyped DEF Deciders
<1>3. PermTypeOK'
  BY <1>1, <1>2, PermAssumption DEF PermissionClick, PermInv, PermTypeOK
<1>4. NoNewAsk
  BY SameEvents DEF PermissionClick
<1>5. "click" \in Deciders
  BY DEF Deciders
<1> QED
  BY <1>1, <1>3, <1>4, <1>5, OneTakes DEF PermissionClick

LEMMA DeferralKeeps ==
  ASSUME PermInv, NEW d \in deciding, PermissionDeferred(d)
  PROVE  PermInv'
<1> DEFINE later == [d EXCEPT !.deferred = TRUE]
<1>1. NoNewAsk /\ contexts' = contexts
  BY SameEvents DEF PermissionDeferred
<1>2. /\ d \in [by : Deciders, context : PermRequests, answer : {"once", "reject"},
                deferred : BOOLEAN]
      /\ later \in [by : Deciders, context : PermRequests, answer : {"once", "reject"},
                    deferred : BOOLEAN]
      /\ later.context = d.context
  BY DEF PermInv, PermTypeOK
<1> HIDE DEF later
<1>3. CASE deciding' = (deciding \ {d}) \cup {later} /\ UNCHANGED failed
  <2>1. PermTypeOK'
    BY <1>2, <1>3 DEF PermissionDeferred, PermInv, PermTypeOK
  <2>2. DecidersHold' /\ UnhandledUnseen'
    BY <1>1, <1>2, <1>3 DEF PermInv, DecidersHold, NoNewAsk, UnhandledUnseen, Unseen
  <2>3. PermOneDecider'
    BY <1>2, <1>3 DEF PermInv, PermOneDecider
  <2> QED
    BY <1>1, <2>1, <2>2, <2>3 DEF PermInv, NoNewAsk
<1>4. CASE deciding' = deciding \ {d} /\ failed' = failed \cup contexts[d.context].ids
  <2>1. PermTypeOK'
    BY <1>2, <1>4 DEF PermissionDeferred, PermInv, PermTypeOK
  <2> QED
    BY <1>1, <1>4, <2>1, NobodyDecides
<1> QED
  BY <1>3, <1>4 DEF PermissionDeferred, later

\* A failed dismissal puts the context back: its decider was the only one.
LEMMA DecisionKeeps ==
  ASSUME PermInv, NEW d \in deciding, Decided(d)
  PROVE  PermInv'
<1>1. /\ d.context \in PermRequests /\ d.answer \in {"once", "reject"}
      /\ contexts[d.context].ids \in SUBSET PermRequests
  BY DEF PermInv, PermTypeOK
<1>2. PICK heard \in SUBSET contexts[d.context].ids :
        /\ Answer(heard, d.answer)
        /\ failed' = failed \cup (contexts[d.context].ids \ heard)
        /\ contexts' = IF heard = contexts[d.context].ids \/ d.by # "message" THEN contexts
                       ELSE [contexts EXCEPT ![d.context].there = TRUE]
        /\ dismissal' = IF d.by = "message" /\ heard = contexts[d.context].ids
                        THEN [dismissal EXCEPT !.done = TRUE] ELSE dismissal
  BY DEF Decided
<1>3. /\ NoNewAsk
      /\ asked' \in [PermRequests -> {"no", "waiting", "once", "reject", "aborted"}]
  BY <1>1, <1>2, Answered
<1>4. deciding' = deciding \ {d}
  BY DEF Decided
<1>5. contexts' \in [PermRequests -> [there : BOOLEAN, ids : SUBSET PermRequests,
                                      timer : {"off", "armed", "fired"}]]
  <2>1. [contexts EXCEPT ![d.context].there = TRUE]
          \in [PermRequests -> [there : BOOLEAN, ids : SUBSET PermRequests,
                                timer : {"off", "armed", "fired"}]]
    <3>1. contexts[d.context] \in [there : BOOLEAN, ids : SUBSET PermRequests,
                                   timer : {"off", "armed", "fired"}]
      BY <1>1 DEF PermInv, PermTypeOK
    <3>2. [contexts[d.context] EXCEPT !.there = TRUE]
             \in [there : BOOLEAN, ids : SUBSET PermRequests, timer : {"off", "armed", "fired"}]
      BY <3>1, ThereTyped
    <3> QED
      BY <1>1, <3>2 DEF PermInv, PermTypeOK
  <2>2. contexts \in [PermRequests -> [there : BOOLEAN, ids : SUBSET PermRequests,
                                       timer : {"off", "armed", "fired"}]]
    BY DEF PermInv, PermTypeOK
  <2> QED
    BY <1>2, <2>1, <2>2
<1>6. dismissal' \in [at : {"off", "loop", "abort"}, left : SUBSET PermRequests, done : BOOLEAN]
  BY <1>2 DEF PermInv, PermTypeOK
<1>7. failed' \subseteq PermRequests
  BY <1>1, <1>2 DEF PermInv, PermTypeOK
<1>8. PermTypeOK'
  BY <1>3, <1>4, <1>5, <1>6, <1>7 DEF Decided, NoNewAsk, PermInv, PermTypeOK, EventSet
<1>9. \A c \in PermRequests : c # d.context => (contexts'[c].there <=> contexts[c].there)
  BY <1>1, <1>2 DEF PermInv, PermTypeOK
<1>10. \A e \in deciding' : e \in deciding /\ e.context # d.context /\ e.context \in PermRequests
  BY <1>4 DEF PermInv, PermOneDecider, PermTypeOK
<1>11. DecidersHold'
  BY <1>9, <1>10 DEF PermInv, DecidersHold
<1>12. UnhandledUnseen'
  BY <1>3, <1>9, <1>10 DEF NoNewAsk, PermInv, UnhandledUnseen, Unseen
<1>13. PermOneDecider'
  BY <1>10 DEF PermInv, PermOneDecider
<1> QED
  BY <1>3, <1>8, <1>11, <1>12, <1>13 DEF PermInv, NoNewAsk

LEMMA MessageKeeps ==
  ASSUME PermInv, PermissionMessage \/ PermDismisses
  PROVE  PermInv'
<1>1. CASE PermissionMessage
  <2>1. PermTypeOK'
    BY <1>1, PermAssumption DEF PermissionMessage, PermInv, PermTypeOK
  <2> QED
    BY <1>1, <2>1, SameEvents, NobodyDecides DEF PermissionMessage
<1>2. CASE DismissNext
  <2>1. PICK c \in dismissal.left :
          /\ dismissal' = [dismissal EXCEPT !.left = @ \ {c}]
          /\ contexts' = Taken(c)
          /\ deciding' = IF contexts[c].there THEN deciding \cup {Decision("message", c, "reject")}
                         ELSE deciding
    BY <1>2 DEF DismissNext
  <2>2. c \in PermRequests
    BY DEF PermInv, PermTypeOK
  <2>3. /\ contexts' \in [PermRequests -> [there : BOOLEAN, ids : SUBSET PermRequests,
                                           timer : {"off", "armed", "fired"}]]
        /\ \A e \in PermRequests : contexts'[e].there <=> contexts[e].there /\ e # c
    BY <2>1, <2>2, TakenTyped DEF PermInv
  <2>4. Decision("message", c, "reject") \in [by : Deciders, context : PermRequests,
                                              answer : {"once", "reject"}, deferred : BOOLEAN]
    BY <2>2, DecisionTyped DEF Deciders
  <2>5. PermTypeOK'
    BY <1>2, <2>1, <2>3, <2>4 DEF DismissNext, PermInv, PermTypeOK
  <2>6. NoNewAsk /\ "message" \in Deciders
    BY <1>2, SameEvents DEF DismissNext, Deciders
  <2> QED
    BY <2>1, <2>2, <2>3, <2>5, <2>6, OneTakes
<1>3. CASE DismissEnds
  <2>1. PermTypeOK'
    BY <1>3 DEF DismissEnds, NoDismissal, PermInv, PermTypeOK
  <2> QED
    BY <1>3, <2>1, SameEvents, NobodyDecides DEF DismissEnds
<1>4. CASE DismissAborts
  <2>1. PermTypeOK'
    BY <1>4 DEF DismissAborts, NoDismissal, PermInv, PermTypeOK
  <2>2. \A r \in PermRequests : asked'[r] = "no" <=> asked[r] = "no"
    BY <1>4 DEF DismissAborts
  <2> QED
    BY <1>4, <2>1, <2>2, SameEvents, NobodyDecides DEF DismissAborts
<1> QED
  BY <1>1, <1>2, <1>3, <1>4 DEF PermDismisses

-----------------------------------------------------------------------------
LEMMA PermInitHolds ==
  ASSUME PermInit
  PROVE  PermInv
<1>1. PermTypeOK
  <2>1. permUsed \in [clicks : 0 .. MaxPermClicks, messages : 0 .. MaxPermMessages]
    BY PermAssumption DEF PermInit
  <2>2. contexts \in [PermRequests -> [there : BOOLEAN, ids : SUBSET PermRequests,
                                       timer : {"off", "armed", "fired"}]]
    BY DEF PermInit
  <2>3. dismissal \in [at : {"off", "loop", "abort"}, left : SUBSET PermRequests, done : BOOLEAN]
    BY DEF PermInit, NoDismissal
  <2>4. permEvents \in Seq({"asked", "replied"} \X PermRequests)
    BY DEF PermInit
  <2> QED
    BY <2>1, <2>2, <2>3, <2>4 DEF PermInit, PermTypeOK
<1>2. \A r \in PermRequests : ~Ahead(r)
  BY DEF PermInit, Ahead
<1> QED
  BY <1>1, <1>2
     DEF PermInit, PermInv, AskedOnce, DecidersHold, UnhandledUnseen, Unseen, PermOneDecider

LEMMA PermStepHolds ==
  ASSUME PermInv, [PermNext]_permVars
  PROVE  PermInv'
<1>1. CASE UNCHANGED permVars
  <2>1. PermTypeOK'
    BY <1>1 DEF permVars, PermInv, PermTypeOK
  <2> QED
    BY <1>1, <2>1, SameEvents, NobodyDecides DEF permVars
<1>2. CASE PermNext
  BY <1>2, AskKeeps, ElsewhereKeeps, HandlerKeeps, ExpiryKeeps, PermClickKeeps, DeferralKeeps,
     DecisionKeeps, ShowingKeeps, TeardownKeeps, MessageKeeps
     DEF PermNext, PermDecides
<1> QED
  BY <1>1, <1>2

\* The types of the permission UI, for any requests, clicks and messages.
THEOREM PermTypeCorrect == PermSpec => []PermTypeOK
<1>1. PermInit => PermInv
  BY PermInitHolds
<1>2. PermInv /\ [PermNext]_permVars => PermInv'
  BY PermStepHolds
<1>3. PermInv => PermTypeOK
  BY DEF PermInv
<1> QED
  BY <1>1, <1>2, <1>3, PTL DEF PermSpec

\* Of the click, the timeout, the dismissal and the teardown, only one answers a
\* context at a time.
THEOREM OneDecides == PermSpec => []PermOneDecider
<1>1. PermInit => PermInv
  BY PermInitHolds
<1>2. PermInv /\ [PermNext]_permVars => PermInv'
  BY PermStepHolds
<1>3. PermInv => PermOneDecider
  BY DEF PermInv
<1> QED
  BY <1>1, <1>2, <1>3, PTL DEF PermSpec

-----------------------------------------------------------------------------
(***************************************************************************)
(* SlackTyping for every lease, debounce, retry delay and length of calls: *)
(* its types, and that no status is sent before the time Slack named when  *)
(* it refused one.                                                         *)
(*                                                                         *)
(* What a reconciler knows of such a limit is in the log, and the log is   *)
(* dropped at rest.  The invariant is that a limit that still holds is     *)
(* known; it survives because a blocked log has a timer, and a thread with *)
(* a timer is not at rest.  A limit named to a clear is never in the log.  *)
(***************************************************************************)

Log == [Kinds -> Nat]

\* Events are logged at the time of the clock, a limit some time ahead.
Bounded(e) ==
  /\ e \in Log
  /\ \A k \in Kinds \ {"retryAt"} : e[k] <= MaxTypTime
  /\ e.retryAt <= MaxTypTime + TypRetryAfter

\* A limit that still holds, and was named to a status, is in the log.
Knows(e) == now < limit => limit <= e.retryAt

TypInv == TypTypeOK /\ Bounded(last) /\ Knows(last)

-----------------------------------------------------------------------------
LEMMA Positive ==
  /\ TypLease \in Nat /\ TypDebounce \in Nat /\ TypRetryAfter \in Nat
  /\ TypLease > 0 /\ TypDebounce > 0 /\ TypRetryAfter > 0 /\ MaxTypTime > 0
  /\ MaxTypTime \in Nat /\ MaxCallTime \in Nat /\ MaxFaults \in Nat
  BY TypAssumption

LEMMA MinOfThree ==
  ASSUME NEW a \in Nat, NEW b \in Nat, NEW c \in Nat,
         NEW S \in SUBSET {a, b, c}, S # {}
  PROVE  Min(S) \in S
<1>1. \E x \in S : \A y \in S : x <= y
  <2> SUFFICES ASSUME \A x \in S : \E y \in S : y < x
               PROVE  FALSE
    OBVIOUS
  <2>1. PICK x \in S : TRUE
    OBVIOUS
  <2>2. PICK y \in S : y < x
    OBVIOUS
  <2>3. PICK z \in S : z < y
    OBVIOUS
  <2> QED
    BY <2>1, <2>2, <2>3
<1> QED
  BY <1>1 DEF Min

\* A log without a timer does not block, unless something is due at once.
LEMMA WakeOf ==
  ASSUME NEW e, Bounded(e), now \in 1 .. MaxTypTime
  PROVE  /\ NextWake(e) \in Times
         /\ NextWake(e) = 0 /\ Blocked(e) => ShouldClear(e)
<1> DEFINE retry == IF Blocked(e) THEN {e.retryAt} ELSE {}
           stop  == IF StopDue(e) # 0 THEN {StopDue(e)} ELSE {}
           wakes == IF ~Active(e) \/ LeaseExpired(e) THEN retry
                    ELSE retry \cup stop \cup {e.sent + TypLease}
<1>1. /\ \A k \in Kinds : e[k] \in Nat
      /\ {"start", "message", "sent", "cleared", "retryAt"} = Kinds
  BY DEF Bounded, Log, Kinds
<1>2. /\ e.retryAt \in Nat /\ StopDue(e) \in Nat /\ e.sent + TypLease \in Nat
      /\ e.retryAt \in Times /\ StopDue(e) \in Times /\ e.sent + TypLease \in Times
  BY <1>1, Positive DEF Bounded, StopDue, Times
<1>3. wakes \in SUBSET {e.retryAt, StopDue(e), e.sent + TypLease}
  OBVIOUS
<1>4. \A x \in wakes : x # 0
  BY <1>1, <1>2, Positive DEF Blocked
<1>5. NextWake(e) = IF ShouldSend(e) \/ ShouldClear(e) \/ wakes = {} THEN 0 ELSE Min(wakes)
  BY DEF NextWake
<1>6. Blocked(e) => wakes # {} /\ ~ShouldSend(e)
  BY DEF ShouldSend
<1>7. 0 \in Times
  BY Positive DEF Times
<1> HIDE DEF wakes
<1>8. wakes # {} => Min(wakes) \in wakes
  BY <1>2, <1>3, MinOfThree
<1> QED
  BY <1>2, <1>3, <1>4, <1>5, <1>6, <1>7, <1>8

-----------------------------------------------------------------------------
(* The reconciler *)

\* What the reconciler leaves, from a log that knows of the limit
Reconciled ==
  /\ Bounded(last') /\ Knows(last)'
  /\ call' \in {"no", "set", "clear"} /\ called' \in Times /\ dirty' \in BOOLEAN
  /\ wake' \in Times

LEMMA NothingLogged == Bounded(NoEvents)
  BY Positive DEF Bounded, NoEvents, Log, Kinds

LEMMA RestSettles ==
  ASSUME TypTypeOK, NEW e, Bounded(e), limit' \in Nat, now < limit' => limit' <= e.retryAt,
         Rest(e), now' = now
  PROVE  Reconciled
<1>1. NextWake(e) \in Times /\ (NextWake(e) = 0 /\ Blocked(e) => ShouldClear(e))
  BY WakeOf DEF TypTypeOK
<1>2. CASE last' = e
  BY <1>1, <1>2 DEF Rest, Reconciled, Knows, TypTypeOK
<1>3. CASE last' # e
  <2>1. last' = NoEvents /\ ~Blocked(e)
    BY <1>1, <1>3 DEF Rest, ShouldClear
  <2>2. ~(now < limit')
    BY <2>1, Positive DEF Blocked, TypTypeOK, Bounded, Log, Kinds
  <2> QED
    BY <1>1, <2>1, <2>2, NothingLogged DEF Rest, Reconciled, Knows, TypTypeOK
<1> QED
  BY <1>2, <1>3

LEMMA NowIsATime ==
  ASSUME TypTypeOK
  PROVE  now \in Times /\ now \in Nat
  BY Positive DEF TypTypeOK, Times

LEMMA ReconcileSettles ==
  ASSUME TypTypeOK, NEW e, Bounded(e), limit' \in Nat, now < limit' => limit' <= e.retryAt,
         NEW timer \in Times, Reconcile(e, timer), now' = now
  PROVE  Reconciled
<1>1. CASE ShouldSend(e) \/ ShouldClear(e)
  BY <1>1, NowIsATime DEF Reconcile, Reconciled, Knows
<1>2. CASE ~(ShouldSend(e) \/ ShouldClear(e))
  BY <1>2, RestSettles DEF Reconcile
<1> QED
  BY <1>1, <1>2

LEMMA LoggedSettles ==
  ASSUME TypTypeOK, NEW e, Bounded(e), limit' \in Nat, now < limit' => limit' <= e.retryAt,
         Logged(e), now' = now
  PROVE  Reconciled
<1>1. CASE call = "no"
  BY <1>1, ReconcileSettles DEF Logged, TypTypeOK
<1>2. CASE call # "no"
  BY <1>2 DEF Logged, Reconciled, Knows, TypTypeOK
<1> QED
  BY <1>1, <1>2

LEMMA EndedSettles ==
  ASSUME TypTypeOK, NEW e, Bounded(e), limit' \in Nat, now < limit' => limit' <= e.retryAt,
         Ended(e), now' = now
  PROVE  Reconciled
<1>1. CASE dirty
  BY <1>1, ReconcileSettles DEF Ended, TypTypeOK
<1>2. CASE ~dirty
  BY <1>2, RestSettles DEF Ended
<1> QED
  BY <1>1, <1>2

\* Another event of the moment keeps what the log knows.
LEMMA LogsMore ==
  ASSUME TypInv, NEW k \in Kinds \ {"retryAt"}
  PROVE  /\ Bounded([last EXCEPT ![k] = now])
         /\ [last EXCEPT ![k] = now].retryAt = last.retryAt
  BY Positive DEF TypInv, TypTypeOK, Bounded, Log, Kinds

LEMMA MaxOfTwo ==
  ASSUME NEW a \in Nat, NEW b \in Nat
  PROVE  Max({a, b}) \in {a, b} /\ Max({a, b}) >= a /\ Max({a, b}) >= b
<1>1. \E x \in {a, b} : \A y \in {a, b} : x >= y
  OBVIOUS
<1> QED
  BY <1>1 DEF Max

-----------------------------------------------------------------------------
LEMMA TypInitHolds ==
  ASSUME TypInit
  PROVE  TypInv
<1>1. 0 \in Times /\ NoEvents \in [Kinds -> Times]
  BY Positive DEF NoEvents, Times
<1>2. now \in 1 .. MaxTypTime /\ faults \in 0 .. MaxFaults
  BY Positive DEF TypInit
<1>3. TypTypeOK
  BY <1>1, <1>2 DEF TypInit, TypTypeOK
<1> QED
  BY <1>3, NothingLogged DEF TypInit, TypInv, Knows

LEMMA TypStepHolds ==
  ASSUME TypInv, [TypNext]_typVars
  PROVE  TypInv'
<1> SUFFICES ASSUME TypNext
             PROVE  TypInv'
  BY DEF TypInv, TypTypeOK, Bounded, Knows, typVars
<1>0. /\ TypTypeOK /\ Bounded(last) /\ Knows(last) /\ last \in Log
      /\ now \in Nat /\ now <= MaxTypTime /\ limit \in Nat /\ faults \in Nat
  BY Positive DEF TypInv, TypTypeOK, Bounded, Times
<1>a. ASSUME Reconciled, now' = now, faults' \in 0 .. MaxFaults, limit' \in Times,
             clearLimit' \in Times
      PROVE  TypInv'
  <2>1. last' \in [Kinds -> Times]
    BY <1>a, Positive DEF Reconciled, Bounded, Log, Kinds, Times
  <2> QED
    BY <1>0, <1>a, <2>1 DEF TypInv, TypTypeOK, Reconciled, Bounded, Knows
<1>1. CASE RequestStart
  BY <1>0, <1>1, <1>a, LogsMore, LoggedSettles DEF RequestStart, Knows, TypTypeOK, Kinds
<1>2. CASE NoteAssistantMessage
  BY <1>0, <1>2, <1>a, LogsMore, LoggedSettles DEF NoteAssistantMessage, Knows, TypTypeOK, Kinds
<1>3. CASE WakeFires
  <2>1. CASE call = "no"
    BY <1>0, <1>3, <1>a, <2>1, ReconcileSettles, Positive DEF WakeFires, Knows, TypTypeOK, Times
  <2>2. CASE call # "no"
    BY <1>0, <1>3, <2>2, Positive DEF WakeFires, TypInv, TypTypeOK, Knows, Bounded, Times
  <2> QED
    BY <2>1, <2>2
<1>4. CASE StatusSet
  BY <1>0, <1>4, <1>a, LogsMore, EndedSettles DEF StatusSet, Knows, TypTypeOK, Kinds
<1>5. CASE RateLimited
  <2> DEFINE e == [last EXCEPT !.retryAt = Max({@, now + TypRetryAfter})]
  <2>1. /\ e.retryAt \in {last.retryAt, now + TypRetryAfter}
        /\ e.retryAt >= now + TypRetryAfter
    BY <1>0, Positive, MaxOfTwo DEF Log, Kinds
  <2>2. Bounded(e)
    BY <1>0, <2>1, Positive DEF Bounded, Log, Kinds
  <2>3. Ended(e) /\ limit' = now + TypRetryAfter /\ now' = now
        /\ faults' \in 0 .. MaxFaults /\ limit' \in Times /\ clearLimit' \in Times
    BY <1>0, <1>5, Positive DEF RateLimited, Times, TypTypeOK
  <2> HIDE DEF e
  <2>4. Reconciled
    <3>1. limit' \in Nat /\ limit' <= e.retryAt
      BY <1>0, <2>1, <2>3, Positive
    <3> QED
      BY <1>0, <2>2, <2>3, <3>1, EndedSettles
  <2> QED
    BY <1>a, <2>3, <2>4
<1>6. CASE StatusFails
  BY <1>0, <1>6, <1>a, EndedSettles, Positive DEF StatusFails, Knows, TypTypeOK
<1>7. CASE StatusCleared
  BY <1>0, <1>7, <1>a, LogsMore, EndedSettles DEF StatusCleared, Knows, TypTypeOK, Kinds
<1>8. CASE TypTick
  BY <1>0, <1>8, Positive DEF TypTick, TypInv, TypTypeOK, Bounded, Knows
<1>9. CASE ClearLimited
  <2>1. now + TypRetryAfter \in Times
    BY <1>0, Positive DEF Times
  <2>2. Reconciled
    BY <1>0, <1>9, LogsMore, EndedSettles DEF ClearLimited, Knows, TypTypeOK, Kinds
  <2> QED
    BY <1>0, <1>9, <1>a, <2>1, <2>2, Positive DEF ClearLimited, TypTypeOK
<1> QED
  BY <1>1, <1>2, <1>3, <1>4, <1>5, <1>6, <1>7, <1>8, <1>9 DEF TypNext

-----------------------------------------------------------------------------
\* The types of the typing status, for every lease, debounce and delay.
THEOREM TypTypeCorrect == TypSpec => []TypTypeOK
<1>1. TypInit => TypInv
  BY TypInitHolds
<1>2. TypInv /\ [TypNext]_typVars => TypInv'
  BY TypStepHolds
<1>3. TypInv => TypTypeOK
  BY DEF TypInv
<1> QED
  BY <1>1, <1>2, <1>3, PTL DEF TypSpec

\* A call begins only when the intent wants one, and it wants none while the log
\* it looks at is blocked.
LEMMA BegunUnblocked ==
  ASSUME TypInv, TypNext, call # "set", call' = "set"
  PROVE  now >= limit
<1>0. now \in Nat /\ limit \in Nat
  BY Positive DEF TypInv, TypTypeOK, Times
<1>a. ASSUME NEW e \in Log, e.retryAt = last.retryAt, ShouldSend(e)
      PROVE  now >= limit
  BY <1>0, <1>a DEF ShouldSend, Blocked, TypInv, Knows, Log, Kinds
<1>b. ASSUME NEW e, NEW timer, Reconcile(e, timer)
      PROVE  ShouldSend(e)
  BY <1>b DEF Reconcile, Rest
<1>c. /\ \A k \in Kinds \ {"retryAt"} :
           /\ [last EXCEPT ![k] = now] \in Log
           /\ [last EXCEPT ![k] = now].retryAt = last.retryAt
      /\ last \in Log
  BY LogsMore DEF Bounded, TypInv
<1>1. CASE RequestStart
  BY <1>1, <1>a, <1>b, <1>c DEF RequestStart, Logged, Kinds
<1>2. CASE NoteAssistantMessage
  BY <1>2, <1>a, <1>b, <1>c DEF NoteAssistantMessage, Logged, Kinds
<1>3. CASE WakeFires
  BY <1>3, <1>a, <1>b, <1>c DEF WakeFires
<1>4. CASE StatusCleared \/ ClearLimited
  BY <1>4, <1>a, <1>b, <1>c DEF StatusCleared, ClearLimited, Ended, Rest, Kinds
<1>5. CASE StatusSet \/ RateLimited \/ StatusFails
  BY <1>5 DEF StatusSet, RateLimited, StatusFails, CallTook
<1>6. CASE TypTick
  BY <1>6 DEF TypTick
<1> QED
  BY <1>1, <1>2, <1>3, <1>4, <1>5, <1>6 DEF TypNext

\* No call to show a status begins before the time Slack named when it refused one.
THEOREM LimitHonoured == TypSpec => TypHonoursLimit
<1>1. TypInit => TypInv
  BY TypInitHolds
<1>2. TypInv /\ [TypNext]_typVars => TypInv'
  BY TypStepHolds
<1>3. TypInv /\ [TypNext]_typVars => [call # "set" /\ call' = "set" => now >= limit]_typVars
  BY BegunUnblocked
<1> QED
  BY <1>1, <1>2, <1>3, PTL DEF TypSpec, TypHonoursLimit

-----------------------------------------------------------------------------
(***************************************************************************)
(* MCServices: a step is a step of one component, and each component       *)
(* starts in one of its initial states, exercised or not.                  *)
(***************************************************************************)

LEMMA ServiceParts ==
  ASSUME [SvcNext]_svcVars
  PROVE  /\ part' = part
         /\ [RpcNext]_rpcVars /\ [AccNext]_accVars /\ [IpcNext]_ipcVars /\ [SrvNext]_srvVars
         /\ [PermNext]_permVars /\ [IntNext]_intVars /\ [TypNext]_typVars
<1>1. CASE Next /\ UNCHANGED <<part, rpcVars, accVars, ipcVars, srvVars, permVars, intVars, typVars>>
  BY <1>1
<1>2. CASE RpcNext /\ UNCHANGED <<part, vars, accVars, ipcVars, srvVars, permVars, intVars, typVars>>
  BY <1>2
<1>3. CASE AccNext /\ UNCHANGED <<part, vars, rpcVars, ipcVars, srvVars, permVars, intVars, typVars>>
  BY <1>3
<1>4. CASE IpcNext /\ UNCHANGED <<part, vars, rpcVars, accVars, srvVars, permVars, intVars, typVars>>
  BY <1>4
<1>5. CASE SrvNext /\ UNCHANGED <<part, vars, rpcVars, accVars, ipcVars, permVars, intVars, typVars>>
  BY <1>5
<1>6. CASE PermNext /\ UNCHANGED <<part, vars, rpcVars, accVars, ipcVars, srvVars, intVars, typVars>>
  BY <1>6
<1>7. CASE IntNext /\ UNCHANGED <<part, vars, rpcVars, accVars, ipcVars, srvVars, permVars, typVars>>
  BY <1>7
<1>8. CASE TypNext /\ UNCHANGED <<part, vars, rpcVars, accVars, ipcVars, srvVars, permVars, intVars>>
  BY <1>8
<1>9. CASE UNCHANGED svcVars
  BY <1>9 DEF svcVars
<1> QED
  BY <1>1, <1>2, <1>3, <1>4, <1>5, <1>6, <1>7, <1>8, <1>9 DEF SvcNext

\* The seven components around the threads have their types, for any callers,
\* accounts, processes, requests, messages and bounds.
THEOREM ServiceTypesCorrect == SvcSpec => []SvcTypeOK
<1>1. SvcInit => /\ part \in Parts
                 /\ RpcInit /\ AccInit /\ IpcInit /\ SrvInit /\ PermInit /\ IntInit /\ TypInit
  BY DEF SvcInit
<1>2. [SvcNext]_svcVars =>
        /\ part \in Parts => (part \in Parts)'
        /\ [RpcNext]_rpcVars /\ [AccNext]_accVars /\ [IpcNext]_ipcVars /\ [SrvNext]_srvVars
        /\ [PermNext]_permVars /\ [IntNext]_intVars /\ [TypNext]_typVars
  BY ServiceParts
<1>3. SvcSpec => /\ [](part \in Parts)
                 /\ RpcSpec /\ AccSpec /\ IpcSpec /\ SrvSpec /\ PermSpec /\ IntSpec /\ TypSpec
  BY <1>1, <1>2, PTL
     DEF SvcSpec, RpcSpec, AccSpec, IpcSpec, SrvSpec, PermSpec, IntSpec, TypSpec
<1>4. /\ part \in Parts
      /\ RpcTypeOK /\ AccTypeOK /\ IpcTypeOK /\ SrvTypeOK /\ PermTypeOK /\ IntTypeOK /\ TypTypeOK
      => SvcTypeOK
  BY DEF SvcTypeOK
<1> QED
  BY <1>3, <1>4, RpcTypeCorrect, AccTypeCorrect, IpcTypeCorrect, SrvTypeCorrect, PermTypeCorrect,
     IntTypeCorrect, TypTypeCorrect, PTL

=============================================================================
