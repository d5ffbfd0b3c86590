-------------------------- MODULE RpcSessionProofs --------------------------
(***************************************************************************)
(* RpcSession for any turns, requests and aborts: a live session has one   *)
(* omo child, and a turn that is over has been shown idle.                 *)
(*                                                                         *)
(* Children are started for three uses, and each use has to find the       *)
(* earlier ones dead.  The fresh client follows a startup death, before    *)
(* anybody else can know of the session; the client of the retry follows   *)
(* the death of the client that the turn, and therefore the session, used. *)
(* For the second one must know that a session that was not retried uses   *)
(* one client, and that whoever waits on it waits on that one.             *)
(*                                                                         *)
(* The second half bounds what a child can leave over (settledCount): its  *)
(* settlements, its work and the turns that may still prompt it are        *)
(* together at most the turns, since a turn prompts a client once and the  *)
(* retry of a turn goes to a client of its own.                            *)
(***************************************************************************)
EXTENDS RpcSession, TLAPS, FiniteSetTheorems

AnyClient == [running : BOOLEAN, up : BOOLEAN, pending : SUBSET RpcCallers,
              waiters : SUBSET RpcCallers, spare : Nat, work : SUBSET RpcCallers]
AnyLive == [use : ClientUses, adapting : BOOLEAN, retried : BOOLEAN]
AnyProgress == [at : RpcSteps, of : RpcCallers \cup {NoLive}, use : ClientUses, again : BOOLEAN]

\* RpcTypeOK without the bounds that only limit the instance
Shape ==
  /\ sessions \in RpcCallers \cup {NoLive}
  /\ live \in [RpcCallers -> AnyLive]
  /\ client \in [RpcCallers -> [ClientUses -> AnyClient]]
  /\ rpc \in [RpcCallers -> AnyProgress]
  /\ idled \subseteq RpcTurns

Startup == {"new", "starting", "probing"}
Engaged == {"handle", "begun", "asked", "waiting", "dead", "deadline", "aborting", "stop",
            "stopping"}

\* Who waits on a client uses its session.
WaitersUseIt ==
  \A l \in RpcCallers, u \in ClientUses :
    \A x \in client[l][u].pending \cup client[l][u].waiters :
      /\ rpc[x].of = l /\ rpc[x].at \notin {"new", "starting", "handle"}
      /\ rpc[x].at = "probing" => rpc[x].use = u /\ x \notin client[l][u].waiters

\* A session that is being started has at most the child that is probed.
StartsAlone ==
  \A x \in RpcCallers : rpc[x].at \in Startup =>
    /\ rpc[x].use \in {"first", "fresh"}
    /\ rpc[x].at # "new" => rpc[x].of = x
    /\ \A u \in ClientUses : client[x][u].up => rpc[x].at = "probing" /\ rpc[x].use = u

\* A session that is used has been started, and uses one client until its retry.
Started(l) ==
  /\ rpc[l].at \notin Startup
  /\ ~live[l].retried => /\ live[l].use # "retry"
                         /\ \A u \in ClientUses : client[l][u].up => u = live[l].use
UsedIsSettled ==
  /\ sessions # NoLive => Started(sessions)
  /\ \A x \in RpcCallers : rpc[x].at \in Engaged => rpc[x].of \in RpcCallers /\ Started(rpc[x].of)

\* A turn waits on the client its session uses; when it has lost its transport
\* the session has no child.
TurnsUseIt ==
  \A t \in RpcTurns :
    /\ rpc[t].at \in {"asked", "waiting"} /\ ~live[rpc[t].of].retried =>
         rpc[t].use = live[rpc[t].of].use
    /\ rpc[t].at = "dead" /\ ~live[rpc[t].of].retried =>
         \A u \in ClientUses : ~client[rpc[t].of][u].up
OnlyTurnsDie == \A x \in RpcCallers : rpc[x].at = "dead" => x \in RpcTurns

OneChild == \A l \in RpcCallers : \A u, v \in ClientUses :
              client[l][u].up /\ client[l][v].up => u = v

Shown == {"deadline", "aborting", "stop", "stopping", "settled", "gaveup"}
\* A turn that was shown busy has been shown idle, or its adapter will do it.
BusyIsWatched ==
  \A t \in RpcTurns :
    /\ rpc[t].at \in Engaged \ {"handle"} => t \in idled \/ live[rpc[t].of].adapting
    /\ rpc[t].at \in Shown => t \in idled

Children == StartsAlone /\ UsedIsSettled /\ TurnsUseIt /\ OnlyTurnsDie /\ OneChild
RpcInv == Shape /\ WaitersUseIt /\ Children /\ BusyIsWatched

-----------------------------------------------------------------------------
LEMMA RpcConstants ==
  /\ RpcTurns \subseteq RpcCallers /\ RpcCalls \subseteq RpcCallers /\ RpcAborts \subseteq RpcCallers
  /\ NoLive \notin RpcCallers
  BY RpcAssumption DEF RpcCallers

LEMMA ClientsTyped ==
  /\ NoClient \in AnyClient /\ NewClient \in AnyClient
  /\ ~NoClient.up /\ NewClient.up /\ NewClient.pending = {} /\ NewClient.waiters = {}
  /\ NoClient.pending = {} /\ NoClient.waiters = {}
  BY DEF NoClient, NewClient, AnyClient

\* One caller makes a step.
LEMMA CallerSteps ==
  ASSUME rpc \in [RpcCallers -> AnyProgress], NEW x \in RpcCallers, NEW w \in AnyProgress,
         rpc' = [rpc EXCEPT ![x] = w]
  PROVE  /\ rpc' \in [RpcCallers -> AnyProgress] /\ rpc'[x] = w
         /\ \A y \in RpcCallers : y # x => rpc'[y] = rpc[y]
  OBVIOUS

LEMMA CallerGoes ==
  ASSUME rpc \in [RpcCallers -> AnyProgress], NEW x \in RpcCallers, NEW step \in RpcSteps,
         RpcGoes(x, step)
  PROVE  /\ rpc' \in [RpcCallers -> AnyProgress]
         /\ rpc'[x].at = step /\ rpc'[x].of = rpc[x].of /\ rpc'[x].use = rpc[x].use
         /\ rpc'[x].again = rpc[x].again
         /\ \A y \in RpcCallers : y # x => rpc'[y] = rpc[y]
<1> DEFINE w == [rpc[x] EXCEPT !.at = step]
<1>1. rpc' = [rpc EXCEPT ![x] = w]
  BY DEF RpcGoes
<1>2. w \in AnyProgress
  BY DEF AnyProgress
<1>3. w.at = step /\ w.of = rpc[x].of /\ w.use = rpc[x].use /\ w.again = rpc[x].again
  BY DEF AnyProgress
<1> HIDE DEF w
<1> QED
  BY <1>1, <1>2, <1>3, CallerSteps

\* A caller that is waiting on client u of its session from now on
LEMMA CallerAsks ==
  ASSUME rpc \in [RpcCallers -> AnyProgress], NEW x \in RpcCallers, NEW step \in RpcSteps,
         NEW use \in ClientUses, rpc' = [rpc EXCEPT ![x].at = step, ![x].use = use]
  PROVE  /\ rpc' \in [RpcCallers -> AnyProgress]
         /\ rpc'[x].at = step /\ rpc'[x].of = rpc[x].of /\ rpc'[x].use = use
         /\ \A y \in RpcCallers : y # x => rpc'[y] = rpc[y]
<1> DEFINE w == [rpc[x] EXCEPT !.at = step, !.use = use]
<1>1. rpc' = [rpc EXCEPT ![x] = w]
  OBVIOUS
<1>2. w \in AnyProgress
  BY DEF AnyProgress
<1>3. w.at = step /\ w.of = rpc[x].of /\ w.use = use
  BY DEF AnyProgress
<1> HIDE DEF w
<1> QED
  BY <1>1, <1>2, <1>3, CallerSteps

AllClients == [RpcCallers -> [ClientUses -> AnyClient]]

\* A caller that waits on a client from now on
LEMMA PendingJoined ==
  ASSUME client \in AllClients, NEW l \in RpcCallers, NEW u \in ClientUses, NEW x \in RpcCallers,
         client' = [client EXCEPT ![l][u].pending = @ \cup {x}]
  PROVE  /\ client' \in AllClients
         /\ client'[l][u].pending = client[l][u].pending \cup {x}
         /\ client'[l][u].waiters = client[l][u].waiters /\ client'[l][u].up = client[l][u].up
         /\ \A k \in RpcCallers, v \in ClientUses : (k = l /\ v = u) \/ client'[k][v] = client[k][v]
<1> DEFINE c == [client[l][u] EXCEPT !.pending = @ \cup {x}]
           clients == [client[l] EXCEPT ![u] = c]
<1>1. client' = [client EXCEPT ![l] = clients]
  OBVIOUS
<1>2. client[l] \in [ClientUses -> AnyClient] /\ client[l][u] \in AnyClient
  BY DEF AllClients
<1>3. /\ c \in AnyClient /\ c.pending = client[l][u].pending \cup {x}
      /\ c.waiters = client[l][u].waiters /\ c.up = client[l][u].up
  BY <1>2 DEF AnyClient
<1> HIDE DEF c
<1>4. /\ clients \in [ClientUses -> AnyClient] /\ clients[u] = c
      /\ \A v \in ClientUses : v # u => clients[v] = client[l][v]
  BY <1>2, <1>3
<1> HIDE DEF clients
<1>5. /\ client' \in AllClients /\ client'[l] = clients
      /\ \A k \in RpcCallers : k # l => client'[k] = client[k]
  BY <1>1, <1>4 DEF AllClients
<1> QED
  BY <1>3, <1>4, <1>5

\* A caller that no longer waits on a client
LEMMA PendingLeft ==
  ASSUME client \in AllClients, NEW l \in RpcCallers, NEW u \in ClientUses, NEW x \in RpcCallers,
         client' = [client EXCEPT ![l][u].pending = @ \ {x}]
  PROVE  /\ client' \in AllClients
         /\ client'[l][u].pending = client[l][u].pending \ {x}
         /\ client'[l][u].waiters = client[l][u].waiters /\ client'[l][u].up = client[l][u].up
         /\ \A k \in RpcCallers, v \in ClientUses : (k = l /\ v = u) \/ client'[k][v] = client[k][v]
<1> DEFINE c == [client[l][u] EXCEPT !.pending = @ \ {x}]
           clients == [client[l] EXCEPT ![u] = c]
<1>1. client' = [client EXCEPT ![l] = clients]
  OBVIOUS
<1>2. client[l] \in [ClientUses -> AnyClient] /\ client[l][u] \in AnyClient
  BY DEF AllClients
<1>3. /\ c \in AnyClient /\ c.pending = client[l][u].pending \ {x}
      /\ c.waiters = client[l][u].waiters /\ c.up = client[l][u].up
  BY <1>2 DEF AnyClient
<1> HIDE DEF c
<1>4. /\ clients \in [ClientUses -> AnyClient] /\ clients[u] = c
      /\ \A v \in ClientUses : v # u => clients[v] = client[l][v]
  BY <1>2, <1>3
<1> HIDE DEF clients
<1>5. /\ client' \in AllClients /\ client'[l] = clients
      /\ \A k \in RpcCallers : k # l => client'[k] = client[k]
  BY <1>1, <1>4 DEF AllClients
<1> QED
  BY <1>3, <1>4, <1>5

\* Nobody starts a child, and who begins to use a session finds it in the map.
LEMMA NobodyStarts ==
  ASSUME RpcInv, Shape', sessions' \in {sessions, NoLive},
         \A l \in RpcCallers : /\ live'[l].use = live[l].use /\ live'[l].retried = live[l].retried
                               /\ \A u \in ClientUses : client'[l][u].up => client[l][u].up,
         \A x \in RpcCallers :
           \/ /\ rpc'[x].of = rpc[x].of
              /\ rpc'[x].at \in Startup => rpc'[x].at = rpc[x].at /\ rpc'[x].use = rpc[x].use
              /\ rpc'[x].at \in Engaged => rpc[x].at \in Engaged
              /\ rpc'[x].at = "dead" => rpc[x].at = "dead"
              /\ rpc'[x].at \in {"asked", "waiting"} /\ x \in RpcTurns =>
                   \/ rpc[x].at \in {"asked", "waiting"} /\ rpc'[x].use = rpc[x].use
                   \/ rpc'[x].use = live[rpc[x].of].use
           \/ /\ x \notin RpcTurns /\ sessions # NoLive
              /\ rpc'[x].of = sessions /\ rpc'[x].at \notin Startup \cup {"dead"}
  PROVE  Children'
<1>0. /\ StartsAlone /\ UsedIsSettled /\ TurnsUseIt /\ OnlyTurnsDie /\ OneChild /\ RpcTurns \subseteq RpcCallers
      /\ sessions \in RpcCallers \cup {NoLive}
  BY RpcConstants DEF RpcInv, Children, Shape
<1>1. StartsAlone'
  BY <1>0 DEF StartsAlone
<1>2. \A l \in RpcCallers : Started(l) => Started(l)'
  BY DEF Started
<1>3. UsedIsSettled'
  BY <1>0, <1>2 DEF UsedIsSettled
<1>4. \A t \in RpcTurns : rpc'[t].at \in {"asked", "waiting", "dead"} => rpc[t].of \in RpcCallers
  BY <1>0, RpcConstants DEF UsedIsSettled, Engaged
<1>5. TurnsUseIt'
  BY <1>0, <1>4 DEF TurnsUseIt
<1>6. OnlyTurnsDie' /\ OneChild'
  BY <1>0 DEF OnlyTurnsDie, OneChild
<1> QED
  BY <1>1, <1>3, <1>5, <1>6 DEF Children

NotWaiting == {"new", "starting", "handle", "probing"}
Waits(x, l, u) == x \in client[l][u].pending \cup client[l][u].waiters

\* Whoever waits on a client did so before, or is past its start and of the
\* client's session.
LEMMA NobodyWaits ==
  ASSUME RpcInv, Shape',
         \A l \in RpcCallers, u \in ClientUses, x \in RpcCallers : Waits(x, l, u)' =>
           \/ /\ Waits(x, l, u) /\ rpc'[x] = rpc[x]
              /\ x \in client'[l][u].waiters => x \in client[l][u].waiters
           \/ rpc'[x].of = l /\ rpc'[x].at \notin NotWaiting
  PROVE  WaitersUseIt'
<1> SUFFICES ASSUME NEW l \in RpcCallers, NEW u \in ClientUses,
                    NEW x \in client'[l][u].pending \cup client'[l][u].waiters
             PROVE  /\ rpc'[x].of = l /\ rpc'[x].at \notin {"new", "starting", "handle"}
                    /\ rpc'[x].at = "probing" =>
                         rpc'[x].use = u /\ x \notin client'[l][u].waiters
  BY DEF WaitersUseIt
<1>1. x \in RpcCallers
  BY DEF Shape, AnyClient
<1>2. CASE rpc'[x].of = l /\ rpc'[x].at \notin NotWaiting
  BY <1>2 DEF NotWaiting
<1>3. CASE /\ Waits(x, l, u) /\ rpc'[x] = rpc[x]
           /\ x \in client'[l][u].waiters => x \in client[l][u].waiters
  BY <1>3 DEF RpcInv, WaitersUseIt, Waits
<1> QED
  BY <1>1, <1>2, <1>3 DEF Waits

\* Turns stay as busy as they were.
LEMMA NobodyIdles ==
  ASSUME RpcInv, live' = live, idled' = idled,
         \A t \in RpcTurns :
           /\ rpc'[t].of = rpc[t].of
           /\ rpc'[t].at \in Engaged \ {"handle"} => rpc[t].at \in Engaged \ {"handle"}
           /\ rpc'[t].at \in Shown => rpc[t].at \in Shown
  PROVE  BusyIsWatched'
  BY DEF RpcInv, BusyIsWatched

LEMMA EngagedHas ==
  ASSUME RpcInv, NEW x \in RpcCallers, rpc[x].at \in Engaged
  PROVE  /\ rpc[x].of \in RpcCallers /\ Started(rpc[x].of)
         /\ live[rpc[x].of].use \in ClientUses
  BY DEF RpcInv, Children, UsedIsSettled, Shape, AnyLive

LEMMA IdleShown ==
  ASSUME RpcInv, NEW l \in RpcCallers, AbortAdapter(l)
  PROVE  /\ live' \in [RpcCallers -> AnyLive]
         /\ \A k \in RpcCallers : /\ live'[k].use = live[k].use /\ live'[k].retried = live[k].retried
                                  /\ k # l => live'[k] = live[k]
         /\ idled' \subseteq RpcTurns /\ idled \subseteq idled'
         /\ \A t \in RpcTurns : rpc[t].of = l /\ rpc[t].at \in Engaged \ {"handle"} => t \in idled'
<1>1. /\ live' \in [RpcCallers -> AnyLive]
      /\ \A k \in RpcCallers : /\ live'[k].use = live[k].use /\ live'[k].retried = live[k].retried
                               /\ k # l => live'[k] = live[k]
  BY DEF AbortAdapter, RpcInv, Shape, AnyLive
<1>2. idled' = idled \cup InTurn(l) /\ InTurn(l) \subseteq RpcTurns
  BY DEF AbortAdapter, InTurn
<1>3. \A t \in RpcTurns : rpc[t].of = l /\ rpc[t].at \in Engaged \ {"handle"} => t \in InTurn(l)
  BY DEF InTurn, RpcEnded, Engaged
<1> QED
  BY <1>1, <1>2, <1>3 DEF RpcInv, Shape

\* An idle event keeps the watch, whatever the callers do.
LEMMA IdleKeepsWatch ==
  ASSUME RpcInv, NEW l \in RpcCallers, AbortAdapter(l),
         \A t \in RpcTurns :
           /\ rpc'[t].of = rpc[t].of
           /\ rpc'[t].at \in Engaged \ {"handle"} => rpc[t].at \in Engaged \ {"handle"}
           /\ rpc'[t].at \in Shown =>
                \/ rpc[t].at \in Shown
                \/ rpc[t].of = l /\ rpc[t].at \in Engaged \ {"handle"}
  PROVE  BusyIsWatched'
<1>1. \A t \in RpcTurns :
        rpc[t].at \in Engaged \ {"handle"} => rpc[t].of \in RpcCallers
  BY EngagedHas, RpcConstants
<1>2. /\ \A k \in RpcCallers : k # l => live'[k] = live[k]
      /\ idled \subseteq idled'
      /\ \A t \in RpcTurns : rpc[t].of = l /\ rpc[t].at \in Engaged \ {"handle"} => t \in idled'
  BY IdleShown
<1> QED
  BY <1>1, <1>2 DEF RpcInv, BusyIsWatched

-----------------------------------------------------------------------------
(* Getting a session *)

LEMMA GetKeeps ==
  ASSUME RpcInv, NEW x \in RpcCallers, GetSession(x)
  PROVE  RpcInv'
<1> DEFINE step == [rpc[x] EXCEPT !.at = IF sessions = NoLive THEN "starting" ELSE "handle",
                                  !.of = IF sessions = NoLive THEN x ELSE sessions]
<1>1. /\ rpc[x].at = "new" /\ rpc' = [rpc EXCEPT ![x] = step]
      /\ UNCHANGED <<sessions, live, client, idled>>
      /\ sessions \in RpcCallers \cup {NoLive} /\ rpc[x] \in AnyProgress
      /\ rpc \in [RpcCallers -> AnyProgress]
  BY DEF GetSession, RpcAt, RpcInv, Shape
<1>2. /\ step \in AnyProgress /\ step.use = rpc[x].use
      /\ sessions = NoLive => step.at = "starting" /\ step.of = x
      /\ sessions # NoLive => step.at = "handle" /\ step.of = sessions
  BY <1>1 DEF AnyProgress, RpcSteps
<1> HIDE DEF step
<1>3. Shape' /\ rpc'[x] = step /\ \A y \in RpcCallers \ {x} : rpc'[y] = rpc[y]
  BY <1>1, <1>2 DEF RpcInv, Shape
<1>4. WaitersUseIt'
  BY <1>1, <1>3 DEF RpcInv, WaitersUseIt, Shape, AnyClient
<1>5. StartsAlone'
  BY <1>1, <1>2, <1>3 DEF RpcInv, Children, StartsAlone, Startup
<1>6. \A l \in RpcCallers : Started(l) => Started(l)'
  BY <1>1, <1>2, <1>3 DEF Started, Startup
<1>7. UsedIsSettled'
  BY <1>1, <1>2, <1>3, <1>6 DEF RpcInv, Children, UsedIsSettled, Engaged
<1>8. TurnsUseIt' /\ OnlyTurnsDie' /\ OneChild'
  BY <1>1, <1>2, <1>3, RpcConstants DEF RpcInv, Children, TurnsUseIt, OnlyTurnsDie, OneChild
<1>9. BusyIsWatched'
  BY <1>1, <1>2, <1>3, RpcConstants DEF RpcInv, BusyIsWatched, Engaged, Shown
<1> QED
  BY <1>3, <1>4, <1>5, <1>7, <1>8, <1>9 DEF RpcInv, Children

LEMMA StartKeeps ==
  ASSUME RpcInv, NEW x \in RpcCallers, StartChild(x)
  PROVE  RpcInv'
<1> DEFINE use == rpc[x].use
           new == [NewClient EXCEPT !.pending = {x}]
<1>1. /\ rpc[x].at = "starting" /\ RpcGoes(x, "probing")
      /\ client' = [client EXCEPT ![x][use] = new]
      /\ UNCHANGED <<sessions, live, idled>>
  BY DEF StartChild, RpcAt
<1>2. /\ rpc \in [RpcCallers -> AnyProgress] /\ client \in AllClients
      /\ use \in ClientUses /\ rpc[x].of = x /\ use \in {"first", "fresh"}
      /\ \A u \in ClientUses : ~client[x][u].up
  BY <1>1 DEF RpcInv, Children, StartsAlone, Startup, Shape, AnyProgress, AllClients
<1>3. new \in AnyClient /\ new.pending = {x} /\ new.waiters = {} /\ new.up
  BY DEF NewClient, NoClient, AnyClient
<1>4. rpc'[x].use = use
  BY <1>1, <1>2, CallerGoes DEF RpcSteps
<1> HIDE DEF new, use
<1>5. /\ rpc' \in [RpcCallers -> AnyProgress] /\ rpc'[x].at = "probing" /\ rpc'[x].of = x
      /\ \A y \in RpcCallers : y # x => rpc'[y] = rpc[y]
  BY <1>1, <1>2, CallerGoes DEF RpcSteps
<1>6. /\ client' \in AllClients /\ client'[x][use] = new
      /\ \A k \in RpcCallers, v \in ClientUses : (k = x /\ v = use) \/ client'[k][v] = client[k][v]
  BY <1>1, <1>2, <1>3 DEF AllClients
<1>7. Shape'
  BY <1>1, <1>5, <1>6 DEF RpcInv, Shape, AllClients
<1>8. WaitersUseIt'
  <2> SUFFICES ASSUME NEW l \in RpcCallers, NEW u \in ClientUses,
                      NEW y \in client'[l][u].pending \cup client'[l][u].waiters
               PROVE  /\ rpc'[y].of = l /\ rpc'[y].at \notin {"new", "starting", "handle"}
                      /\ rpc'[y].at = "probing" =>
                           rpc'[y].use = u /\ y \notin client'[l][u].waiters
    BY DEF WaitersUseIt
  <2>1. CASE l = x /\ u = use
    BY <1>3, <1>4, <1>5, <1>6, <2>1
  <2>2. CASE ~(l = x /\ u = use)
    <3>1. client'[l][u] = client[l][u]
      BY <1>6, <2>2
    <3>2. y \in RpcCallers /\ y # x
      BY <1>1, <3>1 DEF RpcInv, WaitersUseIt, Shape, AnyClient
    <3> QED
      BY <1>5, <3>1, <3>2 DEF RpcInv, WaitersUseIt
  <2> QED
    BY <2>1, <2>2
<1>9. StartsAlone'
  BY <1>2, <1>4, <1>5, <1>6 DEF RpcInv, Children, StartsAlone, Startup
<1>10. \A l \in RpcCallers : Started(l) => Started(l)' /\ l # x
  BY <1>1, <1>5, <1>6 DEF Started, Startup
<1>11. UsedIsSettled'
  BY <1>1, <1>5, <1>10 DEF RpcInv, Children, UsedIsSettled, Engaged, Shape
<1>12. TurnsUseIt'
  <2>1. \A t \in RpcTurns : rpc[t].at \in {"asked", "waiting", "dead"} =>
          rpc[t].of \in RpcCallers /\ rpc[t].of # x
    BY <1>10, EngagedHas, RpcConstants DEF Engaged
  <2> QED
    BY <1>1, <1>5, <1>6, <2>1, RpcConstants DEF RpcInv, Children, TurnsUseIt
<1>15. OnlyTurnsDie'
  BY <1>5 DEF RpcInv, Children, OnlyTurnsDie
<1>13. OneChild'
  <2> SUFFICES ASSUME NEW l \in RpcCallers, NEW u \in ClientUses, NEW v \in ClientUses,
                      client'[l][u].up, client'[l][v].up
               PROVE  u = v
    BY DEF OneChild
  <2>1. CASE l = x
    BY <1>2, <1>6, <2>1
  <2>2. CASE l # x
    BY <1>6, <2>2 DEF RpcInv, Children, OneChild
  <2> QED
    BY <2>1, <2>2
<1>14. BusyIsWatched'
  BY <1>1, <1>5, RpcConstants DEF RpcInv, BusyIsWatched, Engaged, Shown
<1> QED
  BY <1>7, <1>8, <1>9, <1>11, <1>12, <1>13, <1>14, <1>15 DEF RpcInv, Children

LEMMA RegisterKeeps ==
  ASSUME RpcInv, NEW x \in RpcCallers, RegisterSession(x)
  PROVE  RpcInv'
<1> DEFINE use == rpc[x].use
<1>1. /\ rpc[x].at = "probing" /\ RpcGoes(x, "handle")
      /\ client' = [client EXCEPT ![x][use].pending = @ \ {x}]
      /\ live' = [live EXCEPT ![x].use = use] /\ sessions' = x /\ idled' = idled
  BY DEF RegisterSession, RpcAt
<1>2. /\ rpc \in [RpcCallers -> AnyProgress] /\ client \in AllClients
      /\ live \in [RpcCallers -> AnyLive]
      /\ use \in ClientUses /\ rpc[x].of = x /\ use \in {"first", "fresh"}
      /\ \A u \in ClientUses : client[x][u].up => u = use
  BY <1>1 DEF RpcInv, Children, StartsAlone, Startup, Shape, AnyProgress, AllClients
<1>3. \A l \in RpcCallers, u \in ClientUses :
        Waits(x, l, u) => l = x /\ u = use /\ x \notin client[l][u].waiters
  BY <1>1, <1>2 DEF RpcInv, WaitersUseIt, Waits
<1> HIDE DEF use
<1>4. /\ rpc' \in [RpcCallers -> AnyProgress] /\ rpc'[x].at = "handle" /\ rpc'[x].of = x
      /\ \A y \in RpcCallers : y # x => rpc'[y] = rpc[y]
  BY <1>1, <1>2, CallerGoes DEF RpcSteps
<1>5. /\ client' \in AllClients
      /\ client'[x][use].pending = client[x][use].pending \ {x}
      /\ client'[x][use].waiters = client[x][use].waiters /\ client'[x][use].up = client[x][use].up
      /\ \A k \in RpcCallers, v \in ClientUses : (k = x /\ v = use) \/ client'[k][v] = client[k][v]
  BY <1>1, <1>2, PendingLeft
<1>6. /\ live' \in [RpcCallers -> AnyLive]
      /\ live'[x].use = use /\ live'[x].adapting = live[x].adapting
      /\ \A y \in RpcCallers : y # x => live'[y] = live[y]
  BY <1>1, <1>2 DEF AnyLive
<1>7. Shape'
  BY <1>1, <1>4, <1>5, <1>6 DEF RpcInv, Shape, AllClients
<1>8. WaitersUseIt'
  <2> SUFFICES ASSUME NEW l \in RpcCallers, NEW u \in ClientUses, NEW y \in RpcCallers,
                      Waits(y, l, u)'
               PROVE  /\ Waits(y, l, u) /\ rpc'[y] = rpc[y]
                      /\ y \in client'[l][u].waiters => y \in client[l][u].waiters
    BY <1>7, NobodyWaits
  <2>1. /\ client'[l][u].pending \subseteq client[l][u].pending
        /\ client'[l][u].waiters = client[l][u].waiters
        /\ l = x /\ u = use => x \notin client'[l][u].pending
    BY <1>5
  <2>2. y # x
    BY <1>3, <2>1 DEF Waits
  <2> QED
    BY <1>4, <2>1, <2>2 DEF Waits
<1>9. StartsAlone'
  BY <1>4, <1>5 DEF RpcInv, Children, StartsAlone, Startup
<1>10. Started(x)' /\ \A l \in RpcCallers : Started(l) => Started(l)' /\ l # x
  BY <1>1, <1>2, <1>4, <1>5, <1>6 DEF Started, Startup
<1>11. UsedIsSettled'
  BY <1>1, <1>4, <1>10 DEF RpcInv, Children, UsedIsSettled, Engaged
<1>12. \A t \in RpcTurns : rpc[t].at \in Engaged => rpc[t].of \in RpcCallers /\ rpc[t].of # x
  BY <1>10, EngagedHas, RpcConstants
<1>13. TurnsUseIt'
  <2> SUFFICES ASSUME NEW t \in RpcTurns, rpc'[t].at \in {"asked", "waiting", "dead"}
               PROVE  /\ rpc'[t].at \in {"asked", "waiting"} /\ ~live'[rpc'[t].of].retried =>
                           rpc'[t].use = live'[rpc'[t].of].use
                      /\ rpc'[t].at = "dead" /\ ~live'[rpc'[t].of].retried =>
                           \A u \in ClientUses : ~client'[rpc'[t].of][u].up
    BY DEF TurnsUseIt
  <2>1. t \in RpcCallers /\ rpc'[t] = rpc[t]
    BY <1>4, RpcConstants
  <2>2. rpc[t].of \in RpcCallers /\ rpc[t].of # x
    BY <1>12, <2>1 DEF Engaged
  <2>3. /\ live'[rpc[t].of] = live[rpc[t].of]
        /\ \A u \in ClientUses : client'[rpc[t].of][u] = client[rpc[t].of][u]
    BY <1>5, <1>6, <2>2
  <2> QED
    BY <2>1, <2>3 DEF RpcInv, Children, TurnsUseIt
<1>14. OnlyTurnsDie' /\ OneChild'
  BY <1>4, <1>5 DEF RpcInv, Children, OnlyTurnsDie, OneChild
<1>15. BusyIsWatched'
  BY <1>1, <1>4, <1>6, <1>12, RpcConstants DEF RpcInv, BusyIsWatched, Engaged, Shown
<1> QED
  BY <1>7, <1>8, <1>9, <1>11, <1>13, <1>14, <1>15 DEF RpcInv, Children

LEMMA ProbeLateKeeps ==
  ASSUME RpcInv, NEW x \in RpcCallers, ProbeTimesOut(x)
  PROVE  RpcInv'
<1> DEFINE use == rpc[x].use
<1>1. /\ rpc[x].at = "probing" /\ RpcGoes(x, "failed")
      /\ client' = [client EXCEPT ![x][use].pending = @ \ {x}]
      /\ UNCHANGED <<sessions, live, idled>>
  BY DEF ProbeTimesOut, RpcAt
<1>2. /\ rpc \in [RpcCallers -> AnyProgress] /\ client \in AllClients /\ use \in ClientUses
  BY DEF RpcInv, Shape, AnyProgress, AllClients
<1> HIDE DEF use
<1>3. /\ rpc' \in [RpcCallers -> AnyProgress] /\ rpc'[x].at = "failed" /\ rpc'[x].of = rpc[x].of
      /\ \A y \in RpcCallers : y # x => rpc'[y] = rpc[y]
  BY <1>1, <1>2, CallerGoes DEF RpcSteps
<1>4. /\ client' \in AllClients
      /\ client'[x][use].pending = client[x][use].pending \ {x}
      /\ client'[x][use].waiters = client[x][use].waiters /\ client'[x][use].up = client[x][use].up
      /\ \A k \in RpcCallers, v \in ClientUses : (k = x /\ v = use) \/ client'[k][v] = client[k][v]
  BY <1>1, <1>2, PendingLeft
<1>5. Shape'
  BY <1>1, <1>3, <1>4 DEF RpcInv, Shape, AllClients
<1>6. WaitersUseIt'
  <2> SUFFICES ASSUME NEW l \in RpcCallers, NEW u \in ClientUses, NEW y \in RpcCallers,
                      Waits(y, l, u)'
               PROVE  \/ /\ Waits(y, l, u) /\ rpc'[y] = rpc[y]
                         /\ y \in client'[l][u].waiters => y \in client[l][u].waiters
                      \/ rpc'[y].of = l /\ rpc'[y].at \notin NotWaiting
    BY <1>5, NobodyWaits
  <2>1. /\ client'[l][u].pending \subseteq client[l][u].pending
        /\ client'[l][u].waiters = client[l][u].waiters
    BY <1>4
  <2>2. Waits(y, l, u) /\ rpc[y].of = l
    BY <2>1 DEF Waits, RpcInv, WaitersUseIt
  <2> QED
    BY <1>3, <2>1, <2>2 DEF NotWaiting
<1>7. Children'
  BY <1>1, <1>3, <1>4, <1>5, NobodyStarts DEF Startup, Engaged
<1>8. BusyIsWatched'
  BY <1>1, <1>3, RpcConstants, NobodyIdles DEF Engaged, Shown
<1> QED
  BY <1>5, <1>6, <1>7, <1>8 DEF RpcInv

-----------------------------------------------------------------------------
(* A turn, a request and an abort *)

LEMMA RpcTyped ==
  ASSUME RpcInv
  PROVE  /\ rpc \in [RpcCallers -> AnyProgress] /\ client \in AllClients
         /\ live \in [RpcCallers -> AnyLive] /\ idled \subseteq RpcTurns
         /\ sessions \in RpcCallers \cup {NoLive}
  BY DEF RpcInv, Shape, AllClients

\* What waits stays where it was: clients are untouched, and only callers that
\* wait on nobody, or go on, move.
LEMMA ClientsStay ==
  ASSUME RpcInv, Shape', client' = client,
         \A y \in RpcCallers :
           \/ rpc'[y] = rpc[y]
           \/ rpc[y].at \in {"new", "starting", "handle"}
           \/ rpc'[y].of = rpc[y].of /\ rpc'[y].at \notin NotWaiting
  PROVE  WaitersUseIt'
<1> SUFFICES ASSUME NEW l \in RpcCallers, NEW u \in ClientUses, NEW y \in RpcCallers,
                    Waits(y, l, u)'
             PROVE  \/ /\ Waits(y, l, u) /\ rpc'[y] = rpc[y]
                       /\ y \in client'[l][u].waiters => y \in client[l][u].waiters
                    \/ rpc'[y].of = l /\ rpc'[y].at \notin NotWaiting
  BY NobodyWaits
<1>1. Waits(y, l, u)
  BY DEF Waits
<1>2. rpc[y].of = l /\ rpc[y].at \notin {"new", "starting", "handle"}
  BY <1>1 DEF RpcInv, WaitersUseIt, Waits
<1> QED
  BY <1>1, <1>2

LEMMA BeginKeeps ==
  ASSUME RpcInv, NEW t \in RpcCallers, BeginTurn(t)
  PROVE  RpcInv'
<1>1. /\ rpc[t].at = "handle" /\ RpcGoes(t, "begun") /\ t \in RpcTurns
      /\ live' = [live EXCEPT ![rpc[t].of].adapting = TRUE]
      /\ UNCHANGED <<sessions, client, idled>>
  BY DEF BeginTurn, RpcAt
<1>2. rpc[t].of \in RpcCallers
  BY <1>1, EngagedHas DEF Engaged
<1>3. /\ rpc' \in [RpcCallers -> AnyProgress] /\ rpc'[t].at = "begun" /\ rpc'[t].of = rpc[t].of
      /\ \A y \in RpcCallers : y # t => rpc'[y] = rpc[y]
  BY <1>1, RpcTyped, CallerGoes DEF RpcSteps
<1>4. /\ live' \in [RpcCallers -> AnyLive] /\ live'[rpc[t].of].adapting
      /\ \A l \in RpcCallers : /\ live'[l].use = live[l].use /\ live'[l].retried = live[l].retried
                               /\ live[l].adapting => live'[l].adapting
  BY <1>1, <1>2, RpcTyped DEF AnyLive
<1>5. Shape'
  BY <1>1, <1>3, <1>4 DEF RpcInv, Shape
<1>6. WaitersUseIt'
  BY <1>1, <1>3, <1>5, ClientsStay
<1>7. Children'
  BY <1>1, <1>3, <1>4, <1>5, NobodyStarts DEF Startup, Engaged
<1>8. \A x \in RpcTurns : rpc[x].at \in Engaged => rpc[x].of \in RpcCallers
  BY EngagedHas, RpcConstants
<1>9. BusyIsWatched'
  BY <1>1, <1>3, <1>4, <1>8, RpcConstants DEF RpcInv, BusyIsWatched, Engaged, Shown
<1> QED
  BY <1>5, <1>6, <1>7, <1>9 DEF RpcInv

\* A caller sends a request to client u of its session.
LEMMA AskingKeeps ==
  ASSUME RpcInv, NEW x \in RpcCallers, NEW l \in RpcCallers, NEW u \in ClientUses,
         NEW step \in {"asked", "aborting"}, rpc' \in [RpcCallers -> AnyProgress],
         client' = [client EXCEPT ![l][u].pending = @ \cup {x}],
         rpc'[x].at = step, rpc'[x].of = l, rpc'[x].use = u,
         \A y \in RpcCallers : y # x => rpc'[y] = rpc[y],
         u = live[l].use,
         \/ rpc[x].at \in Engaged /\ rpc[x].of = l
         \/ rpc[x].at = "handle" /\ x \notin RpcTurns /\ sessions = l,
         x \in RpcTurns => \/ rpc[x].at = "begun" /\ step = "asked"
                           \/ rpc[x].at = "deadline" /\ step = "aborting",
         UNCHANGED <<sessions, live, idled>>
  PROVE  RpcInv'
<1>1. /\ client' \in AllClients
      /\ client'[l][u].pending = client[l][u].pending \cup {x}
      /\ client'[l][u].waiters = client[l][u].waiters /\ client'[l][u].up = client[l][u].up
      /\ \A k \in RpcCallers, v \in ClientUses : (k = l /\ v = u) \/ client'[k][v] = client[k][v]
  BY RpcTyped, PendingJoined
<1>2. Shape'
  BY <1>1 DEF RpcInv, Shape, AllClients
<1>3. WaitersUseIt'
  <2> SUFFICES ASSUME NEW k \in RpcCallers, NEW v \in ClientUses, NEW y \in RpcCallers,
                      Waits(y, k, v)'
               PROVE  \/ /\ Waits(y, k, v) /\ rpc'[y] = rpc[y]
                         /\ y \in client'[k][v].waiters => y \in client[k][v].waiters
                      \/ rpc'[y].of = k /\ rpc'[y].at \notin NotWaiting
    BY <1>2, NobodyWaits
  <2>1. CASE y # x
    BY <1>1, <2>1 DEF Waits
  <2>2. CASE y = x
    <3>1. rpc'[x].at \notin NotWaiting
      BY DEF NotWaiting
    <3>2. CASE k = l
      BY <2>2, <3>1, <3>2
    <3>3. CASE k # l
      <4>1. Waits(x, k, v)
        BY <1>1, <2>2, <3>3 DEF Waits
      <4>2. rpc[x].of = k /\ rpc[x].at # "handle"
        BY <4>1 DEF RpcInv, WaitersUseIt, Waits
      <4> QED
        BY <3>3, <4>1, <4>2
    <3> QED
      BY <3>2, <3>3
  <2> QED
    BY <2>1, <2>2
<1>4. Children'
  <2>1. \A k \in RpcCallers, v \in ClientUses : client'[k][v].up => client[k][v].up
    BY <1>1
  <2>2. step \notin Startup /\ sessions \in RpcCallers \cup {NoLive} /\ l # NoLive
    BY RpcTyped, RpcConstants DEF Startup
  <2>3. CASE rpc[x].at \in Engaged /\ rpc[x].of = l
    BY <1>2, <2>1, <2>2, <2>3, NobodyStarts
  <2>4. CASE x \notin RpcTurns /\ sessions = l
    BY <1>2, <2>1, <2>2, <2>4, NobodyStarts
  <2> QED
    BY <2>3, <2>4
<1>5. BusyIsWatched'
  BY RpcConstants, NobodyIdles DEF Engaged, Shown
<1> QED
  BY <1>2, <1>3, <1>4, <1>5 DEF RpcInv

\* A caller goes on without the client, or ends.
LEMMA LeavingKeeps ==
  ASSUME RpcInv, NEW x \in RpcCallers,
         NEW step \in {"stop", "gaveup", "answered", "failed", "swallowed"}, RpcGoes(x, step),
         step = "stop" => rpc[x].at \in Engaged,
         x \in RpcTurns /\ step \in {"stop", "gaveup"} => rpc[x].at \in Shown,
         UNCHANGED <<live, client, idled>>, sessions' \in {sessions, NoLive}
  PROVE  RpcInv'
<1>1. /\ rpc' \in [RpcCallers -> AnyProgress] /\ rpc'[x].at = step /\ rpc'[x].of = rpc[x].of
      /\ \A y \in RpcCallers : y # x => rpc'[y] = rpc[y]
  BY RpcTyped, CallerGoes DEF RpcSteps
<1>2. Shape'
  BY <1>1 DEF RpcInv, Shape
<1>3. WaitersUseIt'
  BY <1>1, <1>2, ClientsStay DEF NotWaiting
<1>4. Children'
  BY <1>1, <1>2, NobodyStarts DEF Startup, Engaged
<1>5. BusyIsWatched'
  BY <1>1, RpcConstants, NobodyIdles DEF Engaged, Shown
<1> QED
  BY <1>2, <1>3, <1>4, <1>5 DEF RpcInv

LEMMA PromptKeeps ==
  ASSUME RpcInv, NEW t \in RpcCallers, SendPrompt(t)
  PROVE  RpcInv'
<1> DEFINE l == rpc[t].of
<1>1. rpc[t].at = "begun" /\ UNCHANGED <<sessions, live, idled>>
  BY DEF SendPrompt, RpcAt
<1>2. l \in RpcCallers /\ live[l].use \in ClientUses
  BY <1>1, EngagedHas DEF Engaged
<1>3. CASE Cl(t).running
  <2>1. /\ client' = [client EXCEPT ![l][live[l].use].pending = @ \cup {t}]
        /\ rpc' = [rpc EXCEPT ![t].at = "asked", ![t].use = live[l].use]
    BY <1>3 DEF SendPrompt
  <2>2. /\ rpc' \in [RpcCallers -> AnyProgress]
        /\ rpc'[t].at = "asked" /\ rpc'[t].of = l /\ rpc'[t].use = live[l].use
        /\ \A y \in RpcCallers : y # t => rpc'[y] = rpc[y]
    <3> DEFINE use == live[l].use
    <3>1. rpc \in [RpcCallers -> AnyProgress] /\ use \in ClientUses /\ "asked" \in RpcSteps
      BY <1>2, RpcTyped DEF RpcSteps
    <3>2. rpc' = [rpc EXCEPT ![t].at = "asked", ![t].use = use] /\ rpc[t].of = l
      BY <2>1
    <3> HIDE DEF use
    <3>3. /\ rpc' \in [RpcCallers -> AnyProgress]
          /\ rpc'[t].at = "asked" /\ rpc'[t].of = rpc[t].of /\ rpc'[t].use = use
          /\ \A y \in RpcCallers : y # t => rpc'[y] = rpc[y]
      BY <3>1, <3>2, CallerAsks
    <3> QED
      BY <3>2, <3>3 DEF use
  <2>3. rpc[t].at \in Engaged /\ rpc[t].of = l
    BY <1>1 DEF Engaged
  <2> HIDE DEF l
  <2> QED
    BY <1>1, <1>2, <2>1, <2>2, <2>3, AskingKeeps
<1>4. CASE ~Cl(t).running
  <2>1. RpcGoes(t, IF rpc[t].again THEN "failed" ELSE "swallowed") /\ UNCHANGED client
    BY <1>4 DEF SendPrompt
  <2> QED
    BY <1>1, <2>1, LeavingKeeps
<1> QED
  BY <1>3, <1>4

LEMMA SendAbortKeeps ==
  ASSUME RpcInv, NEW t \in RpcCallers, SendAbort(t)
  PROVE  RpcInv'
<1> DEFINE l == rpc[t].of
<1>1. rpc[t].at = "deadline" /\ UNCHANGED <<sessions, live, idled>>
  BY DEF SendAbort, RpcAt
<1>2. l \in RpcCallers /\ live[l].use \in ClientUses /\ rpc[t].at \in Engaged
  BY <1>1, EngagedHas DEF Engaged
<1>3. CASE Cl(t).running
  <2>1. /\ client' = [client EXCEPT ![l][live[l].use].pending = @ \cup {t}]
        /\ rpc' = [rpc EXCEPT ![t].at = "aborting", ![t].use = live[l].use]
    BY <1>3 DEF SendAbort
  <2>2. /\ rpc' \in [RpcCallers -> AnyProgress]
        /\ rpc'[t].at = "aborting" /\ rpc'[t].of = l /\ rpc'[t].use = live[l].use
        /\ \A y \in RpcCallers : y # t => rpc'[y] = rpc[y]
    <3> DEFINE use == live[l].use
    <3>1. rpc \in [RpcCallers -> AnyProgress] /\ use \in ClientUses /\ "aborting" \in RpcSteps
      BY <1>2, RpcTyped DEF RpcSteps
    <3>2. rpc' = [rpc EXCEPT ![t].at = "aborting", ![t].use = use] /\ rpc[t].of = l
      BY <2>1
    <3> HIDE DEF use
    <3>3. /\ rpc' \in [RpcCallers -> AnyProgress]
          /\ rpc'[t].at = "aborting" /\ rpc'[t].of = rpc[t].of /\ rpc'[t].use = use
          /\ \A y \in RpcCallers : y # t => rpc'[y] = rpc[y]
      BY <3>1, <3>2, CallerAsks
    <3> QED
      BY <3>2, <3>3 DEF use
  <2>3. rpc[t].of = l
    OBVIOUS
  <2> HIDE DEF l
  <2> QED
    BY <1>1, <1>2, <2>1, <2>2, <2>3, AskingKeeps
<1>4. CASE ~Cl(t).running
  <2>1. RpcGoes(t, "stop") /\ UNCHANGED client
    BY <1>4 DEF SendAbort
  <2> QED
    BY <1>1, <1>2, <2>1, LeavingKeeps DEF Shown
<1> QED
  BY <1>3, <1>4

LEMMA SendRequestKeeps ==
  ASSUME RpcInv, NEW x \in RpcCallers, SendRequest(x)
  PROVE  RpcInv'
<1> DEFINE l == sessions
<1>1. rpc[x].at = "handle" /\ x \notin RpcTurns /\ UNCHANGED <<sessions, live, idled>>
  BY RpcAssumption DEF SendRequest, RpcAt
<1>2. CASE sessions # NoLive /\ client[sessions][live[sessions].use].running
  <2>1. /\ client' = [client EXCEPT ![l][live[l].use].pending = @ \cup {x}]
        /\ rpc' = [rpc EXCEPT ![x].at = "asked", ![x].of = l, ![x].use = live[l].use]
    BY <1>2 DEF SendRequest
  <2>2. l \in RpcCallers /\ live[l].use \in ClientUses /\ sessions = l
    BY <1>2, RpcTyped DEF AnyLive
  <2> HIDE DEF l
  <2>3. /\ rpc' \in [RpcCallers -> AnyProgress]
        /\ rpc'[x].at = "asked" /\ rpc'[x].of = l /\ rpc'[x].use = live[l].use
        /\ \A y \in RpcCallers : y # x => rpc'[y] = rpc[y]
    <3> DEFINE w == [rpc[x] EXCEPT !.at = "asked", !.of = l, !.use = live[l].use]
    <3>1. rpc' = [rpc EXCEPT ![x] = w]
      BY <2>1
    <3>2. w \in AnyProgress /\ w.at = "asked" /\ w.of = l /\ w.use = live[l].use
      BY <2>2, RpcTyped DEF AnyProgress, RpcSteps
    <3> HIDE DEF w
    <3> QED
      BY <3>1, <3>2, RpcTyped, CallerSteps
  <2> QED
    BY <1>1, <2>1, <2>2, <2>3, AskingKeeps
<1>3. CASE ~(sessions # NoLive /\ client[sessions][live[sessions].use].running)
  <2>1. RpcGoes(x, "failed") /\ UNCHANGED client
    BY <1>3 DEF SendRequest
  <2> QED
    BY <1>1, <2>1, LeavingKeeps
<1> QED
  BY <1>2, <1>3

LEMMA AbortKeeps ==
  ASSUME RpcInv, NEW a \in RpcCallers, AbortRpc(a)
  PROVE  RpcInv'
<1>1. rpc[a].at = "new" /\ a \notin RpcTurns /\ UNCHANGED <<sessions, client>>
  BY RpcAssumption DEF AbortRpc, RpcAt
<1>2. CASE sessions = NoLive
  <2>1. RpcGoes(a, "answered") /\ UNCHANGED <<live, idled>>
    BY <1>2 DEF AbortRpc
  <2> QED
    BY <1>1, <2>1, LeavingKeeps
<1>3. CASE sessions # NoLive
  <2>1. rpc' = [rpc EXCEPT ![a].at = "stop", ![a].of = sessions] /\ AbortAdapter(sessions)
    BY <1>3 DEF AbortRpc
  <2>2. sessions \in RpcCallers
    BY <1>3, RpcTyped
  <2>3. /\ rpc' \in [RpcCallers -> AnyProgress] /\ rpc'[a].at = "stop" /\ rpc'[a].of = sessions
        /\ \A y \in RpcCallers : y # a => rpc'[y] = rpc[y]
    <3> DEFINE w == [rpc[a] EXCEPT !.at = "stop", !.of = sessions]
    <3>1. rpc' = [rpc EXCEPT ![a] = w]
      BY <2>1
    <3>2. w \in AnyProgress /\ w.at = "stop" /\ w.of = sessions
      BY <2>2, RpcTyped DEF AnyProgress, RpcSteps
    <3> HIDE DEF w
    <3> QED
      BY <3>1, <3>2, RpcTyped, CallerSteps
  <2>4. /\ live' \in [RpcCallers -> AnyLive] /\ idled' \subseteq RpcTurns
        /\ \A k \in RpcCallers : live'[k].use = live[k].use /\ live'[k].retried = live[k].retried
    BY <2>1, <2>2, IdleShown
  <2>5. Shape'
    BY <1>1, <2>3, <2>4 DEF RpcInv, Shape
  <2>6. WaitersUseIt'
    BY <1>1, <2>3, <2>5, ClientsStay
  <2>7. Children'
    BY <1>1, <1>3, <2>3, <2>4, <2>5, NobodyStarts DEF Startup, Engaged
  <2>8. BusyIsWatched'
    BY <1>1, <2>1, <2>2, <2>3, RpcConstants, IdleKeepsWatch DEF Shown
  <2> QED
    BY <2>5, <2>6, <2>7, <2>8 DEF RpcInv
<1> QED
  BY <1>2, <1>3

LEMMA DeadlineKeeps ==
  ASSUME RpcInv, NEW t \in RpcCallers, DeadlineFires(t)
  PROVE  RpcInv'
<1>1. /\ rpc[t].at = "waiting" /\ RpcGoes(t, "deadline") /\ AbortAdapter(rpc[t].of)
      /\ UNCHANGED <<sessions, client>>
  BY DEF DeadlineFires, RpcAt
<1>2. rpc[t].of \in RpcCallers
  BY <1>1, EngagedHas DEF Engaged
<1>3. /\ rpc' \in [RpcCallers -> AnyProgress] /\ rpc'[t].at = "deadline" /\ rpc'[t].of = rpc[t].of
      /\ \A y \in RpcCallers : y # t => rpc'[y] = rpc[y]
  BY <1>1, RpcTyped, CallerGoes DEF RpcSteps
<1>4. /\ live' \in [RpcCallers -> AnyLive] /\ idled' \subseteq RpcTurns
      /\ \A k \in RpcCallers : live'[k].use = live[k].use /\ live'[k].retried = live[k].retried
  BY <1>1, <1>2, IdleShown
<1>5. Shape'
  BY <1>1, <1>3, <1>4 DEF RpcInv, Shape
<1>6. WaitersUseIt'
  BY <1>1, <1>3, <1>5, ClientsStay DEF NotWaiting
<1>7. Children'
  BY <1>1, <1>3, <1>4, <1>5, NobodyStarts DEF Startup, Engaged
<1>8. BusyIsWatched'
  BY <1>1, <1>2, <1>3, RpcConstants, IdleKeepsWatch DEF Engaged, Shown
<1> QED
  BY <1>5, <1>6, <1>7, <1>8 DEF RpcInv

LEMMA RecoverKeeps ==
  ASSUME RpcInv, NEW t \in RpcCallers, RecoverTransport(t)
  PROVE  RpcInv'
<1> DEFINE l == rpc[t].of
<1>1. rpc[t].at = "dead" /\ t \in RpcTurns /\ UNCHANGED sessions
  BY DEF RecoverTransport, RpcAt, RpcInv, Children, OnlyTurnsDie
<1>2. l \in RpcCallers /\ Started(l)
  BY <1>1, EngagedHas DEF Engaged
<1>3. CASE live[l].retried
  <2>1. RpcGoes(t, "stop") /\ AbortAdapter(l) /\ UNCHANGED client
    BY <1>3 DEF RecoverTransport
  <2>2. /\ rpc' \in [RpcCallers -> AnyProgress] /\ rpc'[t].at = "stop" /\ rpc'[t].of = rpc[t].of
        /\ \A y \in RpcCallers : y # t => rpc'[y] = rpc[y]
    BY <2>1, RpcTyped, CallerGoes DEF RpcSteps
  <2>3. /\ live' \in [RpcCallers -> AnyLive] /\ idled' \subseteq RpcTurns
        /\ \A k \in RpcCallers : live'[k].use = live[k].use /\ live'[k].retried = live[k].retried
    BY <1>2, <2>1, IdleShown
  <2>4. Shape'
    BY <1>1, <2>1, <2>2, <2>3 DEF RpcInv, Shape
  <2>5. WaitersUseIt'
    BY <2>1, <2>2, <2>4, ClientsStay DEF NotWaiting
  <2>6. Children'
    BY <1>1, <2>1, <2>2, <2>3, <2>4, NobodyStarts DEF Startup, Engaged
  <2>7. BusyIsWatched'
    BY <1>1, <1>2, <2>1, <2>2, RpcConstants, IdleKeepsWatch DEF Engaged, Shown
  <2> QED
    BY <2>4, <2>5, <2>6, <2>7 DEF RpcInv
<1>4. CASE ~live[l].retried
  <2>1. /\ live' = [live EXCEPT ![l].retried = TRUE, ![l].use = "retry"]
        /\ client' = [client EXCEPT ![l]["retry"] = NewClient]
        /\ rpc' = [rpc EXCEPT ![t].at = "begun", ![t].again = TRUE] /\ idled' = idled
    BY <1>4 DEF RecoverTransport
  <2>2. \A u \in ClientUses : ~client[l][u].up
    BY <1>1, <1>4 DEF RpcInv, Children, TurnsUseIt
  <2>3. rpc[t].of = l
    OBVIOUS
  <2> HIDE DEF l
  <2>4. /\ rpc' \in [RpcCallers -> AnyProgress] /\ rpc'[t].at = "begun" /\ rpc'[t].of = l
        /\ \A y \in RpcCallers : y # t => rpc'[y] = rpc[y]
    <3> DEFINE w == [rpc[t] EXCEPT !.at = "begun", !.again = TRUE]
    <3>1. rpc' = [rpc EXCEPT ![t] = w]
      BY <2>1
    <3>2. w \in AnyProgress /\ w.at = "begun" /\ w.of = l
      BY <2>3, RpcTyped DEF AnyProgress, RpcSteps
    <3> HIDE DEF w
    <3> QED
      BY <3>1, <3>2, RpcTyped, CallerSteps
  <2>5. /\ live' \in [RpcCallers -> AnyLive]
        /\ live'[l].retried /\ live'[l].adapting = live[l].adapting
        /\ \A k \in RpcCallers : k # l => live'[k] = live[k]
    <3> DEFINE w == [live[l] EXCEPT !.retried = TRUE, !.use = "retry"]
    <3>1. live' = [live EXCEPT ![l] = w]
      BY <2>1
    <3>2. w \in AnyLive /\ w.retried /\ w.adapting = live[l].adapting
      BY <1>2, RpcTyped DEF AnyLive, ClientUses
    <3> HIDE DEF w
    <3> QED
      BY <1>2, <3>1, <3>2, RpcTyped
  <2>6. /\ client' \in AllClients /\ client'[l]["retry"] = NewClient
        /\ \A k \in RpcCallers, v \in ClientUses :
             (k = l /\ v = "retry") \/ client'[k][v] = client[k][v]
    BY <1>2, <2>1, RpcTyped, ClientsTyped DEF AllClients, ClientUses
  <2>7. Shape'
    BY <1>1, <2>1, <2>4, <2>5, <2>6 DEF RpcInv, Shape, AllClients
  <2>8. WaitersUseIt'
    <3> SUFFICES ASSUME NEW k \in RpcCallers, NEW v \in ClientUses, NEW y \in RpcCallers,
                        Waits(y, k, v)'
                 PROVE  \/ /\ Waits(y, k, v) /\ rpc'[y] = rpc[y]
                           /\ y \in client'[k][v].waiters => y \in client[k][v].waiters
                        \/ rpc'[y].of = k /\ rpc'[y].at \notin NotWaiting
      BY <2>7, NobodyWaits
    <3>1. client'[k][v] = client[k][v] /\ Waits(y, k, v)
      BY <2>6, ClientsTyped DEF Waits
    <3>2. rpc[y].of = k
      BY <3>1 DEF RpcInv, WaitersUseIt, Waits
    <3> QED
      BY <2>3, <2>4, <3>1, <3>2 DEF NotWaiting
  <2>9. StartsAlone'
    BY <1>2, <2>4, <2>6 DEF RpcInv, Children, StartsAlone, Started, Startup
  <2>10. \A k \in RpcCallers : Started(k) => Started(k)'
    BY <2>4, <2>5, <2>6 DEF Started, Startup
  <2>11. UsedIsSettled'
    <3>1. sessions' # NoLive => Started(sessions)'
      BY <1>1, <2>10, RpcTyped DEF RpcInv, Children, UsedIsSettled
    <3>2. ASSUME NEW x \in RpcCallers, rpc'[x].at \in Engaged
          PROVE  rpc'[x].of \in RpcCallers /\ Started(rpc[x].of)'
      <4>1. rpc[x].at \in Engaged /\ rpc'[x].of = rpc[x].of
        BY <1>1, <2>3, <2>4, <3>2 DEF Engaged
      <4> QED
        BY <2>10, <4>1, EngagedHas
    <3> QED
      BY <3>1, <3>2 DEF UsedIsSettled
  <2>12. TurnsUseIt'
    <3> SUFFICES ASSUME NEW x \in RpcTurns, rpc'[x].at \in {"asked", "waiting", "dead"}
                 PROVE  /\ rpc'[x].at \in {"asked", "waiting"} /\ ~live'[rpc'[x].of].retried =>
                             rpc'[x].use = live'[rpc'[x].of].use
                        /\ rpc'[x].at = "dead" /\ ~live'[rpc'[x].of].retried =>
                             \A u \in ClientUses : ~client'[rpc'[x].of][u].up
      BY DEF TurnsUseIt
    <3>1. x \in RpcCallers /\ rpc'[x] = rpc[x]
      BY <2>4, RpcConstants
    <3>2. rpc[x].of \in RpcCallers
      BY <3>1, EngagedHas DEF Engaged
    <3>3. CASE rpc[x].of = l
      BY <2>5, <3>1, <3>3
    <3>4. CASE rpc[x].of # l
      <4>1. /\ live'[rpc[x].of] = live[rpc[x].of]
            /\ \A u \in ClientUses : client'[rpc[x].of][u] = client[rpc[x].of][u]
        BY <2>5, <2>6, <3>2, <3>4
      <4> QED
        BY <3>1, <4>1 DEF RpcInv, Children, TurnsUseIt
    <3> QED
      BY <3>3, <3>4
  <2>13. OnlyTurnsDie'
    BY <2>4 DEF RpcInv, Children, OnlyTurnsDie
  <2>14. OneChild'
    <3> SUFFICES ASSUME NEW k \in RpcCallers, NEW u \in ClientUses, NEW v \in ClientUses,
                        client'[k][u].up, client'[k][v].up
                 PROVE  u = v
      BY DEF OneChild
    <3>1. CASE k = l
      BY <2>2, <2>6, <3>1
    <3>2. CASE k # l
      BY <2>6, <3>2 DEF RpcInv, Children, OneChild
    <3> QED
      BY <3>1, <3>2
  <2>15. BusyIsWatched'
    <3>1. \A x \in RpcTurns : rpc[x].at \in Engaged => rpc[x].of \in RpcCallers
      BY EngagedHas, RpcConstants
    <3>2. \A k \in RpcCallers : live'[k].adapting = live[k].adapting
      BY <2>5
    <3>3. \A x \in RpcTurns : rpc'[x] = rpc[x] \/ (x = t /\ rpc'[x].of = l /\ rpc'[x].at = "begun")
      BY <2>4, RpcConstants
    <3>4. t \in idled \/ live[l].adapting
      BY <1>1, <2>3 DEF RpcInv, BusyIsWatched, Engaged
    <3>5. ASSUME NEW x \in RpcTurns
          PROVE  /\ rpc'[x].at \in Engaged \ {"handle"} => x \in idled' \/ live'[rpc'[x].of].adapting
                 /\ rpc'[x].at \in Shown => x \in idled'
      <4>1. CASE rpc'[x] = rpc[x]
        BY <2>1, <3>1, <3>2, <4>1 DEF RpcInv, BusyIsWatched
      <4>2. CASE x = t /\ rpc'[x].of = l /\ rpc'[x].at = "begun"
        BY <1>2, <2>1, <3>2, <3>4, <4>2 DEF Shown
      <4> QED
        BY <3>3, <4>1, <4>2
    <3> QED
      BY <3>5 DEF BusyIsWatched
  <2> QED
    BY <2>7, <2>8, <2>9, <2>11, <2>12, <2>13, <2>14, <2>15 DEF RpcInv, Children
<1> QED
  BY <1>3, <1>4

LEMMA StopEndsKeeps ==
  ASSUME RpcInv, NEW x \in RpcCallers, StopClientEnds(x)
  PROVE  RpcInv'
<1>1. /\ rpc[x].at = "stopping" /\ UNCHANGED <<live, client, idled>> /\ sessions' = NoLive
      /\ RpcGoes(x, IF x \in RpcTurns THEN "gaveup" ELSE "answered")
  BY DEF StopClientEnds, RpcAt, ForgetSession
<1> QED
  BY <1>1, LeavingKeeps DEF Shown

\* stop() rejects what waits on the client; nobody becomes a transport death.
LEMMA Rejected ==
  ASSUME RpcInv, NEW l \in RpcCallers, NEW u \in ClientUses, NEW y \in RpcCallers
  PROVE  /\ AfterStop(l, u)[y] \in AnyProgress
         /\ AfterStop(l, u)[y].of = rpc[y].of /\ AfterStop(l, u)[y].use = rpc[y].use
         /\ AfterStop(l, u)[y].again = rpc[y].again
         /\ \/ AfterStop(l, u)[y] = rpc[y]
            \/ /\ rpc[y].at \in {"probing", "asked", "waiting"}
               /\ AfterStop(l, u)[y].at \in {"swallowed", "failed"}
            \/ rpc[y].at = "aborting" /\ AfterStop(l, u)[y].at = "stop"
<1>1. rpc[y] \in AnyProgress
  BY RpcTyped
<1>2. \A step \in RpcSteps : /\ [rpc[y] EXCEPT !.at = step] \in AnyProgress
                             /\ [rpc[y] EXCEPT !.at = step].at = step
                             /\ [rpc[y] EXCEPT !.at = step].of = rpc[y].of
                             /\ [rpc[y] EXCEPT !.at = step].use = rpc[y].use
                             /\ [rpc[y] EXCEPT !.at = step].again = rpc[y].again
  BY <1>1 DEF AnyProgress
<1>3. "swallowed" \in RpcSteps /\ "stop" \in RpcSteps /\ "failed" \in RpcSteps
  BY DEF RpcSteps
<1>4. CASE y \notin RejectedBy(l, u)
  BY <1>1, <1>4 DEF AfterStop
<1>5. CASE y \in RejectedBy(l, u)
  <2>1. rpc[y].at \in {"probing", "asked", "waiting", "aborting"}
    BY <1>5 DEF RejectedBy
  <2>2. \/ /\ rpc[y].at \in {"asked", "waiting"}
           /\ AfterStop(l, u)[y] = [rpc[y] EXCEPT !.at = "swallowed"]
        \/ rpc[y].at = "aborting" /\ AfterStop(l, u)[y] = [rpc[y] EXCEPT !.at = "stop"]
        \/ rpc[y].at # "aborting" /\ AfterStop(l, u)[y] = [rpc[y] EXCEPT !.at = "failed"]
    BY <1>5 DEF AfterStop
  <2>3. CASE rpc[y].at \in {"asked", "waiting"} /\ AfterStop(l, u)[y] = [rpc[y] EXCEPT !.at = "swallowed"]
    BY <1>2, <1>3, <2>3
  <2>4. CASE rpc[y].at = "aborting" /\ AfterStop(l, u)[y] = [rpc[y] EXCEPT !.at = "stop"]
    BY <1>2, <1>3, <2>4
  <2>5. CASE rpc[y].at # "aborting" /\ AfterStop(l, u)[y] = [rpc[y] EXCEPT !.at = "failed"]
    BY <1>2, <1>3, <2>1, <2>5
  <2> QED
    BY <2>2, <2>3, <2>4, <2>5
<1> QED
  BY <1>4, <1>5

LEMMA StopKeeps ==
  ASSUME RpcInv, NEW x \in RpcCallers, StopClient(x)
  PROVE  RpcInv'
<1> DEFINE l == rpc[x].of
           u == live[l].use
<1>1. rpc[x].at = "stop" /\ UNCHANGED <<live, idled>> /\ rpc[x].of = l
  BY DEF StopClient, RpcAt
<1>2. l \in RpcCallers /\ u \in ClientUses
  BY <1>1, EngagedHas DEF Engaged
<1>3. CASE ~client[l][u].running
  <2>1. /\ RpcGoes(x, IF x \in RpcTurns THEN "gaveup" ELSE "answered")
        /\ sessions' = NoLive /\ UNCHANGED client
    BY <1>3 DEF StopClient, ForgetSession
  <2> QED
    BY <1>1, <2>1, LeavingKeeps DEF Shown
<1>4. CASE client[l][u].running
  <2>1. /\ rpc' = [AfterStop(l, u) EXCEPT ![x].at = "stopping", ![x].use = u]
        /\ client' = [client EXCEPT ![l][u].pending = {}, ![l][u].waiters = {}]
        /\ UNCHANGED sessions
    BY <1>4 DEF StopClient
  <2> HIDE DEF l, u
  <2>2. AfterStop(l, u)[x] = rpc[x]
    BY <1>1, <1>2, Rejected
  <2>3. /\ rpc' \in [RpcCallers -> AnyProgress]
        /\ rpc'[x].at = "stopping" /\ rpc'[x].of = l
        /\ \A y \in RpcCallers : y # x => rpc'[y] = AfterStop(l, u)[y]
    <3> DEFINE w == [rpc[x] EXCEPT !.at = "stopping", !.use = u]
               after == AfterStop(l, u)
    <3>1. rpc' = [after EXCEPT ![x] = w]
      BY <2>1, <2>2
    <3>2. w \in AnyProgress /\ w.at = "stopping" /\ w.of = l
      BY <1>1, <1>2, RpcTyped DEF AnyProgress, RpcSteps
    <3>3. after \in [RpcCallers -> AnyProgress]
      <4>1. after = [y \in RpcCallers |-> after[y]]
        BY DEF AfterStop
      <4>2. \A y \in RpcCallers : after[y] \in AnyProgress
        BY <1>2, Rejected
      <4> HIDE DEF after
      <4> QED
        BY <4>1, <4>2
    <3> HIDE DEF w, after
    <3>4. rpc' \in [RpcCallers -> AnyProgress] /\ rpc'[x] = w
      BY <3>1, <3>2, <3>3
    <3>5. \A y \in RpcCallers : y # x => rpc'[y] = after[y]
      BY <3>1, <3>3
    <3> QED
      BY <3>2, <3>4, <3>5 DEF after
  <2>4. /\ client' \in AllClients /\ client'[l][u].pending = {} /\ client'[l][u].waiters = {}
        /\ client'[l][u].up = client[l][u].up
        /\ \A k \in RpcCallers, v \in ClientUses : (k = l /\ v = u) \/ client'[k][v] = client[k][v]
    <3> DEFINE c == [client[l][u] EXCEPT !.pending = {}, !.waiters = {}]
               clients == [client[l] EXCEPT ![u] = c]
    <3>1. client' = [client EXCEPT ![l] = clients]
      BY <1>2, <2>1, RpcTyped DEF AllClients
    <3>2. client[l] \in [ClientUses -> AnyClient] /\ client[l][u] \in AnyClient
      BY <1>2, RpcTyped DEF AllClients
    <3>3. c \in AnyClient /\ c.pending = {} /\ c.waiters = {} /\ c.up = client[l][u].up
      BY <3>2 DEF AnyClient
    <3> HIDE DEF c
    <3>4. /\ clients \in [ClientUses -> AnyClient] /\ clients[u] = c
          /\ \A v \in ClientUses : v # u => clients[v] = client[l][v]
      BY <1>2, <3>2, <3>3
    <3> HIDE DEF clients
    <3>5. /\ client' \in AllClients /\ client'[l] = clients
          /\ \A k \in RpcCallers : k # l => client'[k] = client[k]
      BY <1>2, <3>1, <3>4, RpcTyped DEF AllClients
    <3> QED
      BY <3>3, <3>4, <3>5
  <2>5. Shape'
    BY <1>1, <2>1, <2>3, <2>4 DEF RpcInv, Shape, AllClients
  <2>6. \A y \in RpcCallers :
          /\ rpc'[y].of = rpc[y].of
          /\ \/ rpc'[y] = rpc[y]
             \/ y = x /\ rpc'[y].at = "stopping"
             \/ rpc[y].at \in {"probing", "asked", "waiting"} /\ rpc'[y].at \in {"swallowed", "failed"}
             \/ rpc[y].at = "aborting" /\ rpc'[y].at = "stop"
    BY <1>1, <1>2, <2>3, Rejected
  <2>7. WaitersUseIt'
    <3> SUFFICES ASSUME NEW k \in RpcCallers, NEW v \in ClientUses, NEW y \in RpcCallers,
                        Waits(y, k, v)'
                 PROVE  \/ /\ Waits(y, k, v) /\ rpc'[y] = rpc[y]
                           /\ y \in client'[k][v].waiters => y \in client[k][v].waiters
                        \/ rpc'[y].of = k /\ rpc'[y].at \notin NotWaiting
      BY <2>5, NobodyWaits
    <3>1. client'[k][v] = client[k][v] /\ Waits(y, k, v)
      BY <2>4 DEF Waits
    <3>2. rpc[y].of = k
      BY <3>1 DEF RpcInv, WaitersUseIt, Waits
    <3> QED
      BY <2>6, <3>1, <3>2 DEF NotWaiting
  <2>8. Children'
    <3>1. \A k \in RpcCallers, v \in ClientUses : client'[k][v].up => client[k][v].up
      BY <2>4
    <3> QED
      BY <1>1, <2>1, <2>5, <2>6, <3>1, NobodyStarts DEF Startup, Engaged
  <2>9. BusyIsWatched'
    BY <1>1, <2>6, RpcConstants, NobodyIdles DEF Engaged, Shown
  <2> QED
    BY <2>5, <2>7, <2>8, <2>9 DEF RpcInv
<1> QED
  BY <1>3, <1>4

\* A caller ends, or goes on, and some client has fewer that wait on it.
LEMMA ServedKeeps ==
  ASSUME RpcInv, NEW x \in RpcCallers,
         NEW step \in {"stop", "answered", "early", "failed", "swallowed"}, RpcGoes(x, step),
         step = "stop" => rpc[x].at \in Engaged,
         x \in RpcTurns /\ step = "stop" => rpc[x].at \in Shown,
         UNCHANGED <<sessions, live, idled>>, client' \in AllClients,
         \A l \in RpcCallers, u \in ClientUses :
           /\ client'[l][u].up => client[l][u].up
           /\ client'[l][u].pending \subseteq client[l][u].pending
           /\ client'[l][u].waiters \subseteq client[l][u].waiters
  PROVE  RpcInv'
<1>1. /\ rpc' \in [RpcCallers -> AnyProgress] /\ rpc'[x].at = step /\ rpc'[x].of = rpc[x].of
      /\ \A y \in RpcCallers : y # x => rpc'[y] = rpc[y]
  BY RpcTyped, CallerGoes DEF RpcSteps
<1>2. Shape'
  BY <1>1 DEF RpcInv, Shape, AllClients
<1>3. WaitersUseIt'
  <2> SUFFICES ASSUME NEW k \in RpcCallers, NEW v \in ClientUses, NEW y \in RpcCallers,
                      Waits(y, k, v)'
               PROVE  \/ /\ Waits(y, k, v) /\ rpc'[y] = rpc[y]
                         /\ y \in client'[k][v].waiters => y \in client[k][v].waiters
                      \/ rpc'[y].of = k /\ rpc'[y].at \notin NotWaiting
    BY <1>2, NobodyWaits
  <2>1. Waits(y, k, v) /\ (y \in client'[k][v].waiters => y \in client[k][v].waiters)
    BY DEF Waits
  <2>2. rpc[y].of = k
    BY <2>1 DEF RpcInv, WaitersUseIt, Waits
  <2> QED
    BY <1>1, <2>1, <2>2 DEF NotWaiting
<1>4. Children'
  BY <1>1, <1>2, NobodyStarts DEF Startup, Engaged
<1>5. BusyIsWatched'
  BY <1>1, RpcConstants, NobodyIdles DEF Engaged, Shown
<1> QED
  BY <1>2, <1>3, <1>4, <1>5 DEF RpcInv

LEMMA AnswersKeeps ==
  ASSUME RpcInv, NEW l \in RpcCallers, NEW u \in ClientUses, NEW x \in RpcCallers,
         ChildAnswers(l, u, x)
  PROVE  RpcInv'
<1> DEFINE c == client[l][u]
<1>1. /\ x \in c.pending /\ rpc[x].at # "probing" /\ UNCHANGED <<sessions, live, idled>>
      /\ c \in AnyClient /\ client \in AllClients /\ client[l] \in [ClientUses -> AnyClient]
  BY RpcTyped DEF ChildAnswers, AllClients
<1>2. rpc[x].of = l
  BY <1>1 DEF RpcInv, WaitersUseIt
<1>3. CASE rpc[x].at = "asked" /\ x \in RpcTurns /\ c.spare = 0
  <2> DEFINE d == [c EXCEPT !.pending = @ \ {x}, !.waiters = @ \cup {x}, !.work = @ \cup {x}]
  <2>1. RpcGoes(x, "waiting") /\ client' = [client EXCEPT ![l][u] = d]
    BY <1>3 DEF ChildAnswers
  <2>2. client' = [client EXCEPT ![l] = [client[l] EXCEPT ![u] = d]]
    BY <1>1, <2>1
  <2>3. /\ d \in AnyClient /\ d.up = c.up
        /\ d.pending \subseteq c.pending /\ d.waiters = c.waiters \cup {x}
    BY <1>1 DEF AnyClient
  <2> HIDE DEF c, d
  <2>4. /\ client' \in AllClients /\ client'[l][u] = d
        /\ \A k \in RpcCallers, v \in ClientUses : (k = l /\ v = u) \/ client'[k][v] = client[k][v]
    <3> DEFINE clients == [client[l] EXCEPT ![u] = d]
    <3>1. client' = [client EXCEPT ![l] = clients]
      BY <2>2
    <3>2. /\ clients \in [ClientUses -> AnyClient] /\ clients[u] = d
          /\ \A v \in ClientUses : v # u => clients[v] = client[l][v]
      BY <1>1, <2>3
    <3> HIDE DEF clients
    <3>3. /\ client' \in AllClients /\ client'[l] = clients
          /\ \A k \in RpcCallers : k # l => client'[k] = client[k]
      BY <1>1, <3>1, <3>2 DEF AllClients
    <3> QED
      BY <3>2, <3>3
  <2>5. /\ rpc' \in [RpcCallers -> AnyProgress] /\ rpc'[x].at = "waiting" /\ rpc'[x].of = l
        /\ rpc'[x].use = rpc[x].use /\ \A y \in RpcCallers : y # x => rpc'[y] = rpc[y]
    BY <1>2, <2>1, RpcTyped, CallerGoes DEF RpcSteps
  <2>6. Shape'
    BY <1>1, <2>4, <2>5 DEF RpcInv, Shape, AllClients
  <2>7. WaitersUseIt'
    <3> SUFFICES ASSUME NEW k \in RpcCallers, NEW v \in ClientUses, NEW y \in RpcCallers,
                        Waits(y, k, v)'
                 PROVE  \/ /\ Waits(y, k, v) /\ rpc'[y] = rpc[y]
                           /\ y \in client'[k][v].waiters => y \in client[k][v].waiters
                        \/ rpc'[y].of = k /\ rpc'[y].at \notin NotWaiting
      BY <2>6, NobodyWaits
    <3>1. CASE y # x
      BY <2>3, <2>4, <2>5, <3>1 DEF Waits, c
    <3>2. CASE y = x
      <4>1. Waits(x, k, v)
        BY <1>1, <2>3, <2>4, <3>2 DEF Waits, c
      <4>2. k = l
        BY <1>2, <4>1 DEF RpcInv, WaitersUseIt, Waits
      <4> QED
        BY <2>5, <3>2, <4>2 DEF NotWaiting
    <3> QED
      BY <3>1, <3>2
  <2>8. Children'
    <3>1. \A k \in RpcCallers, v \in ClientUses : client'[k][v].up => client[k][v].up
      BY <2>3, <2>4 DEF c
    <3> QED
      BY <1>1, <1>2, <1>3, <2>5, <2>6, <3>1, NobodyStarts DEF Startup, Engaged
  <2>9. BusyIsWatched'
    BY <1>1, <1>2, <1>3, <2>5, RpcConstants, NobodyIdles DEF Engaged, Shown
  <2> QED
    BY <2>6, <2>7, <2>8, <2>9 DEF RpcInv
<1>4. CASE rpc[x].at = "asked" /\ x \in RpcTurns /\ c.spare # 0
  <2> DEFINE d == [c EXCEPT !.pending = @ \ {x}, !.spare = @ - 1, !.work = @ \cup {x}]
  <2>1. c.spare \in Nat /\ c.spare > 0
    BY <1>1, <1>4 DEF AnyClient
  <2>2. RpcGoes(x, "early") /\ client' = [client EXCEPT ![l][u] = d]
    BY <1>4, <2>1 DEF ChildAnswers
  <2>3. client' = [client EXCEPT ![l] = [client[l] EXCEPT ![u] = d]]
    BY <1>1, <2>2
  <2>4. /\ d \in AnyClient /\ d.up = c.up
        /\ d.pending \subseteq c.pending /\ d.waiters = c.waiters
    <3>1. c.spare - 1 \in Nat
      BY <2>1
    <3> QED
      BY <1>1, <3>1 DEF AnyClient
  <2> HIDE DEF c, d
  <2>5. /\ client' \in AllClients /\ client'[l][u] = d
        /\ \A k \in RpcCallers, v \in ClientUses : (k = l /\ v = u) \/ client'[k][v] = client[k][v]
    <3> DEFINE clients == [client[l] EXCEPT ![u] = d]
    <3>1. client' = [client EXCEPT ![l] = clients]
      BY <2>3
    <3>2. /\ clients \in [ClientUses -> AnyClient] /\ clients[u] = d
          /\ \A v \in ClientUses : v # u => clients[v] = client[l][v]
      BY <1>1, <2>4
    <3> HIDE DEF clients
    <3>3. /\ client' \in AllClients /\ client'[l] = clients
          /\ \A k \in RpcCallers : k # l => client'[k] = client[k]
      BY <1>1, <3>1, <3>2 DEF AllClients
    <3> QED
      BY <3>2, <3>3
  <2>6. \A k \in RpcCallers, v \in ClientUses :
          /\ client'[k][v].up => client[k][v].up
          /\ client'[k][v].pending \subseteq client[k][v].pending
          /\ client'[k][v].waiters \subseteq client[k][v].waiters
    BY <2>4, <2>5 DEF c
  <2> QED
    BY <1>1, <2>2, <2>5, <2>6, ServedKeeps
<1>5. CASE ~(rpc[x].at = "asked" /\ x \in RpcTurns)
  <2>1. /\ RpcGoes(x, IF rpc[x].at = "aborting" THEN "stop" ELSE "answered")
        /\ client' = [client EXCEPT ![l][u].pending = @ \ {x}]
    BY <1>5 DEF ChildAnswers
  <2>2. /\ client' \in AllClients
        /\ client'[l][u].pending = client[l][u].pending \ {x}
        /\ client'[l][u].waiters = client[l][u].waiters /\ client'[l][u].up = client[l][u].up
        /\ \A k \in RpcCallers, v \in ClientUses : (k = l /\ v = u) \/ client'[k][v] = client[k][v]
    BY <1>1, <2>1, PendingLeft
  <2>3. \A k \in RpcCallers, v \in ClientUses :
          /\ client'[k][v].up => client[k][v].up
          /\ client'[k][v].pending \subseteq client[k][v].pending
          /\ client'[k][v].waiters \subseteq client[k][v].waiters
    BY <2>2
  <2> HIDE DEF c
  <2> QED
    BY <1>1, <2>1, <2>2, <2>3, ServedKeeps DEF Engaged, Shown
<1> QED
  BY <1>3, <1>4, <1>5

LEMMA RefusesKeeps ==
  ASSUME RpcInv, NEW l \in RpcCallers, NEW u \in ClientUses, NEW t \in RpcCallers,
         ChildRefuses(l, u, t)
  PROVE  RpcInv'
<1>1. /\ RpcGoes(t, IF rpc[t].again THEN "failed" ELSE "swallowed")
      /\ client' = [client EXCEPT ![l][u].pending = @ \ {t}]
      /\ UNCHANGED <<sessions, live, idled>>
  BY DEF ChildRefuses
<1>2. /\ client' \in AllClients
      /\ client'[l][u].pending = client[l][u].pending \ {t}
      /\ client'[l][u].waiters = client[l][u].waiters /\ client'[l][u].up = client[l][u].up
      /\ \A k \in RpcCallers, v \in ClientUses : (k = l /\ v = u) \/ client'[k][v] = client[k][v]
  BY <1>1, RpcTyped, PendingLeft
<1>3. \A k \in RpcCallers, v \in ClientUses :
        /\ client'[k][v].up => client[k][v].up
        /\ client'[k][v].pending \subseteq client[k][v].pending
        /\ client'[k][v].waiters \subseteq client[k][v].waiters
  BY <1>2
<1> QED
  BY <1>1, <1>2, <1>3, ServedKeeps

LEMMA SettlesKeeps ==
  ASSUME RpcInv, NEW l \in RpcCallers, NEW u \in ClientUses, NEW t \in RpcCallers,
         ChildSettles(l, u, t)
  PROVE  RpcInv'
<1> DEFINE c == client[l][u]
           d == [c EXCEPT !.waiters = {}, !.work = @ \ {t},
                          !.spare = IF c.waiters = {} THEN @ + 1 ELSE @]
<1>1. /\ c \in AnyClient /\ client \in AllClients /\ client[l] \in [ClientUses -> AnyClient]
      /\ sessions' = sessions
      /\ rpc' = [x \in RpcCallers |-> IF x \in c.waiters /\ rpc[x].at = "waiting"
                                      THEN [rpc[x] EXCEPT !.at = "settled"] ELSE rpc[x]]
      /\ client' = [client EXCEPT ![l][u].waiters = {}, ![l][u].work = @ \ {t},
                     ![l][u].spare = IF c.waiters = {} THEN @ + 1 ELSE @]
      /\ IF live[l].adapting THEN AbortAdapter(l) ELSE UNCHANGED <<live, idled>>
  BY RpcTyped DEF ChildSettles, AllClients
<1>2. client' = [client EXCEPT ![l] = [client[l] EXCEPT ![u] = d]]
  BY <1>1
<1>3. d \in AnyClient /\ d.up = c.up /\ d.pending = c.pending /\ d.waiters = {}
  <2>1. c \in AnyClient
    BY <1>1
  <2> HIDE DEF c
  <2> DEFINE more == IF c.waiters = {} THEN c.spare + 1 ELSE c.spare
  <2>2. more \in Nat /\ d = [c EXCEPT !.waiters = {}, !.work = @ \ {t}, !.spare = more]
    BY <2>1 DEF AnyClient
  <2> HIDE DEF more, d
  <2> QED
    BY <2>1, <2>2 DEF AnyClient
<1> HIDE DEF d
<1>4. /\ client' \in AllClients /\ client'[l][u] = d
      /\ \A k \in RpcCallers, v \in ClientUses : (k = l /\ v = u) \/ client'[k][v] = client[k][v]
  <2> DEFINE clients == [client[l] EXCEPT ![u] = d]
  <2>1. client' = [client EXCEPT ![l] = clients]
    BY <1>2
  <2>2. /\ clients \in [ClientUses -> AnyClient] /\ clients[u] = d
        /\ \A v \in ClientUses : v # u => clients[v] = client[l][v]
    BY <1>1, <1>3
  <2> HIDE DEF clients
  <2>3. /\ client' \in AllClients /\ client'[l] = clients
        /\ \A k \in RpcCallers : k # l => client'[k] = client[k]
    BY <2>1, <2>2, RpcTyped DEF AllClients
  <2> QED
    BY <2>2, <2>3
<1>5. /\ rpc' \in [RpcCallers -> AnyProgress]
      /\ \A y \in RpcCallers :
           \/ rpc'[y] = rpc[y]
           \/ /\ y \in c.waiters /\ rpc[y].at = "waiting" /\ rpc'[y].at = "settled"
              /\ rpc'[y].of = rpc[y].of /\ rpc[y].of = l
  <2>1. \A y \in RpcCallers : rpc[y] \in AnyProgress
    BY RpcTyped
  <2>2. \A y \in RpcCallers : /\ [rpc[y] EXCEPT !.at = "settled"] \in AnyProgress
                              /\ [rpc[y] EXCEPT !.at = "settled"].at = "settled"
                              /\ [rpc[y] EXCEPT !.at = "settled"].of = rpc[y].of
    BY <2>1 DEF AnyProgress, RpcSteps
  <2>3. \A y \in c.waiters : rpc[y].of = l
    BY DEF RpcInv, WaitersUseIt
  <2>4. \A y \in RpcCallers :
          rpc'[y] = IF y \in c.waiters /\ rpc[y].at = "waiting"
                    THEN [rpc[y] EXCEPT !.at = "settled"] ELSE rpc[y]
    BY <1>1
  <2>5. rpc' \in [RpcCallers -> AnyProgress]
    <3> HIDE DEF c
    <3> QED
      BY <1>1, <2>1, <2>2
  <2> HIDE DEF c
  <2> QED
    BY <2>2, <2>3, <2>4, <2>5
<1>6. \A k \in RpcCallers, v \in ClientUses :
        /\ client'[k][v].up => client[k][v].up
        /\ client'[k][v].pending \subseteq client[k][v].pending
        /\ client'[k][v].waiters \subseteq client[k][v].waiters
  BY <1>3, <1>4
<1>7. /\ live' \in [RpcCallers -> AnyLive] /\ idled' \subseteq RpcTurns
      /\ \A k \in RpcCallers : live'[k].use = live[k].use /\ live'[k].retried = live[k].retried
  BY <1>1, RpcTyped, IdleShown
<1>8. Shape'
  BY <1>1, <1>4, <1>5, <1>7 DEF RpcInv, Shape, AllClients
<1>9. WaitersUseIt'
  <2> SUFFICES ASSUME NEW k \in RpcCallers, NEW v \in ClientUses, NEW y \in RpcCallers,
                      Waits(y, k, v)'
               PROVE  \/ /\ Waits(y, k, v) /\ rpc'[y] = rpc[y]
                         /\ y \in client'[k][v].waiters => y \in client[k][v].waiters
                      \/ rpc'[y].of = k /\ rpc'[y].at \notin NotWaiting
    BY <1>8, NobodyWaits
  <2>1. Waits(y, k, v) /\ (y \in client'[k][v].waiters => y \in client[k][v].waiters)
    BY <1>6 DEF Waits
  <2>2. rpc[y].of = k
    BY <2>1 DEF RpcInv, WaitersUseIt, Waits
  <2> QED
    BY <1>5, <2>1, <2>2 DEF NotWaiting
<1>10. Children'
  BY <1>1, <1>5, <1>6, <1>7, <1>8, NobodyStarts DEF Startup, Engaged
<1>11. BusyIsWatched'
  <2>1. CASE live[l].adapting
    BY <1>1, <1>5, <2>1, RpcConstants, IdleKeepsWatch DEF Engaged, Shown
  <2>2. CASE ~live[l].adapting
    <3>1. \A x \in RpcTurns : rpc[x].at = "waiting" /\ rpc[x].of = l => x \in idled
      BY <2>2 DEF RpcInv, BusyIsWatched, Engaged
    <3> QED
      BY <1>1, <1>5, <2>2, <3>1, RpcConstants DEF RpcInv, BusyIsWatched, Engaged, Shown
  <2> QED
    BY <2>1, <2>2
<1> QED
  BY <1>8, <1>9, <1>10, <1>11 DEF RpcInv

-----------------------------------------------------------------------------
(* The child exits *)

LEMMA Bereft ==
  ASSUME RpcInv, NEW l \in RpcCallers, NEW u \in ClientUses, NEW y \in RpcCallers
  PROVE  /\ AfterExit(l, u)[y] \in AnyProgress /\ AfterExit(l, u)[y].of = rpc[y].of
         /\ AfterExit(l, u)[y].again = rpc[y].again
         /\ \/ AfterExit(l, u)[y] = rpc[y]
            \/ /\ y \in RejectedBy(l, u)
               /\ \/ /\ y \in RpcTurns /\ rpc[y].at \in {"asked", "waiting"}
                     /\ AfterExit(l, u)[y].at = "dead"
                  \/ rpc[y].at = "aborting" /\ AfterExit(l, u)[y].at = "stop"
                  \/ /\ rpc[y].at = "probing" /\ u = "first"
                     /\ AfterExit(l, u)[y].at = "starting" /\ AfterExit(l, u)[y].use = "fresh"
                  \/ AfterExit(l, u)[y].at = "failed"
<1>1. rpc[y] \in AnyProgress
  BY RpcTyped
<1>2. \A step \in RpcSteps : /\ [rpc[y] EXCEPT !.at = step] \in AnyProgress
                             /\ [rpc[y] EXCEPT !.at = step].at = step
                             /\ [rpc[y] EXCEPT !.at = step].of = rpc[y].of
                             /\ [rpc[y] EXCEPT !.at = step].again = rpc[y].again
  BY <1>1 DEF AnyProgress
<1>3. /\ [rpc[y] EXCEPT !.at = "starting", !.use = "fresh"] \in AnyProgress
      /\ [rpc[y] EXCEPT !.at = "starting", !.use = "fresh"].at = "starting"
      /\ [rpc[y] EXCEPT !.at = "starting", !.use = "fresh"].use = "fresh"
      /\ [rpc[y] EXCEPT !.at = "starting", !.use = "fresh"].of = rpc[y].of
      /\ [rpc[y] EXCEPT !.at = "starting", !.use = "fresh"].again = rpc[y].again
  BY <1>1 DEF AnyProgress, RpcSteps, ClientUses
<1>4. "dead" \in RpcSteps /\ "stop" \in RpcSteps /\ "failed" \in RpcSteps
  BY DEF RpcSteps
<1>5. CASE y \notin RejectedBy(l, u)
  BY <1>1, <1>5 DEF AfterExit
<1>6. CASE y \in RejectedBy(l, u)
  <2>1. \/ /\ y \in RpcTurns /\ rpc[y].at \in {"asked", "waiting"}
           /\ AfterExit(l, u)[y] = [rpc[y] EXCEPT !.at = "dead"]
        \/ rpc[y].at = "aborting" /\ AfterExit(l, u)[y] = [rpc[y] EXCEPT !.at = "stop"]
        \/ /\ rpc[y].at = "probing" /\ u = "first"
           /\ AfterExit(l, u)[y] = [rpc[y] EXCEPT !.at = "starting", !.use = "fresh"]
        \/ AfterExit(l, u)[y] = [rpc[y] EXCEPT !.at = "failed"]
    BY <1>6 DEF AfterExit
  <2>2. CASE /\ y \in RpcTurns /\ rpc[y].at \in {"asked", "waiting"}
             /\ AfterExit(l, u)[y] = [rpc[y] EXCEPT !.at = "dead"]
    BY <1>2, <1>4, <1>6, <2>2
  <2>3. CASE rpc[y].at = "aborting" /\ AfterExit(l, u)[y] = [rpc[y] EXCEPT !.at = "stop"]
    BY <1>2, <1>4, <1>6, <2>3
  <2>4. CASE /\ rpc[y].at = "probing" /\ u = "first"
             /\ AfterExit(l, u)[y] = [rpc[y] EXCEPT !.at = "starting", !.use = "fresh"]
    BY <1>3, <1>6, <2>4
  <2>5. CASE AfterExit(l, u)[y] = [rpc[y] EXCEPT !.at = "failed"]
    BY <1>2, <1>4, <1>6, <2>5
  <2> QED
    BY <2>1, <2>2, <2>3, <2>4, <2>5
<1> QED
  BY <1>5, <1>6

LEMMA ExitKeeps ==
  ASSUME RpcInv, NEW l \in RpcCallers, NEW u \in ClientUses, ChildExits(l, u)
  PROVE  RpcInv'
<1> DEFINE c == [NoClient EXCEPT !.spare = client[l][u].spare]
<1>1. /\ client' = [client EXCEPT ![l] = [client[l] EXCEPT ![u] = c]] /\ rpc' = AfterExit(l, u)
      /\ UNCHANGED <<sessions, live, idled>>
  BY RpcTyped DEF ChildExits, AllClients
<1>2. c \in AnyClient /\ ~c.up /\ c.pending = {} /\ c.waiters = {}
  <2>1. client[l][u].spare \in Nat
    BY RpcTyped DEF AllClients, AnyClient
  <2> QED
    BY <2>1 DEF NoClient, AnyClient
<1> HIDE DEF c
<1>3. /\ client' \in AllClients /\ client'[l][u] = c
      /\ \A k \in RpcCallers, v \in ClientUses : (k = l /\ v = u) \/ client'[k][v] = client[k][v]
  <2> DEFINE clients == [client[l] EXCEPT ![u] = c]
  <2>1. client' = [client EXCEPT ![l] = clients]
    BY <1>1
  <2>2. /\ clients \in [ClientUses -> AnyClient] /\ clients[u] = c
        /\ \A v \in ClientUses : v # u => clients[v] = client[l][v]
    BY <1>2, RpcTyped DEF AllClients
  <2> HIDE DEF clients
  <2>3. /\ client' \in AllClients /\ client'[l] = clients
        /\ \A k \in RpcCallers : k # l => client'[k] = client[k]
    BY <2>1, <2>2, RpcTyped DEF AllClients
  <2> QED
    BY <2>2, <2>3
<1>4. rpc' \in [RpcCallers -> AnyProgress]
  <2> DEFINE after == AfterExit(l, u)
  <2>1. after = [y \in RpcCallers |-> after[y]]
    BY DEF AfterExit
  <2>2. \A y \in RpcCallers : after[y] \in AnyProgress
    BY Bereft
  <2> HIDE DEF after
  <2>3. after \in [RpcCallers -> AnyProgress]
    BY <2>1, <2>2
  <2> QED
    BY <1>1, <2>3 DEF after
<1>5. \A y \in RpcCallers :
        /\ rpc'[y].of = rpc[y].of
        /\ \/ rpc'[y] = rpc[y]
           \/ /\ y \in RejectedBy(l, u)
              /\ \/ y \in RpcTurns /\ rpc[y].at \in {"asked", "waiting"} /\ rpc'[y].at = "dead"
                 \/ rpc[y].at = "aborting" /\ rpc'[y].at = "stop"
                 \/ /\ rpc[y].at = "probing" /\ u = "first"
                    /\ rpc'[y].at = "starting" /\ rpc'[y].use = "fresh"
                 \/ rpc'[y].at = "failed"
  BY <1>1, Bereft
<1>6. \A y \in RejectedBy(l, u) : Waits(y, l, u) /\ rpc[y].of = l /\ rpc[y].use = u
  BY DEF RejectedBy, Waits, RpcInv, WaitersUseIt
<1>7. \A k \in RpcCallers, v \in ClientUses : client'[k][v].up => client[k][v].up /\ ~(k = l /\ v = u)
  BY <1>2, <1>3
<1>8. Shape'
  BY <1>1, <1>3, <1>4 DEF RpcInv, Shape, AllClients
<1>9. WaitersUseIt'
  <2> SUFFICES ASSUME NEW k \in RpcCallers, NEW v \in ClientUses, NEW y \in RpcCallers,
                      Waits(y, k, v)'
               PROVE  \/ /\ Waits(y, k, v) /\ rpc'[y] = rpc[y]
                         /\ y \in client'[k][v].waiters => y \in client[k][v].waiters
                      \/ rpc'[y].of = k /\ rpc'[y].at \notin NotWaiting
    BY <1>8, NobodyWaits
  <2>1. client'[k][v] = client[k][v] /\ Waits(y, k, v) /\ ~(k = l /\ v = u)
    BY <1>2, <1>3 DEF Waits
  <2>2. rpc[y].of = k /\ (rpc[y].at = "probing" => rpc[y].use = v)
    BY <2>1 DEF RpcInv, WaitersUseIt, Waits
  <2>3. y \in RejectedBy(l, u) => k = l /\ rpc[y].at # "probing"
    BY <1>6, <2>1, <2>2
  <2> QED
    BY <1>5, <2>1, <2>2, <2>3 DEF NotWaiting
<1>10. StartsAlone'
  <2> SUFFICES ASSUME NEW x \in RpcCallers, rpc'[x].at \in Startup
               PROVE  /\ rpc'[x].use \in {"first", "fresh"}
                      /\ rpc'[x].at # "new" => rpc'[x].of = x
                      /\ \A v \in ClientUses :
                           client'[x][v].up => rpc'[x].at = "probing" /\ rpc'[x].use = v
    BY DEF StartsAlone
  <2>1. CASE rpc'[x] = rpc[x]
    BY <1>7, <2>1 DEF RpcInv, Children, StartsAlone
  <2>2. CASE rpc'[x] # rpc[x]
    <3>1. /\ x \in RejectedBy(l, u) /\ rpc[x].at = "probing"
          /\ rpc'[x].at = "starting" /\ rpc'[x].use = "fresh" /\ rpc'[x].of = rpc[x].of
      BY <1>5, <2>2 DEF Startup
    <3>2. /\ rpc[x].of = x /\ x = l /\ rpc[x].use = u
          /\ \A v \in ClientUses : client[x][v].up => v = rpc[x].use
      BY <1>6, <3>1 DEF RpcInv, Children, StartsAlone, Startup
    <3> QED
      BY <1>7, <3>1, <3>2
  <2> QED
    BY <2>1, <2>2
<1>11. \A k \in RpcCallers : Started(k) => Started(k)'
  BY <1>1, <1>5, <1>7 DEF Started, Startup
<1>12. UsedIsSettled'
  BY <1>1, <1>5, <1>11, RpcTyped DEF RpcInv, Children, UsedIsSettled, Engaged
<1>13. TurnsUseIt'
  <2> SUFFICES ASSUME NEW t \in RpcTurns, rpc'[t].at \in {"asked", "waiting", "dead"}
               PROVE  /\ rpc'[t].at \in {"asked", "waiting"} /\ ~live'[rpc'[t].of].retried =>
                           rpc'[t].use = live'[rpc'[t].of].use
                      /\ rpc'[t].at = "dead" /\ ~live'[rpc'[t].of].retried =>
                           \A v \in ClientUses : ~client'[rpc'[t].of][v].up
    BY DEF TurnsUseIt
  <2>1. t \in RpcCallers
    BY RpcConstants
  <2>2. rpc[t].of \in RpcCallers /\ Started(rpc[t].of)
    BY <1>5, <2>1, EngagedHas DEF Engaged
  <2>3. CASE rpc'[t] = rpc[t]
    BY <1>1, <1>7, <2>2, <2>3 DEF RpcInv, Children, TurnsUseIt
  <2>4. CASE rpc'[t] # rpc[t]
    <3>1. t \in RejectedBy(l, u) /\ rpc[t].at \in {"asked", "waiting"} /\ rpc'[t].at = "dead"
      BY <1>5, <2>1, <2>4
    <3>2. rpc'[t].of = l /\ rpc[t].of = l /\ rpc[t].use = u
      BY <1>5, <1>6, <2>1, <3>1
    <3>3. ASSUME ~live[l].retried, NEW v \in ClientUses PROVE ~client'[l][v].up
      <4>1. live[l].use = u
        BY <3>1, <3>2, <3>3 DEF RpcInv, Children, TurnsUseIt
      <4>2. client[l][v].up => v = u
        BY <2>2, <3>2, <3>3, <4>1 DEF Started
      <4> QED
        BY <1>7, <4>2
    <3> QED
      BY <1>1, <3>1, <3>2, <3>3
  <2> QED
    BY <2>3, <2>4
<1>14. OnlyTurnsDie' /\ OneChild'
  BY <1>5, <1>7 DEF RpcInv, Children, OnlyTurnsDie, OneChild
<1>15. BusyIsWatched'
  BY <1>1, <1>5, RpcConstants, NobodyIdles DEF Engaged, Shown
<1> QED
  BY <1>8, <1>9, <1>10, <1>12, <1>13, <1>14, <1>15 DEF RpcInv, Children

-----------------------------------------------------------------------------
LEMMA RpcInitially == ASSUME RpcInit PROVE RpcInv
<1>1. PICK cast \in RpcCasts : RpcStartsWith(cast)
  BY DEF RpcInit
<1>2. /\ sessions = NoLive /\ idled = {}
      /\ live = [x \in RpcCallers |-> [use |-> "first", adapting |-> FALSE, retried |-> FALSE]]
      /\ client = [x \in RpcCallers |-> [u \in ClientUses |-> NoClient]]
      /\ rpc = [x \in RpcCallers |-> [at |-> IF x \in cast THEN "new" ELSE "failed",
                                      of |-> NoLive, use |-> "first", again |-> FALSE]]
  BY <1>1 DEF RpcStartsWith
<1>3. \A x \in RpcCallers : /\ rpc[x].at \in {"new", "failed"} /\ rpc[x].use = "first"
                            /\ rpc[x] \in AnyProgress
                            /\ \A u \in ClientUses : client[x][u] = NoClient
  BY <1>2 DEF AnyProgress, RpcSteps, ClientUses
<1>4. Shape
  <2>1. live \in [RpcCallers -> AnyLive]
    BY <1>2 DEF AnyLive, ClientUses
  <2>2. rpc \in [RpcCallers -> AnyProgress]
    BY <1>2, <1>3
  <2>3. client \in [RpcCallers -> [ClientUses -> AnyClient]]
    BY <1>2, ClientsTyped
  <2> QED
    BY <1>2, <2>1, <2>2, <2>3 DEF Shape
<1>5. WaitersUseIt
  BY <1>3, ClientsTyped DEF WaitersUseIt
<1>6. StartsAlone /\ UsedIsSettled /\ OnlyTurnsDie /\ OneChild
  BY <1>2, <1>3, ClientsTyped
     DEF StartsAlone, UsedIsSettled, OnlyTurnsDie, OneChild, Startup, Engaged
<1>7. TurnsUseIt /\ BusyIsWatched
  BY <1>3, RpcConstants DEF TurnsUseIt, BusyIsWatched, Engaged, Shown
<1> QED
  BY <1>4, <1>5, <1>6, <1>7 DEF RpcInv, Children

LEMMA RpcKeeps == ASSUME RpcInv, [RpcNext]_rpcVars PROVE RpcInv'
<1>1. ASSUME NEW x \in RpcCallers,
             \/ GetSession(x) \/ AbortRpc(x) \/ RegisterSession(x) \/ ProbeTimesOut(x)
             \/ DeadlineFires(x)
      PROVE  RpcInv'
  BY <1>1, GetKeeps, AbortKeeps, RegisterKeeps, ProbeLateKeeps, DeadlineKeeps
<1>2. ASSUME NEW x \in RpcCallers, RpcStep(x) PROVE RpcInv'
  BY <1>2, StartKeeps, BeginKeeps, PromptKeeps, SendAbortKeeps, RecoverKeeps, SendRequestKeeps,
     StopKeeps, StopEndsKeeps DEF RpcStep
<1>3. ASSUME NEW l \in RpcCallers, NEW u \in ClientUses, ChildKilled(l, u) \/ ChildDies(l, u)
      PROVE  RpcInv'
  BY <1>3, ExitKeeps DEF ChildKilled, ChildDies
<1>4. ASSUME NEW l \in RpcCallers, NEW u \in ClientUses, NEW x \in RpcCallers,
             ChildAnswers(l, u, x) \/ ChildRefuses(l, u, x) \/ ChildSettles(l, u, x)
      PROVE  RpcInv'
  BY <1>4, AnswersKeeps, RefusesKeeps, SettlesKeeps
<1>5. CASE UNCHANGED rpcVars
  BY <1>5 DEF rpcVars, RpcInv, Shape, WaitersUseIt, Children, StartsAlone, UsedIsSettled, Started,
              TurnsUseIt, OnlyTurnsDie, OneChild, BusyIsWatched
<1> QED
  BY <1>1, <1>2, <1>3, <1>4, <1>5 DEF RpcNext

\* The invariant of the bridge: who waits on which child, which sessions have a
\* child, and which turns still have their idle event to come.
THEOREM RpcInvariant == RpcSpec => []RpcInv
<1>1. RpcInit => RpcInv
  BY RpcInitially
<1>2. RpcInv /\ [RpcNext]_rpcVars => RpcInv'
  BY RpcKeeps
<1> QED
  BY <1>1, <1>2, PTL DEF RpcSpec

\* A turn that settled, outlived its deadline or spent its retry has had its idle
\* event, whatever turns, aborts and deaths of children ran next to it.
THEOREM RpcIdleAfterBusy == RpcSpec => []RpcTurnEndsIdle
<1>1. RpcInv => RpcTurnEndsIdle
  BY DEF RpcInv, BusyIsWatched, RpcTurnEndsIdle, Shown
<1> QED
  BY <1>1, RpcInvariant, PTL

\* No start, quarantine or retry gives a live session a second omo child next
\* to one that is up (getOrStartRpcSession, recoverTransportDeath).
THEOREM RpcNeverTwoChildren == RpcSpec => []RpcOneChildPerSession
<1>1. ASSUME RpcInv PROVE RpcOneChildPerSession
  <2> SUFFICES ASSUME NEW l \in RpcCallers
               PROVE  Cardinality({u \in ClientUses : client[l][u].up}) <= 1
    BY DEF RpcOneChildPerSession
  <2> DEFINE up == {u \in ClientUses : client[l][u].up}
  <2> SUFFICES Cardinality(up) <= 1
    OBVIOUS
  <2>1. \A u, v \in up : u = v
    BY <1>1 DEF RpcInv, Children, OneChild
  <2> HIDE DEF up
  <2>2. CASE up = {}
    BY <2>2, FS_EmptySet
  <2>3. CASE up # {}
    <3>1. PICK u \in up : TRUE
      BY <2>3
    <3>2. up = {u}
      BY <2>1, <3>1
    <3> QED
      BY <3>2, FS_Singleton
  <2> QED
    BY <2>2, <2>3
<1> QED
  BY <1>1, RpcInvariant, PTL

-----------------------------------------------------------------------------
(* The bounds of the counters: what a child can leave over *)

\* A turn may still give client u of session l a prompt to work on.
Entering == {"new", "starting", "probing", "handle"}
MayPrompt(r, l, u) ==
  \/ r.at \in Entering
  \/ r.of = l /\ r.at = "begun" /\ (r.again => u = "retry")
  \/ r.of = l /\ r.at = "asked" /\ r.use = u
Prompters(l, u) == {t \in RpcTurns : MayPrompt(rpc[t], l, u)}

\* A client has room for the settlements of all prompts it was and may be given.
RoomIn(l, u) ==
  /\ client[l][u].work \subseteq RpcTurns
  /\ client[l][u].spare + Cardinality(client[l][u].work) + Cardinality(Prompters(l, u))
       <= Cardinality(RpcTurns)
Room == \A l \in RpcCallers, u \in ClientUses : RoomIn(l, u)

\* A turn that goes on after a transport death goes on with the client of the retry.
AgainRetried == \A x \in RpcCallers :
  rpc[x].again => /\ x \in RpcTurns /\ rpc[x].at # "new"
                  /\ rpc[x].of \in RpcCallers /\ live[rpc[x].of].retried
RetriedUses == \A l \in RpcCallers :
  live[l].retried => live[l].use = "retry" /\ rpc[l].at \notin Startup

\* Whoever has a request pending at a client is asking that client.
Asking == {"probing", "asked", "aborting"}
PendingFits == \A l \in RpcCallers, u \in ClientUses :
  \A x \in client[l][u].pending : rpc[x].at \in Asking /\ rpc[x].use = u

RpcBounds ==
  Room /\ AgainRetried /\ RetriedUses /\ PendingFits /\ deaths \in 0 .. MaxRpcDeaths

\* What most steps do to a caller, to a client and to a session
CallerMoves(x) ==
  \/ rpc'[x] = rpc[x]
  \/ /\ rpc'[x].again = rpc[x].again /\ rpc'[x].at # "new"
     /\ rpc'[x].of = rpc[x].of \/ rpc[x].at = "new" \/ x \notin RpcTurns
     /\ rpc'[x].at \in Startup => rpc[x].at \in Startup
     /\ \/ rpc[x].at \in Entering
        \/ rpc'[x].at \notin Entering \cup {"begun", "asked"}
        \/ /\ rpc[x].at = "begun" /\ rpc'[x].at = "asked" /\ rpc'[x].of = rpc[x].of
           /\ rpc'[x].use = live[rpc[x].of].use
ClientMoves(l, u) ==
  \/ client'[l][u].spare <= client[l][u].spare /\ client'[l][u].work \subseteq client[l][u].work
  \/ client'[l][u].spare = 0 /\ client'[l][u].work = {}
PendingMoves(l, u) == \A x \in client'[l][u].pending :
  \/ x \in client[l][u].pending /\ rpc'[x] = rpc[x]
  \/ rpc'[x].at \in Asking /\ rpc'[x].use = u
SessionMoves(l) == /\ live'[l].retried = live[l].retried
                   /\ live[l].retried => live'[l].use = live[l].use

\* What a caller that begins or stops waiting on a client leaves alone
LEMMA AskedStays ==
  ASSUME rpc \in [RpcCallers -> AnyProgress], NEW x \in RpcCallers, NEW step \in RpcSteps,
         NEW use \in ClientUses, rpc' = [rpc EXCEPT ![x].at = step, ![x].use = use]
  PROVE  rpc'[x].again = rpc[x].again
<1> DEFINE w == [rpc[x] EXCEPT !.at = step, !.use = use]
<1>1. rpc' = [rpc EXCEPT ![x] = w]
  OBVIOUS
<1>2. w \in AnyProgress /\ w.again = rpc[x].again
  BY DEF AnyProgress
<1> HIDE DEF w
<1> QED
  BY <1>1, <1>2, CallerSteps

LEMMA PendingSet ==
  ASSUME client \in AllClients, NEW l \in RpcCallers, NEW u \in ClientUses,
         NEW S \in SUBSET RpcCallers, client' = [client EXCEPT ![l][u].pending = S]
  PROVE  /\ client'[l][u].pending = S
         /\ client'[l][u].spare = client[l][u].spare /\ client'[l][u].work = client[l][u].work
         /\ \A k \in RpcCallers, v \in ClientUses : (k = l /\ v = u) \/ client'[k][v] = client[k][v]
<1> DEFINE c == [client[l][u] EXCEPT !.pending = S]
           clients == [client[l] EXCEPT ![u] = c]
<1>1. client' = [client EXCEPT ![l] = clients]
  OBVIOUS
<1>2. client[l] \in [ClientUses -> AnyClient] /\ client[l][u] \in AnyClient
  BY DEF AllClients
<1>3. /\ c.pending = S
      /\ c.spare = client[l][u].spare /\ c.work = client[l][u].work
  BY <1>2 DEF AnyClient
<1> HIDE DEF c
<1>4. clients[u] = c /\ \A v \in ClientUses : v # u => clients[v] = client[l][v]
  BY <1>2
<1> HIDE DEF clients
<1>5. client'[l] = clients /\ \A k \in RpcCallers : k # l => client'[k] = client[k]
  BY <1>1 DEF AllClients
<1> QED
  BY <1>3, <1>4, <1>5

LEMMA JoinedStays ==
  ASSUME client \in AllClients, NEW l \in RpcCallers, NEW u \in ClientUses, NEW x \in RpcCallers,
         client' = [client EXCEPT ![l][u].pending = @ \cup {x}]
  PROVE  /\ client'[l][u].pending = client[l][u].pending \cup {x}
         /\ client'[l][u].spare = client[l][u].spare /\ client'[l][u].work = client[l][u].work
         /\ \A k \in RpcCallers, v \in ClientUses : (k = l /\ v = u) \/ client'[k][v] = client[k][v]
<1> DEFINE S == client[l][u].pending \cup {x}
<1>1. S \in SUBSET RpcCallers /\ client' = [client EXCEPT ![l][u].pending = S]
  BY DEF AllClients, AnyClient
<1> HIDE DEF S
<1>2. /\ client'[l][u].pending = S
      /\ client'[l][u].spare = client[l][u].spare /\ client'[l][u].work = client[l][u].work
      /\ \A k \in RpcCallers, v \in ClientUses : (k = l /\ v = u) \/ client'[k][v] = client[k][v]
  BY <1>1, PendingSet
<1> QED
  BY <1>2 DEF S

LEMMA LeftStays ==
  ASSUME client \in AllClients, NEW l \in RpcCallers, NEW u \in ClientUses, NEW x \in RpcCallers,
         client' = [client EXCEPT ![l][u].pending = @ \ {x}]
  PROVE  /\ client'[l][u].pending = client[l][u].pending \ {x}
         /\ client'[l][u].spare = client[l][u].spare /\ client'[l][u].work = client[l][u].work
         /\ \A k \in RpcCallers, v \in ClientUses : (k = l /\ v = u) \/ client'[k][v] = client[k][v]
<1> DEFINE S == client[l][u].pending \ {x}
<1>1. S \in SUBSET RpcCallers /\ client' = [client EXCEPT ![l][u].pending = S]
  BY DEF AllClients, AnyClient
<1> HIDE DEF S
<1>2. /\ client'[l][u].pending = S
      /\ client'[l][u].spare = client[l][u].spare /\ client'[l][u].work = client[l][u].work
      /\ \A k \in RpcCallers, v \in ClientUses : (k = l /\ v = u) \/ client'[k][v] = client[k][v]
  BY <1>1, PendingSet
<1> QED
  BY <1>2 DEF S

LEMMA FewerPrompters ==
  ASSUME RpcInv, AgainRetried, RetriedUses, NEW t \in RpcTurns, CallerMoves(t),
         NEW l \in RpcCallers, NEW u \in ClientUses, MayPrompt(rpc'[t], l, u)
  PROVE  MayPrompt(rpc[t], l, u)
<1>1. t \in RpcCallers
  BY RpcConstants
<1>2. CASE rpc'[t] = rpc[t]
  BY <1>2
<1>3. CASE rpc[t].at \in Entering
  BY <1>3 DEF MayPrompt
<1>4. CASE rpc'[t].at \notin Entering \cup {"begun", "asked"}
  BY <1>4 DEF MayPrompt
<1>5. CASE /\ rpc[t].at = "begun" /\ rpc'[t].at = "asked" /\ rpc'[t].of = rpc[t].of
           /\ rpc'[t].use = live[rpc[t].of].use
  <2>1. rpc[t].of = l /\ u = live[l].use
    BY <1>5 DEF MayPrompt, Entering
  <2>2. rpc[t].again => u = "retry"
    BY <1>1, <2>1 DEF AgainRetried, RetriedUses
  <2> QED
    BY <1>5, <2>1, <2>2 DEF MayPrompt
<1> QED
  BY <1>2, <1>3, <1>4, <1>5 DEF CallerMoves

\* Turns and what is counted of them
LEMMA Counted ==
  ASSUME NEW W \in SUBSET RpcTurns
  PROVE  /\ IsFiniteSet(W) /\ Cardinality(W) \in Nat /\ Cardinality(W) <= Cardinality(RpcTurns)
         /\ \A V \in SUBSET W : Cardinality(V) <= Cardinality(W)
         /\ Cardinality(RpcTurns) \in Nat
BY RpcAssumption, FS_Subset, FS_CardinalityType

LEMMA RoomKept ==
  ASSUME RpcInv, RpcInv', NEW l \in RpcCallers, NEW u \in ClientUses, RoomIn(l, u),
         ClientMoves(l, u), Prompters(l, u)' \subseteq Prompters(l, u)
  PROVE  RoomIn(l, u)'
<1> DEFINE S == client[l][u].spare   W == client[l][u].work   J == Prompters(l, u)
           s == client'[l][u].spare  w == client'[l][u].work  j == Prompters(l, u)'
           all == Cardinality(RpcTurns)
<1>1. S \in Nat /\ s \in Nat
  BY DEF RpcInv, Shape, AnyClient
<1>2. W \subseteq RpcTurns /\ S + Cardinality(W) + Cardinality(J) <= all
  BY DEF RoomIn
<1>3. J \subseteq RpcTurns /\ j \subseteq J
  BY DEF Prompters
<1>4. (s <= S /\ w \subseteq W) \/ (s = 0 /\ w = {})
  BY DEF ClientMoves
<1>5. RoomIn(l, u)' <=> (w \subseteq RpcTurns /\ s + Cardinality(w) + Cardinality(j) <= all)
  BY DEF RoomIn
<1> HIDE DEF S, W, J, s, w, j
<1>6. /\ Cardinality(W) \in Nat /\ Cardinality(J) \in Nat /\ Cardinality(j) \in Nat
      /\ Cardinality(j) <= Cardinality(J) /\ Cardinality(j) <= all /\ all \in Nat
  BY <1>2, <1>3, Counted
<1>7. CASE s <= S /\ w \subseteq W
  <2>1. w \subseteq RpcTurns /\ Cardinality(w) \in Nat /\ Cardinality(w) <= Cardinality(W)
    BY <1>2, <1>7, Counted
  <2> HIDE DEF all
  <2>2. s + Cardinality(w) + Cardinality(j) <= all
    BY <1>1, <1>2, <1>6, <1>7, <2>1
  <2> QED
    BY <1>5, <2>1, <2>2
<1>8. CASE s = 0 /\ w = {}
  <2>1. Cardinality(w) = 0
    BY <1>8, FS_EmptySet
  <2> HIDE DEF all
  <2>2. s + Cardinality(w) + Cardinality(j) <= all
    BY <1>6, <1>8, <2>1
  <2> QED
    BY <1>5, <1>8, <2>2
<1> QED
  BY <1>4, <1>7, <1>8

LEMMA RetryKept ==
  ASSUME RpcInv, AgainRetried, RetriedUses, \A x \in RpcCallers : CallerMoves(x) /\ SessionMoves(x)
  PROVE  AgainRetried' /\ RetriedUses'
<1>1. ASSUME NEW x \in RpcCallers, rpc'[x].again
      PROVE  /\ x \in RpcTurns /\ rpc'[x].at # "new"
             /\ rpc'[x].of \in RpcCallers /\ live'[rpc'[x].of].retried
  <2>1. rpc[x].again
    BY <1>1 DEF CallerMoves
  <2>2. x \in RpcTurns /\ rpc[x].at # "new" /\ rpc[x].of \in RpcCallers /\ live[rpc[x].of].retried
    BY <2>1 DEF AgainRetried
  <2>3. rpc'[x].of = rpc[x].of /\ rpc'[x].at # "new"
    BY <2>2 DEF CallerMoves
  <2> QED
    BY <2>2, <2>3 DEF SessionMoves
<1>2. ASSUME NEW l \in RpcCallers, live'[l].retried
      PROVE  live'[l].use = "retry" /\ rpc'[l].at \notin Startup
  <2>1. live[l].retried /\ live'[l].use = live[l].use
    BY <1>2 DEF SessionMoves
  <2>2. live[l].use = "retry" /\ rpc[l].at \notin Startup
    BY <2>1 DEF RetriedUses
  <2> QED
    BY <2>1, <2>2 DEF CallerMoves
<1> QED
  BY <1>1, <1>2 DEF AgainRetried, RetriedUses

\* Most steps
LEMMA BoundsKept ==
  ASSUME RpcInv, RpcInv', RpcBounds, deaths' \in 0 .. MaxRpcDeaths,
         \A x \in RpcCallers : CallerMoves(x) /\ SessionMoves(x),
         \A l \in RpcCallers, u \in ClientUses : ClientMoves(l, u) /\ PendingMoves(l, u)
  PROVE  RpcBounds'
<1>1. AgainRetried' /\ RetriedUses'
  BY RetryKept DEF RpcBounds
<1>2. PendingFits'
  BY DEF RpcBounds, PendingFits, PendingMoves
<1>3. ASSUME NEW l \in RpcCallers, NEW u \in ClientUses PROVE RoomIn(l, u)'
  <2>1. \A t \in RpcTurns : MayPrompt(rpc'[t], l, u) => MayPrompt(rpc[t], l, u)
    BY FewerPrompters, RpcConstants DEF RpcBounds
  <2>2. Prompters(l, u)' \subseteq Prompters(l, u)
    BY <2>1 DEF Prompters
  <2> QED
    BY <2>2, RoomKept DEF RpcBounds, Room
<1> QED
  BY <1>1, <1>2, <1>3 DEF RpcBounds, Room

\* A caller that asks nobody goes on, and no client is touched.
LEMMA ClientsRest ==
  ASSUME RpcInv, RpcBounds, client' = client, NEW x \in RpcCallers, rpc[x].at \notin Asking,
         \A y \in RpcCallers : y # x => rpc'[y] = rpc[y]
  PROVE  \A l \in RpcCallers, u \in ClientUses : ClientMoves(l, u) /\ PendingMoves(l, u)
<1> SUFFICES ASSUME NEW l \in RpcCallers, NEW u \in ClientUses
             PROVE  ClientMoves(l, u) /\ PendingMoves(l, u)
  OBVIOUS
<1>1. client[l][u].spare \in Nat /\ client[l][u].pending \subseteq RpcCallers
  BY DEF RpcInv, Shape, AnyClient
<1>2. ClientMoves(l, u)
  BY <1>1 DEF ClientMoves
<1>3. ASSUME NEW y \in client'[l][u].pending PROVE y \in client[l][u].pending /\ rpc'[y] = rpc[y]
  <2>1. y \in client[l][u].pending /\ y \in RpcCallers /\ rpc[y].at \in Asking
    BY <1>1 DEF RpcBounds, PendingFits
  <2> QED
    BY <2>1
<1> QED
  BY <1>2, <1>3 DEF PendingMoves

Halts == RpcSteps \ (Entering \cup {"begun", "asked"})

\* A caller goes on without a client.
LEMMA LeavingBounds ==
  ASSUME RpcInv, RpcInv', RpcBounds, NEW x \in RpcCallers, rpc[x].at \notin Asking,
         NEW step \in Halts, RpcGoes(x, step), client' = client, deaths' = deaths,
         \A l \in RpcCallers : SessionMoves(l)
  PROVE  RpcBounds'
<1>1. /\ rpc'[x].at = step /\ rpc'[x].of = rpc[x].of /\ rpc'[x].again = rpc[x].again
      /\ \A y \in RpcCallers : y # x => rpc'[y] = rpc[y]
  BY RpcTyped, CallerGoes DEF Halts
<1>2. \A y \in RpcCallers : CallerMoves(y)
  BY <1>1 DEF CallerMoves, Halts, Entering, Startup
<1>3. \A l \in RpcCallers, u \in ClientUses : ClientMoves(l, u) /\ PendingMoves(l, u)
  BY <1>1, ClientsRest
<1> QED
  BY <1>2, <1>3, BoundsKept DEF RpcBounds

LEMMA GetBounds ==
  ASSUME RpcInv, RpcInv', RpcBounds, NEW x \in RpcCallers, GetSession(x)
  PROVE  RpcBounds'
<1> DEFINE step == [rpc[x] EXCEPT !.at = IF sessions = NoLive THEN "starting" ELSE "handle",
                                  !.of = IF sessions = NoLive THEN x ELSE sessions]
<1>1. /\ rpc[x].at = "new" /\ rpc' = [rpc EXCEPT ![x] = step]
      /\ UNCHANGED <<sessions, live, client, deaths>> /\ rpc[x] \in AnyProgress
      /\ rpc \in [RpcCallers -> AnyProgress]
  BY RpcTyped DEF GetSession, RpcAt
<1>2. step.again = rpc[x].again /\ step.at \in {"starting", "handle"}
  BY <1>1 DEF AnyProgress
<1> HIDE DEF step
<1>3. rpc'[x] = step /\ \A y \in RpcCallers : y # x => rpc'[y] = rpc[y]
  BY <1>1
<1>4. \A y \in RpcCallers : CallerMoves(y) /\ SessionMoves(y)
  BY <1>1, <1>2, <1>3 DEF CallerMoves, SessionMoves, Entering, Startup
<1>5. \A l \in RpcCallers, u \in ClientUses : ClientMoves(l, u) /\ PendingMoves(l, u)
  BY <1>1, <1>3, ClientsRest DEF Asking
<1> QED
  BY <1>1, <1>4, <1>5, BoundsKept DEF RpcBounds

LEMMA StartBounds ==
  ASSUME RpcInv, RpcInv', RpcBounds, NEW x \in RpcCallers, StartChild(x)
  PROVE  RpcBounds'
<1> DEFINE use == rpc[x].use
           new == [NewClient EXCEPT !.pending = {x}]
<1>1. /\ rpc[x].at = "starting" /\ RpcGoes(x, "probing") /\ client' = [client EXCEPT ![x][use] = new]
      /\ UNCHANGED <<sessions, live, deaths>> /\ use \in ClientUses /\ client \in AllClients
  BY RpcTyped DEF StartChild, RpcAt, AnyProgress
<1>2. new.pending = {x} /\ new.spare = 0 /\ new.work = {}
  BY DEF NewClient, NoClient
<1>3. /\ rpc'[x].at = "probing" /\ rpc'[x].of = rpc[x].of /\ rpc'[x].again = rpc[x].again
      /\ rpc'[x].use = use /\ \A y \in RpcCallers : y # x => rpc'[y] = rpc[y]
  BY <1>1, RpcTyped, CallerGoes DEF RpcSteps
<1> HIDE DEF new, use
<1>4. \A y \in RpcCallers : CallerMoves(y) /\ SessionMoves(y)
  BY <1>1, <1>3 DEF CallerMoves, SessionMoves, Entering, Startup
<1>5. ASSUME NEW l \in RpcCallers, NEW u \in ClientUses
      PROVE  ClientMoves(l, u) /\ PendingMoves(l, u)
  <2>1. CASE l = x /\ u = use
    <3>1. client'[l][u] = new
      BY <1>1, <2>1 DEF AllClients
    <3> QED
      BY <1>2, <1>3, <2>1, <3>1 DEF ClientMoves, PendingMoves, Asking
  <2>2. CASE ~(l = x /\ u = use)
    <3>1. client'[l][u] = client[l][u] /\ client[l][u] \in AnyClient
      BY <1>1, <2>2 DEF AllClients
    <3>2. ASSUME NEW y \in client[l][u].pending PROVE rpc'[y] = rpc[y]
      <4>1. y \in RpcCallers /\ rpc[y].at \in Asking
        BY <3>1 DEF RpcBounds, PendingFits, AnyClient
      <4> QED
        BY <1>1, <1>3, <4>1 DEF Asking
    <3> QED
      BY <3>1, <3>2 DEF ClientMoves, PendingMoves, AnyClient
  <2> QED
    BY <2>1, <2>2
<1> QED
  BY <1>1, <1>4, <1>5, BoundsKept DEF RpcBounds

\* A caller no longer waits on client u, and what the client works on stays.
LEMMA LeftMoves ==
  ASSUME RpcInv, RpcBounds, NEW l \in RpcCallers, NEW u \in ClientUses, NEW x \in RpcCallers,
         client' = [client EXCEPT ![l][u].pending = @ \ {x}],
         \A y \in RpcCallers : y # x => rpc'[y] = rpc[y],
         rpc[x].at \in Asking => rpc[x].of = l /\ rpc[x].use = u
  PROVE  \A k \in RpcCallers, v \in ClientUses : ClientMoves(k, v) /\ PendingMoves(k, v)
<1>0. client \in AllClients
  BY RpcTyped
<1>1. /\ client'[l][u].pending = client[l][u].pending \ {x}
      /\ client'[l][u].spare = client[l][u].spare /\ client'[l][u].work = client[l][u].work
      /\ \A k \in RpcCallers, v \in ClientUses : (k = l /\ v = u) \/ client'[k][v] = client[k][v]
  BY <1>0, LeftStays
<1> SUFFICES ASSUME NEW k \in RpcCallers, NEW v \in ClientUses
             PROVE  ClientMoves(k, v) /\ PendingMoves(k, v)
  OBVIOUS
<1>2. /\ client'[k][v].spare = client[k][v].spare /\ client'[k][v].work = client[k][v].work
      /\ client'[k][v].pending \subseteq client[k][v].pending
      /\ client[k][v].spare \in Nat /\ client[k][v].pending \subseteq RpcCallers
  BY <1>1, RpcTyped DEF AllClients, AnyClient
<1>3. ASSUME NEW y \in client'[k][v].pending PROVE y \in client[k][v].pending /\ rpc'[y] = rpc[y]
  <2>1. /\ y \in client[k][v].pending /\ y \in RpcCallers
        /\ rpc[y].of = k /\ rpc[y].at \in Asking /\ rpc[y].use = v
    BY <1>2 DEF RpcBounds, PendingFits, RpcInv, WaitersUseIt
  <2>2. y # x
    BY <1>1, <2>1
  <2> QED
    BY <2>1, <2>2
<1> QED
  BY <1>2, <1>3 DEF ClientMoves, PendingMoves

LEMMA RegisterBounds ==
  ASSUME RpcInv, RpcInv', RpcBounds, NEW x \in RpcCallers, RegisterSession(x)
  PROVE  RpcBounds'
<1> DEFINE use == rpc[x].use
<1>1. /\ rpc[x].at = "probing" /\ RpcGoes(x, "handle")
      /\ client' = [client EXCEPT ![x][use].pending = @ \ {x}]
      /\ live' = [live EXCEPT ![x].use = use] /\ deaths' = deaths
      /\ rpc[x].use = use /\ use \in ClientUses /\ rpc[x].of = x
  BY RpcTyped DEF RegisterSession, RpcAt, AnyProgress, RpcInv, Children, StartsAlone, Startup
<1> HIDE DEF use
<1>2. /\ rpc'[x].at = "handle" /\ rpc'[x].of = rpc[x].of /\ rpc'[x].again = rpc[x].again
      /\ \A y \in RpcCallers : y # x => rpc'[y] = rpc[y]
  BY <1>1, RpcTyped, CallerGoes DEF RpcSteps
<1>3. \A y \in RpcCallers : CallerMoves(y)
  BY <1>1, <1>2 DEF CallerMoves, Entering, Startup
<1>4. \A l \in RpcCallers : SessionMoves(l)
  <2>1. ~live[x].retried
    BY <1>1 DEF RpcBounds, RetriedUses, Startup
  <2>2. /\ live'[x].retried = live[x].retried
        /\ \A l \in RpcCallers : l # x => live'[l] = live[l]
    BY <1>1, RpcTyped DEF AnyLive
  <2> QED
    BY <2>1, <2>2 DEF SessionMoves
<1>5. \A l \in RpcCallers, u \in ClientUses : ClientMoves(l, u) /\ PendingMoves(l, u)
  BY <1>1, <1>2, LeftMoves
<1> QED
  BY <1>1, <1>3, <1>4, <1>5, BoundsKept DEF RpcBounds

LEMMA ProbeLateBounds ==
  ASSUME RpcInv, RpcInv', RpcBounds, NEW x \in RpcCallers, ProbeTimesOut(x)
  PROVE  RpcBounds'
<1> DEFINE use == rpc[x].use
<1>1. /\ rpc[x].at = "probing" /\ RpcGoes(x, "failed")
      /\ client' = [client EXCEPT ![x][use].pending = @ \ {x}]
      /\ UNCHANGED <<live, deaths>> /\ rpc[x].use = use /\ use \in ClientUses /\ rpc[x].of = x
  BY RpcTyped DEF ProbeTimesOut, RpcAt, AnyProgress, RpcInv, Children, StartsAlone, Startup
<1> HIDE DEF use
<1>2. /\ rpc'[x].at = "failed" /\ rpc'[x].of = rpc[x].of /\ rpc'[x].again = rpc[x].again
      /\ \A y \in RpcCallers : y # x => rpc'[y] = rpc[y]
  BY <1>1, RpcTyped, CallerGoes DEF RpcSteps
<1>3. \A y \in RpcCallers : CallerMoves(y) /\ SessionMoves(y)
  BY <1>1, <1>2 DEF CallerMoves, SessionMoves, Entering, Startup
<1>4. \A l \in RpcCallers, u \in ClientUses : ClientMoves(l, u) /\ PendingMoves(l, u)
  BY <1>1, <1>2, LeftMoves
<1> QED
  BY <1>1, <1>3, <1>4, BoundsKept DEF RpcBounds

LEMMA BeginBounds ==
  ASSUME RpcInv, RpcInv', RpcBounds, NEW t \in RpcCallers, BeginTurn(t)
  PROVE  RpcBounds'
<1>1. /\ rpc[t].at = "handle" /\ RpcGoes(t, "begun")
      /\ live' = [live EXCEPT ![rpc[t].of].adapting = TRUE] /\ UNCHANGED <<client, deaths>>
  BY DEF BeginTurn, RpcAt
<1>2. /\ rpc'[t].at = "begun" /\ rpc'[t].of = rpc[t].of /\ rpc'[t].again = rpc[t].again
      /\ \A y \in RpcCallers : y # t => rpc'[y] = rpc[y]
  BY <1>1, RpcTyped, CallerGoes DEF RpcSteps
<1>3. \A y \in RpcCallers : CallerMoves(y)
  BY <1>1, <1>2 DEF CallerMoves, Entering, Startup
<1>4. \A l \in RpcCallers : SessionMoves(l)
  BY <1>1, RpcTyped DEF SessionMoves, AnyLive
<1>5. \A l \in RpcCallers, u \in ClientUses : ClientMoves(l, u) /\ PendingMoves(l, u)
  BY <1>1, <1>2, ClientsRest DEF Asking
<1> QED
  BY <1>1, <1>3, <1>4, <1>5, BoundsKept DEF RpcBounds

\* A caller sends a request to client u of its session.
LEMMA AskingBounds ==
  ASSUME RpcInv, RpcInv', RpcBounds, NEW x \in RpcCallers, NEW l \in RpcCallers,
         NEW u \in ClientUses, NEW step \in {"asked", "aborting"},
         client' = [client EXCEPT ![l][u].pending = @ \cup {x}],
         rpc'[x].at = step, rpc'[x].use = u, rpc[x].at \notin Asking, CallerMoves(x),
         \A y \in RpcCallers : y # x => rpc'[y] = rpc[y], UNCHANGED <<live, deaths>>
  PROVE  RpcBounds'
<1>0. client \in AllClients
  BY RpcTyped
<1>1. /\ client'[l][u].pending = client[l][u].pending \cup {x}
      /\ client'[l][u].spare = client[l][u].spare /\ client'[l][u].work = client[l][u].work
      /\ \A k \in RpcCallers, v \in ClientUses : (k = l /\ v = u) \/ client'[k][v] = client[k][v]
  BY <1>0, JoinedStays
<1>2. \A y \in RpcCallers : CallerMoves(y) /\ SessionMoves(y)
  BY DEF CallerMoves, SessionMoves
<1>3. ASSUME NEW k \in RpcCallers, NEW v \in ClientUses
      PROVE  ClientMoves(k, v) /\ PendingMoves(k, v)
  <2>1. /\ client'[k][v].spare = client[k][v].spare /\ client'[k][v].work = client[k][v].work
        /\ client'[k][v].pending \subseteq client[k][v].pending \cup {x}
        /\ x \in client'[k][v].pending => (k = l /\ v = u) \/ x \in client[k][v].pending
        /\ client[k][v].spare \in Nat /\ client[k][v].pending \subseteq RpcCallers
    BY <1>1, RpcTyped DEF AllClients, AnyClient
  <2>2. ASSUME NEW y \in client'[k][v].pending
        PROVE  \/ y \in client[k][v].pending /\ rpc'[y] = rpc[y]
               \/ rpc'[y].at \in Asking /\ rpc'[y].use = v
    <3>1. CASE y \in client[k][v].pending
      <4>1. y \in RpcCallers /\ rpc[y].at \in Asking
        BY <2>1, <3>1 DEF RpcBounds, PendingFits
      <4> QED
        BY <3>1, <4>1
    <3>2. CASE y \notin client[k][v].pending
      BY <2>1, <3>2 DEF Asking
    <3> QED
      BY <3>1, <3>2
  <2> QED
    BY <2>1, <2>2 DEF ClientMoves, PendingMoves
<1> QED
  BY <1>2, <1>3, BoundsKept DEF RpcBounds

LEMMA PromptBounds ==
  ASSUME RpcInv, RpcInv', RpcBounds, NEW t \in RpcCallers, SendPrompt(t)
  PROVE  RpcBounds'
<1> DEFINE l == rpc[t].of
           use == live[l].use
<1>1. /\ rpc[t].at = "begun" /\ UNCHANGED <<sessions, live, deaths>>
      /\ l \in RpcCallers /\ use \in ClientUses
  BY EngagedHas DEF SendPrompt, RpcAt, Engaged
<1>2. CASE Cl(t).running
  <2>1. /\ client' = [client EXCEPT ![l][use].pending = @ \cup {t}]
        /\ rpc' = [rpc EXCEPT ![t].at = "asked", ![t].use = use]
    BY <1>2 DEF SendPrompt
  <2>2. rpc[t].of = l /\ live[rpc[t].of].use = use
    OBVIOUS
  <2> HIDE DEF l, use
  <2>3. /\ rpc'[t].at = "asked" /\ rpc'[t].of = rpc[t].of /\ rpc'[t].use = use
        /\ rpc'[t].again = rpc[t].again /\ \A y \in RpcCallers : y # t => rpc'[y] = rpc[y]
    <3>1. rpc'[t].again = rpc[t].again
      BY <1>1, <2>1, RpcTyped, AskedStays DEF RpcSteps
    <3> QED
      BY <1>1, <2>1, <3>1, RpcTyped, CallerAsks DEF RpcSteps
  <2>4. CallerMoves(t)
    BY <1>1, <2>2, <2>3 DEF CallerMoves, Startup
  <2> QED
    BY <1>1, <2>1, <2>3, <2>4, AskingBounds DEF Asking
<1>3. CASE ~Cl(t).running
  <2>1. RpcGoes(t, IF rpc[t].again THEN "failed" ELSE "swallowed") /\ UNCHANGED client
    BY <1>3 DEF SendPrompt
  <2>2. \A k \in RpcCallers : SessionMoves(k)
    BY <1>1 DEF SessionMoves
  <2> QED
    BY <1>1, <2>1, <2>2, LeavingBounds DEF Asking, Halts, RpcSteps, Entering
<1> QED
  BY <1>2, <1>3

LEMMA SendAbortBounds ==
  ASSUME RpcInv, RpcInv', RpcBounds, NEW t \in RpcCallers, SendAbort(t)
  PROVE  RpcBounds'
<1> DEFINE l == rpc[t].of
           use == live[l].use
<1>1. /\ rpc[t].at = "deadline" /\ UNCHANGED <<sessions, live, deaths>>
      /\ l \in RpcCallers /\ use \in ClientUses
  BY EngagedHas DEF SendAbort, RpcAt, Engaged
<1>2. CASE Cl(t).running
  <2>1. /\ client' = [client EXCEPT ![l][use].pending = @ \cup {t}]
        /\ rpc' = [rpc EXCEPT ![t].at = "aborting", ![t].use = use]
    BY <1>2 DEF SendAbort
  <2> HIDE DEF l, use
  <2>3. /\ rpc'[t].at = "aborting" /\ rpc'[t].of = rpc[t].of /\ rpc'[t].use = use
        /\ rpc'[t].again = rpc[t].again /\ \A y \in RpcCallers : y # t => rpc'[y] = rpc[y]
    <3>1. rpc'[t].again = rpc[t].again
      BY <1>1, <2>1, RpcTyped, AskedStays DEF RpcSteps
    <3> QED
      BY <1>1, <2>1, <3>1, RpcTyped, CallerAsks DEF RpcSteps
  <2>4. CallerMoves(t)
    BY <1>1, <2>3 DEF CallerMoves, Startup, Entering
  <2> QED
    BY <1>1, <2>1, <2>3, <2>4, AskingBounds DEF Asking
<1>3. CASE ~Cl(t).running
  <2>1. RpcGoes(t, "stop") /\ UNCHANGED client
    BY <1>3 DEF SendAbort
  <2>2. \A k \in RpcCallers : SessionMoves(k)
    BY <1>1 DEF SessionMoves
  <2> QED
    BY <1>1, <2>1, <2>2, LeavingBounds DEF Asking, Halts, RpcSteps, Entering
<1> QED
  BY <1>2, <1>3

LEMMA SendRequestBounds ==
  ASSUME RpcInv, RpcInv', RpcBounds, NEW x \in RpcCallers, SendRequest(x)
  PROVE  RpcBounds'
<1> DEFINE l == sessions
           use == live[l].use
<1>1. rpc[x].at = "handle" /\ x \notin RpcTurns /\ UNCHANGED <<live, deaths>>
  BY RpcAssumption DEF SendRequest, RpcAt
<1>2. CASE sessions # NoLive /\ client[sessions][live[sessions].use].running
  <2>1. /\ client' = [client EXCEPT ![l][use].pending = @ \cup {x}]
        /\ rpc' = [rpc EXCEPT ![x].at = "asked", ![x].of = l, ![x].use = use]
        /\ l \in RpcCallers /\ use \in ClientUses
    BY <1>2, RpcTyped DEF SendRequest, AnyLive
  <2> HIDE DEF l, use
  <2>2. /\ rpc'[x].at = "asked" /\ rpc'[x].use = use /\ rpc'[x].again = rpc[x].again
        /\ \A y \in RpcCallers : y # x => rpc'[y] = rpc[y]
    <3> DEFINE w == [rpc[x] EXCEPT !.at = "asked", !.of = l, !.use = use]
    <3>1. rpc' = [rpc EXCEPT ![x] = w]
      BY <2>1
    <3>2. w \in AnyProgress /\ w.at = "asked" /\ w.use = use /\ w.again = rpc[x].again
      BY <2>1, RpcTyped DEF AnyProgress, RpcSteps
    <3> HIDE DEF w
    <3> QED
      BY <3>1, <3>2, RpcTyped, CallerSteps
  <2>3. CallerMoves(x)
    BY <1>1, <2>2 DEF CallerMoves, Startup, Entering
  <2> QED
    BY <1>1, <2>1, <2>2, <2>3, AskingBounds DEF Asking
<1>3. CASE ~(sessions # NoLive /\ client[sessions][live[sessions].use].running)
  <2>1. RpcGoes(x, "failed") /\ UNCHANGED client
    BY <1>3 DEF SendRequest
  <2>2. \A k \in RpcCallers : SessionMoves(k)
    BY <1>1 DEF SessionMoves
  <2> QED
    BY <1>1, <2>1, <2>2, LeavingBounds DEF Asking, Halts, RpcSteps, Entering
<1> QED
  BY <1>2, <1>3

\* An idle event leaves what sessions use.
LEMMA IdleMoves ==
  ASSUME RpcInv, NEW l \in RpcCallers, AbortAdapter(l)
  PROVE  \A k \in RpcCallers : SessionMoves(k)
BY IdleShown DEF SessionMoves

LEMMA AbortBounds ==
  ASSUME RpcInv, RpcInv', RpcBounds, NEW a \in RpcCallers, AbortRpc(a)
  PROVE  RpcBounds'
<1>1. rpc[a].at = "new" /\ a \notin RpcTurns /\ UNCHANGED <<sessions, client, deaths>>
  BY RpcAssumption DEF AbortRpc, RpcAt
<1>2. CASE sessions = NoLive
  <2>1. RpcGoes(a, "answered") /\ UNCHANGED live
    BY <1>2 DEF AbortRpc
  <2>2. \A k \in RpcCallers : SessionMoves(k)
    BY <2>1 DEF SessionMoves
  <2> QED
    BY <1>1, <2>1, <2>2, LeavingBounds DEF Asking, Halts, RpcSteps, Entering
<1>3. CASE sessions # NoLive
  <2>1. /\ rpc' = [rpc EXCEPT ![a].at = "stop", ![a].of = sessions] /\ AbortAdapter(sessions)
        /\ sessions \in RpcCallers
    BY <1>3, RpcTyped DEF AbortRpc
  <2>2. /\ rpc'[a].at = "stop" /\ rpc'[a].again = rpc[a].again
        /\ \A y \in RpcCallers : y # a => rpc'[y] = rpc[y]
    <3> DEFINE w == [rpc[a] EXCEPT !.at = "stop", !.of = sessions]
    <3>1. rpc' = [rpc EXCEPT ![a] = w]
      BY <2>1
    <3>2. w \in AnyProgress /\ w.at = "stop" /\ w.again = rpc[a].again
      BY <2>1, RpcTyped DEF AnyProgress, RpcSteps
    <3> HIDE DEF w
    <3> QED
      BY <3>1, <3>2, RpcTyped, CallerSteps
  <2>3. \A y \in RpcCallers : CallerMoves(y)
    BY <1>1, <2>2 DEF CallerMoves, Startup, Entering
  <2>4. \A k \in RpcCallers : SessionMoves(k)
    BY <2>1, IdleMoves
  <2>5. \A l \in RpcCallers, u \in ClientUses : ClientMoves(l, u) /\ PendingMoves(l, u)
    BY <1>1, <2>2, ClientsRest DEF Asking
  <2> QED
    BY <1>1, <2>3, <2>4, <2>5, BoundsKept DEF RpcBounds
<1> QED
  BY <1>2, <1>3

LEMMA DeadlineBounds ==
  ASSUME RpcInv, RpcInv', RpcBounds, NEW t \in RpcCallers, DeadlineFires(t)
  PROVE  RpcBounds'
<1>1. /\ rpc[t].at = "waiting" /\ RpcGoes(t, "deadline") /\ AbortAdapter(rpc[t].of)
      /\ UNCHANGED <<client, deaths>> /\ rpc[t].of \in RpcCallers
  BY EngagedHas DEF DeadlineFires, RpcAt, Engaged
<1>2. \A k \in RpcCallers : SessionMoves(k)
  BY <1>1, IdleMoves
<1> QED
  BY <1>1, <1>2, LeavingBounds DEF Asking, Halts, RpcSteps, Entering

LEMMA StopEndsBounds ==
  ASSUME RpcInv, RpcInv', RpcBounds, NEW x \in RpcCallers, StopClientEnds(x)
  PROVE  RpcBounds'
<1>1. /\ rpc[x].at = "stopping" /\ UNCHANGED <<live, client, deaths>>
      /\ RpcGoes(x, IF x \in RpcTurns THEN "gaveup" ELSE "answered")
  BY DEF StopClientEnds, RpcAt
<1>2. \A k \in RpcCallers : SessionMoves(k)
  BY <1>1 DEF SessionMoves
<1> QED
  BY <1>1, <1>2, LeavingBounds DEF Asking, Halts, RpcSteps, Entering

-----------------------------------------------------------------------------
(* Steps that touch one client only *)

LEMMA OneClientMoves ==
  ASSUME RpcInv, RpcInv', RpcBounds, deaths' \in 0 .. MaxRpcDeaths,
         NEW l \in RpcCallers, NEW u \in ClientUses,
         \A x \in RpcCallers : CallerMoves(x) /\ SessionMoves(x),
         \A k \in RpcCallers, v \in ClientUses : PendingMoves(k, v),
         \A k \in RpcCallers, v \in ClientUses : (k = l /\ v = u) \/ ClientMoves(k, v),
         RoomIn(l, u)'
  PROVE  RpcBounds'
<1>1. AgainRetried' /\ RetriedUses'
  BY RetryKept DEF RpcBounds
<1>2. PendingFits'
  BY DEF RpcBounds, PendingFits, PendingMoves
<1>3. ASSUME NEW k \in RpcCallers, NEW v \in ClientUses PROVE RoomIn(k, v)'
  <2>1. CASE k = l /\ v = u
    BY <2>1
  <2>2. CASE ~(k = l /\ v = u)
    <3>1. \A t \in RpcTurns : MayPrompt(rpc'[t], k, v) => MayPrompt(rpc[t], k, v)
      BY FewerPrompters, RpcConstants DEF RpcBounds
    <3>2. Prompters(k, v)' \subseteq Prompters(k, v) /\ ClientMoves(k, v)
      BY <2>2, <3>1 DEF Prompters
    <3> QED
      BY <3>2, RoomKept DEF RpcBounds, Room
  <2> QED
    BY <2>1, <2>2
<1> QED
  BY <1>1, <1>2, <1>3 DEF RpcBounds, Room

\* A prompt is accepted: a turn that might prompt becomes work of the child.
LEMMA PromptTaken ==
  ASSUME RpcInv, RpcInv', NEW l \in RpcCallers, NEW u \in ClientUses, RoomIn(l, u),
         NEW t \in Prompters(l, u), Prompters(l, u)' \subseteq Prompters(l, u) \ {t},
         client'[l][u].work = client[l][u].work \cup {t},
         client'[l][u].spare <= client[l][u].spare
  PROVE  RoomIn(l, u)'
<1> DEFINE S == client[l][u].spare   W == client[l][u].work   J == Prompters(l, u)
           s == client'[l][u].spare  w == client'[l][u].work  j == Prompters(l, u)'
           all == Cardinality(RpcTurns)
<1>1. S \in Nat /\ s \in Nat
  BY DEF RpcInv, Shape, AnyClient
<1>2. W \subseteq RpcTurns /\ S + Cardinality(W) + Cardinality(J) <= all
  BY DEF RoomIn
<1>3. J \subseteq RpcTurns /\ t \in J /\ j \subseteq J \ {t} /\ w = W \cup {t} /\ s <= S
  BY DEF Prompters
<1>4. RoomIn(l, u)' <=> (w \subseteq RpcTurns /\ s + Cardinality(w) + Cardinality(j) <= all)
  BY DEF RoomIn
<1> HIDE DEF S, W, J, s, w, j
<1>5. /\ IsFiniteSet(J) /\ Cardinality(J) \in Nat /\ IsFiniteSet(W) /\ Cardinality(W) \in Nat
      /\ all \in Nat
  BY <1>2, <1>3, Counted
<1>6. w \subseteq RpcTurns /\ Cardinality(w) \in Nat
  BY <1>2, <1>3, Counted
<1>7. Cardinality(w) <= Cardinality(W) + 1
  <2>1. Cardinality(W \cup {t}) = IF t \in W THEN Cardinality(W) ELSE Cardinality(W) + 1
    BY <1>5, FS_AddElement
  <2> QED
    BY <1>3, <1>5, <2>1
<1>8. Cardinality(J \ {t}) = Cardinality(J) - 1 /\ J \ {t} \subseteq RpcTurns
  BY <1>3, <1>5, FS_RemoveElement
<1>9. Cardinality(j) <= Cardinality(J \ {t}) /\ Cardinality(j) \in Nat
  BY <1>3, <1>8, Counted
<1> HIDE DEF all
<1>10. s + Cardinality(w) + Cardinality(j) <= all
  BY <1>1, <1>2, <1>3, <1>5, <1>6, <1>7, <1>8, <1>9
<1> QED
  BY <1>4, <1>6, <1>10

\* The child settles a prompt: work becomes a settlement left over, at most.
LEMMA PromptSettled ==
  ASSUME RpcInv, RpcInv', NEW l \in RpcCallers, NEW u \in ClientUses, RoomIn(l, u),
         NEW t \in client[l][u].work, Prompters(l, u)' \subseteq Prompters(l, u),
         client'[l][u].work = client[l][u].work \ {t},
         client'[l][u].spare <= client[l][u].spare + 1
  PROVE  RoomIn(l, u)'
<1> DEFINE S == client[l][u].spare   W == client[l][u].work   J == Prompters(l, u)
           s == client'[l][u].spare  w == client'[l][u].work  j == Prompters(l, u)'
           all == Cardinality(RpcTurns)
<1>1. S \in Nat /\ s \in Nat
  BY DEF RpcInv, Shape, AnyClient
<1>2. W \subseteq RpcTurns /\ S + Cardinality(W) + Cardinality(J) <= all
  BY DEF RoomIn
<1>3. J \subseteq RpcTurns /\ j \subseteq J /\ t \in W /\ w = W \ {t} /\ s <= S + 1
  BY DEF Prompters
<1>4. RoomIn(l, u)' <=> (w \subseteq RpcTurns /\ s + Cardinality(w) + Cardinality(j) <= all)
  BY DEF RoomIn
<1> HIDE DEF S, W, J, s, w, j
<1>5. /\ IsFiniteSet(W) /\ Cardinality(W) \in Nat /\ Cardinality(J) \in Nat /\ all \in Nat
      /\ Cardinality(j) \in Nat /\ Cardinality(j) <= Cardinality(J)
  BY <1>2, <1>3, Counted
<1>6. Cardinality(w) = Cardinality(W) - 1 /\ w \subseteq RpcTurns
  BY <1>2, <1>3, <1>5, FS_RemoveElement
<1> HIDE DEF all
<1>7. s + Cardinality(w) + Cardinality(j) <= all
  BY <1>1, <1>2, <1>3, <1>5, <1>6
<1> QED
  BY <1>4, <1>6, <1>7

LEMMA RefusesBounds ==
  ASSUME RpcInv, RpcInv', RpcBounds, NEW l \in RpcCallers, NEW u \in ClientUses,
         NEW t \in RpcCallers, ChildRefuses(l, u, t)
  PROVE  RpcBounds'
<1> DEFINE step == IF rpc[t].again THEN "failed" ELSE "swallowed"
<1>1. /\ t \in client[l][u].pending /\ rpc[t].at = "asked" /\ RpcGoes(t, step)
      /\ client' = [client EXCEPT ![l][u].pending = @ \ {t}] /\ UNCHANGED <<live, deaths>>
      /\ rpc[t].of = l /\ rpc[t].use = u
  BY DEF ChildRefuses, RpcInv, WaitersUseIt, RpcBounds, PendingFits
<1>2. step \in {"failed", "swallowed"}
  OBVIOUS
<1> HIDE DEF step
<1>3. /\ rpc'[t].at = step /\ rpc'[t].of = rpc[t].of /\ rpc'[t].again = rpc[t].again
      /\ \A y \in RpcCallers : y # t => rpc'[y] = rpc[y]
  BY <1>1, <1>2, RpcTyped, CallerGoes DEF RpcSteps
<1>4. \A y \in RpcCallers : CallerMoves(y) /\ SessionMoves(y)
  BY <1>1, <1>2, <1>3 DEF CallerMoves, SessionMoves, Entering, Startup
<1>5. \A k \in RpcCallers, v \in ClientUses : ClientMoves(k, v) /\ PendingMoves(k, v)
  BY <1>1, <1>3, LeftMoves
<1> QED
  BY <1>1, <1>4, <1>5, BoundsKept DEF RpcBounds

LEMMA AnswersBounds ==
  ASSUME RpcInv, RpcInv', RpcBounds, NEW l \in RpcCallers, NEW u \in ClientUses,
         NEW x \in RpcCallers, ChildAnswers(l, u, x)
  PROVE  RpcBounds'
<1> DEFINE c == client[l][u]
<1>1. /\ x \in c.pending /\ rpc[x].at # "probing" /\ UNCHANGED <<live, deaths>>
      /\ c \in AnyClient /\ client \in AllClients
      /\ rpc[x].of = l /\ rpc[x].use = u
  BY RpcTyped DEF ChildAnswers, AllClients, RpcInv, WaitersUseIt, RpcBounds, PendingFits
<1>2. ASSUME rpc[x].at = "asked", x \in RpcTurns, NEW step \in {"waiting", "early"},
             RpcGoes(x, step), NEW d \in AnyClient, client' = [client EXCEPT ![l][u] = d],
             d.pending = c.pending \ {x}, d.work = c.work \cup {x}, d.spare <= c.spare
      PROVE  RpcBounds'
  <2>1. /\ client'[l][u] = d
        /\ \A k \in RpcCallers, v \in ClientUses : (k = l /\ v = u) \/ client'[k][v] = client[k][v]
    <3>1. client \in AllClients /\ client' = [client EXCEPT ![l] = [client[l] EXCEPT ![u] = d]]
      BY <1>1, <1>2
    <3> DEFINE clients == [client[l] EXCEPT ![u] = d]
    <3>2. clients[u] = d /\ \A v \in ClientUses : v # u => clients[v] = client[l][v]
      BY <3>1 DEF AllClients
    <3>3. client' = [client EXCEPT ![l] = clients]
      BY <3>1
    <3> HIDE DEF clients
    <3>4. client'[l] = clients /\ \A k \in RpcCallers : k # l => client'[k] = client[k]
      BY <3>1, <3>3 DEF AllClients
    <3> QED
      BY <3>2, <3>4
  <2>2. /\ rpc'[x].at = step /\ rpc'[x].of = rpc[x].of /\ rpc'[x].again = rpc[x].again
        /\ \A y \in RpcCallers : y # x => rpc'[y] = rpc[y]
    BY <1>2, RpcTyped, CallerGoes DEF RpcSteps
  <2>3. \A y \in RpcCallers : CallerMoves(y) /\ SessionMoves(y)
    BY <1>1, <1>2, <2>2 DEF CallerMoves, SessionMoves, Entering, Startup
  <2>4. ASSUME NEW k \in RpcCallers, NEW v \in ClientUses PROVE PendingMoves(k, v)
    <3> SUFFICES ASSUME NEW y \in client'[k][v].pending
                 PROVE  y \in client[k][v].pending /\ rpc'[y] = rpc[y]
      BY DEF PendingMoves
    <3>1. y \in client[k][v].pending /\ (k = l /\ v = u => y # x)
      BY <1>2, <2>1
    <3>2. y \in RpcCallers /\ rpc[y].of = k /\ rpc[y].use = v
      BY <3>1, RpcTyped
         DEF AllClients, AnyClient, RpcInv, WaitersUseIt, RpcBounds, PendingFits
    <3> QED
      BY <1>1, <2>2, <3>1, <3>2
  <2>5. \A k \in RpcCallers, v \in ClientUses : (k = l /\ v = u) \/ ClientMoves(k, v)
    <3>1. \A k \in RpcCallers, v \in ClientUses : client[k][v].spare \in Nat
      BY DEF RpcInv, Shape, AnyClient
    <3> QED
      BY <2>1, <3>1 DEF ClientMoves
  <2>6. RoomIn(l, u)'
    <3>1. x \in Prompters(l, u)
      BY <1>1, <1>2 DEF Prompters, MayPrompt
    <3>2. \A t \in RpcTurns : MayPrompt(rpc'[t], l, u) => MayPrompt(rpc[t], l, u)
      BY <2>3, FewerPrompters, RpcConstants DEF RpcBounds
    <3>3. ~MayPrompt(rpc'[x], l, u)
      BY <1>2, <2>2 DEF MayPrompt, Entering
    <3>4. Prompters(l, u)' \subseteq Prompters(l, u) \ {x}
      BY <3>2, <3>3 DEF Prompters
    <3> QED
      BY <1>2, <2>1, <3>1, <3>4, PromptTaken DEF RpcBounds, Room
  <2> QED
    BY <1>1, <2>3, <2>4, <2>5, <2>6, OneClientMoves DEF RpcBounds
<1>3. CASE rpc[x].at = "asked" /\ x \in RpcTurns /\ c.spare = 0
  <2> DEFINE d == [c EXCEPT !.pending = @ \ {x}, !.waiters = @ \cup {x}, !.work = @ \cup {x}]
  <2>1. RpcGoes(x, "waiting") /\ client' = [client EXCEPT ![l][u] = d]
    BY <1>3 DEF ChildAnswers
  <2>2. d \in AnyClient /\ d.pending = c.pending \ {x} /\ d.work = c.work \cup {x} /\ d.spare <= c.spare
    <3> HIDE DEF c
    <3>1. d \in AnyClient
      BY <1>1 DEF AnyClient
    <3>2. d.pending = c.pending \ {x} /\ d.work = c.work \cup {x} /\ d.spare = c.spare
      BY <1>1 DEF AnyClient
    <3>3. c.spare <= c.spare
      BY <1>1 DEF AnyClient
    <3> QED
      BY <3>1, <3>2, <3>3
  <2> HIDE DEF d
  <2> QED
    BY <1>2, <1>3, <2>1, <2>2
<1>4. CASE rpc[x].at = "asked" /\ x \in RpcTurns /\ c.spare # 0
  <2> DEFINE d == [c EXCEPT !.pending = @ \ {x}, !.spare = @ - 1, !.work = @ \cup {x}]
  <2>1. c.spare \in Nat /\ c.spare > 0
    BY <1>1, <1>4 DEF AnyClient
  <2>2. RpcGoes(x, "early") /\ client' = [client EXCEPT ![l][u] = d]
    BY <1>4, <2>1 DEF ChildAnswers
  <2>3. d \in AnyClient /\ d.pending = c.pending \ {x} /\ d.work = c.work \cup {x} /\ d.spare <= c.spare
    <3> HIDE DEF c
    <3>1. c.spare - 1 \in Nat
      BY <2>1
    <3>2. d \in AnyClient
      BY <1>1, <3>1 DEF AnyClient
    <3>3. d.pending = c.pending \ {x} /\ d.work = c.work \cup {x} /\ d.spare = c.spare - 1
      BY <1>1 DEF AnyClient
    <3>4. c.spare - 1 <= c.spare
      BY <2>1
    <3> QED
      BY <3>2, <3>3, <3>4
  <2> HIDE DEF d
  <2> QED
    BY <1>2, <1>4, <2>2, <2>3
<1>5. CASE ~(rpc[x].at = "asked" /\ x \in RpcTurns)
  <2> DEFINE step == IF rpc[x].at = "aborting" THEN "stop" ELSE "answered"
  <2>1. RpcGoes(x, step) /\ client' = [client EXCEPT ![l][u].pending = @ \ {x}]
    BY <1>5 DEF ChildAnswers
  <2>2. step \in {"stop", "answered"}
    OBVIOUS
  <2> HIDE DEF step, c
  <2>3. /\ rpc'[x].at = step /\ rpc'[x].of = rpc[x].of /\ rpc'[x].again = rpc[x].again
        /\ \A y \in RpcCallers : y # x => rpc'[y] = rpc[y]
    BY <2>1, <2>2, RpcTyped, CallerGoes DEF RpcSteps
  <2>4. \A y \in RpcCallers : CallerMoves(y) /\ SessionMoves(y)
    BY <1>1, <2>2, <2>3 DEF CallerMoves, SessionMoves, Entering, Startup
  <2>5. \A k \in RpcCallers, v \in ClientUses : ClientMoves(k, v) /\ PendingMoves(k, v)
    BY <1>1, <2>1, <2>3, LeftMoves
  <2> QED
    BY <1>1, <2>4, <2>5, BoundsKept DEF RpcBounds
<1> QED
  BY <1>3, <1>4, <1>5

LEMMA SettlesBounds ==
  ASSUME RpcInv, RpcInv', RpcBounds, NEW l \in RpcCallers, NEW u \in ClientUses,
         NEW t \in RpcCallers, ChildSettles(l, u, t)
  PROVE  RpcBounds'
<1> DEFINE c == client[l][u]
           more == IF c.waiters = {} THEN c.spare + 1 ELSE c.spare
           d == [c EXCEPT !.waiters = {}, !.work = @ \ {t}, !.spare = more]
<1>1. /\ c \in AnyClient /\ t \in c.work /\ deaths' = deaths
      /\ rpc' = [x \in RpcCallers |-> IF x \in c.waiters /\ rpc[x].at = "waiting"
                                      THEN [rpc[x] EXCEPT !.at = "settled"] ELSE rpc[x]]
      /\ client' = [client EXCEPT ![l] = [client[l] EXCEPT ![u] = d]]
  BY RpcTyped DEF ChildSettles, AllClients
<1>2. \A k \in RpcCallers : SessionMoves(k)
  <2>1. CASE live[l].adapting
    <3>1. AbortAdapter(l)
      BY <2>1 DEF ChildSettles
    <3> QED
      BY <3>1, IdleMoves
  <2>2. CASE ~live[l].adapting
    BY <2>2 DEF ChildSettles, SessionMoves
  <2> QED
    BY <2>1, <2>2
<1>3. d.pending = c.pending /\ d.work = c.work \ {t} /\ d.spare <= c.spare + 1
  <2>1. c \in AnyClient
    BY <1>1
  <2> HIDE DEF c
  <2>2. more <= c.spare + 1
    BY <2>1 DEF AnyClient
  <2> HIDE DEF more
  <2>3. d.pending = c.pending /\ d.work = c.work \ {t} /\ d.spare = more
    BY <2>1 DEF AnyClient
  <2> QED
    BY <2>2, <2>3
<1> HIDE DEF d, more
<1>4. /\ client'[l][u] = d
      /\ \A k \in RpcCallers, v \in ClientUses : (k = l /\ v = u) \/ client'[k][v] = client[k][v]
  <2> DEFINE clients == [client[l] EXCEPT ![u] = d]
  <2>1. clients[u] = d /\ \A v \in ClientUses : v # u => clients[v] = client[l][v]
    BY RpcTyped DEF AllClients
  <2>2. client' = [client EXCEPT ![l] = clients]
    BY <1>1
  <2> HIDE DEF clients
  <2>3. client'[l] = clients /\ \A k \in RpcCallers : k # l => client'[k] = client[k]
    BY <2>2, RpcTyped DEF AllClients
  <2> QED
    BY <2>1, <2>3
<1>5. \A y \in RpcCallers :
        \/ rpc'[y] = rpc[y]
        \/ /\ rpc[y].at = "waiting" /\ rpc'[y].at = "settled"
           /\ rpc'[y].of = rpc[y].of /\ rpc'[y].again = rpc[y].again
  <2>1. \A y \in RpcCallers : rpc[y] \in AnyProgress
    BY RpcTyped
  <2>2. \A y \in RpcCallers : /\ [rpc[y] EXCEPT !.at = "settled"].at = "settled"
                              /\ [rpc[y] EXCEPT !.at = "settled"].of = rpc[y].of
                              /\ [rpc[y] EXCEPT !.at = "settled"].again = rpc[y].again
    BY <2>1 DEF AnyProgress
  <2>3. \A y \in RpcCallers :
          rpc'[y] = IF y \in c.waiters /\ rpc[y].at = "waiting"
                    THEN [rpc[y] EXCEPT !.at = "settled"] ELSE rpc[y]
    BY <1>1
  <2> HIDE DEF c
  <2> QED
    BY <2>2, <2>3
<1>6. \A y \in RpcCallers : CallerMoves(y)
  BY <1>5 DEF CallerMoves, Entering, Startup
<1>7. ASSUME NEW k \in RpcCallers, NEW v \in ClientUses PROVE PendingMoves(k, v)
  <2> SUFFICES ASSUME NEW y \in client'[k][v].pending
               PROVE  y \in client[k][v].pending /\ rpc'[y] = rpc[y]
    BY DEF PendingMoves
  <2>1. y \in client[k][v].pending
    BY <1>3, <1>4
  <2>2. y \in RpcCallers /\ rpc[y].at \in Asking
    BY <2>1, RpcTyped DEF AllClients, AnyClient, RpcBounds, PendingFits
  <2> QED
    BY <1>5, <2>1, <2>2 DEF Asking
<1>8. \A k \in RpcCallers, v \in ClientUses : (k = l /\ v = u) \/ ClientMoves(k, v)
  <2>1. \A k \in RpcCallers, v \in ClientUses : client[k][v].spare \in Nat
    BY DEF RpcInv, Shape, AnyClient
  <2> QED
    BY <1>4, <2>1 DEF ClientMoves
<1>9. RoomIn(l, u)'
  <2>1. \A x \in RpcTurns : MayPrompt(rpc'[x], l, u) => MayPrompt(rpc[x], l, u)
    BY <1>6, FewerPrompters, RpcConstants DEF RpcBounds
  <2>2. Prompters(l, u)' \subseteq Prompters(l, u)
    BY <2>1 DEF Prompters
  <2> QED
    BY <1>1, <1>3, <1>4, <2>2, PromptSettled DEF RpcBounds, Room
<1> QED
  BY <1>1, <1>2, <1>6, <1>7, <1>8, <1>9, OneClientMoves DEF RpcBounds

LEMMA ExitBounds ==
  ASSUME RpcInv, RpcInv', RpcBounds, deaths' \in 0 .. MaxRpcDeaths,
         NEW l \in RpcCallers, NEW u \in ClientUses, ChildExits(l, u)
  PROVE  RpcBounds'
<1> DEFINE c == [NoClient EXCEPT !.spare = client[l][u].spare]
<1>1. /\ client' = [client EXCEPT ![l] = [client[l] EXCEPT ![u] = c]] /\ rpc' = AfterExit(l, u)
      /\ UNCHANGED <<sessions, live, idled>>
  BY RpcTyped DEF ChildExits, AllClients
<1>2. c.pending = {} /\ c.work = {} /\ c.spare = client[l][u].spare
  BY DEF NoClient
<1> HIDE DEF c
<1>3. /\ client'[l][u] = c
      /\ \A k \in RpcCallers, v \in ClientUses : (k = l /\ v = u) \/ client'[k][v] = client[k][v]
  <2> DEFINE clients == [client[l] EXCEPT ![u] = c]
  <2>1. clients[u] = c /\ \A v \in ClientUses : v # u => clients[v] = client[l][v]
    BY RpcTyped DEF AllClients
  <2>2. client' = [client EXCEPT ![l] = clients]
    BY <1>1
  <2> HIDE DEF clients
  <2>3. client'[l] = clients /\ \A k \in RpcCallers : k # l => client'[k] = client[k]
    BY <2>2, RpcTyped DEF AllClients
  <2> QED
    BY <2>1, <2>3
<1>4. \A y \in RpcCallers :
        /\ rpc'[y].of = rpc[y].of /\ rpc'[y].again = rpc[y].again
        /\ \/ rpc'[y] = rpc[y]
           \/ /\ y \in RejectedBy(l, u)
              /\ \/ rpc'[y].at \in {"dead", "stop", "failed"}
                 \/ rpc[y].at = "probing" /\ rpc'[y].at = "starting"
  BY <1>1, Bereft
<1>5. \A y \in RpcCallers : CallerMoves(y) /\ SessionMoves(y)
  BY <1>1, <1>4 DEF CallerMoves, SessionMoves, Entering, Startup
<1>6. ASSUME NEW k \in RpcCallers, NEW v \in ClientUses
      PROVE  ClientMoves(k, v) /\ PendingMoves(k, v)
  <2>1. client[k][v].spare \in Nat
    BY DEF RpcInv, Shape, AnyClient
  <2>2. CASE k = l /\ v = u
    BY <1>2, <1>3, <2>1, <2>2 DEF ClientMoves, PendingMoves
  <2>3. CASE ~(k = l /\ v = u)
    <3>1. client'[k][v] = client[k][v]
      BY <1>3, <2>3
    <3>2. ASSUME NEW y \in client[k][v].pending PROVE rpc'[y] = rpc[y]
      <4>1. y \in RpcCallers /\ rpc[y].of = k /\ rpc[y].use = v
        BY RpcTyped DEF AllClients, AnyClient, RpcInv, WaitersUseIt, RpcBounds, PendingFits
      <4>2. y \in RejectedBy(l, u) => rpc[y].of = l /\ rpc[y].use = u
        BY DEF RejectedBy, RpcInv, WaitersUseIt
      <4> QED
        BY <1>4, <2>3, <4>1, <4>2
    <3> QED
      BY <2>1, <3>1, <3>2 DEF ClientMoves, PendingMoves
  <2> QED
    BY <2>2, <2>3
<1> QED
  BY <1>5, <1>6, BoundsKept

LEMMA StopBounds ==
  ASSUME RpcInv, RpcInv', RpcBounds, NEW x \in RpcCallers, StopClient(x)
  PROVE  RpcBounds'
<1> DEFINE l == rpc[x].of
           u == live[l].use
<1>1. rpc[x].at = "stop" /\ UNCHANGED <<live, idled, deaths>> /\ rpc[x].of = l
  BY DEF StopClient, RpcAt
<1>2. l \in RpcCallers /\ u \in ClientUses
  BY <1>1, EngagedHas DEF Engaged
<1>3. \A k \in RpcCallers : SessionMoves(k)
  BY <1>1 DEF SessionMoves
<1>4. CASE ~client[l][u].running
  <2>1. RpcGoes(x, IF x \in RpcTurns THEN "gaveup" ELSE "answered") /\ UNCHANGED client
    BY <1>4 DEF StopClient
  <2> QED
    BY <1>1, <1>3, <2>1, LeavingBounds DEF Asking, Halts, RpcSteps, Entering
<1>5. CASE client[l][u].running
  <2>1. /\ rpc' = [AfterStop(l, u) EXCEPT ![x].at = "stopping", ![x].use = u]
        /\ client' = [client EXCEPT ![l][u].pending = {}, ![l][u].waiters = {}]
    BY <1>5 DEF StopClient
  <2> HIDE DEF l, u
  <2>2. AfterStop(l, u)[x] = rpc[x]
    BY <1>1, <1>2, Rejected
  <2>3. /\ rpc'[x].at = "stopping" /\ rpc'[x].of = rpc[x].of /\ rpc'[x].again = rpc[x].again
        /\ \A y \in RpcCallers : y # x => rpc'[y] = AfterStop(l, u)[y]
    <3> DEFINE w == [rpc[x] EXCEPT !.at = "stopping", !.use = u]
               after == AfterStop(l, u)
    <3>1. rpc' = [after EXCEPT ![x] = w]
      BY <2>1, <2>2
    <3>2. w.at = "stopping" /\ w.of = rpc[x].of /\ w.again = rpc[x].again
      BY <1>2, RpcTyped DEF AnyProgress
    <3>3. DOMAIN after = RpcCallers
      BY DEF AfterStop
    <3>4. after = [y \in RpcCallers |-> after[y]]
      BY DEF AfterStop
    <3> HIDE DEF w, after
    <3>5. rpc'[x] = w /\ \A y \in RpcCallers : y # x => rpc'[y] = after[y]
      BY <3>1, <3>3, <3>4
    <3> QED
      BY <3>2, <3>5 DEF after
  <2>4. /\ client'[l][u].pending = {}
        /\ client'[l][u].spare = client[l][u].spare /\ client'[l][u].work = client[l][u].work
        /\ \A k \in RpcCallers, v \in ClientUses : (k = l /\ v = u) \/ client'[k][v] = client[k][v]
    <3> DEFINE c == [client[l][u] EXCEPT !.pending = {}, !.waiters = {}]
               clients == [client[l] EXCEPT ![u] = c]
    <3>1. client' = [client EXCEPT ![l] = clients]
      BY <1>2, <2>1, RpcTyped DEF AllClients
    <3>2. client[l] \in [ClientUses -> AnyClient] /\ client[l][u] \in AnyClient
      BY <1>2, RpcTyped DEF AllClients
    <3>3. c.pending = {} /\ c.spare = client[l][u].spare /\ c.work = client[l][u].work
      BY <3>2 DEF AnyClient
    <3> HIDE DEF c
    <3>4. clients[u] = c /\ \A v \in ClientUses : v # u => clients[v] = client[l][v]
      BY <1>2, <3>2
    <3> HIDE DEF clients
    <3>5. client'[l] = clients /\ \A k \in RpcCallers : k # l => client'[k] = client[k]
      BY <1>2, <3>1, RpcTyped DEF AllClients
    <3> QED
      BY <3>3, <3>4, <3>5
  <2>5. \A y \in RpcCallers :
          /\ rpc'[y].of = rpc[y].of /\ rpc'[y].again = rpc[y].again
          /\ \/ rpc'[y] = rpc[y]
             \/ y = x /\ rpc'[y].at = "stopping"
             \/ y \in RejectedBy(l, u) /\ rpc'[y].at \in {"swallowed", "failed", "stop"}
    <3>1. \A y \in RpcCallers : y \notin RejectedBy(l, u) => AfterStop(l, u)[y] = rpc[y]
      BY DEF AfterStop
    <3> QED
      BY <1>2, <2>3, <3>1, Rejected
  <2>6. \A y \in RpcCallers : CallerMoves(y)
    BY <1>1, <2>5 DEF CallerMoves, Entering, Startup
  <2>7. ASSUME NEW k \in RpcCallers, NEW v \in ClientUses
        PROVE  ClientMoves(k, v) /\ PendingMoves(k, v)
    <3>1. client[k][v].spare \in Nat /\ client[l][u].spare \in Nat
      BY <1>2 DEF RpcInv, Shape, AnyClient
    <3>2. CASE k = l /\ v = u
      BY <2>4, <3>1, <3>2 DEF ClientMoves, PendingMoves
    <3>3. CASE ~(k = l /\ v = u)
      <4>1. client'[k][v] = client[k][v]
        BY <2>4, <3>3
      <4>2. ASSUME NEW y \in client[k][v].pending PROVE rpc'[y] = rpc[y]
        <5>1. y \in RpcCallers /\ rpc[y].of = k /\ rpc[y].use = v /\ rpc[y].at \in Asking
          BY RpcTyped DEF AllClients, AnyClient, RpcInv, WaitersUseIt, RpcBounds, PendingFits
        <5>2. y \in RejectedBy(l, u) => rpc[y].of = l /\ rpc[y].use = u
          BY <1>2 DEF RejectedBy, RpcInv, WaitersUseIt
        <5> QED
          BY <1>1, <2>5, <3>3, <5>1, <5>2 DEF Asking
      <4> QED
        BY <3>1, <4>1, <4>2 DEF ClientMoves, PendingMoves
    <3> QED
      BY <3>2, <3>3
  <2> QED
    BY <1>1, <1>3, <2>6, <2>7, BoundsKept DEF RpcBounds
<1> QED
  BY <1>4, <1>5

LEMMA RecoverBounds ==
  ASSUME RpcInv, RpcInv', RpcBounds, NEW t \in RpcCallers, RecoverTransport(t)
  PROVE  RpcBounds'
<1> DEFINE l == rpc[t].of
<1>1. rpc[t].at = "dead" /\ t \in RpcTurns /\ deaths' = deaths
  BY DEF RecoverTransport, RpcAt, RpcInv, Children, OnlyTurnsDie
<1>2. l \in RpcCallers /\ Started(l)
  BY <1>1, EngagedHas DEF Engaged
<1>3. CASE live[l].retried
  <2>1. RpcGoes(t, "stop") /\ AbortAdapter(l) /\ UNCHANGED client
    BY <1>3 DEF RecoverTransport
  <2>2. \A k \in RpcCallers : SessionMoves(k)
    BY <1>2, <2>1, IdleMoves
  <2> QED
    BY <1>1, <2>1, <2>2, LeavingBounds DEF Asking, Halts, RpcSteps, Entering
<1>4. CASE ~live[l].retried
  <2>1. /\ live' = [live EXCEPT ![l].retried = TRUE, ![l].use = "retry"]
        /\ client' = [client EXCEPT ![l]["retry"] = NewClient]
        /\ rpc' = [rpc EXCEPT ![t].at = "begun", ![t].again = TRUE]
    BY <1>4 DEF RecoverTransport
  <2>2. rpc[t].of = l
    OBVIOUS
  <2> HIDE DEF l
  <2>3. /\ rpc'[t].at = "begun" /\ rpc'[t].of = l /\ rpc'[t].again
        /\ \A y \in RpcCallers : y # t => rpc'[y] = rpc[y]
    <3> DEFINE w == [rpc[t] EXCEPT !.at = "begun", !.again = TRUE]
    <3>1. rpc' = [rpc EXCEPT ![t] = w]
      BY <2>1
    <3>2. w.at = "begun" /\ w.of = l /\ w.again /\ w \in AnyProgress
      BY <2>2, RpcTyped DEF AnyProgress, RpcSteps
    <3> HIDE DEF w
    <3> QED
      BY <3>1, <3>2, RpcTyped, CallerSteps
  <2>4. /\ live'[l].retried /\ live'[l].use = "retry"
        /\ \A k \in RpcCallers : k # l => live'[k] = live[k]
    <3> DEFINE w == [live[l] EXCEPT !.retried = TRUE, !.use = "retry"]
    <3>1. live' = [live EXCEPT ![l] = w]
      BY <2>1
    <3>2. w.retried /\ w.use = "retry"
      BY <1>2, RpcTyped DEF AnyLive
    <3> HIDE DEF w
    <3> QED
      BY <1>2, <3>1, <3>2, RpcTyped
  <2>5. /\ client'[l]["retry"] = NewClient
        /\ \A k \in RpcCallers, v \in ClientUses :
             (k = l /\ v = "retry") \/ client'[k][v] = client[k][v]
    BY <1>2, <2>1, RpcTyped, ClientsTyped DEF AllClients, ClientUses
  <2>6. NewClient.pending = {} /\ NewClient.spare = 0 /\ NewClient.work = {}
    BY DEF NewClient, NoClient
  <2>7. AgainRetried'
    <3> SUFFICES ASSUME NEW x \in RpcCallers, rpc'[x].again
                 PROVE  /\ x \in RpcTurns /\ rpc'[x].at # "new"
                        /\ rpc'[x].of \in RpcCallers /\ live'[rpc'[x].of].retried
      BY DEF AgainRetried
    <3>1. CASE x = t
      BY <1>1, <1>2, <2>3, <2>4, <3>1
    <3>2. CASE x # t
      BY <2>3, <2>4, <3>2 DEF RpcBounds, AgainRetried
    <3> QED
      BY <3>1, <3>2
  <2>8. RetriedUses'
    <3> SUFFICES ASSUME NEW k \in RpcCallers, live'[k].retried
                 PROVE  live'[k].use = "retry" /\ rpc'[k].at \notin Startup
      BY DEF RetriedUses
    <3>1. rpc[k].at \notin Startup => rpc'[k].at \notin Startup
      BY <2>3 DEF Startup
    <3>2. CASE k = l
      BY <1>2, <2>4, <3>1, <3>2 DEF Started
    <3>3. CASE k # l
      BY <2>4, <3>1, <3>3 DEF RpcBounds, RetriedUses
    <3> QED
      BY <3>2, <3>3
  <2>9. PendingFits'
    <3> SUFFICES ASSUME NEW k \in RpcCallers, NEW v \in ClientUses,
                        NEW y \in client'[k][v].pending
                 PROVE  rpc'[y].at \in Asking /\ rpc'[y].use = v
      BY DEF PendingFits
    <3>1. y \in client[k][v].pending
      BY <2>5, <2>6
    <3>2. y \in RpcCallers /\ rpc[y].at \in Asking /\ rpc[y].use = v
      BY <3>1, RpcTyped DEF AllClients, AnyClient, RpcBounds, PendingFits
    <3> QED
      BY <1>1, <2>3, <3>2 DEF Asking
  <2>10. ASSUME NEW k \in RpcCallers, NEW v \in ClientUses PROVE RoomIn(k, v)'
    <3>1. CASE k = l /\ v = "retry"
      <4> DEFINE j == Prompters(k, v)'
      <4>1. j \subseteq RpcTurns
        BY DEF Prompters
      <4> HIDE DEF j
      <4>2. /\ Cardinality(j) <= Cardinality(RpcTurns) /\ Cardinality(j) \in Nat
            /\ Cardinality(RpcTurns) \in Nat
        BY <4>1, Counted
      <4>3. client'[k][v].work = {} /\ client'[k][v].spare = 0
        BY <2>5, <2>6, <3>1
      <4>4. 0 + 0 + Cardinality(j) <= Cardinality(RpcTurns)
        BY <4>2
      <4> QED
        BY <4>3, <4>4, FS_EmptySet DEF RoomIn, j
    <3>2. CASE ~(k = l /\ v = "retry")
      <4>1. client'[k][v] = client[k][v] /\ client[k][v].spare \in Nat
        BY <2>5, <3>2 DEF RpcInv, Shape, AnyClient
      <4>2. ~MayPrompt(rpc'[t], k, v)
        BY <2>3, <3>2 DEF MayPrompt, Entering
      <4>3. Prompters(k, v)' \subseteq Prompters(k, v)
        BY <2>3, <4>2, RpcConstants DEF Prompters
      <4> QED
        BY <4>1, <4>3, RoomKept DEF RpcBounds, Room, ClientMoves
    <3> QED
      BY <3>1, <3>2
  <2> QED
    BY <1>1, <2>7, <2>8, <2>9, <2>10 DEF RpcBounds, Room
<1> QED
  BY <1>3, <1>4

-----------------------------------------------------------------------------
LEMMA BoundsInitially == ASSUME RpcInit PROVE RpcBounds
<1>1. PICK cast \in RpcCasts : RpcStartsWith(cast)
  BY DEF RpcInit
<1>2. /\ live = [x \in RpcCallers |-> [use |-> "first", adapting |-> FALSE, retried |-> FALSE]]
      /\ client = [x \in RpcCallers |-> [u \in ClientUses |-> NoClient]]
      /\ rpc = [x \in RpcCallers |-> [at |-> IF x \in cast THEN "new" ELSE "failed",
                                      of |-> NoLive, use |-> "first", again |-> FALSE]]
      /\ deaths = 0
  BY <1>1 DEF RpcStartsWith
<1>3. /\ \A x \in RpcCallers : ~rpc[x].again /\ ~live[x].retried
      /\ \A x \in RpcCallers, u \in ClientUses :
           client[x][u].pending = {} /\ client[x][u].spare = 0 /\ client[x][u].work = {}
  BY <1>2 DEF NoClient
<1>4. ASSUME NEW l \in RpcCallers, NEW u \in ClientUses PROVE RoomIn(l, u)
  <2> DEFINE j == Prompters(l, u)
  <2>1. j \subseteq RpcTurns
    BY DEF Prompters
  <2> HIDE DEF j
  <2>2. /\ Cardinality(j) <= Cardinality(RpcTurns) /\ Cardinality(j) \in Nat
        /\ Cardinality(RpcTurns) \in Nat
    BY <2>1, Counted
  <2>3. 0 + 0 + Cardinality(j) <= Cardinality(RpcTurns)
    BY <2>2
  <2> QED
    BY <1>3, <2>3, FS_EmptySet DEF RoomIn, j
<1>5. deaths \in 0 .. MaxRpcDeaths
  BY <1>2, RpcAssumption
<1>6. AgainRetried /\ RetriedUses /\ PendingFits
  BY <1>3 DEF AgainRetried, RetriedUses, PendingFits
<1> QED
  BY <1>4, <1>5, <1>6 DEF RpcBounds, Room

LEMMA BoundsStep == ASSUME RpcInv, RpcInv', RpcBounds, [RpcNext]_rpcVars PROVE RpcBounds'
<1>1. ASSUME NEW x \in RpcCallers,
             \/ GetSession(x) \/ AbortRpc(x) \/ RegisterSession(x) \/ ProbeTimesOut(x)
             \/ DeadlineFires(x)
      PROVE  RpcBounds'
  BY <1>1, GetBounds, AbortBounds, RegisterBounds, ProbeLateBounds, DeadlineBounds
<1>2. ASSUME NEW x \in RpcCallers, RpcStep(x) PROVE RpcBounds'
  BY <1>2, StartBounds, BeginBounds, PromptBounds, SendAbortBounds, RecoverBounds,
     SendRequestBounds, StopBounds, StopEndsBounds DEF RpcStep
<1>3. ASSUME NEW l \in RpcCallers, NEW u \in ClientUses, ChildKilled(l, u) \/ ChildDies(l, u)
      PROVE  RpcBounds'
  <2>1. ChildExits(l, u)
    BY <1>3 DEF ChildKilled, ChildDies
  <2>2. deaths' \in 0 .. MaxRpcDeaths
    <3>1. deaths \in 0 .. MaxRpcDeaths /\ MaxRpcDeaths \in Nat
      BY RpcAssumption DEF RpcBounds
    <3>2. deaths' = deaths \/ (deaths < MaxRpcDeaths /\ deaths' = deaths + 1)
      BY <1>3 DEF ChildKilled, ChildDies
    <3> QED
      BY <3>1, <3>2
  <2> QED
    BY <2>1, <2>2, ExitBounds
<1>4. ASSUME NEW l \in RpcCallers, NEW u \in ClientUses, NEW x \in RpcCallers,
             ChildAnswers(l, u, x) \/ ChildRefuses(l, u, x) \/ ChildSettles(l, u, x)
      PROVE  RpcBounds'
  BY <1>4, AnswersBounds, RefusesBounds, SettlesBounds
<1>5. CASE UNCHANGED rpcVars
  BY <1>5 DEF rpcVars, RpcBounds, Room, RoomIn, Prompters, AgainRetried, RetriedUses, PendingFits
<1> QED
  BY <1>1, <1>2, <1>3, <1>4, <1>5 DEF RpcNext

\* What a child can leave over is bounded (settledCount of rpc-client): it has
\* one settlement for each prompt it was given, and a turn gives a client at most
\* one, the retry of a turn going to a client of its own.
THEOREM RpcRoomInvariant == RpcSpec => []RpcBounds
<1>1. RpcInit => RpcBounds
  BY BoundsInitially
<1>2. RpcInv /\ RpcInv' /\ RpcBounds /\ [RpcNext]_rpcVars => RpcBounds'
  BY BoundsStep
<1> QED
  BY <1>1, <1>2, RpcInvariant, PTL DEF RpcSpec

\* The bridge keeps its types, the counters of its clients within their bounds
\* (RpcSession, RpcProcessClient).
THEOREM RpcTypeCorrect == RpcSpec => []RpcTypeOK
<1>1. ASSUME RpcInv, RpcBounds PROVE RpcTypeOK
  <2>1. ASSUME NEW l \in RpcCallers, NEW u \in ClientUses
        PROVE  client[l][u].spare \in 0 .. Cardinality(RpcTurns)
    <3> DEFINE S == client[l][u].spare  w == client[l][u].work  j == Prompters(l, u)
               all == Cardinality(RpcTurns)
    <3>1. S \in Nat
      BY <1>1 DEF RpcInv, Shape, AnyClient
    <3>2. w \subseteq RpcTurns /\ j \subseteq RpcTurns /\ S + Cardinality(w) + Cardinality(j) <= all
      BY <1>1 DEF RpcBounds, Room, RoomIn, Prompters
    <3> HIDE DEF S, w, j
    <3>3. Cardinality(w) \in Nat /\ Cardinality(j) \in Nat /\ all \in Nat
      BY <3>2, Counted
    <3> HIDE DEF all
    <3>4. S <= all
      BY <3>1, <3>2, <3>3
    <3>5. S \in 0 .. all
      BY <3>1, <3>3, <3>4
    <3> QED
      BY <3>5 DEF S, all
  <2>2. ASSUME NEW l \in RpcCallers, NEW u \in ClientUses PROVE client[l][u] \in RpcClient
    <3>1. client[l][u] \in AnyClient
      BY <1>1 DEF RpcInv, Shape
    <3> QED
      BY <2>1, <3>1 DEF AnyClient, RpcClient
  <2>3. client \in [RpcCallers -> [ClientUses -> RpcClient]]
    BY <1>1, <2>2 DEF RpcInv, Shape
  <2> QED
    BY <1>1, <2>3 DEF RpcInv, Shape, AnyLive, AnyProgress, RpcBounds, RpcTypeOK
<1> QED
  BY <1>1, RpcInvariant, RpcRoomInvariant, PTL

=============================================================================
