------------------------ MODULE SessionSleepProofs ------------------------
(***************************************************************************)
(* SessionSleep for every number of sessions, threads, attempts, sleeps    *)
(* and restarts: its types, its two delivery guarantees, and that every    *)
(* step is one of SleepPromise or leaves the promise alone.                *)
(*                                                                         *)
(* The delivery guarantees are not inductive by themselves.  What makes    *)
(* them so is where an identifier can be: a row holds the newest one of    *)
(* its session, nothing on its way carries one not drawn yet, and one that *)
(* was consumed, called off or turned is no longer planned in any row.     *)
(***************************************************************************)
EXTENDS SessionSleep, TLAPS

\* No row holds this occurrence as planned.
Spent(id) == \A s \in Sessions : sleep[s].id = id => sleep[s].status # "planned"

\* If a row still holds this occurrence, its wake time has come.
Rung(id) == \A s \in Sessions : sleep[s].id = id => sleep[s].due

RowsDistinct ==
  /\ \A s \in Sessions : sleep[s].id <= lastId
  /\ \A s \in Sessions : sleep[s].status = "planned" => sleep[s].id # 0
  /\ \A s, r \in Sessions : sleep[s].id = sleep[r].id => s = r \/ sleep[s].id = 0

RunnerHolds ==
  /\ runner.at \in {"resolve", "post", "fail"}
       => runner.claim.id <= lastId /\ Rung(runner.claim.id)
  /\ runner.at = "post" => runner.claim.thread \in Threads

GatewayHolds == \A m \in gateway : m.id <= lastId /\ Rung(m.id)

IngressHolds ==
  /\ \A m \in ingress : /\ m.id <= lastId /\ m.id \notin calledOff
                        /\ turns[m.id] = 0 /\ Spent(m.id)
  /\ \A m, n \in ingress : m.id = n.id => m = n

HistoryHolds ==
  /\ \A id \in calledOff : id <= lastId /\ Spent(id) /\ turns[id] = 0
  /\ \A id \in Ids : turns[id] <= 1
  /\ \A id \in Ids : turns[id] # 0 => id <= lastId /\ Spent(id)

IInv == TypeOK /\ RowsDistinct /\ RunnerHolds /\ GatewayHolds /\ IngressHolds /\ HistoryHolds

\* The step draws no identifier, and of a row it can only end the plan or let
\* its time come: what every action but KimakiSleep does to the rows.
RowsErode ==
  /\ lastId' = lastId
  /\ \A s \in Sessions : /\ sleep'[s].id = sleep[s].id
                         /\ sleep'[s].status = "planned" => sleep[s].status = "planned"
                         /\ sleep[s].due => sleep'[s].due

-----------------------------------------------------------------------------

\* The runner is in one of its three shapes.
LEMMA RunnerShape ==
  ASSUME TypeOK
  PROVE  /\ runner.at # "idle" => runner.todo \in SUBSET DueRows
         /\ runner.at \in {"resolve", "post", "fail"} => runner.claim \in Claims
         /\ runner.at \in {"resolve", "post", "fail"}
              => runner = [at |-> runner.at, todo |-> runner.todo, claim |-> runner.claim]
         /\ runner.at = "loop" => runner = [at |-> "loop", todo |-> runner.todo]
  BY DEF TypeOK, Idle

\* Eroding rows keep their identifiers apart, and what was spent or rung stays so.
LEMMA Erosion ==
  ASSUME RowsDistinct, RowsErode
  PROVE  /\ RowsDistinct'
         /\ \A id : Spent(id) => Spent(id)'
         /\ \A id : Rung(id) => Rung(id)'
  BY DEF RowsDistinct, RowsErode, Spent, Rung

\* A step that erodes the rows and leaves the rest alone keeps the invariants
\* of whatever it leaves alone.
LEMMA ErosionKeepsRunner ==
  ASSUME RowsDistinct, RowsErode, RunnerHolds, runner' = runner
  PROVE  RunnerHolds'
  BY Erosion DEF RunnerHolds, RowsErode

LEMMA ErosionKeepsGateway ==
  ASSUME RowsDistinct, RowsErode, GatewayHolds, gateway' \subseteq gateway
  PROVE  GatewayHolds'
  BY Erosion DEF GatewayHolds, RowsErode

LEMMA ErosionKeepsIngress ==
  ASSUME RowsDistinct, RowsErode, IngressHolds, ingress' \subseteq ingress,
         calledOff' = calledOff, turns' = turns
  PROVE  IngressHolds'
  BY Erosion DEF IngressHolds, RowsErode

LEMMA ErosionKeepsHistory ==
  ASSUME RowsDistinct, RowsErode, HistoryHolds, calledOff' = calledOff, turns' = turns
  PROVE  HistoryHolds'
  BY Erosion DEF HistoryHolds, RowsErode

\* Cancelling the sleep of a thread's session: the rows erode, and what is
\* called off by it was planned until now.
LEMMA Cancelling ==
  ASSUME TypeOK, RowsDistinct, NEW t \in Threads, CancelSleepOf(t),
         CallOff(BoundSession(t)), lastId' = lastId
  PROVE  /\ RowsErode
         /\ sleep' \in [Sessions -> Rows]
         /\ calledOff' \subseteq Ids
         /\ \A id \in calledOff' \ calledOff :
              id <= lastId /\ ~ Spent(id) /\ Spent(id)'
<1>1. RowsErode
  BY DEF RowsErode, CancelSleepOf, TypeOK, Rows, Statuses
<1>2. sleep' \in [Sessions -> Rows]
  BY DEF CancelSleepOf, TypeOK, Rows, Statuses
<1>3. ASSUME NEW id \in calledOff', id \notin calledOff
      PROVE  id \in Ids /\ id <= lastId /\ ~ Spent(id) /\ Spent(id)'
  <2>1. PICK s \in Sessions : /\ s = binding[t] /\ sleep[s].id = id
                              /\ sleep[s].status = "planned"
    BY <1>3 DEF CallOff, BoundSession, PlannedIds
  <2>2. id # 0 /\ id <= lastId /\ id \in Ids
    BY <2>1 DEF RowsDistinct, TypeOK, Rows, Ids
  <2>3. \A r \in Sessions : sleep[r].id = id => r = s
    BY <2>1, <2>2 DEF RowsDistinct
  <2>4. sleep'[s].status = "cancelled"
    BY <2>1 DEF CancelSleepOf, TypeOK, Rows
  <2> QED
    BY <1>1, <2>1, <2>2, <2>3, <2>4 DEF Spent, RowsErode
<1> QED
  BY <1>1, <1>2, <1>3 DEF TypeOK

\* It keeps what is on its way and what is history.
LEMMA CancellingKeeps ==
  ASSUME TypeOK, RowsDistinct, IngressHolds, HistoryHolds,
         NEW t \in Threads, CancelSleepOf(t), CallOff(BoundSession(t)),
         lastId' = lastId, ingress' \subseteq ingress, turns' = turns
  PROVE  IngressHolds' /\ HistoryHolds'
<1>1. /\ RowsErode
      /\ \A id \in calledOff' \ calledOff : id \in Ids /\ id <= lastId /\ ~ Spent(id) /\ Spent(id)'
  BY Cancelling
<1>2. \A id : Spent(id) => Spent(id)'
  BY <1>1, Erosion
<1>3. IngressHolds'
  BY <1>1, <1>2 DEF IngressHolds
<1>4. HistoryHolds'
  BY <1>1, <1>2 DEF HistoryHolds
<1> QED
  BY <1>3, <1>4

\* A new sleep: its identifier is above all others, and the planned sleep it
\* replaces, if any, is called off.
LEMMA Upserting ==
  ASSUME ConstantsAssumption, TypeOK, RowsDistinct, NEW s \in Sessions, Upsert(s)
  PROVE  /\ lastId' = lastId + 1 /\ lastId' \in Ids
         /\ sleep' \in [Sessions -> Rows]
         /\ sleep'[s].id = lastId' /\ sleep'[s].status = "planned"
         /\ \A r \in Sessions \ {s} : sleep'[r] = sleep[r]
         /\ calledOff' \subseteq Ids
         /\ \A id \in calledOff' \ calledOff :
              id <= lastId /\ ~ Spent(id) /\ Spent(id)'
<1>1. lastId' = lastId + 1 /\ lastId' \in Ids /\ lastId \in Nat
  BY DEF Upsert, TypeOK, Ids, ConstantsAssumption
<1>2. /\ sleep' \in [Sessions -> Rows]
      /\ sleep'[s].id = lastId' /\ sleep'[s].status = "planned"
      /\ \A r \in Sessions \ {s} : sleep'[r] = sleep[r]
  BY <1>1 DEF Upsert, TypeOK, Rows, Statuses, Ids, ConstantsAssumption
<1>3. ASSUME NEW id \in calledOff', id \notin calledOff
      PROVE  id \in Ids /\ id <= lastId /\ ~ Spent(id) /\ Spent(id)'
  <2>1. sleep[s].id = id /\ sleep[s].status = "planned"
    BY <1>3 DEF Upsert, CallOff, PlannedIds
  <2>2. id # 0 /\ id <= lastId /\ id \in Ids
    BY <2>1 DEF RowsDistinct, TypeOK, Rows, Ids
  <2>3. \A r \in Sessions : sleep[r].id = id => r = s
    BY <2>1, <2>2 DEF RowsDistinct
  <2> QED
    BY <1>1, <1>2, <2>1, <2>2, <2>3 DEF Spent
<1> QED
  BY <1>1, <1>2, <1>3 DEF TypeOK

\* What a new sleep keeps: every identifier on its way is an older one.
LEMMA UpsertingKeeps ==
  ASSUME ConstantsAssumption, TypeOK, RowsDistinct, GatewayHolds, IngressHolds,
         HistoryHolds, RunnerHolds, NEW s \in Sessions, Upsert(s), runner' = runner,
         gateway' = gateway, ingress' = ingress, turns' = turns
  PROVE  /\ RowsDistinct' /\ RunnerHolds' /\ GatewayHolds'
         /\ IngressHolds' /\ HistoryHolds'
<1> DEFINE old(id) == id <= lastId
<1>1. /\ lastId \in Nat /\ lastId' = lastId + 1 /\ lastId' \in Ids
      /\ sleep'[s].id = lastId' /\ sleep'[s].status = "planned"
      /\ \A r \in Sessions \ {s} : sleep'[r] = sleep[r]
      /\ calledOff' \subseteq Ids
      /\ \A id \in calledOff' \ calledOff : id <= lastId /\ ~ Spent(id) /\ Spent(id)'
  BY Upserting DEF TypeOK, Ids, ConstantsAssumption
<1>2. \A r \in Sessions : sleep[r].id \in 0 .. MaxSleeps /\ sleep[r].id <= lastId
  BY DEF TypeOK, Rows, RowsDistinct
<1>3. RowsDistinct'
  BY <1>1, <1>2 DEF RowsDistinct, Ids
<1>4. \A id \in Nat : old(id) => /\ Spent(id) => Spent(id)'
                                 /\ Rung(id) => Rung(id)'
                                 /\ id <= lastId'
  BY <1>1, <1>2 DEF Spent, Rung
<1>5. /\ \A m \in gateway \cup ingress : m.id \in Nat
      /\ \A id \in calledOff' \cup Ids : id \in Nat
      /\ runner.at \in {"resolve", "post", "fail"} => runner.claim.id \in Nat
  <2>1. \A m \in gateway \cup ingress : m.id \in Nat
    BY DEF TypeOK, Wakes, Ids
  <2>2. runner.at \in {"resolve", "post", "fail"} => runner.claim.id \in Nat
    BY RunnerShape DEF Claims, Ids
  <2>3. \A id \in calledOff' \cup Ids : id \in Nat
    BY <1>1 DEF Ids
  <2> QED
    BY <2>1, <2>2, <2>3
<1>6. RunnerHolds' /\ GatewayHolds'
  BY <1>4, <1>5 DEF RunnerHolds, GatewayHolds
<1>7. IngressHolds'
  BY <1>1, <1>4, <1>5 DEF IngressHolds
<1>8. HistoryHolds'
  BY <1>1, <1>4, <1>5 DEF HistoryHolds, TypeOK
<1> QED
  BY <1>3, <1>6, <1>7, <1>8

\* The wake of a due row: its row is the only one, and it is spent afterwards.
LEMMA Consuming ==
  ASSUME TypeOK, RowsDistinct, GatewayHolds, NEW m \in Wakes, NEW again \in BOOLEAN,
         IngressWake(m, again)
  PROVE  /\ RowsErode
         /\ sleep' \in [Sessions -> Rows]
         /\ Spent(m.id)'
         /\ Consumable(m.id) # {} => ~ Spent(m.id)
  BY DEF IngressWake, Consumable, RowsErode, Spent, TypeOK, Rows, Statuses

-----------------------------------------------------------------------------

LEMMA InitIInv == ASSUME ConstantsAssumption, Init PROVE IInv
<1> USE DEF Init
<1>1. TypeOK
  BY ConstantsAssumption DEF TypeOK, NeverSlept, Rows, Statuses, Ids, Idle
<1>2. RowsDistinct
  BY DEF RowsDistinct, NeverSlept
<1>3. RunnerHolds /\ GatewayHolds /\ IngressHolds
  BY DEF RunnerHolds, GatewayHolds, IngressHolds, Idle
<1>4. HistoryHolds
  BY DEF HistoryHolds
<1> QED
  BY <1>1, <1>2, <1>3, <1>4 DEF IInv

LEMMA NextIInv == ASSUME ConstantsAssumption, IInv, [Next]_vars PROVE IInv'
<1> USE ConstantsAssumption DEF IInv, row, ownership, discord
<1> DEFINE Kept == RowsErode /\ calledOff' = calledOff /\ turns' = turns
<1>0. ASSUME Kept, TypeOK', runner' = runner, gateway' \subseteq gateway, ingress' \subseteq ingress
      PROVE  IInv'
  BY <1>0, Erosion, ErosionKeepsRunner, ErosionKeepsGateway, ErosionKeepsIngress, ErosionKeepsHistory
<1>00. ASSUME row' = row PROVE RowsErode
  BY <1>00 DEF RowsErode
<1>1. ASSUME NEW t \in Threads, NEW s \in Sessions, Resume(t, s) PROVE IInv'
  <2>1. TypeOK'
    BY <1>1 DEF Resume, Bind, Touched, TypeOK
  <2> QED
    BY <1>0, <1>00, <1>1, <2>1 DEF Resume
<1>2. ASSUME NEW t \in Threads, Rename(t) PROVE IInv'
  <2>1. TypeOK'
    BY <1>2 DEF Rename, Touched, TypeOK
  <2> QED
    BY <1>0, <1>00, <1>2, <2>1 DEF Rename
<1>3. ASSUME NEW s \in Sessions, KimakiSleep(s) PROVE IInv'
  <2>1. TypeOK'
    BY <1>3, Upserting DEF KimakiSleep, TypeOK, Ids
  <2> QED
    BY <1>3, <2>1, UpsertingKeeps DEF KimakiSleep
<1>4. ASSUME NEW s \in Sessions, TurnEnds(s) PROVE IInv'
  <2>1. TypeOK'
    BY <1>4 DEF TurnEnds, TypeOK
  <2> QED
    BY <1>0, <1>00, <1>4, <2>1 DEF TurnEnds
<1>5. ASSUME NEW t \in Threads, NEW s \in Sessions, UserMessage(t, s) PROVE IInv'
  <2>1. TypeOK'
    BY <1>5, Cancelling DEF UserMessage, TurnStarts, Bind, Touched, TypeOK
  <2>2. RowsErode
    BY <1>5, Cancelling DEF UserMessage
  <2>3. IngressHolds' /\ HistoryHolds'
    BY <1>5, CancellingKeeps DEF UserMessage
  <2> QED
    BY <1>5, <2>1, <2>2, <2>3, Erosion, ErosionKeepsRunner, ErosionKeepsGateway DEF UserMessage
<1>6. ASSUME NEW t \in Threads, AbortCancels(t) PROVE IInv'
  <2>1. TypeOK'
    BY <1>6, Cancelling DEF AbortCancels, TypeOK
  <2>2. RowsErode
    BY <1>6, Cancelling DEF AbortCancels
  <2>3. IngressHolds' /\ HistoryHolds'
    BY <1>6, CancellingKeeps DEF AbortCancels
  <2> QED
    BY <1>6, <2>1, <2>2, <2>3, Erosion, ErosionKeepsRunner, ErosionKeepsGateway DEF AbortCancels
<1>7. ASSUME NEW t \in Threads, AbortStops(t) PROVE IInv'
  <2>1. TypeOK'
    BY <1>7 DEF AbortStops, TypeOK
  <2> QED
    BY <1>0, <1>00, <1>7, <2>1 DEF AbortStops
<1>8. ASSUME RunnerStep PROVE IInv'
  <2>0. ASSUME row' = row, ingress' = ingress, turns' = turns, RunnerHolds', GatewayHolds', TypeOK'
        PROVE  IInv'
    BY <2>0, <1>00, Erosion, ErosionKeepsIngress, ErosionKeepsHistory
  <2>1. CASE RunnerScan
    <3>1. \A s \in Sessions : IsDue(s) => sleep[s].id \in Ids
      BY DEF IsDue, Deliverable, RowsDistinct, TypeOK, Rows, Ids
    <3>2. runner' \in [at : {"loop"}, todo : SUBSET DueRows]
      BY <2>1, <3>1 DEF RunnerScan, DueRows
    <3>3. TypeOK'
      BY <2>1, <3>2 DEF RunnerScan, TypeOK
    <3>4. RunnerHolds' /\ GatewayHolds'
      BY <2>1, <3>2 DEF RunnerScan, RunnerHolds, GatewayHolds, Rung
    <3> QED
      BY <2>0, <2>1, <3>3, <3>4 DEF RunnerScan
  <2>2. CASE RunnerClaim
    <3>1. PICK x \in runner.todo :
            LET s == x.session
                tried == IF sleep[s].attempts < MaxAttempts
                         THEN sleep[s].attempts + 1 ELSE MaxAttempts
            IN  \/ /\ sleep[s].id = x.id /\ IsDue(s)
                   /\ sleep' = [sleep EXCEPT ![s].attempts = tried, ![s].cooling = TRUE]
                   /\ runner' = [at |-> "resolve", todo |-> runner.todo \ {x},
                                 claim |-> [session |-> s, id |-> x.id,
                                            attempts |-> tried, thread |-> NoThread]]
                \/ /\ ~ (sleep[s].id = x.id /\ IsDue(s))
                   /\ runner' = [at |-> "loop", todo |-> runner.todo \ {x}]
                   /\ UNCHANGED sleep
      BY <2>2 DEF RunnerClaim
    <3>2. x \in DueRows /\ runner.todo \in SUBSET DueRows /\ x.session \in Sessions /\ x.id \in Ids
      BY <2>2, <3>1, RunnerShape DEF RunnerClaim, DueRows
    <3>3. RowsErode /\ sleep' \in [Sessions -> Rows]
      BY <2>2, <3>1, <3>2 DEF RunnerClaim, RowsErode, TypeOK, Rows
    <3>4. runner' \in [at : {"loop"}, todo : SUBSET DueRows]
                        \cup [at : {"resolve", "post", "fail"}, todo : SUBSET DueRows, claim : Claims]
      BY <3>1, <3>2 DEF Claims, TypeOK, Rows
    <3>5. TypeOK'
      BY <2>2, <3>3, <3>4 DEF RunnerClaim, TypeOK
    <3>6. RunnerHolds'
      <4>1. CASE sleep[x.session].id = x.id /\ IsDue(x.session)
        <5>1. \A r \in Sessions : sleep[r].id = x.id => sleep[r].due
          BY <4>1, <3>2 DEF RowsDistinct, IsDue, Deliverable, Ids
        <5>2. x.id <= lastId'
          BY <4>1, <3>2, <3>3 DEF RowsDistinct, RowsErode
        <5> QED
          BY <4>1, <3>1, <3>2, <3>3, <5>1, <5>2 DEF RunnerHolds, Rung, RowsErode
      <4>2. CASE ~ (sleep[x.session].id = x.id /\ IsDue(x.session))
        BY <4>2, <3>1 DEF RunnerHolds
      <4> QED
        BY <4>1, <4>2
    <3> QED
      BY <2>2, <3>3, <3>5, <3>6, Erosion, ErosionKeepsGateway, ErosionKeepsIngress,
         ErosionKeepsHistory DEF RunnerClaim
  <2>3. CASE RunnerResolve
    <3>0. /\ runner.todo \in SUBSET DueRows /\ runner.claim \in Claims
          /\ runner = [at |-> "resolve", todo |-> runner.todo, claim |-> runner.claim]
      BY <2>3, RunnerShape DEF RunnerResolve
    <3>1. /\ runner' \in [at : {"post", "fail"}, todo : SUBSET DueRows, claim : Claims]
          /\ runner'.claim.id = runner.claim.id
          /\ runner'.at = "post" => runner'.claim.thread \in Threads
      <4>1. ASSUME NEW t \in Threads,
                   runner' = [runner EXCEPT !.at = "post", !.claim.thread = t]
            PROVE  /\ runner' \in [at : {"post", "fail"}, todo : SUBSET DueRows, claim : Claims]
                   /\ runner'.claim.id = runner.claim.id
                   /\ runner'.at = "post" => runner'.claim.thread \in Threads
        <5>1. runner' = [at |-> "post", todo |-> runner.todo,
                         claim |-> [runner.claim EXCEPT !.thread = t]]
          BY <3>0, <4>1
        <5>2. /\ [runner.claim EXCEPT !.thread = t] \in Claims
              /\ [runner.claim EXCEPT !.thread = t].id = runner.claim.id
              /\ [runner.claim EXCEPT !.thread = t].thread = t
          BY <3>0 DEF Claims
        <5> QED
          BY <3>0, <5>1, <5>2
      <4>2. CASE runner' = [runner EXCEPT !.at = "fail"]
        BY <3>0, <4>2
      <4> QED
        BY <2>3, <4>1, <4>2 DEF RunnerResolve, ResolveThread
    <3>2. TypeOK'
      BY <2>3, <3>1 DEF RunnerResolve, TypeOK
    <3>3. RunnerHolds' /\ GatewayHolds'
      BY <2>3, <3>1 DEF RunnerResolve, RunnerHolds, GatewayHolds, Rung
    <3> QED
      BY <2>0, <2>3, <3>2, <3>3 DEF RunnerResolve
  <2>4. ASSUME RunnerPostSucceeds \/ \E permanent, created \in BOOLEAN : RunnerPostFails(permanent, created)
        PROVE  IInv'
    <3>1. /\ runner.at = "post" /\ runner.todo \in SUBSET DueRows /\ runner.claim \in Claims
          /\ runner = [at |-> "post", todo |-> runner.todo, claim |-> runner.claim]
          /\ UNCHANGED <<row, ownership, active, ingress, aborting, crashes, turns>>
      BY <2>4, RunnerShape DEF RunnerPostSucceeds, RunnerPostFails
    <3>2. /\ Created \subseteq Wakes
          /\ \A m \in Created : m.id = runner.claim.id
          /\ runner.claim.id \in Ids
      BY <3>1 DEF Created, Wakes, Claims, RunnerHolds
    <3>3. /\ gateway' \subseteq gateway \cup Created
          /\ nonces' \subseteq nonces \cup {runner.claim.id}
      BY <2>4 DEF RunnerPostSucceeds, RunnerPostFails
    <3>4. runner' \in {[at |-> "loop", todo |-> runner.todo],
                       [at |-> "fail", todo |-> runner.todo, claim |-> runner.claim]}
      BY <2>4, <3>1 DEF RunnerPostSucceeds, RunnerPostFails, BackToLoop
    <3>5. TypeOK'
      BY <3>1, <3>2, <3>3, <3>4 DEF TypeOK
    <3>6. RunnerHolds'
      BY <3>1, <3>4 DEF RunnerHolds, Rung
    <3>7. GatewayHolds'
      BY <3>1, <3>2, <3>3 DEF GatewayHolds, RunnerHolds, Rung
    <3> QED
      BY <2>0, <3>1, <3>5, <3>6, <3>7
  <2>5. CASE RunnerFail
    <3>1. /\ runner.todo \in SUBSET DueRows /\ runner.claim.session \in Sessions
      BY <2>5, RunnerShape DEF RunnerFail, Claims
    <3>2. RowsErode /\ sleep' \in [Sessions -> Rows]
      BY <2>5, <3>1 DEF RunnerFail, FailClaimed, RowsErode, TypeOK, Rows, Statuses
    <3>3. TypeOK'
      BY <2>5, <3>1, <3>2 DEF RunnerFail, BackToLoop, TypeOK
    <3>4. RunnerHolds'
      BY <2>5 DEF RunnerFail, BackToLoop, RunnerHolds
    <3> QED
      BY <2>5, <3>2, <3>3, <3>4, Erosion, ErosionKeepsGateway, ErosionKeepsIngress,
         ErosionKeepsHistory DEF RunnerFail
  <2>6. CASE RunnerDone
    <3>1. TypeOK'
      BY <2>6 DEF RunnerDone, TypeOK
    <3>2. RunnerHolds' /\ GatewayHolds'
      BY <2>6 DEF RunnerDone, Idle, RunnerHolds, GatewayHolds, Rung
    <3> QED
      BY <2>0, <2>6, <3>1, <3>2 DEF RunnerDone
  <2> QED
    BY <1>8, <2>1, <2>2, <2>3, <2>4, <2>5, <2>6 DEF RunnerStep
<1>9. ASSUME NEW m \in Wakes, NEW again \in BOOLEAN, IngressWake(m, again) PROVE IInv'
  <2>1. /\ RowsErode /\ sleep' \in [Sessions -> Rows] /\ Spent(m.id)'
        /\ Consumable(m.id) # {} => ~ Spent(m.id)
    BY <1>9, Consuming
  <2>2. TypeOK'
    BY <1>9, <2>1 DEF IngressWake, TypeOK
  <2>3. IngressHolds'
    <3>1. m \in ingress' \ ingress => /\ m.id \notin calledOff /\ turns[m.id] = 0
                                      /\ \A n \in ingress : n.id # m.id
      BY <1>9, <2>1 DEF IngressWake, IngressHolds, HistoryHolds, Wakes
    <3>2. m.id <= lastId'
      BY <1>9, <2>1 DEF IngressWake, GatewayHolds, RowsErode
    <3>3. \A id : Spent(id) => Spent(id)'
      BY <2>1, Erosion
    <3> QED
      BY <1>9, <2>1, <3>1, <3>2, <3>3 DEF IngressWake, IngressHolds, RowsErode
  <2> QED
    BY <1>9, <2>1, <2>2, <2>3, Erosion, ErosionKeepsRunner, ErosionKeepsGateway,
       ErosionKeepsHistory DEF IngressWake
<1>10. ASSUME NEW m \in Wakes, NEW s \in Sessions, WakeTurn(m, s) PROVE IInv'
  <2>1. TypeOK'
    BY <1>10 DEF WakeTurn, TurnStarts, Bind, Touched, TypeOK, Wakes
  <2>2. RowsErode
    BY <1>10 DEF WakeTurn, RowsErode
  <2>3. turns' = [turns EXCEPT ![m.id] = 1] /\ m.id \in Ids
    <3>1. turns[m.id] = 0 /\ m.id \in Ids
      BY <1>10 DEF WakeTurn, IngressHolds, Wakes
    <3> QED
      BY <1>10, <3>1 DEF WakeTurn
  <2>4. IngressHolds'
    BY <1>10, <2>3 DEF WakeTurn, IngressHolds, Spent, TypeOK
  <2>5. HistoryHolds'
    BY <1>10, <2>3 DEF WakeTurn, IngressHolds, HistoryHolds, Spent, TypeOK
  <2> QED
    BY <1>10, <2>1, <2>2, <2>4, <2>5, Erosion, ErosionKeepsRunner, ErosionKeepsGateway DEF WakeTurn
<1>11. ASSUME NEW m \in Wakes, LoseEvent(m) PROVE IInv'
  <2>1. TypeOK'
    BY <1>11 DEF LoseEvent, TypeOK
  <2> QED
    BY <1>0, <1>00, <1>11, <2>1 DEF LoseEvent
<1>12. ASSUME NEW id \in Ids, ForgetNonce(id) PROVE IInv'
  <2>1. TypeOK'
    BY <1>12 DEF ForgetNonce, TypeOK
  <2> QED
    BY <1>0, <1>00, <1>12, <2>1 DEF ForgetNonce
<1>13. ASSUME NEW s \in Sessions, WakeTimeComes(s) \/ RetryWindowPasses(s) PROVE IInv'
  <2>1. RowsErode /\ sleep' \in [Sessions -> Rows]
    <3>1. PICK new \in {[sleep[s] EXCEPT !.due = TRUE], [sleep[s] EXCEPT !.cooling = FALSE]} :
            sleep' = [sleep EXCEPT ![s] = new]
      BY <1>13 DEF WakeTimeComes, RetryWindowPasses
    <3>2. /\ new \in Rows /\ new.id = sleep[s].id /\ new.status = sleep[s].status
          /\ sleep[s].due => new.due
      <4>1. sleep[s] \in Rows
        BY DEF TypeOK
      <4>2. CASE new = [sleep[s] EXCEPT !.due = TRUE]
        BY <4>1, <4>2 DEF Rows
      <4>3. CASE new = [sleep[s] EXCEPT !.cooling = FALSE]
        BY <4>1, <4>3 DEF Rows
      <4> QED
        BY <4>2, <4>3
    <3>3. lastId' = lastId
      BY <1>13 DEF WakeTimeComes, RetryWindowPasses
    <3> QED
      BY <3>1, <3>2, <3>3 DEF RowsErode, TypeOK
  <2>2. TypeOK'
    BY <1>13, <2>1 DEF WakeTimeComes, RetryWindowPasses, TypeOK
  <2> QED
    BY <1>0, <1>13, <2>1, <2>2 DEF WakeTimeComes, RetryWindowPasses
<1>14. CASE Crash
  <2>1. TypeOK'
    BY <1>14 DEF Crash, TypeOK
  <2>2. RunnerHolds'
    BY <1>14 DEF Crash, Idle, RunnerHolds
  <2> QED
    BY <1>00, <1>14, <2>1, <2>2, Erosion, ErosionKeepsGateway, ErosionKeepsIngress,
       ErosionKeepsHistory DEF Crash
<1>15. CASE UNCHANGED vars
  <2>1. TypeOK'
    BY <1>15 DEF vars, TypeOK
  <2> QED
    BY <1>0, <1>00, <1>15, <2>1 DEF vars
<1> QED
  BY <1>1, <1>2, <1>3, <1>4, <1>5, <1>6, <1>7, <1>8, <1>9, <1>10, <1>11, <1>12,
     <1>13, <1>14, <1>15 DEF Next

-----------------------------------------------------------------------------

\* The inductive invariant holds of every behaviour.
THEOREM Invariance == Spec => []IInv
<1>1. Init => IInv
  BY InitIInv, ConstantsAssumption
<1>2. IInv /\ [Next]_vars => IInv'
  BY NextIInv, ConstantsAssumption
<1> QED
  BY <1>1, <1>2, PTL DEF Spec

\* Every variable keeps its type, for any number of sessions and restarts.
THEOREM TypeCorrect == Spec => []TypeOK
<1>1. IInv => TypeOK
  BY DEF IInv
<1> QED
  BY <1>1, Invariance, PTL

\* One occurrence of kimaki_sleep starts at most one turn.
THEOREM AtMostOneTurn == Spec => []WakeAtMostOnce
<1>1. IInv => WakeAtMostOnce
  BY DEF IInv, HistoryHolds, WakeAtMostOnce
<1> QED
  BY <1>1, Invariance, PTL

\* A sleep taken back by the user, or replaced by a newer one, never wakes.
THEOREM NoWakeAfterCallOff == Spec => []CalledOffNeverWakes
<1>1. IInv => CalledOffNeverWakes
  BY DEF IInv, HistoryHolds, IngressHolds, CalledOffNeverWakes
<1> QED
  BY <1>1, Invariance, PTL

-----------------------------------------------------------------------------
(* The table refines the promise: the step of each action under Alarm. *)

\* Cancelling a thread's sleep calls off one alarm, or none.
LEMMA CancellingIsCallOff ==
  ASSUME TypeOK, NEW t \in Threads, CancelSleepOf(t)
  PROVE  (\E s \in Sessions : Alarms!CallOff(s)) \/ Alarm' = Alarm
<1>1. CASE binding[t] \in Sessions /\ sleep[binding[t]].status = "planned"
  <2> DEFINE s == binding[t]
  <2>1. \A r \in Sessions \ {s} : sleep'[r] = sleep[r]
    BY DEF CancelSleepOf
  <2>2. /\ sleep'[s].id = sleep[s].id /\ sleep'[s].due = sleep[s].due
        /\ sleep'[s].status = "cancelled"
    BY <1>1 DEF CancelSleepOf, TypeOK, Rows
  <2>3. Alarm' = [Alarm EXCEPT ![s].status = "cancelled"]
    BY <1>1, <2>1, <2>2 DEF Alarm
  <2>4. Alarm[s].status = "planned"
    BY <1>1 DEF Alarm
  <2> QED
    BY <1>1, <2>3, <2>4 DEF Alarms!CallOff
<1>2. CASE ~ (binding[t] \in Sessions /\ sleep[binding[t]].status = "planned")
  <2>1. \A r \in Sessions : sleep'[r] = sleep[r]
    BY <1>2 DEF CancelSleepOf
  <2> QED
    BY <2>1 DEF Alarm
<1> QED
  BY <1>1, <1>2

\* The alarm of every step, given what the row of a session can do.
LEMMA StepSimulation ==
  ASSUME ConstantsAssumption, IInv, [Next]_vars
  PROVE  [Alarms!Next]_Alarm
<1> USE DEF IInv, row
<1>0. ASSUME sleep' = sleep PROVE Alarm' = Alarm
  BY <1>0 DEF Alarm
<1>1. ASSUME NEW s \in Sessions, KimakiSleep(s) PROVE Alarms!Sleep(s)
  <2>1. /\ lastId' = lastId + 1 /\ lastId' \in Ids /\ lastId \in Nat
        /\ sleep'[s] = [id |-> lastId', status |-> "planned", due |-> FALSE,
                        attempts |-> 0, cooling |-> FALSE]
        /\ \A r \in Sessions \ {s} : sleep'[r] = sleep[r]
    BY <1>1, Upserting DEF KimakiSleep, Upsert, TypeOK, Ids
  <2>2. \A r \in Sessions : Alarm[r].id < lastId'
    BY <2>1 DEF Alarm, RowsDistinct, TypeOK, Rows
  <2>3. Alarm' = [Alarm EXCEPT ![s] = [id |-> lastId', status |-> "planned", due |-> FALSE]]
    <3>1. /\ sleep'[s].id = lastId' /\ sleep'[s].status = "planned" /\ sleep'[s].due = FALSE
          /\ \A r \in Sessions \ {s} : sleep'[r] = sleep[r]
      BY <2>1
    <3> QED
      BY <3>1 DEF Alarm
  <2> QED
    BY <2>1, <2>2, <2>3 DEF Alarms!Sleep
<1>2. ASSUME NEW t \in Threads, NEW s \in Sessions, UserMessage(t, s) \/ AbortCancels(t)
      PROVE  (\E r \in Sessions : Alarms!CallOff(r)) \/ Alarm' = Alarm
  BY <1>2, CancellingIsCallOff DEF UserMessage, AbortCancels
<1>3. ASSUME RunnerClaim PROVE Alarm' = Alarm
  BY <1>3 DEF RunnerClaim, Alarm, TypeOK, Rows
<1>4. ASSUME RunnerFail PROVE (\E s \in Sessions : Alarms!Settle(s)) \/ Alarm' = Alarm
  <2> DEFINE s == runner.claim.session
  <2>1. s \in Sessions /\ runner.at = "fail"
    BY <1>4, RunnerShape DEF RunnerFail, Claims
  <2>2. CASE sleep[s].id = runner.claim.id /\ sleep[s].status = "planned"
    <3>1. sleep' = [sleep EXCEPT ![s] = [sleep[s] EXCEPT !.status = "failed"]]
      BY <1>4, <2>2 DEF RunnerFail, FailClaimed
    <3>2. Alarm' = [Alarm EXCEPT ![s].status = "failed"]
      BY <2>1, <3>1 DEF Alarm, TypeOK, Rows
    <3>3. Alarm[s].status = "planned" /\ Alarm[s].due
      BY <2>1, <2>2 DEF Alarm, RunnerHolds, Rung
    <3> QED
      BY <2>1, <3>2, <3>3 DEF Alarms!Settle
  <2>3. CASE ~ (sleep[s].id = runner.claim.id /\ sleep[s].status = "planned")
    <3>1. \A r \in Sessions : sleep'[r] = sleep[r]
      BY <1>4, <2>1, <2>3 DEF RunnerFail, FailClaimed, TypeOK, Rows
    <3> QED
      BY <3>1 DEF Alarm
  <2> QED
    BY <2>2, <2>3
<1>5. ASSUME NEW m \in Wakes, NEW again \in BOOLEAN, IngressWake(m, again)
      PROVE  (\E s \in Sessions : Alarms!Settle(s)) \/ Alarm' = Alarm
  <2>1. CASE Consumable(m.id) = {}
    <3>1. \A r \in Sessions : sleep'[r] = sleep[r]
      BY <1>5, <2>1 DEF IngressWake
    <3> QED
      BY <3>1 DEF Alarm
  <2>2. CASE Consumable(m.id) # {}
    <3>1. PICK s \in Sessions : sleep[s].id = m.id /\ sleep[s].status = "planned"
      BY <2>2 DEF Consumable
    <3>2. \A r \in Sessions : sleep[r].id = m.id => r = s
      BY <3>1 DEF RowsDistinct
    <3>3. /\ \A r \in Sessions \ {s} : sleep'[r] = sleep[r]
          /\ sleep'[s] = [sleep[s] EXCEPT !.status = "consumed"]
      BY <1>5, <3>1, <3>2 DEF IngressWake, Consumable
    <3>4. Alarm' = [Alarm EXCEPT ![s].status = "consumed"]
      <4>1. /\ sleep'[s].id = sleep[s].id /\ sleep'[s].due = sleep[s].due
            /\ sleep'[s].status = "consumed"
        BY <3>3 DEF TypeOK, Rows
      <4> QED
        BY <3>3, <4>1 DEF Alarm
    <3>5. Alarm[s].status = "planned" /\ Alarm[s].due
      BY <1>5, <3>1 DEF Alarm, IngressWake, GatewayHolds, Rung
    <3> QED
      BY <3>4, <3>5 DEF Alarms!Settle
  <2> QED
    BY <2>1, <2>2
<1>6. ASSUME NEW s \in Sessions, WakeTimeComes(s) PROVE Alarms!Ring(s)
  <2>1. Alarm' = [Alarm EXCEPT ![s].due = TRUE]
    <3>1. \A r \in Sessions \ {s} : sleep'[r] = sleep[r]
      BY <1>6 DEF WakeTimeComes, TypeOK
    <3>2. sleep'[s].id = sleep[s].id /\ sleep'[s].status = sleep[s].status /\ sleep'[s].due = TRUE
      BY <1>6 DEF WakeTimeComes, TypeOK, Rows
    <3> QED
      BY <3>1, <3>2 DEF Alarm
  <2> QED
    BY <1>6, <2>1 DEF WakeTimeComes, Alarm, Alarms!Ring
<1>7. ASSUME NEW s \in Sessions, RetryWindowPasses(s) PROVE Alarm' = Alarm
  BY <1>7 DEF RetryWindowPasses, Alarm, TypeOK, Rows
<1>8. ASSUME NEW t \in Threads, NEW s \in Sessions, Resume(t, s) PROVE Alarm' = Alarm
  BY <1>0, <1>8 DEF Resume
<1>9. ASSUME NEW t \in Threads, Rename(t) \/ AbortStops(t) PROVE Alarm' = Alarm
  BY <1>0, <1>9 DEF Rename, AbortStops
<1>10. ASSUME NEW s \in Sessions, TurnEnds(s) PROVE Alarm' = Alarm
  BY <1>0, <1>10 DEF TurnEnds
<1>11. ASSUME RunnerScan \/ RunnerResolve \/ RunnerDone PROVE Alarm' = Alarm
  BY <1>0, <1>11 DEF RunnerScan, RunnerResolve, RunnerDone
<1>12. ASSUME RunnerPostSucceeds \/ \E permanent, created \in BOOLEAN : RunnerPostFails(permanent, created)
       PROVE  Alarm' = Alarm
  BY <1>0, <1>12 DEF RunnerPostSucceeds, RunnerPostFails
<1>13. ASSUME NEW m \in Wakes, NEW s \in Sessions, WakeTurn(m, s) PROVE Alarm' = Alarm
  BY <1>0, <1>13 DEF WakeTurn
<1>14. ASSUME NEW m \in Wakes, LoseEvent(m) PROVE Alarm' = Alarm
  BY <1>0, <1>14 DEF LoseEvent
<1>15. ASSUME NEW id \in Ids, ForgetNonce(id) PROVE Alarm' = Alarm
  BY <1>0, <1>15 DEF ForgetNonce
<1>16. ASSUME Crash \/ UNCHANGED vars PROVE Alarm' = Alarm
  BY <1>0, <1>16 DEF Crash, vars
<1>17. ASSUME NEW t \in Threads, AbortCancels(t)
       PROVE  (\E r \in Sessions : Alarms!CallOff(r)) \/ Alarm' = Alarm
  BY <1>17, CancellingIsCallOff DEF AbortCancels
<1> QED
  BY <1>1, <1>2, <1>3, <1>4, <1>5, <1>6, <1>7, <1>8, <1>9, <1>10, <1>11, <1>12,
     <1>13, <1>14, <1>15, <1>16, <1>17 DEF Next, RunnerStep, Alarms!Next

\* Every behaviour of the table, the runner, Discord and the users is one of
\* SleepPromise.
THEOREM Refinement == Spec => KeepsPromise
<1>1. Init => Alarms!Init
  BY DEF Init, Alarms!Init, Alarm, NeverSlept, Alarms!NeverSlept
<1>2. IInv /\ [Next]_vars => [Alarms!Next]_Alarm
  BY StepSimulation, ConstantsAssumption
<1> QED
  BY <1>1, <1>2, Invariance, PTL DEF Spec, KeepsPromise, Alarms!Spec

=============================================================================
