---------------------------- MODULE ThreadProofs ----------------------------
(***************************************************************************)
(* ThreadQueue for any messages, sessions, bounds and faults.              *)
(*                                                                         *)
(* Shape ties the action queue, the action at its await and the handoff to *)
(* the places of their messages; Goes says what one step may do to a       *)
(* message.  On them rest HandedOnce (what the buffer says of the latest   *)
(* question's handoff), Serial (in a thread that is Alone the turn is in   *)
(* one place, and the session is marked busy until it has ended) and       *)
(* Ordered (what is on its way came before what is queued).  Emptied is    *)
(* about threads that are Calm: as long as a message is in the queue,      *)
(* something that ends in a drain is under way, or a drain was missed.     *)
(***************************************************************************)
EXTENDS ThreadQueue, SequenceTheorems, FiniteSetTheorems, TLAPS

-----------------------------------------------------------------------------
(* The queue of a thread: its inductive invariant *)

\* What an action of the queue carries a message for, and where that message is
Carries(a) == a.do \in {"enqueue", "submit", "abort"}
CarriedAt(a) == IF a.do = "abort" THEN "dismissing" ELSE "posted"

\* An action that carries a message is the only one, and the message waits for it.
ActsFit(a, j, s) == \A i \in DOMAIN a :
  /\ a[i].do \notin {"show", "rest"}
  /\ Carries(a[i]) => j[a[i].m].at = CarriedAt(a[i])
  /\ a[i].do = "enqueue" => a[i].m \in Queued
  /\ a[i].do = "abort" => s # NoSession
  /\ \A k \in DOMAIN a : Carries(a[i]) /\ Carries(a[k]) /\ a[i].m = a[k].m => i = k

\* The queue holds the queued messages, each once.
QueueFit(q, j) ==
  /\ \A m \in Msgs : j[m].at = "queued" <=> \E i \in DOMAIN q : q[i] = m
  /\ \A i, k \in DOMAIN q : q[i] = q[k] => i = k

InSubmit == {"ensure", "create", "prompt", "reply"}

\* A dispatch that reports its error and drains sends one indicator, and waits for it.
ReportsFit(j) == \A m, n \in Msgs :
  (j[m].at = "showing" /\ j[m].by # NoMsg)
    => /\ j[j[m].by].at = "report"
       /\ (j[n].at = "showing" /\ j[n].by = j[m].by) => m = n

\* The action being run, at an await, is about its message; the other indicators are
\* sent by actions.
TurnFit(j, t) ==
  /\ t.do \in {"rest", "submit", "show", "event"}
  /\ t.do = "submit" => j[t.m].at \in InSubmit
  /\ \A m \in Msgs : (j[m].at = "showing" /\ j[m].by = NoMsg) <=> t = Showing(m)
  /\ ReportsFit(j)

\* The message being handed off is the one the promise is for.
HandoffFit(j, h) ==
  \A m \in Msgs : j[m].at = "handing" => m = h /\ m \in Queued /\ j[m].known # NoSession

Typed ==
  /\ queue \in Seq(Queued) /\ job \in [Msgs -> Jobs]
  /\ sess \in Sessions \cup {NoSession} /\ saved \in Sessions \cup {NoSession}
  /\ buf \in [Sessions -> [busy : BOOLEAN, handed : BOOLEAN]]
  /\ ui \in BOOLEAN /\ handoff \in Queued \cup {NoMsg}
  /\ acts \in Seq(Actions) /\ turn \in Actions
  /\ srv \in [Sessions -> ServerStates] /\ aborting \subseteq Sessions
  /\ sse \in Seq(Events)
  /\ order \in Seq(Queued) /\ past \in BOOLEAN /\ since \in Nat /\ missed \in BOOLEAN
  /\ aborts \in 0 .. MaxAborts /\ questions \in 0 .. MaxQuestions
  /\ retries \in 0 .. MaxRetries

Fits ==
  /\ ActsFit(acts, job, sess) /\ QueueFit(queue, job)
  /\ TurnFit(job, turn) /\ HandoffFit(job, handoff)

Shape == Typed /\ Fits

-----------------------------------------------------------------------------
(* Sequences *)

LEMMA HeadAndTail ==
  ASSUME NEW S, NEW q \in Seq(S), q # <<>>
  PROVE  /\ Tail(q) \in Seq(S) /\ Head(q) \in S /\ Head(q) = q[1] /\ 1 \in DOMAIN q
         /\ \A i \in DOMAIN Tail(q) : i \in Nat /\ i # 0 /\ i + 1 \in DOMAIN q /\ Tail(q)[i] = q[i + 1]
         /\ \A i \in DOMAIN q : i = 1 \/ (i - 1 \in DOMAIN Tail(q) /\ Tail(q)[i - 1] = q[i])
  OBVIOUS

LEMMA Appended1 ==
  ASSUME NEW S, NEW q \in Seq(S), NEW x \in S
  PROVE  /\ Append(q, x) \in Seq(S)
         /\ DOMAIN Append(q, x) = DOMAIN q \cup {Len(q) + 1} /\ Len(q) + 1 \notin DOMAIN q
         /\ Append(q, x)[Len(q) + 1] = x
         /\ \A i \in DOMAIN q : Append(q, x)[i] = q[i] /\ i \in Nat /\ i < Len(q) + 1
  OBVIOUS

LEMMA Removed ==
  ASSUME NEW S, NEW q \in Seq(S), NEW k \in DOMAIN q
  PROVE  /\ RemoveAt(q, k) \in Seq(S)
         /\ \A i \in DOMAIN RemoveAt(q, k) :
              i \in Nat /\ IF i < k THEN i \in DOMAIN q /\ RemoveAt(q, k)[i] = q[i]
                           ELSE i + 1 \in DOMAIN q /\ RemoveAt(q, k)[i] = q[i + 1]
         /\ \A i \in DOMAIN q :
              /\ i \in Nat /\ k \in Nat
              /\ i < k => i \in DOMAIN RemoveAt(q, k) /\ RemoveAt(q, k)[i] = q[i]
              /\ i > k => i - 1 \in DOMAIN RemoveAt(q, k) /\ RemoveAt(q, k)[i - 1] = q[i]
  <1> DEFINE a == SubSeq(q, 1, k - 1)
             b == SubSeq(q, k + 1, Len(q))
  <1>1. k \in Nat /\ 1 <= k /\ k <= Len(q) /\ Len(q) \in Nat /\ DOMAIN q = 1 .. Len(q)
    OBVIOUS
  <1>2. a \in Seq(S) /\ Len(a) = k - 1 /\ \A i \in 1 .. (k - 1) : a[i] = q[i]
    BY <1>1
  <1>3. b \in Seq(S) /\ Len(b) = Len(q) - k /\ \A i \in 1 .. (Len(q) - k) : b[i] = q[k + i]
    BY <1>1
  <1>4. RemoveAt(q, k) = a \o b
    BY DEF RemoveAt
  <1> HIDE DEF a, b
  <1>5. /\ RemoveAt(q, k) \in Seq(S) /\ Len(RemoveAt(q, k)) = Len(q) - 1
        /\ DOMAIN RemoveAt(q, k) = 1 .. Len(q) - 1
    <2>1. a \o b \in Seq(S) /\ Len(a \o b) = Len(a) + Len(b)
      BY <1>2, <1>3, ConcatProperties
    <2>2. Len(a) + Len(b) = Len(q) - 1
      BY <1>1, <1>2, <1>3
    <2> QED BY <1>4, <2>1, <2>2
  <1>6. \A i \in 1 .. Len(q) - 1 : RemoveAt(q, k)[i] = IF i < k THEN q[i] ELSE q[i + 1]
    <2> SUFFICES ASSUME NEW i \in 1 .. Len(q) - 1
                 PROVE  RemoveAt(q, k)[i] = IF i < k THEN q[i] ELSE q[i + 1]
      OBVIOUS
    <2>1. CASE i < k
      BY <1>1, <1>2, <1>3, <1>4, <2>1
    <2>2. CASE ~(i < k)
      <3>1. i - (k - 1) \in 1 .. (Len(q) - k) /\ k + (i - (k - 1)) = i + 1
        BY <1>1, <2>2
      <3>2. (a \o b)[i] = b[i - Len(a)]
        BY <1>1, <1>2, <1>3, <2>2, ConcatProperties
      <3> QED BY <1>2, <1>3, <1>4, <2>2, <3>1, <3>2
    <2> QED BY <2>1, <2>2
  <1> QED BY <1>1, <1>5, <1>6

-----------------------------------------------------------------------------
(* Messages, actions and the places they are at *)

LEMMA Values ==
  /\ NoSession \notin Sessions /\ NoMsg \notin Msgs
  /\ Queued \subseteq Msgs /\ Direct \subseteq Msgs
  /\ Known \in Sessions \cup {NoSession} /\ Saved \in Sessions \cup {NoSession}
  /\ Known # NoSession => Saved = Known
  /\ MaxSessions \in Nat /\ MaxAborts \in Nat /\ MaxQuestions \in Nat /\ MaxRetries \in Nat
  /\ Draining \in Actions /\ AtRest \in Actions /\ Draining.do = "drain" /\ AtRest.do = "rest"
  BY QueueAssumption DEF Sessions, NoSession, Msgs, Draining, AtRest, Actions

LEMMA ActionFacts ==
  ASSUME NEW a \in Actions
  PROVE  /\ a.do \in {"enqueue", "submit", "abort", "show", "drain", "rest", "event"}
         /\ Carries(a) => a.m \in Msgs
         /\ a.do = "show" => a.m \in Msgs /\ a = Showing(a.m)
         /\ a.do = "event" => a.e \in Events
         /\ a.do = "rest" => a = AtRest
  BY DEF Actions, Carries, Draining, AtRest, Showing

LEMMA MessageActions ==
  ASSUME NEW m \in Msgs
  PROVE  /\ Enqueueing(m) \in Actions /\ Enqueueing(m).do = "enqueue" /\ Enqueueing(m).m = m
         /\ Submitting(m) \in Actions /\ Submitting(m).do = "submit" /\ Submitting(m).m = m
         /\ Aborting(m) \in Actions /\ Aborting(m).do = "abort" /\ Aborting(m).m = m
         /\ Showing(m) \in Actions /\ Showing(m).do = "show" /\ Showing(m).m = m
  BY DEF Enqueueing, Submitting, Aborting, Showing, Actions

LEMMA EventActions ==
  ASSUME NEW e \in Events
  PROVE  Handling(e) \in Actions /\ Handling(e).do = "event" /\ Handling(e).e = e
  BY DEF Handling, Actions

LEMMA PutFacts ==
  ASSUME NEW jobs \in [Msgs -> Jobs], NEW m \in Msgs, NEW p \in JobPlaces
  PROVE  /\ Put(jobs, m, p) \in [Msgs -> Jobs]
         /\ \A n \in Msgs : n # m => Put(jobs, m, p)[n] = jobs[n]
         /\ Put(jobs, m, p)[m].at = p /\ Put(jobs, m, p)[m].by = jobs[m].by
         /\ Put(jobs, m, p)[m].known = jobs[m].known
         /\ Put(jobs, m, p)[m].target = jobs[m].target
  BY DEF Put, Jobs

LEMMA DequeuedFacts ==
  ASSUME NEW jobs \in [Msgs -> Jobs], NEW m \in Msgs, NEW p \in JobPlaces,
         NEW who \in Msgs \cup {NoMsg}, sess \in Sessions \cup {NoSession}
  PROVE  /\ Dequeued(jobs, m, p, who) \in [Msgs -> Jobs]
         /\ \A n \in Msgs : n # m => Dequeued(jobs, m, p, who)[n] = jobs[n]
         /\ Dequeued(jobs, m, p, who)[m].at = p /\ Dequeued(jobs, m, p, who)[m].by = who
         /\ Dequeued(jobs, m, p, who)[m].known = sess
  BY DEF Dequeued, Jobs

\* Places at which a message is in no queue and in nobody's hands
Loose == {"new", "waiting", "ensure", "create", "prompt", "reply", "failing", "prompted",
          "failed", "lost", "withdrawn"}

LEMMA ReportsMove ==
  ASSUME NEW j \in [Msgs -> Jobs], NEW k \in [Msgs -> Jobs], NEW m \in Msgs,
         j[m].at # "report", k[m].at # "showing" \/ k[m].by = NoMsg,
         \A n \in Msgs : n # m => k[n] = j[n],
         ReportsFit(j)
  PROVE  ReportsFit(k)
  <1> SUFFICES ASSUME NEW i \in Msgs, NEW n \in Msgs, k[i].at = "showing" /\ k[i].by # NoMsg
               PROVE  /\ k[k[i].by].at = "report"
                      /\ (k[n].at = "showing" /\ k[n].by = k[i].by) => i = n
    BY DEF ReportsFit
  <1>1. i # m /\ k[i] = j[i]
    OBVIOUS
  <1>2. j[i].by \in Msgs /\ j[j[i].by].at = "report"
    BY <1>1 DEF ReportsFit, Jobs
  <1>3. j[i].by # m
    BY <1>2
  <1>4. k[n].at = "showing" /\ k[n].by # NoMsg => k[n] = j[n]
    OBVIOUS
  <1> QED BY <1>1, <1>2, <1>3, <1>4 DEF ReportsFit

\* A message that moves from one such place to another is nobody else's concern.
LEMMA FitsMove ==
  ASSUME NEW j \in [Msgs -> Jobs], NEW k \in [Msgs -> Jobs], NEW m \in Msgs,
         j[m].at \in Loose, k[m].at \in Loose \cup {"report"},
         \A n \in Msgs : n # m => k[n] = j[n],
         NEW a \in Seq(Actions), NEW q \in Seq(Queued), NEW t \in Actions, NEW h, NEW s,
         ActsFit(a, j, s), QueueFit(q, j), TurnFit(j, t), HandoffFit(j, h),
         t.do = "submit" /\ t.m = m => k[m].at \in InSubmit
  PROVE  ActsFit(a, k, s) /\ QueueFit(q, k) /\ TurnFit(k, t) /\ HandoffFit(k, h)
  <1>1. ActsFit(a, k, s)
    BY ActionFacts DEF ActsFit, CarriedAt, Loose, Carries
  <1>2. QueueFit(q, k)
    BY DEF QueueFit, Loose
  <1>3. TurnFit(k, t)
    <2>1. t.do \in {"rest", "submit", "show", "event"}
      BY DEF TurnFit
    <2>2. t.do = "submit" => k[t.m].at \in InSubmit
      BY ActionFacts DEF TurnFit, Carries
    <2>3. \A n \in Msgs : (k[n].at = "showing" /\ k[n].by = NoMsg) <=> t = Showing(n)
      BY DEF TurnFit, Loose
    <2>4. ReportsFit(k)
      BY ReportsMove DEF TurnFit, Loose
    <2> QED BY <2>1, <2>2, <2>3, <2>4 DEF TurnFit
  <1>4. HandoffFit(k, h)
    BY DEF HandoffFit, Loose
  <1> QED BY <1>1, <1>2, <1>3, <1>4

LEMMA ActsPlain ==
  ASSUME NEW j, NEW s, NEW a \in Seq(Actions), NEW x \in Actions, x.do \in {"drain", "event"},
         ActsFit(a, j, s)
  PROVE  Append(a, x) \in Seq(Actions) /\ ActsFit(Append(a, x), j, s)
  BY Appended1 DEF ActsFit, Carries

LEMMA ActsCarry ==
  ASSUME NEW j \in [Msgs -> Jobs], NEW k \in [Msgs -> Jobs], NEW s, NEW a \in Seq(Actions),
         NEW x \in Actions, Carries(x), ActsFit(a, j, s),
         j[x.m].at \notin {"posted", "dismissing"}, k[x.m].at = CarriedAt(x),
         \A n \in Msgs : n # x.m => k[n] = j[n],
         x.do = "enqueue" => x.m \in Queued, x.do = "abort" => s # NoSession
  PROVE  Append(a, x) \in Seq(Actions) /\ ActsFit(Append(a, x), k, s)
  <1>1. \A i \in DOMAIN a : a[i] \in Actions
    OBVIOUS
  <1>2. \A i \in DOMAIN a : Carries(a[i]) => a[i].m \in Msgs /\ a[i].m # x.m
    BY <1>1, ActionFacts DEF ActsFit, CarriedAt
  <1>3. ActsFit(a, k, s)
    BY <1>2 DEF ActsFit
  <1> QED BY <1>2, <1>3, Appended1 DEF ActsFit, Carries

LEMMA ActsTail ==
  ASSUME NEW j, NEW k, NEW s, NEW a \in Seq(Actions), a # <<>>, ActsFit(a, j, s),
         \A n \in Msgs : \/ k[n].at = j[n].at \/ j[n].at \notin {"posted", "dismissing"}
                         \/ Carries(Head(a)) /\ Head(a).m = n
  PROVE  Tail(a) \in Seq(Actions) /\ ActsFit(Tail(a), k, s)
  <1>1. Tail(a) \in Seq(Actions)
    BY HeadAndTail
  <1>2. ASSUME NEW i \in DOMAIN Tail(a)
        PROVE  /\ i + 1 \in DOMAIN a /\ Tail(a)[i] = a[i + 1] /\ a[i + 1] \in Actions
               /\ Carries(a[i + 1]) /\ Carries(Head(a)) => a[i + 1].m # Head(a).m
    <2>1. i \in Nat /\ i # 0 /\ i + 1 \in DOMAIN a /\ Tail(a)[i] = a[i + 1]
          /\ Head(a) = a[1] /\ 1 \in DOMAIN a
      BY HeadAndTail
    <2> QED BY <2>1 DEF ActsFit
  <1>3. \A i \in DOMAIN Tail(a) : Carries(Tail(a)[i]) => Tail(a)[i].m \in Msgs
    BY <1>2, ActionFacts
  <1>4. \A i \in DOMAIN Tail(a) : Carries(Tail(a)[i]) => k[Tail(a)[i].m].at = CarriedAt(Tail(a)[i])
    BY <1>2, <1>3 DEF ActsFit, CarriedAt
  <1>5. \A i \in DOMAIN Tail(a), l \in DOMAIN Tail(a) :
          Carries(Tail(a)[i]) /\ Carries(Tail(a)[l]) /\ Tail(a)[i].m = Tail(a)[l].m => i = l
    <2> SUFFICES ASSUME NEW i \in DOMAIN Tail(a), NEW l \in DOMAIN Tail(a),
                        Carries(Tail(a)[i]) /\ Carries(Tail(a)[l]) /\ Tail(a)[i].m = Tail(a)[l].m
                 PROVE  i = l
      OBVIOUS
    <2>1. i + 1 = l + 1
      BY <1>2 DEF ActsFit
    <2>2. i \in Nat /\ l \in Nat
      BY HeadAndTail
    <2> QED BY <2>1, <2>2
  <1> QED BY <1>1, <1>2, <1>4, <1>5 DEF ActsFit

-----------------------------------------------------------------------------
(* Taking a message from the queue *)

LEMMA Dequeue ==
  ASSUME NEW j \in [Msgs -> Jobs], NEW q \in Seq(Queued), q # <<>>, QueueFit(q, j),
         sess \in Sessions \cup {NoSession},
         NEW p \in JobPlaces, p # "queued", NEW who \in Msgs \cup {NoMsg}
  PROVE  /\ Head(q) \in Queued /\ Head(q) \in Msgs /\ j[Head(q)].at = "queued"
         /\ Tail(q) \in Seq(Queued) /\ QueueFit(Tail(q), Dequeued(j, Head(q), p, who))
  <1> DEFINE h == Head(q)
             k == Dequeued(j, h, p, who)
  <1>1. /\ h \in Queued /\ h = q[1] /\ 1 \in DOMAIN q /\ Tail(q) \in Seq(Queued)
        /\ \A i \in DOMAIN Tail(q) : i \in Nat /\ i # 0 /\ i + 1 \in DOMAIN q /\ Tail(q)[i] = q[i + 1]
        /\ \A i \in DOMAIN q : i = 1 \/ (i - 1 \in DOMAIN Tail(q) /\ Tail(q)[i - 1] = q[i])
    BY HeadAndTail
  <1>2. h \in Msgs /\ j[h].at = "queued"
    BY <1>1, Values DEF QueueFit
  <1>3. k[h].at = p /\ \A m \in Msgs : m # h => k[m] = j[m]
    BY <1>2, DequeuedFacts
  <1> HIDE DEF h, k
  <1>4. \A i \in DOMAIN Tail(q) : Tail(q)[i] # h
    BY <1>1 DEF QueueFit
  <1>5. \A m \in Msgs : k[m].at = "queued" <=> \E i \in DOMAIN Tail(q) : Tail(q)[i] = m
    <2> SUFFICES ASSUME NEW m \in Msgs
                 PROVE  k[m].at = "queued" <=> \E i \in DOMAIN Tail(q) : Tail(q)[i] = m
      OBVIOUS
    <2>1. CASE m = h
      BY <1>3, <1>4, <2>1
    <2>2. CASE m # h
      <3>1. k[m].at = "queued" <=> \E i \in DOMAIN q : q[i] = m
        BY <1>3, <2>2 DEF QueueFit
      <3>2. (\E i \in DOMAIN q : q[i] = m) <=> \E i \in DOMAIN Tail(q) : Tail(q)[i] = m
        BY <1>1, <2>2
      <3> QED BY <3>1, <3>2
    <2> QED BY <2>1, <2>2
  <1>6. \A i, l \in DOMAIN Tail(q) : Tail(q)[i] = Tail(q)[l] => i = l
    <2> SUFFICES ASSUME NEW i \in DOMAIN Tail(q), NEW l \in DOMAIN Tail(q), Tail(q)[i] = Tail(q)[l]
                 PROVE  i = l
      OBVIOUS
    <2>1. i + 1 = l + 1
      BY <1>1 DEF QueueFit
    <2> QED BY <1>1, <2>1
  <1>7. QueueFit(Tail(q), k)
    BY <1>5, <1>6 DEF QueueFit
  <1> QED BY <1>1, <1>2, <1>7 DEF h, k

\* tryDrainQueue, in an action that is at rest or ends with it
LEMMA DrainFits ==
  ASSUME NEW j \in [Msgs -> Jobs], NEW busy, Drain(j, busy),
         queue \in Seq(Queued), sess \in Sessions \cup {NoSession},
         NEW t \in Actions, t.do \in {"rest", "event"},
         NEW a \in Seq(Actions), NEW s,
         ActsFit(a, j, s), QueueFit(queue, j), TurnFit(j, t), HandoffFit(j, handoff)
  PROVE  /\ queue' \in Seq(Queued) /\ job' \in [Msgs -> Jobs] /\ turn' \in Actions
         /\ ActsFit(a, job', s) /\ QueueFit(queue', job')
         /\ TurnFit(job', turn') /\ HandoffFit(job', handoff)
  <1>0. \A m \in Msgs : ~(j[m].at = "showing" /\ j[m].by = NoMsg)
    BY MessageActions DEF TurnFit
  <1>1. CASE ~Drainable(busy)
    <2>1. job' = j /\ turn' = AtRest /\ queue' = queue
      BY <1>1 DEF Drain
    <2>2. \A m \in Msgs : Showing(m) # AtRest
      BY MessageActions, Values
    <2>3. TurnFit(j, AtRest)
      BY <1>0, <2>2, Values DEF TurnFit
    <2> QED BY <2>1, <2>3, Values
  <1>2. CASE Drainable(busy)
    <2> DEFINE h == Head(queue)
               k == Dequeued(j, h, "showing", NoMsg)
    <2>1. queue # <<>> /\ queue' = Tail(queue) /\ job' = k /\ turn' = Showing(h)
      BY <1>2 DEF Drain, Drainable
    <2>2. "showing" \in JobPlaces /\ "showing" # "queued" /\ NoMsg \in Msgs \cup {NoMsg}
      BY DEF JobPlaces
    <2>3. /\ h \in Queued /\ h \in Msgs /\ j[h].at = "queued"
          /\ Tail(queue) \in Seq(Queued) /\ QueueFit(Tail(queue), k)
      BY <2>1, <2>2, Dequeue
    <2>4. /\ k \in [Msgs -> Jobs] /\ k[h].at = "showing" /\ k[h].by = NoMsg
          /\ \A n \in Msgs : n # h => k[n] = j[n]
      BY <2>2, <2>3, DequeuedFacts
    <2> HIDE DEF h, k
    <2>5. Showing(h) \in Actions /\ Showing(h).do = "show" /\ Showing(h).m = h
          /\ \A m \in Msgs : Showing(m) = Showing(h) => m = h
      BY <2>3, MessageActions
    <2>6. ActsFit(a, k, s)
      BY <2>3, <2>4, ActionFacts DEF ActsFit, CarriedAt
    <2>7. HandoffFit(k, handoff)
      BY <2>3, <2>4 DEF HandoffFit
    <2>8. \A m \in Msgs : (k[m].at = "showing" /\ k[m].by = NoMsg) <=> Showing(h) = Showing(m)
      BY <1>0, <2>4, <2>5
    <2>9. ReportsFit(k)
      BY <2>3, <2>4, ReportsMove DEF TurnFit
    <2>10. TurnFit(k, Showing(h))
      BY <2>5, <2>8, <2>9 DEF TurnFit
    <2> QED BY <2>1, <2>3, <2>4, <2>5, <2>6, <2>7, <2>10
  <1> QED BY <1>1, <1>2

LEMMA DrainTyped ==
  ASSUME NEW j, NEW busy, Drain(j, busy)
  PROVE  missed' \in BOOLEAN
  BY DEF Drain

\* It takes nothing, or shows the head.
LEMMA DrainMoves ==
  ASSUME NEW j \in [Msgs -> Jobs], NEW busy, Drain(j, busy),
         queue \in Seq(Queued), sess \in Sessions \cup {NoSession}
  PROVE  \/ ~Drainable(busy) /\ job' = j /\ turn' = AtRest /\ queue' = queue
         \/ /\ Drainable(busy) /\ queue # <<>> /\ queue' = Tail(queue)
            /\ Head(queue) \in Queued /\ Head(queue) \in Msgs
            /\ turn' = Showing(Head(queue))
            /\ job' \in [Msgs -> Jobs] /\ job'[Head(queue)].at = "showing"
            /\ job'[Head(queue)].by = NoMsg /\ job'[Head(queue)].known = sess
            /\ \A n \in Msgs : n # Head(queue) => job'[n] = j[n]
  <1>1. CASE ~Drainable(busy)
    BY <1>1 DEF Drain
  <1>2. CASE Drainable(busy)
    <2>1. /\ queue # <<>> /\ queue' = Tail(queue) /\ turn' = Showing(Head(queue))
          /\ job' = Dequeued(j, Head(queue), "showing", NoMsg)
      BY <1>2 DEF Drain, Drainable
    <2>2. Head(queue) \in Queued /\ Head(queue) \in Msgs
      BY <2>1, HeadAndTail, Values
    <2>3. "showing" \in JobPlaces /\ NoMsg \in Msgs \cup {NoMsg}
      BY DEF JobPlaces
    <2> QED BY <1>2, <2>1, <2>2, <2>3, DequeuedFacts
  <1> QED BY <1>1, <1>2

\* A queued message that is handed off, or whose dispatch starts at once
LEMMA DequeuedFits ==
  ASSUME NEW j \in [Msgs -> Jobs], sess \in Sessions \cup {NoSession},
         NEW h \in Queued, j[h].at = "queued", NEW p \in {"handing", "ensure"},
         NEW t \in Actions, t.do \in {"rest", "event"}, NEW a \in Seq(Actions), NEW s, NEW g,
         ActsFit(a, j, s), TurnFit(j, t), HandoffFit(j, g),
         p = "handing" => g = NoMsg /\ sess # NoSession
  PROVE  LET k == Dequeued(j, h, p, NoMsg)
         IN  /\ k \in [Msgs -> Jobs] /\ ActsFit(a, k, s) /\ TurnFit(k, t)
             /\ HandoffFit(k, IF p = "handing" THEN h ELSE g)
  <1> DEFINE k == Dequeued(j, h, p, NoMsg)
  <1>1. p \in JobPlaces /\ NoMsg \in Msgs \cup {NoMsg} /\ h \in Msgs
    BY Values DEF JobPlaces
  <1>2. /\ k \in [Msgs -> Jobs] /\ k[h].at = p /\ k[h].known = sess /\ k[h].by = NoMsg
        /\ \A n \in Msgs : n # h => k[n] = j[n]
    BY <1>1, DequeuedFacts
  <1> HIDE DEF k
  <1>3. ActsFit(a, k, s)
    BY <1>2, ActionFacts DEF ActsFit, CarriedAt
  <1>4. HandoffFit(k, IF p = "handing" THEN h ELSE g)
    BY <1>1, <1>2, Values DEF HandoffFit
  <1>5. \A m \in Msgs : (k[m].at = "showing" /\ k[m].by = NoMsg) <=> t = Showing(m)
    BY <1>1, <1>2 DEF TurnFit
  <1>6. ReportsFit(k)
    BY <1>1, <1>2, ReportsMove DEF TurnFit
  <1>7. TurnFit(k, t)
    BY <1>5, <1>6 DEF TurnFit
  <1> QED BY <1>2, <1>3, <1>4, <1>7 DEF k

\* maybeHandoffQueuedItemForPendingQuestion, in an action that ends with it
LEMMA HandOffFits ==
  ASSUME Typed, HandOff, NEW t \in Actions, t.do \in {"rest", "event"},
         NEW a \in Seq(Actions), NEW s,
         ActsFit(a, job, s), QueueFit(queue, job), TurnFit(job, t), HandoffFit(job, handoff)
  PROVE  /\ queue' \in Seq(Queued) /\ job' \in [Msgs -> Jobs]
         /\ handoff' \in Queued \cup {NoMsg} /\ past' \in BOOLEAN
         /\ ActsFit(a, job', s) /\ QueueFit(queue', job')
         /\ TurnFit(job', t) /\ HandoffFit(job', handoff')
  <1>1. CASE ~CanHandOff(queue)
    BY <1>1 DEF HandOff, Typed
  <1>2. CASE CanHandOff(queue)
    <2> DEFINE h == Head(queue)
               k == Dequeued(job, h, "handing", NoMsg)
    <2>1. /\ queue # <<>> /\ queue' = Tail(queue) /\ job' = k /\ handoff' = h /\ past' = TRUE
          /\ sess # NoSession /\ handoff = NoMsg
      BY <1>2 DEF HandOff, CanHandOff
    <2>2. "handing" \in JobPlaces /\ "handing" # "queued" /\ NoMsg \in Msgs \cup {NoMsg}
      BY DEF JobPlaces
    <2>3. /\ h \in Queued /\ h \in Msgs /\ job[h].at = "queued"
          /\ Tail(queue) \in Seq(Queued) /\ QueueFit(Tail(queue), k)
      BY <2>1, <2>2, Dequeue DEF Typed
    <2>4. /\ k \in [Msgs -> Jobs] /\ ActsFit(a, k, s) /\ TurnFit(k, t) /\ HandoffFit(k, h)
      BY <2>1, <2>3, DequeuedFits DEF Typed
    <2> QED BY <2>1, <2>3, <2>4
  <1> QED BY <1>1, <1>2

-----------------------------------------------------------------------------
(* Users keep the shape *)

LEMMA InitShape ==
  ASSUME Init
  PROVE  Shape
  <1>1. NewJob \in Jobs /\ NewJob.at = "new"
    BY DEF NewJob, Jobs, JobPlaces
  <1>2. job \in [Msgs -> Jobs] /\ \A m \in Msgs : job[m].at = "new"
    BY <1>1 DEF Init
  <1>3. Typed
    <2>1. buf \in [Sessions -> [busy : BOOLEAN, handed : BOOLEAN]]
      BY DEF Init
    <2>2. ui \in BOOLEAN /\ past \in BOOLEAN /\ missed \in BOOLEAN
      BY DEF Init
    <2>3. srv \in [Sessions -> ServerStates] /\ aborting \subseteq Sessions
      BY DEF Init, ServerStates
    <2>4. 0 \in 0 .. MaxAborts /\ 0 \in 0 .. MaxQuestions /\ 0 \in 0 .. MaxRetries /\ 0 \in Nat
      BY Values
    <2> QED BY <1>2, <2>1, <2>2, <2>3, <2>4, Values DEF Typed, Init
  <1>4. QueueFit(queue, job)
    BY <1>2 DEF QueueFit, Init
  <1>5. ActsFit(acts, job, sess)
    BY DEF ActsFit, Init
  <1>6. TurnFit(job, turn)
    <2>1. \A m \in Msgs : Showing(m) # AtRest
      BY MessageActions, Values
    <2> QED BY <1>2, <2>1, Values DEF TurnFit, ReportsFit, Init
  <1>7. HandoffFit(job, handoff)
    BY <1>2 DEF HandoffFit
  <1> QED BY <1>3, <1>4, <1>5, <1>6, <1>7 DEF Shape, Fits

\* A message that moves, with an action appended that carries it
LEMMA PostMessage ==
  ASSUME Shape, NEW x \in Actions, Carries(x), NEW m \in Msgs, x.m = m,
         job[m].at \in Loose \cup {"handing"},
         job' = Put(job, m, CarriedAt(x)), PostAction(x),
         x.do = "enqueue" => m \in Queued, x.do = "abort" => sess # NoSession,
         turn.do = "submit" => turn.m # m
  PROVE  /\ job' \in [Msgs -> Jobs] /\ acts' \in Seq(Actions)
         /\ ActsFit(acts', job', sess) /\ QueueFit(queue, job')
         /\ TurnFit(job', turn) /\ HandoffFit(job', handoff)
  <1>1. CarriedAt(x) \in {"posted", "dismissing"} /\ CarriedAt(x) \in JobPlaces
    BY DEF CarriedAt, JobPlaces
  <1>2. job \in [Msgs -> Jobs] /\ acts \in Seq(Actions) /\ turn \in Actions /\ queue \in Seq(Queued)
    BY DEF Shape, Typed
  <1> DEFINE k == Put(job, m, CarriedAt(x))
  <1>3. /\ k \in [Msgs -> Jobs] /\ k[m].at = CarriedAt(x)
        /\ \A n \in Msgs : n # m => k[n] = job[n]
    BY <1>1, <1>2, PutFacts
  <1>4. job' = k
    OBVIOUS
  <1> HIDE DEF k
  <1>5. job[m].at \notin {"posted", "dismissing", "queued", "showing", "report"}
    BY DEF Loose
  <1>6. acts' \in Seq(Actions) /\ ActsFit(acts', k, sess)
    BY <1>2, <1>3, <1>5, ActsCarry DEF PostAction, Shape, Fits
  <1>7. QueueFit(queue, k)
    BY <1>1, <1>3, <1>5 DEF QueueFit, Shape, Fits
  <1>8. TurnFit(k, turn)
    <2> USE DEF Shape, Fits
    <2>1. turn.do = "submit" => k[turn.m].at \in InSubmit
      BY <1>2, <1>3, ActionFacts DEF TurnFit, Carries
    <2>2. \A n \in Msgs : (k[n].at = "showing" /\ k[n].by = NoMsg) <=> turn = Showing(n)
      BY <1>1, <1>3, <1>5 DEF TurnFit
    <2>3. ReportsFit(k)
      BY <1>1, <1>2, <1>3, <1>5, ReportsMove DEF TurnFit
    <2> QED BY <2>1, <2>2, <2>3 DEF TurnFit
  <1>9. HandoffFit(k, handoff)
    BY <1>1, <1>3 DEF HandoffFit, Shape, Fits
  <1> QED BY <1>3, <1>4, <1>6, <1>7, <1>8, <1>9

LEMMA QueueShape ==
  ASSUME Shape, NEW m \in Msgs, Queue(m)
  PROVE  Shape'
  <1>1. turn.do = "submit" => turn.m # m
    BY DEF Queue, Shape, Fits, TurnFit, InSubmit
  <1>2. /\ Enqueueing(m) \in Actions /\ Enqueueing(m).do = "enqueue" /\ Enqueueing(m).m = m
        /\ Carries(Enqueueing(m)) /\ CarriedAt(Enqueueing(m)) = "posted"
    BY MessageActions DEF Carries, CarriedAt
  <1>3. job[m].at \in Loose \cup {"handing"}
    BY DEF Queue, Loose
  <1>4. /\ job' \in [Msgs -> Jobs] /\ acts' \in Seq(Actions)
        /\ ActsFit(acts', job', sess) /\ QueueFit(queue, job')
        /\ TurnFit(job', turn) /\ HandoffFit(job', handoff)
    BY <1>1, <1>2, <1>3, PostMessage DEF Queue
  <1> QED BY <1>4 DEF Queue, Shape, Typed, Fits, session, opencode, queueHistory, counts

LEMMA SayShape ==
  ASSUME Shape, NEW d \in Msgs, Say(d)
  PROVE  Shape'
  <1>1. turn.do = "submit" => turn.m # d
    BY DEF Say, Shape, Fits, TurnFit, InSubmit
  <1>2. /\ Submitting(d) \in Actions /\ Submitting(d).do = "submit" /\ Submitting(d).m = d
        /\ Carries(Submitting(d)) /\ CarriedAt(Submitting(d)) = "posted"
        /\ Aborting(d) \in Actions /\ Aborting(d).do = "abort" /\ Aborting(d).m = d
        /\ Carries(Aborting(d)) /\ CarriedAt(Aborting(d)) = "dismissing"
    BY MessageActions DEF Carries, CarriedAt
  <1>3. job[d].at \in Loose \cup {"handing"}
    BY DEF Say, Loose
  <1>4. \/ PostAction(Submitting(d)) /\ job' = Put(job, d, "posted")
        \/ sess # NoSession /\ PostAction(Aborting(d)) /\ job' = Put(job, d, "dismissing")
    BY DEF Say
  <1>5. /\ job' \in [Msgs -> Jobs] /\ acts' \in Seq(Actions)
        /\ ActsFit(acts', job', sess) /\ QueueFit(queue, job')
        /\ TurnFit(job', turn) /\ HandoffFit(job', handoff)
    BY <1>1, <1>2, <1>3, <1>4, PostMessage
  <1>6. aborts' \in 0 .. MaxAborts
    BY Values DEF Say, Shape, Typed
  <1> QED BY <1>5, <1>6 DEF Say, Shape, Typed, Fits, session, opencode

LEMMA StopWaitingShape ==
  ASSUME Shape, NEW d \in Msgs, StopWaiting(d)
  PROVE  Shape'
  <1>1. turn.do = "submit" => turn.m # d
    BY DEF StopWaiting, Shape, Fits, TurnFit, InSubmit
  <1>2. /\ Submitting(d) \in Actions /\ Submitting(d).do = "submit" /\ Submitting(d).m = d
        /\ Carries(Submitting(d)) /\ CarriedAt(Submitting(d)) = "posted"
    BY MessageActions DEF Carries, CarriedAt
  <1>3. job[d].at \in Loose \cup {"handing"}
    BY DEF StopWaiting, Loose
  <1>4. /\ job' \in [Msgs -> Jobs] /\ acts' \in Seq(Actions)
        /\ ActsFit(acts', job', sess) /\ QueueFit(queue, job')
        /\ TurnFit(job', turn) /\ HandoffFit(job', handoff)
    BY <1>1, <1>2, <1>3, PostMessage DEF StopWaiting
  <1> QED BY <1>4 DEF StopWaiting, Shape, Typed, Fits, session, opencode, queueHistory, counts

LEMMA WithdrawShape ==
  ASSUME Shape, NEW m \in Msgs, Withdraw(m)
  PROVE  Shape'
  <1> USE DEF Shape, Fits
  <1>1. PICK l \in DOMAIN queue : queue[l] = m /\ queue' = RemoveAt(queue, l)
    BY DEF Withdraw
  <1>2. queue \in Seq(Queued) /\ job \in [Msgs -> Jobs]
    BY DEF Typed
  <1>3. /\ queue' \in Seq(Queued)
        /\ \A i \in DOMAIN queue' :
              i \in Nat /\ IF i < l THEN i \in DOMAIN queue /\ queue'[i] = queue[i]
                           ELSE i + 1 \in DOMAIN queue /\ queue'[i] = queue[i + 1]
        /\ \A i \in DOMAIN queue :
              /\ i \in Nat /\ l \in Nat
              /\ i < l => i \in DOMAIN queue' /\ queue'[i] = queue[i]
              /\ i > l => i - 1 \in DOMAIN queue' /\ queue'[i - 1] = queue[i]
    BY <1>1, <1>2, Removed
  <1>4. job[m].at = "queued"
    BY <1>1 DEF QueueFit
  <1>5. /\ job' \in [Msgs -> Jobs] /\ job'[m].at = "withdrawn"
        /\ \A n \in Msgs : n # m => job'[n] = job[n]
    BY <1>2, PutFacts DEF Withdraw, JobPlaces
  <1>6. QueueFit(queue', job')
    <2>1. ASSUME NEW i \in DOMAIN queue', NEW k \in DOMAIN queue', queue'[i] = queue'[k]
          PROVE  i = k
      <3> DEFINE b == IF i < l THEN i ELSE i + 1
                 c == IF k < l THEN k ELSE k + 1
      <3>1. b \in DOMAIN queue /\ c \in DOMAIN queue /\ queue[b] = queue[c]
        BY <1>3, <2>1
      <3>2. b = c
        BY <3>1 DEF QueueFit
      <3>3. i \in Nat /\ k \in Nat /\ l \in Nat
        BY <1>3, <1>1
      <3> QED BY <3>2, <3>3
    <2>2. \A i \in DOMAIN queue' : queue'[i] # m
      <3> SUFFICES ASSUME NEW i \in DOMAIN queue', queue'[i] = m PROVE FALSE
        OBVIOUS
      <3> DEFINE b == IF i < l THEN i ELSE i + 1
      <3>1. b \in DOMAIN queue /\ queue[b] = m /\ b # l
        BY <1>1, <1>3
      <3> QED BY <1>1, <3>1 DEF QueueFit
    <2>3. ASSUME NEW n \in Msgs, n # m
          PROVE  job'[n].at = "queued" <=> \E i \in DOMAIN queue' : queue'[i] = n
      <3>1. job'[n].at = "queued" <=> \E i \in DOMAIN queue : queue[i] = n
        BY <1>5, <2>3 DEF QueueFit
      <3>2. ASSUME NEW i \in DOMAIN queue, queue[i] = n
            PROVE  \E k \in DOMAIN queue' : queue'[k] = n
        <4>1. i < l \/ i > l
          BY <1>1, <1>3, <2>3, <3>2
        <4> QED BY <1>3, <3>2, <4>1
      <3>3. ASSUME NEW i \in DOMAIN queue', queue'[i] = n
            PROVE  \E k \in DOMAIN queue : queue[k] = n
        BY <1>3, <3>3
      <3> QED BY <3>1, <3>2, <3>3
    <2> QED BY <1>5, <2>1, <2>2, <2>3 DEF QueueFit
  <1>7. ActsFit(acts, job', sess)
    <2>1. \A i \in DOMAIN acts : Carries(acts[i]) => acts[i].m \in Msgs
      BY ActionFacts DEF Typed
    <2> QED BY <1>4, <1>5, <2>1 DEF ActsFit, CarriedAt
  <1>8. HandoffFit(job', handoff)
    BY <1>5 DEF HandoffFit
  <1>9. TurnFit(job', turn)
    <2>1. turn.do = "submit" => turn.m \in Msgs /\ turn.m # m
      BY <1>4, ActionFacts DEF TurnFit, InSubmit, Typed, Carries
    <2>2. \A n \in Msgs : (job'[n].at = "showing" /\ job'[n].by = NoMsg) <=> turn = Showing(n)
      BY <1>4, <1>5 DEF TurnFit
    <2>3. ReportsFit(job')
      BY <1>2, <1>4, <1>5, ReportsMove DEF TurnFit
    <2> QED BY <1>5, <2>1, <2>2, <2>3 DEF TurnFit
  <1> QED BY <1>3, <1>5, <1>6, <1>7, <1>8, <1>9
          DEF Withdraw, Typed, session, opencode, queueHistory, counts

LEMMA AbortShape ==
  ASSUME Shape, Abort
  PROVE  Shape'
  <1>1. acts' \in Seq(Actions) /\ ActsFit(acts', job, sess)
    BY ActsPlain, Values DEF Abort, PostAction, Shape, Typed, Fits
  <1>2. aborts' \in 0 .. MaxAborts
    BY Values DEF Abort, Shape, Typed
  <1>3. aborting' \subseteq Sessions
    BY DEF Abort, Shape, Typed
  <1> QED BY <1>1, <1>2, <1>3 DEF Abort, Shape, Typed, Fits, runtime, session

LEMMA AnswerShape ==
  ASSUME Shape, Answer
  PROVE  Shape'
  <1> DEFINE asking == {s \in Sessions : srv[s] = "asking"}
  <1>1. srv' = [s \in Sessions |-> IF s \in asking THEN "running" ELSE srv[s]]
    BY DEF Answer
  <1>2. srv' \in [Sessions -> ServerStates]
    BY <1>1 DEF Shape, Typed, ServerStates
  <1>3. sse' \in Seq(Events)
    <2>1. CASE asking = {}
      BY <2>1 DEF Answer, Shape, Typed
    <2>2. CASE asking # {}
      <3>1. (CHOOSE s \in asking : TRUE) \in Sessions
        BY <2>2
      <3>2. Event("replied", CHOOSE s \in asking : TRUE) \in Events
        BY <3>1 DEF Event, Events
      <3>3. sse' = Append(sse, Event("replied", CHOOSE s \in asking : TRUE))
        BY <2>2 DEF Answer
      <3> QED BY <3>2, <3>3 DEF Shape, Typed
    <2> QED BY <2>1, <2>2
  <1> QED BY <1>2, <1>3 DEF Answer, Shape, Typed, Fits, runtime, session, queueHistory, counts

-----------------------------------------------------------------------------
(* The actions of the runtime keep the shape *)

LEMMA MarkedTyped ==
  ASSUME Typed, NEW s \in Sessions \cup {NoSession}, NEW b \in BOOLEAN
  PROVE  Marked(s, b) \in [Sessions -> [busy : BOOLEAN, handed : BOOLEAN]]
  BY DEF Marked, Typed

LEMMA StartsFacts ==
  ASSUME Shape, NEW kind, Starts(kind)
  PROVE  /\ turn = AtRest /\ turn.do = "rest" /\ acts # <<>> /\ Head(acts).do = kind
         /\ Head(acts) \in Actions /\ Tail(acts) \in Seq(Actions)
         /\ kind \notin {"show", "rest"}
         /\ kind \in {"enqueue", "submit", "abort"} =>
              /\ Carries(Head(acts)) /\ Head(acts).m \in Msgs
              /\ job[Head(acts).m].at = CarriedAt(Head(acts))
         /\ kind = "enqueue" => Head(acts).m \in Queued
         /\ kind = "abort" => sess # NoSession
         /\ kind = "event" => Head(acts).e \in Events
  <1>1. /\ turn = AtRest /\ acts # <<>> /\ Head(acts).do = kind /\ turn.do = "rest"
    BY Values DEF Starts
  <1>2. Head(acts) \in Actions /\ Head(acts) = acts[1] /\ 1 \in DOMAIN acts /\ Tail(acts) \in Seq(Actions)
    BY <1>1, HeadAndTail DEF Shape, Typed
  <1> QED BY <1>1, <1>2, ActionFacts DEF Shape, Fits, ActsFit, Carries

\* The action at the head is taken, and the message it carries moves.
LEMMA StartsFits ==
  ASSUME Shape, NEW kind \in {"enqueue", "submit", "abort"}, Starts(kind),
         NEW p \in {"queued", "ensure", "waiting"}, NEW k, k = Put(job, Head(acts).m, p)
  PROVE  /\ k \in [Msgs -> Jobs] /\ k[Head(acts).m].at = p
         /\ \A n \in Msgs : n # Head(acts).m => k[n] = job[n]
         /\ ActsFit(Tail(acts), k, sess) /\ TurnFit(k, AtRest) /\ HandoffFit(k, handoff)
         /\ p # "queued" => QueueFit(queue, k)
  <1> DEFINE m == Head(acts).m
  <1>1. /\ turn = AtRest /\ acts # <<>> /\ Head(acts) \in Actions /\ Carries(Head(acts))
        /\ m \in Msgs /\ job[m].at \in {"posted", "dismissing"}
    BY StartsFacts DEF CarriedAt
  <1>2. job \in [Msgs -> Jobs] /\ acts \in Seq(Actions) /\ p \in JobPlaces
    BY DEF Shape, Typed, JobPlaces
  <1>3. /\ k \in [Msgs -> Jobs] /\ k[m].at = p
        /\ \A n \in Msgs : n # m => k[n] = job[n]
    BY <1>1, <1>2, PutFacts
  <1>4. ActsFit(Tail(acts), k, sess)
    BY <1>1, <1>2, <1>3, ActsTail DEF Shape, Fits
  <1>5. HandoffFit(k, handoff)
    BY <1>1, <1>3 DEF HandoffFit, Shape, Fits
  <1>6. ReportsFit(k)
    BY <1>1, <1>2, <1>3, ReportsMove DEF TurnFit, Shape, Fits
  <1>7. \A n \in Msgs : (k[n].at = "showing" /\ k[n].by = NoMsg) <=> AtRest = Showing(n)
    BY <1>1, <1>3 DEF TurnFit, Shape, Fits
  <1>8. TurnFit(k, AtRest)
    BY <1>6, <1>7, Values DEF TurnFit
  <1>9. p # "queued" => QueueFit(queue, k)
    BY <1>1, <1>3 DEF QueueFit, Shape, Fits
  <1> QED BY <1>3, <1>4, <1>5, <1>8, <1>9

\* The message of an enqueue action, behind those that are queued
LEMMA RunEnqueueQueue ==
  ASSUME Shape, Starts("enqueue")
  PROVE  LET q == Append(queue, Head(acts).m)
         IN  /\ q \in Seq(Queued) /\ q # <<>> /\ Head(q) \in Queued
             /\ QueueFit(q, Put(job, Head(acts).m, "queued"))
  <1> DEFINE x == Head(acts).m
             q == Append(queue, x)
             k == Put(job, x, "queued")
  <1>1. x \in Queued /\ x \in Msgs /\ job[x].at = "posted"
    BY StartsFacts, Values DEF CarriedAt
  <1>2. k[x].at = "queued" /\ \A n \in Msgs : n # x => k[n] = job[n]
    BY StartsFits
  <1>3. queue \in Seq(Queued)
    BY DEF Shape, Typed
  <1> HIDE DEF x, k
  <1>4. /\ q \in Seq(Queued) /\ DOMAIN q = DOMAIN queue \cup {Len(queue) + 1}
        /\ Len(queue) + 1 \notin DOMAIN queue /\ q[Len(queue) + 1] = x
        /\ \A i \in DOMAIN queue : q[i] = queue[i]
    BY <1>1, <1>3, Appended1
  <1>5. q # <<>> /\ Head(q) \in Queued
    <2>1. q # <<>>
      BY <1>4
    <2> QED BY <1>4, <2>1, HeadAndTail
  <1> HIDE DEF q
  <1>6. \A i \in DOMAIN queue : queue[i] # x
    BY <1>1 DEF QueueFit, Shape, Fits
  <1>7. QueueFit(q, k)
    BY <1>1, <1>2, <1>4, <1>6 DEF QueueFit, Shape, Fits
  <1> QED BY <1>4, <1>5, <1>7 DEF q, k, x

LEMMA RunEnqueueShape ==
  ASSUME Shape, RunEnqueue
  PROVE  Shape'
  <1> DEFINE x == Head(acts).m
             q == Append(queue, x)
             hands == ui /\ CanHandOff(q)
             rest == IF hands THEN Tail(q) ELSE q
             takes == rest # <<>> /\ ~Busy
             j1 == Put(job, x, "queued")
             j2 == IF hands THEN Dequeued(j1, Head(q), "handing", NoMsg) ELSE j1
             j3 == IF takes THEN Dequeued(j2, Head(rest), "ensure", NoMsg) ELSE j2
             h2 == IF hands THEN Head(q) ELSE handoff
  <1>1. /\ Starts("enqueue") /\ acts' = Tail(acts) /\ order' = Append(order, x)
        /\ queue' = IF takes THEN Tail(rest) ELSE rest
        /\ job' = j3 /\ handoff' = h2
        /\ buf' = IF takes THEN Marked(sess, TRUE) ELSE buf
        /\ past' = (past \/ hands)
    BY DEF RunEnqueue
  <1>2. turn = AtRest /\ x \in Queued /\ Tail(acts) \in Seq(Actions)
    BY <1>1, StartsFacts
  <1>3. /\ sess \in Sessions \cup {NoSession} /\ handoff \in Queued \cup {NoMsg}
        /\ past \in BOOLEAN /\ ui \in BOOLEAN /\ order \in Seq(Queued)
    BY DEF Shape, Typed
  <1>4. /\ j1 \in [Msgs -> Jobs]
        /\ ActsFit(Tail(acts), j1, sess) /\ TurnFit(j1, AtRest) /\ HandoffFit(j1, handoff)
    BY <1>1, StartsFits
  <1>5. q \in Seq(Queued) /\ q # <<>> /\ Head(q) \in Queued /\ QueueFit(q, j1)
    BY <1>1, RunEnqueueQueue
  <1>6. "handing" \in JobPlaces /\ "ensure" \in JobPlaces /\ "ensure" # "queued" /\ "handing" # "queued"
        /\ NoMsg \in Msgs \cup {NoMsg} /\ AtRest \in Actions /\ AtRest.do \in {"rest", "event"}
    BY Values DEF JobPlaces
  <1>7. hands => sess # NoSession /\ handoff = NoMsg
    BY DEF CanHandOff
  <1> HIDE DEF j1, q, hands, x
  <1>8. /\ j2 \in [Msgs -> Jobs] /\ rest \in Seq(Queued) /\ QueueFit(rest, j2)
        /\ ActsFit(Tail(acts), j2, sess) /\ TurnFit(j2, AtRest) /\ HandoffFit(j2, h2)
    <2>1. CASE ~hands
      BY <1>4, <1>5, <2>1
    <2>2. CASE hands
      <3>1. /\ j1[Head(q)].at = "queued" /\ Tail(q) \in Seq(Queued)
            /\ QueueFit(Tail(q), Dequeued(j1, Head(q), "handing", NoMsg))
        BY <1>3, <1>4, <1>5, <1>6, Dequeue
      <3>2. /\ j2 \in [Msgs -> Jobs] /\ ActsFit(Tail(acts), j2, sess)
            /\ TurnFit(j2, AtRest) /\ HandoffFit(j2, Head(q))
        BY <1>2, <1>3, <1>4, <1>5, <1>6, <1>7, <2>2, <3>1, DequeuedFits
      <3> QED BY <2>2, <3>1, <3>2
    <2> QED BY <2>1, <2>2
  <1> HIDE DEF j2, rest, h2
  <1>9. /\ j3 \in [Msgs -> Jobs] /\ queue' \in Seq(Queued) /\ QueueFit(queue', j3)
        /\ ActsFit(Tail(acts), j3, sess) /\ TurnFit(j3, AtRest) /\ HandoffFit(j3, h2)
    <2>1. CASE ~takes
      BY <1>1, <1>8, <2>1
    <2>2. CASE takes
      <3>1. /\ j2[Head(rest)].at = "queued" /\ Head(rest) \in Queued /\ Tail(rest) \in Seq(Queued)
            /\ QueueFit(Tail(rest), Dequeued(j2, Head(rest), "ensure", NoMsg))
        BY <1>3, <1>6, <1>8, <2>2, Dequeue
      <3>2. /\ j3 \in [Msgs -> Jobs] /\ ActsFit(Tail(acts), j3, sess)
            /\ TurnFit(j3, AtRest) /\ HandoffFit(j3, h2)
        BY <1>2, <1>3, <1>6, <1>8, <2>2, <3>1, DequeuedFits
      <3> QED BY <1>1, <2>2, <3>1, <3>2
    <2> QED BY <2>1, <2>2
  <1>10. buf' \in [Sessions -> [busy : BOOLEAN, handed : BOOLEAN]]
    BY <1>1, <1>3, MarkedTyped DEF Shape, Typed
  <1>11. handoff' \in Queued \cup {NoMsg}
    BY <1>1, <1>3, <1>5 DEF h2
  <1>12. past' \in BOOLEAN
    BY <1>1, <1>3
  <1>13. order' \in Seq(Queued)
    BY <1>1, <1>2, <1>3
  <1> HIDE DEF j3
  <1>14. Typed'
    BY <1>1, <1>2, <1>9, <1>10, <1>11, <1>12, <1>13
       DEF RunEnqueue, Typed, Shape, session, opencode, counts
  <1>15. Fits'
    BY <1>1, <1>2, <1>9 DEF RunEnqueue, Fits, session
  <1> QED BY <1>14, <1>15 DEF Shape

\* An action that shows nothing gives way to one that has just begun, or to none.
LEMMA TurnGoes ==
  ASSUME NEW j, NEW t, NEW u \in Actions, TurnFit(j, t), t.do # "show", u.do \in {"rest", "event"}
  PROVE  TurnFit(j, u)
  BY MessageActions DEF TurnFit

LEMMA RunDrainShape ==
  ASSUME Shape, RunDrain
  PROVE  Shape'
  <1>1. /\ turn = AtRest /\ AtRest \in Actions /\ AtRest.do = "rest" /\ acts # <<>>
        /\ acts' = Tail(acts) /\ Drain(job, Busy)
    BY Values DEF RunDrain, Starts
  <1>2. /\ job \in [Msgs -> Jobs] /\ acts \in Seq(Actions) /\ queue \in Seq(Queued)
        /\ sess \in Sessions \cup {NoSession}
        /\ ActsFit(acts, job, sess) /\ QueueFit(queue, job) /\ TurnFit(job, turn)
        /\ HandoffFit(job, handoff)
    BY DEF Shape, Typed, Fits
  <1>3. Tail(acts) \in Seq(Actions) /\ ActsFit(Tail(acts), job, sess)
    BY <1>1, <1>2, ActsTail
  <1>4. /\ queue' \in Seq(Queued) /\ job' \in [Msgs -> Jobs] /\ turn' \in Actions
        /\ ActsFit(Tail(acts), job', sess) /\ QueueFit(queue', job')
        /\ TurnFit(job', turn') /\ HandoffFit(job', handoff)
    BY <1>1, <1>2, <1>3, DrainFits
  <1>5. missed' \in BOOLEAN
    BY <1>1, DrainTyped
  <1> QED BY <1>1, <1>3, <1>4, <1>5
          DEF RunDrain, Shape, Typed, Fits, session, opencode, queueHistory, counts

LEMMA RunSubmitShape ==
  ASSUME Shape, RunSubmit
  PROVE  Shape'
  <1> DEFINE m == Head(acts).m
  <1>1. /\ Starts("submit") /\ acts' = Tail(acts) /\ turn' = Head(acts)
        /\ job' = Put(job, m, "ensure")
    BY DEF RunSubmit
  <1>2. /\ Head(acts) \in Actions /\ Head(acts).do = "submit" /\ Tail(acts) \in Seq(Actions)
        /\ m \in Msgs
    BY <1>1, StartsFacts
  <1>3. /\ job' \in [Msgs -> Jobs] /\ job'[m].at = "ensure"
        /\ ActsFit(Tail(acts), job', sess) /\ TurnFit(job', AtRest) /\ HandoffFit(job', handoff)
        /\ QueueFit(queue, job')
    BY <1>1, StartsFits
  <1>4. TurnFit(job', Head(acts))
    BY <1>2, <1>3, MessageActions, Values DEF TurnFit, InSubmit
  <1> QED BY <1>1, <1>2, <1>3, <1>4
          DEF RunSubmit, Shape, Typed, Fits, session, opencode, queueHistory, counts

LEMMA RunAbortShape ==
  ASSUME Shape, RunAbort
  PROVE  Shape'
  <1> DEFINE m == Head(acts).m
  <1>1. /\ Starts("abort") /\ acts' = Tail(acts) /\ job' = Put(job, m, "waiting")
    BY DEF RunAbort
  <1>2. Tail(acts) \in Seq(Actions) /\ sess # NoSession /\ turn = AtRest
    BY <1>1, StartsFacts
  <1>3. /\ job' \in [Msgs -> Jobs]
        /\ ActsFit(Tail(acts), job', sess) /\ TurnFit(job', AtRest) /\ HandoffFit(job', handoff)
        /\ QueueFit(queue, job')
    BY <1>1, StartsFits
  <1>4. aborting' \subseteq Sessions
    BY <1>2 DEF RunAbort, Shape, Typed
  <1> QED BY <1>1, <1>2, <1>3, <1>4
          DEF RunAbort, Shape, Typed, Fits, session, queueHistory, counts

LEMMA AppendedTyped ==
  ASSUME Typed, NEW e \in Events
  PROVE  Appended(e) \in [Sessions -> [busy : BOOLEAN, handed : BOOLEAN]]
  <1>1. e.s \in Sessions
    BY DEF Events
  <1>2. [buf EXCEPT ![e.s].handed = FALSE] \in [Sessions -> [busy : BOOLEAN, handed : BOOLEAN]]
    BY <1>1 DEF Typed
  <1>3. /\ Marked(e.s, TRUE) \in [Sessions -> [busy : BOOLEAN, handed : BOOLEAN]]
        /\ Marked(e.s, FALSE) \in [Sessions -> [busy : BOOLEAN, handed : BOOLEAN]]
    BY <1>1, MarkedTyped
  <1> QED BY <1>2, <1>3 DEF Appended, Typed

LEMMA RunEventShape ==
  ASSUME Shape, RunEvent
  PROVE  Shape'
  <1> DEFINE e == Head(acts).e
  <1>1. /\ Starts("event") /\ buf' = Appended(e)
        /\ turn' = IF Awaits(e) THEN Head(acts) ELSE AtRest
        /\ ui' = (ui \/ (e.type = "asked" /\ e.s = sess))
        /\ IF e.type = "replied" /\ e.s = sess
           THEN acts' = Append(Tail(acts), Draining) /\ HandOff
           ELSE acts' = Tail(acts) /\ UNCHANGED <<queue, handoff, job, past>>
        /\ since' = IF e.type = "asked" /\ e.s = sess THEN 0 ELSE since
    BY DEF RunEvent
  <1>2. /\ turn = AtRest /\ acts # <<>> /\ Head(acts) \in Actions /\ Head(acts).do = "event"
        /\ e \in Events
    BY <1>1, StartsFacts
  <1>3. buf' \in [Sessions -> [busy : BOOLEAN, handed : BOOLEAN]]
    BY <1>1, <1>2, AppendedTyped DEF Shape
  <1>4. /\ turn' \in Actions /\ turn'.do \in {"rest", "event"} /\ TurnFit(job, turn')
    BY <1>1, <1>2, TurnGoes, Values DEF Shape, Fits
  <1>5. Tail(acts) \in Seq(Actions) /\ ActsFit(Tail(acts), job, sess)
    BY <1>2, ActsTail DEF Shape, Typed, Fits
  <1>6. ui' \in BOOLEAN
    BY <1>1 DEF Shape, Typed
  <1>7. since' \in Nat
    BY <1>1 DEF Shape, Typed
  <1>8. /\ queue' \in Seq(Queued) /\ job' \in [Msgs -> Jobs] /\ acts' \in Seq(Actions)
        /\ handoff' \in Queued \cup {NoMsg} /\ past' \in BOOLEAN
        /\ ActsFit(acts', job', sess) /\ QueueFit(queue', job')
        /\ TurnFit(job', turn') /\ HandoffFit(job', handoff')
    <2> HIDE DEF e
    <2>1. CASE e.type = "replied" /\ e.s = sess
      <3>1. acts' = Append(Tail(acts), Draining) /\ HandOff
        BY <1>1, <2>1
      <3>2. acts' \in Seq(Actions) /\ ActsFit(acts', job, sess)
        BY <1>5, <3>1, ActsPlain, Values
      <3>3. QueueFit(queue, job) /\ HandoffFit(job, handoff) /\ Typed
        BY DEF Shape, Fits
      <3> QED BY <1>4, <3>1, <3>2, <3>3, HandOffFits
    <2>2. CASE ~(e.type = "replied" /\ e.s = sess)
      <3>1. acts' = Tail(acts) /\ queue' = queue /\ job' = job /\ handoff' = handoff /\ past' = past
        BY <1>1, <2>2
      <3> QED BY <1>4, <1>5, <3>1 DEF Shape, Typed, Fits
    <2> QED BY <2>1, <2>2
  <1> QED BY <1>3, <1>4, <1>6, <1>7, <1>8
          DEF RunEvent, Shape, Typed, Fits, session, opencode, counts

LEMMA SettleShape ==
  ASSUME Shape, Settle
  PROVE  Shape'
  <1> DEFINE e == turn.e
  <1>1. /\ turn \in Actions /\ turn.do = "event" /\ e \in Events /\ e.s \in Sessions
    BY ActionFacts DEF Settle, Shape, Typed, Events
  <1>2. /\ job \in [Msgs -> Jobs] /\ acts \in Seq(Actions) /\ queue \in Seq(Queued)
        /\ sess \in Sessions \cup {NoSession}
        /\ ActsFit(acts, job, sess) /\ QueueFit(queue, job) /\ TurnFit(job, turn)
        /\ HandoffFit(job, handoff)
    BY DEF Shape, Typed, Fits
  <1>3. /\ \/ Drain(job, Busy) /\ buf' = buf /\ handoff' = handoff /\ past' = past
           \/ Drain(job, FALSE) /\ buf' = Marked(e.s, FALSE) /\ handoff' = handoff /\ past' = past
           \/ /\ turn' = AtRest /\ missed' = TRUE
              /\ UNCHANGED <<queue, job, buf, handoff, past>>
           \/ turn' = AtRest /\ HandOff /\ buf' = buf /\ missed' = missed
        /\ UNCHANGED <<session, ui, acts, opencode, order, since, counts>>
    BY DEF Settle
  <1>4. ASSUME NEW busy, Drain(job, busy), handoff' = handoff, past' = past
        PROVE  /\ queue' \in Seq(Queued) /\ job' \in [Msgs -> Jobs] /\ turn' \in Actions
               /\ handoff' \in Queued \cup {NoMsg} /\ past' \in BOOLEAN
               /\ ActsFit(acts, job', sess) /\ QueueFit(queue', job')
               /\ TurnFit(job', turn') /\ HandoffFit(job', handoff')
    BY <1>1, <1>2, <1>4, DrainFits DEF Shape, Typed
  <1>5. ASSUME turn' = AtRest, HandOff
        PROVE  /\ queue' \in Seq(Queued) /\ job' \in [Msgs -> Jobs] /\ turn' \in Actions
               /\ handoff' \in Queued \cup {NoMsg} /\ past' \in BOOLEAN
               /\ ActsFit(acts, job', sess) /\ QueueFit(queue', job')
               /\ TurnFit(job', turn') /\ HandoffFit(job', handoff')
    <2>1. TurnFit(job, AtRest) /\ AtRest.do \in {"rest", "event"} /\ AtRest \in Actions
      BY <1>1, <1>2, TurnGoes, Values
    <2> QED BY <1>2, <1>5, <2>1, HandOffFits DEF Shape
  <1>8. ASSUME turn' = AtRest, UNCHANGED <<queue, job, buf, handoff, past>>
        PROVE  /\ queue' \in Seq(Queued) /\ job' \in [Msgs -> Jobs] /\ turn' \in Actions
               /\ handoff' \in Queued \cup {NoMsg} /\ past' \in BOOLEAN
               /\ ActsFit(acts, job', sess) /\ QueueFit(queue', job')
               /\ TurnFit(job', turn') /\ HandoffFit(job', handoff')
    <2>1. TurnFit(job, AtRest) /\ AtRest \in Actions
      BY <1>1, <1>2, TurnGoes, Values
    <2> QED BY <1>2, <1>8, <2>1 DEF Shape, Typed
  <1>6. buf' \in [Sessions -> [busy : BOOLEAN, handed : BOOLEAN]]
    <2>1. Marked(e.s, FALSE) \in [Sessions -> [busy : BOOLEAN, handed : BOOLEAN]]
      BY <1>1, MarkedTyped DEF Shape
    <2> QED BY <1>3, <2>1 DEF Shape, Typed
  <1>7. /\ queue' \in Seq(Queued) /\ job' \in [Msgs -> Jobs] /\ turn' \in Actions
        /\ handoff' \in Queued \cup {NoMsg} /\ past' \in BOOLEAN
        /\ ActsFit(acts, job', sess) /\ QueueFit(queue', job')
        /\ TurnFit(job', turn') /\ HandoffFit(job', handoff')
    BY <1>3, <1>4, <1>5, <1>8
  <1>9. missed' \in BOOLEAN
    BY <1>3, DrainTyped DEF Shape, Typed
  <1> QED BY <1>3, <1>6, <1>7, <1>9 DEF Shape, Typed, Fits, session, opencode, counts

-----------------------------------------------------------------------------
(* Dispatches and submissions keep the shape *)

LEMMA MoveFits ==
  ASSUME Shape, NEW m \in Msgs, job[m].at \in Loose, NEW k \in [Msgs -> Jobs],
         k[m].at \in Loose \cup {"report"}, \A n \in Msgs : n # m => k[n] = job[n],
         turn.do = "submit" /\ turn.m = m => k[m].at \in InSubmit
  PROVE  /\ ActsFit(acts, k, sess) /\ QueueFit(queue, k)
         /\ TurnFit(k, turn) /\ HandoffFit(k, handoff)
  BY FitsMove DEF Shape, Typed, Fits

\* The submit action of m ends.
LEMMA SubmitDone ==
  ASSUME Shape, NEW m \in Msgs, job[m].at \in Loose, Submits(m), NEW k \in [Msgs -> Jobs],
         k[m].at \in Loose, \A n \in Msgs : n # m => k[n] = job[n]
  PROVE  /\ ActsFit(acts, k, sess) /\ QueueFit(queue, k)
         /\ TurnFit(k, AtRest) /\ HandoffFit(k, handoff) /\ HandoffFit(k, Released(m))
         /\ Released(m) \in Queued \cup {NoMsg}
  <1>1. TurnFit(job, AtRest) /\ AtRest \in Actions /\ AtRest.do # "submit"
    BY TurnGoes, Values DEF Submits, Shape, Fits
  <1>0. /\ job \in [Msgs -> Jobs] /\ acts \in Seq(Actions) /\ queue \in Seq(Queued)
        /\ ActsFit(acts, job, sess) /\ QueueFit(queue, job) /\ HandoffFit(job, handoff)
    BY DEF Shape, Typed, Fits
  <1>2. /\ ActsFit(acts, k, sess) /\ QueueFit(queue, k)
        /\ TurnFit(k, AtRest) /\ HandoffFit(k, handoff)
    BY <1>0, <1>1, FitsMove
  <1>3. HandoffFit(k, Released(m))
    BY <1>2 DEF HandoffFit, Released, Loose
  <1>4. Released(m) \in Queued \cup {NoMsg}
    BY DEF Released, Shape, Typed
  <1> QED BY <1>2, <1>3, <1>4

\* A dispatch that reported its error goes on.
LEMMA ReportEnds ==
  ASSUME NEW j \in [Msgs -> Jobs], NEW k \in [Msgs -> Jobs], NEW m \in Msgs,
         j[m].at = "report", k[m].at \in Loose, \A n \in Msgs : n # m => k[n] = j[n],
         \A n \in Msgs : ~(j[n].at = "showing" /\ j[n].by = m),
         NEW a \in Seq(Actions), NEW q \in Seq(Queued), NEW t \in Actions, NEW h, NEW s,
         ActsFit(a, j, s), QueueFit(q, j), TurnFit(j, t), HandoffFit(j, h)
  PROVE  ActsFit(a, k, s) /\ QueueFit(q, k) /\ TurnFit(k, t) /\ HandoffFit(k, h)
  <1>1. ActsFit(a, k, s)
    BY ActionFacts DEF ActsFit, CarriedAt
  <1>2. QueueFit(q, k)
    BY DEF QueueFit, Loose
  <1>3. TurnFit(k, t)
    <2>1. t.do \in {"rest", "submit", "show", "event"}
      BY DEF TurnFit
    <2>2. t.do = "submit" => k[t.m].at \in InSubmit
      BY ActionFacts DEF TurnFit, Carries, InSubmit
    <2>3. \A n \in Msgs : (k[n].at = "showing" /\ k[n].by = NoMsg) <=> t = Showing(n)
      BY DEF TurnFit, Loose
    <2>4. ReportsFit(k)
      BY DEF TurnFit, ReportsFit, Loose, Jobs
    <2> QED BY <2>1, <2>2, <2>3, <2>4 DEF TurnFit
  <1>4. HandoffFit(k, h)
    BY DEF HandoffFit, Loose
  <1> QED BY <1>1, <1>2, <1>3, <1>4

\* An indicator has been sent, or could not be.
LEMMA IndicatorFits ==
  ASSUME NEW j \in [Msgs -> Jobs], NEW k \in [Msgs -> Jobs], NEW m \in Msgs,
         j[m].at = "showing", k[m].at \in Loose, k[m].by = j[m].by,
         \A n \in Msgs : n # m => k[n] = j[n],
         NEW a \in Seq(Actions), NEW q \in Seq(Queued), NEW t \in Actions, NEW h, NEW s,
         ActsFit(a, j, s), QueueFit(q, j), TurnFit(j, t), HandoffFit(j, h)
  PROVE  /\ ActsFit(a, k, s) /\ QueueFit(q, k) /\ HandoffFit(k, h)
         /\ j[m].by = NoMsg => TurnFit(k, AtRest)
         /\ j[m].by # NoMsg =>
              /\ TurnFit(k, t) /\ j[m].by \in Msgs /\ j[m].by # m /\ k[j[m].by].at = "report"
              /\ \A n \in Msgs : ~(k[n].at = "showing" /\ k[n].by = j[m].by)
  <1>1. ActsFit(a, k, s)
    BY ActionFacts DEF ActsFit, CarriedAt
  <1>2. QueueFit(q, k)
    BY DEF QueueFit, Loose
  <1>3. HandoffFit(k, h)
    BY DEF HandoffFit, Loose
  <1>4. ReportsFit(k)
    BY ReportsMove DEF TurnFit, Loose
  <1>5. ASSUME j[m].by = NoMsg PROVE TurnFit(k, AtRest)
    <2>1. \A n \in Msgs : Showing(n) # AtRest
      BY MessageActions, Values
    <2>2. \A n \in Msgs : j[n].at = "showing" /\ j[n].by = NoMsg => n = m
      <3> SUFFICES ASSUME NEW n \in Msgs, j[n].at = "showing" /\ j[n].by = NoMsg PROVE n = m
        OBVIOUS
      <3>1. t = Showing(n) /\ t = Showing(m)
        BY <1>5 DEF TurnFit
      <3>2. Showing(n).m = n /\ Showing(m).m = m
        BY MessageActions
      <3> QED BY <3>1, <3>2
    <2>3. \A n \in Msgs : ~(k[n].at = "showing" /\ k[n].by = NoMsg)
      BY <2>2 DEF Loose
    <2> QED BY <1>4, <2>1, <2>3, Values DEF TurnFit
  <1>6. ASSUME j[m].by # NoMsg
        PROVE  /\ TurnFit(k, t) /\ j[m].by \in Msgs /\ j[m].by # m /\ k[j[m].by].at = "report"
               /\ \A n \in Msgs : ~(k[n].at = "showing" /\ k[n].by = j[m].by)
    <2>1. j[m].by \in Msgs /\ j[j[m].by].at = "report"
      BY <1>6 DEF TurnFit, ReportsFit, Jobs
    <2>2. j[m].by # m /\ k[j[m].by].at = "report"
      BY <2>1
    <2>3. \A n \in Msgs : j[n].at = "showing" /\ j[n].by = j[m].by => n = m
      BY <1>6 DEF TurnFit, ReportsFit
    <2>4. \A n \in Msgs : ~(k[n].at = "showing" /\ k[n].by = j[m].by)
      BY <2>3 DEF Loose
    <2>5. t.do = "submit" => t.m \in Msgs /\ t.m # m
      BY ActionFacts DEF TurnFit, InSubmit, Carries
    <2>6. \A n \in Msgs : (k[n].at = "showing" /\ k[n].by = NoMsg) <=> t = Showing(n)
      BY <1>6 DEF TurnFit, Loose
    <2>7. TurnFit(k, t)
      BY <1>4, <2>5, <2>6 DEF TurnFit
    <2> QED BY <2>1, <2>2, <2>4, <2>7
  <1> QED BY <1>1, <1>2, <1>3, <1>5, <1>6

\* The indicator of m ends in place p; the failed dispatch that drained for it goes on.
LEMMA IndicatorEnds ==
  ASSUME Shape, NEW m \in Msgs, job[m].at = "showing", NEW p \in {"ensure", "lost"},
         IF job[m].by = NoMsg
         THEN turn' = AtRest /\ job' = Put(job, m, p)
         ELSE turn' = turn /\ job' = Put(Put(job, m, p), job[m].by, "failing")
  PROVE  /\ job' \in [Msgs -> Jobs] /\ turn' \in Actions
         /\ ActsFit(acts, job', sess) /\ QueueFit(queue, job')
         /\ TurnFit(job', turn') /\ HandoffFit(job', handoff)
  <1> DEFINE k == Put(job, m, p)
             b == job[m].by
  <1>1. /\ job \in [Msgs -> Jobs] /\ acts \in Seq(Actions) /\ queue \in Seq(Queued) /\ turn \in Actions
        /\ ActsFit(acts, job, sess) /\ QueueFit(queue, job) /\ TurnFit(job, turn)
        /\ HandoffFit(job, handoff) /\ p \in JobPlaces /\ p \in Loose
        /\ "failing" \in JobPlaces /\ "failing" \in Loose
    BY DEF Shape, Typed, Fits, JobPlaces, Loose
  <1>2. /\ k \in [Msgs -> Jobs] /\ k[m].at = p /\ k[m].by = b
        /\ \A n \in Msgs : n # m => k[n] = job[n]
    BY <1>1, PutFacts
  <1>3. b = NoMsg => turn' = AtRest /\ job' = k
    OBVIOUS
  <1>4. b # NoMsg => turn' = turn /\ job' = Put(k, b, "failing")
    OBVIOUS
  <1> HIDE DEF k
  <1>5. /\ ActsFit(acts, k, sess) /\ QueueFit(queue, k) /\ HandoffFit(k, handoff)
        /\ b = NoMsg => TurnFit(k, AtRest)
        /\ b # NoMsg =>
             /\ TurnFit(k, turn) /\ b \in Msgs /\ b # m /\ k[b].at = "report"
             /\ \A n \in Msgs : ~(k[n].at = "showing" /\ k[n].by = b)
    BY <1>1, <1>2, IndicatorFits
  <1> HIDE DEF b
  <1>6. CASE b = NoMsg
    BY <1>2, <1>3, <1>5, <1>6, Values
  <1>7. CASE b # NoMsg
    <2> DEFINE l == Put(k, b, "failing")
    <2>1. /\ l \in [Msgs -> Jobs] /\ l[b].at = "failing" /\ \A n \in Msgs : n # b => l[n] = k[n]
      BY <1>1, <1>2, <1>5, <1>7, PutFacts
    <2> HIDE DEF l
    <2>2. /\ ActsFit(acts, l, sess) /\ QueueFit(queue, l) /\ HandoffFit(l, handoff)
          /\ TurnFit(l, turn)
      BY <1>1, <1>2, <1>5, <1>7, <2>1, ReportEnds
    <2> QED BY <1>1, <1>4, <1>7, <2>1, <2>2 DEF l
  <1> QED BY <1>6, <1>7

LEMMA ShownShape ==
  ASSUME Shape, NEW m \in Msgs, Shown(m)
  PROVE  Shape'
  <1>1. job[m].at = "showing" /\ "ensure" \in {"ensure", "lost"}
    BY DEF Shown
  <1>2. IF job[m].by = NoMsg
        THEN turn' = AtRest /\ job' = Put(job, m, "ensure")
        ELSE turn' = turn /\ job' = Put(Put(job, m, "ensure"), job[m].by, "failing")
    BY DEF Shown
  <1>3. /\ job' \in [Msgs -> Jobs] /\ turn' \in Actions
        /\ ActsFit(acts, job', sess) /\ QueueFit(queue, job')
        /\ TurnFit(job', turn') /\ HandoffFit(job', handoff)
    BY <1>1, <1>2, IndicatorEnds
  <1>4. buf' \in [Sessions -> [busy : BOOLEAN, handed : BOOLEAN]]
    <2>1. job[m].known \in Sessions \cup {NoSession}
      BY DEF Shape, Typed, Jobs
    <2> QED BY <2>1, MarkedTyped DEF Shown, Shape
  <1> QED BY <1>3, <1>4 DEF Shown, Shape, Typed, Fits, session, opencode, queueHistory, counts

LEMMA HandoffShownShape ==
  ASSUME Shape, HandoffShown
  PROVE  Shape'
  <1> DEFINE m == handoff
  <1>1. /\ m \in Msgs /\ job[m].at = "handing" /\ job[m].known \in Sessions
        /\ job' = Put(job, m, "posted") /\ PostAction(Submitting(m)) /\ since' = since + 1
        /\ buf' = [buf EXCEPT ![job[m].known].handed = TRUE]
    <2>1. m \in Msgs
      BY Values DEF HandoffShown, Shape, Typed
    <2>2. job[m].known # NoSession
      BY <2>1 DEF HandoffShown, Shape, Fits, HandoffFit
    <2>3. job[m].known \in Sessions
      BY <2>1, <2>2 DEF Shape, Typed, Jobs
    <2> QED BY <2>1, <2>3 DEF HandoffShown
  <1>2. turn.do = "submit" => turn.m # m
    BY <1>1 DEF Shape, Fits, TurnFit, InSubmit
  <1>3. /\ Submitting(m) \in Actions /\ Submitting(m).do = "submit" /\ Submitting(m).m = m
        /\ Carries(Submitting(m)) /\ CarriedAt(Submitting(m)) = "posted"
    BY <1>1, MessageActions DEF Carries, CarriedAt
  <1>4. /\ job' \in [Msgs -> Jobs] /\ acts' \in Seq(Actions)
        /\ ActsFit(acts', job', sess) /\ QueueFit(queue, job')
        /\ TurnFit(job', turn) /\ HandoffFit(job', handoff)
    BY <1>1, <1>2, <1>3, PostMessage
  <1>5. buf' \in [Sessions -> [busy : BOOLEAN, handed : BOOLEAN]]
    BY <1>1 DEF Shape, Typed
  <1>6. since' \in Nat
    BY <1>1 DEF Shape, Typed
  <1> QED BY <1>4, <1>5, <1>6
          DEF HandoffShown, Shape, Typed, Fits, session, opencode, counts

LEMMA ShowFailsShape ==
  ASSUME Shape, NEW m \in Msgs, ShowFails(m)
  PROVE  Shape'
  <1>1. CASE job[m].at = "showing"
    <2>0. job[m].by = NoMsg => turn' = AtRest /\ job' = Put(job, m, "lost") /\ buf' = buf
      BY <1>1 DEF ShowFails
    <2>a. job[m].by # NoMsg => /\ turn' = turn
                               /\ job' = Put(Put(job, m, "lost"), job[m].by, "failing")
                               /\ buf' = Marked(job[job[m].by].known, FALSE)
      BY <1>1 DEF ShowFails
    <2>b. handoff' = handoff
      BY <1>1 DEF ShowFails
    <2>1. IF job[m].by = NoMsg
          THEN turn' = AtRest /\ job' = Put(job, m, "lost")
          ELSE turn' = turn /\ job' = Put(Put(job, m, "lost"), job[m].by, "failing")
      BY <2>0, <2>a
    <2>2. /\ job' \in [Msgs -> Jobs] /\ turn' \in Actions
          /\ ActsFit(acts, job', sess) /\ QueueFit(queue, job')
          /\ TurnFit(job', turn') /\ HandoffFit(job', handoff)
      BY <1>1, <2>1, IndicatorEnds
    <2>3. buf' \in [Sessions -> [busy : BOOLEAN, handed : BOOLEAN]]
      <3>1. job[m].by # NoMsg => job[job[m].by].known \in Sessions \cup {NoSession}
        BY DEF Shape, Typed, Jobs
      <3>2. job[m].by # NoMsg =>
              Marked(job[job[m].by].known, FALSE) \in [Sessions -> [busy : BOOLEAN, handed : BOOLEAN]]
        BY <3>1, MarkedTyped DEF Shape
      <3> QED BY <2>0, <2>a, <3>2 DEF Shape, Typed
    <2>4. missed' \in BOOLEAN
      BY <1>1 DEF ShowFails, Shape, Typed
    <2> QED BY <2>b, <2>2, <2>3, <2>4
            DEF ShowFails, Shape, Typed, Fits, session, opencode, queueHistory, counts
  <1>2. CASE job[m].at = "handing"
    <2>1. handoff' = NoMsg /\ job' = Put(job, m, "lost") /\ turn' = turn /\ buf' = buf
      BY <1>2 DEF ShowFails
    <2>2. "lost" \in JobPlaces /\ job \in [Msgs -> Jobs] /\ acts \in Seq(Actions) /\ turn \in Actions
      BY DEF JobPlaces, Shape, Typed
    <2>3. /\ job' \in [Msgs -> Jobs] /\ job'[m].at = "lost" /\ \A n \in Msgs : n # m => job'[n] = job[n]
      BY <2>1, <2>2, PutFacts
    <2>4. ActsFit(acts, job', sess)
      BY <1>2, <2>2, <2>3, ActionFacts DEF ActsFit, CarriedAt, Shape, Fits
    <2>5. QueueFit(queue, job')
      BY <1>2, <2>3 DEF QueueFit, Shape, Fits
    <2>6. HandoffFit(job', NoMsg)
      BY <1>2, <2>3 DEF HandoffFit, Shape, Fits
    <2>7. ReportsFit(job')
      BY <1>2, <2>2, <2>3, ReportsMove DEF Shape, Fits, TurnFit
    <2>8. turn.do = "submit" => job'[turn.m].at \in InSubmit
      BY <1>2, <2>2, <2>3, ActionFacts DEF Shape, Fits, TurnFit, InSubmit, Carries
    <2>9. \A n \in Msgs : (job'[n].at = "showing" /\ job'[n].by = NoMsg) <=> turn = Showing(n)
      BY <1>2, <2>3 DEF Shape, Fits, TurnFit
    <2>10. TurnFit(job', turn)
      BY <2>7, <2>8, <2>9 DEF TurnFit, Shape, Fits
    <2> QED BY <2>1, <2>3, <2>4, <2>5, <2>6, <2>10
            DEF ShowFails, Shape, Typed, Fits, session, opencode, queueHistory, counts
  <1> QED BY <1>1, <1>2 DEF ShowFails

LEMMA SessionFits ==
  ASSUME NEW a, NEW j, NEW s, NEW r, ActsFit(a, j, s), r # NoSession
  PROVE  ActsFit(a, j, r)
  BY DEF ActsFit

\* A dispatch or submission gets its session.
LEMMA TargetFits ==
  ASSUME Shape, NEW m \in Msgs, job[m].at \in {"ensure", "create"}, NEW s \in Sessions,
         job' = [job EXCEPT ![m].at = "prompt", ![m].target = s], sess' = s, saved' = s,
         UNCHANGED <<queue, buf, handoff, turn, ui, acts, opencode, queueHistory>>
  PROVE  Shape'
  <1> DEFINE k == [job EXCEPT ![m].at = "prompt", ![m].target = s]
  <1>1. /\ k \in [Msgs -> Jobs] /\ k[m].at = "prompt"
        /\ \A n \in Msgs : n # m => k[n] = job[n]
    <2> DEFINE w == [job[m] EXCEPT !.at = "prompt", !.target = s]
    <2>1. job \in [Msgs -> Jobs] /\ job[m] \in Jobs
      BY DEF Shape, Typed
    <2>2. w \in Jobs /\ w.at = "prompt"
      BY <2>1 DEF Jobs, JobPlaces
    <2>3. k = [job EXCEPT ![m] = w]
      BY <2>1
    <2> HIDE DEF w, k
    <2> QED BY <2>1, <2>2, <2>3
  <1>2. job' = k
    OBVIOUS
  <1> HIDE DEF k
  <1>3. /\ ActsFit(acts, k, sess) /\ QueueFit(queue, k)
        /\ TurnFit(k, turn) /\ HandoffFit(k, handoff)
    BY <1>1, MoveFits DEF Loose, InSubmit
  <1>4. ActsFit(acts, k, s)
    BY <1>3, SessionFits, Values
  <1> QED BY <1>1, <1>2, <1>3, <1>4 DEF Shape, Typed, Fits, opencode, queueHistory, counts

LEMMA EnsureSessionShape ==
  ASSUME Shape, NEW m \in Msgs, EnsureSession(m)
  PROVE  Shape'
  <1> DEFINE s == IF sess # NoSession THEN sess ELSE saved
  <1>1. CASE s = NoSession
    <2>1. job' = Put(job, m, "create") /\ sess' = sess /\ saved' = saved
      BY <1>1 DEF EnsureSession, session
    <2>2. /\ job' \in [Msgs -> Jobs] /\ job'[m].at = "create"
          /\ \A n \in Msgs : n # m => job'[n] = job[n]
      <3>1. job \in [Msgs -> Jobs] /\ "create" \in JobPlaces
        BY DEF Shape, Typed, JobPlaces
      <3> QED BY <2>1, <3>1, PutFacts
    <2>3. /\ ActsFit(acts, job', sess) /\ QueueFit(queue, job')
          /\ TurnFit(job', turn) /\ HandoffFit(job', handoff)
      BY <2>2, MoveFits DEF Loose, InSubmit, EnsureSession
    <2> QED BY <2>1, <2>2, <2>3 DEF EnsureSession, Shape, Typed, Fits, opencode, queueHistory, counts
  <1>2. CASE s # NoSession
    <2>1. s \in Sessions
      BY <1>2 DEF Shape, Typed
    <2>2. /\ job' = [job EXCEPT ![m].at = "prompt", ![m].target = s] /\ sess' = s /\ saved' = s
          /\ job[m].at \in {"ensure", "create"}
          /\ UNCHANGED <<queue, buf, handoff, turn, ui, acts, opencode, queueHistory>>
      BY <1>2 DEF EnsureSession
    <2> HIDE DEF s
    <2> QED BY <2>1, <2>2, TargetFits
  <1> QED BY <1>1, <1>2

LEMMA CreateSessionShape ==
  ASSUME Shape, NEW m \in Msgs, CreateSession(m)
  PROVE  Shape'
  <1>1. PICK s \in Sessions \ Created :
          /\ job' = [job EXCEPT ![m].at = "prompt", ![m].target = s]
          /\ sess' = s /\ saved' = s
    BY DEF CreateSession
  <1> QED BY <1>1, TargetFits DEF CreateSession

LEMMA EventTyped ==
  ASSUME NEW s \in Sessions,
         NEW type \in {"busy", "retry", "idle", "error", "asked", "replied"}
  PROVE  /\ Event(type, s) \in Events /\ Event(type, s).type = type /\ Event(type, s).s = s
         /\ \A natural \in BOOLEAN :
              /\ [Event(type, s) EXCEPT !.natural = natural] \in Events
              /\ [Event(type, s) EXCEPT !.natural = natural].type = type
              /\ [Event(type, s) EXCEPT !.natural = natural].s = s
  BY DEF Event, Events

LEMMA PromptShape ==
  ASSUME Shape, NEW m \in Msgs, Prompt(m), job[m].target \in Sessions
  PROVE  Shape'
  <1>1. /\ job' \in [Msgs -> Jobs] /\ job'[m].at = "reply"
        /\ \A n \in Msgs : n # m => job'[n] = job[n]
    <2>1. {"reply"} \subseteq JobPlaces /\ job \in [Msgs -> Jobs]
      BY DEF JobPlaces, Shape, Typed
    <2>2. \E p \in {"reply"} : job' = Put(job, m, p)
      BY DEF Prompt
    <2> QED BY <2>1, <2>2, PutFacts
  <1>2. /\ ActsFit(acts, job', sess) /\ QueueFit(queue, job')
        /\ TurnFit(job', turn) /\ HandoffFit(job', handoff)
    BY <1>1, MoveFits DEF Loose, InSubmit, Prompt
  <1>3. srv' \in [Sessions -> ServerStates]
    BY DEF Prompt, Shape, Typed, ServerStates
  <1>4. sse' \in Seq(Events)
    <2>1. Event("busy", job[m].target) \in Events
      BY EventTyped
    <2>2. sse' = sse \/ sse' = Append(sse, Event("busy", job[m].target))
      BY DEF Prompt
    <2>3. sse \in Seq(Events)
      BY DEF Shape, Typed
    <2> QED BY <2>1, <2>2, <2>3, Appended1
  <1> QED BY <1>1, <1>2, <1>3, <1>4 DEF Prompt, Shape, Typed, Fits, session, queueHistory, counts

LEMMA SubmitEndsShape ==
  ASSUME Shape, NEW m \in Msgs, SubmitEnds(m)
  PROVE  Shape'
  <1>1. /\ job' \in [Msgs -> Jobs] /\ job'[m].at = "prompted"
        /\ \A n \in Msgs : n # m => job'[n] = job[n]
    <2>1. job \in [Msgs -> Jobs] /\ "prompted" \in JobPlaces
      BY DEF Shape, Typed, JobPlaces
    <2> QED BY <2>1, PutFacts DEF SubmitEnds
  <1>2. /\ ActsFit(acts, job', sess) /\ QueueFit(queue, job')
        /\ TurnFit(job', AtRest) /\ HandoffFit(job', Released(m))
        /\ Released(m) \in Queued \cup {NoMsg}
    BY <1>1, SubmitDone DEF Loose, SubmitEnds
  <1>3. buf' \in [Sessions -> [busy : BOOLEAN, handed : BOOLEAN]]
    <2>1. job[m].target \in Sessions \cup {NoSession}
      BY DEF Shape, Typed, Jobs
    <2> QED BY <2>1, MarkedTyped DEF SubmitEnds, Shape
  <1> QED BY <1>1, <1>2, <1>3, Values
          DEF SubmitEnds, Shape, Typed, Fits, session, opencode, queueHistory, counts

LEMMA DispatchEndsShape ==
  ASSUME Shape, NEW m \in Msgs, DispatchEnds(m)
  PROVE  Shape'
  <1>1. /\ job' \in [Msgs -> Jobs] /\ job'[m].at \in {"prompted", "failed"}
        /\ \A n \in Msgs : n # m => job'[n] = job[n]
    <2>1. {"prompted", "failed"} \subseteq JobPlaces /\ job \in [Msgs -> Jobs]
      BY DEF JobPlaces, Shape, Typed
    <2>2. \E p \in {"prompted", "failed"} : job' = Put(job, m, p)
      BY DEF DispatchEnds
    <2> QED BY <2>1, <2>2, PutFacts
  <1>2. /\ ActsFit(acts, job', sess) /\ QueueFit(queue, job')
        /\ TurnFit(job', turn) /\ HandoffFit(job', handoff)
    BY <1>1, MoveFits DEF Loose, DispatchEnds, Submits
  <1>3. acts' \in Seq(Actions) /\ ActsFit(acts', job', sess)
    BY <1>2, ActsPlain, Values DEF DispatchEnds, PostAction, Shape, Typed
  <1> QED BY <1>1, <1>2, <1>3
          DEF DispatchEnds, Shape, Typed, Fits, session, opencode, queueHistory, counts

LEMMA DispatchFailsShape ==
  ASSUME Shape, NEW m \in Msgs, DispatchFails(m)
  PROVE  Shape'
  <1>1. /\ job' \in [Msgs -> Jobs] /\ job'[m].at \in {"report", "failing"}
        /\ \A n \in Msgs : n # m => job'[n] = job[n]
    <2>1. {"report", "failing"} \subseteq JobPlaces /\ job \in [Msgs -> Jobs]
      BY DEF JobPlaces, Shape, Typed
    <2>2. \E p \in {"report", "failing"} : job' = Put(job, m, p)
      BY DEF DispatchFails
    <2> QED BY <2>1, <2>2, PutFacts
  <1>2. /\ ActsFit(acts, job', sess) /\ QueueFit(queue, job')
        /\ TurnFit(job', turn) /\ HandoffFit(job', handoff)
    BY <1>1, MoveFits DEF Loose, DispatchFails, Submits
  <1>3. acts' \in Seq(Actions) /\ ActsFit(acts', job', sess)
    <2>1. acts' = acts \/ acts' = Append(acts, Draining)
      BY DEF DispatchFails, PostAction
    <2>2. acts \in Seq(Actions)
      BY DEF Shape, Typed
    <2>3. Append(acts, Draining) \in Seq(Actions) /\ ActsFit(Append(acts, Draining), job', sess)
      BY <1>2, <2>2, ActsPlain, Values
    <2> QED BY <1>2, <2>1, <2>2, <2>3
  <1> QED BY <1>1, <1>2, <1>3
          DEF DispatchFails, Shape, Typed, Fits, session, opencode, queueHistory, counts

LEMMA DispatchThrowsShape ==
  ASSUME Shape, NEW m \in Msgs, DispatchThrows(m)
  PROVE  Shape'
  <1>1. /\ job' \in [Msgs -> Jobs] /\ job'[m].at = "failing"
        /\ \A n \in Msgs : n # m => job'[n] = job[n]
    <2>1. {"failing"} \subseteq JobPlaces /\ job \in [Msgs -> Jobs]
      BY DEF JobPlaces, Shape, Typed
    <2>2. \E p \in {"failing"} : job' = Put(job, m, p)
      BY DEF DispatchThrows
    <2> QED BY <2>1, <2>2, PutFacts
  <1>2. /\ ActsFit(acts, job', sess) /\ QueueFit(queue, job')
        /\ TurnFit(job', turn) /\ HandoffFit(job', handoff)
    BY <1>1, MoveFits DEF Loose, DispatchThrows, Submits
  <1>3. buf' \in [Sessions -> [busy : BOOLEAN, handed : BOOLEAN]]
    <2>1. job[m].known \in Sessions \cup {NoSession}
      BY DEF Shape, Typed, Jobs
    <2> QED BY <2>1, MarkedTyped DEF DispatchThrows, Shape
  <1> QED BY <1>1, <1>2, <1>3
          DEF DispatchThrows, Shape, Typed, Fits, session, opencode, queueHistory, counts

LEMMA SubmitFailsShape ==
  ASSUME Shape, NEW m \in Msgs, SubmitFails(m)
  PROVE  Shape'
  <1> DEFINE k == Put(job, m, "failed")
  <1>1. /\ k \in [Msgs -> Jobs] /\ k[m].at = "failed"
        /\ \A n \in Msgs : n # m => k[n] = job[n]
    BY PutFacts DEF Shape, Typed, JobPlaces
  <1>2. Drain(k, Busy) /\ Submits(m) /\ job[m].at \in Loose /\ handoff' = Released(m)
    BY DEF SubmitFails, Loose
  <1> HIDE DEF k
  <1>3. /\ ActsFit(acts, k, sess) /\ QueueFit(queue, k)
        /\ TurnFit(k, AtRest) /\ HandoffFit(k, handoff) /\ HandoffFit(k, Released(m))
        /\ Released(m) \in Queued \cup {NoMsg}
    BY <1>1, <1>2, SubmitDone DEF Loose
  <1>4. /\ queue' \in Seq(Queued) /\ job' \in [Msgs -> Jobs] /\ turn' \in Actions
        /\ ActsFit(acts, job', sess) /\ QueueFit(queue', job')
        /\ TurnFit(job', turn') /\ HandoffFit(job', handoff)
    BY <1>1, <1>2, <1>3, DrainFits, Values DEF Shape, Typed
  <1>5. HandoffFit(job', Released(m))
    <2>1. \A n \in Msgs : job'[n].at = "handing" => k[n].at = "handing"
      BY <1>1, <1>2, DrainMoves DEF Shape, Typed, Fits
    <2> QED BY <1>3, <1>4, <2>1 DEF HandoffFit
  <1>6. missed' \in BOOLEAN
    BY <1>2, DrainTyped
  <1> QED BY <1>2, <1>3, <1>4, <1>5, <1>6
          DEF SubmitFails, Shape, Typed, Fits, session, opencode, queueHistory, counts

LEMMA ReportedShape ==
  ASSUME Shape, NEW m \in Msgs, Reported(m)
  PROVE  Shape'
  <1>1. /\ job[m].at = "report" /\ \A n \in Msgs : ~(job[n].at = "showing" /\ job[n].by = m)
        /\ UNCHANGED <<session, buf, handoff, turn, ui, acts, opencode, order, past, since, counts>>
        /\ missed' \in BOOLEAN
    BY DEF Reported
  <1>2. /\ job \in [Msgs -> Jobs] /\ acts \in Seq(Actions) /\ queue \in Seq(Queued) /\ turn \in Actions
        /\ sess \in Sessions \cup {NoSession}
        /\ ActsFit(acts, job, sess) /\ QueueFit(queue, job) /\ TurnFit(job, turn)
        /\ HandoffFit(job, handoff)
    BY DEF Shape, Typed, Fits
  <1>3. CASE ~Drainable(Busy)
    <2>1. job' = Put(job, m, "failing") /\ queue' = queue
      BY <1>3 DEF Reported
    <2>2. /\ job' \in [Msgs -> Jobs] /\ job'[m].at = "failing"
          /\ \A n \in Msgs : n # m => job'[n] = job[n]
      BY <1>2, <2>1, PutFacts DEF JobPlaces
    <2>3. /\ ActsFit(acts, job', sess) /\ QueueFit(queue, job')
          /\ TurnFit(job', turn) /\ HandoffFit(job', handoff)
      BY <1>1, <1>2, <2>2, ReportEnds DEF Loose
    <2> QED BY <1>1, <2>1, <2>2, <2>3 DEF Shape, Typed, Fits, session, opencode, queueHistory, counts
  <1>4. CASE Drainable(Busy)
    <2> DEFINE h == Head(queue)
               k == Dequeued(job, h, "showing", m)
    <2>1. queue # <<>> /\ queue' = Tail(queue) /\ job' = k
      BY <1>4 DEF Reported, Drainable
    <2>2. "showing" \in JobPlaces /\ "showing" # "queued" /\ m \in Msgs \cup {NoMsg}
      BY DEF JobPlaces
    <2>3. /\ h \in Queued /\ h \in Msgs /\ job[h].at = "queued"
          /\ Tail(queue) \in Seq(Queued) /\ QueueFit(Tail(queue), k)
      BY <1>2, <2>1, <2>2, Dequeue
    <2>4. /\ k \in [Msgs -> Jobs] /\ k[h].at = "showing" /\ k[h].by = m
          /\ \A n \in Msgs : n # h => k[n] = job[n]
      BY <1>2, <2>2, <2>3, DequeuedFacts
    <2> HIDE DEF h, k
    <2>5. ActsFit(acts, k, sess)
      BY <1>2, <2>3, <2>4, ActionFacts DEF ActsFit, CarriedAt
    <2>6. HandoffFit(k, handoff)
      BY <1>2, <2>3, <2>4 DEF HandoffFit
    <2>7. m # NoMsg /\ h # m
      BY <1>1, <2>3, Values
    <2>8. \A n \in Msgs : (k[n].at = "showing" /\ k[n].by = NoMsg) <=> turn = Showing(n)
      BY <1>2, <2>3, <2>4, <2>7 DEF TurnFit
    <2>9. ASSUME NEW i \in Msgs, NEW n \in Msgs, k[i].at = "showing" /\ k[i].by # NoMsg
          PROVE  /\ k[k[i].by].at = "report"
                 /\ (k[n].at = "showing" /\ k[n].by = k[i].by) => i = n
      <3>1. CASE i = h
        BY <1>1, <2>4, <2>7, <3>1
      <3>2. CASE i # h
        <4>1. k[i] = job[i] /\ job[i].by \in Msgs /\ job[job[i].by].at = "report"
          BY <1>2, <2>4, <2>9, <3>2 DEF TurnFit, ReportsFit, Jobs
        <4>2. job[i].by # h /\ job[i].by # m
          BY <1>1, <2>3, <2>9, <4>1
        <4> QED BY <1>2, <2>4, <2>9, <3>2, <4>1, <4>2 DEF TurnFit, ReportsFit
      <3> QED BY <3>1, <3>2
    <2>10. turn.do = "submit" => turn.m \in Msgs /\ turn.m # h
      BY <1>2, <2>3, ActionFacts DEF TurnFit, InSubmit, Carries
    <2>11. TurnFit(k, turn)
      BY <1>2, <2>4, <2>8, <2>9, <2>10 DEF TurnFit, ReportsFit
    <2> QED BY <1>1, <2>1, <2>3, <2>4, <2>5, <2>6, <2>11
            DEF Shape, Typed, Fits, session, opencode, queueHistory, counts
  <1> QED BY <1>3, <1>4

-----------------------------------------------------------------------------
(* opencode keeps the shape *)

LEMMA ServerShape ==
  ASSUME Shape, NEW s \in Sessions, NEW from, NEW to \in ServerStates, NEW e \in Events,
         Server(s, from, to, e), aborting' \subseteq Sessions,
         questions' \in 0 .. MaxQuestions, retries' \in 0 .. MaxRetries
  PROVE  Shape'
  <1>1. srv' \in [Sessions -> ServerStates]
    BY DEF Server, Shape, Typed
  <1>2. sse' \in Seq(Events)
    BY DEF Server, Shape, Typed
  <1> QED BY <1>1, <1>2 DEF Server, Shape, Typed, Fits, runtime, session

LEMMA RunsShape ==
  ASSUME Shape, NEW s \in Sessions,
         RunCompletes(s) \/ RunErrs(s) \/ RunRetries(s) \/ RetryStarts(s) \/ RunAsks(s)
  PROVE  Shape'
  <1>1. /\ "idle" \in ServerStates /\ "retrying" \in ServerStates
        /\ "running" \in ServerStates /\ "asking" \in ServerStates
    BY DEF ServerStates
  <1>2. /\ aborting \subseteq Sessions /\ questions \in 0 .. MaxQuestions /\ retries \in 0 .. MaxRetries
    BY DEF Shape, Typed
  <1>3. CASE RunCompletes(s)
    <2>1. PICK natural \in BOOLEAN :
            Server(s, "running", "idle", [Event("idle", s) EXCEPT !.natural = natural])
      BY <1>3 DEF RunCompletes
    <2>2. aborting' = aborting /\ questions' = questions /\ retries' = retries
      BY <1>3 DEF RunCompletes
    <2> QED BY <1>1, <1>2, <2>1, <2>2, EventTyped, ServerShape
  <1>4. CASE RunErrs(s)
    BY <1>1, <1>2, <1>4, EventTyped, ServerShape DEF RunErrs
  <1>5. CASE RunRetries(s)
    <2>1. retries' \in 0 .. MaxRetries
      BY <1>2, <1>5, Values DEF RunRetries
    <2> QED BY <1>1, <1>2, <1>5, <2>1, EventTyped, ServerShape DEF RunRetries
  <1>6. CASE RetryStarts(s)
    BY <1>1, <1>2, <1>6, EventTyped, ServerShape DEF RetryStarts
  <1>7. CASE RunAsks(s)
    <2>1. questions' \in 0 .. MaxQuestions
      BY <1>2, <1>7, Values DEF RunAsks
    <2> QED BY <1>1, <1>2, <1>7, <2>1, EventTyped, ServerShape DEF RunAsks
  <1> QED BY <1>3, <1>4, <1>5, <1>6, <1>7

LEMMA AbortArrivesShape ==
  ASSUME Shape, NEW s \in Sessions, AbortArrives(s)
  PROVE  Shape'
  <1>1. aborting' \subseteq Sessions /\ questions' = questions /\ retries' = retries
    BY DEF AbortArrives, Shape, Typed
  <1>2. CASE srv[s] = "idle"
    BY <1>1, <1>2 DEF AbortArrives, Shape, Typed, Fits, runtime, session
  <1>3. CASE srv[s] # "idle"
    <2>1. "idle" \in ServerStates /\ Server(s, srv[s], "idle", Event("idle", s))
      BY <1>3 DEF AbortArrives, ServerStates
    <2>2. /\ aborting' \subseteq Sessions
          /\ questions' \in 0 .. MaxQuestions /\ retries' \in 0 .. MaxRetries
      BY <1>1 DEF Shape, Typed
    <2> QED BY <2>1, <2>2, EventTyped, ServerShape
  <1> QED BY <1>2, <1>3

LEMMA DeliverShape ==
  ASSUME Shape, Deliver
  PROVE  Shape'
  <1>1. Head(sse) \in Events /\ sse' \in Seq(Events)
    BY HeadAndTail DEF Deliver, Shape, Typed
  <1>2. acts' = Append(acts, Handling(Head(sse)))
    BY DEF Deliver, PostAction
  <1>3. acts' \in Seq(Actions) /\ ActsFit(acts', job, sess)
    BY <1>1, <1>2, ActsPlain, EventActions DEF Shape, Typed, Fits
  <1> QED BY <1>1, <1>3 DEF Deliver, Shape, Typed, Fits, runtime, session, queueHistory, counts

-----------------------------------------------------------------------------
(* What one step may do to a message *)

KeepsFields(n) ==
  job'[n].known = job[n].known /\ job'[n].target = job[n].target /\ job'[n].by = job[n].by

Goes(n) ==
  \/ job'[n] = job[n]
  \/ /\ KeepsFields(n) /\ job'[n].at \notin {"prompt", "handing", "showing", "create"}
     /\ job'[n].at = "reply" => job[n].at = "prompt"
  \/ job'[n].at = "create" /\ sess = NoSession /\ saved = NoSession
  \/ job'[n].at \in {"showing", "ensure"} /\ job'[n].known = sess
  \/ job'[n].at = "handing" /\ job'[n].known = sess /\ sess # NoSession /\ ~buf[sess].handed
  \/ job'[n].at = "prompt" /\ job'[n].target \in Sessions

LEMMA PutGoes ==
  ASSUME job \in [Msgs -> Jobs], NEW m \in Msgs, NEW p \in JobPlaces, job' = Put(job, m, p),
         p \notin {"prompt", "handing", "showing", "create"}, p = "reply" => job[m].at = "prompt"
  PROVE  \A n \in Msgs : Goes(n)
  BY PutFacts DEF Goes, KeepsFields

LEMMA DrainGoes ==
  ASSUME Shape, NEW j, NEW busy, Drain(j, busy), NEW m \in Msgs,
         j = job \/ j = Put(job, m, "failed")
  PROVE  \A n \in Msgs : Goes(n)
  <1>1. j \in [Msgs -> Jobs] /\ \A n \in Msgs : j[n] = job[n] \/
          (/\ j[n].at = "failed" /\ j[n].known = job[n].known /\ j[n].target = job[n].target
           /\ j[n].by = job[n].by)
    <2>1. "failed" \in JobPlaces /\ job \in [Msgs -> Jobs]
      BY DEF Shape, Typed, JobPlaces
    <2> QED BY <2>1, PutFacts
  <1>2. \A n \in Msgs : \/ job'[n] = j[n]
                        \/ job'[n].at = "showing" /\ job'[n].known = sess
    BY <1>1, DrainMoves DEF Shape, Typed
  <1> QED BY <1>1, <1>2 DEF Goes, KeepsFields

LEMMA HandOffGoes ==
  ASSUME Shape, HandOff
  PROVE  \A n \in Msgs : Goes(n)
  <1>1. CASE ~CanHandOff(queue)
    BY <1>1 DEF HandOff, Goes
  <1>2. CASE CanHandOff(queue)
    <2>1. /\ queue # <<>> /\ job' = Dequeued(job, Head(queue), "handing", NoMsg)
          /\ sess # NoSession /\ ~buf[sess].handed
      BY <1>2 DEF HandOff, CanHandOff
    <2>2. Head(queue) \in Msgs
      BY <2>1, HeadAndTail, Values DEF Shape, Typed
    <2>3. "handing" \in JobPlaces /\ NoMsg \in Msgs \cup {NoMsg} /\ job \in [Msgs -> Jobs]
          /\ sess \in Sessions \cup {NoSession}
      BY DEF JobPlaces, Shape, Typed
    <2>4. \A n \in Msgs : \/ job'[n] = job[n]
                          \/ job'[n].at = "handing" /\ job'[n].known = sess
      <3> DEFINE h == Head(queue)
                 k == Dequeued(job, h, "handing", NoMsg)
      <3>1. k[h].at = "handing" /\ k[h].known = sess /\ \A n \in Msgs : n # h => k[n] = job[n]
        BY <2>2, <2>3, DequeuedFacts
      <3>2. job' = k
        BY <2>1
      <3> HIDE DEF h, k
      <3> QED BY <3>1, <3>2
    <2> QED BY <2>1, <2>4 DEF Goes
  <1> QED BY <1>1, <1>2

\* The message joins the queue; one may be handed off, and one may be taken.
LEMMA RunEnqueueMoves ==
  ASSUME Shape, RunEnqueue
  PROVE  LET x == Head(acts).m
             q == Append(queue, x)
             hands == ui /\ CanHandOff(q)
         IN  /\ x \in Queued /\ job[x].at = "posted" /\ q \in Seq(Queued) /\ q # <<>>
             /\ \A n \in Msgs : Goes(n)
             /\ \A n \in Msgs : job'[n].at \in {"showing", "create", "prompt"} => job'[n] = job[n]
             /\ Busy => \A n \in Msgs : job'[n].at = "ensure" => job'[n] = job[n]
             /\ \/ /\ hands /\ past' = TRUE
                \/ /\ ~hands /\ past' = past /\ handoff' = handoff
                   /\ \/ /\ Busy /\ queue' = q /\ job'[x].at = "queued" /\ job'[x].by = job[x].by
                         /\ buf' = buf
                         /\ \A n \in Msgs : n # x => job'[n] = job[n]
                      \/ /\ ~Busy /\ queue' = Tail(q) /\ Head(q) \in Queued
                         /\ job'[Head(q)].at = "ensure" /\ job'[Head(q)].known = sess
                         /\ job'[Head(q)].by = NoMsg /\ buf' = Marked(sess, TRUE)
                         /\ x # Head(q) => job'[x].at = "queued" /\ job'[x].by = job[x].by
                                           /\ job[Head(q)].at = "queued"
                         /\ \A n \in Msgs : n # x /\ n # Head(q) => job'[n] = job[n]
  <1> DEFINE x == Head(acts).m
             q == Append(queue, x)
             hands == ui /\ CanHandOff(q)
             rest == IF hands THEN Tail(q) ELSE q
             takes == rest # <<>> /\ ~Busy
             j1 == Put(job, x, "queued")
             j2 == IF hands THEN Dequeued(j1, Head(q), "handing", NoMsg) ELSE j1
             j3 == IF takes THEN Dequeued(j2, Head(rest), "ensure", NoMsg) ELSE j2
  <1>1. /\ Starts("enqueue")
        /\ queue' = IF takes THEN Tail(rest) ELSE rest
        /\ job' = j3 /\ handoff' = IF hands THEN Head(q) ELSE handoff
        /\ buf' = IF takes THEN Marked(sess, TRUE) ELSE buf
        /\ past' = (past \/ hands)
    BY DEF RunEnqueue
  <1>2. x \in Queued /\ x \in Msgs /\ job[x].at = "posted"
    BY <1>1, StartsFacts, Values DEF CarriedAt
  <1>3. sess \in Sessions \cup {NoSession} /\ past \in BOOLEAN /\ job \in [Msgs -> Jobs]
    BY DEF Shape, Typed
  <1>4. "handing" \in JobPlaces /\ "ensure" \in JobPlaces /\ NoMsg \in Msgs \cup {NoMsg}
        /\ "queued" \in JobPlaces
    BY DEF JobPlaces
  <1>5. /\ j1 \in [Msgs -> Jobs] /\ j1[x].at = "queued" /\ \A n \in Msgs : n # x => j1[n] = job[n]
        /\ j1[x].known = job[x].known /\ j1[x].target = job[x].target /\ j1[x].by = job[x].by
    BY <1>2, <1>3, <1>4, PutFacts
  <1>6. q \in Seq(Queued) /\ q # <<>> /\ Head(q) \in Queued /\ QueueFit(q, j1)
    BY <1>1, RunEnqueueQueue
  <1>7. Head(q) \in Msgs /\ j1[Head(q)].at = "queued"
    BY <1>6, HeadAndTail, Values DEF QueueFit
  <1>8. hands => sess # NoSession /\ ~buf[sess].handed
    BY DEF CanHandOff
  <1> HIDE DEF j1, q, hands, x
  <1>9. /\ j2 \in [Msgs -> Jobs] /\ rest \in Seq(Queued)
        /\ \A n \in Msgs : \/ j2[n] = j1[n]
                           \/ hands /\ n = Head(q) /\ j2[n].at = "handing" /\ j2[n].known = sess
    <2>1. CASE ~hands
      BY <1>5, <1>6, <2>1
    <2>2. CASE hands
      <3>1. Tail(q) \in Seq(Queued)
        BY <1>6, HeadAndTail
      <3> QED BY <1>3, <1>4, <1>5, <1>7, <2>2, <3>1, DequeuedFacts
    <2> QED BY <2>1, <2>2
  <1> HIDE DEF j2
  <1>10. takes => Head(rest) \in Queued /\ Head(rest) \in Msgs
    BY <1>9, HeadAndTail, Values
  <1>11. /\ \A n \in Msgs : \/ job'[n] = j2[n]
                            \/ takes /\ n = Head(rest) /\ job'[n].at = "ensure" /\ job'[n].known = sess
                               /\ job'[n].by = NoMsg
         /\ takes => /\ job'[Head(rest)].at = "ensure" /\ job'[Head(rest)].known = sess
                     /\ job'[Head(rest)].by = NoMsg
         /\ \A n \in Msgs : (~takes \/ n # Head(rest)) => job'[n] = j2[n]
    <2>1. CASE ~takes
      BY <1>1, <2>1
    <2>2. CASE takes
      <3> DEFINE h == Head(rest)
                 k == Dequeued(j2, h, "ensure", NoMsg)
      <3>1. /\ k[h].at = "ensure" /\ k[h].known = sess /\ k[h].by = NoMsg
            /\ \A n \in Msgs : n # h => k[n] = j2[n]
        BY <1>3, <1>4, <1>9, <1>10, <2>2, DequeuedFacts
      <3>2. job' = k
        BY <1>1, <2>2
      <3> HIDE DEF h, k
      <3>3. \A n \in Msgs : \/ job'[n] = j2[n]
                            \/ n = h /\ job'[n].at = "ensure" /\ job'[n].known = sess
                               /\ job'[n].by = NoMsg
        BY <3>1, <3>2
      <3> QED BY <2>2, <3>1, <3>2, <3>3 DEF h
    <2> QED BY <2>1, <2>2
  <1> HIDE DEF j3
  <1>12. \A n \in Msgs : Goes(n)
    <2> SUFFICES ASSUME NEW n \in Msgs PROVE Goes(n)
      OBVIOUS
    <2>1. CASE job'[n] # j2[n]
      BY <1>11, <2>1 DEF Goes
    <2>2. CASE job'[n] = j2[n] /\ j2[n] # j1[n]
      BY <1>8, <1>9, <2>2 DEF Goes
    <2>3. CASE job'[n] = j1[n]
      BY <1>5, <2>3 DEF Goes, KeepsFields
    <2> QED BY <2>1, <2>2, <2>3
  <1>13. \A n \in Msgs : job'[n].at \in {"showing", "create", "prompt"} => job'[n] = job[n]
    BY <1>5, <1>9, <1>11
  <1>a. Busy => \A n \in Msgs : job'[n].at = "ensure" => job'[n] = job[n]
    BY <1>5, <1>9, <1>11
  <1>14. CASE hands
    <2>1. past' = TRUE
      BY <1>1, <1>14
    <2> QED BY <1>2, <1>6, <1>12, <1>13, <1>14, <1>a, <2>1 DEF q, x, hands
  <1>15. CASE ~hands
    <2>1. rest = q /\ past' = past /\ handoff' = handoff
      BY <1>1, <1>3, <1>15
    <2>2. \A n \in Msgs : j2[n] = j1[n]
      BY <1>9, <1>15
    <2>3. CASE Busy
      <3>1. ~takes
        BY <2>3
      <3>2. /\ queue' = q /\ buf' = buf /\ job'[x].at = "queued" /\ job'[x].by = job[x].by
            /\ \A n \in Msgs : n # x => job'[n] = job[n]
        BY <1>1, <1>2, <1>5, <1>11, <2>1, <2>2, <3>1
      <3> QED BY <1>2, <1>6, <1>12, <1>13, <1>15, <1>a, <2>1, <2>3, <3>2 DEF q, x, hands
    <2>4. CASE ~Busy
      <3>1. takes
        BY <1>6, <2>1, <2>4
      <3>2. /\ queue' = Tail(q) /\ buf' = Marked(sess, TRUE)
            /\ job'[Head(q)].at = "ensure" /\ job'[Head(q)].known = sess /\ job'[Head(q)].by = NoMsg
            /\ \A n \in Msgs : n # Head(q) => job'[n] = j1[n]
        BY <1>1, <1>11, <2>1, <2>2, <3>1
      <3>3. x # Head(q) => job'[x].at = "queued" /\ job'[x].by = job[x].by
                           /\ job[Head(q)].at = "queued"
        BY <1>2, <1>5, <1>7, <3>2
      <3>4. \A n \in Msgs : n # x /\ n # Head(q) => job'[n] = job[n]
        BY <1>5, <3>2
      <3> QED BY <1>2, <1>6, <1>12, <1>13, <1>15, <1>a, <2>1, <2>4, <3>2, <3>3, <3>4 DEF q, x, hands
    <2> QED BY <2>3, <2>4
  <1> QED BY <1>14, <1>15

\* A message that is prompted has its session.
Targets == \A m \in Msgs : job[m].at \in {"prompt", "reply"} => job[m].target \in Sessions

LEMMA TargetMoves ==
  ASSUME job \in [Msgs -> Jobs], NEW m \in Msgs, NEW s \in Sessions,
         job' = [job EXCEPT ![m].at = "prompt", ![m].target = s]
  PROVE  /\ job'[m].at = "prompt" /\ job'[m].target = s /\ job'[m].by = job[m].by
         /\ job'[m].known = job[m].known /\ \A n \in Msgs : n # m => job'[n] = job[n]
  <1> DEFINE w == [job[m] EXCEPT !.at = "prompt", !.target = s]
  <1>1. w.at = "prompt" /\ w.target = s /\ w.by = job[m].by /\ w.known = job[m].known
    BY DEF Jobs
  <1>2. job' = [job EXCEPT ![m] = w]
    OBVIOUS
  <1> HIDE DEF w
  <1> QED BY <1>1, <1>2

\* What the end of an indicator does to the messages
LEMMA IndicatorMoves ==
  ASSUME Shape, NEW m \in Msgs, job[m].at = "showing", NEW p \in {"ensure", "lost"},
         IF job[m].by = NoMsg THEN job' = Put(job, m, p)
                              ELSE job' = Put(Put(job, m, p), job[m].by, "failing")
  PROVE  /\ job'[m].at = p /\ job'[m].known = job[m].known /\ job'[m].target = job[m].target
         /\ job'[m].by = job[m].by
         /\ \A n \in Msgs : n # m /\ n # job[m].by => job'[n] = job[n]
         /\ \A n \in Msgs : n = job[m].by => n # m /\ job'[n].at = "failing" /\ KeepsFields(n)
  <1>1. p \in JobPlaces /\ "failing" \in JobPlaces /\ job \in [Msgs -> Jobs]
    BY DEF JobPlaces, Shape, Typed
  <1> DEFINE k == Put(job, m, p)
  <1>2. /\ k \in [Msgs -> Jobs] /\ k[m].at = p /\ k[m].known = job[m].known
        /\ k[m].target = job[m].target /\ k[m].by = job[m].by
        /\ \A n \in Msgs : n # m => k[n] = job[n]
    BY <1>1, PutFacts
  <1>3. CASE job[m].by = NoMsg
    BY <1>2, <1>3, Values
  <1>4. CASE job[m].by # NoMsg
    <2>1. job[m].by \in Msgs /\ job[job[m].by].at = "report"
      BY <1>1, <1>4 DEF Shape, Fits, TurnFit, ReportsFit, Jobs
    <2>2. job[m].by # m
      BY <2>1
    <2>3. job' = Put(k, job[m].by, "failing")
      BY <1>4
    <2> HIDE DEF k
    <2>4. /\ job'[job[m].by].at = "failing" /\ job'[job[m].by].known = k[job[m].by].known
          /\ job'[job[m].by].target = k[job[m].by].target /\ job'[job[m].by].by = k[job[m].by].by
          /\ \A n \in Msgs : n # job[m].by => job'[n] = k[n]
      BY <1>1, <1>2, <2>1, <2>3, PutFacts
    <2>5. KeepsFields(job[m].by)
      BY <1>2, <2>1, <2>2, <2>4 DEF KeepsFields
    <2> QED BY <1>2, <2>1, <2>2, <2>4, <2>5
  <1> QED BY <1>3, <1>4

LEMMA ReportedMoves ==
  ASSUME Shape, NEW m \in Msgs, Reported(m)
  PROVE  \/ /\ ~Drainable(Busy) /\ queue' = queue /\ job'[m].at = "failing" /\ KeepsFields(m)
            /\ \A n \in Msgs : n # m => job'[n] = job[n]
         \/ /\ Drainable(Busy) /\ queue # <<>> /\ queue' = Tail(queue)
            /\ Head(queue) \in Queued /\ Head(queue) \in Msgs
            /\ job'[Head(queue)].at = "showing" /\ job'[Head(queue)].known = sess
            /\ \A n \in Msgs : n # Head(queue) => job'[n] = job[n]
  <1>1. "showing" \in JobPlaces /\ "failing" \in JobPlaces /\ job \in [Msgs -> Jobs]
        /\ sess \in Sessions \cup {NoSession}
    BY DEF JobPlaces, Shape, Typed
  <1>2. CASE ~Drainable(Busy)
    <2>1. job' = Put(job, m, "failing") /\ queue' = queue
      BY <1>2 DEF Reported
    <2> QED BY <1>1, <1>2, <2>1, PutFacts DEF KeepsFields
  <1>3. CASE Drainable(Busy)
    <2>1. /\ queue # <<>> /\ queue' = Tail(queue)
          /\ job' = Dequeued(job, Head(queue), "showing", m)
      BY <1>3 DEF Reported, Drainable
    <2>2. Head(queue) \in Queued /\ Head(queue) \in Msgs
      BY <2>1, HeadAndTail, Values DEF Shape, Typed
    <2> QED BY <1>1, <1>3, <2>1, <2>2, DequeuedFacts
  <1> QED BY <1>2, <1>3

LEMMA MessagesGo ==
  ASSUME Shape, [Next]_vars
  PROVE  \A n \in Msgs : Goes(n)
  <1>0. job \in [Msgs -> Jobs] /\ saved \in Sessions \cup {NoSession}
        /\ sess \in Sessions \cup {NoSession}
    BY DEF Shape, Typed
  <1>a. {"posted", "dismissing", "waiting", "queued", "withdrawn", "ensure", "failing", "reply",
         "prompted", "failed", "report", "lost"} \subseteq JobPlaces
    BY DEF JobPlaces
  <1>1. ASSUME NEW m \in Msgs, Queue(m) \/ Say(m) \/ StopWaiting(m) \/ Withdraw(m)
        PROVE  \A n \in Msgs : Goes(n)
    <2>1. \E p \in {"posted", "dismissing", "withdrawn"} : job' = Put(job, m, p)
      BY <1>1 DEF Queue, Say, StopWaiting, Withdraw
    <2> QED BY <1>0, <1>a, <2>1, PutGoes
  <1>2. CASE Abort \/ Answer \/ Deliver \/ UNCHANGED vars
    BY <1>2 DEF Abort, Answer, Deliver, vars, runtime, Goes
  <1>3. CASE RunEnqueue
    BY <1>3, RunEnqueueMoves
  <1>4. CASE RunDrain
    <2>1. Drain(job, Busy)
      BY <1>4 DEF RunDrain
    <2> QED BY <2>1, DrainMoves, <1>0 DEF Goes, Shape, Typed
  <1>5. CASE RunSubmit
    <2>1. Head(acts).m \in Msgs /\ job' = Put(job, Head(acts).m, "ensure")
      BY <1>5, StartsFacts DEF RunSubmit
    <2> QED BY <1>0, <1>a, <2>1, PutGoes
  <1>6. CASE RunAbort
    <2>1. Head(acts).m \in Msgs /\ job' = Put(job, Head(acts).m, "waiting")
      BY <1>6, StartsFacts DEF RunAbort
    <2> QED BY <1>0, <1>a, <2>1, PutGoes
  <1>7. CASE RunEvent
    <2>1. job' = job \/ HandOff
      BY <1>7 DEF RunEvent
    <2> QED BY <2>1, HandOffGoes DEF Goes
  <1>8. CASE Settle
    <2>1. HandOff \/ job' = job \/ \E busy \in {Busy, FALSE} : Drain(job, busy)
      BY <1>8 DEF Settle
    <2> QED BY <2>1, DrainMoves, HandOffGoes, <1>0 DEF Goes, Shape, Typed
  <1>9. CASE HandoffShown
    <2>1. handoff \in Msgs /\ job' = Put(job, handoff, "posted")
      BY <1>9, Values DEF HandoffShown, Shape, Typed
    <2> QED BY <1>0, <1>a, <2>1, PutGoes
  <1>10. ASSUME NEW m \in Msgs, Works(m)
         PROVE  \A n \in Msgs : Goes(n)
    <2>1. CASE Shown(m)
      <3>1. job[m].at = "showing" /\ "ensure" \in {"ensure", "lost"}
        BY <2>1 DEF Shown
      <3>2. IF job[m].by = NoMsg THEN job' = Put(job, m, "ensure")
                                 ELSE job' = Put(Put(job, m, "ensure"), job[m].by, "failing")
        BY <2>1 DEF Shown
      <3> QED BY <3>1, <3>2, IndicatorMoves DEF Goes, KeepsFields
    <2>2. CASE EnsureSession(m)
      <3> DEFINE s == IF sess # NoSession THEN sess ELSE saved
      <3>1. CASE s = NoSession
        <4>1. job' = Put(job, m, "create") /\ "create" \in JobPlaces
          BY <2>2, <3>1 DEF EnsureSession, JobPlaces
        <4>2. sess = NoSession /\ saved = NoSession
          BY <3>1
        <4> QED BY <1>0, <4>1, <4>2, PutFacts DEF Goes
      <3>2. CASE s # NoSession
        <4>1. s \in Sessions /\ job' = [job EXCEPT ![m].at = "prompt", ![m].target = s]
          BY <1>0, <2>2, <3>2 DEF EnsureSession
        <4> HIDE DEF s
        <4> QED BY <1>0, <4>1, TargetMoves DEF Goes
      <3> QED BY <3>1, <3>2
    <2>3. CASE CreateSession(m)
      <3>1. PICK s \in Sessions \ Created : job' = [job EXCEPT ![m].at = "prompt", ![m].target = s]
        BY <2>3 DEF CreateSession
      <3>2. s \in Sessions
        OBVIOUS
      <3>3. /\ job'[m].at = "prompt" /\ job'[m].target = s
            /\ \A n \in Msgs : n # m => job'[n] = job[n]
        BY <1>0, <3>1, <3>2, TargetMoves
      <3> QED BY <3>2, <3>3 DEF Goes
    <2>4. CASE Prompt(m)
      BY <1>0, <1>a, <2>4, PutGoes DEF Prompt
    <2>5. CASE SubmitEnds(m)
      BY <1>0, <1>a, <2>5, PutGoes DEF SubmitEnds
    <2>6. CASE DispatchEnds(m)
      <3>1. \E p \in {"prompted", "failed"} : job' = Put(job, m, p)
        BY <2>6 DEF DispatchEnds
      <3> QED BY <1>0, <1>a, <3>1, PutGoes
    <2>7. CASE Reported(m)
      BY <2>7, ReportedMoves DEF Goes, KeepsFields
    <2> QED BY <1>10, <2>1, <2>2, <2>3, <2>4, <2>5, <2>6, <2>7 DEF Works
  <1>11. ASSUME NEW m \in Msgs, Fails(m)
         PROVE  \A n \in Msgs : Goes(n)
    <2>1. CASE ShowFails(m)
      <3>1. CASE job[m].at = "showing"
        <4>1. job[m].by = NoMsg => job' = Put(job, m, "lost")
          BY <2>1, <3>1 DEF ShowFails
        <4>2. job[m].by # NoMsg => job' = Put(Put(job, m, "lost"), job[m].by, "failing")
          BY <2>1, <3>1 DEF ShowFails
        <4>3. "lost" \in {"ensure", "lost"}
          OBVIOUS
        <4> QED BY <3>1, <4>1, <4>2, <4>3, IndicatorMoves DEF Goes, KeepsFields
      <3>2. CASE job[m].at = "handing"
        <4>1. job' = Put(job, m, "lost")
          BY <2>1, <3>2 DEF ShowFails
        <4> QED BY <1>0, <1>a, <4>1, PutGoes
      <3> QED BY <2>1, <3>1, <3>2 DEF ShowFails
    <2>2. CASE DispatchFails(m)
      <3>1. \E p \in {"report", "failing"} : job' = Put(job, m, p)
        BY <2>2 DEF DispatchFails
      <3> QED BY <1>0, <1>a, <3>1, PutGoes
    <2>3. CASE DispatchThrows(m)
      BY <1>0, <1>a, <2>3, PutGoes DEF DispatchThrows
    <2>4. CASE SubmitFails(m)
      <3>1. Drain(Put(job, m, "failed"), Busy)
        BY <2>4 DEF SubmitFails
      <3> QED BY <3>1, DrainGoes
    <2> QED BY <1>11, <2>1, <2>2, <2>3, <2>4 DEF Fails
  <1>12. ASSUME NEW s \in Sessions, RunCompletes(s) \/ RunErrs(s) \/ RunRetries(s)
                  \/ RetryStarts(s) \/ RunAsks(s) \/ AbortArrives(s)
         PROVE  \A n \in Msgs : Goes(n)
    <2>1. job' = job
      BY <1>12 DEF RunCompletes, RunErrs, RunRetries, RetryStarts, RunAsks, AbortArrives,
                   Server, runtime
    <2> QED BY <2>1 DEF Goes
  <1> QED BY <1>1, <1>2, <1>3, <1>4, <1>5, <1>6, <1>7, <1>8, <1>9, <1>10, <1>11, <1>12
          DEF Next, RunAction

LEMMA TargetsKept ==
  ASSUME Shape, Targets, [Next]_vars
  PROVE  Targets'
  BY MessagesGo DEF Targets, Goes, KeepsFields

\* Every variable of the queue keeps its type, and the queue, the serialized
\* actions, the messages and the promise of the handoff fit together.
LEMMA ShapeKept ==
  ASSUME Shape, Targets, [Next]_vars
  PROVE  Shape'
  <1>1. CASE UNCHANGED vars
    BY <1>1 DEF vars, runtime, session, opencode, queueHistory, counts, Shape, Typed, Fits
  <1>2. ASSUME NEW m \in Msgs, Queue(m) \/ Say(m) \/ StopWaiting(m) \/ Withdraw(m)
        PROVE  Shape'
    BY <1>2, QueueShape, SayShape, StopWaitingShape, WithdrawShape
  <1>3. CASE Abort \/ Answer \/ HandoffShown \/ Deliver
    BY <1>3, AbortShape, AnswerShape, HandoffShownShape, DeliverShape
  <1>4. CASE RunAction
    BY <1>4, RunEnqueueShape, RunDrainShape, RunSubmitShape, RunAbortShape, RunEventShape,
       SettleShape DEF RunAction
  <1>5. ASSUME NEW m \in Msgs, Works(m)
        PROVE  Shape'
    <2>1. CASE Prompt(m)
      BY <2>1, PromptShape DEF Targets, Prompt
    <2> QED BY <1>5, <2>1, ShownShape, EnsureSessionShape, CreateSessionShape, SubmitEndsShape,
               DispatchEndsShape, ReportedShape DEF Works
  <1>6. ASSUME NEW m \in Msgs, Fails(m)
        PROVE  Shape'
    BY <1>6, ShowFailsShape, DispatchFailsShape, DispatchThrowsShape, SubmitFailsShape DEF Fails
  <1>7. ASSUME NEW s \in Sessions, RunCompletes(s) \/ RunErrs(s) \/ RunRetries(s)
                 \/ RetryStarts(s) \/ RunAsks(s) \/ AbortArrives(s)
        PROVE  Shape'
    BY <1>7, RunsShape, AbortArrivesShape
  <1> QED BY <1>1, <1>2, <1>3, <1>4, <1>5, <1>6, <1>7 DEF Next

LEMMA QueueKeepsShape ==
  Spec => [](Shape /\ Targets)
  <1>1. Init => Shape /\ Targets
    <2>1. Init => Targets
      BY DEF Init, Targets, NewJob
    <2> QED BY <2>1, InitShape
  <1>2. Shape /\ Targets /\ [Next]_vars => (Shape /\ Targets)'
    BY ShapeKept, TargetsKept
  <1> QED BY <1>1, <1>2, PTL DEF Spec

\* TypeOK for any number of messages and sessions, any bounds and any faults.  It says
\* more than types: the queue holds exactly the messages that are waiting in it.
THEOREM QueueTypeCorrect ==
  Spec => []TypeOK
  <1>1. Shape => TypeOK
    BY DEF Shape, Typed, Fits, QueueFit, TypeOK
  <1> QED BY <1>1, QueueKeepsShape, PTL

-----------------------------------------------------------------------------
(* A question is handed one message *)

\* Without a stored session the thread may create two at once and be asked by both.
\* With one, "handed" is what keeps a second message back, and a handoff whose
\* indicator is being sent is the only one.
HandedOnce == Saved # NoSession =>
  /\ sess \in {NoSession, Saved} /\ saved = Saved
  /\ \A m \in Msgs : job[m].at # "create"
  /\ since <= 1
  /\ (sess = NoSession \/ ~buf[sess].handed) => since = 0
  /\ sess = NoSession => ~buf[Saved].handed
  /\ \A m \in Msgs : job[m].at = "handing" => job[m].known = sess /\ since = 0

LEMMA SessionMoves ==
  ASSUME Shape, [Next]_vars
  PROVE  \/ sess' = sess /\ saved' = saved
         \/ /\ sess' = saved' /\ sess' # NoSession /\ since' = since /\ buf' = buf
            /\ \/ sess' = IF sess # NoSession THEN sess ELSE saved
               \/ \E m \in Msgs : job[m].at = "create"
  <1>1. ASSUME NEW m \in Msgs, EnsureSession(m)
        PROVE  \/ sess' = sess /\ saved' = saved
               \/ /\ sess' = saved' /\ sess' # NoSession /\ since' = since /\ buf' = buf
                  /\ sess' = IF sess # NoSession THEN sess ELSE saved
    BY <1>1 DEF EnsureSession, session, queueHistory
  <1>2. ASSUME NEW m \in Msgs, CreateSession(m)
        PROVE  /\ sess' = saved' /\ sess' # NoSession /\ since' = since /\ buf' = buf
               /\ \E n \in Msgs : job[n].at = "create"
    BY <1>2, Values DEF CreateSession, queueHistory
  <1>3. ASSUME NEW m \in Msgs, Works(m), ~EnsureSession(m), ~CreateSession(m)
        PROVE  sess' = sess /\ saved' = saved
    BY <1>3 DEF Works, Shown, Prompt, SubmitEnds, DispatchEnds, Reported, session
  <1>4. ASSUME NEW m \in Msgs, Fails(m)
        PROVE  sess' = sess /\ saved' = saved
    BY <1>4 DEF Fails, ShowFails, DispatchFails, DispatchThrows, SubmitFails, session
  <1>5. ASSUME NEW m \in Msgs, Queue(m) \/ Say(m) \/ StopWaiting(m) \/ Withdraw(m)
        PROVE  sess' = sess /\ saved' = saved
    BY <1>5 DEF Queue, Say, StopWaiting, Withdraw, session
  <1>6. RunAction \/ Abort \/ Answer \/ HandoffShown \/ Deliver \/ UNCHANGED vars
          => sess' = sess /\ saved' = saved
    BY DEF RunAction, RunEnqueue, RunDrain, RunSubmit, RunAbort, RunEvent, Settle, Abort, Answer,
           HandoffShown, Deliver, vars, runtime, session
  <1>7. ASSUME NEW s \in Sessions, RunCompletes(s) \/ RunErrs(s) \/ RunRetries(s)
                 \/ RetryStarts(s) \/ RunAsks(s) \/ AbortArrives(s)
        PROVE  sess' = sess /\ saved' = saved
    BY <1>7 DEF RunCompletes, RunErrs, RunRetries, RetryStarts, RunAsks, AbortArrives, Server,
                runtime, session
  <1> QED BY <1>1, <1>2, <1>3, <1>4, <1>5, <1>6, <1>7 DEF Next

\* Markers say whether the session is busy and nothing of handoffs.
LEMMA MarkedHanded ==
  ASSUME buf \in [Sessions -> [busy : BOOLEAN, handed : BOOLEAN]], NEW x, NEW b \in BOOLEAN,
         NEW s \in Sessions
  PROVE  Marked(x, b)[s].handed = buf[s].handed
  BY DEF Marked

\* Where a step counts handoffs and forgets them
LEMMA HandoffsCounted ==
  ASSUME Shape, [Next]_vars
  PROVE  \/ /\ since' = since
            /\ \A s \in Sessions : buf'[s].handed = buf[s].handed \/ (s # sess /\ ~buf'[s].handed)
         \/ /\ since' = 0 /\ sess' = sess /\ sess \in Sessions /\ ~buf'[sess].handed
            /\ job' = job
         \/ HandoffShown
  <1> DEFINE Kept == /\ since' = since
                     /\ \A s \in Sessions : \/ buf'[s].handed = buf[s].handed
                                            \/ s # sess /\ ~buf'[s].handed
  <1>a. buf \in [Sessions -> [busy : BOOLEAN, handed : BOOLEAN]] /\ TRUE \in BOOLEAN /\ FALSE \in BOOLEAN
    BY DEF Shape, Typed
  <1>b. (since' = since /\ (buf' = buf \/ \E x \in Sessions \cup {NoSession}, b \in BOOLEAN : buf' = Marked(x, b)))
          => Kept
    BY <1>a, MarkedHanded
  <1>c. sess \in Sessions \cup {NoSession}
        /\ \A m \in Msgs : /\ job[m].known \in Sessions \cup {NoSession}
                           /\ job[m].target \in Sessions \cup {NoSession}
                           /\ job[m].by \in Msgs \cup {NoMsg}
    BY DEF Shape, Typed, Jobs
  <1> HIDE DEF Kept
  <1>1. ASSUME NEW m \in Msgs, Queue(m) \/ Say(m) \/ StopWaiting(m) \/ Withdraw(m)
        PROVE  Kept
    BY <1>1, <1>b DEF Queue, Say, StopWaiting, Withdraw, queueHistory
  <1>2. CASE Abort \/ Answer \/ Deliver \/ UNCHANGED vars
    BY <1>2, <1>b DEF Abort, Answer, Deliver, vars, runtime, queueHistory
  <1>3. CASE RunEnqueue
    <2>1. since' = since
      BY <1>3 DEF RunEnqueue
    <2>2. buf' = buf \/ buf' = Marked(sess, TRUE)
      BY <1>3 DEF RunEnqueue
    <2>3. \E x \in Sessions \cup {NoSession}, b \in BOOLEAN : Marked(sess, TRUE) = Marked(x, b)
      BY <1>a, <1>c
    <2> HIDE DEF Kept
    <2>4. Kept
      BY <1>b, <2>1, <2>2, <2>3
    <2> QED BY <2>4 DEF Kept
  <1>4. CASE RunDrain \/ RunSubmit \/ RunAbort
    BY <1>4, <1>b DEF RunDrain, RunSubmit, RunAbort, queueHistory
  <1>5. CASE RunEvent
    <2> DEFINE e == Head(acts).e
    <2>1. /\ e \in Events /\ e.s \in Sessions /\ buf' = Appended(e) /\ sess' = sess
          /\ since' = IF e.type = "asked" /\ e.s = sess THEN 0 ELSE since
          /\ e.type # "replied" => job' = job
      BY <1>5, StartsFacts DEF RunEvent, Events, session
    <2> HIDE DEF e
    <2>2. CASE e.type = "asked"
      <3>1. buf' = [buf EXCEPT ![e.s].handed = FALSE]
        BY <2>1, <2>2 DEF Appended
      <3>2. ~buf'[e.s].handed /\ \A s \in Sessions : s # e.s => buf'[s] = buf[s]
        BY <1>a, <2>1, <3>1
      <3> QED BY <2>1, <2>2, <3>2 DEF Kept
    <2>3. CASE e.type # "asked"
      <3>1. buf' = buf \/ \E b \in BOOLEAN : buf' = Marked(e.s, b)
        BY <2>1, <2>3 DEF Appended
      <3>2. since' = since
        BY <2>1, <2>3
      <3>3. Kept
        BY <1>b, <2>1, <3>1, <3>2
      <3> QED BY <3>3 DEF Kept
    <2> QED BY <2>2, <2>3
  <1>6. CASE Settle
    <2>1. since' = since
      BY <1>6 DEF Settle
    <2>2. buf' = buf \/ buf' = Marked(turn.e.s, FALSE)
      BY <1>6 DEF Settle
    <2>3. turn.e.s \in Sessions
      BY <1>6, ActionFacts DEF Settle, Shape, Typed, Events
    <2> QED BY <1>a, <1>b, <2>1, <2>2, <2>3 DEF Kept
  <1>7. ASSUME NEW m \in Msgs, Works(m)
        PROVE  Kept
    BY <1>7, <1>a, <1>b, <1>c DEF Works, Shown, EnsureSession, CreateSession, Prompt, SubmitEnds, DispatchEnds,
                            Reported, queueHistory
  <1>8. ASSUME NEW m \in Msgs, Fails(m)
        PROVE  Kept
    <2>1. since' = since
      BY <1>8 DEF Fails, ShowFails, DispatchFails, DispatchThrows, SubmitFails, queueHistory
    <2>2. CASE ShowFails(m)
      <3>1. \/ buf' = buf
            \/ job[m].by # NoMsg /\ buf' = Marked(job[job[m].by].known, FALSE)
        BY <2>2 DEF ShowFails
      <3>2. job[m].by # NoMsg => job[job[m].by].known \in Sessions \cup {NoSession}
        BY <1>c
      <3> QED BY <1>a, <1>b, <2>1, <3>1, <3>2
    <2>3. CASE DispatchFails(m) \/ DispatchThrows(m) \/ SubmitFails(m)
      BY <2>3, <1>a, <1>b, <1>c, <2>1 DEF DispatchFails, DispatchThrows, SubmitFails
    <2> QED BY <1>8, <2>2, <2>3 DEF Fails
  <1>9. ASSUME NEW s \in Sessions, RunCompletes(s) \/ RunErrs(s) \/ RunRetries(s)
                 \/ RetryStarts(s) \/ RunAsks(s) \/ AbortArrives(s)
        PROVE  Kept
    BY <1>9, <1>b DEF RunCompletes, RunErrs, RunRetries, RetryStarts, RunAsks, AbortArrives, Server,
                runtime
  <1> QED BY <1>1, <1>2, <1>3, <1>4, <1>5, <1>6, <1>7, <1>8, <1>9 DEF Next, RunAction, Kept

LEMMA HandedOnceKept ==
  ASSUME Shape, HandedOnce, [Next]_vars
  PROVE  HandedOnce'
  <1> SUFFICES ASSUME Saved # NoSession
               PROVE  HandedOnce'
    BY DEF HandedOnce
  <1>0. Saved \in Sessions /\ since \in Nat
    BY Values DEF Shape, Typed
  <1>1. sess' \in {NoSession, Saved} /\ saved' = Saved
    BY SessionMoves DEF HandedOnce
  <1>2. \A m \in Msgs : job'[m].at # "create"
    BY MessagesGo, <1>1 DEF HandedOnce, Goes
  <1>3. sess # NoSession => sess' = sess
    BY <1>1, SessionMoves DEF HandedOnce
  <1>4. CASE HandoffShown
    <2>1. /\ handoff \in Msgs /\ job[handoff].at = "handing" /\ job[handoff].known = sess
          /\ sess # NoSession /\ since = 0 /\ since' = since + 1
          /\ buf' = [buf EXCEPT ![job[handoff].known].handed = TRUE]
          /\ job' = Put(job, handoff, "posted") /\ "posted" \in JobPlaces
      BY <1>4, Values DEF HandoffShown, HandedOnce, Shape, Typed, Fits, HandoffFit, JobPlaces
    <2>2. sess = Saved /\ sess' = sess
      BY <1>3, <2>1 DEF HandedOnce
    <2>3. buf'[sess].handed
      BY <1>0, <2>1, <2>2 DEF Shape, Typed
    <2>4. \A m \in Msgs : job'[m].at # "handing"
      <3>1. job'[handoff].at = "posted" /\ \A m \in Msgs : m # handoff => job'[m] = job[m]
        BY <2>1, PutFacts DEF Shape, Typed
      <3>2. \A m \in Msgs : job[m].at = "handing" => m = handoff
        BY DEF Shape, Fits, HandoffFit
      <3> QED BY <3>1, <3>2
    <2>5. since' <= 1
      BY <2>1
    <2> QED BY <1>0, <1>1, <1>2, <2>1, <2>2, <2>3, <2>4, <2>5 DEF HandedOnce
  <1>5. CASE since' = 0 /\ sess' = sess /\ sess \in Sessions /\ ~buf'[sess].handed /\ job' = job
    <2>1. since' <= 1 /\ sess' # NoSession
      BY <1>5, Values
    <2>2. \A m \in Msgs : job'[m].at = "handing" => job'[m].known = sess' /\ since' = 0
      BY <1>5 DEF HandedOnce
    <2> QED BY <1>1, <1>2, <1>5, <2>1, <2>2 DEF HandedOnce
  <1>6. CASE /\ since' = since /\ ~HandoffShown
             /\ \A s \in Sessions : buf'[s].handed = buf[s].handed \/ (s # sess /\ ~buf'[s].handed)
    <2>1. since' <= 1
      BY <1>6 DEF HandedOnce
    <2>2. (sess' = NoSession \/ ~buf'[sess'].handed) => since' = 0
      <3>1. CASE sess = NoSession
        BY <1>6, <3>1 DEF HandedOnce
      <3>2. CASE sess # NoSession
        BY <1>0, <1>3, <1>6, <3>2 DEF HandedOnce
      <3> QED BY <3>1, <3>2
    <2>3. sess' = NoSession => ~buf'[Saved].handed
      BY <1>0, <1>3, <1>6 DEF HandedOnce
    <2>4. \A m \in Msgs : job'[m].at = "handing" => job'[m].known = sess' /\ since' = 0
      <3> SUFFICES ASSUME NEW m \in Msgs, job'[m].at = "handing"
                   PROVE  job'[m].known = sess' /\ since' = 0
        OBVIOUS
      <3>1. CASE job'[m] = job[m]
        <4>1. job[m].known # NoSession /\ job[m].known = sess /\ since = 0
          BY <3>1 DEF HandedOnce, Shape, Fits, HandoffFit
        <4> QED BY <1>3, <1>6, <3>1, <4>1
      <3>2. CASE job'[m] # job[m]
        <4>1. job'[m].known = sess /\ sess # NoSession /\ ~buf[sess].handed
          BY <3>2, MessagesGo DEF Goes
        <4> QED BY <1>3, <1>6, <4>1 DEF HandedOnce
      <3> QED BY <3>1, <3>2
    <2> QED BY <1>1, <1>2, <2>1, <2>2, <2>3, <2>4 DEF HandedOnce
  <1> QED BY <1>4, <1>5, <1>6, HandoffsCounted

\* A question of the agent is handed one queued message, however its indicator, the
\* reply, the next question and the other messages of the thread interleave; the rest
\* stay in the queue (maybeHandoffQueuedItemForPendingQuestion).
THEOREM QueueOneHandoffPerQuestion ==
  Spec => []OneHandoffPerQuestion
  <1>1. Init => HandedOnce
    <2>1. Init => 0 <= 1 /\ \A m \in Msgs : job[m].at = "new"
      BY DEF Init, NewJob
    <2>2. Init /\ Saved # NoSession => sess \in {NoSession, Saved} /\ saved = Saved /\ ~buf[Saved].handed
      BY Values DEF Init
    <2> QED BY <2>1, <2>2 DEF Init, HandedOnce
  <1>2. Shape /\ HandedOnce /\ [Next]_vars => HandedOnce'
    BY HandedOnceKept
  <1>3. HandedOnce => OneHandoffPerQuestion
    BY DEF HandedOnce, OneHandoffPerQuestion
  <1> QED BY <1>1, <1>2, <1>3, QueueKeepsShape, PTL DEF Spec

-----------------------------------------------------------------------------
(* A thread whose messages all go through the queue: one message, run or end of a  *)
(* run at a time                                                                    *)

\* A dequeued message that opencode has not accepted
OnTheWay == {"showing", "ensure", "create", "prompt", "report"}
Way(j) == {m \in Msgs : j[m].at \in OnTheWay}

Has(q, S) == \E i \in DOMAIN q : q[i] \in S
AtMostOne(q, S) == \A i, k \in DOMAIN q : q[i] \in S /\ q[k] \in S => i = k

\* The end of the thread's run: on the stream, then waiting to be handled, then, for a
\* run that failed, being handled (the end of one that completed marks the session at
\* once)
EndEvents == {e \in Events : e.type \in {"idle", "error"} /\ e.s = Known}
EndActions == {a \in Actions : a.do = "event" /\ a.e \in EndEvents}
RetryEvents == {e \in Events : e.type = "retry"}
RetryActions == {a \in Actions : a.do = "event" /\ a.e \in RetryEvents}
Failing(t) == t.do = "event" /\ t.e.type = "error"

\* The turn passes from the message to its run and from the run to the end of it: it is
\* in one of these places at most.
OneTurn(w, r, x, a, t) ==
  /\ \A m, n \in w : m = n
  /\ w # {} => r = "idle" /\ ~Has(x, EndEvents) /\ ~Has(a, EndActions) /\ ~Failing(t)
  /\ r # "idle" => ~Has(x, EndEvents) /\ ~Has(a, EndActions) /\ ~Failing(t)
  /\ Has(x, EndEvents) => ~Has(a, EndActions) /\ ~Failing(t)
  /\ Has(a, EndActions) => ~Failing(t)
  /\ AtMostOne(x, EndEvents) /\ AtMostOne(a, EndActions)
Taken(w, r, x, a, t) ==
  w # {} \/ r # "idle" \/ Has(x, EndEvents) \/ Has(a, EndActions) \/ Failing(t)

LoneJobs(j) ==
  /\ \A m \in Msgs : /\ j[m].at \notin {"dismissing", "waiting", "handing", "create"}
                     /\ j[m].by = NoMsg
                     /\ j[m].at \in OnTheWay => j[m].known = Known
  /\ \A m \in Direct : j[m].at = "new"
LoneActs(a) == ~Has(a, RetryActions) /\ \A i \in DOMAIN a : a[i].do \notin {"submit", "abort"}

\* Nothing but the queue gives messages to opencode, and to one session.
Lone ==
  /\ sess = Known /\ saved = Known /\ handoff = NoMsg
  /\ LoneJobs(job) /\ LoneActs(acts) /\ turn.do # "submit"
  /\ srv[Known] # "retrying" /\ ~Has(sse, RetryEvents)
TurnsPass == OneTurn(Way(job), srv[Known], sse, acts, turn)
\* While the turn is somewhere the session is marked busy, or an indicator is being
\* sent by the action that took the message.
MarkedBusy == Taken(Way(job), srv[Known], sse, acts, turn) => buf[Known].busy \/ turn.do = "show"

OneByOne == Lone /\ TurnsPass /\ MarkedBusy
Serial == Alone => OneByOne

LEMMA HasAppended ==
  ASSUME NEW T, NEW q \in Seq(T), NEW x \in T, NEW S
  PROVE  /\ x \notin S => /\ Has(Append(q, x), S) <=> Has(q, S)
                          /\ AtMostOne(q, S) => AtMostOne(Append(q, x), S)
         /\ x \in S => /\ Has(Append(q, x), S)
                       /\ ~Has(q, S) => AtMostOne(Append(q, x), S)
  BY Appended1 DEF Has, AtMostOne

LEMMA HasTail ==
  ASSUME NEW T, NEW q \in Seq(T), q # <<>>, NEW S
  PROVE  /\ Has(q, S) <=> (Head(q) \in S \/ Has(Tail(q), S))
         /\ AtMostOne(q, S) => AtMostOne(Tail(q), S)
         /\ AtMostOne(q, S) /\ Head(q) \in S => ~Has(Tail(q), S)
  <1>1. /\ Head(q) = q[1] /\ 1 \in DOMAIN q
        /\ \A i \in DOMAIN Tail(q) : i \in Nat /\ i # 0 /\ i + 1 \in DOMAIN q /\ Tail(q)[i] = q[i + 1]
        /\ \A i \in DOMAIN q : i = 1 \/ (i - 1 \in DOMAIN Tail(q) /\ Tail(q)[i - 1] = q[i])
    BY HeadAndTail
  <1>2. Has(q, S) => Head(q) \in S \/ Has(Tail(q), S)
    BY <1>1 DEF Has
  <1>3. Head(q) \in S \/ Has(Tail(q), S) => Has(q, S)
    BY <1>1 DEF Has
  <1>4. AtMostOne(q, S) => AtMostOne(Tail(q), S)
    <2> SUFFICES ASSUME AtMostOne(q, S), NEW i \in DOMAIN Tail(q), NEW k \in DOMAIN Tail(q),
                        Tail(q)[i] \in S, Tail(q)[k] \in S
                 PROVE  i = k
      BY DEF AtMostOne
    <2>1. i + 1 = k + 1
      BY <1>1 DEF AtMostOne
    <2> QED BY <1>1, <2>1
  <1>5. AtMostOne(q, S) /\ Head(q) \in S => ~Has(Tail(q), S)
    <2> SUFFICES ASSUME AtMostOne(q, S), Head(q) \in S, NEW i \in DOMAIN Tail(q), Tail(q)[i] \in S
                 PROVE  FALSE
      BY DEF Has
    <2>1. i + 1 = 1
      BY <1>1 DEF AtMostOne
    <2> QED BY <1>1, <2>1
  <1> QED BY <1>2, <1>3, <1>4, <1>5

\* Drains and queued messages change nothing of it.
LEMMA LoneActsMore ==
  ASSUME NEW a \in Seq(Actions), NEW x \in Actions, x.do \in {"enqueue", "drain"}
  PROVE  /\ LoneActs(a) => LoneActs(Append(a, x))
         /\ Has(Append(a, x), EndActions) <=> Has(a, EndActions)
         /\ AtMostOne(a, EndActions) => AtMostOne(Append(a, x), EndActions)
  <1>1. x \notin EndActions /\ x \notin RetryActions
    BY DEF EndActions, RetryActions
  <1>2. (\A i \in DOMAIN a : a[i].do \notin {"submit", "abort"})
          => \A i \in DOMAIN Append(a, x) : Append(a, x)[i].do \notin {"submit", "abort"}
    BY Appended1
  <1> QED BY <1>1, <1>2, HasAppended DEF LoneActs

LEMMA LoneActsLess ==
  ASSUME NEW a \in Seq(Actions), a # <<>>, LoneActs(a)
  PROVE  /\ LoneActs(Tail(a)) /\ Head(a).do \notin {"submit", "abort"} /\ Head(a) \notin RetryActions
         /\ Has(a, EndActions) <=> (Head(a) \in EndActions \/ Has(Tail(a), EndActions))
         /\ AtMostOne(a, EndActions) => AtMostOne(Tail(a), EndActions)
         /\ AtMostOne(a, EndActions) /\ Head(a) \in EndActions => ~Has(Tail(a), EndActions)
  <1>1. ~Has(Tail(a), RetryActions) /\ Head(a) \notin RetryActions
    BY HasTail DEF LoneActs
  <1>2. /\ Head(a).do \notin {"submit", "abort"}
        /\ \A i \in DOMAIN Tail(a) : Tail(a)[i].do \notin {"submit", "abort"}
    BY HeadAndTail DEF LoneActs
  <1> QED BY <1>1, <1>2, HasTail DEF LoneActs

\* One message moves.
LEMMA LoneMove ==
  ASSUME NEW j \in [Msgs -> Jobs], NEW k \in [Msgs -> Jobs], NEW m \in Queued, LoneJobs(j),
         \A n \in Msgs : n # m => k[n] = j[n],
         k[m].at \notin {"dismissing", "waiting", "handing", "create"}, k[m].by = NoMsg,
         k[m].at \in OnTheWay => k[m].known = Known
  PROVE  /\ LoneJobs(k)
         /\ k[m].at \notin OnTheWay => Way(k) = Way(j) \ {m}
         /\ k[m].at \in OnTheWay => Way(k) = Way(j) \cup {m}
         /\ j[m].at \notin OnTheWay /\ k[m].at \notin OnTheWay => Way(k) = Way(j)
         /\ j[m].at \in OnTheWay => m \in Way(j)
  <1>1. m \in Msgs /\ m \notin Direct /\ Direct \subseteq Msgs
    BY Values, QueueAssumption
  <1>2. LoneJobs(k)
    <2>1. \A n \in Msgs : /\ k[n].at \notin {"dismissing", "waiting", "handing", "create"}
                          /\ k[n].by = NoMsg
                          /\ k[n].at \in OnTheWay => k[n].known = Known
      BY DEF LoneJobs
    <2>2. \A n \in Direct : k[n].at = "new"
      BY <1>1 DEF LoneJobs
    <2> QED BY <2>1, <2>2 DEF LoneJobs
  <1>3. k[m].at \notin OnTheWay => Way(k) = Way(j) \ {m}
    BY <1>1 DEF Way
  <1>4. k[m].at \in OnTheWay => Way(k) = Way(j) \cup {m}
    BY <1>1 DEF Way
  <1>5. j[m].at \notin OnTheWay /\ k[m].at \notin OnTheWay => Way(k) = Way(j)
    BY <1>1 DEF Way
  <1> QED BY <1>1, <1>2, <1>3, <1>4, <1>5 DEF Way

\* A message that moves is a queued one.
LEMMA LoneQueued ==
  ASSUME NEW j, LoneJobs(j), NEW m \in Msgs, j[m].at # "new"
  PROVE  m \in Queued
  BY DEF LoneJobs, Msgs

LEMMA KnownSession ==
  ASSUME Shape, Alone
  PROVE  /\ Known \in Sessions /\ Known # NoSession
         /\ srv[Known] \in ServerStates
         /\ \A b \in BOOLEAN : Marked(Known, b)[Known].busy = b
  BY Values DEF Alone, Shape, Typed, Marked

LEMMA QueueLone ==
  ASSUME Shape, Alone, OneByOne, NEW m \in Msgs, Queue(m)
  PROVE  OneByOne'
  <1>1. /\ m \in Queued /\ job[m].at = "new" /\ "posted" \in JobPlaces /\ job \in [Msgs -> Jobs]
        /\ acts \in Seq(Actions)
    BY DEF Queue, JobPlaces, Shape, Typed
  <1>2. /\ job' \in [Msgs -> Jobs] /\ job'[m].at = "posted" /\ job'[m].by = job[m].by
        /\ \A n \in Msgs : n # m => job'[n] = job[n]
    BY <1>1, PutFacts DEF Queue
  <1>a. LoneJobs(job) /\ job[m].by = NoMsg
    BY DEF OneByOne, Lone, LoneJobs
  <1>b. job[m].at \notin OnTheWay /\ job'[m].at \notin OnTheWay
    BY <1>1, <1>2 DEF OnTheWay
  <1>3. LoneJobs(job') /\ Way(job') = Way(job)
    BY <1>1, <1>2, <1>a, <1>b, LoneMove
  <1>c. LoneActs(acts) /\ AtMostOne(acts, EndActions)
    BY DEF OneByOne, Lone, TurnsPass, OneTurn
  <1>d. /\ Enqueueing(m) \in Actions /\ Enqueueing(m).do = "enqueue"
        /\ acts' = Append(acts, Enqueueing(m))
    BY MessageActions DEF Queue, PostAction
  <1>4. /\ LoneActs(acts') /\ (Has(acts', EndActions) <=> Has(acts, EndActions))
        /\ AtMostOne(acts', EndActions)
    BY <1>1, <1>c, <1>d, LoneActsMore
  <1> QED BY <1>3, <1>4 DEF OneByOne, Lone, TurnsPass, MarkedBusy, OneTurn, Taken, Queue, session, opencode

LEMMA WithdrawLone ==
  ASSUME Shape, Alone, OneByOne, NEW m \in Msgs, Withdraw(m)
  PROVE  OneByOne'
  <1>1. m \in Queued /\ job[m].at = "queued" /\ "withdrawn" \in JobPlaces /\ job \in [Msgs -> Jobs]
    BY DEF Withdraw, JobPlaces, Shape, Typed, Fits, QueueFit
  <1>2. /\ job' \in [Msgs -> Jobs] /\ job'[m].at = "withdrawn" /\ job'[m].by = job[m].by
        /\ \A n \in Msgs : n # m => job'[n] = job[n]
    BY <1>1, PutFacts DEF Withdraw
  <1>a. LoneJobs(job) /\ job[m].by = NoMsg
    BY DEF OneByOne, Lone, LoneJobs
  <1>b. job[m].at \notin OnTheWay /\ job'[m].at \notin OnTheWay
    BY <1>1, <1>2 DEF OnTheWay
  <1>3. LoneJobs(job') /\ Way(job') = Way(job)
    BY <1>1, <1>2, <1>a, <1>b, LoneMove
  <1> QED BY <1>3 DEF OneByOne, Lone, TurnsPass, MarkedBusy, Withdraw, session, opencode

LEMMA AbortLone ==
  ASSUME Shape, Alone, OneByOne, Abort
  PROVE  OneByOne'
  <1>a. LoneActs(acts) /\ AtMostOne(acts, EndActions) /\ acts \in Seq(Actions)
    BY DEF OneByOne, Lone, TurnsPass, OneTurn, Shape, Typed
  <1>b. Draining \in Actions /\ Draining.do = "drain" /\ acts' = Append(acts, Draining)
    BY Values DEF Abort, PostAction
  <1>1. /\ LoneActs(acts') /\ (Has(acts', EndActions) <=> Has(acts, EndActions))
        /\ AtMostOne(acts', EndActions)
    BY <1>a, <1>b, LoneActsMore
  <1> QED BY <1>1 DEF OneByOne, Lone, TurnsPass, MarkedBusy, OneTurn, Taken, Abort, runtime, session

LEMMA AnswerLone ==
  ASSUME Shape, Alone, OneByOne, Answer
  PROVE  OneByOne'
  <1> DEFINE asking == {s \in Sessions : srv[s] = "asking"}
             e == Event("replied", CHOOSE s \in asking : TRUE)
  <1>1. sse' = IF asking = {} THEN sse ELSE Append(sse, e)
    BY DEF Answer
  <1>2. asking # {} => e \in Events /\ e \notin EndEvents /\ e \notin RetryEvents
    BY DEF Event, Events, EndEvents, RetryEvents
  <1>3. srv'[Known] = IF srv[Known] = "asking" THEN "running" ELSE srv[Known]
    BY KnownSession DEF Answer
  <1> HIDE DEF e, asking
  <1>a. sse \in Seq(Events) /\ ~Has(sse, RetryEvents) /\ AtMostOne(sse, EndEvents)
    BY DEF OneByOne, Lone, TurnsPass, OneTurn, Shape, Typed
  <1>4. /\ Has(sse', EndEvents) <=> Has(sse, EndEvents)
        /\ ~Has(sse', RetryEvents) /\ AtMostOne(sse', EndEvents)
    <2>1. CASE asking = {}
      BY <1>1, <1>a, <2>1
    <2>2. CASE asking # {}
      BY <1>1, <1>2, <1>a, <2>2, HasAppended
    <2> QED BY <2>1, <2>2
  <1>5. srv'[Known] # "retrying" /\ (srv'[Known] = "idle" <=> srv[Known] = "idle")
    BY <1>3 DEF OneByOne, Lone
  <1> QED BY <1>4, <1>5 DEF OneByOne, Lone, TurnsPass, MarkedBusy, OneTurn, Taken, Answer, runtime, session

\* At rest no indicator is being sent by an action: not busy is then not taken.
LEMMA FreeAtRest ==
  ASSUME Alone, OneByOne, turn.do # "show", ~Busy
  PROVE  ~Taken(Way(job), srv[Known], sse, acts, turn)
  BY DEF OneByOne, Lone, MarkedBusy, Busy, Alone

LEMMA RunEnqueueLone ==
  ASSUME Shape, Alone, OneByOne, RunEnqueue, past' = past
  PROVE  OneByOne'
  <1> DEFINE x == Head(acts).m
             q == Append(queue, x)
  <1>1. /\ turn = AtRest /\ acts # <<>> /\ Head(acts).do = "enqueue" /\ turn.do = "rest"
        /\ turn' = turn /\ acts' = Tail(acts) /\ sess' = sess /\ saved' = saved
        /\ srv' = srv /\ sse' = sse
    BY StartsFacts DEF RunEnqueue, session, opencode
  <1>2. /\ x \in Queued /\ job[x].at = "posted" /\ handoff' = handoff
        /\ \/ /\ Busy /\ job'[x].at = "queued" /\ job'[x].by = job[x].by /\ buf' = buf
              /\ \A n \in Msgs : n # x => job'[n] = job[n]
           \/ /\ ~Busy /\ Head(q) \in Queued
              /\ job'[Head(q)].at = "ensure" /\ job'[Head(q)].known = sess
              /\ job'[Head(q)].by = NoMsg /\ buf' = Marked(sess, TRUE)
              /\ x # Head(q) => job'[x].at = "queued" /\ job'[x].by = job[x].by
              /\ \A n \in Msgs : n # x /\ n # Head(q) => job'[n] = job[n]
    <2>1. past # TRUE
      BY DEF Alone
    <2> QED BY <2>1, RunEnqueueMoves
  <1> HIDE DEF q, x
  <1>3. job \in [Msgs -> Jobs] /\ job' \in [Msgs -> Jobs] /\ acts \in Seq(Actions)
    BY RunEnqueueShape DEF Shape, Typed
  <1>4. /\ LoneActs(acts') /\ (Has(acts', EndActions) => Has(acts, EndActions))
        /\ (Has(acts, EndActions) => Has(acts', EndActions)) /\ AtMostOne(acts', EndActions)
    <2>1. Head(acts) \notin EndActions
      BY <1>1 DEF EndActions
    <2> QED BY <1>1, <1>3, <2>1, LoneActsLess DEF OneByOne, Lone, TurnsPass, OneTurn
  <1>5. x \in Msgs /\ job[x].by = NoMsg
    BY <1>2, Values DEF OneByOne, Lone, LoneJobs
  <1>6. CASE Busy
    <2>a. job[x].at \notin OnTheWay /\ job'[x].at \notin OnTheWay /\ LoneJobs(job)
      BY <1>2, <1>6 DEF OnTheWay, OneByOne, Lone
    <2>b. /\ job'[x].at = "queued" /\ job'[x].by = NoMsg /\ \A n \in Msgs : n # x => job'[n] = job[n]
      BY <1>2, <1>5, <1>6
    <2>1. LoneJobs(job') /\ Way(job') = Way(job)
      BY <1>2, <1>3, <2>a, <2>b, LoneMove
    <2> QED BY <1>1, <1>2, <1>4, <1>6, <2>1
            DEF OneByOne, Lone, TurnsPass, MarkedBusy, OneTurn, Taken
  <1>7. CASE ~Busy
    <2> DEFINE h == Head(q)
    <2>1. ~Taken(Way(job), srv[Known], sse, acts, turn)
      BY <1>1, <1>7, FreeAtRest
    <2>2. /\ h \in Queued /\ job'[h].at = "ensure" /\ job'[h].known = sess /\ job'[h].by = NoMsg
          /\ x # h => job'[x].at = "queued" /\ job'[x].by = NoMsg
          /\ \A n \in Msgs : n # x /\ n # h => job'[n] = job[n]
      BY <1>2, <1>5, <1>7
    <2> HIDE DEF h
    <2>3. h \in Msgs /\ h \notin Direct /\ x \notin Direct /\ sess = Known
      BY <1>2, <2>2, Values, QueueAssumption DEF OneByOne, Lone
    <2>4. LoneJobs(job')
      <3>1. LoneJobs(job) /\ Direct \subseteq Msgs
        BY Values DEF OneByOne, Lone
      <3>2. \A n \in Direct : job'[n].at = "new"
        BY <2>2, <2>3, <3>1 DEF LoneJobs
      <3>3. ASSUME NEW n \in Msgs
            PROVE  /\ job'[n].at \notin {"dismissing", "waiting", "handing", "create"}
                   /\ job'[n].by = NoMsg
                   /\ job'[n].at \in OnTheWay => job'[n].known = Known
        <4>1. CASE n = h
          BY <2>2, <2>3, <4>1
        <4>2. CASE n # h /\ n = x
          BY <2>2, <4>2 DEF OnTheWay
        <4>3. CASE n # h /\ n # x
          BY <2>2, <3>1, <4>3 DEF LoneJobs
        <4> QED BY <4>1, <4>2, <4>3
      <3> QED BY <3>2, <3>3 DEF LoneJobs
    <2>5. Way(job') = {h}
      <3>1. \A n \in Msgs : job[n].at \notin OnTheWay
        BY <2>1 DEF Taken, Way
      <3>2. \A n \in Msgs : job'[n].at \in OnTheWay <=> n = h
        BY <2>2, <3>1 DEF OnTheWay
      <3> QED BY <2>3, <3>2 DEF Way
    <2>6. buf'[Known].busy
      BY <1>2, <1>7, <2>3, KnownSession
    <2>7. MarkedBusy'
      BY <2>6 DEF MarkedBusy
    <2>8. Lone'
      BY <1>1, <1>2, <1>4, <2>4 DEF OneByOne, Lone
    <2>9. TurnsPass'
      BY <1>1, <1>4, <2>1, <2>5 DEF TurnsPass, OneByOne, OneTurn, Taken
    <2> QED BY <2>7, <2>8, <2>9 DEF OneByOne
  <1> QED BY <1>6, <1>7

\* A drain takes nothing, or the turn.
LEMMA DrainLone ==
  ASSUME Shape, Alone, OneByOne, NEW b, Drain(job, b), b \/ Way(job) = {}
  PROVE  /\ LoneJobs(job') /\ turn'.do # "submit" /\ ~Failing(turn')
         /\ \/ job' = job /\ Way(job') = Way(job) /\ turn'.do # "show"
            \/ ~b /\ turn'.do = "show" /\ \E h \in Msgs : Way(job') = {h}
  <1>0. /\ queue \in Seq(Queued) /\ job \in [Msgs -> Jobs] /\ sess \in Sessions \cup {NoSession}
        /\ LoneJobs(job) /\ sess = Known
    BY DEF Shape, Typed, OneByOne, Lone
  <1>1. CASE job' = job /\ turn' = AtRest
    BY <1>0, <1>1, Values DEF Failing
  <1>2. CASE /\ Drainable(b) /\ turn' = Showing(Head(queue)) /\ Head(queue) \in Queued
             /\ Head(queue) \in Msgs /\ queue # <<>>
             /\ job' \in [Msgs -> Jobs] /\ job'[Head(queue)].at = "showing"
             /\ job'[Head(queue)].by = NoMsg /\ job'[Head(queue)].known = sess
             /\ \A n \in Msgs : n # Head(queue) => job'[n] = job[n]
    <2> DEFINE h == Head(queue)
    <2>1. /\ turn'.do = "show" /\ h \in Queued /\ h \in Msgs /\ job'[h].at = "showing"
          /\ job'[h].by = NoMsg /\ job'[h].known = Known
          /\ \A n \in Msgs : n # h => job'[n] = job[n]
      BY <1>0, <1>2, MessageActions
    <2> HIDE DEF h
    <2>2. "showing" \in OnTheWay /\ "showing" \notin {"dismissing", "waiting", "handing", "create"}
      BY DEF OnTheWay
    <2>3. LoneJobs(job') /\ Way(job') = Way(job) \cup {h}
      BY <1>0, <1>2, <2>1, <2>2, LoneMove
    <2>4. ~b
      BY <1>2 DEF Drainable
    <2> QED BY <2>1, <2>3, <2>4 DEF Failing
  <1> QED BY <1>0, <1>1, <1>2, DrainMoves

LEMMA RunDrainLone ==
  ASSUME Shape, Alone, OneByOne, RunDrain
  PROVE  OneByOne'
  <1>1. /\ turn = AtRest /\ turn.do = "rest" /\ acts # <<>> /\ Head(acts).do = "drain"
        /\ acts' = Tail(acts) /\ Drain(job, Busy) /\ acts \in Seq(Actions)
        /\ sess' = sess /\ saved' = saved /\ handoff' = handoff /\ buf' = buf
        /\ srv' = srv /\ sse' = sse
    BY StartsFacts DEF RunDrain, session, opencode, Shape, Typed
  <1>2. /\ LoneActs(acts') /\ AtMostOne(acts', EndActions)
        /\ Has(acts', EndActions) <=> Has(acts, EndActions)
    <2>1. Head(acts) \notin EndActions
      BY <1>1 DEF EndActions
    <2>2. LoneActs(acts) /\ AtMostOne(acts, EndActions)
      BY DEF OneByOne, Lone, TurnsPass, OneTurn
    <2> QED BY <1>1, <2>1, <2>2, LoneActsLess
  <1>3. ~Busy => ~Taken(Way(job), srv[Known], sse, acts, turn)
    BY <1>1, FreeAtRest
  <1>4. Busy \/ Way(job) = {}
    BY <1>3 DEF Taken
  <1>5. /\ LoneJobs(job') /\ turn'.do # "submit" /\ ~Failing(turn') /\ ~Failing(turn)
        /\ \/ job' = job /\ Way(job') = Way(job) /\ turn'.do # "show"
           \/ ~Busy /\ turn'.do = "show" /\ \E h \in Msgs : Way(job') = {h}
    BY <1>1, <1>4, DrainLone DEF Failing
  <1>6. Lone'
    BY <1>1, <1>2, <1>5 DEF OneByOne, Lone
  <1>7. CASE Way(job') = Way(job) /\ turn'.do # "show"
    BY <1>1, <1>2, <1>5, <1>6, <1>7 DEF OneByOne, TurnsPass, MarkedBusy, OneTurn, Taken
  <1>8. CASE ~Busy /\ turn'.do = "show" /\ \E h \in Msgs : Way(job') = {h}
    <2>1. ~Taken(Way(job), srv[Known], sse, acts, turn)
      BY <1>3, <1>8
    <2> QED BY <1>1, <1>2, <1>5, <1>6, <1>8, <2>1 DEF OneByOne, TurnsPass, MarkedBusy, OneTurn, Taken
  <1> QED BY <1>5, <1>7, <1>8

LEMMA RunEventLone ==
  ASSUME Shape, Alone, OneByOne, RunEvent, past' = past
  PROVE  OneByOne'
  <1> DEFINE e == Head(acts).e
  <1>1. /\ turn = AtRest /\ turn.do = "rest" /\ acts # <<>> /\ Head(acts).do = "event"
        /\ Head(acts) \in Actions /\ acts \in Seq(Actions) /\ e \in Events
        /\ sess' = sess /\ saved' = saved /\ srv' = srv /\ sse' = sse
        /\ buf' = Appended(e) /\ turn' = IF Awaits(e) THEN Head(acts) ELSE AtRest
    BY StartsFacts DEF RunEvent, session, opencode, Shape, Typed
  <1>2. job' = job /\ handoff' = handoff
    <2>1. past # TRUE
      BY DEF Alone
    <2>2. ~HandOff \/ (job' = job /\ handoff' = handoff)
      BY <2>1 DEF HandOff
    <2> QED BY <2>2 DEF RunEvent
  <1>3. acts' = Tail(acts) \/ acts' = Append(Tail(acts), Draining)
    BY DEF RunEvent
  <1>4. /\ LoneActs(acts') /\ AtMostOne(acts', EndActions)
        /\ Has(acts, EndActions) <=> (Head(acts) \in EndActions \/ Has(acts', EndActions))
        /\ Head(acts) \in EndActions => ~Has(acts', EndActions)
        /\ Head(acts) \notin RetryActions
    <2>1. LoneActs(acts) /\ AtMostOne(acts, EndActions)
      BY DEF OneByOne, Lone, TurnsPass, OneTurn
    <2>2. /\ LoneActs(Tail(acts)) /\ AtMostOne(Tail(acts), EndActions)
          /\ Has(acts, EndActions) <=> (Head(acts) \in EndActions \/ Has(Tail(acts), EndActions))
          /\ Head(acts) \in EndActions => ~Has(Tail(acts), EndActions)
          /\ Head(acts) \notin RetryActions
      BY <1>1, <2>1, LoneActsLess
    <2>3. Tail(acts) \in Seq(Actions)
      BY <1>1, HeadAndTail
    <2>4. CASE acts' = Append(Tail(acts), Draining)
      <3>1. /\ LoneActs(acts') /\ AtMostOne(acts', EndActions)
            /\ Has(acts', EndActions) <=> Has(Tail(acts), EndActions)
        BY <2>2, <2>3, <2>4, Values, LoneActsMore
      <3> QED BY <2>2, <3>1
    <2> QED BY <1>3, <2>2, <2>4
  <1>5. e.type # "retry" /\ (Head(acts) \in EndActions <=> e \in EndEvents)
    BY <1>1, <1>4 DEF RetryActions, RetryEvents, EndActions
  <1>a. sess = Known /\ Known \in Sessions /\ buf \in [Sessions -> [busy : BOOLEAN, handed : BOOLEAN]]
    BY KnownSession DEF OneByOne, Lone, Shape, Typed
  <1> HIDE DEF e
  <1>6. turn'.do \in {"rest", "event"} /\ (Failing(turn') <=> e.type = "error" /\ e.s = Known)
    <2>1. Awaits(e) /\ turn' = Head(acts) => turn'.e = e
      BY DEF e
    <2> QED BY <1>1, <1>a, <2>1, Values DEF Failing, Awaits
  <1>7. /\ e.type \in {"busy", "idle", "error", "asked", "replied"}
        /\ e \in EndEvents <=> e.type \in {"idle", "error"} /\ e.s = Known
    BY <1>1, <1>5 DEF Events, EndEvents
  <1>8. Lone'
    BY <1>1, <1>2, <1>4, <1>6 DEF OneByOne, Lone
  <1>9. ~Failing(turn) /\ Way(job') = Way(job)
    BY <1>1, <1>2 DEF Failing
  <1>10. buf'[Known].busy \/ ~buf[Known].busy \/ (e.type = "idle" /\ e.s = Known)
    BY <1>1, <1>7, <1>a DEF Appended, Marked
  <1>11. CASE e \notin EndEvents
    <2>1. ~Failing(turn') /\ (Has(acts', EndActions) <=> Has(acts, EndActions))
      BY <1>4, <1>5, <1>6, <1>7, <1>11
    <2>2. TurnsPass'
      BY <1>1, <1>4, <1>9, <2>1 DEF OneByOne, TurnsPass, OneTurn
    <2>3. MarkedBusy'
      BY <1>1, <1>7, <1>9, <1>10, <1>11, <2>1 DEF OneByOne, MarkedBusy, Taken
    <2> QED BY <1>8, <2>2, <2>3 DEF OneByOne
  <1>12. CASE e \in EndEvents
    <2>1. /\ Way(job') = {} /\ srv'[Known] = "idle" /\ ~Has(sse', EndEvents)
          /\ ~Has(acts', EndActions)
      <3>1. Has(acts, EndActions)
        BY <1>4, <1>5, <1>12
      <3> QED BY <1>1, <1>4, <1>5, <1>9, <1>12, <3>1 DEF OneByOne, TurnsPass, OneTurn
    <2>2. TurnsPass'
      BY <1>4, <2>1 DEF OneByOne, TurnsPass, OneTurn, AtMostOne, Has
    <2>3. CASE e.type = "idle"
      BY <1>6, <1>8, <2>1, <2>2, <2>3 DEF OneByOne, MarkedBusy, Taken
    <2>4. CASE e.type = "error"
      <3>1. Has(acts, EndActions)
        BY <1>4, <1>5, <1>12
      <3>2. buf[Known].busy
        BY <1>1, <3>1 DEF OneByOne, MarkedBusy, Taken
      <3>3. buf'[Known].busy
        BY <1>10, <2>4, <3>2
      <3> QED BY <1>8, <2>2, <3>3 DEF OneByOne, MarkedBusy
    <2> QED BY <1>7, <1>12, <2>3, <2>4
  <1> QED BY <1>11, <1>12

LEMMA SettleLone ==
  ASSUME Shape, Alone, OneByOne, Settle, past' = past
  PROVE  OneByOne'
  <1>1. /\ turn.do = "event" /\ acts' = acts /\ sess' = sess /\ saved' = saved
        /\ srv' = srv /\ sse' = sse /\ turn.e \in Events
    BY ActionFacts DEF Settle, session, opencode, Shape, Typed
  <1>a. sess = Known /\ Known \in Sessions /\ buf \in [Sessions -> [busy : BOOLEAN, handed : BOOLEAN]]
    BY KnownSession DEF OneByOne, Lone, Shape, Typed
  <1>2. CASE turn.e.type = "idle"
    <2>1. Drain(job, Busy) /\ buf' = buf /\ handoff' = handoff
      BY <1>2 DEF Settle
    <2>2. ~Busy => ~Taken(Way(job), srv[Known], sse, acts, turn)
      BY <1>1, FreeAtRest
    <2>3. Busy \/ Way(job) = {}
      BY <2>2 DEF Taken
    <2>4. /\ LoneJobs(job') /\ turn'.do # "submit" /\ ~Failing(turn') /\ ~Failing(turn)
          /\ \/ job' = job /\ Way(job') = Way(job) /\ turn'.do # "show"
             \/ ~Busy /\ turn'.do = "show" /\ \E h \in Msgs : Way(job') = {h}
      BY <1>2, <2>1, <2>3, DrainLone DEF Failing
    <2>5. Lone'
      BY <1>1, <2>1, <2>4 DEF OneByOne, Lone
    <2>6. CASE Way(job') = Way(job) /\ turn'.do # "show"
      BY <1>1, <2>1, <2>4, <2>5, <2>6 DEF OneByOne, TurnsPass, MarkedBusy, OneTurn, Taken
    <2>7. CASE ~Busy /\ turn'.do = "show" /\ \E h \in Msgs : Way(job') = {h}
      <3>1. ~Taken(Way(job), srv[Known], sse, acts, turn)
        BY <2>2, <2>7
      <3> QED BY <1>1, <2>4, <2>5, <2>7, <3>1 DEF OneByOne, TurnsPass, MarkedBusy, OneTurn, Taken
    <2> QED BY <2>4, <2>6, <2>7
  <1>5. CASE turn.e.type = "error" /\ turn' = AtRest /\ UNCHANGED <<queue, job, buf, handoff, past>>
    <2>1. ~Failing(turn') /\ turn'.do = "rest"
      BY <1>5, Values DEF Failing
    <2>2. Lone'
      BY <1>1, <1>5, <2>1 DEF OneByOne, Lone
    <2> QED BY <1>1, <1>5, <2>1, <2>2 DEF OneByOne, TurnsPass, MarkedBusy, OneTurn, Taken
  <1>3. CASE turn.e.type = "error" /\ Drain(job, FALSE) /\ handoff' = handoff
    <2>1. Drain(job, FALSE) /\ handoff' = handoff
      BY <1>3
    <2>2. /\ Way(job) = {} /\ srv[Known] = "idle" /\ ~Has(sse, EndEvents) /\ ~Has(acts, EndActions)
      BY <1>1, <1>3 DEF Failing, OneByOne, TurnsPass, OneTurn
    <2>4. /\ LoneJobs(job') /\ turn'.do # "submit" /\ ~Failing(turn')
          /\ \/ job' = job /\ Way(job') = Way(job) /\ turn'.do # "show"
             \/ turn'.do = "show" /\ \E h \in Msgs : Way(job') = {h}
      BY <2>1, <2>2, DrainLone
    <2>5. Lone'
      BY <1>1, <2>1, <2>4 DEF OneByOne, Lone
    <2> QED BY <1>1, <2>2, <2>4, <2>5 DEF OneByOne, TurnsPass, MarkedBusy, OneTurn, Taken
  <1>4. CASE turn.e.type = "asked"
    <2>1. turn' = AtRest /\ HandOff /\ buf' = buf
      BY <1>4 DEF Settle
    <2>2. job' = job /\ handoff' = handoff
      BY <2>1 DEF HandOff, Alone
    <2>3. ~Failing(turn) /\ ~Failing(turn') /\ turn'.do = "rest"
      BY <1>4, <2>1, Values DEF Failing
    <2>4. Lone'
      BY <1>1, <2>2, <2>3 DEF OneByOne, Lone
    <2> QED BY <1>1, <2>1, <2>2, <2>3, <2>4 DEF OneByOne, TurnsPass, MarkedBusy, OneTurn, Taken
  <1> QED BY <1>2, <1>3, <1>4, <1>5 DEF Settle

LEMMA ShownLone ==
  ASSUME Shape, Alone, OneByOne, NEW m \in Msgs, Shown(m)
  PROVE  OneByOne'
  <1>1. /\ job[m].at = "showing" /\ job[m].by = NoMsg /\ job[m].known = Known /\ m \in Queued
        /\ LoneJobs(job) /\ job \in [Msgs -> Jobs]
    BY LoneQueued DEF Shown, OneByOne, Lone, LoneJobs, OnTheWay, Shape, Typed
  <1>2. /\ buf' = Marked(Known, TRUE) /\ turn' = AtRest /\ job' = Put(job, m, "ensure")
        /\ "ensure" \in JobPlaces /\ acts' = acts /\ sess' = sess /\ saved' = saved
        /\ handoff' = handoff /\ srv' = srv /\ sse' = sse
    BY <1>1 DEF Shown, JobPlaces, session, opencode
  <1>3. /\ job' \in [Msgs -> Jobs] /\ job'[m].at = "ensure" /\ job'[m].known = Known
        /\ job'[m].by = NoMsg /\ \A n \in Msgs : n # m => job'[n] = job[n]
    BY <1>1, <1>2, PutFacts
  <1>4. LoneJobs(job') /\ Way(job') = Way(job)
    <2>1. m \in Way(job) /\ "ensure" \in OnTheWay
      BY <1>1 DEF Way, OnTheWay
    <2>2. LoneJobs(job') /\ Way(job') = Way(job) \cup {m}
      BY <1>1, <1>3, <2>1, LoneMove
    <2> QED BY <2>1, <2>2
  <1>5. buf'[Known].busy /\ ~Failing(turn') /\ turn'.do = "rest"
    BY <1>2, KnownSession, Values DEF Failing
  <1>6. Lone'
    BY <1>2, <1>4, <1>5 DEF OneByOne, Lone
  <1>7. TurnsPass'
    BY <1>2, <1>4, <1>5 DEF OneByOne, TurnsPass, OneTurn
  <1> QED BY <1>5, <1>6, <1>7 DEF OneByOne, MarkedBusy

LEMMA EnsureSessionLone ==
  ASSUME Shape, Alone, OneByOne, NEW m \in Msgs, EnsureSession(m)
  PROVE  OneByOne'
  <1>1. /\ job[m].at = "ensure" /\ job[m].by = NoMsg /\ job[m].known = Known /\ m \in Queued
        /\ LoneJobs(job) /\ job \in [Msgs -> Jobs] /\ sess = Known /\ saved = Known
    BY LoneQueued DEF EnsureSession, OneByOne, Lone, LoneJobs, OnTheWay, Shape, Typed
  <1>2. /\ job' = [job EXCEPT ![m].at = "prompt", ![m].target = Known]
        /\ sess' = Known /\ saved' = Known /\ acts' = acts /\ turn' = turn /\ buf' = buf
        /\ handoff' = handoff /\ srv' = srv /\ sse' = sse
    BY <1>1, KnownSession DEF EnsureSession, opencode
  <1>3. /\ job'[m].at = "prompt" /\ job'[m].known = Known
        /\ job'[m].by = NoMsg /\ \A n \in Msgs : n # m => job'[n] = job[n]
    BY <1>1, <1>2, TargetMoves, KnownSession
  <1>a. job' \in [Msgs -> Jobs]
    BY EnsureSessionShape DEF Shape, Typed
  <1>4. LoneJobs(job') /\ Way(job') = Way(job)
    <2>1. m \in Way(job) /\ "prompt" \in OnTheWay
      BY <1>1 DEF Way, OnTheWay
    <2>2. LoneJobs(job') /\ Way(job') = Way(job) \cup {m}
      BY <1>1, <1>3, <1>a, <2>1, LoneMove
    <2> QED BY <2>1, <2>2
  <1>6. Lone'
    BY <1>1, <1>2, <1>4 DEF OneByOne, Lone
  <1> QED BY <1>2, <1>4, <1>6 DEF OneByOne, TurnsPass, MarkedBusy

\* A message that is on its way has the turn to itself.
LEMMA LoneOnTheWay ==
  ASSUME OneByOne, NEW m \in Msgs, job[m].at \in OnTheWay
  PROVE  /\ Way(job) = {m} /\ srv[Known] = "idle" /\ ~Has(sse, EndEvents)
         /\ ~Has(acts, EndActions) /\ ~Failing(turn)
         /\ buf[Known].busy \/ turn.do = "show"
  <1>1. m \in Way(job)
    BY DEF Way
  <1>2. Way(job) = {m}
    BY <1>1 DEF OneByOne, TurnsPass, OneTurn
  <1> QED BY <1>1, <1>2 DEF OneByOne, TurnsPass, OneTurn, MarkedBusy, Taken

LEMMA PromptLone ==
  ASSUME Shape, Targets, Alone, OneByOne, NEW m \in Msgs, Prompt(m)
  PROVE  OneByOne'
  <1> DEFINE s == job[m].target
  <1>1. /\ job[m].at = "prompt" /\ job[m].at \in OnTheWay /\ job[m].by = NoMsg /\ m \in Queued
        /\ LoneJobs(job) /\ job \in [Msgs -> Jobs] /\ "reply" \in JobPlaces /\ s \in Sessions
        /\ sse \in Seq(Events) /\ srv \in [Sessions -> ServerStates]
    BY LoneQueued DEF Prompt, OneByOne, Lone, LoneJobs, OnTheWay, Shape, Typed, JobPlaces, Targets
  <1>2. /\ job' \in [Msgs -> Jobs] /\ job'[m].at = "reply" /\ job'[m].by = NoMsg
        /\ \A n \in Msgs : n # m => job'[n] = job[n]
    BY <1>1, PutFacts DEF Prompt
  <1>3. /\ Way(job) = {m} /\ srv[Known] = "idle" /\ ~Has(sse, EndEvents)
        /\ ~Has(acts, EndActions) /\ ~Failing(turn)
        /\ buf[Known].busy \/ turn.do = "show"
    BY <1>1, LoneOnTheWay
  <1>4. LoneJobs(job') /\ Way(job') = {}
    <2>1. "reply" \notin OnTheWay /\ "reply" \notin {"dismissing", "waiting", "handing", "create"}
      BY DEF OnTheWay
    <2>2. LoneJobs(job') /\ Way(job') = Way(job) \ {m}
      BY <1>1, <1>2, <2>1, LoneMove
    <2> QED BY <1>3, <2>2
  <1>5. /\ acts' = acts /\ sess' = sess /\ saved' = saved /\ handoff' = handoff /\ turn' = turn
        /\ buf' = buf
        /\ \/ srv' = srv /\ sse' = sse
           \/ srv' = [srv EXCEPT ![s] = "running"] /\ sse' = Append(sse, Event("busy", s))
    BY DEF Prompt, session
  <1>6. srv'[Known] # "retrying"
    BY <1>1, <1>3, <1>5, KnownSession DEF OneByOne, Lone
  <1>7. ~Has(sse', EndEvents) /\ ~Has(sse', RetryEvents)
    <2>1. /\ Event("busy", s) \in Events /\ Event("busy", s) \notin EndEvents
          /\ Event("busy", s) \notin RetryEvents
      BY <1>1, EventTyped DEF EndEvents, RetryEvents
    <2>2. ~Has(sse, RetryEvents)
      BY DEF OneByOne, Lone
    <2>3. CASE sse' = sse
      BY <1>3, <2>2, <2>3
    <2>4. CASE sse' = Append(sse, Event("busy", s))
      BY <1>1, <1>3, <2>1, <2>2, <2>4, HasAppended
    <2> QED BY <1>5, <2>3, <2>4
  <1>8. Lone'
    BY <1>4, <1>5, <1>6, <1>7 DEF OneByOne, Lone
  <1>9. TurnsPass'
    BY <1>3, <1>4, <1>5, <1>7 DEF OneByOne, TurnsPass, OneTurn, AtMostOne, Has
  <1> QED BY <1>3, <1>5, <1>8, <1>9 DEF OneByOne, MarkedBusy

\* The message leaves the way; in the end nothing has the turn.
LEMMA LeavesTheWay ==
  ASSUME Shape, Alone, OneByOne, NEW m \in Msgs, job[m].at \in OnTheWay,
         NEW p \in {"lost", "failing"}, job' = Put(job, m, p),
         UNCHANGED <<sess, saved, handoff, srv, sse>>, turn'.do # "submit", ~Failing(turn'),
         acts' = acts \/ acts' = Append(acts, Draining)
  PROVE  OneByOne'
  <1>1. /\ job[m].by = NoMsg /\ m \in Queued /\ LoneJobs(job) /\ job \in [Msgs -> Jobs]
        /\ p \in JobPlaces /\ acts \in Seq(Actions)
    BY LoneQueued DEF OneByOne, Lone, LoneJobs, OnTheWay, Shape, Typed, JobPlaces
  <1>2. /\ job' \in [Msgs -> Jobs] /\ job'[m].at = p /\ job'[m].by = NoMsg
        /\ \A n \in Msgs : n # m => job'[n] = job[n]
    BY <1>1, PutFacts
  <1>3. /\ Way(job) = {m} /\ srv[Known] = "idle" /\ ~Has(sse, EndEvents)
        /\ ~Has(acts, EndActions) /\ ~Failing(turn)
    BY LoneOnTheWay
  <1>4. LoneJobs(job') /\ Way(job') = {}
    <2>1. p \notin OnTheWay /\ p \notin {"dismissing", "waiting", "handing", "create"}
      BY DEF OnTheWay
    <2>2. LoneJobs(job') /\ Way(job') = Way(job) \ {m}
      BY <1>1, <1>2, <2>1, LoneMove
    <2> QED BY <1>3, <2>2
  <1>5. LoneActs(acts') /\ ~Has(acts', EndActions)
    <2>1. LoneActs(acts)
      BY DEF OneByOne, Lone
    <2>2. CASE acts' = Append(acts, Draining)
      BY <1>1, <1>3, <2>1, <2>2, Values, LoneActsMore
    <2> QED BY <1>3, <2>1, <2>2
  <1>6. Lone'
    BY <1>4, <1>5 DEF OneByOne, Lone
  <1> QED BY <1>3, <1>4, <1>5, <1>6
          DEF OneByOne, TurnsPass, MarkedBusy, OneTurn, Taken, AtMostOne, Has

LEMMA DispatchEndsLone ==
  ASSUME Shape, Alone, OneByOne, NEW m \in Msgs, DispatchEnds(m)
  PROVE  OneByOne'
  <1>1. /\ job[m].at \in {"reply", "failing"} /\ job[m].at # "new" /\ job[m].by = NoMsg /\ m \in Queued
        /\ LoneJobs(job) /\ job \in [Msgs -> Jobs] /\ acts \in Seq(Actions)
        /\ {"prompted", "failed"} \subseteq JobPlaces
    <2>1. job[m].at \in {"reply", "failing"} /\ job[m].at # "new"
      BY DEF DispatchEnds
    <2> QED BY <2>1, LoneQueued DEF OneByOne, Lone, LoneJobs, Shape, Typed, JobPlaces
  <1>2. PICK p \in {"prompted", "failed"} : job' = Put(job, m, p)
    BY DEF DispatchEnds
  <1>3. /\ job' \in [Msgs -> Jobs] /\ job'[m].at = p /\ job'[m].by = NoMsg
        /\ \A n \in Msgs : n # m => job'[n] = job[n]
    BY <1>1, <1>2, PutFacts
  <1>4. LoneJobs(job') /\ Way(job') = Way(job)
    <2>1. /\ job[m].at \notin OnTheWay /\ p \notin OnTheWay
          /\ p \notin {"dismissing", "waiting", "handing", "create"}
      BY <1>1 DEF OnTheWay
    <2> QED BY <1>1, <1>3, <2>1, LoneMove
  <1>5. /\ LoneActs(acts') /\ (Has(acts', EndActions) <=> Has(acts, EndActions))
        /\ AtMostOne(acts', EndActions)
    BY <1>1, Values, LoneActsMore DEF DispatchEnds, PostAction, OneByOne, Lone, TurnsPass, OneTurn
  <1> QED BY <1>4, <1>5
          DEF OneByOne, Lone, TurnsPass, MarkedBusy, OneTurn, Taken, DispatchEnds, session, opencode

\* A dispatch that reports its error has the turn: it has nothing to drain.
LEMMA ReportedHasTurn ==
  ASSUME Shape, Alone, OneByOne, NEW m \in Msgs, Reported(m)
  PROVE  /\ job[m].at \in OnTheWay /\ ~Drainable(Busy)
         /\ job' = Put(job, m, "failing") /\ ~Failing(turn)
  <1>1. job[m].at = "report" /\ job[m].at \in OnTheWay
    BY DEF Reported, OnTheWay
  <1>2. Way(job) = {m} /\ ~Failing(turn) /\ (buf[Known].busy \/ turn.do = "show")
    BY <1>1, LoneOnTheWay
  <1>3. turn.do # "show"
    <2> SUFFICES ASSUME turn.do = "show" PROVE FALSE
      OBVIOUS
    <2>1. turn.m \in Msgs /\ turn = Showing(turn.m)
      BY ActionFacts DEF Shape, Typed
    <2>2. job[turn.m].at = "showing"
      BY <2>1 DEF Shape, Fits, TurnFit
    <2>3. turn.m \in Way(job)
      BY <2>1, <2>2 DEF Way, OnTheWay
    <2> QED BY <1>1, <1>2, <2>2, <2>3
  <1>4. ~Drainable(Busy)
    BY <1>2, <1>3 DEF Drainable, Busy, OneByOne, Lone, Alone
  <1>5. job' = Put(job, m, "failing")
    BY <1>4 DEF Reported
  <1> QED BY <1>1, <1>2, <1>4, <1>5

LEMMA ReportedLone ==
  ASSUME Shape, Alone, OneByOne, NEW m \in Msgs, Reported(m)
  PROVE  OneByOne'
  <1>1. /\ job[m].at \in OnTheWay /\ job' = Put(job, m, "failing") /\ ~Failing(turn)
        /\ turn.do # "submit"
    BY ReportedHasTurn DEF OneByOne, Lone
  <1> QED BY <1>1, LeavesTheWay DEF Reported, session, opencode

LEMMA FailsLone ==
  ASSUME Shape, Alone, OneByOne, NEW m \in Msgs, Fails(m)
  PROVE  OneByOne'
  <1>0. /\ job[m].by = NoMsg /\ job[m].at # "handing" /\ turn.do # "submit" /\ LoneJobs(job)
        /\ job \in [Msgs -> Jobs] /\ AtRest.do = "rest"
    BY Values DEF OneByOne, Lone, LoneJobs, Shape, Typed
  <1>1. CASE ShowFails(m)
    <2>1. /\ job[m].at = "showing" /\ turn' = AtRest /\ job' = Put(job, m, "lost")
          /\ UNCHANGED <<sess, saved, handoff, srv, sse>> /\ acts' = acts
      BY <1>0, <1>1 DEF ShowFails, session, opencode
    <2>2. job[m].at \in OnTheWay /\ turn'.do # "submit" /\ ~Failing(turn')
      BY <1>0, <2>1 DEF OnTheWay, Failing
    <2> QED BY <2>1, <2>2, LeavesTheWay
  <1>2. CASE DispatchFails(m)
    <2>1. /\ job[m].at \in OnTheWay /\ UNCHANGED <<sess, saved, handoff, srv, sse>>
          /\ turn' = turn /\ buf' = buf
          /\ \/ job' = Put(job, m, "report") /\ acts' = acts
             \/ job' = Put(job, m, "failing") /\ acts' = Append(acts, Draining)
      BY <1>2 DEF DispatchFails, PostAction, OnTheWay, session, opencode
    <2>2. ~Failing(turn) /\ Way(job) = {m}
      BY <2>1, LoneOnTheWay
    <2>3. CASE job' = Put(job, m, "failing")
      BY <1>0, <2>1, <2>2, <2>3, LeavesTheWay
    <2>4. CASE job' = Put(job, m, "report") /\ acts' = acts
      <3>1. m \in Queued /\ "report" \in JobPlaces /\ "report" \in OnTheWay /\ job[m].known = Known
        BY <1>0, <2>1, LoneQueued DEF JobPlaces, OnTheWay, LoneJobs
      <3>2. /\ job' \in [Msgs -> Jobs] /\ job'[m].at = "report" /\ job'[m].by = NoMsg
            /\ job'[m].known = Known /\ \A n \in Msgs : n # m => job'[n] = job[n]
        BY <1>0, <2>4, <3>1, PutFacts
      <3>3. LoneJobs(job') /\ Way(job') = Way(job) \cup {m}
        BY <1>0, <3>1, <3>2, LoneMove
      <3>4. Way(job') = Way(job)
        BY <2>2, <3>3
      <3> QED BY <2>1, <2>4, <3>3, <3>4 DEF OneByOne, Lone, TurnsPass, MarkedBusy
    <2> QED BY <2>1, <2>3, <2>4
  <1>3. CASE DispatchThrows(m)
    <2>1. /\ job[m].at \in OnTheWay /\ UNCHANGED <<sess, saved, handoff, srv, sse>>
          /\ turn' = turn /\ job' = Put(job, m, "failing") /\ acts' = acts
      BY <1>3 DEF DispatchThrows, OnTheWay, session, opencode
    <2> QED BY <1>0, <2>1, LoneOnTheWay, LeavesTheWay
  <1>4. ~SubmitFails(m)
    BY <1>0 DEF SubmitFails, Submits
  <1> QED BY <1>1, <1>2, <1>3, <1>4 DEF Fails

LEMMA ServerLone ==
  ASSUME Shape, Alone, OneByOne, NEW s \in Sessions, NEW from, NEW to \in ServerStates,
         NEW e \in Events, Server(s, from, to, e), UNCHANGED <<past, retries>>,
         e.s = s, e.type # "retry", from # "idle", to # "retrying",
         e.type \in {"idle", "error"} <=> to = "idle"
  PROVE  OneByOne'
  <1>1. /\ srv[s] = from /\ srv' = [srv EXCEPT ![s] = to] /\ sse' = Append(sse, e)
        /\ job' = job /\ acts' = acts /\ turn' = turn /\ buf' = buf /\ handoff' = handoff
        /\ sess' = sess /\ saved' = saved
    BY DEF Server, runtime, session
  <1>2. /\ srv \in [Sessions -> ServerStates] /\ sse \in Seq(Events) /\ Known \in Sessions
        /\ e \notin RetryEvents /\ (e \in EndEvents <=> s = Known /\ to = "idle")
    BY KnownSession DEF Shape, Typed, RetryEvents, EndEvents
  <1>3. Lone'
    <2>1. srv'[Known] # "retrying"
      BY <1>1, <1>2 DEF OneByOne, Lone
    <2>2. ~Has(sse', RetryEvents)
      BY <1>1, <1>2, HasAppended DEF OneByOne, Lone
    <2> QED BY <1>1, <2>1, <2>2 DEF OneByOne, Lone
  <1>4. CASE s = Known
    <2>1. /\ Way(job) = {} /\ ~Has(sse, EndEvents) /\ ~Has(acts, EndActions) /\ ~Failing(turn)
          /\ (buf[Known].busy \/ turn.do = "show")
      BY <1>1, <1>4 DEF OneByOne, TurnsPass, OneTurn, MarkedBusy, Taken
    <2>2. srv'[Known] = to
      BY <1>1, <1>2, <1>4
    <2>3. (Has(sse', EndEvents) => to = "idle") /\ AtMostOne(sse', EndEvents)
      <3>1. CASE e \in EndEvents
        BY <1>1, <1>2, <2>1, <3>1, HasAppended
      <3>2. CASE e \notin EndEvents
        BY <1>1, <1>2, <2>1, <3>2, HasAppended DEF OneByOne, TurnsPass, OneTurn
      <3> QED BY <3>1, <3>2
    <2>4. TurnsPass'
      BY <1>1, <2>1, <2>2, <2>3 DEF OneByOne, TurnsPass, OneTurn
    <2> QED BY <1>1, <1>3, <2>1, <2>4 DEF OneByOne, MarkedBusy
  <1>5. CASE s # Known
    <2>1. srv'[Known] = srv[Known]
      BY <1>1, <1>2, <1>5
    <2>2. (Has(sse', EndEvents) <=> Has(sse, EndEvents)) /\ AtMostOne(sse', EndEvents)
      BY <1>1, <1>2, <1>5, HasAppended DEF OneByOne, TurnsPass, OneTurn
    <2>3. TurnsPass'
      BY <1>1, <2>1, <2>2 DEF OneByOne, TurnsPass, OneTurn
    <2>4. MarkedBusy'
      BY <1>1, <2>1, <2>2 DEF OneByOne, MarkedBusy, Taken
    <2> QED BY <1>3, <2>3, <2>4 DEF OneByOne
  <1> QED BY <1>4, <1>5

LEMMA RunsLone ==
  ASSUME Shape, Alone, OneByOne, NEW s \in Sessions, retries' = retries,
         RunCompletes(s) \/ RunErrs(s) \/ RunRetries(s) \/ RetryStarts(s) \/ RunAsks(s)
           \/ AbortArrives(s)
  PROVE  OneByOne'
  <1>1. /\ "idle" \in ServerStates /\ "running" \in ServerStates /\ "asking" \in ServerStates
        /\ retries \in Nat
    BY DEF ServerStates, Shape, Typed
  <1>2. CASE RunCompletes(s)
    <2>1. PICK natural \in BOOLEAN :
            Server(s, "running", "idle", [Event("idle", s) EXCEPT !.natural = natural]) /\ past' = past
      BY <1>2 DEF RunCompletes, Server
    <2> DEFINE e == [Event("idle", s) EXCEPT !.natural = natural]
    <2>2. e \in Events /\ e.type = "idle" /\ e.s = s
      BY EventTyped
    <2>3. Server(s, "running", "idle", e) /\ past' = past
      BY <2>1
    <2> HIDE DEF e
    <2> QED BY <1>1, <2>2, <2>3, ServerLone
  <1>3. CASE RunErrs(s)
    <2>1. Server(s, "running", "idle", Event("error", s)) /\ past' = past
      BY <1>3 DEF RunErrs, Server
    <2> QED BY <1>1, <2>1, EventTyped, ServerLone
  <1>4. ~RunRetries(s)
    BY <1>1 DEF RunRetries
  <1>5. CASE RetryStarts(s)
    <2>1. Server(s, "retrying", "running", Event("busy", s)) /\ past' = past
      BY <1>5 DEF RetryStarts, Server
    <2> QED BY <1>1, <2>1, EventTyped, ServerLone
  <1>6. CASE RunAsks(s)
    <2>1. Server(s, "running", "asking", Event("asked", s)) /\ past' = past
      BY <1>6 DEF RunAsks, Server
    <2> QED BY <1>1, <2>1, EventTyped, ServerLone
  <1>7. CASE AbortArrives(s)
    <2>1. CASE srv[s] = "idle"
      BY <1>7, <2>1 DEF AbortArrives, OneByOne, Lone, TurnsPass, MarkedBusy, runtime, session
    <2>2. CASE srv[s] # "idle"
      <3>1. Server(s, srv[s], "idle", Event("idle", s)) /\ past' = past
        BY <1>7, <2>2 DEF AbortArrives, Server
      <3> QED BY <1>1, <2>2, <3>1, EventTyped, ServerLone
    <2> QED BY <2>1, <2>2
  <1> QED BY <1>2, <1>3, <1>4, <1>5, <1>6, <1>7

LEMMA DeliverLone ==
  ASSUME Shape, Alone, OneByOne, Deliver
  PROVE  OneByOne'
  <1> DEFINE e == Head(sse)
             x == Handling(e)
  <1>1. /\ sse # <<>> /\ sse' = Tail(sse) /\ acts' = Append(acts, x) /\ job' = job /\ turn' = turn
        /\ buf' = buf /\ handoff' = handoff /\ sess' = sess /\ saved' = saved /\ srv' = srv
    BY DEF Deliver, PostAction, runtime, session
  <1>2. /\ sse \in Seq(Events) /\ acts \in Seq(Actions) /\ AtMostOne(sse, EndEvents)
        /\ AtMostOne(acts, EndActions) /\ LoneActs(acts) /\ ~Has(sse, RetryEvents)
    BY DEF Shape, Typed, OneByOne, Lone, TurnsPass, OneTurn
  <1>3. e \in Events /\ e \notin RetryEvents /\ ~Has(Tail(sse), RetryEvents)
    BY <1>1, <1>2, HeadAndTail, HasTail
  <1>4. /\ Has(sse, EndEvents) <=> (e \in EndEvents \/ Has(sse', EndEvents))
        /\ AtMostOne(sse', EndEvents) /\ (e \in EndEvents => ~Has(sse', EndEvents))
    BY <1>1, <1>2, HasTail
  <1> HIDE DEF e
  <1>5. /\ x \in Actions /\ x.do = "event" /\ x.e = e /\ x \notin RetryActions
        /\ x \in EndActions <=> e \in EndEvents
    BY <1>3, EventActions DEF RetryActions, EndActions
  <1> HIDE DEF x
  <1>6. LoneActs(acts')
    <2>1. ~Has(acts', RetryActions)
      BY <1>1, <1>2, <1>5, HasAppended DEF LoneActs
    <2>2. \A i \in DOMAIN acts' : acts'[i].do \notin {"submit", "abort"}
      BY <1>1, <1>2, <1>5, Appended1 DEF LoneActs
    <2> QED BY <2>1, <2>2 DEF LoneActs
  <1>7. Lone'
    BY <1>1, <1>3, <1>6 DEF OneByOne, Lone
  <1>8. CASE e \in EndEvents
    <2>1. /\ Way(job) = {} /\ srv[Known] = "idle" /\ ~Has(acts, EndActions) /\ ~Failing(turn)
          /\ (buf[Known].busy \/ turn.do = "show")
      BY <1>4, <1>8 DEF OneByOne, TurnsPass, OneTurn, MarkedBusy, Taken
    <2>2. AtMostOne(acts', EndActions) /\ ~Has(sse', EndEvents)
      BY <1>1, <1>2, <1>4, <1>5, <1>8, <2>1, HasAppended
    <2>3. TurnsPass'
      BY <1>1, <1>4, <2>1, <2>2 DEF OneByOne, TurnsPass, OneTurn
    <2> QED BY <1>1, <1>7, <2>1, <2>3 DEF OneByOne, MarkedBusy
  <1>9. CASE e \notin EndEvents
    <2>1. AtMostOne(acts', EndActions) /\ (Has(acts', EndActions) <=> Has(acts, EndActions))
      BY <1>1, <1>2, <1>5, <1>9, HasAppended
    <2>2. TurnsPass'
      BY <1>1, <1>4, <1>9, <2>1 DEF OneByOne, TurnsPass, OneTurn
    <2>3. MarkedBusy'
      BY <1>1, <1>4, <1>9, <2>1 DEF OneByOne, MarkedBusy, Taken
    <2> QED BY <1>7, <2>2, <2>3 DEF OneByOne
  <1> QED BY <1>8, <1>9

\* What makes a thread another kind of thread stays.
LEMMA HistoryGrows ==
  ASSUME Shape, [Next]_vars
  PROVE  (past' = past \/ past' = TRUE) /\ (retries' = retries \/ retries' = retries + 1)
  <1>1. ASSUME NEW m \in Msgs, Queue(m) \/ Say(m) \/ StopWaiting(m) \/ Withdraw(m)
        PROVE  (past' = past \/ past' = TRUE) /\ retries' = retries
    BY <1>1 DEF Queue, Say, StopWaiting, Withdraw, queueHistory, counts
  <1>2. CASE Abort \/ Answer \/ HandoffShown \/ Deliver \/ UNCHANGED vars
    BY <1>2 DEF Abort, Answer, HandoffShown, Deliver, queueHistory, counts, vars
  <1>3. CASE RunAction
    <2>1. retries' = retries
      BY <1>3 DEF RunAction, RunEnqueue, RunDrain, RunSubmit, RunAbort, RunEvent, Settle,
                  queueHistory, counts
    <2>2. past' = past \/ past' = TRUE
      <3>1. CASE RunEnqueue
        BY <3>1, RunEnqueueMoves
      <3>2. CASE RunDrain \/ RunSubmit \/ RunAbort
        BY <3>2 DEF RunDrain, RunSubmit, RunAbort, queueHistory
      <3>3. CASE RunEvent \/ Settle
        BY <3>3 DEF RunEvent, Settle, HandOff
      <3> QED BY <1>3, <3>1, <3>2, <3>3 DEF RunAction
    <2> QED BY <2>1, <2>2
  <1>4. ASSUME NEW m \in Msgs, Works(m) \/ Fails(m)
        PROVE  past' = past /\ retries' = retries
    <2>1. CASE Works(m)
      BY <2>1 DEF Works, Shown, EnsureSession, CreateSession, Prompt, SubmitEnds, DispatchEnds,
                  Reported, queueHistory, counts
    <2>2. CASE Fails(m)
      BY <2>2 DEF Fails, ShowFails, DispatchFails, DispatchThrows, SubmitFails, queueHistory, counts
    <2> QED BY <1>4, <2>1, <2>2
  <1>5. ASSUME NEW s \in Sessions, RunCompletes(s) \/ RunErrs(s) \/ RunRetries(s)
                 \/ RetryStarts(s) \/ RunAsks(s) \/ AbortArrives(s)
        PROVE  past' = past /\ (retries' = retries \/ retries' = retries + 1)
    BY <1>5 DEF RunCompletes, RunErrs, RunRetries, RetryStarts, RunAsks, AbortArrives, Server
  <1> QED BY <1>1, <1>2, <1>3, <1>4, <1>5 DEF Next

LEMMA AloneBefore ==
  ASSUME Shape, [Next]_vars, Alone'
  PROVE  Alone /\ past' = past /\ retries' = retries
  <1>1. retries \in Nat
    BY DEF Shape, Typed
  <1>2. past' = past /\ ~past
    <2>1. past' = past \/ past' = TRUE
      BY HistoryGrows
    <2>2. ~past'
      BY DEF Alone
    <2>3. past' # TRUE
      BY <2>2
    <2>4. past' = past
      BY <2>1, <2>3
    <2> QED BY <2>2, <2>4
  <1>3. retries' = 0 /\ (retries' = retries \/ retries' = retries + 1)
    BY HistoryGrows, Zenon DEF Alone
  <1>4. retries' = retries /\ retries = 0
    BY <1>1, <1>3
  <1>5. Known # NoSession
    BY DEF Alone
  <1> QED BY <1>2, <1>4, <1>5 DEF Alone

LEMMA SerialKept ==
  ASSUME Shape, Targets, Serial, [Next]_vars
  PROVE  Serial'
  <1> SUFFICES ASSUME Alone'
               PROVE  OneByOne'
    BY DEF Serial
  <1>0. Alone /\ OneByOne /\ past' = past /\ retries' = retries /\ past # TRUE
    BY AloneBefore DEF Serial, Alone
  <1>1. CASE UNCHANGED vars
    BY <1>0, <1>1 DEF vars, runtime, session, opencode, OneByOne, Lone, TurnsPass, MarkedBusy
  <1>2. ASSUME NEW m \in Msgs, Queue(m) \/ Say(m) \/ StopWaiting(m) \/ Withdraw(m)
        PROVE  OneByOne'
    <2>1. ~Say(m) /\ ~StopWaiting(m)
      BY <1>0 DEF Say, StopWaiting, OneByOne, Lone, LoneJobs
    <2> QED BY <1>0, <1>2, <2>1, QueueLone, WithdrawLone
  <1>3. CASE Abort \/ Answer \/ HandoffShown \/ Deliver
    <2>1. ~HandoffShown
      BY <1>0 DEF HandoffShown, OneByOne, Lone
    <2> QED BY <1>0, <1>3, <2>1, AbortLone, AnswerLone, DeliverLone
  <1>4. CASE RunAction
    <2>1. ~RunSubmit /\ ~RunAbort
      <3>1. acts # <<>> /\ acts \in Seq(Actions) => Head(acts).do \notin {"submit", "abort"}
        BY <1>0, HeadAndTail DEF OneByOne, Lone, LoneActs
      <3> QED BY <3>1 DEF RunSubmit, RunAbort, Starts, Shape, Typed
    <2> QED BY <1>0, <1>4, <2>1, RunEnqueueLone, RunDrainLone, RunEventLone, SettleLone DEF RunAction
  <1>5. ASSUME NEW m \in Msgs, Works(m)
        PROVE  OneByOne'
    <2>1. ~CreateSession(m) /\ ~SubmitEnds(m)
      BY <1>0 DEF CreateSession, SubmitEnds, Submits, OneByOne, Lone, LoneJobs
    <2> QED BY <1>0, <1>5, <2>1, ShownLone, EnsureSessionLone, PromptLone, DispatchEndsLone,
               ReportedLone DEF Works
  <1>6. ASSUME NEW m \in Msgs, Fails(m)
        PROVE  OneByOne'
    BY <1>0, <1>6, FailsLone
  <1>7. ASSUME NEW s \in Sessions, RunCompletes(s) \/ RunErrs(s) \/ RunRetries(s)
                 \/ RetryStarts(s) \/ RunAsks(s) \/ AbortArrives(s)
        PROVE  OneByOne'
    BY <1>0, <1>7, RunsLone
  <1> QED BY <1>1, <1>2, <1>3, <1>4, <1>5, <1>6, <1>7 DEF Next

LEMMA QueueIsSerial ==
  Spec => []Serial
  <1>1. Init => Serial
    <2> SUFFICES ASSUME Init, Alone
                 PROVE  OneByOne
      BY DEF Serial
    <2>1. \A m \in Msgs : job[m].at = "new" /\ job[m].by = NoMsg
      BY DEF Init, NewJob
    <2>2. Known \in Sessions /\ Saved = Known
      BY Values DEF Alone
    <2>3. /\ sess = Known /\ saved = Known /\ handoff = NoMsg /\ acts = <<>> /\ sse = <<>>
          /\ turn = AtRest /\ srv[Known] = "idle"
      BY <2>2 DEF Init
    <2>4. LoneJobs(job) /\ Way(job) = {}
      BY <2>1, Values DEF LoneJobs, Way, OnTheWay
    <2>5. ~Failing(turn) /\ turn.do = "rest"
      BY <2>3, Values DEF Failing
    <2>6. LoneActs(acts) /\ ~Has(acts, EndActions) /\ ~Has(sse, EndEvents) /\ ~Has(sse, RetryEvents)
      BY <2>3 DEF LoneActs, Has
    <2> QED BY <2>3, <2>4, <2>5, <2>6
            DEF OneByOne, Lone, TurnsPass, MarkedBusy, OneTurn, Taken, AtMostOne, Has
  <1>2. Shape /\ Targets /\ Serial /\ [Next]_vars => Serial'
    BY SerialKept
  <1> QED BY <1>1, <1>2, QueueKeepsShape, PTL DEF Spec

\* While a thread's messages all go through its queue, two dequeued messages are never
\* on their way to opencode at once (tryDrainQueue, dispatchPrompt, isSessionBusy).
THEOREM QueueOneDispatch ==
  Spec => []OneDispatchAtATime
  <1>1. Shape /\ Serial => OneDispatchAtATime
    <2> SUFFICES ASSUME Serial, Alone
                 PROVE  Cardinality(InDispatch) <= 1
      BY DEF OneDispatchAtATime
    <2>1. InDispatch \subseteq Way(job)
      BY Values DEF InDispatch, Way, OnTheWay
    <2>2. \A m, n \in InDispatch : m = n
      BY <2>1 DEF Serial, OneByOne, TurnsPass, OneTurn
    <2> DEFINE D == InDispatch
    <2> HIDE DEF D
    <2>3. \A m, n \in D : m = n
      BY <2>2 DEF D
    <2>4. CASE D = {}
      BY <2>4, FS_EmptySet DEF D
    <2>5. CASE D # {}
      <3>1. PICK m \in D : TRUE
        BY <2>5
      <3>2. D = {m}
        BY <2>3, <3>1
      <3>3. Cardinality({m}) = 1
        BY FS_Singleton
      <3> QED BY <3>2, <3>3 DEF D
    <2> QED BY <2>4, <2>5
  <1> QED BY <1>1, QueueIsSerial, QueueKeepsShape, PTL

\* A message is taken from the queue when nothing has the turn.
LEMMA TakenWhenFree ==
  ASSUME Shape, Alone, OneByOne, [Next]_vars, NEW m \in Msgs,
         job[m].at \in {"queued", "posted"}, job'[m].at \in {"showing", "ensure"}
  PROVE  srv[Known] = "idle"
  <1>0. /\ job \in [Msgs -> Jobs] /\ queue \in Seq(Queued) /\ sess \in Sessions \cup {NoSession}
        /\ LoneJobs(job) /\ turn.do # "submit"
    BY DEF Shape, Typed, OneByOne, Lone
  <1>a. {"posted", "withdrawn", "reply", "prompted", "failed", "failing", "report", "lost",
         "ensure"} \subseteq JobPlaces
    BY DEF JobPlaces
  <1>b. ASSUME NEW n \in Msgs, NEW p \in JobPlaces, job' = Put(job, n, p),
               job[n].at \notin {"queued", "posted"} \/ p \notin {"showing", "ensure"}
        PROVE  FALSE
    BY <1>0, <1>b, PutFacts
  <1>c. turn.do # "show" /\ ~Busy => srv[Known] = "idle"
    BY FreeAtRest DEF Taken
  <1>1. ASSUME NEW n \in Msgs, Queue(n) \/ Say(n) \/ StopWaiting(n) \/ Withdraw(n)
        PROVE  FALSE
    <2>1. \E p \in {"posted", "dismissing", "withdrawn"} : job' = Put(job, n, p)
      BY <1>1 DEF Queue, Say, StopWaiting, Withdraw
    <2>2. {"posted", "dismissing", "withdrawn"} \subseteq JobPlaces
      BY DEF JobPlaces
    <2> QED BY <1>b, <2>1, <2>2
  <1>2. ~(Abort \/ Answer \/ Deliver \/ UNCHANGED vars)
    BY DEF Abort, Answer, Deliver, vars, runtime
  <1>3. ~HandoffShown
    BY DEF HandoffShown, OneByOne, Lone
  <1>4. CASE RunEnqueue
    <2>1. turn.do = "rest"
      BY <1>4, StartsFacts DEF RunEnqueue
    <2>2. ~Busy
      BY <1>4, RunEnqueueMoves
    <2> QED BY <1>c, <2>1, <2>2
  <1>5. CASE RunDrain
    <2>1. turn.do = "rest" /\ Drain(job, Busy)
      BY <1>5, StartsFacts DEF RunDrain
    <2>2. ~Busy
      BY <1>0, <2>1, DrainMoves DEF Drainable
    <2> QED BY <1>c, <2>1, <2>2
  <1>6. ~RunSubmit /\ ~RunAbort
    <2>1. acts # <<>> /\ acts \in Seq(Actions) => Head(acts).do \notin {"submit", "abort"}
      BY HeadAndTail DEF OneByOne, Lone, LoneActs
    <2> QED BY <2>1 DEF RunSubmit, RunAbort, Starts, Shape, Typed
  <1>7. CASE RunEvent
    <2>1. job' = job \/ HandOff
      BY <1>7 DEF RunEvent
    <2>2. HandOff => job'[m] = job[m] \/ job'[m].at = "handing"
      <3>1. CASE ~CanHandOff(queue)
        BY <3>1 DEF HandOff
      <3>2. CASE CanHandOff(queue)
        <4>1. queue # <<>>
          BY <3>2 DEF CanHandOff
        <4>2. Head(queue) \in Msgs /\ "handing" \in JobPlaces /\ NoMsg \in Msgs \cup {NoMsg}
          BY <1>0, <4>1, HeadAndTail, Values DEF JobPlaces
        <4> DEFINE h == Head(queue)
                   k == Dequeued(job, h, "handing", NoMsg)
        <4>3. k[h].at = "handing" /\ \A n \in Msgs : n # h => k[n] = job[n]
          BY <1>0, <4>2, DequeuedFacts
        <4>4. HandOff => job' = k
          BY <3>2 DEF HandOff
        <4> HIDE DEF h, k
        <4> QED BY <4>3, <4>4
      <3> QED BY <3>1, <3>2
    <2> QED BY <2>1, <2>2
  <1>8. CASE Settle
    <2>1. turn.do = "event"
      BY <1>8 DEF Settle
    <2>2. CASE turn.e.type = "idle"
      <3>1. Drain(job, Busy)
        BY <1>8, <2>2 DEF Settle
      <3>2. ~Busy
        BY <1>0, <3>1, DrainMoves DEF Drainable
      <3> QED BY <1>c, <2>1, <3>2
    <2>3. CASE turn.e.type = "error"
      BY <2>1, <2>3 DEF Failing, OneByOne, TurnsPass, OneTurn
    <2>4. CASE turn.e.type = "asked"
      <3>1. HandOff
        BY <1>8, <2>4 DEF Settle
      <3>2. CASE ~CanHandOff(queue)
        BY <3>1, <3>2 DEF HandOff
      <3>3. CASE CanHandOff(queue)
        <4>1. queue # <<>>
          BY <3>3 DEF CanHandOff
        <4>2. Head(queue) \in Msgs /\ "handing" \in JobPlaces /\ NoMsg \in Msgs \cup {NoMsg}
          BY <1>0, <4>1, HeadAndTail, Values DEF JobPlaces
        <4> DEFINE h == Head(queue)
                   k == Dequeued(job, h, "handing", NoMsg)
        <4>3. k[h].at = "handing" /\ \A n \in Msgs : n # h => k[n] = job[n]
          BY <1>0, <4>2, DequeuedFacts
        <4>4. job' = k
          BY <3>1, <3>3 DEF HandOff
        <4> HIDE DEF h, k
        <4> QED BY <4>3, <4>4
      <3> QED BY <3>2, <3>3
    <2> QED BY <1>8, <2>2, <2>3, <2>4 DEF Settle
  <1>9. ASSUME NEW n \in Msgs, Works(n)
        PROVE  FALSE
    <2>1. CASE Shown(n)
      <3>1. job[n].at = "showing" /\ job' = Put(job, n, "ensure")
        BY <2>1 DEF Shown, OneByOne, Lone, LoneJobs
      <3> QED BY <1>a, <1>b, <3>1
    <2>2. CASE EnsureSession(n) \/ CreateSession(n)
      <3>1. /\ job[n].at \in {"ensure", "create"}
            /\ \/ job' = Put(job, n, "create")
               \/ \E s \in Sessions : job' = [job EXCEPT ![n].at = "prompt", ![n].target = s]
        BY <2>2, Values DEF EnsureSession, CreateSession, Shape, Typed
      <3>2. job'[m] = job[m]
        BY <1>0, <3>1 DEF Put
      <3> QED BY <3>2
    <2>3. CASE Prompt(n) \/ SubmitEnds(n) \/ DispatchEnds(n)
      <3>1. \E p \in {"reply", "prompted", "failed"} : job' = Put(job, n, p)
        BY <2>3 DEF Prompt, SubmitEnds, DispatchEnds
      <3> QED BY <1>a, <1>b, <3>1
    <2>4. CASE Reported(n)
      <3>1. OneByOne /\ job[n].at = "report" /\ job[n].at \in OnTheWay
        BY <2>4 DEF Reported, OnTheWay
      <3>2. job' = Put(job, n, "failing")
        BY <2>4, ReportedHasTurn
      <3> QED BY <1>a, <1>b, <3>2
    <2> QED BY <1>9, <2>1, <2>2, <2>3, <2>4 DEF Works
  <1>10. ASSUME NEW n \in Msgs, Fails(n)
         PROVE  FALSE
    <2>1. ~SubmitFails(n)
      BY <1>0 DEF SubmitFails, Submits
    <2>2. job[n].by = NoMsg
      BY <1>0 DEF LoneJobs
    <2>3. \E p \in {"lost", "report", "failing"} : job' = Put(job, n, p)
      BY <1>10, <2>1, <2>2 DEF Fails, ShowFails, DispatchFails, DispatchThrows
    <2> QED BY <1>a, <1>b, <2>3
  <1>11. ASSUME NEW s \in Sessions, RunCompletes(s) \/ RunErrs(s) \/ RunRetries(s)
                  \/ RetryStarts(s) \/ RunAsks(s) \/ AbortArrives(s)
         PROVE  FALSE
    BY <1>11 DEF RunCompletes, RunErrs, RunRetries, RetryStarts, RunAsks, AbortArrives, Server,
                 runtime
  <1> QED BY <1>1, <1>2, <1>3, <1>4, <1>5, <1>6, <1>7, <1>8, <1>9, <1>10, <1>11
          DEF Next, RunAction

\* However the events of the stream lag behind, a queued message is taken only when the
\* run of the session is over (tryDrainQueue, markQueueDispatchBusy, isSessionBusy).
THEOREM QueueWaitsForTheRun ==
  Spec => WaitsForTheRun
  <1>1. Shape /\ Serial /\ [Next]_vars => TakesAfterTheRun
    <2> SUFFICES ASSUME Shape, Serial, [Next]_vars, NEW m \in Queued, Alone,
                        job[m].at \in {"queued", "posted"}, job'[m].at \in {"showing", "ensure"}
                 PROVE  srv[sess] = "idle"
      BY DEF TakesAfterTheRun
    <2>1. OneByOne /\ sess = Known /\ m \in Msgs
      BY Values DEF Serial, OneByOne, Lone
    <2> QED BY <2>1, TakenWhenFree
  <1> QED BY <1>1, QueueIsSerial, QueueKeepsShape, PTL DEF Spec, WaitsForTheRun

-----------------------------------------------------------------------------
(* A thread whose messages all go through the queue keeps their order *)

InOrder(o, m) == \E i \in DOMAIN o : o[i] = m
CameIn(o, m, n) == \E i, j \in DOMAIN o : i < j /\ o[i] = m /\ o[j] = n

\* The queue is in the order the messages came, behind the message on its way.
OrderFit(o, q, j) ==
  /\ \A i \in DOMAIN o : j[o[i]].at \notin {"new", "posted"}
  /\ \A i, k \in DOMAIN o : o[i] = o[k] => i = k
  /\ \A m \in Msgs : j[m].at = "queued" \/ j[m].at \in OnTheWay => InOrder(o, m)
  /\ \A i, k \in DOMAIN q : i < k => CameIn(o, q[i], q[k])
  /\ \A m \in Way(j), k \in DOMAIN q : CameIn(o, m, q[k])
Ordered == Alone => OrderFit(order, queue, job)

LEMMA OrderFrame ==
  ASSUME NEW o \in Seq(Queued), NEW q, NEW j, NEW k, OrderFit(o, q, j),
         \A m \in Msgs : /\ k[m].at \in {"new", "posted"} => j[m].at \in {"new", "posted"}
                         /\ k[m].at \in OnTheWay => j[m].at \in OnTheWay
                         /\ k[m].at = "queued" => j[m].at = "queued"
  PROVE  OrderFit(o, q, k)
  <1>1. \A i \in DOMAIN o : k[o[i]].at \notin {"new", "posted"}
    <2>1. \A i \in DOMAIN o : o[i] \in Msgs
      BY Values
    <2> QED BY <2>1 DEF OrderFit
  <1>2. Way(k) \subseteq Way(j)
    BY DEF Way
  <1>3. \A m \in Msgs : k[m].at = "queued" \/ k[m].at \in OnTheWay => InOrder(o, m)
    BY DEF OrderFit
  <1>4. \A m \in Way(k), l \in DOMAIN q : CameIn(o, m, q[l])
    BY <1>2 DEF OrderFit
  <1> QED BY <1>1, <1>3, <1>4 DEF OrderFit

\* The head of the queue is taken, or is the message that has just come.
LEMMA OrderHead ==
  ASSUME NEW o \in Seq(Queued), NEW q \in Seq(Queued), q # <<>>, NEW j, NEW k, OrderFit(o, q, j),
         Way(j) = {}, j[Head(q)].at = "queued", k[Head(q)].at \in {"showing", "ensure"},
         \A m \in Msgs : m # Head(q) => k[m] = j[m]
  PROVE  OrderFit(o, Tail(q), k)
  <1> DEFINE h == Head(q)
  <1>1. /\ h \in Queued /\ h = q[1] /\ 1 \in DOMAIN q
        /\ \A i \in DOMAIN Tail(q) : i \in Nat /\ i # 0 /\ i + 1 \in DOMAIN q /\ Tail(q)[i] = q[i + 1]
    BY HeadAndTail
  <1>2. h \in Msgs /\ \A i \in DOMAIN o : o[i] \in Msgs
    BY <1>1, Values
  <1>3. Way(k) \subseteq {h}
    BY DEF Way
  <1> HIDE DEF h
  <1>4. \A i \in DOMAIN Tail(q) : CameIn(o, h, Tail(q)[i])
    <2> SUFFICES ASSUME NEW i \in DOMAIN Tail(q)
                 PROVE  CameIn(o, h, Tail(q)[i])
      OBVIOUS
    <2>1. 1 < i + 1 /\ i + 1 \in DOMAIN q /\ Tail(q)[i] = q[i + 1]
      BY <1>1
    <2> QED BY <1>1, <2>1 DEF OrderFit
  <1>5. \A i, l \in DOMAIN Tail(q) : i < l => CameIn(o, Tail(q)[i], Tail(q)[l])
    <2> SUFFICES ASSUME NEW i \in DOMAIN Tail(q), NEW l \in DOMAIN Tail(q), i < l
                 PROVE  CameIn(o, Tail(q)[i], Tail(q)[l])
      OBVIOUS
    <2>1. /\ i + 1 < l + 1 /\ i + 1 \in DOMAIN q /\ l + 1 \in DOMAIN q
          /\ Tail(q)[i] = q[i + 1] /\ Tail(q)[l] = q[l + 1]
      BY <1>1
    <2> QED BY <2>1 DEF OrderFit
  <1>6. \A i \in DOMAIN o : k[o[i]].at \notin {"new", "posted"}
    BY <1>2 DEF OrderFit, h
  <1>7. \A m \in Msgs : k[m].at = "queued" \/ k[m].at \in OnTheWay => InOrder(o, m)
    BY <1>2 DEF OrderFit, h
  <1> QED BY <1>3, <1>4, <1>5, <1>6, <1>7 DEF OrderFit

\* A message joins the queue.
LEMMA OrderJoin ==
  ASSUME NEW o \in Seq(Queued), NEW q \in Seq(Queued), NEW j, NEW k, NEW x \in Queued,
         OrderFit(o, q, j), QueueFit(q, j), j[x].at = "posted", k[x].at = "queued",
         \A m \in Msgs : m # x => k[m] = j[m]
  PROVE  OrderFit(Append(o, x), Append(q, x), k)
  <1> DEFINE p == Append(o, x)
             r == Append(q, x)
  <1>1. /\ p \in Seq(Queued) /\ DOMAIN p = DOMAIN o \cup {Len(o) + 1} /\ Len(o) + 1 \notin DOMAIN o
        /\ p[Len(o) + 1] = x
        /\ \A i \in DOMAIN o : p[i] = o[i] /\ i \in Nat /\ i < Len(o) + 1
    BY Appended1
  <1>2. /\ DOMAIN r = DOMAIN q \cup {Len(q) + 1} /\ Len(q) + 1 \notin DOMAIN q
        /\ r[Len(q) + 1] = x /\ Len(q) + 1 \in Nat
        /\ \A i \in DOMAIN q : r[i] = q[i] /\ i \in Nat /\ i < Len(q) + 1
    BY Appended1
  <1>3. /\ x \in Msgs /\ (\A i \in DOMAIN o : o[i] \in Msgs) /\ (\A i \in DOMAIN q : q[i] \in Msgs)
    BY Values
  <1> HIDE DEF p, r
  <1>4. \A i \in DOMAIN o : o[i] # x
    BY DEF OrderFit
  <1>5. \A m, n : CameIn(o, m, n) => CameIn(p, m, n)
    BY <1>1 DEF CameIn
  <1>6. \A m : InOrder(o, m) => CameIn(p, m, x)
    BY <1>1 DEF CameIn, InOrder
  <1>7. \A i \in DOMAIN p : k[p[i]].at \notin {"new", "posted"}
    BY <1>1, <1>3, <1>4 DEF OrderFit
  <1>8. \A i, l \in DOMAIN p : p[i] = p[l] => i = l
    BY <1>1, <1>4 DEF OrderFit
  <1>9. \A m \in Msgs : k[m].at = "queued" \/ k[m].at \in OnTheWay => InOrder(p, m)
    BY <1>1 DEF OrderFit, InOrder
  <1>10. \A i \in DOMAIN q : InOrder(o, q[i])
    BY <1>3 DEF QueueFit, OrderFit
  <1>11. \A i, l \in DOMAIN r : i < l => CameIn(p, r[i], r[l])
    <2> SUFFICES ASSUME NEW i \in DOMAIN r, NEW l \in DOMAIN r, i < l
                 PROVE  CameIn(p, r[i], r[l])
      OBVIOUS
    <2>1. i \in DOMAIN q
      BY <1>2
    <2>2. CASE l \in DOMAIN q
      BY <1>2, <1>5, <2>1, <2>2 DEF OrderFit
    <2>3. CASE l = Len(q) + 1
      BY <1>2, <1>6, <1>10, <2>1, <2>3
    <2> QED BY <1>2, <2>2, <2>3
  <1>12. \A m \in Way(k), l \in DOMAIN r : CameIn(p, m, r[l])
    <2> SUFFICES ASSUME NEW m \in Way(k), NEW l \in DOMAIN r
                 PROVE  CameIn(p, m, r[l])
      OBVIOUS
    <2>1. m \in Way(j) /\ InOrder(o, m)
      BY DEF Way, OnTheWay, OrderFit
    <2>2. CASE l \in DOMAIN q
      BY <1>2, <1>5, <2>1, <2>2 DEF OrderFit
    <2>3. CASE l = Len(q) + 1
      BY <1>2, <1>6, <2>1, <2>3
    <2> QED BY <1>2, <2>2, <2>3
  <1> QED BY <1>7, <1>8, <1>9, <1>11, <1>12 DEF OrderFit, p, r

\* A message is withdrawn.
LEMMA OrderWithdraw ==
  ASSUME NEW o \in Seq(Queued), NEW q \in Seq(Queued), NEW l \in DOMAIN q, NEW j, OrderFit(o, q, j)
  PROVE  OrderFit(o, RemoveAt(q, l), j)
  <1> DEFINE r == RemoveAt(q, l)
  <1>1. \A i \in DOMAIN r :
           i \in Nat /\ l \in Nat
           /\ IF i < l THEN i \in DOMAIN q /\ r[i] = q[i] ELSE i + 1 \in DOMAIN q /\ r[i] = q[i + 1]
    BY Removed
  <1> HIDE DEF r
  <1>2. \A i, k \in DOMAIN r : i < k => CameIn(o, r[i], r[k])
    <2> SUFFICES ASSUME NEW i \in DOMAIN r, NEW k \in DOMAIN r, i < k
                 PROVE  CameIn(o, r[i], r[k])
      OBVIOUS
    <2> DEFINE b == IF i < l THEN i ELSE i + 1
               c == IF k < l THEN k ELSE k + 1
    <2>1. b \in DOMAIN q /\ c \in DOMAIN q /\ r[i] = q[b] /\ r[k] = q[c]
      BY <1>1
    <2>2. b < c
      BY <1>1
    <2> QED BY <2>1, <2>2 DEF OrderFit
  <1>3. \A m \in Way(j), k \in DOMAIN r : CameIn(o, m, r[k])
    BY <1>1 DEF OrderFit
  <1> QED BY <1>2, <1>3 DEF OrderFit, r

LEMMA OrderPut ==
  ASSUME Shape, OrderFit(order, queue, job), queue' = queue, order' = order,
         NEW m \in Msgs, NEW p \in JobPlaces, job' = Put(job, m, p), p # "queued",
         p \in {"new", "posted"} => job[m].at \in {"new", "posted"},
         p \in OnTheWay => job[m].at \in OnTheWay
  PROVE  OrderFit(order', queue', job')
  <1>1. job'[m].at = p /\ \A n \in Msgs : n # m => job'[n] = job[n]
    <2>1. job \in [Msgs -> Jobs]
      BY DEF Shape, Typed
    <2> QED BY <2>1, PutFacts
  <1>2. order \in Seq(Queued)
    BY DEF Shape, Typed
  <1> QED BY <1>1, <1>2, OrderFrame

LEMMA OrderDrain ==
  ASSUME Shape, OrderFit(order, queue, job), NEW b, Drain(job, b), order' = order,
         b \/ Way(job) = {}
  PROVE  OrderFit(order', queue', job')
  <1>1. order \in Seq(Queued) /\ queue \in Seq(Queued) /\ sess \in Sessions \cup {NoSession}
        /\ job \in [Msgs -> Jobs]
    BY DEF Shape, Typed
  <1>2. CASE job' = job /\ queue' = queue
    BY <1>2
  <1>3. CASE ~(job' = job /\ queue' = queue)
    <2>1. /\ Drainable(b) /\ queue # <<>> /\ queue' = Tail(queue)
          /\ Head(queue) \in Msgs /\ job'[Head(queue)].at = "showing"
          /\ \A n \in Msgs : n # Head(queue) => job'[n] = job[n]
      BY <1>1, <1>3, DrainMoves
    <2>2. job[Head(queue)].at = "queued"
      BY <1>1, <2>1, HeadAndTail DEF Shape, Fits, QueueFit
    <2>3. Way(job) = {}
      BY <2>1 DEF Drainable
    <2>4. OrderFit(order, Tail(queue), job')
      BY <1>1, <2>1, <2>2, <2>3, OrderHead
    <2> QED BY <2>1, <2>4
  <1> QED BY <1>2, <1>3

LEMMA OrderEnqueue ==
  ASSUME Shape, Alone, OneByOne, OrderFit(order, queue, job), RunEnqueue, past' = past
  PROVE  OrderFit(order', queue', job')
  <1> DEFINE x == Head(acts).m
             q == Append(queue, x)
             k == Put(job, x, "queued")
  <1>1. /\ turn.do = "rest" /\ order' = Append(order, x) /\ Starts("enqueue")
        /\ order \in Seq(Queued) /\ queue \in Seq(Queued) /\ job \in [Msgs -> Jobs]
    BY StartsFacts DEF RunEnqueue, Shape, Typed
  <1>2. /\ x \in Queued /\ job[x].at = "posted" /\ q \in Seq(Queued) /\ q # <<>>
        /\ \/ /\ Busy /\ queue' = q /\ job'[x].at = "queued"
              /\ \A n \in Msgs : n # x => job'[n] = job[n]
           \/ /\ ~Busy /\ queue' = Tail(q)
              /\ job'[Head(q)].at = "ensure"
              /\ x # Head(q) => job'[x].at = "queued"
              /\ \A n \in Msgs : n # x /\ n # Head(q) => job'[n] = job[n]
    <2>1. past # TRUE
      BY DEF Alone
    <2> QED BY <2>1, RunEnqueueMoves
  <1>3. /\ k[x].at = "queued" /\ \A n \in Msgs : n # x => k[n] = job[n]
        /\ Head(q) \in Queued /\ QueueFit(q, k)
    BY <1>1, StartsFits, RunEnqueueQueue
  <1>4. x \in Msgs /\ Head(q) \in Msgs /\ k[Head(q)].at = "queued"
    BY <1>2, <1>3, HeadAndTail, Values DEF QueueFit
  <1>5. QueueFit(queue, job)
    BY DEF Shape, Fits
  <1> HIDE DEF k, x
  <1>6. OrderFit(Append(order, x), q, k)
    BY <1>1, <1>2, <1>3, <1>5, OrderJoin
  <1>7. CASE Busy
    <2>1. \A n \in Msgs : job'[n].at = k[n].at
      BY <1>2, <1>3, <1>4, <1>7
    <2>2. Append(order, x) \in Seq(Queued)
      BY <1>1, <1>2
    <2>3. OrderFit(Append(order, x), q, job')
      BY <1>6, <2>1, <2>2, OrderFrame
    <2> QED BY <1>1, <1>2, <1>7, <2>3
  <1>8. CASE ~Busy
    <2> HIDE DEF q
    <2>1. Way(job) = {}
      BY <1>1, <1>8, FreeAtRest DEF Taken
    <2>2. Way(k) = {}
      BY <1>3, <2>1 DEF Way, OnTheWay
    <2> DEFINE l == [n \in Msgs |-> IF n = Head(q) THEN job'[n] ELSE k[n]]
    <2>3. /\ l[Head(q)].at = "ensure" /\ \A n \in Msgs : n # Head(q) => l[n] = k[n]
          /\ \A n \in Msgs : job'[n].at = l[n].at
      BY <1>2, <1>3, <1>4, <1>8
    <2> HIDE DEF l
    <2>4. Append(order, x) \in Seq(Queued)
      BY <1>1, <1>2
    <2>5. OrderFit(Append(order, x), Tail(q), l)
      BY <1>2, <1>4, <1>6, <2>2, <2>3, <2>4, OrderHead
    <2>6. OrderFit(Append(order, x), Tail(q), job')
      BY <2>3, <2>4, <2>5, OrderFrame
    <2> QED BY <1>1, <1>2, <1>8, <2>6
  <1> QED BY <1>7, <1>8

LEMMA OrderedKept ==
  ASSUME Shape, Serial, Ordered, [Next]_vars
  PROVE  Ordered'
  <1> SUFFICES ASSUME Alone'
               PROVE  OrderFit(order', queue', job')
    BY DEF Ordered
  <1>0. /\ Alone /\ OneByOne /\ past' = past /\ past # TRUE /\ OrderFit(order, queue, job)
        /\ LoneJobs(job) /\ turn.do # "submit" /\ order \in Seq(Queued) /\ queue \in Seq(Queued)
        /\ job \in [Msgs -> Jobs]
    BY AloneBefore DEF Serial, Alone, Ordered, OneByOne, Lone, Shape, Typed
  <1>a. {"posted", "withdrawn", "reply", "prompted", "failed", "failing", "report", "lost",
         "ensure", "dismissing", "waiting"} \subseteq JobPlaces
    BY DEF JobPlaces
  <1>1. CASE job' = job /\ queue' = queue /\ order' = order
    BY <1>0, <1>1
  <1>2. ASSUME NEW m \in Msgs, Queue(m) \/ Say(m) \/ StopWaiting(m) \/ Withdraw(m)
        PROVE  OrderFit(order', queue', job')
    <2>1. ~Say(m) /\ ~StopWaiting(m)
      BY <1>0 DEF Say, StopWaiting, LoneJobs
    <2>2. CASE Queue(m)
      <3>1. /\ job' = Put(job, m, "posted") /\ job[m].at = "new" /\ queue' = queue
            /\ order' = order /\ "posted" \notin OnTheWay
        BY <2>2 DEF Queue, queueHistory, OnTheWay
      <3> QED BY <1>0, <1>a, <3>1, OrderPut
    <2>3. CASE Withdraw(m)
      <3>1. PICK l \in DOMAIN queue : queue[l] = m /\ queue' = RemoveAt(queue, l)
        BY <2>3 DEF Withdraw
      <3>2. OrderFit(order, queue', job)
        BY <1>0, <3>1, OrderWithdraw
      <3>3. job' = Put(job, m, "withdrawn") /\ order' = order /\ "withdrawn" \notin OnTheWay
        BY <2>3 DEF Withdraw, queueHistory, OnTheWay
      <3>4. job'[m].at = "withdrawn" /\ \A n \in Msgs : n # m => job'[n] = job[n]
        BY <1>0, <1>a, <3>3, PutFacts
      <3> QED BY <1>0, <3>2, <3>3, <3>4, OrderFrame
    <2> QED BY <1>2, <2>1, <2>2, <2>3
  <1>3. CASE Abort \/ Answer \/ HandoffShown \/ Deliver \/ UNCHANGED vars
    <2>1. ~HandoffShown
      BY <1>0 DEF HandoffShown, OneByOne, Lone
    <2>2. job' = job /\ queue' = queue /\ order' = order
      BY <1>3, <2>1 DEF Abort, Answer, Deliver, runtime, queueHistory, vars
    <2> QED BY <1>1, <2>2
  <1>4. CASE RunEnqueue
    BY <1>0, <1>4, OrderEnqueue
  <1>5. CASE RunDrain
    <2>1. turn.do = "rest" /\ Drain(job, Busy) /\ order' = order
      BY <1>5, StartsFacts DEF RunDrain, queueHistory
    <2>2. Busy \/ Way(job) = {}
      BY <1>0, <2>1, FreeAtRest DEF Taken
    <2> QED BY <1>0, <2>1, <2>2, OrderDrain
  <1>6. ~RunSubmit /\ ~RunAbort
    <2>1. acts # <<>> /\ acts \in Seq(Actions) => Head(acts).do \notin {"submit", "abort"}
      BY <1>0, HeadAndTail DEF OneByOne, Lone, LoneActs
    <2> QED BY <2>1 DEF RunSubmit, RunAbort, Starts, Shape, Typed
  <1>7. CASE RunEvent
    <2>1. ~HandOff \/ (job' = job /\ queue' = queue)
      BY <1>0 DEF HandOff
    <2>2. job' = job /\ queue' = queue /\ order' = order
      BY <1>7, <2>1 DEF RunEvent
    <2> QED BY <1>1, <2>2
  <1>8. CASE Settle
    <2>0. turn.do = "event" /\ order' = order
      BY <1>8 DEF Settle
    <2>1. CASE turn.e.type = "idle"
      <3>1. Drain(job, Busy)
        BY <1>8, <2>1 DEF Settle
      <3>2. Busy \/ Way(job) = {}
        BY <1>0, <2>0, FreeAtRest DEF Taken
      <3> QED BY <1>0, <2>0, <3>1, <3>2, OrderDrain
    <2>2. CASE turn.e.type = "error"
      <3>1. Drain(job, FALSE) \/ (job' = job /\ queue' = queue)
        BY <1>8, <2>2 DEF Settle
      <3>2. Way(job) = {}
        BY <1>0, <2>0, <2>2 DEF Failing, OneByOne, TurnsPass, OneTurn
      <3> QED BY <1>0, <1>1, <2>0, <3>1, <3>2, OrderDrain
    <2>3. CASE turn.e.type = "asked"
      <3>1. HandOff
        BY <1>8, <2>3 DEF Settle
      <3>2. job' = job /\ queue' = queue
        BY <1>0, <3>1 DEF HandOff
      <3> QED BY <1>1, <2>0, <3>2
    <2> QED BY <1>8, <2>1, <2>2, <2>3 DEF Settle
  <1>9. ASSUME NEW m \in Msgs, Works(m)
        PROVE  OrderFit(order', queue', job')
    <2>0. ~CreateSession(m) /\ ~SubmitEnds(m)
      BY <1>0 DEF CreateSession, SubmitEnds, Submits, LoneJobs
    <2>1. CASE Shown(m)
      <3>1. /\ job[m].at = "showing" /\ job' = Put(job, m, "ensure") /\ queue' = queue
            /\ order' = order /\ job[m].at \in OnTheWay
        BY <1>0, <2>1 DEF Shown, LoneJobs, queueHistory, OnTheWay
      <3> QED BY <1>0, <1>a, <3>1, OrderPut
    <2>2. CASE EnsureSession(m)
      <3>1. sess # NoSession /\ sess \in Sessions
        BY <1>0, KnownSession DEF OneByOne, Lone
      <3>2. /\ job' = [job EXCEPT ![m].at = "prompt", ![m].target = sess] /\ queue' = queue
            /\ order' = order /\ job[m].at \in OnTheWay
        BY <2>2, <3>1 DEF EnsureSession, queueHistory, OnTheWay
      <3>3. job'[m].at = "prompt" /\ \A n \in Msgs : n # m => job'[n] = job[n]
        BY <1>0, <3>1, <3>2, TargetMoves
      <3> QED BY <1>0, <3>2, <3>3, OrderFrame
    <2>3. CASE Prompt(m) \/ DispatchEnds(m)
      <3>1. \E p \in {"reply", "prompted", "failed"} : job' = Put(job, m, p)
        BY <2>3 DEF Prompt, DispatchEnds
      <3>2. queue' = queue /\ order' = order
        BY <2>3 DEF Prompt, DispatchEnds, queueHistory
      <3>3. \A p \in {"reply", "prompted", "failed"} : p \notin OnTheWay
        BY DEF OnTheWay
      <3> QED BY <1>0, <1>a, <3>1, <3>2, <3>3, OrderPut
    <2>4. CASE Reported(m)
      <3>1. job' = Put(job, m, "failing") /\ ~Drainable(Busy) /\ "failing" \notin OnTheWay
        BY <1>0, <2>4, ReportedHasTurn DEF OnTheWay
      <3>2. queue' = queue /\ order' = order
        BY <2>4, <3>1 DEF Reported, queueHistory
      <3> QED BY <1>0, <1>a, <3>1, <3>2, OrderPut
    <2> QED BY <1>9, <2>0, <2>1, <2>2, <2>3, <2>4 DEF Works
  <1>10. ASSUME NEW m \in Msgs, Fails(m)
         PROVE  OrderFit(order', queue', job')
    <2>1. ~SubmitFails(m) /\ job[m].by = NoMsg
      BY <1>0 DEF SubmitFails, Submits, LoneJobs
    <2>2. /\ queue' = queue /\ order' = order
          /\ \/ \E p \in {"lost", "failing"} : job' = Put(job, m, p)
             \/ job' = Put(job, m, "report") /\ job[m].at \in OnTheWay
      BY <1>10, <2>1 DEF Fails, ShowFails, DispatchFails, DispatchThrows, queueHistory, OnTheWay
    <2>3. \A p \in {"lost", "failing"} : p \notin OnTheWay
      BY DEF OnTheWay
    <2> QED BY <1>0, <1>a, <2>2, <2>3, OrderPut
  <1>11. ASSUME NEW s \in Sessions, RunCompletes(s) \/ RunErrs(s) \/ RunRetries(s)
                  \/ RetryStarts(s) \/ RunAsks(s) \/ AbortArrives(s)
         PROVE  OrderFit(order', queue', job')
    <2>1. job' = job /\ queue' = queue /\ order' = order
      BY <1>11 DEF RunCompletes, RunErrs, RunRetries, RetryStarts, RunAsks, AbortArrives, Server,
                   runtime
    <2> QED BY <1>1, <2>1
  <1> QED BY <1>2, <1>3, <1>4, <1>5, <1>6, <1>7, <1>8, <1>9, <1>10, <1>11 DEF Next, RunAction

LEMMA QueueIsOrdered ==
  Spec => []Ordered
  <1>1. Init => Ordered
    <2> SUFFICES ASSUME Init
                 PROVE  OrderFit(order, queue, job)
      BY DEF Ordered
    <2>1. \A m \in Msgs : job[m].at = "new"
      BY DEF Init, NewJob
    <2> QED BY <2>1 DEF Init, OrderFit, Way, OnTheWay
  <1>2. Shape /\ Serial /\ Ordered /\ [Next]_vars => Ordered'
    BY OrderedKept
  <1> QED BY <1>1, <1>2, QueueIsSerial, QueueKeepsShape, PTL DEF Spec

\* Messages that waited in the queue are prompted in the order they came, whatever is
\* withdrawn, fails or is aborted in between (enqueueViaLocalQueue, tryDrainQueue,
\* ensureSession).
THEOREM QueuePromptsInOrder ==
  Spec => PromptedInOrder
  <1>1. Shape /\ Serial /\ Ordered /\ [Next]_vars => PromptsNext
    <2> SUFFICES ASSUME Shape, Serial, Ordered, NEW m \in Queued, NEW n \in Queued, Alone,
                        Came(m, n), job[n].at = "prompt", m \in Waiting
                 PROVE  FALSE
      BY DEF PromptsNext
    <2>1. /\ OneByOne /\ OrderFit(order, queue, job) /\ m \in Msgs /\ n \in Msgs
          /\ order \in Seq(Queued) /\ LoneJobs(job)
      BY Values DEF Serial, Ordered, OneByOne, Lone, Shape, Typed
    <2>2. PICK i \in DOMAIN order, l \in DOMAIN order : i < l /\ order[i] = m /\ order[l] = n
      BY DEF Came
    <2>3. i \in Nat /\ l \in Nat
      BY <2>1
    <2>4. n \in Way(job) /\ Way(job) = {n}
      BY <2>1, LoneOnTheWay DEF Way, OnTheWay
    <2>5. job[m].at \notin {"posted", "handing"}
      BY <2>1, <2>2 DEF OrderFit, LoneJobs
    <2>6. CASE job[m].at = "queued"
      <3>1. PICK k \in DOMAIN queue : queue[k] = m
        BY <2>1, <2>6 DEF Shape, Fits, QueueFit
      <3>2. CameIn(order, n, m)
        BY <2>1, <2>4, <3>1 DEF OrderFit
      <3>3. PICK a \in DOMAIN order, b \in DOMAIN order : a < b /\ order[a] = n /\ order[b] = m
        BY <3>2 DEF CameIn
      <3>4. a = l /\ b = i
        BY <2>1, <2>2, <3>3 DEF OrderFit
      <3> QED BY <2>2, <2>3, <3>3, <3>4
    <2>7. CASE job[m].at \in OnTheWay
      <3>1. m = n
        BY <2>1, <2>4, <2>7 DEF Way
      <3>2. i = l
        BY <2>1, <2>2, <3>1 DEF OrderFit
      <3> QED BY <2>2, <2>3, <3>2
    <2> QED BY <2>5, <2>6, <2>7 DEF Waiting, OnTheWay
  <1> QED BY <1>1, QueueIsSerial, QueueIsOrdered, QueueKeepsShape, PTL DEF Spec, PromptedInOrder

-----------------------------------------------------------------------------
(* A thread in which nothing is asked and no dispatch reports: its queue is emptied, *)
(* but for missed drains                                                             *)

Calm == MaxQuestions = 0 /\ "report" \notin Faults

EndsOf(s) == {e \in Events : e.type \in {"idle", "error"} /\ e.s = s}
BusyOf(s) == {e \in Events : e.type = "busy" /\ e.s = s}
Acting(E) == {a \in Actions : a.do = "event" /\ a.e \in E}
PlainEvents == {e \in Events : e.type \in {"busy", "retry", "error", "idle"}}

\* A message is where the queue or a direct message takes it, and events are of runs.
Undisturbed ==
  /\ ~ui
  /\ \A m \in Msgs : /\ job[m].at \notin {"dismissing", "waiting", "handing", "report"}
                     /\ job[m].by = NoMsg
  /\ \A i \in DOMAIN sse : sse[i] \in PlainEvents
  /\ \A i \in DOMAIN acts : acts[i].do = "event" => acts[i].e \in PlainEvents
  /\ turn.do = "event" => turn.e \in PlainEvents /\ turn.e.type \in {"idle", "error"}

\* What a step does to a message of such a thread
Goes1(m, from, to) == job[m].at = from /\ job'[m].at = to /\ KeepsFields(m)
CalmGoes(m) ==
  \/ job'[m] = job[m] /\ (Submits(m)' <=> Submits(m))
  \/ Goes1(m, "new", "posted") \/ Goes1(m, "posted", "queued") \/ Goes1(m, "queued", "withdrawn")
  \/ Goes1(m, "posted", "ensure") /\ Submits(m)'
  \/ /\ job[m].at \in {"posted", "queued"} /\ job'[m].at \in {"showing", "ensure"} /\ ~Submits(m)'
     /\ job'[m].known = sess /\ job'[m].target = NoSession /\ job'[m].by = NoMsg
  \/ Goes1(m, "showing", "ensure") /\ ~Submits(m)'
  \/ Goes1(m, "ensure", "create") /\ (Submits(m)' <=> Submits(m)) /\ sess = NoSession
  \/ /\ job[m].at \in {"ensure", "create"} /\ job'[m].at = "prompt" /\ (Submits(m)' <=> Submits(m))
     /\ job'[m].known = job[m].known /\ job'[m].by = job[m].by
     /\ job'[m].target = sess' /\ sess' \in Sessions
  \/ /\ Goes1(m, "prompt", "reply") /\ (Submits(m)' <=> Submits(m))
     /\ srv'[job[m].target] # "idle" /\ sess' = sess
  \/ Goes1(m, "reply", "prompted") /\ Submits(m) /\ SubmitEnds(m)
  \/ /\ Goes1(m, "reply", "prompted") \/ Goes1(m, "failing", "failed")
     /\ ~Submits(m) /\ acts' = Append(acts, Draining)
  \/ /\ job[m].at \in {"ensure", "create", "prompt"} /\ job'[m].at = "failing" /\ KeepsFields(m)
     /\ ~Submits(m) /\ DispatchThrows(m)
  \/ /\ Goes1(m, "showing", "lost") /\ ~Submits(m) /\ ~Submits(m)'
     /\ missed' \/ queue' = <<>>

LEMMA DequeuedTarget ==
  ASSUME NEW jobs \in [Msgs -> Jobs], NEW m \in Msgs, NEW p, NEW who
  PROVE  Dequeued(jobs, m, p, who)[m].target = NoSession
  BY DEF Dequeued

\* No question is open: the message joins the queue, and the first one is taken if the
\* session is not busy.
LEMMA CalmEnqueue ==
  ASSUME Shape, Undisturbed, RunEnqueue
  PROVE  LET x == Head(acts).m
             q == Append(queue, x)
         IN  /\ x \in Queued /\ x \in Msgs /\ job[x].at = "posted" /\ q \in Seq(Queued) /\ q # <<>>
             /\ turn = AtRest /\ turn' = AtRest /\ acts # <<>> /\ Head(acts).do = "enqueue"
             /\ acts' = Tail(acts) /\ sess' = sess
             /\ \/ /\ Busy /\ queue' = q /\ buf' = buf /\ Goes1(x, "posted", "queued")
                   /\ \A n \in Msgs : n # x => job'[n] = job[n]
                \/ /\ ~Busy /\ queue' = Tail(q) /\ Head(q) \in Msgs /\ buf' = Marked(sess, TRUE)
                   /\ job[Head(q)].at \in {"posted", "queued"} /\ job'[Head(q)].at = "ensure"
                   /\ job'[Head(q)].known = sess /\ job'[Head(q)].target = NoSession
                   /\ job'[Head(q)].by = NoMsg
                   /\ x # Head(q) => Goes1(x, "posted", "queued")
                   /\ \A n \in Msgs : n # x /\ n # Head(q) => job'[n] = job[n]
  <1> DEFINE x == Head(acts).m
             q == Append(queue, x)
             j1 == Put(job, x, "queued")
             h == Head(q)
             j2 == Dequeued(j1, h, "ensure", NoMsg)
  <1>1. /\ Starts("enqueue") /\ ~ui
        /\ (q # <<>> /\ ~Busy) => queue' = Tail(q) /\ job' = j2 /\ buf' = Marked(sess, TRUE)
        /\ Busy => queue' = q /\ job' = j1 /\ buf' = buf
    BY DEF RunEnqueue, Undisturbed
  <1>2. x \in Queued /\ x \in Msgs /\ job[x].at = "posted"
    BY <1>1, StartsFacts, Values DEF CarriedAt
  <1>3. sess \in Sessions \cup {NoSession} /\ job \in [Msgs -> Jobs]
    BY DEF Shape, Typed
  <1>4. "ensure" \in JobPlaces /\ "queued" \in JobPlaces /\ NoMsg \in Msgs \cup {NoMsg}
    BY DEF JobPlaces
  <1>5. /\ j1 \in [Msgs -> Jobs] /\ j1[x].at = "queued" /\ \A n \in Msgs : n # x => j1[n] = job[n]
        /\ j1[x].known = job[x].known /\ j1[x].target = job[x].target /\ j1[x].by = job[x].by
    BY <1>2, <1>3, <1>4, PutFacts
  <1>6. q \in Seq(Queued) /\ q # <<>> /\ h \in Queued /\ QueueFit(q, j1)
    BY <1>1, RunEnqueueQueue
  <1>7. h \in Msgs /\ j1[h].at = "queued" /\ (h # x => job[h].at = "queued")
    BY <1>5, <1>6, HeadAndTail, Values DEF QueueFit
  <1>8. /\ j2[h].at = "ensure" /\ j2[h].known = sess /\ j2[h].target = NoSession /\ j2[h].by = NoMsg
        /\ \A n \in Msgs : n # h => j2[n] = j1[n]
    BY <1>3, <1>4, <1>5, <1>7, DequeuedFacts, DequeuedTarget
  <1>9. /\ turn = AtRest /\ turn' = AtRest /\ acts # <<>> /\ Head(acts).do = "enqueue"
        /\ acts' = Tail(acts) /\ sess' = sess
    BY <1>1 DEF RunEnqueue, Starts, session
  <1> HIDE DEF x, q, j1, h, j2
  <1>10. CASE Busy
    <2>1. queue' = q /\ job' = j1 /\ buf' = buf
      BY <1>1, <1>10
    <2>2. Goes1(x, "posted", "queued") /\ \A n \in Msgs : n # x => job'[n] = job[n]
      BY <1>2, <1>5, <2>1 DEF Goes1, KeepsFields
    <2> QED BY <1>2, <1>6, <1>9, <1>10, <2>1, <2>2 DEF x, q
  <1>11. CASE ~Busy
    <2>1. queue' = Tail(q) /\ job' = j2 /\ buf' = Marked(sess, TRUE)
      BY <1>1, <1>6, <1>11
    <2>2. x # h => Goes1(x, "posted", "queued")
      BY <1>2, <1>5, <1>8, <2>1 DEF Goes1, KeepsFields
    <2>3. \A n \in Msgs : n # x /\ n # h => job'[n] = job[n]
      BY <1>5, <1>8, <2>1
    <2>4. /\ job'[h].at = "ensure" /\ job'[h].known = sess /\ job'[h].target = NoSession
          /\ job'[h].by = NoMsg /\ job[h].at \in {"posted", "queued"}
      BY <1>2, <1>7, <1>8, <2>1
    <2> QED BY <1>2, <1>6, <1>7, <1>9, <1>11, <2>1, <2>2, <2>3, <2>4 DEF x, q, h
  <1> QED BY <1>10, <1>11

\* A run starts again, is retried or ends.
RunMoves(s) ==
  RunCompletes(s) \/ RunErrs(s) \/ RunRetries(s) \/ RetryStarts(s) \/ AbortArrives(s)

CalmNext ==
  \/ UNCHANGED vars
  \/ \E m \in Msgs :
       \/ Queue(m) \/ Say(m) \/ Withdraw(m) \/ Shown(m) \/ EnsureSession(m) \/ CreateSession(m)
       \/ Prompt(m) \/ SubmitEnds(m) \/ DispatchEnds(m) \/ DispatchThrows(m) \/ ShowFails(m)
  \/ RunEnqueue \/ RunDrain \/ RunSubmit \/ RunEvent \/ Settle \/ Deliver \/ Abort
  \/ \E s \in Sessions : RunMoves(s)

LEMMA CalmBounds ==
  ASSUME Calm
  PROVE  /\ ~(questions < MaxQuestions) \/ questions \notin 0 .. MaxQuestions
         /\ "report" \notin Faults
  BY DEF Calm

LEMMA CalmActs ==
  ASSUME Shape, Undisturbed
  PROVE  ~Starts("abort")
  BY StartsFacts DEF CarriedAt, Undisturbed

LEMMA CalmSteps ==
  ASSUME Calm, Shape, Undisturbed, [Next]_vars
  PROVE  CalmNext
  <1>1. ~(questions < MaxQuestions) /\ "report" \notin Faults
    BY CalmBounds DEF Shape, Typed
  <1>2. ~Answer /\ ~RunAbort
    BY CalmActs DEF Answer, RunAbort, Undisturbed
  <1>3. ~HandoffShown
    <2>1. handoff # NoMsg => handoff \in Msgs
      BY Values DEF Shape, Typed
    <2> QED BY <2>1 DEF HandoffShown, Undisturbed
  <1>4. \A m \in Msgs : ~StopWaiting(m) /\ ~Reported(m)
    BY DEF StopWaiting, Reported, Undisturbed
  <1>5. \A m \in Msgs : Fails(m) => DispatchThrows(m) \/ ShowFails(m)
    BY <1>1 DEF Fails, DispatchFails, SubmitFails
  <1>6. \A s \in Sessions : ~RunAsks(s)
    BY <1>1 DEF RunAsks
  <1> QED BY <1>2, <1>3, <1>4, <1>5, <1>6 DEF Next, RunAction, Works, CalmNext, RunMoves

\* The indicator of a message that an action dequeued cannot be sent.
LEMMA CalmShowFails ==
  ASSUME Shape, Undisturbed, NEW m \in Msgs, ShowFails(m)
  PROVE  /\ job[m].at = "showing" /\ job' = Put(job, m, "lost")
         /\ turn = Showing(m) /\ turn' = AtRest
         /\ UNCHANGED <<queue, sess, saved, buf, acts, srv, sse, ui>>
         /\ missed' \/ queue' = <<>>
         /\ missed => missed'
  <1>1. job[m].at = "showing" /\ job[m].by = NoMsg
    BY DEF ShowFails, Undisturbed
  <1>2. turn = Showing(m)
    BY <1>1 DEF Shape, Fits, TurnFit
  <1> QED BY <1>1, <1>2 DEF ShowFails, session, opencode

\* The head of the queue is taken if the session is not busy.
LEMMA CalmDrain ==
  ASSUME Shape, NEW b, Drain(job, b)
  PROVE  \/ /\ ~Drainable(b) /\ job' = job /\ turn' = AtRest /\ queue' = queue
         \/ /\ Drainable(b) /\ queue # <<>> /\ queue' = Tail(queue)
            /\ Head(queue) \in Msgs /\ job[Head(queue)].at = "queued"
            /\ turn' = Showing(Head(queue))
            /\ job'[Head(queue)].at = "showing" /\ job'[Head(queue)].known = sess
            /\ job'[Head(queue)].target = NoSession /\ job'[Head(queue)].by = NoMsg
            /\ \A n \in Msgs : n # Head(queue) => job'[n] = job[n]
  <1>1. CASE ~Drainable(b)
    BY <1>1 DEF Drain
  <1>2. CASE Drainable(b)
    <2> DEFINE h == Head(queue)
    <2>1. /\ queue # <<>> /\ queue' = Tail(queue) /\ turn' = Showing(h)
          /\ job' = Dequeued(job, h, "showing", NoMsg)
      BY <1>2 DEF Drain, Drainable
    <2>2. h \in Msgs /\ job[h].at = "queued"
      BY <2>1, HeadAndTail, Values DEF Shape, Typed, Fits, QueueFit
    <2>3. "showing" \in JobPlaces /\ NoMsg \in Msgs \cup {NoMsg} /\ job \in [Msgs -> Jobs]
          /\ sess \in Sessions \cup {NoSession}
      BY DEF JobPlaces, Shape, Typed
    <2> HIDE DEF h
    <2>4. /\ job'[h].at = "showing" /\ job'[h].known = sess /\ job'[h].by = NoMsg
          /\ job'[h].target = NoSession /\ \A n \in Msgs : n # h => job'[n] = job[n]
      BY <2>1, <2>2, <2>3, DequeuedFacts, DequeuedTarget
    <2> QED BY <1>2, <2>1, <2>2, <2>4 DEF h
  <1> QED BY <1>1, <1>2

\* An event that is being handled is the end of a run, or its failure, whose report may fail.
LEMMA CalmSettle ==
  ASSUME Shape, Undisturbed, Settle
  PROVE  /\ turn.do = "event" /\ acts' = acts /\ sess' = sess /\ saved' = saved
         /\ UNCHANGED <<srv, aborting, sse, ui>>
         /\ \/ turn.e.type = "idle" /\ buf' = buf /\ Drain(job, Busy)
            \/ turn.e.type = "error" /\ buf' = Marked(turn.e.s, FALSE) /\ Drain(job, FALSE)
            \/ /\ turn.e.type = "error" /\ turn' = AtRest /\ missed'
               /\ UNCHANGED <<buf, job, queue>>
  BY DEF Settle, Undisturbed, session, opencode

LEMMA DrainCalm ==
  ASSUME Shape, NEW b, Drain(job, b), turn.do \in {"rest", "event"}
  PROVE  \A m \in Msgs : CalmGoes(m)
  <1> SUFFICES ASSUME NEW m \in Msgs PROVE CalmGoes(m)
    OBVIOUS
  <1>1. ~Submits(m) /\ ~Submits(m)'
    BY CalmDrain, MessageActions, Values DEF Submits
  <1> QED BY <1>1, CalmDrain DEF CalmGoes

LEMMA CalmRuntimeGoes ==
  ASSUME Shape, Undisturbed, NEW m \in Msgs,
         RunEnqueue \/ RunDrain \/ RunSubmit \/ RunEvent \/ Settle
  PROVE  CalmGoes(m)
  <1>1. CASE RunEnqueue
    <2>1. ~Submits(m) /\ ~Submits(m)'
      BY <1>1, CalmEnqueue, Values DEF Submits
    <2> QED BY <1>1, <2>1, CalmEnqueue DEF CalmGoes
  <1>2. CASE RunDrain
    BY <1>2, DrainCalm DEF RunDrain, Starts, AtRest
  <1>3. CASE RunSubmit
    <2>1. /\ Head(acts).m \in Msgs /\ job[Head(acts).m].at = "posted" /\ turn = AtRest
          /\ turn' = Head(acts) /\ turn'.do = "submit" /\ job' = Put(job, Head(acts).m, "ensure")
      BY <1>3, StartsFacts DEF RunSubmit, CarriedAt
    <2>2. "ensure" \in JobPlaces /\ job \in [Msgs -> Jobs]
      BY DEF JobPlaces, Shape, Typed
    <2>3. CASE m = Head(acts).m
      <3>1. Goes1(m, "posted", "ensure")
        BY <2>1, <2>2, <2>3, PutFacts DEF Goes1, KeepsFields
      <3>2. Submits(m)'
        BY <2>1, <2>3 DEF Submits
      <3> QED BY <3>1, <3>2 DEF CalmGoes
    <2>4. CASE m # Head(acts).m
      <3>1. job'[m] = job[m]
        BY <2>1, <2>2, <2>4, PutFacts
      <3>2. ~Submits(m) /\ ~Submits(m)'
        BY <2>1, <2>4, Values DEF Submits
      <3> QED BY <3>1, <3>2 DEF CalmGoes
    <2> QED BY <2>3, <2>4
  <1>4. CASE RunEvent
    <2>1. turn = AtRest /\ Head(acts).do = "event" /\ Head(acts).e \in PlainEvents
      BY <1>4, StartsFacts, HeadAndTail DEF RunEvent, Undisturbed, Shape, Typed
    <2>2. job' = job /\ (turn' = AtRest \/ turn' = Head(acts))
      BY <1>4, <2>1 DEF RunEvent, PlainEvents
    <2>3. ~Submits(m) /\ ~Submits(m)'
      BY <2>1, <2>2, Values DEF Submits
    <2> QED BY <2>2, <2>3 DEF CalmGoes
  <1>5. CASE Settle
    <2>1. ~Submits(m)
      BY <1>5, CalmSettle DEF Submits
    <2>2. turn' = AtRest => ~Submits(m)'
      BY Values DEF Submits
    <2>3. CASE turn' = AtRest /\ job' = job
      BY <2>1, <2>2, <2>3 DEF CalmGoes
    <2> QED BY <1>5, <2>3, CalmSettle, DrainCalm
  <1> QED BY <1>1, <1>2, <1>3, <1>4, <1>5

LEMMA PutCalm ==
  ASSUME Shape, NEW m \in Msgs, NEW p \in JobPlaces, job' = Put(job, m, p), NEW n \in Msgs
  PROVE  /\ n # m => job'[n] = job[n]
         /\ job'[m].at = p /\ Goes1(m, job[m].at, p) /\ KeepsFields(m)
  BY PutFacts DEF Shape, Typed, Goes1, KeepsFields

LEMMA CalmMessageGoes ==
  ASSUME Shape, Undisturbed, Targets, NEW n \in Msgs, NEW m \in Msgs,
         \/ Queue(n) \/ Say(n) \/ Withdraw(n) \/ Shown(n) \/ EnsureSession(n) \/ CreateSession(n)
         \/ Prompt(n) \/ SubmitEnds(n) \/ DispatchEnds(n) \/ DispatchThrows(n) \/ ShowFails(n)
  PROVE  CalmGoes(m)
  <1>0. /\ {"posted", "withdrawn", "ensure", "create", "reply", "prompted", "failed", "failing", "lost"}
             \subseteq JobPlaces
        /\ (job[n].at \notin InSubmit => ~Submits(n))
    BY DEF JobPlaces, Submits, Shape, Fits, TurnFit
  <1>1. CASE Queue(n) \/ Say(n)
    <2>1. job[n].at = "new" /\ job' = Put(job, n, "posted") /\ turn' = turn
      BY <1>1 DEF Queue, Say, Undisturbed
    <2> QED BY <1>0, <2>1, PutCalm DEF CalmGoes, Submits
  <1>2. CASE Withdraw(n)
    <2>1. job[n].at = "queued" /\ job' = Put(job, n, "withdrawn") /\ turn' = turn
      BY <1>2 DEF Withdraw, Shape, Fits, QueueFit
    <2> QED BY <1>0, <2>1, PutCalm DEF CalmGoes, Submits
  <1>3. CASE Shown(n)
    <2>1. job[n].at = "showing" /\ job' = Put(job, n, "ensure") /\ turn' = AtRest
          /\ turn = Showing(n)
      BY <1>3 DEF Shown, Undisturbed, Shape, Fits, TurnFit
    <2>2. ~Submits(m) /\ ~Submits(m)'
      BY <2>1, MessageActions, Values DEF Submits
    <2> QED BY <1>0, <2>1, <2>2, PutCalm DEF CalmGoes
  <1>4. CASE EnsureSession(n) \/ CreateSession(n)
    <2>1. turn' = turn /\ (Submits(m)' <=> Submits(m))
      BY <1>4 DEF EnsureSession, CreateSession, Submits
    <2>2. CASE EnsureSession(n) /\ sess = NoSession /\ saved = NoSession
      <3>1. job[n].at = "ensure" /\ job' = Put(job, n, "create")
        BY <2>2 DEF EnsureSession
      <3> QED BY <1>0, <2>1, <2>2, <3>1, PutCalm DEF CalmGoes
    <2>3. CASE ~(EnsureSession(n) /\ sess = NoSession /\ saved = NoSession)
      <3>1. \E s \in Sessions : /\ job' = [job EXCEPT ![n].at = "prompt", ![n].target = s]
                                /\ sess' = s /\ job[n].at \in {"ensure", "create"}
        <4>1. CASE CreateSession(n)
          BY <4>1 DEF CreateSession
        <4>2. CASE EnsureSession(n)
          <5> DEFINE s == IF sess # NoSession THEN sess ELSE saved
          <5>1. s \in Sessions /\ s # NoSession
            BY <2>3, <4>2 DEF Shape, Typed
          <5> QED BY <4>2, <5>1 DEF EnsureSession
        <4> QED BY <1>4, <4>1, <4>2
      <3>2. PICK s \in Sessions : /\ job' = [job EXCEPT ![n].at = "prompt", ![n].target = s]
                                  /\ sess' = s /\ job[n].at \in {"ensure", "create"}
        BY <3>1
      <3>3. /\ job'[n].at = "prompt" /\ job'[n].target = s /\ job'[n].by = job[n].by
            /\ job'[n].known = job[n].known /\ (n # m => job'[m] = job[m])
        BY <3>2, TargetMoves DEF Shape, Typed
      <3> QED BY <2>1, <3>2, <3>3 DEF CalmGoes
    <2> QED BY <2>2, <2>3
  <1>5. CASE Prompt(n)
    <2>1. job[n].at = "prompt" /\ job' = Put(job, n, "reply") /\ turn' = turn /\ sess' = sess
      BY <1>5 DEF Prompt, session
    <2>2. srv'[job[n].target] # "idle"
      <3>1. job[n].target \in Sessions /\ srv \in [Sessions -> ServerStates]
        BY <2>1 DEF Targets, Shape, Typed
      <3> QED BY <1>5, <3>1 DEF Prompt
    <2> QED BY <1>0, <2>1, <2>2, PutCalm DEF CalmGoes, Submits
  <1>6. CASE SubmitEnds(n)
    <2>1. job[n].at = "reply" /\ job' = Put(job, n, "prompted") /\ turn' = AtRest /\ Submits(n)
      BY <1>6 DEF SubmitEnds
    <2>2. m # n => ~Submits(m) /\ ~Submits(m)'
      BY <2>1, Values DEF Submits
    <2> QED BY <1>0, <1>6, <2>1, <2>2, PutCalm DEF CalmGoes
  <1>7. CASE DispatchEnds(n)
    <2>1. /\ job[n].at \in {"reply", "failing"} /\ ~Submits(n) /\ turn' = turn
          /\ acts' = Append(acts, Draining)
          /\ job' = Put(job, n, IF job[n].at = "reply" THEN "prompted" ELSE "failed")
      BY <1>7 DEF DispatchEnds, PostAction
    <2>2. CASE job[n].at = "reply"
      <3>1. job' = Put(job, n, "prompted")
        BY <2>1, <2>2
      <3> QED BY <1>0, <2>1, <2>2, <3>1, PutCalm DEF CalmGoes, Submits
    <2>3. CASE job[n].at = "failing"
      <3>1. job' = Put(job, n, "failed")
        BY <2>1, <2>3
      <3> QED BY <1>0, <2>1, <2>3, <3>1, PutCalm DEF CalmGoes, Submits
    <2> QED BY <2>1, <2>2, <2>3
  <1>8. CASE DispatchThrows(n)
    <2>1. /\ job[n].at \in {"ensure", "create", "prompt"} /\ job' = Put(job, n, "failing")
          /\ ~Submits(n) /\ turn' = turn
      BY <1>8 DEF DispatchThrows
    <2> QED BY <1>0, <1>8, <2>1, PutCalm DEF CalmGoes, Submits
  <1>9. CASE ShowFails(n)
    <2>1. job[n].at = "showing" /\ job' = Put(job, n, "lost") /\ turn' = AtRest
          /\ turn = Showing(n) /\ (missed' \/ queue' = <<>>)
      BY <1>9, CalmShowFails
    <2>2. ~Submits(m) /\ ~Submits(m)'
      BY <2>1, MessageActions, Values DEF Submits
    <2> QED BY <1>0, <2>1, <2>2, PutCalm DEF CalmGoes
  <1> QED BY <1>1, <1>2, <1>3, <1>4, <1>5, <1>6, <1>7, <1>8, <1>9

LEMMA CalmMessagesGo ==
  ASSUME Calm, Shape, Targets, Undisturbed, [Next]_vars
  PROVE  \A m \in Msgs : CalmGoes(m)
  <1> SUFFICES ASSUME NEW m \in Msgs PROVE CalmGoes(m)
    OBVIOUS
  <1>1. CASE UNCHANGED vars
    BY <1>1 DEF vars, runtime, CalmGoes, Submits
  <1>2. CASE Deliver \/ Abort
    BY <1>2 DEF Deliver, Abort, runtime, CalmGoes, Submits
  <1>3. ASSUME NEW s \in Sessions, RunMoves(s)
        PROVE  CalmGoes(m)
    BY <1>3 DEF RunMoves, RunCompletes, RunErrs, RunRetries, RetryStarts, AbortArrives,
                Server, runtime, CalmGoes, Submits
  <1> QED BY <1>1, <1>2, <1>3, CalmSteps, CalmMessageGoes, CalmRuntimeGoes DEF CalmNext

\* What a step does to the events on their way, and to the runs they are of
StreamStep ==
  \/ /\ srv' = srv /\ sse' = sse
     /\ \/ acts' = acts
        \/ \E x \in Actions : x.do # "event" /\ acts' = Append(acts, x)
        \/ /\ acts # <<>> /\ acts' = Tail(acts)
           /\ (Head(acts).do = "event" => RunEvent) /\ (Head(acts).do = "drain" => RunDrain)
  \/ /\ srv' = srv /\ sse # <<>> /\ sse' = Tail(sse)
     /\ acts' = Append(acts, Handling(Head(sse)))
  \/ \E t \in Sessions, x \in ServerStates, e \in PlainEvents :
       /\ srv' = [srv EXCEPT ![t] = x] /\ sse' = Append(sse, e) /\ acts' = acts
       /\ e.s = t /\ (x = "idle" <=> e \in EndsOf(t))
       /\ srv[t] # "idle" \/ \E m \in Msgs : job[m].at = "prompt" /\ job[m].target = t

LEMMA CalmEvent ==
  ASSUME Shape, Undisturbed, RunEvent
  PROVE  /\ Starts("event") /\ turn = AtRest /\ acts # <<>> /\ Head(acts) \in Actions
         /\ Head(acts).do = "event" /\ Head(acts).e \in PlainEvents /\ Head(acts).e \in Events
         /\ acts' = Tail(acts) /\ UNCHANGED <<srv, sse, sess, saved>>
  <1>1. Starts("event") /\ acts \in Seq(Actions)
    BY DEF RunEvent, Shape, Typed
  <1>2. /\ turn = AtRest /\ acts # <<>> /\ Head(acts) \in Actions /\ Head(acts).do = "event"
        /\ Head(acts).e \in Events
    BY <1>1, StartsFacts
  <1>3. Head(acts) = acts[1] /\ 1 \in DOMAIN acts
    BY <1>1, <1>2, HeadAndTail
  <1>4. Head(acts).e \in PlainEvents
    BY <1>2, <1>3 DEF Undisturbed
  <1> QED BY <1>1, <1>2, <1>4 DEF RunEvent, PlainEvents, session, opencode

LEMMA EventFacts ==
  ASSUME NEW s \in Sessions
  PROVE  /\ \A natural \in BOOLEAN :
              LET done == [Event("idle", s) EXCEPT !.natural = natural]
              IN  done \in PlainEvents /\ done \in EndsOf(s) /\ done.s = s
         /\ \A type \in {"error", "idle"} :
              /\ Event(type, s) \in PlainEvents /\ Event(type, s) \in EndsOf(s)
              /\ Event(type, s).s = s
         /\ \A type \in {"busy", "retry"} :
              /\ Event(type, s) \in PlainEvents /\ Event(type, s) \notin EndsOf(s)
              /\ Event(type, s).s = s
  BY DEF Event, Events, PlainEvents, EndsOf

LEMMA ServerStream ==
  ASSUME Shape, Targets, NEW s \in Sessions,
         RunMoves(s)
  PROVE  StreamStep
  <1>0. CASE AbortArrives(s) /\ srv[s] = "idle"
    BY <1>0 DEF AbortArrives, StreamStep
  <1>1. ASSUME ~(AbortArrives(s) /\ srv[s] = "idle")
        PROVE  \E x \in ServerStates, e \in PlainEvents :
                 /\ srv' = [srv EXCEPT ![s] = x] /\ sse' = Append(sse, e) /\ acts' = acts
                 /\ e.s = s /\ (x = "idle" <=> e \in EndsOf(s)) /\ srv[s] # "idle"
    <2>1. {"idle", "running", "retrying"} \subseteq ServerStates
      BY DEF ServerStates
    <2>2. CASE RunCompletes(s)
      <3>1. PICK natural \in BOOLEAN :
              /\ srv' = [srv EXCEPT ![s] = "idle"]
              /\ sse' = Append(sse, [Event("idle", s) EXCEPT !.natural = natural])
              /\ acts' = acts /\ srv[s] # "idle"
        BY <2>2 DEF RunCompletes, Server
      <3> QED BY <2>1, <3>1, EventFacts
    <2>3. CASE RunErrs(s)
      <3>1. /\ srv' = [srv EXCEPT ![s] = "idle"] /\ sse' = Append(sse, Event("error", s))
            /\ acts' = acts /\ srv[s] # "idle"
        BY <2>3 DEF RunErrs, Server
      <3> QED BY <2>1, <3>1, EventFacts
    <2>4. CASE RunRetries(s)
      <3>1. /\ srv' = [srv EXCEPT ![s] = "retrying"] /\ sse' = Append(sse, Event("retry", s))
            /\ acts' = acts /\ srv[s] # "idle"
        BY <2>4 DEF RunRetries, Server
      <3> QED BY <2>1, <3>1, EventFacts
    <2>5. CASE RetryStarts(s)
      <3>1. /\ srv' = [srv EXCEPT ![s] = "running"] /\ sse' = Append(sse, Event("busy", s))
            /\ acts' = acts /\ srv[s] # "idle"
        BY <2>5 DEF RetryStarts, Server
      <3> QED BY <2>1, <3>1, EventFacts
    <2>6. CASE AbortArrives(s)
      <3>1. /\ srv' = [srv EXCEPT ![s] = "idle"] /\ sse' = Append(sse, Event("idle", s))
            /\ acts' = acts /\ srv[s] # "idle"
        BY <1>1, <2>6 DEF AbortArrives, Server
      <3> QED BY <2>1, <3>1, EventFacts
    <2> QED BY <2>2, <2>3, <2>4, <2>5, <2>6 DEF RunMoves
  <1> QED BY <1>0, <1>1 DEF StreamStep

LEMMA CalmStream ==
  ASSUME Calm, Shape, Targets, Undisturbed, [Next]_vars
  PROVE  StreamStep
  <1>1. CASE UNCHANGED vars
    BY <1>1 DEF vars, opencode, StreamStep
  <1>2. ASSUME NEW m \in Msgs, Queue(m) \/ Say(m) \/ DispatchEnds(m)
        PROVE  StreamStep
    <2>1. srv' = srv /\ sse' = sse
      BY <1>2 DEF Queue, Say, DispatchEnds, opencode
    <2>2. \E x \in {Enqueueing(m), Submitting(m), Draining} : acts' = Append(acts, x)
      BY <1>2 DEF Queue, Say, DispatchEnds, PostAction, Undisturbed
    <2>3. \A x \in {Enqueueing(m), Submitting(m), Draining} : x \in Actions /\ x.do # "event"
      BY MessageActions, Values
    <2> QED BY <2>1, <2>2, <2>3 DEF StreamStep
  <1>3. ASSUME NEW m \in Msgs, \/ Withdraw(m) \/ Shown(m) \/ EnsureSession(m) \/ CreateSession(m)
                               \/ SubmitEnds(m) \/ DispatchThrows(m)
        PROVE  StreamStep
    BY <1>3 DEF Withdraw, Shown, EnsureSession, CreateSession, SubmitEnds, DispatchThrows,
                opencode, StreamStep
  <1>4. ASSUME NEW m \in Msgs, Prompt(m)
        PROVE  StreamStep
    <2> DEFINE t == job[m].target
    <2>1. job[m].at = "prompt" /\ t \in Sessions /\ acts' = acts
      BY <1>4 DEF Prompt, Targets
    <2>2. CASE srv[t] = "idle"
      <3>1. srv' = [srv EXCEPT ![t] = "running"] /\ sse' = Append(sse, Event("busy", t))
        BY <1>4, <2>2 DEF Prompt
      <3>2. "running" \in ServerStates
        BY DEF ServerStates
      <3> HIDE DEF t
      <3>3. Event("busy", t) \in PlainEvents /\ Event("busy", t) \notin EndsOf(t)
            /\ Event("busy", t).s = t
        BY <2>1, EventFacts
      <3>4. \E n \in Msgs : job[n].at = "prompt" /\ job[n].target = t
        BY <2>1 DEF t
      <3> QED BY <2>1, <3>1, <3>2, <3>3, <3>4 DEF StreamStep
    <2>3. CASE srv[t] # "idle"
      BY <1>4, <2>1, <2>3 DEF Prompt, StreamStep
    <2> QED BY <2>2, <2>3
  <1>5. CASE RunEnqueue \/ RunDrain \/ RunSubmit
    BY <1>5 DEF RunEnqueue, RunDrain, RunSubmit, Starts, opencode, StreamStep
  <1>6. CASE RunEvent
    <2>1. Head(acts).e \in PlainEvents
      BY <1>6, CalmEvent
    <2> QED BY <1>6, <2>1 DEF RunEvent, Starts, opencode, PlainEvents, StreamStep
  <1>7. CASE Settle
    BY <1>7, CalmSettle DEF StreamStep
  <1>8. CASE Deliver
    BY <1>8 DEF Deliver, PostAction, StreamStep
  <1>9. CASE Abort
    <2>1. Draining \in Actions /\ Draining.do # "event"
      BY Values
    <2> QED BY <1>9, <2>1 DEF Abort, PostAction, StreamStep
  <1>10. ASSUME NEW m \in Msgs, ShowFails(m)
         PROVE  StreamStep
    BY <1>10, CalmShowFails DEF StreamStep
  <1> QED BY <1>1, <1>2, <1>3, <1>4, <1>5, <1>6, <1>7, <1>8, <1>9, <1>10, CalmSteps, ServerStream
          DEF CalmNext

\* The action that waits in the middle of an event took it from the queue.
LEMMA CalmTurns ==
  ASSUME Calm, Shape, Undisturbed, [Next]_vars, turn'.do = "event"
  PROVE  turn' = turn \/ (RunEvent /\ turn' = Head(acts) /\ Awaits(Head(acts).e))
  <1>1. ASSUME NEW m \in Msgs, Queue(m) \/ Say(m) \/ Withdraw(m) \/ EnsureSession(m)
          \/ CreateSession(m) \/ Prompt(m) \/ DispatchEnds(m) \/ DispatchThrows(m)
        PROVE  turn' = turn
    BY <1>1 DEF Queue, Say, Withdraw, EnsureSession, CreateSession, Prompt, DispatchEnds,
                DispatchThrows
  <1>2. ASSUME NEW m \in Msgs, Shown(m) \/ SubmitEnds(m) \/ ShowFails(m)
        PROVE  turn' = turn
    <2>1. ShowFails(m) => turn' = AtRest
      BY CalmShowFails
    <2> QED BY <1>2, <2>1, Values DEF Shown, SubmitEnds
  <1>3. CASE RunEnqueue
    BY <1>3 DEF RunEnqueue
  <1>4. CASE RunDrain \/ Settle
    <2>1. (\E b : Drain(job, b)) \/ turn' = AtRest
      BY <1>4, CalmSettle DEF RunDrain
    <2> QED BY <2>1, CalmDrain, MessageActions, Values
  <1>5. CASE RunSubmit
    BY <1>5 DEF RunSubmit, Starts
  <1>6. CASE RunEvent
    BY <1>6, Values DEF RunEvent
  <1>7. ASSUME NEW s \in Sessions, RunMoves(s)
        PROVE  turn' = turn
    BY <1>7 DEF RunMoves, RunCompletes, RunErrs, RunRetries, RetryStarts, AbortArrives,
                Server, runtime
  <1>8. CASE Deliver \/ Abort \/ UNCHANGED vars
    BY <1>8 DEF Deliver, Abort, vars, runtime
  <1> QED BY <1>1, <1>2, <1>3, <1>4, <1>5, <1>6, <1>7, <1>8, CalmSteps DEF CalmNext

LEMMA StreamEvents ==
  ASSUME Shape, StreamStep
  PROVE  /\ \A i \in DOMAIN acts' : acts'[i].do = "event" =>
              \/ \E k \in DOMAIN acts : acts[k] = acts'[i]
              \/ \E k \in DOMAIN sse : sse[k] = acts'[i].e
         /\ \A i \in DOMAIN sse' :
              \/ \E k \in DOMAIN sse : sse[k] = sse'[i]
              \/ /\ sse'[i] \in PlainEvents
                 /\ \/ srv[sse'[i].s] # "idle"
                    \/ \E m \in Msgs : job[m].at = "prompt" /\ job[m].target = sse'[i].s
         /\ \A s \in Sessions : srv'[s] # "idle" =>
              \/ srv[s] # "idle"
              \/ \E m \in Msgs : job[m].at = "prompt" /\ job[m].target = s
  <1>0. acts \in Seq(Actions) /\ sse \in Seq(Events) /\ srv \in [Sessions -> ServerStates]
    BY DEF Shape, Typed
  <1>1. CASE /\ srv' = srv /\ sse' = sse
             /\ \/ acts' = acts
                \/ \E x \in Actions : x.do # "event" /\ acts' = Append(acts, x)
                \/ acts # <<>> /\ acts' = Tail(acts) /\ (Head(acts).do = "event" => RunEvent)
    <2>1. CASE acts' = acts
      BY <1>1, <2>1
    <2>2. ASSUME NEW x \in Actions, x.do # "event", acts' = Append(acts, x)
          PROVE  \A i \in DOMAIN acts' : acts'[i].do = "event" =>
                   \E k \in DOMAIN acts : acts[k] = acts'[i]
      BY <1>0, <2>2, Appended1
    <2>3. CASE acts # <<>> /\ acts' = Tail(acts)
      BY <1>0, <1>1, <2>3, HeadAndTail
    <2> QED BY <1>1, <2>1, <2>2, <2>3
  <1>2. CASE srv' = srv /\ sse # <<>> /\ sse' = Tail(sse) /\ acts' = Append(acts, Handling(Head(sse)))
    <2>1. Head(sse) \in Events /\ 1 \in DOMAIN sse /\ sse[1] = Head(sse)
          /\ \A i \in DOMAIN sse' : \E k \in DOMAIN sse : sse[k] = sse'[i]
      BY <1>0, <1>2, HeadAndTail
    <2>2. Handling(Head(sse)) \in Actions /\ Handling(Head(sse)).e = Head(sse)
      BY <2>1, EventActions
    <2>3. \A i \in DOMAIN acts' : \/ \E k \in DOMAIN acts : acts[k] = acts'[i]
                                  \/ acts'[i] = Handling(Head(sse))
      BY <1>0, <1>2, <2>2, Appended1
    <2> QED BY <1>2, <2>1, <2>2, <2>3
  <1>3. ASSUME NEW t \in Sessions, NEW x \in ServerStates, NEW e \in PlainEvents,
               srv' = [srv EXCEPT ![t] = x], sse' = Append(sse, e), acts' = acts, e.s = t,
               srv[t] # "idle" \/ \E m \in Msgs : job[m].at = "prompt" /\ job[m].target = t
        PROVE  /\ \A i \in DOMAIN sse' : (\E k \in DOMAIN sse : sse[k] = sse'[i]) \/ sse'[i] = e
               /\ \A s \in Sessions : s # t => srv'[s] = srv[s]
    BY <1>0, <1>3, Appended1 DEF PlainEvents
  <1>4. CASE \E t \in Sessions, x \in ServerStates, e \in PlainEvents :
               /\ srv' = [srv EXCEPT ![t] = x] /\ sse' = Append(sse, e) /\ acts' = acts
               /\ e.s = t
               /\ srv[t] # "idle" \/ \E m \in Msgs : job[m].at = "prompt" /\ job[m].target = t
    <2>1. PICK t \in Sessions, x \in ServerStates, e \in PlainEvents :
               /\ srv' = [srv EXCEPT ![t] = x] /\ sse' = Append(sse, e) /\ acts' = acts
               /\ e.s = t
               /\ srv[t] # "idle" \/ \E m \in Msgs : job[m].at = "prompt" /\ job[m].target = t
      BY <1>4
    <2>2. /\ \A i \in DOMAIN sse' : (\E k \in DOMAIN sse : sse[k] = sse'[i]) \/ sse'[i] = e
          /\ \A s \in Sessions : s # t => srv'[s] = srv[s]
      BY <1>3, <2>1
    <2> QED BY <2>1, <2>2
  <1> QED BY <1>1, <1>2, <1>4 DEF StreamStep

LEMMA UndisturbedKept ==
  ASSUME Calm, Shape, Targets, Undisturbed, [Next]_vars
  PROVE  Undisturbed'
  <1>1. ~ui'
    <2>1. ASSUME NEW m \in Msgs, \/ Queue(m) \/ Say(m) \/ Withdraw(m) \/ Shown(m)
            \/ EnsureSession(m) \/ CreateSession(m) \/ Prompt(m) \/ SubmitEnds(m) \/ DispatchEnds(m)
            \/ DispatchThrows(m) \/ ShowFails(m)
          PROVE  ui' = ui \/ ~ui'
      BY <2>1 DEF Queue, Say, Withdraw, Shown, EnsureSession, CreateSession, Prompt, SubmitEnds,
                  DispatchEnds, DispatchThrows, ShowFails
    <2>2. RunEnqueue \/ RunDrain \/ RunSubmit \/ Settle \/ Deliver \/ Abort \/ UNCHANGED vars
            => ui' = ui \/ ~ui'
      BY CalmSettle DEF RunEnqueue, RunDrain, RunSubmit, Deliver, Abort, vars
    <2>3. RunEvent => ui' = ui
      BY CalmEvent DEF RunEvent, PlainEvents, Shape, Typed
    <2>4. ASSUME NEW s \in Sessions, RunMoves(s)
          PROVE  ui' = ui
      BY <2>4 DEF RunMoves, RunCompletes, RunErrs, RunRetries, RetryStarts, AbortArrives,
                Server
    <2> QED BY <2>1, <2>2, <2>3, <2>4, CalmSteps DEF CalmNext, Undisturbed
  <1>2. \A m \in Msgs : /\ job'[m].at \notin {"dismissing", "waiting", "handing", "report"}
                        /\ job'[m].by = NoMsg
    BY CalmMessagesGo DEF CalmGoes, Goes1, KeepsFields, Undisturbed
  <1>3. /\ \A i \in DOMAIN sse' : sse'[i] \in PlainEvents
        /\ \A i \in DOMAIN acts' : acts'[i].do = "event" => acts'[i].e \in PlainEvents
    BY CalmStream, StreamEvents DEF Undisturbed
  <1>4. turn'.do = "event" => turn'.e \in PlainEvents /\ turn'.e.type \in {"idle", "error"}
    <2> SUFFICES ASSUME turn'.do = "event"
                 PROVE  turn'.e \in PlainEvents /\ turn'.e.type \in {"idle", "error"}
      OBVIOUS
    <2>1. CASE turn' = turn
      BY <2>1 DEF Undisturbed
    <2>2. CASE RunEvent /\ turn' = Head(acts) /\ Awaits(Head(acts).e)
      BY <2>2, CalmEvent DEF Awaits, PlainEvents
    <2> QED BY <2>1, <2>2, CalmTurns
  <1> QED BY <1>1, <1>2, <1>3, <1>4 DEF Undisturbed

-----------------------------------------------------------------------------
(* The end of a run follows its beginning *)

\* What is of B is followed by something of E.
Covered(q, B, E) == \A i \in DOMAIN q : q[i] \in B => \E k \in DOMAIN q : i < k /\ q[k] \in E

LEMMA CoveredMore ==
  ASSUME NEW T, NEW q \in Seq(T), NEW x \in T, NEW B, NEW E
  PROVE  /\ x \notin B /\ Covered(q, B, E) => Covered(Append(q, x), B, E)
         /\ x \notin B /\ x \in E => Covered(Append(q, x), B, E)
  BY Appended1 DEF Covered

LEMMA CoveredLess ==
  ASSUME NEW T, NEW q \in Seq(T), q # <<>>, NEW B, NEW E, Covered(q, B, E)
  PROVE  /\ Covered(Tail(q), B, E)
         /\ Head(q) \in B => Has(Tail(q), E)
  <1>1. /\ Tail(q) \in Seq(T) /\ Head(q) = q[1] /\ 1 \in DOMAIN q /\ DOMAIN q \subseteq Nat
        /\ \A i \in DOMAIN Tail(q) : i \in Nat /\ i # 0 /\ i + 1 \in DOMAIN q /\ Tail(q)[i] = q[i + 1]
        /\ \A i \in DOMAIN q : i = 1 \/ (i - 1 \in DOMAIN Tail(q) /\ Tail(q)[i - 1] = q[i])
    BY HeadAndTail
  <1>2. ASSUME NEW i \in DOMAIN Tail(q), Tail(q)[i] \in B
        PROVE  \E k \in DOMAIN Tail(q) : i < k /\ Tail(q)[k] \in E
    <2>1. PICK k \in DOMAIN q : i + 1 < k /\ q[k] \in E
      BY <1>1, <1>2 DEF Covered
    <2>2. k \in Nat /\ i \in Nat /\ k # 1
      BY <1>1, <2>1
    <2>3. k - 1 \in DOMAIN Tail(q) /\ Tail(q)[k - 1] = q[k]
      BY <1>1, <2>2
    <2> QED BY <2>1, <2>2, <2>3
  <1>3. ASSUME Head(q) \in B
        PROVE  Has(Tail(q), E)
    <2>1. PICK k \in DOMAIN q : 1 < k /\ q[k] \in E
      BY <1>1, <1>3 DEF Covered
    <2>2. k - 1 \in DOMAIN Tail(q) /\ Tail(q)[k - 1] = q[k]
      BY <1>1, <2>1
    <2> QED BY <2>1, <2>2 DEF Has
  <1> QED BY <1>2, <1>3 DEF Covered

\* The session runs, or the end of its run is on its way.
Running(s) == srv[s] # "idle" \/ Has(sse, EndsOf(s)) \/ Has(acts, Acting(EndsOf(s)))

\* When it does not run, whatever said that it is busy is followed by the end.
EndFollows(s) == srv[s] = "idle" =>
  /\ Covered(sse, BusyOf(s), EndsOf(s))
  /\ Has(sse, EndsOf(s)) \/ Covered(acts, Acting(BusyOf(s)), Acting(EndsOf(s)))
Followed == \A s \in Sessions : EndFollows(s)

\* A run only stops running when its end is handled.
LEMMA RunningMoves ==
  ASSUME Shape, StreamStep, NEW s \in Sessions, Running(s)
  PROVE  Running(s)' \/ (RunEvent /\ Head(acts).e \in EndsOf(s))
  <1>0. acts \in Seq(Actions) /\ sse \in Seq(Events) /\ srv \in [Sessions -> ServerStates]
    BY DEF Shape, Typed
  <1>1. CASE srv' = srv /\ sse' = sse /\ acts' = acts
    BY <1>1 DEF Running
  <1>2. ASSUME srv' = srv, sse' = sse, NEW x \in Actions, acts' = Append(acts, x)
        PROVE  Running(s)'
    <2>1. Has(acts, Acting(EndsOf(s))) => Has(acts', Acting(EndsOf(s)))
      BY <1>0, <1>2, Appended1 DEF Has
    <2> QED BY <1>2, <2>1 DEF Running
  <1>3. CASE /\ srv' = srv /\ sse' = sse /\ acts # <<>> /\ acts' = Tail(acts)
             /\ (Head(acts).do = "event" => RunEvent)
    <2>1. Has(acts, Acting(EndsOf(s))) => Head(acts) \in Acting(EndsOf(s)) \/ Has(acts', Acting(EndsOf(s)))
      BY <1>0, <1>3, HasTail
    <2>2. Head(acts) \in Acting(EndsOf(s)) => RunEvent /\ Head(acts).e \in EndsOf(s)
      BY <1>3 DEF Acting
    <2> QED BY <1>3, <2>1, <2>2 DEF Running
  <1>4. CASE srv' = srv /\ sse # <<>> /\ sse' = Tail(sse) /\ acts' = Append(acts, Handling(Head(sse)))
    <2>1. Head(sse) \in Events
      BY <1>0, <1>4, HeadAndTail
    <2>2. Handling(Head(sse)) \in Actions /\ Handling(Head(sse)).do = "event"
          /\ Handling(Head(sse)).e = Head(sse)
      BY <2>1, EventActions
    <2>3. Has(acts, Acting(EndsOf(s))) => Has(acts', Acting(EndsOf(s)))
      BY <1>0, <1>4, <2>2, HasAppended
    <2>4. Has(sse, EndsOf(s)) => Head(sse) \in EndsOf(s) \/ Has(sse', EndsOf(s))
      BY <1>0, <1>4, HasTail
    <2>5. Head(sse) \in EndsOf(s) => Has(acts', Acting(EndsOf(s)))
      <3>1. Head(sse) \in EndsOf(s) => Handling(Head(sse)) \in Acting(EndsOf(s))
        BY <2>2 DEF Acting
      <3> QED BY <1>0, <1>4, <2>2, <3>1, HasAppended
    <2> QED BY <1>4, <2>3, <2>4, <2>5 DEF Running
  <1>5. ASSUME NEW t \in Sessions, NEW x \in ServerStates, NEW e \in PlainEvents,
               srv' = [srv EXCEPT ![t] = x], sse' = Append(sse, e), acts' = acts, e.s = t,
               x = "idle" <=> e \in EndsOf(t)
        PROVE  Running(s)'
    <2>1. e \in Events
      BY DEF PlainEvents
    <2>2. Has(sse, EndsOf(s)) => Has(sse', EndsOf(s))
      BY <1>0, <1>5, <2>1, HasAppended
    <2>3. e \in EndsOf(s) => Has(sse', EndsOf(s))
      BY <1>0, <1>5, <2>1, HasAppended
    <2>4. s # t => srv'[s] = srv[s]
      BY <1>0, <1>5
    <2>5. s = t => srv'[s] # "idle" \/ e \in EndsOf(s)
      BY <1>0, <1>5
    <2> QED BY <1>5, <2>2, <2>3, <2>4, <2>5 DEF Running
  <1> QED BY <1>1, <1>2, <1>3, <1>4, <1>5 DEF StreamStep

LEMMA EndFollowsKept ==
  ASSUME Shape, StreamStep, NEW s \in Sessions, EndFollows(s)
  PROVE  EndFollows(s)'
  <1>0. acts \in Seq(Actions) /\ sse \in Seq(Events) /\ srv \in [Sessions -> ServerStates]
    BY DEF Shape, Typed
  <1> DEFINE B == BusyOf(s)
             E == EndsOf(s)
  <1>1. CASE srv' = srv /\ sse' = sse /\ acts' = acts
    BY <1>1 DEF EndFollows
  <1>2. ASSUME srv' = srv, sse' = sse, NEW x \in Actions, x.do # "event", acts' = Append(acts, x)
        PROVE  EndFollows(s)'
    <2>1. x \notin Acting(B)
      BY <1>2 DEF Acting
    <2>2. Covered(acts, Acting(B), Acting(E)) => Covered(acts', Acting(B), Acting(E))
      BY <1>0, <1>2, <2>1, CoveredMore
    <2> QED BY <1>2, <2>2 DEF EndFollows
  <1>3. CASE srv' = srv /\ sse' = sse /\ acts # <<>> /\ acts' = Tail(acts)
    <2>1. Covered(acts, Acting(B), Acting(E)) => Covered(acts', Acting(B), Acting(E))
      BY <1>0, <1>3, CoveredLess
    <2> QED BY <1>3, <2>1 DEF EndFollows
  <1>4. CASE srv' = srv /\ sse # <<>> /\ sse' = Tail(sse) /\ acts' = Append(acts, Handling(Head(sse)))
    <2> DEFINE b == Head(sse)
               h == Handling(b)
    <2>1. b \in Events
      BY <1>0, <1>4, HeadAndTail
    <2>2. h \in Actions /\ h.do = "event" /\ h.e = b
      BY <2>1, EventActions
    <2>3. acts' = Append(acts, h)
      BY <1>4
    <2>4. /\ Covered(sse, B, E) => Covered(sse', B, E) /\ (b \in B => Has(sse', E))
          /\ Has(sse, E) => b \in E \/ Has(sse', E)
      BY <1>0, <1>4, CoveredLess, HasTail
    <2>5. (h \in Acting(B) <=> b \in B) /\ (h \in Acting(E) <=> b \in E) /\ (b \in E => b \notin B)
      BY <2>2 DEF Acting, BusyOf, EndsOf
    <2> HIDE DEF b, h, B, E
    <2>6. /\ b \in E => Covered(acts', Acting(B), Acting(E))
          /\ b \notin B /\ Covered(acts, Acting(B), Acting(E)) => Covered(acts', Acting(B), Acting(E))
      BY <1>0, <2>2, <2>3, <2>5, CoveredMore
    <2> QED BY <1>4, <2>4, <2>6 DEF EndFollows, B, E
  <1>5. ASSUME NEW t \in Sessions, NEW x \in ServerStates, NEW e \in PlainEvents,
               srv' = [srv EXCEPT ![t] = x], sse' = Append(sse, e), acts' = acts, e.s = t,
               x = "idle" <=> e \in EndsOf(t)
        PROVE  EndFollows(s)'
    <2>1. e \in Events
      BY DEF PlainEvents
    <2>2. CASE s = t
      <3>1. e \in E => e \notin B
        BY DEF EndsOf, BusyOf
      <3>2. srv'[s] = "idle" => e \in E
        BY <1>0, <1>5, <2>2
      <3>3. e \in E => Covered(sse', B, E) /\ Has(sse', E)
        BY <1>0, <1>5, <2>1, <3>1, CoveredMore, HasAppended
      <3> QED BY <3>2, <3>3 DEF EndFollows
    <2>3. CASE s # t
      <3>1. e \notin B /\ e \notin E
        BY <1>5, <2>3 DEF EndsOf, BusyOf
      <3>2. srv'[s] = srv[s]
        BY <1>0, <1>5, <2>3
      <3>3. /\ Covered(sse, B, E) => Covered(sse', B, E)
            /\ Has(sse, E) => Has(sse', E)
        BY <1>0, <1>5, <2>1, <3>1, CoveredMore, HasAppended
      <3> QED BY <1>5, <3>2, <3>3 DEF EndFollows
    <2> QED BY <2>2, <2>3
  <1> QED BY <1>1, <1>2, <1>3, <1>4, <1>5 DEF StreamStep

\* The session a busy event is of runs, or its end is still to be handled.
LEMMA BusyHandled ==
  ASSUME Shape, Undisturbed, RunEvent, NEW s \in Sessions, EndFollows(s), Head(acts).e \in BusyOf(s)
  PROVE  Running(s)'
  <1>1. /\ acts \in Seq(Actions) /\ acts # <<>> /\ Head(acts) \in Acting(BusyOf(s))
        /\ acts' = Tail(acts) /\ srv' = srv /\ sse' = sse
    BY CalmEvent DEF Acting, Shape, Typed
  <1>2. Covered(acts, Acting(BusyOf(s)), Acting(EndsOf(s))) => Has(acts', Acting(EndsOf(s)))
    BY <1>1, CoveredLess
  <1> QED BY <1>1, <1>2 DEF EndFollows, Running

-----------------------------------------------------------------------------
(* What marks a session busy *)

Dispatching(m) == ~Submits(m) /\ job[m].at \in {"ensure", "create", "prompt"}

LEMMA MarkedFacts ==
  ASSUME Shape, NEW x \in Sessions \cup {NoSession}, NEW s \in Sessions
  PROVE  /\ Marked(x, TRUE)[s].busy => buf[s].busy \/ s = x
         /\ Marked(x, FALSE)[s].busy => buf[s].busy /\ s # x
  BY Values DEF Marked, Shape, Typed

LEMMA AppendedFacts ==
  ASSUME Shape, NEW e \in PlainEvents, NEW s \in Sessions
  PROVE  /\ Appended(e)[s].busy => buf[s].busy \/ e \in BusyOf(s)
         /\ e \in EndsOf(s) /\ e.type = "idle" => ~Appended(e)[s].busy
  <1>1. e \in Events /\ e.s \in Sessions
        /\ e.type \in {"busy", "retry", "idle", "error"}
    BY DEF PlainEvents, Events
  <1>2. CASE e.type = "busy"
    <2>1. Appended(e) = Marked(e.s, TRUE)
      BY <1>2 DEF Appended
    <2>2. e.s = s => e \in BusyOf(s)
      BY <1>1, <1>2 DEF BusyOf
    <2> QED BY <1>1, <1>2, <2>1, <2>2, MarkedFacts
  <1>3. CASE e.type \in {"retry", "idle"}
    <2>1. Appended(e) = Marked(e.s, FALSE)
      BY <1>3 DEF Appended
    <2> QED BY <1>1, <2>1, MarkedFacts DEF EndsOf
  <1>4. CASE e.type = "error"
    <2>1. Appended(e) = buf
      BY <1>4 DEF Appended
    <2> QED BY <1>4, <2>1
  <1> QED BY <1>1, <1>2, <1>3, <1>4

LEMMA BusyMoves ==
  ASSUME Calm, Shape, Targets, Undisturbed, [Next]_vars, NEW s \in Sessions, buf'[s].busy
  PROVE  \/ buf[s].busy
         \/ \E m \in Msgs : /\ Dispatching(m)' /\ job'[m].known = s
                            /\ \/ job[m].known = s /\ job[m].at = "showing"
                               \/ s = sess /\ RunEnqueue
         \/ RunEvent /\ Head(acts).e \in BusyOf(s)
         \/ \E m \in Msgs : SubmitEnds(m) /\ job[m].target = s
  <1>0. sess \in Sessions \cup {NoSession} /\ job \in [Msgs -> Jobs]
    BY DEF Shape, Typed
  <1>1. ASSUME NEW m \in Msgs, \/ Queue(m) \/ Say(m) \/ Withdraw(m) \/ EnsureSession(m)
                               \/ CreateSession(m) \/ Prompt(m) \/ DispatchEnds(m)
        PROVE  buf' = buf
    BY <1>1 DEF Queue, Say, Withdraw, EnsureSession, CreateSession, Prompt, DispatchEnds
  <1>2. ASSUME NEW m \in Msgs, Shown(m)
        PROVE  \/ buf[s].busy
               \/ Dispatching(m)' /\ job'[m].known = s /\ job[m].known = s /\ job[m].at = "showing"
    <2>1. job[m].at = "showing" /\ job' = Put(job, m, "ensure") /\ turn' = AtRest
          /\ buf' = Marked(job[m].known, TRUE)
      BY <1>2 DEF Shown, Undisturbed
    <2>2. job[m].known \in Sessions \cup {NoSession}
      BY <1>0 DEF Jobs
    <2>3. buf[s].busy \/ job[m].known = s
      BY <2>1, <2>2, MarkedFacts
    <2>4. job'[m].at = "ensure" /\ job'[m].known = job[m].known
      BY <2>1, PutCalm DEF KeepsFields, JobPlaces
    <2>5. Dispatching(m)'
      BY <2>1, <2>4, Values DEF Dispatching, Submits
    <2> QED BY <2>1, <2>3, <2>4, <2>5
  <1>3. ASSUME NEW m \in Msgs, SubmitEnds(m)
        PROVE  buf[s].busy \/ job[m].target = s
    <2>1. buf' = Marked(job[m].target, TRUE) /\ job[m].target \in Sessions \cup {NoSession}
      BY <1>0, <1>3 DEF SubmitEnds, Jobs
    <2> QED BY <2>1, MarkedFacts
  <1>4. ASSUME NEW m \in Msgs, DispatchThrows(m)
        PROVE  buf[s].busy
    <2>1. buf' = Marked(job[m].known, FALSE) /\ job[m].known \in Sessions \cup {NoSession}
      BY <1>0, <1>4 DEF DispatchThrows, Jobs
    <2> QED BY <2>1, MarkedFacts
  <1>5. CASE RunEnqueue
    <2>1. \/ buf' = buf
          \/ \E h \in Msgs : /\ buf' = Marked(sess, TRUE) /\ job'[h].at = "ensure"
                             /\ job'[h].known = sess /\ turn' = AtRest
      BY <1>5, CalmEnqueue
    <2>2. buf' = Marked(sess, TRUE) => buf[s].busy \/ s = sess
      BY <1>0, MarkedFacts
    <2>3. ASSUME NEW h \in Msgs, job'[h].at = "ensure", turn' = AtRest
          PROVE  Dispatching(h)'
      BY <2>3, Values DEF Dispatching, Submits
    <2> QED BY <1>5, <2>1, <2>2, <2>3
  <1>6. CASE RunDrain \/ RunSubmit \/ Deliver \/ Abort \/ UNCHANGED vars
    BY <1>6 DEF RunDrain, RunSubmit, Deliver, Abort, vars, runtime
  <1>7. CASE RunEvent
    <2>1. buf' = Appended(Head(acts).e)
      BY <1>7 DEF RunEvent
    <2> QED BY <1>7, <2>1, CalmEvent, AppendedFacts
  <1>8. CASE Settle
    <2>1. turn.do = "event" /\ (buf' = buf \/ buf' = Marked(turn.e.s, FALSE))
      BY <1>8, CalmSettle
    <2>2. turn.e.s \in Sessions
      <3>1. turn.e \in PlainEvents
        BY <2>1 DEF Undisturbed
      <3> QED BY <3>1 DEF PlainEvents, Events
    <2> QED BY <2>1, <2>2, MarkedFacts
  <1>9. ASSUME NEW t \in Sessions, RunMoves(t)
        PROVE  buf' = buf
    BY <1>9 DEF RunMoves, RunCompletes, RunErrs, RunRetries, RetryStarts, AbortArrives,
                Server, runtime
  <1>10. ASSUME NEW m \in Msgs, ShowFails(m)
         PROVE  buf' = buf
    BY <1>10, CalmShowFails
  <1> QED BY <1>1, <1>2, <1>3, <1>4, <1>5, <1>6, <1>7, <1>8, <1>9, <1>10, CalmSteps DEF CalmNext

-----------------------------------------------------------------------------
(* Sessions *)

Untargeted == {"new", "posted", "queued", "showing", "ensure", "create"}

\* A session nothing was sent to yet
Fresh(s) == sess = NoSession \/ s \notin Created
Untouched(s) ==
  /\ ~buf[s].busy /\ srv[s] = "idle"
  /\ \A i \in DOMAIN sse : sse[i].s # s
  /\ \A i \in DOMAIN acts : acts[i].do = "event" => acts[i].e.s # s
  /\ \A m \in Msgs : job[m].known # s

\* A message goes to the thread's session unless the session has changed since.
SessionsFit ==
  /\ sess # NoSession => sess \in Created
  /\ \A m \in Msgs : /\ job[m].at \in Untargeted => job[m].target = NoSession
                     /\ job[m].target # NoSession => sess # NoSession
                     /\ (job[m].at = "prompt" /\ job[m].known = sess /\ sess # NoSession)
                          => job[m].target = sess
  /\ \A s \in Sessions : Fresh(s) => Untouched(s)

\* Only a dispatch or a submission that makes sure of its session changes it.
LEMMA SessionGoes ==
  ASSUME Calm, Shape, Targets, Undisturbed, [Next]_vars
  PROVE  \/ sess' = sess
         \/ /\ sess' \in Sessions /\ Fresh(sess') /\ buf' = buf
            /\ \E n \in Msgs : job'[n].at = "prompt" /\ job'[n].target = sess'
  <1>1. ASSUME NEW n \in Msgs, EnsureSession(n) \/ CreateSession(n), sess' # sess
        PROVE  /\ sess' \in Sessions /\ Fresh(sess') /\ buf' = buf
               /\ job'[n].at = "prompt" /\ job'[n].target = sess'
    <2>1. \E s \in Sessions : /\ job' = [job EXCEPT ![n].at = "prompt", ![n].target = s]
                              /\ sess' = s /\ Fresh(s) /\ buf' = buf
      <3>1. CASE CreateSession(n)
        BY <3>1 DEF CreateSession, Fresh
      <3>2. CASE EnsureSession(n)
        <4>1. sess = NoSession
          BY <1>1, <3>2 DEF EnsureSession, session
        <4>2. saved # NoSession
          BY <1>1, <3>2, <4>1 DEF EnsureSession, session
        <4>3. saved \in Sessions
          BY <4>2 DEF Shape, Typed
        <4> QED BY <3>2, <4>1, <4>2, <4>3 DEF EnsureSession, Fresh
      <3> QED BY <1>1, <3>1, <3>2
    <2> QED BY <2>1, TargetMoves DEF Shape, Typed
  <1>2. ASSUME NEW m \in Msgs, \/ Queue(m) \/ Say(m) \/ Withdraw(m) \/ Shown(m) \/ Prompt(m)
                               \/ SubmitEnds(m) \/ DispatchEnds(m) \/ DispatchThrows(m)
        PROVE  sess' = sess
    BY <1>2 DEF Queue, Say, Withdraw, Shown, Prompt, SubmitEnds, DispatchEnds, DispatchThrows, session
  <1>3. RunEnqueue \/ RunDrain \/ RunSubmit \/ RunEvent \/ Settle \/ Deliver \/ Abort
          \/ UNCHANGED vars => sess' = sess
    BY CalmSettle, CalmEvent
       DEF RunEnqueue, RunDrain, RunSubmit, Deliver, Abort, vars, runtime, session
  <1>5. ASSUME NEW m \in Msgs, ShowFails(m)
        PROVE  sess' = sess
    BY <1>5, CalmShowFails
  <1>4. ASSUME NEW s \in Sessions, RunMoves(s)
        PROVE  sess' = sess
    BY <1>4 DEF RunMoves, RunCompletes, RunErrs, RunRetries, RetryStarts, AbortArrives,
                Server, runtime, session
  <1> QED BY <1>1, <1>2, <1>3, <1>4, <1>5, CalmSteps DEF CalmNext

LEMMA SessionsFitKept ==
  ASSUME Calm, Shape, Targets, Undisturbed, SessionsFit, [Next]_vars
  PROVE  SessionsFit'
  <1>1. \A m \in Msgs : CalmGoes(m)
    BY CalmMessagesGo
  <1>2. \/ sess' = sess
        \/ /\ sess' \in Sessions /\ Fresh(sess') /\ buf' = buf
           /\ \E n \in Msgs : job'[n].at = "prompt" /\ job'[n].target = sess'
    BY SessionGoes
  <1>3. sess \in Sessions \cup {NoSession} /\ NoSession \notin Sessions
        /\ sess' \in Sessions \cup {NoSession} /\ (sess' = NoSession => sess = NoSession)
    BY <1>2, Values DEF Shape, Typed
  <1>4. \A m \in Msgs : \/ job'[m].target = job[m].target
                        \/ job[m].at \in Untargeted
    BY <1>1 DEF CalmGoes, Goes1, KeepsFields, Untargeted
  <1>5. \A s \in Sessions : s \in Created => s \in Created'
    <2> SUFFICES ASSUME NEW s \in Sessions, s \in Created PROVE s \in Created'
      OBVIOUS
    <2>1. CASE s \in {Known, Saved}
      BY <2>1 DEF Created
    <2>2. ASSUME NEW m \in Msgs, job[m].target = s
          PROVE  s \in Created'
      <3>1. job'[m].target = s
        BY <1>3, <1>4, <2>2 DEF SessionsFit
      <3> QED BY <3>1 DEF Created
    <2> QED BY <2>1, <2>2 DEF Created
  <1>6. sess' # NoSession => sess' \in Created'
    <2>1. CASE sess' = sess
      BY <1>3, <1>5, <2>1 DEF SessionsFit
    <2>2. CASE \E n \in Msgs : job'[n].target = sess'
      BY <2>2 DEF Created
    <2> QED BY <1>2, <2>1, <2>2
  <1>7. \A m \in Msgs : job'[m].at \in Untargeted => job'[m].target = NoSession
    BY <1>1 DEF CalmGoes, Goes1, KeepsFields, Untargeted, SessionsFit
  <1>8. \A m \in Msgs : job'[m].target # NoSession => sess' # NoSession
    <2> SUFFICES ASSUME NEW m \in Msgs, job'[m].target # NoSession PROVE sess' # NoSession
      OBVIOUS
    <2>1. CASE job'[m].target = job[m].target
      BY <1>3, <2>1 DEF SessionsFit
    <2>2. CASE job[m].at \in {"ensure", "create"} /\ job'[m].target = sess'
      BY <2>2
    <2> QED BY <1>1, <2>1, <2>2 DEF CalmGoes, Goes1, KeepsFields
  <1>9. \A m \in Msgs : job'[m].known = job[m].known \/ (job'[m].known = sess /\ job'[m].at # "prompt")
    BY <1>1 DEF CalmGoes, Goes1, KeepsFields
  <1>10. \A m \in Msgs : (job'[m].at = "prompt" /\ job'[m].known = sess' /\ sess' # NoSession)
                            => job'[m].target = sess'
    <2> SUFFICES ASSUME NEW m \in Msgs, job'[m].at = "prompt", job'[m].known = sess',
                        sess' # NoSession
                 PROVE  job'[m].target = sess'
      OBVIOUS
    <2>1. CASE job'[m].target = sess'
      BY <2>1
    <2>2. CASE job'[m] = job[m]
      <3>1. CASE sess' = sess
        BY <2>2, <3>1 DEF SessionsFit
      <3>2. CASE sess' \in Sessions /\ Fresh(sess')
        BY <2>2, <3>2 DEF SessionsFit, Untouched
      <3> QED BY <1>2, <3>1, <3>2
    <2> QED BY <1>1, <2>1, <2>2 DEF CalmGoes, Goes1
  <1>11. ASSUME NEW s \in Sessions, Fresh(s)'
         PROVE  Untouched(s)'
    <2>1. Fresh(s)
      BY <1>3, <1>5, <1>11 DEF Fresh
    <2>2. Untouched(s) /\ s # sess
      BY <1>3, <1>5, <1>11, <2>1 DEF SessionsFit, Fresh
    <2>3. \A m \in Msgs : job[m].target # s
      BY <1>3, <2>1 DEF SessionsFit, Fresh, Created
    <2>4. ~buf'[s].busy
      <3>1. RunEvent => Head(acts).e \notin BusyOf(s)
        <4>1. RunEvent => acts # <<>> /\ Head(acts).do = "event" /\ acts \in Seq(Actions)
          BY CalmEvent DEF Shape, Typed
        <4>2. RunEvent => Head(acts) = acts[1] /\ 1 \in DOMAIN acts
          BY <4>1, HeadAndTail
        <4> QED BY <2>2, <4>1, <4>2 DEF Untouched, BusyOf
      <3>2. \A m \in Msgs : job[m].known # s
        BY <2>2 DEF Untouched
      <3>3. ~buf[s].busy
        BY <2>2 DEF Untouched
      <3> QED BY <2>2, <2>3, <3>1, <3>2, <3>3, BusyMoves
    <2>5. StreamStep
      BY CalmStream
    <2>6. srv'[s] = "idle"
      BY <2>2, <2>3, <2>5, StreamEvents DEF Untouched
    <2>7. \A i \in DOMAIN sse' : sse'[i].s # s
      BY <2>2, <2>3, <2>5, StreamEvents DEF Untouched
    <2>8. \A i \in DOMAIN acts' : acts'[i].do = "event" => acts'[i].e.s # s
      BY <2>2, <2>5, StreamEvents DEF Untouched
    <2>9. \A m \in Msgs : job'[m].known # s
      BY <1>9, <2>2 DEF Untouched
    <2> QED BY <2>4, <2>6, <2>7, <2>8, <2>9 DEF Untouched
  <1> QED BY <1>6, <1>7, <1>8, <1>10, <1>11 DEF SessionsFit

-----------------------------------------------------------------------------
(* What empties the queue *)

\* A busy session runs, or is given a message, or the failure of its run is being handled;
\* or that failure could not be reported.
BusyBecause == Busy =>
  \/ missed
  \/ Running(sess)
  \/ \E m \in Msgs : Dispatching(m) /\ job[m].known = sess
  \/ turn.do = "event" /\ turn.e.type = "error" /\ turn.e.s = sess

\* A failure is that of the thread's session, unless a new session has replaced it.
ErrorFits == turn.do = "event" /\ turn.e.type = "error" => turn.e.s = sess \/ ~Busy

\* When a submission is answered the session it went to runs, or has just ended.
Replying == \A m \in Msgs : Submits(m) /\ job[m].at = "reply" => Running(job[m].target)

\* As long as the queue is not empty something is under way that ends in a drain, or a
\* drain was missed.
Detached(m) == ~Submits(m) /\ job[m].at \in {"showing", "ensure", "create", "prompt", "reply", "failing"}
Stirring ==
  \/ Has(acts, {Draining})
  \/ \E m \in Msgs : Detached(m)
  \/ turn.do = "event"
  \/ \E m \in Msgs : Submits(m) /\ (job[m].at \in {"ensure", "create"} \/ job[m].target = sess)
  \/ sess # NoSession /\ Running(sess)
Stirred == queue = <<>> \/ missed \/ Stirring

Moving ==
  /\ Undisturbed /\ SessionsFit /\ Followed
  /\ BusyBecause /\ ErrorFits /\ Replying /\ Stirred
Emptied == Calm => Moving

\* The action that handles an event waits until it has settled.
LEMMA EventSettles ==
  ASSUME Calm, Shape, Undisturbed, [Next]_vars, turn.do = "event"
  PROVE  turn' = turn \/ Settle
  <1>1. ASSUME NEW m \in Msgs, Queue(m) \/ Say(m) \/ Withdraw(m) \/ EnsureSession(m)
          \/ CreateSession(m) \/ Prompt(m) \/ DispatchEnds(m) \/ DispatchThrows(m)
        PROVE  turn' = turn
    BY <1>1 DEF Queue, Say, Withdraw, EnsureSession, CreateSession, Prompt, DispatchEnds,
                DispatchThrows
  <1>2. ASSUME NEW m \in Msgs, Shown(m)
        PROVE  FALSE
    <2>1. turn = Showing(m)
      BY <1>2 DEF Shown, Undisturbed, Shape, Fits, TurnFit
    <2> QED BY <2>1, MessageActions
  <1>3. ASSUME NEW m \in Msgs, SubmitEnds(m) \/ ShowFails(m)
        PROVE  FALSE
    BY <1>3, CalmShowFails, MessageActions DEF SubmitEnds, Submits
  <1>4. ~RunEnqueue /\ ~RunDrain /\ ~RunSubmit /\ ~RunEvent
    BY Values DEF RunEnqueue, RunDrain, RunSubmit, RunEvent, Starts
  <1>5. ASSUME NEW s \in Sessions, RunMoves(s)
        PROVE  turn' = turn
    BY <1>5 DEF RunMoves, RunCompletes, RunErrs, RunRetries, RetryStarts, AbortArrives,
                Server, runtime
  <1>6. Deliver \/ Abort \/ UNCHANGED vars => turn' = turn
    BY DEF Deliver, Abort, vars, runtime
  <1> QED BY <1>1, <1>2, <1>3, <1>4, <1>5, <1>6, CalmSteps DEF CalmNext

\* While an event is handled nothing marks a session busy.
LEMMA EventMarksNothing ==
  ASSUME Calm, Shape, Targets, Undisturbed, [Next]_vars, turn.do = "event",
         NEW s \in Sessions, buf'[s].busy
  PROVE  buf[s].busy
  <1>1. ~RunEnqueue /\ ~RunEvent
    BY Values DEF RunEnqueue, RunEvent, Starts
  <1>2. \A m \in Msgs : ~SubmitEnds(m)
    BY DEF SubmitEnds, Submits
  <1>3. \A m \in Msgs : job[m].at # "showing"
    BY MessageActions DEF Undisturbed, Shape, Fits, TurnFit
  <1> QED BY <1>1, <1>2, <1>3, BusyMoves

LEMMA ErrorFitsKept ==
  ASSUME Calm, Shape, Targets, Undisturbed, SessionsFit, ErrorFits, [Next]_vars
  PROVE  ErrorFits'
  <1> SUFFICES ASSUME turn'.do = "event", turn'.e.type = "error", Busy'
               PROVE  turn'.e.s = sess'
    BY DEF ErrorFits
  <1>0. sess' # NoSession /\ buf'[sess'].busy
    BY DEF Busy
  <1>1. sess' = sess
    <2>1. ASSUME sess' \in Sessions, Fresh(sess'), buf' = buf
          PROVE  FALSE
      BY <1>0, <2>1 DEF SessionsFit, Untouched
    <2> QED BY <2>1, SessionGoes
  <1>2. CASE turn' = turn
    <2>1. sess \in Sessions
      BY <1>0, <1>1 DEF Shape, Typed
    <2>2. PICK s \in Sessions : s = sess /\ s = sess'
      BY <1>1, <2>1
    <2>3. buf[s].busy
      BY <1>0, <1>2, <2>2, EventMarksNothing
    <2>4. Busy
      BY <1>0, <2>2, <2>3 DEF Busy
    <2> QED BY <1>1, <1>2, <2>4 DEF ErrorFits
  <1>3. CASE RunEvent /\ turn' = Head(acts) /\ Awaits(Head(acts).e)
    BY <1>1, <1>3 DEF Awaits
  <1> QED BY <1>2, <1>3, CalmTurns

\* A missed drain is made up for by one that finds the session idle.
LEMMA MissedStays ==
  ASSUME Calm, Shape, Undisturbed, [Next]_vars, missed, ~missed'
  PROVE  \/ RunEnqueue /\ ~Busy
         \/ RunDrain /\ Drain(job, Busy) /\ ~Busy
         \/ Settle /\ turn.e.type = "idle" /\ Drain(job, Busy) /\ ~Busy
         \/ /\ Settle /\ turn.e.type = "error" /\ buf' = Marked(turn.e.s, FALSE)
            /\ Drain(job, FALSE)
  <1>1. ASSUME NEW m \in Msgs, \/ Queue(m) \/ Say(m) \/ Withdraw(m) \/ Shown(m)
          \/ EnsureSession(m) \/ CreateSession(m) \/ Prompt(m) \/ SubmitEnds(m) \/ DispatchEnds(m)
          \/ DispatchThrows(m) \/ ShowFails(m)
        PROVE  missed'
    <2>1. ShowFails(m) => missed'
      BY CalmShowFails
    <2> QED BY <1>1, <2>1 DEF Queue, Say, Withdraw, Shown, EnsureSession, CreateSession, Prompt,
                 SubmitEnds, DispatchEnds, DispatchThrows, queueHistory
  <1>2. RunSubmit \/ RunEvent \/ Deliver \/ Abort \/ UNCHANGED vars => missed'
    BY DEF RunSubmit, RunEvent, Deliver, Abort, queueHistory, vars
  <1>3. ASSUME NEW s \in Sessions, RunMoves(s)
        PROVE  missed'
    BY <1>3 DEF RunMoves, RunCompletes, RunErrs, RunRetries, RetryStarts, AbortArrives, Server
  <1>4. RunEnqueue => ~Busy
    BY DEF RunEnqueue
  <1>5. \A b : Drain(job, b) => ~b
    BY DEF Drain
  <1>6. RunDrain => Drain(job, Busy) /\ ~Busy
    BY <1>5 DEF RunDrain
  <1>7. Settle => \/ turn.e.type = "idle" /\ Drain(job, Busy) /\ ~Busy
                  \/ /\ turn.e.type = "error" /\ buf' = Marked(turn.e.s, FALSE)
                     /\ Drain(job, FALSE)
    BY <1>5, CalmSettle
  <1> QED BY <1>1, <1>2, <1>3, <1>4, <1>6, <1>7, CalmSteps DEF CalmNext

\* While a message is being submitted no event is handled.
LEMMA SubmitsAlone ==
  ASSUME Shape, Undisturbed, NEW m \in Msgs, Submits(m)
  PROVE  ~RunEvent /\ job[m].at \in InSubmit
  BY CalmEvent, Values DEF Submits, Shape, Fits, TurnFit

LEMMA ReplyingKept ==
  ASSUME Calm, Shape, Targets, Undisturbed, Replying, [Next]_vars
  PROVE  Replying'
  <1> SUFFICES ASSUME NEW m \in Msgs, Submits(m)', job'[m].at = "reply",
                      NEW s \in Sessions, job'[m].target = s
               PROVE  Running(s)'
    <2>1. Targets'
      BY TargetsKept
    <2> QED BY <2>1 DEF Replying, Running, Targets
  <1>1. CASE job'[m] = job[m] /\ Submits(m)
    <2>1. Running(s)
      BY <1>1 DEF Replying
    <2> QED BY <1>1, <2>1, SubmitsAlone, RunningMoves, CalmStream
  <1>2. CASE Goes1(m, "prompt", "reply") /\ srv'[job[m].target] # "idle"
    BY <1>2 DEF Goes1, KeepsFields, Running
  <1>3. CalmGoes(m)
    BY CalmMessagesGo
  <1> QED BY <1>1, <1>2, <1>3 DEF CalmGoes, Goes1

LEMMA BusyBecauseKept ==
  ASSUME Calm, Shape, Targets, Moving, [Next]_vars
  PROVE  BusyBecause'
  <1>0. Undisturbed /\ SessionsFit /\ Followed /\ BusyBecause /\ ErrorFits /\ Replying
    BY DEF Moving
  <1> SUFFICES ASSUME NEW s \in Sessions, s = sess, s = sess', sess # NoSession, buf'[s].busy
               PROVE  \/ missed'
                      \/ Running(s)'
                      \/ \E m \in Msgs : Dispatching(m)' /\ job'[m].known = s
                      \/ turn'.do = "event" /\ turn'.e.type = "error" /\ turn'.e.s = s
    <2> SUFFICES ASSUME Busy' PROVE BusyBecause'
      BY DEF BusyBecause
    <2>1. sess' # NoSession /\ buf'[sess'].busy
      BY DEF Busy
    <2>2. ASSUME sess' \in Sessions, Fresh(sess'), buf' = buf
          PROVE  FALSE
      BY <1>0, <2>1, <2>2 DEF SessionsFit, Untouched
    <2>3. sess' = sess
      BY <1>0, <2>2, SessionGoes
    <2>4. PICK s \in Sessions : s = sess /\ s = sess'
      BY <2>1, <2>3 DEF Shape, Typed
    <2> QED BY <2>1, <2>3, <2>4 DEF BusyBecause, Running
  <1>2. ASSUME Running(s)
        PROVE  \/ Running(s)'
               \/ turn'.do = "event" /\ turn'.e.type = "error" /\ turn'.e.s = s
    <2>1. CASE RunEvent /\ Head(acts).e \in EndsOf(s)
      <3>1. Head(acts).e \in PlainEvents /\ Head(acts).do = "event"
        BY <1>0, <2>1, CalmEvent
      <3>2. buf' = Appended(Head(acts).e)
        BY <2>1 DEF RunEvent
      <3>3. Head(acts).e.type = "error" /\ Head(acts).e.s = s
        BY <2>1, <3>1, <3>2, AppendedFacts DEF EndsOf
      <3>4. turn' = Head(acts)
        BY <2>1, <3>3 DEF RunEvent, Awaits
      <3> QED BY <3>1, <3>3, <3>4
    <2> QED BY <1>0, <1>2, <2>1, RunningMoves, CalmStream
  <1>3. ASSUME NEW m \in Msgs, Dispatching(m), job[m].known = s
        PROVE  Running(s)' \/ (Dispatching(m)' /\ job'[m].known = s)
    <2>1. CalmGoes(m)
      BY <1>0, CalmMessagesGo
    <2>2. ~DispatchThrows(m)
      BY <1>3, MarkedFacts DEF DispatchThrows
    <2>3. CASE Goes1(m, "prompt", "reply") /\ srv'[job[m].target] # "idle"
      <3>1. job[m].target = s
        BY <1>0, <1>3, <2>3 DEF Goes1, SessionsFit
      <3> QED BY <2>3, <3>1 DEF Running
    <2> QED BY <1>3, <2>1, <2>2, <2>3 DEF CalmGoes, Goes1, KeepsFields, Dispatching
  <1>4. ASSUME turn.do = "event", turn.e.type = "error", turn.e.s = s
        PROVE  turn' = turn \/ missed'
    <2>1. Settle => missed'
      <3>1. Settle => buf' = Marked(s, FALSE) \/ missed'
        BY <1>0, <1>4, CalmSettle
      <3> QED BY <3>1, MarkedFacts
    <2> QED BY <1>0, <1>4, <2>1, EventSettles
  <1>9. ASSUME missed, Busy
        PROVE  missed'
    <2>1. ASSUME Settle, turn.e.type = "error", buf' = Marked(turn.e.s, FALSE)
          PROVE  FALSE
      <3>1. turn.e.s = s
        BY <1>0, <1>9, <2>1, CalmSettle DEF ErrorFits
      <3> QED BY <2>1, <3>1, MarkedFacts
    <2> QED BY <1>0, <1>9, <2>1, MissedStays
  <1>5. CASE buf[s].busy
    <2>1. Busy
      BY <1>5 DEF Busy
    <2>2. \/ missed
          \/ Running(s)
          \/ \E m \in Msgs : Dispatching(m) /\ job[m].known = s
          \/ turn.do = "event" /\ turn.e.type = "error" /\ turn.e.s = s
      BY <1>0, <2>1 DEF BusyBecause
    <2> QED BY <1>2, <1>3, <1>4, <1>9, <2>1, <2>2
  <1>6. CASE RunEvent /\ Head(acts).e \in BusyOf(s)
    <2>1. EndFollows(s)
      BY <1>0 DEF Followed
    <2> QED BY <1>0, <1>6, <2>1, BusyHandled
  <1>7. ASSUME NEW m \in Msgs, SubmitEnds(m), job[m].target = s
        PROVE  Running(s)'
    <2>1. Submits(m) /\ job[m].at = "reply"
      BY <1>7 DEF SubmitEnds
    <2>2. Running(s)
      BY <1>0, <1>7, <2>1 DEF Replying
    <2> QED BY <1>0, <2>1, <2>2, SubmitsAlone, RunningMoves, CalmStream
  <1>8. \/ buf[s].busy
        \/ \E m \in Msgs : Dispatching(m)' /\ job'[m].known = s
        \/ RunEvent /\ Head(acts).e \in BusyOf(s)
        \/ \E m \in Msgs : SubmitEnds(m) /\ job[m].target = s
    BY <1>0, BusyMoves
  <1> QED BY <1>5, <1>6, <1>7, <1>8

-----------------------------------------------------------------------------
(* Whatever is under way goes on until it drains *)

\* The message that made sure of the session goes to it.
LEMMA SessionStirs ==
  ASSUME Calm, Shape, Targets, Undisturbed, [Next]_vars, sess' # sess
  PROVE  Stirring'
  <1>1. PICK n \in Msgs : job'[n].at = "prompt" /\ job'[n].target = sess'
    BY SessionGoes
  <1> QED BY <1>1 DEF Stirring, Detached

\* A detached dispatch ends in a drain, unless the indicator before it cannot be sent.
LEMMA DetachedStirs ==
  ASSUME Calm, Shape, Targets, Undisturbed, [Next]_vars, NEW m \in Msgs, Detached(m)
  PROVE  Stirred'
  <1>1. CASE Detached(m)'
    BY <1>1 DEF Stirred, Stirring
  <1>2. CASE acts' = Append(acts, Draining)
    <2>1. Has(acts', {Draining})
      BY <1>2, Values, HasAppended DEF Shape, Typed
    <2> QED BY <2>1 DEF Stirred, Stirring
  <1>3. CASE DispatchThrows(m) /\ job'[m].at = "failing"
    <2>1. ~Submits(m)'
      BY <1>3 DEF DispatchThrows, Submits
    <2> QED BY <1>1, <1>3, <2>1 DEF Detached
  <1>4. CASE missed' \/ queue' = <<>>
    BY <1>4 DEF Stirred
  <1>5. CalmGoes(m)
    BY CalmMessagesGo
  <1> QED BY <1>1, <1>2, <1>3, <1>4, <1>5 DEF CalmGoes, Goes1, Detached

LEMMA DrainStays ==
  ASSUME Shape, StreamStep, Has(acts, {Draining})
  PROVE  Has(acts', {Draining}) \/ RunDrain
  <1>0. acts \in Seq(Actions) /\ sse \in Seq(Events)
    BY DEF Shape, Typed
  <1>1. ASSUME NEW x \in Actions, acts' = Append(acts, x)
        PROVE  Has(acts', {Draining})
    BY <1>0, <1>1, Appended1 DEF Has
  <1>2. CASE acts # <<>> /\ acts' = Tail(acts) /\ (Head(acts).do = "drain" => RunDrain)
    <2>1. Head(acts) \in {Draining} \/ Has(acts', {Draining})
      BY <1>0, <1>2, HasTail
    <2> QED BY <1>2, <2>1, Values
  <1>3. CASE sse # <<>> /\ acts' = Append(acts, Handling(Head(sse)))
    <2>1. Handling(Head(sse)) \in Actions
      BY <1>0, <1>3, HeadAndTail, EventActions
    <2> QED BY <1>1, <1>3, <2>1
  <1>4. CASE acts' = acts
    BY <1>4
  <1> QED BY <1>1, <1>2, <1>3, <1>4 DEF StreamStep

\* A run ends in an event that drains, or that misses to.
LEMMA RunningStirs ==
  ASSUME Calm, Shape, Targets, Undisturbed, [Next]_vars, sess # NoSession, Running(sess)
  PROVE  Stirred'
  <1>1. CASE sess' = sess
    <2>1. PICK s \in Sessions : s = sess
      BY DEF Shape, Typed
    <2>2. Running(s)
      BY <2>1 DEF Running
    <2>3. CASE Running(s)'
      <3>1. sess' # NoSession /\ Running(sess)'
        BY <1>1, <2>1, <2>3 DEF Running
      <3> QED BY <3>1 DEF Stirred, Stirring
    <2>4. CASE RunEvent /\ Head(acts).e \in EndsOf(s)
      <3>1. /\ Head(acts).do = "event" /\ Head(acts).e.s = sess
            /\ Head(acts).e.type \in {"error", "idle"}
        BY <2>1, <2>4, CalmEvent DEF EndsOf, PlainEvents
      <3>2. CASE Awaits(Head(acts).e)
        <4>1. turn' = Head(acts)
          BY <2>4, <3>2 DEF RunEvent
        <4> QED BY <3>1, <4>1 DEF Stirred, Stirring
      <3>3. CASE ~Awaits(Head(acts).e)
        <4>1. Unfinished(Head(acts).e)
          BY <3>1, <3>3 DEF Awaits, Unfinished
        <4>2. queue' = queue /\ (queue # <<>> => missed')
          BY <2>4, <3>1, <4>1 DEF RunEvent
        <4> QED BY <4>2 DEF Stirred
      <3> QED BY <3>2, <3>3
    <2> QED BY <2>2, <2>3, <2>4, RunningMoves, CalmStream
  <1> QED BY <1>1, SessionStirs DEF Stirred

\* An answered submission leaves a run of the session behind.
LEMMA SubmitsStirs ==
  ASSUME Calm, Shape, Targets, Undisturbed, Replying, [Next]_vars, NEW m \in Msgs, Submits(m),
         job[m].at \in {"ensure", "create"} \/ job[m].target = sess
  PROVE  Stirred'
  <1>1. CASE sess' # sess
    BY <1>1, SessionStirs DEF Stirred
  <1>2. CASE /\ sess' = sess /\ Submits(m)'
             /\ job'[m].at \in {"ensure", "create"} \/ job'[m].target = sess'
    BY <1>2 DEF Stirred, Stirring
  <1>3. CASE job[m].at = "reply" /\ job[m].target = sess
    <2>1. sess # NoSession /\ Running(sess)
      <3>1. job[m].target \in Sessions /\ Running(job[m].target)
        BY <1>3 DEF Replying, Targets
      <3> QED BY <1>3, <3>1, Values
    <2> QED BY <2>1, RunningStirs
  <1>4. CalmGoes(m) /\ job[m].at \in InSubmit
    BY CalmMessagesGo, SubmitsAlone
  <1> QED BY <1>1, <1>2, <1>3, <1>4 DEF CalmGoes, Goes1, KeepsFields, InSubmit

LEMMA BusyStirs ==
  ASSUME Calm, Shape, Targets, Undisturbed, BusyBecause, [Next]_vars, Busy, missed => missed',
         ~(turn.do = "event" /\ turn.e.type = "error" /\ turn.e.s = sess)
  PROVE  Stirred'
  <1>1. ASSUME NEW m \in Msgs, Dispatching(m)
        PROVE  Stirred'
    BY <1>1, DetachedStirs DEF Dispatching, Detached
  <1>2. sess # NoSession
    BY DEF Busy
  <1>3. missed' => Stirred'
    BY DEF Stirred
  <1> QED BY <1>1, <1>2, <1>3, RunningStirs DEF BusyBecause

\* A drain that leaves messages behind found the session busy, or took one.
LEMMA DrainStirs ==
  ASSUME Calm, Shape, Targets, Undisturbed, BusyBecause, [Next]_vars, Drain(job, Busy),
         ~(turn.do = "event" /\ turn.e.type = "error" /\ turn.e.s = sess)
  PROVE  Stirred'
  <1>1. CASE Busy
    <2>1. missed => missed'
      BY <1>1 DEF Drain
    <2> QED BY <1>1, <2>1, BusyStirs
  <1>2. CASE queue # <<>> /\ ~Busy
    <2>1. Drainable(Busy)
      BY <1>2 DEF Drainable
    <2>2. PICK h \in Msgs : turn' = Showing(h) /\ job'[h].at = "showing"
      BY <2>1, CalmDrain
    <2>3. ~Submits(h)'
      BY <2>2, MessageActions DEF Submits
    <2> QED BY <2>2, <2>3 DEF Stirred, Stirring, Detached
  <1>3. CASE queue = <<>>
    BY <1>3, CalmDrain DEF Drainable, Stirred
  <1> QED BY <1>1, <1>2, <1>3

LEMMA EventStirs ==
  ASSUME Calm, Shape, Targets, Undisturbed, BusyBecause, [Next]_vars, turn.do = "event"
  PROVE  Stirred'
  <1>1. CASE turn' = turn
    BY <1>1 DEF Stirred, Stirring
  <1>2. CASE Settle
    <2>1. CASE turn.e.type = "idle" /\ Drain(job, Busy)
      BY <2>1, DrainStirs
    <2>2. CASE Drain(job, FALSE)
      <3>1. CASE queue # <<>>
        <4>1. PICK h \in Msgs : turn' = Showing(h) /\ job'[h].at = "showing"
          BY <2>2, <3>1, CalmDrain DEF Drainable
        <4>2. ~Submits(h)'
          BY <4>1, MessageActions DEF Submits
        <4> QED BY <4>1, <4>2 DEF Stirred, Stirring, Detached
      <3>2. CASE queue = <<>>
        BY <2>2, <3>2, CalmDrain DEF Drainable, Stirred
      <3> QED BY <3>1, <3>2
    <2>3. CASE missed'
      BY <2>3 DEF Stirred
    <2> QED BY <1>2, <2>1, <2>2, <2>3, CalmSettle
  <1> QED BY <1>1, <1>2, EventSettles

\* Only enqueueViaLocalQueue adds to an empty queue.
LEMMA QueueGrows ==
  ASSUME Calm, Shape, Undisturbed, [Next]_vars, queue = <<>>, queue' # <<>>
  PROVE  RunEnqueue
  <1>1. ASSUME NEW m \in Msgs, Queue(m) \/ Say(m) \/ Shown(m) \/ EnsureSession(m)
          \/ CreateSession(m) \/ Prompt(m) \/ SubmitEnds(m) \/ DispatchEnds(m) \/ DispatchThrows(m)
        PROVE  queue' = queue
    BY <1>1 DEF Queue, Say, Shown, EnsureSession, CreateSession, Prompt, SubmitEnds,
                DispatchEnds, DispatchThrows
  <1>7. \A m \in Msgs : ShowFails(m) => queue' = queue
    BY CalmShowFails
  <1>6. \A m \in Msgs : ~Withdraw(m)
    BY DEF Withdraw
  <1>2. ~RunDrain /\ ~Settle
    <2>1. ASSUME NEW b, Drain(job, b)
          PROVE  FALSE
      BY <2>1 DEF Drain, Drainable
    <2> QED BY <2>1, CalmSettle DEF RunDrain
  <1>3. ~RunSubmit /\ ~Deliver /\ ~Abort /\ ~UNCHANGED vars
    BY DEF RunSubmit, Deliver, Abort, vars, runtime
  <1>4. ~RunEvent
    BY CalmEvent DEF RunEvent, PlainEvents
  <1>5. ASSUME NEW s \in Sessions, RunMoves(s)
        PROVE  FALSE
    BY <1>5 DEF RunMoves, RunCompletes, RunErrs, RunRetries, RetryStarts, AbortArrives,
                Server, runtime
  <1> QED BY <1>1, <1>2, <1>3, <1>4, <1>5, <1>6, <1>7, CalmSteps DEF CalmNext

LEMMA EnqueueStirs ==
  ASSUME Calm, Shape, Targets, Undisturbed, BusyBecause, [Next]_vars, RunEnqueue
  PROVE  Stirred'
  <1>1. CASE Busy
    <2>1. turn.do # "event" /\ (missed => missed')
      BY <1>1, CalmEnqueue, Values DEF RunEnqueue
    <2> QED BY <1>1, <2>1, BusyStirs
  <1>2. CASE ~Busy
    <2>1. PICK h \in Msgs : turn' = AtRest /\ job'[h].at = "ensure"
      BY <1>2, CalmEnqueue
    <2>2. ~Submits(h)'
      BY <2>1, Values DEF Submits
    <2> QED BY <2>1, <2>2 DEF Stirred, Stirring, Detached
  <1> QED BY <1>1, <1>2

LEMMA StirredKept ==
  ASSUME Calm, Shape, Targets, Moving, [Next]_vars
  PROVE  Stirred'
  <1>0. Undisturbed /\ BusyBecause /\ Replying /\ Stirred
    BY DEF Moving
  <1> SUFFICES ASSUME queue' # <<>> PROVE Stirred'
    BY DEF Stirred
  <1>1. CASE RunEnqueue
    BY <1>0, <1>1, EnqueueStirs
  <1>2. CASE RunDrain
    <2>1. Drain(job, Busy) /\ turn.do # "event"
      BY <1>2, Values DEF RunDrain, Starts
    <2> QED BY <1>0, <2>1, DrainStirs
  <1>3. CASE queue # <<>> /\ ~RunDrain
    <2>1. Has(acts, {Draining}) => Stirred'
      BY <1>0, <1>3, DrainStays, CalmStream DEF Stirred, Stirring
    <2>2. ASSUME NEW m \in Msgs, Detached(m)
          PROVE  Stirred'
      BY <1>0, <2>2, DetachedStirs
    <2>3. turn.do = "event" => Stirred'
      BY <1>0, EventStirs
    <2>4. ASSUME NEW m \in Msgs, Submits(m), job[m].at \in {"ensure", "create"} \/ job[m].target = sess
          PROVE  Stirred'
      BY <1>0, <2>4, SubmitsStirs
    <2>5. sess # NoSession /\ Running(sess) => Stirred'
      BY <1>0, RunningStirs
    <2>6. missed => Stirred'
      <3>1. ~missed' /\ missed => RunEnqueue \/ Settle
        BY <1>0, <1>3, MissedStays
      <3>2. Settle => turn.do = "event"
        BY DEF Settle
      <3> QED BY <1>1, <2>3, <3>1, <3>2 DEF Stirred
    <2> QED BY <1>0, <1>3, <2>1, <2>2, <2>3, <2>4, <2>5, <2>6 DEF Stirred, Stirring
  <1> QED BY <1>0, <1>1, <1>2, <1>3, QueueGrows

LEMMA MovingKept ==
  ASSUME Calm, Shape, Targets, Moving, [Next]_vars
  PROVE  Moving'
  <1>1. Undisturbed /\ SessionsFit /\ Followed /\ ErrorFits /\ Replying
    BY DEF Moving
  <1>2. Followed'
    BY <1>1, EndFollowsKept, CalmStream DEF Followed
  <1> QED BY <1>1, <1>2, UndisturbedKept, SessionsFitKept, BusyBecauseKept, ErrorFitsKept,
             ReplyingKept, StirredKept DEF Moving

LEMMA InitMoving ==
  Init => Moving
  <1> SUFFICES ASSUME Init PROVE Moving
    OBVIOUS
  <1>1. /\ DOMAIN sse = {} /\ DOMAIN acts = {} /\ turn.do = "rest"
        /\ \A m \in Msgs : /\ job[m].at = "new" /\ job[m].target = NoSession
                           /\ job[m].known = NoSession /\ job[m].by = NoMsg
        /\ \A s \in Sessions : ~buf[s].busy /\ srv[s] = "idle"
    BY Values DEF Init, NewJob
  <1>2. Undisturbed
    BY <1>1 DEF Init, Undisturbed
  <1>3. SessionsFit
    <2>1. Known \in Created
      BY DEF Created
    <2>2. \A s \in Sessions : Untouched(s)
      BY <1>1, Values DEF Untouched
    <2> QED BY <1>1, <2>1, <2>2 DEF Init, SessionsFit
  <1>4. Followed
    BY <1>1 DEF Followed, EndFollows, Covered
  <1>5. BusyBecause
    BY <1>1, Values DEF BusyBecause, Busy, Init
  <1>6. Replying
    BY <1>1 DEF Replying
  <1>7. Stirred
    BY DEF Stirred, Init
  <1>8. ErrorFits
    BY <1>1 DEF ErrorFits
  <1> QED BY <1>2, <1>3, <1>4, <1>5, <1>6, <1>7, <1>8 DEF Moving

LEMMA QueueIsEmptied ==
  Spec => []Emptied
  <1>1. Init => Emptied
    BY InitMoving DEF Emptied
  <1>2. Shape /\ Targets /\ Emptied /\ [Next]_vars => Emptied'
    BY MovingKept DEF Emptied, Calm
  <1> QED BY <1>1, <1>2, QueueKeepsShape, PTL DEF Spec

\* NothingStranded for any number of messages and sessions, of a thread in which no question
\* is asked and no dispatch fails with a report: runs may fail, be retried, be aborted or
\* end unfinished, dispatches may throw, indicators and reports may not be sent, direct
\* messages and new sessions come in between.  Once nothing is in flight the queue is
\* empty, because whatever kept it from being drained (tryDrainQueue found the session
\* busy) is followed by a drain of its own, the finally of a dispatch, handleSessionIdle
\* or handleSessionError, or is one of the drains that did not take place (missed).
THEOREM QueueNotStranded ==
  Spec => [](Calm => NothingStranded)
  <1>1. Shape /\ Emptied => (Calm => NothingStranded)
    <2> SUFFICES ASSUME Shape, Moving, Quiet, ~missed, queue # <<>>
                 PROVE  FALSE
      BY DEF Emptied, NothingStranded
    <2>1. /\ DOMAIN acts = {} /\ DOMAIN sse = {} /\ turn.do = "rest"
          /\ \A s \in Sessions : srv[s] = "idle"
      BY Values DEF Quiet
    <2>2. Stirring
      BY DEF Moving, Stirred
    <2>3. sess # NoSession => ~Running(sess)
      BY <2>1 DEF Running, Has, Shape, Typed
    <2>4. \A m \in Msgs : ~Detached(m) /\ ~Submits(m)
      BY <2>1 DEF Detached, Submits, Quiet
    <2> QED BY <2>1, <2>2, <2>3, <2>4 DEF Stirring, Has
  <1> QED BY <1>1, QueueIsEmptied, QueueKeepsShape, PTL
=============================================================================
