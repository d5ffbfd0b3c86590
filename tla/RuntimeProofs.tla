---------------------------- MODULE RuntimeProofs ----------------------------
(***************************************************************************)
(* RuntimeRegistry and EventBuffer, which share nothing: the life of a     *)
(* thread's runtime, and what it reads in its buffer of events; and, with  *)
(* the results about the queue and the registry of indicators, the types   *)
(* of their composition MCThreads.                                         *)
(*                                                                         *)
(* RuntimeRegistry, for any messages, runtimes and restarts: its types,    *)
(* the sweeper never takes the runtime of a run, and messages reach        *)
(* opencode in the order in which they came.  A runtime that looks idle    *)
(* may have sent the prompt of the run: what keeps it is that the          *)
(* session's latest event says busy, in the buffer, in an action or still  *)
(* on its way (RunIsAnnounced, RunIsSeen), and that a prompt under way has *)
(* its action in the queue (ActionsHeld).  The order of arrival is that of *)
(* the chain's links, in a thread without a parent (RegInOrder):           *)
(* enqueueIncoming awaits the same read for every message, which returns   *)
(* in the order of the calls.                                              *)
(*                                                                         *)
(* EventBuffer, for any size of the buffer, turns and answers: an answer   *)
(* that ends its turn gets one footer.  Its completion is found in the     *)
(* buffer until its turn is evicted (CompletionKept), and while its parts  *)
(* are flushed a marker can only push it behind the last entry             *)
(* (FlushKnows).  That it is taken for one of the current turn needs the   *)
(* entry of the user's message (TurnSeen).                                 *)
(* And no token of a turn is tracked twice: what was tracked of the latest *)
(* turn is at most what was counted at its last idle (BilledIsCounted),    *)
(* which the next idle takes off again; the snapshots of an answer grow    *)
(* (SnapshotsGrow), so that what is counted grows with the buffer and      *)
(* stays below what the answers have come to; and nothing more is tracked  *)
(* of an older turn while its entry is there (TurnsInOrder).               *)
(***************************************************************************)
EXTENDS MCThreads, ThreadProofs, SequenceTheorems, FiniteSetTheorems,
        WellFoundedInduction, TLAPS

\* m is somewhere in the sequence s.
Among(m, s) == \E i \in DOMAIN s : s[i] = m

\* a is in s before b.
Before(a, b, s) == \E i, j \in DOMAIN s : i < j /\ s[i] = a /\ s[j] = b

\* The messages that RegRunsAreWatched excepts
Excepted(m) == msg[m].rt \in restarted \/ msg[m].detached

\* Runtimes are numbered as they are made; one that was restarted is never the
\* thread's again.  Whoever arrived was given one; who did not has brought nothing yet.
Numbered ==
  /\ rt <= rtMade /\ rt \notin restarted
  /\ \A r \in restarted : r <= rtMade
  /\ \A m \in RegMessages : /\ msg[m].rt <= rtMade
                            /\ msg[m].at # "new" => msg[m].rt # NoRuntime
                            /\ msg[m].at = "new" => ~ msg[m].given
                            /\ msg[m].at = "dispatching" => msg[m].detached
                            /\ Among(m, items) => msg[m].at # "new"

\* Without a runtime there are no actions and no queue; what is queued waits for a
\* session that is busy.
QueueBehindBusy ==
  /\ rt = NoRuntime => actions = <<>>
  /\ items # <<>> => SessionBusy

\* The action of a message is in the queue of its runtime, which only /restart takes
\* from it; the one being run is at the head.
InAction == {"posted", "enqueue", "acting"}
ActionsHeld ==
  \A m \in RegMessages : msg[m].at \in InAction /\ msg[m].rt \notin restarted =>
    /\ Mine(m) /\ Among(m, actions)
    /\ msg[m].at = "acting" => Heads(m)

\* The latest event of a session with a run says busy, wherever it is by now.
RunIsAnnounced ==
  run # {} => IF stream # <<>> THEN stream[Len(stream)] = "busy"
              ELSE \A i \in DOMAIN actions : actions[i] = "idle" =>
                     \E j \in DOMAIN actions : i < j /\ actions[j] = "busy"

\* The runtime of a run's message knows the session, and that it is busy or will be.
RunIsSeen ==
  \A m \in run :
    /\ msg[m].at # "new"
    /\ ~ Excepted(m) =>
         /\ Mine(m) /\ known
         /\ recent \/ lifecycle = "busy"
         /\ stream = <<>> /\ lifecycle # "busy" => Among("busy", actions)

RegTyped == RegTypeOK /\ Numbered
RegInv == RegTyped /\ QueueBehindBusy /\ ActionsHeld /\ RunIsAnnounced /\ RunIsSeen

\* Where a message is linked to the chain, and where what follows it must wait
Unlinked == {"new", "parent", "writing"}
Ahead == {"chain", "pre", "posted", "enqueue", "acting"}
Passed == {"pre", "posted", "enqueue", "acting"}

Linked ==
  /\ \A m \in RegMessages : /\ msg[m].at # "new" <=> Among(m, calls)
                            /\ msg[m].at \notin Unlinked => Among(m, links)
                            /\ Among(m, items) => msg[m].at \notin Unlinked
  /\ \A m \in RegMessages : ~ Before(m, m, calls)

RegInOrder == NoParent =>
  /\ ~ parentKnown /\ \A m \in RegMessages : msg[m].at # "writing"
  /\ \A n, m \in RegMessages : Before(n, m, calls) =>
       /\ msg[m].at \notin Unlinked => msg[n].at \notin Unlinked /\ Before(n, m, links)
       /\ msg[m].at \in Passed /\ msg[n].rt = msg[m].rt => msg[n].at \notin Ahead
OrderInv == Linked /\ RegInOrder

-----------------------------------------------------------------------------
(* Sequences *)

LEMMA Shortened ==
  ASSUME NEW S, NEW q \in Seq(S), q # <<>>
  PROVE  /\ Tail(q) \in Seq(S) /\ Head(q) \in S /\ Head(q) = q[1] /\ 1 \in DOMAIN q
         /\ Len(Tail(q)) = Len(q) - 1 /\ Len(q) \in Nat /\ Len(q) > 0
         /\ \A i \in DOMAIN Tail(q) : i \in Nat /\ i # 0 /\ i + 1 \in DOMAIN q /\ Tail(q)[i] = q[i + 1]
         /\ \A i \in DOMAIN q : i \in Nat /\ (i = 1 \/ (i - 1 \in DOMAIN Tail(q) /\ Tail(q)[i - 1] = q[i]))
  <1>1. /\ Tail(q) \in Seq(S) /\ Head(q) \in S /\ Head(q) = q[1]
        /\ Len(Tail(q)) = Len(q) - 1 /\ Len(q) \in Nat /\ Len(q) > 0
        /\ DOMAIN q = 1 .. Len(q) /\ DOMAIN Tail(q) = 1 .. Len(q) - 1
    OBVIOUS
  <1>2. \A i \in 1 .. Len(Tail(q)) : Tail(q)[i] = q[i + 1]
    BY HeadTailProperties
  <1> QED BY <1>1, <1>2

LEMMA Lengthened ==
  ASSUME NEW S, NEW q \in Seq(S), NEW x \in S
  PROVE  /\ Append(q, x) \in Seq(S) /\ Append(q, x) # <<>> /\ Len(Append(q, x)) = Len(q) + 1
         /\ DOMAIN Append(q, x) = DOMAIN q \cup {Len(q) + 1} /\ Len(q) + 1 \notin DOMAIN q
         /\ Append(q, x)[Len(q) + 1] = x
         /\ \A i \in DOMAIN q : Append(q, x)[i] = q[i] /\ i \in Nat /\ i < Len(q) + 1
         /\ q # <<>> => Head(Append(q, x)) = Head(q)
  <1> DEFINE r == Append(q, x)
  <1>1. /\ r \in Seq(S) /\ Len(r) = Len(q) + 1 /\ r # <<>>
        /\ DOMAIN q = 1 .. Len(q) /\ DOMAIN r = 1 .. Len(q) + 1 /\ Len(q) \in Nat
        /\ q # <<>> => Len(q) > 0
    OBVIOUS
  <1>2. r[Len(q) + 1] = x /\ \A i \in 1 .. Len(q) : r[i] = q[i]
    BY AppendProperties
  <1>3. Head(r) = r[1] /\ (q # <<>> => Head(q) = q[1])
    BY <1>1
  <1> QED BY <1>1, <1>2, <1>3

LEMMA AmongAppend ==
  ASSUME NEW S, NEW q \in Seq(S), NEW x \in S, NEW a
  PROVE  Among(a, Append(q, x)) <=> Among(a, q) \/ a = x
  BY Lengthened DEF Among

LEMMA AmongTail ==
  ASSUME NEW S, NEW q \in Seq(S), q # <<>>, NEW a, Among(a, q), a # Head(q)
  PROVE  Among(a, Tail(q))
  <1>1. PICK i \in DOMAIN q : q[i] = a
    BY DEF Among
  <1>2. i - 1 \in DOMAIN Tail(q) /\ Tail(q)[i - 1] = a
    BY <1>1, Shortened
  <1> QED BY <1>2 DEF Among

LEMMA BeforeAppend ==
  ASSUME NEW S, NEW q \in Seq(S), NEW x \in S, NEW a, NEW b
  PROVE  Before(a, b, Append(q, x)) <=> Before(a, b, q) \/ (b = x /\ Among(a, q))
  <1> DEFINE n == Len(q) + 1
             r == Append(q, x)
  <1>1. /\ DOMAIN r = DOMAIN q \cup {n} /\ n \notin DOMAIN q /\ r[n] = x /\ n \in Nat
        /\ \A i \in DOMAIN q : r[i] = q[i] /\ i \in Nat /\ i < n
    BY Lengthened
  <1> HIDE DEF n, r
  <1>2. Before(a, b, r) => Before(a, b, q) \/ (b = x /\ Among(a, q))
    <2> SUFFICES ASSUME NEW i \in DOMAIN r, NEW j \in DOMAIN r, i < j, r[i] = a, r[j] = b
                 PROVE  Before(a, b, q) \/ (b = x /\ Among(a, q))
      BY DEF Before
    <2>1. i \in DOMAIN q
      BY <1>1
    <2> QED BY <1>1, <2>1 DEF Before, Among
  <1>3. Before(a, b, q) => Before(a, b, r)
    BY <1>1 DEF Before
  <1>4. b = x /\ Among(a, q) => Before(a, b, r)
    BY <1>1 DEF Before, Among
  <1> QED BY <1>2, <1>3, <1>4 DEF r

\* Every idle of s has a busy behind it.
Superseded(s) == \A i \in DOMAIN s : s[i] = "idle" => \E j \in DOMAIN s : i < j /\ s[j] = "busy"

LEMMA SupersededTail ==
  ASSUME NEW S, NEW s \in Seq(S), s # <<>>, Superseded(s)
  PROVE  /\ Superseded(Tail(s))
         /\ Head(s) = "idle" => Among("busy", Tail(s))
  <1>1. ASSUME NEW i \in DOMAIN Tail(s), Tail(s)[i] = "idle"
        PROVE  \E j \in DOMAIN Tail(s) : i < j /\ Tail(s)[j] = "busy"
    <2>1. i \in Nat /\ i + 1 \in DOMAIN s /\ s[i + 1] = "idle"
      BY <1>1, Shortened
    <2>2. PICK j \in DOMAIN s : i + 1 < j /\ s[j] = "busy"
      BY <2>1 DEF Superseded
    <2>3. j \in Nat /\ j - 1 \in DOMAIN Tail(s) /\ Tail(s)[j - 1] = "busy" /\ i < j - 1
      BY <2>1, <2>2, Shortened
    <2> QED BY <2>3
  <1>2. ASSUME Head(s) = "idle"
        PROVE  Among("busy", Tail(s))
    <2>1. 1 \in DOMAIN s /\ s[1] = "idle"
      BY <1>2, Shortened
    <2>2. PICK j \in DOMAIN s : 1 < j /\ s[j] = "busy"
      BY <2>1 DEF Superseded
    <2>3. j - 1 \in DOMAIN Tail(s) /\ Tail(s)[j - 1] = "busy"
      BY <2>2, Shortened
    <2> QED BY <2>3 DEF Among
  <1> QED BY <1>1, <1>2 DEF Superseded

LEMMA SupersededAppend ==
  ASSUME NEW S, NEW s \in Seq(S), NEW x \in S,
         x = "busy" \/ (x # "idle" /\ Superseded(s))
  PROVE  Superseded(Append(s, x))
  BY Lengthened DEF Superseded

-----------------------------------------------------------------------------
(* Messages *)

MsgRecs == [at : RegPlaces, rt : 0 .. MaxRegRuntimes, given : BOOLEAN, detached : BOOLEAN]
Acts == RegMessages \cup {"busy", "idle"}

LEMMA RegConstants ==
  /\ RegMessages \cap {"busy", "idle"} = {} /\ MaxRegRuntimes \in Nat
  /\ RegMessages \subseteq Acts /\ {"busy", "idle"} \subseteq Acts
  BY RegAssumption DEF Acts

LEMMA RegNumbered ==
  ASSUME RegTypeOK
  PROVE  /\ msg \in [RegMessages -> MsgRecs] /\ actions \in Seq(Acts)
         /\ calls \in Seq(RegMessages) /\ links \in Seq(RegMessages) /\ items \in Seq(RegMessages)
         /\ run \subseteq RegMessages /\ stream \in Seq({"busy", "idle"})
         /\ rt \in Nat /\ rtMade \in Nat /\ restarted \subseteq RegRuntimes
         /\ lifecycle \in {"none", "busy", "idle"}
         /\ \A m \in RegMessages : m \in Acts /\ m \notin {"busy", "idle"}
  BY RegConstants DEF RegTypeOK, MsgRecs, Acts

LEMMA MovedTo ==
  ASSUME RegTypeOK, NEW m \in RegMessages, NEW place \in RegPlaces, Moves(m, place)
  PROVE  /\ msg' \in [RegMessages -> MsgRecs]
         /\ msg'[m].at = place
         /\ \A n \in RegMessages : /\ n # m => msg'[n] = msg[n]
                                   /\ msg'[n].rt = msg[n].rt /\ msg'[n].given = msg[n].given
                                   /\ msg'[n].detached = msg[n].detached
  BY DEF RegTypeOK, MsgRecs, Moves

\* What a drain does to the messages: some of the queue are dispatched, or kept there.
LEMMA RegDrainMoves ==
  ASSUME RegTypeOK, NEW q \in Seq(RegMessages), NEW e \in {"none", "busy", "idle"}, Drains(q, e)
  PROVE  /\ msg' \in [RegMessages -> MsgRecs]
         /\ items' \in Seq(RegMessages) /\ lifecycle' \in {"none", "busy", "idle"}
         /\ \A n \in RegMessages : Among(n, items') => Among(n, q)
         /\ \A n \in RegMessages :
              \/ msg'[n] = msg[n]
              \/ /\ Among(n, q) /\ msg'[n].at \in {"queued", "dispatching"}
                 /\ msg'[n].rt = msg[n].rt /\ msg'[n].given = msg[n].given
                 /\ msg[n].detached \/ msg'[n].at = "dispatching" => msg'[n].detached
  <1>1. msg \in [RegMessages -> MsgRecs] /\ {"queued", "dispatching"} \subseteq RegPlaces
    BY DEF RegTypeOK, MsgRecs, RegPlaces
  <1>2. CASE q # <<>> /\ ~ (known /\ e = "busy")
    <2> DEFINE h == Head(q)
    <2>1. /\ msg' = [msg EXCEPT ![h].at = "dispatching", ![h].detached = TRUE]
          /\ items' = Tail(q) /\ lifecycle' \in {"none", "busy", "idle"}
      BY <1>2 DEF Drains
    <2>2. h \in RegMessages /\ Tail(q) \in Seq(RegMessages) /\ Among(h, q)
      BY <1>2, Shortened DEF Among
    <2> HIDE DEF h
    <2>3. /\ msg'[h].at = "dispatching" /\ msg'[h].rt = msg[h].rt /\ msg'[h].given = msg[h].given
          /\ msg'[h].detached /\ msg'[h] \in MsgRecs
      BY <1>1, <2>1, <2>2 DEF MsgRecs
    <2>4. \A n \in RegMessages : n # h => msg'[n] = msg[n]
      BY <1>1, <2>1
    <2>5. msg' \in [RegMessages -> MsgRecs]
      BY <1>1, <2>1, <2>2 DEF MsgRecs
    <2>6. \A n \in RegMessages : Among(n, Tail(q)) => Among(n, q)
      BY <1>2, Shortened DEF Among
    <2> QED BY <2>1, <2>2, <2>3, <2>4, <2>5, <2>6
  <1>3. CASE ~ (q # <<>> /\ ~ (known /\ e = "busy"))
    <2>1. /\ msg' = [m \in RegMessages |-> IF \E i \in DOMAIN q : q[i] = m
                                           THEN [msg[m] EXCEPT !.at = "queued"] ELSE msg[m]]
          /\ items' = q /\ lifecycle' = e
      BY <1>3 DEF Drains
    <2>2. ASSUME NEW n \in RegMessages
          PROVE  /\ msg'[n] \in MsgRecs
                 /\ \/ msg'[n] = msg[n]
                    \/ /\ Among(n, q) /\ msg'[n].at \in {"queued", "dispatching"}
                       /\ msg'[n].rt = msg[n].rt /\ msg'[n].given = msg[n].given
                       /\ msg[n].detached \/ msg'[n].at = "dispatching" => msg'[n].detached
      <3>1. msg[n] \in MsgRecs
        BY <1>1
      <3>2. CASE Among(n, q)
        <4>1. msg'[n] = [msg[n] EXCEPT !.at = "queued"]
          BY <2>1, <3>2 DEF Among
        <4> QED BY <1>1, <3>1, <3>2, <4>1 DEF MsgRecs
      <3>3. CASE ~ Among(n, q)
        BY <2>1, <3>1, <3>3 DEF Among
      <3> QED BY <3>2, <3>3
    <2> QED BY <2>1, <2>2
  <1> QED BY <1>2, <1>3

-----------------------------------------------------------------------------
(* What keeps the parts of the invariant *)

\* A message that is given a place on the way, with or without an action.
LEMMA WayKeeps ==
  ASSUME RegInv, NEW m \in RegMessages, NEW place \in RegPlaces \ {"new", "dispatching"},
         Moves(m, place), msg[m].at # "new",
         UNCHANGED <<rt, rtMade, restarted, recent, known, lifecycle, items, pendingUi, run, stream>>,
         \/ place \notin InAction /\ actions' = actions
         \/ /\ place \in {"posted", "enqueue"} /\ Mine(m) /\ msg[m].at \notin InAction
            /\ actions' = Append(actions, m)
         \/ place = "acting" /\ msg[m].at = "posted" /\ Heads(m) /\ actions' = actions
  PROVE  /\ msg' \in [RegMessages -> MsgRecs] /\ actions' \in Seq(Acts)
         /\ Numbered' /\ QueueBehindBusy' /\ ActionsHeld' /\ RunIsAnnounced' /\ RunIsSeen'
  <1>0. /\ msg \in [RegMessages -> MsgRecs] /\ actions \in Seq(Acts) /\ m \in Acts
        /\ m \notin {"busy", "idle"} /\ run \subseteq RegMessages
    BY RegConstants DEF RegInv, RegTyped, RegTypeOK, MsgRecs, Acts
  <1>1. /\ msg' \in [RegMessages -> MsgRecs] /\ msg'[m].at = place
        /\ \A n \in RegMessages : /\ n # m => msg'[n] = msg[n]
                                  /\ msg'[n].rt = msg[n].rt /\ msg'[n].detached = msg[n].detached
    BY MovedTo DEF RegInv, RegTyped
  <1>2. /\ actions' \in Seq(Acts)
        /\ \A a : Among(a, actions) => Among(a, actions')
        /\ actions # <<>> => actions' # <<>> /\ Head(actions') = Head(actions)
        /\ Superseded(actions) => Superseded(actions')
        /\ actions' # actions => rt # NoRuntime /\ Among(m, actions')
    <2>1. CASE actions' = actions
      BY <1>0, <2>1
    <2>2. CASE /\ place \in {"posted", "enqueue"} /\ Mine(m)
               /\ actions' = Append(actions, m)
      <3>1. rt # NoRuntime
        BY <2>2 DEF RegInv, RegTyped, Numbered, Mine
      <3> QED BY <1>0, <2>2, <3>1, Lengthened, AmongAppend, SupersededAppend
    <2> QED BY <2>1, <2>2
  <1>3. Numbered'
    BY <1>1 DEF RegInv, RegTyped, Numbered
  <1>4. QueueBehindBusy'
    BY <1>2 DEF RegInv, QueueBehindBusy, SessionBusy
  <1>5. ActionsHeld'
    <2> SUFFICES ASSUME NEW n \in RegMessages, msg'[n].at \in InAction, msg'[n].rt \notin restarted
                 PROVE  /\ msg'[n].rt = rt /\ Among(n, actions')
                        /\ msg'[n].at = "acting" => actions' # <<>> /\ Head(actions') = n
      BY DEF ActionsHeld, Mine, Heads
    <2>1. CASE n # m
      BY <1>1, <1>2, <2>1 DEF RegInv, ActionsHeld, Mine, Heads
    <2>2. CASE n = m /\ place = "acting" /\ msg[m].at = "posted" /\ Heads(m) /\ actions' = actions
      BY <1>1, <2>2 DEF RegInv, ActionsHeld, Mine, Heads, InAction
    <2>3. CASE n = m /\ place \in {"posted", "enqueue"} /\ Mine(m) /\ actions' = Append(actions, m)
      BY <1>0, <1>1, <2>3, AmongAppend DEF Mine
    <2> QED BY <1>1, <2>1, <2>2, <2>3
  <1>6. RunIsAnnounced'
    BY <1>2 DEF RegInv, RunIsAnnounced, Superseded
  <1>7. RunIsSeen'
    BY <1>0, <1>1, <1>2 DEF RegInv, RunIsSeen, Excepted, Mine
  <1> QED BY <1>1, <1>2, <1>3, <1>4, <1>5, <1>6, <1>7

LEMMA IngressKeeps ==
  ASSUME RegInv, NEW m \in RegMessages,
         \/ ParentRead(m) \/ ParentWritten(m) \/ PreprocessStarts(m) \/ Preprocessed(m)
         \/ SubmitStarts(m)
  PROVE  RegInv'
  <1>0. RegTypeOK
    BY DEF RegInv, RegTyped
  <1>1. /\ UNCHANGED <<rt, rtMade, restarted, recent, known, lifecycle, items, pendingUi, run, stream, young, calls>>
        /\ msg[m].at # "new"
        /\ \E place \in RegPlaces \ {"new", "dispatching"} : Moves(m, place) /\
             \/ place \notin InAction /\ actions' = actions
             \/ /\ place \in {"posted", "enqueue"} /\ Mine(m) /\ msg[m].at \notin InAction
                /\ actions' = Append(actions, m)
             \/ place = "acting" /\ msg[m].at = "posted" /\ Heads(m) /\ actions' = actions
    <2>1. CASE ParentRead(m)
      BY <2>1 DEF ParentRead, RegPlaces, InAction
    <2>2. CASE ParentWritten(m)
      BY <2>2 DEF ParentWritten, RegPlaces, InAction, regState
    <2>3. CASE PreprocessStarts(m)
      BY <2>3 DEF PreprocessStarts, RegPlaces, InAction, regState
    <2>4. CASE Preprocessed(m)
      BY <2>4 DEF Preprocessed, RegPlaces, InAction
    <2>5. CASE SubmitStarts(m)
      BY <2>5 DEF SubmitStarts, RegPlaces, regState
    <2> QED BY <2>1, <2>2, <2>3, <2>4, <2>5
  <1>2. /\ links' \in Seq(RegMessages) /\ parentKnown' \in BOOLEAN /\ parentSaved' \in BOOLEAN
    <2>1. links' = links \/ links' = Append(links, m)
      BY DEF ParentRead, ParentWritten, PreprocessStarts, Preprocessed, SubmitStarts, Links
    <2>2. links' \in Seq(RegMessages)
      <3>1. links \in Seq(RegMessages)
        BY <1>0, RegNumbered
      <3>2. Append(links, m) \in Seq(RegMessages)
        BY <3>1, AppendProperties
      <3> QED BY <2>1, <3>1, <3>2
    <2>3. parentSaved' \in BOOLEAN
      BY <1>0 DEF RegTypeOK, ParentRead, ParentWritten, PreprocessStarts, Preprocessed, SubmitStarts
    <2>4. msg[m].given \in BOOLEAN
      BY <1>0 DEF RegTypeOK
    <2>5. parentKnown' \in BOOLEAN
      BY <1>0, <2>4 DEF RegTypeOK, ParentRead, ParentWritten, PreprocessStarts, Preprocessed, SubmitStarts,
                        regState
    <2> QED BY <2>2, <2>3, <2>5
  <1>3. /\ msg' \in [RegMessages -> MsgRecs] /\ actions' \in Seq(Acts)
        /\ Numbered' /\ QueueBehindBusy' /\ ActionsHeld' /\ RunIsAnnounced' /\ RunIsSeen'
    BY <1>1, WayKeeps
  <1>4. RegTypeOK'
    BY <1>0, <1>1, <1>2, <1>3 DEF RegTypeOK, MsgRecs, Acts
  <1> QED BY <1>3, <1>4 DEF RegInv, RegTyped

\* A prompt that is accepted keeps what is said of runs and of the events of the session.
LEMMA AcceptedStream ==
  ASSUME RegInv, NEW m \in RegMessages, Accepts(m)
  PROVE  /\ run' \subseteq RegMessages /\ stream' \in Seq({"busy", "idle"})
         /\ run' = run \cup {m}
         /\ stream' # <<>> => stream'[Len(stream')] = "busy"
         /\ stream' = <<>> => Superseded(actions)
         /\ stream' = <<>> => stream = <<>>
  <1>0. run \subseteq RegMessages /\ stream \in Seq({"busy", "idle"})
    BY RegNumbered DEF RegInv, RegTyped
  <1>1. CASE run = {}
    <2>1. stream' = Append(stream, "busy") /\ run' = run \cup {m}
      BY <1>1 DEF Accepts
    <2>2. stream' # <<>> /\ stream' \in Seq({"busy", "idle"}) /\ stream'[Len(stream')] = "busy"
      BY <1>0, <2>1, AppendProperties
    <2> QED BY <1>0, <2>1, <2>2
  <1>2. CASE run # {}
    BY <1>0, <1>2 DEF Accepts, RegInv, RunIsAnnounced, Superseded
  <1> QED BY <1>1, <1>2

LEMMA SubmitKeeps ==
  ASSUME RegInv, NEW m \in RegMessages, SubmitAccepted(m)
  PROVE  RegInv'
  <1>0. RegTypeOK /\ "sent" \in RegPlaces
    BY DEF RegInv, RegTyped, RegPlaces
  <1>1. /\ msg' \in [RegMessages -> MsgRecs] /\ msg'[m].at = "sent"
        /\ \A n \in RegMessages : /\ n # m => msg'[n] = msg[n]
                                  /\ msg'[n].rt = msg[n].rt /\ msg'[n].detached = msg[n].detached
    BY <1>0, MovedTo DEF SubmitAccepted
  <1>2. /\ msg[m].at = "acting" /\ Accepts(m)
        /\ UNCHANGED <<calls, links, rt, rtMade, restarted, young, parentKnown, parentSaved, items, pendingUi>>
    BY DEF SubmitAccepted
  <1>3. /\ run' \subseteq RegMessages /\ stream' \in Seq({"busy", "idle"})
        /\ run' = run \cup {m}
        /\ stream' # <<>> => stream'[Len(stream')] = "busy"
        /\ stream' = <<>> => Superseded(actions)
        /\ stream' = <<>> => stream = <<>>
    BY <1>2, AcceptedStream
  <1>4. Numbered'
    BY <1>1, <1>2 DEF RegInv, RegTyped, Numbered
  <1>5. CASE ~ Mine(m)
    <2>1. UNCHANGED <<known, lifecycle, recent, actions>>
      BY <1>5 DEF SubmitAccepted
    <2>2. msg[m].rt \in restarted
      BY <1>2, <1>5 DEF RegInv, ActionsHeld, InAction
    <2>3. RegTypeOK'
      BY <1>0, <1>1, <1>2, <1>3, <2>1 DEF RegTypeOK, MsgRecs
    <2>4. QueueBehindBusy' /\ ActionsHeld'
      BY <1>1, <1>2, <2>1 DEF RegInv, QueueBehindBusy, SessionBusy, ActionsHeld, Mine, Heads, InAction
    <2>5. RunIsAnnounced'
      BY <1>3, <2>1 DEF RunIsAnnounced, Superseded
    <2>6. RunIsSeen'
      BY <1>0, <1>1, <1>2, <1>3, <2>1, <2>2, RegNumbered DEF RegInv, RunIsSeen, Excepted, Mine
    <2> QED BY <1>4, <2>3, <2>4, <2>5, <2>6 DEF RegInv, RegTyped
  <1>6. CASE Mine(m)
    <2>1. known' = TRUE /\ lifecycle' = "busy" /\ recent' = TRUE /\ actions' = Tail(actions)
      BY <1>6 DEF SubmitAccepted
    <2>2. actions # <<>> /\ Head(actions) = m /\ rt # NoRuntime
      BY <1>2, <1>6 DEF RegInv, RegTyped, Numbered, ActionsHeld, InAction, Mine, Heads
    <2>3. actions' \in Seq(Acts)
      BY <1>0, <2>1, <2>2, RegNumbered, Shortened
    <2>4. RegTypeOK'
      BY <1>0, <1>1, <1>2, <1>3, <2>1, <2>3 DEF RegTypeOK, MsgRecs, Acts
    <2>5. QueueBehindBusy'
      BY <1>2, <2>1, <2>2 DEF QueueBehindBusy, SessionBusy
    <2>6. ActionsHeld'
      <3> SUFFICES ASSUME NEW n \in RegMessages, msg'[n].at \in InAction, msg'[n].rt \notin restarted
                   PROVE  /\ msg'[n].rt = rt /\ Among(n, actions')
                          /\ msg'[n].at # "acting"
        BY <1>2 DEF ActionsHeld, Mine
      <3>1. n # m /\ msg'[n] = msg[n]
        BY <1>1 DEF InAction
      <3>2. Mine(n) /\ Among(n, actions) /\ msg[n].at # "acting"
        BY <2>2, <3>1 DEF RegInv, ActionsHeld, Heads
      <3> QED BY <1>0, <2>1, <2>2, <3>1, <3>2, AmongTail, RegNumbered DEF Mine
    <2>7. RunIsAnnounced'
      BY <1>0, <1>3, <2>1, <2>2, SupersededTail, RegNumbered DEF RunIsAnnounced, Superseded
    <2>8. RunIsSeen'
      <3>1. \A n \in run : Excepted(n) \/ Mine(n)
        BY DEF RegInv, RunIsSeen
      <3> QED BY <1>0, <1>1, <1>2, <1>3, <1>6, <2>1, <3>1, RegNumbered DEF RegInv, RunIsSeen, Excepted, Mine
    <2> QED BY <1>4, <2>4, <2>5, <2>6, <2>7, <2>8 DEF RegInv, RegTyped
  <1> QED BY <1>5, <1>6

LEMMA DispatchKeeps ==
  ASSUME RegInv, NEW m \in RegMessages, DispatchAccepted(m)
  PROVE  RegInv'
  <1>0. RegTypeOK /\ "sent" \in RegPlaces
    BY DEF RegInv, RegTyped, RegPlaces
  <1>1. /\ msg' \in [RegMessages -> MsgRecs] /\ msg'[m].at = "sent"
        /\ \A n \in RegMessages : /\ n # m => msg'[n] = msg[n]
                                  /\ msg'[n].rt = msg[n].rt /\ msg'[n].detached = msg[n].detached
    BY <1>0, MovedTo DEF DispatchAccepted
  <1>2. /\ msg[m].at = "dispatching" /\ Accepts(m) /\ known' = (known \/ Mine(m))
        /\ UNCHANGED <<calls, links, rt, rtMade, restarted, recent, young, parentKnown, parentSaved,
                       lifecycle, actions, items, pendingUi>>
    BY DEF DispatchAccepted
  <1>3. /\ run' \subseteq RegMessages /\ stream' \in Seq({"busy", "idle"})
        /\ run' = run \cup {m}
        /\ stream' # <<>> => stream'[Len(stream')] = "busy"
        /\ stream' = <<>> => Superseded(actions)
        /\ stream' = <<>> => stream = <<>>
    BY <1>2, AcceptedStream
  <1>4. Numbered' /\ msg[m].detached
    BY <1>1, <1>2 DEF RegInv, RegTyped, Numbered
  <1>5. RegTypeOK'
    <2>1. known' \in BOOLEAN
      BY <1>2
    <2> QED BY <1>0, <1>1, <1>2, <1>3, <2>1 DEF RegTypeOK, MsgRecs
  <1>6. QueueBehindBusy' /\ ActionsHeld'
    BY <1>1, <1>2 DEF RegInv, QueueBehindBusy, SessionBusy, ActionsHeld, Mine, Heads, InAction
  <1>7. RunIsAnnounced'
    BY <1>2, <1>3 DEF RunIsAnnounced, Superseded
  <1>8. RunIsSeen'
    BY <1>0, <1>1, <1>2, <1>3, <1>4, RegNumbered DEF RegInv, RunIsSeen, Excepted, Mine
  <1> QED BY <1>4, <1>5, <1>6, <1>7, <1>8 DEF RegInv, RegTyped

\* A drain that follows the lifecycle event e, by an action at the head
LEMMA DrainKeeps ==
  ASSUME RegInv, NEW q \in Seq(RegMessages), NEW e \in {"none", "busy", "idle"}, Drains(q, e),
         actions # <<>>, actions' = Tail(actions), rt # NoRuntime,
         items' # <<>> => known /\ lifecycle' = "busy",
         \A n \in RegMessages : n = Head(actions) => msg'[n].at \notin InAction /\ msg[n].at # "acting",
         \A n \in RegMessages : Among(n, q) => msg[n].at # "new",
         UNCHANGED <<calls, links, rt, rtMade, restarted, young, known, parentKnown, parentSaved, pendingUi,
                     run, stream>>,
         recent' \in BOOLEAN, recent => recent', known => recent' \/ lifecycle' = "busy",
         Head(actions) = "busy" => lifecycle' = "busy",
         Head(actions) # "idle" /\ known => (lifecycle = "busy" => lifecycle' = "busy")
  PROVE  RegInv'
  <1>0. RegTypeOK
    BY DEF RegInv, RegTyped
  <1>1. /\ msg' \in [RegMessages -> MsgRecs]
        /\ items' \in Seq(RegMessages) /\ lifecycle' \in {"none", "busy", "idle"}
        /\ \A n \in RegMessages : Among(n, items') => Among(n, q)
        /\ \A n \in RegMessages :
             \/ msg'[n] = msg[n]
             \/ /\ Among(n, q) /\ msg'[n].at \in {"queued", "dispatching"}
                /\ msg'[n].rt = msg[n].rt /\ msg'[n].given = msg[n].given
                /\ msg[n].detached \/ msg'[n].at = "dispatching" => msg'[n].detached
    BY <1>0, RegDrainMoves
  <1>2. actions' \in Seq(Acts)
    BY <1>0, RegNumbered, Shortened
  <1>3. Numbered'
    BY <1>1 DEF RegInv, RegTyped, Numbered
  <1>4. RegTypeOK'
    BY <1>0, <1>1, <1>2 DEF RegTypeOK, MsgRecs, Acts
  <1>5. QueueBehindBusy'
    BY DEF QueueBehindBusy, SessionBusy
  <1>6. ActionsHeld'
    <2> SUFFICES ASSUME NEW n \in RegMessages, msg'[n].at \in InAction, msg'[n].rt \notin restarted
                 PROVE  /\ msg'[n].rt = rt /\ Among(n, actions')
                        /\ msg'[n].at # "acting"
      BY DEF ActionsHeld, Mine
    <2>1. msg'[n] = msg[n] /\ n # Head(actions)
      BY <1>1 DEF InAction
    <2>2. Mine(n) /\ Among(n, actions) /\ msg[n].at # "acting"
      BY <2>1 DEF RegInv, ActionsHeld, Heads
    <2> QED BY <1>0, <2>1, <2>2, AmongTail, RegNumbered DEF Mine
  <1>7. RunIsAnnounced'
    BY <1>0, SupersededTail, RegNumbered DEF RegInv, RunIsAnnounced, Superseded
  <1>8. RunIsSeen'
    <2> SUFFICES ASSUME NEW n \in run
                 PROVE  /\ msg'[n].at # "new"
                        /\ msg'[n].rt \notin restarted /\ ~ msg'[n].detached =>
                             /\ msg'[n].rt = rt /\ known
                             /\ recent' \/ lifecycle' = "busy"
                             /\ stream = <<>> /\ lifecycle' # "busy" => Among("busy", Tail(actions))
      BY DEF RunIsSeen, Excepted, Mine
    <2>1. n \in RegMessages /\ msg[n].at # "new"
      BY <1>0, RegNumbered DEF RegInv, RunIsSeen
    <2>2. msg'[n].at # "new" /\ msg'[n].rt = msg[n].rt /\ (msg[n].detached => msg'[n].detached)
      BY <1>1, <2>1
    <2>3. ASSUME ~ Excepted(n), stream = <<>>, lifecycle' # "busy"
          PROVE  Among("busy", Tail(actions))
      <3>1. Superseded(actions) /\ known
        BY <2>3 DEF RegInv, RunIsAnnounced, RunIsSeen, Superseded
      <3>2. CASE Head(actions) = "idle"
        BY <1>0, <3>1, <3>2, SupersededTail, RegNumbered
      <3>3. CASE Head(actions) # "idle"
        <4>1. lifecycle # "busy" /\ Head(actions) # "busy"
          BY <2>3, <3>1, <3>3
        <4>2. Among("busy", actions)
          BY <2>3, <4>1 DEF RegInv, RunIsSeen
        <4> QED BY <1>0, <4>1, <4>2, AmongTail, RegNumbered
      <3> QED BY <3>2, <3>3
    <2>4. ~ Excepted(n) => Mine(n) /\ known
      BY DEF RegInv, RunIsSeen
    <2> QED BY <2>2, <2>3, <2>4 DEF Excepted, Mine
  <1> QED BY <1>3, <1>4, <1>5, <1>6, <1>7, <1>8 DEF RegInv, RegTyped

LEMMA EnqueueKeeps ==
  ASSUME RegInv, NEW m \in RegMessages, Enqueued(m)
  PROVE  RegInv'
  <1> DEFINE q == Append(items, m)
  <1>0. /\ RegTypeOK /\ items \in Seq(RegMessages)
        /\ recent \in BOOLEAN /\ known \in BOOLEAN
    BY RegNumbered DEF RegInv, RegTyped, RegTypeOK
  <1>1. /\ actions # <<>> /\ Head(actions) = m /\ msg[m].at = "enqueue" /\ Drains(q, lifecycle)
        /\ actions' = Tail(actions) /\ recent' = (recent \/ (known /\ lifecycle # "busy"))
        /\ UNCHANGED <<calls, links, rt, rtMade, restarted, young, known, parentKnown, parentSaved, pendingUi,
                       run, stream>>
    BY DEF Enqueued, Heads
  <1>2. /\ q \in Seq(RegMessages) /\ q # <<>>
        /\ \A n : Among(n, q) <=> Among(n, items) \/ n = m
        /\ items = <<>> => Head(q) = m /\ Tail(q) = <<>>
    <2>1. q \in Seq(RegMessages) /\ q # <<>> /\ \A n : Among(n, q) <=> Among(n, items) \/ n = m
      BY <1>0, Lengthened, AmongAppend
    <2>2. items = <<>> => q = <<m>>
      BY <1>0
    <2> QED BY <2>1, <2>2
  <1>3. m \notin {"busy", "idle"} /\ rt # NoRuntime /\ lifecycle \in {"none", "busy", "idle"}
    BY <1>0, <1>1, RegNumbered DEF RegInv, QueueBehindBusy
  <1> HIDE DEF q
  <1>4. /\ msg'[m].at \in {"queued", "dispatching"}
        /\ items' # <<>> => known /\ lifecycle' = "busy"
        /\ known => lifecycle' = "busy"
        /\ lifecycle = "busy" => lifecycle' = "busy"
    <2>1. CASE ~ (known /\ lifecycle = "busy")
      <3>1. Head(q) = m /\ Tail(q) = <<>>
        BY <1>2, <2>1 DEF RegInv, QueueBehindBusy, SessionBusy
      <3>2. /\ msg' = [msg EXCEPT ![m].at = "dispatching", ![m].detached = TRUE]
            /\ items' = <<>> /\ lifecycle' = IF known THEN "busy" ELSE lifecycle
        BY <1>1, <1>2, <2>1, <3>1 DEF Drains
      <3>3. msg'[m].at = "dispatching"
        BY <1>0, <3>2, RegNumbered DEF MsgRecs
      <3> QED BY <3>2, <3>3
    <2>2. CASE known /\ lifecycle = "busy"
      <3>1. /\ msg' = [k \in RegMessages |-> IF \E i \in DOMAIN q : q[i] = k
                                             THEN [msg[k] EXCEPT !.at = "queued"] ELSE msg[k]]
            /\ lifecycle' = lifecycle
        BY <1>1, <2>2 DEF Drains
      <3>2. msg'[m] = [msg[m] EXCEPT !.at = "queued"]
        BY <1>2, <3>1 DEF Among
      <3>3. msg'[m].at = "queued"
        BY <1>0, <3>2, RegNumbered DEF MsgRecs
      <3> QED BY <2>2, <3>1, <3>3
    <2> QED BY <2>1, <2>2
  <1>5. \A n \in RegMessages : Among(n, q) => msg[n].at # "new" \/ Among(n, items)
    BY <1>1, <1>2
  <1>6. \A n \in RegMessages : Among(n, items) => msg[n].at # "new"
    BY DEF RegInv, RegTyped, Numbered
  <1>7. recent' \in BOOLEAN /\ (recent => recent')
    BY <1>0, <1>1
  <1> QED BY <1>0, <1>1, <1>2, <1>3, <1>4, <1>5, <1>6, <1>7, DrainKeeps DEF InAction

LEMMA EventKeeps ==
  ASSUME RegInv, NEW e \in {"busy", "idle"}, EventHandled(e)
  PROVE  RegInv'
  <1>0. /\ RegTypeOK /\ items \in Seq(RegMessages) /\ actions \in Seq(Acts)
        /\ \A n \in RegMessages : n # e
    BY RegNumbered DEF RegInv, RegTyped
  <1>1. /\ actions # <<>> /\ Head(actions) = e
        /\ actions' = Tail(actions) /\ recent' = TRUE
        /\ UNCHANGED <<calls, links, rt, rtMade, restarted, young, known, parentKnown, parentSaved, pendingUi,
                       run, stream>>
    BY DEF EventHandled, Heads
  <1>2. rt # NoRuntime
    BY <1>1 DEF RegInv, QueueBehindBusy
  <1>3. CASE e = "idle"
    <2>1. Drains(items, e)
      BY <1>3 DEF EventHandled
    <2>2. items' # <<>> => known /\ lifecycle' = "busy"
      <3>1. items # <<>> => known
        BY DEF RegInv, QueueBehindBusy, SessionBusy
      <3> QED BY <1>3, <2>1, <3>1 DEF Drains
    <2>3. \A n \in RegMessages : Among(n, items) => msg[n].at # "new"
      BY DEF RegInv, RegTyped, Numbered
    <2> QED BY <1>0, <1>1, <1>2, <1>3, <2>1, <2>2, <2>3, DrainKeeps
  <1>4. CASE e = "busy"
    <2>1. lifecycle' = "busy" /\ msg' = msg /\ items' = items
      BY <1>4 DEF EventHandled
    <2>2. actions' \in Seq(Acts)
      BY <1>0, <1>1, Shortened
    <2>3. RegTypeOK' /\ Numbered' /\ QueueBehindBusy'
      BY <1>0, <1>1, <1>2, <2>1, <2>2 DEF RegInv, RegTyped, RegTypeOK, Numbered, QueueBehindBusy, SessionBusy, Acts
    <2>4. ActionsHeld'
      <3> SUFFICES ASSUME NEW n \in RegMessages, msg[n].at \in InAction, msg[n].rt \notin restarted
                   PROVE  msg[n].rt = rt /\ Among(n, actions') /\ msg[n].at # "acting"
        BY <1>1, <2>1 DEF ActionsHeld, Mine
      <3>1. Mine(n) /\ Among(n, actions) /\ n # Head(actions) /\ msg[n].at # "acting"
        BY <1>0, <1>1 DEF RegInv, ActionsHeld, Heads
      <3> QED BY <1>0, <1>1, <3>1, AmongTail DEF Mine
    <2>5. RunIsAnnounced'
      BY <1>0, <1>1, SupersededTail DEF RegInv, RunIsAnnounced, Superseded
    <2>6. RunIsSeen'
      BY <1>1, <2>1 DEF RegInv, RunIsSeen, Excepted, Mine
    <2> QED BY <2>3, <2>4, <2>5, <2>6 DEF RegInv, RegTyped
  <1> QED BY <1>3, <1>4

LEMMA DeliveryKeeps ==
  ASSUME RegInv, RegDelivers
  PROVE  RegInv'
  <1>0. /\ RegTypeOK /\ stream \in Seq({"busy", "idle"}) /\ actions \in Seq(Acts) /\ {"busy", "idle"} \subseteq Acts
        /\ \A n \in RegMessages : n # Head(stream)
    <2>1. RegTypeOK /\ stream \in Seq({"busy", "idle"}) /\ actions \in Seq(Acts)
      BY RegNumbered DEF RegInv, RegTyped
    <2>2. Head(stream) \in {"busy", "idle"}
      BY <2>1, Shortened DEF RegDelivers
    <2> QED BY <2>1, <2>2, RegNumbered, RegConstants
  <1>1. /\ stream # <<>> /\ stream' = Tail(stream)
        /\ UNCHANGED <<msg, calls, links, rt, rtMade, restarted, recent, young, known, parentKnown,
                       parentSaved, lifecycle, items, pendingUi, run>>
    BY DEF RegDelivers
  <1>2. /\ stream' \in Seq({"busy", "idle"}) /\ Head(stream) \in {"busy", "idle"} /\ Head(stream) = stream[1]
        /\ Len(stream') = Len(stream) - 1 /\ Len(stream) \in Nat
        /\ stream' # <<>> => stream'[Len(stream')] = stream[Len(stream)]
        /\ stream' = <<>> => Len(stream) = 1
    <2>1. /\ stream' \in Seq({"busy", "idle"}) /\ Head(stream) \in {"busy", "idle"} /\ Head(stream) = stream[1]
          /\ Len(stream') = Len(stream) - 1 /\ Len(stream) \in Nat
      BY <1>0, <1>1, Shortened
    <2>2. stream' = <<>> => Len(stream') = 0
      OBVIOUS
    <2>3. stream' # <<>> => Len(stream') \in DOMAIN stream'
      BY <2>1
    <2>4. \A i \in DOMAIN stream' : stream'[i] = stream[i + 1]
      BY <1>0, <1>1, Shortened
    <2>5. stream' # <<>> => stream'[Len(stream')] = stream[Len(stream') + 1]
      BY <2>3, <2>4
    <2> QED BY <2>1, <2>2, <2>5
  <1>3. /\ actions' \in Seq(Acts)
        /\ \A a : Among(a, actions) => Among(a, actions')
        /\ actions # <<>> => actions' # <<>> /\ Head(actions') = Head(actions)
        /\ rt = NoRuntime => actions' = actions
        /\ rt # NoRuntime => Among(Head(stream), actions')
        /\ rt # NoRuntime /\ Head(stream) = "busy" => Superseded(actions')
    <2>1. CASE rt = NoRuntime
      BY <1>0, <2>1 DEF RegDelivers
    <2>2. CASE rt # NoRuntime
      <3>1. actions' = Append(actions, Head(stream)) /\ Head(stream) \in Acts
        BY <1>0, <1>2, <2>2 DEF RegDelivers
      <3> QED BY <1>0, <2>2, <3>1, Lengthened, AmongAppend, SupersededAppend
    <2> QED BY <2>1, <2>2
  <1>4. RegTypeOK' /\ Numbered' /\ QueueBehindBusy'
    BY <1>0, <1>1, <1>2, <1>3 DEF RegInv, RegTyped, RegTypeOK, Numbered, QueueBehindBusy, SessionBusy, Acts
  <1>5. ActionsHeld'
    BY <1>1, <1>3 DEF RegInv, ActionsHeld, Mine, Heads
  <1>6. run # {} /\ stream' = <<>> => Head(stream) = "busy"
    BY <1>1, <1>2 DEF RegInv, RunIsAnnounced
  <1>7. RunIsAnnounced'
    <2>1. CASE stream' # <<>>
      BY <1>1, <1>2, <2>1 DEF RegInv, RunIsAnnounced
    <2>2. CASE stream' = <<>> /\ rt # NoRuntime
      BY <1>1, <1>3, <1>6, <2>2 DEF RunIsAnnounced, Superseded
    <2>3. CASE rt = NoRuntime
      <3>1. actions' = <<>>
        BY <1>3, <2>3 DEF RegInv, QueueBehindBusy
      <3>2. DOMAIN actions' = {}
        BY <3>1
      <3> QED BY <1>1, <1>2, <3>2 DEF RegInv, RunIsAnnounced
    <2> QED BY <2>1, <2>2, <2>3
  <1>8. RunIsSeen'
    <2> SUFFICES ASSUME NEW n \in run
                 PROVE  /\ msg[n].at # "new"
                        /\ ~ Excepted(n) =>
                             /\ Mine(n) /\ known
                             /\ recent \/ lifecycle = "busy"
                             /\ stream' = <<>> /\ lifecycle # "busy" => Among("busy", actions')
      BY <1>1 DEF RunIsSeen, Excepted, Mine
    <2>1. ~ Excepted(n) => rt # NoRuntime
      BY <1>0, RegNumbered DEF RegInv, RegTyped, RunIsSeen, Mine, Numbered
    <2> QED BY <1>1, <1>3, <1>6, <2>1 DEF RegInv, RunIsSeen
  <1> QED BY <1>4, <1>5, <1>7, <1>8 DEF RegInv, RegTyped

\* A step that changes at most what is recent, asked, or run by opencode.
LEMMA QuietKeeps ==
  ASSUME RegInv, RegRunEnds \/ OtherSessionsEvent \/ UiToggles \/ DayPasses
  PROVE  RegInv'
  <1>0. RegTypeOK /\ stream \in Seq({"busy", "idle"})
    BY RegNumbered DEF RegInv, RegTyped
  <1>1. UNCHANGED <<msg, calls, links, rt, rtMade, restarted, known, parentKnown, parentSaved, lifecycle,
                    actions, items>>
    BY DEF RegRunEnds, OtherSessionsEvent, UiToggles, DayPasses, regState
  <1>2. /\ run' \in {run, {}} /\ (run' # {} => stream' = stream)
        /\ stream' \in Seq({"busy", "idle"})
        /\ recent' \in BOOLEAN /\ young' \in BOOLEAN /\ pendingUi' \in BOOLEAN
    <2>1. CASE RegRunEnds
      BY <1>0, <2>1, AppendProperties DEF RegRunEnds, RegTypeOK, regState
    <2>2. CASE OtherSessionsEvent \/ UiToggles \/ DayPasses
      BY <1>0, <2>2 DEF OtherSessionsEvent, UiToggles, DayPasses, RegTypeOK
    <2> QED BY <2>1, <2>2
  <1>3. RegTypeOK'
    BY <1>0, <1>1, <1>2 DEF RegTypeOK
  <1>4. Numbered' /\ QueueBehindBusy' /\ ActionsHeld'
    BY <1>1 DEF RegInv, RegTyped, Numbered, QueueBehindBusy, SessionBusy, ActionsHeld, Mine, Heads
  <1>5. RunIsAnnounced'
    BY <1>1, <1>2 DEF RegInv, RunIsAnnounced
  <1>6. ASSUME NEW n \in run, ~ Excepted(n), run' # {}
        PROVE  recent' \/ lifecycle = "busy"
    <2>1. CASE DayPasses
      <3>1. ~ Among("busy", actions) /\ stream = <<>>
        BY <2>1 DEF DayPasses, Among
      <3> QED BY <1>6, <3>1 DEF RegInv, RunIsSeen
    <2>2. CASE ~ DayPasses
      <3>1. recent => recent'
        BY <2>2 DEF RegRunEnds, OtherSessionsEvent, UiToggles, regState
      <3> QED BY <1>6, <3>1 DEF RegInv, RunIsSeen
    <2> QED BY <2>1, <2>2
  <1>7. RunIsSeen'
    BY <1>1, <1>2, <1>6 DEF RegInv, RunIsSeen, Excepted, Mine
  <1> QED BY <1>3, <1>4, <1>5, <1>7 DEF RegInv, RegTyped

LEMMA NothingQueued ==
  /\ \A a : ~ Among(a, <<>>)
  /\ <<>> \in Seq(Acts) /\ <<>> \in Seq(RegMessages) /\ <<>> \in Seq({"busy", "idle"})
  /\ Superseded(<<>>)
  BY EmptySeq DEF Among, Superseded

\* The runtime goes, and its runs with it, or it has none.
LEMMA SweepKeeps ==
  ASSUME RegInv, Sweeps
  PROVE  RegInv'
  <1>0. /\ RegTypeOK /\ rt # NoRuntime /\ ~ recent /\ actions = <<>> /\ ~ SessionBusy
        /\ rt' = NoRuntime /\ actions' = <<>> /\ items' = <<>>
        /\ ~ recent' /\ ~ known' /\ ~ parentKnown' /\ lifecycle' = "none" /\ ~ pendingUi'
        /\ UNCHANGED <<msg, calls, links, rtMade, restarted, young, parentSaved, run, stream>>
    BY DEF RegInv, RegTyped, Sweeps, IsIdleCandidate, Pristine
  <1>1. \A n \in run : Excepted(n)
    BY <1>0 DEF RegInv, RunIsSeen, SessionBusy
  <1>2. RegTypeOK'
    <2>1. /\ recent' \in BOOLEAN /\ known' \in BOOLEAN /\ parentKnown' \in BOOLEAN /\ pendingUi' \in BOOLEAN
      BY DEF Sweeps, Pristine
    <2>2. 0 \in 0 .. MaxRegRuntimes
      BY RegConstants
    <2> QED BY <1>0, <2>1, <2>2, NothingQueued DEF RegTypeOK, NoRuntime, Acts
  <1>3. Numbered'
    BY <1>0, RegNumbered, NothingQueued DEF RegInv, RegTyped, Numbered, NoRuntime, RegRuntimes
  <1>4. QueueBehindBusy'
    BY <1>0 DEF QueueBehindBusy
  <1>5. ActionsHeld'
    BY <1>0, NothingQueued DEF RegInv, ActionsHeld
  <1>6. RunIsAnnounced'
    BY <1>0, NothingQueued DEF RegInv, RunIsAnnounced, Superseded
  <1>7. RunIsSeen'
    BY <1>0, <1>1 DEF RegInv, RunIsSeen, Excepted
  <1> QED BY <1>2, <1>3, <1>4, <1>5, <1>6, <1>7 DEF RegInv, RegTyped

LEMMA RestartKeeps ==
  ASSUME RegInv, RestartsServer
  PROVE  RegInv'
  <1>0. /\ RegTypeOK /\ rt # NoRuntime
        /\ rt' = NoRuntime /\ actions' = <<>> /\ items' = <<>>
        /\ ~ recent' /\ ~ known' /\ ~ parentKnown' /\ lifecycle' = "none" /\ ~ pendingUi'
        /\ run' = {} /\ stream' = <<>> /\ restarted' = restarted \cup {rt}
        /\ UNCHANGED <<calls, links, rtMade, young, parentSaved>>
    BY DEF RegInv, RegTyped, RestartsServer, Pristine
  <1>1. ASSUME NEW n \in RegMessages
        PROVE  /\ msg'[n] \in MsgRecs /\ msg'[n].rt = msg[n].rt /\ msg'[n].detached = msg[n].detached
               /\ msg'[n].given = msg[n].given
               /\ \/ msg'[n].at = msg[n].at /\ (Mine(n) => msg[n].at \notin {"posted", "enqueue"})
                  \/ Mine(n) /\ msg[n].at # "new" /\ msg'[n].at = "dropped"
    <2>1. msg[n] \in MsgRecs /\ "dropped" \in RegPlaces
      BY <1>0, RegNumbered DEF RegPlaces
    <2>2. msg'[n] = IF Mine(n) /\ msg[n].at \in {"posted", "enqueue", "queued"}
                    THEN [msg[n] EXCEPT !.at = "dropped"] ELSE msg[n]
      BY DEF RestartsServer
    <2>3. CASE Mine(n) /\ msg[n].at \in {"posted", "enqueue", "queued"}
      BY <2>1, <2>2, <2>3 DEF MsgRecs
    <2>4. CASE ~ (Mine(n) /\ msg[n].at \in {"posted", "enqueue", "queued"})
      BY <2>1, <2>2, <2>4
    <2> QED BY <2>3, <2>4
  <1>2. msg' \in [RegMessages -> MsgRecs]
    BY <1>1 DEF RestartsServer
  <1>3. rt \in RegRuntimes /\ 0 \in 0 .. MaxRegRuntimes
    BY <1>0, RegConstants DEF RegTypeOK, RegRuntimes, NoRuntime
  <1>4. RegTypeOK'
    <2>1. /\ recent' \in BOOLEAN /\ known' \in BOOLEAN /\ parentKnown' \in BOOLEAN /\ pendingUi' \in BOOLEAN
      BY DEF RestartsServer, Pristine
    <2> QED BY <1>0, <1>2, <1>3, <2>1, NothingQueued DEF RegTypeOK, NoRuntime, MsgRecs, Acts
  <1>5. Numbered'
    <2>1. rt' <= rtMade' /\ rt' \notin restarted' /\ \A r \in restarted' : r <= rtMade'
      BY <1>0, <1>3, RegNumbered DEF RegInv, RegTyped, Numbered, NoRuntime, RegRuntimes
    <2> QED BY <1>0, <1>1, <2>1, NothingQueued DEF RegInv, RegTyped, Numbered
  <1>6. QueueBehindBusy' /\ RunIsAnnounced' /\ RunIsSeen'
    BY <1>0 DEF QueueBehindBusy, RunIsAnnounced, RunIsSeen
  <1>7. ActionsHeld'
    BY <1>0, <1>1 DEF RegInv, ActionsHeld, InAction, Mine
  <1> QED BY <1>4, <1>5, <1>6, <1>7 DEF RegInv, RegTyped

LEMMA ArrivalKeeps ==
  ASSUME RegInv, NEW m \in RegMessages, RegArrives(m)
  PROVE  RegInv'
  <1> DEFINE place == IF parentKnown' THEN "chain" ELSE "parent"
  <1>0. /\ RegTypeOK /\ msg \in [RegMessages -> MsgRecs] /\ msg[m].at = "new"
        /\ UNCHANGED <<restarted, young, parentSaved, run, stream>>
        /\ calls' = Append(calls, m) /\ (links' = Append(links, m) \/ links' = links)
    BY RegNumbered DEF RegInv, RegTyped, RegArrives, Links
  <1>1. \/ /\ rt = NoRuntime /\ rtMade < MaxRegRuntimes /\ rtMade' = rtMade + 1 /\ rt' = rtMade'
           /\ Pristine(young)
        \/ /\ rt # NoRuntime /\ pendingUi' = FALSE
           /\ UNCHANGED <<rtMade, rt, recent, known, parentKnown, lifecycle, actions, items>>
    BY DEF RegArrives
  <1>2. /\ rt' # NoRuntime /\ rt' \in 0 .. MaxRegRuntimes /\ rtMade' \in 0 .. MaxRegRuntimes
        /\ rt' <= rtMade' /\ rtMade <= rtMade' /\ rt' \notin restarted
        /\ \A r \in restarted : r <= rtMade'
    <2>1. /\ rt \in Nat /\ rtMade \in Nat /\ restarted \subseteq Nat
          /\ rt \in 0 .. MaxRegRuntimes /\ rtMade \in 0 .. MaxRegRuntimes
      BY <1>0, RegNumbered DEF RegTypeOK, RegRuntimes
    <2>2. rt <= rtMade /\ rt \notin restarted /\ \A r \in restarted : r <= rtMade
      BY DEF RegInv, RegTyped, Numbered
    <2>3. CASE rt = NoRuntime /\ rtMade < MaxRegRuntimes /\ rtMade' = rtMade + 1 /\ rt' = rtMade'
      <3>1. rtMade' \in 0 .. MaxRegRuntimes /\ rt' # 0 /\ rtMade < rt'
        BY <2>1, <2>3, RegConstants
      <3> QED BY <2>1, <2>2, <2>3, <3>1 DEF NoRuntime
    <2>4. CASE rt # NoRuntime /\ rtMade' = rtMade /\ rt' = rt
      BY <2>1, <2>2, <2>4
    <2> QED BY <1>1, <2>3, <2>4
  <1>3. /\ msg' \in [RegMessages -> MsgRecs] /\ msg'[m].at \in {"chain", "parent"} /\ msg'[m].rt = rt'
        /\ msg'[m].detached = msg[m].detached /\ \A n \in RegMessages : n # m => msg'[n] = msg[n]
    <2>1. PICK given \in {FALSE, (m \in RegGiven)} :
            msg' = [msg EXCEPT ![m].at = place, ![m].rt = rt', ![m].given = given]
      BY Zenon DEF RegArrives
    <2>2. place \in RegPlaces /\ place \in {"chain", "parent"}
      BY DEF RegPlaces
    <2> HIDE DEF place
    <2>3. given \in BOOLEAN
      <3>1. (m \in RegGiven) \in BOOLEAN
        OBVIOUS
      <3>2. {FALSE, (m \in RegGiven)} \subseteq BOOLEAN
        BY <3>1
      <3> QED BY <2>1, <3>2
    <2> QED BY <1>0, <1>2, <2>1, <2>2, <2>3 DEF MsgRecs
  <1>4. /\ calls' \in Seq(RegMessages) /\ links' \in Seq(RegMessages)
    <2>1. calls \in Seq(RegMessages) /\ links \in Seq(RegMessages)
      BY <1>0, RegNumbered
    <2>2. Append(calls, m) \in Seq(RegMessages) /\ Append(links, m) \in Seq(RegMessages)
      BY <2>1, AppendProperties
    <2> QED BY <1>0, <2>2, <2>1
  <1>5. /\ actions' \in Seq(Acts) /\ items' \in Seq(RegMessages) /\ lifecycle' \in {"none", "busy", "idle"}
        /\ {recent', known', parentKnown', pendingUi'} \subseteq BOOLEAN
        /\ rt = NoRuntime => items' = <<>> /\ actions' = <<>>
    BY <1>0, <1>1, RegNumbered, NothingQueued DEF Pristine, RegTypeOK
  <1>6. RegTypeOK'
    BY <1>0, <1>2, <1>3, <1>4, <1>5 DEF RegTypeOK, MsgRecs, Acts
  <1>7. Numbered'
    <2> SUFFICES ASSUME NEW n \in RegMessages
                 PROVE  /\ msg'[n].rt <= rtMade'
                        /\ msg'[n].at # "new" => msg'[n].rt # NoRuntime
                        /\ msg'[n].at = "new" => ~ msg'[n].given
                        /\ msg'[n].at = "dispatching" => msg'[n].detached
                        /\ Among(n, items') => msg'[n].at # "new"
      BY <1>0, <1>2 DEF Numbered
    <2>1. CASE n = m
      BY <1>2, <1>3, <2>1
    <2>2. CASE n # m
      <3>1. Among(n, items') => Among(n, items)
        BY <1>1, <1>5, NothingQueued
      <3>2. msg[n].rt \in Nat /\ rtMade \in Nat /\ rtMade' \in Nat
        BY <1>0, <1>2, RegNumbered DEF MsgRecs
      <3> QED BY <1>2, <1>3, <2>2, <3>1, <3>2 DEF RegInv, RegTyped, Numbered
    <2> QED BY <2>1, <2>2
  <1>8. QueueBehindBusy'
    BY <1>1, <1>2, <1>5 DEF RegInv, QueueBehindBusy, SessionBusy
  <1>9. ActionsHeld'
    <2> SUFFICES ASSUME NEW n \in RegMessages, msg'[n].at \in InAction, msg'[n].rt \notin restarted
                 PROVE  /\ msg'[n].rt = rt' /\ Among(n, actions')
                        /\ msg'[n].at = "acting" => actions' # <<>> /\ Head(actions') = n
      BY <1>0 DEF ActionsHeld, Mine, Heads
    <2>1. n # m /\ msg'[n] = msg[n] /\ msg[n].at # "new"
      BY <1>3 DEF InAction
    <2>2. Mine(n) /\ rt # NoRuntime
      BY <2>1 DEF RegInv, RegTyped, ActionsHeld, Numbered, Mine
    <2>3. rt' = rt /\ actions' = actions
      BY <1>1, <2>2
    <2> QED BY <2>1, <2>2, <2>3 DEF RegInv, ActionsHeld, Mine, Heads
  <1>10. RunIsAnnounced'
    <2>1. Superseded(actions) => Superseded(actions')
      BY <1>1, <1>5, NothingQueued
    <2> QED BY <1>0, <2>1 DEF RegInv, RunIsAnnounced, Superseded
  <1>11. RunIsSeen'
    <2> SUFFICES ASSUME NEW n \in run
                 PROVE  /\ msg'[n].at # "new"
                        /\ msg'[n].rt \notin restarted /\ ~ msg'[n].detached =>
                             /\ msg'[n].rt = rt' /\ known'
                             /\ recent' \/ lifecycle' = "busy"
                             /\ stream = <<>> /\ lifecycle' # "busy" => Among("busy", actions')
      BY <1>0 DEF RunIsSeen, Excepted, Mine
    <2>1. n # m /\ msg'[n] = msg[n] /\ msg[n].at # "new"
      BY <1>0, <1>3, RegNumbered DEF RegInv, RunIsSeen
    <2>2. ASSUME ~ Excepted(n)
          PROVE  rt # NoRuntime /\ Mine(n)
      BY <1>0, <2>1, <2>2, RegNumbered DEF RegInv, RegTyped, RunIsSeen, Mine, Numbered
    <2>3. CASE ~ Excepted(n)
      <3>1. UNCHANGED <<rt, recent, known, lifecycle, actions>>
        BY <1>1, <2>2, <2>3
      <3> QED BY <2>1, <2>2, <2>3, <3>1 DEF RegInv, RunIsSeen, Mine
    <2>4. CASE Excepted(n)
      BY <2>1, <2>4 DEF Excepted
    <2> QED BY <2>3, <2>4
  <1> QED BY <1>6, <1>7, <1>8, <1>9, <1>10, <1>11 DEF RegInv, RegTyped

-----------------------------------------------------------------------------

LEMMA RegInitHolds ==
  ASSUME RegInit
  PROVE  RegInv
  <1>1. RegTypeOK
    <2>1. "new" \in RegPlaces /\ 0 \in 0 .. MaxRegRuntimes
      BY RegConstants DEF RegPlaces
    <2> QED BY <2>1, NothingQueued DEF RegInit, RegTypeOK, NoRuntime, Acts
  <1>2. \A m \in RegMessages : msg[m].at = "new" /\ msg[m].rt = 0 /\ ~ msg[m].given
    BY DEF RegInit, NoRuntime
  <1> QED BY <1>1, <1>2, NothingQueued
          DEF RegInit, RegInv, RegTyped, Numbered, QueueBehindBusy, ActionsHeld, InAction, RunIsAnnounced,
              RunIsSeen, NoRuntime

LEMMA RegStepHolds ==
  ASSUME RegInv, [RegNext]_regVars
  PROVE  RegInv'
  <1>1. CASE UNCHANGED regVars
    BY <1>1 DEF regVars, regState, RegInv, RegTyped, RegTypeOK, Numbered, QueueBehindBusy, SessionBusy,
                ActionsHeld, Mine, Heads, RunIsAnnounced, RunIsSeen, Excepted
  <1>2. CASE RegNext
    BY <1>2, IngressKeeps, SubmitKeeps, DispatchKeeps, EnqueueKeeps, EventKeeps, DeliveryKeeps, QuietKeeps,
       SweepKeeps, RestartKeeps, ArrivalKeeps
       DEF RegNext, Ingress
  <1> QED BY <1>1, <1>2

LEMMA RegInvariance == RegSpec => []RegInv
  BY RegInitHolds, RegStepHolds, PTL DEF RegSpec

\* The messages, the runtime and what it knows keep their types.
THEOREM RegTypeCorrect == RegSpec => []RegTypeOK
  <1>1. RegInv => RegTypeOK
    BY DEF RegInv, RegTyped
  <1> QED BY <1>1, RegInvariance, PTL

\* disposeInactiveRuntimes never takes the runtime of a run: while a message that its
\* runtime submitted is being answered, the thread has a runtime, however long ago the
\* latest event was and in whichever order events and messages came.
THEOREM RunsAreWatched == RegSpec => []RegRunsAreWatched
  <1>1. RegInv => RegRunsAreWatched
    <2> SUFFICES ASSUME RegInv, NEW m \in run
                 PROVE  rt # NoRuntime \/ msg[m].rt \in restarted \/ msg[m].detached
      BY DEF RegRunsAreWatched
    <2>1. m \in RegMessages /\ msg[m].at # "new"
      BY RegNumbered DEF RegInv, RegTyped, RunIsSeen
    <2> QED BY <2>1 DEF RegInv, RegTyped, RunIsSeen, Numbered, Excepted, Mine
  <1> QED BY <1>1, RegInvariance, PTL

-----------------------------------------------------------------------------
(* The order of arrival *)

\* What most steps do to a message: where it is changes only behind the chain.
Onward(m) ==
  /\ msg'[m].rt = msg[m].rt /\ msg'[m].given = msg[m].given
  /\ \/ msg'[m].at = msg[m].at
     \/ /\ msg[m].at \notin Unlinked /\ msg'[m].at \notin Unlinked
        /\ msg'[m].at \in Ahead => msg[m].at \in Ahead
        /\ msg'[m].at \in Passed => msg[m].at \in Passed

LEMMA OnwardKeeps ==
  ASSUME OrderInv, \A m \in RegMessages : Onward(m),
         UNCHANGED <<calls, links, parentSaved>>, parentKnown' => parentKnown,
         parentKnown \in BOOLEAN, parentKnown' \in BOOLEAN,
         \A m \in RegMessages : Among(m, items') => Among(m, items) \/ msg[m].at \notin Unlinked
  PROVE  OrderInv'
  <1>1. NoParent' => NoParent
    BY DEF NoParent, Onward
  <1>2. \A m \in RegMessages : /\ msg'[m].at \in Unlinked <=> msg[m].at \in Unlinked
                               /\ msg'[m].at = "new" <=> msg[m].at = "new"
                               /\ msg'[m].at = "writing" <=> msg[m].at = "writing"
    BY DEF Onward, Unlinked
  <1>3. Linked'
    BY <1>2 DEF OrderInv, Linked
  <1>4. RegInOrder'
    <2> SUFFICES ASSUME NoParent'
                 PROVE  /\ ~ parentKnown' /\ \A m \in RegMessages : msg'[m].at # "writing"
                        /\ \A n, m \in RegMessages : Before(n, m, calls) =>
                             /\ msg'[m].at \notin Unlinked => msg'[n].at \notin Unlinked /\ Before(n, m, links)
                             /\ msg'[m].at \in Passed /\ msg'[n].rt = msg'[m].rt => msg'[n].at \notin Ahead
      BY DEF RegInOrder
    <2>1. /\ ~ parentKnown /\ \A m \in RegMessages : msg[m].at # "writing"
          /\ \A n, m \in RegMessages : Before(n, m, calls) =>
               /\ msg[m].at \notin Unlinked => msg[n].at \notin Unlinked /\ Before(n, m, links)
               /\ msg[m].at \in Passed /\ msg[n].rt = msg[m].rt => msg[n].at \notin Ahead
      BY <1>1 DEF OrderInv, RegInOrder
    <2>2. \A m \in RegMessages : /\ msg'[m].rt = msg[m].rt
                                 /\ msg'[m].at \in Ahead => msg[m].at \in Ahead
                                 /\ msg'[m].at \in Passed => msg[m].at \in Passed
      BY DEF Onward
    <2> QED BY <1>2, <2>1, <2>2
  <1> QED BY <1>3, <1>4 DEF OrderInv

LEMMA PlacesOnTheWay ==
  /\ Passed \subseteq Ahead /\ Ahead \cap Unlinked = {} /\ InAction \subseteq Passed
  BY DEF Passed, Ahead, Unlinked, InAction

LEMMA DrainsOnward ==
  ASSUME RegTypeOK, NEW q \in Seq(RegMessages), NEW e \in {"none", "busy", "idle"}, Drains(q, e),
         \A n \in RegMessages : Among(n, q) => msg[n].at \notin Unlinked
  PROVE  /\ \A n \in RegMessages : Onward(n)
         /\ \A n \in RegMessages : Among(n, items') => Among(n, q)
  BY RegDrainMoves DEF Onward, Unlinked, Ahead, Passed

\* Every step that neither brings a message in nor takes it to the chain or past it
LEMMA BehindTheChainKeeps ==
  ASSUME RegInv, OrderInv,
         \/ \E m \in RegMessages : \/ Preprocessed(m) \/ SubmitStarts(m) \/ SubmitAccepted(m)
                                   \/ Enqueued(m) \/ DispatchAccepted(m)
         \/ \E e \in {"busy", "idle"} : EventHandled(e)
         \/ RegRunEnds \/ RegDelivers \/ OtherSessionsEvent \/ UiToggles \/ DayPasses
         \/ Sweeps \/ RestartsServer
  PROVE  OrderInv'
  <1>0. /\ RegTypeOK /\ items \in Seq(RegMessages) /\ lifecycle \in {"none", "busy", "idle"}
        /\ parentKnown \in BOOLEAN
        /\ \A n \in RegMessages : Among(n, items) => msg[n].at \notin Unlinked
    BY RegNumbered DEF RegInv, RegTyped, RegTypeOK, OrderInv, Linked, Among
  <1>1. /\ UNCHANGED <<calls, links, parentSaved>>
        /\ parentKnown' \in {parentKnown, FALSE}
    BY DEF Preprocessed, SubmitStarts, SubmitAccepted, Enqueued, DispatchAccepted, EventHandled, RegRunEnds,
           RegDelivers, OtherSessionsEvent, UiToggles, DayPasses, Sweeps, RestartsServer, Pristine, regState
  <1>2. ASSUME NEW m \in RegMessages,
               Preprocessed(m) \/ SubmitStarts(m) \/ SubmitAccepted(m) \/ DispatchAccepted(m)
        PROVE  (\A n \in RegMessages : Onward(n)) /\ items' = items
    <2>1. PICK place \in RegPlaces \ Unlinked :
            /\ Moves(m, place) /\ msg[m].at \notin Unlinked /\ items' = items
            /\ place \in Ahead => msg[m].at \in Passed
      BY <1>2 DEF Preprocessed, SubmitStarts, SubmitAccepted, DispatchAccepted, RegPlaces, Unlinked, Ahead,
                  Passed, regState
    <2> QED BY <1>0, <2>1, MovedTo, PlacesOnTheWay DEF Onward
  <1>3. ASSUME NEW m \in RegMessages, Enqueued(m)
        PROVE  /\ \A n \in RegMessages : Onward(n)
               /\ \A n \in RegMessages : Among(n, items') => Among(n, items) \/ msg[n].at \notin Unlinked
    <2>1. Drains(Append(items, m), lifecycle) /\ msg[m].at \notin Unlinked
      BY <1>3 DEF Enqueued, Unlinked
    <2>2. Append(items, m) \in Seq(RegMessages) /\ \A n : Among(n, Append(items, m)) <=> Among(n, items) \/ n = m
      BY <1>0, AmongAppend, AppendProperties
    <2> QED BY <1>0, <2>1, <2>2, DrainsOnward
  <1>4. ASSUME NEW e \in {"busy", "idle"}, EventHandled(e)
        PROVE  /\ \A n \in RegMessages : Onward(n)
               /\ \A n \in RegMessages : Among(n, items') => Among(n, items)
    <2>1. CASE e = "idle"
      BY <1>0, <1>4, <2>1, DrainsOnward DEF EventHandled
    <2>2. CASE e # "idle"
      BY <1>4, <2>2 DEF EventHandled, Onward
    <2> QED BY <2>1, <2>2
  <1>5. ASSUME RegRunEnds \/ RegDelivers \/ OtherSessionsEvent \/ UiToggles \/ DayPasses \/ Sweeps
        PROVE  /\ \A n \in RegMessages : Onward(n)
               /\ \A n \in RegMessages : Among(n, items') => Among(n, items)
    <2>1. msg' = msg /\ (items' = items \/ items' = <<>>)
      BY <1>5 DEF RegRunEnds, RegDelivers, OtherSessionsEvent, UiToggles, DayPasses, Sweeps, Pristine, regState
    <2> QED BY <2>1, NothingQueued DEF Onward
  <1>6. ASSUME RestartsServer
        PROVE  /\ \A n \in RegMessages : Onward(n)
               /\ \A n \in RegMessages : Among(n, items') => Among(n, items)
    <2>1. items' = <<>>
      BY <1>6 DEF RestartsServer, Pristine
    <2>2. ASSUME NEW n \in RegMessages
          PROVE  Onward(n)
      <3>1. msg[n] \in MsgRecs
        BY <1>0, RegNumbered
      <3>2. msg'[n] = IF Mine(n) /\ msg[n].at \in {"posted", "enqueue", "queued"}
                      THEN [msg[n] EXCEPT !.at = "dropped"] ELSE msg[n]
        BY <1>6 DEF RestartsServer
      <3>3. CASE Mine(n) /\ msg[n].at \in {"posted", "enqueue", "queued"}
        BY <3>1, <3>2, <3>3 DEF MsgRecs, Onward, Unlinked, Ahead, Passed
      <3>4. CASE ~ (Mine(n) /\ msg[n].at \in {"posted", "enqueue", "queued"})
        BY <3>2, <3>4 DEF Onward
      <3> QED BY <3>3, <3>4
    <2> QED BY <2>1, <2>2, NothingQueued
  <1>7. parentKnown' \in BOOLEAN /\ (parentKnown' => parentKnown)
    <2>1. CASE parentKnown' = parentKnown
      BY <1>0, <2>1
    <2>2. CASE parentKnown' = FALSE
      BY <2>2
    <2> QED BY <1>1, <2>1, <2>2
  <1>8. /\ \A n \in RegMessages : Onward(n)
        /\ \A n \in RegMessages : Among(n, items') => Among(n, items) \/ msg[n].at \notin Unlinked
    BY <1>2, <1>3, <1>4, <1>5, <1>6
  <1> QED BY <1>0, <1>1, <1>7, <1>8, OnwardKeeps

\* A message is called for, and linked to the chain at once when nothing is awaited.
LEMMA ArrivalInOrder ==
  ASSUME RegInv, OrderInv, NEW m \in RegMessages, RegArrives(m)
  PROVE  OrderInv'
  <1>0. /\ RegTypeOK /\ msg \in [RegMessages -> MsgRecs] /\ calls \in Seq(RegMessages)
        /\ links \in Seq(RegMessages) /\ msg[m].at = "new" /\ ~ Among(m, calls)
        /\ \A n \in RegMessages : ~ Before(n, m, calls) /\ ~ Before(m, n, calls)
    <2>1. /\ RegTypeOK /\ msg \in [RegMessages -> MsgRecs] /\ calls \in Seq(RegMessages)
          /\ links \in Seq(RegMessages) /\ msg[m].at = "new"
      BY RegNumbered DEF RegInv, RegTyped, RegArrives
    <2>2. ~ Among(m, calls)
      BY <2>1 DEF OrderInv, Linked
    <2> QED BY <2>1, <2>2 DEF Among, Before
  <1>1. /\ calls' = Append(calls, m) /\ parentSaved' = parentSaved
        /\ links' = IF parentKnown' THEN Append(links, m) ELSE links
        /\ items' = items \/ items' = <<>>
        /\ parentKnown' \in {parentKnown, FALSE}
    BY DEF RegArrives, Pristine, Links
  <1>2. PICK given \in {FALSE, (m \in RegGiven)} :
          msg' = [msg EXCEPT ![m].at = IF parentKnown' THEN "chain" ELSE "parent",
                             ![m].rt = rt', ![m].given = given]
    BY Zenon DEF RegArrives
  <1>3. /\ \A n \in RegMessages : n # m => msg'[n] = msg[n]
        /\ msg'[m].at = IF parentKnown' THEN "chain" ELSE "parent"
    BY <1>0, <1>2 DEF MsgRecs
  <1>4. /\ \A n \in RegMessages : Among(n, calls') <=> Among(n, calls) \/ n = m
        /\ \A n, k \in RegMessages : Before(n, k, calls') <=> Before(n, k, calls) \/ (k = m /\ Among(n, calls))
        /\ \A n \in RegMessages : Among(n, links) => Among(n, links')
        /\ \A n, k \in RegMessages : Before(n, k, links) => Before(n, k, links')
        /\ parentKnown' => Among(m, links')
    BY <1>0, <1>1, AmongAppend, BeforeAppend
  <1>5. Linked'
    <2> SUFFICES ASSUME NEW n \in RegMessages
                 PROVE  /\ msg'[n].at # "new" <=> Among(n, calls')
                        /\ msg'[n].at \notin Unlinked => Among(n, links')
                        /\ Among(n, items') => msg'[n].at \notin Unlinked
                        /\ ~ Before(n, n, calls')
      BY DEF Linked
    <2>1. ~ Before(n, n, calls')
      BY <1>0, <1>4 DEF OrderInv, Linked
    <2>2. Among(n, items') => Among(n, items)
      BY <1>1, NothingQueued
    <2>3. CASE n = m
      BY <1>0, <1>3, <1>4, <2>1, <2>2, <2>3 DEF OrderInv, Linked, Unlinked
    <2>4. CASE n # m
      BY <1>3, <1>4, <2>1, <2>2, <2>4 DEF OrderInv, Linked
    <2> QED BY <2>3, <2>4
  <1>6. RegInOrder'
    <2> SUFFICES ASSUME NoParent'
                 PROVE  /\ ~ parentKnown' /\ \A n \in RegMessages : msg'[n].at # "writing"
                        /\ \A n, k \in RegMessages : Before(n, k, calls') =>
                             /\ msg'[k].at \notin Unlinked => msg'[n].at \notin Unlinked /\ Before(n, k, links')
                             /\ msg'[k].at \in Passed /\ msg'[n].rt = msg'[k].rt => msg'[n].at \notin Ahead
      BY DEF RegInOrder
    <2>1. NoParent
      <3>1. \A n \in RegMessages : n # m => ~ msg[n].given
        BY <1>3 DEF NoParent
      <3>2. ~ parentSaved
        BY <1>1 DEF NoParent
      <3>3. ~ msg[m].given
        BY <1>0 DEF RegInv, RegTyped, Numbered
      <3> QED BY <3>1, <3>2, <3>3 DEF NoParent
    <2>2. /\ ~ parentKnown /\ \A n \in RegMessages : msg[n].at # "writing"
          /\ \A n, k \in RegMessages : Before(n, k, calls) =>
               /\ msg[k].at \notin Unlinked => msg[n].at \notin Unlinked /\ Before(n, k, links)
               /\ msg[k].at \in Passed /\ msg[n].rt = msg[k].rt => msg[n].at \notin Ahead
      BY <2>1 DEF OrderInv, RegInOrder
    <2>3. ~ parentKnown'
      BY <1>1, <2>2
    <2>4. msg'[m].at = "parent" /\ "parent" \in Unlinked /\ "parent" \notin Passed
      BY <1>3, <2>3 DEF Unlinked, Passed
    <2>5. ASSUME NEW n \in RegMessages, NEW k \in RegMessages, Before(n, k, calls')
          PROVE  /\ msg'[k].at \notin Unlinked => msg'[n].at \notin Unlinked /\ Before(n, k, links')
                 /\ msg'[k].at \in Passed /\ msg'[n].rt = msg'[k].rt => msg'[n].at \notin Ahead
      <3>1. CASE k = m
        BY <2>4, <3>1
      <3>2. CASE k # m
        BY <1>0, <1>3, <1>4, <2>2, <2>5, <3>2
      <3> QED BY <3>1, <3>2
    <2> QED BY <1>3, <2>2, <2>3, <2>4, <2>5
  <1> QED BY <1>5, <1>6 DEF OrderInv

\* The read of the stored parent returns: who called before has been linked already.
LEMMA ParentInOrder ==
  ASSUME RegInv, OrderInv, NEW m \in RegMessages, ParentRead(m) \/ ParentWritten(m)
  PROVE  OrderInv'
  <1>0. /\ RegTypeOK /\ msg \in [RegMessages -> MsgRecs] /\ links \in Seq(RegMessages)
        /\ msg[m].at \in {"parent", "writing"}
        /\ parentSaved \in BOOLEAN /\ msg[m].given \in BOOLEAN /\ parentKnown \in BOOLEAN
    <2>1. RegTypeOK /\ msg \in [RegMessages -> MsgRecs] /\ links \in Seq(RegMessages)
      BY RegNumbered DEF RegInv, RegTyped
    <2>2. msg[m].at \in {"parent", "writing"}
      BY DEF ParentRead, ParentWritten
    <2> QED BY <2>1, <2>2 DEF RegTypeOK
  <1>1. calls' = calls /\ items' = items
    BY DEF ParentRead, ParentWritten, regState
  <1>2. PICK place \in {"chain", "writing"} :
          /\ Moves(m, place)
          /\ links' = IF place = "chain" THEN Append(links, m) ELSE links
    <2>1. CASE ParentRead(m)
      BY <2>1 DEF ParentRead, Links
    <2>2. CASE ParentWritten(m)
      BY <2>2 DEF ParentWritten, Links
    <2> QED BY <2>1, <2>2
  <1>3. /\ msg'[m].at = place
        /\ \A n \in RegMessages : /\ n # m => msg'[n] = msg[n]
                                  /\ msg'[n].rt = msg[n].rt /\ msg'[n].given = msg[n].given
    <2>1. place \in RegPlaces
      BY DEF RegPlaces
    <2> QED BY <1>0, <1>2, <2>1, MovedTo
  <1>4. /\ \A n \in RegMessages : Among(n, links) => Among(n, links')
        /\ \A n, k \in RegMessages : Before(n, k, links) => Before(n, k, links')
        /\ place = "chain" => /\ Among(m, links')
                              /\ \A n \in RegMessages : Among(n, links) => Before(n, m, links')
    BY <1>0, <1>2, AmongAppend, BeforeAppend
  <1>5. Linked'
    <2> SUFFICES ASSUME NEW n \in RegMessages
                 PROVE  /\ msg'[n].at # "new" <=> Among(n, calls)
                        /\ msg'[n].at \notin Unlinked => Among(n, links')
                        /\ Among(n, items) => msg'[n].at \notin Unlinked
                        /\ ~ Before(n, n, calls)
      BY <1>1 DEF Linked
    <2>1. CASE n = m
      BY <1>0, <1>3, <1>4, <2>1 DEF OrderInv, Linked, Unlinked
    <2>2. CASE n # m
      BY <1>3, <1>4, <2>2 DEF OrderInv, Linked
    <2> QED BY <2>1, <2>2
  <1>6. RegInOrder'
    <2> SUFFICES ASSUME NoParent'
                 PROVE  /\ ~ parentKnown' /\ \A n \in RegMessages : msg'[n].at # "writing"
                        /\ \A n, k \in RegMessages : Before(n, k, calls) =>
                             /\ msg'[k].at \notin Unlinked => msg'[n].at \notin Unlinked /\ Before(n, k, links')
                             /\ msg'[k].at \in Passed /\ msg'[n].rt = msg'[k].rt => msg'[n].at \notin Ahead
      BY <1>1 DEF RegInOrder
    <2>1. NoParent /\ ~ parentSaved /\ ~ msg[m].given
      <3>1. ~ parentSaved
        <4>1. ~ parentSaved'
          BY DEF NoParent
        <4> QED BY <4>1 DEF ParentRead, ParentWritten
      <3>2. \A n \in RegMessages : ~ msg[n].given
        BY <1>3 DEF NoParent
      <3> QED BY <3>1, <3>2 DEF NoParent
    <2>2. /\ ~ parentKnown /\ \A n \in RegMessages : msg[n].at # "writing"
          /\ \A n, k \in RegMessages : Before(n, k, calls) =>
               /\ msg[k].at \notin Unlinked => msg[n].at \notin Unlinked /\ Before(n, k, links)
               /\ msg[k].at \in Passed /\ msg[n].rt = msg[k].rt => msg[n].at \notin Ahead
      BY <2>1 DEF OrderInv, RegInOrder
    <2>3. ParentRead(m) /\ place = "chain"
      <3>1. ParentRead(m)
        BY <2>2 DEF ParentWritten
      <3>2. Moves(m, "chain")
        BY <2>1, <3>1 DEF ParentRead
      <3>3. msg'[m].at = "chain"
        BY <1>0, <3>2, MovedTo DEF RegPlaces
      <3> QED BY <1>3, <3>1, <3>3
    <2>4. ~ parentKnown'
      BY <2>1, <2>2, <2>3 DEF ParentRead
    <2>5. ASSUME NEW n \in RegMessages, Before(n, m, calls)
          PROVE  n # m /\ msg[n].at \notin Unlinked /\ Among(n, links)
      <3>1. n # m /\ msg[n].at # "new"
        BY <2>5 DEF OrderInv, Linked, Among, Before
      <3>2. m \in Later(n)
        BY <2>5 DEF Later, Before
      <3>3. msg[n].at # "parent"
        BY <2>3, <3>2 DEF ParentRead
      <3> QED BY <2>2, <3>1, <3>3 DEF OrderInv, Linked, Unlinked
    <2>6. ASSUME NEW n \in RegMessages, NEW k \in RegMessages, Before(n, k, calls)
          PROVE  /\ msg'[k].at \notin Unlinked => msg'[n].at \notin Unlinked /\ Before(n, k, links')
                 /\ msg'[k].at \in Passed /\ msg'[n].rt = msg'[k].rt => msg'[n].at \notin Ahead
      <3>1. CASE k = m
        BY <1>3, <1>4, <2>3, <2>5, <2>6, <3>1 DEF Passed, Unlinked
      <3>2. CASE k # m /\ n # m
        BY <1>3, <1>4, <2>2, <2>6, <3>2
      <3>3. CASE k # m /\ n = m
        \* m was at "parent", so who called after it is not linked yet.
        <4>1. msg[k].at \in Unlinked /\ msg'[k] = msg[k]
          BY <1>0, <1>3, <2>2, <2>6, <3>3 DEF Unlinked
        <4> QED BY <4>1, PlacesOnTheWay
      <3> QED BY <3>1, <3>2, <3>3
    <2> QED BY <1>3, <2>2, <2>3, <2>4, <2>6
  <1> QED BY <1>5, <1>6 DEF OrderInv

\* The chain reaches a message when the links of its runtime before it have ended.
LEMMA ChainInOrder ==
  ASSUME RegInv, OrderInv, NEW m \in RegMessages, PreprocessStarts(m)
  PROVE  OrderInv'
  <1>0. RegTypeOK /\ links \in Seq(RegMessages) /\ msg[m].at = "chain"
    BY RegNumbered DEF RegInv, RegTyped, PreprocessStarts
  <1>1. /\ msg'[m].at = "pre"
        /\ \A n \in RegMessages : /\ n # m => msg'[n] = msg[n]
                                  /\ msg'[n].rt = msg[n].rt /\ msg'[n].given = msg[n].given
        /\ UNCHANGED <<calls, links, items, parentKnown, parentSaved>>
    BY <1>0, MovedTo DEF PreprocessStarts, RegPlaces, regState
  <1>2. \A n \in RegMessages : Before(n, m, links) /\ msg[n].rt = msg[m].rt => msg[n].at \notin Ahead
    BY DEF PreprocessStarts, LinkReached, Before, Ahead
  <1>3. Linked'
    BY <1>0, <1>1 DEF OrderInv, Linked, Unlinked
  <1>4. RegInOrder'
    <2> SUFFICES ASSUME NoParent'
                 PROVE  /\ ~ parentKnown /\ \A n \in RegMessages : msg'[n].at # "writing"
                        /\ \A n, k \in RegMessages : Before(n, k, calls) =>
                             /\ msg'[k].at \notin Unlinked => msg'[n].at \notin Unlinked /\ Before(n, k, links)
                             /\ msg'[k].at \in Passed /\ msg'[n].rt = msg'[k].rt => msg'[n].at \notin Ahead
      BY <1>1 DEF RegInOrder
    <2>1. NoParent
      BY <1>1 DEF NoParent
    <2>2. /\ ~ parentKnown /\ \A n \in RegMessages : msg[n].at # "writing"
          /\ \A n, k \in RegMessages : Before(n, k, calls) =>
               /\ msg[k].at \notin Unlinked => msg[n].at \notin Unlinked /\ Before(n, k, links)
               /\ msg[k].at \in Passed /\ msg[n].rt = msg[k].rt => msg[n].at \notin Ahead
      BY <2>1 DEF OrderInv, RegInOrder
    <2>3. ASSUME NEW n \in RegMessages, NEW k \in RegMessages, Before(n, k, calls)
          PROVE  /\ msg'[k].at \notin Unlinked => msg'[n].at \notin Unlinked /\ Before(n, k, links)
                 /\ msg'[k].at \in Passed /\ msg'[n].rt = msg'[k].rt => msg'[n].at \notin Ahead
      <3>1. n # k
        BY <2>3 DEF OrderInv, Linked
      <3>2. CASE k = m
        BY <1>0, <1>1, <1>2, <2>2, <2>3, <3>1, <3>2 DEF Unlinked
      <3>3. CASE k # m /\ n # m
        BY <1>1, <2>2, <2>3, <3>3
      <3>4. CASE k # m /\ n = m
        BY <1>0, <1>1, <2>2, <2>3, <3>4 DEF Ahead, Unlinked
      <3> QED BY <3>2, <3>3, <3>4
    <2> QED BY <1>1, <2>2, <2>3
  <1> QED BY <1>3, <1>4 DEF OrderInv

LEMMA OrderInvariance == RegSpec => []OrderInv
  <1>1. RegInit => OrderInv
    <2> SUFFICES ASSUME RegInit PROVE OrderInv
      OBVIOUS
    <2>1. /\ calls = <<>> /\ links = <<>> /\ items = <<>> /\ ~ parentKnown
          /\ \A m \in RegMessages : msg[m].at = "new"
      BY DEF RegInit
    <2>2. \A n, m : ~ Before(n, m, <<>>)
      BY DEF Before
    <2> QED BY <2>1, <2>2, NothingQueued DEF OrderInv, Linked, RegInOrder, Unlinked
  <1>2. RegInv /\ OrderInv /\ [RegNext]_regVars => OrderInv'
    <2> SUFFICES ASSUME RegInv, OrderInv, [RegNext]_regVars PROVE OrderInv'
      OBVIOUS
    <2>1. CASE UNCHANGED regVars
      BY <2>1 DEF regVars, regState, OrderInv, Linked, RegInOrder, NoParent
    <2>2. CASE RegNext
      BY <2>2, ArrivalInOrder, ParentInOrder, ChainInOrder, BehindTheChainKeeps DEF RegNext, Ingress
    <2> QED BY <2>1, <2>2
  <1> QED BY <1>1, <1>2, RegInvariance, PTL DEF RegSpec

\* The step of RegArrivalOrder, as an action
OvertakesNobody ==
  \A m, n \in RegMessages :
    (/\ NoParent /\ msg[m].at = "acting" /\ msg'[m].at = "sent"
     /\ m \in Later(n) /\ msg[n].rt = msg[m].rt)
      => ~InHand(n) \/ msg[n].detached

\* preprocessChain keeps the order of the messages to a thread without a parent session:
\* when one of them is submitted, those that called enqueueIncoming of the same runtime
\* before it are not on their way any more.
THEOREM ArrivalOrder == RegSpec => RegArrivalOrder
  <1>1. RegInv /\ OrderInv => OvertakesNobody
    <2> SUFFICES ASSUME RegInv, OrderInv, NEW m \in RegMessages, NEW n \in RegMessages,
                        NoParent, msg[m].at = "acting", m \in Later(n), msg[n].rt = msg[m].rt
                 PROVE  ~InHand(n) \/ msg[n].detached
      BY DEF OvertakesNobody
    <2>1. Before(n, m, calls)
      BY DEF Later, Before
    <2>2. msg[n].at \notin Unlinked /\ msg[n].at \notin Ahead
      BY <2>1 DEF OrderInv, RegInOrder, Unlinked, Passed
    <2>3. msg[n].at = "dispatching" => msg[n].detached
      BY DEF RegInv, RegTyped, Numbered
    <2> QED BY <2>2, <2>3 DEF InHand, Unlinked, Ahead
  <1>2. RegArrivalOrder <=> [][OvertakesNobody]_regVars
    BY DEF RegArrivalOrder, OvertakesNobody
  <1> QED BY <1>1, <1>2, RegInvariance, OrderInvariance, PTL

-----------------------------------------------------------------------------
(* The buffer's footers *)

Infos == [tokens : 0 .. MaxTokens, outcome : Outcomes] \cup {NotBegun}
Awaited == [answer : AnswerIds, first : BOOLEAN, disturbed : BOOLEAN]

BufTyped ==
  /\ buffer \in Seq(Entries) /\ Len(buffer) <= BufMax /\ userTurn \in 0 .. MaxTurns
  /\ answers \in [AnswerIds -> Infos] /\ footers \in [AnswerIds -> Nat]
  /\ awaiting \subseteq Awaited /\ \A v, w \in awaiting : v = w

\* The latest user message is in the buffer, and nothing is of a later turn.
TurnSeen ==
  /\ userTurn # 0 /\ userTurn \notin evicted =>
       \E i \in DOMAIN buffer : buffer[i].type = "user" /\ buffer[i].turn = userTurn
  /\ \A i \in DOMAIN buffer : buffer[i].turn <= userTurn
  /\ \A a \in AnswerIds : answers[a].outcome # "none" => a[1] <= userTurn

Ended(a) == answers[a].outcome \notin {"none", "open"}
Completed(a) == CompletedBefore(buffer, a, Len(buffer))
CompletedEarlier(a) == CompletedBefore(buffer, a, Len(buffer) - 1)

\* An answer that ended has its completion in the buffer; one that did not has none,
\* and nothing was posted for it.
CompletionKept ==
  \A a \in AnswerIds :
    IF Ended(a) THEN a[1] \in evicted \/ Completed(a)
    ELSE ~ Completed(a) /\ footers[a] = 0 /\ a \notin due

\* While parts are flushed: the first completion is the last entry until a marker comes
\* behind it; after that, and on a repetition, an earlier entry is found.
FlushKnows ==
  \A w \in awaiting :
    /\ answers[w.answer].outcome = "stop"
    /\ IF w.first /\ ~ w.disturbed
       THEN ~ CompletedEarlier(w.answer) /\ footers[w.answer] = 0
       ELSE w.answer[1] \in evicted \/ CompletedEarlier(w.answer)

BufInv == BufTyped /\ TurnSeen /\ CompletionKept /\ FlushKnows /\ BufFooterOnce

LEMMA EntryFits ==
  /\ \A type \in {"user", "idle", "other"} : /\ Plain(type) \in Entries /\ Plain(type).turn = 0
                                             /\ Plain(type).type = type
  /\ \A u \in Turns : /\ UserEntry(u) \in Entries /\ UserEntry(u).turn = u
                      /\ UserEntry(u).type = "user"
  /\ \A a \in AnswerIds, info \in [tokens : 0 .. MaxTokens, outcome : Outcomes] :
       /\ AnswerEntry(a, info) \in Entries /\ AnswerEntry(a, info).turn = a[1]
       /\ AnswerEntry(a, info).type = "assistant" /\ AnswerEntry(a, info).nr = a[2]
       /\ AnswerEntry(a, info).completed = (info.outcome # "open")
  <1>1. 0 \in 0 .. MaxTurns /\ 0 \in 0 .. MaxAnswers /\ 0 \in 0 .. MaxTokens
    BY BufAssumption
  <1>2. /\ \A u \in Turns : u \in 0 .. MaxTurns
        /\ \A a \in AnswerIds : a[1] \in 0 .. MaxTurns /\ a[2] \in 0 .. MaxAnswers
    BY BufAssumption DEF Turns, AnswerIds
  <1>3. \A type \in {"user", "idle", "other"} : /\ Plain(type) \in Entries /\ Plain(type).turn = 0
                                                /\ Plain(type).type = type
    BY <1>1 DEF Plain, Entries
  <1>4. \A u \in Turns : /\ UserEntry(u) \in Entries /\ UserEntry(u).turn = u
                         /\ UserEntry(u).type = "user"
    BY <1>1, <1>2 DEF UserEntry, Plain, Entries
  <1>5. ASSUME NEW a \in AnswerIds, NEW info \in [tokens : 0 .. MaxTokens, outcome : Outcomes]
        PROVE  /\ AnswerEntry(a, info) \in Entries /\ AnswerEntry(a, info).turn = a[1]
               /\ AnswerEntry(a, info).type = "assistant" /\ AnswerEntry(a, info).nr = a[2]
               /\ AnswerEntry(a, info).completed = (info.outcome # "open")
    BY <1>2 DEF AnswerEntry, Entries
  <1> QED BY <1>3, <1>4, <1>5

LEMMA IdsDiffer ==
  /\ \A a, b \in AnswerIds : a[1] = b[1] /\ a[2] = b[2] => a = b
  /\ \A a \in AnswerIds : a[1] \in Turns /\ a[1] # 0
  BY BufAssumption DEF AnswerIds, Turns

\* What appendEventToBuffer leaves: the new entry last, and of the others those whose
\* turn is not evicted
LEMMA BufferedLeaves ==
  ASSUME BufTyped, NEW e \in Entries, Buffered(e)
  PROVE  /\ buffer' \in Seq(Entries) /\ Len(buffer') \in Nat /\ Len(buffer') <= BufMax
         /\ Len(buffer') >= 1 /\ buffer'[Len(buffer')] = e
         /\ DOMAIN buffer' = 1 .. Len(buffer')
         /\ evicted \subseteq evicted'
         /\ \A i \in 1 .. Len(buffer') - 1 : \E j \in DOMAIN buffer : buffer'[i] = buffer[j]
         /\ \A j \in DOMAIN buffer : buffer[j].turn # 0 /\ buffer[j].turn \notin evicted' =>
              \E i \in 1 .. Len(buffer') - 1 : buffer'[i] = buffer[j]
  <1>1. buffer \in Seq(Entries) /\ Len(buffer) <= BufMax /\ BufMax \in Nat \ {0}
        /\ DOMAIN buffer = 1 .. Len(buffer) /\ Len(buffer) \in Nat
    BY BufAssumption DEF BufTyped
  <1>2. CASE Len(buffer) # BufMax
    <2>1. buffer' = Append(buffer, e) /\ evicted' = evicted
      BY <1>2 DEF Buffered
    <2>2. /\ buffer' \in Seq(Entries) /\ Len(buffer') = Len(buffer) + 1
          /\ buffer'[Len(buffer) + 1] = e /\ DOMAIN buffer' = 1 .. Len(buffer')
          /\ \A i \in DOMAIN buffer : buffer'[i] = buffer[i]
      BY <1>1, <2>1, Lengthened
    <2> QED BY <1>1, <1>2, <2>1, <2>2
  <1>3. CASE Len(buffer) = BufMax
    <2> DEFINE q == Tail(buffer)
    <2>1. buffer' = Append(q, e) /\ buffer # <<>>
          /\ evicted' = IF Head(buffer).turn # 0 THEN evicted \cup {Head(buffer).turn} ELSE evicted
      BY <1>1, <1>3 DEF Buffered
    <2>2. /\ q \in Seq(Entries) /\ Len(q) = Len(buffer) - 1 /\ DOMAIN q = 1 .. Len(q)
          /\ Len(q) \in Nat /\ Head(buffer) = buffer[1]
          /\ \A i \in DOMAIN q : i + 1 \in DOMAIN buffer /\ q[i] = buffer[i + 1]
          /\ \A i \in DOMAIN buffer : i = 1 \/ (i - 1 \in DOMAIN q /\ q[i - 1] = buffer[i])
      BY <1>1, <2>1, Shortened
    <2> HIDE DEF q
    <2>3. /\ buffer' \in Seq(Entries) /\ Len(buffer') = Len(q) + 1
          /\ buffer'[Len(q) + 1] = e /\ DOMAIN buffer' = 1 .. Len(buffer')
          /\ \A i \in DOMAIN q : buffer'[i] = q[i]
      BY <2>1, <2>2, Lengthened
    <2>4. Len(buffer') = BufMax /\ 1 .. Len(buffer') - 1 = DOMAIN q
      BY <1>1, <1>3, <2>2, <2>3
    <2>5. ASSUME NEW j \in DOMAIN buffer, buffer[j].turn # 0, buffer[j].turn \notin evicted'
          PROVE  \E i \in 1 .. Len(buffer') - 1 : buffer'[i] = buffer[j]
      <3>1. j # 1
        BY <2>1, <2>2, <2>5
      <3> QED BY <2>2, <2>3, <2>4, <3>1
    <2>6. ASSUME NEW i \in 1 .. Len(buffer') - 1
          PROVE  \E j \in DOMAIN buffer : buffer'[i] = buffer[j]
      <3>1. i \in DOMAIN q
        BY <2>4
      <3>2. i + 1 \in DOMAIN buffer /\ buffer'[i] = buffer[i + 1]
        BY <2>2, <2>3, <3>1
      <3> QED BY <3>2
    <2>7. evicted \subseteq evicted'
      BY <2>1
    <2> QED BY <1>1, <2>2, <2>3, <2>4, <2>5, <2>6, <2>7
  <1> QED BY <1>2, <1>3

\* What the step does to the completions found
LEMMA CompletionsMove ==
  ASSUME BufInv, NEW e \in Entries, Buffered(e), NEW a \in AnswerIds
  PROVE  /\ CompletedEarlier(a)' => Completed(a)
         /\ Completed(a) /\ a[1] \notin evicted' => CompletedEarlier(a)'
         /\ Completed(a)' <=> CompletedEarlier(a)' \/ (IsOf(e, a) /\ e.completed)
  <1>1. /\ Len(buffer') \in Nat /\ Len(buffer') >= 1 /\ buffer'[Len(buffer')] = e
        /\ \A i \in 1 .. Len(buffer') - 1 : \E j \in DOMAIN buffer : buffer'[i] = buffer[j]
        /\ \A j \in DOMAIN buffer : buffer[j].turn # 0 /\ buffer[j].turn \notin evicted' =>
             \E i \in 1 .. Len(buffer') - 1 : buffer'[i] = buffer[j]
    BY BufferedLeaves DEF BufInv
  <1>2. DOMAIN buffer = 1 .. Len(buffer)
    BY DEF BufInv, BufTyped
  <1>3. CompletedEarlier(a)' => Completed(a)
    BY <1>1, <1>2 DEF CompletedEarlier, Completed, CompletedBefore
  <1>4. Completed(a) /\ a[1] \notin evicted' => CompletedEarlier(a)'
    <2> SUFFICES ASSUME Completed(a), a[1] \notin evicted' PROVE CompletedEarlier(a)'
      OBVIOUS
    <2>1. PICK j \in DOMAIN buffer : IsOf(buffer[j], a) /\ buffer[j].completed
      BY <1>2 DEF Completed, CompletedBefore
    <2>2. buffer[j].turn = a[1] /\ a[1] # 0
      BY <2>1, IdsDiffer DEF IsOf
    <2>3. PICK i \in 1 .. Len(buffer') - 1 : buffer'[i] = buffer[j]
      BY <1>1, <2>2
    <2> QED BY <2>1, <2>3 DEF CompletedEarlier, CompletedBefore
  <1>5. \A i \in 1 .. Len(buffer') : i = Len(buffer') \/ i \in 1 .. Len(buffer') - 1
    BY <1>1
  <1>6. Len(buffer') \in 1 .. Len(buffer') /\ 1 .. Len(buffer') - 1 \subseteq 1 .. Len(buffer')
    BY <1>1
  <1>7. Completed(a)' <=> CompletedEarlier(a)' \/ (IsOf(e, a) /\ e.completed)
    BY <1>1, <1>5, <1>6 DEF CompletedEarlier, Completed, CompletedBefore
  <1> QED BY <1>3, <1>4, <1>7

\* The entry of the latest turn stays until its turn is evicted.
LEMMA TurnSeenKeeps ==
  ASSUME BufInv, NEW e \in Entries, Buffered(e), userTurn' \in 0 .. MaxTurns,
         \/ userTurn' = userTurn
         \/ userTurn' = userTurn + 1 /\ e.type = "user" /\ e.turn = userTurn',
         e.turn <= userTurn',
         \A a \in AnswerIds : answers'[a].outcome # "none" => a[1] <= userTurn'
  PROVE  TurnSeen'
  <1>1. /\ Len(buffer') \in Nat /\ Len(buffer') >= 1 /\ buffer'[Len(buffer')] = e
        /\ DOMAIN buffer' = 1 .. Len(buffer') /\ evicted \subseteq evicted'
        /\ \A i \in 1 .. Len(buffer') - 1 : \E j \in DOMAIN buffer : buffer'[i] = buffer[j]
        /\ \A j \in DOMAIN buffer : buffer[j].turn # 0 /\ buffer[j].turn \notin evicted' =>
             \E i \in 1 .. Len(buffer') - 1 : buffer'[i] = buffer[j]
    BY BufferedLeaves DEF BufInv
  <1>2. userTurn \in 0 .. MaxTurns /\ MaxTurns \in Nat /\ userTurn <= userTurn'
    BY BufAssumption DEF BufInv, BufTyped
  <1>3. Len(buffer') \in DOMAIN buffer' /\ 1 .. Len(buffer') - 1 \subseteq DOMAIN buffer'
        /\ \A i \in DOMAIN buffer' : i = Len(buffer') \/ i \in 1 .. Len(buffer') - 1
    BY <1>1
  <1>4. ASSUME userTurn' # 0, userTurn' \notin evicted'
        PROVE  \E i \in DOMAIN buffer' : buffer'[i].type = "user" /\ buffer'[i].turn = userTurn'
    <2>1. CASE userTurn' = userTurn
      <3>1. PICK j \in DOMAIN buffer : buffer[j].type = "user" /\ buffer[j].turn = userTurn
        BY <1>1, <1>4, <2>1 DEF BufInv, TurnSeen
      <3> QED BY <1>1, <1>3, <1>4, <2>1, <3>1
    <2>2. CASE e.type = "user" /\ e.turn = userTurn'
      BY <1>1, <1>3, <2>2
    <2> QED BY <2>1, <2>2
  <1>5. ASSUME NEW i \in DOMAIN buffer' PROVE buffer'[i].turn <= userTurn'
    <2>1. CASE i = Len(buffer')
      BY <1>1, <2>1
    <2>2. CASE i \in 1 .. Len(buffer') - 1
      <3>1. PICK j \in DOMAIN buffer : buffer'[i] = buffer[j]
        BY <1>1, <2>2
      <3>2. buffer[j] \in Entries
        BY DEF BufInv, BufTyped
      <3>3. buffer[j].turn <= userTurn /\ buffer[j].turn \in 0 .. MaxTurns
        BY <3>2 DEF BufInv, TurnSeen, Entries
      <3> QED BY <1>2, <3>1, <3>3
    <2> QED BY <1>3, <2>1, <2>2
  <1> QED BY <1>4, <1>5 DEF TurnSeen

\* An entry that is no answer's, with or without a flush under way: it disturbs that one.
LEMMA EntryKeeps ==
  ASSUME BufInv, NEW e \in Entries, Buffered(e), e.type # "assistant", TurnSeen',
         userTurn' \in 0 .. MaxTurns, UNCHANGED <<answers, footers, due>>,
         awaiting' = {[w EXCEPT !.disturbed = TRUE] : w \in awaiting}
  PROVE  BufInv'
  <1>1. /\ BufTyped /\ CompletionKept /\ FlushKnows /\ BufFooterOnce
        /\ awaiting \subseteq Awaited
    BY DEF BufInv, BufTyped
  <1>2. evicted \subseteq evicted' /\ buffer' \in Seq(Entries) /\ Len(buffer') <= BufMax
    BY <1>1, BufferedLeaves
  <1>3. \A a \in AnswerIds :
          /\ Completed(a)' => Completed(a)
          /\ Completed(a) /\ a[1] \notin evicted' => CompletedEarlier(a)' /\ Completed(a)'
    BY CompletionsMove DEF IsOf
  <1>4. \A w \in awaiting' : \E v \in awaiting :
          w.answer = v.answer /\ w.disturbed /\ w = [v EXCEPT !.disturbed = TRUE]
    BY <1>1 DEF Awaited
  <1>5. BufTyped'
    <2>1. awaiting' \subseteq Awaited
      BY <1>1 DEF Awaited
    <2>2. ASSUME NEW u \in awaiting', NEW w \in awaiting' PROVE u = w
      <3>1. PICK v \in awaiting : u = [v EXCEPT !.disturbed = TRUE]
        BY <1>4
      <3>2. PICK v2 \in awaiting : w = [v2 EXCEPT !.disturbed = TRUE]
        BY <1>4
      <3>3. v = v2
        BY <1>1 DEF BufTyped
      <3> QED BY <3>1, <3>2, <3>3
    <2>3. answers' \in [AnswerIds -> Infos] /\ footers' \in [AnswerIds -> Nat]
      BY <1>1 DEF BufTyped
    <2> QED BY <1>2, <2>1, <2>2, <2>3 DEF BufTyped
  <1>6. CompletionKept'
    BY <1>1, <1>2, <1>3 DEF CompletionKept, Ended
  <1>7. FlushKnows'
    <2> SUFFICES ASSUME NEW w \in awaiting', NEW v \in awaiting,
                        w.answer = v.answer, w.disturbed
                 PROVE  /\ answers[w.answer].outcome = "stop"
                        /\ w.answer[1] \in evicted' \/ CompletedEarlier(w.answer)'
      BY <1>1, <1>4 DEF FlushKnows
    <2>1. v.answer \in AnswerIds /\ answers[v.answer].outcome = "stop"
      BY <1>1 DEF FlushKnows, Awaited
    <2>2. v.answer[1] \in evicted \/ Completed(v.answer)
      BY <1>1, <2>1 DEF CompletionKept, Ended
    <2> QED BY <1>2, <1>3, <2>1, <2>2
  <1>8. BufFooterOnce'
    BY <1>1, <1>2 DEF BufFooterOnce
  <1> QED BY <1>5, <1>6, <1>7, <1>8 DEF BufInv

\* Events that are no answer's
LEMMA OthersKeep ==
  ASSUME BufInv,
         \/ BufPrompted \/ BecomesIdle
         \/ \E u \in Turns : UserRepeated(u)
         \/ \E type \in {"idle", "other"} : Interleaves(type)
  PROVE  BufInv'
  <1>1. /\ BufTyped /\ TurnSeen /\ userTurn \in 0 .. MaxTurns /\ MaxTurns \in Nat
    BY BufAssumption DEF BufInv, BufTyped
  <1>2. \A a \in AnswerIds : answers[a].outcome # "none" => a[1] <= userTurn /\ a[1] \in Nat
    BY <1>1, IdsDiffer DEF TurnSeen, Turns
  <1>3. ASSUME awaiting = {} PROVE awaiting = {[w EXCEPT !.disturbed = TRUE] : w \in awaiting}
    BY <1>3
  <1>4. CASE BufPrompted
    <2> DEFINE e == UserEntry(userTurn + 1)
    <2>1. /\ userTurn' = userTurn + 1 /\ Buffered(e) /\ awaiting = {}
          /\ UNCHANGED <<answers, footers, due, awaiting>> /\ userTurn + 1 \in Turns
      BY <1>1, <1>4 DEF BufPrompted, Handles, bufOut, Turns
    <2>2. e \in Entries /\ e.turn = userTurn + 1 /\ e.type = "user"
      BY <2>1, EntryFits
    <2> HIDE DEF e
    <2>3. userTurn' \in 0 .. MaxTurns /\ e.turn <= userTurn'
      BY <1>1, <2>1, <2>2 DEF Turns
    <2>4. \A a \in AnswerIds : answers'[a].outcome # "none" => a[1] <= userTurn'
      BY <1>1, <1>2, <2>1
    <2>5. TurnSeen'
      BY <2>1, <2>2, <2>3, <2>4, TurnSeenKeeps
    <2> QED BY <1>3, <2>1, <2>2, <2>3, <2>5, EntryKeeps
  <1>5. CASE BecomesIdle
    <2> DEFINE e == Plain("idle")
    <2>1. /\ Buffered(e) /\ awaiting = {}
          /\ UNCHANGED <<userTurn, answers, footers, due, awaiting>>
      BY <1>5 DEF BecomesIdle, Handles, bufServer
    <2>2. e \in Entries /\ e.turn = 0 /\ e.type = "idle"
      BY EntryFits
    <2> HIDE DEF e
    <2>3. TurnSeen'
      BY <1>1, <1>2, <2>1, <2>2, TurnSeenKeeps
    <2> QED BY <1>1, <1>3, <2>1, <2>2, <2>3, EntryKeeps
  <1>6. ASSUME NEW u \in Turns, UserRepeated(u) PROVE BufInv'
    <2> DEFINE e == UserEntry(u)
    <2>1. /\ Buffered(e) /\ awaiting = {} /\ u <= userTurn
          /\ UNCHANGED <<userTurn, answers, footers, due, awaiting>>
      BY <1>6 DEF UserRepeated, Handles, bufServer, bufOut
    <2>2. e \in Entries /\ e.turn = u /\ e.type = "user"
      BY EntryFits
    <2> HIDE DEF e
    <2>3. TurnSeen'
      BY <1>1, <1>2, <2>1, <2>2, TurnSeenKeeps
    <2> QED BY <1>1, <1>3, <2>1, <2>2, <2>3, EntryKeeps
  <1>7. ASSUME NEW type \in {"idle", "other"}, Interleaves(type) PROVE BufInv'
    <2> DEFINE e == Plain(type)
    <2>1. /\ Buffered(e) /\ awaiting' = {[w EXCEPT !.disturbed = TRUE] : w \in awaiting}
          /\ UNCHANGED <<userTurn, answers, footers, due>>
      BY <1>7 DEF Interleaves, bufServer, bufOut
    <2>2. e \in Entries /\ e.turn = 0 /\ e.type = type
      BY EntryFits
    <2> HIDE DEF e
    <2>3. TurnSeen'
      BY <1>1, <1>2, <2>1, <2>2, TurnSeenKeeps
    <2> QED BY <1>1, <2>1, <2>2, <2>3, EntryKeeps
  <1> QED BY <1>4, <1>5, <1>6, <1>7

\* The end of a flush: the footer is posted unless the completion was seen before.
LEMMA FlushEndsKeeps == ASSUME BufInv, FlushEnds PROVE BufInv'
  <1>1. PICK w \in awaiting :
          /\ awaiting' = {}
          /\ footers' = IF CompletedEarlier(w.answer) THEN footers
                        ELSE [footers EXCEPT ![w.answer] = @ + 1]
          /\ due' = IF w.first /\ ~w.disturbed THEN due \cup {w.answer} ELSE due
          /\ UNCHANGED <<buffer, entries, bufServer, billed, evicted>>
    BY DEF FlushEnds, CompletedEarlier
  <1> DEFINE a == w.answer
  <1>2. /\ BufTyped /\ TurnSeen /\ CompletionKept /\ FlushKnows /\ BufFooterOnce
        /\ a \in AnswerIds /\ footers \in [AnswerIds -> Nat] /\ w.first \in BOOLEAN
        /\ w.disturbed \in BOOLEAN
    BY DEF BufInv, BufTyped, Awaited
  <1>3. Ended(a)
    BY <1>2 DEF FlushKnows, Ended
  <1>4. \A b \in AnswerIds : b # a => footers'[b] = footers[b] /\ (b \in due' <=> b \in due)
    BY <1>1, <1>2
  <1>5. footers' \in [AnswerIds -> Nat]
    BY <1>1, <1>2
  <1>6. BufTyped'
    BY <1>1, <1>2, <1>5 DEF BufTyped, bufServer
  <1>7. TurnSeen'
    BY <1>1, <1>2 DEF TurnSeen, bufServer
  <1>8. CompletionKept'
    <2>1. \A b \in AnswerIds : (Ended(b)' <=> Ended(b)) /\ (Completed(b)' <=> Completed(b))
      BY <1>1 DEF Ended, Completed, bufServer
    <2>2. \A b \in AnswerIds : b # a /\ ~ Ended(b) => footers'[b] = 0 /\ b \notin due'
      BY <1>2, <1>4 DEF CompletionKept
    <2> HIDE DEF a
    <2> QED BY <1>1, <1>2, <1>3, <2>1, <2>2 DEF CompletionKept
  <1>9. FlushKnows'
    BY <1>1 DEF FlushKnows
  <1>10. ASSUME a[1] \notin evicted PROVE footers'[a] <= 1 /\ (a \in due' => footers'[a] = 1)
    <2>1. CASE w.first /\ ~ w.disturbed
      <3>1. ~ CompletedEarlier(a) /\ footers[a] = 0
        BY <1>2, <2>1 DEF FlushKnows
      <3> QED BY <1>1, <1>2, <3>1
    <2>2. CASE ~ (w.first /\ ~ w.disturbed)
      <3>1. CompletedEarlier(a)
        BY <1>2, <1>10, <2>2 DEF FlushKnows
      <3>2. footers' = footers /\ due' = due
        BY <1>1, <2>2, <3>1
      <3> QED BY <1>2, <1>10, <3>2 DEF BufFooterOnce
    <2> QED BY <2>1, <2>2
  <1>11. BufFooterOnce'
    <2> HIDE DEF a
    <2> SUFFICES ASSUME NEW b \in AnswerIds, b[1] \notin evicted
                 PROVE  footers'[b] <= 1 /\ (b \in due' => footers'[b] = 1)
      BY <1>1 DEF BufFooterOnce
    <2>1. CASE b = a
      BY <1>10, <2>1
    <2>2. CASE b # a
      BY <1>2, <1>4, <2>2 DEF BufFooterOnce
    <2> QED BY <2>1, <2>2
  <1> QED BY <1>6, <1>7, <1>8, <1>9, <1>11 DEF BufInv

\* An answer of the latest turn is current, as long as the turn's entries are there.
LEMMA LatestIsCurrent ==
  ASSUME BufTyped', TurnSeen', NEW a \in AnswerIds, a[1] = userTurn', a[1] \notin evicted',
         \E i \in DOMAIN buffer' : IsOf(buffer'[i], a)
  PROVE  InLatestUserTurn(buffer', a)
  <1> DEFINE n == Len(buffer')
             S == {0} \cup {buffer'[i].turn : i \in {j \in 1 .. n : buffer'[j].type = "user"}}
  <1>1. /\ DOMAIN buffer' = 1 .. n /\ userTurn' \in Nat /\ userTurn' # 0
        /\ \A i \in 1 .. n : buffer'[i].turn \in Nat /\ buffer'[i].turn <= userTurn'
    <2>1. buffer' \in Seq(Entries) /\ userTurn' \in 0 .. MaxTurns /\ MaxTurns \in Nat
      BY BufAssumption DEF BufTyped
    <2>2. DOMAIN buffer' = 1 .. n /\ \A i \in 1 .. n : buffer'[i] \in Entries
      BY <2>1
    <2>3. \A i \in 1 .. n : buffer'[i].turn \in Nat
      BY <2>1, <2>2 DEF Entries
    <2> QED BY <2>1, <2>2, <2>3, IdsDiffer DEF TurnSeen
  <1>2. userTurn' \in S
    BY <1>1 DEF TurnSeen
  <1>3. \A y \in S : y \in Nat /\ userTurn' >= y
    BY <1>1
  <1> HIDE DEF S
  <1>4. Max(S) = userTurn'
    <2>1. \A x \in S : (\A y \in S : x >= y) => x = userTurn'
      BY <1>1, <1>2, <1>3
    <2>2. \E x \in S : \A y \in S : x >= y
      BY <1>2, <1>3
    <2>3. Max(S) \in S /\ \A y \in S : Max(S) >= y
      BY <2>2 DEF Max
    <2> QED BY <2>1, <2>3
  <1>5. LatestUser(buffer', n) = userTurn'
    BY <1>4 DEF LatestUser, S
  <1> QED BY <1>5 DEF InLatestUserTurn

\* Every update of an answer: of one that goes on, the first that ends it, or a repetition
LEMMA AnswerUpdatedKeeps ==
  ASSUME BufInv, NEW a \in AnswerIds,
         NEW info \in [tokens : 0 .. MaxTokens, outcome : Outcomes], NEW first \in BOOLEAN,
         AnswerUpdated(a, info, first), a[1] <= userTurn,
         \/ first /\ ~ Ended(a) /\ info.outcome # "open"
         \/ ~ first /\ ~ Ended(a) /\ info.outcome = "open"
         \/ ~ first /\ Ended(a) /\ info = answers[a]
  PROVE  BufInv'
  <1> DEFINE e == AnswerEntry(a, info)
  <1>1. /\ BufTyped /\ TurnSeen /\ CompletionKept /\ BufFooterOnce /\ userTurn \in 0 .. MaxTurns
        /\ answers \in [AnswerIds -> Infos]
    BY DEF BufInv, BufTyped
  <1>2. /\ Buffered(e) /\ answers' = [answers EXCEPT ![a] = info]
        /\ UNCHANGED <<userTurn, footers>>
    BY DEF AnswerUpdated, Handles
  <1>3. /\ e \in Entries /\ e.turn = a[1] /\ e.type = "assistant" /\ e.nr = a[2]
        /\ e.completed = (info.outcome # "open")
    BY EntryFits
  <1>4. /\ IsOf(e, a) /\ \A b \in AnswerIds : b # a => ~ IsOf(e, b)
    BY <1>3, IdsDiffer DEF IsOf
  <1>5. /\ answers' \in [AnswerIds -> Infos] /\ answers'[a] = info
        /\ \A b \in AnswerIds : b # a => answers'[b] = answers[b]
    BY <1>1, <1>2 DEF Infos
  <1>6. info.outcome \notin {"none"} /\ (Ended(a)' <=> info.outcome # "open")
    BY <1>5 DEF Ended, Outcomes
  <1>7. /\ awaiting' \subseteq {[answer |-> a, first |-> first, disturbed |-> FALSE]}
        /\ \A w \in awaiting' : info.outcome = "stop"
    BY DEF AnswerUpdated
  <1>8. /\ due' \subseteq due \cup {a} /\ due \subseteq due'
        /\ a \in due' /\ a \notin due => /\ info.outcome = "stop" /\ first /\ a[1] = userTurn
                                         /\ ~ InLatestUserTurn(buffer', a)
    BY DEF AnswerUpdated
  <1> HIDE DEF e
  <1>9. /\ buffer' \in Seq(Entries) /\ Len(buffer') <= BufMax /\ evicted \subseteq evicted'
        /\ Len(buffer') \in DOMAIN buffer' /\ buffer'[Len(buffer')] = e
    BY <1>1, <1>2, <1>3, BufferedLeaves
  <1>10. \A b \in AnswerIds :
           /\ CompletedEarlier(b)' => Completed(b)
           /\ Completed(b) /\ b[1] \notin evicted' => CompletedEarlier(b)'
           /\ Completed(b)' <=> CompletedEarlier(b)' \/ (IsOf(e, b) /\ e.completed)
    BY <1>2, <1>3, CompletionsMove
  <1>11. BufTyped'
    <2>1. awaiting' \subseteq Awaited /\ \A v, w \in awaiting' : v = w
      <3>1. [answer |-> a, first |-> first, disturbed |-> FALSE] \in Awaited
        BY DEF Awaited
      <3> QED BY <1>7, <3>1
    <2> QED BY <1>1, <1>2, <1>5, <1>9, <2>1 DEF BufTyped
  <1>12. TurnSeen'
    <2>1. \A b \in AnswerIds : answers'[b].outcome # "none" => b[1] <= userTurn'
      BY <1>1, <1>2, <1>5 DEF TurnSeen
    <2> QED BY <1>1, <1>2, <1>3, <2>1, TurnSeenKeeps
  <1>13. ASSUME NEW b \in AnswerIds, b # a
         PROVE  IF Ended(b)' THEN b[1] \in evicted' \/ Completed(b)'
                ELSE ~ Completed(b)' /\ footers'[b] = 0 /\ b \notin due'
    <2>1. Ended(b)' <=> Ended(b)
      BY <1>5, <1>13 DEF Ended
    <2> QED BY <1>1, <1>2, <1>4, <1>8, <1>9, <1>10, <1>13, <2>1 DEF CompletionKept
  <1>14. IF Ended(a)' THEN a[1] \in evicted' \/ Completed(a)'
         ELSE ~ Completed(a)' /\ footers'[a] = 0 /\ a \notin due'
    <2>1. CASE info.outcome # "open"
      BY <1>3, <1>4, <1>6, <1>10, <2>1
    <2>2. CASE info.outcome = "open" /\ ~ Ended(a)
      BY <1>1, <1>2, <1>3, <1>6, <1>8, <1>10, <2>2 DEF CompletionKept
    <2>3. CASE Ended(a) /\ info = answers[a]
      <3>1. info.outcome # "open"
        BY <2>3 DEF Ended
      <3> QED BY <2>1, <3>1
    <2> QED BY <2>1, <2>2, <2>3
  <1>15. CompletionKept'
    BY <1>13, <1>14 DEF CompletionKept
  <1>16. FlushKnows'
    <2> SUFFICES ASSUME NEW w \in awaiting'
                 PROVE  /\ answers'[a].outcome = "stop"
                        /\ IF first THEN ~ CompletedEarlier(a)' /\ footers'[a] = 0
                           ELSE a[1] \in evicted' \/ CompletedEarlier(a)'
      BY <1>7 DEF FlushKnows
    <2>1. info.outcome = "stop" /\ answers'[a].outcome = "stop"
      BY <1>5, <1>7
    <2>2. CASE first
      BY <1>1, <1>2, <1>10, <2>1, <2>2 DEF CompletionKept
    <2>3. CASE ~ first
      BY <1>1, <1>9, <1>10, <2>1, <2>3 DEF CompletionKept
    <2> QED BY <2>1, <2>2, <2>3
  <1>17. ASSUME a \in due', a \notin due PROVE a[1] \in evicted'
    BY <1>2, <1>4, <1>8, <1>9, <1>11, <1>12, <1>17, LatestIsCurrent
  <1>18. BufFooterOnce'
    BY <1>1, <1>2, <1>8, <1>9, <1>17 DEF BufFooterOnce
  <1> QED BY <1>11, <1>12, <1>15, <1>16, <1>18 DEF BufInv

LEMMA AnswersKeep ==
  ASSUME BufInv, NEW a \in AnswerIds,
         \/ AnswerStarts(a) \/ AnswerProgresses(a) \/ AnswerRepeated(a)
         \/ \E outcome \in {"tool-calls", "stop", "error"} : AnswerEnds(a, outcome)
  PROVE  BufInv'
  <1>1. /\ answers \in [AnswerIds -> Infos] /\ userTurn \in 0 .. MaxTurns
        /\ MaxTurns \in Nat /\ MaxTokens \in Nat
        /\ answers[a].outcome # "none" => a[1] <= userTurn
    BY BufAssumption DEF BufInv, BufTyped, TurnSeen
  <1>2. answers[a].outcome # "none" => answers[a] \in [tokens : 0 .. MaxTokens, outcome : Outcomes]
    BY <1>1 DEF Infos, NotBegun
  <1>3. CASE AnswerStarts(a)
    <2> DEFINE info == [tokens |-> 0, outcome |-> "open"]
    <2>1. info \in [tokens : 0 .. MaxTokens, outcome : Outcomes] /\ info.outcome = "open"
      BY <1>1 DEF Outcomes
    <2>2. ~ Ended(a) /\ a[1] <= userTurn
      BY <1>1, <1>3 DEF AnswerStarts, NotBegun, Ended
    <2>3. AnswerUpdated(a, info, FALSE)
      BY <1>3 DEF AnswerStarts
    <2> HIDE DEF info
    <2> QED BY <2>1, <2>2, <2>3, AnswerUpdatedKeeps
  <1>4. CASE AnswerProgresses(a)
    <2> DEFINE info == [answers[a] EXCEPT !.tokens = @ + 1]
    <2>1. /\ answers[a].outcome = "open" /\ answers[a].tokens < MaxTokens
          /\ AnswerUpdated(a, info, FALSE)
      BY <1>4 DEF AnswerProgresses
    <2>2. info \in [tokens : 0 .. MaxTokens, outcome : Outcomes] /\ info.outcome = "open"
      BY <1>1, <1>2, <2>1
    <2>3. ~ Ended(a) /\ a[1] <= userTurn
      BY <1>1, <2>1 DEF Ended
    <2> HIDE DEF info
    <2> QED BY <2>1, <2>2, <2>3, AnswerUpdatedKeeps
  <1>5. CASE AnswerRepeated(a)
    <2>1. /\ answers[a].outcome \notin {"none", "open"} /\ AnswerUpdated(a, answers[a], FALSE)
      BY <1>5 DEF AnswerRepeated
    <2> QED BY <1>1, <1>2, <2>1, AnswerUpdatedKeeps DEF Ended
  <1>6. ASSUME NEW outcome \in {"tool-calls", "stop", "error"}, AnswerEnds(a, outcome)
        PROVE  BufInv'
    <2> DEFINE info == [answers[a] EXCEPT !.outcome = outcome]
    <2>1. answers[a].outcome = "open" /\ AnswerUpdated(a, info, TRUE)
      BY <1>6 DEF AnswerEnds
    <2>2. info \in [tokens : 0 .. MaxTokens, outcome : Outcomes] /\ info.outcome # "open"
      BY <1>1, <1>2, <2>1 DEF Outcomes
    <2>3. ~ Ended(a) /\ a[1] <= userTurn
      BY <1>1, <2>1 DEF Ended
    <2> HIDE DEF info
    <2> QED BY <2>1, <2>2, <2>3, AnswerUpdatedKeeps
  <1> QED BY <1>3, <1>4, <1>5, <1>6

LEMMA InvBuf == BufSpec => []BufInv
  <1>1. BufInit => BufInv
    <2> SUFFICES ASSUME BufInit PROVE BufInv
      OBVIOUS
    <2>1. /\ buffer = <<>> /\ userTurn = 0 /\ awaiting = {} /\ due = {}
          /\ answers = [a \in AnswerIds |-> NotBegun] /\ footers = [a \in AnswerIds |-> 0]
      BY DEF BufInit
    <2>2. BufTyped
      BY <2>1, BufAssumption DEF BufTyped, Infos
    <2>3. TurnSeen
      BY <2>1 DEF TurnSeen, NotBegun
    <2>4. \A a \in AnswerIds : ~ Ended(a) /\ ~ Completed(a)
      BY <2>1 DEF Ended, NotBegun, Completed, CompletedBefore
    <2> QED BY <2>1, <2>2, <2>3, <2>4 DEF BufInv, CompletionKept, FlushKnows, BufFooterOnce
  <1>2. BufInv /\ [BufNext]_bufVars => BufInv'
    <2> SUFFICES ASSUME BufInv, [BufNext]_bufVars PROVE BufInv'
      OBVIOUS
    <2>1. CASE BufNext
      BY <2>1, OthersKeep, FlushEndsKeeps, AnswersKeep DEF BufNext
    <2>2. CASE UNCHANGED bufVars
      BY <2>2 DEF bufVars, bufServer, bufOut, BufInv, BufTyped, TurnSeen, CompletionKept, FlushKnows,
                  BufFooterOnce, Ended, Completed, CompletedEarlier
    <2> QED BY <2>1, <2>2
  <1> QED BY <1>1, <1>2, PTL DEF BufSpec

\* Whatever the size of the buffer, and however often opencode reports a message again,
\* a message that ends its turn gets one footer, as long as no entry of its turn was
\* evicted; at most one if a marker disturbed its handler.
THEOREM FooterOnce == BufSpec => []BufFooterOnce
  <1>1. BufInv => BufFooterOnce
    BY DEF BufInv
  <1> QED BY <1>1, InvBuf, PTL

-----------------------------------------------------------------------------
(* The buffer's tokens *)

UserAt(b, i, u) == b[i].type = "user" /\ b[i].turn = u

\* The idles of a turn up to n, and what was counted at the last of them
Idles(b, u, n) == {i \in 1 .. n : b[i].type = "idle" /\ \E f \in 1 .. n : f < i /\ UserAt(b, f, u)}
Counted(b, u, n) == LET is == Idles(b, u, n) IN IF is = {} THEN 0 ELSE TurnTokens(b, Max(is))

\* What is left of an old turn begins before the entry of the latest one.
TurnsInOrder ==
  \A u \in Turns \ evicted : u < userTurn =>
    \E i, j \in DOMAIN buffer : i < j /\ UserAt(buffer, i, u) /\ UserAt(buffer, j, userTurn)

\* The snapshots of an answer grow.
SnapshotsGrow ==
  \A a \in AnswerIds :
    /\ \A i \in DOMAIN buffer : IsOf(buffer[i], a) => buffer[i].tokens <= answers[a].tokens
    /\ \A i, j \in DOMAIN buffer : i < j /\ IsOf(buffer[i], a) /\ IsOf(buffer[j], a) =>
         buffer[i].tokens <= buffer[j].tokens

\* Of the latest turn no more is tracked than was counted at its last idle, and of a
\* turn to come nothing.
BilledIsCounted ==
  /\ userTurn # 0 /\ userTurn \notin evicted =>
       billed[userTurn] <= Counted(buffer, userTurn, Len(buffer))
  /\ \A u \in Turns : u > userTurn => billed[u] = 0

BillInv == /\ billed \in [Turns -> Nat] /\ TurnsInOrder /\ SnapshotsGrow
           /\ BilledIsCounted /\ BufTokensNotTwice

\* A sum over the answers of a turn.  The induction over sets of answers is an argument
\* by a smallest counterexample, with WFMin.

LEMMA SmallestSet ==
  ASSUME NEW S, IsFiniteSet(S), NEW T \in SUBSET (SUBSET S), T # {}
  PROVE  \E x \in T : \A y \in T : y \subseteq x => y = x
  <1>1. T \subseteq FiniteSubsetsOf(S)
    BY FS_Subset DEF FiniteSubsetsOf
  <1>2. PICK x \in T : \A y \in T : ~ (<<y, x>> \in StrictSubsetOrdering(S))
    BY <1>1, FS_StrictSubsetOrderingWellFounded, WFMin
  <1> QED BY <1>2 DEF StrictSubsetOrdering

\* Sets of indices have a least and a greatest element.
LEMMA SmallestIndex ==
  ASSUME NEW n \in Nat, NEW S \in SUBSET (0 .. n), S # {}
  PROVE  Min(S) \in S /\ \A y \in S : Min(S) <= y
  <1> DEFINE T == {0 .. i : i \in S}
  <1>1. IsFiniteSet(0 .. n)
    BY FS_Interval
  <1>2. T \in SUBSET (SUBSET (0 .. n)) /\ T # {}
    <2>1. \A i \in S : 0 .. i \subseteq 0 .. n
      OBVIOUS
    <2> QED BY <2>1
  <1>3. \E x \in T : \A y \in T : y \subseteq x => y = x
    <2> DEFINE U == 0 .. n
    <2>1. IsFiniteSet(U) /\ T \in SUBSET (SUBSET U) /\ T # {}
      BY <1>1, <1>2
    <2> HIDE DEF T, U
    <2> QED BY <2>1, SmallestSet
  <1>4. PICK i \in S : \A y \in T : y \subseteq 0 .. i => y = 0 .. i
    BY <1>3
  <1>5. ASSUME NEW y \in S PROVE i <= y
    <2> SUFFICES ASSUME y < i PROVE FALSE
      OBVIOUS
    <2>1. 0 .. y \subseteq 0 .. i /\ i \in 0 .. i /\ i \notin 0 .. y
      OBVIOUS
    <2>2. i \in Nat /\ y \in Nat /\ 0 .. y \in T
      OBVIOUS
    <2> QED BY <1>4, <2>1, <2>2
  <1> QED BY <1>5 DEF Min

LEMMA GreatestIndex ==
  ASSUME NEW n \in Nat, NEW S \in SUBSET (0 .. n), S # {}
  PROVE  Max(S) \in S /\ \A y \in S : Max(S) >= y
  <1> DEFINE T == {i .. n : i \in S}
  <1>1. IsFiniteSet(0 .. n)
    BY FS_Interval
  <1>2. T \in SUBSET (SUBSET (0 .. n)) /\ T # {}
    <2>1. \A i \in S : i .. n \subseteq 0 .. n
      OBVIOUS
    <2> QED BY <2>1
  <1>3. \E x \in T : \A y \in T : y \subseteq x => y = x
    <2> DEFINE U == 0 .. n
    <2>1. IsFiniteSet(U) /\ T \in SUBSET (SUBSET U) /\ T # {}
      BY <1>1, <1>2
    <2> HIDE DEF T, U
    <2> QED BY <2>1, SmallestSet
  <1>4. PICK i \in S : \A y \in T : y \subseteq i .. n => y = i .. n
    BY <1>3
  <1>5. ASSUME NEW y \in S PROVE i >= y
    <2> SUFFICES ASSUME y > i PROVE FALSE
      OBVIOUS
    <2>1. y .. n \subseteq i .. n /\ i \in i .. n /\ i \notin y .. n
      OBVIOUS
    <2>2. i \in Nat /\ y \in Nat /\ y .. n \in T
      OBVIOUS
    <2> QED BY <1>4, <2>1, <2>2
  <1> QED BY <1>5 DEF Max

\* A function that sums v over the subsets of s, an element chosen at a time
Chosen(s) == CHOOSE x \in s : TRUE
Adds(f, v, s) ==
  \A t \in SUBSET s : f[t] = IF t = {} THEN 0 ELSE v[Chosen(t)] + f[t \ {Chosen(t)}]
Sums(f, v, s) == f \in [SUBSET s -> Nat] /\ Adds(f, v, s)

LEMMA ChosenIsIn == ASSUME NEW s, s # {} PROVE Chosen(s) \in s
  BY DEF Chosen

\* There is at most one such value for each set,
LEMMA SumsAgree ==
  ASSUME NEW S, IsFiniteSet(S), NEW v, NEW a \in SUBSET S, NEW b \in SUBSET S, NEW f, NEW g,
         Adds(f, v, a), Adds(g, v, b)
  PROVE  \A t \in SUBSET a : t \subseteq b => f[t] = g[t]
  <1> DEFINE T == {t \in SUBSET a : t \subseteq b /\ f[t] # g[t]}
  <1> SUFFICES ASSUME T # {} PROVE FALSE
    OBVIOUS
  <1>1. T \in SUBSET (SUBSET S)
    OBVIOUS
  <1>2. PICK t \in T : \A y \in T : y \subseteq t => y = t
    <2> HIDE DEF T
    <2> QED BY <1>1, SmallestSet
  <1>3. t # {}
    BY <1>2 DEF Adds
  <1> DEFINE x == Chosen(t)
  <1>4. x \in t /\ t \ {x} \subseteq t /\ t \ {x} # t
    BY <1>3, ChosenIsIn
  <1>5. t \ {x} \in SUBSET a /\ t \ {x} \subseteq b /\ f[t \ {x}] = g[t \ {x}]
    BY <1>2, <1>4
  <1>6. f[t] = v[x] + f[t \ {x}] /\ g[t] = v[x] + g[t \ {x}]
    BY <1>2, <1>3 DEF Adds
  <1> QED BY <1>2, <1>5, <1>6

\* and there is one.
LEMMA SumsExist ==
  ASSUME NEW S, IsFiniteSet(S), NEW v \in [S -> Nat]
  PROVE  \E f : Sums(f, v, S)
  <1> DEFINE T == {s \in SUBSET S : ~ \E f : Sums(f, v, s)}
  <1> SUFFICES ASSUME T # {} PROVE FALSE
    OBVIOUS
  <1>0. T \in SUBSET (SUBSET S)
    OBVIOUS
  <1>1. PICK s \in T : \A y \in T : y \subseteq s => y = s
    <2> HIDE DEF T
    <2> QED BY <1>0, SmallestSet
  <1> DEFINE F(t) == CHOOSE f : Sums(f, v, t)
             V(t) == F(t)[t]
             f == [t \in SUBSET s |-> IF t = {} THEN 0 ELSE
                     IF t # s THEN V(t) ELSE v[Chosen(s)] + V(s \ {Chosen(s)})]
  <1>2. \A t \in SUBSET s : t # s => Sums(F(t), v, t)
    BY <1>1
  <1>3. \A t \in SUBSET s : t # s => V(t) \in Nat
    BY <1>2 DEF Sums, Adds
  <1>4. \A t \in SUBSET s : t # {} => /\ Chosen(t) \in t /\ Chosen(t) \in S
                                      /\ t \ {Chosen(t)} \in SUBSET s /\ t \ {Chosen(t)} # s
    BY <1>1, ChosenIsIn
  <1>5. ASSUME NEW t \in SUBSET s, t # s, t # {} PROVE V(t) = v[Chosen(t)] + V(t \ {Chosen(t)})
    <2> DEFINE u == t \ {Chosen(t)}
    <2>1. Sums(F(t), v, t) /\ Sums(F(u), v, u) /\ u \in SUBSET t
      BY <1>2, <1>4, <1>5
    <2>2. t \in SUBSET S /\ u \in SUBSET S
      BY <1>1, <2>1
    <2>3. F(u)[u] = F(t)[u]
      BY <2>1, <2>2, SumsAgree DEF Sums
    <2>4. F(t)[t] = v[Chosen(t)] + F(t)[u]
      BY <2>1, <1>5 DEF Sums, Adds
    <2> QED BY <2>3, <2>4
  <1> HIDE DEF V, F
  <1>6. V({}) = 0 \/ s = {}
    <2>1. CASE s # {}
      BY <1>2, <2>1 DEF Sums, Adds, V
    <2> QED BY <2>1
  <1>7. \A t \in SUBSET s : f[t] \in Nat
    BY <1>1, <1>3, <1>4
  <1>8. ASSUME NEW t \in SUBSET s, t # {}
        PROVE  f[t] = v[Chosen(t)] + f[t \ {Chosen(t)}]
    <2> DEFINE u == t \ {Chosen(t)}
    <2>1. u \in SUBSET s /\ u # s
      BY <1>4, <1>8
    <2>2. f[u] = V(u)
      BY <1>6, <2>1
    <2>3. CASE t = s
      BY <1>8, <2>2, <2>3
    <2>4. CASE t # s
      BY <1>5, <1>8, <2>2, <2>4
    <2> QED BY <2>3, <2>4
  <1>9. f[{}] = 0
    OBVIOUS
  <1>10. Sums(f, v, s)
    <2>1. f \in [SUBSET s -> Nat]
      BY <1>7
    <2> HIDE DEF f
    <2> QED BY <1>8, <1>9, <2>1 DEF Sums, Adds
  <1> QED BY <1>1, <1>10

\* What a turn's answers add up to
Total(v) == (CHOOSE f : Sums(f, v, 1 .. MaxAnswers))[1 .. MaxAnswers]

LEMMA TotalIs ==
  ASSUME NEW v \in [1 .. MaxAnswers -> Nat], NEW f, Adds(f, v, 1 .. MaxAnswers)
  PROVE  Total(v) = f[1 .. MaxAnswers] /\ Total(v) \in Nat
  <1> DEFINE S == 1 .. MaxAnswers
             g == CHOOSE h : Sums(h, v, S)
  <1>1. IsFiniteSet(S)
    BY FS_Interval, BufAssumption
  <1>2. Sums(g, v, S)
    BY <1>1, SumsExist
  <1>3. S \in SUBSET S
    OBVIOUS
  <1>4. Adds(f, v, S)
    OBVIOUS
  <1> HIDE DEF S, g
  <1>5. f[S] = g[S]
    BY <1>1, <1>2, <1>3, <1>4, SumsAgree DEF Sums
  <1>6. g[S] \in Nat
    BY <1>2, <1>3 DEF Sums, Adds
  <1> QED BY <1>5, <1>6 DEF Total, S, g

LEMMA TotalGrows ==
  ASSUME NEW v \in [1 .. MaxAnswers -> Nat], NEW w \in [1 .. MaxAnswers -> Nat],
         \A k \in 1 .. MaxAnswers : v[k] <= w[k]
  PROVE  Total(v) <= Total(w) /\ Total(v) \in Nat /\ Total(w) \in Nat
  <1> DEFINE S == 1 .. MaxAnswers
  <1>1. IsFiniteSet(S)
    <2>1. 1 \in Int /\ MaxAnswers \in Int
      BY BufAssumption
    <2> QED BY <2>1, FS_Interval
  <1>2. PICK f : Sums(f, v, S)
    BY <1>1, SumsExist
  <1>3. PICK g : Sums(g, w, S)
    BY <1>1, SumsExist
  <1>4. \A t \in SUBSET S : f[t] <= g[t]
    <2> DEFINE T == {t \in SUBSET S : ~ (f[t] <= g[t])}
    <2> SUFFICES ASSUME T # {} PROVE FALSE
      OBVIOUS
    <2>0. T \in SUBSET (SUBSET S)
      OBVIOUS
    <2>1. PICK t \in T : \A y \in T : y \subseteq t => y = t
      <3> HIDE DEF T, S
      <3> QED BY <1>1, <2>0, SmallestSet
    <2>2. t # {}
      <3>1. f[{}] = 0 /\ g[{}] = 0
        BY <1>2, <1>3 DEF Sums, Adds
      <3>2. f[{}] <= g[{}]
        BY <3>1
      <3> QED BY <2>1, <3>2
    <2> DEFINE x == Chosen(t)
    <2>3. x \in t /\ t \ {x} # t /\ t \ {x} \in SUBSET S /\ x \in S
      BY <2>1, <2>2, ChosenIsIn
    <2>4. f[t \ {x}] <= g[t \ {x}]
      BY <2>1, <2>3
    <2>5. f[t] = v[x] + f[t \ {x}] /\ g[t] = w[x] + g[t \ {x}]
      BY <1>2, <1>3, <2>1, <2>2 DEF Sums, Adds
    <2>6. f[t \ {x}] \in Nat /\ g[t \ {x}] \in Nat /\ v[x] \in Nat /\ w[x] \in Nat
      BY <1>2, <1>3, <2>3 DEF Sums, Adds
    <2> QED BY <2>1, <2>3, <2>4, <2>5, <2>6
  <1>5. Total(v) = f[S] /\ Total(w) = g[S] /\ Total(v) \in Nat /\ Total(w) \in Nat
    BY <1>2, <1>3, TotalIs DEF Sums
  <1> QED BY <1>4, <1>5

\* TurnTokens and Spent are such totals.
TokensOf(b, u, n) == [k \in 1 .. MaxAnswers |-> LastTokens(b, <<u, k>>, n)]
SpentOf(ans, u) == [k \in 1 .. MaxAnswers |-> ans[<<u, k>>].tokens]
SpentIn(ans, u) == MapThenSumSet(LAMBDA k : ans[<<u, k>>].tokens, 1 .. MaxAnswers)

LEMMA TurnTokensAdd ==
  ASSUME NEW b, NEW n, LatestUser(b, n) # 0,
         TokensOf(b, LatestUser(b, n), n) \in [1 .. MaxAnswers -> Nat]
  PROVE  TurnTokens(b, n) = Total(TokensOf(b, LatestUser(b, n), n))
  <1> DEFINE S == 1 .. MaxAnswers
             u == LatestUser(b, n)
             v == TokensOf(b, u, n)
             Is(f) == f = [s \in SUBSET S |-> IF s = {} THEN 0
                       ELSE LastTokens(b, <<u, Chosen(s)>>, n) + f[s \ {Chosen(s)}]]
             F == CHOOSE f : Is(f)
  <1>1. TurnTokens(b, n) = F[S]
    BY DEF TurnTokens, MapThenSumSet, MapThenFoldSet, Chosen
  <1>2. PICK h : Sums(h, v, S)
    <2>1. IsFiniteSet(S) /\ v \in [S -> Nat]
      BY FS_Interval, BufAssumption
    <2> HIDE DEF v, S
    <2> QED BY <2>1, SumsExist
  <1>3. \A s \in SUBSET S : s # {} => v[Chosen(s)] = LastTokens(b, <<u, Chosen(s)>>, n)
    BY ChosenIsIn DEF TokensOf
  <1>4. Is(h)
    BY <1>2, <1>3 DEF Sums, Adds
  <1>5. Is(F)
    BY <1>4
  <1>6. Adds(F, v, S)
    <2> HIDE DEF F, v, S
    <2> QED BY <1>3, <1>5 DEF Adds
  <1> HIDE DEF F
  <1> QED BY <1>1, <1>6, TotalIs

LEMMA SpentAdds ==
  ASSUME NEW ans, NEW u, SpentOf(ans, u) \in [1 .. MaxAnswers -> Nat]
  PROVE  SpentIn(ans, u) = Total(SpentOf(ans, u))
  <1> DEFINE S == 1 .. MaxAnswers
             v == SpentOf(ans, u)
             Is(f) == f = [s \in SUBSET S |-> IF s = {} THEN 0
                       ELSE ans[<<u, Chosen(s)>>].tokens + f[s \ {Chosen(s)}]]
             F == CHOOSE f : Is(f)
  <1>1. SpentIn(ans, u) = F[S]
    BY DEF SpentIn, MapThenSumSet, MapThenFoldSet, Chosen
  <1>2. PICK h : Sums(h, v, S)
    <2>1. IsFiniteSet(S) /\ v \in [S -> Nat]
      BY FS_Interval, BufAssumption
    <2> HIDE DEF v, S
    <2> QED BY <2>1, SumsExist
  <1>3. \A s \in SUBSET S : s # {} => v[Chosen(s)] = ans[<<u, Chosen(s)>>].tokens
    BY ChosenIsIn DEF SpentOf
  <1>4. Is(h)
    BY <1>2, <1>3 DEF Sums, Adds
  <1>5. Is(F)
    BY <1>4
  <1>6. Adds(F, v, S)
    <2> HIDE DEF F, v, S
    <2> QED BY <1>3, <1>5 DEF Adds
  <1> HIDE DEF F
  <1> QED BY <1>1, <1>6, TotalIs

LEMMA SpentIs ==
  ASSUME NEW u
  PROVE  Spent(u) = SpentIn(answers, u) /\ Spent(u)' = SpentIn(answers', u)
  BY DEF Spent, SpentIn, MapThenSumSet, MapThenFoldSet

LEMMA InfosOf ==
  ASSUME NEW ans \in [AnswerIds -> Infos], NEW a \in AnswerIds
  PROVE  ans[a].tokens \in Nat
  <1>1. ans[a] \in Infos /\ MaxTokens \in Nat
    BY BufAssumption
  <1> QED BY <1>1 DEF Infos, NotBegun

-----------------------------------------------------------------------------
(* The derivations of a buffer *)

\* LatestUser and LastTokens, by what they find
LEMMA LatestUserIs ==
  ASSUME NEW b \in Seq(Entries), NEW n \in 0 .. Len(b)
  PROVE  /\ LatestUser(b, n) \in 0 .. MaxTurns
         /\ \A i \in 1 .. n : b[i].type = "user" => b[i].turn <= LatestUser(b, n)
         /\ LatestUser(b, n) # 0 => \E i \in 1 .. n : UserAt(b, i, LatestUser(b, n))
  <1> DEFINE S == {0} \cup {b[i].turn : i \in {j \in 1 .. n : b[j].type = "user"}}
  <1>1. \A i \in 1 .. n : b[i] \in Entries
    OBVIOUS
  <1>2. MaxTurns \in Nat /\ \A i \in 1 .. n : b[i].turn \in 0 .. MaxTurns
    BY <1>1, BufAssumption DEF Entries
  <1>3. S \in SUBSET (0 .. MaxTurns) /\ S # {}
    BY <1>2
  <1>4. Max(S) \in S /\ \A y \in S : Max(S) >= y
    <2> HIDE DEF S
    <2> QED BY <1>2, <1>3, GreatestIndex
  <1>5. \A i \in 1 .. n : b[i].type = "user" => b[i].turn \in S
    OBVIOUS
  <1>6. \A y \in S : y # 0 => \E i \in 1 .. n : UserAt(b, i, y)
    BY DEF UserAt
  <1>7. LatestUser(b, n) = Max(S)
    BY DEF LatestUser
  <1> HIDE DEF S
  <1>8. Max(S) \in 0 .. MaxTurns
    BY <1>3, <1>4
  <1>9. \A i \in 1 .. n : b[i].type = "user" => b[i].turn <= Max(S)
    BY <1>2, <1>4, <1>5, <1>8
  <1> QED BY <1>4, <1>6, <1>7, <1>8, <1>9

LastAt(b, a, n, i) == IsOf(b[i], a) /\ \A j \in 1 .. n : IsOf(b[j], a) => j <= i

LEMMA LastTokensAre ==
  ASSUME NEW b \in Seq(Entries), NEW n \in 0 .. Len(b), NEW a
  PROVE  /\ (\A i \in 1 .. n : ~ IsOf(b[i], a)) => LastTokens(b, a, n) = 0
         /\ \A i \in 1 .. n : LastAt(b, a, n, i) => LastTokens(b, a, n) = b[i].tokens
         /\ (\E i \in 1 .. n : IsOf(b[i], a)) => \E i \in 1 .. n : LastAt(b, a, n, i)
         /\ LastTokens(b, a, n) \in Nat
  <1> DEFINE of == {i \in 1 .. n : IsOf(b[i], a)}
  <1>1. n \in Nat /\ \A i \in 1 .. n : b[i] \in Entries
    OBVIOUS
  <1>2. ASSUME NEW i \in 1 .. n PROVE b[i].tokens \in Nat
    <2>1. b[i].tokens \in 0 .. MaxTokens /\ MaxTokens \in Nat
      BY <1>1, BufAssumption DEF Entries
    <2> QED BY <2>1
  <1>3. LastTokens(b, a, n) = IF of = {} THEN 0 ELSE b[Max(of)].tokens
    BY DEF LastTokens
  <1>4. of \in SUBSET (0 .. n)
    OBVIOUS
  <1>5. of # {} => Max(of) \in of /\ \A y \in of : Max(of) >= y
    <2> HIDE DEF of
    <2> QED BY <1>1, <1>4, GreatestIndex
  <1>6. \A i \in 1 .. n : LastAt(b, a, n, i) => i \in of /\ \A j \in of : j <= i
    BY DEF LastAt
  <1>7. \A i \in of : (\A j \in of : j <= i) => LastAt(b, a, n, i)
    BY DEF LastAt
  <1>8. \A i \in 1 .. n : i \in of <=> IsOf(b[i], a)
    OBVIOUS
  <1>9. of \subseteq 1 .. n
    OBVIOUS
  <1> HIDE DEF of
  <1>10. \A i \in 1 .. n : LastAt(b, a, n, i) => i = Max(of) /\ of # {}
    <2> SUFFICES ASSUME NEW i \in 1 .. n, LastAt(b, a, n, i) PROVE i = Max(of) /\ of # {}
      OBVIOUS
    <2>1. of # {} /\ Max(of) \in of /\ Max(of) >= i /\ Max(of) <= i
      BY <1>5, <1>6
    <2>2. Max(of) \in 1 .. n
      BY <1>9, <2>1
    <2> DEFINE m == Max(of)
    <2>3. m \in Nat /\ i \in Nat /\ m >= i /\ m <= i
      BY <2>1, <2>2
    <2> HIDE DEF m
    <2>4. m = i
      BY <2>3
    <2> QED BY <2>1, <2>4 DEF m
  <1>11. of # {} => LastAt(b, a, n, Max(of))
    BY <1>5, <1>7, <1>9
  <1>12. (\A i \in 1 .. n : ~ IsOf(b[i], a)) => LastTokens(b, a, n) = 0
    BY <1>3, <1>8, <1>9
  <1>13. \A i \in 1 .. n : LastAt(b, a, n, i) => LastTokens(b, a, n) = b[i].tokens
    BY <1>3, <1>10
  <1>14. (\E i \in 1 .. n : IsOf(b[i], a)) => \E i \in 1 .. n : LastAt(b, a, n, i)
    BY <1>5, <1>8, <1>9, <1>11
  <1>15. LastTokens(b, a, n) \in Nat
    <2>1. CASE of = {}
      BY <1>3, <2>1
    <2>2. CASE of # {}
      <3>1. Max(of) \in 1 .. n
        BY <1>5, <1>9, <2>2
      <3>2. b[Max(of)].tokens \in Nat
        BY <1>2, <3>1
      <3> QED BY <1>3, <2>2, <3>2
    <2> QED BY <2>1, <2>2
  <1> QED BY <1>12, <1>13, <1>14, <1>15

\* c continues b: the same entries, of which the first may be gone, and one more
Continues(b, c, d) ==
  /\ d \in {0, 1} /\ Len(c) = Len(b) + 1 - d /\ Len(b) >= d
  /\ \A i \in 1 .. Len(c) - 1 : i + d \in DOMAIN b /\ c[i] = b[i + d]

LEMMA BufferContinues ==
  ASSUME BufTyped, NEW e \in Entries, Buffered(e)
  PROVE  /\ \E d \in {0, 1} : /\ Continues(buffer, buffer', d)
                              /\ d = 1 /\ buffer[1].turn # 0 => buffer[1].turn \in evicted'
         /\ buffer' \in Seq(Entries) /\ Len(buffer') \in Nat /\ Len(buffer') >= 1
         /\ buffer'[Len(buffer')] = e /\ evicted \subseteq evicted'
  <1>1. buffer \in Seq(Entries) /\ Len(buffer) <= BufMax /\ BufMax \in Nat \ {0}
        /\ DOMAIN buffer = 1 .. Len(buffer) /\ Len(buffer) \in Nat
    BY BufAssumption DEF BufTyped
  <1>2. /\ buffer' \in Seq(Entries) /\ Len(buffer') \in Nat /\ Len(buffer') >= 1
        /\ buffer'[Len(buffer')] = e /\ evicted \subseteq evicted'
    BY BufferedLeaves
  <1>3. CASE Len(buffer) # BufMax
    <2>1. buffer' = Append(buffer, e)
      BY <1>3 DEF Buffered
    <2>2. Len(buffer') = Len(buffer) + 1 /\ \A i \in DOMAIN buffer : buffer'[i] = buffer[i]
      BY <1>1, <2>1, Lengthened
    <2>3. Continues(buffer, buffer', 0)
      BY <1>1, <2>2 DEF Continues
    <2> QED BY <1>2, <2>3
  <1>4. CASE Len(buffer) = BufMax
    <2> DEFINE q == Tail(buffer)
    <2>1. buffer' = Append(q, e) /\ buffer # <<>>
          /\ evicted' = IF Head(buffer).turn # 0 THEN evicted \cup {Head(buffer).turn} ELSE evicted
      BY <1>1, <1>4 DEF Buffered
    <2>2. /\ q \in Seq(Entries) /\ Len(q) = Len(buffer) - 1 /\ DOMAIN q = 1 .. Len(q)
          /\ Len(q) \in Nat /\ Head(buffer) = buffer[1]
          /\ \A i \in DOMAIN q : i + 1 \in DOMAIN buffer /\ q[i] = buffer[i + 1]
      BY <1>1, <2>1, Shortened
    <2> HIDE DEF q
    <2>3. Len(buffer') = Len(q) + 1 /\ \A i \in DOMAIN q : buffer'[i] = q[i]
      BY <2>1, <2>2, Lengthened
    <2>4. Len(buffer') - 1 = Len(q) /\ Len(buffer') = Len(buffer) + 1 - 1
      BY <1>1, <2>2, <2>3
    <2>5. \A i \in 1 .. Len(buffer') - 1 : i + 1 \in DOMAIN buffer /\ buffer'[i] = buffer[i + 1]
      BY <2>2, <2>3, <2>4
    <2>6. Continues(buffer, buffer', 1)
      BY <1>1, <1>4, <2>4, <2>5 DEF Continues
    <2> QED BY <1>2, <2>1, <2>2, <2>6
  <1> QED BY <1>3, <1>4

\* The total at n is a number, grows with n, and stays when the buffer continues.
LEMMA TurnTokensAre ==
  ASSUME NEW b \in Seq(Entries), NEW n \in 0 .. Len(b)
  PROVE  /\ TurnTokens(b, n) \in Nat
         /\ LatestUser(b, n) # 0 =>
              /\ TurnTokens(b, n) = Total(TokensOf(b, LatestUser(b, n), n))
              /\ TokensOf(b, LatestUser(b, n), n) \in [1 .. MaxAnswers -> Nat]
  <1> DEFINE u == LatestUser(b, n)
  <1>1. TokensOf(b, u, n) \in [1 .. MaxAnswers -> Nat]
    BY LastTokensAre DEF TokensOf
  <1>2. u # 0 => TurnTokens(b, n) = Total(TokensOf(b, u, n)) /\ Total(TokensOf(b, u, n)) \in Nat
    <2>1. \A k \in 1 .. MaxAnswers : TokensOf(b, u, n)[k] <= TokensOf(b, u, n)[k]
      BY <1>1
    <2>2. Total(TokensOf(b, u, n)) \in Nat
      BY <1>1, <2>1, TotalGrows
    <2> QED BY <1>1, <2>2, TurnTokensAdd
  <1>3. u = 0 => TurnTokens(b, n) = 0
    BY DEF TurnTokens
  <1> QED BY <1>1, <1>2, <1>3

LEMMA TurnTokensGrow ==
  ASSUME NEW b \in Seq(Entries), NEW m \in 0 .. Len(b), NEW n \in 0 .. Len(b), m <= n,
         NEW u, u # 0, LatestUser(b, m) = u, LatestUser(b, n) = u,
         \A k \in 1 .. MaxAnswers, i, j \in 1 .. n :
           i < j /\ IsOf(b[i], <<u, k>>) /\ IsOf(b[j], <<u, k>>) => b[i].tokens <= b[j].tokens
  PROVE  TurnTokens(b, m) <= TurnTokens(b, n)
  <1>1. ASSUME NEW k \in 1 .. MaxAnswers
        PROVE  LastTokens(b, <<u, k>>, m) <= LastTokens(b, <<u, k>>, n)
    <2> DEFINE a == <<u, k>>
    <2>1. m \in Nat /\ n \in Nat /\ 1 .. m \subseteq 1 .. n
      OBVIOUS
    <2>2. LastTokens(b, a, m) \in Nat /\ LastTokens(b, a, n) \in Nat
      BY LastTokensAre
    <2>3. CASE \A i \in 1 .. m : ~ IsOf(b[i], a)
      <3>1. LastTokens(b, a, m) = 0
        BY <2>3, LastTokensAre
      <3> QED BY <2>2, <3>1
    <2>4. CASE \E i \in 1 .. m : IsOf(b[i], a)
      <3>1. PICK i \in 1 .. m : LastAt(b, a, m, i)
        BY <2>4, LastTokensAre
      <3>2. PICK j \in 1 .. n : LastAt(b, a, n, j)
        BY <2>1, <2>4, LastTokensAre
      <3>3. LastTokens(b, a, m) = b[i].tokens /\ LastTokens(b, a, n) = b[j].tokens
        BY <3>1, <3>2, LastTokensAre
      <3>4. IsOf(b[i], a) /\ IsOf(b[j], a) /\ i <= j /\ i \in 1 .. n
        BY <2>1, <3>1, <3>2 DEF LastAt
      <3>5. CASE i = j
        BY <2>2, <3>3, <3>5
      <3>6. CASE i < j
        BY <3>3, <3>4, <3>6
      <3> QED BY <3>4, <3>5, <3>6
    <2> QED BY <2>3, <2>4
  <1>2. /\ TokensOf(b, u, m) \in [1 .. MaxAnswers -> Nat] /\ TurnTokens(b, m) = Total(TokensOf(b, u, m))
        /\ TokensOf(b, u, n) \in [1 .. MaxAnswers -> Nat] /\ TurnTokens(b, n) = Total(TokensOf(b, u, n))
    BY TurnTokensAre
  <1>3. \A k \in 1 .. MaxAnswers : TokensOf(b, u, m)[k] <= TokensOf(b, u, n)[k]
    BY <1>1 DEF TokensOf
  <1> QED BY <1>2, <1>3, TotalGrows

LEMMA LastTokensStay ==
  ASSUME NEW b \in Seq(Entries), NEW c \in Seq(Entries), NEW d \in {0, 1}, Continues(b, c, d),
         NEW n \in 0 .. Len(c) - 1, NEW a, d = 1 => ~ IsOf(b[1], a)
  PROVE  LastTokens(c, a, n) = LastTokens(b, a, n + d)
  <1>1. /\ Len(b) \in Nat /\ Len(c) \in Nat /\ Len(c) = Len(b) + 1 - d /\ n \in Nat
        /\ n \in 0 .. Len(c) /\ n + d \in 0 .. Len(b)
    <2>1. Len(b) \in Nat /\ Len(c) \in Nat /\ Len(c) = Len(b) + 1 - d
      BY DEF Continues
    <2> QED BY <2>1
  <1>2. \A i \in 1 .. n : i + d \in 1 .. n + d /\ c[i] = b[i + d]
    <2>1. \A i \in 1 .. Len(c) - 1 : c[i] = b[i + d]
      BY DEF Continues
    <2>2. \A i \in 1 .. n : i \in 1 .. Len(c) - 1 /\ i + d \in 1 .. n + d
      BY <1>1
    <2> QED BY <2>1, <2>2
  <1>3. \A j \in 1 .. n + d : j - d \in 1 .. n \/ (d = 1 /\ j = 1)
    BY <1>1
  <1>4. \A j \in 1 .. n + d : IsOf(b[j], a) => j - d \in 1 .. n /\ IsOf(c[j - d], a)
    <2> SUFFICES ASSUME NEW j \in 1 .. n + d, IsOf(b[j], a)
                 PROVE  j - d \in 1 .. n /\ IsOf(c[j - d], a)
      OBVIOUS
    <2>1. j - d \in 1 .. n
      BY <1>3
    <2>2. j - d + d = j
      OBVIOUS
    <2> QED BY <1>2, <2>1, <2>2
  <1>5. CASE \A i \in 1 .. n : ~ IsOf(c[i], a)
    <2>1. \A j \in 1 .. n + d : ~ IsOf(b[j], a)
      BY <1>4, <1>5
    <2>2. LastTokens(c, a, n) = 0
      BY <1>1, <1>5, LastTokensAre
    <2>3. LastTokens(b, a, n + d) = 0
      BY <1>1, <2>1, LastTokensAre
    <2> QED BY <2>2, <2>3
  <1>6. CASE \E i \in 1 .. n : IsOf(c[i], a)
    <2>1. PICK i \in 1 .. n : LastAt(c, a, n, i)
      BY <1>1, <1>6, LastTokensAre
    <2>2. LastTokens(c, a, n) = c[i].tokens
      BY <1>1, <2>1, LastTokensAre
    <2>3. LastAt(b, a, n + d, i + d)
      <3>1. IsOf(b[i + d], a)
        BY <1>2, <2>1 DEF LastAt
      <3>2. ASSUME NEW j \in 1 .. n + d, IsOf(b[j], a) PROVE j <= i + d
        <4>1. j - d <= i
          BY <1>4, <2>1, <3>2 DEF LastAt
        <4> QED BY <4>1
      <3> QED BY <3>1, <3>2 DEF LastAt
    <2>4. LastTokens(b, a, n + d) = b[i + d].tokens
      BY <1>1, <1>2, <2>3, LastTokensAre
    <2> QED BY <1>2, <2>2, <2>4
  <1> QED BY <1>5, <1>6

LEMMA LatestUserAt ==
  ASSUME NEW b \in Seq(Entries), NEW n \in 0 .. Len(b), NEW u \in Turns,
         \E i \in 1 .. n : UserAt(b, i, u), \A i \in 1 .. n : b[i].turn <= u
  PROVE  LatestUser(b, n) = u
  <1>1. u \in Nat /\ u # 0 /\ MaxTurns \in Nat
    BY BufAssumption DEF Turns
  <1> DEFINE w == LatestUser(b, n)
  <1>2. /\ w \in 0 .. MaxTurns /\ \A i \in 1 .. n : b[i].type = "user" => b[i].turn <= w
        /\ w # 0 => \E i \in 1 .. n : UserAt(b, i, w)
    BY LatestUserIs
  <1> HIDE DEF w
  <1>3. w \in Nat /\ u <= w
    BY <1>1, <1>2 DEF UserAt
  <1>4. w <= u
    BY <1>1, <1>2, <1>3 DEF UserAt
  <1>5. w = u
    BY <1>1, <1>3, <1>4
  <1> QED BY <1>5 DEF w

LEMMA TurnTokensStay ==
  ASSUME NEW b \in Seq(Entries), NEW c \in Seq(Entries), NEW d \in {0, 1}, Continues(b, c, d),
         NEW n \in 0 .. Len(c) - 1, NEW u \in Turns, d = 1 => b[1].turn # u,
         LatestUser(c, n) = u, LatestUser(b, n + d) = u
  PROVE  TurnTokens(c, n) = TurnTokens(b, n + d)
  <1>1. n \in 0 .. Len(c) /\ n + d \in 0 .. Len(b) /\ u # 0
    <2>1. Len(b) \in Nat /\ Len(c) \in Nat /\ Len(c) = Len(b) + 1 - d
      BY DEF Continues
    <2>2. n \in 0 .. Len(c) /\ n + d \in 0 .. Len(b)
      BY <2>1
    <2>3. u # 0
      BY DEF Turns
    <2> QED BY <2>2, <2>3
  <1>2. \A k \in 1 .. MaxAnswers : d = 1 => ~ IsOf(b[1], <<u, k>>)
    BY DEF IsOf
  <1>3. \A k \in 1 .. MaxAnswers : LastTokens(c, <<u, k>>, n) = LastTokens(b, <<u, k>>, n + d)
    BY <1>2, LastTokensStay
  <1>4. TokensOf(c, u, n) = TokensOf(b, u, n + d)
    BY <1>3 DEF TokensOf
  <1> QED BY <1>1, <1>4, TurnTokensAre

LEMMA IdlesAre ==
  ASSUME NEW b \in Seq(Entries), NEW n \in 0 .. Len(b), NEW u, Idles(b, u, n) # {}
  PROVE  /\ Max(Idles(b, u, n)) \in Idles(b, u, n) /\ Max(Idles(b, u, n)) \in 1 .. n
         /\ \A i \in Idles(b, u, n) : i <= Max(Idles(b, u, n))
  <1> DEFINE is == Idles(b, u, n)
  <1>1. n \in Nat /\ is \in SUBSET (0 .. n) /\ is \subseteq 1 .. n
    BY DEF Idles
  <1> HIDE DEF is
  <1>2. is # {} => Max(is) \in is /\ \A y \in is : Max(is) >= y
    BY <1>1, GreatestIndex
  <1>3. is # {} => \A y \in is : y <= Max(is)
    BY <1>1, <1>2
  <1> QED BY <1>1, <1>2, <1>3 DEF is

LEMMA CountedIs ==
  ASSUME NEW b \in Seq(Entries), NEW n \in 0 .. Len(b), NEW u
  PROVE  Counted(b, u, n) \in Nat
  <1>1. CASE Idles(b, u, n) = {}
    BY <1>1 DEF Counted
  <1>2. CASE Idles(b, u, n) # {}
    <2> DEFINE m == Max(Idles(b, u, n))
    <2>1. m \in 1 .. n
      BY <1>2, IdlesAre
    <2> HIDE DEF m
    <2>2. TurnTokens(b, m) \in Nat
      BY <2>1, TurnTokensAre
    <2> QED BY <1>2, <2>2 DEF Counted, m
  <1> QED BY <1>1, <1>2

\* The turn that was counted is the one it was counted for.
LEMMA CountedIsOf ==
  ASSUME NEW b \in Seq(Entries), NEW n \in 0 .. Len(b), NEW u \in Turns,
         \A i \in 1 .. n : b[i].turn <= u
  PROVE  /\ Counted(b, u, n) \in Nat
         /\ \A i \in Idles(b, u, n) : LatestUser(b, i) = u /\ i \in 1 .. n /\ i \in 0 .. Len(b)
  <1>1. ASSUME NEW i \in Idles(b, u, n)
        PROVE  LatestUser(b, i) = u /\ i \in 1 .. n /\ i \in 0 .. Len(b)
    <2>1. PICK f \in 1 .. n : f < i /\ UserAt(b, f, u) /\ i \in 1 .. n
      BY <1>1 DEF Idles
    <2>2. f \in 1 .. i /\ i \in 0 .. Len(b) /\ 1 .. i \subseteq 1 .. n
      BY <2>1
    <2> QED BY <2>1, <2>2, LatestUserAt
  <1> QED BY <1>1, CountedIs

LEMMA CountedStays ==
  ASSUME NEW b \in Seq(Entries), NEW c \in Seq(Entries), NEW d \in {0, 1}, Continues(b, c, d),
         NEW u \in Turns, d = 1 => b[1].turn # u, \A i \in 1 .. Len(b) : b[i].turn <= u
  PROVE  Counted(c, u, Len(c) - 1) = Counted(b, u, Len(b))
  <1> DEFINE n == Len(c) - 1
             is == Idles(c, u, n)
             js == Idles(b, u, Len(b))
  <1>1. /\ Len(b) \in Nat /\ Len(c) \in Nat /\ n \in 0 .. Len(c) /\ n \in Nat /\ Len(b) = n + d
        /\ Len(b) \in 0 .. Len(b)
    BY DEF Continues
  <1>2. \A i \in 1 .. n : i + d \in 1 .. Len(b) /\ c[i] = b[i + d]
    BY <1>1 DEF Continues
  <1>3. \A i \in 1 .. n : c[i].turn <= u
    BY <1>2
  <1>4. \A j \in 1 .. Len(b) : j - d \in 1 .. n \/ (d = 1 /\ j = 1)
    BY <1>1
  <1>5. ASSUME NEW i \in 1 .. n PROVE i \in is <=> i + d \in js
    <2>1. ASSUME i \in is PROVE i + d \in js
      <3>1. PICK f \in 1 .. n : f < i /\ UserAt(c, f, u) /\ c[i].type = "idle"
        BY <2>1 DEF Idles
      <3>2. f + d \in 1 .. Len(b) /\ f + d < i + d /\ UserAt(b, f + d, u)
        BY <1>1, <1>2, <3>1 DEF UserAt
      <3>3. i + d \in 1 .. Len(b) /\ b[i + d].type = "idle"
        BY <1>2, <3>1
      <3> QED BY <3>2, <3>3 DEF Idles
    <2>2. ASSUME i + d \in js PROVE i \in is
      <3>1. PICK f \in 1 .. Len(b) : f < i + d /\ UserAt(b, f, u) /\ b[i + d].type = "idle"
        BY <2>2 DEF Idles
      <3>2. f - d \in 1 .. n
        BY <1>4, <3>1 DEF UserAt
      <3>3. f - d + d = f /\ f - d < i
        BY <1>1, <3>1
      <3>4. UserAt(c, f - d, u) /\ c[i].type = "idle"
        BY <1>2, <3>1, <3>2, <3>3 DEF UserAt
      <3> QED BY <3>2, <3>3, <3>4 DEF Idles
    <2> QED BY <2>1, <2>2
  <1>6. \A j \in js : j - d \in 1 .. n /\ j - d \in is /\ j \in 1 .. Len(b)
    <2> SUFFICES ASSUME NEW j \in js PROVE j - d \in 1 .. n /\ j - d \in is /\ j \in 1 .. Len(b)
      OBVIOUS
    <2>1. PICK f \in 1 .. Len(b) : f < j /\ UserAt(b, f, u) /\ j \in 1 .. Len(b)
      BY DEF Idles
    <2>2. j # 1
      BY <2>1
    <2>3. j - d \in 1 .. n /\ j - d + d = j
      BY <1>1, <1>4, <2>1, <2>2
    <2> QED BY <1>5, <2>1, <2>3
  <1>7. is \subseteq 1 .. n
    BY DEF Idles
  <1>8. CASE is = {}
    <2>1. js = {}
      BY <1>6, <1>8
    <2> QED BY <1>8, <2>1 DEF Counted
  <1>9. CASE is # {}
    <2>1. js # {}
      BY <1>5, <1>7, <1>9
    <2>2. Max(is) \in is /\ Max(is) \in 1 .. n /\ \A i \in is : i <= Max(is)
      BY <1>1, <1>9, IdlesAre
    <2>3. Max(js) \in js /\ \A j \in js : j <= Max(js)
      BY <1>1, <2>1, IdlesAre
    <2> DEFINE m == Max(is)
    <2>4. Max(js) = m + d
      <3>1. m + d \in js
        BY <1>5, <2>2
      <3>2. m + d <= Max(js) /\ Max(js) - d <= m /\ Max(js) \in 1 .. Len(b)
        BY <1>6, <2>2, <2>3, <3>1
      <3> QED BY <1>1, <2>2, <3>2
    <2>5. m \in 0 .. Len(c) - 1 /\ m \in is /\ m + d \in js
      BY <2>2, <2>3, <2>4
    <2> HIDE DEF m, is, js
    <2>6. LatestUser(c, m) = u /\ LatestUser(b, m + d) = u
      <3>1. \A i \in Idles(c, u, n) : LatestUser(c, i) = u
        BY <1>1, <1>3, CountedIsOf
      <3>2. \A i \in Idles(b, u, Len(b)) : LatestUser(b, i) = u
        BY <1>1, CountedIsOf
      <3> QED BY <2>5, <3>1, <3>2 DEF is, js
    <2>7. TurnTokens(c, m) = TurnTokens(b, m + d)
      BY <2>5, <2>6, TurnTokensStay
    <2> QED BY <1>9, <2>1, <2>4, <2>7 DEF Counted, m, is, js
  <1> QED BY <1>8, <1>9

\* A new entry: what was counted grows, and at an idle it is what is used now.
LEMMA CountedGrows ==
  ASSUME NEW c \in Seq(Entries), Len(c) >= 1, NEW u \in Turns, \A i \in 1 .. Len(c) : c[i].turn <= u,
         \A k \in 1 .. MaxAnswers, i, j \in 1 .. Len(c) :
           i < j /\ IsOf(c[i], <<u, k>>) /\ IsOf(c[j], <<u, k>>) => c[i].tokens <= c[j].tokens
  PROVE  /\ Counted(c, u, Len(c) - 1) \in Nat /\ Counted(c, u, Len(c)) \in Nat
         /\ Counted(c, u, Len(c) - 1) <= Counted(c, u, Len(c))
  <1> DEFINE n == Len(c)
             is == Idles(c, u, n - 1)
             js == Idles(c, u, n)
  <1>1. n \in Nat /\ n - 1 \in 0 .. Len(c) /\ n \in 0 .. Len(c) /\ 1 .. n - 1 \subseteq 1 .. n
    OBVIOUS
  <1>2. Counted(c, u, n - 1) \in Nat /\ \A i \in is : LatestUser(c, i) = u /\ i \in 1 .. n - 1
    BY <1>1, CountedIsOf
  <1>3. Counted(c, u, n) \in Nat /\ \A i \in js : LatestUser(c, i) = u /\ i \in 1 .. n
    BY <1>1, CountedIsOf
  <1>4. is \subseteq js
    BY <1>1 DEF Idles
  <1>5. CASE is = {}
    <2>1. Counted(c, u, n - 1) = 0
      BY <1>5 DEF Counted
    <2> QED BY <1>2, <1>3, <2>1
  <1>6. CASE is # {}
    <2> DEFINE m == Max(is)
               l == Max(js)
    <2>1. m \in is /\ js # {}
      BY <1>1, <1>4, <1>6, IdlesAre
    <2>2. l \in js /\ m <= l
      BY <1>1, <1>4, <2>1, IdlesAre
    <2>3. Counted(c, u, n - 1) = TurnTokens(c, m) /\ Counted(c, u, n) = TurnTokens(c, l)
      BY <1>6, <2>1 DEF Counted
    <2> HIDE DEF m, l, is, js
    <2>4. LatestUser(c, m) = u /\ LatestUser(c, l) = u /\ m \in 0 .. Len(c) /\ l \in 0 .. Len(c)
      BY <1>1, <1>2, <1>3, <2>1, <2>2
    <2>5. u # 0 /\ 1 .. l \subseteq 1 .. Len(c)
      BY <2>4 DEF Turns
    <2>6. TurnTokens(c, m) <= TurnTokens(c, l)
      BY <2>2, <2>4, <2>5, TurnTokensGrow
    <2> QED BY <1>2, <1>3, <2>3, <2>6
  <1> QED BY <1>5, <1>6

LEMMA CountedHere ==
  ASSUME NEW c \in Seq(Entries), Len(c) >= 1, NEW u \in Turns, LatestUser(c, Len(c)) = u,
         c[Len(c)].type = "idle"
  PROVE  /\ Counted(c, u, Len(c)) = TurnTokens(c, Len(c))
         /\ TokensBefore(c, u, Len(c)) = Counted(c, u, Len(c) - 1)
  <1> DEFINE n == Len(c)
             is == Idles(c, u, n - 1)
             js == Idles(c, u, n)
             us == {i \in 1 .. n : UserAt(c, i, u)}
             f == Min(us)
  <1>1. n \in Nat /\ n \in 0 .. Len(c) /\ n \in 1 .. n /\ 1 .. n - 1 \subseteq 1 .. n
    OBVIOUS
  <1>2. PICK i \in 1 .. n : UserAt(c, i, u)
    BY <1>1, LatestUserIs DEF Turns
  <1>3. i < n
    <2>1. i # n
      BY <1>2 DEF UserAt
    <2> QED BY <2>1
  <1>4. n \in js
    BY <1>1, <1>2, <1>3 DEF Idles
  <1>5. Max(js) = n
    <2>1. Max(js) \in 1 .. n /\ n <= Max(js)
      BY <1>1, <1>4, IdlesAre
    <2> DEFINE m == Max(js)
    <2> HIDE DEF m, js
    <2>2. m \in 1 .. n /\ n <= m
      BY <2>1 DEF m
    <2>3. m = n
      BY <2>2
    <2> QED BY <2>3 DEF m
  <1>6. Counted(c, u, n) = TurnTokens(c, n)
    BY <1>4, <1>5 DEF Counted
  <1>7. us \in SUBSET (0 .. n) /\ us # {}
    BY <1>2
  <1>8. f \in us /\ \A j \in us : f <= j
    <2> HIDE DEF us
    <2> QED BY <1>1, <1>7, SmallestIndex
  <1>9. f = Min({j \in 1 .. n : c[j].type = "user" /\ c[j].turn = u})
    BY DEF UserAt
  <1>10. \A j \in 1 .. n : j \in us <=> UserAt(c, j, u)
    OBVIOUS
  <1>11. us \subseteq 1 .. n
    OBVIOUS
  <1> HIDE DEF us, f
  <1>12. f \in Nat /\ f >= 1
    BY <1>8, <1>11
  <1> DEFINE before == {j \in f + 1 .. n - 1 : c[j].type = "idle"}
  <1>13. before = is
    <2>1. ASSUME NEW j \in before PROVE j \in is
      <3>1. j \in 1 .. n - 1 /\ c[j].type = "idle" /\ f < j
        BY <1>12
      <3>2. f \in 1 .. n - 1 /\ UserAt(c, f, u)
        BY <1>8, <1>10, <1>11, <3>1
      <3> QED BY <3>1, <3>2 DEF Idles
    <2>2. ASSUME NEW j \in is PROVE j \in before
      <3>1. PICK g \in 1 .. n - 1 : g < j /\ UserAt(c, g, u)
        BY DEF Idles
      <3>2. j \in 1 .. n - 1 /\ c[j].type = "idle"
        BY DEF Idles
      <3>3. f <= g
        BY <1>1, <1>8, <1>10, <3>1
      <3>4. j \in f + 1 .. n - 1
        BY <1>12, <3>1, <3>2, <3>3
      <3> QED BY <3>2, <3>4
    <2> QED BY <2>1, <2>2
  <1>14. TokensBefore(c, u, n) = IF before = {} THEN 0 ELSE TurnTokens(c, Max(before))
    BY <1>9 DEF TokensBefore
  <1>15. TokensBefore(c, u, n) = Counted(c, u, n - 1)
    BY <1>13, <1>14 DEF Counted
  <1> QED BY <1>6, <1>15

\* What the answers of a turn have come to
LEMMA SpentBounds ==
  ASSUME NEW ans \in [AnswerIds -> Infos], NEW b \in Seq(Entries), NEW n \in 0 .. Len(b), NEW u \in Turns,
         LatestUser(b, n) = u,
         \A k \in 1 .. MaxAnswers, i \in 1 .. n :
           IsOf(b[i], <<u, k>>) => b[i].tokens <= ans[<<u, k>>].tokens
  PROVE  TurnTokens(b, n) <= SpentIn(ans, u)
  <1>1. SpentOf(ans, u) \in [1 .. MaxAnswers -> Nat]
    BY InfosOf DEF SpentOf, AnswerIds
  <1>2. u # 0 /\ \A i \in 1 .. n : b[i].tokens \in Nat
    <2>1. \A i \in 1 .. n : b[i] \in Entries
      OBVIOUS
    <2>2. \A i \in 1 .. n : b[i].tokens \in 0 .. MaxTokens
      BY <2>1 DEF Entries
    <2> QED BY <2>2, BufAssumption DEF Turns
  <1>3. /\ TokensOf(b, u, n) \in [1 .. MaxAnswers -> Nat]
        /\ TurnTokens(b, n) = Total(TokensOf(b, u, n))
    BY <1>2, TurnTokensAre
  <1>4. ASSUME NEW k \in 1 .. MaxAnswers
        PROVE  LastTokens(b, <<u, k>>, n) <= ans[<<u, k>>].tokens
    <2>1. ans[<<u, k>>].tokens \in Nat
      BY InfosOf DEF AnswerIds
    <2>2. CASE \A i \in 1 .. n : ~ IsOf(b[i], <<u, k>>)
      <3>1. LastTokens(b, <<u, k>>, n) = 0
        BY <2>2, LastTokensAre
      <3> QED BY <2>1, <3>1
    <2>3. CASE \E i \in 1 .. n : IsOf(b[i], <<u, k>>)
      <3>1. PICK i \in 1 .. n : LastAt(b, <<u, k>>, n, i)
        BY <2>3, LastTokensAre
      <3>2. LastTokens(b, <<u, k>>, n) = b[i].tokens
        BY <3>1, LastTokensAre
      <3> QED BY <3>1, <3>2 DEF LastAt
    <2> QED BY <2>2, <2>3
  <1>5. \A k \in 1 .. MaxAnswers : TokensOf(b, u, n)[k] <= SpentOf(ans, u)[k]
    BY <1>4 DEF TokensOf, SpentOf
  <1> QED BY <1>1, <1>3, <1>5, TotalGrows, SpentAdds

LEMMA SpentGrows ==
  ASSUME NEW ans \in [AnswerIds -> Infos], NEW later \in [AnswerIds -> Infos], NEW u \in Turns,
         \A a \in AnswerIds : ans[a].tokens <= later[a].tokens
  PROVE  /\ SpentIn(ans, u) <= SpentIn(later, u)
         /\ SpentIn(ans, u) \in Nat /\ SpentIn(later, u) \in Nat
  <1>1. /\ SpentOf(ans, u) \in [1 .. MaxAnswers -> Nat]
        /\ SpentOf(later, u) \in [1 .. MaxAnswers -> Nat]
    BY InfosOf DEF SpentOf, AnswerIds
  <1>2. \A k \in 1 .. MaxAnswers : SpentOf(ans, u)[k] <= SpentOf(later, u)[k]
    BY DEF SpentOf, AnswerIds
  <1> QED BY <1>1, <1>2, TotalGrows, SpentAdds

\* What is left of the buffer after a new entry, and the steps of the parts of BillInv
LEMMA EntriesMove ==
  ASSUME NEW b \in Seq(Entries), NEW c \in Seq(Entries), NEW d \in {0, 1}, Continues(b, c, d)
  PROVE  /\ \A i \in DOMAIN b : ~ (d = 1 /\ i = 1) =>
              i - d \in 1 .. Len(c) - 1 /\ i - d \in DOMAIN c /\ c[i - d] = b[i]
         /\ \A i \in DOMAIN c : i = Len(c) \/ (i + d \in DOMAIN b /\ c[i] = b[i + d])
         /\ Len(c) \in DOMAIN c
  <1>1. /\ Len(b) \in Nat /\ Len(c) \in Nat /\ Len(c) = Len(b) + 1 - d
        /\ DOMAIN b = 1 .. Len(b) /\ DOMAIN c = 1 .. Len(c) /\ Len(b) >= d
        /\ \A i \in 1 .. Len(c) - 1 : i + d \in DOMAIN b /\ c[i] = b[i + d]
    BY DEF Continues
  <1>2. ASSUME NEW i \in DOMAIN b, ~ (d = 1 /\ i = 1)
        PROVE  i - d \in 1 .. Len(c) - 1 /\ i - d \in DOMAIN c /\ c[i - d] = b[i]
    <2>1. i - d \in 1 .. Len(c) - 1 /\ i - d + d = i
      BY <1>1, <1>2
    <2> QED BY <1>1, <2>1
  <1>3. Len(c) \in DOMAIN c
    BY <1>1
  <1>4. \A i \in DOMAIN c : i = Len(c) \/ i \in 1 .. Len(c) - 1
    BY <1>1
  <1> QED BY <1>1, <1>2, <1>3, <1>4

LEMMA TurnsStayInOrder ==
  ASSUME BufInv, TurnsInOrder, NEW e \in Entries, Buffered(e),
         \/ userTurn' = userTurn
         \/ userTurn' = userTurn + 1 /\ e.type = "user" /\ e.turn = userTurn'
  PROVE  TurnsInOrder'
  <1> SUFFICES ASSUME NEW u \in Turns, u \notin evicted', u < userTurn'
               PROVE  \E i, j \in DOMAIN buffer' :
                        i < j /\ UserAt(buffer', i, u) /\ UserAt(buffer', j, userTurn')
    BY DEF TurnsInOrder
  <1>1. PICK d \in {0, 1} : /\ Continues(buffer, buffer', d)
                            /\ d = 1 /\ buffer[1].turn # 0 => buffer[1].turn \in evicted'
    BY BufferContinues DEF BufInv
  <1>2. /\ buffer \in Seq(Entries) /\ buffer' \in Seq(Entries) /\ Len(buffer') \in Nat
        /\ buffer'[Len(buffer')] = e /\ evicted \subseteq evicted' /\ DOMAIN buffer \subseteq Nat
    BY BufferContinues DEF BufInv, BufTyped
  <1>3. u # 0 /\ u \in Nat /\ userTurn \in Nat
    BY BufAssumption DEF Turns, BufInv, BufTyped
  <1>4. ASSUME NEW i \in DOMAIN buffer, UserAt(buffer, i, u)
        PROVE  /\ ~ (d = 1 /\ i = 1) /\ i - d \in 1 .. Len(buffer') - 1 /\ i - d \in DOMAIN buffer'
               /\ UserAt(buffer', i - d, u)
    <2>1. ~ (d = 1 /\ i = 1)
      BY <1>1, <1>3, <1>4 DEF UserAt
    <2> QED BY <1>1, <1>2, <1>4, <2>1, EntriesMove DEF UserAt
  <1>5. CASE userTurn' = userTurn
    <2>1. PICK i, j \in DOMAIN buffer :
            i < j /\ UserAt(buffer, i, u) /\ UserAt(buffer, j, userTurn)
      BY <1>2, <1>5 DEF TurnsInOrder
    <2>2. ~ (d = 1 /\ j = 1) /\ i - d < j - d
      BY <1>2, <1>4, <2>1
    <2>3. j - d \in DOMAIN buffer' /\ UserAt(buffer', j - d, userTurn')
      BY <1>1, <1>2, <1>5, <2>1, <2>2, EntriesMove DEF UserAt
    <2> QED BY <1>4, <2>1, <2>2, <2>3
  <1>6. CASE userTurn' = userTurn + 1 /\ e.type = "user" /\ e.turn = userTurn'
    <2>1. PICK i \in DOMAIN buffer : UserAt(buffer, i, u)
      <3>1. CASE u < userTurn
        BY <1>2, <3>1 DEF TurnsInOrder
      <3>2. CASE u = userTurn
        BY <1>2, <1>3, <3>2 DEF BufInv, TurnSeen, UserAt
      <3> QED BY <1>3, <1>6, <3>1, <3>2
    <2>2. i - d < Len(buffer')
      BY <1>2, <1>4, <2>1
    <2>3. Len(buffer') \in DOMAIN buffer' /\ UserAt(buffer', Len(buffer'), userTurn')
      BY <1>1, <1>2, <1>6, EntriesMove DEF UserAt
    <2> QED BY <1>4, <2>1, <2>2, <2>3
  <1> QED BY <1>5, <1>6

LEMMA SnapshotsStillGrow ==
  ASSUME BufTyped, SnapshotsGrow, NEW e \in Entries, Buffered(e),
         answers' \in [AnswerIds -> Infos],
         \A a \in AnswerIds : /\ answers[a].tokens <= answers'[a].tokens
                              /\ IsOf(e, a) => e.tokens = answers'[a].tokens
  PROVE  SnapshotsGrow'
  <1>1. PICK d \in {0, 1} : Continues(buffer, buffer', d)
    BY BufferContinues
  <1>2. /\ buffer \in Seq(Entries) /\ buffer' \in Seq(Entries) /\ Len(buffer') \in Nat
        /\ buffer'[Len(buffer')] = e /\ DOMAIN buffer' = 1 .. Len(buffer')
    BY BufferContinues DEF BufTyped
  <1>3. \A i \in DOMAIN buffer' : \/ i = Len(buffer') /\ buffer'[i] = e
                                  \/ i + d \in DOMAIN buffer /\ buffer'[i] = buffer[i + d]
    BY <1>1, <1>2, EntriesMove
  <1>4. \A i \in DOMAIN buffer : buffer[i].tokens \in Nat
    <2>1. \A i \in DOMAIN buffer : buffer[i] \in Entries
      BY <1>2
    <2>2. \A i \in DOMAIN buffer : buffer[i].tokens \in 0 .. MaxTokens
      BY <2>1 DEF Entries
    <2> QED BY <2>2, BufAssumption
  <1> SUFFICES ASSUME NEW a \in AnswerIds
               PROVE  /\ \A i \in DOMAIN buffer' : IsOf(buffer'[i], a) =>
                           buffer'[i].tokens <= answers'[a].tokens
                      /\ \A i, j \in DOMAIN buffer' :
                           i < j /\ IsOf(buffer'[i], a) /\ IsOf(buffer'[j], a) =>
                             buffer'[i].tokens <= buffer'[j].tokens
    BY DEF SnapshotsGrow
  <1>5. answers[a].tokens \in Nat /\ answers'[a].tokens \in Nat
    BY InfosOf DEF BufTyped
  <1>6. \A i \in DOMAIN buffer : IsOf(buffer[i], a) => buffer[i].tokens <= answers'[a].tokens
    BY <1>4, <1>5 DEF SnapshotsGrow
  <1>7. ASSUME NEW i \in DOMAIN buffer', IsOf(buffer'[i], a)
        PROVE  buffer'[i].tokens <= answers'[a].tokens
    <2>1. CASE i = Len(buffer') /\ buffer'[i] = e
      BY <1>5, <1>7, <2>1
    <2>2. CASE i + d \in DOMAIN buffer /\ buffer'[i] = buffer[i + d]
      BY <1>6, <1>7, <2>2
    <2> QED BY <1>3, <2>1, <2>2
  <1>8. ASSUME NEW i \in DOMAIN buffer', NEW j \in DOMAIN buffer', i < j,
               IsOf(buffer'[i], a), IsOf(buffer'[j], a)
        PROVE  buffer'[i].tokens <= buffer'[j].tokens
    <2>1. CASE j = Len(buffer') /\ buffer'[j] = e
      <3>1. buffer'[j].tokens = answers'[a].tokens
        BY <1>8, <2>1
      <3> QED BY <1>7, <1>8, <3>1
    <2>2. CASE j + d \in DOMAIN buffer /\ buffer'[j] = buffer[j + d]
      <3>1. i # Len(buffer') /\ i + d < j + d
        BY <1>2, <1>8
      <3>2. i + d \in DOMAIN buffer /\ buffer'[i] = buffer[i + d]
        BY <1>3, <3>1
      <3> QED BY <1>8, <2>2, <3>1, <3>2 DEF SnapshotsGrow
    <2> QED BY <1>3, <2>1, <2>2
  <1> QED BY <1>7, <1>8

\* What was counted of the latest turn
LEMMA CountedMoves ==
  ASSUME BufInv, NEW e \in Entries, Buffered(e), TurnSeen', SnapshotsGrow',
         userTurn' = userTurn, userTurn # 0, userTurn \notin evicted'
  PROVE  LET n == Len(buffer')
             last == Counted(buffer, userTurn, Len(buffer))
             now == Counted(buffer', userTurn, n)
         IN  /\ last = Counted(buffer', userTurn, n - 1)
             /\ last \in Nat /\ now \in Nat /\ last <= now
  <1>1. PICK d \in {0, 1} : /\ Continues(buffer, buffer', d)
                            /\ d = 1 /\ buffer[1].turn # 0 => buffer[1].turn \in evicted'
    BY BufferContinues DEF BufInv
  <1>2. /\ buffer \in Seq(Entries) /\ buffer' \in Seq(Entries) /\ Len(buffer') \in Nat
        /\ Len(buffer') >= 1 /\ DOMAIN buffer' = 1 .. Len(buffer')
        /\ DOMAIN buffer = 1 .. Len(buffer)
    BY BufferContinues DEF BufInv, BufTyped
  <1> DEFINE u == userTurn
  <1>3. u \in Turns
    BY BufAssumption DEF BufInv, BufTyped, Turns
  <1>4. d = 1 => buffer[1].turn # u
    BY <1>1
  <1>5. /\ \A i \in 1 .. Len(buffer) : buffer[i].turn <= u
        /\ \A i \in 1 .. Len(buffer') : buffer'[i].turn <= u
    BY <1>2 DEF BufInv, TurnSeen
  <1>6. \A k \in 1 .. MaxAnswers : <<u, k>> \in AnswerIds
    BY <1>3 DEF AnswerIds
  <1>7. \A k \in 1 .. MaxAnswers, i, j \in 1 .. Len(buffer') :
          i < j /\ IsOf(buffer'[i], <<u, k>>) /\ IsOf(buffer'[j], <<u, k>>) =>
            buffer'[i].tokens <= buffer'[j].tokens
    BY <1>2, <1>6 DEF SnapshotsGrow
  <1>8. Counted(buffer', u, Len(buffer') - 1) = Counted(buffer, u, Len(buffer))
    BY <1>1, <1>2, <1>3, <1>4, <1>5, CountedStays
  <1>9. /\ Counted(buffer', u, Len(buffer') - 1) \in Nat /\ Counted(buffer', u, Len(buffer')) \in Nat
        /\ Counted(buffer', u, Len(buffer') - 1) <= Counted(buffer', u, Len(buffer'))
    BY <1>2, <1>3, <1>5, <1>7, CountedGrows
  <1> QED BY <1>8, <1>9

LEMMA BillsKeep ==
  ASSUME BufInv, BillInv, NEW e \in Entries, Buffered(e), TurnSeen', TurnsInOrder', SnapshotsGrow',
         userTurn' \in 0 .. MaxTurns, billed' = billed, answers' \in [AnswerIds -> Infos],
         \A a \in AnswerIds : answers[a].tokens <= answers'[a].tokens,
         userTurn' = userTurn \/ userTurn' = userTurn + 1
  PROVE  BillInv'
  <1>1. /\ buffer' \in Seq(Entries) /\ Len(buffer') \in Nat /\ evicted \subseteq evicted'
        /\ Len(buffer') \in 0 .. Len(buffer') /\ DOMAIN buffer' = 1 .. Len(buffer')
        /\ userTurn \in Nat
    BY BufferContinues, BufAssumption DEF BufInv, BufTyped
  <1>2. ASSUME userTurn' # 0, userTurn' \notin evicted'
        PROVE  billed'[userTurn'] <= Counted(buffer', userTurn', Len(buffer'))
    <2>0. userTurn' \in Turns
      BY <1>2, BufAssumption DEF Turns
    <2>1. CASE userTurn' = userTurn
      <3>1. billed[userTurn] <= Counted(buffer, userTurn, Len(buffer)) /\ billed[userTurn] \in Nat
        BY <1>1, <1>2, <2>0, <2>1 DEF BillInv, BilledIsCounted
      <3>2. /\ Counted(buffer, userTurn, Len(buffer)) <= Counted(buffer', userTurn, Len(buffer'))
            /\ Counted(buffer, userTurn, Len(buffer)) \in Nat
            /\ Counted(buffer', userTurn, Len(buffer')) \in Nat
        BY <1>2, <2>1, CountedMoves
      <3> QED BY <2>1, <3>1, <3>2
    <2>2. CASE userTurn' = userTurn + 1
      <3>1. billed[userTurn'] = 0
        BY <1>1, <2>0, <2>2 DEF BillInv, BilledIsCounted
      <3>2. \A i \in 1 .. Len(buffer') : buffer'[i].turn <= userTurn'
        BY <1>1 DEF TurnSeen
      <3>3. Counted(buffer', userTurn', Len(buffer')) \in Nat
        BY <1>1, <2>0, <3>2, CountedIsOf
      <3> QED BY <3>1, <3>3
    <2> QED BY <2>1, <2>2
  <1>3. \A u \in Turns : u > userTurn' => billed'[u] = 0
    BY <1>1, BufAssumption DEF BillInv, BilledIsCounted, Turns
  <1>4. ASSUME NEW u \in Turns \ evicted' PROVE billed'[u] <= Spent(u)'
    <2>1. billed[u] <= SpentIn(answers, u) /\ billed[u] \in Nat
      BY <1>1, SpentIs DEF BillInv, BufTokensNotTwice
    <2>2. /\ SpentIn(answers, u) <= SpentIn(answers', u)
          /\ SpentIn(answers, u) \in Nat /\ SpentIn(answers', u) \in Nat
      BY SpentGrows DEF BufInv, BufTyped
    <2> QED BY <2>1, <2>2, SpentIs
  <1>5. BufTokensNotTwice'
    BY <1>4 DEF BufTokensNotTwice
  <1> QED BY <1>2, <1>3, <1>5 DEF BillInv, BilledIsCounted

LEMMA BillsAdds ==
  ASSUME BufInv, BillInv, NEW e \in Entries, Buffered(e), TurnSeen', TurnsInOrder', SnapshotsGrow',
         e.type = "idle", Bills(buffer'), UNCHANGED bufServer
  PROVE  BillInv'
  <1> DEFINE n == Len(buffer')
             u == LatestUser(buffer', n)
             by == TurnTokens(buffer', n) - TokensBefore(buffer', u, n)
  <1>1. /\ buffer' \in Seq(Entries) /\ n \in Nat /\ n >= 1 /\ evicted \subseteq evicted'
        /\ n \in 0 .. Len(buffer') /\ DOMAIN buffer' = 1 .. n /\ buffer'[n] = e
        /\ userTurn \in Nat /\ answers' = answers /\ userTurn' = userTurn
        /\ answers \in [AnswerIds -> Infos] /\ userTurn \in 0 .. MaxTurns
    BY BufferContinues, BufAssumption DEF BufInv, BufTyped, bufServer
  <1>2. /\ answers' \in [AnswerIds -> Infos]
        /\ \A a \in AnswerIds : answers[a].tokens <= answers'[a].tokens
    <2>1. \A a \in AnswerIds : answers[a].tokens \in Nat
      BY <1>1, InfosOf
    <2> QED BY <1>1, <2>1
  <1>3. CASE billed' = billed
    BY <1>1, <1>2, <1>3, BillsKeep
  <1>4. CASE billed' # billed
    <2>1. /\ u # 0 /\ billed' = [billed EXCEPT ![u] = @ + by]
          /\ ~ (TurnTokens(buffer', n) <= TokensBefore(buffer', u, n))
      BY <1>4 DEF Bills
    <2>2. u \in Turns /\ u \in Nat /\ \E i \in 1 .. n : UserAt(buffer', i, u)
      <3>1. u \in 0 .. MaxTurns
        BY <1>1, LatestUserIs
      <3> QED BY <1>1, <2>1, <3>1, LatestUserIs, BufAssumption DEF Turns
    <2>3. u <= userTurn
      BY <1>1, <2>2 DEF TurnSeen, UserAt
    <2>4. /\ Counted(buffer', u, n) = TurnTokens(buffer', n)
          /\ TokensBefore(buffer', u, n) = Counted(buffer', u, n - 1)
      BY <1>1, <2>2, CountedHere
    <2>5. u \in evicted' \/ u = userTurn
      <3> SUFFICES ASSUME u \notin evicted', u < userTurn PROVE FALSE
        BY <1>1, <2>2, <2>3
      <3>1. PICK j \in DOMAIN buffer' : UserAt(buffer', j, userTurn)
        BY <1>1, <2>2 DEF TurnsInOrder
      <3>2. userTurn <= u
        BY <1>1, <3>1, LatestUserIs DEF UserAt
      <3> QED BY <1>1, <2>2, <3>2
    <2>6. by \in Nat /\ by + TokensBefore(buffer', u, n) = TurnTokens(buffer', n)
          /\ TokensBefore(buffer', u, n) \in Nat /\ TurnTokens(buffer', n) \in Nat
      <3>1. TurnTokens(buffer', n) \in Nat
        BY <1>1, TurnTokensAre
      <3>2. TokensBefore(buffer', u, n) \in Nat
        <4>1. n - 1 \in 0 .. Len(buffer')
          BY <1>1
        <4> HIDE DEF u, n
        <4> QED BY <1>1, <2>4, <4>1, CountedIs
      <3> QED BY <2>1, <3>1, <3>2
    <2> HIDE DEF by, u, n
    <2>7. /\ billed \in [Turns -> Nat] /\ billed' \in [Turns -> Nat]
          /\ billed'[u] = billed[u] + by
          /\ \A w \in Turns : w # u => billed'[w] = billed[w]
      BY <2>1, <2>2, <2>6 DEF BillInv
    <2>8. ASSUME u \notin evicted'
          PROVE  billed'[u] <= TurnTokens(buffer', n) /\ billed'[u] <= Counted(buffer', u, n)
                 /\ u = userTurn
      <3>1. u = userTurn /\ userTurn # 0 /\ userTurn \notin evicted' /\ userTurn \notin evicted
        BY <1>1, <2>1, <2>5, <2>8
      <3>2. billed[u] <= Counted(buffer, u, Len(buffer))
        BY <3>1 DEF BillInv, BilledIsCounted
      <3>3. Counted(buffer, u, Len(buffer)) = Counted(buffer', u, n - 1)
        BY <1>1, <3>1, CountedMoves DEF n
      <3>4. billed[u] \in Nat
        BY <2>2, <2>7
      <3> QED BY <2>4, <2>6, <2>7, <3>1, <3>2, <3>3, <3>4
    <2>9. BilledIsCounted'
      <3>1. ASSUME userTurn' # 0, userTurn' \notin evicted'
            PROVE  billed'[userTurn'] <= Counted(buffer', userTurn', n)
        <4>1. CASE u = userTurn
          BY <1>1, <2>8, <3>1, <4>1
        <4>2. CASE u # userTurn
          <5>1. userTurn \in Turns /\ userTurn \notin evicted /\ userTurn # 0
            BY <1>1, <3>1, BufAssumption DEF Turns
          <5>2. billed'[userTurn] = billed[userTurn] /\ billed[userTurn] \in Nat
            BY <2>7, <4>2, <5>1
          <5>3. billed[userTurn] <= Counted(buffer, userTurn, Len(buffer))
            BY <5>1 DEF BillInv, BilledIsCounted
          <5>4. /\ Counted(buffer, userTurn, Len(buffer)) <= Counted(buffer', userTurn, n)
                /\ Counted(buffer, userTurn, Len(buffer)) \in Nat
                /\ Counted(buffer', userTurn, n) \in Nat
            BY <1>1, <3>1, <5>1, CountedMoves DEF n
          <5> QED BY <1>1, <5>2, <5>3, <5>4
        <4> QED BY <4>1, <4>2
      <3>2. ASSUME NEW w \in Turns, w > userTurn' PROVE billed'[w] = 0
        <4>1. w # u
          BY <1>1, <2>2, <2>3, <3>2 DEF Turns
        <4> QED BY <1>1, <2>7, <3>2, <4>1 DEF BillInv, BilledIsCounted
      <3> QED BY <3>1, <3>2 DEF BilledIsCounted, n
    <2>10. ASSUME NEW w \in Turns \ evicted' PROVE billed'[w] <= Spent(w)'
      <3>1. SpentIn(answers', w) \in Nat
        BY <1>1, <1>2, SpentGrows
      <3>2. CASE w # u
        <4>1. billed[w] <= SpentIn(answers, w) /\ billed'[w] = billed[w]
          BY <1>1, <2>7, <3>2, SpentIs DEF BillInv, BufTokensNotTwice
        <4> QED BY <1>1, <4>1, SpentIs
      <3>3. CASE w = u
        <4>1. billed'[u] <= TurnTokens(buffer', n)
          BY <2>8, <3>3
        <4>2. \A k \in 1 .. MaxAnswers, i \in 1 .. n :
                IsOf(buffer'[i], <<u, k>>) => buffer'[i].tokens <= answers'[<<u, k>>].tokens
          BY <1>1, <2>2 DEF SnapshotsGrow, AnswerIds
        <4>3. TurnTokens(buffer', n) <= SpentIn(answers', u)
          <5>1. LatestUser(buffer', n) = u
            BY DEF u
          <5> QED BY <1>1, <1>2, <2>2, <4>2, <5>1, SpentBounds
        <4>4. billed'[u] \in Nat
          BY <2>2, <2>7
        <4>5. billed'[u] <= SpentIn(answers', u)
          BY <2>6, <3>1, <3>3, <4>1, <4>3, <4>4
        <4> QED BY <3>3, <4>5, SpentIs
      <3> QED BY <3>2, <3>3
    <2>11. BufTokensNotTwice'
      BY <2>10 DEF BufTokensNotTwice
    <2> QED BY <2>7, <2>9, <2>11 DEF BillInv
  <1> QED BY <1>3, <1>4

\* The steps, of which InvBuf gives that BufInv holds behind them
LEMMA NewEntryBills ==
  ASSUME BufInv, BufInv', BillInv, NEW e \in Entries, Buffered(e), UNCHANGED answers,
         e.type \in {"user", "idle", "other"},
         \/ userTurn' = userTurn
         \/ userTurn' = userTurn + 1 /\ e.type = "user" /\ e.turn = userTurn',
         \/ billed' = billed
         \/ e.type = "idle" /\ userTurn' = userTurn /\ Bills(buffer')
  PROVE  BillInv'
  <1>1. /\ BufTyped /\ TurnSeen' /\ TurnsInOrder /\ SnapshotsGrow /\ userTurn' \in 0 .. MaxTurns
        /\ answers \in [AnswerIds -> Infos] /\ answers' \in [AnswerIds -> Infos]
    BY DEF BufInv, BufTyped, BillInv
  <1>2. TurnsInOrder'
    BY <1>1, TurnsStayInOrder
  <1>3. \A a \in AnswerIds : /\ answers[a].tokens <= answers'[a].tokens
                             /\ IsOf(e, a) => e.tokens = answers'[a].tokens
    <2>1. \A a \in AnswerIds : answers[a].tokens \in Nat
      BY <1>1, InfosOf
    <2> QED BY <2>1 DEF IsOf
  <1>4. SnapshotsGrow'
    BY <1>1, <1>3, SnapshotsStillGrow
  <1>5. CASE billed' = billed
    BY <1>1, <1>2, <1>3, <1>4, <1>5, BillsKeep
  <1>6. CASE e.type = "idle" /\ userTurn' = userTurn /\ Bills(buffer')
    BY <1>1, <1>2, <1>4, <1>6, BillsAdds DEF bufServer
  <1> QED BY <1>5, <1>6

LEMMA OthersBill ==
  ASSUME BufInv, BufInv', BillInv,
         \/ BufPrompted \/ BecomesIdle
         \/ \E u \in Turns : UserRepeated(u)
         \/ \E type \in {"idle", "other"} : Interleaves(type)
  PROVE  BillInv'
  <1>1. CASE BufPrompted
    <2> DEFINE e == UserEntry(userTurn + 1)
    <2>1. /\ userTurn' = userTurn + 1 /\ Buffered(e) /\ UNCHANGED <<answers, billed>>
          /\ userTurn + 1 \in Turns
      BY <1>1, BufAssumption DEF BufPrompted, Handles, bufOut, Turns, BufInv, BufTyped
    <2>2. e \in Entries /\ e.turn = userTurn + 1 /\ e.type = "user"
      BY <2>1, EntryFits
    <2> HIDE DEF e
    <2> QED BY <2>1, <2>2, NewEntryBills
  <1>2. CASE BecomesIdle
    <2> DEFINE e == Plain("idle")
    <2>1. Buffered(e) /\ Bills(buffer') /\ UNCHANGED <<userTurn, answers>>
      BY <1>2 DEF BecomesIdle, Handles, bufServer
    <2>2. e \in Entries /\ e.type = "idle"
      BY EntryFits
    <2> HIDE DEF e
    <2> QED BY <2>1, <2>2, NewEntryBills
  <1>3. ASSUME NEW u \in Turns, UserRepeated(u) PROVE BillInv'
    <2> DEFINE e == UserEntry(u)
    <2>1. Buffered(e) /\ UNCHANGED <<userTurn, answers, billed>>
      BY <1>3 DEF UserRepeated, Handles, bufServer, bufOut
    <2>2. e \in Entries /\ e.type = "user"
      BY EntryFits
    <2> HIDE DEF e
    <2> QED BY <2>1, <2>2, NewEntryBills
  <1>4. ASSUME NEW type \in {"idle", "other"}, Interleaves(type) PROVE BillInv'
    <2> DEFINE e == Plain(type)
    <2>1. Buffered(e) /\ UNCHANGED <<userTurn, answers, billed>>
      BY <1>4 DEF Interleaves, bufServer, bufOut
    <2>2. e \in Entries /\ e.type \in {"user", "idle", "other"}
      BY EntryFits
    <2> HIDE DEF e
    <2> QED BY <2>1, <2>2, NewEntryBills
  <1> QED BY <1>1, <1>2, <1>3, <1>4

LEMMA AnswerUpdatedBills ==
  ASSUME BufInv, BufInv', BillInv, NEW a \in AnswerIds,
         NEW info \in [tokens : 0 .. MaxTokens, outcome : Outcomes], NEW first,
         AnswerUpdated(a, info, first), answers[a].tokens <= info.tokens
  PROVE  BillInv'
  <1> DEFINE e == AnswerEntry(a, info)
  <1>1. /\ BufTyped /\ TurnSeen' /\ TurnsInOrder /\ SnapshotsGrow /\ userTurn' \in 0 .. MaxTurns
        /\ answers \in [AnswerIds -> Infos] /\ answers' \in [AnswerIds -> Infos]
    BY DEF BufInv, BufTyped, BillInv
  <1>2. /\ Buffered(e) /\ answers' = [answers EXCEPT ![a] = info]
        /\ UNCHANGED <<userTurn, billed>>
    BY DEF AnswerUpdated, Handles
  <1>3. e \in Entries /\ e.turn = a[1] /\ e.nr = a[2] /\ e.tokens = info.tokens
    BY EntryFits DEF AnswerEntry
  <1> HIDE DEF e
  <1>4. TurnsInOrder'
    BY <1>1, <1>2, <1>3, TurnsStayInOrder
  <1>5. \A b \in AnswerIds : /\ answers[b].tokens <= answers'[b].tokens
                             /\ IsOf(e, b) => e.tokens = answers'[b].tokens
    <2>1. \A b \in AnswerIds : answers[b].tokens \in Nat
      BY <1>1, InfosOf
    <2>2. \A b \in AnswerIds : IsOf(e, b) => b = a
      BY <1>3, IdsDiffer DEF IsOf
    <2> QED BY <1>1, <1>2, <1>3, <2>1, <2>2
  <1>6. SnapshotsGrow'
    BY <1>1, <1>2, <1>3, <1>5, SnapshotsStillGrow
  <1> QED BY <1>1, <1>2, <1>3, <1>4, <1>5, <1>6, BillsKeep

LEMMA AnswersBill ==
  ASSUME BufInv, BufInv', BillInv, NEW a \in AnswerIds,
         \/ AnswerStarts(a) \/ AnswerProgresses(a) \/ AnswerRepeated(a)
         \/ \E outcome \in {"tool-calls", "stop", "error"} : AnswerEnds(a, outcome)
  PROVE  BillInv'
  <1>1. answers \in [AnswerIds -> Infos] /\ MaxTokens \in Nat /\ answers[a].tokens \in Nat
    BY BufAssumption, InfosOf DEF BufInv, BufTyped
  <1>2. answers[a].outcome # "none" => answers[a] \in [tokens : 0 .. MaxTokens, outcome : Outcomes]
    BY <1>1 DEF Infos, NotBegun
  <1>3. CASE AnswerStarts(a)
    <2> DEFINE info == [tokens |-> 0, outcome |-> "open"]
    <2>1. info \in [tokens : 0 .. MaxTokens, outcome : Outcomes] /\ info.tokens = 0
      BY <1>1 DEF Outcomes
    <2>2. AnswerUpdated(a, info, FALSE)
      BY <1>3 DEF AnswerStarts
    <2>3. answers[a] = NotBegun
      BY <1>3 DEF AnswerStarts
    <2> HIDE DEF info
    <2>4. answers[a].tokens <= info.tokens
      BY <2>1, <2>3 DEF NotBegun
    <2> QED BY <2>1, <2>2, <2>4, AnswerUpdatedBills
  <1>4. CASE AnswerProgresses(a)
    <2> DEFINE info == [answers[a] EXCEPT !.tokens = @ + 1]
    <2>1. /\ answers[a].outcome = "open" /\ answers[a].tokens < MaxTokens
          /\ AnswerUpdated(a, info, FALSE)
      BY <1>4 DEF AnswerProgresses
    <2>2. /\ info \in [tokens : 0 .. MaxTokens, outcome : Outcomes]
          /\ answers[a].tokens <= info.tokens
      BY <1>1, <1>2, <2>1
    <2> HIDE DEF info
    <2> QED BY <2>1, <2>2, AnswerUpdatedBills
  <1>5. CASE AnswerRepeated(a)
    <2>1. answers[a].outcome # "none" /\ AnswerUpdated(a, answers[a], FALSE)
      BY <1>5 DEF AnswerRepeated
    <2>2. answers[a].tokens <= answers[a].tokens
      BY <1>1
    <2> QED BY <1>2, <2>1, <2>2, AnswerUpdatedBills
  <1>6. ASSUME NEW outcome \in {"tool-calls", "stop", "error"}, AnswerEnds(a, outcome)
        PROVE  BillInv'
    <2> DEFINE info == [answers[a] EXCEPT !.outcome = outcome]
    <2>1. answers[a].outcome = "open" /\ AnswerUpdated(a, info, TRUE)
      BY <1>6 DEF AnswerEnds
    <2>2. /\ info \in [tokens : 0 .. MaxTokens, outcome : Outcomes]
          /\ answers[a].tokens <= info.tokens
      BY <1>1, <1>2, <2>1 DEF Outcomes
    <2> HIDE DEF info
    <2> QED BY <2>1, <2>2, AnswerUpdatedBills
  <1> QED BY <1>3, <1>4, <1>5, <1>6

LEMMA NothingBilled ==
  ASSUME BillInv, UNCHANGED <<buffer, bufServer, billed, evicted>>
  PROVE  BillInv'
  <1>1. \A u : Spent(u)' = Spent(u)
    BY SpentIs DEF bufServer
  <1> QED BY <1>1 DEF bufServer, BillInv, TurnsInOrder, SnapshotsGrow, BilledIsCounted,
                      BufTokensNotTwice

LEMMA BillInvariance == BufSpec => []BillInv
  <1>1. BufInit => BillInv
    <2> SUFFICES ASSUME BufInit PROVE BillInv
      OBVIOUS
    <2>1. /\ buffer = <<>> /\ userTurn = 0 /\ answers = [a \in AnswerIds |-> NotBegun]
          /\ billed = [u \in Turns |-> 0] /\ evicted = {} /\ DOMAIN buffer = {}
      BY DEF BufInit
    <2>2. billed \in [Turns -> Nat] /\ TurnsInOrder /\ SnapshotsGrow /\ BilledIsCounted
      BY <2>1 DEF TurnsInOrder, SnapshotsGrow, BilledIsCounted, Turns
    <2>3. answers \in [AnswerIds -> Infos]
      BY <2>1 DEF Infos
    <2>4. \A u \in Turns : Spent(u) \in Nat
      <3>1. \A a \in AnswerIds : answers[a].tokens <= answers[a].tokens
        BY <2>3, InfosOf
      <3> QED BY <2>3, <3>1, SpentGrows, SpentIs
    <2>5. BufTokensNotTwice
      BY <2>1, <2>4 DEF BufTokensNotTwice
    <2> QED BY <2>2, <2>5 DEF BillInv
  <1>2. BufInv /\ BufInv' /\ BillInv /\ [BufNext]_bufVars => BillInv'
    <2> SUFFICES ASSUME BufInv, BufInv', BillInv, [BufNext]_bufVars PROVE BillInv'
      OBVIOUS
    <2>1. CASE FlushEnds
      BY <2>1, NothingBilled DEF FlushEnds
    <2>2. CASE BufNext
      BY <2>1, <2>2, OthersBill, AnswersBill DEF BufNext
    <2>3. CASE UNCHANGED bufVars
      BY <2>3, NothingBilled DEF bufVars, bufOut
    <2> QED BY <2>2, <2>3
  <1> QED BY <1>1, <1>2, InvBuf, PTL DEF BufSpec

\* Whatever the size of the buffer, however often a turn becomes idle and whatever is
\* reported late, what is tracked for a turn is no more than what its answers have come
\* to, as long as no entry of the turn was evicted.
THEOREM TokensNotTwice == BufSpec => []BufTokensNotTwice
  <1>1. BillInv => BufTokensNotTwice
    BY DEF BillInv
  <1> QED BY <1>1, BillInvariance, PTL

\* The types that BufInv and BillInv leave out
CountsTyped == entries \in 0 .. MaxEntries /\ due \subseteq AnswerIds /\ evicted \subseteq Turns

LEMMA BufferedTyped ==
  ASSUME BufTyped, CountsTyped, NEW e, Buffered(e)
  PROVE  entries' \in 0 .. MaxEntries /\ evicted' \subseteq Turns
  <1>1. entries' \in 0 .. MaxEntries
    BY BufAssumption DEF CountsTyped, Buffered
  <1>2. /\ buffer \in Seq(Entries) /\ Len(buffer) \in Nat /\ BufMax # 0
        /\ MaxTurns \in Nat /\ BufMax \in Nat
    BY BufAssumption DEF BufTyped
  <1>3. ASSUME Len(buffer) = BufMax PROVE Head(buffer).turn \in 0 .. MaxTurns
    <2>1. Head(buffer) \in Entries
      BY <1>2, <1>3
    <2> QED BY <2>1 DEF Entries
  <1>4. evicted' \subseteq Turns
    <2>1. evicted' = evicted \/ /\ Len(buffer) = BufMax /\ Head(buffer).turn # 0
                                /\ evicted' = evicted \cup {Head(buffer).turn}
      BY DEF Buffered
    <2>2. \A t \in 0 .. MaxTurns : t # 0 => t \in Turns
      BY <1>2 DEF Turns
    <2> QED BY <1>3, <2>1, <2>2 DEF CountsTyped
  <1> QED BY <1>1, <1>4

LEMMA CountsAreTyped == BufSpec => []CountsTyped
  <1>1. BufInit => CountsTyped
    BY BufAssumption DEF BufInit, CountsTyped
  <1>2. BufInv /\ CountsTyped /\ [BufNext]_bufVars => CountsTyped'
    <2> SUFFICES ASSUME BufInv, CountsTyped, [BufNext]_bufVars PROVE CountsTyped'
      OBVIOUS
    <2>1. BufTyped
      BY DEF BufInv
    <2>2. ASSUME NEW e, Buffered(e), due' \subseteq AnswerIds PROVE CountsTyped'
      BY <2>1, <2>2, BufferedTyped DEF CountsTyped
    <2>3. ASSUME NEW a \in AnswerIds, NEW info, NEW first, AnswerUpdated(a, info, first)
          PROVE  CountsTyped'
      <3>1. Buffered(AnswerEntry(a, info)) /\ due' \subseteq due \cup {a}
        BY <2>3 DEF AnswerUpdated, Handles
      <3> QED BY <2>2, <3>1 DEF CountsTyped
    <2>4. CASE BufPrompted
      BY <2>2, <2>4 DEF BufPrompted, Handles, bufOut, CountsTyped
    <2>5. CASE FlushEnds
      BY <2>1, <2>5 DEF FlushEnds, CountsTyped, BufTyped, Awaited
    <2>6. CASE BecomesIdle
      BY <2>2, <2>6 DEF BecomesIdle, Handles, CountsTyped
    <2>7. CASE \E u \in Turns : UserRepeated(u)
      BY <2>2, <2>7 DEF UserRepeated, Handles, bufOut, CountsTyped
    <2>8. ASSUME NEW a \in AnswerIds,
                 \/ AnswerStarts(a) \/ AnswerProgresses(a) \/ AnswerRepeated(a)
                 \/ \E outcome \in {"tool-calls", "stop", "error"} : AnswerEnds(a, outcome)
          PROVE  CountsTyped'
      BY <2>3, <2>8 DEF AnswerStarts, AnswerProgresses, AnswerRepeated, AnswerEnds
    <2>9. CASE \E type \in {"idle", "other"} : Interleaves(type)
      BY <2>2, <2>9 DEF Interleaves, bufOut, CountsTyped
    <2>10. CASE UNCHANGED bufVars
      BY <2>10 DEF bufVars, bufOut, CountsTyped
    <2> QED BY <2>4, <2>5, <2>6, <2>7, <2>8, <2>9, <2>10 DEF BufNext
  <1> QED BY <1>1, <1>2, InvBuf, PTL DEF BufSpec

\* The buffer never holds more than its size, and at most one completion is flushed at a time.
THEOREM BufTypeCorrect == BufSpec => []BufTypeOK
  <1>1. BufInv /\ BillInv /\ CountsTyped => BufTypeOK
    <2> SUFFICES ASSUME BufInv, BillInv, CountsTyped PROVE BufTypeOK
      OBVIOUS
    <2>1. BufTyped
      BY DEF BufInv
    <2>2. \A w \in awaiting : w.answer \in AnswerIds /\ {w.first, w.disturbed} \subseteq BOOLEAN
      BY <2>1 DEF BufTyped, Awaited
    <2>3. Cardinality(awaiting) <= 1
      <3>1. CASE awaiting = {}
        BY <3>1, FS_EmptySet
      <3>2. CASE \E w \in awaiting : awaiting = {w}
        <4>1. \A w : Cardinality({w}) = 1
          BY FS_Singleton
        <4>2. Cardinality(awaiting) = 1
          BY <3>2, <4>1
        <4> QED BY <4>2
      <3> QED BY <2>1, <3>1, <3>2 DEF BufTyped
    <2> QED BY <2>1, <2>2, <2>3 DEF BufTypeOK, BufTyped, Infos, BillInv, CountsTyped
  <1> QED BY <1>1, InvBuf, BillInvariance, CountsAreTyped, PTL
-----------------------------------------------------------------------------
(* A thread, its runtime and its buffer side by side: the run "queue" *)

\* The steps of one component are steps of its own specification, and leave the others.
LEMMA ThreadParts ==
  ASSUME [ThrNext]_thrVars
  PROVE  [Next]_vars /\ [RegNext]_regVars /\ [BufNext]_bufVars
<1>1. CASE part = "queue" /\ Next /\ UNCHANGED <<regVars, bufVars>>
  BY <1>1
<1>2. CASE part = "reg" /\ RegNext /\ UNCHANGED <<vars, bufVars>>
  BY <1>2
<1>3. CASE part = "buf" /\ BufNext /\ UNCHANGED <<vars, regVars>>
  BY <1>3
<1>4. CASE UNCHANGED thrVars
  BY <1>4 DEF thrVars
<1> QED
  BY <1>1, <1>2, <1>3, <1>4 DEF ThrNext

\* The three components of the composition that the run explores have their types,
\* for any messages, sessions, runtimes, buffers and bounds.
THEOREM ThreadTypesCorrect == ThrSpec => []ThrTypeOK
<1>1. ThrInit => Init /\ RegInit /\ BufInit
  BY DEF ThrInit
<1>2. [ThrNext]_thrVars => [Next]_vars /\ [RegNext]_regVars /\ [BufNext]_bufVars
  BY ThreadParts
<1>3. ThrSpec => Spec /\ RegSpec /\ BufSpec
  BY <1>1, <1>2, PTL DEF ThrSpec, Spec, RegSpec, BufSpec
<1>4. TypeOK /\ RegTypeOK /\ BufTypeOK => ThrTypeOK
  BY DEF ThrTypeOK
<1> QED
  BY <1>3, <1>4, QueueTypeCorrect, RegTypeCorrect, BufTypeCorrect, PTL

=============================================================================
