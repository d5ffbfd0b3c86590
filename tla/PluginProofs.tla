---------------------------- MODULE PluginProofs ----------------------------
(***************************************************************************)
(* The plugins in opencode and the bot's side of their requests:           *)
(* InterruptPlugin, IpcRequests and AccountPool, each for any value of its *)
(* constants.  The components share no variables.                          *)
(***************************************************************************)
EXTENDS InterruptPlugin, IpcRequests, AccountPool, TLAPS, FiniteSetTheorems, SequenceTheorems,
        WellFoundedInduction

-----------------------------------------------------------------------------
(* Sequences *)

\* An element is taken out of a sequence.
LEMMA Spliced ==
  ASSUME NEW S, NEW s \in Seq(S), NEW k \in 1 .. Len(s), NEW w,
         w = SubSeq(s, 1, k - 1) \o SubSeq(s, k + 1, Len(s))
  PROVE  /\ w \in Seq(S) /\ Len(w) = Len(s) - 1
         /\ \A i \in 1 .. Len(s) - 1 : w[i] = IF i < k THEN s[i] ELSE s[i + 1]
<1> DEFINE before == SubSeq(s, 1, k - 1)
           after == SubSeq(s, k + 1, Len(s))
<1>1. /\ before \in Seq(S) /\ Len(before) = k - 1
      /\ \A i \in 1 .. k - 1 : before[i] = s[i]
  BY SubSeqProperties
<1>2. /\ after \in Seq(S) /\ Len(after) = Len(s) - k
      /\ \A i \in 1 .. Len(s) - k : after[i] = s[k + i]
  BY SubSeqProperties
<1>3. w = before \o after
  OBVIOUS
<1> HIDE DEF before, after
<1>4. before \in Seq(S) /\ after \in Seq(S)
  BY <1>1, <1>2
<1>5. /\ before \o after \in Seq(S) /\ Len(before \o after) = Len(before) + Len(after)
      /\ \A i \in 1 .. Len(before) + Len(after) :
           (before \o after)[i] = IF i <= Len(before) THEN before[i] ELSE after[i - Len(before)]
  BY ONLY <1>4, ConcatProperties
<1>6. /\ w \in Seq(S) /\ Len(w) = Len(before) + Len(after)
      /\ \A i \in 1 .. Len(before) + Len(after) :
           w[i] = IF i <= Len(before) THEN before[i] ELSE after[i - Len(before)]
  BY ONLY <1>3, <1>5, Zenon
<1>7. Len(s) \in Nat /\ k \in 1 .. Len(s)
  OBVIOUS
<1>8. Len(w) = Len(s) - 1
  BY ONLY <1>1, <1>2, <1>6, <1>7
<1>9. ASSUME NEW i \in 1 .. Len(s) - 1
      PROVE  w[i] = IF i < k THEN s[i] ELSE s[i + 1]
  <2>1. w[i] = IF i <= k - 1 THEN before[i] ELSE after[i - (k - 1)]
    BY ONLY <1>1, <1>2, <1>6, <1>7, i \in 1 .. Len(s) - 1
  <2>2. CASE i < k
    BY <1>1, <2>1, <2>2
  <2>3. CASE ~(i < k)
    <3>1. i - (k - 1) \in 1 .. Len(s) - k /\ ~(i <= k - 1) /\ k + (i - (k - 1)) = i + 1
      BY <2>3
    <3> QED
      BY <1>2, <2>1, <2>3, <3>1
  <2> QED
    BY <2>2, <2>3
<1> QED
  BY <1>6, <1>8, <1>9

\* A set of naturals has a least element.
LEMMA LeastNatural ==
  ASSUME NEW I \in SUBSET Nat, I # {}
  PROVE  \E i \in I : \A j \in I : i <= j
<1>1. PICK i \in I : \A j \in I : ~(<<j, i>> \in OpToRel(<, Nat))
  BY NatLessThanWellFounded, WFMin
<1>2. ASSUME NEW j \in I PROVE i <= j
  <2>1. i \in Nat /\ j \in Nat /\ ~(<<j, i>> \in OpToRel(<, Nat))
    BY <1>1
  <2> QED
    BY <2>1 DEF OpToRel
<1> QED
  BY <1>2

-----------------------------------------------------------------------------
(* InterruptPlugin: the Map as an injective sequence *)

MapOfMessages(s) == s \in Seq(IntMessages) /\ IsInjective(s)

LEMMA InMap ==
  ASSUME NEW s \in Seq(IntMessages), NEW m
  PROVE  m \in ToSet(s) <=> \E i \in 1 .. Len(s) : s[i] = m
  BY DEF ToSet

LEMMA MapAppends ==
  ASSUME NEW s, MapOfMessages(s), NEW m \in IntMessages, m \notin ToSet(s)
  PROVE  MapOfMessages(Append(s, m)) /\ ToSet(Append(s, m)) = ToSet(s) \cup {m}
<1>1. s \in Seq(IntMessages) /\ Append(s, m) \in Seq(IntMessages)
  BY DEF MapOfMessages
<1>2. /\ Len(Append(s, m)) = Len(s) + 1 /\ Len(s) \in Nat
      /\ \A i \in 1 .. Len(s) : Append(s, m)[i] = s[i]
      /\ Append(s, m)[Len(s) + 1] = m
  BY <1>1, AppendProperties
<1>3. \A i \in 1 .. Len(s) : s[i] # m
  BY <1>1, InMap
<1>4. \A i, j \in 1 .. Len(s) : s[i] = s[j] => i = j
  BY DEF MapOfMessages, IsInjective
<1>5. \A i, j \in 1 .. Len(s) + 1 : Append(s, m)[i] = Append(s, m)[j] => i = j
  BY <1>2, <1>3, <1>4
<1>6. IsInjective(Append(s, m))
  BY <1>1, <1>2, <1>5 DEF IsInjective
<1>7. \A e : e \in ToSet(Append(s, m)) <=> e \in ToSet(s) \cup {m}
  <2> TAKE e
  <2>1. e \in ToSet(Append(s, m)) <=> \E i \in 1 .. Len(s) + 1 : Append(s, m)[i] = e
    <3> DEFINE t == Append(s, m)
    <3>1. t \in Seq(IntMessages) /\ Len(t) = Len(s) + 1
      BY <1>1, <1>2
    <3> HIDE DEF t
    <3>2. e \in ToSet(t) <=> \E i \in 1 .. Len(s) + 1 : t[i] = e
      BY <3>1, InMap
    <3> QED
      BY <3>2 DEF t
  <2>2. e \in ToSet(s) <=> \E i \in 1 .. Len(s) : s[i] = e
    BY <1>1, InMap
  <2> QED
    BY <1>2, <2>1, <2>2
<1> QED
  BY <1>1, <1>6, <1>7 DEF MapOfMessages

LEMMA MapTail ==
  ASSUME NEW s, MapOfMessages(s), s # <<>>
  PROVE  /\ MapOfMessages(Tail(s)) /\ Head(s) \in IntMessages
         /\ ToSet(Tail(s)) = ToSet(s) \ {Head(s)} /\ Head(s) \in ToSet(s)
<1>1. s \in Seq(IntMessages) /\ Len(s) \in Nat \ {0} /\ Head(s) = s[1]
  BY EmptySeq DEF MapOfMessages
<1>2. /\ Tail(s) \in Seq(IntMessages) /\ Head(s) \in IntMessages
      /\ Len(Tail(s)) = Len(s) - 1
      /\ \A i \in 1 .. Len(Tail(s)) : Tail(s)[i] = s[i + 1]
  BY <1>1, HeadTailProperties
<1>3. \A i, j \in 1 .. Len(s) : s[i] = s[j] => i = j
  BY DEF MapOfMessages, IsInjective
<1>4. IsInjective(Tail(s))
  BY <1>1, <1>2, <1>3 DEF IsInjective
<1>5. \A e : e \in ToSet(Tail(s)) <=> e \in ToSet(s) \ {Head(s)}
  <2> TAKE e
  <2>1. e \in ToSet(Tail(s)) <=> \E i \in 1 .. Len(s) - 1 : Tail(s)[i] = e
    BY <1>2, InMap
  <2>2. e \in ToSet(s) <=> \E i \in 1 .. Len(s) : s[i] = e
    BY <1>1, InMap
  <2>3. ASSUME e \in ToSet(Tail(s)) PROVE e \in ToSet(s) \ {Head(s)}
    BY <1>1, <1>2, <1>3, <2>1, <2>2, <2>3
  <2>4. ASSUME e \in ToSet(s) \ {Head(s)} PROVE e \in ToSet(Tail(s))
    <3>1. PICK i \in 1 .. Len(s) : s[i] = e
      BY <2>2, <2>4
    <3>2. i - 1 \in 1 .. Len(s) - 1 /\ Tail(s)[i - 1] = e
      BY <1>1, <1>2, <2>4, <3>1
    <3> QED
      BY <2>1, <3>2
  <2> QED
    BY <2>3, <2>4
<1>6. Head(s) \in ToSet(s)
  BY <1>1, InMap
<1> QED
  BY <1>2, <1>4, <1>5, <1>6 DEF MapOfMessages

LEMMA MapForgets ==
  ASSUME MapOfMessages(pending), NEW m
  PROVE  MapOfMessages(Without(m)) /\ ToSet(Without(m)) = ToSet(pending) \ {m}
<1>1. CASE m \notin ToSet(pending)
  BY <1>1 DEF Without
<1>2. CASE m \in ToSet(pending)
  <2> DEFINE k == CHOOSE i \in DOMAIN pending : pending[i] = m
             w == Without(m)
  <2>1. pending \in Seq(IntMessages) /\ Len(pending) \in Nat
    BY DEF MapOfMessages
  <2>2. k \in 1 .. Len(pending) /\ pending[k] = m
    BY <1>2, <2>1, InMap
  <2> HIDE DEF k
  <2>3. w = SubSeq(pending, 1, k - 1) \o SubSeq(pending, k + 1, Len(pending))
    BY <1>2 DEF Without, RemoveAt, k
  <2> HIDE DEF w
  <2>4. /\ w \in Seq(IntMessages) /\ Len(w) = Len(pending) - 1
        /\ \A i \in 1 .. Len(pending) - 1 : w[i] = IF i < k THEN pending[i] ELSE pending[i + 1]
    BY <2>1, <2>2, <2>3, Spliced
  <2>5. \A i, j \in 1 .. Len(pending) : pending[i] = pending[j] => i = j
    BY DEF MapOfMessages, IsInjective
  <2>6. IsInjective(w)
    BY <2>1, <2>2, <2>4, <2>5 DEF IsInjective
  <2>7. \A e : e \in ToSet(w) <=> e \in ToSet(pending) \ {m}
    <3> TAKE e
    <3>1. e \in ToSet(w) <=> \E i \in 1 .. Len(pending) - 1 : w[i] = e
      BY <2>4, InMap
    <3>2. e \in ToSet(pending) <=> \E i \in 1 .. Len(pending) : pending[i] = e
      BY <2>1, InMap
    <3>3. ASSUME e \in ToSet(w) PROVE e \in ToSet(pending) \ {m}
      BY <2>1, <2>2, <2>4, <2>5, <3>1, <3>2, <3>3
    <3>4. ASSUME e \in ToSet(pending) \ {m} PROVE e \in ToSet(w)
      <4>1. PICK i \in 1 .. Len(pending) : pending[i] = e
        BY <3>2, <3>4
      <4>2. CASE i < k
        BY <2>1, <2>2, <2>4, <3>1, <4>1, <4>2
      <4>3. CASE i > k
        <5>1. i - 1 \in 1 .. Len(pending) - 1 /\ w[i - 1] = e
          BY <2>1, <2>2, <2>4, <4>1, <4>3
        <5> QED
          BY <3>1, <5>1
      <4> QED
        BY <2>1, <2>2, <3>4, <4>1, <4>2, <4>3
    <3> QED
      BY <3>3, <3>4
  <2> QED
    BY <2>4, <2>6, <2>7 DEF MapOfMessages, w
<1> QED
  BY <1>1, <1>2

LEMMA MapSchedules ==
  ASSUME MapOfMessages(pending), NEW m \in IntMessages, SchedulePending(m)
  PROVE  /\ MapOfMessages(pending') /\ ToSet(pending') = ToSet(pending) \cup {m}
         /\ ticking' = ticking \cup {m}
<1>1. MapOfMessages(Without(m)) /\ ToSet(Without(m)) = ToSet(pending) \ {m}
  BY MapForgets
<1>2. MapOfMessages(Append(Without(m), m)) /\ ToSet(Append(Without(m), m)) = ToSet(Without(m)) \cup {m}
  BY <1>1, MapAppends
<1> QED
  BY <1>1, <1>2 DEF SchedulePending

LEMMA MapDrains ==
  ASSUME MapOfMessages(pending), ticking \subseteq ToSet(pending), DrainNext(pending)
  PROVE  /\ MapOfMessages(pending') /\ ToSet(pending') = ToSet(pending)
         /\ ticking' \subseteq ToSet(pending')
<1>1. CASE pending = <<>>
  BY <1>1 DEF DrainNext
<1>2. CASE pending # <<>>
  <2>1. /\ MapOfMessages(Tail(pending)) /\ Head(pending) \in IntMessages
        /\ ToSet(Tail(pending)) = ToSet(pending) \ {Head(pending)} /\ Head(pending) \in ToSet(pending)
    BY <1>2, MapTail
  <2>2. /\ MapOfMessages(Append(Tail(pending), Head(pending)))
        /\ ToSet(Append(Tail(pending), Head(pending))) = ToSet(pending)
    BY <2>1, MapAppends
  <2>3. /\ pending' = Append(Tail(pending), Head(pending))
        /\ ticking' = (ticking \cap ToSet(pending)) \cup {Head(pending)}
    BY <1>2 DEF DrainNext
  <2> QED
    BY <2>1, <2>2, <2>3
<1> QED
  BY <1>1, <1>2

-----------------------------------------------------------------------------
(* InterruptPlugin: no message is replayed twice *)

\* A message the plugin holds was sent by the user and not yet by the plugin.
HeldIsUnsent ==
  \A m \in ToSet(pending) : turn[m] # "new" /\ m \notin replayed /\ replays[m] = 0

NewIsUnknown == \A m \in IntMessages : turn[m] = "new" => m \notin replayed /\ replays[m] = 0

\* A replay in flight is the message's first, and the hook will know it by its id.
ReplayIsFirst ==
  interrupt.at = "replaying" =>
    /\ interrupt.message \notin ToSet(pending) /\ interrupt.message \in replayed
    /\ turn[interrupt.message] # "new" /\ replays[interrupt.message] = 0

IntInv ==
  /\ IntTypeOK /\ (Interrupting => interrupt.message \in IntMessages)
  /\ HeldIsUnsent /\ NewIsUnknown /\ ReplayIsFirst /\ IntReplayedOnce

\* The part of the type that concerns the Map
LEMMA IntMap ==
  ASSUME IntInv
  PROVE  MapOfMessages(pending) /\ ToSet(pending) \subseteq IntMessages
         /\ ticking \subseteq ToSet(pending)
<1>1. pending \in Seq(IntMessages)
  BY DEF IntInv, IntTypeOK
<1>2. ToSet(pending) \subseteq IntMessages
  BY <1>1, InMap
<1> QED
  BY <1>1, <1>2 DEF IntInv, IntTypeOK, MapOfMessages

\* Nothing is sent again, and the Map does not grow.
LEMMA NothingReplayed ==
  ASSUME IntInv, IntTypeOK', (Interrupting => interrupt.message \in IntMessages)',
         ToSet(pending') \subseteq ToSet(pending), replayed' = replayed, replays' = replays,
         \A m \in IntMessages : turn'[m] = "new" => turn[m] = "new",
         interrupt'.at = "replaying" => interrupt' = interrupt
  PROVE  IntInv'
<1>1. ToSet(pending) \subseteq IntMessages
  BY IntMap
<1>2. HeldIsUnsent'
  BY <1>1 DEF IntInv, HeldIsUnsent
<1>3. NewIsUnknown'
  BY DEF IntInv, NewIsUnknown
<1>4. ReplayIsFirst'
  <2>1. CASE interrupt'.at = "replaying"
    <3>1. interrupt' = interrupt /\ Interrupting /\ interrupt.message \in IntMessages
      BY <2>1 DEF IntInv, Interrupting
    <3> QED
      BY <2>1, <3>1 DEF IntInv, ReplayIsFirst
  <2> QED
    BY <2>1 DEF ReplayIsFirst
<1>5. (Interrupting => interrupt.message \in IntMessages)' /\ IntReplayedOnce'
  BY DEF IntInv, IntReplayedOnce
<1> QED
  BY <1>2, <1>3, <1>4, <1>5 DEF IntInv

LEMMA IntInitially == ASSUME IntInit PROVE IntInv
<1>1. IsInjective(<<>>) /\ ToSet(<<>>) = {}
  BY DEF IsInjective, ToSet
<1> QED
  BY <1>1, IntAssumption
     DEF IntInit, IntInv, IntTypeOK, NoInterrupt, Interrupting, HeldIsUnsent, NewIsUnknown,
         ReplayIsFirst, IntReplayedOnce

IntTurns == [IntMessages -> {"new", "queued", "running", "answered", "aborted", "cleared"}]
IntEvents == {"started"} \X IntMessages \cup {<<"idle", NoMessage>>}

\* opencode: a run starts.
LEMMA IntRunStartsKeeps == ASSUME IntInv, IntRunStarts PROVE IntInv'
<1>1. line \in Seq(IntMessages) /\ line # <<>> /\ intEvents \in Seq(IntEvents) /\ turn \in IntTurns
  BY DEF IntInv, IntTypeOK, IntRunStarts, IntEvents, IntTurns
<1>2. Head(line) \in IntMessages /\ Tail(line) \in Seq(IntMessages)
  BY <1>1, HeadTailProperties
<1>3. <<"started", Head(line)>> \in IntEvents
  BY <1>2 DEF IntEvents
<1>4. Append(intEvents, <<"started", Head(line)>>) \in Seq(IntEvents)
  BY <1>1, <1>3, AppendProperties
<1>5. turn' = [turn EXCEPT ![Head(line)] = "running"] /\ turn' \in IntTurns
  BY <1>1, <1>2 DEF IntRunStarts, IntTurns
<1>6. line' \in Seq(IntMessages) /\ intEvents' \in Seq(IntEvents)
  BY <1>2, <1>4 DEF IntRunStarts
<1>7. UNCHANGED <<pending, ticking, interrupt, replayed, replays, intFailures>>
  BY DEF IntRunStarts, pluginVars
<1>8. IntTypeOK'
  BY <1>5, <1>6, <1>7 DEF IntInv, IntTypeOK, IntTurns, IntEvents
<1>9. \A m \in IntMessages : turn'[m] = "new" => turn[m] = "new"
  BY <1>1, <1>2, <1>5 DEF IntTurns
<1>10. (Interrupting => interrupt.message \in IntMessages)'
  BY <1>7 DEF IntInv, Interrupting
<1> QED
  BY <1>7, <1>8, <1>9, <1>10, NothingReplayed

\* opencode: a run ends.
LEMMA IntRunEndsKeeps == ASSUME IntInv, NEW m \in IntMessages, IntRunEnds(m) PROVE IntInv'
<1>1. intEvents \in Seq(IntEvents) /\ turn \in IntTurns
  BY DEF IntInv, IntTypeOK, IntEvents, IntTurns
<1>2. Append(intEvents, <<"idle", NoMessage>>) \in Seq(IntEvents)
  <2>1. <<"idle", NoMessage>> \in IntEvents
    BY DEF IntEvents
  <2> QED
    BY <1>1, <2>1, AppendProperties
<1>3. intEvents' \in Seq(IntEvents)
  BY <1>1, <1>2 DEF IntRunEnds
<1>4. turn' = [turn EXCEPT ![m] = "answered"] /\ turn' \in IntTurns
  BY <1>1 DEF IntRunEnds, IntTurns
<1>5. UNCHANGED <<line, pending, ticking, interrupt, replayed, replays, intFailures>>
  BY DEF IntRunEnds, pluginVars
<1>6. IntTypeOK'
  BY <1>3, <1>4, <1>5 DEF IntInv, IntTypeOK, IntTurns, IntEvents
<1>7. \A n \in IntMessages : turn'[n] = "new" => turn[n] = "new"
  BY <1>1, <1>4 DEF IntTurns
<1>8. (Interrupting => interrupt.message \in IntMessages)'
  BY <1>5 DEF IntInv, Interrupting
<1> QED
  BY <1>5, <1>6, <1>7, <1>8, NothingReplayed

\* An event leaves the channel.
LEMMA IntEventTaken ==
  ASSUME IntInv, intEvents # <<>>, intEvents' = Tail(intEvents)
  PROVE  intEvents' \in Seq(IntEvents)
<1>1. intEvents \in Seq(IntEvents)
  BY DEF IntInv, IntTypeOK, IntEvents
<1> QED
  BY <1>1, HeadTailProperties

LEMMA IntEventLostKeeps == ASSUME IntInv, IntEventLost PROVE IntInv'
<1>1. intEvents' \in Seq(IntEvents)
  BY IntEventTaken DEF IntEventLost
<1>2. UNCHANGED <<turn, line, pending, ticking, interrupt, replayed, replays, intFailures>>
  BY DEF IntEventLost, pluginVars
<1>3. IntTypeOK'
  BY <1>1, <1>2 DEF IntInv, IntTypeOK, IntEvents
<1>4. (Interrupting => interrupt.message \in IntMessages)'
  BY <1>2 DEF IntInv, Interrupting
<1> QED
  BY <1>2, <1>3, <1>4, NothingReplayed

\* The user's prompt is a message nobody knows yet: the hook holds it.
LEMMA IntPromptKeeps == ASSUME IntInv, NEW m \in IntMessages, IntPrompt(m) PROVE IntInv'
<1>1. MapOfMessages(pending) /\ ToSet(pending) \subseteq IntMessages /\ ticking \subseteq ToSet(pending)
  BY IntMap
<1>2. turn \in IntTurns /\ line \in Seq(IntMessages) /\ turn[m] = "new"
  BY DEF IntInv, IntTypeOK, IntTurns, IntPrompt
<1>3. m \notin replayed /\ replays[m] = 0 /\ m \notin ToSet(pending)
  BY <1>2 DEF IntInv, NewIsUnknown, HeldIsUnsent
<1>4. SchedulePending(m) /\ replayed' = replayed
  BY <1>3 DEF IntPrompt, ChatMessage
<1>5. /\ MapOfMessages(pending') /\ ToSet(pending') = ToSet(pending) \cup {m}
      /\ ticking' = ticking \cup {m}
  BY <1>1, <1>4, MapSchedules
<1>6. turn' = [turn EXCEPT ![m] = "queued"] /\ turn' \in IntTurns /\ line' \in Seq(IntMessages)
  BY <1>2, AppendProperties DEF IntPrompt, IntTurns
<1>7. UNCHANGED <<intEvents, interrupt, replays, intFailures>>
  BY DEF IntPrompt
<1>8. IntTypeOK'
  BY <1>1, <1>4, <1>5, <1>6, <1>7 DEF IntInv, IntTypeOK, IntTurns, MapOfMessages
<1>9. \A n \in IntMessages : turn'[n] = "new" => turn[n] = "new" /\ n # m
  BY <1>2, <1>6 DEF IntTurns
<1>10. HeldIsUnsent'
  BY <1>1, <1>3, <1>4, <1>5, <1>7, <1>9 DEF IntInv, HeldIsUnsent
<1>11. NewIsUnknown'
  BY <1>4, <1>7, <1>9 DEF IntInv, NewIsUnknown
<1>12. ReplayIsFirst'
  <2>1. CASE interrupt.at = "replaying"
    <3>1. /\ interrupt.message \in IntMessages /\ interrupt.message \notin ToSet(pending)
          /\ interrupt.message \in replayed /\ turn[interrupt.message] # "new"
          /\ replays[interrupt.message] = 0
      BY <2>1 DEF IntInv, Interrupting, ReplayIsFirst
    <3> QED
      BY <1>2, <1>4, <1>5, <1>7, <1>9, <3>1 DEF ReplayIsFirst
  <2> QED
    BY <1>7, <2>1 DEF ReplayIsFirst
<1>13. (Interrupting => interrupt.message \in IntMessages)' /\ IntReplayedOnce'
  BY <1>7 DEF IntInv, Interrupting, IntReplayedOnce
<1> QED
  BY <1>8, <1>10, <1>11, <1>12, <1>13 DEF IntInv

LEMMA AssistantStartedKeeps == ASSUME IntInv, NEW m \in IntMessages, AssistantStarted(m) PROVE IntInv'
<1>1. MapOfMessages(pending) /\ ToSet(pending) \subseteq IntMessages /\ ticking \subseteq ToSet(pending)
  BY IntMap
<1>2. pending' = Without(m) /\ ticking' = ticking \ {m}
  BY DEF AssistantStarted, ClearPending
<1>3. MapOfMessages(pending') /\ ToSet(pending') = ToSet(pending) \ {m}
  BY <1>1, <1>2, MapForgets
<1>4. intEvents' \in Seq(IntEvents)
  BY IntEventTaken DEF AssistantStarted
<1>5. UNCHANGED <<turn, line, interrupt, replayed, replays, intFailures>>
  BY DEF AssistantStarted
<1>6. IntTypeOK'
  BY <1>1, <1>2, <1>3, <1>4, <1>5 DEF IntInv, IntTypeOK, IntEvents, MapOfMessages
<1>7. (Interrupting => interrupt.message \in IntMessages)'
  BY <1>5 DEF IntInv, Interrupting
<1> QED
  BY <1>3, <1>5, <1>6, <1>7, NothingReplayed

\* The idle event empties the Map. None of its messages was in replayedMessageIds.
LEMMA SessionIdleKeeps == ASSUME IntInv, SessionIdle PROVE IntInv'
<1>1. MapOfMessages(pending) /\ ToSet(pending) \subseteq IntMessages /\ ticking \subseteq ToSet(pending)
  BY IntMap
<1>2. MapOfMessages(<<>>) /\ ToSet(<<>>) = {}
  BY DEF MapOfMessages, IsInjective, ToSet
<1>3. replayed' = replayed
  BY DEF SessionIdle, IntInv, HeldIsUnsent
<1>4. \/ pending' = pending /\ ticking' = ticking
      \/ pending' = <<>> /\ ticking' = {}
  BY DEF SessionIdle, PendingStays
<1>5. /\ MapOfMessages(pending') /\ ToSet(pending') \subseteq ToSet(pending)
      /\ ticking' \subseteq ToSet(pending')
  BY <1>1, <1>2, <1>4
<1>6. intEvents' \in Seq(IntEvents)
  BY IntEventTaken DEF SessionIdle
<1>7. UNCHANGED <<turn, line, interrupt, replays, intFailures>>
  BY DEF SessionIdle
<1>8. IntTypeOK'
  BY <1>1, <1>3, <1>5, <1>6, <1>7 DEF IntInv, IntTypeOK, IntEvents, MapOfMessages
<1>9. (Interrupting => interrupt.message \in IntMessages)'
  BY <1>7 DEF IntInv, Interrupting
<1> QED
  BY <1>3, <1>5, <1>7, <1>8, <1>9, NothingReplayed

LEMMA TimerFiresKeeps == ASSUME IntInv, NEW m \in IntMessages, TimerFires(m) PROVE IntInv'
<1>1. MapOfMessages(pending) /\ ToSet(pending) \subseteq IntMessages /\ ticking \subseteq ToSet(pending)
  BY IntMap
<1>2. m \in ToSet(pending) /\ UNCHANGED <<turn, line, intEvents, replayed, replays, intFailures>>
  BY <1>1 DEF TimerFires
<1>3. CASE Interrupting
  <2>1. SchedulePending(m) /\ interrupt' = interrupt
    BY <1>3 DEF TimerFires
  <2>2. /\ MapOfMessages(pending') /\ ToSet(pending') = ToSet(pending)
        /\ ticking' = ticking \cup {m}
    BY <1>1, <1>2, <2>1, MapSchedules
  <2>3. IntTypeOK'
    BY <1>1, <1>2, <2>1, <2>2 DEF IntInv, IntTypeOK, MapOfMessages
  <2>4. (Interrupting => interrupt.message \in IntMessages)'
    BY <2>1 DEF IntInv, Interrupting
  <2> QED
    BY <1>2, <2>1, <2>2, <2>3, <2>4, NothingReplayed
<1>4. CASE ~Interrupting
  <2>1. /\ interrupt' = [at |-> "aborting", message |-> m]
        /\ pending' = pending /\ ticking' = ticking \ {m}
    BY <1>4 DEF TimerFires
  <2>2. IntTypeOK'
    BY <1>1, <1>2, <2>1 DEF IntInv, IntTypeOK
  <2>3. (Interrupting => interrupt.message \in IntMessages)' /\ interrupt'.at # "replaying"
    BY <2>1 DEF Interrupting
  <2> QED
    BY <1>2, <2>1, <2>2, <2>3, NothingReplayed
<1> QED
  BY <1>3, <1>4

LEMMA AbortCallKeeps == ASSUME IntInv, AbortCall PROVE IntInv'
<1>1. UNCHANGED <<pending, ticking, replayed, replays, intFailures>> /\ line' = <<>>
  BY DEF AbortCall
<1>2. interrupt.at = "aborting" /\ interrupt' = [interrupt EXCEPT !.at = "polling"]
  BY DEF AbortCall
<1>3. /\ interrupt'.at = "polling" /\ interrupt'.message = interrupt.message
      /\ interrupt' \in [at : {"off", "aborting", "polling", "replaying", "returning"},
                         message : IntMessages \cup {NoMessage}]
      /\ interrupt.message \in IntMessages
  BY <1>2 DEF IntInv, IntTypeOK, Interrupting
<1>4. intEvents' \in Seq(IntEvents)
  <2>1. <<"idle", NoMessage>> \in IntEvents /\ intEvents \in Seq(IntEvents)
    BY DEF IntInv, IntTypeOK, IntEvents
  <2> QED
    BY <2>1, AppendProperties DEF AbortCall
<1>5. turn \in IntTurns
  BY DEF IntInv, IntTypeOK, IntTurns
<1>6. turn' = [m \in IntMessages |-> CASE turn[m] = "running" -> "aborted"
                                       [] turn[m] = "queued" -> "cleared"
                                       [] OTHER -> turn[m]]
  BY DEF AbortCall
<1>7. turn' \in IntTurns /\ \A m \in IntMessages : turn'[m] = "new" => turn[m] = "new"
  BY <1>5, <1>6 DEF IntTurns
<1>8. IntTypeOK'
  BY <1>1, <1>3, <1>4, <1>7 DEF IntInv, IntTypeOK, IntTurns, IntEvents
<1>9. (Interrupting => interrupt.message \in IntMessages)'
  BY <1>3 DEF Interrupting
<1> QED
  BY <1>1, <1>3, <1>7, <1>8, <1>9, NothingReplayed

\* The interrupt is over, with or without an error: the next message is tried.
LEMMA InterruptEnds ==
  ASSUME IntInv, interrupt' = NoInterrupt, DrainNext(pending), intFailures' \in 0 .. MaxIntFailures,
         UNCHANGED <<turn, line, intEvents, replayed, replays>>
  PROVE  IntInv'
<1>1. MapOfMessages(pending) /\ ToSet(pending) \subseteq IntMessages /\ ticking \subseteq ToSet(pending)
  BY IntMap
<1>2. /\ MapOfMessages(pending') /\ ToSet(pending') = ToSet(pending)
      /\ ticking' \subseteq ToSet(pending')
  BY <1>1, MapDrains
<1>3. interrupt'.at = "off" /\ interrupt' = [at |-> "off", message |-> NoMessage]
  BY DEF NoInterrupt
<1>4. IntTypeOK'
  BY <1>1, <1>2, <1>3 DEF IntInv, IntTypeOK, MapOfMessages
<1>5. (Interrupting => interrupt.message \in IntMessages)'
  BY <1>3 DEF Interrupting
<1> QED
  BY <1>2, <1>3, <1>4, <1>5, NothingReplayed

\* The replay is decided on: the message leaves the Map and its id is kept.
LEMMA PolledKeeps == ASSUME IntInv, Polled PROVE IntInv'
<1> DEFINE m == interrupt.message
<1>1. MapOfMessages(pending) /\ ToSet(pending) \subseteq IntMessages /\ ticking \subseteq ToSet(pending)
  BY IntMap
<1>2. UNCHANGED <<turn, line, intEvents, replays, intFailures>>
  BY DEF Polled
<1>3. CASE m \in ToSet(pending)
  <2>1. /\ interrupt' = [interrupt EXCEPT !.at = "replaying"] /\ replayed' = replayed \cup {m}
        /\ pending' = Without(m) /\ ticking' = ticking \ {m}
    BY <1>3 DEF Polled, ClearPending
  <2>2. MapOfMessages(pending') /\ ToSet(pending') = ToSet(pending) \ {m}
    BY <1>1, <2>1, MapForgets
  <2>3. /\ interrupt'.at = "replaying" /\ interrupt'.message = m /\ m \in IntMessages
        /\ interrupt' \in [at : {"off", "aborting", "polling", "replaying", "returning"},
                           message : IntMessages \cup {NoMessage}]
    BY <1>1, <1>3, <2>1 DEF IntInv, IntTypeOK
  <2>4. IntTypeOK'
    BY <1>1, <1>2, <2>1, <2>2, <2>3 DEF IntInv, IntTypeOK, MapOfMessages
  <2>5. turn[m] # "new" /\ m \notin replayed /\ replays[m] = 0
    BY <1>3 DEF IntInv, HeldIsUnsent
  <2>6. HeldIsUnsent'
    BY <1>2, <2>1, <2>2 DEF IntInv, HeldIsUnsent
  <2>7. NewIsUnknown'
    BY <1>2, <2>1, <2>5 DEF IntInv, NewIsUnknown
  <2>8. ReplayIsFirst'
    BY <1>2, <2>1, <2>2, <2>3, <2>5 DEF ReplayIsFirst
  <2>9. (Interrupting => interrupt.message \in IntMessages)' /\ IntReplayedOnce'
    BY <1>2, <2>3 DEF IntInv, Interrupting, IntReplayedOnce
  <2> QED
    BY <2>4, <2>6, <2>7, <2>8, <2>9 DEF IntInv
<1>4. CASE m \notin ToSet(pending)
  <2>1. interrupt' = NoInterrupt /\ UNCHANGED <<pending, ticking, replayed>>
    BY <1>4 DEF Polled, PendingStays
  <2>2. interrupt'.at = "off" /\ interrupt' = [at |-> "off", message |-> NoMessage]
    BY <2>1 DEF NoInterrupt
  <2>3. IntTypeOK'
    BY <1>2, <2>1, <2>2 DEF IntInv, IntTypeOK
  <2>4. (Interrupting => interrupt.message \in IntMessages)'
    BY <2>2 DEF Interrupting
  <2> QED
    BY <1>2, <2>1, <2>2, <2>3, <2>4, NothingReplayed
<1> QED
  BY <1>3, <1>4

\* The hook knows the replayed message by its id and does not hold it again.
LEMMA ReplayLandsKeeps == ASSUME IntInv, ReplayLands PROVE IntInv'
<1> DEFINE m == interrupt.message
<1>1. interrupt.at = "replaying" /\ interrupt' = [interrupt EXCEPT !.at = "returning"]
  BY DEF ReplayLands
<1>2. /\ m \in IntMessages /\ m \notin ToSet(pending) /\ m \in replayed
      /\ turn[m] # "new" /\ replays[m] = 0
  BY <1>1 DEF IntInv, Interrupting, ReplayIsFirst
<1>3. replayed' = replayed \ {m} /\ UNCHANGED <<pending, ticking, intEvents, intFailures>>
  BY <1>2 DEF ReplayLands, ChatMessage, PendingStays
<1>4. /\ turn' = [turn EXCEPT ![m] = "queued"] /\ replays' = [replays EXCEPT ![m] = @ + 1]
      /\ line' = Append(line, m)
  BY DEF ReplayLands
<1>5. line' \in Seq(IntMessages)
  BY <1>2, <1>4, AppendProperties DEF IntInv, IntTypeOK
<1>6. turn \in IntTurns /\ replays \in [IntMessages -> 0 .. 2]
  BY DEF IntInv, IntTypeOK, IntTurns
<1>7. turn' \in IntTurns /\ \A n \in IntMessages : turn'[n] = "new" => turn[n] = "new" /\ n # m
  BY <1>2, <1>4, <1>6 DEF IntTurns
<1>8. /\ replays' \in [IntMessages -> 0 .. 2] /\ replays'[m] = 1
      /\ \A n \in IntMessages : n # m => replays'[n] = replays[n]
  BY <1>2, <1>4, <1>6
<1>9. /\ interrupt'.at = "returning" /\ interrupt'.message = m
      /\ interrupt' \in [at : {"off", "aborting", "polling", "replaying", "returning"},
                         message : IntMessages \cup {NoMessage}]
  BY <1>1 DEF IntInv, IntTypeOK
<1>10. IntTypeOK'
  BY <1>3, <1>5, <1>7, <1>8, <1>9 DEF IntInv, IntTypeOK, IntTurns
<1>11. HeldIsUnsent'
  <2>1. ToSet(pending) \subseteq IntMessages
    BY IntMap
  <2> QED
    BY <1>2, <1>3, <1>7, <1>8, <2>1 DEF IntInv, HeldIsUnsent
<1>12. NewIsUnknown'
  BY <1>3, <1>7, <1>8 DEF IntInv, NewIsUnknown
<1>13. ReplayIsFirst' /\ (Interrupting => interrupt.message \in IntMessages)'
  BY <1>2, <1>9 DEF ReplayIsFirst, Interrupting
<1>14. IntReplayedOnce'
  BY <1>8 DEF IntInv, IntReplayedOnce
<1> QED
  BY <1>10, <1>11, <1>12, <1>13, <1>14 DEF IntInv

LEMMA IntStep == ASSUME IntInv, [IntNext]_intVars PROVE IntInv'
<1>1. CASE UNCHANGED intVars
  <2>1. IntTypeOK' /\ (Interrupting => interrupt.message \in IntMessages)'
    BY <1>1 DEF IntInv, IntTypeOK, Interrupting, intVars
  <2> QED
    BY <1>1, <2>1, NothingReplayed DEF intVars
<1>2. ASSUME NEW m \in IntMessages, IntPrompt(m) \/ IntRunEnds(m) \/ AssistantStarted(m) \/ TimerFires(m)
      PROVE  IntInv'
  BY <1>2, IntPromptKeeps, IntRunEndsKeeps, AssistantStartedKeeps, TimerFiresKeeps
<1>3. CASE IntRunStarts \/ IntEventLost \/ SessionIdle
  BY <1>3, IntRunStartsKeeps, IntEventLostKeeps, SessionIdleKeeps
<1>4. CASE IntInterrupts
  <2>1. CASE AbortCall \/ Polled \/ ReplayLands
    BY <2>1, AbortCallKeeps, PolledKeeps, ReplayLandsKeeps
  <2>2. CASE ReplayReturns
    BY <2>2, InterruptEnds DEF ReplayReturns, IntInv, IntTypeOK
  <2> QED
    BY <1>4, <2>1, <2>2 DEF IntInterrupts
<1>5. CASE CallThrows
  <2>1. intFailures' \in 0 .. MaxIntFailures
    BY <1>5, IntAssumption DEF CallThrows, IntInv, IntTypeOK
  <2> QED
    BY <1>5, <2>1, InterruptEnds DEF CallThrows
<1> QED
  BY <1>1, <1>2, <1>3, <1>4, <1>5 DEF IntNext

\* The invariant of the plugin: who holds a message, who replays it and what
\* the hook knows of it agree (interruptPendingMessage, chat.message, event).
THEOREM IntInvariant == IntSpec => []IntInv
<1>1. IntInit => IntInv
  BY IntInitially
<1>2. IntInv /\ [IntNext]_intVars => IntInv'
  BY IntStep
<1> QED
  BY <1>1, <1>2, PTL DEF IntSpec

\* Every variable keeps its type; the Map never holds a message twice, and only
\* messages of the Map have a timer.
THEOREM IntTypeCorrect == IntSpec => []IntTypeOK
<1>1. IntInv => IntTypeOK
  BY DEF IntInv
<1> QED
  BY <1>1, IntInvariant, PTL

\* Whatever the events that come late or are lost and the calls that throw, the
\* plugin sends no message a second time: an abort and replay does not lead to
\* another one of the same message.
THEOREM IntNoReplayLoop == IntSpec => []IntReplayedOnce
<1>1. IntInv => IntReplayedOnce
  BY DEF IntInv
<1> QED
  BY <1>1, IntInvariant, PTL

-----------------------------------------------------------------------------
(* IpcRequests: buttons act at most once *)

IpcContexts == [is : Unresolved \cup Outcomes, sent : BOOLEAN,
                value : {"none", "files", "empty", "error"}]
IpcUserStates == [at : {"new", "deferring", "claimed", "telling", "downloading", "uploaded", "done"},
                  call : IpcCalls \cup {NoCall}, files : BOOLEAN]

\* The part of the type that the clicks concern
IpcClickTypes ==
  /\ context \in [IpcCalls -> IpcContexts] /\ user \in [IpcUsers -> IpcUserStates]
  /\ told \in Seq(IpcButtons)

\* A click that resolved its context and has yet to tell the model
Claiming(u) == user[u].at \in {"claimed", "telling"}

ClicksAreOnButtons ==
  \A u \in IpcUsers : user[u].at = "deferring" \/ Claiming(u) => user[u].call \in IpcButtons
\* The context of such a click stays resolved by it, and the model was not told yet.
ClaimIsClicked ==
  \A u \in IpcUsers : Claiming(u) => /\ context[user[u].call].is = "clicked"
                                      /\ \A i \in 1 .. Len(told) : told[i] # user[u].call
OneClaim ==
  \A u, v \in IpcUsers : Claiming(u) /\ Claiming(v) /\ user[u].call = user[v].call => u = v
ToldOnce == \A i, j \in 1 .. Len(told) : told[i] = told[j] => i = j
ToldIsClicked == \A i \in 1 .. Len(told) : context[told[i]].is = "clicked"

IpcInv ==
  /\ IpcClickTypes /\ ClicksAreOnButtons /\ ClaimIsClicked /\ OneClaim /\ ToldOnce /\ ToldIsClicked

\* What a step may do to the contexts: a click is never taken back.
ClickStays ==
  /\ context' \in [IpcCalls -> IpcContexts]
  /\ \A c \in IpcButtons : context[c].is = "clicked" => context'[c].is = "clicked"

\* A step by which no click is claimed and the model is told nothing
LEMMA NobodyClaims ==
  ASSUME IpcInv, ClickStays, told' = told, user' \in [IpcUsers -> IpcUserStates],
         \A u \in IpcUsers : user'[u].at \in {"claimed", "telling"} =>
           user[u].at \in {"claimed", "telling"} /\ user'[u].call = user[u].call,
         \A u \in IpcUsers : user'[u].at = "deferring" => user'[u].call \in IpcButtons
  PROVE  IpcInv'
<1>1. \A u \in IpcUsers : Claiming(u)' => Claiming(u) /\ user'[u].call = user[u].call
  BY DEF Claiming
<1>2. \A u \in IpcUsers : Claiming(u) => user[u].call \in IpcButtons
  BY DEF IpcInv, ClicksAreOnButtons
<1>3. told \in Seq(IpcButtons)
  BY DEF IpcInv, IpcClickTypes
<1>4. IpcClickTypes'
  BY <1>3 DEF IpcClickTypes, ClickStays
<1>5. ClicksAreOnButtons'
  BY <1>1, <1>2 DEF ClicksAreOnButtons
<1>6. ClaimIsClicked'
  BY <1>1, <1>2 DEF IpcInv, ClaimIsClicked, ClickStays
<1>7. OneClaim'
  BY <1>1 DEF IpcInv, OneClaim
<1>8. ToldOnce' /\ ToldIsClicked'
  BY <1>3 DEF IpcInv, ToldOnce, ToldIsClicked, ClickStays
<1> QED
  BY <1>4, <1>5, <1>6, <1>7, <1>8 DEF IpcInv

\* Users that do nothing keep the invariant whatever becomes of the contexts.
LEMMA UsersWait == ASSUME IpcInv, ClickStays, UNCHANGED <<told, user>> PROVE IpcInv'
<1>1. user' \in [IpcUsers -> IpcUserStates]
  BY DEF IpcInv, IpcClickTypes
<1>2. \A u \in IpcUsers : user'[u].at = "deferring" => user'[u].call \in IpcButtons
  BY DEF IpcInv, ClicksAreOnButtons
<1> QED
  BY <1>1, <1>2, NobodyClaims

LEMMA IpcUnchanged == ASSUME IpcInv, UNCHANGED <<context, told, user>> PROVE IpcInv'
<1>1. ClickStays
  BY DEF IpcInv, IpcClickTypes, ClickStays
<1> QED
  BY <1>1, UsersWait

LEMMA ReplacedContext ==
  ASSUME NEW k \in IpcContexts, NEW is, NEW value
  PROVE  /\ [k EXCEPT !.is = is] = [is |-> is, sent |-> k.sent, value |-> k.value]
         /\ [k EXCEPT !.value = value] = [is |-> k.is, sent |-> k.sent, value |-> value]
<1>1. [k EXCEPT !.is = is] = [is |-> is, sent |-> k.sent, value |-> k.value]
  BY DEF IpcContexts
<1>2. [k EXCEPT !.value = value] = [is |-> k.is, sent |-> k.sent, value |-> value]
  BY DEF IpcContexts
<1> QED
  BY <1>1, <1>2

LEMMA ResolvedContext ==
  ASSUME NEW k \in IpcContexts, NEW is, NEW value, NEW f,
         f = [k EXCEPT !.is = is, !.value = value]
  PROVE  f = [is |-> is, sent |-> k.sent, value |-> value]
<1>1. f.is = is /\ f.value = value /\ f.sent = k.sent /\ DOMAIN f = {"is", "sent", "value"}
  BY DEF IpcContexts
<1> QED
  BY <1>1 DEF IpcContexts

\* resolveContext leaves what is resolved alone.
LEMMA ResolvingKeeps ==
  ASSUME IpcInv, NEW c, NEW outcome \in Outcomes, NEW value \in {"none", "files", "empty", "error"},
         context' = ResolvedAs(c, outcome, value)
  PROVE  ClickStays
<1>1. context \in [IpcCalls -> IpcContexts]
  BY DEF IpcInv, IpcClickTypes
<1>2. CASE c \in IpcCalls /\ context[c].is = "open"
  <2>1. context' = [context EXCEPT ![c] = [is |-> outcome, sent |-> context[c].sent, value |-> value]]
    <3>1. context' = [context EXCEPT ![c] = [context[c] EXCEPT !.is = outcome, !.value = value]]
      BY <1>1, <1>2 DEF ResolvedAs
    <3>2. [context[c] EXCEPT !.is = outcome, !.value = value]
            = [is |-> outcome, sent |-> context[c].sent, value |-> value]
      BY <1>1, <1>2, Zenon, ResolvedContext
    <3> QED
      BY <3>1, <3>2
  <2>2. [is |-> outcome, sent |-> context[c].sent, value |-> value] \in IpcContexts
    BY <1>1, <1>2 DEF IpcContexts
  <2> QED
    BY <1>1, <1>2, <2>1, <2>2 DEF ClickStays, IpcCalls
<1>3. CASE c \notin IpcCalls \/ context[c].is # "open"
  <2>1. context' = context
    BY <1>1, <1>3 DEF ResolvedAs
  <2> QED
    BY <1>1, <2>1 DEF ClickStays
<1> QED
  BY <1>2, <1>3

\* A context that was not clicked changes, or one keeps how it was resolved.
LEMMA OneContextChanges ==
  ASSUME IpcInv, NEW c, NEW k \in IpcContexts, context' = [context EXCEPT ![c] = k],
         c \in IpcButtons /\ context[c].is = "clicked" => k.is = "clicked"
  PROVE  ClickStays
<1>1. context \in [IpcCalls -> IpcContexts]
  BY DEF IpcInv, IpcClickTypes
<1>2. context' \in [IpcCalls -> IpcContexts]
  BY <1>1
<1>3. \A d \in IpcButtons : context'[d] = IF d = c THEN k ELSE context[d]
  BY <1>1 DEF IpcCalls
<1> QED
  BY <1>2, <1>3 DEF ClickStays

LEMMA DispatchUploadKeeps == ASSUME IpcInv, NEW c \in IpcCalls, DispatchUpload(c) PROVE IpcInv'
<1>1. context \in [IpcCalls -> IpcContexts]
  BY DEF IpcInv, IpcClickTypes
<1> DEFINE k == [is |-> "open", sent |-> context[c].sent, value |-> context[c].value]
<1>2. context' = [context EXCEPT ![c] = [context[c] EXCEPT !.is = "open"]] /\ c \in IpcUploads
  BY <1>1 DEF DispatchUpload
<1>3. [context[c] EXCEPT !.is = "open"] = k
  BY <1>1, ReplacedContext
<1>4. context' = [context EXCEPT ![c] = k]
  BY <1>2, <1>3
<1>5. k \in IpcContexts /\ c \notin IpcButtons
  BY <1>1, <1>2, IpcAssumption DEF IpcContexts, Unresolved
<1>6. UNCHANGED <<told, user>>
  BY DEF DispatchUpload
<1> HIDE DEF k
<1>7. ClickStays
  BY <1>4, <1>5, OneContextChanges
<1> QED
  BY <1>6, <1>7, UsersWait

LEMMA OpenButtonsKeeps == ASSUME IpcInv, OpenButtons PROVE IpcInv'
<1>1. context \in [IpcCalls -> IpcContexts]
  BY DEF IpcInv, IpcClickTypes
<1>2. /\ context' = [context EXCEPT ![ui.shown].is = "open"] /\ context[ui.shown].is = "none"
      /\ UNCHANGED <<told, user>>
  BY DEF OpenButtons
<1>3. CASE ui.shown \in IpcCalls
  <2> DEFINE k == [is |-> "open", sent |-> context[ui.shown].sent, value |-> context[ui.shown].value]
  <2>1. context' = [context EXCEPT ![ui.shown] = [context[ui.shown] EXCEPT !.is = "open"]]
    BY <1>1, <1>2, <1>3
  <2>2. [context[ui.shown] EXCEPT !.is = "open"] = k
    BY <1>1, <1>3, ReplacedContext
  <2>3. k \in IpcContexts
    BY <1>1, <1>3 DEF IpcContexts, Unresolved
  <2>4. context' = [context EXCEPT ![ui.shown] = k]
    BY <2>1, <2>2
  <2> HIDE DEF k
  <2>5. ClickStays
    BY <1>2, <2>3, <2>4, OneContextChanges
  <2> QED
    BY <1>2, <2>5, UsersWait
<1>4. CASE ui.shown \notin IpcCalls
  <2>1. context' = context
    BY <1>1, <1>2, <1>4
  <2> QED
    BY <1>2, <2>1, IpcUnchanged
<1> QED
  BY <1>3, <1>4

LEMMA ButtonsSentKeeps == ASSUME IpcInv, ButtonsSent PROVE IpcInv'
<1>1. context \in [IpcCalls -> IpcContexts]
  BY DEF IpcInv, IpcClickTypes
<1>2. /\ \/ context' = [context EXCEPT ![ui.shown].sent = TRUE]
         \/ context' = [context EXCEPT ![ui.shown].is = IF @ = "open" THEN "unsent" ELSE @]
      /\ UNCHANGED <<told, user>>
  BY DEF ButtonsSent
<1>3. CASE ui.shown \in IpcCalls
  <2> DEFINE old == context[ui.shown]
             k == [is |-> old.is, sent |-> TRUE, value |-> old.value]
             l == [is |-> IF old.is = "open" THEN "unsent" ELSE old.is, sent |-> old.sent,
                   value |-> old.value]
  <2>1. old \in IpcContexts
    BY <1>1, <1>3
  <2>2. k \in IpcContexts /\ l \in IpcContexts
    BY <2>1 DEF IpcContexts, Unresolved, Outcomes
  <2>3. context' = [context EXCEPT ![ui.shown] = k] \/ context' = [context EXCEPT ![ui.shown] = l]
    BY <1>1, <1>2, <1>3 DEF IpcContexts
  <2>4. (old.is = "clicked" => k.is = "clicked") /\ (old.is = "clicked" => l.is = "clicked")
    OBVIOUS
  <2> HIDE DEF k, l
  <2>5. ClickStays
    BY <2>2, <2>3, <2>4, OneContextChanges
  <2> QED
    BY <1>2, <2>5, UsersWait
<1>4. CASE ui.shown \notin IpcCalls
  <2>1. context' = context
    BY <1>1, <1>2, <1>4
  <2> QED
    BY <1>2, <2>1, IpcUnchanged
<1> QED
  BY <1>3, <1>4

LEMMA ExpiresKeeps == ASSUME IpcInv, NEW c \in IpcCalls, Expires(c) PROVE IpcInv'
<1>1. ClickStays
  BY ResolvingKeeps DEF Expires, Outcomes
<1> QED
  BY <1>1, UsersWait DEF Expires

LEMMA UserWritesKeeps == ASSUME IpcInv, UserWrites PROVE IpcInv'
<1>1. context \in [IpcCalls -> IpcContexts]
  BY DEF IpcInv, IpcClickTypes
<1> DEFINE open == {c \in IpcCalls : context[c].is = "open"}
<1>2. PICK b \in SUBSET IpcButtons :
        /\ b \subseteq open
        /\ context' = [c \in IpcCalls |->
                         IF c \in b THEN [context[c] EXCEPT !.is = "dismissed"]
                         ELSE IF c \in open \cap IpcUploads
                              THEN [context[c] EXCEPT !.is = "dismissed", !.value = "empty"]
                              ELSE context[c]]
  BY DEF UserWrites
<1>3. ASSUME NEW c \in IpcCalls
      PROVE  /\ context'[c] \in IpcContexts
             /\ context[c].is = "clicked" => context'[c].is = "clicked"
  <2>1. context[c] \in IpcContexts
    BY <1>1
  <2>2. CASE c \in open
    BY <1>2, <2>1, <2>2 DEF IpcContexts, Outcomes
  <2>3. CASE c \notin open
    BY <1>2, <2>1, <2>3
  <2> QED
    BY <2>2, <2>3
<1>4. ClickStays
  BY <1>2, <1>3 DEF ClickStays, IpcCalls
<1> QED
  BY <1>4, UsersWait DEF UserWrites

LEMMA UploadSentKeeps == ASSUME IpcInv, NEW c \in IpcCalls, UploadSent(c) PROVE IpcInv'
<1>1. context \in [IpcCalls -> IpcContexts]
  BY DEF IpcInv, IpcClickTypes
<1>2. CASE context' = [context EXCEPT ![c].sent = TRUE]
  <2> DEFINE k == [is |-> context[c].is, sent |-> TRUE, value |-> context[c].value]
  <2>1. context' = [context EXCEPT ![c] = [context[c] EXCEPT !.sent = TRUE]]
    BY <1>1, <1>2
  <2>2. ASSUME NEW f, f = [context[c] EXCEPT !.sent = TRUE] PROVE f = k
    <3>1. f.is = context[c].is /\ f.value = context[c].value /\ f.sent = TRUE
          /\ DOMAIN f = {"is", "sent", "value"}
      BY <1>1, <2>2 DEF IpcContexts
    <3> QED
      BY <1>1, <2>2, <3>1 DEF IpcContexts
  <2>3. k \in IpcContexts
    BY <1>1 DEF IpcContexts
  <2>4. context' = [context EXCEPT ![c] = k]
    BY <2>1, <2>2
  <2>5. context[c].is = "clicked" => k.is = "clicked"
    OBVIOUS
  <2> HIDE DEF k
  <2> QED
    BY <2>3, <2>4, <2>5, OneContextChanges, UsersWait DEF UploadSent
<1>3. CASE context' = ResolvedAs(c, "unsent", "error")
  BY <1>3, ResolvingKeeps, UsersWait DEF UploadSent, Outcomes
<1> QED
  BY <1>2, <1>3 DEF UploadSent

LEMMA UploadEndsKeeps == ASSUME IpcInv, NEW c \in IpcCalls, UploadEnds(c) PROVE IpcInv'
<1> DEFINE k == [is |-> context[c].is, sent |-> context[c].sent, value |-> "none"]
<1>1. context[c] \in IpcContexts
  BY DEF IpcInv, IpcClickTypes
<1>2. context' = [context EXCEPT ![c] = [context[c] EXCEPT !.value = "none"]]
  BY DEF UploadEnds
<1>3. [context[c] EXCEPT !.value = "none"] = k
  BY <1>1, ReplacedContext
<1>4. context' = [context EXCEPT ![c] = k]
  BY <1>2, <1>3
<1>5. k \in IpcContexts
  BY <1>1 DEF IpcContexts
<1>6. context[c].is = "clicked" => k.is = "clicked"
  OBVIOUS
<1> HIDE DEF k
<1> QED
  BY <1>4, <1>5, <1>6, OneContextChanges, UsersWait DEF UploadEnds

\* A user moves on to a place from which no click is claimed.
LEMMA UserMoves ==
  ASSUME IpcInv, ClickStays, told' = told, NEW u \in IpcUsers, NEW w \in IpcUserStates,
         user' = [user EXCEPT ![u] = w], w.at \notin {"claimed", "telling"},
         w.at = "deferring" => w.call \in IpcButtons
  PROVE  IpcInv'
<1>1. user \in [IpcUsers -> IpcUserStates]
  BY DEF IpcInv, IpcClickTypes
<1>2. user' \in [IpcUsers -> IpcUserStates] /\ \A v \in IpcUsers : user'[v] = IF v = u THEN w ELSE user[v]
  BY <1>1
<1>3. \A v \in IpcUsers : user'[v].at \in {"claimed", "telling"} =>
        user[v].at \in {"claimed", "telling"} /\ user'[v].call = user[v].call
  BY <1>2
<1>4. \A v \in IpcUsers : user'[v].at = "deferring" => user'[v].call \in IpcButtons
  BY <1>2 DEF IpcInv, ClicksAreOnButtons
<1> QED
  BY <1>2, <1>3, <1>4, NobodyClaims

LEMMA ContextsKept == ASSUME IpcInv, context' = context PROVE ClickStays
  BY DEF IpcInv, IpcClickTypes, ClickStays

LEMMA SubmitModalKeeps ==
  ASSUME IpcInv, NEW u \in IpcUsers, NEW c \in IpcCalls, SubmitModal(u, c) PROVE IpcInv'
<1> DEFINE w == [at |-> "downloading", call |-> c, files |-> FALSE]
<1>1. user' = [user EXCEPT ![u] = w] /\ UNCHANGED <<context, told>>
  BY DEF SubmitModal
<1>2. w \in IpcUserStates /\ w.at = "downloading"
  BY DEF IpcUserStates
<1> HIDE DEF w
<1> QED
  BY <1>1, <1>2, ContextsKept, UserMoves

LEMMA ClickKeeps ==
  ASSUME IpcInv, NEW u \in IpcUsers, NEW c \in IpcCalls, Click(u, c) PROVE IpcInv'
<1> DEFINE w == [at |-> "deferring", call |-> c, files |-> FALSE]
<1>1. user' = [user EXCEPT ![u] = w] /\ c \in IpcButtons /\ UNCHANGED <<context, told>>
  BY DEF Click
<1>2. w \in IpcUserStates /\ w.at = "deferring" /\ w.call = c
  BY DEF IpcUserStates
<1> HIDE DEF w
<1> QED
  BY <1>1, <1>2, ContextsKept, UserMoves

LEMMA DownloadedKeeps == ASSUME IpcInv, NEW u \in IpcUsers, Downloaded(u) PROVE IpcInv'
<1>1. user[u] \in IpcUserStates
  BY DEF IpcInv, IpcClickTypes
<1>2. PICK some \in BOOLEAN :
        user' = [user EXCEPT ![u].files = some,
                   ![u].at = IF context[user[u].call].is = "open" THEN "uploaded" ELSE "done"]
  BY DEF Downloaded
<1> DEFINE at == IF context[user[u].call].is = "open" THEN "uploaded" ELSE "done"
           w == [at |-> at, call |-> user[u].call, files |-> some]
<1>3. user' = [user EXCEPT ![u] = [user[u] EXCEPT !.files = some, !.at = at]]
  BY <1>2 DEF IpcInv, IpcClickTypes
<1>4. ASSUME NEW f, f = [user[u] EXCEPT !.files = some, !.at = at] PROVE f = w
  <2>1. f.files = some /\ f.at = at /\ f.call = user[u].call /\ DOMAIN f = {"at", "call", "files"}
    BY <1>1, <1>4 DEF IpcUserStates
  <2> QED
    BY <1>1, <1>4, <2>1 DEF IpcUserStates
<1>5. w \in IpcUserStates /\ w.at \notin {"claimed", "telling", "deferring"}
  BY <1>1 DEF IpcUserStates
<1>6. user' = [user EXCEPT ![u] = w]
  BY <1>3, <1>4
<1> HIDE DEF w
<1> QED
  BY <1>5, <1>6, ContextsKept, UserMoves DEF Downloaded

LEMMA ResolveUploadKeeps == ASSUME IpcInv, NEW u \in IpcUsers, ResolveUpload(u) PROVE IpcInv'
<1> DEFINE w == [at |-> "done", call |-> user[u].call, files |-> user[u].files]
<1>1. user[u] \in IpcUserStates
  BY DEF IpcInv, IpcClickTypes
<1>2. user' = [user EXCEPT ![u] = w]
  <2>1. user' = [user EXCEPT ![u] = [user[u] EXCEPT !.at = "done"]]
    BY DEF ResolveUpload
  <2>2. [user[u] EXCEPT !.at = "done"] = w
    BY <1>1 DEF IpcUserStates
  <2> QED
    BY <2>1, <2>2
<1>3. w \in IpcUserStates /\ w.at = "done"
  BY <1>1 DEF IpcUserStates
<1> HIDE DEF w
<1>4. ClickStays
  <2>1. CASE context' = ResolvedAs(user[u].call, "submitted", "empty")
    BY <2>1, ResolvingKeeps DEF Outcomes
  <2>2. CASE context' = ResolvedAs(user[u].call, "submitted", IF user[u].files THEN "files" ELSE "empty")
    BY <2>2, ResolvingKeeps DEF Outcomes
  <2> QED
    BY <2>1, <2>2 DEF ResolveUpload
<1> QED
  BY <1>2, <1>3, <1>4, UserMoves DEF ResolveUpload

\* resolveContext gives a context to one click only: it was open before.
LEMMA ClaimClickKeeps == ASSUME IpcInv, NEW u \in IpcUsers, ClaimClick(u) PROVE IpcInv'
<1> DEFINE c == user[u].call
           w == [at |-> "claimed", call |-> c, files |-> user[u].files]
           x == [at |-> "done", call |-> c, files |-> user[u].files]
<1>1. /\ user[u] \in IpcUserStates /\ user \in [IpcUsers -> IpcUserStates]
      /\ context \in [IpcCalls -> IpcContexts] /\ c \in IpcButtons /\ c \in IpcCalls
      /\ user[u].at = "deferring" /\ told' = told /\ told \in Seq(IpcButtons)
  BY DEF IpcInv, IpcClickTypes, ClicksAreOnButtons, ClaimClick, IpcCalls
<1>2. ClickStays
  <2>1. context' = ResolvedAs(c, "clicked", "none")
    BY DEF ClaimClick
  <2> QED
    BY <2>1, ResolvingKeeps DEF Outcomes
<1>3. CASE context[c].is # "open"
  <2>1. user' = [user EXCEPT ![u] = [user[u] EXCEPT !.at = "done"]]
    BY <1>1, <1>3 DEF ClaimClick
  <2>2. [user[u] EXCEPT !.at = "done"] = x
    BY <1>1 DEF IpcUserStates
  <2>3. x \in IpcUserStates /\ x.at = "done"
    BY <1>1 DEF IpcUserStates
  <2>4. user' = [user EXCEPT ![u] = x]
    BY <2>1, <2>2
  <2> HIDE DEF x
  <2> QED
    BY <1>1, <1>2, <2>3, <2>4, UserMoves
<1>4. CASE context[c].is = "open"
  <2>1. user' = [user EXCEPT ![u] = [user[u] EXCEPT !.at = "claimed"]]
    BY <1>1, <1>4 DEF ClaimClick
  <2>2. [user[u] EXCEPT !.at = "claimed"] = w
    BY <1>1 DEF IpcUserStates
  <2>3. w \in IpcUserStates /\ w.at = "claimed" /\ w.call = c
    BY <1>1 DEF IpcUserStates
  <2>4. user' = [user EXCEPT ![u] = w]
    BY <2>1, <2>2
  <2>5. context'[c].is = "clicked"
    <3>1. context' = [context EXCEPT ![c] = [context[c] EXCEPT !.is = "clicked", !.value = "none"]]
      BY <1>1, <1>4 DEF ClaimClick, ResolvedAs
    <3>2. [context[c] EXCEPT !.is = "clicked", !.value = "none"]
            = [is |-> "clicked", sent |-> context[c].sent, value |-> "none"]
      BY <1>1, Zenon, ResolvedContext
    <3> QED
      BY <1>1, <3>1, <3>2
  <2> HIDE DEF w
  <2>6. \A v \in IpcUsers : user'[v] = IF v = u THEN w ELSE user[v]
    BY <1>1, <2>4
  <2>7. user' \in [IpcUsers -> IpcUserStates]
    BY <1>1, <2>3, <2>4
  <2>8. \A v \in IpcUsers : v # u /\ Claiming(v)' => Claiming(v) /\ user'[v].call = user[v].call
    BY <2>6 DEF Claiming
  <2>9. \A v \in IpcUsers : Claiming(v) => user[v].call # c /\ user[v].call \in IpcButtons
    BY <1>4 DEF IpcInv, ClaimIsClicked, ClicksAreOnButtons
  <2>10. \A i \in 1 .. Len(told) : told[i] # c /\ told[i] \in IpcButtons
    BY <1>1, <1>4 DEF IpcInv, ToldIsClicked
  <2>11. IpcClickTypes'
    BY <1>1, <1>2, <2>7 DEF IpcClickTypes, ClickStays
  <2>12. ClicksAreOnButtons'
    BY <1>1, <2>3, <2>6, <2>8, <2>9 DEF IpcInv, ClicksAreOnButtons, Claiming
  <2>13. ClaimIsClicked'
    <3> SUFFICES ASSUME NEW v \in IpcUsers, Claiming(v)'
                 PROVE  /\ context'[user'[v].call].is = "clicked"
                        /\ \A i \in 1 .. Len(told') : told'[i] # user'[v].call
      BY DEF ClaimIsClicked
    <3>1. CASE v = u
      BY <1>1, <2>3, <2>5, <2>6, <2>10, <3>1
    <3>2. CASE v # u
      BY <1>1, <1>2, <2>8, <2>9, <3>2 DEF IpcInv, ClaimIsClicked, ClickStays
    <3> QED
      BY <3>1, <3>2
  <2>14. OneClaim'
    <3> SUFFICES ASSUME NEW v1 \in IpcUsers, NEW v2 \in IpcUsers, Claiming(v1)', Claiming(v2)',
                        user'[v1].call = user'[v2].call
                 PROVE  v1 = v2
      BY DEF OneClaim
    <3>1. CASE v1 = u \/ v2 = u
      BY <2>3, <2>6, <2>8, <2>9, <3>1
    <3>2. CASE v1 # u /\ v2 # u
      BY <2>8, <3>2 DEF IpcInv, OneClaim
    <3> QED
      BY <3>1, <3>2
  <2>15. ToldOnce' /\ ToldIsClicked'
    BY <1>1, <1>2, <2>10 DEF IpcInv, ToldOnce, ToldIsClicked, ClickStays
  <2> QED
    BY <2>11, <2>12, <2>13, <2>14, <2>15 DEF IpcInv
<1> QED
  BY <1>3, <1>4

LEMMA CheckSessionKeeps == ASSUME IpcInv, NEW u \in IpcUsers, CheckSession(u) PROVE IpcInv'
<1> DEFINE at == IF resumed THEN "done" ELSE "telling"
           w == [at |-> at, call |-> user[u].call, files |-> user[u].files]
<1>1. /\ user[u] \in IpcUserStates /\ user \in [IpcUsers -> IpcUserStates]
      /\ user[u].at = "claimed" /\ UNCHANGED <<context, told>>
  BY DEF IpcInv, IpcClickTypes, CheckSession
<1>2. user' = [user EXCEPT ![u] = [user[u] EXCEPT !.at = at]]
  BY <1>1 DEF CheckSession
<1>3. [user[u] EXCEPT !.at = at] = w
  BY <1>1 DEF IpcUserStates
<1>4. w \in IpcUserStates /\ w.at # "deferring" /\ w.call = user[u].call
  BY <1>1 DEF IpcUserStates
<1>5. user' = [user EXCEPT ![u] = w]
  BY <1>2, <1>3
<1> HIDE DEF w
<1>6. \A v \in IpcUsers : user'[v] = IF v = u THEN w ELSE user[v]
  BY <1>1, <1>5
<1>7. user' \in [IpcUsers -> IpcUserStates]
  BY <1>1, <1>4, <1>5
<1>8. \A v \in IpcUsers : user'[v].at \in {"claimed", "telling"} =>
        user[v].at \in {"claimed", "telling"} /\ user'[v].call = user[v].call
  BY <1>1, <1>4, <1>6
<1>9. \A v \in IpcUsers : user'[v].at = "deferring" => user'[v].call \in IpcButtons
  BY <1>4, <1>6 DEF IpcInv, ClicksAreOnButtons
<1> QED
  BY <1>1, <1>7, <1>8, <1>9, ContextsKept, NobodyClaims

\* The model is told by the only click that holds the context, which then lets go.
LEMMA TellModelKeeps == ASSUME IpcInv, NEW u \in IpcUsers, TellModel(u) PROVE IpcInv'
<1> DEFINE c == user[u].call
           w == [at |-> "done", call |-> c, files |-> user[u].files]
<1>1. /\ user[u] \in IpcUserStates /\ user \in [IpcUsers -> IpcUserStates]
      /\ user[u].at = "telling" /\ context' = context /\ told \in Seq(IpcButtons)
  BY DEF IpcInv, IpcClickTypes, TellModel
<1>2. user' = [user EXCEPT ![u] = w]
  <2>1. user' = [user EXCEPT ![u] = [user[u] EXCEPT !.at = "done"]]
    BY <1>1 DEF TellModel
  <2>2. [user[u] EXCEPT !.at = "done"] = w
    BY <1>1 DEF IpcUserStates
  <2> QED
    BY <2>1, <2>2
<1>3. w \in IpcUserStates /\ w.at = "done"
  BY <1>1 DEF IpcUserStates
<1> HIDE DEF w
<1>4. CASE told' = told
  BY <1>1, <1>2, <1>3, <1>4, ContextsKept, UserMoves
<1>5. CASE told' = Append(told, c)
  <2>1. Claiming(u) /\ c \in IpcButtons /\ context[c].is = "clicked"
        /\ \A i \in 1 .. Len(told) : told[i] # c
    BY <1>1 DEF Claiming, IpcInv, ClicksAreOnButtons, ClaimIsClicked
  <2>2. /\ told' \in Seq(IpcButtons) /\ Len(told') = Len(told) + 1 /\ Len(told) \in Nat
        /\ \A i \in 1 .. Len(told) : told'[i] = told[i]
        /\ told'[Len(told) + 1] = c
    BY <1>1, <1>5, <2>1, AppendProperties
  <2>3. \A v \in IpcUsers : user'[v] = IF v = u THEN w ELSE user[v]
    BY <1>1, <1>2
  <2>4. \A v \in IpcUsers : Claiming(v)' =>
          Claiming(v) /\ user'[v].call = user[v].call /\ user[v].call # c /\ user[v].call \in IpcButtons
    BY <1>3, <2>1, <2>3 DEF Claiming, IpcInv, OneClaim, ClicksAreOnButtons
  <2>5. IpcClickTypes'
    <3>1. user' \in [IpcUsers -> IpcUserStates]
      BY <1>1, <1>2, <1>3
    <3> QED
      BY <1>1, <2>2, <3>1 DEF IpcInv, IpcClickTypes
  <2>6. ClicksAreOnButtons'
    BY <1>3, <2>3, <2>4 DEF IpcInv, ClicksAreOnButtons
  <2>7. ClaimIsClicked'
    <3> SUFFICES ASSUME NEW v \in IpcUsers, Claiming(v)'
                 PROVE  /\ context'[user'[v].call].is = "clicked"
                        /\ \A i \in 1 .. Len(told') : told'[i] # user'[v].call
      BY DEF ClaimIsClicked
    <3>1. /\ Claiming(v) /\ user'[v].call = user[v].call /\ user[v].call # c
          /\ context[user[v].call].is = "clicked" /\ \A i \in 1 .. Len(told) : told[i] # user[v].call
      BY <2>4 DEF IpcInv, ClaimIsClicked
    <3> QED
      BY <1>1, <2>2, <3>1
  <2>8. OneClaim'
    BY <2>4 DEF IpcInv, OneClaim
  <2>9. ToldOnce'
    BY <2>1, <2>2 DEF IpcInv, ToldOnce
  <2>10. ToldIsClicked'
    BY <1>1, <2>1, <2>2 DEF IpcInv, ToldIsClicked
  <2> QED
    BY <2>5, <2>6, <2>7, <2>8, <2>9, <2>10 DEF IpcInv
<1> QED
  BY <1>4, <1>5 DEF TellModel

\* A crash forgets the contexts and who clicked; what was resolved stays so.
LEMMA IpcCrashKeeps == ASSUME IpcInv, IpcCrash PROVE IpcInv'
<1>1. /\ context \in [IpcCalls -> IpcContexts] /\ user \in [IpcUsers -> IpcUserStates]
      /\ told' = told
  BY DEF IpcInv, IpcClickTypes, IpcCrash
<1>2. ASSUME NEW c \in IpcCalls
      PROVE  /\ context'[c] \in IpcContexts
             /\ context[c].is = "clicked" => context'[c].is = "clicked"
  <2>1. context[c] \in IpcContexts
    BY <1>1
  <2>2. context'[c] = [context[c] EXCEPT !.value = "none",
                                         !.is = IF @ = "open" THEN "expired" ELSE @]
    BY DEF IpcCrash
  <2> QED
    BY <2>1, <2>2 DEF IpcContexts, Outcomes
<1>3. ClickStays
  BY <1>2 DEF ClickStays, IpcCrash, IpcCalls
<1>4. ASSUME NEW u \in IpcUsers
      PROVE  user'[u] \in IpcUserStates /\ user'[u].at \in {"new", "done"}
  <2>1. user[u] \in IpcUserStates /\ user'[u] = [user[u] EXCEPT !.at = IF @ = "new" THEN @ ELSE "done"]
    BY <1>1 DEF IpcCrash
  <2> QED
    BY <2>1 DEF IpcUserStates
<1>5. user' \in [IpcUsers -> IpcUserStates]
  BY <1>4 DEF IpcCrash
<1> QED
  BY <1>1, <1>3, <1>4, <1>5, NobodyClaims

LEMMA IpcInitially == ASSUME IpcInit PROVE IpcInv
<1>1. PICK cast \in IpcCasts : IpcStartsWith(cast)
  BY DEF IpcInit
<1>2. /\ context = [c \in IpcCalls |-> [is |-> "none", sent |-> FALSE, value |-> "none"]]
      /\ user = [u \in IpcUsers |-> [at |-> IF u \in cast.users THEN "new" ELSE "done",
                                     call |-> NoCall, files |-> FALSE]]
      /\ told = <<>>
  BY <1>1 DEF IpcStartsWith, NoContext
<1>3. IpcClickTypes
  BY <1>2 DEF IpcClickTypes, IpcContexts, IpcUserStates, Unresolved
<1>4. \A u \in IpcUsers : ~Claiming(u) /\ user[u].at # "deferring"
  BY <1>2 DEF Claiming
<1>5. ToldOnce /\ ToldIsClicked
  BY <1>2 DEF ToldOnce, ToldIsClicked
<1> QED
  BY <1>3, <1>4, <1>5 DEF IpcInv, ClicksAreOnButtons, ClaimIsClicked, OneClaim

LEMMA IpcStep == ASSUME IpcInv, [IpcNext]_ipcVars PROVE IpcInv'
<1>1. CASE IpcTick \/ DispatchedButtons \/ WaitTimesOut \/ IpcResume \/ ShutDown \/ StartBot
  BY <1>1, IpcUnchanged DEF IpcTick, DispatchedButtons, WaitTimesOut, IpcResume, ShutDown, StartBot
<1>2. CASE OpenButtons \/ ButtonsSent \/ UserWrites \/ IpcCrash
  BY <1>2, OpenButtonsKeeps, ButtonsSentKeeps, UserWritesKeeps, IpcCrashKeeps
<1>3. ASSUME NEW c \in IpcCalls,
             \/ CallTool(c) \/ PollRow(c) \/ ToolTimesOut(c) \/ IpcSweep(c)
             \/ DispatchFailsFor(c) \/ DispatchButtons(c) \/ TakeRequest(c)
      PROVE  IpcInv'
  BY <1>3, IpcUnchanged DEF CallTool, PollRow, ToolTimesOut, IpcSweep, DispatchFailsFor,
                            DispatchButtons, TakeRequest
<1>4. ASSUME NEW c \in IpcCalls, DispatchUpload(c) \/ Expires(c) \/ UploadSent(c) \/ UploadEnds(c)
      PROVE  IpcInv'
  BY <1>4, DispatchUploadKeeps, ExpiresKeeps, UploadSentKeeps, UploadEndsKeeps
<1>5. ASSUME NEW u \in IpcUsers, NEW c \in IpcCalls, SubmitModal(u, c) \/ Click(u, c)
      PROVE  IpcInv'
  BY <1>5, SubmitModalKeeps, ClickKeeps
<1>6. ASSUME NEW u \in IpcUsers,
             Downloaded(u) \/ ResolveUpload(u) \/ ClaimClick(u) \/ CheckSession(u) \/ TellModel(u)
      PROVE  IpcInv'
  BY <1>6, DownloadedKeeps, ResolveUploadKeeps, ClaimClickKeeps, CheckSessionKeeps, TellModelKeeps
<1>7. CASE UNCHANGED ipcVars
  BY <1>7, IpcUnchanged DEF ipcVars
<1> QED
  BY <1>1, <1>2, <1>3, <1>4, <1>5, <1>6, <1>7 DEF IpcNext, DispatchOf

\* The invariant of the buttons: a click that was granted its context holds it
\* alone, and the model has not been told of it (tryResolveContext and after).
THEOREM IpcInvariant == IpcSpec => []IpcInv
<1>1. IpcInit => IpcInv
  BY IpcInitially
<1>2. IpcInv /\ [IpcNext]_ipcVars => IpcInv'
  BY IpcStep
<1> QED
  BY <1>1, <1>2, PTL DEF IpcSpec

\* Of any number of clicks on the same buttons, with a dismissal, a timer and
\* restarts between them, at most one reaches the model, and only one that
\* resolved the context.
THEOREM IpcOneClickCounts == IpcSpec => []IpcButtonsActOnce
<1>1. ASSUME IpcInv PROVE IpcButtonsActOnce
  <2>1. told \in Seq(IpcButtons) /\ DOMAIN told = 1 .. Len(told)
    BY <1>1 DEF IpcInv, IpcClickTypes
  <2>2. ASSUME NEW c \in IpcButtons
        PROVE  Cardinality({i \in DOMAIN told : told[i] = c}) <= 1
    <3> DEFINE at == {i \in DOMAIN told : told[i] = c}
    <3>1. CASE at = {}
      BY <3>1, FS_EmptySet
    <3>2. CASE at # {}
      <4>1. PICK i \in at : TRUE
        BY <3>2
      <4>2. at = {i}
        BY <1>1, <2>1, <4>1 DEF IpcInv, ToldOnce
      <4>3. Cardinality({i}) = 1
        BY FS_Singleton
      <4> QED
        BY <4>2, <4>3
    <3> QED
      BY <3>1, <3>2
  <2>3. \A i \in DOMAIN told : context[told[i]].is = "clicked"
    BY <1>1, <2>1 DEF IpcInv, ToldIsClicked
  <2> QED
    BY <2>2, <2>3 DEF IpcButtonsActOnce
<1> QED
  BY <1>1, IpcInvariant, PTL

-----------------------------------------------------------------------------
(* IpcRequests: the rows, the batch and the uploads *)

IpcRowStates == [status : {"none", "pending", "processing", "completed", "cancelled"},
                 response : IpcResponses]
IpcToolStates == {"new", "polling", "cancelled", "timeout"} \cup IpcResponses
IpcUiStates == [at : {"idle", "waiting", "sending"}, call : IpcButtons \cup {NoCall},
                shown : IpcButtons \cup {NoCall}, seen : SUBSET IpcButtons]

\* The part of the type that the rows concern
IpcRowTypes ==
  /\ rows \in [IpcCalls -> IpcRowStates] /\ tool \in [IpcCalls -> IpcToolStates]
  /\ bot \in [up : BOOLEAN, batch : SUBSET IpcCalls, completing : IpcCalls \cup {NoCall}]
  /\ queued \in IpcButtons \cup {NoCall} /\ ui \in IpcUiStates

Open == {"pending", "processing"}
Settled == {"completed", "cancelled"}
\* A row somebody may still complete
Workable == {"processing", "cancelled"}
AnswersTo(c) == IF c \in IpcUploads THEN {"files", "empty", "error"} ELSE {"ok", "error"}

\* A row has a response once it is settled, of the kind its tool expects.
RowSays(c) ==
  /\ rows[c].response = "none" <=> rows[c].status \notin Settled
  /\ rows[c].status = "completed" => rows[c].response \in AnswersTo(c)
  /\ tool[c] = "new" => rows[c].status = "none"
\* What is left of the batch was claimed, and nobody has completed it yet.
BatchIsClaimed(c) ==
  c \in bot.batch => /\ rows[c].status \in Workable
                     /\ c \in IpcUploads => context[c].is = "none"
\* An upload waits or ends at most once after it was claimed.
UploadIsClaimed(c) ==
  c \in IpcUploads =>
    /\ rows[c].status \in {"none", "pending"} => context[c].is = "none"
    /\ context[c].is \in Unresolved => context[c].value = "none"
    /\ context[c].is = "open" \/ context[c].value # "none" => rows[c].status \in Workable
CallIsOne(c) == RowSays(c) /\ BatchIsClaimed(c) /\ UploadIsClaimed(c)

IpcRowsInv ==
  /\ IpcRowTypes /\ \A c \in IpcCalls : CallIsOne(c)
  /\ bot.completing # NoCall => bot.completing \in bot.batch \cap IpcButtons

\* What a step may do to the context of an upload that is not dispatched by it
UploadMoves(c) ==
  \/ context'[c].is = context[c].is /\ context'[c].value \in {context[c].value, "none"}
  \/ context[c].is = "open" /\ context'[c].is \notin Unresolved

\* A step that leaves the row of a call and puts nothing into the batch
LEMMA CallMoves ==
  ASSUME NEW c \in IpcCalls, CallIsOne(c), rows'[c] = rows[c],
         tool'[c] = "new" => tool[c] = "new", c \in bot'.batch => c \in bot.batch,
         c \in IpcUploads => UploadMoves(c)
  PROVE  CallIsOne(c)'
<1>1. RowSays(c)'
  BY DEF CallIsOne, RowSays
<1>2. CASE c \notin IpcUploads
  BY <1>1, <1>2 DEF CallIsOne, BatchIsClaimed, UploadIsClaimed
<1>3. CASE c \in IpcUploads
  <2>1. CASE context'[c].is = context[c].is /\ context'[c].value \in {context[c].value, "none"}
    BY <1>1, <1>3, <2>1 DEF CallIsOne, BatchIsClaimed, UploadIsClaimed
  <2>2. CASE context[c].is = "open" /\ context'[c].is \notin Unresolved
    <3>1. rows[c].status \in Workable /\ c \notin bot.batch
      BY <1>3, <2>2 DEF CallIsOne, BatchIsClaimed, UploadIsClaimed
    <3> QED
      BY <1>1, <1>3, <2>2, <3>1 DEF CallIsOne, BatchIsClaimed, UploadIsClaimed, Unresolved, Workable
  <2> QED
    BY <1>3, <2>1, <2>2 DEF UploadMoves
<1> QED
  BY <1>2, <1>3

\* A step by which the row of a call is cancelled
LEMMA CallIsCancelled ==
  ASSUME NEW c \in IpcCalls, CallIsOne(c), rows[c].status \in Open,
         rows'[c].status = "cancelled", rows'[c].response = "error",
         tool'[c] = tool[c], c \in bot'.batch => c \in bot.batch, context'[c] = context[c]
  PROVE  CallIsOne(c)'
<1>1. RowSays(c)'
  BY DEF CallIsOne, RowSays, Open, Settled
<1>2. BatchIsClaimed(c)'
  BY DEF CallIsOne, BatchIsClaimed, Workable
<1>3. UploadIsClaimed(c)'
  BY DEF CallIsOne, UploadIsClaimed, Workable
<1> QED
  BY <1>1, <1>2, <1>3 DEF CallIsOne

\* A step by which the bot answers a call it was working on
LEMMA CallIsAnswered ==
  ASSUME NEW c \in IpcCalls, CallIsOne(c), rows[c].status \in Workable,
         rows'[c].status = "completed", rows'[c].response \in AnswersTo(c),
         tool'[c] = tool[c], c \notin bot'.batch,
         c \in IpcUploads => context'[c].is # "open" /\ context'[c].value = "none"
  PROVE  CallIsOne(c)'
<1>1. RowSays(c)'
  BY DEF CallIsOne, RowSays, Workable, Settled, AnswersTo
<1>2. BatchIsClaimed(c)'
  BY DEF BatchIsClaimed
<1>3. UploadIsClaimed(c)'
  BY DEF UploadIsClaimed
<1> QED
  BY <1>1, <1>2, <1>3 DEF CallIsOne

\* Steps that touch neither the rows, nor the batch, nor the runtime's interface
LEMMA RowsStay ==
  ASSUME IpcRowsInv, UNCHANGED <<rows, tool, bot>>, queued' \in IpcButtons \cup {NoCall},
         ui' \in IpcUiStates, \A c \in IpcUploads : UploadMoves(c)
  PROVE  IpcRowsInv'
<1>1. ASSUME NEW c \in IpcCalls PROVE CallIsOne(c)'
  BY CallMoves DEF IpcRowsInv
<1>2. IpcRowTypes'
  BY DEF IpcRowsInv, IpcRowTypes
<1> QED
  BY <1>1, <1>2 DEF IpcRowsInv

LEMMA ContextsMove == ASSUME context' = context PROVE \A c \in IpcUploads : UploadMoves(c)
  BY DEF UploadMoves

LEMMA ContextResolves ==
  ASSUME context \in [IpcCalls -> IpcContexts], NEW c, NEW outcome \in Outcomes, NEW value,
         context' = ResolvedAs(c, outcome, value)
  PROVE  \A d \in IpcUploads : UploadMoves(d)
<1>1. CASE c \in IpcCalls /\ context[c].is = "open"
  <2> DEFINE k == [context[c] EXCEPT !.is = outcome, !.value = value]
  <2>1. context' = [context EXCEPT ![c] = k]
    BY <1>1 DEF ResolvedAs
  <2>2. k.is = outcome
    BY <1>1 DEF IpcContexts
  <2> HIDE DEF k
  <2>3. ASSUME NEW d \in IpcUploads PROVE UploadMoves(d)
    BY <1>1, <2>1, <2>2 DEF UploadMoves, IpcCalls, Outcomes, Unresolved
  <2> QED
    BY <2>3
<1>2. CASE c \notin IpcCalls /\ context[c].is = "open"
  <2>1. context' = context
    BY <1>2 DEF ResolvedAs
  <2> QED
    BY <2>1, ContextsMove
<1>3. CASE context[c].is # "open"
  BY <1>3, ContextsMove DEF ResolvedAs
<1> QED
  BY <1>1, <1>2, <1>3

\* One context is replaced.
LEMMA OneContextMoves ==
  ASSUME context \in [IpcCalls -> IpcContexts], NEW c, NEW k, context' = [context EXCEPT ![c] = k],
         c \in IpcUploads => \/ k.is = context[c].is /\ k.value \in {context[c].value, "none"}
                             \/ context[c].is = "open" /\ k.is \notin Unresolved
  PROVE  \A d \in IpcUploads : UploadMoves(d)
  BY DEF UploadMoves, IpcCalls

\* Steps of the interface and of the timers: the rows stay.
LEMMA InterfaceKeeps ==
  ASSUME IpcInv, IpcRowsInv,
         \/ WaitTimesOut \/ OpenButtons \/ ButtonsSent \/ UserWrites \/ IpcResume
         \/ \E c \in IpcCalls : TakeRequest(c) \/ Expires(c) \/ UploadSent(c)
  PROVE  IpcRowsInv' /\ UNCHANGED <<rows, tool>>
<1>1. /\ context \in [IpcCalls -> IpcContexts] /\ ui \in IpcUiStates
      /\ queued \in IpcButtons \cup {NoCall}
  BY DEF IpcInv, IpcClickTypes, IpcRowsInv, IpcRowTypes
<1>2. CASE WaitTimesOut
  <2>1. ui' \in IpcUiStates
    BY <1>1, <1>2 DEF WaitTimesOut, IpcUiStates
  <2> QED
    BY <1>1, <1>2, <2>1, ContextsMove, RowsStay DEF WaitTimesOut
<1>3. CASE OpenButtons
  <2> DEFINE k == [context[ui.shown] EXCEPT !.is = "open"]
  <2>1. context' = [context EXCEPT ![ui.shown] = k] /\ UNCHANGED <<rows, tool, bot, queued, ui>>
    BY <1>3 DEF OpenButtons
  <2>2. ui.shown \notin IpcUploads
    BY <1>1, IpcAssumption DEF IpcUiStates, IpcCalls
  <2> HIDE DEF k
  <2> QED
    BY <1>1, <2>1, <2>2, OneContextMoves, RowsStay
<1>4. CASE ButtonsSent
  <2>1. ui' = [ui EXCEPT !.at = "idle", !.shown = NoCall] /\ UNCHANGED <<rows, tool, bot, queued>>
    BY <1>4 DEF ButtonsSent
  <2>2. ui' \in IpcUiStates
    BY <1>1, <2>1 DEF IpcUiStates
  <2>3. PICK k : context' = [context EXCEPT ![ui.shown] = k]
    BY <1>4 DEF ButtonsSent
  <2>4. ui.shown \notin IpcUploads
    BY <1>1, IpcAssumption DEF IpcUiStates, IpcCalls
  <2> QED
    BY <1>1, <2>1, <2>2, <2>3, <2>4, OneContextMoves, RowsStay
<1>5. ASSUME NEW c \in IpcCalls, TakeRequest(c) PROVE IpcRowsInv' /\ UNCHANGED <<rows, tool>>
  <2>1. ui' \in IpcUiStates /\ queued' = NoCall /\ UNCHANGED <<rows, tool, bot, context>>
    BY <1>1, <1>5 DEF TakeRequest, IpcUiStates
  <2> QED
    BY <1>1, <2>1, ContextsMove, RowsStay
<1>6. ASSUME NEW c \in IpcCalls, Expires(c) PROVE IpcRowsInv' /\ UNCHANGED <<rows, tool>>
  BY <1>1, <1>6, ContextResolves, RowsStay DEF Expires, Outcomes
<1>7. CASE UserWrites
  <2>1. UNCHANGED <<rows, tool, bot, queued, ui>>
    BY <1>7 DEF UserWrites
  <2> DEFINE open == {d \in IpcCalls : context[d].is = "open"}
  <2>2. PICK b \in SUBSET IpcButtons :
          context' = [d \in IpcCalls |->
                        IF d \in b THEN [context[d] EXCEPT !.is = "dismissed"]
                        ELSE IF d \in open \cap IpcUploads
                             THEN [context[d] EXCEPT !.is = "dismissed", !.value = "empty"]
                             ELSE context[d]]
    BY <1>7 DEF UserWrites
  <2>3. ASSUME NEW d \in IpcUploads PROVE UploadMoves(d)
    <3>1. d \in IpcCalls /\ d \notin b /\ context[d] \in IpcContexts
      BY <1>1, IpcAssumption DEF IpcCalls
    <3>2. CASE context[d].is = "open"
      <4>1. context'[d] = [context[d] EXCEPT !.is = "dismissed", !.value = "empty"]
        BY <2>2, <3>1, <3>2
      <4> QED
        BY <3>1, <3>2, <4>1 DEF IpcContexts, UploadMoves, Unresolved
    <3>3. CASE context[d].is # "open"
      BY <2>2, <3>1, <3>3 DEF UploadMoves
    <3> QED
      BY <3>2, <3>3
  <2> QED
    BY <1>1, <2>1, <2>3, RowsStay
<1>8. ASSUME NEW c \in IpcCalls, UploadSent(c) PROVE IpcRowsInv' /\ UNCHANGED <<rows, tool>>
  <2>1. UNCHANGED <<rows, tool, bot, queued, ui>>
    BY <1>8 DEF UploadSent
  <2>2. CASE context' = [context EXCEPT ![c].sent = TRUE]
    <3> DEFINE k == [context[c] EXCEPT !.sent = TRUE]
    <3>1. context' = [context EXCEPT ![c] = k] /\ k.is = context[c].is /\ k.value = context[c].value
      BY <1>1, <2>2 DEF IpcContexts
    <3> HIDE DEF k
    <3> QED
      BY <1>1, <2>1, <3>1, OneContextMoves, RowsStay
  <2>3. CASE context' = ResolvedAs(c, "unsent", "error")
    BY <1>1, <2>1, <2>3, ContextResolves, RowsStay DEF Outcomes
  <2> QED
    BY <1>8, <2>2, <2>3 DEF UploadSent
<1>9. CASE IpcResume
  BY <1>1, <1>9, ContextsMove, RowsStay DEF IpcResume
<1> QED
  <2>1. WaitTimesOut \/ OpenButtons \/ ButtonsSent \/ UserWrites \/ IpcResume => UNCHANGED <<rows, tool>>
    BY DEF WaitTimesOut, OpenButtons, ButtonsSent, UserWrites, IpcResume
  <2> QED
    BY <1>2, <1>3, <1>4, <1>5, <1>6, <1>7, <1>8, <1>9, <2>1

\* Steps of the users
LEMMA UsersKeepRows ==
  ASSUME IpcInv, IpcRowsInv, NEW u \in IpcUsers,
         \/ \E c \in IpcCalls : SubmitModal(u, c) \/ Click(u, c)
         \/ Downloaded(u) \/ ResolveUpload(u) \/ ClaimClick(u) \/ CheckSession(u) \/ TellModel(u)
  PROVE  IpcRowsInv' /\ UNCHANGED <<rows, tool>>
<1>1. /\ context \in [IpcCalls -> IpcContexts] /\ ui \in IpcUiStates
      /\ queued \in IpcButtons \cup {NoCall}
  BY DEF IpcInv, IpcClickTypes, IpcRowsInv, IpcRowTypes
<1>2. UNCHANGED <<rows, tool, bot, queued, ui>>
  BY DEF SubmitModal, Click, Downloaded, ResolveUpload, ClaimClick, CheckSession, TellModel
<1>3. CASE \/ \E c \in IpcCalls : SubmitModal(u, c) \/ Click(u, c)
           \/ Downloaded(u) \/ CheckSession(u) \/ TellModel(u)
  <2>1. context' = context
    BY <1>3 DEF SubmitModal, Click, Downloaded, CheckSession, TellModel
  <2> QED
    BY <1>1, <1>2, <2>1, ContextsMove, RowsStay
<1>4. CASE ResolveUpload(u)
  <2>1. PICK value : context' = ResolvedAs(user[u].call, "submitted", value)
    BY <1>4 DEF ResolveUpload
  <2> QED
    BY <1>1, <1>2, <2>1, ContextResolves, RowsStay DEF Outcomes
<1>5. CASE ClaimClick(u)
  <2>1. context' = ResolvedAs(user[u].call, "clicked", "none")
    BY <1>5 DEF ClaimClick
  <2> QED
    BY <1>1, <1>2, <2>1, ContextResolves, RowsStay DEF Outcomes
<1> QED
  BY <1>2, <1>3, <1>4, <1>5

\* Steps of the bot that may answer one call
LEMMA OneAnswer ==
  ASSUME IpcInv, IpcRowsInv, NEW c \in IpcCalls, rows[c].status \in Workable, tool' = tool,
         rows' = rows \/ \E r \in AnswersTo(c) : rows' = Completed(c, r),
         UNCHANGED <<queued, ui>>, \A d \in IpcUploads : UploadMoves(d),
         bot' \in [up : BOOLEAN, batch : SUBSET IpcCalls, completing : IpcCalls \cup {NoCall}],
         bot'.batch \subseteq bot.batch \ {c},
         bot'.completing # NoCall => bot'.completing \in bot'.batch \cap IpcButtons,
         c \in IpcUploads => context'[c].is # "open" /\ context'[c].value = "none"
  PROVE  IpcRowsInv'
<1>1. \A d \in IpcCalls : CallIsOne(d)
  BY DEF IpcRowsInv
<1>2. IpcRowTypes
  BY DEF IpcRowsInv
<1>3. CASE rows' = rows
  <2>1. \A d \in IpcCalls : CallIsOne(d)'
    BY <1>1, <1>3, CallMoves
  <2>2. IpcRowTypes'
    BY <1>2, <1>3 DEF IpcRowTypes
  <2> QED
    BY <2>1, <2>2 DEF IpcRowsInv
<1>4. ASSUME NEW r \in AnswersTo(c), rows' = Completed(c, r) PROVE IpcRowsInv'
  <2>1. \A d \in IpcCalls : rows'[d] = IF d = c THEN [status |-> "completed", response |-> r] ELSE rows[d]
    BY <1>2, <1>4 DEF Completed, IpcRowTypes
  <2>2. IpcRowTypes'
    <3>1. [status |-> "completed", response |-> r] \in IpcRowStates
      BY <1>4 DEF AnswersTo, IpcRowStates, IpcResponses
    <3> QED
      BY <1>2, <1>4, <3>1 DEF Completed, IpcRowTypes
  <2>3. ASSUME NEW d \in IpcCalls, d # c PROVE CallIsOne(d)'
    BY <1>1, <2>1, <2>3, CallMoves
  <2>4. CallIsOne(c)'
    BY <1>1, <1>4, <2>1, CallIsAnswered
  <2> QED
    BY <2>2, <2>3, <2>4 DEF IpcRowsInv
<1> QED
  BY <1>3, <1>4

LEMMA TheNextWasClaimed ==
  ASSUME IpcRowsInv, NEW c, IsNext(c)
  PROVE  c \in IpcCalls /\ c \in bot.batch /\ rows[c].status \in Workable
BY DEF IsNext, IpcRowsInv, IpcRowTypes, CallIsOne, BatchIsClaimed

LEMMA DispatchFailsKeeps ==
  ASSUME IpcInv, IpcRowsInv, NEW c \in IpcCalls, DispatchFailsFor(c)
  PROVE  IpcRowsInv'
<1>1. /\ bot' = [bot EXCEPT !.batch = @ \ {c}] /\ bot.completing = NoCall
      /\ UNCHANGED <<tool, queued, ui, context>>
      /\ rows' = Completed(c, "error") \/ rows' = rows
  BY DEF DispatchFailsFor
<1>2. c \in bot.batch /\ rows[c].status \in Workable
  BY TheNextWasClaimed DEF DispatchFailsFor
<1>3. /\ bot' \in [up : BOOLEAN, batch : SUBSET IpcCalls, completing : IpcCalls \cup {NoCall}]
      /\ bot'.batch = bot.batch \ {c} /\ bot'.completing = NoCall
  BY <1>1 DEF IpcRowsInv, IpcRowTypes
<1>4. c \in IpcUploads => context'[c].is # "open" /\ context'[c].value = "none"
  BY <1>1, <1>2 DEF IpcRowsInv, CallIsOne, BatchIsClaimed, UploadIsClaimed, Unresolved
<1>5. "error" \in AnswersTo(c)
  BY DEF AnswersTo
<1>6. \A d \in IpcUploads : UploadMoves(d)
  BY <1>1, ContextsMove
<1> QED
  BY <1>1, <1>2, <1>3, <1>4, <1>5, <1>6, OneAnswer

LEMMA DispatchUploadKeepsRows ==
  ASSUME IpcInv, IpcRowsInv, NEW c \in IpcCalls, DispatchUpload(c)
  PROVE  IpcRowsInv'
<1>1. /\ bot' = [bot EXCEPT !.batch = @ \ {c}] /\ c \in IpcUploads
      /\ UNCHANGED <<rows, tool, queued, ui>> /\ context' = [context EXCEPT ![c].is = "open"]
  BY DEF DispatchUpload
<1>2. c \in bot.batch /\ rows[c].status \in Workable
  BY TheNextWasClaimed DEF DispatchUpload
<1>3. /\ bot' \in [up : BOOLEAN, batch : SUBSET IpcCalls, completing : IpcCalls \cup {NoCall}]
      /\ bot'.batch = bot.batch \ {c} /\ bot'.completing = bot.completing
  BY <1>1 DEF IpcRowsInv, IpcRowTypes
<1>4. bot.completing # NoCall => bot.completing \in bot'.batch \cap IpcButtons
  BY <1>1, <1>3, IpcAssumption DEF IpcRowsInv
<1>5. context \in [IpcCalls -> IpcContexts]
  BY DEF IpcInv, IpcClickTypes
<1>6. \A d \in IpcCalls : d # c => context'[d] = context[d]
  BY <1>1, <1>5
<1>7. context'[c].is = "open" /\ context'[c].value = context[c].value
  BY <1>1, <1>5 DEF IpcContexts
<1>8. ASSUME NEW d \in IpcCalls, d # c PROVE CallIsOne(d)'
  BY <1>1, <1>3, <1>6, <1>8, CallMoves DEF IpcRowsInv, UploadMoves
<1>9. CallIsOne(c)'
  <2>1. CallIsOne(c)
    BY DEF IpcRowsInv
  <2>2. RowSays(c)'
    BY <1>1, <2>1 DEF CallIsOne, RowSays
  <2>3. BatchIsClaimed(c)'
    BY <1>3 DEF BatchIsClaimed
  <2>4. UploadIsClaimed(c)'
    BY <1>1, <1>2, <1>7, <2>1 DEF CallIsOne, BatchIsClaimed, UploadIsClaimed, Workable, Unresolved
  <2> QED
    BY <2>2, <2>3, <2>4 DEF CallIsOne
<1>10. IpcRowTypes'
  BY <1>1, <1>3 DEF IpcRowsInv, IpcRowTypes
<1> QED
  BY <1>3, <1>4, <1>8, <1>9, <1>10 DEF IpcRowsInv

LEMMA DispatchButtonsKeepsRows ==
  ASSUME IpcInv, IpcRowsInv, NEW c \in IpcCalls, DispatchButtons(c)
  PROVE  IpcRowsInv'
<1>1. /\ bot' = [bot EXCEPT !.completing = c] /\ c \in IpcButtons
      /\ UNCHANGED <<rows, tool, context>>
  BY DEF DispatchButtons
<1>2. c \in bot.batch
  BY TheNextWasClaimed DEF DispatchButtons
<1>3. /\ bot' \in [up : BOOLEAN, batch : SUBSET IpcCalls, completing : IpcCalls \cup {NoCall}]
      /\ bot'.batch = bot.batch /\ bot'.completing = c
  BY <1>1 DEF IpcRowsInv, IpcRowTypes
<1>4. queued' \in IpcButtons \cup {NoCall} /\ ui' \in IpcUiStates
  BY <1>1 DEF DispatchButtons, IpcRowsInv, IpcRowTypes, IpcUiStates
<1>5. ASSUME NEW d \in IpcCalls PROVE CallIsOne(d)'
  BY <1>1, <1>3, ContextsMove, CallMoves DEF IpcRowsInv
<1>6. IpcRowTypes'
  BY <1>1, <1>3, <1>4 DEF IpcRowsInv, IpcRowTypes
<1> QED
  BY <1>1, <1>2, <1>3, <1>5, <1>6 DEF IpcRowsInv

LEMMA DispatchedButtonsKeeps ==
  ASSUME IpcInv, IpcRowsInv, DispatchedButtons
  PROVE  IpcRowsInv' /\ bot.completing \in IpcCalls /\ rows[bot.completing].status \in Workable
                     /\ "ok" \in AnswersTo(bot.completing)
<1> DEFINE c == bot.completing
<1>1. /\ bot' = [bot EXCEPT !.batch = @ \ {bot.completing}, !.completing = NoCall]
      /\ UNCHANGED <<tool, queued, ui, context>>
      /\ rows' = Completed(c, "ok") \/ rows' = rows
      /\ c \in bot.batch /\ c \in IpcButtons
  BY DEF DispatchedButtons, IpcRowsInv
<1>2. c \in IpcCalls /\ rows[c].status \in Workable /\ c \notin IpcUploads
  BY <1>1, IpcAssumption DEF IpcRowsInv, CallIsOne, BatchIsClaimed, IpcCalls
<1>3. /\ bot' \in [up : BOOLEAN, batch : SUBSET IpcCalls, completing : IpcCalls \cup {NoCall}]
      /\ bot'.batch = bot.batch \ {c} /\ bot'.completing = NoCall
  BY <1>1 DEF IpcRowsInv, IpcRowTypes
<1>4. "ok" \in AnswersTo(c)
  BY <1>2 DEF AnswersTo
<1>5. \A d \in IpcUploads : UploadMoves(d)
  BY <1>1, ContextsMove
<1> HIDE DEF c
<1>6. IpcRowsInv'
  BY <1>1, <1>2, <1>3, <1>4, <1>5, OneAnswer
<1> QED
  BY <1>2, <1>4, <1>6 DEF c

LEMMA UploadEndsKeepsRows ==
  ASSUME IpcInv, IpcRowsInv, NEW c \in IpcCalls, UploadEnds(c)
  PROVE  /\ IpcRowsInv' /\ rows[c].status \in Workable
         /\ rows' = rows \/ \E r \in AnswersTo(c) : rows' = Completed(c, r)
<1>1. /\ context' = [context EXCEPT ![c].value = "none"] /\ c \in IpcUploads
      /\ UNCHANGED <<tool, bot, queued, ui>> /\ context[c].value # "none"
  BY DEF UploadEnds
<1>2. context \in [IpcCalls -> IpcContexts] /\ context[c].value \in {"files", "empty", "error"}
  BY <1>1 DEF IpcInv, IpcClickTypes, IpcContexts
<1>3. rows' = rows \/ \E r \in AnswersTo(c) : rows' = Completed(c, r)
  BY <1>1, <1>2 DEF UploadEnds, AnswersTo
<1>4. /\ rows[c].status \in Workable /\ context[c].is \notin Unresolved /\ c \notin bot.batch
  BY <1>1 DEF IpcRowsInv, CallIsOne, UploadIsClaimed, BatchIsClaimed, Unresolved
<1>5. context'[c].is = context[c].is /\ context'[c].value = "none"
  BY <1>1, <1>2 DEF IpcContexts
<1>6. \A d \in IpcUploads : UploadMoves(d)
  <2> DEFINE k == [context[c] EXCEPT !.value = "none"]
  <2>1. context' = [context EXCEPT ![c] = k] /\ k.is = context[c].is /\ k.value = "none"
    BY <1>1, <1>2 DEF IpcContexts
  <2> HIDE DEF k
  <2> QED
    BY <1>2, <2>1, OneContextMoves
<1>7. /\ bot' \in [up : BOOLEAN, batch : SUBSET IpcCalls, completing : IpcCalls \cup {NoCall}]
      /\ bot'.batch \subseteq bot.batch \ {c}
      /\ bot'.completing # NoCall => bot'.completing \in bot'.batch \cap IpcButtons
  BY <1>1, <1>4 DEF IpcRowsInv, IpcRowTypes
<1>8. IpcRowsInv'
  BY <1>1, <1>3, <1>4, <1>5, <1>6, <1>7, OneAnswer DEF Unresolved
<1> QED
  BY <1>3, <1>4, <1>8

LEMMA IpcTickKeeps == ASSUME IpcInv, IpcRowsInv, IpcTick PROVE IpcRowsInv'
<1>1. /\ bot' = [bot EXCEPT !.batch = {c \in IpcCalls : Pending(c)}] /\ bot.completing = NoCall
      /\ rows' = [c \in IpcCalls |-> IF Pending(c) THEN [rows[c] EXCEPT !.status = "processing"]
                                     ELSE rows[c]]
      /\ UNCHANGED <<tool, queued, ui, context>> /\ bot.batch = {}
  BY DEF IpcTick
<1>2. /\ bot' \in [up : BOOLEAN, batch : SUBSET IpcCalls, completing : IpcCalls \cup {NoCall}]
      /\ bot'.batch = {c \in IpcCalls : Pending(c)} /\ bot'.completing = NoCall
  BY <1>1 DEF IpcRowsInv, IpcRowTypes
<1>3. ASSUME NEW c \in IpcCalls PROVE CallIsOne(c)' /\ rows'[c] \in IpcRowStates
  <2>1. CallIsOne(c) /\ rows[c] \in IpcRowStates
    BY DEF IpcRowsInv, IpcRowTypes
  <2>2. CASE ~Pending(c)
    <3>1. rows'[c] = rows[c] /\ c \notin bot'.batch
      BY <1>1, <1>2, <2>2
    <3> QED
      BY <1>1, <2>1, <3>1, ContextsMove, CallMoves
  <2>3. CASE Pending(c)
    <3>1. /\ rows[c].status = "pending" /\ rows'[c].status = "processing"
          /\ rows'[c].response = rows[c].response /\ rows'[c] \in IpcRowStates
      BY <1>1, <2>1, <2>3 DEF Pending, IpcRowStates
    <3>2. RowSays(c)'
      BY <1>1, <2>1, <3>1 DEF CallIsOne, RowSays, Settled
    <3>3. BatchIsClaimed(c)' /\ UploadIsClaimed(c)'
      BY <1>1, <2>1, <3>1 DEF CallIsOne, BatchIsClaimed, UploadIsClaimed, Workable
    <3> QED
      BY <3>1, <3>2, <3>3 DEF CallIsOne
  <2> QED
    BY <2>2, <2>3
<1>4. IpcRowTypes'
  <2>1. rows' \in [IpcCalls -> IpcRowStates]
    BY <1>1, <1>3
  <2> QED
    BY <1>1, <1>2, <2>1 DEF IpcRowsInv, IpcRowTypes
<1> QED
  BY <1>2, <1>3, <1>4 DEF IpcRowsInv

\* Steps that cancel rows: the bot's shutdown and its start, and the sweep
LEMMA CancelKeeps ==
  ASSUME IpcInv, IpcRowsInv, NEW S \in SUBSET IpcCalls, \A c \in S : rows[c].status \in Open,
         rows' = [c \in IpcCalls |-> IF c \in S THEN [status |-> "cancelled", response |-> "error"]
                                     ELSE rows[c]],
         UNCHANGED <<tool, queued, ui, context>>,
         bot' \in [up : BOOLEAN, batch : SUBSET IpcCalls, completing : IpcCalls \cup {NoCall}],
         bot'.batch \subseteq bot.batch,
         bot'.completing # NoCall => bot'.completing \in bot'.batch \cap IpcButtons
  PROVE  IpcRowsInv'
<1>1. ASSUME NEW c \in IpcCalls PROVE CallIsOne(c)'
  <2>1. CallIsOne(c)
    BY DEF IpcRowsInv
  <2>2. CASE c \in S
    BY <2>1, <2>2, CallIsCancelled
  <2>3. CASE c \notin S
    BY <2>1, <2>3, ContextsMove, CallMoves
  <2> QED
    BY <2>2, <2>3
<1>2. [status |-> "cancelled", response |-> "error"] \in IpcRowStates
  BY DEF IpcRowStates, IpcResponses
<1>3. rows' \in [IpcCalls -> IpcRowStates]
  BY <1>2 DEF IpcRowsInv, IpcRowTypes
<1>4. IpcRowTypes'
  BY <1>3 DEF IpcRowsInv, IpcRowTypes
<1> QED
  BY <1>1, <1>4 DEF IpcRowsInv

LEMMA CancelSteps ==
  ASSUME IpcInv, IpcRowsInv, ShutDown \/ StartBot \/ \E c \in IpcCalls : IpcSweep(c)
  PROVE  /\ IpcRowsInv' /\ tool' = tool
         /\ \E S \in SUBSET IpcCalls :
              /\ \A c \in S : rows[c].status \in Open
              /\ rows' = [c \in IpcCalls |->
                            IF c \in S THEN [status |-> "cancelled", response |-> "error"]
                            ELSE rows[c]]
<1>1. rows \in [IpcCalls -> IpcRowStates]
      /\ bot \in [up : BOOLEAN, batch : SUBSET IpcCalls, completing : IpcCalls \cup {NoCall}]
      /\ (bot.completing # NoCall => bot.completing \in bot.batch \cap IpcButtons)
  BY DEF IpcRowsInv, IpcRowTypes
<1>2. CASE ShutDown \/ StartBot
  <2> DEFINE S == {c \in IpcCalls : rows[c].status \in Open}
  <2>1. /\ rows' = [c \in IpcCalls |->
                      IF c \in S THEN [status |-> "cancelled", response |-> "error"] ELSE rows[c]]
        /\ UNCHANGED <<tool, queued, ui, context>>
    BY <1>2 DEF ShutDown, StartBot, AllCancelled, Open
  <2>2. bot' = bot \/ bot' = [up |-> TRUE, batch |-> {}, completing |-> NoCall]
    BY <1>2 DEF ShutDown, StartBot, IdleBot
  <2>3. /\ bot' \in [up : BOOLEAN, batch : SUBSET IpcCalls, completing : IpcCalls \cup {NoCall}]
        /\ bot'.batch \subseteq bot.batch
        /\ bot'.completing # NoCall => bot'.completing \in bot'.batch \cap IpcButtons
    <3>1. CASE bot' = bot
      BY <1>1, <3>1
    <3>2. CASE bot' = [up |-> TRUE, batch |-> {}, completing |-> NoCall]
      BY <3>2
    <3> QED
      BY <2>2, <3>1, <3>2
  <2>4. S \in SUBSET IpcCalls /\ \A c \in S : rows[c].status \in Open
    OBVIOUS
  <2> HIDE DEF S
  <2> QED
    BY <2>1, <2>3, <2>4, CancelKeeps
<1>3. ASSUME NEW c \in IpcCalls, IpcSweep(c)
      PROVE  /\ IpcRowsInv' /\ tool' = tool
             /\ \A d \in {c} : rows[d].status \in Open
             /\ rows' = [d \in IpcCalls |->
                           IF d \in {c} THEN [status |-> "cancelled", response |-> "error"]
                           ELSE rows[d]]
  <2>1. /\ rows' = [rows EXCEPT ![c] = [status |-> "cancelled", response |-> "error"]]
        /\ UNCHANGED <<tool, bot, queued, ui, context>> /\ rows[c].status \in Open
    BY <1>3 DEF IpcSweep, Open
  <2>2. rows' = [d \in IpcCalls |->
                   IF d \in {c} THEN [status |-> "cancelled", response |-> "error"] ELSE rows[d]]
    BY <1>1, <2>1
  <2> QED
    BY <1>1, <2>1, <2>2, CancelKeeps
<1> QED
  BY <1>2, <1>3

LEMMA IpcCrashKeepsRows ==
  ASSUME IpcInv, IpcRowsInv, IpcCrash PROVE IpcRowsInv' /\ UNCHANGED <<rows, tool>>
<1>1. /\ UNCHANGED <<rows, tool>> /\ queued' = NoCall
      /\ bot' = [up |-> FALSE, batch |-> {}, completing |-> NoCall]
      /\ ui' = [at |-> "idle", call |-> NoCall, shown |-> NoCall, seen |-> ui.seen]
  BY DEF IpcCrash, IdleBot, IdleUi
<1>2. IpcRowTypes'
  BY <1>1 DEF IpcRowsInv, IpcRowTypes, IpcUiStates
<1>3. ASSUME NEW c \in IpcUploads PROVE UploadMoves(c)
  <2>1. context[c] \in IpcContexts
    BY DEF IpcInv, IpcClickTypes, IpcCalls
  <2>2. context'[c] = [context[c] EXCEPT !.value = "none", !.is = IF @ = "open" THEN "expired" ELSE @]
    BY DEF IpcCrash, IpcCalls
  <2> QED
    BY <2>1, <2>2 DEF IpcContexts, UploadMoves, Unresolved
<1>4. ASSUME NEW c \in IpcCalls PROVE CallIsOne(c)'
  BY <1>1, <1>3, CallMoves DEF IpcRowsInv
<1> QED
  BY <1>1, <1>2, <1>4 DEF IpcRowsInv

LEMMA CallToolKeeps ==
  ASSUME IpcInv, IpcRowsInv, NEW c \in IpcCalls, CallTool(c)
  PROVE  IpcRowsInv' /\ rows[c].status = "none"
         /\ rows' = [rows EXCEPT ![c] = [status |-> "pending", response |-> "none"]]
<1>1. /\ tool[c] = "new" /\ tool' = [tool EXCEPT ![c] = "polling"]
      /\ rows' = [rows EXCEPT ![c].status = "pending"] /\ UNCHANGED <<bot, queued, ui, context>>
      /\ rows \in [IpcCalls -> IpcRowStates] /\ tool \in [IpcCalls -> IpcToolStates]
  BY DEF CallTool, IpcRowsInv, IpcRowTypes
<1>2. CallIsOne(c) /\ rows[c].status = "none" /\ rows[c].response = "none" /\ c \notin bot.batch
  BY <1>1 DEF IpcRowsInv, CallIsOne, RowSays, BatchIsClaimed, Settled, Workable
<1> DEFINE row == [status |-> "pending", response |-> "none"]
<1>3. [rows[c] EXCEPT !.status = "pending"] = row
  BY <1>1, <1>2 DEF IpcRowStates
<1>4. rows' = [rows EXCEPT ![c] = row]
  BY <1>1, <1>3
<1>5. row \in IpcRowStates /\ row.status = "pending" /\ row.response = "none"
  BY DEF IpcRowStates, IpcResponses
<1> HIDE DEF row
<1>6. IpcRowTypes'
  <2>1. rows' \in [IpcCalls -> IpcRowStates]
    BY <1>1, <1>4, <1>5
  <2>2. tool' \in [IpcCalls -> IpcToolStates]
    BY <1>1 DEF IpcToolStates
  <2> QED
    BY <1>1, <2>1, <2>2 DEF IpcRowsInv, IpcRowTypes
<1>7. \A d \in IpcCalls : d # c => rows'[d] = rows[d] /\ tool'[d] = tool[d]
  BY <1>1, <1>4
<1>8. rows'[c] = row /\ tool'[c] = "polling"
  BY <1>1, <1>4
<1>9. ASSUME NEW d \in IpcCalls, d # c PROVE CallIsOne(d)'
  BY <1>1, <1>7, <1>9, ContextsMove, CallMoves DEF IpcRowsInv
<1>10. CallIsOne(c)'
  <2>1. RowSays(c)'
    BY <1>5, <1>8 DEF RowSays, Settled
  <2>2. BatchIsClaimed(c)' /\ UploadIsClaimed(c)'
    BY <1>1, <1>2, <1>5, <1>8 DEF CallIsOne, BatchIsClaimed, UploadIsClaimed, Unresolved
  <2> QED
    BY <2>1, <2>2 DEF CallIsOne
<1> QED
  BY <1>1, <1>2, <1>4, <1>6, <1>9, <1>10 DEF IpcRowsInv, row

LEMMA ToolEndsKeeps ==
  ASSUME IpcInv, IpcRowsInv, NEW c \in IpcCalls, PollRow(c) \/ ToolTimesOut(c)
  PROVE  IpcRowsInv'
<1>1. UNCHANGED <<rows, bot, queued, ui, context>>
  BY DEF PollRow, ToolTimesOut
<1>2. PICK how \in IpcToolStates \ {"new"} : tool' = [tool EXCEPT ![c] = how]
  <2>1. rows[c].response \in IpcResponses
    BY DEF IpcRowsInv, IpcRowTypes, IpcRowStates
  <2> QED
    BY <2>1 DEF PollRow, ToolTimesOut, IpcToolStates, IpcResponses
<1>3. tool \in [IpcCalls -> IpcToolStates]
  BY DEF IpcRowsInv, IpcRowTypes
<1>4. tool' \in [IpcCalls -> IpcToolStates] /\ \A d \in IpcCalls : tool'[d] = "new" => tool[d] = "new"
  BY <1>2, <1>3
<1>5. ASSUME NEW d \in IpcCalls PROVE CallIsOne(d)'
  BY <1>1, <1>4, ContextsMove, CallMoves DEF IpcRowsInv
<1> QED
  BY <1>1, <1>4, <1>5 DEF IpcRowsInv, IpcRowTypes

LEMMA IpcRowsInitially == ASSUME IpcInit PROVE IpcRowsInv
<1>1. PICK cast \in IpcCasts : IpcStartsWith(cast)
  BY DEF IpcInit
<1>2. /\ rows = [c \in IpcCalls |-> [status |-> "none", response |-> "none"]]
      /\ tool = [c \in IpcCalls |-> IF c \in cast.calls THEN "new" ELSE "cancelled"]
      /\ bot = [up |-> TRUE, batch |-> {}, completing |-> NoCall] /\ queued = NoCall
      /\ ui = [[at |-> "idle", call |-> NoCall, shown |-> NoCall, seen |-> {}]
                 EXCEPT !.seen = IpcButtons \ cast.calls]
      /\ context = [c \in IpcCalls |-> [is |-> "none", sent |-> FALSE, value |-> "none"]]
  BY <1>1 DEF IpcStartsWith, IdleBot, IdleUi, NoContext
<1>3. IpcRowTypes
  BY <1>2 DEF IpcRowTypes, IpcRowStates, IpcToolStates, IpcUiStates, IpcResponses
<1>4. ASSUME NEW c \in IpcCalls PROVE CallIsOne(c)
  BY <1>2 DEF CallIsOne, RowSays, BatchIsClaimed, UploadIsClaimed, Settled
<1> QED
  BY <1>2, <1>3, <1>4 DEF IpcRowsInv

LEMMA IpcRowsStep == ASSUME IpcInv, IpcRowsInv, [IpcNext]_ipcVars PROVE IpcRowsInv'
<1>1. CASE IpcTick \/ DispatchedButtons \/ IpcCrash
  BY <1>1, IpcTickKeeps, DispatchedButtonsKeeps, IpcCrashKeepsRows
<1>2. CASE ShutDown \/ StartBot \/ \E c \in IpcCalls : IpcSweep(c)
  BY <1>2, CancelSteps
<1>3. CASE \/ WaitTimesOut \/ OpenButtons \/ ButtonsSent \/ UserWrites \/ IpcResume
           \/ \E c \in IpcCalls : TakeRequest(c) \/ Expires(c) \/ UploadSent(c)
  BY <1>3, InterfaceKeeps
<1>4. ASSUME NEW c \in IpcCalls,
             \/ CallTool(c) \/ PollRow(c) \/ ToolTimesOut(c)
             \/ DispatchFailsFor(c) \/ DispatchUpload(c) \/ DispatchButtons(c) \/ UploadEnds(c)
      PROVE  IpcRowsInv'
  BY <1>4, CallToolKeeps, ToolEndsKeeps, DispatchFailsKeeps, DispatchUploadKeepsRows,
     DispatchButtonsKeepsRows, UploadEndsKeepsRows
<1>5. ASSUME NEW u \in IpcUsers,
             \/ \E c \in IpcCalls : SubmitModal(u, c) \/ Click(u, c)
             \/ Downloaded(u) \/ ResolveUpload(u) \/ ClaimClick(u) \/ CheckSession(u)
             \/ TellModel(u)
      PROVE  IpcRowsInv'
  BY <1>5, UsersKeepRows
<1>6. CASE UNCHANGED ipcVars
  <2>1. UNCHANGED <<rows, tool, bot, queued, ui, context>>
    BY <1>6 DEF ipcVars
  <2> QED
    BY <2>1, ContextsMove, RowsStay DEF IpcRowsInv, IpcRowTypes
<1> QED
  BY <1>1, <1>2, <1>3, <1>4, <1>5, <1>6 DEF IpcNext, DispatchOf

\* The invariant of the rows: what is left of the batch was claimed and nobody has
\* completed it, an upload waits or ends once, and a row has a response exactly
\* when it is settled (claimPendingIpcRequests, dispatchRequest, completeIpcRequest).
THEOREM IpcRowsInvariant == IpcSpec => []IpcRowsInv
<1>1. IpcInit => IpcRowsInv
  BY IpcRowsInitially
<1>2. IpcInv /\ IpcRowsInv /\ [IpcNext]_ipcVars => IpcRowsInv'
  BY IpcRowsStep
<1> QED
  BY <1>1, <1>2, IpcInvariant, PTL DEF IpcSpec

-----------------------------------------------------------------------------
(* IpcRequests implements IpcPromise *)

LEMMA SaysOf ==
  ASSUME NEW row \in IpcRowStates
  PROVE  /\ row.status = "none" => Says(row) = "unasked"
         /\ row.status \in Open => Says(row) = "open"
         /\ row.status = "completed" => Says(row) = row.response
         /\ row.status = "cancelled" => Says(row) = "cancelled"
BY DEF Says, IpcRowStates, Open

LEMMA TableOf ==
  ASSUME IpcRowTypes
  PROVE  /\ \A c \in IpcCalls : TableSays[c] = Says(rows[c]) /\ rows[c] \in IpcRowStates
         /\ TableSays = [c \in IpcCalls |-> Says(rows[c])]
BY DEF TableSays, IpcRowTypes

LEMMA PromiseCalls ==
  Promise!Calls = IpcCalls /\ \A c \in IpcCalls : Promise!AnswersTo(c) = AnswersTo(c)
BY DEF Promise!Calls, IpcCalls, Promise!AnswersTo, AnswersTo

LEMMA StepAnswers ==
  ASSUME IpcRowTypes, NEW c \in IpcCalls, NEW r \in AnswersTo(c), rows[c].status \in Workable,
         rows' = Completed(c, r), tool' = tool
  PROVE  Promise!Answer(c)
<1>1. /\ rows' = [rows EXCEPT ![c] = [status |-> "completed", response |-> r]]
      /\ rows \in [IpcCalls -> IpcRowStates]
  BY DEF Completed, IpcRowTypes
<1> DEFINE row == [status |-> "completed", response |-> r]
<1>2. row \in IpcRowStates /\ row.status = "completed" /\ row.response = r
  BY DEF AnswersTo, IpcRowStates, IpcResponses
<1> HIDE DEF row
<1>3. Says(row) = r
  BY <1>2, SaysOf
<1>4. rows' = [rows EXCEPT ![c] = row]
  BY <1>1 DEF row
<1>5. TableSays' = [TableSays EXCEPT ![c] = r]
  BY <1>1, <1>3, <1>4 DEF TableSays
<1>6. TableSays[c] \in {"open", "cancelled"}
  BY <1>1, SaysOf DEF TableSays, Workable, Open
<1> QED
  BY <1>5, <1>6, PromiseCalls DEF Promise!Answer

LEMMA StepCallsOff ==
  ASSUME IpcRowTypes, NEW S \in SUBSET IpcCalls, \A c \in S : rows[c].status \in Open,
         rows' = [c \in IpcCalls |-> IF c \in S THEN [status |-> "cancelled", response |-> "error"]
                                     ELSE rows[c]],
         tool' = tool
  PROVE  Promise!CallOff(S)
<1> DEFINE row == [status |-> "cancelled", response |-> "error"]
<1>1. row \in IpcRowStates /\ row.status = "cancelled"
  BY DEF IpcRowStates, IpcResponses
<1> HIDE DEF row
<1>2. Says(row) = "cancelled"
  BY <1>1, SaysOf
<1>3. \A c \in IpcCalls : rows'[c] = IF c \in S THEN row ELSE rows[c]
  BY DEF row
<1>4. TableSays' = [c \in IpcCalls |-> Says(rows'[c])]
  BY DEF TableSays
<1>5. \A c \in IpcCalls : Says(rows'[c]) = IF c \in S THEN "cancelled" ELSE TableSays[c]
  BY <1>2, <1>3, TableOf
<1>6. TableSays' = [c \in IpcCalls |-> IF c \in S THEN "cancelled" ELSE TableSays[c]]
  BY <1>4, <1>5
<1>7. \A c \in S : TableSays[c] = "open"
  BY TableOf, SaysOf
<1> QED
  BY <1>6, <1>7, PromiseCalls DEF Promise!CallOff

LEMMA TableStays == ASSUME rows' = rows PROVE TableSays' = TableSays
  BY DEF TableSays

LEMMA PromiseStep ==
  ASSUME IpcInv, IpcRowsInv, [IpcNext]_ipcVars
  PROVE  [Promise!Next]_<<TableSays, tool>>
<1>1. IpcRowTypes /\ rows \in [IpcCalls -> IpcRowStates] /\ tool \in [IpcCalls -> IpcToolStates]
  BY DEF IpcRowsInv, IpcRowTypes
<1>2. ASSUME NEW c \in IpcCalls, Promise!Ask(c) \/ Promise!Answer(c) \/ Promise!Return(c) \/ Promise!GiveUp(c)
      PROVE  Promise!Next
  BY <1>2, PromiseCalls DEF Promise!Next
<1>3. CASE UNCHANGED <<rows, tool>>
  BY <1>3, TableStays
<1>4. ASSUME NEW c \in IpcCalls, CallTool(c) PROVE Promise!Ask(c)
  <2>1. /\ rows[c].status = "none" /\ tool[c] = "new" /\ tool' = [tool EXCEPT ![c] = "polling"]
        /\ rows' = [rows EXCEPT ![c] = [status |-> "pending", response |-> "none"]]
    BY <1>4, CallToolKeeps DEF CallTool
  <2> DEFINE row == [status |-> "pending", response |-> "none"]
  <2>2. row \in IpcRowStates /\ row.status \in Open
    BY DEF IpcRowStates, IpcResponses, Open
  <2> HIDE DEF row
  <2>3. Says(row) = "open" /\ TableSays[c] = "unasked"
    BY <1>1, <2>1, <2>2, SaysOf DEF TableSays
  <2>4. rows' = [rows EXCEPT ![c] = row]
    BY <2>1 DEF row
  <2>5. TableSays' = [TableSays EXCEPT ![c] = "open"]
    BY <1>1, <2>3, <2>4 DEF TableSays
  <2> QED
    BY <2>1, <2>3, <2>5 DEF Promise!Ask
<1>5. ASSUME NEW c \in IpcCalls, PollRow(c) PROVE Promise!Return(c)
  <2>1. /\ tool[c] = "polling" /\ rows' = rows
        /\ rows[c].status = "cancelled" \/ rows[c].response # "none"
        /\ tool' = [tool EXCEPT ![c] = IF rows[c].status = "cancelled" THEN "cancelled"
                                       ELSE rows[c].response]
    BY <1>5 DEF PollRow
  <2>2. rows[c].status \in Settled
    BY <2>1 DEF IpcRowsInv, CallIsOne, RowSays, Settled
  <2>3. TableSays[c] = IF rows[c].status = "cancelled" THEN "cancelled" ELSE rows[c].response
    BY <1>1, <2>2, SaysOf DEF TableSays, Settled
  <2>4. TableSays[c] \notin {"unasked", "open"}
    BY <1>1, <2>3 DEF IpcRowStates, IpcResponses
  <2> QED
    BY <2>1, <2>3, <2>4, TableStays DEF Promise!Return
<1>6. ASSUME NEW c \in IpcCalls, ToolTimesOut(c) PROVE Promise!GiveUp(c)
  BY <1>6, TableStays DEF ToolTimesOut, Promise!GiveUp
<1>7. CASE IpcTick
  <2>1. tool' = tool
    BY <1>7 DEF IpcTick
  <2>2. ASSUME NEW c \in IpcCalls PROVE Says(rows'[c]) = Says(rows[c])
    <3>1. CASE ~Pending(c)
      BY <1>7, <3>1 DEF IpcTick
    <3>2. CASE Pending(c)
      <4>1. rows'[c] = [rows[c] EXCEPT !.status = "processing"]
        BY <1>7, <3>2 DEF IpcTick
      <4>2. rows'[c] \in IpcRowStates /\ rows'[c].status \in Open /\ rows[c].status \in Open
        BY <1>1, <3>2, <4>1 DEF IpcRowStates, Pending, Open
      <4> QED
        BY <1>1, <4>2, SaysOf
    <3> QED
      BY <3>1, <3>2
  <2>3. TableSays' = TableSays
    BY <2>2 DEF TableSays
  <2> QED
    BY <2>1, <2>3
<1>8. CASE ShutDown \/ StartBot \/ \E c \in IpcCalls : IpcSweep(c)
  <2>1. PICK S \in SUBSET IpcCalls : /\ \A c \in S : rows[c].status \in Open
                                     /\ rows' = [c \in IpcCalls |->
                                          IF c \in S THEN [status |-> "cancelled", response |-> "error"]
                                          ELSE rows[c]]
                                     /\ tool' = tool
    BY <1>8, CancelSteps
  <2> QED
    BY <1>1, <2>1, StepCallsOff, PromiseCalls DEF Promise!Next
<1>9. ASSUME NEW c \in IpcCalls, rows[c].status \in Workable, tool' = tool,
             rows' = rows \/ \E r \in AnswersTo(c) : rows' = Completed(c, r)
      PROVE  [Promise!Next]_<<TableSays, tool>>
  BY <1>1, <1>2, <1>3, <1>9, StepAnswers
<1>10. CASE DispatchedButtons
  <2>1. tool' = tool /\ (rows' = Completed(bot.completing, "ok") \/ rows' = rows)
    BY <1>10 DEF DispatchedButtons
  <2> QED
    BY <1>9, <1>10, <2>1, DispatchedButtonsKeeps
<1>11. ASSUME NEW c \in IpcCalls, DispatchFailsFor(c) PROVE [Promise!Next]_<<TableSays, tool>>
  <2>1. tool' = tool /\ (rows' = Completed(c, "error") \/ rows' = rows) /\ "error" \in AnswersTo(c)
    BY <1>11 DEF DispatchFailsFor, AnswersTo
  <2>2. rows[c].status \in Workable
    BY <1>11, TheNextWasClaimed DEF DispatchFailsFor
  <2> QED
    BY <1>9, <2>1, <2>2
<1>12. ASSUME NEW c \in IpcCalls, UploadEnds(c) PROVE [Promise!Next]_<<TableSays, tool>>
  <2>1. tool' = tool
    BY <1>12 DEF UploadEnds
  <2> QED
    BY <1>9, <1>12, <2>1, UploadEndsKeepsRows
<1>13. ASSUME NEW c \in IpcCalls, DispatchUpload(c) \/ DispatchButtons(c) PROVE UNCHANGED <<rows, tool>>
  BY <1>13 DEF DispatchUpload, DispatchButtons
<1>14. CASE \/ WaitTimesOut \/ OpenButtons \/ ButtonsSent \/ UserWrites \/ IpcResume
            \/ \E c \in IpcCalls : TakeRequest(c) \/ Expires(c) \/ UploadSent(c)
  BY <1>3, <1>14, InterfaceKeeps
<1>15. ASSUME NEW u \in IpcUsers,
              \/ \E c \in IpcCalls : SubmitModal(u, c) \/ Click(u, c)
              \/ Downloaded(u) \/ ResolveUpload(u) \/ ClaimClick(u) \/ CheckSession(u)
              \/ TellModel(u)
       PROVE  UNCHANGED <<rows, tool>>
  BY <1>15, UsersKeepRows
<1>16. CASE IpcCrash \/ UNCHANGED ipcVars
  BY <1>3, <1>16, IpcCrashKeepsRows DEF ipcVars
<1> QED
  BY <1>2, <1>3, <1>4, <1>5, <1>6, <1>7, <1>8, <1>10, <1>11, <1>12, <1>13, <1>14, <1>15, <1>16
     DEF IpcNext, DispatchOf

\* The table keeps its promise to the tool calls: whatever the poller, the timers,
\* the users, the sweep, shutdowns and restarts do, a call is asked once, its answer
\* is final and of the kind its tool expects, being called off is not, and the tool
\* returns once, with what the table says or because it has waited long enough
\* (createIpcRequest, completeIpcRequest, cancelAllPendingIpcRequests).
THEOREM IpcRefinement == IpcSpec => IpcKeepsPromise
<1>1. IpcInit => Promise!Init
  <2> SUFFICES ASSUME IpcInit PROVE Promise!Init
    OBVIOUS
  <2>1. PICK cast \in IpcCasts : IpcStartsWith(cast)
    BY DEF IpcInit
  <2>2. /\ rows = [c \in IpcCalls |-> [status |-> "none", response |-> "none"]]
        /\ tool = [c \in IpcCalls |-> IF c \in cast.calls THEN "new" ELSE "cancelled"]
    BY <2>1 DEF IpcStartsWith
  <2>3. \A c \in IpcCalls : rows[c] \in IpcRowStates /\ rows[c].status = "none"
    BY <2>2 DEF IpcRowStates, IpcResponses
  <2>4. \A c \in IpcCalls : Says(rows[c]) = "unasked"
    BY <2>3, SaysOf
  <2>5. TableSays = [c \in IpcCalls |-> "unasked"]
    BY <2>4 DEF TableSays
  <2> QED
    BY <2>2, <2>5, PromiseCalls DEF Promise!Init
<1>2. IpcInv /\ IpcRowsInv /\ [IpcNext]_ipcVars => [Promise!Next]_<<TableSays, tool>>
  BY PromiseStep
<1> QED
  BY <1>1, <1>2, IpcInvariant, IpcRowsInvariant, PTL DEF IpcSpec, IpcKeepsPromise, Promise!Spec

-----------------------------------------------------------------------------
(* IpcRequests: the order of the rows, and the rest of the type *)

\* A call is in the table once, and the rest of the type
IpcMadeInv ==
  /\ made \in Seq(IpcCalls) /\ resumed \in BOOLEAN /\ ipcCrashes \in Nat
  /\ \A i \in 1 .. Len(made) : rows[made[i]].status # "none"
  /\ \A i, j \in 1 .. Len(made) : made[i] = made[j] => i = j

\* A row that was inserted stays in the table.
LEMMA RowsStayMade ==
  ASSUME IpcInv, IpcRowsInv, IpcRowsInv', [IpcNext]_ipcVars
  PROVE  \A c \in IpcCalls : rows[c].status # "none" => rows'[c].status # "none"
<1>1. /\ \A c \in IpcCalls : rows[c] \in IpcRowStates /\ rows'[c] \in IpcRowStates
      /\ TableSays = [c \in IpcCalls |-> Says(rows[c])]
      /\ TableSays' = [c \in IpcCalls |-> Says(rows'[c])]
  BY DEF IpcRowsInv, IpcRowTypes, TableSays
<1>2. \A c \in IpcCalls : /\ rows[c].status = "none" <=> TableSays[c] = "unasked"
                          /\ rows'[c].status = "none" <=> TableSays'[c] = "unasked"
  <2>1. ASSUME NEW row \in IpcRowStates PROVE row.status = "none" <=> Says(row) = "unasked"
    BY SaysOf DEF IpcRowStates, IpcResponses, Open
  <2> QED
    BY <1>1, <2>1
<1>3. \A c \in IpcCalls : TableSays[c] # "unasked" => TableSays'[c] # "unasked"
  <2>1. [Promise!Next]_<<TableSays, tool>>
    BY PromiseStep
  <2>2. ASSUME NEW d \in IpcCalls, Promise!Ask(d) \/ Promise!Answer(d) \/ Promise!Return(d) \/ Promise!GiveUp(d)
        PROVE  \A c \in IpcCalls : TableSays[c] # "unasked" => TableSays'[c] # "unasked"
    <3>1. TableSays' = TableSays \/ \E a : a # "unasked" /\ TableSays' = [TableSays EXCEPT ![d] = a]
      BY <2>2 DEF Promise!Ask, Promise!Answer, Promise!Return, Promise!GiveUp, Promise!AnswersTo
    <3> QED
      BY <1>1, <3>1
  <2>3. ASSUME NEW some \in SUBSET IpcCalls, Promise!CallOff(some)
        PROVE  \A c \in IpcCalls : TableSays[c] # "unasked" => TableSays'[c] # "unasked"
    <3>1. TableSays' = [c \in IpcCalls |-> IF c \in some THEN "cancelled" ELSE TableSays[c]]
      BY <2>3, PromiseCalls DEF Promise!CallOff
    <3> QED
      BY <3>1
  <2> QED
    BY <2>1, <2>2, <2>3, PromiseCalls DEF Promise!Next
<1> QED
  BY <1>2, <1>3

LEMMA IpcMadeStep ==
  ASSUME IpcInv, IpcRowsInv, IpcRowsInv', IpcMadeInv, [IpcNext]_ipcVars
  PROVE  IpcMadeInv'
<1>1. made \in Seq(IpcCalls) /\ resumed \in BOOLEAN /\ ipcCrashes \in Nat
  BY DEF IpcMadeInv
<1>2. CASE made' = made /\ resumed' \in BOOLEAN /\ ipcCrashes' \in Nat
  BY <1>1, <1>2, RowsStayMade DEF IpcMadeInv
<1>3. ASSUME NEW c \in IpcCalls, CallTool(c) PROVE IpcMadeInv'
  <2>1. /\ made' = Append(made, c) /\ UNCHANGED <<resumed, ipcCrashes>>
        /\ rows[c].status = "none" /\ rows'[c].status = "pending"
    <3>1. made' = Append(made, c) /\ UNCHANGED <<resumed, ipcCrashes>>
      BY <1>3 DEF CallTool
    <3>2. /\ rows[c].status = "none"
          /\ rows' = [rows EXCEPT ![c] = [status |-> "pending", response |-> "none"]]
      BY <1>3, CallToolKeeps
    <3>3. rows'[c].status = "pending"
      BY <3>2 DEF IpcRowsInv, IpcRowTypes
    <3> QED
      BY <3>1, <3>2, <3>3
  <2>2. /\ made' \in Seq(IpcCalls) /\ Len(made') = Len(made) + 1 /\ Len(made) \in Nat
        /\ \A i \in 1 .. Len(made) : made'[i] = made[i] /\ made[i] \in IpcCalls /\ made[i] # c
        /\ made'[Len(made) + 1] = c
    BY <1>1, <2>1, AppendProperties DEF IpcMadeInv
  <2>3. \A i \in 1 .. Len(made') : rows'[made'[i]].status # "none"
    BY <2>1, <2>2, RowsStayMade DEF IpcMadeInv
  <2>4. \A i, j \in 1 .. Len(made') : made'[i] = made'[j] => i = j
    BY <2>2 DEF IpcMadeInv
  <2> QED
    BY <1>1, <2>1, <2>2, <2>3, <2>4 DEF IpcMadeInv
<1>4. CASE IpcCrash
  <2>1. made' = made /\ resumed' = resumed /\ ipcCrashes' = ipcCrashes - 1 /\ ipcCrashes > 0
    BY <1>4 DEF IpcCrash
  <2>2. ipcCrashes' \in Nat
    BY <1>1, <2>1
  <2> QED
    BY <1>1, <1>2, <2>1, <2>2
<1>5. CASE IpcResume
  BY <1>1, <1>2, <1>5 DEF IpcResume
<1>6. CASE \/ IpcTick \/ DispatchedButtons \/ WaitTimesOut \/ OpenButtons \/ ButtonsSent
           \/ UserWrites \/ ShutDown \/ StartBot \/ UNCHANGED ipcVars
  BY <1>1, <1>2, <1>6 DEF IpcTick, DispatchedButtons, WaitTimesOut, OpenButtons, ButtonsSent,
                          UserWrites, ShutDown, StartBot, ipcVars
<1>7. ASSUME NEW c \in IpcCalls,
             \/ PollRow(c) \/ ToolTimesOut(c) \/ IpcSweep(c) \/ DispatchFailsFor(c)
             \/ DispatchUpload(c) \/ DispatchButtons(c) \/ TakeRequest(c) \/ Expires(c)
             \/ UploadSent(c) \/ UploadEnds(c)
      PROVE  IpcMadeInv'
  BY <1>1, <1>2, <1>7 DEF PollRow, ToolTimesOut, IpcSweep, DispatchFailsFor, DispatchUpload,
                          DispatchButtons, TakeRequest, Expires, UploadSent, UploadEnds
<1>8. ASSUME NEW u \in IpcUsers,
             \/ \E c \in IpcCalls : SubmitModal(u, c) \/ Click(u, c)
             \/ Downloaded(u) \/ ResolveUpload(u) \/ ClaimClick(u) \/ CheckSession(u)
             \/ TellModel(u)
      PROVE  IpcMadeInv'
  BY <1>1, <1>2, <1>8 DEF SubmitModal, Click, Downloaded, ResolveUpload, ClaimClick,
                          CheckSession, TellModel
<1> QED
  BY <1>3, <1>4, <1>5, <1>6, <1>7, <1>8 DEF IpcNext, DispatchOf

LEMMA IpcMadeInitially == ASSUME IpcInit PROVE IpcMadeInv
<1>1. PICK cast \in IpcCasts : IpcStartsWith(cast)
  BY DEF IpcInit
<1>2. made = <<>> /\ resumed = FALSE /\ ipcCrashes = cast.crashes
  BY <1>1 DEF IpcStartsWith
<1>3. cast.crashes \in Nat
  BY IpcAssumption
<1>4. made \in Seq(IpcCalls) /\ Len(made) = 0
  BY <1>2
<1>5. ipcCrashes \in Nat /\ resumed \in BOOLEAN
  BY <1>2, <1>3
<1> QED
  BY <1>4, <1>5 DEF IpcMadeInv

\* A table of distinct calls is no longer than there are calls.
LEMMA IpcTypesFollow == ASSUME IpcInv, IpcRowsInv, IpcMadeInv PROVE IpcTypeOK
<1>1. made \in Seq(IpcCalls) /\ Len(made) \in Nat
  BY DEF IpcMadeInv
<1>2. made \in Injection(1 .. Len(made), IpcCalls)
  BY <1>1 DEF IpcMadeInv, Injection, IsInjective
<1>3. Cardinality(1 .. Len(made)) <= Cardinality(IpcCalls)
  BY <1>2, FS_Injection, IpcAssumption
<1>4. Cardinality(1 .. Len(made)) = Len(made)
  BY <1>1, FS_Interval
<1> QED
  BY <1>1, <1>3, <1>4 DEF IpcTypeOK, IpcInv, IpcClickTypes, IpcContexts, IpcUserStates,
     IpcRowsInv, IpcRowTypes, IpcRowStates, IpcToolStates, IpcUiStates, IpcMadeInv

\* Every variable of the requests has its type, and no call is in the table twice.
THEOREM IpcTypeCorrect == IpcSpec => []IpcTypeOK
<1>1. IpcInit => IpcMadeInv
  BY IpcMadeInitially
<1>2. IpcInv /\ IpcRowsInv /\ IpcRowsInv' /\ IpcMadeInv /\ [IpcNext]_ipcVars => IpcMadeInv'
  BY IpcMadeStep
<1>3. IpcInv /\ IpcRowsInv /\ IpcMadeInv => IpcTypeOK
  BY IpcTypesFollow
<1> QED
  BY <1>1, <1>2, <1>3, IpcInvariant, IpcRowsInvariant, PTL DEF IpcSpec

-----------------------------------------------------------------------------
(* AccountPool: the tokens in play *)

\* Everything but the copies of the store that requests have loaded
AccTypes ==
  /\ auth \in AccTokens \cup {NoToken}
  /\ store \in [accounts : Seq(AccTokens), active : Nat]
  /\ store.active \in 1 .. Len(store.accounts) \/ (store.accounts = <<>> /\ store.active = 1)
  /\ lock \in {"free", "held", "stale"}
  /\ acc \in [AccRequests -> [at : AccPlaces, job : AccJobs, token : AccTokens \cup {NoToken},
                                  key : AccTokens \cup {NoToken}, tried : SUBSET AccTokens,
                                  again : BOOLEAN]]
  /\ peers \subseteq AccRequests
  /\ grant \in [AccAccounts -> 0 .. MaxGrants] /\ newest \in [AccAccounts -> 1 .. MaxGrants]
  /\ expired \subseteq AccTokens /\ stales \in 0 .. MaxStale /\ unset \in BOOLEAN

\* A token somebody holds was delivered; the endpoint takes no older one than
\* the newest delivered.
Delivered(t) == t \in AccTokens => t.g <= newest[t.a]
TokensDelivered ==
  /\ Delivered(auth) /\ \A i \in 1 .. Len(store.accounts) : Delivered(store.accounts[i])
  /\ \A r \in AccRequests : Delivered(acc[r].token)
NewestGranted == \A a \in AccAccounts : grant[a] = 0 \/ newest[a] <= grant[a]

JobsMatch ==
  \A r \in AccRequests :
    /\ acc[r].at \in {"refresh", "refreshing", "save"} => acc[r].job = "refresh"
    /\ acc[r].at \in {"remove", "rotate"} => acc[r].job = acc[r].at
\* A request in the middle of a refresh, a write or a save has a token, unless it
\* writes that the last account is gone.
RowHasToken(row) ==
  /\ row.at \in {"refreshing", "save"} => row.token \in AccTokens
  /\ row.at = "write" /\ row.job # "remove" => row.token \in AccTokens
HasToken == \A r \in AccRequests : RowHasToken(acc[r])

\* The token a request was refused stays dead until its entry is removed.
RefusedIsDead ==
  \A r \in AccRequests :
    acc[r].job = "remove" /\ acc[r].at \in {"wait", "breaking", "remove"} =>
      acc[r].token \in AccTokens /\ grant[acc[r].token.a] # acc[r].token.g

InSection(r) == acc[r].at \in {"refresh", "refreshing", "write", "save", "remove", "rotate"}
\* The lock is one as long as no section outlives it.
LockExcludes ==
  stales = 0 =>
    /\ lock # "stale" /\ \A r \in AccRequests : acc[r].at # "breaking"
    /\ lock = "free" => \A r \in AccRequests : ~InSection(r)
    /\ \A r, q \in AccRequests : InSection(r) /\ InSection(q) => r = q

\* A refreshed token on its way into the two files
Refreshed(r) == acc[r].job = "refresh" /\ acc[r].at \in {"write", "save"}
RefreshedIsNewest ==
  stales = 0 => \A r \in AccRequests : Refreshed(r) => newest[acc[r].token.a] = acc[r].token.g

ActiveToken == IF store.accounts = <<>> THEN NoToken ELSE store.accounts[store.active]
Agreed == auth = ActiveToken

\* Where the two files agree, and what a section has written of what it will.
FilesInStep ==
  stales = 0 /\ ~unset =>
    /\ lock = "free" => Agreed
    /\ \A r \in AccRequests :
         /\ acc[r].at \in {"refresh", "remove", "rotate"} => Agreed
         /\ acc[r].at = "refreshing" => Agreed /\ acc[r].token = auth
         /\ acc[r].at = "write" /\ acc[r].job = "refresh" => Agreed /\ auth # NoToken
         /\ acc[r].at = "save" => auth = acc[r].token /\ store.accounts # <<>>
         /\ acc[r].at = "write" /\ acc[r].job # "refresh" => acc[r].token = ActiveToken

Kept(a) == \E i \in 1 .. Len(store.accounts) : store.accounts[i] = [a |-> a, g |-> newest[a]]
NewestInPool ==
  stales = 0 /\ ~unset =>
    \A a \in AccAccounts :
      \/ grant[a] # newest[a]
      \/ \E r \in AccRequests : Refreshed(r) /\ acc[r].token.a = a
      \/ Kept(a)

\* The files and the requests, without the loaded copies
AccBase ==
  /\ AccTypes /\ TokensDelivered /\ NewestGranted /\ JobsMatch /\ HasToken /\ RefusedIsDead
  /\ LockExcludes /\ RefreshedIsNewest /\ FilesInStep /\ NewestInPool

AccRows == [at : AccPlaces, job : AccJobs, token : AccTokens \cup {NoToken},
            key : AccTokens \cup {NoToken}, tried : SUBSET AccTokens, again : BOOLEAN]

\* A step of one request leaves the others where they are, except that the
\* outcome of its refresh reaches those that wait for it.
OthersStay(r) ==
  \A q \in AccRequests \ {r} :
    \/ acc'[q] = acc[q]
    \/ acc[q].at = "joined" /\ acc'[q].at \in {"send", "failed"} /\ acc'[q].token = acc'[r].token

LEMMA OneRowChanges ==
  ASSUME acc \in [AccRequests -> AccRows], NEW r \in AccRequests, NEW w \in AccRows,
         acc' = [acc EXCEPT ![r] = w]
  PROVE  acc' \in [AccRequests -> AccRows] /\ OthersStay(r) /\ acc'[r] = w
<1>1. acc' \in [AccRequests -> AccRows] /\ acc'[r] = w
  OBVIOUS
<1>2. \A q \in AccRequests \ {r} : acc'[q] = acc[q]
  OBVIOUS
<1> QED
  BY <1>1, <1>2 DEF OthersStay

LEMMA RequestGoes ==
  ASSUME acc \in [AccRequests -> AccRows], NEW r \in AccRequests, NEW place \in AccPlaces,
         AccGoes(r, place)
  PROVE  /\ acc' \in [AccRequests -> AccRows] /\ OthersStay(r)
         /\ acc'[r].at = place /\ acc'[r].job = acc[r].job /\ acc'[r].token = acc[r].token
<1> DEFINE w == [acc[r] EXCEPT !.at = place]
<1>1. acc' = [acc EXCEPT ![r] = w]
  BY DEF AccGoes
<1>2. w \in AccRows
  BY DEF AccRows
<1>3. w.at = place /\ w.job = acc[r].job /\ w.token = acc[r].token
  BY DEF AccRows
<1> HIDE DEF w
<1> QED
  BY <1>1, <1>2, <1>3, OneRowChanges

LEMMA RefreshEnds ==
  ASSUME acc \in [AccRequests -> AccRows], NEW r \in AccRequests, NEW place \in {"send", "failed"},
         NEW token \in AccTokens \cup {NoToken}, RefreshOutcome(r, place, token)
  PROVE  /\ acc' \in [AccRequests -> AccRows] /\ OthersStay(r)
         /\ acc'[r].at = place /\ acc'[r].job = acc[r].job /\ acc'[r].token = token
<1>1. ASSUME NEW q \in AccRequests
      PROVE  /\ [acc[q] EXCEPT !.at = place, !.token = token, !.key = NoToken] \in AccRows
             /\ [acc[q] EXCEPT !.at = place, !.token = token, !.key = NoToken].at = place
             /\ [acc[q] EXCEPT !.at = place, !.token = token, !.key = NoToken].token = token
             /\ [acc[q] EXCEPT !.at = place, !.token = token, !.key = NoToken].job = acc[q].job
  <2>1. acc[q] \in AccRows /\ place \in AccPlaces
    BY DEF AccPlaces
  <2> QED
    BY <2>1 DEF AccRows
<1>2. acc' = [q \in AccRequests |->
                IF q = r \/ (r \in peers /\ q \in JoinedWith(r))
                THEN [acc[q] EXCEPT !.at = place, !.token = token, !.key = NoToken] ELSE acc[q]]
  BY DEF RefreshOutcome
<1>3. acc' \in [AccRequests -> AccRows]
  BY <1>1, <1>2
<1>4. acc'[r].at = place /\ acc'[r].job = acc[r].job /\ acc'[r].token = token
  BY <1>1, <1>2
<1>5. ASSUME NEW q \in AccRequests \ {r}
      PROVE  \/ acc'[q] = acc[q]
             \/ acc[q].at = "joined" /\ acc'[q].at \in {"send", "failed"} /\ acc'[q].token = acc'[r].token
  <2>1. CASE r \in peers /\ q \in JoinedWith(r)
    <3>1. acc[q].at = "joined"
      BY <2>1 DEF JoinedWith, AccIn
    <3> QED
      BY <1>1, <1>2, <1>4, <2>1, <3>1
  <2>2. CASE ~(r \in peers /\ q \in JoinedWith(r))
    BY <1>2, <2>2
  <2> QED
    BY <2>1, <2>2
<1> QED
  BY <1>3, <1>4, <1>5 DEF OthersStay

\* The tokens of the requests: what one request's new row must satisfy
LEMMA RowsFit ==
  ASSUME AccBase, NEW r \in AccRequests, OthersStay(r), acc' \in [AccRequests -> AccRows],
         \A a \in AccAccounts : newest'[a] \in Nat /\ newest[a] <= newest'[a],
         \A t \in AccTokens : t.g <= newest[t.a] /\ grant[t.a] # t.g => grant'[t.a] # t.g,
         acc'[r].at \in {"refresh", "refreshing", "save"} => acc'[r].job = "refresh",
         acc'[r].at \in {"remove", "rotate"} => acc'[r].job = acc'[r].at,
         RowHasToken(acc'[r]),
         acc'[r].job = "remove" /\ acc'[r].at \in {"wait", "breaking", "remove"} =>
           acc'[r].token \in AccTokens /\ grant'[acc'[r].token.a] # acc'[r].token.g,
         acc'[r].token \in AccTokens => acc'[r].token.g <= newest'[acc'[r].token.a]
  PROVE  /\ JobsMatch' /\ HasToken' /\ RefusedIsDead'
         /\ \A q \in AccRequests : acc'[q].token \in AccTokens =>
              acc'[q].token.g <= newest'[acc'[q].token.a]
<1>1. /\ newest \in [AccAccounts -> 1 .. MaxGrants] /\ MaxGrants \in Nat
      /\ \A t \in AccTokens : t.a \in AccAccounts /\ t.g \in Nat
  BY AccAssumption DEF AccBase, AccTypes, AccTokens
<1>2. JobsMatch'
  BY DEF AccBase, JobsMatch, OthersStay
<1>3. HasToken'
  <2>1. \A q \in AccRequests : acc'[q].at \in {"send", "failed"} => RowHasToken(acc'[q])
    BY DEF RowHasToken
  <2> QED
    BY <2>1 DEF AccBase, HasToken, OthersStay
<1>4. ASSUME NEW q \in AccRequests
      PROVE  acc'[q].token \in AccTokens => acc'[q].token.g <= newest'[acc'[q].token.a]
  <2>1. CASE q = r \/ acc'[q].token = acc'[r].token
    BY <2>1
  <2>2. CASE acc'[q] = acc[q]
    <3> SUFFICES ASSUME acc[q].token \in AccTokens
                 PROVE  acc[q].token.g <= newest'[acc[q].token.a]
      BY <2>2
    <3>1. acc[q].token.g <= newest[acc[q].token.a]
      BY DEF AccBase, TokensDelivered, Delivered
    <3>2. /\ acc[q].token.a \in AccAccounts /\ acc[q].token.g \in Nat
          /\ newest[acc[q].token.a] \in Nat
      BY <1>1
    <3> QED
      BY <3>1, <3>2
  <2> QED
    BY <2>1, <2>2 DEF OthersStay
<1>5. RefusedIsDead'
  <2> SUFFICES ASSUME NEW q \in AccRequests, q # r, acc'[q] = acc[q], acc[q].job = "remove",
                      acc[q].at \in {"wait", "breaking", "remove"}
               PROVE  acc[q].token \in AccTokens /\ grant'[acc[q].token.a] # acc[q].token.g
    BY DEF RefusedIsDead, OthersStay
  <2>1. acc[q].token \in AccTokens /\ grant[acc[q].token.a] # acc[q].token.g
    BY DEF AccBase, RefusedIsDead
  <2>2. acc[q].token.g <= newest[acc[q].token.a]
    BY <2>1 DEF AccBase, TokensDelivered, Delivered
  <2> QED
    BY <2>1, <2>2
<1> QED
  BY <1>2, <1>3, <1>4, <1>5

\* The lock: one section is entered through a free lock and left by freeing it.
LEMMA LockFits ==
  ASSUME AccBase, NEW r \in AccRequests, OthersStay(r), stales' = stales,
         stales = 0 => lock' # "stale" /\ acc'[r].at # "breaking",
         InSection(r)' => (InSection(r) /\ lock' = lock) \/ (lock = "free" /\ lock' = "held"),
         stales = 0 /\ ~InSection(r)' =>
           (lock' = lock /\ ~InSection(r)) \/ (lock' = "free" /\ InSection(r))
  PROVE  LockExcludes'
<1> SUFFICES ASSUME stales = 0
             PROVE  /\ lock' # "stale" /\ \A q \in AccRequests : acc'[q].at # "breaking"
                    /\ lock' = "free" => \A q \in AccRequests : ~InSection(q)'
                    /\ \A p, q \in AccRequests : InSection(p)' /\ InSection(q)' => p = q
  BY DEF LockExcludes
<1>1. /\ lock # "stale" /\ \A q \in AccRequests : acc[q].at # "breaking"
      /\ lock = "free" => \A q \in AccRequests : ~InSection(q)
      /\ \A p, q \in AccRequests : InSection(p) /\ InSection(q) => p = q
  BY DEF AccBase, LockExcludes
<1>2. \A q \in AccRequests : q # r /\ InSection(q)' => InSection(q)
  BY DEF OthersStay, InSection
<1>3. \A q \in AccRequests : acc'[q].at # "breaking"
  BY <1>1 DEF OthersStay
<1>4. lock' = "free" => \A q \in AccRequests : ~InSection(q)'
  BY <1>1, <1>2
<1>5. \A p, q \in AccRequests : InSection(p)' /\ InSection(q)' => p = q
  BY <1>1, <1>2
<1> QED
  BY <1>3, <1>4, <1>5

RowInStep(r) ==
  /\ acc[r].at \in {"refresh", "remove", "rotate"} => Agreed
  /\ acc[r].at = "refreshing" => Agreed /\ acc[r].token = auth
  /\ acc[r].at = "write" /\ acc[r].job = "refresh" => Agreed /\ auth # NoToken
  /\ acc[r].at = "save" => auth = acc[r].token /\ store.accounts # <<>>
  /\ acc[r].at = "write" /\ acc[r].job # "refresh" => acc[r].token = ActiveToken

\* The files: only the request in the section writes them.
LEMMA FilesFit ==
  ASSUME AccBase, NEW r \in AccRequests, OthersStay(r), LockExcludes', stales' = stales,
         unset => unset', ~InSection(r) => UNCHANGED <<auth, store>>,
         stales = 0 /\ ~unset' => (lock' = "free" => Agreed') /\ RowInStep(r)'
  PROVE  FilesInStep'
<1> SUFFICES ASSUME stales = 0, ~unset'
             PROVE  \A q \in AccRequests : RowInStep(q)'
  BY DEF FilesInStep, RowInStep
<1> TAKE q \in AccRequests
<1>1. CASE q = r
  BY <1>1
<1>2. CASE q # r /\ ~InSection(q)'
  BY <1>2 DEF RowInStep, InSection
<1>3. CASE q # r /\ InSection(q)'
  <2>1. InSection(q) /\ acc'[q] = acc[q]
    BY <1>3 DEF OthersStay, InSection
  <2>2. ~InSection(r)
    BY <1>3, <2>1 DEF AccBase, LockExcludes
  <2>3. RowInStep(q) /\ UNCHANGED <<auth, store>>
    BY <2>2 DEF AccBase, FilesInStep, RowInStep
  <2> QED
    BY <2>1, <2>3 DEF RowInStep, Agreed, ActiveToken
<1> QED
  BY <1>1, <1>2, <1>3

LEMMA NewestFits ==
  ASSUME AccBase, NEW r \in AccRequests, OthersStay(r), stales' = stales,
         ~InSection(r) => newest' = newest,
         stales = 0 /\ Refreshed(r)' => newest'[acc'[r].token.a] = acc'[r].token.g
  PROVE  RefreshedIsNewest'
<1> SUFFICES ASSUME stales = 0, NEW q \in AccRequests, Refreshed(q)'
             PROVE  newest'[acc'[q].token.a] = acc'[q].token.g
  BY DEF RefreshedIsNewest
<1>1. CASE q = r
  BY <1>1
<1>2. CASE q # r
  <2>1. acc'[q] = acc[q] /\ InSection(q) /\ Refreshed(q)
    BY <1>2 DEF OthersStay, Refreshed, InSection
  <2>2. ~InSection(r)
    BY <1>2, <2>1 DEF AccBase, LockExcludes
  <2> QED
    BY <2>1, <2>2 DEF AccBase, RefreshedIsNewest
<1> QED
  BY <1>1, <1>2

\* The pool: nothing leaves it, and a refreshed token is still on its way.
LEMMA PoolFits ==
  ASSUME AccBase, NEW r \in AccRequests, OthersStay(r), stales' = stales, unset => unset',
         store' = store,
         \A a \in AccAccounts : grant'[a] = newest'[a] =>
           \/ grant[a] = newest[a] /\ newest'[a] = newest[a]
           \/ Refreshed(r)' /\ acc'[r].token.a = a,
         stales = 0 /\ ~unset' /\ Refreshed(r) => Refreshed(r)' /\ acc'[r].token = acc[r].token
  PROVE  NewestInPool'
<1> SUFFICES ASSUME stales = 0, ~unset', NEW a \in AccAccounts, grant'[a] = newest'[a]
             PROVE  (\E q \in AccRequests : Refreshed(q)' /\ acc'[q].token.a = a) \/ Kept(a)'
  BY DEF NewestInPool
<1>1. CASE Refreshed(r)' /\ acc'[r].token.a = a
  BY <1>1
<1>2. CASE grant[a] = newest[a] /\ newest'[a] = newest[a]
  <2>1. CASE Kept(a)
    BY <1>2, <2>1 DEF Kept
  <2>2. ASSUME NEW q \in AccRequests, Refreshed(q), acc[q].token.a = a
        PROVE  Refreshed(q)' /\ acc'[q].token.a = a
    <3>1. CASE q = r
      BY <2>2, <3>1
    <3>2. CASE q # r
      <4>1. acc'[q] = acc[q]
        BY <2>2, <3>2 DEF OthersStay, Refreshed
      <4> QED
        BY <2>2, <4>1 DEF Refreshed
    <3> QED
      BY <3>1, <3>2
  <2> QED
    BY <1>2, <2>1, <2>2 DEF AccBase, NewestInPool
<1> QED
  BY <1>1, <1>2

\* A step of one request that moves the lock at most
LEMMA AccMoves ==
  ASSUME AccBase, NEW r \in AccRequests, OthersStay(r), acc' \in [AccRequests -> AccRows],
         UNCHANGED <<auth, store, peers, grant, expired, newest, stales, unset>>,
         lock' \in {"free", "held", "stale"},
         acc'[r].at \in {"refresh", "refreshing", "save"} => acc'[r].job = "refresh",
         acc'[r].at \in {"remove", "rotate"} => acc'[r].job = acc'[r].at,
         acc'[r].at = "refreshing" => acc'[r].token \in AccTokens,
         acc'[r].job = "remove" /\ acc'[r].at \in {"wait", "breaking", "remove"} =>
           acc'[r].token \in AccTokens /\ grant[acc'[r].token.a] # acc'[r].token.g,
         acc'[r].token \in {acc[r].token, auth, NoToken},
         stales = 0 => lock' # "stale" /\ acc'[r].at # "breaking",
         InSection(r)' => (InSection(r) /\ lock' = lock) \/ (lock = "free" /\ lock' = "held"),
         stales = 0 /\ ~InSection(r)' =>
           (lock' = lock /\ ~InSection(r)) \/ (lock' = "free" /\ InSection(r)),
         acc[r].at \notin {"write", "save"}, acc'[r].at \notin {"write", "save"},
         stales = 0 /\ ~unset => (lock' = "free" => Agreed) /\ RowInStep(r)'
  PROVE  AccBase'
<1>1. /\ newest \in [AccAccounts -> 1 .. MaxGrants] /\ MaxGrants \in Nat /\ AccTypes
      /\ NoToken \notin AccTokens
  BY AccAssumption DEF AccBase, AccTypes
<1>2. AccTypes'
  BY <1>1 DEF AccTypes, AccRows
<1>3. acc'[r].token \in AccTokens => acc'[r].token.g <= newest'[acc'[r].token.a]
  BY <1>1 DEF AccBase, TokensDelivered, Delivered
<1>4. /\ JobsMatch' /\ HasToken' /\ RefusedIsDead'
      /\ \A q \in AccRequests : acc'[q].token \in AccTokens =>
           acc'[q].token.g <= newest'[acc'[q].token.a]
  <2>1. \A a \in AccAccounts : newest'[a] \in Nat /\ newest[a] <= newest'[a]
    BY <1>1
  <2>2. \A t \in AccTokens : t.g <= newest[t.a] /\ grant[t.a] # t.g => grant'[t.a] # t.g
    OBVIOUS
  <2>3. RowHasToken(acc'[r])
    BY DEF RowHasToken
  <2> QED
    BY <1>3, <2>1, <2>2, <2>3, RowsFit
<1>5. TokensDelivered' /\ NewestGranted'
  BY <1>4 DEF AccBase, TokensDelivered, Delivered, NewestGranted
<1>6. LockExcludes'
  BY LockFits
<1>7. Agreed' <=> Agreed
  BY DEF Agreed, ActiveToken
<1>8. FilesInStep'
  BY <1>6, <1>7, FilesFit
<1>9. ~Refreshed(r) /\ ~Refreshed(r)'
  BY DEF Refreshed
<1>10. RefreshedIsNewest'
  BY <1>9, NewestFits
<1>11. NewestInPool'
  BY <1>9, PoolFits
<1> QED
  BY <1>2, <1>4, <1>5, <1>6, <1>8, <1>10, <1>11 DEF AccBase

LEMMA AccTyped ==
  ASSUME AccBase
  PROVE  /\ acc \in [AccRequests -> AccRows] /\ auth \in AccTokens \cup {NoToken}
         /\ lock \in {"free", "held", "stale"} /\ NoToken \notin AccTokens
         /\ grant \in [AccAccounts -> 0 .. MaxGrants] /\ newest \in [AccAccounts -> 1 .. MaxGrants]
         /\ MaxGrants \in Nat /\ \A t \in AccTokens : t.a \in AccAccounts /\ t.g \in 1 .. MaxGrants
  BY AccAssumption DEF AccBase, AccTypes, AccRows, AccTokens

\* A step of a request outside the sections
LEMMA AccOutside ==
  ASSUME AccBase, NEW r \in AccRequests, OthersStay(r), acc' \in [AccRequests -> AccRows],
         UNCHANGED <<auth, store, peers, grant, expired, newest, stales, unset>>, lock' = lock,
         acc[r].at \in {"new", "wait", "send"},
         acc'[r].at \in {"done", "failed", "send", "joined", "wait"},
         acc'[r].at = "wait" => acc'[r].job # "remove",
         acc'[r].token \in {acc[r].token, auth, NoToken}
  PROVE  AccBase'
<1>1. ~InSection(r) /\ ~InSection(r)' /\ RowInStep(r)'
  BY DEF InSection, RowInStep
<1>2. lock' \in {"free", "held", "stale"}
  BY AccTyped
<1>3. /\ acc'[r].at \in {"refresh", "refreshing", "save"} => acc'[r].job = "refresh"
      /\ acc'[r].at \in {"remove", "rotate"} => acc'[r].job = acc'[r].at
      /\ acc'[r].at = "refreshing" => acc'[r].token \in AccTokens
      /\ acc[r].at \notin {"write", "save"} /\ acc'[r].at \notin {"write", "save"}
      /\ acc'[r].job = "remove" => acc'[r].at \notin {"wait", "breaking", "remove"}
      /\ acc'[r].at # "breaking"
  OBVIOUS
<1>4. stales = 0 => lock' # "stale"
  BY DEF AccBase, LockExcludes
<1>5. stales = 0 /\ ~unset => (lock' = "free" => Agreed)
  BY DEF AccBase, FilesInStep
<1>6. InSection(r)' => (InSection(r) /\ lock' = lock) \/ (lock = "free" /\ lock' = "held")
  BY DEF InSection
<1>7. stales = 0 /\ ~InSection(r)' =>
           (lock' = lock /\ ~InSection(r)) \/ (lock' = "free" /\ InSection(r))
  BY <1>1
<1>8. acc'[r].job = "remove" /\ acc'[r].at \in {"wait", "breaking", "remove"} =>
        acc'[r].token \in AccTokens /\ grant[acc'[r].token.a] # acc'[r].token.g
  BY <1>3
<1>9. stales = 0 => lock' # "stale" /\ acc'[r].at # "breaking"
  BY <1>3, <1>4
<1>10. stales = 0 /\ ~unset => (lock' = "free" => Agreed) /\ RowInStep(r)'
  BY <1>1, <1>5
<1> HIDE DEF InSection, RowInStep
<1> QED
  BY <1>2, <1>3, <1>6, <1>7, <1>8, <1>9, <1>10, AccMoves

LEMMA GetFreshKeeps == ASSUME AccBase, NEW r \in AccRequests, GetFresh(r) PROVE AccBase'
<1>1. /\ acc \in [AccRequests -> AccRows] /\ auth \in AccTokens \cup {NoToken}
      /\ lock \in {"free", "held", "stale"} /\ acc[r].at = "new"
  BY AccTyped DEF GetFresh, AccIn
<1>2. /\ UNCHANGED <<auth, store, peers, grant, expired, newest, stales, unset>> /\ lock' = lock
  BY DEF GetFresh, accFiles, accServer
<1>3. PICK w : /\ acc' = [acc EXCEPT ![r] = w]
               /\ w \in AccRows /\ w.at \in {"done", "send", "joined", "wait"}
               /\ w.token \in {acc[r].token, auth}
               /\ w.job = "refresh" \/ w.at # "wait"
  <2>1. CASE auth = NoToken
    <3> DEFINE w == [acc[r] EXCEPT !.at = "done"]
    <3>1. acc' = [acc EXCEPT ![r] = w] /\ w \in AccRows /\ w.at = "done" /\ w.token = acc[r].token
      BY <1>1, <2>1 DEF GetFresh, AccRows, AccPlaces
    <3> HIDE DEF w
    <3> QED
      BY <3>1
  <2>2. CASE auth # NoToken /\ auth \notin expired
    <3> DEFINE w == [acc[r] EXCEPT !.at = "send", !.token = auth]
    <3>1. acc' = [acc EXCEPT ![r] = w] /\ w \in AccRows /\ w.at = "send" /\ w.token = auth
      BY <1>1, <2>2 DEF GetFresh, AccRows, AccPlaces
    <3> HIDE DEF w
    <3> QED
      BY <3>1
  <2> DEFINE led == \E q \in peers \ {r} : r \in peers /\ LeadsRefresh(q) /\ acc[q].key = auth
  <2>3. CASE auth # NoToken /\ auth \in expired /\ led
    <3> DEFINE w == [acc[r] EXCEPT !.at = "joined", !.key = auth]
    <3>1. acc' = [acc EXCEPT ![r] = w] /\ w \in AccRows /\ w.at = "joined" /\ w.token = acc[r].token
      BY <1>1, <2>3 DEF GetFresh, AccRows, AccPlaces
    <3> HIDE DEF w
    <3> QED
      BY <3>1
  <2>4. CASE auth # NoToken /\ auth \in expired /\ ~led
    <3> DEFINE w == [acc[r] EXCEPT !.at = "wait", !.job = "refresh", !.key = auth, !.tried = {}]
    <3>1. acc' = [acc EXCEPT ![r] = w]
      BY <1>1, <2>4 DEF GetFresh
    <3>2. w \in AccRows
      BY <1>1 DEF AccRows, AccPlaces, AccJobs
    <3>3. w.at = "wait" /\ w.token = acc[r].token /\ w.job = "refresh"
      BY <1>1 DEF AccRows
    <3> HIDE DEF w
    <3> QED
      BY <3>1, <3>2, <3>3
  <2> QED
    BY <2>1, <2>2, <2>3, <2>4
<1>4. acc' \in [AccRequests -> AccRows] /\ OthersStay(r) /\ acc'[r] = w
  BY <1>1, <1>3, OneRowChanges
<1> QED
  BY <1>1, <1>2, <1>3, <1>4, AccOutside

LEMMA AcquireLockKeeps == ASSUME AccBase, NEW r \in AccRequests, AcquireLock(r) PROVE AccBase'
<1>1. acc \in [AccRequests -> AccRows] /\ acc[r].at = "wait" /\ lock = "free" /\ lock' = "held"
  BY AccTyped DEF AcquireLock, AccIn
<1>2. UNCHANGED <<auth, store, peers, grant, expired, newest, stales, unset>>
  BY DEF AcquireLock, accFiles, accServer
<1>3. acc[r].job \in AccPlaces /\ acc[r].job \in {"refresh", "remove", "rotate"}
  BY <1>1 DEF AccRows, AccJobs, AccPlaces
<1>4. /\ acc' \in [AccRequests -> AccRows] /\ OthersStay(r)
      /\ acc'[r].at = acc[r].job /\ acc'[r].job = acc[r].job /\ acc'[r].token = acc[r].token
  BY <1>1, <1>3, RequestGoes DEF AcquireLock
<1>5. acc'[r].job = "remove" =>
        acc'[r].token \in AccTokens /\ grant[acc'[r].token.a] # acc'[r].token.g
  BY <1>1, <1>4 DEF AccBase, RefusedIsDead
<1>6. stales = 0 /\ ~unset => Agreed /\ (Agreed <=> Agreed')
  BY <1>1, <1>2 DEF AccBase, FilesInStep, Agreed, ActiveToken
<1>7. stales = 0 /\ ~unset => RowInStep(r)'
  BY <1>3, <1>4, <1>6 DEF RowInStep
<1>8. InSection(r)'
  BY <1>3, <1>4 DEF InSection
<1> QED
  BY <1>1, <1>2, <1>3, <1>4, <1>5, <1>7, <1>8, AccMoves

LEMMA SeesStaleKeeps == ASSUME AccBase, NEW r \in AccRequests, SeesStale(r) PROVE AccBase'
<1>1. acc \in [AccRequests -> AccRows] /\ acc[r].at = "wait" /\ lock = "stale" /\ lock' = lock
  BY AccTyped DEF SeesStale, AccIn
<1>2. UNCHANGED <<auth, store, peers, grant, expired, newest, stales, unset>>
  BY DEF SeesStale, accFiles, accServer
<1>3. /\ acc' \in [AccRequests -> AccRows] /\ OthersStay(r)
      /\ acc'[r].at = "breaking" /\ acc'[r].job = acc[r].job /\ acc'[r].token = acc[r].token
  BY <1>1, RequestGoes DEF SeesStale, AccPlaces
<1>4. acc'[r].job = "remove" =>
        acc'[r].token \in AccTokens /\ grant[acc'[r].token.a] # acc'[r].token.g
  BY <1>1, <1>3 DEF AccBase, RefusedIsDead
<1>5. stales # 0
  BY <1>1 DEF AccBase, LockExcludes
<1>6. ~InSection(r)'
  BY <1>3 DEF InSection
<1> QED
  BY <1>1, <1>2, <1>3, <1>4, <1>5, <1>6, AccMoves

LEMMA BreakLockKeeps == ASSUME AccBase, NEW r \in AccRequests, BreakLock(r) PROVE AccBase'
<1>1. acc \in [AccRequests -> AccRows] /\ acc[r].at = "breaking" /\ lock' = "free"
  BY AccTyped DEF BreakLock, AccIn, Unlock
<1>2. UNCHANGED <<auth, store, peers, grant, expired, newest, stales, unset>>
  BY DEF BreakLock, accFiles, accServer
<1>3. /\ acc' \in [AccRequests -> AccRows] /\ OthersStay(r)
      /\ acc'[r].at = "wait" /\ acc'[r].job = acc[r].job /\ acc'[r].token = acc[r].token
  BY <1>1, RequestGoes DEF BreakLock, AccPlaces
<1>4. acc'[r].job = "remove" =>
        acc'[r].token \in AccTokens /\ grant[acc'[r].token.a] # acc'[r].token.g
  BY <1>1, <1>3 DEF AccBase, RefusedIsDead
<1>5. stales # 0
  BY <1>1 DEF AccBase, LockExcludes
<1>6. ~InSection(r)'
  BY <1>3 DEF InSection
<1> QED
  BY <1>1, <1>2, <1>3, <1>4, <1>5, <1>6, AccMoves

LEMMA LockTimesOutKeeps == ASSUME AccBase, NEW r \in AccRequests, LockTimesOut(r) PROVE AccBase'
<1>1. /\ acc \in [AccRequests -> AccRows] /\ acc[r].at = "wait" /\ lock # "free" /\ lock' = lock
      /\ lock \in {"free", "held", "stale"}
  BY AccTyped DEF LockTimesOut, AccIn
<1>2. UNCHANGED <<auth, store, peers, grant, expired, newest, stales, unset>>
  BY DEF LockTimesOut, accFiles, accServer
<1>3. /\ acc' \in [AccRequests -> AccRows] /\ OthersStay(r)
      /\ acc'[r].at = "failed" /\ acc'[r].job = acc[r].job /\ acc'[r].token = NoToken
  BY <1>1, RefreshEnds DEF LockTimesOut
<1> QED
  BY <1>1, <1>2, <1>3, AccOutside

LEMMA SendToApiKeeps == ASSUME AccBase, NEW r \in AccRequests, SendToApi(r) PROVE AccBase'
<1>1. /\ acc \in [AccRequests -> AccRows] /\ acc[r].at = "send" /\ lock' = lock
      /\ UNCHANGED <<auth, store, peers, grant, expired, newest, stales, unset>>
  BY AccTyped DEF SendToApi, AccIn, accFiles, accServer
<1>2. CASE AccGoes(r, "done")
  <2>1. /\ acc' \in [AccRequests -> AccRows] /\ OthersStay(r)
        /\ acc'[r].at = "done" /\ acc'[r].token = acc[r].token
    BY <1>1, <1>2, RequestGoes DEF AccPlaces
  <2> QED
    BY <1>1, <2>1, AccOutside
<1>3. CASE acc' = [acc EXCEPT ![r].at = "wait", ![r].job = "rotate"]
  <2> DEFINE w == [acc[r] EXCEPT !.at = "wait", !.job = "rotate"]
  <2>1. acc' = [acc EXCEPT ![r] = w]
    BY <1>1, <1>3
  <2>2. w \in AccRows
    BY <1>1 DEF AccRows, AccPlaces, AccJobs
  <2>3. w.at = "wait" /\ w.job = "rotate" /\ w.token = acc[r].token
    BY <1>1 DEF AccRows
  <2> HIDE DEF w
  <2>4. /\ acc' \in [AccRequests -> AccRows] /\ OthersStay(r)
        /\ acc'[r].at = "wait" /\ acc'[r].job = "rotate" /\ acc'[r].token = acc[r].token
    BY <1>1, <2>1, <2>2, <2>3, OneRowChanges
  <2> QED
    BY <1>1, <2>4, AccOutside
<1> QED
  BY <1>2, <1>3 DEF SendToApi

LEMMA RefreshTokenKeeps == ASSUME AccBase, NEW r \in AccRequests, RefreshToken(r) PROVE AccBase'
<1>1. /\ acc \in [AccRequests -> AccRows] /\ acc[r].at = "refresh" /\ acc[r].job = "refresh"
      /\ UNCHANGED <<auth, store, peers, grant, expired, newest, stales, unset>>
      /\ auth \in AccTokens \cup {NoToken} /\ expired \subseteq AccTokens /\ InSection(r)
      /\ lock \in {"free", "held", "stale"}
  BY AccTyped DEF RefreshToken, AccIn, accFiles, accServer, AccBase, JobsMatch, AccTypes, InSection
<1>2. stales = 0 /\ ~unset => Agreed /\ (Agreed <=> Agreed')
  BY <1>1 DEF AccBase, FilesInStep, Agreed, ActiveToken
<1>3. ASSUME NEW place \in {"send", "failed"}, NEW token \in {auth, NoToken},
             RefreshOutcome(r, place, token), Unlock
      PROVE  AccBase'
  <2>1. /\ acc' \in [AccRequests -> AccRows] /\ OthersStay(r)
        /\ acc'[r].at = place /\ acc'[r].job = "refresh" /\ acc'[r].token = token
    BY <1>1, <1>3, RefreshEnds
  <2>2. lock' = "free" /\ ~InSection(r)' /\ RowInStep(r)'
    BY <1>3, <2>1 DEF Unlock, InSection, RowInStep
  <2> QED
    BY <1>1, <1>2, <2>1, <2>2, AccMoves
<1>4. CASE /\ auth \in expired \ acc[r].tried /\ lock' = lock
           /\ acc' = [acc EXCEPT ![r].at = "refreshing", ![r].token = auth,
                                         ![r].tried = @ \cup {auth}]
  <2> DEFINE w == [acc[r] EXCEPT !.at = "refreshing", !.token = auth, !.tried = @ \cup {auth}]
  <2>1. acc' = [acc EXCEPT ![r] = w]
    BY <1>1, <1>4
  <2>2. w \in AccRows
    BY <1>1, <1>4 DEF AccRows, AccPlaces
  <2>3. w.at = "refreshing" /\ w.job = "refresh" /\ w.token = auth
    BY <1>1 DEF AccRows
  <2> HIDE DEF w
  <2>4. /\ acc' \in [AccRequests -> AccRows] /\ OthersStay(r)
        /\ acc'[r].at = "refreshing" /\ acc'[r].job = "refresh" /\ acc'[r].token = auth
    BY <1>1, <2>1, <2>2, <2>3, OneRowChanges
  <2>5. InSection(r)' /\ auth \in AccTokens
    BY <1>1, <1>4, <2>4 DEF InSection
  <2>6. stales = 0 /\ ~unset => RowInStep(r)'
    BY <1>1, <1>2, <2>4 DEF RowInStep
  <2>7. stales = 0 => lock' # "stale"
    BY <1>4 DEF AccBase, LockExcludes
  <2>8. lock' \in {"free", "held", "stale"} /\ lock' = lock
    BY <1>1, <1>4
  <2> QED
    BY <1>1, <1>2, <2>4, <2>5, <2>6, <2>7, <2>8, AccMoves
<1> QED
  BY <1>3, <1>4 DEF RefreshToken

LEMMA RefreshRefusedKeeps == ASSUME AccBase, NEW r \in AccRequests, RefreshRefused(r) PROVE AccBase'
<1>1. /\ acc \in [AccRequests -> AccRows] /\ acc[r].at = "refreshing"
      /\ UNCHANGED <<auth, store, peers, grant, expired, newest, stales, unset>>
      /\ lock' = "free" /\ InSection(r)
  BY AccTyped DEF RefreshRefused, AccIn, accFiles, accServer, Unlock, InSection
<1>2. acc[r].token \in AccTokens /\ grant[acc[r].token.a] # acc[r].token.g
  BY <1>1 DEF RefreshRefused, EndpointAccepts, AccBase, HasToken, RowHasToken
<1> DEFINE w == [acc[r] EXCEPT !.at = "wait", !.job = "remove"]
<1>3. acc' = [acc EXCEPT ![r] = w]
  BY <1>1 DEF RefreshRefused
<1>4. w \in AccRows
  BY <1>1 DEF AccRows, AccPlaces, AccJobs
<1>5. w.at = "wait" /\ w.job = "remove" /\ w.token = acc[r].token
  BY <1>1 DEF AccRows
<1> HIDE DEF w
<1>6. /\ acc' \in [AccRequests -> AccRows] /\ OthersStay(r)
      /\ acc'[r].at = "wait" /\ acc'[r].job = "remove" /\ acc'[r].token = acc[r].token
  BY <1>1, <1>3, <1>4, <1>5, OneRowChanges
<1>7. stales = 0 /\ ~unset => Agreed
  BY <1>1 DEF AccBase, FilesInStep
<1>8. ~InSection(r)' /\ RowInStep(r)'
  BY <1>6 DEF InSection, RowInStep
<1> QED
  BY <1>1, <1>2, <1>6, <1>7, <1>8, AccMoves

LEMMA RequestsMove ==
  ASSUME AccBase, NEW r \in AccRequests,
         \/ GetFresh(r) \/ AcquireLock(r) \/ SeesStale(r) \/ BreakLock(r) \/ LockTimesOut(r)
         \/ RefreshToken(r) \/ RefreshRefused(r) \/ SendToApi(r)
  PROVE  AccBase'
  BY GetFreshKeeps, AcquireLockKeeps, SeesStaleKeeps, BreakLockKeeps, LockTimesOutKeeps,
     RefreshTokenKeeps, RefreshRefusedKeeps, SendToApiKeeps

LEMMA TokenExpiresKeeps == ASSUME AccBase, NEW token \in AccTokens, TokenExpires(token) PROVE AccBase'
<1>1. /\ UNCHANGED <<auth, store, lock, acc, peers, grant, newest, stales, unset>>
      /\ expired' = expired \cup {token}
  BY DEF TokenExpires, accFiles
<1>2. AccTypes'
  BY <1>1 DEF AccBase, AccTypes
<1>3. TokensDelivered' /\ NewestGranted' /\ JobsMatch' /\ HasToken' /\ RefusedIsDead'
  BY <1>1 DEF AccBase, TokensDelivered, Delivered, NewestGranted, JobsMatch, HasToken, RefusedIsDead
<1>4. LockExcludes' /\ RefreshedIsNewest'
  BY <1>1 DEF AccBase, LockExcludes, InSection, RefreshedIsNewest, Refreshed
<1>5. FilesInStep'
  BY <1>1 DEF AccBase, FilesInStep, Agreed, ActiveToken
<1>6. NewestInPool'
  BY <1>1 DEF AccBase, NewestInPool, Refreshed, Kept
<1> QED
  BY <1>2, <1>3, <1>4, <1>5, <1>6 DEF AccBase

LEMMA AccStays ==
  ASSUME AccBase, UNCHANGED <<auth, store, lock, acc, peers, grant, expired, newest, stales, unset>>
  PROVE  AccBase'
<1>1. UNCHANGED <<auth, store, lock, acc, peers, grant, expired, newest, stales, unset>>
  OBVIOUS
<1>2. AccTypes'
  BY <1>1 DEF AccBase, AccTypes
<1>3. TokensDelivered' /\ NewestGranted' /\ JobsMatch' /\ HasToken' /\ RefusedIsDead'
  BY <1>1 DEF AccBase, TokensDelivered, Delivered, NewestGranted, JobsMatch, HasToken, RefusedIsDead
<1>4. LockExcludes' /\ RefreshedIsNewest'
  BY <1>1 DEF AccBase, LockExcludes, InSection, RefreshedIsNewest, Refreshed
<1>5. FilesInStep'
  BY <1>1 DEF AccBase, FilesInStep, Agreed, ActiveToken
<1>6. NewestInPool'
  BY <1>1 DEF AccBase, NewestInPool, Refreshed, Kept
<1> QED
  BY <1>2, <1>3, <1>4, <1>5, <1>6 DEF AccBase

\* From here on sections may overlap.
LEMMA TurnsStaleKeeps == ASSUME AccBase, TurnsStale PROVE AccBase'
<1>1. /\ UNCHANGED <<auth, store, acc, peers, grant, expired, newest, unset>> /\ lock' = "stale"
      /\ stales' = stales + 1 /\ stales < MaxStale /\ stales \in 0 .. MaxStale /\ MaxStale \in Nat
  BY AccAssumption DEF TurnsStale, accFiles, accServer, AccBase, AccTypes
<1>2. stales' # 0 /\ stales' \in 0 .. MaxStale
  BY <1>1
<1>3. AccTypes'
  BY <1>1, <1>2 DEF AccBase, AccTypes
<1>4. TokensDelivered' /\ NewestGranted' /\ JobsMatch' /\ HasToken' /\ RefusedIsDead'
  BY <1>1 DEF AccBase, TokensDelivered, Delivered, NewestGranted, JobsMatch, HasToken, RefusedIsDead
<1>5. LockExcludes' /\ RefreshedIsNewest' /\ FilesInStep' /\ NewestInPool'
  BY <1>2 DEF LockExcludes, RefreshedIsNewest, FilesInStep, NewestInPool
<1> QED
  BY <1>3, <1>4, <1>5 DEF AccBase

\* In a section the lock is held, as long as no section outlived it.
LEMMA SectionHolds ==
  ASSUME AccBase, NEW r \in AccRequests, InSection(r)
  PROVE  stales = 0 => lock = "held"
  BY AccTyped DEF AccBase, LockExcludes

LEMMA RefreshSucceedsKeeps == ASSUME AccBase, NEW r \in AccRequests, RefreshSucceeds(r) PROVE AccBase'
<1> DEFINE old == acc[r].token
           token == [old EXCEPT !.g = @ + 1]
           w == [acc[r] EXCEPT !.at = "write", !.token = token]
<1>1. /\ acc \in [AccRequests -> AccRows] /\ acc[r].at = "refreshing" /\ acc[r].job = "refresh"
      /\ old \in AccTokens /\ grant[old.a] = old.g /\ old.g < MaxGrants /\ InSection(r)
  BY AccTyped DEF RefreshSucceeds, AccIn, EndpointAccepts, AccBase, JobsMatch, HasToken, RowHasToken,
                  InSection
<1>2. /\ grant \in [AccAccounts -> 0 .. MaxGrants] /\ newest \in [AccAccounts -> 1 .. MaxGrants]
      /\ MaxGrants \in Nat /\ old.a \in AccAccounts /\ old.g \in 1 .. MaxGrants
      /\ \A t \in AccTokens : t.a \in AccAccounts /\ t.g \in 1 .. MaxGrants
      /\ NoToken \notin AccTokens
  BY <1>1, AccTyped
<1>3. token \in AccTokens /\ token.a = old.a /\ token.g = old.g + 1
  BY <1>1, <1>2 DEF AccTokens
<1>4. /\ grant' = [grant EXCEPT ![old.a] = old.g + 1]
      /\ newest' = [newest EXCEPT ![old.a] = old.g + 1]
      /\ acc' = [acc EXCEPT ![r] = w]
      /\ UNCHANGED <<auth, store, lock, peers, expired, stales, unset>>
  BY <1>1, <1>3 DEF RefreshSucceeds, NextToken, accFiles
<1>5. w \in AccRows
  BY <1>1, <1>3 DEF AccRows, AccPlaces
<1>6. w.at = "write" /\ w.job = "refresh" /\ w.token = token
  BY <1>1 DEF AccRows
<1> HIDE DEF w, token, old
<1>7. /\ acc' \in [AccRequests -> AccRows] /\ OthersStay(r)
      /\ acc'[r].at = "write" /\ acc'[r].job = "refresh" /\ acc'[r].token = token
  BY <1>1, <1>4, <1>5, <1>6, OneRowChanges
<1>8. /\ grant' \in [AccAccounts -> 0 .. MaxGrants] /\ newest' \in [AccAccounts -> 1 .. MaxGrants]
      /\ grant'[old.a] = old.g + 1 /\ newest'[old.a] = old.g + 1
      /\ \A a \in AccAccounts : a # old.a => grant'[a] = grant[a] /\ newest'[a] = newest[a]
  BY <1>1, <1>2, <1>4
<1>9. newest[old.a] <= old.g
  BY <1>1, <1>2 DEF AccBase, NewestGranted
<1>10. \A a \in AccAccounts : newest'[a] \in Nat /\ newest[a] <= newest'[a]
  BY <1>2, <1>8, <1>9
<1>11. AccTypes'
  BY <1>4, <1>7, <1>8 DEF AccBase, AccTypes, AccRows
<1>12. /\ JobsMatch' /\ HasToken' /\ RefusedIsDead'
       /\ \A q \in AccRequests : acc'[q].token \in AccTokens =>
            acc'[q].token.g <= newest'[acc'[q].token.a]
  <2>1. \A t \in AccTokens : t.g <= newest[t.a] /\ grant[t.a] # t.g => grant'[t.a] # t.g
    BY <1>2, <1>8, <1>9
  <2>2. acc'[r].token \in AccTokens => acc'[r].token.g <= newest'[acc'[r].token.a]
    BY <1>2, <1>3, <1>7, <1>8
  <2>3. RowHasToken(acc'[r])
    BY <1>3, <1>7 DEF RowHasToken
  <2> QED
    BY <1>3, <1>7, <1>10, <2>1, <2>2, <2>3, RowsFit
<1>13. TokensDelivered'
  <2>1. \A t \in AccTokens : t.g <= newest[t.a] => t.g <= newest'[t.a]
    BY <1>2, <1>10
  <2>2. Delivered(auth) /\ \A i \in 1 .. Len(store.accounts) : Delivered(store.accounts[i])
    BY DEF AccBase, TokensDelivered
  <2> QED
    BY <1>4, <1>12, <2>1, <2>2 DEF TokensDelivered, Delivered
<1>14. NewestGranted'
  BY <1>2, <1>8 DEF AccBase, NewestGranted
<1>15. InSection(r)'
  BY <1>7 DEF InSection
<1>16. LockExcludes'
  <2>1. stales = 0 => lock' # "stale" /\ acc'[r].at # "breaking"
    BY <1>4, <1>7 DEF AccBase, LockExcludes
  <2> QED
    BY <1>1, <1>4, <1>7, <1>15, <2>1, LockFits
<1>17. FilesInStep'
  <2>1. stales = 0 /\ ~unset => Agreed /\ auth = old
    BY <1>1 DEF AccBase, FilesInStep, old
  <2>2. stales = 0 /\ ~unset => Agreed' /\ auth' # NoToken
    BY <1>1, <1>2, <1>4, <2>1 DEF Agreed, ActiveToken
  <2>3. stales = 0 /\ ~unset' => (lock' = "free" => Agreed') /\ RowInStep(r)'
    BY <1>4, <1>7, <2>2 DEF RowInStep
  <2> QED
    BY <1>4, <1>7, <1>16, <2>3, FilesFit
<1>18. RefreshedIsNewest'
  BY <1>1, <1>3, <1>4, <1>7, <1>8, NewestFits
<1>19. NewestInPool'
  <2>1. ~Refreshed(r) /\ Refreshed(r)' /\ acc'[r].token.a = old.a
    BY <1>1, <1>3, <1>7 DEF Refreshed
  <2>2. \A a \in AccAccounts : grant'[a] = newest'[a] =>
          \/ grant[a] = newest[a] /\ newest'[a] = newest[a]
          \/ Refreshed(r)' /\ acc'[r].token.a = a
    BY <1>8, <2>1
  <2> QED
    BY <1>4, <1>7, <2>1, <2>2, PoolFits
<1> QED
  BY <1>11, <1>12, <1>13, <1>14, <1>16, <1>17, <1>18, <1>19 DEF AccBase

LEMMA RefreshFailsKeeps == ASSUME AccBase, NEW r \in AccRequests, RefreshFails(r) PROVE AccBase'
<1> DEFINE old == acc[r].token
<1>1. /\ acc \in [AccRequests -> AccRows] /\ acc[r].at = "refreshing"
      /\ old \in AccTokens /\ InSection(r) /\ lock' = "free"
      /\ UNCHANGED <<auth, store, peers, expired, newest, stales, unset>>
  BY AccTyped DEF RefreshFails, AccIn, AccBase, HasToken, RowHasToken, InSection, Unlock, accFiles
<1>2. /\ grant \in [AccAccounts -> 0 .. MaxGrants] /\ newest \in [AccAccounts -> 1 .. MaxGrants]
      /\ MaxGrants \in Nat /\ old.a \in AccAccounts /\ old.g \in 1 .. MaxGrants
      /\ \A t \in AccTokens : t.a \in AccAccounts /\ t.g \in 1 .. MaxGrants
      /\ NoToken \notin AccTokens
  BY <1>1, AccTyped
<1>3. \/ grant' = grant
      \/ /\ grant[old.a] = old.g /\ old.g < MaxGrants
         /\ grant' = [grant EXCEPT ![old.a] = old.g + 1]
  BY <1>1, <1>2 DEF RefreshFails, EndpointAccepts
<1>4. /\ acc' \in [AccRequests -> AccRows] /\ OthersStay(r)
      /\ acc'[r].at = "failed" /\ acc'[r].token = NoToken
  BY <1>1, RefreshEnds DEF RefreshFails
<1> HIDE DEF old
<1>5. grant' \in [AccAccounts -> 0 .. MaxGrants]
  BY <1>2, <1>3
<1>6. ASSUME NEW a \in AccAccounts
      PROVE  grant'[a] = grant[a] \/ (a = old.a /\ newest[a] <= grant[a] /\ grant'[a] = grant[a] + 1)
  BY <1>2, <1>3 DEF AccBase, NewestGranted
<1>7. AccTypes'
  BY <1>1, <1>4, <1>5 DEF AccBase, AccTypes, AccRows
<1>8. /\ JobsMatch' /\ HasToken' /\ RefusedIsDead'
      /\ \A q \in AccRequests : acc'[q].token \in AccTokens =>
           acc'[q].token.g <= newest'[acc'[q].token.a]
  <2>1. \A t \in AccTokens : t.g <= newest[t.a] /\ grant[t.a] # t.g => grant'[t.a] # t.g
    <3> TAKE t \in AccTokens
    <3>1. /\ t.a \in AccAccounts /\ t.g \in Nat /\ newest[t.a] \in Nat /\ grant[t.a] \in Nat
          /\ grant'[t.a] = grant[t.a] \/ (newest[t.a] <= grant[t.a] /\ grant'[t.a] = grant[t.a] + 1)
      BY <1>2, <1>6
    <3> QED
      BY <3>1
  <2>2. \A a \in AccAccounts : newest'[a] \in Nat /\ newest[a] <= newest'[a]
    BY <1>1, <1>2
  <2>3. RowHasToken(acc'[r])
    BY <1>4 DEF RowHasToken
  <2> QED
    BY <1>2, <1>4, <2>1, <2>2, <2>3, RowsFit
<1>9. TokensDelivered'
  BY <1>1, <1>8 DEF AccBase, TokensDelivered, Delivered
<1>10. NewestGranted'
  <2> SUFFICES ASSUME NEW a \in AccAccounts PROVE grant'[a] = 0 \/ newest[a] <= grant'[a]
    BY <1>1 DEF NewestGranted
  <2>1. grant[a] \in Nat /\ newest[a] \in Nat /\ (grant[a] = 0 \/ newest[a] <= grant[a])
    BY <1>2 DEF AccBase, NewestGranted
  <2> QED
    BY <1>6, <2>1
<1>11. ~InSection(r)' /\ ~Refreshed(r) /\ ~Refreshed(r)' /\ RowInStep(r)'
  BY <1>1, <1>4 DEF InSection, Refreshed, RowInStep
<1>12. LockExcludes'
  BY <1>1, <1>4, <1>11, LockFits
<1>13. FilesInStep'
  <2>1. stales = 0 /\ ~unset => Agreed'
    BY <1>1 DEF AccBase, FilesInStep, Agreed, ActiveToken
  <2> QED
    BY <1>1, <1>4, <1>11, <1>12, <2>1, FilesFit
<1>14. RefreshedIsNewest'
  BY <1>1, <1>4, <1>11, NewestFits
<1>15. NewestInPool'
  <2>1. \A a \in AccAccounts : grant'[a] = newest'[a] => grant[a] = newest[a] /\ newest'[a] = newest[a]
    <3> TAKE a \in AccAccounts
    <3>1. grant[a] \in Nat /\ newest[a] \in Nat /\ newest'[a] = newest[a]
      BY <1>1, <1>2
    <3> QED
      BY <1>6, <3>1
  <2> QED
    BY <1>1, <1>4, <1>11, <2>1, PoolFits
<1> QED
  BY <1>7, <1>8, <1>9, <1>10, <1>12, <1>13, <1>14, <1>15 DEF AccBase

\* A section writes auth.json, and the store stays as it is.
LEMMA AuthWritten ==
  ASSUME AccBase, NEW r \in AccRequests, acc[r].at = "write", auth' = acc[r].token,
         OthersStay(r), acc' \in [AccRequests -> AccRows],
         UNCHANGED <<store, peers, grant, expired, newest, stales>>,
         unset' \in BOOLEAN, unset => unset',
         acc'[r].token \in {acc[r].token, NoToken},
         \/ /\ acc'[r].at = "save" /\ acc[r].job = "refresh" /\ acc'[r].job = "refresh"
            /\ acc'[r].token = acc[r].token /\ lock' = lock
         \/ acc'[r].at \in {"send", "failed", "new"} /\ lock' = "free"
         \/ acc'[r].at = "wait" /\ acc'[r].job # "remove" /\ lock' = "free",
         stales = 0 /\ ~unset' =>
           /\ lock' = "free" => Agreed'
           /\ acc'[r].at = "save" => store.accounts # <<>>
           /\ Refreshed(r) => acc'[r].at = "save"
  PROVE  AccBase'
<1>1. /\ acc[r].token \in AccTokens \cup {NoToken} /\ InSection(r)
      /\ lock \in {"free", "held", "stale"} /\ NoToken \notin AccTokens
      /\ newest \in [AccAccounts -> 1 .. MaxGrants] /\ MaxGrants \in Nat
  BY AccTyped DEF AccRows, InSection
<1>2. acc'[r].at \in {"save", "send", "failed", "new", "wait"}
  OBVIOUS
<1>3. AccTypes'
  BY <1>1 DEF AccBase, AccTypes, AccRows
<1>4. acc[r].token \in AccTokens => acc[r].token.g <= newest[acc[r].token.a]
  BY <1>1 DEF AccBase, TokensDelivered, Delivered
<1>5. /\ JobsMatch' /\ HasToken' /\ RefusedIsDead'
      /\ \A q \in AccRequests : acc'[q].token \in AccTokens =>
           acc'[q].token.g <= newest'[acc'[q].token.a]
  <2>1. \A a \in AccAccounts : newest'[a] \in Nat /\ newest[a] <= newest'[a]
    BY <1>1
  <2>2. \A t \in AccTokens : t.g <= newest[t.a] /\ grant[t.a] # t.g => grant'[t.a] # t.g
    OBVIOUS
  <2>3. acc'[r].token \in AccTokens => acc'[r].token.g <= newest'[acc'[r].token.a]
    BY <1>1, <1>4
  <2>4. RowHasToken(acc'[r])
    BY <1>1 DEF AccBase, HasToken, RowHasToken
  <2>5. /\ acc'[r].at \in {"refresh", "refreshing", "save"} => acc'[r].job = "refresh"
        /\ acc'[r].at \notin {"remove", "rotate"}
        /\ ~(acc'[r].job = "remove" /\ acc'[r].at \in {"wait", "breaking", "remove"})
    BY <1>1
  <2> QED
    BY <2>1, <2>2, <2>3, <2>4, <2>5, RowsFit
<1>6. TokensDelivered' /\ NewestGranted'
  BY <1>1, <1>4, <1>5 DEF AccBase, TokensDelivered, Delivered, NewestGranted
<1>7. InSection(r)' <=> acc'[r].at = "save"
  BY <1>2 DEF InSection
<1>8. stales = 0 => lock = "held"
  BY <1>1, SectionHolds
<1>9. LockExcludes'
  <2>1. stales = 0 => lock' # "stale" /\ acc'[r].at # "breaking"
    BY <1>2, <1>8
  <2>2. InSection(r)' => (InSection(r) /\ lock' = lock) \/ (lock = "free" /\ lock' = "held")
    BY <1>1, <1>7
  <2>3. stales = 0 /\ ~InSection(r)' =>
           (lock' = lock /\ ~InSection(r)) \/ (lock' = "free" /\ InSection(r))
    BY <1>1, <1>7
  <2> QED
    BY <2>1, <2>2, <2>3, LockFits
<1>10. FilesInStep'
  <2>1. stales = 0 /\ ~unset' => RowInStep(r)'
    BY <1>2 DEF RowInStep
  <2> QED
    BY <1>1, <1>9, <2>1, FilesFit
<1>11. RefreshedIsNewest'
  <2>1. stales = 0 /\ Refreshed(r)' => newest'[acc'[r].token.a] = acc'[r].token.g
    <3> SUFFICES ASSUME stales = 0, Refreshed(r)' PROVE newest'[acc'[r].token.a] = acc'[r].token.g
      OBVIOUS
    <3>1. acc'[r].at = "save" /\ acc'[r].token = acc[r].token /\ acc[r].job = "refresh"
      BY <1>2 DEF Refreshed
    <3>2. Refreshed(r)
      BY <3>1 DEF Refreshed
    <3> QED
      BY <3>1, <3>2 DEF AccBase, RefreshedIsNewest
  <2> QED
    BY <2>1, NewestFits
<1>12. NewestInPool'
  <2>1. stales = 0 /\ ~unset' /\ Refreshed(r) => Refreshed(r)' /\ acc'[r].token = acc[r].token
    BY DEF Refreshed
  <2> QED
    BY <2>1, PoolFits
<1> QED
  BY <1>3, <1>5, <1>6, <1>9, <1>10, <1>11, <1>12 DEF AccBase

LEMMA WriteAuthKeeps == ASSUME AccBase, NEW r \in AccRequests, WriteAuth(r) PROVE AccBase'
<1>1. /\ acc \in [AccRequests -> AccRows] /\ acc[r].at = "write" /\ auth' = acc[r].token
      /\ UNCHANGED <<store, peers, grant, expired, newest, stales, unset>>
      /\ acc[r].token \in AccTokens \cup {NoToken} /\ acc[r].job \in AccJobs /\ unset \in BOOLEAN
  BY AccTyped DEF WriteAuth, AccIn, accServer, accCopies, AccBase, AccRows, AccTypes
<1>2. stales = 0 /\ ~unset =>
        IF acc[r].job = "refresh" THEN auth = ActiveToken /\ auth # NoToken
        ELSE acc[r].token = ActiveToken
  BY <1>1 DEF AccBase, FilesInStep, Agreed
<1>3. CASE acc[r].job = "refresh"
  <2>1. AccGoes(r, "save") /\ lock' = lock
    BY <1>1, <1>3 DEF WriteAuth, AccJobs
  <2>2. /\ acc' \in [AccRequests -> AccRows] /\ OthersStay(r)
        /\ acc'[r].at = "save" /\ acc'[r].job = acc[r].job /\ acc'[r].token = acc[r].token
    BY <1>1, <2>1, RequestGoes DEF AccPlaces
  <2>3. stales = 0 => lock' # "free"
    BY <1>1, <2>1, SectionHolds DEF InSection
  <2>4. stales = 0 /\ ~unset => store.accounts # <<>>
    BY <1>2, <1>3 DEF ActiveToken
  <2> QED
    BY <1>1, <1>3, <2>1, <2>2, <2>3, <2>4, AuthWritten
<1>4. CASE acc[r].job = "remove" /\ acc[r].token = NoToken
  <2>1. RefreshOutcome(r, "failed", NoToken) /\ lock' = "free"
    BY <1>1, <1>4 DEF WriteAuth, Unlock
  <2>2. /\ acc' \in [AccRequests -> AccRows] /\ OthersStay(r)
        /\ acc'[r].at = "failed" /\ acc'[r].token = NoToken
    BY <1>1, <2>1, RefreshEnds
  <2>3. stales = 0 /\ ~unset' => Agreed'
    BY <1>1, <1>2, <1>4 DEF Agreed, ActiveToken
  <2>4. ~Refreshed(r)
    BY <1>4 DEF Refreshed
  <2> QED
    BY <1>1, <2>1, <2>2, <2>3, <2>4, AuthWritten
<1>5. CASE acc[r].job = "rotate" \/ (acc[r].job = "remove" /\ acc[r].token # NoToken)
  <2>1. lock' = "free"
    BY <1>1, <1>5 DEF WriteAuth, Unlock
  <2>2. /\ acc' \in [AccRequests -> AccRows] /\ OthersStay(r) /\ acc'[r].token = acc[r].token
        /\ acc'[r].at = "new" \/ (acc'[r].at = "wait" /\ acc'[r].job = "refresh")
    <3>1. CASE acc[r].job = "remove" /\ acc[r].token # NoToken
      <4> DEFINE w == [acc[r] EXCEPT !.at = "wait", !.job = "refresh"]
      <4>1. acc' = [acc EXCEPT ![r] = w]
        BY <1>1, <3>1 DEF WriteAuth
      <4>2. w \in AccRows
        BY <1>1 DEF AccRows, AccPlaces, AccJobs
      <4>3. w.at = "wait" /\ w.job = "refresh" /\ w.token = acc[r].token
        BY <1>1 DEF AccRows
      <4> HIDE DEF w
      <4> QED
        BY <1>1, <4>1, <4>2, <4>3, OneRowChanges
    <3>2. CASE acc[r].job = "rotate"
      <4> DEFINE w == [acc[r] EXCEPT !.at = "new", !.again = TRUE]
      <4>1. acc' = [acc EXCEPT ![r] = w]
        BY <1>1, <3>2 DEF WriteAuth
      <4>2. w \in AccRows
        BY <1>1 DEF AccRows, AccPlaces
      <4>3. w.at = "new" /\ w.token = acc[r].token
        BY <1>1 DEF AccRows
      <4> HIDE DEF w
      <4> QED
        BY <1>1, <4>1, <4>2, <4>3, OneRowChanges
    <3> QED
      BY <1>5, <3>1, <3>2
  <2>3. stales = 0 /\ ~unset' => Agreed'
    BY <1>1, <1>2, <1>5 DEF Agreed, ActiveToken
  <2>4. ~Refreshed(r)
    BY <1>5 DEF Refreshed
  <2> QED
    BY <1>1, <2>1, <2>2, <2>3, <2>4, AuthWritten
<1> QED
  BY <1>1, <1>3, <1>4, <1>5 DEF AccJobs

LEMMA AuthSetFailsKeeps == ASSUME AccBase, NEW r \in AccRequests, AuthSetFails(r) PROVE AccBase'
<1>1. /\ acc \in [AccRequests -> AccRows] /\ acc[r].at = "write" /\ auth' = acc[r].token
      /\ UNCHANGED <<store, peers, grant, expired, newest, stales>> /\ unset' = TRUE
      /\ lock' = "free"
  BY AccTyped DEF AuthSetFails, AccIn, accServer, accCopies, Unlock
<1>2. /\ acc' \in [AccRequests -> AccRows] /\ OthersStay(r)
      /\ acc'[r].at = "failed" /\ acc'[r].token = NoToken
  BY <1>1, RefreshEnds DEF AuthSetFails
<1> QED
  BY <1>1, <1>2, AuthWritten

-----------------------------------------------------------------------------
(* AccountPool: the store and its loaded copies *)

Listed(s) == 1 .. Len(s.accounts)
Entries == Listed(store)

\* A copy holds delivered tokens, and is the store as long as no section outlived
\* its lock.
CopiesTyped ==
  DOMAIN pool = AccRequests /\ \A r \in AccRequests : pool[r] = NotLoaded \/ PoolOK(pool[r])
AllDelivered(s) == \A i \in Listed(s) : Delivered(s.accounts[i])
CopiesDelivered == \A r \in AccRequests : pool[r] # NotLoaded => AllDelivered(pool[r])
Loads(r) == acc[r].at \in {"save", "remove", "rotate"}
CopiesFresh ==
  stales = 0 => \A r \in AccRequests : pool[r] # NotLoaded => Loads(r) /\ pool[r] = store
CopiesInv == CopiesTyped /\ CopiesDelivered /\ CopiesFresh

AccInv == AccBase /\ CopiesInv

LEMMA CopyLoaded ==
  ASSUME AccInv, NEW r \in AccRequests, pool[r] # NotLoaded
  PROVE  /\ PoolOK(pool[r]) /\ AllDelivered(pool[r])
         /\ stales = 0 => pool[r] = store
  BY DEF AccInv, CopiesInv, CopiesTyped, CopiesDelivered, CopiesFresh

\* upsertAccount makes the token the active entry and drops at most one entry,
\* of the token's account.
LEMMA Upserted ==
  ASSUME NEW from, PoolOK(from), NEW token \in AccTokens, NEW old,
         NEW to, to = UpsertAccount(from, token, old)
  PROVE  /\ to \in [accounts : Seq(AccTokens), active : Nat]
         /\ to.active \in Listed(to) /\ to.accounts[to.active] = token
         /\ to.accounts # <<>>
         /\ \A j \in Listed(to) : \/ to.accounts[j] = token
                                \/ \E i \in Listed(from) : to.accounts[j] = from.accounts[i]
         /\ \A i \in Listed(from) : \/ from.accounts[i].a = token.a
                               \/ \E j \in Listed(to) : to.accounts[j] = from.accounts[i]
<1> DEFINE s == from.accounts
           known == token.a \in AccIdentified /\ AccIndices(from, LAMBDA t : t = old) # {}
           I == {i \in DOMAIN s : s[i] = token \/ (known /\ s[i].a = token.a)}
<1>1. s \in Seq(AccTokens) /\ Len(s) \in Nat /\ DOMAIN s = 1 .. Len(s)
  BY DEF PoolOK
<1>2. to = IF I = {} THEN [accounts |-> Append(s, token), active |-> Len(s) + 1]
               ELSE [accounts |-> [s EXCEPT ![FirstOf(I)] = token], active |-> FirstOf(I)]
  BY DEF UpsertAccount, AccIndices
<1> HIDE DEF known
<1>3. I \in SUBSET Nat /\ \A i \in I : i \in 1 .. Len(s) /\ s[i].a = token.a
  BY <1>1
<1> HIDE DEF I
<1>4. CASE I = {}
  <2>1. to = [accounts |-> Append(s, token), active |-> Len(s) + 1]
    BY <1>2, <1>4
  <2>2. to.accounts = Append(s, token) /\ to.active = Len(s) + 1
        /\ to = [accounts |-> Append(s, token), active |-> Len(s) + 1]
    BY <2>1
  <2>3. /\ Append(s, token) \in Seq(AccTokens) /\ Len(Append(s, token)) = Len(s) + 1
        /\ \A i \in 1 .. Len(s) : Append(s, token)[i] = s[i]
        /\ Append(s, token)[Len(s) + 1] = token
    BY <1>1, AppendProperties
  <2>4. to \in [accounts : Seq(AccTokens), active : Nat]
    BY <1>1, <2>2, <2>3
  <2>5. Listed(to) = 1 .. Len(s) + 1 /\ to.accounts # <<>>
    BY <1>1, <2>2, <2>3, EmptySeq DEF Listed
  <2> QED
    BY <1>1, <2>2, <2>3, <2>4, <2>5 DEF Listed
<1>5. CASE I # {}
  <2> DEFINE k == FirstOf(I)
  <2>1. k \in I
    <3>1. \E i \in I : \A j \in I : i <= j
      BY <1>5, <1>3, LeastNatural
    <3> QED
      BY <3>1 DEF FirstOf
  <2>2. k \in 1 .. Len(s) /\ s[k].a = token.a
    BY <1>3, <2>1
  <2>3. to = [accounts |-> [s EXCEPT ![k] = token], active |-> k]
    BY <1>2, <1>5
  <2> HIDE DEF k
  <2>4. /\ [s EXCEPT ![k] = token] \in Seq(AccTokens) /\ Len([s EXCEPT ![k] = token]) = Len(s)
        /\ \A i \in 1 .. Len(s) : [s EXCEPT ![k] = token][i] = IF i = k THEN token ELSE s[i]
    BY <1>1, <2>2, ExceptSeq
  <2>5. /\ to.accounts = [s EXCEPT ![k] = token] /\ to.active = k
        /\ to \in [accounts : Seq(AccTokens), active : Nat]
    BY <2>2, <2>3, <2>4
  <2>6. Listed(to) = 1 .. Len(s) /\ to.accounts # <<>>
    BY <1>1, <2>2, <2>4, <2>5, EmptySeq DEF Listed
  <2> QED
    BY <1>1, <2>2, <2>4, <2>5, <2>6 DEF Listed
<1> QED
  BY <1>4, <1>5

\* spliceAccountAndPromote takes out one entry and leaves an active one, if any.
LEMMA Promoted ==
  ASSUME NEW from, PoolOK(from), NEW k \in Listed(from), NEW to, to = WithoutAccount(from, k)
  PROVE  /\ to \in [accounts : Seq(AccTokens), active : Nat]
         /\ \/ to.active \in Listed(to) /\ to.accounts # <<>>
            \/ to.accounts = <<>> /\ to.active = 1
         /\ \A j \in Listed(to) : \E i \in Listed(from) : to.accounts[j] = from.accounts[i]
         /\ \A i \in Listed(from) : i = k \/ \E j \in Listed(to) : to.accounts[j] = from.accounts[i]
<1> DEFINE s == from.accounts
           rest == SubSeq(s, 1, k - 1) \o SubSeq(s, k + 1, Len(s))
           active == IF from.active > k THEN from.active - 1
                     ELSE IF from.active > Len(rest) THEN 1 ELSE from.active
<1>1. /\ s \in Seq(AccTokens) /\ Len(s) \in Nat /\ k \in 1 .. Len(s)
      /\ from.active \in 1 .. Len(s)
  BY EmptySeq DEF PoolOK, Listed
<1>2. to = [accounts |-> rest, active |-> active]
  BY DEF WithoutAccount
<1>3. /\ rest \in Seq(AccTokens) /\ Len(rest) = Len(s) - 1
      /\ \A i \in 1 .. Len(s) - 1 : rest[i] = IF i < k THEN s[i] ELSE s[i + 1]
  <2>1. rest = SubSeq(s, 1, k - 1) \o SubSeq(s, k + 1, Len(s))
    OBVIOUS
  <2>2. k \in 1 .. Len(s) /\ s \in Seq(AccTokens)
    BY <1>1
  <2> HIDE DEF rest, s, active
  <2> QED
    BY <2>1, <2>2, Spliced
<1> HIDE DEF rest
<1>4. to.accounts = rest /\ to.active = active
  <2> HIDE DEF active
  <2> QED
    BY <1>2
<1>5. active \in 1 .. Len(rest) \/ (Len(rest) = 0 /\ active = 1)
  <2>1. from.active \in Nat /\ Len(rest) \in Nat /\ k \in Nat
    BY <1>1, <1>3
  <2>2. CASE from.active > k
    BY <1>1, <1>3, <2>1, <2>2
  <2>3. CASE ~(from.active > k) /\ from.active > Len(rest)
    <3>1. active = 1
      BY <2>3
    <3> HIDE DEF active
    <3> QED
      BY <2>1, <3>1
  <2>4. CASE ~(from.active > k) /\ ~(from.active > Len(rest))
    <3>1. active = from.active /\ from.active \in 1 .. Len(s)
      BY <1>1, <2>4
    <3> HIDE DEF active
    <3> QED
      BY <2>1, <2>4, <3>1
  <2> QED
    BY <2>2, <2>3, <2>4
<1> HIDE DEF active
<1>6. to \in [accounts : Seq(AccTokens), active : Nat]
  BY <1>2, <1>3, <1>5
<1>7. \/ to.active \in Listed(to) /\ to.accounts # <<>>
      \/ to.accounts = <<>> /\ to.active = 1
  BY <1>3, <1>4, <1>5, EmptySeq DEF Listed
<1>8. Listed(to) = 1 .. Len(s) - 1
  BY <1>3, <1>4 DEF Listed
<1>9. \A j \in Listed(to) : \E i \in Listed(from) : to.accounts[j] = from.accounts[i]
  <2> TAKE j \in Listed(to)
  <2>1. j \in 1 .. Len(s) - 1 /\ j \in 1 .. Len(s) /\ j + 1 \in 1 .. Len(s)
    BY <1>1, <1>8
  <2>2. to.accounts[j] = s[j] \/ to.accounts[j] = s[j + 1]
    BY <1>3, <1>4, <2>1
  <2> QED
    BY <2>1, <2>2 DEF Listed
<1>10. ASSUME NEW i \in Listed(from), i # k
       PROVE  \E j \in Listed(to) : to.accounts[j] = from.accounts[i]
  <2>1. CASE i < k
    BY <1>1, <1>3, <1>4, <1>8, <2>1 DEF Listed
  <2>2. CASE i > k
    <3>1. i - 1 \in 1 .. Len(s) - 1 /\ rest[i - 1] = s[i]
      BY <1>1, <1>3, <2>2 DEF Listed
    <3> QED
      BY <1>4, <1>8, <3>1
  <2> QED
    BY <1>1, <1>10, <2>1, <2>2 DEF Listed
<1> QED
  BY <1>6, <1>7, <1>9, <1>10

LEMMA SaveRefreshedKeeps == ASSUME AccInv, NEW r \in AccRequests, SaveRefreshed(r) PROVE AccBase'
<1> DEFINE token == acc[r].token
           old == [token EXCEPT !.g = @ - 1]
<1>0. AccBase
  BY DEF AccInv
<1>1. /\ acc \in [AccRequests -> AccRows] /\ acc[r].at = "save" /\ acc[r].job = "refresh"
      /\ token \in AccTokens /\ token.a \in AccAccounts /\ InSection(r) /\ Refreshed(r)
      /\ UNCHANGED <<auth, peers, grant, expired, newest, stales, unset>> /\ lock' = "free"
      /\ newest \in [AccAccounts -> 1 .. MaxGrants] /\ MaxGrants \in Nat /\ NoToken \notin AccTokens
  BY <1>0, AccTyped DEF SaveRefreshed, Loaded, AccIn, accServer, Unlock, AccBase, JobsMatch, HasToken,
                        RowHasToken, InSection, Refreshed
<1>2. /\ PoolOK(pool[r]) /\ AllDelivered(pool[r]) /\ (stales = 0 => pool[r] = store)
      /\ store' = IF pool[r].accounts = <<>> THEN store ELSE UpsertAccount(pool[r], token, old)
  BY CopyLoaded DEF SaveRefreshed, Loaded
<1> HIDE DEF old
<1>20. ASSUME pool[r].accounts # <<>>
       PROVE  /\ store' \in [accounts : Seq(AccTokens), active : Nat]
              /\ store'.active \in Entries' /\ store'.accounts[store'.active] = token
              /\ store'.accounts # <<>>
              /\ \A j \in Entries' : \/ store'.accounts[j] = token
                                     \/ \E i \in Listed(pool[r]) :
                                          store'.accounts[j] = pool[r].accounts[i]
              /\ \A i \in Listed(pool[r]) :
                   \/ pool[r].accounts[i].a = token.a
                   \/ \E j \in Entries' : store'.accounts[j] = pool[r].accounts[i]
  <2> DEFINE from == pool[r]
             to == store'
  <2>1. to = UpsertAccount(from, token, old) /\ PoolOK(from) /\ token \in AccTokens
    BY <1>1, <1>2, <1>20
  <2>2. Entries' = Listed(to)
    BY DEF Entries, Listed
  <2> HIDE DEF from, to, token
  <2>3. /\ to \in [accounts : Seq(AccTokens), active : Nat]
        /\ to.active \in Listed(to) /\ to.accounts[to.active] = token
        /\ to.accounts # <<>>
        /\ \A j \in Listed(to) : \/ to.accounts[j] = token
                               \/ \E i \in Listed(from) : to.accounts[j] = from.accounts[i]
        /\ \A i \in Listed(from) : \/ from.accounts[i].a = token.a
                                 \/ \E j \in Listed(to) : to.accounts[j] = from.accounts[i]
    BY <2>1, Upserted
  <2> QED
    BY <2>2, <2>3 DEF from, to
<1>21. stales = 0 /\ ~unset => pool[r] = store /\ pool[r].accounts # <<>>
  BY <1>0, <1>1, <1>2 DEF AccBase, FilesInStep
<1>3. /\ acc' \in [AccRequests -> AccRows] /\ OthersStay(r)
      /\ acc'[r].at = "send" /\ acc'[r].token = token
  BY <1>1, RefreshEnds DEF SaveRefreshed
<1> HIDE DEF token
<1>4. AccTypes'
  <2>1. /\ store' \in [accounts : Seq(AccTokens), active : Nat]
        /\ store'.active \in 1 .. Len(store'.accounts) \/ (store'.accounts = <<>> /\ store'.active = 1)
    BY <1>0, <1>2, <1>20 DEF AccBase, AccTypes, Entries, Listed
  <2> QED
    BY <1>0, <1>1, <1>3, <2>1 DEF AccBase, AccTypes, AccRows
<1>5. Delivered(token)
  BY <1>0 DEF AccBase, TokensDelivered, token
<1>6. /\ JobsMatch' /\ HasToken' /\ RefusedIsDead'
      /\ \A q \in AccRequests : acc'[q].token \in AccTokens =>
           acc'[q].token.g <= newest'[acc'[q].token.a]
  <2>1. \A a \in AccAccounts : newest'[a] \in Nat /\ newest[a] <= newest'[a]
    BY <1>1
  <2>2. \A t \in AccTokens : t.g <= newest[t.a] /\ grant[t.a] # t.g => grant'[t.a] # t.g
    BY <1>1
  <2>3. acc'[r].token \in AccTokens => acc'[r].token.g <= newest'[acc'[r].token.a]
    BY <1>1, <1>3, <1>5 DEF Delivered
  <2>4. RowHasToken(acc'[r])
    BY <1>3 DEF RowHasToken
  <2> QED
    BY <1>0, <1>3, <2>1, <2>2, <2>3, <2>4, RowsFit
<1>7. TokensDelivered'
  <2>1. \A j \in Entries' : Delivered(store'.accounts[j])
    BY <1>0, <1>2, <1>5, <1>20 DEF AccBase, TokensDelivered, AllDelivered, Entries, Listed
  <2> QED
    BY <1>0, <1>1, <1>6, <2>1 DEF AccBase, TokensDelivered, Delivered, Entries, Listed
<1>8. NewestGranted'
  BY <1>0, <1>1 DEF AccBase, NewestGranted
<1>9. ~InSection(r)' /\ ~Refreshed(r)' /\ RowInStep(r)'
  BY <1>3 DEF InSection, Refreshed, RowInStep
<1>10. LockExcludes'
  BY <1>0, <1>1, <1>3, <1>9, LockFits
<1>11. FilesInStep'
  <2>1. stales = 0 /\ ~unset => auth = token
    BY <1>0, <1>1 DEF AccBase, FilesInStep, token
  <2>2. stales = 0 /\ ~unset' => (lock' = "free" => Agreed') /\ RowInStep(r)'
    BY <1>1, <1>20, <1>21, <1>9, <2>1 DEF Agreed, ActiveToken
  <2> QED
    BY <1>0, <1>1, <1>3, <1>10, <2>2, FilesFit
<1>12. RefreshedIsNewest'
  BY <1>0, <1>1, <1>3, <1>9, NewestFits
<1>13. NewestInPool'
  <2> SUFFICES ASSUME stales = 0, ~unset, NEW a \in AccAccounts, grant[a] = newest[a]
               PROVE  Kept(a)'
    BY <1>1 DEF NewestInPool
  <2>1. CASE a = token.a
    <3>1. token = [a |-> a, g |-> newest[a]]
      BY <1>0, <1>1, <2>1 DEF AccBase, RefreshedIsNewest, AccTokens, token
    <3> QED
      BY <1>1, <1>20, <1>21, <3>1 DEF Kept, Entries, Listed
  <2>2. CASE a # token.a
    <3>1. ~(\E q \in AccRequests : Refreshed(q) /\ acc[q].token.a = a)
      BY <1>0, <1>1, <2>2 DEF AccBase, LockExcludes, Refreshed, InSection, token
    <3>2. PICK i \in Entries : store.accounts[i] = [a |-> a, g |-> newest[a]]
      BY <1>0, <3>1 DEF AccBase, NewestInPool, Kept, Entries, Listed
    <3>3. PICK j \in Entries' : store'.accounts[j] = [a |-> a, g |-> newest[a]]
      BY <1>20, <1>21, <2>2, <3>2 DEF Entries
    <3> QED
      BY <1>1, <3>3 DEF Kept, Entries, Listed
  <2> QED
    BY <2>1, <2>2
<1> QED
  BY <1>4, <1>6, <1>7, <1>8, <1>10, <1>11, <1>12, <1>13 DEF AccBase

\* A section changes the store but refreshes nothing: the entry that goes, if
\* any, is dead, and the request leaves or writes the active account's token.
LEMMA StoreChanged ==
  ASSUME AccBase, NEW r \in AccRequests, acc[r].at \in {"remove", "rotate"}, OthersStay(r),
         acc' \in [AccRequests -> AccRows], auth' = auth,
         UNCHANGED <<peers, grant, expired, newest, stales, unset>>,
         store' \in [accounts : Seq(AccTokens), active : Nat],
         \/ store'.active \in Entries' /\ store'.accounts # <<>>
         \/ store'.accounts = <<>> /\ store'.active = 1,
         AllDelivered(store)',
         stales = 0 => \A i \in Entries : \/ grant[store.accounts[i].a] # store.accounts[i].g
                                         \/ \E j \in Entries' : store'.accounts[j] = store.accounts[i],
         \/ /\ acc'[r].at \in {"failed", "done"} /\ lock' = "free"
            /\ acc'[r].token \in {acc[r].token, NoToken}
            /\ stales = 0 /\ ~unset => Agreed'
         \/ /\ acc'[r].at = "write" /\ acc'[r].job = acc[r].at /\ lock' = lock
            /\ acc'[r].token = ActiveToken'
            /\ acc[r].at = "rotate" => store'.accounts # <<>>
  PROVE  AccBase'
<1>1. /\ InSection(r) /\ ~Refreshed(r) /\ acc \in [AccRequests -> AccRows]
      /\ newest \in [AccAccounts -> 1 .. MaxGrants] /\ MaxGrants \in Nat /\ NoToken \notin AccTokens
      /\ lock \in {"free", "held", "stale"} /\ auth \in AccTokens \cup {NoToken}
  BY AccTyped DEF InSection, Refreshed
<1>2. AccTypes'
  BY <1>1 DEF AccBase, AccTypes, AccRows, Entries, Listed
<1>3. \A j \in Entries' : Delivered(store'.accounts[j])
  BY DEF AllDelivered, Entries, Delivered, Listed
<1>4. acc'[r].at = "write" => RowHasToken(acc'[r]) /\ Delivered(acc'[r].token)
  <2> SUFFICES ASSUME acc'[r].at = "write"
               PROVE  RowHasToken(acc'[r]) /\ Delivered(acc'[r].token)
    OBVIOUS
  <2>1. CASE store'.accounts = <<>>
    BY <1>1, <2>1 DEF ActiveToken, RowHasToken, Delivered
  <2>2. CASE store'.accounts # <<>>
    <3>1. /\ store'.active \in Entries' /\ acc'[r].token = store'.accounts[store'.active]
          /\ store'.accounts \in Seq(AccTokens)
      BY <2>2 DEF ActiveToken
    <3> QED
      BY <1>3, <3>1 DEF Entries, Listed, RowHasToken
  <2> QED
    BY <2>1, <2>2
<1>5. acc'[r].at \in {"failed", "done", "write"}
  OBVIOUS
<1>6. /\ JobsMatch' /\ HasToken' /\ RefusedIsDead'
      /\ \A q \in AccRequests : acc'[q].token \in AccTokens =>
           acc'[q].token.g <= newest'[acc'[q].token.a]
  <2>1. \A a \in AccAccounts : newest'[a] \in Nat /\ newest[a] <= newest'[a]
    BY <1>1
  <2>2. \A t \in AccTokens : t.g <= newest[t.a] /\ grant[t.a] # t.g => grant'[t.a] # t.g
    OBVIOUS
  <2>3. acc'[r].token \in AccTokens => acc'[r].token.g <= newest'[acc'[r].token.a]
    <3>1. Delivered(acc[r].token)
      BY DEF AccBase, TokensDelivered
    <3> QED
      BY <1>1, <1>4, <1>5, <3>1 DEF Delivered
  <2>4. RowHasToken(acc'[r])
    BY <1>4, <1>5 DEF RowHasToken
  <2> QED
    BY <1>4, <1>5, <2>1, <2>2, <2>3, <2>4, RowsFit
<1>7. TokensDelivered' /\ NewestGranted'
  BY <1>1, <1>3, <1>6 DEF AccBase, TokensDelivered, NewestGranted, Delivered, Entries, Listed
<1>8. InSection(r)' <=> acc'[r].at = "write"
  BY <1>5 DEF InSection
<1>9. LockExcludes'
  <2>1. stales = 0 => lock = "held"
    BY <1>1, SectionHolds
  <2>2. stales = 0 => lock' # "stale" /\ acc'[r].at # "breaking"
    BY <1>5, <2>1
  <2>3. InSection(r)' => (InSection(r) /\ lock' = lock) \/ (lock = "free" /\ lock' = "held")
    BY <1>1, <1>8
  <2>4. stales = 0 /\ ~InSection(r)' =>
           (lock' = lock /\ ~InSection(r)) \/ (lock' = "free" /\ InSection(r))
    BY <1>1, <1>8
  <2> QED
    BY <2>2, <2>3, <2>4, LockFits
<1>10. FilesInStep'
  <2>1. CASE acc'[r].at # "write"
    <3>1. RowInStep(r)'
      BY <1>5, <2>1 DEF RowInStep
    <3> QED
      BY <1>1, <1>9, <2>1, <3>1, FilesFit
  <2>2. CASE acc'[r].at = "write"
    <3>1. acc'[r].job # "refresh" /\ acc'[r].token = ActiveToken'
      BY <2>2
    <3>2. RowInStep(r)'
      BY <2>2, <3>1 DEF RowInStep
    <3>3. stales = 0 => lock' # "free"
      BY <1>1, <2>2, SectionHolds
    <3> QED
      BY <1>1, <1>9, <3>2, <3>3, FilesFit
  <2> QED
    BY <2>1, <2>2
<1>11. ~Refreshed(r)'
  BY <1>5 DEF Refreshed
<1>12. RefreshedIsNewest'
  BY <1>1, <1>11, NewestFits
<1>13. NewestInPool'
  <2> SUFFICES ASSUME stales = 0, ~unset, NEW a \in AccAccounts, grant[a] = newest[a]
               PROVE  Kept(a)'
    BY DEF NewestInPool
  <2>1. ~(\E q \in AccRequests : Refreshed(q))
    BY <1>1 DEF AccBase, LockExcludes, Refreshed, InSection
  <2>2. PICK i \in Entries : store.accounts[i] = [a |-> a, g |-> newest[a]]
    BY <2>1 DEF AccBase, NewestInPool, Kept, Entries, Listed
  <2>3. PICK j \in Entries' : store'.accounts[j] = [a |-> a, g |-> newest[a]]
    BY <2>2
  <2> QED
    BY <2>3 DEF Kept, Entries, Listed
<1> QED
  BY <1>2, <1>6, <1>7, <1>9, <1>10, <1>12, <1>13 DEF AccBase

\* A request takes a token of the pool to write it.
LEMMA RequestWrites ==
  ASSUME acc \in [AccRequests -> AccRows], NEW r \in AccRequests, NEW token \in AccTokens \cup {NoToken},
         acc' = [acc EXCEPT ![r].at = "write", ![r].token = token]
  PROVE  /\ acc' \in [AccRequests -> AccRows] /\ OthersStay(r)
         /\ acc'[r].at = "write" /\ acc'[r].job = acc[r].job /\ acc'[r].token = token
<1> DEFINE w == [acc[r] EXCEPT !.at = "write", !.token = token]
<1>1. acc' = [acc EXCEPT ![r] = w]
  OBVIOUS
<1>2. w \in AccRows
  BY DEF AccRows, AccPlaces
<1>3. w.at = "write" /\ w.job = acc[r].job /\ w.token = token
  BY DEF AccRows
<1> HIDE DEF w
<1> QED
  BY <1>1, <1>2, <1>3, OneRowChanges

LEMMA StoreTyped ==
  ASSUME AccBase
  PROVE  /\ store \in [accounts : Seq(AccTokens), active : Nat]
         /\ \/ store.active \in Entries /\ store.accounts # <<>>
            \/ store.accounts = <<>> /\ store.active = 1
  BY EmptySeq DEF AccBase, AccTypes, Entries, Listed

\* The entry a request removes is the one of the token it was refused.
LEMMA RemovedEntry ==
  ASSUME AccInv, NEW r \in AccRequests, RemoveAccount(r),
         {i \in DOMAIN pool[r].accounts : pool[r].accounts[i] = acc[r].token} # {}
  PROVE  \E k \in Listed(pool[r]) :
           /\ store' = WithoutAccount(pool[r], k) /\ pool[r].accounts[k] = acc[r].token
           /\ acc' = [acc EXCEPT ![r].at = "write", ![r].token = ActiveToken']
           /\ lock' = lock
<1> DEFINE I == {i \in DOMAIN pool[r].accounts : pool[r].accounts[i] = acc[r].token}
<1>1. PoolOK(pool[r])
  BY CopyLoaded DEF RemoveAccount, Loaded
<1>2. I \in SUBSET Nat /\ \A i \in I : i \in Listed(pool[r]) /\ pool[r].accounts[i] = acc[r].token
  BY <1>1 DEF PoolOK, Listed
<1>3. AccIndices(pool[r], LAMBDA t : t = acc[r].token) = I
  BY DEF AccIndices
<1>4. /\ store' = WithoutAccount(pool[r], FirstOf(I)) /\ lock' = lock
      /\ acc' = [acc EXCEPT ![r].at = "write", ![r].token = ActiveToken']
  BY <1>3 DEF RemoveAccount, Removed, ActiveToken
<1> HIDE DEF I
<1>5. FirstOf(I) \in I
  <2>1. \E i \in I : \A j \in I : i <= j
    BY <1>2, LeastNatural DEF I
  <2> QED
    BY <2>1 DEF FirstOf
<1> QED
  BY <1>2, <1>4, <1>5

LEMMA Wrapped == ASSUME NEW n \in Nat, NEW l \in Nat, l > 0 PROVE (n % l) + 1 \in 1 .. l
<1>1. n % l \in 0 .. l - 1
  OBVIOUS
<1> QED
  BY <1>1

LEMMA RemoveAccountKeeps == ASSUME AccInv, NEW r \in AccRequests, RemoveAccount(r) PROVE AccBase'
<1>0. AccBase /\ pool[r] # NotLoaded
  BY DEF AccInv, RemoveAccount, Loaded
<1>1. /\ acc \in [AccRequests -> AccRows] /\ acc[r].at = "remove" /\ acc[r].job = "remove"
      /\ UNCHANGED <<auth, peers, grant, expired, newest, stales, unset>>
      /\ acc[r].token \in AccTokens /\ grant[acc[r].token.a] # acc[r].token.g
  BY <1>0, AccTyped DEF RemoveAccount, Loaded, AccIn, accServer, AccBase, JobsMatch, RefusedIsDead
<1>2. stales = 0 /\ ~unset => Agreed
  BY <1>0, <1>1 DEF AccBase, FilesInStep
<1> DEFINE I == {i \in DOMAIN pool[r].accounts : pool[r].accounts[i] = acc[r].token}
<1>3. CASE I = {}
  <2>1. AccIndices(pool[r], LAMBDA t : t = acc[r].token) = {}
    BY <1>3 DEF AccIndices
  <2>2. RefreshOutcome(r, "failed", NoToken) /\ lock' = "free" /\ UNCHANGED store
    BY <2>1 DEF RemoveAccount, Unlock
  <2>3. /\ acc' \in [AccRequests -> AccRows] /\ OthersStay(r)
        /\ acc'[r].at = "failed" /\ acc'[r].token = NoToken
    BY <1>1, <2>2, RefreshEnds
  <2>4. Agreed' <=> Agreed
    BY <1>1, <2>2 DEF Agreed, ActiveToken
  <2>5. Entries' = Entries /\ store'.accounts = store.accounts
    BY <2>2 DEF Entries, Listed
  <2>6. AllDelivered(store)'
    BY <1>0, <1>1, <2>2 DEF AccBase, TokensDelivered, AllDelivered, Delivered, Listed
  <2> QED
    BY <1>0, <1>1, <1>2, <2>2, <2>3, <2>4, <2>5, <2>6, StoreTyped, StoreChanged
<1>4. CASE I # {}
  <2>1. PICK k \in Listed(pool[r]) :
           /\ store' = WithoutAccount(pool[r], k) /\ pool[r].accounts[k] = acc[r].token
           /\ acc' = [acc EXCEPT ![r].at = "write", ![r].token = ActiveToken']
           /\ lock' = lock
    BY <1>4, RemovedEntry
  <2>2. PoolOK(pool[r]) /\ AllDelivered(pool[r]) /\ (stales = 0 => pool[r] = store)
    BY <1>0, CopyLoaded
  <2>3. /\ store' \in [accounts : Seq(AccTokens), active : Nat]
        /\ \/ store'.active \in Entries' /\ store'.accounts # <<>>
           \/ store'.accounts = <<>> /\ store'.active = 1
        /\ \A j \in Entries' : \E i \in Listed(pool[r]) : store'.accounts[j] = pool[r].accounts[i]
        /\ \A i \in Listed(pool[r]) :
             i = k \/ \E j \in Entries' : store'.accounts[j] = pool[r].accounts[i]
    <3> DEFINE from == pool[r]
               to == store'
    <3>1. to = WithoutAccount(from, k) /\ PoolOK(from) /\ k \in Listed(from)
      BY <2>1, <2>2
    <3>2. Entries' = Listed(to)
      BY DEF Entries, Listed
    <3> HIDE DEF from, to
    <3>3. /\ to \in [accounts : Seq(AccTokens), active : Nat]
          /\ \/ to.active \in Listed(to) /\ to.accounts # <<>>
             \/ to.accounts = <<>> /\ to.active = 1
          /\ \A j \in Listed(to) : \E i \in Listed(from) : to.accounts[j] = from.accounts[i]
          /\ \A i \in Listed(from) :
               i = k \/ \E j \in Listed(to) : to.accounts[j] = from.accounts[i]
      BY <3>1, Promoted
    <3> QED
      BY <3>2, <3>3 DEF from, to
  <2>4. stales = 0 => \A i \in Entries : \/ grant[store.accounts[i].a] # store.accounts[i].g
                                         \/ \E j \in Entries' : store'.accounts[j] = store.accounts[i]
    BY <1>1, <2>1, <2>2, <2>3 DEF Entries
  <2>5. AllDelivered(store)'
    BY <1>1, <2>2, <2>3 DEF AllDelivered, Delivered, Entries
  <2>6. ActiveToken' \in AccTokens \cup {NoToken}
    BY <2>3 DEF ActiveToken, Entries, Listed
  <2>7. /\ acc' \in [AccRequests -> AccRows] /\ OthersStay(r)
        /\ acc'[r].at = "write" /\ acc'[r].job = acc[r].at /\ acc'[r].token = ActiveToken'
    BY <1>1, <2>1, <2>6, RequestWrites
  <2> QED
    BY <1>0, <1>1, <2>1, <2>3, <2>4, <2>5, <2>7, StoreChanged
<1> QED
  BY <1>3, <1>4

\* findCurrentAccountIndex, plus one, wrapped round, is the place of an entry.
LEMMA NextIndex ==
  ASSUME NEW s, PoolOK(s), s.accounts # <<>>, NEW token
  PROVE  (CurrentIndex(s, token) % Len(s.accounts)) + 1 \in Listed(s)
<1> DEFINE J == {i \in DOMAIN s.accounts : s.accounts[i] = token}
<1>1. J \in SUBSET Nat /\ s.active \in Nat /\ Len(s.accounts) \in Nat /\ Len(s.accounts) > 0
  BY EmptySeq DEF PoolOK
<1>2. CurrentIndex(s, token) = IF J = {} THEN s.active ELSE FirstOf(J)
  BY DEF CurrentIndex, AccIndices
<1> HIDE DEF J
<1>3. CASE J # {}
  <2>1. \E i \in J : \A j \in J : i <= j
    BY <1>1, <1>3, LeastNatural
  <2>2. FirstOf(J) \in J
    BY <2>1 DEF FirstOf
  <2> QED
    BY <1>1, <1>2, <1>3, <2>2, Wrapped DEF Listed
<1>4. CASE J = {}
  BY <1>1, <1>2, <1>4, Wrapped DEF Listed
<1> QED
  BY <1>3, <1>4

LEMMA RotateAccountKeeps == ASSUME AccInv, NEW r \in AccRequests, RotateAccount(r) PROVE AccBase'
<1>0. AccBase /\ pool[r] # NotLoaded
  BY DEF AccInv, RotateAccount, Loaded
<1>1. /\ acc \in [AccRequests -> AccRows] /\ acc[r].at = "rotate" /\ acc[r].job = "rotate"
      /\ UNCHANGED <<auth, peers, grant, expired, newest, stales, unset>>
  BY <1>0, AccTyped DEF RotateAccount, Loaded, AccIn, accServer, AccBase, JobsMatch
<1>2. stales = 0 /\ ~unset => Agreed
  BY <1>0, <1>1 DEF AccBase, FilesInStep
<1>3. CASE Len(pool[r].accounts) < 2
  <2>1. AccGoes(r, "done") /\ lock' = "free" /\ store' = store
    BY <1>3 DEF RotateAccount, Unlock
  <2>2. /\ acc' \in [AccRequests -> AccRows] /\ OthersStay(r)
        /\ acc'[r].at = "done" /\ acc'[r].token = acc[r].token
    BY <1>1, <2>1, RequestGoes DEF AccPlaces
  <2>3. Agreed' <=> Agreed
    BY <1>1, <2>1 DEF Agreed, ActiveToken
  <2>4. Entries' = Entries /\ store'.accounts = store.accounts
    BY <2>1 DEF Entries, Listed
  <2>5. AllDelivered(store)'
    BY <1>0, <1>1, <2>1 DEF AccBase, TokensDelivered, AllDelivered, Delivered, Listed
  <2> QED
    BY <1>0, <1>1, <1>2, <2>1, <2>2, <2>3, <2>4, <2>5, StoreTyped, StoreChanged
<1>4. CASE ~(Len(pool[r].accounts) < 2)
  <2> DEFINE next == (CurrentIndex(pool[r], acc[r].token) % Len(pool[r].accounts)) + 1
  <2>1. /\ store' = [pool[r] EXCEPT !.active = next] /\ lock' = lock
        /\ acc' = [acc EXCEPT ![r].at = "write", ![r].token = pool[r].accounts[next]]
    BY <1>4 DEF RotateAccount
  <2>2. PoolOK(pool[r]) /\ AllDelivered(pool[r]) /\ (stales = 0 => pool[r] = store)
    BY <1>0, CopyLoaded
  <2>3. pool[r].accounts # <<>>
    BY <1>4, <2>2, EmptySeq DEF PoolOK
  <2>4. next \in Listed(pool[r])
    BY <2>2, <2>3, NextIndex
  <2> HIDE DEF next
  <2>5. /\ store' = [accounts |-> pool[r].accounts, active |-> next]
        /\ store' \in [accounts : Seq(AccTokens), active : Nat]
        /\ store'.accounts = pool[r].accounts /\ store'.active = next
    BY <2>1, <2>2, <2>4 DEF PoolOK, Listed
  <2>6. /\ Entries' = Listed(pool[r]) /\ store'.accounts # <<>>
        /\ pool[r].accounts[next] \in AccTokens /\ pool[r].accounts[next] = ActiveToken'
    BY <2>2, <2>3, <2>4, <2>5 DEF PoolOK, Entries, Listed, ActiveToken
  <2>7. /\ acc' \in [AccRequests -> AccRows] /\ OthersStay(r)
        /\ acc'[r].at = "write" /\ acc'[r].job = acc[r].at /\ acc'[r].token = ActiveToken'
    BY <1>1, <2>1, <2>6, RequestWrites
  <2>8. AllDelivered(store)'
    BY <1>1, <2>2, <2>5 DEF AllDelivered, Delivered, Listed
  <2>9. stales = 0 => \A i \in Entries : \/ grant[store.accounts[i].a] # store.accounts[i].g
                                         \/ \E j \in Entries' : store'.accounts[j] = store.accounts[i]
    BY <2>2, <2>5, <2>6 DEF Entries
  <2> QED
    BY <1>0, <1>1, <2>1, <2>4, <2>5, <2>6, <2>7, <2>8, <2>9, StoreChanged
<1> QED
  BY <1>3, <1>4

\* A pool that lists as many different accounts as there are lists all of them.
LEMMA OrderIsFull ==
  ASSUME NEW order \in AccOrders, NEW a \in AccAccounts
  PROVE  \E i \in 1 .. Cardinality(AccAccounts) : order[i] = a
<1> DEFINE n == Cardinality(AccAccounts)
           others == AccAccounts \ {a}
<1>1. /\ n \in Nat /\ IsFiniteSet(others) /\ Cardinality(others) = n - 1
  BY AccAssumption, FS_CardinalityType, FS_RemoveElement
<1>2. IsFiniteSet(1 .. n) /\ Cardinality(1 .. n) = n
  <2>1. n # 0
    BY AccAssumption, FS_EmptySet
  <2> QED
    BY <1>1, <2>1, FS_Interval
<1>3. order \in [1 .. n -> AccAccounts] /\ \A x, y \in 1 .. n : x # y => order[x] # order[y]
  BY DEF AccOrders
<1> HIDE DEF n
<1>4. SUFFICES ASSUME \A i \in 1 .. n : order[i] # a PROVE FALSE
  BY DEF n
<1>5. order \in [1 .. n -> others]
  BY <1>3, <1>4
<1> HIDE DEF others
<1>6. \E x, y \in 1 .. n : x # y /\ order[x] = order[y]
  BY <1>1, <1>2, <1>5, FS_PigeonHole
<1> QED
  BY <1>3, <1>6

LEMMA AccInitially == ASSUME AccInit PROVE AccInv
<1>1. PICK start \in AccCasts : AccStartsFrom(start[1], start[2], start[3])
  BY DEF AccInit
<1> DEFINE order == start[1]
           n == Cardinality(AccAccounts)
<1>2. n \in Nat \ {0}
  BY AccAssumption, FS_CardinalityType, FS_EmptySet
<1>3. start \in AccOrders \X {{}, AccRequests} \X [AccAccounts -> {0, 1}]
  BY AccAssumption DEF AccStarts
<1>4. order \in [1 .. n -> AccAccounts]
  BY <1>3 DEF AccOrders
<1>5. /\ store = [accounts |-> [i \in DOMAIN order |-> [a |-> order[i], g |-> 1]], active |-> 1]
      /\ auth = [a |-> order[1], g |-> 1] /\ lock = "free"
      /\ acc = [r \in AccRequests |-> [at |-> "new", job |-> "refresh", token |-> NoToken,
                                       key |-> NoToken, tried |-> {}, again |-> FALSE]]
      /\ pool = [r \in AccRequests |-> NotLoaded] /\ peers = start[2] /\ grant = start[3]
      /\ expired = {} /\ newest = [a \in AccAccounts |-> 1] /\ stales = 0 /\ unset = FALSE
  BY <1>1 DEF AccStartsFrom
<1> HIDE DEF order, n
<1>6. MaxGrants \in Nat \ {0} /\ MaxStale \in Nat /\ NoToken \notin AccTokens
  BY AccAssumption
<1>7. /\ store.accounts = [i \in 1 .. n |-> [a |-> order[i], g |-> 1]] /\ store.active = 1
      /\ store.accounts \in Seq(AccTokens) /\ Len(store.accounts) = n
      /\ \A i \in 1 .. n : store.accounts[i] \in AccTokens /\ store.accounts[i].g = 1
  <2>1. store.accounts = [i \in 1 .. n |-> [a |-> order[i], g |-> 1]] /\ store.active = 1
    BY <1>4, <1>5
  <2>2. \A i \in 1 .. n : [a |-> order[i], g |-> 1] \in AccTokens
    BY <1>4, <1>6 DEF AccTokens
  <2> QED
    BY <1>2, <2>1, <2>2
<1>8. auth \in AccTokens /\ auth = store.accounts[1] /\ auth.g = 1
  BY <1>2, <1>5, <1>7
<1>9. AccTypes
  <2>1. /\ store \in [accounts : Seq(AccTokens), active : Nat]
        /\ store.active \in 1 .. Len(store.accounts)
    BY <1>2, <1>5, <1>7
  <2>2. acc \in [AccRequests -> AccRows]
    BY <1>5 DEF AccRows, AccPlaces, AccJobs
  <2>3. grant \in [AccAccounts -> 0 .. MaxGrants] /\ newest \in [AccAccounts -> 1 .. MaxGrants]
    BY <1>3, <1>5, <1>6
  <2>4. peers \subseteq AccRequests
    BY <1>3, <1>5
  <2>5. lock \in {"free", "held", "stale"} /\ auth \in AccTokens \cup {NoToken}
    BY <1>5, <1>8
  <2>6. expired \subseteq AccTokens /\ stales \in 0 .. MaxStale
    BY <1>5, <1>6
  <2>7. unset \in BOOLEAN
    BY <1>5
  <2> QED
    BY <2>1, <2>2, <2>3, <2>4, <2>5, <2>6, <2>7 DEF AccTypes, AccRows
<1>10. TokensDelivered
  <2>1. \A t \in AccTokens : t.g = 1 => Delivered(t)
    BY <1>5 DEF Delivered, AccTokens
  <2>2. \A r \in AccRequests : Delivered(acc[r].token)
    BY <1>5, <1>6 DEF Delivered
  <2> QED
    BY <1>7, <1>8, <2>1, <2>2 DEF TokensDelivered
<1>11. NewestGranted
  BY <1>3, <1>5 DEF NewestGranted
<1>12. \A r \in AccRequests : acc[r].at = "new" /\ acc[r].job = "refresh"
  BY <1>5
<1>13. JobsMatch /\ HasToken /\ RefusedIsDead /\ LockExcludes /\ RefreshedIsNewest
  BY <1>5, <1>12 DEF JobsMatch, HasToken, RowHasToken, RefusedIsDead, LockExcludes,
                     RefreshedIsNewest, InSection, Refreshed
<1>14. FilesInStep
  <2>1. Agreed
    BY <1>2, <1>7, <1>8, EmptySeq DEF Agreed, ActiveToken
  <2> QED
    BY <1>12, <2>1 DEF FilesInStep
<1>15. NewestInPool
  <2> SUFFICES ASSUME NEW a \in AccAccounts PROVE Kept(a)
    BY DEF NewestInPool
  <2>1. \E i \in 1 .. n : order[i] = a
    BY <1>3, OrderIsFull DEF order, n
  <2> QED
    BY <1>5, <1>7, <2>1 DEF Kept
<1>16. AccBase
  BY <1>9, <1>10, <1>11, <1>13, <1>14, <1>15 DEF AccBase
<1>17. CopiesInv
  BY <1>5 DEF CopiesInv, CopiesTyped, CopiesDelivered, CopiesFresh
<1> QED
  BY <1>16, <1>17 DEF AccInv

\* The newest generations only grow, and what was delivered stays so.
LEMMA StaysDelivered ==
  ASSUME AccBase, AccBase', \A a \in AccAccounts : newest[a] <= newest'[a],
         NEW s, PoolOK(s), AllDelivered(s)
  PROVE  \A i \in Listed(s) : Delivered(s.accounts[i])'
<1> SUFFICES ASSUME NEW i \in Listed(s) PROVE Delivered(s.accounts[i])'
  OBVIOUS
<1>1. s.accounts[i] \in AccTokens /\ s.accounts[i].g <= newest[s.accounts[i].a]
  BY DEF PoolOK, AllDelivered, Delivered, Listed
<1> DEFINE token == s.accounts[i]
<1>2. /\ token.a \in AccAccounts /\ token.g \in Nat /\ token.g <= newest[token.a]
      /\ newest[token.a] \in Nat /\ newest'[token.a] \in Nat
  <2>1. newest' \in [AccAccounts -> 1 .. MaxGrants] /\ MaxGrants \in Nat
    BY AccAssumption DEF AccBase, AccTypes
  <2>2. /\ newest \in [AccAccounts -> 1 .. MaxGrants]
        /\ \A t \in AccTokens : t.a \in AccAccounts /\ t.g \in 1 .. MaxGrants
    BY AccTyped
  <2>3. token \in AccTokens /\ token.g <= newest[token.a]
    BY <1>1
  <2> HIDE DEF token
  <2> QED
    BY <2>1, <2>2, <2>3
<1> HIDE DEF token
<1>3. token.g <= newest'[token.a]
  BY <1>2
<1> QED
  BY <1>3 DEF Delivered, token

\* A step of one request leaves the loading of the others alone.
OthersLoad(r) ==
  \A q \in AccRequests \ {r} : Loads(q) => acc'[q].at = acc[q].at
LEMMA OutcomeAlone ==
  ASSUME acc \in [AccRequests -> AccRows], NEW r \in AccRequests, NEW place, NEW token,
         RefreshOutcome(r, place, token)
  PROVE  OthersLoad(r)
  BY DEF RefreshOutcome, OthersLoad, Loads, JoinedWith, AccIn
LEMMA RequestsAlone ==
  ASSUME acc \in [AccRequests -> AccRows], NEW r \in AccRequests,
         \/ GetFresh(r) \/ AcquireLock(r) \/ SeesStale(r) \/ BreakLock(r) \/ LockTimesOut(r)
         \/ RefreshToken(r) \/ RefreshSucceeds(r) \/ RefreshFails(r) \/ RefreshRefused(r)
         \/ WriteAuth(r) \/ AuthSetFails(r) \/ SaveRefreshed(r) \/ RemoveAccount(r)
         \/ RotateAccount(r) \/ SendToApi(r)
  PROVE  OthersLoad(r)
<1>1. CASE GetFresh(r)
  BY <1>1 DEF GetFresh, OthersLoad
<1>2. CASE AcquireLock(r) \/ SeesStale(r) \/ BreakLock(r)
  BY <1>2 DEF AcquireLock, SeesStale, BreakLock, AccGoes, OthersLoad
<1>3. CASE LockTimesOut(r) \/ RefreshFails(r) \/ AuthSetFails(r) \/ SaveRefreshed(r)
  BY <1>3, OutcomeAlone DEF LockTimesOut, RefreshFails, AuthSetFails, SaveRefreshed
<1>4. CASE RefreshToken(r)
  <2>1. CASE \E place, token : RefreshOutcome(r, place, token)
    BY <2>1, OutcomeAlone
  <2>2. CASE ~\E place, token : RefreshOutcome(r, place, token)
    <3>1. acc' = [acc EXCEPT ![r].at = "refreshing", ![r].token = auth,
                                   ![r].tried = @ \cup {auth}]
      BY <1>4, <2>2 DEF RefreshToken
    <3> QED
      BY <3>1 DEF OthersLoad
  <2> QED
    BY <2>1, <2>2
<1>5. CASE RefreshSucceeds(r) \/ RefreshRefused(r)
  BY <1>5 DEF RefreshSucceeds, RefreshRefused, OthersLoad
<1>6. CASE WriteAuth(r)
  <2>1. acc[r].job \in {"refresh", "remove", "rotate"}
    BY DEF AccRows, AccJobs
  <2>2. CASE RefreshOutcome(r, "failed", NoToken)
    BY <2>2, OutcomeAlone
  <2>3. CASE ~RefreshOutcome(r, "failed", NoToken)
    BY <1>6, <2>1, <2>3 DEF WriteAuth, AccGoes, OthersLoad
  <2> QED
    BY <2>2, <2>3
<1>7. CASE RemoveAccount(r)
  <2>1. CASE RefreshOutcome(r, "failed", NoToken)
    BY <2>1, OutcomeAlone
  <2>2. CASE ~RefreshOutcome(r, "failed", NoToken)
    <3>1. \E token : acc' = [acc EXCEPT ![r].at = "write", ![r].token = token]
      BY <1>7, <2>2 DEF RemoveAccount, Removed
    <3> QED
      BY <3>1 DEF OthersLoad
  <2> QED
    BY <2>1, <2>2
<1>8. CASE RotateAccount(r)
  <2>1. \/ AccGoes(r, "done")
        \/ \E token : acc' = [acc EXCEPT ![r].at = "write", ![r].token = token]
    BY <1>8 DEF RotateAccount
  <2> QED
    BY <2>1 DEF AccGoes, OthersLoad
<1>9. CASE SendToApi(r)
  BY <1>9 DEF SendToApi, AccGoes, OthersLoad
<1> QED
  BY <1>1, <1>2, <1>3, <1>4, <1>5, <1>6, <1>7, <1>8, <1>9

\* A step that touches neither the store nor a copy
LEMMA CopiesStay ==
  ASSUME AccInv, AccBase', NEW r \in AccRequests, ~Loads(r), OthersLoad(r),
         UNCHANGED <<store, pool, stales>>, \A a \in AccAccounts : newest[a] <= newest'[a]
  PROVE  CopiesInv'
<1>1. CopiesTyped'
  BY DEF AccInv, CopiesInv, CopiesTyped
<1>2. CopiesDelivered'
  <2> SUFFICES ASSUME NEW q \in AccRequests, pool[q] # NotLoaded
               PROVE  \A i \in Listed(pool[q]) : Delivered(pool[q].accounts[i])'
    BY DEF CopiesDelivered, AllDelivered, Listed, Delivered
  <2> QED
    BY CopyLoaded, StaysDelivered DEF AccInv
<1>3. CopiesFresh'
  BY DEF AccInv, CopiesInv, CopiesFresh, OthersLoad, Loads
<1> QED
  BY <1>1, <1>2, <1>3 DEF CopiesInv

\* A request is done with its copy; no other request has one while the lock is one.
LEMMA CopySaved ==
  ASSUME AccInv, AccBase', NEW r \in AccRequests, InSection(r), OthersLoad(r),
         pool' = [pool EXCEPT ![r] = NotLoaded], stales' = stales, newest' = newest
  PROVE  CopiesInv'
<1>1. /\ DOMAIN pool = AccRequests /\ pool' = [q \in AccRequests |-> IF q = r THEN NotLoaded ELSE pool[q]]
  BY DEF AccInv, CopiesInv, CopiesTyped
<1>2. CopiesTyped'
  BY <1>1 DEF AccInv, CopiesInv, CopiesTyped
<1>3. CopiesDelivered'
  BY <1>1 DEF AccInv, CopiesInv, CopiesDelivered, AllDelivered, Listed, Delivered
<1>4. CopiesFresh'
  <2> SUFFICES ASSUME stales = 0, NEW q \in AccRequests, pool'[q] # NotLoaded PROVE FALSE
    BY DEF CopiesFresh
  <2>1. q # r /\ pool[q] # NotLoaded
    BY <1>1
  <2>2. InSection(q)
    BY <2>1 DEF AccInv, CopiesInv, CopiesFresh, Loads, InSection
  <2> QED
    BY <2>1, <2>2 DEF AccInv, AccBase, LockExcludes
<1> QED
  BY <1>2, <1>3, <1>4 DEF CopiesInv

LEMMA LoadStoreKeeps == ASSUME AccInv, NEW r \in AccRequests, LoadStore(r) PROVE AccInv'
<1>1. /\ UNCHANGED <<auth, store, lock, acc, peers, grant, expired, newest, stales, unset>>
      /\ pool' = [pool EXCEPT ![r] = store] /\ Loads(r)
  BY DEF LoadStore, accFiles, accServer, Loads
<1>2. AccBase'
  BY <1>1, AccStays DEF AccInv
<1>3. pool' = [q \in AccRequests |-> IF q = r THEN store ELSE pool[q]]
  BY <1>1 DEF AccInv, CopiesInv, CopiesTyped
<1>4. PoolOK(store) /\ AllDelivered(store)
  BY DEF AccInv, AccBase, AccTypes, PoolOK, TokensDelivered, AllDelivered, Listed
<1>5. CopiesTyped'
  BY <1>3, <1>4 DEF AccInv, CopiesInv, CopiesTyped
<1>6. CopiesDelivered'
  BY <1>1, <1>3, <1>4 DEF AccInv, CopiesInv, CopiesDelivered, AllDelivered, Listed, Delivered
<1>7. CopiesFresh'
  BY <1>1, <1>3 DEF AccInv, CopiesInv, CopiesFresh, Loads
<1> QED
  BY <1>2, <1>5, <1>6, <1>7 DEF AccInv, CopiesInv

LEMMA RequestKeeps ==
  ASSUME AccInv, NEW r \in AccRequests,
         \/ GetFresh(r) \/ AcquireLock(r) \/ SeesStale(r) \/ BreakLock(r) \/ LockTimesOut(r)
         \/ RefreshToken(r) \/ RefreshSucceeds(r) \/ RefreshFails(r) \/ RefreshRefused(r)
         \/ WriteAuth(r) \/ AuthSetFails(r) \/ SendToApi(r)
  PROVE  AccInv'
<1>1. AccBase /\ acc \in [AccRequests -> AccRows]
  BY AccTyped DEF AccInv
<1>2. AccBase'
  <2>1. CASE RefreshSucceeds(r) \/ RefreshFails(r) \/ WriteAuth(r) \/ AuthSetFails(r)
    BY <1>1, <2>1, RefreshSucceedsKeeps, RefreshFailsKeeps, WriteAuthKeeps, AuthSetFailsKeeps
  <2>2. CASE ~(RefreshSucceeds(r) \/ RefreshFails(r) \/ WriteAuth(r) \/ AuthSetFails(r))
    BY <1>1, <2>2, RequestsMove
  <2> QED
    BY <2>1, <2>2
<1>3. OthersLoad(r)
  BY <1>1, RequestsAlone
<1>4. ~Loads(r)
  BY DEF GetFresh, AcquireLock, SeesStale, BreakLock, LockTimesOut, RefreshToken, RefreshSucceeds,
         RefreshFails, RefreshRefused, WriteAuth, AuthSetFails, SendToApi, AccIn, Loads
<1>5. UNCHANGED <<store, pool, stales>>
  BY DEF GetFresh, AcquireLock, SeesStale, BreakLock, LockTimesOut, RefreshToken, RefreshSucceeds,
         RefreshFails, RefreshRefused, WriteAuth, AuthSetFails, SendToApi, accFiles, accCopies
<1>6. \A a \in AccAccounts : newest[a] <= newest'[a]
  <2>1. CASE RefreshSucceeds(r)
    <3> DEFINE old == acc[r].token
    <3>1. old \in AccTokens /\ grant[old.a] = old.g
      BY <1>1, <2>1 DEF RefreshSucceeds, AccIn, EndpointAccepts, AccBase, HasToken, RowHasToken
    <3>2. /\ newest \in [AccAccounts -> 1 .. MaxGrants] /\ MaxGrants \in Nat
          /\ old.a \in AccAccounts /\ old.g \in 1 .. MaxGrants
      BY <1>1, <3>1, AccTyped
    <3>3. NextToken(old).a = old.a /\ NextToken(old).g = old.g + 1
      BY <3>1 DEF NextToken, AccTokens
    <3>4. newest' = [newest EXCEPT ![old.a] = old.g + 1]
      BY <2>1, <3>3 DEF RefreshSucceeds
    <3>5. newest[old.a] <= old.g
      BY <1>1, <3>1, <3>2 DEF AccBase, NewestGranted
    <3> HIDE DEF old
    <3> QED
      BY <3>2, <3>4, <3>5
  <2>2. CASE ~RefreshSucceeds(r)
    <3>1. newest' = newest
      BY <2>2 DEF GetFresh, AcquireLock, SeesStale, BreakLock, LockTimesOut, RefreshToken,
         RefreshFails, RefreshRefused, WriteAuth, AuthSetFails, SendToApi, accServer
    <3>2. newest \in [AccAccounts -> 1 .. MaxGrants] /\ MaxGrants \in Nat
      BY <1>1, AccTyped
    <3> QED
      BY <3>1, <3>2
  <2> QED
    BY <2>1, <2>2
<1>7. CopiesInv'
  BY <1>2, <1>3, <1>4, <1>5, <1>6, CopiesStay
<1> QED
  BY <1>2, <1>7 DEF AccInv

LEMMA StoreKeeps ==
  ASSUME AccInv, NEW r \in AccRequests, SaveRefreshed(r) \/ RemoveAccount(r) \/ RotateAccount(r)
  PROVE  AccInv'
<1>1. acc \in [AccRequests -> AccRows]
  BY AccTyped DEF AccInv
<1>2. AccBase'
  BY SaveRefreshedKeeps, RemoveAccountKeeps, RotateAccountKeeps
<1>3. OthersLoad(r)
  BY <1>1, RequestsAlone
<1>4. InSection(r) /\ pool' = [pool EXCEPT ![r] = NotLoaded] /\ stales' = stales /\ newest' = newest
  BY DEF SaveRefreshed, RemoveAccount, RotateAccount, Loaded, AccIn, InSection, accServer
<1>5. CopiesInv'
  BY <1>2, <1>3, <1>4, CopySaved
<1> QED
  BY <1>2, <1>5 DEF AccInv

LEMMA AccStep == ASSUME AccInv, [AccNext]_accVars PROVE AccInv'
<1>0. AccBase
  BY DEF AccInv
<1>1. CASE TurnsStale
  <2>1. AccBase' /\ stales' # 0 /\ UNCHANGED <<pool, newest>>
    BY <1>0, <1>1, TurnsStaleKeeps DEF TurnsStale, accServer, AccBase, AccTypes
  <2>2. CopiesInv'
    BY <2>1 DEF AccInv, CopiesInv, CopiesTyped, CopiesDelivered, CopiesFresh, AllDelivered, Listed,
                Delivered
  <2> QED
    BY <2>1, <2>2 DEF AccInv
<1>2. ASSUME NEW token \in AccTokens, TokenExpires(token) PROVE AccInv'
  <2>1. AccBase' /\ UNCHANGED <<pool, newest, store, stales, acc>>
    BY <1>0, <1>2, TokenExpiresKeeps DEF TokenExpires, accFiles
  <2>2. CopiesInv'
    BY <2>1 DEF AccInv, CopiesInv, CopiesTyped, CopiesDelivered, CopiesFresh, AllDelivered, Listed,
                Delivered, Loads
  <2> QED
    BY <2>1, <2>2 DEF AccInv
<1>3. ASSUME NEW r \in AccRequests,
             \/ GetFresh(r) \/ AcquireLock(r) \/ SeesStale(r) \/ BreakLock(r) \/ LockTimesOut(r)
             \/ RefreshToken(r) \/ RefreshSucceeds(r) \/ RefreshFails(r) \/ RefreshRefused(r)
             \/ WriteAuth(r) \/ AuthSetFails(r) \/ SendToApi(r)
      PROVE  AccInv'
  BY <1>3, RequestKeeps
<1>4. ASSUME NEW r \in AccRequests, LoadStore(r) PROVE AccInv'
  BY <1>4, LoadStoreKeeps
<1>5. ASSUME NEW r \in AccRequests, SaveRefreshed(r) \/ RemoveAccount(r) \/ RotateAccount(r)
      PROVE  AccInv'
  BY <1>5, StoreKeeps
<1>6. CASE UNCHANGED accVars
  <2>1. AccBase' /\ UNCHANGED <<pool, newest, store, stales, acc>>
    BY <1>0, <1>6, AccStays DEF accVars
  <2>2. CopiesInv'
    BY <2>1 DEF AccInv, CopiesInv, CopiesTyped, CopiesDelivered, CopiesFresh, AllDelivered, Listed,
                Delivered, Loads
  <2> QED
    BY <2>1, <2>2 DEF AccInv
<1> QED
  BY <1>1, <1>2, <1>3, <1>4, <1>5, <1>6 DEF AccNext

\* The invariant of the account pool: what the lock protects while no section
\* outlives it, where each section stands between the two files, and what of the
\* endpoint's tokens was delivered (withAuthStateLock, getFreshOAuth).
THEOREM AccInvariant == AccSpec => []AccInv
<1>1. AccInit => AccInv
  BY AccInitially
<1>2. AccInv /\ [AccNext]_accVars => AccInv'
  BY AccStep
<1> QED
  BY <1>1, <1>2, PTL DEF AccSpec

\* The pool's state keeps its types; the active index is that of an entry, or one
\* when the store is empty (normalizeAccountStore, spliceAccountAndPromote).
THEOREM AccTypeCorrect == AccSpec => []AccTypeOK
<1>1. AccInv => AccTypeOK
  BY DEF AccInv, AccBase, AccTypes, CopiesInv, CopiesTyped, AccTypeOK, PoolOK
<1> QED
  BY <1>1, AccInvariant, PTL

\* While no critical section outlives its lock and opencode takes every token,
\* auth.json holds the active account of the store whenever the lock is free,
\* through refreshes, rotations and removals by any number of processes.
THEOREM AccTwoFilesAgree == AccSpec => []AccFilesAgree
<1>1. AccInv => AccFilesAgree
  BY DEF AccInv, AccBase, FilesInStep, Agreed, ActiveToken, AccFilesAgree, AccSettled
<1> QED
  BY <1>1, AccInvariant, PTL

\* A refresh token is taken once: between critical sections the newest generation
\* that a process received is in the store, as long as the endpoint takes it.
THEOREM AccNewestIsSaved == AccSpec => []AccNewestKept
<1>1. ASSUME AccInv PROVE AccNewestKept
  <2> SUFFICES ASSUME AccSettled, NEW a \in AccAccounts, grant[a] = newest[a]
               PROVE  \E i \in DOMAIN store.accounts :
                        store.accounts[i] = [a |-> a, g |-> newest[a]]
    BY DEF AccNewestKept
  <2>1. ~(\E r \in AccRequests : Refreshed(r))
    BY <1>1 DEF AccInv, AccBase, LockExcludes, AccSettled, Refreshed, InSection
  <2>2. Kept(a)
    BY <1>1, <2>1 DEF AccInv, AccBase, NewestInPool, AccSettled
  <2>3. DOMAIN store.accounts = 1 .. Len(store.accounts)
    BY <1>1 DEF AccInv, AccBase, AccTypes
  <2> QED
    BY <2>2, <2>3 DEF Kept
<1> QED
  BY <1>1, AccInvariant, PTL

\* While no section has outlived its lock, what leaves the store is a token the
\* endpoint refuses: between a request's load of the store and its save no other
\* request saves (withAuthStateLock, saveAccounts).
THEOREM AccOnlyDeadLeave == AccSpec => AccRemovedIsDead
<1> DEFINE Gone(t) == \A j \in DOMAIN store'.accounts : store'.accounts[j] # t
<1>0. ASSUME AccInv, NEW r \in AccRequests, stales = 0, pool[r] # NotLoaded
      PROVE  PoolOK(store) /\ pool[r] = store /\ AccBase /\ DOMAIN store.accounts = Entries
  <2>1. PoolOK(store) /\ pool[r] = store
    BY <1>0, CopyLoaded
  <2> QED
    BY <1>0, <2>1 DEF AccInv, PoolOK, Entries, Listed
<1>1. ASSUME AccInv, NEW r \in AccRequests, SaveRefreshed(r), stales = 0 PROVE AccDeadLeave
  <2> DEFINE token == acc[r].token
             old == [token EXCEPT !.g = @ - 1]
  <2>1. /\ PoolOK(store) /\ AccBase /\ DOMAIN store.accounts = Entries
        /\ store' = IF store.accounts = <<>> THEN store ELSE UpsertAccount(store, token, old)
        /\ acc[r].at = "save"
    BY <1>0, <1>1 DEF SaveRefreshed, Loaded, AccIn
  <2> HIDE DEF old
  <2>2. token \in AccTokens /\ acc[r].job = "refresh"
    BY <1>1, <2>1 DEF AccBase, HasToken, RowHasToken, JobsMatch
  <2> HIDE DEF token
  <2>3. CASE store.accounts = <<>>
    BY <2>1, <2>3 DEF AccDeadLeave
  <2>4. CASE store.accounts # <<>>
    <3>1. /\ store' \in [accounts : Seq(AccTokens), active : Nat]
          /\ store'.active \in Entries' /\ store'.accounts[store'.active] = token
          /\ \A i \in Entries : \/ store.accounts[i].a = token.a
                                \/ \E j \in Entries' : store'.accounts[j] = store.accounts[i]
      BY <2>1, <2>2, <2>4, Upserted DEF Entries, Listed
    <3>2. DOMAIN store'.accounts = Entries'
      BY <3>1 DEF Entries, Listed
    <3> SUFFICES ASSUME NEW i \in Entries, Gone(store.accounts[i])
                 PROVE  grant[store.accounts[i].a] # store.accounts[i].g
      BY <2>1, <3>2 DEF AccDeadLeave
    <3> DEFINE t == store.accounts[i]
    <3>3. t \in AccTokens /\ t.a = token.a /\ t # token
      BY <2>1, <3>1, <3>2 DEF Entries, Listed, PoolOK
    <3>4. newest[t.a] = token.g
      BY <1>1, <2>1, <2>2, <3>3 DEF AccBase, RefreshedIsNewest, Refreshed, token
    <3>5. t.g <= newest[t.a]
      BY <2>1, <3>3 DEF AccBase, TokensDelivered, Delivered, Entries, Listed
    <3>6. t.g # token.g
      BY <2>2, <3>3 DEF AccTokens
    <3>7. t.a \in AccAccounts /\ t.g \in 1 .. MaxGrants /\ token.g \in 1 .. MaxGrants
      BY <2>2, <3>3 DEF AccTokens
    <3>8. grant[t.a] = 0 \/ newest[t.a] <= grant[t.a]
      BY <2>1, <3>7 DEF AccBase, NewestGranted
    <3>9. grant[t.a] \in 0 .. MaxGrants
      BY <2>1, <3>7 DEF AccBase, AccTypes
    <3> HIDE DEF t
    <3>10. grant[t.a] # t.g
      BY <3>4, <3>5, <3>6, <3>7, <3>8, <3>9, AccAssumption
    <3> QED
      BY <3>10 DEF t
  <2> QED
    BY <2>3, <2>4
<1>2. ASSUME AccInv, NEW r \in AccRequests, RemoveAccount(r), stales = 0 PROVE AccDeadLeave
  <2>1. /\ PoolOK(store) /\ pool[r] = store /\ AccBase /\ DOMAIN store.accounts = Entries
        /\ acc[r].at = "remove"
    BY <1>0, <1>2 DEF RemoveAccount, Loaded, AccIn
  <2>2. grant[acc[r].token.a] # acc[r].token.g
    BY <1>2, <2>1 DEF AccBase, JobsMatch, RefusedIsDead
  <2>3. CASE {i \in DOMAIN store.accounts : store.accounts[i] = acc[r].token} = {}
    <3>1. AccIndices(pool[r], LAMBDA t : t = acc[r].token) = {}
      BY <2>1, <2>3 DEF AccIndices
    <3>2. store' = store
      BY <1>2, <3>1 DEF RemoveAccount
    <3> QED
      BY <3>2 DEF AccDeadLeave
  <2>4. CASE {i \in DOMAIN store.accounts : store.accounts[i] = acc[r].token} # {}
    <3>1. {i \in DOMAIN pool[r].accounts : pool[r].accounts[i] = acc[r].token} # {}
      BY <2>1, <2>4
    <3>2. PICK k \in Listed(pool[r]) :
             store' = WithoutAccount(pool[r], k) /\ pool[r].accounts[k] = acc[r].token
      BY <1>2, <3>1, RemovedEntry
    <3>3. /\ store' \in [accounts : Seq(AccTokens), active : Nat]
          /\ \A i \in Listed(store) :
               i = k \/ \E j \in Listed(store') : store'.accounts[j] = store.accounts[i]
      BY <2>1, <3>2, Promoted
    <3>4. DOMAIN store'.accounts = Listed(store')
      BY <3>3 DEF Listed
    <3> QED
      BY <2>1, <2>2, <3>2, <3>3, <3>4 DEF AccDeadLeave, Entries
  <2> QED
    BY <2>3, <2>4
<1>3. ASSUME store'.accounts = store.accounts PROVE AccDeadLeave
  BY <1>3 DEF AccDeadLeave
<1>4. ASSUME AccInv, NEW r \in AccRequests, RotateAccount(r), stales = 0
      PROVE  store'.accounts = store.accounts
  <2>1. PoolOK(store) /\ pool[r] = store
    BY <1>0, <1>4 DEF RotateAccount, Loaded
  <2>2. \/ store' = store
        \/ \E next : store' = [store EXCEPT !.active = next]
    BY <1>4, <2>1 DEF RotateAccount
  <2> QED
    BY <2>1, <2>2 DEF PoolOK
<1>5. AccInv /\ [AccNext]_accVars => AccDeadLeave
  <2> SUFFICES ASSUME AccInv, [AccNext]_accVars, stales = 0 PROVE AccDeadLeave
    BY DEF AccDeadLeave
  <2>1. CASE TurnsStale \/ UNCHANGED accVars \/ \E token \in AccTokens : TokenExpires(token)
    <3>1. store' = store
      BY <2>1 DEF TurnsStale, TokenExpires, accVars, accFiles
    <3> QED
      BY <1>3, <3>1
  <2>2. ASSUME NEW r \in AccRequests,
               \/ GetFresh(r) \/ AcquireLock(r) \/ SeesStale(r) \/ BreakLock(r) \/ LockTimesOut(r)
               \/ RefreshToken(r) \/ RefreshSucceeds(r) \/ RefreshFails(r) \/ RefreshRefused(r)
               \/ WriteAuth(r) \/ AuthSetFails(r) \/ SendToApi(r) \/ LoadStore(r)
        PROVE  AccDeadLeave
    <3>1. store' = store
      BY <2>2 DEF GetFresh, AcquireLock, SeesStale, BreakLock, LockTimesOut, RefreshToken,
                  RefreshSucceeds, RefreshFails, RefreshRefused, WriteAuth, AuthSetFails,
                  SendToApi, LoadStore, accFiles, accCopies
    <3> QED
      BY <1>3, <3>1
  <2>3. ASSUME NEW r \in AccRequests, SaveRefreshed(r) \/ RemoveAccount(r) \/ RotateAccount(r)
        PROVE  AccDeadLeave
    BY <1>1, <1>2, <1>3, <1>4, <2>3
  <2> QED
    BY <2>1, <2>2, <2>3 DEF AccNext
<1> QED
  BY <1>5, AccInvariant, PTL DEF AccSpec, AccRemovedIsDead
=============================================================================
