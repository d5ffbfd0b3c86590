---------------------------- MODULE EventBuffer ----------------------------
(***************************************************************************)
(* What a thread runtime reads in its buffer of opencode events: when an   *)
(* answer of the current turn has ended and gets its footer, and how many  *)
(* tokens an idle session has used since it was idle before.  The buffer   *)
(* forgets its oldest entries, takes events of every session, and takes    *)
(* the markers of dispatches and handoffs at any time, also while the      *)
(* handler of an event awaits.                                             *)
(*                                                                         *)
(* Abstractions.  One session; an entry is what the two derivations read   *)
(* of it.  Events are handled in the order they happen, one at a time.     *)
(* Every answer has visible output.  The snapshot of the buffer in the     *)
(* database, and the buffer of a runtime that starts during a turn, are    *)
(* left out.                                                               *)
(***************************************************************************)
EXTENDS Naturals, Sequences, FiniteSets, SequencesExt

CONSTANTS BufMax,      \* EVENT_BUFFER_MAX
          MaxTurns,    \* bound: user messages
          MaxAnswers,  \* bound: assistant messages of a turn
          MaxTokens,   \* bound: tokens of an assistant message
          MaxEntries   \* bound: entries made

ASSUME BufAssumption ==
  {BufMax, MaxTurns, MaxAnswers, MaxTokens, MaxEntries} \subseteq Nat \ {0}

Turns == 1 .. MaxTurns
AnswerIds == Turns \X (1 .. MaxAnswers)

VARIABLES
  buffer,    \* eventBuffer
  entries,   \* nextEventIndex: entries made so far
  userTurn,  \* opencode: the latest user message
  answers,   \* opencode: assistant messages, and what they have come to
  awaiting,  \* the completed message whose parts are being flushed, or nothing
  footers,   \* footers posted for an assistant message
  billed,    \* tokens tracked for a turn
  due,       \* history: messages that ended their turn, and were handled undisturbed
  evicted    \* history: turns of which an entry was evicted

bufServer == <<userTurn, answers>>
bufOut == <<footers, billed, due>>
bufVars == <<buffer, entries, bufServer, awaiting, bufOut, evicted>>

Outcomes == {"open", "tool-calls", "stop", "error"}
NotBegun == [tokens |-> 0, outcome |-> "none"]

Entries == [type : {"user", "assistant", "idle", "other"}, turn : 0 .. MaxTurns,
            nr : 0 .. MaxAnswers, tokens : 0 .. MaxTokens, completed : BOOLEAN]
Plain(type) == [type |-> type, turn |-> 0, nr |-> 0, tokens |-> 0, completed |-> FALSE]
UserEntry(u) == [Plain("user") EXCEPT !.turn = u]
AnswerEntry(a, info) ==
  [type |-> "assistant", turn |-> a[1], nr |-> a[2], tokens |-> info.tokens,
   completed |-> info.outcome # "open"]

BufTypeOK ==
  /\ buffer \in Seq(Entries) /\ Len(buffer) <= BufMax
  /\ entries \in 0 .. MaxEntries /\ userTurn \in 0 .. MaxTurns
  /\ answers \in [AnswerIds -> [tokens : 0 .. MaxTokens, outcome : Outcomes] \cup {NotBegun}]
  /\ \A w \in awaiting : w.answer \in AnswerIds /\ {w.first, w.disturbed} \subseteq BOOLEAN
  /\ Cardinality(awaiting) <= 1
  /\ footers \in [AnswerIds -> Nat] /\ billed \in [Turns -> Nat]
  /\ due \subseteq AnswerIds /\ evicted \subseteq Turns

BufInit ==
  /\ buffer = <<>> /\ entries = 0 /\ userTurn = 0
  /\ answers = [a \in AnswerIds |-> NotBegun]
  /\ awaiting = {}
  /\ footers = [a \in AnswerIds |-> 0] /\ billed = [u \in Turns |-> 0]
  /\ due = {} /\ evicted = {}

-----------------------------------------------------------------------------
(* The buffer and its derivations; n: up to this index *)

\* appendEventToBuffer
Buffered(e) ==
  LET full == Len(buffer) = BufMax IN
  /\ entries < MaxEntries /\ entries' = entries + 1
  /\ buffer' = Append(IF full THEN Tail(buffer) ELSE buffer, e)
  /\ evicted' = IF full /\ Head(buffer).turn # 0 THEN evicted \cup {Head(buffer).turn} ELSE evicted

\* getLatestUserMessage: user messages are created one after the other.
LatestUser(b, n) == Max({0} \cup {b[i].turn : i \in {j \in 1 .. n : b[j].type = "user"}})

IsOf(e, a) == e.type = "assistant" /\ e.turn = a[1] /\ e.nr = a[2]

\* isAssistantMessageInLatestUserTurn
InLatestUserTurn(b, a) ==
  LatestUser(b, Len(b)) = a[1] /\ \E i \in DOMAIN b : IsOf(b[i], a)

\* A mutant of CompletedBefore: an earlier completion is not looked for.
CompletedNever(b, a, n) == FALSE

\* hasAssistantMessageCompletedBefore
CompletedBefore(b, a, n) == \E i \in 1 .. n : IsOf(b[i], a) /\ b[i].completed

\* getLatestTurnTokenUsage: the last snapshot of each assistant message
LastTokens(b, a, n) ==
  LET of == {i \in 1 .. n : IsOf(b[i], a)} IN IF of = {} THEN 0 ELSE b[Max(of)].tokens
TurnTokens(b, n) ==
  LET u == LatestUser(b, n)
  IN  IF u = 0 THEN 0
      ELSE MapThenSumSet(LAMBDA k : LastTokens(b, <<u, k>>, n), 1 .. MaxAnswers)

\* A mutant of TokensBefore: earlier idles of the turn are not looked for.
TokensBeforeNone(b, u, n) == 0

\* What was counted at the previous idle of the turn
TokensBefore(b, u, n) ==
  LET first == Min({i \in 1 .. n : b[i].type = "user" /\ b[i].turn = u})
      idles == {i \in first + 1 .. n - 1 : b[i].type = "idle"}
  IN  IF idles = {} THEN 0 ELSE TurnTokens(b, Max(idles))

\* trackIdleTokenUsage, of getIdleTokenUsageDelta
Bills(b) ==
  LET n == Len(b)
      u == LatestUser(b, n) IN
  billed' = IF u = 0 \/ TurnTokens(b, n) <= TokensBefore(b, u, n) THEN billed
            ELSE [billed EXCEPT ![u] = @ + (TurnTokens(b, n) - TokensBefore(b, u, n))]

-----------------------------------------------------------------------------
(* opencode's events, and handleEvent *)

\* The next event is handled when the handler of the one before has ended.
Handles(e) == awaiting = {} /\ Buffered(e)

BufPrompted ==
  /\ userTurn < MaxTurns
  /\ userTurn' = userTurn + 1
  /\ Handles(UserEntry(userTurn'))
  /\ UNCHANGED <<answers, awaiting, bufOut>>

\* A user message is reported again, with its summary.
UserRepeated(u) ==
  /\ u <= userTurn /\ Handles(UserEntry(u))
  /\ UNCHANGED <<bufServer, awaiting, bufOut>>

\* handleMessageUpdated up to the flush of the parts.  An update that ends its turn
\* and is taken for one of an old turn is not handled: its footer is due at once.
AnswerUpdated(a, info, first) ==
  /\ answers' = [answers EXCEPT ![a] = info]
  /\ Handles(AnswerEntry(a, info))
  /\ LET ends == info.outcome = "stop"
         current == InLatestUserTurn(buffer', a) IN
     /\ awaiting' = IF ends /\ current
                    THEN {[answer |-> a, first |-> first, disturbed |-> FALSE]} ELSE {}
     /\ due' = IF ends /\ first /\ a[1] = userTurn /\ ~current THEN due \cup {a} ELSE due
  /\ UNCHANGED <<userTurn, footers, billed>>

AnswerStarts(a) ==
  /\ a[1] = userTurn /\ answers[a] = NotBegun
  /\ \A k \in 1 .. a[2] - 1 : answers[<<a[1], k>>] # NotBegun
  /\ AnswerUpdated(a, [tokens |-> 0, outcome |-> "open"], FALSE)

\* Also after the idle event of an aborted run
AnswerProgresses(a) ==
  /\ answers[a].outcome = "open" /\ answers[a].tokens < MaxTokens
  /\ AnswerUpdated(a, [answers[a] EXCEPT !.tokens = @ + 1], FALSE)

AnswerEnds(a, outcome) ==
  /\ answers[a].outcome = "open"
  /\ AnswerUpdated(a, [answers[a] EXCEPT !.outcome = outcome], TRUE)

AnswerRepeated(a) ==
  /\ answers[a].outcome \in {"tool-calls", "stop", "error"}
  /\ AnswerUpdated(a, answers[a], FALSE)

\* The parts are flushed: wasAlreadyCompleted, of the entries before the last one,
\* whichever that is by now, then handleNaturalAssistantCompletion.
FlushEnds ==
  \E w \in awaiting :
    /\ awaiting' = {}
    /\ footers' = IF CompletedBefore(buffer, w.answer, Len(buffer) - 1) THEN footers
                  ELSE [footers EXCEPT ![w.answer] = @ + 1]
    /\ due' = IF w.first /\ ~w.disturbed THEN due \cup {w.answer} ELSE due
    /\ UNCHANGED <<buffer, entries, bufServer, billed, evicted>>

BecomesIdle ==
  /\ Handles(Plain("idle"))
  /\ Bills(buffer')
  /\ UNCHANGED <<bufServer, awaiting, footers, due>>

\* A marker, whatever is being awaited: markQueueDispatchBusy and Idle,
\* markQuestionQueueHandoffStarted; or another event while nothing is, of any session.
Interleaves(type) ==
  /\ Buffered(Plain(type))
  /\ awaiting' = {[w EXCEPT !.disturbed = TRUE] : w \in awaiting}
  /\ UNCHANGED <<bufServer, bufOut>>

BufNext ==
  \/ BufPrompted \/ FlushEnds \/ BecomesIdle
  \/ \E u \in Turns : UserRepeated(u)
  \/ \E a \in AnswerIds :
       \/ AnswerStarts(a) \/ AnswerProgresses(a) \/ AnswerRepeated(a)
       \/ \E outcome \in {"tool-calls", "stop", "error"} : AnswerEnds(a, outcome)
  \/ \E type \in {"idle", "other"} : Interleaves(type)

BufSpec == BufInit /\ [][BufNext]_bufVars

-----------------------------------------------------------------------------
(* Properties, for turns whose entries are still in the buffer *)

\* A message that ends its turn gets one footer, however often it is reported
\* again.  Excepted is one whose handler was disturbed by a marker: it may get none.
BufFooterOnce ==
  \A a \in AnswerIds : a[1] \notin evicted =>
    footers[a] <= 1 /\ (a \in due => footers[a] = 1)

\* However often a turn becomes idle, and whatever is reported late, its tokens are
\* not tracked twice.
Spent(u) == MapThenSumSet(LAMBDA k : answers[<<u, k>>].tokens, 1 .. MaxAnswers)
BufTokensNotTwice == \A u \in Turns \ evicted : billed[u] <= Spent(u)
=============================================================================
