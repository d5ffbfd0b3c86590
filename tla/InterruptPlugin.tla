--------------------------- MODULE InterruptPlugin ---------------------------
(***************************************************************************)
(* The plugin that interrupts a busy session for a new message: a message  *)
(* that no assistant message follows in time makes it abort the run and    *)
(* send the message again, since the abort empties OpenCode's queue.       *)
(*                                                                         *)
(* Abstractions.  One session.  A timer fires at any moment.  OpenCode is  *)
(* modelled from what the plugin says of it: an abort ends the run, clears *)
(* the queue, makes the session idle and says so in an event that may be   *)
(* late or lost.  session.deleted is left out.                             *)
(***************************************************************************)
EXTENDS Naturals, Sequences, SequencesExt

CONSTANTS IntMessages, NoMessage,
          MaxIntFailures \* bound: calls that throw

ASSUME IntAssumption == NoMessage \notin IntMessages /\ MaxIntFailures \in Nat

VARIABLES
  turn,      \* message -> what became of it in OpenCode
  line,      \* OpenCode's queue of prompts
  intEvents, \* events on their way to the plugin
  pending,   \* the Map, in insertion order
  ticking,   \* messages of the Map whose timer has not fired
  interrupt, \* the abort and replay in flight: where it is, and its message
  replayed,  \* replayedMessageIds
  replays,   \* message -> how often it was sent again
  intFailures

intVars == <<turn, line, intEvents, pending, ticking, interrupt, replayed, replays, intFailures>>
pluginVars == <<pending, ticking, interrupt, replayed, replays, intFailures>>

IntTypeOK ==
  /\ turn \in [IntMessages -> {"new", "queued", "running", "answered", "aborted", "cleared"}]
  /\ line \in Seq(IntMessages) /\ pending \in Seq(IntMessages) /\ IsInjective(pending)
  /\ intEvents \in Seq({"started"} \X IntMessages \cup {<<"idle", NoMessage>>})
  /\ ticking \subseteq ToSet(pending)
  /\ interrupt \in [at : {"off", "aborting", "polling", "replaying", "returning"},
                    message : IntMessages \cup {NoMessage}]
  /\ replayed \subseteq IntMessages /\ replays \in [IntMessages -> 0 .. 2]
  /\ intFailures \in 0 .. MaxIntFailures

NoInterrupt == [at |-> "off", message |-> NoMessage]
IntInit ==
  /\ turn = [m \in IntMessages |-> "new"]
  /\ line = <<>> /\ intEvents = <<>> /\ pending = <<>> /\ ticking = {}
  /\ interrupt = NoInterrupt /\ replayed = {}
  /\ replays = [m \in IntMessages |-> 0] /\ intFailures = 0

-----------------------------------------------------------------------------
(* The Map *)

Interrupting == interrupt.at # "off"
Without(m) ==
  IF m \in ToSet(pending) THEN RemoveAt(pending, CHOOSE i \in DOMAIN pending : pending[i] = m)
  ELSE pending
ClearPending(m) == pending' = Without(m) /\ ticking' = ticking \ {m}
\* schedulePending puts the entry at the end of the Map.
SchedulePending(m) == pending' = Append(Without(m), m) /\ ticking' = ticking \cup {m}
PendingStays == UNCHANGED <<pending, ticking>>

\* A mutant of ChatMessage: a replayed message is scheduled like any other.
ChatSchedules(m) ==
  /\ IF m \in ToSet(pending) THEN PendingStays ELSE SchedulePending(m)
  /\ UNCHANGED replayed

\* The chat.message hook
ChatMessage(m) ==
  IF m \in replayed THEN replayed' = replayed \ {m} /\ PendingStays
  ELSE /\ IF m \in ToSet(pending) THEN PendingStays ELSE SchedulePending(m)
       /\ UNCHANGED replayed

\* The next message of the session is tried soon.
DrainNext(rest) ==
  IF rest = <<>> THEN pending' = rest /\ ticking' = {}
  ELSE /\ pending' = Append(Tail(rest), Head(rest))
       /\ ticking' = (ticking \cap ToSet(rest)) \cup {Head(rest)}

-----------------------------------------------------------------------------
(* OpenCode *)

Running == {m \in IntMessages : turn[m] = "running"}
IntPrompt(m) ==
  /\ turn[m] = "new"
  /\ turn' = [turn EXCEPT ![m] = "queued"] /\ line' = Append(line, m)
  /\ ChatMessage(m)
  /\ UNCHANGED <<intEvents, interrupt, replays, intFailures>>

IntRunStarts ==
  /\ Running = {} /\ line # <<>>
  /\ turn' = [turn EXCEPT ![Head(line)] = "running"] /\ line' = Tail(line)
  /\ intEvents' = Append(intEvents, <<"started", Head(line)>>)
  /\ UNCHANGED pluginVars

IntRunEnds(m) ==
  /\ turn[m] = "running" /\ turn' = [turn EXCEPT ![m] = "answered"]
  /\ intEvents' = IF line = <<>> THEN Append(intEvents, <<"idle", NoMessage>>) ELSE intEvents
  /\ UNCHANGED <<line, pluginVars>>

IntEventLost ==
  /\ intEvents # <<>> /\ intEvents' = Tail(intEvents)
  /\ UNCHANGED <<turn, line, pluginVars>>

-----------------------------------------------------------------------------
(* The event hook *)

\* message.updated of an assistant message
AssistantStarted(m) ==
  /\ intEvents # <<>> /\ Head(intEvents) = <<"started", m>> /\ intEvents' = Tail(intEvents)
  /\ ClearPending(m)
  /\ UNCHANGED <<turn, line, interrupt, replayed, replays, intFailures>>

SessionIdle ==
  /\ intEvents # <<>> /\ Head(intEvents)[1] = "idle" /\ intEvents' = Tail(intEvents)
  /\ IF Interrupting THEN PendingStays /\ UNCHANGED replayed
     ELSE /\ pending' = <<>> /\ ticking' = {}
          /\ replayed' = replayed \ ToSet(pending)
  /\ UNCHANGED <<turn, line, interrupt, replays, intFailures>>

-----------------------------------------------------------------------------
(* interruptPendingMessage *)

\* A mutant of TimerFires: a timer that fires during an interrupt is not set again.
TimerGivesWay(m) ==
  /\ m \in ticking
  /\ interrupt' = IF Interrupting THEN interrupt ELSE [at |-> "aborting", message |-> m]
  /\ ticking' = ticking \ {m}
  /\ UNCHANGED <<turn, line, intEvents, pending, replayed, replays, intFailures>>

TimerFires(m) ==
  /\ m \in ticking
  /\ IF Interrupting THEN SchedulePending(m) /\ UNCHANGED interrupt
     ELSE /\ interrupt' = [at |-> "aborting", message |-> m]
          /\ ticking' = ticking \ {m} /\ UNCHANGED pending
  /\ UNCHANGED <<turn, line, intEvents, replayed, replays, intFailures>>

AbortCall ==
  /\ interrupt.at = "aborting" /\ interrupt' = [interrupt EXCEPT !.at = "polling"]
  /\ turn' = [m \in IntMessages |-> CASE turn[m] = "running" -> "aborted"
                                      [] turn[m] = "queued" -> "cleared"
                                      [] OTHER -> turn[m]]
  /\ line' = <<>>
  /\ intEvents' = Append(intEvents, <<"idle", NoMessage>>)
  /\ UNCHANGED <<pending, ticking, replayed, replays, intFailures>>

\* Any of the three calls throws: the error is logged.
CallThrows ==
  /\ Interrupting
  /\ intFailures < MaxIntFailures /\ intFailures' = intFailures + 1
  /\ interrupt' = NoInterrupt /\ DrainNext(pending)
  /\ UNCHANGED <<turn, line, intEvents, replayed, replays>>

\* The session is idle, or busy for too long: the message is sent again unless
\* it left the Map, and then nothing is drained.
Polled ==
  /\ interrupt.at = "polling"
  /\ IF interrupt.message \in ToSet(pending)
     THEN /\ interrupt' = [interrupt EXCEPT !.at = "replaying"]
          /\ replayed' = replayed \cup {interrupt.message}
          /\ ClearPending(interrupt.message)
     ELSE interrupt' = NoInterrupt /\ PendingStays /\ UNCHANGED replayed
  /\ UNCHANGED <<turn, line, intEvents, replays, intFailures>>

\* promptAsync reaches OpenCode, which calls the chat.message hook.
ReplayLands ==
  /\ interrupt.at = "replaying" /\ interrupt' = [interrupt EXCEPT !.at = "returning"]
  /\ LET m == interrupt.message
     IN  /\ turn' = [turn EXCEPT ![m] = "queued"] /\ line' = Append(line, m)
         /\ replays' = [replays EXCEPT ![m] = @ + 1]
         /\ ChatMessage(m)
  /\ UNCHANGED <<intEvents, intFailures>>

ReplayReturns ==
  /\ interrupt.at = "returning"
  /\ interrupt' = NoInterrupt /\ DrainNext(pending)
  /\ UNCHANGED <<turn, line, intEvents, replayed, replays, intFailures>>

-----------------------------------------------------------------------------
IntInterrupts == AbortCall \/ Polled \/ ReplayLands \/ ReplayReturns

IntNext ==
  \/ \E m \in IntMessages : IntPrompt(m) \/ IntRunEnds(m) \/ AssistantStarted(m) \/ TimerFires(m)
  \/ IntRunStarts \/ IntEventLost \/ SessionIdle \/ IntInterrupts \/ CallThrows

\* The plugin's timers fire and its calls settle; OpenCode may work for ever.
IntFairness ==
  /\ WF_intVars(IntInterrupts)
  /\ \A m \in IntMessages : WF_intVars(TimerFires(m))

IntSpec == IntInit /\ [][IntNext]_intVars
IntFairSpec == IntSpec /\ IntFairness

-----------------------------------------------------------------------------
(* Properties *)

\* An abort and replay does not lead to another one of the same message,
\* whatever comes late or is lost: there is no loop of aborts and replays.
IntReplayedOnce == \A m \in IntMessages : replays[m] <= 1

\* While no call throws, a message the plugin holds does not stay with it,
\* however many wait for the same session: it is sent again, or it was seen to
\* start or the session to be idle.
IntPendingDrains == \A m \in IntMessages : m \in ToSet(pending) ~> m \notin ToSet(pending)

=============================================================================
