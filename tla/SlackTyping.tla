----------------------------- MODULE SlackTyping -----------------------------
(***************************************************************************)
(* The typing status the Discord-Slack bridge keeps in one Slack thread.   *)
(* Requests and messages are logged as timed events, an intent is derived  *)
(* from the last event of each type, and a reconciler acts on it: it calls *)
(* Slack, logs what came of it and sets a timer for the next thing due.    *)
(*                                                                         *)
(* Abstractions.  Of the log only the last time of each type is kept, 0 if *)
(* there is none; it never reaches its limit of 200 events.  Nothing logs  *)
(* a stop request, so the intent has no branch for it.  A call to Slack    *)
(* takes time; a timer may be late.                                        *)
(***************************************************************************)
EXTENDS Naturals, FiniteSets, FiniteSetsExt

CONSTANTS TypLease, TypDebounce, \* leaseMs and stopDebounceMs
          TypRetryAfter,         \* what Slack answers when it limits the rate
          MaxCallTime,           \* bound: how long a call takes
          MaxTypTime, MaxFaults  \* bounds: the clock, calls that do not set the status

ASSUME TypAssumption ==
  /\ {TypLease, TypDebounce, TypRetryAfter, MaxTypTime} \subseteq Nat \ {0}
  /\ {MaxCallTime, MaxFaults} \subseteq Nat

VARIABLES
  now,
  last,   \* the last event of each type
  call,   \* the call to Slack in flight, "no" when the reconciler does not run
  called, \* when it was made
  dirty,  \* something was logged meanwhile
  wake,   \* the timer, 0 if none
  faults, \* how often a status was not set
  limit,  \* until when Slack limits the rate, as it said when it refused a status
  clearLimit \* the same, as it said when it refused to clear one

typVars == <<now, last, call, called, dirty, wake, faults, limit, clearLimit>>

Kinds == {"start", "message", "sent", "cleared", "retryAt"}
NoEvents == [k \in Kinds |-> 0]
Times == 0 .. MaxTypTime + TypLease + TypDebounce + TypRetryAfter

TypTypeOK ==
  /\ now \in 1 .. MaxTypTime /\ last \in [Kinds -> Times]
  /\ call \in {"no", "set", "clear"} /\ called \in Times
  /\ dirty \in BOOLEAN /\ wake \in Times
  /\ faults \in 0 .. MaxFaults /\ limit \in Times /\ clearLimit \in Times

TypInit ==
  /\ now = 1 /\ last = NoEvents
  /\ call = "no" /\ called = 0 /\ dirty = FALSE /\ wake = 0
  /\ faults = 0 /\ limit = 0 /\ clearLimit = 0

-----------------------------------------------------------------------------
(* deriveTypingIntent *)

Active(e) == e.sent > e.cleared
StartAfterStatus(e) == e.start > e.sent
Blocked(e) == now < e.retryAt
\* When the reply of the assistant ends the typing, 0 if it does not
StopDue(e) == IF e.message # 0 /\ e.start <= e.message THEN e.message + TypDebounce ELSE 0
StopIsDue(e) == StopDue(e) # 0 /\ now >= StopDue(e)
LeaseExpired(e) == now >= e.sent + TypLease

\* A mutant of ShouldSend: the retry moment counts for a refresh only.
SendsWhenBlocked(e) ==
  IF Active(e) THEN StartAfterStatus(e) /\ ~Blocked(e) /\ ~StopIsDue(e) /\ LeaseExpired(e)
  ELSE StartAfterStatus(e)

ShouldSend(e) ==
  /\ StartAfterStatus(e) /\ ~Blocked(e)
  /\ Active(e) => ~StopIsDue(e) /\ LeaseExpired(e)

ShouldClear(e) ==
  /\ Active(e)
  /\ StopIsDue(e) \/ (LeaseExpired(e) /\ ~StartAfterStatus(e))

\* Nothing is due later when something is due now.
NextWake(e) ==
  LET retry == IF Blocked(e) THEN {e.retryAt} ELSE {}
      stop  == IF StopDue(e) # 0 THEN {StopDue(e)} ELSE {}
      wakes == IF ~Active(e) \/ LeaseExpired(e) THEN retry
               ELSE retry \cup stop \cup {e.sent + TypLease}
  IN  IF ShouldSend(e) \/ ShouldClear(e) \/ wakes = {} THEN 0 ELSE Min(wakes)

-----------------------------------------------------------------------------
(* reconcileThreadTypingState and scheduleThreadTypingWake *)

\* The loop ends: the timer is set, or the log is dropped when nothing is left.
Rest(e) ==
  /\ call' = "no" /\ UNCHANGED called /\ dirty' = FALSE
  /\ wake' = NextWake(e)
  /\ last' = IF NextWake(e) = 0 /\ ~Active(e) /\ ~StartAfterStatus(e) THEN NoEvents ELSE e

\* One turn of the loop, with the timer that is set meanwhile
Reconcile(e, timer) ==
  IF ShouldSend(e) \/ ShouldClear(e)
  THEN /\ call' = IF ShouldSend(e) THEN "set" ELSE "clear"
       /\ called' = now /\ dirty' = FALSE /\ last' = e /\ wake' = timer
  ELSE Rest(e)

\* Something was logged: the reconciler runs, or will take another turn.
Logged(e) ==
  IF call = "no" THEN Reconcile(e, wake)
  ELSE dirty' = TRUE /\ last' = e /\ UNCHANGED <<call, called, wake>>

\* A call has ended: another turn only if something was logged meanwhile.
Ended(e) == IF dirty THEN Reconcile(e, wake) ELSE Rest(e)

RequestStart ==
  /\ Logged([last EXCEPT !.start = now])
  /\ UNCHANGED <<now, faults, limit, clearLimit>>
NoteAssistantMessage ==
  /\ Logged([last EXCEPT !.message = now])
  /\ UNCHANGED <<now, faults, limit, clearLimit>>

WakeFires ==
  /\ wake # 0 /\ now >= wake
  /\ IF call = "no" THEN Reconcile(last, 0)
     ELSE dirty' = TRUE /\ wake' = 0 /\ UNCHANGED <<last, call, called>>
  /\ UNCHANGED <<now, faults, limit, clearLimit>>

CallTook == call # "no" /\ called < now
StatusSet ==
  /\ CallTook /\ call = "set"
  /\ Ended([last EXCEPT !.sent = now])
  /\ UNCHANGED <<now, faults, limit, clearLimit>>
RateLimited ==
  /\ CallTook /\ call = "set" /\ faults < MaxFaults
  /\ faults' = faults + 1 /\ limit' = now + TypRetryAfter
  /\ Ended([last EXCEPT !.retryAt = Max({@, now + TypRetryAfter})])
  /\ UNCHANGED <<now, clearLimit>>
\* An error of any other kind is dropped.
StatusFails ==
  /\ CallTook /\ call = "set" /\ faults < MaxFaults
  /\ faults' = faults + 1
  /\ Ended(last)
  /\ UNCHANGED <<now, limit, clearLimit>>
\* Cleared, or taken for cleared when the call fails (which is not counted)
StatusCleared ==
  /\ CallTook /\ call = "clear"
  /\ Ended([last EXCEPT !.cleared = now])
  /\ UNCHANGED <<now, faults, limit, clearLimit>>

\* Clearing is the same method of Slack.  When it is limited the status is taken
\* for cleared as well, and the log is not told of the limit.
ClearLimited ==
  /\ CallTook /\ call = "clear" /\ faults < MaxFaults
  /\ faults' = faults + 1 /\ clearLimit' = now + TypRetryAfter
  /\ Ended([last EXCEPT !.cleared = now])
  /\ UNCHANGED <<now, limit>>

TypTick ==
  /\ now < MaxTypTime /\ now' = now + 1
  /\ call # "no" => now < called + MaxCallTime
  /\ UNCHANGED <<last, call, called, dirty, wake, faults, limit, clearLimit>>

-----------------------------------------------------------------------------
TypNext ==
  \/ RequestStart \/ NoteAssistantMessage \/ WakeFires
  \/ StatusSet \/ RateLimited \/ StatusFails \/ StatusCleared \/ ClearLimited
  \/ TypTick

TypSpec == TypInit /\ [][TypNext]_typVars

-----------------------------------------------------------------------------
(* Properties *)

\* After Slack refused a status for its rate, none is sent before the time it
\* named, although the log that knows of the limit is dropped when a thread comes
\* to rest.  This is not so of a limit it named when it refused to clear a status
\* (clearLimit): the catch of the clear drops it.
TypHonoursLimit == [][call # "set" /\ call' = "set" => now >= limit]_typVars

=============================================================================
