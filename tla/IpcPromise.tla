----------------------------- MODULE IpcPromise -----------------------------
(***************************************************************************)
(* What the ipc_requests table promises to the tool calls of the plugin,   *)
(* with no poller, no Discord and no restart in sight: a call asks once,   *)
(* an answer is final, being called off is not (the bot may still answer), *)
(* and a tool that returns does so once, with what the table says, or      *)
(* because it has waited long enough.  IpcRequests implements it.          *)
(***************************************************************************)
CONSTANTS Uploads, Buttons

VARIABLES answer, \* call -> what the table says
          tool    \* call -> where the tool call is, or what it returned

Calls == Uploads \cup Buttons
AnswersTo(c) == IF c \in Uploads THEN {"files", "empty", "error"} ELSE {"ok", "error"}

\* The calls that are never made count as returned.
Init ==
  /\ answer = [c \in Calls |-> "unasked"]
  /\ tool \in [Calls -> {"new", "cancelled"}]

Ask(c) ==
  /\ tool[c] = "new" /\ answer[c] = "unasked"
  /\ answer' = [answer EXCEPT ![c] = "open"]
  /\ tool' = [tool EXCEPT ![c] = "polling"]

Answer(c) ==
  /\ answer[c] \in {"open", "cancelled"}
  /\ \E a \in AnswersTo(c) : answer' = [answer EXCEPT ![c] = a]
  /\ UNCHANGED tool

CallOff(some) ==
  /\ \A c \in some : answer[c] = "open"
  /\ answer' = [c \in Calls |-> IF c \in some THEN "cancelled" ELSE answer[c]]
  /\ UNCHANGED tool

Return(c) ==
  /\ tool[c] = "polling" /\ answer[c] \notin {"unasked", "open"}
  /\ tool' = [tool EXCEPT ![c] = answer[c]]
  /\ UNCHANGED answer

GiveUp(c) ==
  /\ tool[c] = "polling"
  /\ tool' = [tool EXCEPT ![c] = "timeout"]
  /\ UNCHANGED answer

Next ==
  \/ \E c \in Calls : Ask(c) \/ Answer(c) \/ Return(c) \/ GiveUp(c)
  \/ \E some \in SUBSET Calls : CallOff(some)

Spec == Init /\ [][Next]_<<answer, tool>>

=============================================================================
