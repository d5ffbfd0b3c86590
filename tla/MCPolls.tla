------------------------------ MODULE MCPolls ------------------------------
(***************************************************************************)
(* Small instances of what the bot polls: the scheduled tasks, and the     *)
(* sessions of other clients mirrored into threads.  They share no         *)
(* variables: a behaviour exercises the one its initial state picks.       *)
(***************************************************************************)
EXTENDS ScheduledTasks, ExternalSync

CONSTANTS s1, s2, d1, d2 \* of ExternalSync

VARIABLE part

HomeOf(s) == IF s = s1 THEN d1 ELSE d2

PollInit == part \in {"tasks", "ext"} /\ TaskInit /\ ExtInit

PollNext ==
  /\ UNCHANGED part
  /\ \/ part = "tasks" /\ TaskNext /\ UNCHANGED extVars
     \/ part = "ext" /\ ExtNext /\ UNCHANGED taskVars

\* The fairness each component states, owed while it is the one exercised.
PollFairness ==
  /\ WF_taskVars(part = "tasks" /\ PollerStep)
  /\ \A t \in Tasks : WF_taskVars(part = "tasks" /\ ClaimGetsStale(t))
  /\ WF_extVars(part = "ext" /\ PollGoesOn)

PollSpec == PollInit /\ [][PollNext]_<<part, taskVars, extVars>>
PollFairSpec == PollSpec /\ PollFairness

=============================================================================
