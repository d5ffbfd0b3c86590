---------------------------- MODULE SleepPromise ----------------------------
(***************************************************************************)
(* What the session_sleeps table promises to a session that called         *)
(* kimaki_sleep, with no runner, no Discord message and no crash in sight: *)
(* every call sets an alarm under an identifier never used before, an      *)
(* alarm that has not rung neither wakes its session nor is given up, and  *)
(* an alarm is settled once.  SessionSleep implements it.                  *)
(***************************************************************************)
EXTENDS Naturals

CONSTANTS Sessions,
          Ids         \* identifiers, drawn from Nat \ {0}

VARIABLE alarm      \* session -> its latest alarm; id 0 is "never slept"

States == {"planned", "consumed", "cancelled", "failed"}
NeverSlept == [id |-> 0, status |-> "consumed", due |-> TRUE]

Init == alarm = [s \in Sessions |-> NeverSlept]

Sleep(s) ==
  \E id \in Ids :
    /\ \A r \in Sessions : alarm[r].id < id
    /\ alarm' = [alarm EXCEPT ![s] = [id |-> id, status |-> "planned", due |-> FALSE]]

Ring(s) ==
  /\ alarm[s].status = "planned" /\ ~ alarm[s].due
  /\ alarm' = [alarm EXCEPT ![s].due = TRUE]

CallOff(s) ==
  /\ alarm[s].status = "planned"
  /\ alarm' = [alarm EXCEPT ![s].status = "cancelled"]

Settle(s) ==
  /\ alarm[s].status = "planned" /\ alarm[s].due
  /\ \E how \in {"consumed", "failed"} : alarm' = [alarm EXCEPT ![s].status = how]

Next == \E s \in Sessions : Sleep(s) \/ Ring(s) \/ CallOff(s) \/ Settle(s)

Spec == Init /\ [][Next]_alarm

=============================================================================
