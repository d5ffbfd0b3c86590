-------------------------- MODULE MCScheduledTasks --------------------------
(* Small instances of ScheduledTasks for TLC. *)
EXTENDS ScheduledTasks, TLC

Interchangeable == Permutations(Buttons) \cup Permutations(Tasks)

=============================================================================
