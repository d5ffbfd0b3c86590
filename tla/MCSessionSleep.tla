--------------------------- MODULE MCSessionSleep ---------------------------
(* Small instances of SessionSleep for TLC. *)
EXTENDS SessionSleep, TLC

Interchangeable == Permutations(Threads) \cup Permutations(Sessions)

=============================================================================
