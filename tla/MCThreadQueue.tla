--------------------------- MODULE MCThreadQueue ---------------------------
(* Small instances of ThreadQueue for TLC. *)
EXTENDS ThreadQueue

\* Bounds: a fresh thread with two messages of any kind, next to a retry, an abort or a
\* second session.
TwoOfThem == Cardinality({m \in Msgs : job[m].at # "new"}) <= 2
OneOfThese ==
  /\ retries = 0 \/ aborts = 0
  /\ retries + aborts > 0 => Created \subseteq {0, 1}

FreshSpec == Init /\ [][Next /\ (TwoOfThem /\ OneOfThese)']_vars /\ Fairness
=============================================================================
