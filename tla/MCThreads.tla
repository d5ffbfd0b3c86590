----------------------------- MODULE MCThreads -----------------------------
(***************************************************************************)
(* Small instances of what surrounds one thread: its queue, its runtime in *)
(* the registry, and the event buffer.  They share no variables: a         *)
(* behaviour exercises the one its initial state picks, and the others     *)
(* stay as they start.                                                     *)
(***************************************************************************)
EXTENDS ThreadQueue, RuntimeRegistry, EventBuffer

VARIABLE part

\* Bounds: three queued messages; or two messages of any kind; or two queued messages
\* next to a direct one whose run asks once, while nothing fails.  The queued messages
\* are alike, so one of them is always the last to be sent.
Used == {m \in Msgs : job[m].at # "new"}
LastSent == CHOOSE m \in Queued : TRUE
SentLast == LastSent \in Used => Queued \subseteq Used
TwoOfThem == Cardinality(Used) <= 2
ThreeQueued == questions = 0 /\ Used \cap Direct = {}
NothingGoesWrong ==
  /\ aborts = 0 /\ questions <= 1 /\ Cardinality(Used \cap Queued) <= 2
  /\ \A m \in Msgs : job[m].at \notin {"withdrawn", "lost", "report", "failing", "failed"}
Bounded == SentLast /\ (TwoOfThem \/ ThreeQueued \/ NothingGoesWrong)

ThrInit ==
  /\ part \in {"queue", "reg", "buf"}
  /\ Init /\ BufInit
  /\ RegInit /\ (part # "reg" => ~young /\ ~parentSaved)

ThrNext ==
  /\ UNCHANGED part
  /\ \/ /\ part = "queue" /\ Next /\ Bounded'
        /\ UNCHANGED <<regVars, bufVars>>
     \/ part = "reg" /\ RegNext /\ UNCHANGED <<vars, bufVars>>
     \/ part = "buf" /\ BufNext /\ UNCHANGED <<vars, regVars>>

thrVars == <<part, vars, regVars, bufVars>>

ThrSpec == ThrInit /\ [][ThrNext]_thrVars

\* Every variable of every component has its type.
ThrTypeOK == TypeOK /\ RegTypeOK /\ BufTypeOK
=============================================================================
