---------------------------- MODULE ExternalSync ----------------------------
(***************************************************************************)
(* The poller that mirrors sessions driven from a terminal into Discord    *)
(* threads.  Every few seconds a pass visits the directories one after the *)
(* other; in each it lists the sessions, and for each session it fetches   *)
(* the messages, finds or makes the thread, reads which parts were posted, *)
(* and posts the others, writing rows for each message after the post.     *)
(*                                                                         *)
(* Abstractions.  A part is its session and its place in it; it appears    *)
(* complete, and the channel's verbosity lets it through.  A runtime lives *)
(* in a thread from the first message in it to the restart; the parts of   *)
(* answers reach it as events, which it takes one after the other, posting *)
(* the part and then writing its row.  Typing pulses,                      *)
(* thread_sessions.source and failing writes are left out, and directories *)
(* and sessions are visited in any order.                                  *)
(***************************************************************************)
EXTENDS Naturals, Sequences, FiniteSets, SequencesExt

CONSTANTS ExtDirs, ExtSessions,
          ExtHome(_),    \* the directory of a session
          MaxExtParts,   \* bound: parts of a session
          MaxExtThreads, \* bound: threads
          MaxExtFaults   \* bound: failures, timeouts, restarts

ASSUME ExtAssumption ==
  /\ {MaxExtParts, MaxExtThreads, MaxExtFaults} \subseteq Nat
  /\ \A s \in ExtSessions : ExtHome(s) \in ExtDirs

ExtParts == ExtSessions \X (1 .. MaxExtParts)
ExtThreads == 1 .. MaxExtThreads
ExtRuntimes == ExtSessions \X ExtThreads
ExtRelays == ExtSessions \X ExtThreads \X (1 .. MaxExtParts)

VARIABLES
  said,      \* session -> its parts: who made each, and in which thread (0: none)
  bound,     \* thread_sessions: the latest thread of a session, 0 if none
  made,      \* threads made so far
  row,       \* part_messages: the thread a part was posted to, 0 if none
  posted,    \* thread -> how often a part was posted to it
  live,      \* the runtimes: a session and the thread
  events,    \* part events in the queues of runtimes: session, thread, part
  relaying,  \* parts a runtime has posted and not yet recorded
  pass,      \* the pass under way
  timedOut,  \* the signal of the directory's AbortController
  torn,      \* history: parts whose post may be repeated, see ExtPostedOnce
  extFaults

extVars == <<said, bound, made, row, posted, live, events, relaying, pass, timedOut, torn,
             extFaults>>
extTables == <<bound, made, row, posted>>
extRuntimes == <<live, events, relaying>>

NoPass == [at |-> "no", dirs |-> {}, dir |-> {}, sessions |-> {}, session |-> {},
           thread |-> 0, seen |-> 0, todo |-> {}, batch |-> {}]

SaidParts == [by : {"user", "agent"}, via : 0 .. MaxExtThreads]

ExtTypeOK ==
  /\ \A s \in ExtSessions : said[s] \in Seq(SaidParts) /\ Len(said[s]) <= MaxExtParts
  /\ bound \in [ExtSessions -> 0 .. MaxExtThreads] /\ made \in 0 .. MaxExtThreads
  /\ row \in [ExtParts -> 0 .. MaxExtThreads]
  /\ posted \in [ExtThreads -> [ExtParts -> 0 .. 2]]
  /\ live \subseteq ExtRuntimes /\ events \subseteq ExtRelays /\ relaying \subseteq ExtRelays
  /\ pass.at \in {"no", "directories", "listing", "sessions", "messages", "thread", "ids",
                  "batches", "record"}
  /\ pass.dirs \subseteq ExtDirs /\ pass.sessions \subseteq ExtSessions
  /\ pass.thread \in 0 .. MaxExtThreads /\ timedOut \in BOOLEAN
  /\ torn \subseteq ExtParts /\ extFaults \in 0 .. MaxExtFaults

ExtInit ==
  /\ said = [s \in ExtSessions |-> <<>>]
  /\ bound = [s \in ExtSessions |-> 0] /\ made = 0
  /\ row = [p \in ExtParts |-> 0]
  /\ posted = [th \in ExtThreads |-> [p \in ExtParts |-> 0]]
  /\ live = {} /\ events = {} /\ relaying = {}
  /\ pass = NoPass /\ timedOut = FALSE /\ torn = {} /\ extFaults = 0

-----------------------------------------------------------------------------
(* What is said in a session *)

\* isLatestUserTurnFromDiscord, of the first n parts
LatestTurnFromDiscord(s, n) ==
  \E i \in 1 .. n : /\ said[s][i].by = "user" /\ said[s][i].via # 0
                    /\ \A j \in 1 .. n : j > i => said[s][j].by # "user"

\* A pass that fetched the part may have taken the session for the terminal's.
Contested(s, i) == \E n \in i .. Len(said[s]) : ~LatestTurnFromDiscord(s, n)

Posts(th, ps) == posted' = [posted EXCEPT ![th] =
  [p \in ExtParts |-> IF p \in ps /\ @[p] < 2 THEN @[p] + 1 ELSE @[p]]]
Records(th, ps) == row' = [p \in ExtParts |-> IF p \in ps THEN th ELSE row[p]]

Says(s, by, via) ==
  /\ Len(said[s]) < MaxExtParts
  /\ said' = [said EXCEPT ![s] = Append(@, [by |-> by, via |-> via])]
PartsIn(relays) == {<<x[1], x[3]>> : x \in relays}

TypesInTerminal(s) ==
  /\ Says(s, "user", 0)
  /\ torn' = torn \cup PartsIn({x \in relaying : x[1] = s})
  /\ UNCHANGED <<extTables, extRuntimes, pass, timedOut, extFaults>>

\* A message in the thread of the session
TypesInDiscord(s) ==
  /\ bound[s] # 0 /\ Says(s, "user", bound[s])
  /\ live' = live \cup {<<s, bound[s]>>}
  /\ UNCHANGED <<extTables, events, relaying, pass, timedOut, torn, extFaults>>

\* A part of the answer, whoever asked; its event reaches the runtimes there are.
Listening(s) == {th \in ExtThreads : <<s, th>> \in live}
Answers(s) ==
  /\ said[s] # <<>> /\ Says(s, "agent", 0)
  /\ events' = events \cup {<<s, th, Len(said[s]) + 1>> : th \in Listening(s)}
  /\ UNCHANGED <<extTables, live, relaying, pass, timedOut, torn, extFaults>>

-----------------------------------------------------------------------------
(* sendPartMessage, in the runtime's queue of actions *)

Fault == extFaults < MaxExtFaults /\ extFaults' = extFaults + 1

Takes(s, th, i) ==
  /\ <<s, th, i>> \in events
  /\ \A j \in 1 .. i : <<s, th, j>> \in events => j = i
  /\ \A j \in 1 .. MaxExtParts : <<s, th, j>> \notin relaying

\* sendThreadMessage returns: the part is in the thread and has no row yet.
RelaysPart(s, th, i) ==
  /\ Takes(s, th, i)
  /\ Posts(th, {<<s, i>>})
  /\ events' = events \ {<<s, th, i>>} /\ relaying' = relaying \cup {<<s, th, i>>}
  /\ torn' = IF Contested(s, i) \/ th # bound[s] THEN torn \cup {<<s, i>>} ELSE torn
  /\ UNCHANGED <<said, bound, made, row, live, pass, timedOut, extFaults>>

\* It throws, and the message may be in the thread; a later event of the message
\* may have the part sent again.
RelayFails(s, th, i) ==
  /\ Takes(s, th, i) /\ Fault
  /\ \/ UNCHANGED <<posted, torn>>
     \/ Posts(th, {<<s, i>>}) /\ torn' = torn \cup {<<s, i>>}
  /\ events' \in {events, events \ {<<s, th, i>>}}
  /\ UNCHANGED <<said, bound, made, row, live, relaying, pass, timedOut>>

\* setPartMessage
RecordsRelay(s, th, i) ==
  /\ <<s, th, i>> \in relaying
  /\ Records(th, {<<s, i>>})
  /\ relaying' = relaying \ {<<s, th, i>>}
  /\ UNCHANGED <<said, bound, made, posted, live, events, pass, timedOut, torn, extFaults>>

-----------------------------------------------------------------------------
(* runPoll, syncDirectory and syncDirectoryInner *)

\* The interval fires while no pass is under way.
PollStarts ==
  /\ pass.at = "no" /\ ExtDirs # {}
  /\ pass' = [NoPass EXCEPT !.at = "directories", !.dirs = ExtDirs]
  /\ UNCHANGED <<said, extTables, extRuntimes, timedOut, torn, extFaults>>

EntersDirectory(d) ==
  /\ pass.at = "directories" /\ d \in pass.dirs
  /\ pass' = [pass EXCEPT !.at = "listing", !.dirs = @ \ {d}, !.dir = {d}]

\* A mutant of SyncsDirectory: all directories share one AbortController.
SyncsWithSharedSignal(d) ==
  /\ EntersDirectory(d)
  /\ UNCHANGED <<said, extTables, extRuntimes, timedOut, torn, extFaults>>

\* A new controller.  No other sync of the directory can be in
\* activeDirectorySyncs: the one before was awaited.
SyncsDirectory(d) ==
  /\ EntersDirectory(d)
  /\ timedOut' = FALSE
  /\ UNCHANGED <<said, extTables, extRuntimes, torn, extFaults>>

\* The controller is aborted, which nothing but the checks below notices.
SyncTimesOut ==
  /\ pass.dir # {} /\ ~timedOut
  /\ Fault /\ timedOut' = TRUE
  /\ UNCHANGED <<said, extTables, extRuntimes, pass, torn>>

\* The directory is done; after the last one the pass is.
LeavesDirectory ==
  pass' = IF pass.dirs = {} THEN NoPass
          ELSE [NoPass EXCEPT !.at = "directories", !.dirs = pass.dirs]

Lists ==
  /\ pass.at = "listing"
  /\ IF timedOut THEN LeavesDirectory
     ELSE pass' = [pass EXCEPT !.at = "sessions",
                   !.sessions = {s \in ExtSessions : ExtHome(s) \in pass.dir /\ said[s] # <<>>}]
  /\ UNCHANGED <<said, extTables, extRuntimes, timedOut, torn, extFaults>>

ListFails ==
  /\ pass.at = "listing" /\ Fault /\ LeavesDirectory
  /\ UNCHANGED <<said, extTables, extRuntimes, timedOut, torn>>

\* The loop over the sessions ends when the signal is aborted.
NextSession ==
  /\ pass.at = "sessions"
  /\ IF timedOut \/ pass.sessions = {} THEN LeavesDirectory
     ELSE \E s \in pass.sessions :
            pass' = [pass EXCEPT !.at = "messages", !.sessions = @ \ {s}, !.session = {s}]
  /\ UNCHANGED <<said, extTables, extRuntimes, timedOut, torn, extFaults>>

-----------------------------------------------------------------------------
(* syncSessionToThread: its returns and its errors end in SyncEnds *)

At(step, s) == pass.at = step /\ s \in pass.session
SyncEnds ==
  pass' = [pass EXCEPT !.at = "sessions", !.session = {}, !.thread = 0, !.seen = 0,
                       !.todo = {}, !.batch = {}]

\* session.messages returned: a session driven from Discord is left to its runtime.
FetchesMessages(s) ==
  /\ At("messages", s)
  /\ IF timedOut \/ LatestTurnFromDiscord(s, Len(said[s])) THEN SyncEnds
     ELSE pass' = [pass EXCEPT !.at = "thread", !.seen = Len(said[s])]
  /\ UNCHANGED <<said, extTables, extRuntimes, timedOut, torn, extFaults>>

HasThread(th) ==
  IF timedOut THEN SyncEnds ELSE pass' = [pass EXCEPT !.at = "ids", !.thread = th]

\* ensureExternalSessionThread finds the thread.
FindsThread(s) ==
  /\ At("thread", s) /\ bound[s] # 0 /\ HasThread(bound[s])
  /\ UNCHANGED <<said, extTables, extRuntimes, timedOut, torn, extFaults>>

\* It makes one: there is none, or fetching the one there is failed.
MakesThread(s) ==
  /\ At("thread", s) /\ made < MaxExtThreads
  /\ IF bound[s] = 0 THEN UNCHANGED extFaults ELSE Fault
  /\ made' = made + 1
  /\ bound' = [bound EXCEPT ![s] = made']
  /\ HasThread(made')
  /\ UNCHANGED <<said, row, posted, extRuntimes, timedOut, torn>>

\* The messages cannot be fetched, or the thread not be made.
SessionFails(s) ==
  /\ At("messages", s) \/ At("thread", s)
  /\ Fault /\ SyncEnds
  /\ UNCHANGED <<said, extTables, extRuntimes, timedOut, torn>>

\* getPartMessageIds and collectUnsyncedChunks: what was typed in this thread gets
\* its rows, the rest of what has none is to be posted.
ReadsIds(s) ==
  /\ At("ids", s)
  /\ LET th == pass.thread
         unsynced == {i \in 1 .. pass.seen : row[<<s, i>>] # th}
         direct == {i \in unsynced : said[s][i].via = th} IN
     /\ Records(th, {s} \X direct)
     /\ pass' = [pass EXCEPT !.at = "batches", !.todo = unsynced \ direct]
  /\ UNCHANGED <<said, bound, made, posted, extRuntimes, timedOut, torn, extFaults>>

\* A message of batchChunksForDiscord: the first parts that are still to be posted
Batches == {{i \in pass.todo : i <= k} : k \in pass.todo}

SendsBatch(s) ==
  /\ At("batches", s)
  /\ IF timedOut \/ pass.todo = {} THEN SyncEnds /\ UNCHANGED posted
     ELSE \E b \in Batches :
            /\ Posts(pass.thread, {s} \X b)
            /\ pass' = [pass EXCEPT !.at = "record", !.todo = @ \ b, !.batch = b]
  /\ UNCHANGED <<said, bound, made, row, extRuntimes, timedOut, torn, extFaults>>

\* sendThreadMessage throws; the message may be in the thread.
SendFails(s) ==
  /\ At("batches", s) /\ ~timedOut
  /\ Fault /\ SyncEnds
  /\ \E b \in Batches : Posts(pass.thread, {s} \X b) /\ torn' = torn \cup ({s} \X b)
  /\ UNCHANGED <<said, bound, made, row, extRuntimes, timedOut>>

\* A mutant of RecordsBatch: only the first part of the message gets a row.
RecordsFirst(s) ==
  /\ At("record", s)
  /\ Records(pass.thread, {<<s, Min(pass.batch)>>})
  /\ pass' = [pass EXCEPT !.at = "batches", !.batch = {}]
  /\ UNCHANGED <<said, bound, made, posted, extRuntimes, timedOut, torn, extFaults>>

\* setPartMessagesBatch
RecordsBatch(s) ==
  /\ At("record", s)
  /\ Records(pass.thread, {s} \X pass.batch)
  /\ pass' = [pass EXCEPT !.at = "batches", !.batch = {}]
  /\ UNCHANGED <<said, bound, made, posted, extRuntimes, timedOut, torn, extFaults>>

\* The bot restarts; the poller, its timer and the runtimes start anew.
BotRestarts ==
  /\ Fault
  /\ pass' = NoPass /\ timedOut' = FALSE
  /\ live' = {} /\ events' = {} /\ relaying' = {}
  /\ torn' = torn \cup (pass.session \X pass.batch) \cup PartsIn(relaying)
  /\ UNCHANGED <<said, extTables>>

-----------------------------------------------------------------------------
PollGoesOn ==
  \/ PollStarts \/ Lists \/ NextSession
  \/ \E d \in ExtDirs : SyncsDirectory(d)
  \/ \E s \in ExtSessions :
       \/ FetchesMessages(s) \/ FindsThread(s) \/ MakesThread(s)
       \/ ReadsIds(s) \/ SendsBatch(s) \/ RecordsBatch(s)

PollFails == ListFails \/ \E s \in ExtSessions : SessionFails(s) \/ SendFails(s)

ExtNext ==
  \/ \E s \in ExtSessions : TypesInTerminal(s) \/ TypesInDiscord(s) \/ Answers(s)
  \/ \E s \in ExtSessions, th \in ExtThreads, i \in 1 .. MaxExtParts :
       RelaysPart(s, th, i) \/ RelayFails(s, th, i) \/ RecordsRelay(s, th, i)
  \/ PollGoesOn \/ PollFails \/ SyncTimesOut \/ BotRestarts

ExtSpec == ExtInit /\ [][ExtNext]_extVars

\* The poller keeps polling, as long as the calls it awaits return.
ExtFairness == WF_extVars(PollGoesOn)

ExtFairSpec == ExtSpec /\ ExtFairness

-----------------------------------------------------------------------------
(* Properties *)

\* However passes, messages, timeouts and restarts interleave, a part is posted to
\* a thread once, by the poller or by the runtime.  Excepted (torn) are a post that
\* failed after it was made or that a restart kept from being recorded; a part that
\* a runtime posts after something typed in the terminal, or before it has recorded
\* the part while something is; and what it posts to a thread the session has left.
ExtPostedOnce ==
  \A th \in ExtThreads, p \in ExtParts : p \notin torn => posted[th][p] <= 1

\* Whatever is said in a session is in a thread eventually, or the session is driven
\* from Discord: neither a failed pass nor a directory that timed out leaves a part
\* out for ever.  Little is said, so nothing is pending again and again.
Visible(s, i) == said[s][i].via # 0 \/ \E th \in ExtThreads : posted[th][<<s, i>>] > 0
ExtMirrored ==
  []<>(\A s \in ExtSessions : \A i \in DOMAIN said[s] :
         Visible(s, i) \/ LatestTurnFromDiscord(s, Len(said[s])))
=============================================================================
