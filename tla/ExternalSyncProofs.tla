------------------------- MODULE ExternalSyncProofs -------------------------
(***************************************************************************)
(* ExternalSync for any directories, sessions, threads and faults: its     *)
(* types, and a part is posted to a thread once.                           *)
(*                                                                         *)
(* That nothing was posted twice says nothing of what the pass is about to *)
(* post.  What it holds was chosen by the rows it read (TodoUnposted), and *)
(* a post leaves a row, except while the pass that made it is about to     *)
(* write that row (PostsRecorded).  A runtime posts beside the pass, and   *)
(* rows written late: what keeps the two apart is that the pass holds only *)
(* parts of a session it took for the terminal's (SeenContested), and that *)
(* a part the runtime posts was none of these and has become none of them  *)
(* (RelayedAlone).                                                         *)
(***************************************************************************)
EXTENDS ExternalSync, TLAPS

PassPlaces == {"no", "directories", "listing", "sessions", "messages", "thread", "ids",
               "batches", "record"}
Passes == [at : PassPlaces, dirs : SUBSET ExtDirs, dir : SUBSET ExtDirs,
           sessions : SUBSET ExtSessions, session : SUBSET ExtSessions,
           thread : 0 .. MaxExtThreads, seen : 0 .. MaxExtParts,
           todo : SUBSET (1 .. MaxExtParts), batch : SUBSET (1 .. MaxExtParts)]

ExtTyped ==
  /\ ExtTypeOK
  /\ said \in [ExtSessions -> Seq(SaidParts)] /\ pass \in Passes

\* A pass has one session in hand, whose messages it has seen, and posts to the
\* session's thread; only then does it hold parts.
Posting == {"ids", "batches", "record"}
InHand ==
  /\ \A s, t \in pass.session : s = t
  /\ \A s \in pass.session : pass.at \in Posting \cup {"thread"} =>
       /\ pass.seen <= Len(said[s])
       /\ pass.at # "thread" => pass.thread = bound[s] /\ bound[s] # 0
  /\ pass.at # "record" => pass.batch = {}
  /\ pass.at \notin {"batches", "record"} => pass.todo = {}
  /\ \A i \in pass.todo : i <= pass.seen

\* A thread made later than the session's, or a part not said yet: nothing is posted.
Unposted ==
  /\ \A s \in ExtSessions : bound[s] <= made
  /\ \A th \in ExtThreads, p \in ExtParts :
       th > bound[p[1]] \/ p[2] > Len(said[p[1]]) => posted[th][p] = 0

\* A part in its session's thread has its row, or the pass or a runtime is about to
\* write it.
PostsRecorded ==
  \A th \in ExtThreads, p \in ExtParts :
    th = bound[p[1]] /\ posted[th][p] # 0 /\ p \notin torn =>
      \/ row[p] = th \/ (p[1] \in pass.session /\ p[2] \in pass.batch)
      \/ <<p[1], th, p[2]>> \in relaying

\* The pass holds parts that nobody has posted since it read the rows.
TodoUnposted ==
  \A s \in pass.session, i \in pass.todo :
    <<s, i>> \notin torn => posted[pass.thread][<<s, i>>] = 0

\* Runtimes are in threads the session had, and handle what was said in it.
RelaysFit ==
  \A s \in ExtSessions, th \in ExtThreads :
    /\ <<s, th>> \in live => th <= bound[s]
    /\ \A i \in 1 .. MaxExtParts :
         <<s, th, i>> \in events \cup relaying => th <= bound[s] /\ i <= Len(said[s])

\* The pass took the session for the terminal's.
SeenContested ==
  \A s \in pass.session :
    pass.at \in Posting \cup {"thread"} => ~LatestTurnFromDiscord(s, pass.seen)

\* What a runtime has yet to post to the session's thread, nobody else posts to it.
QueuedUnposted ==
  \A s \in ExtSessions, th \in ExtThreads, i \in 1 .. MaxExtParts :
    <<s, th, i>> \in events /\ th = bound[s] /\ <<s, i>> \notin torn /\ ~Contested(s, i) =>
      posted[th][<<s, i>>] = 0

\* What it has posted no pass may hold, and if the session has got another thread
\* since, that thread does not get the part from a runtime either.
RelayedAlone ==
  \A s \in ExtSessions, th \in ExtThreads, i \in 1 .. MaxExtParts :
    <<s, th, i>> \in relaying /\ <<s, i>> \notin torn =>
      /\ ~Contested(s, i)
      /\ th = bound[s] \/ (posted[bound[s]][<<s, i>>] = 0 /\ <<s, bound[s], i>> \notin events)

RelayInv == RelaysFit /\ SeenContested /\ QueuedUnposted /\ RelayedAlone

ExtInv == /\ ExtTyped /\ InHand /\ Unposted /\ PostsRecorded /\ TodoUnposted
          /\ RelayInv /\ ExtPostedOnce

-----------------------------------------------------------------------------
LEMMA ExtTyping ==
  ASSUME ExtTyped
  PROVE  /\ said \in [ExtSessions -> Seq(SaidParts)]
         /\ \A s \in ExtSessions : Len(said[s]) \in 0 .. MaxExtParts
         /\ bound \in [ExtSessions -> 0 .. MaxExtThreads] /\ made \in 0 .. MaxExtThreads
         /\ row \in [ExtParts -> 0 .. MaxExtThreads]
         /\ posted \in [ExtThreads -> [ExtParts -> 0 .. 2]]
         /\ live \subseteq ExtRuntimes /\ timedOut \in BOOLEAN
         /\ events \subseteq ExtRelays /\ relaying \subseteq ExtRelays
         /\ torn \subseteq ExtParts /\ extFaults \in 0 .. MaxExtFaults
         /\ pass \in Passes
         /\ {MaxExtParts, MaxExtThreads, MaxExtFaults} \subseteq Nat
  BY ExtAssumption DEF ExtTyped, ExtTypeOK

LEMMA PartsOf ==
  /\ \A s \in ExtSessions, i \in 1 .. MaxExtParts :
       /\ <<s, i>> \in ExtParts /\ <<s, i>>[1] = s /\ <<s, i>>[2] = i
  /\ \A p \in ExtParts : /\ p[1] \in ExtSessions /\ p[2] \in 1 .. MaxExtParts
                         /\ p = <<p[1], p[2]>>
  BY DEF ExtParts

\* What a post does to the counts, and what writing rows does
LEMMA PostsCount ==
  ASSUME ExtTyped, NEW th, NEW ps, Posts(th, ps)
  PROVE  /\ posted' \in [ExtThreads -> [ExtParts -> 0 .. 2]]
         /\ \A t \in ExtThreads, p \in ExtParts :
              posted'[t][p] = IF t = th /\ p \in ps /\ posted[t][p] < 2
                              THEN posted[t][p] + 1 ELSE posted[t][p]
  <1> DEFINE New == [p \in ExtParts |-> IF p \in ps /\ posted[th][p] < 2
                                        THEN posted[th][p] + 1 ELSE posted[th][p]]
  <1>1. posted \in [ExtThreads -> [ExtParts -> 0 .. 2]]
    BY ExtTyping
  <1>2. posted' = [posted EXCEPT ![th] = New]
    BY DEF Posts
  <1>3. ASSUME th \in ExtThreads PROVE New \in [ExtParts -> 0 .. 2]
    <2>1. \A p \in ExtParts : posted[th][p] \in 0 .. 2
      BY <1>1, <1>3
    <2> QED BY <2>1
  <1>4. \A p \in ExtParts : New[p] = IF p \in ps /\ posted[th][p] < 2
                                     THEN posted[th][p] + 1 ELSE posted[th][p]
    OBVIOUS
  <1>5. ASSUME NEW t \in ExtThreads
        PROVE  /\ posted'[t] \in [ExtParts -> 0 .. 2]
               /\ \A p \in ExtParts :
                    posted'[t][p] = IF t = th /\ p \in ps /\ posted[t][p] < 2
                                    THEN posted[t][p] + 1 ELSE posted[t][p]
    <2> HIDE DEF New
    <2>1. CASE t = th
      <3>1. posted'[t] = New
        BY <1>1, <1>2, <2>1
      <3> QED BY <3>1, <2>1, <1>3, <1>4
    <2>2. CASE t # th
      <3>1. posted'[t] = posted[t]
        BY <1>1, <1>2, <2>2
      <3> QED BY <3>1, <2>2, <1>1
    <2> QED BY <2>1, <2>2
  <1>6. posted' \in [ExtThreads -> [ExtParts -> 0 .. 2]]
    <2> HIDE DEF New
    <2>1. DOMAIN posted' = ExtThreads /\ posted' = [t \in ExtThreads |-> posted'[t]]
      BY <1>1, <1>2
    <2> QED BY <2>1, <1>5
  <1> QED BY <1>5, <1>6

LEMMA RecordsRow ==
  ASSUME ExtTyped, NEW th \in 0 .. MaxExtThreads, NEW ps, Records(th, ps)
  PROVE  /\ row' \in [ExtParts -> 0 .. MaxExtThreads]
         /\ \A p \in ExtParts : row'[p] = IF p \in ps THEN th ELSE row[p]
  BY ExtTyping DEF Records

LEMMA SaysMore ==
  ASSUME ExtTyped, NEW s \in ExtSessions, NEW by \in {"user", "agent"},
         NEW via \in 0 .. MaxExtThreads, Says(s, by, via)
  PROVE  /\ said' \in [ExtSessions -> Seq(SaidParts)]
         /\ \A t \in ExtSessions : /\ Len(said'[t]) \in 0 .. MaxExtParts
                                   /\ Len(said'[t]) >= Len(said[t])
                                   /\ t # s => said'[t] = said[t]
         /\ Len(said'[s]) = Len(said[s]) + 1 /\ Len(said[s]) + 1 <= MaxExtParts
         /\ said'[s][Len(said[s]) + 1] = [by |-> by, via |-> via]
         /\ \A i \in 1 .. Len(said[s]) : said'[s][i] = said[s][i]
  <1>1. /\ said \in [ExtSessions -> Seq(SaidParts)] /\ MaxExtParts \in Nat
        /\ \A t \in ExtSessions : Len(said[t]) \in 0 .. MaxExtParts
    BY ExtTyping
  <1>2. [by |-> by, via |-> via] \in SaidParts
    BY DEF SaidParts
  <1> DEFINE New == Append(said[s], [by |-> by, via |-> via])
  <1>3. /\ New \in Seq(SaidParts) /\ Len(New) = Len(said[s]) + 1
        /\ New[Len(said[s]) + 1] = [by |-> by, via |-> via]
        /\ \A i \in 1 .. Len(said[s]) : New[i] = said[s][i]
    <2>1. said[s] \in Seq(SaidParts)
      BY <1>1
    <2> QED BY <1>1, <1>2, <2>1
  <1>4. Len(said[s]) < MaxExtParts /\ said' = [said EXCEPT ![s] = New]
    BY DEF Says
  <1>5. said'[s] = New /\ \A t \in ExtSessions : t # s => said'[t] = said[t]
    BY <1>1, <1>4
  <1>6. said' \in [ExtSessions -> Seq(SaidParts)]
    BY <1>1, <1>3, <1>4
  <1> HIDE DEF New
  <1>8. ASSUME NEW t \in ExtSessions
        PROVE  Len(said'[t]) \in 0 .. MaxExtParts /\ Len(said'[t]) >= Len(said[t])
    <2>1. CASE t = s BY <2>1, <1>1, <1>3, <1>4, <1>5
    <2>2. CASE t # s BY <2>2, <1>1, <1>5
    <2> QED BY <2>1, <2>2
  <1>9. Len(said[s]) + 1 <= MaxExtParts
    BY <1>1, <1>4
  <1> QED BY <1>3, <1>5, <1>6, <1>8, <1>9

\* Whose turn it is, seen from a part, does not change; a part becomes contested
\* only by something typed in the terminal.
LEMMA SaysContest ==
  ASSUME ExtTyped, NEW s \in ExtSessions, NEW by \in {"user", "agent"},
         NEW via \in 0 .. MaxExtThreads, Says(s, by, via)
  PROVE  \A t \in ExtSessions :
           /\ \A n \in 0 .. Len(said[t]) :
                LatestTurnFromDiscord(t, n)' <=> LatestTurnFromDiscord(t, n)
           /\ \A i \in 1 .. MaxExtParts :
                /\ Contested(t, i) => Contested(t, i)'
                /\ i <= Len(said[t]) /\ Contested(t, i)' =>
                     Contested(t, i) \/ (t = s /\ by = "user" /\ via = 0)
  <1> DEFINE n == Len(said[s])
  <1>1. /\ n \in Nat /\ Len(said'[s]) = n + 1
        /\ said'[s][n + 1] = [by |-> by, via |-> via]
        /\ \A i \in 1 .. n : said'[s][i] = said[s][i]
        /\ \A t \in ExtSessions : /\ Len(said[t]) \in Nat /\ Len(said'[t]) \in Nat
                                  /\ t # s => said'[t] = said[t]
        /\ MaxExtParts \in Nat
    <2>1. MaxExtParts \in Nat /\ \A t \in ExtSessions : Len(said[t]) \in 0 .. MaxExtParts
      BY ExtTyping
    <2> QED BY <2>1, SaysMore
  <1>2. ASSUME NEW t \in ExtSessions, NEW m \in 0 .. Len(said[t])
        PROVE  LatestTurnFromDiscord(t, m)' <=> LatestTurnFromDiscord(t, m)
    <2>1. \A i \in 1 .. m : said'[t][i] = said[t][i]
      <3>1. CASE t = s BY <1>1, <3>1
      <3>2. CASE t # s BY <1>1, <3>2
      <3> QED BY <3>1, <3>2
    <2> QED BY <2>1 DEF LatestTurnFromDiscord
  <1>3. ASSUME NEW t \in ExtSessions, NEW i \in 1 .. MaxExtParts, Contested(t, i)
        PROVE  Contested(t, i)'
    <2>1. PICK m \in i .. Len(said[t]) : ~LatestTurnFromDiscord(t, m)
      BY <1>3 DEF Contested
    <2>2. Len(said[t]) <= Len(said'[t])
      <3>1. CASE t = s BY <1>1, <3>1
      <3>2. CASE t # s BY <1>1, <3>2
      <3> QED BY <3>1, <3>2
    <2>3. m \in i .. Len(said'[t]) /\ m \in 0 .. Len(said[t])
      BY <1>1, <2>2
    <2>4. ~LatestTurnFromDiscord(t, m)'
      BY <1>2, <2>1, <2>3
    <2> QED BY <2>3, <2>4 DEF Contested
  <1>4. ASSUME NEW t \in ExtSessions, NEW i \in 1 .. MaxExtParts, i <= Len(said[t]),
               Contested(t, i)', ~Contested(t, i)
        PROVE  t = s /\ by = "user" /\ via = 0
    <2>1. PICK m \in i .. Len(said'[t]) : ~LatestTurnFromDiscord(t, m)'
      BY <1>4 DEF Contested
    <2>2. m \notin 0 .. Len(said[t])
      <3> SUFFICES ASSUME m \in 0 .. Len(said[t]) PROVE FALSE
        OBVIOUS
      <3>1. ~LatestTurnFromDiscord(t, m) /\ m \in i .. Len(said[t])
        BY <1>1, <1>2, <2>1
      <3> QED BY <1>4, <3>1 DEF Contested
    <2>3. t = s
      BY <1>1, <2>2
    <2>4. m = n + 1
      BY <1>1, <2>1, <2>2, <2>3
    <2>5. LatestTurnFromDiscord(s, n)
      <3>1. n \in i .. n
        BY <1>1, <1>4, <2>3
      <3> QED BY <1>4, <2>3, <3>1 DEF Contested
    <2> HIDE DEF n
    <2>6. by # "agent"
      <3> SUFFICES ASSUME by = "agent" PROVE FALSE
        OBVIOUS
      <3>1. PICK k \in 1 .. n : /\ said[s][k].by = "user" /\ said[s][k].via # 0
                                /\ \A j \in 1 .. n : j > k => said[s][j].by # "user"
        BY <2>5 DEF LatestTurnFromDiscord
      <3>2. k \in 1 .. m /\ said'[s][k].by = "user" /\ said'[s][k].via # 0
        BY <1>1, <2>4, <3>1
      <3>3. ASSUME NEW j \in 1 .. m, j > k PROVE said'[s][j].by # "user"
        <4>1. CASE j = n + 1 BY <1>1, <4>1
        <4>2. CASE j # n + 1
          <5>1. j \in 1 .. n BY <1>1, <2>4, <4>2
          <5> QED BY <1>1, <3>1, <3>3, <5>1
        <4> QED BY <4>1, <4>2
      <3> QED BY <2>1, <2>3, <3>2, <3>3 DEF LatestTurnFromDiscord
    <2>7. via = 0
      <3> SUFFICES ASSUME via # 0 PROVE FALSE
        OBVIOUS
      <3>1. m \in 1 .. m /\ said'[s][m].by = "user" /\ said'[s][m].via # 0
        BY <1>1, <2>4, <2>6
      <3>2. \A j \in 1 .. m : ~ (j > m)
        BY <1>1, <2>4
      <3> QED BY <2>1, <2>3, <3>1, <3>2 DEF LatestTurnFromDiscord
    <2> QED BY <2>3, <2>6, <2>7
  <1> QED BY <1>2, <1>3, <1>4

\* Every part the pass has seen is contested.
LEMMA SeenIsContested ==
  ASSUME ExtInv, NEW s \in pass.session, pass.at \in Posting, NEW i \in 1 .. pass.seen
  PROVE  Contested(s, i)
  <1>1. /\ pass.seen \in Nat /\ Len(said[s]) \in Nat /\ pass.seen <= Len(said[s])
        /\ ~LatestTurnFromDiscord(s, pass.seen)
    <2>1. pass \in Passes /\ MaxExtParts \in Nat
          /\ \A t \in ExtSessions : Len(said[t]) \in 0 .. MaxExtParts
      BY ExtTyping DEF ExtInv
    <2>2. s \in ExtSessions /\ pass.seen \in 0 .. MaxExtParts
      BY <2>1 DEF Passes
    <2> QED BY <2>1, <2>2 DEF ExtInv, InHand, RelayInv, SeenContested, Posting
  <1>2. pass.seen \in i .. Len(said[s])
    BY <1>1
  <1> QED BY <1>1, <1>2 DEF Contested

\* What is contested depends on what is said alone.
LEMMA ContestStays ==
  ASSUME UNCHANGED said
  PROVE  \A s, i : /\ Contested(s, i)' <=> Contested(s, i)
                   /\ LatestTurnFromDiscord(s, i)' <=> LatestTurnFromDiscord(s, i)
  BY DEF Contested, LatestTurnFromDiscord

\* A step that says nothing, posts nothing and moves no session leaves the
\* runtimes' part of the invariant to the pass.
LEMMA RelaysStay ==
  ASSUME ExtInv, UNCHANGED <<said, bound, posted>>, torn \subseteq torn',
         live' \subseteq live, events' \subseteq events, relaying' \subseteq relaying,
         SeenContested'
  PROVE  RelayInv'
  <1>1. RelaysFit'
    BY DEF ExtInv, RelayInv, RelaysFit
  <1>2. QueuedUnposted'
    BY ContestStays DEF ExtInv, RelayInv, QueuedUnposted
  <1>3. RelayedAlone'
    BY ContestStays DEF ExtInv, RelayInv, RelayedAlone
  <1> QED BY <1>1, <1>2, <1>3 DEF RelayInv

-----------------------------------------------------------------------------
(* Steps of the pass that say, post and record nothing *)

\* The invariant carries over to a pass that has nothing in hand but what was given up.
LEMMA PassMoves ==
  ASSUME ExtInv, UNCHANGED <<said, extTables>>,
         live' \subseteq live, events' \subseteq events, relaying' \subseteq relaying,
         timedOut' \in BOOLEAN, extFaults' \in 0 .. MaxExtFaults,
         torn \subseteq torn', torn' \subseteq ExtParts,
         relaying' = relaying \/ PartsIn(relaying) \subseteq torn',
         pass' \in Passes, pass'.batch = {}, pass'.todo = {},
         \A s \in pass.session, i \in pass.batch : <<s, i>> \in torn',
         \A s, t \in pass'.session : s = t,
         \A s \in pass'.session : pass'.at \in Posting \cup {"thread"} =>
           /\ pass'.seen <= Len(said[s]) /\ ~LatestTurnFromDiscord(s, pass'.seen)
           /\ pass'.at # "thread" => pass'.thread = bound[s] /\ bound[s] # 0
  PROVE  ExtInv'
  <1>1. ExtTyped'
    BY DEF ExtInv, ExtTyped, ExtTypeOK, extTables, Passes, PassPlaces
  <1>2. InHand'
    BY DEF ExtInv, InHand, extTables
  <1>3. Unposted'
    BY DEF ExtInv, Unposted, extTables
  <1>4. PostsRecorded'
    <2> SUFFICES ASSUME NEW th \in ExtThreads, NEW p \in ExtParts,
                        th = bound[p[1]], posted[th][p] # 0, p \notin torn'
                 PROVE  row[p] = th \/ <<p[1], th, p[2]>> \in relaying'
      BY DEF PostsRecorded, extTables
    <2>1. p = <<p[1], p[2]>>
      BY PartsOf
    <2>2. row[p] = th \/ <<p[1], th, p[2]>> \in relaying
      BY <2>1 DEF ExtInv, PostsRecorded
    <2>3. <<p[1], th, p[2]>> \in relaying => p \in PartsIn(relaying)
      BY <2>1 DEF PartsIn
    <2> QED BY <2>2, <2>3
  <1>5. TodoUnposted'
    BY DEF TodoUnposted
  <1>6. ExtPostedOnce'
    BY DEF ExtInv, ExtPostedOnce, extTables
  <1>7. SeenContested'
    BY ContestStays DEF SeenContested
  <1>8. RelayInv'
    BY <1>7, RelaysStay DEF extTables
  <1> QED BY <1>1, <1>2, <1>3, <1>4, <1>5, <1>6, <1>8 DEF ExtInv

LEMMA NoPassFits == NoPass \in Passes
  <1>1. 0 \in 0 .. MaxExtThreads /\ 0 \in 0 .. MaxExtParts
    BY ExtAssumption
  <1> QED BY <1>1 DEF NoPass, Passes, PassPlaces

LEMMA PassEnds ==
  ASSUME ExtInv, SyncEnds \/ LeavesDirectory
  PROVE  /\ pass' \in Passes /\ pass'.batch = {} /\ pass'.todo = {}
         /\ pass'.session = {} /\ pass'.at \notin Posting \cup {"thread"}
  <1>1. pass \in Passes
    BY ExtTyping DEF ExtInv
  <1>2. 0 \in 0 .. MaxExtThreads /\ 0 \in 0 .. MaxExtParts
    BY ExtAssumption
  <1>3. ASSUME SyncEnds PROVE pass' \in Passes /\ pass'.at = "sessions"
    BY <1>1, <1>2, <1>3 DEF SyncEnds, Passes, PassPlaces
  <1>4. ASSUME SyncEnds PROVE pass'.batch = {} /\ pass'.todo = {} /\ pass'.session = {}
    BY <1>1, <1>4 DEF SyncEnds, Passes
  <1>5. CASE pass' = NoPass
    BY <1>5, NoPassFits DEF NoPass, Posting
  <1>6. CASE pass' = [NoPass EXCEPT !.at = "directories", !.dirs = pass.dirs]
    <2>1. pass.dirs \subseteq ExtDirs
      BY <1>1 DEF Passes
    <2> QED BY <1>6, <2>1, NoPassFits DEF NoPass, Posting, Passes, PassPlaces
  <1> QED BY <1>3, <1>4, <1>5, <1>6 DEF LeavesDirectory, Posting

LEMMA InvExtInit == ASSUME ExtInit PROVE ExtInv
  <1> USE DEF ExtInit
  <1>1. ExtTyped
    <2>1. \A s \in ExtSessions : said[s] \in Seq(SaidParts) /\ Len(said[s]) = 0
      OBVIOUS
    <2>2. said \in [ExtSessions -> Seq(SaidParts)]
      OBVIOUS
    <2>3. posted \in [ExtThreads -> [ExtParts -> 0 .. 2]]
      <3>1. 0 \in 0 .. 2 OBVIOUS
      <3> QED BY <3>1
    <2>4. row \in [ExtParts -> 0 .. MaxExtThreads] /\ bound \in [ExtSessions -> 0 .. MaxExtThreads]
      BY ExtAssumption
    <2>5. pass \in Passes
      BY NoPassFits
    <2>6. /\ made \in 0 .. MaxExtThreads /\ extFaults \in 0 .. MaxExtFaults
          /\ \A s \in ExtSessions : Len(said[s]) <= MaxExtParts
      BY <2>1, ExtAssumption
    <2>7. /\ live \subseteq ExtRuntimes /\ torn \subseteq ExtParts /\ timedOut \in BOOLEAN
          /\ events \subseteq ExtRelays /\ relaying \subseteq ExtRelays
      OBVIOUS
    <2>8. /\ pass.at \in PassPlaces /\ pass.dirs \subseteq ExtDirs
          /\ pass.sessions \subseteq ExtSessions /\ pass.thread \in 0 .. MaxExtThreads
      BY <2>5 DEF Passes
    <2> HIDE DEF ExtInit
    <2> QED BY <2>1, <2>2, <2>3, <2>4, <2>5, <2>6, <2>7, <2>8 DEF ExtTyped, ExtTypeOK, PassPlaces
  <1>2. InHand
    BY DEF InHand, NoPass
  <1>3. \A th \in ExtThreads, p \in ExtParts : posted[th][p] = 0
    OBVIOUS
  <1>4. Unposted
    BY <1>3, ExtAssumption DEF Unposted
  <1>5. PostsRecorded /\ TodoUnposted /\ ExtPostedOnce
    BY <1>3 DEF PostsRecorded, TodoUnposted, NoPass, ExtPostedOnce
  <1>6. RelayInv
    BY DEF RelayInv, RelaysFit, SeenContested, QueuedUnposted, RelayedAlone, NoPass
  <1> QED BY <1>1, <1>2, <1>4, <1>5, <1>6 DEF ExtInv

LEMMA PollMoves ==
  ASSUME ExtInv,
         \/ PollStarts \/ Lists \/ ListFails \/ NextSession
         \/ \E d \in ExtDirs : SyncsDirectory(d)
         \/ \E s \in ExtSessions : FetchesMessages(s) \/ FindsThread(s) \/ SessionFails(s)
  PROVE  ExtInv'
  <1>1. /\ pass \in Passes /\ timedOut \in BOOLEAN /\ extFaults \in 0 .. MaxExtFaults
        /\ torn \subseteq ExtParts /\ MaxExtFaults \in Nat
        /\ \A s \in ExtSessions : Len(said[s]) \in 0 .. MaxExtParts
        /\ \A s \in ExtSessions : bound[s] \in 0 .. MaxExtThreads
    BY ExtTyping DEF ExtInv
  <1>2. /\ \A s, t \in pass.session : s = t
        /\ \A s \in pass.session : pass.at = "thread" =>
             pass.seen <= Len(said[s]) /\ ~LatestTurnFromDiscord(s, pass.seen)
        /\ pass.at # "record" => pass.batch = {}
        /\ pass.at \notin {"batches", "record"} => pass.todo = {}
    BY DEF ExtInv, InHand, RelayInv, SeenContested
  <1>0. live' = live /\ events' = events /\ relaying' = relaying
    BY DEF PollStarts, Lists, ListFails, NextSession, SyncsDirectory, EntersDirectory,
           FetchesMessages, FindsThread, SessionFails, extRuntimes
  <1>3. ASSUME Fault PROVE extFaults' \in 0 .. MaxExtFaults
    BY <1>1, <1>3 DEF Fault
  <1>4. CASE PollStarts
    <2>1. pass' = [NoPass EXCEPT !.at = "directories", !.dirs = ExtDirs] /\ pass.at = "no"
      BY <1>4 DEF PollStarts
    <2>2. pass' \in Passes
      BY <2>1, NoPassFits DEF Passes, PassPlaces
    <2>3. pass'.session = {} /\ pass'.batch = {} /\ pass'.todo = {}
      BY <2>1 DEF NoPass
    <2> QED BY <1>0, <1>1, <1>2, <1>4, <2>1, <2>2, <2>3, PassMoves DEF PollStarts
  <1>5. CASE Lists
    <2>1. CASE timedOut
      BY <1>0, <1>1, <1>2, <1>5, <2>1, PassMoves, PassEnds DEF Lists
    <2>2. CASE ~ timedOut
      <3>1. PICK ss \in SUBSET ExtSessions :
              pass' = [pass EXCEPT !.at = "sessions", !.sessions = ss]
        BY <1>5, <2>2 DEF Lists
      <3>2. pass' \in Passes /\ pass'.at = "sessions" /\ pass'.session = pass.session
            /\ pass'.batch = pass.batch /\ pass'.todo = pass.todo
        BY <1>1, <3>1 DEF Passes, PassPlaces
      <3> QED BY <1>0, <1>1, <1>2, <1>5, <3>2, PassMoves DEF Lists, Posting
    <2> QED BY <2>1, <2>2
  <1>6. CASE ListFails
    BY <1>0, <1>1, <1>2, <1>3, <1>6, PassMoves, PassEnds DEF ListFails
  <1>7. CASE NextSession
    <2>1. CASE timedOut \/ pass.sessions = {}
      BY <1>0, <1>1, <1>2, <1>7, <2>1, PassMoves, PassEnds DEF NextSession
    <2>2. CASE ~ (timedOut \/ pass.sessions = {})
      <3>1. PICK s \in pass.sessions :
              pass' = [pass EXCEPT !.at = "messages", !.sessions = @ \ {s}, !.session = {s}]
        BY <1>7, <2>2 DEF NextSession
      <3>2. pass' \in Passes /\ pass'.at = "messages" /\ pass'.session = {s}
            /\ pass'.batch = pass.batch /\ pass'.todo = pass.todo
        BY <1>1, <3>1 DEF Passes, PassPlaces
      <3> QED BY <1>0, <1>1, <1>2, <1>7, <3>2, PassMoves DEF NextSession, Posting
    <2> QED BY <2>1, <2>2
  <1>8. ASSUME NEW d \in ExtDirs, SyncsDirectory(d) PROVE ExtInv'
    BY <1>0, <1>1, <1>2, <1>8, PassMoves
      DEF SyncsDirectory, EntersDirectory, Passes, PassPlaces, Posting
  <1>9. ASSUME NEW s \in ExtSessions, FetchesMessages(s) PROVE ExtInv'
    <2>1. CASE SyncEnds
      BY <1>0, <1>1, <1>2, <1>9, <2>1, PassMoves, PassEnds DEF FetchesMessages, At
    <2>2. CASE pass' = [pass EXCEPT !.at = "thread", !.seen = Len(said[s])]
      <3>1. pass' \in Passes /\ pass'.at = "thread" /\ pass'.seen = Len(said[s])
            /\ pass'.session = pass.session /\ pass'.batch = pass.batch /\ pass'.todo = pass.todo
        BY <1>1, <2>2 DEF Passes, PassPlaces
      <3>2. s \in pass.session /\ pass.at = "messages"
        BY <1>9 DEF FetchesMessages, At
      <3>4. ~LatestTurnFromDiscord(s, Len(said[s]))
        <4>1. pass'.at = "thread" => ~ (SyncEnds)
          BY <1>1, <2>2 DEF SyncEnds, Passes
        <4> QED BY <1>9, <3>1, <4>1 DEF FetchesMessages
      <3>3. \A t \in pass'.session :
              pass'.seen <= Len(said[t]) /\ ~LatestTurnFromDiscord(t, pass'.seen)
        <4>1. Len(said[s]) <= Len(said[s])
          BY <1>1
        <4> QED BY <1>2, <3>1, <3>2, <3>4, <4>1
      <3> QED BY <1>0, <1>1, <1>2, <1>9, <3>1, <3>2, <3>3, PassMoves DEF FetchesMessages
    <2> QED BY <1>9, <2>1, <2>2 DEF FetchesMessages
  <1>10. ASSUME NEW s \in ExtSessions, FindsThread(s) PROVE ExtInv'
    <2>1. s \in pass.session /\ pass.at = "thread" /\ bound[s] # 0
      BY <1>10 DEF FindsThread, At
    <2>2. CASE timedOut
      BY <1>0, <1>1, <1>2, <1>10, <2>1, <2>2, PassMoves, PassEnds DEF FindsThread, HasThread
    <2>3. CASE ~ timedOut
      <3>1. pass' = [pass EXCEPT !.at = "ids", !.thread = bound[s]]
        BY <1>10, <2>3 DEF FindsThread, HasThread
      <3>2. pass' \in Passes /\ pass'.seen = pass.seen /\ pass'.thread = bound[s]
            /\ pass'.session = pass.session /\ pass'.batch = pass.batch /\ pass'.todo = pass.todo
        BY <1>1, <3>1 DEF Passes, PassPlaces
      <3> QED BY <1>0, <1>1, <1>2, <1>10, <2>1, <3>2, PassMoves DEF FindsThread
    <2> QED BY <2>2, <2>3
  <1>11. ASSUME NEW s \in ExtSessions, SessionFails(s) PROVE ExtInv'
    BY <1>0, <1>1, <1>2, <1>3, <1>11, PassMoves, PassEnds DEF SessionFails, At
  <1> QED BY <1>4, <1>5, <1>6, <1>7, <1>8, <1>9, <1>10, <1>11

LEMMA BotRestartsKeeps == ASSUME ExtInv, BotRestarts PROVE ExtInv'
  <1>1. /\ pass \in Passes /\ extFaults \in 0 .. MaxExtFaults /\ MaxExtFaults \in Nat
        /\ torn \subseteq ExtParts
    BY ExtTyping DEF ExtInv
  <1>2. /\ torn' = torn \cup (pass.session \X pass.batch) \cup PartsIn(relaying)
        /\ torn' \subseteq ExtParts
    <2>1. PartsIn(relaying) \subseteq ExtParts
      BY ExtTyping DEF ExtInv, PartsIn, ExtRelays, ExtParts
    <2> QED BY <1>1, <2>1 DEF BotRestarts, ExtParts, Passes
  <1>3. pass' \in Passes /\ pass'.session = {} /\ pass'.batch = {} /\ pass'.todo = {}
    BY ExtAssumption DEF BotRestarts, NoPass, Passes, PassPlaces
  <1>4. \A s \in pass.session, i \in pass.batch : <<s, i>> \in torn'
    BY <1>2
  <1>5. extFaults' \in 0 .. MaxExtFaults
    BY <1>1 DEF BotRestarts, Fault
  <1> QED BY <1>2, <1>3, <1>4, <1>5, PassMoves DEF BotRestarts

\* The signal alone: the pass goes on until it looks at it.
LEMMA SyncTimesOutKeeps == ASSUME ExtInv, SyncTimesOut PROVE ExtInv'
  <1>1. /\ extFaults \in 0 .. MaxExtFaults /\ MaxExtFaults \in Nat
    BY ExtTyping DEF ExtInv
  <1>2. extFaults' \in 0 .. MaxExtFaults
    BY <1>1 DEF SyncTimesOut, Fault
  <1>3. ExtTyped'
    BY <1>2 DEF ExtInv, ExtTyped, ExtTypeOK, extTables, extRuntimes, SyncTimesOut
  <1> QED BY <1>3 DEF ExtInv, InHand, Unposted, PostsRecorded, TodoUnposted, ExtPostedOnce,
                      extTables, extRuntimes, SyncTimesOut, RelayInv, RelaysFit, SeenContested,
                      QueuedUnposted, RelayedAlone, Contested, LatestTurnFromDiscord

-----------------------------------------------------------------------------
(* Steps that say, post or record *)

\* What is said is longer for no part the pass holds.
LEMMA SaidKeeps ==
  ASSUME ExtInv, NEW s \in ExtSessions, NEW by \in {"user", "agent"},
         NEW via \in 0 .. MaxExtThreads, Says(s, by, via),
         live' \subseteq ExtRuntimes, events' \subseteq ExtRelays, relaying' = relaying,
         torn \subseteq torn', torn' \subseteq ExtParts,
         \A t \in ExtSessions, th \in ExtThreads :
           <<t, th>> \in live' => <<t, th>> \in live \/ th <= bound[t],
         \A t \in ExtSessions, th \in ExtThreads, i \in 1 .. MaxExtParts :
           <<t, th, i>> \in events' => \/ <<t, th, i>> \in events
                                       \/ t = s /\ th <= bound[s] /\ i = Len(said[s]) + 1,
         by = "user" /\ via = 0 =>
           \A th \in ExtThreads, i \in 1 .. MaxExtParts :
             <<s, th, i>> \in relaying => <<s, i>> \in torn',
         UNCHANGED <<bound, made, row, posted, pass, timedOut, extFaults>>
  PROVE  ExtInv'
  <1>1. /\ pass.session \subseteq ExtSessions /\ pass.seen \in 0 .. MaxExtParts
        /\ \A t \in ExtSessions : Len(said[t]) \in 0 .. MaxExtParts
        /\ MaxExtParts \in Nat /\ bound \in [ExtSessions -> 0 .. MaxExtThreads]
        /\ MaxExtThreads \in Nat
    BY ExtTyping DEF ExtInv, Passes
  <1>2. /\ said' \in [ExtSessions -> Seq(SaidParts)]
        /\ \A t \in ExtSessions : Len(said'[t]) \in 0 .. MaxExtParts /\ Len(said'[t]) >= Len(said[t])
        /\ Len(said'[s]) = Len(said[s]) + 1
    BY SaysMore DEF ExtInv
  <1>3. \A t \in ExtSessions :
          /\ \A n \in 0 .. Len(said[t]) :
               LatestTurnFromDiscord(t, n)' <=> LatestTurnFromDiscord(t, n)
          /\ \A i \in 1 .. MaxExtParts :
               /\ Contested(t, i) => Contested(t, i)'
               /\ i <= Len(said[t]) /\ Contested(t, i)' =>
                    Contested(t, i) \/ (t = s /\ by = "user" /\ via = 0)
    BY SaysContest DEF ExtInv
  <1>4. ExtTyped'
    BY <1>2 DEF ExtInv, ExtTyped, ExtTypeOK
  <1>5. InHand'
    BY <1>1, <1>2 DEF ExtInv, InHand
  <1>6. Unposted'
    <2>1. \A p \in ExtParts : /\ p[1] \in ExtSessions /\ p[2] \in 1 .. MaxExtParts
      BY PartsOf
    <2>2. ASSUME NEW th \in ExtThreads, NEW p \in ExtParts,
                 th > bound[p[1]] \/ p[2] > Len(said'[p[1]])
          PROVE  posted[th][p] = 0
      <3>1. p[2] > Len(said'[p[1]]) => p[2] > Len(said[p[1]])
        BY <1>1, <1>2, <2>1
      <3> QED BY <2>2, <3>1 DEF ExtInv, Unposted
    <2> QED BY <2>2 DEF ExtInv, Unposted
  <1>7. PostsRecorded' /\ TodoUnposted' /\ ExtPostedOnce'
    BY DEF ExtInv, PostsRecorded, TodoUnposted, ExtPostedOnce
  <1>8. RelaysFit'
    <2> SUFFICES ASSUME NEW t \in ExtSessions, NEW th \in ExtThreads
                 PROVE  /\ <<t, th>> \in live' => th <= bound[t]
                        /\ \A i \in 1 .. MaxExtParts :
                             <<t, th, i>> \in events' \cup relaying =>
                               th <= bound[t] /\ i <= Len(said'[t])
      BY DEF RelaysFit
    <2>1. <<t, th>> \in live' => th <= bound[t]
      BY DEF ExtInv, RelayInv, RelaysFit
    <2>2. ASSUME NEW i \in 1 .. MaxExtParts, <<t, th, i>> \in events' \cup relaying
          PROVE  th <= bound[t] /\ i <= Len(said'[t])
      <3>1. CASE <<t, th, i>> \in events \cup relaying
        <4>1. th <= bound[t] /\ i <= Len(said[t])
          BY <3>1 DEF ExtInv, RelayInv, RelaysFit
        <4> QED BY <1>1, <1>2, <4>1
      <3>2. CASE t = s /\ th <= bound[s] /\ i = Len(said[s]) + 1
        BY <1>1, <1>2, <3>2
      <3> QED BY <2>2, <3>1, <3>2
    <2> QED BY <2>1, <2>2
  <1>9. SeenContested'
    <2> SUFFICES ASSUME NEW t \in pass.session, pass.at \in Posting \cup {"thread"}
                 PROVE  ~LatestTurnFromDiscord(t, pass.seen)'
      BY DEF SeenContested
    <2>1. ~LatestTurnFromDiscord(t, pass.seen) /\ pass.seen <= Len(said[t])
      BY DEF ExtInv, InHand, RelayInv, SeenContested
    <2>2. pass.seen \in 0 .. Len(said[t])
      BY <1>1, <2>1
    <2> QED BY <1>1, <1>3, <2>1, <2>2
  <1>10. QueuedUnposted'
    <2> SUFFICES ASSUME NEW t \in ExtSessions, NEW th \in ExtThreads, NEW i \in 1 .. MaxExtParts,
                        <<t, th, i>> \in events', th = bound[t], <<t, i>> \notin torn',
                        ~Contested(t, i)'
                 PROVE  posted[th][<<t, i>>] = 0
      BY DEF QueuedUnposted
    <2>1. CASE <<t, th, i>> \in events
      BY <1>3, <2>1 DEF ExtInv, RelayInv, QueuedUnposted
    <2>2. CASE t = s /\ i = Len(said[s]) + 1
      <3>1. <<t, i>> \in ExtParts /\ <<t, i>>[1] = s /\ <<t, i>>[2] = i
        BY <2>2, PartsOf
      <3>2. i > Len(said[s])
        BY <1>1, <2>2
      <3> QED BY <3>1, <3>2 DEF ExtInv, Unposted
    <2> QED BY <2>1, <2>2
  <1>11. RelayedAlone'
    <2> SUFFICES ASSUME NEW t \in ExtSessions, NEW th \in ExtThreads, NEW i \in 1 .. MaxExtParts,
                        <<t, th, i>> \in relaying, <<t, i>> \notin torn'
                 PROVE  /\ ~Contested(t, i)'
                        /\ \/ th = bound[t]
                           \/ posted[bound[t]][<<t, i>>] = 0 /\ <<t, bound[t], i>> \notin events'
      BY DEF RelayedAlone
    <2>1. /\ ~Contested(t, i)
          /\ \/ th = bound[t]
             \/ posted[bound[t]][<<t, i>>] = 0 /\ <<t, bound[t], i>> \notin events
      BY DEF ExtInv, RelayInv, RelayedAlone
    <2>2. i <= Len(said[t]) /\ th <= bound[t]
      BY DEF ExtInv, RelayInv, RelaysFit
    <2>3. ~Contested(t, i)'
      BY <1>3, <2>1, <2>2
    <2>4. bound[t] \in ExtThreads
      BY <1>1, <2>2 DEF ExtThreads
    <2>5. ~ (t = s /\ i = Len(said[s]) + 1)
      BY <1>1, <2>2
    <2> QED BY <2>1, <2>3, <2>4, <2>5
  <1> QED BY <1>4, <1>5, <1>6, <1>7, <1>8, <1>9, <1>10, <1>11 DEF ExtInv, RelayInv

LEMMA TypesKeep ==
  ASSUME ExtInv, NEW s \in ExtSessions, TypesInTerminal(s) \/ TypesInDiscord(s)
  PROVE  ExtInv'
  <1>1. /\ bound \in [ExtSessions -> 0 .. MaxExtThreads] /\ 0 \in 0 .. MaxExtThreads
        /\ live \subseteq ExtRuntimes /\ torn \subseteq ExtParts /\ MaxExtThreads \in Nat
        /\ events \subseteq ExtRelays /\ relaying \subseteq ExtRelays
    BY ExtTyping, ExtAssumption DEF ExtInv
  <1>2. CASE TypesInTerminal(s)
    <2>1. torn' = torn \cup PartsIn({x \in relaying : x[1] = s})
      BY <1>2 DEF TypesInTerminal
    <2>2. torn' \subseteq ExtParts
      BY <1>1, <2>1 DEF PartsIn, ExtRelays, ExtParts
    <2>3. ASSUME NEW th \in ExtThreads, NEW i \in 1 .. MaxExtParts, <<s, th, i>> \in relaying
          PROVE  <<s, i>> \in torn'
      <3> DEFINE x == <<s, th, i>>
      <3>1. x \in {y \in relaying : y[1] = s} /\ <<s, i>> = <<x[1], x[3]>>
        BY <2>3
      <3> HIDE DEF x
      <3> QED BY <2>1, <3>1 DEF PartsIn
    <2>4. /\ Says(s, "user", 0) /\ UNCHANGED <<bound, made, row, posted, pass, timedOut, extFaults>>
          /\ live' = live /\ events' = events /\ relaying' = relaying
      BY <1>2 DEF TypesInTerminal, extTables, extRuntimes
    <2> QED BY <1>1, <2>1, <2>2, <2>3, <2>4, SaidKeeps
  <1>3. CASE TypesInDiscord(s)
    <2>1. /\ Says(s, "user", bound[s]) /\ live' = live \cup {<<s, bound[s]>>} /\ bound[s] # 0
          /\ UNCHANGED <<bound, made, row, posted, pass, timedOut, extFaults>>
          /\ events' = events /\ relaying' = relaying /\ torn' = torn
      BY <1>3 DEF TypesInDiscord, extTables
    <2>2. bound[s] \in 0 .. MaxExtThreads /\ live' \subseteq ExtRuntimes
      BY <1>1, <2>1 DEF ExtRuntimes, ExtThreads
    <2>3. \A t \in ExtSessions, th \in ExtThreads :
            <<t, th>> \in live' => <<t, th>> \in live \/ th <= bound[t]
      BY <1>1, <2>1, <2>2 DEF ExtThreads
    <2> QED BY <1>1, <2>1, <2>2, <2>3, SaidKeeps
  <1> QED BY <1>2, <1>3

LEMMA AnswersKeeps == ASSUME ExtInv, NEW s \in ExtSessions, Answers(s) PROVE ExtInv'
  <1> DEFINE n == Len(said[s]) + 1
  <1>1. /\ 0 \in 0 .. MaxExtThreads /\ live \subseteq ExtRuntimes /\ torn \subseteq ExtParts
        /\ events \subseteq ExtRelays /\ MaxExtParts \in Nat
        /\ Len(said[s]) \in 0 .. MaxExtParts
    BY ExtTyping, ExtAssumption DEF ExtInv
  <1>2. /\ Says(s, "agent", 0)
        /\ events' = events \cup {<<s, th, n>> : th \in Listening(s)}
        /\ UNCHANGED <<bound, made, row, posted, pass, timedOut, extFaults>>
        /\ live' = live /\ relaying' = relaying /\ torn' = torn
    BY DEF Answers, extTables
  <1>3. n \in 1 .. MaxExtParts
    BY <1>1, <1>2 DEF Says
  <1>4. \A th \in Listening(s) : th \in ExtThreads /\ th <= bound[s]
    BY DEF Listening, ExtInv, RelayInv, RelaysFit
  <1> HIDE DEF n
  <1>5. events' \subseteq ExtRelays
    BY <1>1, <1>2, <1>3, <1>4 DEF ExtRelays
  <1>6. \A t \in ExtSessions, th \in ExtThreads, i \in 1 .. MaxExtParts :
          <<t, th, i>> \in events' => <<t, th, i>> \in events \/ (t = s /\ th <= bound[s] /\ i = n)
    BY <1>2, <1>4
  <1> QED BY <1>1, <1>2, <1>5, <1>6, SaidKeeps DEF n

LEMMA ThreadOfRelay ==
  ASSUME ExtInv, NEW s \in ExtSessions, NEW th \in ExtThreads, NEW i \in 1 .. MaxExtParts,
         <<s, th, i>> \in events \cup relaying
  PROVE  bound[s] \in ExtThreads
  <1>1. th <= bound[s] /\ bound[s] \in 0 .. MaxExtThreads /\ MaxExtThreads \in Nat
    BY ExtTyping DEF ExtInv, RelayInv, RelaysFit
  <1> QED BY <1>1 DEF ExtThreads

\* Nothing was posted to the thread that is made.
LEMMA MakesThreadKeeps == ASSUME ExtInv, NEW s \in ExtSessions, MakesThread(s) PROVE ExtInv'
  <1> DEFINE th == made + 1
  <1>1. /\ pass \in Passes /\ made \in 0 .. MaxExtThreads /\ MaxExtThreads \in Nat
        /\ bound \in [ExtSessions -> 0 .. MaxExtThreads]
        /\ extFaults \in 0 .. MaxExtFaults /\ MaxExtFaults \in Nat
    BY ExtTyping DEF ExtInv
  <1>2. /\ pass.at = "thread" /\ s \in pass.session /\ made < MaxExtThreads
        /\ made' = th /\ bound' = [bound EXCEPT ![s] = th] /\ HasThread(th)
        /\ UNCHANGED <<said, row, posted, live, events, relaying, timedOut, torn>>
    BY DEF MakesThread, At, extRuntimes
  <1>3. /\ bound' \in [ExtSessions -> 0 .. MaxExtThreads] /\ th \in 0 .. MaxExtThreads
        /\ bound'[s] = th /\ \A t \in ExtSessions : t # s => bound'[t] = bound[t]
    BY <1>1, <1>2
  <1>4. \A t \in ExtSessions : bound[t] <= made
    BY DEF ExtInv, Unposted
  <1>5. extFaults' \in 0 .. MaxExtFaults
    BY <1>1 DEF MakesThread, Fault
  <1>6. /\ pass' \in Passes /\ pass'.batch = {} /\ pass'.todo = {}
        /\ pass'.session \subseteq pass.session
        /\ pass'.at \in Posting \cup {"thread"} =>
             pass'.thread = th /\ pass'.seen = pass.seen
    <2>1. pass.batch = {} /\ pass.todo = {}
      BY <1>2 DEF ExtInv, InHand
    <2>2. CASE timedOut
      BY <1>2, <2>2, PassEnds DEF HasThread
    <2>3. CASE ~ timedOut
      <3>1. pass' = [pass EXCEPT !.at = "ids", !.thread = th]
        BY <1>2, <2>3 DEF HasThread
      <3> HIDE DEF th
      <3>2. pass' \in Passes
        BY <1>1, <1>3, <3>1 DEF Passes, PassPlaces
      <3> QED BY <1>1, <2>1, <3>1, <3>2 DEF Passes
    <2> QED BY <2>2, <2>3
  <1>7. ExtTyped'
    BY <1>2, <1>3, <1>5, <1>6 DEF ExtInv, ExtTyped, ExtTypeOK, Passes, PassPlaces
  <1>8. \A t \in pass'.session : t = s
    BY <1>2, <1>6 DEF ExtInv, InHand
  <1>9. \A p \in ExtParts : p[1] \in ExtSessions
    BY PartsOf
  <1>10. th # 0 /\ \A t \in ExtSessions : bound[t] <= bound'[t] /\ bound'[t] <= th
    BY <1>1, <1>3, <1>4
  <1>11. \A t \in ExtThreads, p \in ExtParts : t = th => posted[t][p] = 0
    <2>1. \A t \in ExtSessions : th > bound[t]
      BY <1>1, <1>4
    <2> QED BY <1>9, <2>1 DEF ExtInv, Unposted
  <1> HIDE DEF th
  <1>12. InHand'
    BY <1>2, <1>3, <1>6, <1>8, <1>10 DEF ExtInv, InHand, Posting
  <1>13. Unposted'
    <2>1. \A t \in ExtThreads, p \in ExtParts : t > bound'[p[1]] => t > bound[p[1]]
      BY <1>1, <1>3, <1>9, <1>10 DEF ExtThreads
    <2> QED BY <1>2, <1>10, <2>1 DEF ExtInv, Unposted
  <1>14. PostsRecorded'
    <2> SUFFICES ASSUME NEW t \in ExtThreads, NEW p \in ExtParts,
                        t = bound'[p[1]], posted[t][p] # 0, p \notin torn
                 PROVE  row[p] = t \/ <<p[1], t, p[2]>> \in relaying
      BY <1>2 DEF PostsRecorded
    <2>1. p[1] # s
      BY <1>3, <1>11
    <2>2. t = bound[p[1]] /\ p[2] \notin pass.batch
      BY <1>2, <1>3, <1>9, <2>1 DEF ExtInv, InHand
    <2> QED BY <2>2 DEF ExtInv, PostsRecorded
  <1>15. TodoUnposted' /\ ExtPostedOnce'
    BY <1>2, <1>6 DEF ExtInv, TodoUnposted, ExtPostedOnce
  <1>16. RelaysFit'
    <2> SUFFICES ASSUME NEW t \in ExtSessions, NEW u \in ExtThreads
                 PROVE  /\ <<t, u>> \in live => u <= bound'[t]
                        /\ \A i \in 1 .. MaxExtParts :
                             <<t, u, i>> \in events \cup relaying =>
                               u <= bound'[t] /\ i <= Len(said[t])
      BY <1>2 DEF RelaysFit
    <2>1. u <= bound[t] => u <= bound'[t]
      BY <1>1, <1>3, <1>10 DEF ExtThreads
    <2> QED BY <2>1 DEF ExtInv, RelayInv, RelaysFit
  <1>17. SeenContested'
    <2>1. \A t \in pass.session : ~LatestTurnFromDiscord(t, pass.seen)
      BY <1>2 DEF ExtInv, RelayInv, SeenContested
    <2> QED BY <1>2, <1>6, <2>1, ContestStays DEF SeenContested
  <1>18. \A u \in ExtThreads, i \in 1 .. MaxExtParts :
           <<s, u, i>> \in events \cup relaying => u # th
    <2>1. \A u \in ExtThreads : u <= bound[s] => u # th
      BY <1>1, <1>4 DEF th, ExtThreads
    <2> QED BY <2>1 DEF ExtInv, RelayInv, RelaysFit
  <1>19. QueuedUnposted'
    <2> SUFFICES ASSUME NEW t \in ExtSessions, NEW u \in ExtThreads, NEW i \in 1 .. MaxExtParts,
                        <<t, u, i>> \in events, u = bound'[t], <<t, i>> \notin torn,
                        ~Contested(t, i)
                 PROVE  posted[u][<<t, i>>] = 0
      BY <1>2, ContestStays DEF QueuedUnposted
    <2>1. t # s
      BY <1>3, <1>18
    <2> QED BY <1>3, <2>1 DEF ExtInv, RelayInv, QueuedUnposted
  <1>20. RelayedAlone'
    <2> SUFFICES ASSUME NEW t \in ExtSessions, NEW u \in ExtThreads, NEW i \in 1 .. MaxExtParts,
                        <<t, u, i>> \in relaying, <<t, i>> \notin torn
                 PROVE  /\ ~Contested(t, i)
                        /\ \/ u = bound'[t]
                           \/ posted[bound'[t]][<<t, i>>] = 0 /\ <<t, bound'[t], i>> \notin events
      BY <1>2, ContestStays DEF RelayedAlone
    <2>1. CASE t = s
      <3>1. th \in ExtThreads /\ <<s, i>> \in ExtParts
        BY <1>3, <1>10, PartsOf DEF ExtThreads
      <3>2. posted[th][<<s, i>>] = 0 /\ <<s, th, i>> \notin events
        BY <1>11, <1>18, <3>1
      <3> QED BY <1>3, <2>1, <3>2 DEF ExtInv, RelayInv, RelayedAlone
    <2>2. CASE t # s
      BY <1>3, <2>2 DEF ExtInv, RelayInv, RelayedAlone
    <2> QED BY <2>1, <2>2
  <1> QED BY <1>7, <1>12, <1>13, <1>14, <1>15, <1>16, <1>17, <1>19, <1>20 DEF ExtInv, RelayInv

\* What holds while the pass is at its session's thread
LEMMA AtThread ==
  ASSUME ExtInv, NEW s \in pass.session, pass.at \in Posting
  PROVE  /\ s \in ExtSessions /\ pass.session = {s}
         /\ pass.thread = bound[s] /\ pass.thread \in ExtThreads
         /\ pass.thread \in 0 .. MaxExtThreads
         /\ pass.seen \in 0 .. MaxExtParts /\ pass.seen <= Len(said[s])
         /\ pass \in Passes /\ row \in [ExtParts -> 0 .. MaxExtThreads]
         /\ torn \subseteq ExtParts
         /\ \A t \in ExtThreads, p \in ExtParts : posted[t][p] \in 0 .. 2
         /\ Len(said[s]) \in 0 .. MaxExtParts /\ MaxExtParts \in Nat
         /\ ~LatestTurnFromDiscord(s, pass.seen)
         /\ \A i \in 1 .. pass.seen : Contested(s, i)
  <1>1. ExtTyped /\ InHand
    BY DEF ExtInv
  <1>7. ~LatestTurnFromDiscord(s, pass.seen) /\ \A i \in 1 .. pass.seen : Contested(s, i)
    BY SeenIsContested DEF ExtInv, RelayInv, SeenContested
  <1>2. /\ pass \in Passes /\ row \in [ExtParts -> 0 .. MaxExtThreads]
        /\ posted \in [ExtThreads -> [ExtParts -> 0 .. 2]]
        /\ bound \in [ExtSessions -> 0 .. MaxExtThreads] /\ torn \subseteq ExtParts
        /\ MaxExtParts \in Nat /\ MaxExtThreads \in Nat
        /\ \A t \in ExtSessions : Len(said[t]) \in 0 .. MaxExtParts
    BY <1>1, ExtTyping
  <1>3. s \in ExtSessions /\ pass.seen \in 0 .. MaxExtParts
    BY <1>2 DEF Passes
  <1>4. /\ pass.session = {s} /\ pass.thread = bound[s] /\ bound[s] # 0
        /\ pass.seen <= Len(said[s])
    BY <1>1 DEF InHand, Posting
  <1>5. \A t \in ExtThreads, p \in ExtParts : posted[t][p] \in 0 .. 2
    BY <1>2
  <1>6. bound[s] \in ExtThreads /\ bound[s] \in 0 .. MaxExtThreads
    BY <1>2, <1>3, <1>4 DEF ExtThreads
  <1> QED BY <1>2, <1>3, <1>4, <1>5, <1>6, <1>7

\* Rows are written for what was typed in the thread; what has none afterwards and was
\* seen is to be posted, and was not posted before.
LEMMA ReadsIdsKeeps == ASSUME ExtInv, NEW s \in ExtSessions, ReadsIds(s) PROVE ExtInv'
  <1> DEFINE th == pass.thread
  <1>1. pass.at = "ids" /\ s \in pass.session
    BY DEF ReadsIds, At
  <1>2. /\ pass.session = {s} /\ th = bound[s] /\ th \in ExtThreads /\ th \in 0 .. MaxExtThreads
        /\ pass.seen \in 0 .. MaxExtParts /\ pass.seen <= Len(said[s])
        /\ pass \in Passes /\ row \in [ExtParts -> 0 .. MaxExtThreads]
        /\ MaxExtParts \in Nat /\ ~LatestTurnFromDiscord(s, pass.seen)
        /\ \A i \in 1 .. pass.seen : Contested(s, i)
    BY <1>1, AtThread DEF Posting
  <1>3. PICK direct \in SUBSET (1 .. pass.seen) :
          /\ Records(th, {s} \X direct)
          /\ pass' = [pass EXCEPT !.at = "batches",
                      !.todo = {i \in 1 .. pass.seen : row[<<s, i>>] # th} \ direct]
    BY DEF ReadsIds
  <1> DEFINE todo == {i \in 1 .. pass.seen : row[<<s, i>>] # th} \ direct
  <1>4. UNCHANGED <<said, bound, made, posted, live, events, relaying, timedOut, torn, extFaults>>
    BY DEF ReadsIds, extRuntimes
  <1>5. /\ row' \in [ExtParts -> 0 .. MaxExtThreads]
        /\ \A p \in ExtParts : row'[p] = IF p \in {s} \X direct THEN th ELSE row[p]
    BY <1>2, <1>3, RecordsRow DEF ExtInv
  <1>6. todo \in SUBSET (1 .. MaxExtParts) /\ \A i \in todo : i <= pass.seen
    BY <1>2
  <1>7. /\ pass' \in Passes /\ pass'.todo = todo /\ pass'.batch = pass.batch
        /\ pass'.session = {s} /\ pass'.thread = th /\ pass'.seen = pass.seen
        /\ pass'.at = "batches"
    <2>1. pass' = [pass EXCEPT !.at = "batches", !.todo = todo]
      BY <1>3
    <2> HIDE DEF todo
    <2> QED BY <1>2, <1>6, <2>1 DEF Passes, PassPlaces
  <1>8. pass.batch = {}
    BY <1>1 DEF ExtInv, InHand
  <1>9. th # 0
    BY <1>2 DEF ExtThreads
  <1>10. ExtTyped'
    BY <1>4, <1>5, <1>7 DEF ExtInv, ExtTyped, ExtTypeOK, Passes, PassPlaces
  <1>11. InHand'
    BY <1>2, <1>4, <1>6, <1>7, <1>8, <1>9 DEF InHand
  <1>12. Unposted' /\ ExtPostedOnce'
    BY <1>4 DEF ExtInv, Unposted, ExtPostedOnce
  <1>13. \A t \in ExtThreads, p \in ExtParts :
           t = bound[p[1]] /\ posted[t][p] # 0 /\ p \notin torn =>
             row[p] = t \/ <<p[1], t, p[2]>> \in relaying
    BY <1>8 DEF ExtInv, PostsRecorded
  <1>14. PostsRecorded'
    <2> SUFFICES ASSUME NEW t \in ExtThreads, NEW p \in ExtParts,
                        t = bound[p[1]], posted[t][p] # 0, p \notin torn
                 PROVE  row'[p] = t \/ <<p[1], t, p[2]>> \in relaying
      BY <1>4 DEF PostsRecorded
    <2>1. row[p] = t \/ <<p[1], t, p[2]>> \in relaying
      BY <1>13
    <2>2. p \in {s} \X direct => t = th
      BY <1>2
    <2> QED BY <1>5, <2>1, <2>2
  <1>15. TodoUnposted'
    <2> SUFFICES ASSUME NEW i \in todo, <<s, i>> \notin torn PROVE posted[th][<<s, i>>] = 0
      BY <1>4, <1>7 DEF TodoUnposted
    <2>1. /\ <<s, i>> \in ExtParts /\ <<s, i>>[1] = s /\ <<s, i>>[2] = i /\ row[<<s, i>>] # th
          /\ s \in ExtSessions /\ i \in 1 .. MaxExtParts /\ i \in 1 .. pass.seen
      BY <1>6, PartsOf
    <2>2. <<s, th, i>> \notin relaying
      BY <1>2, <2>1 DEF ExtInv, RelayInv, RelayedAlone
    <2>3. posted[th][<<s, i>>] # 0 => row[<<s, i>>] = th \/ <<s, th, i>> \in relaying
      BY <1>2, <1>13, <2>1
    <2> QED BY <2>1, <2>2, <2>3
  <1>16. SeenContested'
    BY <1>2, <1>4, <1>7, ContestStays DEF SeenContested
  <1>17. RelayInv'
    BY <1>4, <1>16, RelaysStay
  <1> QED BY <1>10, <1>11, <1>12, <1>14, <1>15, <1>17 DEF ExtInv

\* Of a post: what it leaves, whether it is being recorded or given up
LEMMA PostKeeps ==
  ASSUME ExtInv, NEW s \in pass.session, pass.at \in Posting,
         NEW b \in SUBSET pass.todo, Posts(pass.thread, {s} \X b),
         torn \subseteq torn', torn' \subseteq ExtParts, extFaults' \in 0 .. MaxExtFaults,
         UNCHANGED <<said, bound, made, row, live, events, relaying, timedOut>>,
         pass' \in Passes, pass.batch = {}
  PROVE  /\ ExtTyped' /\ Unposted' /\ ExtPostedOnce' /\ (SeenContested' => RelayInv')
         /\ (\A i \in b : <<s, i>> \in torn' \/ (s \in pass'.session /\ i \in pass'.batch))
               => PostsRecorded'
         /\ \A i \in pass.todo \ b :
              <<s, i>> \notin torn' => posted'[pass.thread][<<s, i>>] = 0
  <1> DEFINE th == pass.thread
  <1>1. /\ s \in ExtSessions /\ th = bound[s] /\ th \in ExtThreads
        /\ pass.seen \in 0 .. MaxExtParts /\ pass.seen <= Len(said[s])
        /\ pass \in Passes /\ MaxExtParts \in Nat /\ Len(said[s]) \in 0 .. MaxExtParts
        /\ \A t \in ExtThreads, p \in ExtParts : posted[t][p] \in 0 .. 2
        /\ \A i \in 1 .. pass.seen : Contested(s, i)
    BY AtThread
  <1>2. /\ posted' \in [ExtThreads -> [ExtParts -> 0 .. 2]]
        /\ \A t \in ExtThreads, p \in ExtParts :
             posted'[t][p] = IF t = th /\ p \in {s} \X b /\ posted[t][p] < 2
                             THEN posted[t][p] + 1 ELSE posted[t][p]
    BY PostsCount DEF ExtInv
  <1>3. \A i \in pass.todo : /\ i \in 1 .. MaxExtParts /\ i <= pass.seen
                             /\ <<s, i>> \notin torn => posted[th][<<s, i>>] = 0
    BY <1>1 DEF ExtInv, InHand, TodoUnposted, Passes
  <1>4. \A p \in ExtParts : p \in {s} \X b => /\ p[1] = s /\ p[2] \in b /\ p = <<s, p[2]>>
    OBVIOUS
  <1>5. \A t \in ExtThreads, p \in ExtParts :
          posted'[t][p] # posted[t][p] => t = th /\ p[1] = s /\ p[2] \in b /\ p = <<s, p[2]>>
    BY <1>2, <1>4
  <1>6. \A p \in ExtParts : p = <<p[1], p[2]>>
    BY PartsOf
  <1> HIDE DEF th
  <1>7. ExtTyped'
    BY <1>2 DEF ExtInv, ExtTyped, ExtTypeOK, Passes, PassPlaces
  <1>8. Unposted'
    <2> SUFFICES ASSUME NEW t \in ExtThreads, NEW p \in ExtParts,
                        t > bound[p[1]] \/ p[2] > Len(said[p[1]])
                 PROVE  posted'[t][p] = 0
      BY DEF ExtInv, Unposted
    <2>1. posted[t][p] = 0
      BY DEF ExtInv, Unposted
    <2>2. ~ (t = th /\ p[1] = s /\ p[2] \in b)
      <3> SUFFICES ASSUME t = th, p[1] = s, p[2] \in b PROVE FALSE
        OBVIOUS
      <3>1. p[2] \in 1 .. MaxExtParts /\ p[2] <= pass.seen
        BY <1>3
      <3> QED BY <1>1, <3>1 DEF ExtThreads
    <2> QED BY <1>5, <2>1, <2>2
  <1>9. ExtPostedOnce'
    <2> SUFFICES ASSUME NEW t \in ExtThreads, NEW p \in ExtParts, p \notin torn'
                 PROVE  posted'[t][p] <= 1
      BY DEF ExtPostedOnce
    <2>1. posted[t][p] <= 1 /\ posted[t][p] \in 0 .. 2
      BY <1>1 DEF ExtInv, ExtPostedOnce
    <2>2. CASE posted'[t][p] = posted[t][p]
      BY <2>1, <2>2
    <2>3. CASE posted'[t][p] # posted[t][p]
      <3>1. posted[t][p] = 0
        BY <1>3, <1>5, <2>3
      <3> QED BY <1>2, <3>1
    <2> QED BY <2>2, <2>3
  <1>10. ASSUME \A i \in b : <<s, i>> \in torn' \/ (s \in pass'.session /\ i \in pass'.batch)
         PROVE  PostsRecorded'
    <2> SUFFICES ASSUME NEW t \in ExtThreads, NEW p \in ExtParts,
                        t = bound[p[1]], posted'[t][p] # 0, p \notin torn'
                 PROVE  \/ row[p] = t \/ (p[1] \in pass'.session /\ p[2] \in pass'.batch)
                        \/ <<p[1], t, p[2]>> \in relaying
      BY DEF PostsRecorded
    <2>1. CASE posted'[t][p] = posted[t][p]
      BY <2>1 DEF ExtInv, PostsRecorded
    <2>2. CASE posted'[t][p] # posted[t][p]
      BY <1>5, <1>10, <2>2
    <2> QED BY <2>1, <2>2
  <1>11. ASSUME NEW i \in pass.todo \ b, <<s, i>> \notin torn'
         PROVE  posted'[th][<<s, i>>] = 0
    <2>1. <<s, i>> \in ExtParts /\ <<s, i>>[2] = i
      BY <1>1, <1>3, PartsOf
    <2>2. posted'[th][<<s, i>>] = posted[th][<<s, i>>]
      BY <1>1, <1>5, <2>1
    <2> QED BY <1>3, <1>11, <2>2
  <1>12. \A u \in ExtSessions, t \in ExtThreads, i \in 1 .. MaxExtParts :
           ~Contested(u, i) => posted'[t][<<u, i>>] = posted[t][<<u, i>>]
    <2> SUFFICES ASSUME NEW u \in ExtSessions, NEW t \in ExtThreads, NEW i \in 1 .. MaxExtParts,
                        posted'[t][<<u, i>>] # posted[t][<<u, i>>]
                 PROVE  Contested(u, i)
      OBVIOUS
    <2>1. u = s /\ i \in b
      BY <1>5, PartsOf
    <2>2. i \in 1 .. pass.seen
      BY <1>1, <1>3, <2>1
    <2> QED BY <1>1, <2>1, <2>2
  <1>13. RelaysFit'
    BY DEF ExtInv, RelayInv, RelaysFit
  <1>14. QueuedUnposted'
    BY <1>12, ContestStays DEF ExtInv, RelayInv, QueuedUnposted
  <1>15. RelayedAlone'
    <2> SUFFICES ASSUME NEW u \in ExtSessions, NEW t \in ExtThreads, NEW i \in 1 .. MaxExtParts,
                        <<u, t, i>> \in relaying, <<u, i>> \notin torn'
                 PROVE  /\ ~Contested(u, i)
                        /\ \/ t = bound[u]
                           \/ posted'[bound[u]][<<u, i>>] = 0 /\ <<u, bound[u], i>> \notin events
      BY ContestStays DEF RelayedAlone
    <2>1. /\ ~Contested(u, i)
          /\ \/ t = bound[u]
             \/ posted[bound[u]][<<u, i>>] = 0 /\ <<u, bound[u], i>> \notin events
      BY DEF ExtInv, RelayInv, RelayedAlone
    <2>2. bound[u] \in ExtThreads
      BY ThreadOfRelay
    <2> QED BY <1>12, <2>1, <2>2
  <1> QED BY <1>7, <1>8, <1>9, <1>10, <1>11, <1>13, <1>14, <1>15 DEF th, RelayInv

LEMMA SendsBatchKeeps == ASSUME ExtInv, NEW s \in ExtSessions, SendsBatch(s) PROVE ExtInv'
  <1>1. pass.at = "batches" /\ s \in pass.session
    BY DEF SendsBatch, At
  <1>2. /\ pass.session = {s} /\ pass \in Passes /\ pass.thread = bound[s] /\ bound[s] # 0
        /\ pass.seen <= Len(said[s]) /\ pass.batch = {} /\ \A i \in pass.todo : i <= pass.seen
        /\ torn \subseteq ExtParts /\ ~LatestTurnFromDiscord(s, pass.seen)
    BY <1>1, AtThread DEF Posting, ExtInv, InHand
  <1>3. UNCHANGED <<said, bound, made, row, live, events, relaying, timedOut, torn, extFaults>>
    BY DEF SendsBatch, extRuntimes
  <1>4. extFaults \in 0 .. MaxExtFaults /\ timedOut \in BOOLEAN
    BY ExtTyping DEF ExtInv
  <1>5. CASE timedOut \/ pass.todo = {}
    <2>1. SyncEnds /\ UNCHANGED posted
      BY <1>5 DEF SendsBatch
    <2> QED BY <1>2, <1>3, <1>4, <2>1, PassMoves, PassEnds DEF extTables
  <1>6. CASE ~ (timedOut \/ pass.todo = {})
    <2>1. PICK b \in Batches :
            /\ Posts(pass.thread, {s} \X b)
            /\ pass' = [pass EXCEPT !.at = "record", !.todo = @ \ b, !.batch = b]
      BY <1>6 DEF SendsBatch
    <2>2. b \in SUBSET pass.todo
      BY DEF Batches
    <2>3. /\ pass' \in Passes /\ pass'.at = "record" /\ pass'.session = {s}
          /\ pass'.thread = pass.thread /\ pass'.seen = pass.seen
          /\ pass'.todo = pass.todo \ b /\ pass'.batch = b
      BY <1>2, <2>1, <2>2 DEF Passes, PassPlaces
    <2>7. SeenContested'
      BY <1>2, <1>3, <2>3, ContestStays DEF SeenContested
    <2>4. /\ ExtTyped' /\ Unposted' /\ ExtPostedOnce' /\ PostsRecorded' /\ RelayInv'
          /\ \A i \in pass.todo \ b :
               <<s, i>> \notin torn => posted'[pass.thread][<<s, i>>] = 0
      BY <1>1, <1>2, <1>3, <1>4, <2>1, <2>2, <2>3, <2>7, PostKeeps DEF Posting
    <2>5. InHand'
      BY <1>2, <1>3, <2>3 DEF InHand
    <2>6. TodoUnposted'
      BY <1>3, <2>3, <2>4 DEF TodoUnposted
    <2> QED BY <2>4, <2>5, <2>6 DEF ExtInv
  <1> QED BY <1>5, <1>6

LEMMA SendFailsKeeps == ASSUME ExtInv, NEW s \in ExtSessions, SendFails(s) PROVE ExtInv'
  <1>1. pass.at = "batches" /\ s \in pass.session
    BY DEF SendFails, At
  <1>2. pass.batch = {} /\ pass \in Passes /\ torn \subseteq ExtParts
    BY <1>1, AtThread DEF Posting, ExtInv, InHand
  <1>3. /\ SyncEnds /\ extFaults' \in 0 .. MaxExtFaults
        /\ UNCHANGED <<said, bound, made, row, live, events, relaying, timedOut>>
    BY ExtTyping DEF SendFails, Fault, ExtInv, extRuntimes
  <1>4. PICK b \in Batches :
          Posts(pass.thread, {s} \X b) /\ torn' = torn \cup ({s} \X b)
    BY DEF SendFails
  <1>5. b \in SUBSET pass.todo
    BY DEF Batches
  <1>6. /\ torn \subseteq torn' /\ torn' \subseteq ExtParts /\ \A i \in b : <<s, i>> \in torn'
    BY <1>2, <1>4, <1>5 DEF ExtParts, Passes
  <1>7. /\ pass' \in Passes /\ pass'.batch = {} /\ pass'.todo = {} /\ pass'.session = {}
    BY <1>3, PassEnds
  <1>10. SeenContested'
    BY <1>7 DEF SeenContested
  <1>8. ExtTyped' /\ Unposted' /\ ExtPostedOnce' /\ PostsRecorded' /\ RelayInv'
    BY <1>1, <1>2, <1>3, <1>4, <1>5, <1>6, <1>7, <1>10, PostKeeps DEF Posting
  <1>9. InHand' /\ TodoUnposted'
    BY <1>7 DEF InHand, TodoUnposted
  <1> QED BY <1>8, <1>9 DEF ExtInv

LEMMA RecordsBatchKeeps == ASSUME ExtInv, NEW s \in ExtSessions, RecordsBatch(s) PROVE ExtInv'
  <1> DEFINE th == pass.thread
  <1>1. pass.at = "record" /\ s \in pass.session
    BY DEF RecordsBatch, At
  <1>2. /\ pass.session = {s} /\ pass \in Passes /\ th = bound[s] /\ bound[s] # 0
        /\ th \in 0 .. MaxExtThreads
        /\ pass.seen <= Len(said[s]) /\ \A i \in pass.todo : i <= pass.seen
        /\ ~LatestTurnFromDiscord(s, pass.seen)
    BY <1>1, AtThread DEF Posting, ExtInv, InHand
  <1>3. /\ UNCHANGED <<said, bound, made, posted, live, events, relaying, timedOut, torn, extFaults>>
        /\ pass' = [pass EXCEPT !.at = "batches", !.batch = {}]
    BY DEF RecordsBatch, extRuntimes
  <1>4. /\ pass' \in Passes /\ pass'.at = "batches" /\ pass'.session = {s}
        /\ pass'.thread = th /\ pass'.seen = pass.seen
        /\ pass'.todo = pass.todo /\ pass'.batch = {}
    BY <1>2, <1>3 DEF Passes, PassPlaces
  <1>5. /\ row' \in [ExtParts -> 0 .. MaxExtThreads]
        /\ \A p \in ExtParts : row'[p] = IF p \in {s} \X pass.batch THEN th ELSE row[p]
    BY <1>2, RecordsRow DEF ExtInv, RecordsBatch
  <1>6. ExtTyped'
    BY <1>3, <1>4, <1>5 DEF ExtInv, ExtTyped, ExtTypeOK, Passes, PassPlaces
  <1>7. InHand'
    BY <1>2, <1>3, <1>4 DEF InHand
  <1>8. Unposted' /\ ExtPostedOnce' /\ TodoUnposted'
    BY <1>2, <1>3, <1>4 DEF ExtInv, Unposted, ExtPostedOnce, TodoUnposted
  <1>9. PostsRecorded'
    <2> SUFFICES ASSUME NEW t \in ExtThreads, NEW p \in ExtParts,
                        t = bound[p[1]], posted[t][p] # 0, p \notin torn
                 PROVE  row'[p] = t \/ <<p[1], t, p[2]>> \in relaying
      BY <1>3 DEF PostsRecorded
    <2>1. \/ row[p] = t \/ (p[1] = s /\ p[2] \in pass.batch)
          \/ <<p[1], t, p[2]>> \in relaying
      BY <1>2 DEF ExtInv, PostsRecorded
    <2>2. p = <<p[1], p[2]>>
      BY PartsOf
    <2>3. CASE p \in {s} \X pass.batch
      BY <1>2, <1>5, <2>3
    <2>4. CASE p \notin {s} \X pass.batch
      BY <1>5, <2>1, <2>2, <2>4
    <2> QED BY <2>3, <2>4
  <1>10. SeenContested'
    BY <1>2, <1>3, <1>4, ContestStays DEF SeenContested
  <1>11. RelayInv'
    BY <1>3, <1>10, RelaysStay
  <1> QED BY <1>6, <1>7, <1>8, <1>9, <1>11 DEF ExtInv

-----------------------------------------------------------------------------
(* Steps of the runtimes *)

\* A post is recorded later, or the part is torn.
LEMMA RelayPosts ==
  ASSUME ExtInv, NEW s \in ExtSessions, NEW th \in ExtThreads, NEW i \in 1 .. MaxExtParts,
         NEW x, x = <<s, th, i>>, x \in events, Posts(th, {<<s, i>>}),
         events' \subseteq events, relaying' \in {relaying, relaying \cup {x}},
         \/ torn' = torn \cup {<<s, i>>}
         \/ /\ torn' = torn /\ ~Contested(s, i) /\ th = bound[s]
            /\ relaying' = relaying \cup {x} /\ x \notin events',
         extFaults' \in 0 .. MaxExtFaults,
         \/ relaying' = relaying \/ x \notin events',
         UNCHANGED <<said, bound, made, row, live, pass, timedOut>>
  PROVE  ExtInv'
  <1> DEFINE p == <<s, i>>
  <1>1. /\ p \in ExtParts /\ p[1] = s /\ p[2] = i /\ x \in ExtRelays
        /\ \A q \in ExtParts : /\ q[1] \in ExtSessions /\ q[2] \in 1 .. MaxExtParts
                               /\ q = <<q[1], q[2]>>
    BY PartsOf DEF ExtRelays
  <1>2. /\ torn \subseteq ExtParts /\ events \subseteq ExtRelays /\ relaying \subseteq ExtRelays
        /\ \A t \in ExtThreads, q \in ExtParts : posted[t][q] \in 0 .. 2
        /\ bound[s] \in 0 .. MaxExtThreads /\ MaxExtThreads \in Nat /\ MaxExtParts \in Nat
        /\ Len(said[s]) \in 0 .. MaxExtParts /\ pass \in Passes
    BY ExtTyping DEF ExtInv
  <1>3. /\ posted' \in [ExtThreads -> [ExtParts -> 0 .. 2]]
        /\ \A t \in ExtThreads, q \in ExtParts :
             posted'[t][q] = IF t = th /\ q \in {p} /\ posted[t][q] < 2
                             THEN posted[t][q] + 1 ELSE posted[t][q]
    BY PostsCount DEF ExtInv
  <1> HIDE DEF p
  <1>4. \A t \in ExtThreads, q \in ExtParts : t # th \/ q # p => posted'[t][q] = posted[t][q]
    BY <1>3
  <1>5. torn \subseteq torn' /\ torn' \subseteq ExtParts /\ p = <<s, i>>
    BY <1>1, <1>2 DEF p
  <1>6. p \notin torn' => /\ ~Contested(s, i) /\ th = bound[s] /\ x \in relaying' /\ x \notin events'
                         /\ posted[th][p] = 0
    <2> SUFFICES ASSUME p \notin torn'
                 PROVE  /\ ~Contested(s, i) /\ th = bound[s] /\ x \in relaying' /\ x \notin events'
                        /\ posted[th][p] = 0
      OBVIOUS
    <2>1. ~Contested(s, i) /\ th = bound[s] /\ x \in relaying' /\ x \notin events'
      BY <1>5
    <2> QED BY <1>5, <2>1 DEF ExtInv, RelayInv, QueuedUnposted
  <1>7. th <= bound[s] /\ i <= Len(said[s])
    BY DEF ExtInv, RelayInv, RelaysFit
  <1>8. ExtTyped'
    BY <1>1, <1>2, <1>3, <1>5 DEF ExtInv, ExtTyped, ExtTypeOK
  <1>9. InHand'
    BY DEF ExtInv, InHand
  <1>10. Unposted'
    <2> SUFFICES ASSUME NEW t \in ExtThreads, NEW q \in ExtParts,
                        t > bound[q[1]] \/ q[2] > Len(said[q[1]])
                 PROVE  posted'[t][q] = 0
      BY DEF ExtInv, Unposted
    <2>1. posted[t][q] = 0
      BY DEF ExtInv, Unposted
    <2>2. t # th \/ q # p
      BY <1>1, <1>2, <1>7 DEF ExtThreads
    <2> QED BY <1>4, <2>1, <2>2
  <1>11. PostsRecorded'
    <2> SUFFICES ASSUME NEW t \in ExtThreads, NEW q \in ExtParts,
                        t = bound[q[1]], posted'[t][q] # 0, q \notin torn'
                 PROVE  \/ row[q] = t \/ (q[1] \in pass.session /\ q[2] \in pass.batch)
                        \/ <<q[1], t, q[2]>> \in relaying'
      BY DEF PostsRecorded
    <2>1. CASE t = th /\ q = p
      BY <1>1, <1>6, <2>1
    <2>2. CASE t # th \/ q # p
      BY <1>4, <1>5, <2>2 DEF ExtInv, PostsRecorded
    <2> QED BY <2>1, <2>2
  <1>12. TodoUnposted'
    <2> SUFFICES ASSUME NEW u \in pass.session, NEW j \in pass.todo, <<u, j>> \notin torn'
                 PROVE  posted'[pass.thread][<<u, j>>] = 0
      BY DEF TodoUnposted
    <2>1. posted[pass.thread][<<u, j>>] = 0
      BY <1>5 DEF ExtInv, TodoUnposted
    <2>2. pass.at \in Posting /\ j \in 1 .. MaxExtParts /\ j <= pass.seen
      BY <1>2 DEF ExtInv, InHand, Posting, Passes
    <2>3. /\ u \in ExtSessions /\ pass.thread \in ExtThreads /\ pass.seen \in Nat
          /\ \A k \in 1 .. pass.seen : Contested(u, k)
      BY <2>2, AtThread
    <2>4. Contested(u, j) /\ <<u, j>> \in ExtParts
      BY <2>2, <2>3, PartsOf
    <2>5. <<u, j>> # p
      BY <1>1, <1>6, <2>4 DEF p
    <2> QED BY <1>4, <2>1, <2>3, <2>4, <2>5
  <1>13. ExtPostedOnce'
    <2> SUFFICES ASSUME NEW t \in ExtThreads, NEW q \in ExtParts, q \notin torn'
                 PROVE  posted'[t][q] <= 1
      BY DEF ExtPostedOnce
    <2>1. posted[t][q] <= 1
      BY <1>5 DEF ExtInv, ExtPostedOnce
    <2>2. CASE t = th /\ q = p
      BY <1>3, <1>6, <2>2
    <2>3. CASE t # th \/ q # p
      BY <1>4, <2>1, <2>3
    <2> QED BY <2>2, <2>3
  <1>14. RelaysFit'
    BY DEF ExtInv, RelayInv, RelaysFit
  <1>15. SeenContested'
    BY ContestStays DEF ExtInv, RelayInv, SeenContested
  <1>16. QueuedUnposted'
    <2> SUFFICES ASSUME NEW u \in ExtSessions, NEW t \in ExtThreads, NEW j \in 1 .. MaxExtParts,
                        <<u, t, j>> \in events', t = bound[u], <<u, j>> \notin torn',
                        ~Contested(u, j)
                 PROVE  posted'[t][<<u, j>>] = 0
      BY ContestStays DEF QueuedUnposted
    <2>1. posted[t][<<u, j>>] = 0 /\ <<u, j>> \in ExtParts
      BY <1>5, PartsOf DEF ExtInv, RelayInv, QueuedUnposted
    <2>2. t # th \/ <<u, j>> # p
      BY <1>6 DEF p
    <2> QED BY <1>4, <2>1, <2>2
  <1>17. RelayedAlone'
    <2> SUFFICES ASSUME NEW u \in ExtSessions, NEW t \in ExtThreads, NEW j \in 1 .. MaxExtParts,
                        <<u, t, j>> \in relaying', <<u, j>> \notin torn'
                 PROVE  /\ ~Contested(u, j)
                        /\ \/ t = bound[u]
                           \/ posted'[bound[u]][<<u, j>>] = 0 /\ <<u, bound[u], j>> \notin events'
      BY ContestStays DEF RelayedAlone
    <2>1. CASE <<u, t, j>> = x
      BY <1>5, <1>6, <2>1
    <2>2. CASE <<u, t, j>> # x
      <3>1. <<u, t, j>> \in relaying
        BY <2>2
      <3>2. /\ ~Contested(u, j)
            /\ \/ t = bound[u]
               \/ posted[bound[u]][<<u, j>>] = 0 /\ <<u, bound[u], j>> \notin events
        BY <1>5, <3>1 DEF ExtInv, RelayInv, RelayedAlone
      <3>3. bound[u] \in ExtThreads /\ <<u, j>> \in ExtParts
        BY <3>1, ThreadOfRelay, PartsOf
      <3>4. CASE bound[u] = th /\ <<u, j>> = p
        <4>1. <<u, bound[u], j>> = x
          BY <3>4 DEF p
        <4> QED BY <3>2, <4>1
      <3>5. CASE bound[u] # th \/ <<u, j>> # p
        BY <1>4, <3>2, <3>3, <3>5
      <3> QED BY <3>4, <3>5
    <2> QED BY <2>1, <2>2
  <1> QED BY <1>8, <1>9, <1>10, <1>11, <1>12, <1>13, <1>14, <1>15, <1>16, <1>17
          DEF ExtInv, RelayInv

LEMMA RelaysPartKeeps ==
  ASSUME ExtInv, NEW s \in ExtSessions, NEW th \in ExtThreads, NEW i \in 1 .. MaxExtParts,
         RelaysPart(s, th, i)
  PROVE  ExtInv'
  <1>1. /\ <<s, th, i>> \in events /\ Posts(th, {<<s, i>>})
        /\ events' = events \ {<<s, th, i>>} /\ relaying' = relaying \cup {<<s, th, i>>}
        /\ torn' = IF Contested(s, i) \/ th # bound[s] THEN torn \cup {<<s, i>>} ELSE torn
        /\ UNCHANGED <<said, bound, made, row, live, pass, timedOut, extFaults>>
    BY DEF RelaysPart, Takes
  <1>2. extFaults' \in 0 .. MaxExtFaults
    BY <1>1, ExtTyping DEF ExtInv
  <1> QED BY <1>1, <1>2, RelayPosts

LEMMA RelayFailsKeeps ==
  ASSUME ExtInv, NEW s \in ExtSessions, NEW th \in ExtThreads, NEW i \in 1 .. MaxExtParts,
         RelayFails(s, th, i)
  PROVE  ExtInv'
  <1>1. /\ <<s, th, i>> \in events /\ events' \subseteq events
        /\ UNCHANGED <<said, bound, made, row, live, relaying, pass, timedOut>>
    BY DEF RelayFails, Takes
  <1>2. extFaults' \in 0 .. MaxExtFaults
    BY ExtTyping DEF ExtInv, RelayFails, Fault
  <1>3. CASE UNCHANGED <<posted, torn>>
    <2>1. ExtTyped'
      BY <1>1, <1>2, <1>3 DEF ExtInv, ExtTyped, ExtTypeOK
    <2>2. InHand' /\ Unposted' /\ PostsRecorded' /\ TodoUnposted' /\ ExtPostedOnce'
      BY <1>1, <1>3 DEF ExtInv, InHand, Unposted, PostsRecorded, TodoUnposted, ExtPostedOnce
    <2>3. SeenContested'
      BY <1>1, ContestStays DEF ExtInv, RelayInv, SeenContested
    <2>4. RelayInv'
      BY <1>1, <1>3, <2>3, RelaysStay
    <2> QED BY <2>1, <2>2, <2>4 DEF ExtInv
  <1>4. CASE Posts(th, {<<s, i>>}) /\ torn' = torn \cup {<<s, i>>}
    BY <1>1, <1>2, <1>4, RelayPosts
  <1> QED BY <1>3, <1>4 DEF RelayFails

\* The row may be of a thread the session has left: then its thread does not have
\* the part.
LEMMA RecordsRelayKeeps ==
  ASSUME ExtInv, NEW s \in ExtSessions, NEW th \in ExtThreads, NEW i \in 1 .. MaxExtParts,
         RecordsRelay(s, th, i)
  PROVE  ExtInv'
  <1>1. /\ <<s, th, i>> \in relaying /\ Records(th, {<<s, i>>})
        /\ relaying' = relaying \ {<<s, th, i>>}
        /\ UNCHANGED <<said, bound, made, posted, live, events, pass, timedOut, torn, extFaults>>
    BY DEF RecordsRelay
  <1>2. th \in 0 .. MaxExtThreads
    BY ExtAssumption DEF ExtThreads
  <1>3. /\ row' \in [ExtParts -> 0 .. MaxExtThreads]
        /\ \A q \in ExtParts : row'[q] = IF q \in {<<s, i>>} THEN th ELSE row[q]
    BY <1>1, <1>2, RecordsRow DEF ExtInv
  <1>4. ExtTyped'
    BY <1>1, <1>3 DEF ExtInv, ExtTyped, ExtTypeOK
  <1>5. InHand' /\ Unposted' /\ TodoUnposted' /\ ExtPostedOnce'
    BY <1>1 DEF ExtInv, InHand, Unposted, TodoUnposted, ExtPostedOnce
  <1>6. PostsRecorded'
    <2> SUFFICES ASSUME NEW t \in ExtThreads, NEW q \in ExtParts,
                        t = bound[q[1]], posted[t][q] # 0, q \notin torn
                 PROVE  \/ row'[q] = t \/ (q[1] \in pass.session /\ q[2] \in pass.batch)
                        \/ <<q[1], t, q[2]>> \in relaying'
      BY <1>1 DEF PostsRecorded
    <2>1. CASE q = <<s, i>>
      <3>1. q[1] = s
        BY <2>1
      <3>2. th = t \/ posted[bound[s]][<<s, i>>] = 0
        BY <1>1, <2>1, <3>1 DEF ExtInv, RelayInv, RelayedAlone
      <3> QED BY <1>3, <2>1, <3>1, <3>2
    <2>2. CASE q # <<s, i>>
      <3>1. q = <<q[1], q[2]>>
        BY PartsOf
      <3>2. <<q[1], t, q[2]>> # <<s, th, i>>
        BY <2>2, <3>1
      <3> QED BY <1>1, <1>3, <2>2, <3>2 DEF ExtInv, PostsRecorded
    <2> QED BY <2>1, <2>2
  <1>7. SeenContested'
    BY <1>1, ContestStays DEF ExtInv, RelayInv, SeenContested
  <1>8. RelayInv'
    BY <1>1, <1>7, RelaysStay
  <1> QED BY <1>4, <1>5, <1>6, <1>8 DEF ExtInv

-----------------------------------------------------------------------------
LEMMA InvExtNext == ASSUME ExtInv, [ExtNext]_extVars PROVE ExtInv'
  <1>1. CASE \E s \in ExtSessions : TypesInTerminal(s) \/ TypesInDiscord(s) \/ Answers(s)
    BY <1>1, TypesKeep, AnswersKeeps
  <1>6. CASE \E s \in ExtSessions, th \in ExtThreads, i \in 1 .. MaxExtParts :
               RelaysPart(s, th, i) \/ RelayFails(s, th, i) \/ RecordsRelay(s, th, i)
    BY <1>6, RelaysPartKeeps, RelayFailsKeeps, RecordsRelayKeeps
  <1>2. CASE PollGoesOn
    BY <1>2, PollMoves, MakesThreadKeeps, ReadsIdsKeeps, SendsBatchKeeps, RecordsBatchKeeps
      DEF PollGoesOn
  <1>3. CASE PollFails
    BY <1>3, PollMoves, SendFailsKeeps DEF PollFails
  <1>4. CASE SyncTimesOut \/ BotRestarts
    BY <1>4, SyncTimesOutKeeps, BotRestartsKeeps
  <1>5. CASE UNCHANGED extVars
    <2>1. ExtTyped'
      BY <1>5 DEF ExtInv, ExtTyped, ExtTypeOK, extVars, extTables
    <2>2. SeenContested'
      BY <1>5, ContestStays DEF ExtInv, RelayInv, SeenContested, extVars
    <2>3. RelayInv'
      BY <1>5, <2>2, RelaysStay DEF extVars
    <2> QED BY <1>5, <2>1, <2>3 DEF ExtInv, InHand, Unposted, PostsRecorded, TodoUnposted,
                                    ExtPostedOnce, extVars, extTables
  <1> QED BY <1>1, <1>2, <1>3, <1>4, <1>5, <1>6 DEF ExtNext

LEMMA InvExtHolds == ExtSpec => []ExtInv
  BY InvExtInit, InvExtNext, PTL DEF ExtSpec

\* The variables of the poller have their types.
THEOREM ExtTypeCorrect == ExtSpec => []ExtTypeOK
  <1>1. ExtInv => ExtTypeOK
    BY DEF ExtInv, ExtTyped
  <1> QED BY <1>1, InvExtHolds, PTL

\* For any sessions, threads and faults, a part is posted to a thread once by the pass
\* and the runtime together, unless a post or its record was torn.
THEOREM MirroredOnce == ExtSpec => []ExtPostedOnce
  <1>1. ExtInv => ExtPostedOnce
    BY DEF ExtInv
  <1> QED BY <1>1, InvExtHolds, PTL
=============================================================================
