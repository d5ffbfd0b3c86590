---------------------------- MODULE AccountPool ----------------------------
(***************************************************************************)
(* The pool of Anthropic OAuth accounts: requests of the auth plugin, in   *)
(* several opencode processes, refresh expired tokens, rotate away from    *)
(* limited accounts and drop accounts whose refresh token is dead.  Two    *)
(* files are shared, auth.json and the account store, under a lock made of *)
(* a directory that counts as stale after thirty seconds.                  *)
(*                                                                         *)
(* Abstractions.  The refresh and access token of one grant are one token: *)
(* an account and a generation.  The token endpoint takes the newest       *)
(* generation of a live account once and answers with the next one.  One   *)
(* read or one write of a file is a step.  Logging in, removing an account *)
(* on the command line and the requests' contents are left out.            *)
(***************************************************************************)
EXTENDS Naturals, Sequences, FiniteSets

CONSTANTS AccAccounts, AccRequests,
          AccIdentified, \* accounts whose e-mail or id the store knows
          NoToken,
          AccCasts,      \* how the pool starts: see AccStarts
          MaxGrants,     \* bound: generations of an account's token
          MaxStale       \* bound: critical sections longer than thirty seconds

AccTokens == [a : AccAccounts, g : 1 .. MaxGrants]

\* A full pool whose first account is active, the requests that share a process,
\* and the accounts that are dead already.
AccOrders == {s \in [1 .. Cardinality(AccAccounts) -> AccAccounts] :
                \A i, j \in DOMAIN s : i # j => s[i] # s[j]}
AccStarts == AccOrders \X {{}, AccRequests} \X [AccAccounts -> {0, 1}]

ASSUME AccAssumption ==
  /\ AccCasts \subseteq AccStarts
  /\ AccIdentified \subseteq AccAccounts
  /\ AccAccounts # {} /\ IsFiniteSet(AccAccounts) /\ NoToken \notin AccTokens
  /\ MaxGrants \in Nat \ {0} /\ MaxStale \in Nat

VARIABLES
  auth,     \* auth.json: the anthropic entry
  store,    \* the account store: accounts and activeIndex
  lock,     \* the lock directory: "free", "held", or "stale" once it is old
  acc,      \* request -> its progress
  pool,     \* request -> the copy of the store it has loaded and not yet saved
  peers,    \* the requests of one process, which share pendingRefresh
  grant,    \* token endpoint: account -> the generation it takes, 0 if dead
  expired,  \* tokens past their expiry
  newest,   \* history: account -> the newest generation delivered to a process
  stales,   \* critical sections that outlived the lock
  unset     \* history: a token was written to auth.json only (auth.set failed)

accVars == <<auth, store, lock, acc, pool, peers, grant, expired, newest, stales, unset>>
accFiles == <<auth, store>>
accCopies == <<store, pool>>
accServer == <<peers, grant, expired, newest>>

AccJobs == {"refresh", "remove", "rotate"}
AccPlaces == {"new", "joined", "wait", "breaking", "refresh", "refreshing", "write", "save",
           "remove", "rotate", "send", "done", "failed"}
AccEnded == {"done", "failed"}
NotLoaded == [accounts |-> <<>>, active |-> 0]
PoolOK(s) ==
  /\ s \in [accounts : Seq(AccTokens), active : Nat]
  /\ s.active \in 1 .. Len(s.accounts) \/ (s.accounts = <<>> /\ s.active = 1)

AccTypeOK ==
  /\ auth \in AccTokens \cup {NoToken}
  /\ PoolOK(store)
  /\ DOMAIN pool = AccRequests /\ \A r \in AccRequests : pool[r] = NotLoaded \/ PoolOK(pool[r])
  /\ lock \in {"free", "held", "stale"}
  /\ acc \in [AccRequests -> [at : AccPlaces, job : AccJobs, token : AccTokens \cup {NoToken},
                                  key : AccTokens \cup {NoToken}, tried : SUBSET AccTokens,
                                  again : BOOLEAN]]
  /\ peers \subseteq AccRequests
  /\ grant \in [AccAccounts -> 0 .. MaxGrants] /\ newest \in [AccAccounts -> 1 .. MaxGrants]
  /\ expired \subseteq AccTokens /\ stales \in 0 .. MaxStale /\ unset \in BOOLEAN

AccStartsFrom(order, together, alive) ==
  /\ store = [accounts |-> [i \in DOMAIN order |-> [a |-> order[i], g |-> 1]], active |-> 1]
  /\ auth = [a |-> order[1], g |-> 1]
  /\ lock = "free"
  /\ acc = [r \in AccRequests |-> [at |-> "new", job |-> "refresh", token |-> NoToken,
                                   key |-> NoToken, tried |-> {}, again |-> FALSE]]
  /\ pool = [r \in AccRequests |-> NotLoaded]
  /\ peers = together /\ grant = alive
  /\ expired = {} /\ newest = [a \in AccAccounts |-> 1]
  /\ stales = 0 /\ unset = FALSE
AccInit == \E start \in AccCasts : AccStartsFrom(start[1], start[2], start[3])

-----------------------------------------------------------------------------
AccIn(r, place) == acc[r].at = place
AccGoes(r, place) == acc' = [acc EXCEPT ![r].at = place]
AccIndices(s, P(_)) == {i \in DOMAIN s.accounts : P(s.accounts[i])}
FirstOf(I) == CHOOSE i \in I : \A j \in I : i <= j

\* findCurrentAccountIndex
CurrentIndex(s, token) ==
  LET I == AccIndices(s, LAMBDA t : t = token) IN IF I = {} THEN s.active ELSE FirstOf(I)

\* upsertAccount, with the identity of the store's entry for the old token
UpsertAccount(s, token, old) ==
  LET known == token.a \in AccIdentified /\ AccIndices(s, LAMBDA t : t = old) # {}
      I == AccIndices(s, LAMBDA t : t = token \/ (known /\ t.a = token.a))
  IN IF I = {}
     THEN [accounts |-> Append(s.accounts, token), active |-> Len(s.accounts) + 1]
     ELSE [accounts |-> [s.accounts EXCEPT ![FirstOf(I)] = token], active |-> FirstOf(I)]

\* spliceAccountAndPromote
WithoutAccount(s, i) ==
  LET rest == SubSeq(s.accounts, 1, i - 1) \o SubSeq(s.accounts, i + 1, Len(s.accounts))
  IN [accounts |-> rest,
      active |-> IF s.active > i THEN s.active - 1
                 ELSE IF s.active > Len(rest) THEN 1 ELSE s.active]

\* The outcome of a refresh reaches the requests of the process that wait for it.
JoinedWith(r) == {q \in peers \ {r} : AccIn(q, "joined") /\ acc[q].key = acc[r].key}
RefreshOutcome(r, place, token) ==
  acc' = [q \in AccRequests |->
                IF q = r \/ (r \in peers /\ q \in JoinedWith(r))
                THEN [acc[q] EXCEPT !.at = place, !.token = token, !.key = NoToken]
                ELSE acc[q]]
Unlock == lock' = "free"

-----------------------------------------------------------------------------
(* getFreshOAuth, up to the lock *)

LeadsRefresh(q) == acc[q].key # NoToken /\ ~AccIn(q, "joined")
GetFresh(r) ==
  /\ AccIn(r, "new")
  /\ acc' = [acc EXCEPT ![r] =
       IF auth = NoToken THEN [@ EXCEPT !.at = "done"]
       ELSE IF auth \notin expired THEN [@ EXCEPT !.at = "send", !.token = auth]
       ELSE IF \E q \in peers \ {r} : r \in peers /\ LeadsRefresh(q) /\ acc[q].key = auth
            THEN [@ EXCEPT !.at = "joined", !.key = auth]
            ELSE [@ EXCEPT !.at = "wait", !.job = "refresh", !.key = auth, !.tried = {}]]
  /\ UNCHANGED <<accFiles, pool, lock, accServer, stales, unset>>

-----------------------------------------------------------------------------
(* withAuthStateLock *)

AcquireLock(r) ==
  /\ AccIn(r, "wait") /\ lock = "free"
  /\ lock' = "held"
  /\ AccGoes(r, acc[r].job)
  /\ UNCHANGED <<accFiles, pool, accServer, stales, unset>>

\* Thirty seconds pass in a critical section.
TurnsStale ==
  /\ lock = "held" /\ stales < MaxStale
  /\ lock' = "stale" /\ stales' = stales + 1
  /\ UNCHANGED <<accFiles, pool, acc, accServer, unset>>

\* stat shows an old lock; rm removes whatever lock is there by then.
SeesStale(r) ==
  /\ AccIn(r, "wait") /\ lock = "stale"
  /\ AccGoes(r, "breaking")
  /\ UNCHANGED <<accFiles, pool, lock, accServer, stales, unset>>
BreakLock(r) ==
  /\ AccIn(r, "breaking")
  /\ Unlock
  /\ AccGoes(r, "wait")
  /\ UNCHANGED <<accFiles, pool, accServer, stales, unset>>

LockTimesOut(r) ==
  /\ AccIn(r, "wait") /\ lock # "free"
  /\ RefreshOutcome(r, "failed", NoToken)
  /\ UNCHANGED <<accFiles, pool, lock, accServer, stales, unset>>

-----------------------------------------------------------------------------
(* getFreshOAuth, in the lock *)

RefreshToken(r) ==
  /\ AccIn(r, "refresh")
  /\ \/ /\ auth = NoToken \/ auth \in acc[r].tried
        /\ RefreshOutcome(r, "failed", NoToken) /\ Unlock
     \/ /\ auth # NoToken /\ auth \notin expired
        /\ RefreshOutcome(r, "send", auth) /\ Unlock
     \/ /\ auth \in expired \ acc[r].tried
        /\ acc' = [acc EXCEPT ![r].at = "refreshing", ![r].token = auth,
                                      ![r].tried = @ \cup {auth}]
        /\ UNCHANGED lock
  /\ UNCHANGED <<accFiles, pool, accServer, stales, unset>>

EndpointAccepts(token) == grant[token.a] = token.g
NextToken(token) == [token EXCEPT !.g = @ + 1]

RefreshSucceeds(r) ==
  /\ AccIn(r, "refreshing") /\ EndpointAccepts(acc[r].token) /\ acc[r].token.g < MaxGrants
  /\ LET token == NextToken(acc[r].token) IN
     /\ grant' = [grant EXCEPT ![token.a] = token.g]
     /\ newest' = [newest EXCEPT ![token.a] = token.g]
     /\ acc' = [acc EXCEPT ![r].at = "write", ![r].token = token]
  /\ UNCHANGED <<accFiles, pool, lock, peers, expired, stales, unset>>

\* The network fails, before the endpoint takes the token or after it.
RefreshFails(r) ==
  /\ AccIn(r, "refreshing")
  /\ \/ UNCHANGED grant
     \/ /\ EndpointAccepts(acc[r].token) /\ acc[r].token.g < MaxGrants
        /\ grant' = [grant EXCEPT ![acc[r].token.a] = @ + 1]
  /\ RefreshOutcome(r, "failed", NoToken) /\ Unlock
  /\ UNCHANGED <<accFiles, pool, peers, expired, newest, stales, unset>>

\* invalid_grant: the account is removed, in a critical section of its own.
RefreshRefused(r) ==
  /\ AccIn(r, "refreshing") /\ ~EndpointAccepts(acc[r].token)
  /\ acc' = [acc EXCEPT ![r].at = "wait", ![r].job = "remove"]
  /\ Unlock
  /\ UNCHANGED <<accFiles, pool, accServer, stales, unset>>

\* setAnthropicAuth: auth.json, then opencode's own copy.  Without an account
\* left the entry of auth.json is deleted.
WriteAuth(r) ==
  /\ AccIn(r, "write")
  /\ auth' = acc[r].token
  /\ CASE acc[r].job = "refresh" -> AccGoes(r, "save") /\ UNCHANGED lock
       [] acc[r].job = "remove" /\ acc[r].token = NoToken ->
            RefreshOutcome(r, "failed", NoToken) /\ Unlock
       [] acc[r].job = "remove" /\ acc[r].token # NoToken ->
            acc' = [acc EXCEPT ![r].at = "wait", ![r].job = "refresh"] /\ Unlock
       [] acc[r].job = "rotate" ->
            acc' = [acc EXCEPT ![r].at = "new", ![r].again = TRUE] /\ Unlock
  /\ UNCHANGED <<accCopies, accServer, stales, unset>>

\* opencode does not take the token: the store is not updated either.
AuthSetFails(r) ==
  /\ AccIn(r, "write") /\ acc[r].token # NoToken
  /\ auth' = acc[r].token
  /\ unset' = TRUE
  /\ RefreshOutcome(r, "failed", NoToken) /\ Unlock
  /\ UNCHANGED <<accCopies, accServer, stales>>

-----------------------------------------------------------------------------
(* The account store: loaded, changed in memory, and saved by a later step *)

LoadStore(r) ==
  /\ acc[r].at \in {"save", "remove", "rotate"} /\ pool[r] = NotLoaded
  /\ pool' = [pool EXCEPT ![r] = store]
  /\ UNCHANGED <<accFiles, lock, acc, accServer, stales, unset>>

\* The copy is done with, and written back or not.
Loaded(r, place) == AccIn(r, place) /\ pool[r] # NotLoaded /\ pool' = [pool EXCEPT ![r] = NotLoaded]

\* A mutant of SaveRefreshed: the pool keeps the token it had.
SaveNothing(r) ==
  /\ Loaded(r, "save")
  /\ RefreshOutcome(r, "send", acc[r].token) /\ Unlock
  /\ UNCHANGED <<accFiles, accServer, stales, unset>>

SaveRefreshed(r) ==
  /\ Loaded(r, "save")
  /\ store' = IF pool[r].accounts = <<>> THEN store
              ELSE UpsertAccount(pool[r], acc[r].token, [acc[r].token EXCEPT !.g = @ - 1])
  /\ RefreshOutcome(r, "send", acc[r].token) /\ Unlock
  /\ UNCHANGED <<auth, accServer, stales, unset>>

\* The store without its entry i, and the account that is promoted, if any
Removed(r, i) ==
  /\ store' = WithoutAccount(pool[r], i)
  /\ acc' = [acc EXCEPT ![r].at = "write",
                        ![r].token = IF store'.accounts = <<>> THEN NoToken
                                     ELSE store'.accounts[store'.active]]
  /\ UNCHANGED lock

\* A mutant of RemoveAccount: the account in use is removed, whatever token was refused.
RemoveActive(r) ==
  /\ Loaded(r, "remove")
  /\ IF pool[r].accounts = <<>>
     THEN RefreshOutcome(r, "failed", NoToken) /\ Unlock /\ UNCHANGED store
     ELSE Removed(r, pool[r].active)
  /\ UNCHANGED <<auth, accServer, stales, unset>>

\* removeAccountByAuth: the entry of the refused token, and the next account
RemoveAccount(r) ==
  /\ Loaded(r, "remove")
  /\ LET I == AccIndices(pool[r], LAMBDA t : t = acc[r].token) IN
     IF I = {}
     THEN RefreshOutcome(r, "failed", NoToken) /\ Unlock /\ UNCHANGED store
     ELSE Removed(r, FirstOf(I))
  /\ UNCHANGED <<auth, accServer, stales, unset>>

\* A mutant of RotateAccount: the index is saved and not the token of the account.
RotateIndexOnly(r) ==
  /\ Loaded(r, "rotate")
  /\ IF Len(pool[r].accounts) < 2
     THEN AccGoes(r, "done") /\ UNCHANGED store
     ELSE /\ store' = [pool[r] EXCEPT
                  !.active = (CurrentIndex(pool[r], acc[r].token) % Len(pool[r].accounts)) + 1]
          /\ acc' = [acc EXCEPT ![r].at = "new", ![r].again = TRUE]
  /\ Unlock
  /\ UNCHANGED <<auth, accServer, stales, unset>>

\* rotateAnthropicAccount
RotateAccount(r) ==
  /\ Loaded(r, "rotate")
  /\ IF Len(pool[r].accounts) < 2
     THEN AccGoes(r, "done") /\ Unlock /\ UNCHANGED store
     ELSE LET next == (CurrentIndex(pool[r], acc[r].token) % Len(pool[r].accounts)) + 1 IN
          /\ store' = [pool[r] EXCEPT !.active = next]
          /\ acc' = [acc EXCEPT ![r].at = "write", ![r].token = pool[r].accounts[next]]
          /\ UNCHANGED lock
  /\ UNCHANGED <<auth, accServer, stales, unset>>

-----------------------------------------------------------------------------
(* The request itself *)

\* The API answers; a limited or rejected account is rotated away from, once.
SendToApi(r) ==
  /\ AccIn(r, "send")
  /\ \/ AccGoes(r, "done")
     \/ /\ ~acc[r].again
        /\ acc' = [acc EXCEPT ![r].at = "wait", ![r].job = "rotate"]
  /\ UNCHANGED <<accFiles, pool, lock, accServer, stales, unset>>

TokenExpires(token) ==
  /\ token \notin expired /\ token.g <= newest[token.a]
  /\ expired' = expired \cup {token}
  /\ UNCHANGED <<accFiles, lock, acc, pool, peers, grant, newest, stales, unset>>

-----------------------------------------------------------------------------
AccNext ==
  \/ TurnsStale
  \/ \E token \in AccTokens : TokenExpires(token)
  \/ \E r \in AccRequests :
       \/ GetFresh(r) \/ AcquireLock(r) \/ SeesStale(r) \/ BreakLock(r) \/ LockTimesOut(r)
       \/ RefreshToken(r) \/ RefreshSucceeds(r) \/ RefreshFails(r) \/ RefreshRefused(r)
       \/ WriteAuth(r) \/ AuthSetFails(r) \/ LoadStore(r) \/ SaveRefreshed(r)
       \/ RemoveAccount(r) \/ RotateAccount(r) \/ SendToApi(r)

AccSpec == AccInit /\ [][AccNext]_accVars

-----------------------------------------------------------------------------
(* Properties *)

\* Only dead tokens leave the pool: an entry that disappears is one the token
\* endpoint no longer takes, although it was refused in one critical section and
\* is removed in another.  Once a section outlived its lock another may save the
\* store between its load and its save, and what that one wrote is lost.
AccDeadLeave ==
  stales = 0 =>
    \A i \in DOMAIN store.accounts :
      LET t == store.accounts[i] IN
        (\A j \in DOMAIN store'.accounts : store'.accounts[j] # t) => grant[t.a] # t.g
AccRemovedIsDead == [][AccDeadLeave]_accVars

\* While no critical section outlives its lock and opencode takes every token,
\* the two files agree between critical sections: the entry in use is the
\* active account of the pool.
AccSettled == lock = "free" /\ stales = 0 /\ ~unset
AccFilesAgree ==
  AccSettled =>
    auth = IF store.accounts = <<>> THEN NoToken ELSE store.accounts[store.active]

\* Refresh tokens are single use: between critical sections the newest token of an
\* account the endpoint would still take is in the pool.
AccNewestKept ==
  AccSettled => \A a \in AccAccounts :
    grant[a] = newest[a] => \E i \in DOMAIN store.accounts :
                              store.accounts[i] = [a |-> a, g |-> newest[a]]

=============================================================================
