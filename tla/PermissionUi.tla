---------------------------- MODULE PermissionUi ----------------------------
(***************************************************************************)
(* The permission requests of one thread.  OpenCode asks, the runtime      *)
(* shows buttons or attaches the request to buttons that already cover it, *)
(* and the answer comes from a click, from a message that dismisses the    *)
(* buttons, from the timeout or from the teardown of the runtime.          *)
(*                                                                         *)
(* Abstractions.  Two requests cover each other when both are in PermAlike *)
(* and never otherwise.  A context bears the name of the request it was    *)
(* made for.  All requests are of sessions of the thread, and the server   *)
(* mode is modelled, not the RPC one.  The calls of one Promise.all are    *)
(* one step in which any of them may fail.  Resuming an idle session after *)
(* a click is left out.                                                    *)
(***************************************************************************)
EXTENDS Naturals, FiniteSets, Sequences, SequencesExt

CONSTANTS PermRequests, PermAlike,
          PermOutside,       \* requests another client of the server may answer
          PermNone,
          MaxPermClicks, MaxPermMessages \* bounds: clicks and user messages

ASSUME PermAssumption ==
  /\ PermAlike \subseteq PermRequests /\ PermOutside \subseteq PermRequests
  /\ IsFiniteSet(PermRequests) /\ PermNone \notin PermRequests
  /\ MaxPermClicks \in Nat /\ MaxPermMessages \in Nat

VARIABLES
  asked,    \* request -> what OpenCode knows of it
  permEvents, \* what the event stream brings, not handled yet
  asking,   \* the request whose buttons are being sent, PermNone if none
  shown,    \* contexts whose message is in the thread
  contexts, \* pendingPermissionContexts: context -> is it in the map, its requestIds, its timer
  tracked,  \* pendingPermissions: request -> its context
  deciding, \* who took which context, and how far its answer is
  dismissal, \* cancelPendingPermission: contexts left, and whether one was dismissed
  disposed, \* the runtime is gone
  failed,   \* requests whose answer could not be delivered
  permUsed  \* clicks and messages so far

permVars == <<asked, permEvents, asking, shown, contexts, tracked, deciding, dismissal, disposed,
              failed, permUsed>>

Deciders == {"expiry", "click", "message", "teardown"}
PermTypeOK ==
  /\ asked \in [PermRequests -> {"no", "waiting", "once", "reject", "aborted"}]
  /\ permEvents \in Seq({"asked", "replied"} \X PermRequests)
  /\ asking \in PermRequests \cup {PermNone}
  /\ shown \subseteq PermRequests
  /\ contexts \in [PermRequests -> [there : BOOLEAN, ids : SUBSET PermRequests,
                                    timer : {"off", "armed", "fired"}]]
  /\ tracked \in [PermRequests -> PermRequests \cup {PermNone}]
  /\ deciding \subseteq [by : Deciders, context : PermRequests, answer : {"once", "reject"},
                         deferred : BOOLEAN]
  /\ dismissal \in [at : {"off", "loop", "abort"}, left : SUBSET PermRequests, done : BOOLEAN]
  /\ disposed \in BOOLEAN /\ failed \subseteq PermRequests
  /\ permUsed \in [clicks : 0 .. MaxPermClicks, messages : 0 .. MaxPermMessages]

NoDismissal == [at |-> "off", left |-> {}, done |-> FALSE]
PermInit ==
  /\ asked = [r \in PermRequests |-> "no"]
  /\ permEvents = <<>> /\ asking = PermNone /\ shown = {}
  /\ contexts = [c \in PermRequests |-> [there |-> FALSE, ids |-> {}, timer |-> "off"]]
  /\ tracked = [r \in PermRequests |-> PermNone]
  /\ deciding = {} /\ dismissal = NoDismissal /\ disposed = FALSE /\ failed = {}
  /\ permUsed = [clicks |-> 0, messages |-> 0]

-----------------------------------------------------------------------------
(* takePendingPermissionContext and replyPermissionRequests *)

Decision(by, c, answer) == [by |-> by, context |-> c, answer |-> answer, deferred |-> by # "click"]

\* A mutant of Taken: the context stays in the map.
TakenButKept(c) == contexts
Taken(c) == [contexts EXCEPT ![c].there = FALSE]

\* OpenCode hears the answers to some of the waiting requests and tells its
\* clients in any order.
Answer(requests, answer) ==
  LET heard == {r \in requests : asked[r] = "waiting"}
  IN  /\ asked' = [r \in PermRequests |-> IF r \in heard THEN answer ELSE asked[r]]
      /\ \E order \in SetToSeqs(heard) :
           permEvents' = permEvents \o [i \in DOMAIN order |-> <<"replied", order[i]>>]

\* A failed call is logged, shown to the one who clicked, or, for a dismissal,
\* the context goes back into the map.
Decided(d) ==
  /\ d.deferred
  /\ \E heard \in SUBSET contexts[d.context].ids :
       LET ok == heard = contexts[d.context].ids
       IN  /\ Answer(heard, d.answer)
           /\ failed' = failed \cup (contexts[d.context].ids \ heard)
           /\ contexts' = IF ok \/ d.by # "message" THEN contexts
                          ELSE [contexts EXCEPT ![d.context].there = TRUE]
           /\ dismissal' = IF d.by = "message" /\ ok THEN [dismissal EXCEPT !.done = TRUE]
                           ELSE dismissal
  /\ deciding' = deciding \ {d}
  /\ UNCHANGED <<asking, shown, tracked, disposed, permUsed>>

-----------------------------------------------------------------------------
(* OpenCode and its other clients *)

Ask(r) ==
  /\ asked[r] = "no" /\ asked' = [asked EXCEPT ![r] = "waiting"]
  /\ permEvents' = Append(permEvents, <<"asked", r>>)
  /\ UNCHANGED <<asking, shown, contexts, tracked, deciding, dismissal, disposed, failed, permUsed>>

AnsweredElsewhere(r) ==
  /\ r \in PermOutside /\ asked[r] = "waiting"
  /\ \E answer \in {"once", "reject"} : Answer({r}, answer)
  /\ UNCHANGED <<asking, shown, contexts, tracked, deciding, dismissal, disposed, failed, permUsed>>

-----------------------------------------------------------------------------
(* The runtime handles one event at a time. *)

NextEventIs(kind, r) ==
  /\ ~disposed /\ asking = PermNone
  /\ permEvents # <<>> /\ Head(permEvents) = <<kind, r>>
  /\ permEvents' = Tail(permEvents)

Covering(r) == {p \in PermAlike : r \in PermAlike /\ tracked[p] # PermNone}

\* Buttons that cover the request are pending: it is attached to their context,
\* if that is still in the map.
AttachRequest(r) ==
  /\ NextEventIs("asked", r)
  /\ \E p \in Covering(r) :
       /\ tracked' = [tracked EXCEPT ![r] = tracked[p]]
       /\ contexts' = IF contexts[tracked[p]].there
                      THEN [contexts EXCEPT ![tracked[p]].ids = @ \cup {r}] ELSE contexts
  /\ UNCHANGED <<asked, asking, shown, deciding, dismissal, disposed, failed, permUsed>>

\* showPermissionButtons up to its await: the context and its timer come first.
ShowButtons(r) ==
  /\ NextEventIs("asked", r) /\ Covering(r) = {}
  /\ contexts' = [contexts EXCEPT ![r] = [there |-> TRUE, ids |-> {r}, timer |-> "armed"]]
  /\ asking' = r
  /\ UNCHANGED <<asked, shown, tracked, deciding, dismissal, disposed, failed, permUsed>>

ButtonsAppear ==
  /\ asking # PermNone /\ asking \notin shown
  /\ shown' = shown \cup {asking}
  /\ UNCHANGED <<asked, permEvents, asking, contexts, tracked, deciding, dismissal, disposed,
                 failed, permUsed>>

\* thread.send returns, and the request is tracked; or it throws.
PermButtonsSent ==
  /\ asking # PermNone /\ asking' = PermNone
  /\ tracked' = IF asking \in shown THEN [tracked EXCEPT ![asking] = asking] ELSE tracked
  /\ UNCHANGED <<asked, permEvents, shown, contexts, deciding, dismissal, disposed, failed,
                 permUsed>>

\* handlePermissionReplied
PermissionReplied(r) ==
  /\ NextEventIs("replied", r)
  /\ contexts' = IF tracked[r] = PermNone THEN contexts ELSE Taken(tracked[r])
  /\ tracked' = [tracked EXCEPT ![r] = PermNone]
  /\ UNCHANGED <<asked, asking, shown, deciding, dismissal, disposed, failed, permUsed>>

\* cleanupPendingUiForThread: the contexts of tracked requests are rejected,
\* and nobody waits for the answers.
PermTeardown ==
  LET mine == {c \in PermRequests : contexts[c].there /\ \E r \in PermRequests : tracked[r] = c}
  IN  /\ ~disposed /\ disposed' = TRUE
      /\ deciding' = deciding \cup {Decision("teardown", c, "reject") : c \in mine}
      /\ contexts' = [c \in PermRequests |->
                        IF c \in mine THEN [contexts[c] EXCEPT !.there = FALSE] ELSE contexts[c]]
      /\ tracked' = [r \in PermRequests |-> PermNone]
      /\ UNCHANGED <<asked, permEvents, asking, shown, dismissal, failed, permUsed>>

-----------------------------------------------------------------------------
(* The timer and the click *)

\* A mutant of PermissionExpires: the timer leaves buttons alone that could not
\* be sent.
ExpiresIfShown(c) ==
  /\ contexts[c].timer = "armed"
  /\ LET taken == contexts[c].there /\ c \in shown
     IN  /\ contexts' = [contexts EXCEPT ![c].timer = "fired", ![c].there = @ /\ ~taken]
         /\ deciding' = IF taken THEN deciding \cup {Decision("expiry", c, "reject")} ELSE deciding
  /\ UNCHANGED <<asked, permEvents, asking, shown, tracked, dismissal, disposed, failed, permUsed>>

PermissionExpires(c) ==
  /\ contexts[c].timer = "armed"
  /\ contexts' = [Taken(c) EXCEPT ![c].timer = "fired"]
  /\ deciding' = IF contexts[c].there THEN deciding \cup {Decision("expiry", c, "reject")}
                 ELSE deciding
  /\ UNCHANGED <<asked, permEvents, asking, shown, tracked, dismissal, disposed, failed, permUsed>>

\* handlePermissionButton takes the context before its first await.  A click on
\* buttons whose context is gone only says so.
PermissionClick(c, answer) ==
  /\ c \in shown /\ contexts[c].there /\ permUsed.clicks < MaxPermClicks
  /\ permUsed' = [permUsed EXCEPT !.clicks = @ + 1]
  /\ contexts' = Taken(c)
  /\ deciding' = deciding \cup {Decision("click", c, answer)}
  /\ UNCHANGED <<asked, permEvents, asking, shown, tracked, dismissal, disposed, failed>>

\* deferUpdate: if it throws, the click is over.
PermissionDeferred(d) ==
  /\ ~d.deferred
  /\ \/ deciding' = (deciding \ {d}) \cup {[d EXCEPT !.deferred = TRUE]} /\ UNCHANGED failed
     \/ deciding' = deciding \ {d} /\ failed' = failed \cup contexts[d.context].ids
  /\ UNCHANGED <<asked, permEvents, asking, shown, contexts, tracked, dismissal, disposed,
                 permUsed>>

-----------------------------------------------------------------------------
(* A message of the user: cancelPendingPermission, one context after the other *)

PermissionMessage ==
  /\ dismissal.at = "off" /\ permUsed.messages < MaxPermMessages
  /\ permUsed' = [permUsed EXCEPT !.messages = @ + 1]
  /\ dismissal' = [at |-> "loop", left |-> {c \in PermRequests : contexts[c].there}, done |-> FALSE]
  /\ UNCHANGED <<asked, permEvents, asking, shown, contexts, tracked, deciding, disposed, failed>>

DismissNext ==
  /\ dismissal.at = "loop" /\ ~\E d \in deciding : d.by = "message"
  /\ \E c \in dismissal.left :
       /\ dismissal' = [dismissal EXCEPT !.left = @ \ {c}]
       /\ contexts' = Taken(c)
       /\ deciding' = IF contexts[c].there THEN deciding \cup {Decision("message", c, "reject")}
                      ELSE deciding
  /\ UNCHANGED <<asked, permEvents, asking, shown, tracked, disposed, failed, permUsed>>

DismissEnds ==
  /\ dismissal.at = "loop" /\ dismissal.left = {} /\ ~\E d \in deciding : d.by = "message"
  /\ dismissal' = IF dismissal.done THEN [dismissal EXCEPT !.at = "abort"] ELSE NoDismissal
  /\ UNCHANGED <<asked, permEvents, asking, shown, contexts, tracked, deciding, disposed, failed,
                 permUsed>>

\* abortActiveRunAndWait: the run, and what it waits for, is over.
DismissAborts ==
  /\ dismissal.at = "abort" /\ dismissal' = NoDismissal
  /\ asked' = [r \in PermRequests |-> IF asked[r] = "waiting" THEN "aborted" ELSE asked[r]]
  /\ UNCHANGED <<permEvents, asking, shown, contexts, tracked, deciding, disposed, failed,
                 permUsed>>

-----------------------------------------------------------------------------
PermHandles(r) == AttachRequest(r) \/ ShowButtons(r) \/ PermissionReplied(r)
PermDecides(d) == PermissionDeferred(d) \/ Decided(d)
PermDismisses == DismissNext \/ DismissEnds \/ DismissAborts

PermNext ==
  \/ \E r \in PermRequests :
       Ask(r) \/ AnsweredElsewhere(r) \/ PermHandles(r) \/ PermissionExpires(r)
  \/ \E c \in PermRequests, answer \in {"once", "reject"} : PermissionClick(c, answer)
  \/ \E d \in deciding : PermDecides(d)
  \/ ButtonsAppear \/ PermButtonsSent \/ PermTeardown \/ PermissionMessage \/ PermDismisses

\* Handlers run, timers fire and calls settle; nobody has to click.
PermFairness ==
  /\ \A r \in PermRequests : /\ WF_permVars(PermHandles(r))
                             /\ WF_permVars(PermissionExpires(r))
  /\ WF_permVars(\E d \in deciding : PermDecides(d))
  /\ WF_permVars(PermButtonsSent) /\ WF_permVars(PermDismisses)

PermSpec == PermInit /\ [][PermNext]_permVars
PermFairSpec == PermSpec /\ PermFairness

-----------------------------------------------------------------------------
(* Properties *)

\* Of the click, the timeout, the dismissal and the teardown, only one answers a
\* context at a time: the requests behind it never get two answers that race.
PermOneDecider == \A d, e \in deciding : d.context = e.context => d = e

\* Buttons that were shown, or could not be, do not keep a run waiting: the
\* request they were made for is answered, or its answer could not be delivered.
PermExpires ==
  \A r \in PermRequests :
    contexts[r].timer = "armed" ~> (asked[r] # "waiting" \/ r \in failed)

\* "Auto-reject on TTL expiry so the OpenCode session doesn't hang forever": a
\* request that was handled is answered, can still be, or its answer failed.
PermNoneForgotten ==
  \A r \in PermRequests :
    \/ asked[r] # "waiting" \/ r \in failed
    \/ \E i \in DOMAIN permEvents : permEvents[i] = <<"asked", r>>
    \/ \E c \in PermRequests : r \in contexts[c].ids /\
         ((contexts[c].there /\ contexts[c].timer = "armed") \/ \E d \in deciding : d.context = c)
=============================================================================
