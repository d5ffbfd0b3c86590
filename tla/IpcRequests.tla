---------------------------- MODULE IpcRequests ----------------------------
(***************************************************************************)
(* The ipc_requests table between the opencode plugin and the bot, and the *)
(* two user interfaces it asks for.  A tool call inserts a row and polls   *)
(* it; the bot claims pending rows and dispatches them.  An upload waits   *)
(* for a modal, its timer or a new message; action buttons are queued for  *)
(* the runtime, which shows them when the tool call has returned.          *)
(*                                                                         *)
(* Abstractions.  One thread with one session, which /resume may replace.  *)
(* Labels, prompts, files and their number are left out: a submission got  *)
(* some file or none.  The bot claims a batch in one step: it is the only  *)
(* process that changes a row's status.  Contexts are named by their call. *)
(***************************************************************************)
EXTENDS Naturals, Sequences, FiniteSets

CONSTANTS IpcUploads,  \* tool calls of kimaki_file_upload
          IpcButtons,  \* tool calls of kimaki_action_buttons
          IpcUsers,    \* clicks and submitted modals
          NoCall,
          IpcCasts     \* bounds: the calls and users that act together, and crashes

IpcCalls == IpcUploads \cup IpcButtons

ASSUME IpcAssumption ==
  /\ IpcUploads \cap IpcButtons = {} /\ NoCall \notin IpcCalls /\ IsFiniteSet(IpcCalls)
  /\ IpcCasts \subseteq [calls : SUBSET IpcCalls, users : SUBSET IpcUsers, crashes : Nat]

VARIABLES
  rows,     \* ipc_requests: call -> status and response
  made,     \* the rows in the order of created_at
  tool,     \* call -> what the plugin's tool has returned
  bot,      \* the poller: up, what is left of its batch, the request it is completing
  queued,   \* pendingActionButtonRequests of the session
  ui,       \* the runtime's showInteractiveUi: the call it handles and where it is
  context,  \* call -> its pending context, until and how it was resolved
  user,     \* click or submission -> its call and where it is
  resumed,  \* the thread has another session now
  told,     \* history: contexts the model was told to be clicked, as a sequence
  ipcCrashes \* crashes to come

ipcVars == <<rows, made, tool, bot, queued, ui, context, user, resumed, told, ipcCrashes>>

IpcResponses == {"none", "files", "empty", "ok", "error"}
Unresolved == {"none", "open"}
Outcomes == {"clicked", "dismissed", "expired", "submitted", "unsent"}

IpcTypeOK ==
  /\ rows \in [IpcCalls -> [status : {"none", "pending", "processing", "completed", "cancelled"},
                            response : IpcResponses]]
  /\ made \in Seq(IpcCalls) /\ Len(made) <= Cardinality(IpcCalls)
  /\ tool \in [IpcCalls -> {"new", "polling", "cancelled", "timeout"} \cup IpcResponses]
  /\ bot \in [up : BOOLEAN, batch : SUBSET IpcCalls, completing : IpcCalls \cup {NoCall}]
  /\ queued \in IpcButtons \cup {NoCall}
  /\ ui \in [at : {"idle", "waiting", "sending"}, call : IpcButtons \cup {NoCall},
             shown : IpcButtons \cup {NoCall}, seen : SUBSET IpcButtons]
  /\ context \in [IpcCalls -> [is : Unresolved \cup Outcomes, sent : BOOLEAN,
                               value : {"none", "files", "empty", "error"}]]
  /\ user \in [IpcUsers -> [at : {"new", "deferring", "claimed", "telling", "downloading",
                                  "uploaded", "done"},
                            call : IpcCalls \cup {NoCall}, files : BOOLEAN]]
  /\ resumed \in BOOLEAN /\ told \in Seq(IpcButtons) /\ ipcCrashes \in Nat

NoContext == [is |-> "none", sent |-> FALSE, value |-> "none"]
IdleBot == [up |-> TRUE, batch |-> {}, completing |-> NoCall]
IdleUi == [at |-> "idle", call |-> NoCall, shown |-> NoCall, seen |-> {}]

IpcStartsWith(cast) ==
  /\ rows = [c \in IpcCalls |-> [status |-> "none", response |-> "none"]]
  /\ made = <<>> /\ tool = [c \in IpcCalls |-> IF c \in cast.calls THEN "new" ELSE "cancelled"]
  /\ bot = IdleBot /\ queued = NoCall /\ ui = [IdleUi EXCEPT !.seen = IpcButtons \ cast.calls]
  /\ context = [c \in IpcCalls |-> NoContext]
  /\ user = [u \in IpcUsers |-> [at |-> IF u \in cast.users THEN "new" ELSE "done",
                                 call |-> NoCall, files |-> FALSE]]
  /\ resumed = FALSE /\ told = <<>> /\ ipcCrashes = cast.crashes
IpcInit == \E cast \in IpcCasts : IpcStartsWith(cast)

-----------------------------------------------------------------------------
(* The tool calls: a row, and a loop that reads it *)

CallTool(c) ==
  /\ tool[c] = "new"
  /\ tool' = [tool EXCEPT ![c] = "polling"]
  /\ rows' = [rows EXCEPT ![c].status = "pending"]
  /\ made' = Append(made, c)
  /\ UNCHANGED <<bot, queued, ui, context, user, resumed, told, ipcCrashes>>

PollRow(c) ==
  /\ tool[c] = "polling"
  /\ rows[c].status = "cancelled" \/ rows[c].response # "none"
  /\ tool' = [tool EXCEPT ![c] = IF rows[c].status = "cancelled" THEN "cancelled"
                                 ELSE rows[c].response]
  /\ UNCHANGED <<rows, made, bot, queued, ui, context, user, resumed, told, ipcCrashes>>

ToolTimesOut(c) ==
  /\ tool[c] = "polling"
  /\ tool' = [tool EXCEPT ![c] = "timeout"]
  /\ UNCHANGED <<rows, made, bot, queued, ui, context, user, resumed, told, ipcCrashes>>

-----------------------------------------------------------------------------
(* The bot: claim, dispatch, complete *)

\* completeIpcRequest: by id alone
Completed(c, response) == [rows EXCEPT ![c] = [status |-> "completed", response |-> response]]
\* cancelAllPendingIpcRequests
AllCancelled ==
  [c \in IpcCalls |-> IF rows[c].status \in {"pending", "processing"}
                      THEN [status |-> "cancelled", response |-> "error"] ELSE rows[c]]

\* A mutant of Pending: what a batch works on is claimed again.
PendingOrProcessing(c) == rows[c].status \in {"pending", "processing"}

Pending(c) == rows[c].status = "pending"
\* The batch is dispatched one after the other, in the order of created_at.
IsNext(c) == \E i \in 1 .. Len(made) :
  c \in bot.batch /\ c = made[i] /\ \A j \in 1 .. i - 1 : made[j] \notin bot.batch

IpcTick ==
  /\ bot.up /\ bot.batch = {} /\ bot.completing = NoCall
  /\ \E c \in IpcCalls : Pending(c)
  /\ bot' = [bot EXCEPT !.batch = {c \in IpcCalls : Pending(c)}]
  /\ rows' = [c \in IpcCalls |-> IF Pending(c) THEN [rows[c] EXCEPT !.status = "processing"]
                                 ELSE rows[c]]
  /\ UNCHANGED <<made, tool, queued, ui, context, user, resumed, told, ipcCrashes>>

\* A mutant of IpcSweep: the sweep is never due.
SweepsNothing(c) == FALSE

\* The stale sweep, after a day: longer than anybody works on a row
IpcSweep(c) ==
  /\ bot.up /\ bot.batch = {} /\ bot.completing = NoCall
  /\ rows[c].status = "processing" /\ context[c].is # "open" /\ context[c].value = "none"
  /\ rows' = [rows EXCEPT ![c] = [status |-> "cancelled", response |-> "error"]]
  /\ UNCHANGED <<made, tool, bot, queued, ui, context, user, resumed, told, ipcCrashes>>

\* dispatchRequest: bad payloads and unknown threads are answered with an error
DispatchFailsFor(c) ==
  /\ IsNext(c) /\ bot.completing = NoCall
  /\ bot' = [bot EXCEPT !.batch = @ \ {c}]
  /\ rows' = Completed(c, "error") \/ UNCHANGED rows   \* the write throws
  /\ UNCHANGED <<made, tool, queued, ui, context, user, resumed, told, ipcCrashes>>

\* showFileUploadButton, which is not awaited
DispatchUpload(c) ==
  /\ IsNext(c) /\ c \in IpcUploads
  /\ bot' = [bot EXCEPT !.batch = @ \ {c}]
  /\ context' = [context EXCEPT ![c].is = "open"]
  /\ UNCHANGED <<rows, made, tool, queued, ui, user, resumed, told, ipcCrashes>>

\* queueActionButtonsRequest: the session's entry is overwritten, a waiter takes it.
DispatchButtons(c) ==
  /\ IsNext(c) /\ c \in IpcButtons /\ bot.completing = NoCall
  /\ IF ui.at = "waiting"
     THEN queued' = NoCall /\ ui' = [ui EXCEPT !.at = "sending", !.shown = c]
     ELSE queued' = c /\ UNCHANGED ui
  /\ bot' = [bot EXCEPT !.completing = c]
  /\ UNCHANGED <<rows, made, tool, context, user, resumed, told, ipcCrashes>>
DispatchedButtons ==
  /\ bot.completing # NoCall
  /\ rows' = Completed(bot.completing, "ok") \/ UNCHANGED rows   \* the write throws
  /\ bot' = [bot EXCEPT !.batch = @ \ {bot.completing}, !.completing = NoCall]
  /\ UNCHANGED <<made, tool, queued, ui, context, user, resumed, told, ipcCrashes>>

-----------------------------------------------------------------------------
(* The runtime: buttons are shown when the part of the tool call is complete *)

Returned(c) == tool[c] \notin {"new", "polling"}
TakeRequest(c) ==
  /\ bot.up /\ ui.at = "idle" /\ c \in IpcButtons \ ui.seen /\ Returned(c)
  /\ ui' = [at |-> IF queued = NoCall THEN "waiting" ELSE "sending", call |-> c,
            shown |-> queued, seen |-> ui.seen \cup {c}]
  /\ queued' = NoCall
  /\ UNCHANGED <<rows, made, tool, bot, context, user, resumed, told, ipcCrashes>>
WaitTimesOut ==
  /\ ui.at = "waiting"
  /\ ui' = [ui EXCEPT !.at = "idle"]
  /\ UNCHANGED <<rows, made, tool, bot, queued, context, user, resumed, told, ipcCrashes>>

\* showActionButtons: the context is open before the message is sent.
OpenButtons ==
  /\ ui.at = "sending" /\ context[ui.shown].is = "none"
  /\ context' = [context EXCEPT ![ui.shown].is = "open"]
  /\ UNCHANGED <<rows, made, tool, bot, queued, ui, user, resumed, told, ipcCrashes>>
ButtonsSent ==
  /\ ui.at = "sending" /\ context[ui.shown].is # "none"
  /\ ui' = [ui EXCEPT !.at = "idle", !.shown = NoCall]
  /\ \/ context' = [context EXCEPT ![ui.shown].sent = TRUE]
     \/ context' = [context EXCEPT ![ui.shown].is = IF @ = "open" THEN "unsent" ELSE @]
  /\ UNCHANGED <<rows, made, tool, bot, queued, user, resumed, told, ipcCrashes>>

\* resolveContext: exactly once
ResolvedAs(c, outcome, value) ==
  IF context[c].is = "open"
  THEN [context EXCEPT ![c].is = outcome, ![c].value = value] ELSE context

\* The timers: five minutes for an upload, a day for buttons
Expires(c) ==
  /\ context[c].is = "open"
  /\ context' = ResolvedAs(c, "expired", IF c \in IpcUploads THEN "empty" ELSE "none")
  /\ UNCHANGED <<rows, made, tool, bot, queued, ui, user, resumed, told, ipcCrashes>>

\* A new message of the user: all uploads, and the first buttons
UserWrites ==
  \E b \in SUBSET IpcButtons :
    LET open == {c \in IpcCalls : context[c].is = "open"} IN
    /\ bot.up /\ open # {} /\ b \subseteq open
    /\ Cardinality(b) = IF open \cap IpcButtons = {} THEN 0 ELSE 1
    /\ context' = [c \in IpcCalls |->
                     IF c \in b THEN [context[c] EXCEPT !.is = "dismissed"]
                     ELSE IF c \in open \cap IpcUploads
                          THEN [context[c] EXCEPT !.is = "dismissed", !.value = "empty"]
                          ELSE context[c]]
    /\ UNCHANGED <<rows, made, tool, bot, queued, ui, user, resumed, told, ipcCrashes>>

IpcResume ==
  /\ ~resumed /\ resumed' = TRUE
  /\ UNCHANGED <<rows, made, tool, bot, queued, ui, context, user, told, ipcCrashes>>

-----------------------------------------------------------------------------
(* Uploads *)

UploadSent(c) ==
  /\ c \in IpcUploads /\ context[c].is # "none" /\ ~context[c].sent
  /\ \/ context' = [context EXCEPT ![c].sent = TRUE]
     \/ /\ context[c].is = "open"   \* the send fails
        /\ context' = ResolvedAs(c, "unsent", "error")
  /\ UNCHANGED <<rows, made, tool, bot, queued, ui, user, resumed, told, ipcCrashes>>

\* The promise of showFileUploadButton ends in completeIpcRequest.
UploadEnds(c) ==
  /\ c \in IpcUploads /\ bot.up /\ context[c].value # "none"
  /\ \/ rows' = Completed(c, context[c].value)
     \/ rows' = Completed(c, "error")   \* the write throws, and its catch writes this
     \/ UNCHANGED rows                  \* both throw
  /\ context' = [context EXCEPT ![c].value = "none"]
  /\ UNCHANGED <<made, tool, bot, queued, ui, user, resumed, told, ipcCrashes>>

SubmitModal(u, c) ==
  /\ user[u].at = "new" /\ c \in IpcUploads /\ context[c].is = "open" /\ context[c].sent
  /\ user' = [user EXCEPT ![u] = [at |-> "downloading", call |-> c, files |-> FALSE]]
  /\ UNCHANGED <<rows, made, tool, bot, queued, ui, context, resumed, told, ipcCrashes>>

\* The downloads end; a context that was resolved meanwhile is left alone.
Downloaded(u) ==
  /\ user[u].at = "downloading"
  /\ \E some \in BOOLEAN :
       user' = [user EXCEPT ![u].files = some,
                  ![u].at = IF context[user[u].call].is = "open" THEN "uploaded" ELSE "done"]
  /\ UNCHANGED <<rows, made, tool, bot, queued, ui, context, resumed, told, ipcCrashes>>

\* After the reply and the announcement, either of which may fail
ResolveUpload(u) ==
  /\ user[u].at = "uploaded"
  /\ \/ context' = ResolvedAs(user[u].call, "submitted", IF user[u].files THEN "files" ELSE "empty")
     \/ context' = ResolvedAs(user[u].call, "submitted", "empty")
  /\ user' = [user EXCEPT ![u].at = "done"]
  /\ UNCHANGED <<rows, made, tool, bot, queued, ui, resumed, told, ipcCrashes>>

-----------------------------------------------------------------------------
(* Clicks on action buttons *)

Click(u, c) ==
  /\ user[u].at = "new" /\ c \in IpcButtons /\ context[c].is = "open"
  /\ user' = [user EXCEPT ![u] = [at |-> "deferring", call |-> c, files |-> FALSE]]
  /\ UNCHANGED <<rows, made, tool, bot, queued, ui, context, resumed, told, ipcCrashes>>

\* A mutant of ClaimClick: the check before deferUpdate is taken for the claim.
ClaimUnchecked(u) ==
  /\ user[u].at = "deferring"
  /\ context' = ResolvedAs(user[u].call, "clicked", "none")
  /\ user' = [user EXCEPT ![u].at = "claimed"]
  /\ UNCHANGED <<rows, made, tool, bot, queued, ui, resumed, told, ipcCrashes>>

ClaimClick(u) ==
  /\ user[u].at = "deferring"
  /\ context' = ResolvedAs(user[u].call, "clicked", "none")
  /\ user' = [user EXCEPT ![u].at = IF context[user[u].call].is = "open" THEN "claimed"
                                    ELSE "done"]
  /\ UNCHANGED <<rows, made, tool, bot, queued, ui, resumed, told, ipcCrashes>>

\* The session of the thread is compared with the context's.
CheckSession(u) ==
  /\ user[u].at = "claimed"
  /\ user' = [user EXCEPT ![u].at = IF resumed THEN "done" ELSE "telling"]
  /\ UNCHANGED <<rows, made, tool, bot, queued, ui, context, resumed, told, ipcCrashes>>
TellModel(u) ==
  /\ user[u].at = "telling"
  /\ user' = [user EXCEPT ![u].at = "done"]
  /\ \/ told' = Append(told, user[u].call)
     \/ UNCHANGED told   \* the edit, the message or enqueueIncoming fails
  /\ UNCHANGED <<rows, made, tool, bot, queued, ui, context, resumed, ipcCrashes>>

-----------------------------------------------------------------------------
(* Shutdown, crash and start of the bot *)

ShutDown ==
  /\ bot.up /\ rows' = AllCancelled
  /\ UNCHANGED <<made, tool, bot, queued, ui, context, user, resumed, told, ipcCrashes>>

IpcCrash ==
  /\ bot.up /\ ipcCrashes > 0
  /\ ipcCrashes' = ipcCrashes - 1
  /\ bot' = [IdleBot EXCEPT !.up = FALSE]
  /\ queued' = NoCall /\ ui' = [IdleUi EXCEPT !.seen = ui.seen]
  /\ context' = [c \in IpcCalls |->
                   [context[c] EXCEPT !.value = "none",
                                      !.is = IF @ = "open" THEN "expired" ELSE @]]
  /\ user' = [u \in IpcUsers |-> [user[u] EXCEPT !.at = IF @ = "new" THEN @ ELSE "done"]]
  /\ UNCHANGED <<rows, made, tool, resumed, told>>

\* startIpcPolling
StartBot ==
  /\ ~bot.up
  /\ bot' = IdleBot /\ rows' = AllCancelled
  /\ UNCHANGED <<made, tool, queued, ui, context, user, resumed, told, ipcCrashes>>

-----------------------------------------------------------------------------
DispatchOf(c) == DispatchUpload(c) \/ DispatchButtons(c)

IpcNext ==
  \/ IpcTick \/ DispatchedButtons \/ WaitTimesOut \/ OpenButtons \/ ButtonsSent
  \/ UserWrites \/ IpcResume \/ ShutDown \/ IpcCrash \/ StartBot
  \/ \E c \in IpcCalls :
       \/ CallTool(c) \/ PollRow(c) \/ ToolTimesOut(c) \/ IpcSweep(c)
       \/ DispatchFailsFor(c) \/ DispatchOf(c) \/ TakeRequest(c) \/ Expires(c)
       \/ UploadSent(c) \/ UploadEnds(c)
  \/ \E u \in IpcUsers :
       \/ \E c \in IpcCalls : SubmitModal(u, c) \/ Click(u, c)
       \/ Downloaded(u) \/ ResolveUpload(u) \/ ClaimClick(u) \/ CheckSession(u) \/ TellModel(u)

\* The bot's loop, timers and promises run; it is restarted.  Users do nothing.
IpcFairness ==
  /\ WF_ipcVars(IpcTick) /\ WF_ipcVars(DispatchedButtons) /\ WF_ipcVars(StartBot)
  /\ \A c \in IpcCalls : /\ WF_ipcVars(DispatchOf(c)) /\ WF_ipcVars(Expires(c))
                          /\ WF_ipcVars(UploadEnds(c))
                          /\ WF_ipcVars(IpcSweep(c))

IpcSpec == IpcInit /\ [][IpcNext]_ipcVars
IpcFairSpec == IpcSpec /\ IpcFairness

-----------------------------------------------------------------------------
(* Properties *)

\* Buttons act at most once, and only if it was a click that resolved them: two
\* clicks, a dismissal, the timer and a restart race for one context.
IpcButtonsActOnce ==
  /\ \A c \in IpcButtons : Cardinality({i \in DOMAIN told : told[i] = c}) <= 1
  /\ \A i \in DOMAIN told : context[told[i]].is = "clicked"

\* The table keeps its promise to the tool calls: the poller, the timers, two
\* users, the sweep, a shutdown and the next start all write a row, and none
\* changes an answer, answers what was not asked, or answers an upload with "ok".
Says(row) == CASE row.status = "none" -> "unasked"
               [] row.status \in {"pending", "processing"} -> "open"
               [] row.status = "completed" -> row.response
               [] row.status = "cancelled" -> "cancelled"
TableSays == [c \in IpcCalls |-> Says(rows[c])]
Promise == INSTANCE IpcPromise WITH Uploads <- IpcUploads, Buttons <- IpcButtons,
                                    answer <- TableSays
IpcKeepsPromise == Promise!Spec

\* A claimed row is settled, by an answer or by a cancellation, whatever the
\* user does and whenever the bot is restarted: no tool call waits for a row
\* nobody works on.
IpcRowsSettle ==
  \A c \in IpcCalls : rows[c].status \in {"pending", "processing"}
                        ~> rows[c].status \in {"completed", "cancelled"}

=============================================================================
