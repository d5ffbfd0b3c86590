----------------------------- MODULE MCServices -----------------------------
(***************************************************************************)
(* Small instances of the components around the threads.  They share no    *)
(* variables, so one run checks them all: a behaviour exercises the one    *)
(* component its initial state picks, and the others stay as they start.   *)
(***************************************************************************)
EXTENDS SessionSleep, RpcSession, AccountPool, IpcRequests, OpencodeServer, PermissionUi,
        InterruptPlugin, SlackTyping

CONSTANTS Parts, \* the components the run exercises
          t1, t2, c1, b1, \* of RpcSession
          f1, k1, k2, u1, u2, \* of IpcRequests
          a1, a2 \* of AccountPool

VARIABLE part

RpcTrio == {{t1, t2, b1}, {t1, c1, b1}}
RpcPair == {{t1, t2}, {t1, b1}}
AccAlive(dead) == [a \in AccAccounts |-> IF a \in dead THEN 0 ELSE 1]
AccFew == {<<<<a1, a2>>, {}, AccAlive({})>>,
           <<<<a1, a2>>, AccRequests, AccAlive({a1})>>, <<<<a2, a1>>, {}, AccAlive({a2})>>}
IpcCrowd ==
  {[calls |-> {f1}, users |-> {u1, u2}, crashes |-> 1],
   [calls |-> {k1}, users |-> {u1, u2}, crashes |-> 1],
   [calls |-> {k1, k2}, users |-> {u1}, crashes |-> 0]}
IpcAlone == {[calls |-> {c}, users |-> {u1}, crashes |-> 1] : c \in IpcCalls}

\* A component that is not exercised starts in one of its initial states, and stays.
SvcInit ==
  /\ part \in Parts
  /\ Init /\ SrvInit /\ PermInit /\ IntInit /\ TypInit
  /\ RpcInit /\ (part # "rpc" => RpcStartsWith(CHOOSE cast \in RpcCasts : TRUE))
  /\ AccInit /\ (part # "acc" => AccStartsFrom(<<a1, a2>>, {}, AccAlive({})))
  /\ IpcInit /\ (part # "ipc" => IpcStartsWith(CHOOSE cast \in IpcCasts : TRUE))

SvcNext ==
  /\ UNCHANGED part
  /\ \/ /\ part = "sleep" /\ Next
        /\ UNCHANGED <<rpcVars, accVars, ipcVars, srvVars, permVars, intVars, typVars>>
     \/ /\ part = "rpc" /\ RpcNext
        /\ UNCHANGED <<vars, accVars, ipcVars, srvVars, permVars, intVars, typVars>>
     \/ /\ part = "acc" /\ AccNext
        /\ UNCHANGED <<vars, rpcVars, ipcVars, srvVars, permVars, intVars, typVars>>
     \/ /\ part = "ipc" /\ IpcNext
        /\ UNCHANGED <<vars, rpcVars, accVars, srvVars, permVars, intVars, typVars>>
     \/ /\ part = "srv" /\ SrvNext
        /\ UNCHANGED <<vars, rpcVars, accVars, ipcVars, permVars, intVars, typVars>>
     \/ /\ part = "perm" /\ PermNext
        /\ UNCHANGED <<vars, rpcVars, accVars, ipcVars, srvVars, intVars, typVars>>
     \/ /\ part = "int" /\ IntNext
        /\ UNCHANGED <<vars, rpcVars, accVars, ipcVars, srvVars, permVars, typVars>>
     \/ /\ part = "typ" /\ TypNext
        /\ UNCHANGED <<vars, rpcVars, accVars, ipcVars, srvVars, permVars, intVars>>

svcVars == <<part, vars, rpcVars, accVars, ipcVars, srvVars, permVars, intVars, typVars>>

SvcSpec == SvcInit /\ [][SvcNext]_svcVars

\* The fairness each component states, owed while the component is exercised.
SvcFairness ==
  /\ WF_vars(part = "sleep" /\ RunnerStep)
  /\ \A s \in Sessions : /\ WF_vars(part = "sleep" /\ WakeTimeComes(s))
                         /\ WF_vars(part = "sleep" /\ RetryWindowPasses(s))
  /\ \A id \in Ids : WF_vars(part = "sleep" /\ ForgetNonce(id))
  /\ \A m \in Wakes : SF_vars(part = "sleep" /\ IngressWake(m, FALSE))
  /\ \A x \in RpcCallers :
       /\ WF_rpcVars(part = "rpc" /\ RpcStep(x))
       /\ WF_rpcVars(part = "rpc" /\ DeadlineFires(x))
       /\ WF_rpcVars(part = "rpc" /\ (RegisterSession(x) \/ ProbeTimesOut(x)))
  /\ WF_rpcVars(part = "rpc" /\ RpcChildStops)
  /\ WF_ipcVars(part = "ipc" /\ IpcTick)
  /\ WF_ipcVars(part = "ipc" /\ DispatchedButtons)
  /\ WF_ipcVars(part = "ipc" /\ StartBot)
  /\ \A c \in IpcCalls : /\ WF_ipcVars(part = "ipc" /\ DispatchOf(c))
                         /\ WF_ipcVars(part = "ipc" /\ Expires(c))
                         /\ WF_ipcVars(part = "ipc" /\ UploadEnds(c))
                         /\ WF_ipcVars(part = "ipc" /\ IpcSweep(c))
  /\ WF_srvVars(part = "srv" /\ LoopSteps)
  /\ WF_srvVars(part = "srv" /\ StartSteps)
  /\ \A x \in SrvCallers : WF_srvVars(part = "srv" /\ SrvSteps(x))
  /\ \A r \in PermRequests : /\ WF_permVars(part = "perm" /\ PermHandles(r))
                             /\ WF_permVars(part = "perm" /\ PermissionExpires(r))
  /\ WF_permVars(part = "perm" /\ \E d \in deciding : PermDecides(d))
  /\ WF_permVars(part = "perm" /\ PermButtonsSent)
  /\ WF_permVars(part = "perm" /\ PermDismisses)
  /\ WF_intVars(part = "int" /\ IntInterrupts)
  /\ \A m \in IntMessages : WF_intVars(part = "int" /\ TimerFires(m))

SvcFairSpec == SvcSpec /\ SvcFairness

\* Every variable of every component has its type.
SvcTypeOK ==
  /\ part \in Parts
  /\ RpcTypeOK /\ AccTypeOK /\ IpcTypeOK /\ SrvTypeOK /\ PermTypeOK /\ IntTypeOK /\ TypTypeOK

=============================================================================
