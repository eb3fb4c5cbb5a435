---------------------------- MODULE MCServices ----------------------------
(***************************************************************************)
(* The parts the job's stream and the job controller rely on, side by      *)
(* side: the ring (four slots, a stream that wraps it more than twice,     *)
(* every window from 0 to one beyond the ring, both modes and every change *)
(* between them), the reconciler of connection states with two             *)
(* connections, a cached block file, a job's input queue and an RPC        *)
(* endpoint.  They share no state, so a behaviour follows one of them and  *)
(* the others stay as they started; the endpoint is followed twice, with   *)
(* one stream of responses and with two calls.                             *)
(***************************************************************************)
EXTENDS CirBuf, ConnReconciler, FileCache, ReorderQueue, RpcEndpoint

TwoConns == {"c1", "c2"}
TwoUsers == {"a", "b"}
OneStream == {"stream"}
ThreeCalls == {"stream", "call1", "call2"}
TwoSessions ==
    {<<"s1", 0>>, <<"s1", 1>>, <<"s1", 2>>, <<"s1", 3>>, <<"s2", 1>>, <<"s2", 2>>}

VARIABLE subject      \* the part a behaviour follows

Subjects == {"ring", "reconciler", "files", "queue", "stream", "calls"}

ServicesInit ==
    /\ subject \in Subjects
    /\ CirBufInit /\ ConnInit /\ FileInit /\ QueueInit /\ RpcInit

ServicesNext ==
    /\ UNCHANGED subject
    /\ \/ /\ subject = "ring" /\ CirBufNext
          /\ UNCHANGED <<connVars, fileVars, queueVars, rpcVars>>
       \/ /\ subject = "reconciler" /\ ConnNext
          /\ UNCHANGED <<cbVars, fileVars, queueVars, rpcVars>>
       \/ /\ subject = "files" /\ FileNext
          /\ UNCHANGED <<cbVars, connVars, queueVars, rpcVars>>
       \/ /\ subject = "queue" /\ QueueNext
          /\ UNCHANGED <<cbVars, connVars, fileVars, rpcVars>>
       \/ /\ subject \in {"stream", "calls"} /\ RpcNext
          /\ rpcMap' \subseteq (IF subject = "stream" THEN StreamCalls ELSE Calls \ StreamCalls)
          /\ UNCHANGED <<cbVars, connVars, fileVars, queueVars>>

servicesVars == <<subject, cbVars, connVars, fileVars, queueVars, rpcVars>>

ServicesSpec ==
    /\ ServicesInit /\ [][ServicesNext]_servicesVars
    /\ ConnFairness /\ QueueFairness /\ RpcFairness
=============================================================================
