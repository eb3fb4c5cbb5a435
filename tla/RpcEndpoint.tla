---------------------------- MODULE RpcEndpoint ----------------------------
(***************************************************************************)
(* pkg/wshutil/wshrpc.go: calls from one RPC endpoint (a WshRpc) to the    *)
(* handlers of another, and the answers' way back through a router's link. *)
(* runServer takes an answer or a report of a timeout at a time, and       *)
(* passes the answer to the caller's response channel, waiting at most a   *)
(* second for room in it.  The timers, the callers and the handlers run on *)
(* their own; a handler of a stream sends from one goroutine and, once its *)
(* time is up, is finished by another.                                     *)
(*                                                                         *)
(* Answers: "data" with more to come, "last", and "error".  A call's id is *)
(* its name.  Left out: requests without an answer, cancelling (nothing    *)
(* calls StreamCancelFn), and an endpoint whose input is closed.           *)
(***************************************************************************)
EXTENDS Naturals, Sequences

CONSTANTS
    Calls,         \* the calls made, one each
    StreamCalls,   \* those answered by a stream of responses
    RespChSize,    \* room in a call's response channel
    CtxDoneChSize, \* room for reports of timeouts
    InputChSize,   \* room in the endpoint's input channel
    Responses      \* bound on the responses a stream's command produces

ASSUME RpcEndpointAssumption ==
    /\ StreamCalls \subseteq Calls
    /\ {RespChSize, CtxDoneChSize, InputChSize} \subseteq Nat \ {0}
    /\ Responses \in Nat

VARIABLES
    rpcCaller,  \* where each caller is, what it read and how its call ended
    rpcMap,     \* the calls in w.RpcMap; a call's channel is closed when it leaves
    respCh,     \* the response channels
    expired,    \* calls whose context is done: timed out or finished
    timer,      \* the goroutine of registerRpc, which reports that
    ctxDoneCh,  \* w.CtxDoneCh
    inputCh,    \* w.InputCh
    backlog,    \* the router's backlog for the endpoint's link
    server,     \* runServer: what it does, with which answer
    handler,    \* each call's RpcResponseHandler and its two goroutines
    gaveUp      \* history: streams dropped, with a response, because their channel stayed full

rpcVars == <<rpcCaller, rpcMap, respCh, expired, timer, ctxDoneCh, inputCh, backlog, server,
             handler, gaveUp>>
linkVars == <<inputCh, backlog>>
endpointVars == <<rpcMap, respCh, expired, ctxDoneCh, server, gaveUp>>

Answer(c, kind, n) == [id |-> c, kind |-> kind, n |-> n]

Answers == [id : Calls, kind : {"data", "last", "error"}, n : Nat]

CallerStates == {"new", "called", "checking", "waiting", "ended"}
CallEnds == {"no", "error", "complete"}
WorkStates == {"none", "running", "sending", "ending", "gone"}
Callers == [Calls -> [at : CallerStates, read : Seq(Nat), ended : CallEnds]]
Handlers ==
    [Calls -> [work : WorkStates, watch : BOOLEAN, done : BOOLEAN, late : BOOLEAN, n : Nat]]
Servers == [at : {"idle", "sending", "blocked", "unregister"}, answer : Answers \cup {<< >>}]

RpcTypeOK ==
    /\ rpcCaller \in Callers /\ handler \in Handlers
    /\ rpcMap \subseteq Calls /\ expired \subseteq Calls /\ gaveUp \subseteq Calls
    /\ respCh \in [Calls -> Seq(Answers)]
    /\ timer \in [Calls -> {"none", "running", "ended"}]
    /\ ctxDoneCh \in Seq(Calls)
    /\ inputCh \in Seq(Answers) /\ backlog \in Seq(Answers)
    /\ server \in Servers
    /\ server.at # "idle" => server.answer \in Answers

RpcInit ==
    /\ rpcCaller = [c \in Calls |-> [at |-> "new", read |-> << >>, ended |-> "no"]]
    /\ rpcMap = {} /\ respCh = [c \in Calls |-> << >>]
    /\ expired = {} /\ timer = [c \in Calls |-> "none"] /\ ctxDoneCh = << >>
    /\ inputCh = << >> /\ backlog = << >>
    /\ server = [at |-> "idle", answer |-> << >>]
    /\ handler = [c \in Calls |-> [work |-> "none", watch |-> FALSE, done |-> FALSE,
                                   late |-> FALSE, n |-> 0]]
    /\ gaveUp = {}

-----------------------------------------------------------------------------
(* The endpoint.  unregisterRpc: the call leaves the map, its channel is   *)
(* closed and its context cancelled; an error goes first if there is room. *)
Unregister(c) ==
    /\ rpcMap' = rpcMap \ {c}
    /\ expired' = IF c \in rpcMap THEN expired \cup {c} ELSE expired

TimerUnregisters(c) ==
    /\ timer[c] = "running" /\ c \in expired
    /\ Unregister(c)
    /\ respCh' = [respCh EXCEPT ![c] = IF c \in rpcMap /\ Len(@) < RespChSize
                                       THEN Append(@, Answer(c, "error", 0)) ELSE @]
    /\ timer' = [timer EXCEPT ![c] = "ended"]
    /\ UNCHANGED <<rpcCaller, ctxDoneCh, linkVars, server, handler, gaveUp>>

TimerTriesOnce(c) ==
    /\ timer[c] = "running" /\ c \in expired
    /\ ctxDoneCh' = IF Len(ctxDoneCh) < CtxDoneChSize THEN Append(ctxDoneCh, c) ELSE ctxDoneCh
    /\ timer' = [timer EXCEPT ![c] = "ended"]
    /\ UNCHANGED <<rpcCaller, rpcMap, respCh, expired, linkVars, server, handler, gaveUp>>

(* retrySendTimeout: reported once there is room for the report.           *)
TimerReports(c) ==
    /\ timer[c] = "running" /\ c \in expired
    /\ Len(ctxDoneCh) < CtxDoneChSize
    /\ ctxDoneCh' = Append(ctxDoneCh, c)
    /\ timer' = [timer EXCEPT ![c] = "ended"]
    /\ UNCHANGED <<rpcCaller, rpcMap, respCh, expired, linkVars, server, handler, gaveUp>>

CallExpires(c) ==
    /\ c \in rpcMap \ expired
    /\ expired' = expired \cup {c}
    /\ UNCHANGED <<rpcCaller, rpcMap, respCh, timer, ctxDoneCh, linkVars, server, handler,
                   gaveUp>>

ServerTimesOut ==
    /\ server.at = "idle" /\ ctxDoneCh # << >>
    /\ LET c == Head(ctxDoneCh)
       IN  /\ respCh' = [respCh EXCEPT ![c] = IF c \in rpcMap /\ Len(@) < RespChSize
                                              THEN Append(@, Answer(c, "error", 0)) ELSE @]
           /\ Unregister(c)
    /\ ctxDoneCh' = Tail(ctxDoneCh)
    /\ UNCHANGED <<rpcCaller, timer, linkVars, server, handler, gaveUp>>

(* An answer to a call that is no longer known is dropped.                 *)
ServerReceives ==
    /\ server.at = "idle" /\ inputCh # << >>
    /\ inputCh' = Tail(inputCh)
    /\ server' = IF Head(inputCh).id \in rpcMap
                 THEN [at |-> "sending", answer |-> Head(inputCh)] ELSE server
    /\ UNCHANGED <<rpcCaller, rpcMap, respCh, expired, timer, ctxDoneCh, backlog, handler,
                   gaveUp>>

ServerSends ==
    /\ server.at \in {"sending", "blocked"}
    /\ LET m == server.answer
       IN  /\ Len(respCh[m.id]) < RespChSize
           /\ respCh' = [respCh EXCEPT ![m.id] = Append(@, m)]
           /\ server' = [server EXCEPT !.at = IF m.kind = "data" THEN "idle" ELSE "unregister"]
    /\ UNCHANGED <<rpcCaller, rpcMap, expired, timer, ctxDoneCh, linkVars, handler, gaveUp>>

ServerBlocks ==
    /\ server.at = "sending"
    /\ Len(respCh[server.answer.id]) >= RespChSize
    /\ server' = [server EXCEPT !.at = "blocked"]
    /\ UNCHANGED <<rpcCaller, rpcMap, respCh, expired, timer, ctxDoneCh, linkVars, handler,
                   gaveUp>>

(* A second later: the call is dropped without an error.                   *)
ServerGivesUp ==
    /\ server.at = "blocked"
    /\ Unregister(server.answer.id)
    /\ gaveUp' = IF server.answer.kind = "data" THEN gaveUp \cup {server.answer.id} ELSE gaveUp
    /\ server' = [server EXCEPT !.at = "idle"]
    /\ UNCHANGED <<rpcCaller, respCh, timer, ctxDoneCh, linkVars, handler>>

ServerUnregisters ==
    /\ server.at = "unregister"
    /\ Unregister(server.answer.id)
    /\ server' = [server EXCEPT !.at = "idle"]
    /\ UNCHANGED <<rpcCaller, respCh, timer, ctxDoneCh, linkVars, handler, gaveUp>>

-----------------------------------------------------------------------------
(* The callers.                                                            *)

At(c, pc) == rpcCaller' = [rpcCaller EXCEPT ![c].at = pc]
Ends(c, how) == rpcCaller' = [rpcCaller EXCEPT ![c].at = "ended", ![c].ended = how]

(* SendComplexRequest registers the call before it sends the request.      *)
Call(c) ==
    /\ rpcCaller[c].at = "new"
    /\ At(c, "called")
    /\ rpcMap' = rpcMap \cup {c}
    /\ timer' = [timer EXCEPT ![c] = "running"]
    /\ UNCHANGED <<respCh, expired, ctxDoneCh, linkVars, server, handler, gaveUp>>

RequestSent(c) ==
    /\ rpcCaller[c].at = "called"
    /\ At(c, IF c \in StreamCalls THEN "checking" ELSE "waiting")
    /\ handler' = [handler EXCEPT ![c].work = "running",
                                  ![c].watch = c \in StreamCalls]
    /\ UNCHANGED <<endpointVars, timer, linkVars>>

RequestTimesOut(c) ==
    /\ rpcCaller[c].at = "called" /\ c \in expired
    /\ Ends(c, "error")
    /\ Unregister(c)
    /\ UNCHANGED <<respCh, timer, ctxDoneCh, linkVars, server, handler, gaveUp>>

(* ResponseDone, before each response of a stream: a channel closed and    *)
(* drained is taken for the end of the stream.                             *)
ResponseDone(c) ==
    /\ rpcCaller[c].at = "checking"
    /\ IF respCh[c] = << >> /\ c \notin rpcMap THEN Ends(c, "complete") ELSE At(c, "waiting")
    /\ UNCHANGED <<endpointVars, timer, linkVars, handler>>

(* NextResponse of a stream.  What "last" carries is passed on as a        *)
(* response too, an empty one.                                             *)
NextOfStream(c) ==
    /\ c \in StreamCalls /\ rpcCaller[c].at = "waiting"
    /\ IF respCh[c] # << >>
       THEN LET m == Head(respCh[c])
            IN  /\ respCh' = [respCh EXCEPT ![c] = Tail(@)]
                /\ IF m.kind = "error" THEN Ends(c, "error")
                   ELSE rpcCaller' = [rpcCaller EXCEPT ![c].at = "checking",
                            ![c].read = IF m.kind = "data" THEN Append(@, m.n) ELSE @]
       ELSE /\ c \notin rpcMap
            /\ Ends(c, "error")
            /\ UNCHANGED respCh
    /\ UNCHANGED <<rpcMap, expired, timer, ctxDoneCh, linkVars, server, handler, gaveUp>>

(* SendRpcRequest: one response, and the call is finalized.                *)
NextOfCall(c) ==
    /\ c \in Calls \ StreamCalls /\ rpcCaller[c].at = "waiting"
    /\ IF respCh[c] # << >>
       THEN /\ Ends(c, IF Head(respCh[c]).kind = "error" THEN "error" ELSE "complete")
            /\ respCh' = [respCh EXCEPT ![c] = Tail(@)]
       ELSE /\ c \notin rpcMap
            /\ Ends(c, "error")
            /\ UNCHANGED respCh
    /\ Unregister(c)
    /\ UNCHANGED <<timer, ctxDoneCh, linkVars, server, handler, gaveUp>>

-----------------------------------------------------------------------------
(* The link: sendRpcMessageToLink, and processOneBacklogRound.             *)

SendIfRoom(m) ==
    IF Len(inputCh) < InputChSize
    THEN inputCh' = Append(inputCh, m) /\ UNCHANGED backlog
    ELSE backlog' = Append(backlog, m) /\ UNCHANGED inputCh

SendToLink(m) ==
    IF backlog = << >> /\ Len(inputCh) < InputChSize
    THEN inputCh' = Append(inputCh, m) /\ UNCHANGED backlog
    ELSE backlog' = Append(backlog, m) /\ UNCHANGED inputCh

BacklogRound ==
    /\ backlog # << >> /\ Len(inputCh) < InputChSize
    /\ LET room == InputChSize - Len(inputCh)
           k == IF Len(backlog) < room THEN Len(backlog) ELSE room
       IN  /\ inputCh' = inputCh \o SubSeq(backlog, 1, k)
           /\ backlog' = SubSeq(backlog, k + 1, Len(backlog))
    /\ UNCHANGED <<rpcCaller, endpointVars, timer, handler>>

-----------------------------------------------------------------------------
(* The handlers: a response goes out or, when the handler's time is up,    *)
(* may be dropped.                                                         *)
SendResponse(c, m) ==
    \/ SendToLink(m)
    \/ handler[c].late /\ UNCHANGED linkVars

HandlerExpires(c) ==
    /\ c \in StreamCalls
    /\ handler[c].work # "none" /\ ~handler[c].late
    /\ handler' = [handler EXCEPT ![c].late = TRUE]
    /\ UNCHANGED <<rpcCaller, endpointVars, timer, linkVars>>

(* A call's goroutine sends the result or the error, if it ever has one.   *)
HandlerAnswers(c) ==
    /\ c \notin StreamCalls
    /\ handler[c].work = "running"
    /\ \E kind \in {"last", "error"} : SendToLink(Answer(c, kind, 0))
    /\ handler' = [handler EXCEPT ![c].work = "gone"]
    /\ UNCHANGED <<rpcCaller, endpointVars, timer>>

(* A stream's goroutine looks at done, then sends; once done, it sends     *)
(* nothing more.                                                           *)
HandlerProduces(c) ==
    /\ c \in StreamCalls
    /\ handler[c].work = "running" /\ handler[c].n < Responses /\ ~handler[c].done
    /\ handler' = [handler EXCEPT ![c].n = @ + 1, ![c].work = "sending"]
    /\ UNCHANGED <<rpcCaller, endpointVars, timer, linkVars>>

HandlerSends(c) ==
    /\ handler[c].work = "sending"
    /\ SendResponse(c, Answer(c, "data", handler[c].n))
    /\ handler' = [handler EXCEPT ![c].work = "running"]
    /\ UNCHANGED <<rpcCaller, endpointVars, timer>>

(* The command's channel is closed, or gave an error: Finalize.            *)
HandlerReturns(c) ==
    /\ c \in StreamCalls
    /\ handler[c].work = "running"
    /\ handler' = [handler EXCEPT ![c].work = IF handler[c].done THEN "gone" ELSE "ending"]
    /\ UNCHANGED <<rpcCaller, endpointVars, timer, linkVars>>

HandlerEnds(c) ==
    /\ handler[c].work = "ending"
    /\ \E kind \in {"last", "error"} : SendResponse(c, Answer(c, kind, 0))
    /\ handler' = [handler EXCEPT ![c].work = "gone", ![c].done = TRUE, ![c].late = TRUE]
    /\ UNCHANGED <<rpcCaller, endpointVars, timer>>

(* The goroutine that waits for the end of a stream's time finalizes it.   *)
WatcherFinalizes(c) ==
    /\ handler[c].watch /\ handler[c].late
    /\ IF handler[c].done THEN UNCHANGED linkVars ELSE SendResponse(c, Answer(c, "last", 0))
    /\ handler' = [handler EXCEPT ![c].watch = FALSE, ![c].done = TRUE]
    /\ UNCHANGED <<rpcCaller, endpointVars, timer>>

-----------------------------------------------------------------------------
ServerStep ==
    \/ ServerReceives \/ ServerSends \/ ServerBlocks \/ ServerGivesUp \/ ServerUnregisters

CallerStep(c) ==
    RequestSent(c) \/ RequestTimesOut(c) \/ ResponseDone(c) \/ NextOfStream(c) \/ NextOfCall(c)

HandlerStep(c) ==
    \/ HandlerAnswers(c) \/ HandlerExpires(c) \/ HandlerProduces(c) \/ HandlerSends(c)
    \/ HandlerReturns(c) \/ HandlerEnds(c) \/ WatcherFinalizes(c)

RpcNext ==
    \/ ServerTimesOut \/ ServerStep \/ BacklogRound
    \/ \E c \in Calls :
         \/ Call(c) \/ CallerStep(c) \/ CallExpires(c) \/ TimerReports(c) \/ HandlerStep(c)

RpcSpec == RpcInit /\ [][RpcNext]_rpcVars

(* The endpoint's goroutines and the callers go on, and time passes;       *)
(* nothing says that a handler ever answers.                               *)
RpcFairness ==
    /\ WF_rpcVars(ServerTimesOut) /\ WF_rpcVars(ServerStep)
    /\ \A c \in Calls :
         WF_rpcVars(CallerStep(c)) /\ WF_rpcVars(CallExpires(c)) /\ WF_rpcVars(TimerReports(c))

-----------------------------------------------------------------------------
(* runServer never holds an answer for a channel that was closed: sending  *)
(* on it would panic and end the endpoint with all its calls.              *)
NoSendOnClosed ==
    server.at \in {"sending", "blocked"} => server.answer.id \in rpcMap

(* A caller reads a stream's responses in the order they were produced,    *)
(* none twice, through backlog, input and response channel; the time a     *)
(* handler has may leave a gap, never a swap.                              *)
ReadsInOrder ==
    \A c \in Calls : \A i, j \in DOMAIN rpcCaller[c].read :
        i < j => rpcCaller[c].read[i] < rpcCaller[c].read[j]

(* A call comes back, with an answer or an error, though its handler may   *)
(* never answer and other calls' channels may be full.                     *)
CallsEnd ==
    (\E c \in Calls : rpcCaller[c].at # "new")
        ~> \A c \in Calls : rpcCaller[c].at \in {"new", "ended"}

(* "will fail RPC" (wshrpc.go:873): a stream given up because its channel  *)
(* stayed full, with a response lost, does not end for its caller as if it *)
(* were complete.                                                          *)
GivenUpFails == \A c \in gaveUp : rpcCaller[c].ended # "complete"
=============================================================================
