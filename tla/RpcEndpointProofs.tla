------------------------- MODULE RpcEndpointProofs -------------------------
(***************************************************************************)
(* Proofs about RpcEndpoint, for any calls, streams and channel sizes.     *)
(* No send on a closed channel: only a plain call's caller closes a        *)
(* channel that answers come for, and it does so after taking one; a plain *)
(* call has one answer in all of the link, the endpoint and its channel.   *)
(* Responses in order: of a stream's responses, those read come before     *)
(* those in its channel, these before the one runServer holds, this before *)
(* those on the link, and none is beyond the last one sent.                *)
(***************************************************************************)
EXTENDS RpcEndpoint, SequenceTheorems, TLAPS

(* The answers on the link, in the order the endpoint takes them.          *)
Queue == inputCh \o backlog

OnItsWay(c) == \E i \in 1 .. Len(Queue) : Queue[i].id = c
Once(c) == \A i, j \in 1 .. Len(Queue) : Queue[i].id = c /\ Queue[j].id = c => i = j
Sending(c) == server.at \in {"sending", "blocked"} /\ server.answer.id = c

HandlersInv ==
    \A c \in Calls :
        /\ handler[c].work \in {"sending", "ending"} => c \in StreamCalls
        /\ handler[c].watch => handler[c].work # "none" /\ c \in StreamCalls

CallersInv ==
    \A c \in Calls :
        /\ rpcCaller[c].at \in {"new", "called"} => handler[c].work = "none"
        /\ rpcCaller[c].at = "new" => respCh[c] = << >> /\ c \notin rpcMap
        /\ handler[c].work = "none" => ~OnItsWay(c) /\ ~Sending(c)

OneAnswer ==
    \A c \in Calls \ StreamCalls :
        /\ OnItsWay(c) => ~Sending(c)
        /\ handler[c].work # "gone" => ~OnItsWay(c) /\ ~Sending(c)
        /\ handler[c].work # "gone" \/ OnItsWay(c) \/ Sending(c) =>
             respCh[c] = << >> \/ c \notin rpcMap
        /\ Once(c)

RpcInv == RpcTypeOK /\ HandlersInv /\ CallersInv /\ OneAnswer /\ NoSendOnClosed

-----------------------------------------------------------------------------
(* What a router does with the link leaves one queue of answers: sending   *)
(* adds to its end, a round of the backlog changes nothing.                *)
LEMMA SendToLinkQueues ==
    ASSUME RpcTypeOK, NEW m \in Answers, SendToLink(m)
    PROVE  /\ Queue' = Append(Queue, m)
           /\ inputCh' \in Seq(Answers) /\ backlog' \in Seq(Answers)
  <1>1. inputCh \in Seq(Answers) /\ backlog \in Seq(Answers)
    BY DEF RpcTypeOK
  <1>2. CASE backlog = << >> /\ inputCh' = Append(inputCh, m) /\ UNCHANGED backlog
    <2>1. Append(inputCh, m) \in Seq(Answers)
      BY <1>1, AppendProperties
    <2>2. Queue = inputCh /\ Queue' = Append(inputCh, m)
      BY <1>1, <1>2, <2>1, ConcatEmptySeq DEF Queue
    <2> QED
      BY <1>1, <1>2, <2>1, <2>2
  <1>3. CASE backlog' = Append(backlog, m) /\ UNCHANGED inputCh
    <2>1. Append(backlog, m) \in Seq(Answers)
      BY <1>1, AppendProperties
    <2>2. inputCh \o Append(backlog, m) = Append(inputCh \o backlog, m)
      BY <1>1
    <2> QED
      BY <1>1, <1>3, <2>1, <2>2 DEF Queue
  <1> QED
    BY <1>2, <1>3 DEF SendToLink

(* The round's first k messages change sides.                              *)
LEMMA BacklogRoundQueues ==
    ASSUME RpcTypeOK, BacklogRound
    PROVE  /\ Queue' = Queue
           /\ inputCh' \in Seq(Answers) /\ backlog' \in Seq(Answers)
  <1>1. inputCh \in Seq(Answers) /\ backlog \in Seq(Answers)
    BY DEF RpcTypeOK
  <1>2. InputChSize \in Nat
    BY RpcEndpointAssumption
  <1> DEFINE room == InputChSize - Len(inputCh)
             k == IF Len(backlog) < room THEN Len(backlog) ELSE room
  <1>3. /\ inputCh' = inputCh \o SubSeq(backlog, 1, k)
        /\ backlog' = SubSeq(backlog, k + 1, Len(backlog))
        /\ Len(inputCh) < InputChSize
    BY DEF BacklogRound
  <1>4. k \in 0 .. Len(backlog) /\ Len(backlog) \in Nat
    BY <1>1, <1>2, <1>3
  <1> HIDE DEF k
  <1>5. /\ SubSeq(backlog, 1, k) \in Seq(Answers)
        /\ SubSeq(backlog, k + 1, Len(backlog)) \in Seq(Answers)
    <2>1. \A i \in 1 .. Len(backlog) : backlog[i] \in Answers
      BY <1>1
    <2>2. /\ \A i \in 1 .. k : backlog[i] \in Answers
          /\ \A i \in k + 1 .. Len(backlog) : backlog[i] \in Answers
      BY <1>4, <2>1
    <2> QED
      BY <1>4, <2>2, SubSeqProperties
  <1>6. SubSeq(backlog, 1, k) \o SubSeq(backlog, k + 1, Len(backlog)) = backlog
    <2>1. /\ 1 \in 1 .. Len(backlog) + 1 /\ k \in 1 - 1 .. Len(backlog)
          /\ Len(backlog) \in k .. Len(backlog)
      BY <1>4
    <2>2. SubSeq(backlog, 1, k) \o SubSeq(backlog, k + 1, Len(backlog))
            = SubSeq(backlog, 1, Len(backlog))
      BY ONLY <1>1, <2>1, ConcatAdjacentSubSeq
    <2> QED
      BY <1>1, <2>2, SubSeqFull
  <1>7. Queue' = inputCh' \o backlog'
    BY DEF Queue
  <1>8. (inputCh \o SubSeq(backlog, 1, k)) \o SubSeq(backlog, k + 1, Len(backlog))
          = inputCh \o (SubSeq(backlog, 1, k) \o SubSeq(backlog, k + 1, Len(backlog)))
    <2>1. ASSUME NEW S, NEW s \in Seq(S), NEW t \in Seq(S), NEW u \in Seq(S)
          PROVE  (s \o t) \o u = s \o (t \o u)
      BY ConcatAssociative
    <2> DEFINE a == SubSeq(backlog, 1, k)
               b == SubSeq(backlog, k + 1, Len(backlog))
    <2>2. a \in Seq(Answers) /\ b \in Seq(Answers)
      BY <1>5
    <2> HIDE DEF a, b
    <2>3. (inputCh \o a) \o b = inputCh \o (a \o b)
      BY ONLY <1>1, <2>1, <2>2
    <2> QED
      BY <2>3 DEF a, b
  <1>9. inputCh \o SubSeq(backlog, 1, k) \in Seq(Answers)
    BY ONLY <1>1, <1>5, ConcatProperties
  <1> QED
    BY ONLY <1>3, <1>5, <1>6, <1>7, <1>8, <1>9, Zenon DEF Queue

(* The endpoint takes the first of the queue.                              *)
LEMMA ReceiveQueues ==
    ASSUME RpcTypeOK, inputCh # << >>, inputCh' = Tail(inputCh), backlog' = backlog
    PROVE  /\ Queue # << >> /\ Queue \in Seq(Answers)
           /\ Queue[1] = Head(inputCh)
           /\ Queue' = Tail(Queue)
           /\ inputCh' \in Seq(Answers)
  <1>1. inputCh \in Seq(Answers) /\ backlog \in Seq(Answers)
    BY DEF RpcTypeOK
  <1>2. Queue \in Seq(Answers) /\ Len(Queue) = Len(inputCh) + Len(backlog)
    BY <1>1, ConcatProperties DEF Queue
  <1>3. Len(inputCh) > 0
    BY <1>1, EmptySeq
  <1>4. Tail(inputCh) \in Seq(Answers)
    BY <1>1, HeadTailProperties
  <1>5. Tail(inputCh) \o backlog = Tail(inputCh \o backlog)
    BY <1>1, <1>3
  <1>6. Queue[1] = Head(inputCh)
    BY <1>1, <1>3 DEF Queue
  <1> QED
    BY <1>2, <1>3, <1>4, <1>5, <1>6 DEF Queue

(* Where the answers to a call are, after one more joined the queue and    *)
(* after the first one left it.                                            *)
LEMMA Joined ==
    ASSUME Queue \in Seq(Answers), NEW m \in Answers, Queue' = Append(Queue, m), NEW c \in Calls
    PROVE  /\ OnItsWay(c)' <=> OnItsWay(c) \/ c = m.id
           /\ Once(c) /\ (c = m.id => ~OnItsWay(c)) => Once(c)'
  <1>1. /\ Len(Queue') = Len(Queue) + 1 /\ Len(Queue) \in Nat
        /\ \A i \in 1 .. Len(Queue) : Queue'[i] = Queue[i]
        /\ Queue'[Len(Queue) + 1] = m
    BY AppendProperties
  <1> QED
    BY <1>1, SMTT(30) DEF OnItsWay, Once

LEMMA Taken ==
    ASSUME Queue \in Seq(Answers), Queue # << >>, Queue' = Tail(Queue), NEW c \in Calls
    PROVE  /\ OnItsWay(c)' => OnItsWay(c)
           /\ Once(c) => Once(c)'
           /\ Queue[1].id = c => OnItsWay(c)
           /\ Once(c) /\ Queue[1].id = c => ~OnItsWay(c)'
  <1>1. /\ Len(Queue') = Len(Queue) - 1 /\ Len(Queue) \in Nat /\ Len(Queue) > 0
        /\ \A i \in 1 .. Len(Queue') : Queue'[i] = Queue[i + 1]
    BY HeadTailProperties, EmptySeq
  <1> QED
    BY <1>1, SMTT(30) DEF OnItsWay, Once

-----------------------------------------------------------------------------
(* The names of the states.                                                *)
LEMMA States ==
    /\ {"new", "called", "checking", "waiting", "ended"} \subseteq CallerStates
    /\ {"error", "complete"} \subseteq CallEnds
    /\ {"none", "running", "sending", "ending", "gone"} \subseteq WorkStates
  BY DEF CallerStates, CallEnds, WorkStates

(* What a caller takes from its channel is an answer.                      *)
LEMMA ResponseTaken ==
    ASSUME RpcTypeOK, NEW c \in Calls, respCh[c] # << >>
    PROVE  /\ Head(respCh[c]) \in Answers /\ Head(respCh[c]).n \in Nat
           /\ Tail(respCh[c]) \in Seq(Answers)
  <1>1. respCh[c] \in Seq(Answers)
    BY DEF RpcTypeOK
  <1>2. Head(respCh[c]) \in Answers /\ Tail(respCh[c]) \in Seq(Answers)
    BY <1>1, HeadTailProperties
  <1> QED
    BY <1>2 DEF Answers

(* The types, and the queue, hold initially.                               *)
LEMMA RpcInitInv == RpcInit => RpcInv
  <1> SUFFICES ASSUME RpcInit PROVE RpcInv
    OBVIOUS
  <1>1. RpcTypeOK
    BY RpcEndpointAssumption
    DEF RpcInit, RpcTypeOK, Callers, Handlers, Servers, CallerStates, CallEnds, WorkStates
  <1>2. Queue = << >>
    BY ConcatEmptySeq DEF RpcInit, Queue
  <1>3. \A c \in Calls : ~OnItsWay(c) /\ Once(c) /\ ~Sending(c)
    <2>1. Len(Queue) = 0
      BY <1>2
    <2>2. \A i : ~(i \in 1 .. Len(Queue))
      BY <2>1
    <2>3. server.at = "idle"
      BY DEF RpcInit
    <2> QED
      BY <2>2, <2>3 DEF OnItsWay, Once, Sending
  <1> QED
    BY <1>1, <1>3 DEF RpcInv, HandlersInv, CallersInv, OneAnswer, NoSendOnClosed, RpcInit

(* The callers' records keep their type.                                   *)
LEMMA CallersKept ==
    ASSUME RpcTypeOK, NEW c \in Calls,
           \/ \E p \in CallerStates : At(c, p)
           \/ \E how \in CallEnds : Ends(c, how)
           \/ UNCHANGED rpcCaller
           \/ NextOfStream(c)
    PROVE  rpcCaller' \in Callers
  <1>1. rpcCaller \in Callers
    BY DEF RpcTypeOK
  <1>2. ASSUME NEW p \in CallerStates, At(c, p) PROVE rpcCaller' \in Callers
    BY <1>1, <1>2 DEF At, Callers
  <1>3. ASSUME NEW how \in CallEnds, Ends(c, how) PROVE rpcCaller' \in Callers
    BY <1>1, <1>3, States DEF Ends, Callers
  <1>4. CASE NextOfStream(c)
    <2>1. CASE rpcCaller' = [rpcCaller EXCEPT ![c].at = "ended", ![c].ended = "error"]
      BY <1>3, <2>1, States DEF Ends
    <2>2. CASE ~(rpcCaller' = [rpcCaller EXCEPT ![c].at = "ended", ![c].ended = "error"])
      <3> DEFINE m == Head(respCh[c])
                 r == IF m.kind = "data" THEN Append(rpcCaller[c].read, m.n) ELSE rpcCaller[c].read
      <3>1. respCh[c] # << >> /\ rpcCaller' = [rpcCaller EXCEPT ![c].at = "checking", ![c].read = r]
        BY <1>4, <2>2 DEF NextOfStream, Ends
      <3>2. m.n \in Nat
        BY <3>1, ResponseTaken
      <3>3. rpcCaller[c].read \in Seq(Nat)
        BY <1>1 DEF Callers
      <3>4. r \in Seq(Nat)
        BY <3>2, <3>3
      <3> HIDE DEF r
      <3> QED
        BY <1>1, <3>1, <3>4, States DEF Callers
    <2> QED
      BY <2>1, <2>2
  <1> QED
    BY <1>1, <1>2, <1>3, <1>4

(* Every action keeps the types.                                           *)
LEMMA RpcTypesKept ==
    ASSUME RpcTypeOK, HandlersInv, [RpcNext]_rpcVars
    PROVE  RpcTypeOK'
  <1> USE RpcEndpointAssumption DEF RpcTypeOK, Unregister, linkVars, endpointVars, Answer
  <1>0. CASE UNCHANGED rpcVars
    BY <1>0 DEF rpcVars
  <1>1. CASE ServerTimesOut
    <2> DEFINE c == Head(ctxDoneCh)
    <2>1. c \in Calls /\ Tail(ctxDoneCh) \in Seq(Calls)
      BY <1>1, HeadTailProperties DEF ServerTimesOut
    <2>2. [id |-> c, kind |-> "error", n |-> 0] \in Answers
      BY <2>1 DEF Answers
    <2> HIDE DEF c
    <2>3. respCh' \in [Calls -> Seq(Answers)]
      BY <1>1, <2>1, <2>2 DEF ServerTimesOut, c
    <2> QED
      BY <1>1, <2>1, <2>3 DEF ServerTimesOut
  <1>2. CASE ServerReceives
    BY <1>2, HeadTailProperties DEF ServerReceives, Servers
  <1>3. CASE ServerSends
    <2>1. server.answer \in Answers /\ server.answer.id \in Calls
      BY <1>3 DEF ServerSends, Answers
    <2>2. respCh' \in [Calls -> Seq(Answers)]
      BY <1>3, <2>1 DEF ServerSends
    <2>3. server' \in Servers /\ server'.answer = server.answer
      BY <1>3 DEF ServerSends, Servers
    <2> QED
      BY <1>3, <2>1, <2>2, <2>3 DEF ServerSends
  <1>4. CASE ServerBlocks
    BY <1>4 DEF ServerBlocks, Servers
  <1>5. CASE ServerGivesUp
    BY <1>5 DEF ServerGivesUp, Answers, Servers
  <1>6. CASE ServerUnregisters
    BY <1>6 DEF ServerUnregisters, Answers, Servers
  <1>7. CASE BacklogRound
    BY <1>7, BacklogRoundQueues DEF BacklogRound
  <1>8. ASSUME NEW c \in Calls, Call(c) PROVE RpcTypeOK'
    BY <1>8, CallersKept, States DEF Call
  <1>9. ASSUME NEW c \in Calls, RequestSent(c) PROVE RpcTypeOK'
    <2> DEFINE b == c \in StreamCalls
    <2>1. b \in BOOLEAN /\ handler' = [handler EXCEPT ![c].work = "running", ![c].watch = b]
      BY <1>9 DEF RequestSent
    <2>2. rpcCaller' \in Callers
      BY <1>9, CallersKept, States DEF RequestSent
    <2>3. UNCHANGED <<rpcMap, respCh, expired, ctxDoneCh, server, gaveUp, timer, inputCh, backlog>>
      BY <1>9 DEF RequestSent
    <2> HIDE DEF b
    <2>4. handler' \in Handlers
      BY <2>1, States, ZenonT(30) DEF Handlers
    <2> QED
      BY <2>2, <2>3, <2>4
  <1>10. ASSUME NEW c \in Calls, RequestTimesOut(c) PROVE RpcTypeOK'
    BY <1>10, CallersKept, States DEF RequestTimesOut
  <1>11. ASSUME NEW c \in Calls, ResponseDone(c) PROVE RpcTypeOK'
    BY <1>11, CallersKept, States DEF ResponseDone
  <1>12. ASSUME NEW c \in Calls, NextOfStream(c) PROVE RpcTypeOK'
    <2>1. rpcCaller' \in Callers
      BY <1>12, CallersKept
    <2>2. respCh' \in [Calls -> Seq(Answers)]
      BY <1>12, ResponseTaken DEF NextOfStream
    <2> QED
      BY <1>12, <2>1, <2>2 DEF NextOfStream
  <1>13. ASSUME NEW c \in Calls, NextOfCall(c) PROVE RpcTypeOK'
    <2>1. rpcCaller' \in Callers
      BY <1>13, CallersKept, States DEF NextOfCall
    <2>2. respCh' \in [Calls -> Seq(Answers)]
      BY <1>13, ResponseTaken DEF NextOfCall
    <2> QED
      BY <1>13, <2>1, <2>2 DEF NextOfCall
  <1>14. ASSUME NEW c \in Calls, CallExpires(c) PROVE RpcTypeOK'
    BY <1>14 DEF CallExpires
  <1>15. ASSUME NEW c \in Calls, TimerReports(c) PROVE RpcTypeOK'
    BY <1>15 DEF TimerReports
  <1>16. ASSUME NEW c \in Calls, HandlerAnswers(c) PROVE RpcTypeOK'
    <2>1. handler' \in Handlers
      BY <1>16, States DEF HandlerAnswers, Handlers
    <2> QED
      BY <1>16, <2>1, SendToLinkQueues DEF HandlerAnswers, Answers
  <1>17. ASSUME NEW c \in Calls, HandlerExpires(c) PROVE RpcTypeOK'
    <2>1. handler' = [handler EXCEPT ![c].late = TRUE]
      BY <1>17 DEF HandlerExpires
    <2>2. handler' \in Handlers
      BY <2>1 DEF Handlers
    <2> QED
      BY <1>17, <2>2 DEF HandlerExpires
  <1>18. ASSUME NEW c \in Calls, HandlerProduces(c) PROVE RpcTypeOK'
    <2>1. handler' = [handler EXCEPT ![c].n = handler[c].n + 1, ![c].work = "sending"]
      BY <1>18 DEF HandlerProduces
    <2>2. handler[c].n + 1 \in Nat
      BY DEF Handlers
    <2>3. handler' \in Handlers
      BY <2>1, <2>2, States, ZenonT(30) DEF Handlers
    <2> QED
      BY <1>18, <2>3 DEF HandlerProduces
  <1>19. ASSUME NEW c \in Calls, HandlerSends(c) PROVE RpcTypeOK'
    <2>1. handler' \in Handlers /\ handler[c].n \in Nat
      BY <1>19, States DEF HandlerSends, Handlers
    <2> QED
      BY <1>19, <2>1, SendToLinkQueues DEF HandlerSends, SendResponse, Answers
  <1>20. ASSUME NEW c \in Calls, HandlerReturns(c) PROVE RpcTypeOK'
    <2>1. handler' \in Handlers
      BY <1>20, States, ZenonT(30) DEF HandlerReturns, Handlers
    <2> QED
      BY <1>20, <2>1 DEF HandlerReturns
  <1>21. ASSUME NEW c \in Calls, HandlerEnds(c) PROVE RpcTypeOK'
    <2>0. handler' = [handler EXCEPT ![c].work = "gone", ![c].done = TRUE, ![c].late = TRUE]
      BY <1>21 DEF HandlerEnds
    <2>1. handler[c] \in [work : WorkStates, watch : BOOLEAN, done : BOOLEAN, late : BOOLEAN, n : Nat]
      BY DEF Handlers
    <2>2. [handler[c] EXCEPT !.work = "gone", !.done = TRUE, !.late = TRUE]
            \in [work : WorkStates, watch : BOOLEAN, done : BOOLEAN, late : BOOLEAN, n : Nat]
      BY <2>1, States
    <2>3. handler' = [handler EXCEPT ![c] = [handler[c] EXCEPT !.work = "gone", !.done = TRUE, !.late = TRUE]]
      BY <2>0 DEF Handlers
    <2>4. handler' \in Handlers
      BY <2>2, <2>3 DEF Handlers
    <2> QED
      BY <1>21, <2>4, SendToLinkQueues DEF HandlerEnds, SendResponse, Answers
  <1>22. ASSUME NEW c \in Calls, WatcherFinalizes(c) PROVE RpcTypeOK'
    <2>1. handler' \in Handlers
      BY <1>22, States, ZenonT(30) DEF WatcherFinalizes, Handlers
    <2> QED
      BY <1>22, <2>1, SendToLinkQueues DEF WatcherFinalizes, SendResponse, Answers
  <1> QED
    BY ONLY [RpcNext]_rpcVars, <1>0, <1>1, <1>2, <1>3, <1>4, <1>5, <1>6, <1>7, <1>8, <1>9, <1>10,
       <1>11, <1>12, <1>13, <1>14, <1>15, <1>16, <1>17, <1>18, <1>19, <1>20, <1>21, <1>22, Zenon
       DEF RpcNext, ServerStep, CallerStep, HandlerStep

-----------------------------------------------------------------------------
(* A step that leaves the link alone leaves its answers where they are.    *)
LEMMA Undisturbed ==
    ASSUME Queue' = Queue, NEW c \in Calls
    PROVE  (OnItsWay(c)' <=> OnItsWay(c)) /\ (Once(c)' <=> Once(c))
  BY DEF OnItsWay, Once

(* The callers' and the timers' steps: neither link, server nor handler    *)
(* changes.                                                                *)
LEMMA CallersStepKeeps ==
    ASSUME RpcInv, NEW c \in Calls,
           \/ Call(c) \/ RequestTimesOut(c) \/ ResponseDone(c) \/ NextOfStream(c)
           \/ NextOfCall(c) \/ CallExpires(c) \/ TimerReports(c)
    PROVE  HandlersInv' /\ CallersInv' /\ OneAnswer' /\ NoSendOnClosed'
  <1> USE DEF At, Ends, Unregister, linkVars, endpointVars
  <1>1. UNCHANGED <<inputCh, backlog, server, handler>>
    BY DEF Call, RequestTimesOut, ResponseDone, NextOfStream, NextOfCall, CallExpires, TimerReports
  <1>2. \A d \in Calls : /\ OnItsWay(d)' <=> OnItsWay(d)
                         /\ Once(d)' <=> Once(d)
                         /\ Sending(d)' <=> Sending(d)
    BY <1>1, Undisturbed DEF Queue, Sending
  <1>3. \A d \in Calls : d # c => /\ rpcCaller'[d] = rpcCaller[d] /\ respCh'[d] = respCh[d]
                                  /\ d \in rpcMap' <=> d \in rpcMap
    BY DEF RpcInv, RpcTypeOK, Callers,
           Call, RequestTimesOut, ResponseDone, NextOfStream, NextOfCall, CallExpires, TimerReports
  <1>4. /\ rpcCaller'[c].at = "new" => rpcCaller[c].at = "new" /\ UNCHANGED <<respCh, rpcMap>>
        /\ rpcCaller'[c].at = "called" => rpcCaller[c].at \in {"new", "called"}
    BY DEF RpcInv, RpcTypeOK, Callers,
           Call, RequestTimesOut, ResponseDone, NextOfStream, NextOfCall, CallExpires, TimerReports
  <1>5. /\ respCh[c] = << >> => respCh'[c] = << >>
        /\ c \in rpcMap' => c \in rpcMap \/ respCh'[c] = << >>
    BY DEF RpcInv, RpcTypeOK, CallersInv,
           Call, RequestTimesOut, ResponseDone, NextOfStream, NextOfCall, CallExpires, TimerReports
  <1>6. Sending(c) => (c \in rpcMap => c \in rpcMap')
    BY DEF RpcInv, NoSendOnClosed, OneAnswer, CallersInv,
           Call, RequestTimesOut, ResponseDone, NextOfStream, NextOfCall, CallExpires, TimerReports
  <1>7. HandlersInv'
    BY <1>1 DEF RpcInv, HandlersInv
  <1>8. CallersInv'
    BY <1>1, <1>2, <1>3, <1>4 DEF RpcInv, CallersInv
  <1>9. OneAnswer'
    BY <1>1, <1>2, <1>3, <1>5 DEF RpcInv, OneAnswer
  <1>10. NoSendOnClosed'
    BY <1>1, <1>3, <1>6 DEF RpcInv, RpcTypeOK, NoSendOnClosed, Sending, Answers, Servers
  <1> QED
    BY <1>7, <1>8, <1>9, <1>10

(* runServer's steps: handlers and callers stay where they are.            *)
LEMMA ServersStepKeeps ==
    ASSUME RpcInv, ServerTimesOut \/ ServerStep \/ BacklogRound
    PROVE  HandlersInv' /\ CallersInv' /\ OneAnswer' /\ NoSendOnClosed'
  <1> USE DEF Unregister, linkVars, endpointVars
  <1>1. UNCHANGED <<handler, rpcCaller>>
    BY DEF ServerTimesOut, ServerStep, ServerReceives, ServerSends, ServerBlocks, ServerGivesUp,
           ServerUnregisters, BacklogRound
  <1>2. HandlersInv'
    BY <1>1 DEF RpcInv, HandlersInv
  <1>3. ASSUME Queue' = Queue,
               \A d \in Calls : Sending(d)' => Sending(d),
               \A d \in Calls :
                 /\ d \in rpcMap' => d \in rpcMap
                 /\ respCh[d] = << >> => respCh'[d] = << >> \/ d \notin rpcMap'
                 /\ d \notin rpcMap => respCh'[d] = respCh[d]
        PROVE  CallersInv' /\ OneAnswer'
    <2>1. \A d \in Calls : (OnItsWay(d)' <=> OnItsWay(d)) /\ (Once(d)' <=> Once(d))
      BY <1>3, Undisturbed
    <2> QED
      BY <1>1, <1>3, <2>1 DEF RpcInv, CallersInv, OneAnswer
  <1>4. CASE ServerTimesOut
    <2>1. Queue' = Queue /\ server' = server /\ server.at = "idle"
      BY <1>4 DEF ServerTimesOut, Queue
    <2>2. NoSendOnClosed' /\ \A d \in Calls : Sending(d)' => Sending(d)
      BY <2>1 DEF NoSendOnClosed, Sending
    <2>3. \A d \in Calls :
            /\ d \in rpcMap' => d \in rpcMap
            /\ respCh[d] = << >> => respCh'[d] = << >> \/ d \notin rpcMap'
            /\ d \notin rpcMap => respCh'[d] = respCh[d]
      BY <1>4 DEF ServerTimesOut, RpcInv, RpcTypeOK
    <2> QED
      BY <1>2, <1>3, <2>1, <2>2, <2>3
  <1>5. CASE ServerReceives
    <2>1. inputCh # << >> /\ inputCh' = Tail(inputCh) /\ backlog' = backlog
      BY <1>5 DEF ServerReceives
    <2>2. /\ Queue # << >> /\ Queue \in Seq(Answers) /\ Queue' = Tail(Queue)
          /\ Queue[1] = Head(inputCh)
      BY <2>1, ReceiveQueues DEF RpcInv
    <2>3. \A d \in Calls : /\ OnItsWay(d)' => OnItsWay(d)
                           /\ Once(d) => Once(d)'
                           /\ Queue[1].id = d => OnItsWay(d)
                           /\ Once(d) /\ Queue[1].id = d => ~OnItsWay(d)'
      BY <2>2, Taken
    <2>4. /\ NoSendOnClosed'
          /\ \A d \in Calls : ~Sending(d) /\ (Sending(d)' => Queue[1].id = d)
      BY <1>5, <2>2 DEF ServerReceives, NoSendOnClosed, Sending
    <2>5. UNCHANGED <<respCh, rpcMap>>
      BY <1>5 DEF ServerReceives
    <2>6. CallersInv'
      BY <1>1, <2>3, <2>4, <2>5 DEF RpcInv, CallersInv
    <2>7. OneAnswer'
      BY <1>1, <2>3, <2>4, <2>5 DEF RpcInv, OneAnswer
    <2> QED
      BY <1>2, <2>4, <2>6, <2>7
  <1>6. CASE ServerSends
    <2> DEFINE a == server.answer.id
    <2>1. a \in Calls /\ Sending(a) /\ Queue' = Queue /\ rpcMap' = rpcMap
      BY <1>6 DEF ServerSends, RpcInv, RpcTypeOK, Answers, Sending, Queue
    <2>2. \A d \in Calls : ~Sending(d)' /\ (d # a => respCh'[d] = respCh[d])
      BY <1>6 DEF ServerSends, RpcInv, RpcTypeOK, Servers, Sending
    <2>3. NoSendOnClosed'
      BY <1>6 DEF ServerSends, RpcInv, RpcTypeOK, Servers, NoSendOnClosed
    <2>4. \A d \in Calls : (OnItsWay(d)' <=> OnItsWay(d)) /\ (Once(d)' <=> Once(d))
      BY <2>1, Undisturbed
    <2> HIDE DEF a
    <2>5. CallersInv'
      BY <1>1, <2>1, <2>2, <2>4 DEF RpcInv, CallersInv
    <2>6. OneAnswer'
      BY <1>1, <2>1, <2>2, <2>4 DEF RpcInv, OneAnswer
    <2> QED
      BY <1>2, <2>3, <2>5, <2>6
  <1>7. CASE ServerBlocks
    <2>1. Queue' = Queue /\ UNCHANGED <<respCh, rpcMap>>
      BY <1>7 DEF ServerBlocks, Queue
    <2>2. NoSendOnClosed' /\ \A d \in Calls : Sending(d)' => Sending(d)
      BY <1>7 DEF ServerBlocks, RpcInv, RpcTypeOK, Servers, NoSendOnClosed, Sending
    <2> QED
      BY <1>2, <1>3, <2>1, <2>2
  <1>8. CASE ServerGivesUp \/ ServerUnregisters
    <2>1. /\ Queue' = Queue /\ respCh' = respCh
          /\ \A d \in Calls : d \in rpcMap' => d \in rpcMap
      BY <1>8 DEF ServerGivesUp, ServerUnregisters, Queue
    <2>2. server'.at = "idle"
      BY <1>8 DEF ServerGivesUp, ServerUnregisters, RpcInv, RpcTypeOK, Servers
    <2>3. NoSendOnClosed' /\ \A d \in Calls : ~Sending(d)'
      BY <2>2 DEF NoSendOnClosed, Sending
    <2> QED
      BY <1>2, <1>3, <2>1, <2>3
  <1>9. CASE BacklogRound
    <2>1. Queue' = Queue
      BY <1>9, BacklogRoundQueues DEF RpcInv
    <2>2. UNCHANGED <<respCh, rpcMap, server>>
      BY <1>9 DEF BacklogRound
    <2>3. NoSendOnClosed' /\ \A d \in Calls : Sending(d)' => Sending(d)
      BY <2>2 DEF RpcInv, NoSendOnClosed, Sending
    <2> QED
      BY <1>2, <1>3, <2>1, <2>2, <2>3
  <1> QED
    BY <1>4, <1>5, <1>6, <1>7, <1>8, <1>9 DEF ServerStep

(* A stream's handler may add answers of its own stream to the link.       *)
LEMMA StreamsStepKeeps ==
    ASSUME RpcInv, NEW c \in StreamCalls, NEW m \in Answers, m.id = c,
           SendToLink(m) \/ UNCHANGED linkVars,
           handler[c].work # "none", handler'[c].work # "none",
           handler'[c].watch => handler[c].watch,
           \A d \in Calls : d # c => handler'[d] = handler[d],
           UNCHANGED <<rpcCaller, rpcMap, respCh, server>>
    PROVE  HandlersInv' /\ CallersInv' /\ OneAnswer' /\ NoSendOnClosed'
  <1>1. c \in Calls /\ Queue \in Seq(Answers)
    BY RpcEndpointAssumption, ConcatProperties DEF RpcInv, RpcTypeOK, Queue
  <1>2. HandlersInv' /\ NoSendOnClosed'
    BY <1>1 DEF RpcInv, HandlersInv, NoSendOnClosed
  <1>3. \A d \in Calls : /\ Sending(d)' <=> Sending(d)
                         /\ d # c => (OnItsWay(d)' <=> OnItsWay(d)) /\ (Once(d) => Once(d)')
    <2>1. CASE SendToLink(m)
      <3>1. Queue' = Append(Queue, m)
        BY <2>1, SendToLinkQueues DEF RpcInv
      <3> QED
        BY <1>1, <3>1, Joined DEF Sending
    <2>2. CASE UNCHANGED linkVars
      <3>1. Queue' = Queue
        BY <2>2 DEF linkVars, Queue
      <3> QED
        BY <3>1, Undisturbed DEF Sending
    <2> QED
      BY <2>1, <2>2
  <1>4. CallersInv'
    BY <1>1, <1>3 DEF RpcInv, CallersInv
  <1>5. OneAnswer'
    BY <1>1, <1>3 DEF RpcInv, OneAnswer
  <1> QED
    BY <1>2, <1>4, <1>5

(* A request reaches its handler; a plain call's handler answers, once.    *)
LEMMA PlainStepKeeps ==
    ASSUME RpcInv, NEW c \in Calls, RequestSent(c) \/ HandlerAnswers(c)
    PROVE  HandlersInv' /\ CallersInv' /\ OneAnswer' /\ NoSendOnClosed'
  <1>1. UNCHANGED <<rpcMap, respCh, server>>
    BY DEF RequestSent, HandlerAnswers, endpointVars
  <1>2. NoSendOnClosed' /\ \A d \in Calls : Sending(d)' <=> Sending(d)
    BY <1>1 DEF RpcInv, NoSendOnClosed, Sending
  <1>3. CASE RequestSent(c)
    <2>1. /\ rpcCaller[c].at = "called" /\ rpcCaller'[c].at \in {"checking", "waiting"}
          /\ handler'[c].work = "running" /\ (handler'[c].watch <=> c \in StreamCalls)
          /\ \A d \in Calls : d # c => rpcCaller'[d] = rpcCaller[d] /\ handler'[d] = handler[d]
      BY <1>3 DEF RequestSent, At, RpcInv, RpcTypeOK, Callers, Handlers
    <2>2. Queue' = Queue
      BY <1>3 DEF RequestSent, linkVars, Queue
    <2>3. \A d \in Calls : (OnItsWay(d)' <=> OnItsWay(d)) /\ (Once(d)' <=> Once(d))
      BY <2>2, Undisturbed
    <2>4. HandlersInv'
      BY <2>1 DEF RpcInv, HandlersInv
    <2>5. CallersInv'
      BY <1>1, <1>2, <2>1, <2>3 DEF RpcInv, CallersInv
    <2>6. OneAnswer'
      BY <1>1, <1>2, <2>1, <2>3 DEF RpcInv, OneAnswer, CallersInv
    <2> QED
      BY <1>2, <2>4, <2>5, <2>6
  <1>4. CASE HandlerAnswers(c)
    <2>1. /\ c \notin StreamCalls /\ handler[c].work = "running" /\ handler'[c].work = "gone"
          /\ handler'[c].watch = handler[c].watch
          /\ rpcCaller' = rpcCaller /\ \A d \in Calls : d # c => handler'[d] = handler[d]
      BY <1>4 DEF HandlerAnswers, RpcInv, RpcTypeOK, Handlers
    <2>2. PICK m \in Answers : m.id = c /\ SendToLink(m)
      BY <1>4 DEF HandlerAnswers, Answer, Answers
    <2>3. Queue' = Append(Queue, m) /\ Queue \in Seq(Answers)
      BY <2>2, SendToLinkQueues, ConcatProperties DEF RpcInv, RpcTypeOK, Queue
    <2>4. \A d \in Calls : /\ OnItsWay(d)' <=> OnItsWay(d) \/ d = c
                           /\ Once(d) /\ (d = c => ~OnItsWay(d)) => Once(d)'
      BY <2>2, <2>3, Joined
    <2>5. HandlersInv'
      BY <2>1 DEF RpcInv, HandlersInv
    <2>6. CallersInv'
      BY <1>1, <1>2, <2>1, <2>4 DEF RpcInv, CallersInv
    <2>7. OneAnswer'
      BY <1>1, <1>2, <2>1, <2>4 DEF RpcInv, OneAnswer
    <2> QED
      BY <1>2, <2>5, <2>6, <2>7
  <1> QED
    BY <1>3, <1>4

(* The other handlers' steps are those of streams.                         *)
LEMMA HandlersStepKeeps ==
    ASSUME RpcInv, NEW c \in Calls,
           \/ HandlerExpires(c) \/ HandlerProduces(c) \/ HandlerSends(c)
           \/ HandlerReturns(c) \/ HandlerEnds(c) \/ WatcherFinalizes(c)
    PROVE  HandlersInv' /\ CallersInv' /\ OneAnswer' /\ NoSendOnClosed'
  <1>1. c \in StreamCalls /\ handler[c].work # "none"
    BY DEF RpcInv, HandlersInv, HandlerExpires, HandlerProduces, HandlerSends, HandlerReturns,
           HandlerEnds, WatcherFinalizes
  <1>2. /\ handler'[c].work # "none"
        /\ handler'[c].watch => handler[c].watch
        /\ \A d \in Calls : d # c => handler'[d] = handler[d]
        /\ UNCHANGED <<rpcCaller, rpcMap, respCh, server>>
    <2>1. handler \in Handlers
      BY DEF RpcInv, RpcTypeOK
    <2>2. UNCHANGED <<rpcCaller, rpcMap, respCh, server>>
      BY DEF endpointVars,
         HandlerExpires, HandlerProduces, HandlerSends, HandlerReturns, HandlerEnds, WatcherFinalizes
    <2>3. CASE HandlerExpires(c)
      BY <1>1, <2>1, <2>2, <2>3 DEF Handlers, HandlerExpires
    <2>4. CASE HandlerProduces(c) \/ HandlerSends(c)
      BY <2>1, <2>2, <2>4 DEF Handlers, HandlerProduces, HandlerSends
    <2>5. CASE HandlerReturns(c)
      BY <2>1, <2>2, <2>5 DEF Handlers, HandlerReturns
    <2>6. CASE HandlerEnds(c)
      BY <2>1, <2>2, <2>6 DEF Handlers, HandlerEnds
    <2>7. CASE WatcherFinalizes(c)
      BY <1>1, <2>1, <2>2, <2>7 DEF Handlers, WatcherFinalizes
    <2> QED
      BY <2>3, <2>4, <2>5, <2>6, <2>7
  <1>3. \E m \in Answers : m.id = c /\ (SendToLink(m) \/ UNCHANGED linkVars)
    <2>1. \A kind \in {"data", "last", "error"}, n \in Nat :
            Answer(c, kind, n) \in Answers /\ Answer(c, kind, n).id = c
      BY DEF Answer, Answers
    <2>2. handler[c].n \in Nat
      BY DEF RpcInv, RpcTypeOK, Handlers
    <2> HIDE DEF Answer
    <2> QED
      BY <2>1, <2>2 DEF SendResponse,
         HandlerExpires, HandlerProduces, HandlerSends, HandlerReturns, HandlerEnds, WatcherFinalizes
  <1> QED
    BY <1>1, <1>2, <1>3, StreamsStepKeeps

-----------------------------------------------------------------------------
(* The inductive invariant of the endpoint.                                *)
LEMMA RpcInvariant == RpcSpec => []RpcInv
  <1>1. RpcInv /\ [RpcNext]_rpcVars => RpcInv'
    <2> SUFFICES ASSUME RpcInv, [RpcNext]_rpcVars PROVE RpcInv'
      OBVIOUS
    <2>1. RpcTypeOK'
      BY RpcTypesKept DEF RpcInv
    <2>2. CASE UNCHANGED rpcVars
      <3>1. Queue' = Queue
        BY <2>2 DEF rpcVars, Queue
      <3>2. \A d \in Calls : /\ OnItsWay(d)' <=> OnItsWay(d)
                             /\ Once(d)' <=> Once(d)
                             /\ Sending(d)' <=> Sending(d)
        BY <2>2, <3>1, Undisturbed DEF rpcVars, Sending
      <3> QED
        BY <2>1, <2>2, <3>2 DEF rpcVars, RpcInv, HandlersInv, CallersInv, OneAnswer, NoSendOnClosed
    <2>3. CASE RpcNext
      BY <2>1, <2>3, CallersStepKeeps, ServersStepKeeps, PlainStepKeeps, HandlersStepKeeps
      DEF RpcInv, RpcNext, CallerStep, HandlerStep
    <2> QED
      BY <2>2, <2>3
  <1> QED
    BY <1>1, RpcInitInv, PTL DEF RpcSpec

(* Callers, timers, channels, link, server and handlers keep their types.  *)
THEOREM RpcTypeCorrect == RpcSpec => []RpcTypeOK
  <1>1. RpcInv => RpcTypeOK
    BY DEF RpcInv
  <1> QED
    BY <1>1, RpcInvariant, PTL

(* runServer never sends on a channel that was closed: whatever calls are  *)
(* made, time out, are given up or finish, and whatever their answers are. *)
THEOREM ServerSendsSafely == RpcSpec => []NoSendOnClosed
  <1>1. RpcInv => NoSendOnClosed
    BY DEF RpcInv
  <1> QED
    BY <1>1, RpcInvariant, PTL

-----------------------------------------------------------------------------
(* The order of a stream's responses, from the handler that numbers them   *)
(* over the link, runServer and the response channel to the caller.        *)

DataOf(s, c) == {s[i].n : i \in {j \in 1 .. Len(s) : s[j].id = c /\ s[j].kind = "data"}}
Reads(c) == {rpcCaller[c].read[i] : i \in 1 .. Len(rpcCaller[c].read)}
Handed(c) == IF Sending(c) /\ server.answer.kind = "data" THEN {server.answer.n} ELSE {}
Latest(c) == IF handler[c].work = "sending" THEN handler[c].n - 1 ELSE handler[c].n

InStep(s, c) ==
    \A i, j \in 1 .. Len(s) :
        i < j /\ s[i].id = c /\ s[i].kind = "data" /\ s[j].id = c /\ s[j].kind = "data" =>
            s[i].n < s[j].n

Below(A, B) == \A x \in A, y \in B : x < y

(* Read, in the channel, in runServer's hands, on the link: each before    *)
(* the next, and none beyond what was sent.                                *)
Follow(R, C, H, Q, max) ==
    /\ Below(R, C) /\ Below(R, H) /\ Below(R, Q)
    /\ Below(C, H) /\ Below(C, Q) /\ Below(H, Q)
    /\ \A x \in R \cup C \cup H \cup Q : x <= max

InLine(c) ==
    Follow(Reads(c), DataOf(respCh[c], c), Handed(c), DataOf(Queue, c), Latest(c))

ReadsRise(c) ==
    \A i, j \in DOMAIN rpcCaller[c].read :
        i < j => rpcCaller[c].read[i] < rpcCaller[c].read[j]

OrderOf(c) ==
    /\ \A j \in 1 .. Len(respCh[c]) : respCh[c][j].id = c
    /\ ReadsRise(c)
    /\ InStep(respCh[c], c) /\ InStep(Queue, c)
    /\ InLine(c)

OrderInv == \A c \in Calls : OrderOf(c)

(* Answers joining and leaving a sequence.                                 *)
LEMMA AnswerJoins ==
    ASSUME NEW s \in Seq(Answers), NEW m \in Answers, NEW c \in Calls, InStep(s, c),
           m.kind = "data" /\ m.id = c => \A x \in DataOf(s, c) : x < m.n
    PROVE  /\ InStep(Append(s, m), c)
           /\ DataOf(Append(s, m), c) =
                DataOf(s, c) \cup (IF m.kind = "data" /\ m.id = c THEN {m.n} ELSE {})
  <1> DEFINE t == Append(s, m)
             l == Len(s)
  <1>1. /\ Len(t) = l + 1 /\ l \in Nat /\ t[l + 1] = m
        /\ \A i \in 1 .. l : t[i] = s[i]
    BY AppendProperties
  <1> HIDE DEF t, l
  <1>2. \A i \in 1 .. Len(t) : i \in 1 .. l \/ i = l + 1
    BY <1>1
  <1>3. \A i \in 1 .. l : i \in 1 .. Len(s) /\ i \in 1 .. Len(t)
    BY <1>1 DEF l
  <1>4. InStep(t, c)
    <2>1. ASSUME NEW i \in 1 .. Len(t), NEW j \in 1 .. Len(t), i < j,
                 t[i].id = c, t[i].kind = "data", t[j].id = c, t[j].kind = "data"
          PROVE  t[i].n < t[j].n
      <3>1. i \in 1 .. l /\ t[i] = s[i]
        BY <1>1, <1>2, <2>1
      <3>2. CASE j \in 1 .. l
        BY <1>1, <1>3, <2>1, <3>1, <3>2 DEF InStep
      <3>3. CASE j = l + 1
        <4>1. s[i].n \in DataOf(s, c)
          BY <1>3, <2>1, <3>1 DEF DataOf
        <4> QED
          BY <1>1, <2>1, <3>1, <3>3, <4>1
      <3> QED
        BY <1>2, <3>2, <3>3
    <2> QED
      BY <2>1 DEF InStep
  <1>5. ASSUME NEW x
        PROVE  x \in DataOf(t, c) <=> x \in DataOf(s, c) \/ (m.kind = "data" /\ m.id = c /\ x = m.n)
    <2>1. ASSUME x \in DataOf(t, c)
          PROVE  x \in DataOf(s, c) \/ (m.kind = "data" /\ m.id = c /\ x = m.n)
      <3>1. PICK i \in 1 .. Len(t) : t[i].id = c /\ t[i].kind = "data" /\ x = t[i].n
        BY <2>1 DEF DataOf
      <3> QED
        BY <1>1, <1>2, <1>3, <3>1 DEF DataOf
    <2>2. ASSUME x \in DataOf(s, c) PROVE x \in DataOf(t, c)
      <3>1. PICK i \in 1 .. Len(s) : s[i].id = c /\ s[i].kind = "data" /\ x = s[i].n
        BY <2>2 DEF DataOf
      <3>2. i \in 1 .. Len(t) /\ t[i] = s[i]
        BY <1>1, <1>3 DEF l
      <3> QED
        BY <3>1, <3>2 DEF DataOf
    <2>3. ASSUME m.kind = "data", m.id = c PROVE m.n \in DataOf(t, c)
      <3>1. l + 1 \in 1 .. Len(t)
        BY <1>1
      <3> QED
        BY <1>1, <2>3, <3>1 DEF DataOf
    <2> QED
      BY <2>1, <2>2, <2>3
  <1> QED
    BY <1>4, <1>5 DEF t

LEMMA AnswerLeaves ==
    ASSUME NEW s \in Seq(Answers), s # << >>, NEW c \in Calls, InStep(s, c)
    PROVE  /\ InStep(Tail(s), c)
           /\ DataOf(Tail(s), c) \subseteq DataOf(s, c)
           /\ Head(s).id = c /\ Head(s).kind = "data" =>
                Head(s).n \in DataOf(s, c) /\ \A x \in DataOf(Tail(s), c) : Head(s).n < x
  <1> DEFINE t == Tail(s)
  <1>1. /\ Len(t) = Len(s) - 1 /\ Len(s) \in Nat /\ Len(s) > 0 /\ s[1] = Head(s)
        /\ \A i \in 1 .. Len(t) : t[i] = s[i + 1]
    BY HeadTailProperties, EmptySeq
  <1> HIDE DEF t
  <1>2. /\ 1 \in 1 .. Len(s)
        /\ \A i \in 1 .. Len(t) : i + 1 \in 1 .. Len(s) /\ 1 < i + 1
    BY <1>1
  <1>3. InStep(t, c)
    <2>1. ASSUME NEW i \in 1 .. Len(t), NEW j \in 1 .. Len(t), i < j,
                 t[i].id = c, t[i].kind = "data", t[j].id = c, t[j].kind = "data"
          PROVE  t[i].n < t[j].n
      <3>1. i + 1 < j + 1
        BY <2>1
      <3> QED
        BY <1>1, <1>2, <2>1, <3>1 DEF InStep
    <2> QED
      BY <2>1 DEF InStep
  <1>4. ASSUME NEW x \in DataOf(t, c)
        PROVE  /\ x \in DataOf(s, c)
               /\ Head(s).id = c /\ Head(s).kind = "data" => Head(s).n < x
    <2>1. PICK i \in 1 .. Len(t) : t[i].id = c /\ t[i].kind = "data" /\ x = t[i].n
      BY DEF DataOf
    <2>2. i + 1 \in 1 .. Len(s) /\ 1 < i + 1 /\ t[i] = s[i + 1]
      BY <1>1, <1>2
    <2>3. x \in DataOf(s, c)
      BY <2>1, <2>2 DEF DataOf
    <2>4. Head(s).id = c /\ Head(s).kind = "data" => Head(s).n < x
      BY <1>1, <1>2, <2>1, <2>2 DEF InStep
    <2> QED
      BY <2>3, <2>4
  <1>5. Head(s).id = c /\ Head(s).kind = "data" => Head(s).n \in DataOf(s, c)
    BY <1>1, <1>2 DEF DataOf
  <1> QED
    BY <1>3, <1>4, <1>5 DEF t

(* The numbers are numbers.                                                *)
LEMMA Numbers ==
    ASSUME RpcTypeOK, NEW c \in Calls
    PROVE  /\ rpcCaller[c].read \in Seq(Nat) /\ respCh[c] \in Seq(Answers)
           /\ Queue \in Seq(Answers)
           /\ Reads(c) \subseteq Nat /\ DataOf(respCh[c], c) \subseteq Nat
           /\ DataOf(Queue, c) \subseteq Nat /\ Handed(c) \subseteq Nat
           /\ Latest(c) \in Int /\ handler[c].n \in Nat
  <1>1. rpcCaller[c].read \in Seq(Nat) /\ respCh[c] \in Seq(Answers)
    BY DEF RpcTypeOK, Callers
  <1>2. Queue \in Seq(Answers)
    BY ConcatProperties DEF RpcTypeOK, Queue
  <1>3. ASSUME NEW s \in Seq(Answers) PROVE DataOf(s, c) \subseteq Nat
    <2>1. \A i \in 1 .. Len(s) : s[i] \in Answers
      OBVIOUS
    <2> QED
      BY <2>1 DEF DataOf, Answers
  <1>4. Reads(c) \subseteq Nat
    BY <1>1 DEF Reads
  <1>5. Handed(c) \subseteq Nat
    BY DEF Handed, Sending, RpcTypeOK, Servers, Answers
  <1>6. Latest(c) \in Int /\ handler[c].n \in Nat
    BY DEF Latest, RpcTypeOK, Handlers
  <1> QED
    BY <1>1, <1>2, <1>3, <1>4, <1>5, <1>6

-----------------------------------------------------------------------------
(* A call whose answers move nowhere, or only get lost, keeps its order.   *)
LEMMA OrderKept ==
    ASSUME RpcTypeOK, RpcTypeOK', NEW c \in Calls, OrderOf(c),
           rpcCaller'[c].read = rpcCaller[c].read,
           \A j \in 1 .. Len(respCh'[c]) : respCh'[c][j].id = c,
           InStep(respCh'[c], c), DataOf(respCh'[c], c) \subseteq DataOf(respCh[c], c),
           InStep(Queue', c), DataOf(Queue', c) \subseteq DataOf(Queue, c),
           Handed(c)' \subseteq Handed(c),
           Latest(c) <= Latest(c)'
    PROVE  OrderOf(c)'
  <1>1. /\ Reads(c) \subseteq Nat /\ DataOf(respCh[c], c) \subseteq Nat
        /\ DataOf(Queue, c) \subseteq Nat /\ Handed(c) \subseteq Nat
        /\ Latest(c) \in Int /\ Latest(c)' \in Int
    <2>1. Latest(c)' \in Int
      BY DEF Latest, RpcTypeOK, Handlers
    <2> QED
      BY <2>1, Numbers
  <1>2. Reads(c)' = Reads(c) /\ (ReadsRise(c)' <=> ReadsRise(c))
    BY DEF Reads, ReadsRise
  <1>3. InLine(c)'
    <2>1. Follow(Reads(c), DataOf(respCh[c], c), Handed(c), DataOf(Queue, c), Latest(c))
      BY DEF OrderOf, InLine
    <2> DEFINE R == Reads(c)
               C == DataOf(respCh[c], c)
               H == Handed(c)
               Q == DataOf(Queue, c)
               D == DataOf(respCh'[c], c)
               G == Handed(c)'
               P == DataOf(Queue', c)
               old == Latest(c)
               new == Latest(c)'
    <2>2. /\ R \subseteq Nat /\ D \subseteq C /\ G \subseteq H /\ P \subseteq Q
          /\ C \subseteq Nat /\ H \subseteq Nat /\ Q \subseteq Nat
          /\ old \in Int /\ new \in Int /\ old <= new
      BY <1>1
    <2>3. Follow(R, C, H, Q, old)
      BY <2>1
    <2> HIDE DEF R, C, H, Q, D, G, P, old, new
    <2>4. Follow(R, D, G, P, new)
      BY <2>2, <2>3 DEF Follow, Below
    <2> QED
      BY <1>2, <2>4 DEF InLine, R, D, G, P, new
  <1> QED
    BY <1>2, <1>3 DEF OrderOf

(* A caller takes a response from its channel.                             *)
LEMMA ReadKeepsOrder ==
    ASSUME RpcTypeOK, RpcTypeOK', NEW c \in Calls, OrderOf(c), NextOfStream(c)
    PROVE  OrderOf(c)'
  <1> DEFINE m == Head(respCh[c])
             R == Reads(c)
             C == DataOf(respCh[c], c)
             H == Handed(c)
             Q == DataOf(Queue, c)
             max == Latest(c)
  <1>1. UNCHANGED <<inputCh, backlog, server, handler>>
    BY DEF NextOfStream, linkVars
  <1>2. Queue' = Queue /\ Handed(c)' = H /\ Latest(c)' = max
    BY <1>1 DEF Queue, Handed, Sending, Latest
  <1>3. /\ rpcCaller[c].read \in Seq(Nat) /\ respCh[c] \in Seq(Answers)
        /\ R \subseteq Nat /\ C \subseteq Nat /\ H \subseteq Nat /\ Q \subseteq Nat
        /\ max \in Int
    BY Numbers
  <1>4. rpcCaller \in Callers /\ respCh \in [Calls -> Seq(Answers)]
    BY DEF RpcTypeOK
  <1>5. CASE respCh[c] = << >>
    <2>1. rpcCaller'[c].read = rpcCaller[c].read /\ respCh' = respCh
      BY <1>4, <1>5 DEF NextOfStream, Ends, Callers
    <2> QED
      BY <1>2, <1>3, <2>1, OrderKept DEF OrderOf
  <1>6. CASE respCh[c] # << >>
    <2> DEFINE t == Tail(respCh[c])
               D == DataOf(t, c)
    <2>1. respCh'[c] = t /\ m.id = c
      <3>1. respCh'[c] = t
        BY <1>4, <1>6 DEF NextOfStream
      <3>2. 1 \in 1 .. Len(respCh[c]) /\ m = respCh[c][1]
        BY <1>3, <1>6, EmptySeq, HeadTailProperties
      <3> QED
        BY <3>1, <3>2 DEF OrderOf
    <2>2. /\ InStep(t, c) /\ D \subseteq C
          /\ m.kind = "data" => m.n \in C /\ \A x \in D : m.n < x
      BY <1>3, <1>6, <2>1, AnswerLeaves DEF OrderOf
    <2>3. \A j \in 1 .. Len(respCh'[c]) : respCh'[c][j].id = c
      <3>1. \A j \in 1 .. Len(t) : j + 1 \in 1 .. Len(respCh[c]) /\ t[j] = respCh[c][j + 1]
        BY <1>3, <1>6, HeadTailProperties, EmptySeq
      <3> QED
        BY <2>1, <3>1 DEF OrderOf
    <2>4. CASE m.kind # "data"
      <3>1. rpcCaller'[c].read = rpcCaller[c].read
        BY <1>4, <1>6, <2>4 DEF NextOfStream, Ends, Callers
      <3>2. /\ InStep(respCh'[c], c) /\ DataOf(respCh'[c], c) \subseteq DataOf(respCh[c], c)
        BY <2>1, <2>2
      <3>3. InStep(Queue', c) /\ DataOf(Queue', c) \subseteq DataOf(Queue, c)
        BY <1>2 DEF OrderOf
      <3>4. Handed(c)' \subseteq Handed(c) /\ Latest(c) <= Latest(c)'
        BY <1>2, <1>3
      <3> HIDE DEF t, D, m, R, C, H, Q, max
      <3> QED
        BY <2>3, <3>1, <3>2, <3>3, <3>4, OrderKept
    <2>5. CASE m.kind = "data"
      <3> DEFINE r == rpcCaller[c].read
                 l == Len(r)
                 n == m.n
      <3>1. rpcCaller'[c].read = Append(r, n)
        BY <1>4, <1>6, <2>5 DEF NextOfStream, Callers
      <3>2. n \in C /\ (\A x \in D : n < x) /\ n \in Nat
        BY <1>3, <2>2, <2>5
      <3>3. Follow(R, C, H, Q, max) /\ ReadsRise(c)
        BY DEF OrderOf, InLine
      <3>4. r \in Seq(Nat)
        BY <1>3
      <3> HIDE DEF n, r
      <3>5. /\ rpcCaller'[c].read = Append(r, n)
            /\ Len(Append(r, n)) = l + 1 /\ l \in Nat /\ Append(r, n)[l + 1] = n
            /\ \A i \in 1 .. l : Append(r, n)[i] = r[i]
            /\ DOMAIN Append(r, n) = 1 .. l + 1 /\ DOMAIN r = 1 .. l
        BY <3>1, <3>2, <3>4
      <3>6. \A i \in 1 .. l : r[i] \in R /\ r[i] < n
        BY <3>2, <3>3 DEF Reads, Follow, Below, r
      <3>7. ReadsRise(c)'
        <4>1. ASSUME NEW i \in 1 .. l + 1, NEW j \in 1 .. l + 1, i < j
              PROVE  Append(r, n)[i] < Append(r, n)[j]
          <5>1. i \in 1 .. l /\ (j \in 1 .. l \/ j = l + 1)
            BY <3>5, <4>1
          <5>2. CASE j \in 1 .. l
            <6>1. r[i] < r[j]
              BY <3>3, <3>5, <4>1, <5>1, <5>2 DEF ReadsRise, r
            <6> QED
              BY <3>5, <5>1, <5>2, <6>1
          <5>3. CASE j = l + 1
            BY <3>5, <3>6, <5>1, <5>3
          <5> QED
            BY <5>1, <5>2, <5>3
        <4> QED
          BY <3>5, <4>1 DEF ReadsRise
      <3>8. Reads(c)' = R \cup {n}
        <4>1. Reads(c)' = {Append(r, n)[i] : i \in 1 .. l + 1}
          BY <3>5 DEF Reads
        <4>2. R = {r[i] : i \in 1 .. l}
          BY DEF Reads, r
        <4>3. \A i \in 1 .. l + 1 : i \in 1 .. l \/ i = l + 1
          BY <3>5
        <4>4. l + 1 \in 1 .. l + 1 /\ \A i \in 1 .. l : i \in 1 .. l + 1
          BY <3>5
        <4> HIDE DEF R
        <4> QED
          BY <3>5, <4>1, <4>2, <4>3, <4>4
      <3>9. D \subseteq C
        BY <2>2
      <3>10. Follow(R \cup {n}, D, H, Q, max)
        <4> HIDE DEF R, C, H, Q, D, max
        <4> QED
          BY <1>3, <3>2, <3>3, <3>9 DEF Follow, Below
      <3>11. InLine(c)'
        BY <1>2, <2>1, <3>8, <3>10 DEF InLine
      <3> QED
        BY <1>2, <2>1, <2>2, <2>3, <3>7, <3>11 DEF OrderOf
    <2> QED
      BY <2>4, <2>5
  <1> QED
    BY <1>5, <1>6

(* A call of which channel and queue stay as they are.                     *)
LEMMA OrderStill ==
    ASSUME RpcTypeOK, RpcTypeOK', NEW c \in Calls, OrderOf(c),
           rpcCaller'[c].read = rpcCaller[c].read, respCh'[c] = respCh[c], Queue' = Queue,
           Handed(c)' \subseteq Handed(c), Latest(c) <= Latest(c)'
    PROVE  OrderOf(c)'
  <1>1. InStep(respCh'[c], c) /\ DataOf(respCh'[c], c) \subseteq DataOf(respCh[c], c)
    BY DEF OrderOf
  <1>2. InStep(Queue', c) /\ DataOf(Queue', c) \subseteq DataOf(Queue, c)
    BY DEF OrderOf
  <1>3. \A j \in 1 .. Len(respCh'[c]) : respCh'[c][j].id = c
    BY DEF OrderOf
  <1> QED
    BY <1>1, <1>2, <1>3, OrderKept

(* The callers and the timers.                                             *)
LEMMA CallersKeepOrder ==
    ASSUME RpcInv, RpcTypeOK', OrderInv, NEW c \in Calls,
           \/ Call(c) \/ RequestTimesOut(c) \/ ResponseDone(c) \/ NextOfStream(c)
           \/ NextOfCall(c) \/ CallExpires(c) \/ TimerReports(c)
    PROVE  OrderInv'
  <1> USE DEF At, Ends, Unregister, linkVars, endpointVars
  <1>1. UNCHANGED <<inputCh, backlog, server, handler>>
    BY DEF Call, RequestTimesOut, ResponseDone, NextOfStream, NextOfCall, CallExpires, TimerReports
  <1>2. /\ Queue' = Queue
        /\ \A d \in Calls : Handed(d)' \subseteq Handed(d) /\ Latest(d) <= Latest(d)'
    <2>1. RpcTypeOK
      BY DEF RpcInv
    <2>2. \A d \in Calls : Latest(d) \in Int
      BY <2>1, Numbers
    <2>3. \A d \in Calls : Handed(d)' = Handed(d) /\ Latest(d)' = Latest(d)
      BY <1>1 DEF Handed, Sending, Latest
    <2>4. \A d \in Calls : Latest(d) <= Latest(d)
      BY <2>2
    <2> QED
      BY <1>1, <2>3, <2>4 DEF Queue
  <1>3. rpcCaller \in Callers /\ respCh \in [Calls -> Seq(Answers)] /\ RpcTypeOK
    BY DEF RpcInv, RpcTypeOK
  <1>4. ASSUME NEW d \in Calls, d # c PROVE OrderOf(d)'
    <2>1. rpcCaller'[d].read = rpcCaller[d].read
      BY <1>3, <1>4 DEF Callers,
         Call, RequestTimesOut, ResponseDone, NextOfStream, NextOfCall, CallExpires, TimerReports
    <2>2. respCh'[d] = respCh[d]
      BY <1>3, <1>4 DEF
         Call, RequestTimesOut, ResponseDone, NextOfStream, NextOfCall, CallExpires, TimerReports
    <2>3. OrderOf(d)
      BY DEF OrderInv
    <2> QED
      BY <1>2, <1>3, <2>1, <2>2, <2>3, OrderStill
  <1>5. OrderOf(c)'
    <2>0. OrderOf(c)
      BY DEF OrderInv
    <2>1. CASE NextOfStream(c)
      BY <1>3, <2>0, <2>1, ReadKeepsOrder
    <2>2. CASE ~NextOfStream(c)
      <3>1. rpcCaller'[c].read = rpcCaller[c].read
        BY <1>3, <2>2 DEF Callers,
           Call, RequestTimesOut, ResponseDone, NextOfCall, CallExpires, TimerReports
      <3>2. CASE respCh'[c] = respCh[c]
        BY <1>2, <1>3, <2>0, <3>1, <3>2, OrderStill
      <3>3. CASE respCh'[c] # respCh[c]
        <4>1. respCh[c] # << >> /\ respCh'[c] = Tail(respCh[c])
          BY <1>3, <2>2, <3>3 DEF
             Call, RequestTimesOut, ResponseDone, NextOfCall, CallExpires, TimerReports
        <4>2. respCh[c] \in Seq(Answers)
          BY <1>3
        <4>3. InStep(respCh'[c], c) /\ DataOf(respCh'[c], c) \subseteq DataOf(respCh[c], c)
          BY <2>0, <4>1, <4>2, AnswerLeaves DEF OrderOf
        <4>4. \A j \in 1 .. Len(respCh'[c]) : respCh'[c][j].id = c
          <5>1. \A j \in 1 .. Len(Tail(respCh[c])) :
                   j + 1 \in 1 .. Len(respCh[c]) /\ Tail(respCh[c])[j] = respCh[c][j + 1]
            BY <4>1, <4>2, HeadTailProperties, EmptySeq
          <5> QED
            BY <2>0, <4>1, <5>1 DEF OrderOf
        <4>5. InStep(Queue', c) /\ DataOf(Queue', c) \subseteq DataOf(Queue, c)
          BY <1>2, <2>0 DEF OrderOf
        <4> QED
          BY <1>2, <1>3, <2>0, <3>1, <4>3, <4>4, <4>5, OrderKept
      <3> QED
        BY <3>2, <3>3
    <2> QED
      BY <2>1, <2>2
  <1> QED
    BY <1>4, <1>5 DEF OrderInv

(* An answer to the call joins its channel.                                *)
LEMMA ChannelGains ==
    ASSUME RpcTypeOK, NEW c \in Calls, NEW m \in Answers, m.id = c, OrderOf(c),
           m.kind = "data" => \A x \in DataOf(respCh[c], c) : x < m.n,
           respCh'[c] = Append(respCh[c], m)
    PROVE  /\ InStep(respCh'[c], c)
           /\ m.kind # "data" => DataOf(respCh'[c], c) = DataOf(respCh[c], c)
           /\ m.kind = "data" => DataOf(respCh'[c], c) = DataOf(respCh[c], c) \cup {m.n}
           /\ \A j \in 1 .. Len(respCh'[c]) : respCh'[c][j].id = c
  <1>1. respCh[c] \in Seq(Answers) /\ InStep(respCh[c], c)
    BY DEF RpcTypeOK, OrderOf
  <1>2. /\ InStep(respCh'[c], c)
        /\ DataOf(respCh'[c], c) =
             DataOf(respCh[c], c) \cup (IF m.kind = "data" /\ m.id = c THEN {m.n} ELSE {})
    BY <1>1, AnswerJoins
  <1>3. \A j \in 1 .. Len(respCh'[c]) : respCh'[c][j].id = c
    <2>1. /\ Len(respCh'[c]) = Len(respCh[c]) + 1 /\ Len(respCh[c]) \in Nat
          /\ respCh'[c][Len(respCh[c]) + 1] = m
          /\ \A j \in 1 .. Len(respCh[c]) : respCh'[c][j] = respCh[c][j]
      BY <1>1, AppendProperties
    <2>2. \A j \in 1 .. Len(respCh[c]) : respCh[c][j].id = c
      BY DEF OrderOf
    <2> QED
      BY <2>1, <2>2
  <1> QED
    BY <1>2, <1>3

(* runServer takes the first of the queue.                                 *)
LEMMA ReceiveKeepsOrder ==
    ASSUME RpcInv, RpcTypeOK', NEW c \in Calls, OrderOf(c), ServerReceives
    PROVE  OrderOf(c)'
  <1> DEFINE m == Queue[1]
  <1>0. RpcTypeOK
    BY DEF RpcInv
  <1>1. /\ UNCHANGED <<rpcCaller, respCh, handler, backlog>>
        /\ inputCh # << >> /\ inputCh' = Tail(inputCh)
        /\ server.at = "idle"
        /\ \/ server' = server
           \/ server' = [at |-> "sending", answer |-> Head(inputCh)]
    BY DEF ServerReceives
  <1>2. /\ Queue # << >> /\ Queue \in Seq(Answers) /\ m = Head(inputCh) /\ Queue' = Tail(Queue)
    BY <1>0, <1>1, ReceiveQueues
  <1>3. m = Head(Queue)
    BY <1>2, HeadTailProperties
  <1>4. /\ InStep(Queue', c) /\ DataOf(Queue', c) \subseteq DataOf(Queue, c)
        /\ m.id = c /\ m.kind = "data" =>
             m.n \in DataOf(Queue, c) /\ \A x \in DataOf(Queue', c) : m.n < x
    BY <1>2, <1>3, AnswerLeaves DEF OrderOf
  <1>5. Handed(c)' = {} \/ (m.id = c /\ m.kind = "data" /\ Handed(c)' = {m.n})
    BY <1>1, <1>2 DEF Handed, Sending
  <1>6. rpcCaller'[c].read = rpcCaller[c].read /\ respCh'[c] = respCh[c] /\ Latest(c)' = Latest(c)
    BY <1>1 DEF Latest
  <1>7. /\ Reads(c) \subseteq Nat /\ DataOf(respCh[c], c) \subseteq Nat
        /\ DataOf(Queue, c) \subseteq Nat /\ Handed(c) \subseteq Nat /\ Latest(c) \in Int
    BY <1>0, Numbers
  <1>8. CASE Handed(c)' = {}
    <2>1. InStep(respCh'[c], c) /\ DataOf(respCh'[c], c) \subseteq DataOf(respCh[c], c)
      BY <1>6 DEF OrderOf
    <2>2. \A j \in 1 .. Len(respCh'[c]) : respCh'[c][j].id = c
      BY <1>6 DEF OrderOf
    <2>3. Handed(c)' \subseteq Handed(c) /\ Latest(c) <= Latest(c)'
      BY <1>6, <1>7, <1>8
    <2> QED
      BY <1>0, <1>4, <1>6, <2>1, <2>2, <2>3, OrderKept
  <1>9. CASE m.id = c /\ m.kind = "data" /\ Handed(c)' = {m.n}
    <2> DEFINE R == Reads(c)
               C == DataOf(respCh[c], c)
               H == Handed(c)
               Q == DataOf(Queue, c)
               P == DataOf(Queue', c)
               max == Latest(c)
               n == m.n
    <2>1. Follow(R, C, H, Q, max)
      BY DEF OrderOf, InLine
    <2>2. n \in Q /\ (\A x \in P : n < x) /\ P \subseteq Q
      BY <1>4, <1>9
    <2>3. R \subseteq Nat /\ C \subseteq Nat /\ Q \subseteq Nat /\ max \in Int
      BY <1>7
    <2> HIDE DEF m, n, R, C, H, Q, P, max
    <2>4. Follow(R, C, {n}, P, max)
      BY <2>1, <2>2, <2>3 DEF Follow, Below
    <2>5. Reads(c)' = R /\ DataOf(respCh'[c], c) = C /\ Handed(c)' = {n} /\ Latest(c)' = max
      BY <1>6, <1>9 DEF Reads, R, C, n, max
    <2>6. InLine(c)'
      BY <2>4, <2>5 DEF InLine, P
    <2>7. ReadsRise(c)' /\ InStep(respCh'[c], c) /\ \A j \in 1 .. Len(respCh'[c]) : respCh'[c][j].id = c
      BY <1>6 DEF OrderOf, ReadsRise
    <2> QED
      BY <1>4, <2>6, <2>7 DEF OrderOf
  <1> QED
    BY <1>5, <1>8, <1>9

(* runServer passes on the answer it holds.                                *)
LEMMA SendKeepsOrder ==
    ASSUME RpcInv, RpcTypeOK', NEW c \in Calls, OrderOf(c), ServerSends
    PROVE  OrderOf(c)'
  <1> DEFINE m == server.answer
  <1>0. RpcTypeOK /\ respCh \in [Calls -> Seq(Answers)] /\ server \in Servers
    BY DEF RpcInv, RpcTypeOK
  <1>1. /\ UNCHANGED <<rpcCaller, handler, inputCh, backlog>>
        /\ server.at \in {"sending", "blocked"}
        /\ respCh' = [respCh EXCEPT ![m.id] = Append(@, m)]
        /\ server'.at \in {"idle", "unregister"}
    BY <1>0 DEF ServerSends, linkVars, Servers
  <1>2. m \in Answers /\ m.id \in Calls
    BY <1>0, <1>1 DEF RpcTypeOK, Answers
  <1>3. Queue' = Queue /\ Handed(c)' = {} /\ Latest(c)' = Latest(c)
    BY <1>1 DEF Queue, Handed, Sending, Latest
  <1>4. rpcCaller'[c].read = rpcCaller[c].read
    BY <1>1
  <1>5. /\ Reads(c) \subseteq Nat /\ DataOf(respCh[c], c) \subseteq Nat
        /\ DataOf(Queue, c) \subseteq Nat /\ Handed(c) \subseteq Nat /\ Latest(c) \in Int
    BY <1>0, Numbers
  <1>6. Handed(c)' \subseteq Handed(c) /\ Latest(c) <= Latest(c)'
    BY <1>3, <1>5
  <1> HIDE DEF m
  <1>7. CASE m.id # c
    <2>1. respCh'[c] = respCh[c]
      BY <1>0, <1>1, <1>7
    <2> QED
      BY <1>0, <1>3, <1>4, <1>6, <2>1, OrderStill
  <1>8. CASE m.id = c /\ m.kind # "data"
    <2>1. respCh'[c] = Append(respCh[c], m)
      BY <1>0, <1>1, <1>8
    <2>2. /\ InStep(respCh'[c], c) /\ DataOf(respCh'[c], c) = DataOf(respCh[c], c)
          /\ \A j \in 1 .. Len(respCh'[c]) : respCh'[c][j].id = c
      BY <1>0, <1>2, <1>8, <2>1, ChannelGains
    <2>3. DataOf(respCh'[c], c) \subseteq DataOf(respCh[c], c)
      BY <2>2
    <2>4. InStep(Queue', c) /\ DataOf(Queue', c) \subseteq DataOf(Queue, c)
      BY <1>3 DEF OrderOf
    <2> QED
      BY <1>0, <1>4, <1>6, <2>2, <2>3, <2>4, OrderKept
  <1>9. CASE m.id = c /\ m.kind = "data"
    <2> DEFINE R == Reads(c)
               C == DataOf(respCh[c], c)
               H == Handed(c)
               Q == DataOf(Queue, c)
               max == Latest(c)
               n == m.n
    <2>1. respCh'[c] = Append(respCh[c], m)
      BY <1>0, <1>1, <1>9
    <2>2. Follow(R, C, H, Q, max)
      BY DEF OrderOf, InLine
    <2>3. H = {n}
      BY <1>1, <1>9 DEF Handed, Sending, m
    <2>4. \A x \in C : x < n
      <3> HIDE DEF R, C, H, Q, max, n
      <3> QED
        BY <2>2, <2>3 DEF Follow, Below
    <2>5. /\ InStep(respCh'[c], c) /\ DataOf(respCh'[c], c) = C \cup {n}
          /\ \A j \in 1 .. Len(respCh'[c]) : respCh'[c][j].id = c
      BY <1>0, <1>2, <1>9, <2>1, <2>4, ChannelGains
    <2>6. Follow(R, C \cup {n}, {}, Q, max)
      <3>1. R \subseteq Nat /\ C \subseteq Nat /\ Q \subseteq Nat /\ H \subseteq Nat /\ max \in Int
        BY <1>5
      <3> HIDE DEF R, C, H, Q, max, n
      <3> QED
        BY <2>2, <2>3, <2>4, <3>1 DEF Follow, Below
    <2>7. Reads(c)' = R /\ DataOf(Queue', c) = Q
      BY <1>3, <1>4 DEF Reads
    <2>8. InLine(c)'
      BY <1>3, <2>5, <2>6, <2>7 DEF InLine
    <2>9. ReadsRise(c)' /\ InStep(Queue', c)
      BY <1>3, <1>4 DEF OrderOf, ReadsRise
    <2> QED
      BY <2>5, <2>8, <2>9 DEF OrderOf
  <1> QED
    BY <1>7, <1>8, <1>9

(* runServer's steps, and the router's.                                    *)
LEMMA ServersKeepOrder ==
    ASSUME RpcInv, RpcTypeOK', OrderInv, ServerTimesOut \/ ServerStep \/ BacklogRound
    PROVE  OrderInv'
  <1> SUFFICES ASSUME NEW c \in Calls PROVE OrderOf(c)'
    BY DEF OrderInv
  <1>0. /\ OrderOf(c) /\ RpcTypeOK /\ Latest(c) \in Int
        /\ respCh \in [Calls -> Seq(Answers)] /\ server \in Servers
    BY Numbers DEF OrderInv, RpcInv, RpcTypeOK
  <1>1. UNCHANGED <<handler, rpcCaller>>
    BY DEF ServerTimesOut, ServerStep, ServerReceives, ServerSends, ServerBlocks, ServerGivesUp,
           ServerUnregisters, BacklogRound, endpointVars
  <1>2. rpcCaller'[c].read = rpcCaller[c].read /\ Latest(c)' = Latest(c) /\ Latest(c) <= Latest(c)'
    BY <1>0, <1>1 DEF Latest
  <1>3. CASE ServerTimesOut
    <2>1. Queue' = Queue /\ Handed(c)' \subseteq Handed(c)
      BY <1>3 DEF ServerTimesOut, linkVars, Queue, Handed, Sending
    <2> DEFINE m == Answer(c, "error", 0)
    <2>2. m \in Answers /\ m.id = c /\ m.kind # "data"
      BY DEF Answer, Answers
    <2>3. respCh'[c] = respCh[c] \/ respCh'[c] = Append(respCh[c], m)
      BY <1>0, <1>3 DEF ServerTimesOut
    <2> HIDE DEF m
    <2>4. CASE respCh'[c] = respCh[c]
      BY <1>0, <1>2, <2>1, <2>4, OrderStill
    <2>5. CASE respCh'[c] = Append(respCh[c], m)
      <3>1. /\ InStep(respCh'[c], c) /\ DataOf(respCh'[c], c) = DataOf(respCh[c], c)
            /\ \A j \in 1 .. Len(respCh'[c]) : respCh'[c][j].id = c
        BY <1>0, <2>2, <2>5, ChannelGains
      <3>2. DataOf(respCh'[c], c) \subseteq DataOf(respCh[c], c)
        BY <3>1
      <3>3. InStep(Queue', c) /\ DataOf(Queue', c) \subseteq DataOf(Queue, c)
        BY <1>0, <2>1 DEF OrderOf
      <3> QED
        BY <1>0, <1>2, <2>1, <3>1, <3>2, <3>3, OrderKept
    <2> QED
      BY <2>3, <2>4, <2>5
  <1>4. CASE ServerReceives
    BY <1>0, <1>4, ReceiveKeepsOrder
  <1>5. CASE ServerSends
    BY <1>0, <1>5, SendKeepsOrder
  <1>6. CASE ServerBlocks \/ ServerGivesUp \/ ServerUnregisters
    <2>1. Queue' = Queue /\ respCh'[c] = respCh[c]
      BY <1>6 DEF ServerBlocks, ServerGivesUp, ServerUnregisters, linkVars, Queue
    <2>2. Handed(c)' \subseteq Handed(c)
      BY <1>0, <1>6 DEF ServerBlocks, ServerGivesUp, ServerUnregisters, Servers, Handed, Sending
    <2> QED
      BY <1>0, <1>2, <2>1, <2>2, OrderStill
  <1>7. CASE BacklogRound
    <2>1. Queue' = Queue
      BY <1>0, <1>7, BacklogRoundQueues
    <2>2. respCh'[c] = respCh[c] /\ Handed(c)' \subseteq Handed(c)
      BY <1>7 DEF BacklogRound, endpointVars, Handed, Sending
    <2> QED
      BY <1>0, <1>2, <2>1, <2>2, OrderStill
  <1> QED
    BY <1>3, <1>4, <1>5, <1>6, <1>7 DEF ServerStep

(* An answer that is no data of the call's joins the queue, or none does.  *)
LEMMA LinkKeepsOrder ==
    ASSUME RpcTypeOK, RpcTypeOK', NEW c \in Calls, OrderOf(c), NEW m \in Answers,
           SendToLink(m) \/ UNCHANGED linkVars,
           m.id # c \/ m.kind # "data",
           UNCHANGED <<respCh, server>>, rpcCaller'[c].read = rpcCaller[c].read,
           Latest(c) <= Latest(c)'
    PROVE  OrderOf(c)'
  <1>1. Handed(c)' \subseteq Handed(c) /\ respCh'[c] = respCh[c]
    BY DEF Handed, Sending
  <1>2. CASE UNCHANGED linkVars
    <2>1. Queue' = Queue
      BY <1>2 DEF linkVars, Queue
    <2> QED
      BY <1>1, <2>1, OrderStill
  <1>3. CASE SendToLink(m)
    <2>1. Queue' = Append(Queue, m) /\ Queue \in Seq(Answers)
      BY <1>3, SendToLinkQueues, Numbers
    <2>2. InStep(Queue, c)
      BY DEF OrderOf
    <2>3. InStep(Queue', c) /\ DataOf(Queue', c) \subseteq DataOf(Queue, c)
      BY <2>1, <2>2, AnswerJoins
    <2>4. InStep(respCh'[c], c) /\ DataOf(respCh'[c], c) \subseteq DataOf(respCh[c], c)
      BY <1>1 DEF OrderOf
    <2>5. \A j \in 1 .. Len(respCh'[c]) : respCh'[c][j].id = c
      BY <1>1 DEF OrderOf
    <2> QED
      BY <1>1, <2>3, <2>4, <2>5, OrderKept
  <1> QED
    BY <1>2, <1>3

(* A handler's next response is beyond all that came before it.            *)
LEMMA ResponseKeepsOrder ==
    ASSUME RpcTypeOK, RpcTypeOK', NEW c \in Calls, OrderOf(c), handler[c].work = "sending",
           SendToLink(Answer(c, "data", handler[c].n)),
           UNCHANGED <<respCh, server, rpcCaller>>,
           Latest(c)' = handler[c].n
    PROVE  OrderOf(c)'
  <1> DEFINE n == handler[c].n
             m == Answer(c, "data", n)
             R == Reads(c)
             C == DataOf(respCh[c], c)
             H == Handed(c)
             Q == DataOf(Queue, c)
             max == Latest(c)
  <1>1. /\ R \subseteq Nat /\ C \subseteq Nat /\ Q \subseteq Nat /\ H \subseteq Nat /\ n \in Nat
        /\ Queue \in Seq(Answers)
    BY Numbers
  <1>2. max = n - 1
    BY DEF Latest
  <1>3. Follow(R, C, H, Q, max)
    BY DEF OrderOf, InLine
  <1>4. m \in Answers /\ m.id = c /\ m.kind = "data" /\ m.n = n
    BY <1>1 DEF Answer, Answers
  <1>5. Queue' = Append(Queue, m)
    BY <1>4, SendToLinkQueues
  <1> HIDE DEF n, m, R, C, H, Q, max
  <1>6. \A x \in R \cup C \cup H \cup Q : x < n
    BY <1>1, <1>2, <1>3 DEF Follow
  <1>7. InStep(Queue, c) /\ \A x \in DataOf(Queue, c) : x < m.n
    BY <1>4, <1>6 DEF OrderOf, Q
  <1>8. InStep(Queue', c) /\ DataOf(Queue', c) = Q \cup {n}
    BY <1>1, <1>4, <1>5, <1>7, AnswerJoins DEF Q
  <1>9. Follow(R, C, H, Q \cup {n}, n)
    <2>1. /\ Below(R, C) /\ Below(R, H) /\ Below(R, Q)
          /\ Below(C, H) /\ Below(C, Q) /\ Below(H, Q)
      BY <1>3 DEF Follow
    <2>2. Below(R, Q \cup {n}) /\ Below(C, Q \cup {n}) /\ Below(H, Q \cup {n})
      BY <1>6, <2>1 DEF Below
    <2>3. \A x \in R \cup C \cup H \cup (Q \cup {n}) : x <= n
      BY <1>1, <1>6
    <2> QED
      BY <2>1, <2>2, <2>3 DEF Follow
  <1>10. Reads(c)' = R /\ DataOf(respCh'[c], c) = C /\ Handed(c)' = H
    BY DEF Reads, Handed, Sending, R, C, H
  <1>11. InLine(c)'
    BY <1>8, <1>9, <1>10 DEF InLine, n
  <1>12. /\ ReadsRise(c)' /\ InStep(respCh'[c], c)
         /\ \A j \in 1 .. Len(respCh'[c]) : respCh'[c][j].id = c
    BY DEF OrderOf, ReadsRise
  <1> QED
    BY <1>8, <1>11, <1>12 DEF OrderOf

(* The requests and the handlers.                                          *)
LEMMA HandlersKeepOrder ==
    ASSUME RpcInv, RpcTypeOK', OrderInv, NEW c \in Calls, RequestSent(c) \/ HandlerStep(c)
    PROVE  OrderInv'
  <1>0. /\ RpcTypeOK /\ handler \in Handlers /\ rpcCaller \in Callers
        /\ \A d \in Calls : Latest(d) \in Int /\ handler[d].n \in Nat
    BY Numbers DEF RpcInv, RpcTypeOK
  <1>1. UNCHANGED <<respCh, server>>
    BY DEF RequestSent, HandlerStep, endpointVars, HandlerAnswers, HandlerExpires,
           HandlerProduces, HandlerSends, HandlerReturns, HandlerEnds, WatcherFinalizes
  <1>2. \A d \in Calls : rpcCaller'[d].read = rpcCaller[d].read
    <2>1. CASE RequestSent(c)
      BY <1>0, <2>1 DEF RequestSent, At, Callers
    <2>2. CASE HandlerStep(c)
      BY <2>2 DEF HandlerStep, HandlerAnswers, HandlerExpires, HandlerProduces, HandlerSends,
             HandlerReturns, HandlerEnds, WatcherFinalizes
    <2> QED
      BY <2>1, <2>2
  <1>3. \A d \in Calls : d # c => handler'[d] = handler[d]
    BY <1>0 DEF Handlers, RequestSent, HandlerStep, HandlerAnswers, HandlerExpires,
           HandlerProduces, HandlerSends, HandlerReturns, HandlerEnds, WatcherFinalizes
  <1>4. \A d \in Calls : Latest(d) <= Latest(d)'
    <2>1. Latest(c) <= Latest(c)'
      <3>1. CASE HandlerProduces(c)
        <4>1. handler[c].work = "running" /\ handler'[c].work = "sending"
              /\ handler'[c].n = handler[c].n + 1
          BY <1>0, <3>1 DEF HandlerProduces, Handlers
        <4> QED
          BY <1>0, <4>1 DEF Latest
      <3>2. CASE ~HandlerProduces(c)
        <4>1. handler'[c].n = handler[c].n
          BY <1>0, <3>2 DEF Handlers, RequestSent, HandlerStep, HandlerAnswers, HandlerExpires,
             HandlerSends, HandlerReturns, HandlerEnds, WatcherFinalizes
        <4>2. handler'[c].work = "sending" => handler[c].work = "sending"
          BY <1>0, <3>2 DEF Handlers, RequestSent, HandlerStep, HandlerAnswers, HandlerExpires,
             HandlerSends, HandlerReturns, HandlerEnds, WatcherFinalizes
        <4> QED
          BY <1>0, <4>1, <4>2 DEF Latest
      <3> QED
        BY <3>1, <3>2
    <2>2. \A d \in Calls : d # c => Latest(d)' = Latest(d)
      BY <1>3 DEF Latest
    <2> QED
      BY <1>0, <2>1, <2>2
  <1>5. PICK m \in Answers : /\ m.id = c /\ (SendToLink(m) \/ UNCHANGED linkVars)
                             /\ m.kind = "data" /\ SendToLink(m) =>
                                  /\ HandlerSends(c) /\ handler[c].work = "sending"
                                  /\ SendToLink(Answer(c, "data", handler[c].n))
    <2>1. \A kind \in {"data", "last", "error"}, n \in Nat :
            /\ Answer(c, kind, n) \in Answers /\ Answer(c, kind, n).id = c
            /\ Answer(c, kind, n).kind = kind
      BY DEF Answer, Answers
    <2>2. CASE HandlerSends(c)
      <3> DEFINE a == Answer(c, "data", handler[c].n)
                 e == Answer(c, "error", 0)
      <3>1. a \in Answers /\ a.id = c /\ e \in Answers /\ e.id = c /\ e.kind # "data"
        BY <1>0, <2>1
      <3>2. (SendToLink(a) \/ UNCHANGED linkVars) /\ handler[c].work = "sending"
        BY <2>2 DEF HandlerSends, SendResponse
      <3> HIDE DEF e
      <3>3. CASE SendToLink(a)
        BY <2>2, <3>1, <3>2, <3>3
      <3>4. CASE UNCHANGED linkVars
        BY <3>1, <3>4
      <3> QED
        BY <3>2, <3>3, <3>4
    <2>3. CASE ~HandlerSends(c)
      <3>1. \E kind \in {"last", "error"} : SendToLink(Answer(c, kind, 0)) \/ UNCHANGED linkVars
        BY <2>3 DEF RequestSent, HandlerStep, SendResponse, HandlerAnswers, HandlerExpires,
           HandlerProduces, HandlerReturns, HandlerEnds, WatcherFinalizes
      <3>2. PICK kind \in {"last", "error"} :
              SendToLink(Answer(c, kind, 0)) \/ UNCHANGED linkVars
        BY <3>1
      <3> DEFINE a == Answer(c, kind, 0)
      <3>3. a \in Answers /\ a.id = c /\ a.kind # "data"
        BY <2>1
      <3> HIDE DEF a
      <3>4. SendToLink(a) \/ UNCHANGED linkVars
        BY <3>2 DEF a
      <3> QED
        BY <3>3, <3>4
    <2> QED
      BY <2>2, <2>3
  <1>6. ASSUME NEW d \in Calls, d # c PROVE OrderOf(d)'
    <2>1. OrderOf(d)
      BY DEF OrderInv
    <2> QED
      BY <1>0, <1>1, <1>2, <1>4, <1>5, <1>6, <2>1, LinkKeepsOrder
  <1>7. OrderOf(c)'
    <2>1. OrderOf(c)
      BY DEF OrderInv
    <2>2. CASE m.kind # "data" \/ UNCHANGED linkVars
      <3> DEFINE e == Answer(c, "error", 0)
      <3>1. e \in Answers /\ e.kind # "data"
        BY DEF Answer, Answers
      <3> HIDE DEF e
      <3>2. CASE m.kind # "data"
        BY <1>0, <1>1, <1>2, <1>4, <1>5, <2>1, <3>2, LinkKeepsOrder
      <3>3. CASE UNCHANGED linkVars
        BY <1>0, <1>1, <1>2, <1>4, <2>1, <3>1, <3>3, LinkKeepsOrder
      <3> QED
        BY <2>2, <3>2, <3>3
    <2>3. CASE m.kind = "data" /\ SendToLink(m)
      <3>1. HandlerSends(c) /\ handler[c].work = "sending"
            /\ SendToLink(Answer(c, "data", handler[c].n))
        BY <1>5, <2>3
      <3>2. rpcCaller' = rpcCaller /\ Latest(c)' = handler[c].n
        BY <1>0, <3>1 DEF HandlerSends, Handlers, Latest
      <3> QED
        BY <1>0, <1>1, <2>1, <3>1, <3>2, ResponseKeepsOrder
    <2> QED
      BY <1>5, <2>2, <2>3
  <1> QED
    BY <1>6, <1>7 DEF OrderInv

LEMMA OrderInitially == RpcInit => OrderInv
  <1> SUFFICES ASSUME RpcInit, NEW c \in Calls PROVE OrderOf(c)
    BY DEF OrderInv
  <1>1. rpcCaller[c].read = << >> /\ respCh[c] = << >> /\ server.at = "idle"
    BY DEF RpcInit
  <1>2. Queue = << >>
    BY ConcatEmptySeq DEF RpcInit, Queue
  <1>3. ASSUME NEW i PROVE ~(i \in 1 .. Len(<< >>)) /\ ~(i \in DOMAIN << >>)
    <2>1. Len(<< >>) = 0 /\ 1 .. 0 = {} /\ DOMAIN << >> = {}
      OBVIOUS
    <2> QED
      BY <2>1
  <1>4. Reads(c) = {} /\ DataOf(respCh[c], c) = {} /\ DataOf(Queue, c) = {} /\ Handed(c) = {}
    BY <1>1, <1>2, <1>3 DEF Reads, DataOf, Handed, Sending
  <1>5. InLine(c)
    BY <1>4 DEF InLine, Follow, Below
  <1>6. ReadsRise(c) /\ InStep(respCh[c], c) /\ InStep(Queue, c)
    BY <1>1, <1>2, <1>3 DEF ReadsRise, InStep
  <1> QED
    BY <1>1, <1>3, <1>5, <1>6 DEF OrderOf

(* A caller reads a stream's responses in the order its handler produced   *)
(* them, for any number of calls and any sizes of the channels: through    *)
(* the router's backlog, the endpoint's input, runServer and the call's    *)
(* channel, with handlers and callers that time out meanwhile.             *)
THEOREM StreamReadInOrder == RpcSpec => []ReadsInOrder
  <1>1. RpcInit => RpcInv /\ OrderInv
    BY RpcInitInv, OrderInitially
  <1>2. RpcInv /\ RpcInv' /\ OrderInv /\ [RpcNext]_rpcVars => OrderInv'
    <2> SUFFICES ASSUME RpcInv, RpcInv', OrderInv, [RpcNext]_rpcVars PROVE OrderInv'
      OBVIOUS
    <2>1. RpcTypeOK /\ RpcTypeOK'
      BY DEF RpcInv
    <2>2. CASE UNCHANGED rpcVars
      <3> SUFFICES ASSUME NEW c \in Calls PROVE OrderOf(c)'
        BY DEF OrderInv
      <3>1. /\ OrderOf(c) /\ rpcCaller'[c].read = rpcCaller[c].read /\ respCh'[c] = respCh[c]
            /\ Queue' = Queue /\ Handed(c)' \subseteq Handed(c) /\ Latest(c)' = Latest(c)
        BY <2>2 DEF rpcVars, OrderInv, Queue, Handed, Sending, Latest
      <3>2. Latest(c) <= Latest(c)'
        BY <2>1, <3>1, Numbers
      <3> QED
        BY <2>1, <3>1, <3>2, OrderStill
    <2>3. CASE RpcNext
      BY <2>1, <2>3, CallersKeepOrder, ServersKeepOrder, HandlersKeepOrder
      DEF RpcNext, CallerStep
    <2> QED
      BY <2>2, <2>3
  <1>3. OrderInv => ReadsInOrder
    BY DEF OrderInv, OrderOf, ReadsRise, ReadsInOrder
  <1> QED
    BY <1>1, <1>2, <1>3, RpcInvariant, PTL DEF RpcSpec
=============================================================================
