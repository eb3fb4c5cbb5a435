---------------------------- MODULE StreamManager ----------------------------
(***************************************************************************)
(* pkg/jobmanager/streammanager.go: a job's PTY output on its way to the   *)
(* client.  Three kinds of goroutine share it:                             *)
(*                                                                         *)
(*  - readLoop reads the PTY and writes the ring (CirBuf) WITHOUT sm.lock, *)
(*    then takes sm.lock only to signal drainCond, or waits on the ring's  *)
(*    channel when a sync window is full;                                  *)
(*  - senderLoop prepares one packet at a time under sm.lock, or waits on  *)
(*    drainCond;                                                           *)
(*  - RPC handlers (connect, disconnect, acks, window) run under sm.lock.  *)
(*                                                                         *)
(* sm.lock does not keep readLoop out of the ring, so a handler that calls *)
(* the ring several times is several steps here: clientPc and sendPc say   *)
(* where it stands, and the lock is held while they stand inside one.      *)
(***************************************************************************)
EXTENDS CirBuf

CONSTANTS
    CwndSize,    \* sm.cwndSize: most bytes in flight
    MaxRwnd,     \* bound on the windows a client announces
    MaxStreams   \* bound on the number of client connections

ASSUME CwndAssumption == CwndSize \in Nat \ {0}
ASSUME RwndAssumption == MaxRwnd \in Nat
ASSUME StreamsAssumption == MaxStreams \in Nat

VARIABLES
    \* fields of StreamManager
    streamId,            \* 0 until a client connects; one more per connection
    terminalEvent,       \* what ended the PTY: "none", "eof" or "error"
    eofPos,              \* where it ended
    rwndSize, connected, sentNotAcked, terminalEventSent,
    maxAckedSeq, maxAckedRwnd, terminalEventAcked, closed,
    \* readLoop: place, bytes of its chunk still to write, what Read returned
    readPc, pending, readErr,
    \* senderLoop: place, the buffer size it read, the packet it holds
    sendPc, available, pkt,
    \* the RPC handler inside sm.lock: place, arguments, head it read
    clientPc, reqSeq, reqRwnd, headRead,
    \* what the client of the current stream has been told and sent
    startSeq,            \* ClientConnected's return value
    packedTo             \* end of the last packet prepared, None before it

readVars == <<readPc, pending, readErr>>
sendVars == <<sendPc, available, pkt>>
localVars == <<reqSeq, reqRwnd, headRead>>
clientVars == <<clientPc, localVars>>
ackVars == <<maxAckedSeq, maxAckedRwnd>>
endVars == <<terminalEvent, eofPos, closed>>
wireVars == <<startSeq, packedTo>>
connVars == <<streamId, connected>>
flowVars == <<rwndSize, sentNotAcked, terminalEventSent, terminalEventAcked>>

smVars == <<cbVars, readVars, sendVars, clientVars, ackVars, endVars, wireVars,
            connVars, flowVars>>

None == -1
NoPkt == [kind |-> "none", id |-> 0, seq |-> 0, data |-> << >>]

LockFree == sendPc \notin {"sized", "peeked"} /\ clientPc = "idle"

(* The handler returns: the lock is released, its locals are gone.         *)
Return == clientPc' = "idle" /\ reqSeq' = 0 /\ reqRwnd' = 0 /\ headRead' = 0

(* drainCond.Signal: the only waiter is senderLoop, which starts over.     *)
Signal == sendPc' = IF sendPc = "wait" THEN "prepare" ELSE sendPc

EffectiveWindow(rwnd) == SmallerOf(CwndSize, rwnd)

SMInit ==
    /\ CirBufInit
    /\ streamId = 0 /\ connected = FALSE
    /\ terminalEvent = "none" /\ eofPos = None /\ closed = FALSE
    /\ rwndSize = CwndSize /\ sentNotAcked = 0
    /\ terminalEventSent = FALSE /\ terminalEventAcked = FALSE
    /\ maxAckedSeq = 0 /\ maxAckedRwnd = 0
    /\ readPc = "detached" /\ pending = 0 /\ readErr = "none"
    /\ sendPc = "prepare" /\ available = 0 /\ pkt = NoPkt
    /\ clientPc = "idle" /\ reqSeq = 0 /\ reqRwnd = 0 /\ headRead = 0
    /\ startSeq = 0 /\ packedTo = None

-----------------------------------------------------------------------------
(* readLoop                                                                *)

AttachReader ==
    /\ LockFree
    /\ readPc = "detached"
    /\ readPc' = "check"
    /\ UNCHANGED <<cbVars, pending, readErr, sendVars, clientVars, ackVars,
                   endVars, wireVars, connVars, flowVars>>

CheckClosed ==
    /\ LockFree
    /\ readPc = "check"
    /\ readPc' = IF closed THEN "done" ELSE "read"
    /\ UNCHANGED <<cbVars, pending, readErr, sendVars, clientVars, ackVars,
                   endVars, wireVars, connVars, flowVars>>

AfterRead(err) == IF err = "none" THEN "check" ELSE "finish"

(* Read returns n bytes and possibly the end of the PTY; it never returns  *)
(* neither.                                                                *)
ReadPty(n, err) ==
    /\ readPc = "read"
    /\ n > 0 \/ err # "none"
    /\ totalSize + n <= MaxTotal
    /\ pending' = n
    /\ readErr' = err
    /\ readPc' = IF n > 0 THEN "write" ELSE AfterRead(err)
    /\ UNCHANGED <<cbVars, sendVars, clientVars, ackVars, endVars, wireVars,
                   connVars, flowVars>>

(* One WriteAvailable of what is left of the chunk, without sm.lock.  When *)
(* it registers the waiter the loop stays here, blocked on the channel.    *)
WriteChunk ==
    /\ readPc = "write"
    /\ WriteAvailable(pending)
    /\ pending' = pending - Accepted(pending)
    /\ readPc' = IF Accepted(pending) > 0 THEN "signal" ELSE "write"
    /\ UNCHANGED <<readErr, sendVars, clientVars, ackVars, endVars, wireVars,
                   connVars, flowVars>>

SignalWritten ==
    /\ LockFree
    /\ readPc = "signal"
    /\ Signal
    /\ readPc' = IF pending > 0 THEN "write" ELSE AfterRead(readErr)
    /\ UNCHANGED <<cbVars, pending, readErr, available, pkt, clientVars, ackVars,
                   endVars, wireVars, connVars, flowVars>>

(* handleEOF and handleError.                                              *)
HandleEnd ==
    /\ LockFree
    /\ readPc = "finish"
    /\ eofPos' = totalSize
    /\ terminalEvent' = readErr
    /\ Signal
    /\ readPc' = "done"
    /\ UNCHANGED <<cbVars, pending, readErr, available, pkt, clientVars, ackVars,
                   closed, wireVars, connVars, flowVars>>

-----------------------------------------------------------------------------
(* senderLoop and prepareNextPacket                                        *)

(* prepareNextPacket takes sm.lock and reads the ring's size ...           *)
ReadBufferSize ==
    /\ LockFree
    /\ sendPc = "prepare"
    /\ available' = count
    /\ sendPc' = "sized"
    /\ UNCHANGED <<cbVars, readVars, pkt, clientVars, ackVars, endVars, wireVars,
                   connVars, flowVars>>

AvailableToSend == EffectiveWindow(rwndSize) - sentNotAcked

PeekSize == SmallerOf(SmallerOf(AvailableToSend, MaxChunk), available)

PeekedAtHead == PeekDataAt(0, PeekSize)
Peeked == PeekDataAt(sentNotAcked, PeekSize)

TerminalReady == terminalEvent # "none" /\ ~terminalEventSent

AllSent == Peeked = << >>
AllAcked == available = 0

(* ... stops once the stream is closed or its end was acknowledged ...     *)
SenderStop ==
    /\ sendPc = "sized"
    /\ closed \/ terminalEventAcked
    /\ sendPc' = "done"
    /\ available' = 0
    /\ UNCHANGED <<cbVars, readVars, pkt, clientVars, ackVars, endVars,
                   wireVars, connVars, flowVars>>

(* ... waits when there is no client, nothing to send or no window ...     *)
SenderWait ==
    /\ sendPc = "sized"
    /\ ~closed /\ ~terminalEventAcked
    /\ \/ ~connected
       \/ AllAcked /\ ~TerminalReady
       \/ ~AllAcked /\ (AvailableToSend <= 0 \/ Peeked = << >>)
    /\ sendPc' = "wait"
    /\ available' = 0
    /\ UNCHANGED <<cbVars, readVars, pkt, clientVars, ackVars, endVars,
                   wireVars, connVars, flowVars>>

(* ... sends the end of the stream once everything before it was acked ... *)
PrepareTerminalPacket ==
    /\ sendPc = "sized"
    /\ ~closed /\ ~terminalEventAcked
    /\ connected
    /\ AllAcked /\ TerminalReady
    /\ pkt' = [kind |-> terminalEvent, id |-> streamId, seq |-> eofPos, data |-> << >>]
    /\ terminalEventSent' = TRUE
    /\ sendPc' = "send"
    /\ available' = 0
    /\ UNCHANGED <<cbVars, readVars, clientVars, ackVars, endVars,
                   wireVars, connVars, rwndSize, sentNotAcked, terminalEventAcked>>

(* ... or copies bytes out of the ring ...                                 *)
PeekPacket ==
    /\ sendPc = "sized"
    /\ ~closed /\ ~terminalEventAcked
    /\ connected
    /\ ~AllAcked
    /\ AvailableToSend > 0 /\ Peeked # << >>
    /\ pkt' = [kind |-> "data", id |-> streamId, seq |-> None, data |-> Peeked]
    /\ sendPc' = "peeked"
    /\ available' = 0
    /\ UNCHANGED <<cbVars, readVars, clientVars, ackVars, endVars,
                   wireVars, connVars, flowVars>>

(* ... and reads the ring again for the position it labels them with.      *)
LabelPacket ==
    /\ sendPc = "peeked"
    /\ pkt' = [pkt EXCEPT !.seq = HeadPos + sentNotAcked]
    /\ sentNotAcked' = sentNotAcked + Len(pkt.data)
    /\ packedTo' = HeadPos + sentNotAcked + Len(pkt.data)
    /\ sendPc' = "send"
    /\ UNCHANGED <<cbVars, readVars, available, clientVars, ackVars, endVars,
                   startSeq, connVars, rwndSize, terminalEventSent,
                   terminalEventAcked>>

(* SendData runs outside sm.lock, through the sender the packet was        *)
(* prepared for.                                                           *)
SendData ==
    /\ sendPc = "send"
    /\ pkt' = NoPkt
    /\ sendPc' = "prepare"
    /\ UNCHANGED <<cbVars, readVars, available, clientVars, ackVars, endVars,
                   wireVars, connVars, flowVars>>

-----------------------------------------------------------------------------
(* ClientConnected.  A ring call that readLoop can slip in front of starts *)
(* a new step; sm.lock is held from the first to the last.                 *)

(* The checks, and the ring's head.  Every error returns without a change. *)
ConnectReadHead(seq, rwnd) ==
    /\ LockFree
    /\ streamId < MaxStreams
    /\ ~closed /\ ~terminalEventAcked /\ ~connected
    /\ reqSeq' = seq /\ reqRwnd' = rwnd
    /\ headRead' = HeadPos
    /\ clientPc' = IF seq > HeadPos THEN "skip" ELSE "tune"
    /\ UNCHANGED <<cbVars, readVars, sendVars, ackVars, endVars, wireVars,
                   connVars, flowVars>>

(* A client ahead of the head has those bytes: they are consumed.  One     *)
(* ahead of the end is refused.                                            *)
ConnectSkip ==
    /\ clientPc = "skip"
    /\ IF reqSeq - headRead > count
       THEN Return /\ UNCHANGED cbVars
       ELSE /\ Consume(reqSeq - headRead)
            /\ clientPc' = "reread"
            /\ UNCHANGED localVars
    /\ UNCHANGED <<readVars, sendVars, ackVars, endVars, wireVars, connVars, flowVars>>

ConnectRereadHead ==
    /\ clientPc = "reread"
    /\ headRead' = HeadPos
    /\ clientPc' = "tune"
    /\ UNCHANGED <<cbVars, readVars, sendVars, reqSeq, reqRwnd, ackVars, endVars,
                   wireVars, connVars, flowVars>>

(* The connected ring: flow control within the smaller window.             *)
AsyncWindow(rwnd) == SetEffectiveWindow(FALSE, EffectiveWindow(rwnd))
ConnectedWindow(rwnd) == SetEffectiveWindow(TRUE, EffectiveWindow(rwnd))

ConnectFinish ==
    /\ clientPc = "tune"
    /\ streamId' = streamId + 1
    /\ connected' = TRUE
    /\ rwndSize' = reqRwnd
    /\ sentNotAcked' = 0
    /\ ConnectedWindow(reqRwnd)
    /\ Signal
    /\ startSeq' = IF reqSeq > headRead THEN reqSeq ELSE headRead
    /\ packedTo' = None
    /\ Return
    /\ UNCHANGED <<readVars, available, pkt, ackVars, endVars, terminalEventSent,
                   terminalEventAcked>>

(* The disconnected ring: the whole buffer, and the PTY is never held up.  *)
SyncRing == SetEffectiveWindow(TRUE, Size)
DisconnectedWindow == SetEffectiveWindow(FALSE, Size)

ClientDisconnected ==
    /\ LockFree
    /\ connected
    /\ connected' = FALSE
    /\ sentNotAcked' = 0
    /\ maxAckedSeq' = 0 /\ maxAckedRwnd' = 0
    /\ terminalEventSent' = (terminalEventSent /\ terminalEventAcked)
    /\ DisconnectedWindow
    /\ Signal
    /\ UNCHANGED <<readVars, available, pkt, clientVars, endVars, wireVars, streamId,
                   rwndSize, terminalEventAcked>>

-----------------------------------------------------------------------------
(* RecvAck, for an ack of the current stream; any other one is ignored.    *)

RecvFin ==
    /\ LockFree
    /\ connected
    /\ terminalEventSent /\ pkt = NoPkt   \* the client has the terminal packet
    /\ terminalEventAcked' = TRUE
    /\ Signal
    /\ UNCHANGED <<cbVars, readVars, available, pkt, clientVars, ackVars, endVars,
                   wireVars, connVars, rwndSize, sentNotAcked, terminalEventSent>>

Newer(seq, rwnd) ==
    \/ seq > maxAckedSeq
    \/ seq = maxAckedSeq /\ rwnd > maxAckedRwnd

WithinRing(acked) == acked >= 0 /\ acked <= count
WithinSent(acked) == acked >= 0 /\ acked <= sentNotAcked

UnreducedByAck(acked) == sentNotAcked
AfterAck(acked) == sentNotAcked - acked

(* An ack older than the newest one is dropped; a newer one that is before *)
(* the head or beyond what was sent only counts as seen.                   *)
RecvUselessAck(seq, rwnd) ==
    /\ LockFree
    /\ connected
    /\ Newer(seq, rwnd)
    /\ ~WithinSent(seq - HeadPos)
    /\ maxAckedSeq' = seq /\ maxAckedRwnd' = rwnd
    /\ UNCHANGED <<cbVars, readVars, sendVars, clientVars, endVars, wireVars,
                   connVars, flowVars>>

(* Acked bytes leave the ring, which may let readLoop in before the window *)
(* is set ...                                                              *)
RecvAckConsume(seq, rwnd) ==
    /\ LockFree
    /\ connected
    /\ Newer(seq, rwnd)
    /\ seq > HeadPos /\ WithinSent(seq - HeadPos)
    /\ maxAckedSeq' = seq /\ maxAckedRwnd' = rwnd
    /\ sentNotAcked' = AfterAck(seq - HeadPos)
    /\ Consume(seq - HeadPos)
    /\ reqRwnd' = rwnd
    /\ clientPc' = "ack"
    /\ UNCHANGED <<readVars, sendVars, reqSeq, headRead, endVars, wireVars, connVars,
                   rwndSize, terminalEventSent, terminalEventAcked>>

(* ... and then the window follows.                                        *)
RecvAckFinish ==
    /\ clientPc = "ack"
    /\ rwndSize' = reqRwnd
    /\ ConnectedWindow(reqRwnd)
    /\ Signal
    /\ Return
    /\ UNCHANGED <<readVars, available, pkt, ackVars, endVars, wireVars, connVars,
                   sentNotAcked, terminalEventSent, terminalEventAcked>>

(* An ack that only moves the window wakes the sender only if it grew.     *)
NeverWakes(rwnd) == FALSE
WindowGrew(rwnd) == rwnd > rwndSize

RecvWindow(seq, rwnd) ==
    /\ LockFree
    /\ connected
    /\ Newer(seq, rwnd)
    /\ seq = HeadPos
    /\ maxAckedSeq' = seq /\ maxAckedRwnd' = rwnd
    /\ rwndSize' = rwnd
    /\ ConnectedWindow(rwnd)
    /\ IF WindowGrew(rwnd) THEN Signal ELSE UNCHANGED sendPc
    /\ UNCHANGED <<readVars, available, pkt, clientVars, endVars, wireVars, connVars,
                   sentNotAcked, terminalEventSent, terminalEventAcked>>

(* SetRwndSize: StartStream opens the window a corked connection began with. *)
SetRwndSize(rwnd) ==
    /\ LockFree
    /\ connected
    /\ rwndSize' = rwnd
    /\ ConnectedWindow(rwnd)
    /\ Signal
    /\ UNCHANGED <<readVars, available, pkt, clientVars, ackVars, endVars, wireVars,
                   connVars, sentNotAcked, terminalEventSent, terminalEventAcked>>

Close ==
    /\ LockFree
    /\ closed' = TRUE
    /\ Signal
    /\ UNCHANGED <<cbVars, readVars, available, pkt, clientVars, ackVars,
                   terminalEvent, eofPos, wireVars, connVars, flowVars>>

-----------------------------------------------------------------------------
ReadLoop ==
    \/ CheckClosed
    \/ \E n \in 0 .. MaxChunk, err \in {"none", "eof", "error"} : ReadPty(n, err)
    \/ WriteChunk
    \/ SignalWritten
    \/ HandleEnd

SenderLoop ==
    \/ ReadBufferSize
    \/ SenderStop
    \/ SenderWait
    \/ PrepareTerminalPacket
    \/ PeekPacket
    \/ LabelPacket
    \/ SendData

Connect ==
    \/ \E seq \in 0 .. totalSize + 1, rwnd \in 0 .. MaxRwnd : ConnectReadHead(seq, rwnd)
    \/ ConnectSkip
    \/ ConnectRereadHead
    \/ ConnectFinish

(* Acks may be old, repeated, out of order, and even of bytes never sent.  *)
Ack ==
    \/ RecvFin
    \/ RecvAckFinish
    \/ \E seq \in 0 .. totalSize, rwnd \in 0 .. MaxRwnd :
           \/ RecvUselessAck(seq, rwnd)
           \/ RecvAckConsume(seq, rwnd)
           \/ RecvWindow(seq, rwnd)

SMNext ==
    \/ AttachReader
    \/ ReadLoop
    \/ SenderLoop
    \/ Connect
    \/ ClientDisconnected
    \/ Ack
    \/ \E rwnd \in 0 .. MaxRwnd : SetRwndSize(rwnd)
    \/ Close

SMSpec == SMInit /\ [][SMNext]_smVars

-----------------------------------------------------------------------------
SMTypeOK ==
    /\ streamId \in 0 .. MaxStreams
    /\ connected \in BOOLEAN
    /\ terminalEvent \in {"none", "eof", "error"}
    /\ eofPos \in Nat \cup {None}
    /\ rwndSize \in Nat /\ sentNotAcked \in Nat
    /\ terminalEventSent \in BOOLEAN /\ terminalEventAcked \in BOOLEAN
    /\ maxAckedSeq \in Nat /\ maxAckedRwnd \in Nat
    /\ closed \in BOOLEAN
    /\ readPc \in {"detached", "check", "read", "write", "signal", "finish", "done"}
    /\ pending \in 0 .. MaxChunk
    /\ readErr \in {"none", "eof", "error"}
    /\ sendPc \in {"prepare", "sized", "peeked", "send", "wait", "done"}
    /\ available \in 0 .. Size
    /\ pkt \in [kind : {"none", "data", "eof", "error"}, id : 0 .. MaxStreams,
                seq : Nat \cup {None}, data : Seq(Int)]
    /\ clientPc \in {"idle", "skip", "reread", "tune", "ack"}
    /\ reqSeq \in Nat /\ reqRwnd \in Nat /\ headRead \in Nat
    /\ startSeq \in Nat
    /\ packedTo \in Nat \cup {None}

(* A connected ring is in sync mode, and only a ring no client has ever    *)
(* used is so without a client: after a disconnect the PTY is read on and  *)
(* the oldest output gives way (streammanager.go:137, 186).  With          *)
(* NoStrandedWriter: a detached session's program is never held up.        *)
ModeFollowsClient ==
    /\ connected => syncMode
    /\ ~connected /\ streamId > 0 => ~syncMode /\ ~waiterChan

(* What was sent and not acked is still in the ring: the next packet is    *)
(* read right behind it, and a reconnect can replay it                     *)
(* (streammanager.go:225-234, 402-410).                                    *)
UnackedStillHeld == connected => sentNotAcked <= count

(* senderLoop sleeps only while there is nothing for it to do, or while    *)
(* the goroutine that gave it work is on its way to signal it: no ordering *)
(* of a write, an ack, a window change, a connect, the PTY's end and a     *)
(* close loses its wake-up (streammanager.go:138, 187, 245, 314-318, 333). *)
SenderHasWork ==
    \/ closed \/ terminalEventAcked
    \/ connected /\ count = 0 /\ TerminalReady
    \/ connected /\ sentNotAcked < count /\ AvailableToSend > 0

NoLostWakeup ==
    sendPc = "wait" /\ SenderHasWork => readPc = "signal" \/ clientPc = "ack"

(* A packet's bytes are the bytes at the position it claims, although the  *)
(* copy and the label are two calls of a ring that readLoop writes in      *)
(* between (streammanager.go:402, 409).                                    *)
PacketCarriesItsSeq ==
    sendPc = "send" /\ pkt.kind = "data" =>
        /\ pkt.data # << >>
        /\ \A i \in 1 .. Len(pkt.data) : pkt.data[i] = pkt.seq + i - 1

(* The end of the stream is announced only when every byte before it was   *)
(* acknowledged, and nothing follows it (streammanager.go:374-377, 419).   *)
TerminalIsLast ==
    terminalEventSent =>
        /\ eofPos = totalSize
        /\ connected => count = 0
        /\ readPc = "done"

(* Within one connection the packets follow one another without a hole and *)
(* without a repeat, whatever is acked in between                          *)
(* (streammanager.go:234, 409-410).                                        *)
PacketsContiguous ==
    [][sendPc = "peeked" /\ sendPc' = "send" /\ packedTo # None
         => pkt'.seq = packedTo]_smVars

(* While a client is connected a byte leaves the ring only because that    *)
(* client acknowledged it (streammanager.go:225-232; cirbuf.go:52, 78).    *)
OnlyAckedBytesLeave ==
    [][connected /\ connected' /\ totalSize' - count' > HeadPos
         => maxAckedSeq' = totalSize' - count']_smVars

(* A connection's first packet starts where ClientConnected said it would. *)
StartsWhereAnnounced ==
    [][sendPc = "peeked" /\ sendPc' = "send" /\ packedTo = None
         => pkt'.seq = startSeq]_smVars

-----------------------------------------------------------------------------
(* The inductive invariant: the ring's, the types, the properties above    *)
(* and what ties the places of the three goroutines to the state they      *)
(* share.                                                                  *)

(* sm.lock has one holder, which stands where its guards let it.           *)
LockHeldOnce ==
    /\ clientPc # "idle" => sendPc \notin {"sized", "peeked"}
    /\ clientPc \in {"skip", "reread", "tune"} =>
          ~connected /\ ~terminalEventAcked /\ streamId < MaxStreams
    /\ clientPc = "skip" => reqSeq > headRead
    /\ clientPc = "ack" => connected
    /\ sendPc = "peeked" => connected

(* What senderLoop read is stale only while readLoop is about to signal.   *)
ReadLoopState ==
    /\ count <= totalSize
    /\ readPc = "write" => pending > 0
    /\ sendPc = "sized" => available = count \/ readPc = "signal"
    /\ terminalEvent # "none" => readPc = "done" /\ eofPos = totalSize

TerminalState ==
    /\ terminalEventSent => terminalEvent # "none"
    /\ terminalEventAcked => terminalEventSent
    /\ terminalEventSent /\ ~connected => terminalEventAcked
    /\ terminalEventSent /\ connected => count = 0

(* The packet between copy and label, and the end of the last one.         *)
PacketState ==
    /\ sendPc = "peeked" =>
          /\ pkt.kind = "data"
          /\ Len(pkt.data) \in 1 .. count - sentNotAcked
          /\ \A i \in 1 .. Len(pkt.data) :
                 pkt.data[i] = HeadPos + sentNotAcked + i - 1
    /\ connected /\ packedTo # None => packedTo = HeadPos + sentNotAcked

SMInv ==
    /\ CirBufInv
    /\ SMTypeOK
    /\ LockHeldOnce
    /\ ReadLoopState
    /\ TerminalState
    /\ PacketState
    /\ ModeFollowsClient
    /\ UnackedStillHeld
    /\ NoLostWakeup
    /\ PacketCarriesItsSeq
=============================================================================
