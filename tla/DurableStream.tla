---------------------------- MODULE DurableStream ----------------------------
(***************************************************************************)
(* A durable job's output from its PTY to the job's file, across lost      *)
(* connections: the job manager's StreamManager and connection handlers    *)
(* (pkg/jobmanager), the link, the main server's Readers                   *)
(* (pkg/streamclient, module StreamReader), and the job controller's       *)
(* output loops and restartStreaming (pkg/jobcontroller).                  *)
(*                                                                         *)
(* Bytes are named by their stream position.  The StreamManager is taken   *)
(* here one handler or one packet at a time; how its goroutines interleave *)
(* inside them is the subject of module StreamManager.                     *)
(*                                                                         *)
(* Stream i runs on connection i: the first one is StartJob's, each later  *)
(* one belongs to a restartStreaming.                                      *)
(***************************************************************************)
EXTENDS StreamReader

CONSTANTS
    RingSize,    \* CirBufSize
    CwndSize,    \* CwndSize
    Chunk,       \* bytes per PTY read, per packet and per Read
    MaxTotal,    \* bound on the output's length
    MaxStreams,  \* bound on connections, the first included
    EndKinds,    \* how the PTY may end: "eof", "error"
    OldLoopDrains  \* TRUE: a reconnect finds the old output loop caught up

ASSUME SizesAssumption ==
    /\ RingSize \in Nat \ {0} /\ CwndSize \in Nat /\ Chunk \in Nat \ {0}
    /\ MaxTotal \in Nat /\ MaxStreams \in Nat \ {0}
ASSUME EndKindsAssumption == EndKinds \subseteq {"eof", "error"}
ASSUME DrainsAssumption == OldLoopDrains \in BOOLEAN

VARIABLES
    sm,        \* the job's StreamManager
    link,      \* the connection that is up, 0 for none
    data,      \* packets under way on it, oldest first
    acks,      \* acks under way on it, oldest first
    attached,  \* streams whose writer its broker on the job's side knows
    current,   \* jobStreamIds: the stream the job's output comes from
    readers,   \* the main server's Reader of each stream
    loops,     \* runOutputLoop of each stream
    ctl,       \* restartStreaming: place, its sequence numbers
    file,      \* the job's output file
    totalGap,  \* the file's total gap: bytes known to be lost
    streamDone, \* job.StreamDone
    late       \* history: a loop appended bytes after a restart had taken the
               \* file's length

vars == <<sm, link, data, acks, attached, current, readers, loops, ctl, file,
          totalGap, streamDone, late>>

Streams == 1 .. MaxStreams

Least(a, b) == IF a < b THEN a ELSE b
Greatest(a, b) == IF a > b THEN a ELSE b

-----------------------------------------------------------------------------
(* The StreamManager's handlers as functions of its state.                 *)

Held(s) == s.total - s.head
Window(s) == Least(Least(s.rwnd, CwndSize), RingSize)

ClientConnected(s, id, rwnd, seq) ==
    [s EXCEPT !.connected = TRUE, !.id = id, !.rwnd = rwnd, !.sent = 0,
              !.head = Greatest(@, seq)]

ClientDisconnected(s) ==
    [s EXCEPT !.connected = FALSE, !.sent = 0, !.ackSeq = 0, !.ackRwnd = 0,
              !.termSent = @ /\ s.termAcked]

SetRwndSize(s, rwnd) == [s EXCEPT !.rwnd = rwnd]

NewerSeqOnly(s, a) == a.seq > s.ackSeq
NewerAck(s, a) == a.seq > s.ackSeq \/ (a.seq = s.ackSeq /\ a.rwnd > s.ackRwnd)

(* RecvAck looks at Fin, and at nothing that tells a cancel from an ack.   *)
RecvAck(s, a) ==
    IF ~s.connected \/ a.id # s.id THEN s
    ELSE IF a.fin THEN [s EXCEPT !.termAcked = TRUE]
    ELSE IF ~NewerAck(s, a) THEN s
    ELSE LET t == [s EXCEPT !.ackSeq = a.seq, !.ackRwnd = a.rwnd]
             acked == a.seq - s.head
         IN  IF acked < 0 \/ acked > s.sent THEN t
             ELSE [t EXCEPT !.head = a.seq, !.sent = @ - acked, !.rwnd = a.rwnd]

-----------------------------------------------------------------------------
(* StartJob has connected stream 1 and started its output loop.            *)
Init ==
    /\ sm = [total |-> 0, head |-> 0, ended |-> "none", connected |-> TRUE, id |-> 1,
             rwnd |-> ReadWindow, sent |-> 0, termSent |-> FALSE,
             termAcked |-> FALSE, ackSeq |-> 0, ackRwnd |-> 0]
    /\ link = 1 /\ data = << >> /\ acks = << >>
    /\ attached = {1}
    /\ current = 1
    /\ readers = [i \in Streams |-> NewReader(i, 0)]
    /\ loops = [i \in Streams |->
                  [pc |-> IF i = 1 THEN "read" ELSE "none", bytes |-> << >>, err |-> "none"]]
    /\ ctl = [pc |-> "idle", seq |-> 0, rtn |-> 0]
    /\ file = << >> /\ totalGap = 0 /\ streamDone = FALSE /\ late = FALSE

(* Acks a Reader sends go to the job on whatever connection is up.         *)
Send(newAcks) == acks' = IF link = 0 THEN acks ELSE acks \o newAcks

-----------------------------------------------------------------------------
(* The job.                                                                *)

(* The PTY's reader writes n bytes: within the window of a connected       *)
(* stream, over the oldest bytes of a disconnected one.                    *)
PtyWrite(n) ==
    /\ sm.ended = "none"
    /\ sm.total + n <= MaxTotal
    /\ sm.connected => Held(sm) + n <= Window(sm)
    /\ sm' = [sm EXCEPT !.total = @ + n,
                        !.head = IF sm.connected THEN @
                                 ELSE Greatest(@, sm.total + n - RingSize)]
    /\ UNCHANGED <<link, data, acks, attached, current, readers, loops, ctl, file,
                   totalGap, streamDone, late>>

PtyEnd(kind) ==
    /\ sm.ended = "none"
    /\ sm' = [sm EXCEPT !.ended = kind]
    /\ UNCHANGED <<link, data, acks, attached, current, readers, loops, ctl, file,
                   totalGap, streamDone, late>>

(* A packet reaches the link only if its stream's connection is up.        *)
Transmit(p) == data' = IF link = sm.id THEN Append(data, p) ELSE data

WholeWindow(s) == Least(Least(Chunk, Window(s)), Held(s) - s.sent)
ToSend(s) == Least(Least(Chunk, Window(s) - s.sent), Held(s) - s.sent)

SendPacket ==
    /\ sm.connected /\ ~sm.termAcked
    /\ ToSend(sm) > 0
    /\ Transmit(DataPacket(sm.id, sm.head + sm.sent, ToSend(sm)))
    /\ sm' = [sm EXCEPT !.sent = @ + ToSend(sm)]
    /\ UNCHANGED <<link, acks, attached, current, readers, loops, ctl, file, totalGap,
                   streamDone, late>>

SendEnd ==
    /\ sm.connected /\ ~sm.termAcked
    /\ Held(sm) = 0
    /\ sm.ended # "none" /\ ~sm.termSent
    /\ Transmit(EndPacket(sm.ended, sm.id, sm.total))
    /\ sm' = [sm EXCEPT !.termSent = TRUE]
    /\ UNCHANGED <<link, acks, attached, current, readers, loops, ctl, file, totalGap,
                   streamDone, late>>

(* The job's broker hands an ack to the attached writer and detaches it    *)
(* after a fin or a cancel; an ack of any other stream is dropped.         *)
AckArrives ==
    /\ acks # << >>
    /\ LET a == Head(acks)
       IN  /\ sm' = IF a.id \in attached THEN RecvAck(sm, a) ELSE sm
           /\ attached' = IF a.fin \/ a.cancel THEN attached \ {a.id} ELSE attached
    /\ acks' = Tail(acks)
    /\ UNCHANGED <<link, data, current, readers, loops, ctl, file, totalGap, streamDone, late>>

-----------------------------------------------------------------------------
(* The main server.                                                        *)

(* Once a reader has sent its fin or cancel its broker forgets it, and     *)
(* answers its packets with a cancel, not more than one a second.          *)
ReaderNotFound(p) ==
    [id |-> p.id, seq |-> p.seq, fin |-> FALSE, cancel |-> TRUE, rwnd |-> 0]

PacketArrives ==
    /\ data # << >>
    /\ LET p == Head(data)
           out == RecvData(readers[p.id], p)
       IN  /\ readers' = [readers EXCEPT ![p.id] = out.reader]
           /\ \/ Send(out.acks)
              \/ Finished(readers[p.id]) /\ Send(<<ReaderNotFound(p)>>)
    /\ data' = Tail(data)
    /\ UNCHANGED <<sm, link, attached, current, loops, ctl, file, totalGap, streamDone, late>>

(* runOutputLoop: Read returns; a loop whose stream is no longer the       *)
(* current one closes its reader and exits ...                             *)
LoopRead(i) ==
    /\ loops[i].pc = "read"
    /\ Readable(readers[i])
    /\ LET r == readers[i]
           out == Read(r, Chunk)
           closed == CloseReader(out.reader)
       IN  IF i = current
           THEN /\ loops' = [loops EXCEPT ![i] =
                               [pc |-> "got", err |-> ReadError(r),
                                bytes |-> SubSeq(r.buffer, 1, ReadCount(r, Chunk))]]
                /\ readers' = [readers EXCEPT ![i] = out.reader]
                /\ Send(out.acks)
           ELSE /\ loops' = [loops EXCEPT ![i].pc = "dead"]
                /\ readers' = [readers EXCEPT ![i] = closed.reader]
                /\ Send(out.acks \o closed.acks)
    /\ UNCHANGED <<sm, link, data, attached, current, ctl, file, totalGap, streamDone, late>>

AppendsLate(i) == loops[i].bytes # << >> /\ (i # current \/ ctl.pc = "create")

(* ... otherwise it appends the bytes, and ends with the stream.           *)
LoopAppend(i) ==
    /\ loops[i].pc = "got"
    /\ file' = file \o loops[i].bytes
    /\ late' = (late \/ AppendsLate(i))
    /\ IF loops[i].err = "none"
       THEN /\ loops' = [loops EXCEPT ![i].pc = "read", ![i].bytes = << >>]
            /\ UNCHANGED <<readers, acks, streamDone>>
       ELSE /\ loops' = [loops EXCEPT ![i].pc = "dead", ![i].bytes = << >>]
            /\ streamDone' = TRUE
            /\ LET closed == CloseReader(readers[i])
               IN  /\ readers' = [readers EXCEPT ![i] = closed.reader]
                   /\ Send(closed.acks)
    /\ UNCHANGED <<sm, link, data, attached, current, ctl, totalGap>>

-----------------------------------------------------------------------------
(* Losing the connection and getting it back.                              *)

(* The connection is gone with what is under way on it, except the packets *)
(* the main server has already queued.  Nothing tells the StreamManager.   *)
LinkDrop ==
    /\ link # 0
    /\ link < MaxStreams
    /\ link' = 0
    /\ \E k \in 0 .. Len(data) : data' = SubSeq(data, 1, k)
    /\ acks' = << >>
    /\ attached' = {}
    /\ UNCHANGED <<sm, current, readers, loops, ctl, file, totalGap, streamDone, late>>

(* Output loops that have appended all the main server was sent.           *)
CaughtUp ==
    \A i \in Streams :
        /\ loops[i].pc # "got"
        /\ loops[i].pc = "read" =>
              /\ readers[i].buffer = << >>
              /\ \A k \in 1 .. Len(data) : data[k].id # i

(* doReconnectJob has a new connection to the job manager and restarts     *)
(* streaming.  The job manager's connection handler returns as soon as it  *)
(* has started its goroutines: the disconnect it defers finds another      *)
(* connection's client, or none.                                           *)
HandlerReturns(s, conn) == IF s.connected /\ s.id = conn THEN ClientDisconnected(s) ELSE s

Reconnect(conn) ==
    /\ link = 0
    /\ ctl.pc = "idle"
    /\ conn = current + 1
    /\ OldLoopDrains => CaughtUp
    /\ link' = conn
    /\ sm' = HandlerReturns(sm, conn)
    /\ ctl' = [ctl EXCEPT !.pc = "stat"]
    /\ UNCHANGED <<data, acks, attached, current, readers, loops, file, totalGap,
                   streamDone, late>>

(* restartStreaming: where the file and its gap say the stream stands.     *)
FiledOnly == Len(file)
FiledAndLost == Len(file) + totalGap

StatFile ==
    /\ ctl.pc = "stat"
    /\ ctl' = [ctl EXCEPT !.pc = "create", !.seq = FiledAndLost]
    /\ UNCHANGED <<sm, link, data, acks, attached, current, readers, loops, file,
                   totalGap, streamDone, late>>

(* A reader from there on, made the current one, and the prepare request.  *)
CreateReader ==
    /\ ctl.pc = "create"
    /\ readers' = [readers EXCEPT ![current + 1] = NewReader(current + 1, ctl.seq)]
    /\ current' = current + 1
    /\ ctl' = [ctl EXCEPT !.pc = "prepare"]
    /\ UNCHANGED <<sm, link, data, acks, attached, loops, file, totalGap, streamDone, late>>

(* JobManager.PrepareConnect: nothing to connect to once the end was       *)
(* acknowledged; otherwise the old client goes, which lets the PTY run ... *)
PrepareConnect ==
    /\ ctl.pc = "prepare"
    /\ link = current
    /\ IF sm.termAcked
       THEN ctl' = [ctl EXCEPT !.pc = "done"] /\ UNCHANGED sm
       ELSE /\ ctl' = [ctl EXCEPT !.pc = "kicked"]
            /\ sm' = IF sm.connected THEN ClientDisconnected(sm) ELSE sm
    /\ UNCHANGED <<link, data, acks, attached, current, readers, loops, file, totalGap,
                   streamDone, late>>

(* ... and the new one comes, with its window shut; a client that claims   *)
(* more than there is is refused.                                          *)
Corked == 0

ConnectNewClient ==
    /\ ctl.pc = "kicked"
    /\ IF ctl.seq > sm.total
       THEN ctl' = [ctl EXCEPT !.pc = "failed"] /\ UNCHANGED sm
       ELSE /\ sm' = ClientConnected(sm, current, Corked, ctl.seq)
            /\ ctl' = [ctl EXCEPT !.pc = "prepared", !.rtn = Greatest(sm.head, ctl.seq)]
    /\ UNCHANGED <<link, data, acks, attached, current, readers, loops, file, totalGap,
                   streamDone, late>>

(* The answer: what the job no longer has is a gap in the file.            *)
NoGap == 0
BackwardGap == ctl.seq - ctl.rtn
NewGap == ctl.rtn - ctl.seq

RecordGap ==
    /\ ctl.pc = "prepared"
    /\ totalGap' = totalGap + NewGap
    /\ readers' = IF NewGap > 0
                  THEN [readers EXCEPT ![current] = UpdateNextSeq(@, ctl.rtn)]
                  ELSE readers
    /\ ctl' = [ctl EXCEPT !.pc = "start"]
    /\ UNCHANGED <<sm, link, data, acks, attached, current, loops, file, streamDone, late>>

(* JobManager.StartStream: the writer is attached, then the window opened. *)
StartStream ==
    /\ ctl.pc = "start"
    /\ link = current
    /\ attached' = attached \cup {current}
    /\ sm' = SetRwndSize(sm, ReadWindow)
    /\ ctl' = [ctl EXCEPT !.pc = "started"]
    /\ UNCHANGED <<link, data, acks, current, readers, loops, file, totalGap, streamDone, late>>

StartLoop ==
    /\ ctl.pc = "started"
    /\ loops' = [loops EXCEPT ![current].pc = "read"]
    /\ ctl' = [ctl EXCEPT !.pc = "idle", !.seq = 0, !.rtn = 0]
    /\ UNCHANGED <<sm, link, data, acks, attached, current, readers, file, totalGap,
                   streamDone, late>>

(* Every other way out closes the reader.  The stream was already done ... *)
GiveUpReader ==
    /\ LET closed == CloseReader(readers[current])
       IN  /\ readers' = [readers EXCEPT ![current] = closed.reader]
           /\ Send(closed.acks)
    /\ ctl' = [ctl EXCEPT !.pc = "idle", !.seq = 0, !.rtn = 0]
    /\ UNCHANGED <<sm, link, data, attached, current, loops, file, totalGap, late>>

StreamWasDone ==
    /\ ctl.pc = "done"
    /\ GiveUpReader
    /\ streamDone' = TRUE

(* ... or the job manager refused, or its answer was lost.                 *)
GiveUp ==
    /\ \/ ctl.pc = "failed"
       \/ ctl.pc \in {"prepare", "prepared", "start", "started", "done"} /\ link # current
    /\ GiveUpReader
    /\ UNCHANGED streamDone

-----------------------------------------------------------------------------
Transport == SendPacket \/ SendEnd \/ AckArrives \/ PacketArrives

OutputLoops == \E i \in Streams : LoopRead(i) \/ LoopAppend(i)

RestartStreaming ==
    \/ StatFile
    \/ CreateReader
    \/ PrepareConnect
    \/ ConnectNewClient
    \/ RecordGap
    \/ StartStream
    \/ StartLoop
    \/ StreamWasDone
    \/ GiveUp

Next ==
    \/ \E n \in 1 .. Chunk : PtyWrite(n)
    \/ \E kind \in EndKinds : PtyEnd(kind)
    \/ Transport
    \/ OutputLoops
    \/ LinkDrop
    \/ \E conn \in Streams : Reconnect(conn)
    \/ RestartStreaming

(* Goroutines that can run do run, and messages on a live link arrive.     *)
RunsOn ==
    /\ WF_vars(SendPacket \/ SendEnd)
    /\ WF_vars(AckArrives)
    /\ WF_vars(PacketArrives)
    /\ \A i \in Streams : WF_vars(LoopRead(i) \/ LoopAppend(i))
    /\ WF_vars(RestartStreaming)

Spec == Init /\ [][Next]_vars
FairSpec == Spec /\ RunsOn /\ WF_vars(\E conn \in Streams : Reconnect(conn))

(* The same, for a client that may stay away for good.                     *)
AwaySpec == Spec /\ RunsOn

-----------------------------------------------------------------------------
TypeOK ==
    /\ sm.total \in 0 .. MaxTotal /\ sm.head \in 0 .. sm.total
    /\ sm.sent \in 0 .. RingSize
    /\ link \in 0 .. MaxStreams
    /\ attached \subseteq Streams
    /\ current \in Streams
    /\ ctl.pc \in {"idle", "stat", "create", "prepare", "kicked", "prepared",
                   "start", "started", "done", "failed"}
    /\ \A i \in Streams :
          /\ readers[i].next \in Nat
          /\ loops[i].pc \in {"none", "read", "got", "dead"}
    /\ totalGap \in Nat
    /\ streamDone \in BOOLEAN /\ late \in BOOLEAN

(* The invariant restartStreaming computes with (jobcontroller.go:1238-    *)
(* 1242): the file's length and its gap are the stream position of the     *)
(* next byte appended.  No byte is missing without being counted, none is  *)
(* appended twice, whatever the connection lost.                           *)
AppendedInSequence ==
    \A k \in 1 .. Len(file') - Len(file) : file'[Len(file) + k] = FiledAndLost + k - 1

AppendsInSequence == [][AppendedInSequence]_vars

(* It takes an old loop to break that: until one has appended bytes that a *)
(* restart did not find in the file, every append is in sequence, whatever *)
(* else old loops, lost connections and failed restarts do.                *)
InSequenceUntilLate == [][late' \/ AppendedInSequence]_vars

(* Flow control end to end: no reader is handed more than its window,      *)
(* although windows travel in acks that arrive late and a reconnect        *)
(* replays (streammanager.go:386, streamreader.go:133).                    *)
ReaderWithinWindow ==
    \A i \in Streams : Len(readers[i].buffer) <= ReadWindow

(* What the job dropped while its client was connected, the main server    *)
(* has: in the file, counted as lost, or with the current stream's loop    *)
(* and reader (streammanager.go:225-234, jobcontroller.go:1313-1326).      *)
DroppedIsAccounted ==
    ctl.pc = "idle" /\ loops[current].pc # "none" =>
        sm.head <= FiledAndLost + Len(loops[current].bytes) + Len(readers[current].buffer)

(* Once connections stop failing, every byte of a program that goes on is  *)
(* filed or counted as lost.                                               *)
OutputArrives ==
    [](sm.ended = "none") =>
        \A n \in 1 .. MaxTotal : sm.total >= n ~> FiledAndLost >= n

(* Once connections stop failing, the job's end reaches the job's record.  *)
EndArrives == sm.ended # "none" ~> streamDone

(* A job without its client keeps running: its output is buffered.         *)
PtyBlocked == sm.connected /\ sm.ended = "none" /\ Held(sm) >= Window(sm)

DetachedJobRuns == (link = 0 /\ PtyBlocked) ~> (link # 0 \/ ~PtyBlocked)

(* The stream is recorded as done only once all of it is in the file.      *)
DoneIsComplete == streamDone => FiledAndLost >= sm.total
=============================================================================
