------------------------ MODULE DurableStreamProofs ------------------------
(***************************************************************************)
(* Proofs about module DurableStream, for every size of ring, window and   *)
(* chunk and every number of connections: its types, flow control end to   *)
(* end, that what the job dropped is accounted for, and that the file is   *)
(* appended to in sequence until an old output loop appends bytes a restart *)
(* did not find in it.                                                     *)
(*                                                                         *)
(* The inductive invariant follows the bytes of the current stream from    *)
(* the ring over the link and the reader to the file; the bytes of older   *)
(* streams may still be under way behind them.                             *)
(***************************************************************************)
EXTENDS DurableStream, SequenceTheorems, TLAPS

-----------------------------------------------------------------------------
(* The inductive invariant, part by part.                                  *)

ManagerStates ==
    [total : Nat, head : Nat, ended : {"none", "eof", "error"}, connected : BOOLEAN,
     id : Streams, rwnd : Nat, sent : Nat, termSent : BOOLEAN, termAcked : BOOLEAN,
     ackSeq : Nat, ackRwnd : Nat]

Packets == [kind : {"data", "eof", "error"}, id : Streams, seq : Nat, n : Nat]

Acks == [id : Streams, seq : Nat, fin : BOOLEAN, cancel : BOOLEAN, rwnd : Nat]

ReaderStates ==
    [id : Streams, next : Nat, buffer : Seq(Int), eof : BOOLEAN,
     err : {"none", "stream", "closed"}, closed : BOOLEAN, lastRwnd : Nat,
     ooo : SUBSET Packets]

LoopStates ==
    [pc : {"none", "read", "got", "dead"}, bytes : Seq(Int),
     err : {"none", "stream", "closed", "eof"}]

ControlStates ==
    [pc : {"idle", "stat", "create", "prepare", "kicked", "prepared", "start",
           "started", "done", "failed"},
     seq : Nat, rtn : Nat]

Types ==
    /\ sm \in ManagerStates
    /\ link \in 0 .. MaxStreams
    /\ data \in Seq(Packets)
    /\ acks \in Seq(Acks)
    /\ attached \in SUBSET Streams
    /\ current \in Streams
    /\ readers \in [Streams -> ReaderStates]
    /\ loops \in [Streams -> LoopStates]
    /\ ctl \in ControlStates
    /\ file \in Seq(Int)
    /\ totalGap \in Nat
    /\ streamDone \in BOOLEAN
    /\ late \in BOOLEAN

(* Where a restart stands, and whose connection and client there is.       *)
Reopening == ctl.pc \in {"stat", "create"}
Unconnected == ctl.pc \in {"prepare", "kicked", "done", "failed"}
Live == link = current /\ sm.id = current
Serving ==
    \/ ctl.pc \in {"prepared", "start", "started"}
    \/ ctl.pc = "idle" /\ loops[current].pc # "none"

Connections ==
    /\ sm.id <= current
    /\ Reopening => link \in {0, current + 1} /\ current < MaxStreams
    /\ ~Reopening => link \in {0, current}
    /\ attached \subseteq {current}
    /\ attached # {} => link = current /\ ctl.pc \in {"idle", "started"}
    /\ Unconnected => sm.id < current
    /\ Serving => sm.connected /\ sm.id = current
    /\ Live => Serving

(* The StreamManager's counters; while a restart is prepared its window is *)
(* shut and nothing of the new stream has been sent.                       *)
Counters ==
    /\ sm.total <= MaxTotal
    /\ sm.head <= sm.total
    /\ sm.sent <= sm.total - sm.head
    /\ sm.sent <= RingSize
    /\ ~sm.connected => sm.sent = 0
    /\ ctl.pc \in {"prepared", "start"} => sm.rwnd = 0 /\ sm.sent = 0
    /\ ctl.pc = "prepared" => sm.head = ctl.rtn
    /\ ctl.pc = "start" => sm.head = readers[current].next

(* The stream position of the next byte a Read will return.                *)
ReadPos(r) == r.next - Len(r.buffer)

ReaderOK(i) ==
    /\ readers[i].id = i
    /\ Len(readers[i].buffer) <= ReadWindow
    /\ Len(readers[i].buffer) <= readers[i].next
    /\ \A k \in 1 .. Len(readers[i].buffer) :
           readers[i].buffer[k] = ReadPos(readers[i]) + k - 1

Readers ==
    /\ \A i \in Streams : ReaderOK(i)
    /\ Unconnected =>
          /\ ~Finished(readers[current])
          /\ readers[current].ooo = {}
    /\ Unconnected \/ ctl.pc = "prepared" => readers[current].next = ctl.seq
    /\ Unconnected \/ ctl.pc \in {"prepared", "start"} =>
          readers[current].buffer = << >>
    /\ ctl.pc = "prepared" => ctl.seq <= ctl.rtn

LoopOK(i) ==
    /\ loops[i].pc # "got" => loops[i].bytes = << >>
    /\ loops[i].pc = "got" /\ loops[i].err # "none" =>
          loops[i].bytes = << >> /\ Finished(readers[i])
    /\ i > current => loops[i].pc = "none"

Loops ==
    /\ \A i \in Streams : LoopOK(i)
    /\ Unconnected \/ ctl.pc \in {"prepared", "start", "started"} =>
          loops[current].pc = "none"

(* Where the first packet of stream i under way starts.                    *)
Base(i) ==
    IF i = current /\ ctl.pc = "prepared" THEN ctl.rtn ELSE readers[i].next

IsFirst(k) == k = 1 \/ data[k - 1].id # data[k].id

(* The packets of one stream follow each other without a hole, up to its   *)
(* end, and those of a newer stream follow those of an older one.          *)
PacketsInOrder ==
    /\ \A k \in 1 .. Len(data) :
          /\ data[k].id <= sm.id
          /\ data[k].kind = "data" <=> data[k].n # 0
    /\ \A j, k \in 1 .. Len(data) :
          j < k => /\ data[j].id <= data[k].id
                   /\ data[j].kind # "data" => data[j].id # data[k].id
    /\ \A k \in 1 .. Len(data) :
          k > 1 /\ data[k - 1].id = data[k].id =>
              data[k].seq = data[k - 1].seq + data[k - 1].n

(* While a restart is prepared nothing but the end may have been sent.     *)
NothingSentYet ==
    ctl.pc \in {"prepared", "start"} =>
        \A k \in 1 .. Len(data) : data[k].id = current => data[k].kind # "data"

(* They fit the reader they go to, if it still listens.                    *)
PacketsFit ==
    \A k \in 1 .. Len(data) :
        LET i == data[k].id
            r == readers[i]
        IN  /\ ~Finished(r) /\ IsFirst(k) => data[k].seq = Base(i)
            /\ ~Finished(r) /\ data[k].kind = "data" =>
                  data[k].seq + data[k].n <= ReadPos(r) + ReadWindow
            /\ r.ooo = {}
            /\ i = link /\ i = current => ~Finished(r)

(* The client of the current connection: where its next packet starts, how *)
(* far it may go, and when it has seen the end.                            *)
LastSent ==
    IF data # << >> /\ data[Len(data)].id = current
    THEN data[Len(data)].seq + data[Len(data)].n
    ELSE Base(current)

EndSent == sm.termSent /\ sm.head = sm.total /\ sm.ended # "none"

EndSeen ==
    \/ Finished(readers[current])
    \/ readers[current].ooo # {}
    \/ \E k \in 1 .. Len(data) : data[k].id = current /\ data[k].kind # "data"

LiveStream ==
    Live =>
        /\ ~Finished(readers[current]) => LastSent = sm.head + sm.sent
        /\ EndSeen => EndSent
        /\ ctl.pc # "prepared" =>
              sm.head + sm.rwnd <= ReadPos(readers[current]) + ReadWindow

(* Acks of the current stream say nothing its reader has not reached.      *)
AcksTrue ==
    \A k \in 1 .. Len(acks) :
        /\ acks[k].id <= current
        /\ link = current /\ acks[k].id = current =>
              /\ acks[k].seq <= readers[current].next
              /\ acks[k].seq + acks[k].rwnd <= ReadPos(readers[current]) + ReadWindow

(* Bytes the job dropped are with the main server; bytes the main server   *)
(* has and has not counted are with the current stream.                    *)
Accounted ==
    /\ Serving /\ ctl.pc # "prepared" => sm.head <= readers[current].next
    /\ readers[current].next <=
          FiledAndLost + Len(loops[current].bytes) + Len(readers[current].buffer)
    /\ ctl.pc = "create" \/ Unconnected \/ ctl.pc = "prepared" =>
          ctl.seq <= FiledAndLost

(* Until an old output loop has appended late, the file's length and its   *)
(* gap are exactly where the current stream's bytes belong.                *)
Drained ==
    /\ readers[current].next =
          FiledAndLost + Len(loops[current].bytes) + Len(readers[current].buffer)
    /\ ctl.pc = "create" \/ Unconnected \/ ctl.pc = "prepared" =>
          ctl.seq = FiledAndLost
    /\ \A k \in 1 .. Len(loops[current].bytes) :
          loops[current].bytes[k] = FiledAndLost + k - 1

DurableInv ==
    /\ Types
    /\ Connections
    /\ Counters
    /\ Readers
    /\ Loops
    /\ PacketsInOrder
    /\ NothingSentYet
    /\ PacketsFit
    /\ LiveStream
    /\ AcksTrue
    /\ Accounted
    /\ ~late => Drained

-----------------------------------------------------------------------------
LEMMA DurableInitEstablishesInv == Init => DurableInv
  <1> SUFFICES ASSUME Init PROVE DurableInv
      OBVIOUS
  <1> USE SizesAssumption, ReadWindowAssumption
  <1>1. \A i \in Streams : NewReader(i, 0) \in ReaderStates
      BY DEF NewReader, ReaderStates
  <1>2. Types
    <2>1. sm \in ManagerStates
        BY DEF Init, ManagerStates, Streams
    <2>2. readers \in [Streams -> ReaderStates]
        BY <1>1 DEF Init
    <2>3. loops \in [Streams -> LoopStates]
        BY DEF Init, LoopStates
    <2>4. ctl \in ControlStates
        BY DEF Init, ControlStates
    <2>5. data \in Seq(Packets) /\ acks \in Seq(Acks) /\ file \in Seq(Int)
        BY DEF Init
    <2>6. 1 \in Streams /\ 1 \in 0 .. MaxStreams
        BY DEF Streams
    <2>7. /\ link \in 0 .. MaxStreams /\ attached \in SUBSET Streams
          /\ current \in Streams /\ totalGap \in Nat /\ streamDone \in BOOLEAN
          /\ late \in BOOLEAN
        BY <2>6 DEF Init
    <2> QED
        BY <2>1, <2>2, <2>3, <2>4, <2>5, <2>7 DEF Types
  <1>3. /\ sm.id = 1 /\ sm.total = 0 /\ sm.head = 0 /\ sm.sent = 0
        /\ sm.rwnd = ReadWindow /\ sm.connected = TRUE
        /\ ctl.pc = "idle" /\ current = 1 /\ link = 1 /\ 1 \in Streams
      BY DEF Init, Streams
  <1>4. \A i \in Streams : /\ readers[i].id = i /\ readers[i].next = 0
                           /\ readers[i].buffer = << >> /\ readers[i].ooo = {}
                           /\ ~Finished(readers[i])
      BY DEF Init, NewReader, Finished
  <1>5. \A i \in Streams : /\ loops[i].bytes = << >>
                           /\ loops[i].pc = IF i = 1 THEN "read" ELSE "none"
                           /\ loops[i].err = "none"
      BY DEF Init
  <1>6. data = << >> /\ acks = << >> /\ attached = {1} /\ file = << >> /\ totalGap = 0
      BY DEF Init
  <1>7. Connections /\ Counters
      BY <1>3, <1>4, <1>5, <1>6
      DEF Connections, Counters, Reopening, Unconnected, Serving, Live
  <1>8. Readers /\ Loops
      BY <1>3, <1>4, <1>5
      DEF Readers, Loops, ReaderOK, LoopOK, Unconnected, ReadPos, Streams
  <1>9. PacketsInOrder /\ PacketsFit /\ AcksTrue
      BY <1>6 DEF PacketsInOrder, PacketsFit, AcksTrue
  <1>10. LiveStream
      BY <1>3, <1>4, <1>6 DEF LiveStream, LastSent, Base, EndSeen, ReadPos
  <1>11. FiledAndLost = 0 /\ Len(loops[current].bytes) = 0 /\ Len(readers[current].buffer) = 0
      BY <1>3, <1>4, <1>5, <1>6 DEF FiledAndLost
  <1>12. Accounted
      BY <1>3, <1>4, <1>11 DEF Accounted, Serving, Unconnected
  <1>13. Drained
      BY <1>3, <1>4, <1>5, <1>11 DEF Drained, Reopening, Unconnected
  <1>14. NothingSentYet
      BY <1>3 DEF NothingSentYet
  <1> QED
      BY <1>2, <1>7, <1>8, <1>9, <1>10, <1>12, <1>13, <1>14 DEF DurableInv

-----------------------------------------------------------------------------
(* What the types say of the parts that the steps below take up.           *)

LEMMA Typing ==
  ASSUME DurableInv
  PROVE  /\ sm \in ManagerStates /\ sm.total \in Nat /\ sm.head \in Nat /\ sm.rwnd \in Nat
         /\ sm.sent \in Nat /\ sm.id \in Streams
         /\ ctl \in ControlStates /\ ctl.seq \in Nat /\ ctl.rtn \in Nat
         /\ current \in Streams /\ current \in Nat /\ current >= 1
         /\ Streams \subseteq Nat
         /\ FiledAndLost \in Nat
  BY SizesAssumption
  DEF DurableInv, Types, ManagerStates, ControlStates, Streams, FiledAndLost

LEMMA MessageTyping ==
  ASSUME DurableInv
  PROVE  /\ data \in Seq(Packets)
         /\ \A k \in 1 .. Len(data) :
                /\ data[k] \in Packets /\ data[k].id \in Streams /\ data[k].id \in Nat
                /\ data[k].seq \in Nat /\ data[k].n \in Nat
                /\ data[k].id <= sm.id /\ data[k].id <= current
         /\ acks \in Seq(Acks)
         /\ \A k \in 1 .. Len(acks) :
                /\ acks[k] \in Acks /\ acks[k].id \in Streams /\ acks[k].id \in Nat
                /\ acks[k].seq \in Nat /\ acks[k].rwnd \in Nat
                /\ acks[k].id <= current
  <1>1. data \in Seq(Packets) /\ acks \in Seq(Acks)
      BY DEF DurableInv, Types
  <1>2. /\ \A k \in 1 .. Len(data) : data[k] \in Packets
        /\ \A k \in 1 .. Len(acks) : acks[k] \in Acks
      BY <1>1
  <1>3. /\ \A k \in 1 .. Len(data) : data[k].id <= sm.id
        /\ \A k \in 1 .. Len(acks) : acks[k].id <= current
        /\ sm.id <= current
      BY DEF DurableInv, PacketsInOrder, AcksTrue, Connections
  <1>4. /\ \A k \in 1 .. Len(data) :
               data[k].id \in Streams /\ data[k].seq \in Nat /\ data[k].n \in Nat
        /\ \A k \in 1 .. Len(acks) :
               acks[k].id \in Streams /\ acks[k].seq \in Nat /\ acks[k].rwnd \in Nat
      BY <1>2 DEF Packets, Acks
  <1>5. Streams \subseteq Nat /\ sm.id \in Nat /\ current \in Nat
      BY Typing
  <1>6. ASSUME NEW k \in 1 .. Len(data) PROVE data[k].id <= current
    <2>1. data[k].id \in Nat /\ data[k].id <= sm.id
        BY <1>3, <1>4, <1>5
    <2> QED
        BY <1>3, <1>5, <2>1
  <1> QED
      BY <1>1, <1>2, <1>3, <1>4, <1>5, <1>6

LEMMA ReaderTyping ==
  ASSUME DurableInv, NEW i \in Streams
  PROVE  /\ readers \in [Streams -> ReaderStates]
         /\ readers[i] \in ReaderStates /\ readers[i].id = i /\ readers[i].next \in Nat
         /\ readers[i].buffer \in Seq(Int) /\ Len(readers[i].buffer) \in Nat
         /\ Len(readers[i].buffer) <= ReadWindow
         /\ Len(readers[i].buffer) <= readers[i].next
         /\ loops \in [Streams -> LoopStates]
         /\ loops[i] \in LoopStates /\ loops[i].bytes \in Seq(Int)
         /\ Len(loops[i].bytes) \in Nat
  <1>1. /\ readers \in [Streams -> ReaderStates] /\ loops \in [Streams -> LoopStates]
        /\ readers[i] \in ReaderStates /\ loops[i] \in LoopStates
      BY DEF DurableInv, Types
  <1>2. ReaderOK(i)
      BY DEF DurableInv, Readers
  <1> QED
      BY <1>1, <1>2 DEF ReaderStates, LoopStates, ReaderOK

-----------------------------------------------------------------------------
(* What a Reader's methods do.                                             *)

LEMMA RoomLeft ==
  ASSUME NEW r \in ReaderStates, Len(r.buffer) <= ReadWindow
  PROVE  Room(r) = ReadWindow - Len(r.buffer) /\ Room(r) \in Nat
  <1>1. Len(r.buffer) \in Nat
      BY DEF ReaderStates
  <1>2. ~(Len(r.buffer) > ReadWindow)
      BY <1>1, ReadWindowAssumption
  <1>3. Room(r) = ReadWindow - Len(r.buffer)
      BY <1>2 DEF Room
  <1> QED
      BY <1>1, <1>3, ReadWindowAssumption

LEMMA AckingEffect ==
  ASSUME NEW r \in ReaderStates, Len(r.buffer) <= ReadWindow,
         NEW out, \E fin, cancel \in BOOLEAN : out = Acking(r, fin, cancel)
  PROVE  /\ out.reader \in ReaderStates
         /\ out.reader.id = r.id /\ out.reader.next = r.next
         /\ out.reader.buffer = r.buffer /\ out.reader.ooo = r.ooo
         /\ out.reader.eof = r.eof /\ out.reader.err = r.err
         /\ out.reader.closed = r.closed
         /\ out.acks \in Seq(Acks)
         /\ \A k \in 1 .. Len(out.acks) :
                /\ out.acks[k].id = r.id /\ out.acks[k].seq = r.next
                /\ out.acks[k].rwnd = ReadWindow - Len(r.buffer)
  <1>1. Room(r) = ReadWindow - Len(r.buffer) /\ Room(r) \in Nat
      BY RoomLeft
  <1> PICK fin \in BOOLEAN, cancel \in BOOLEAN : out = Acking(r, fin, cancel)
      OBVIOUS
  <1>2. out.reader = [r EXCEPT !.lastRwnd = Room(r)] /\ out.acks = <<AckOf(r, fin, cancel)>>
      BY DEF Acking
  <1>3. AckOf(r, fin, cancel) \in Acks
      BY <1>1 DEF AckOf, Acks, ReaderStates
  <1>4. /\ AckOf(r, fin, cancel).id = r.id /\ AckOf(r, fin, cancel).seq = r.next
        /\ AckOf(r, fin, cancel).rwnd = Room(r)
      BY DEF AckOf
  <1>5. Len(out.acks) = 1 /\ out.acks[1] = AckOf(r, fin, cancel)
      BY <1>2
  <1>6. \A k \in 1 .. Len(out.acks) : out.acks[k] = AckOf(r, fin, cancel)
      BY <1>5
  <1>7. out.acks \in Seq(Acks)
      BY <1>2, <1>3
  <1>8. /\ out.reader \in ReaderStates
        /\ out.reader.id = r.id /\ out.reader.next = r.next
        /\ out.reader.buffer = r.buffer /\ out.reader.ooo = r.ooo
        /\ out.reader.eof = r.eof /\ out.reader.err = r.err
        /\ out.reader.closed = r.closed
      BY <1>1, <1>2 DEF ReaderStates
  <1> QED
      BY <1>1, <1>4, <1>6, <1>7, <1>8

LEMMA SilentEffect ==
  ASSUME NEW r, NEW out, out = Silent(r)
  PROVE  out.reader = r /\ out.acks = << >> /\ out.acks \in Seq(Acks) /\ Len(out.acks) = 0
  BY DEF Silent

LEMMA CloseEffect ==
  ASSUME NEW r \in ReaderStates, Len(r.buffer) <= ReadWindow,
         NEW out, out = CloseReader(r)
  PROVE  /\ out.reader \in ReaderStates /\ Finished(out.reader)
         /\ out.reader.id = r.id /\ out.reader.next = r.next
         /\ out.reader.buffer = r.buffer /\ out.reader.ooo = r.ooo
         /\ out.acks \in Seq(Acks)
         /\ \A k \in 1 .. Len(out.acks) :
                /\ out.acks[k].id = r.id /\ out.acks[k].seq = r.next
                /\ out.acks[k].rwnd = ReadWindow - Len(r.buffer)
  <1>1. CASE r.closed
      BY <1>1, SilentEffect DEF CloseReader, Finished
  <1>2. CASE ~r.closed
    <2> DEFINE e == IF r.err = "none" THEN "closed" ELSE r.err
               c == [r EXCEPT !.closed = TRUE, !.err = e]
    <2>1. e \in {"none", "stream", "closed"}
        BY DEF ReaderStates
    <2> HIDE DEF e
    <2>2. /\ c \in ReaderStates /\ c.closed = TRUE
          /\ c.id = r.id /\ c.next = r.next /\ c.buffer = r.buffer /\ c.ooo = r.ooo
        BY <2>1 DEF ReaderStates
    <2>3. \E fin, cancel \in BOOLEAN : out = Acking(c, fin, cancel)
        BY <1>2 DEF CloseReader, e
    <2> HIDE DEF c
    <2>4. /\ out.reader \in ReaderStates
          /\ out.reader.id = c.id /\ out.reader.next = c.next
          /\ out.reader.buffer = c.buffer /\ out.reader.ooo = c.ooo
          /\ out.reader.closed = c.closed
          /\ out.acks \in Seq(Acks)
          /\ \A k \in 1 .. Len(out.acks) :
                 /\ out.acks[k].id = c.id /\ out.acks[k].seq = c.next
                 /\ out.acks[k].rwnd = ReadWindow - Len(c.buffer)
        BY <2>2, <2>3, AckingEffect
    <2> QED
        BY <2>2, <2>4 DEF Finished
  <1> QED
      BY <1>1, <1>2

(* What a Reader holds: no more than its window, each byte in its place.   *)
ReaderFits(r) ==
    /\ Len(r.buffer) <= ReadWindow
    /\ Len(r.buffer) <= r.next
    /\ \A k \in 1 .. Len(r.buffer) : r.buffer[k] = ReadPos(r) + k - 1

(* Read reports an error or returns bytes, never neither.                  *)
LEMMA ReadAnswers ==
  ASSUME NEW r \in ReaderStates, NEW n \in Nat \ {0}, Readable(r)
  PROVE  /\ ReadCount(r, n) \in 0 .. Len(r.buffer)
         /\ ReadError(r) \in {"none", "stream", "closed", "eof"}
         /\ ReadError(r) # "none" <=> ReadCount(r, n) = 0
         /\ ReadError(r) # "none" => Finished(r)
  <1>1. r.buffer \in Seq(Int) /\ Len(r.buffer) \in Nat /\ r.err \in {"none", "stream", "closed"}
      BY DEF ReaderStates
  <1>2. ReadCount(r, n) \in 0 .. Len(r.buffer)
      BY <1>1 DEF ReadCount
  <1>3. /\ ReadError(r) \in {"none", "stream", "closed", "eof"}
        /\ ReadError(r) # "none" => Finished(r)
      BY <1>1 DEF ReadError, Finished
  <1>4. ReadError(r) # "none" => ReadCount(r, n) = 0
      BY DEF ReadCount
  <1>5. ASSUME ReadCount(r, n) = 0, ReadError(r) = "none" PROVE FALSE
    <2>1. Len(r.buffer) = 0
        BY <1>1, <1>5 DEF ReadCount
    <2>2. r.buffer = << >>
        BY <1>1, <2>1
    <2> QED
        BY <1>1, <1>5, <2>2 DEF Readable, Finished, ReadError
  <1> QED
      BY <1>2, <1>3, <1>4, <1>5

LEMMA ReadEffect ==
  ASSUME NEW r \in ReaderStates, ReaderFits(r), NEW n \in Nat \ {0}, Readable(r)
  PROVE  /\ Read(r, n).reader \in ReaderStates /\ ReaderFits(Read(r, n).reader)
         /\ Read(r, n).reader.id = r.id /\ Read(r, n).reader.next = r.next
         /\ Read(r, n).reader.ooo = r.ooo
         /\ Finished(Read(r, n).reader) <=> Finished(r)
         /\ Len(Read(r, n).reader.buffer) = Len(r.buffer) - ReadCount(r, n)
         /\ Read(r, n).acks \in Seq(Acks)
         /\ \A j \in 1 .. Len(Read(r, n).acks) :
                /\ Read(r, n).acks[j].id = r.id /\ Read(r, n).acks[j].seq = r.next
                /\ Read(r, n).acks[j].rwnd = ReadWindow - Len(Read(r, n).reader.buffer)
  <1> DEFINE out == Read(r, n)
             k == ReadCount(r, n)
             b == SubSeq(r.buffer, k + 1, Len(r.buffer))
             s == [r EXCEPT !.buffer = b]
  <1>1. r.buffer \in Seq(Int) /\ Len(r.buffer) \in Nat /\ r.next \in Nat
        /\ Len(r.buffer) <= ReadWindow /\ Len(r.buffer) <= r.next
        /\ \A j \in 1 .. Len(r.buffer) : r.buffer[j] = r.next - Len(r.buffer) + j - 1
      BY DEF ReaderStates, ReaderFits, ReadPos
  <1>2. k \in 0 .. Len(r.buffer)
      BY ReadAnswers
  <1>3. out = IF k > 0 /\ WorthAnAck(s) THEN Acking(s, FALSE, FALSE) ELSE Silent(s)
      BY DEF Read
  <1> HIDE DEF k
  <1>4. /\ b \in Seq(Int) /\ Len(b) = Len(r.buffer) - k
        /\ \A j \in 1 .. Len(b) : b[j] = r.buffer[k + j]
      BY <1>1, <1>2
  <1> HIDE DEF b
  <1>5. /\ s \in ReaderStates /\ s.buffer = b
        /\ s.id = r.id /\ s.next = r.next /\ s.ooo = r.ooo
        /\ s.closed = r.closed /\ s.eof = r.eof /\ s.err = r.err
      BY <1>4 DEF ReaderStates
  <1>6. Len(b) <= ReadWindow /\ Len(b) <= r.next
      BY <1>1, <1>2, <1>4, ReadWindowAssumption
  <1>7. ASSUME NEW j \in 1 .. Len(b) PROVE b[j] = r.next - Len(b) + j - 1
    <2>1. k + j \in 1 .. Len(r.buffer) /\ b[j] = r.buffer[k + j]
        BY <1>1, <1>2, <1>4
    <2>2. b[j] = r.next - Len(r.buffer) + (k + j) - 1
        BY <1>1, <2>1
    <2>3. /\ j \in Nat /\ k \in Nat /\ r.next \in Nat /\ Len(r.buffer) \in Nat
          /\ Len(b) = Len(r.buffer) - k
        BY <1>1, <1>2, <1>4
    <2> QED
        BY <2>2, <2>3
  <1> HIDE DEF s, out
  <1>8. ASSUME out.reader.buffer = b, out.reader.next = r.next
        PROVE  ReaderFits(out.reader)
      BY <1>6, <1>7, <1>8 DEF ReaderFits, ReadPos
  <1>9. CASE \E fin, cancel \in BOOLEAN : out = Acking(s, fin, cancel)
    <2>1. /\ out.reader \in ReaderStates
          /\ out.reader.id = s.id /\ out.reader.next = s.next
          /\ out.reader.buffer = s.buffer /\ out.reader.ooo = s.ooo
          /\ out.reader.eof = s.eof /\ out.reader.err = s.err
          /\ out.reader.closed = s.closed
          /\ out.acks \in Seq(Acks)
          /\ \A j \in 1 .. Len(out.acks) :
                 /\ out.acks[j].id = s.id /\ out.acks[j].seq = s.next
                 /\ out.acks[j].rwnd = ReadWindow - Len(s.buffer)
        BY <1>5, <1>6, <1>9, AckingEffect
    <2>2. Finished(out.reader) <=> Finished(r)
        BY <1>5, <2>1 DEF Finished
    <2> QED
        BY <1>4, <1>5, <1>8, <2>1, <2>2 DEF out, k
  <1>10. CASE out = Silent(s)
    <2>1. out.reader = s /\ out.acks \in Seq(Acks) /\ Len(out.acks) = 0
        BY <1>10, SilentEffect
    <2>2. Finished(out.reader) <=> Finished(r)
        BY <1>5, <2>1 DEF Finished
    <2> QED
        BY <1>4, <1>5, <1>8, <2>1, <2>2 DEF out, k
  <1> QED
      BY <1>3, <1>9, <1>10

(* The bytes Read copies are the oldest, in their places.                  *)
LEMMA ReadTakes ==
  ASSUME NEW r \in ReaderStates, ReaderFits(r), NEW n \in Nat \ {0}, Readable(r)
  PROVE  /\ SubSeq(r.buffer, 1, ReadCount(r, n)) \in Seq(Int)
         /\ Len(SubSeq(r.buffer, 1, ReadCount(r, n))) = ReadCount(r, n)
         /\ \A j \in 1 .. ReadCount(r, n) :
                SubSeq(r.buffer, 1, ReadCount(r, n))[j] = ReadPos(r) + j - 1
  <1>1. r.buffer \in Seq(Int) /\ Len(r.buffer) \in Nat
        /\ \A j \in 1 .. Len(r.buffer) : r.buffer[j] = ReadPos(r) + j - 1
      BY DEF ReaderStates, ReaderFits
  <1>2. ReadCount(r, n) \in 0 .. Len(r.buffer)
      BY ReadAnswers
  <1> QED
      BY <1>1, <1>2

-----------------------------------------------------------------------------
(* Readers that are read or closed: what is under way to them and from     *)
(* them stays as it should be.                                             *)

ReadersAdvance ==
    \A i \in Streams :
        /\ Finished(readers[i]) => Finished(readers'[i])
        /\ readers'[i].ooo = readers[i].ooo
        /\ readers'[i].next \in Nat
        /\ readers'[i].next = readers[i].next
        /\ ReadPos(readers'[i]) \in Int
        /\ ReadPos(readers[i]) <= ReadPos(readers'[i])

LEMMA ReadPosTyping ==
  ASSUME DurableInv, NEW i \in Streams
  PROVE  ReadPos(readers[i]) \in Int /\ ReadPos(readers[i]) >= 0
  BY ReaderTyping DEF ReadPos

LEMMA AdvanceKeepsPackets ==
  ASSUME DurableInv, ReadersAdvance, UNCHANGED <<sm, data, link, current>>,
         \A i \in Streams : ~Finished(readers'[i]) => Base(i)' = Base(i),
         link = current /\ sm.id = current =>
             /\ Finished(readers'[current]) => Finished(readers[current])
             /\ ctl.pc = "prepared" => ctl'.pc = "prepared"
  PROVE  PacketsInOrder' /\ PacketsFit' /\ LiveStream'
  <1>1. PacketsInOrder'
      BY DEF DurableInv, PacketsInOrder
  <1>2. ASSUME NEW k \in 1 .. Len(data), NEW i \in Streams, i = data[k].id
        PROVE  /\ ~Finished(readers'[i]) /\ IsFirst(k) => data[k].seq = Base(i)'
               /\ ~Finished(readers'[i]) /\ data[k].kind = "data" =>
                     data[k].seq + data[k].n <= ReadPos(readers'[i]) + ReadWindow
               /\ readers'[i].ooo = {}
               /\ i = link /\ i = current => ~Finished(readers'[i])
    <2>1. data[k].seq \in Nat /\ data[k].n \in Nat /\ i \in Nat
        BY <1>2, MessageTyping
    <2>2. /\ ~Finished(readers[i]) /\ IsFirst(k) => data[k].seq = Base(i)
          /\ ~Finished(readers[i]) /\ data[k].kind = "data" =>
                data[k].seq + data[k].n <= ReadPos(readers[i]) + ReadWindow
          /\ readers[i].ooo = {}
          /\ i = link /\ i = current => ~Finished(readers[i])
        BY <1>2 DEF DurableInv, PacketsFit
    <2>3. ~Finished(readers'[i]) => ~Finished(readers[i])
        BY DEF ReadersAdvance
    <2>4. ~Finished(readers'[i]) /\ data[k].kind = "data" =>
              data[k].seq + data[k].n <= ReadPos(readers'[i]) + ReadWindow
        BY <2>1, <2>2, <2>3, ReadPosTyping, ReadWindowAssumption DEF ReadersAdvance
    <2>5. i = link /\ i = current => ~Finished(readers'[i])
      <3>1. ASSUME i = current, i = link PROVE sm.id = current
        <4>1. i <= sm.id /\ i \in Nat
            BY <1>2, MessageTyping
        <4>2. sm.id <= current /\ sm.id \in Nat /\ current \in Nat
            BY Typing DEF DurableInv, Connections
        <4> QED
            BY <3>1, <4>1, <4>2
      <3> QED
          BY <2>2, <3>1
    <2> QED
        BY <2>2, <2>3, <2>4, <2>5 DEF ReadersAdvance
  <1>3. PacketsFit'
      BY <1>2, MessageTyping DEF PacketsFit, IsFirst
  <1>4. LiveStream'
    <2> SUFFICES ASSUME Live PROVE LiveStream'
        BY DEF LiveStream, Live
    <2>1. current \in Streams
        BY Typing
    <2>2. /\ Finished(readers'[current]) => Finished(readers[current])
          /\ Finished(readers[current]) => Finished(readers'[current])
          /\ readers'[current].ooo = readers[current].ooo
        BY <2>1 DEF Live, ReadersAdvance
    <2>3. ~Finished(readers'[current]) => LastSent' = LastSent
        BY <2>1 DEF LastSent
    <2>4. EndSeen' => EndSeen
        BY <2>2 DEF EndSeen
    <2>5. ctl'.pc # "prepared" =>
              sm.head + sm.rwnd <= ReadPos(readers'[current]) + ReadWindow
        BY <2>1, Typing, ReadPosTyping, ReadWindowAssumption
        DEF DurableInv, LiveStream, Live, ReadersAdvance
    <2> QED
        BY <2>2, <2>3, <2>4, <2>5 DEF DurableInv, LiveStream, EndSent
  <1> QED
      BY <1>1, <1>3, <1>4

LEMMA SendingKeepsAcks ==
  ASSUME DurableInv, NEW new \in Seq(Acks), Send(new), UNCHANGED <<link, current>>,
         readers'[current].next \in Nat,
         readers[current].next <= readers'[current].next,
         ReadPos(readers'[current]) \in Int,
         ReadPos(readers[current]) <= ReadPos(readers'[current]),
         \A k \in 1 .. Len(new) :
             /\ new[k].id <= current
             /\ link = current /\ new[k].id = current =>
                   /\ new[k].seq <= readers'[current].next
                   /\ new[k].seq + new[k].rwnd <= ReadPos(readers'[current]) + ReadWindow
  PROVE  acks' \in Seq(Acks) /\ AcksTrue'
  <1>1. /\ acks \in Seq(Acks) /\ readers[current].next \in Nat
        /\ ReadPos(readers[current]) \in Int
      BY MessageTyping, ReaderTyping, ReadPosTyping, Typing
  <1>2. ASSUME NEW k \in 1 .. Len(acks)
        PROVE  /\ acks[k].id <= current
               /\ link = current /\ acks[k].id = current =>
                     /\ acks[k].seq <= readers'[current].next
                     /\ acks[k].seq + acks[k].rwnd <=
                            ReadPos(readers'[current]) + ReadWindow
    <2>1. acks[k].seq \in Nat /\ acks[k].rwnd \in Nat
        BY MessageTyping
    <2>2. /\ acks[k].id <= current
          /\ link = current /\ acks[k].id = current =>
                /\ acks[k].seq <= readers[current].next
                /\ acks[k].seq + acks[k].rwnd <= ReadPos(readers[current]) + ReadWindow
        BY DEF DurableInv, AcksTrue
    <2> QED
        BY <1>1, <2>1, <2>2, ReadWindowAssumption
  <1>3. CASE acks' = acks
      BY <1>1, <1>2, <1>3 DEF AcksTrue
  <1>4. CASE acks' = acks \o new
    <2>1. /\ acks' \in Seq(Acks) /\ Len(acks') = Len(acks) + Len(new)
          /\ \A k \in 1 .. Len(acks') :
                 acks'[k] = IF k <= Len(acks) THEN acks[k] ELSE new[k - Len(acks)]
        BY <1>1, <1>4, ConcatProperties
    <2>2. ASSUME NEW k \in 1 .. Len(acks')
          PROVE  /\ acks'[k].id <= current
                 /\ link = current /\ acks'[k].id = current =>
                       /\ acks'[k].seq <= readers'[current].next
                       /\ acks'[k].seq + acks'[k].rwnd <=
                              ReadPos(readers'[current]) + ReadWindow
      <3>1. CASE k <= Len(acks)
        <4>1. k \in 1 .. Len(acks) /\ acks'[k] = acks[k]
            BY <1>1, <2>1, <3>1
        <4> QED
            BY <1>2, <4>1
      <3>2. CASE ~(k <= Len(acks))
        <4>1. k - Len(acks) \in 1 .. Len(new) /\ acks'[k] = new[k - Len(acks)]
            BY <1>1, <2>1, <3>2
        <4> QED
            BY <4>1
      <3> QED
          BY <3>1, <3>2
    <2> QED
        BY <2>1, <2>2 DEF AcksTrue
  <1> QED
      BY <1>3, <1>4 DEF Send

-----------------------------------------------------------------------------
LEMMA PtyWriteKeepsInv ==
  ASSUME DurableInv, NEW n \in 1 .. Chunk, PtyWrite(n)
  PROVE  DurableInv'
  <1> USE SizesAssumption, ReadWindowAssumption
  <1> DEFINE h == IF sm.connected THEN sm.head
                  ELSE Greatest(sm.head, sm.total + n - RingSize)
  <1>1. sm \in ManagerStates /\ sm.head \in Nat /\ sm.total \in Nat /\ sm.rwnd \in Nat
        /\ sm.sent \in Nat /\ n \in Nat /\ sm.total + n \in Nat
      BY DEF DurableInv, Types, ManagerStates
  <1>2. h \in Nat /\ sm.head <= h /\ h <= sm.total + n /\ (sm.connected => h = sm.head)
      BY <1>1 DEF Greatest, DurableInv, Counters
  <1>3. sm' = [sm EXCEPT !.total = sm.total + n, !.head = h]
      BY DEF PtyWrite
  <1> HIDE DEF h
  <1>4. /\ sm' \in ManagerStates
        /\ sm'.total = sm.total + n /\ sm'.head = h
        /\ sm'.ended = sm.ended /\ sm'.connected = sm.connected /\ sm'.id = sm.id
        /\ sm'.rwnd = sm.rwnd /\ sm'.sent = sm.sent /\ sm'.termSent = sm.termSent
      BY <1>1, <1>2, <1>3 DEF ManagerStates
  <1>5. /\ sm.ended = "none" /\ sm.total + n <= MaxTotal
        /\ sm.connected => sm.total - sm.head + n <= sm.rwnd
      BY <1>1 DEF PtyWrite, Held, Window, Least
  <1>6. UNCHANGED <<link, data, acks, attached, current, readers, loops, ctl, file,
                    totalGap, streamDone, late>>
      BY DEF PtyWrite
  <1>7. Types'
      BY <1>4, <1>6 DEF DurableInv, Types
  <1>8. Connections'
      BY <1>4, <1>6 DEF DurableInv, Connections, Reopening, Unconnected, Serving, Live
  <1>9. Counters'
      BY <1>1, <1>2, <1>4, <1>5, <1>6
      DEF DurableInv, Counters, Connections, Serving
  <1>10. Readers' /\ Loops' /\ Drained' = Drained /\ AcksTrue'
      BY <1>6
      DEF DurableInv, Readers, Loops, ReaderOK, LoopOK, Unconnected, ReadPos, Drained,
          Reopening, FiledAndLost, AcksTrue
  <1>11. PacketsInOrder' /\ PacketsFit'
      BY <1>4, <1>6, ZenonT(30)
      DEF DurableInv, PacketsInOrder, PacketsFit, Base, IsFirst, ReadPos
  <1>12. LiveStream'
      BY <1>2, <1>4, <1>5, <1>6
      DEF DurableInv, LiveStream, Live, LastSent, Base, EndSent, EndSeen, ReadPos,
          Connections, Counters
  <1>13. Accounted'
      BY <1>2, <1>4, <1>6
      DEF DurableInv, Accounted, Connections, Serving, Unconnected, FiledAndLost
  <1>14. NothingSentYet'
      BY <1>6 DEF DurableInv, NothingSentYet
  <1> QED
      BY <1>6, <1>7, <1>8, <1>9, <1>10, <1>11, <1>12, <1>13, <1>14 DEF DurableInv

LEMMA PtyEndKeepsInv ==
  ASSUME DurableInv, NEW kind \in EndKinds, PtyEnd(kind)
  PROVE  DurableInv'
  <1>1. sm \in ManagerStates /\ kind \in {"eof", "error"}
      BY EndKindsAssumption DEF DurableInv, Types
  <1>2. sm' = [sm EXCEPT !.ended = kind]
      BY DEF PtyEnd
  <1>3. /\ sm' \in ManagerStates
        /\ sm'.ended = kind /\ kind # "none"
        /\ sm'.total = sm.total /\ sm'.head = sm.head /\ sm'.connected = sm.connected
        /\ sm'.id = sm.id /\ sm'.rwnd = sm.rwnd /\ sm'.sent = sm.sent
        /\ sm'.termSent = sm.termSent
      BY <1>1, <1>2 DEF ManagerStates
  <1>4. UNCHANGED <<link, data, acks, attached, current, readers, loops, ctl, file,
                    totalGap, streamDone, late>>
      BY DEF PtyEnd
  <1>5. Types' /\ Connections' /\ Counters'
      BY <1>3, <1>4
      DEF DurableInv, Types, Connections, Reopening, Unconnected, Serving, Live, Counters
  <1>6. Readers' /\ Loops' /\ Drained' = Drained /\ AcksTrue'
      BY <1>4
      DEF DurableInv, Readers, Loops, ReaderOK, LoopOK, Unconnected, ReadPos, Drained,
          Reopening, FiledAndLost, AcksTrue
  <1>7. PacketsInOrder' /\ PacketsFit'
      BY <1>3, <1>4
      DEF DurableInv, PacketsInOrder, PacketsFit, Base, IsFirst, ReadPos
  <1>8. LiveStream' /\ Accounted'
      BY <1>3, <1>4
      DEF DurableInv, LiveStream, Live, LastSent, Base, EndSent, EndSeen, ReadPos,
          Accounted, Serving, Unconnected, FiledAndLost
  <1>9. NothingSentYet'
      BY <1>4 DEF DurableInv, NothingSentYet
  <1> QED
      BY <1>4, <1>5, <1>6, <1>7, <1>8, <1>9 DEF DurableInv

-----------------------------------------------------------------------------
(* The connection.                                                         *)

LEMMA LinkDropKeepsInv ==
  ASSUME DurableInv, LinkDrop
  PROVE  DurableInv'
  <1>1. /\ link' = 0 /\ acks' = << >> /\ attached' = {}
        /\ UNCHANGED <<sm, current, readers, loops, ctl, file, totalGap, streamDone, late>>
      BY DEF LinkDrop
  <1>2. PICK k \in 0 .. Len(data) : data' = SubSeq(data, 1, k)
      BY DEF LinkDrop
  <1>3. data \in Seq(Packets) /\ current \in Streams /\ current # 0
      BY DEF DurableInv, Types, Streams
  <1>4. /\ data' \in Seq(Packets) /\ Len(data') = k /\ k <= Len(data)
        /\ \A j \in 1 .. Len(data') : j \in 1 .. Len(data) /\ data'[j] = data[j]
      BY <1>2, <1>3
  <1>5. Types'
    <2>1. acks' \in Seq(Acks) /\ attached' \in SUBSET Streams /\ link' \in 0 .. MaxStreams
        BY <1>1, SizesAssumption
    <2> QED
        BY <1>1, <1>4, <2>1 DEF DurableInv, Types
  <1>6. Connections' /\ Counters'
      BY <1>1, <1>3
      DEF DurableInv, Connections, Reopening, Unconnected, Serving, Live, Counters
  <1>7. Readers' /\ Loops'
      BY <1>1 DEF DurableInv, Readers, Loops, ReaderOK, LoopOK, Unconnected, ReadPos
  <1>8. PacketsInOrder'
    <2>1. PacketsInOrder
        BY DEF DurableInv
    <2>2. \A m \in 1 .. Len(data') :
              /\ data'[m].id <= sm'.id
              /\ data'[m].kind = "data" <=> data'[m].n # 0
        BY <1>1, <1>4, <2>1 DEF PacketsInOrder
    <2>3. \A j, m \in 1 .. Len(data') :
              j < m => /\ data'[j].id <= data'[m].id
                       /\ data'[j].kind # "data" => data'[j].id # data'[m].id
        BY <1>4, <2>1 DEF PacketsInOrder
    <2>4. ASSUME NEW m \in 1 .. Len(data'), m > 1, data'[m - 1].id = data'[m].id
          PROVE  data'[m].seq = data'[m - 1].seq + data'[m - 1].n
      <3>1. m - 1 \in 1 .. Len(data')
          BY <1>3, <1>4, <2>4
      <3> QED
          BY <1>4, <2>1, <2>4, <3>1 DEF PacketsInOrder
    <2> QED
        BY <2>2, <2>3, <2>4 DEF PacketsInOrder
  <1>9. PacketsFit'
    <2>1. PacketsFit
        BY DEF DurableInv
    <2>2. ASSUME NEW m \in 1 .. Len(data'), IsFirst(m)'
          PROVE  IsFirst(m)
        BY <1>3, <1>4, <2>2 DEF IsFirst
    <2>3. ASSUME NEW m \in 1 .. Len(data')
          PROVE  m \in 1 .. Len(data) /\ data'[m] = data[m]
        BY <1>4
    <2>4. /\ \A i \in Streams : Base(i)' = Base(i) /\ ReadPos(readers'[i]) = ReadPos(readers[i])
          /\ readers' = readers /\ current' = current /\ link' = 0
        BY <1>1 DEF Base, ReadPos
    <2>5. ASSUME NEW m \in 1 .. Len(data'), NEW i \in Streams, i = data'[m].id
          PROVE  /\ ~Finished(readers'[i]) /\ IsFirst(m)' => data'[m].seq = Base(i)'
                 /\ ~Finished(readers'[i]) /\ data'[m].kind = "data" =>
                       data'[m].seq + data'[m].n <= ReadPos(readers'[i]) + ReadWindow
                 /\ readers'[i].ooo = {}
                 /\ i # link'
      <3>1. m \in 1 .. Len(data) /\ data'[m] = data[m] /\ (IsFirst(m)' => IsFirst(m))
          BY <2>2, <2>3
      <3>2. i = data[m].id /\ i # 0
          BY <2>5, <3>1 DEF Streams
      <3>3. /\ ~Finished(readers[i]) /\ IsFirst(m) => data[m].seq = Base(i)
            /\ ~Finished(readers[i]) /\ data[m].kind = "data" =>
                  data[m].seq + data[m].n <= ReadPos(readers[i]) + ReadWindow
            /\ readers[i].ooo = {}
          BY <2>1, <3>1, <3>2 DEF PacketsFit
      <3> QED
          BY <2>4, <3>1, <3>2, <3>3
    <2>6. \A m \in 1 .. Len(data') : data'[m].id \in Streams
        BY <2>3, MessageTyping
    <2> QED
        BY <2>5, <2>6 DEF PacketsFit
  <1>10. LiveStream' /\ AcksTrue' /\ Accounted'
      BY <1>1, <1>3
      DEF DurableInv, LiveStream, Live, AcksTrue, Accounted, Serving, Unconnected,
          FiledAndLost
  <1>11. Drained => Drained'
      BY <1>1, <1>4 DEF Drained, Reopening, Unconnected, FiledAndLost
  <1>12. NothingSentYet'
      BY <1>1, <1>4 DEF DurableInv, NothingSentYet
  <1> QED
      BY <1>1, <1>5, <1>6, <1>7, <1>8, <1>9, <1>10, <1>11, <1>12 DEF DurableInv

LEMMA ReconnectKeepsInv ==
  ASSUME DurableInv, NEW conn \in Streams, Reconnect(conn)
  PROVE  DurableInv'
  <1>1. /\ link = 0 /\ ctl.pc = "idle" /\ conn = current + 1
        /\ link' = conn /\ ctl' = [ctl EXCEPT !.pc = "stat"]
        /\ UNCHANGED <<data, acks, attached, current, readers, loops, file, totalGap,
                       streamDone, late>>
      BY DEF Reconnect
  <1>2. /\ sm \in ManagerStates /\ ctl \in ControlStates /\ current \in Nat
        /\ current < MaxStreams /\ current + 1 \in 0 .. MaxStreams /\ current # 0
      BY <1>1, SizesAssumption DEF DurableInv, Types, Streams
  <1>3. sm' = sm
    <2>1. sm.id # conn
        BY <1>1, <1>2 DEF DurableInv, Connections, ManagerStates, Streams
    <2> QED
        BY <2>1 DEF Reconnect, HandlerReturns
  <1>4. ctl' \in ControlStates /\ ctl'.pc = "stat"
      BY <1>1, <1>2 DEF ControlStates
  <1>5. Types'
      BY <1>1, <1>2, <1>3, <1>4 DEF DurableInv, Types
  <1>6. Connections' /\ Counters'
      BY <1>1, <1>2, <1>3, <1>4
      DEF DurableInv, Connections, Reopening, Unconnected, Serving, Live, Counters
  <1>7. Readers' /\ Loops'
      BY <1>1, <1>4
      DEF DurableInv, Readers, Loops, ReaderOK, LoopOK, Unconnected, ReadPos
  <1>8. PacketsInOrder'
      BY <1>1, <1>3 DEF DurableInv, PacketsInOrder
  <1>9. PacketsFit'
      BY <1>1, <1>2, <1>4 DEF DurableInv, PacketsFit, Base, IsFirst, ReadPos
  <1>10. LiveStream' /\ AcksTrue' /\ Accounted'
      BY <1>1, <1>2, <1>3, <1>4
      DEF DurableInv, LiveStream, Live, AcksTrue, Accounted, Serving, Unconnected,
          FiledAndLost
  <1>11. Drained => Drained'
      BY <1>1, <1>4 DEF Drained, Unconnected, FiledAndLost
  <1>12. NothingSentYet'
      BY <1>4 DEF NothingSentYet
  <1> QED
      BY <1>1, <1>3, <1>5, <1>6, <1>7, <1>8, <1>9, <1>10, <1>11, <1>12 DEF DurableInv

-----------------------------------------------------------------------------
(* restartStreaming.                                                       *)

LEMMA StatFileKeepsInv ==
  ASSUME DurableInv, StatFile
  PROVE  DurableInv'
  <1>1. /\ ctl.pc = "stat" /\ ctl' = [ctl EXCEPT !.pc = "create", !.seq = FiledAndLost]
        /\ UNCHANGED <<sm, link, data, acks, attached, current, readers, loops, file,
                       totalGap, streamDone, late>>
      BY DEF StatFile
  <1>2. ctl \in ControlStates /\ FiledAndLost \in Nat
      BY DEF DurableInv, Types, FiledAndLost
  <1>3. ctl' \in ControlStates /\ ctl'.pc = "create" /\ ctl'.seq = FiledAndLost
      BY <1>1, <1>2 DEF ControlStates
  <1>4. Types'
      BY <1>1, <1>3 DEF DurableInv, Types
  <1>5. Connections' /\ Counters'
      BY <1>1, <1>3
      DEF DurableInv, Connections, Reopening, Unconnected, Serving, Live, Counters
  <1>6. Readers' /\ Loops'
      BY <1>1, <1>3
      DEF DurableInv, Readers, Loops, ReaderOK, LoopOK, Unconnected, ReadPos
  <1>7. PacketsInOrder' /\ PacketsFit' /\ AcksTrue'
      BY <1>1, <1>3
      DEF DurableInv, PacketsInOrder, PacketsFit, Base, IsFirst, ReadPos, AcksTrue
  <1>8. LiveStream'
      BY <1>1, <1>3
      DEF DurableInv, LiveStream, Live, LastSent, Base, EndSent, EndSeen, ReadPos
  <1>9. Accounted' /\ (Drained => Drained')
      BY <1>1, <1>2, <1>3
      DEF DurableInv, Accounted, Serving, Unconnected, Drained, Reopening, FiledAndLost
  <1>10. NothingSentYet'
      BY <1>3 DEF NothingSentYet
  <1> QED
      BY <1>1, <1>4, <1>5, <1>6, <1>7, <1>8, <1>9, <1>10 DEF DurableInv

LEMMA CreateReaderKeepsInv ==
  ASSUME DurableInv, CreateReader
  PROVE  DurableInv'
  <1> DEFINE c == current + 1
  <1>1. /\ ctl.pc = "create"
        /\ readers' = [readers EXCEPT ![c] = NewReader(c, ctl.seq)]
        /\ current' = c
        /\ ctl' = [ctl EXCEPT !.pc = "prepare"]
        /\ UNCHANGED <<sm, link, data, acks, attached, loops, file, totalGap, streamDone, late>>
      BY DEF CreateReader
  <1>2. /\ ctl \in ControlStates /\ current \in Streams /\ current < MaxStreams
        /\ sm.id \in Streams /\ sm.id < c
      BY <1>1
      DEF DurableInv, Types, Connections, Reopening, Streams, ManagerStates
  <1>3. c \in Streams /\ c \in Nat /\ current < c /\ current # c /\ c # 0
      BY <1>2, SizesAssumption DEF Streams
  <1>4. ctl' \in ControlStates /\ ctl'.pc = "prepare" /\ ctl'.seq = ctl.seq /\ ctl.seq \in Nat
      BY <1>1, <1>2 DEF ControlStates
  <1>5. \A i \in Streams : i # c => readers'[i] = readers[i]
      BY <1>1
  <1>6. /\ readers'[c] = NewReader(c, ctl.seq)
        /\ NewReader(c, ctl.seq) \in ReaderStates
      BY <1>1, <1>3, <1>4, ReadWindowAssumption
      DEF DurableInv, Types, NewReader, ReaderStates
  <1>7. /\ readers'[c].id = c /\ readers'[c].next = ctl.seq
        /\ readers'[c].buffer = << >> /\ readers'[c].ooo = {}
        /\ ~Finished(readers'[c])
      BY <1>6 DEF NewReader, Finished
  <1> HIDE DEF c
  <1>8. loops[c].pc = "none" /\ loops[c].bytes = << >>
      BY <1>2, <1>3 DEF DurableInv, Loops, LoopOK
  <1>9. Types'
      BY <1>1, <1>3, <1>4, <1>6 DEF DurableInv, Types
  <1>10. Connections'
      BY <1>1, <1>2, <1>3, <1>4, Typing
      DEF DurableInv, Connections, Reopening, Unconnected, Serving, Live, c
  <1>20. Counters'
      BY <1>1, <1>4 DEF DurableInv, Counters
  <1>11. Readers'
    <2>1. ASSUME NEW i \in Streams PROVE ReaderOK(i)'
      <3>1. CASE i = c
          BY <1>4, <1>7, <3>1, ReadWindowAssumption DEF ReaderOK, ReadPos
      <3>2. CASE i # c
          BY <1>5, <3>2 DEF DurableInv, Readers, ReaderOK, ReadPos
      <3> QED
          BY <3>1, <3>2
    <2> QED
        BY <1>1, <1>4, <1>7, <2>1 DEF Readers, Unconnected, Finished
  <1>12. Loops'
      BY <1>1, <1>2, <1>3, <1>4, <1>5, <1>8
      DEF DurableInv, Loops, LoopOK, Finished, Streams
  <1>13. \A k \in 1 .. Len(data) :
            data[k].id \in Streams /\ data[k].id # c /\ data[k].id # current'
      BY <1>1, <1>2, <1>3, MessageTyping, Typing
  <1>14. PacketsInOrder'
      BY <1>1 DEF DurableInv, PacketsInOrder
  <1>15. PacketsFit'
      BY <1>1, <1>4, <1>5, <1>13
      DEF DurableInv, PacketsFit, Base, IsFirst, ReadPos, Finished
  <1>16. LiveStream'
      BY <1>1, <1>2, <1>3 DEF LiveStream, Live, Streams
  <1>17. AcksTrue'
    <2>1. \A k \in 1 .. Len(acks) : acks[k].id <= c /\ acks[k].id # c
        BY <1>2, <1>3, MessageTyping, Typing
    <2> QED
        BY <1>1, <2>1 DEF AcksTrue
  <1>18. Accounted'
      BY <1>1, <1>4, <1>7, <1>8
      DEF DurableInv, Types, Accounted, Serving, Unconnected, FiledAndLost
  <1>19. Drained => Drained'
      BY <1>1, <1>2, <1>4, <1>7, <1>8
      DEF DurableInv, Types, Drained, Reopening, Unconnected, FiledAndLost
  <1>21. NothingSentYet'
      BY <1>4 DEF NothingSentYet
  <1> QED
      BY <1>1, <1>9, <1>10, <1>11, <1>12, <1>14, <1>15, <1>16, <1>17, <1>18, <1>19, <1>20, <1>21
      DEF DurableInv

LEMMA PrepareConnectKeepsInv ==
  ASSUME DurableInv, PrepareConnect
  PROVE  DurableInv'
  <1>1. /\ ctl.pc = "prepare" /\ link = current
        /\ UNCHANGED <<link, data, acks, attached, current, readers, loops, file, totalGap,
                       streamDone, late>>
      BY DEF PrepareConnect
  <1>2. /\ ctl \in ControlStates /\ sm \in ManagerStates /\ sm.id < current
      BY <1>1 DEF DurableInv, Types, Connections, Unconnected
  <1>3. ctl' \in ControlStates /\ ctl'.pc \in {"done", "kicked"} /\ ctl'.seq = ctl.seq
      BY <1>2 DEF PrepareConnect, ControlStates
  <1>4. /\ sm' \in ManagerStates
        /\ sm'.total = sm.total /\ sm'.head = sm.head /\ sm'.id = sm.id
        /\ sm' = sm \/ sm'.sent = 0
    <2>1. CASE sm' = sm
        BY <1>2, <2>1
    <2>2. CASE sm' = ClientDisconnected(sm)
        BY <1>2, <2>2 DEF ClientDisconnected, ManagerStates
    <2> QED
        BY <2>1, <2>2 DEF PrepareConnect
  <1>5. Types'
      BY <1>1, <1>3, <1>4 DEF DurableInv, Types
  <1>6. Connections'
      BY <1>1, <1>2, <1>3, <1>4
      DEF DurableInv, Connections, Reopening, Unconnected, Serving, Live, ManagerStates,
          Types, Streams
  <1>7. Counters'
      BY <1>1, <1>3, <1>4, SizesAssumption, SMTT(20)
      DEF DurableInv, Types, ManagerStates, Counters
  <1>8. Readers' /\ Loops' /\ AcksTrue'
      BY <1>1, <1>3
      DEF DurableInv, Readers, Loops, ReaderOK, LoopOK, Unconnected, ReadPos, AcksTrue
  <1>9. PacketsInOrder' /\ PacketsFit'
      BY <1>1, <1>3, <1>4
      DEF DurableInv, PacketsInOrder, PacketsFit, Base, IsFirst, ReadPos
  <1>10. LiveStream'
      BY <1>1, <1>2, <1>4 DEF LiveStream, Live, ManagerStates, Streams, DurableInv, Types
  <1>11. Accounted' /\ (Drained => Drained')
      BY <1>1, <1>3
      DEF DurableInv, Accounted, Serving, Unconnected, Drained, Reopening, FiledAndLost
  <1>12. NothingSentYet'
      BY <1>3 DEF NothingSentYet
  <1> QED
      BY <1>1, <1>5, <1>6, <1>7, <1>8, <1>9, <1>10, <1>11, <1>12 DEF DurableInv

LEMMA ConnectNewClientKeepsInv ==
  ASSUME DurableInv, ConnectNewClient
  PROVE  DurableInv'
  <1>1. /\ ctl.pc = "kicked"
        /\ UNCHANGED <<link, data, acks, attached, current, readers, loops, file, totalGap,
                       streamDone, late>>
      BY DEF ConnectNewClient
  <1>2. /\ ctl \in ControlStates /\ sm \in ManagerStates /\ sm.id < current
        /\ ctl.seq \in Nat /\ sm.head \in Nat /\ sm.total \in Nat /\ current \in Streams
      BY <1>1
      DEF DurableInv, Types, Connections, Unconnected, ManagerStates, ControlStates
  <1>3. CASE ctl.seq > sm.total
    <2>1. sm' = sm /\ ctl' = [ctl EXCEPT !.pc = "failed"]
        BY <1>3 DEF ConnectNewClient
    <2>2. ctl' \in ControlStates /\ ctl'.pc = "failed" /\ ctl'.seq = ctl.seq
        BY <1>2, <2>1 DEF ControlStates
    <2>3. Types' /\ Connections' /\ Counters'
        BY <1>1, <2>1, <2>2
        DEF DurableInv, Types, Connections, Reopening, Unconnected, Serving, Live, Counters
    <2>4. Readers' /\ Loops' /\ AcksTrue'
        BY <1>1, <2>2
        DEF DurableInv, Readers, Loops, ReaderOK, LoopOK, Unconnected, ReadPos, AcksTrue
    <2>5. PacketsInOrder' /\ PacketsFit'
        BY <1>1, <2>1, <2>2
        DEF DurableInv, PacketsInOrder, PacketsFit, Base, IsFirst, ReadPos
    <2>6. LiveStream'
        BY <1>1, <1>2, <2>1
        DEF LiveStream, Live, ManagerStates, Streams
    <2>7. Accounted' /\ (Drained => Drained')
        BY <1>1, <2>2
        DEF DurableInv, Accounted, Serving, Unconnected, Drained, Reopening, FiledAndLost
    <2>8. NothingSentYet'
        BY <2>2 DEF NothingSentYet
    <2> QED
        BY <1>1, <2>3, <2>4, <2>5, <2>6, <2>7, <2>8 DEF DurableInv
  <1>4. CASE ~(ctl.seq > sm.total)
    <2> DEFINE rtn == Greatest(sm.head, ctl.seq)
    <2>1. /\ rtn \in Nat /\ sm.head <= rtn /\ ctl.seq <= rtn /\ rtn <= sm.total
        BY <1>2, <1>4 DEF Greatest, DurableInv, Counters
    <2>2. /\ ctl' = [ctl EXCEPT !.pc = "prepared", !.rtn = rtn]
          /\ sm' = [sm EXCEPT !.connected = TRUE, !.id = current, !.rwnd = 0, !.sent = 0,
                              !.head = rtn]
        BY <1>4 DEF ConnectNewClient, ClientConnected, Corked
    <2> HIDE DEF rtn
    <2>3. /\ ctl' \in ControlStates /\ ctl'.pc = "prepared" /\ ctl'.seq = ctl.seq
          /\ ctl'.rtn = rtn
        BY <1>2, <2>1, <2>2 DEF ControlStates
    <2>4. /\ sm' \in ManagerStates /\ sm'.connected = TRUE /\ sm'.id = current
          /\ sm'.rwnd = 0 /\ sm'.sent = 0 /\ sm'.head = rtn /\ sm'.total = sm.total
        BY <1>2, <2>1, <2>2 DEF ManagerStates
    <2>5. Types'
        BY <1>1, <2>3, <2>4 DEF DurableInv, Types
    <2>6. Connections' /\ Counters'
        BY <1>1, <1>2, <2>1, <2>3, <2>4, SizesAssumption
        DEF DurableInv, Connections, Reopening, Unconnected, Serving, Live, Counters,
            Streams
    <2>7. Readers' /\ Loops' /\ AcksTrue'
        BY <1>1, <2>1, <2>3
        DEF DurableInv, Readers, Loops, ReaderOK, LoopOK, Unconnected, ReadPos, AcksTrue
    <2>8. \A k \in 1 .. Len(data) :
              data[k].id \in Streams /\ data[k].id # current /\ data[k].id <= current
        BY <1>2, MessageTyping, Typing
    <2>9. PacketsInOrder'
        BY <1>1, <2>4, <2>8 DEF DurableInv, PacketsInOrder
    <2>10. PacketsFit'
        BY <1>1, <2>3, <2>8 DEF DurableInv, PacketsFit, Base, IsFirst, ReadPos
    <2>11. LiveStream'
      <3>1. ~(data # << >> /\ data[Len(data)].id = current)
          BY <2>8 DEF DurableInv, Types
      <3>2. LastSent' = rtn
          BY <1>1, <2>3, <3>1 DEF LastSent, Base
      <3>3. ~EndSeen'
          BY <1>1, <2>8 DEF EndSeen, DurableInv, Readers, Unconnected, Finished
      <3> QED
          BY <2>1, <2>3, <2>4, <3>2, <3>3 DEF LiveStream
    <2>12. Accounted' /\ (Drained => Drained')
        BY <1>1, <2>3
        DEF DurableInv, Accounted, Serving, Unconnected, Drained, Reopening, FiledAndLost
    <2>13. NothingSentYet'
        BY <1>1, <2>8 DEF NothingSentYet
    <2> QED
        BY <1>1, <2>5, <2>6, <2>7, <2>9, <2>10, <2>11, <2>12, <2>13 DEF DurableInv
  <1> QED
      BY <1>3, <1>4

LEMMA RecordGapKeepsInv ==
  ASSUME DurableInv, RecordGap
  PROVE  DurableInv'
  <1>1. /\ ctl.pc = "prepared"
        /\ totalGap' = totalGap + (ctl.rtn - ctl.seq)
        /\ ctl' = [ctl EXCEPT !.pc = "start"]
        /\ UNCHANGED <<sm, link, data, acks, attached, current, loops, file, streamDone, late>>
      BY DEF RecordGap, NewGap
  <1>2. /\ ctl.seq <= ctl.rtn /\ ctl.seq \in Nat /\ ctl.rtn \in Nat /\ ctl \in ControlStates
        /\ readers[current].next = ctl.seq /\ readers[current].buffer = << >>
        /\ current \in Streams /\ readers[current].id = current
        /\ readers[current] \in ReaderStates
        /\ totalGap \in Nat
      BY <1>1, Typing, ReaderTyping DEF DurableInv, Readers, Types
  <1>3. ctl' \in ControlStates /\ ctl'.pc = "start"
      BY <1>1, <1>2 DEF ControlStates
  <1>4. /\ readers' \in [Streams -> ReaderStates]
        /\ \A i \in Streams : i # current => readers'[i] = readers[i]
        /\ readers'[current].next = ctl.rtn
        /\ readers'[current].buffer = << >>
        /\ readers'[current].id = current
        /\ readers'[current].ooo = readers[current].ooo
        /\ Finished(readers'[current]) <=> Finished(readers[current])
    <2>1. CASE NewGap > 0
      <3> DEFINE r == [readers[current] EXCEPT !.next = ctl.rtn]
      <3>1. r \in ReaderStates
          BY <1>2 DEF ReaderStates
      <3>2. /\ r.next = ctl.rtn /\ r.buffer = readers[current].buffer
            /\ r.id = readers[current].id /\ r.ooo = readers[current].ooo
            /\ r.closed = readers[current].closed /\ r.eof = readers[current].eof
            /\ r.err = readers[current].err
          BY <1>2 DEF ReaderStates
      <3>3. readers' = [readers EXCEPT ![current] = r]
          BY <2>1 DEF RecordGap, UpdateNextSeq
      <3> HIDE DEF r
      <3> QED
          BY <1>2, <3>1, <3>2, <3>3, ReaderTyping DEF Finished
    <2>2. CASE ~(NewGap > 0)
      <3>1. readers' = readers /\ ctl.rtn = ctl.seq
          BY <1>2, <2>2 DEF RecordGap, NewGap
      <3> QED
          BY <1>2, <3>1, ReaderTyping DEF Finished
    <2> QED
        BY <2>1, <2>2
  <1>5. Types'
      BY <1>1, <1>2, <1>3, <1>4 DEF DurableInv, Types
  <1>6. Connections' /\ Counters'
      BY <1>1, <1>3, <1>4
      DEF DurableInv, Connections, Reopening, Unconnected, Serving, Live, Counters
  <1>7. Readers'
    <2>1. ASSUME NEW i \in Streams PROVE ReaderOK(i)'
      <3>1. CASE i = current
          BY <1>2, <1>4, <3>1, ReadWindowAssumption DEF ReaderOK, ReadPos
      <3>2. CASE i # current
          BY <1>4, <3>2 DEF DurableInv, Readers, ReaderOK, ReadPos
      <3> QED
          BY <3>1, <3>2
    <2> QED
        BY <1>1, <1>3, <1>4, <2>1 DEF Readers, Unconnected
  <1>8. Loops'
    <2>1. ASSUME NEW i \in Streams PROVE LoopOK(i)'
      <3>1. Finished(readers[i]) <=> Finished(readers'[i])
          BY <1>4
      <3> QED
          BY <1>1, <3>1 DEF DurableInv, Loops, LoopOK
    <2> QED
        BY <1>1, <1>3, <2>1 DEF DurableInv, Loops, Unconnected
  <1>9. PacketsInOrder' /\ loops[current].bytes = << >>
      BY <1>1, <1>2 DEF DurableInv, PacketsInOrder, Loops, LoopOK
  <1>10. \A i \in Streams : Base(i)' = Base(i)
      BY <1>1, <1>3, <1>4 DEF Base
  <1>11. \A i \in Streams :
            /\ Finished(readers'[i]) <=> Finished(readers[i])
            /\ readers'[i].ooo = readers[i].ooo
            /\ readers'[i].next \in Nat /\ readers[i].next \in Nat
            /\ ReadPos(readers[i]) \in Int /\ ReadPos(readers'[i]) \in Int
            /\ ReadPos(readers[i]) <= ReadPos(readers'[i])
      BY <1>2, <1>4, ReaderTyping DEF ReadPos
  <1>12. PacketsFit'
    <2>1. ASSUME NEW k \in 1 .. Len(data)
          PROVE  /\ ~Finished(readers'[data[k].id]) /\ IsFirst(k) =>
                       data[k].seq = Base(data[k].id)'
                 /\ ~Finished(readers'[data[k].id]) /\ data[k].kind = "data" =>
                       data[k].seq + data[k].n <=
                           ReadPos(readers'[data[k].id]) + ReadWindow
                 /\ readers'[data[k].id].ooo = {}
                 /\ data[k].id = link /\ data[k].id = current =>
                       ~Finished(readers'[data[k].id])
      <3>1. data[k].id \in Streams /\ data[k].seq \in Nat /\ data[k].n \in Nat
          BY MessageTyping
      <3>2. PacketsFit
          BY DEF DurableInv
      <3> PICK i \in Streams : i = data[k].id
          BY <3>1
      <3>3. /\ ~Finished(readers[i]) /\ IsFirst(k) => data[k].seq = Base(i)
            /\ ~Finished(readers[i]) /\ data[k].kind = "data" =>
                  data[k].seq + data[k].n <= ReadPos(readers[i]) + ReadWindow
            /\ readers[i].ooo = {}
            /\ i = link /\ i = current => ~Finished(readers[i])
          BY <3>2 DEF PacketsFit
      <3>4. ~Finished(readers'[i]) /\ data[k].kind = "data" =>
                data[k].seq + data[k].n <= ReadPos(readers'[i]) + ReadWindow
          BY <1>11, <3>1, <3>3, ReadWindowAssumption, SMTT(20)
      <3>5. /\ ~Finished(readers'[i]) /\ IsFirst(k) => data[k].seq = Base(i)'
            /\ readers'[i].ooo = {}
            /\ i = link /\ i = current => ~Finished(readers'[i])
          BY <1>10, <1>11, <3>3
      <3> QED
          BY <1>1, <3>4, <3>5
    <2> QED
        BY <1>1, <2>1 DEF PacketsFit, IsFirst
  <1>13. LiveStream'
    <2> SUFFICES ASSUME Live PROVE LiveStream'
        BY <1>1 DEF LiveStream, Live
    <2>1. LastSent' = LastSent
        BY <1>1, <1>2, <1>10 DEF LastSent
    <2>2. EndSeen' => EndSeen
        BY <1>1, <1>2, <1>11 DEF EndSeen
    <2>3. sm.rwnd = 0 /\ sm.head = ctl.rtn
        BY <1>1 DEF DurableInv, Counters
    <2>4. ReadPos(readers'[current]) = ctl.rtn
        BY <1>2, <1>4 DEF ReadPos
    <2> QED
        BY <1>1, <1>2, <1>11, <2>1, <2>2, <2>3, <2>4, ReadWindowAssumption
        DEF DurableInv, LiveStream, Live, EndSent
  <1>14. AcksTrue'
    <2>1. ASSUME NEW k \in 1 .. Len(acks), link = current, acks[k].id = current
          PROVE  /\ acks[k].seq <= readers'[current].next
                 /\ acks[k].seq + acks[k].rwnd <= ReadPos(readers'[current]) + ReadWindow
      <3>1. acks[k].seq \in Nat /\ acks[k].rwnd \in Nat
          BY MessageTyping
      <3>2. /\ acks[k].seq <= readers[current].next
            /\ acks[k].seq + acks[k].rwnd <= ReadPos(readers[current]) + ReadWindow
          BY <2>1 DEF DurableInv, AcksTrue
      <3> QED
          BY <1>2, <1>4, <1>11, <3>1, <3>2, ReadWindowAssumption, SMTT(20)
    <2> QED
        BY <1>1, <2>1 DEF DurableInv, AcksTrue
  <1>15. FiledAndLost' = FiledAndLost + (ctl.rtn - ctl.seq)
      BY <1>1, <1>2 DEF FiledAndLost, DurableInv, Types
  <1>16. Accounted'
      BY <1>1, <1>2, <1>3, <1>4, <1>9, <1>15, Typing
      DEF DurableInv, Accounted, Serving, Unconnected, Counters
  <1>17. Drained => Drained'
      BY <1>1, <1>2, <1>3, <1>4, <1>9, <1>15, Typing
      DEF Drained, Reopening, Unconnected
  <1>18. NothingSentYet'
      BY <1>1, <1>3 DEF DurableInv, NothingSentYet
  <1> QED
      BY <1>1, <1>5, <1>6, <1>7, <1>8, <1>9, <1>12, <1>13, <1>14, <1>16, <1>17, <1>18
      DEF DurableInv

LEMMA StartStreamKeepsInv ==
  ASSUME DurableInv, StartStream
  PROVE  DurableInv'
  <1>1. /\ ctl.pc = "start" /\ link = current
        /\ attached' = attached \cup {current}
        /\ sm' = [sm EXCEPT !.rwnd = ReadWindow]
        /\ ctl' = [ctl EXCEPT !.pc = "started"]
        /\ UNCHANGED <<link, data, acks, current, readers, loops, file, totalGap,
                       streamDone, late>>
      BY DEF StartStream, SetRwndSize
  <1>2. /\ readers[current].buffer = << >> /\ sm.head = readers[current].next
        /\ readers[current].next \in Nat
      BY <1>1, Typing, ReaderTyping DEF DurableInv, Readers, Counters
  <1>3. ctl' \in ControlStates /\ ctl'.pc = "started"
      BY <1>1, Typing DEF ControlStates
  <1>4. /\ sm' \in ManagerStates /\ sm'.rwnd = ReadWindow
        /\ sm'.total = sm.total /\ sm'.head = sm.head /\ sm'.id = sm.id
        /\ sm'.sent = sm.sent /\ sm'.connected = sm.connected /\ sm'.ended = sm.ended
        /\ sm'.termSent = sm.termSent
      BY <1>1, Typing, ReadWindowAssumption DEF ManagerStates
  <1>5. Types'
      BY <1>1, <1>3, <1>4, Typing DEF DurableInv, Types
  <1>6. Connections' /\ Counters'
      BY <1>1, <1>3, <1>4
      DEF DurableInv, Connections, Reopening, Unconnected, Serving, Live, Counters
  <1>7. Readers' /\ Loops' /\ AcksTrue'
      BY <1>1, <1>3
      DEF DurableInv, Readers, Loops, ReaderOK, LoopOK, Unconnected, ReadPos, AcksTrue
  <1>8. PacketsInOrder' /\ PacketsFit'
      BY <1>1, <1>3, <1>4
      DEF DurableInv, PacketsInOrder, PacketsFit, Base, IsFirst, ReadPos
  <1>9. LiveStream'
    <2>1. LastSent' = LastSent /\ (EndSeen' <=> EndSeen) /\ (EndSent' <=> EndSent)
        BY <1>1, <1>3, <1>4 DEF LastSent, Base, EndSeen, EndSent, Finished
    <2>2. ReadPos(readers[current]) = sm.head
        BY <1>2 DEF ReadPos
    <2> QED
        BY <1>1, <1>3, <1>4, <2>1, <2>2, Typing, ReadWindowAssumption
        DEF DurableInv, LiveStream, Live, ReadPos, Finished
  <1>10. Accounted' /\ (Drained => Drained')
      BY <1>1, <1>2, <1>3, <1>4, Typing
      DEF DurableInv, Accounted, Serving, Unconnected, Drained, Reopening, FiledAndLost
  <1>11. NothingSentYet'
      BY <1>3 DEF NothingSentYet
  <1> QED
      BY <1>1, <1>5, <1>6, <1>7, <1>8, <1>9, <1>10, <1>11 DEF DurableInv

LEMMA StartLoopKeepsInv ==
  ASSUME DurableInv, StartLoop
  PROVE  DurableInv'
  <1>1. /\ ctl.pc = "started"
        /\ loops' = [loops EXCEPT ![current].pc = "read"]
        /\ ctl' = [ctl EXCEPT !.pc = "idle", !.seq = 0, !.rtn = 0]
        /\ UNCHANGED <<sm, link, data, acks, attached, current, readers, file, totalGap,
                       streamDone, late>>
      BY DEF StartLoop
  <1>2. ctl' \in ControlStates /\ ctl'.pc = "idle"
      BY <1>1, Typing DEF ControlStates
  <1>3. loops[current] \in LoopStates /\ current \in Streams /\ loops[current].bytes = << >>
      BY <1>1, Typing, ReaderTyping DEF DurableInv, Loops, LoopOK
  <1>4. /\ loops' \in [Streams -> LoopStates]
        /\ loops'[current].pc = "read" /\ loops'[current].bytes = << >>
        /\ \A i \in Streams : i # current => loops'[i] = loops[i]
    <2> DEFINE l == [loops[current] EXCEPT !.pc = "read"]
    <2>1. l \in LoopStates /\ l.pc = "read" /\ l.bytes = << >>
        BY <1>3 DEF LoopStates
    <2>2. loops' = [loops EXCEPT ![current] = l]
        BY <1>1
    <2> HIDE DEF l
    <2> QED
        BY <1>3, <2>1, <2>2, ReaderTyping
  <1>5. Types'
      BY <1>1, <1>2, <1>4 DEF DurableInv, Types
  <1>6. Connections' /\ Counters'
      BY <1>1, <1>2, <1>4
      DEF DurableInv, Connections, Reopening, Unconnected, Serving, Live, Counters
  <1>7. Readers' /\ AcksTrue'
      BY <1>1, <1>2
      DEF DurableInv, Readers, ReaderOK, Unconnected, ReadPos, AcksTrue
  <1>8. Loops'
    <2>1. ASSUME NEW i \in Streams PROVE LoopOK(i)'
      <3>1. CASE i = current
          BY <1>1, <1>4, <3>1, Typing DEF LoopOK
      <3>2. CASE i # current
          BY <1>1, <1>4, <3>2 DEF DurableInv, Loops, LoopOK
      <3> QED
          BY <3>1, <3>2
    <2> QED
        BY <1>1, <1>2, <2>1 DEF Loops, Unconnected
  <1>9. PacketsInOrder' /\ PacketsFit'
      BY <1>1, <1>2
      DEF DurableInv, PacketsInOrder, PacketsFit, Base, IsFirst, ReadPos
  <1>10. LiveStream'
      BY <1>1, <1>2
      DEF DurableInv, LiveStream, Live, LastSent, Base, EndSent, EndSeen, ReadPos
  <1>11. Accounted' /\ (Drained => Drained')
      BY <1>1, <1>2, <1>3, <1>4, Typing
      DEF DurableInv, Accounted, Serving, Unconnected, Drained, Reopening, FiledAndLost
  <1>12. NothingSentYet'
      BY <1>2 DEF NothingSentYet
  <1> QED
      BY <1>1, <1>5, <1>6, <1>7, <1>8, <1>9, <1>10, <1>11, <1>12 DEF DurableInv

(* Giving a restart up closes the current reader; the restart has not got  *)
(* as far as its client, or its connection is gone.                        *)
LEMMA GiveUpReaderKeepsInv ==
  ASSUME DurableInv, GiveUpReader, streamDone' \in BOOLEAN,
         ~Reopening, ctl.pc # "idle", link # current \/ sm.id < current
  PROVE  DurableInv'
  <1> DEFINE out == CloseReader(readers[current])
  <1>1. /\ readers' = [readers EXCEPT ![current] = out.reader]
        /\ Send(out.acks)
        /\ ctl' = [ctl EXCEPT !.pc = "idle", !.seq = 0, !.rtn = 0]
        /\ UNCHANGED <<sm, link, data, attached, current, loops, file, totalGap, late>>
      BY DEF GiveUpReader
  <1>2. current \in Streams /\ sm.id \in Nat /\ current \in Nat
      BY Typing
  <1>3. /\ out.reader \in ReaderStates /\ Finished(out.reader)
        /\ out.reader.id = readers[current].id
        /\ out.reader.next = readers[current].next
        /\ out.reader.buffer = readers[current].buffer
        /\ out.reader.ooo = readers[current].ooo
        /\ out.acks \in Seq(Acks)
        /\ \A k \in 1 .. Len(out.acks) :
               /\ out.acks[k].id = readers[current].id
               /\ out.acks[k].seq = readers[current].next
               /\ out.acks[k].rwnd = ReadWindow - Len(readers[current].buffer)
    <2>1. readers[current] \in ReaderStates /\ Len(readers[current].buffer) <= ReadWindow
        BY <1>2, ReaderTyping
    <2>2. out = CloseReader(readers[current])
        OBVIOUS
    <2> HIDE DEF out
    <2> QED
        BY <2>1, <2>2, CloseEffect
  <1> HIDE DEF out
  <1>4. /\ ctl' \in ControlStates /\ ctl'.pc = "idle"
      BY <1>1, Typing DEF ControlStates
  <1>5. /\ readers' \in [Streams -> ReaderStates]
        /\ readers'[current] = out.reader
        /\ \A i \in Streams : i # current => readers'[i] = readers[i]
      BY <1>1, <1>2, <1>3, ReaderTyping
  <1>6. ReadersAdvance
    <2>1. ASSUME NEW i \in Streams
          PROVE  /\ Finished(readers[i]) => Finished(readers'[i])
                 /\ readers'[i].ooo = readers[i].ooo
                 /\ readers'[i].next = readers[i].next
                 /\ readers'[i].buffer = readers[i].buffer
        BY <1>3, <1>5
    <2> QED
        BY <2>1, ReaderTyping DEF ReadersAdvance, ReadPos
  <1>7. acks' \in Seq(Acks) /\ AcksTrue'
    <2>1. /\ readers'[current].next = readers[current].next
          /\ ReadPos(readers'[current]) = ReadPos(readers[current])
          /\ ReadPos(readers[current]) =
                readers[current].next - Len(readers[current].buffer)
          /\ readers[current].id = current
        BY <1>2, <1>3, <1>5, ReaderTyping DEF ReadPos
    <2>2. \A k \in 1 .. Len(out.acks) :
              /\ out.acks[k].id <= current
              /\ out.acks[k].seq <= readers'[current].next
              /\ out.acks[k].seq + out.acks[k].rwnd <=
                     ReadPos(readers'[current]) + ReadWindow
        BY <1>2, <1>3, <2>1, ReaderTyping, ReadWindowAssumption, SMTT(20)
    <2>3. /\ readers'[current].next \in Nat
          /\ readers[current].next <= readers'[current].next
          /\ ReadPos(readers'[current]) \in Int
          /\ ReadPos(readers[current]) <= ReadPos(readers'[current])
        BY <1>2, <2>1, ReaderTyping, ReadPosTyping
    <2> QED
        BY <1>1, <1>3, <2>2, <2>3, SendingKeepsAcks
  <1>8. Types'
      BY <1>1, <1>4, <1>5, <1>7 DEF DurableInv, Types
  <1>9. loops[current].pc = "none" /\ loops[current].bytes = << >> /\ attached \in {{}, {current}}
      BY <1>2, ZenonT(30) DEF DurableInv, Loops, LoopOK, Unconnected, Reopening, Types,
                  ControlStates, Connections
  <1>10. Connections' /\ Counters'
      BY <1>1, <1>2, <1>4, <1>9
      DEF DurableInv, Connections, Reopening, Unconnected, Serving, Live, Counters
  <1>11. Readers'
    <2>1. ASSUME NEW i \in Streams PROVE ReaderOK(i)'
        BY <1>3, <1>5 DEF DurableInv, Readers, ReaderOK, ReadPos
    <2> QED
        BY <1>4, <2>1 DEF Readers, Unconnected
  <1>12. Loops'
      BY <1>1, <1>3, <1>4, <1>5 DEF DurableInv, Loops, LoopOK, Unconnected, Finished
  <1>13. PacketsInOrder' /\ PacketsFit' /\ LiveStream'
    <2>1. \A i \in Streams : ~Finished(readers'[i]) => Base(i)' = Base(i)
        BY <1>1, <1>3, <1>4, <1>5 DEF Base
    <2> QED
        BY <1>1, <1>2, <1>6, <2>1, AdvanceKeepsPackets
  <1>14. Accounted' /\ (Drained => Drained')
      BY <1>1, <1>3, <1>4, <1>5, <1>9
      DEF DurableInv, Accounted, Serving, Unconnected, Drained, Reopening, FiledAndLost
  <1>15. NothingSentYet'
      BY <1>4 DEF NothingSentYet
  <1> QED
      BY <1>1, <1>7, <1>8, <1>10, <1>11, <1>12, <1>13, <1>14, <1>15 DEF DurableInv

LEMMA StreamWasDoneKeepsInv ==
  ASSUME DurableInv, StreamWasDone
  PROVE  DurableInv'
  <1>1. ctl.pc = "done" /\ GiveUpReader /\ streamDone' \in BOOLEAN
      BY DEF StreamWasDone
  <1>2. sm.id < current /\ ~Reopening
      BY <1>1 DEF DurableInv, Connections, Unconnected, Reopening
  <1> QED
      BY <1>1, <1>2, GiveUpReaderKeepsInv

LEMMA GiveUpKeepsInv ==
  ASSUME DurableInv, GiveUp
  PROVE  DurableInv'
  <1>1. GiveUpReader /\ streamDone' \in BOOLEAN
      BY DEF GiveUp, DurableInv, Types
  <1>2. ctl.pc # "idle" /\ ~Reopening /\ (link # current \/ sm.id < current)
      BY DEF GiveUp, DurableInv, Connections, Unconnected, Reopening
  <1> QED
      BY <1>1, <1>2, GiveUpReaderKeepsInv

-----------------------------------------------------------------------------
(* Packets and acks.                                                       *)

LEMMA LiveConnection ==
  ASSUME DurableInv, link = sm.id
  PROVE  /\ Live /\ Serving /\ ~Reopening /\ ~Unconnected
         /\ sm.connected /\ current # 0
  <1>1. /\ current \in Nat /\ current >= 1 /\ sm.id \in Nat /\ sm.id >= 1
        /\ sm.id <= current
      BY Typing DEF DurableInv, Connections, Streams
  <1>2. link = current
      BY <1>1 DEF DurableInv, Connections
  <1> QED
      BY <1>1, <1>2
      DEF DurableInv, Connections, Live, Serving, Reopening, Unconnected

LEMMA AppendKeepsPackets ==
  ASSUME DurableInv, Live, ~EndSeen,
         NEW p \in Packets, p.id = current, p.seq = LastSent,
         (p.kind = "data") <=> (p.n # 0),
         p.kind = "data" => p.seq + p.n <= ReadPos(readers[current]) + ReadWindow,
         data' \in Seq(Packets), Len(data') = Len(data) + 1,
         data'[Len(data) + 1] = p,
         \A k \in 1 .. Len(data) : data'[k] = data[k],
         sm'.id = sm.id,
         UNCHANGED <<link, current, readers, ctl>>
  PROVE  /\ PacketsInOrder' /\ PacketsFit'
         /\ LastSent' = p.seq + p.n
         /\ EndSeen' => p.kind # "data"
  <1> DEFINE l == Len(data)
  <1>1. /\ data \in Seq(Packets) /\ l \in Nat /\ current \in Streams
      BY MessageTyping, Typing
  <1>2. /\ Len(data') = l + 1 /\ data'[l + 1] = p
        /\ \A k \in 1 .. l : data'[k] = data[k]
      BY <1>1
  <1>3. /\ ~Finished(readers[current]) /\ readers[current].ooo = {}
        /\ \A k \in 1 .. l : data[k].id = current => data[k].kind = "data"
        /\ sm.id = current /\ link = current
      BY DEF EndSeen, Live
  <1>4. \A k \in 1 .. l : data[k].id <= current /\ data[k].id \in Nat
      BY MessageTyping
  <1>5. IF l # 0 /\ data[l].id = current THEN p.seq = data[l].seq + data[l].n
                                         ELSE p.seq = Base(current)
      BY <1>1 DEF LastSent
  <1> HIDE DEF l
  <1>6. PacketsInOrder'
    <2>1. ASSUME NEW k \in 1 .. l + 1
          PROVE  /\ data'[k].id <= sm'.id
                 /\ data'[k].kind = "data" <=> data'[k].n # 0
      <3>1. CASE k = l + 1
          BY <1>1, <1>2, <1>3, <3>1, Typing
      <3>2. CASE k # l + 1
        <4>1. k \in 1 .. l /\ data'[k] = data[k]
            BY <1>1, <1>2, <3>2
        <4> QED
            BY <4>1 DEF DurableInv, PacketsInOrder, l
      <3> QED
          BY <3>1, <3>2
    <2>2. ASSUME NEW j \in 1 .. l + 1, NEW k \in 1 .. l + 1, j < k
          PROVE  /\ data'[j].id <= data'[k].id
                 /\ data'[j].kind # "data" => data'[j].id # data'[k].id
      <3>1. j \in 1 .. l /\ data'[j] = data[j]
          BY <1>1, <1>2, <2>2
      <3>2. CASE k = l + 1
          BY <1>2, <1>3, <1>4, <3>1, <3>2
      <3>3. CASE k # l + 1
        <4>1. k \in 1 .. l /\ data'[k] = data[k]
            BY <1>1, <1>2, <3>3
        <4> QED
            BY <2>2, <3>1, <4>1 DEF DurableInv, PacketsInOrder, l
      <3> QED
          BY <3>2, <3>3
    <2>3. ASSUME NEW k \in 1 .. l + 1, k > 1, data'[k - 1].id = data'[k].id
          PROVE  data'[k].seq = data'[k - 1].seq + data'[k - 1].n
      <3>1. k - 1 \in 1 .. l /\ data'[k - 1] = data[k - 1]
          BY <1>1, <1>2, <2>3
      <3>2. CASE k = l + 1
        <4>1. k - 1 = l /\ l # 0
            BY <1>1, <2>3, <3>2
        <4> QED
            BY <1>2, <1>5, <2>3, <3>1, <3>2, <4>1
      <3>3. CASE k # l + 1
        <4>1. k \in 1 .. l /\ data'[k] = data[k]
            BY <1>1, <1>2, <3>3
        <4> QED
            BY <2>3, <3>1, <4>1 DEF DurableInv, PacketsInOrder, l
      <3> QED
          BY <3>2, <3>3
    <2>4. 1 .. Len(data') = 1 .. l + 1
        BY <1>2
    <2> QED
        BY <2>1, <2>2, <2>3, <2>4 DEF PacketsInOrder
  <1>7. PacketsFit'
    <2>1. ASSUME NEW k \in 1 .. l + 1, NEW i \in Streams, i = data'[k].id
          PROVE  /\ ~Finished(readers[i]) /\ IsFirst(k)' => data'[k].seq = Base(i)
                 /\ ~Finished(readers[i]) /\ data'[k].kind = "data" =>
                       data'[k].seq + data'[k].n <= ReadPos(readers[i]) + ReadWindow
                 /\ readers[i].ooo = {}
                 /\ i = link /\ i = current => ~Finished(readers[i])
      <3>1. CASE k = l + 1
        <4>1. i = current /\ data'[k] = p
            BY <1>2, <2>1, <3>1
        <4>2. IsFirst(k)' => ~(l # 0 /\ data[l].id = current)
            BY <1>1, <1>2, <3>1, <4>1 DEF IsFirst
        <4> QED
            BY <1>3, <1>5, <4>1, <4>2
      <3>2. CASE k # l + 1
        <4>1. k \in 1 .. l /\ data'[k] = data[k] /\ (k > 1 => data'[k - 1] = data[k - 1])
            BY <1>1, <1>2, <3>2
        <4>2. ASSUME IsFirst(k)' PROVE IsFirst(k)
          <5>1. k = 1 \/ (k > 1 /\ data'[k - 1].id # data'[k].id)
              BY <1>1, <4>1, <4>2 DEF IsFirst
          <5> QED
              BY <4>1, <5>1 DEF IsFirst
        <4> QED
            BY <2>1, <4>1, <4>2 DEF DurableInv, PacketsFit, l
      <3> QED
          BY <3>1, <3>2
    <2>3. 1 .. Len(data') = 1 .. l + 1
        BY <1>2
    <2>4. \A k \in 1 .. l + 1 : data'[k] \in Packets
        BY <1>2, <2>3
    <2>5. \A k \in 1 .. l + 1 : data'[k].id \in Streams
        BY <2>4 DEF Packets
    <2>6. ASSUME NEW k \in 1 .. Len(data')
          PROVE  LET i == data'[k].id
                     r == readers[i]
                 IN  /\ ~Finished(r) /\ (k = 1 \/ data'[k - 1].id # data'[k].id) =>
                           data'[k].seq = Base(i)
                     /\ ~Finished(r) /\ data'[k].kind = "data" =>
                           data'[k].seq + data'[k].n <= ReadPos(r) + ReadWindow
                     /\ r.ooo = {}
                     /\ i = link /\ i = current => ~Finished(r)
        BY <2>1, <2>3, <2>5 DEF IsFirst
    <2> QED
        BY <2>6 DEF PacketsFit, Finished, Base, IsFirst, ReadPos
  <1>8. LastSent' = p.seq + p.n
      BY <1>1, <1>2 DEF LastSent
  <1>9. EndSeen' => p.kind # "data"
    <2>1. ASSUME NEW k \in 1 .. l + 1, data'[k].id = current, data'[k].kind # "data"
          PROVE  p.kind # "data"
      <3>1. k = l + 1 \/ (k \in 1 .. l /\ data'[k] = data[k])
          BY <1>1, <1>2
      <3> QED
          BY <1>2, <1>3, <2>1, <3>1
    <2> QED
        BY <1>2, <1>3, <2>1 DEF EndSeen, Finished
  <1> QED
      BY <1>6, <1>7, <1>8, <1>9

LEMMA SendPacketKeepsInv ==
  ASSUME DurableInv, SendPacket
  PROVE  DurableInv'
  <1> DEFINE t == ToSend(sm)
  <1>1. /\ sm.connected /\ t > 0
        /\ Transmit(DataPacket(sm.id, sm.head + sm.sent, t))
        /\ sm' = [sm EXCEPT !.sent = sm.sent + t]
        /\ UNCHANGED <<link, acks, attached, current, readers, loops, ctl, file, totalGap,
                       streamDone, late>>
      BY DEF SendPacket
  <1>2. /\ t \in Nat /\ t <= sm.rwnd - sm.sent /\ t <= RingSize - sm.sent
        /\ t <= sm.total - sm.head - sm.sent
      BY <1>1, Typing, SizesAssumption DEF ToSend, Least, Window, Held
  <1> HIDE DEF t
  <1>3. /\ sm' \in ManagerStates /\ sm'.sent = sm.sent + t
        /\ sm'.total = sm.total /\ sm'.head = sm.head /\ sm'.id = sm.id
        /\ sm'.rwnd = sm.rwnd /\ sm'.connected = sm.connected /\ sm'.ended = sm.ended
        /\ sm'.termSent = sm.termSent
    <2>1. sm \in ManagerStates /\ sm.sent + t \in Nat
        BY <1>2, Typing
    <2> QED
        BY <1>1, <2>1 DEF ManagerStates
  <1>4. ctl.pc \notin {"prepared", "start"}
      BY <1>1, <1>2 DEF DurableInv, Counters
  <1>5. Connections' /\ Counters'
      BY <1>1, <1>2, <1>3, <1>4, Typing, SizesAssumption
      DEF DurableInv, Connections, Reopening, Unconnected, Serving, Live, Counters
  <1>6. Readers' /\ Loops' /\ AcksTrue'
      BY <1>1
      DEF DurableInv, Readers, Loops, ReaderOK, LoopOK, Unconnected, ReadPos, AcksTrue
  <1>7. Accounted'
      BY <1>1, <1>3 DEF DurableInv, Accounted, Serving, Unconnected, FiledAndLost
  <1>8. CASE link # sm.id
    <2>1. data' = data
        BY <1>1, <1>8 DEF Transmit
    <2>2. Types'
        BY <1>1, <1>3, <2>1 DEF DurableInv, Types
    <2>3. PacketsInOrder' /\ PacketsFit' /\ LiveStream'
        BY <1>1, <1>3, <1>8, <2>1
        DEF DurableInv, PacketsInOrder, PacketsFit, Base, IsFirst, ReadPos, LiveStream, Live
    <2>4. Drained => Drained'
        BY <1>1, <2>1 DEF Drained, Unconnected, FiledAndLost
    <2>5. NothingSentYet'
        BY <1>1, <1>4 DEF NothingSentYet
    <2> QED
        BY <1>1, <1>5, <1>6, <1>7, <2>2, <2>3, <2>4, <2>5 DEF DurableInv
  <1>9. CASE link = sm.id
    <2> DEFINE p == DataPacket(sm.id, sm.head + sm.sent, t)
    <2>1. Live /\ ~Reopening /\ sm.id = current
        BY <1>9, LiveConnection DEF Live
    <2>2. ~EndSeen /\ LastSent = sm.head + sm.sent
          /\ sm.head + sm.rwnd <= ReadPos(readers[current]) + ReadWindow
        BY <1>1, <1>2, <1>4, <2>1, Typing, SMTT(20)
        DEF DurableInv, LiveStream, EndSent, EndSeen
    <2>3. /\ p \in Packets /\ p.id = current /\ p.seq = LastSent /\ p.kind = "data"
          /\ p.n = t
        BY <1>2, <2>1, <2>2, Typing DEF DataPacket, Packets
    <2>4. /\ data' \in Seq(Packets) /\ Len(data') = Len(data) + 1
          /\ data'[Len(data) + 1] = p
          /\ \A k \in 1 .. Len(data) : data'[k] = data[k]
      <3>1. data' = Append(data, p)
          BY <1>1, <1>9 DEF Transmit
      <3> HIDE DEF p
      <3> QED
          BY <2>3, <3>1, MessageTyping
    <2> HIDE DEF p
    <2>5. p.seq + p.n <= ReadPos(readers[current]) + ReadWindow
        BY <1>2, <2>2, <2>3, Typing, ReadPosTyping, ReadWindowAssumption
    <2>6. /\ PacketsInOrder' /\ PacketsFit'
          /\ LastSent' = p.seq + p.n /\ ~EndSeen'
        BY <1>1, <1>2, <1>3, <2>1, <2>2, <2>3, <2>4, <2>5, AppendKeepsPackets
    <2>7. LiveStream'
        BY <1>1, <1>2, <1>3, <2>2, <2>3, <2>6, Typing DEF LiveStream, ReadPos
    <2>8. Types'
        BY <1>1, <1>3, <2>4 DEF DurableInv, Types
    <2>9. Drained => Drained'
        BY <1>1, <2>1 DEF Drained, Unconnected, FiledAndLost
    <2>10. NothingSentYet'
        BY <1>1, <1>4 DEF NothingSentYet
    <2> QED
        BY <1>1, <1>5, <1>6, <1>7, <2>6, <2>7, <2>8, <2>9, <2>10 DEF DurableInv
  <1> QED
      BY <1>8, <1>9

LEMMA SendEndKeepsInv ==
  ASSUME DurableInv, SendEnd
  PROVE  DurableInv'
  <1>1. /\ sm.connected /\ sm.ended # "none" /\ ~sm.termSent
        /\ Transmit(EndPacket(sm.ended, sm.id, sm.total))
        /\ sm' = [sm EXCEPT !.termSent = TRUE]
        /\ UNCHANGED <<link, acks, attached, current, readers, loops, ctl, file, totalGap,
                       streamDone, late>>
      BY DEF SendEnd
  <1>2. sm.total = sm.head /\ sm.sent = 0
      BY Typing DEF SendEnd, Held, DurableInv, Counters
  <1>3. /\ sm' \in ManagerStates /\ sm'.sent = sm.sent
        /\ sm'.total = sm.total /\ sm'.head = sm.head /\ sm'.id = sm.id
        /\ sm'.rwnd = sm.rwnd /\ sm'.connected = sm.connected /\ sm'.ended = sm.ended
        /\ sm'.termSent = TRUE
      BY <1>1, Typing DEF ManagerStates
  <1>4. Connections' /\ Counters'
      BY <1>1, <1>3
      DEF DurableInv, Connections, Reopening, Unconnected, Serving, Live, Counters
  <1>5. Readers' /\ Loops' /\ AcksTrue'
      BY <1>1
      DEF DurableInv, Readers, Loops, ReaderOK, LoopOK, Unconnected, ReadPos, AcksTrue
  <1>6. Accounted'
      BY <1>1, <1>3 DEF DurableInv, Accounted, Serving, Unconnected, FiledAndLost
  <1>7. CASE link # sm.id
    <2>1. data' = data
        BY <1>1, <1>7 DEF Transmit
    <2>2. Types'
        BY <1>1, <1>3, <2>1 DEF DurableInv, Types
    <2>3. PacketsInOrder' /\ PacketsFit' /\ LiveStream'
        BY <1>1, <1>3, <1>7, <2>1
        DEF DurableInv, PacketsInOrder, PacketsFit, Base, IsFirst, ReadPos, LiveStream, Live
    <2>4. Drained => Drained'
        BY <1>1, <2>1 DEF Drained, Unconnected, FiledAndLost
    <2>5. NothingSentYet'
        BY <1>1, <2>1 DEF DurableInv, NothingSentYet
    <2> QED
        BY <1>1, <1>4, <1>5, <1>6, <2>2, <2>3, <2>4, <2>5 DEF DurableInv
  <1>8. CASE link = sm.id
    <2> DEFINE p == EndPacket(sm.ended, sm.id, sm.total)
    <2>1. Live /\ ~Reopening /\ sm.id = current
        BY <1>8, LiveConnection DEF Live
    <2>2. ~EndSeen /\ LastSent = sm.head + sm.sent
        BY <1>1, <2>1 DEF DurableInv, LiveStream, EndSent, EndSeen
    <2>3. /\ p \in Packets /\ p.id = current /\ p.seq = LastSent /\ p.kind # "data"
          /\ p.n = 0 /\ p.seq = sm.head
        BY <1>1, <1>2, <2>1, <2>2, Typing DEF EndPacket, Packets, ManagerStates
    <2>4. /\ data' \in Seq(Packets) /\ Len(data') = Len(data) + 1
          /\ data'[Len(data) + 1] = p
          /\ \A k \in 1 .. Len(data) : data'[k] = data[k]
      <3>1. data' = Append(data, p)
          BY <1>1, <1>8 DEF Transmit
      <3> HIDE DEF p
      <3> QED
          BY <2>3, <3>1, MessageTyping
    <2> HIDE DEF p
    <2>5. /\ PacketsInOrder' /\ PacketsFit'
          /\ LastSent' = p.seq + p.n
        BY <1>1, <1>3, <2>1, <2>2, <2>3, <2>4, AppendKeepsPackets
    <2>6. LiveStream'
        BY <1>1, <1>2, <1>3, <2>1, <2>3, <2>5, Typing
        DEF DurableInv, LiveStream, EndSent, ReadPos
    <2>7. Types'
        BY <1>1, <1>3, <2>4 DEF DurableInv, Types
    <2>8. Drained => Drained'
        BY <1>1, <2>1 DEF Drained, Unconnected, FiledAndLost
    <2>9. NothingSentYet'
        BY <1>1, <2>3, <2>4, MessageTyping DEF DurableInv, NothingSentYet
    <2> QED
        BY <1>1, <1>4, <1>5, <1>6, <2>5, <2>6, <2>7, <2>8, <2>9 DEF DurableInv
  <1> QED
      BY <1>7, <1>8

LEMMA AckArrivesKeepsInv ==
  ASSUME DurableInv, AckArrives
  PROVE  DurableInv'
  <1> DEFINE a == Head(acks)
  <1>1. /\ acks # << >> /\ acks' = Tail(acks)
        /\ sm' = IF a.id \in attached THEN RecvAck(sm, a) ELSE sm
        /\ attached' \subseteq attached
        /\ UNCHANGED <<link, data, current, readers, loops, ctl, file, totalGap, streamDone, late>>
      BY DEF AckArrives
  <1>2. /\ acks \in Seq(Acks) /\ a = acks[1] /\ 1 \in 1 .. Len(acks)
        /\ acks' \in Seq(Acks) /\ Len(acks') = Len(acks) - 1
        /\ \A k \in 1 .. Len(acks') : k + 1 \in 1 .. Len(acks) /\ acks'[k] = acks[k + 1]
      BY <1>1, MessageTyping
  <1>3. /\ a \in Acks /\ a.seq \in Nat /\ a.rwnd \in Nat /\ a.id \in Nat
      BY <1>2, MessageTyping
  <1> HIDE DEF a
  <1>4. a.id \in attached =>
            /\ a.id = current /\ link = current /\ ctl.pc \in {"idle", "started"}
            /\ a.seq <= readers[current].next
            /\ a.seq + a.rwnd <= ReadPos(readers[current]) + ReadWindow
      BY <1>2 DEF DurableInv, Connections, AcksTrue
  <1>5. \/ sm' = sm
        \/ /\ sm' \in ManagerStates
           /\ sm'.total = sm.total /\ sm'.id = sm.id /\ sm'.connected = sm.connected
           /\ sm'.ended = sm.ended /\ sm'.termSent = sm.termSent
           /\ sm'.head = sm.head /\ sm'.sent = sm.sent /\ sm'.rwnd = sm.rwnd
        \/ /\ a.id \in attached /\ a.id = sm.id
           /\ sm' \in ManagerStates
           /\ sm'.total = sm.total /\ sm'.id = sm.id /\ sm'.connected = sm.connected
           /\ sm'.ended = sm.ended /\ sm'.termSent = sm.termSent
           /\ sm'.head = a.seq /\ sm'.rwnd = a.rwnd
           /\ sm.head <= a.seq /\ a.seq <= sm.head + sm.sent
           /\ sm'.sent = sm.sent - (a.seq - sm.head)
    <2>1. CASE sm' = sm
        BY <2>1
    <2>2. CASE sm' # sm
      <3>1. a.id \in attached /\ sm' = RecvAck(sm, a) /\ sm.connected /\ a.id = sm.id
          BY <1>1, <2>2 DEF RecvAck
      <3>2. CASE a.fin
        <4>1. sm' = [sm EXCEPT !.termAcked = TRUE]
            BY <3>1, <3>2 DEF RecvAck
        <4> QED
            BY <4>1, Typing DEF ManagerStates
      <3>3. CASE ~a.fin
        <4> DEFINE t == [sm EXCEPT !.ackSeq = a.seq, !.ackRwnd = a.rwnd]
                   acked == a.seq - sm.head
        <4>1. NewerAck(sm, a)
            BY <2>2, <3>1, <3>3 DEF RecvAck
        <4>2. /\ t \in ManagerStates /\ t.total = sm.total /\ t.id = sm.id
              /\ t.connected = sm.connected /\ t.ended = sm.ended
              /\ t.termSent = sm.termSent /\ t.head = sm.head /\ t.sent = sm.sent
              /\ t.rwnd = sm.rwnd
            BY <1>3, Typing DEF ManagerStates
        <4>3. sm' = IF acked < 0 \/ acked > sm.sent THEN t
                    ELSE [t EXCEPT !.head = a.seq, !.sent = t.sent - acked, !.rwnd = a.rwnd]
            BY <3>1, <3>3, <4>1 DEF RecvAck
        <4>4. CASE acked < 0 \/ acked > sm.sent
            BY <4>2, <4>3, <4>4
        <4>5. CASE ~(acked < 0 \/ acked > sm.sent)
          <5>1. sm.sent - acked \in Nat /\ sm.head <= a.seq /\ a.seq <= sm.head + sm.sent
              BY <1>3, <4>5, Typing
          <5>2. sm' = [t EXCEPT !.head = a.seq, !.sent = sm.sent - acked, !.rwnd = a.rwnd]
              BY <4>2, <4>3, <4>5
          <5> HIDE DEF t, acked
          <5>3. /\ sm' \in ManagerStates /\ sm'.total = t.total /\ sm'.id = t.id
                /\ sm'.connected = t.connected /\ sm'.ended = t.ended
                /\ sm'.termSent = t.termSent /\ sm'.head = a.seq
                /\ sm'.sent = sm.sent - acked /\ sm'.rwnd = a.rwnd
              BY <1>3, <4>2, <5>1, <5>2 DEF ManagerStates
          <5> QED
              BY <3>1, <4>2, <5>1, <5>3 DEF acked
        <4> QED
            BY <4>4, <4>5
      <3> QED
          BY <3>2, <3>3
    <2> QED
        BY <2>1, <2>2
  <1>6. /\ sm' \in ManagerStates /\ sm'.total = sm.total /\ sm'.id = sm.id
        /\ sm'.connected = sm.connected /\ sm'.ended = sm.ended
        /\ sm'.termSent = sm.termSent
        /\ sm'.head + sm'.sent = sm.head + sm.sent
        /\ sm'.head \in Nat /\ sm'.sent \in Nat /\ sm'.rwnd \in Nat
      BY <1>3, <1>5, Typing DEF ManagerStates
  <1>7. Types'
      BY <1>1, <1>2, <1>6, Typing DEF DurableInv, Types
  <1>8. Connections'
      BY <1>1, <1>6
      DEF DurableInv, Connections, Reopening, Unconnected, Serving, Live
  <1>9. Counters'
    <2>1. Counters /\ (sm.connected \/ sm' = sm \/ sm'.sent = sm.sent)
        BY <1>5, <1>6, Typing DEF DurableInv, Counters
    <2>2. sm'.head <= sm.head + sm.sent /\ sm'.sent <= sm.sent
        BY <1>3, <1>5, <1>6, Typing
    <2>3. sm'.head <= sm'.total /\ sm'.sent <= sm'.total - sm'.head /\ sm'.sent <= RingSize
        BY <1>6, <2>1, <2>2, Typing, SizesAssumption DEF Counters
    <2>4. sm.sent = 0 => sm'.sent = 0
        BY <1>6, <2>2
    <2>5. ctl.pc \in {"prepared", "start"} =>
              sm'.head = sm.head /\ sm'.rwnd = sm.rwnd
        BY <1>4, <1>5
    <2> QED
        BY <1>1, <1>6, <2>1, <2>3, <2>4, <2>5 DEF Counters
  <1>10. Readers' /\ Loops'
      BY <1>1
      DEF DurableInv, Readers, Loops, ReaderOK, LoopOK, Unconnected, ReadPos
  <1>11. PacketsInOrder' /\ PacketsFit'
      BY <1>1, <1>6
      DEF DurableInv, PacketsInOrder, PacketsFit, Base, IsFirst, ReadPos
  <1>12. LiveStream'
    <2> SUFFICES ASSUME Live PROVE LiveStream'
        BY <1>1, <1>6 DEF LiveStream, Live
    <2>1. LastSent' = LastSent /\ (EndSeen' <=> EndSeen)
        BY <1>1 DEF LastSent, Base, EndSeen, Finished
    <2>2. EndSent => EndSent'
        BY <1>3, <1>5, <1>6, Typing, SMTT(20) DEF DurableInv, Counters, EndSent
    <2>3. ctl.pc # "prepared" =>
              sm'.head + sm'.rwnd <= ReadPos(readers[current]) + ReadWindow
        BY <1>4, <1>5 DEF DurableInv, LiveStream
    <2> QED
        BY <1>1, <1>6, <2>1, <2>2, <2>3 DEF DurableInv, LiveStream, ReadPos, Finished
  <1>13. AcksTrue'
      BY <1>1, <1>2 DEF DurableInv, AcksTrue, ReadPos
  <1>14. Accounted'
      BY <1>1, <1>4, <1>5
      DEF DurableInv, Accounted, Serving, Unconnected, FiledAndLost
  <1>15. Drained => Drained'
      BY <1>1 DEF Drained, Reopening, Unconnected, FiledAndLost
  <1>16. NothingSentYet'
      BY <1>1 DEF DurableInv, NothingSentYet
  <1> QED
      BY <1>1, <1>7, <1>8, <1>9, <1>10, <1>11, <1>12, <1>13, <1>14, <1>15, <1>16 DEF DurableInv

-----------------------------------------------------------------------------
(* The output loops.                                                       *)

LEMMA ReaderHolds ==
  ASSUME DurableInv, NEW i \in Streams
  PROVE  ReaderFits(readers[i])
  BY DEF DurableInv, Readers, ReaderOK, ReaderFits

(* A loop takes bytes out of its reader or closes it.                      *)
LEMMA ReaderTakenFrom ==
  ASSUME DurableInv, NEW i \in Streams, i <= current,
         NEW s \in ReaderStates, ReaderFits(s), s.id = i,
         s.next = readers[i].next, s.ooo = readers[i].ooo,
         Finished(readers[i]) => Finished(s),
         Len(s.buffer) <= Len(readers[i].buffer),
         readers' = [readers EXCEPT ![i] = s],
         NEW new \in Seq(Acks), Send(new),
         \A k \in 1 .. Len(new) : new[k].id = i,
         i = current => \A k \in 1 .. Len(new) :
             /\ new[k].seq = s.next
             /\ new[k].rwnd = ReadWindow - Len(s.buffer),
         UNCHANGED <<link, current>>
  PROVE  /\ readers' \in [Streams -> ReaderStates] /\ readers'[i] = s
         /\ \A j \in Streams : j # i => readers'[j] = readers[j]
         /\ ReadersAdvance
         /\ acks' \in Seq(Acks) /\ AcksTrue'
         /\ \A j \in Streams : ReaderOK(j)'
  <1>1. /\ readers[i] \in ReaderStates /\ readers[i].next \in Nat
        /\ Len(readers[i].buffer) \in Nat
        /\ readers \in [Streams -> ReaderStates]
      BY ReaderTyping
  <1>2. Len(s.buffer) \in Nat /\ s.next \in Nat
      BY DEF ReaderStates
  <1>3. ReadPos(s) \in Int /\ ReadPos(readers[i]) <= ReadPos(s)
      BY <1>1, <1>2 DEF ReadPos
  <1>4. /\ readers' \in [Streams -> ReaderStates] /\ readers'[i] = s
        /\ \A j \in Streams : j # i => readers'[j] = readers[j]
      BY <1>1
  <1>5. ReadersAdvance
    <2>1. ASSUME NEW j \in Streams
          PROVE  /\ Finished(readers[j]) => Finished(readers'[j])
                 /\ readers'[j].ooo = readers[j].ooo
                 /\ readers'[j].next = readers[j].next /\ readers[j].next \in Nat
                 /\ ReadPos(readers'[j]) \in Int
                 /\ ReadPos(readers[j]) <= ReadPos(readers'[j])
      <3>1. CASE j = i
          BY <1>1, <1>3, <1>4, <3>1
      <3>2. CASE j # i
          BY <1>4, <3>2, ReaderTyping, ReadPosTyping
      <3> QED
          BY <3>1, <3>2
    <2> QED
        BY <2>1 DEF ReadersAdvance
  <1>6. acks' \in Seq(Acks) /\ AcksTrue'
    <2>1. /\ current \in Streams /\ current' = current /\ link' = link
          /\ readers'[current].next \in Nat
          /\ readers[current].next <= readers'[current].next
          /\ ReadPos(readers'[current]) \in Int
          /\ ReadPos(readers[current]) <= ReadPos(readers'[current])
      <3>1. /\ current \in Streams /\ current' = current /\ link' = link
            /\ readers'[current].next \in Nat
            /\ readers'[current].next = readers[current].next
            /\ ReadPos(readers'[current]) \in Int
            /\ ReadPos(readers[current]) <= ReadPos(readers'[current])
          BY <1>5, Typing DEF ReadersAdvance
      <3> QED
          BY <3>1
    <2>2. ASSUME NEW k \in 1 .. Len(new), new[k].id = current
          PROVE  /\ new[k].seq <= readers'[current].next
                 /\ new[k].seq + new[k].rwnd <= ReadPos(readers'[current]) + ReadWindow
      <3>1. i = current /\ new[k].seq = s.next /\ new[k].rwnd = ReadWindow - Len(s.buffer)
          BY <2>2
      <3>2. readers'[current] = s
          BY <1>4, <3>1
      <3> QED
          BY <1>2, <3>1, <3>2, ReadWindowAssumption DEF ReadPos
    <2>3. \A k \in 1 .. Len(new) : new[k].id <= current
        OBVIOUS
    <2> QED
        BY <2>1, <2>2, <2>3, SendingKeepsAcks
  <1>7. ASSUME NEW j \in Streams PROVE ReaderOK(j)'
    <2>1. CASE j = i
        BY <1>4, <2>1 DEF ReaderOK, ReaderFits
    <2>2. CASE j # i
        BY <1>4, <2>2 DEF DurableInv, Readers, ReaderOK, ReadPos
    <2> QED
        BY <2>1, <2>2
  <1> QED
      BY <1>4, <1>5, <1>6, <1>7

(* The loop of the current stream takes bytes out of its reader.           *)
LEMMA CurrentReadKeepsInv ==
  ASSUME DurableInv, LoopRead(current)
  PROVE  DurableInv'
  <1> DEFINE r == readers[current]
             n == ReadCount(r, Chunk)
             b == SubSeq(r.buffer, 1, n)
             s == Read(r, Chunk).reader
             new == Read(r, Chunk).acks
             l == [pc |-> "got", err |-> ReadError(r), bytes |-> b]
  <1>1. /\ loops[current].pc = "read" /\ Readable(r)
        /\ loops' = [loops EXCEPT ![current] = l]
        /\ readers' = [readers EXCEPT ![current] = s]
        /\ Send(new)
        /\ UNCHANGED <<sm, link, data, attached, current, ctl, file, totalGap, streamDone, late>>
      BY DEF LoopRead
  <1>2. /\ current \in Streams /\ current \in Nat
        /\ r \in ReaderStates /\ r.id = current /\ r.next \in Nat
        /\ Len(r.buffer) \in Nat /\ ReaderFits(r)
        /\ loops[current].bytes = << >> /\ Chunk \in Nat \ {0}
        /\ loops \in [Streams -> LoopStates]
      BY <1>1, Typing, ReaderTyping, ReaderHolds, SizesAssumption
      DEF DurableInv, Loops, LoopOK
  <1>3. /\ n \in 0 .. Len(r.buffer)
        /\ ReadError(r) \in {"none", "stream", "closed", "eof"}
        /\ ReadError(r) # "none" <=> n = 0
        /\ ReadError(r) # "none" => Finished(r)
      BY <1>1, <1>2, ReadAnswers
  <1>4. /\ b \in Seq(Int) /\ Len(b) = n
        /\ \A j \in 1 .. n : b[j] = ReadPos(r) + j - 1
      BY <1>1, <1>2, ReadTakes
  <1>5. /\ s \in ReaderStates /\ ReaderFits(s) /\ s.id = current /\ s.next = r.next
        /\ s.ooo = r.ooo /\ (Finished(s) <=> Finished(r))
        /\ Len(s.buffer) = Len(r.buffer) - n /\ Len(s.buffer) \in Nat
        /\ new \in Seq(Acks)
        /\ \A k \in 1 .. Len(new) :
               /\ new[k].id = current /\ new[k].seq = s.next
               /\ new[k].rwnd = ReadWindow - Len(s.buffer)
    <2>1. /\ s \in ReaderStates /\ ReaderFits(s) /\ s.id = r.id /\ s.next = r.next
          /\ s.ooo = r.ooo /\ (Finished(s) <=> Finished(r))
          /\ Len(s.buffer) = Len(r.buffer) - n
          /\ new \in Seq(Acks)
          /\ \A k \in 1 .. Len(new) :
                 /\ new[k].id = r.id /\ new[k].seq = r.next
                 /\ new[k].rwnd = ReadWindow - Len(s.buffer)
        BY <1>1, <1>2, ReadEffect
    <2> HIDE DEF r, n, s, new
    <2> QED
        BY <1>2, <1>3, <2>1
  <1>6. l \in LoopStates /\ l.pc = "got" /\ l.err = ReadError(r) /\ l.bytes = b
      BY <1>3, <1>4 DEF LoopStates
  <1> HIDE DEF l, b, s, new, n, r
  <1>7. /\ readers' \in [Streams -> ReaderStates] /\ readers'[current] = s
        /\ \A j \in Streams : j # current => readers'[j] = readers[j]
        /\ ReadersAdvance
        /\ acks' \in Seq(Acks) /\ AcksTrue'
        /\ \A j \in Streams : ReaderOK(j)'
    <2>1. Len(s.buffer) <= Len(r.buffer) /\ current <= current
        BY <1>2, <1>3, <1>5
    <2> QED
        BY <1>1, <1>2, <1>5, <2>1, ReaderTakenFrom, ZenonT(30) DEF r
  <1>8. /\ loops' \in [Streams -> LoopStates] /\ loops'[current] = l
        /\ \A i \in Streams : i # current => loops'[i] = loops[i]
      BY <1>1, <1>2, <1>6
  <1>9. ctl.pc \in {"idle", "stat", "create"}
      BY <1>1, Typing DEF DurableInv, Loops, Unconnected, ControlStates
  <1>10. Types'
      BY <1>1, <1>7, <1>8 DEF DurableInv, Types
  <1>11. Connections' /\ Counters'
      BY <1>1, <1>6, <1>8, <1>9
      DEF DurableInv, Connections, Reopening, Unconnected, Serving, Live, Counters
  <1>12. Readers'
      BY <1>1, <1>7, <1>9 DEF Readers, Unconnected
  <1>13. Loops'
    <2>1. ASSUME NEW i \in Streams PROVE LoopOK(i)'
      <3>1. CASE i = current
        <4>1. l.err # "none" => l.bytes = << >> /\ Finished(s)
          <5>1. l.err # "none" => n = 0 /\ Finished(s)
              BY <1>3, <1>5, <1>6
          <5>2. n = 0 => b = << >>
              BY <1>4
          <5> QED
              BY <1>6, <5>1, <5>2
        <4>2. ~(i > current)
            BY <1>2, <3>1
        <4> QED
            BY <1>1, <1>6, <1>7, <1>8, <3>1, <4>1, <4>2 DEF LoopOK
      <3>2. CASE i # current
          BY <1>1, <1>7, <1>8, <3>2 DEF DurableInv, Loops, LoopOK
      <3> QED
          BY <3>1, <3>2
    <2> QED
        BY <1>1, <1>9, <2>1 DEF Loops, Unconnected
  <1>14. PacketsInOrder' /\ PacketsFit' /\ LiveStream' /\ NothingSentYet'
    <2>1. \A i \in Streams : Base(i)' = Base(i)
        BY <1>1, <1>7 DEF Base, ReadersAdvance
    <2>2. Finished(readers'[current]) => Finished(readers[current])
        BY <1>5, <1>7 DEF r
    <2>3. PacketsInOrder' /\ PacketsFit' /\ LiveStream'
        BY <1>1, <1>7, <2>1, <2>2, AdvanceKeepsPackets
    <2> QED
        BY <1>1, <2>3 DEF DurableInv, NothingSentYet
  <1>15. /\ FiledAndLost' = FiledAndLost /\ FiledAndLost \in Nat
         /\ Len(loops[current].bytes) = 0
         /\ readers'[current].next = readers[current].next
         /\ Len(loops'[current].bytes) + Len(readers'[current].buffer) =
               Len(readers[current].buffer)
         /\ Len(loops'[current].bytes) \in Nat /\ Len(readers'[current].buffer) \in Nat
         /\ Len(readers[current].buffer) \in Nat /\ readers[current].next \in Nat
    <2>1. FiledAndLost' = FiledAndLost /\ FiledAndLost \in Nat
        BY <1>1, Typing DEF FiledAndLost
    <2>2. Len(loops[current].bytes) = 0
        BY <1>2
    <2>3. Len(loops'[current].bytes) = n /\ Len(readers'[current].buffer) = Len(r.buffer) - n
          /\ readers'[current].next = readers[current].next
        BY <1>4, <1>5, <1>6, <1>7, <1>8 DEF r
    <2> QED
        BY <1>2, <1>3, <2>1, <2>2, <2>3 DEF r
  <1>16. Accounted'
    <2>1. FiledAndLost + Len(loops'[current].bytes) + Len(readers'[current].buffer) =
              FiledAndLost + Len(loops[current].bytes) + Len(readers[current].buffer)
      <3> DEFINE f == FiledAndLost
                 x == Len(loops'[current].bytes)
                 y == Len(readers'[current].buffer)
                 z == Len(readers[current].buffer)
                 w == Len(loops[current].bytes)
      <3>1. f \in Nat /\ x \in Nat /\ y \in Nat /\ z \in Nat /\ x + y = z /\ w = 0
          BY <1>15
      <3> HIDE DEF f, x, y, z, w
      <3>2. f + x + y = f + w + z
          BY <3>1
      <3> QED
          BY <3>2 DEF f, x, y, z, w
    <2>2. Serving' => Serving
        BY <1>1 DEF Serving
    <2> QED
        BY <1>1, <1>9, <1>15, <2>1, <2>2 DEF DurableInv, Accounted, Unconnected
  <1>17. Drained => Drained'
    <2> SUFFICES ASSUME Drained PROVE Drained'
        OBVIOUS
    <2>1. readers[current].next = FiledAndLost + Len(readers[current].buffer)
        BY <1>2, <1>15 DEF Drained, r
    <2>2. readers'[current].next =
              FiledAndLost + Len(loops'[current].bytes) + Len(readers'[current].buffer)
      <3> DEFINE f == FiledAndLost
                 x == Len(loops'[current].bytes)
                 y == Len(readers'[current].buffer)
                 z == Len(readers[current].buffer)
      <3>1. f \in Nat /\ x \in Nat /\ y \in Nat /\ z \in Nat /\ x + y = z
          BY <1>15
      <3>2. readers'[current].next = f + z
          BY <1>15, <2>1
      <3> HIDE DEF f, x, y, z
      <3>3. f + x + y = f + z
          BY <3>1
      <3> QED
          BY <3>2, <3>3 DEF f, x, y, z
    <2>3. ReadPos(r) = FiledAndLost
        BY <1>2, <1>15, <2>1 DEF ReadPos, r
    <2>4. loops'[current].bytes = b
        BY <1>6, <1>8
    <2>5. \A j \in 1 .. Len(b) : b[j] = FiledAndLost + j - 1
        BY <1>4, <2>3
    <2> QED
        BY <1>1, <1>9, <1>15, <2>2, <2>4, <2>5 DEF Drained, Unconnected
  <1> QED
      BY <1>1, <1>7, <1>10, <1>11, <1>12, <1>13, <1>14, <1>16, <1>17 DEF DurableInv

(* The loop of an older stream closes its reader.                          *)
LEMMA OldReadKeepsInv ==
  ASSUME DurableInv, NEW i \in Streams, LoopRead(i), i # current
  PROVE  DurableInv'
  <1> DEFINE r == readers[i]
             t == Read(r, Chunk).reader
             first == Read(r, Chunk).acks
             s == CloseReader(t).reader
             second == CloseReader(t).acks
             new == first \o second
             l == [loops[i] EXCEPT !.pc = "dead"]
  <1>1. /\ loops[i].pc = "read" /\ Readable(r)
        /\ loops' = [loops EXCEPT ![i] = l]
        /\ readers' = [readers EXCEPT ![i] = s]
        /\ Send(new)
        /\ UNCHANGED <<sm, link, data, attached, current, ctl, file, totalGap, streamDone, late>>
      BY DEF LoopRead
  <1>2. /\ i \in Nat /\ current \in Nat /\ i < current /\ current \in Streams
        /\ loops[i].bytes = << >> /\ loops[i] \in LoopStates
        /\ loops \in [Streams -> LoopStates]
        /\ r \in ReaderStates /\ r.id = i /\ Len(r.buffer) \in Nat /\ ReaderFits(r)
        /\ Chunk \in Nat \ {0}
    <2>1. LoopOK(i)
        BY DEF DurableInv, Loops
    <2>2. i \in Nat /\ current \in Nat
        BY Typing
    <2> QED
        BY <1>1, <2>1, <2>2, Typing, ReaderTyping, ReaderHolds, SizesAssumption, SMTT(20) DEF LoopOK
  <1>3. /\ t \in ReaderStates /\ ReaderFits(t) /\ t.id = i /\ t.next = r.next
        /\ t.ooo = r.ooo /\ Len(t.buffer) = Len(r.buffer) - ReadCount(r, Chunk)
        /\ first \in Seq(Acks)
        /\ \A k \in 1 .. Len(first) : first[k].id = i
      BY <1>1, <1>2, ReadEffect
  <1>4. Len(t.buffer) <= Len(r.buffer)
    <2>1. ReadCount(r, Chunk) \in 0 .. Len(r.buffer)
        BY <1>1, <1>2, ReadAnswers
    <2> HIDE DEF r, t
    <2> QED
        BY <1>2, <1>3, <2>1
  <1> HIDE DEF r, t, first
  <1>5. /\ s \in ReaderStates /\ Finished(s) /\ s.id = i /\ s.next = r.next
        /\ s.ooo = r.ooo /\ s.buffer = t.buffer
        /\ second \in Seq(Acks)
        /\ \A k \in 1 .. Len(second) : second[k].id = i
      BY <1>3, CloseEffect DEF ReaderFits
  <1> HIDE DEF s, second
  <1>6. ReaderFits(s)
      BY <1>3, <1>5 DEF ReaderFits, ReadPos
  <1>7. new \in Seq(Acks) /\ \A k \in 1 .. Len(new) : new[k].id = i
    <2>1. /\ new \in Seq(Acks) /\ Len(first) \in Nat /\ Len(second) \in Nat
          /\ Len(new) = Len(first) + Len(second)
          /\ \A k \in 1 .. Len(new) :
                 new[k] = IF k <= Len(first) THEN first[k] ELSE second[k - Len(first)]
        BY <1>3, <1>5, ConcatProperties
    <2> HIDE DEF new
    <2>2. ASSUME NEW k \in 1 .. Len(new) PROVE new[k].id = i
      <3>1. CASE k <= Len(first)
          BY <1>3, <2>1, <3>1
      <3>2. CASE ~(k <= Len(first))
        <4>1. k - Len(first) \in 1 .. Len(second)
            BY <2>1, <3>2
        <4> QED
            BY <1>5, <2>1, <3>2, <4>1
      <3> QED
          BY <3>1, <3>2
    <2> QED
        BY <2>1, <2>2
  <1> HIDE DEF new
  <1>8. /\ readers' \in [Streams -> ReaderStates] /\ readers'[i] = s
        /\ \A j \in Streams : j # i => readers'[j] = readers[j]
        /\ ReadersAdvance
        /\ acks' \in Seq(Acks) /\ AcksTrue'
        /\ \A j \in Streams : ReaderOK(j)'
    <2>1. i <= current
        BY <1>2
    <2> QED
        BY <1>1, <1>2, <1>4, <1>5, <1>6, <1>7, <2>1, ReaderTakenFrom DEF r
  <1>9. l \in LoopStates /\ l.pc = "dead" /\ l.bytes = << >>
      BY <1>2 DEF LoopStates
  <1> HIDE DEF l
  <1>10. /\ loops' \in [Streams -> LoopStates] /\ loops'[i] = l
         /\ \A j \in Streams : j # i => loops'[j] = loops[j]
      BY <1>1, <1>2, <1>9
  <1>11. readers'[current] = readers[current] /\ loops'[current] = loops[current]
      BY <1>2, <1>8, <1>10
  <1>12. Types'
      BY <1>1, <1>8, <1>10 DEF DurableInv, Types
  <1>13. Connections' /\ Counters'
      BY <1>1, <1>11
      DEF DurableInv, Connections, Reopening, Unconnected, Serving, Live, Counters
  <1>14. Readers'
      BY <1>1, <1>8, <1>11 DEF DurableInv, Readers, Unconnected, Finished
  <1>15. Loops'
    <2>1. ASSUME NEW j \in Streams PROVE LoopOK(j)'
      <3>1. CASE j = i
          BY <1>1, <1>2, <1>9, <1>10, <3>1 DEF LoopOK
      <3>2. CASE j # i
          BY <1>1, <1>8, <1>10, <3>2 DEF DurableInv, Loops, LoopOK, Finished
      <3> QED
          BY <3>1, <3>2
    <2> QED
        BY <1>1, <1>11, <2>1 DEF DurableInv, Loops, Unconnected
  <1>16. PacketsInOrder' /\ PacketsFit' /\ LiveStream' /\ NothingSentYet'
    <2>1. \A j \in Streams : Base(j)' = Base(j)
        BY <1>1, <1>8 DEF Base, ReadersAdvance
    <2>2. PacketsInOrder' /\ PacketsFit' /\ LiveStream'
        BY <1>1, <1>8, <1>11, <2>1, AdvanceKeepsPackets
    <2> QED
        BY <1>1, <2>2 DEF DurableInv, NothingSentYet
  <1>17. Accounted'
      BY <1>1, <1>11 DEF DurableInv, Accounted, Serving, Unconnected, FiledAndLost
  <1>18. Drained => Drained'
      BY <1>1, <1>9, <1>10, <1>11 DEF Drained, Reopening, Unconnected, FiledAndLost
  <1> QED
      BY <1>1, <1>8, <1>12, <1>13, <1>14, <1>15, <1>16, <1>17, <1>18 DEF DurableInv

(* A loop appends what it read; at the end of its stream it closes the     *)
(* reader.                                                                 *)
LEMMA LoopAppendKeepsInv ==
  ASSUME DurableInv, NEW i \in Streams, LoopAppend(i)
  PROVE  DurableInv'
  <1> DEFINE r == readers[i]
             b == loops[i].bytes
             last == loops[i].err # "none"
             place == IF last THEN "dead" ELSE "read"
             l == [loops[i] EXCEPT !.pc = place, !.bytes = << >>]
             s == IF last THEN CloseReader(r).reader ELSE r
             new == IF last THEN CloseReader(r).acks ELSE << >>
  <1>1. /\ loops[i].pc = "got" /\ file' = file \o b
        /\ late' = (late \/ AppendsLate(i))
        /\ UNCHANGED <<sm, link, data, attached, current, ctl, totalGap>>
      BY DEF LoopAppend
  <1>2. /\ loops \in [Streams -> LoopStates] /\ loops[i] \in LoopStates
        /\ b \in Seq(Int) /\ Len(b) \in Nat
        /\ readers \in [Streams -> ReaderStates] /\ r \in ReaderStates /\ r.id = i
        /\ ReaderFits(r) /\ i \in Nat /\ current \in Nat /\ current \in Streams
        /\ acks \in Seq(Acks) /\ file \in Seq(Int)
      BY Typing, MessageTyping, ReaderTyping, ReaderHolds DEF DurableInv, Types
  <1>3. /\ i <= current
        /\ last => b = << >> /\ Finished(r)
    <2>1. LoopOK(i)
        BY DEF DurableInv, Loops
    <2> QED
        BY <1>1, <1>2, <2>1 DEF LoopOK
  <1>4. /\ loops' = [loops EXCEPT ![i] = l]
        /\ readers' = [readers EXCEPT ![i] = s]
        /\ Send(new)
        /\ streamDone' \in BOOLEAN
    <2>1. CASE last
      <3>1. /\ loops' = [loops EXCEPT ![i].pc = "dead", ![i].bytes = << >>]
            /\ readers' = [readers EXCEPT ![i] = CloseReader(r).reader]
            /\ Send(CloseReader(r).acks) /\ streamDone' = TRUE
          BY <2>1 DEF LoopAppend
      <3> QED
          BY <1>2, <2>1, <3>1
    <2>2. CASE ~last
      <3>1. /\ loops' = [loops EXCEPT ![i].pc = "read", ![i].bytes = << >>]
            /\ UNCHANGED <<readers, acks, streamDone>>
          BY <2>2 DEF LoopAppend
      <3>2. readers = [readers EXCEPT ![i] = r]
          BY <1>2
      <3>3. acks \o << >> = acks
          BY <1>2
      <3> QED
          BY <1>2, <2>2, <3>1, <3>2, <3>3 DEF Send, DurableInv, Types
    <2> QED
        BY <2>1, <2>2
  <1>5. /\ l \in LoopStates /\ l.bytes = << >> /\ l.err = loops[i].err
        /\ l.pc = IF last THEN "dead" ELSE "read"
    <2>1. place \in {"dead", "read"} /\ loops[i] \in LoopStates
        BY <1>2
    <2>2. l.pc = place /\ place = IF last THEN "dead" ELSE "read"
        BY <1>2 DEF LoopStates
    <2> HIDE DEF place, last, b, r
    <2>3. l \in LoopStates /\ l.bytes = << >> /\ l.err = loops[i].err
      <3> DEFINE none == << >>
      <3>1. none \in Seq(Int) /\ place \in {"none", "read", "got", "dead"}
          BY <2>1
      <3>2. l = [loops[i] EXCEPT !.pc = place, !.bytes = none]
          OBVIOUS
      <3> HIDE DEF none, l
      <3>3. l \in LoopStates /\ l.bytes = none /\ l.err = loops[i].err
          BY <2>1, <3>1, <3>2 DEF LoopStates
      <3> QED
          BY <3>3 DEF none
    <2> QED
        BY <2>2, <2>3
  <1>6. /\ s \in ReaderStates /\ s.id = i /\ s.next = r.next /\ s.ooo = r.ooo
        /\ s.buffer = r.buffer /\ (Finished(s) <=> Finished(r))
        /\ new \in Seq(Acks)
        /\ \A k \in 1 .. Len(new) : /\ new[k].id = i /\ new[k].seq = s.next
                                    /\ new[k].rwnd = ReadWindow - Len(s.buffer)
    <2>1. CASE last
        BY <1>2, <1>3, <2>1, CloseEffect DEF ReaderFits
    <2>2. CASE ~last
        BY <1>2, <2>2
    <2> QED
        BY <2>1, <2>2
  <1> HIDE DEF l, s, new
  <1>7. ReaderFits(s)
      BY <1>2, <1>6 DEF ReaderFits, ReadPos
  <1> HIDE DEF r
  <1>8. /\ readers' \in [Streams -> ReaderStates] /\ readers'[i] = s
        /\ \A j \in Streams : j # i => readers'[j] = readers[j]
        /\ ReadersAdvance
        /\ acks' \in Seq(Acks) /\ AcksTrue'
        /\ \A j \in Streams : ReaderOK(j)'
    <2>1. Len(s.buffer) <= Len(r.buffer)
        BY <1>2, <1>6, ReaderTyping DEF r
    <2> QED
        BY <1>1, <1>3, <1>4, <1>6, <1>7, <2>1, ReaderTakenFrom, ZenonT(30) DEF r
  <1>9. /\ loops' \in [Streams -> LoopStates] /\ loops'[i] = l
        /\ \A j \in Streams : j # i => loops'[j] = loops[j]
      BY <1>2, <1>4, <1>5
  <1>10. \A j \in Streams : /\ readers'[j].next = readers[j].next
                            /\ readers'[j].buffer = readers[j].buffer
                            /\ readers'[j].ooo = readers[j].ooo
                            /\ Finished(readers'[j]) <=> Finished(readers[j])
      BY <1>6, <1>8 DEF r
  <1>11. loops'[current].pc # "none" <=> loops[current].pc # "none"
      BY <1>1, <1>2, <1>5, <1>9
  <1>12. Types'
      BY <1>1, <1>2, <1>4, <1>8, <1>9 DEF DurableInv, Types
  <1>13. Connections' /\ Counters'
      BY <1>1, <1>2, <1>10, <1>11
      DEF DurableInv, Connections, Reopening, Unconnected, Serving, Live, Counters
  <1>14. Readers'
      BY <1>1, <1>2, <1>8, <1>10 DEF DurableInv, Readers, Unconnected
  <1>15. Loops'
    <2>1. ASSUME NEW j \in Streams PROVE LoopOK(j)'
      <3>1. CASE j = i
        <4>1. ~(i > current)
            BY <1>2, <1>3
        <4> QED
            BY <1>1, <1>5, <1>9, <3>1, <4>1 DEF LoopOK
      <3>2. CASE j # i
          BY <1>1, <1>9, <1>10, <3>2 DEF DurableInv, Loops, LoopOK
      <3> QED
          BY <3>1, <3>2
    <2> QED
        BY <1>1, <1>11, <2>1 DEF DurableInv, Loops, Unconnected
  <1>16. PacketsInOrder' /\ PacketsFit' /\ LiveStream' /\ NothingSentYet'
    <2>1. \A j \in Streams : Base(j)' = Base(j)
        BY <1>1, <1>10 DEF Base
    <2>2. Finished(readers'[current]) => Finished(readers[current])
        BY <1>2, <1>10
    <2>3. PacketsInOrder' /\ PacketsFit' /\ LiveStream'
        BY <1>1, <1>8, <2>1, <2>2, AdvanceKeepsPackets
    <2> QED
        BY <1>1, <2>3 DEF DurableInv, NothingSentYet
  <1>17. FiledAndLost' = FiledAndLost + Len(b) /\ FiledAndLost \in Nat
    <2>1. Len(file') = Len(file) + Len(b) /\ Len(file) \in Nat /\ totalGap \in Nat
          /\ totalGap' = totalGap /\ Len(b) \in Nat
        BY <1>1, <1>2 DEF DurableInv, Types
    <2> HIDE DEF b
    <2>2. FiledAndLost' = Len(file') + totalGap' /\ FiledAndLost = Len(file) + totalGap
        BY DEF FiledAndLost
    <2> QED
        BY <2>1, <2>2
  <1>18. /\ Len(loops[current].bytes) \in Nat /\ Len(loops'[current].bytes) \in Nat
         /\ Len(readers[current].buffer) \in Nat /\ readers[current].next \in Nat
         /\ FiledAndLost' + Len(loops'[current].bytes) >=
               FiledAndLost + Len(loops[current].bytes)
         /\ i = current \/ b = << >> =>
               FiledAndLost' + Len(loops'[current].bytes) =
                   FiledAndLost + Len(loops[current].bytes)
    <2>1. i = current => Len(loops'[current].bytes) = 0 /\ Len(loops[current].bytes) = Len(b)
        BY <1>5, <1>9
    <2>2. i # current => loops'[current].bytes = loops[current].bytes
        BY <1>2, <1>9
    <2>3. Len(loops[current].bytes) \in Nat /\ Len(readers[current].buffer) \in Nat
          /\ readers[current].next \in Nat
        BY <1>2, ReaderTyping
    <2>4. b = << >> => Len(b) = 0
        OBVIOUS
    <2> HIDE DEF b
    <2> DEFINE f == FiledAndLost
               g == FiledAndLost'
               x == Len(loops[current].bytes)
               y == Len(loops'[current].bytes)
               h == Len(b)
    <2>5. /\ f \in Nat /\ h \in Nat /\ g = f + h /\ x \in Nat
          /\ i = current => y = 0 /\ x = h
          /\ i # current => y = x
          /\ b = << >> => h = 0
        BY <1>2, <1>17, <2>1, <2>2, <2>3, <2>4
    <2> HIDE DEF f, g, x, y, h
    <2>6. /\ y \in Nat /\ g + y >= f + x
          /\ i = current \/ b = << >> => g + y = f + x
        BY <2>5
    <2> QED
        BY <2>3, <2>6 DEF f, g, x, y
  <1>19. Accounted'
    <2>1. Accounted
        BY DEF DurableInv
    <2>2. readers'[current].next <=
              FiledAndLost' + Len(loops'[current].bytes) + Len(readers'[current].buffer)
      <3>1. readers'[current].next = readers[current].next
            /\ readers'[current].buffer = readers[current].buffer
          BY <1>2, <1>10
      <3>2. FiledAndLost' \in Nat
          BY <1>2, <1>17
      <3>3. readers[current].next <=
                FiledAndLost + Len(loops[current].bytes) + Len(readers[current].buffer)
          BY <2>1 DEF Accounted
      <3> DEFINE f == FiledAndLost
                 g == FiledAndLost'
                 x == Len(loops[current].bytes)
                 y == Len(loops'[current].bytes)
                 z == Len(readers[current].buffer)
                 n == readers[current].next
      <3>4. /\ f \in Nat /\ g \in Nat /\ x \in Nat /\ y \in Nat /\ z \in Nat /\ n \in Nat
            /\ g + y >= f + x /\ n <= f + x + z
          BY <1>17, <1>18, <3>2, <3>3
      <3> HIDE DEF f, g, x, y, z, n
      <3>5. n <= g + y + z
          BY <3>4
      <3> QED
          BY <3>1, <3>5 DEF f, g, x, y, z, n
    <2>3. ctl.pc = "create" \/ Unconnected \/ ctl.pc = "prepared" => ctl.seq <= FiledAndLost'
        BY <1>2, <1>17, <2>1, Typing DEF Accounted
    <2> QED
        BY <1>1, <1>2, <1>10, <1>11, <2>1, <2>2, <2>3 DEF Accounted, Serving, Unconnected
  <1>20. ~late' /\ Drained => Drained'
    <2> SUFFICES ASSUME ~late', Drained PROVE Drained'
        OBVIOUS
    <2>1. i # current \/ ctl.pc = "create" => b = << >>
        BY <1>1 DEF AppendsLate
    <2>2. readers'[current].next =
              FiledAndLost' + Len(loops'[current].bytes) + Len(readers'[current].buffer)
        BY <1>2, <1>10, <1>17, <1>18, <2>1 DEF Drained
    <2>3. b = << >> => FiledAndLost' = FiledAndLost
        BY <1>17
    <2>4. ctl.pc = "create" \/ Unconnected \/ ctl.pc = "prepared" => b = << >>
      <3>1. Unconnected \/ ctl.pc = "prepared" => loops[current].pc = "none"
          BY DEF DurableInv, Loops
      <3> QED
          BY <1>1, <2>1, <3>1
    <2>5. ctl.pc = "create" \/ Unconnected \/ ctl.pc = "prepared" =>
              ctl.seq = FiledAndLost'
        BY <2>3, <2>4 DEF Drained
    <2>6. \A k \in 1 .. Len(loops'[current].bytes) :
              loops'[current].bytes[k] = FiledAndLost' + k - 1
      <3>1. CASE i = current
          BY <1>5, <1>9, <3>1
      <3>2. CASE i # current
        <4>1. loops'[current] = loops[current] /\ FiledAndLost' = FiledAndLost
            BY <1>2, <1>9, <2>1, <2>3, <3>2
        <4> QED
            BY <4>1 DEF Drained
      <3> QED
          BY <3>1, <3>2
    <2> QED
        BY <1>1, <1>2, <1>10, <2>2, <2>5, <2>6 DEF Drained, Unconnected
  <1> QED
      BY <1>1, <1>8, <1>12, <1>13, <1>14, <1>15, <1>16, <1>19, <1>20 DEF DurableInv

-----------------------------------------------------------------------------
(* A packet reaches its reader.                                            *)

LEMMA InOrderEffect ==
  ASSUME NEW r \in ReaderStates, ReaderFits(r), r.ooo = {}, ~Finished(r),
         NEW p \in Packets, p.seq = r.next,
         p.seq + p.n <= ReadPos(r) + ReadWindow
  PROVE  /\ InOrder(r, p) \in ReaderStates /\ ReaderFits(InOrder(r, p))
         /\ InOrder(r, p).id = r.id /\ InOrder(r, p).ooo = {}
         /\ InOrder(r, p).next = r.next + p.n
         /\ Len(InOrder(r, p).buffer) = Len(r.buffer) + p.n
         /\ ReadPos(InOrder(r, p)) = ReadPos(r)
         /\ Finished(InOrder(r, p)) <=> p.kind = "eof"
  <1> DEFINE q == p.seq
             n == p.n
             bytes == [i \in 1 .. n |-> q + i - 1]
             b == r.buffer \o bytes
             next == r.next + n
             eof == r.eof \/ p.kind = "eof"
             s == InOrder(r, p)
  <1>1. /\ r.buffer \in Seq(Int) /\ Len(r.buffer) \in Nat /\ r.next \in Nat
        /\ q \in Nat /\ n \in Nat /\ q = r.next
        /\ Len(r.buffer) <= ReadWindow /\ Len(r.buffer) <= r.next
        /\ q + n <= r.next - Len(r.buffer) + ReadWindow
        /\ \A j \in 1 .. Len(r.buffer) : r.buffer[j] = r.next - Len(r.buffer) + j - 1
        /\ r.eof \in BOOLEAN
      BY DEF ReaderStates, ReaderFits, ReadPos, Packets
  <1>2. s = [r EXCEPT !.buffer = b, !.next = next, !.eof = eof]
      BY DEF InOrder
  <1> HIDE DEF q, n
  <1>3. /\ bytes \in Seq(Int) /\ Len(bytes) = n
        /\ \A j \in 1 .. n : bytes[j] = q + j - 1
      BY <1>1
  <1> HIDE DEF bytes
  <1>4. /\ b \in Seq(Int) /\ Len(b) = Len(r.buffer) + n
        /\ \A j \in 1 .. Len(b) :
               b[j] = IF j <= Len(r.buffer) THEN r.buffer[j] ELSE bytes[j - Len(r.buffer)]
    <2> DEFINE old == r.buffer
    <2>1. old \in Seq(Int) /\ bytes \in Seq(Int) /\ Len(bytes) = n
        BY <1>1, <1>3
    <2>2. b = old \o bytes
        OBVIOUS
    <2> HIDE DEF n, old, b
    <2>3. /\ b \in Seq(Int) /\ Len(b) = Len(old) + Len(bytes)
          /\ \A j \in 1 .. Len(old) + Len(bytes) :
                 b[j] = IF j <= Len(old) THEN old[j] ELSE bytes[j - Len(old)]
        BY <2>1, <2>2, ConcatProperties
    <2> QED
        BY <2>1, <2>3 DEF old
  <1> HIDE DEF b
  <1>5. ASSUME NEW j \in 1 .. Len(b) PROVE b[j] = r.next - Len(r.buffer) + j - 1
    <2>1. CASE j <= Len(r.buffer)
      <3>1. j \in 1 .. Len(r.buffer) /\ b[j] = r.buffer[j]
          BY <1>1, <1>4, <2>1
      <3> QED
          BY <1>1, <3>1
    <2>2. CASE ~(j <= Len(r.buffer))
      <3>1. j - Len(r.buffer) \in 1 .. n
          BY <1>1, <1>4, <2>2
      <3>2. b[j] = q + (j - Len(r.buffer)) - 1
          BY <1>3, <1>4, <2>2, <3>1
      <3>3. j \in Nat
          BY <1>1, <1>4
      <3> QED
          BY <1>1, <3>2, <3>3
    <2> QED
        BY <2>1, <2>2
  <1>6. next \in Nat /\ eof \in BOOLEAN
      BY <1>1
  <1>7. next = r.next + n /\ (eof <=> r.eof \/ p.kind = "eof")
      OBVIOUS
  <1> HIDE DEF next, eof, s
  <1>8. /\ s \in ReaderStates /\ s.buffer = b /\ s.next = next /\ s.eof = eof
        /\ s.id = r.id /\ s.ooo = r.ooo /\ s.err = r.err /\ s.closed = r.closed
      BY <1>2, <1>4, <1>6 DEF ReaderStates
  <1>9. /\ Len(b) \in Nat /\ Len(b) <= ReadWindow /\ Len(b) <= next
        /\ next - Len(b) = r.next - Len(r.buffer)
    <2>1. /\ Len(r.buffer) \in Nat /\ r.next \in Nat /\ n \in Nat
          /\ r.next + n <= r.next - Len(r.buffer) + ReadWindow
          /\ Len(r.buffer) <= r.next
          /\ Len(b) = Len(r.buffer) + n /\ next = r.next + n
        BY <1>1, <1>4, <1>7
    <2> QED
        BY <2>1, ReadWindowAssumption
  <1>10. ReadPos(s) = ReadPos(r) /\ ReadPos(r) = r.next - Len(r.buffer)
      BY <1>8, <1>9 DEF ReadPos
  <1>11. ReaderFits(s)
      BY <1>5, <1>8, <1>9, <1>10 DEF ReaderFits
  <1>12. Finished(s) <=> p.kind = "eof"
      BY <1>7, <1>8 DEF Finished
  <1> QED
      BY <1>4, <1>7, <1>8, <1>10, <1>11, <1>12 DEF s, n

(* What a reader makes of a packet that is not behind it: it takes in data *)
(* that is next, and an end that is next or is an error; an end too early  *)
(* it keeps for later.                                                     *)
LEMMA RecvEffect ==
  ASSUME NEW r \in ReaderStates, ReaderFits(r), r.ooo = {},
         NEW p \in Packets, p.id = r.id,
         (p.kind = "data") <=> (p.n # 0),
         ~Finished(r) => p.seq >= r.next,
         ~Finished(r) /\ p.kind = "data" =>
             p.seq = r.next /\ p.seq + p.n <= ReadPos(r) + ReadWindow
  PROVE  /\ RecvData(r, p).reader \in ReaderStates /\ ReaderFits(RecvData(r, p).reader)
         /\ RecvData(r, p).reader.id = r.id
         /\ ReadPos(RecvData(r, p).reader) = ReadPos(r)
         /\ Finished(r) => RecvData(r, p).reader = r
         /\ ~Finished(r) => /\ RecvData(r, p).reader.next = r.next + p.n
                            /\ Len(RecvData(r, p).reader.buffer) = Len(r.buffer) + p.n
         /\ ~Finished(r) /\ p.kind = "data" =>
                ~Finished(RecvData(r, p).reader) /\ RecvData(r, p).reader.ooo = {}
         /\ RecvData(r, p).acks \in Seq(Acks)
         /\ \A k \in 1 .. Len(RecvData(r, p).acks) :
                /\ RecvData(r, p).acks[k].id = r.id
                /\ RecvData(r, p).acks[k].seq = RecvData(r, p).reader.next
                /\ RecvData(r, p).acks[k].rwnd =
                       ReadWindow - Len(RecvData(r, p).reader.buffer)
  <1> DEFINE out == RecvData(r, p)
  <1>1. /\ r.next \in Nat /\ Len(r.buffer) \in Nat /\ p.seq \in Nat /\ p.n \in Nat
        /\ p.kind \in {"data", "eof", "error"}
        /\ Len(r.buffer) <= ReadWindow
      BY DEF ReaderStates, Packets, ReaderFits
  <1>2. CASE Finished(r)
    <2>1. out = Silent(r)
        BY <1>2 DEF RecvData
    <2> HIDE DEF out
    <2>2. out.reader = r /\ out.acks \in Seq(Acks) /\ Len(out.acks) = 0
        BY <2>1, SilentEffect
    <2> QED
        BY <1>2, <2>2 DEF out
  <1>3. CASE ~Finished(r) /\ p.kind = "error"
    <2> DEFINE s == [r EXCEPT !.err = "stream"]
    <2>1. out = Acking(s, TRUE, FALSE)
        BY <1>3 DEF RecvData
    <2>2. /\ s \in ReaderStates /\ s.id = r.id /\ s.next = r.next
          /\ s.buffer = r.buffer
        BY DEF ReaderStates
    <2> HIDE DEF s, out
    <2>3. \E fin, cancel \in BOOLEAN : out = Acking(s, fin, cancel)
        BY <2>1
    <2>4. /\ out.reader \in ReaderStates
          /\ out.reader.id = s.id /\ out.reader.next = s.next
          /\ out.reader.buffer = s.buffer
          /\ out.acks \in Seq(Acks)
          /\ \A k \in 1 .. Len(out.acks) :
                 /\ out.acks[k].id = s.id /\ out.acks[k].seq = s.next
                 /\ out.acks[k].rwnd = ReadWindow - Len(s.buffer)
        BY <1>1, <2>2, <2>3, AckingEffect
    <2>5. ReaderFits(out.reader) /\ ReadPos(out.reader) = ReadPos(r)
        BY <2>2, <2>4 DEF ReaderFits, ReadPos
    <2>6. p.n = 0 /\ r.next + p.n = r.next /\ Len(r.buffer) + p.n = Len(r.buffer)
        BY <1>1, <1>3
    <2> QED
        BY <1>3, <2>2, <2>4, <2>5, <2>6 DEF out
  <1>4. CASE ~Finished(r) /\ p.kind # "error" /\ p.seq > r.next
    <2> DEFINE s == AddOutOfOrder(r, p)
    <2>1. out = Silent(s)
        BY <1>1, <1>4 DEF RecvData
    <2>2. s = [r EXCEPT !.ooo = {p}]
        BY DEF AddOutOfOrder
    <2>3. {p} \in SUBSET Packets
        OBVIOUS
    <2> HIDE DEF s, out
    <2>4. /\ s \in ReaderStates /\ s.id = r.id /\ s.next = r.next
          /\ s.buffer = r.buffer
        BY <2>2, <2>3 DEF ReaderStates
    <2>5. out.reader = s /\ out.acks \in Seq(Acks) /\ Len(out.acks) = 0
        BY <2>1, SilentEffect
    <2>6. ReaderFits(out.reader) /\ ReadPos(out.reader) = ReadPos(r)
        BY <2>4, <2>5 DEF ReaderFits, ReadPos
    <2>7. p.kind # "data"
        BY <1>1, <1>4
    <2>8. p.n = 0 /\ r.next + p.n = r.next /\ Len(r.buffer) + p.n = Len(r.buffer)
        BY <1>1, <2>7
    <2> QED
        BY <1>4, <2>4, <2>5, <2>6, <2>7, <2>8 DEF out
  <1>5. CASE ~Finished(r) /\ p.kind # "error" /\ p.seq = r.next
    <2> DEFINE s == InOrder(r, p)
    <2>1. p.seq + p.n <= ReadPos(r) + ReadWindow
        BY <1>1, <1>5, ReadWindowAssumption DEF ReadPos
    <2>2. /\ s \in ReaderStates /\ ReaderFits(s)
          /\ s.id = r.id /\ s.ooo = {}
          /\ s.next = r.next + p.n
          /\ Len(s.buffer) = Len(r.buffer) + p.n
          /\ ReadPos(s) = ReadPos(r)
          /\ Finished(s) <=> p.kind = "eof"
        BY <1>5, <2>1, InOrderEffect
    <2>3. DeliverOutOfOrder(s) = s
        BY <2>2 DEF DeliverOutOfOrder
    <2>4. out = Acking(s, s.eof, FALSE)
      <3>1. ~(p.seq < r.next) /\ ~(p.seq > r.next)
          BY <1>1, <1>5
      <3> HIDE DEF s
      <3>2. out = LET u == DeliverOutOfOrder(InOrder(r, p)) IN Acking(u, u.eof, FALSE)
          BY <1>5, <3>1 DEF RecvData
      <3> QED
          BY <2>3, <3>2 DEF s
    <2> HIDE DEF s, out
    <2>5. \E fin, cancel \in BOOLEAN : out = Acking(s, fin, cancel)
        BY <2>2, <2>4 DEF ReaderStates
    <2>6. Len(s.buffer) <= ReadWindow
        BY <2>2 DEF ReaderFits
    <2>7. /\ out.reader \in ReaderStates
          /\ out.reader.id = s.id /\ out.reader.next = s.next
          /\ out.reader.buffer = s.buffer /\ out.reader.ooo = s.ooo
          /\ out.reader.eof = s.eof /\ out.reader.err = s.err
          /\ out.reader.closed = s.closed
          /\ out.acks \in Seq(Acks)
          /\ \A k \in 1 .. Len(out.acks) :
                 /\ out.acks[k].id = s.id /\ out.acks[k].seq = s.next
                 /\ out.acks[k].rwnd = ReadWindow - Len(s.buffer)
        BY <2>2, <2>5, <2>6, AckingEffect
    <2>8. /\ ReaderFits(out.reader) /\ ReadPos(out.reader) = ReadPos(r)
          /\ Finished(out.reader) <=> Finished(s)
        BY <2>2, <2>7 DEF ReaderFits, ReadPos, Finished
    <2> QED
        BY <1>5, <2>2, <2>7, <2>8 DEF out
  <1>6. ~Finished(r) => p.seq > r.next \/ p.seq = r.next
      BY <1>1
  <1> QED
      BY <1>2, <1>3, <1>4, <1>5, <1>6

(* What the packet at the head of the link is to its reader.               *)
LEMMA FirstPacket ==
  ASSUME DurableInv, data # << >>,
         NEW p, p = data[1], NEW r, r = readers[p.id]
  PROVE  /\ Len(data) \in Nat /\ 1 \in 1 .. Len(data)
         /\ p \in Packets /\ p.id \in Streams /\ p.id <= current
         /\ p.seq \in Nat /\ p.n \in Nat
         /\ r \in ReaderStates /\ r.id = p.id /\ ReaderFits(r) /\ r.ooo = {}
         /\ (p.kind = "data") <=> (p.n # 0)
         /\ ~Finished(r) => p.seq = Base(p.id) /\ p.seq >= r.next
         /\ ~Finished(r) /\ p.kind = "data" =>
                p.seq = r.next /\ p.seq + p.n <= ReadPos(r) + ReadWindow
         /\ link = current /\ p.id = current => ~Finished(r)
         /\ p.kind = "data" => ~(p.id = current /\ ctl.pc \in {"prepared", "start"})
  <1>1. Len(data) \in Nat /\ 1 \in 1 .. Len(data)
      BY MessageTyping
  <1>2. /\ p \in Packets /\ p.id \in Streams /\ p.id <= current
        /\ p.seq \in Nat /\ p.n \in Nat
      BY <1>1, MessageTyping
  <1>3. /\ r \in ReaderStates /\ r.id = p.id /\ ReaderFits(r) /\ r.next \in Nat
      BY <1>2, ReaderTyping, ReaderHolds
  <1>4. (p.kind = "data") <=> (p.n # 0)
      BY <1>1 DEF DurableInv, PacketsInOrder
  <1>5. /\ r.ooo = {}
        /\ ~Finished(r) => p.seq = Base(p.id)
        /\ ~Finished(r) /\ p.kind = "data" =>
               p.seq + p.n <= ReadPos(r) + ReadWindow
        /\ link = current /\ p.id = current => ~Finished(r)
      BY <1>1 DEF DurableInv, PacketsFit, IsFirst
  <1>6. p.kind = "data" => ~(p.id = current /\ ctl.pc \in {"prepared", "start"})
      BY <1>1 DEF DurableInv, NothingSentYet
  <1>7. ~(p.id = current /\ ctl.pc = "prepared") => Base(p.id) = r.next
      BY DEF Base
  <1>8. p.id = current /\ ctl.pc = "prepared" => Base(p.id) >= r.next
    <2>1. p.id = current /\ ctl.pc = "prepared" =>
              Base(p.id) = ctl.rtn /\ r.next = ctl.seq /\ ctl.seq <= ctl.rtn
        BY DEF DurableInv, Readers, Base
    <2> QED
        BY <2>1, Typing
  <1> QED
      BY <1>1, <1>2, <1>3, <1>4, <1>5, <1>6, <1>7, <1>8

(* The packets behind the first keep their order.                          *)
LEMMA TailKeepsOrder ==
  ASSUME DurableInv, data # << >>,
         data' \in Seq(Packets), Len(data') = Len(data) - 1,
         \A k \in 1 .. Len(data') : data'[k] = data[k + 1],
         UNCHANGED <<sm, ctl, current>>
  PROVE  /\ PacketsInOrder' /\ NothingSentYet'
         /\ \A k \in 1 .. Len(data') :
                /\ k + 1 \in 1 .. Len(data) /\ data[1].id <= data'[k].id
                /\ data[1].kind # "data" => data[1].id # data'[k].id
                /\ IsFirst(k)' =>
                      IF data'[k].id = data[1].id
                      THEN k = 1 /\ data[2].seq = data[1].seq + data[1].n
                      ELSE IsFirst(k + 1)
  <1>1. Len(data) \in Nat /\ Len(data) >= 1
      BY MessageTyping
  <1>2. \A k \in 1 .. Len(data') : k + 1 \in 1 .. Len(data) /\ k \in Nat /\ k >= 1
      BY <1>1
  <1>3. /\ \A k \in 1 .. Len(data) :
              /\ data[k].id <= sm.id
              /\ data[k].kind = "data" <=> data[k].n # 0
        /\ \A j, k \in 1 .. Len(data) :
              j < k => /\ data[j].id <= data[k].id
                       /\ data[j].kind # "data" => data[j].id # data[k].id
        /\ \A k \in 1 .. Len(data) :
              k > 1 /\ data[k - 1].id = data[k].id =>
                  data[k].seq = data[k - 1].seq + data[k - 1].n
      BY DEF DurableInv, PacketsInOrder
  <1>4. PacketsInOrder'
    <2>1. \A k \in 1 .. Len(data') :
              /\ data'[k].id <= sm'.id
              /\ data'[k].kind = "data" <=> data'[k].n # 0
        BY <1>2, <1>3
    <2>2. ASSUME NEW j \in 1 .. Len(data'), NEW k \in 1 .. Len(data'), j < k
          PROVE  /\ data'[j].id <= data'[k].id
                 /\ data'[j].kind # "data" => data'[j].id # data'[k].id
      <3>1. j + 1 < k + 1
          BY <1>2, <2>2
      <3> QED
          BY <1>2, <1>3, <3>1, ZenonT(30)
    <2>3. ASSUME NEW k \in 1 .. Len(data'), k > 1, data'[k - 1].id = data'[k].id
          PROVE  data'[k].seq = data'[k - 1].seq + data'[k - 1].n
      <3>1. k - 1 \in 1 .. Len(data') /\ (k - 1) + 1 = k /\ k + 1 > 1 /\ (k + 1) - 1 = k
          BY <1>1, <1>2, <2>3
      <3>2. data'[k - 1] = data[k] /\ data'[k] = data[k + 1]
          BY <3>1
      <3> QED
          BY <1>2, <1>3, <2>3, <3>1, <3>2, SMTT(20)
    <2> QED
        BY <2>1, <2>2, <2>3 DEF PacketsInOrder
  <1>5. NothingSentYet'
      BY <1>2 DEF DurableInv, NothingSentYet
  <1>6. ASSUME NEW k \in 1 .. Len(data')
        PROVE  /\ data[1].id <= data'[k].id
               /\ data[1].kind # "data" => data[1].id # data'[k].id
    <2>1. 1 < k + 1 /\ 1 \in 1 .. Len(data)
        BY <1>1, <1>2
    <2> QED
        BY <1>2, <1>3, <2>1
  <1>7. ASSUME NEW k \in 1 .. Len(data'), IsFirst(k)', data'[k].id = data[1].id
        PROVE  k = 1 /\ data[2].seq = data[1].seq + data[1].n
    <2>1. k = 1
      <3>1. SUFFICES ASSUME k # 1 PROVE FALSE
          OBVIOUS
      <3>2. data'[k - 1].id # data'[k].id
          BY <1>7, <3>1 DEF IsFirst
      <3>3. k - 1 \in 1 .. Len(data') /\ (k - 1) + 1 = k /\ k \in 1 .. Len(data)
            /\ k < k + 1 /\ k + 1 \in 1 .. Len(data)
          BY <1>1, <1>2, <3>1
      <3>4. data'[k - 1] = data[k] /\ data'[k] = data[k + 1]
          BY <3>3
      <3>5. data[1].id <= data[k].id /\ data[k].id <= data[k + 1].id
          BY <1>3, <1>6, <3>3, <3>4
      <3>6. data[1].id \in Nat /\ data[k].id \in Nat
        <4>1. 1 \in 1 .. Len(data)
            BY <1>1
        <4> QED
            BY <3>3, <4>1, MessageTyping
      <3> QED
          BY <1>7, <3>2, <3>4, <3>5, <3>6
    <2>2. 2 \in 1 .. Len(data) /\ data'[1] = data[2] /\ 2 - 1 = 1 /\ 2 > 1
        BY <1>2, <2>1
    <2>3. data[2 - 1].id = data[2].id
        BY <1>7, <2>1, <2>2
    <2>4. data[2].seq = data[2 - 1].seq + data[2 - 1].n
        BY <1>3, <2>2, <2>3
    <2> QED
        BY <2>1, <2>2, <2>4
  <1>8. ASSUME NEW k \in 1 .. Len(data'), IsFirst(k)', data'[k].id # data[1].id
        PROVE  IsFirst(k + 1)
    <2>1. (k + 1) - 1 = k /\ data'[k] = data[k + 1]
        BY <1>2
    <2>2. data[k].id # data[k + 1].id
      <3>1. CASE k = 1
          BY <1>8, <2>1, <3>1
      <3>2. CASE k # 1
        <4>1. data'[k - 1].id # data'[k].id
            BY <1>8, <3>2 DEF IsFirst
        <4>2. k - 1 \in 1 .. Len(data') /\ (k - 1) + 1 = k
            BY <1>1, <1>2, <3>2
        <4>3. data'[k - 1] = data[k]
            BY <4>2
        <4> QED
            BY <2>1, <4>1, <4>3
      <3> QED
          BY <3>1, <3>2
    <2> QED
        BY <2>1, <2>2 DEF IsFirst
  <1> QED
      BY <1>2, <1>4, <1>5, <1>6, <1>7, <1>8

LEMMA PacketArrivesKeepsInv ==
  ASSUME DurableInv, PacketArrives
  PROVE  DurableInv'
  <1> DEFINE p == data[1]
             i == p.id
             r == readers[i]
             n == p.n
             s == RecvData(r, p).reader
             answer == RecvData(r, p).acks
             refusal == <<ReaderNotFound(p)>>
             m == IF Finished(r) THEN 0 ELSE n
  <1>1. /\ data # << >>
        /\ readers' = [readers EXCEPT ![i] = s]
        /\ Send(answer) \/ (Finished(r) /\ Send(refusal))
        /\ data' = Tail(data)
        /\ UNCHANGED <<sm, link, attached, current, loops, ctl, file, totalGap, streamDone, late>>
    <2>1. data # << >> /\ Head(data) = data[1]
        BY MessageTyping DEF PacketArrives
    <2> QED
        BY <2>1 DEF PacketArrives
  <1>2. /\ data' \in Seq(Packets) /\ Len(data') = Len(data) - 1
        /\ \A k \in 1 .. Len(data') : data'[k] = data[k + 1]
      BY <1>1, MessageTyping
  <1>3. UNCHANGED <<sm, link, attached, current, loops, ctl, file, totalGap, streamDone, late>>
        /\ data # << >>
      BY <1>1
  <1>4. /\ Len(data) \in Nat /\ 1 \in 1 .. Len(data)
        /\ p \in Packets /\ i \in Streams /\ i <= current
        /\ p.seq \in Nat /\ p.n \in Nat
        /\ r \in ReaderStates /\ r.id = i /\ ReaderFits(r) /\ r.ooo = {}
        /\ (p.kind = "data") <=> (p.n # 0)
        /\ ~Finished(r) => p.seq = Base(i) /\ p.seq >= r.next
        /\ ~Finished(r) /\ p.kind = "data" =>
               p.seq = r.next /\ p.seq + p.n <= ReadPos(r) + ReadWindow
        /\ link = current /\ i = current => ~Finished(r)
        /\ p.kind = "data" => ~(i = current /\ ctl.pc \in {"prepared", "start"})
      BY <1>3, FirstPacket
  <1>5. /\ s \in ReaderStates /\ ReaderFits(s) /\ s.id = i /\ ReadPos(s) = ReadPos(r)
        /\ Finished(r) => s = r
        /\ s.next = r.next + m /\ Len(s.buffer) = Len(r.buffer) + m
        /\ Finished(r) => Finished(s)
        /\ p.kind = "data" => /\ Finished(s) => Finished(r)
                              /\ s.ooo = {}
        /\ answer \in Seq(Acks)
        /\ \A k \in 1 .. Len(answer) :
               /\ answer[k].id = i /\ answer[k].seq = s.next
               /\ answer[k].rwnd = ReadWindow - Len(s.buffer)
    <2>1. /\ s \in ReaderStates /\ ReaderFits(s) /\ s.id = r.id /\ ReadPos(s) = ReadPos(r)
          /\ Finished(r) => s = r
          /\ ~Finished(r) => s.next = r.next + p.n /\ Len(s.buffer) = Len(r.buffer) + p.n
          /\ ~Finished(r) /\ p.kind = "data" => ~Finished(s) /\ s.ooo = {}
          /\ answer \in Seq(Acks)
          /\ \A k \in 1 .. Len(answer) :
                 /\ answer[k].id = r.id /\ answer[k].seq = s.next
                 /\ answer[k].rwnd = ReadWindow - Len(s.buffer)
        BY <1>4, RecvEffect, SMTT(20)
    <2>2. r.next \in Nat /\ Len(r.buffer) \in Nat
        BY <1>4 DEF ReaderStates
    <2>3. Finished(r) => s.next = r.next + m /\ Len(s.buffer) = Len(r.buffer) + m
        BY <2>1, <2>2, SMTT(20)
    <2> HIDE DEF s, answer, r, p
    <2> QED
        BY <1>4, <2>1, <2>3
  <1>6. /\ m \in Nat /\ (p.kind # "data" => m = 0) /\ (~Finished(r) => m = n)
        /\ n \in Nat /\ (p.kind # "data" => n = 0)
      BY <1>4
  <1>7. /\ current \in Streams /\ current \in Nat /\ i \in Nat
        /\ r.next \in Nat /\ Len(r.buffer) \in Nat
        /\ s.next \in Nat /\ Len(s.buffer) \in Nat
        /\ ReadPos(r) \in Int /\ ReadPos(s) = s.next - Len(s.buffer)
    <2>1. /\ r.next \in Nat /\ Len(r.buffer) \in Nat
          /\ s.next \in Nat /\ Len(s.buffer) \in Nat
      <3>1. r \in ReaderStates /\ s \in ReaderStates
          BY <1>4, <1>5
      <3> HIDE DEF r, s
      <3> QED
          BY <3>1 DEF ReaderStates
    <2>2. ReadPos(r) = r.next - Len(r.buffer) /\ ReadPos(s) = s.next - Len(s.buffer)
        BY DEF ReadPos
    <2>3. current \in Streams /\ current \in Nat /\ i \in Nat
        BY <1>4, Typing
    <2> HIDE DEF r, s, i
    <2> QED
        BY <2>1, <2>2, <2>3
  <1> HIDE DEF s, answer, m
  <1>8. /\ readers' \in [Streams -> ReaderStates] /\ readers'[i] = s
        /\ \A j \in Streams : j # i => readers'[j] = readers[j]
      BY <1>1, <1>4, <1>5, ReaderTyping
  <1>9. /\ PacketsInOrder' /\ NothingSentYet'
        /\ \A k \in 1 .. Len(data') :
               /\ k + 1 \in 1 .. Len(data) /\ data[1].id <= data'[k].id
               /\ data[1].kind # "data" => data[1].id # data'[k].id
               /\ IsFirst(k)' =>
                     IF data'[k].id = data[1].id
                     THEN k = 1 /\ data[2].seq = data[1].seq + data[1].n
                     ELSE IsFirst(k + 1)
      BY <1>2, <1>3, TailKeepsOrder
  <1>10. acks' \in Seq(Acks) /\ AcksTrue'
    <2>1. /\ current' = current /\ link' = link
          /\ readers'[current].next \in Nat
          /\ readers[current].next <= readers'[current].next
          /\ ReadPos(readers'[current]) \in Int
          /\ ReadPos(readers[current]) <= ReadPos(readers'[current])
      <3>1. CASE i = current
        <4>1. readers'[current] = s /\ readers[current] = r
            BY <1>8, <3>1
        <4>2. s.next \in Nat /\ r.next <= s.next /\ ReadPos(s) \in Int
              /\ ReadPos(r) <= ReadPos(s)
          <5>1. s.next \in Nat /\ s.next = r.next + m /\ m \in Nat /\ r.next \in Nat
                /\ ReadPos(r) \in Int /\ ReadPos(s) = ReadPos(r)
              BY <1>5, <1>6, <1>7
          <5> HIDE DEF r
          <5> QED
              BY <5>1
        <4> QED
            BY <1>3, <4>1, <4>2
      <3>2. CASE i # current
          BY <1>3, <1>7, <1>8, <3>2, ReaderTyping, ReadPosTyping
      <3> QED
          BY <3>1, <3>2
    <2>2. CASE Send(answer)
      <3>1. ASSUME NEW k \in 1 .. Len(answer)
            PROVE  /\ answer[k].id <= current
                   /\ link = current /\ answer[k].id = current =>
                         /\ answer[k].seq <= readers'[current].next
                         /\ answer[k].seq + answer[k].rwnd <=
                                ReadPos(readers'[current]) + ReadWindow
        <4>1. /\ answer[k].id = i /\ answer[k].seq = s.next
              /\ answer[k].rwnd = ReadWindow - Len(s.buffer)
            BY <1>5
        <4>2. i = current => readers'[current] = s
            BY <1>8
        <4> QED
            BY <1>4, <1>7, <4>1, <4>2, ReadWindowAssumption
      <3> QED
          BY <1>5, <2>1, <2>2, <3>1, SendingKeepsAcks
    <2>3. CASE Finished(r) /\ Send(refusal)
      <3>1. /\ ReaderNotFound(p) \in Acks /\ ReaderNotFound(p).id = i
            BY <1>4 DEF ReaderNotFound, Acks
      <3>2. refusal \in Seq(Acks) /\ \A k \in 1 .. Len(refusal) : refusal[k].id = i
          BY <3>1
      <3>3. ~(link = current /\ i = current)
          BY <1>4, <2>3
      <3> HIDE DEF refusal
      <3>4. \A k \in 1 .. Len(refusal) :
                refusal[k].id <= current /\ ~(link = current /\ refusal[k].id = current)
          BY <1>4, <3>2, <3>3
      <3> QED
          BY <2>1, <2>3, <3>2, <3>4, SendingKeepsAcks
    <2> QED
        BY <1>1, <2>2, <2>3
  <1> HIDE DEF p, i, r, n, refusal
  <1>11. Types'
      BY <1>2, <1>3, <1>8, <1>10 DEF DurableInv, Types
  <1>12. Connections'
      BY <1>3
      DEF DurableInv, Connections, Reopening, Unconnected, Serving, Live
  <1>13. i = current /\ ctl.pc \in {"prepared", "start"} =>
             /\ readers'[current].next = readers[current].next
             /\ Len(readers'[current].buffer) = Len(readers[current].buffer)
             /\ readers'[current].ooo \in SUBSET Packets
    <2>1. i = current /\ ctl.pc \in {"prepared", "start"} => m = 0
        BY <1>4, <1>6
    <2>2. m = 0 => s.next = r.next /\ Len(s.buffer) = Len(r.buffer)
        BY <1>5, <1>7
    <2> QED
        BY <1>5, <1>8, <2>1, <2>2 DEF ReaderStates, r
  <1>14. Counters'
    <2>1. ctl.pc = "start" => readers'[current].next = readers[current].next
        BY <1>7, <1>8, <1>13
    <2> QED
        BY <1>3, <2>1 DEF DurableInv, Counters
  <1>15. Unconnected => i # current
    <2>1. i <= sm.id /\ sm.id \in Nat
        BY <1>4, MessageTyping, Typing DEF i, p
    <2> QED
        BY <1>7, <2>1 DEF DurableInv, Connections
  <1>16. Readers'
    <2>1. ASSUME NEW j \in Streams PROVE ReaderOK(j)'
      <3>1. CASE j = i
          BY <1>5, <1>8, <3>1 DEF ReaderOK, ReaderFits
      <3>2. CASE j # i
          BY <1>8, <3>2 DEF DurableInv, Readers, ReaderOK, ReadPos
      <3> QED
          BY <3>1, <3>2
    <2>2. CASE i # current
        BY <1>3, <1>7, <1>8, <2>1, <2>2 DEF DurableInv, Readers, Unconnected
    <2>3. CASE i = current
      <3>1. ~Unconnected
          BY <1>15, <2>3
      <3>2. readers'[current].buffer \in Seq(Int) /\ readers[current].buffer \in Seq(Int)
          BY <1>7, <1>8, ReaderTyping DEF ReaderStates
      <3>3. ctl.pc \in {"prepared", "start"} => Len(readers'[current].buffer) = 0
          BY <1>13, <2>3 DEF DurableInv, Readers
      <3>4. ctl.pc \in {"prepared", "start"} => readers'[current].buffer = << >>
          BY <3>2, <3>3
      <3> QED
          BY <1>3, <1>13, <2>1, <2>3, <3>1, <3>4 DEF DurableInv, Readers, Unconnected
    <2> QED
        BY <2>2, <2>3
  <1>17. Loops'
    <2>1. ASSUME NEW j \in Streams PROVE LoopOK(j)'
      <3>1. Finished(readers[j]) => Finished(readers'[j])
          BY <1>5, <1>8 DEF r
      <3> QED
          BY <1>3, <3>1 DEF DurableInv, Loops, LoopOK
    <2> QED
        BY <1>3, <2>1 DEF DurableInv, Loops, Unconnected
  <1>18. \A j \in Streams : j # i => Base(j)' = Base(j)
      BY <1>3, <1>8 DEF Base
  <1>19. ASSUME NEW j \in Streams, j = i, ~Finished(r)
         PROVE  Base(j)' = p.seq + n
    <2>1. p.seq = Base(j)
        BY <1>4, <1>19
    <2>2. CASE j = current /\ ctl.pc = "prepared"
      <3>1. Base(j)' = ctl.rtn /\ Base(j) = ctl.rtn
          BY <1>3, <2>2 DEF Base
      <3>2. n = 0
          BY <1>4, <1>6, <1>19, <2>2
      <3> QED
          BY <1>4, <2>1, <3>1, <3>2 DEF p
    <2>3. CASE ~(j = current /\ ctl.pc = "prepared")
      <3>1. Base(j)' = s.next /\ Base(j) = r.next
          BY <1>3, <1>8, <1>19, <2>3 DEF Base, r
      <3>2. s.next = r.next + m /\ m = n
          BY <1>5, <1>6, <1>19
      <3> QED
          BY <2>1, <3>1, <3>2
    <2> QED
        BY <2>2, <2>3
  <1>20. ASSUME NEW k \in 1 .. Len(data'), NEW j \in Streams, j = data'[k].id
         PROVE  /\ ~Finished(readers'[j]) /\ IsFirst(k)' => data'[k].seq = Base(j)'
                /\ ~Finished(readers'[j]) /\ data'[k].kind = "data" =>
                      data'[k].seq + data'[k].n <= ReadPos(readers'[j]) + ReadWindow
                /\ readers'[j].ooo = {}
                /\ j = link /\ j = current => ~Finished(readers'[j])
    <2>1. k + 1 \in 1 .. Len(data) /\ data'[k] = data[k + 1]
        BY <1>2, <1>9
    <2>2. /\ ~Finished(readers[j]) /\ IsFirst(k + 1) => data'[k].seq = Base(j)
          /\ ~Finished(readers[j]) /\ data'[k].kind = "data" =>
                data'[k].seq + data'[k].n <= ReadPos(readers[j]) + ReadWindow
          /\ readers[j].ooo = {}
          /\ j = link /\ j = current => ~Finished(readers[j])
        BY <1>20, <2>1 DEF DurableInv, PacketsFit
    <2>3. CASE j # i
      <3>1. data'[k].id # data[1].id
          BY <1>20, <2>3 DEF i, p
      <3>2. IsFirst(k)' => IsFirst(k + 1)
          BY <1>9, <3>1
      <3>3. readers'[j] = readers[j] /\ Base(j)' = Base(j)
          BY <1>8, <1>18, <2>3
      <3> QED
          BY <2>2, <3>2, <3>3
    <2>4. CASE j = i
      <3>1. data'[k].id = data[1].id /\ p.kind = "data"
          BY <1>9, <1>20, <2>4 DEF i, p
      <3>2. IsFirst(k)' => data'[k].seq = p.seq + n
          BY <1>9, <2>1, <3>1 DEF p, n
      <3>3. readers'[j] = s /\ (Finished(s) => Finished(r)) /\ s.ooo = {}
            /\ ReadPos(s) = ReadPos(readers[j])
          BY <1>5, <1>8, <2>4, <3>1 DEF r
      <3>4. Finished(s) => Finished(readers[j])
          BY <2>4, <3>3 DEF r
      <3>5. ~Finished(s) => ~Finished(r)
          BY <1>5
      <3>6. ~Finished(readers'[j]) /\ IsFirst(k)' => data'[k].seq = Base(j)'
          BY <1>19, <2>4, <3>2, <3>3, <3>5
      <3>7. ~Finished(s) => ~Finished(readers[j])
          BY <2>4, <3>5 DEF r
      <3> QED
          BY <2>2, <3>3, <3>4, <3>6, <3>7
    <2> QED
        BY <2>3, <2>4
  <1>21. PacketsFit'
    <2>1. \A k \in 1 .. Len(data') : data'[k].id \in Streams
        BY <1>2, <1>9, MessageTyping
    <2> QED
        BY <1>3, <1>20, <2>1 DEF PacketsFit
  <1>22. LiveStream'
    <2> SUFFICES ASSUME Live PROVE LiveStream'
        BY <1>3 DEF LiveStream, Live
    <2>1. /\ ~Finished(readers[current]) => LastSent = sm.head + sm.sent
          /\ EndSeen => EndSent
          /\ ctl.pc # "prepared" =>
                sm.head + sm.rwnd <= ReadPos(readers[current]) + ReadWindow
        BY DEF DurableInv, LiveStream
    <2>2. ReadPos(readers'[current]) = ReadPos(readers[current])
        BY <1>5, <1>7, <1>8 DEF r
    <2>3. EndSeen' => EndSeen
      <3>1. ASSUME NEW k \in 1 .. Len(data'), data'[k].id = current, data'[k].kind # "data"
            PROVE  EndSeen
          BY <1>2, <1>9, <3>1 DEF EndSeen
      <3>2. CASE i = current /\ p.kind # "data"
          BY <1>4, <3>2 DEF EndSeen, i, p
      <3>3. CASE i = current /\ p.kind = "data"
        <4>1. /\ Finished(readers'[current]) => Finished(readers[current])
              /\ readers'[current].ooo = {}
            BY <1>5, <1>8, <3>3 DEF r
        <4> QED
            BY <1>3, <3>1, <4>1 DEF EndSeen
      <3>4. CASE i # current
        <4>1. readers'[current] = readers[current]
            BY <1>7, <1>8, <3>4
        <4> QED
            BY <1>3, <3>1, <4>1 DEF EndSeen
      <3> QED
          BY <3>2, <3>3, <3>4
    <2>4. ~Finished(readers'[current]) => LastSent' = LastSent
      <3> SUFFICES ASSUME ~Finished(readers'[current]) PROVE LastSent' = LastSent
          OBVIOUS
      <3>1. CASE Len(data) = 1
        <4>1. Len(data') = 0 /\ data' = << >>
            BY <1>2, <3>1
        <4>2. LastSent' = Base(current)'
            BY <1>3, <4>1 DEF LastSent
        <4>3. CASE i = current
          <5>1. LastSent = p.seq + n
              BY <1>3, <3>1, <4>3 DEF LastSent, i, p, n
          <5>2. ~Finished(r)
              BY <1>5, <1>8, <4>3
          <5>3. ASSUME NEW j \in Streams, j = current PROVE Base(current)' = p.seq + n
            <6>1. Base(j)' = p.seq + n
                BY <1>19, <4>3, <5>2, <5>3
            <6>2. current' = j
                BY <1>3, <5>3
            <6> QED
                BY <6>1, <6>2 DEF Base
          <5> QED
              BY <1>7, <4>2, <5>1, <5>3
        <4>4. CASE i # current
          <5>1. LastSent = Base(current)
              BY <3>1, <4>4 DEF LastSent, i, p
          <5>2. readers'[current] = readers[current]
              BY <1>7, <1>8, <4>4
          <5>3. Base(current)' = Base(current)
              BY <1>3, <5>2 DEF Base
          <5> QED
              BY <4>2, <5>1, <5>3
        <4> QED
            BY <4>3, <4>4
      <3>2. CASE Len(data) # 1
        <4>1. Len(data') \in 1 .. Len(data') /\ data'[Len(data')] = data[Len(data)]
              /\ data' # << >>
          <5>1. Len(data') \in 1 .. Len(data') /\ Len(data') + 1 = Len(data)
              BY <1>2, <1>4, <3>2
          <5> QED
              BY <1>2, <5>1
        <4>2. CASE data[Len(data)].id = current
            BY <1>3, <4>1, <4>2 DEF LastSent
        <4>3. CASE data[Len(data)].id # current
          <5>1. LastSent' = Base(current)' /\ LastSent = Base(current)
              BY <1>3, <4>1, <4>3 DEF LastSent
          <5>2. i # current
            <6>1. i <= data[Len(data)].id
                BY <1>9, <4>1 DEF i, p
            <6>2. Len(data) \in 1 .. Len(data)
                BY <1>4
            <6>3. data[Len(data)].id \in Nat /\ data[Len(data)].id <= current
                BY <6>2, MessageTyping
            <6> QED
                BY <1>7, <4>3, <6>1, <6>3
          <5>3. readers'[current] = readers[current]
              BY <1>7, <1>8, <5>2
          <5>4. Base(current)' = Base(current)
              BY <1>3, <5>3 DEF Base
          <5> QED
              BY <5>1, <5>4
        <4> QED
            BY <4>2, <4>3
      <3> QED
          BY <3>1, <3>2
    <2>5. ~Finished(readers'[current]) => ~Finished(readers[current])
        BY <1>5, <1>7, <1>8 DEF r
    <2> QED
        BY <1>3, <2>1, <2>2, <2>3, <2>4, <2>5 DEF LiveStream, EndSent
  <1>23. FiledAndLost' = FiledAndLost /\ FiledAndLost \in Nat
      BY <1>3, Typing DEF FiledAndLost
  <1>24. \E d \in Nat : /\ readers'[current].next = readers[current].next + d
                        /\ Len(readers'[current].buffer) = Len(readers[current].buffer) + d
    <2>1. CASE i = current
      <3>1. /\ readers'[current].next = readers[current].next + m
            /\ Len(readers'[current].buffer) = Len(readers[current].buffer) + m
          BY <1>5, <1>8, <2>1 DEF r
      <3> QED
          BY <1>6, <3>1
    <2>2. CASE i # current
      <3>1. readers'[current] = readers[current] /\ 0 \in Nat
          BY <1>7, <1>8, <2>2
      <3>2. /\ readers[current].next = readers[current].next + 0
            /\ Len(readers[current].buffer) = Len(readers[current].buffer) + 0
          BY <1>7, ReaderTyping
      <3> QED
          BY <3>1, <3>2
    <2> QED
        BY <2>1, <2>2
  <1>25. PICK d \in Nat : /\ readers'[current].next = readers[current].next + d
                          /\ Len(readers'[current].buffer) =
                                 Len(readers[current].buffer) + d
      BY <1>24
  <1>26. /\ readers[current].next \in Nat /\ Len(readers[current].buffer) \in Nat
         /\ Len(loops[current].bytes) \in Nat /\ sm.head \in Nat
         /\ loops' = loops
      BY <1>3, <1>7, Typing, ReaderTyping
  <1>27. Accounted'
    <2>1. Accounted
        BY DEF DurableInv
    <2>2. readers'[current].next <=
              FiledAndLost + Len(loops[current].bytes) + Len(readers'[current].buffer)
      <3> DEFINE f == FiledAndLost
                 x == Len(loops[current].bytes)
                 z == Len(readers[current].buffer)
      <3>1. f \in Nat /\ x \in Nat /\ z \in Nat /\ readers[current].next <= f + x + z
          BY <1>23, <1>26, <2>1 DEF Accounted
      <3> HIDE DEF f, x, z
      <3>2. readers[current].next + d <= f + x + (z + d)
          BY <1>26, <3>1
      <3> QED
          BY <1>25, <3>2 DEF f, x, z
    <2>3. Serving /\ ctl.pc # "prepared" => sm.head <= readers'[current].next
        BY <1>25, <1>26, <2>1 DEF Accounted
    <2> QED
        BY <1>3, <1>23, <2>1, <2>2, <2>3 DEF Accounted, Serving, Unconnected
  <1>28. Drained => Drained'
    <2> SUFFICES ASSUME Drained PROVE Drained'
        OBVIOUS
    <2>1. readers'[current].next =
              FiledAndLost + Len(loops[current].bytes) + Len(readers'[current].buffer)
      <3> DEFINE f == FiledAndLost
                 x == Len(loops[current].bytes)
                 z == Len(readers[current].buffer)
      <3>1. f \in Nat /\ x \in Nat /\ z \in Nat /\ readers[current].next = f + x + z
          BY <1>23, <1>26 DEF Drained
      <3> HIDE DEF f, x, z
      <3>2. readers[current].next + d = f + x + (z + d)
          BY <1>26, <3>1
      <3> QED
          BY <1>25, <3>2 DEF f, x, z
    <2> QED
        BY <1>3, <1>23, <2>1 DEF Drained, Unconnected
  <1> QED
      BY <1>3, <1>9, <1>10, <1>11, <1>12, <1>14, <1>16, <1>17, <1>21, <1>22, <1>27, <1>28
      DEF DurableInv

-----------------------------------------------------------------------------
(* Every step keeps the invariant.                                         *)

LEMMA DurableNextKeepsInv == DurableInv /\ [Next]_vars => DurableInv'
  <1> SUFFICES ASSUME DurableInv, [Next]_vars PROVE DurableInv'
      OBVIOUS
  <1>1. ASSUME NEW n \in 1 .. Chunk, PtyWrite(n) PROVE DurableInv'
      BY <1>1, PtyWriteKeepsInv
  <1>2. ASSUME NEW kind \in EndKinds, PtyEnd(kind) PROVE DurableInv'
      BY <1>2, PtyEndKeepsInv
  <1>3. CASE Transport
      BY <1>3, SendPacketKeepsInv, SendEndKeepsInv, AckArrivesKeepsInv, PacketArrivesKeepsInv
      DEF Transport
  <1>4. ASSUME NEW i \in Streams, LoopRead(i) \/ LoopAppend(i) PROVE DurableInv'
    <2>1. CASE LoopRead(i) /\ i = current
      <3>1. LoopRead(current)
          BY <2>1
      <3> QED
          BY <3>1, CurrentReadKeepsInv
    <2>2. CASE LoopRead(i) /\ i # current
        BY <2>2, OldReadKeepsInv
    <2>3. CASE LoopAppend(i)
        BY <2>3, LoopAppendKeepsInv
    <2> QED
        BY <1>4, <2>1, <2>2, <2>3
  <1>5. CASE LinkDrop
      BY <1>5, LinkDropKeepsInv
  <1>6. ASSUME NEW conn \in Streams, Reconnect(conn) PROVE DurableInv'
      BY <1>6, ReconnectKeepsInv
  <1>7. CASE RestartStreaming
      BY <1>7, StatFileKeepsInv, CreateReaderKeepsInv, PrepareConnectKeepsInv,
         ConnectNewClientKeepsInv, RecordGapKeepsInv, StartStreamKeepsInv,
         StartLoopKeepsInv, StreamWasDoneKeepsInv, GiveUpKeepsInv
      DEF RestartStreaming
  <1>8. CASE UNCHANGED vars
    <2>1. UNCHANGED <<sm, link, data, acks, attached, current, readers, loops, ctl, file,
                      totalGap, streamDone, late>>
        BY <1>8 DEF vars
    <2>2. Types' /\ Connections' /\ Counters'
        BY <2>1
        DEF DurableInv, Types, Connections, Reopening, Unconnected, Live, Serving, Counters
    <2>3. Readers' /\ Loops' /\ AcksTrue'
        BY <2>1
        DEF DurableInv, Readers, ReaderOK, Loops, LoopOK, Unconnected, ReadPos, AcksTrue
    <2>4. PacketsInOrder' /\ NothingSentYet' /\ PacketsFit'
        BY <2>1
        DEF DurableInv, PacketsInOrder, NothingSentYet, PacketsFit, Base, IsFirst, ReadPos
    <2>5. LiveStream'
        BY <2>1 DEF DurableInv, LiveStream, Live, LastSent, Base, EndSent, EndSeen, ReadPos
    <2>6. Accounted' /\ (Drained => Drained')
        BY <2>1
        DEF DurableInv, Accounted, Drained, Serving, Reopening, Unconnected, FiledAndLost
    <2> QED
        BY <2>1, <2>2, <2>3, <2>4, <2>5, <2>6 DEF DurableInv
  <1> QED
      BY <1>1, <1>2, <1>3, <1>4, <1>5, <1>6, <1>7, <1>8 DEF Next, OutputLoops

(* The parts of the invariant hold in every reachable state.               *)
THEOREM DurableInvariant == Spec => []DurableInv
  <1>1. Init => DurableInv
      BY DurableInitEstablishesInv
  <1>2. DurableInv /\ [Next]_vars => DurableInv'
      BY DurableNextKeepsInv
  <1> QED
      BY <1>1, <1>2, PTL DEF Spec

(* The system's types and bounds: no more is held and sent than there is   *)
(* (jobmanager/streammanager.go, streamclient/streamreader.go).            *)
THEOREM DurableTypes == Spec => []TypeOK
  <1>1. DurableInv => TypeOK
    <2> SUFFICES ASSUME DurableInv PROVE TypeOK
        OBVIOUS
    <2>1. sm.total \in 0 .. MaxTotal /\ sm.head \in 0 .. sm.total /\ sm.sent \in 0 .. RingSize
        BY Typing, SizesAssumption DEF DurableInv, Counters
    <2>2. /\ link \in 0 .. MaxStreams /\ attached \subseteq Streams /\ current \in Streams
          /\ totalGap \in Nat /\ streamDone \in BOOLEAN /\ late \in BOOLEAN
        BY DEF DurableInv, Types
    <2>3. ctl.pc \in {"idle", "stat", "create", "prepare", "kicked", "prepared",
                      "start", "started", "done", "failed"}
        BY Typing DEF ControlStates
    <2>4. \A i \in Streams : /\ readers[i].next \in Nat
                             /\ loops[i].pc \in {"none", "read", "got", "dead"}
        BY ReaderTyping DEF LoopStates
    <2> QED
        BY <2>1, <2>2, <2>3, <2>4 DEF TypeOK
  <1> QED
      BY <1>1, DurableInvariant, PTL

(* No reader is handed more than its window, though windows travel in      *)
(* acks that arrive late, acks may be lost and a reconnect replays         *)
(* (streammanager.go:386, streamreader.go:133).                            *)
THEOREM ReaderNeverOverrun == Spec => []ReaderWithinWindow
  <1>1. DurableInv => ReaderWithinWindow
      BY DEF DurableInv, Readers, ReaderOK, ReaderWithinWindow
  <1> QED
      BY <1>1, DurableInvariant, PTL

(* What the job dropped while its client was connected is in the file,     *)
(* counted as lost, or with the current stream's loop and reader           *)
(* (streammanager.go:225-234, jobcontroller.go:1313-1326).                 *)
THEOREM DroppedIsAccountedFor == Spec => []DroppedIsAccounted
  <1>1. DurableInv => DroppedIsAccounted
    <2> SUFFICES ASSUME DurableInv, ctl.pc = "idle", loops[current].pc # "none"
                 PROVE  sm.head <= FiledAndLost + Len(loops[current].bytes)
                                       + Len(readers[current].buffer)
        BY DEF DroppedIsAccounted
    <2> DEFINE f == FiledAndLost
               x == Len(loops[current].bytes)
               z == Len(readers[current].buffer)
               most == f + x + z
    <2>1. sm.head <= readers[current].next /\ readers[current].next <= most
        BY DEF DurableInv, Accounted, Serving
    <2>2. sm.head \in Nat /\ readers[current].next \in Nat
          /\ f \in Nat /\ x \in Nat /\ z \in Nat
        BY Typing, ReaderTyping
    <2> HIDE DEF f, x, z
    <2>3. most \in Nat
        BY <2>2
    <2> HIDE DEF most
    <2>4. sm.head <= most
        BY <2>1, <2>2, <2>3
    <2> QED
        BY <2>4 DEF most, f, x, z
  <1> QED
      BY <1>1, DurableInvariant, PTL

(* Until a loop appends bytes that a restart did not find in the file, the *)
(* file's length and its gap are the stream position of the next byte      *)
(* appended: no byte is missing without being counted, none is appended    *)
(* twice, whatever old loops hold, the connection loses and restarts fail  *)
(* at (jobcontroller.go:1238-1242, 1313-1326, 815-833).                    *)
THEOREM AppendsKeepSequence == Spec => InSequenceUntilLate
  <1>1. DurableInv /\ [Next]_vars => [late' \/ AppendedInSequence]_vars
    <2> SUFFICES ASSUME DurableInv, Next, ~late',
                        NEW k \in 1 .. Len(file') - Len(file)
                 PROVE  file'[Len(file) + k] = FiledAndLost + k - 1
        BY DEF AppendedInSequence
    <2>1. file' # file
      <3>1. file \in Seq(Int) /\ Len(file) \in Nat
          BY DEF DurableInv, Types
      <3>2. 1 .. Len(file) - Len(file) = {}
          BY <3>1
      <3> QED
          BY <3>2
    <2>2. \E i \in Streams : LoopAppend(i)
        BY <2>1
        DEF Next, Transport, OutputLoops, RestartStreaming, PtyWrite, PtyEnd, SendPacket,
            SendEnd, AckArrives, PacketArrives, LoopRead, LinkDrop, Reconnect, StatFile,
            CreateReader, PrepareConnect, ConnectNewClient, RecordGap, StartStream,
            StartLoop, StreamWasDone, GiveUp, GiveUpReader
    <2>3. PICK i \in Streams : LoopAppend(i)
        BY <2>2
    <2> DEFINE b == loops[i].bytes
    <2>4. file' = file \o b
        BY <2>3 DEF LoopAppend
    <2>5. file \in Seq(Int) /\ b \in Seq(Int) /\ Len(file) \in Nat /\ Len(b) \in Nat
        BY ReaderTyping DEF DurableInv, Types
    <2>6. i = current
      <3>1. i # current => b = << >>
          BY <2>3 DEF LoopAppend, AppendsLate
      <3>2. b = << >> => file' = file
          BY <2>4, <2>5
      <3> QED
          BY <2>1, <3>1, <3>2
    <2> HIDE DEF b
    <2>7. Len(file') = Len(file) + Len(b) /\ k \in 1 .. Len(b)
      <3>1. Len(file') = Len(file) + Len(b)
          BY <2>4, <2>5
      <3>2. k \in 1 .. Len(file') - Len(file)
          OBVIOUS
      <3>3. Len(file') - Len(file) = Len(b)
          BY <2>5, <3>1
      <3> QED
          BY <3>1, <3>2, <3>3
    <2>8. file'[Len(file) + k] = b[k]
        BY <2>4, <2>5, <2>7
    <2>9. ~late
        BY <2>3, ZenonT(30) DEF LoopAppend, DurableInv, Types
    <2>10. b[k] = FiledAndLost + k - 1
        BY <2>6, <2>7, <2>9 DEF DurableInv, Drained, b
    <2> QED
        BY <2>8, <2>10
  <1>2. Spec => [][late' \/ AppendedInSequence]_vars
      BY <1>1, DurableInvariant, PTL DEF Spec
  <1> QED
      BY <1>2 DEF InSequenceUntilLate
=============================================================================
