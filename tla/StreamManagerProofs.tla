-------------------------- MODULE StreamManagerProofs --------------------------
(***************************************************************************)
(* The stream manager's invariants for every ring, window, chunk and       *)
(* number of connections.  SMInv is inductive: one lemma says what each    *)
(* ring call does to the numbers the manager computes with, then each of   *)
(* its parts is preserved by every action.                                 *)
(***************************************************************************)
EXTENDS StreamManager, CirBufProofs

-----------------------------------------------------------------------------
(* What a ring call does to the counts, the head and the mode.             *)

(* A write takes some of its bytes and keeps all held ones it can; a full  *)
(* sync window takes nothing and parks the writer.                         *)
LEMMA WriteEffect ==
    ASSUME CirBufInv, NEW n \in 1 .. MaxChunk, WriteAvailable(n)
    PROVE  /\ Accepted(n) \in 0 .. n
           /\ totalSize' = totalSize + Accepted(n)
           /\ count' \in count .. count + Accepted(n)
           /\ syncMode' = syncMode
           /\ syncMode => totalSize' - count' = totalSize - count
           /\ ~syncMode => Accepted(n) # 0 /\ waiterChan' = waiterChan
  <1>1. /\ count \in 0 .. Size /\ totalSize \in Nat /\ windowSize \in 0 .. Size
        /\ syncMode \in BOOLEAN
      BY DEF CirBufInv, TypeOK
  <1>2. Accepted(n) \in 0 .. n /\ (~syncMode => Accepted(n) # 0)
      BY <1>1, SizeAssumption, ChunkAssumption DEF Accepted, SmallerOf
  <1>3. CASE Accepted(n) = 0
    <2>1. totalSize' = totalSize /\ count' = count /\ syncMode' = syncMode
        BY <1>3 DEF WriteAvailable, RegisterWaiter
    <2> QED
        BY <1>1, <1>2, <1>3, <2>1
  <1>4. CASE Accepted(n) # 0
    <2> DEFINE w == Accepted(n)
               g == Growth(w)
    <2>1. w \in 1 .. Size /\ g \in 0 .. w /\ (syncMode => w - g = 0)
        BY <1>4, WriteAmounts DEF CirBufInv
    <2>2. /\ totalSize' = totalSize + w /\ count' = count + g
          /\ syncMode' = syncMode /\ waiterChan' = waiterChan
        BY <1>4 DEF WriteAvailable, StoreBytes
    <2> HIDE DEF w, g
    <2>3. count + g \in count .. count + w
        BY <1>1, <2>1, SizeAssumption
    <2>4. syncMode => (totalSize + w) - (count + g) = totalSize - count
        BY <1>1, <2>1, SizeAssumption
    <2> QED
        BY <1>2, <1>4, <2>2, <2>3, <2>4 DEF w
  <1> QED
      BY <1>3, <1>4

(* Neither a change to sync mode nor the whole ring's window drops a byte; *)
(* leaving sync mode frees the writer.                                     *)
LEMMA TuneEffect ==
    ASSUME CirBufInv, NEW rwnd \in Nat, ConnectedWindow(rwnd)
    PROVE  syncMode' /\ count' = count /\ totalSize' = totalSize
  BY SizeAssumption
  DEF ConnectedWindow, SetEffectiveWindow, Excess, CirBufInv, TypeOK

(* A ring made asynchronous keeps its whole window and frees its writer.   *)
LEMMA DetuneEffect ==
    ASSUME CirBufInv, syncMode, DisconnectedWindow
    PROVE  ~syncMode' /\ ~waiterChan' /\ count' = count /\ totalSize' = totalSize
  <1>1. SmallerOf(Size, Size) = Size /\ Excess(FALSE, Size) = 0
      BY SizeAssumption DEF SmallerOf, Excess, CirBufInv, TypeOK
  <1>2. WakesWriter(FALSE, SmallerOf(Size, Size)) = TRUE
      BY DEF WakesWriter
  <1>3. /\ syncMode' = FALSE /\ totalSize' = totalSize
        /\ count' = count - Excess(FALSE, SmallerOf(Size, Size))
      BY DEF DisconnectedWindow, SetEffectiveWindow
  <1>4. waiterChan' = (waiterChan /\ ~WakesWriter(FALSE, SmallerOf(Size, Size)))
      BY DEF DisconnectedWindow, SetEffectiveWindow
  <1>5. ~waiterChan'
      BY <1>2, <1>4, Zenon
  <1>6. count - 0 = count
      BY DEF CirBufInv, TypeOK
  <1> QED
      BY <1>1, <1>3, <1>5, <1>6, Zenon

(* Consuming k bytes moves the head k positions on.                        *)
LEMMA ConsumeEffect ==
    ASSUME CirBufInv, NEW n \in Nat, Consume(n)
    PROVE  /\ n <= count /\ count' = count - n /\ totalSize' = totalSize
           /\ syncMode' = syncMode /\ ~waiterChan'
  BY DEF Consume

(* The window asked for is a number of bytes.                              *)
LEMMA EffectiveWindowIsNat ==
    ASSUME NEW rwnd \in Nat
    PROVE  EffectiveWindow(rwnd) \in Nat
  BY CwndAssumption DEF EffectiveWindow, SmallerOf

(* What is peeked with room to send and bytes behind those in flight.      *)
LEMMA PeekedBytes ==
    ASSUME CirBufInv, SMTypeOK, sentNotAcked < count, available > 0,
           AvailableToSend > 0
    PROVE  /\ Peeked \in Seq(Int)
           /\ Len(Peeked) \in 1 .. count - sentNotAcked
           /\ \A i \in 1 .. Len(Peeked) :
                  Peeked[i] = HeadPos + sentNotAcked + i - 1
  <1> DEFINE n == SmallerOf(PeekSize, count - sentNotAcked)
  <1>1. /\ count \in 0 .. Size /\ sentNotAcked \in Nat /\ available \in 0 .. Size
        /\ readPos \in Slots /\ totalSize \in Nat /\ buf \in [Slots -> Int]
      BY DEF CirBufInv, TypeOK, SMTypeOK
  <1>2. AvailableToSend \in Int
      BY <1>1, EffectiveWindowIsNat, SMTT(20) DEF AvailableToSend, SMTypeOK
  <1>3. n \in 1 .. count - sentNotAcked
      BY <1>1, <1>2, SizeAssumption, ChunkAssumption DEF PeekSize, SmallerOf
  <1>4. Peeked = [i \in 1 .. n |-> buf[(readPos + sentNotAcked + i - 1) % Size]]
      BY <1>1 DEF Peeked, PeekDataAt
  <1> HIDE DEF n
  <1>5. \A i \in 1 .. n : buf[(readPos + sentNotAcked + i - 1) % Size]
                            = HeadPos + sentNotAcked + i - 1
    <2> TAKE i \in 1 .. n
    <2>1. sentNotAcked + i - 1 \in 0 .. count - 1
        BY <1>1, <1>3, SizeAssumption
    <2>2. buf[(readPos + (sentNotAcked + i - 1)) % Size]
            = HeadPos + (sentNotAcked + i - 1)
        BY <2>1 DEF CirBufInv, HoldsNewestBytes
    <2>3. /\ readPos + (sentNotAcked + i - 1) = readPos + sentNotAcked + i - 1
          /\ HeadPos + (sentNotAcked + i - 1) = HeadPos + sentNotAcked + i - 1
        BY <1>1, <1>3, SizeAssumption DEF HeadPos, Slots
    <2> QED
        BY <2>2, <2>3
  <1>6. n \in Nat /\ HeadPos \in Int
      BY <1>1, <1>3, SizeAssumption DEF HeadPos
  <1>7. \A i \in 1 .. n : HeadPos + sentNotAcked + i - 1 \in Int
      BY <1>1, <1>6
  <1>8. Peeked \in [1 .. n -> Int]
      BY <1>4, <1>5, <1>7
  <1>9. Peeked \in Seq(Int) /\ Len(Peeked) = n
      BY <1>6, <1>8
  <1> QED
      BY <1>3, <1>4, <1>5, <1>9

(* A step that calls no ring method leaves the ring right.                 *)
LEMMA RingFrame == CirBufInv /\ UNCHANGED cbVars => CirBufInv'
  BY CirBufNextKeepsInv

-----------------------------------------------------------------------------
(* Every action keeps every part of SMInv.                                 *)

(* The PTY's reader is attached.                                           *)
LEMMA AttachReaderKeepsInv ==
    ASSUME SMInv, AttachReader
    PROVE  SMInv'
  <1> USE DEF AttachReader, LockFree, SMInv,
        cbVars, readVars, sendVars, localVars, clientVars, ackVars, endVars,
        wireVars, connVars, flowVars
  <1>1. UNCHANGED cbVars
      OBVIOUS
  <1>2. CirBufInv'
      BY <1>1, RingFrame
  <1>3. SMTypeOK'
      BY <1>1 DEF SMTypeOK
  <1>4. LockHeldOnce' /\ ReadLoopState' /\ TerminalState'
      BY <1>1 DEF LockHeldOnce, ReadLoopState, TerminalState
  <1>5. PacketState' /\ PacketCarriesItsSeq'
      BY <1>1 DEF PacketState, PacketCarriesItsSeq, LockHeldOnce, HeadPos
  <1>6. ModeFollowsClient' /\ UnackedStillHeld'
      BY <1>1 DEF ModeFollowsClient, UnackedStillHeld
  <1>7. NoLostWakeup'
      BY <1>1 DEF NoLostWakeup, SenderHasWork, TerminalReady, AvailableToSend,
             EffectiveWindow
  <1> QED
      BY <1>2, <1>3, <1>4, <1>5, <1>6, <1>7

(* readLoop looks whether the manager was closed.                          *)
LEMMA CheckClosedKeepsInv ==
    ASSUME SMInv, CheckClosed
    PROVE  SMInv'
  <1> USE DEF CheckClosed, LockFree, SMInv,
        cbVars, readVars, sendVars, localVars, clientVars, ackVars, endVars,
        wireVars, connVars, flowVars
  <1>1. UNCHANGED cbVars
      OBVIOUS
  <1>2. CirBufInv'
      BY <1>1, RingFrame
  <1>3. SMTypeOK'
      BY <1>1 DEF SMTypeOK
  <1>4. LockHeldOnce' /\ ReadLoopState' /\ TerminalState'
      BY <1>1 DEF LockHeldOnce, ReadLoopState, TerminalState
  <1>5. PacketState' /\ PacketCarriesItsSeq'
      BY <1>1 DEF PacketState, PacketCarriesItsSeq, LockHeldOnce, HeadPos
  <1>6. ModeFollowsClient' /\ UnackedStillHeld'
      BY <1>1 DEF ModeFollowsClient, UnackedStillHeld
  <1>7. NoLostWakeup'
      BY <1>1 DEF NoLostWakeup, SenderHasWork, TerminalReady, AvailableToSend,
             EffectiveWindow
  <1> QED
      BY <1>2, <1>3, <1>4, <1>5, <1>6, <1>7

(* readLoop has a chunk, or the PTY's end, and has written nothing yet.    *)
LEMMA ReadPtyKeepsInv ==
    ASSUME SMInv, NEW n \in 0 .. MaxChunk, NEW err \in {"none", "eof", "error"}, ReadPty(n, err)
    PROVE  SMInv'
  <1> USE DEF ReadPty, AfterRead, SMInv,
        cbVars, readVars, sendVars, localVars, clientVars, ackVars, endVars,
        wireVars, connVars, flowVars
  <1>1. UNCHANGED cbVars
      OBVIOUS
  <1>2. CirBufInv'
      BY <1>1, RingFrame
  <1>3. SMTypeOK'
      BY <1>1 DEF SMTypeOK
  <1>4. LockHeldOnce' /\ ReadLoopState' /\ TerminalState'
      BY <1>1 DEF LockHeldOnce, ReadLoopState, TerminalState
  <1>5. PacketState' /\ PacketCarriesItsSeq'
      BY <1>1 DEF PacketState, PacketCarriesItsSeq, LockHeldOnce, HeadPos
  <1>6. ModeFollowsClient' /\ UnackedStillHeld'
      BY <1>1 DEF ModeFollowsClient, UnackedStillHeld
  <1>7. NoLostWakeup'
      BY <1>1 DEF NoLostWakeup, SenderHasWork, TerminalReady, AvailableToSend,
             EffectiveWindow
  <1> QED
      BY <1>2, <1>3, <1>4, <1>5, <1>6, <1>7

(* readLoop tells senderLoop of what it wrote.                             *)
LEMMA SignalWrittenKeepsInv ==
    ASSUME SMInv, SignalWritten
    PROVE  SMInv'
  <1> USE DEF SignalWritten, LockFree, Signal, AfterRead, SMInv,
        cbVars, readVars, sendVars, localVars, clientVars, ackVars, endVars,
        wireVars, connVars, flowVars
  <1>1. UNCHANGED cbVars
      OBVIOUS
  <1>2. CirBufInv'
      BY <1>1, RingFrame
  <1>3. SMTypeOK'
      BY <1>1 DEF SMTypeOK
  <1>4. LockHeldOnce' /\ ReadLoopState' /\ TerminalState'
      BY <1>1 DEF LockHeldOnce, ReadLoopState, TerminalState
  <1>5. PacketState' /\ PacketCarriesItsSeq'
      BY <1>1 DEF PacketState, PacketCarriesItsSeq, LockHeldOnce, HeadPos
  <1>6. ModeFollowsClient' /\ UnackedStillHeld'
      BY <1>1 DEF ModeFollowsClient, UnackedStillHeld
  <1>7. NoLostWakeup'
      BY <1>1 DEF NoLostWakeup, SenderHasWork, TerminalReady, AvailableToSend,
             EffectiveWindow
  <1> QED
      BY <1>2, <1>3, <1>4, <1>5, <1>6, <1>7

(* The PTY's end is recorded where the stream stands, which it no longer   *)
(* leaves.                                                                 *)
LEMMA HandleEndKeepsInv ==
    ASSUME SMInv, HandleEnd
    PROVE  SMInv'
  <1> USE DEF HandleEnd, LockFree, Signal, SMInv,
        cbVars, readVars, sendVars, localVars, clientVars, ackVars, endVars,
        wireVars, connVars, flowVars
  <1>1. UNCHANGED cbVars
      OBVIOUS
  <1>2. CirBufInv'
      BY <1>1, RingFrame
  <1>3. SMTypeOK'
      BY <1>1 DEF SMTypeOK, CirBufInv, TypeOK
  <1>4. LockHeldOnce' /\ ReadLoopState' /\ TerminalState'
      BY <1>1 DEF LockHeldOnce, ReadLoopState, TerminalState
  <1>5. PacketState' /\ PacketCarriesItsSeq'
      BY <1>1 DEF PacketState, PacketCarriesItsSeq, LockHeldOnce, HeadPos
  <1>6. ModeFollowsClient' /\ UnackedStillHeld'
      BY <1>1 DEF ModeFollowsClient, UnackedStillHeld
  <1>7. NoLostWakeup'
      BY <1>1 DEF NoLostWakeup, SenderHasWork, TerminalReady, AvailableToSend,
             EffectiveWindow
  <1> QED
      BY <1>2, <1>3, <1>4, <1>5, <1>6, <1>7

(* senderLoop reads the ring's size with sm.lock taken.                    *)
LEMMA ReadBufferSizeKeepsInv ==
    ASSUME SMInv, ReadBufferSize
    PROVE  SMInv'
  <1> USE DEF ReadBufferSize, LockFree, SMInv,
        cbVars, readVars, sendVars, localVars, clientVars, ackVars, endVars,
        wireVars, connVars, flowVars
  <1>1. UNCHANGED cbVars
      OBVIOUS
  <1>2. CirBufInv'
      BY <1>1, RingFrame
  <1>3. SMTypeOK'
      BY <1>1 DEF SMTypeOK, CirBufInv, TypeOK
  <1>4. LockHeldOnce' /\ ReadLoopState' /\ TerminalState'
      BY <1>1 DEF LockHeldOnce, ReadLoopState, TerminalState
  <1>5. PacketState' /\ PacketCarriesItsSeq'
      BY <1>1 DEF PacketState, PacketCarriesItsSeq, LockHeldOnce, HeadPos
  <1>6. ModeFollowsClient' /\ UnackedStillHeld'
      BY <1>1 DEF ModeFollowsClient, UnackedStillHeld
  <1>7. NoLostWakeup'
      BY <1>1 DEF NoLostWakeup, SenderHasWork, TerminalReady, AvailableToSend,
             EffectiveWindow
  <1> QED
      BY <1>2, <1>3, <1>4, <1>5, <1>6, <1>7

(* senderLoop ends.                                                        *)
LEMMA SenderStopKeepsInv ==
    ASSUME SMInv, SenderStop
    PROVE  SMInv'
  <1> USE DEF SenderStop, SMInv,
        cbVars, readVars, sendVars, localVars, clientVars, ackVars, endVars,
        wireVars, connVars, flowVars
  <1>1. UNCHANGED cbVars
      OBVIOUS
  <1>2. CirBufInv'
      BY <1>1, RingFrame
  <1>3. SMTypeOK'
      BY <1>1, SizeAssumption DEF SMTypeOK
  <1>4. LockHeldOnce' /\ ReadLoopState' /\ TerminalState'
      BY <1>1 DEF LockHeldOnce, ReadLoopState, TerminalState
  <1>5. PacketState' /\ PacketCarriesItsSeq'
      BY <1>1 DEF PacketState, PacketCarriesItsSeq, LockHeldOnce, HeadPos
  <1>6. ModeFollowsClient' /\ UnackedStillHeld'
      BY <1>1 DEF ModeFollowsClient, UnackedStillHeld
  <1>7. NoLostWakeup'
      BY <1>1 DEF NoLostWakeup, SenderHasWork, TerminalReady, AvailableToSend,
             EffectiveWindow
  <1> QED
      BY <1>2, <1>3, <1>4, <1>5, <1>6, <1>7

(* The packet is on its way.                                               *)
LEMMA SendDataKeepsInv ==
    ASSUME SMInv, SendData
    PROVE  SMInv'
  <1> USE DEF SendData, NoPkt, SMInv,
        cbVars, readVars, sendVars, localVars, clientVars, ackVars, endVars,
        wireVars, connVars, flowVars
  <1>1. UNCHANGED cbVars
      OBVIOUS
  <1>2. CirBufInv'
      BY <1>1, RingFrame
  <1>3. SMTypeOK'
      BY <1>1, StreamsAssumption DEF SMTypeOK, None
  <1>4. LockHeldOnce' /\ ReadLoopState' /\ TerminalState'
      BY <1>1 DEF LockHeldOnce, ReadLoopState, TerminalState
  <1>5. PacketState' /\ PacketCarriesItsSeq'
      BY <1>1 DEF PacketState, PacketCarriesItsSeq, LockHeldOnce, HeadPos
  <1>6. ModeFollowsClient' /\ UnackedStillHeld'
      BY <1>1 DEF ModeFollowsClient, UnackedStillHeld
  <1>7. NoLostWakeup'
      BY <1>1 DEF NoLostWakeup, SenderHasWork, TerminalReady, AvailableToSend,
             EffectiveWindow
  <1> QED
      BY <1>2, <1>3, <1>4, <1>5, <1>6, <1>7

(* A client connects: sm.lock is taken, the head read.                     *)
LEMMA ConnectReadHeadKeepsInv ==
    ASSUME SMInv, NEW seq \in 0 .. totalSize + 1, NEW rwnd \in 0 .. MaxRwnd, ConnectReadHead(seq, rwnd)
    PROVE  SMInv'
  <1> USE DEF ConnectReadHead, LockFree, SMInv,
        cbVars, readVars, sendVars, localVars, clientVars, ackVars, endVars,
        wireVars, connVars, flowVars
  <1>1. UNCHANGED cbVars
      OBVIOUS
  <1>2. CirBufInv'
      BY <1>1, RingFrame
  <1>3. SMTypeOK'
      BY <1>1 DEF SMTypeOK, CirBufInv, TypeOK, HeadPos, ReadLoopState
  <1>4. LockHeldOnce' /\ ReadLoopState' /\ TerminalState'
      BY <1>1 DEF LockHeldOnce, ReadLoopState, TerminalState
  <1>5. PacketState' /\ PacketCarriesItsSeq'
      BY <1>1 DEF PacketState, PacketCarriesItsSeq, LockHeldOnce, HeadPos
  <1>6. ModeFollowsClient' /\ UnackedStillHeld'
      BY <1>1 DEF ModeFollowsClient, UnackedStillHeld
  <1>7. NoLostWakeup'
      BY <1>1 DEF NoLostWakeup, SenderHasWork, TerminalReady, AvailableToSend,
             EffectiveWindow
  <1> QED
      BY <1>2, <1>3, <1>4, <1>5, <1>6, <1>7

(* The head is read again after the skip.                                  *)
LEMMA ConnectRereadHeadKeepsInv ==
    ASSUME SMInv, ConnectRereadHead
    PROVE  SMInv'
  <1> USE DEF ConnectRereadHead, SMInv,
        cbVars, readVars, sendVars, localVars, clientVars, ackVars, endVars,
        wireVars, connVars, flowVars
  <1>1. UNCHANGED cbVars
      OBVIOUS
  <1>2. CirBufInv'
      BY <1>1, RingFrame
  <1>3. SMTypeOK'
      BY <1>1 DEF SMTypeOK, CirBufInv, TypeOK, HeadPos, ReadLoopState
  <1>4. LockHeldOnce' /\ ReadLoopState' /\ TerminalState'
      BY <1>1 DEF LockHeldOnce, ReadLoopState, TerminalState
  <1>5. PacketState' /\ PacketCarriesItsSeq'
      BY <1>1 DEF PacketState, PacketCarriesItsSeq, LockHeldOnce, HeadPos
  <1>6. ModeFollowsClient' /\ UnackedStillHeld'
      BY <1>1 DEF ModeFollowsClient, UnackedStillHeld
  <1>7. NoLostWakeup'
      BY <1>1 DEF NoLostWakeup, SenderHasWork, TerminalReady, AvailableToSend,
             EffectiveWindow
  <1> QED
      BY <1>2, <1>3, <1>4, <1>5, <1>6, <1>7

(* The client has the end of the stream.                                   *)
LEMMA RecvFinKeepsInv ==
    ASSUME SMInv, RecvFin
    PROVE  SMInv'
  <1> USE DEF RecvFin, LockFree, Signal, SMInv,
        cbVars, readVars, sendVars, localVars, clientVars, ackVars, endVars,
        wireVars, connVars, flowVars
  <1>1. UNCHANGED cbVars
      OBVIOUS
  <1>2. CirBufInv'
      BY <1>1, RingFrame
  <1>3. SMTypeOK'
      BY <1>1 DEF SMTypeOK
  <1>4. LockHeldOnce' /\ ReadLoopState' /\ TerminalState'
      BY <1>1 DEF LockHeldOnce, ReadLoopState, TerminalState
  <1>5. PacketState' /\ PacketCarriesItsSeq'
      BY <1>1 DEF PacketState, PacketCarriesItsSeq, LockHeldOnce, HeadPos
  <1>6. ModeFollowsClient' /\ UnackedStillHeld'
      BY <1>1 DEF ModeFollowsClient, UnackedStillHeld
  <1>7. NoLostWakeup'
      BY <1>1 DEF NoLostWakeup, SenderHasWork, TerminalReady, AvailableToSend,
             EffectiveWindow
  <1> QED
      BY <1>2, <1>3, <1>4, <1>5, <1>6, <1>7

(* An ack that is of no use only counts as seen.                           *)
LEMMA RecvUselessAckKeepsInv ==
    ASSUME SMInv, NEW seq \in 0 .. totalSize, NEW rwnd \in 0 .. MaxRwnd, RecvUselessAck(seq, rwnd)
    PROVE  SMInv'
  <1> USE DEF RecvUselessAck, LockFree, SMInv,
        cbVars, readVars, sendVars, localVars, clientVars, ackVars, endVars,
        wireVars, connVars, flowVars
  <1>1. UNCHANGED cbVars
      OBVIOUS
  <1>2. CirBufInv'
      BY <1>1, RingFrame
  <1>3. SMTypeOK'
      BY <1>1 DEF SMTypeOK
  <1>4. LockHeldOnce' /\ ReadLoopState' /\ TerminalState'
      BY <1>1 DEF LockHeldOnce, ReadLoopState, TerminalState
  <1>5. PacketState' /\ PacketCarriesItsSeq'
      BY <1>1 DEF PacketState, PacketCarriesItsSeq, LockHeldOnce, HeadPos
  <1>6. ModeFollowsClient' /\ UnackedStillHeld'
      BY <1>1 DEF ModeFollowsClient, UnackedStillHeld
  <1>7. NoLostWakeup'
      BY <1>1 DEF NoLostWakeup, SenderHasWork, TerminalReady, AvailableToSend,
             EffectiveWindow
  <1> QED
      BY <1>2, <1>3, <1>4, <1>5, <1>6, <1>7

(* The manager is closed.                                                  *)
LEMMA CloseKeepsInv ==
    ASSUME SMInv, Close
    PROVE  SMInv'
  <1> USE DEF Close, LockFree, Signal, SMInv,
        cbVars, readVars, sendVars, localVars, clientVars, ackVars, endVars,
        wireVars, connVars, flowVars
  <1>1. UNCHANGED cbVars
      OBVIOUS
  <1>2. CirBufInv'
      BY <1>1, RingFrame
  <1>3. SMTypeOK'
      BY <1>1 DEF SMTypeOK
  <1>4. LockHeldOnce' /\ ReadLoopState' /\ TerminalState'
      BY <1>1 DEF LockHeldOnce, ReadLoopState, TerminalState
  <1>5. PacketState' /\ PacketCarriesItsSeq'
      BY <1>1 DEF PacketState, PacketCarriesItsSeq, LockHeldOnce, HeadPos
  <1>6. ModeFollowsClient' /\ UnackedStillHeld'
      BY <1>1 DEF ModeFollowsClient, UnackedStillHeld
  <1>7. NoLostWakeup'
      BY <1>1 DEF NoLostWakeup, SenderHasWork, TerminalReady, AvailableToSend,
             EffectiveWindow
  <1> QED
      BY <1>2, <1>3, <1>4, <1>5, <1>6, <1>7

(* readLoop writes: the ring grows or turns over behind senderLoop's back, *)
(* which it is about to be told.                                           *)
LEMMA WriteChunkKeepsInv ==
    ASSUME SMInv, WriteChunk
    PROVE  SMInv'
  <1> DEFINE w == Accepted(pending)
  <1>1. pending \in 1 .. MaxChunk /\ WriteAvailable(pending)
      BY ChunkAssumption DEF SMInv, SMTypeOK, ReadLoopState, WriteChunk
  <1>2. CirBufInv'
      BY <1>1, WriteAvailableKeepsInv DEF SMInv
  <1>3. /\ w \in 0 .. pending
        /\ totalSize' = totalSize + w
        /\ count' \in count .. count + w
        /\ syncMode' = syncMode
        /\ syncMode => totalSize' - count' = totalSize - count
        /\ ~syncMode => w # 0 /\ waiterChan' = waiterChan
      BY <1>1, WriteEffect DEF SMInv
  <1>4. /\ readPc = "write"
        /\ readPc' = IF w > 0 THEN "signal" ELSE "write"
        /\ pending' = pending - w
        /\ UNCHANGED <<readErr, sendVars, clientVars, ackVars, endVars, wireVars,
                       connVars, flowVars>>
      BY DEF WriteChunk
  <1> HIDE DEF w
  <1> USE DEF readVars, sendVars, localVars, clientVars, ackVars, endVars, wireVars,
              connVars, flowVars
  <1>5. /\ count \in Nat /\ totalSize \in Nat /\ pending \in Nat /\ sentNotAcked \in Nat
        /\ w = 0 => count' = count /\ totalSize' = totalSize
        /\ count' \in Nat /\ count <= count'
        /\ connected => HeadPos' = HeadPos
    <2>1. count \in Nat /\ totalSize \in Nat /\ pending \in Nat /\ sentNotAcked \in Nat
        BY <1>1, SizeAssumption, ChunkAssumption DEF SMInv, SMTypeOK, CirBufInv, TypeOK
    <2>2. connected => HeadPos' = HeadPos
        BY <1>3 DEF SMInv, ModeFollowsClient, HeadPos
    <2> QED
        BY <1>3, <2>1, <2>2
  <1>6. SMTypeOK'
      BY <1>1, <1>3, <1>4, <1>5, ChunkAssumption DEF SMInv, SMTypeOK
  <1>7. LockHeldOnce' /\ ReadLoopState' /\ TerminalState'
      BY <1>1, <1>3, <1>4, <1>5
      DEF SMInv, LockHeldOnce, ReadLoopState, TerminalState
  <1>8. PacketState'
      BY <1>4, <1>5 DEF SMInv, PacketState, LockHeldOnce, SMTypeOK
  <1>9. PacketCarriesItsSeq'
      BY <1>4 DEF SMInv, PacketCarriesItsSeq
  <1>10. ModeFollowsClient' /\ UnackedStillHeld'
      BY <1>3, <1>4, <1>5 DEF SMInv, ModeFollowsClient, UnackedStillHeld
  <1>11. NoLostWakeup'
      BY <1>3, <1>4, <1>5
      DEF SMInv, NoLostWakeup, SenderHasWork, TerminalReady, AvailableToSend,
          EffectiveWindow
  <1> QED
      BY <1>2, <1>6, <1>7, <1>8, <1>9, <1>10, <1>11 DEF SMInv

(* senderLoop goes to sleep only on what is still so, or is being told.    *)
LEMMA SenderWaitKeepsInv ==
    ASSUME SMInv, SenderWait
    PROVE  SMInv'
  <1> USE DEF cbVars, readVars, sendVars, localVars, clientVars, ackVars, endVars,
              wireVars, connVars, flowVars
  <1>1. UNCHANGED cbVars
      BY DEF SenderWait
  <1>2. CirBufInv'
      BY <1>1, RingFrame DEF SMInv
  <1>3. SMTypeOK'
      BY <1>1, SizeAssumption DEF SenderWait, SMInv, SMTypeOK
  <1>4. LockHeldOnce' /\ ReadLoopState' /\ TerminalState'
      BY <1>1 DEF SenderWait, SMInv, LockHeldOnce, ReadLoopState, TerminalState
  <1>5. PacketState' /\ PacketCarriesItsSeq'
      BY <1>1 DEF SenderWait, SMInv, PacketState, PacketCarriesItsSeq, HeadPos
  <1>6. ModeFollowsClient' /\ UnackedStillHeld'
      BY <1>1 DEF SenderWait, SMInv, ModeFollowsClient, UnackedStillHeld
  <1>7. readPc = "signal" \/ ~SenderHasWork
    <2> SUFFICES ASSUME readPc # "signal", SenderHasWork
                 PROVE  FALSE
        OBVIOUS
    <2>1. available = count /\ available \in 0 .. Size /\ sentNotAcked \in Nat
        BY DEF SenderWait, SMInv, ReadLoopState, SMTypeOK
    <2>2. ~closed /\ ~terminalEventAcked /\ connected
        BY DEF SenderWait, SenderHasWork
    <2>3. count # 0
        BY <2>1, <2>2 DEF SenderWait, SenderHasWork, AllAcked
    <2>4. sentNotAcked < count /\ AvailableToSend > 0
        BY <2>2, <2>3 DEF SenderHasWork
    <2>5. AvailableToSend \in Int
        BY <2>1, EffectiveWindowIsNat DEF AvailableToSend, SMInv, SMTypeOK
    <2>6. available > 0 /\ Peeked = << >>
        BY <2>1, <2>2, <2>3, <2>4, <2>5, SizeAssumption DEF SenderWait, AllAcked
    <2>7. Len(Peeked) \in 1 .. count - sentNotAcked
        BY <2>4, <2>6, PeekedBytes DEF SMInv
    <2> QED
        BY <2>6, <2>7
  <1>8. NoLostWakeup'
      BY <1>1, <1>7
      DEF SenderWait, NoLostWakeup, SenderHasWork, TerminalReady, AvailableToSend,
          EffectiveWindow
  <1> QED
      BY <1>2, <1>3, <1>4, <1>5, <1>6, <1>8 DEF SMInv

(* The end is announced with nothing left to acknowledge.                  *)
LEMMA PrepareTerminalPacketKeepsInv ==
    ASSUME SMInv, PrepareTerminalPacket
    PROVE  SMInv'
  <1> USE DEF cbVars, readVars, sendVars, localVars, clientVars, ackVars, endVars,
              wireVars, connVars, flowVars
  <1>1. UNCHANGED cbVars
      BY DEF PrepareTerminalPacket
  <1>2. CirBufInv'
      BY <1>1, RingFrame DEF SMInv
  <1>3. count = 0 /\ terminalEvent \in {"eof", "error"}
      BY DEF PrepareTerminalPacket, AllAcked, TerminalReady, SMInv, ReadLoopState,
             SMTypeOK
  <1>4. SMTypeOK'
      BY <1>1, <1>3, SizeAssumption, << >> \in Seq(Int)
      DEF PrepareTerminalPacket, SMInv, SMTypeOK
  <1>5. LockHeldOnce' /\ ReadLoopState'
      BY <1>1 DEF PrepareTerminalPacket, SMInv, LockHeldOnce, ReadLoopState
  <1>6. TerminalState'
      BY <1>1, <1>3 DEF PrepareTerminalPacket, SMInv, TerminalState
  <1>7. PacketState' /\ PacketCarriesItsSeq'
      BY <1>1, <1>3
      DEF PrepareTerminalPacket, SMInv, PacketState, PacketCarriesItsSeq, HeadPos
  <1>8. ModeFollowsClient' /\ UnackedStillHeld' /\ NoLostWakeup'
      BY <1>1
      DEF PrepareTerminalPacket, SMInv, ModeFollowsClient, UnackedStillHeld, NoLostWakeup
  <1> QED
      BY <1>2, <1>4, <1>5, <1>6, <1>7, <1>8 DEF SMInv

(* The packet holds the bytes right behind those in flight.                *)
LEMMA PeekPacketKeepsInv ==
    ASSUME SMInv, PeekPacket
    PROVE  SMInv'
  <1> USE DEF cbVars, readVars, sendVars, localVars, clientVars, ackVars, endVars,
              wireVars, connVars, flowVars
  <1>1. UNCHANGED cbVars
      BY DEF PeekPacket
  <1>2. CirBufInv'
      BY <1>1, RingFrame DEF SMInv
  <1>3. /\ count \in 0 .. Size /\ sentNotAcked \in Nat /\ available \in 0 .. Size
        /\ connected /\ available # 0 /\ Peeked # << >>
      BY DEF PeekPacket, AllAcked, SMInv, SMTypeOK, CirBufInv, TypeOK
  <1>4. sentNotAcked < count
      BY <1>3, SizeAssumption DEF Peeked, PeekDataAt
  <1>5. /\ Peeked \in Seq(Int)
        /\ Len(Peeked) \in 1 .. count - sentNotAcked
        /\ \A i \in 1 .. Len(Peeked) :
               Peeked[i] = HeadPos + sentNotAcked + i - 1
      BY <1>3, <1>4, PeekedBytes, SizeAssumption DEF PeekPacket, SMInv
  <1>6. pkt' = [kind |-> "data", id |-> streamId, seq |-> None, data |-> Peeked]
      BY DEF PeekPacket
  <1>7. SMTypeOK'
      BY <1>1, <1>5, <1>6, SizeAssumption DEF PeekPacket, SMInv, SMTypeOK
  <1>8. LockHeldOnce' /\ ReadLoopState' /\ TerminalState'
      BY <1>1 DEF PeekPacket, SMInv, LockHeldOnce, ReadLoopState, TerminalState
  <1>9. PacketState'
      BY <1>1, <1>5, <1>6 DEF PeekPacket, SMInv, PacketState, HeadPos
  <1>10. PacketCarriesItsSeq' /\ NoLostWakeup'
      BY DEF PeekPacket, PacketCarriesItsSeq, NoLostWakeup
  <1>11. ModeFollowsClient' /\ UnackedStillHeld'
      BY <1>1 DEF PeekPacket, SMInv, ModeFollowsClient, UnackedStillHeld
  <1> QED
      BY <1>2, <1>7, <1>8, <1>9, <1>10, <1>11 DEF SMInv

(* The label is the position of the first byte copied: the head has not    *)
(* moved while sm.lock was held and the ring was in sync mode.             *)
LEMMA LabelPacketKeepsInv ==
    ASSUME SMInv, LabelPacket
    PROVE  SMInv'
  <1> USE DEF cbVars, readVars, sendVars, localVars, clientVars, ackVars, endVars,
              wireVars, connVars, flowVars
  <1> DEFINE n == Len(pkt.data)
  <1>1. UNCHANGED cbVars
      BY DEF LabelPacket
  <1>2. CirBufInv'
      BY <1>1, RingFrame DEF SMInv
  <1>3. /\ count \in 0 .. Size /\ totalSize \in Nat /\ count <= totalSize
        /\ sentNotAcked \in Nat
        /\ pkt \in [kind : {"none", "data", "eof", "error"}, id : 0 .. MaxStreams,
                    seq : Nat \cup {None}, data : Seq(Int)]
      BY DEF SMInv, SMTypeOK, CirBufInv, TypeOK, ReadLoopState
  <1>4. /\ connected /\ sendPc = "peeked" /\ pkt.kind = "data"
        /\ n \in 1 .. count - sentNotAcked
        /\ \A i \in 1 .. n : pkt.data[i] = HeadPos + sentNotAcked + i - 1
      BY DEF LabelPacket, SMInv, LockHeldOnce, PacketState
  <1>5. /\ pkt' = [pkt EXCEPT !.seq = HeadPos + sentNotAcked]
        /\ sentNotAcked' = sentNotAcked + n
        /\ packedTo' = HeadPos + sentNotAcked + n
        /\ sendPc' = "send"
        /\ HeadPos' = HeadPos
      BY DEF LabelPacket, HeadPos
  <1> HIDE DEF n
  <1>6. /\ HeadPos + sentNotAcked \in Nat /\ HeadPos + sentNotAcked + n \in Nat
        /\ sentNotAcked + n \in Nat /\ sentNotAcked + n <= count
        /\ HeadPos + sentNotAcked + n = HeadPos + (sentNotAcked + n)
      BY <1>3, <1>4, SizeAssumption DEF HeadPos
  <1>7. /\ pkt'.kind = "data" /\ pkt'.data = pkt.data
        /\ pkt'.seq = HeadPos + sentNotAcked
      BY <1>3, <1>4, <1>5
  <1>8. pkt' \in [kind : {"none", "data", "eof", "error"}, id : 0 .. MaxStreams,
                  seq : Nat \cup {None}, data : Seq(Int)]
      BY <1>3, <1>5, <1>6
  <1>9. SMTypeOK'
      BY <1>1, <1>5, <1>6, <1>8 DEF LabelPacket, SMInv, SMTypeOK
  <1>10. LockHeldOnce' /\ ReadLoopState' /\ TerminalState'
      BY <1>1 DEF LabelPacket, SMInv, LockHeldOnce, ReadLoopState, TerminalState
  <1>11. PacketState'
      BY <1>1, <1>5, <1>6 DEF PacketState
  <1>12. PacketCarriesItsSeq'
      BY <1>3, <1>4, <1>7 DEF PacketCarriesItsSeq, n
  <1>13. ModeFollowsClient' /\ NoLostWakeup'
      BY <1>1 DEF LabelPacket, SMInv, ModeFollowsClient, NoLostWakeup
  <1>14. UnackedStillHeld'
      BY <1>1, <1>5, <1>6 DEF UnackedStillHeld
  <1> QED
      BY <1>2, <1>9, <1>10, <1>11, <1>12, <1>13, <1>14 DEF SMInv

(* A client ahead of the head: nobody else is connected, so only the ring  *)
(* changes.                                                                *)
LEMMA ConnectSkipKeepsInv ==
    ASSUME SMInv, ConnectSkip
    PROVE  SMInv'
  <1> USE DEF readVars, sendVars, localVars, clientVars, ackVars, endVars, wireVars,
              connVars, flowVars
  <1> DEFINE n == reqSeq - headRead
  <1>1. /\ n \in Nat /\ reqSeq \in Nat /\ headRead \in Nat
        /\ ~connected /\ ~terminalEventAcked /\ streamId < MaxStreams
        /\ sendPc \notin {"sized", "peeked"}
      BY DEF ConnectSkip, SMInv, SMTypeOK, LockHeldOnce
  <1>2. /\ CirBufInv'
        /\ count' \in Nat /\ count' <= count /\ totalSize' = totalSize
        /\ syncMode' = syncMode /\ (waiterChan' => waiterChan)
    <2>1. CASE n > count
      <3>1. UNCHANGED cbVars
          BY <2>1 DEF ConnectSkip
      <3>2. CirBufInv'
          BY <3>1, RingFrame DEF SMInv
      <3>3. count \in Nat /\ count' = count /\ totalSize' = totalSize
          BY <3>1, SizeAssumption DEF cbVars, SMInv, CirBufInv, TypeOK
      <3>4. syncMode' = syncMode /\ waiterChan' = waiterChan
          BY <3>1 DEF cbVars
      <3> QED
          BY <3>2, <3>3, <3>4
    <2>2. CASE ~(n > count)
      <3>1. Consume(n)
          BY <2>2 DEF ConnectSkip
      <3>2. CirBufInv'
          BY <1>1, <3>1, ConsumeKeepsInv DEF SMInv
      <3>3. /\ n <= count /\ count' = count - n /\ totalSize' = totalSize
            /\ syncMode' = syncMode /\ ~waiterChan'
          BY <1>1, <3>1, ConsumeEffect DEF SMInv
      <3>4. count - n \in Nat /\ count - n <= count
          BY <1>1, <3>3, SizeAssumption DEF SMInv, CirBufInv, TypeOK
      <3> QED
          BY <3>2, <3>3, <3>4
    <2> QED
        BY <2>1, <2>2
  <1>3. /\ clientPc' \in {"idle", "reread"}
        /\ reqSeq' \in Nat /\ reqRwnd' \in Nat /\ headRead' \in Nat
        /\ UNCHANGED <<readVars, sendVars, ackVars, endVars, wireVars, connVars, flowVars>>
      BY DEF ConnectSkip, Return, SMInv, SMTypeOK
  <1> HIDE DEF n
  <1>4. SMTypeOK'
      BY <1>3 DEF SMInv, SMTypeOK
  <1>5. LockHeldOnce' /\ TerminalState'
      BY <1>1, <1>2, <1>3 DEF SMInv, LockHeldOnce, TerminalState
  <1>6. ReadLoopState'
      BY <1>1, <1>2, <1>3, SizeAssumption
      DEF SMInv, ReadLoopState, CirBufInv, TypeOK
  <1>7. PacketState' /\ PacketCarriesItsSeq'
      BY <1>1, <1>3 DEF SMInv, PacketState, PacketCarriesItsSeq
  <1>8. ModeFollowsClient' /\ UnackedStillHeld'
      BY <1>1, <1>2, <1>3 DEF SMInv, ModeFollowsClient, UnackedStillHeld
  <1>9. NoLostWakeup'
      BY <1>1, <1>3 DEF ConnectSkip, SMInv, NoLostWakeup, SenderHasWork
  <1> QED
      BY <1>2, <1>4, <1>5, <1>6, <1>7, <1>8, <1>9 DEF SMInv

(* The new client starts with nothing in flight, before the end was sent.  *)
LEMMA ConnectFinishKeepsInv ==
    ASSUME SMInv, ConnectFinish
    PROVE  SMInv'
  <1> USE DEF readVars, sendVars, localVars, clientVars, ackVars, endVars, wireVars,
              connVars, flowVars
  <1>1. /\ reqRwnd \in Nat /\ streamId < MaxStreams
        /\ sendPc \notin {"sized", "peeked"} /\ ~terminalEventSent
      BY DEF ConnectFinish, SMInv, SMTypeOK, LockHeldOnce, TerminalState
  <1>2. ConnectedWindow(reqRwnd)
      BY DEF ConnectFinish
  <1>3. syncMode' /\ count' = count /\ totalSize' = totalSize
      BY <1>1, <1>2, TuneEffect DEF SMInv
  <1>4. CirBufInv'
      BY <1>1, <1>2, EffectiveWindowIsNat, SetEffectiveWindowKeepsInv
      DEF ConnectedWindow, SMInv
  <1>5. /\ connected' /\ streamId' = streamId + 1 /\ sentNotAcked' = 0
        /\ rwndSize' = reqRwnd /\ packedTo' = None /\ startSeq' \in Nat
        /\ clientPc' = "idle" /\ reqSeq' = 0 /\ reqRwnd' = 0 /\ headRead' = 0
        /\ sendPc' = (IF sendPc = "wait" THEN "prepare" ELSE sendPc)
        /\ UNCHANGED <<readVars, available, pkt, ackVars, endVars, terminalEventSent,
                       terminalEventAcked>>
      BY DEF ConnectFinish, Return, Signal, SMInv, SMTypeOK
  <1>6. SMTypeOK'
    <2>1. streamId + 1 \in 0 .. MaxStreams
        BY <1>1, StreamsAssumption DEF SMInv, SMTypeOK
    <2>2. connected' = TRUE
        BY DEF ConnectFinish
    <2> QED
        BY <1>1, <1>5, <2>1, <2>2 DEF SMInv, SMTypeOK
  <1>7. LockHeldOnce' /\ TerminalState'
      BY <1>1, <1>5 DEF SMInv, LockHeldOnce, TerminalState
  <1>8. ReadLoopState'
      BY <1>1, <1>3, <1>5 DEF SMInv, ReadLoopState
  <1>9. PacketState' /\ PacketCarriesItsSeq'
      BY <1>1, <1>5 DEF SMInv, PacketState, PacketCarriesItsSeq
  <1>10. ModeFollowsClient' /\ NoLostWakeup'
      BY <1>1, <1>3, <1>5 DEF ModeFollowsClient, NoLostWakeup
  <1>11. UnackedStillHeld'
      BY <1>3, <1>5, SizeAssumption DEF SMInv, CirBufInv, TypeOK, UnackedStillHeld
  <1> QED
      BY <1>4, <1>6, <1>7, <1>8, <1>9, <1>10, <1>11 DEF SMInv

(* The client goes: no byte leaves, the writer is let go.                  *)
LEMMA ClientDisconnectedKeepsInv ==
    ASSUME SMInv, ClientDisconnected
    PROVE  SMInv'
  <1> USE DEF readVars, sendVars, localVars, clientVars, ackVars, endVars, wireVars,
              connVars, flowVars
  <1>1. /\ connected /\ syncMode /\ clientPc = "idle"
        /\ sendPc \notin {"sized", "peeked"}
      BY DEF ClientDisconnected, LockFree, SMInv, ModeFollowsClient
  <1>2. DisconnectedWindow
      BY DEF ClientDisconnected
  <1>3. ~syncMode' /\ ~waiterChan' /\ count' = count /\ totalSize' = totalSize
      BY <1>1, <1>2, DetuneEffect DEF SMInv
  <1>4. CirBufInv'
      BY <1>2, SizeAssumption, SetEffectiveWindowKeepsInv DEF DisconnectedWindow, SMInv
  <1>5. /\ connected' = FALSE /\ sentNotAcked' = 0
        /\ maxAckedSeq' = 0 /\ maxAckedRwnd' = 0
        /\ terminalEventSent' = (terminalEventSent /\ terminalEventAcked)
        /\ sendPc' = (IF sendPc = "wait" THEN "prepare" ELSE sendPc)
        /\ UNCHANGED <<readVars, available, pkt, clientVars, endVars, wireVars, streamId,
                       rwndSize, terminalEventAcked>>
      BY DEF ClientDisconnected, Signal
  <1>6. SMTypeOK'
    <2>1. terminalEventSent' \in BOOLEAN /\ connected' \in BOOLEAN
        BY <1>5, Zenon
    <2> QED
        BY <1>5, <2>1 DEF SMInv, SMTypeOK
  <1>7. LockHeldOnce' /\ TerminalState'
      BY <1>1, <1>5 DEF SMInv, LockHeldOnce, TerminalState
  <1>8. ReadLoopState'
      BY <1>1, <1>3, <1>5 DEF SMInv, ReadLoopState
  <1>9. PacketState' /\ PacketCarriesItsSeq'
      BY <1>1, <1>5 DEF SMInv, PacketState, PacketCarriesItsSeq
  <1>10. ModeFollowsClient' /\ UnackedStillHeld' /\ NoLostWakeup'
      BY <1>1, <1>3, <1>5 DEF ModeFollowsClient, UnackedStillHeld, NoLostWakeup
  <1> QED
      BY <1>4, <1>6, <1>7, <1>8, <1>9, <1>10 DEF SMInv

(* Acknowledged bytes leave the ring and the bytes in flight alike.        *)
LEMMA RecvAckConsumeKeepsInv ==
    ASSUME SMInv, NEW seq \in 0 .. totalSize, NEW rwnd \in 0 .. MaxRwnd,
           RecvAckConsume(seq, rwnd)
    PROVE  SMInv'
  <1> USE DEF readVars, sendVars, localVars, clientVars, ackVars, endVars, wireVars,
              connVars, flowVars
  <1> DEFINE n == seq - HeadPos
  <1>1. /\ connected /\ clientPc = "idle" /\ sendPc \notin {"sized", "peeked"}
        /\ Consume(n) /\ seq > HeadPos /\ n >= 0 /\ n <= sentNotAcked
      BY DEF RecvAckConsume, LockFree, WithinSent
  <1>2. /\ count \in Nat /\ totalSize \in Nat /\ sentNotAcked \in Nat
        /\ count <= totalSize /\ sentNotAcked <= count /\ HeadPos \in Nat
        /\ seq \in Nat /\ rwnd \in Nat /\ n \in Nat /\ n > 0
      BY <1>1, SizeAssumption, RwndAssumption
      DEF SMInv, SMTypeOK, CirBufInv, TypeOK, ReadLoopState, UnackedStillHeld, HeadPos
  <1>3. CirBufInv'
      BY <1>1, <1>2, ConsumeKeepsInv DEF SMInv
  <1>4. /\ n <= count /\ count' = count - n /\ totalSize' = totalSize
        /\ syncMode' = syncMode
      BY <1>1, <1>2, ConsumeEffect DEF SMInv
  <1>5. /\ sentNotAcked' = sentNotAcked - n
        /\ maxAckedSeq' = seq /\ maxAckedRwnd' = rwnd
        /\ reqRwnd' = rwnd /\ clientPc' = "ack"
        /\ UNCHANGED <<readVars, sendVars, reqSeq, headRead, endVars, wireVars, connVars,
                       rwndSize, terminalEventSent, terminalEventAcked>>
      BY DEF RecvAckConsume, AfterAck
  <1>6. /\ sentNotAcked - n \in Nat /\ sentNotAcked - n <= count - n
        /\ count - n \in Nat /\ count - n <= totalSize
        /\ (totalSize - (count - n)) + (sentNotAcked - n) = HeadPos + sentNotAcked
        /\ count # 0
      BY <1>1, <1>2, <1>4 DEF HeadPos
  <1>7. HeadPos' + sentNotAcked' = HeadPos + sentNotAcked
      BY <1>4, <1>5, <1>6 DEF HeadPos
  <1> HIDE DEF n
  <1>8. SMTypeOK'
      BY <1>2, <1>5, <1>6 DEF SMInv, SMTypeOK
  <1>9. LockHeldOnce' /\ TerminalState'
      BY <1>1, <1>5, <1>6 DEF SMInv, LockHeldOnce, TerminalState
  <1>10. ReadLoopState'
      BY <1>1, <1>4, <1>5, <1>6 DEF SMInv, ReadLoopState
  <1>11. PacketState' /\ PacketCarriesItsSeq'
      BY <1>1, <1>5, <1>7 DEF SMInv, PacketState, PacketCarriesItsSeq
  <1>12. ModeFollowsClient' /\ NoLostWakeup'
      BY <1>1, <1>4, <1>5 DEF SMInv, ModeFollowsClient, NoLostWakeup
  <1>13. UnackedStillHeld'
      BY <1>4, <1>5, <1>6 DEF UnackedStillHeld
  <1> QED
      BY <1>3, <1>8, <1>9, <1>10, <1>11, <1>12, <1>13 DEF SMInv

(* What a change of the connected window leaves alone: three handlers end  *)
(* in one, and only the wake-up differs.                                   *)
LEMMA WindowChangeKeepsState ==
    ASSUME SMInv, NEW rwnd \in Nat, ConnectedWindow(rwnd), connected,
           connected' = connected, rwndSize' = rwnd,
           sendPc \notin {"sized", "peeked"},
           sendPc' \in {sendPc, "prepare"},
           sendPc' = "send" => sendPc = "send",
           clientPc' = "idle", reqSeq' \in Nat, reqRwnd' \in Nat, headRead' \in Nat,
           maxAckedSeq' \in Nat, maxAckedRwnd' \in Nat,
           UNCHANGED <<readVars, available, pkt, endVars, wireVars, streamId,
                       sentNotAcked, terminalEventSent, terminalEventAcked>>
    PROVE  /\ CirBufInv' /\ SMTypeOK' /\ LockHeldOnce' /\ ReadLoopState'
           /\ TerminalState' /\ PacketState' /\ ModeFollowsClient'
           /\ UnackedStillHeld' /\ PacketCarriesItsSeq'
           /\ count' = count
  <1> USE DEF readVars, endVars, wireVars
  <1>1. syncMode' /\ count' = count /\ totalSize' = totalSize
      BY TuneEffect DEF SMInv
  <1>2. CirBufInv'
      BY EffectiveWindowIsNat, SetEffectiveWindowKeepsInv DEF ConnectedWindow, SMInv
  <1>3. sendPc' \notin {"sized", "peeked"}
      OBVIOUS
  <1>4. SMTypeOK'
      BY <1>3 DEF SMInv, SMTypeOK
  <1>5. LockHeldOnce' /\ TerminalState'
      BY <1>1, <1>3 DEF SMInv, LockHeldOnce, TerminalState
  <1>6. ReadLoopState'
      BY <1>1, <1>3 DEF SMInv, ReadLoopState
  <1>7. PacketState'
      BY <1>1, <1>3 DEF SMInv, PacketState, HeadPos
  <1>8. ModeFollowsClient' /\ UnackedStillHeld'
      BY <1>1 DEF SMInv, ModeFollowsClient, UnackedStillHeld
  <1>9. PacketCarriesItsSeq'
      BY DEF SMInv, PacketCarriesItsSeq
  <1> QED
      BY <1>1, <1>2, <1>4, <1>5, <1>6, <1>7, <1>8, <1>9

(* The second half of RecvAck: the window of the ack.                      *)
LEMMA RecvAckFinishKeepsInv ==
    ASSUME SMInv, RecvAckFinish
    PROVE  SMInv'
  <1>1. /\ reqRwnd \in Nat /\ connected
        /\ sendPc \notin {"sized", "peeked"}
      BY DEF RecvAckFinish, SMInv, SMTypeOK, LockHeldOnce
  <1>2. /\ ConnectedWindow(reqRwnd) /\ rwndSize' = reqRwnd
        /\ sendPc' = (IF sendPc = "wait" THEN "prepare" ELSE sendPc)
        /\ clientPc' = "idle" /\ reqSeq' = 0 /\ reqRwnd' = 0 /\ headRead' = 0
        /\ UNCHANGED <<readVars, available, pkt, ackVars, endVars, wireVars, connVars,
                       sentNotAcked, terminalEventSent, terminalEventAcked>>
      BY DEF RecvAckFinish, Signal, Return
  <1>3. /\ sendPc' \in {sendPc, "prepare"} /\ sendPc' # "wait"
        /\ sendPc' = "send" => sendPc = "send"
      BY <1>2
  <1>4. /\ connected' = connected /\ streamId' = streamId
        /\ maxAckedSeq' \in Nat /\ maxAckedRwnd' \in Nat
      BY <1>2 DEF connVars, ackVars, SMInv, SMTypeOK
  <1>5. NoLostWakeup'
      BY <1>3 DEF NoLostWakeup
  <1> QED
      BY <1>1, <1>2, <1>3, <1>4, <1>5, WindowChangeKeepsState DEF SMInv

(* SetRwndSize changes the window only.                                    *)
LEMMA SetRwndSizeKeepsInv ==
    ASSUME SMInv, NEW rwnd \in 0 .. MaxRwnd, SetRwndSize(rwnd)
    PROVE  SMInv'
  <1>1. /\ rwnd \in Nat /\ connected /\ clientPc = "idle"
        /\ sendPc \notin {"sized", "peeked"}
      BY RwndAssumption DEF SetRwndSize, LockFree
  <1>2. /\ ConnectedWindow(rwnd) /\ rwndSize' = rwnd
        /\ sendPc' = (IF sendPc = "wait" THEN "prepare" ELSE sendPc)
        /\ UNCHANGED <<readVars, available, pkt, clientVars, ackVars, endVars, wireVars,
                       connVars, sentNotAcked, terminalEventSent, terminalEventAcked>>
      BY DEF SetRwndSize, Signal
  <1>3. /\ sendPc' \in {sendPc, "prepare"} /\ sendPc' # "wait"
        /\ sendPc' = "send" => sendPc = "send"
      BY <1>2
  <1>4. /\ connected' = connected /\ streamId' = streamId
        /\ maxAckedSeq' \in Nat /\ maxAckedRwnd' \in Nat
        /\ clientPc' = "idle" /\ reqSeq' \in Nat /\ reqRwnd' \in Nat /\ headRead' \in Nat
      BY <1>1, <1>2 DEF connVars, ackVars, clientVars, localVars, SMInv, SMTypeOK
  <1>5. NoLostWakeup'
      BY <1>3 DEF NoLostWakeup
  <1> QED
      BY <1>1, <1>2, <1>3, <1>4, <1>5, WindowChangeKeepsState DEF SMInv

(* Here the sender may sleep on: the window did not grow.                  *)
LEMMA RecvWindowKeepsInv ==
    ASSUME SMInv, NEW seq \in 0 .. totalSize, NEW rwnd \in 0 .. MaxRwnd,
           RecvWindow(seq, rwnd)
    PROVE  SMInv'
  <1>1. /\ rwnd \in Nat /\ seq \in Nat /\ connected /\ clientPc = "idle"
        /\ sendPc \notin {"sized", "peeked"}
      BY RwndAssumption DEF RecvWindow, LockFree, SMInv, CirBufInv, TypeOK
  <1>2. /\ ConnectedWindow(rwnd) /\ rwndSize' = rwnd
        /\ maxAckedSeq' = seq /\ maxAckedRwnd' = rwnd
        /\ sendPc' = IF rwnd > rwndSize /\ sendPc = "wait" THEN "prepare" ELSE sendPc
        /\ UNCHANGED <<readVars, available, pkt, clientVars, endVars, wireVars, connVars,
                       sentNotAcked, terminalEventSent, terminalEventAcked>>
      BY DEF RecvWindow, Signal, WindowGrew
  <1>3. /\ sendPc' \in {sendPc, "prepare"}
        /\ sendPc' = "send" => sendPc = "send"
      BY <1>2
  <1>4. /\ connected' = connected /\ streamId' = streamId
        /\ maxAckedSeq' \in Nat /\ maxAckedRwnd' \in Nat
        /\ clientPc' = "idle" /\ reqSeq' \in Nat /\ reqRwnd' \in Nat /\ headRead' \in Nat
      BY <1>1, <1>2 DEF connVars, clientVars, localVars, SMInv, SMTypeOK
  <1>5. /\ CirBufInv' /\ SMTypeOK' /\ LockHeldOnce' /\ ReadLoopState'
        /\ TerminalState' /\ PacketState' /\ ModeFollowsClient'
        /\ UnackedStillHeld' /\ PacketCarriesItsSeq'
        /\ count' = count
      BY <1>1, <1>2, <1>3, <1>4, WindowChangeKeepsState
  <1>6. NoLostWakeup'
    <2>1. SUFFICES ASSUME sendPc' = "wait", SenderHasWork', readPc' # "signal"
                   PROVE  FALSE
        BY DEF NoLostWakeup
    <2>2. sendPc = "wait" /\ ~(rwnd > rwndSize) /\ readPc # "signal"
        BY <1>2, <2>1 DEF readVars
    <2>3. ~SenderHasWork
        BY <1>1, <2>2 DEF SMInv, NoLostWakeup
    <2>4. /\ rwndSize \in Nat /\ sentNotAcked \in Nat
          /\ EffectiveWindow(rwnd) <= EffectiveWindow(rwndSize)
          /\ EffectiveWindow(rwnd) \in Nat /\ EffectiveWindow(rwndSize) \in Nat
        BY <1>1, <2>2, CwndAssumption DEF SMInv, SMTypeOK, EffectiveWindow, SmallerOf
    <2>5. AvailableToSend' = EffectiveWindow(rwnd) - sentNotAcked
        BY <1>2 DEF AvailableToSend, EffectiveWindow, SmallerOf
    <2>6. AvailableToSend' > 0 => AvailableToSend > 0
        BY <2>4, <2>5 DEF AvailableToSend
    <2> QED
        BY <1>2, <1>5, <2>1, <2>3, <2>6
        DEF SenderHasWork, TerminalReady, endVars, connVars
  <1> QED
      BY <1>5, <1>6 DEF SMInv

-----------------------------------------------------------------------------
(* The invariant and what follows from it.                                 *)

(* A new stream manager has no client and an empty ring.                   *)
LEMMA SMInitEstablishesInv == SMInit => SMInv
  <1> SUFFICES ASSUME SMInit PROVE SMInv
      OBVIOUS
  <1>1. CirBufInv
      BY CirBufInitEstablishesInv DEF SMInit
  <1>2. count = 0 /\ totalSize = 0
      BY DEF SMInit, CirBufInit
  <1>3. SMTypeOK
    <2>1. pkt \in [kind : {"none", "data", "eof", "error"}, id : 0 .. MaxStreams,
                   seq : Nat \cup {None}, data : Seq(Int)]
        BY StreamsAssumption DEF SMInit, NoPkt
    <2>2. connected \in BOOLEAN /\ closed \in BOOLEAN
          /\ terminalEventSent \in BOOLEAN /\ terminalEventAcked \in BOOLEAN
        BY DEF SMInit
    <2> QED
        BY <2>1, <2>2, SizeAssumption, ChunkAssumption, CwndAssumption, StreamsAssumption
        DEF SMInit, SMTypeOK
  <1>4. LockHeldOnce /\ ReadLoopState /\ TerminalState /\ PacketState
      BY <1>2 DEF SMInit, LockHeldOnce, ReadLoopState, TerminalState, PacketState
  <1>5. /\ ModeFollowsClient /\ UnackedStillHeld /\ NoLostWakeup
        /\ PacketCarriesItsSeq
      BY DEF SMInit, ModeFollowsClient, UnackedStillHeld, NoLostWakeup,
             PacketCarriesItsSeq
  <1> QED
      BY <1>1, <1>3, <1>4, <1>5 DEF SMInv

(* No step of any goroutine breaks it, and no stutter does.                *)
LEMMA SMNextKeepsInv == SMInv /\ [SMNext]_smVars => SMInv'
  <1> SUFFICES ASSUME SMInv, [SMNext]_smVars PROVE SMInv'
      OBVIOUS
  <1>1. CASE AttachReader
      BY <1>1, AttachReaderKeepsInv
  <1>2. CASE ReadLoop
    <2>1. ASSUME NEW n \in 0 .. MaxChunk, NEW err \in {"none", "eof", "error"},
                 ReadPty(n, err)
          PROVE  SMInv'
        BY <2>1, ReadPtyKeepsInv
    <2> QED
        BY <1>2, <2>1, CheckClosedKeepsInv, WriteChunkKeepsInv,
           SignalWrittenKeepsInv, HandleEndKeepsInv DEF ReadLoop
  <1>3. CASE SenderLoop
      BY <1>3, ReadBufferSizeKeepsInv, SenderStopKeepsInv, SenderWaitKeepsInv,
         PrepareTerminalPacketKeepsInv, PeekPacketKeepsInv, LabelPacketKeepsInv,
         SendDataKeepsInv DEF SenderLoop
  <1>4. CASE Connect
    <2>1. ASSUME NEW seq \in 0 .. totalSize + 1, NEW rwnd \in 0 .. MaxRwnd,
                 ConnectReadHead(seq, rwnd)
          PROVE  SMInv'
        BY <2>1, ConnectReadHeadKeepsInv
    <2> QED
        BY <1>4, <2>1, ConnectSkipKeepsInv, ConnectRereadHeadKeepsInv,
           ConnectFinishKeepsInv DEF Connect
  <1>5. CASE ClientDisconnected
      BY <1>5, ClientDisconnectedKeepsInv
  <1>6. CASE Ack
    <2>1. ASSUME NEW seq \in 0 .. totalSize, NEW rwnd \in 0 .. MaxRwnd,
                 \/ RecvUselessAck(seq, rwnd)
                 \/ RecvAckConsume(seq, rwnd)
                 \/ RecvWindow(seq, rwnd)
          PROVE  SMInv'
        BY <2>1, RecvUselessAckKeepsInv, RecvAckConsumeKeepsInv, RecvWindowKeepsInv
    <2> QED
        BY <1>6, <2>1, RecvFinKeepsInv, RecvAckFinishKeepsInv DEF Ack
  <1>7. ASSUME NEW rwnd \in 0 .. MaxRwnd, SetRwndSize(rwnd)
        PROVE  SMInv'
      BY <1>7, SetRwndSizeKeepsInv
  <1>8. CASE Close
      BY <1>8, CloseKeepsInv
  <1>9. CASE UNCHANGED smVars
    <2> USE <1>9 DEF smVars, cbVars, readVars, sendVars, localVars, clientVars, ackVars,
                     endVars, wireVars, connVars, flowVars
    <2>1. CirBufInv'
        BY RingFrame DEF SMInv
    <2>2. SMTypeOK'
        BY DEF SMInv, SMTypeOK
    <2>3. LockHeldOnce' /\ ReadLoopState' /\ TerminalState' /\ PacketState'
        BY DEF SMInv, LockHeldOnce, ReadLoopState, TerminalState, PacketState, HeadPos
    <2>4. /\ ModeFollowsClient' /\ UnackedStillHeld' /\ NoLostWakeup'
          /\ PacketCarriesItsSeq'
        BY DEF SMInv, ModeFollowsClient, UnackedStillHeld, NoLostWakeup, SenderHasWork,
               TerminalReady, AvailableToSend, EffectiveWindow, PacketCarriesItsSeq
    <2> QED
        BY <2>1, <2>2, <2>3, <2>4 DEF SMInv
  <1> QED
      BY <1>1, <1>2, <1>3, <1>4, <1>5, <1>6, <1>7, <1>8, <1>9 DEF SMNext

(* The whole invariant of a stream manager, for every ring and window size *)
(* and every interleaving of its goroutines (streammanager.go:81-437).     *)
THEOREM StreamManagerInvariant == SMSpec => []SMInv
  BY SMInitEstablishesInv, SMNextKeepsInv, PTL DEF SMSpec

(* Type correctness of the stream manager.                                 *)
THEOREM StreamManagerTypes == SMSpec => []SMTypeOK
  <1>1. SMInv => SMTypeOK
      BY DEF SMInv
  <1> QED
      BY <1>1, StreamManagerInvariant, PTL

(* A program whose client was disconnected is never held up by the ring    *)
(* (streammanager.go:137, 186).                                            *)
THEOREM DetachedProgramRuns == SMSpec => []ModeFollowsClient
  <1>1. SMInv => ModeFollowsClient
      BY DEF SMInv
  <1> QED
      BY <1>1, StreamManagerInvariant, PTL

(* Whatever was sent and not acknowledged can still be replayed            *)
(* (streammanager.go:225-234, 402-410).                                    *)
THEOREM UnackedCanBeReplayed == SMSpec => []UnackedStillHeld
  <1>1. SMInv => UnackedStillHeld
      BY DEF SMInv
  <1> QED
      BY <1>1, StreamManagerInvariant, PTL

(* senderLoop never sleeps on work nobody is about to announce to it       *)
(* (streammanager.go:138, 187, 245, 314-318, 333).                         *)
THEOREM NoWakeupIsLost == SMSpec => []NoLostWakeup
  <1>1. SMInv => NoLostWakeup
      BY DEF SMInv
  <1> QED
      BY <1>1, StreamManagerInvariant, PTL

(* Every data packet carries the bytes of the position on its label        *)
(* (streammanager.go:402, 409).                                            *)
THEOREM PacketsAreLabelledRight == SMSpec => []PacketCarriesItsSeq
  <1>1. SMInv => PacketCarriesItsSeq
      BY DEF SMInv
  <1> QED
      BY <1>1, StreamManagerInvariant, PTL

(* The end is announced after the last acknowledgement and nothing follows *)
(* it (streammanager.go:374-377, 419).                                     *)
THEOREM EndComesLast == SMSpec => []TerminalIsLast
  <1>1. SMInv => TerminalIsLast
      BY DEF SMInv, TerminalState, ReadLoopState, TerminalIsLast
  <1> QED
      BY <1>1, StreamManagerInvariant, PTL

(* The packets of one connection have neither a hole nor a repeat          *)
(* (streammanager.go:234, 409-410).                                        *)
THEOREM PacketsFollowOneAnother == SMSpec => PacketsContiguous
  <1>1. ASSUME SMInv, SMNext, sendPc = "peeked", sendPc' = "send", packedTo # None
        PROVE  pkt'.seq = packedTo
    <2>1. LabelPacket
      <3> USE <1>1 DEF sendVars
      <3>1. ~ReadLoop
          BY DEF ReadLoop, CheckClosed, ReadPty, WriteChunk, SignalWritten, HandleEnd,
                 LockFree
      <3>2. ~Connect /\ ~Ack
          BY DEF SMInv, LockHeldOnce, Connect, ConnectReadHead, ConnectSkip,
                 ConnectRereadHead, ConnectFinish, Ack, RecvFin, RecvAckFinish,
                 RecvUselessAck, RecvAckConsume, RecvWindow, LockFree
      <3>3. ~AttachReader /\ ~ClientDisconnected /\ ~Close
          BY DEF AttachReader, ClientDisconnected, Close, LockFree
      <3>4. \A rwnd \in 0 .. MaxRwnd : ~SetRwndSize(rwnd)
          BY DEF SetRwndSize, LockFree
      <3>5. SenderLoop
          BY <3>1, <3>2, <3>3, <3>4 DEF SMNext
      <3> QED
          BY <3>5 DEF SenderLoop, ReadBufferSize, SenderStop, SenderWait,
                      PrepareTerminalPacket, PeekPacket, SendData, LockFree
    <2>2. connected /\ packedTo = HeadPos + sentNotAcked
        BY <1>1 DEF SMInv, LockHeldOnce, PacketState
    <2>3. pkt \in [kind : {"none", "data", "eof", "error"}, id : 0 .. MaxStreams,
                   seq : Nat \cup {None}, data : Seq(Int)]
        BY <1>1 DEF SMInv, SMTypeOK
    <2> QED
        BY <2>1, <2>2, <2>3 DEF LabelPacket
  <1>2. SMInv /\ [SMNext]_smVars =>
           [sendPc = "peeked" /\ sendPc' = "send" /\ packedTo # None
              => pkt'.seq = packedTo]_smVars
      BY <1>1
  <1> QED
      BY <1>2, StreamManagerInvariant, PTL DEF SMSpec, PacketsContiguous

(* No byte leaves a connected ring but by the client's acknowledgement     *)
(* (streammanager.go:225-232).                                             *)
THEOREM OnlyAckedLeave == SMSpec => OnlyAckedBytesLeave
  <1>1. ASSUME SMInv, SMNext, connected, connected', totalSize' - count' > HeadPos
        PROVE  maxAckedSeq' = totalSize' - count'
    <2> USE <1>1
    <2>1. syncMode /\ HeadPos \in Int /\ count \in Nat /\ totalSize \in Nat
        BY SizeAssumption
        DEF SMInv, ModeFollowsClient, CirBufInv, TypeOK, HeadPos
    <2>2. totalSize' - count' # HeadPos
        BY <2>1
    <2>3. ~(UNCHANGED cbVars)
        BY <2>2 DEF cbVars, HeadPos
    <2>4. \A rwnd \in Nat : ~ConnectedWindow(rwnd)
        BY <2>2, TuneEffect DEF SMInv, HeadPos
    <2>5. ~WriteChunk
      <3> SUFFICES ASSUME WriteChunk PROVE FALSE
          OBVIOUS
      <3>1. pending \in 1 .. MaxChunk /\ WriteAvailable(pending)
          BY ChunkAssumption DEF SMInv, SMTypeOK, ReadLoopState, WriteChunk
      <3> QED
          BY <2>1, <2>2, <3>1, WriteEffect DEF SMInv, HeadPos
    <2>6. ~ReadLoop /\ ~SenderLoop /\ ~AttachReader /\ ~Close
        BY <2>3, <2>5
        DEF ReadLoop, CheckClosed, ReadPty, SignalWritten, HandleEnd, SenderLoop,
            ReadBufferSize, SenderStop, SenderWait, PrepareTerminalPacket, PeekPacket,
            LabelPacket, SendData, AttachReader, Close
    <2>7. ~Connect /\ ~ClientDisconnected
        BY <2>3 DEF Connect, ConnectReadHead, ConnectSkip, ConnectRereadHead,
                    ConnectFinish, SMInv, LockHeldOnce, ClientDisconnected
    <2>8. \A rwnd \in 0 .. MaxRwnd : ~SetRwndSize(rwnd)
        BY <2>4, RwndAssumption DEF SetRwndSize
    <2>9. PICK seq \in 0 .. totalSize, rwnd \in 0 .. MaxRwnd : RecvAckConsume(seq, rwnd)
      <3>1. ~RecvFin
          BY <2>3 DEF RecvFin
      <3>2. ~RecvAckFinish
          BY <2>4 DEF RecvAckFinish, SMInv, SMTypeOK
      <3>3. \A s \in 0 .. totalSize, r \in 0 .. MaxRwnd :
                ~RecvUselessAck(s, r) /\ ~RecvWindow(s, r)
          BY <2>3, <2>4, RwndAssumption DEF RecvUselessAck, RecvWindow
      <3> QED
          BY <2>6, <2>7, <2>8, <3>1, <3>2, <3>3 DEF SMNext, Ack
    <2>10. /\ maxAckedSeq' = seq /\ totalSize' = totalSize
           /\ count' = count - (seq - HeadPos)
        BY <2>9 DEF RecvAckConsume, Consume
    <2>11. totalSize - (count - (seq - HeadPos)) = seq
        BY <2>1, <2>9 DEF HeadPos
    <2> QED
        BY <2>10, <2>11
  <1>2. SMInv /\ [SMNext]_smVars =>
           [connected /\ connected' /\ totalSize' - count' > HeadPos
              => maxAckedSeq' = totalSize' - count']_smVars
      BY <1>1
  <1> QED
      BY <1>2, StreamManagerInvariant, PTL DEF SMSpec, OnlyAckedBytesLeave
=============================================================================
