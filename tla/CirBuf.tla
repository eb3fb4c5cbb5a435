------------------------------- MODULE CirBuf -------------------------------
(***************************************************************************)
(* pkg/jobmanager/cirbuf.go: the circular buffer between a job's PTY and   *)
(* its client.  Every method holds cb.lock throughout, so each is one      *)
(* atomic action.  A byte is modelled by its position in the stream: the   *)
(* slots hold the positions written into them.                             *)
(*                                                                         *)
(* waiterChan is the capacity-1 Go channel of wake-up channels: TRUE when  *)
(* it holds the channel the (single) blocked writer waits on.  The writer  *)
(* calls WriteAvailable again only when that channel has been closed.      *)
(***************************************************************************)
EXTENDS Integers, Sequences

CONSTANTS
    Size,       \* len(cb.buf); CirBufSize in production
    InitSync,   \* MakeCirBuf's initSyncMode
    MaxChunk,   \* most bytes in one write (MaxPacketSize, far below Size)
    MaxTotal    \* bound on the stream's length, for TLC only

ASSUME SizeAssumption == Size \in Nat \ {0}
ASSUME ChunkAssumption == MaxChunk \in 1 .. Size
ASSUME InitSyncAssumption == InitSync \in BOOLEAN
ASSUME TotalAssumption == MaxTotal \in Nat

VARIABLES
    buf, readPos, writePos, count, totalSize, syncMode, windowSize, waiterChan

cbVars ==
    <<buf, readPos, writePos, count, totalSize, syncMode, windowSize, waiterChan>>

Slots == 0 .. Size - 1

Unwritten == -1  \* a slot no byte has reached yet

-----------------------------------------------------------------------------
SmallerOf(a, b) == IF a < b THEN a ELSE b

HeadPos == totalSize - count

(* PeekDataAt(offset, data) with len(data) = n: the bytes it copies out.   *)
PeekDataAt(offset, n) ==
    IF offset >= count
    THEN << >>
    ELSE [i \in 1 .. SmallerOf(n, count - offset) |->
             buf[(readPos + offset + i - 1) % Size]]

CirBufInit ==
    /\ buf = [s \in Slots |-> Unwritten]
    /\ readPos = 0
    /\ writePos = 0
    /\ count = 0
    /\ totalSize = 0
    /\ syncMode = InitSync
    /\ windowSize = Size
    /\ waiterChan = FALSE

(* Bytes an async buffer gives up when its window becomes w.               *)
ExcessInAnyMode(sync, w) == IF count > w THEN count - w ELSE 0
Excess(sync, w) == IF ~sync /\ count > w THEN count - w ELSE 0

(* Only a sync buffer blocks its writer; more room or async mode frees it. *)
WakesOnGrowth(sync, w) == syncMode /\ w > windowSize
WakesWriter(sync, w) == syncMode /\ (w > windowSize \/ ~sync)

SetEffectiveWindow(sync, requested) ==
    LET w == SmallerOf(requested, Size)
    IN  /\ syncMode' = sync
        /\ windowSize' = w
        /\ readPos' = (readPos + Excess(sync, w)) % Size
        /\ count' = count - Excess(sync, w)
        /\ waiterChan' = (waiterChan /\ ~WakesWriter(sync, w))
        /\ UNCHANGED <<buf, writePos, totalSize>>

(* How many of n bytes WriteAvailable's loop takes before it would block.  *)
AcceptedAllOrNone(n) == IF syncMode /\ count >= windowSize THEN 0 ELSE n
Accepted(n) ==
    IF ~syncMode THEN n
    ELSE IF count >= windowSize THEN 0
    ELSE SmallerOf(n, windowSize - count)

(* Of w bytes taken, those the window has room for; each further byte      *)
(* pushes the oldest one out.                                              *)
GrowthPastWindow(w) == w
Growth(w) == IF count < windowSize THEN SmallerOf(w, windowSize - count) ELSE 0

NothingEvicted(w) == 0
Evicted(w) == w - Growth(w)

StoreBytes(w) ==
    /\ buf' = [s \in Slots |->
                 LET d == (s - writePos + Size) % Size
                 IN  IF d < w THEN totalSize + d ELSE buf[s]]
    /\ writePos' = (writePos + w) % Size
    /\ count' = count + Growth(w)
    /\ readPos' = (readPos + Evicted(w)) % Size
    /\ totalSize' = totalSize + w
    /\ UNCHANGED <<syncMode, windowSize, waiterChan>>

(* The sync writer that can place nothing registers its wake-up channel.   *)
RegisterWaiter ==
    /\ waiterChan' = TRUE
    /\ UNCHANGED <<buf, readPos, writePos, count, totalSize, syncMode, windowSize>>

WriteAvailable(n) ==
    /\ ~waiterChan
    /\ totalSize + n <= MaxTotal
    /\ IF Accepted(n) = 0 THEN RegisterWaiter ELSE StoreBytes(Accepted(n))

(* Consume beyond count returns an error and changes nothing.              *)
Consume(n) ==
    /\ n <= count
    /\ readPos' = (readPos + n) % Size
    /\ count' = count - n
    /\ waiterChan' = FALSE
    /\ UNCHANGED <<buf, writePos, totalSize, syncMode, windowSize>>

CirBufNext ==
    \/ \E sync \in BOOLEAN, w \in 0 .. Size + 1 : SetEffectiveWindow(sync, w)
    \/ \E n \in 1 .. MaxChunk : WriteAvailable(n)
    \/ \E n \in 0 .. Size : Consume(n)

CirBufSpec == CirBufInit /\ [][CirBufNext]_cbVars

-----------------------------------------------------------------------------
TypeOK ==
    /\ buf \in [Slots -> Int]
    /\ readPos \in Slots
    /\ writePos \in Slots
    /\ count \in 0 .. Size
    /\ totalSize \in Nat
    /\ syncMode \in BOOLEAN
    /\ windowSize \in 0 .. Size
    /\ waiterChan \in BOOLEAN

(* The count bytes from readPos on are the last count bytes of the stream, *)
(* in order, whatever wrapped, was overwritten, was truncated by a window  *)
(* change or was consumed (cirbuf.go:52-56, 89-96, 137-139): PeekDataAt    *)
(* hands out no stale and no torn byte.                                    *)
HoldsNewestBytes ==
    \A i \in 0 .. count - 1 : buf[(readPos + i) % Size] = HeadPos + i

(* A writer waits only while a sync window is full: no call that makes     *)
(* room or leaves sync mode forgets to close its channel                   *)
(* (cirbuf.go:60-62, 141).                                                 *)
NoStrandedWriter == waiterChan => syncMode /\ count >= windowSize

(* Async mode never retains more than its window (cirbuf.go:52-56, 91).    *)
AsyncKeepsToWindow == ~syncMode => count <= windowSize

(* The inductive invariant: the three above and where the next byte goes.  *)
RingIndices == writePos = (readPos + count) % Size

CirBufInv ==
    /\ TypeOK
    /\ RingIndices
    /\ HoldsNewestBytes
    /\ NoStrandedWriter
    /\ AsyncKeepsToWindow

(* A write in sync mode pushes no unconsumed byte out (cirbuf.go:78-96):   *)
(* flow control never costs data.                                          *)
SyncWriteKeepsHead ==
    [][syncMode /\ totalSize' > totalSize => totalSize' - count' = HeadPos]_cbVars

(* The ring implements the queue of retained positions: every step of it   *)
(* is a step of RetainedWindow or changes nothing there.                   *)
Window == INSTANCE RetainedWindow WITH
    Capacity <- Size,
    retained <- [i \in 1 .. count |-> buf[(readPos + i - 1) % Size]],
    written <- totalSize,
    sync <- syncMode,
    window <- windowSize,
    parked <- waiterChan

ImplementsRetainedWindow == Window!SpecW
=============================================================================
