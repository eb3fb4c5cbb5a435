---------------------------- MODULE CirBufProofs ----------------------------
(***************************************************************************)
(* The ring buffer is right for every size, mode, window and stream        *)
(* length: CirBufInv is inductive, and from it follow the safety of the    *)
(* content, of the blocked writer and of the sync writes, and that the     *)
(* ring implements the queue of retained positions.                        *)
(***************************************************************************)
EXTENDS CirBuf, SequenceTheorems, TLAPS

(* An index less than two rings long wraps at most once.                   *)
LEMMA WrapIndex ==
    ASSUME NEW c \in 0 .. 2 * Size - 1
    PROVE  /\ c < Size => c % Size = c
           /\ c >= Size => c % Size = c - Size
           /\ c % Size \in Slots
  BY SizeAssumption DEF Slots

(* A slot moved on by at most one whole ring wraps at most once.           *)
LEMMA WrapOnce ==
    ASSUME NEW a \in Slots, NEW b \in 0 .. Size
    PROVE  /\ a + b < Size => (a + b) % Size = a + b
           /\ a + b >= Size => (a + b) % Size = (a + b) - Size
           /\ (a + b) % Size \in Slots
  <1>1. a + b \in 0 .. 2 * Size - 1
      BY SizeAssumption DEF Slots
  <1> QED
      BY <1>1, WrapIndex, Zenon

(* The ring starts empty, its indices at slot 0.                           *)
LEMMA CirBufInitEstablishesInv == CirBufInit => CirBufInv
  <1> SUFFICES ASSUME CirBufInit PROVE CirBufInv
      OBVIOUS
  <1>1. 0 % Size = 0
      BY SizeAssumption
  <1>2. TypeOK
    <2>1. 0 \in Slots /\ 0 \in 0 .. Size /\ Size \in 0 .. Size
        BY SizeAssumption DEF Slots
    <2>2. buf \in [Slots -> Int]
        BY DEF CirBufInit, Unwritten
    <2> QED
        BY <2>1, <2>2, InitSyncAssumption DEF CirBufInit, TypeOK
  <1>3. RingIndices
      BY <1>1 DEF CirBufInit, RingIndices
  <1>4. HoldsNewestBytes
      BY DEF CirBufInit, HoldsNewestBytes
  <1>5. NoStrandedWriter /\ AsyncKeepsToWindow
      BY SizeAssumption DEF CirBufInit, NoStrandedWriter, AsyncKeepsToWindow
  <1> QED
      BY <1>2, <1>3, <1>4, <1>5 DEF CirBufInv

(* Giving the d oldest bytes up moves the first held byte d positions on.  *)
LEMMA DroppingOldest ==
    ASSUME TypeOK, RingIndices, HoldsNewestBytes, NEW d \in 0 .. count
    PROVE  LET r == (readPos + d) % Size
           IN  /\ r \in Slots
               /\ writePos = (r + (count - d)) % Size
               /\ \A i \in 0 .. count - d - 1 :
                      buf[(r + i) % Size] = HeadPos + d + i
  <1> DEFINE r == (readPos + d) % Size
  <1>0. readPos \in Slots /\ count \in 0 .. Size /\ d \in 0 .. Size
      BY SizeAssumption DEF TypeOK
  <1>1. /\ readPos + d < Size => r = readPos + d
        /\ readPos + d >= Size => r = (readPos + d) - Size
        /\ r \in Slots
      BY <1>0, WrapOnce, Zenon
  <1> HIDE DEF r
  <1>2. ASSUME NEW i \in 0 .. count - d
        PROVE  (r + i) % Size = (readPos + (d + i)) % Size
    <2>1. i \in 0 .. Size /\ d + i \in 0 .. Size
        BY <1>0, SizeAssumption
    <2>2. /\ r + i < Size => (r + i) % Size = r + i
          /\ r + i >= Size => (r + i) % Size = (r + i) - Size
        BY <1>1, <2>1, WrapOnce, Zenon
    <2>3. /\ readPos + (d + i) < Size =>
                 (readPos + (d + i)) % Size = readPos + (d + i)
          /\ readPos + (d + i) >= Size =>
                 (readPos + (d + i)) % Size = (readPos + (d + i)) - Size
        BY <1>0, <2>1, WrapOnce, Zenon
    <2> QED
        BY <1>0, <1>1, <2>1, <2>2, <2>3, SizeAssumption DEF Slots
  <1>3. writePos = (r + (count - d)) % Size
    <2>1. count - d \in 0 .. count - d /\ d + (count - d) = count
        BY <1>0, SizeAssumption
    <2>2. (r + (count - d)) % Size = (readPos + (d + (count - d))) % Size
        BY <2>1, <1>2, Zenon
    <2> QED
        BY <2>1, <2>2 DEF RingIndices
  <1>4. ASSUME NEW i \in 0 .. count - d - 1
        PROVE  buf[(r + i) % Size] = HeadPos + d + i
    <2>1. i \in 0 .. count - d /\ d + i \in 0 .. count - 1
        BY SizeAssumption DEF TypeOK
    <2>2. buf[(readPos + (d + i)) % Size] = HeadPos + (d + i)
        BY <2>1 DEF HoldsNewestBytes
    <2> QED
        BY <1>2, <2>1, <2>2 DEF TypeOK, HeadPos
  <1> QED
      BY <1>1, <1>3, <1>4 DEF r

-----------------------------------------------------------------------------
(* What WriteAvailable's loop takes and what it pushes out, as numbers.    *)
LEMMA WriteAmounts ==
    ASSUME TypeOK, AsyncKeepsToWindow,
           NEW n \in 1 .. MaxChunk, Accepted(n) # 0
    PROVE  LET w == Accepted(n)
               g == Growth(w)
               e == Evicted(w)
           IN  /\ w \in 1 .. Size
               /\ g \in 0 .. w
               /\ e = w - g
               /\ count + g \in 0 .. windowSize
               /\ syncMode => e = 0
  BY SizeAssumption, ChunkAssumption
  DEF TypeOK, AsyncKeepsToWindow, Accepted, Growth, Evicted, SmallerOf

(* The bytes a write stores lie right after the ones still held, and no    *)
(* held byte that is kept is overwritten.                                  *)
LEMMA StoringKeepsContents ==
    ASSUME CirBufInv,
           NEW n \in 1 .. MaxChunk, Accepted(n) # 0, StoreBytes(Accepted(n))
    PROVE  TypeOK' /\ RingIndices' /\ HoldsNewestBytes'
  <1> DEFINE w == Accepted(n)
             g == Growth(w)
             e == Evicted(w)
  <1>0. /\ readPos \in Slots /\ writePos \in Slots
        /\ count \in 0 .. Size /\ totalSize \in Nat
        /\ windowSize \in 0 .. Size
      BY DEF CirBufInv, TypeOK
  <1>1. /\ w \in 1 .. Size /\ g \in 0 .. w /\ e = w - g
        /\ count + g \in 0 .. windowSize
      BY WriteAmounts DEF CirBufInv
  <1> HIDE DEF w, g, e
  <1> DEFINE nr == (readPos + e) % Size
             nw == (writePos + w) % Size
             nc == count + g
             nb == [s \in Slots |->
                      LET d == (s - writePos + Size) % Size
                      IN  IF d < w THEN totalSize + d ELSE buf[s]]
  <1>2. /\ buf' = nb /\ writePos' = nw /\ readPos' = nr
        /\ count' = nc /\ totalSize' = totalSize + w
        /\ UNCHANGED <<syncMode, windowSize, waiterChan>>
      BY DEF StoreBytes, w, g, e
  <1>3. /\ w \in 0 .. Size /\ e \in 0 .. Size
        /\ nc \in 0 .. Size /\ nc \in 0 .. windowSize
        /\ e + nc = count + w
      BY <1>0, <1>1, SizeAssumption
  <1>4. /\ readPos + e < Size => nr = readPos + e
        /\ readPos + e >= Size => nr = (readPos + e) - Size
        /\ nr \in Slots
      BY <1>0, <1>3, WrapOnce, Zenon
  <1>5. /\ writePos + w < Size => nw = writePos + w
        /\ writePos + w >= Size => nw = (writePos + w) - Size
        /\ nw \in Slots
      BY <1>0, <1>3, WrapOnce, Zenon
  <1>6. /\ readPos + count < Size => writePos = readPos + count
        /\ readPos + count >= Size => writePos = (readPos + count) - Size
      BY <1>0, WrapOnce, Zenon DEF CirBufInv, RingIndices
  <1>7. nb \in [Slots -> Int]
    <2>1. \A s \in Slots, d \in Int :
             (IF d < w THEN totalSize + d ELSE buf[s]) \in Int
        BY <1>0 DEF CirBufInv, TypeOK
    <2>2. \A s \in Slots : (s - writePos + Size) % Size \in Int
        BY <1>0, SizeAssumption DEF Slots
    <2> QED
        BY <2>1, <2>2
  <1>8. \A s \in Slots :
           LET d == (s - writePos + Size) % Size
           IN  nb[s] = IF d < w THEN totalSize + d ELSE buf[s]
      OBVIOUS
  <1> HIDE DEF nr, nw, nb
  <1>9. nw = (nr + nc) % Size
    <2>1. /\ nr + nc < Size => (nr + nc) % Size = nr + nc
          /\ nr + nc >= Size => (nr + nc) % Size = (nr + nc) - Size
        BY <1>3, <1>4, WrapOnce, Zenon
    <2> QED
        BY <1>0, <1>1, <1>3, <1>4, <1>5, <1>6, <2>1, SizeAssumption DEF Slots
  <1>10. ASSUME NEW i \in 0 .. nc - 1
         PROVE  nb[(nr + i) % Size] = ((totalSize + w) - nc) + i
    <2> DEFINE s == (nr + i) % Size
               c == s - writePos + Size
    <2>1. i \in 0 .. Size
        BY <1>0, <1>1, <1>3, SizeAssumption
    <2>2. /\ nr + i < Size => s = nr + i
          /\ nr + i >= Size => s = (nr + i) - Size
          /\ s \in Slots
        BY <1>4, <2>1, WrapOnce, Zenon
    <2>3. nb[s] = IF c % Size < w THEN totalSize + (c % Size) ELSE buf[s]
        BY <1>8, <2>2
    <2> HIDE DEF s
    <2>4. c \in 0 .. 2 * Size - 1
        BY <1>0, <2>2, SizeAssumption DEF Slots
    <2>5. /\ c < Size => c % Size = c
          /\ c >= Size => c % Size = c - Size
          /\ c % Size \in Slots
        BY <2>4, WrapIndex, Zenon
    <2>6. ((totalSize + w) - nc) + i = HeadPos + (e + i)
        BY <1>0, <1>1, <1>3, <2>1 DEF HeadPos
    <2>7. CASE e + i >= count
      <3>1. c % Size = (e + i) - count
          BY <1>0, <1>1, <1>3, <1>4, <1>6, <2>1, <2>2, <2>4, <2>5, <2>7,
             SizeAssumption DEF Slots
      <3>2. (e + i) - count < w
          BY <1>0, <1>1, <1>3, <2>1, <2>7, SizeAssumption
      <3>3. nb[s] = totalSize + ((e + i) - count)
          BY <2>3, <3>1, <3>2
      <3> QED
          BY <1>0, <1>1, <1>3, <2>1, <2>6, <3>3 DEF HeadPos, s
    <2>8. CASE e + i < count
      <3>1. ~(c % Size < w)
          BY <1>0, <1>1, <1>3, <1>4, <1>6, <2>1, <2>2, <2>4, <2>5, <2>8,
             SizeAssumption DEF Slots
      <3>2. /\ e + i \in 0 .. count - 1 /\ e + i \in 0 .. Size
          BY <1>0, <1>1, <2>1, <2>8, SizeAssumption
      <3>3. s = (readPos + (e + i)) % Size
        <4>1. /\ readPos + (e + i) < Size =>
                     (readPos + (e + i)) % Size = readPos + (e + i)
              /\ readPos + (e + i) >= Size =>
                     (readPos + (e + i)) % Size = (readPos + (e + i)) - Size
            BY <1>0, <3>2, WrapOnce, Zenon
        <4> QED
            BY <1>0, <1>3, <1>4, <2>1, <2>2, <3>2, <4>1, SizeAssumption DEF Slots
      <3>4. buf[s] = HeadPos + (e + i)
          BY <3>2, <3>3 DEF CirBufInv, HoldsNewestBytes
      <3> QED
          BY <2>3, <2>6, <3>1, <3>4 DEF s
    <2> QED
        BY <1>0, <1>1, <1>3, <2>1, <2>7, <2>8
  <1>11. TypeOK'
      BY <1>0, <1>2, <1>3, <1>4, <1>5, <1>7 DEF CirBufInv, TypeOK
  <1>12. RingIndices'
      BY <1>2, <1>9 DEF RingIndices
  <1>13. HoldsNewestBytes'
      BY <1>2, <1>10 DEF HoldsNewestBytes, HeadPos
  <1> QED
      BY <1>11, <1>12, <1>13

-----------------------------------------------------------------------------
(* Each operation keeps the invariant.                                     *)
LEMMA SetEffectiveWindowKeepsInv ==
    ASSUME CirBufInv, NEW sync \in BOOLEAN, NEW req \in Nat,
           SetEffectiveWindow(sync, req)
    PROVE  CirBufInv'
  <1> DEFINE w == SmallerOf(req, Size)
             d == Excess(sync, w)
             r == (readPos + d) % Size
  <1>1. /\ w \in 0 .. Size
        /\ d \in 0 .. count
        /\ count - d \in 0 .. Size
        /\ ~sync => count - d <= w
        /\ sync => d = 0
      BY SizeAssumption DEF CirBufInv, TypeOK, SmallerOf, Excess
  <1>2. /\ r \in Slots
        /\ writePos = (r + (count - d)) % Size
        /\ \A i \in 0 .. count - d - 1 : buf[(r + i) % Size] = HeadPos + d + i
      BY <1>1, DroppingOldest DEF CirBufInv
  <1>3. /\ syncMode' = sync /\ windowSize' = w /\ readPos' = r
        /\ count' = count - d
        /\ waiterChan' = (waiterChan /\ ~WakesWriter(sync, w))
        /\ UNCHANGED <<buf, writePos, totalSize>>
      BY DEF SetEffectiveWindow
  <1>4. TypeOK'
    <2>1. waiterChan' \in BOOLEAN
        BY <1>3
    <2> QED
        BY <1>1, <1>2, <1>3, <2>1 DEF CirBufInv, TypeOK
  <1>5. RingIndices'
      BY <1>2, <1>3 DEF RingIndices
  <1>6. HoldsNewestBytes'
    <2>1. \A i \in 0 .. count - d - 1 :
             HeadPos + d + i = (totalSize - (count - d)) + i
        BY <1>1, SizeAssumption DEF CirBufInv, TypeOK, HeadPos
    <2> QED
        BY <1>2, <1>3, <2>1 DEF HoldsNewestBytes, HeadPos
  <1>7. NoStrandedWriter'
    <2> SUFFICES ASSUME waiterChan' PROVE syncMode' /\ count' >= windowSize'
        BY DEF NoStrandedWriter
    <2>1. waiterChan /\ ~WakesWriter(sync, w)
        BY <1>3
    <2>2. syncMode /\ count >= windowSize
        BY <2>1 DEF CirBufInv, NoStrandedWriter
    <2>3. sync /\ ~(w > windowSize)
        BY <2>1, <2>2 DEF WakesWriter
    <2>4. d = 0
        BY <1>1, <2>3
    <2> HIDE DEF d, w
    <2>5. count \in Int /\ windowSize \in Int /\ w \in Int
        BY <1>1, SizeAssumption DEF CirBufInv, TypeOK
    <2>6. count - d >= w
        BY <2>2, <2>3, <2>4, <2>5
    <2> QED
        BY <1>3, <2>3, <2>6
  <1>8. AsyncKeepsToWindow'
      BY <1>1, <1>3 DEF AsyncKeepsToWindow
  <1> QED
      BY <1>4, <1>5, <1>6, <1>7, <1>8 DEF CirBufInv

(* A write blocks, or stores what fits.                                    *)
LEMMA WriteAvailableKeepsInv ==
    ASSUME CirBufInv, NEW n \in 1 .. MaxChunk, WriteAvailable(n)
    PROVE  CirBufInv'
  <1>1. CASE Accepted(n) = 0
    <2>1. RegisterWaiter
        BY <1>1 DEF WriteAvailable
    <2>2. syncMode /\ count >= windowSize
        BY <1>1, SizeAssumption, ChunkAssumption
        DEF CirBufInv, TypeOK, Accepted, SmallerOf
    <2> QED
        BY <2>1, <2>2
        DEF RegisterWaiter, CirBufInv, TypeOK, RingIndices, HoldsNewestBytes,
            HeadPos, NoStrandedWriter, AsyncKeepsToWindow
  <1>2. CASE Accepted(n) # 0
    <2> DEFINE g == Growth(Accepted(n))
    <2>1. StoreBytes(Accepted(n)) /\ ~waiterChan
        BY <1>2 DEF WriteAvailable
    <2>2. TypeOK' /\ RingIndices' /\ HoldsNewestBytes'
        BY <1>2, <2>1, StoringKeepsContents
    <2>3. count + g <= windowSize
        BY <1>2, WriteAmounts, SizeAssumption DEF CirBufInv, TypeOK
    <2>4. /\ count' = count + g
          /\ UNCHANGED <<syncMode, windowSize, waiterChan>>
        BY <2>1 DEF StoreBytes
    <2>5. NoStrandedWriter' /\ AsyncKeepsToWindow'
        BY <2>1, <2>3, <2>4 DEF NoStrandedWriter, AsyncKeepsToWindow
    <2> QED
        BY <2>2, <2>5 DEF CirBufInv
  <1> QED
      BY <1>1, <1>2

(* Consuming gives the oldest bytes up and frees the writer.               *)
LEMMA ConsumeKeepsInv ==
    ASSUME CirBufInv, NEW n \in Nat, Consume(n)
    PROVE  CirBufInv'
  <1> DEFINE r == (readPos + n) % Size
  <1>1. n \in 0 .. count /\ count - n \in 0 .. Size
      BY SizeAssumption DEF CirBufInv, TypeOK, Consume
  <1>2. /\ r \in Slots
        /\ writePos = (r + (count - n)) % Size
        /\ \A i \in 0 .. count - n - 1 : buf[(r + i) % Size] = HeadPos + n + i
      BY <1>1, DroppingOldest DEF CirBufInv
  <1>3. /\ readPos' = r /\ count' = count - n /\ waiterChan' = FALSE
        /\ UNCHANGED <<buf, writePos, totalSize, syncMode, windowSize>>
      BY DEF Consume
  <1>4. TypeOK' /\ RingIndices' /\ NoStrandedWriter'
      BY <1>1, <1>2, <1>3
      DEF CirBufInv, TypeOK, RingIndices, NoStrandedWriter
  <1>5. HoldsNewestBytes'
    <2>1. \A i \in 0 .. count - n - 1 :
             HeadPos + n + i = (totalSize - (count - n)) + i
        BY <1>1, SizeAssumption DEF CirBufInv, TypeOK, HeadPos
    <2> QED
        BY <1>2, <1>3, <2>1 DEF HoldsNewestBytes, HeadPos
  <1>6. AsyncKeepsToWindow'
    <2>1. ~syncMode => count - n <= windowSize
        BY <1>1, SizeAssumption DEF CirBufInv, TypeOK, AsyncKeepsToWindow
    <2> QED
        BY <1>3, <2>1 DEF AsyncKeepsToWindow
  <1> QED
      BY <1>4, <1>5, <1>6 DEF CirBufInv

(* So does every step.                                                     *)
LEMMA CirBufNextKeepsInv == CirBufInv /\ [CirBufNext]_cbVars => CirBufInv'
  <1> SUFFICES ASSUME CirBufInv, [CirBufNext]_cbVars PROVE CirBufInv'
      OBVIOUS
  <1>1. ASSUME NEW sync \in BOOLEAN, NEW w \in 0 .. Size + 1,
               SetEffectiveWindow(sync, w)
        PROVE  CirBufInv'
    <2>1. w \in Nat
        BY SizeAssumption
    <2> QED
        BY <1>1, <2>1, SetEffectiveWindowKeepsInv
  <1>2. ASSUME NEW n \in 1 .. MaxChunk, WriteAvailable(n) PROVE CirBufInv'
      BY <1>2, WriteAvailableKeepsInv
  <1>3. ASSUME NEW n \in 0 .. Size, Consume(n) PROVE CirBufInv'
    <2>1. n \in Nat
        BY SizeAssumption
    <2> QED
        BY <1>3, <2>1, ConsumeKeepsInv
  <1>4. CASE UNCHANGED cbVars
      BY <1>4 DEF cbVars, CirBufInv, TypeOK, RingIndices, HoldsNewestBytes,
                  HeadPos, NoStrandedWriter, AsyncKeepsToWindow
  <1> QED
      BY <1>1, <1>2, <1>3, <1>4 DEF CirBufNext

-----------------------------------------------------------------------------
(* The inductive invariant of the ring buffer holds in every state.        *)
THEOREM RingInvariant == CirBufSpec => []CirBufInv
  BY CirBufInitEstablishesInv, CirBufNextKeepsInv, PTL DEF CirBufSpec

(* The ring's indices stay inside its buffer, and the bytes held and the   *)
(* window within its size.                                                 *)
THEOREM RingTypes == CirBufSpec => []TypeOK
  <1>1. CirBufInv => TypeOK
      BY DEF CirBufInv
  <1> QED
      BY <1>1, RingInvariant, PTL

(* PeekDataAt never hands out a stale or a torn byte: the bytes held are   *)
(* the newest of the stream, in order, for every ring size and history.    *)
THEOREM RingHoldsNewestBytes == CirBufSpec => []HoldsNewestBytes
  <1>1. CirBufInv => HoldsNewestBytes
      BY DEF CirBufInv
  <1> QED
      BY <1>1, RingInvariant, PTL

(* A blocked writer waits only while a sync window is full: no operation   *)
(* makes room without closing its channel.                                 *)
THEOREM RingStrandsNoWriter == CirBufSpec => []NoStrandedWriter
  <1>1. CirBufInv => NoStrandedWriter
      BY DEF CirBufInv
  <1> QED
      BY <1>1, RingInvariant, PTL

(* Flow control never costs data: a write in sync mode leaves the oldest   *)
(* unconsumed byte where it is.                                            *)
THEOREM RingSyncWriteKeepsHead == CirBufSpec => SyncWriteKeepsHead
  <1>1. ASSUME CirBufInv, [CirBufNext]_cbVars, syncMode, totalSize' > totalSize
        PROVE  totalSize' - count' = HeadPos
    <2>1. CASE \E sync \in BOOLEAN, w \in 0 .. Size + 1 :
                  SetEffectiveWindow(sync, w)
        BY <1>1, <2>1 DEF SetEffectiveWindow, CirBufInv, TypeOK
    <2>2. ASSUME NEW n \in 1 .. MaxChunk, WriteAvailable(n)
          PROVE  totalSize' - count' = HeadPos
      <3>1. CASE Accepted(n) = 0
          BY <1>1, <2>2, <3>1
          DEF WriteAvailable, RegisterWaiter, CirBufInv, TypeOK
      <3>2. CASE Accepted(n) # 0
        <4> DEFINE w == Accepted(n)
                   g == Growth(w)
        <4>1. w \in 1 .. Size /\ g \in 0 .. w /\ w - g = 0
            BY <1>1, <3>2, WriteAmounts DEF CirBufInv
        <4>2. totalSize' = totalSize + w /\ count' = count + g
            BY <2>2, <3>2 DEF WriteAvailable, StoreBytes
        <4> HIDE DEF w, g
        <4>3. (totalSize + w) - (count + g) = totalSize - count
            BY <1>1, <4>1, SizeAssumption DEF CirBufInv, TypeOK
        <4> QED
            BY <4>2, <4>3 DEF HeadPos
      <3> QED
          BY <3>1, <3>2
    <2>3. CASE \E n \in 0 .. Size : Consume(n)
        BY <1>1, <2>3 DEF Consume, CirBufInv, TypeOK
    <2>4. CASE UNCHANGED cbVars
        BY <2>4 DEF cbVars, HeadPos
    <2> QED
        BY <1>1, <2>1, <2>2, <2>3, <2>4 DEF CirBufNext
  <1>2. CirBufInv /\ [CirBufNext]_cbVars =>
           [syncMode /\ totalSize' > totalSize => totalSize' - count' = HeadPos]_cbVars
      BY <1>1
  <1> QED
      BY <1>2, RingInvariant, PTL DEF CirBufSpec, SyncWriteKeepsHead

-----------------------------------------------------------------------------
(* The refinement.  By RingInvariant the retained sequence is a run of     *)
(* consecutive positions, so each step comes down to what appending to a   *)
(* run, or cutting its front off, gives.                                   *)

(* n consecutive positions from h on.                                      *)
Run(h, n) == [i \in 1 .. n |-> h + i - 1]

Retained == [i \in 1 .. count |-> buf[(readPos + i - 1) % Size]]

(* A run is a sequence of the length it says.                              *)
LEMMA RunIsSeq ==
    ASSUME NEW h \in Int, NEW n \in Nat
    PROVE  Run(h, n) \in Seq(Int) /\ Len(Run(h, n)) = n
  <1>1. Run(h, n) \in [1 .. n -> Int]
      BY DEF Run
  <1> QED
      BY <1>1 DEF Run

(* A run without its first n - k positions.                                *)
LEMMA RunSuffix ==
    ASSUME NEW h \in Int, NEW n \in Nat, NEW k \in 0 .. n
    PROVE  SubSeq(Run(h, n), n - k + 1, n) = Run(h + (n - k), k)
  <1>1. \A i \in 1 .. k : Run(h, n)[(n - k + 1) + i - 1] = Run(h + (n - k), k)[i]
      BY DEF Run
  <1>2. SubSeq(Run(h, n), n - k + 1, n)
          = [i \in 1 .. k |-> Run(h, n)[(n - k + 1) + i - 1]]
      BY RunIsSeq
  <1> QED
      BY <1>1, <1>2 DEF Run

(* A run and the positions that follow it.                                 *)
LEMMA RunAppend ==
    ASSUME NEW h \in Int, NEW n \in Nat, NEW m \in Nat
    PROVE  Run(h, n) \o Run(h + n, m) = Run(h, n + m)
  <1> DEFINE s == Run(h, n)
             t == Run(h + n, m)
             u == Run(h, n + m)
  <1>1. /\ s \in Seq(Int) /\ t \in Seq(Int) /\ u \in Seq(Int)
        /\ Len(s) = n /\ Len(t) = m /\ Len(u) = n + m
      BY RunIsSeq
  <1>2. \A i \in 1 .. n + m : (IF i <= n THEN s[i] ELSE t[i - n]) = u[i]
      BY DEF Run
  <1> HIDE DEF s, t, u
  <1>3. /\ s \o t \in Seq(Int) /\ Len(s \o t) = Len(s) + Len(t)
        /\ \A i \in 1 .. Len(s) + Len(t) :
               (s \o t)[i] = IF i <= Len(s) THEN s[i] ELSE t[i - Len(s)]
      BY <1>1, ConcatProperties, Zenon
  <1>4. s \o t = u
      BY <1>1, <1>2, <1>3, SeqEqual
  <1> QED
      BY <1>4 DEF s, t, u

-----------------------------------------------------------------------------
(* What the ring retains is a run up to the end of the stream.             *)
LEMMA RetainedIsRun ==
    CirBufInv => Retained = Run(HeadPos, count) /\ HeadPos \in Int /\ count \in Nat
  <1> SUFFICES ASSUME CirBufInv
               PROVE  Retained = Run(HeadPos, count) /\ HeadPos \in Int /\ count \in Nat
      OBVIOUS
  <1>1. count \in Nat /\ totalSize \in Nat /\ HeadPos \in Int /\ readPos \in Int
      BY SizeAssumption DEF CirBufInv, TypeOK, HeadPos, Slots
  <1>2. ASSUME NEW i \in 1 .. count
        PROVE  buf[(readPos + i - 1) % Size] = HeadPos + i - 1
    <2>1. i - 1 \in 0 .. count - 1
        BY <1>1
    <2>2. buf[(readPos + (i - 1)) % Size] = HeadPos + (i - 1)
        BY <2>1 DEF CirBufInv, HoldsNewestBytes
    <2>3. readPos + (i - 1) = readPos + i - 1 /\ HeadPos + (i - 1) = HeadPos + i - 1
        BY <1>1
    <2> QED
        BY <2>2, <2>3
  <1> QED
      BY <1>1, <1>2 DEF Retained, Run

(* The abstract queue's operators on runs.                                 *)
LEMMA NewestOfRun ==
    ASSUME NEW h \in Int, NEW n \in Nat, NEW k \in Nat
    PROVE  Window!Newest(Run(h, n), k)
             = IF n <= k THEN Run(h, n) ELSE Run(h + (n - k), k)
  <1>1. Len(Run(h, n)) = n
      BY RunIsSeq
  <1> HIDE DEF Run
  <1>2. CASE n <= k
      BY <1>1, <1>2 DEF Window!Newest
  <1>3. CASE ~(n <= k)
    <2>1. k \in 0 .. n
        BY <1>3
    <2> QED
        BY <1>1, <1>3, <2>1, RunSuffix DEF Window!Newest
  <1> QED
      BY <1>2, <1>3

(* An empty ring is an empty queue.                                        *)
LEMMA InitRefines == CirBufInit => Window!InitW
  <1> SUFFICES ASSUME CirBufInit PROVE Window!InitW
      OBVIOUS
  <1>1. Retained = << >>
      BY DEF CirBufInit, Retained
  <1> QED
      BY <1>1, InitSyncAssumption DEF CirBufInit, Window!InitW, Retained

(* Advancing readPos past the excess is giving up the oldest positions.    *)
LEMMA TuneRefines ==
    ASSUME CirBufInv, NEW s \in BOOLEAN, NEW req \in Nat, SetEffectiveWindow(s, req)
    PROVE  \E w \in 0 .. Size : Window!Retune(s, w)
  <1> DEFINE w == SmallerOf(req, Size)
             d == Excess(s, w)
  <1>1. /\ w \in 0 .. Size /\ count \in Nat
        /\ d = IF ~s /\ count > w THEN count - w ELSE 0
      BY SizeAssumption DEF SmallerOf, Excess, CirBufInv, TypeOK
  <1>2. CirBufInv'
      BY SetEffectiveWindowKeepsInv
  <1>3. /\ syncMode' = s /\ windowSize' = w /\ count' = count - d
        /\ totalSize' = totalSize
        /\ waiterChan' = (waiterChan /\ ~WakesWriter(s, w))
      BY DEF SetEffectiveWindow
  <1> HIDE DEF w, d
  <1>4. Retained = Run(HeadPos, count) /\ HeadPos \in Int /\ totalSize \in Nat
      BY RetainedIsRun DEF CirBufInv, TypeOK
  <1>5. Retained' = Run(HeadPos', count')
    <2>1. (CirBufInv => Retained = Run(HeadPos, count))'
        BY RetainedIsRun, PTL
    <2> QED
        BY <1>2, <2>1
  <1>6. totalSize - (count - d) = HeadPos + d
      BY <1>1, <1>4 DEF HeadPos
  <1>7. HeadPos' = HeadPos + d
      BY <1>3, <1>6 DEF HeadPos
  <1>8. Retained' = Run(HeadPos + d, count - d)
      BY <1>3, <1>5, <1>7
  <1>9. Retained' = IF s THEN Retained ELSE Window!Newest(Retained, w)
    <2>1. CASE d = 0
        BY <1>1, <1>4, <1>8, <2>1, NewestOfRun
    <2>2. CASE d # 0
        BY <1>1, <1>4, <1>8, <2>2, NewestOfRun
    <2> QED
        BY <2>1, <2>2
  <1>10. Len(Retained) = count
      BY <1>1, <1>4, RunIsSeq
  <1>11. waiterChan' \in {FALSE, waiterChan /\ s /\ Len(Retained) >= w}
    <2>1. CASE ~waiterChan'
        BY <2>1, <1>2 DEF CirBufInv, TypeOK
    <2>2. CASE waiterChan'
      <3>1. waiterChan /\ syncMode' /\ count' >= windowSize'
          BY <1>2, <1>3, <2>2 DEF CirBufInv, NoStrandedWriter
      <3>2. s /\ count >= w
          BY <1>1, <1>3, <3>1
      <3> QED
          BY <1>2, <1>10, <2>2, <3>1, <3>2 DEF CirBufInv, TypeOK
    <2> QED
        BY <2>1, <2>2
  <1>12. Window!Retune(s, w)
      BY <1>3, <1>9, <1>11 DEF Window!Retune, Retained
  <1> QED
      BY <1>1, <1>12

(* The slots written, and the old ones pushed out, are the last bytes of   *)
(* the queue and the chunk together; a write that blocks parks the writer. *)
LEMMA WriteRefines ==
    ASSUME CirBufInv, NEW n \in 1 .. MaxChunk, WriteAvailable(n)
    PROVE  Window!NextW
  <1>1. CASE Accepted(n) = 0
    <2>1. RegisterWaiter /\ ~waiterChan
        BY <1>1 DEF WriteAvailable
    <2>2. syncMode /\ count >= windowSize
        BY <1>1, SizeAssumption, ChunkAssumption
        DEF CirBufInv, TypeOK, Accepted, SmallerOf
    <2>3. Len(Retained) = count
        BY RetainedIsRun, RunIsSeq
    <2>4. Retained' = Retained
        BY <2>1 DEF RegisterWaiter, Retained
    <2>5. Window!Park
        BY <2>1, <2>2, <2>3, <2>4 DEF RegisterWaiter, Window!Park, Retained
    <2> QED
        BY <2>5 DEF Window!NextW
  <1>2. CASE Accepted(n) # 0
    <2> DEFINE w == Accepted(n)
               g == Growth(w)
    <2>1. /\ w \in 1 .. Size /\ g \in 0 .. w
          /\ count + g \in 0 .. windowSize
          /\ syncMode => w - g = 0
        BY <1>2, WriteAmounts DEF CirBufInv
    <2>2. count + g = IF count + w <= windowSize THEN count + w ELSE windowSize
        BY <2>1, SizeAssumption
        DEF CirBufInv, TypeOK, AsyncKeepsToWindow, Growth, SmallerOf
    <2>3. /\ count' = count + g /\ totalSize' = totalSize + w
          /\ UNCHANGED <<syncMode, windowSize, waiterChan>>
          /\ ~waiterChan
        BY <1>2 DEF WriteAvailable, StoreBytes
    <2> HIDE DEF w, g
    <2>4. /\ Retained = Run(HeadPos, count)
          /\ HeadPos \in Int /\ count \in Nat /\ totalSize \in Nat
          /\ windowSize \in Nat /\ w \in Nat
        BY <2>1, RetainedIsRun, SizeAssumption DEF CirBufInv, TypeOK
    <2>5. Retained' = Run(HeadPos', count')
      <3>1. CirBufInv'
          BY WriteAvailableKeepsInv
      <3>2. (CirBufInv => Retained = Run(HeadPos, count))'
          BY RetainedIsRun, PTL
      <3> QED
          BY <3>1, <3>2
    <2>6. /\ HeadPos' = HeadPos + (count + w) - (count + g)
          /\ HeadPos + count = totalSize
        BY <2>1, <2>3, <2>4 DEF HeadPos
    <2>7. Retained \o Window!Positions(totalSize, w) = Run(HeadPos, count + w)
      <3>1. Window!Positions(totalSize, w) = Run(HeadPos + count, w)
          BY <2>6 DEF Window!Positions, Run
      <3> QED
          BY <2>4, <3>1, RunAppend, ZenonT(30)
    <2>8. Retained' = Window!Newest(Run(HeadPos, count + w), windowSize)
      <3>1. CASE count + w <= windowSize
        <4>1. count' = count + w /\ HeadPos' = HeadPos
            BY <2>2, <2>3, <2>4, <2>6, <3>1
        <4> QED
            BY <2>4, <2>5, <3>1, <4>1, NewestOfRun
      <3>2. CASE ~(count + w <= windowSize)
        <4>1. count' = windowSize /\ HeadPos' = HeadPos + ((count + w) - windowSize)
            BY <2>2, <2>3, <2>4, <2>6, <3>2
        <4> QED
            BY <2>4, <2>5, <3>2, <4>1, NewestOfRun
      <3> QED
          BY <3>1, <3>2
    <2>9. syncMode => Len(Retained) + w <= windowSize
      <3>1. Len(Retained) = count
          BY <2>4, RunIsSeq
      <3> QED
          BY <2>1, <2>4, <3>1
    <2>10. \E m \in 1 .. Size : Window!Accept(m)
      <3> PICK m \in 1 .. Size : m = w
          BY <2>1
      <3> QED
          BY <2>3, <2>7, <2>8, <2>9 DEF Window!Accept, Retained
    <2> QED
        BY <2>10 DEF Window!NextW
  <1> QED
      BY <1>1, <1>2

(* Consuming from the ring is taking from the front of the queue.          *)
LEMMA ConsumeRefines ==
    ASSUME CirBufInv, NEW n \in 0 .. Size, Consume(n)
    PROVE  Window!NextW
  <1>1. /\ n \in 0 .. count /\ n \in Nat
        /\ count' = count - n
        /\ waiterChan' = FALSE
        /\ UNCHANGED <<totalSize, syncMode, windowSize>>
      BY SizeAssumption DEF Consume, CirBufInv, TypeOK
  <1>2. /\ Retained = Run(HeadPos, count)
        /\ HeadPos \in Int /\ count \in Nat /\ totalSize \in Nat
      BY RetainedIsRun DEF CirBufInv, TypeOK
  <1>3. Retained' = Run(HeadPos', count')
    <2>1. CirBufInv'
        BY <1>1, ConsumeKeepsInv
    <2>2. (CirBufInv => Retained = Run(HeadPos, count))'
        BY RetainedIsRun, PTL
    <2> QED
        BY <2>1, <2>2
  <1>4. HeadPos' = HeadPos + n
      BY <1>1, <1>2 DEF HeadPos
  <1>5. SubSeq(Run(HeadPos, count), n + 1, count) = Run(HeadPos + n, count - n)
    <2> DEFINE k == count - n
    <2>1. k \in 0 .. count /\ count - k = n
        BY <1>1, <1>2
    <2> HIDE DEF k
    <2>2. SubSeq(Run(HeadPos, count), count - k + 1, count)
            = Run(HeadPos + (count - k), k)
        BY <1>2, <2>1, RunSuffix
    <2> QED
        BY <2>1, <2>2 DEF k
  <1>6. Len(Retained) = count
      BY <1>2, RunIsSeq
  <1>7. Retained' = SubSeq(Retained, n + 1, Len(Retained))
      BY <1>1, <1>2, <1>3, <1>4, <1>5, <1>6
  <1>8. n <= Len(Retained)
      BY <1>1, <1>2, <1>6
  <1>9. Window!Take(n)
      BY <1>1, <1>7, <1>8, Zenon DEF Window!Take, Retained
  <1> QED
      BY <1>9 DEF Window!NextW

(* Every step of the ring is a step of the queue or leaves it as it was.   *)
LEMMA NextRefines ==
    CirBufInv /\ [CirBufNext]_cbVars => [Window!NextW]_(Window!varsW)
  <1> SUFFICES ASSUME CirBufInv, [CirBufNext]_cbVars
               PROVE  [Window!NextW]_(Window!varsW)
      OBVIOUS
  <1>1. ASSUME NEW s \in BOOLEAN, NEW req \in 0 .. Size + 1,
               SetEffectiveWindow(s, req)
        PROVE  Window!NextW
    <2>1. req \in Nat
        BY SizeAssumption
    <2>2. \E w \in 0 .. Size : Window!Retune(s, w)
        BY <1>1, <2>1, TuneRefines
    <2> QED
        BY <2>2 DEF Window!NextW
  <1>2. ASSUME NEW n \in 1 .. MaxChunk, WriteAvailable(n) PROVE Window!NextW
      BY <1>2, WriteRefines
  <1>3. ASSUME NEW n \in 0 .. Size, Consume(n) PROVE Window!NextW
      BY <1>3, ConsumeRefines
  <1>4. CASE UNCHANGED cbVars
    <2>1. Retained' = Retained
        BY <1>4 DEF cbVars, Retained
    <2>2. UNCHANGED Window!varsW
        BY <1>4, <2>1 DEF cbVars, Window!varsW, Retained
    <2> QED
        BY <2>2
  <1> QED
      BY <1>1, <1>2, <1>3, <1>4 DEF CirBufNext

-----------------------------------------------------------------------------
(* The circular buffer implements the queue of retained positions: its     *)
(* writes, consumptions and window changes are, for the stream manager     *)
(* that owns it, operations on the last bytes of the stream.               *)
THEOREM RingImplementsRetainedWindow == CirBufSpec => ImplementsRetainedWindow
  BY InitRefines, NextRefines, RingInvariant, PTL
  DEF CirBufSpec, ImplementsRetainedWindow, Window!SpecW
=============================================================================
