---------------------------- MODULE StreamReader ----------------------------
(***************************************************************************)
(* pkg/streamclient/streamreader.go: the receiving end of a stream.  It    *)
(* puts packets in order, buffers them for Read, and tells the sender with *)
(* every ack how far it got and how much room is left.                     *)
(*                                                                         *)
(* A Reader is a record and each method an operator from the Reader before *)
(* to the Reader after and the acks it sends, since one process holds many *)
(* readers at a time; every method runs under r.lock.  A data packet of n  *)
(* bytes at seq carries the stream positions seq .. seq + n - 1.           *)
(***************************************************************************)
EXTENDS Integers, Sequences, FiniteSets
LOCAL INSTANCE SequencesExt

CONSTANTS
    ReadWindow,     \* r.readWindow: the window it was created with
    AckThreshold    \* the growth worth an ack (readWindow / 5 in the code)

ASSUME ReadWindowAssumption == ReadWindow \in Nat
ASSUME AckThresholdAssumption == AckThreshold \in Nat

DataPacket(id, seq, n) == [kind |-> "data", id |-> id, seq |-> seq, n |-> n]
EndPacket(kind, id, seq) == [kind |-> kind, id |-> id, seq |-> seq, n |-> 0]

NewReader(id, start) ==
    [id |-> id, next |-> start, buffer |-> << >>, eof |-> FALSE, err |-> "none",
     closed |-> FALSE, lastRwnd |-> ReadWindow, ooo |-> {}]

Room(r) == IF Len(r.buffer) > ReadWindow THEN 0 ELSE ReadWindow - Len(r.buffer)

AckOf(r, fin, cancel) ==
    [id |-> r.id, seq |-> r.next, fin |-> fin, cancel |-> cancel, rwnd |-> Room(r)]

(* sendAckLocked                                                           *)
Acking(r, fin, cancel) ==
    [reader |-> [r EXCEPT !.lastRwnd = Room(r)], acks |-> <<AckOf(r, fin, cancel)>>]

Silent(r) == [reader |-> r, acks |-> << >>]

-----------------------------------------------------------------------------
(* recvDataOrderedLocked                                                   *)
InOrder(r, p) ==
    [r EXCEPT !.buffer = @ \o [i \in 1 .. p.n |-> p.seq + i - 1],
              !.next = @ + p.n,
              !.eof = @ \/ p.kind = "eof"]

(* addOOOPacketLocked: one packet per seq is kept.                         *)
AddOutOfOrder(r, p) ==
    IF \E q \in r.ooo : q.seq = p.seq THEN r ELSE [r EXCEPT !.ooo = @ \cup {p}]

(* processOOOPacketsLocked: the kept packets by seq, up to the first that  *)
(* is not the next one; that one stays and keeps the later ones back.  The *)
(* end of the stream throws the rest away.                                 *)
Deliver(r, p) ==
    IF r.eof \/ r.err # "none" THEN [r EXCEPT !.ooo = {}]
    ELSE IF p.seq = r.next /\ \A q \in r.ooo : p.seq <= q.seq
         THEN InOrder([r EXCEPT !.ooo = @ \ {p}], p)
    ELSE r

DeliverOutOfOrder(r) ==
    IF r.ooo = {} THEN r
    ELSE FoldLeft(Deliver, r, SetToSortSeq(r.ooo, LAMBDA p, q : p.seq < q.seq))

Finished(r) == r.closed \/ r.eof \/ r.err # "none"

RecvData(r, p) ==
    IF Finished(r) \/ p.id # r.id THEN Silent(r)
    ELSE IF p.kind = "error"
         THEN Acking([r EXCEPT !.err = "stream"], TRUE, FALSE)
    ELSE IF p.seq < r.next THEN Silent(r)
    ELSE IF p.seq > r.next THEN Silent(AddOutOfOrder(r, p))
    ELSE LET s == DeliverOutOfOrder(InOrder(r, p)) IN Acking(s, s.eof, FALSE)

-----------------------------------------------------------------------------
(* Read returns when there is something to return.                         *)
Readable(r) == r.buffer # << >> \/ Finished(r)

(* What Read returns beside the bytes: an error comes before the bytes     *)
(* still buffered, the end only after them.                                *)
ReadError(r) ==
    IF r.closed THEN "closed"
    ELSE IF r.err # "none" THEN r.err
    ELSE IF r.buffer = << >> /\ r.eof THEN "eof"
    ELSE "none"

(* How many bytes a Read into n bytes copies.                              *)
ReadCount(r, n) ==
    IF ReadError(r) # "none" THEN 0
    ELSE IF n < Len(r.buffer) THEN n ELSE Len(r.buffer)

WorthAnAck(r) == r.buffer = << >> \/ Room(r) - r.lastRwnd >= AckThreshold

Read(r, n) ==
    LET k == ReadCount(r, n)
        s == [r EXCEPT !.buffer = SubSeq(@, k + 1, Len(@))]
    IN  IF k > 0 /\ WorthAnAck(s) THEN Acking(s, FALSE, FALSE) ELSE Silent(s)

UpdateNextSeq(r, seq) == [r EXCEPT !.next = seq]

(* Close: later calls change nothing; the first one cancels the stream.    *)
CloseReader(r) ==
    IF r.closed THEN Silent(r)
    ELSE Acking([r EXCEPT !.closed = TRUE,
                          !.err = IF @ = "none" THEN "closed" ELSE @], FALSE, TRUE)
=============================================================================
