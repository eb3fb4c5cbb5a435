--------------------------- MODULE RetainedWindow ---------------------------
(***************************************************************************)
(* What pkg/jobmanager's output buffer promises to the stream manager that *)
(* owns it, with no ring, no index and no count: a queue of the stream     *)
(* positions still held.  Bytes are named by their position in the stream, *)
(* so a byte read at the wrong place is told apart from the right one.     *)
(*                                                                         *)
(*  - a new byte goes to the back, and the queue is always the last        *)
(*    Len(retained) bytes of the stream;                                   *)
(*  - in sync mode nothing but the reader's consumption removes a byte; a  *)
(*    writer that finds the window full is parked;                         *)
(*  - in async mode the oldest bytes give way and no writer is parked.     *)
(***************************************************************************)
EXTENDS Integers, Sequences

CONSTANT Capacity  \* a positive number of bytes

VARIABLES
    retained,  \* the positions held, oldest first
    written,   \* how many bytes the stream has had so far
    sync,      \* a full window parks the writer
    window,    \* how many bytes the writer may fill
    parked     \* a writer waits for room

varsW == <<retained, written, sync, window, parked>>

-----------------------------------------------------------------------------
(* The last n elements of q: what is left when older ones are given up.    *)
Newest(q, n) == IF Len(q) <= n THEN q ELSE SubSeq(q, Len(q) - n + 1, Len(q))

Positions(from, n) == [i \in 1 .. n |-> from + i - 1]

InitW ==
    /\ retained = << >>
    /\ written = 0
    /\ sync \in BOOLEAN
    /\ window = Capacity
    /\ parked = FALSE

(* n bytes are accepted: room for all of them, or the oldest give way.     *)
Accept(n) ==
    /\ ~parked
    /\ sync => Len(retained) + n <= window
    /\ written' = written + n
    /\ retained' = Newest(retained \o Positions(written, n), window)
    /\ UNCHANGED <<sync, window, parked>>

(* A sync writer that finds no room is parked and loses nothing.           *)
Park ==
    /\ ~parked
    /\ sync
    /\ Len(retained) >= window
    /\ parked' = TRUE
    /\ UNCHANGED <<retained, written, sync, window>>

(* The reader takes the n oldest bytes; a parked writer may try again.     *)
Take(n) ==
    /\ n <= Len(retained)
    /\ retained' = SubSeq(retained, n + 1, Len(retained))
    /\ parked' = FALSE
    /\ UNCHANGED <<written, sync, window>>

(* A new mode and window.  Only async mode gives bytes up; a parked writer *)
(* stays parked only if it still has no room in sync mode.                 *)
Retune(s, w) ==
    /\ sync' = s
    /\ window' = w
    /\ retained' = IF s THEN retained ELSE Newest(retained, w)
    /\ parked' \in {FALSE, parked /\ s /\ Len(retained) >= w}
    /\ UNCHANGED written

NextW ==
    \/ \E n \in 1 .. Capacity : Accept(n)
    \/ \E n \in 0 .. Capacity : Take(n)
    \/ Park
    \/ \E s \in BOOLEAN, w \in 0 .. Capacity : Retune(s, w)

SpecW == InitW /\ [][NextW]_varsW
=============================================================================
