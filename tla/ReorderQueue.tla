---------------------------- MODULE ReorderQueue ----------------------------
(***************************************************************************)
(* pkg/utilds/quickreorderqueue.go: the queue a job's input goes through.  *)
(* Each input arrives in a goroutine of its own, so in any order; the      *)
(* queue passes on what is next in its session and holds the rest until    *)
(* the gap is filled or a timeout has passed.  A session first seen ends   *)
(* the one before it.  Every method runs under q.lock.                     *)
(*                                                                         *)
(* Sessions are told apart by when they were first seen, in milliseconds;  *)
(* as the source's comment assumes, no two are seen in the same one.       *)
(***************************************************************************)
EXTENDS Naturals, FiniteSets, SequencesExt

CONSTANTS
    QItems,      \* the inputs sent, each once: <<session, number>>, 0 for no number
    QCap         \* cap(q.outCh)

ASSUME ReorderQueueAssumption ==
    /\ \A it \in QItems : it = <<it[1], it[2]>> /\ it[2] \in Nat
    /\ QCap \in Nat \ {0}

VARIABLES
    qSeen,      \* q.sessionOrder: the sessions in the order they were first seen
    qNext,      \* q.nextSeqNum
    held,       \* q.buffer, in the order of the items' timestamps
    qOut,       \* q.outCh
    qTimer,     \* q.timer: the item it was set for, or NoItem
    offered     \* the items QueueItem was called with

queueVars == <<qSeen, qNext, held, qOut, qTimer, offered>>

NoItem == << >>
Session(it) == it[1]
SeqNum(it) == it[2]

QueueTypeOK ==
    /\ qSeen \in Seq({Session(it) : it \in QItems})
    /\ qNext \in Nat \ {0}
    /\ ToSet(held) \subseteq QItems
    /\ ToSet(qOut) \subseteq QItems
    /\ qTimer \in QItems \cup {NoItem}
    /\ offered \subseteq QItems

QueueInit ==
    /\ qSeen = << >> /\ qNext = 1 /\ held = << >> /\ qOut = << >>
    /\ qTimer = NoItem /\ offered = {}

-----------------------------------------------------------------------------
(* cmpSessionSeq_withlock and sortBuffer_withlock.                         *)
Age(seen, s) == CHOOSE i \in DOMAIN seen : seen[i] = s

Before(seen, a, b) ==
    \/ Age(seen, Session(a)) < Age(seen, Session(b))
    \/ Session(a) = Session(b) /\ SeqNum(a) < SeqNum(b)

ArrivalOrder(seen, buffer) == buffer

(* A set in a strict total order of its members: the k-th has k - 1 below. *)
InOrder(S, less) ==
    [k \in 1 .. Cardinality(S) |->
        CHOOSE x \in S : Cardinality({y \in S : <<y, x>> \in less}) = k - 1]

Sorted(seen, buffer) ==
    LET S == ToSet(buffer)
    IN  InOrder(S, {p \in S \X S : Before(seen, p[1], p[2])})

(* processBuffer_withlock: the items at the front of the sorted buffer     *)
(* that follow on one another from next.                                   *)
InSequence(seen, buffer, next) ==
    LET sorted == Sorted(seen, buffer)
        follows(n) == \A i \in 1 .. n : sorted[i] = <<Last(seen), next + i - 1>>
    IN  SubSeq(sorted, 1, CHOOSE n \in 0 .. Len(sorted) :
            follows(n) /\ (n = Len(sorted) \/ ~follows(n + 1)))

Without(buffer, out) ==
    LET stay == {i \in DOMAIN buffer : buffer[i] \notin ToSet(out)}
        pos == InOrder(stay, {p \in stay \X stay : p[1] < p[2]})
    IN  [k \in DOMAIN pos |-> buffer[pos[k]]]

-----------------------------------------------------------------------------
HasRoomForOut == Len(qOut) < QCap

HasRoom == Len(held) + Len(qOut) < QCap

(* ensureSessionTs_withlock: a session first seen flushes the buffer,      *)
(* becomes the current one and starts at 1.                                *)
EnsureSession(s) ==
    IF s \in ToSet(qSeen)
    THEN [seen |-> qSeen, next |-> qNext, held |-> held, out |-> << >>, timer |-> qTimer]
    ELSE [seen |-> Append(qSeen, s), next |-> 1, held |-> << >>, out |-> Sorted(qSeen, held),
          timer |-> IF held = << >> THEN qTimer ELSE NoItem]

(* QueueItem: refused when full; an item without a number or behind the    *)
(* next one goes out at once, the next one takes its followers along, any  *)
(* other is held, with a timer running.                                    *)
QueueItem(it) ==
    /\ it \notin offered
    /\ offered' = offered \cup {it}
    /\ IF ~HasRoom THEN UNCHANGED <<qSeen, qNext, held, qOut, qTimer>>
       ELSE LET q == EnsureSession(Session(it))
                next == <<Last(q.seen), q.next>>
                followers == InSequence(q.seen, q.held, q.next + 1)
            IN  /\ qSeen' = q.seen
                /\ IF SeqNum(it) = 0 \/ Before(q.seen, it, next)
                   THEN /\ qOut' = qOut \o q.out \o <<it>>
                        /\ qNext' = q.next /\ held' = q.held /\ qTimer' = q.timer
                   ELSE IF it = next
                   THEN /\ qOut' = qOut \o q.out \o <<it>> \o followers
                        /\ qNext' = q.next + 1 + Len(followers)
                        /\ held' = Without(q.held, followers) /\ qTimer' = q.timer
                   ELSE /\ held' = Append(q.held, it)
                        /\ qTimer' = IF q.timer = NoItem THEN it ELSE q.timer
                        /\ qOut' = qOut \o q.out /\ qNext' = q.next

OnTimeoutOnce ==
    /\ qTimer # NoItem
    /\ qTimer' = NoItem
    /\ LET out == IF held = << >> THEN << >> ELSE <<Head(held)>>
       IN qOut' = qOut \o out /\ held' = Without(held, out)
    /\ UNCHANGED <<qSeen, qNext, offered>>

(* onTimeout: the items that have been held for the timeout, those that    *)
(* arrived first, and all that sort before one of them go out; the timer   *)
(* is set again for the oldest that stays.  The timer was set for the item *)
(* that was the oldest, so if it is still held it has waited long enough.  *)
OnTimeout ==
    /\ qTimer # NoItem
    /\ \E k \in 0 .. Len(held) :
         /\ held # << >> /\ Head(held) = qTimer => k > 0
         /\ LET sorted == Sorted(qSeen, held)
                expired == {i \in DOMAIN sorted : \E j \in 1 .. k : sorted[i] = held[j]}
                out == SubSeq(sorted, 1, IF expired = {} THEN 0
                                         ELSE CHOOSE i \in expired : \A j \in expired : j <= i)
                stay == Without(held, out)
                last == {SeqNum(out[i]) + 1 : i \in {j \in DOMAIN out :
                             Session(out[j]) = Last(qSeen) /\ SeqNum(out[j]) >= qNext}}
            IN  /\ qOut' = qOut \o out
                /\ held' = stay
                /\ qNext' = IF last = {} THEN qNext
                            ELSE CHOOSE n \in last : \A m \in last : m <= n
                /\ qTimer' = IF stay = << >> THEN NoItem ELSE Head(stay)
    /\ UNCHANGED <<qSeen, offered>>

(* processInputQueue, of the job manager, takes the next.                  *)
TakeItem ==
    /\ qOut # << >>
    /\ qOut' = Tail(qOut)
    /\ UNCHANGED <<qSeen, qNext, held, qTimer, offered>>

QueueNext == (\E it \in QItems : QueueItem(it)) \/ OnTimeout \/ TakeItem

QueueSpec == QueueInit /\ [][QueueNext]_queueVars
QueueFairness == WF_queueVars(OnTimeout)

-----------------------------------------------------------------------------
(* What is held has a place in the channel: no flush of it ever waits for  *)
(* the reader while q.lock is held, which would stop every QueueItem.      *)
NeverBlocks == Len(held) + Len(qOut) <= QCap

(* An item comes out of the queue before all the later ones of its session *)
(* that come out with it, or that the queue still holds: only one that had *)
(* not arrived is overtaken.                                               *)
NoOvertaking ==
    [][\A i \in Len(qOut) + 1 .. Len(qOut') :
         \A it \in ToSet(held) \cup {qOut'[j] : j \in i + 1 .. Len(qOut')} :
             Session(it) = Session(qOut'[i]) /\ 0 < SeqNum(it) /\ SeqNum(it) < SeqNum(qOut'[i])
                 => \E j \in Len(qOut) + 1 .. i : qOut'[j] = it]_queueVars

(* What the queue holds comes out, though the gap is never filled.         *)
HeldComesOut == held # << >> ~> held = << >>
=============================================================================
