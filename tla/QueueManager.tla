---------------------------- MODULE QueueManager ----------------------------
(***************************************************************************)
(* The matchmaking queue: a deque of player ids and the set of the ids     *)
(* that are really queued.  A removal only takes the id out of the set and *)
(* leaves a stale entry in the deque; a dequeue skips stale entries, and a *)
(* removal that finds too many of them compacts the deque.                 *)
(***************************************************************************)
EXTENDS Integers, Sequences, FiniteSets, Functions

CONSTANTS
    Players,
    StaleLimit    \* stale entries tolerated however short the queue is (10)

ASSUME StaleAssumption == StaleLimit \in Nat /\ IsFiniteSet(Players)

VARIABLES
    queue,      \* QueueManager._queue
    inQueue,    \* QueueManager._in_queue
    taken       \* the result of the latest dequeue

vars == <<queue, inQueue, taken>>

Init == queue = <<>> /\ inQueue = {} /\ taken = <<>>

Larger(m, n) == IF m > n THEN m ELSE n

\* The entry that serves p: its first one, also when that is a stale entry of an
\* earlier stay in the queue.
Position(p) == CHOOSE i \in DOMAIN queue : queue[i] = p /\ \A j \in 1..(i - 1) : queue[j] # p

\* What f puts in places, in the order of the places.
UpTo(f, x) == {y \in DOMAIN f : f[y] <= f[x]}

InOrder(f) ==
    [n \in 1..Cardinality(DOMAIN f) |-> CHOOSE x \in DOMAIN f : Cardinality(UpTo(f, x)) = n]

Enqueue(p) ==
    /\ p \notin inQueue
    /\ queue' = Append(queue, p)
    /\ inQueue' = inQueue \cup {p}
    /\ UNCHANGED taken

\* A fault to compare with: the deque is never compacted.
CompactNever(members) == queue

\* A fault to compare with: the deque is built anew from the set, in any order.
PurgedAnew(members) ==
    CHOOSE s \in [1..Cardinality(members) -> members] : IsInjective(s)

\* The entries that stay, in their order.
Purged(members) ==
    LET stay == InOrder([i \in {j \in DOMAIN queue : queue[j] \in members} |-> i])
    IN  [n \in DOMAIN stay |-> queue[stay[n]]]

\* The deque after a removal that leaves members in the queue.
Compact(members) ==
    LET stale == Len(queue) - Cardinality(members)
    IN  IF stale > Larger(StaleLimit, Cardinality(members)) THEN Purged(members) ELSE queue

Remove(p) ==
    /\ p \in inQueue
    /\ inQueue' = inQueue \ {p}
    /\ queue' = Compact(inQueue')
    /\ UNCHANGED taken

\* The players served by the first i entries.
Served(i) == {queue[j] : j \in 1..i} \cap inQueue

\* A fault to compare with: who is served is not discarded from the set.
StillQueued(served) == inQueue

Unserved(served) == inQueue \ served

\* The loop of dequeue ends after i entries.
Enough(i, count) == Cardinality(Served(i)) >= count \/ i = Len(queue)

\* Entries are popped until count players are found or the deque is empty.
Popped(count) ==
    CHOOSE i \in 0..Len(queue) : Enough(i, count) /\ \A j \in 0..(i - 1) : ~Enough(j, count)

Dequeue(count) ==
    LET served == Served(Popped(count))
    IN  /\ taken' = InOrder([p \in served |-> Position(p)])
        /\ inQueue' = Unserved(served)
        /\ queue' = SubSeq(queue, Popped(count) + 1, Len(queue))

Next ==
    \/ \E p \in Players : Enqueue(p) \/ Remove(p)
    \/ \E count \in 1..Cardinality(Players) : Dequeue(count)

Spec == Init /\ [][Next]_vars

-----------------------------------------------------------------------------

\* Players who join and leave over and over leave a bounded number of stale
\* entries behind.
StaleBounded ==
    Len(queue) - Cardinality(inQueue) <= Larger(StaleLimit, Cardinality(Players))

\* First come, first served: whatever others do, and however often the deque is
\* compacted, two players who go on waiting never change places.  (A player who
\* leaves and joins again gets his earlier place back while his stale entry is
\* there, so the order is not that of the latest joins.)
OrderKept ==
    [][\A p, q \in inQueue \cap inQueue' :
          Position(p) < Position(q) => Position(p)' < Position(q)']_vars

\* The deque with its stale entries behaves as the set that GameServer queues in.
SetQ == INSTANCE SetQueue WITH members <- inQueue
ImplementsSet == SetQ!Spec
=============================================================================
