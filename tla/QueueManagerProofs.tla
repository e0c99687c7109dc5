------------------------- MODULE QueueManagerProofs -------------------------
(***************************************************************************)
(* The deque with its stale entries behaves as a set of players, and the   *)
(* stale entries stay bounded, for every set of players and every limit.   *)
(***************************************************************************)
EXTENDS QueueManager, FiniteSetTheorems, WellFoundedInduction, TLAPS

(* Numbers and orders *)

\* Every set of numbers has a least one.
LEMMA LeastNumber ==
    ASSUME NEW S, S \subseteq Nat, S # {}
    PROVE  \E m \in S : \A n \in S : m <= n
<1> DEFINE R == {pair \in Nat \X Nat : pair[1] < pair[2]}
<1>1. IsWellFoundedOn(R, Nat)
    BY NatLessThanWellFounded DEF OpToRel
<1>2. PICK m \in S : \A n \in S : ~ (<<n, m>> \in R)
    BY <1>1, WFMin
<1>3. \A n \in S : ~ (n < m)
    BY <1>2
<1> QED BY <1>3

\* InOrder lists the domain of an injective function to numbers, each element
\* once, and the numbers rise.
LEMMA InOrderFacts ==
    ASSUME NEW f, IsFiniteSet(DOMAIN f), \A x \in DOMAIN f : f[x] \in Nat,
           \A x, y \in DOMAIN f : f[x] = f[y] => x = y
    PROVE  /\ Cardinality(DOMAIN f) \in Nat
           /\ InOrder(f) \in [1..Cardinality(DOMAIN f) -> DOMAIN f]
           /\ IsInjective(InOrder(f)) /\ Range(InOrder(f)) = DOMAIN f
           /\ \A m, n \in 1..Cardinality(DOMAIN f) :
                 m < n => f[InOrder(f)[m]] < f[InOrder(f)[n]]
<1> DEFINE S == DOMAIN f
           k == Cardinality(S)
           rank == [x \in S |-> Cardinality(UpTo(f, x))]
           s == InOrder(f)
<1>1. k \in Nat
    BY FS_CardinalityType
<1>2. \A x \in S : IsFiniteSet(UpTo(f, x)) /\ rank[x] \in 1..k
    <2> SUFFICES ASSUME NEW x \in S PROVE IsFiniteSet(UpTo(f, x)) /\ rank[x] \in 1..k
        OBVIOUS
    <2>1. UpTo(f, x) \subseteq S /\ x \in UpTo(f, x)
        BY DEF UpTo
    <2>2. IsFiniteSet(UpTo(f, x)) /\ Cardinality(UpTo(f, x)) <= k
        BY <2>1, FS_Subset
    <2>3. Cardinality(UpTo(f, x)) \in Nat /\ Cardinality(UpTo(f, x)) # 0
        BY <2>1, <2>2, FS_CardinalityType, FS_EmptySet
    <2> QED BY <1>1, <2>2, <2>3
<1>3. ASSUME NEW x \in S, NEW y \in S, f[x] < f[y] PROVE rank[x] < rank[y]
    <2>1. UpTo(f, x) \subseteq UpTo(f, y) /\ y \in UpTo(f, y) /\ y \notin UpTo(f, x)
        BY <1>3 DEF UpTo
    <2>2. /\ Cardinality(UpTo(f, x)) <= Cardinality(UpTo(f, y))
          /\ Cardinality(UpTo(f, x)) # Cardinality(UpTo(f, y))
        BY <1>2, <2>1, FS_Subset
    <2> QED BY <1>2, <2>2
<1>4. \A x, y \in S : rank[x] = rank[y] => x = y
    <2> SUFFICES ASSUME NEW x \in S, NEW y \in S, x # y PROVE rank[x] # rank[y]
        OBVIOUS
    <2>1. f[x] < f[y] \/ f[y] < f[x]
        OBVIOUS
    <2> QED BY <1>2, <1>3, <2>1
<1>5. \A n \in 1..k : \E x \in S : rank[x] = n
    <2>1. rank \in Injection(S, 1..k)
        BY <1>2, <1>4 DEF Injection, IsInjective
    <2>2. IsFiniteSet(1..k) /\ Cardinality(1..k) = k
        BY <1>1, FS_Interval
    <2>3. rank \in Surjection(S, 1..k)
        BY <2>1, <2>2, FS_Injection
    <2> QED BY <2>3 DEF Surjection
<1>6. \A n \in 1..k : s[n] \in S /\ rank[s[n]] = n
    BY <1>5 DEF InOrder
<1>7. s \in [1..k -> S]
    BY <1>6 DEF InOrder
<1>8. IsInjective(s)
    BY <1>6, <1>7 DEF IsInjective
<1>9. Range(s) = S
    <2>1. \A x \in S : rank[x] \in 1..k /\ s[rank[x]] = x
        BY <1>2, <1>4, <1>6
    <2>2. DOMAIN s = 1..k
        BY <1>7
    <2> HIDE DEF s, rank, S, k
    <2>3. \A x \in S : \E n \in DOMAIN s : s[n] = x
        BY <2>1, <2>2
    <2>4. \A n \in DOMAIN s : s[n] \in S
        BY <1>7
    <2> QED BY <2>3, <2>4 DEF Range
<1>10. \A m, n \in 1..k : m < n => f[s[m]] < f[s[n]]
    <2> HIDE DEF rank, s, S, k
    <2> SUFFICES ASSUME NEW m \in 1..k, NEW n \in 1..k, m < n PROVE f[s[m]] < f[s[n]]
        OBVIOUS
    <2>1. s[m] \in S /\ s[n] \in S /\ rank[s[m]] = m /\ rank[s[n]] = n
        BY <1>6
    <2>2. ~ (f[s[n]] < f[s[m]]) /\ f[s[n]] # f[s[m]]
        <3>1. f[s[n]] < f[s[m]] => rank[s[n]] < rank[s[m]]
            BY <1>3, <2>1
        <3>2. f[s[n]] = f[s[m]] => s[n] = s[m]
            BY <2>1 DEF S
        <3> QED BY <1>1, <2>1, <3>1, <3>2
    <2>3. f[s[m]] \in Nat /\ f[s[n]] \in Nat
        BY <2>1 DEF S
    <2> QED BY <2>2, <2>3
<1> QED BY <1>1, <1>7, <1>8, <1>9, <1>10

-----------------------------------------------------------------------------

(* The invariant *)

\* Everybody who is queued has an entry, and stale entries are bounded.
Inv ==
    /\ queue \in Seq(Players) /\ inQueue \subseteq Players
    /\ \A p \in inQueue : \E i \in DOMAIN queue : queue[i] = p
    /\ StaleBounded

\* What is counted are finite sets.
LEMMA Counts ==
    ASSUME Inv
    PROVE  /\ Len(queue) \in Nat /\ DOMAIN queue = 1..Len(queue)
           /\ \A i \in DOMAIN queue : queue[i] \in Players
           /\ \A S \in SUBSET Players :
                 /\ IsFiniteSet(S) /\ Cardinality(S) \in Nat
                 /\ Cardinality(S) <= Cardinality(Players)
           /\ Cardinality(Players) \in Nat /\ StaleLimit \in Nat
<1>1. \A S \in SUBSET Players : IsFiniteSet(S) /\ Cardinality(S) <= Cardinality(Players)
    BY StaleAssumption, FS_Subset
<1>2. \A S : IsFiniteSet(S) => Cardinality(S) \in Nat
    BY FS_CardinalityType
<1>3. \A i \in DOMAIN queue : queue[i] \in Players
    BY DEF Inv
<1> QED BY <1>1, <1>2, <1>3, StaleAssumption DEF Inv

\* The entry that serves a queued player is his first one.
LEMMA PositionFacts ==
    ASSUME Inv, NEW p \in inQueue
    PROVE  /\ Position(p) \in DOMAIN queue /\ queue[Position(p)] = p
           /\ \A j \in DOMAIN queue : queue[j] = p => Position(p) <= j
<1> DEFINE E == {i \in DOMAIN queue : queue[i] = p}
<1>1. DOMAIN queue = 1..Len(queue) /\ Len(queue) \in Nat
    BY Counts
<1>2. E # {} /\ E \subseteq Nat
    BY <1>1 DEF Inv
<1> HIDE DEF E
<1>3. PICK m \in E : \A n \in E : m <= n
    BY <1>2, LeastNumber
<1> USE DEF E
<1>4. m \in DOMAIN queue /\ queue[m] = p /\ \A j \in 1..(m - 1) : queue[j] # p
    BY <1>1, <1>3
<1>5. Position(p) \in DOMAIN queue /\ queue[Position(p)] = p
      /\ \A j \in 1..(Position(p) - 1) : queue[j] # p
    BY <1>4 DEF Position
<1> QED BY <1>1, <1>5

\* The entries of s are entries of the deque in the deque's order, all of those of
\* the members among them.
KeepsPlaces(s, members) ==
    \E place \in [DOMAIN s -> DOMAIN queue] :
        /\ \A n \in DOMAIN s : s[n] = queue[place[n]]
        /\ \A m, n \in DOMAIN s : m < n => place[m] < place[n]
        /\ \A i \in DOMAIN queue : queue[i] \in members => \E n \in DOMAIN s : place[n] = i

\* Fewer entries remain when one of them goes, and every member keeps his.
LEMMA PurgedFacts ==
    ASSUME Inv, NEW members \in SUBSET Players
    PROVE  /\ Purged(members) \in Seq(Players)
           /\ Len(Purged(members)) <= Len(queue)
           /\ (\E i \in DOMAIN queue : queue[i] \notin members) => Len(Purged(members)) < Len(queue)
           /\ \A i \in DOMAIN queue : queue[i] \in members =>
                \E n \in DOMAIN Purged(members) : Purged(members)[n] = queue[i]
           /\ KeepsPlaces(Purged(members), members)
<1> DEFINE K == {j \in DOMAIN queue : queue[j] \in members}
           f == [i \in K |-> i]
           stay == InOrder(f)
           k == Cardinality(K)
<1>1. /\ DOMAIN queue = 1..Len(queue) /\ Len(queue) \in Nat
      /\ \A i \in DOMAIN queue : queue[i] \in Players
    BY Counts
<1>2. IsFiniteSet(DOMAIN queue) /\ Cardinality(DOMAIN queue) = Len(queue)
    BY SMTT(30), <1>1, FS_Interval
<1>3. IsFiniteSet(K) /\ k <= Len(queue) /\ (k = Len(queue) => K = DOMAIN queue)
    BY <1>2, FS_Subset
<1>4. /\ k \in Nat /\ stay \in [1..k -> K] /\ Range(stay) = K
      /\ \A m, n \in 1..k : m < n => f[stay[m]] < f[stay[n]]
    <2>1. DOMAIN f = K
        OBVIOUS
    <2>2. \A x \in DOMAIN f : f[x] \in Nat
        BY <1>1
    <2>3. \A x, y \in DOMAIN f : f[x] = f[y] => x = y
        OBVIOUS
    <2>4. IsFiniteSet(DOMAIN f)
        BY <1>3
    <2> HIDE DEF f
    <2> QED BY <2>1, <2>2, <2>3, <2>4, InOrderFacts
<1>5. Purged(members) = [n \in DOMAIN stay |-> queue[stay[n]]]
    BY DEF Purged
<1> HIDE DEF stay, k
<1>6. /\ DOMAIN stay = 1..k
      /\ \A n \in 1..k : stay[n] \in DOMAIN queue
      /\ \A i \in DOMAIN queue : queue[i] \in members => \E n \in 1..k : stay[n] = i
      /\ \A m, n \in 1..k : m < n => stay[m] < stay[n]
    BY <1>4 DEF Range
<1> HIDE DEF K, f
<1>7. Purged(members) \in [1..k -> Players]
    BY <1>1, <1>5, <1>6
<1>8. Purged(members) \in Seq(Players) /\ Len(Purged(members)) = k
    BY <1>4, <1>7
<1>9. (\E i \in DOMAIN queue : queue[i] \notin members) => k < Len(queue)
    <2> SUFFICES ASSUME NEW i \in DOMAIN queue, queue[i] \notin members PROVE k < Len(queue)
        OBVIOUS
    <2>1. K # DOMAIN queue
        BY DEF K
    <2>2. k # Len(queue)
        BY <1>3, <2>1
    <2>3. Len(queue) \in Nat /\ k \in Nat /\ k <= Len(queue)
        BY <1>1, <1>3, <1>4
    <2> QED BY <2>2, <2>3
<1>10. \A i \in DOMAIN queue : queue[i] \in members =>
           \E n \in DOMAIN Purged(members) : Purged(members)[n] = queue[i]
    BY <1>5, <1>6
<1>11. KeepsPlaces(Purged(members), members)
    <2>1. stay \in [DOMAIN Purged(members) -> DOMAIN queue] /\ DOMAIN Purged(members) = 1..k
        BY <1>4, <1>5, <1>6 DEF K
    <2> QED BY <1>5, <1>6, <2>1 DEF KeepsPlaces
<1> QED BY <1>3, <1>8, <1>9, <1>10, <1>11

\* dequeue stops at an entry, having found as many players as asked for, or all.
LEMMA PoppedFacts ==
    ASSUME Inv, NEW count \in Nat, count > 0
    PROVE  /\ Popped(count) \in 0..Len(queue)
           /\ Cardinality(Served(Popped(count)))
                = (IF count < Cardinality(inQueue) THEN count ELSE Cardinality(inQueue))
           /\ Cardinality(Served(Popped(count))) <= Popped(count)
<1> DEFINE n == Popped(count)
<1>1. /\ Len(queue) \in Nat /\ DOMAIN queue = 1..Len(queue)
      /\ \A S \in SUBSET Players : IsFiniteSet(S) /\ Cardinality(S) \in Nat
      /\ inQueue \subseteq Players
    BY Counts DEF Inv
<1>2. n \in 0..Len(queue) /\ Enough(n, count) /\ \A j \in 0..(n - 1) : ~ Enough(j, count)
    <2> DEFINE E == {i \in 0..Len(queue) : Enough(i, count)}
    <2>1. E \subseteq Nat /\ Len(queue) \in E
        BY <1>1 DEF Enough
    <2> HIDE DEF E
    <2>2. PICK m \in E : \A j \in E : m <= j
        BY <2>1, LeastNumber
    <2> USE DEF E
    <2>3. m \in 0..Len(queue) /\ Enough(m, count)
        BY <2>2
    <2>4. \A j \in 0..(m - 1) : ~ Enough(j, count)
        <3> SUFFICES ASSUME NEW j \in 0..(m - 1), Enough(j, count) PROVE FALSE
            OBVIOUS
        <3>1. j \in E /\ j < m
            BY <1>1, <2>3
        <3> QED BY <1>1, <2>2, <2>3, <3>1
    <2> QED BY <2>3, <2>4 DEF Popped
<1> HIDE DEF n
<1>3. \A i \in 0..Len(queue) : Served(i) \subseteq inQueue
    BY DEF Served
<1>4. \A i \in 0..Len(queue) :
          /\ IsFiniteSet(Served(i)) /\ Cardinality(Served(i)) \in Nat
          /\ Cardinality(Served(i)) <= Cardinality(inQueue)
    BY <1>1, <1>3, FS_Subset
<1>5. \A i \in 0..Len(queue) : i > 0 =>
          i - 1 \in 0..Len(queue) /\ Cardinality(Served(i)) <= Cardinality(Served(i - 1)) + 1
    <2> SUFFICES ASSUME NEW i \in 1..Len(queue)
                 PROVE  i - 1 \in 0..Len(queue) /\ Cardinality(Served(i)) <= Cardinality(Served(i - 1)) + 1
        BY <1>1
    <2>1. i - 1 \in 0..Len(queue) /\ i \in 0..Len(queue)
        BY <1>1
    <2>2. Served(i) \subseteq Served(i - 1) \cup {queue[i]}
        <3>1. \A j \in 1..i : j = i \/ j \in 1..(i - 1)
            BY <1>1
        <3> QED BY <3>1 DEF Served
    <2>3. /\ IsFiniteSet(Served(i - 1) \cup {queue[i]})
          /\ Cardinality(Served(i - 1) \cup {queue[i]}) <= Cardinality(Served(i - 1)) + 1
          /\ Cardinality(Served(i - 1) \cup {queue[i]}) \in Nat
        <3> DEFINE A == Served(i - 1)
        <3>1. IsFiniteSet(A) /\ Cardinality(A) \in Nat
            BY <1>4, <2>1
        <3> HIDE DEF A
        <3>2. /\ IsFiniteSet(A \cup {queue[i]})
              /\ Cardinality(A \cup {queue[i]})
                    = (IF queue[i] \in A THEN Cardinality(A) ELSE Cardinality(A) + 1)
            BY <3>1, FS_AddElement
        <3>3. Cardinality(A \cup {queue[i]}) <= Cardinality(A) + 1
              /\ Cardinality(A \cup {queue[i]}) \in Nat
            BY <3>1, <3>2
        <3> USE DEF A
        <3> QED BY <3>2, <3>3
    <2>4. Cardinality(Served(i)) <= Cardinality(Served(i - 1) \cup {queue[i]})
        BY <2>2, <2>3, FS_Subset
    <2> QED BY <1>4, <2>1, <2>3, <2>4
<1>6. Cardinality(Served(0)) = 0
    <2>1. Served(0) = {}
        BY DEF Served
    <2> QED BY <2>1, FS_EmptySet
<1>7. Served(Len(queue)) = inQueue
    BY <1>1 DEF Served, Inv
<1>8. Cardinality(Served(n)) <= count
    <2>1. CASE n = 0
        BY <1>6, <2>1
    <2>2. CASE n > 0
        <3>1. n - 1 \in 0..Len(queue) /\ Cardinality(Served(n)) <= Cardinality(Served(n - 1)) + 1
            BY <1>2, <1>5, <2>2
        <3>2. ~ (Cardinality(Served(n - 1)) >= count)
            <4>1. n - 1 \in 0..(n - 1)
                BY <1>1, <1>2, <2>2
            <4> QED BY <1>2, <4>1 DEF Enough
        <3> QED BY <1>2, <1>4, <3>1, <3>2
    <2> QED BY <1>1, <1>2, <2>1, <2>2
<1>9. Cardinality(Served(n)) >= count \/ n = Len(queue)
    BY <1>2 DEF Enough
<1>10. Cardinality(Served(n)) <= n
    <2> DEFINE B == {i \in 0..Len(queue) : ~ (Cardinality(Served(i)) <= i)}
    <2> SUFFICES ASSUME B # {} PROVE FALSE
        BY <1>2
    <2>1. B \subseteq Nat
        BY <1>1
    <2> HIDE DEF B
    <2>2. PICK m \in B : \A j \in B : m <= j
        BY <2>1, LeastNumber
    <2> USE DEF B
    <2>3. m \in 0..Len(queue) /\ ~ (Cardinality(Served(m)) <= m)
        BY <2>2
    <2>4. m > 0
        BY <1>1, <1>6, <2>3
    <2>5. m - 1 \in 0..Len(queue) /\ Cardinality(Served(m)) <= Cardinality(Served(m - 1)) + 1
        BY <1>5, <2>3, <2>4
    <2>6. Cardinality(Served(m - 1)) <= m - 1
        <3>1. m - 1 \notin B
            BY <1>1, <2>2, <2>3
        <3> QED BY <2>5, <3>1
    <2> QED BY <1>1, <1>4, <2>3, <2>5, <2>6
<1>11. IsFiniteSet(inQueue) /\ Cardinality(inQueue) \in Nat
    BY <1>1
<1>12. Cardinality(Served(n)) = (IF count < Cardinality(inQueue) THEN count ELSE Cardinality(inQueue))
    <2>1. CASE n = Len(queue)
        BY <1>2, <1>4, <1>7, <1>8, <1>11, <2>1
    <2>2. CASE Cardinality(Served(n)) >= count
        BY <1>2, <1>4, <1>8, <1>11, <2>2
    <2> QED BY <1>9, <2>1, <2>2
<1> QED BY <1>2, <1>10, <1>12 DEF n

-----------------------------------------------------------------------------

(* The steps *)

\* The bound on the stale entries, which only the set and the length decide.
LEMMA NoMoreStale ==
    ASSUME Inv, inQueue' \subseteq Players, Len(queue') \in Nat,
           Len(queue') - Cardinality(inQueue') <= Len(queue) - Cardinality(inQueue)
    PROVE  StaleBounded'
<1>1. /\ Len(queue) \in Nat /\ Cardinality(inQueue) \in Nat
      /\ Cardinality(inQueue') \in Nat /\ Cardinality(Players) \in Nat /\ StaleLimit \in Nat
    BY Counts DEF Inv
<1>2. Len(queue) - Cardinality(inQueue) <= Larger(StaleLimit, Cardinality(Players))
    BY DEF Inv, StaleBounded
<1>3. Larger(StaleLimit, Cardinality(Players)) \in Nat
    BY <1>1 DEF Larger
<1> QED BY <1>1, <1>2, <1>3 DEF StaleBounded

LEMMA EnqueueKeeps ==
    ASSUME Inv, NEW p \in Players, Enqueue(p)
    PROVE  Inv' /\ SetQ!Enqueue(p)
<1>1. /\ p \notin inQueue /\ queue' = Append(queue, p) /\ inQueue' = inQueue \cup {p}
      /\ UNCHANGED taken
    BY DEF Enqueue
<1>2. Len(queue) \in Nat /\ DOMAIN queue = 1..Len(queue)
    BY Counts
<1>3. /\ queue' \in Seq(Players) /\ Len(queue') = Len(queue) + 1
      /\ DOMAIN queue' = 1..(Len(queue) + 1) /\ queue'[Len(queue) + 1] = p
      /\ \A i \in DOMAIN queue : queue'[i] = queue[i]
    BY <1>1, <1>2 DEF Inv
<1>4. Cardinality(inQueue') = Cardinality(inQueue) + 1 /\ Cardinality(inQueue) \in Nat
    BY <1>1, Counts, FS_AddElement DEF Inv
<1>5. \A q \in inQueue' : \E i \in DOMAIN queue' : queue'[i] = q
    <2>1. \A q \in inQueue : \E i \in DOMAIN queue' : queue'[i] = q
        BY <1>2, <1>3 DEF Inv
    <2>2. \E i \in DOMAIN queue' : queue'[i] = p
        BY <1>2, <1>3
    <2> QED BY <1>1, <2>1, <2>2
<1>6. inQueue' \subseteq Players
    BY <1>1 DEF Inv
<1>7. StaleBounded'
    BY <1>2, <1>3, <1>4, <1>6, NoMoreStale
<1> QED BY <1>1, <1>3, <1>5, <1>6, <1>7 DEF Inv, SetQ!Enqueue

LEMMA RemoveKeeps ==
    ASSUME Inv, NEW p \in Players, Remove(p)
    PROVE  Inv' /\ SetQ!Remove(p)
<1> DEFINE members == inQueue \ {p}
           stale == Len(queue) - Cardinality(members)
<1>1. /\ p \in inQueue /\ inQueue' = members /\ queue' = Compact(members)
      /\ UNCHANGED taken
    BY DEF Remove
<1>2. /\ Len(queue) \in Nat /\ DOMAIN queue = 1..Len(queue)
      /\ Cardinality(Players) \in Nat /\ StaleLimit \in Nat
    BY Counts
<1>3. members \subseteq Players
    BY DEF Inv
<1>4. /\ Cardinality(members) = Cardinality(inQueue) - 1 /\ Cardinality(members) \in Nat
      /\ Cardinality(inQueue) \in Nat /\ Cardinality(members) <= Cardinality(Players)
    BY <1>1, <1>3, Counts, FS_RemoveElement DEF Inv
<1>5. \E i \in DOMAIN queue : queue[i] = p
    BY <1>1 DEF Inv
<1>6. CASE stale > Larger(StaleLimit, Cardinality(members))
    <2>1. queue' = Purged(members)
        BY <1>1, <1>6 DEF Compact
    <2>2. /\ queue' \in Seq(Players) /\ Len(queue') < Len(queue)
          /\ \A i \in DOMAIN queue : queue[i] \in members =>
                \E n \in DOMAIN queue' : queue'[n] = queue[i]
        BY <1>3, <1>5, <2>1, PurgedFacts
    <2>3. ASSUME NEW q \in members PROVE \E n \in DOMAIN queue' : queue'[n] = q
        <3>1. \E i \in DOMAIN queue : queue[i] = q
            BY DEF Inv
        <3> QED BY <2>2, <3>1
    <2>4. Len(queue') \in Nat
        BY <2>2
    <2>5. StaleBounded'
        BY <1>1, <1>2, <1>3, <1>4, <2>2, <2>4, NoMoreStale
    <2> QED BY <1>1, <1>3, <2>2, <2>3, <2>5 DEF Inv, SetQ!Remove
<1>7. CASE ~ (stale > Larger(StaleLimit, Cardinality(members)))
    <2>1. queue' = queue
        BY <1>1, <1>7 DEF Compact
    <2>2. Larger(StaleLimit, Cardinality(members)) <= Larger(StaleLimit, Cardinality(Players))
          /\ Larger(StaleLimit, Cardinality(members)) \in Nat
          /\ Larger(StaleLimit, Cardinality(Players)) \in Nat
        BY <1>2, <1>4 DEF Larger
    <2>3. StaleBounded'
        <3>1. stale <= Larger(StaleLimit, Cardinality(members))
            BY <1>2, <1>4, <1>7, <2>2
        <3> QED BY <1>1, <1>2, <1>4, <2>1, <2>2, <3>1 DEF StaleBounded
    <2> QED BY <1>1, <1>3, <2>1, <2>3 DEF Inv, SetQ!Remove
<1> QED BY <1>6, <1>7

\* SetQueue counts and lists in the same way.
LEMMA SameOperators ==
    /\ \A S : SetQ!Cardinality(S) = Cardinality(S)
    /\ \A f : SetQ!Range(f) = Range(f)
    /\ \A f : SetQ!IsInjective(f) = IsInjective(f)
<1>1. \A S : SetQ!Cardinality(S) = Cardinality(S)
    BY DEF SetQ!Cardinality, Cardinality, SetQ!ExistsBijection, ExistsBijection, SetQ!Bijection,
           Bijection, SetQ!Injection, Injection, SetQ!Surjection, Surjection, SetQ!IsInjective,
           IsInjective
<1>2. \A f : SetQ!Range(f) = Range(f)
    BY DEF SetQ!Range, Range
<1>3. \A f : SetQ!IsInjective(f) = IsInjective(f)
    BY DEF SetQ!IsInjective, IsInjective
<1> QED BY <1>1, <1>2, <1>3

\* What is left when the first n entries are popped.
LEMMA RestOfSequence ==
    ASSUME NEW T, NEW s \in Seq(T), NEW n \in 0..Len(s)
    PROVE  LET rest == SubSeq(s, n + 1, Len(s))
           IN  /\ rest \in Seq(T) /\ Len(rest) = Len(s) - n
               /\ \A i \in 1..(Len(s) - n) : rest[i] = s[n + i]
OBVIOUS

LEMMA DequeueKeeps ==
    ASSUME Inv, NEW count \in 1..Cardinality(Players), Dequeue(count)
    PROVE  Inv' /\ SetQ!Dequeue(count)
<1> DEFINE n == Popped(count)
           S == Served(n)
           f == [p \in S |-> Position(p)]
<1>1. /\ taken' = InOrder(f) /\ inQueue' = inQueue \ S
      /\ queue' = SubSeq(queue, n + 1, Len(queue))
    BY DEF Dequeue, Unserved
<1>2. /\ Len(queue) \in Nat /\ DOMAIN queue = 1..Len(queue)
      /\ \A i \in DOMAIN queue : queue[i] \in Players
      /\ Cardinality(Players) \in Nat
    BY Counts
<1>3. count \in Nat /\ count > 0
    BY <1>2
<1>4. /\ n \in 0..Len(queue) /\ Cardinality(S) <= n
      /\ Cardinality(S) = SetQ!Fewer(count, Cardinality(inQueue))
    BY <1>3, PoppedFacts DEF SetQ!Fewer
<1>5. S \subseteq inQueue /\ inQueue \subseteq Players
    BY DEF Served, Inv
<1>6. /\ IsFiniteSet(S) /\ Cardinality(S) \in Nat /\ Cardinality(inQueue) \in Nat
      /\ IsFiniteSet(inQueue)
    BY <1>5, Counts
<1>7. \A p \in S : Position(p) \in DOMAIN queue /\ queue[Position(p)] = p
    BY <1>5, PositionFacts
<1>8. /\ taken' \in [1..Cardinality(S) -> S] /\ IsInjective(taken') /\ Range(taken') = S
    <2>1. DOMAIN f = S
        OBVIOUS
    <2>2. \A x \in DOMAIN f : f[x] \in Nat
        BY <1>2, <1>7
    <2>3. \A x, y \in DOMAIN f : f[x] = f[y] => x = y
        BY <1>7
    <2>4. IsFiniteSet(DOMAIN f)
        BY <1>6
    <2> HIDE DEF f, S
    <2> QED BY <1>1, <2>1, <2>2, <2>3, <2>4, InOrderFacts
<1>9. SetQ!Dequeue(count)
    <2>1. taken' \in [1..SetQ!Fewer(count, Cardinality(inQueue)) -> inQueue]
        BY <1>4, <1>5, <1>8
    <2> HIDE DEF S
    <2> QED BY <1>1, <1>8, <2>1, SameOperators DEF SetQ!Dequeue
<1> HIDE DEF n
<1>10. /\ queue' \in Seq(Players) /\ Len(queue') = Len(queue) - n
       /\ \A i \in 1..(Len(queue) - n) : queue'[i] = queue[n + i]
    <2> HIDE DEF S
    <2> QED BY <1>1, <1>4, RestOfSequence DEF Inv
<1>11. \A p \in inQueue' : \E i \in DOMAIN queue' : queue'[i] = p
    <2> SUFFICES ASSUME NEW p \in inQueue \ S PROVE \E i \in DOMAIN queue' : queue'[i] = p
        BY <1>1
    <2>1. PICK j \in DOMAIN queue : queue[j] = p
        BY DEF Inv
    <2>2. j \notin 1..n
        BY <2>1 DEF Served
    <2>3. j - n \in 1..(Len(queue) - n) /\ n + (j - n) = j
        BY <1>2, <1>4, <2>2
    <2>4. j - n \in DOMAIN queue'
        BY <1>10, <2>3
    <2> QED BY <1>10, <2>1, <2>3, <2>4
<1>12. Cardinality(inQueue') = Cardinality(inQueue) - Cardinality(S)
    <2>1. inQueue \cap S = S
        BY <1>5
    <2> HIDE DEF S
    <2>2. Cardinality(inQueue \ S) = Cardinality(inQueue) - Cardinality(inQueue \cap S)
        BY <1>6, FS_Difference
    <2> QED BY <1>1, <2>1, <2>2
<1>13. StaleBounded'
    <2>1. inQueue' \subseteq Players
        BY <1>1, <1>5
    <2> HIDE DEF S
    <2>2. Len(queue') \in Nat /\ Len(queue') - Cardinality(inQueue') <= Len(queue) - Cardinality(inQueue)
        BY <1>2, <1>4, <1>6, <1>10, <1>12
    <2> QED BY <2>1, <2>2, NoMoreStale
<1> QED BY <1>1, <1>5, <1>9, <1>10, <1>11, <1>13 DEF Inv

LEMMA InitHolds == Init => Inv
<1> SUFFICES ASSUME Init PROVE Inv
    OBVIOUS
<1>1. queue = <<>> /\ inQueue = {} /\ Len(queue) = 0 /\ Cardinality(inQueue) = 0
    BY FS_EmptySet DEF Init
<1>2. Larger(StaleLimit, Cardinality(Players)) >= 0
    BY StaleAssumption, FS_CardinalityType DEF Larger
<1>3. StaleBounded
    BY <1>1, <1>2 DEF StaleBounded
<1> QED BY <1>1, <1>3 DEF Inv

LEMMA Invariance == Spec => []Inv
<1>1. Inv /\ [Next]_vars => Inv'
    <2> SUFFICES ASSUME Inv, [Next]_vars PROVE Inv'
        OBVIOUS
    <2>1. CASE UNCHANGED vars
        BY <2>1 DEF vars, Inv, StaleBounded
    <2> QED BY <2>1, EnqueueKeeps, RemoveKeeps, DequeueKeeps DEF Next
<1> QED BY <1>1, InitHolds, PTL DEF Spec

-----------------------------------------------------------------------------

(* The order *)

\* The entry that serves p is in the deque and is his, and he has none before it.
FirstOf(p) ==
    /\ Position(p) \in DOMAIN queue /\ queue[Position(p)] = p
    /\ \A j \in DOMAIN queue : queue[j] = p => Position(p) <= j

LEMMA FirstEntries == Inv => \A p \in inQueue : FirstOf(p)
BY PositionFacts DEF FirstOf

LEMMA FirstEntriesNext == Inv' => \A p \in inQueue' : FirstOf(p)'
<1>1. (Inv => \A p \in inQueue : FirstOf(p))'
    BY FirstEntries, PTL
<1> QED BY <1>1

OrderStays ==
    \A p, q \in inQueue \cap inQueue' : Position(p) < Position(q) => Position(p)' < Position(q)'

\* When the entries of those who go on waiting stay in their order, so do they.
LEMMA OrderFollows ==
    ASSUME Inv, Inv', NEW E \in SUBSET DOMAIN queue', NEW place \in [E -> DOMAIN queue],
           \A n \in DOMAIN queue' : queue'[n] \in inQueue \cap inQueue' => n \in E,
           \A n \in E : queue'[n] = queue[place[n]],
           \A m, n \in E : m < n => place[m] < place[n],
           \A i \in DOMAIN queue : queue[i] \in inQueue \cap inQueue' =>
                \E n \in E : place[n] = i
    PROVE  OrderStays
<1> SUFFICES ASSUME NEW p \in inQueue \cap inQueue', NEW q \in inQueue \cap inQueue',
                    Position(p) < Position(q)
             PROVE  Position(p)' < Position(q)'
    BY DEF OrderStays
<1>1. DOMAIN queue \subseteq Nat /\ DOMAIN queue' \subseteq Nat
    BY DEF Inv
<1>2. FirstOf(p) /\ FirstOf(q) /\ FirstOf(p)' /\ FirstOf(q)'
    BY FirstEntries, FirstEntriesNext
<1>3. PICK m \in E : place[m] = Position(p)
    BY <1>2 DEF FirstOf
<1>4. queue'[m] = p /\ m \in DOMAIN queue'
    BY <1>2, <1>3 DEF FirstOf
<1>5. Position(p)' <= m
    BY <1>2, <1>4 DEF FirstOf
<1>6. PICK n \in E : n = Position(q)'
    BY <1>2 DEF FirstOf
<1>7. queue[place[n]] = q /\ place[n] \in DOMAIN queue
    BY <1>2, <1>6 DEF FirstOf
<1>8. Position(q) <= place[n]
    BY <1>2, <1>7 DEF FirstOf
<1>9. /\ Position(p) \in Nat /\ Position(q) \in Nat /\ place[n] \in Nat
       /\ Position(p)' \in Nat /\ m \in Nat /\ n \in Nat
    BY <1>1, <1>2, <1>4, <1>6, <1>7 DEF FirstOf
<1>10. place[m] < place[n]
    BY <1>3, <1>8, <1>9
<1>11. ~ (n < m) /\ n # m
    BY <1>10, <1>9, <1>3
<1> QED BY <1>5, <1>6, <1>9, <1>11

LEMMA EnqueueOrder ==
    ASSUME Inv, Inv', NEW p \in Players, Enqueue(p)
    PROVE  OrderStays
<1> DEFINE E == DOMAIN queue
           place == [n \in E |-> n]
<1>1. /\ p \notin inQueue /\ queue' = Append(queue, p) /\ Len(queue) \in Nat
      /\ DOMAIN queue = 1..Len(queue)
    BY Counts DEF Enqueue
<1>2. /\ DOMAIN queue' = 1..(Len(queue) + 1) /\ queue'[Len(queue) + 1] = p
      /\ \A i \in E : queue'[i] = queue[i]
    BY <1>1 DEF Inv
<1>3. /\ E \in SUBSET DOMAIN queue' /\ place \in [E -> DOMAIN queue]
      /\ \A n \in E : place[n] = n
    BY <1>1, <1>2
<1>4. \A n \in DOMAIN queue' : queue'[n] \in inQueue \cap inQueue' => n \in E
    BY <1>1, <1>2
<1>5. \A i \in DOMAIN queue : \E n \in E : place[n] = i
    OBVIOUS
<1> HIDE DEF E, place
<1> QED BY <1>2, <1>3, <1>4, <1>5, OrderFollows

LEMMA RemoveOrder ==
    ASSUME Inv, Inv', NEW p \in Players, Remove(p)
    PROVE  OrderStays
<1>1. inQueue' \subseteq Players /\ queue' = Compact(inQueue')
    BY DEF Remove, Inv
<1>2. CASE queue' = queue
    <2> DEFINE place == [n \in DOMAIN queue |-> n]
    <2>1. place \in [DOMAIN queue -> DOMAIN queue] /\ \A n \in DOMAIN queue : place[n] = n
        OBVIOUS
    <2> HIDE DEF place
    <2> QED BY <1>2, <2>1, OrderFollows
<1>3. CASE queue' = Purged(inQueue')
    <2>1. KeepsPlaces(queue', inQueue')
        BY <1>1, <1>3, PurgedFacts
    <2> QED BY <2>1, OrderFollows DEF KeepsPlaces
<1> QED BY <1>1, <1>2, <1>3 DEF Compact

LEMMA DequeueOrder ==
    ASSUME Inv, Inv', NEW count \in 1..Cardinality(Players), Dequeue(count)
    PROVE  OrderStays
<1> DEFINE n == Popped(count)
           E == DOMAIN queue'
           place == [i \in E |-> n + i]
<1>1. /\ inQueue' = inQueue \ Served(n) /\ queue' = SubSeq(queue, n + 1, Len(queue))
      /\ Len(queue) \in Nat /\ DOMAIN queue = 1..Len(queue)
    BY Counts DEF Dequeue, Unserved
<1>2. n \in 0..Len(queue)
    BY Counts, PoppedFacts
<1> HIDE DEF n
<1>3. E = 1..(Len(queue) - n) /\ \A i \in E : queue'[i] = queue[n + i]
    BY <1>1, <1>2, RestOfSequence DEF Inv
<1>4. /\ place \in [E -> DOMAIN queue]
      /\ \A i \in E : queue'[i] = queue[place[i]]
      /\ \A i, j \in E : i < j => place[i] < place[j]
    BY <1>1, <1>2, <1>3
<1>5. ASSUME NEW i \in DOMAIN queue, queue[i] \in inQueue \cap inQueue'
      PROVE  \E j \in E : place[j] = i
    <2>1. i \notin 1..n
        BY <1>1, <1>5 DEF Served
    <2>2. i - n \in E /\ n + (i - n) = i
        BY <1>1, <1>2, <1>3, <2>1
    <2> QED BY <2>2
<1> HIDE DEF E, place
<1>6. E \in SUBSET DOMAIN queue' /\ \A j \in DOMAIN queue' : j \in E
    BY DEF E
<1> QED BY <1>4, <1>5, <1>6, OrderFollows

-----------------------------------------------------------------------------

(* The theorems *)

\* Whatever others do and whenever the deque is compacted, two players who go on
\* waiting never change places.
THEOREM FirstComeFirstServed == Spec => OrderKept
<1>1. Inv /\ Inv' /\ [Next]_vars => [OrderStays]_vars
    BY EnqueueOrder, RemoveOrder, DequeueOrder DEF Next
<1>2. Inv /\ Inv' /\ [Next]_vars => [\A p, q \in inQueue \cap inQueue' :
          Position(p) < Position(q) => Position(p)' < Position(q)']_vars
    BY <1>1 DEF OrderStays
<1> QED BY <1>2, Invariance, PTL DEF Spec, OrderKept

\* However often players join and leave the queue, the deque holds at most as
\* many stale entries as the limit of remove, or as there are players.
THEOREM StaleEntriesBounded == Spec => []StaleBounded
<1>1. Inv => StaleBounded
    BY DEF Inv
<1> QED BY <1>1, Invariance, PTL

\* enqueue, remove and dequeue do to the set of queued players what GameServer
\* takes them to do, and dequeue gives as many players as were asked for, or all,
\* each of them once; stale entries and compactions do not show.
THEOREM QueueIsASet == Spec => ImplementsSet
<1>1. Init => SetQ!Init
    BY DEF Init, SetQ!Init
<1>2. Inv /\ [Next]_vars => [SetQ!Next]_<<inQueue, taken>>
    <2> SUFFICES ASSUME Inv, [Next]_vars PROVE [SetQ!Next]_<<inQueue, taken>>
        OBVIOUS
    <2>1. CASE UNCHANGED vars
        BY <2>1 DEF vars
    <2>2. CASE \E p \in Players : Enqueue(p) \/ Remove(p)
        BY <2>2, EnqueueKeeps, RemoveKeeps DEF SetQ!Next
    <2>3. CASE \E count \in 1..Cardinality(Players) : Dequeue(count)
        BY <2>3, DequeueKeeps, SameOperators DEF SetQ!Next
    <2> QED BY <2>1, <2>2, <2>3 DEF Next
<1> QED BY <1>1, <1>2, Invariance, PTL DEF Spec, ImplementsSet, SetQ!Spec

=============================================================================
