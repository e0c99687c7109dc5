--------------------------- MODULE SteeringProofs ---------------------------
(***************************************************************************)
(* No window of time ever holds more admitted messages than the limit, and *)
(* nobody is refused below it, for every window, limit and set of players; *)
(* the snake follows the pointer, for every circle, threshold, turn rate,  *)
(* pause and delay; and a client that keeps its pauses is refused nothing  *)
(* while the limit has room for what they allow.                           *)
(***************************************************************************)
EXTENDS Steering, FiniteSetTheorems, TLAPS

(* The rate limiter *)

\* No timestamp lies in the future.
PastOnly == \A p \in Players : \A k \in DOMAIN admitted[p] : admitted[p][k] <= now

\* The bucket of an open connection has every message of the current window.
BucketComplete ==
    \A p \in open : \A k \in DOMAIN admitted[p] :
        admitted[p][k] > now - Window => k \in kept[p]

\* The bucket of a player never grows beyond the limit and goes with him.
BucketsSmall ==
    \A p \in Players :
        Cardinality(kept[p]) <= (IF p \in open THEN MaxMessages ELSE 0)

Inv == TypeOK /\ PastOnly /\ BucketComplete /\ BucketsSmall /\ WindowRespected

\* The messages of a player have numbers and instants, and finitely many.
LEMMA AdmittedFacts ==
    ASSUME TypeOK, NEW p \in Players
    PROVE  /\ Len(admitted[p]) \in Nat /\ DOMAIN admitted[p] = 1..Len(admitted[p])
           /\ \A k \in DOMAIN admitted[p] : admitted[p][k] \in Nat
           /\ IsFiniteSet(DOMAIN admitted[p])
           /\ IsFiniteSet(kept[p]) /\ Cardinality(kept[p]) \in Nat
           /\ IsFiniteSet(Unexpired(p)) /\ Cardinality(Unexpired(p)) \in Nat
           /\ Cardinality(Unexpired(p)) <= Cardinality(kept[p])
<1>1. Len(admitted[p]) \in Nat /\ DOMAIN admitted[p] = 1..Len(admitted[p])
    BY DEF TypeOK
<1>2. \A k \in DOMAIN admitted[p] : admitted[p][k] \in Nat
    BY DEF TypeOK
<1>3. IsFiniteSet(DOMAIN admitted[p])
    BY <1>1, FS_Interval
<1>4. kept[p] \subseteq DOMAIN admitted[p] /\ Unexpired(p) \subseteq kept[p]
    BY DEF TypeOK, Unexpired
<1>5. IsFiniteSet(kept[p]) /\ IsFiniteSet(Unexpired(p))
      /\ Cardinality(Unexpired(p)) <= Cardinality(kept[p])
    BY <1>3, <1>4, FS_Subset
<1> QED BY <1>1, <1>2, <1>3, <1>5, FS_CardinalityType

\* What a smaller set of messages counts.
LEMMA WindowFacts ==
    ASSUME TypeOK, NEW p \in Players, NEW t
    PROVE  /\ IsFiniteSet(InWindow(p, t)) /\ Cardinality(InWindow(p, t)) \in Nat
           /\ \A S \in SUBSET InWindow(p, t) :
                 IsFiniteSet(S) /\ Cardinality(S) <= Cardinality(InWindow(p, t))
<1>1. InWindow(p, t) \subseteq DOMAIN admitted[p]
    BY DEF InWindow
<1> QED BY <1>1, AdmittedFacts, FS_Subset, FS_CardinalityType

\* The current window of an open connection is what is left of its bucket.
LEMMA CurrentWindow ==
    ASSUME Inv, NEW p \in open
    PROVE  InWindow(p, now) = Unexpired(p)
<1>1. p \in Players /\ now \in Nat /\ Window \in Nat
    BY LimitAssumption DEF Inv, TypeOK
<1>2. \A k \in DOMAIN admitted[p] : admitted[p][k] \in Nat /\ admitted[p][k] <= now
    BY <1>1, AdmittedFacts DEF Inv, PastOnly
<1>3. kept[p] \subseteq DOMAIN admitted[p]
    BY <1>1 DEF Inv, TypeOK
<1>4. \A k \in DOMAIN admitted[p] : admitted[p][k] > now - Window => k \in kept[p]
    BY DEF Inv, BucketComplete
<1> QED BY <1>1, <1>2, <1>3, <1>4 DEF InWindow, Unexpired

LEMMA InitHolds == Init => Inv
<1> SUFFICES ASSUME Init PROVE Inv
    OBVIOUS
<1>1. TypeOK
    BY DEF Init, TypeOK
<1>2. \A p \in Players, t \in 0..now : InWindow(p, t) = {}
    BY DEF Init, InWindow
<1>3. Cardinality({}) = 0 /\ 0 <= MaxMessages
    BY LimitAssumption, FS_EmptySet
<1>4. WindowRespected
    BY <1>2, <1>3 DEF WindowRespected
<1>5. BucketsSmall
    BY <1>3 DEF Init, BucketsSmall
<1> QED BY <1>1, <1>4, <1>5 DEF Init, Inv, PastOnly, BucketComplete

LEMMA AdvanceKeeps ==
    ASSUME Inv, Advance
    PROVE  Inv'
<1> USE LimitAssumption DEF Inv
<1>1. now \in Nat /\ now' = now + 1 /\ UNCHANGED <<open, admitted, kept, refused>>
    BY DEF TypeOK, Advance
<1>2. TypeOK'
    BY <1>1 DEF TypeOK
<1>3. PastOnly'
    BY <1>1, AdmittedFacts DEF PastOnly
<1>4. BucketComplete'
    <2> SUFFICES ASSUME NEW p \in open, NEW k \in DOMAIN admitted[p],
                        admitted[p][k] > now + 1 - Window
                 PROVE  k \in kept[p]
        BY <1>1 DEF BucketComplete
    <2>1. p \in Players
        BY DEF TypeOK
    <2>2. admitted[p][k] \in Nat
        BY <2>1, AdmittedFacts
    <2>3. admitted[p][k] > now - Window
        BY <1>1, <2>2
    <2> QED BY <2>3 DEF BucketComplete
<1>5. BucketsSmall'
    BY <1>1 DEF BucketsSmall
<1>6. WindowRespected'
    <2> SUFFICES ASSUME NEW p \in Players, NEW t \in 0..now + 1
                 PROVE  Cardinality(InWindow(p, t)) <= MaxMessages
        BY <1>1 DEF WindowRespected, InWindow
    <2>1. CASE t \in 0..now
        BY <2>1 DEF WindowRespected
    <2>2. CASE t = now + 1
        <3>1. InWindow(p, t) \subseteq InWindow(p, now)
            <4>1. \A k \in DOMAIN admitted[p] : admitted[p][k] \in Nat /\ admitted[p][k] <= now
                BY AdmittedFacts DEF PastOnly
            <4> QED BY <1>1, <2>2, <4>1 DEF InWindow
        <3>2. Cardinality(InWindow(p, t)) <= Cardinality(InWindow(p, now))
            BY <3>1, WindowFacts
        <3>3. Cardinality(InWindow(p, now)) <= MaxMessages
            BY <1>1 DEF WindowRespected
        <3>4. Cardinality(InWindow(p, t)) \in Nat /\ Cardinality(InWindow(p, now)) \in Nat
            BY WindowFacts
        <3> QED BY <3>2, <3>3, <3>4
    <2> QED BY <1>1, <2>1, <2>2
<1> QED BY <1>2, <1>3, <1>4, <1>5, <1>6

LEMMA AdmitKeeps ==
    ASSUME Inv, NEW p \in Players, Admit(p)
    PROVE  Inv'
<1> USE LimitAssumption DEF Inv
<1> DEFINE n == Len(admitted[p])
<1>1. /\ p \in open /\ ~Full(p)
      /\ now \in Nat /\ now' = now /\ open' = open /\ refused' = refused
      /\ admitted' = [admitted EXCEPT ![p] = Append(@, now)]
      /\ kept' = [kept EXCEPT ![p] = Unexpired(p) \cup {n + 1}]
    BY DEF TypeOK, Admit, Newest
<1>2. /\ n \in Nat /\ DOMAIN admitted[p] = 1..n /\ DOMAIN admitted'[p] = 1..n + 1
      /\ admitted'[p][n + 1] = now
      /\ \A k \in 1..n : admitted'[p][k] = admitted[p][k]
      /\ admitted'[p] \in Seq(Nat)
    BY <1>1, AdmittedFacts DEF TypeOK
<1>3. \A q \in Players \ {p} : admitted'[q] = admitted[q] /\ kept'[q] = kept[q]
    BY <1>1 DEF TypeOK
<1>4. kept'[p] = Unexpired(p) \cup {n + 1}
    BY <1>1 DEF TypeOK
<1>5. Unexpired(p) \subseteq 1..n
    BY <1>2 DEF TypeOK, Unexpired
<1>6. TypeOK'
    <2>1. admitted' \in [Players -> Seq(Nat)]
        BY <1>1, <1>2, <1>3 DEF TypeOK
    <2>2. kept' \in [Players -> SUBSET Nat]
        BY <1>1, <1>2, <1>5 DEF TypeOK
    <2>3. \A q \in Players : kept'[q] \subseteq DOMAIN admitted'[q]
        <3>1. Unexpired(p) \cup {n + 1} \subseteq 1..n + 1
            BY <1>2, <1>5
        <3>2. kept'[p] \subseteq DOMAIN admitted'[p]
            BY <1>2, <1>4, <3>1
        <3>3. \A q \in Players \ {p} : kept'[q] \subseteq DOMAIN admitted'[q]
            BY <1>3 DEF TypeOK
        <3> QED BY <3>2, <3>3
    <2> QED BY <1>1, <2>1, <2>2, <2>3 DEF TypeOK
<1>7. PastOnly'
    BY <1>1, <1>2, <1>3 DEF PastOnly
<1>8. BucketComplete'
    <2> SUFFICES ASSUME NEW q \in open, NEW k \in DOMAIN admitted'[q],
                        admitted'[q][k] > now - Window
                 PROVE  k \in kept'[q]
        BY <1>1 DEF BucketComplete
    <2>1. CASE q # p
        BY <1>3, <2>1 DEF BucketComplete, TypeOK
    <2>2. CASE q = p
        <3>1. CASE k = n + 1
            BY <1>4, <2>2, <3>1
        <3>2. CASE k \in 1..n
            <4>1. k \in kept[p] /\ admitted[p][k] > now - Window
                BY <1>1, <1>2, <2>2, <3>2 DEF BucketComplete
            <4> QED BY <1>4, <2>2, <4>1 DEF Unexpired
        <3>3. k \in DOMAIN admitted'[p]
            BY <2>2
        <3>4. k = n + 1 \/ k \in 1..n
            BY <1>2, <3>3
        <3> QED BY <3>1, <3>2, <3>4
    <2> QED BY <2>1, <2>2
<1>9. /\ IsFiniteSet(Unexpired(p)) /\ Cardinality(Unexpired(p)) \in Nat
      /\ Cardinality(Unexpired(p)) + 1 <= MaxMessages
    BY <1>1, AdmittedFacts DEF Full
<1>10. Cardinality(Unexpired(p) \cup {n + 1}) <= MaxMessages
    <2>1. n + 1 \notin Unexpired(p)
        BY <1>2, <1>5
    <2>2. Cardinality(Unexpired(p) \cup {n + 1}) = Cardinality(Unexpired(p)) + 1
        BY <1>9, <2>1, FS_AddElement
    <2> QED BY <1>9, <2>2
<1>11. BucketsSmall'
    BY <1>1, <1>3, <1>4, <1>10 DEF BucketsSmall
<1>12. WindowRespected'
    <2> SUFFICES ASSUME NEW q \in Players, NEW t \in 0..now
                 PROVE  Cardinality(InWindow(q, t)') <= MaxMessages
        BY <1>1 DEF WindowRespected, InWindow
    <2>1. CASE q # p
        <3>1. InWindow(q, t)' = InWindow(q, t)
            BY <1>3, <2>1 DEF InWindow
        <3> QED BY <3>1 DEF WindowRespected
    <2>2. CASE q = p /\ t # now
        <3>1. InWindow(q, t)' = InWindow(q, t)
            BY <1>1, <1>2, <2>2 DEF InWindow
        <3> QED BY <3>1 DEF WindowRespected
    <2>3. CASE q = p /\ t = now
        <3>1. InWindow(q, t)' = Unexpired(p) \cup {n + 1}
            <4>1. InWindow(p, now) = Unexpired(p)
                BY <1>1, CurrentWindow
            <4>2. \A k : k \in DOMAIN admitted'[p] <=> k \in DOMAIN admitted[p] \/ k = n + 1
                BY <1>2
            <4>3. InWindow(q, t)' = InWindow(p, now) \cup {n + 1}
                BY <1>1, <1>2, <2>3, <4>2 DEF InWindow
            <4> QED BY <4>1, <4>3
        <3> QED BY <1>10, <3>1
    <2> QED BY <2>1, <2>2, <2>3
<1> QED BY <1>6, <1>7, <1>8, <1>11, <1>12

LEMMA RefuseKeeps ==
    ASSUME Inv, NEW p \in Players, Refuse(p)
    PROVE  Inv'
<1> USE LimitAssumption DEF Inv
<1>1. /\ p \in open /\ now \in Nat /\ UNCHANGED <<now, open, admitted>>
      /\ kept' = [kept EXCEPT ![p] = Unexpired(p)]
      /\ refused' = [refused EXCEPT ![p] = @ \cup {now}]
    BY DEF TypeOK, Refuse
<1>2. Unexpired(p) \subseteq kept[p]
    BY DEF Unexpired
<1>3. TypeOK'
    BY <1>1, <1>2 DEF TypeOK
<1>4. BucketComplete'
    BY <1>1 DEF BucketComplete, TypeOK, Unexpired
<1>5. BucketsSmall'
    <2>1. Cardinality(Unexpired(p)) <= MaxMessages
        BY <1>1, AdmittedFacts DEF BucketsSmall
    <2> QED BY <1>1, <2>1 DEF BucketsSmall, TypeOK
<1> QED BY <1>1, <1>3, <1>4, <1>5 DEF PastOnly, WindowRespected, InWindow

LEMMA RemoveKeeps ==
    ASSUME Inv, NEW p \in Players, Remove(p)
    PROVE  Inv'
<1> USE LimitAssumption DEF Inv
<1>1. /\ open' = open \ {p} /\ UNCHANGED <<now, admitted, refused>>
      /\ kept' = [kept EXCEPT ![p] = {}]
    BY DEF Remove
<1>2. TypeOK'
    BY <1>1 DEF TypeOK
<1>3. BucketComplete'
    BY <1>1 DEF BucketComplete, TypeOK
<1>4. BucketsSmall'
    BY <1>1, FS_EmptySet DEF BucketsSmall, TypeOK
<1> QED BY <1>1, <1>2, <1>3, <1>4 DEF PastOnly, WindowRespected, InWindow

LEMMA Invariance == Spec => []Inv
<1>1. Inv /\ [Next]_vars => Inv'
    <2> SUFFICES ASSUME Inv, [Next]_vars PROVE Inv'
        OBVIOUS
    <2>1. CASE UNCHANGED vars
        BY <2>1 DEF vars, Inv, TypeOK, PastOnly, BucketComplete, BucketsSmall,
                    WindowRespected, InWindow
    <2> QED BY <2>1, AdvanceKeeps, AdmitKeeps, RefuseKeeps, RemoveKeeps DEF Next
<1> QED BY InitHolds, <1>1, PTL DEF Spec

\* No window, wherever it lies, holds more than MaxMessages admitted messages of
\* one player.
THEOREM WindowBound == Spec => []WindowRespected
<1>1. Inv => WindowRespected
    BY DEF Inv
<1> QED BY Invariance, <1>1, PTL

\* A player is only refused when the window that ends now holds exactly
\* MaxMessages admitted messages of his.
THEOREM RefusalsJust == Spec => RefusedForCause
<1>1. ASSUME Inv, [Next]_vars, NEW p \in Players, refused'[p] # refused[p]
      PROVE  Cardinality(InWindow(p, now)) = MaxMessages
    <2>1. p \in open /\ Full(p)
        BY <1>1 DEF Next, Advance, Admit, Refuse, Remove, vars, Inv, TypeOK
    <2>2. Cardinality(InWindow(p, now)) >= MaxMessages
        BY <1>1, <2>1, CurrentWindow DEF Full
    <2>3. Cardinality(InWindow(p, now)) <= MaxMessages /\ Cardinality(InWindow(p, now)) \in Nat
        BY <1>1, WindowFacts DEF Inv, WindowRespected, TypeOK
    <2> QED BY <2>2, <2>3, LimitAssumption
<1>2. Inv /\ [Next]_vars =>
        [\A p \in Players :
            refused'[p] # refused[p] => Cardinality(InWindow(p, now)) = MaxMessages]_vars
    BY <1>1
<1> QED BY Invariance, <1>2, PTL DEF Spec, RefusedForCause

-----------------------------------------------------------------------------

(* Arithmetic *)

\* Division with remainder.
LEMMA Division ==
    ASSUME NEW x \in Int, NEW m \in Nat, m > 0
    PROVE  /\ x \div m \in Int /\ x % m \in 0..(m - 1)
           /\ x = (m * (x \div m)) + (x % m)
OBVIOUS

\* Division grows with what is divided, by one with every divisor added.
LEMMA Quotients ==
    ASSUME NEW m \in Nat, m > 0, NEW a \in Int, NEW b \in Int
    PROVE  /\ a \div m \in Int
           /\ a >= 0 => a \div m >= 0
           /\ a <= b => a \div m <= b \div m
           /\ a + m <= b => (a \div m) + 1 <= b \div m
<1> DEFINE q == a \div m   r == a % m
           s == b \div m   t == b % m
<1>1. /\ q \in Int /\ r \in 0..(m - 1) /\ a = (m * q) + r
      /\ s \in Int /\ t \in 0..(m - 1) /\ b = (m * s) + t
    BY Division
<1> HIDE DEF q, r, s, t
<1>2. ASSUME NEW c \in Int, c < 0
      PROVE  m * c \in Int /\ m * c <= -m
    BY <1>2
<1>3. a >= 0 => q >= 0
    BY <1>1, <1>2
<1>4. ASSUME a <= b PROVE q <= s
    <2> SUFFICES ASSUME s - q < 0 PROVE FALSE
        BY <1>1
    <2>1. m * (s - q) <= -m /\ m * (s - q) = (m * s) - (m * q)
        BY <1>1, <1>2
    <2>2. m * s \in Int /\ m * q \in Int
        BY <1>1
    <2> QED BY <1>1, <1>4, <2>1, <2>2
<1>5. ASSUME a + m <= b PROVE q + 1 <= s
    <2> SUFFICES ASSUME s - (q + 1) < 0 PROVE FALSE
        BY <1>1
    <2>1. m * (s - (q + 1)) <= -m /\ m * (s - (q + 1)) = (m * s) - (m * q) - m
        BY <1>1, <1>2
    <2>2. m * s \in Int /\ m * q \in Int
        BY <1>1
    <2> QED BY <1>1, <1>5, <2>1, <2>2
<1> QED BY <1>1, <1>3, <1>4, <1>5 DEF q, s

\* A unit of time makes at most one tick, and none unless it ends at one.
LEMMA NextTick ==
    ASSUME NEW x \in Int, NEW m \in Nat, m > 0
    PROVE  /\ (x + 1) \div m <= (x \div m) + 1
           /\ (x + 1) % m # 0 => (x + 1) \div m <= x \div m
<1> DEFINE q == x \div m   r == x % m
           s == (x + 1) \div m   t == (x + 1) % m
<1>1. /\ q \in Int /\ r \in 0..(m - 1) /\ x = (m * q) + r
      /\ s \in Int /\ t \in 0..(m - 1) /\ x + 1 = (m * s) + t
    BY Division
<1> HIDE DEF q, r, s, t
<1>2. ASSUME NEW c \in Int, c > 0
      PROVE  m * c \in Int /\ m * c >= m
    BY <1>2
<1>3. m * q \in Int /\ m * s \in Int
    BY <1>1
<1>4. ASSUME s > q + 1 PROVE FALSE
    <2>1. m * (s - (q + 1)) >= m /\ m * (s - (q + 1)) = (m * s) - (m * q) - m
        BY <1>1, <1>2, <1>4
    <2> QED BY <1>1, <1>3, <2>1
<1>5. ASSUME t # 0, s > q PROVE FALSE
    <2>1. m * (s - q) >= m /\ m * (s - q) = (m * s) - (m * q)
        BY <1>1, <1>2, <1>5
    <2> QED BY <1>1, <1>3, <1>5, <2>1
<1> QED BY <1>1, <1>4, <1>5 DEF q, s, t

\* So many ticks fit into the time that they take.
LEMMA TicksOf ==
    ASSUME NEW m \in Nat, m > 0, NEW a \in Int, NEW b \in Int, NEW k \in Nat, b - a >= k * m
    PROVE  (b \div m) - (a \div m) >= k
<1> DEFINE q == a \div m   r == a % m
           s == b \div m   t == b % m
<1>1. /\ q \in Int /\ r \in 0..(m - 1) /\ a = (m * q) + r
      /\ s \in Int /\ t \in 0..(m - 1) /\ b = (m * s) + t
    BY Division
<1> HIDE DEF q, r, s, t
<1>2. ASSUME NEW c \in Int, c > 0
      PROVE  m * c \in Int /\ m * c >= m
    BY <1>2
<1>3. m * q \in Int /\ m * s \in Int /\ k * m \in Int
    BY <1>1
<1>4. ASSUME s - q < k PROVE FALSE
    <2>1. m * (k - (s - q)) >= m /\ m * (k - (s - q)) = (k * m) - ((m * s) - (m * q))
        BY <1>1, <1>2, <1>4
    <2> QED BY <1>1, <1>3, <2>1
<1> QED BY <1>1, <1>4 DEF q, s

\* The remainder next to the range of remainders.
LEMMA Wrap ==
    ASSUME NEW x \in Int, NEW m \in Nat, m > 0
    PROVE  /\ x % m \in 0..(m - 1)
           /\ 0 <= x /\ x < m => x % m = x
           /\ m <= x /\ x < 2 * m => x % m = x - m
           /\ -m <= x /\ x < 0 => x % m = x + m
OBVIOUS

\* As many turns of MaxTurn as Settling counts go half around the circle.
LEMMA EnoughTurns ==
    /\ Turns \in Nat
    /\ \A n \in Int : n >= Turns => MaxTurn * n \in Int /\ MaxTurn * n >= Half
<1> DEFINE rest == (Half + MaxTurn - 1) % MaxTurn
<1>1. Half \in Nat /\ Half > 0 /\ MaxTurn \in Nat /\ MaxTurn > 0
    BY SteeringAssumption
<1>2. Turns \in Int /\ rest \in 0..(MaxTurn - 1) /\ Half + MaxTurn - 1 = (MaxTurn * Turns) + rest
    BY <1>1, Division DEF Turns
<1> HIDE DEF rest
<1>3. MaxTurn * Turns \in Int /\ MaxTurn * Turns >= Half
    BY <1>1, <1>2
<1>4. Turns > 0
    BY <1>1, <1>2, <1>3
<1>5. ASSUME NEW n \in Int, n >= Turns
      PROVE  MaxTurn * n \in Int /\ MaxTurn * n >= Half
    <2>1. MaxTurn * n \in Int /\ MaxTurn * n >= MaxTurn * Turns
        BY <1>1, <1>2, <1>5
    <2> QED BY <1>1, <1>3, <2>1
<1> QED BY <1>2, <1>4, <1>5

-----------------------------------------------------------------------------

(* Angles *)

\* A direction and a heading are at most half a circle apart.
LEMMA ApartBound ==
    ASSUME NEW a \in Angles, NEW h \in Headings
    PROVE  Apart(a, h) \in 0..Half
BY SteeringAssumption DEF Angles, Headings, Apart, Normalized

\* Whoever has turned all the way heads where he should, seen from anywhere.
LEMMA ApartAgree ==
    ASSUME NEW a \in Angles, NEW b \in Angles, NEW h \in Headings, Apart(b, h) = 0
    PROVE  Apart(a, h) = Apart(a, b)
<1>1. h = b \/ h = b + 2 * Half
    BY SteeringAssumption DEF Angles, Headings, Apart, Normalized
<1> QED BY <1>1, SteeringAssumption DEF Angles, Headings, Apart, Normalized

\* _turn: a turn ends in the direction or comes nearer to it by MaxTurn.
LEMMA Turning ==
    ASSUME target \in Angles, heading \in Headings
    PROVE  /\ Heading \in Headings
           /\ Apart(target, heading) <= MaxTurn => Apart(target, Heading) = 0
           /\ Apart(target, heading) > MaxTurn
                => Apart(target, Heading) = Apart(target, heading) - MaxTurn
<1>1. Half \in Nat /\ Half > 0 /\ MaxTurn \in Nat /\ MaxTurn > 0 /\ 2 * Half \in Nat
    BY SteeringAssumption
<1>2. target \in Int /\ heading \in Int /\ 1 - Half <= target /\ target <= Half
      /\ 0 <= heading /\ heading <= (2 * Half) - 1
    BY <1>1 DEF Angles, Headings
<1>3. CASE Apart(target, heading) <= MaxTurn
    <2>1. Heading = target % (2 * Half)
        BY <1>3 DEF Heading
    <2>2. Heading \in Headings /\ (Heading = target \/ Heading = target + 2 * Half)
        BY <1>1, <1>2, <2>1, Wrap DEF Headings
    <2> QED BY <1>1, <1>2, <1>3, <2>2 DEF Apart, Normalized
<1>4. CASE Apart(target, heading) > MaxTurn /\ Normalized(target - heading) > 0
    <2>1. Heading = (heading + MaxTurn) % (2 * Half)
        BY <1>1, <1>2, <1>4, ApartBound DEF Heading
    <2>2. MaxTurn < Half
        BY <1>1, <1>2, <1>4, ApartBound
    <2>3. Heading \in Headings
          /\ Heading = (IF heading + MaxTurn < 2 * Half
                        THEN heading + MaxTurn ELSE heading + MaxTurn - 2 * Half)
        BY <1>1, <1>2, <2>1, <2>2, Wrap DEF Headings
    <2> QED BY <1>1, <1>2, <1>4, <2>2, <2>3 DEF Apart, Normalized
<1>5. CASE Apart(target, heading) > MaxTurn /\ ~ (Normalized(target - heading) > 0)
    <2>1. Heading = (heading - MaxTurn) % (2 * Half)
        BY <1>1, <1>2, <1>5, ApartBound DEF Heading
    <2>2. MaxTurn < Half
        BY <1>1, <1>2, <1>5, ApartBound
    <2>3. Heading \in Headings
          /\ Heading = (IF heading - MaxTurn >= 0
                        THEN heading - MaxTurn ELSE heading - MaxTurn + 2 * Half)
        BY <1>1, <1>2, <2>1, <2>2, Wrap DEF Headings
    <2> QED BY <1>1, <1>2, <1>5, <2>2, <2>3 DEF Apart, Normalized
<1> QED BY <1>1, <1>2, <1>3, <1>4, <1>5, ApartBound

-----------------------------------------------------------------------------

(* Steering: the invariant *)

Messages == [type : {"input"}, direction : Angles, at : Nat] \cup [type : {"ping"}, at : Nat]

\* What the variables are; what is sent or refused lies in the past.
SteeringTypes ==
    /\ aim \in Angles /\ sentDir \in Angles
    /\ aimedAt \in 0..now /\ frameAt \in 0..now
    /\ sentAt \in Int /\ sentAt <= now
    /\ chan \in Seq(Messages)
    /\ heading \in Headings /\ target \in Angles \cup Headings
    /\ \A t \in refused[Me] : t <= now

\* The messages under way: in the order in which they were sent, none for longer
\* than the bound, no input later than the last one sent.
UnderWay ==
    \A i \in DOMAIN chan :
        /\ chan[i].at <= now /\ now - chan[i].at <= MaxDelay
        /\ chan[i].type = "input" => chan[i].at <= sentAt
        /\ \A j \in DOMAIN chan : i < j => chan[i].at <= chan[j].at

\* Of the inputs under way the last one has the direction sent last.
LastInput ==
    \A i \in DOMAIN chan :
        chan[i].type = "input" /\ (\A j \in DOMAIN chan : i < j => chan[j].type = "ping")
            => chan[i].direction = sentDir

\* The direction sent last has arrived and has not been refused.
Arrived ==
    /\ Me \in open /\ sentAt >= 0
    /\ \A t \in refused[Me] : t < sentAt
    /\ \A i \in DOMAIN chan : chan[i].type = "ping"

\* The ticks since the direction sent last came at the latest.
Ticked == (now \div TickTime) - ((sentAt + MaxDelay) \div TickTime)

\* The snake turns towards it from when it came at the latest.
Nearer(n) ==
    Apart(target, heading) = 0 \/ Apart(target, heading) + (MaxTurn * n) <= Half

OnTheTurn == Arrived => target = sentDir /\ Nearer(Ticked)

\* A direction far from the one sent last is sent by the first frame after it is
\* due.
SentWhenDue ==
    /\ now - frameAt <= FrameTime
    /\ Turned(aim) => frameAt - sentAt < Interval
    /\ sentAt > aimedAt => sentDir = aim
    /\ sentAt < aimedAt + Interval + FrameTime

SteeringInv == SteeringTypes /\ UnderWay /\ LastInput /\ OnTheTurn /\ SentWhenDue

-----------------------------------------------------------------------------

(* Steering: the lemmas *)

\* What the constants are.
LEMMA Sizes ==
    /\ Me \in Players
    /\ Half \in Nat /\ Half > 0 /\ Threshold \in Nat /\ Threshold > 0
    /\ MaxTurn \in Nat /\ MaxTurn > 0 /\ Interval \in Nat /\ Interval > 0
    /\ PingInterval \in Nat /\ PingInterval > 0 /\ MaxDelay \in Nat
    /\ TickTime \in Nat /\ TickTime > 0 /\ FrameTime \in Nat /\ FrameTime > 0
BY SteeringAssumption

\* The messages under way, one by one.
LEMMA ChanFacts ==
    ASSUME SteeringTypes
    PROVE  /\ Len(chan) \in Nat /\ DOMAIN chan = 1..Len(chan)
           /\ \A i \in DOMAIN chan :
                /\ chan[i].at \in Nat /\ chan[i].type \in {"input", "ping"}
                /\ chan[i].type = "input" => chan[i].direction \in Angles
<1>1. Len(chan) \in Nat /\ DOMAIN chan = 1..Len(chan)
    BY DEF SteeringTypes
<1>2. \A i \in DOMAIN chan : chan[i] \in Messages
    BY <1>1 DEF SteeringTypes
<1>3. \A m \in Messages : /\ m.at \in Nat /\ m.type \in {"input", "ping"}
                          /\ m.type = "input" => m.direction \in Angles
    BY DEF Messages
<1> QED BY <1>1, <1>2, <1>3

\* A message is sent: it comes behind the others.
LEMMA SendFacts ==
    ASSUME SteeringTypes, NEW m \in Messages, chan' = Append(chan, m)
    PROVE  /\ chan' \in Seq(Messages)
           /\ DOMAIN chan' = 1..(Len(chan) + 1) /\ chan'[Len(chan) + 1] = m
           /\ \A i \in DOMAIN chan : chan'[i] = chan[i]
BY ChanFacts DEF SteeringTypes

\* A message arrives: the others move up.
LEMMA ArrivalFacts ==
    ASSUME SteeringTypes, Arrive
    PROVE  /\ chan' \in Seq(Messages) /\ Len(chan) > 0 /\ Head(chan) = chan[1]
           /\ DOMAIN chan' = 1..(Len(chan) - 1)
           /\ \A i \in DOMAIN chan' : i + 1 \in DOMAIN chan /\ chan'[i] = chan[i + 1]
BY ChanFacts DEF SteeringTypes, Arrive

LEMMA SteeringStarts == SteeringInit => SteeringInv
<1> SUFFICES ASSUME SteeringInit PROVE SteeringInv
    OBVIOUS
<1>1. /\ now = 0 /\ refused[Me] = {} /\ aim = 0 /\ aimedAt = 0 /\ frameAt = 0
      /\ sentDir = 0 /\ sentAt = -Interval /\ chan = <<>>
      /\ heading \in Headings /\ target = heading
    BY Sizes DEF SteeringInit, Init
<1>2. 0 \in Angles /\ sentAt < 0
    BY <1>1, Sizes DEF Angles
<1>3. SteeringTypes
    BY <1>1, <1>2, Sizes DEF SteeringTypes
<1>4. UnderWay /\ LastInput
    BY <1>1 DEF UnderWay, LastInput
<1>5. OnTheTurn
    BY <1>1, <1>2, Sizes DEF OnTheTurn, Arrived
<1>6. SentWhenDue
    BY <1>1, <1>2, Sizes DEF SentWhenDue, Turned, Apart, Normalized
<1> QED BY <1>3, <1>4, <1>5, <1>6 DEF SteeringInv

\* One frame: the direction is sent or it is not.
LEMMA FrameKeeps ==
    ASSUME Inv, SteeringInv, NEW angle \in Angles, Frame(angle)
    PROVE  SteeringInv'
<1>1. /\ now \in Nat /\ Me \in open
      /\ frameAt' = now /\ aim' = angle
      /\ aimedAt' = (IF angle = aim THEN aimedAt ELSE now)
      /\ UNCHANGED <<now, open, refused, target, heading>>
    BY DEF Frame, vars, snakeVars, SteeringInv, SteeringTypes, Inv, TypeOK
<1>2. /\ aim \in Angles /\ sentDir \in Angles /\ aimedAt \in 0..now
      /\ sentAt \in Int /\ sentAt <= now
    BY DEF SteeringInv, SteeringTypes
<1>3. CASE ~ (Turned(angle) /\ Due)
    <2>1. UNCHANGED <<chan, sentDir, sentAt>>
        BY <1>3 DEF Frame
    <2>2. SteeringTypes' /\ UnderWay' /\ LastInput' /\ OnTheTurn'
        BY <1>1, <1>2, <2>1
        DEF SteeringInv, SteeringTypes, UnderWay, LastInput, OnTheTurn, Nearer, Ticked, Arrived
    <2>3. Turned(angle) => now - sentAt < Interval
        BY <1>1, <1>2, <1>3, Sizes DEF Due
    <2>4. SentWhenDue'
        <3>1. Turned(aim)' <=> Turned(angle)
            BY <1>1, <2>1 DEF Turned
        <3> QED BY <1>1, <1>2, <2>1, <2>3, <3>1, Sizes DEF SteeringInv, SentWhenDue
    <2> QED BY <2>2, <2>4 DEF SteeringInv
<1>4. CASE Turned(angle) /\ Due
    <2> DEFINE m == Input(angle)
               n == Len(chan) + 1
    <2>1. chan' = Append(chan, m) /\ sentDir' = angle /\ sentAt' = now
        BY <1>4 DEF Frame
    <2>2. m \in Messages /\ m.type = "input" /\ m.direction = angle /\ m.at = now
        BY <1>1 DEF Input, Messages
    <2> HIDE DEF m
    <2>3. /\ chan' \in Seq(Messages) /\ DOMAIN chan' = 1..n /\ chan'[n] = m
          /\ \A i \in DOMAIN chan : chan'[i] = chan[i]
        BY <2>1, <2>2, SendFacts DEF SteeringInv
    <2>4. /\ Len(chan) \in Nat /\ DOMAIN chan = 1..Len(chan)
          /\ \A i \in DOMAIN chan : chan[i].at \in Nat
        BY ChanFacts DEF SteeringInv
    <2> HIDE DEF n
    <2>5. \A i \in DOMAIN chan' : i = n \/ (i \in DOMAIN chan /\ i < n)
        BY <2>3, <2>4 DEF n
    <2>6. n \in DOMAIN chan' /\ n \in Nat
        BY <2>3, <2>4 DEF n
    <2>7. SteeringTypes'
        BY <1>1, <1>2, <2>1, <2>3 DEF SteeringInv, SteeringTypes
    <2>8. UnderWay'
        <3> SUFFICES ASSUME NEW i \in DOMAIN chan'
                     PROVE  /\ chan'[i].at <= now /\ now - chan'[i].at <= MaxDelay
                            /\ chan'[i].at <= now
                            /\ \A j \in DOMAIN chan' : i < j => chan'[i].at <= chan'[j].at
            BY <1>1, <2>1 DEF UnderWay
        <3>1. CASE i = n
            <4>1. \A j \in DOMAIN chan' : ~ (i < j)
                BY <2>3, <2>4, <3>1 DEF n
            <4> QED BY <1>1, <2>2, <2>3, <3>1, <4>1, Sizes
        <3>2. CASE i \in DOMAIN chan
            <4>1. chan'[i] = chan[i] /\ chan[i].at <= now /\ now - chan[i].at <= MaxDelay
                BY <2>3, <3>2 DEF SteeringInv, UnderWay
            <4>2. \A j \in DOMAIN chan : i < j => chan'[i].at <= chan'[j].at
                BY <2>3, <3>2 DEF SteeringInv, UnderWay
            <4>3. chan'[i].at <= chan'[n].at
                BY <2>2, <2>3, <4>1
            <4> QED BY <2>5, <4>1, <4>2, <4>3
        <3> QED BY <2>5, <3>1, <3>2
    <2>9. LastInput'
        <3> SUFFICES ASSUME NEW i \in DOMAIN chan', chan'[i].type = "input",
                            \A j \in DOMAIN chan' : i < j => chan'[j].type = "ping"
                     PROVE  chan'[i].direction = angle
            BY <2>1 DEF LastInput
        <3>1. i = n
            BY <2>2, <2>3, <2>5, <2>6
        <3> QED BY <2>2, <2>3, <3>1
    <2>10. OnTheTurn'
        <3>1. chan'[n].type # "ping"
            BY <2>2, <2>3
        <3> QED BY <2>6, <3>1 DEF OnTheTurn, Arrived
    <2>11. SentWhenDue'
        <3>1. ~ Turned(aim)'
            BY <1>1, <1>2, <2>1, Sizes DEF Turned, Apart, Normalized, Angles
        <3>2. sentAt' > aimedAt' => sentDir' = aim'
            BY <1>1, <2>1
        <3>3. sentAt' < aimedAt' + Interval + FrameTime
            <4>1. CASE angle # aim
                BY <1>1, <2>1, <4>1, Sizes
            <4>2. CASE angle = aim
                <5>1. frameAt \in Nat /\ frameAt - sentAt < Interval /\ now - frameAt <= FrameTime
                    BY <1>4, <4>2 DEF SteeringInv, SteeringTypes, SentWhenDue
                <5>2. ~ (sentAt > aimedAt)
                    <6>1. ASSUME sentDir = aim PROVE FALSE
                        BY <1>2, <1>4, <4>2, <6>1, Sizes DEF Turned, Apart, Normalized, Angles
                    <6> QED BY <6>1 DEF SteeringInv, SentWhenDue
                <5> QED BY <1>1, <1>2, <2>1, <4>2, <5>1, <5>2, Sizes
            <4> QED BY <4>1, <4>2
        <3>4. now' - frameAt' <= FrameTime
            BY <1>1, Sizes
        <3> QED BY <3>1, <3>2, <3>3, <3>4 DEF SentWhenDue
    <2> QED BY <2>7, <2>8, <2>9, <2>10, <2>11 DEF SteeringInv
<1> QED BY <1>3, <1>4

\* A ping goes behind the inputs and is none.
LEMMA PingKeeps ==
    ASSUME Inv, SteeringInv, Ping
    PROVE  SteeringInv'
<1> DEFINE m == [type |-> "ping", at |-> now]
           n == Len(chan) + 1
<1>1. /\ now \in Nat /\ chan' = Append(chan, m)
      /\ UNCHANGED <<now, open, refused, aim, aimedAt, frameAt, sentDir, sentAt, target, heading>>
    BY DEF Ping, vars, snakeVars, Inv, TypeOK
<1>2. m \in Messages /\ m.type = "ping" /\ m.at = now
    BY <1>1 DEF Messages
<1> HIDE DEF m
<1>3. /\ chan' \in Seq(Messages) /\ DOMAIN chan' = 1..n /\ chan'[n] = m
      /\ \A i \in DOMAIN chan : chan'[i] = chan[i]
    BY <1>1, <1>2, SendFacts DEF SteeringInv
<1>4. /\ Len(chan) \in Nat /\ DOMAIN chan = 1..Len(chan)
      /\ \A i \in DOMAIN chan : chan[i].at \in Nat
    BY ChanFacts DEF SteeringInv
<1> HIDE DEF n
<1>5. \A i \in DOMAIN chan' : i = n \/ (i \in DOMAIN chan /\ i < n)
    BY <1>3, <1>4 DEF n
<1>6. DOMAIN chan \subseteq DOMAIN chan'
    BY <1>3, <1>4 DEF n
<1>7. SteeringTypes'
    BY <1>1, <1>3 DEF SteeringInv, SteeringTypes
<1>8. UnderWay'
    <2> SUFFICES ASSUME NEW i \in DOMAIN chan'
                 PROVE  /\ chan'[i].at <= now /\ now - chan'[i].at <= MaxDelay
                        /\ chan'[i].type = "input" => chan'[i].at <= sentAt
                        /\ \A j \in DOMAIN chan' : i < j => chan'[i].at <= chan'[j].at
        BY <1>1 DEF UnderWay
    <2>1. CASE i = n
        <3>1. \A j \in DOMAIN chan' : ~ (i < j)
            BY <1>3, <1>4, <2>1 DEF n
        <3> QED BY <1>1, <1>2, <1>3, <2>1, <3>1, Sizes
    <2>2. CASE i \in DOMAIN chan
        <3>1. /\ chan'[i] = chan[i] /\ chan[i].at <= now /\ now - chan[i].at <= MaxDelay
              /\ chan[i].type = "input" => chan[i].at <= sentAt
            BY <1>3, <2>2 DEF SteeringInv, UnderWay
        <3>2. \A j \in DOMAIN chan : i < j => chan'[i].at <= chan'[j].at
            BY <1>3, <2>2 DEF SteeringInv, UnderWay
        <3>3. chan'[i].at <= chan'[n].at
            BY <1>2, <1>3, <3>1
        <3> QED BY <1>5, <3>1, <3>2, <3>3
    <2> QED BY <1>5, <2>1, <2>2
<1>9. LastInput'
    <2> SUFFICES ASSUME NEW i \in DOMAIN chan', chan'[i].type = "input",
                        \A j \in DOMAIN chan' : i < j => chan'[j].type = "ping"
                 PROVE  chan'[i].direction = sentDir
        BY <1>1 DEF LastInput
    <2>1. i \in DOMAIN chan /\ chan[i].type = "input"
        BY <1>2, <1>3, <1>5
    <2>2. \A j \in DOMAIN chan : i < j => chan[j].type = "ping"
        BY <1>3, <1>6
    <2> QED BY <1>3, <2>1, <2>2 DEF SteeringInv, LastInput
<1>10. OnTheTurn'
    <2>1. Arrived' => Arrived
        BY <1>1, <1>3, <1>6 DEF Arrived
    <2> QED BY <1>1, <2>1 DEF SteeringInv, OnTheTurn, Nearer, Ticked
<1>11. SentWhenDue'
    BY <1>1 DEF SteeringInv, SentWhenDue, Turned
<1> QED BY <1>7, <1>8, <1>9, <1>10, <1>11 DEF SteeringInv

\* What arrives leaves the others in order.
LEMMA ArrivalKeeps ==
    ASSUME Inv, SteeringInv, Arrive, UNCHANGED now
    PROVE  /\ chan' \in Seq(Messages) /\ UnderWay' /\ LastInput' /\ SentWhenDue'
           /\ UNCHANGED <<aim, aimedAt, frameAt, sentDir, sentAt, heading>>
<1>1. UNCHANGED <<aim, aimedAt, frameAt, sentDir, sentAt, heading>>
    BY DEF Arrive, clientVars
<1>2. /\ chan' \in Seq(Messages) /\ DOMAIN chan' = 1..(Len(chan) - 1)
      /\ \A i \in DOMAIN chan' : i + 1 \in DOMAIN chan /\ chan'[i] = chan[i + 1]
    BY ArrivalFacts DEF SteeringInv
<1>3. Len(chan) \in Nat /\ DOMAIN chan = 1..Len(chan)
    BY ChanFacts DEF SteeringInv
<1>4. UnderWay'
    <2> SUFFICES ASSUME NEW i \in DOMAIN chan'
                 PROVE  /\ chan'[i].at <= now /\ now - chan'[i].at <= MaxDelay
                        /\ chan'[i].type = "input" => chan'[i].at <= sentAt
                        /\ \A j \in DOMAIN chan' : i < j => chan'[i].at <= chan'[j].at
        BY <1>1 DEF UnderWay
    <2>1. \A j \in DOMAIN chan' : i < j => i + 1 < j + 1
        BY <1>2, <1>3
    <2> QED BY <1>2, <2>1 DEF SteeringInv, UnderWay
<1>5. LastInput'
    <2> SUFFICES ASSUME NEW i \in DOMAIN chan', chan'[i].type = "input",
                        \A j \in DOMAIN chan' : i < j => chan'[j].type = "ping"
                 PROVE  chan'[i].direction = sentDir
        BY <1>1 DEF LastInput
    <2>1. ASSUME NEW j \in DOMAIN chan, i + 1 < j
          PROVE  chan[j].type = "ping"
        <3>1. j - 1 \in DOMAIN chan' /\ i < j - 1 /\ (j - 1) + 1 = j
            BY <1>2, <1>3, <2>1
        <3> QED BY <1>2, <3>1
    <2> QED BY <1>2, <2>1 DEF SteeringInv, LastInput
<1>6. SentWhenDue'
    BY <1>1 DEF SteeringInv, SentWhenDue, Turned
<1> QED BY <1>1, <1>2, <1>4, <1>5, <1>6

\* route lets a message through.
LEMMA AcceptKeeps ==
    ASSUME Inv, SteeringInv, Accept
    PROVE  SteeringInv'
<1> DEFINE m == Head(chan)
<1>1. /\ Arrive /\ UNCHANGED <<now, open, refused>>
      /\ m.type = "input" => target' = m.direction
      /\ m.type # "input" => target' = target
    BY DEF Accept, Admit, ReceiveInput
<1>2. /\ chan' \in Seq(Messages) /\ UnderWay' /\ LastInput' /\ SentWhenDue'
      /\ UNCHANGED <<aim, aimedAt, frameAt, sentDir, sentAt, heading>>
    BY <1>1, ArrivalKeeps
<1>3. /\ Len(chan) \in Nat /\ Len(chan) > 0 /\ DOMAIN chan = 1..Len(chan) /\ m = chan[1]
      /\ DOMAIN chan' = 1..(Len(chan) - 1)
      /\ \A i \in DOMAIN chan' : chan'[i] = chan[i + 1]
    BY <1>1, ChanFacts, ArrivalFacts DEF SteeringInv
<1>4. /\ 1 \in DOMAIN chan /\ m.at \in Nat /\ m.type \in {"input", "ping"}
      /\ m.type = "input" => m.direction \in Angles
    BY <1>3, ChanFacts DEF SteeringInv
<1> HIDE DEF m
<1>5. ASSUME Arrived' PROVE \A j \in DOMAIN chan : 1 < j => chan[j].type = "ping"
    <2> SUFFICES ASSUME NEW j \in DOMAIN chan, 1 < j PROVE chan[j].type = "ping"
        OBVIOUS
    <2>1. j - 1 \in DOMAIN chan' /\ (j - 1) + 1 = j
        BY <1>3
    <2> QED BY <1>3, <1>5, <2>1 DEF Arrived
<1>6. SteeringTypes'
    BY <1>1, <1>2, <1>4 DEF SteeringInv, SteeringTypes
<1>7. OnTheTurn'
    <2> SUFFICES ASSUME Arrived' PROVE target' = sentDir /\ Nearer(Ticked)'
        BY <1>1, <1>2 DEF OnTheTurn
    <2>1. CASE m.type = "input"
        <3>1. target' = sentDir /\ sentDir \in Angles /\ heading \in Headings
            BY <1>1, <1>3, <1>4, <1>5, <2>1 DEF SteeringInv, LastInput, SteeringTypes
        <3>2. now <= sentAt + MaxDelay /\ sentAt \in Int /\ now \in Nat
            <4>1. m.at <= sentAt /\ now - m.at <= MaxDelay
                BY <1>3, <1>4, <2>1 DEF SteeringInv, UnderWay
            <4>2. sentAt \in Int /\ now \in Nat
                BY DEF SteeringInv, SteeringTypes, Inv, TypeOK
            <4> QED BY <1>4, <4>1, <4>2, Sizes
        <3> DEFINE n == Ticked
                   k == MaxTurn * n
                   d == Apart(sentDir, heading)
        <3>3. d \in 0..Half
            BY <3>1, ApartBound
        <3>4. n \in Int /\ n <= 0
            <4>1. /\ now \div TickTime \in Int /\ (sentAt + MaxDelay) \div TickTime \in Int
                  /\ now \div TickTime <= (sentAt + MaxDelay) \div TickTime
                BY <3>2, Sizes, Quotients
            <4> QED BY <4>1 DEF Ticked
        <3> HIDE DEF n
        <3>5. k \in Int /\ k <= 0
            BY <3>4, Sizes
        <3> HIDE DEF k, d
        <3>6. d + k <= Half
            BY <3>3, <3>5, Sizes
        <3> USE DEF n, k, d
        <3>7. Ticked' = Ticked
            BY <1>1, <1>2 DEF Ticked
        <3> QED BY <1>1, <1>2, <3>1, <3>6, <3>7 DEF Nearer
    <2>2. CASE m.type = "ping"
        <3>1. \A j \in DOMAIN chan : chan[j].type = "ping"
            BY <1>3, <1>5, <2>2
        <3>2. Arrived
            BY <1>1, <1>2, <3>1 DEF Arrived
        <3> QED BY <1>1, <1>2, <2>2, <3>2 DEF SteeringInv, OnTheTurn, Nearer, Ticked
    <2> QED BY <1>4, <2>1, <2>2
<1> QED BY <1>2, <1>6, <1>7 DEF SteeringInv

\* route drops a message: no input counts as arrived until another is sent.
LEMMA DropKeeps ==
    ASSUME Inv, SteeringInv, Drop
    PROVE  SteeringInv'
<1>1. Arrive /\ UNCHANGED <<now, open, target>> /\ now \in Nat
    BY DEF Drop, Refuse, Inv, TypeOK
<1>2. refused'[Me] = refused[Me] \cup {now}
    BY Sizes DEF Drop, Refuse, Inv, TypeOK
<1>3. /\ chan' \in Seq(Messages) /\ UnderWay' /\ LastInput' /\ SentWhenDue'
      /\ UNCHANGED <<aim, aimedAt, frameAt, sentDir, sentAt, heading>>
    BY <1>1, ArrivalKeeps
<1>4. SteeringTypes'
    BY <1>1, <1>2, <1>3 DEF SteeringInv, SteeringTypes
<1>5. ~ Arrived'
    <2>1. sentAt' = sentAt /\ sentAt \in Int /\ sentAt <= now
        BY <1>3 DEF SteeringInv, SteeringTypes
    <2>2. now \in refused'[Me] /\ ~ (now < sentAt')
        BY <1>1, <1>2, <2>1
    <2> QED BY <2>2 DEF Arrived
<1> QED BY <1>3, <1>4, <1>5 DEF SteeringInv, OnTheTurn

\* Time passes: the snake turns in a tick, and what is under way grows older.
LEMMA PassKeeps ==
    ASSUME Inv, SteeringInv, Pass
    PROVE  SteeringInv'
<1>1. /\ now \in Nat /\ now' = now + 1 /\ Me \in open /\ now - frameAt < FrameTime
      /\ heading' = (IF (now + 1) % TickTime = 0 THEN Heading ELSE heading)
      /\ UNCHANGED <<open, refused, aim, aimedAt, frameAt, sentDir, sentAt, chan, target>>
      /\ chan # <<>> => now - Head(chan).at < MaxDelay
    BY DEF Pass, Advance, clientVars, Inv, TypeOK
<1>2. /\ aim \in Angles /\ sentDir \in Angles /\ aimedAt \in 0..now /\ heading \in Headings
      /\ frameAt \in 0..now
      /\ sentAt \in Int /\ sentAt <= now
      /\ target \in Angles \cup Headings
      /\ \A t \in refused[Me] : t <= now
    BY DEF SteeringInv, SteeringTypes
<1>3. Heading \in Headings
    <2>1. /\ target \in Int /\ heading \in Int /\ MaxTurn \in Nat
          /\ 2 * Half \in Nat /\ 2 * Half > 0
        BY <1>2, Sizes DEF Angles, Headings
    <2> DEFINE turned == IF Apart(target, heading) <= MaxTurn THEN target
                         ELSE IF Normalized(target - heading) > 0
                              THEN heading + MaxTurn ELSE heading - MaxTurn
    <2>2. turned \in Int
        BY <2>1
    <2>3. Heading = turned % (2 * Half)
        BY DEF Heading
    <2> HIDE DEF turned
    <2> QED BY <2>1, <2>2, <2>3, Wrap DEF Headings
<1>4. SteeringTypes'
    <2>1. \A t \in refused'[Me] : t <= now'
        <3>1. \A t \in refused[Me] : t \in Nat
            BY Sizes DEF Inv, TypeOK
        <3> QED BY <1>1, <1>2, <3>1
    <2> QED BY <1>1, <1>2, <1>3, <2>1 DEF SteeringInv, SteeringTypes
<1>5. UnderWay'
    <2>0. \A i \in DOMAIN chan :
              /\ chan[i].type = "input" => chan[i].at <= sentAt
              /\ \A j \in DOMAIN chan : i < j => chan[i].at <= chan[j].at
        BY DEF SteeringInv, UnderWay
    <2> SUFFICES ASSUME NEW i \in DOMAIN chan
                 PROVE  chan[i].at <= now' /\ now' - chan[i].at <= MaxDelay
        BY <1>1, <2>0 DEF UnderWay
    <2>1. /\ Len(chan) \in Nat /\ DOMAIN chan = 1..Len(chan)
          /\ \A j \in DOMAIN chan : chan[j].at \in Nat
        BY ChanFacts DEF SteeringInv
    <2>2. 1 \in DOMAIN chan /\ chan # <<>> /\ Head(chan) = chan[1]
        BY <2>1 DEF SteeringInv, SteeringTypes
    <2>3. chan[1].at <= chan[i].at
        BY <2>1, <2>2 DEF SteeringInv, UnderWay
    <2>4. chan[i].at <= now
        BY DEF SteeringInv, UnderWay
    <2>5. PICK first \in Nat, sent \in Nat : first = chan[1].at /\ sent = chan[i].at
        BY <2>1, <2>2
    <2>6. sent <= now /\ first <= sent /\ now - first < MaxDelay
        BY <1>1, <2>2, <2>3, <2>4, <2>5
    <2>7. sent <= now + 1 /\ (now + 1) - sent <= MaxDelay
        BY <1>1, <2>6, Sizes
    <2> QED BY <1>1, <2>5, <2>7
<1>6. LastInput'
    BY <1>1 DEF SteeringInv, LastInput
<1>7. OnTheTurn'
    <2> SUFFICES ASSUME Arrived' PROVE target = sentDir /\ Nearer(Ticked)'
        BY <1>1 DEF OnTheTurn
    <2>1. Arrived
        BY <1>1 DEF Arrived
    <2>2. target = sentDir /\ Nearer(Ticked)
        BY <2>1 DEF SteeringInv, OnTheTurn
    <2> DEFINE n == Ticked
               k == Ticked'
               d == Apart(target, heading)
               e == Apart(target, Heading)
               f == Apart(target, heading')
    <2>3. d \in 0..Half
        BY <1>2, <2>2, ApartBound
    <2>4. (d <= MaxTurn => e = 0) /\ (d > MaxTurn => e = d - MaxTurn)
        BY <1>2, <2>2, Turning
    <2>5. d = 0 \/ d + (MaxTurn * n) <= Half
        BY <2>2 DEF Nearer
    <2>6. /\ n \in Int /\ k \in Int /\ k <= n + 1
          /\ f = e \/ (f = d /\ k <= n)
        <3>1. /\ now \div TickTime \in Int /\ (now + 1) \div TickTime \in Int
              /\ (sentAt + MaxDelay) \div TickTime \in Int
            BY <1>1, <1>2, Sizes, Quotients
        <3>2. /\ (now + 1) \div TickTime <= (now \div TickTime) + 1
              /\ (now + 1) % TickTime # 0 => (now + 1) \div TickTime <= now \div TickTime
            BY <1>1, Sizes, NextTick
        <3>3. k = ((now + 1) \div TickTime) - ((sentAt + MaxDelay) \div TickTime)
            BY <1>1 DEF Ticked
        <3>4. n = (now \div TickTime) - ((sentAt + MaxDelay) \div TickTime)
            BY DEF Ticked
        <3> HIDE DEF n, k
        <3>5. n \in Int /\ k \in Int /\ k <= n + 1 /\ ((now + 1) % TickTime # 0 => k <= n)
            BY <3>1, <3>2, <3>3, <3>4
        <3>6. CASE (now + 1) % TickTime = 0
            BY <1>1, <3>5, <3>6
        <3>7. CASE (now + 1) % TickTime # 0
            BY <1>1, <3>5, <3>7
        <3> QED BY <3>6, <3>7
    <2> HIDE DEF n, k, d, e, f
    <2>7. /\ MaxTurn * (n + 1) = (MaxTurn * n) + MaxTurn /\ MaxTurn * n \in Int
          /\ MaxTurn * k \in Int /\ MaxTurn * k <= MaxTurn * (n + 1)
          /\ k <= n => MaxTurn * k <= MaxTurn * n
        BY <2>6, Sizes
    <2>8. f = 0 \/ f + (MaxTurn * k) <= Half
        BY <2>3, <2>4, <2>5, <2>6, <2>7, Sizes
    <2> USE DEF f, k
    <2> QED BY <1>1, <2>2, <2>8 DEF Nearer
<1>8. SentWhenDue'
    <2>1. Turned(aim)' <=> Turned(aim)
        BY <1>1 DEF Turned
    <2> QED BY <1>1, <1>2, <2>1, Sizes DEF SteeringInv, SentWhenDue
<1> QED BY <1>4, <1>5, <1>6, <1>7, <1>8 DEF SteeringInv

\* The connection ends, and the snake with it.
LEMMA DisconnectKeeps ==
    ASSUME Inv, SteeringInv, Disconnect
    PROVE  SteeringInv'
<1>1. /\ Me \notin open' /\ chan' = <<>>
      /\ UNCHANGED <<now, refused, aim, aimedAt, frameAt, sentDir, sentAt, target, heading>>
    BY DEF Disconnect, Remove, clientVars, snakeVars
<1> QED BY <1>1 DEF SteeringInv, SteeringTypes, UnderWay, LastInput, OnTheTurn, Arrived,
                    SentWhenDue, Turned

-----------------------------------------------------------------------------

(* Steering: the theorems *)

\* What a step is to the rate limiter.
LEMMA LimiterStep == [SteeringNext]_steeringVars => [Next]_vars
<1> SUFFICES ASSUME [SteeringNext]_steeringVars PROVE [Next]_vars
    OBVIOUS
<1>1. Me \in Players
    BY Sizes
<1>2. CASE Ping \/ \E angle \in Angles : Frame(angle)
    BY <1>2 DEF Ping, Frame
<1>3. CASE Accept
    BY <1>1, <1>3 DEF Accept, Next
<1>4. CASE Drop
    BY <1>1, <1>4 DEF Drop, Next
<1>5. CASE Pass
    BY <1>5 DEF Pass, Next
<1>6. CASE Disconnect
    BY <1>1, <1>6 DEF Disconnect, Next
<1>7. CASE UNCHANGED steeringVars
    BY <1>7 DEF steeringVars
<1> QED BY <1>2, <1>3, <1>4, <1>5, <1>6, <1>7 DEF SteeringNext

\* The connection with its client is a rate limiter: it implements Spec, so that
\* what holds of the limiter holds here.
THEOREM SteeringIsLimited == SteeringSpec => Spec
<1>1. SteeringInit => Init
    BY DEF SteeringInit
<1> QED BY <1>1, LimiterStep, PTL DEF SteeringSpec, Spec

LEMMA SteeringInvariance == SteeringSpec => [](Inv /\ SteeringInv)
<1>1. Inv /\ SteeringInv /\ [SteeringNext]_steeringVars => SteeringInv'
    <2> SUFFICES ASSUME Inv, SteeringInv, [SteeringNext]_steeringVars PROVE SteeringInv'
        OBVIOUS
    <2>1. CASE UNCHANGED steeringVars
        BY <2>1 DEF steeringVars, vars, clientVars, snakeVars, SteeringInv, SteeringTypes,
                    UnderWay, LastInput, OnTheTurn, Arrived, Nearer, Ticked, SentWhenDue, Turned
    <2> QED BY <2>1, FrameKeeps, PingKeeps, AcceptKeeps, DropKeeps, PassKeeps, DisconnectKeeps
            DEF SteeringNext
<1> QED BY <1>1, SteeringStarts, SteeringIsLimited, Invariance, PTL DEF SteeringSpec

\* Once the pointer has rested for the time Settling the snake heads where the
\* client draws it, up to the threshold, whatever was under way, dropped or turned
\* to before, provided that an input was sent and none refused since.
THEOREM SnakeFollowsPointer == SteeringSpec => []SteeringFollows
<1>1. ASSUME Inv, SteeringInv PROVE SteeringFollows
    <2> SUFFICES ASSUME Me \in open, now - aimedAt >= Settling, sentAt >= 0,
                        \A t \in refused[Me] : t < sentAt
                 PROVE  Apart(aim, heading) < Threshold
        BY DEF SteeringFollows, Drawn
    <2>1. /\ now \in Nat /\ aimedAt \in Nat /\ sentAt \in Int /\ heading \in Headings
          /\ aim \in Angles /\ sentDir \in Angles
        BY <1>1 DEF Inv, TypeOK, SteeringInv, SteeringTypes
    <2> DEFINE c == Turns * TickTime
               n == Ticked
    <2>2. Turns \in Nat /\ c \in Nat
        BY EnoughTurns, Sizes
    <2>3. now - aimedAt >= Interval + FrameTime + MaxDelay + c
        BY DEF Settling
    <2> HIDE DEF c
    <2>4. /\ sentAt < aimedAt + Interval + FrameTime /\ (sentAt > aimedAt => sentDir = aim)
          /\ Turned(aim) => now - sentAt < Interval + FrameTime
        <3>1. frameAt \in Nat /\ now - frameAt <= FrameTime /\ (Turned(aim) => frameAt - sentAt < Interval)
            BY <1>1 DEF SteeringInv, SteeringTypes, SentWhenDue
        <3>2. Turned(aim) => now - sentAt < Interval + FrameTime
            BY <2>1, <3>1, Sizes
        <3> QED BY <1>1, <3>2 DEF SteeringInv, SentWhenDue
    <2>5. now - (sentAt + MaxDelay) > c
        BY <2>1, <2>2, <2>3, <2>4, Sizes
    <2>6. n \in Int /\ n >= Turns
        <3>1. (now \div TickTime) - ((sentAt + MaxDelay) \div TickTime) >= Turns
            <4>1. now - (sentAt + MaxDelay) >= Turns * TickTime
                BY <2>1, <2>2, <2>5, Sizes DEF c
            <4> QED BY <2>1, <2>2, <4>1, Sizes, TicksOf
        <3>2. now \div TickTime \in Int /\ (sentAt + MaxDelay) \div TickTime \in Int
            BY <2>1, Sizes, Quotients
        <3> QED BY <3>1, <3>2 DEF Ticked
    <2>7. ~ Turned(aim)
        <3> SUFFICES ASSUME Turned(aim) PROVE FALSE
            OBVIOUS
        <3>1. sentAt > aimedAt
            BY <2>1, <2>2, <2>3, <2>4, Sizes
        <3> QED BY <2>1, <2>4, <3>1, Sizes DEF Turned, Apart, Normalized, Angles
    <2>8. \A i \in DOMAIN chan : chan[i].type = "ping"
        <3> SUFFICES ASSUME NEW i \in DOMAIN chan, chan[i].type = "input" PROVE FALSE
            BY <1>1, ChanFacts DEF SteeringInv
        <3>1. chan[i].at \in Nat /\ chan[i].at <= sentAt /\ now - chan[i].at <= MaxDelay
            BY <1>1, ChanFacts DEF SteeringInv, UnderWay
        <3> QED BY <2>1, <2>2, <2>5, <3>1, Sizes
    <2>9. target = sentDir /\ Nearer(n)
        BY <1>1, <2>8 DEF SteeringInv, OnTheTurn, Arrived
    <2>10. Apart(sentDir, heading) = 0
        <3> DEFINE d == Apart(sentDir, heading)
                   k == MaxTurn * n
        <3>1. k >= Half /\ k \in Int
            BY <2>6, EnoughTurns
        <3>2. d \in 0..Half
            BY <2>1, ApartBound
        <3>3. d = 0 \/ d + k <= Half
            BY <2>9 DEF Nearer
        <3> HIDE DEF d, k
        <3>4. d = 0
            BY <3>1, <3>2, <3>3, Sizes
        <3> QED BY <3>4 DEF d
    <2>11. Apart(aim, heading) = Apart(aim, sentDir)
        BY <2>1, <2>10, ApartAgree
    <2> QED BY <2>1, <2>7, <2>11, Sizes DEF Turned, Apart, Normalized, Angles
<1> QED BY <1>1, SteeringInvariance, PTL

-----------------------------------------------------------------------------

(* Refusals: what was sent and what has come *)

\* At most so many messages with that pause in between were sent from x on, when
\* the last one was sent at last.
SentSince(last, pause, x) == IF last < x THEN 0 ELSE ((last - x) \div pause) + 1

\* What came so late that it was sent at x or later; what is under way since then.
CameSince(x) == {k \in DOMAIN admitted[Me] : admitted[Me][k] >= x + lag}
ComesSince(x) == {i \in DOMAIN chan : chan[i].at >= x}

Clocks == pingAt \in Int /\ pingAt <= now /\ lag \in Nat

\* The messages that came or come were sent with their pauses, from whatever
\* instant one counts.
Accounted ==
    \A x \in Int :
        Cardinality(CameSince(x)) + Cardinality(ComesSince(x))
            <= SentSince(sentAt, Interval, x) + SentSince(pingAt, PingInterval, x)

InputsInv == Clocks /\ Accounted /\ InputsPass

LEMMA CountFacts ==
    ASSUME Inv, SteeringInv, NEW x \in Int
    PROVE  /\ IsFiniteSet(CameSince(x)) /\ Cardinality(CameSince(x)) \in Nat
           /\ IsFiniteSet(ComesSince(x)) /\ Cardinality(ComesSince(x)) \in Nat
<1>1. IsFiniteSet(DOMAIN admitted[Me])
    BY AdmittedFacts, Sizes DEF Inv
<1>2. IsFiniteSet(DOMAIN chan)
    BY ChanFacts, FS_Interval DEF SteeringInv
<1>3. CameSince(x) \subseteq DOMAIN admitted[Me] /\ ComesSince(x) \subseteq DOMAIN chan
    BY DEF CameSince, ComesSince
<1> QED BY <1>1, <1>2, <1>3, FS_Subset, FS_CardinalityType

LEMMA SentNumber ==
    ASSUME NEW pause \in Nat, pause > 0, NEW last \in Int, NEW x \in Int
    PROVE  SentSince(last, pause, x) \in Nat
<1>1. last - x \in Int
    OBVIOUS
<1>2. (last - x) \div pause \in Int /\ (last - x >= 0 => (last - x) \div pause >= 0)
    BY <1>1, Quotients
<1> QED BY <1>2 DEF SentSince

\* A sender that pauses has sent one message more.
LEMMA SentOneMore ==
    ASSUME NEW pause \in Nat, pause > 0, NEW last \in Int, NEW x \in Int, NEW new \in Int, new >= last + pause
    PROVE  SentSince(last, pause, x) + (IF new >= x THEN 1 ELSE 0) <= SentSince(new, pause, x)
<1>1. CASE new < x
    BY <1>1 DEF SentSince
<1>2. CASE new >= x /\ last < x
    <2>1. (new - x) \div pause \in Int /\ (new - x) \div pause >= 0
        BY <1>2, Quotients
    <2> QED BY <1>2, <2>1 DEF SentSince
<1>3. CASE new >= x /\ last >= x
    <2>1. /\ (last - x) \div pause \in Int /\ (new - x) \div pause \in Int
          /\ ((last - x) \div pause) + 1 <= (new - x) \div pause
        BY <1>3, Quotients
    <2> QED BY <1>3, <2>1 DEF SentSince
<1> QED BY <1>1, <1>2, <1>3

\* It has sent no more than fit between x and the last one.
LEMMA SentAtMost ==
    ASSUME NEW pause \in Nat, pause > 0, NEW last \in Int, NEW x \in Int, NEW span \in Nat, last - x <= span
    PROVE  SentSince(last, pause, x) <= (span \div pause) + 1
<1>1. /\ span \div pause \in Int /\ span \div pause >= 0
      /\ (last - x) \div pause \in Int /\ (last - x) \div pause <= span \div pause
    BY Quotients
<1> QED BY <1>1 DEF SentSince

\* What was held up longer leaves room for more.
LEMMA FitGrows ==
    ASSUME lag \in Nat, NEW more \in Nat, more >= lag, lag' = more
    PROVE  /\ Fit(Interval) \in Int /\ Fit(Interval)' \in Int /\ Fit(Interval)' >= Fit(Interval)
           /\ Fit(PingInterval) \in Int /\ Fit(PingInterval)' \in Int
           /\ Fit(PingInterval)' >= Fit(PingInterval)
<1> DEFINE old == Window - 1 + lag
           new == Window - 1 + more
<1>1. old \in Int /\ new \in Int /\ old <= new
    BY LimitAssumption
<1>2. ASSUME NEW pause \in Nat, pause > 0
      PROVE  old \div pause \in Int /\ new \div pause \in Int /\ old \div pause <= new \div pause
    <2> HIDE DEF old, new
    <2> QED BY <1>1, <1>2, Quotients
<1>3. /\ Interval \in Nat /\ Interval > 0 /\ PingInterval \in Nat /\ PingInterval > 0
    BY Sizes
<1>4. /\ old \div Interval \in Int /\ new \div Interval \in Int /\ old \div Interval <= new \div Interval
      /\ old \div PingInterval \in Int /\ new \div PingInterval \in Int
      /\ old \div PingInterval <= new \div PingInterval
    BY <1>2, <1>3
<1>5. /\ Fit(Interval) = (old \div Interval) + 1 /\ Fit(Interval)' = (new \div Interval) + 1
      /\ Fit(PingInterval) = (old \div PingInterval) + 1 /\ Fit(PingInterval)' = (new \div PingInterval) + 1
    BY DEF Fit
<1> HIDE DEF old, new
<1> QED BY <1>4, <1>5

\* A client that was refused nothing in this step keeps the promise.
LEMMA PassesStill ==
    ASSUME InputsPass, lag \in Nat, NEW more \in Nat, more >= lag, lag' = more,
           refused'[Me] = refused[Me]
    PROVE  InputsPass'
<1>1. MaxMessages \in Nat
    BY LimitAssumption
<1>2. /\ Fit(Interval) \in Int /\ Fit(Interval)' \in Int /\ Fit(Interval)' >= Fit(Interval)
      /\ Fit(PingInterval) \in Int /\ Fit(PingInterval)' \in Int
      /\ Fit(PingInterval)' >= Fit(PingInterval)
    BY FitGrows
<1> QED BY <1>1, <1>2 DEF InputsPass

\* Both pauses, and when a message was sent last.
LEMMA Pauses ==
    ASSUME SteeringInv, Clocks
    PROVE  /\ Interval \in Nat /\ Interval > 0 /\ PingInterval \in Nat /\ PingInterval > 0
           /\ sentAt \in Int /\ pingAt \in Int /\ sentAt <= now /\ pingAt <= now
    BY Sizes DEF SteeringInv, SteeringTypes, Clocks

\* What is under way since x is finite, also after a step.
LEMMA ComesFinite ==
    ASSUME Len(chan') \in Nat, chan' \in Seq(Messages), NEW x \in Int
    PROVE  IsFiniteSet(ComesSince(x)') /\ Cardinality(ComesSince(x)') \in Nat
<1>1. DOMAIN chan' = 1..Len(chan')
    OBVIOUS
<1>2. IsFiniteSet(1..Len(chan'))
    BY FS_Interval
<1>3. ComesSince(x)' \subseteq 1..Len(chan')
    BY <1>1 DEF ComesSince
<1> QED BY <1>2, <1>3, FS_Subset, FS_CardinalityType

\* A message sent is under way since now.
LEMMA SendCounts ==
    ASSUME Inv, SteeringInv, NEW m \in Messages, m.at = now, chan' = Append(chan, m), NEW x \in Int
    PROVE  Cardinality(ComesSince(x)') <= Cardinality(ComesSince(x)) + (IF now >= x THEN 1 ELSE 0)
<1> DEFINE n == Len(chan) + 1
<1>1. /\ DOMAIN chan' = DOMAIN chan \cup {n} /\ chan'[n] = m
      /\ \A i \in DOMAIN chan : chan'[i] = chan[i]
      /\ now \in Nat
    BY ChanFacts, SendFacts DEF SteeringInv, Inv, TypeOK
<1> HIDE DEF n
<1>2. ComesSince(x)' \subseteq (IF now >= x THEN ComesSince(x) \cup {n} ELSE ComesSince(x))
    BY <1>1 DEF ComesSince
<1>3. /\ IsFiniteSet(ComesSince(x)) /\ Cardinality(ComesSince(x)) \in Nat
      /\ IsFiniteSet(ComesSince(x) \cup {n})
      /\ Cardinality(ComesSince(x) \cup {n}) <= Cardinality(ComesSince(x)) + 1
    <2>1. IsFiniteSet(ComesSince(x)) /\ Cardinality(ComesSince(x)) \in Nat
        BY CountFacts
    <2>2. /\ IsFiniteSet(ComesSince(x) \cup {n})
          /\ Cardinality(ComesSince(x) \cup {n}) =
                IF n \in ComesSince(x) THEN Cardinality(ComesSince(x)) ELSE Cardinality(ComesSince(x)) + 1
        BY <2>1, FS_AddElement
    <2> QED BY <2>1, <2>2
<1>4. /\ Cardinality(ComesSince(x)') \in Nat /\ Cardinality(ComesSince(x) \cup {n}) \in Nat
      /\ now >= x => Cardinality(ComesSince(x)') <= Cardinality(ComesSince(x) \cup {n})
      /\ ~(now >= x) => Cardinality(ComesSince(x)') <= Cardinality(ComesSince(x))
    BY <1>2, <1>3, FS_Subset, FS_CardinalityType
<1> QED BY <1>3, <1>4

\* The first message arrives: it is no longer under way.
LEMMA ArrivalCounts ==
    ASSUME Inv, SteeringInv, Arrive, NEW x \in Int
    PROVE  Cardinality(ComesSince(x)') + (IF Head(chan).at >= x THEN 1 ELSE 0)
                <= Cardinality(ComesSince(x))
<1> DEFINE rest == ComesSince(x) \ {1}
           up == [i \in ComesSince(x)' |-> i + 1]
<1>1. /\ Len(chan) \in Nat /\ DOMAIN chan = 1..Len(chan) /\ Len(chan) > 0 /\ Head(chan) = chan[1]
      /\ DOMAIN chan' = 1..(Len(chan) - 1)
      /\ \A i \in DOMAIN chan' : i + 1 \in DOMAIN chan /\ chan'[i] = chan[i + 1]
    BY ChanFacts, ArrivalFacts DEF SteeringInv
<1>2. up \in Injection(ComesSince(x)', rest)
    <2>1. \A i \in ComesSince(x)' : i \in Nat \ {0} /\ i + 1 \in rest
        BY <1>1 DEF ComesSince
    <2>2. up \in [ComesSince(x)' -> rest]
        BY <2>1
    <2>3. \A i, j \in ComesSince(x)' : up[i] = up[j] => i = j
        BY <2>1
    <2> HIDE DEF up, rest
    <2> QED BY <2>2, <2>3 DEF Injection, IsInjective
<1>3. /\ IsFiniteSet(ComesSince(x)) /\ Cardinality(ComesSince(x)) \in Nat
      /\ IsFiniteSet(rest)
      /\ Cardinality(rest) =
            IF 1 \in ComesSince(x) THEN Cardinality(ComesSince(x)) - 1 ELSE Cardinality(ComesSince(x))
    BY CountFacts, FS_RemoveElement
<1>4. Cardinality(ComesSince(x)') <= Cardinality(rest) /\ Cardinality(ComesSince(x)') \in Nat
    BY <1>2, <1>3, FS_Injection, FS_CardinalityType
<1>5. Head(chan).at >= x => 1 \in ComesSince(x)
    BY <1>1 DEF ComesSince
<1> QED BY <1>3, <1>4, <1>5

LEMMA InputsStart == SteeringInit => InputsInv
<1> SUFFICES ASSUME SteeringInit PROVE InputsInv
    OBVIOUS
<1>1. /\ now = 0 /\ admitted[Me] = <<>> /\ refused[Me] = {} /\ chan = <<>> /\ lag = 0
      /\ sentAt = -Interval /\ pingAt = -PingInterval
    BY Sizes DEF SteeringInit, Init
<1>2. Clocks
    BY <1>1, Sizes DEF Clocks
<1>3. Accounted
    <2> SUFFICES ASSUME NEW x \in Int
                 PROVE  Cardinality(CameSince(x)) + Cardinality(ComesSince(x))
                            <= SentSince(sentAt, Interval, x) + SentSince(pingAt, PingInterval, x)
        BY DEF Accounted
    <2>1. CameSince(x) = {} /\ ComesSince(x) = {}
        BY <1>1 DEF CameSince, ComesSince
    <2>2. SentSince(sentAt, Interval, x) \in Nat /\ SentSince(pingAt, PingInterval, x) \in Nat
        <3>1. /\ Interval \in Nat /\ Interval > 0 /\ PingInterval \in Nat /\ PingInterval > 0
              /\ sentAt \in Int /\ pingAt \in Int
            BY <1>1, Sizes
        <3> QED BY <3>1, SentNumber
    <2> QED BY <2>1, <2>2, FS_EmptySet
<1> QED BY <1>1, <1>2, <1>3 DEF InputsInv, InputsPass

\* What neither sends nor receives changes no count; time counts for nothing.
LEMMA CountsStay ==
    ASSUME Inv, SteeringInv, InputsInv, UNCHANGED <<admitted, refused, chan, sentAt, pingAt, lag>>,
           now' \in {now, now + 1}
    PROVE  InputsInv'
<1>1. \A x : CameSince(x)' = CameSince(x) /\ ComesSince(x)' = ComesSince(x)
    BY DEF CameSince, ComesSince
<1>2. Accounted'
    BY <1>1 DEF InputsInv, Accounted, SentSince
<1>3. Clocks' /\ InputsPass'
    BY PassesStill DEF InputsInv, Clocks, Inv, TypeOK
<1> QED BY <1>2, <1>3 DEF InputsInv

\* One message more is accounted for by the pause since the last one of its kind.
LEMMA SendKeeps ==
    ASSUME Inv, SteeringInv, InputsInv, NEW m \in Messages, m.at = now, chan' = Append(chan, m),
           \/ sentAt' = now /\ now >= sentAt + Interval /\ pingAt' = pingAt
           \/ pingAt' = now /\ now >= pingAt + PingInterval /\ sentAt' = sentAt,
           UNCHANGED <<now, admitted, refused, lag>>
    PROVE  InputsInv'
<1>0. Interval \in Nat /\ Interval > 0 /\ PingInterval \in Nat /\ PingInterval > 0
    BY Sizes
<1>1. sentAt \in Int /\ pingAt \in Int /\ now \in Int
    BY DEF SteeringInv, SteeringTypes, InputsInv, Clocks, Inv, TypeOK
<1>2. ASSUME NEW x \in Int
      PROVE  Cardinality(CameSince(x)') + Cardinality(ComesSince(x)')
                <= SentSince(sentAt', Interval, x) + SentSince(pingAt', PingInterval, x)
    <2>1. CameSince(x)' = CameSince(x)
        BY DEF CameSince
    <2>2. Cardinality(CameSince(x)) + Cardinality(ComesSince(x))
             <= SentSince(sentAt, Interval, x) + SentSince(pingAt, PingInterval, x)
        BY DEF InputsInv, Accounted
    <2>3. Cardinality(ComesSince(x)') <= Cardinality(ComesSince(x)) + (IF now >= x THEN 1 ELSE 0)
        BY SendCounts
    <2>4. \/ /\ SentSince(sentAt, Interval, x) + (IF now >= x THEN 1 ELSE 0)
                    <= SentSince(sentAt', Interval, x)
             /\ SentSince(pingAt', PingInterval, x) = SentSince(pingAt, PingInterval, x)
          \/ /\ SentSince(pingAt, PingInterval, x) + (IF now >= x THEN 1 ELSE 0)
                    <= SentSince(pingAt', PingInterval, x)
             /\ SentSince(sentAt', Interval, x) = SentSince(sentAt, Interval, x)
        <3>1. CASE sentAt' = now /\ now >= sentAt + Interval /\ pingAt' = pingAt
            <4>1. SentSince(sentAt, Interval, x) + (IF now >= x THEN 1 ELSE 0) <= SentSince(now, Interval, x)
                BY <1>1, <1>0, <3>1, SentOneMore
            <4> QED BY <3>1, <4>1
        <3>2. CASE pingAt' = now /\ now >= pingAt + PingInterval /\ sentAt' = sentAt
            <4>1. SentSince(pingAt, PingInterval, x) + (IF now >= x THEN 1 ELSE 0)
                        <= SentSince(now, PingInterval, x)
                BY <1>1, <1>0, <3>2, SentOneMore
            <4> QED BY <3>2, <4>1
        <3> QED BY <3>1, <3>2
    <2>5. /\ SentSince(sentAt, Interval, x) \in Nat /\ SentSince(pingAt, PingInterval, x) \in Nat
          /\ SentSince(sentAt', Interval, x) \in Nat /\ SentSince(pingAt', PingInterval, x) \in Nat
        <3>1. sentAt' \in Int /\ pingAt' \in Int
            BY <1>1
        <3> QED BY <1>1, <1>0, <3>1, SentNumber
    <2>6. Cardinality(CameSince(x)) \in Nat /\ Cardinality(ComesSince(x)) \in Nat
        BY CountFacts
    <2>7. Cardinality(ComesSince(x)') \in Nat
        <3>1. chan' \in Seq(Messages) /\ Len(chan') \in Nat
            BY SendFacts DEF SteeringInv
        <3> QED BY <3>1, ComesFinite
    <2>8. SentSince(sentAt, Interval, x) + SentSince(pingAt, PingInterval, x) + (IF now >= x THEN 1 ELSE 0)
             <= SentSince(sentAt', Interval, x) + SentSince(pingAt', PingInterval, x)
        BY <2>4, <2>5
    <2>9. Cardinality(CameSince(x)) + Cardinality(ComesSince(x)')
             <= Cardinality(CameSince(x)) + Cardinality(ComesSince(x)) + (IF now >= x THEN 1 ELSE 0)
        BY <2>3, <2>6, <2>7
    <2> QED BY <2>1, <2>2, <2>5, <2>6, <2>7, <2>8, <2>9
<1>3. Accounted'
    BY <1>2 DEF Accounted
<1>4. Clocks' /\ InputsPass'
    BY <1>1, PassesStill DEF InputsInv, Clocks
<1> QED BY <1>3, <1>4 DEF InputsInv

LEMMA ArrivalLag ==
    ASSUME Inv, SteeringInv, InputsInv, Arrive
    PROVE  /\ \E more \in Nat : lag' = more /\ more >= lag /\ now - Head(chan).at <= more
           /\ Head(chan).at \in Nat /\ sentAt' = sentAt /\ pingAt' = pingAt
<1>1. Len(chan) > 0 /\ Head(chan) = chan[1] /\ 1 \in DOMAIN chan
    BY ArrivalFacts, ChanFacts DEF SteeringInv
<1>2. chan[1].at \in Nat /\ chan[1].at <= now /\ now \in Nat /\ lag \in Nat
    BY <1>1, ChanFacts DEF SteeringInv, UnderWay, Inv, TypeOK, InputsInv, Clocks
<1>3. lag' = (IF now - Head(chan).at > lag THEN now - Head(chan).at ELSE lag)
    BY DEF Arrive
<1> QED BY <1>1, <1>2, <1>3 DEF Arrive, clientVars

\* What was under way has come, no later than lag after it was sent.
LEMMA AcceptCounts ==
    ASSUME Inv, SteeringInv, InputsInv, Accept
    PROVE  InputsInv'
<1> DEFINE m == Head(chan)   n == Newest(Me)
<1>1. /\ Arrive /\ UNCHANGED <<now, refused>> /\ now \in Nat
      /\ admitted' = [admitted EXCEPT ![Me] = Append(@, now)]
    BY DEF Accept, Admit, Inv, TypeOK
<1>2. lag \in Nat /\ m.at \in Nat /\ sentAt' = sentAt /\ pingAt' = pingAt
    BY <1>1, ArrivalLag DEF InputsInv, Clocks
<1>L. PICK more \in Nat : lag' = more /\ more >= lag /\ now - m.at <= more
    BY <1>1, ArrivalLag
<1>3. /\ DOMAIN admitted'[Me] = DOMAIN admitted[Me] \cup {n} /\ admitted'[Me][n] = now
      /\ \A k \in DOMAIN admitted[Me] : admitted'[Me][k] = admitted[Me][k]
    <2>1. Me \in Players /\ admitted[Me] \in Seq(Nat) /\ admitted'[Me] = Append(admitted[Me], now)
        BY <1>1, Sizes DEF Inv, TypeOK
    <2> QED BY <1>1, <2>1 DEF Newest
<1> HIDE DEF m, n
<1>4. ASSUME NEW x \in Int
      PROVE  Cardinality(CameSince(x)') + Cardinality(ComesSince(x)')
                <= SentSince(sentAt, Interval, x) + SentSince(pingAt, PingInterval, x)
    <2>1. Cardinality(CameSince(x)) + Cardinality(ComesSince(x))
             <= SentSince(sentAt, Interval, x) + SentSince(pingAt, PingInterval, x)
        BY DEF InputsInv, Accounted
    <2>2. Cardinality(ComesSince(x)') + (IF m.at >= x THEN 1 ELSE 0) <= Cardinality(ComesSince(x))
        BY <1>1, ArrivalCounts DEF m
    <2>3. /\ IsFiniteSet(CameSince(x)) /\ Cardinality(CameSince(x)) \in Nat
          /\ Cardinality(ComesSince(x)) \in Nat
        BY CountFacts
    <2>4. now >= x + more => m.at >= x
        BY <1>1, <1>2, <1>L
    <2>5. CameSince(x)' \subseteq
             (IF now >= x + more THEN CameSince(x) \cup {n} ELSE CameSince(x))
        <3>1. \A k \in DOMAIN admitted[Me] : admitted[Me][k] \in Nat
            BY Sizes, AdmittedFacts DEF Inv, TypeOK
        <3>2. \A k \in DOMAIN admitted[Me] : admitted[Me][k] >= x + more => admitted[Me][k] >= x + lag
            BY <1>2, <1>L, <3>1
        <3> QED BY <1>L, <1>3, <3>2 DEF CameSince
    <2>6. /\ IsFiniteSet(CameSince(x) \cup {n}) /\ Cardinality(CameSince(x) \cup {n}) \in Nat
          /\ Cardinality(CameSince(x) \cup {n}) <= Cardinality(CameSince(x)) + 1
        <3>1. /\ IsFiniteSet(CameSince(x) \cup {n})
              /\ Cardinality(CameSince(x) \cup {n}) =
                    IF n \in CameSince(x) THEN Cardinality(CameSince(x)) ELSE Cardinality(CameSince(x)) + 1
            BY <2>3, FS_AddElement
        <3> QED BY <2>3, <3>1
    <2>7. /\ Cardinality(CameSince(x)') \in Nat
          /\ now >= x + more => Cardinality(CameSince(x)') <= Cardinality(CameSince(x)) + 1
          /\ ~(now >= x + more) => Cardinality(CameSince(x)') <= Cardinality(CameSince(x))
        <3>1. CASE now >= x + more
            BY <2>5, <2>6, <2>3, <3>1, FS_Subset, FS_CardinalityType
        <3>2. CASE ~(now >= x + more)
            BY <2>5, <2>3, <3>2, FS_Subset, FS_CardinalityType
        <3> QED BY <3>1, <3>2
    <2>8. Cardinality(ComesSince(x)') \in Nat
        <3>1. chan' \in Seq(Messages) /\ Len(chan') \in Nat
            BY <1>1, ArrivalFacts DEF SteeringInv
        <3> QED BY <3>1, ComesFinite
    <2>9. SentSince(sentAt, Interval, x) \in Nat /\ SentSince(pingAt, PingInterval, x) \in Nat
        BY Pauses, SentNumber DEF InputsInv
    <2> QED BY <2>1, <2>2, <2>3, <2>4, <2>7, <2>8, <2>9
<1>5. Accounted'
    BY <1>2, <1>4 DEF Accounted
<1>6. Clocks' /\ InputsPass'
    BY <1>1, <1>2, <1>L, PassesStill DEF InputsInv, Clocks
<1> QED BY <1>5, <1>6 DEF InputsInv

\* The bucket is full of messages that were sent, with the one that is refused,
\* within a window and lag: more than the limit fit.
LEMMA DropCounts ==
    ASSUME Inv, SteeringInv, InputsInv, Drop
    PROVE  InputsInv'
<1> DEFINE m == Head(chan)
<1>1. /\ Arrive /\ now' = now /\ admitted' = admitted /\ now \in Nat
      /\ Me \in open /\ Full(Me)
    BY DEF Drop, Refuse, Inv, TypeOK
<1>2. lag \in Nat /\ m.at \in Nat /\ sentAt' = sentAt /\ pingAt' = pingAt
    BY <1>1, ArrivalLag DEF InputsInv, Clocks
<1>L. PICK more \in Nat : lag' = more /\ more >= lag /\ now - m.at <= more
    BY <1>1, ArrivalLag
<1>3. ASSUME NEW x \in Int
      PROVE  /\ CameSince(x)' \subseteq CameSince(x)
             /\ IsFiniteSet(CameSince(x)) /\ Cardinality(CameSince(x)) \in Nat
             /\ Cardinality(ComesSince(x)') \in Nat /\ Cardinality(ComesSince(x)) \in Nat
             /\ Cardinality(ComesSince(x)') + (IF m.at >= x THEN 1 ELSE 0) <= Cardinality(ComesSince(x))
    <2>1. chan' \in Seq(Messages) /\ Len(chan') \in Nat
        BY <1>1, ArrivalFacts DEF SteeringInv
    <2>2. Cardinality(ComesSince(x)') \in Nat
        BY <2>1, ComesFinite
    <2>3. \A k \in DOMAIN admitted[Me] : admitted[Me][k] \in Nat
        BY Sizes, AdmittedFacts DEF Inv, TypeOK
    <2>4. \A k \in DOMAIN admitted[Me] : admitted[Me][k] >= x + more => admitted[Me][k] >= x + lag
        BY <1>2, <1>L, <2>3
    <2>5. CameSince(x)' \subseteq CameSince(x)
        BY <1>1, <1>L, <2>4 DEF CameSince
    <2> QED BY <1>1, <2>2, <2>5, ArrivalCounts, CountFacts
<1> HIDE DEF m
<1>4. /\ Interval \in Nat /\ Interval > 0 /\ PingInterval \in Nat /\ PingInterval > 0
      /\ sentAt \in Int /\ pingAt \in Int /\ sentAt <= now /\ pingAt <= now
    BY Pauses DEF InputsInv
<1>5. ASSUME NEW x \in Int
      PROVE  /\ Cardinality(CameSince(x)') \in Nat
             /\ Cardinality(CameSince(x)') + Cardinality(ComesSince(x)') + (IF m.at >= x THEN 1 ELSE 0)
                    <= SentSince(sentAt, Interval, x) + SentSince(pingAt, PingInterval, x)
             /\ SentSince(sentAt, Interval, x) \in Nat /\ SentSince(pingAt, PingInterval, x) \in Nat
    <2>1. Cardinality(CameSince(x)) + Cardinality(ComesSince(x))
             <= SentSince(sentAt, Interval, x) + SentSince(pingAt, PingInterval, x)
        BY DEF InputsInv, Accounted
    <2>2. SentSince(sentAt, Interval, x) \in Nat /\ SentSince(pingAt, PingInterval, x) \in Nat
        BY <1>4, SentNumber
    <2>3. Cardinality(CameSince(x)') <= Cardinality(CameSince(x)) /\ Cardinality(CameSince(x)') \in Nat
        BY <1>3, FS_Subset, FS_CardinalityType
    <2> QED BY <1>3, <2>1, <2>2, <2>3
<1>6. Accounted'
    <2> SUFFICES ASSUME NEW x \in Int
                 PROVE  Cardinality(CameSince(x)') + Cardinality(ComesSince(x)')
                            <= SentSince(sentAt', Interval, x) + SentSince(pingAt', PingInterval, x)
        BY DEF Accounted
    <2>1. /\ Cardinality(CameSince(x)') \in Nat /\ Cardinality(ComesSince(x)') \in Nat
          /\ Cardinality(CameSince(x)') + Cardinality(ComesSince(x)') + (IF m.at >= x THEN 1 ELSE 0)
                <= SentSince(sentAt, Interval, x) + SentSince(pingAt, PingInterval, x)
          /\ SentSince(sentAt, Interval, x) \in Nat /\ SentSince(pingAt, PingInterval, x) \in Nat
        BY <1>3, <1>5
    <2>2. Cardinality(CameSince(x)') + Cardinality(ComesSince(x)')
             <= SentSince(sentAt, Interval, x) + SentSince(pingAt, PingInterval, x)
        BY <2>1
    <2> QED BY <1>2, <2>2
<1>7. Fit(Interval)' + Fit(PingInterval)' > MaxMessages
    <2>0. PICK x \in Int : x = now - (Window - 1) - more
        BY <1>1, <1>L, LimitAssumption
    <2>1. /\ m.at >= x /\ x + more = now - Window + 1
          /\ sentAt - x <= Window - 1 + more /\ pingAt - x <= Window - 1 + more
        BY <2>0, <1>1, <1>2, <1>L, <1>4, LimitAssumption
    <2>2. Unexpired(Me) \subseteq CameSince(x)'
        <3>1. kept[Me] \subseteq DOMAIN admitted[Me] /\ \A k \in DOMAIN admitted[Me] : admitted[Me][k] \in Nat
            BY Sizes, AdmittedFacts DEF Inv, TypeOK
        <3>2. \A k \in Unexpired(Me) : admitted[Me][k] >= now - Window + 1
            BY <1>1, <3>1, LimitAssumption DEF Unexpired
        <3>3. CameSince(x)' = {k \in DOMAIN admitted[Me] : admitted[Me][k] >= x + more}
            BY <1>1, <1>L DEF CameSince
        <3> QED BY <2>1, <3>1, <3>2, <3>3 DEF Unexpired
    <2>3. SentSince(sentAt, Interval, x) <= Fit(Interval)' /\ SentSince(pingAt, PingInterval, x) <= Fit(PingInterval)'
        <3> DEFINE span == Window - 1 + more
        <3>1. span \in Nat /\ sentAt - x <= span /\ pingAt - x <= span
            BY <2>1, LimitAssumption
        <3>2. Fit(Interval)' = (span \div Interval) + 1 /\ Fit(PingInterval)' = (span \div PingInterval) + 1
            BY <1>L DEF Fit
        <3> HIDE DEF span
        <3> QED BY <1>4, <2>1, <3>1, <3>2, SentAtMost
    <2>4. Cardinality(CameSince(x)') >= MaxMessages
        <3>1. IsFiniteSet(CameSince(x)')
            BY <1>3, FS_Subset
        <3>2. Cardinality(Unexpired(Me)) <= Cardinality(CameSince(x)') /\ Cardinality(Unexpired(Me)) \in Nat
            BY <2>2, <3>1, FS_Subset, FS_CardinalityType
        <3> QED BY <1>1, <1>5, <3>2, LimitAssumption DEF Full
    <2>5. Cardinality(ComesSince(x)') \in Nat
        BY <1>3
    <2>6. /\ Cardinality(CameSince(x)') \in Nat
          /\ Cardinality(CameSince(x)') + Cardinality(ComesSince(x)') + 1
                    <= SentSince(sentAt, Interval, x) + SentSince(pingAt, PingInterval, x)
          /\ SentSince(sentAt, Interval, x) \in Nat /\ SentSince(pingAt, PingInterval, x) \in Nat
        BY <1>5, <2>1
    <2>7. Fit(Interval)' \in Int /\ Fit(PingInterval)' \in Int /\ MaxMessages \in Nat
        BY <1>2, <1>L, FitGrows, LimitAssumption
    <2> QED BY <2>3, <2>4, <2>5, <2>6, <2>7
<1>8. InputsPass'
    BY <1>7 DEF InputsPass
<1>9. Clocks'
    BY <1>1, <1>2, <1>L, <1>4 DEF Clocks
<1> QED BY <1>6, <1>8, <1>9 DEF InputsInv

\* Whatever the window, the limit and the pauses are, a client that keeps its pauses
\* is refused something only after messages were held up for so long that more than
\* the limit of them fit into a window of arrivals.
THEOREM InputsAreNotRefused == SteeringSpec => []InputsPass
<1>1. Inv /\ SteeringInv /\ InputsInv /\ [SteeringNext]_steeringVars => InputsInv'
    <2> SUFFICES ASSUME Inv, SteeringInv, InputsInv, [SteeringNext]_steeringVars PROVE InputsInv'
        OBVIOUS
    <2>0. now \in Nat
        BY DEF Inv, TypeOK
    <2>1. CASE UNCHANGED steeringVars
        BY <2>1, CountsStay DEF steeringVars, vars, clientVars
    <2>2. ASSUME NEW angle \in Angles, Frame(angle) PROVE InputsInv'
        <3>1. CASE Turned(angle) /\ Due
            <4> DEFINE m == Input(angle)
            <4>1. /\ chan' = Append(chan, m) /\ sentAt' = now /\ pingAt' = pingAt
                  /\ UNCHANGED <<now, admitted, refused, lag>>
                BY <2>2, <3>1 DEF Frame, vars
            <4>2. m \in Messages /\ m.at = now
                BY <2>0 DEF Input, Messages
            <4>3. now >= sentAt + Interval
                BY <2>0, <3>1, Sizes DEF Due, SteeringInv, SteeringTypes
            <4> HIDE DEF m
            <4> QED BY <4>1, <4>2, <4>3, SendKeeps
        <3>2. CASE ~(Turned(angle) /\ Due)
            BY <2>2, <3>2, CountsStay DEF Frame, vars
        <3> QED BY <3>1, <3>2
    <2>3. CASE Ping
        <3> DEFINE m == [type |-> "ping", at |-> now]
        <3>1. /\ chan' = Append(chan, m) /\ pingAt' = now /\ sentAt' = sentAt
              /\ UNCHANGED <<now, admitted, refused, lag>>
            BY <2>3 DEF Ping, vars
        <3>2. m \in Messages /\ m.at = now
            BY <2>0 DEF Messages
        <3>3. now >= pingAt + PingInterval
            BY <2>0, <2>3, Sizes DEF Ping, InputsInv, Clocks
        <3> HIDE DEF m
        <3> QED BY <3>1, <3>2, <3>3, SendKeeps
    <2>4. CASE Pass
        BY <2>4, CountsStay DEF Pass, Advance, clientVars
    <2>5. CASE Disconnect
        <3>1. /\ chan' = <<>> /\ UNCHANGED <<now, admitted, refused, sentAt, pingAt, lag>>
            BY <2>5 DEF Disconnect, Remove, clientVars
        <3>2. ASSUME NEW x \in Int
              PROVE  Cardinality(CameSince(x)') + Cardinality(ComesSince(x)')
                        <= SentSince(sentAt', Interval, x) + SentSince(pingAt', PingInterval, x)
            <4>1. CameSince(x)' = CameSince(x) /\ ComesSince(x)' = {}
                BY <3>1 DEF CameSince, ComesSince
            <4>2. Cardinality(CameSince(x)) + Cardinality(ComesSince(x))
                     <= SentSince(sentAt, Interval, x) + SentSince(pingAt, PingInterval, x)
                BY DEF InputsInv, Accounted
            <4>3. /\ Cardinality(CameSince(x)) \in Nat /\ Cardinality(ComesSince(x)) \in Nat
                  /\ SentSince(sentAt, Interval, x) \in Nat /\ SentSince(pingAt, PingInterval, x) \in Nat
                BY CountFacts, Sizes, SentNumber DEF SteeringInv, SteeringTypes, InputsInv, Clocks
            <4> QED BY <3>1, <4>1, <4>2, <4>3, FS_EmptySet
        <3>3. Accounted'
            BY <3>1, <3>2 DEF Accounted
        <3>4. Clocks' /\ InputsPass'
            BY <3>1, PassesStill DEF InputsInv, Clocks
        <3> QED BY <3>3, <3>4 DEF InputsInv
    <2> QED BY <2>1, <2>2, <2>3, <2>4, <2>5, AcceptCounts, DropCounts DEF SteeringNext
<1>2. InputsInv => InputsPass
    BY DEF InputsInv
<1> QED BY <1>1, <1>2, InputsStart, SteeringInvariance, PTL DEF SteeringSpec

=============================================================================
