----------------------------- MODULE MatchProofs -----------------------------
(***************************************************************************)
(* What a match promises, for every number of players and every length,    *)
(* gain and score: the deaths are told once, the result comes after them   *)
(* and names a winner who deserves it, and the match is what module        *)
(* GameServer takes a game for.  And what the collision check of one tick  *)
(* promises, in every geometry.                                            *)
(***************************************************************************)
EXTENDS Match, CollisionSystem, FiniteSetTheorems, WellFoundedInduction, TLAPS

(* The inductive invariant *)

\* Nobody who is still in the world waits to be told dead: the queue is drained
\* in the tick of the death, and between ticks only leaving players die.
Drains == \A p \in members : pending[p] = 0

\* A match that goes on has players, and a loop that sleeps has time left.
GoesOn ==
    /\ loop \in {"sleeping", "checking", "announcing"} => members # {}
    /\ loop = "sleeping" => ticks < Duration

Inv == TypeOK /\ DeathsToldOnce /\ Drains /\ GoesOn /\ WinnerDeserves

-----------------------------------------------------------------------------

(* The winner *)

\* A set of numbers that is not empty has a least one.
LEMMA LeastNumber ==
    ASSUME NEW S, S \subseteq Nat, S # {}
    PROVE  \E m \in S : \A k \in S : m <= k
<1>1. PICK m \in S : \A k \in S : ~ (<<k, m>> \in OpToRel(<, Nat))
    BY NatLessThanWellFounded, WFMin
<1>2. \A k \in S : ~ (k < m)
    BY <1>1 DEF OpToRel
<1> QED BY <1>2

\* Every player of the lineup has a place in it.
LEMMA Places ==
    ASSUME order \in Orders
    PROVE  /\ Lineup \subseteq Players
           /\ \A p \in Lineup : Place(p) \in Nat
<1>1. PICK n \in 1..Cardinality(Players) : order \in [1..n -> Players]
    BY DEF Orders
<1>2. DOMAIN order = 1..n /\ \A i \in 1..n : order[i] \in Players
    BY <1>1
<1>3. ASSUME NEW p \in Lineup
      PROVE  Place(p) \in DOMAIN order
    <2>1. \E i \in DOMAIN order : order[i] = p
        BY DEF Lineup, Range
    <2> QED BY <2>1 DEF Place
<1> QED BY <1>2, <1>3 DEF Lineup, Range

\* Some player of every group has a score that nobody in it exceeds: the one who
\* has more rivals below him than any other.
LEMMA SomeoneIsBest ==
    ASSUME NEW S, IsFiniteSet(S), S # {}, \A p \in S : score[p] \in Nat
    PROVE  Top(S) # {}
<1> DEFINE Below(p) == {q \in S : score[q] < score[p]}
           above(p) == Cardinality(S) - Cardinality(Below(p))
<1>1. \A p \in S : /\ IsFiniteSet(Below(p)) /\ Cardinality(Below(p)) \in Nat
                   /\ Cardinality(Below(p)) <= Cardinality(S)
    BY FS_Subset, FS_CardinalityType
<1>2. Cardinality(S) \in Nat
    BY FS_CardinalityType
<1>3. \A p \in S : above(p) \in Nat
    <2> HIDE DEF Below
    <2> QED BY <1>1, <1>2
<1>4. PICK p \in S : \A q \in S : above(p) <= above(q)
    <2> DEFINE A == {above(q) : q \in S}
    <2>1. A \subseteq Nat /\ A # {}
        BY <1>3
    <2>2. PICK m \in A : \A k \in A : m <= k
        <3> HIDE DEF A
        <3> QED BY <2>1, LeastNumber
    <2> QED BY <2>2
<1>5. ASSUME NEW q \in S, ~ (score[q] <= score[p])
      PROVE  FALSE
    <2>1. Below(p) \cup {p} \subseteq Below(q) /\ p \notin Below(p)
        BY <1>5
    <2>2. Cardinality(Below(p) \cup {p}) = Cardinality(Below(p)) + 1
        <3> HIDE DEF Below
        <3> QED BY <1>1, <2>1, FS_AddElement
    <2>3. Cardinality(Below(p) \cup {p}) <= Cardinality(Below(q))
        <3> HIDE DEF Below
        <3> QED BY <1>1, <2>1, FS_Subset
    <2> HIDE DEF Below
    <2>4. Cardinality(Below(q)) > Cardinality(Below(p))
        BY <1>1, <2>2, <2>3
    <2> QED BY <1>1, <1>2, <1>4, <2>4
<1>6. p \in Top(S)
    BY <1>5 DEF Top
<1> QED BY <1>6

\* The first of the best is one of the best.
LEMMA BestIsTop ==
    ASSUME order \in Orders, score \in [Players -> Nat], NEW S, S \subseteq Lineup, S # {}
    PROVE  Best(S) \in Top(S)
<1>1. /\ S \subseteq Players /\ IsFiniteSet(S)
    BY Places, FS_Subset, MatchAssumption
<1>2. Top(S) # {}
    BY <1>1, SomeoneIsBest
<1> DEFINE P == {Place(p) : p \in Top(S)}
<1>3. P \subseteq Nat /\ P # {}
    BY <1>2, Places DEF Top
<1>4. PICK m \in P : \A k \in P : m <= k
    <2> HIDE DEF P
    <2> QED BY <1>3, LeastNumber
<1>5. \E p \in Top(S) : \A q \in Top(S) : Place(p) <= Place(q)
    BY <1>4
<1> QED BY <1>5 DEF Best

-----------------------------------------------------------------------------

(* The steps *)

LEMMA InitHolds ==
    ASSUME Init
    PROVE  Inv
<1>1. Lineup \subseteq Players
    BY Places DEF Init
<1>2. TypeOK
    BY <1>1, MatchAssumption DEF Init, Born, TypeOK
<1>3. DeathsToldOnce /\ Drains
    BY <1>1 DEF Init, Born, DeathsToldOnce, Drains
<1>4. members # {}
    <2>1. PICK n \in 1..Cardinality(Players) : order \in [1..n -> Players]
        BY DEF Init, Orders
    <2>2. 1 \in DOMAIN order
        BY <2>1
    <2> QED BY <2>2 DEF Init, Lineup, Range
<1>5. GoesOn /\ WinnerDeserves
    BY <1>4, MatchAssumption DEF Init, GoesOn, WinnerDeserves
<1> QED BY <1>2, <1>3, <1>5 DEF Inv

\* Only alive snakes eat.
LEMMA EatenFacts ==
    ASSUME NEW meal \in Meals, NEW p \in Players
    PROVE  Eaten(meal, p) \in Nat /\ (p \notin alive => Eaten(meal, p) = 0)
<1>1. meal \in [alive -> 0..MaxMeal]
    BY DEF Meals, Servings
<1> QED BY <1>1, MatchAssumption DEF Eaten

LEMMA Products ==
    ASSUME NEW m \in Nat, NEW n \in Nat
    PROVE  m * n \in Nat /\ 0 * n = 0
OBVIOUS

LEMMA EatFacts ==
    ASSUME TypeOK, NEW meal \in Meals, Eat(meal)
    PROVE  /\ length' \in [Players -> Nat] /\ score' \in [Players -> Nat]
           /\ \A p \in Players \ alive : length'[p] = length[p] /\ score'[p] = score[p]
<1>1. length \in [Players -> Nat] /\ score \in [Players -> Nat]
    BY DEF TypeOK
<1>2. LengthGain \in Nat /\ ScoreValue \in Nat
    BY MatchAssumption
<1>3. \A p \in Players : /\ Eaten(meal, p) * LengthGain \in Nat /\ Eaten(meal, p) * ScoreValue \in Nat
                         /\ p \notin alive => /\ Eaten(meal, p) * LengthGain = 0
                                              /\ Eaten(meal, p) * ScoreValue = 0
    BY <1>2, EatenFacts, Products
<1>4. /\ length' = [p \in Players |-> length[p] + Eaten(meal, p) * LengthGain]
      /\ score' = [p \in Players |-> score[p] + Eaten(meal, p) * ScoreValue]
    BY DEF Eat
<1>5. length' \in [Players -> Nat] /\ score' \in [Players -> Nat]
    BY <1>1, <1>3, <1>4
<1>6. \A p \in Players \ alive : length'[p] = length[p] /\ score'[p] = score[p]
    BY <1>1, <1>3, <1>4
<1> QED BY <1>5, <1>6

\* What the queue of deaths holds after some snakes were eliminated.
LEMMA QueuedFacts ==
    ASSUME TypeOK, NEW dying
    PROVE  /\ Queued(dying) \in [Players -> Nat]
           /\ \A p \in Players : Queued(dying)[p] =
                 pending[p] + (IF p \in dying \cap alive THEN 1 ELSE 0)
BY DEF TypeOK, Queued

LEMMA UpdateKeeps ==
    ASSUME Inv, NEW meal \in Meals, NEW dying, dying \subseteq alive, Update(meal, dying)
    PROVE  Inv'
<1>1. /\ loop = "sleeping" /\ Eat(meal) /\ alive' = alive \ dying /\ ticks' = ticks + 1
      /\ segments' = [p \in Players |-> IF p \in alive THEN Moved(p) ELSE segments[p]]
      /\ told' = [p \in Players |-> told[p] + Queued(dying)[p]]
      /\ pending' = [p \in Players |-> Queued(dying)[p] - Queued(dying)[p]]
      /\ loop' \in {"checking", "announcing"}
      /\ UNCHANGED <<order, members, winner>>
    BY DEF Update, Later, Drained
<1>2. TypeOK /\ GoesOn /\ Drains /\ DeathsToldOnce
    BY DEF Inv
<1>3. /\ Queued(dying) \in [Players -> Nat]
      /\ \A p \in Players : Queued(dying)[p] = pending[p] + (IF p \in dying THEN 1 ELSE 0)
    BY <1>2, QueuedFacts
<1> DEFINE now == Queued(dying)
<1> HIDE DEF now
<1>4. TypeOK'
    <2>1. length' \in [Players -> Nat] /\ score' \in [Players -> Nat]
        BY <1>1, <1>2, EatFacts
    <2>2. segments' \in [Players -> Nat]
        BY <1>1, <1>2 DEF TypeOK, Moved
    <2>3. told' \in [Players -> Nat] /\ pending' \in [Players -> Nat]
        BY <1>1, <1>2, <1>3 DEF TypeOK
    <2>4. ticks' \in 0..Duration
        BY <1>1, <1>2, MatchAssumption DEF TypeOK, GoesOn
    <2> QED BY <1>1, <1>2, <2>1, <2>2, <2>3, <2>4 DEF TypeOK, Lineup
<1>5. \A p \in Players : pending'[p] = 0 /\ told'[p] = told[p] + pending[p] + (IF p \in dying THEN 1 ELSE 0)
    <2>1. \A p \in Players : pending[p] \in Nat /\ told[p] \in Nat
        BY <1>2 DEF TypeOK
    <2> QED BY <1>1, <1>3, <2>1
<1>6. members \subseteq Players /\ Lineup' = Lineup /\ alive \subseteq Lineup
    BY <1>1, <1>2, Places DEF TypeOK, Lineup
<1>7. DeathsToldOnce'
    <2> SUFFICES ASSUME NEW p \in Players
                 PROVE  told'[p] + pending'[p] = IF p \in Lineup \ (alive \ dying) THEN 1 ELSE 0
        BY <1>1, <1>6 DEF DeathsToldOnce
    <2>1. told[p] + pending[p] = IF p \in Lineup \ alive THEN 1 ELSE 0
        BY <1>2 DEF DeathsToldOnce
    <2>2. pending[p] \in Nat /\ told[p] \in Nat
        BY <1>2 DEF TypeOK
    <2> QED BY <1>5, <1>6, <2>1, <2>2
<1>8. Drains' /\ GoesOn' /\ WinnerDeserves'
    BY <1>1, <1>2, <1>5, <1>6 DEF Drains, GoesOn, WinnerDeserves
<1> QED BY <1>4, <1>7, <1>8 DEF Inv

LEMMA CheckKeeps ==
    ASSUME Inv, Check
    PROVE  Inv'
<1>1. /\ loop \in {"checking", "announcing"}
      /\ UNCHANGED <<order, members, snakeVars, ticks, told>>
      /\ \/ Over /\ loop' = "ended" /\ winner' = Victor
         \/ ~ Over /\ loop' = "sleeping" /\ winner' = winner
    BY DEF Check
<1>2. TypeOK /\ members # {}
    BY <1>1 DEF Inv, GoesOn
<1> DEFINE rivals == IF alive = {} THEN members ELSE alive
<1>3. /\ Victor \in rivals /\ \A p \in rivals : score[p] <= score[Victor]
      /\ Victor \in Players
    <2>1. rivals \subseteq Lineup /\ rivals # {} /\ order \in Orders /\ score \in [Players -> Nat]
        BY <1>2 DEF TypeOK
    <2>2. Victor = Best(rivals)
        BY DEF Victor
    <2> HIDE DEF rivals
    <2>3. Victor \in Top(rivals)
        BY <2>1, <2>2, BestIsTop
    <2> QED BY <2>1, <2>3, Places DEF Top
<1>4. TypeOK'
    BY <1>1, <1>2, <1>3 DEF TypeOK, snakeVars, Lineup
<1>5. DeathsToldOnce' /\ Drains'
    BY <1>1 DEF Inv, DeathsToldOnce, Drains, snakeVars, Lineup
<1>6. GoesOn'
    <2>1. members' = members /\ ticks' = ticks /\ members # {}
        BY <1>1, <1>2
    <2>2. loop' = "sleeping" => ~ Expired
        BY <1>1, <1>2 DEF Over
    <2>3. ticks \in Int /\ Duration \in Int
        BY <1>2, MatchAssumption DEF TypeOK
    <2> QED BY <2>1, <2>2, <2>3 DEF GoesOn, Expired
<1>7. WinnerDeserves'
    <2>1. CASE Over
        <3>1. Expired \/ (Cardinality(alive) <= 1 /\ Cardinality(Lineup) > 1)
            <4>1. IsFiniteSet(Lineup) /\ members \subseteq Lineup
                BY <1>2, Places, MatchAssumption, FS_Subset DEF TypeOK
            <4>2. Cardinality(members) <= Cardinality(Lineup)
                  /\ Cardinality(members) \in Nat /\ Cardinality(Lineup) \in Nat
                BY <4>1, FS_Subset, FS_CardinalityType
            <4> QED BY <2>1, <4>2 DEF Over
        <3>2. winner' = Victor /\ UNCHANGED <<order, members, alive, score, ticks>>
            BY <1>1, <2>1 DEF snakeVars
        <3> QED BY <1>3, <3>1, <3>2 DEF WinnerDeserves, Expired, Lineup
    <2>2. CASE ~ Over
        BY <1>1, <2>2 DEF WinnerDeserves
    <2> QED BY <2>1, <2>2
<1> QED BY <1>4, <1>5, <1>6, <1>7 DEF Inv

LEMMA LeaveKeeps ==
    ASSUME Inv, NEW p \in Players, Leave(p)
    PROVE  Inv'
<1>1. /\ loop \in {"sleeping", "announcing"} /\ p \in members
      /\ members' = members \ {p} /\ alive' = alive \ {p} /\ pending' = Queued({p})
      /\ loop' = IF members = {p} THEN "destroyed" ELSE loop
      /\ UNCHANGED <<order, length, segments, score, ticks, told, winner>>
    BY DEF Leave, Without
<1>2. TypeOK /\ GoesOn /\ Drains /\ DeathsToldOnce
    BY DEF Inv
<1>3. /\ pending' \in [Players -> Nat]
      /\ \A q \in Players : pending'[q] = pending[q] + (IF q \in {p} \cap alive THEN 1 ELSE 0)
    BY <1>1, <1>2, QueuedFacts
<1>4. members \subseteq Players /\ Lineup' = Lineup /\ alive \subseteq Lineup
    BY <1>1, <1>2, Places DEF TypeOK, Lineup
<1>5. TypeOK'
    BY <1>1, <1>2, <1>3, <1>4 DEF TypeOK
<1>6. DeathsToldOnce'
    <2> SUFFICES ASSUME NEW q \in Players
                 PROVE  told[q] + pending'[q] = IF q \in Lineup \ (alive \ {p}) THEN 1 ELSE 0
        BY <1>1, <1>4 DEF DeathsToldOnce
    <2>1. told[q] + pending[q] = IF q \in Lineup \ alive THEN 1 ELSE 0
        BY <1>2 DEF DeathsToldOnce
    <2>2. pending[q] \in Nat /\ told[q] \in Nat
        BY <1>2 DEF TypeOK
    <2> QED BY <1>3, <1>4, <2>1, <2>2
<1>7. Drains'
    BY <1>1, <1>2, <1>3, <1>4 DEF Drains
<1>8. GoesOn' /\ WinnerDeserves'
    BY <1>1, <1>2 DEF GoesOn, WinnerDeserves
<1> QED BY <1>5, <1>6, <1>7, <1>8 DEF Inv

LEMMA Invariance == Spec => []Inv
<1>1. Init => Inv
    BY InitHolds
<1>2. Inv /\ [Next]_vars => Inv'
    <2> SUFFICES ASSUME Inv, [Next]_vars
                 PROVE  Inv'
        OBVIOUS
    <2>1. CASE \E meal \in Meals, dying \in SUBSET alive : Update(meal, dying)
        BY <2>1, UpdateKeeps
    <2>2. CASE Check
        BY <2>2, CheckKeeps
    <2>3. CASE \E p \in Players : Leave(p)
        BY <2>3, LeaveKeeps
    <2>4. CASE UNCHANGED vars
        <3>1. TypeOK' /\ DeathsToldOnce'
            BY <2>4 DEF Inv, TypeOK, DeathsToldOnce, vars, snakeVars, Lineup
        <3>2. Drains' /\ GoesOn' /\ WinnerDeserves'
            BY <2>4 DEF Inv, Drains, GoesOn, WinnerDeserves, Expired, vars, snakeVars, Lineup
        <3> QED BY <3>1, <3>2 DEF Inv
    <2> QED BY <2>1, <2>2, <2>3, <2>4 DEF Next, LoopStep
<1> QED BY <1>1, <1>2, PTL DEF Spec

-----------------------------------------------------------------------------

(* The theorems *)

\* Every death is on its way to the members exactly once: announced, or queued
\* for the next tick.
THEOREM EveryDeathToldOnce == Spec => []DeathsToldOnce
<1>1. Inv => DeathsToldOnce
    BY DEF Inv
<1> QED BY <1>1, Invariance, PTL

\* The result is sent when every death among the members has been announced.
THEOREM ResultComesLast == Spec => []ResultAfterDeaths
<1>1. Inv => ResultAfterDeaths
    <2> SUFFICES ASSUME Inv, NEW p \in members \ alive
                 PROVE  told[p] = 1
        BY DEF ResultAfterDeaths
    <2>1. p \in Players /\ p \in Lineup \ alive /\ pending[p] = 0
        BY Places DEF Inv, TypeOK, Drains
    <2>2. told[p] + pending[p] = 1 /\ told[p] \in Nat
        BY <2>1 DEF Inv, TypeOK, DeathsToldOnce
    <2> QED BY <2>1, <2>2
<1> QED BY <1>1, Invariance, PTL

\* A match ends for a reason, with a winner among those alive, if there are any,
\* whom no rival exceeds.
THEOREM WinnerIsBest == Spec => []WinnerDeserves
<1>1. Inv => WinnerDeserves
    BY DEF Inv
<1> QED BY <1>1, Invariance, PTL

\* Who is dead stays so, and neither grows nor scores nor moves.
THEOREM NobodyRevives == Spec => DeadStayDead
<1> DEFINE Out ==
        \A p \in Players \ alive :
            /\ p \notin alive'
            /\ score'[p] = score[p] /\ length'[p] = length[p] /\ segments'[p] = segments[p]
<1>1. Inv /\ [Next]_vars => [Out]_vars
    <2> SUFFICES ASSUME Inv, Next
                 PROVE  Out
        OBVIOUS
    <2>1. CASE \E meal \in Meals, dying \in SUBSET alive : Update(meal, dying)
        <3>1. PICK meal \in Meals, dying \in SUBSET alive : Update(meal, dying)
            BY <2>1
        <3>2. /\ Eat(meal) /\ alive' = alive \ dying
              /\ segments' = [p \in Players |-> IF p \in alive THEN Moved(p) ELSE segments[p]]
            BY <3>1 DEF Update
        <3> QED BY <3>2, EatFacts DEF Inv
    <2>2. CASE Check
        BY <2>2 DEF Check, snakeVars
    <2>3. CASE \E p \in Players : Leave(p)
        BY <2>3 DEF Leave
    <2> QED BY <2>1, <2>2, <2>3 DEF Next, LoopStep
<1> QED BY <1>1, Invariance, PTL DEF Spec, DeadStayDead

-----------------------------------------------------------------------------

(* A match is a game as module GameServer knows it *)

LEMMA OutlineInit == Init => Outline!Init
<1> SUFFICES ASSUME Init
             PROVE  Outline!Init
    OBVIOUS
<1>1. Inv
    BY InitHolds
<1>2. members \in (SUBSET Players) \ {{}}
    BY <1>1, Places DEF Init, Inv, TypeOK, GoesOn
<1>3. Duration - ticks = Duration
    BY MatchAssumption DEF Init
<1> QED BY <1>2, <1>3 DEF Init, Outline!Init

LEMMA OutlineTick ==
    ASSUME Inv, NEW meal, NEW dying, Update(meal, dying)
    PROVE  Outline!Tick
<1>1. /\ loop = "sleeping" /\ loop' \in {"checking", "announcing"} /\ ticks' = ticks + 1
      /\ members' = members
    BY DEF Update, Later
<1>2. ticks \in Nat /\ Duration \in Nat /\ ticks < Duration
    BY <1>1, MatchAssumption DEF Inv, TypeOK, GoesOn
<1>3. Duration - ticks # 0 /\ Duration - ticks' = (Duration - ticks) - 1
    BY <1>1, <1>2
<1> QED BY <1>1, <1>3 DEF Outline!Tick

LEMMA OutlineCheck ==
    ASSUME Inv, Check
    PROVE  Outline!Check
<1>1. /\ loop \in {"checking", "announcing"} /\ members' = members /\ ticks' = ticks
      /\ \/ Over /\ loop' = "ended"
         \/ ~ Over /\ loop' = "sleeping"
    BY DEF Check
<1>2. /\ members # {} /\ members \subseteq Players
      /\ ticks \in Nat /\ ticks <= Duration /\ Duration \in Nat
    BY <1>1, Places, MatchAssumption DEF Inv, TypeOK, GoesOn
<1>3. Over => Duration - ticks = 0 \/ \E p, q \in members : p # q
    <2>1. Expired => Duration - ticks = 0
        BY <1>2 DEF Expired
    <2>2. ASSUME Cardinality(members) > 1
          PROVE  \E p, q \in members : p # q
        <3>1. PICK p : p \in members
            BY <1>2
        <3>2. members # {p}
            <4>1. Cardinality({p}) = 1
                BY FS_Singleton
            <4> QED BY <2>2, <4>1
        <3> QED BY <3>1, <3>2
    <2> QED BY <2>1, <2>2 DEF Over
<1>4. ~ Over => Duration - ticks # 0
    BY <1>2 DEF Over, Expired
<1> QED BY <1>1, <1>3, <1>4 DEF Outline!Check, Outline!MayEnd, Outline!MayGoOn

LEMMA OutlineLeave ==
    ASSUME Inv, NEW p \in Players, Leave(p)
    PROVE  Outline!Leave(p)
BY DEF Leave, Without, Outline!Leave

\* Whatever happens in a match, to the registry it is a game that ticks, checks
\* and ends; what TLC checks of GameServer rests on no other assumption about it.
THEOREM MatchIsAGame == Spec => ImplementsOutline
<1>1. Inv /\ [Next]_vars => [Outline!Next]_(Outline!vars)
    <2> SUFFICES ASSUME Inv, [Next]_vars
                 PROVE  Outline!Next \/ UNCHANGED Outline!vars
        OBVIOUS
    <2>1. CASE \E meal \in Meals, dying \in SUBSET alive : Update(meal, dying)
        BY <2>1, OutlineTick DEF Outline!Next
    <2>2. CASE Check
        BY <2>2, OutlineCheck DEF Outline!Next
    <2>3. CASE \E p \in Players : Leave(p)
        BY <2>3, OutlineLeave DEF Outline!Next
    <2>4. CASE UNCHANGED vars
        BY <2>4 DEF vars, Outline!vars
    <2> QED BY <2>1, <2>2, <2>3, <2>4 DEF Next, LoopStep
<1> QED BY <1>1, OutlineInit, Invariance, PTL DEF Spec, ImplementsOutline, Outline!Spec

-----------------------------------------------------------------------------

(* The collision check of a tick *)

\* The first pass has found exactly the crashed snakes among those it visited,
\* and when it is over it has found them all; nobody else dies without a mate.
PassInv ==
    /\ pass = "bodies" => dead = {aliveSnakes[k] : k \in {k \in 1..next - 1 : Crashed(aliveSnakes[k])}}
    /\ pass # "bodies" =>
        /\ \A a \in Heads : Crashed(a) => a \in dead
        /\ \A a \in dead : Crashed(a) \/ \E b \in dead \ {a} : Touch(a, b) /\ ~Crashed(b)

\* The snakes the second pass has visited are apart from those after them.
ApartInv ==
    pass # "bodies" =>
        \A j \in 1..next - 1, k \in 1..Len(aliveSnakes) :
            j < k /\ aliveSnakes[j] \notin dead /\ aliveSnakes[k] \notin dead => ~Touch(aliveSnakes[j], aliveSnakes[k])

DoneInv == pass = "done" => next = Len(aliveSnakes) + 1

CheckInv == CheckTypes /\ PassInv /\ ApartInv /\ DoneInv

\* A head is an element of the list.
LEMMA HeadsAreListed ==
    ASSUME CheckTypes
    PROVE  /\ Len(aliveSnakes) \in Nat
           /\ \A k \in 1..Len(aliveSnakes) : aliveSnakes[k] \in Heads
           /\ \A a \in Heads : \E k \in 1..Len(aliveSnakes) : aliveSnakes[k] = a
           /\ \A j, k \in 1..Len(aliveSnakes) : aliveSnakes[j] = aliveSnakes[k] => j = k
    BY DEF CheckTypes, Heads, Range, IsInjective

\* What a round of the second pass adds: a snake not dead yet and not crashed,
\* with others not dead yet that it meets head on, or nothing.
LEMMA RoundOfHeads ==
    ASSUME CheckTypes, NEW j \in 1..Len(aliveSnakes), NEW gone \in SUBSET Heads
    PROVE  /\ HeadHits(aliveSnakes, j, gone) \subseteq Heads
           /\ gone \subseteq KillHeads(aliveSnakes, j, gone)
           /\ KillHeads(aliveSnakes, j, gone) \subseteq Heads
           /\ \A a \in KillHeads(aliveSnakes, j, gone) \ gone :
                 \E b \in (KillHeads(aliveSnakes, j, gone) \ gone) \ {a} : Touch(a, b)
           /\ aliveSnakes[j] \notin KillHeads(aliveSnakes, j, gone) =>
                 \A k \in j + 1..Len(aliveSnakes) : aliveSnakes[k] \in gone \/ ~Touch(aliveSnakes[j], aliveSnakes[k])
<1> DEFINE hits == HeadHits(aliveSnakes, j, gone)
<1>1. /\ Len(aliveSnakes) \in Nat
      /\ \A k \in 1..Len(aliveSnakes) : aliveSnakes[k] \in Heads
      /\ \A m, k \in 1..Len(aliveSnakes) : aliveSnakes[m] = aliveSnakes[k] => m = k
    BY HeadsAreListed
<1>2. hits \subseteq Heads
    BY <1>1 DEF HeadHits
<1>3. \A b \in hits : b # aliveSnakes[j] /\ b \notin gone /\ Touch(aliveSnakes[j], b) /\ Touch(b, aliveSnakes[j])
    <2> SUFFICES ASSUME NEW b \in hits
                 PROVE  b # aliveSnakes[j] /\ b \notin gone /\ Touch(aliveSnakes[j], b) /\ Touch(b, aliveSnakes[j])
        OBVIOUS
    <2>1. PICK k \in j + 1..Len(aliveSnakes) : b = aliveSnakes[k] /\ aliveSnakes[k] \notin gone /\ Touch(aliveSnakes[j], aliveSnakes[k])
        BY DEF HeadHits
    <2>2. k \in 1..Len(aliveSnakes) /\ k # j
        BY <1>1
    <2>3. {aliveSnakes[j], b} = {b, aliveSnakes[j]}
        OBVIOUS
    <2> QED BY <1>1, <2>1, <2>2, <2>3 DEF Touch
<1>4. aliveSnakes[j] \in gone \/ hits = {} => KillHeads(aliveSnakes, j, gone) = gone
    BY DEF KillHeads
<1>5. aliveSnakes[j] \notin gone /\ hits # {} => KillHeads(aliveSnakes, j, gone) = gone \cup hits \cup {aliveSnakes[j]}
    BY DEF KillHeads
<1>6. aliveSnakes[j] \in Heads
    BY <1>1
<1>7. \A a \in KillHeads(aliveSnakes, j, gone) \ gone :
         \E b \in (KillHeads(aliveSnakes, j, gone) \ gone) \ {a} : Touch(a, b)
    <2> SUFFICES ASSUME NEW a \in KillHeads(aliveSnakes, j, gone) \ gone
                 PROVE  \E b \in (KillHeads(aliveSnakes, j, gone) \ gone) \ {a} : Touch(a, b)
        OBVIOUS
    <2>1. aliveSnakes[j] \notin gone /\ hits # {}
        BY <1>4
    <2>2. CASE a \in hits
        BY <1>3, <1>5, <2>1, <2>2
    <2>3. CASE a = aliveSnakes[j]
        <3>1. PICK b \in hits : TRUE
            BY <2>1
        <3> QED BY <1>3, <1>5, <2>1, <2>3, <3>1
    <2> QED BY <1>5, <2>1, <2>2, <2>3
<1>8. aliveSnakes[j] \notin KillHeads(aliveSnakes, j, gone) =>
         \A k \in j + 1..Len(aliveSnakes) : aliveSnakes[k] \in gone \/ ~Touch(aliveSnakes[j], aliveSnakes[k])
    <2> SUFFICES ASSUME aliveSnakes[j] \notin KillHeads(aliveSnakes, j, gone), NEW k \in j + 1..Len(aliveSnakes),
                        aliveSnakes[k] \notin gone, Touch(aliveSnakes[j], aliveSnakes[k])
                 PROVE  FALSE
        OBVIOUS
    <2>1. aliveSnakes[k] \in hits
        BY DEF HeadHits
    <2> QED BY <1>4, <1>5, <2>1
<1> QED BY <1>2, <1>4, <1>5, <1>6, <1>7, <1>8

LEMMA CheckStarts == CheckInit => CheckInv
<1> SUFFICES ASSUME CheckInit PROVE CheckInv
    OBVIOUS
<1>1. PICK n \in 0..Cardinality(Snakes) : aliveSnakes \in [1..n -> Snakes] /\ IsInjective(aliveSnakes)
    BY DEF CheckInit, Lists
<1>2. aliveSnakes \in Seq(Snakes) /\ Len(aliveSnakes) \in Nat
    BY <1>1
<1>3. CheckTypes
    <2>1. touching \subseteq SUBSET Heads
        BY DEF CheckInit
    <2>2. biting \subseteq Heads \X Heads
        BY DEF CheckInit
    <2> QED BY <1>1, <1>2, <2>1, <2>2 DEF CheckInit, CheckTypes
<1>4. {k \in 1..next - 1 : Crashed(aliveSnakes[k])} = {}
    BY DEF CheckInit
<1> QED BY <1>3, <1>4 DEF CheckInit, CheckInv, PassInv, ApartInv, DoneInv

LEMMA BodyPassKeeps ==
    ASSUME CheckInv, BodyPass
    PROVE  CheckInv'
<1>1. Len(aliveSnakes) \in Nat /\ next \in 1..Len(aliveSnakes) /\ aliveSnakes[next] \in Heads /\ next \in Int
    BY HeadsAreListed DEF CheckInv, CheckTypes, BodyPass
<1>2. pass = "bodies" /\ pass' = "bodies" /\ next' = next + 1 /\ aliveSnakes' = aliveSnakes
    BY DEF BodyPass, geometry
<1>3. Heads' = Heads /\ \A a : Crashed(a)' <=> Crashed(a)
    BY DEF BodyPass, geometry, Heads, Crashed, OutOfArena, OnBody
<1>4. CheckTypes'
    BY <1>1, <1>2, <1>3 DEF BodyPass, geometry, CheckInv, CheckTypes
<1>5. dead' = {aliveSnakes[k] : k \in {k \in 1..(next + 1) - 1 : Crashed(aliveSnakes[k])}}
    <2>1. dead = {aliveSnakes[k] : k \in {k \in 1..next - 1 : Crashed(aliveSnakes[k])}}
        BY <1>2 DEF CheckInv, PassInv
    <2>2. \A k : k \in 1..(next + 1) - 1 <=> k \in 1..next - 1 \/ k = next
        BY <1>1
    <2> QED BY <2>1, <2>2 DEF BodyPass
<1>6. PassInv'
    BY <1>2, <1>3, <1>5 DEF PassInv
<1> QED BY <1>2, <1>4, <1>6 DEF CheckInv, ApartInv, DoneInv

LEMMA BodyPassDoneKeeps ==
    ASSUME CheckInv, BodyPassDone
    PROVE  CheckInv'
<1>1. Len(aliveSnakes) \in Nat /\ next \in Int /\ next = Len(aliveSnakes) + 1
    BY HeadsAreListed DEF CheckInv, CheckTypes, BodyPassDone
<1>2. pass = "bodies" /\ pass' = "heads" /\ next' = 1 /\ aliveSnakes' = aliveSnakes /\ dead' = dead
    BY DEF BodyPassDone, geometry
<1>3. /\ Heads' = Heads /\ \A a : Crashed(a)' <=> Crashed(a)
      /\ \A a, b : Touch(a, b)' <=> Touch(a, b)
    BY DEF BodyPassDone, geometry, Heads, Crashed, OutOfArena, OnBody, Touch
<1>4. CheckTypes'
    BY <1>1, <1>2, <1>3 DEF BodyPassDone, geometry, CheckInv, CheckTypes
<1>5. dead = {aliveSnakes[k] : k \in {k \in 1..next - 1 : Crashed(aliveSnakes[k])}}
    BY <1>2 DEF CheckInv, PassInv
<1>6. \A a \in Heads : Crashed(a) => a \in dead
    BY <1>1, <1>5, HeadsAreListed DEF CheckInv
<1>7. \A a \in dead : Crashed(a)
    BY <1>5
<1>8. PassInv'
    BY <1>2, <1>3, <1>6, <1>7 DEF PassInv
<1> QED BY <1>1, <1>2, <1>4, <1>8 DEF CheckInv, ApartInv, DoneInv

LEMMA HeadPassKeeps ==
    ASSUME CheckInv, HeadPass
    PROVE  CheckInv'
<1> USE DEF CheckInv
<1>1. Len(aliveSnakes) \in Nat /\ next \in 1..Len(aliveSnakes) /\ aliveSnakes[next] \in Heads /\ next \in Int
    BY HeadsAreListed DEF CheckTypes, HeadPass
<1>2. /\ pass = "heads" /\ pass' = "heads" /\ next' = next + 1 /\ aliveSnakes' = aliveSnakes
      /\ dead' = KillHeads(aliveSnakes, next, dead)
    BY DEF HeadPass, geometry
<1>3. /\ Heads' = Heads /\ \A a : Crashed(a)' <=> Crashed(a)
      /\ \A a, b : Touch(a, b)' <=> Touch(a, b)
    BY DEF HeadPass, geometry, Heads, Crashed, OutOfArena, OnBody, Touch
<1>4. dead \in SUBSET Heads
    BY DEF CheckTypes
<1>5. /\ dead \subseteq dead' /\ dead' \subseteq Heads
      /\ \A a \in dead' \ dead : \E b \in (dead' \ dead) \ {a} : Touch(a, b)
      /\ aliveSnakes[next] \notin dead' =>
            \A k \in next + 1..Len(aliveSnakes) : aliveSnakes[k] \in dead \/ ~Touch(aliveSnakes[next], aliveSnakes[k])
    BY <1>1, <1>2, <1>4, RoundOfHeads
<1>6. CheckTypes'
    BY <1>1, <1>2, <1>3, <1>5 DEF HeadPass, geometry, CheckTypes
<1>7. \A a \in Heads : Crashed(a) => a \in dead
    BY <1>2 DEF PassInv
<1>8. \A a \in dead' : Crashed(a) \/ \E b \in dead' \ {a} : Touch(a, b) /\ ~Crashed(b)
    <2> SUFFICES ASSUME NEW a \in dead'
                 PROVE  Crashed(a) \/ \E b \in dead' \ {a} : Touch(a, b) /\ ~Crashed(b)
        OBVIOUS
    <2>1. CASE a \in dead
        BY <1>2, <1>5, <2>1 DEF PassInv
    <2>2. CASE a \notin dead
        <3>1. PICK b \in (dead' \ dead) \ {a} : Touch(a, b)
            BY <1>5, <2>2
        <3>2. ~Crashed(b)
            BY <1>5, <1>7, <3>1
        <3> QED BY <3>1, <3>2
    <2> QED BY <2>1, <2>2
<1>9. PassInv'
    BY <1>2, <1>3, <1>5, <1>7, <1>8 DEF PassInv
<1>10. ApartInv'
    <2> SUFFICES ASSUME NEW j \in 1..(next + 1) - 1, NEW k \in 1..Len(aliveSnakes),
                        j < k, aliveSnakes[j] \notin dead', aliveSnakes[k] \notin dead'
                 PROVE  ~Touch(aliveSnakes[j], aliveSnakes[k])
        BY <1>2, <1>3 DEF ApartInv
    <2>1. CASE j = next
        BY <1>1, <1>5, <2>1
    <2>2. CASE j # next
        BY <1>1, <1>2, <1>5, <2>2 DEF ApartInv
    <2> QED BY <2>1, <2>2
<1> QED BY <1>2, <1>6, <1>9, <1>10 DEF DoneInv

LEMMA HeadPassDoneKeeps ==
    ASSUME CheckInv, HeadPassDone
    PROVE  CheckInv'
<1>1. next = Len(aliveSnakes) + 1
    BY HeadsAreListed DEF CheckInv, CheckTypes, HeadPassDone
<1> QED BY <1>1 DEF HeadPassDone, geometry, CheckInv, CheckTypes, PassInv, ApartInv, DoneInv,
                    Heads, Crashed, OutOfArena, OnBody, Touch

LEMMA CheckInvariance == CheckSpec => []CheckInv
<1>1. CheckInv /\ [CheckNext]_checkVars => CheckInv'
    <2> SUFFICES ASSUME CheckInv, [CheckNext]_checkVars PROVE CheckInv'
        OBVIOUS
    <2>1. CASE UNCHANGED checkVars
        <3>1. CheckTypes'
            BY <2>1 DEF checkVars, geometry, CheckInv, CheckTypes, Heads
        <3>2. PassInv'
            BY <2>1 DEF checkVars, geometry, CheckInv, PassInv, Heads, Crashed, OutOfArena, OnBody, Touch
        <3>3. ApartInv' /\ DoneInv'
            BY <2>1 DEF checkVars, geometry, CheckInv, ApartInv, DoneInv, Touch
        <3> QED BY <3>1, <3>2, <3>3 DEF CheckInv
    <2> QED BY <2>1, BodyPassKeeps, BodyPassDoneKeeps, HeadPassKeeps, HeadPassDoneKeeps DEF CheckNext
<1> QED BY CheckStarts, <1>1, PTL DEF CheckSpec

\* After the check no survivor is outside the arena, on another snake's body or
\* head on head with a survivor, whatever the order of the snakes.
THEOREM SurvivorsKeptApart == CheckSpec => []SurvivorsApart
<1>1. CheckInv => SurvivorsApart
    <2> SUFFICES ASSUME CheckInv, pass = "done", NEW a \in Heads \ dead
                 PROVE  ~Crashed(a) /\ \A b \in Heads \ dead : b # a => ~Touch(a, b)
        BY DEF SurvivorsApart
    <2>1. ~Crashed(a)
        BY DEF CheckInv, PassInv
    <2>2. ASSUME NEW b \in Heads \ dead, b # a, Touch(a, b)
          PROVE  FALSE
        <3>1. PICK j \in 1..Len(aliveSnakes), k \in 1..Len(aliveSnakes) : aliveSnakes[j] = a /\ aliveSnakes[k] = b
            BY HeadsAreListed DEF CheckInv
        <3>2. j \in Int /\ k \in Int /\ j # k /\ Len(aliveSnakes) \in Nat
            BY <2>2, <3>1, HeadsAreListed DEF CheckInv
        <3>3. Touch(b, a)
            <4>1. {a, b} = {b, a}
                OBVIOUS
            <4> QED BY <2>2, <4>1 DEF Touch
        <3>4. next = Len(aliveSnakes) + 1
            BY DEF CheckInv, DoneInv
        <3>5. CASE j < k
            BY <2>2, <3>1, <3>2, <3>4, <3>5 DEF CheckInv, ApartInv
        <3>6. CASE k < j
            BY <2>2, <3>1, <3>2, <3>3, <3>4, <3>6 DEF CheckInv, ApartInv
        <3> QED BY <3>2, <3>5, <3>6
    <2> QED BY <2>1, <2>2
<1> QED BY CheckInvariance, <1>1, PTL

\* Two unharmed snakes that meet head on and no other unharmed one both die, and
\* nobody dies who neither crashed nor met a head, whatever the order of the snakes.
THEOREM DuelsEndBoth == CheckSpec => []DuelsKillBoth
<1>1. CheckInv /\ SurvivorsApart => DuelsKillBoth
    <2> SUFFICES ASSUME CheckInv, SurvivorsApart, pass = "done" PROVE DuelsKillBoth
        BY DEF DuelsKillBoth
    <2>1. \A a \in dead : Crashed(a) \/ \E b \in dead \ {a} : Touch(a, b) /\ ~Crashed(b)
        BY DEF CheckInv, PassInv
    <2>2. dead \subseteq Heads
        BY DEF CheckInv, CheckTypes
    <2>3. ASSUME NEW a \in Heads, NEW b \in Heads, a # b, Duel(a, b), a \in dead
          PROVE  b \in dead
        BY <2>1, <2>2, <2>3 DEF Duel
    <2>4. ASSUME NEW a \in Heads, NEW b \in Heads, a # b, Duel(a, b)
          PROVE  {a, b} \subseteq dead
        <3>1. Duel(b, a)
            <4>1. {a, b} = {b, a}
                OBVIOUS
            <4> QED BY <2>4, <4>1 DEF Duel, Touch
        <3>2. a \in dead \/ b \in dead
            BY <2>4 DEF Duel, SurvivorsApart
        <3> QED BY <2>3, <2>4, <3>1, <3>2
    <2> QED BY <2>1, <2>2, <2>4 DEF DuelsKillBoth
<1> QED BY CheckInvariance, SurvivorsKeptApart, <1>1, PTL

=============================================================================
