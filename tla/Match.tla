------------------------------- MODULE Match -------------------------------
(***************************************************************************)
(* One match: the simulation (GameWorld and its systems) under the game    *)
(* loop of its room, while members leave.  Distances are abstracted: in    *)
(* every tick any alive snake may eat and any may die; which of them die   *)
(* for which geometry is the subject of module CollisionSystem.  A step    *)
(* runs from one await of the loop that may suspend it to the next.        *)
(***************************************************************************)
EXTENDS Integers, FiniteSets, FiniteSetsExt, Functions

CONSTANTS
    Players,
    Duration,       \* MATCH_DURATION, in ticks
    InitialLength,  \* SNAKE_INITIAL_LENGTH
    LengthGain,     \* FOOD_LENGTH_GAIN
    ScoreValue,     \* FOOD_SCORE_VALUE
    TargetFood,     \* TARGET_FOOD_COUNT
    MaxMeal,        \* bound: food items a snake eats in one tick
    Nobody          \* no winner yet

ASSUME MatchAssumption ==
    /\ {Duration, InitialLength, LengthGain, ScoreValue} \subseteq Nat \ {0}
    /\ {TargetFood, MaxMeal} \subseteq Nat
    /\ IsFiniteSet(Players) /\ Nobody \notin Players

VARIABLES
    order,     \* the players the match started with, in the order they were added
    members,   \* GameWorld._players, a dictionary that keeps that order
    alive,     \* Snake.alive
    length,    \* Snake.length, the target
    segments,  \* len(Snake.segments)
    score,     \* Snake.score
    foods,     \* len(FoodSystem._foods)
    ticks,     \* the calls of TimerSystem.update, which sum up to _elapsed
    pending,   \* EliminationSystem._pending_eliminations, how often each
    told,      \* history: the player_eliminated broadcasts about each player
    loop,      \* where Room._game_loop is suspended
    winner     \* winner_id of the result

snakeVars == <<alive, length, segments, score, foods, pending>>

vars == <<order, members, snakeVars, ticks, told, loop, winner>>

Lineup == Range(order)

\* The orders in which players, each of them once, can be added.
Orders == {s \in UNION {[1..n -> Players] : n \in 1..Cardinality(Players)} : IsInjective(s)}

\* GameWorld.remove_player; nobody is added while the game runs.
Without(p) == members \ {p}

-----------------------------------------------------------------------------

\* A new Snake for every player, with the body behind its head.
Born ==
    /\ alive = members
    /\ length = [p \in Players |-> InitialLength]
    /\ segments = [p \in Players |-> InitialLength]
    /\ score = [p \in Players |-> 0]

\* GameWorld.add_player for each member of the room, then initialize.
Init ==
    /\ order \in Orders
    /\ members = Lineup
    /\ Born
    /\ foods = TargetFood
    /\ ticks = 0
    /\ pending = [p \in Players |-> 0]
    /\ told = [p \in Players |-> 0]
    /\ loop = "sleeping"
    /\ winner = Nobody

\* MovementSystem._move_forward: a new head, and the tail cut to the length.
Moved(p) == IF segments[p] + 1 > length[p] THEN length[p] ELSE segments[p] + 1

\* FoodSystem.spawn_death_food: half the body, but one item at least.
DeathFood(n) == IF n \div 2 > 1 THEN n \div 2 ELSE 1

\* FoodSystem.maintain_count: it only ever adds.
Stock(n) == IF n < TargetFood THEN TargetFood ELSE n

\* How many items the snakes of S may eat in one tick.
Servings(S) == {meal \in [S -> 0..MaxMeal] : MapThenSumSet(LAMBDA p : meal[p], S) <= foods}

\* A fault to compare with: dead snakes eat.
MealsOfAll == Servings(members)

\* FoodSystem.check_consumption: only alive snakes eat, each item is eaten once.
Meals == Servings(alive)

Eaten(meal, p) == IF p \in DOMAIN meal THEN meal[p] ELSE 0

\* ScoringSystem.apply_food_eaten, for each item
Eat(meal) ==
    /\ length' = [p \in Players |-> length[p] + Eaten(meal, p) * LengthGain]
    /\ score' = [p \in Players |-> score[p] + Eaten(meal, p) * ScoreValue]

\* A fault to compare with: a dead snake is eliminated again.
QueuedAgain(dying) == [p \in Players |-> pending[p] + (IF p \in dying THEN 1 ELSE 0)]

\* EliminationSystem.eliminate for each snake of a set: the dead ones are skipped.
Queued(dying) == [p \in Players |-> pending[p] + (IF p \in dying \cap alive THEN 1 ELSE 0)]

\* A fault to compare with: the queue is drained before the update.
DrainedBefore(dying) == pending

\* get_pending_eliminations, after the deaths of the tick
Drained(dying) == Queued(dying)

\* A fault to compare with: the timer stands still.
LaterNever(t) == t

\* TimerSystem.update, in ticks
Later(t) == t + 1

\* GameWorld.update and the eliminations drained after it.  Without one to tell
\* the loop is not suspended before the check.
Update(meal, dying) ==
    LET eaten == MapThenSumSet(LAMBDA p : meal[p], DOMAIN meal)
        spawned == MapThenSumSet(LAMBDA p : DeathFood(segments'[p]), dying)
    IN  /\ loop = "sleeping"
        /\ segments' = [p \in Players |-> IF p \in alive THEN Moved(p) ELSE segments[p]]
        /\ Eat(meal)
        /\ alive' = alive \ dying
        /\ foods' = Stock(foods - eaten + spawned)
        /\ ticks' = Later(ticks)
        /\ told' = [p \in Players |-> told[p] + Drained(dying)[p]]
        /\ pending' = [p \in Players |-> Queued(dying)[p] - Drained(dying)[p]]
        /\ loop' = IF told' = told THEN "checking" ELSE "announcing"
        /\ UNCHANGED <<order, members, winner>>

Place(p) == CHOOSE n \in DOMAIN order : order[n] = p

Top(S) == {p \in S : \A q \in S : score[q] <= score[p]}

\* max(..., key=score): the first of the best, in the order of the players.
Best(S) == CHOOSE p \in Top(S) : \A q \in Top(S) : Place(p) <= Place(q)

\* A fault to compare with: the timer expires a tick too late.
ExpiredLate == ticks > Duration

\* TimerSystem.expired
Expired == ticks >= Duration

\* WinConditionSystem.check
Over == members # {} /\ (Expired \/ (Cardinality(alive) <= 1 /\ Cardinality(members) > 1))

\* A fault to compare with: the best of all, dead or alive.
VictorOfAll == Best(members)

Victor == Best(IF alive = {} THEN members ELSE alive)

\* The match ends with a result, or the snapshot is sent and the loop sleeps.
Check ==
    /\ loop \in {"checking", "announcing"}
    /\ IF Over THEN loop' = "ended" /\ winner' = Victor
       ELSE loop' = "sleeping" /\ UNCHANGED winner
    /\ UNCHANGED <<order, members, snakeVars, ticks, told>>

\* A member leaves while the loop is suspended: Room.remove_player and
\* GameWorld.remove_player.  The last one out destroys the room and its loop.
Leave(p) ==
    /\ loop \in {"sleeping", "announcing"} /\ p \in members
    /\ members' = Without(p)
    /\ alive' = alive \ {p}
    /\ pending' = Queued({p})
    /\ foods' = foods + (IF p \in alive THEN DeathFood(segments[p]) ELSE 0)
    /\ loop' = IF members = {p} THEN "destroyed" ELSE loop
    /\ UNCHANGED <<order, length, segments, score, ticks, told, winner>>

LoopStep == (\E meal \in Meals, dying \in SUBSET alive : Update(meal, dying)) \/ Check

Next == LoopStep \/ \E p \in Players : Leave(p)

Spec == Init /\ [][Next]_vars

\* The event loop resumes the game loop after every send and every sleep.
FairSpec == Spec /\ WF_vars(LoopStep)

-----------------------------------------------------------------------------

(* Properties *)

TypeOK ==
    /\ order \in Orders
    /\ alive \subseteq members /\ members \subseteq Lineup
    /\ {length, segments, score, pending, told} \subseteq [Players -> Nat]
    /\ ticks \in 0..Duration
    /\ loop \in {"sleeping", "checking", "announcing", "ended", "destroyed"}
    /\ winner \in Players \cup {Nobody}

\* A dead snake is out for good: it never comes back, grows, scores or moves,
\* also in the ticks in which it still is part of the world.
DeadStayDead ==
    [][\A p \in Players \ alive :
          /\ p \notin alive'
          /\ score'[p] = score[p] /\ length'[p] = length[p] /\ segments'[p] = segments[p]]_vars

\* Every death is on its way to the members exactly once, whether the snake
\* collided or its player left, and no alive snake is called dead.
DeathsToldOnce ==
    \A p \in Players :
        told[p] + pending[p] = IF p \in Lineup \ alive THEN 1 ELSE 0

\* When the result is sent the members know of every death among them.
ResultAfterDeaths ==
    loop = "ended" => \A p \in members \ alive : told[p] = 1

\* A match ends for a reason and with a winner who plays in it: an alive one if
\* there is any, and nobody in the same condition has a higher score.
WinnerDeserves ==
    loop = "ended" =>
        LET rivals == IF alive = {} THEN members ELSE alive
        IN  /\ Expired \/ (Cardinality(alive) <= 1 /\ Cardinality(Lineup) > 1)
            /\ winner \in rivals
            /\ \A p \in rivals : score[p] <= score[winner]

\* What GameServer assumes of a game is what this one does.
Outline == INSTANCE GameOutline WITH
    MatchTicks <- Duration,
    world <- members,
    timeLeft <- Duration - ticks,
    phase <- CASE loop = "sleeping" -> "top"
               [] loop \in {"checking", "announcing"} -> "mid"
               [] OTHER -> "over"

ImplementsOutline == Outline!Spec

\* Every match that has players comes to an end, whoever leaves.
MatchEnds == <>(loop \in {"ended", "destroyed"})

-----------------------------------------------------------------------------

(* What the documentation says and the code does not do *)

\* "Only one snake remains alive -> that snake wins": a check that finds one snake
\* alive, in a match that several began, ends the match.
LoneSurvivorWins ==
    [][Check /\ Cardinality(alive) = 1 /\ Cardinality(Lineup) > 1 => winner' \in alive]_vars

=============================================================================
