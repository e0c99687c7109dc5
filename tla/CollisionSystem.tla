-------------------------- MODULE CollisionSystem --------------------------
(***************************************************************************)
(* CollisionSystem.check_collisions: which of the alive snakes die in this *)
(* tick.  The geometry is given as three relations, what the code's three  *)
(* distance tests answer: heads outside the arena, heads on a body, and    *)
(* heads on heads.  A step of this module is one round of an outer loop.   *)
(***************************************************************************)
EXTENDS Integers, Sequences, FiniteSets, Functions

CONSTANT Snakes

VARIABLES
    aliveSnakes,   \* alive_snakes, in the order of the players of the world
    outside,       \* the snakes whose head left the arena
    biting,        \* <<a, b>>: the head of a is on the body of b # a
    touching,      \* {a, b}: the heads overlap, _check_head_vs_head
    pass,          \* the loop that runs
    next,          \* the index of its next snake
    dead           \* the snakes found dead so far

geometry == <<aliveSnakes, outside, biting, touching>>

checkVars == <<geometry, pass, next, dead>>

Lists == {s \in UNION {[1..n -> Snakes] : n \in 0..Cardinality(Snakes)} : IsInjective(s)}

Heads == Range(aliveSnakes)

\* _check_boundary
OutOfArena(a) == a \in outside

\* _check_head_vs_body.  A head is always on the neck of its own body.
OnBody(a, b) == a = b \/ <<a, b>> \in biting

Touch(a, b) == {a, b} \in touching

\* The first pass: the boundary, then the bodies of the other snakes.
Crashed(a) == OutOfArena(a) \/ \E b \in Heads \ {a} : OnBody(a, b)

CheckInit ==
    /\ aliveSnakes \in Lists
    /\ outside \in SUBSET Heads
    /\ biting \in SUBSET {bite \in Heads \X Heads : bite[1] # bite[2]}
    /\ touching \in SUBSET {pair \in SUBSET Heads : Cardinality(pair) = 2}
    /\ pass = "bodies" /\ next = 1 /\ dead = {}

BodyPass ==
    /\ pass = "bodies" /\ next <= Len(aliveSnakes)
    /\ dead' = IF Crashed(aliveSnakes[next]) THEN dead \cup {aliveSnakes[next]} ELSE dead
    /\ next' = next + 1
    /\ UNCHANGED <<geometry, pass>>

BodyPassDone ==
    /\ pass = "bodies" /\ next > Len(aliveSnakes)
    /\ pass' = "heads" /\ next' = 1
    /\ UNCHANGED <<geometry, dead>>

\* The snakes after the j-th of the list, not dead yet, whose head is on its.
HeadHits(list, j, gone) ==
    {list[k] : k \in {k \in j + 1..Len(list) : list[k] \notin gone /\ Touch(list[j], list[k])}}

\* A round of the second pass: a snake still unharmed dies with all it hits.
KillHeads(list, j, gone) ==
    LET hits == HeadHits(list, j, gone)
    IN  IF list[j] \in gone \/ hits = {} THEN gone ELSE gone \cup hits \cup {list[j]}

HeadPass ==
    /\ pass = "heads" /\ next <= Len(aliveSnakes)
    /\ dead' = KillHeads(aliveSnakes, next, dead)
    /\ next' = next + 1
    /\ UNCHANGED <<geometry, pass>>

HeadPassDone ==
    /\ pass = "heads" /\ next > Len(aliveSnakes)
    /\ pass' = "done"
    /\ UNCHANGED <<geometry, next, dead>>

CheckNext == BodyPass \/ BodyPassDone \/ HeadPass \/ HeadPassDone

CheckSpec == CheckInit /\ [][CheckNext]_checkVars

-----------------------------------------------------------------------------

(* Properties *)

CheckTypes ==
    /\ aliveSnakes \in Seq(Snakes) /\ IsInjective(aliveSnakes)
    /\ outside \subseteq Heads
    /\ biting \subseteq Heads \X Heads
    /\ touching \subseteq SUBSET Heads
    /\ pass \in {"bodies", "heads", "done"}
    /\ next \in 1..Len(aliveSnakes) + 1
    /\ dead \subseteq Heads

\* Whatever the order of the list, who survives the tick is in the arena, is on
\* no other snake's body and shares its place with the head of no survivor.
SurvivorsApart ==
    pass = "done" =>
        \A a \in Heads \ dead : ~Crashed(a) /\ \A b \in Heads \ dead : b # a => ~Touch(a, b)

\* Two snakes unharmed by the first pass that meet no other unharmed one.
Duel(a, b) ==
    /\ Touch(a, b) /\ ~Crashed(a) /\ ~Crashed(b)
    /\ \A c \in Heads \ {a, b} : Touch(a, c) \/ Touch(b, c) => Crashed(c)

\* Two snakes that meet head on kill each other if no third unharmed one
\* interferes, and nobody dies who neither crashed nor met a head.
DuelsKillBoth ==
    pass = "done" =>
        /\ \A a, b \in Heads : a # b /\ Duel(a, b) => {a, b} \subseteq dead
        /\ \A a \in dead : Crashed(a) \/ \E b \in Heads \ {a} : Touch(a, b)

-----------------------------------------------------------------------------

(* What the documentation says and the code does not do *)

\* "Both snakes die on head-on collision (mutual kill policy)": of two snakes
\* that were unharmed when their heads met none survives, whatever the order.
MutualKill ==
    pass = "done" =>
        \A a, b \in Heads : a # b /\ Touch(a, b) /\ ~Crashed(a) /\ ~Crashed(b) => {a, b} \subseteq dead

=============================================================================
