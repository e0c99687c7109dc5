---------------------------- MODULE GameOutline ----------------------------
(***************************************************************************)
(* What module GameServer knows of a running game: who has a snake and how *)
(* many ticks are left.  Module Match, with deaths, food and scores,       *)
(* implements it.                                                          *)
(***************************************************************************)
EXTENDS Integers

CONSTANTS Players, MatchTicks

VARIABLES
    world,     \* the snakes of the game, dead or alive
    timeLeft,  \* the ticks before the timer expires
    phase      \* "top", "mid" between update and check, "over"

vars == <<world, timeLeft, phase>>

Init ==
    /\ world \in (SUBSET Players) \ {{}}
    /\ timeLeft = MatchTicks
    /\ phase = "top"

Tick ==
    /\ phase = "top"
    /\ timeLeft' = IF timeLeft = 0 THEN 0 ELSE timeLeft - 1
    /\ phase' = "mid"
    /\ UNCHANGED world

MayEnd == timeLeft = 0 \/ \E p, q \in world : p # q

MayGoOn == timeLeft # 0

Check ==
    /\ phase = "mid"
    /\ \/ MayEnd /\ phase' = "over"
       \/ MayGoOn /\ phase' = "top"
    /\ UNCHANGED <<world, timeLeft>>

\* The last one to leave ends the game.
Leave(p) ==
    /\ phase # "over" /\ p \in world
    /\ world' = world \ {p}
    /\ phase' = IF world = {p} THEN "over" ELSE phase
    /\ UNCHANGED timeLeft

Next == Tick \/ Check \/ \E p \in Players : Leave(p)

Spec == Init /\ [][Next]_vars

FairSpec == Spec /\ WF_vars(Tick \/ Check)

=============================================================================
