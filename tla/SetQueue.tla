------------------------------ MODULE SetQueue ------------------------------
(***************************************************************************)
(* What module GameServer assumes of the matchmaking queue: a set of       *)
(* players, from which a request for count players takes exactly as many   *)
(* as there are, each of them once, in some order.                         *)
(***************************************************************************)
EXTENDS Integers, Sequences, FiniteSets, Functions

CONSTANT Players

VARIABLES members, taken

Init == members = {} /\ taken = <<>>

Enqueue(p) ==
    /\ p \notin members
    /\ members' = members \cup {p}
    /\ UNCHANGED taken

Remove(p) ==
    /\ p \in members
    /\ members' = members \ {p}
    /\ UNCHANGED taken

Fewer(m, n) == IF m < n THEN m ELSE n

Dequeue(count) ==
    /\ taken' \in [1..Fewer(count, Cardinality(members)) -> members]
    /\ IsInjective(taken')
    /\ members' = members \ Range(taken')

Next ==
    \/ \E p \in Players : Enqueue(p) \/ Remove(p)
    \/ \E count \in 1..Cardinality(Players) : Dequeue(count)

Spec == Init /\ [][Next]_<<members, taken>>
=============================================================================
