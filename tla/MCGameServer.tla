---------------------------- MODULE MCGameServer ----------------------------
(* Small instances of GameServer for TLC. *)
EXTENDS GameServer, TLC

\* Players and rooms are interchangeable: no operator tells two of them apart.
Interchangeable == Permutations(Players) \cup Permutations(Rooms)

\* Bound: games are not followed, only queueing, creating, joining and counting down.
NoGame == \A r \in Rooms : Fresh(r) \/ rstate[r] \in {"WAITING", "STARTING"}

=============================================================================
