----------------------------- MODULE MCRoomNews -----------------------------
(* A few players and rooms, all interchangeable. *)
EXTENDS RoomNews, TLC

Interchangeable == Permutations(Players) \cup Permutations(Rooms)

Driven(r) == \E d \in Drivers : call[r][d] # NoCall

\* Up to the end of one match, with whatever games the room has; the other room is
\* for those who leave it.
OneMatch ==
    /\ Cardinality({r \in Rooms : Driven(r)}) <= 1
    /\ \A r \in Rooms : loop[r] # "none" => Driven(r)

=============================================================================
