------------------------------- MODULE Lobby -------------------------------
(***************************************************************************)
(* What the server promises its players: who waits for a match, who is in  *)
(* which room, and whether that room may be entered, is being played in or *)
(* is gone.  Each step is one that a player or the clock may take at once; *)
(* module GameServer, whose handlers and tasks are suspended in the middle *)
(* of most of them, implements it.                                         *)
(***************************************************************************)
EXTENDS Integers, FiniteSets

CONSTANTS Players, Rooms, MinPlayers, MaxPlayers, NoRoom

VARIABLES
    queue,  \* who waits for a match
    room,   \* the room of each player, or NoRoom
    phase   \* of each room: "gone", "open" or "playing"

vars == <<queue, room, phase>>

Members(r) == {p \in Players : room[p] = r}

Gone == {r \in Rooms : phase[r] = "gone"}

Init ==
    /\ queue = {}
    /\ room = [p \in Players |-> NoRoom]
    /\ phase = [r \in Rooms |-> "gone"]

-----------------------------------------------------------------------------

(* The queue *)

Wait(p) ==
    /\ room[p] = NoRoom /\ p \notin queue
    /\ queue' = queue \cup {p}
    /\ UNCHANGED <<room, phase>>

GiveUp(p) ==
    /\ p \in queue
    /\ queue' = queue \ {p}
    /\ UNCHANGED <<room, phase>>

\* Players who wait, and only they, are seated together in new rooms, none of
\* which has too few or too many; too few for one more are left over.
Match(new) ==
    /\ new \subseteq Gone
    /\ room' \in [Players -> Rooms \cup {NoRoom}]
    /\ \A p \in Players : room'[p] # room[p] => p \in queue /\ room'[p] \in new
    /\ \A r \in new : Cardinality(Members(r)') \in MinPlayers..MaxPlayers
    /\ queue' = {p \in queue : room'[p] = room[p]}
    /\ Cardinality(queue') < MinPlayers
    /\ phase' = [r \in Rooms |-> IF r \in new THEN "open" ELSE phase[r]]

-----------------------------------------------------------------------------

(* Rooms *)

\* Who makes or enters a room waits for no match any longer.
Open(p, r) ==
    /\ room[p] = NoRoom /\ r \in Gone
    /\ queue' = queue \ {p}
    /\ room' = [room EXCEPT ![p] = r]
    /\ phase' = [phase EXCEPT ![r] = "open"]

Enter(p, r) ==
    /\ room[p] = NoRoom
    /\ phase[r] = "open" /\ Cardinality(Members(r)) < MaxPlayers
    /\ queue' = queue \ {p}
    /\ room' = [room EXCEPT ![p] = r]
    /\ UNCHANGED phase

\* The last one to leave closes the room.
Leave(p) ==
    /\ room[p] \in Rooms
    /\ room' = [room EXCEPT ![p] = NoRoom]
    /\ phase' = IF Members(room[p]) = {p} THEN [phase EXCEPT ![room[p]] = "gone"] ELSE phase
    /\ UNCHANGED queue

Start(r) ==
    /\ phase[r] = "open"
    /\ phase' = [phase EXCEPT ![r] = "playing"]
    /\ UNCHANGED <<queue, room>>

\* The match is over: the members are free again.
End(r) ==
    /\ phase[r] = "playing"
    /\ phase' = [phase EXCEPT ![r] = "gone"]
    /\ room' = [p \in Players |-> IF room[p] = r THEN NoRoom ELSE room[p]]
    /\ UNCHANGED queue

-----------------------------------------------------------------------------

Next ==
    \/ \E p \in Players : Wait(p) \/ GiveUp(p) \/ Leave(p)
    \/ \E p \in Players, r \in Rooms : Open(p, r) \/ Enter(p, r)
    \/ \E new \in SUBSET Rooms : Match(new)
    \/ \E r \in Rooms : Start(r) \/ End(r)

Spec == Init /\ [][Next]_vars

=============================================================================
