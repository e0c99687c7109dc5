------------------------------ MODULE RoomNews ------------------------------
(***************************************************************************)
(* Who is told what about a room.  A message for all members is sent to    *)
(* one after the other, and each send may suspend the sender: the state of *)
(* the room goes to a copy of its list of members, match_found, match_start *)
(* and match_end to the list itself.  The registry, the sessions and the   *)
(* queue are the subject of module GameServer.                             *)
(***************************************************************************)
EXTENDS Naturals, Sequences, SequencesExt, FiniteSets

CONSTANTS
    Players,
    Rooms,       \* room codes; the server never gives one out twice
    MaxPlayers,  \* MAX_PLAYERS_PER_ROOM
    MaxDrivers,  \* bounds the countdowns and games at a time
    Nobody, Nowhere

ASSUME NewsAssumption ==
    /\ IsFiniteSet(Players) /\ MaxPlayers \in Nat \ {0} /\ MaxDrivers \in Nat \ {0}
    /\ Nobody \notin Players /\ Nowhere \notin Rooms

VARIABLES
    listed,   \* RoomManager._rooms
    roster,   \* Room.player_ids; the first one is the host
    rstate,   \* Room.state, "NEW" before the room is made
    post,     \* the broadcast_room_state that the handler of a player is in
    call,     \* what a driver of a room is at: the message it sends to the members,
              \* the place in the list, the host in whose handler it runs, who of the
              \* members got it (history), how many left meanwhile (history)
    loop,     \* Room._game_task: the driver that began to play last
    told,     \* the room whose state a player in a room was last sent, and whether
              \* it had started
    stale,    \* those whose room has other members since
    custom    \* history: the rooms that players made

vars == <<listed, roster, rstate, post, call, loop, told, stale, custom>>

\* Who takes a room through its match: the task that the matchmaker makes, and the
\* handler of a host who starts the room, and then the task it makes.
Drivers == {"matchmaker", "host"}

Members(r) == Range(roster[r])

In(p, r) == r \in listed /\ p \in Members(r)

Roomless(p) == \A r \in Rooms : ~In(p, r)

\* No handler of the player is suspended.
Free(p) == post[p].room = Nowhere

NoPost == [room |-> Nowhere, todo |-> <<>>]

NoCall == [news |-> "none", at |-> 0, host |-> Nobody, got |-> {}, gone |-> 0]

NoNews == [room |-> Nowhere, started |-> FALSE]

\* The message goes round.
News == {"match_found", "match_start", "match_end"}

Init ==
    /\ listed = {}
    /\ roster = [r \in Rooms |-> <<>>] /\ rstate = [r \in Rooms |-> "NEW"]
    /\ post = [p \in Players |-> NoPost]
    /\ call = [r \in Rooms |-> [d \in Drivers |-> NoCall]] /\ loop = [r \in Rooms |-> "none"]
    /\ told = [p \in Players |-> NoNews] /\ stale = {} /\ custom = {}

-----------------------------------------------------------------------------

(* The state of the room, to a copy of the list *)

\* A fault to compare with: the others are told, not the one it is about.
AudienceOthers(p, members) == SelectSeq(members, LAMBDA q : q # p)

\* list(room.player_ids) in a handler of p
Audience(p, members) == members

\* One send of broadcast_room_state, built when the turn of the recipient comes;
\* who is in no room has no scene that listens.  After the last one the handler
\* returns, or, when it starts the room, goes on with the countdown.
SendState(p) ==
    LET r == post[p].room
        q == Head(post[p].todo)
        state == [room |-> r, started |-> rstate[r] # "WAITING"]
    IN  /\ post[p].todo # <<>>
        /\ told' = IF Roomless(q) THEN told ELSE [told EXCEPT ![q] = state]
        /\ stale' = stale \ {q}
        /\ post' = [post EXCEPT ![p] =
                        IF Len(@.todo) = 1 /\ call[r]["host"].host # p THEN NoPost
                        ELSE [room |-> r, todo |-> Tail(@.todo)]]
        /\ UNCHANGED <<listed, roster, rstate, call, loop, custom>>

\* Players come into a room or go, and nothing was sent to them before.
Resettle(r, members, moving) ==
    /\ roster' = [roster EXCEPT ![r] = members]
    /\ told' = [p \in Players |-> IF p \in moving THEN NoNews ELSE told[p]]
    /\ stale' = (stale \cup {p \in Players : told[p].room = r}) \ moving

\* _handle_create_room
CreateRoom(p, r) ==
    /\ Free(p) /\ Roomless(p) /\ rstate[r] = "NEW"
    /\ listed' = listed \cup {r} /\ custom' = custom \cup {r}
    /\ Resettle(r, <<p>>, {p})
    /\ rstate' = [rstate EXCEPT ![r] = "WAITING"]
    /\ post' = [post EXCEPT ![p] = [room |-> r, todo |-> Audience(p, <<p>>)]]
    /\ UNCHANGED <<call, loop>>

\* _handle_join_room
JoinRoom(p, r) ==
    /\ Free(p) /\ Roomless(p)
    /\ r \in listed /\ rstate[r] = "WAITING" /\ Len(roster[r]) < MaxPlayers
    /\ Resettle(r, Append(roster[r], p), {p})
    /\ post' = [post EXCEPT ![p] = [room |-> r, todo |-> Audience(p, roster'[r])]]
    /\ UNCHANGED <<listed, rstate, call, loop, custom>>

\* What goes round in the room goes on without the one who leaves.
OneGone(p, r) ==
    [call EXCEPT ![r] = [d \in Drivers |->
        IF call[r][d].news \in News
        THEN [call[r][d] EXCEPT !.gone = @ + 1, !.got = @ \ {p}] ELSE call[r][d]]]

\* Nobody is left to hear what the drivers of the room still do.
Silence(r) == [call EXCEPT ![r] = [d \in Drivers |-> NoCall]]

\* _handle_leave_room.  The last one to leave destroys the room.
LeaveRoom(p, r) ==
    LET staying == RemoveFirst(roster[r], p)
    IN  /\ Free(p) /\ In(p, r)
        /\ Resettle(r, staying, {p})
        /\ IF staying = <<>>
           THEN /\ listed' = listed \ {r}
                /\ rstate' = [rstate EXCEPT ![r] = "FINISHED"]
                /\ call' = Silence(r)
                /\ UNCHANGED post
           ELSE /\ post' = [post EXCEPT ![p] = [room |-> r, todo |-> staying]]
                /\ call' = OneGone(p, r)
                /\ UNCHANGED <<listed, rstate>>
        /\ UNCHANGED <<loop, custom>>

Few == Cardinality({c \in Rooms \X Drivers : call[c[1]][c[2]].news # "none"}) < MaxDrivers

\* _handle_start_room; the state is sent before the countdown begins.
StartRoom(p, r) ==
    /\ Free(p) /\ In(p, r) /\ Head(roster[r]) = p /\ rstate[r] = "WAITING" /\ Few
    /\ rstate' = [rstate EXCEPT ![r] = "STARTING"]
    /\ post' = [post EXCEPT ![p] = [room |-> r, todo |-> roster[r]]]
    /\ call' = [call EXCEPT ![r]["host"] = [NoCall EXCEPT !.news = "scheduled", !.host = p]]
    /\ UNCHANGED <<listed, roster, loop, told, stale, custom>>

-----------------------------------------------------------------------------

(* The start and the end of a match, to the list itself *)

\* A fault to compare with: the iteration starts behind the first member.
CallFromSecond(news, host) == [NoCall EXCEPT !.news = news, !.at = 2, !.host = host]

Call(news, host) == [NoCall EXCEPT !.news = news, !.at = 1, !.host = host]

Begin(r, d, news) == call' = [call EXCEPT ![r][d] = Call(news, call[r][d].host)]

\* RoomManager.create_room for players of the queue, and a task for the countdown,
\* that other handlers may overtake: until its first step the room waits for
\* players, and its host may start it as well.
MakeMatch(r, members) ==
    /\ rstate[r] = "NEW" /\ Len(members) <= MaxPlayers /\ Few
    /\ \A p \in Range(members) : Free(p) /\ Roomless(p)
    /\ listed' = listed \cup {r}
    /\ Resettle(r, members, Range(members))
    /\ rstate' = [rstate EXCEPT ![r] = "WAITING"]
    /\ call' = [call EXCEPT ![r]["matchmaker"] = [NoCall EXCEPT !.news = "scheduled"]]
    /\ UNCHANGED <<post, loop, custom>>

\* The first step of start_countdown: of the task of the matchmaker, or in the
\* handler of the host after the last send.  Of the state nobody is told.
StartCountdown(r, d) ==
    /\ call[r][d].news = "scheduled"
    /\ d = "host" => post[call[r][d].host].todo = <<>>
    /\ rstate' = [rstate EXCEPT ![r] = "STARTING"]
    /\ Begin(r, d, "match_found")
    /\ UNCHANGED <<listed, roster, post, loop, told, stale, custom>>

\* One send: the list may have changed since the last one, the place in it not.
SendNews(r, d) ==
    /\ call[r][d].news \in News /\ call[r][d].at <= Len(roster[r])
    /\ call' = [call EXCEPT ![r][d].at = @ + 1,
                            ![r][d].got = @ \cup {roster[r][call[r][d].at]}]
    /\ UNCHANGED <<listed, roster, rstate, post, loop, told, stale, custom>>

Sent(r, d, news) == call[r][d].news = news /\ call[r][d].at > Len(roster[r])

\* The sleep of the countdown is over; no task waits that long for its first step.
AfterFound(r, d) ==
    /\ Sent(r, d, "match_found") /\ call[r]["matchmaker"].news # "scheduled"
    /\ Begin(r, d, "match_start")
    /\ UNCHANGED <<listed, roster, rstate, post, loop, told, stale, custom>>

\* _start_game; the handler of the host returns.
AfterStart(r, d) ==
    /\ Sent(r, d, "match_start")
    /\ call' = [call EXCEPT ![r][d] = [NoCall EXCEPT !.news = "playing"]]
    /\ rstate' = [rstate EXCEPT ![r] = "RUNNING"]
    /\ loop' = [loop EXCEPT ![r] = d]
    /\ post' = [p \in Players |-> IF p = call[r][d].host THEN NoPost ELSE post[p]]
    /\ UNCHANGED <<listed, roster, told, stale, custom>>

\* _end_match, when the simulation says so: module Match.  The state of the room is
\* read at the beginning of a tick only.
EndMatch(r, d) ==
    /\ call[r][d].news = "playing"
    /\ rstate' = [rstate EXCEPT ![r] = "FINISHED"]
    /\ Begin(r, d, "match_end")
    /\ UNCHANGED <<listed, roster, post, loop, told, stale, custom>>

\* Another game of the room has ended, or another countdown begun.
LoopStops(r, d) ==
    /\ call[r][d].news = "playing" /\ rstate[r] # "RUNNING"
    /\ call' = [call EXCEPT ![r][d] = NoCall]
    /\ UNCHANGED <<listed, roster, rstate, post, loop, told, stale, custom>>

\* destroy cancels the game task, not a countdown and not a game of before.
Cancelled(r, d) == r \in listed /\ d = loop[r] /\ call[r][d].news \in {"playing", "match_end"}

\* _on_room_finished: the members are free, the list is not touched.  Nothing is
\* done about a room that is gone.
AfterEnd(r, d) ==
    /\ Sent(r, d, "match_end")
    /\ call' = [call EXCEPT ![r] = [e \in Drivers |->
                                      IF e = d \/ Cancelled(r, e) THEN NoCall ELSE call[r][e]]]
    /\ IF r \in listed
       THEN /\ listed' = listed \ {r} /\ rstate' = [rstate EXCEPT ![r] = "FINISHED"]
            /\ told' = [p \in Players |-> IF p \in Members(r) THEN NoNews ELSE told[p]]
            /\ stale' = stale \ Members(r)
       ELSE UNCHANGED <<listed, rstate, told, stale>>
    /\ UNCHANGED <<roster, post, loop, custom>>

Lineups == {s \in UNION {[1..n -> Players] : n \in 2..Cardinality(Players)} : IsInjective(s)}

Next ==
    \/ \E p \in Players :
        \/ SendState(p)
        \/ \E r \in Rooms : CreateRoom(p, r) \/ JoinRoom(p, r) \/ LeaveRoom(p, r) \/ StartRoom(p, r)
    \/ \E r \in Rooms :
        \/ \E members \in Lineups : MakeMatch(r, members)
        \/ \E d \in Drivers :
              \/ StartCountdown(r, d) \/ SendNews(r, d) \/ AfterFound(r, d) \/ AfterStart(r, d)
              \/ EndMatch(r, d) \/ LoopStops(r, d) \/ AfterEnd(r, d)

Spec == Init /\ [][Next]_vars

-----------------------------------------------------------------------------

(* Properties *)

\* No state of the room is on its way.
Quiet(r) == \A p \in Players : post[p].room = r => post[p].todo = <<>>

\* When the broadcasts about a room are over, whoever was last sent its state knows
\* its members and its host: of broadcasts that overlap none leaves an older state
\* behind.  In a room that a player made everybody has been sent a state, and knows
\* whether it has started; of a match of the queue only the countdown tells.
\* Excepted is who was last sent the state of a room that he is not in.
RosterKnown ==
    \A r \in listed : Quiet(r) =>
        \A p \in Members(r) :
            /\ told[p].room = r => p \notin stale
            /\ r \in custom => /\ told[p].room # Nowhere
                               /\ told[p].room = r => (told[p].started <=> rstate[r] # "WAITING")

\* The places of those who have not got the message that goes round, and those
\* that it is past.
Untold(r, d) == {i \in DOMAIN roster[r] : roster[r][i] \notin call[r][d].got}

PassedOver(r, d) == {i \in Untold(r, d) : i < call[r][d].at}

\* However members leave while a message goes round, it passes over no more of
\* those who stay than have left, and comes to nobody a second time; two countdowns
\* of one room are two messages.
FewPassedOver ==
    \A r \in Rooms, d \in Drivers : call[r][d].news \in News =>
        /\ Cardinality(PassedOver(r, d)) <= call[r][d].gone
        /\ \A i \in DOMAIN roster[r] : i >= call[r][d].at => i \in Untold(r, d)

=============================================================================
