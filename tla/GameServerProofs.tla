-------------------------- MODULE GameServerProofs --------------------------
(***************************************************************************)
(* Module GameServer for every set of players and rooms.  First its types: *)
(* that two slots are enough for the game loops of a room follows from who *)
(* may still start it.  Then where a player is and what takes a room       *)
(* further: the registry, the rosters, the sessions and the queue agree in *)
(* every state, a started room always has a task that drives it, nobody    *)
(* enters it any more, and a queue that is long enough always has a        *)
(* handler that will serve it.  From all of that, every step is for the    *)
(* players one of module Lobby.  Last, no destroy awaits a task that is    *)
(* gone.                                                                   *)
(***************************************************************************)
EXTENDS GameServer, FiniteSetTheorems, TLAPS

(* Types *)

\* The handler of p is in a countdown of room r.
HostTurn(p, r) == tgt[p] = r /\ pc[p] \in {"starting", "counting"}

NoLoops(r) == \A k \in Slots : ~LoopLive(r, k)

\* Somebody has yet to start room r.
StartDue(r) == cd[r] # "none" \/ \E p \in Players : HostTurn(p, r)

\* A handler that works on a room has one.
TargetKnown ==
    \A p \in Players :
        pc[p] \in {"joining", "starting", "counting", "dropped"} => tgt[p] \in Rooms

\* Only one handler counts down for a room.
OneHost ==
    \A p, q \in Players, r \in Rooms : HostTurn(p, r) /\ HostTurn(q, r) => p = q

\* A registered room that still waits has not been started by anybody.
WaitingRoomsIdle ==
    \A r \in reg : rstate[r] = "WAITING" =>
        /\ \A p \in Players : ~HostTurn(p, r)
        /\ cd[r] # "counting"
        /\ NoLoops(r)

\* A start that is due finds a free slot, and two of them find two.
StartsLeft ==
    \A r \in Rooms :
        /\ StartDue(r) => \E k \in Slots : ~LoopLive(r, k)
        /\ cd[r] # "none" => \A p \in Players : HostTurn(p, r) => NoLoops(r)

\* The game task of a room is one of its loops.
TaskIsLoop == \A r \in Rooms, k \in Slots : gameTask[r] = k => LoopLive(r, k)

\* The inductive invariant.
TypeInv == TypeOK /\ TargetKnown /\ OneHost /\ WaitingRoomsIdle /\ StartsLeft /\ TaskIsLoop

-----------------------------------------------------------------------------

(* The operators the actions are built from *)

\* Removing an element of a sequence leaves a sequence.
LEMMA WithoutIsSeq ==
    ASSUME NEW S, NEW s \in Seq(S), NEW p
    PROVE  Without(s, p) \in Seq(S)
<1>1. CASE p \notin Range(s)
    BY <1>1 DEF Without
<1>2. CASE p \in Range(s)
    <2> DEFINE i == CHOOSE j \in DOMAIN s : s[j] = p
               n == Len(s) - 1
               t == [j \in 1..n |-> IF j < i THEN s[j] ELSE s[j + 1]]
    <2>1. n \in Nat /\ DOMAIN s = 1..(n + 1)
        BY <1>2 DEF Range
    <2>2. i \in Int
        BY <1>2, <2>1 DEF Range
    <2>3. \A j \in 1..n : (IF j < i THEN s[j] ELSE s[j + 1]) \in S
        BY <2>1, <2>2
    <2>4. t \in [1..n -> S]
        BY <2>3
    <2>5. t \in Seq(S)
        BY <2>1, <2>4
    <2> QED
        BY <1>2, <2>5 DEF Without
<1> QED
    BY <1>1, <1>2

\* What create_room is given: new rooms, and the players of each.
IsLineup(lineup) ==
    /\ DOMAIN lineup \subseteq FreshRooms
    /\ \A r \in DOMAIN lineup : lineup[r] \in Seq(Players) /\ lineup[r] # <<>>

\* The lineups of the allocator are such.
LEMMA LineupsAreLineups ==
    ASSUME TypeOK, NEW lineup \in Lineups
    PROVE  /\ IsLineup(lineup)
           /\ \A r \in DOMAIN lineup :
                /\ lineup[r] \in Seq(inq) /\ IsInjective(lineup[r])
                /\ MinPlayers <= Len(lineup[r]) /\ Len(lineup[r]) <= MaxPlayers
           /\ \A r, s \in DOMAIN lineup :
                r # s => Range(lineup[r]) \cap Range(lineup[s]) = {}
<1> DEFINE teams == {s \in UNION {[1..n -> inq] : n \in MinPlayers..MaxPlayers} : IsInjective(s)}
<1>1. PICK new \in SUBSET FreshRooms : lineup \in [new -> teams]
    BY DEF Lineups
<1>2. \A r, s \in DOMAIN lineup : r # s => Range(lineup[r]) \cap Range(lineup[s]) = {}
    BY DEF Lineups
<1>3. ASSUME NEW s \in teams
      PROVE  s \in Seq(inq) /\ s \in Seq(Players) /\ s # <<>> /\ IsInjective(s)
             /\ MinPlayers <= Len(s) /\ Len(s) <= MaxPlayers
    <2>1. PICK n \in MinPlayers..MaxPlayers : s \in [1..n -> inq]
        BY <1>3
    <2>2. n \in Nat /\ n >= 1 /\ MinPlayers <= n /\ n <= MaxPlayers
        BY SizeAssumption
    <2>3. s \in Seq(inq) /\ Len(s) = n
        BY <2>1, <2>2
    <2>4. inq \subseteq Players
        BY DEF TypeOK
    <2>5. s \in [1..n -> Players]
        BY <2>1, <2>4
    <2>6. s \in Seq(Players)
        BY <2>5, <2>2
    <2> QED
        BY <1>3, <2>2, <2>3, <2>6
<1>4. \A r \in DOMAIN lineup : lineup[r] \in teams
    BY <1>1
<1> QED
    BY <1>1, <1>2, <1>3, <1>4 DEF IsLineup

\* create_room, read off room by room and player by player.
LEMMA OpenRoomsFacts ==
    ASSUME TypeOK, NEW lineup, IsLineup(lineup), OpenRooms(lineup)
    PROVE  /\ reg' = reg \cup DOMAIN lineup
           /\ proom' \in [Players -> Rooms \cup {NoRoom}]
           /\ sroom' \in [Players -> Rooms \cup {NoRoom}]
           /\ roster' \in [Rooms -> Seq(Players)]
           /\ host' \in [Rooms -> Players \cup {NoPlayer}]
           /\ rstate' \in [Rooms -> RoomStates]
           /\ world' \in [Rooms -> (SUBSET Players) \cup {NoWorld}]
           /\ timeLeft' \in [Rooms -> 0..MatchTicks]
           /\ loop' \in [Rooms -> [Slots -> LoopStates]]
           /\ gameTask' \in [Rooms -> 0..2]
           /\ cancelled' \in [Rooms -> 0..2]
           /\ Seated(lineup) \subseteq Players
           /\ \A p \in Seated(lineup) :
                proom'[p] \in DOMAIN lineup /\ p \in Range(lineup[proom'[p]])
           /\ \A p \in Players \ Seated(lineup) : proom'[p] = proom[p]
           /\ \A p \in Players :
                sroom'[p] = IF p \in Seated(lineup) \cap sess THEN proom'[p] ELSE sroom[p]
           /\ \A r \in DOMAIN lineup :
                /\ roster'[r] = lineup[r] /\ host'[r] = lineup[r][1] /\ rstate'[r] = "WAITING"
                /\ \A k \in Slots : loop'[r][k] = "none"
                /\ gameTask'[r] = 0 /\ cancelled'[r] = 0
           /\ \A r \in Rooms \ DOMAIN lineup :
                /\ roster'[r] = roster[r] /\ host'[r] = host[r] /\ rstate'[r] = rstate[r]
                /\ loop'[r] = loop[r] /\ gameTask'[r] = gameTask[r]
                /\ cancelled'[r] = cancelled[r] /\ world'[r] = world[r]
<1> DEFINE new == DOMAIN lineup
           seated == Seated(lineup)
           seat == [p \in seated |-> CHOOSE r \in new : p \in Range(lineup[r])]
<1>1. new \subseteq Rooms
    BY DEF IsLineup, FreshRooms
<1>2. \A r \in new : Range(lineup[r]) \subseteq Players
    BY DEF IsLineup, Range
<1>3. seated \subseteq Players /\ \A p \in seated : \E r \in new : p \in Range(lineup[r])
    BY <1>2 DEF Seated
<1>4. \A p \in seated : seat[p] \in new /\ p \in Range(lineup[seat[p]])
    BY <1>3
<1> HIDE DEF seat
<1>5. \A r \in new : lineup[r][1] \in Players
    BY DEF IsLineup
<1>6. seat \in [seated -> Rooms]
    BY <1>1, <1>4 DEF seat
<1>7. /\ reg' = reg \cup new
      /\ proom' = Override(proom, seat)
      /\ sroom' = Override(sroom, Restrict(seat, seated \cap sess))
    BY DEF OpenRooms, seat
<1>8. /\ proom' \in [Players -> Rooms \cup {NoRoom}]
      /\ \A p \in Players : proom'[p] = IF p \in seated THEN seat[p] ELSE proom[p]
    BY <1>6, <1>7 DEF Override, TypeOK
<1>9. /\ sroom' \in [Players -> Rooms \cup {NoRoom}]
      /\ \A p \in Players : sroom'[p] = IF p \in seated \cap sess THEN seat[p] ELSE sroom[p]
    BY <1>6, <1>7 DEF Override, Restrict, TypeOK
<1>10. /\ roster' = Override(roster, lineup)
       /\ host' = Override(host, [r \in new |-> lineup[r][1]])
       /\ rstate' = Override(rstate, [r \in new |-> "WAITING"])
       /\ world' = Override(world, [r \in new |-> NoWorld])
       /\ timeLeft' = Override(timeLeft, [r \in new |-> MatchTicks])
       /\ loop' = Override(loop, [r \in new |-> [k \in Slots |-> "none"]])
       /\ gameTask' = Override(gameTask, [r \in new |-> 0])
       /\ cancelled' = Override(cancelled, [r \in new |-> 0])
    BY DEF OpenRooms
<1>11. /\ roster' \in [Rooms -> Seq(Players)]
       /\ \A r \in Rooms : roster'[r] = IF r \in new THEN lineup[r] ELSE roster[r]
    BY <1>10 DEF IsLineup, Override, TypeOK
<1>12. /\ host' \in [Rooms -> Players \cup {NoPlayer}]
       /\ \A r \in Rooms : host'[r] = IF r \in new THEN lineup[r][1] ELSE host[r]
    BY <1>5, <1>10 DEF Override, TypeOK
<1>13. /\ rstate' \in [Rooms -> RoomStates]
       /\ \A r \in Rooms : rstate'[r] = IF r \in new THEN "WAITING" ELSE rstate[r]
    BY <1>10 DEF Override, TypeOK, RoomStates
<1>14. /\ world' \in [Rooms -> (SUBSET Players) \cup {NoWorld}]
       /\ \A r \in Rooms \ new : world'[r] = world[r]
    BY <1>10 DEF Override, TypeOK
<1>15. timeLeft' \in [Rooms -> 0..MatchTicks]
    BY <1>10, ClockAssumption DEF Override, TypeOK
<1>16. /\ loop' \in [Rooms -> [Slots -> LoopStates]]
       /\ \A r \in Rooms : loop'[r] = IF r \in new THEN [k \in Slots |-> "none"] ELSE loop[r]
    BY <1>10 DEF Override, TypeOK, LoopStates
<1>17. /\ gameTask' \in [Rooms -> 0..2] /\ cancelled' \in [Rooms -> 0..2]
       /\ \A r \in Rooms : gameTask'[r] = IF r \in new THEN 0 ELSE gameTask[r]
       /\ \A r \in Rooms : cancelled'[r] = IF r \in new THEN 0 ELSE cancelled[r]
    BY <1>10 DEF Override, TypeOK
<1>18. \A r \in new : \A k \in Slots : loop'[r][k] = "none"
    BY <1>1, <1>16
<1>19. \A r \in new : r \in Rooms
    BY <1>1
<1>20. \A p \in seated : p \in Players
    BY <1>3
<1>21. \A p \in seated : proom'[p] \in new /\ p \in Range(lineup[proom'[p]])
    BY <1>4, <1>8, <1>20
<1>22. \A p \in Players \ seated : proom'[p] = proom[p]
    BY <1>8
<1>23. \A p \in Players : sroom'[p] = IF p \in seated \cap sess THEN proom'[p] ELSE sroom[p]
    BY <1>8, <1>9
<1>24. \A r \in new : roster'[r] = lineup[r] /\ host'[r] = lineup[r][1]
                       /\ rstate'[r] = "WAITING" /\ gameTask'[r] = 0 /\ cancelled'[r] = 0
    BY <1>11, <1>12, <1>13, <1>17, <1>19
<1>25. \A r \in Rooms \ new : roster'[r] = roster[r] /\ host'[r] = host[r]
        /\ rstate'[r] = rstate[r] /\ loop'[r] = loop[r] /\ gameTask'[r] = gameTask[r]
        /\ cancelled'[r] = cancelled[r] /\ world'[r] = world[r]
    BY <1>11, <1>12, <1>13, <1>14, <1>16, <1>17
<1> QED
    BY ZenonT(40), <1>3, <1>7, <1>8, <1>9, <1>11, <1>12, <1>13, <1>14, <1>15, <1>16, <1>17, <1>18,
       <1>21, <1>22, <1>23, <1>24, <1>25

\* A start that is due puts its loop into a free slot.
LEMMA StartGameFacts ==
    ASSUME TypeInv, NEW r \in Rooms, StartDue(r), StartGame(r)
    PROVE  /\ \E k \in Slots :
                /\ ~LoopLive(r, k)
                /\ loop' = [loop EXCEPT ![r][k] = "new"]
                /\ gameTask' = [gameTask EXCEPT ![r] = k]
           /\ rstate' = [rstate EXCEPT ![r] = "RUNNING"]
           /\ loop' \in [Rooms -> [Slots -> LoopStates]]
           /\ gameTask' \in [Rooms -> 0..2] /\ cancelled' \in [Rooms -> 0..2]
           /\ rstate' \in [Rooms -> RoomStates]
           /\ world' \in [Rooms -> (SUBSET Players) \cup {NoWorld}]
           /\ timeLeft' \in [Rooms -> 0..MatchTicks]
<1>1. TypeOK /\ \E k \in Slots : ~LoopLive(r, k)
    BY DEF TypeInv, StartsLeft
<1>2. PICK k \in Slots : /\ ~LoopLive(r, k)
                         /\ loop' = [loop EXCEPT ![r][k] = "new"]
                         /\ gameTask' = [gameTask EXCEPT ![r] = k]
    <2> DEFINE k == IF ~LoopLive(r, 1) THEN 1 ELSE IF ~LoopLive(r, 2) THEN 2 ELSE 3
    <2>1. loop' = [loop EXCEPT ![r][k] = "new"] /\ gameTask' = [gameTask EXCEPT ![r] = k]
        BY DEF StartGame
    <2>2. \A j \in Slots : j = 1 \/ j = 2
        BY DEF Slots
    <2>3. k \in Slots /\ ~LoopLive(r, k)
        <3>1. ~LoopLive(r, 1) \/ ~LoopLive(r, 2)
            BY <1>1, <2>2
        <3>2. 1 \in Slots /\ 2 \in Slots
            BY DEF Slots
        <3> QED
            BY <3>1, <3>2
    <2> HIDE DEF k
    <2> QED
        BY <2>1, <2>3
<1>3. loop' \in [Rooms -> [Slots -> LoopStates]]
    BY <1>1, <1>2 DEF TypeOK, LoopStates
<1>4. gameTask' \in [Rooms -> 0..2] /\ cancelled' \in [Rooms -> 0..2]
    BY <1>1, <1>2 DEF TypeOK, Slots, StartGame
<1>5. rstate' \in [Rooms -> RoomStates] /\ rstate' = [rstate EXCEPT ![r] = "RUNNING"]
    BY <1>1 DEF TypeOK, RoomStates, StartGame
<1>6. Range(roster[r]) \subseteq Players
    BY <1>1 DEF TypeOK, Range
<1>7. world' \in [Rooms -> (SUBSET Players) \cup {NoWorld}]
    BY <1>1, <1>6 DEF TypeOK, StartGame
<1>8. timeLeft' \in [Rooms -> 0..MatchTicks]
    BY <1>1, ClockAssumption DEF TypeOK, StartGame
<1> QED
    BY <1>2, <1>3, <1>4, <1>5, <1>7, <1>8

\* A departure, whatever its handler does next.
LEMMA DepartTypes ==
    ASSUME TypeOK, NEW p \in Players,
           NEW sending \in HandlerStates, NEW awaiting \in HandlerStates,
           NEW over \in HandlerStates, Depart(p, sending, awaiting, over)
    PROVE  /\ pc' \in [Players -> HandlerStates]
           /\ tgt' \in [Players -> Rooms \cup {NoRoom}]
           /\ reg' \subseteq Rooms
           /\ proom' \in [Players -> Rooms \cup {NoRoom}]
           /\ roster' \in [Rooms -> Seq(Players)]
           /\ host' \in [Rooms -> Players \cup {NoPlayer}]
           /\ rstate' \in [Rooms -> RoomStates]
           /\ world' \in [Rooms -> (SUBSET Players) \cup {NoWorld}]
           /\ timeLeft' \in [Rooms -> 0..MatchTicks]
           /\ cancelled' \in [Rooms -> 0..2]
           /\ UNCHANGED <<cd, loop, gameTask>>
<1> DEFINE r == proom[p]
           rest == Without(roster[r], p)
<1>1. ASSUME r \in reg, RemovePlayer(r, p)
      PROVE  roster' \in [Rooms -> Seq(Players)] /\ host' \in [Rooms -> Players \cup {NoPlayer}]
    <2>1. rest \in Seq(Players)
        BY <1>1, WithoutIsSeq DEF TypeOK
    <2>2. Heir(rest) \in Players \cup {NoPlayer}
        BY <2>1 DEF Heir
    <2> HIDE DEF rest
    <2>3. /\ roster' = [roster EXCEPT ![r] = rest]
          /\ host' = [host EXCEPT ![r] = IF @ = p THEN Heir(rest) ELSE @]
        BY <1>1 DEF RemovePlayer, rest
    <2> QED
        BY <2>1, <2>2, <2>3 DEF TypeOK
<1>2. ASSUME RemoveSnake(r, p)
      PROVE  world' \in [Rooms -> (SUBSET Players) \cup {NoWorld}]
    <2>1. \A w \in (SUBSET Players) \cup {NoWorld} : w \ {p} \in (SUBSET Players) \cup {NoWorld}
        BY NameAssumption DEF NoWorld
    <2> QED
        BY <1>2, <2>1 DEF RemoveSnake, TypeOK
<1>3. ASSUME Close(r)
      PROVE  /\ rstate' \in [Rooms -> RoomStates] /\ timeLeft' \in [Rooms -> 0..MatchTicks]
             /\ world' \in [Rooms -> (SUBSET Players) \cup {NoWorld}]
    <2>1. rstate' \in [Rooms -> RoomStates]
        BY <1>3 DEF Close, TypeOK, RoomStates
    <2>2. MatchTicks \in 0..MatchTicks
        BY ClockAssumption
    <2>3. timeLeft' \in [Rooms -> 0..MatchTicks]
        BY <1>3, <2>2 DEF Close, TypeOK
    <2>4. world' \in [Rooms -> (SUBSET Players) \cup {NoWorld}]
        BY <1>3 DEF Close, TypeOK
    <2> QED
        BY <2>1, <2>3, <2>4
<1>4. \A at \in HandlerStates, t \in Rooms \cup {NoRoom} :
        Suspend(p, at, t) =>
            pc' \in [Players -> HandlerStates] /\ tgt' \in [Players -> Rooms \cup {NoRoom}]
    BY DEF Suspend, TypeOK
<1>5. r \in Rooms \cup {NoRoom} /\ NoRoom \in Rooms \cup {NoRoom}
    BY DEF TypeOK
<1>6. CASE LeaveOthers(p) /\ Suspend(p, sending, NoRoom)
    BY <1>1, <1>2, <1>4, <1>5, <1>6 DEF LeaveOthers, NotInRoom, TypeOK, taskVars
<1>7. CASE LeaveAndCancel(p) /\ Suspend(p, awaiting, r)
    <2>1. gameTask[r] \in 0..2
        BY <1>7 DEF LeaveAndCancel, NotInRoom, TypeOK
    <2> QED
        BY <1>1, <1>2, <1>4, <1>5, <1>7, <2>1 DEF LeaveAndCancel, NotInRoom, TypeOK
<1>8. CASE LeaveAndClose(p) /\ Suspend(p, over, NoRoom)
    BY <1>1, <1>3, <1>4, <1>5, <1>8 DEF LeaveAndClose, NotInRoom, TypeOK, taskVars
<1>9. CASE NotInRoom(p) /\ UNCHANGED roomVars /\ Suspend(p, over, NoRoom)
    BY <1>4, <1>5, <1>9
    DEF TypeOK, roomVars, registryVars, rosterVars, gameVars, taskVars
<1> QED
    BY <1>6, <1>7, <1>8, <1>9 DEF Depart

-----------------------------------------------------------------------------

(* TypeOK is preserved *)

LEMMA SuspendTypes ==
    ASSUME TypeOK, NEW p, NEW at \in HandlerStates, NEW r \in Rooms \cup {NoRoom},
           Suspend(p, at, r)
    PROVE  pc' \in [Players -> HandlerStates] /\ tgt' \in [Players -> Rooms \cup {NoRoom}]
BY DEF TypeOK, Suspend

\* A private room is a lineup of one.
LEMMA PrivateRoomFacts ==
    ASSUME TypeOK, NEW p \in Players, OpenPrivateRoom(p)
    PROVE  \E r \in FreshRooms :
                /\ IsLineup([x \in {r} |-> <<p>>]) /\ OpenRooms([x \in {r} |-> <<p>>])
                /\ listen' = listen \ {p}
                /\ cd' = [cd EXCEPT ![r] = "none"]
                /\ cd' \in [Rooms -> {"none", "scheduled", "counting"}]
<1>1. PICK r \in FreshRooms : /\ OpenRooms([x \in {r} |-> <<p>>])
                              /\ listen' = listen \ {p}
                              /\ cd' = [cd EXCEPT ![r] = "none"]
    BY DEF OpenPrivateRoom
<1>2. IsLineup([x \in {r} |-> <<p>>])
    BY DEF IsLineup
<1>3. cd' \in [Rooms -> {"none", "scheduled", "counting"}]
    BY <1>1 DEF TypeOK
<1> QED
    BY <1>1, <1>2, <1>3

LEMMA RequestTypes ==
    ASSUME TypeInv, NEW p \in Players, Request(p)
    PROVE  TypeOK'
<1> USE DEF TypeInv
<1>1. NoRoom \in Rooms \cup {NoRoom}
    OBVIOUS
<1>2. {"off", "idle", "enqueued", "creating", "joining", "starting", "leaving", "dropping",
        "dropped"} \subseteq HandlerStates
    BY DEF HandlerStates
<1>3. CASE Connect(p)
    <2>1. pc' \in [Players -> HandlerStates] /\ tgt' \in [Players -> Rooms \cup {NoRoom}]
        BY <1>1, <1>2, <1>3, SuspendTypes DEF Connect, Return
    <2> QED
        BY <1>3, <2>1
        DEF Connect, TypeOK, roomVars, registryVars, rosterVars, gameVars, taskVars
<1>4. CASE JoinQueue(p)
    <2>1. pc' \in [Players -> HandlerStates] /\ tgt' \in [Players -> Rooms \cup {NoRoom}]
        BY <1>1, <1>2, <1>4, SuspendTypes DEF JoinQueue
    <2> QED
        BY <1>4, <2>1
        DEF JoinQueue, TypeOK, roomVars, registryVars, rosterVars, gameVars, taskVars
<1>5. CASE CancelQueue(p)
    BY <1>5 DEF CancelQueue, LeaveQueue, TypeOK, handlerVars, roomVars, registryVars, rosterVars,
            gameVars, taskVars
<1>6. CASE CreateRoom(p)
    <2>1. CASE LeaveQueue(p) /\ Suspend(p, "creating", NoRoom) /\ UNCHANGED <<sroom, roomVars>>
        <3>1. pc' \in [Players -> HandlerStates] /\ tgt' \in [Players -> Rooms \cup {NoRoom}]
            BY <1>1, <1>2, <2>1, SuspendTypes
        <3> QED
            BY <1>6, <2>1, <3>1 DEF CreateRoom, LeaveQueue, TypeOK, roomVars, registryVars,
               rosterVars, gameVars, taskVars
    <2>2. CASE OpenPrivateRoom(p) /\ UNCHANGED handlerVars
        <3>1. PICK r \in FreshRooms :
                /\ IsLineup([x \in {r} |-> <<p>>]) /\ OpenRooms([x \in {r} |-> <<p>>])
                /\ listen' = listen \ {p}
                /\ cd' \in [Rooms -> {"none", "scheduled", "counting"}]
            BY <2>2, PrivateRoomFacts
        <3>2. r \in Rooms /\ DOMAIN [x \in {r} |-> <<p>>] = {r}
            BY DEF FreshRooms
        <3> QED
            BY <1>6, <2>2, <3>1, <3>2, OpenRoomsFacts DEF CreateRoom, TypeOK, handlerVars
    <2> QED
        BY <1>6, <2>1, <2>2 DEF CreateRoom
<1>7. CASE \E r \in Rooms : JoinRoom(p, r)
    <2>1. PICK r \in Rooms : JoinRoom(p, r)
        BY <1>7
    <2>2. CASE LeaveQueue(p) /\ Suspend(p, "joining", r)
                /\ UNCHANGED <<sroom, registryVars, rosterVars>>
        <3>1. pc' \in [Players -> HandlerStates] /\ tgt' \in [Players -> Rooms \cup {NoRoom}]
            BY <1>2, <2>2, SuspendTypes
        <3> QED
            BY <2>1, <2>2, <3>1
            DEF JoinRoom, LeaveQueue, TypeOK, registryVars, rosterVars, gameVars, taskVars
    <2>3. CASE UNCHANGED handlerVars /\ Seat(p, r)
        BY <2>1, <2>3 DEF JoinRoom, Seat, TypeOK, handlerVars, gameVars, taskVars
    <2>4. CASE UNCHANGED handlerVars /\ LeaveQueue(p)
                /\ UNCHANGED <<sroom, registryVars, rosterVars>>
        BY <2>1, <2>4 DEF JoinRoom, LeaveQueue, TypeOK, handlerVars, registryVars, rosterVars,
                      gameVars, taskVars
    <2> QED
        BY <2>1, <2>2, <2>3, <2>4 DEF JoinRoom
<1>8. CASE StartRoom(p)
    <2>1. proom[p] \in Rooms
        BY <1>8 DEF StartRoom, MayStart, TypeOK
    <2>2. pc' \in [Players -> HandlerStates] /\ tgt' \in [Players -> Rooms \cup {NoRoom}]
        BY <1>2, <1>8, <2>1, SuspendTypes DEF StartRoom
    <2> QED
        BY <1>8, <2>2
        DEF StartRoom, TypeOK, RoomStates, sessionVars, registryVars, rosterVars, taskVars
<1>9. CASE LeaveRoom(p)
    <2>1. Depart(p, "leaving", "leaving", "idle")
        BY <1>9 DEF LeaveRoom
    <2> QED
        BY <1>2, <1>9, <2>1, DepartTypes DEF LeaveRoom, TypeOK
<1>10. CASE Disconnect(p)
    <2>1. CASE Suspend(p, "dropping", NoRoom) /\ UNCHANGED roomVars
        <3>1. pc' \in [Players -> HandlerStates] /\ tgt' \in [Players -> Rooms \cup {NoRoom}]
            BY <1>1, <1>2, <2>1, SuspendTypes
        <3> QED
            BY <1>10, <2>1, <3>1
            DEF Disconnect, TypeOK, roomVars, registryVars, rosterVars, gameVars, taskVars
    <2>2. CASE Depart(p, "off", "dropped", "off")
        BY <1>2, <1>10, <2>2, DepartTypes DEF Disconnect, TypeOK
    <2> QED
        BY <1>10, <2>1, <2>2 DEF Disconnect
<1> QED
    BY <1>3, <1>4, <1>5, <1>6, <1>7, <1>8, <1>9, <1>10 DEF Request

LEMMA ResumeTypes ==
    ASSUME TypeInv, NEW p \in Players, HandlerResume(p)
    PROVE  TypeOK'
<1> USE DEF TypeInv
<1>1. NoRoom \in Rooms \cup {NoRoom}
    OBVIOUS
<1>2. {"off", "idle", "counting", "dropped"} \subseteq HandlerStates
    BY DEF HandlerStates
<1>3. CASE TryCreateRoom(p)
    <2>1. PICK lineup \in Lineups :
            /\ OpenRooms(lineup)
            /\ inq' = inq \ Seated(lineup)
            /\ listen' = listen \ Seated(lineup)
            /\ cd' = Override(cd, [r \in DOMAIN lineup |-> "scheduled"])
        BY <1>3 DEF TryCreateRoom
    <2>2. IsLineup(lineup)
        BY LineupsAreLineups
    <2>3. DOMAIN lineup \subseteq Rooms
        BY <2>2 DEF IsLineup, FreshRooms
    <2>4. cd' \in [Rooms -> {"none", "scheduled", "counting"}]
        BY <2>1 DEF Override, TypeOK
    <2>5. pc' \in [Players -> HandlerStates] /\ tgt' \in [Players -> Rooms \cup {NoRoom}]
        BY <1>1, <1>2, <1>3, SuspendTypes DEF TryCreateRoom, Return
    <2>6. inq' \subseteq Players /\ listen' \subseteq Players /\ sess' \subseteq Players
        BY <1>3, <2>1 DEF TryCreateRoom, TypeOK
    <2>7. reg' \subseteq Rooms
        BY <2>1, <2>2, <2>3, OpenRoomsFacts DEF TypeOK
    <2> QED
        BY <2>1, <2>2, <2>4, <2>5, <2>6, <2>7, OpenRoomsFacts DEF TypeOK
<1>4. CASE CreateRoomResume(p)
    <2>1. PICK r \in FreshRooms :
            /\ IsLineup([x \in {r} |-> <<p>>]) /\ OpenRooms([x \in {r} |-> <<p>>])
            /\ listen' = listen \ {p}
            /\ cd' \in [Rooms -> {"none", "scheduled", "counting"}]
        BY <1>4, PrivateRoomFacts DEF CreateRoomResume
    <2>2. r \in Rooms /\ DOMAIN [x \in {r} |-> <<p>>] = {r}
        BY DEF FreshRooms
    <2>3. pc' \in [Players -> HandlerStates] /\ tgt' \in [Players -> Rooms \cup {NoRoom}]
        BY <1>1, <1>2, <1>4, SuspendTypes DEF CreateRoomResume, Return
    <2> QED
        BY <1>4, <2>1, <2>2, <2>3, OpenRoomsFacts DEF CreateRoomResume, TypeOK
<1>5. CASE JoinRoomResume(p)
    <2>1. pc' \in [Players -> HandlerStates] /\ tgt' \in [Players -> Rooms \cup {NoRoom}]
        BY <1>1, <1>2, <1>5, SuspendTypes DEF JoinRoomResume, Return
    <2>2. tgt[p] \in Rooms
        BY <1>5 DEF JoinRoomResume, TargetKnown
    <2>3. CASE Seat(p, tgt[p])
        BY <1>5, <2>1, <2>2, <2>3 DEF JoinRoomResume, Seat, TypeOK, gameVars, taskVars
    <2>4. CASE UNCHANGED <<sroom, listen, registryVars, rosterVars>>
        BY <1>5, <2>1, <2>4
        DEF JoinRoomResume, TypeOK, registryVars, rosterVars, gameVars, taskVars
    <2> QED
        BY <1>5, <2>3, <2>4 DEF JoinRoomResume
<1>6. CASE HostCountdown(p)
    <2>1. tgt[p] \in Rooms
        BY <1>6 DEF HostCountdown, TargetKnown
    <2>2. pc' \in [Players -> HandlerStates] /\ tgt' \in [Players -> Rooms \cup {NoRoom}]
        BY <1>2, <1>6, <2>1, SuspendTypes DEF HostCountdown
    <2> QED
        BY <1>6, <2>2 DEF HostCountdown, BeginCountdown, TypeOK, RoomStates, sessionVars,
           registryVars, rosterVars
<1>7. CASE HostStartsGame(p)
    <2>1. tgt[p] \in Rooms /\ StartDue(tgt[p])
        BY <1>7 DEF HostStartsGame, TargetKnown, StartDue, HostTurn
    <2>2. pc' \in [Players -> HandlerStates] /\ tgt' \in [Players -> Rooms \cup {NoRoom}]
        BY <1>1, <1>2, <1>7, SuspendTypes DEF HostStartsGame, Return
    <2>3. StartGame(tgt[p])
        BY <1>7 DEF HostStartsGame
    <2> QED
        BY <1>7, <2>1, <2>2, <2>3, StartGameFacts
        DEF HostStartsGame, TypeOK, sessionVars, registryVars, rosterVars
<1>8. CASE LeaveRoomResume(p)
    <2>1. pc' \in [Players -> HandlerStates] /\ tgt' \in [Players -> Rooms \cup {NoRoom}]
        BY <1>1, <1>2, <1>8, SuspendTypes DEF LeaveRoomResume, Return
    <2>2. MatchTicks \in 0..MatchTicks
        BY ClockAssumption
    <2>3. CASE UNCHANGED roomVars
        BY <1>8, <2>1, <2>3
        DEF LeaveRoomResume, TypeOK, roomVars, registryVars, rosterVars, gameVars, taskVars
    <2>4. CASE DestroyResume(p)
        BY <1>8, <2>1, <2>2, <2>4 DEF LeaveRoomResume, DestroyResume, Close, TypeOK,
           RoomStates, registryVars, rosterVars, taskVars
    <2> QED
        BY <1>8, <2>3, <2>4 DEF LeaveRoomResume
<1>9. CASE DisconnectFromRoom(p)
    <2>1. Depart(p, "off", "dropped", "off")
        BY <1>9 DEF DisconnectFromRoom
    <2> QED
        BY <1>2, <1>9, <2>1, DepartTypes DEF DisconnectFromRoom, TypeOK, sessionVars
<1>10. CASE DisconnectResume(p)
    <2>1. pc' \in [Players -> HandlerStates] /\ tgt' \in [Players -> Rooms \cup {NoRoom}]
        BY <1>1, <1>2, <1>10, SuspendTypes DEF DisconnectResume
    <2>2. MatchTicks \in 0..MatchTicks
        BY ClockAssumption
    <2> QED
        BY <1>10, <2>1, <2>2 DEF DisconnectResume, DestroyResume, Close, TypeOK, RoomStates,
           sessionVars, registryVars, rosterVars, taskVars
<1> QED
    BY <1>3, <1>4, <1>5, <1>6, <1>7, <1>8, <1>9, <1>10 DEF HandlerResume

LEMMA CountdownTypes ==
    ASSUME TypeInv, NEW r \in Rooms, CountdownStep(r)
    PROVE  TypeOK'
<1>1. CASE CountdownBegin(r)
    BY <1>1 DEF CountdownBegin, BeginCountdown, TypeInv, TypeOK, RoomStates, handlerVars,
       sessionVars, registryVars, rosterVars
<1>2. CASE CountdownEnd(r)
    <2>1. StartDue(r) /\ StartGame(r)
        BY <1>2 DEF CountdownEnd, StartDue
    <2> QED
        BY <1>2, <2>1, StartGameFacts DEF CountdownEnd, TypeInv, TypeOK, handlerVars,
           sessionVars, registryVars, rosterVars
<1> QED
    BY <1>1, <1>2 DEF CountdownStep

LEMMA GameStepTypes ==
    ASSUME TypeOK, NEW r \in Rooms, NEW k \in Slots, GameStep(r, k)
    PROVE  TypeOK'
<1>1. MatchTicks \in 0..MatchTicks
    BY ClockAssumption
<1>2. \A at \in LoopStates : Go(r, k, at) => loop' \in [Rooms -> [Slots -> LoopStates]]
    BY DEF Go, TypeOK
<1>3. EndLoop(r, k) =>
        /\ loop' \in [Rooms -> [Slots -> LoopStates]]
        /\ gameTask' \in [Rooms -> 0..2] /\ cancelled' \in [Rooms -> 0..2]
    <2>1. "none" \in LoopStates
        BY DEF LoopStates
    <2> QED
        BY <1>2, <2>1 DEF EndLoop, TypeOK
<1>4. ExitLoop(r, k) => EndLoop(r, k) /\ rstate' \in [Rooms -> RoomStates]
    BY DEF ExitLoop, TypeOK, RoomStates
<1>5. Close(r) => /\ rstate' \in [Rooms -> RoomStates] /\ timeLeft' \in [Rooms -> 0..MatchTicks]
                  /\ world' \in [Rooms -> (SUBSET Players) \cup {NoWorld}]
    BY <1>1 DEF Close, TypeOK, RoomStates
<1>6. CASE LoopStep(r, k)
    <2>1. \A left : CheckWin(r, k, left) =>
            /\ loop' \in [Rooms -> [Slots -> LoopStates]]
            /\ gameTask' \in [Rooms -> 0..2] /\ cancelled' \in [Rooms -> 0..2]
            /\ rstate' \in [Rooms -> RoomStates]
        <3>1. "ending" \in LoopStates /\ "top" \in LoopStates /\ "FINISHED" \in RoomStates
            BY DEF LoopStates, RoomStates
        <3> QED
            BY ZenonT(40), <1>2, <3>1 DEF CheckWin, TypeOK
    <2>2. TickDown(timeLeft[r]) \in 0..MatchTicks
        BY ClockAssumption DEF TickDown, TypeOK
    <2>3. /\ loop' \in [Rooms -> [Slots -> LoopStates]]
          /\ gameTask' \in [Rooms -> 0..2] /\ cancelled' \in [Rooms -> 0..2]
          /\ rstate' \in [Rooms -> RoomStates] /\ timeLeft' \in [Rooms -> 0..MatchTicks]
          /\ world' \in [Rooms -> (SUBSET Players) \cup {NoWorld}]
        <3>1. CASE LoopTick(r, k)
            <4>1. "mid" \in LoopStates
                BY DEF LoopStates
            <4> QED
                BY <1>2, <2>1, <2>2, <3>1, <4>1 DEF LoopTick, TypeOK
        <3>2. CASE LoopCheck(r, k)
            BY <2>1, <3>2 DEF LoopCheck, TypeOK
        <3>3. CASE LoopCrash(r, k) \/ LoopStop(r, k)
            BY <1>3, <1>4, <3>3 DEF LoopCrash, LoopStop, TypeOK
        <3>4. CASE LoopCancel(r, k)
            BY <1>3, <1>4, <3>4 DEF LoopCancel, TypeOK
        <3> QED
            BY <1>6, <3>1, <3>2, <3>3, <3>4 DEF LoopStep
    <2> QED
        BY <1>6, <2>3
        DEF LoopStep, TypeOK, handlerVars, sessionVars, registryVars, rosterVars
<1>7. CASE FinishMatch(r, k)
    <2>1. proom' \in [Players -> Rooms \cup {NoRoom}] /\ sroom' \in [Players -> Rooms \cup {NoRoom}]
        <3>1. \A S : ForgetRoom(S) => /\ proom' \in [Players -> Rooms \cup {NoRoom}]
                                      /\ sroom' \in [Players -> Rooms \cup {NoRoom}]
            BY DEF ForgetRoom, Override, TypeOK
        <3> QED
            BY <1>7, <3>1 DEF FinishMatch
    <2>2. /\ loop' \in [Rooms -> [Slots -> LoopStates]]
          /\ gameTask' \in [Rooms -> 0..2] /\ cancelled' \in [Rooms -> 0..2]
          /\ rstate' \in [Rooms -> RoomStates] /\ timeLeft' \in [Rooms -> 0..MatchTicks]
          /\ world' \in [Rooms -> (SUBSET Players) \cup {NoWorld}]
        <3>1. "finishing" \in LoopStates /\ gameTask[r] \in 0..2
            BY DEF LoopStates, TypeOK
        <3> QED
            BY <1>2, <1>3, <1>4, <1>5, <1>7, <3>1 DEF FinishMatch, gameVars, TypeOK
    <2> QED
        BY <1>7, <2>1, <2>2 DEF FinishMatch, TypeOK, handlerVars, rosterVars
<1>8. CASE FinishResume(r, k)
    BY <1>3, <1>5, <1>8
    DEF FinishResume, TypeOK, handlerVars, sessionVars, registryVars, rosterVars
<1> QED
    BY <1>6, <1>7, <1>8 DEF GameStep

-----------------------------------------------------------------------------

(* The rest of TypeInv is preserved *)

\* A step that neither opens nor starts a room.
Quiet ==
    /\ reg' \subseteq reg
    /\ \A p \in Players, r \in Rooms : HostTurn(p, r)' => HostTurn(p, r)
    /\ \A r \in Rooms :
        /\ cd'[r] # "none" => cd[r] # "none"
        /\ rstate'[r] = "WAITING" => rstate[r] = "WAITING" /\ cd'[r] = cd[r]
        /\ \A k \in Slots : LoopLive(r, k)' => LoopLive(r, k)
        /\ \A k \in Slots : gameTask'[r] = k => LoopLive(r, k)'

LEMMA QuietStep ==
    ASSUME TypeInv, TypeOK', TargetKnown', Quiet
    PROVE  TypeInv'
<1>1. OneHost'
    BY DEF TypeInv, OneHost, Quiet
<1>2. WaitingRoomsIdle'
    BY DEF TypeInv, TypeOK, WaitingRoomsIdle, NoLoops, Quiet
<1>3. StartsLeft'
    BY DEF TypeInv, StartsLeft, StartDue, NoLoops, Quiet
<1>4. TaskIsLoop'
    BY DEF TaskIsLoop, Quiet
<1> QED
    BY <1>1, <1>2, <1>3, <1>4 DEF TypeInv

LEMMA OpeningStep ==
    ASSUME TypeInv, TypeOK', TargetKnown',
           NEW lineup, IsLineup(lineup), OpenRooms(lineup),
           \A p \in Players, r \in Rooms : HostTurn(p, r)' => HostTurn(p, r),
           \A r \in DOMAIN lineup : cd'[r] # "counting",
           \A r \in Rooms \ DOMAIN lineup : cd'[r] = cd[r]
    PROVE  TypeInv'
<1> DEFINE new == DOMAIN lineup
<1>1. \A r \in new : r \in Rooms /\ Fresh(r)
    BY DEF IsLineup, FreshRooms
<1>2. \A r \in new : \A p \in Players : ~HostTurn(p, r) /\ ~HostTurn(p, r)'
    BY <1>1 DEF Fresh, HostTurn
<1>3. /\ reg' = reg \cup new
      /\ \A r \in new : gameTask'[r] = 0 /\ \A k \in Slots : loop'[r][k] = "none"
      /\ \A r \in Rooms \ new : /\ rstate'[r] = rstate[r] /\ loop'[r] = loop[r]
                               /\ gameTask'[r] = gameTask[r]
    BY OpenRoomsFacts DEF TypeInv
<1>4. \A r \in new : NoLoops(r)'
    BY <1>3 DEF NoLoops, LoopLive
<1>5. \A r \in Rooms \ new : \A k \in Slots : LoopLive(r, k)' <=> LoopLive(r, k)
    BY <1>3 DEF LoopLive
<1>6. OneHost'
    BY DEF TypeInv, OneHost
<1>7. WaitingRoomsIdle'
    <2> SUFFICES ASSUME NEW r \in reg', rstate'[r] = "WAITING"
                 PROVE  (\A p \in Players : ~HostTurn(p, r)') /\ cd'[r] # "counting" /\ NoLoops(r)'
        BY DEF WaitingRoomsIdle
    <2>1. CASE r \in new
        BY <1>2, <1>4, <2>1
    <2>2. CASE r \notin new
        BY <1>3, <1>5, <2>2 DEF TypeInv, TypeOK, WaitingRoomsIdle, NoLoops
    <2> QED
        BY <2>1, <2>2
<1>8. StartsLeft'
    <2> SUFFICES ASSUME NEW r \in Rooms
                 PROVE  /\ StartDue(r)' => \E k \in Slots : ~LoopLive(r, k)'
                        /\ cd'[r] # "none" => \A p \in Players : HostTurn(p, r)' => NoLoops(r)'
        BY DEF StartsLeft
    <2>1. CASE r \in new
        <3>1. 1 \in Slots
            BY DEF Slots
        <3> QED
            BY <1>4, <2>1, <3>1 DEF NoLoops
    <2>2. CASE r \notin new
        BY <1>5, <2>2 DEF TypeInv, StartsLeft, StartDue, NoLoops
    <2> QED
        BY <2>1, <2>2
<1>9. TaskIsLoop'
    <2>1. 0 \notin Slots
        BY DEF Slots
    <2> SUFFICES ASSUME NEW r \in Rooms, NEW k \in Slots, gameTask'[r] = k
                 PROVE  LoopLive(r, k)'
        BY DEF TaskIsLoop
    <2>2. r \notin new
        BY <1>3, <2>1
    <2> QED
        BY <1>3, <1>5, <2>2 DEF TypeInv, TaskIsLoop
<1> QED
    BY <1>6, <1>7, <1>8, <1>9 DEF TypeInv

\* One of the starts that are due takes place and is no longer due.
LEMMA StartingStep ==
    ASSUME TypeInv, TypeOK', TargetKnown', NEW r \in Rooms, StartDue(r), StartGame(r),
           UNCHANGED reg,
           \A p \in Players, t \in Rooms : HostTurn(p, t)' => HostTurn(p, t),
           \A t \in Rooms \ {r} : cd'[t] = cd[t],
           cd'[r] # "none" => /\ cd'[r] = cd[r] /\ NoLoops(r)
                             /\ \A p \in Players : ~HostTurn(p, r)',
           cd'[r] = "none" =>
                \/ \A p \in Players : ~HostTurn(p, r)'
                \/ NoLoops(r)
    PROVE  TypeInv'
<1>1. PICK k \in Slots : /\ ~LoopLive(r, k)
                         /\ loop' = [loop EXCEPT ![r][k] = "new"]
                         /\ gameTask' = [gameTask EXCEPT ![r] = k]
    BY StartGameFacts
<1>2. rstate' = [rstate EXCEPT ![r] = "RUNNING"]
    BY StartGameFacts
<1>3. \A t \in Rooms, j \in Slots : LoopLive(t, j)' <=> LoopLive(t, j) \/ (t = r /\ j = k)
    BY <1>1 DEF LoopLive, TypeInv, TypeOK
<1>4. OneHost'
    BY DEF TypeInv, OneHost
<1>5. WaitingRoomsIdle'
    BY <1>2, <1>3 DEF TypeInv, TypeOK, WaitingRoomsIdle, NoLoops
<1>6. StartsLeft'
    <2> SUFFICES ASSUME NEW t \in Rooms
                 PROVE  /\ StartDue(t)' => \E j \in Slots : ~LoopLive(t, j)'
                        /\ cd'[t] # "none" => \A p \in Players : HostTurn(p, t)' => NoLoops(t)'
        BY DEF StartsLeft
    <2>1. CASE t # r
        BY <1>3, <2>1 DEF TypeInv, StartsLeft, StartDue, NoLoops
    <2>2. CASE t = r
        <3>1. PICK j \in Slots : j # k
            BY DEF Slots
        <3>2. NoLoops(r) => ~LoopLive(r, j)'
            BY <1>3, <3>1 DEF NoLoops
        <3>3. CASE cd'[r] # "none"
            BY <2>2, <3>2, <3>3
        <3>4. CASE cd'[r] = "none"
            BY <2>2, <3>2, <3>4 DEF StartDue
        <3> QED
            BY <3>3, <3>4
    <2> QED
        BY <2>1, <2>2
<1>7. TaskIsLoop'
    BY <1>1, <1>3 DEF TypeInv, TypeOK, TaskIsLoop
<1> QED
    BY <1>4, <1>5, <1>6, <1>7 DEF TypeInv

\* Nothing happens to the countdowns, loops and states of the rooms.
LEMMA RoomsQuiet ==
    ASSUME TypeInv, reg' \subseteq reg, UNCHANGED <<rstate, cd, loop, gameTask>>,
           \A p \in Players, r \in Rooms : HostTurn(p, r)' => HostTurn(p, r)
    PROVE  Quiet
BY DEF Quiet, TypeInv, TaskIsLoop, LoopLive

\* A handler that suspends outside a countdown leaves no other one in it.
LEMMA SuspendQuiet ==
    ASSUME TypeInv, NEW p \in Players, NEW at, NEW t \in Rooms \cup {NoRoom},
           Suspend(p, at, t),
           at \notin {"starting", "counting"},
           at \in {"joining", "dropped"} => t \in Rooms
    PROVE  /\ TargetKnown'
           /\ \A q \in Players, r \in Rooms : HostTurn(q, r)' => HostTurn(q, r)
BY DEF TypeInv, TypeOK, TargetKnown, Suspend, HostTurn

LEMMA StayQuiet ==
    ASSUME TypeInv, UNCHANGED handlerVars
    PROVE  /\ TargetKnown'
           /\ \A q \in Players, r \in Rooms : HostTurn(q, r)' => HostTurn(q, r)
BY DEF TypeInv, TargetKnown, handlerVars, HostTurn

\* Closing a room ends no loop and starts none.
LEMMA CloseQuiet ==
    ASSUME TypeInv, NEW r, Close(r), reg' \subseteq reg, UNCHANGED taskVars,
           \A q \in Players, t \in Rooms : HostTurn(q, t)' => HostTurn(q, t)
    PROVE  Quiet
<1>1. \A t \in Rooms : rstate'[t] = "WAITING" => rstate[t] = "WAITING"
    BY DEF Close, TypeInv, TypeOK
<1> QED
    BY <1>1 DEF Quiet, TypeInv, TaskIsLoop, LoopLive, taskVars

LEMMA DepartQuiet ==
    ASSUME TypeInv, NEW p \in Players, NEW sending, NEW awaiting, NEW over,
           Depart(p, sending, awaiting, over),
           {sending, over} \subseteq {"off", "idle", "leaving"},
           awaiting \in {"leaving", "dropped"}
    PROVE  TargetKnown' /\ Quiet
<1>1. proom[p] \in Rooms \cup {NoRoom} /\ (~NotInRoom(p) => proom[p] \in Rooms)
    BY DEF TypeInv, TypeOK, NotInRoom
<1>2. CASE LeaveOthers(p) /\ Suspend(p, sending, NoRoom)
    BY <1>1, <1>2, SuspendQuiet, RoomsQuiet DEF LeaveOthers, taskVars
<1>3. CASE LeaveAndCancel(p) /\ Suspend(p, awaiting, proom[p])
    <2>1. reg' \subseteq reg /\ UNCHANGED <<rstate, cd, loop, gameTask>> /\ ~NotInRoom(p)
        BY <1>3 DEF LeaveAndCancel
    <2> QED
        BY <1>1, <1>3, <2>1, SuspendQuiet, RoomsQuiet
<1>4. CASE LeaveAndClose(p) /\ Suspend(p, over, NoRoom)
    <2>1. reg' \subseteq reg /\ UNCHANGED taskVars /\ Close(proom[p])
        BY <1>4 DEF LeaveAndClose
    <2> QED
        BY <1>1, <1>4, <2>1, SuspendQuiet, CloseQuiet
<1>5. CASE NotInRoom(p) /\ UNCHANGED roomVars /\ Suspend(p, over, NoRoom)
    BY <1>5, SuspendQuiet, RoomsQuiet DEF roomVars, registryVars, gameVars, taskVars
<1> QED
    BY <1>2, <1>3, <1>4, <1>5 DEF Depart

LEMMA RequestStep ==
    ASSUME TypeInv, NEW p \in Players, Request(p)
    PROVE  TypeInv'
<1>1. TypeOK'
    BY RequestTypes
<1>2. CASE Connect(p)
    BY <1>1, <1>2, QuietStep, RoomsQuiet, SuspendQuiet
    DEF Connect, Return, roomVars, registryVars, gameVars, taskVars
<1>3. CASE JoinQueue(p)
    BY <1>1, <1>3, QuietStep, RoomsQuiet, SuspendQuiet
    DEF JoinQueue, roomVars, registryVars, gameVars, taskVars
<1>4. CASE CancelQueue(p)
    BY <1>1, <1>4, QuietStep, RoomsQuiet, StayQuiet
    DEF CancelQueue, roomVars, registryVars, gameVars, taskVars
<1>5. CASE CreateRoom(p)
    <2>1. CASE LeaveQueue(p) /\ Suspend(p, "creating", NoRoom) /\ UNCHANGED <<sroom, roomVars>>
        BY <1>1, <2>1, QuietStep, RoomsQuiet, SuspendQuiet
        DEF roomVars, registryVars, gameVars, taskVars
    <2>2. CASE OpenPrivateRoom(p) /\ UNCHANGED handlerVars
        <3>1. PICK r \in FreshRooms :
                /\ IsLineup([x \in {r} |-> <<p>>]) /\ OpenRooms([x \in {r} |-> <<p>>])
                /\ cd' = [cd EXCEPT ![r] = "none"]
            BY <2>2, PrivateRoomFacts DEF TypeInv
        <3>2. cd'[r] = "none" /\ \A t \in Rooms \ {r} : cd'[t] = cd[t]
            BY <3>1 DEF FreshRooms, TypeInv, TypeOK
        <3>3. DOMAIN [x \in {r} |-> <<p>>] = {r}
            OBVIOUS
        <3> QED
            BY <1>1, <2>2, <3>1, <3>2, <3>3, StayQuiet, OpeningStep
    <2> QED
        BY <1>5, <2>1, <2>2 DEF CreateRoom
<1>6. CASE \E r \in Rooms : JoinRoom(p, r)
    <2>1. PICK r \in Rooms : JoinRoom(p, r)
        BY <1>6
    <2>2. UNCHANGED <<reg, gameVars, taskVars>>
        BY <2>1 DEF JoinRoom, Seat, registryVars
    <2>3. UNCHANGED handlerVars \/ Suspend(p, "joining", r)
        BY <2>1 DEF JoinRoom
    <2> QED
        BY <1>1, <2>2, <2>3, QuietStep, RoomsQuiet, SuspendQuiet, StayQuiet DEF gameVars, taskVars
<1>7. CASE StartRoom(p)
    <2> DEFINE r == proom[p]
    <2>1. /\ r \in reg /\ r \in Rooms /\ rstate[r] = "WAITING"
          /\ rstate' = [rstate EXCEPT ![r] = "STARTING"]
          /\ Suspend(p, "starting", r)
          /\ UNCHANGED <<reg, cd, loop, gameTask>>
        BY <1>7 DEF StartRoom, MayStart, registryVars, taskVars, TypeInv, TypeOK
    <2>2. (\A q \in Players : ~HostTurn(q, r)) /\ NoLoops(r)
        BY <2>1 DEF TypeInv, WaitingRoomsIdle
    <2>3. \A q \in Players, t \in Rooms :
            HostTurn(q, t)' <=> IF q = p THEN t = r ELSE HostTurn(q, t)
        BY <2>1 DEF HostTurn, Suspend, TypeInv, TypeOK
    <2>4. TargetKnown'
        BY <2>1 DEF TargetKnown, Suspend, TypeInv, TypeOK
    <2>5. OneHost'
        BY <2>2, <2>3 DEF OneHost, TypeInv
    <2>6. \A t \in Rooms, k \in Slots : LoopLive(t, k)' <=> LoopLive(t, k)
        BY <2>1 DEF LoopLive
    <2>7. WaitingRoomsIdle'
        <3>1. \A t \in Rooms : rstate'[t] = "WAITING" => t # r /\ rstate[t] = "WAITING"
            BY <2>1 DEF TypeInv, TypeOK
        <3> QED
            BY <2>1, <2>3, <2>6, <3>1 DEF TypeInv, TypeOK, WaitingRoomsIdle, NoLoops
    <2>8. StartsLeft'
        <3> SUFFICES ASSUME NEW t \in Rooms
                     PROVE  /\ StartDue(t)' => \E k \in Slots : ~LoopLive(t, k)'
                            /\ cd'[t] # "none" => \A q \in Players : HostTurn(q, t)' => NoLoops(t)'
            BY DEF StartsLeft
        <3>1. CASE t = r
            <4>1. 1 \in Slots
                BY DEF Slots
            <4> QED
                BY <2>2, <2>6, <3>1, <4>1 DEF NoLoops
        <3>2. CASE t # r
            BY <2>1, <2>3, <2>6, <3>2 DEF TypeInv, StartsLeft, StartDue, NoLoops
        <3> QED
            BY <3>1, <3>2
    <2>9. TaskIsLoop'
        BY <2>1, <2>6 DEF TypeInv, TaskIsLoop
    <2> QED
        BY <1>1, <2>4, <2>5, <2>7, <2>8, <2>9 DEF TypeInv
<1>8. CASE LeaveRoom(p)
    BY <1>1, <1>8, QuietStep, DepartQuiet DEF LeaveRoom
<1>9. CASE Disconnect(p)
    <2>1. CASE Suspend(p, "dropping", NoRoom) /\ UNCHANGED roomVars
        BY <1>1, <2>1, QuietStep, RoomsQuiet, SuspendQuiet
        DEF roomVars, registryVars, gameVars, taskVars
    <2>2. CASE Depart(p, "off", "dropped", "off")
        BY <1>1, <2>2, QuietStep, DepartQuiet
    <2> QED
        BY <1>9, <2>1, <2>2 DEF Disconnect
<1> QED
    BY <1>2, <1>3, <1>4, <1>5, <1>6, <1>7, <1>8, <1>9 DEF Request

LEMMA ResumeStep ==
    ASSUME TypeInv, NEW p \in Players, HandlerResume(p)
    PROVE  TypeInv'
<1>1. TypeOK'
    BY ResumeTypes
<1>2. CASE TryCreateRoom(p)
    <2>1. PICK lineup \in Lineups :
            /\ OpenRooms(lineup)
            /\ cd' = Override(cd, [r \in DOMAIN lineup |-> "scheduled"])
        BY <1>2 DEF TryCreateRoom
    <2>2. IsLineup(lineup)
        BY LineupsAreLineups DEF TypeInv
    <2>3. DOMAIN lineup \subseteq Rooms
        BY <2>2 DEF IsLineup, FreshRooms
    <2>4. /\ \A r \in DOMAIN lineup : cd'[r] = "scheduled"
          /\ \A r \in Rooms \ DOMAIN lineup : cd'[r] = cd[r]
        BY <2>1, <2>3 DEF Override, TypeInv, TypeOK
    <2>5. Suspend(p, "idle", NoRoom)
        BY <1>2 DEF TryCreateRoom, Return
    <2> QED
        BY <1>1, <2>1, <2>2, <2>4, <2>5, SuspendQuiet, OpeningStep
<1>3. CASE CreateRoomResume(p)
    <2>1. PICK r \in FreshRooms :
            /\ IsLineup([x \in {r} |-> <<p>>]) /\ OpenRooms([x \in {r} |-> <<p>>])
            /\ cd' = [cd EXCEPT ![r] = "none"]
        BY <1>3, PrivateRoomFacts DEF CreateRoomResume, TypeInv
    <2>2. cd'[r] = "none" /\ \A t \in Rooms \ {r} : cd'[t] = cd[t]
        BY <2>1 DEF FreshRooms, TypeInv, TypeOK
    <2>3. DOMAIN [x \in {r} |-> <<p>>] = {r}
        OBVIOUS
    <2>4. Suspend(p, "idle", NoRoom)
        BY <1>3 DEF CreateRoomResume, Return
    <2> QED
        BY <1>1, <2>1, <2>2, <2>3, <2>4, SuspendQuiet, OpeningStep
<1>4. CASE JoinRoomResume(p)
    <2>1. Suspend(p, "idle", NoRoom) /\ UNCHANGED <<reg, gameVars, taskVars>>
        BY <1>4 DEF JoinRoomResume, Return, Seat, registryVars
    <2> QED
        BY <1>1, <2>1, QuietStep, RoomsQuiet, SuspendQuiet DEF gameVars, taskVars
<1>5. CASE HostCountdown(p)
    <2> DEFINE r == tgt[p]
    <2>1. r \in Rooms
        BY <1>5 DEF HostCountdown, TypeInv, TargetKnown
    <2>2. /\ rstate' = [rstate EXCEPT ![r] = "STARTING"]
          /\ UNCHANGED <<reg, cd, loop, gameTask>>
          /\ Suspend(p, "counting", r) /\ pc[p] = "starting"
        BY <1>5 DEF HostCountdown, BeginCountdown, registryVars
    <2>3. TargetKnown' /\ \A q \in Players, t \in Rooms : HostTurn(q, t)' => HostTurn(q, t)
        BY <2>1, <2>2 DEF TypeInv, TypeOK, TargetKnown, Suspend, HostTurn
    <2>4. \A t \in Rooms : rstate'[t] = "WAITING" => rstate[t] = "WAITING"
        BY <2>2 DEF TypeInv, TypeOK
    <2>5. Quiet
        BY <2>2, <2>3, <2>4 DEF Quiet, TypeInv, TaskIsLoop, LoopLive
    <2> QED
        BY <1>1, <2>3, <2>5, QuietStep
<1>6. CASE HostStartsGame(p)
    <2>1. PICK r \in Rooms : r = tgt[p] /\ HostTurn(p, r)
        BY <1>6 DEF HostStartsGame, TypeInv, TargetKnown, HostTurn
    <2>2. StartGame(r) /\ Suspend(p, "idle", NoRoom) /\ UNCHANGED <<reg, cd>>
        BY <1>6, <2>1 DEF HostStartsGame, Return, registryVars
    <2>3. TargetKnown' /\ \A q \in Players, t \in Rooms : HostTurn(q, t)' => HostTurn(q, t)
        BY <2>2, SuspendQuiet
    <2>4. ~HostTurn(p, r)'
        BY <2>2, NameAssumption DEF HostTurn, Suspend, TypeInv, TypeOK
    <2>5. \A q \in Players : ~HostTurn(q, r)'
        BY <2>1, <2>3, <2>4 DEF TypeInv, OneHost
    <2>6. cd[r] # "none" => NoLoops(r)
        BY <2>1 DEF TypeInv, StartsLeft
    <2>7. StartDue(r)
        BY <2>1 DEF StartDue
    <2> QED
        BY <1>1, <2>1, <2>2, <2>3, <2>5, <2>6, <2>7, StartingStep
<1>7. CASE LeaveRoomResume(p)
    <2>1. Suspend(p, "idle", NoRoom)
        BY <1>7 DEF LeaveRoomResume, Return
    <2>2. CASE UNCHANGED roomVars
        BY <1>1, <2>1, <2>2, QuietStep, RoomsQuiet, SuspendQuiet
        DEF roomVars, registryVars, gameVars, taskVars
    <2>3. CASE DestroyResume(p)
        <3>1. Close(tgt[p]) /\ UNCHANGED taskVars /\ UNCHANGED reg
            BY <2>3 DEF DestroyResume, registryVars
        <3> QED
            BY <1>1, <2>1, <3>1, QuietStep, CloseQuiet, SuspendQuiet
    <2> QED
        BY <1>7, <2>2, <2>3 DEF LeaveRoomResume
<1>8. CASE DisconnectFromRoom(p)
    BY <1>1, <1>8, QuietStep, DepartQuiet DEF DisconnectFromRoom
<1>9. CASE DisconnectResume(p)
    <2>1. Suspend(p, "off", NoRoom) /\ Close(tgt[p]) /\ UNCHANGED taskVars /\ UNCHANGED reg
        BY <1>9 DEF DisconnectResume, DestroyResume, registryVars
    <2> QED
        BY <1>1, <2>1, QuietStep, CloseQuiet, SuspendQuiet
<1> QED
    BY <1>2, <1>3, <1>4, <1>5, <1>6, <1>7, <1>8, <1>9 DEF HandlerResume

LEMMA CountdownKeeps ==
    ASSUME TypeInv, NEW r \in Rooms, CountdownStep(r)
    PROVE  TypeInv'
<1>1. TypeOK'
    BY CountdownTypes
<1>2. CASE CountdownBegin(r)
    <2>1. /\ rstate' = [rstate EXCEPT ![r] = "STARTING"]
          /\ cd[r] = "scheduled" /\ cd' = [cd EXCEPT ![r] = "counting"]
          /\ UNCHANGED <<handlerVars, reg, loop, gameTask>>
        BY <1>2 DEF CountdownBegin, BeginCountdown, registryVars
    <2>2. TargetKnown' /\ \A q \in Players, t \in Rooms : HostTurn(q, t)' => HostTurn(q, t)
        BY <2>1, StayQuiet
    <2>3. \A t \in Rooms :
            /\ cd'[t] # "none" => cd[t] # "none"
            /\ rstate'[t] = "WAITING" => rstate[t] = "WAITING" /\ cd'[t] = cd[t]
        BY <2>1 DEF TypeInv, TypeOK
    <2>4. Quiet
        BY <2>1, <2>2, <2>3 DEF Quiet, TypeInv, TaskIsLoop, LoopLive
    <2> QED
        BY <1>1, <2>2, <2>4, QuietStep
<1>3. CASE CountdownEnd(r)
    <2>1. /\ cd[r] = "counting" /\ cd' = [cd EXCEPT ![r] = "none"]
          /\ StartGame(r) /\ UNCHANGED <<handlerVars, reg>>
        BY <1>3 DEF CountdownEnd, registryVars
    <2>2. TargetKnown' /\ \A q \in Players, t \in Rooms : HostTurn(q, t)' => HostTurn(q, t)
        BY <2>1, StayQuiet
    <2>3. cd'[r] = "none" /\ \A t \in Rooms \ {r} : cd'[t] = cd[t]
        BY <2>1 DEF TypeInv, TypeOK
    <2>4. (\A p \in Players : ~HostTurn(p, r)') \/ NoLoops(r)
        BY <2>1, <2>2 DEF TypeInv, StartsLeft
    <2>5. StartDue(r)
        BY <2>1 DEF StartDue
    <2> QED
        BY <1>1, <2>1, <2>2, <2>3, <2>4, <2>5, StartingStep
<1> QED
    BY <1>2, <1>3 DEF CountdownStep

\* A game loop goes on or ends; it opens no room and starts none.
LEMMA GameStepKeeps ==
    ASSUME TypeInv, NEW r \in Rooms, NEW k \in Slots, GameStep(r, k)
    PROVE  TypeInv'
<1>1. TypeOK'
    BY GameStepTypes DEF TypeInv
<1>2. UNCHANGED <<handlerVars, cd>> /\ reg' \subseteq reg
    BY DEF GameStep, LoopStep, FinishMatch, FinishResume, registryVars
<1>3. LoopLive(r, k)
    BY DEF GameStep, LoopStep, LoopTick, LoopCheck, LoopCrash, LoopStop, LoopCancel, FinishMatch,
           FinishResume, LoopLive
<1>4. \/ EndLoop(r, k)
      \/ /\ \E at \in {"top", "mid", "ending", "finishing"} : Go(r, k, at)
         /\ UNCHANGED gameTask
    BY DEF GameStep, LoopStep, LoopTick, LoopCheck, LoopCrash, LoopStop, LoopCancel, FinishMatch,
           FinishResume, CheckWin, ExitLoop
<1>5. \A t \in Rooms, j \in Slots : LoopLive(t, j)' => LoopLive(t, j)
    <2>1. PICK at : Go(r, k, at)
        BY <1>4 DEF EndLoop
    <2> QED
        BY <1>3, <2>1 DEF Go, LoopLive, TypeInv, TypeOK
<1>6. \A t \in Rooms, j \in Slots : gameTask'[t] = j => LoopLive(t, j)'
    <2>1. CASE EndLoop(r, k)
        <3>1. 0 \notin Slots
            BY DEF Slots
        <3> QED
            BY <2>1, <3>1 DEF EndLoop, Go, LoopLive, TypeInv, TypeOK, TaskIsLoop
    <2>2. CASE (\E at \in {"top", "mid", "ending", "finishing"} : Go(r, k, at))
               /\ UNCHANGED gameTask
        BY <2>2 DEF Go, LoopLive, TypeInv, TypeOK, TaskIsLoop
    <2> QED
        BY <1>4, <2>1, <2>2
<1>7. \A t \in Rooms : rstate'[t] = "WAITING" => rstate[t] = "WAITING"
    <2>1. \/ UNCHANGED rstate
          \/ rstate' = [rstate EXCEPT ![r] = "FINISHED"]
          \/ rstate' = [rstate EXCEPT ![r] = IF @ = "RUNNING" THEN "FINISHED" ELSE @]
        BY DEF GameStep, LoopStep, LoopTick, LoopCheck, LoopCrash, LoopStop, LoopCancel,
               FinishMatch, FinishResume, CheckWin, ExitLoop, Close, gameVars
    <2> QED
        BY <2>1 DEF TypeInv, TypeOK
<1>8. TargetKnown' /\ \A q \in Players, t \in Rooms : HostTurn(q, t)' => HostTurn(q, t)
    BY <1>2, StayQuiet
<1>9. Quiet
    BY <1>2, <1>5, <1>6, <1>7, <1>8 DEF Quiet
<1> QED
    BY <1>1, <1>8, <1>9, QuietStep

-----------------------------------------------------------------------------

LEMMA InitTypes == Init => TypeInv
<1> SUFFICES ASSUME Init PROVE TypeInv
    OBVIOUS
<1>1. MatchTicks \in 0..MatchTicks /\ 0 \in 0..2 /\ 0 \notin Slots
    BY ClockAssumption DEF Slots
<1>2. TypeOK
    BY <1>1 DEF Init, TypeOK, HandlerStates, RoomStates, LoopStates
<1>3. TargetKnown /\ \A p \in Players, r \in Rooms : ~HostTurn(p, r)
    BY DEF Init, TargetKnown, HostTurn
<1>4. \A r \in Rooms : cd[r] = "none" /\ gameTask[r] = 0
    BY DEF Init
<1> QED
    BY <1>1, <1>2, <1>3, <1>4
    DEF Init, TypeInv, OneHost, WaitingRoomsIdle, StartsLeft, StartDue, TaskIsLoop

LEMMA TypeInvStep == TypeInv /\ [Next]_vars => TypeInv'
<1> SUFFICES ASSUME TypeInv, [Next]_vars PROVE TypeInv'
    OBVIOUS
<1>1. CASE Next
    <2>1. \/ \E p \in Players : Request(p) \/ HandlerResume(p)
          \/ \E r \in Rooms : CountdownStep(r)
          \/ \E r \in Rooms, k \in Slots : GameStep(r, k)
        BY <1>1 DEF Next
    <2> QED
        BY <2>1, RequestStep, ResumeStep, CountdownKeeps, GameStepKeeps
<1>2. CASE UNCHANGED vars
    BY <1>2 DEF vars, handlerVars, sessionVars, roomVars, registryVars, rosterVars, gameVars,
       taskVars, TypeInv, TypeOK, TargetKnown, OneHost, WaitingRoomsIdle, StartsLeft,
       StartDue, TaskIsLoop, HostTurn, NoLoops, LoopLive
<1> QED
    BY <1>1, <1>2

\* In every reachable state the variables have their types; in particular no room
\* ever needs a third game loop, however its starts, matches and departures
\* interleave.
THEOREM TypeCorrect == Spec => []TypeOK
<1>1. TypeInv => TypeOK
    BY DEF TypeInv
<1> QED
    BY <1>1, InitTypes, TypeInvStep, PTL DEF Spec

-----------------------------------------------------------------------------

(* Places *)

\* A session exists from the connection to the disconnection, and a player whose
\* handler is entering or has left a room is in none.
HandlerPlaces ==
    \A p \in Players :
        /\ p \in sess <=> pc[p] \notin {"off", "dropping", "dropped"}
        /\ p \notin sess => sroom[p] = NoRoom
        /\ pc[p] \in {"off", "creating", "joining", "leaving", "dropped"} =>
            p \notin inq /\ proom[p] = NoRoom

\* The rooms and their members.
RosterInv == RegistryAgrees /\ RosterBounded /\ HostLeads

\* The players and the handlers that move them.
PlaceInv == SessionAgrees /\ QueueExclusive /\ HandlerPlaces

-----------------------------------------------------------------------------

(* Rosters *)

\* list.remove on a roster: p goes, the others keep their order.
LEMMA WithoutFacts ==
    ASSUME NEW S, NEW s \in Seq(S), IsInjective(s), NEW p \in Range(s)
    PROVE  /\ Range(Without(s, p)) = Range(s) \ {p}
           /\ IsInjective(Without(s, p))
           /\ Len(Without(s, p)) = Len(s) - 1
           /\ s[1] # p => Without(s, p)[1] = s[1]
<1> DEFINE i == CHOOSE j \in DOMAIN s : s[j] = p
           n == Len(s) - 1
           t == [j \in 1..n |-> IF j < i THEN s[j] ELSE s[j + 1]]
<1>1. Without(s, p) = t
    BY DEF Without
<1>2. n \in Nat /\ DOMAIN s = 1..(n + 1)
    BY DEF Range
<1>3. i \in 1..(n + 1) /\ s[i] = p
    BY <1>2 DEF Range
<1>4. DOMAIN t = 1..n /\ \A j \in 1..n : t[j] = IF j < i THEN s[j] ELSE s[j + 1]
    OBVIOUS
<1>5. Len(t) = n
    BY <1>2, <1>4
<1> HIDE DEF i, n, t
<1>6. \A j, l \in 1..(n + 1) : s[j] = s[l] => j = l
    BY <1>2 DEF IsInjective
<1>7. \A j \in 1..n : \E l \in 1..(n + 1) : l # i /\ t[j] = s[l] /\ l = IF j < i THEN j ELSE j + 1
    <2> TAKE j \in 1..n
    <2>1. CASE j < i
        BY <1>2, <1>3, <1>4, <2>1
    <2>2. CASE ~(j < i)
        BY <1>2, <1>3, <1>4, <2>2
    <2> QED
        BY <2>1, <2>2
<1>8. \A l \in 1..(n + 1) : l # i => \E j \in 1..n : t[j] = s[l]
    <2> TAKE l \in 1..(n + 1)
    <2> HAVE l # i
    <2>1. CASE l < i
        BY <1>2, <1>3, <1>4, <2>1
    <2>2. CASE l > i
        <3>1. l - 1 \in 1..n /\ ~(l - 1 < i) /\ (l - 1) + 1 = l
            BY <1>2, <1>3, <2>2
        <3>2. t[l - 1] = s[l]
            BY <1>4, <3>1
        <3> QED
            BY <3>1, <3>2
    <2> QED
        BY <1>2, <1>3, <2>1, <2>2
<1>9. Range(t) = Range(s) \ {p}
    <2>1. ASSUME NEW x \in Range(t) PROVE x \in Range(s) \ {p}
        <3>1. PICK j \in 1..n : x = t[j]
            BY <1>4 DEF Range
        <3>2. PICK l \in 1..(n + 1) : l # i /\ x = s[l]
            BY <1>7, <3>1
        <3> QED
            BY <1>2, <1>3, <1>6, <3>2 DEF Range
    <2>2. ASSUME NEW x \in Range(s) \ {p} PROVE x \in Range(t)
        <3>1. PICK l \in 1..(n + 1) : x = s[l] /\ l # i
            BY <1>2, <1>3 DEF Range
        <3>2. PICK j \in 1..n : t[j] = x
            BY <1>8, <3>1
        <3> QED
            BY <1>4, <3>2 DEF Range
    <2> QED
        BY <2>1, <2>2
<1>10. IsInjective(t)
    <2> SUFFICES ASSUME NEW a \in 1..n, NEW b \in 1..n, t[a] = t[b] PROVE a = b
        BY <1>4 DEF IsInjective
    <2>1. PICK l \in 1..(n + 1) : t[a] = s[l] /\ l = IF a < i THEN a ELSE a + 1
        BY <1>7
    <2>2. PICK m \in 1..(n + 1) : t[b] = s[m] /\ m = IF b < i THEN b ELSE b + 1
        BY <1>7
    <2>3. l = m
        BY <1>6, <2>1, <2>2
    <2> QED
        BY <1>2, <1>3, <2>1, <2>2, <2>3
<1>11. s[1] # p => t[1] = s[1]
    <2> HAVE s[1] # p
    <2>1. 1 \in 1..n /\ 1 < i
        BY <1>2, <1>3
    <2> QED
        BY <1>4, <2>1
<1>12. Len(t) = Len(s) - 1
    BY <1>5 DEF n
<1> QED
    BY <1>1, <1>9, <1>10, <1>11, <1>12

\* Appending a newcomer.
LEMMA AppendFacts ==
    ASSUME NEW S, NEW s \in Seq(S), IsInjective(s), NEW p \in S, p \notin Range(s)
    PROVE  /\ Range(Append(s, p)) = Range(s) \cup {p}
           /\ IsInjective(Append(s, p))
           /\ Append(s, p) # <<>>
           /\ s # <<>> => Append(s, p)[1] = s[1]
<1> DEFINE n == Len(s)
           t == Append(s, p)
<1>1. n \in Nat /\ DOMAIN s = 1..n
    OBVIOUS
<1>2. DOMAIN t = 1..(n + 1) /\ t \in Seq(S) /\ Len(t) = n + 1
    OBVIOUS
<1>3. \A j \in 1..(n + 1) : t[j] = IF j = n + 1 THEN p ELSE s[j]
    OBVIOUS
<1>4. \A j \in 1..n : s[j] \in Range(s)
    BY <1>1 DEF Range
<1> HIDE DEF n, t
<1>5. Range(t) = Range(s) \cup {p}
    <2>1. ASSUME NEW x \in Range(t) PROVE x \in Range(s) \cup {p}
        BY <1>1, <1>2, <1>3, <1>4 DEF Range
    <2>2. p \in Range(t)
        <3>1. n + 1 \in 1..(n + 1)
            BY <1>1
        <3> QED
            BY <1>2, <1>3, <3>1 DEF Range
    <2>3. ASSUME NEW x \in Range(s) PROVE x \in Range(t)
        <3>1. PICK j \in 1..n : x = s[j]
            BY <1>1 DEF Range
        <3>2. j \in 1..(n + 1) /\ t[j] = x
            BY <1>1, <1>3, <3>1
        <3> QED
            BY <1>2, <3>2 DEF Range
    <2> QED
        BY <2>1, <2>2, <2>3
<1>6. IsInjective(t)
    <2> SUFFICES ASSUME NEW a \in 1..(n + 1), NEW b \in 1..(n + 1), t[a] = t[b] PROVE a = b
        BY <1>2 DEF IsInjective
    <2>1. CASE a = n + 1 \/ b = n + 1
        BY <1>1, <1>3, <1>4, <2>1
    <2>2. CASE a # n + 1 /\ b # n + 1
        BY <1>1, <1>3, <2>2 DEF IsInjective
    <2> QED
        BY <2>1, <2>2
<1>7. t # <<>>
    BY <1>1, <1>2
<1>8. s # <<>> => t[1] = s[1]
    <2> HAVE s # <<>>
    <2>1. n >= 1
        BY DEF n
    <2> QED
        BY <1>1, <1>3, <2>1
<1> QED
    BY <1>5, <1>6, <1>7, <1>8 DEF t

\* New rooms for players who are in none.
LEMMA OpeningRosters ==
    ASSUME TypeOK, RosterInv, NEW lineup, IsLineup(lineup), OpenRooms(lineup),
           \A r \in DOMAIN lineup : IsInjective(lineup[r]) /\ Len(lineup[r]) <= MaxPlayers,
           \A r, s \in DOMAIN lineup : r # s => Range(lineup[r]) \cap Range(lineup[s]) = {},
           \A p \in Seated(lineup) : proom[p] = NoRoom
    PROVE  RosterInv'
<1> DEFINE new == DOMAIN lineup
<1>1. \A r \in new : r \in Rooms /\ r \notin reg
    BY DEF IsLineup, FreshRooms, Fresh
<1>2. /\ reg' = reg \cup new
      /\ \A p \in Seated(lineup) : proom'[p] \in new /\ p \in Range(lineup[proom'[p]])
      /\ \A p \in Players \ Seated(lineup) : proom'[p] = proom[p]
      /\ \A r \in new : roster'[r] = lineup[r] /\ host'[r] = lineup[r][1]
      /\ \A r \in Rooms \ new : roster'[r] = roster[r] /\ host'[r] = host[r]
    BY OpenRoomsFacts
<1>3. \A p \in Players, r \in new : p \in Range(lineup[r]) => p \in Seated(lineup)
    BY DEF Seated
<1>4. RegistryAgrees'
    <2> SUFFICES ASSUME NEW p \in Players, NEW r \in Rooms
                 PROVE  proom'[p] = r <=> r \in reg' /\ p \in Range(roster'[r])
        BY DEF RegistryAgrees
    <2>1. proom[p] = r <=> r \in reg /\ p \in Range(roster[r])
        BY DEF RosterInv, RegistryAgrees
    <2>2. CASE r \in new
        <3>1. p \in Seated(lineup) => (proom'[p] = r <=> p \in Range(lineup[r]))
            BY <1>2, <2>2
        <3>2. p \notin Seated(lineup) => proom'[p] # r /\ p \notin Range(lineup[r])
            BY <1>1, <1>2, <1>3, <2>1, <2>2
        <3> QED
            BY <1>2, <2>2, <3>1, <3>2
    <2>3. CASE r \notin new
        BY <1>2, <2>1, <2>3, NameAssumption
    <2> QED
        BY <2>2, <2>3
<1>5. RosterBounded'
    <2> SUFFICES ASSUME NEW r \in reg'
                 PROVE  roster'[r] # <<>> /\ Len(roster'[r]) <= MaxPlayers /\ IsInjective(roster'[r])
        BY DEF RosterBounded
    <2>1. CASE r \in new
        BY <1>2, <2>1 DEF IsLineup
    <2>2. CASE r \notin new
        BY <1>2, <2>2 DEF RosterInv, RosterBounded, TypeOK
    <2> QED
        BY <2>1, <2>2
<1>6. HostLeads'
    BY <1>2 DEF HostLeads, RosterInv, TypeOK
<1> QED
    BY <1>4, <1>5, <1>6 DEF RosterInv

\* A private room for p, who is in none.
LEMMA PrivateRosters ==
    ASSUME TypeOK, RosterInv, NEW p \in Players, proom[p] = NoRoom, OpenPrivateRoom(p)
    PROVE  /\ RosterInv'
           /\ \A q \in Players \ {p} : proom'[q] = proom[q] /\ sroom'[q] = sroom[q]
           /\ p \in sess => sroom'[p] = proom'[p]
           /\ p \notin sess => sroom'[p] = sroom[p]
           /\ listen' = listen \ {p}
<1>1. PICK r \in FreshRooms :
        /\ IsLineup([x \in {r} |-> <<p>>]) /\ OpenRooms([x \in {r} |-> <<p>>])
        /\ listen' = listen \ {p}
    BY PrivateRoomFacts
<1> DEFINE lineup == [x \in {r} |-> <<p>>]
<1>2. DOMAIN lineup = {r} /\ lineup[r] = <<p>>
    OBVIOUS
<1>3. Range(<<p>>) = {p} /\ IsInjective(<<p>>) /\ Len(<<p>>) = 1
    <2>1. DOMAIN <<p>> = {1} /\ Len(<<p>>) = 1 /\ <<p>>[1] = p
        OBVIOUS
    <2> QED
        BY <2>1 DEF Range, IsInjective
<1>4. Seated(lineup) = {p}
    BY <1>2, <1>3 DEF Seated
<1> HIDE DEF lineup
<1>5. 1 <= MaxPlayers
    BY SizeAssumption
<1>6. RosterInv'
    <2>1. \A x, s \in DOMAIN lineup : x # s => Range(lineup[x]) \cap Range(lineup[s]) = {}
        BY <1>2
    <2>2. IsLineup(lineup) /\ OpenRooms(lineup)
        BY <1>1 DEF lineup
    <2> QED
        BY <1>2, <1>3, <1>4, <1>5, <2>1, <2>2, OpeningRosters
<1>7. /\ \A q \in Players \ Seated(lineup) : proom'[q] = proom[q]
      /\ \A q \in Players :
            sroom'[q] = IF q \in Seated(lineup) \cap sess THEN proom'[q] ELSE sroom[q]
    BY <1>1, OpenRoomsFacts DEF lineup
<1> QED
    BY <1>1, <1>4, <1>6, <1>7

\* A player who is in no room joins one with a free seat.
LEMMA SeatRosters ==
    ASSUME TypeOK, RosterInv, NEW p \in Players, NEW r \in Rooms, JoinAllowed(p, r), Seat(p, r)
    PROVE  RosterInv'
<1> DEFINE t == Append(roster[r], p)
<1>1. r \in reg /\ proom[p] = NoRoom /\ Len(roster[r]) < MaxPlayers
    BY DEF JoinAllowed
<1>2. roster[r] \in Seq(Players) /\ IsInjective(roster[r]) /\ roster[r] # <<>>
    BY <1>1 DEF RosterInv, RosterBounded, TypeOK
<1>3. p \notin Range(roster[r])
    BY <1>1, NameAssumption DEF RosterInv, RegistryAgrees
<1>4. /\ Range(t) = Range(roster[r]) \cup {p} /\ IsInjective(t) /\ t # <<>>
      /\ t[1] = roster[r][1]
    BY <1>2, <1>3, AppendFacts
<1>5. Len(t) <= MaxPlayers
    BY <1>1, <1>2, SizeAssumption
<1>6. /\ reg' = reg /\ host' = host
      /\ \A x \in Rooms : roster'[x] = IF x = r THEN t ELSE roster[x]
      /\ \A q \in Players : proom'[q] = IF q = p THEN r ELSE proom[q]
    BY DEF Seat, TypeOK
<1> HIDE DEF t
<1>7. RegistryAgrees'
    <2> SUFFICES ASSUME NEW q \in Players, NEW x \in Rooms
                 PROVE  proom'[q] = x <=> x \in reg' /\ q \in Range(roster'[x])
        BY DEF RegistryAgrees
    <2>1. proom[q] = x <=> x \in reg /\ q \in Range(roster[x])
        BY DEF RosterInv, RegistryAgrees
    <2> QED
        BY <1>1, <1>4, <1>6, <2>1, NameAssumption
<1>8. RosterBounded'
    BY <1>4, <1>5, <1>6 DEF RosterInv, RosterBounded, TypeOK
<1>9. HostLeads'
    BY <1>4, <1>6 DEF RosterInv, HostLeads, TypeOK
<1> QED
    BY <1>7, <1>8, <1>9 DEF RosterInv

\* A player leaves; the last one takes the room out of the registry.
LEMMA DepartRosters ==
    ASSUME TypeOK, RosterInv, NEW p \in Players, NEW sending, NEW awaiting, NEW over,
           Depart(p, sending, awaiting, over)
    PROVE  RosterInv' /\ proom' = [proom EXCEPT ![p] = NoRoom]
<1> DEFINE r == proom[p]
           rest == Without(roster[r], p)
<1>1. CASE NotInRoom(p) /\ UNCHANGED roomVars
    <2>1. r = NoRoom
        BY <1>1 DEF NotInRoom, RosterInv, RegistryAgrees, TypeOK
    <2> QED
        BY <1>1, <2>1 DEF roomVars, registryVars, rosterVars, TypeOK, RosterInv, RegistryAgrees,
           RosterBounded, HostLeads
<1>2. CASE ~NotInRoom(p) /\ (LeaveOthers(p) \/ LeaveAndCancel(p) \/ LeaveAndClose(p))
    <2>1. r \in reg /\ r \in Rooms
        BY <1>2 DEF NotInRoom, TypeOK
    <2>2. /\ roster[r] \in Seq(Players) /\ IsInjective(roster[r])
          /\ Len(roster[r]) <= MaxPlayers /\ p \in Range(roster[r])
        BY <2>1 DEF RosterInv, RosterBounded, RegistryAgrees, TypeOK
    <2>3. /\ Range(rest) = Range(roster[r]) \ {p} /\ IsInjective(rest)
          /\ Len(rest) = Len(roster[r]) - 1
          /\ roster[r][1] # p => rest[1] = roster[r][1]
        BY <2>2, WithoutFacts
    <2>4. Len(rest) <= MaxPlayers
        BY <2>2, <2>3, SizeAssumption
    <2> HIDE DEF rest
    <2>5. RemovePlayer(r, p) /\ proom' = [proom EXCEPT ![p] = NoRoom]
        BY <1>2 DEF LeaveOthers, LeaveAndCancel, LeaveAndClose
    <2>6. /\ \A x \in Rooms : roster'[x] = IF x = r THEN rest ELSE roster[x]
          /\ \A x \in Rooms : host'[x] = IF x = r /\ host[r] = p THEN Heir(rest) ELSE host[x]
          /\ \A q \in Players : proom'[q] = IF q = p THEN NoRoom ELSE proom[q]
        BY <2>5 DEF RemovePlayer, rest, TypeOK
    <2>7. \A q \in Players, x \in Rooms : proom[q] = x <=> x \in reg /\ q \in Range(roster[x])
        BY DEF RosterInv, RegistryAgrees
    <2>8. CASE LeaveOthers(p)
        <3>1. reg' = reg /\ \E q \in Range(roster[r]) : q # p
            BY <2>8 DEF LeaveOthers, LastMember
        <3>2. rest # <<>>
            <4>1. \E q : q \in Range(rest)
                BY <2>3, <3>1
            <4>2. Range(<<>>) = {}
                BY DEF Range
            <4> QED
                BY <4>1, <4>2
        <3>3. RegistryAgrees'
            BY <2>1, <2>3, <2>6, <2>7, <3>1, NameAssumption DEF RegistryAgrees
        <3>4. RosterBounded'
            BY <2>3, <2>4, <2>6, <3>1, <3>2 DEF RosterInv, RosterBounded, TypeOK
        <3>5. HostLeads'
            BY <2>3, <2>6, <3>1, <3>2 DEF RosterInv, HostLeads, Heir, TypeOK
        <3> QED
            BY <2>5, <3>3, <3>4, <3>5 DEF RosterInv
    <2>9. CASE LeaveAndCancel(p) \/ LeaveAndClose(p)
        <3>1. reg' = reg \ {r} /\ \A q \in Range(roster[r]) : q = p
            BY <2>9 DEF LeaveAndCancel, LeaveAndClose, LastMember
        <3>2. RegistryAgrees'
            <4> SUFFICES ASSUME NEW q \in Players, NEW x \in Rooms
                         PROVE  proom'[q] = x <=> x \in reg' /\ q \in Range(roster'[x])
                BY DEF RegistryAgrees
            <4>1. CASE x = r
                BY <2>1, <2>6, <2>7, <3>1, <4>1, NameAssumption
            <4>2. CASE x # r
                BY <2>1, <2>6, <2>7, <3>1, <4>2, NameAssumption
            <4> QED
                BY <4>1, <4>2
        <3>3. RosterBounded' /\ HostLeads'
            BY <2>6, <3>1 DEF RosterInv, RosterBounded, HostLeads, TypeOK
        <3> QED
            BY <2>5, <3>2, <3>3 DEF RosterInv
    <2> QED
        BY <1>2, <2>8, <2>9
<1> QED
    BY <1>1, <1>2 DEF Depart, LeaveOthers, LeaveAndCancel, LeaveAndClose

\* A finished match takes its room out of the registry and frees the members.
LEMMA FinishRosters ==
    ASSUME TypeOK, RosterInv, NEW r \in Rooms, NEW k \in Slots, FinishMatch(r, k)
    PROVE  /\ RosterInv'
           /\ \A p \in Players : proom'[p] = IF proom[p] = r THEN NoRoom ELSE proom[p]
           /\ \A p \in sess : sroom'[p] = IF proom[p] = r THEN NoRoom ELSE sroom[p]
           /\ \A p \in Players \ sess : sroom'[p] = sroom[p]
<1> DEFINE S == IF r \in reg THEN Range(roster[r]) ELSE {}
<1>1. \A p \in Players : p \in S <=> proom[p] = r
    BY DEF RosterInv, RegistryAgrees
<1>2. reg' = reg \ {r} /\ UNCHANGED <<roster, host>> /\ ForgetRoom(S)
    BY DEF FinishMatch, rosterVars
<1> HIDE DEF S
<1>3. \A p \in Players : proom'[p] = IF p \in S THEN NoRoom ELSE proom[p]
    BY <1>2 DEF ForgetRoom, Override, TypeOK
<1>4. \A p \in Players : sroom'[p] = IF p \in S \cap sess THEN NoRoom ELSE sroom[p]
    BY <1>2 DEF ForgetRoom, Override, TypeOK
<1>5. RegistryAgrees'
    <2> SUFFICES ASSUME NEW q \in Players, NEW x \in Rooms
                 PROVE  proom'[q] = x <=> x \in reg' /\ q \in Range(roster'[x])
        BY DEF RegistryAgrees
    <2>1. proom[q] = x <=> x \in reg /\ q \in Range(roster[x])
        BY DEF RosterInv, RegistryAgrees
    <2> QED
        BY <1>1, <1>2, <1>3, <2>1, NameAssumption
<1>6. RosterBounded' /\ HostLeads'
    BY <1>2 DEF RosterInv, RosterBounded, HostLeads
<1> QED
    BY <1>1, <1>3, <1>4, <1>5, <1>6 DEF RosterInv, TypeOK

-----------------------------------------------------------------------------

(* Players and handlers *)

\* A step that changes the place of p alone keeps PlaceInv if p keeps its part.
PlaceOf(p) ==
    /\ p \in sess => sroom[p] = proom[p]
    /\ p \in inq => p \in sess /\ proom[p] = NoRoom
    /\ p \in listen => p \in inq
    /\ p \in sess <=> pc[p] \notin {"off", "dropping", "dropped"}
    /\ p \notin sess => sroom[p] = NoRoom
    /\ pc[p] \in {"off", "creating", "joining", "leaving", "dropped"} =>
        p \notin inq /\ proom[p] = NoRoom

LEMMA PlaceByPlayer ==
    ASSUME TypeOK
    PROVE  PlaceInv <=> \A p \in Players : PlaceOf(p)
BY DEF TypeOK, PlaceInv, SessionAgrees, QueueExclusive, HandlerPlaces, PlaceOf

LEMMA PlaceByPlayerNext ==
    ASSUME TypeOK'
    PROVE  (\A p \in Players : PlaceOf(p)') => PlaceInv'
BY DEF TypeOK, PlaceInv, SessionAgrees, QueueExclusive, HandlerPlaces, PlaceOf

\* The others stay where they are.
OthersStay(p) ==
    \A q \in Players \ {p} :
        /\ q \in sess' <=> q \in sess
        /\ q \in inq' <=> q \in inq
        /\ q \in listen' <=> q \in listen
        /\ proom'[q] = proom[q] /\ sroom'[q] = sroom[q] /\ pc'[q] = pc[q]

LEMMA OneMoves ==
    ASSUME TypeOK, TypeOK', PlaceInv, NEW p \in Players, OthersStay(p), PlaceOf(p)'
    PROVE  PlaceInv'
<1>1. \A q \in Players : PlaceOf(q)
    BY PlaceByPlayer
<1>2. ASSUME NEW q \in Players \ {p} PROVE PlaceOf(q)'
    BY <1>1, <1>2 DEF OthersStay, PlaceOf
<1> QED
    BY <1>2, PlaceByPlayerNext

LEMMA RequestPlaces ==
    ASSUME TypeInv, TypeOK', RosterInv, PlaceInv, NEW p \in Players, Request(p)
    PROVE  RosterInv' /\ PlaceInv'
<1>1. TypeOK /\ PlaceOf(p)
    BY PlaceByPlayer DEF TypeInv
<1>2. \A at, t : Suspend(p, at, t) =>
        pc'[p] = at /\ \A q \in Players \ {p} : pc'[q] = pc[q]
    BY <1>1 DEF Suspend, TypeOK
<1>3. UNCHANGED handlerVars => UNCHANGED pc
    BY DEF handlerVars
<1>4. UNCHANGED <<reg, proom, roster, host>> => RosterInv'
    BY DEF RosterInv, RegistryAgrees, RosterBounded, HostLeads
<1>5. UNCHANGED roomVars => UNCHANGED <<reg, proom, roster, host>>
    BY DEF roomVars, registryVars, rosterVars
<1>6. LeaveQueue(p) => /\ inq' = inq \ {p} /\ (p \in inq => listen' = listen \ {p})
                       /\ (p \notin inq => listen' = listen)
    BY DEF LeaveQueue
<1>7. CASE Connect(p)
    <2>1. /\ pc[p] = "off" /\ Suspend(p, "idle", NoRoom) /\ sess' = sess \cup {p}
          /\ UNCHANGED <<sroom, listen, inq, roomVars>>
        BY <1>7 DEF Connect, Return
    <2>2. PlaceOf(p)' /\ OthersStay(p)
        BY <1>1, <1>2, <1>5, <2>1 DEF PlaceOf, OthersStay
    <2> QED
        BY <1>1, <1>4, <1>5, <2>1, <2>2, OneMoves
<1>8. CASE JoinQueue(p)
    <2>1. /\ pc[p] = "idle" /\ sroom[p] = NoRoom /\ Suspend(p, "enqueued", NoRoom)
          /\ inq' = inq \cup {p} /\ listen' = listen \cup {p}
          /\ UNCHANGED <<sess, sroom, roomVars>>
        BY <1>8 DEF JoinQueue, MayQueue
    <2>2. PlaceOf(p)' /\ OthersStay(p)
        BY <1>1, <1>2, <1>5, <2>1 DEF PlaceOf, OthersStay
    <2> QED
        BY <1>1, <1>4, <1>5, <2>1, <2>2, OneMoves
<1>9. CASE CancelQueue(p)
    <2>1. LeaveQueue(p) /\ UNCHANGED <<handlerVars, sess, sroom, roomVars>>
        BY <1>9 DEF CancelQueue
    <2>2. PlaceOf(p)' /\ OthersStay(p)
        BY <1>1, <1>3, <1>5, <1>6, <2>1 DEF PlaceOf, OthersStay
    <2> QED
        BY <1>1, <1>4, <1>5, <2>1, <2>2, OneMoves
<1>10. CASE CreateRoom(p)
    <2>1. pc[p] = "idle" /\ sroom[p] = NoRoom /\ inq' = inq \ {p} /\ UNCHANGED sess
        BY <1>10 DEF CreateRoom
    <2>2. p \in sess /\ proom[p] = NoRoom
        BY <1>1, <2>1 DEF PlaceOf
    <2>3. CASE LeaveQueue(p) /\ Suspend(p, "creating", NoRoom) /\ UNCHANGED <<sroom, roomVars>>
        <3>1. PlaceOf(p)' /\ OthersStay(p)
            BY <1>1, <1>2, <1>5, <1>6, <2>1, <2>2, <2>3 DEF PlaceOf, OthersStay
        <3> QED
            BY <1>1, <1>4, <1>5, <2>3, <3>1, OneMoves
    <2>4. CASE OpenPrivateRoom(p) /\ UNCHANGED handlerVars
        <3>1. /\ RosterInv'
              /\ \A q \in Players \ {p} : proom'[q] = proom[q] /\ sroom'[q] = sroom[q]
              /\ sroom'[p] = proom'[p] /\ listen' = listen \ {p}
            BY <1>1, <2>2, <2>4, PrivateRosters
        <3>2. PlaceOf(p)' /\ OthersStay(p)
            BY <1>1, <1>3, <2>1, <2>2, <2>4, <3>1 DEF PlaceOf, OthersStay
        <3> QED
            BY <1>1, <3>1, <3>2, OneMoves
    <2> QED
        BY <1>10, <2>3, <2>4 DEF CreateRoom
<1>11. CASE \E r \in Rooms : JoinRoom(p, r)
    <2>1. PICK r \in Rooms : JoinRoom(p, r)
        BY <1>11
    <2>2. pc[p] = "idle" /\ sroom[p] = NoRoom /\ inq' = inq \ {p} /\ UNCHANGED sess
        BY <2>1 DEF JoinRoom
    <2>3. p \in sess /\ proom[p] = NoRoom
        BY <1>1, <2>2 DEF PlaceOf
    <2>4. CASE LeaveQueue(p) /\ Suspend(p, "joining", r)
               /\ UNCHANGED <<sroom, registryVars, rosterVars>>
        <3>1. PlaceOf(p)' /\ OthersStay(p)
            BY <1>1, <1>2, <1>6, <2>2, <2>3, <2>4 DEF PlaceOf, OthersStay, registryVars
        <3> QED
            BY <1>1, <1>4, <2>4, <3>1, OneMoves DEF registryVars, rosterVars
    <2>5. CASE UNCHANGED handlerVars /\ JoinAllowed(p, r) /\ Seat(p, r)
        <3>1. RosterInv'
            BY <1>1, <2>5, SeatRosters
        <3>2. PlaceOf(p)' /\ OthersStay(p)
            BY <1>1, <1>3, <2>2, <2>3, <2>5 DEF PlaceOf, OthersStay, Seat, TypeOK
        <3> QED
            BY <1>1, <3>1, <3>2, OneMoves
    <2>6. CASE UNCHANGED handlerVars /\ LeaveQueue(p)
               /\ UNCHANGED <<sroom, registryVars, rosterVars>>
        <3>1. PlaceOf(p)' /\ OthersStay(p)
            BY <1>1, <1>3, <1>6, <2>2, <2>3, <2>6 DEF PlaceOf, OthersStay, registryVars
        <3> QED
            BY <1>1, <1>4, <2>6, <3>1, OneMoves DEF registryVars, rosterVars
    <2> QED
        BY <2>1, <2>4, <2>5, <2>6 DEF JoinRoom
<1>12. CASE StartRoom(p)
    <2>1. /\ pc[p] = "idle" /\ Suspend(p, "starting", proom[p])
          /\ UNCHANGED <<sess, sroom, listen, inq, reg, proom, roster, host>>
        BY <1>12 DEF StartRoom, sessionVars, registryVars, rosterVars
    <2>2. PlaceOf(p)' /\ OthersStay(p)
        BY <1>1, <1>2, <2>1 DEF PlaceOf, OthersStay
    <2> QED
        BY <1>1, <1>4, <2>1, <2>2, OneMoves
<1>13. CASE LeaveRoom(p)
    <2>1. /\ pc[p] = "idle" /\ Depart(p, "leaving", "leaving", "idle")
          /\ sroom' = [sroom EXCEPT ![p] = NoRoom]
          /\ listen' = IF pc'[p] = "idle" THEN listen \ {p} ELSE listen
          /\ UNCHANGED <<sess, inq>>
        BY <1>13 DEF LeaveRoom
    <2>2. RosterInv' /\ proom' = [proom EXCEPT ![p] = NoRoom]
        BY <1>1, <2>1, DepartRosters
    <2>3. \/ pc'[p] = "leaving" /\ proom[p] \in reg
          \/ pc'[p] = "idle"
        BY <1>2, <2>1 DEF Depart, LeaveOthers, LeaveAndCancel, LeaveAndClose, NotInRoom
    <2>4. \A q \in Players \ {p} : pc'[q] = pc[q]
        BY <1>2, <2>1 DEF Depart
    <2>5. proom[p] \in reg => proom[p] # NoRoom
        BY <1>1, NameAssumption DEF TypeOK
    <2>6. PlaceOf(p)' /\ OthersStay(p)
        BY <1>1, <2>1, <2>2, <2>3, <2>4, <2>5 DEF PlaceOf, OthersStay, TypeOK
    <2> QED
        BY <1>1, <2>2, <2>6, OneMoves
<1>14. CASE Disconnect(p)
    <2>1. /\ pc[p] = "idle" /\ sess' = sess \ {p} /\ sroom' = [sroom EXCEPT ![p] = NoRoom]
          /\ listen' = listen \ {p} /\ inq' = inq \ {p}
        BY <1>14 DEF Disconnect
    <2>2. CASE Suspend(p, "dropping", NoRoom) /\ UNCHANGED roomVars
        <3>1. PlaceOf(p)' /\ OthersStay(p)
            BY <1>1, <1>2, <1>5, <2>1, <2>2 DEF PlaceOf, OthersStay, TypeOK
        <3> QED
            BY <1>1, <1>4, <1>5, <2>2, <3>1, OneMoves
    <2>3. CASE Depart(p, "off", "dropped", "off")
        <3>1. RosterInv' /\ proom' = [proom EXCEPT ![p] = NoRoom]
            BY <1>1, <2>3, DepartRosters
        <3>2. pc'[p] \in {"off", "dropped"} /\ \A q \in Players \ {p} : pc'[q] = pc[q]
            BY <1>2, <2>3 DEF Depart
        <3>3. PlaceOf(p)' /\ OthersStay(p)
            BY <1>1, <2>1, <3>1, <3>2 DEF PlaceOf, OthersStay, TypeOK
        <3> QED
            BY <1>1, <3>1, <3>3, OneMoves
    <2> QED
        BY <1>14, <2>2, <2>3 DEF Disconnect
<1> QED
    BY <1>7, <1>8, <1>9, <1>10, <1>11, <1>12, <1>13, <1>14 DEF Request

\* The matchmaker moves the players it seats, all of them queued.
LEMMA MatchmakerPlaces ==
    ASSUME TypeOK, TypeOK', RosterInv, PlaceInv, NEW p \in Players, TryCreateRoom(p)
    PROVE  RosterInv' /\ PlaceInv'
<1>1. PICK lineup \in Lineups :
        OpenRooms(lineup) /\ inq' = inq \ Seated(lineup) /\ listen' = listen \ Seated(lineup)
    BY DEF TryCreateRoom
<1> DEFINE seated == Seated(lineup)
<1>2. /\ IsLineup(lineup)
      /\ \A r \in DOMAIN lineup : /\ lineup[r] \in Seq(inq) /\ IsInjective(lineup[r])
                                  /\ Len(lineup[r]) <= MaxPlayers
      /\ \A r, s \in DOMAIN lineup : r # s => Range(lineup[r]) \cap Range(lineup[s]) = {}
    BY LineupsAreLineups
<1>3. \A q \in Players : PlaceOf(q)
    BY PlaceByPlayer
<1>4. \A q \in seated : q \in inq
    <2>1. \A r \in DOMAIN lineup : Range(lineup[r]) \subseteq inq
        BY <1>2 DEF Range
    <2> QED
        BY <2>1 DEF Seated
<1>5. \A q \in seated : q \in Players /\ q \in sess /\ proom[q] = NoRoom
    BY <1>3, <1>4 DEF PlaceOf, TypeOK
<1>6. RosterInv'
    BY <1>1, <1>2, <1>5, OpeningRosters
<1>7. /\ \A q \in Players \ seated : proom'[q] = proom[q]
      /\ \A q \in Players : sroom'[q] = IF q \in seated \cap sess THEN proom'[q] ELSE sroom[q]
    BY <1>1, <1>2, OpenRoomsFacts
<1>8. pc[p] = "enqueued" /\ sess' = sess /\ pc' = [pc EXCEPT ![p] = "idle"]
    BY DEF TryCreateRoom, Return, Suspend
<1> HIDE DEF seated
<1>9. ASSUME NEW q \in Players PROVE PlaceOf(q)'
    <2>1. inq' = inq \ seated /\ listen' = listen \ seated
        BY <1>1 DEF seated
    <2>2. pc'[q] = pc[q] \/ (pc[q] = "enqueued" /\ pc'[q] = "idle")
        BY <1>8 DEF TypeOK
    <2>3. CASE q \in seated
        BY <1>3, <1>4, <1>5, <1>7, <1>8, <2>1, <2>2, <2>3 DEF PlaceOf
    <2>4. CASE q \notin seated
        BY <1>3, <1>7, <1>8, <2>1, <2>2, <2>4 DEF PlaceOf
    <2> QED
        BY <2>3, <2>4
<1> QED
    BY <1>6, <1>9, PlaceByPlayerNext

LEMMA ResumePlaces ==
    ASSUME TypeInv, TypeOK', RosterInv, PlaceInv, NEW p \in Players, HandlerResume(p)
    PROVE  RosterInv' /\ PlaceInv'
<1>1. TypeOK /\ PlaceOf(p)
    BY PlaceByPlayer DEF TypeInv
<1>2. \A at, t : Suspend(p, at, t) =>
        pc'[p] = at /\ \A q \in Players \ {p} : pc'[q] = pc[q]
    BY <1>1 DEF Suspend, TypeOK
<1>3. UNCHANGED <<reg, proom, roster, host>> => RosterInv'
    BY DEF RosterInv, RegistryAgrees, RosterBounded, HostLeads
<1>4. CASE TryCreateRoom(p)
    BY <1>1, <1>4, MatchmakerPlaces
<1>5. CASE CreateRoomResume(p)
    <2>1. pc[p] = "creating" /\ Suspend(p, "idle", NoRoom) /\ UNCHANGED <<sess, inq>>
        BY <1>5 DEF CreateRoomResume, Return
    <2>2. p \in sess /\ p \notin inq /\ proom[p] = NoRoom
        BY <1>1, <2>1 DEF PlaceOf
    <2>3. /\ RosterInv'
          /\ \A q \in Players \ {p} : proom'[q] = proom[q] /\ sroom'[q] = sroom[q]
          /\ sroom'[p] = proom'[p] /\ listen' = listen \ {p}
        BY <1>1, <1>5, <2>2, PrivateRosters DEF CreateRoomResume
    <2>4. PlaceOf(p)' /\ OthersStay(p)
        BY <1>1, <1>2, <2>1, <2>2, <2>3 DEF PlaceOf, OthersStay
    <2> QED
        BY <1>1, <2>3, <2>4, OneMoves
<1>6. CASE JoinRoomResume(p)
    <2>1. pc[p] = "joining" /\ Suspend(p, "idle", NoRoom) /\ UNCHANGED <<sess, inq>>
        BY <1>6 DEF JoinRoomResume, Return
    <2>2. p \in sess /\ p \notin inq /\ proom[p] = NoRoom
        BY <1>1, <2>1 DEF PlaceOf
    <2>3. tgt[p] \in Rooms
        BY <2>1 DEF TypeInv, TargetKnown
    <2>4. CASE JoinAllowed(p, tgt[p]) /\ Seat(p, tgt[p])
        <3>1. RosterInv'
            BY <1>1, <2>3, <2>4, SeatRosters
        <3>2. PlaceOf(p)' /\ OthersStay(p)
            BY <1>1, <1>2, <2>1, <2>2, <2>4 DEF PlaceOf, OthersStay, Seat, TypeOK
        <3> QED
            BY <1>1, <3>1, <3>2, OneMoves
    <2>5. CASE UNCHANGED <<sroom, listen, registryVars, rosterVars>>
        <3>1. PlaceOf(p)' /\ OthersStay(p)
            BY <1>1, <1>2, <2>1, <2>2, <2>5 DEF PlaceOf, OthersStay, registryVars
        <3> QED
            BY <1>1, <1>3, <2>5, <3>1, OneMoves DEF registryVars, rosterVars
    <2> QED
        BY <1>6, <2>4, <2>5 DEF JoinRoomResume
<1>7. CASE HostCountdown(p) \/ HostStartsGame(p)
    <2>1. /\ pc[p] \in {"starting", "counting"}
          /\ \E t : Suspend(p, "counting", t) \/ Suspend(p, "idle", t)
          /\ UNCHANGED <<sess, sroom, listen, inq, reg, proom, roster, host>>
        BY <1>7 DEF HostCountdown, HostStartsGame, Return, sessionVars, registryVars, rosterVars
    <2>2. PlaceOf(p)' /\ OthersStay(p)
        BY <1>1, <1>2, <2>1 DEF PlaceOf, OthersStay
    <2> QED
        BY <1>1, <1>3, <2>1, <2>2, OneMoves
<1>8. CASE LeaveRoomResume(p)
    <2>1. /\ pc[p] = "leaving" /\ Suspend(p, "idle", NoRoom)
          /\ sroom' = [sroom EXCEPT ![p] = NoRoom] /\ listen' = listen \ {p}
          /\ UNCHANGED <<sess, inq, reg, proom, roster, host>>
        BY <1>8 DEF LeaveRoomResume, Return, DestroyResume, roomVars, registryVars, rosterVars
    <2>2. PlaceOf(p)' /\ OthersStay(p)
        BY <1>1, <1>2, <2>1 DEF PlaceOf, OthersStay, TypeOK
    <2> QED
        BY <1>1, <1>3, <2>1, <2>2, OneMoves
<1>9. CASE DisconnectFromRoom(p)
    <2>1. pc[p] = "dropping" /\ Depart(p, "off", "dropped", "off") /\ UNCHANGED <<sessionVars, inq>>
        BY <1>9 DEF DisconnectFromRoom
    <2>2. RosterInv' /\ proom' = [proom EXCEPT ![p] = NoRoom]
        BY <1>1, <2>1, DepartRosters
    <2>3. pc'[p] \in {"off", "dropped"} /\ \A q \in Players \ {p} : pc'[q] = pc[q]
        BY <1>2, <2>1 DEF Depart
    <2>4. PlaceOf(p)' /\ OthersStay(p)
        BY <1>1, <2>1, <2>2, <2>3 DEF PlaceOf, OthersStay, TypeOK, sessionVars
    <2> QED
        BY <1>1, <2>2, <2>4, OneMoves
<1>10. CASE DisconnectResume(p)
    <2>1. /\ pc[p] = "dropped" /\ Suspend(p, "off", NoRoom)
          /\ UNCHANGED <<sess, sroom, listen, inq, reg, proom, roster, host>>
        BY <1>10 DEF DisconnectResume, DestroyResume, sessionVars, registryVars, rosterVars
    <2>2. PlaceOf(p)' /\ OthersStay(p)
        BY <1>1, <1>2, <2>1 DEF PlaceOf, OthersStay
    <2> QED
        BY <1>1, <1>3, <2>1, <2>2, OneMoves
<1> QED
    BY <1>4, <1>5, <1>6, <1>7, <1>8, <1>9, <1>10 DEF HandlerResume

\* Only a finished match moves players; they become free.
LEMMA GameStepPlaces ==
    ASSUME TypeOK, TypeOK', RosterInv, PlaceInv, NEW r \in Rooms, NEW k \in Slots, GameStep(r, k)
    PROVE  RosterInv' /\ PlaceInv'
<1>1. \A q \in Players : PlaceOf(q)
    BY PlaceByPlayer
<1>2. CASE LoopStep(r, k) \/ FinishResume(r, k)
    <2>1. UNCHANGED <<pc, sess, sroom, listen, inq, reg, proom, roster, host>>
        BY <1>2 DEF LoopStep, FinishResume, handlerVars, sessionVars, registryVars, rosterVars
    <2> QED
        BY <2>1 DEF RosterInv, RegistryAgrees, RosterBounded, HostLeads, PlaceInv, SessionAgrees,
           QueueExclusive, HandlerPlaces
<1>3. CASE FinishMatch(r, k)
    <2>1. /\ RosterInv'
          /\ \A p \in Players : proom'[p] = IF proom[p] = r THEN NoRoom ELSE proom[p]
          /\ \A p \in sess : sroom'[p] = IF proom[p] = r THEN NoRoom ELSE sroom[p]
          /\ \A p \in Players \ sess : sroom'[p] = sroom[p]
        BY <1>3, FinishRosters
    <2>2. UNCHANGED <<pc, sess, listen, inq>>
        BY <1>3 DEF FinishMatch, handlerVars
    <2>3. \A p \in Players : PlaceOf(p)'
        BY <1>1, <2>1, <2>2 DEF PlaceOf
    <2> QED
        BY <2>1, <2>3, PlaceByPlayerNext
<1> QED
    BY <1>2, <1>3 DEF GameStep

-----------------------------------------------------------------------------

\* The inductive invariant.
RegistryInv == TypeInv /\ RosterInv /\ PlaceInv

LEMMA RegistryInvariant == Spec => []RegistryInv
<1>1. Init => RegistryInv
    <2> SUFFICES ASSUME Init PROVE RosterInv /\ PlaceInv
        BY InitTypes DEF RegistryInv
    <2> QED
        BY NameAssumption DEF Init, RosterInv, RegistryAgrees, RosterBounded, HostLeads, PlaceInv,
           SessionAgrees, QueueExclusive, HandlerPlaces
<1>2. RegistryInv /\ [Next]_vars => RegistryInv'
    <2> SUFFICES ASSUME RegistryInv, [Next]_vars PROVE RegistryInv'
        OBVIOUS
    <2>1. TypeInv'
        BY TypeInvStep DEF RegistryInv
    <2>2. TypeOK /\ TypeOK' /\ TypeInv /\ RosterInv /\ PlaceInv
        BY <2>1 DEF RegistryInv, TypeInv
    <2>3. CASE Next
        <3>1. CASE \E p \in Players : Request(p) \/ HandlerResume(p)
            BY <2>1, <2>2, <3>1, RequestPlaces, ResumePlaces DEF RegistryInv
        <3>2. CASE \E r \in Rooms : CountdownStep(r)
            <4>1. UNCHANGED <<pc, sess, sroom, listen, inq, reg, proom, roster, host>>
                BY <3>2 DEF CountdownStep, CountdownBegin, CountdownEnd, handlerVars, sessionVars,
                   registryVars, rosterVars
            <4> QED
                BY <2>1, <2>2, <4>1 DEF RegistryInv, RosterInv, RegistryAgrees, RosterBounded,
                   HostLeads, PlaceInv, SessionAgrees, QueueExclusive, HandlerPlaces
        <3>3. CASE \E r \in Rooms, k \in Slots : GameStep(r, k)
            BY <2>1, <2>2, <3>3, GameStepPlaces DEF RegistryInv
        <3> QED
            BY <2>3, <3>1, <3>2, <3>3 DEF Next
    <2>4. CASE UNCHANGED vars
        BY <2>1, <2>2, <2>4 DEF RegistryInv, RosterInv, RegistryAgrees, RosterBounded, HostLeads,
           PlaceInv, SessionAgrees, QueueExclusive, HandlerPlaces, vars, handlerVars, sessionVars,
           roomVars, registryVars, rosterVars
    <2> QED
        BY <2>3, <2>4
<1> QED
    BY <1>1, <1>2, PTL DEF Spec

\* _player_room and the rosters of the registered rooms always agree on who is
\* where, so no player is ever in two rooms.
THEOREM RegistryAgreement == Spec => []RegistryAgrees
<1>1. RegistryInv => RegistryAgrees
    BY DEF RegistryInv, RosterInv
<1> QED
    BY <1>1, RegistryInvariant, PTL

\* The room a session remembers is always the room the registry has the player in,
\* although a leave updates the two on different sides of an await.
THEOREM SessionAgreement == Spec => []SessionAgrees
<1>1. RegistryInv => SessionAgrees
    BY DEF RegistryInv, PlaceInv
<1> QED
    BY <1>1, RegistryInvariant, PTL

\* A queued player is connected and in no room, so a match never seats a player
\* who is elsewhere or gone.
THEOREM QueueExclusion == Spec => []QueueExclusive
<1>1. RegistryInv => QueueExclusive
    BY DEF RegistryInv, PlaceInv
<1> QED
    BY <1>1, RegistryInvariant, PTL

\* A registered room is never empty, never above its capacity and has no member
\* twice, however joins, leaves and starts interleave.
THEOREM RosterBound == Spec => []RosterBounded
<1>1. RegistryInv => RosterBounded
    BY DEF RegistryInv, RosterInv
<1> QED
    BY <1>1, RegistryInvariant, PTL

\* The host of a registered room is its longest-standing member, whoever has left.
THEOREM HostLeadership == Spec => []HostLeads
<1>1. RegistryInv => HostLeads
    BY DEF RegistryInv, RosterInv
<1> QED
    BY <1>1, RegistryInvariant, PTL

-----------------------------------------------------------------------------

(* What drives a room *)

\* A registered room is not being destroyed; once it is being started a task
\* still has to do with it, and its simulation follows its roster.
RoomRuns(r) ==
    /\ cancelled[r] = 0
    /\ \A k \in Slots : loop[r][k] # "finishing"
    /\ rstate[r] = "STARTING" => StartDue(r)
    /\ rstate[r] = "RUNNING" => GameTaskLive(r) /\ world[r] = Range(roster[r])
    /\ rstate[r] = "FINISHED" => \E k \in Slots : loop[r][k] = "ending"

\* A handler that awaits the destruction of a room has unregistered it.
Destroyers == \A p \in Players : pc[p] \in {"leaving", "dropped"} => tgt[p] \notin reg

DriveInv == Destroyers /\ \A r \in reg : RoomRuns(r)

\* Nothing a room is driven by changes, and the simulation follows the roster.
Steady(r) ==
    /\ cancelled'[r] = cancelled[r] /\ loop'[r] = loop[r]
    /\ rstate'[r] = rstate[r] /\ gameTask'[r] = gameTask[r]
    /\ rstate[r] = "RUNNING" /\ world[r] = Range(roster[r]) => world'[r] = Range(roster'[r])

LEMMA SteadyRuns ==
    ASSUME NEW r \in Rooms, RoomRuns(r), Steady(r), StartDue(r) => StartDue(r)'
    PROVE  RoomRuns(r)'
BY DEF RoomRuns, Steady, GameTaskLive

\* A handler that is in no countdown leaves every countdown as it is.
LEMMA CountdownsStay ==
    ASSUME TypeOK, NEW p \in Players, pc[p] \notin {"starting", "counting"}, NEW at, NEW t,
           Suspend(p, at, t) \/ UNCHANGED handlerVars,
           NEW r \in Rooms, cd'[r] = cd[r]
    PROVE  StartDue(r) => StartDue(r)'
<1>1. \A q \in Players : HostTurn(q, r) => HostTurn(q, r)'
    BY DEF HostTurn, Suspend, handlerVars, TypeOK
<1> QED
    BY <1>1 DEF StartDue

\* Rooms enter the registry fresh, so none that is being destroyed does.
LEMMA DestroyersStay ==
    ASSUME TypeOK, Destroyers, NEW p \in Players, NEW at, NEW t,
           Suspend(p, at, t) \/ UNCHANGED handlerVars,
           at \in {"leaving", "dropped"} => t \notin reg',
           reg' \subseteq reg \cup FreshRooms
    PROVE  Destroyers'
<1> SUFFICES ASSUME NEW q \in Players, pc'[q] \in {"leaving", "dropped"}
             PROVE  tgt'[q] \notin reg'
    BY DEF Destroyers
<1>1. CASE pc'[q] = pc[q] /\ tgt'[q] = tgt[q]
    BY <1>1 DEF Destroyers, FreshRooms, Fresh
<1>2. CASE q = p /\ Suspend(p, at, t)
    BY <1>2 DEF Suspend, TypeOK
<1> QED
    BY <1>1, <1>2 DEF Suspend, handlerVars, TypeOK

\* New rooms have nothing to drive them and need nothing.
LEMMA OpeningRuns ==
    ASSUME TypeOK, DriveInv, NEW lineup, IsLineup(lineup), OpenRooms(lineup),
           NEW p \in Players, pc[p] \notin {"starting", "counting"}, NEW at,
           at \notin {"leaving", "dropped"}, NEW t,
           Suspend(p, at, t) \/ UNCHANGED handlerVars,
           \A r \in Rooms \ DOMAIN lineup : cd'[r] = cd[r]
    PROVE  DriveInv'
<1>1. DOMAIN lineup \subseteq FreshRooms /\ reg' = reg \cup DOMAIN lineup /\ reg \subseteq Rooms
    BY OpenRoomsFacts DEF IsLineup, TypeOK
<1>2. Destroyers'
    BY <1>1, DestroyersStay DEF DriveInv
<1>3. ASSUME NEW r \in DOMAIN lineup PROVE RoomRuns(r)'
    <2>1. /\ rstate'[r] = "WAITING" /\ cancelled'[r] = 0
          /\ \A k \in Slots : loop'[r][k] = "none"
        BY OpenRoomsFacts
    <2> QED
        BY <2>1 DEF RoomRuns
<1>4. ASSUME NEW r \in reg, r \notin DOMAIN lineup PROVE RoomRuns(r)'
    <2>1. r \in Rooms /\ cd'[r] = cd[r]
        BY <1>1, <1>4
    <2>2. /\ roster'[r] = roster[r] /\ rstate'[r] = rstate[r] /\ loop'[r] = loop[r]
          /\ gameTask'[r] = gameTask[r] /\ cancelled'[r] = cancelled[r] /\ world'[r] = world[r]
        BY <1>4, <2>1, OpenRoomsFacts
    <2>3. StartDue(r) => StartDue(r)'
        BY <2>1, CountdownsStay
    <2> QED
        BY <2>1, <2>2, <2>3, SteadyRuns DEF DriveInv, Steady
<1> QED
    BY <1>1, <1>2, <1>3, <1>4 DEF DriveInv

\* A handler that only moves players changes no room that is not waiting.
LEMMA HandlerRuns ==
    ASSUME TypeOK, DriveInv, NEW p \in Players, pc[p] \notin {"starting", "counting"},
           NEW at, at \notin {"leaving", "dropped"}, NEW t,
           Suspend(p, at, t) \/ UNCHANGED handlerVars,
           UNCHANGED <<reg, gameVars, taskVars>>,
           \A r \in reg : rstate[r] # "WAITING" => roster'[r] = roster[r]
    PROVE  DriveInv'
<1>1. Destroyers'
    BY DestroyersStay DEF DriveInv
<1>2. UNCHANGED <<rstate, world, cd, loop, gameTask, cancelled>> /\ reg \subseteq Rooms
    BY DEF gameVars, taskVars, TypeOK
<1>3. ASSUME NEW r \in reg PROVE RoomRuns(r)'
    <2>1. StartDue(r) => StartDue(r)'
        BY <1>2, CountdownsStay
    <2>2. Steady(r)
        BY <1>2 DEF Steady
    <2> QED
        BY <1>2, <2>1, <2>2, SteadyRuns DEF DriveInv
<1> QED
    BY <1>1, <1>3 DEF DriveInv

\* Who leaves takes the snake along; a room that is to be destroyed leaves the
\* registry in the same step.
LEMMA DepartRuns ==
    ASSUME TypeOK, RosterInv, DriveInv, NEW p \in Players,
           pc[p] \notin {"starting", "counting"},
           NEW sending, NEW awaiting, NEW over, over \notin {"leaving", "dropped"},
           Depart(p, sending, awaiting, over)
    PROVE  DriveInv'
<1> DEFINE r == proom[p]
<1>1. reg \subseteq Rooms /\ NoRoom \notin Rooms
    BY NameAssumption DEF TypeOK
<1>2. CASE NotInRoom(p) /\ UNCHANGED roomVars /\ Suspend(p, over, NoRoom)
    <2>1. UNCHANGED <<reg, roster, gameVars, taskVars>>
        BY <1>2 DEF roomVars, registryVars, rosterVars
    <2> QED
        BY <1>2, <2>1, HandlerRuns
<1>3. CASE ~NotInRoom(p) /\ (LeaveOthers(p) \/ LeaveAndCancel(p) \/ LeaveAndClose(p))
    <2>1. r \in reg /\ RemovePlayer(r, p) /\ UNCHANGED <<cd, loop, gameTask>>
        BY <1>3 DEF NotInRoom, LeaveOthers, LeaveAndCancel, LeaveAndClose, taskVars
    <2>2. /\ roster[r] \in Seq(Players) /\ IsInjective(roster[r]) /\ p \in Range(roster[r])
        BY <1>1, <2>1 DEF RosterInv, RosterBounded, RegistryAgrees, TypeOK
    <2>3. /\ Range(roster'[r]) = Range(roster[r]) \ {p}
          /\ \A x \in Rooms \ {r} : roster'[x] = roster[x]
        BY <1>1, <2>1, <2>2, WithoutFacts DEF RemovePlayer, TypeOK
    <2>4. PICK at, t : Suspend(p, at, t) /\ (at \in {"leaving", "dropped"} => t \notin reg')
        BY <1>1, <1>3, <2>1 DEF Depart, LeaveOthers, LeaveAndCancel, LeaveAndClose
    <2>5. reg' \subseteq reg /\ (r \in reg' => LeaveOthers(p))
        BY <1>3 DEF LeaveOthers, LeaveAndCancel, LeaveAndClose
    <2>6. Destroyers'
        BY <2>4, <2>5, DestroyersStay DEF DriveInv
    <2>7. ASSUME NEW x \in reg' PROVE RoomRuns(x)'
        <3>1. x \in Rooms /\ RoomRuns(x)
            BY <1>1, <2>5 DEF DriveInv
        <3>2. StartDue(x) => StartDue(x)'
            BY <2>1, <2>4, <3>1, CountdownsStay
        <3>3. CASE x # r
            <4>1. /\ rstate'[x] = rstate[x] /\ cancelled'[x] = cancelled[x]
                  /\ world'[x] = world[x] /\ roster'[x] = roster[x]
                BY <1>3, <2>3, <3>1, <3>3
                DEF LeaveOthers, LeaveAndCancel, LeaveAndClose, RemoveSnake, Close, TypeOK, taskVars
            <4> QED
                BY <2>1, <3>1, <3>2, <4>1, SteadyRuns DEF Steady
        <3>4. CASE x = r
            <4>1. /\ UNCHANGED <<rstate, cancelled>>
                  /\ rstate[r] = "RUNNING" => world'[r] = world[r] \ {p}
                BY <1>1, <2>5, <3>1, <3>4 DEF LeaveOthers, RemoveSnake, TypeOK, taskVars
            <4>2. Steady(x)
                BY <2>1, <2>3, <3>4, <4>1 DEF Steady
            <4> QED
                BY <3>1, <3>2, <4>2, SteadyRuns
        <3> QED
            BY <3>3, <3>4
    <2> QED
        BY <2>6, <2>7 DEF DriveInv
<1> QED
    BY <1>2, <1>3 DEF Depart, LeaveOthers, LeaveAndCancel, LeaveAndClose

LEMMA RequestRuns ==
    ASSUME TypeInv, RosterInv, DriveInv, NEW p \in Players, Request(p)
    PROVE  DriveInv'
<1>1. TypeOK /\ pc[p] \in {"off", "idle"}
    BY DEF TypeInv, Request, Connect, JoinQueue, CancelQueue, CreateRoom, JoinRoom, StartRoom,
       LeaveRoom, Disconnect
<1>2. UNCHANGED roomVars => UNCHANGED <<reg, roster, gameVars, taskVars>>
    BY DEF roomVars, registryVars, rosterVars
<1>3. CASE Connect(p) \/ JoinQueue(p) \/ CancelQueue(p)
    <2>1. UNCHANGED roomVars
        BY <1>3 DEF Connect, JoinQueue, CancelQueue
    <2>2. PICK at \in {"idle", "enqueued"} : Suspend(p, at, NoRoom) \/ UNCHANGED handlerVars
        BY <1>3 DEF Connect, JoinQueue, CancelQueue, Return
    <2> QED
        BY <1>1, <1>2, <2>1, <2>2, HandlerRuns
<1>4. CASE CreateRoom(p)
    <2>1. CASE Suspend(p, "creating", NoRoom) /\ UNCHANGED roomVars
        BY <1>1, <1>2, <2>1, HandlerRuns
    <2>2. CASE OpenPrivateRoom(p) /\ UNCHANGED handlerVars
        <3>1. PICK r \in FreshRooms :
                /\ IsLineup([x \in {r} |-> <<p>>]) /\ OpenRooms([x \in {r} |-> <<p>>])
                /\ cd' = [cd EXCEPT ![r] = "none"]
            BY <1>1, <2>2, PrivateRoomFacts
        <3>2. \A t \in Rooms \ DOMAIN [x \in {r} |-> <<p>>] : cd'[t] = cd[t]
            BY <1>1, <3>1 DEF TypeOK
        <3> QED
            BY <1>1, <2>2, <3>1, <3>2, OpeningRuns
    <2> QED
        BY <1>4, <2>1, <2>2 DEF CreateRoom
<1>5. CASE \E r \in Rooms : JoinRoom(p, r)
    <2>1. PICK r \in Rooms : JoinRoom(p, r)
        BY <1>5
    <2>2. UNCHANGED <<reg, gameVars, taskVars>>
        BY <2>1 DEF JoinRoom, Seat, registryVars
    <2>3. Suspend(p, "joining", r) \/ UNCHANGED handlerVars
        BY <2>1 DEF JoinRoom
    <2>4. \A x \in reg : rstate[x] # "WAITING" => roster'[x] = roster[x]
        BY <1>1, <2>1 DEF JoinRoom, JoinAllowed, Seat, rosterVars, TypeOK
    <2> QED
        BY <1>1, <2>2, <2>3, <2>4, HandlerRuns
<1>6. CASE StartRoom(p)
    <2>1. PICK r \in reg :
            /\ rstate[r] = "WAITING" /\ pc[p] = "idle"
            /\ rstate' = [rstate EXCEPT ![r] = "STARTING"] /\ Suspend(p, "starting", r)
            /\ UNCHANGED <<reg, roster, world, cd, loop, gameTask, cancelled>>
        BY <1>6 DEF StartRoom, MayStart, registryVars, rosterVars, taskVars
    <2>2. Destroyers'
        BY <1>1, <2>1, DestroyersStay DEF DriveInv
    <2>3. HostTurn(p, r)'
        BY <1>1, <2>1 DEF HostTurn, Suspend, TypeOK
    <2>4. ASSUME NEW x \in reg PROVE RoomRuns(x)'
        <3>1. x \in Rooms /\ RoomRuns(x)
            BY <1>1 DEF DriveInv, TypeOK
        <3>2. CASE x # r
            <4>1. StartDue(x) => StartDue(x)'
                BY <1>1, <2>1, <3>1, CountdownsStay
            <4>2. Steady(x)
                BY <1>1, <2>1, <3>1, <3>2 DEF Steady, TypeOK
            <4> QED
                BY <3>1, <4>1, <4>2, SteadyRuns
        <3>3. CASE x = r
            BY <1>1, <2>1, <2>3, <3>1, <3>3 DEF RoomRuns, StartDue, TypeOK
        <3> QED
            BY <3>2, <3>3
    <2> QED
        BY <2>1, <2>2, <2>4 DEF DriveInv
<1>7. CASE LeaveRoom(p)
    BY <1>1, <1>7, DepartRuns DEF LeaveRoom
<1>8. CASE Disconnect(p)
    <2>1. CASE Suspend(p, "dropping", NoRoom) /\ UNCHANGED roomVars
        BY <1>1, <1>2, <2>1, HandlerRuns
    <2>2. CASE Depart(p, "off", "dropped", "off")
        BY <1>1, <2>2, DepartRuns
    <2> QED
        BY <1>8, <2>1, <2>2 DEF Disconnect
<1> QED
    BY <1>3, <1>4, <1>5, <1>6, <1>7, <1>8 DEF Request

\* A start gives the room its loop and a simulation of its members.
LEMMA StartRuns ==
    ASSUME TypeInv, DriveInv, NEW r \in Rooms, StartDue(r), StartGame(r),
           UNCHANGED <<reg, roster>>,
           \A x \in Rooms \ {r} : StartDue(x) => StartDue(x)'
    PROVE  \A x \in reg' : RoomRuns(x)'
<1> SUFFICES ASSUME NEW x \in reg PROVE RoomRuns(x)'
    OBVIOUS
<1>1. TypeOK /\ x \in Rooms /\ RoomRuns(x)
    BY DEF TypeInv, TypeOK, DriveInv
<1>2. PICK k \in Slots :
        /\ loop' = [loop EXCEPT ![r][k] = "new"] /\ gameTask' = [gameTask EXCEPT ![r] = k]
        /\ rstate' = [rstate EXCEPT ![r] = "RUNNING"]
    BY StartGameFacts
<1>3. world' = [world EXCEPT ![r] = Range(roster[r])] /\ UNCHANGED cancelled
    BY DEF StartGame
<1>4. CASE x # r
    BY <1>1, <1>2, <1>3, <1>4, SteadyRuns DEF Steady, TypeOK
<1>5. CASE x = r
    <2>1. k # 0
        BY DEF Slots
    <2>2. /\ rstate'[x] = "RUNNING" /\ cancelled'[x] = 0 /\ world'[x] = Range(roster'[x])
          /\ gameTask'[x] = k
        BY <1>1, <1>2, <1>3, <1>5 DEF RoomRuns, TypeOK
    <2>3. \A j \in Slots : loop'[x][j] # "finishing"
        BY <1>1, <1>2 DEF RoomRuns, TypeOK
    <2> QED
        BY <2>1, <2>2, <2>3 DEF RoomRuns, GameTaskLive
<1> QED
    BY <1>4, <1>5

\* A countdown that begins is due, and stays so.
LEMMA BeginRuns ==
    ASSUME TypeOK, DriveInv, NEW r \in Rooms, BeginCountdown(r), UNCHANGED <<reg, roster>>,
           StartDue(r)', \A x \in Rooms \ {r} : StartDue(x) => StartDue(x)'
    PROVE  \A x \in reg' : RoomRuns(x)'
<1> SUFFICES ASSUME NEW x \in reg PROVE RoomRuns(x)'
    OBVIOUS
<1>1. x \in Rooms /\ RoomRuns(x)
    BY DEF TypeOK, DriveInv
<1>2. /\ rstate' = [rstate EXCEPT ![r] = "STARTING"]
      /\ UNCHANGED <<world, loop, gameTask, cancelled>>
    BY DEF BeginCountdown
<1>3. CASE x # r
    BY <1>1, <1>2, <1>3, SteadyRuns DEF Steady, TypeOK
<1>4. CASE x = r
    <2>1. rstate'[x] = "STARTING" /\ StartDue(x)'
        BY <1>1, <1>2, <1>4 DEF TypeOK
    <2> QED
        BY <1>1, <1>2, <2>1 DEF RoomRuns
<1> QED
    BY <1>3, <1>4

LEMMA ResumeRuns ==
    ASSUME TypeInv, RosterInv, DriveInv, NEW p \in Players, HandlerResume(p)
    PROVE  DriveInv'
<1>1. TypeOK
    BY DEF TypeInv
<1>2. CASE TryCreateRoom(p)
    <2>1. PICK lineup \in Lineups :
            OpenRooms(lineup) /\ cd' = Override(cd, [r \in DOMAIN lineup |-> "scheduled"])
        BY <1>2 DEF TryCreateRoom
    <2>2. IsLineup(lineup)
        BY <1>1, LineupsAreLineups
    <2>3. \A r \in Rooms \ DOMAIN lineup : cd'[r] = cd[r]
        BY <1>1, <2>1 DEF Override, TypeOK
    <2>4. pc[p] = "enqueued" /\ Suspend(p, "idle", NoRoom)
        BY <1>2 DEF TryCreateRoom, Return
    <2> QED
        BY <1>1, <2>1, <2>2, <2>3, <2>4, OpeningRuns
<1>3. CASE CreateRoomResume(p)
    <2>1. PICK r \in FreshRooms :
            /\ IsLineup([x \in {r} |-> <<p>>]) /\ OpenRooms([x \in {r} |-> <<p>>])
            /\ cd' = [cd EXCEPT ![r] = "none"]
        BY <1>1, <1>3, PrivateRoomFacts DEF CreateRoomResume
    <2>2. \A t \in Rooms \ DOMAIN [x \in {r} |-> <<p>>] : cd'[t] = cd[t]
        BY <1>1, <2>1 DEF TypeOK
    <2>3. pc[p] = "creating" /\ Suspend(p, "idle", NoRoom)
        BY <1>3 DEF CreateRoomResume, Return
    <2> QED
        BY <1>1, <2>1, <2>2, <2>3, OpeningRuns
<1>4. CASE JoinRoomResume(p)
    <2>1. pc[p] = "joining" /\ Suspend(p, "idle", NoRoom) /\ UNCHANGED <<reg, gameVars, taskVars>>
        BY <1>4 DEF JoinRoomResume, Return, Seat, registryVars
    <2>2. \A x \in reg : rstate[x] # "WAITING" => roster'[x] = roster[x]
        BY <1>1, <1>4 DEF JoinRoomResume, JoinAllowed, Seat, rosterVars, TypeOK
    <2> QED
        BY <1>1, <2>1, <2>2, HandlerRuns
<1>5. CASE HostCountdown(p)
    <2>1. PICK r \in Rooms : r = tgt[p] /\ pc[p] = "starting"
        BY <1>5 DEF HostCountdown, TypeInv, TargetKnown
    <2>2. /\ BeginCountdown(r) /\ Suspend(p, "counting", r) /\ UNCHANGED <<reg, roster, cd>>
        BY <1>5, <2>1 DEF HostCountdown, registryVars, rosterVars
    <2>3. \A q \in Players, x \in Rooms : HostTurn(q, x) => HostTurn(q, x)'
        BY <1>1, <2>1, <2>2 DEF HostTurn, Suspend, TypeOK
    <2>4. HostTurn(p, r)'
        BY <1>1, <2>2 DEF HostTurn, Suspend, TypeOK
    <2>5. StartDue(r)' /\ \A x \in Rooms : StartDue(x) => StartDue(x)'
        BY <2>2, <2>3, <2>4 DEF StartDue
    <2>6. \A x \in reg' : RoomRuns(x)'
        BY <1>1, <2>2, <2>5, BeginRuns
    <2>7. Destroyers'
        BY <1>1, <2>2, DestroyersStay DEF DriveInv
    <2> QED
        BY <2>6, <2>7 DEF DriveInv
<1>6. CASE HostStartsGame(p)
    <2>1. PICK r \in Rooms : r = tgt[p] /\ HostTurn(p, r)
        BY <1>6 DEF HostStartsGame, TypeInv, TargetKnown, HostTurn
    <2>2. /\ StartGame(r) /\ Suspend(p, "idle", NoRoom) /\ UNCHANGED <<reg, roster, cd>>
        BY <1>6, <2>1 DEF HostStartsGame, Return, registryVars, rosterVars
    <2>3. \A q \in Players, x \in Rooms \ {r} : HostTurn(q, x) => HostTurn(q, x)'
        BY <1>1, <2>1, <2>2 DEF HostTurn, Suspend, TypeOK
    <2>4. StartDue(r) /\ \A x \in Rooms \ {r} : StartDue(x) => StartDue(x)'
        BY <2>1, <2>2, <2>3 DEF StartDue
    <2>5. \A x \in reg' : RoomRuns(x)'
        BY <2>2, <2>4, StartRuns
    <2>6. Destroyers'
        BY <1>1, <2>2, DestroyersStay DEF DriveInv
    <2> QED
        BY <2>5, <2>6 DEF DriveInv
<1>7. CASE LeaveRoomResume(p) \/ DisconnectResume(p)
    <2>1. PICK at \in {"idle", "off"} : Suspend(p, at, NoRoom)
        BY <1>7 DEF LeaveRoomResume, DisconnectResume, Return
    <2>2. pc[p] \in {"leaving", "dropped"}
        BY <1>7 DEF LeaveRoomResume, DisconnectResume
    <2>3. CASE UNCHANGED roomVars
        BY <1>1, <2>1, <2>2, <2>3, HandlerRuns DEF roomVars, registryVars, rosterVars
    <2>4. CASE DestroyResume(p) /\ tgt[p] # NoRoom
        <3>1. tgt[p] \in Rooms /\ tgt[p] \notin reg
            BY <1>1, <2>2, <2>4 DEF TypeOK, DriveInv, Destroyers
        <3>2. Close(tgt[p]) /\ UNCHANGED <<reg, roster, cd, loop, gameTask, cancelled>>
            BY <2>4 DEF DestroyResume, registryVars, rosterVars, taskVars
        <3>3. Destroyers'
            BY <1>1, <2>1, <3>2, DestroyersStay DEF DriveInv
        <3>4. ASSUME NEW x \in reg PROVE RoomRuns(x)'
            <4>1. x \in Rooms /\ x # tgt[p] /\ RoomRuns(x)
                BY <1>1, <3>1 DEF TypeOK, DriveInv
            <4>2. Steady(x)
                BY <1>1, <3>1, <3>2, <4>1 DEF Steady, Close, TypeOK
            <4>3. StartDue(x) => StartDue(x)'
                BY <1>1, <2>1, <2>2, <3>2, <4>1, CountdownsStay
            <4> QED
                BY <4>1, <4>2, <4>3, SteadyRuns
        <3> QED
            BY <3>2, <3>3, <3>4 DEF DriveInv
    <2>5. DisconnectResume(p) => tgt[p] # NoRoom
        BY NameAssumption DEF DisconnectResume, TypeInv, TargetKnown
    <2> QED
        BY <1>7, <2>3, <2>4, <2>5 DEF LeaveRoomResume, DisconnectResume
<1>8. CASE DisconnectFromRoom(p)
    BY <1>1, <1>8, DepartRuns DEF DisconnectFromRoom
<1> QED
    BY <1>2, <1>3, <1>4, <1>5, <1>6, <1>7, <1>8 DEF HandlerResume

LEMMA CountdownRuns ==
    ASSUME TypeInv, DriveInv, NEW r \in Rooms, CountdownStep(r)
    PROVE  DriveInv'
<1>1. TypeOK /\ UNCHANGED <<handlerVars, reg, roster>>
    BY DEF TypeInv, CountdownStep, CountdownBegin, CountdownEnd, registryVars, rosterVars
<1>2. Destroyers'
    BY <1>1 DEF DriveInv, Destroyers, handlerVars
<1>3. \A x \in Rooms \ {r} : cd'[x] = cd[x]
    BY <1>1 DEF CountdownStep, CountdownBegin, CountdownEnd, TypeOK
<1>4. \A x \in Rooms \ {r} : StartDue(x) => StartDue(x)'
    BY <1>1, <1>3 DEF StartDue, HostTurn, handlerVars
<1>5. CASE CountdownBegin(r)
    <2>1. BeginCountdown(r) /\ cd'[r] = "counting"
        BY <1>1, <1>5 DEF CountdownBegin, TypeOK
    <2> QED
        BY <1>1, <1>2, <1>4, <2>1, BeginRuns DEF DriveInv, StartDue
<1>6. CASE CountdownEnd(r)
    <2>1. StartGame(r) /\ StartDue(r)
        BY <1>6 DEF CountdownEnd, StartDue
    <2> QED
        BY <1>1, <1>2, <1>4, <2>1, StartRuns DEF DriveInv
<1> QED
    BY <1>5, <1>6 DEF CountdownStep

\* A game loop: only the match that is over takes its room out of the registry,
\* and the loop of a registered room is never cancelled.
LEMMA GameStepRuns ==
    ASSUME TypeInv, DriveInv, NEW r \in Rooms, NEW k \in Slots, GameStep(r, k)
    PROVE  DriveInv'
<1>1. TypeOK /\ UNCHANGED <<handlerVars, roster, cd>> /\ reg' \subseteq reg
    BY DEF TypeInv, GameStep, LoopStep, FinishMatch, FinishResume, registryVars, rosterVars
<1>2. Destroyers'
    BY <1>1 DEF DriveInv, Destroyers, handlerVars
<1>3. \A x \in Rooms : StartDue(x) => StartDue(x)'
    BY <1>1 DEF StartDue, HostTurn, handlerVars
<1>4. k # 0
    BY DEF Slots
<1>5. \/ EndLoop(r, k)
      \/ /\ \E at \in {"top", "mid", "ending", "finishing"} : Go(r, k, at)
         /\ UNCHANGED gameTask
         /\ UNCHANGED cancelled \/ (r \notin reg' /\ cancelled' = [cancelled EXCEPT ![r] = gameTask[r]])
    BY DEF GameStep, LoopStep, LoopTick, LoopCheck, LoopCrash, LoopStop, LoopCancel, FinishMatch,
           FinishResume, CheckWin, ExitLoop
<1>6. \/ UNCHANGED rstate
      \/ rstate' = [rstate EXCEPT ![r] = "FINISHED"]
      \/ rstate' = [rstate EXCEPT ![r] = IF @ = "RUNNING" THEN "FINISHED" ELSE @]
    BY DEF GameStep, LoopStep, LoopTick, LoopCheck, LoopCrash, LoopStop, LoopCancel, FinishMatch,
           FinishResume, CheckWin, ExitLoop, Close, gameVars
<1>7. UNCHANGED world \/ world' = [world EXCEPT ![r] = NoWorld]
    BY DEF GameStep, LoopStep, LoopTick, LoopCheck, LoopCrash, LoopStop, LoopCancel, FinishMatch,
           FinishResume, ExitLoop, Close, gameVars
<1>8. ASSUME NEW x \in reg', x # r PROVE RoomRuns(x)'
    <2>1. x \in Rooms /\ RoomRuns(x)
        BY <1>1 DEF DriveInv, TypeOK
    <2>2. loop'[x] = loop[x] /\ gameTask'[x] = gameTask[x] /\ cancelled'[x] = cancelled[x]
        BY <1>1, <1>5, <1>8, <2>1 DEF EndLoop, Go, TypeOK
    <2>3. rstate'[x] = rstate[x] /\ world'[x] = world[x]
        BY <1>1, <1>6, <1>7, <1>8, <2>1 DEF TypeOK
    <2>4. Steady(x)
        BY <1>1, <2>2, <2>3 DEF Steady
    <2> QED
        BY <1>3, <2>1, <2>4, SteadyRuns
<1>9. ASSUME r \in reg' PROVE RoomRuns(r)'
    <2>1. RoomRuns(r)
        BY <1>1, <1>9 DEF DriveInv
    <2>2. LoopStep(r, k) /\ ~LoopCancel(r, k)
        <3>1. ~FinishMatch(r, k)
            BY <1>9 DEF FinishMatch
        <3>2. ~FinishResume(r, k) /\ ~LoopCancel(r, k)
            BY <1>4, <2>1 DEF FinishResume, LoopCancel, NotCancelled, RoomRuns
        <3> QED
            BY <3>1, <3>2 DEF GameStep
    <2>3. UNCHANGED world
        BY <2>2 DEF LoopStep, LoopTick, LoopCheck, LoopCrash, LoopStop
    <2>4. \A at : Go(r, k, at) => \A j \in Slots : loop'[r][j] = IF j = k THEN at ELSE loop[r][j]
        BY <1>1 DEF Go, TypeOK
    <2>5. CASE LoopTick(r, k) \/ LoopCheck(r, k)
        <3>1. loop[r][k] # "ending" /\ UNCHANGED <<gameTask, cancelled>>
            BY <2>5 DEF LoopTick, LoopCheck, CheckWin
        <3>2. CASE rstate' = [rstate EXCEPT ![r] = "FINISHED"] /\ Go(r, k, "ending")
            <4>1. rstate'[r] = "FINISHED" /\ loop'[r][k] = "ending"
                BY <1>1, <2>4, <3>2 DEF TypeOK
            <4>2. \A j \in Slots : loop'[r][j] # "finishing"
                BY <2>1, <2>4, <3>2 DEF RoomRuns
            <4> QED
                BY <2>1, <3>1, <4>1, <4>2 DEF RoomRuns
        <3>3. CASE UNCHANGED rstate /\ \E at \in {"top", "mid"} : Go(r, k, at)
            <4>1. /\ \A j \in Slots : loop'[r][j] # "finishing"
                  /\ \A j \in Slots : loop[r][j] = "ending" => loop'[r][j] = "ending"
                BY <2>1, <2>4, <3>1, <3>3 DEF RoomRuns
            <4> QED
                BY <1>1, <1>3, <2>1, <2>3, <3>1, <3>3, <4>1 DEF RoomRuns, GameTaskLive
        <3> QED
            BY <2>5, <3>2, <3>3 DEF LoopTick, LoopCheck, CheckWin
    <2>6. CASE LoopCrash(r, k) \/ LoopStop(r, k)
        <3>1. rstate[r] # "RUNNING"
            <4>1. Range(roster[r]) \subseteq Players
                BY <1>1 DEF TypeOK, Range
            <4>2. world[r] # NoWorld \/ rstate[r] # "RUNNING"
                BY <2>1, <4>1, NameAssumption DEF RoomRuns, NoWorld
            <4> QED
                BY <2>6, <4>2 DEF LoopCrash, LoopStop
        <3>2. loop[r][k] # "ending" /\ EndLoop(r, k)
            BY <2>6 DEF LoopCrash, LoopStop, ExitLoop
        <3>3. rstate'[r] = rstate[r] /\ cancelled'[r] = 0
            BY <1>1, <2>1, <2>6, <3>1, <3>2
            DEF LoopCrash, LoopStop, ExitLoop, EndLoop, RoomRuns, TypeOK
        <3>4. /\ \A j \in Slots : loop'[r][j] # "finishing"
              /\ \A j \in Slots : loop[r][j] = "ending" => loop'[r][j] = "ending"
            BY <2>1, <2>4, <3>2 DEF RoomRuns, EndLoop
        <3> QED
            BY <1>3, <2>1, <3>1, <3>3, <3>4 DEF RoomRuns
    <2> QED
        BY <2>2, <2>5, <2>6 DEF LoopStep
<1> QED
    BY <1>2, <1>8, <1>9 DEF DriveInv

LEMMA DriveInvariant == Spec => []DriveInv
<1>1. Init => DriveInv
    BY DEF Init, DriveInv, Destroyers
<1>2. RegistryInv /\ DriveInv /\ [Next]_vars => DriveInv'
    <2> SUFFICES ASSUME RegistryInv, DriveInv, [Next]_vars PROVE DriveInv'
        OBVIOUS
    <2>1. TypeInv /\ RosterInv
        BY DEF RegistryInv
    <2>2. CASE Next
        BY <2>1, <2>2, RequestRuns, ResumeRuns, CountdownRuns, GameStepRuns DEF Next
    <2>3. CASE UNCHANGED vars
        BY <2>3 DEF vars, handlerVars, roomVars, registryVars, rosterVars, gameVars, taskVars,
           DriveInv, Destroyers, RoomRuns, StartDue, HostTurn, GameTaskLive
    <2> QED
        BY <2>2, <2>3
<1> QED
    BY <1>1, <1>2, RegistryInvariant, PTL DEF Spec

\* Every registered room that has left WAITING has a task that takes it further,
\* although hosts, the matchmaker, two countdowns and the departures of all its
\* members race for it.
THEOREM RoomsAreDriven == Spec => []RoomDriven
<1>1. RegistryInv /\ DriveInv => RoomDriven
    BY DEF RegistryInv, TypeInv, TypeOK, DriveInv, RoomRuns, StartDue, HostTurn, RoomDriven
<1> QED
    BY <1>1, RegistryInvariant, DriveInvariant, PTL

\* The simulation of a running registered room has a snake for exactly the members
\* of the room.
THEOREM WorldFollowsRoster == Spec => []WorldMatchesRoster
<1>1. DriveInv => WorldMatchesRoster
    BY DEF DriveInv, RoomRuns, WorldMatchesRoster
<1> QED
    BY <1>1, DriveInvariant, PTL

\* A player whose disconnection is complete is in no session, queue or registered
\* room, and the running game of no registered room has a snake of his.
THEOREM NoGhostsLeft == Spec => []NoGhosts
<1>1. RegistryInv /\ DriveInv => NoGhosts
    <2> SUFFICES ASSUME RegistryInv, DriveInv PROVE NoGhosts
        OBVIOUS
    <2>1. \A p \in Players : pc[p] = "off" => p \notin sess \cup inq /\ proom[p] = NoRoom
        BY NameAssumption DEF RegistryInv, RosterInv, PlaceInv, TypeInv, TypeOK, RegistryAgrees,
           QueueExclusive, HandlerPlaces
    <2>2. \A p \in Players : proom[p] = NoRoom => \A r \in reg : p \notin Range(roster[r])
        BY NameAssumption DEF RegistryInv, RosterInv, TypeInv, TypeOK, RegistryAgrees
    <2>3. \A r \in reg : rstate[r] = "RUNNING" => world[r] = Range(roster[r])
        BY DEF DriveInv, RoomRuns
    <2> QED
        BY <2>1, <2>2, <2>3 DEF NoGhosts
<1> QED
    BY <1>1, RegistryInvariant, DriveInvariant, PTL

-----------------------------------------------------------------------------

(* Who enters a room, and who waits in the queue *)

\* A roster that this step leaves, shortens, or extends while the room waits.
Closed(r) == rstate[r] # "WAITING" => Range(roster'[r]) \subseteq Range(roster[r])

LEMMA OpeningClosed ==
    ASSUME TypeOK, NEW lineup, IsLineup(lineup), OpenRooms(lineup), NEW r \in reg
    PROVE  Closed(r)
<1>1. r \in Rooms \ DOMAIN lineup
    BY DEF IsLineup, FreshRooms, Fresh, TypeOK
<1> QED
    BY <1>1, OpenRoomsFacts DEF Closed

LEMMA SeatClosed ==
    ASSUME TypeOK, NEW p \in Players, NEW r \in reg, NEW x \in reg, JoinAllowed(p, x), Seat(p, x)
    PROVE  Closed(r)
BY DEF TypeOK, JoinAllowed, Seat, Closed

LEMMA DepartClosed ==
    ASSUME TypeOK, RosterInv, NEW p \in Players, NEW sending, NEW awaiting, NEW over,
           Depart(p, sending, awaiting, over), NEW r \in reg
    PROVE  Closed(r)
<1>1. CASE UNCHANGED roomVars
    BY <1>1 DEF Closed, roomVars, rosterVars
<1>2. CASE ~NotInRoom(p) /\ RemovePlayer(proom[p], p)
    <2>1. proom[p] \in reg /\ proom[p] \in Rooms /\ r \in Rooms
        BY <1>2 DEF NotInRoom, TypeOK
    <2>2. /\ roster[proom[p]] \in Seq(Players) /\ IsInjective(roster[proom[p]])
          /\ p \in Range(roster[proom[p]])
        BY <2>1 DEF RosterInv, RosterBounded, RegistryAgrees, TypeOK
    <2>3. Range(Without(roster[proom[p]], p)) = Range(roster[proom[p]]) \ {p}
        BY <2>2, WithoutFacts
    <2> QED
        BY <1>2, <2>1, <2>3 DEF RemovePlayer, Closed, TypeOK
<1> QED
    BY <1>1, <1>2 DEF Depart, LeaveOthers, LeaveAndCancel, LeaveAndClose

\* Once a room has left WAITING nobody enters it, not even a player whose request
\* to join was suspended when the room started.
THEOREM NobodyJoinsLate == Spec => NoLateJoin
<1> DEFINE Shut == \A r \in reg \cap reg' :
                    rstate[r] # "WAITING" => Range(roster'[r]) \subseteq Range(roster[r])
<1>1. RegistryInv /\ [Next]_vars => [Shut]_vars
    <2> SUFFICES ASSUME RegistryInv, Next, NEW r \in reg PROVE Closed(r)
        BY DEF Closed
    <2>1. TypeInv /\ TypeOK /\ RosterInv
        BY DEF RegistryInv, TypeInv
    <2>2. ASSUME NEW p \in Players, Request(p) PROVE Closed(r)
        <3>1. CASE UNCHANGED roster
            BY <3>1 DEF Closed
        <3>2. CASE CreateRoom(p)
            <4>1. CASE OpenPrivateRoom(p)
                <5>1. PICK x \in FreshRooms :
                        IsLineup([y \in {x} |-> <<p>>]) /\ OpenRooms([y \in {x} |-> <<p>>])
                    BY <2>1, <4>1, PrivateRoomFacts
                <5> QED
                    BY <2>1, <5>1, OpeningClosed
            <4> QED
                BY <3>1, <3>2, <4>1 DEF CreateRoom, roomVars, rosterVars
        <3>3. CASE \E x \in Rooms : JoinRoom(p, x)
            BY <2>1, <3>1, <3>3, SeatClosed DEF JoinRoom, JoinAllowed, rosterVars
        <3>4. CASE LeaveRoom(p) \/ Disconnect(p)
            BY <2>1, <3>1, <3>4, DepartClosed DEF LeaveRoom, Disconnect, roomVars, rosterVars
        <3> QED
            BY <2>2, <3>1, <3>2, <3>3, <3>4
            DEF Request, Connect, JoinQueue, CancelQueue, StartRoom, roomVars, rosterVars
    <2>3. ASSUME NEW p \in Players, HandlerResume(p) PROVE Closed(r)
        <3>1. CASE UNCHANGED roster
            BY <3>1 DEF Closed
        <3>2. CASE TryCreateRoom(p)
            BY <2>1, <3>2, LineupsAreLineups, OpeningClosed DEF TryCreateRoom
        <3>3. CASE CreateRoomResume(p)
            <4>1. PICK x \in FreshRooms :
                    IsLineup([y \in {x} |-> <<p>>]) /\ OpenRooms([y \in {x} |-> <<p>>])
                BY <2>1, <3>3, PrivateRoomFacts DEF CreateRoomResume
            <4> QED
                BY <2>1, <4>1, OpeningClosed
        <3>4. CASE JoinRoomResume(p)
            BY <2>1, <3>1, <3>4, SeatClosed DEF JoinRoomResume, JoinAllowed, rosterVars
        <3>5. CASE DisconnectFromRoom(p)
            BY <2>1, <3>5, DepartClosed DEF DisconnectFromRoom
        <3> QED
            BY <2>3, <3>1, <3>2, <3>3, <3>4, <3>5
            DEF HandlerResume, HostCountdown, HostStartsGame, LeaveRoomResume, DisconnectResume,
                DestroyResume, roomVars, rosterVars
    <2>4. ASSUME NEW x \in Rooms, CountdownStep(x) \/ \E k \in Slots : GameStep(x, k)
          PROVE  Closed(r)
        BY <2>4 DEF Closed, CountdownStep, CountdownBegin, CountdownEnd, GameStep, LoopStep,
           FinishMatch, FinishResume, rosterVars
    <2> QED
        BY <2>2, <2>3, <2>4 DEF Next
<1> QED
    BY <1>1, RegistryInvariant, PTL DEF Spec, NoLateJoin

\* The queue is finite, whatever the set of players.
QueueInv == IsFiniteSet(inq) /\ MatchmakerAwake

\* Who leaves the queue wakes nobody up, and no handler that has yet to form
\* rooms is lost.
LEMMA QueueShrinks ==
    ASSUME QueueInv, inq' \subseteq inq,
           \A p \in Players : pc[p] = "enqueued" => pc'[p] = "enqueued"
    PROVE  QueueInv'
<1>1. /\ IsFiniteSet(inq') /\ Cardinality(inq') <= Cardinality(inq)
      /\ Cardinality(inq) \in Nat /\ Cardinality(inq') \in Nat
    BY FS_Subset, FS_CardinalityType DEF QueueInv
<1>2. Cardinality(inq') >= MinPlayers => Cardinality(inq) >= MinPlayers
    BY <1>1, SizeAssumption
<1> QED
    BY <1>1, <1>2 DEF QueueInv, MatchmakerAwake

LEMMA QueueInvariant == Spec => []QueueInv
<1>1. Init => QueueInv
    <2> SUFFICES ASSUME Init PROVE QueueInv
        OBVIOUS
    <2>1. inq = {} /\ IsFiniteSet({}) /\ Cardinality({}) = 0
        BY FS_EmptySet DEF Init
    <2> QED
        BY <2>1, SizeAssumption DEF QueueInv, MatchmakerAwake
<1>2. TypeOK /\ QueueInv /\ [Next]_vars => QueueInv'
    <2> SUFFICES ASSUME TypeOK, QueueInv, [Next]_vars PROVE QueueInv'
        OBVIOUS
    <2>1. ASSUME NEW p \in Players, pc[p] # "enqueued", inq' \subseteq inq,
                 UNCHANGED handlerVars \/ \E at, t : Suspend(p, at, t)
          PROVE  QueueInv'
        <3>1. \A q \in Players : pc[q] = "enqueued" => pc'[q] = "enqueued"
            BY <2>1 DEF Suspend, handlerVars, TypeOK
        <3> QED
            BY <2>1, <3>1, QueueShrinks
    <2>2. ASSUME NEW p \in Players, JoinQueue(p) PROVE QueueInv'
        <3>1. IsFiniteSet(inq') /\ pc'[p] = "enqueued"
            BY <2>2, FS_AddElement DEF JoinQueue, Suspend, TypeOK, QueueInv
        <3> QED
            BY <3>1 DEF QueueInv, MatchmakerAwake
    <2>3. ASSUME NEW p \in Players, TryCreateRoom(p) PROVE QueueInv'
        <3>1. PICK lineup \in Lineups : inq' = inq \ Seated(lineup)
            BY <2>3 DEF TryCreateRoom
        <3>2. ~ShouldCreate(Cardinality(inq'))
            BY <3>1 DEF Lineups
        <3>3. IsFiniteSet(inq')
            BY <3>1, FS_Subset DEF QueueInv
        <3> QED
            BY <3>2, <3>3 DEF QueueInv, MatchmakerAwake, ShouldCreate
    <2>4. ASSUME NEW p \in Players, Request(p) PROVE QueueInv'
        <3>1. CASE ~JoinQueue(p)
            <4>1. pc[p] \in {"off", "idle"} /\ inq' \subseteq inq
                BY <2>4, <3>1 DEF Request, Connect, CancelQueue, LeaveQueue, CreateRoom, JoinRoom,
                   StartRoom, LeaveRoom, Disconnect
            <4>2. UNCHANGED handlerVars \/ \E at, t : Suspend(p, at, t)
                BY <2>4, <3>1 DEF Request, Connect, CancelQueue, CreateRoom, JoinRoom, StartRoom,
                   LeaveRoom, Disconnect, Depart, Return
            <4> QED
                BY <2>1, <4>1, <4>2
        <3> QED
            BY <2>2, <3>1
    <2>5. ASSUME NEW p \in Players, HandlerResume(p) PROVE QueueInv'
        <3>1. CASE ~TryCreateRoom(p)
            <4>1. pc[p] # "enqueued" /\ inq' = inq
                BY <2>5, <3>1 DEF HandlerResume, CreateRoomResume, JoinRoomResume, HostCountdown,
                   HostStartsGame, LeaveRoomResume, DisconnectFromRoom, DisconnectResume
            <4>2. \E at, t : Suspend(p, at, t)
                BY <2>5, <3>1 DEF HandlerResume, CreateRoomResume, JoinRoomResume, HostCountdown,
                   HostStartsGame, LeaveRoomResume, DisconnectFromRoom, DisconnectResume,
                   Depart, Return
            <4> QED
                BY <2>1, <4>1, <4>2
        <3> QED
            BY <2>3, <2>5, <3>1
    <2>6. CASE \/ \E r \in Rooms : CountdownStep(r) \/ \E k \in Slots : GameStep(r, k)
               \/ UNCHANGED vars
        <3>1. UNCHANGED <<pc, inq>>
            BY <2>6 DEF vars, handlerVars, CountdownStep, CountdownBegin, CountdownEnd, GameStep,
               LoopStep, FinishMatch, FinishResume
        <3> QED
            BY <3>1, QueueShrinks
    <2> QED
        BY <2>4, <2>5, <2>6 DEF Next
<1>3. RegistryInv => TypeOK
    BY DEF RegistryInv, TypeInv
<1> QED
    BY <1>1, <1>2, <1>3, RegistryInvariant, PTL DEF Spec

\* Enough players for a match never wait in the queue without a handler that has
\* yet to form rooms: no leave, cancel or disconnection strands a full queue.
THEOREM QueueIsServed == Spec => []MatchmakerAwake
<1>1. QueueInv => MatchmakerAwake
    BY DEF QueueInv
<1> QED
    BY <1>1, QueueInvariant, PTL

-----------------------------------------------------------------------------

(* What the players see: module Lobby *)

\* As many members as the roster has entries.
LEMMA RosterSize ==
    ASSUME NEW s \in Seq(Players), IsInjective(s)
    PROVE  Cardinality(Range(s)) = Len(s)
<1>1. Len(s) \in Nat /\ DOMAIN s = 1..Len(s)
    OBVIOUS
<1>2. IsFiniteSet(1..Len(s)) /\ Cardinality(1..Len(s)) = Len(s)
  <2>1. 1 \in Int /\ Len(s) \in Int
      BY <1>1
  <2>2. /\ IsFiniteSet(1..Len(s))
        /\ Cardinality(1..Len(s)) = IF 1 > Len(s) THEN 0 ELSE Len(s) - 1 + 1
      BY <2>1, FS_Interval, SMTT(30)
  <2> QED BY <1>1, <2>2
<1>3. s \in Injection(DOMAIN s, Range(s)) /\ s \in Surjection(DOMAIN s, Range(s))
    BY <1>1 DEF Injection, Surjection, IsInjective, Range
<1> QED BY <1>1, <1>2, <1>3, FS_Surjection

\* Lobby counts in the same way.
LEMMA SameCardinality == \A S : LobbyView!Cardinality(S) = Cardinality(S)
BY DEF LobbyView!Cardinality, Cardinality

Phases == [r \in Rooms |-> Phase(r)]

lobbyVars == <<inq, proom, Phases>>

LEMMA PhasesStay ==
    ASSUME \A r \in Rooms : Phase(r)' = Phase(r)
    PROVE  Phases' = Phases
BY DEF Phases

LEMMA PhaseMoves ==
    ASSUME NEW x \in Rooms, NEW v, Phase(x)' = v, \A r \in Rooms \ {x} : Phase(r)' = Phase(r)
    PROVE  Phases' = [Phases EXCEPT ![x] = v]
BY DEF Phases

\* A room whose state changes outside WAITING, or outside the registry, looks as
\* it did.
LEMMA RoomLooksTheSame ==
    ASSUME NEW x \in Rooms, reg' = reg, \A r \in Rooms \ {x} : rstate'[r] = rstate[r],
           x \in reg => rstate[x] # "WAITING" /\ rstate'[x] # "WAITING"
    PROVE  Phases' = Phases
<1>1. \A r \in Rooms : Phase(r)' = Phase(r)
    BY DEF Phase
<1> QED BY <1>1, PhasesStay

LEMMA RoomsUntouched ==
    ASSUME UNCHANGED <<reg, rstate>>
    PROVE  Phases' = Phases
BY DEF Phases, Phase

\* A loop or a countdown works on a room that no longer waits.
LEMMA StartedRooms ==
    ASSUME TypeInv, NEW r \in reg
    PROVE  /\ \A k \in Slots : LoopLive(r, k) => rstate[r] # "WAITING"
           /\ cd[r] = "counting" => rstate[r] # "WAITING"
           /\ \A p \in Players : HostTurn(p, r) => rstate[r] # "WAITING"
BY DEF TypeInv, WaitingRoomsIdle, NoLoops

\* create_room for one player.
LEMMA OpenLobby ==
    ASSUME TypeOK, RosterInv, NEW p \in Players, proom[p] = NoRoom, OpenPrivateRoom(p),
           inq' = inq \ {p}
    PROVE  LobbyView!Next
<1>1. PICK r \in FreshRooms :
        IsLineup([x \in {r} |-> <<p>>]) /\ OpenRooms([x \in {r} |-> <<p>>])
    BY PrivateRoomFacts
<1> DEFINE lineup == [x \in {r} |-> <<p>>]
<1>2. DOMAIN lineup = {r} /\ r \in Rooms /\ r \notin reg
    BY DEF FreshRooms, Fresh
<1>3. Range(<<p>>) = {p}
    BY DEF Range
<1>4. Seated(lineup) = {p}
    BY <1>3 DEF Seated
<1> HIDE DEF lineup
<1>5. IsLineup(lineup) /\ OpenRooms(lineup)
    BY <1>1 DEF lineup
<1>6. /\ reg' = reg \cup {r} /\ rstate'[r] = "WAITING"
      /\ \A x \in Rooms \ {r} : rstate'[x] = rstate[x]
      /\ proom' \in [Players -> Rooms \cup {NoRoom}]
      /\ proom'[p] = r /\ \A q \in Players \ {p} : proom'[q] = proom[q]
    <2>1. /\ reg' = reg \cup DOMAIN lineup
          /\ proom' \in [Players -> Rooms \cup {NoRoom}]
          /\ \A q \in Seated(lineup) : proom'[q] \in DOMAIN lineup
          /\ \A q \in Players \ Seated(lineup) : proom'[q] = proom[q]
          /\ \A x \in DOMAIN lineup : rstate'[x] = "WAITING"
          /\ \A x \in Rooms \ DOMAIN lineup : rstate'[x] = rstate[x]
        BY <1>5, OpenRoomsFacts
    <2>2. DOMAIN lineup = {r}
        BY <1>2 DEF lineup
    <2> QED BY <1>4, <2>1, <2>2
<1>7. proom' = [proom EXCEPT ![p] = r]
    BY <1>6 DEF TypeOK
<1>8. Phases' = [Phases EXCEPT ![r] = "open"]
    <2>1. Phase(r)' = "open" /\ \A x \in Rooms \ {r} : Phase(x)' = Phase(x)
        BY <1>2, <1>6 DEF Phase
    <2> QED BY <1>2, <2>1, PhaseMoves
<1>9. r \in LobbyView!Gone
    BY <1>2 DEF LobbyView!Gone, Phase
<1>10. LobbyView!Open(p, r)
    BY <1>7, <1>8, <1>9 DEF LobbyView!Open, Phases
<1> QED BY <1>2, <1>10 DEF LobbyView!Next

\* join_room of the registry.
LEMMA SeatLobby ==
    ASSUME TypeOK, RosterInv, NEW p \in Players, NEW r \in Rooms, JoinAllowed(p, r), Seat(p, r),
           rstate' = rstate, inq' = inq \ {p}
    PROVE  LobbyView!Next
<1>1. /\ r \in reg /\ rstate[r] = "WAITING" /\ Len(roster[r]) < MaxPlayers /\ proom[p] = NoRoom
      /\ reg' = reg /\ proom' = [proom EXCEPT ![p] = r]
    BY DEF JoinAllowed, Seat
<1>2. LobbyView!Members(r) = Range(roster[r])
    <2>1. Range(roster[r]) \subseteq Players
        BY DEF TypeOK, Range
    <2> QED BY <1>1, <2>1 DEF LobbyView!Members, RosterInv, RegistryAgrees
<1>3. Cardinality(LobbyView!Members(r)) < MaxPlayers
    <2>1. roster[r] \in Seq(Players) /\ IsInjective(roster[r])
        BY <1>1 DEF TypeOK, RosterInv, RosterBounded
    <2> QED BY <1>1, <1>2, <2>1, RosterSize
<1>4. Phases' = Phases
    BY <1>1, RoomsUntouched
<1>5. Phase(r) = "open"
    BY <1>1 DEF Phase
<1>6. LobbyView!Enter(p, r)
    BY <1>1, <1>3, <1>4, <1>5, SameCardinality DEF LobbyView!Enter, Phases
<1> QED BY <1>6 DEF LobbyView!Next

\* remove_player_from_room, in whichever way it goes.
LEMMA DepartLobby ==
    ASSUME TypeOK, RosterInv, NEW p \in Players, NEW sending, NEW awaiting, NEW over,
           Depart(p, sending, awaiting, over), inq' = inq
    PROVE  [LobbyView!Next]_lobbyVars
<1>0. PICK r : r = proom[p]
    OBVIOUS
<1>1. proom' = [proom EXCEPT ![p] = NoRoom]
    BY DepartRosters
<1>2. CASE NotInRoom(p) /\ UNCHANGED roomVars
    <2>1. UNCHANGED <<proom, reg, rstate>>
        BY <1>2 DEF roomVars, registryVars, gameVars
    <2> QED BY <2>1, RoomsUntouched DEF lobbyVars
<1>3. CASE ~NotInRoom(p) /\ (LeaveOthers(p) \/ LeaveAndCancel(p) \/ LeaveAndClose(p))
    <2>1. r \in reg /\ r \in Rooms
        BY <1>0, <1>3 DEF NotInRoom, TypeOK
    <2>2. Range(roster[r]) \subseteq Players
        BY <2>1 DEF TypeOK, Range
    <2>3. LobbyView!Members(r) = Range(roster[r]) /\ p \in Range(roster[r])
        BY <1>0, <2>1, <2>2 DEF LobbyView!Members, RosterInv, RegistryAgrees
    <2>4. LastMember(r, p) <=> LobbyView!Members(r) = {p}
        BY <2>3 DEF LastMember
    <2>5. CASE LeaveOthers(p)
        <3>1. ~LastMember(r, p) /\ reg' = reg /\ rstate' = rstate
            BY <1>0, <2>5 DEF LeaveOthers
        <3>2. Phases' = Phases
            BY <3>1, RoomsUntouched
        <3> QED BY <1>0, <1>1, <2>1, <2>4, <3>1, <3>2 DEF LobbyView!Leave, LobbyView!Next, Phases
    <2>6. CASE LeaveAndCancel(p) \/ LeaveAndClose(p)
        <3>1. /\ LastMember(r, p) /\ reg' = reg \ {r}
              /\ \A x \in Rooms \ {r} : rstate'[x] = rstate[x]
            BY <1>0, <2>6 DEF LeaveAndCancel, LeaveAndClose, Close, TypeOK
        <3>2. Phase(r)' = "gone" /\ \A x \in Rooms \ {r} : Phase(x)' = Phase(x)
            BY <3>1 DEF Phase
        <3>3. Phases' = [Phases EXCEPT ![r] = "gone"]
            BY <2>1, <3>2, PhaseMoves
        <3> QED BY <1>0, <1>1, <2>1, <2>4, <3>1, <3>3 DEF LobbyView!Leave, LobbyView!Next, Phases
    <2> QED BY <1>3, <2>5, <2>6
<1> QED BY <1>2, <1>3 DEF Depart, LeaveOthers, LeaveAndCancel, LeaveAndClose

\* _try_create_room: the rooms of the lineup, all at once.
LEMMA MatchLobby ==
    ASSUME TypeInv, RosterInv, RosterInv', QueueExclusive, QueueInv, NEW p \in Players, TryCreateRoom(p)
    PROVE  LobbyView!Next
<1>1. PICK lineup \in Lineups : OpenRooms(lineup) /\ inq' = inq \ Seated(lineup)
    BY DEF TryCreateRoom
<1> DEFINE new == DOMAIN lineup
<1>2. TypeOK /\ IsLineup(lineup)
    BY LineupsAreLineups DEF TypeInv
<1>3. \A r \in new : /\ r \in Rooms /\ r \notin reg
                     /\ MinPlayers <= Len(lineup[r]) /\ Len(lineup[r]) <= MaxPlayers
                     /\ lineup[r] \in Seq(Players) /\ IsInjective(lineup[r])
                     /\ Range(lineup[r]) \subseteq inq
    <2>1. \A r \in new : lineup[r] \in Seq(inq)
        BY <1>2, LineupsAreLineups
    <2>2. \A r \in new : Range(lineup[r]) \subseteq inq
        BY <2>1 DEF Range
    <2> QED BY <1>2, <2>2, LineupsAreLineups DEF IsLineup, FreshRooms, Fresh
<1>4. /\ reg' = reg \cup new
      /\ proom' \in [Players -> Rooms \cup {NoRoom}]
      /\ \A q \in Seated(lineup) : proom'[q] \in new
      /\ \A q \in Players \ Seated(lineup) : proom'[q] = proom[q]
    BY <1>1, <1>2, OpenRoomsFacts
<1>5. /\ \A r \in new : roster'[r] = lineup[r] /\ rstate'[r] = "WAITING"
      /\ \A r \in Rooms \ new : rstate'[r] = rstate[r]
    BY <1>1, <1>2, OpenRoomsFacts
<1>6. Seated(lineup) \subseteq inq
    BY <1>3 DEF Seated
<1>7. inq \subseteq Players /\ \A q \in inq : proom[q] = NoRoom
    BY <1>2 DEF TypeOK, QueueExclusive
<1>8. \A q \in Players : proom'[q] # proom[q] => q \in inq /\ proom'[q] \in new
    BY <1>4, <1>6
<1>9. ASSUME NEW r \in new PROVE Cardinality(LobbyView!Members(r)') \in MinPlayers..MaxPlayers
    <2>1. r \in Rooms /\ r \in reg' /\ roster'[r] = lineup[r]
        BY <1>3, <1>4, <1>5
    <2>2. lineup[r] \in Seq(Players) /\ Range(lineup[r]) \subseteq Players
        BY <1>3, <1>7
    <2>3. LobbyView!Members(r)' = Range(lineup[r])
        BY <2>1, <2>2 DEF LobbyView!Members, RosterInv, RegistryAgrees
    <2>4. Cardinality(Range(lineup[r])) = Len(lineup[r]) /\ Len(lineup[r]) \in Nat
        BY <1>3, <2>2, RosterSize
    <2> QED BY <1>3, <2>3, <2>4, SizeAssumption
<1>10. inq' = {q \in inq : proom'[q] = proom[q]}
    <2>1. \A q \in Seated(lineup) : proom'[q] # proom[q]
        BY <1>3, <1>4, <1>6, <1>7, NameAssumption
    <2> QED BY <1>1, <1>4, <1>7, <2>1
<1>11. Cardinality(inq') < MinPlayers
    <2>1. ~(Cardinality(inq \ Seated(lineup)) >= MinPlayers)
        BY DEF Lineups, ShouldCreate
    <2>2. Cardinality(inq \ Seated(lineup)) \in Nat
        BY FS_Subset, FS_CardinalityType DEF QueueInv
    <2> QED BY <1>1, <2>1, <2>2, SizeAssumption
<1>12. Phases' = [r \in Rooms |-> IF r \in new THEN "open" ELSE Phases[r]]
    <2>1. \A r \in Rooms : Phase(r)' = IF r \in new THEN "open" ELSE Phase(r)
        BY <1>3, <1>4, <1>5 DEF Phase
    <2> QED BY <2>1 DEF Phases
<1>13. new \subseteq LobbyView!Gone
    BY <1>3 DEF LobbyView!Gone, Phase
<1>14. \A r \in new : LobbyView!Cardinality(LobbyView!Members(r)') \in MinPlayers..MaxPlayers
    BY <1>9, SameCardinality
<1>15. LobbyView!Cardinality(inq') < MinPlayers
    BY <1>11, SameCardinality
<1> HIDE DEF new
<1>16. LobbyView!Match(new)
    BY <1>4, <1>8, <1>10, <1>12, <1>13, <1>14, <1>15 DEF LobbyView!Match, Phases
<1>17. new \subseteq Rooms
    BY <1>13 DEF LobbyView!Gone
<1> QED BY <1>16, <1>17 DEF LobbyView!Next

LEMMA RequestLobby ==
    ASSUME TypeInv, RosterInv, PlaceInv, NEW p \in Players, Request(p)
    PROVE  [LobbyView!Next]_lobbyVars
<1>1. TypeOK /\ PlaceOf(p)
    BY PlaceByPlayer DEF TypeInv
<1>2. UNCHANGED roomVars => UNCHANGED <<reg, proom, rstate>> /\ Phases' = Phases
    BY RoomsUntouched DEF roomVars, registryVars, gameVars
<1>3. ASSUME p \in inq, inq' = inq \ {p}, UNCHANGED roomVars PROVE LobbyView!Next
    BY <1>2, <1>3 DEF LobbyView!GiveUp, LobbyView!Next, Phases
<1>4. ASSUME inq' = inq, UNCHANGED roomVars PROVE UNCHANGED lobbyVars
    BY <1>2, <1>4 DEF lobbyVars
<1>5. CASE Connect(p)
    BY <1>4, <1>5 DEF Connect
<1>6. CASE JoinQueue(p)
    <2>1. p \notin inq /\ proom[p] = NoRoom /\ inq' = inq \cup {p} /\ UNCHANGED roomVars
        BY <1>1, <1>6 DEF JoinQueue, MayQueue, PlaceOf
    <2> QED BY <1>2, <2>1 DEF LobbyView!Wait, LobbyView!Next, Phases
<1>7. CASE CancelQueue(p)
    BY <1>3, <1>7 DEF CancelQueue, LeaveQueue
<1>8. CASE CreateRoom(p)
    <2>1. CASE p \in inq /\ UNCHANGED roomVars
        BY <1>3, <1>8, <2>1 DEF CreateRoom
    <2>2. CASE OpenPrivateRoom(p)
        <3>1. proom[p] = NoRoom /\ inq' = inq \ {p}
            BY <1>1, <1>8 DEF CreateRoom, PlaceOf
        <3> QED BY <1>1, <2>2, <3>1, OpenLobby
    <2> QED BY <1>8, <2>1, <2>2 DEF CreateRoom
<1>9. ASSUME NEW r \in Rooms, JoinRoom(p, r) PROVE [LobbyView!Next]_lobbyVars
    <2>1. inq' = inq \ {p} /\ UNCHANGED <<gameVars, taskVars>>
        BY <1>9 DEF JoinRoom
    <2>2. CASE UNCHANGED <<registryVars, rosterVars>>
        <3>1. UNCHANGED roomVars
            BY <2>1, <2>2 DEF roomVars
        <3>2. CASE p \in inq
            BY <1>3, <2>1, <3>1, <3>2
        <3>3. CASE p \notin inq
            BY <1>4, <2>1, <3>1, <3>3
        <3> QED BY <3>2, <3>3
    <2>3. CASE JoinAllowed(p, r) /\ Seat(p, r)
        BY <1>1, <2>1, <2>3, SeatLobby DEF gameVars
    <2> QED BY <1>9, <2>2, <2>3 DEF JoinRoom
<1>10. CASE StartRoom(p)
    <2>0. PICK r : r = proom[p]
        OBVIOUS
    <2>1. /\ r \in reg /\ r \in Rooms /\ rstate[r] = "WAITING"
          /\ rstate' = [rstate EXCEPT ![r] = "STARTING"] /\ UNCHANGED <<inq, reg, proom>>
        BY <1>1, <1>10, <2>0 DEF StartRoom, MayStart, registryVars, TypeOK
    <2>2. /\ Phase(r) = "open" /\ Phase(r)' = "playing"
          /\ \A x \in Rooms \ {r} : Phase(x)' = Phase(x)
        BY <1>1, <2>1 DEF Phase, TypeOK
    <2>3. Phases' = [Phases EXCEPT ![r] = "playing"]
        BY <2>1, <2>2, PhaseMoves
    <2> QED BY <2>1, <2>2, <2>3 DEF LobbyView!Start, LobbyView!Next, Phases
<1>11. CASE LeaveRoom(p)
    BY <1>1, <1>11, DepartLobby DEF LeaveRoom
<1>12. CASE Disconnect(p)
    <2>1. inq' = inq \ {p}
        BY <1>12 DEF Disconnect
    <2>2. CASE p \in inq
        <3>1. NotInRoom(p)
            BY <1>1, <2>2, NameAssumption DEF PlaceOf, NotInRoom, TypeOK
        <3>2. UNCHANGED roomVars
            BY <1>12, <3>1 DEF Disconnect, Depart, LeaveOthers, LeaveAndCancel, LeaveAndClose
        <3> QED BY <1>3, <2>1, <2>2, <3>2
    <2>3. CASE p \notin inq
        <3>1. Depart(p, "off", "dropped", "off") /\ inq' = inq
            BY <1>12, <2>1, <2>3 DEF Disconnect
        <3> QED BY <1>1, <3>1, DepartLobby
    <2> QED BY <2>2, <2>3
<1> QED BY <1>5, <1>6, <1>7, <1>8, <1>9, <1>10, <1>11, <1>12 DEF Request

\* A destruction that goes on concerns nobody: its room is in no registry.
LEMMA DestroyLobby ==
    ASSUME TypeInv, Destroyers, NEW p \in Players, pc[p] \in {"leaving", "dropped"},
           DestroyResume(p), inq' = inq
    PROVE  UNCHANGED lobbyVars
<1>0. PICK r : r = tgt[p]
    OBVIOUS
<1>1. r \notin reg /\ reg' = reg /\ proom' = proom /\ \A x \in Rooms \ {r} : rstate'[x] = rstate[x]
    BY <1>0 DEF Destroyers, DestroyResume, Close, registryVars, TypeInv, TypeOK
<1>2. \A x \in Rooms : Phase(x)' = Phase(x)
    BY <1>1 DEF Phase
<1> QED BY <1>1, <1>2, PhasesStay DEF lobbyVars

LEMMA ResumeLobby ==
    ASSUME TypeInv, RosterInv, PlaceInv, RosterInv', QueueInv, Destroyers,
           NEW p \in Players, HandlerResume(p)
    PROVE  [LobbyView!Next]_lobbyVars
<1>1. TypeOK /\ PlaceOf(p) /\ QueueExclusive
    BY PlaceByPlayer DEF TypeInv, PlaceInv
<1>2. UNCHANGED roomVars => UNCHANGED <<reg, proom, rstate>> /\ Phases' = Phases
    BY RoomsUntouched DEF roomVars, registryVars, gameVars
<1>3. CASE TryCreateRoom(p)
    BY <1>1, <1>3, MatchLobby
<1>4. CASE CreateRoomResume(p)
    <2>1. OpenPrivateRoom(p) /\ proom[p] = NoRoom /\ inq' = inq \ {p}
        BY <1>1, <1>4 DEF CreateRoomResume, PlaceOf
    <2> QED BY <1>1, <2>1, OpenLobby
<1>5. CASE JoinRoomResume(p)
    <2>0. PICK r : r = tgt[p]
        OBVIOUS
    <2>1. r \in Rooms /\ inq' = inq \ {p} /\ inq' = inq /\ rstate' = rstate
        BY <1>1, <1>5, <2>0 DEF JoinRoomResume, PlaceOf, TypeInv, TargetKnown, gameVars
    <2>2. CASE JoinAllowed(p, r) /\ Seat(p, r)
        BY <1>1, <2>1, <2>2, SeatLobby
    <2>3. CASE UNCHANGED registryVars
        <3>1. reg' = reg /\ proom' = proom
            BY <2>3 DEF registryVars
        <3> QED BY <2>1, <3>1, RoomsUntouched DEF lobbyVars
    <2> QED BY <1>5, <2>0, <2>2, <2>3 DEF JoinRoomResume
<1>6. CASE HostCountdown(p) \/ HostStartsGame(p)
    <2>0. PICK r : r = tgt[p]
        OBVIOUS
    <2>1. /\ r \in Rooms /\ HostTurn(p, r)
          /\ UNCHANGED <<inq, reg, proom>>
          /\ \A x \in Rooms \ {r} : rstate'[x] = rstate[x]
          /\ rstate'[r] # "WAITING"
        BY <1>1, <1>6, <2>0 DEF HostCountdown, HostStartsGame, BeginCountdown, StartGame, HostTurn,
           TypeInv, TargetKnown, TypeOK, registryVars
    <2>2. r \in reg => rstate[r] # "WAITING"
        BY <2>1, StartedRooms
    <2> QED BY <2>1, <2>2, RoomLooksTheSame DEF lobbyVars
<1>7. CASE LeaveRoomResume(p)
    <2>1. CASE UNCHANGED roomVars
        BY <1>2, <1>7, <2>1 DEF LeaveRoomResume, lobbyVars
    <2>2. CASE DestroyResume(p)
        BY <1>7, <2>2, DestroyLobby DEF LeaveRoomResume
    <2> QED BY <1>7, <2>1, <2>2 DEF LeaveRoomResume
<1>8. CASE DisconnectFromRoom(p)
    BY <1>1, <1>8, DepartLobby DEF DisconnectFromRoom
<1>9. CASE DisconnectResume(p)
    BY <1>9, DestroyLobby DEF DisconnectResume
<1> QED BY <1>3, <1>4, <1>5, <1>6, <1>7, <1>8, <1>9 DEF HandlerResume

LEMMA CountdownLobby ==
    ASSUME TypeInv, NEW r \in Rooms, CountdownStep(r)
    PROVE  [LobbyView!Next]_lobbyVars
<1>1. /\ UNCHANGED <<inq, reg, proom>>
      /\ \A x \in Rooms \ {r} : rstate'[x] = rstate[x]
      /\ rstate'[r] \notin {"WAITING", "FINISHED"}
    BY DEF CountdownStep, CountdownBegin, CountdownEnd, BeginCountdown, StartGame, registryVars,
       TypeInv, TypeOK
<1>2. CASE r \in reg /\ rstate[r] = "WAITING"
    <2>1. /\ Phase(r) = "open" /\ Phase(r)' = "playing"
          /\ \A x \in Rooms \ {r} : Phase(x)' = Phase(x)
        BY <1>1, <1>2 DEF Phase
    <2>2. Phases' = [Phases EXCEPT ![r] = "playing"]
        BY <2>1, PhaseMoves
    <2> QED BY <1>1, <2>1, <2>2 DEF LobbyView!Start, LobbyView!Next, Phases
<1>3. CASE ~(r \in reg /\ rstate[r] = "WAITING")
    BY <1>1, <1>3, RoomLooksTheSame DEF lobbyVars
<1> QED BY <1>2, <1>3

LEMMA GameStepLobby ==
    ASSUME TypeInv, RosterInv, NEW r \in Rooms, NEW k \in Slots, GameStep(r, k)
    PROVE  [LobbyView!Next]_lobbyVars
<1>1. TypeOK /\ LoopLive(r, k) /\ (r \in reg => rstate[r] # "WAITING")
    <2>1. TypeOK /\ LoopLive(r, k)
        BY DEF GameStep, LoopStep, LoopTick, LoopCheck, LoopCrash, LoopStop, LoopCancel, FinishMatch,
           FinishResume, LoopLive, TypeInv
    <2> QED BY <2>1, StartedRooms
<1>2. /\ inq' = inq
      /\ \A x \in Rooms \ {r} : rstate'[x] = rstate[x]
      /\ rstate'[r] \in {rstate[r], "FINISHED"}
    BY <1>1 DEF GameStep, LoopStep, LoopTick, LoopCheck, LoopCrash, LoopStop, LoopCancel, FinishMatch,
       FinishResume, CheckWin, ExitLoop, Close, gameVars, TypeOK
<1>3. CASE LoopStep(r, k) \/ FinishResume(r, k)
    <2>1. reg' = reg /\ proom' = proom
        BY <1>3 DEF LoopStep, FinishResume, registryVars
    <2> QED BY <1>1, <1>2, <2>1, RoomLooksTheSame DEF lobbyVars
<1>4. CASE FinishMatch(r, k)
    <2>1. /\ reg' = reg \ {r}
          /\ \A p \in Players : proom'[p] = IF proom[p] = r THEN NoRoom ELSE proom[p]
        BY <1>1, <1>4, FinishRosters DEF FinishMatch
    <2>2. proom' = [p \in Players |-> IF proom[p] = r THEN NoRoom ELSE proom[p]]
        BY <1>1, <1>4, <2>1 DEF FinishMatch, ForgetRoom, Override, TypeOK
    <2>3. Phase(r)' = "gone" /\ \A x \in Rooms \ {r} : Phase(x)' = Phase(x)
        BY <1>2, <2>1 DEF Phase
    <2>4. Phases' = [Phases EXCEPT ![r] = "gone"]
        BY <2>3, PhaseMoves
    <2>5. CASE r \in reg
        <3>1. Phase(r) = "playing"
            BY <1>1, <2>5 DEF Phase
        <3> QED BY <1>2, <2>2, <2>4, <3>1 DEF LobbyView!End, LobbyView!Next, Phases
    <2>6. CASE r \notin reg
        <3>1. proom' = proom
            BY <1>1, <2>2, <2>6 DEF RosterInv, RegistryAgrees, TypeOK
        <3>2. Phases' = Phases
            BY <2>3, <2>6, PhasesStay DEF Phase
        <3> QED BY <1>2, <3>1, <3>2 DEF lobbyVars
    <2> QED BY <2>5, <2>6
<1> QED BY <1>3, <1>4 DEF GameStep

\* Whatever handlers, countdowns and game loops are suspended in the middle of, each
\* of their steps is for the players one of module Lobby, or none: the server
\* implements it for every number of players and rooms.
THEOREM ServerIsALobby == Spec => ImplementsLobby
<1>1. Init => LobbyView!Init
    BY DEF Init, LobbyView!Init, Phase
<1> DEFINE All == RegistryInv /\ QueueInv /\ DriveInv
<1>2. All /\ All' /\ [Next]_vars => [LobbyView!Next]_lobbyVars
    <2> SUFFICES ASSUME All, All', [Next]_vars PROVE [LobbyView!Next]_lobbyVars
        OBVIOUS
    <2>1. TypeInv /\ RosterInv /\ PlaceInv /\ RosterInv' /\ QueueInv /\ Destroyers
        BY DEF RegistryInv, DriveInv
    <2>2. CASE UNCHANGED vars
        <3>1. UNCHANGED <<inq, reg, proom, rstate>>
            BY <2>2 DEF vars, roomVars, registryVars, gameVars
        <3> QED BY <3>1, RoomsUntouched DEF lobbyVars
    <2>3. ASSUME NEW p \in Players, Request(p) \/ HandlerResume(p) PROVE [LobbyView!Next]_lobbyVars
        BY <2>1, <2>3, RequestLobby, ResumeLobby
    <2>4. ASSUME NEW r \in Rooms, CountdownStep(r) \/ \E k \in Slots : GameStep(r, k)
          PROVE  [LobbyView!Next]_lobbyVars
        BY <2>1, <2>4, CountdownLobby, GameStepLobby
    <2> QED BY <2>2, <2>3, <2>4 DEF Next
<1>3. [LobbyView!Next]_lobbyVars => [LobbyView!Next]_(LobbyView!vars)
    BY DEF lobbyVars, LobbyView!vars, Phases
<1> QED BY <1>1, <1>2, <1>3, RegistryInvariant, QueueInvariant, DriveInvariant, PTL
        DEF Spec, ImplementsLobby, LobbyView!Spec

-----------------------------------------------------------------------------

(* What destroy awaits *)

\* A loop that is awaited has yet to end.  It was cancelled and does not start
\* another await: it ends by LoopCancel, or by FinishResume if it awaits itself.
AwaitedLives == \A r \in Rooms : cancelled[r] # 0 => LoopLive(r, cancelled[r])

LEMMA AwaitsStay ==
    ASSUME AwaitedLives, UNCHANGED <<loop, cancelled>>
    PROVE  AwaitedLives'
BY DEF AwaitedLives, LoopLive

LEMMA AwaitsOpening ==
    ASSUME TypeOK, AwaitedLives, NEW lineup, IsLineup(lineup), OpenRooms(lineup)
    PROVE  AwaitedLives'
<1> SUFFICES ASSUME NEW r \in Rooms, cancelled'[r] # 0 PROVE LoopLive(r, cancelled[r])'
    BY DEF AwaitedLives
<1>1. r \in Rooms \ DOMAIN lineup
    BY OpenRoomsFacts
<1>2. loop'[r] = loop[r] /\ cancelled'[r] = cancelled[r]
    BY <1>1, OpenRoomsFacts
<1> QED BY <1>2 DEF AwaitedLives, LoopLive

LEMMA AwaitsDepart ==
    ASSUME TypeInv, AwaitedLives, NEW p \in Players, NEW sending, NEW awaiting, NEW over,
           Depart(p, sending, awaiting, over)
    PROVE  AwaitedLives'
<1>1. CASE LeaveAndCancel(p)
    <2>1. PICK r \in reg : /\ GameTaskLive(r) /\ loop' = loop
                           /\ cancelled' = [cancelled EXCEPT ![r] = gameTask[r]]
        BY <1>1 DEF LeaveAndCancel, NotInRoom
    <2>2. r \in Rooms /\ gameTask[r] \in Slots /\ LoopLive(r, gameTask[r])
        BY <2>1 DEF TypeInv, TypeOK, TaskIsLoop, GameTaskLive, Slots
    <2> QED BY <2>1, <2>2 DEF AwaitedLives, LoopLive, TypeInv, TypeOK
<1>2. CASE UNCHANGED taskVars \/ UNCHANGED roomVars
    BY <1>2, AwaitsStay DEF taskVars, roomVars
<1> QED BY <1>1, <1>2 DEF Depart, LeaveOthers, LeaveAndClose

LEMMA AwaitsStart ==
    ASSUME TypeInv, AwaitedLives, NEW r \in Rooms, StartDue(r), StartGame(r)
    PROVE  AwaitedLives'
<1>1. PICK k \in Slots : ~LoopLive(r, k) /\ loop' = [loop EXCEPT ![r][k] = "new"]
    BY StartGameFacts
<1> QED BY <1>1 DEF StartGame, AwaitedLives, LoopLive, TypeInv, TypeOK

LEMMA AwaitsGameStep ==
    ASSUME TypeInv, AwaitedLives, NEW r \in Rooms, NEW k \in Slots, GameStep(r, k)
    PROVE  AwaitedLives'
<1>1. CASE /\ \E at \in LoopStates \ {"none"} : Go(r, k, at)
           /\ UNCHANGED cancelled
    BY <1>1 DEF Go, AwaitedLives, LoopLive, TypeInv, TypeOK
<1>2. CASE EndLoop(r, k)
    BY <1>2 DEF EndLoop, Go, AwaitedLives, LoopLive, TypeInv, TypeOK
<1>3. CASE /\ GameTaskLive(r) /\ Go(r, k, "finishing")
           /\ cancelled' = [cancelled EXCEPT ![r] = gameTask[r]]
    <2>1. gameTask[r] \in Slots /\ LoopLive(r, gameTask[r])
        BY <1>3 DEF TypeInv, TypeOK, TaskIsLoop, GameTaskLive, Slots
    <2> QED BY <1>3, <2>1 DEF Go, AwaitedLives, LoopLive, TypeInv, TypeOK
<1> QED
    BY <1>1, <1>2, <1>3 DEF GameStep, LoopStep, LoopTick, LoopCheck, LoopCrash, LoopStop, LoopCancel,
       FinishMatch, FinishResume, CheckWin, ExitLoop, LoopStates

\* Whoever awaits a game loop, a handler or another loop of the room, awaits one that
\* has been cancelled and has yet to end: no destroy waits for a task that is gone,
\* with any number of rooms and players.  It is what safety contributes to
\* HandlersReturn.
THEOREM AwaitsEnd == Spec => []AwaitedLives
<1>1. Init => AwaitedLives
    BY DEF Init, AwaitedLives
<1>2. TypeInv /\ AwaitedLives /\ [Next]_vars => AwaitedLives'
    <2> SUFFICES ASSUME TypeInv, AwaitedLives, [Next]_vars PROVE AwaitedLives'
        OBVIOUS
    <2>1. TypeOK
        BY DEF TypeInv
    <2>2. ASSUME UNCHANGED taskVars \/ UNCHANGED roomVars \/ UNCHANGED <<loop, cancelled>>
          PROVE  AwaitedLives'
        BY <2>2, AwaitsStay DEF taskVars, roomVars
    <2>3. ASSUME NEW p \in Players, OpenPrivateRoom(p) PROVE AwaitedLives'
        BY <2>1, <2>3, PrivateRoomFacts, AwaitsOpening
    <2>4. ASSUME NEW p \in Players, Request(p) PROVE AwaitedLives'
        BY <2>2, <2>3, <2>4, AwaitsDepart
        DEF Request, Connect, JoinQueue, CancelQueue, CreateRoom, JoinRoom, StartRoom, LeaveRoom,
            Disconnect
    <2>5. ASSUME NEW p \in Players, HandlerResume(p) PROVE AwaitedLives'
        <3>1. CASE TryCreateRoom(p)
            BY <2>1, <3>1, LineupsAreLineups, AwaitsOpening DEF TryCreateRoom
        <3>2. CASE HostStartsGame(p)
            <4>1. tgt[p] \in Rooms /\ StartDue(tgt[p])
                BY <3>2 DEF HostStartsGame, TypeInv, TargetKnown, StartDue, HostTurn
            <4> QED BY <3>2, <4>1, AwaitsStart DEF HostStartsGame
        <3>3. CASE HostCountdown(p)
            BY <2>2, <3>3 DEF HostCountdown, BeginCountdown
        <3> QED
            BY <2>2, <2>3, <2>5, <3>1, <3>2, <3>3, AwaitsDepart
            DEF HandlerResume, CreateRoomResume, JoinRoomResume, LeaveRoomResume, DestroyResume,
                DisconnectFromRoom, DisconnectResume
    <2>6. ASSUME NEW r \in Rooms, CountdownStep(r) PROVE AwaitedLives'
        <3>1. CASE CountdownBegin(r)
            BY <2>2, <3>1 DEF CountdownBegin, BeginCountdown
        <3>2. CASE CountdownEnd(r)
            BY <3>2, AwaitsStart DEF CountdownEnd, StartDue
        <3> QED BY <2>6, <3>1, <3>2 DEF CountdownStep
    <2>7. CASE UNCHANGED vars
        BY <2>2, <2>7 DEF vars
    <2> QED BY <2>4, <2>5, <2>6, <2>7, AwaitsGameStep DEF Next
<1>3. RegistryInv => TypeInv
    BY DEF RegistryInv
<1> QED BY <1>1, <1>2, <1>3, RegistryInvariant, PTL DEF Spec

=============================================================================
