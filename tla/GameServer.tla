----------------------------- MODULE GameServer -----------------------------
(***************************************************************************)
(* The asyncio server: one receive loop per connection, the matchmaking    *)
(* queue, the room registry and the countdown and game-loop tasks of every *)
(* room, as they interleave on the event loop.  A step of this module is   *)
(* what a coroutine does between two awaits that may really suspend it: a  *)
(* broadcast with at least one recipient, a sleep, or the await of a task. *)
(* A suspension after which a coroutine only returns is left out, since a  *)
(* handler that is idle may stay idle for as long as it likes.             *)
(*                                                                         *)
(* The queue is the set of its members (modules QueueManager and SetQueue  *)
(* show that this is what the code's deque implements) and the simulation  *)
(* is the set of its snakes and the ticks left on its clock.               *)
(***************************************************************************)
EXTENDS Integers, Sequences, FiniteSets, Functions

CONSTANTS
    Players,      \* ids of the connections; an id is reused once forgotten
    Rooms,        \* Room objects, each with a code of its own
    MinPlayers,   \* MIN_PLAYERS_PER_ROOM
    MaxPlayers,   \* MAX_PLAYERS_PER_ROOM
    MatchTicks,   \* MATCH_DURATION, in ticks of the game loop
    NoRoom,       \* None, where the code expects a room id
    NoPlayer      \* the host_player_id -1

ASSUME SizeAssumption ==
    /\ MinPlayers \in Nat /\ MaxPlayers \in Nat
    /\ 2 <= MinPlayers /\ MinPlayers <= MaxPlayers

ASSUME ClockAssumption == MatchTicks \in Nat \ {0}

ASSUME NameAssumption == NoRoom \notin Rooms /\ NoPlayer \notin Players

VARIABLES
    pc,         \* where the handler of each connection is suspended
    tgt,        \* the room that suspended handler works on
    sess,       \* the keys of WebSocketServer._sessions
    sroom,      \* PlayerSession.room_id
    listen,     \* the sessions whose PlayerSession.state is IN_QUEUE
    inq,        \* the members of the matchmaking queue
    reg,        \* the keys of RoomManager._rooms
    proom,      \* RoomManager._player_room
    roster,     \* Room.player_ids
    host,       \* Room.host_player_id
    rstate,     \* Room.state
    world,      \* the snakes of Room._game_world
    timeLeft,   \* the ticks before its timer expires
    cd,         \* the countdown task the matchmaker created for the room
    loop,       \* the game loops of the room that have not ended
    gameTask,   \* the loop Room._game_task refers to; 0 if None or done
    cancelled   \* the loop Room.destroy has cancelled and awaits; 0 if none

handlerVars  == <<pc, tgt>>
sessionVars  == <<sess, sroom, listen>>
registryVars == <<reg, proom>>
rosterVars   == <<roster, host>>
gameVars     == <<rstate, world, timeLeft>>
taskVars     == <<cd, loop, gameTask, cancelled>>
roomVars     == <<registryVars, rosterVars, gameVars, taskVars>>

vars == <<handlerVars, sessionVars, inq, roomVars>>

HandlerStates == {"off", "idle", "enqueued", "creating", "joining", "starting",
                  "counting", "leaving", "dropping", "dropped"}
RoomStates    == {"WAITING", "STARTING", "RUNNING", "FINISHED"}
LoopStates    == {"none", "new", "top", "mid", "ending", "finishing"}

\* A room is started at most twice: by its host and by the matchmaker.
Slots == 1..2

\* Room._game_world is None.
NoWorld == {NoPlayer}

-----------------------------------------------------------------------------

(* Functions, sequences and the reading of the state *)

\* f, with the values of g where g is defined.
Override(f, g) == [x \in DOMAIN f |-> IF x \in DOMAIN g THEN g[x] ELSE f[x]]

\* A fault to compare with: the first element goes, whatever p is.
WithoutFirst(s, p) == IF s = <<>> THEN s ELSE Tail(s)

\* list.remove
Without(s, p) ==
    IF p \in Range(s)
    THEN LET i == CHOOSE j \in DOMAIN s : s[j] = p
         IN  [j \in 1..(Len(s) - 1) |-> IF j < i THEN s[j] ELSE s[j + 1]]
    ELSE s

LoopLive(r, k) == loop[r][k] # "none"

\* destroy: self._game_task and not self._game_task.done()
GameTaskLive(r) == gameTask[r] # 0

\* No task, handler or registry refers to the room; who waits to join one knows
\* a code, and the code may be given to another room meanwhile.
Fresh(r) ==
    /\ r \notin reg
    /\ cd[r] = "none"
    /\ \A k \in Slots : ~LoopLive(r, k)
    /\ \A p \in Players : tgt[p] = r => pc[p] = "joining"

FreshRooms == {r \in Rooms : Fresh(r)}

\* Bound: a request that may need a room waits until the finite set Rooms has
\* one left for it.
RoomAvailable ==
    Cardinality({p \in Players : pc[p] \in {"enqueued", "creating"}})
        < Cardinality(FreshRooms)

\* Somebody else is sent the queue status, so the broadcast may suspend.
OthersListen(p) == listen \ {p} # {}

\* Faults to compare with: no check of the state, no check of is_full.
JoinAllowedLate(p, r) == r \in reg /\ Len(roster[r]) < MaxPlayers /\ proom[p] = NoRoom
JoinAllowedFull(p, r) == r \in reg /\ rstate[r] = "WAITING" /\ proom[p] = NoRoom

\* RoomManager.join_room, the conditions
JoinAllowed(p, r) ==
    /\ r \in reg
    /\ rstate[r] = "WAITING"
    /\ Len(roster[r]) < MaxPlayers
    /\ proom[p] = NoRoom

-----------------------------------------------------------------------------

Init ==
    /\ pc = [p \in Players |-> "off"]
    /\ tgt = [p \in Players |-> NoRoom]
    /\ sess = {}
    /\ sroom = [p \in Players |-> NoRoom]
    /\ listen = {}
    /\ inq = {}
    /\ reg = {}
    /\ proom = [p \in Players |-> NoRoom]
    /\ roster = [r \in Rooms |-> <<>>]
    /\ host = [r \in Rooms |-> NoPlayer]
    /\ rstate = [r \in Rooms |-> "FINISHED"]
    /\ world = [r \in Rooms |-> NoWorld]
    /\ timeLeft = [r \in Rooms |-> MatchTicks]
    /\ cd = [r \in Rooms |-> "none"]
    /\ loop = [r \in Rooms |-> [k \in Slots |-> "none"]]
    /\ gameTask = [r \in Rooms |-> 0]
    /\ cancelled = [r \in Rooms |-> 0]

Suspend(p, at, r) ==
    /\ pc' = [pc EXCEPT ![p] = at]
    /\ tgt' = [tgt EXCEPT ![p] = r]

Return(p) == Suspend(p, "idle", NoRoom)

(* Connections *)

\* A new connection: an id nothing refers to any more.
Connect(p) ==
    /\ pc[p] = "off"
    /\ \A r \in Rooms : Fresh(r) \/ p \notin Range(roster[r])
    /\ Return(p)
    /\ sess' = sess \cup {p}
    /\ UNCHANGED <<sroom, listen, inq, roomVars>>

-----------------------------------------------------------------------------

(* Matchmaking *)

\* A fault to compare with: the check of session.room_id is missing.
MayQueueFromRoom(p) == p \notin inq

MayQueue(p) == sroom[p] = NoRoom /\ p \notin inq

JoinQueue(p) ==
    /\ pc[p] = "idle" /\ RoomAvailable
    /\ MayQueue(p)
    /\ inq' = inq \cup {p}
    /\ listen' = listen \cup {p}
    /\ Suspend(p, "enqueued", NoRoom)
    /\ UNCHANGED <<sess, sroom, roomVars>>

\* MatchmakingService.remove_player, up to its broadcast.
LeaveQueue(p) ==
    /\ inq' = inq \ {p}
    /\ listen' = IF p \in inq THEN listen \ {p} ELSE listen

CancelQueue(p) ==
    /\ pc[p] = "idle" /\ p \in inq
    /\ LeaveQueue(p)
    /\ UNCHANGED <<handlerVars, sess, sroom, roomVars>>

\* The players a lineup seats.
Seated(lineup) == UNION {Range(lineup[r]) : r \in DOMAIN lineup}

\* RoomManager.create_room for every room of lineup, a function from new Room
\* objects to the players each one is given.
OpenRooms(lineup) ==
    LET new == DOMAIN lineup
        seat == [p \in Seated(lineup) |-> CHOOSE r \in new : p \in Range(lineup[r])]
    IN  /\ reg' = reg \cup new
        /\ proom' = Override(proom, seat)
        /\ sroom' = Override(sroom, Restrict(seat, Seated(lineup) \cap sess))
        /\ roster' = Override(roster, lineup)
        /\ host' = Override(host, [r \in new |-> lineup[r][1]])
        /\ rstate' = Override(rstate, [r \in new |-> "WAITING"])
        /\ world' = Override(world, [r \in new |-> NoWorld])
        /\ timeLeft' = Override(timeLeft, [r \in new |-> MatchTicks])
        /\ loop' = Override(loop, [r \in new |-> [k \in Slots |-> "none"]])
        /\ gameTask' = Override(gameTask, [r \in new |-> 0])
        /\ cancelled' = Override(cancelled, [r \in new |-> 0])

\* A fault to compare with: a room only for more than the minimum.
ShouldCreateAboveMin(size) == size > MinPlayers

\* RoomAllocator.should_create_room
ShouldCreate(size) == size >= MinPlayers

\* The rooms RoomAllocator asks for: it fills rooms while enough players wait,
\* so only the last one may have a free seat, and then nobody is left over.
Lineups ==
    LET teams == {s \in UNION {[1..n -> inq] : n \in MinPlayers..MaxPlayers} : IsInjective(s)}
        left(lineup) == inq \ Seated(lineup)
        full(lineup) == {r \in DOMAIN lineup : Len(lineup[r]) = MaxPlayers}
    IN  {lineup \in UNION {[new -> teams] : new \in SUBSET FreshRooms} :
            /\ \A r, s \in DOMAIN lineup :
                   r # s => Range(lineup[r]) \cap Range(lineup[s]) = {}
            /\ ~ShouldCreate(Cardinality(left(lineup)))
            /\ \/ full(lineup) = DOMAIN lineup
               \/ left(lineup) = {} /\ Cardinality(DOMAIN lineup \ full(lineup)) = 1}

\* add_player resumes after its first broadcast: _try_create_room.
TryCreateRoom(p) ==
    /\ pc[p] = "enqueued"
    /\ \E lineup \in Lineups :
         /\ OpenRooms(lineup)
         /\ inq' = inq \ Seated(lineup)
         /\ listen' = listen \ Seated(lineup)
         /\ cd' = Override(cd, [r \in DOMAIN lineup |-> "scheduled"])
    /\ Return(p)
    /\ UNCHANGED sess

-----------------------------------------------------------------------------

(* Private rooms *)

\* create_room for one player, once it is out of the queue.
OpenPrivateRoom(p) ==
    \E r \in FreshRooms :
        /\ OpenRooms([x \in {r} |-> <<p>>])
        /\ listen' = listen \ {p}
        /\ cd' = [cd EXCEPT ![r] = "none"]

\* A queued creator leaves the queue first, and that broadcast may suspend it.
CreateRoom(p) ==
    /\ pc[p] = "idle" /\ RoomAvailable
    /\ sroom[p] = NoRoom
    /\ inq' = inq \ {p}
    /\ UNCHANGED sess
    /\ IF p \in inq /\ OthersListen(p)
       THEN LeaveQueue(p) /\ Suspend(p, "creating", NoRoom) /\ UNCHANGED <<sroom, roomVars>>
       ELSE OpenPrivateRoom(p) /\ UNCHANGED handlerVars

CreateRoomResume(p) ==
    /\ pc[p] = "creating"
    /\ OpenPrivateRoom(p)
    /\ Return(p)
    /\ UNCHANGED <<sess, inq>>

\* RoomManager.join_room
Seat(p, r) ==
    /\ roster' = [roster EXCEPT ![r] = Append(@, p)]
    /\ proom' = [proom EXCEPT ![p] = r]
    /\ sroom' = [sroom EXCEPT ![p] = r]
    /\ listen' = listen \ {p}
    /\ UNCHANGED <<reg, host>>

\* The room code, which may be that of no room, is looked up after the player has
\* left the queue: the room may go or come while the broadcast suspends him.
JoinRoom(p, r) ==
    /\ pc[p] = "idle" /\ sroom[p] = NoRoom
    /\ inq' = inq \ {p}
    /\ UNCHANGED <<sess, gameVars, taskVars>>
    /\ IF p \in inq /\ OthersListen(p)
       THEN LeaveQueue(p) /\ Suspend(p, "joining", r)
            /\ UNCHANGED <<sroom, registryVars, rosterVars>>
       ELSE /\ UNCHANGED handlerVars
            /\ IF JoinAllowed(p, r) THEN Seat(p, r)
               ELSE LeaveQueue(p) /\ UNCHANGED <<sroom, registryVars, rosterVars>>

JoinRoomResume(p) ==
    /\ pc[p] = "joining"
    /\ Return(p)
    /\ IF JoinAllowed(p, tgt[p]) THEN Seat(p, tgt[p])
       ELSE UNCHANGED <<sroom, listen, registryVars, rosterVars>>
    /\ UNCHANGED <<sess, inq, gameVars, taskVars>>

\* A fault to compare with: a room may be started again.
MayStartAgain(p, r) == r \in reg /\ host[r] = p

MayStart(p, r) == r \in reg /\ host[r] = p /\ rstate[r] = "WAITING"

\* The host is suspended by the broadcast of the room state: it is a recipient.
StartRoom(p) ==
    LET r == proom[p] IN
    /\ pc[p] = "idle" /\ MayStart(p, r)
    /\ rstate' = [rstate EXCEPT ![r] = "STARTING"]
    /\ Suspend(p, "starting", r)
    /\ UNCHANGED <<sessionVars, inq, registryVars, rosterVars, world, timeLeft, taskVars>>

-----------------------------------------------------------------------------

(* Countdowns: in the handler of the host, or in a task of the matchmaker *)

\* Room._start_game
StartGame(r) ==
    LET k == IF ~LoopLive(r, 1) THEN 1 ELSE IF ~LoopLive(r, 2) THEN 2 ELSE 3
    IN  /\ rstate' = [rstate EXCEPT ![r] = "RUNNING"]
        /\ world' = [world EXCEPT ![r] = Range(roster[r])]
        /\ timeLeft' = [timeLeft EXCEPT ![r] = MatchTicks]
        /\ loop' = [loop EXCEPT ![r][k] = "new"]
        /\ gameTask' = [gameTask EXCEPT ![r] = k]
        /\ UNCHANGED cancelled

\* Room.start_countdown, up to its sleep
BeginCountdown(r) ==
    /\ rstate' = [rstate EXCEPT ![r] = "STARTING"]
    /\ UNCHANGED <<world, timeLeft, loop, gameTask, cancelled>>

\* A fault to compare with: the start is given up but the state stays STARTING.
HostGivesUp(p) ==
    /\ pc[p] = "starting"
    /\ Return(p)
    /\ UNCHANGED <<sessionVars, inq, roomVars>>

HostCountdown(p) ==
    /\ pc[p] = "starting"
    /\ BeginCountdown(tgt[p])
    /\ Suspend(p, "counting", tgt[p])
    /\ UNCHANGED <<sessionVars, inq, registryVars, rosterVars, cd>>

\* A timer never overtakes a task created before it was set.
HostStartsGame(p) ==
    /\ pc[p] = "counting" /\ cd[tgt[p]] # "scheduled"
    /\ StartGame(tgt[p])
    /\ Return(p)
    /\ UNCHANGED <<sessionVars, inq, registryVars, rosterVars, cd>>

CountdownBegin(r) ==
    /\ cd[r] = "scheduled"
    /\ BeginCountdown(r)
    /\ cd' = [cd EXCEPT ![r] = "counting"]
    /\ UNCHANGED <<handlerVars, sessionVars, inq, registryVars, rosterVars>>

CountdownEnd(r) ==
    /\ cd[r] = "counting"
    /\ StartGame(r)
    /\ cd' = [cd EXCEPT ![r] = "none"]
    /\ UNCHANGED <<handlerVars, sessionVars, inq, registryVars, rosterVars>>

-----------------------------------------------------------------------------

(* Leaving a room: RoomManager.remove_player_from_room *)

\* A fault to compare with: the newest member inherits the room.
HeirIsNewest(rest) == IF rest = <<>> THEN NoPlayer ELSE rest[Len(rest)]

Heir(rest) == IF rest = <<>> THEN NoPlayer ELSE rest[1]

\* Room.remove_player, the roster and the host
RemovePlayer(r, p) ==
    LET rest == Without(roster[r], p)
    IN  /\ roster' = [roster EXCEPT ![r] = rest]
        /\ host' = [host EXCEPT ![r] = IF @ = p THEN Heir(rest) ELSE @]

\* A fault to compare with: the snake of a player who left plays on.
KeepSnake(r, p) == UNCHANGED world

\* Room.remove_player, the simulation
RemoveSnake(r, p) ==
    world' = [world EXCEPT ![r] = IF rstate[r] = "RUNNING" THEN @ \ {p} ELSE @]

\* Room.destroy, once no game loop is left to await
Close(r) ==
    /\ world' = [world EXCEPT ![r] = NoWorld]
    /\ timeLeft' = [timeLeft EXCEPT ![r] = MatchTicks]
    /\ rstate' = [rstate EXCEPT ![r] = "FINISHED"]

LastMember(r, p) == Range(roster[r]) \subseteq {p}

NotInRoom(p) == proom[p] \notin reg

\* Others remain: they are sent the room state, which may suspend p.
LeaveOthers(p) ==
    LET r == proom[p] IN
    /\ ~NotInRoom(p) /\ ~LastMember(r, p)
    /\ proom' = [proom EXCEPT ![p] = NoRoom]
    /\ RemovePlayer(r, p) /\ RemoveSnake(r, p)
    /\ UNCHANGED <<reg, rstate, timeLeft, taskVars>>

\* The last one out destroys the room and awaits its game loop.
LeaveAndCancel(p) ==
    LET r == proom[p] IN
    /\ ~NotInRoom(p) /\ LastMember(r, p) /\ GameTaskLive(r)
    /\ proom' = [proom EXCEPT ![p] = NoRoom]
    /\ reg' = reg \ {r}
    /\ RemovePlayer(r, p) /\ RemoveSnake(r, p)
    /\ cancelled' = [cancelled EXCEPT ![r] = gameTask[r]]
    /\ UNCHANGED <<rstate, timeLeft, cd, loop, gameTask>>

\* The last one out, with no game loop to await.
LeaveAndClose(p) ==
    LET r == proom[p] IN
    /\ ~NotInRoom(p) /\ LastMember(r, p) /\ ~GameTaskLive(r)
    /\ proom' = [proom EXCEPT ![p] = NoRoom]
    /\ reg' = reg \ {r}
    /\ RemovePlayer(r, p) /\ Close(r)
    /\ UNCHANGED taskVars

\* How the departure of p goes: its handler is suspended by the broadcast, by the
\* await of the game loop, or not at all.
Depart(p, sending, awaiting, over) ==
    \/ LeaveOthers(p) /\ Suspend(p, sending, NoRoom)
    \/ LeaveAndCancel(p) /\ Suspend(p, awaiting, proom[p])
    \/ LeaveAndClose(p) /\ Suspend(p, over, NoRoom)
    \/ NotInRoom(p) /\ UNCHANGED roomVars /\ Suspend(p, over, NoRoom)

\* The loop that destroy awaits has ended.
AwaitOver(r) == cancelled[r] = 0

\* destroy goes on after the await.
DestroyResume(p) ==
    /\ AwaitOver(tgt[p]) /\ Close(tgt[p])
    /\ UNCHANGED <<registryVars, rosterVars, taskVars>>

\* The session forgets the room at once but its state only after the awaits.
LeaveRoom(p) ==
    /\ pc[p] = "idle"
    /\ Depart(p, "leaving", "leaving", "idle")
    /\ sroom' = [sroom EXCEPT ![p] = NoRoom]
    /\ listen' = IF pc'[p] = "idle" THEN listen \ {p} ELSE listen
    /\ UNCHANGED <<sess, inq>>

LeaveRoomResume(p) ==
    /\ pc[p] = "leaving"
    /\ IF tgt[p] = NoRoom THEN UNCHANGED roomVars ELSE DestroyResume(p)
    /\ Return(p)
    /\ sroom' = [sroom EXCEPT ![p] = NoRoom]
    /\ listen' = listen \ {p}
    /\ UNCHANGED <<sess, inq>>

\* _handle_disconnect.  A popped session is gone: its fields are reset here.
Disconnect(p) ==
    /\ pc[p] = "idle"
    /\ sess' = sess \ {p}
    /\ sroom' = [sroom EXCEPT ![p] = NoRoom]
    /\ listen' = listen \ {p}
    /\ inq' = inq \ {p}
    /\ IF p \in inq /\ OthersListen(p)
       THEN Suspend(p, "dropping", NoRoom) /\ UNCHANGED roomVars
       ELSE Depart(p, "off", "dropped", "off")

\* The queue status is sent; what is left is remove_player_from_room.
DisconnectFromRoom(p) ==
    /\ pc[p] = "dropping"
    /\ Depart(p, "off", "dropped", "off")
    /\ UNCHANGED <<sessionVars, inq>>

DisconnectResume(p) ==
    /\ pc[p] = "dropped"
    /\ DestroyResume(p)
    /\ Suspend(p, "off", NoRoom)
    /\ UNCHANGED <<sessionVars, inq>>

-----------------------------------------------------------------------------

(* The game loop *)

Go(r, k, at) == loop' = [loop EXCEPT ![r][k] = at]

\* The task is done: nobody waits for it any longer.
EndLoop(r, k) ==
    /\ Go(r, k, "none")
    /\ gameTask' = [gameTask EXCEPT ![r] = IF @ = k THEN 0 ELSE @]
    /\ cancelled' = [cancelled EXCEPT ![r] = IF @ = k THEN 0 ELSE @]

\* The loop returns, crashes or is cancelled: the finally clause.
ExitLoop(r, k) ==
    /\ EndLoop(r, k)
    /\ rstate' = [rstate EXCEPT ![r] = IF @ = "RUNNING" THEN "FINISHED" ELSE @]

\* A fault to compare with: destroy awaits the loop but never cancels it.
NeverCancelled(r, k) == TRUE

NotCancelled(r, k) == cancelled[r] # k

\* WinConditionSystem.check: with no snakes there is never a result; one snake
\* wins when time is up; among several the others may also have died.
MayEnd(r, left) ==
    \/ left = 0 /\ world[r] # {}
    \/ \E p, q \in world[r] : p # q

\* A fault to compare with: the timer never ends a match.
MayGoOnForever(r, left) == TRUE

\* Once the timer has expired only an empty world goes on.
MayGoOn(r, left) == left # 0 \/ world[r] = {}

\* The result of the check, then the match_end or the snapshot and the sleep.
CheckWin(r, k, left) ==
    \/ /\ MayEnd(r, left)
       /\ rstate' = [rstate EXCEPT ![r] = "FINISHED"]
       /\ Go(r, k, "ending") /\ UNCHANGED <<gameTask, cancelled>>
    \/ /\ MayGoOn(r, left)
       /\ Go(r, k, "top")
       /\ UNCHANGED <<rstate, gameTask, cancelled>>

\* TimerSystem.update; how long ago the timer expired does not matter.
TickDown(left) == IF left = 0 THEN 0 ELSE left - 1

\* One tick.  When a snake dies the loop is suspended between the update and the
\* check, by the broadcast of the elimination.
LoopTick(r, k) ==
    LET left == TickDown(timeLeft[r]) IN
    /\ loop[r][k] \in {"new", "top"} /\ NotCancelled(r, k)
    /\ rstate[r] = "RUNNING"
    /\ timeLeft' = [timeLeft EXCEPT ![r] = left]
    /\ \/ world[r] # {} /\ roster[r] # <<>> /\ Go(r, k, "mid")
          /\ UNCHANGED <<rstate, gameTask, cancelled>>
       \/ CheckWin(r, k, left)
    /\ UNCHANGED world

LoopCheck(r, k) ==
    /\ loop[r][k] = "mid" /\ NotCancelled(r, k)
    /\ world[r] # NoWorld
    /\ CheckWin(r, k, timeLeft[r])
    /\ UNCHANGED <<world, timeLeft>>

\* The world is gone when the loop resumes: an exception, logged.
LoopCrash(r, k) ==
    /\ loop[r][k] = "mid" /\ NotCancelled(r, k)
    /\ world[r] = NoWorld
    /\ ExitLoop(r, k)
    /\ UNCHANGED <<world, timeLeft>>

\* while self.state == RUNNING
LoopStop(r, k) ==
    /\ loop[r][k] \in {"new", "top"} /\ NotCancelled(r, k)
    /\ rstate[r] # "RUNNING"
    /\ ExitLoop(r, k)
    /\ UNCHANGED <<world, timeLeft>>

\* The CancelledError arrives; a loop that has not started has no finally.
LoopCancel(r, k) ==
    /\ LoopLive(r, k) /\ ~NotCancelled(r, k) /\ loop[r][k] # "finishing"
    /\ IF loop[r][k] = "new" THEN EndLoop(r, k) /\ UNCHANGED rstate ELSE ExitLoop(r, k)
    /\ UNCHANGED <<world, timeLeft>>

LoopStep(r, k) ==
    /\ LoopTick(r, k) \/ LoopCheck(r, k) \/ LoopCrash(r, k) \/ LoopStop(r, k) \/ LoopCancel(r, k)
    /\ UNCHANGED <<handlerVars, sessionVars, inq, registryVars, rosterVars, cd>>

\* Faults to compare with: the finished match leaves _player_room, or the
\* sessions, as they were.
ForgetSessionsOnly(S) ==
    sroom' = Override(sroom, [p \in S \cap sess |-> NoRoom]) /\ UNCHANGED proom
ForgetRegistryOnly(S) ==
    proom' = Override(proom, [p \in S |-> NoRoom]) /\ UNCHANGED sroom

\* The members of a destroyed room are in no room.
ForgetRoom(S) ==
    /\ proom' = Override(proom, [p \in S |-> NoRoom])
    /\ sroom' = Override(sroom, [p \in S \cap sess |-> NoRoom])

\* match_end is sent: _on_room_finished frees the members and destroys the room,
\* which cancels the room's latest loop, often the very loop that runs this.
FinishMatch(r, k) ==
    /\ loop[r][k] = "ending" /\ NotCancelled(r, k)
    /\ ForgetRoom(IF r \in reg THEN Range(roster[r]) ELSE {})
    /\ reg' = reg \ {r}
    /\ \/ /\ r \in reg /\ GameTaskLive(r)
          /\ cancelled' = [cancelled EXCEPT ![r] = gameTask[r]]
          /\ Go(r, k, "finishing")
          /\ UNCHANGED <<gameVars, gameTask>>
       \/ r \in reg /\ ~GameTaskLive(r) /\ Close(r) /\ EndLoop(r, k)
       \/ r \notin reg /\ ExitLoop(r, k) /\ UNCHANGED <<world, timeLeft>>
    /\ UNCHANGED <<handlerVars, sess, listen, inq, rosterVars, cd>>

\* The awaited loop has ended, or it is this one and swallows its own error.
FinishResume(r, k) ==
    /\ loop[r][k] = "finishing"
    /\ AwaitOver(r) \/ cancelled[r] = k
    /\ Close(r) /\ EndLoop(r, k)
    /\ UNCHANGED <<handlerVars, sessionVars, inq, registryVars, rosterVars, cd>>

-----------------------------------------------------------------------------

HandlerResume(p) ==
    \/ TryCreateRoom(p) \/ CreateRoomResume(p) \/ JoinRoomResume(p)
    \/ HostCountdown(p) \/ HostStartsGame(p)
    \/ LeaveRoomResume(p) \/ DisconnectFromRoom(p) \/ DisconnectResume(p)

Request(p) ==
    \/ Connect(p) \/ JoinQueue(p) \/ CancelQueue(p) \/ CreateRoom(p)
    \/ (\E r \in Rooms : JoinRoom(p, r))
    \/ StartRoom(p) \/ LeaveRoom(p) \/ Disconnect(p)

CountdownStep(r) == CountdownBegin(r) \/ CountdownEnd(r)

GameStep(r, k) == LoopStep(r, k) \/ FinishMatch(r, k) \/ FinishResume(r, k)

Next ==
    \/ \E p \in Players : Request(p) \/ HandlerResume(p)
    \/ \E r \in Rooms : CountdownStep(r) \/ \E k \in Slots : GameStep(r, k)

\* The event loop runs every task that is ready, and every send ends: in a full
\* buffer it ends when the peer reads or the connection is closed.
Fairness ==
    /\ \A p \in Players : WF_vars(HandlerResume(p))
    /\ \A r \in Rooms : WF_vars(CountdownStep(r))
    /\ \A r \in Rooms : \A k \in Slots : WF_vars(GameStep(r, k))

Spec == Init /\ [][Next]_vars

FairSpec == Spec /\ Fairness

-----------------------------------------------------------------------------

(* Properties *)

\* Every variable has its type: in particular a room never needs a third loop
\* and its world never has a snake that is no player.
TypeOK ==
    /\ pc \in [Players -> HandlerStates]
    /\ tgt \in [Players -> Rooms \cup {NoRoom}]
    /\ sess \subseteq Players
    /\ sroom \in [Players -> Rooms \cup {NoRoom}]
    /\ listen \subseteq Players
    /\ inq \subseteq Players
    /\ reg \subseteq Rooms
    /\ proom \in [Players -> Rooms \cup {NoRoom}]
    /\ roster \in [Rooms -> Seq(Players)]
    /\ host \in [Rooms -> Players \cup {NoPlayer}]
    /\ rstate \in [Rooms -> RoomStates]
    /\ world \in [Rooms -> (SUBSET Players) \cup {NoWorld}]
    /\ timeLeft \in [Rooms -> 0..MatchTicks]
    /\ cd \in [Rooms -> {"none", "scheduled", "counting"}]
    /\ loop \in [Rooms -> [Slots -> LoopStates]]
    /\ gameTask \in [Rooms -> 0..2]
    /\ cancelled \in [Rooms -> 0..2]

\* RoomManager keeps membership twice, in _player_room and in the rosters of the
\* registered rooms: the two agree, so nobody is in two rooms and no broadcast
\* reaches a player whose room is another.
RegistryAgrees ==
    \A p \in Players, r \in Rooms :
        proom[p] = r <=> r \in reg /\ p \in Range(roster[r])

\* The handlers decide by session.room_id what _player_room decides in the room
\* manager: for every session the two agree, whatever suspended handlers do.
SessionAgrees == \A p \in sess : sroom[p] = proom[p]

\* A player is never both queued and in a room, so the matchmaker never seats
\* somebody twice; only connected players are queued; and a session marked
\* IN_QUEUE really is queued.
QueueExclusive ==
    /\ \A p \in inq : p \in sess /\ proom[p] = NoRoom
    /\ listen \subseteq inq

\* A registered room has 1 to MaxPlayers members, each of them once, although
\* every join is decided before other joins and leaves can intervene.
RosterBounded ==
    \A r \in reg :
        /\ roster[r] # <<>> /\ Len(roster[r]) <= MaxPlayers
        /\ IsInjective(roster[r])

\* A registered room is always led by its longest-standing member, so somebody
\* can start it.
HostLeads == \A r \in reg : host[r] = roster[r][1]

\* While a registered room runs, its simulation has a snake for exactly the
\* members of the room: who leaves in any step loses the snake, nobody plays
\* on in a room entered twice by a countdown.
WorldMatchesRoster ==
    \A r \in reg : rstate[r] = "RUNNING" => world[r] = Range(roster[r])

\* A player whose disconnection is complete is nowhere: not in the sessions, the
\* queue or a registered room, and no snake of his plays on in the running game
\* of one.
NoGhosts ==
    \A p \in Players : pc[p] = "off" =>
        /\ p \notin sess \cup inq
        /\ proom[p] = NoRoom
        /\ \A r \in reg :
              /\ p \notin Range(roster[r])
              /\ rstate[r] = "RUNNING" => p \notin world[r]

\* Enough players for a match are queued only while a handler that has yet to
\* run _try_create_room is suspended: no leave or cancel strands a full queue.
MatchmakerAwake ==
    Cardinality(inq) >= MinPlayers => \E p \in Players : pc[p] = "enqueued"

\* Every registered room that has left WAITING is driven by some task: a
\* countdown before the match, the room's own game loop during it, a loop that
\* sends match_end after it.  Otherwise its members are locked in for good.
RoomDriven ==
    \A r \in reg :
        LET countdown == \/ cd[r] # "none"
                         \/ \E p \in Players : tgt[p] = r /\ pc[p] \in {"starting", "counting"}
        IN  /\ rstate[r] = "STARTING" => countdown
            /\ rstate[r] = "RUNNING" => GameTaskLive(r) /\ cancelled[r] = 0
            /\ rstate[r] = "FINISHED" => \E k \in Slots : loop[r][k] = "ending"

\* Once a room has left WAITING nobody enters it, even a player whose join was
\* under way when the room started.
NoLateJoin ==
    [][\A r \in reg \cap reg' :
          rstate[r] # "WAITING" => Range(roster'[r]) \subseteq Range(roster[r])]_vars

\* Every suspended handler returns to its receive loop or disconnects, so every
\* client is served again: no two destroy calls await each other.
HandlersReturn == \A p \in Players : pc[p] # "idle" ~> pc[p] \in {"idle", "off"}

\* A room that has left WAITING is unregistered in the end, and its members are
\* free to play again.
StartedRoomsClose ==
    \A r \in Rooms : (r \in reg /\ rstate[r] # "WAITING") ~> r \notin reg

\* What a room is to the players outside.
Phase(r) ==
    IF r \notin reg THEN "gone" ELSE IF rstate[r] = "WAITING" THEN "open" ELSE "playing"

LobbyView == INSTANCE Lobby WITH
    queue <- inq, room <- proom, phase <- [r \in Rooms |-> Phase(r)]

\* However handlers and tasks interleave, the players see the steps of module
\* Lobby: a join enters an open room with a free seat, a match takes who waits and
\* no others, a room is gone when its last member is, and its match frees them all.
ImplementsLobby == LobbyView!Spec

(* What the documentation says and the code does not do *)

\* "Timer expires -> highest score wins" (WinConditionSystem): a running game
\* comes to an end.
EveryGameEnds == \A r \in Rooms : rstate[r] = "RUNNING" ~> rstate[r] = "FINISHED"

=============================================================================
