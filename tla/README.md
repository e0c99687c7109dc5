# Verification of the Snake.io server and client

TLA+ modules for the multiplayer snake game in `src/`, the TLC configurations that
check them on small instances, and TLAPS proofs of what holds on every instance.
Definitions keep the names of the code wherever they can; `PROJECT.json` names, for
each of them, the lines it stands for.

1. [The system](#1-the-system)
2. [The modules](#2-the-modules)
3. [What is checked](#3-what-is-checked)
4. [What is proved](#4-what-is-proved)
5. [What the checks found](#5-what-the-checks-found)
6. [What is not modelled](#6-what-is-not-modelled)
7. [Plan](#7-plan)

## 1. The system

A Python server (`src/server`, asyncio, one thread) and a pygame client (`src/client`)
that talk over a WebSocket. A player queues for a match or opens a private room with a
code; a room counts down, runs a simulation at 30 ticks a second, announces the result
and is destroyed.

### Components

| Component | State | Operations |
| --- | --- | --- |
| `WebSocketServer`, `ConnectionManager` | `_sessions`: per connection a `PlayerSession` with `room_id` and `state`; the sockets | one receive loop per connection; handlers for join_queue, cancel_queue, create_room, join_room, start_room, leave_room, input, ping; `_handle_disconnect`; send and broadcast; shutdown |
| `MessageRouter`, `RateLimiter` | per connection a deque of timestamps | decode, limit, dispatch |
| `MatchmakingService`, `RoomAllocator` | none of their own | `add_player`, `remove_player`, `_try_create_room`, queue status |
| `QueueManager` | a deque with stale entries, the set of queued ids | enqueue, dequeue, remove, compaction |
| `RoomManager` | `_rooms`, `_player_room` | create, join, remove a player, finish a room, broadcast, shutdown |
| `Room` | `player_ids`, `host_player_id`, `state`, `_game_world`, `_game_task` | add and remove a player, countdown, game loop, destroy |
| `GameWorld` and its systems | snakes, food, timer | movement, collision, food, scoring, elimination, timer, win condition, once per tick |
| `SnapshotGenerator` | none | world to payload |
| Client `WebSocketClient` | socket, connected flag, receive and ping tasks | connect, disconnect, send, receive loop |
| Client `EventDispatcher`, `SceneManager`, scenes | subscriptions, the active scene and its fields | subscribe, dispatch, switch scene, one handler per message and button |
| Client `SnapshotBuffer`, interpolation | the newest snapshots with arrival times, the predicted direction | push, select, interpolate, predict, clear |
| Client gameplay scene, HUD | the picture, `_local_alive`, `_local_score`, the direction and time of the last input | one frame; one handler per message |
| Rendering, widgets, camera | pixels | drawing |

### How they interact

Every request of a client is handled to its end before the connection's receive loop
takes the next one, but handlers of different connections, the countdowns and the game
loops interleave wherever a coroutine awaits something that is not ready. Shared state is
plain Python data, never locked, so an action is what runs between two such awaits.

* A handler calls the matchmaking service and the room manager directly. Both keep their
  own idea of where a player is: the queue's set, `_player_room`, `Room.player_ids` and
  the session's `room_id`. All four change in every move of a player, often on
  different sides of an await.
* `_try_create_room` creates rooms for others than the caller and starts a countdown
  *task* for each; `start_room` runs the countdown *in the handler* of the host.
* A countdown ends by creating the world and a game-loop task. The loop sends snapshots,
  eliminations and match_end, and then calls back into the room manager, which
  unregisters the room and destroys it, which cancels and awaits the loop that made
  the call.
* The last player to leave destroys the room as well and awaits its loop, from the handler.

### What is hard, and what makes it correct

| Component | Hard behaviour | Correct if |
| --- | --- | --- |
| Handlers and rooms | checks made before an await and used after it; two actors moving one player; destroy while a countdown or loop is under way | the registry, rosters, sessions and queue agree in every state; nobody is in two places, or anywhere after a disconnection |
| Rooms | joins, leaves and starts in any order, by countdown task and by host | capacity, host and simulation follow the roster; nobody joins late; every registered room past WAITING has a task driving it |
| Game loop | cancelled in any state, the world gone under it, awaiting itself | every handler returns, every started room is closed and its members freed |
| Matchmaking | handlers suspended between enqueue and room creation | a queue that can fill a room always has a handler that will serve it |
| Queue | lazy deletion, re-entry, compaction | it behaves as a set of players, those who go on waiting keep their order, stale entries are bounded |
| Broadcasts | iteration over a list that shrinks meanwhile; several broadcasts about one room at a time | who stays knows who else does; the messages of a match pass over no more members than have left meanwhile |
| Rate limiter | window boundaries | no window holds more than the limit |
| Simulation | deaths of one tick depend on one another; leaving players | survivors are apart, deaths are told once, the winner deserves it; of the order of the list and the last survivor the code keeps less than it says (section 5) |
| Client connection and scenes | messages and clicks that cross, connecting twice, cancelling while connecting | one owned socket; the scene fits the server's view |
| Picture of the game | snapshots in bursts, a buffer that overflows, events that come before the picture they belong to | the picture never goes back, keeps its delay, and shows one moment of the match |
| Steering | thresholds and pauses at the client, delay, a limit that drops in silence, turning in steps | the snake heads where the client draws it once the pointer rests |

The hazards are listed one by one, each at its line and with the properties that watch it,
in `PROJECT.json`.

## 2. The modules

| Module | Models |
| --- | --- |
| `GameServer` | the server's handlers, matchmaking, room registry, rooms, countdowns and game loops |
| `MCGameServer` | small instances of it: symmetry and state constraints |
| `Lobby` | what the server promises its players: queue, rooms and matches without handlers and tasks |
| `GameServerProofs` | proofs that registry, rosters, sessions and queue agree, that rooms are driven and simulate their members, that nobody joins late, that a full queue is served, and that `GameServer` implements `Lobby` |
| `QueueManager`, `MCQueueManager` | the deque with stale entries |
| `QueueManagerProofs` | proof that the deque implements a set and keeps the order, and that its stale entries are bounded |
| `SetQueue` | what `GameServer` assumes of the queue: a set |
| `Match` | one match: the systems of the world under the game loop, with leaving players |
| `MatchProofs` | proof that deaths are told once and before the result, the winner deserves it, and `Match` implements `GameOutline`; and that of `CollisionSystem`: survivors are apart and two that meet kill each other |
| `GameOutline` | what `GameServer` assumes of a running game |
| `CollisionSystem`, `MCCollisionSystem` | the two passes of the collision check, over any geometry |
| `RateLimiter` | the sliding window in front of the handlers |
| `SteeringProofs` | proof that no window exceeds the limit, refusals are just, the snake follows the pointer, and what a client may be refused depends on the delay |
| `Steering` | from the pointer to the heading of the snake; composes client, connection, `RateLimiter` and `_turn` |
| `RoomNews`, `MCRoomNews` | the delivery of room states and of the messages of a match, recipient by recipient |
| `RoomNewsProofs` | proof that the state of a room reaches its members and a message passes over few |
| `SnapshotView`, `MCSnapshotView` | a match as one client shows it: snapshots, buffer, interpolation, HUD |
| `SnapshotViewProofs` | proof that the picture never goes back, keeps its delay and shows one moment |
| `ClientConnection` | the client's connection: connect, close, and the tasks between them |
| `ClientConnectionProofs` | proof that the client knows its connection and reports a loss once |
| `ClientScenes` | the client's scenes against the server's view of its player |
| `ClientScenesProofs` | proof that the scene fits that view, the start button is the host's and results are shown |

The modules meet in three refinements and one composition: `QueueManager` implements `SetQueue`, whose `members` is the
`inq` of `GameServer`; `Match` implements `GameOutline`, whose steps are what a game loop
of `GameServer` does to `world` and `timeLeft` and when it may end; and `GameServer` implements `Lobby`. `Steering` EXTENDS `RateLimiter`, whose `Admit`, `Refuse`,
`Remove` and `Advance` are part of its own steps. `RoomNews` looks closer at what is one step in `GameServer`, a broadcast,
and `SnapshotView` at what the client does in the one scene that `ClientScenes` calls gameplay.

### GameServer

*Handlers.* `pc[p]` says where the handler of connection `p` is suspended and `tgt[p]` the
room it works on after that; "idle" is the receive loop waiting for a message, "off" no
connection. `Request(p)` is the first part of each handler, `HandlerResume(p)` what comes
after an await:

| `pc` | suspended in | resumes with |
| --- | --- | --- |
| enqueued | `add_player`, queue status | `TryCreateRoom`: `_try_create_room` |
| creating | `_handle_create_room`, after leaving the queue | `CreateRoomResume` |
| joining | `_handle_join_room`, after leaving the queue | `JoinRoomResume`, which looks at the room again |
| starting | `_handle_start_room`, room state | `HostCountdown` |
| counting | `start_countdown`, the sleeps | `HostStartsGame` |
| leaving | `_handle_leave_room`, room state or `destroy` | `LeaveRoomResume` |
| dropping | `_handle_disconnect`, queue status | `DisconnectFromRoom` |
| dropped | `_handle_disconnect`, `destroy` | `DisconnectResume` |

An await suspends only if something may block: a broadcast with no recipients does not,
so a handler that only tells itself runs on; a suspension after which a coroutine just
returns is the same as being idle and is left out.

*Rooms.* A member of `Rooms` is a `Room` object with a code of its own. A room that is out of
the registry, with no task and no handler referring to it, is `Fresh` and stands for
the next object to be created; an id of a player is reused the same way. `roster`, `host`,
`rstate`, `world` and `timeLeft` are fields of the room; `world` is the set of snakes of
the simulation, or `NoWorld` for None. Whether a snake is alive is left open: the win
condition may find any result the snakes allow.

*Tasks.* `cd[r]` is the countdown task of the matchmaker. `loop[r]` has a slot for every game
loop of the room that has not ended, since two of them may run at once; `gameTask[r]` is
the one `Room._game_task` refers to and `cancelled[r]` the one `destroy` has cancelled
and awaits. The states of a loop are: not started, before a tick, suspended by an elimination
broadcast in the middle of a tick, sending match_end, and waiting in `destroy`. A cancelled loop that
has not started ends without its finally clause, and the loop that awaits itself gets an
error which it swallows.

*Timers.* A countdown's sleep may end at any time, except that a task created before the timer
was set has run when it fires (`HostStartsGame`).

### Lobby

What remains of `GameServer` if a player sees only the queue, who is in which room, and of a room whether it
may be entered ("open"), has been started ("playing") or is in no registry ("gone"). A step of `Lobby` is a whole request: `Wait`, `GiveUp`,
`Open`, `Enter`, `Leave`, or a move of the server: `Match`, `Start`, `End`. Each has its guard at the instant it takes effect, which is what the
handlers have to achieve although they look before an await and act after it. The mapping (`LobbyView`) reads the queue from `inq`, the rooms from
`proom` and a room's phase from `reg` and `rstate` (`Phase`). A request that suspends between leaving the queue and entering a room is two steps,
`GiveUp` and `Enter`; a countdown, a game loop and the rest of a destruction are invisible but for `Start` and `End`.

### QueueManager

`queue` is the deque, `inQueue` the set, `taken` the result of the latest dequeue. `Dequeue` pops
entries until it has found enough players who are still queued: `Popped` is the number of entries it takes, `Served` whom it
finds among them, and `taken` lists them in the order of their first entries. `Compact` is what a removal leaves of the
deque, `Purged` the deque without the entries of who is not queued. `ImplementsSet` is the refinement of `SetQueue`, which knows no order; `OrderKept` says what is
left of first come, first served.

### Match and GameOutline

`members` is the dictionary of the players in the world, which keeps the `order` in which they were added, and that decides
ties; `alive`, `length`,
`segments` and `score` are the fields of the snakes; `pending` is the elimination queue and `told`
counts the announcements made from it. `Update` is one call of `GameWorld.update` in the order of
the code (movement, meals, growth, deaths, food, timer) with the drain of the eliminations that
the loop does next; `Check` is the win condition; `Leave` is a member who leaves while the loop is
suspended, which kills a living snake, drops its food and queues its elimination for the next tick.
Which snakes eat and which die is left open: every subset that the positions could give, and some
they could not, so what holds here holds for every geometry. `GameOutline` forgets all of it
but the members, the clock and whether the game may end.

### CollisionSystem

`outside`, `biting` and `touching` are the answers of the three distance tests of a tick, fixed before
the passes start. A step is one round of an outer loop: `BodyPass` finds who crashed, `HeadPass` lets a snake
not yet dead die with every later one whose head it touches.

### RateLimiter

Messages of a player are numbered; `kept` is the bucket, as the set of the numbers whose timestamps are in
it, and `admitted` all timestamps ever, which the code forgets. `Admit` and `Refuse` are the two
outcomes of `allow`, both after the expired timestamps have gone; `Remove` is the end of a disconnection.

### Steering

The unit of time is as short as one likes: the server ticks every `TickTime` units, the client draws a frame at any instant, at most `FrameTime` after
the last (`frameAt`), and messages are sent and arrive in between. Angles are whole parts
of a circle, the client's between -180 and 180 degrees and the server's between 0 and 360. `Frame` is what the gameplay scene does with
the pointer: draw its direction (`Drawn`), and send it if it is far enough from the last one *sent* and that is long enough
ago. `chan` is the connection with inputs and pings under way; `Accept` and `Drop` are the two outcomes of `route`. `Pass` lets time go by and, when a tick is due, turns the
snake with `_turn`'s arithmetic (`Heading`). `aimedAt` and `lag` are history: when the pointer last moved, and how long a
delivered message has been under way at most.

### RoomNews

`post[p]` is the `broadcast_room_state` that the handler of `p` is suspended in, with the rest of its copy of the list;
`call[r][d]` is what a driver of the room is at: the matchmaker's countdown task or the countdown in the host's handler, and then the game loop
it makes. It has the message being sent and its place in the *live* list
`Room.player_ids`. `SendState` and `SendNews` are one send. A matchmade room is WAITING, with the countdown "scheduled", until `StartCountdown`, the task's first
step, of which nobody is told; until then members leave, players join by code and the host may start it too, which gives two drivers. `loop[r]` is
`Room._game_task`, the one game that `destroy` cancels; another stops when it finds the room not RUNNING (`LoopStops`).
Each state is built when its recipient's turn comes, so `stale` is the set of
players whose room has changed since the last one they were sent, and `told` which room it was about and whether it had started. The handlers are
those of `GameServer` reduced to what they do to rosters and broadcasts; the queue and the sessions are left out.

### SnapshotView

The server's side is a match with its members (`world`): who eats, dies and leaves is open. `record` keeps all
snapshots taken, so a message and a place in the buffer are just a tick. Time is counted in frames: each snapshot in the buffer has an age,
and `render_time` is the age `Delay`. `Push`, `Bracketing`, `Neighbours` are the buffer's methods, `Mix` and `Blend` the
interpolation of everything but positions, `Frame` one `update` of the scene with the correction of `_local_alive` and `_local_score`
and the rank; `Ranks` is a set, since equal scores are ordered by the iteration over a set. `OnSnapshot`, `OnPlayerEliminated` and
`OnMatchEnd` are the handlers.

### ClientConnection

`ws`, `connected`, `recvTask` and `pingTask` are the fields of `WebSocketClient`; a socket's tasks
carry its name. `Connect` and `Close` run to their first await and `ConnectResume`, `Opened`,
`OpenFails`, `CloseResume` go on. `HandleDisconnect` is called by the end of a receive task
and by a send that fails, and it clears the very fields `close` and `connect` read after they have awaited that
task. Any number of coroutines may connect and close at a time; `crossed` remembers that a `connect` began while another
was under way, which the code does not prevent (`websocket_client.py:74` looks at fields that are set after the awaits). Two facts about the event loop are in the guards: a handshake takes several rounds, so
what was ready when it began has run when it ends (`Settled`); and a coroutine started by a
scene runs after the tasks created before it (`Started`). The closing
handshake of an old socket is one step with what follows it, since no field changes between.

### ClientScenes

`scene` is the active scene, `view` what the last room state said about starting; `up` and `down` are the requests and
messages under way, in order. The `...Moves` say which message makes which scene switch; every other message is
ignored, because a scene subscribes when it is entered and unsubscribes when it is left. `Quit` closes the window in any scene. `place`, `host` and
`counting` are the server's side: where the player is, with the state of his room, and whether
the countdown occupies his connection's handler, which delays all his requests. The other players appear
as `MatchMade`, `HostStarts` and `OthersMove`.

The server sends match_found, match_start and match_end while it walks the live list of the members, so a member who leaves
makes it pass over one behind him (`PassedOver`; `FewPassedOver` of `RoomNews` says over how many). The one passed over is never the host, who is first, and gets the room state that the
leave sends. match_found alone may also be missed by a member of a room that its host starts, who is told by the room state (`HostStarts`). And a broadcast that
was under way when the player left his room may still reach him (`LateRoomState`, due while `late`).

Two history variables say what the properties except. `strayed`: the user has clicked while something was under way
(including an attempt to connect), or a match was made while a request was. `misled`: the server passed over the player, or sent him the state
of a room that he had left. Both are real behaviours of the code that defeat the scenes, and hazards of their own; a new connection clears them.

## 3. What is checked

| Run | Instance | Shows |
| --- | --- | --- |
| `server` | 5 players, 3 rooms of 3, up to the countdowns | `QueueExclusive`, `RosterBounded`, `MatchmakerAwake` |
| `server_live` | 3 players, 1 room of 3, 2 ticks, fairness | `TypeOK`, `RegistryAgrees`, `SessionAgrees`, `NoGhosts`, `HostLeads`, `WorldMatchesRoster`, `RoomDriven`, `NoLateJoin`, `HandlersReturn`, `StartedRoomsClose`, `ImplementsLobby` |
| `queue` | 3 players, stale limit 2 | `StaleBounded`, `OrderKept`, `ImplementsSet` |
| `match` | 3 players, 3 ticks, fairness | `DeathsToldOnce`, `ResultAfterDeaths`, `WinnerDeserves`, `DeadStayDead`, `ImplementsOutline`, `MatchEnds` |
| `steering` | 1 client, circle of 4, 2 units to a tick, window 2, limit 2, clock up to 9 | `WindowRespected`, `RefusedForCause`, `SteeringFollows`, `InputsPass` |
| `connection` | two connects and one close at a time, 3 sockets, fairness | `ConnectedTells`, `LossToldOnce`, `CallsReturn` |
| `scenes` | 1 client, 2 requests and 4 messages under way, fairness | `SceneFits`, `StartOffered`, `ResultsShown`, `LoadingEnds` |
| `view` | 1 client and 2 opponents, 5 ticks, buffer of 3, delay of 2 frames | `ViewPaced`, `StandingTrue`, `ViewNeverGoesBack` |
| `news` | 3 players, 2 rooms of 3, one match, two countdowns or games at a time | `RosterKnown`, `FewPassedOver` |

The definitions `TypeOK` say what the variables are. That of `GameServer` is checked and proved; those of `Match`, `RateLimiter` and
`ClientConnection` are proved as part of the inductive invariants (section 4), that of `ClientScenes` as a theorem of its own, and the others
were checked once over the instances above and are not part of the runs.

The runs of section 5 check what a document says and the code does not do. What the collision check of a tick does guarantee (`SurvivorsApart`, `DuelsKillBoth`) is
proved for any number of snakes; the only run on `CollisionSystem` is `head_on`, of three snakes in every order and geometry.

Each property of these runs is also checked against a fault: an operator marked "A fault to
compare with" replaces the definition after it, and the property must fail.

### Bounds

* *Players.* Two players already give every pair of handlers; the third one can queue, join or
  be matched with one of them while both are suspended. In `server_live` a room for three with two members has a seat
  that somebody may take while a member leaves or the room starts. Five players in `server` make the allocator open
  two rooms at a time, 3 + 2, leave two handlers suspended, and can fill a room that another wants to join.
* *Rooms.* With three rooms a player leaves one and enters another while matchmade ones are open. Rooms are reused, so a run is not bounded in the number of
  rooms created. `RoomAvailable` delays a request that may need a room until one is
  fresh, since the set is finite and the code's is not.
* *State constraint.* `NoGame` cuts `server` off where a countdown ends: what a game adds is followed in `server_live`, where the one
  room is created, played, closed and created again without end. `ImplementsLobby` was checked once on the instance of `server`
  too, where a match opens two rooms.
* *Ticks.* `MatchTicks` is 2, so that a match ends before, at and after the expiry of the timer;
  what an expired timer shows does not change any more, and `timeLeft` stops at 0. In `server` it has no part.
* *Loops.* `Slots` has two places. That no reachable state needs a third one is not assumed: a third
  start would violate `TypeOK`, and `TypeCorrect` proves that there is none.
* *Stale entries.* The code tolerates 10 stale entries; `StaleLimit` is 2 so that three players
  reach the limit, compaction with two of them waiting, and re-entry after it.
* *Matches.* Three ticks let a snake grow, die, be announced and the match go on and end by the clock or
  by survival; a meal of one item per snake and tick (`MaxMeal`) already makes scores differ and tie.
  `InitialLength` is 4, so that a dead body leaves more than the least number of items, which is one.
* *Collisions.* With three snakes a head-on meeting of two can be disturbed by a third that crashed
  or that comes before, between or after them in the list, or that meets one of them: the chain of `head_on`. The proofs are for any number.
* *Steering.* A circle of 4 has a turn of 180 degrees to either side, the boundary of the shorter way, and the threshold is half of that, so that two
  small turns add up to one that is sent. There are two units to a tick and to the pause between inputs, so frames, sends and arrivals fall on ticks and between them, and a frame
  may come before the pause is over. Messages are under way for up to a unit, which with a window of two and a limit of two is long
  enough to be refused. In a window of two units the timestamps of the bucket expire at different instants, so it slides over some that are gone and some that
  still count; a message may come at any instant and several at one. Nine units (`Horizon`) let the pointer rest for the time `Settling` after turns and another turn, and several windows pass.
  The proofs are for any window, limit, circle, threshold, delay and unit.
* *News.* Three members: one leaves during a broadcast, one has been served, one is yet to be. Room ids are not reused. `MaxDrivers` bounds the countdowns and
  games at a time: two, which a room made by the matchmaker can have. The constraint `OneMatch` follows the match of one room to its end; the other room is where members come
  from and go to. The proofs have no such bounds.
* *View.* Five ticks, of which four give snapshots, overflow a buffer of three; with a delay of two frames the picture lies before, in and behind the buffer. Two
  messages may be under way, so snapshots come in bursts; two events (a meal, a death) make two snapshots differ in any field.
* *Connections.* Three sockets make a connection follow on one that was lost and on one that was closed, while another handshake is under way. Scenes ask for a
  connection only when there is none, but a user who leaves a scene and enters it again meanwhile gets two handshakes at a time: the run has both.
* *Channels.* Two requests under way make any click follow on one that is not handled yet; four messages are a start (two
  messages), a room state and one more. A connection that is lost and made again empties both, so a run is not
  bounded in the number of connections. Two attempts to connect at a time are left out of `ClientScenes`.
* *Room codes.* Distinct `Room` objects have distinct codes. The code makes sure of that for
  registered rooms; the model also leaves out that one of 900000 codes is drawn again while a
  handler, a countdown or a loop still works on its previous room.

### Fairness

`FairSpec` is weakly fair for the resumption of each handler, for each room's countdown task and for
each game loop. The event loop runs every ready task; a sleep ends; and a send that waits for
a full buffer ends when the peer reads or when the missing answer to a keepalive ping closes
the connection. No client is obliged to send anything, so there is no fairness for `Request`.
`server_live` uses no symmetry.

`Match` is weakly fair for the loop's own steps, for the same reason. `ClientConnection` is weakly fair for every
resumption and for each task; a handshake ends because `open_timeout` bounds it. `ClientScenes` is
fair to the delivery of messages, the end of a countdown and the end of a match. Nobody
has to lose a connection, call anything or send.

## 4. What is proved

Every invariant, action property and refinement of the passing runs is proved for every value of the constants: TLC shows each
on a small instance, TLAPS in general. Liveness is only model-checked (end of this section). The assumptions are the
named ones of the modules: the null values are no players, rooms or sockets, sizes are natural numbers (positive where the code's
settings are), a room holds at least a match (2 <= MinPlayers <= MaxPlayers), and where players are
counted there are finitely many.
Each proof strengthens its property to an inductive invariant. What follows says what had to be added to it and why.

### The server

| Theorem of `GameServerProofs` | States |
| --- | --- |
| `TypeCorrect` | `Spec => []TypeOK`: among others, no room ever needs a third game loop |
| `RegistryAgreement` | `Spec => []RegistryAgrees`: `_player_room` and the rosters agree, nobody is in two rooms |
| `SessionAgreement` | `Spec => []SessionAgrees`: a session's `room_id` is the registry's room |
| `QueueExclusion` | `Spec => []QueueExclusive`: queued players are connected and in no room |
| `RosterBound` | `Spec => []RosterBounded`: 1 to MaxPlayers members, each once |
| `HostLeadership` | `Spec => []HostLeads`: the host is the longest-standing member |
| `NoGhostsLeft` | `Spec => []NoGhosts`: a disconnected player is nowhere, nor is his snake in a game that is played |
| `RoomsAreDriven` | `Spec => []RoomDriven`: every registered room past WAITING has a task that takes it on |
| `WorldFollowsRoster` | `Spec => []WorldMatchesRoster`: a running room simulates its members and nobody else |
| `NobodyJoinsLate` | `Spec => NoLateJoin`, an action property: no roster grows after WAITING |
| `QueueIsServed` | `Spec => []MatchmakerAwake`: a queue that is long enough has a handler that will serve it |
| `ServerIsALobby` | `Spec => ImplementsLobby`: `GameServer` implements `Lobby` |
| `AwaitsEnd` | `Spec => []AwaitedLives`: a loop that `destroy` awaits was cancelled and has yet to end |

*Types.* `TypeOK` is not inductive: `gameTask` leaves its type if a room is started while both slots are
taken. `TypeInv` adds who may still start a room. A registered room that waits has no
loop, no handler counting down and no countdown task that has begun
(`WaitingRoomsIdle`); only one handler ever counts down for a room (`OneHost`); whoever has yet to start a room
finds a free slot, and if the matchmaker's task and the host are both on their way, both slots are
free (`StartsLeft`). Most actions neither open nor start a room and preserve this for
one common reason (`QuietStep`); opening rooms (`OpeningStep`), a host's start request and the creation of a
game loop (`StartingStep`) are the steps that matter.

*Registry.* The next six follow from `RegistryInv`, and `NoGhosts`, as far as it is about snakes, from `DriveInv` as well. To what they state it adds
`HandlerPlaces`: a session exists exactly from connection to disconnection, and a player
whose handler is suspended while entering or after leaving a room is neither queued nor in a
room. Without it the agreement is not inductive: `CreateRoomResume`, `JoinRoomResume` and
`LeaveRoomResume` overwrite the session's room after an await, which is right only
because nobody else can have moved the player meanwhile. The proof separates what a step does to the
rosters (`OpeningRosters`, `SeatRosters`, `DepartRosters`, `FinishRosters`) from what it does to
the place of the player it moves: all steps but two move one player at a time (`OneMoves`); the
matchmaker moves players who are all queued, a finished match frees those of one room.
`WithoutFacts` is what `list.remove` does to a roster.

*Drive.* `RoomsAreDriven` and `WorldFollowsRoster` follow from `DriveInv` on top of `RegistryInv`. It
says that a registered room is not being destroyed (none of its loops is cancelled or in `destroy`), that a handler which awaits a
destruction has unregistered its room (`Destroyers`), and for each state of a registered room what drives it (`RoomRuns`). The
second clause is what makes the first one survive the loop's own end: `destroy` is only ever reached through the registry's removal. A
step that leaves the fields of a room alone, or moves its roster and world together, keeps
`RoomRuns` (`Steady`, `SteadyRuns`).

*Entry and queue.* `NoLateJoin` needs `RegistryInv` only, step by step: the join that resumes after an await looks at the state of the room
again (`SeatClosed`). `MatchmakerAwake` needs nothing but that the queue is finite: whoever enters it has yet to try for
a room, and a handler stops trying only when its last look found too few (`QueueShrinks` for everybody else).

*Refinement.* `ServerIsALobby` needs all three invariants, each at a step of its own. That a seat is free in the roster's length means that it is
free among those whose room it is, by `RegistryAgrees` and `RosterBounded` (`SeatLobby`, `RosterSize`); that the last one out leaves an empty room, likewise
(`DepartLobby`); that a match takes only who waits, by `QueueExclusive` (`MatchLobby`). A countdown or a loop that writes the state of a room does not open it
again, since a room that something works on no longer waits (`StartedRooms`, from `WaitingRoomsIdle`); and a destruction that goes on after its await touches
no registered room (`DestroyLobby`, from `Destroyers`).

*Awaits.* `AwaitsEnd` is the part of `HandlersReturn` that is a safety property. The loop that is awaited can always go on: by the cancellation, or, if it waits in
`destroy` itself, because what it awaits is itself. That it does is fairness, and stays with TLC.

### The queue

| Theorem of `QueueManagerProofs` | States |
| --- | --- |
| `StaleEntriesBounded` | `Spec => []StaleBounded`, for any limit and number of players |
| `QueueIsASet` | `Spec => ImplementsSet`: the deque implements `SetQueue` |
| `FirstComeFirstServed` | `Spec => OrderKept`, an action property |

The invariant adds that every queued player has an entry in the deque. With it a dequeue pops at least as many entries as
it serves players, and a removal that compacts leaves exactly the entries of queued players, at least
one fewer than before. `InOrderFacts` (sorting distinct places lists each once, in order) and `PoppedFacts` (the least number
of entries that serves enough) are the lemmas about the operators. The model's sorting is by rank and not by recursion, so
both are proved by cardinality and by the least counterexample (`LeastNumber`, from well-foundedness of the natural
numbers): that form of induction is within the provers' reach, unlike the induction theorems over an operator. The order follows from one
fact about what each step leaves of the deque, that it has the entries of those who go on waiting in their old order (`OrderFollows`, for a compaction from `KeepsPlaces`).

### The match

| Theorem of `MatchProofs` | States |
| --- | --- |
| `EveryDeathToldOnce` | `Spec => []DeathsToldOnce` |
| `ResultComesLast` | `Spec => []ResultAfterDeaths` |
| `WinnerIsBest` | `Spec => []WinnerDeserves` |
| `NobodyRevives` | `Spec => DeadStayDead`, an action property |
| `MatchIsAGame` | `Spec => ImplementsOutline`: `Match` implements `GameOutline` |

The invariant adds that between ticks only those who have left the world wait to be announced (`Drains`), and
that a loop which sleeps has time left and one that goes on has players (`GoesOn`). The winner is a maximum under a lexicographic
order with ties broken by the order of the dictionary; that there is one comes from `SomeoneIsBest`. The refinement
maps the initial states (`OutlineInit`) and each action to its step of `GameOutline` or to a stutter (`OutlineTick`, `OutlineCheck`, `OutlineLeave`).

### Collisions

| Theorem of `MatchProofs` | States |
| --- | --- |
| `SurvivorsKeptApart` | `CheckSpec => []SurvivorsApart`: for any number of snakes, order and geometry, survivors neither crashed nor touch |
| `DuelsEndBoth` | `CheckSpec => []DuelsKillBoth`: two unharmed snakes that meet head on die both if no third unharmed one touches either, and nobody dies without having crashed or met a head |

No assumption is needed. The invariant says what each pass has settled: the first one has found exactly the crashed snakes among those visited (`PassInv`), and
nobody the second one has visited touches a later survivor (`ApartInv`); afterwards the dead only become
more, so a later round cannot undo either.

### The limiter and steering

| Theorem of `SteeringProofs` | States |
| --- | --- |
| `WindowBound` | `Spec => []WindowRespected`: no window of any position holds more than the limit |
| `RefusalsJust` | `Spec => RefusedForCause`, an action property: a refusal happens only in a full window |
| `SteeringIsLimited` | `SteeringSpec => Spec`: the composition takes only steps of the limiter, so the two above hold in it |
| `SnakeFollowsPointer` | `SteeringSpec => []SteeringFollows`, for any circle, threshold, turn rate, send interval, delay and limit |
| `InputsAreNotRefused` | `SteeringSpec => []InputsPass`, for any window, limit, send and ping interval |

The limiter's invariant is that no timestamp lies in the future (`PastOnly`) and that the
bucket has every message of the window that ends now (`BucketComplete`), so what has been forgotten lies in no
window that ends now or later.

`SteeringInv` follows a direction along its way. Under way, messages are in the order in which they were sent and none for too long (`UnderWay`),
and the last input among them has the direction sent last (`LastInput`); once that one has arrived unrefused it is the snake's
target, and the angle left to turn shrinks by `MaxTurn` with every tick since it came at the latest (`OnTheTurn`); a direction
too far from the one sent last is sent as soon as the interval allows (`SentWhenDue`). The arithmetic of angles is in lemmas of its own:
a turn by the shorter way reduces the difference or ends it, across zero as well (`Wrap`, `Turning`), and
`EnoughTurns` says that the rounded-up quotient in `Settling` suffices.

`InputsPass` bounds a refusal by the delay. What arrives within one window, none of it later than `lag`, was sent within `Window - 1 + lag`, in which there is room for
`Fit(Interval)` inputs and `Fit(PingInterval)` pings; a client has been refused something only if these are more than the limit. The unit of time is free, so
nothing depends on messages falling on ticks. For the code's settings (60 messages in a second, inputs 1/30 s and pings 2 s apart) the two are 60 + 1 as soon as the delay
reaches 29/30 s: a connection that never holds a message up for that long is refused nothing, and one that does may be.
The proof counts by the time of sending, since the bucket has only times of arrival. `Accounted` is the invariant:
the messages that came `lag` after any instant `x` or later and those under way since `x` are together no more than the pauses
allow from `x` to the last one sent (`SentSince`). Sending adds one on either side (`SendKeeps`, `SentOneMore`), an arrival moves one from the second group to the first at
most (`AcceptCounts`, `ArrivalCounts`) and may raise `lag`, which only takes from the first (`ArrivalLag`); time changes nothing (`CountsStay`). A refusal counts from a window and a delay ago: the full bucket and the message
refused would be one more than fit (`DropCounts`).

### The news of a room

| Theorem of `RoomNewsProofs` | States |
| --- | --- |
| `RosterReachesAll` | `Spec => []RosterKnown` |
| `PassesOverFew` | `Spec => []FewPassedOver` |

`OnItsWay` is the heart of the first: to every member to whom the state of his room is due (`Due`), some broadcast about that room has him on the rest of
its list. It survives the change that makes it due because the handler which makes the change then serves a copy of the
list as it is after it; it survives a new broadcast by the same handler because a handler has one broadcast at a time
(`Idle`, and `HostBusy` for the host, whom the countdown occupies). A change that is *not* broadcast is the start of a matchmade room by its task, and it makes nothing due: what is claimed of the start is claimed of
private rooms, where the host's handler tells it before it counts down. That no matchmaker's task starts a private room is in `Driving`; that nobody has heard of a start before it
happens, in `Past`. `Seated` says that nobody is in a list twice or in two
lists, `Driven` that a message to all goes to a list that nobody joins. The second theorem counts, for each driver of a room: who leaves from before the place of the
message shifts at most one member past it (`LeaveRound`), and a send passes over nobody (`SendRound`).

### The picture

| Theorem of `SnapshotViewProofs` | States |
| --- | --- |
| `NeverGoesBack` | `Spec => ViewNeverGoesBack`, an action property |
| `KeepsTheDelay` | `Spec => []ViewPaced` |
| `OneMoment` | `Spec => []StandingTrue` |

The snapshots are the history of one match, in which nobody joins and no body shrinks (`Recorded`); the connection holds those
taken and not heard, in order and without a gap (`Delivered`), and the buffer the last of those heard, with earlier ones
older (`Buffered`). `Shown` says where the picture is: at a snapshot not newer than the oldest in the buffer, or at one whose predecessor
came a whole delay ago. That the picture does not go back when the buffer overflows rests on it.
`BracketingFacts` and `BlendFacts` are what the buffer's search and the interpolation return.

### The client's connection

| Theorem of `ClientConnectionProofs` | States |
| --- | --- |
| `ConnectionTold` | `Spec => []ConnectedTells` |
| `LossReportedOnce` | `Spec => []LossToldOnce` |

Any number of coroutines may connect and close. Each property has a part that holds however they overlap and one that holds until two connects have (`crossed`), since
then a socket may be left without an owner (section 5). For the first part the invariant is `Basics`: a client that says it is connected owns a socket whose receive task lives, and nobody is about to
close it (`Owned`). For the second, `Inv` relates the receive task of every socket to the client's fields (`ReaderFits`): the
client's own one knows whether a loss has yet to be reported, and one that the client has let go of was closed by the
client or reported by a send. `CallFits` says what a suspended `close` or `connect` finds when it goes on.

### The scenes

| Theorem of `ClientScenesProofs` | States |
| --- | --- |
| `ClientTypes` | `Spec => []TypeOK` |
| `ScreenFits` | `Spec => []SceneFits` |
| `ButtonIsTheHosts` | `Spec => [](~misled => StartOffered)` |
| `ResultsAreShown` | `Spec => ResultsShown`, an action property |

`StartOffered` claims something of misled players too, that the button is never offered to who is not the host; that half is only model-checked.
The properties speak of moments at which nothing is under way, or one message arrives; the invariant `Fits` says for each scene what may be under way
at any moment, for channels of any length, as long as the user has not strayed and the server has not misled him. A scene that has just sent its request has nothing else under way (`Asking`). In a room that waits, the last room
state, on the screen or under way, says of the start button what the server thinks (`ViewFits`), and the only request is the host's start. From the start
of a room on, what is under way leads from the scene shown to where the player is: in the scenes before the match a message that opens the loading screen,
before the match_start (`Awaiting`); in the loading screen the match_start, before the match_end (`Early`); and in every scene but the results the match_end once the match is over, and never
twice (`InMatch`, `Once`). `RestFacts` and `OneMoreFacts` say what hearing a message and sending one do to this order. Two clauses are about the connection: what was
under way is lost with it (`Offline`), and a coroutine that connects belongs to the scene shown, or the user has strayed (`Dialing`).

### Only model-checked

* `StartOffered` for players who are `misled`, as said above.
* All liveness: `HandlersReturn`, `StartedRoomsClose`, `MatchEnds`, `CallsReturn`, `LoadingEnds`. Fairness and ENABLED are outside what
  TLAPS handles.

## 5. What the checks found

Runs whose property a comment or the documentation states and the code does not keep; TLC
gives the interleaving.

| Run | Property | The code |
| --- | --- | --- |
| `endless_game` | `EveryGameEnds` | a room that everybody left during its countdown is started without players; the win condition of a world without snakes ignores the expired timer and the loop never ends |
| `lone_survivor` | `LoneSurvivorWins` | who leaves is taken out of the world before the snakes are counted: when all but one have left, `len(snakes) > 1` fails and the match goes on until the timer expires |
| `head_on` | `MutualKill` | the second pass skips snakes that it has killed already, so of three heads in a chain the last one dies or survives depending on the order of the list; with two alone both die (`DuelsKillBoth`) |

None of these breaks the invariants above: a start after destruction
leaves registry, rosters and sessions consistent, and the registered room is still closed.

Seen on the way, without a run of their own:

* `close` awaits the receive task it has cancelled, whose finally clause clears `_ws` (`websocket_client.py:188`); the test after it (line 124) finds None, and the socket that
  `close` wanted to close stays open. `connect` does the same with an old socket (line 87).
* Two overlapping `connect` calls (a scene left and entered again while it connects) both pass the test of `_connected`. The receive task of the first socket is
  left without an owner, and when the second one ends the client says it is not connected while the first goes on to receive.
* match_found, match_start and match_end go round the live list `player_ids` (`room.py:122`, `129`, `209`): a member who stays misses one if somebody before him
  leaves meanwhile. `FewPassedOver` bounds how many do.
* A room made by the matchmaker is WAITING until its countdown task takes its first step (`matchmaking_service.py:103`). A start_room of its
  host handled before that passes the check (`websocket_server.py:257`) and gives two countdowns and two loops on one world, which
  is why `Slots` has two places. The shipped client shows such a host no start button. The second loop may play on after the first one's match has ended
  and the room is out of the registry, with snakes of players who are long gone: `NoGhosts` is about registered rooms.
* A leave in the same time broadcasts "waiting"; that the room has started since then is told by match_found only (`RosterKnown` claims it of private rooms).
* A destroyed room goes from FINISHED back to STARTING and RUNNING when a countdown nobody cancelled ends.
* A queued player's leave_room resets the session's state, so the player stays queued and gets no queue
  status any more.
* After a cancellation and a rejoin the stale first entry of the deque is live again: the player keeps the earlier
  place.
* Without `strayed` and `misled` the properties of `ClientScenes` fail, and each of these is a way: a cancel that crosses match_found, or that is
  clicked while the connection is made, leaves the player queued or in a match behind the menu; a second click on start is refused
  after the countdown, and the error sends the host from the game to the menu; the starting room state of a room just left opens
  the loading screen, which has no button, while the next room is being created; a match_start that passes over a member leaves him in the loading screen, also
  when the match_end comes.
* The state of a room may be sent to a player who has left it while the copy of the list was served (`room_manager.py:136`), even to one who is in
  another room by then, and replaces that room's state in his client.
* The deaths of the last tick are announced but in no snapshot: the match ends before one is taken.
* `_on_player_eliminated` has no lasting effect: the next frame sets `_local_alive` from the delayed picture.
* "until the server confirms or corrects" (`interpolation.py:101`): the predicted direction is always drawn, whatever the server says. A
  pointer within the threshold of 0 degrees at the start of a match is never sent (`_last_sent_direction` begins with 0), so `SteeringFollows` asks that something
  was sent; and an input that the limiter drops is not repeated.
* The client looks for `position` and `players_in_queue` in a queue status (`matchmaking_scene.py:128`); the server sends `players_waiting` (`schemas.py:51`).
* In the menu one click goes to the buttons and then to the dialogue over them: the click that opens the dialogue reaches it at once, clicks in it
  may press what lies below, and every JOIN or Enter starts another coroutine, each of which opens the lobby whatever scene is active by then
  (`menu_scene.py:151`, `247`).

## 6. What is not modelled

* Names, error replies and the contents of other messages: they change no state the properties are about. The queue status is
  displayed by nobody.
* Positions, and so the distance tests themselves: floating point. `Match` allows
  every outcome of them, `CollisionSystem` every combination of answers. `Steering` has directions, on a coarse circle.
* Shutdown of the server: the process ends, and nothing that it keeps outlives it. An exception in a handler other than the ones named above does not occur in
  the modelled code paths.
* In the client: the menu's dialogue and, in the scenes, two attempts to
  connect at a time (`ClientConnection` has them). The event dispatcher calls at most one handler for a message, that of the active scene, so
  handlers that change its lists while it iterates do no harm.
* That a snapshot or a player_eliminated passes over a member, as the messages of a match may: `SnapshotView` sends each one to its player. The buffer throws snapshots away as well, and
  a lost death is shown by the next snapshot, so its properties cannot tell the difference.
* The wire format, the layout of payloads, logging, rendering, widgets and camera: pure
  functions or output. The server's event bus is not used by the server.

## 7. Plan

Done: `GameServer` and `Lobby`; `QueueManager` and `SetQueue`; `Match`, `GameOutline` and `CollisionSystem`; `RateLimiter` and its composition
`Steering`; `RoomNews`; `SnapshotView`; `ClientConnection`; `ClientScenes`; and the proofs of section 4.

What would come next:

1. *ClientScenes with ClientConnection*: the two composed, with two attempts to connect at a time and the
   connections they leave behind.
2. *RoomNews under GameServer*: a refinement that replaces the broadcast, one step in `GameServer`, by its sends, so that the news is about
   the rooms of the full server.

The number of runs stays small: a new module shares a run with what it composes with, or replaces one.
