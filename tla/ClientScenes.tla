---------------------------- MODULE ClientScenes ----------------------------
(***************************************************************************)
(* The screens of one client against the server's view of its player.      *)
(* The user clicks, scenes send requests and react to messages; the server *)
(* handles one request of the player at a time and moves him on its own    *)
(* when a match is made, starts or ends.  The other players are the        *)
(* environment: module GameServer has them in full.                        *)
(***************************************************************************)
EXTENDS Naturals, Sequences, Functions

CONSTANTS
    MaxUp,    \* bound: requests under way
    MaxDown   \* bound: messages under way

ASSUME ChannelAssumption == MaxUp \in Nat \ {0} /\ MaxDown \in Nat /\ MaxDown > 2

VARIABLES
    scene,       \* SceneManager._active_name
    view,        \* app.room_state: "none" or what it says about starting
    connected,   \* WebSocketClient.connected
    connecting,  \* the request a coroutine will send when it is connected
    up, down,    \* the two directions of the connection
    place,       \* where the server has the player, with the state of his room
    host,        \* whether he is the host of his room
    counting,    \* whether the countdown runs in the handler of his start_room
    late,        \* whether a broadcast of a room he has left is still to reach him
    strayed,     \* history: the user or the matchmaker acted on an old view
    misled       \* history: the server passed him over, or sent him such a broadcast

clientVars == <<scene, view, connected, connecting>>

serverVars == <<place, host, counting>>

vars == <<clientVars, up, down, serverVars, late, strayed, misled>>

RoomStates == {"startable", "starting", "locked"}

InRoom == place \in {"waiting", "starting", "running", "finished"}

Init ==
    /\ scene = "menu" /\ view = "none"
    /\ connected = FALSE /\ connecting = "none"
    /\ up = <<>> /\ down = <<>>
    /\ place = "free" /\ host = FALSE /\ counting = FALSE
    /\ late = FALSE /\ strayed = FALSE /\ misled = FALSE

-----------------------------------------------------------------------------

(* What the scenes make of a message: <<scene, message, next scene>> *)

MatchmakingMoves == {<<"matchmaking", "match_found", "loading">>}

\* A fault to compare with: the scene listens to match_found once more.
LoadingDeaf == {<<"loading", "match_found", "gameplay">>, <<"loading", "error", "menu">>}

LoadingMoves == {<<"loading", "match_start", "gameplay">>, <<"loading", "error", "menu">>}

LobbyMoves == {<<"lobby", "starting", "loading">>, <<"lobby", "match_found", "loading">>}

\* A fault to compare with: the host's own scene does not listen to the start.
CreateRoomDeaf == {}

CreateRoomMoves == {<<"create_room", "starting", "loading">>}

\* A fault to compare with: the scene does not listen to match_end.
GameplayDeaf == {<<"gameplay", "error", "menu">>}

GameplayMoves == {<<"gameplay", "match_end", "results">>, <<"gameplay", "error", "menu">>}

Moves == MatchmakingMoves \cup LoadingMoves \cup LobbyMoves \cup CreateRoomMoves \cup GameplayMoves

\* What the active scene has subscribed; the others have unsubscribed.
Listeners(m) == {t \in Moves : t[1] = scene /\ t[2] = m}

\* _apply_room_state of the two scenes that show a room
Applied(m) == IF scene \in {"lobby", "create_room"} /\ m \in RoomStates THEN m ELSE view

\* EventDispatcher.dispatch; a message nobody listens to is gone.
Dispatch(m) ==
    /\ IF Listeners(m) = {} THEN UNCHANGED scene ELSE scene' \in {t[3] : t \in Listeners(m)}
    /\ view' = Applied(m)

Deliver ==
    /\ down # <<>>
    /\ Dispatch(Head(down))
    /\ down' = Tail(down)
    /\ UNCHANGED <<connected, connecting, up, serverVars, late, strayed, misled>>

-----------------------------------------------------------------------------

(* The user *)

\* What a click does when something he does not know is under way, the history
\* keeps.
Click ==
    /\ strayed' = (strayed \/ up # <<>> \/ down # <<>> \/ connecting # "none")
    /\ UNCHANGED <<connected, down, serverVars, late, misled>>

Send(request) == Len(up) < MaxUp /\ up' = Append(up, request)

\* Without a connection the buttons send nothing.
SendIfConnected(request) == IF connected THEN Send(request) ELSE UNCHANGED up

\* The scene's coroutine sends at once or connects first.  Two that connect at a
\* time are left out.
ConnectAndSend(request) ==
    \/ connected /\ Send(request) /\ UNCHANGED connecting
    \/ ~connected /\ connecting = "none" /\ connecting' = request /\ UNCHANGED up

Play ==
    /\ Click /\ scene = "menu"
    /\ ConnectAndSend("join_queue")
    /\ scene' = "matchmaking"
    /\ UNCHANGED view

CreateRoom ==
    /\ Click /\ scene = "menu"
    /\ ConnectAndSend("create_room")
    /\ scene' = "create_room" /\ view' = "none"

\* The lobby opens when the request is sent.
JoinRoom ==
    /\ Click /\ scene = "menu"
    /\ ConnectAndSend("join_room")
    /\ scene' = IF connected THEN "lobby" ELSE scene
    /\ UNCHANGED view

Cancel ==
    /\ Click /\ scene = "matchmaking"
    /\ SendIfConnected("cancel_queue")
    /\ scene' = "menu"
    /\ UNCHANGED <<view, connecting>>

\* The button works for the host, and before the first room state for everybody.
Offered == view \in {"none", "startable"}

StartRoom ==
    /\ Click /\ scene \in {"lobby", "create_room"} /\ Offered
    /\ SendIfConnected("start_room")
    /\ UNCHANGED <<scene, view, connecting>>

\* LEAVE ROOM of the lobby and BACK of the room one has created
LeaveRoom ==
    /\ Click /\ scene \in {"lobby", "create_room"}
    /\ SendIfConnected("leave_room")
    /\ scene' = "menu" /\ view' = "none"
    /\ UNCHANGED connecting

\* A connection that ends is a new start for both sides.
Cut ==
    /\ connected' = FALSE
    /\ up' = <<>> /\ down' = <<>>
    /\ place' = "free" /\ host' = FALSE /\ counting' = FALSE
    /\ late' = FALSE /\ strayed' = FALSE /\ misled' = FALSE

\* RETURN TO MENU of the results closes the connection.
Return ==
    /\ scene = "results"
    /\ Cut
    /\ scene' = "menu"
    /\ UNCHANGED <<view, connecting>>

Lose ==
    /\ connected
    /\ Cut
    /\ Dispatch("error")
    /\ UNCHANGED connecting

\* The window is closed in any scene: GameApp.shutdown closes the connection, and
\* what has not connected yet ends with the program.
Quit ==
    /\ scene # "closed"
    /\ Cut
    /\ scene' = "closed" /\ connecting' = "none"
    /\ UNCHANGED view

\* The connection is there: the request is sent whatever scene is active by now.
Connected ==
    /\ connecting # "none"
    /\ connected' = TRUE /\ connecting' = "none"
    /\ up' = Append(up, connecting)
    /\ scene' = IF connecting = "join_room" THEN "lobby" ELSE scene
    /\ UNCHANGED <<view, down, serverVars, late, strayed, misled>>

ConnectFails ==
    /\ connecting # "none"
    /\ connecting' = "none"
    /\ strayed' = FALSE
    /\ Dispatch("error")
    /\ UNCHANGED <<connected, up, down, serverVars, late, misled>>

-----------------------------------------------------------------------------

(* The server *)

Tell(messages) == Len(down) + Len(messages) <= MaxDown /\ down' = down \o messages

\* build_room_state, as the buttons of the scenes read it
RoomState(state, isHost) ==
    CASE state = "starting" -> "starting"
      [] state = "waiting" /\ isHost -> "startable"
      [] OTHER -> "locked"

Move(to, isHost, messages) ==
    /\ place' = to /\ host' = isHost
    /\ Tell(messages)

\* The receive loop takes a request when the handler of the last one is done.
Take(request) ==
    /\ ~counting /\ up # <<>> /\ Head(up) = request
    /\ up' = Tail(up)
    /\ UNCHANGED <<clientVars, strayed, misled>>

Refuse == Tell(<<"error">>) /\ UNCHANGED serverVars

HandleJoinQueue ==
    /\ Take("join_queue")
    /\ IF InRoom THEN Refuse ELSE Move("queued", FALSE, <<>>) /\ UNCHANGED counting

HandleCancelQueue ==
    /\ Take("cancel_queue")
    /\ place' = IF place = "queued" THEN "free" ELSE place
    /\ UNCHANGED <<down, host, counting>>

HandleCreateRoom ==
    /\ Take("create_room")
    /\ IF InRoom THEN Refuse
       ELSE Move("waiting", TRUE, <<RoomState("waiting", TRUE)>>) /\ UNCHANGED counting

\* Who asks for a room that is gone, full or started has left the queue.
HandleJoinRoom ==
    /\ Take("join_room")
    /\ IF InRoom THEN Refuse
       ELSE /\ \/ Move("waiting", FALSE, <<RoomState("waiting", FALSE)>>)
               \/ Move("free", FALSE, <<"error">>)
            /\ UNCHANGED counting

HandleStartRoom ==
    /\ Take("start_room")
    /\ IF place = "waiting" /\ host
       THEN Move("starting", TRUE, <<RoomState("starting", TRUE), "match_found">>) /\ counting' = TRUE
       ELSE Refuse

\* The handler of another player may be in the middle of a broadcast to the
\* members it found: it goes on to send the state of the room to who has left.
HandleLeaveRoom ==
    /\ Take("leave_room")
    /\ place' = IF InRoom THEN "free" ELSE place
    /\ host' = FALSE
    /\ late' \in IF InRoom THEN {late, TRUE} ELSE {late}
    /\ UNCHANGED <<down, counting>>

Handle ==
    \/ HandleLeaveRoom
    \/ /\ \/ HandleJoinQueue \/ HandleCancelQueue \/ HandleCreateRoom
          \/ HandleJoinRoom \/ HandleStartRoom
       /\ UNCHANGED late

\* The list of the members is walked while it shrinks: when somebody ahead of the
\* player leaves during a send, the player is passed over, and only told of the
\* leave.  Nobody is ahead of the host.
PassedOver(to, state) ==
    /\ ~host
    /\ \E isHost \in BOOLEAN : Move(to, isHost, <<RoomState(state, isHost)>>)
    /\ misled' = TRUE

\* The matchmaker seats the player, who may have asked for something else.  What
\* happens in the room before the countdown begins, the scene does not hear.
MatchMade ==
    /\ place = "queued"
    /\ \/ \E first \in BOOLEAN : Move("starting", first, <<"match_found">>) /\ UNCHANGED misled
       \/ PassedOver("starting", "starting")
    /\ strayed' = (strayed \/ up # <<>>)
    /\ UNCHANGED <<clientVars, up, counting, late>>

\* Another player who is the host starts the room.  The state is sent to a copy of
\* the list of members; match_found may pass over the player.
HostStarts ==
    /\ place = "waiting" /\ ~host
    /\ \/ Move("starting", FALSE, <<RoomState("starting", FALSE), "match_found">>)
       \/ Move("starting", FALSE, <<RoomState("starting", FALSE)>>)
    /\ UNCHANGED <<clientVars, up, counting, late, strayed, misled>>

\* A fault to compare with: those who stay are not told that one has left.
OthersLeaveSilently ==
    /\ InRoom /\ ~host
    /\ host' = TRUE
    /\ UNCHANGED <<clientVars, up, down, place, counting, late, strayed, misled>>

\* Another player joins or leaves; if all before him have left he is the host.
\* The room for one more message is for the one the match sends.
OthersMove ==
    /\ InRoom /\ Len(down) + 1 < MaxDown
    /\ \E isHost \in {host, TRUE} : Move(place, isHost, <<RoomState(place, isHost)>>)
    /\ UNCHANGED <<clientVars, up, counting, late, strayed, misled>>

\* The broadcast of a room reaches the player who has left it.
LateRoomState ==
    /\ late /\ Len(down) + 1 < MaxDown
    /\ \E state \in {"waiting", "starting"} : Tell(<<RoomState(state, FALSE)>>)
    /\ late' = FALSE /\ misled' = TRUE
    /\ UNCHANGED <<clientVars, up, serverVars, strayed>>

CountdownEnds ==
    /\ place = "starting"
    /\ \/ Move("running", host, <<"match_start">>) /\ UNCHANGED misled
       \/ PassedOver("running", "starting")
    /\ counting' = FALSE
    /\ UNCHANGED <<clientVars, up, late, strayed>>

\* match_end is sent before the room lets go of its members.
MatchEnds ==
    /\ place = "running"
    /\ \/ Move("finished", host, <<"match_end">>) /\ UNCHANGED misled
       \/ PassedOver("finished", "finished")
    /\ UNCHANGED <<clientVars, up, counting, late, strayed>>

RoomFinished ==
    /\ place = "finished"
    /\ Move("free", FALSE, <<>>)
    /\ UNCHANGED <<clientVars, up, counting, late, strayed, misled>>

-----------------------------------------------------------------------------

User == Play \/ CreateRoom \/ JoinRoom \/ Cancel \/ StartRoom \/ LeaveRoom \/ Return \/ Quit

Match ==
    \/ MatchMade \/ HostStarts \/ OthersMove \/ LateRoomState
    \/ CountdownEnds \/ MatchEnds \/ RoomFinished

Next == Deliver \/ User \/ Connected \/ ConnectFails \/ Lose \/ Handle \/ Match

Spec == Init /\ [][Next]_vars

\* Messages arrive, countdowns and matches end; nobody has to click.
FairSpec == Spec /\ WF_vars(Deliver) /\ WF_vars(CountdownEnds) /\ WF_vars(MatchEnds)

-----------------------------------------------------------------------------

(* Properties *)

TypeOK ==
    /\ scene \in {"menu", "matchmaking", "create_room", "lobby", "loading", "gameplay", "results",
                 "closed"}
    /\ view \in RoomStates \cup {"none"}
    /\ connected \in BOOLEAN /\ host \in BOOLEAN /\ counting \in BOOLEAN /\ strayed \in BOOLEAN
    /\ late \in BOOLEAN /\ misled \in BOOLEAN
    /\ connecting \in {"none", "join_queue", "create_room", "join_room"}
    /\ Len(up) <= MaxUp /\ Len(down) <= MaxDown
    /\ place \in {"free", "queued", "waiting", "starting", "running", "finished"}

Quiet == connected /\ up = <<>> /\ down = <<>>

\* The client of a user who waits for what is under way, and whom the server has
\* not passed over or sent the state of another room, shows what the server has the
\* player do, in whatever order the other players join, leave and start.
SceneFits ==
    Quiet /\ ~strayed /\ ~misled =>
        CASE scene = "matchmaking" -> place = "queued"
          [] scene = "create_room" -> place = "waiting" /\ host
          [] scene = "lobby" -> place \in {"waiting", "free"}
          [] scene = "loading" -> place = "starting"
          [] scene = "gameplay" -> place = "running"
          [] scene = "results" -> place \in {"finished", "free"}
          [] OTHER -> place = "free"

\* The start button of a user who waits for what is under way is offered only to
\* the host, whatever the server has sent; and it is offered to him, also when he
\* has become the host because others left, unless he was sent something wrong.
StartOffered ==
    Quiet /\ ~strayed /\ scene \in {"lobby", "create_room"} /\ place = "waiting" =>
        /\ view = "startable" => host
        /\ host /\ ~misled => view = "startable"

\* The result finds a member of the match in the game and is shown, unless the
\* member has left, is about to, or was passed over: the messages on the way to it
\* come in order.
ResultsShown ==
    [][connected' /\ up = <<>> /\ place = "finished" /\ ~strayed /\ ~misled
          /\ down # <<>> /\ Head(down) = "match_end" /\ down' = Tail(down) =>
              scene' = "results"]_vars

\* Nobody is stuck in the loading screen, which has no button, who was not sent
\* there by a mistake or passed over there.
LoadingEnds == scene = "loading" ~> scene # "loading" \/ strayed \/ misled

=============================================================================
