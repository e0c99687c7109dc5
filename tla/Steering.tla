------------------------------ MODULE Steering ------------------------------
(***************************************************************************)
(* From the mouse pointer to the heading of the snake: the client sends a  *)
(* direction when it has changed enough and the last one is old enough, the *)
(* connection delivers it late, the rate limiter may drop it, the server   *)
(* keeps it as the target, and the snake turns towards it a little in each *)
(* tick.  The client draws the pointer's direction from the start.  A unit *)
(* of time is as short as one likes: frames, sends and arrivals happen at  *)
(* any, ticks of the server every TickTime.  Angles are whole parts of a   *)
(* circle.  The module is about a living snake: a dead one neither turns   *)
(* nor takes a target.                                                     *)
(***************************************************************************)
EXTENDS RateLimiter

CONSTANTS
    Me,           \* the player of this client
    Half,         \* 180 degrees
    Threshold,    \* DIRECTION_THRESHOLD
    MaxTurn,      \* SNAKE_TURN_RATE * dt
    Interval,     \* INPUT_SEND_INTERVAL
    PingInterval, \* the sleep of _ping_loop
    TickTime,     \* dt, the pause between two ticks of the server
    FrameTime,    \* bound: the longest pause between two frames of the client
    MaxDelay      \* bound: how long a message is under way

ASSUME SteeringAssumption ==
    /\ Me \in Players
    /\ {Half, Threshold, MaxTurn, Interval, PingInterval, TickTime, FrameTime} \subseteq Nat \ {0}
    /\ MaxDelay \in Nat

VARIABLES
    aim,      \* _current_direction and the predicted direction, which is drawn
    aimedAt,  \* history: when it changed last
    frameAt,  \* when the last frame was
    sentDir,  \* _last_sent_direction
    sentAt,   \* _last_send_time; negative before the first input of the match
    pingAt,   \* when the last ping was sent
    chan,     \* messages under way to the server, each with the time it was sent
    lag,      \* history: the longest time a delivered message was under way
    target,   \* Snake.target_direction
    heading   \* Snake.direction

clientVars == <<aim, aimedAt, frameAt, sentDir, sentAt, pingAt>>

snakeVars == <<target, heading>>

steeringVars == <<vars, clientVars, chan, lag, snakeVars>>

\* What atan2 gives, and what the server keeps a heading in.
Angles == (1 - Half)..Half
Headings == 0..2 * Half - 1

\* A match has begun with a snake that heads anywhere.  Until something is sent
\* the client compares with the direction 0.
SteeringInit ==
    /\ Init
    /\ aim = 0 /\ aimedAt = 0 /\ frameAt = 0
    /\ sentDir = 0 /\ sentAt = -Interval /\ pingAt = -PingInterval
    /\ chan = <<>> /\ lag = 0
    /\ heading \in Headings /\ target = heading

-----------------------------------------------------------------------------

(* The client *)

\* _normalize_angle, and the loops of _turn
Normalized(d) == IF d > Half THEN d - 2 * Half ELSE IF d < -Half THEN d + 2 * Half ELSE d

Apart(a, b) == LET d == Normalized(a - b) IN IF d < 0 THEN -d ELSE d

\* Faults to compare with: the change since the last frame counts; no pause
\* between inputs.
TurnedSinceFrame(angle) == Apart(angle, aim) >= Threshold
DueAlways == TRUE

Turned(angle) == Apart(angle, sentDir) >= Threshold

Due == now - sentAt >= Interval

Input(angle) == [type |-> "input", direction |-> angle, at |-> now]

\* update with _process_input, which is for a snake seen alive: what is not due
\* is sent by a later frame, if the pointer is then still there.
Frame(angle) ==
    /\ Me \in open
    /\ frameAt' = now
    /\ aim' = angle
    /\ aimedAt' = IF angle = aim THEN aimedAt ELSE now
    /\ IF Turned(angle) /\ Due
       THEN chan' = Append(chan, Input(angle)) /\ sentDir' = angle /\ sentAt' = now
       ELSE UNCHANGED <<chan, sentDir, sentAt>>
    /\ UNCHANGED <<vars, pingAt, lag, snakeVars>>

\* One round of _ping_loop
Ping ==
    /\ Me \in open /\ now - pingAt >= PingInterval
    /\ chan' = Append(chan, [type |-> "ping", at |-> now])
    /\ pingAt' = now
    /\ UNCHANGED <<vars, aim, aimedAt, frameAt, sentDir, sentAt, lag, snakeVars>>

\* _apply_prediction: the snake on the screen heads where the pointer is.
Drawn == aim

-----------------------------------------------------------------------------

(* The server *)

Arrive ==
    /\ chan # <<>>
    /\ chan' = Tail(chan)
    /\ lag' = IF now - Head(chan).at > lag THEN now - Head(chan).at ELSE lag
    /\ UNCHANGED <<clientVars, heading>>

\* Room.receive_input and GameWorld.receive_input
ReceiveInput(direction) == target' = direction

\* route, and _handle_input or the answer to a ping
Accept ==
    /\ Arrive /\ Admit(Me)
    /\ IF Head(chan).type = "input" THEN ReceiveInput(Head(chan).direction) ELSE UNCHANGED target

\* route drops the message; the client is not told.
Drop == Arrive /\ Refuse(Me) /\ UNCHANGED target

\* MovementSystem._turn
Heading ==
    LET diff == Normalized(target - heading)
        turned == IF Apart(target, heading) <= MaxTurn THEN target
                  ELSE IF diff > 0 THEN heading + MaxTurn ELSE heading - MaxTurn
    IN  turned % (2 * Half)

\* Time passes, and with every TickTime a tick of the server.  Nothing is under
\* way for longer than MaxDelay, and frames come in time.
Pass ==
    /\ Advance
    /\ Me \in open /\ now - frameAt < FrameTime
    /\ chan # <<>> => now - Head(chan).at < MaxDelay
    /\ heading' = IF now' % TickTime = 0 THEN Heading ELSE heading
    /\ UNCHANGED <<clientVars, chan, lag, target>>

\* The connection ends; the snake is taken out of the world.
Disconnect ==
    /\ Remove(Me)
    /\ chan' = <<>>
    /\ UNCHANGED <<clientVars, lag, snakeVars>>

SteeringNext ==
    \/ Ping \/ Accept \/ Drop \/ Pass \/ Disconnect
    \/ \E angle \in Angles : Frame(angle)

SteeringSpec == SteeringInit /\ [][SteeringNext]_steeringVars

-----------------------------------------------------------------------------

(* Properties *)

\* The ticks in which a snake turns to any direction.
Turns == (Half + MaxTurn - 1) \div MaxTurn

\* How long it takes a direction to be sent, to arrive and to be turned to.
Settling == Interval + FrameTime + MaxDelay + Turns * TickTime

\* "applied to the local snake's rendering until the server confirms or
\* corrects": once the pointer has rested for that long, the snake heads where
\* the client draws it, up to the threshold, provided that something was sent in
\* this match and no input has been refused since.
SteeringFollows ==
    Me \in open /\ now - aimedAt >= Settling
        /\ sentAt >= 0 /\ (\A t \in refused[Me] : t < sentAt)
        => Apart(Drawn, heading) < Threshold

\* How many messages with that pause in between can arrive within one window,
\* of which none was under way for longer than lag.
Fit(pause) == ((Window - 1 + lag) \div pause) + 1

\* A client that keeps its two pauses is refused something only if what was held
\* up can have come together with what was not so that both exceed the limit:
\* never because of the pace of its inputs and pings alone.
InputsPass == refused[Me] # {} => Fit(Interval) + Fit(PingInterval) > MaxMessages

=============================================================================
