---------------------------- MODULE SnapshotView ----------------------------
(***************************************************************************)
(* What one player sees of a match: the snapshots his server takes, the    *)
(* connection that delivers them, the client's snapshot buffer, the        *)
(* interpolation that renders the game a little in the past, and the heads-*)
(* up display.  A step of the client is one frame or one message; time is  *)
(* counted in frames, and positions, which no property looks at, are left  *)
(* out.  Why snakes die and matches end is the subject of module Match.    *)
(***************************************************************************)
EXTENDS Integers, Sequences, SequencesExt, FiniteSets, FiniteSetsExt

CONSTANTS
    Players,
    Me,        \* the player at this client
    Duration,  \* MATCH_DURATION, in ticks
    MaxSize,   \* SnapshotBuffer.max_size
    Delay,     \* INTERP_DELAY, in frames
    MaxDown,   \* bound: messages under way
    MaxEvents  \* bound: meals and deaths of those in the game

ASSUME ViewAssumption ==
    /\ Me \in Players /\ IsFiniteSet(Players)
    /\ {Duration, MaxSize, Delay, MaxDown} \subseteq Nat \ {0} /\ MaxEvents \in Nat

VARIABLES
    world,      \* GameWorld._players: the snakes of the members
    pending,    \* those who left alive and are not yet reported as eliminated
    record,     \* the snapshots taken so far; the n-th is that of tick n
    playing,    \* whether the game loop runs
    down,       \* messages under way to the client
    buffer,     \* SnapshotBuffer._buffer: the tick and the age of each
    heard,      \* history: the age of every snapshot that came, by tick
    state,      \* GameplayScene._state
    localAlive, \* GameplayScene._local_alive
    score,      \* GameplayScene._local_score
    hud,        \* the fields of the HUD
    scene       \* SceneManager._active_name

serverVars == <<world, pending, record, playing>>

clientVars == <<buffer, heard, state, localAlive, score, hud, scene>>

vars == <<serverVars, down, clientVars>>

Alive(snakes) == {p \in DOMAIN snakes : snakes[p].alive}

NoState == [tick |-> 0, snakes |-> <<>>, timeLeft |-> 0]

\* HUD.update; "YOU DIED" is drawn as soon as alive is false.
Display(shown, points, rank, living) ==
    [timeLeft |-> shown.timeLeft, score |-> points, rank |-> rank,
     total |-> Cardinality(DOMAIN shown.snakes), alive |-> living]

\* match_start has opened the scene; no snapshot has come.
Init ==
    /\ world = [p \in Players |-> [alive |-> TRUE, meals |-> 0, segments |-> 0]]
    /\ pending = {} /\ record = <<>> /\ playing = TRUE
    /\ down = <<>> /\ buffer = <<>> /\ heard = <<>>
    /\ state = NoState /\ localAlive = TRUE /\ score = 0
    /\ hud = Display(NoState, 0, 0, TRUE)
    /\ scene = "gameplay"

-----------------------------------------------------------------------------

(* The server *)

\* A snake after a tick.  Segments are those beyond the initial ones: the body
\* follows the meals by one segment a tick while it moves.
Advanced(snake, eats, dies) ==
    [alive |-> snake.alive /\ ~dies,
     meals |-> IF eats THEN snake.meals + 1 ELSE snake.meals,
     segments |-> IF snake.alive /\ snake.segments < snake.meals THEN snake.segments + 1
                  ELSE snake.segments]

Events(snakes) ==
    MapThenSumSet(LAMBDA p : snakes[p].meals, DOMAIN snakes)
        + Cardinality(DOMAIN snakes \ Alive(snakes))

\* WinConditionSystem.check
Over(tick, snakes) ==
    \/ tick = Duration
    \/ Cardinality(Alive(snakes)) <= 1 /\ Cardinality(DOMAIN snakes) > 1

\* The eliminations of a tick, in one message.
Eliminated(who) == IF who = {} THEN <<>> ELSE <<[type |-> "player_eliminated", who |-> who]>>

\* to_snapshot_dict; lengths and scores count meals.
Pictured(snake) ==
    [alive |-> snake.alive, score |-> snake.meals, length |-> snake.meals, segments |-> snake.segments]

\* SnapshotGenerator.generate
Snapshot(tick, snakes) ==
    [timeLeft |-> Duration - tick, snakes |-> [p \in DOMAIN snakes |-> Pictured(snakes[p])]]

\* One iteration of Room._game_loop, as far as this player is concerned.
Tick(eating, dying) ==
    LET tick == Len(record) + 1
        news == Eliminated(dying \cup pending)
    IN  /\ playing /\ Len(down) < MaxDown
        /\ world' = [p \in DOMAIN world |-> Advanced(world[p], p \in eating, p \in dying)]
        /\ Events(world') <= MaxEvents
        /\ pending' = {}
        /\ IF Over(tick, world')
           THEN /\ playing' = FALSE
                /\ down' = down \o news \o <<[type |-> "match_end"]>>
                /\ UNCHANGED record
           ELSE /\ record' = Append(record, Snapshot(tick, world'))
                /\ down' = down \o news \o <<[type |-> "snapshot", tick |-> tick]>>
                /\ UNCHANGED playing
        /\ UNCHANGED clientVars

\* GameWorld.remove_player between two ticks
Leave(p) ==
    /\ playing /\ p \in DOMAIN world
    /\ world' = [q \in DOMAIN world \ {p} |-> world[q]]
    /\ pending' = IF world[p].alive THEN pending \cup {p} ELSE pending
    /\ UNCHANGED <<record, playing, down, clientVars>>

-----------------------------------------------------------------------------

(* SnapshotBuffer *)

\* A fault to compare with: a full buffer takes no more.
PushWhileRoom(b, tick) == IF Len(b) < MaxSize THEN Append(b, [tick |-> tick, age |-> 0]) ELSE b

\* push: a tick not above the newest is dropped, the oldest make room.
Push(b, tick) ==
    IF b # <<>> /\ tick <= Last(b).tick THEN b
    ELSE LET longer == Append(b, [tick |-> tick, age |-> 0])
         IN  IF Len(longer) > MaxSize THEN Tail(longer) ELSE longer

\* All snapshots beyond Delay are equally past; their age is not counted on.
Older(age) == IF age > Delay THEN age ELSE age + 1

\* The first two neighbours that have render_time between them.
Neighbours(b) ==
    LET between == {i \in 1..Len(b) - 1 : b[i].age >= Delay /\ b[i + 1].age <= Delay}
        i == CHOOSE i \in between : \A j \in between : i <= j
    IN  <<i, i + 1>>

\* A fault to compare with: after the newest snapshot the oldest one is held.
BracketingOldest(b) == IF b[1].age <= Delay \/ Last(b).age >= Delay THEN <<1>> ELSE Neighbours(b)

\* get_bracketing, as places in a buffer that is not empty: local_time is not
\* after render_time when the age is at least Delay.
Bracketing(b) ==
    CASE b[1].age <= Delay -> <<1>>
      [] b[1].age > Delay /\ Last(b).age >= Delay -> <<Len(b)>>
      [] OTHER -> Neighbours(b)

-----------------------------------------------------------------------------

(* SnapshotInterpolator *)

\* A fault to compare with: what is not blended is taken from the older one.
MixOld(old, new) == [new EXCEPT !.alive = old.alive, !.score = old.score]

\* _interpolate_snake: as many segments as the longer body, the rest of the new one.
Mix(old, new) ==
    [new EXCEPT !.segments = IF old.segments > new.segments THEN old.segments ELSE new.segments]

\* _interpolate: the snakes of either snapshot; one that is gone stays for now.
Blend(old, new) ==
    [p \in DOMAIN old \cup DOMAIN new |->
        CASE p \notin DOMAIN new -> old[p]
          [] p \notin DOMAIN old -> new[p]
          [] OTHER -> Mix(old[p], new[p])]

\* get_interpolated_state
Interpolated(b) ==
    IF b = <<>> THEN NoState
    ELSE LET place == Bracketing(b)
             newest == b[Last(place)].tick
         IN  [tick |-> newest, timeLeft |-> record[newest].timeLeft,
              snakes |-> IF Len(place) = 1 THEN record[newest].snakes
                         ELSE Blend(record[b[place[1]].tick].snakes, record[newest].snakes)]

-----------------------------------------------------------------------------

(* GameplayScene *)

\* The alive snakes with more points than mine, and with as many.
Ahead(snakes) == {p \in Alive(snakes) : snakes[p].score > snakes[Me].score}
Level(snakes) == {p \in Alive(snakes) : snakes[p].score = snakes[Me].score}

\* _compute_rank: sorted is stable, but the order of the snakes is a set's.
Ranks(snakes) ==
    IF Me \in Alive(snakes)
    THEN (Cardinality(Ahead(snakes)) + 1)..Cardinality(Ahead(snakes) \cup Level(snakes))
    ELSE {Cardinality(DOMAIN snakes)}

\* _find_local_snake corrects what is known of the player.
FindLocalSnake(snakes) ==
    IF Me \in DOMAIN snakes
    THEN localAlive' = snakes[Me].alive /\ score' = snakes[Me].score
    ELSE UNCHANGED <<localAlive, score>>

\* update: one frame.
Frame ==
    /\ scene = "gameplay"
    /\ buffer' = [i \in DOMAIN buffer |-> [buffer[i] EXCEPT !.age = Older(@)]]
    /\ heard' = [t \in DOMAIN heard |-> Older(heard[t])]
    /\ state' = Interpolated(buffer')
    /\ FindLocalSnake(state'.snakes)
    /\ \E rank \in Ranks(state'.snakes) : hud' = Display(state', score', rank, localAlive')
    /\ UNCHANGED <<serverVars, down, scene>>

Receive(type) ==
    /\ scene = "gameplay" /\ down # <<>> /\ Head(down).type = type
    /\ down' = Tail(down)
    /\ UNCHANGED <<serverVars, state, score, hud>>

OnSnapshot ==
    /\ Receive("snapshot")
    /\ buffer' = Push(buffer, Head(down).tick)
    /\ heard' = Append(heard, 0)
    /\ UNCHANGED <<localAlive, scene>>

\* Before the first snapshot the player does not know his own id.
OnPlayerEliminated ==
    /\ Receive("player_eliminated")
    /\ localAlive' = (localAlive /\ ~(state # NoState /\ Me \in Head(down).who))
    /\ UNCHANGED <<buffer, heard, scene>>

OnMatchEnd ==
    /\ Receive("match_end")
    /\ scene' = "results"
    /\ UNCHANGED <<buffer, heard, localAlive>>

Deliver == OnSnapshot \/ OnPlayerEliminated \/ OnMatchEnd

ServerStep == \E eating \in SUBSET Alive(world) : \E dying \in SUBSET Alive(world) : Tick(eating, dying)

Next == ServerStep \/ Deliver \/ Frame \/ \E p \in Players \ {Me} : Leave(p)

Spec == Init /\ [][Next]_vars

-----------------------------------------------------------------------------

(* Properties *)

TypeOK ==
    /\ Me \in DOMAIN world /\ DOMAIN world \subseteq Players
    /\ pending \subseteq Players \ DOMAIN world
    /\ Len(record) < Duration /\ playing \in BOOLEAN
    /\ Len(buffer) <= MaxSize
    /\ \A i \in DOMAIN buffer : buffer[i].tick \in DOMAIN record /\ buffer[i].age \in 0..Delay + 1
    /\ state.tick \in 0..Len(record) /\ DOMAIN state.snakes \subseteq Players
    /\ localAlive \in BOOLEAN
    /\ score \in Nat
    /\ hud \in [timeLeft : 0..Duration, score : Nat, rank : 0..Cardinality(Players),
                total : 0..Cardinality(Players), alive : BOOLEAN]
    /\ scene \in {"gameplay", "results"}

\* The game on the screen never runs backwards, however unevenly snapshots
\* come and whatever the buffer had to drop.
ViewNeverGoesBack == [][state'.tick >= state.tick]_vars

\* The picture is late by the interpolation delay and no more, also when the
\* buffer overflows: every snapshot that came longer ago is shown or passed, and
\* none is skipped to while an older one in the buffer is younger than that.
ViewPaced ==
    /\ \A t \in DOMAIN heard : heard[t] > Delay => state.tick >= t
    /\ \A i, j \in DOMAIN buffer :
         i < j /\ buffer[i].age < Delay => state.tick < buffer[j].tick

\* What is drawn and what the display says of the player is one moment of the
\* match, not a mixture of two: the clock, and the score, length, body and
\* condition of every snake at the tick shown.  Only players who have left the game since may be added,
\* for as long as the picture is a blend, and only their number may spoil the
\* rank among the alive.
StandingTrue ==
    state # NoState =>
        LET moment == record[state.tick].snakes
            guests == DOMAIN state.snakes \ DOMAIN moment
            better == {p \in Alive(moment) : moment[p].score > moment[Me].score}
        IN  /\ DOMAIN moment \subseteq DOMAIN state.snakes /\ guests \cap DOMAIN world = {}
            /\ \A p \in DOMAIN moment : state.snakes[p] = moment[p]
            /\ hud.timeLeft = Duration - state.tick
            /\ hud.score = moment[Me].score /\ hud.alive = moment[Me].alive
            /\ hud.alive => /\ hud.rank > Cardinality(better)
                            /\ hud.rank <= Cardinality(Alive(moment)) + Cardinality(guests)
            /\ ~hud.alive => hud.rank = hud.total

=============================================================================
