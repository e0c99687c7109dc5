-------------------------- MODULE ClientScenesProofs --------------------------
(***************************************************************************)
(* Why the screens follow the server, for every bound of the two channels: *)
(* what is on the way to the client is, scene by scene, what brings it     *)
(* from the scene it shows to the one the server has the player in.        *)
(***************************************************************************)
EXTENDS ClientScenes, SequenceTheorems, TLAPS

Messages == RoomStates \cup {"match_found", "match_start", "match_end", "error"}

Requests == {"join_queue", "cancel_queue", "create_room", "join_room", "start_room", "leave_room"}

-----------------------------------------------------------------------------

(* The inductive invariant *)

\* In s no b comes before the first member of A.
Before(s, A, b) == \A j \in DOMAIN s : s[j] = b => \E k \in 1..j - 1 : s[k] \in A

Once(s, m) == \A j, k \in DOMAIN s : s[j] = m /\ s[k] = m => j = k

Coming(m) == m \in Range(down)

Over == place \in {"finished", "free"}

Begun == place \in {"starting", "running", "finished", "free"}

\* What the server has sent by now to the member of a room that starts.
Sent ==
    RoomStates \cup {"match_found"}
        \cup (IF place = "starting" THEN {} ELSE {"match_start"})
        \cup (IF Over THEN {"match_end"} ELSE {})

\* The client has left the menus for a match; its end is known or on the way.
InMatch ==
    /\ up = <<>> /\ Begun
    /\ Range(down) \subseteq Sent
    /\ Once(down, "match_end")
    /\ Over /\ scene # "results" => Coming("match_end")

\* The start is still to come, before the end.
Early ==
    /\ InMatch
    /\ place # "starting" => Coming("match_start")
    /\ Before(down, {"match_start"}, "match_end")

\* And before the start one of the messages that open the loading screen.
Awaiting(entries) ==
    /\ Early
    /\ \E e \in entries : Coming(e)
    /\ Before(down, entries, "match_start")

\* The last word on the start button is on the screen or the last on the way.
ViewFits == RoomState("waiting", host) = IF down = <<>> THEN view ELSE down[Len(down)]

InRoomYet ==
    /\ place = "waiting"
    /\ up = <<>> \/ (host /\ up = <<"start_room">>)
    /\ Range(down) \subseteq {"startable", "locked"}
    /\ ViewFits

Asking(request) == up = <<request>> /\ down = <<>> /\ place = "free"

FitsMenu ==
    \/ up = <<>> /\ place = "free"
    \/ up = <<"leave_room">> /\ place # "queued"
    \/ up = <<"cancel_queue">> /\ place = "queued"

FitsMatchmaking ==
    \/ Asking("join_queue")
    \/ up = <<>> /\ down = <<>> /\ place = "queued"
    \/ Awaiting({"match_found"})

FitsCreateRoom == Asking("create_room") \/ (InRoomYet /\ host) \/ Awaiting({"starting"})

\* A room that could not be joined, whose lobby is open nevertheless.
NoRoom == place = "free" /\ up \in {<<>>, <<"start_room">>} /\ Range(down) \subseteq {"error"}

FitsLobby ==
    Asking("join_room") \/ InRoomYet \/ NoRoom \/ Awaiting({"starting", "match_found"})

FitsResults == InMatch /\ Over /\ ~Coming("match_end")

Fits ==
    /\ scene # "closed"
    /\ scene = "menu" => FitsMenu
    /\ scene = "matchmaking" => FitsMatchmaking
    /\ scene = "create_room" => FitsCreateRoom
    /\ scene = "lobby" => FitsLobby
    /\ scene = "loading" => Early
    /\ scene = "gameplay" => InMatch /\ place # "starting"
    /\ scene = "results" => FitsResults

Typed == TypeOK /\ up \in Seq(Requests) /\ down \in Seq(Messages)

Offline == ~connected => up = <<>> /\ down = <<>> /\ place = "free" /\ ~late

\* The scene whose coroutine is connecting is still there, or has been cancelled.
Dialing ==
    connecting # "none" =>
        /\ ~connected /\ scene \in {"menu", "matchmaking", "create_room"}
        /\ ~strayed =>
            /\ connecting = "join_queue" => scene = "matchmaking"
            /\ connecting = "create_room" => scene = "create_room"
            /\ connecting = "join_room" => scene = "menu"

Inv == Typed /\ Offline /\ Dialing /\ (connected /\ ~strayed /\ ~misled => Fits)

-----------------------------------------------------------------------------

(* Lemmas about the channel *)

\* What is said of a message under way holds of it in the rest of the channel.
LEMMA RestFacts ==
    ASSUME NEW s \in Seq(Messages), s # <<>>
    PROVE  /\ Tail(s) \in Seq(Messages) /\ Len(Tail(s)) = Len(s) - 1
           /\ Head(s) \in Messages
           /\ Range(s) = {Head(s)} \cup Range(Tail(s))
           /\ \A A, b : Before(s, A, b) => Head(s) # b
           /\ \A A, b : Before(s, A, b) /\ Head(s) \notin A => Before(Tail(s), A, b)
           /\ \A m : Once(s, m) => Once(Tail(s), m)
           /\ \A m : Once(s, m) /\ Head(s) = m => m \notin Range(Tail(s))
           /\ Tail(s) # <<>> => Tail(s)[Len(Tail(s))] = s[Len(s)]
           /\ Tail(s) = <<>> => Head(s) = s[Len(s)]
<1>1. /\ Len(s) \in Nat \ {0} /\ Head(s) = s[1] /\ Head(s) \in Messages
      /\ Tail(s) \in Seq(Messages) /\ Len(Tail(s)) = Len(s) - 1
      /\ DOMAIN s = 1..Len(s) /\ DOMAIN Tail(s) = 1..Len(s) - 1
      /\ \A k \in 1..Len(s) - 1 : Tail(s)[k] = s[k + 1]
    BY HeadTailProperties, EmptySeq
<1>2. Range(s) = {Head(s)} \cup Range(Tail(s))
    <2>1. ASSUME NEW k \in DOMAIN s
          PROVE  s[k] \in {Head(s)} \cup Range(Tail(s))
        <3>1. CASE k = 1
            BY <1>1, <3>1
        <3>2. CASE k # 1
            <4>1. k - 1 \in DOMAIN Tail(s) /\ Tail(s)[k - 1] = s[k]
                BY <1>1, <3>2
            <4> QED BY <4>1 DEF Range
        <3> QED BY <3>1, <3>2
    <2>2. Head(s) \in Range(s)
        BY <1>1 DEF Range
    <2>3. ASSUME NEW k \in DOMAIN Tail(s)
          PROVE  Tail(s)[k] \in Range(s)
        <3>1. k + 1 \in DOMAIN s /\ s[k + 1] = Tail(s)[k]
            BY <1>1
        <3> QED BY <3>1 DEF Range
    <2> QED BY <2>1, <2>2, <2>3 DEF Range
<1>3. \A A, b : Before(s, A, b) => Head(s) # b
    BY <1>1 DEF Before
<1>4. ASSUME NEW A, NEW b, Before(s, A, b), Head(s) \notin A
      PROVE  Before(Tail(s), A, b)
    <2> SUFFICES ASSUME NEW j \in DOMAIN Tail(s), Tail(s)[j] = b
                 PROVE  \E k \in 1..j - 1 : Tail(s)[k] \in A
        BY DEF Before
    <2>1. PICK k \in 1..j + 1 - 1 : s[k] \in A
        BY <1>1, <1>4 DEF Before
    <2>2. k - 1 \in 1..j - 1 /\ Tail(s)[k - 1] = s[k]
        BY <1>1, <1>4, <2>1
    <2> QED BY <2>1, <2>2
<1>5. ASSUME NEW m, Once(s, m)
      PROVE  Once(Tail(s), m) /\ (Head(s) = m => m \notin Range(Tail(s)))
    <2>1. \A j, k \in DOMAIN Tail(s) : Tail(s)[j] = m /\ Tail(s)[k] = m => j + 1 = k + 1
        BY <1>1, <1>5 DEF Once
    <2>2. Once(Tail(s), m)
        BY <1>1, <2>1 DEF Once
    <2>3. Head(s) = m => \A k \in DOMAIN Tail(s) : Tail(s)[k] # m
        BY <1>1, <1>5 DEF Once
    <2> QED BY <2>2, <2>3 DEF Range
<1>6. /\ Tail(s) # <<>> => Tail(s)[Len(Tail(s))] = s[Len(s)]
      /\ Tail(s) = <<>> => Head(s) = s[Len(s)]
    <2> DEFINE t == Tail(s)
    <2>1. /\ Len(s) \in Nat \ {0} /\ Head(s) = s[1]
          /\ t \in Seq(Messages) /\ Len(t) = Len(s) - 1
          /\ \A k \in 1..Len(s) - 1 : t[k] = s[k + 1]
        BY <1>1
    <2> HIDE DEF t
    <2>2. t = <<>> => Len(t) = 0
        BY EmptySeq
    <2>3. t # <<>> => Len(t) \in Nat \ {0}
        BY <2>1, EmptySeq
    <2>4. t = <<>> => Head(s) = s[Len(s)]
        BY <2>1, <2>2
    <2>5. t # <<>> => t[Len(t)] = s[Len(s)]
        BY <2>1, <2>3
    <2> QED BY <2>4, <2>5 DEF t
<1> QED BY <1>1, <1>2, <1>3, <1>4, <1>5, <1>6

\* What is said of the messages under way holds with one more behind them.
LEMMA OneMoreFacts ==
    ASSUME NEW s \in Seq(Messages), NEW new \in Messages
    PROVE  LET t == Append(s, new)
           IN  /\ t \in Seq(Messages) /\ t # <<>> /\ Len(t) = Len(s) + 1
               /\ Range(t) = Range(s) \cup {new}
               /\ t[Len(t)] = new
               /\ \A A, b : Before(s, A, b) /\ (new = b => A \cap Range(s) # {}) => Before(t, A, b)
               /\ \A m : Once(s, m) /\ (new = m => m \notin Range(s)) => Once(t, m)
<1> DEFINE t == Append(s, new)
<1>1. /\ Len(s) \in Nat /\ t \in Seq(Messages) /\ t # <<>> /\ Len(t) = Len(s) + 1
      /\ DOMAIN s = 1..Len(s) /\ DOMAIN t = 1..Len(s) + 1
      /\ \A k \in 1..Len(s) : t[k] = s[k]
      /\ t[Len(s) + 1] = new
    BY AppendProperties
<1> HIDE DEF t
<1>2. Range(t) = Range(s) \cup {new}
    <2>1. \A k \in DOMAIN t : t[k] \in Range(s) \cup {new}
        BY <1>1 DEF Range
    <2>2. \A k \in DOMAIN s : k \in DOMAIN t /\ t[k] = s[k]
        BY <1>1
    <2>3. Len(s) + 1 \in DOMAIN t
        BY <1>1
    <2> QED BY <1>1, <2>1, <2>2, <2>3 DEF Range
<1>3. ASSUME NEW A, NEW b, Before(s, A, b), new = b => A \cap Range(s) # {}
      PROVE  Before(t, A, b)
    <2> SUFFICES ASSUME NEW j \in DOMAIN t, t[j] = b
                 PROVE  \E k \in 1..j - 1 : t[k] \in A
        BY DEF Before
    <2>1. CASE j = Len(s) + 1
        <3>1. PICK k \in DOMAIN s : s[k] \in A
            BY <1>1, <1>3, <2>1 DEF Range
        <3> QED BY <1>1, <2>1, <3>1
    <2>2. CASE j # Len(s) + 1
        <3>1. j \in DOMAIN s /\ s[j] = b
            BY <1>1, <2>2
        <3>2. PICK k \in 1..j - 1 : s[k] \in A
            BY <1>3, <3>1 DEF Before
        <3> QED BY <1>1, <3>1, <3>2
    <2> QED BY <2>1, <2>2
<1>4. ASSUME NEW m, Once(s, m), new = m => m \notin Range(s)
      PROVE  Once(t, m)
    <2>1. new = m => \A k \in DOMAIN s : s[k] # m
        BY <1>4 DEF Range
    <2> QED BY <1>1, <1>4, <2>1 DEF Once
<1> QED BY <1>1, <1>2, <1>3, <1>4 DEF t

\* A message that is not under way needs nothing before it and is there once.
LEMMA AbsentFacts ==
    ASSUME NEW s, NEW b, b \notin Range(s)
    PROVE  Once(s, b) /\ \A A : Before(s, A, b)
<1>1. \A k \in DOMAIN s : s[k] # b
    BY DEF Range
<1> QED BY <1>1 DEF Once, Before

LEMMA NothingUnderWay == Range(<<>>) = {}
    BY DEF Range

-----------------------------------------------------------------------------

(* What the steps do to the channel and to the scene *)

LEMMA RoomStateFacts ==
    ASSUME NEW isHost \in BOOLEAN
    PROVE  /\ RoomState("starting", isHost) = "starting"
           /\ RoomState("waiting", isHost) = IF isHost THEN "startable" ELSE "locked"
           /\ \A state : RoomState(state, isHost) \in RoomStates
    BY DEF RoomState, RoomStates

\* Tell appends, one message after the other.
LEMMA Told ==
    ASSUME down \in Seq(Messages), Len(down) <= MaxDown
    PROVE  /\ Tell(<<>>) => down' = down
           /\ \A m \in Messages : Tell(<<m>>) => down' = Append(down, m) /\ Len(down') <= MaxDown
           /\ \A m, n \in Messages :
                 Tell(<<m, n>>) => down' = Append(Append(down, m), n) /\ Len(down') <= MaxDown
<1>1. down \o <<>> = down
    BY ConcatEmptySeq
<1>2. ASSUME NEW m \in Messages
      PROVE  down \o <<m>> = Append(down, m) /\ Len(Append(down, m)) = Len(down) + Len(<<m>>)
    BY AppendIsConcat, AppendProperties
<1>3. ASSUME NEW m \in Messages, NEW n \in Messages
      PROVE  /\ down \o <<m, n>> = Append(Append(down, m), n)
             /\ Len(Append(Append(down, m), n)) = Len(down) + Len(<<m, n>>)
    <2>1. Append(down, m) \in Seq(Messages) /\ <<m>> \in Seq(Messages) /\ <<n>> \in Seq(Messages)
        BY AppendProperties
    <2>2. Append(Append(down, m), n) = (down \o <<m>>) \o <<n>>
        BY <2>1, AppendIsConcat
    <2>3. (down \o <<m>>) \o <<n>> = down \o (<<m>> \o <<n>>)
        BY <2>1, ConcatAssociative
    <2>4. <<m>> \o <<n>> = <<m, n>>
        <3>1. <<m>> \o <<n>> = Append(<<m>>, n)
            BY <2>1, AppendIsConcat
        <3>2. Append(<<m>>, n) = <<m, n>>
            <4> DEFINE t == Append(<<m>>, n)
            <4>1. /\ t \in Seq(Messages) /\ Len(t) = 2 /\ t[1] = m /\ t[2] = n
                BY <2>1, AppendProperties
            <4>2. <<m, n>> \in Seq(Messages) /\ Len(<<m, n>>) = 2
                OBVIOUS
            <4> HIDE DEF t
            <4>3. \A k \in 1..2 : t[k] = <<m, n>>[k]
                BY <4>1
            <4>4. t = <<m, n>>
                BY <4>1, <4>2, <4>3, SeqEqual
            <4> QED BY <4>4 DEF t
        <3> QED BY <3>1, <3>2
    <2>5. Len(Append(Append(down, m), n)) = Len(down) + 2
        BY <2>1, AppendProperties, LenProperties
    <2> QED BY <2>2, <2>3, <2>4, <2>5
<1> QED BY <1>1, <1>2, <1>3 DEF Tell

\* The scene a message leads to; the scenes that do not listen to it stay.
LEMMA Dispatched ==
    ASSUME TypeOK, NEW m \in Messages, Dispatch(m)
    PROVE  /\ scene = "matchmaking" =>
                 scene' = IF m = "match_found" THEN "loading" ELSE scene
           /\ scene = "create_room" =>
                 scene' = IF m = "starting" THEN "loading" ELSE scene
           /\ scene = "lobby" =>
                 scene' = IF m \in {"starting", "match_found"} THEN "loading" ELSE scene
           /\ scene = "loading" =>
                 scene' = IF m = "match_start" THEN "gameplay" ELSE IF m = "error" THEN "menu" ELSE scene
           /\ scene = "gameplay" =>
                 scene' = IF m = "match_end" THEN "results" ELSE IF m = "error" THEN "menu" ELSE scene
           /\ scene \in {"menu", "results", "closed"} => scene' = scene
           /\ scene \notin {"lobby", "create_room"} => view' = view
           /\ scene \in {"lobby", "create_room"} /\ m \in RoomStates => view' = m
           /\ view' \in RoomStates \cup {"none"}
<1> DEFINE LeadsTo(next) == <<scene, m, next>> \in Moves
<1>1. /\ \A next : LeadsTo(next) <=>
            \/ scene = "matchmaking" /\ m = "match_found" /\ next = "loading"
            \/ scene = "loading" /\ m = "match_start" /\ next = "gameplay"
            \/ scene = "loading" /\ m = "error" /\ next = "menu"
            \/ scene = "lobby" /\ m \in {"starting", "match_found"} /\ next = "loading"
            \/ scene = "create_room" /\ m = "starting" /\ next = "loading"
            \/ scene = "gameplay" /\ m = "match_end" /\ next = "results"
            \/ scene = "gameplay" /\ m = "error" /\ next = "menu"
    BY DEF Moves, MatchmakingMoves, LoadingMoves, LobbyMoves, CreateRoomMoves, GameplayMoves
<1>2. \A t \in Moves : t = <<t[1], t[2], t[3]>>
    BY DEF Moves, MatchmakingMoves, LoadingMoves, LobbyMoves, CreateRoomMoves, GameplayMoves
<1>3. \/ (\A next : ~LeadsTo(next)) /\ scene' = scene
      \/ LeadsTo(scene')
    <2>1. CASE Listeners(m) = {}
        <3>1. ASSUME NEW next, LeadsTo(next)
              PROVE  FALSE
            <4>1. <<scene, m, next>> \in Listeners(m)
                BY <3>1 DEF Listeners
            <4> QED BY <2>1, <4>1
        <3> QED BY <2>1, <3>1 DEF Dispatch
    <2>2. CASE Listeners(m) # {}
        <3>1. PICK t \in Listeners(m) : scene' = t[3]
            BY <2>2 DEF Dispatch
        <3>2. t \in Moves /\ t[1] = scene /\ t[2] = m
            BY <3>1 DEF Listeners
        <3> QED BY <1>2, <3>1, <3>2
    <2> QED BY <2>1, <2>2
<1> HIDE DEF LeadsTo
<1>4. view' = Applied(m)
    BY DEF Dispatch
<1>5. scene \in {"menu", "matchmaking", "create_room", "lobby", "loading", "gameplay", "results", "closed"}
    BY DEF TypeOK
<1>6. view' \in RoomStates \cup {"none"}
    BY <1>4 DEF Applied, TypeOK
<1>7. /\ scene \notin {"lobby", "create_room"} => view' = view
      /\ scene \in {"lobby", "create_room"} /\ m \in RoomStates => view' = m
    BY <1>4 DEF Applied
<1> QED BY <1>1, <1>3, <1>5, <1>6, <1>7

\* A request alone on its way.
LEMMA RequestFacts ==
    ASSUME NEW r \in Requests
    PROVE  /\ <<r>> \in Seq(Requests) /\ <<r>> # <<>> /\ Head(<<r>>) = r
           /\ Tail(<<r>>) = <<>> /\ Append(<<>>, r) = <<r>>
           /\ \A q \in Requests : <<q>> = <<r>> => q = r
<1>1. /\ <<r>> \in Seq(Requests) /\ <<r>> # <<>> /\ Head(<<r>>) = r
      /\ \A q \in Requests : <<q>> = <<r>> => q = r
    OBVIOUS
<1>2. Append(<<>>, r) = <<r>>
    OBVIOUS
<1>3. Tail(<<r>>) = <<>>
    <2>1. Head(Append(<<>>, r)) = r /\ Tail(Append(<<>>, r)) = <<>>
        <3>1. <<>> \in Seq(Requests)
            BY EmptySeq
        <3> QED BY <3>1, HeadTailAppend
    <2> QED BY <1>2, <2>1
<1> QED BY <1>1, <1>2, <1>3

\* The two ways to send keep the channel in its bound.
LEMMA SendFacts ==
    ASSUME Typed, NEW r \in Requests
    PROVE  /\ Send(r) => up' = Append(up, r) /\ up' \in Seq(Requests) /\ Len(up') <= MaxUp
           /\ up = <<>> /\ up' = Append(up, r) => up' \in Seq(Requests) /\ Len(up') <= MaxUp
<1> DEFINE new == Append(up, r)
<1>1. new \in Seq(Requests) /\ Len(new) = Len(up) + 1
    BY AppendProperties DEF Typed
<1>2. Len(up) \in Nat /\ (up = <<>> => Len(up) = 0)
    BY LenProperties, EmptySeq DEF Typed
<1>3. Send(r) => up' = new /\ Len(up) < MaxUp
    BY DEF Send
<1> HIDE DEF new
<1>4. Send(r) => up' \in Seq(Requests) /\ Len(up') <= MaxUp
    BY <1>1, <1>2, <1>3, ChannelAssumption
<1>5. up = <<>> => Len(new) <= MaxUp
    BY <1>1, <1>2, ChannelAssumption
<1> QED BY <1>1, <1>3, <1>4, <1>5 DEF new

\* The settled client: what its scene says when nothing is under way.
LEMMA Settled ==
    ASSUME Inv, connected, ~strayed, ~misled, up = <<>>, down = <<>>
    PROVE  /\ scene = "menu" => place = "free"
           /\ scene = "matchmaking" => place = "queued"
           /\ scene = "create_room" => place = "waiting" /\ host
           /\ scene = "lobby" => place \in {"waiting", "free"}
           /\ scene = "loading" => place = "starting"
           /\ scene = "gameplay" => place = "running"
           /\ scene = "results" => place \in {"finished", "free"}
           /\ scene # "closed"
           /\ scene \in {"create_room", "lobby"} /\ place = "waiting" =>
                 view = RoomState("waiting", host)
<1>1. Fits /\ Typed
    BY DEF Inv
<1>2. \A m : ~Coming(m)
    BY NothingUnderWay DEF Coming
<1>3. \A r \in Requests : up # <<r>>
    BY RequestFacts
<1>4. \A A : ~Awaiting(A)
    BY <1>2 DEF Awaiting
<1>5. \A r \in Requests : ~Asking(r)
    BY <1>3 DEF Asking
<1>6. Early => place = "starting"
    BY <1>2 DEF Early
<1>7. InMatch /\ scene # "results" => place \in {"starting", "running"}
    BY <1>2 DEF InMatch, Over, Begun
<1>8. InRoomYet => place = "waiting" /\ view = RoomState("waiting", host)
    BY DEF InRoomYet, ViewFits
<1>9. /\ scene = "menu" => place = "free"
      /\ scene = "matchmaking" => place = "queued"
    BY <1>1, <1>3, <1>4, <1>5 DEF Fits, FitsMenu, FitsMatchmaking, Requests
<1>10. scene = "create_room" => InRoomYet /\ host
    BY <1>1, <1>4, <1>5 DEF Fits, FitsCreateRoom, Requests
<1>11. scene = "lobby" => InRoomYet \/ NoRoom
    BY <1>1, <1>4, <1>5 DEF Fits, FitsLobby, Requests
<1>12. scene = "results" => Over
    BY <1>1 DEF Fits, FitsResults
<1>13. /\ scene # "closed"
       /\ scene = "loading" => Early
       /\ scene = "gameplay" => InMatch /\ place # "starting"
    BY <1>1 DEF Fits
<1> QED BY <1>6, <1>7, <1>8, <1>9, <1>10, <1>11, <1>12, <1>13 DEF Over, NoRoom

-----------------------------------------------------------------------------

(* The user's steps keep the invariant *)

\* Only a click with nothing under way leaves the history clean.
LEMMA ClickFacts ==
    ASSUME Inv, Click
    PROVE  /\ connected' = connected /\ down' = down
           /\ place' = place /\ host' = host /\ counting' = counting
           /\ strayed' \in BOOLEAN /\ late' = late /\ misled' = misled
           /\ ~misled' => ~misled
           /\ ~strayed' => ~strayed /\ up = <<>> /\ down = <<>> /\ connecting = "none"
           /\ connected => connecting = "none"
    BY DEF Click, serverVars, Inv, Typed, TypeOK, Dialing

LEMMA PlayKeeps ==
    ASSUME Inv, Play
    PROVE  Inv'
<1>1. Typed /\ Offline /\ Dialing /\ Click /\ "join_queue" \in Requests
    BY DEF Inv, Play, Requests
<1>2. /\ scene = "menu" /\ scene' = "matchmaking" /\ view' = view
      /\ \/ connected /\ Send("join_queue") /\ connecting' = connecting
         \/ ~connected /\ connecting = "none" /\ connecting' = "join_queue" /\ up' = up
    BY DEF Play, ConnectAndSend
<1>3. Typed'
    BY <1>1, <1>2, ClickFacts, SendFacts DEF Typed, TypeOK
<1>4. Offline' /\ Dialing'
    BY <1>1, <1>2, ClickFacts DEF Offline, Dialing
<1>5. ASSUME connected', ~strayed', ~misled'
      PROVE  Fits'
    <2>1. up' = <<"join_queue">> /\ down' = <<>> /\ place' = "free"
        BY <1>1, <1>2, <1>5, ClickFacts, Settled, SendFacts, RequestFacts
    <2> QED BY <1>2, <2>1 DEF Fits, FitsMatchmaking, Asking
<1> QED BY <1>3, <1>4, <1>5 DEF Inv

LEMMA CreateRoomKeeps ==
    ASSUME Inv, CreateRoom
    PROVE  Inv'
<1>1. Typed /\ Offline /\ Dialing /\ Click /\ "create_room" \in Requests
    BY DEF Inv, CreateRoom, Requests
<1>2. /\ scene = "menu" /\ scene' = "create_room" /\ view' = "none"
      /\ \/ connected /\ Send("create_room") /\ connecting' = connecting
         \/ ~connected /\ connecting = "none" /\ connecting' = "create_room" /\ up' = up
    BY DEF CreateRoom, ConnectAndSend
<1>3. Typed'
    BY <1>1, <1>2, ClickFacts, SendFacts DEF Typed, TypeOK
<1>4. Offline' /\ Dialing'
    BY <1>1, <1>2, ClickFacts DEF Offline, Dialing
<1>5. ASSUME connected', ~strayed', ~misled'
      PROVE  Fits'
    <2>1. up' = <<"create_room">> /\ down' = <<>> /\ place' = "free"
        BY <1>1, <1>2, <1>5, ClickFacts, Settled, SendFacts, RequestFacts
    <2> QED BY <1>2, <2>1 DEF Fits, FitsCreateRoom, Asking
<1> QED BY <1>3, <1>4, <1>5 DEF Inv

LEMMA JoinRoomKeeps ==
    ASSUME Inv, JoinRoom
    PROVE  Inv'
<1>1. Typed /\ Offline /\ Dialing /\ Click /\ "join_room" \in Requests
    BY DEF Inv, JoinRoom, Requests
<1>2. /\ scene = "menu" /\ view' = view
      /\ \/ connected /\ scene' = "lobby" /\ Send("join_room") /\ connecting' = connecting
         \/ ~connected /\ scene' = scene /\ connecting = "none" /\ connecting' = "join_room" /\ up' = up
    BY DEF JoinRoom, ConnectAndSend
<1>3. Typed'
    BY <1>1, <1>2, ClickFacts, SendFacts DEF Typed, TypeOK
<1>4. Offline' /\ Dialing'
    BY <1>1, <1>2, ClickFacts DEF Offline, Dialing
<1>5. ASSUME connected', ~strayed', ~misled'
      PROVE  Fits'
    <2>1. up' = <<"join_room">> /\ down' = <<>> /\ place' = "free" /\ scene' = "lobby"
        BY <1>1, <1>2, <1>5, ClickFacts, Settled, SendFacts, RequestFacts
    <2> QED BY <2>1 DEF Fits, FitsLobby, Asking
<1> QED BY <1>3, <1>4, <1>5 DEF Inv

LEMMA CancelKeeps ==
    ASSUME Inv, Cancel
    PROVE  Inv'
<1>1. Typed /\ Offline /\ Dialing /\ Click /\ "cancel_queue" \in Requests
    BY DEF Inv, Cancel, Requests
<1>2. /\ scene = "matchmaking" /\ scene' = "menu" /\ view' = view /\ connecting' = connecting
      /\ (connected /\ Send("cancel_queue")) \/ (~connected /\ up' = up)
    BY DEF Cancel, SendIfConnected
<1>3. Typed'
    BY <1>1, <1>2, ClickFacts, SendFacts DEF Typed, TypeOK
<1>4. Offline' /\ Dialing'
    BY <1>1, <1>2, ClickFacts DEF Offline, Dialing
<1>5. ASSUME connected', ~strayed', ~misled'
      PROVE  Fits'
    <2>1. up' = <<"cancel_queue">> /\ place' = "queued"
        BY <1>1, <1>2, <1>5, ClickFacts, Settled, SendFacts, RequestFacts
    <2> QED BY <1>2, <2>1 DEF Fits, FitsMenu
<1> QED BY <1>3, <1>4, <1>5 DEF Inv

LEMMA LeaveRoomKeeps ==
    ASSUME Inv, LeaveRoom
    PROVE  Inv'
<1>1. Typed /\ Offline /\ Dialing /\ Click /\ "leave_room" \in Requests
    BY DEF Inv, LeaveRoom, Requests
<1>2. /\ scene \in {"lobby", "create_room"} /\ scene' = "menu" /\ view' = "none" /\ connecting' = connecting
      /\ (connected /\ Send("leave_room")) \/ (~connected /\ up' = up)
    BY DEF LeaveRoom, SendIfConnected
<1>3. Typed'
    BY <1>1, <1>2, ClickFacts, SendFacts DEF Typed, TypeOK
<1>4. Offline' /\ Dialing'
    BY <1>1, <1>2, ClickFacts DEF Offline, Dialing
<1>5. ASSUME connected', ~strayed', ~misled'
      PROVE  Fits'
    <2>1. up' = <<"leave_room">> /\ place' \in {"waiting", "free"}
        BY <1>1, <1>2, <1>5, ClickFacts, Settled, SendFacts, RequestFacts
    <2> QED BY <1>2, <2>1 DEF Fits, FitsMenu
<1> QED BY <1>3, <1>4, <1>5 DEF Inv

\* The button that is offered is the host's, or leads to an error in no room.
LEMMA StartRoomKeeps ==
    ASSUME Inv, StartRoom
    PROVE  Inv'
<1>1. Typed /\ Offline /\ Dialing /\ Click /\ "start_room" \in Requests
    BY DEF Inv, StartRoom, Requests
<1>2. /\ scene \in {"lobby", "create_room"} /\ scene' = scene /\ view' = view /\ connecting' = connecting
      /\ Offered
      /\ (connected /\ Send("start_room")) \/ (~connected /\ up' = up)
    BY DEF StartRoom, SendIfConnected
<1>3. Typed'
    BY <1>1, <1>2, ClickFacts, SendFacts DEF Typed, TypeOK
<1>4. Offline' /\ Dialing'
    BY <1>1, <1>2, ClickFacts DEF Offline, Dialing
<1>5. ASSUME connected', ~strayed', ~misled'
      PROVE  Fits'
    <2>1. up' = <<"start_room">> /\ down' = <<>> /\ Range(down') = {}
        BY <1>1, <1>2, <1>5, ClickFacts, SendFacts, RequestFacts, NothingUnderWay
    <2>2. connected /\ ~strayed /\ ~misled /\ up = <<>> /\ down = <<>>
        BY <1>1, <1>5, ClickFacts
    <2>3. CASE place = "waiting"
        <3>1. view = RoomState("waiting", host)
            BY <1>2, <2>2, <2>3, Settled
        <3>2. host
            <4>1. host \in BOOLEAN
                BY <1>1 DEF Typed, TypeOK
            <4> QED BY <1>2, <3>1, <4>1, RoomStateFacts DEF Offered
        <3>3. InRoomYet'
            BY <1>1, <1>2, <2>1, <2>3, <3>1, <3>2, ClickFacts DEF InRoomYet, ViewFits, RoomState
        <3> QED BY <1>1, <1>2, <3>2, <3>3, ClickFacts DEF Fits, FitsLobby, FitsCreateRoom
    <2>4. CASE place # "waiting"
        <3>1. scene = "lobby" /\ place = "free"
            BY <1>2, <2>2, <2>4, Settled
        <3>2. NoRoom'
            BY <1>1, <2>1, <3>1, ClickFacts DEF NoRoom
        <3> QED BY <1>2, <3>1, <3>2 DEF Fits, FitsLobby
    <2> QED BY <2>3, <2>4
<1> QED BY <1>3, <1>4, <1>5 DEF Inv

-----------------------------------------------------------------------------

(* So do the steps of the connection *)

\* Without a connection the invariant asks only for the empty channel.
LEMMA CutFacts ==
    ASSUME Inv, Cut
    PROVE  /\ connected' = FALSE /\ strayed' = FALSE /\ Offline'
           /\ late' = FALSE /\ misled' = FALSE
           /\ up' \in Seq(Requests) /\ down' \in Seq(Messages)
           /\ Len(up') <= MaxUp /\ Len(down') <= MaxDown
           /\ place' = "free" /\ host' = FALSE /\ counting' = FALSE
    BY EmptySeq, ChannelAssumption DEF Cut, Offline

LEMMA ReturnKeeps ==
    ASSUME Inv, Return
    PROVE  Inv'
<1>1. Cut /\ scene = "results" /\ scene' = "menu" /\ view' = view /\ connecting' = connecting
    BY DEF Return
<1>2. Typed'
    BY <1>1, CutFacts DEF Inv, Typed, TypeOK
<1>3. Dialing'
    BY <1>1 DEF Inv, Dialing
<1> QED BY <1>1, <1>2, <1>3, CutFacts DEF Inv

LEMMA QuitKeeps ==
    ASSUME Inv, Quit
    PROVE  Inv'
<1>1. Cut /\ scene' = "closed" /\ view' = view /\ connecting' = "none"
    BY DEF Quit
<1>2. Typed'
    BY <1>1, CutFacts DEF Inv, Typed, TypeOK
<1>3. Dialing'
    BY <1>1 DEF Dialing
<1> QED BY <1>1, <1>2, <1>3, CutFacts DEF Inv

LEMMA LoseKeeps ==
    ASSUME Inv, Lose
    PROVE  Inv'
<1>1. Cut /\ connected /\ Dispatch("error") /\ connecting' = connecting /\ Typed
    BY DEF Inv, Lose
<1>2. /\ scene' \in {scene, "loading", "gameplay", "results", "menu"}
      /\ view' \in RoomStates \cup {"none"}
    BY <1>1, Dispatched DEF Typed, TypeOK, Messages
<1>3. Typed'
    BY <1>1, <1>2, CutFacts DEF Typed, TypeOK
<1>4. Dialing'
    BY <1>1 DEF Inv, Dialing
<1> QED BY <1>1, <1>3, <1>4, CutFacts DEF Inv

LEMMA ConnectFailsKeeps ==
    ASSUME Inv, ConnectFails
    PROVE  Inv'
<1>1. /\ Typed /\ ~connected /\ Dispatch("error") /\ connecting' = "none" /\ strayed' = FALSE
      /\ late' = late /\ misled' = misled
      /\ connected' = connected /\ up' = up /\ down' = down
      /\ place' = place /\ host' = host /\ counting' = counting
    BY DEF Inv, Dialing, ConnectFails, serverVars
<1>2. /\ scene' \in {scene, "loading", "gameplay", "results", "menu"}
      /\ view' \in RoomStates \cup {"none"}
    BY <1>1, Dispatched DEF Typed, TypeOK, Messages
<1>3. Typed'
    BY <1>1, <1>2 DEF Typed, TypeOK
<1>4. Offline' /\ Dialing'
    BY <1>1 DEF Inv, Offline, Dialing
<1> QED BY <1>1, <1>3, <1>4 DEF Inv

\* Who is connected has cancelled nothing meanwhile, or has strayed.
LEMMA ConnectedKeeps ==
    ASSUME Inv, Connected
    PROVE  Inv'
<1>1. /\ Typed /\ up = <<>> /\ down = <<>> /\ place = "free"
      /\ connecting \in {"join_queue", "create_room", "join_room"} /\ connecting \in Requests
      /\ scene \in {"menu", "matchmaking", "create_room"}
    BY DEF Inv, Offline, Dialing, Typed, TypeOK, Connected, Requests
<1>2. /\ connected' = TRUE /\ connecting' = "none"
      /\ up' = Append(up, connecting)
      /\ scene' = IF connecting = "join_room" THEN "lobby" ELSE scene
      /\ view' = view /\ down' = down /\ place' = place /\ host' = host /\ counting' = counting
      /\ strayed' = strayed
      /\ late' = late /\ misled' = misled
    BY DEF Connected, serverVars
<1>3. up' = <<connecting>>
    BY <1>1, <1>2, RequestFacts
<1>4. Typed'
    BY <1>1, <1>2, SendFacts DEF Typed, TypeOK
<1>5. Offline' /\ Dialing'
    BY <1>2 DEF Offline, Dialing
<1>6. ASSUME ~strayed', ~misled'
      PROVE  Fits'
    <2>1. /\ connecting = "join_queue" => scene' = "matchmaking"
          /\ connecting = "create_room" => scene' = "create_room"
          /\ connecting = "join_room" => scene' = "lobby"
        BY <1>1, <1>2, <1>6 DEF Inv, Dialing
    <2>2. \A r \in Requests : connecting = r => Asking(r)'
        BY <1>1, <1>2, <1>3 DEF Asking
    <2> QED BY <1>1, <2>1, <2>2 DEF Fits, FitsMatchmaking, FitsCreateRoom, FitsLobby
<1> QED BY <1>4, <1>5, <1>6 DEF Inv

-----------------------------------------------------------------------------

(* So does a message that arrives *)

\* What is still under way for a match, after its first message has arrived.
LEMMA RestOfMatch ==
    ASSUME Typed, down # <<>>, down' = Tail(down), up' = up, place' = place
    PROVE  /\ InMatch /\ Head(down) # "match_end" /\ scene # "results" => InMatch'
           /\ InMatch /\ scene' = "results" => InMatch'
           /\ InMatch /\ Head(down) = "match_end" => Over /\ ~Coming("match_end")'
           /\ InMatch => Head(down) # "error"
           /\ InMatch /\ Over /\ ~Coming("match_end") => Head(down) # "match_end" /\ ~Coming("match_end")'
           /\ Early => Head(down) # "match_end"
           /\ Early /\ Head(down) # "match_start" /\ scene # "results" => Early'
<1> DEFINE m == Head(down)
<1>1. /\ Range(down) = {m} \cup Range(down')
      /\ \A A, b : Before(down, A, b) => m # b
      /\ \A A, b : Before(down, A, b) /\ m \notin A => Before(down', A, b)
      /\ \A c : Once(down, c) => Once(down', c)
      /\ \A c : Once(down, c) /\ m = c => c \notin Range(down')
    BY RestFacts DEF Typed
<1>2. (Over <=> Over') /\ (Begun <=> Begun') /\ Sent' = Sent
    BY DEF Over, Begun, Sent
<1>3. /\ "error" \notin Sent
      /\ ~Over => "match_end" \notin Sent
    BY DEF Sent, RoomStates
<1>4. ASSUME InMatch
      PROVE  /\ up' = <<>> /\ Begun' /\ Range(down') \subseteq Sent' /\ Once(down', "match_end")
             /\ m # "error" /\ (m = "match_end" => Over /\ "match_end" \notin Range(down'))
    BY <1>1, <1>2, <1>3, <1>4 DEF InMatch
<1>5. InMatch /\ m # "match_end" /\ scene # "results" => InMatch'
    <2> SUFFICES ASSUME InMatch, m # "match_end", scene # "results" PROVE InMatch'
        OBVIOUS
    <2>1. Over => "match_end" \in Range(down')
        BY <1>1 DEF InMatch, Coming
    <2> QED BY <1>2, <1>4, <2>1 DEF InMatch, Coming
<1>6. InMatch /\ scene' = "results" => InMatch'
    BY <1>4 DEF InMatch
<1>7. InMatch /\ m = "match_end" => Over /\ ~Coming("match_end")'
    BY <1>4 DEF Coming
<1>8. InMatch /\ Over /\ ~Coming("match_end") => m # "match_end" /\ ~Coming("match_end")'
    BY <1>1 DEF Coming
<1>9. Early => m # "match_end"
    BY <1>1 DEF Early
<1>10. Early /\ m # "match_start" /\ scene # "results" => Early'
    <2> SUFFICES ASSUME Early, m # "match_start", scene # "results" PROVE Early'
        OBVIOUS
    <2>1. InMatch' /\ Before(down', {"match_start"}, "match_end")
        BY <1>1, <1>5, <1>9 DEF Early
    <2>2. place' # "starting" => "match_start" \in Range(down')
        BY <1>1 DEF Early, Coming
    <2> QED BY <2>1, <2>2 DEF Early, Coming
<1> QED BY <1>4, <1>5, <1>6, <1>7, <1>8, <1>9, <1>10

\* A scene that waits for the match opens the loading screen before the start.
LEMMA RestOfWaiting ==
    ASSUME Typed, down # <<>>, down' = Tail(down), up' = up, place' = place,
           NEW entries, Awaiting(entries), scene # "results"
    PROVE  /\ Head(down) # "match_start" /\ Head(down) # "match_end" /\ Early'
           /\ Head(down) \notin entries => Awaiting(entries)'
<1>1. /\ Range(down) = {Head(down)} \cup Range(down')
      /\ \A A, b : Before(down, A, b) => Head(down) # b
      /\ \A A, b : Before(down, A, b) /\ Head(down) \notin A => Before(down', A, b)
    BY RestFacts DEF Typed
<1>2. Early /\ Before(down, entries, "match_start")
    BY DEF Awaiting
<1>3. Head(down) # "match_start" /\ Head(down) # "match_end" /\ Early'
    BY <1>1, <1>2, RestOfMatch
<1>4. ASSUME Head(down) \notin entries
      PROVE  Awaiting(entries)'
    <2>1. \E e \in entries : e \in Range(down')
        BY <1>1, <1>4 DEF Awaiting, Coming
    <2>2. Before(down', entries, "match_start")
        BY <1>1, <1>2, <1>4
    <2> QED BY <1>3, <2>1, <2>2 DEF Awaiting, Coming
<1> QED BY <1>3, <1>4

\* The screen takes the state of the room from the messages, the last one too.
LEMMA RoomStays ==
    ASSUME Typed, down # <<>>, down' = Tail(down), up' = up, place' = place, host' = host,
           scene \in {"lobby", "create_room"}, InRoomYet, Dispatch(Head(down))
    PROVE  InRoomYet' /\ Head(down) \in {"startable", "locked"}
<1>1. /\ Range(down) = {Head(down)} \cup Range(down')
      /\ down' # <<>> => down'[Len(down')] = down[Len(down)]
      /\ down' = <<>> => Head(down) = down[Len(down)]
      /\ Head(down) \in Messages /\ TypeOK
    BY RestFacts DEF Typed
<1>2. Head(down) \in {"startable", "locked"}
    BY <1>1 DEF InRoomYet
<1>3. view' = Head(down)
    BY <1>1, <1>2, Dispatched DEF RoomStates
<1>4. RoomState("waiting", host) = down[Len(down)]
    BY DEF InRoomYet, ViewFits
<1>5. ViewFits'
    BY <1>1, <1>3, <1>4 DEF ViewFits, RoomState
<1> QED BY <1>1, <1>2, <1>5 DEF InRoomYet

LEMMA DeliverKeeps ==
    ASSUME Inv, Deliver
    PROVE  Inv'
<1> DEFINE m == Head(down)
<1>1. /\ Typed /\ connected /\ connecting = "none" /\ down # <<>> /\ m \in Messages
      /\ down' = Tail(down) /\ down' \in Seq(Messages) /\ Len(down') <= MaxDown
      /\ Dispatch(m)
    <2>1. Typed /\ connected /\ connecting = "none" /\ down # <<>> /\ down' = Tail(down) /\ Dispatch(m)
        BY DEF Inv, Offline, Dialing, Deliver
    <2>2. /\ Len(down) \in Nat \ {0} /\ Len(down) <= MaxDown
          /\ m \in Messages /\ down' \in Seq(Messages) /\ Len(down') = Len(down) - 1
        BY <2>1, RestFacts, EmptySeq DEF Typed, TypeOK
    <2> QED BY <2>1, <2>2, ChannelAssumption
<1>2. /\ connected' = connected /\ connecting' = connecting /\ up' = up
      /\ place' = place /\ host' = host /\ counting' = counting /\ strayed' = strayed
      /\ late' = late /\ misled' = misled
    BY DEF Deliver, serverVars
<1> HIDE DEF m
<1>3. Typed'
    <2>1. /\ scene' \in {scene, "loading", "gameplay", "results", "menu"}
          /\ view' \in RoomStates \cup {"none"}
        BY <1>1, Dispatched DEF Typed, TypeOK
    <2> QED BY <1>1, <1>2, <2>1 DEF Typed, TypeOK
<1>4. Offline' /\ Dialing'
    BY <1>1, <1>2 DEF Offline, Dialing
<1>5. ASSUME ~strayed, ~misled
      PROVE  Fits'
    <2>1. Fits /\ TypeOK
        BY <1>1, <1>5 DEF Inv, Typed
    <2>2. CASE scene = "menu"
        BY <1>1, <1>2, <2>1, <2>2, Dispatched DEF Fits, FitsMenu
    <2>3. CASE scene = "matchmaking"
        <3>1. Awaiting({"match_found"})
            BY <1>1, <2>1, <2>3 DEF Fits, FitsMatchmaking, Asking
        <3> QED BY <1>1, <1>2, <2>1, <2>3, <3>1, RestOfWaiting, Dispatched DEF Fits, FitsMatchmaking, m
    <2>4. CASE scene = "create_room"
        <3>1. CASE InRoomYet /\ host
            <4>1. InRoomYet' /\ m \in {"startable", "locked"}
                BY <1>1, <1>2, <2>1, <2>4, <3>1, RoomStays DEF m
            <4> QED BY <1>1, <1>2, <2>1, <2>4, <3>1, <4>1, Dispatched DEF Fits, FitsCreateRoom
        <3>2. CASE Awaiting({"starting"})
            BY <1>1, <1>2, <2>1, <2>4, <3>2, RestOfWaiting, Dispatched DEF Fits, FitsCreateRoom, m
        <3> QED BY <1>1, <2>1, <2>4, <3>1, <3>2 DEF Fits, FitsCreateRoom, Asking
    <2>5. CASE scene = "lobby"
        <3>1. CASE InRoomYet
            <4>1. InRoomYet' /\ m \in {"startable", "locked"}
                BY <1>1, <1>2, <2>1, <2>5, <3>1, RoomStays DEF m
            <4> QED BY <1>1, <1>2, <2>1, <2>5, <4>1, Dispatched DEF Fits, FitsLobby
        <3>2. CASE NoRoom
            <4>1. m = "error" /\ NoRoom'
                <5>1. Range(down) = {m} \cup Range(down')
                    BY <1>1, RestFacts DEF Typed, m
                <5> QED BY <1>2, <3>2, <5>1 DEF NoRoom
            <4> QED BY <1>1, <2>1, <2>5, <4>1, Dispatched DEF Fits, FitsLobby
        <3>3. CASE Awaiting({"starting", "match_found"})
            BY <1>1, <1>2, <2>1, <2>5, <3>3, RestOfWaiting, Dispatched DEF Fits, FitsLobby, m
        <3> QED BY <1>1, <2>1, <2>5, <3>1, <3>2, <3>3 DEF Fits, FitsLobby, Asking
    <2>6. CASE scene = "loading"
        <3>1. Early /\ InMatch
            BY <2>1, <2>6 DEF Fits, Early
        <3>2. CASE m = "match_start"
            <4>1. place # "starting"
                <5>1. m \in Range(down)
                    BY <1>1, RestFacts DEF Typed, m
                <5> QED BY <3>1, <3>2, <5>1 DEF InMatch, Sent, RoomStates, Over
            <4> QED BY <1>1, <1>2, <2>1, <2>6, <3>1, <3>2, <4>1, RestOfMatch, Dispatched DEF Fits, m
        <3>3. CASE m # "match_start"
            BY <1>1, <1>2, <2>1, <2>6, <3>1, <3>3, RestOfMatch, Dispatched DEF Fits, m
        <3> QED BY <3>2, <3>3
    <2>7. CASE scene = "gameplay"
        <3>1. InMatch /\ place # "starting"
            BY <2>1, <2>7 DEF Fits
        <3>2. CASE m = "match_end"
            BY <1>1, <1>2, <2>1, <2>7, <3>1, <3>2, RestOfMatch, Dispatched DEF Fits, FitsResults, Over, m
        <3>3. CASE m # "match_end"
            BY <1>1, <1>2, <2>1, <2>7, <3>1, <3>3, RestOfMatch, Dispatched DEF Fits, m
        <3> QED BY <3>2, <3>3
    <2>8. CASE scene = "results"
        BY <1>1, <1>2, <2>1, <2>8, RestOfMatch, Dispatched DEF Fits, FitsResults, Over
    <2> QED BY <2>1, <2>2, <2>3, <2>4, <2>5, <2>6, <2>7, <2>8 DEF TypeOK, Fits
<1> QED BY <1>2, <1>3, <1>4, <1>5 DEF Inv

-----------------------------------------------------------------------------

(* So do the handlers of the server *)

LEMMA TakeFacts ==
    ASSUME Inv, NEW r \in Requests, Take(r)
    PROVE  /\ Typed /\ connected /\ connecting = "none" /\ up # <<>> /\ Head(up) = r
           /\ scene' = scene /\ view' = view /\ connected' = connected /\ connecting' = connecting
           /\ strayed' = strayed /\ misled' = misled
           /\ up' \in Seq(Requests) /\ Len(up') <= MaxUp
           /\ up = <<r>> => up' = <<>>
<1>1. /\ Typed /\ connected /\ connecting = "none" /\ up # <<>> /\ Head(up) = r /\ up' = Tail(up)
      /\ scene' = scene /\ view' = view /\ connected' = connected /\ connecting' = connecting
      /\ strayed' = strayed /\ misled' = misled
    BY DEF Inv, Offline, Dialing, Take, clientVars
<1>2. up' \in Seq(Requests) /\ Len(up') = Len(up) - 1 /\ Len(up) \in Nat \ {0}
    BY <1>1, HeadTailProperties, EmptySeq DEF Typed
<1>3. Len(up') <= MaxUp
    BY <1>1, <1>2, ChannelAssumption DEF Typed, TypeOK
<1> QED BY <1>1, <1>2, <1>3, RequestFacts

\* The request under way is the one the scene has sent, and the server has the
\* player where the scene had him when it sent it.
LEMMA Requested ==
    ASSUME Inv, connected, ~strayed, ~misled, NEW r \in Requests, up # <<>>, Head(up) = r
    PROVE  /\ up = <<r>>
           /\ \/ scene = "menu" /\ r = "leave_room" /\ place # "queued"
              \/ scene = "menu" /\ r = "cancel_queue" /\ place = "queued"
              \/ scene = "matchmaking" /\ r = "join_queue" /\ down = <<>> /\ place = "free"
              \/ scene = "create_room" /\ r = "create_room" /\ down = <<>> /\ place = "free"
              \/ scene = "lobby" /\ r = "join_room" /\ down = <<>> /\ place = "free"
              \/ scene \in {"create_room", "lobby"} /\ r = "start_room" /\ InRoomYet /\ host
              \/ scene = "lobby" /\ r = "start_room" /\ NoRoom
<1>1. Fits /\ TypeOK
    BY DEF Inv, Typed
<1>2. \A q \in Requests : up = <<q>> => q = r
    BY RequestFacts
<1>3. /\ \A A : ~Awaiting(A)
      /\ ~Early /\ ~InMatch
    BY DEF Awaiting, Early, InMatch
<1>4. /\ scene = "menu" => FitsMenu
      /\ scene = "matchmaking" => Asking("join_queue")
      /\ scene = "create_room" => Asking("create_room") \/ (InRoomYet /\ host)
      /\ scene = "lobby" => Asking("join_room") \/ InRoomYet \/ NoRoom
      /\ scene \in {"menu", "matchmaking", "create_room", "lobby"}
    BY <1>1, <1>3 DEF Fits, FitsMatchmaking, FitsCreateRoom, FitsLobby, FitsResults, TypeOK
<1>5. FitsMenu =>
        /\ up = <<r>>
        /\ (r = "leave_room" /\ place # "queued") \/ (r = "cancel_queue" /\ place = "queued")
    BY <1>2 DEF FitsMenu, Requests
<1>6. \A q \in Requests : Asking(q) => up = <<r>> /\ q = r /\ down = <<>> /\ place = "free"
    BY <1>2 DEF Asking
<1>7. InRoomYet => up = <<r>> /\ r = "start_room" /\ host
    BY <1>2 DEF InRoomYet, Requests
<1>8. NoRoom => up = <<r>> /\ r = "start_room"
    BY <1>2 DEF NoRoom, Requests
<1> QED BY <1>4, <1>5, <1>6, <1>7, <1>8 DEF Requests

\* The messages that a room starts are the first of its match.
LEMMA Begins ==
    ASSUME NEW entries, place' = "starting", up' = <<>>,
           Range(down') \subseteq RoomStates \cup {"match_found"},
           entries \cap Range(down') # {}
    PROVE  Awaiting(entries)'
<1>1. "match_start" \notin Range(down') /\ "match_end" \notin Range(down')
    BY DEF RoomStates
<1>2. /\ Once(down', "match_end")
      /\ Before(down', {"match_start"}, "match_end")
      /\ Before(down', entries, "match_start")
    BY <1>1, AbsentFacts
<1>3. InMatch'
    BY <1>2 DEF InMatch, Begun, Over, Sent, RoomStates
<1> QED BY <1>2, <1>3 DEF Awaiting, Early, Coming

\* An error message of the server; it is told in a room that is not there.
LEMMA RefuseFacts ==
    ASSUME Typed, Refuse
    PROVE  /\ place' = place /\ host' = host /\ counting' = counting
           /\ down' \in Seq(Messages) /\ Len(down') <= MaxDown
           /\ Range(down') = Range(down) \cup {"error"}
<1>1. "error" \in Messages
    BY DEF Messages
<1>2. down' = Append(down, "error") /\ Len(down') <= MaxDown
    BY <1>1, Told DEF Refuse, Typed, TypeOK
<1>3. place' = place /\ host' = host /\ counting' = counting
    BY DEF Refuse, serverVars
<1> QED BY <1>1, <1>2, <1>3, OneMoreFacts DEF Typed

\* The player moves and one message tells him.
LEMMA MoveFacts ==
    ASSUME Typed, NEW to \in {"free", "queued", "waiting", "starting", "running", "finished"},
           NEW isHost \in BOOLEAN, NEW m \in Messages, Move(to, isHost, <<m>>)
    PROVE  /\ place' = to /\ host' = isHost /\ host' \in BOOLEAN
           /\ down' \in Seq(Messages) /\ down' # <<>> /\ Len(down') <= MaxDown
           /\ Range(down') = Range(down) \cup {m} /\ down'[Len(down')] = m
           /\ \A A, b : Before(down, A, b) /\ (m = b => A \cap Range(down) # {}) => Before(down', A, b)
           /\ \A c : Once(down, c) /\ (m = c => c \notin Range(down)) => Once(down', c)
<1>1. /\ place' = to /\ host' = isHost
      /\ down' = Append(down, m) /\ Len(down') <= MaxDown
    BY Told DEF Move, Typed, TypeOK
<1> QED BY <1>1, OneMoreFacts DEF Typed

\* The player moves and is told nothing.
LEMMA QuietMove ==
    ASSUME Typed, NEW to, NEW isHost, Move(to, isHost, <<>>)
    PROVE  place' = to /\ host' = isHost /\ down' = down
    BY Told DEF Move, Typed, TypeOK

\* The player moves, is told only of a leave, and is misled from now on.
LEMMA PassedOverFacts ==
    ASSUME Typed, NEW to \in {"free", "queued", "waiting", "starting", "running", "finished"},
           NEW state, PassedOver(to, state)
    PROVE  /\ place' = to /\ host' \in BOOLEAN /\ misled' = TRUE
           /\ down' \in Seq(Messages) /\ Len(down') <= MaxDown
<1>1. PICK isHost \in BOOLEAN : Move(to, isHost, <<RoomState(state, isHost)>>)
    BY DEF PassedOver
<1> DEFINE m == RoomState(state, isHost)
<1>2. m \in Messages /\ Move(to, isHost, <<m>>)
    BY <1>1, RoomStateFacts DEF Messages
<1> HIDE DEF m
<1>3. place' = to /\ host' \in BOOLEAN /\ down' \in Seq(Messages) /\ Len(down') <= MaxDown
    BY <1>2, MoveFacts
<1> QED BY <1>3 DEF PassedOver

LEMMA HandleJoinQueueKeeps ==
    ASSUME Inv, HandleJoinQueue, late' = late
    PROVE  Inv'
<1> DEFINE r == "join_queue"
<1>1. r \in Requests /\ Take(r) /\ Typed
    BY DEF Requests, HandleJoinQueue, Inv
<1>2. \/ InRoom /\ Refuse
      \/ ~InRoom /\ place' = "queued" /\ host' = FALSE /\ down' = down /\ counting' = counting
    BY <1>1, QuietMove DEF HandleJoinQueue
<1>3. Typed'
    BY ZenonT(60), <1>1, <1>2, TakeFacts, RefuseFacts DEF Typed, TypeOK
<1>4. Offline' /\ Dialing'
    BY <1>1, TakeFacts DEF Offline, Dialing
<1>5. ASSUME ~strayed', ~misled'
      PROVE  Fits'
    <2>1. up = <<r>> /\ scene = "matchmaking" /\ down = <<>> /\ place = "free"
        BY <1>1, <1>5, TakeFacts, Requested
    <2> QED BY <1>1, <1>2, <2>1, TakeFacts DEF InRoom, Fits, FitsMatchmaking
<1> QED BY <1>3, <1>4, <1>5 DEF Inv

LEMMA HandleCancelQueueKeeps ==
    ASSUME Inv, HandleCancelQueue, late' = late
    PROVE  Inv'
<1> DEFINE r == "cancel_queue"
<1>1. r \in Requests /\ Take(r) /\ Typed
    BY DEF Requests, HandleCancelQueue, Inv
<1>2. /\ place' = IF place = "queued" THEN "free" ELSE place
      /\ host' = host /\ down' = down /\ counting' = counting
    BY DEF HandleCancelQueue
<1>3. Typed'
    BY <1>1, <1>2, TakeFacts DEF Typed, TypeOK
<1>4. Offline' /\ Dialing'
    BY <1>1, TakeFacts DEF Offline, Dialing
<1>5. ASSUME ~strayed', ~misled'
      PROVE  Fits'
    <2>1. up = <<r>> /\ scene = "menu" /\ place = "queued"
        BY <1>1, <1>5, TakeFacts, Requested
    <2> QED BY <1>1, <1>2, <2>1, TakeFacts DEF Fits, FitsMenu
<1> QED BY <1>3, <1>4, <1>5 DEF Inv

LEMMA HandleLeaveRoomKeeps ==
    ASSUME Inv, HandleLeaveRoom
    PROVE  Inv'
<1> DEFINE r == "leave_room"
<1>1. r \in Requests /\ Take(r) /\ Typed
    BY DEF Requests, HandleLeaveRoom, Inv
<1>2. /\ place' = IF InRoom THEN "free" ELSE place
      /\ host' = FALSE /\ down' = down /\ counting' = counting /\ late' \in BOOLEAN
    BY <1>1 DEF HandleLeaveRoom, Typed, TypeOK
<1>3. Typed'
    BY <1>1, <1>2, TakeFacts DEF Typed, TypeOK
<1>4. Offline' /\ Dialing'
    BY <1>1, TakeFacts DEF Offline, Dialing
<1>5. ASSUME ~strayed', ~misled'
      PROVE  Fits'
    <2>1. up = <<r>> /\ scene = "menu" /\ place # "queued"
        BY <1>1, <1>5, TakeFacts, Requested
    <2>2. place' = "free"
        BY <1>1, <1>2, <2>1 DEF InRoom, Typed, TypeOK
    <2> QED BY <1>1, <2>1, <2>2, TakeFacts DEF Fits, FitsMenu
<1> QED BY <1>3, <1>4, <1>5 DEF Inv

LEMMA HandleCreateRoomKeeps ==
    ASSUME Inv, HandleCreateRoom, late' = late
    PROVE  Inv'
<1> DEFINE r == "create_room"
<1>1. r \in Requests /\ Take(r) /\ Typed /\ "startable" \in Messages
    BY DEF Requests, HandleCreateRoom, Inv, Messages, RoomStates
<1>2. \/ InRoom /\ Refuse
      \/ ~InRoom /\ Move("waiting", TRUE, <<"startable">>) /\ counting' = counting
    BY RoomStateFacts DEF HandleCreateRoom
<1>3. Typed'
    <2>1. /\ place' \in {"free", "queued", "waiting", "starting", "running", "finished"}
          /\ host' \in BOOLEAN /\ counting' \in BOOLEAN
          /\ down' \in Seq(Messages) /\ Len(down') <= MaxDown
        <3>1. CASE Refuse
            BY <1>1, <3>1, RefuseFacts DEF Typed, TypeOK
        <3>2. CASE Move("waiting", TRUE, <<"startable">>) /\ counting' = counting
            BY <1>1, <3>2, MoveFacts DEF Typed, TypeOK
        <3> QED BY <1>2, <3>1, <3>2
    <2> QED BY <1>1, <2>1, TakeFacts DEF Typed, TypeOK
<1>4. Offline' /\ Dialing'
    BY <1>1, TakeFacts DEF Offline, Dialing
<1>5. ASSUME ~strayed', ~misled'
      PROVE  Fits'
    <2>1. up = <<r>> /\ scene = "create_room" /\ down = <<>> /\ place = "free"
        BY <1>1, <1>5, TakeFacts, Requested
    <2>2. /\ place' = "waiting" /\ host' = TRUE /\ up' = <<>> /\ down' # <<>>
          /\ Range(down') = {"startable"} /\ down'[Len(down')] = "startable"
        BY <1>1, <1>2, <2>1, TakeFacts, MoveFacts, NothingUnderWay DEF InRoom
    <2>3. InRoomYet'
        BY <2>2, RoomStateFacts DEF InRoomYet, ViewFits, RoomState
    <2> QED BY <1>1, <2>1, <2>2, <2>3, TakeFacts DEF Fits, FitsCreateRoom
<1> QED BY <1>3, <1>4, <1>5 DEF Inv

LEMMA HandleJoinRoomKeeps ==
    ASSUME Inv, HandleJoinRoom, late' = late
    PROVE  Inv'
<1> DEFINE r == "join_room"
<1>1. r \in Requests /\ Take(r) /\ Typed /\ {"locked", "error"} \subseteq Messages
    BY DEF Requests, HandleJoinRoom, Inv, Messages, RoomStates
<1>2. \/ InRoom /\ Refuse
      \/ ~InRoom /\ Move("waiting", FALSE, <<"locked">>) /\ counting' = counting
      \/ ~InRoom /\ Move("free", FALSE, <<"error">>) /\ counting' = counting
    BY RoomStateFacts DEF HandleJoinRoom
<1>3. Typed'
    <2>1. /\ place' \in {"free", "queued", "waiting", "starting", "running", "finished"}
          /\ host' \in BOOLEAN /\ counting' \in BOOLEAN
          /\ down' \in Seq(Messages) /\ Len(down') <= MaxDown
        <3>1. CASE Refuse
            BY <1>1, <3>1, RefuseFacts DEF Typed, TypeOK
        <3>2. CASE Move("waiting", FALSE, <<"locked">>) /\ counting' = counting
            BY <1>1, <3>2, MoveFacts DEF Typed, TypeOK
        <3>3. CASE Move("free", FALSE, <<"error">>) /\ counting' = counting
            BY <1>1, <3>3, MoveFacts DEF Typed, TypeOK
        <3> QED BY <1>2, <3>1, <3>2, <3>3
    <2> QED BY <1>1, <2>1, TakeFacts DEF Typed, TypeOK
<1>4. Offline' /\ Dialing'
    BY <1>1, TakeFacts DEF Offline, Dialing
<1>5. ASSUME ~strayed', ~misled'
      PROVE  Fits'
    <2>1. up = <<r>> /\ scene = "lobby" /\ down = <<>> /\ place = "free"
        BY <1>1, <1>5, TakeFacts, Requested
    <2>2. CASE Move("waiting", FALSE, <<"locked">>)
        <3>1. /\ place' = "waiting" /\ host' = FALSE /\ up' = <<>> /\ down' # <<>>
              /\ Range(down') = {"locked"} /\ down'[Len(down')] = "locked"
            BY <1>1, <2>1, <2>2, TakeFacts, MoveFacts, NothingUnderWay
        <3>2. InRoomYet'
            BY <3>1, RoomStateFacts DEF InRoomYet, ViewFits, RoomState
        <3> QED BY <1>1, <2>1, <3>2, TakeFacts DEF Fits, FitsLobby
    <2>3. CASE Move("free", FALSE, <<"error">>)
        <3>1. place' = "free" /\ up' = <<>> /\ Range(down') = {"error"}
            BY <1>1, <2>1, <2>3, TakeFacts, MoveFacts, NothingUnderWay
        <3>2. NoRoom'
            BY <3>1 DEF NoRoom
        <3> QED BY <1>1, <2>1, <3>2, TakeFacts DEF Fits, FitsLobby
    <2> QED BY <1>2, <2>1, <2>2, <2>3 DEF InRoom
<1> QED BY <1>3, <1>4, <1>5 DEF Inv

LEMMA HandleStartRoomKeeps ==
    ASSUME Inv, HandleStartRoom, late' = late
    PROVE  Inv'
<1> DEFINE r == "start_room"
<1>1. /\ r \in Requests /\ Take(r) /\ Typed /\ {"starting", "match_found"} \subseteq Messages
      /\ host \in BOOLEAN
    BY DEF Requests, HandleStartRoom, Inv, Typed, TypeOK, Messages, RoomStates
<1>2. \/ /\ place = "waiting" /\ host
         /\ Move("starting", TRUE, <<"starting", "match_found">>) /\ counting' = TRUE
      \/ ~(place = "waiting" /\ host) /\ Refuse
    BY RoomStateFacts DEF HandleStartRoom
<1>3. ASSUME Move("starting", TRUE, <<"starting", "match_found">>)
      PROVE  /\ place' = "starting" /\ host' = TRUE /\ down' \in Seq(Messages) /\ Len(down') <= MaxDown
             /\ Range(down') = Range(down) \cup {"starting", "match_found"}
    <2>1. /\ place' = "starting" /\ host' = TRUE /\ Len(down') <= MaxDown
          /\ down' = Append(Append(down, "starting"), "match_found")
        BY <1>1, <1>3, Told DEF Move, Typed, TypeOK
    <2>2. /\ Append(down, "starting") \in Seq(Messages)
          /\ Range(Append(down, "starting")) = Range(down) \cup {"starting"}
        BY <1>1, OneMoreFacts DEF Typed
    <2>3. down' \in Seq(Messages) /\ Range(down') = Range(Append(down, "starting")) \cup {"match_found"}
        BY <1>1, <2>1, <2>2, OneMoreFacts
    <2> QED BY <2>1, <2>2, <2>3
<1>4. Typed'
    <2>1. /\ place' \in {"free", "queued", "waiting", "starting", "running", "finished"}
          /\ host' \in BOOLEAN /\ counting' \in BOOLEAN
          /\ down' \in Seq(Messages) /\ Len(down') <= MaxDown
        <3>1. CASE Refuse
            BY <1>1, <3>1, RefuseFacts DEF Typed, TypeOK
        <3>2. CASE Move("starting", TRUE, <<"starting", "match_found">>) /\ counting' = TRUE
            BY <1>3, <3>2
        <3> QED BY <1>2, <3>1, <3>2
    <2> QED BY <1>1, <2>1, TakeFacts DEF Typed, TypeOK
<1>5. Offline' /\ Dialing'
    BY <1>1, TakeFacts DEF Offline, Dialing
<1>6. ASSUME ~strayed', ~misled'
      PROVE  Fits'
    <2>1. /\ up = <<r>> /\ up' = <<>> /\ scene' = scene
          /\ \/ scene \in {"create_room", "lobby"} /\ InRoomYet /\ host
             \/ scene = "lobby" /\ NoRoom
        BY <1>1, <1>6, TakeFacts, Requested
    <2>2. CASE InRoomYet /\ host
        <3>1. /\ place' = "starting"
              /\ Range(down') \subseteq RoomStates \cup {"match_found"}
              /\ "starting" \in Range(down')
            BY <1>2, <1>3, <2>2 DEF InRoomYet, RoomStates
        <3>2. Awaiting({"starting"})' /\ Awaiting({"starting", "match_found"})'
            BY <2>1, <3>1, Begins
        <3> QED BY <2>1, <3>2 DEF Fits, FitsCreateRoom, FitsLobby
    <2>3. CASE scene = "lobby" /\ NoRoom
        <3>1. NoRoom'
            BY <1>1, <1>2, <2>1, <2>3, RefuseFacts DEF NoRoom
        <3> QED BY <2>1, <2>3, <3>1 DEF Fits, FitsLobby
    <2> QED BY <2>1, <2>2, <2>3
<1> QED BY <1>4, <1>5, <1>6 DEF Inv

-----------------------------------------------------------------------------

(* So do the steps of a match *)

\* One more message behind the others keeps what is known of a match, when it
\* is neither its start nor its end.
LEMMA MatchGoesOn ==
    ASSUME Typed, up' = up, scene' = scene, place' = place,
           NEW m \in RoomStates,
           Range(down') = Range(down) \cup {m},
           \A A, b : Before(down, A, b) /\ (m = b => A \cap Range(down) # {}) => Before(down', A, b),
           \A c : Once(down, c) /\ (m = c => c \notin Range(down)) => Once(down', c)
    PROVE  /\ InMatch => InMatch'
           /\ Early => Early'
           /\ \A A : Awaiting(A) => Awaiting(A)'
           /\ FitsResults => FitsResults'
<1>1. m # "match_start" /\ m # "match_end" /\ m \in Sent
    BY DEF RoomStates, Sent
<1>2. (Over <=> Over') /\ (Begun <=> Begun') /\ Sent' = Sent
    BY DEF Over, Begun, Sent
<1>3. \A c : Coming(c) => Coming(c)'
    BY DEF Coming
<1>4. InMatch => InMatch'
    BY <1>1, <1>2, <1>3 DEF InMatch
<1>5. Early => Early'
    BY <1>1, <1>3, <1>4 DEF Early
<1>6. \A A : Awaiting(A) => Awaiting(A)'
    BY <1>1, <1>3, <1>5 DEF Awaiting
<1>7. ~Coming("match_end") => ~Coming("match_end")'
    BY <1>1 DEF Coming
<1> QED BY <1>2, <1>4, <1>5, <1>6, <1>7 DEF FitsResults

\* The start behind the others.
LEMMA MatchStarts ==
    ASSUME Typed, up' = up, scene' = scene, place = "starting", place' = "running",
           Range(down') = Range(down) \cup {"match_start"},
           \A A, b : Before(down, A, b) /\ ("match_start" = b => A \cap Range(down) # {}) =>
                        Before(down', A, b),
           \A c : Once(down, c) /\ ("match_start" = c => c \notin Range(down)) => Once(down', c)
    PROVE  /\ Early => Early'
           /\ \A A : Awaiting(A) => Awaiting(A)'
<1>1. /\ Begun' /\ ~Over' /\ Sent \cup {"match_start"} \subseteq Sent'
      /\ Coming("match_start")'
    BY DEF Begun, Over, Sent, Coming
<1>2. Early => Early'
    BY <1>1 DEF Early, InMatch
<1>3. ASSUME NEW A, Awaiting(A)
      PROVE  Awaiting(A)'
    <2>1. A \cap Range(down) # {} /\ (\E e \in A : Coming(e)')
        BY <1>3 DEF Awaiting, Coming
    <2>2. Before(down', A, "match_start")
        BY <1>3, <2>1 DEF Awaiting
    <2> QED BY <1>2, <1>3, <2>1, <2>2 DEF Awaiting
<1> QED BY <1>2, <1>3

\* The end behind the others, the only one.
LEMMA MatchStops ==
    ASSUME Typed, up' = up, scene' = scene, place = "running", place' = "finished",
           Range(down') = Range(down) \cup {"match_end"},
           \A A, b : Before(down, A, b) /\ ("match_end" = b => A \cap Range(down) # {}) =>
                        Before(down', A, b),
           \A c : Once(down, c) /\ ("match_end" = c => c \notin Range(down)) => Once(down', c)
    PROVE  /\ InMatch => InMatch'
           /\ Early => Early'
           /\ \A A : Awaiting(A) => Awaiting(A)'
<1>1. /\ Begun' /\ Sent \cup {"match_end"} \subseteq Sent' /\ "match_end" \notin Sent
      /\ Coming("match_end")' /\ \A c : Coming(c) => Coming(c)'
    BY DEF Begun, Over, Sent, Coming, RoomStates
<1>2. InMatch => InMatch'
    BY <1>1 DEF InMatch
<1>3. ASSUME Early
      PROVE  Early'
    <2>1. "match_start" \in Range(down)
        BY <1>3 DEF Early, Coming
    <2>2. Before(down', {"match_start"}, "match_end")
        BY <1>3, <2>1 DEF Early
    <2> QED BY <1>1, <1>2, <1>3, <2>2 DEF Early
<1>4. \A A : Awaiting(A) => Awaiting(A)'
    BY <1>1, <1>3 DEF Awaiting
<1> QED BY <1>2, <1>3, <1>4

LEMMA MatchMadeKeeps ==
    ASSUME Inv, MatchMade
    PROVE  Inv'
<1>1. /\ Typed /\ connected /\ connecting = "none" /\ place = "queued" /\ "match_found" \in Messages
    BY DEF Inv, Offline, Dialing, MatchMade, Messages
<1>2. /\ scene' = scene /\ view' = view /\ connected' = connected /\ connecting' = connecting
      /\ up' = up /\ counting' = counting /\ strayed' = (strayed \/ up # <<>>)
      /\ late' = late
    BY DEF MatchMade, clientVars
<1>3. \/ misled' = misled /\ \E first \in BOOLEAN : Move("starting", first, <<"match_found">>)
      \/ misled' = TRUE /\ PassedOver("starting", "starting")
    BY DEF MatchMade, PassedOver
<1>4. Typed'
    <2>1. /\ place' = "starting" /\ host' \in BOOLEAN /\ misled' \in BOOLEAN
          /\ down' \in Seq(Messages) /\ Len(down') <= MaxDown
        BY <1>1, <1>3, MoveFacts, PassedOverFacts DEF Typed, TypeOK
    <2> QED BY <1>1, <1>2, <2>1 DEF Typed, TypeOK
<1>5. Offline' /\ Dialing'
    BY <1>1, <1>2 DEF Offline, Dialing
<1>6. ASSUME ~strayed', ~misled'
      PROVE  Fits'
    <2>1. Fits /\ up = <<>>
        BY <1>1, <1>2, <1>3, <1>6 DEF Inv
    <2>2. scene = "matchmaking" /\ down = <<>>
        <3>1. \A r \in Requests : up # <<r>>
            BY <2>1, RequestFacts
        <3>2. ~InMatch /\ ~Early /\ ~InRoomYet /\ ~NoRoom /\ \A A : ~Awaiting(A)
            BY <1>1 DEF Awaiting, Early, InMatch, Begun, InRoomYet, NoRoom
        <3>3. \A r \in Requests : ~Asking(r)
            BY <3>1 DEF Asking
        <3> QED BY <1>1, <2>1, <3>1, <3>2, <3>3
                DEF Fits, FitsMenu, FitsMatchmaking, FitsCreateRoom, FitsLobby, FitsResults, Requests,
                    Typed, TypeOK
    <2>3. place' = "starting" /\ Range(down') = {"match_found"}
        <3>1. PICK first \in BOOLEAN : Move("starting", first, <<"match_found">>)
            BY <1>3, <1>6
        <3> QED BY <1>1, <2>2, <3>1, MoveFacts, NothingUnderWay
    <2>4. Awaiting({"match_found"})'
        BY <1>2, <2>1, <2>3, Begins
    <2> QED BY <1>2, <2>2, <2>4 DEF Fits, FitsMatchmaking
<1> QED BY <1>4, <1>5, <1>6 DEF Inv

LEMMA HostStartsKeeps ==
    ASSUME Inv, HostStarts
    PROVE  Inv'
<1>1. /\ Typed /\ connected /\ connecting = "none" /\ place = "waiting" /\ ~host
      /\ {"starting", "match_found"} \subseteq Messages
    BY DEF Inv, Offline, Dialing, HostStarts, Messages, RoomStates
<1>2. /\ scene' = scene /\ view' = view /\ connected' = connected /\ connecting' = connecting
      /\ up' = up /\ counting' = counting /\ strayed' = strayed
      /\ late' = late /\ misled' = misled
    BY DEF HostStarts, clientVars
<1>3. /\ place' = "starting" /\ host' = FALSE /\ down' \in Seq(Messages) /\ Len(down') <= MaxDown
      /\ Range(down) \cup {"starting"} \subseteq Range(down')
      /\ Range(down') \subseteq Range(down) \cup {"starting", "match_found"}
    <2>1. /\ Append(down, "starting") \in Seq(Messages)
          /\ Range(Append(down, "starting")) = Range(down) \cup {"starting"}
        BY <1>1, OneMoreFacts DEF Typed
    <2>2. \/ Move("starting", FALSE, <<"starting", "match_found">>)
          \/ Move("starting", FALSE, <<"starting">>)
        BY RoomStateFacts DEF HostStarts
    <2>4. CASE Move("starting", FALSE, <<"starting", "match_found">>)
        <3>1. /\ place' = "starting" /\ host' = FALSE /\ Len(down') <= MaxDown
              /\ down' = Append(Append(down, "starting"), "match_found")
            BY <1>1, <2>4, Told DEF Move, Typed, TypeOK
        <3>2. down' \in Seq(Messages) /\ Range(down') = Range(Append(down, "starting")) \cup {"match_found"}
            BY <1>1, <2>1, <3>1, OneMoreFacts
        <3> QED BY <2>1, <3>1, <3>2
    <2>5. CASE Move("starting", FALSE, <<"starting">>)
        BY <1>1, <2>5, MoveFacts
    <2> QED BY <2>2, <2>4, <2>5
<1>4. Typed'
    BY <1>1, <1>2, <1>3 DEF Typed, TypeOK
<1>5. Offline' /\ Dialing'
    BY <1>1, <1>2 DEF Offline, Dialing
<1>6. ASSUME ~strayed', ~misled'
      PROVE  Fits'
    <2>1. Fits
        BY <1>1, <1>2, <1>6 DEF Inv
    <2>2. ~InMatch /\ ~Early /\ ~NoRoom /\ (\A A : ~Awaiting(A)) /\ \A r \in Requests : ~Asking(r)
        BY <1>1 DEF Awaiting, Early, InMatch, Begun, NoRoom, Asking
    <2>3. (scene = "menu" /\ FitsMenu) \/ (scene = "lobby" /\ InRoomYet)
        BY <1>1, <2>1, <2>2
           DEF Fits, FitsMatchmaking, FitsCreateRoom, FitsLobby, FitsResults, Requests, Typed, TypeOK
    <2>4. CASE scene = "menu" /\ FitsMenu
        BY <1>1, <1>2, <1>3, <2>4 DEF Fits, FitsMenu
    <2>5. CASE scene = "lobby" /\ InRoomYet
        <3>1. up' = <<>> /\ Range(down') \subseteq RoomStates \cup {"match_found"}
            BY <1>1, <1>2, <1>3, <2>5 DEF InRoomYet, RoomStates
        <3>2. Awaiting({"starting", "match_found"})'
            BY <1>3, <3>1, Begins
        <3> QED BY <1>2, <2>5, <3>2 DEF Fits, FitsLobby
    <2> QED BY <2>3, <2>4, <2>5
<1> QED BY <1>4, <1>5, <1>6 DEF Inv

\* The last state of the room counts; the host stays the host.
LEMMA OthersMoveKeeps ==
    ASSUME Inv, OthersMove
    PROVE  Inv'
<1>1. /\ Typed /\ connected /\ connecting = "none" /\ InRoom
      /\ place \in {"free", "queued", "waiting", "starting", "running", "finished"}
      /\ host \in BOOLEAN
    BY DEF Inv, Offline, Dialing, OthersMove, InRoom, Typed, TypeOK
<1>2. /\ scene' = scene /\ view' = view /\ connected' = connected /\ connecting' = connecting
      /\ up' = up /\ counting' = counting /\ strayed' = strayed
      /\ late' = late /\ misled' = misled
    BY DEF OthersMove, clientVars
<1>3. PICK isHost \in {host, TRUE} : Move(place, isHost, <<RoomState(place, isHost)>>)
    BY DEF OthersMove
<1> DEFINE m == RoomState(place, isHost)
<1>4. m \in RoomStates /\ m \in Messages /\ isHost \in BOOLEAN
    BY <1>1, RoomStateFacts DEF Messages
<1>5. place = "waiting" => m = IF isHost THEN "startable" ELSE "locked"
    BY <1>1, <1>4, RoomStateFacts
<1>6. Move(place, isHost, <<m>>)
    BY <1>3
<1> HIDE DEF m
<1>7. /\ place' = place /\ host' = isHost
      /\ down' \in Seq(Messages) /\ down' # <<>> /\ Len(down') <= MaxDown
      /\ Range(down') = Range(down) \cup {m} /\ down'[Len(down')] = m
      /\ \A A, b : Before(down, A, b) /\ (m = b => A \cap Range(down) # {}) => Before(down', A, b)
      /\ \A c : Once(down, c) /\ (m = c => c \notin Range(down)) => Once(down', c)
    BY <1>1, <1>4, <1>6, MoveFacts
<1>8. Typed'
    BY <1>1, <1>2, <1>4, <1>7 DEF Typed, TypeOK
<1>9. Offline' /\ Dialing'
    BY <1>1, <1>2 DEF Offline, Dialing
<1>10. ASSUME ~strayed', ~misled'
       PROVE  Fits'
    <2>1. Fits
        BY <1>1, <1>2, <1>10 DEF Inv
    <2>2. /\ InMatch => InMatch'
          /\ Early => Early'
          /\ \A A : Awaiting(A) => Awaiting(A)'
          /\ FitsResults => FitsResults'
        BY <1>1, <1>2, <1>4, <1>7, MatchGoesOn
    <2>3. InRoomYet => InRoomYet' /\ (host => host')
        <3> SUFFICES ASSUME InRoomYet PROVE InRoomYet' /\ (host => host')
            OBVIOUS
        <3>1. place = "waiting" /\ m \in {"startable", "locked"} /\ (host => isHost)
            BY <1>3, <1>4, <1>5 DEF InRoomYet
        <3>2. ViewFits'
            BY <1>4, <1>5, <1>7, <3>1, RoomStateFacts DEF ViewFits, RoomState
        <3> QED BY <1>2, <1>7, <3>1, <3>2 DEF InRoomYet
    <2>4. ~NoRoom /\ \A r \in Requests : ~Asking(r)
        BY <1>1 DEF InRoom, NoRoom, Asking
    <2>5. FitsMenu => FitsMenu'
        BY <1>2, <1>7 DEF FitsMenu
    <2> QED BY <1>1, <1>2, <1>7, <2>1, <2>2, <2>3, <2>4, <2>5
            DEF Fits, FitsMatchmaking, FitsCreateRoom, FitsLobby, Asking, InRoom, Requests
<1> QED BY <1>8, <1>9, <1>10 DEF Inv

LEMMA CountdownEndsKeeps ==
    ASSUME Inv, CountdownEnds
    PROVE  Inv'
<1>1. /\ Typed /\ connected /\ connecting = "none" /\ place = "starting"
      /\ host \in BOOLEAN /\ "match_start" \in Messages
    BY DEF Inv, Offline, Dialing, CountdownEnds, Typed, TypeOK, Messages
<1>2. /\ scene' = scene /\ view' = view /\ connected' = connected /\ connecting' = connecting
      /\ up' = up /\ counting' = FALSE /\ strayed' = strayed
      /\ late' = late
    BY DEF CountdownEnds, clientVars
<1>M. \/ misled' = misled /\ Move("running", host, <<"match_start">>)
      \/ misled' = TRUE /\ PassedOver("running", "starting")
    BY DEF CountdownEnds, PassedOver
<1>3. Typed'
    <2>1. /\ place' = "running" /\ host' \in BOOLEAN /\ misled' \in BOOLEAN
          /\ down' \in Seq(Messages) /\ Len(down') <= MaxDown
        BY <1>1, <1>M, MoveFacts, PassedOverFacts DEF Typed, TypeOK
    <2> QED BY <1>1, <1>2, <2>1 DEF Typed, TypeOK
<1>4. Offline' /\ Dialing'
    BY <1>1, <1>2 DEF Offline, Dialing
<1>5. ASSUME ~strayed', ~misled'
      PROVE  Fits'
    <2>M. Move("running", host, <<"match_start">>) /\ ~misled
        BY <1>5, <1>M
    <2>1. Fits
        BY <1>1, <1>2, <1>5, <2>M DEF Inv
    <2>2. Early => Early'
        BY <1>1, <1>2, <2>M, MoveFacts, MatchStarts
    <2>3. \A A : Awaiting(A) => Awaiting(A)'
        BY <1>1, <1>2, <2>M, MoveFacts, MatchStarts
    <2>4. ~NoRoom /\ ~InRoomYet /\ ~FitsResults /\ \A r \in Requests : ~Asking(r)
        BY <1>1 DEF NoRoom, Asking, InRoomYet, FitsResults, Over
    <2>5. FitsMenu => FitsMenu' /\ place' = "running"
        BY <1>1, <1>2, <2>M, MoveFacts DEF FitsMenu
    <2> QED BY <1>1, <1>2, <2>1, <2>2, <2>3, <2>4, <2>5
            DEF Fits, FitsMatchmaking, FitsCreateRoom, FitsLobby, Requests
<1> QED BY <1>3, <1>4, <1>5 DEF Inv

LEMMA MatchEndsKeeps ==
    ASSUME Inv, MatchEnds
    PROVE  Inv'
<1>1. /\ Typed /\ connected /\ connecting = "none" /\ place = "running"
      /\ host \in BOOLEAN /\ "match_end" \in Messages
    BY DEF Inv, Offline, Dialing, MatchEnds, Typed, TypeOK, Messages
<1>2. /\ scene' = scene /\ view' = view /\ connected' = connected /\ connecting' = connecting
      /\ up' = up /\ counting' = counting /\ strayed' = strayed
      /\ late' = late
    BY DEF MatchEnds, clientVars
<1>M. \/ misled' = misled /\ Move("finished", host, <<"match_end">>)
      \/ misled' = TRUE /\ PassedOver("finished", "finished")
    BY DEF MatchEnds, PassedOver
<1>3. Typed'
    <2>1. /\ place' = "finished" /\ host' \in BOOLEAN /\ misled' \in BOOLEAN
          /\ down' \in Seq(Messages) /\ Len(down') <= MaxDown
        BY <1>1, <1>M, MoveFacts, PassedOverFacts DEF Typed, TypeOK
    <2> QED BY <1>1, <1>2, <2>1 DEF Typed, TypeOK
<1>4. Offline' /\ Dialing'
    BY <1>1, <1>2 DEF Offline, Dialing
<1>5. ASSUME ~strayed', ~misled'
      PROVE  Fits'
    <2>M. Move("finished", host, <<"match_end">>) /\ ~misled
        BY <1>5, <1>M
    <2>1. Fits
        BY <1>1, <1>2, <1>5, <2>M DEF Inv
    <2>2. InMatch => InMatch' /\ place' # "starting"
        BY <1>1, <1>2, <2>M, MoveFacts, MatchStops
    <2>3. Early => Early'
        BY <1>1, <1>2, <2>M, MoveFacts, MatchStops
    <2>4. \A A : Awaiting(A) => Awaiting(A)'
        BY <1>1, <1>2, <2>M, MoveFacts, MatchStops
    <2>5. ~NoRoom /\ ~InRoomYet /\ ~FitsResults /\ \A r \in Requests : ~Asking(r)
        BY <1>1 DEF NoRoom, Asking, InRoomYet, FitsResults, Over
    <2>6. FitsMenu => FitsMenu'
        BY <1>1, <1>2, <2>M, MoveFacts DEF FitsMenu
    <2> QED BY <1>1, <1>2, <2>1, <2>2, <2>3, <2>4, <2>5, <2>6
            DEF Fits, FitsMatchmaking, FitsCreateRoom, FitsLobby, Requests
<1> QED BY <1>3, <1>4, <1>5 DEF Inv

\* The room lets go of its members: nothing changes for who is told of the end.
LEMMA RoomFinishedKeeps ==
    ASSUME Inv, RoomFinished
    PROVE  Inv'
<1>1. /\ Typed /\ connected /\ connecting = "none" /\ place = "finished"
    BY DEF Inv, Offline, Dialing, RoomFinished
<1>2. /\ scene' = scene /\ view' = view /\ connected' = connected /\ connecting' = connecting
      /\ up' = up /\ counting' = counting /\ strayed' = strayed
      /\ late' = late /\ misled' = misled
      /\ place' = "free" /\ host' = FALSE /\ down' = down
    BY <1>1, QuietMove DEF RoomFinished, clientVars
<1>3. Typed'
    BY <1>1, <1>2 DEF Typed, TypeOK
<1>4. Offline' /\ Dialing'
    BY <1>1, <1>2 DEF Offline, Dialing
<1>5. ASSUME ~strayed', ~misled'
      PROVE  Fits'
    <2>1. Fits
        BY <1>1, <1>2, <1>5 DEF Inv
    <2>2. Over /\ Over' /\ Begun /\ Begun' /\ Sent' = Sent
        BY <1>1, <1>2 DEF Over, Begun, Sent
    <2>3. InMatch => InMatch'
        BY <1>2, <2>2 DEF InMatch, Coming
    <2>4. Early => Early'
        BY <1>1, <1>2, <2>3 DEF Early, Coming
    <2>5. \A A : Awaiting(A) => Awaiting(A)'
        BY <1>2, <2>4 DEF Awaiting, Coming
    <2>6. FitsResults => FitsResults'
        BY <1>2, <2>2, <2>3 DEF FitsResults, Coming
    <2>7. ~NoRoom /\ ~InRoomYet /\ \A r \in Requests : ~Asking(r)
        BY <1>1 DEF NoRoom, Asking, InRoomYet
    <2>8. FitsMenu => FitsMenu'
        BY <1>1, <1>2 DEF FitsMenu
    <2> QED BY <1>1, <1>2, <2>1, <2>3, <2>4, <2>5, <2>6, <2>7, <2>8
            DEF Fits, FitsMatchmaking, FitsCreateRoom, FitsLobby, Requests
<1> QED BY <1>3, <1>4, <1>5 DEF Inv

\* The state of a room that the player has left misleads him.
LEMMA LateRoomStateKeeps ==
    ASSUME Inv, LateRoomState
    PROVE  Inv'
<1>1. /\ Typed /\ late /\ misled' = TRUE /\ late' = FALSE
      /\ scene' = scene /\ view' = view /\ connected' = connected /\ connecting' = connecting
      /\ up' = up /\ place' = place /\ host' = host /\ counting' = counting /\ strayed' = strayed
    BY DEF Inv, LateRoomState, clientVars, serverVars
<1>2. connected /\ connecting = "none"
    BY <1>1 DEF Inv, Offline, Dialing
<1>3. down' \in Seq(Messages) /\ Len(down') <= MaxDown
    <2>1. PICK state \in {"waiting", "starting"} : Tell(<<RoomState(state, FALSE)>>)
        BY DEF LateRoomState
    <2> DEFINE m == RoomState(state, FALSE)
    <2>2. m \in Messages /\ Tell(<<m>>)
        BY <2>1, RoomStateFacts DEF Messages
    <2> HIDE DEF m
    <2>3. down' = Append(down, m) /\ Len(down') <= MaxDown
        BY <1>1, <2>2, Told DEF Typed, TypeOK
    <2>4. down' \in Seq(Messages)
        BY <1>1, <2>2, <2>3, OneMoreFacts DEF Typed
    <2> QED BY <2>3, <2>4
<1>4. Typed'
    BY ZenonT(60), <1>1, <1>3 DEF Typed, TypeOK
<1>5. Offline' /\ Dialing'
    BY <1>1, <1>2 DEF Offline, Dialing
<1> QED BY <1>1, <1>4, <1>5 DEF Inv

-----------------------------------------------------------------------------

(* The theorems *)

LEMMA InitHolds == Init => Inv
<1> SUFFICES ASSUME Init PROVE Inv
    OBVIOUS
<1>1. up = <<>> /\ down = <<>> /\ up \in Seq(Requests) /\ down \in Seq(Messages)
    BY EmptySeq DEF Init
<1>2. Len(up) <= MaxUp /\ Len(down) <= MaxDown
    BY <1>1, EmptySeq, ChannelAssumption
<1>3. Typed
    BY <1>1, <1>2 DEF Init, Typed, TypeOK
<1> QED BY <1>1, <1>3 DEF Init, Inv, Offline, Dialing

LEMMA StutterKeeps ==
    ASSUME Inv, UNCHANGED vars
    PROVE  Inv'
<1>1. /\ scene' = scene /\ view' = view /\ connected' = connected /\ connecting' = connecting
      /\ up' = up /\ down' = down /\ place' = place /\ host' = host /\ counting' = counting
      /\ strayed' = strayed
      /\ late' = late /\ misled' = misled
    BY DEF vars, clientVars, serverVars
<1>2. Typed' /\ Offline' /\ Dialing'
    BY <1>1 DEF Inv, Typed, TypeOK, Offline, Dialing
<1>3. (InMatch => InMatch') /\ (InRoomYet => InRoomYet') /\ (NoRoom => NoRoom')
    BY <1>1 DEF InMatch, Begun, Sent, Over, Coming, InRoomYet, ViewFits, RoomState, NoRoom
<1>4. Early => Early'
    BY <1>1, <1>3 DEF Early, Coming
<1>5. \A A : Awaiting(A) => Awaiting(A)'
    BY <1>1, <1>4 DEF Awaiting, Coming
<1>6. Fits => Fits'
    BY <1>1, <1>3, <1>4, <1>5
       DEF Fits, FitsMenu, FitsMatchmaking, FitsCreateRoom, FitsLobby, FitsResults, Asking, Over, Coming
<1> QED BY <1>1, <1>2, <1>6 DEF Inv

LEMMA Invariance == Spec => []Inv
<1>1. Inv /\ [Next]_vars => Inv'
    <2> SUFFICES ASSUME Inv, [Next]_vars PROVE Inv'
        OBVIOUS
    <2>1. CASE User
        BY <2>1, PlayKeeps, CreateRoomKeeps, JoinRoomKeeps, CancelKeeps, StartRoomKeeps, LeaveRoomKeeps,
           ReturnKeeps, QuitKeeps DEF User
    <2>2. CASE Handle
        BY <2>2, HandleJoinQueueKeeps, HandleCancelQueueKeeps, HandleCreateRoomKeeps, HandleJoinRoomKeeps,
           HandleStartRoomKeeps, HandleLeaveRoomKeeps DEF Handle
    <2>3. CASE Match
        BY <2>3, MatchMadeKeeps, HostStartsKeeps, OthersMoveKeeps, LateRoomStateKeeps, CountdownEndsKeeps, MatchEndsKeeps,
           RoomFinishedKeeps DEF Match
    <2> QED BY <2>1, <2>2, <2>3, StutterKeeps, DeliverKeeps, ConnectedKeeps, ConnectFailsKeeps, LoseKeeps
            DEF Next
<1> QED BY InitHolds, <1>1, PTL DEF Spec

\* The channels keep to their bounds, also where a request is sent on connecting
\* without a test of the bound.
THEOREM ClientTypes == Spec => []TypeOK
<1>1. Inv => TypeOK
    BY DEF Inv, Typed
<1> QED BY Invariance, <1>1, PTL

\* The screen of a client with nothing under way is the one for the place the
\* server has its player in, as long as the server has neither passed him over nor
\* sent him the state of a room he had left: all other orders of messages, requests
\* and moves of the others fit.
THEOREM ScreenFits == Spec => []SceneFits
<1>1. Inv => SceneFits
    BY Settled DEF SceneFits, Quiet, Inv, Typed, TypeOK
<1> QED BY Invariance, <1>1, PTL

\* The start button is the host's, whoever came and left meanwhile, as long as the
\* server has neither passed the player over nor sent him the state of a room he
\* had left.
THEOREM ButtonIsTheHosts == Spec => [](~misled => StartOffered)
<1>1. Inv => (~misled => StartOffered)
    <2> SUFFICES ASSUME Inv, Quiet, ~strayed, ~misled, scene \in {"lobby", "create_room"},
                        place = "waiting"
                 PROVE  host <=> view = "startable"
        BY DEF StartOffered
    <2>1. view = RoomState("waiting", host) /\ host \in BOOLEAN
        BY Settled DEF Quiet, Inv, Typed, TypeOK
    <2> QED BY <2>1, RoomStateFacts
<1> QED BY Invariance, <1>1, PTL

\* A step of the connection is the arrival of a message, or the channel to the
\* client stays as it was or gets longer.
LEMMA OnlyDelivered ==
    ASSUME Inv, [Next]_vars, connected', connected, down # <<>>, down' = Tail(down)
    PROVE  Deliver
<1>1. Len(down) \in Nat \ {0} /\ Len(Tail(down)) = Len(down) - 1 /\ Typed
    BY RestFacts, EmptySeq DEF Inv, Typed
<1>2. down' # down
    <2> DEFINE t == Tail(down)
    <2>1. Len(t) = Len(down) - 1 /\ Len(down) \in Nat
        BY <1>1
    <2> HIDE DEF t
    <2>2. t # down
        BY <2>1
    <2> QED BY <2>2 DEF t
<1>3. ASSUME NEW messages \in Seq(Messages), Tell(messages)
      PROVE  FALSE
    <2>1. Len(down \o messages) = Len(down) + Len(messages) /\ Len(messages) \in Nat
        BY <1>1, <1>3, ConcatProperties, LenProperties DEF Typed
    <2>2. down' = down \o messages
        BY <1>3 DEF Tell
    <2> QED BY <1>1, <2>1, <2>2
<1>4. /\ <<>> \in Seq(Messages) /\ \A m \in Messages : <<m>> \in Seq(Messages)
      /\ \A m, n \in Messages : <<m, n>> \in Seq(Messages)
    OBVIOUS
<1>5. /\ \A state : \A isHost \in BOOLEAN : RoomState(state, isHost) \in Messages
      /\ {"error", "match_found", "match_start", "match_end"} \subseteq Messages
      /\ host \in BOOLEAN
    BY <1>1, RoomStateFacts DEF Messages, Typed, TypeOK
<1>6. ~Refuse /\ \A to, isHost : \A messages \in Seq(Messages) : ~Move(to, isHost, messages)
    BY <1>3, <1>4, <1>5 DEF Refuse, Move
<1>7. ~User
    BY <1>2 DEF User, Play, CreateRoom, JoinRoom, Cancel, StartRoom, LeaveRoom, Return, Quit, Click, Cut
<1>8. ~Connected /\ ~ConnectFails /\ ~Lose
    BY <1>2 DEF Connected, ConnectFails, Lose, Cut
<1>9. ~Handle
    BY <1>2, <1>4, <1>5, <1>6
       DEF Handle, HandleJoinQueue, HandleCancelQueue, HandleCreateRoom, HandleJoinRoom, HandleStartRoom,
           HandleLeaveRoom
<1>10. ~Match
    BY <1>2, <1>3, <1>4, <1>5, <1>6
       DEF Match, MatchMade, HostStarts, OthersMove, LateRoomState, PassedOver, CountdownEnds, MatchEnds,
           RoomFinished
<1> QED BY <1>2, <1>7, <1>8, <1>9, <1>10 DEF Next, vars

\* The end of a match that arrives while its room is being closed opens the
\* results, for a member who has not been passed over before: no scene before the
\* game is still waiting for it.
THEOREM ResultsAreShown == Spec => ResultsShown
<1> DEFINE Arrives == /\ connected' /\ up = <<>> /\ place = "finished" /\ ~strayed /\ ~misled
                      /\ down # <<>> /\ Head(down) = "match_end" /\ down' = Tail(down)
           Shows == Arrives => scene' = "results"
<1>1. Inv /\ [Next]_vars => [Shows]_vars
    <2> SUFFICES ASSUME Inv, [Next]_vars, Arrives PROVE scene' = "results"
        OBVIOUS
    <2>1. /\ Typed /\ connected /\ Fits
        BY DEF Inv, Offline
    <2>2. Deliver
        BY <2>1, OnlyDelivered
    <2>3. Dispatch("match_end") /\ "match_end" \in Messages /\ TypeOK /\ up' = up /\ place' = place
        BY <2>1, <2>2 DEF Deliver, Messages, Typed, serverVars
    <2>4. ~Early /\ ~FitsResults /\ \A A : ~Awaiting(A)
        BY <2>1, <2>3, RestOfMatch DEF Awaiting, FitsResults
    <2>5. ~InRoomYet /\ ~NoRoom /\ \A r \in Requests : ~Asking(r)
        BY DEF InRoomYet, NoRoom, Asking
    <2>6. scene = "gameplay"
        <3>1. \A r \in Requests : up # <<r>>
            BY RequestFacts
        <3> QED BY <2>1, <2>3, <2>4, <2>5, <3>1
                DEF Fits, FitsMenu, FitsMatchmaking, FitsCreateRoom, FitsLobby, Requests, TypeOK
    <2> QED BY <2>3, <2>6, Dispatched
<1> QED BY Invariance, <1>1, PTL DEF Spec, ResultsShown

=============================================================================
