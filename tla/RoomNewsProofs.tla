--------------------------- MODULE RoomNewsProofs ---------------------------
(***************************************************************************)
(* Everybody in a room gets its news, for every number of players and      *)
(* rooms: of broadcasts that overlap none leaves an older state behind,    *)
(* and a message to all passes over no more than have left.                *)
(***************************************************************************)
EXTENDS RoomNews, SequenceTheorems, FiniteSetTheorems, TLAPS

(* The inductive invariant *)

Posts == [room : Rooms \cup {Nowhere}, todo : Seq(Players)]

Calls ==
    [news : {"none", "scheduled", "playing"} \cup News, at : Nat,
     host : Players \cup {Nobody}, got : SUBSET Players, gone : Nat]

Tellings == [room : Rooms \cup {Nowhere}, started : BOOLEAN]

States == {"NEW", "WAITING", "STARTING", "RUNNING", "FINISHED"}

Typed ==
    /\ listed \subseteq Rooms
    /\ roster \in [Rooms -> Seq(Players)]
    /\ rstate \in [Rooms -> States]
    /\ post \in [Players -> Posts]
    /\ call \in [Rooms -> [Drivers -> Calls]]
    /\ told \in [Players -> Tellings]
    /\ stale \subseteq Players /\ custom \subseteq Rooms

\* A list names nobody twice, and nobody is in two rooms.
Seated ==
    /\ \A r \in Rooms : IsInjective(roster[r])
    /\ \A r, s \in listed : r # s => Members(r) \cap Members(s) = {}

\* A message goes round in a list that nobody joins, and only the countdown of the
\* matchmaker may be due in a room that waits for players.
Driven(r, d) ==
    /\ call[r][d].news \in News => call[r][d].at > 0
    /\ call[r][d].news # "none" => rstate[r] # "NEW"
    /\ call[r][d].news \notin {"none", "scheduled"} => rstate[r] # "WAITING"
    /\ call[r][d].news # "none" /\ r \in custom => rstate[r] # "WAITING"
    /\ call[r][d].host # Nobody => d = "host" /\ call[r][d].news # "none" /\ rstate[r] # "WAITING"

Driving == \A r \in Rooms, d \in Drivers : Driven(r, d)

\* Who is in no handler has nothing to send.
Idle == \A p \in Players : Free(p) => post[p].todo = <<>>

\* The handler of the host is busy with the start of his room.
HostBusy ==
    \A r \in Rooms, d \in Drivers, p \in Players : call[r][d].host = p =>
        post[p].room = r /\ (call[r][d].news # "scheduled" => post[p].todo = <<>>)

\* Nobody has heard of a room before it is made, nor of its start before it starts.
Past ==
    \A r \in Rooms :
        /\ rstate[r] = "NEW" => /\ r \notin custom \cup listed
                                /\ \A p \in Players : post[p].room # r /\ told[p].room # r
        /\ rstate[r] = "WAITING" => \A p \in Players : told[p].room = r => ~told[p].started

\* A member to whom the state of his room is due.
Due(p, r) ==
    \/ told[p].room = r /\ p \in stale
    \/ r \in custom /\ told[p].room = Nowhere
    \/ r \in custom /\ told[p].room = r /\ rstate[r] # "WAITING" /\ ~told[p].started

\* To whom the state is due, it is on its way.
OnItsWay ==
    \A r \in listed : \A p \in Members(r) :
        Due(p, r) => \E q \in Players : post[q].room = r /\ p \in Range(post[q].todo)

Inv == Typed /\ Seated /\ Driving /\ Idle /\ HostBusy /\ Past /\ OnItsWay

-----------------------------------------------------------------------------

(* Lists of members *)

\* A set of numbers that is not empty has a least one.
LEMMA LeastNumber ==
    ASSUME NEW S, S \subseteq Nat, S # {}
    PROVE  Min(S) \in S
<1>1. PICK m \in S : \A k \in S : ~ (<<k, m>> \in OpToRel(<, Nat))
    BY NatLessThanWellFounded, WFMin
<1>2. \A k \in S : ~ (k < m)
    BY <1>1 DEF OpToRel
<1>3. \A k \in S : m <= k
    BY <1>2
<1> QED BY <1>3 DEF Min

\* list.remove takes one element out, and those behind it move up by one place.
LEMMA RemoveFacts ==
    ASSUME NEW S, NEW s \in Seq(S), NEW p \in Range(s)
    PROVE  \E k \in 1..Len(s) :
              /\ s[k] = p
              /\ RemoveFirst(s, p) \in Seq(S) /\ Len(RemoveFirst(s, p)) = Len(s) - 1
              /\ \A i \in 1..Len(s) - 1 :
                    RemoveFirst(s, p)[i] = IF i < k THEN s[i] ELSE s[i + 1]
<1> DEFINE I == {i \in 1..Len(s) : s[i] = p}
           k == Min(I)
<1>1. Len(s) \in Nat /\ DOMAIN s = 1..Len(s) /\ \A i \in 1..Len(s) : s[i] \in S
    BY LenProperties, ElementOfSeq
<1>2. I # {} /\ I \subseteq Nat
    BY <1>1 DEF Range
<1>3. RemoveFirst(s, p) = RemoveAt(s, k)
    BY <1>2 DEF RemoveFirst, SelectInSeq
<1> HIDE DEF I
<1>4. k \in I
    BY <1>2, LeastNumber
<1> HIDE DEF k
<1>5. k \in 1..Len(s) /\ s[k] = p
    BY <1>4 DEF I
<1> DEFINE a == SubSeq(s, 1, k - 1)
           b == SubSeq(s, k + 1, Len(s))
<1>6. /\ a \in Seq(S) /\ Len(a) = k - 1
      /\ \A i \in 1..k - 1 : a[i] = s[i]
    <2>1. \A i \in 1..k - 1 : s[i] \in S
        BY <1>1, <1>5
    <2> QED BY <1>1, <1>5, <2>1, SubSeqProperties
<1>7. /\ b \in Seq(S) /\ Len(b) = Len(s) - k
      /\ \A i \in 1..Len(s) - k : b[i] = s[k + i]
    <2>1. \A i \in k + 1..Len(s) : s[i] \in S
        BY <1>1, <1>5
    <2>2. /\ b \in Seq(S) /\ Len(b) = IF k + 1 <= Len(s) THEN Len(s) - (k + 1) + 1 ELSE 0
          /\ \A i \in 1..Len(s) - (k + 1) + 1 : b[i] = s[k + 1 + i - 1]
        BY <1>1, <1>5, <2>1, SubSeqProperties
    <2> HIDE DEF b
    <2>3. Len(b) = Len(s) - k /\ Len(s) - (k + 1) + 1 = Len(s) - k
        <3>1. Len(s) \in Int /\ k \in Int /\ k <= Len(s)
            BY <1>1, <1>5
        <3>2. Len(b) = IF k + 1 <= Len(s) THEN Len(s) - (k + 1) + 1 ELSE 0
            BY <2>2
        <3> QED BY <3>1, <3>2
    <2>4. \A i \in 1..Len(s) - k : k + 1 + i - 1 = k + i
        BY <1>5
    <2> QED BY <2>2, <2>3, <2>4
<1> HIDE DEF a, b
<1>8. /\ a \o b \in Seq(S) /\ Len(a \o b) = Len(a) + Len(b)
      /\ \A i \in 1..Len(a) + Len(b) : (a \o b)[i] = IF i <= Len(a) THEN a[i] ELSE b[i - Len(a)]
    BY <1>6, <1>7, ConcatProperties
<1>9. ASSUME NEW i \in 1..Len(s) - 1
      PROVE  (a \o b)[i] = IF i < k THEN s[i] ELSE s[i + 1]
    <2>1. (a \o b)[i] = IF i <= k - 1 THEN a[i] ELSE b[i - (k - 1)]
        BY <1>1, <1>5, <1>6, <1>7, <1>8
    <2>2. CASE i < k
        BY <1>5, <1>6, <2>1, <2>2
    <2>3. CASE ~ (i < k)
        <3>1. i - (k - 1) \in 1..Len(s) - k /\ k + (i - (k - 1)) = i + 1
            BY <1>1, <1>5, <2>3
        <3> QED BY <1>5, <1>7, <2>1, <2>3, <3>1
    <2> QED BY <2>2, <2>3
<1>10. RemoveFirst(s, p) = a \o b
    BY <1>3 DEF RemoveAt, a, b
<1>11. Len(a \o b) = Len(s) - 1
    BY <1>1, <1>5, <1>6, <1>7, <1>8
<1> QED BY <1>5, <1>8, <1>9, <1>10, <1>11

\* Without p the others are left, each of them once.
LEMMA StayingFacts ==
    ASSUME NEW s \in Seq(Players), IsInjective(s), NEW p \in Range(s)
    PROVE  /\ RemoveFirst(s, p) \in Seq(Players)
           /\ Range(RemoveFirst(s, p)) = Range(s) \ {p}
           /\ IsInjective(RemoveFirst(s, p))
<1> DEFINE t == RemoveFirst(s, p)
           n == Len(s) - 1
<1>1. PICK k \in 1..Len(s) :
          /\ s[k] = p /\ t \in Seq(Players) /\ Len(t) = n
          /\ \A i \in 1..n : t[i] = IF i < k THEN s[i] ELSE s[i + 1]
    BY RemoveFacts
<1>2. /\ Len(s) \in Nat /\ DOMAIN s = 1..Len(s) /\ DOMAIN t = 1..n
      /\ \A i, j \in 1..Len(s) : s[i] = s[j] => i = j
    BY <1>1, LenProperties DEF IsInjective
<1> HIDE DEF t
<1>3. ASSUME NEW i \in 1..n
      PROVE  \E j \in 1..Len(s) : j # k /\ t[i] = s[j] /\ j = IF i < k THEN i ELSE i + 1
    <2>1. CASE i < k
        BY <1>1, <1>2, <2>1
    <2>2. CASE ~ (i < k)
        BY <1>1, <1>2, <2>2
    <2> QED BY <2>1, <2>2
<1>4. ASSUME NEW j \in 1..Len(s), j # k
      PROVE  \E i \in 1..n : t[i] = s[j]
    <2>1. CASE j < k
        BY <1>1, <1>2, <2>1
    <2>2. CASE j > k
        <3>1. j - 1 \in 1..n /\ ~ (j - 1 < k) /\ (j - 1) + 1 = j
            BY <1>1, <1>2, <2>2
        <3> QED BY <1>1, <3>1
    <2> QED BY <1>1, <1>2, <1>4, <2>1, <2>2
<1>5. Range(t) = Range(s) \ {p}
    <2>1. ASSUME NEW x \in Range(t)
          PROVE  x \in Range(s) \ {p}
        BY <1>1, <1>2, <1>3 DEF Range
    <2>2. ASSUME NEW x \in Range(s) \ {p}
          PROVE  x \in Range(t)
        <3>1. PICK j \in 1..Len(s) : x = s[j] /\ j # k
            BY <1>1, <1>2 DEF Range
        <3> QED BY <1>2, <1>4, <3>1 DEF Range
    <2> QED BY <2>1, <2>2
<1>6. IsInjective(t)
    <2> SUFFICES ASSUME NEW i \in 1..n, NEW j \in 1..n, t[i] = t[j]
                 PROVE  i = j
        BY <1>2 DEF IsInjective
    <2>1. PICK a \in 1..Len(s) : t[i] = s[a] /\ a = IF i < k THEN i ELSE i + 1
        BY <1>3
    <2>2. PICK b \in 1..Len(s) : t[j] = s[b] /\ b = IF j < k THEN j ELSE j + 1
        BY <1>3
    <2>3. a = b
        BY <1>2, <2>1, <2>2
    <2> QED BY <1>1, <1>2, <2>1, <2>2, <2>3
<1> QED BY <1>1, <1>5, <1>6 DEF t

\* A newcomer comes last.
LEMMA NewcomerFacts ==
    ASSUME NEW s \in Seq(Players), IsInjective(s), NEW p \in Players, p \notin Range(s)
    PROVE  /\ Append(s, p) \in Seq(Players)
           /\ Range(Append(s, p)) = Range(s) \cup {p}
           /\ IsInjective(Append(s, p))
<1> DEFINE t == Append(s, p)
           n == Len(s)
<1>1. /\ t \in Seq(Players) /\ n \in Nat /\ DOMAIN s = 1..n /\ DOMAIN t = 1..n + 1
      /\ \A i \in 1..n : t[i] = s[i] /\ s[i] \in Range(s)
      /\ t[n + 1] = p
    BY AppendProperties, LenProperties DEF Range
<1> HIDE DEF t, n
<1>2. \A i \in 1..n + 1 : i \in 1..n \/ i = n + 1
    BY <1>1
<1>3. \A i \in 1..n : i \in 1..n + 1
    BY <1>1
<1>4. n + 1 \in 1..n + 1
    BY <1>1
<1>5. Range(t) = Range(s) \cup {p}
    BY <1>1, <1>2, <1>3, <1>4 DEF Range
<1>6. IsInjective(t)
    BY <1>1, <1>2 DEF IsInjective
<1> QED BY <1>1, <1>5, <1>6 DEF t

-----------------------------------------------------------------------------

(* Players come and go *)

\* What the members of a room were told, and what is stale of it.
LEMMA ResettleFacts ==
    ASSUME Typed, NEW r \in Rooms, NEW members \in Seq(Players), NEW moving, moving \subseteq Players,
           Resettle(r, members, moving)
    PROVE  /\ roster' \in [Rooms -> Seq(Players)] /\ told' \in [Players -> Tellings]
           /\ stale' \subseteq Players
           /\ roster'[r] = members /\ \A s \in Rooms \ {r} : roster'[s] = roster[s]
           /\ \A p \in moving : told'[p].room = Nowhere /\ p \notin stale'
           /\ \A p \in Players \ moving :
                 told'[p] = told[p] /\ (p \in stale' <=> p \in stale \/ told[p].room = r)
<1>1. NoNews \in Tellings /\ NoNews.room = Nowhere
    BY DEF NoNews, Tellings
<1> QED BY <1>1 DEF Typed, Resettle

\* The lists stay apart, and in the other rooms nothing more becomes due.
LEMMA MoveKeeps ==
    ASSUME Inv, NEW r \in Rooms, NEW members \in Seq(Players), IsInjective(members),
           NEW moving, moving \subseteq Players, Resettle(r, members, moving),
           listed' \subseteq listed \cup {r}, custom' \subseteq custom \cup {r},
           \A s \in Rooms \ {r} : rstate'[s] = rstate[s],
           rstate'[r] # "NEW", rstate'[r] = "WAITING" => rstate[r] \in {"NEW", "WAITING"},
           \A s \in listed' \ {r} : (Range(members) \cup moving) \cap Members(s) = {},
           \A q \in Players : post'[q] = post[q] \/ (Free(q) /\ post'[q].room = r),
           r \in listed' => \A p \in Range(members) : Due(p, r)' =>
              \E q \in Players : post'[q].room = r /\ p \in Range(post'[q].todo)
    PROVE  Seated' /\ Past' /\ OnItsWay'
<1>1. /\ roster'[r] = members /\ \A s \in Rooms \ {r} : roster'[s] = roster[s]
      /\ \A p \in moving : told'[p].room = Nowhere
      /\ \A p \in Players \ moving :
            told'[p] = told[p] /\ (p \in stale' <=> p \in stale \/ told[p].room = r)
    BY ResettleFacts DEF Inv
<1>2. /\ listed \subseteq Rooms /\ listed' \subseteq Rooms
      /\ \A s \in Rooms : Members(s) \subseteq Players /\ roster[s] \in Seq(Players)
    BY RangeOfSeq DEF Inv, Typed, Members
<1>3. Members(r)' = Range(members) /\ \A s \in Rooms \ {r} : Members(s)' = Members(s)
    BY <1>1 DEF Members
<1>4. Seated'
    <2>1. \A s \in Rooms : IsInjective(roster'[s])
        BY <1>1 DEF Inv, Seated
    <2>2. ASSUME NEW s \in listed', NEW t \in listed', s # t
          PROVE  Members(s)' \cap Members(t)' = {}
        BY <1>2, <1>3, <2>2 DEF Inv, Seated
    <2> QED BY <2>1, <2>2 DEF Seated
<1>5. ASSUME NEW s \in listed', NEW p \in Members(s)', Due(p, s)'
      PROVE  \E q \in Players : post'[q].room = s /\ p \in Range(post'[q].todo)
    <2>1. CASE s = r
        BY <1>3, <1>5, <2>1
    <2>2. CASE s # r
        <3>1. s \in listed /\ s \in Rooms /\ p \in Members(s) /\ p \in Players \ moving
            BY <1>2, <1>3, <1>5, <2>2
        <3>2. Due(p, s)
            BY <1>1, <1>5, <2>2, <3>1 DEF Due
        <3>3. PICK q \in Players : post[q].room = s /\ p \in Range(post[q].todo)
            BY <3>1, <3>2 DEF Inv, OnItsWay
        <3>4. ~ Free(q)
            BY <3>1, <3>3, NewsAssumption DEF Free
        <3> QED BY <3>3, <3>4
    <2> QED BY <2>1, <2>2
<1>6. OnItsWay'
    BY <1>5 DEF OnItsWay
<1>7. \A p \in Players, s \in Rooms : told'[p].room = s => p \notin moving /\ told'[p] = told[p]
    BY <1>1, NewsAssumption
<1>8. Past'
    <2> SUFFICES ASSUME NEW s \in Rooms
                 PROVE  /\ rstate'[s] = "NEW" =>
                              /\ s \notin custom' \cup listed'
                              /\ \A p \in Players : post'[p].room # s /\ told'[p].room # s
                        /\ rstate'[s] = "WAITING" =>
                              \A p \in Players : told'[p].room = s => ~told'[p].started
        BY DEF Past
    <2>1. CASE s = r
        BY <1>7, <2>1 DEF Inv, Past
    <2>2. CASE s # r
        BY <1>7, <2>2 DEF Inv, Past
    <2> QED BY <2>1, <2>2
<1> QED BY <1>4, <1>6, <1>8

\* A free handler is not the one that starts a room.
LEMMA FreeIsNoHost ==
    ASSUME Inv, NEW p \in Players, Free(p), NEW r \in Rooms, NEW d \in Drivers
    PROVE  call[r][d].host # p
BY NewsAssumption DEF Inv, HostBusy, Free

\* A handler that was free begins to send, and the drivers are what they were.
LEMMA PostKeepsHosts ==
    ASSUME Inv, NEW p \in Players, Free(p), \A q \in Players \ {p} : post'[q] = post[q],
           UNCHANGED call
    PROVE  HostBusy'
BY FreeIsNoHost DEF Inv, HostBusy

\* The rooms that somebody is not in.
LEMMA RoomlessFacts ==
    ASSUME Inv, NEW p \in Players, Roomless(p), NEW s \in listed
    PROVE  p \notin Members(s)
BY DEF Inv, Typed, Roomless, In

LEMMA CreateRoomKeeps ==
    ASSUME Inv, NEW p \in Players, NEW r \in Rooms, CreateRoom(p, r)
    PROVE  Inv'
<1> DEFINE members == <<p>>
<1>1. /\ Free(p) /\ Roomless(p) /\ rstate[r] = "NEW" /\ UNCHANGED call
      /\ listed' = listed \cup {r} /\ custom' = custom \cup {r}
      /\ Resettle(r, members, {p})
      /\ rstate' = [rstate EXCEPT ![r] = "WAITING"]
      /\ post' = [post EXCEPT ![p] = [room |-> r, todo |-> members]]
    BY DEF CreateRoom, Audience
<1>2. members \in Seq(Players) /\ Range(members) = {p} /\ IsInjective(members)
    BY DEF Range, IsInjective
<1> HIDE DEF members
<1>3. roster' \in [Rooms -> Seq(Players)] /\ told' \in [Players -> Tellings] /\ stale' \subseteq Players
    BY <1>1, <1>2, ResettleFacts DEF Inv
<1>4. /\ post' \in [Players -> Posts] /\ post'[p] = [room |-> r, todo |-> members]
      /\ \A q \in Players \ {p} : post'[q] = post[q]
    BY <1>1, <1>2 DEF Inv, Typed, Posts
<1>5. /\ rstate' \in [Rooms -> States] /\ rstate'[r] = "WAITING"
      /\ \A s \in Rooms \ {r} : rstate'[s] = rstate[s]
    BY <1>1 DEF Inv, Typed, States
<1>6. Typed'
    BY <1>1, <1>3, <1>4, <1>5 DEF Inv, Typed
<1>7. Driving'
    BY <1>1, <1>5 DEF Inv, Driving, Driven
<1>8. HostBusy'
    BY <1>1, <1>4, PostKeepsHosts
<1>9. Seated' /\ Past' /\ OnItsWay'
    <2>1. \A s \in listed' \ {r} : (Range(members) \cup {p}) \cap Members(s) = {}
        BY <1>1, <1>2, RoomlessFacts
    <2>2. \A q \in Players : post'[q] = post[q] \/ (Free(q) /\ post'[q].room = r)
        BY <1>1, <1>4
    <2>3. \A q \in Range(members) : \E x \in Players : post'[x].room = r /\ q \in Range(post'[x].todo)
        BY <1>2, <1>4
    <2> QED BY <1>1, <1>2, <1>5, <2>1, <2>2, <2>3, MoveKeeps
<1>10. Idle'
    BY <1>1, <1>4, NewsAssumption DEF Inv, Idle, Free
<1> QED BY <1>6, <1>7, <1>8, <1>9, <1>10 DEF Inv

LEMMA JoinRoomKeeps ==
    ASSUME Inv, NEW p \in Players, NEW r \in Rooms, JoinRoom(p, r)
    PROVE  Inv'
<1> DEFINE members == Append(roster[r], p)
<1>1. /\ Free(p) /\ Roomless(p) /\ r \in listed /\ UNCHANGED <<listed, rstate, call, custom>>
      /\ Resettle(r, members, {p}) /\ rstate[r] = "WAITING"
      /\ post' = [post EXCEPT ![p] = [room |-> r, todo |-> roster'[r]]]
    BY DEF JoinRoom, Audience
<1>2. /\ members \in Seq(Players) /\ IsInjective(members)
      /\ Range(members) = Members(r) \cup {p}
    BY <1>1, RoomlessFacts, NewcomerFacts DEF Inv, Typed, Seated, Members
<1> HIDE DEF members
<1>3. /\ roster'[r] = members
      /\ roster' \in [Rooms -> Seq(Players)] /\ told' \in [Players -> Tellings]
      /\ stale' \subseteq Players
    BY <1>1, <1>2, ResettleFacts DEF Inv
<1>4. /\ post' \in [Players -> Posts] /\ post'[p] = [room |-> r, todo |-> members]
      /\ \A q \in Players \ {p} : post'[q] = post[q]
    BY <1>1, <1>2, <1>3 DEF Inv, Typed, Posts
<1>5. Typed'
    BY <1>1, <1>3, <1>4 DEF Inv, Typed
<1>6. Driving'
    BY <1>1 DEF Inv, Driving, Driven
<1>7. HostBusy'
    BY <1>1, <1>4, PostKeepsHosts
<1>8. Seated' /\ Past' /\ OnItsWay'
    <2>1. \A s \in listed' \ {r} : (Range(members) \cup {p}) \cap Members(s) = {}
        BY <1>1, <1>2, RoomlessFacts DEF Inv, Seated
    <2>2. \A q \in Players : post'[q] = post[q] \/ (Free(q) /\ post'[q].room = r)
        BY <1>1, <1>4
    <2>3. \A q \in Range(members) : \E x \in Players : post'[x].room = r /\ q \in Range(post'[x].todo)
        BY <1>4
    <2> QED BY <1>1, <1>2, <2>1, <2>2, <2>3, MoveKeeps
<1>9. Idle'
    BY <1>1, <1>4, NewsAssumption DEF Inv, Idle, Free
<1> QED BY <1>5, <1>6, <1>7, <1>8, <1>9 DEF Inv

\* A member less changes of what goes round neither the message nor the place.
LEMMA OneGoneFacts ==
    ASSUME Typed, NEW p \in Players, NEW r \in Rooms, call' = OneGone(p, r)
    PROVE  /\ call' \in [Rooms -> [Drivers -> Calls]]
           /\ \A d \in Drivers :
                 /\ call'[r][d].news = call[r][d].news /\ call'[r][d].at = call[r][d].at
                 /\ call'[r][d].host = call[r][d].host
                 /\ call[r][d].news \in News => /\ call'[r][d].gone = call[r][d].gone + 1
                                                /\ call'[r][d].got = call[r][d].got \ {p}
           /\ \A s \in Rooms \ {r} : call'[s] = call[s]
<1> DEFINE gone(d) == [call[r][d] EXCEPT !.gone = @ + 1, !.got = @ \ {p}]
           new == [d \in Drivers |-> IF call[r][d].news \in News THEN gone(d) ELSE call[r][d]]
<1>1. \A d \in Drivers : call[r][d] \in Calls
    BY DEF Typed
<1>2. ASSUME NEW d \in Drivers
      PROVE  /\ gone(d) \in Calls /\ gone(d).news = call[r][d].news /\ gone(d).at = call[r][d].at
             /\ gone(d).host = call[r][d].host
             /\ gone(d).gone = call[r][d].gone + 1 /\ gone(d).got = call[r][d].got \ {p}
    <2> DEFINE c == call[r][d]
    <2>1. c \in Calls
        BY <1>1
    <2> HIDE DEF c
    <2>2. PICK n \in Nat, g \in SUBSET Players : n = c.gone + 1 /\ g = c.got \ {p}
        <3>1. c.gone + 1 \in Nat /\ c.got \ {p} \in SUBSET Players
            BY <2>1 DEF Calls
        <3> QED BY <3>1
    <2>3. gone(d) = [c EXCEPT !.gone = n, !.got = g]
        BY <2>2 DEF c
    <2> HIDE DEF gone
    <2>4. /\ gone(d) \in Calls /\ gone(d).news = c.news /\ gone(d).at = c.at /\ gone(d).host = c.host
          /\ gone(d).gone = n /\ gone(d).got = g
        BY <2>1, <2>2, <2>3 DEF Calls
    <2> QED BY <2>2, <2>4 DEF c
<1> HIDE DEF gone
<1>3. new \in [Drivers -> Calls]
    BY <1>1, <1>2
<1>4. call' = [call EXCEPT ![r] = new]
    BY DEF OneGone, gone
<1>5. call'[r] = new /\ \A s \in Rooms \ {r} : call'[s] = call[s]
    BY <1>4 DEF Typed
<1>6. call' \in [Rooms -> [Drivers -> Calls]]
    BY <1>3, <1>4 DEF Typed
<1> QED BY <1>2, <1>5, <1>6

LEMMA SilenceFacts ==
    ASSUME Typed, NEW r \in Rooms, call' = Silence(r)
    PROVE  /\ call' \in [Rooms -> [Drivers -> Calls]]
           /\ \A d \in Drivers : call'[r][d] = NoCall
           /\ \A s \in Rooms \ {r} : call'[s] = call[s]
<1>1. NoCall \in Calls
    BY DEF NoCall, Calls
<1> QED BY <1>1 DEF Silence, Typed

LEMMA LeaveRoomKeeps ==
    ASSUME Inv, NEW p \in Players, NEW r \in Rooms, LeaveRoom(p, r)
    PROVE  Inv'
<1> DEFINE staying == RemoveFirst(roster[r], p)
<1>1. /\ Free(p) /\ r \in listed /\ p \in Members(r) /\ UNCHANGED custom
      /\ Resettle(r, staying, {p}) /\ Typed
    BY DEF LeaveRoom, In, Inv
<1>2. /\ staying \in Seq(Players) /\ IsInjective(staying)
      /\ Range(staying) = Members(r) \ {p}
    BY <1>1, StayingFacts DEF Inv, Typed, Seated, Members
<1>3. roster' \in [Rooms -> Seq(Players)] /\ told' \in [Players -> Tellings] /\ stale' \subseteq Players
    <2> HIDE DEF staying
    <2> QED BY <1>1, <1>2, ResettleFacts DEF Inv
<1>4. \A s \in listed \ {r} : (Range(staying) \cup {p}) \cap Members(s) = {}
    BY <1>1, <1>2 DEF Inv, Seated
<1>5. CASE staying = <<>>
    <2>1. /\ listed' = listed \ {r} /\ rstate' = [rstate EXCEPT ![r] = "FINISHED"] /\ UNCHANGED post
          /\ call' = Silence(r)
        BY <1>5 DEF LeaveRoom
    <2> HIDE DEF staying
    <2>2. /\ call' \in [Rooms -> [Drivers -> Calls]]
          /\ \A d \in Drivers : call'[r][d].news = "none" /\ call'[r][d].host = Nobody
          /\ \A s \in Rooms \ {r} : call'[s] = call[s]
        BY <1>1, <2>1, SilenceFacts DEF NoCall
    <2>3. /\ rstate' \in [Rooms -> States] /\ rstate'[r] = "FINISHED"
          /\ \A s \in Rooms \ {r} : rstate'[s] = rstate[s]
        BY <2>1 DEF Inv, Typed, States
    <2>4. Typed'
        BY <1>1, <1>3, <2>1, <2>2, <2>3 DEF Inv, Typed
    <2>5. Driving'
        BY <1>1, <2>2, <2>3 DEF Inv, Driving, Driven, News
    <2>6. HostBusy'
        BY <2>1, <2>2, NewsAssumption DEF Inv, HostBusy
    <2>7. Seated' /\ Past' /\ OnItsWay'
        BY <1>1, <1>2, <1>4, <2>1, <2>3, MoveKeeps
    <2>8. Idle'
        BY <2>1 DEF Inv, Idle, Free
    <2> QED BY <2>4, <2>5, <2>6, <2>7, <2>8 DEF Inv
<1>6. CASE staying # <<>>
    <2>1. /\ post' = [post EXCEPT ![p] = [room |-> r, todo |-> staying]]
          /\ call' = OneGone(p, r) /\ UNCHANGED <<listed, rstate>>
        BY <1>6 DEF LeaveRoom
    <2> HIDE DEF staying
    <2>2. /\ post' \in [Players -> Posts] /\ post'[p] = [room |-> r, todo |-> staying]
          /\ \A q \in Players \ {p} : post'[q] = post[q]
        BY <1>2, <2>1 DEF Inv, Typed, Posts
    <2>3. /\ call' \in [Rooms -> [Drivers -> Calls]]
          /\ \A s \in Rooms, d \in Drivers :
                /\ call'[s][d].news = call[s][d].news /\ call'[s][d].at = call[s][d].at
                /\ call'[s][d].host = call[s][d].host
        BY <1>1, <2>1, OneGoneFacts
    <2>4. Typed'
        BY <1>1, <1>3, <2>1, <2>2, <2>3 DEF Inv, Typed
    <2>5. Driving'
        BY <1>1, <2>1, <2>3 DEF Inv, Driving, Driven
    <2>6. HostBusy'
        BY <1>1, <2>2, <2>3, FreeIsNoHost DEF Inv, HostBusy
    <2>7. Seated' /\ Past' /\ OnItsWay'
        <3>1. \A q \in Players : post'[q] = post[q] \/ (Free(q) /\ post'[q].room = r)
            BY <1>1, <2>2
        <3>2. \A q \in Range(staying) : \E x \in Players : post'[x].room = r /\ q \in Range(post'[x].todo)
            BY <2>2
        <3>3. rstate[r] # "NEW"
            BY <1>1 DEF Inv, Past
        <3> QED BY <1>1, <1>2, <1>4, <2>1, <3>1, <3>2, <3>3, MoveKeeps
    <2>8. Idle'
        BY <2>1, <2>2, NewsAssumption DEF Inv, Idle, Free
    <2> QED BY <2>4, <2>5, <2>6, <2>7, <2>8 DEF Inv
<1> QED BY <1>5, <1>6

\* One driver gets another call, the others keep theirs.
LEMMA CallFacts ==
    ASSUME Typed, NEW r \in Rooms, NEW d \in Drivers, NEW c \in Calls,
           call' = [call EXCEPT ![r][d] = c]
    PROVE  /\ call' \in [Rooms -> [Drivers -> Calls]] /\ call'[r][d] = c
           /\ \A s \in Rooms, e \in Drivers : s # r \/ e # d => call'[s][e] = call[s][e]
BY DEF Typed

LEMMA StartRoomKeeps ==
    ASSUME Inv, NEW p \in Players, NEW r \in Rooms, StartRoom(p, r)
    PROVE  Inv'
<1> DEFINE c == [NoCall EXCEPT !.news = "scheduled", !.host = p]
<1>1. /\ Free(p) /\ r \in listed /\ rstate[r] = "WAITING"
      /\ UNCHANGED <<listed, roster, told, stale, custom>>
      /\ rstate' = [rstate EXCEPT ![r] = "STARTING"]
      /\ post' = [post EXCEPT ![p] = [room |-> r, todo |-> roster[r]]]
      /\ call' = [call EXCEPT ![r]["host"] = c]
    BY DEF StartRoom, In
<1>2. c \in Calls /\ c.news = "scheduled" /\ c.host = p
    BY DEF NoCall, Calls
<1> HIDE DEF c
<1>3. /\ call' \in [Rooms -> [Drivers -> Calls]] /\ call'[r]["host"] = c
      /\ \A s \in Rooms, e \in Drivers : s # r \/ e # "host" => call'[s][e] = call[s][e]
    BY <1>1, <1>2, CallFacts DEF Inv, Drivers
<1>4. /\ rstate' \in [Rooms -> States] /\ rstate'[r] = "STARTING"
      /\ \A s \in Rooms \ {r} : rstate'[s] = rstate[s]
    BY <1>1 DEF Inv, Typed, States
<1>5. /\ post' \in [Players -> Posts] /\ post'[p] = [room |-> r, todo |-> roster[r]]
      /\ \A q \in Players \ {p} : post'[q] = post[q]
    BY <1>1 DEF Inv, Typed, Posts
<1>6. Typed'
    BY <1>1, <1>3, <1>4, <1>5 DEF Inv, Typed
<1>7. Seated'
    BY <1>1 DEF Inv, Seated, Members
<1>8. Driving'
    BY <1>1, <1>2, <1>3, <1>4 DEF Inv, Driving, Driven, News
<1>9. HostBusy'
    <2> SUFFICES ASSUME NEW s \in Rooms, NEW e \in Drivers, NEW x \in Players, call'[s][e].host = x
                 PROVE  post'[x].room = s /\ (call'[s][e].news # "scheduled" => post'[x].todo = <<>>)
        BY DEF HostBusy
    <2>1. CASE s = r /\ e = "host"
        BY <1>2, <1>3, <1>5, <2>1
    <2>2. CASE s # r \/ e # "host"
        <3>1. call'[s][e] = call[s][e] /\ x # p
            BY <1>1, <1>3, <2>2, FreeIsNoHost
        <3> QED BY <1>5, <3>1 DEF Inv, HostBusy
    <2> QED BY <2>1, <2>2
<1>10. Idle'
    BY <1>1, <1>5, NewsAssumption DEF Inv, Idle, Free
<1>11. Past'
    BY <1>1, <1>4, <1>5 DEF Inv, Past
<1>12. OnItsWay'
    <2> SUFFICES ASSUME NEW s \in listed, NEW x \in Members(s), Due(x, s)'
                 PROVE  \E y \in Players : post'[y].room = s /\ x \in Range(post'[y].todo)
        BY <1>1 DEF OnItsWay, Members
    <2>1. CASE s = r
        BY <1>5, <2>1 DEF Members
    <2>2. CASE s # r
        <3>1. s \in Rooms /\ Due(x, s)
            BY <1>1, <1>4, <2>2 DEF Inv, Typed, Due
        <3>2. PICK y \in Players : post[y].room = s /\ x \in Range(post[y].todo)
            BY <3>1 DEF Inv, OnItsWay
        <3>3. y # p
            BY <1>1, <3>1, <3>2, NewsAssumption DEF Free
        <3> QED BY <1>5, <3>2, <3>3
    <2> QED BY <2>1, <2>2
<1> QED BY <1>6, <1>7, <1>8, <1>9, <1>10, <1>11, <1>12 DEF Inv

LEMMA MakeMatchKeeps ==
    ASSUME Inv, NEW r \in Rooms, NEW members \in Lineups, MakeMatch(r, members)
    PROVE  Inv'
<1> DEFINE c == [NoCall EXCEPT !.news = "scheduled"]
<1>1. /\ rstate[r] = "NEW" /\ \A p \in Range(members) : Free(p) /\ Roomless(p)
      /\ listed' = listed \cup {r} /\ UNCHANGED <<post, custom>>
      /\ Resettle(r, members, Range(members))
      /\ rstate' = [rstate EXCEPT ![r] = "WAITING"]
      /\ call' = [call EXCEPT ![r]["matchmaker"] = c]
    BY DEF MakeMatch
<1>2. members \in Seq(Players) /\ IsInjective(members) /\ Range(members) \subseteq Players
    <2>1. PICK n \in 2..Cardinality(Players) : members \in [1..n -> Players]
        BY DEF Lineups
    <2>2. n \in Nat
        BY <2>1, FS_CardinalityType, NewsAssumption
    <2> QED BY <2>1, <2>2 DEF Lineups, Range
<1>3. roster' \in [Rooms -> Seq(Players)] /\ told' \in [Players -> Tellings]
      /\ stale' \subseteq Players
      /\ \A p \in Range(members) : told'[p].room = Nowhere /\ p \notin stale'
    BY <1>1, <1>2, ResettleFacts DEF Inv
<1>4. c \in Calls /\ c.news = "scheduled" /\ c.host = Nobody
    BY DEF NoCall, Calls
<1> HIDE DEF c
<1>5. /\ call' \in [Rooms -> [Drivers -> Calls]] /\ call'[r]["matchmaker"] = c
      /\ \A s \in Rooms, e \in Drivers : s # r \/ e # "matchmaker" => call'[s][e] = call[s][e]
    BY <1>1, <1>4, CallFacts DEF Inv, Drivers
<1>6. /\ rstate' \in [Rooms -> States] /\ rstate'[r] = "WAITING"
      /\ \A s \in Rooms \ {r} : rstate'[s] = rstate[s]
    BY <1>1 DEF Inv, Typed, States
<1>7. Typed'
    BY <1>1, <1>3, <1>5, <1>6 DEF Inv, Typed
<1>8. r \notin custom
    BY <1>1 DEF Inv, Past
<1>9. Driving'
    BY <1>1, <1>4, <1>5, <1>6, <1>8 DEF Inv, Driving, Driven, News
<1>10. HostBusy'
    BY <1>1, <1>4, <1>5, NewsAssumption DEF Inv, HostBusy
<1>11. Seated' /\ Past' /\ OnItsWay'
    <2>1. \A s \in listed' \ {r} : (Range(members) \cup Range(members)) \cap Members(s) = {}
        BY <1>1, <1>2, RoomlessFacts
    <2>2. \A p \in Range(members) : ~ Due(p, r)'
        BY <1>1, <1>3, <1>8, NewsAssumption DEF Due
    <2> QED BY <1>1, <1>2, <1>6, <2>1, <2>2, MoveKeeps
<1>12. Idle'
    BY <1>1 DEF Inv, Idle, Free
<1> QED BY <1>7, <1>9, <1>10, <1>11, <1>12 DEF Inv

-----------------------------------------------------------------------------

(* Messages *)

\* The first is told, the others wait.
LEMMA FirstAndRest ==
    ASSUME NEW S, NEW s \in Seq(S), s # <<>>
    PROVE  /\ Head(s) \in S /\ Tail(s) \in Seq(S)
           /\ Range(s) \subseteq {Head(s)} \cup Range(Tail(s))
           /\ Len(s) = 1 => Range(s) = {Head(s)}
<1> DEFINE n == Len(s)
           t == Tail(s)
<1>1. /\ n \in Nat /\ DOMAIN s = 1..n /\ Head(s) = s[1] /\ n >= 1
      /\ t \in Seq(S) /\ Len(t) = n - 1 /\ \A i \in 1..n - 1 : t[i] = s[i + 1]
      /\ Head(s) \in S
    BY LenProperties, HeadTailProperties, EmptySeq
<1>2. DOMAIN t = 1..n - 1
    BY <1>1, LenProperties
<1> HIDE DEF n, t
<1>3. \A i \in 1..n : i = 1 \/ (i - 1 \in 1..n - 1 /\ (i - 1) + 1 = i)
    BY <1>1
<1>4. \A i \in 1..n : s[i] = Head(s) \/ s[i] \in Range(t)
    BY ZenonT(40), <1>1, <1>2, <1>3 DEF Range
<1>5. Range(s) \subseteq {Head(s)} \cup Range(t)
    BY <1>1, <1>4 DEF Range
<1>6. n = 1 => Range(s) = {Head(s)}
    BY <1>1 DEF Range
<1> QED BY <1>1, <1>5, <1>6 DEF n, t

LEMMA SendStateKeeps ==
    ASSUME Inv, NEW p \in Players, SendState(p)
    PROVE  Inv'
<1> DEFINE r == post[p].room
           todo == post[p].todo
           q == Head(todo)
           done == Len(todo) = 1 /\ call[r]["host"].host # p
           rest == [room |-> r, todo |-> Tail(todo)]
           state == [room |-> r, started |-> rstate[r] # "WAITING"]
<1>1. /\ todo # <<>> /\ stale' = stale \ {q}
      /\ told' = IF Roomless(q) THEN told ELSE [told EXCEPT ![q] = state]
      /\ post' = [post EXCEPT ![p] = IF done THEN NoPost ELSE rest]
      /\ UNCHANGED <<listed, roster, rstate, call, custom>>
    BY DEF SendState
<1>2. post[p] \in Posts /\ todo \in Seq(Players) /\ r \in Rooms /\ rstate[r] # "NEW"
    BY <1>1, NewsAssumption DEF Inv, Typed, Posts, Idle, Free, Past
<1>3. /\ q \in Players /\ Tail(todo) \in Seq(Players)
      /\ Range(todo) \subseteq {q} \cup Range(Tail(todo))
      /\ Len(todo) = 1 => Range(todo) = {q}
    BY <1>1, <1>2, FirstAndRest
<1>4. /\ post' \in [Players -> Posts]
      /\ \A x \in Players \ {p} : post'[x] = post[x]
      /\ done => post'[p] = NoPost
      /\ ~ done => post'[p].room = r /\ post'[p].todo = Tail(todo)
    <2>1. NoPost \in Posts
        BY EmptySeq DEF NoPost, Posts
    <2>2. rest \in Posts /\ rest.room = r /\ rest.todo = Tail(todo)
        BY <1>2, <1>3 DEF Posts
    <2> HIDE DEF rest, done, r, todo
    <2> QED BY <1>1, <2>1, <2>2 DEF Inv, Typed
<1>5. state \in Tellings /\ state.room = r /\ (state.started <=> rstate[r] # "WAITING")
    BY <1>2 DEF Tellings
<1> HIDE DEF r, todo, q, done, rest, state
<1>6. /\ told' \in [Players -> Tellings] /\ (told'[q] = state \/ told' = told)
      /\ ~ Roomless(q) => told'[q] = state
      /\ \A x \in Players \ {q} : told'[x] = told[x]
    BY <1>1, <1>3, <1>5 DEF Inv, Typed
<1>7. Typed'
    BY <1>1, <1>2, <1>3, <1>4, <1>6 DEF Inv, Typed
<1>8. Seated' /\ Driving'
    BY <1>1 DEF Inv, Seated, Driving, Driven, Members
<1>9. Idle'
    BY <1>1, <1>2, <1>4, NewsAssumption DEF Inv, Idle, Free, NoPost
<1>10. HostBusy'
    <2> SUFFICES ASSUME NEW s \in Rooms, NEW d \in Drivers, NEW x \in Players, call[s][d].host = x
                 PROVE  post'[x].room = s /\ (call[s][d].news # "scheduled" => post'[x].todo = <<>>)
        BY <1>1 DEF HostBusy
    <2>1. post[x].room = s /\ (call[s][d].news # "scheduled" => post[x].todo = <<>>)
        BY DEF Inv, HostBusy
    <2>2. CASE x = p
        <3>1. d = "host"
            BY NewsAssumption DEF Inv, Driving, Driven
        <3>2. s = r /\ call[s][d].news = "scheduled" /\ ~ done
            BY <1>1, <2>1, <2>2, <3>1 DEF r, todo, done
        <3> QED BY <1>4, <2>2, <3>2
    <2> QED BY <1>4, <2>1, <2>2
<1>11. Past'
    <2>1. \A x \in Players : post'[x].room = post[x].room \/ post'[x].room = Nowhere
        BY <1>2, <1>4 DEF NoPost, r
    <2>2. \A x \in Players : told'[x] = told[x] \/ told'[x] = state
        BY <1>6
    <2> QED BY <1>1, <1>2, <1>5, <2>1, <2>2, NewsAssumption DEF Inv, Past
<1>12. OnItsWay'
    <2> SUFFICES ASSUME NEW s \in listed, NEW x \in Members(s), Due(x, s)'
                 PROVE  \E y \in Players : post'[y].room = s /\ x \in Range(post'[y].todo)
        BY <1>1 DEF OnItsWay, Members
    <2>1. s \in Rooms /\ x \in Players /\ ~ Roomless(x)
        BY RangeOfSeq DEF Inv, Typed, Members, Roomless, In
    <2>2. CASE x = q
        <3>1. told'[x] = state /\ x \notin stale'
            BY <1>1, <1>6, <2>1, <2>2
        <3>2. rstate' = rstate
            BY <1>1
        <3> QED BY <1>2, <1>5, <3>1, <3>2, NewsAssumption DEF Due
    <2>3. CASE x # q
        <3>1. Due(x, s)
            BY <1>1, <1>6, <2>1, <2>3 DEF Due
        <3>2. PICK y \in Players : post[y].room = s /\ x \in Range(post[y].todo)
            BY <3>1 DEF Inv, OnItsWay
        <3>3. CASE y = p
            <4>1. s = r /\ x \in Range(Tail(todo)) /\ ~ done
                BY <1>3, <2>3, <3>2, <3>3 DEF r, todo, done
            <4>2. post'[p].room = s /\ x \in Range(post'[p].todo)
                BY <1>4, <4>1
            <4> QED BY <4>2
        <3> QED BY <1>4, <3>2, <3>3
    <2> QED BY <2>2, <2>3
<1> QED BY <1>7, <1>8, <1>9, <1>10, <1>11, <1>12 DEF Inv

\* A step of a driver changes neither who is where nor what was told of the room.
LEMMA DriverKeeps ==
    ASSUME Inv, NEW r \in Rooms, NEW d \in Drivers, call[r][d].news # "none",
           NEW c \in Calls, call' = [call EXCEPT ![r][d] = c], c.news \in News => c.at > 0,
           c.host # Nobody => /\ c.host = call[r][d].host /\ c.news # "none"
                              /\ post[c.host].todo = <<>>,
           UNCHANGED <<listed, roster, post, told, stale, custom>>,
           \/ rstate' = rstate /\ rstate[r] # "WAITING"
           \/ \E x \in {"STARTING", "RUNNING", "FINISHED"} : rstate' = [rstate EXCEPT ![r] = x]
    PROVE  Inv'
<1>1. /\ call' \in [Rooms -> [Drivers -> Calls]] /\ call'[r][d] = c
      /\ \A s \in Rooms, e \in Drivers : s # r \/ e # d => call'[s][e] = call[s][e]
    <2>1. Typed
        BY DEF Inv
    <2> QED BY ZenonT(60), <2>1, CallFacts
<1>2. Driven(r, d)
    BY DEF Inv, Driving
<1>3. /\ rstate' \in [Rooms -> States] /\ \A s \in Rooms \ {r} : rstate'[s] = rstate[s]
      /\ rstate'[r] \notin {"NEW", "WAITING"}
      /\ rstate[r] # "NEW" /\ (r \in custom => rstate[r] # "WAITING")
    BY <1>2 DEF Driven, Inv, Typed, States
<1>4. Typed' /\ Seated' /\ Idle'
    BY <1>1, <1>3 DEF Inv, Typed, Seated, Members, Idle, Free
<1>5. Driving'
    <2> SUFFICES ASSUME NEW s \in Rooms, NEW e \in Drivers
                 PROVE  Driven(s, e)'
        BY DEF Driving
    <2>1. Driven(s, e)
        BY DEF Inv, Driving
    <2>2. CASE s = r /\ e = d
        BY <1>1, <1>2, <1>3, <2>2 DEF Driven
    <2>3. CASE s = r /\ e # d
        BY <1>1, <1>3, <2>1, <2>3 DEF Driven
    <2>4. CASE s # r
        BY <1>1, <1>3, <2>1, <2>4 DEF Driven
    <2> QED BY <2>2, <2>3, <2>4
<1>6. HostBusy'
    <2> SUFFICES ASSUME NEW s \in Rooms, NEW e \in Drivers, NEW x \in Players, call'[s][e].host = x
                 PROVE  post[x].room = s /\ (call'[s][e].news # "scheduled" => post[x].todo = <<>>)
        BY DEF HostBusy
    <2>1. CASE s = r /\ e = d
        BY <1>1, <2>1, NewsAssumption DEF Inv, HostBusy
    <2>2. CASE s # r \/ e # d
        BY <1>1, <2>2 DEF Inv, HostBusy
    <2> QED BY <2>1, <2>2
<1>7. Past'
    BY <1>3 DEF Inv, Past
<1>8. OnItsWay'
    <2>1. \A s \in listed, x \in Players : Due(x, s)' => Due(x, s)
        BY <1>3 DEF Inv, Typed, Due
    <2>2. \A s \in listed : Members(s)' = Members(s) /\ Members(s) \subseteq Players
        BY RangeOfSeq DEF Inv, Typed, Members
    <2> QED BY <2>1, <2>2 DEF Inv, OnItsWay
<1> QED BY <1>4, <1>5, <1>6, <1>7, <1>8 DEF Inv

\* A message that begins.
LEMMA CallIs ==
    ASSUME NEW news \in News, NEW host \in Players \cup {Nobody}
    PROVE  /\ Call(news, host) \in Calls /\ Call(news, host).news = news
           /\ Call(news, host).at = 1 /\ Call(news, host).host = host
           /\ Call(news, host).got = {} /\ Call(news, host).gone = 0
BY DEF Call, NoCall, Calls

LEMMA HostOfCall ==
    ASSUME Inv, NEW r \in Rooms, NEW d \in Drivers
    PROVE  /\ call[r][d].host \in Players \cup {Nobody}
           /\ call[r][d].host # Nobody => d = "host"
           /\ call[r][d].news # "scheduled" /\ call[r][d].host # Nobody =>
                 post[call[r][d].host].todo = <<>>
<1>1. call[r][d].host \in Players \cup {Nobody}
    BY DEF Inv, Typed, Calls
<1> QED BY <1>1 DEF Inv, Driving, Driven, HostBusy

LEMMA BeginKeeps ==
    ASSUME Inv, NEW r \in Rooms, NEW d \in Drivers, call[r][d].news # "none",
           NEW news \in News, Begin(r, d, news),
           call[r][d].host # Nobody => post[call[r][d].host].todo = <<>>,
           UNCHANGED <<listed, roster, post, told, stale, custom>>,
           \/ rstate' = rstate /\ rstate[r] # "WAITING"
           \/ \E x \in {"STARTING", "RUNNING", "FINISHED"} : rstate' = [rstate EXCEPT ![r] = x]
    PROVE  Inv'
<1> DEFINE c == Call(news, call[r][d].host)
<1>1. c \in Calls /\ c.news \in News /\ c.news # "none" /\ c.at = 1 /\ c.host = call[r][d].host
    BY HostOfCall, CallIs DEF News
<1>2. call' = [call EXCEPT ![r][d] = c]
    BY DEF Begin
<1> HIDE DEF c
<1>3. c.at > 0
    BY <1>1
<1> QED BY <1>1, <1>2, <1>3, DriverKeeps

LEMMA CountdownKeeps ==
    ASSUME Inv, NEW r \in Rooms, NEW d \in Drivers,
           StartCountdown(r, d) \/ AfterFound(r, d) \/ EndMatch(r, d)
    PROVE  Inv'
<1>1. CASE StartCountdown(r, d)
    <2>1. /\ call[r][d].news = "scheduled" /\ Begin(r, d, "match_found")
          /\ d = "host" => post[call[r][d].host].todo = <<>>
          /\ UNCHANGED <<listed, roster, post, told, stale, custom>>
          /\ rstate' = [rstate EXCEPT ![r] = "STARTING"]
        BY <1>1 DEF StartCountdown
    <2>2. call[r][d].host # Nobody => post[call[r][d].host].todo = <<>>
        BY <2>1, HostOfCall
    <2>3. "match_found" \in News /\ \E x \in {"STARTING", "RUNNING", "FINISHED"} :
                                        rstate' = [rstate EXCEPT ![r] = x]
        BY <2>1 DEF News
    <2> QED BY <2>1, <2>2, <2>3, BeginKeeps
<1>2. CASE AfterFound(r, d)
    <2>1. /\ call[r][d].news = "match_found" /\ Begin(r, d, "match_start")
          /\ UNCHANGED <<listed, roster, post, told, stale, custom>> /\ rstate' = rstate
        BY <1>2 DEF AfterFound, Sent
    <2>2. call[r][d].host # Nobody => post[call[r][d].host].todo = <<>>
        BY <2>1, HostOfCall
    <2>3. "match_start" \in News /\ rstate[r] # "WAITING"
        BY <2>1 DEF News, Inv, Driving, Driven
    <2> QED BY <2>1, <2>2, <2>3, BeginKeeps
<1>3. CASE EndMatch(r, d)
    <2>1. /\ call[r][d].news = "playing" /\ Begin(r, d, "match_end")
          /\ UNCHANGED <<listed, roster, post, told, stale, custom>>
          /\ rstate' = [rstate EXCEPT ![r] = "FINISHED"]
        BY <1>3 DEF EndMatch
    <2>2. call[r][d].host # Nobody => post[call[r][d].host].todo = <<>>
        BY <2>1, HostOfCall
    <2>3. "match_end" \in News /\ \E x \in {"STARTING", "RUNNING", "FINISHED"} :
                                        rstate' = [rstate EXCEPT ![r] = x]
        BY <2>1 DEF News
    <2> QED BY <2>1, <2>2, <2>3, BeginKeeps
<1> QED BY <1>1, <1>2, <1>3

\* One more member is told, the place moves by one.
LEMMA SendNewsFacts ==
    ASSUME Inv, NEW r \in Rooms, NEW d \in Drivers, SendNews(r, d)
    PROVE  /\ call[r][d].at \in 1..Len(roster[r]) /\ roster[r][call[r][d].at] \in Players
           /\ call[r][d].news \in News
           /\ \E c \in Calls :
                 /\ call' = [call EXCEPT ![r][d] = c]
                 /\ c.news = call[r][d].news /\ c.host = call[r][d].host
                 /\ c.at = call[r][d].at + 1 /\ c.gone = call[r][d].gone
                 /\ c.got = call[r][d].got \cup {roster[r][call[r][d].at]}
<1> DEFINE c == call[r][d]
           q == roster[r][c.at]
           new == [c EXCEPT !.at = @ + 1, !.got = @ \cup {q}]
<1>1. c \in Calls /\ c.at \in Nat /\ c.at > 0 /\ c.news \in News /\ roster[r] \in Seq(Players)
    BY DEF Inv, Typed, Calls, SendNews, Driving, Driven
<1>2. c.at \in 1..Len(roster[r]) /\ q \in Players
    <2>1. c.at <= Len(roster[r]) /\ Len(roster[r]) \in Nat
        BY <1>1, LenProperties DEF SendNews
    <2> QED BY <1>1, <2>1, ElementOfSeq
<1>3. call' = [call EXCEPT ![r][d] = new]
    BY DEF SendNews, Inv, Typed
<1> HIDE DEF q, c
<1>4. /\ new \in Calls /\ new.news = c.news /\ new.host = c.host /\ new.at = c.at + 1
      /\ new.gone = c.gone /\ new.got = c.got \cup {q}
    <2>1. PICK n \in Nat, g \in SUBSET Players : n = c.at + 1 /\ g = c.got \cup {q}
        <3>1. c.at + 1 \in Nat /\ c.got \cup {q} \in SUBSET Players
            BY <1>1, <1>2 DEF Calls
        <3> QED BY <3>1
    <2>2. new = [c EXCEPT !.at = n, !.got = g]
        BY <2>1
    <2> HIDE DEF new
    <2> QED BY <1>1, <2>1, <2>2 DEF Calls
<1> HIDE DEF new
<1> QED BY <1>1, <1>2, <1>3, <1>4 DEF q, c

LEMMA SendNewsKeeps ==
    ASSUME Inv, NEW r \in Rooms, NEW d \in Drivers, SendNews(r, d)
    PROVE  Inv'
<1>1. call[r][d].news \in News /\ call[r][d].at \in Nat
    BY SendNewsFacts
<1>2. PICK c \in Calls :
          /\ call' = [call EXCEPT ![r][d] = c] /\ c.news = call[r][d].news
          /\ c.host = call[r][d].host /\ c.at = call[r][d].at + 1
    BY SendNewsFacts
<1>3. UNCHANGED <<listed, roster, rstate, post, told, stale, custom>>
    BY DEF SendNews
<1>4. call[r][d].news \notin {"none", "scheduled"} /\ rstate[r] # "WAITING" /\ c.at > 0
    BY <1>1, <1>2 DEF News, Inv, Driving, Driven
<1>5. c.host # Nobody => post[c.host].todo = <<>>
    BY <1>2, <1>4, HostOfCall
<1> QED BY <1>2, <1>3, <1>4, <1>5, DriverKeeps

LEMMA NoCallIs == NoCall \in Calls /\ NoCall.news = "none" /\ NoCall.host = Nobody /\ "none" \notin News
BY DEF NoCall, Calls, News

LEMMA LoopStopsKeeps ==
    ASSUME Inv, NEW r \in Rooms, NEW d \in Drivers, LoopStops(r, d)
    PROVE  Inv'
<1>1. /\ call[r][d].news = "playing" /\ call' = [call EXCEPT ![r][d] = NoCall]
      /\ UNCHANGED <<listed, roster, rstate, post, told, stale, custom>>
    BY DEF LoopStops
<1>2. rstate[r] # "WAITING"
    BY <1>1 DEF Inv, Driving, Driven
<1> QED BY <1>1, <1>2, NoCallIs, DriverKeeps

LEMMA AfterStartKeeps ==
    ASSUME Inv, NEW r \in Rooms, NEW d \in Drivers, AfterStart(r, d)
    PROVE  Inv'
<1> DEFINE host == call[r][d].host
           c == [NoCall EXCEPT !.news = "playing"]
<1>1. /\ call[r][d].news = "match_start" /\ call' = [call EXCEPT ![r][d] = c]
      /\ rstate' = [rstate EXCEPT ![r] = "RUNNING"]
      /\ post' = [p \in Players |-> IF p = host THEN NoPost ELSE post[p]]
      /\ UNCHANGED <<listed, roster, told, stale, custom>>
    BY DEF AfterStart, Sent
<1>2. c \in Calls /\ c.news = "playing" /\ c.host = Nobody
    BY DEF NoCall, Calls
<1> HIDE DEF c
<1>3. /\ call' \in [Rooms -> [Drivers -> Calls]] /\ call'[r][d] = c
      /\ \A s \in Rooms, e \in Drivers : s # r \/ e # d => call'[s][e] = call[s][e]
    <2>1. Typed
        BY DEF Inv
    <2>2. c \in Calls
        BY <1>2
    <2> QED BY ZenonT(60), <1>1, <2>1, <2>2, CallFacts
<1>4. /\ post' \in [Players -> Posts] /\ NoPost.todo = <<>> /\ NoPost.room = Nowhere
      /\ \A p \in Players : post'[p] = IF p = host THEN NoPost ELSE post[p]
    <2>1. NoPost \in Posts /\ NoPost.todo = <<>> /\ NoPost.room = Nowhere
        BY EmptySeq DEF NoPost, Posts
    <2> QED BY <1>1, <2>1 DEF Inv, Typed
<1>5. host \in Players => d = "host" /\ post[host].room = r /\ post[host].todo = <<>>
    <2>1. host \in Players => host # Nobody
        BY NewsAssumption
    <2> QED BY <1>1, <2>1, HostOfCall DEF Inv, HostBusy
<1> HIDE DEF host
<1>6. /\ rstate' \in [Rooms -> States] /\ rstate'[r] = "RUNNING"
      /\ \A s \in Rooms \ {r} : rstate'[s] = rstate[s]
    BY <1>1 DEF Inv, Typed, States
<1>7. rstate[r] \notin {"NEW", "WAITING"}
    BY <1>1 DEF Inv, Driving, Driven
<1>8. Typed'
    BY <1>1, <1>3, <1>4, <1>6 DEF Inv, Typed
<1>9. Seated'
    BY <1>1 DEF Inv, Seated, Members
<1>10. Driving'
    <2> SUFFICES ASSUME NEW s \in Rooms, NEW e \in Drivers
                 PROVE  Driven(s, e)'
        BY DEF Driving
    <2>1. Driven(s, e)
        BY DEF Inv, Driving
    <2>2. CASE s = r /\ e = d
        BY <1>2, <1>3, <1>6, <2>2 DEF Driven, News
    <2>3. CASE s = r /\ e # d
        BY <1>1, <1>3, <1>6, <2>1, <2>3 DEF Driven
    <2>4. CASE s # r
        BY <1>1, <1>3, <1>6, <2>1, <2>4 DEF Driven
    <2> QED BY <2>2, <2>3, <2>4
<1>11. Idle'
    BY <1>1, <1>4 DEF Inv, Idle, Free
<1>12. HostBusy'
    <2> SUFFICES ASSUME NEW s \in Rooms, NEW e \in Drivers, NEW x \in Players, call'[s][e].host = x
                 PROVE  post'[x].room = s /\ (call'[s][e].news # "scheduled" => post'[x].todo = <<>>)
        BY DEF HostBusy
    <2>1. s # r \/ e # d
        BY <1>2, <1>3, NewsAssumption
    <2>2. call'[s][e] = call[s][e]
        BY <1>3, <2>1
    <2>3. post[x].room = s /\ (call[s][e].news # "scheduled" => post[x].todo = <<>>) /\ e = "host"
        BY <2>2, HostOfCall, NewsAssumption DEF Inv, HostBusy
    <2>4. x # host
        BY <1>5, <2>1, <2>3
    <2> QED BY <1>4, <2>2, <2>3, <2>4
<1>13. Past'
    BY <1>1, <1>4, <1>6, <1>7, NewsAssumption DEF Inv, Past
<1>14. OnItsWay'
    <2>1. \A s \in listed, x \in Players : Due(x, s)' => Due(x, s)
        BY <1>1, <1>6, <1>7 DEF Inv, Typed, Due
    <2>2. \A s \in listed : Members(s)' = Members(s) /\ Members(s) \subseteq Players
        BY <1>1, RangeOfSeq DEF Inv, Typed, Members
    <2> SUFFICES ASSUME NEW s \in listed, NEW x \in Members(s), Due(x, s)
                 PROVE  \E y \in Players : post'[y].room = s /\ x \in Range(post'[y].todo)
        BY <1>1, <2>1, <2>2 DEF OnItsWay
    <2>3. PICK y \in Players : post[y].room = s /\ x \in Range(post[y].todo)
        BY DEF Inv, OnItsWay
    <2>4. y # host
        BY <1>5, <2>3 DEF Range
    <2> QED BY <1>4, <2>3, <2>4
<1> QED BY <1>8, <1>9, <1>10, <1>11, <1>12, <1>13, <1>14 DEF Inv

\* The driver is done, and one that destroy cancels with it.
LEMMA AfterEndFacts ==
    ASSUME Typed, NEW r \in Rooms, NEW d \in Drivers, AfterEnd(r, d)
    PROVE  /\ call' \in [Rooms -> [Drivers -> Calls]]
           /\ \A e \in Drivers : call'[r][e] = NoCall \/ call'[r][e] = call[r][e]
           /\ \A s \in Rooms \ {r} : call'[s] = call[s]
<1> DEFINE new == [e \in Drivers |-> IF e = d \/ Cancelled(r, e) THEN NoCall ELSE call[r][e]]
<1>1. new \in [Drivers -> Calls]
    BY NoCallIs DEF Typed
<1>2. call' = [call EXCEPT ![r] = new]
    BY DEF AfterEnd
<1>3. call'[r] = new /\ (\A s \in Rooms \ {r} : call'[s] = call[s])
      /\ call' \in [Rooms -> [Drivers -> Calls]]
    <2> HIDE DEF new
    <2> QED BY <1>1, <1>2 DEF Typed
<1> QED BY <1>3

LEMMA AfterEndKeeps ==
    ASSUME Inv, NEW r \in Rooms, NEW d \in Drivers, AfterEnd(r, d)
    PROVE  Inv'
<1>1. call[r][d].news = "match_end" /\ UNCHANGED <<roster, post, custom>>
    BY DEF AfterEnd, Sent
<1>2. /\ call' \in [Rooms -> [Drivers -> Calls]]
      /\ \A e \in Drivers : call'[r][e] = NoCall \/ call'[r][e] = call[r][e]
      /\ \A s \in Rooms \ {r} : call'[s] = call[s]
    BY AfterEndFacts DEF Inv
<1>3. rstate[r] \notin {"NEW", "WAITING"}
    BY <1>1 DEF Inv, Driving, Driven
<1>4. /\ rstate' \in [Rooms -> States] /\ \A s \in Rooms \ {r} : rstate'[s] = rstate[s]
      /\ rstate'[r] \notin {"NEW", "WAITING"} /\ listed' \subseteq listed
    <2>1. \/ rstate' = rstate /\ listed' = listed
          \/ rstate' = [rstate EXCEPT ![r] = "FINISHED"] /\ listed' = listed \ {r}
        BY DEF AfterEnd
    <2> QED BY <1>3, <2>1 DEF Inv, Typed, States
<1>5. /\ told' \in [Players -> Tellings] /\ stale' \subseteq stale
      /\ \A p \in Players : told'[p] = told[p] \/ told'[p].room = Nowhere
      /\ \A s \in listed' : \A p \in Members(s) : told'[p] = told[p]
    <2>1. NoNews \in Tellings /\ NoNews.room = Nowhere
        BY DEF NoNews, Tellings
    <2>2. CASE r \in listed
        <3>1. /\ told' = [p \in Players |-> IF p \in Members(r) THEN NoNews ELSE told[p]]
              /\ stale' = stale \ Members(r) /\ listed' = listed \ {r}
            BY <2>2 DEF AfterEnd
        <3>2. \A s \in listed' : \A p \in Members(s) : p \notin Members(r) /\ p \in Players
            BY <2>2, <3>1, RangeOfSeq DEF Inv, Seated, Typed, Members
        <3> QED BY <2>1, <3>1, <3>2 DEF Inv, Typed
    <2>3. CASE r \notin listed
        <3>1. UNCHANGED <<listed, told, stale>>
            BY <2>3 DEF AfterEnd
        <3> QED BY <3>1 DEF Inv, Typed
    <2> QED BY <2>2, <2>3
<1>6. Typed'
    BY <1>1, <1>2, <1>4, <1>5 DEF Inv, Typed
<1>7. Seated' /\ Idle'
    BY <1>1, <1>4 DEF Inv, Seated, Members, Idle, Free
<1>8. Driving'
    BY <1>1, <1>2, <1>4, NoCallIs DEF Inv, Driving, Driven
<1>9. HostBusy'
    BY <1>1, <1>2, NoCallIs, NewsAssumption DEF Inv, HostBusy
<1>10. Past'
    BY <1>1, <1>4, <1>5, NewsAssumption DEF Inv, Past
<1>11. OnItsWay'
    <2> SUFFICES ASSUME NEW s \in listed', NEW x \in Members(s), Due(x, s)'
                 PROVE  \E y \in Players : post[y].room = s /\ x \in Range(post[y].todo)
        BY <1>1 DEF OnItsWay, Members
    <2>1. Due(x, s)
        BY <1>1, <1>3, <1>4, <1>5 DEF Due, Inv, Typed
    <2> QED BY <1>4, <2>1 DEF Inv, OnItsWay
<1> QED BY <1>6, <1>7, <1>8, <1>9, <1>10, <1>11 DEF Inv

-----------------------------------------------------------------------------

(* The inductive invariant, and the first theorem *)

LEMMA InitHolds ==
    ASSUME Init
    PROVE  Inv
<1>1. /\ <<>> \in Seq(Players) /\ NoPost \in Posts /\ NoCall \in Calls /\ NoNews \in Tellings
      /\ NoPost.room = Nowhere /\ NoPost.todo = <<>> /\ NoNews.room = Nowhere
    BY EmptySeq DEF NoPost, Posts, NoCall, Calls, NoNews, Tellings
<1>2. Typed
    BY <1>1 DEF Init, Typed, States
<1>3. Seated /\ Driving /\ Idle /\ HostBusy
    BY <1>1, NoCallIs, NewsAssumption
    DEF Init, Seated, IsInjective, Driving, Driven, Idle, HostBusy
<1>4. Past /\ OnItsWay
    BY <1>1, NewsAssumption DEF Init, Past, OnItsWay
<1> QED BY <1>2, <1>3, <1>4 DEF Inv

LEMMA StepKeeps ==
    ASSUME Inv, [Next]_vars
    PROVE  Inv'
<1>1. CASE \E p \in Players : SendState(p)
    BY <1>1, SendStateKeeps
<1>2. CASE \E p \in Players, r \in Rooms :
              CreateRoom(p, r) \/ JoinRoom(p, r) \/ LeaveRoom(p, r) \/ StartRoom(p, r)
    BY <1>2, CreateRoomKeeps, JoinRoomKeeps, LeaveRoomKeeps, StartRoomKeeps
<1>3. CASE \E r \in Rooms : \E members \in Lineups : MakeMatch(r, members)
    BY <1>3, MakeMatchKeeps
<1>4. CASE \E r \in Rooms, d \in Drivers :
              \/ StartCountdown(r, d) \/ SendNews(r, d) \/ AfterFound(r, d) \/ AfterStart(r, d)
              \/ EndMatch(r, d) \/ LoopStops(r, d) \/ AfterEnd(r, d)
    BY <1>4, CountdownKeeps, SendNewsKeeps, AfterStartKeeps, LoopStopsKeeps, AfterEndKeeps
<1>5. CASE UNCHANGED vars
    <2>1. UNCHANGED <<listed, roster, rstate, post, call, told, stale, custom>>
        BY <1>5 DEF vars
    <2>2. Typed' /\ Seated' /\ Idle'
        BY <2>1 DEF Inv, Typed, Seated, Members, Idle, Free
    <2>3. Driving'
        BY <2>1 DEF Inv, Driving, Driven
    <2>4. HostBusy' /\ Past'
        BY <2>1 DEF Inv, HostBusy, Past
    <2>5. OnItsWay'
        BY <2>1 DEF Inv, OnItsWay, Members, Due
    <2> QED BY <2>2, <2>3, <2>4, <2>5 DEF Inv
<1> QED BY <1>1, <1>2, <1>3, <1>4, <1>5 DEF Next

LEMMA Invariance == Spec => []Inv
<1>1. Init => Inv
    BY InitHolds
<1>2. Inv /\ [Next]_vars => Inv'
    BY StepKeeps
<1> QED BY <1>1, <1>2, PTL DEF Spec

\* Of any number of broadcasts about a room that overlap, none leaves an older
\* state behind: when they are over, whoever was last sent the state of his room
\* knows its members, and in a room that players made everybody was sent one and
\* knows whether the room has started.
THEOREM RosterReachesAll == Spec => []RosterKnown
<1>1. Inv => RosterKnown
    <2> SUFFICES ASSUME Inv, NEW r \in listed, Quiet(r), NEW p \in Members(r)
                 PROVE  /\ told[p].room = r => p \notin stale
                        /\ r \in custom =>
                              /\ told[p].room # Nowhere
                              /\ told[p].room = r => (told[p].started <=> rstate[r] # "WAITING")
        BY DEF RosterKnown
    <2>1. r \in Rooms /\ p \in Players
        BY RangeOfSeq DEF Inv, Typed, Members
    <2>2. ASSUME Due(p, r)
          PROVE  FALSE
        <3>1. PICK q \in Players : post[q].room = r /\ p \in Range(post[q].todo)
            BY <2>2 DEF Inv, OnItsWay
        <3>2. post[q].todo = <<>>
            BY <3>1 DEF Quiet
        <3> QED BY <3>1, <3>2 DEF Range
    <2>3. rstate[r] = "WAITING" /\ told[p].room = r => ~told[p].started
        BY <2>1 DEF Inv, Past
    <2> QED BY <2>2, <2>3 DEF Due
<1> QED BY <1>1, Invariance, PTL

-----------------------------------------------------------------------------

(* Who is passed over *)

\* What FewPassedOver says of one driver of one room.
Round(r, d) ==
    call[r][d].news \in News =>
        /\ Cardinality(PassedOver(r, d)) <= call[r][d].gone
        /\ \A i \in DOMAIN roster[r] : i >= call[r][d].at => i \in Untold(r, d)

\* A message that begins has passed over nobody.
LEMMA BeginRound ==
    ASSUME Inv, NEW r \in Rooms, NEW d \in Drivers, NEW news \in News, Begin(r, d, news),
           roster' = roster
    PROVE  Round(r, d)'
<1>1. call'[r][d] = Call(news, call[r][d].host)
    BY DEF Begin, Inv, Typed
<1>2. call'[r][d].at = 1 /\ call'[r][d].got = {} /\ call'[r][d].gone = 0
    BY <1>1, HostOfCall, CallIs
<1>3. DOMAIN roster'[r] = 1..Len(roster'[r]) /\ Len(roster'[r]) \in Nat
    BY LenProperties DEF Inv, Typed
<1>4. PassedOver(r, d)' = {}
    BY <1>2, <1>3 DEF PassedOver, Untold
<1>5. \A i \in DOMAIN roster'[r] : i \in Untold(r, d)'
    BY <1>2 DEF Untold
<1> QED BY <1>2, <1>4, <1>5, FS_EmptySet DEF Round

\* The places passed over are places of a list.
LEMMA PassedOverFinite ==
    ASSUME Typed, NEW r \in Rooms, NEW d \in Drivers
    PROVE  /\ IsFiniteSet(PassedOver(r, d)) /\ Cardinality(PassedOver(r, d)) \in Nat
           /\ PassedOver(r, d) \subseteq 1..Len(roster[r])
           /\ Len(roster[r]) \in Nat /\ DOMAIN roster[r] = 1..Len(roster[r])
<1>1. DOMAIN roster[r] = 1..Len(roster[r]) /\ Len(roster[r]) \in Nat
    BY LenProperties DEF Typed
<1>2. PassedOver(r, d) \subseteq 1..Len(roster[r])
    BY <1>1 DEF PassedOver, Untold
<1>3. IsFiniteSet(1..Len(roster[r]))
    <2>1. PICK n \in Int : n = Len(roster[r])
        BY <1>1
    <2> QED BY <2>1, FS_Interval
<1> QED BY <1>1, <1>2, <1>3, FS_Subset, FS_CardinalityType

\* One send passes over nobody, and the next one is another.
LEMMA SendRound ==
    ASSUME Inv, NEW r \in Rooms, NEW d \in Drivers, Round(r, d), SendNews(r, d)
    PROVE  Round(r, d)'
<1> DEFINE c == call[r][d]
           q == roster[r][c.at]
<1>1. c.news \in News /\ roster' = roster /\ c \in Calls
    BY DEF SendNews, Inv, Typed
<1>2. c.at \in 1..Len(roster[r]) /\ q \in Players
    BY SendNewsFacts
<1>3. /\ call'[r][d].at = c.at + 1 /\ call'[r][d].gone = c.gone
      /\ call'[r][d].got = c.got \cup {q}
    <2>1. PICK new \in Calls :
              /\ call' = [call EXCEPT ![r][d] = new]
              /\ new.at = c.at + 1 /\ new.gone = c.gone /\ new.got = c.got \cup {q}
        BY SendNewsFacts
    <2>2. call'[r][d] = new
        BY <2>1 DEF Inv, Typed
    <2> QED BY <2>1, <2>2
<1>4. /\ IsFiniteSet(PassedOver(r, d)) /\ Cardinality(PassedOver(r, d)) \in Nat
      /\ DOMAIN roster[r] = 1..Len(roster[r]) /\ Len(roster[r]) \in Nat
    BY PassedOverFinite DEF Inv
<1>5. \A i \in DOMAIN roster[r] : i # c.at => roster[r][i] # q
    BY <1>2, <1>4 DEF Inv, Seated, IsInjective
<1>6. c.gone \in Nat
    BY <1>1 DEF Calls
<1>7. /\ Cardinality(PassedOver(r, d)) <= c.gone
      /\ \A i \in DOMAIN roster[r] : i >= c.at => roster[r][i] \notin c.got
      /\ PassedOver(r, d) = {i \in DOMAIN roster[r] : roster[r][i] \notin c.got /\ i < c.at}
    BY <1>1 DEF Round, Untold, PassedOver
<1>8. /\ PassedOver(r, d)' = {i \in DOMAIN roster[r] : roster[r][i] \notin c.got \cup {q} /\ i < c.at + 1}
      /\ Untold(r, d)' = {i \in DOMAIN roster[r] : roster[r][i] \notin c.got \cup {q}}
    BY <1>1, <1>3 DEF PassedOver, Untold
<1> HIDE DEF q, c
<1>9. PassedOver(r, d)' \subseteq PassedOver(r, d)
    <2> SUFFICES ASSUME NEW i \in DOMAIN roster[r], i < c.at + 1,
                        roster[r][i] \notin c.got \cup {q}
                 PROVE  i < c.at
        BY <1>7, <1>8
    <2>1. i # c.at
        BY DEF q
    <2> QED BY <1>2, <1>4, <2>1
<1>10. /\ Cardinality(PassedOver(r, d)') <= Cardinality(PassedOver(r, d))
       /\ Cardinality(PassedOver(r, d)') \in Nat
    BY <1>4, <1>9, FS_Subset, FS_CardinalityType
<1>11. ASSUME NEW i \in DOMAIN roster[r], i >= c.at + 1
       PROVE  roster[r][i] \notin c.got \cup {q}
    <2>1. i >= c.at /\ i # c.at
        BY <1>2, <1>4, <1>11
    <2> QED BY <1>5, <1>7, <2>1
<1>12. Cardinality(PassedOver(r, d)') <= call'[r][d].gone
    BY <1>3, <1>4, <1>6, <1>7, <1>10 DEF c
<1>13. \A i \in DOMAIN roster'[r] : i >= call'[r][d].at => i \in Untold(r, d)'
    BY <1>1, <1>3, <1>8, <1>11 DEF c
<1> QED BY <1>12, <1>13 DEF Round

LEMMA OneMore ==
    ASSUME NEW S, IsFiniteSet(S), NEW x
    PROVE  /\ IsFiniteSet(S \cup {x}) /\ Cardinality(S) \in Nat
           /\ Cardinality(S \cup {x}) <= Cardinality(S) + 1
<1>1. Cardinality(S) \in Nat
    BY FS_CardinalityType
<1>2. /\ IsFiniteSet(S \cup {x})
      /\ Cardinality(S \cup {x}) = Cardinality(S) \/ Cardinality(S \cup {x}) = Cardinality(S) + 1
    BY FS_AddElement
<1> QED BY <1>1, <1>2

\* Who leaves may take one of those behind him past the message, and is counted.
LEMMA LeaveRound ==
    ASSUME Inv, NEW r \in Rooms, NEW d \in Drivers, Round(r, d), NEW p \in Players, LeaveRoom(p, r)
    PROVE  Round(r, d)'
<1> SUFFICES ASSUME call'[r][d].news \in News
             PROVE  Round(r, d)'
    BY DEF Round
<1> DEFINE s == roster[r]
           t == RemoveFirst(s, p)
           n == Len(s)
           at == call[r][d].at
           got == call[r][d].got
<1>1. /\ p \in Range(s) /\ roster'[r] = t /\ call[r][d] \in Calls
      /\ s \in Seq(Players)
    <2>1. In(p, r) /\ Resettle(r, t, {p})
        BY DEF LeaveRoom
    <2> QED BY <2>1 DEF Inv, Typed, In, Members, Resettle
<1>2. /\ call[r][d].news \in News /\ call'[r][d].at = at /\ call'[r][d].got = got \ {p}
      /\ call'[r][d].gone = call[r][d].gone + 1
    <2>1. call' = OneGone(p, r) \/ call' = Silence(r)
        BY DEF LeaveRoom
    <2>2. call' = OneGone(p, r)
        BY <2>1, SilenceFacts, NoCallIs DEF Inv
    <2> QED BY <2>2, OneGoneFacts DEF Inv
<1>3. PICK k \in 1..n :
          /\ s[k] = p /\ t \in Seq(Players) /\ Len(t) = n - 1
          /\ \A i \in 1..n - 1 : t[i] = IF i < k THEN s[i] ELSE s[i + 1]
    <2> HIDE DEF s
    <2>1. s \in Seq(Players) /\ p \in Range(s)
        BY <1>1
    <2> QED BY <2>1, RemoveFacts
<1>4. /\ n \in Nat /\ DOMAIN s = 1..n /\ DOMAIN t = 1..n - 1 /\ at \in Nat /\ call[r][d].gone \in Nat
      /\ \A i \in 1..n : i >= at => s[i] \notin got
    BY <1>1, <1>2, <1>3, LenProperties DEF Round, Untold, Calls
<1>5. \A i \in 1..n - 1 : t[i] # p
    <2>1. Range(t) = Range(s) \ {p}
        BY <1>1, StayingFacts DEF Inv, Seated
    <2> QED BY <1>4, <2>1 DEF Range
<1> DEFINE U == {i \in 1..n : i < at /\ s[i] \notin got}
           V == {i \in 1..n - 1 : i < at /\ t[i] \notin got}
<1>6. U = PassedOver(r, d) /\ V = PassedOver(r, d)'
    BY <1>1, <1>2, <1>4, <1>5 DEF PassedOver, Untold
<1>7. IsFiniteSet(U) /\ Cardinality(U) <= call[r][d].gone /\ Cardinality(U) \in Nat
    BY <1>2, <1>6, PassedOverFinite DEF Inv, Round
<1> HIDE DEF s, t, n, at, got
<1> DEFINE f == [j \in U |-> IF j < k THEN j ELSE j - 1]
           W == {f[j] : j \in U}
<1>8. V \subseteq W \cup {at - 1}
    <2> SUFFICES ASSUME NEW i \in V, i # at - 1
                 PROVE  \E j \in U : f[j] = i
        OBVIOUS
    <2>1. i \in 1..n - 1 /\ i < at /\ t[i] \notin got /\ i < at - 1
        BY <1>4
    <2>2. CASE i < k
        <3>1. i \in U
            BY <1>3, <1>4, <2>1, <2>2
        <3> QED BY <2>2, <3>1
    <2>3. CASE ~ (i < k)
        <3>1. i + 1 \in U
            BY <1>3, <1>4, <2>1, <2>3
        <3>2. ~ (i + 1 < k) /\ (i + 1) - 1 = i
            BY <1>3, <2>1, <2>3
        <3> QED BY <3>1, <3>2
    <2> QED BY <2>2, <2>3
<1>9. IsFiniteSet(W) /\ Cardinality(W) <= Cardinality(U)
    <2>1. f \in Surjection(U, W)
        BY DEF Surjection
    <2> HIDE DEF f, U, W
    <2> QED BY <1>7, <2>1, FS_Surjection
<1> HIDE DEF f, W, U, V
<1>10. /\ IsFiniteSet(W \cup {at - 1}) /\ Cardinality(W) \in Nat
       /\ Cardinality(W \cup {at - 1}) <= Cardinality(W) + 1
    BY <1>9, OneMore
<1>11. Cardinality(V) <= Cardinality(W \cup {at - 1}) /\ Cardinality(V) \in Nat
       /\ Cardinality(W \cup {at - 1}) \in Nat
    BY <1>8, <1>10, FS_Subset, FS_CardinalityType
<1>12. Cardinality(V) <= call[r][d].gone + 1
    BY <1>4, <1>7, <1>9, <1>10, <1>11
<1>13. \A i \in 1..n - 1 : i >= at => t[i] \notin got
    <2> SUFFICES ASSUME NEW i \in 1..n - 1, i >= at
                 PROVE  t[i] \notin got
        OBVIOUS
    <2>1. i \in 1..n /\ i + 1 \in 1..n /\ i + 1 >= at
        BY <1>4
    <2> QED BY <1>3, <1>4, <2>1
<1>14. \A i \in DOMAIN roster'[r] : i >= call'[r][d].at => i \in Untold(r, d)'
    BY <1>1, <1>2, <1>4, <1>13 DEF Untold
<1> QED BY <1>2, <1>6, <1>12, <1>14 DEF Round

\* Only the steps of a driver, and who leaves, change what its message has passed over.
LEMMA RoundKeeps ==
    ASSUME Inv, FewPassedOver, [Next]_vars
    PROVE  FewPassedOver'
<1> SUFFICES ASSUME NEW r \in Rooms, NEW d \in Drivers, call'[r][d].news \in News
             PROVE  Round(r, d)'
    BY DEF FewPassedOver, Round
<1>1. Round(r, d) /\ Typed
    BY DEF FewPassedOver, Round, Inv
<1>2. ASSUME call'[r][d] = call[r][d], roster'[r] = roster[r]
      PROVE  Round(r, d)'
    BY <1>1, <1>2 DEF Round, PassedOver, Untold
<1>3. ASSUME NEW s \in Rooms, NEW e \in Drivers, NEW news \in News, Begin(s, e, news),
             roster' = roster
      PROVE  Round(r, d)'
    <2>1. CASE s = r /\ e = d
        BY <1>3, <2>1, BeginRound
    <2>2. CASE s # r \/ e # d
        BY <1>1, <1>2, <1>3, <2>2 DEF Begin, Typed
    <2> QED BY <2>1, <2>2
<1>4. ASSUME NEW s \in Rooms, NEW e \in Drivers, NEW c \in Calls,
             call' = [call EXCEPT ![s][e] = c], c.news \notin News
      PROVE  call'[r][d] = call[r][d] /\ (s = r => e # d)
    <2>1. s # r \/ e # d => call'[r][d] = call[r][d]
        BY <1>1, <1>4, CallFacts
    <2>2. call'[s][e] = c
        BY <1>1, <1>4, CallFacts
    <2> QED BY <1>4, <2>1, <2>2
<1>5. \A s \in Rooms : rstate[s] \in {"NEW", "WAITING"} => \A e \in Drivers : call[s][e].news \notin News
    BY DEF Inv, Driving, Driven, News
<1>6. CASE \E p \in Players : SendState(p)
    BY <1>2, <1>6 DEF SendState
<1>7. ASSUME NEW p \in Players, NEW s \in Rooms, CreateRoom(p, s) \/ JoinRoom(p, s)
      PROVE  Round(r, d)'
    <2>1. /\ rstate[s] \in {"NEW", "WAITING"} /\ call' = call
          /\ \E members, moving : Resettle(s, members, moving)
        BY <1>7 DEF CreateRoom, JoinRoom
    <2>2. s # r => roster'[r] = roster[r]
        BY <1>1, <2>1 DEF Resettle, Typed
    <2> QED BY <1>2, <1>5, <2>1, <2>2
<1>8. ASSUME NEW p \in Players, NEW s \in Rooms, StartRoom(p, s)
      PROVE  Round(r, d)'
    <2> DEFINE c == [NoCall EXCEPT !.news = "scheduled", !.host = p]
    <2>1. c \in Calls /\ c.news \notin News
        BY DEF NoCall, Calls, News
    <2>2. call' = [call EXCEPT ![s]["host"] = c] /\ roster' = roster
        BY <1>8 DEF StartRoom
    <2> HIDE DEF c
    <2> QED BY <1>2, <1>4, <2>1, <2>2 DEF Drivers
<1>9. ASSUME NEW p \in Players, NEW s \in Rooms, LeaveRoom(p, s)
      PROVE  Round(r, d)'
    <2>1. CASE s = r
        BY <1>1, <1>9, <2>1, LeaveRound
    <2>2. CASE s # r
        <3>1. call' = OneGone(p, s) \/ call' = Silence(s)
            BY <1>9 DEF LeaveRoom
        <3>2. call'[r] = call[r]
            BY <1>1, <2>2, <3>1, OneGoneFacts, SilenceFacts
        <3>3. roster'[r] = roster[r]
            BY <1>1, <1>9, <2>2 DEF LeaveRoom, Resettle, Typed
        <3> QED BY <1>2, <3>2, <3>3
    <2> QED BY <2>1, <2>2
<1>10. ASSUME NEW s \in Rooms, NEW members \in Lineups, MakeMatch(s, members)
       PROVE  Round(r, d)'
    <2> DEFINE c == [NoCall EXCEPT !.news = "scheduled"]
    <2>1. c \in Calls /\ c.news \notin News
        BY DEF NoCall, Calls, News
    <2>2. /\ call' = [call EXCEPT ![s]["matchmaker"] = c] /\ rstate[s] = "NEW"
          /\ Resettle(s, members, Range(members))
        BY <1>10 DEF MakeMatch
    <2> HIDE DEF c
    <2>3. call'[r][d] = call[r][d]
        BY <1>4, <2>1, <2>2 DEF Drivers
    <2>4. s # r => roster'[r] = roster[r]
        BY <1>1, <2>2 DEF Resettle, Typed
    <2> QED BY <1>2, <1>5, <2>2, <2>3, <2>4
<1>11. ASSUME NEW s \in Rooms, NEW e \in Drivers,
              StartCountdown(s, e) \/ AfterFound(s, e) \/ EndMatch(s, e)
       PROVE  Round(r, d)'
    <2>1. roster' = roster /\ \E news \in News : Begin(s, e, news)
        BY <1>11 DEF StartCountdown, AfterFound, EndMatch, News
    <2> QED BY <1>3, <2>1
<1>12. ASSUME NEW s \in Rooms, NEW e \in Drivers, SendNews(s, e)
       PROVE  Round(r, d)'
    <2>1. CASE s = r /\ e = d
        BY <1>1, <1>12, <2>1, SendRound
    <2>2. CASE s # r \/ e # d
        <3>1. \E c \in Calls : call' = [call EXCEPT ![s][e] = c]
            BY <1>12, SendNewsFacts
        <3>2. call'[r][d] = call[r][d]
            BY <1>1, <2>2, <3>1, CallFacts
        <3> QED BY <1>2, <1>12, <3>2 DEF SendNews
    <2> QED BY <2>1, <2>2
<1>13. ASSUME NEW s \in Rooms, NEW e \in Drivers, AfterStart(s, e) \/ LoopStops(s, e)
       PROVE  Round(r, d)'
    <2>1. [NoCall EXCEPT !.news = "playing"] \in Calls
          /\ [NoCall EXCEPT !.news = "playing"].news \notin News
        BY DEF NoCall, Calls, News
    <2>2. /\ roster' = roster
          /\ \E c \in Calls : c.news \notin News /\ call' = [call EXCEPT ![s][e] = c]
        BY <1>13, <2>1, NoCallIs DEF AfterStart, LoopStops
    <2> QED BY <1>2, <1>4, <2>2
<1>14. ASSUME NEW s \in Rooms, NEW e \in Drivers, AfterEnd(s, e)
       PROVE  Round(r, d)'
    <2>1. /\ \A x \in Drivers : call'[s][x] = NoCall \/ call'[s][x] = call[s][x]
          /\ \A x \in Rooms \ {s} : call'[x] = call[x]
        BY <1>1, <1>14, AfterEndFacts
    <2>2. call'[r][d] = call[r][d] /\ roster' = roster
        BY <1>14, <2>1, NoCallIs DEF AfterEnd
    <2> QED BY <1>2, <2>2
<1>15. CASE UNCHANGED vars
    BY <1>2, <1>15 DEF vars
<1> QED BY <1>6, <1>7, <1>8, <1>9, <1>10, <1>11, <1>12, <1>13, <1>14, <1>15 DEF Next

\* However many leave while a message to all goes round, it passes over no more
\* of those who stay than have left, and comes to nobody a second time.
THEOREM PassesOverFew == Spec => []FewPassedOver
<1>1. Init => FewPassedOver
    BY NoCallIs DEF Init, FewPassedOver
<1>2. Inv /\ FewPassedOver /\ [Next]_vars => FewPassedOver'
    BY RoundKeeps
<1> QED BY <1>1, <1>2, Invariance, PTL DEF Spec

=============================================================================
