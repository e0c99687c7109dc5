------------------------- MODULE SnapshotViewProofs -------------------------
(***************************************************************************)
(* What the player sees never runs backwards, keeps the interpolation      *)
(* delay and shows one moment of the match, for every number of players,   *)
(* length of the match, size of the buffer and delay.                      *)
(***************************************************************************)
EXTENDS SnapshotView, SequenceTheorems, FiniteSetTheorems, TLAPS

(* The inductive invariant *)

Snakes == [alive : BOOLEAN, meals : Nat, segments : Nat]

Pictures == [alive : BOOLEAN, score : Nat, length : Nat, segments : Nat]

\* The snakes of a snapshot: some players, each with his picture.
Moments == UNION {[S -> Pictures] : S \in SUBSET Players}

Messages ==
    [type : {"player_eliminated"}, who : SUBSET Players] \cup [type : {"match_end"}]
        \cup [type : {"snapshot"}, tick : Nat]

Entries == [tick : Nat, age : 0..Delay + 1]

Typed ==
    /\ DOMAIN world \subseteq Players /\ world \in [DOMAIN world -> Snakes]
    /\ pending \subseteq Players
    /\ record \in Seq([timeLeft : Int, snakes : Moments])
    /\ down \in Seq(Messages)
    /\ buffer \in Seq(Entries)
    /\ heard \in Seq(0..Delay + 1)
    /\ state \in [tick : Nat, snakes : Moments, timeLeft : Int]

\* Nobody joins a match and no body shrinks from one moment to a later one.
Precedes(old, new) ==
    /\ DOMAIN new \subseteq DOMAIN old
    /\ \A p \in DOMAIN new : old[p].segments <= new[p].segments

\* The snapshots are a history of one match, and the player is in all of them.
Recorded ==
    /\ Me \in DOMAIN world
    /\ \A t \in DOMAIN record :
          record[t].timeLeft = Duration - t /\ Precedes(record[t].snakes, world)
    /\ \A s, t \in DOMAIN record : s < t => Precedes(record[s].snakes, record[t].snakes)

\* The connection holds the snapshots that are taken and not heard, in order.
Delivered ==
    /\ Len(heard) <= Len(record)
    /\ \A i \in DOMAIN down : down[i].type = "snapshot" =>
          down[i].tick \in Len(heard) + 1..Len(record)
    /\ \A i, j \in DOMAIN down :
          i < j /\ down[i].type = "snapshot" /\ down[j].type = "snapshot" =>
              down[i].tick < down[j].tick
    /\ \A t \in Len(heard) + 1..Len(record) :
          \E i \in DOMAIN down : down[i].type = "snapshot" /\ down[i].tick = t

\* The buffer holds the last snapshots heard, without a gap, and what came
\* earlier is older.
Buffered ==
    /\ Len(buffer) <= Len(heard) /\ (heard # <<>> => buffer # <<>>)
    /\ \A i \in DOMAIN buffer :
          /\ buffer[i].tick = Len(heard) - Len(buffer) + i
          /\ buffer[i].age = heard[buffer[i].tick]
    /\ \A s, t \in DOMAIN heard : s <= t => heard[s] >= heard[t]

\* The snapshot shown is the oldest in the buffer, or the one before it came
\* a whole delay ago.
Shown ==
    /\ state # NoState => state.tick \in 1..Len(heard)
    /\ state.tick > 0 => \/ state.tick <= buffer[1].tick
                         \/ state.tick > 1 /\ heard[state.tick - 1] >= Delay

Inv == Typed /\ Recorded /\ Delivered /\ Buffered /\ Shown

-----------------------------------------------------------------------------

(* Numbers, sequences and pictures *)

\* A set of numbers that is not empty has a least one.
LEMMA LeastNumber ==
    ASSUME NEW S, S \subseteq Nat, S # {}
    PROVE  \E m \in S : \A k \in S : m <= k
<1>1. PICK m \in S : \A k \in S : ~ (<<k, m>> \in OpToRel(<, Nat))
    BY NatLessThanWellFounded, WFMin
<1>2. \A k \in S : ~ (k < m)
    BY <1>1 DEF OpToRel
<1> QED BY <1>2

\* A function on 1..n is a sequence of that length.
LEMMA FunctionIsSequence ==
    ASSUME NEW S, NEW n \in Nat, NEW f \in [1..n -> S]
    PROVE  f \in Seq(S) /\ Len(f) = n
<1>1. f \in Seq(S)
    BY SeqDef
<1>2. DOMAIN f = 1..n /\ DOMAIN f = 1..Len(f) /\ Len(f) \in Nat
    BY <1>1, LenProperties
<1> QED BY <1>1, <1>2

\* A sequence of one element.
LEMMA OneElement ==
    ASSUME NEW S, NEW e \in S
    PROVE  <<e>> \in Seq(S) /\ Len(<<e>>) = 1 /\ <<e>>[1] = e
OBVIOUS

\* The places of a sequence.
LEMMA PlaceFacts ==
    ASSUME Typed
    PROVE  /\ Len(record) \in Nat /\ DOMAIN record = 1..Len(record)
           /\ Len(down) \in Nat /\ DOMAIN down = 1..Len(down)
           /\ Len(buffer) \in Nat /\ DOMAIN buffer = 1..Len(buffer)
           /\ Len(heard) \in Nat /\ DOMAIN heard = 1..Len(heard)
           /\ \A t \in DOMAIN record : record[t] \in [timeLeft : Int, snakes : Moments]
           /\ \A i \in DOMAIN down : down[i] \in Messages
           /\ \A i \in DOMAIN buffer : buffer[i] \in Entries
           /\ \A t \in DOMAIN heard : heard[t] \in 0..Delay + 1
           /\ (buffer # <<>> => Len(buffer) > 0) /\ (heard # <<>> => Len(heard) > 0)
           /\ (down # <<>> => Len(down) > 0)
<1>1. \A S : \A s \in Seq(S) :
          /\ Len(s) \in Nat /\ DOMAIN s = 1..Len(s) /\ (s # <<>> => Len(s) > 0)
          /\ \A i \in DOMAIN s : s[i] \in S
    <2> TAKE S
    <2> TAKE s \in Seq(S)
    <2>1. Len(s) \in Nat /\ DOMAIN s = 1..Len(s) /\ s \in [1..Len(s) -> S]
        BY LenProperties
    <2>2. s # <<>> => Len(s) > 0
        BY EmptySeq
    <2> QED BY <2>1, <2>2
<1> QED BY <1>1 DEF Typed

\* A set of pictures, one for each of some players.
LEMMA MomentFacts ==
    ASSUME NEW m
    PROVE  m \in Moments <=> DOMAIN m \subseteq Players /\ m \in [DOMAIN m -> Pictures]
BY DEF Moments

\* Blended with an earlier moment, a moment keeps its snakes as they are.
LEMMA BlendFacts ==
    ASSUME NEW old \in Moments, NEW new \in Moments, Precedes(old, new)
    PROVE  /\ Blend(old, new) \in Moments
           /\ DOMAIN new \subseteq DOMAIN Blend(old, new)
           /\ \A p \in DOMAIN new : Blend(old, new)[p] = new[p]
<1>1. DOMAIN Blend(old, new) = DOMAIN old
    BY DEF Precedes, Blend
<1>2. \A p \in DOMAIN new : Mix(old[p], new[p]) = new[p]
    <2> TAKE p \in DOMAIN new
    <2>1. old[p] \in Pictures /\ new[p] \in Pictures /\ old[p].segments <= new[p].segments
        BY MomentFacts DEF Precedes
    <2> QED BY <2>1 DEF Mix, Pictures
<1>3. \A p \in DOMAIN new : Blend(old, new)[p] = new[p]
    BY <1>1, <1>2 DEF Precedes, Blend
<1>4. \A p \in DOMAIN old : Blend(old, new)[p] \in Pictures
    BY <1>3, MomentFacts DEF Blend
<1>5. Blend(old, new) = [p \in DOMAIN old |-> Blend(old, new)[p]]
    BY <1>1 DEF Blend
<1>6. DOMAIN old \subseteq Players
    BY MomentFacts
<1>7. Blend(old, new) \in [DOMAIN old -> Pictures]
    BY <1>4, <1>5
<1> QED BY <1>1, <1>3, <1>6, <1>7, MomentFacts DEF Precedes

\* get_bracketing finds the oldest or the newest snapshot, or two neighbours
\* with the moment rendered between them.
LEMMA BracketingFacts ==
    ASSUME NEW b \in Seq(Entries), b # <<>>
    PROVE  \/ Bracketing(b) = <<1>> /\ b[1].age <= Delay
           \/ Bracketing(b) = <<Len(b)>> /\ b[1].age > Delay /\ b[Len(b)].age >= Delay
           \/ \E k \in 1..Len(b) - 1 :
                 Bracketing(b) = <<k, k + 1>> /\ b[k].age >= Delay /\ b[k + 1].age <= Delay
<1> DEFINE young == {i \in 1..Len(b) : b[i].age <= Delay}
           between == {i \in 1..Len(b) - 1 : b[i].age >= Delay /\ b[i + 1].age <= Delay}
           k == CHOOSE i \in between : \A j \in between : i <= j
<1>1. Len(b) \in Nat \ {0} /\ (\A i \in 1..Len(b) : b[i].age \in 0..Delay + 1) /\ Delay \in Nat
    <2>1. Len(b) \in Nat \ {0}
        BY EmptySeq
    <2>2. \A i \in 1..Len(b) : b[i] \in Entries
        BY ElementOfSeq
    <2> QED BY <2>1, <2>2, ViewAssumption DEF Entries
<1>2. CASE b[1].age <= Delay \/ b[Len(b)].age >= Delay
    BY <1>1, <1>2 DEF Bracketing, Last
<1> HIDE DEF young, between, k
<1>3. CASE b[1].age > Delay /\ b[Len(b)].age < Delay
    <2>1. young \subseteq Nat /\ young # {}
        BY <1>1, <1>3 DEF young
    <2>2. PICK m \in young : \A i \in young : m <= i
        BY <2>1, LeastNumber
    <2>3. m - 1 \in between
        BY <1>1, <1>3, <2>2 DEF young, between
    <2>4. between \subseteq Nat
        BY <1>1 DEF between
    <2>5. \E i \in between : \A j \in between : i <= j
        BY <2>3, <2>4, LeastNumber
    <2>6. k \in between
        BY <2>5 DEF k
    <2>7. Neighbours(b) = <<k, k + 1>>
        BY DEF Neighbours, between, k
    <2>8. Bracketing(b) = Neighbours(b)
        BY <1>1, <1>3 DEF Bracketing, Last
    <2> QED BY <2>6, <2>7, <2>8 DEF between
<1> QED BY <1>1, <1>2, <1>3

-----------------------------------------------------------------------------

(* A frame *)

\* What one more frame makes of the ages.
LEMMA OlderFacts ==
    ASSUME NEW a \in 0..Delay + 1
    PROVE  /\ Older(a) \in 0..Delay + 1 /\ a <= Older(a)
           /\ a >= Delay => Older(a) > Delay
           /\ \A c \in 0..Delay + 1 : a >= c => Older(a) >= Older(c)
BY ViewAssumption DEF Older

\* A frame ages the snapshots and keeps their places.
LEMMA FrameAges ==
    ASSUME Inv, Frame
    PROVE  /\ buffer' \in Seq(Entries) /\ heard' \in Seq(0..Delay + 1)
           /\ Len(buffer') = Len(buffer) /\ Len(heard') = Len(heard)
           /\ \A i \in 1..Len(buffer) :
                 /\ buffer'[i].tick = buffer[i].tick
                 /\ buffer'[i].age = heard'[buffer[i].tick]
                 /\ buffer[i].tick = Len(heard) - Len(buffer) + i
           /\ \A t \in 1..Len(heard) : heard[t] \in 0..Delay + 1 /\ heard'[t] = Older(heard[t])
           /\ \A s, t \in 1..Len(heard) : s <= t => heard'[s] >= heard'[t]
<1>1. /\ Len(buffer) \in Nat /\ DOMAIN buffer = 1..Len(buffer)
      /\ Len(heard) \in Nat /\ DOMAIN heard = 1..Len(heard)
      /\ \A i \in 1..Len(buffer) : buffer[i] \in Entries
      /\ \A t \in 1..Len(heard) : heard[t] \in 0..Delay + 1
    BY PlaceFacts DEF Inv
<1>2. /\ buffer' = [i \in 1..Len(buffer) |-> [buffer[i] EXCEPT !.age = Older(@)]]
      /\ heard' = [t \in 1..Len(heard) |-> Older(heard[t])]
    BY <1>1 DEF Frame
<1>3. ASSUME NEW i \in 1..Len(buffer)
      PROVE  /\ buffer'[i] \in Entries /\ buffer'[i].tick = buffer[i].tick
             /\ buffer'[i].age = Older(buffer[i].age)
    <2>1. buffer[i] \in Entries
        BY <1>1
    <2>2. Older(buffer[i].age) \in 0..Delay + 1
        BY <2>1, OlderFacts DEF Entries
    <2>3. buffer'[i] = [buffer[i] EXCEPT !.age = Older(buffer[i].age)]
        BY <1>2
    <2> QED BY <2>1, <2>2, <2>3 DEF Entries
<1>4. \A t \in 1..Len(heard) : heard'[t] = Older(heard[t]) /\ heard'[t] \in 0..Delay + 1
    BY <1>1, <1>2, OlderFacts
<1>5. buffer' \in Seq(Entries) /\ Len(buffer') = Len(buffer)
    <2>1. buffer' \in [1..Len(buffer) -> Entries]
        BY <1>2, <1>3
    <2> QED BY <1>1, <2>1, FunctionIsSequence
<1>6. heard' \in Seq(0..Delay + 1) /\ Len(heard') = Len(heard)
    <2>1. heard' \in [1..Len(heard) -> 0..Delay + 1]
        BY <1>2, <1>4
    <2> QED BY <1>1, <2>1, FunctionIsSequence
<1>7. ASSUME NEW i \in 1..Len(buffer)
      PROVE  /\ buffer[i].tick = Len(heard) - Len(buffer) + i
             /\ buffer'[i].age = heard'[buffer[i].tick]
    <2>1. /\ buffer[i].tick = Len(heard) - Len(buffer) + i /\ Len(buffer) <= Len(heard)
          /\ buffer[i].age = heard[buffer[i].tick]
        BY <1>1 DEF Inv, Buffered
    <2>2. buffer[i].tick \in 1..Len(heard)
        BY <1>1, <2>1
    <2> QED BY <1>3, <1>4, <2>1, <2>2
<1>8. ASSUME NEW s \in 1..Len(heard), NEW t \in 1..Len(heard), s <= t
      PROVE  heard'[s] >= heard'[t]
    <2>1. heard[s] >= heard[t]
        BY <1>1, <1>8 DEF Inv, Buffered
    <2> QED BY <1>1, <1>4, <2>1, OlderFacts
<1> QED BY <1>1, <1>3, <1>4, <1>5, <1>6, <1>7, <1>8

\* What a frame draws once a snapshot has come: a moment of the record, with
\* the delay it has.
LEMMA FrameShows ==
    ASSUME Inv, Frame, buffer # <<>>
    PROVE  /\ state'.tick \in 1..Len(heard)
           /\ state'.tick >= buffer[1].tick
           /\ \/ state'.tick = buffer[1].tick
              \/ state'.tick > 1 /\ heard'[state'.tick - 1] >= Delay
           /\ state'.tick = Len(heard) \/ heard'[state'.tick] <= Delay
           /\ \A t \in DOMAIN heard : heard'[t] > Delay => state'.tick >= t
           /\ \A i, j \in DOMAIN buffer :
                 i < j /\ buffer'[i].age < Delay => state'.tick < buffer[j].tick
           /\ state' = [tick |-> state'.tick, timeLeft |-> Duration - state'.tick,
                        snakes |-> state'.snakes]
           /\ state'.snakes \in Moments
           /\ DOMAIN record[state'.tick].snakes \subseteq DOMAIN state'.snakes
           /\ \A p \in DOMAIN record[state'.tick].snakes :
                 state'.snakes[p] = record[state'.tick].snakes[p]
<1>1. /\ Len(buffer) \in Nat \ {0} /\ Len(heard) \in Nat /\ Len(buffer) <= Len(heard)
      /\ Delay \in Nat
    <2>1. Len(buffer) > 0 /\ Len(buffer) \in Nat /\ Len(heard) \in Nat
        BY PlaceFacts DEF Inv
    <2>2. Len(buffer) <= Len(heard)
        BY DEF Inv, Buffered
    <2> QED BY <2>1, <2>2, ViewAssumption
<1>2. \A i \in 1..Len(buffer) :
          /\ buffer[i].tick \in 1..Len(heard)
          /\ buffer[i].tick = Len(heard) - Len(buffer) + i
          /\ buffer'[i].tick = buffer[i].tick /\ buffer'[i].age = heard'[buffer[i].tick]
    BY SMTT(30), <1>1, FrameAges
<1>3. \A t \in 1..Len(heard) : heard'[t] \in 0..Delay + 1
    BY FrameAges, OlderFacts
<1>4. \A s, t \in 1..Len(heard) : s <= t => heard'[s] >= heard'[t]
    BY FrameAges
<1>5. buffer' # <<>> /\ buffer' \in Seq(Entries) /\ Len(buffer') = Len(buffer)
    BY <1>1, FrameAges, EmptySeq
<1>6. /\ \A t \in 1..Len(heard) : /\ record[t].timeLeft = Duration - t
                                /\ record[t].snakes \in Moments
      /\ \A s, t \in 1..Len(heard) : s < t => Precedes(record[s].snakes, record[t].snakes)
    <2>1. /\ Len(heard) <= Len(record) /\ Len(record) \in Nat /\ DOMAIN record = 1..Len(record)
          /\ \A t \in DOMAIN record : record[t] \in [timeLeft : Int, snakes : Moments]
        BY PlaceFacts DEF Inv, Delivered
    <2>2. \A t \in 1..Len(heard) : t \in DOMAIN record
        BY <1>1, <2>1
    <2>3. /\ \A t \in DOMAIN record : record[t].timeLeft = Duration - t
          /\ \A s, t \in DOMAIN record : s < t => Precedes(record[s].snakes, record[t].snakes)
        BY DEF Inv, Recorded
    <2> QED BY <2>1, <2>2, <2>3
<1> DEFINE shown(m, k) ==
        /\ state'.tick = buffer[m].tick /\ state'.timeLeft = Duration - buffer[m].tick
        /\ state' = [tick |-> state'.tick, timeLeft |-> state'.timeLeft, snakes |-> state'.snakes]
        /\ state'.snakes = IF k = m THEN record[buffer[m].tick].snakes
                           ELSE Blend(record[buffer[k].tick].snakes, record[buffer[m].tick].snakes)
<1>7. \E m, k \in 1..Len(buffer) :
          /\ shown(m, k)
          /\ \/ k = m /\ m = 1 /\ buffer'[1].age <= Delay
             \/ k = m /\ m = Len(buffer) /\ buffer'[m].age >= Delay
             \/ m = k + 1 /\ buffer'[k].age >= Delay /\ buffer'[m].age <= Delay
    <2>1. state' = LET place == Bracketing(buffer')
                       newest == buffer'[Last(place)].tick
                   IN  [tick |-> newest, timeLeft |-> record[newest].timeLeft,
                        snakes |-> IF Len(place) = 1 THEN record[newest].snakes
                                   ELSE Blend(record[buffer'[place[1]].tick].snakes,
                                              record[newest].snakes)]
        BY <1>5 DEF Frame, Interpolated
    <2>2. ASSUME NEW m \in 1..Len(buffer), Bracketing(buffer') = <<m>>
          PROVE  shown(m, m)
        <3>1. state' = [tick |-> buffer'[m].tick, timeLeft |-> record[buffer'[m].tick].timeLeft,
                        snakes |-> record[buffer'[m].tick].snakes]
            BY <2>1, <2>2 DEF Last
        <3> QED BY <1>2, <1>6, <3>1
    <2>3. ASSUME NEW k \in 1..Len(buffer) - 1, Bracketing(buffer') = <<k, k + 1>>
          PROVE  shown(k + 1, k)
        <3>1. state' = [tick |-> buffer'[k + 1].tick,
                        timeLeft |-> record[buffer'[k + 1].tick].timeLeft,
                        snakes |-> Blend(record[buffer'[k].tick].snakes,
                                         record[buffer'[k + 1].tick].snakes)]
            BY <2>1, <2>3 DEF Last
        <3>2. k \in 1..Len(buffer) /\ k + 1 \in 1..Len(buffer) /\ k # k + 1
            BY <1>1
        <3> QED BY <1>2, <1>6, <3>1, <3>2
    <2> HIDE DEF shown
    <2>4. CASE Bracketing(buffer') = <<1>> /\ buffer'[1].age <= Delay
        BY <1>1, <2>2, <2>4
    <2>5. CASE Bracketing(buffer') = <<Len(buffer)>> /\ buffer'[Len(buffer)].age >= Delay
        BY <1>1, <2>2, <2>5
    <2>6. ASSUME NEW k \in 1..Len(buffer) - 1, Bracketing(buffer') = <<k, k + 1>>,
                 buffer'[k].age >= Delay, buffer'[k + 1].age <= Delay
          PROVE  <1>7!:
        <3>1. k \in 1..Len(buffer) /\ k + 1 \in 1..Len(buffer)
            BY <1>1
        <3> QED BY <2>3, <2>6, <3>1
    <2> QED BY <1>5, <2>4, <2>5, <2>6, BracketingFacts
<1>8. PICK m \in 1..Len(buffer), k \in 1..Len(buffer) : <1>7!(m, k)
    BY <1>7
<1> DEFINE n == buffer[m].tick
<1>9. /\ n \in 1..Len(heard) /\ n >= buffer[1].tick /\ state'.tick = n
      /\ state' = [tick |-> n, timeLeft |-> Duration - n, snakes |-> state'.snakes]
      /\ k = m => state'.snakes = record[n].snakes
    BY <1>1, <1>2, <1>8
<1>10. \/ n = buffer[1].tick /\ heard'[n] <= Delay
       \/ n = Len(heard) /\ heard'[n] >= Delay
       \/ n > 1 /\ heard'[n - 1] >= Delay /\ heard'[n] <= Delay
    <2>1. CASE k = m /\ m = 1 /\ buffer'[1].age <= Delay
        BY <1>2, <2>1
    <2>2. CASE k = m /\ m = Len(buffer) /\ buffer'[m].age >= Delay
        BY <1>1, <1>2, <2>2
    <2>3. CASE m = k + 1 /\ buffer'[k].age >= Delay /\ buffer'[m].age <= Delay
        <3>1. n = buffer[k].tick + 1 /\ buffer[k].tick \in 1..Len(heard)
            BY <1>1, <1>2, <2>3
        <3>2. buffer[k].tick = n - 1 /\ n > 1
            BY <1>1, <3>1
        <3>3. heard'[n - 1] >= Delay /\ heard'[n] <= Delay
            BY <1>2, <2>3, <3>2
        <3> QED BY <3>2, <3>3
    <2> QED BY <1>8, <2>1, <2>2, <2>3
<1>11. k # m => /\ n - 1 \in 1..Len(heard)
                /\ state'.snakes = Blend(record[n - 1].snakes, record[n].snakes)
    <2> SUFFICES ASSUME k # m
                 PROVE  <1>11!2
        OBVIOUS
    <2>1. m = k + 1
        BY <1>8
    <2>2. n - 1 = buffer[k].tick
        BY <1>1, <1>2, <2>1
    <2> QED BY <1>2, <1>8, <2>2
<1> HIDE DEF n, shown
<1>12. \A t \in 1..Len(heard) : heard'[t] > Delay => n >= t
    <2> SUFFICES ASSUME NEW t \in 1..Len(heard), heard'[t] > Delay, n < t
                 PROVE  FALSE
        BY <1>1, <1>9
    <2>1. heard'[n] >= heard'[t] /\ heard'[n] \in Nat /\ heard'[t] \in Nat
        BY <1>1, <1>3, <1>4, <1>9
    <2> QED BY <1>1, <1>9, <1>10, <2>1
<1>15. n = buffer[1].tick \/ (n > 1 /\ heard'[n - 1] >= Delay)
    <2>1. n > 1 => /\ n - 1 \in 1..Len(heard) /\ heard'[n - 1] >= heard'[n]
                   /\ heard'[n] \in Nat /\ heard'[n - 1] \in Nat
        BY <1>1, <1>3, <1>4, <1>9
    <2>2. 1 \in 1..Len(buffer) /\ buffer[1].tick \in 1..Len(heard)
        BY <1>1, <1>2
    <2> QED BY <1>1, <1>9, <1>10, <2>1, <2>2
<1>17. n = Len(heard) \/ heard'[n] <= Delay
    BY <1>10
<1>16. ASSUME NEW i \in 1..Len(buffer), NEW j \in 1..Len(buffer), i < j,
              buffer'[i].age < Delay
       PROVE  n < buffer[j].tick
    <2> DEFINE t == buffer[i].tick
    <2>1. /\ t \in 1..Len(heard) /\ heard'[t] < Delay
          /\ t < buffer[j].tick /\ buffer[j].tick \in 1..Len(heard)
        BY SMTT(30), <1>1, <1>2, <1>16
    <2>2. buffer[1].tick <= t /\ buffer[1].tick \in Nat
        BY SMTT(30), <1>1, <1>2
    <2> HIDE DEF t
    <2>3. n > 1 /\ heard'[n - 1] >= Delay => n - 1 < t
        <3> SUFFICES ASSUME n > 1, heard'[n - 1] >= Delay, n - 1 >= t
                     PROVE  FALSE
            BY <1>1, <1>9, <2>1
        <3>1. n - 1 \in 1..Len(heard) /\ heard'[t] >= heard'[n - 1]
            BY <1>1, <1>4, <1>9, <2>1
        <3> QED BY <1>1, <1>3, <2>1, <3>1
    <2>4. n = Len(heard) /\ heard'[n] >= Delay => FALSE
        <3> SUFFICES ASSUME n = Len(heard), heard'[n] >= Delay
                     PROVE  FALSE
            OBVIOUS
        <3>1. heard'[t] >= heard'[n]
            BY <1>1, <1>4, <1>9, <2>1
        <3> QED BY SMTT(30), <1>1, <1>3, <1>9, <2>1, <3>1
    <2> QED BY SMTT(30), <1>1, <1>9, <1>10, <2>1, <2>2, <2>3, <2>4
<1>13. /\ state'.snakes \in Moments
       /\ DOMAIN record[n].snakes \subseteq DOMAIN state'.snakes
       /\ \A p \in DOMAIN record[n].snakes : state'.snakes[p] = record[n].snakes[p]
    <2>1. CASE k = m
        BY <1>6, <1>9, <2>1
    <2>2. CASE k # m
        <3>2. Precedes(record[n - 1].snakes, record[n].snakes)
            BY <1>1, <1>6, <1>9, <1>11, <2>2
        <3> QED BY <1>6, <1>9, <1>11, <2>2, <3>2, BlendFacts
    <2> QED BY <2>1, <2>2
<1>14. DOMAIN buffer = 1..Len(buffer) /\ DOMAIN heard = 1..Len(heard)
    BY PlaceFacts DEF Inv
<1> QED BY <1>9, <1>12, <1>13, <1>14, <1>15, <1>16, <1>17

-----------------------------------------------------------------------------

(* Every step preserves the invariant *)

\* Before the first snapshot the scene shows no snakes.
LEMMA InitTyped == NoState \in [tick : Nat, snakes : Moments, timeLeft : Int]
<1>1. <<>> \in Moments
    <2>1. DOMAIN <<>> = {}
        OBVIOUS
    <2>2. <<>> \in [DOMAIN <<>> -> Pictures]
        BY <2>1
    <2> QED BY <2>1, <2>2, MomentFacts
<1> QED BY <1>1 DEF NoState

LEMMA InitHolds == Init => Inv
<1> SUFFICES ASSUME Init
             PROVE  Inv
    OBVIOUS
<1> USE DEF Init
<1>1. Typed
    <2>2. state \in [tick : Nat, snakes : Moments, timeLeft : Int]
        BY InitTyped
    <2>3. world \in [Players -> Snakes]
        BY DEF Snakes
    <2> QED BY <2>2, <2>3, EmptySeq DEF Typed
<1>2. Len(record) = 0 /\ Len(heard) = 0 /\ Len(buffer) = 0 /\ DOMAIN record = {}
      /\ DOMAIN heard = {} /\ DOMAIN buffer = {} /\ DOMAIN down = {}
    OBVIOUS
<1>3. Recorded
    BY <1>2, ViewAssumption DEF Recorded
<1>4. Delivered /\ Buffered
    BY <1>2 DEF Delivered, Buffered
<1>5. Shown
    BY DEF Shown, NoState
<1> QED BY <1>1, <1>3, <1>4, <1>5 DEF Inv

\* What is sent comes after what is under way.
LEMMA SendFacts ==
    ASSUME NEW d \in Seq(Messages), NEW more \in Seq(Messages)
    PROVE  /\ d \o more \in Seq(Messages)
           /\ Len(d) \in Nat /\ Len(more) \in Nat /\ Len(d \o more) = Len(d) + Len(more)
           /\ \A i \in 1..Len(d) : i \in 1..Len(d \o more) /\ (d \o more)[i] = d[i]
           /\ \A i \in 1..Len(d \o more) :
                 i \in 1..Len(d) \/ \E k \in 1..Len(more) : (d \o more)[i] = more[k]
<1>1. /\ d \o more \in Seq(Messages) /\ Len(d \o more) = Len(d) + Len(more)
      /\ \A i \in 1..Len(d) + Len(more) :
            (d \o more)[i] = IF i <= Len(d) THEN d[i] ELSE more[i - Len(d)]
    BY ConcatProperties
<1>2. Len(d) \in Nat /\ Len(more) \in Nat
    BY LenProperties
<1>3. \A i \in 1..Len(d) : i \in 1..Len(d \o more) /\ (d \o more)[i] = d[i]
    BY <1>1, <1>2
<1>4. ASSUME NEW i \in 1..Len(d \o more), i \notin 1..Len(d)
      PROVE  \E k \in 1..Len(more) : (d \o more)[i] = more[k]
    <2>1. i - Len(d) \in 1..Len(more) /\ ~ (i <= Len(d)) /\ i \in 1..Len(d) + Len(more)
        BY <1>1, <1>2, <1>4
    <2> QED BY <1>1, <2>1
<1> QED BY <1>1, <1>2, <1>3, <1>4

\* One iteration of the loop extends the history by the next moment, or ends it.
LEMMA TickFacts ==
    ASSUME Inv, NEW eating \in SUBSET Alive(world), NEW dying \in SUBSET Alive(world),
           Tick(eating, dying)
    PROVE  /\ DOMAIN world' = DOMAIN world /\ world' \in [DOMAIN world -> Snakes]
           /\ \A p \in DOMAIN world : world[p].segments <= world'[p].segments
           /\ pending' = {} /\ UNCHANGED clientVars
           /\ \/ record' = record
                /\ \E more \in Seq(Messages) :
                      /\ down' = down \o more
                      /\ \A i \in 1..Len(more) : more[i].type # "snapshot"
              \/ /\ record' = Append(record, Snapshot(Len(record) + 1, world'))
                 /\ \E more \in Seq(Messages) :
                      /\ down' = Append(down \o more,
                                        [type |-> "snapshot", tick |-> Len(record) + 1])
                      /\ \A i \in 1..Len(more) : more[i].type # "snapshot"
<1> DEFINE news == Eliminated(dying \cup pending)
<1>1. /\ DOMAIN world \subseteq Players /\ world \in [DOMAIN world -> Snakes]
      /\ pending \subseteq Players /\ down \in Seq(Messages) /\ Len(record) \in Nat
    BY PlaceFacts DEF Inv, Typed
<1>2. world' = [p \in DOMAIN world |-> Advanced(world[p], p \in eating, p \in dying)]
    BY DEF Tick
<1>3. ASSUME NEW p \in DOMAIN world
      PROVE  world'[p] \in Snakes /\ world[p].segments <= world'[p].segments
    BY <1>1, <1>2 DEF Advanced, Snakes
<1>4. news \in Seq(Messages) /\ \A i \in 1..Len(news) : news[i].type # "snapshot"
    <2>1. CASE dying \cup pending = {}
        BY <2>1, EmptySeq DEF Eliminated
    <2>2. CASE dying \cup pending # {}
        <3>1. news = <<[type |-> "player_eliminated", who |-> dying \cup pending]>>
            BY <2>2 DEF Eliminated
        <3> DEFINE m == [type |-> "player_eliminated", who |-> dying \cup pending]
        <3>2. m \in Messages /\ m.type = "player_eliminated"
            BY <1>1 DEF Messages, Alive
        <3> HIDE DEF m
        <3>3. <<m>> \in Seq(Messages) /\ \A i \in 1..Len(<<m>>) : <<m>>[i] = m
            BY <3>2, OneElement
        <3> QED BY <3>1, <3>2, <3>3 DEF m
    <2> QED BY <2>1, <2>2
<1> HIDE DEF news
<1>5. CASE Over(Len(record) + 1, world')
    <2> DEFINE m == [type |-> "match_end"]
    <2>1. m \in Messages /\ m.type = "match_end"
        BY DEF Messages
    <2>2. record' = record /\ down' = down \o news \o <<m>>
        BY <1>5 DEF Tick, news
    <2> HIDE DEF m
    <2>5. <<m>> \in Seq(Messages) /\ \A i \in 1..Len(<<m>>) : <<m>>[i] = m
        BY <2>1, OneElement
    <2>3. down' = down \o (news \o <<m>>)
        BY <1>1, <1>4, <2>2, <2>5, ConcatAssociative
    <2>4. /\ news \o <<m>> \in Seq(Messages)
          /\ \A i \in 1..Len(news \o <<m>>) : (news \o <<m>>)[i].type # "snapshot"
        BY <1>4, <2>1, <2>5, SendFacts, LenProperties
    <2> QED BY <1>2, <1>3, <2>2, <2>3, <2>4 DEF Tick
<1>6. CASE ~ Over(Len(record) + 1, world')
    <2>1. [type |-> "snapshot", tick |-> Len(record) + 1] \in Messages
        BY <1>1 DEF Messages
    <2>2. /\ record' = Append(record, Snapshot(Len(record) + 1, world'))
          /\ down' = down \o news \o <<[type |-> "snapshot", tick |-> Len(record) + 1]>>
        BY <1>6 DEF Tick, news
    <2>3. down' = Append(down \o news, [type |-> "snapshot", tick |-> Len(record) + 1])
        BY <1>1, <1>4, <2>1, <2>2, AppendIsConcat, ConcatProperties
    <2> QED BY <1>2, <1>3, <1>4, <2>2, <2>3 DEF Tick
<1> QED BY <1>5, <1>6

\* A moment before an earlier one is before the later one too.
LEMMA PrecedesOn ==
    ASSUME NEW a \in Moments, NEW b, NEW c, Precedes(a, b), Precedes(b, c),
           \A p \in DOMAIN b : b[p].segments \in Nat,
           \A p \in DOMAIN c : c[p].segments \in Nat
    PROVE  Precedes(a, c)
<1>1. \A p \in DOMAIN a : a[p].segments \in Nat
    BY MomentFacts DEF Pictures
<1> QED BY <1>1 DEF Precedes

\* A snapshot shows the snakes as they are.
LEMMA SnapshotFacts ==
    ASSUME Inv, NEW w, DOMAIN w \subseteq Players, w \in [DOMAIN w -> Snakes], NEW tick \in Nat
    PROVE  /\ Snapshot(tick, w) \in [timeLeft : Int, snakes : Moments]
           /\ Snapshot(tick, w).timeLeft = Duration - tick
           /\ DOMAIN Snapshot(tick, w).snakes = DOMAIN w
           /\ \A p \in DOMAIN w : Snapshot(tick, w).snakes[p].segments = w[p].segments
<1> DEFINE shot == [p \in DOMAIN w |-> Pictured(w[p])]
<1>1. shot \in [DOMAIN w -> Pictures] /\ \A p \in DOMAIN w : shot[p].segments = w[p].segments
    BY DEF Pictured, Pictures, Snakes
<1>2. shot \in Moments
    BY <1>1, MomentFacts
<1>3. Snapshot(tick, w) = [timeLeft |-> Duration - tick, snakes |-> shot]
    BY DEF Snapshot
<1> QED BY <1>1, <1>2, <1>3, ViewAssumption

LEMMA TickKeeps ==
    ASSUME Inv, NEW eating \in SUBSET Alive(world), NEW dying \in SUBSET Alive(world),
           Tick(eating, dying)
    PROVE  Inv'
<1> DEFINE n == Len(record)
           shot == Snapshot(n + 1, world')
           message == [type |-> "snapshot", tick |-> n + 1]
<1>1. /\ DOMAIN world' = DOMAIN world /\ world' \in [DOMAIN world' -> Snakes]
      /\ DOMAIN world \subseteq Players /\ world \in [DOMAIN world -> Snakes]
      /\ \A p \in DOMAIN world : world[p].segments <= world'[p].segments
      /\ pending' = {}
      /\ buffer' = buffer /\ heard' = heard /\ state' = state
    BY TickFacts DEF Inv, Typed, clientVars
<1>2. /\ n \in Nat /\ DOMAIN record = 1..n /\ Len(down) \in Nat /\ DOMAIN down = 1..Len(down)
      /\ record \in Seq([timeLeft : Int, snakes : Moments]) /\ down \in Seq(Messages)
      /\ \A t \in 1..n : record[t].snakes \in Moments
      /\ Len(heard) \in Nat /\ Len(heard) <= n
    BY PlaceFacts DEF Inv, Typed, Delivered
<1>3. /\ shot \in [timeLeft : Int, snakes : Moments] /\ shot.timeLeft = Duration - (n + 1)
      /\ DOMAIN shot.snakes = DOMAIN world
      /\ \A p \in DOMAIN world : shot.snakes[p].segments = world'[p].segments
    <2>1. DOMAIN world' \subseteq Players /\ n + 1 \in Nat
        BY <1>1, <1>2
    <2> HIDE DEF n
    <2> QED BY <1>1, <2>1, SnapshotFacts
<1>4. message \in Messages /\ message.type = "snapshot" /\ message.tick = n + 1
    BY <1>2 DEF Messages
<1>5. \A t \in 1..n : /\ record[t].timeLeft = Duration - t
                      /\ Precedes(record[t].snakes, world') /\ Precedes(record[t].snakes, shot.snakes)
    <2> TAKE t \in 1..n
    <2>1. record[t].timeLeft = Duration - t /\ Precedes(record[t].snakes, world)
        BY <1>2 DEF Inv, Recorded
    <2>2. Precedes(world, world') /\ \A p \in DOMAIN world' : world'[p].segments \in Nat
        BY <1>1 DEF Precedes, Snakes
    <2>3. \A p \in DOMAIN world : world[p].segments \in Nat
        BY <1>1 DEF Snakes
    <2>4. Precedes(record[t].snakes, world')
        BY <1>2, <2>1, <2>2, <2>3, PrecedesOn
    <2>5. Precedes(record[t].snakes, shot.snakes)
        BY <1>1, <1>3, <2>4 DEF Precedes
    <2> QED BY <2>1, <2>4, <2>5
<1>6. Precedes(shot.snakes, world')
    BY <1>1, <1>3 DEF Precedes, Snakes
<1>7. Buffered' /\ Shown'
    BY <1>1 DEF Inv, Buffered, Shown
<1> HIDE DEF shot, message
<1>8. ASSUME NEW more \in Seq(Messages), record' = record, down' = down \o more,
             \A i \in 1..Len(more) : more[i].type # "snapshot"
      PROVE  Inv'
    <2>1. Typed'
        BY <1>1, <1>8, SendFacts DEF Inv, Typed
    <2>2. Recorded'
        BY <1>1, <1>2, <1>5, <1>8 DEF Inv, Recorded
    <2>3. /\ \A i \in DOMAIN down : i \in DOMAIN down' /\ down'[i] = down[i]
          /\ \A i \in DOMAIN down' : down'[i].type = "snapshot" => i \in DOMAIN down
        <3>1. /\ DOMAIN down' = 1..Len(down \o more)
              /\ \A i \in 1..Len(down) : i \in 1..Len(down \o more) /\ down'[i] = down[i]
              /\ \A i \in 1..Len(down \o more) :
                    i \in 1..Len(down) \/ \E k \in 1..Len(more) : down'[i] = more[k]
            BY <1>2, <1>8, SendFacts, LenProperties
        <3> QED BY <1>2, <1>8, <3>1
    <2>4. Delivered'
        BY <1>1, <1>8, <2>3 DEF Inv, Delivered
    <2> QED BY <1>7, <2>1, <2>2, <2>4 DEF Inv
<1>9. ASSUME NEW more \in Seq(Messages), record' = Append(record, shot),
             down' = Append(down \o more, message),
             \A i \in 1..Len(more) : more[i].type # "snapshot"
      PROVE  Inv'
    <2> DEFINE sent == down \o more
               last == Len(sent) + 1
    <2>1. /\ record' \in Seq([timeLeft : Int, snakes : Moments]) /\ Len(record') = n + 1
          /\ DOMAIN record' = 1..n + 1
          /\ \A t \in 1..n : record'[t] = record[t]
          /\ record'[n + 1] = shot
        BY <1>2, <1>3, <1>9, AppendProperties, LenProperties
    <2>2. /\ sent \in Seq(Messages) /\ Len(sent) \in Nat
          /\ \A i \in 1..Len(down) : i \in 1..Len(sent) /\ sent[i] = down[i]
          /\ \A i \in 1..Len(sent) : i \in 1..Len(down) \/ sent[i].type # "snapshot"
        BY <1>2, <1>9, SendFacts
    <2>0. down' = Append(sent, message)
        BY <1>9
    <2> HIDE DEF sent
    <2>7. /\ down' \in Seq(Messages) /\ DOMAIN down' = 1..last /\ down'[last] = message
          /\ \A i \in 1..Len(sent) : down'[i] = sent[i]
        BY <1>4, <2>0, <2>2, AppendProperties, LenProperties
    <2>3. Typed'
        BY <1>1, <2>1, <2>7 DEF Inv, Typed
    <2>4. Recorded'
        <3>1. \A t \in 1..n + 1 : t \in 1..n \/ t = n + 1
            BY <1>2
        <3>2. \A t \in 1..n + 1 : /\ record'[t].timeLeft = Duration - t
                                 /\ Precedes(record'[t].snakes, world')
            BY <1>3, <1>5, <1>6, <2>1, <3>1
        <3>3. ASSUME NEW s \in 1..n + 1, NEW t \in 1..n + 1, s < t
              PROVE  Precedes(record'[s].snakes, record'[t].snakes)
            <4>1. s \in 1..n
                BY <1>2, <3>3
            <4>2. CASE t \in 1..n
                BY <1>2, <2>1, <3>3, <4>1, <4>2 DEF Inv, Recorded
            <4>3. CASE t = n + 1
                BY <1>5, <2>1, <4>1, <4>3
            <4> QED BY <3>1, <4>2, <4>3
        <3>4. Me \in DOMAIN world'
            BY <1>1 DEF Inv, Recorded
        <3> QED BY <2>1, <3>2, <3>3, <3>4 DEF Recorded
    <2>5. /\ \A i \in DOMAIN down : i \in DOMAIN down' /\ i < last /\ down'[i] = down[i]
          /\ \A i \in DOMAIN down' : down'[i].type = "snapshot" => i \in DOMAIN down \/ i = last
          /\ last \in DOMAIN down' /\ down'[last].type = "snapshot" /\ down'[last].tick = n + 1
        <3>1. \A i \in 1..last : i \in 1..Len(sent) \/ i = last
            BY <2>2
        <3>2. \A i \in 1..Len(sent) : i \in 1..last /\ i < last
            BY <2>2
        <3>3. last \in 1..last
            BY <2>2
        <3> HIDE DEF last
        <3> QED BY <1>2, <1>4, <2>2, <2>7, <3>1, <3>2, <3>3
    <2>6. Delivered'
        <3> HIDE DEF last
        <3>1. /\ Len(record') = n + 1 /\ heard' = heard
              /\ \A i \in DOMAIN down : down[i].type = "snapshot" => down[i].tick \in Len(heard) + 1..n
            BY <1>1, <2>1 DEF Inv, Delivered
        <3>2. \A i \in DOMAIN down' : down'[i].type = "snapshot" =>
                  down'[i].tick \in Len(heard) + 1..n + 1
            BY <1>2, <2>5, <3>1
        <3>3. \A i, j \in DOMAIN down' :
                  i < j /\ down'[i].type = "snapshot" /\ down'[j].type = "snapshot" =>
                      down'[i].tick < down'[j].tick
            <4> SUFFICES ASSUME NEW i \in DOMAIN down', NEW j \in DOMAIN down', i < j,
                                down'[i].type = "snapshot", down'[j].type = "snapshot"
                         PROVE  down'[i].tick < down'[j].tick
                OBVIOUS
            <4>1. i \in DOMAIN down
                BY <1>2, <2>2, <2>5, <2>7 DEF last
            <4>2. CASE j \in DOMAIN down
                BY <2>5, <4>1, <4>2 DEF Inv, Delivered
            <4>3. CASE j = last
                BY <1>2, <2>5, <3>1, <4>1, <4>3
            <4> QED BY <2>5, <4>2, <4>3
        <3>4. ASSUME NEW t \in Len(heard) + 1..n + 1
              PROVE  \E i \in DOMAIN down' : down'[i].type = "snapshot" /\ down'[i].tick = t
            <4>1. CASE t = n + 1
                BY <2>5, <4>1
            <4>2. CASE t # n + 1
                <5>1. t \in Len(heard) + 1..n
                    BY <1>2, <4>2
                <5>2. PICK i \in DOMAIN down : down[i].type = "snapshot" /\ down[i].tick = t
                    BY <5>1 DEF Inv, Delivered
                <5> QED BY <2>5, <5>2
            <4> QED BY <4>1, <4>2
        <3> QED BY <1>2, <3>1, <3>2, <3>3, <3>4 DEF Delivered
    <2> QED BY <1>7, <2>3, <2>4, <2>6 DEF Inv
<1> QED BY <1>8, <1>9, TickFacts DEF shot, message

\* Whoever leaves takes his snake with him; the player stays.
LEMMA LeaveKeeps ==
    ASSUME Inv, NEW p \in Players \ {Me}, Leave(p)
    PROVE  Inv'
<1>1. /\ world' = [q \in DOMAIN world \ {p} |-> world[q]] /\ DOMAIN world' = DOMAIN world \ {p}
      /\ UNCHANGED <<record, down, buffer, heard, state>>
      /\ pending' \subseteq pending \cup {p}
    BY DEF Leave, clientVars
<1>2. Typed'
    BY <1>1 DEF Inv, Typed
<1>3. Recorded'
    <2>1. \A t \in DOMAIN record : Precedes(record[t].snakes, world')
        BY <1>1 DEF Inv, Recorded, Precedes
    <2> QED BY <1>1, <2>1 DEF Inv, Recorded
<1>4. Delivered' /\ Buffered' /\ Shown'
    BY <1>1 DEF Inv, Delivered, Buffered, Shown
<1> QED BY <1>2, <1>3, <1>4 DEF Inv

\* What one message leaves of the others.
LEMMA ReceiveFacts ==
    ASSUME Inv, NEW type, Receive(type)
    PROVE  /\ UNCHANGED <<world, pending, record, state>>
           /\ down' \in Seq(Messages) /\ 1 \in DOMAIN down /\ down[1].type = type
           /\ \A i \in DOMAIN down' : i + 1 \in DOMAIN down /\ down'[i] = down[i + 1]
           /\ \A i \in DOMAIN down : i # 1 => i - 1 \in DOMAIN down' /\ down'[i - 1] = down[i]
<1>1. down \in Seq(Messages) /\ down # <<>> /\ DOMAIN down = 1..Len(down) /\ Len(down) > 0
      /\ Len(down) \in Nat
    BY PlaceFacts DEF Inv, Typed, Receive
<1>2. down' = Tail(down) /\ Head(down) = down[1] /\ UNCHANGED <<world, pending, record, state>>
    BY <1>1 DEF Receive, serverVars
<1>3. /\ down' \in Seq(Messages) /\ DOMAIN down' = 1..Len(down) - 1
      /\ \A i \in 1..Len(down) - 1 : down'[i] = down[i + 1]
    BY <1>1, <1>2, HeadTailProperties, LenProperties
<1> QED BY <1>1, <1>2, <1>3 DEF Receive

\* Other messages come between the snapshots and change nothing of them.
LEMMA OtherMessageKeeps ==
    ASSUME Inv, NEW type \in {"player_eliminated", "match_end"}, Receive(type),
           UNCHANGED <<buffer, heard>>
    PROVE  Inv'
<1>1. Typed' /\ Recorded' /\ Buffered' /\ Shown'
    BY ReceiveFacts DEF Inv, Typed, Recorded, Buffered, Shown
<1>2. Delivered'
    <2>1. \A i \in DOMAIN down : down[i].type = "snapshot" =>
              i # 1 /\ i - 1 \in DOMAIN down' /\ down'[i - 1] = down[i]
        BY ReceiveFacts
    <2>2. DOMAIN down' \subseteq Int
        BY ReceiveFacts, LenProperties
    <2>3. \A i, j \in DOMAIN down' :
              i < j => /\ i + 1 \in DOMAIN down /\ j + 1 \in DOMAIN down /\ i + 1 < j + 1
                       /\ down'[i] = down[i + 1] /\ down'[j] = down[j + 1]
        BY <2>2, ReceiveFacts
    <2>4. record' = record /\ heard' = heard
        BY ReceiveFacts
    <2>5. \A i \in DOMAIN down' : down'[i].type = "snapshot" =>
              down'[i].tick \in Len(heard) + 1..Len(record)
        BY ReceiveFacts DEF Inv, Delivered
    <2>6. \A i, j \in DOMAIN down' :
              i < j /\ down'[i].type = "snapshot" /\ down'[j].type = "snapshot" =>
                  down'[i].tick < down'[j].tick
        BY <2>3 DEF Inv, Delivered
    <2>7. \A t \in Len(heard) + 1..Len(record) :
              \E i \in DOMAIN down' : down'[i].type = "snapshot" /\ down'[i].tick = t
        BY <2>1 DEF Inv, Delivered
    <2> QED BY <2>4, <2>5, <2>6, <2>7 DEF Inv, Delivered
<1> QED BY <1>1, <1>2 DEF Inv

\* The snapshot that comes is the next one: the buffer takes it and lets the
\* oldest go if it is full.
LEMMA OnSnapshotFacts ==
    ASSUME Inv, OnSnapshot
    PROVE  /\ down[1].tick = Len(heard) + 1 /\ Len(heard) + 1 <= Len(record)
           /\ heard' \in Seq(0..Delay + 1) /\ Len(heard') = Len(heard) + 1
           /\ \A t \in 1..Len(heard) : heard'[t] = heard[t]
           /\ heard'[Len(heard) + 1] = 0
           /\ buffer' \in Seq(Entries) /\ Len(buffer') \in 1..Len(buffer) + 1
           /\ buffer'[Len(buffer')] = [tick |-> Len(heard) + 1, age |-> 0]
           /\ \A i \in 1..Len(buffer') - 1 :
                 /\ i + Len(buffer) + 1 - Len(buffer') \in 1..Len(buffer)
                 /\ buffer'[i] = buffer[i + Len(buffer) + 1 - Len(buffer')]
<1>1. Receive("snapshot") /\ buffer' = Push(buffer, Head(down).tick) /\ heard' = Append(heard, 0)
    BY DEF OnSnapshot
<1>2. 1 \in DOMAIN down /\ down[1].type = "snapshot" /\ Head(down) = down[1]
    BY <1>1, ReceiveFacts DEF Inv, Typed
<1>3. /\ Len(heard) \in Nat /\ Len(record) \in Nat /\ Len(buffer) \in Nat /\ DOMAIN down \subseteq Int
      /\ DOMAIN down = 1..Len(down) /\ DOMAIN buffer = 1..Len(buffer)
    BY PlaceFacts DEF Inv
<1> DEFINE next == Len(heard) + 1
           entry == [tick |-> next, age |-> 0]
           longer == Append(buffer, entry)
<1>4. down[1].tick = next /\ next <= Len(record)
    <2>1. down[1].tick \in next..Len(record)
        BY <1>2 DEF Inv, Delivered
    <2>2. next \in next..Len(record)
        BY <1>3, <2>1
    <2>3. PICK i \in DOMAIN down : down[i].type = "snapshot" /\ down[i].tick = next
        BY <2>2 DEF Inv, Delivered
    <2>4. i = 1
        <3> SUFFICES ASSUME 1 < i
                     PROVE  FALSE
            BY <1>3
        <3>1. down[1].tick < down[i].tick
            BY <1>2, <2>3 DEF Inv, Delivered
        <3> QED BY <1>3, <2>1, <2>3, <3>1
    <2> QED BY <1>3, <2>1, <2>3, <2>4
<1>5. /\ heard' \in Seq(0..Delay + 1) /\ Len(heard') = Len(heard) + 1 /\ heard'[next] = 0
      /\ \A t \in 1..Len(heard) : heard'[t] = heard[t]
    <2>1. 0 \in 0..Delay + 1 /\ heard \in Seq(0..Delay + 1)
        BY ViewAssumption DEF Inv, Typed
    <2> QED BY <1>1, <2>1, AppendProperties
<1>6. /\ longer \in Seq(Entries) /\ longer # <<>> /\ Len(longer) = Len(buffer) + 1
      /\ \A i \in 1..Len(buffer) : longer[i] = buffer[i]
      /\ longer[Len(buffer) + 1] = entry
    <2>1. entry \in Entries /\ buffer \in Seq(Entries)
        BY <1>3, ViewAssumption DEF Inv, Typed, Entries
    <2> QED BY <2>1, AppendProperties
<1>7. buffer # <<>> => Last(buffer).tick = Len(heard)
    BY <1>3, EmptySeq DEF Inv, Typed, Buffered, Last
<1>8. buffer' = IF Len(longer) > MaxSize THEN Tail(longer) ELSE longer
    BY <1>1, <1>2, <1>3, <1>4, <1>7 DEF Push
<1> HIDE DEF longer, entry
<1>9. CASE Len(longer) > MaxSize
    <2>1. /\ buffer' \in Seq(Entries) /\ Len(buffer') = Len(buffer)
          /\ \A i \in 1..Len(buffer) : buffer'[i] = longer[i + 1]
        BY <1>3, <1>6, <1>8, <1>9, HeadTailProperties
    <2>2. Len(buffer) >= 1
        BY <1>3, <1>6, <1>9, ViewAssumption
    <2> QED BY SMTT(30), <1>3, <1>4, <1>5, <1>6, <2>1, <2>2 DEF entry
<1>10. CASE ~ (Len(longer) > MaxSize)
    BY <1>3, <1>4, <1>5, <1>6, <1>8, <1>10 DEF entry
<1> QED BY <1>9, <1>10

LEMMA OnSnapshotKeeps ==
    ASSUME Inv, OnSnapshot
    PROVE  Inv'
<1> DEFINE gone == Len(buffer) + 1 - Len(buffer')
<1>1. UNCHANGED <<world, pending, record, state>> /\ down' \in Seq(Messages)
    BY ReceiveFacts DEF OnSnapshot
<1>2. /\ Len(heard) \in Nat /\ Len(buffer) \in Nat /\ Len(record) \in Nat
      /\ Len(buffer) <= Len(heard) /\ DOMAIN heard = 1..Len(heard)
      /\ DOMAIN buffer = 1..Len(buffer)
      /\ \A t \in 1..Len(heard) : heard[t] \in Nat
      /\ state.tick \in Nat
    BY SMTT(30), PlaceFacts DEF Inv, Buffered, Typed
<1>3. /\ Len(heard') = Len(heard) + 1 /\ DOMAIN heard' = 1..Len(heard) + 1
      /\ \A t \in 1..Len(heard) : heard'[t] = heard[t]
      /\ heard'[Len(heard) + 1] = 0
      /\ Len(heard) + 1 <= Len(record) /\ down[1].tick = Len(heard) + 1
    BY OnSnapshotFacts, LenProperties
<1>4. /\ buffer' \in Seq(Entries) /\ Len(buffer') \in 1..Len(buffer) + 1
      /\ DOMAIN buffer' = 1..Len(buffer')
      /\ buffer'[Len(buffer')] = [tick |-> Len(heard) + 1, age |-> 0]
      /\ \A i \in 1..Len(buffer') - 1 : i + gone \in 1..Len(buffer) /\ buffer'[i] = buffer[i + gone]
    BY OnSnapshotFacts, LenProperties
<1>5. gone \in Nat /\ Len(buffer') \in Nat /\ Len(buffer') = Len(buffer) + 1 - gone
    BY <1>2, <1>4
<1> HIDE DEF gone
<1>6. Typed'
    BY <1>1, OnSnapshotFacts DEF Inv, Typed
<1>7. Recorded'
    BY <1>1 DEF Inv, Recorded
<1>8. Delivered'
    <2>1. \A i \in DOMAIN down : down[i].type = "snapshot" /\ down[i].tick # Len(heard) + 1 =>
              i # 1 /\ i - 1 \in DOMAIN down' /\ down'[i - 1] = down[i]
        BY <1>3, ReceiveFacts DEF OnSnapshot
    <2>2. /\ 1 \in DOMAIN down /\ down[1].type = "snapshot" /\ DOMAIN down' \subseteq Nat \ {0}
          /\ \A i \in DOMAIN down' : i + 1 \in DOMAIN down /\ down'[i] = down[i + 1]
        BY ReceiveFacts, LenProperties DEF OnSnapshot
    <2>3. \A i \in DOMAIN down' : down'[i].type = "snapshot" =>
              down'[i].tick \in Len(heard) + 2..Len(record)
        <3> SUFFICES ASSUME NEW i \in DOMAIN down', down'[i].type = "snapshot"
                     PROVE  down'[i].tick \in Len(heard) + 2..Len(record)
            OBVIOUS
        <3>1. i + 1 \in DOMAIN down /\ down[i + 1].type = "snapshot" /\ 1 < i + 1
            BY <2>2
        <3>2. /\ down[i + 1].tick \in Len(heard) + 1..Len(record)
              /\ down[1].tick < down[i + 1].tick
            BY <2>2, <3>1 DEF Inv, Delivered
        <3> QED BY <1>2, <1>3, <2>2, <3>2
    <2>4. \A i, j \in DOMAIN down' :
              i < j /\ down'[i].type = "snapshot" /\ down'[j].type = "snapshot" =>
                  down'[i].tick < down'[j].tick
        <3>1. \A i, j \in DOMAIN down' : i < j => i + 1 < j + 1
            BY <2>2
        <3> QED BY <2>2, <3>1 DEF Inv, Delivered
    <2>5. \A t \in Len(heard) + 2..Len(record) :
              \E i \in DOMAIN down' : down'[i].type = "snapshot" /\ down'[i].tick = t
        <3> TAKE t \in Len(heard) + 2..Len(record)
        <3>1. t \in Len(heard) + 1..Len(record) /\ t # Len(heard) + 1
            BY <1>2
        <3>2. PICK i \in DOMAIN down : down[i].type = "snapshot" /\ down[i].tick = t
            BY <3>1 DEF Inv, Delivered
        <3> QED BY <2>1, <3>1, <3>2
    <2>6. Len(heard') + 1 = Len(heard) + 2
        BY <1>2, <1>3
    <2> QED BY <1>1, <1>3, <2>3, <2>4, <2>5, <2>6 DEF Delivered
<1>9. Buffered'
    <2>1. Len(buffer') <= Len(heard') /\ buffer' # <<>>
        BY <1>2, <1>3, <1>4, <1>5
    <2>2. ASSUME NEW i \in 1..Len(buffer')
          PROVE  /\ buffer'[i].tick = Len(heard') - Len(buffer') + i
                 /\ buffer'[i].age = heard'[buffer'[i].tick]
        <3>1. CASE i = Len(buffer')
            BY <1>2, <1>3, <1>4, <1>5, <3>1
        <3>2. CASE i # Len(buffer')
            <4>1. i + gone \in 1..Len(buffer) /\ buffer'[i] = buffer[i + gone]
                BY <1>4, <1>5, <3>2
            <4>2. /\ buffer'[i].tick = Len(heard) - Len(buffer) + (i + gone)
                  /\ buffer'[i].age = heard[buffer'[i].tick]
                BY <1>2, <4>1 DEF Inv, Buffered
            <4>3. /\ buffer'[i].tick = Len(heard') - Len(buffer') + i
                  /\ buffer'[i].tick \in 1..Len(heard)
                BY SMTT(30), <1>2, <1>3, <1>5, <4>1, <4>2
            <4> QED BY <1>3, <4>2, <4>3
        <3> QED BY <3>1, <3>2
    <2>3. ASSUME NEW s \in 1..Len(heard) + 1, NEW t \in 1..Len(heard) + 1, s <= t
          PROVE  heard'[s] >= heard'[t]
        <3>1. CASE t = Len(heard) + 1
            <4>1. heard'[s] \in Nat /\ heard'[t] = 0
                BY <1>2, <1>3, <3>1
            <4> QED BY <4>1
        <3>2. CASE t # Len(heard) + 1
            <4>1. s \in 1..Len(heard) /\ t \in 1..Len(heard)
                BY <1>2, <2>3, <3>2
            <4> QED BY <1>2, <1>3, <2>3, <4>1 DEF Inv, Buffered
        <3> QED BY <3>1, <3>2
    <2> QED BY <1>3, <1>4, <2>1, <2>2, <2>3 DEF Buffered
<1>10. Shown'
    <2>1. state # NoState => state.tick \in 1..Len(heard) + 1
        BY <1>2 DEF Inv, Shown
    <2>2. state.tick > 0 => state.tick \in 1..Len(heard)
        BY DEF Inv, Shown, NoState
    <2>3. ASSUME state.tick > 0, state.tick <= buffer[1].tick
          PROVE  state.tick <= buffer'[1].tick
        <3>1. Len(heard) > 0 /\ Len(buffer) > 0
            BY <1>2, <2>2, <2>3, EmptySeq, PlaceFacts DEF Inv, Buffered
        <3>2. buffer[1].tick = Len(heard) - Len(buffer) + 1
            BY <1>2, <3>1 DEF Inv, Buffered
        <3>3. buffer'[1].tick = Len(heard') - Len(buffer') + 1
            <4>1. 1 \in DOMAIN buffer'
                BY <1>4
            <4> QED BY <1>9, <4>1 DEF Buffered
        <3> QED BY <1>2, <1>3, <1>5, <2>3, <3>2, <3>3
    <2>4. state.tick > 1 => /\ state.tick - 1 \in 1..Len(heard)
                            /\ heard'[state.tick - 1] = heard[state.tick - 1]
        BY <1>2, <1>3, <2>2
    <2> QED BY <1>1, <1>3, <2>1, <2>3, <2>4 DEF Inv, Shown
<1> QED BY <1>6, <1>7, <1>8, <1>9, <1>10 DEF Inv

\* Without a snapshot in the buffer there is nothing to show.
LEMMA EmptyFrame ==
    ASSUME Inv, Frame, buffer = <<>>
    PROVE  state' = NoState /\ heard = <<>> /\ heard' = <<>> /\ buffer' = <<>>
<1>1. heard = <<>>
    BY DEF Inv, Buffered
<1>2. buffer' \in Seq(Entries) /\ heard' \in Seq(0..Delay + 1) /\ Len(buffer') = 0 /\ Len(heard') = 0
    BY <1>1, FrameAges
<1>3. buffer' = <<>> /\ heard' = <<>>
    BY <1>2, EmptySeq
<1> QED BY <1>1, <1>3 DEF Frame, Interpolated

LEMMA FrameKeeps ==
    ASSUME Inv, Frame
    PROVE  Inv'
<1>1. UNCHANGED <<world, pending, record, down>>
    BY DEF Frame, serverVars
<1>2. /\ buffer' \in Seq(Entries) /\ heard' \in Seq(0..Delay + 1)
      /\ Len(buffer') = Len(buffer) /\ Len(heard') = Len(heard)
      /\ DOMAIN buffer' = 1..Len(buffer) /\ DOMAIN heard' = 1..Len(heard)
      /\ \A i \in 1..Len(buffer) : /\ buffer'[i].tick = buffer[i].tick
                                  /\ buffer'[i].age = heard'[buffer'[i].tick]
                                  /\ buffer'[i].tick = Len(heard) - Len(buffer) + i
      /\ \A s, t \in 1..Len(heard) : s <= t => heard'[s] >= heard'[t]
    BY FrameAges, LenProperties
<1>3. Len(buffer) \in Nat /\ Len(heard) \in Nat /\ Len(buffer) <= Len(heard)
      /\ (Len(heard) > 0 => Len(buffer) > 0)
    BY PlaceFacts DEF Inv, Buffered
<1>4. Recorded' /\ Delivered'
    BY <1>1, <1>2 DEF Inv, Recorded, Delivered
<1>5. Buffered'
    <2>1. heard' # <<>> => buffer' # <<>>
        BY <1>2, <1>3, EmptySeq
    <2> QED BY <1>2, <1>3, <2>1 DEF Buffered
<1>6. CASE buffer = <<>>
    <2>1. state' = NoState /\ state'.tick = 0
        BY <1>6, EmptyFrame DEF NoState
    <2>2. NoState \in [tick : Nat, snakes : Moments, timeLeft : Int]
        BY InitTyped
    <2> QED BY <1>1, <1>2, <1>4, <1>5, <2>1, <2>2 DEF Inv, Typed, Shown
<1>7. CASE buffer # <<>>
    <2>1. state' \in [tick : Nat, snakes : Moments, timeLeft : Int]
        <3>1. /\ state'.tick \in 1..Len(heard) /\ state'.snakes \in Moments
              /\ state' = [tick |-> state'.tick, timeLeft |-> Duration - state'.tick,
                           snakes |-> state'.snakes]
            BY <1>7, FrameShows
        <3> QED BY <3>1, <1>3, ViewAssumption
    <2>2. Shown'
        <3>1. 1 \in 1..Len(buffer)
            BY <1>3, <1>7, PlaceFacts DEF Inv
        <3>2. buffer'[1].tick = buffer[1].tick
            BY <1>2, <3>1
        <3>3. /\ state'.tick \in 1..Len(heard')
              /\ \/ state'.tick = buffer'[1].tick
                 \/ state'.tick > 1 /\ heard'[state'.tick - 1] >= Delay
            BY <1>2, <1>7, <3>2, FrameShows
        <3> QED BY <1>3, <3>3 DEF Shown
    <2> QED BY <1>1, <1>2, <1>4, <1>5, <2>1, <2>2 DEF Inv, Typed
<1> QED BY <1>6, <1>7

LEMMA StepKeeps == Inv /\ [Next]_vars => Inv'
<1> SUFFICES ASSUME Inv, [Next]_vars
             PROVE  Inv'
    OBVIOUS
<1>1. CASE ServerStep
    BY <1>1, TickKeeps DEF ServerStep
<1>2. CASE OnSnapshot
    BY <1>2, OnSnapshotKeeps
<1>3. CASE OnPlayerEliminated
    BY <1>3, OtherMessageKeeps DEF OnPlayerEliminated
<1>4. CASE OnMatchEnd
    BY <1>4, OtherMessageKeeps DEF OnMatchEnd
<1>5. CASE Frame
    BY <1>5, FrameKeeps
<1>6. CASE \E p \in Players \ {Me} : Leave(p)
    BY <1>6, LeaveKeeps
<1>7. CASE UNCHANGED vars
    BY <1>7 DEF vars, serverVars, clientVars, Inv, Typed, Recorded, Delivered, Buffered, Shown
<1> QED BY <1>1, <1>2, <1>3, <1>4, <1>5, <1>6, <1>7 DEF Next, Deliver

LEMMA Invariance == Spec => []Inv
BY InitHolds, StepKeeps, PTL DEF Spec

-----------------------------------------------------------------------------

(* The view *)

\* What every step but a frame leaves of the record and of the scene.
LEMMA BetweenFrames ==
    ASSUME Inv, [Next]_vars, ~ Frame
    PROVE  /\ state' = state /\ hud' = hud
           /\ DOMAIN world' \subseteq DOMAIN world
           /\ \A t \in DOMAIN record : t \in DOMAIN record' /\ record'[t] = record[t]
           /\ OnSnapshot \/ UNCHANGED <<buffer, heard>>
<1>1. CASE ServerStep
    <2>1. PICK eating \in SUBSET Alive(world), dying \in SUBSET Alive(world) : Tick(eating, dying)
        BY <1>1 DEF ServerStep
    <2>2. /\ DOMAIN world' = DOMAIN world /\ UNCHANGED clientVars
          /\ record' = record \/ record' = Append(record, Snapshot(Len(record) + 1, world'))
        BY <2>1, TickFacts
    <2>3. \A t \in DOMAIN record : t \in DOMAIN record' /\ record'[t] = record[t]
        <3>1. CASE record' = record
            BY <3>1
        <3>2. CASE record' = Append(record, Snapshot(Len(record) + 1, world'))
            <4>1. /\ DOMAIN world' \subseteq Players /\ world' \in [DOMAIN world' -> Snakes]
                  /\ record \in Seq([timeLeft : Int, snakes : Moments]) /\ Len(record) + 1 \in Nat
                  /\ DOMAIN record = 1..Len(record) /\ Len(record) \in Nat
                <5>1. DOMAIN world' \subseteq Players /\ world' \in [DOMAIN world' -> Snakes]
                    BY <2>1, TickFacts DEF Inv, Typed
                <5>2. DOMAIN record = 1..Len(record) /\ Len(record) \in Nat
                    BY PlaceFacts DEF Inv
                <5> QED BY <5>1, <5>2 DEF Inv, Typed
            <4>2. Snapshot(Len(record) + 1, world') \in [timeLeft : Int, snakes : Moments]
                BY <4>1, SnapshotFacts
            <4>3. /\ Len(record') = Len(record) + 1 /\ DOMAIN record' = 1..Len(record')
                  /\ \A t \in 1..Len(record) : record'[t] = record[t]
                BY <3>2, <4>1, <4>2, AppendProperties, LenProperties
            <4> QED BY <4>1, <4>3
        <3> QED BY <2>2, <3>1, <3>2
    <2> QED BY <2>2, <2>3 DEF clientVars
<1>2. CASE Deliver
    BY <1>2 DEF Deliver, OnSnapshot, OnPlayerEliminated, OnMatchEnd, Receive, serverVars
<1>3. CASE \E p \in Players \ {Me} : Leave(p)
    BY <1>3 DEF Leave, clientVars
<1>4. CASE UNCHANGED vars
    BY <1>4 DEF vars, serverVars, clientVars
<1> QED BY <1>1, <1>2, <1>3, <1>4 DEF Next

\* The game on the screen never runs backwards: GameplayScene.update shows a
\* snapshot at least as late as the one it showed before, whatever push had to
\* drop and however unevenly the snapshots came.
THEOREM NeverGoesBack == Spec => ViewNeverGoesBack
<1>1. ASSUME Inv, [Next]_vars
      PROVE  [state'.tick >= state.tick]_vars
    <2>1. state.tick \in Nat
        BY <1>1 DEF Inv, Typed
    <2>2. CASE ~ Frame
        BY <1>1, <2>1, <2>2, BetweenFrames
    <2>3. CASE Frame /\ buffer = <<>>
        <3>1. Len(heard) = 0 /\ state'.tick = 0
            BY <1>1, <2>3, EmptyFrame DEF NoState
        <3>2. state = NoState
            BY <1>1, <3>1 DEF Inv, Shown
        <3> QED BY <3>1, <3>2 DEF NoState
    <2>4. CASE Frame /\ buffer # <<>>
        <3>1. /\ state'.tick \in 1..Len(heard) /\ state'.tick >= buffer[1].tick
              /\ state'.tick = Len(heard) \/ heard'[state'.tick] <= Delay
              /\ \A t \in DOMAIN heard : heard'[t] > Delay => state'.tick >= t
              /\ \/ state'.tick = buffer[1].tick
                 \/ state'.tick > 1 /\ heard'[state'.tick - 1] >= Delay
            BY <1>1, <2>4, FrameShows
        <3>2. /\ Len(heard) \in Nat /\ DOMAIN heard = 1..Len(heard)
              /\ \A t \in 1..Len(heard) : heard[t] \in 0..Delay + 1 /\ heard'[t] = Older(heard[t])
              /\ \A s, t \in 1..Len(heard) : s <= t => heard'[s] >= heard'[t]
            BY <1>1, <2>4, FrameAges, PlaceFacts DEF Inv
        <3>3. state.tick > 0 => state.tick \in 1..Len(heard)
            BY <1>1 DEF Inv, Shown, NoState
        <3>4. CASE state.tick > 0 /\ state.tick <= buffer[1].tick
            <4>1. 1 \in DOMAIN buffer
                BY <1>1, <2>4, PlaceFacts DEF Inv
            <4>2. buffer[1].tick \in Nat
                BY <1>1, <4>1, PlaceFacts DEF Inv, Entries
            <4> QED BY <2>1, <3>1, <3>2, <3>4, <4>2
        <3>5. CASE state.tick > 1 /\ heard[state.tick - 1] >= Delay
            <4>1. state.tick - 1 \in 1..Len(heard)
                BY <2>1, <3>2, <3>3, <3>5
            <4>2. heard'[state.tick - 1] > Delay
                BY <3>2, <3>5, <4>1, OlderFacts
            <4>3. state'.tick >= state.tick - 1
                BY <3>1, <3>2, <4>1, <4>2
            <4>4. state'.tick # state.tick - 1
                <5>1. heard'[state.tick - 1] \in 0..Delay + 1 /\ Delay \in Nat
                    BY <3>2, <4>1, OlderFacts, ViewAssumption
                <5>2. state.tick - 1 # Len(heard)
                    BY <2>1, <3>2, <3>3, <3>5
                <5>3. ~ (heard'[state.tick - 1] <= Delay)
                    BY <4>2, <5>1
                <5> QED BY <3>1, <5>2, <5>3
            <4> QED BY <2>1, <3>1, <3>2, <4>3, <4>4
        <3>6. CASE state.tick = 0
            BY <3>1, <3>2, <3>6
        <3> QED BY <1>1, <2>1, <3>4, <3>5, <3>6 DEF Inv, Shown
    <2> QED BY <2>2, <2>3, <2>4
<1> QED BY <1>1, Invariance, PTL DEF Spec, ViewNeverGoesBack

\* The delay is kept on both sides: get_bracketing passes every snapshot that
\* is older than the delay, and skips to none while an older one is younger.
THEOREM KeepsTheDelay == Spec => []ViewPaced
<1>1. Init => ViewPaced
    BY DEF Init, ViewPaced
<1>2. ASSUME Inv, ViewPaced, [Next]_vars
      PROVE  ViewPaced'
    <2>1. /\ Len(buffer) \in Nat /\ DOMAIN buffer = 1..Len(buffer)
          /\ Len(heard) \in Nat /\ DOMAIN heard = 1..Len(heard)
          /\ state.tick \in 0..Len(heard)
        BY <1>2, PlaceFacts DEF Inv, Shown, NoState
    <2>2. CASE OnSnapshot
        <3>1. state' = state
            BY <1>2, <2>2, ReceiveFacts DEF OnSnapshot
        <3>2. /\ Len(heard') = Len(heard) + 1 /\ DOMAIN heard' = 1..Len(heard) + 1
              /\ \A t \in 1..Len(heard) : heard'[t] = heard[t]
              /\ heard'[Len(heard) + 1] = 0
            BY <1>2, <2>2, OnSnapshotFacts, LenProperties
        <3>3. \A t \in DOMAIN heard' : heard'[t] > Delay => state'.tick >= t
            <4>1. ~ (0 > Delay)
                BY ViewAssumption
            <4> QED BY <1>2, <2>1, <3>1, <3>2, <4>1 DEF ViewPaced
        <3>4. ASSUME NEW i \in DOMAIN buffer', NEW j \in DOMAIN buffer', i < j,
                     buffer'[i].age < Delay
              PROVE  state'.tick < buffer'[j].tick
            <4> DEFINE gone == Len(buffer) + 1 - Len(buffer')
            <4>1. /\ Len(buffer') \in 1..Len(buffer) + 1 /\ DOMAIN buffer' = 1..Len(buffer')
                  /\ buffer'[Len(buffer')].tick = Len(heard) + 1
                  /\ \A k \in 1..Len(buffer') - 1 :
                        k + gone \in 1..Len(buffer) /\ buffer'[k] = buffer[k + gone]
                BY <1>2, <2>2, OnSnapshotFacts, LenProperties
            <4>2. i \in 1..Len(buffer') - 1 /\ gone \in Nat
                BY <2>1, <3>4, <4>1
            <4> HIDE DEF gone
            <4>3. CASE j = Len(buffer')
                BY <2>1, <3>1, <4>1, <4>3
            <4>4. CASE j # Len(buffer')
                <5>1. j \in 1..Len(buffer') - 1
                    BY <2>1, <4>1, <4>4
                <5>2. i + gone < j + gone
                    BY <3>4, <4>2, <5>1
                <5> QED BY <1>2, <2>1, <3>1, <3>4, <4>1, <4>2, <5>1, <5>2 DEF ViewPaced
            <4> QED BY <4>3, <4>4
        <3> QED BY <3>3, <3>4 DEF ViewPaced
    <2>3. CASE ~ Frame /\ ~ OnSnapshot
        BY <1>2, <2>3, BetweenFrames DEF ViewPaced
    <2>4. CASE Frame /\ buffer = <<>>
        <3>1. heard' = <<>> /\ buffer' = <<>>
            BY <1>2, <2>4, EmptyFrame
        <3> QED BY <3>1 DEF ViewPaced
    <2>5. CASE Frame /\ buffer # <<>>
        <3>1. /\ DOMAIN heard' = DOMAIN heard /\ DOMAIN buffer' = DOMAIN buffer
              /\ \A i \in DOMAIN buffer : buffer'[i].tick = buffer[i].tick
            BY <1>2, <2>1, <2>5, FrameAges, LenProperties
        <3> QED BY <1>2, <2>5, <3>1, FrameShows DEF ViewPaced
    <2> QED BY <2>2, <2>3, <2>4, <2>5
<1> QED BY <1>1, <1>2, Invariance, PTL DEF Spec

\* Snapshots, buffer and interpolation together: what a frame draws and what
\* the HUD says beside it are one moment of the match.
THEOREM OneMoment == Spec => []StandingTrue
<1>1. Init => StandingTrue
    BY DEF Init, StandingTrue
<1>2. ASSUME Inv, StandingTrue, [Next]_vars, Inv'
      PROVE  StandingTrue'
    <2>1. CASE ~ Frame
        <3>1. state # NoState => state.tick \in DOMAIN record
            BY <1>2, PlaceFacts DEF Inv, Shown, Delivered
        <3> QED BY ZenonT(40), <1>2, <2>1, <3>1, BetweenFrames DEF StandingTrue
    <2>2. CASE Frame /\ buffer = <<>>
        BY <1>2, <2>2, EmptyFrame DEF StandingTrue
    <2>3. CASE Frame /\ buffer # <<>>
        <3> DEFINE n == state'.tick
                   snakes == state'.snakes
                   moment == record[n].snakes
                   guests == DOMAIN snakes \ DOMAIN moment
                   better == {p \in Alive(moment) : moment[p].score > moment[Me].score}
        <3>1. /\ n \in 1..Len(heard) /\ snakes \in Moments
              /\ state'.timeLeft = Duration - n
              /\ DOMAIN moment \subseteq DOMAIN snakes
              /\ \A p \in DOMAIN moment : snakes[p] = moment[p]
            BY <1>2, <2>3, FrameShows
        <3>2. UNCHANGED <<world, record>>
            BY <2>3 DEF Frame, serverVars
        <3>3. n \in DOMAIN record
            BY <1>2, <3>1, PlaceFacts DEF Inv, Delivered
        <3>4. /\ Me \in DOMAIN moment /\ DOMAIN world \subseteq DOMAIN moment
              /\ moment \in [DOMAIN moment -> Pictures]
            BY <1>2, <3>3, PlaceFacts, MomentFacts DEF Inv, Recorded, Precedes
        <3>5. localAlive' = moment[Me].alive /\ score' = moment[Me].score
            BY <2>3, <3>1, <3>4 DEF Frame, FindLocalSnake
        <3>6. PICK rank \in Ranks(snakes) : hud' = Display(state', score', rank, localAlive')
            BY <2>3 DEF Frame
        <3>7. /\ hud'.timeLeft = Duration - n /\ hud'.score = moment[Me].score
              /\ hud'.alive = moment[Me].alive /\ hud'.rank = rank
              /\ hud'.total = Cardinality(DOMAIN snakes)
            BY <3>1, <3>5, <3>6 DEF Display
        <3> HIDE DEF snakes, moment, n
        <3>8. /\ IsFiniteSet(DOMAIN snakes) /\ Alive(snakes) \subseteq DOMAIN snakes
              /\ Alive(moment) \subseteq DOMAIN snakes /\ guests \subseteq DOMAIN snakes
            BY <3>1, MomentFacts, FS_Subset, ViewAssumption DEF Alive
        <3>9. ASSUME moment[Me].alive
              PROVE  /\ rank > Cardinality(better)
                     /\ rank <= Cardinality(Alive(moment)) + Cardinality(guests)
            <4>1. Me \in Alive(snakes)
                BY <3>1, <3>4, <3>9 DEF Alive
            <4>2. /\ IsFiniteSet(Ahead(snakes)) /\ IsFiniteSet(Ahead(snakes) \cup Level(snakes))
                  /\ IsFiniteSet(Alive(moment)) /\ IsFiniteSet(guests)
                  /\ IsFiniteSet(Alive(moment) \cup guests)
                  /\ IsFiniteSet(Alive(moment) \cap guests)
                BY <3>8, FS_Subset DEF Ahead, Level
            <4>3. better \subseteq Ahead(snakes)
                BY <3>1, <3>4 DEF Ahead, Alive
            <4>4. Ahead(snakes) \cup Level(snakes) \subseteq Alive(moment) \cup guests
                BY <3>1, <3>8 DEF Ahead, Level, Alive
            <4>5. /\ Cardinality(better) <= Cardinality(Ahead(snakes))
                  /\ IsFiniteSet(better)
                BY <4>2, <4>3, FS_Subset
            <4>6. Cardinality(Ahead(snakes) \cup Level(snakes)) <= Cardinality(Alive(moment) \cup guests)
                BY <4>2, <4>4, FS_Subset
            <4>7. Cardinality(Alive(moment) \cup guests) <= Cardinality(Alive(moment)) + Cardinality(guests)
                <5>1. Cardinality(Alive(moment) \cup guests) =
                          Cardinality(Alive(moment)) + Cardinality(guests)
                              - Cardinality(Alive(moment) \cap guests)
                    BY <4>2, FS_Union
                <5> QED BY <4>2, <5>1, FS_CardinalityType
            <4>8. rank \in Cardinality(Ahead(snakes)) + 1..Cardinality(Ahead(snakes) \cup Level(snakes))
                BY <3>6, <4>1 DEF Ranks
            <4>9. /\ Cardinality(better) \in Nat /\ Cardinality(Ahead(snakes)) \in Nat
                  /\ Cardinality(Ahead(snakes) \cup Level(snakes)) \in Nat
                  /\ Cardinality(Alive(moment) \cup guests) \in Nat
                  /\ Cardinality(Alive(moment)) \in Nat /\ Cardinality(guests) \in Nat
                BY <4>2, <4>5, FS_CardinalityType
            <4> HIDE DEF better, guests
            <4> QED BY <4>5, <4>6, <4>7, <4>8, <4>9
        <3>10. ~ moment[Me].alive => rank = Cardinality(DOMAIN snakes)
            BY <3>1, <3>4, <3>6 DEF Ranks, Alive
        <3> QED BY <3>1, <3>2, <3>4, <3>7, <3>9, <3>10 DEF StandingTrue, n, snakes, moment
    <2> QED BY <2>1, <2>2, <2>3
<1> QED BY <1>1, <1>2, Invariance, PTL DEF Spec

=============================================================================
