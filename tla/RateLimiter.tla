---------------------------- MODULE RateLimiter ----------------------------
(***************************************************************************)
(* The sliding window every routed message must pass: MessageRouter.route  *)
(* asks RateLimiter.allow for each message of a known type.                *)
(***************************************************************************)
EXTENDS Integers, Sequences, FiniteSets

CONSTANTS
    Players,     \* ids of connections; the server never gives one out twice
    Window,      \* RATE_LIMIT_WINDOW
    MaxMessages, \* RATE_LIMIT_MAX_MESSAGES
    Horizon      \* bound: the clock stops here

ASSUME LimitAssumption ==
    /\ Window \in Nat \ {0} /\ MaxMessages \in Nat \ {0}
    /\ Horizon \in Nat

VARIABLES
    now,       \* time.monotonic()
    open,      \* the connections whose receive loop runs
    admitted,  \* history: when each admitted message of a player came
    kept,      \* _buckets: the messages whose timestamps are in the bucket
    refused    \* history: the instants at which a player was refused

vars == <<now, open, admitted, kept, refused>>

Init ==
    /\ now = 0
    /\ open = Players
    /\ admitted = [p \in Players |-> <<>>]
    /\ kept = [p \in Players |-> {}]
    /\ refused = [p \in Players |-> {}]

\* Time passes; any number of messages may come at one reading of the clock.
Advance ==
    /\ now < Horizon
    /\ now' = now + 1
    /\ UNCHANGED <<open, admitted, kept, refused>>

\* Faults to compare with: a timestamp leaves the bucket a moment too late, or
\* too early.
UnexpiredLate(p) == {k \in kept[p] : admitted[p][k] >= now - Window}
UnexpiredEarly(p) == {k \in kept[p] : admitted[p][k] > now - Window + 1}

\* The timestamps newer than the cutoff.
Unexpired(p) == {k \in kept[p] : admitted[p][k] > now - Window}

Full(p) == Cardinality(Unexpired(p)) >= MaxMessages

\* The place of the timestamp that allow appends.
Newest(p) == Len(admitted[p]) + 1

\* allow returns True: the message goes to its handler.
Admit(p) ==
    /\ p \in open /\ ~Full(p)
    /\ admitted' = [admitted EXCEPT ![p] = Append(@, now)]
    /\ kept' = [kept EXCEPT ![p] = Unexpired(p) \cup {Newest(p)}]
    /\ UNCHANGED <<now, open, refused>>

\* allow returns False: the message is dropped and leaves no timestamp.
Refuse(p) ==
    /\ p \in open /\ Full(p)
    /\ kept' = [kept EXCEPT ![p] = Unexpired(p)]
    /\ refused' = [refused EXCEPT ![p] = @ \cup {now}]
    /\ UNCHANGED <<now, open, admitted>>

\* The end of _handle_disconnect: router.remove_player.
Remove(p) ==
    /\ p \in open
    /\ open' = open \ {p}
    /\ kept' = [kept EXCEPT ![p] = {}]
    /\ UNCHANGED <<now, admitted, refused>>

Next == Advance \/ \E p \in Players : Admit(p) \/ Refuse(p) \/ Remove(p)

Spec == Init /\ [][Next]_vars

-----------------------------------------------------------------------------

(* Properties *)

TypeOK ==
    /\ now \in Nat
    /\ open \subseteq Players
    /\ admitted \in [Players -> Seq(Nat)]
    /\ kept \in [Players -> SUBSET Nat]
    /\ refused \in [Players -> SUBSET Nat]
    /\ \A p \in Players : kept[p] \subseteq DOMAIN admitted[p]

\* The messages of p admitted in the window that ends at t.
InWindow(p, t) == {k \in DOMAIN admitted[p] : t - Window < admitted[p][k] /\ admitted[p][k] <= t}

\* "at most max_messages within a rolling window" (RateLimiter): no window of
\* that length, wherever it lies, holds more admitted messages of one player,
\* although timestamps are forgotten along the way.
WindowRespected ==
    \A p \in Players, t \in 0..now :
        Cardinality(InWindow(p, t)) <= MaxMessages

\* Who is refused had his full share of messages just before: neither dropped
\* messages nor ones that left the window count against him.
RefusedForCause ==
    [][\A p \in Players :
          refused'[p] # refused[p] => Cardinality(InWindow(p, now)) = MaxMessages]_vars

=============================================================================
