------------------------ MODULE ClientConnectionProofs ------------------------
(***************************************************************************)
(* The client tells the truth about its connection and reports a loss      *)
(* once, for every number of coroutines that connect and close.  What      *)
(* holds however they overlap needs a weaker invariant (Basics) than what  *)
(* holds as long as no two connects have (Inv).                            *)
(***************************************************************************)
EXTENDS ClientConnection, TLAPS

\* A socket before its connection.
Untouched(t) ==
    sock[t] = "unused" => reader[t] = "none" /\ reported[t] = 0 /\ t \notin byUs

\* What a suspended call waits for has been told to end.
Waiting(c) ==
    /\ pc[c] \in {"receiver", "pinger"} => \A t \in Sockets : reader[t] # "created"
    /\ pc[c] = "receiver" => awaited[c] \in cancelled /\ reader[awaited[c]] \in {"reading", "done"}
    /\ pc[c] = "pinger" => awaited[c] \in Sockets /\ ping[awaited[c]] \in {"cancelled", "done"}

\* A client that says that it is connected has a socket of its own that is not
\* being closed and whose loss has not been reported, and no call is in the middle
\* of letting go of one.
Owned ==
    connected =>
        /\ ws # None /\ recvTask = ws /\ reader[ws] \in {"created", "reading"} /\ ws \notin byUs
        /\ \A c \in Calls : pc[c] \in {"idle", "opening"}

\* The inductive invariant for calls that may overlap.
Basics ==
    /\ TypeOK /\ Owned
    /\ ws # None => sock[ws] # "unused" /\ reported[ws] = 0
    /\ recvTask # None => reader[recvTask] # "none"
    /\ \A t \in Sockets : Untouched(t) /\ reported[t] <= IF t \in byUs THEN 0 ELSE 1
    /\ \A c \in Calls : Waiting(c)

\* Connects that never overlapped do not overlap.
OneAtATime == \A c, d \in Connectors : pc[c] # "idle" /\ pc[d] # "idle" => c = d

AllIdle == \A c \in Calls : pc[c] = "idle"

\* The fields of the client change together.
FieldsAgree ==
    /\ recvTask = ws
    /\ connected => ws # None /\ AllIdle

\* The receive task of a socket: the client's own one knows whether the loss has
\* still to be reported; one the client has let go of was reported by a send.
ReaderFits(t) ==
    /\ reader[t] = "none" => ws # t
    /\ reader[t] = "created" =>
        /\ t \notin byUs /\ AllIdle
        /\ \/ ws = t /\ connected /\ reported[t] = 0
           \/ ws = None /\ reported[t] = 1
    /\ reader[t] = "reading" =>
        /\ source[t] = t
        /\ \/ ws = t /\ reported[t] = 0 /\ (connected <=> t \notin byUs)
           \/ ws = None /\ reported[t] = 1 /\ t \notin byUs /\ sock[t] \in {"lost", "closed"}
    /\ reader[t] = "done" =>
        ws # t /\ reported[t] = IF t \in byUs THEN 0 ELSE 1

\* What a suspended call waits for has been told to end, and the client has no
\* other connection meanwhile.
CallFits(c) ==
    /\ pc[c] = "receiver" =>
        /\ awaited[c] \in cancelled /\ reader[awaited[c]] \in {"reading", "done"}
        /\ ws \in {None, awaited[c]}
    /\ pc[c] = "pinger" =>
        c \in Closers /\ awaited[c] \in Sockets /\ ping[awaited[c]] \in {"cancelled", "done"}
    /\ pc[c] = "opening" => c \in Connectors /\ ws = None

\* The inductive invariant as long as connects have not overlapped.
Inv ==
    /\ TypeOK /\ FieldsAgree
    /\ \A t \in Sockets : Untouched(t) /\ ReaderFits(t)
    /\ \A c \in Calls : CallFits(c)

-----------------------------------------------------------------------------

\* The client's own receive task is never done.
LEMMA OwnReader ==
    ASSUME Inv, ws # None
    PROVE  ws \in Sockets /\ reader[ws] \in {"created", "reading"} /\ Receiving
BY DEF Inv, TypeOK, FieldsAgree, ReaderFits, Receiving

\* When a handshake ends, every other call has returned and no receive task of an
\* earlier connection is left.
LEMMA SettledIsQuiet ==
    ASSUME OneAtATime, Inv, NEW c \in Connectors, pc[c] = "opening", Settled
    PROVE  /\ \A d \in Calls \ {c} : pc[d] = "idle"
           /\ ws = None /\ ~connected
           /\ \A t \in Sockets : reader[t] \notin {"created", "reading"}
<1>1. c \in Calls /\ ws = None /\ ~connected
    BY DEF Inv, CallFits, FieldsAgree, AllIdle, Calls
<1>2. ASSUME NEW d \in Calls \ {c} PROVE pc[d] = "idle"
    <2>1. /\ d \in Closers \/ pc[d] = "idle"
          /\ CallFits(d) /\ pc[d] \in {"idle", "receiver", "pinger", "opening"}
        BY DEF Calls, OneAtATime, Inv, TypeOK
    <2>2. pc[d] # "opening"
        BY <2>1, ConnectionAssumption DEF CallFits
    <2>3. pc[d] # "pinger"
        BY <2>1 DEF CallFits, Settled, AwaitOver
    <2>4. pc[d] # "receiver"
        <3> SUFFICES ASSUME pc[d] = "receiver" PROVE FALSE
            OBVIOUS
        <3>1. awaited[d] \in cancelled /\ awaited[d] \in Sockets
            BY <2>1 DEF CallFits, Inv, TypeOK
        <3>2. CASE reader[awaited[d]] = "done"
            BY <3>2 DEF Settled, AwaitOver
        <3>3. CASE reader[awaited[d]] = "reading"
            BY <3>1, <3>3 DEF Settled, Due
        <3> QED
            BY <2>1, <3>2, <3>3 DEF CallFits
    <2> QED
        BY <2>1, <2>2, <2>3, <2>4
<1>3. ASSUME NEW t \in Sockets PROVE reader[t] # "created"
    BY <1>1 DEF Inv, ReaderFits, AllIdle
<1>4. ASSUME NEW t \in Sockets PROVE reader[t] # "reading"
    <2>1. ws # t /\ ~Due(t)
        BY <1>1, ConnectionAssumption DEF Settled
    <2> QED
        BY <2>1 DEF Inv, ReaderFits, Due
<1> QED
    BY <1>1, <1>2, <1>3, <1>4

-----------------------------------------------------------------------------

(* Letting go of the connection *)

LEMMA DisconnectTypes ==
    ASSUME TypeOK, ws # None \/ ~connected, HandleDisconnect
    PROVE  /\ ws' = None /\ connected' = FALSE /\ recvTask' = None /\ pingTask' = None
           /\ ping' \in [Sockets -> {"none", "running", "cancelled", "done"}]
           /\ reported' \in [Sockets -> Nat]
           /\ \A t \in Sockets : ping[t] \in {"cancelled", "done"} => ping'[t] \in {"cancelled", "done"}
           /\ \A t \in Sockets :
                reported'[t] = IF connected /\ t = ws THEN reported[t] + 1 ELSE reported[t]
<1>1. ping' \in [Sockets -> {"none", "running", "cancelled", "done"}]
      /\ \A t \in Sockets : ping[t] \in {"cancelled", "done"} => ping'[t] \in {"cancelled", "done"}
    BY DEF HandleDisconnect, CancelPing, Pinging, TypeOK
<1>2. /\ reported' \in [Sockets -> Nat]
      /\ \A t \in Sockets :
            reported'[t] = IF connected /\ t = ws THEN reported[t] + 1 ELSE reported[t]
    BY DEF HandleDisconnect, Report, TypeOK
<1> QED
    BY <1>1, <1>2 DEF HandleDisconnect

\* The calls wait for the same tasks as before.
LEMMA CallsStay ==
    ASSUME TypeOK, \A c \in Calls : CallFits(c), ws' = None, UNCHANGED <<pc, awaited, cancelled>>,
           \A t \in Sockets : reader[t] \in {"reading", "done"} => reader'[t] \in {"reading", "done"},
           \A t \in Sockets : ping[t] \in {"cancelled", "done"} => ping'[t] \in {"cancelled", "done"}
    PROVE  \A c \in Calls : CallFits(c)'
<1> SUFFICES ASSUME NEW c \in Calls PROVE CallFits(c)'
    OBVIOUS
<1>1. awaited[c] \in cancelled => awaited[c] \in Sockets
    BY DEF TypeOK
<1> QED
    BY <1>1 DEF CallFits

\* The receive task of t ends, or a send notices the loss: afterwards the
\* connection is reported, unless it was closed.
LEMMA LettingGo ==
    ASSUME Inv, HandleDisconnect, UNCHANGED <<sock, source, cancelled, pc, awaited, byUs, crossed>>,
           \/ /\ UNCHANGED reader /\ connected /\ sock[ws] # "open"
           \/ \E t \in Sockets : EndReader(t)
    PROVE  Inv'
<1>1. ws # None \/ ~connected
    BY DEF Inv, FieldsAgree
<1>2. /\ ws' = None /\ connected' = FALSE /\ recvTask' = None /\ pingTask' = None
      /\ ping' \in [Sockets -> {"none", "running", "cancelled", "done"}]
      /\ reported' \in [Sockets -> Nat]
      /\ \A t \in Sockets : ping[t] \in {"cancelled", "done"} => ping'[t] \in {"cancelled", "done"}
      /\ \A t \in Sockets :
            reported'[t] = IF connected /\ t = ws THEN reported[t] + 1 ELSE reported[t]
    BY <1>1, DisconnectTypes DEF Inv
<1>3. /\ reader' \in [Sockets -> {"none", "created", "reading", "done"}]
      /\ \A t \in Sockets :
            \/ reader'[t] = reader[t] /\ (reader[t] = "reading" /\ t = ws => connected /\ sock[t] # "open")
            \/ reader[t] = "reading" /\ reader'[t] = "done"
    <2>1. CASE UNCHANGED reader /\ connected /\ sock[ws] # "open"
        BY <2>1 DEF Inv, TypeOK
    <2>2. CASE \E t \in Sockets : EndReader(t)
        <3>1. PICK t \in Sockets : Due(t) /\ reader' = [reader EXCEPT ![t] = "done"]
            BY <2>2 DEF EndReader
        <3>2. reader[t] = "reading" /\ (ws = t \/ ws = None)
            BY <3>1 DEF Due, Inv, ReaderFits
        <3>3. ws \notin Sockets \/ ws = t
            BY <3>2, ConnectionAssumption
        <3> QED
            BY <3>1, <3>2, <3>3 DEF Inv, TypeOK
    <2> QED
        BY <2>1, <2>2
<1>4. TypeOK'
    BY <1>2, <1>3 DEF Inv, TypeOK
<1>5. FieldsAgree'
    BY <1>2 DEF FieldsAgree
<1>6. ASSUME NEW t \in Sockets PROVE Untouched(t)' /\ ReaderFits(t)'
    <2>1. /\ Untouched(t) /\ ReaderFits(t) /\ t # None
          /\ reader[t] \in {"none", "created", "reading", "done"}
          /\ reported[t] \in Nat /\ sock[t] \in {"unused", "open", "lost", "closed"}
        BY ConnectionAssumption DEF Inv, TypeOK
    <2>2. reported'[t] = IF connected /\ t = ws THEN reported[t] + 1 ELSE reported[t]
        BY <1>2
    <2>3. AllIdle => AllIdle'
        BY DEF AllIdle
    <2>4. Untouched(t)'
        BY <1>3, <2>1, <2>2 DEF Untouched, ReaderFits
    <2>5. CASE reader'[t] = reader[t] /\ reader[t] # "reading"
        BY <1>2, <2>1, <2>2, <2>3, <2>4, <2>5 DEF ReaderFits
    <2>6. CASE reader'[t] = reader[t] /\ reader[t] = "reading"
        BY <1>2, <1>3, <2>1, <2>2, <2>4, <2>6 DEF ReaderFits, Untouched
    <2>7. CASE reader[t] = "reading" /\ reader'[t] = "done"
        BY <1>2, <2>1, <2>2, <2>4, <2>7 DEF ReaderFits
    <2> QED
        BY <1>3, <2>4, <2>5, <2>6, <2>7
<1>7. \A c \in Calls : CallFits(c)'
    BY <1>2, <1>3, CallsStay DEF Inv
<1> QED
    BY <1>4, <1>5, <1>6, <1>7 DEF Inv

-----------------------------------------------------------------------------

(* The tasks of a connection *)

\* A receive task that starts finds the socket of its own connection or none, and
\* never one that another task reads from.
LEMMA StartReaderKeeps ==
    ASSUME Inv, NEW t \in Sockets, StartReader(t)
    PROVE  Inv'
<1>1. /\ reader[t] = "created" /\ t \notin byUs /\ AllIdle /\ t # None
      /\ \/ ws = t /\ connected /\ reported[t] = 0
         \/ ws = None /\ reported[t] = 1
    BY ConnectionAssumption DEF StartReader, Inv, ReaderFits
<1>2. /\ source' = [source EXCEPT ![t] = ws]
      /\ UNCHANGED <<sock, cancelled, pc, awaited, byUs, crossed, fields, ping, reported>>
      /\ reader' = [reader EXCEPT ![t] = IF ws = None THEN "done" ELSE "reading"]
    <2>1. ~ \E u \in Sockets : reader[u] = "reading" /\ source[u] = t
        BY <1>1 DEF Inv, ReaderFits
    <2> QED
        BY <1>1, <2>1 DEF StartReader
<1>3. /\ UNCHANGED <<ws, connected, recvTask, pingTask, sock, cancelled, pc, awaited, byUs, crossed,
                     ping, reported>>
      /\ \A s \in Sockets : reader'[s] = IF s = t THEN IF ws = None THEN "done" ELSE "reading"
                                         ELSE reader[s]
      /\ \A s \in Sockets : source'[s] = IF s = t THEN ws ELSE source[s]
    BY <1>2 DEF fields, Inv, TypeOK
<1>4. TypeOK'
    BY <1>2, <1>3 DEF Inv, TypeOK
<1>5. FieldsAgree'
    BY <1>3 DEF Inv, FieldsAgree, AllIdle
<1>6. ASSUME NEW s \in Sockets PROVE Untouched(s)' /\ ReaderFits(s)'
    <2>1. Untouched(s) /\ ReaderFits(s)
        BY DEF Inv
    <2>2. AllIdle'
        BY <1>1, <1>3 DEF AllIdle
    <2>3. Untouched(t) => sock[t] # "unused"
        BY <1>1 DEF Untouched
    <2>4. CASE s # t
        BY <1>3, <2>1, <2>2, <2>4 DEF Untouched, ReaderFits
    <2>5. CASE s = t
        BY <1>1, <1>3, <2>1, <2>3, <2>5 DEF Untouched, ReaderFits
    <2> QED
        BY <2>4, <2>5
<1>7. \A c \in Calls : CallFits(c)'
    BY <1>1, <1>3 DEF AllIdle, CallFits
<1> QED
    BY <1>4, <1>5, <1>6, <1>7 DEF Inv

\* A socket is lost, or a ping task ends: no field of the client changes.
LEMMA EndPingKeeps ==
    ASSUME Inv, NEW t \in Sockets, EndPing(t) \/ Lose(t)
    PROVE  Inv'
<1>1. UNCHANGED <<ws, connected, recvTask, pingTask, reader, source, cancelled, pc, awaited,
                  reported, byUs, crossed>>
    BY DEF EndPing, Lose, fields, tasks, history
<1>2. /\ ping' \in [Sockets -> {"none", "running", "cancelled", "done"}]
      /\ \A s \in Sockets : ping[s] \in {"cancelled", "done"} => ping'[s] \in {"cancelled", "done"}
    BY DEF EndPing, Lose, tasks, Inv, TypeOK
<1>3. /\ sock' \in [Sockets -> {"unused", "open", "lost", "closed"}]
      /\ \A s \in Sockets : sock'[s] = sock[s] \/ (sock[s] = "open" /\ sock'[s] = "lost")
    BY DEF EndPing, Lose, Inv, TypeOK
<1>4. TypeOK'
    BY <1>1, <1>2, <1>3 DEF Inv, TypeOK
<1>5. FieldsAgree' /\ (AllIdle => AllIdle')
    BY <1>1 DEF Inv, FieldsAgree, AllIdle
<1>6. ASSUME NEW s \in Sockets PROVE Untouched(s)' /\ ReaderFits(s)'
    <2>1. Untouched(s) /\ ReaderFits(s)
        BY DEF Inv
    <2>2. Untouched(s)'
        BY <1>1, <1>3, <2>1 DEF Untouched
    <2>3. ReaderFits(s)'
        BY <1>1, <1>3, <1>5, <2>1 DEF ReaderFits
    <2> QED
        BY <2>2, <2>3
<1>7. ASSUME NEW c \in Calls PROVE CallFits(c)'
    BY <1>1, <1>2 DEF Inv, CallFits
<1> QED
    BY <1>4, <1>5, <1>6, <1>7 DEF Inv

-----------------------------------------------------------------------------

(* The calls *)

\* With no socket there is none to close.
LEMMA NothingToClose ==
    ASSUME TypeOK, ws = None
    PROVE  CloseWs = sock
BY ConnectionAssumption DEF CloseWs, TypeOK

\* A call that moves on changes no task but the ones it tells to end, and leaves
\* the client not connected.
LEMMA CallMoves ==
    ASSUME Inv, TypeOK', NEW c \in Calls,
           UNCHANGED <<ws, recvTask, sock, reader, source, reported>>, connected' = FALSE,
           \A t \in Sockets : reader[t] # "created",
           \A t \in Sockets : t \in byUs' <=> t \in byUs \/ (t = ws /\ connected),
           \A d \in Calls \ {c} : pc'[d] = pc[d] /\ awaited'[d] = awaited[d],
           cancelled \subseteq cancelled',
           \A t \in Sockets : ping[t] \in {"cancelled", "done"} => ping'[t] \in {"cancelled", "done"},
           CallFits(c)'
    PROVE  Inv'
<1>1. FieldsAgree'
    BY DEF Inv, FieldsAgree
<1>2. ASSUME NEW t \in Sockets PROVE Untouched(t)' /\ ReaderFits(t)'
    <2>1. Untouched(t) /\ ReaderFits(t) /\ reader[t] # "created"
        BY DEF Inv
    <2>2. t \in byUs' <=> t \in byUs \/ (t = ws /\ connected)
        OBVIOUS
    <2>3. Untouched(t)'
        BY <2>1, <2>2 DEF Untouched, ReaderFits
    <2>4. ReaderFits(t)'
        BY <2>1, <2>2, ConnectionAssumption DEF ReaderFits
    <2> QED
        BY <2>3, <2>4
<1>3. ASSUME NEW d \in Calls \ {c} PROVE CallFits(d)'
    BY DEF Inv, CallFits
<1> QED
    BY <1>1, <1>2, <1>3 DEF Inv

\* The receive task that a call waits for is the client's own.
LEMMA StopReceiverFits ==
    ASSUME Inv, NEW c \in Calls, Receiving, \A t \in Sockets : reader[t] # "created",
           StopReceiver(c), UNCHANGED <<ws, reader>>
    PROVE  /\ pc' = [pc EXCEPT ![c] = "receiver"] /\ awaited' = [awaited EXCEPT ![c] = ws]
           /\ cancelled' = cancelled \cup {ws} /\ ws \in Sockets
           /\ CallFits(c)'
<1>1. recvTask = ws /\ ws # None /\ ws \in Sockets /\ reader[ws] = "reading"
    BY DEF Inv, FieldsAgree, Receiving, TypeOK, ReaderFits
<1>2. pc' = [pc EXCEPT ![c] = "receiver"] /\ awaited' = [awaited EXCEPT ![c] = ws]
      /\ cancelled' = cancelled \cup {ws}
    BY <1>1 DEF StopReceiver, Goto
<1>3. pc'[c] = "receiver" /\ awaited'[c] = ws
    BY <1>2 DEF Inv, TypeOK
<1>4. CallFits(c)'
    BY <1>1, <1>2, <1>3 DEF CallFits
<1> QED
    BY <1>1, <1>2, <1>4

\* A call that has waited for a receive task finds the client without a socket.
LEMMA AwaitedIsGone ==
    ASSUME Inv, NEW c \in Calls, AwaitOver(c)
    PROVE  /\ ~connected /\ \A t \in Sockets : reader[t] # "created"
           /\ pc[c] = "receiver" => ws = None
<1>1. pc[c] # "idle"
    BY DEF AwaitOver
<1>2. ~connected /\ \A t \in Sockets : reader[t] # "created"
    BY <1>1 DEF Inv, FieldsAgree, ReaderFits, AllIdle
<1>3. pc[c] = "receiver" => ws = None
    <2> HAVE pc[c] = "receiver"
    <2>1. reader[awaited[c]] = "done" /\ awaited[c] \in cancelled /\ ws \in {None, awaited[c]}
        BY DEF AwaitOver, Inv, CallFits
    <2>2. awaited[c] \in Sockets
        BY <2>1 DEF Inv, TypeOK
    <2>3. ws # awaited[c]
        BY <2>1, <2>2 DEF Inv, ReaderFits
    <2> QED
        BY <2>1, <2>3
<1> QED
    BY <1>2, <1>3

LEMMA ConnectKeeps ==
    ASSUME Inv, NEW c \in Connectors, Connect(c) \/ ConnectResume(c)
    PROVE  Inv'
<1>1. c \in Calls /\ TypeOK /\ CallFits(c)
    BY DEF Calls, Inv
<1>2. ~connected /\ \A t \in Sockets : reader[t] # "created"
    BY <1>1, AwaitedIsGone DEF Connect, ConnectResume, Started
<1>3. /\ UNCHANGED <<ws, connected, recvTask, pingTask, reader, source, ping, reported, byUs>>
      /\ crossed' \in BOOLEAN
    BY <1>1 DEF Connect, ConnectResume, fields, tasks, history, TypeOK
<1>4. CASE Connect(c) /\ Receiving
    <2>1. StopReceiver(c) /\ UNCHANGED sock
        BY <1>4 DEF Connect
    <2>2. /\ pc' = [pc EXCEPT ![c] = "receiver"] /\ awaited' = [awaited EXCEPT ![c] = ws]
          /\ cancelled' = cancelled \cup {ws} /\ ws \in Sockets /\ CallFits(c)'
        BY <1>1, <1>2, <1>3, <1>4, <2>1, StopReceiverFits
    <2>3. TypeOK'
        BY <1>1, <1>3, <2>1, <2>2 DEF TypeOK
    <2>4. \A d \in Calls \ {c} : pc'[d] = pc[d] /\ awaited'[d] = awaited[d]
        BY <1>1, <2>2 DEF TypeOK
    <2> QED
        BY <1>1, <1>2, <1>3, <2>1, <2>2, <2>3, <2>4, CallMoves DEF TypeOK
<1>5. CASE (Connect(c) /\ ~Receiving) \/ ConnectResume(c)
    <2>1. ws = None
        <3>1. CASE ConnectResume(c)
            <4>1. pc[c] # "pinger"
                BY <1>1, ConnectionAssumption DEF CallFits
            <4> QED
                BY <1>1, <3>1, <4>1, AwaitedIsGone DEF ConnectResume, AwaitOver
        <3> QED
            BY <1>5, <3>1, OwnReader
    <2>2. Reopen(c) /\ UNCHANGED <<cancelled, awaited>>
        BY <1>5 DEF Connect, ConnectResume, tasks
    <2>3. UNCHANGED sock /\ pc' = [pc EXCEPT ![c] = "opening"]
        BY <1>1, <2>1, <2>2, NothingToClose DEF Reopen, Goto
    <2>4. TypeOK'
        BY <1>1, <1>3, <2>2, <2>3 DEF TypeOK
    <2>5. pc'[c] = "opening" /\ \A d \in Calls \ {c} : pc'[d] = pc[d] /\ awaited'[d] = awaited[d]
        BY <1>1, <2>2, <2>3 DEF TypeOK
    <2>6. CallFits(c)'
        BY <1>3, <2>1, <2>5 DEF CallFits
    <2> QED
        BY <1>1, <1>2, <1>3, <2>2, <2>3, <2>4, <2>5, <2>6, CallMoves DEF TypeOK
<1> QED
    BY <1>4, <1>5

LEMMA OpenFailsKeeps ==
    ASSUME Inv, NEW c \in Connectors, OpenFails(c)
    PROVE  Inv'
<1>1. c \in Calls /\ TypeOK
    BY DEF Calls, Inv
<1>2. pc[c] # "idle" /\ ~connected /\ \A t \in Sockets : reader[t] # "created"
    BY <1>1 DEF OpenFails, Inv, FieldsAgree, ReaderFits, AllIdle
<1>3. /\ UNCHANGED <<ws, recvTask, pingTask, sock, reader, source, cancelled, ping, awaited,
                     reported, byUs, crossed>>
      /\ connected' = FALSE /\ pc' = [pc EXCEPT ![c] = "idle"]
    BY DEF OpenFails, tasks, history, Goto
<1>4. TypeOK'
    BY <1>1, <1>3 DEF TypeOK
<1>5. pc'[c] = "idle" /\ \A d \in Calls \ {c} : pc'[d] = pc[d]
    BY <1>1, <1>3 DEF TypeOK
<1>6. CallFits(c)'
    BY <1>5 DEF CallFits
<1> QED
    BY <1>1, <1>2, <1>3, <1>4, <1>5, <1>6, CallMoves

\* A new connection: nothing of an earlier one is left but what is done.
LEMMA OpenedKeeps ==
    ASSUME OneAtATime, Inv, NEW c \in Connectors, Opened(c)
    PROVE  Inv'
<1>1. c \in Calls /\ TypeOK
    BY DEF Calls, Inv
<1>2. /\ \A d \in Calls \ {c} : pc[d] = "idle"
      /\ ws = None /\ ~connected
      /\ \A t \in Sockets : reader[t] \notin {"created", "reading"}
    BY SettledIsQuiet DEF Opened
<1>3. PICK s \in Sockets :
        /\ sock[s] = "unused"
        /\ sock' = [sock EXCEPT ![s] = "open"]
        /\ ws' = s /\ connected' = TRUE /\ recvTask' = s /\ pingTask' = s
        /\ reader' = [reader EXCEPT ![s] = "created"]
        /\ ping' = [ping EXCEPT ![s] = "running"]
    BY DEF Opened
<1>4. /\ UNCHANGED <<source, cancelled, awaited, reported, byUs, crossed>>
      /\ pc' = [pc EXCEPT ![c] = "idle"]
    BY DEF Opened, history, Goto
<1>5. TypeOK'
    BY <1>1, <1>3, <1>4 DEF TypeOK
<1>6. AllIdle'
    BY <1>1, <1>2, <1>4 DEF AllIdle, TypeOK
<1>7. FieldsAgree'
    BY <1>3, <1>6, ConnectionAssumption DEF FieldsAgree
<1>8. ASSUME NEW t \in Sockets PROVE Untouched(t)' /\ ReaderFits(t)'
    <2>1. Untouched(t) /\ ReaderFits(t)
        BY DEF Inv
    <2>2. CASE t = s
        <3>1. reader'[t] = "created" /\ sock'[t] = "open" /\ reported'[t] = 0 /\ t \notin byUs'
            BY <1>1, <1>3, <1>4, <2>1, <2>2 DEF Untouched, TypeOK
        <3> QED
            BY <1>3, <1>6, <2>2, <3>1 DEF Untouched, ReaderFits
    <2>3. CASE t # s
        <3>1. reader'[t] = reader[t] /\ sock'[t] = sock[t] /\ reader[t] \in {"none", "done"}
            BY <1>1, <1>2, <1>3, <2>3 DEF TypeOK
        <3> QED
            BY <1>3, <1>4, <2>1, <2>3, <3>1 DEF Untouched, ReaderFits
    <2> QED
        BY <2>2, <2>3
<1>9. \A d \in Calls : CallFits(d)'
    BY <1>6 DEF AllIdle, CallFits
<1> QED
    BY <1>5, <1>7, <1>8, <1>9 DEF Inv

\* The second part of close, in whichever of its two steps it runs.
LEMMA CloseReceiverKeeps ==
    ASSUME Inv, NEW c \in Closers, CloseReceiver(c) \/ (ws = None /\ CloseSocket(c)
                                                        /\ UNCHANGED <<cancelled, awaited>>),
           \A t \in Sockets : reader[t] # "created",
           connected' = FALSE, byUs' \subseteq Sockets,
           \A t \in Sockets : t \in byUs' <=> t \in byUs \/ (t = ws /\ connected),
           UNCHANGED <<recvTask, pingTask, reader, source, reported, crossed>>,
           ping' \in [Sockets -> {"none", "running", "cancelled", "done"}],
           \A t \in Sockets : ping[t] \in {"cancelled", "done"} => ping'[t] \in {"cancelled", "done"}
    PROVE  Inv'
<1>1. c \in Calls /\ TypeOK
    BY DEF Calls, Inv
<1>2. CASE Receiving /\ CloseReceiver(c)
    <2>1. StopReceiver(c) /\ UNCHANGED <<sock, ws>>
        BY <1>2 DEF CloseReceiver
    <2>2. /\ pc' = [pc EXCEPT ![c] = "receiver"] /\ awaited' = [awaited EXCEPT ![c] = ws]
          /\ cancelled' = cancelled \cup {ws} /\ ws \in Sockets /\ CallFits(c)'
        BY <1>1, <1>2, <2>1, StopReceiverFits
    <2>3. TypeOK'
        BY <1>1, <2>1, <2>2 DEF TypeOK
    <2>4. \A d \in Calls \ {c} : pc'[d] = pc[d] /\ awaited'[d] = awaited[d]
        BY <1>1, <2>2 DEF TypeOK
    <2> QED
        BY <1>1, <2>1, <2>2, <2>3, <2>4, CallMoves
<1>3. CASE ws = None /\ CloseSocket(c) /\ UNCHANGED <<cancelled, awaited>>
    <2>1. UNCHANGED <<sock, ws>> /\ pc' = [pc EXCEPT ![c] = "idle"]
        BY <1>1, <1>3, NothingToClose DEF CloseSocket, Goto
    <2>2. TypeOK'
        BY <1>1, <1>3, <2>1 DEF TypeOK
    <2>3. pc'[c] = "idle" /\ \A d \in Calls \ {c} : pc'[d] = pc[d] /\ awaited'[d] = awaited[d]
        BY <1>1, <1>3, <2>1 DEF TypeOK
    <2>4. CallFits(c)'
        BY <2>3 DEF CallFits
    <2> QED
        BY <1>1, <1>3, <2>1, <2>2, <2>3, <2>4, CallMoves
<1>4. ~Receiving => ws = None
    BY OwnReader
<1> QED
    BY <1>2, <1>3, <1>4 DEF CloseReceiver

LEMMA CloseKeeps ==
    ASSUME Inv, NEW c \in Closers, Close(c) \/ CloseResume(c)
    PROVE  Inv'
<1>1. c \in Calls /\ TypeOK /\ CallFits(c)
    BY DEF Calls, Inv
<1>2. CASE Close(c)
    <2>1. /\ \A t \in Sockets : reader[t] # "created"
          /\ connected' = FALSE /\ byUs' = byUs \cup ({ws} \ {None}) /\ ping' = CancelPing
          /\ UNCHANGED <<recvTask, pingTask, reader, source, reported, crossed>>
        BY <1>2 DEF Close, Started
    <2>2. byUs' \subseteq Sockets
        BY <1>1, <2>1 DEF TypeOK
    <2>3. \A t \in Sockets : t \in byUs' <=> t \in byUs \/ (t = ws /\ connected)
        <3>1. ws # None /\ ~connected => ws \in byUs
            BY <2>1, OwnReader DEF Inv, ReaderFits
        <3> QED
            BY <2>1, <3>1, ConnectionAssumption
    <2>4. /\ ping' \in [Sockets -> {"none", "running", "cancelled", "done"}]
          /\ \A t \in Sockets :
                ping[t] \in {"cancelled", "done"} => ping'[t] \in {"cancelled", "done"}
        BY <1>1, <2>1 DEF CancelPing, Pinging, TypeOK
    <2>5. CASE ~Pinging
        <3>1. CloseReceiver(c)
            BY <1>2, <2>5 DEF Close
        <3> QED
            BY <2>1, <2>2, <2>3, <2>4, <3>1, CloseReceiverKeeps
    <2>6. CASE Pinging
        <3>1. /\ awaited' = [awaited EXCEPT ![c] = pingTask] /\ pc' = [pc EXCEPT ![c] = "pinger"]
              /\ UNCHANGED <<ws, sock, cancelled>>
            BY <1>2, <2>6 DEF Close, Goto
        <3>2. pingTask \in Sockets /\ ping'[pingTask] = "cancelled"
            BY <1>1, <2>1, <2>6 DEF CancelPing, Pinging, TypeOK
        <3>3. TypeOK'
            BY <1>1, <2>1, <2>2, <2>4, <3>1, <3>2 DEF TypeOK
        <3>4. /\ pc'[c] = "pinger" /\ awaited'[c] = pingTask
              /\ \A d \in Calls \ {c} : pc'[d] = pc[d] /\ awaited'[d] = awaited[d]
            BY <1>1, <3>1 DEF TypeOK
        <3>5. CallFits(c)'
            BY <3>2, <3>4 DEF CallFits
        <3> QED
            BY <1>1, <2>1, <2>3, <2>4, <3>1, <3>3, <3>4, <3>5, CallMoves
    <2> QED
        BY <2>5, <2>6
<1>3. CASE CloseResume(c)
    <2>1. /\ ~connected /\ \A t \in Sockets : reader[t] # "created"
          /\ pc[c] = "receiver" => ws = None
        BY <1>1, <1>3, AwaitedIsGone DEF CloseResume
    <2>2. UNCHANGED <<connected, recvTask, pingTask, reader, source, ping, reported, byUs, crossed>>
        BY <1>3 DEF CloseResume, history
    <2>3. \/ CloseReceiver(c)
          \/ pc[c] = "receiver" /\ CloseSocket(c) /\ UNCHANGED <<cancelled, awaited>>
        BY <1>3 DEF CloseResume, AwaitOver
    <2>4. /\ byUs' \subseteq Sockets /\ connected' = FALSE
          /\ ping' \in [Sockets -> {"none", "running", "cancelled", "done"}]
        BY <1>1, <2>1, <2>2 DEF TypeOK
    <2>5. /\ \A t \in Sockets : t \in byUs' <=> t \in byUs \/ (t = ws /\ connected)
          /\ \A t \in Sockets :
                ping[t] \in {"cancelled", "done"} => ping'[t] \in {"cancelled", "done"}
        BY <2>1, <2>2
    <2>6. CloseReceiver(c) \/ (ws = None /\ CloseSocket(c) /\ UNCHANGED <<cancelled, awaited>>)
        BY <2>1, <2>3
    <2> QED
        BY <2>1, <2>2, <2>4, <2>5, <2>6, CloseReceiverKeeps
<1> QED
    BY <1>2, <1>3

-----------------------------------------------------------------------------

LEMMA BasicsStart == Init => Basics
<1> SUFFICES ASSUME Init PROVE Basics
    OBVIOUS
<1>1. TypeOK
    BY DEF Init, TypeOK
<1>2. Owned /\ ws = None /\ recvTask = None /\ \A t \in Sockets : Untouched(t) /\ reported[t] = 0 /\ t \notin byUs
    BY DEF Init, Owned, Untouched
<1>3. \A c \in Calls : Waiting(c)
    BY DEF Init, Waiting
<1> QED
    BY <1>1, <1>2, <1>3 DEF Basics

\* A task ends and the client lets go of its connection, or a send does.
LEMMA BasicsLetGo ==
    ASSUME Basics, HandleDisconnect, UNCHANGED <<sock, cancelled, pc, awaited, byUs, crossed>>,
           reader' \in [Sockets -> {"none", "created", "reading", "done"}],
           source' \in [Sockets -> Sockets \cup {None}],
           \A t \in Sockets : reader'[t] = reader[t] \/ (reader[t] # "none" /\ reader'[t] = "done")
    PROVE  Basics'
<1>1. TypeOK /\ (ws # None \/ ~connected)
    BY DEF Basics, Owned
<1>2. /\ ws' = None /\ connected' = FALSE /\ recvTask' = None /\ pingTask' = None
      /\ ping' \in [Sockets -> {"none", "running", "cancelled", "done"}]
      /\ reported' \in [Sockets -> Nat]
      /\ \A t \in Sockets : ping[t] \in {"cancelled", "done"} => ping'[t] \in {"cancelled", "done"}
      /\ \A t \in Sockets :
            reported'[t] = IF connected /\ t = ws THEN reported[t] + 1 ELSE reported[t]
    BY <1>1, DisconnectTypes
<1>3. TypeOK'
    BY <1>1, <1>2 DEF TypeOK
<1>4. ASSUME NEW t \in Sockets
      PROVE  Untouched(t)' /\ reported'[t] <= IF t \in byUs' THEN 0 ELSE 1
    <2>1. /\ Untouched(t) /\ reported[t] \in Nat /\ reported[t] <= IF t \in byUs THEN 0 ELSE 1
          /\ connected /\ t = ws => sock[t] # "unused" /\ t \notin byUs /\ reported[t] = 0
        BY <1>1, ConnectionAssumption DEF Basics, Owned, TypeOK
    <2>2. reported'[t] = IF connected /\ t = ws THEN reported[t] + 1 ELSE reported[t]
        BY <1>2
    <2>3. reader'[t] = reader[t] \/ reader[t] # "none"
        OBVIOUS
    <2>4. Untouched(t)'
        BY <2>1, <2>2, <2>3 DEF Untouched
    <2>5. reported'[t] <= IF t \in byUs THEN 0 ELSE 1
        BY <2>1, <2>2
    <2> QED
        BY <2>4, <2>5
<1>5. ASSUME NEW c \in Calls PROVE Waiting(c)'
    <2>1. Waiting(c) /\ (awaited[c] \in cancelled => awaited[c] \in Sockets)
        BY <1>1 DEF Basics, TypeOK
    <2>2. awaited[c] \in Sockets /\ reader[awaited[c]] \in {"reading", "done"}
             => reader'[awaited[c]] \in {"reading", "done"}
        OBVIOUS
    <2> QED
        BY <1>2, <2>1, <2>2 DEF Waiting
<1> QED
    BY <1>2, <1>3, <1>4, <1>5 DEF Basics, Owned

\* A task moves on, or a socket is lost, and no field of the client changes.
LEMMA BasicsTask ==
    ASSUME Basics, NEW t \in Sockets,
           EndPing(t) \/ Lose(t) \/ (StartReader(t) /\ UNCHANGED <<fields, ping, reported>>)
    PROVE  Basics'
<1>1. TypeOK
    BY DEF Basics
<1>2. UNCHANGED <<ws, connected, recvTask, pingTask, cancelled, pc, awaited, reported, byUs, crossed>>
    BY DEF EndPing, Lose, StartReader, fields, tasks, history
<1>3. /\ ping' \in [Sockets -> {"none", "running", "cancelled", "done"}]
      /\ \A s \in Sockets : ping[s] \in {"cancelled", "done"} => ping'[s] \in {"cancelled", "done"}
    BY <1>1 DEF EndPing, Lose, StartReader, tasks, TypeOK
<1>4. /\ sock' \in [Sockets -> {"unused", "open", "lost", "closed"}]
      /\ \A s \in Sockets : sock'[s] = "unused" <=> sock[s] = "unused"
    BY <1>1 DEF EndPing, Lose, StartReader, TypeOK
<1>5. /\ reader' \in [Sockets -> {"none", "created", "reading", "done"}]
      /\ source' \in [Sockets -> Sockets \cup {None}]
      /\ \A s \in Sockets :
            \/ reader'[s] = reader[s]
            \/ reader[s] = "created" /\ reader'[s] \in {"reading", "done"} /\ (ws # None => reader'[s] = "reading")
    <2>1. CASE StartReader(t) /\ UNCHANGED <<fields, ping, reported>>
        <3>1. reader' = [reader EXCEPT ![t] = IF ws = None THEN "done" ELSE "reading"]
              \/ (reader' = [reader EXCEPT ![t] = "done"] /\ HandleDisconnect /\ ws # None)
            BY <2>1 DEF StartReader
        <3>2. ~ (HandleDisconnect /\ ws # None)
            BY <2>1 DEF HandleDisconnect, fields
        <3> QED
            BY <1>1, <2>1, <3>1, <3>2 DEF StartReader, TypeOK
    <2>2. CASE EndPing(t) \/ Lose(t)
        BY <1>1, <2>2 DEF EndPing, Lose, tasks, TypeOK
    <2> QED
        BY <2>1, <2>2
<1>6. TypeOK'
    BY <1>1, <1>2, <1>3, <1>4, <1>5 DEF TypeOK
<1>7. Owned' /\ (ws' # None => sock'[ws'] # "unused" /\ reported'[ws'] = 0)
      /\ (recvTask' # None => reader'[recvTask'] # "none")
    <2>1. ws \in Sockets \cup {None} /\ recvTask \in Sockets \cup {None}
        BY <1>1 DEF TypeOK
    <2>2. Owned'
        BY <1>2, <1>5, <2>1 DEF Basics, Owned
    <2> QED
        BY <1>2, <1>4, <1>5, <2>1, <2>2 DEF Basics
<1>8. ASSUME NEW s \in Sockets
      PROVE  Untouched(s)' /\ reported'[s] <= IF s \in byUs' THEN 0 ELSE 1
    <2>1. Untouched(s) /\ reported[s] <= IF s \in byUs THEN 0 ELSE 1
        BY DEF Basics
    <2> QED
        BY <1>2, <1>4, <1>5, <2>1 DEF Untouched
<1>9. ASSUME NEW c \in Calls PROVE Waiting(c)'
    <2>1. Waiting(c) /\ (awaited[c] \in cancelled => awaited[c] \in Sockets)
        BY <1>1 DEF Basics, TypeOK
    <2> QED
        BY <1>2, <1>3, <1>5, <2>1 DEF Waiting
<1> QED
    BY <1>6, <1>7, <1>8, <1>9 DEF Basics

\* A call moves on: the client is not connected afterwards, no receive task
\* changes, and the socket of the client may be closed.
LEMMA BasicsCall ==
    ASSUME Basics, TypeOK', NEW c \in Calls, connected' = FALSE, ws' \in {ws, None},
           UNCHANGED <<recvTask, reader, reported>>,
           sock' = sock \/ sock' = CloseWs,
           \A t \in Sockets : t \in byUs' => t \in byUs \/ t = ws,
           \A d \in Calls \ {c} : pc'[d] = pc[d] /\ awaited'[d] = awaited[d],
           cancelled \subseteq cancelled',
           \A t \in Sockets : ping[t] \in {"cancelled", "done"} => ping'[t] \in {"cancelled", "done"},
           Waiting(c)'
    PROVE  Basics'
<1>1. TypeOK
    BY DEF Basics
<1>2. \A t \in Sockets : sock'[t] = "unused" => sock[t] = "unused" /\ t # ws
    BY <1>1, ConnectionAssumption DEF CloseWs, Basics, TypeOK
<1>3. Owned' /\ (ws' # None => sock'[ws'] # "unused" /\ reported'[ws'] = 0)
      /\ (recvTask' # None => reader'[recvTask'] # "none")
    BY <1>1, <1>2 DEF Basics, Owned, TypeOK
<1>4. ASSUME NEW t \in Sockets
      PROVE  Untouched(t)' /\ reported'[t] <= IF t \in byUs' THEN 0 ELSE 1
    <2>1. /\ Untouched(t) /\ reported[t] \in Nat /\ reported[t] <= IF t \in byUs THEN 0 ELSE 1
          /\ t = ws => reported[t] = 0
        BY <1>1, ConnectionAssumption DEF Basics, TypeOK
    <2>2. Untouched(t)'
        BY <1>2, <2>1 DEF Untouched
    <2>3. reported'[t] <= IF t \in byUs' THEN 0 ELSE 1
        BY <2>1
    <2> QED
        BY <2>2, <2>3
<1>5. ASSUME NEW d \in Calls \ {c} PROVE Waiting(d)'
    BY DEF Basics, Waiting
<1> QED
    BY <1>3, <1>4, <1>5 DEF Basics

\* The receive task that a call waits for is reading and told to end.
LEMMA StopReceiverWaits ==
    ASSUME Basics, NEW c \in Calls, Receiving, \A t \in Sockets : reader[t] # "created",
           StopReceiver(c), UNCHANGED reader
    PROVE  /\ pc' = [pc EXCEPT ![c] = "receiver"] /\ awaited' = [awaited EXCEPT ![c] = recvTask]
           /\ cancelled' = cancelled \cup {recvTask} /\ recvTask \in Sockets
           /\ Waiting(c)'
<1>1. recvTask \in Sockets /\ reader[recvTask] = "reading"
    BY DEF Basics, Receiving, TypeOK
<1>2. /\ pc' = [pc EXCEPT ![c] = "receiver"] /\ awaited' = [awaited EXCEPT ![c] = recvTask]
      /\ cancelled' = cancelled \cup {recvTask}
    BY DEF StopReceiver, Goto
<1>3. pc'[c] = "receiver" /\ awaited'[c] = recvTask
    BY <1>2 DEF Basics, TypeOK
<1> QED
    BY <1>1, <1>2, <1>3 DEF Waiting

\* A call that has waited finds a client that is not connected.
LEMMA WaitedIsNotConnected ==
    ASSUME Basics, NEW c \in Calls, AwaitOver(c)
    PROVE  ~connected
BY DEF Basics, Owned, AwaitOver

LEMMA BasicsConnect ==
    ASSUME Basics, NEW c \in Connectors, Connect(c) \/ ConnectResume(c)
    PROVE  Basics'
<1>1. c \in Calls /\ TypeOK
    BY DEF Calls, Basics
<1>2. connected = FALSE
    BY <1>1, WaitedIsNotConnected DEF Connect, ConnectResume, TypeOK
<1>3. /\ UNCHANGED <<ws, connected, recvTask, pingTask, reader, source, ping, reported, byUs>>
      /\ crossed' \in BOOLEAN /\ \A t \in Sockets : t \in byUs' => t \in byUs \/ t = ws
    BY <1>1 DEF Connect, ConnectResume, fields, tasks, history, TypeOK
<1>4. CASE Connect(c) /\ Receiving
    <2>1. StopReceiver(c) /\ UNCHANGED sock /\ \A t \in Sockets : reader[t] # "created"
        BY <1>4 DEF Connect, Started
    <2>2. /\ pc' = [pc EXCEPT ![c] = "receiver"] /\ awaited' = [awaited EXCEPT ![c] = recvTask]
          /\ cancelled' = cancelled \cup {recvTask} /\ recvTask \in Sockets /\ Waiting(c)'
        BY <1>1, <1>3, <1>4, <2>1, StopReceiverWaits
    <2>3. TypeOK'
        BY <1>1, <1>3, <2>1, <2>2 DEF TypeOK
    <2>4. \A d \in Calls \ {c} : pc'[d] = pc[d] /\ awaited'[d] = awaited[d]
        BY <1>1, <2>2 DEF TypeOK
    <2> QED
        BY <1>1, <1>2, <1>3, <2>1, <2>2, <2>3, <2>4, BasicsCall
<1>5. CASE (Connect(c) /\ ~Receiving) \/ ConnectResume(c)
    <2>1. sock' = CloseWs /\ pc' = [pc EXCEPT ![c] = "opening"] /\ UNCHANGED <<cancelled, awaited>>
        BY <1>5 DEF Connect, ConnectResume, Reopen, Goto, tasks
    <2>2. TypeOK'
        BY <1>1, <1>3, <2>1 DEF TypeOK, CloseWs
    <2>3. pc'[c] = "opening" /\ \A d \in Calls \ {c} : pc'[d] = pc[d] /\ awaited'[d] = awaited[d]
        BY <1>1, <2>1 DEF TypeOK
    <2>4. Waiting(c)'
        BY <2>3 DEF Waiting
    <2> QED
        BY <1>1, <1>2, <1>3, <2>1, <2>2, <2>3, <2>4, BasicsCall
<1> QED
    BY <1>4, <1>5

LEMMA BasicsOpenFails ==
    ASSUME Basics, NEW c \in Connectors, OpenFails(c)
    PROVE  Basics'
<1>1. c \in Calls /\ TypeOK
    BY DEF Calls, Basics
<1>2. /\ UNCHANGED <<ws, recvTask, pingTask, sock, reader, source, cancelled, ping, awaited,
                     reported, byUs, crossed>>
      /\ connected' = FALSE /\ pc' = [pc EXCEPT ![c] = "idle"]
    BY DEF OpenFails, tasks, history, Goto
<1>3. TypeOK'
    BY <1>1, <1>2 DEF TypeOK
<1>4. pc'[c] = "idle" /\ \A d \in Calls \ {c} : pc'[d] = pc[d] /\ awaited'[d] = awaited[d]
    BY <1>1, <1>2 DEF TypeOK
<1>5. Waiting(c)'
    BY <1>4 DEF Waiting
<1> QED
    BY <1>1, <1>2, <1>3, <1>4, <1>5, BasicsCall

\* No call is in the middle of letting go when a handshake ends.
LEMMA BasicsOpened ==
    ASSUME Basics, NEW c \in Connectors, Opened(c)
    PROVE  Basics'
<1>1. c \in Calls /\ TypeOK
    BY DEF Calls, Basics
<1>2. ASSUME NEW d \in Calls PROVE pc[d] \in {"idle", "opening"}
    <2>1. Waiting(d) /\ pc[d] \in {"idle", "receiver", "pinger", "opening"}
        BY <1>1 DEF Basics, TypeOK
    <2>2. Settled
        BY DEF Opened
    <2>3. pc[d] # "pinger"
        BY <2>1, <2>2 DEF Waiting, Settled, AwaitOver
    <2>4. pc[d] # "receiver"
        <3> SUFFICES ASSUME pc[d] = "receiver" PROVE FALSE
            OBVIOUS
        <3>1. awaited[d] \in cancelled /\ awaited[d] \in Sockets
            BY <1>1, <2>1 DEF Waiting, TypeOK
        <3>2. reader[awaited[d]] # "done"
            BY <2>2 DEF Settled, AwaitOver
        <3>3. reader[awaited[d]] # "reading"
            BY <2>2, <3>1 DEF Settled, Due
        <3> QED
            BY <2>1, <3>2, <3>3 DEF Waiting
    <2> QED
        BY <2>1, <2>3, <2>4
<1>3. PICK s \in Sockets :
        /\ sock[s] = "unused"
        /\ sock' = [sock EXCEPT ![s] = "open"]
        /\ ws' = s /\ connected' = TRUE /\ recvTask' = s /\ pingTask' = s
        /\ reader' = [reader EXCEPT ![s] = "created"]
        /\ ping' = [ping EXCEPT ![s] = "running"]
    BY DEF Opened
<1>4. /\ UNCHANGED <<source, cancelled, awaited, reported, byUs, crossed>>
      /\ pc' = [pc EXCEPT ![c] = "idle"]
    BY DEF Opened, history, Goto
<1>5. TypeOK'
    BY <1>1, <1>3, <1>4 DEF TypeOK
<1>6. \A d \in Calls : pc'[d] \in {"idle", "opening"}
    BY <1>1, <1>2, <1>4 DEF TypeOK
<1>7. s # None /\ reader'[s] = "created" /\ sock'[s] = "open" /\ s \notin byUs /\ reported[s] = 0
    BY <1>1, <1>3, ConnectionAssumption DEF TypeOK, Basics, Untouched
<1>8. Owned' /\ (ws' # None => sock'[ws'] # "unused" /\ reported'[ws'] = 0)
      /\ (recvTask' # None => reader'[recvTask'] # "none")
    BY <1>3, <1>4, <1>6, <1>7 DEF Owned
<1>9. ASSUME NEW t \in Sockets
      PROVE  Untouched(t)' /\ reported'[t] <= IF t \in byUs' THEN 0 ELSE 1
    <2>1. Untouched(t) /\ reported[t] <= IF t \in byUs THEN 0 ELSE 1
        BY DEF Basics
    <2>2. t = s \/ (sock'[t] = sock[t] /\ reader'[t] = reader[t])
        BY <1>1, <1>3 DEF TypeOK
    <2> QED
        BY <1>4, <1>7, <2>1, <2>2 DEF Untouched
<1>10. \A d \in Calls : Waiting(d)'
    BY <1>6 DEF Waiting
<1> QED
    BY <1>5, <1>8, <1>9, <1>10 DEF Basics

LEMMA BasicsClose ==
    ASSUME Basics, NEW c \in Closers, Close(c) \/ CloseResume(c)
    PROVE  Basics'
<1>1. c \in Calls /\ TypeOK
    BY DEF Calls, Basics
<1>2. /\ connected' = FALSE /\ UNCHANGED <<recvTask, pingTask, reader, source, reported, crossed>>
      /\ byUs' \subseteq Sockets /\ \A t \in Sockets : t \in byUs' => t \in byUs \/ t = ws
      /\ ping' \in [Sockets -> {"none", "running", "cancelled", "done"}]
      /\ \A t \in Sockets : ping[t] \in {"cancelled", "done"} => ping'[t] \in {"cancelled", "done"}
    <2>1. CASE Close(c)
        <3>1. /\ connected' = FALSE /\ byUs' = byUs \cup ({ws} \ {None}) /\ ping' = CancelPing
              /\ UNCHANGED <<recvTask, pingTask, reader, source, reported, crossed>>
            BY <2>1 DEF Close
        <3>2. /\ ping' \in [Sockets -> {"none", "running", "cancelled", "done"}]
              /\ \A t \in Sockets : ping[t] \in {"cancelled", "done"} => ping'[t] \in {"cancelled", "done"}
            BY <1>1, <3>1 DEF CancelPing, Pinging, TypeOK
        <3> QED
            BY <1>1, <3>1, <3>2 DEF TypeOK
    <2>2. CASE CloseResume(c)
        BY <1>1, <2>2, WaitedIsNotConnected DEF CloseResume, history, TypeOK
    <2> QED
        BY <2>1, <2>2
<1>3. CASE StopReceiver(c) /\ UNCHANGED <<sock, ws>> /\ Receiving /\ \A t \in Sockets : reader[t] # "created"
    <2>1. /\ pc' = [pc EXCEPT ![c] = "receiver"] /\ awaited' = [awaited EXCEPT ![c] = recvTask]
          /\ cancelled' = cancelled \cup {recvTask} /\ recvTask \in Sockets /\ Waiting(c)'
        BY <1>1, <1>2, <1>3, StopReceiverWaits
    <2>2. TypeOK'
        BY <1>1, <1>2, <1>3, <2>1 DEF TypeOK
    <2>3. \A d \in Calls \ {c} : pc'[d] = pc[d] /\ awaited'[d] = awaited[d]
        BY <1>1, <2>1 DEF TypeOK
    <2> QED
        BY <1>1, <1>2, <1>3, <2>1, <2>2, <2>3, BasicsCall
<1>4. CASE CloseSocket(c) /\ UNCHANGED <<cancelled, awaited>>
    <2>1. sock' = CloseWs /\ ws' = None /\ pc' = [pc EXCEPT ![c] = "idle"]
        BY <1>4 DEF CloseSocket, Goto
    <2>2. TypeOK'
        BY <1>1, <1>2, <1>4, <2>1 DEF TypeOK, CloseWs
    <2>3. pc'[c] = "idle" /\ \A d \in Calls \ {c} : pc'[d] = pc[d] /\ awaited'[d] = awaited[d]
        BY <1>1, <1>4, <2>1 DEF TypeOK
    <2>4. Waiting(c)'
        BY <2>3 DEF Waiting
    <2> QED
        BY <1>1, <1>2, <1>4, <2>1, <2>2, <2>3, <2>4, BasicsCall
<1>5. CASE /\ Close(c) /\ Pinging
           /\ awaited' = [awaited EXCEPT ![c] = pingTask] /\ pc' = [pc EXCEPT ![c] = "pinger"]
           /\ UNCHANGED <<ws, sock, cancelled>>
    <2>1. pingTask \in Sockets /\ ping'[pingTask] = "cancelled"
        BY <1>1, <1>5 DEF Close, CancelPing, Pinging, TypeOK
    <2>2. TypeOK'
        BY <1>1, <1>2, <1>5, <2>1 DEF TypeOK
    <2>3. /\ pc'[c] = "pinger" /\ awaited'[c] = pingTask
          /\ \A d \in Calls \ {c} : pc'[d] = pc[d] /\ awaited'[d] = awaited[d]
        BY <1>1, <1>5 DEF TypeOK
    <2>4. Waiting(c)'
        BY <1>2, <1>5, <2>1, <2>3 DEF Waiting, Close, Started
    <2> QED
        BY <1>1, <1>2, <1>5, <2>2, <2>3, <2>4, BasicsCall
<1>6. CASE Close(c)
    <2>1. \A t \in Sockets : reader[t] # "created"
        BY <1>6 DEF Close, Started
    <2> QED
        BY <1>3, <1>4, <1>5, <1>6, <2>1 DEF Close, CloseReceiver, Goto
<1>7. CASE CloseResume(c)
    <2>1. \A t \in Sockets : reader[t] # "created"
        BY <1>1, <1>7 DEF CloseResume, AwaitOver, Basics, Waiting
    <2> QED
        BY <1>3, <1>4, <1>7, <2>1 DEF CloseResume, CloseReceiver
<1> QED
    BY <1>6, <1>7

LEMMA BasicsStep ==
    ASSUME Basics, [Next]_vars
    PROVE  Basics'
<1>1. CASE UNCHANGED vars
    BY <1>1 DEF vars, fields, tasks, history, Basics, TypeOK, Owned, Untouched, Waiting
<1>2. CASE \E c \in Calls : Call(c)
    BY <1>2, BasicsConnect, BasicsOpened, BasicsOpenFails, BasicsClose DEF Call
<1>3. ASSUME NEW t \in Sockets, EndReader(t) PROVE Basics'
    BY <1>3, BasicsLetGo DEF EndReader, Due, Basics, TypeOK
<1>4. ASSUME NEW t \in Sockets, StartReader(t) PROVE Basics'
    <2>1. CASE HandleDisconnect /\ reader' = [reader EXCEPT ![t] = "done"]
        <3>1. /\ UNCHANGED <<sock, cancelled, pc, awaited, byUs, crossed>>
              /\ reader[t] = "created" /\ source' = [source EXCEPT ![t] = ws]
            BY <1>4 DEF StartReader
        <3>2. TypeOK
            BY DEF Basics
        <3>3. /\ reader' \in [Sockets -> {"none", "created", "reading", "done"}]
              /\ source' \in [Sockets -> Sockets \cup {None}]
              /\ \A s \in Sockets : reader'[s] = reader[s] \/ (reader[s] # "none" /\ reader'[s] = "done")
            BY <2>1, <3>1, <3>2 DEF TypeOK
        <3> QED
            BY <2>1, <3>1, <3>3, BasicsLetGo
    <2>2. CASE UNCHANGED <<fields, ping, reported>>
        BY <1>4, <2>2, BasicsTask
    <2> QED
        BY <1>4, <2>1, <2>2 DEF StartReader
<1>5. CASE SendFails
    BY <1>5, BasicsLetGo DEF SendFails, Basics, TypeOK
<1> QED
    BY <1>1, <1>2, <1>3, <1>4, <1>5, BasicsTask DEF Next, Task

-----------------------------------------------------------------------------

(* Connects that have never overlapped *)

\* A connect that begins while another is under way is remembered.
LEMMA OneAtATimeStays ==
    ASSUME Basics, [Next]_vars, ~crossed => OneAtATime
    PROVE  ~crossed' => ~crossed /\ OneAtATime'
<1>1. TypeOK /\ Connectors \subseteq Calls /\ \A c \in Closers : c \notin Connectors
    BY ConnectionAssumption DEF Basics, Calls
<1>2. ASSUME UNCHANGED <<pc, crossed>> PROVE ~crossed' => ~crossed /\ OneAtATime'
    BY <1>2 DEF OneAtATime
<1>3. CASE UNCHANGED vars
    BY <1>2, <1>3 DEF vars, history
<1>4. CASE SendFails \/ \E t \in Sockets : Task(t) \/ Lose(t)
    BY <1>2, <1>4 DEF SendFails, Task, StartReader, EndReader, EndPing, Lose, history
<1>5. ASSUME NEW c \in Closers, Close(c) \/ CloseResume(c)
      PROVE  ~crossed' => ~crossed /\ OneAtATime'
    <2>1. crossed' = crossed /\ \E place : pc' = [pc EXCEPT ![c] = place]
        BY <1>5 DEF Close, CloseResume, CloseReceiver, CloseSocket, StopReceiver, Goto, history
    <2>2. \A d \in Connectors : pc'[d] = pc[d]
        BY <1>1, <2>1 DEF TypeOK
    <2> QED
        BY <2>1, <2>2 DEF OneAtATime
<1>6. ASSUME NEW c \in Connectors, Connect(c) PROVE ~crossed' => ~crossed /\ OneAtATime'
    <2>1. crossed' = (crossed \/ \E d \in Connectors : pc[d] # "idle")
        BY <1>6 DEF Connect
    <2>2. \E place : pc' = [pc EXCEPT ![c] = place]
        BY <1>6 DEF Connect, StopReceiver, Reopen, Goto
    <2>3. \A d \in Connectors : d = c \/ pc'[d] = pc[d]
        BY <1>1, <2>2 DEF TypeOK
    <2> QED
        BY <2>1, <2>3 DEF OneAtATime
<1>7. ASSUME NEW c \in Connectors, ConnectResume(c) \/ Opened(c) \/ OpenFails(c)
      PROVE  ~crossed' => ~crossed /\ OneAtATime'
    <2>1. crossed' = crossed /\ pc[c] # "idle"
        BY <1>7 DEF ConnectResume, Opened, OpenFails, AwaitOver, history
    <2>2. \E place : pc' = [pc EXCEPT ![c] = place]
        BY <1>7 DEF ConnectResume, Opened, OpenFails, Reopen, Goto
    <2>3. \A d \in Connectors : d = c \/ pc'[d] = pc[d]
        BY <1>1, <2>2 DEF TypeOK
    <2> QED
        BY <2>1, <2>3 DEF OneAtATime
<1> QED
    BY <1>3, <1>4, <1>5, <1>6, <1>7 DEF Next, Call

LEMMA InvStart ==
    ASSUME Init
    PROVE  Inv
<1>1. TypeOK
    BY DEF Init, TypeOK
<1>2. FieldsAgree /\ \A t \in Sockets : Untouched(t) /\ ReaderFits(t)
    BY ConnectionAssumption DEF Init, FieldsAgree, Untouched, ReaderFits
<1>3. \A c \in Calls : CallFits(c)
    BY DEF Init, CallFits
<1> QED
    BY <1>1, <1>2, <1>3 DEF Inv

LEMMA InvStep ==
    ASSUME OneAtATime, Inv, [Next]_vars
    PROVE  Inv'
<1>1. CASE UNCHANGED vars
    BY <1>1 DEF vars, fields, tasks, history, Inv, TypeOK, FieldsAgree, AllIdle, Untouched,
       ReaderFits, CallFits
<1>2. CASE \E c \in Calls : Call(c)
    BY <1>2, ConnectKeeps, OpenedKeeps, OpenFailsKeeps, CloseKeeps DEF Call
<1>3. ASSUME NEW t \in Sockets, EndReader(t) PROVE Inv'
    <2>1. HandleDisconnect /\ UNCHANGED <<sock, source, cancelled, pc, awaited, byUs, crossed>>
        BY <1>3 DEF EndReader
    <2> QED
        BY <1>3, <2>1, LettingGo
<1>4. CASE \E t \in Sockets : Task(t) \/ Lose(t)
    BY <1>3, <1>4, StartReaderKeeps, EndPingKeeps DEF Task
<1>5. CASE SendFails
    <2>1. /\ connected /\ sock[ws] # "open" /\ HandleDisconnect
          /\ UNCHANGED <<sock, reader, source, cancelled, pc, awaited, byUs, crossed>>
        BY <1>5 DEF SendFails
    <2> QED
        BY <2>1, LettingGo
<1> QED
    BY <1>1, <1>2, <1>4, <1>5 DEF Next

LEMMA Invariance == Spec => [](Basics /\ (~crossed => OneAtATime /\ Inv))
<1>1. Init => Basics /\ OneAtATime /\ Inv
    BY BasicsStart, InvStart DEF Init, OneAtATime, Calls
<1>2. Basics /\ (~crossed => OneAtATime /\ Inv) /\ [Next]_vars
        => (Basics /\ (~crossed => OneAtATime /\ Inv))'
    BY BasicsStep, OneAtATimeStays, InvStep
<1> QED
    BY <1>1, <1>2, PTL DEF Spec

\* However many calls of connect and close overlap, a client that says it is
\* connected has a socket whose receive task is alive; and as long as no two
\* connects have overlapped, what is received belongs to a client that says so,
\* whoever closes, loses or fails to send at the same time.
THEOREM ConnectionTold == Spec => []ConnectedTells
<1>1. Basics => (connected => Receiving /\ ws = recvTask)
    BY DEF Basics, Owned, Receiving
<1>2. Inv => \A t \in Sockets :
          reader[t] = "reading" /\ ~Due(t) /\ t \notin byUs => connected /\ ws = source[t]
    BY DEF Inv, ReaderFits, Due
<1>3. Basics /\ (~crossed => OneAtATime /\ Inv) => ConnectedTells
    BY <1>1, <1>2 DEF ConnectedTells
<1> QED
    BY <1>3, Invariance, PTL

\* However many calls of connect and close overlap, the loss of a connection is
\* never reported twice, and that of a closed one not at all; and as long as no two
\* connects have overlapped, it is reported.
THEOREM LossReportedOnce == Spec => []LossToldOnce
<1>1. Basics => \A t \in Sockets : reported[t] <= IF t \in byUs THEN 0 ELSE 1
    BY DEF Basics
<1>2. Inv => \A t \in Sockets : reader[t] = "done" /\ t \notin byUs => reported[t] = 1
    BY DEF Inv, ReaderFits
<1>3. Basics /\ (~crossed => OneAtATime /\ Inv) => LossToldOnce
    BY <1>1, <1>2 DEF LossToldOnce
<1> QED
    BY <1>3, Invariance, PTL

=============================================================================
