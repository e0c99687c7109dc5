-------------------------- MODULE ClientConnection --------------------------
(***************************************************************************)
(* WebSocketClient: the client's one connection, opened and closed by      *)
(* coroutines that the scenes start and nobody waits for.  Each connection *)
(* has a task that receives and a task that pings, both named here after   *)
(* the socket whose connect created them.  A step runs from one await that *)
(* may suspend to the next.                                                *)
(***************************************************************************)
EXTENDS Naturals, FiniteSets

CONSTANTS
    Connectors,  \* coroutines that may call connect: the most at one time
    Closers,     \* coroutines that may call close
    Sockets,     \* bound: the connections ever opened
    None

ASSUME ConnectionAssumption ==
    /\ Connectors \cap Closers = {}
    /\ None \notin Sockets

VARIABLES
    ws, connected, recvTask, pingTask,  \* the fields of WebSocketClient
    sock,       \* each socket: "unused", "open", "lost" to the peer, "closed"
    reader,     \* each receive task: "none", "created", "reading", "done"
    source,     \* the socket it reads from
    cancelled,  \* the receive tasks asked to stop
    ping,       \* each ping task: "none", "running", "cancelled", "done"
    pc,         \* where each coroutine is suspended
    awaited,    \* the task it waits for
    reported,   \* history: how often the loss of each socket was reported
    byUs,       \* history: the sockets in use when close was called
    crossed     \* history: a connect began while another was under way

fields == <<ws, connected, recvTask, pingTask>>

tasks == <<reader, source, cancelled, ping>>

history == <<reported, byUs, crossed>>

vars == <<fields, sock, tasks, pc, awaited, history>>

Calls == Connectors \cup Closers

-----------------------------------------------------------------------------

Init ==
    /\ ws = None /\ connected = FALSE /\ recvTask = None /\ pingTask = None
    /\ sock = [s \in Sockets |-> "unused"]
    /\ reader = [s \in Sockets |-> "none"]
    /\ source = [s \in Sockets |-> None]
    /\ cancelled = {}
    /\ ping = [s \in Sockets |-> "none"]
    /\ pc = [c \in Calls |-> "idle"]
    /\ awaited = [c \in Calls |-> None]
    /\ reported = [s \in Sockets |-> 0]
    /\ byUs = {} /\ crossed = FALSE

Goto(c, place) == pc' = [pc EXCEPT ![c] = place]

\* A task that is set and not done
Receiving == recvTask # None /\ reader[recvTask] # "done"
Pinging == pingTask # None /\ ping[pingTask] = "running"

\* A receive task that will run in the next round of the event loop: it was
\* cancelled or its socket ended.
Due(t) ==
    /\ reader[t] = "reading"
    /\ t \in cancelled \/ sock[source[t]] \in {"lost", "closed"}

AwaitOver(c) ==
    \/ pc[c] = "receiver" /\ reader[awaited[c]] = "done"
    \/ pc[c] = "pinger" /\ ping[awaited[c]] = "done"

\* A handshake takes several rounds of the event loop, so all that was ready
\* when it began has run before it ends.
Settled ==
    /\ \A t \in Sockets : ~Due(t) /\ ping[t] # "cancelled"
    /\ \A c \in Calls : ~AwaitOver(c)

\* What a scene starts runs after the tasks that exist already.
Started == \A t \in Sockets : reader[t] # "created"

CancelPing == IF Pinging THEN [ping EXCEPT ![pingTask] = "cancelled"] ELSE ping

\* A fault to compare with: every end of a receive task is reported.
ReportAlways == [reported EXCEPT ![ws] = @ + 1]

Report == IF connected THEN [reported EXCEPT ![ws] = @ + 1] ELSE reported

\* A fault to compare with: the flag outlives the connection.
ForgetSocketOnly ==
    /\ ws' = None /\ recvTask' = None /\ pingTask' = None
    /\ ping' = CancelPing
    /\ reported' = Report
    /\ UNCHANGED connected

HandleDisconnect ==
    /\ ws' = None /\ connected' = FALSE /\ recvTask' = None /\ pingTask' = None
    /\ ping' = CancelPing
    /\ reported' = Report

-----------------------------------------------------------------------------

(* The tasks of a connection *)

\* Both tasks of a socket exist; the receive task takes the socket of the client
\* as it finds it.  Two tasks that receive from one socket are an error.
StartReader(t) ==
    /\ reader[t] = "created"
    /\ source' = [source EXCEPT ![t] = ws]
    /\ LET shared == \E u \in Sockets : reader[u] = "reading" /\ source[u] = ws
       IN  IF ws # None /\ shared
           THEN reader' = [reader EXCEPT ![t] = "done"] /\ HandleDisconnect
           ELSE /\ reader' = [reader EXCEPT ![t] = IF ws = None THEN "done" ELSE "reading"]
                /\ UNCHANGED <<fields, ping, reported>>
    /\ UNCHANGED <<sock, cancelled, pc, awaited, byUs, crossed>>

\* The finally clause of the receive loop, whatever ended it.
EndReader(t) ==
    /\ Due(t)
    /\ reader' = [reader EXCEPT ![t] = "done"]
    /\ HandleDisconnect
    /\ UNCHANGED <<sock, source, cancelled, pc, awaited, byUs, crossed>>

\* The ping loop ends when cancelled, when the flag is down, by a failed send.
EndPing(t) ==
    /\ \/ ping[t] = "cancelled"
       \/ ping[t] = "running" /\ (~connected \/ (ws # None /\ sock[ws] # "open"))
    /\ reader[t] # "created"
    /\ ping' = [ping EXCEPT ![t] = "done"]
    /\ UNCHANGED <<fields, sock, reader, source, cancelled, pc, awaited, history>>

\* The server or the network ends a connection.
Lose(s) ==
    /\ sock[s] = "open"
    /\ sock' = [sock EXCEPT ![s] = "lost"]
    /\ UNCHANGED <<fields, tasks, pc, awaited, history>>

\* send raises before the receive task has noticed.
SendFails ==
    /\ connected /\ ws # None /\ sock[ws] # "open"
    /\ HandleDisconnect
    /\ UNCHANGED <<sock, reader, source, cancelled, pc, awaited, byUs, crossed>>

-----------------------------------------------------------------------------

(* connect *)

CloseWs == [s \in Sockets |-> IF s = ws THEN "closed" ELSE sock[s]]

\* A fault to compare with: the receive task is awaited but not cancelled.
AwaitReceiver(c) ==
    /\ awaited' = [awaited EXCEPT ![c] = recvTask]
    /\ Goto(c, "receiver")
    /\ UNCHANGED cancelled

\* The receive task is cancelled and c waits for it.
StopReceiver(c) ==
    /\ cancelled' = cancelled \cup {recvTask}
    /\ awaited' = [awaited EXCEPT ![c] = recvTask]
    /\ Goto(c, "receiver")

\* The old socket, if there is one, is closed and a new one asked for.
Reopen(c) ==
    /\ sock' = CloseWs
    /\ Goto(c, "opening")

\* Scenes call connect only when the client is not connected.
Connect(c) ==
    /\ pc[c] = "idle" /\ ~connected /\ Started
    /\ IF Receiving THEN StopReceiver(c) /\ UNCHANGED sock
       ELSE Reopen(c) /\ UNCHANGED <<cancelled, awaited>>
    /\ crossed' = (crossed \/ \E d \in Connectors : pc[d] # "idle")
    /\ UNCHANGED <<fields, reader, source, ping, reported, byUs>>

ConnectResume(c) ==
    /\ AwaitOver(c)
    /\ Reopen(c)
    /\ UNCHANGED <<fields, tasks, awaited, history>>

Opened(c) ==
    /\ pc[c] = "opening" /\ Settled
    /\ \E s \in Sockets :
          /\ sock[s] = "unused"
          /\ sock' = [sock EXCEPT ![s] = "open"]
          /\ ws' = s /\ connected' = TRUE /\ recvTask' = s /\ pingTask' = s
          /\ reader' = [reader EXCEPT ![s] = "created"]
          /\ ping' = [ping EXCEPT ![s] = "running"]
    /\ Goto(c, "idle")
    /\ UNCHANGED <<source, cancelled, awaited, history>>

OpenFails(c) ==
    /\ pc[c] = "opening" /\ Settled
    /\ connected' = FALSE
    /\ Goto(c, "idle")
    /\ UNCHANGED <<ws, recvTask, pingTask, sock, tasks, awaited, history>>

-----------------------------------------------------------------------------

(* close *)

CloseSocket(c) ==
    /\ sock' = CloseWs
    /\ ws' = None
    /\ Goto(c, "idle")

\* The second part of close: the receive task, then the socket.
CloseReceiver(c) ==
    IF Receiving THEN StopReceiver(c) /\ UNCHANGED <<sock, ws>>
    ELSE CloseSocket(c) /\ UNCHANGED <<cancelled, awaited>>

Close(c) ==
    /\ pc[c] = "idle" /\ Started
    /\ connected' = FALSE
    /\ byUs' = byUs \cup ({ws} \ {None})
    /\ ping' = CancelPing
    /\ IF Pinging
       THEN /\ awaited' = [awaited EXCEPT ![c] = pingTask]
            /\ Goto(c, "pinger")
            /\ UNCHANGED <<ws, sock, cancelled>>
       ELSE CloseReceiver(c)
    /\ UNCHANGED <<recvTask, pingTask, reader, source, reported, crossed>>

CloseResume(c) ==
    /\ AwaitOver(c)
    /\ IF pc[c] = "pinger" THEN CloseReceiver(c)
       ELSE CloseSocket(c) /\ UNCHANGED <<cancelled, awaited>>
    /\ UNCHANGED <<connected, recvTask, pingTask, reader, source, ping, history>>

-----------------------------------------------------------------------------

Call(c) ==
    \/ c \in Connectors /\ (Connect(c) \/ ConnectResume(c) \/ Opened(c) \/ OpenFails(c))
    \/ c \in Closers /\ (Close(c) \/ CloseResume(c))

Resume(c) ==
    \/ c \in Connectors /\ (ConnectResume(c) \/ Opened(c) \/ OpenFails(c))
    \/ c \in Closers /\ CloseResume(c)

Task(t) == StartReader(t) \/ EndReader(t) \/ EndPing(t)

Next ==
    \/ \E c \in Calls : Call(c)
    \/ \E s \in Sockets : Task(s) \/ Lose(s)
    \/ SendFails

Spec == Init /\ [][Next]_vars

\* The event loop runs every ready task, and a handshake succeeds or times out.
FairSpec ==
    /\ Spec
    /\ \A c \in Calls : WF_vars(Resume(c))
    /\ \A t \in Sockets : WF_vars(StartReader(t)) /\ WF_vars(EndReader(t)) /\ WF_vars(EndPing(t))

-----------------------------------------------------------------------------

(* Properties *)

TypeOK ==
    /\ {ws, recvTask, pingTask} \subseteq Sockets \cup {None} /\ connected \in BOOLEAN
    /\ sock \in [Sockets -> {"unused", "open", "lost", "closed"}]
    /\ reader \in [Sockets -> {"none", "created", "reading", "done"}]
    /\ source \in [Sockets -> Sockets \cup {None}]
    /\ cancelled \subseteq Sockets
    /\ ping \in [Sockets -> {"none", "running", "cancelled", "done"}]
    /\ pc \in [Calls -> {"idle", "receiver", "pinger", "opening"}]
    /\ awaited \in [Calls -> Sockets \cup {None}]
    /\ reported \in [Sockets -> Nat]
    /\ byUs \subseteq Sockets /\ crossed \in BOOLEAN

\* "Whether the WebSocket is currently connected" (WebSocketClient.connected): a
\* client that says so has a socket whose receive task is alive, however many
\* calls overlap.  If no two connects have, a socket that is received from belongs
\* to a client that says so, unless it is being closed.
ConnectedTells ==
    /\ connected => Receiving /\ ws = recvTask
    /\ ~crossed =>
        \A t \in Sockets :
            reader[t] = "reading" /\ ~Due(t) /\ t \notin byUs => connected /\ ws = source[t]

\* A connection lost is reported at most once, whichever of the receive tasks and
\* the sends notices it, and one that was closed never.  If no two connects have
\* overlapped it is reported when its receive task is done.
LossToldOnce ==
    /\ \A t \in Sockets : reported[t] <= IF t \in byUs THEN 0 ELSE 1
    /\ ~crossed => \A t \in Sockets : reader[t] = "done" /\ t \notin byUs => reported[t] = 1

\* Every connect and every close returns.
CallsReturn == \A c \in Calls : pc[c] # "idle" ~> pc[c] = "idle"

=============================================================================
