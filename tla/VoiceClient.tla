---------------------------- MODULE VoiceClient ----------------------------
(***************************************************************************)
(* DiscordVoiceClient and UDPSocket (voiceclient.cpp): the connection to a *)
(* voice server, from VOICE_SERVER_UPDATE to SESSION_DESCRIPTION and to    *)
(* Stop.  Its websocket is the class of the gateway's, so Stop nests: the  *)
(* main loop runs inside Websocket::Stop, and what it takes, orders of the *)
(* main gateway included, is handled before Stop's remaining statements.   *)
(* Threads: the main thread, the websocket's, the heartbeat and keepalive  *)
(* threads and the one that reads the UDP socket.                          *)
(***************************************************************************)
EXTENDS Naturals, Sequences, FiniteSets

CONSTANTS
    MaxConn,    \* voice connections opened in a behaviour (bound)
    MaxOrders,  \* orders to connect or to disconnect (bound)
    MaxFaults,  \* remote closes, failed connections and lost datagrams (bound)
    MaxDepth,   \* handlers nested in one another by Websocket::Stop (bound)
    Overlap     \* may an order come while another is not yet carried out?

ASSUME VoiceAssumption ==
    /\ MaxConn \in Nat \ {0} /\ MaxOrders \in Nat /\ MaxFaults \in Nat
    /\ MaxDepth \in Nat \ {0} /\ Overlap \in BOOLEAN

VARIABLES
    state,        \* m_state
    told,         \* the last of signal_connected and signal_disconnected
    sock,         \* m_ws: number of the connection it holds, 0 before the first
    phase,        \* what ix::WebSocket is doing with it
    shake,        \* how far the handshake is, as the server sees it
    terminate,    \* m_heartbeat_waiter.terminate, which both threads wait on
    heartbeat,    \* m_heartbeat_thread: "none" if not joinable
    keepalive,    \* m_keepalive_thread
    fd,           \* m_udp.m_socket: the connection it was opened for, 0 for -1
    descriptors,  \* the connections whose UDP descriptor is open
    reader,       \* m_udp.m_thread
    dave,         \* m_dave: the connection whose session it is, 0 if none
    discovering,  \* the main thread waits in UDPSocket::Receive, perhaps for what is lost
    dispatch,     \* notifications in the dispatchers' pipe
    msgQueue,     \* m_dispatch_queue
    frames,       \* handlers suspended in Websocket::Stop, innermost first
    orders, faults, crashed

connection == <<sock, phase, shake>>
threads    == <<terminate, heartbeat, keepalive>>
media      == <<fd, descriptors, reader, dave>>
queues     == <<dispatch, msgQueue>>
ghosts     == <<orders, faults, crashed>>
vars == <<state, told, connection, threads, media, discovering, queues, frames, ghosts>>

State == {"ConnectingToWebsocket", "EstablishingConnection", "Connected",
          "DisconnectedByClient"}
Phase == {"none", "connecting", "open", "closed"}
\* Who speaks next, server and client in turn, until the session is described
\* and, at most once in a connection (bound), an epoch is announced.
Shake == {"hello", "identify", "ready", "select", "describe", "done", "epoch"}
Op     == {"Hello", "Ready", "SessionDescription", "PrepareEpoch"}
Notice == {"open", "close", "msg", "start", "stop"}
\* Websocket::Stop joins its thread and runs the main loop; then UDPSocket::Stop joins.
Frame  == [fn : {"Start", "Stop", "Close"}, pc : {"stopping", "pumping"}]
          \cup [fn : {"Start", "Stop"}, pc : {"joining"}]
Thread == {"none", "running", "ended"}

Init ==
    /\ state = "DisconnectedByClient" /\ told = "nothing"
    /\ sock = 0 /\ phase = "none" /\ shake = "hello"
    /\ terminate = FALSE /\ heartbeat = "none" /\ keepalive = "none"
    /\ fd = 0 /\ descriptors = {} /\ reader = "none" /\ dave = 0
    /\ discovering = "no"
    /\ dispatch = <<>> /\ msgQueue = <<>> /\ frames = <<>>
    /\ orders = 0 /\ faults = 0 /\ crashed = FALSE

----------------------------------------------------------------------------
(* Helpers *)

IsConnected  == state = "Connected"
IsConnecting == state \in {"ConnectingToWebsocket", "EstablishingConnection"}

MainReady == /\ ~crashed /\ discovering = "no"
             /\ frames # <<>> => Head(frames).pc = "pumping"

Stopping == frames # <<>> /\ Head(frames).pc = "stopping"
Joining  == frames # <<>> /\ Head(frames).pc = "joining"

CallStop(fn) ==
    /\ Len(frames) < MaxDepth
    /\ frames' = <<[fn |-> fn, pc |-> "stopping"]>> \o frames

\* The main loop inside the innermost Websocket::Stop has run dry.
LoopDry == MainReady /\ frames # <<>> /\ dispatch = <<>>

Notified(kind) ==
    /\ MainReady
    /\ dispatch # <<>> /\ Head(dispatch) = kind
    /\ dispatch' = Tail(dispatch)

\* std::thread(...): it ends at once when its waiter has been killed.
NewThread == IF terminate THEN "ended" ELSE "running"

\* Websocket::StartConnection, with the notifications q still to take.
StartConnection(q) ==
    /\ sock < MaxConn
    /\ sock' = sock + 1 /\ phase' = "connecting" /\ shake' = "hello"
    /\ dispatch' = IF phase = "open" THEN Append(q, "close") ELSE q

\* Bug: the heartbeat waiter is not revived for a second connection.
BugNoRevive(q) ==
    /\ state' = "ConnectingToWebsocket" /\ told' = "connected"
    /\ dave' = 0 /\ terminate' = (told # "nothing")
    /\ StartConnection(q)

\* Bug: the end-to-end encryption session is kept.
BugKeepsSession(q) ==
    /\ state' = "ConnectingToWebsocket" /\ told' = "connected"
    /\ dave' = dave /\ terminate' = FALSE
    /\ StartConnection(q)

\* The rest of DiscordVoiceClient::Start once nothing is connected.
StartUp(q) ==
    /\ state' = "ConnectingToWebsocket" /\ told' = "connected"
    /\ dave' = 0 /\ terminate' = FALSE
    /\ StartConnection(q)

----------------------------------------------------------------------------
(* Orders: VOICE_SERVER_UPDATE, VOICE_STATE_UPDATE, the disconnect button *)

\* An order of the main gateway is queued; it is one more notification there.
OrderArrives(kind) ==
    /\ ~crashed /\ orders < MaxOrders /\ orders' = orders + 1
    /\ Overlap \/ (frames = <<>> /\ \A i \in DOMAIN dispatch : dispatch[i] \notin {"start", "stop"})
    /\ dispatch' = Append(dispatch, kind)
    /\ UNCHANGED <<state, told, connection, threads, media, discovering, msgQueue,
                   frames, faults, crashed>>

\* HandleGatewayVoiceServerUpdate, DiscordVoiceClient::Start: a live connection
\* is stopped first.
Start ==
    /\ Notified("start")
    /\ state' = "DisconnectedByClient" /\ (IsConnected \/ IsConnecting)
    /\ CallStop("Start")
    /\ UNCHANGED <<told, connection, threads, media, discovering, msgQueue, ghosts>>

StartAfresh ==
    /\ MainReady /\ dispatch # <<>> /\ Head(dispatch) = "start"
    /\ ~IsConnected /\ ~IsConnecting
    /\ StartUp(Tail(dispatch))
    /\ UNCHANGED <<heartbeat, keepalive, fd, descriptors, reader, discovering, msgQueue,
                   frames, ghosts>>

\* Bug: a connection still being made is not stopped, yet reported as gone.
BugStop ==
    /\ Notified("stop")
    /\ IF IsConnected
       THEN state' = "DisconnectedByClient" /\ CallStop("Stop") /\ UNCHANGED told
       ELSE told' = "disconnected" /\ UNCHANGED <<state, frames>>
    /\ UNCHANGED <<connection, threads, media, discovering, msgQueue, ghosts>>

\* CheckVoiceState or DisconnectFromVoice, DiscordVoiceClient::Stop up to m_ws.Stop(4014).
Stop ==
    /\ Notified("stop")
    /\ IF IsConnected \/ IsConnecting
       THEN state' = "DisconnectedByClient" /\ CallStop("Stop")
       ELSE UNCHANGED <<state, frames>>
    /\ UNCHANGED <<told, connection, threads, media, discovering, msgQueue, ghosts>>

\* Bug: the descriptor is left open.
BugCloseSocket == UNCHANGED descriptors

\* close(m_socket): m_socket keeps the number, which the next Stop closes again.
CloseSocket == descriptors' = descriptors \ {fd}

\* UDPSocket::Stop closes the socket and clears m_running, and the main thread waits
\* in join: no main loop runs, while the reader may still select on what is closed.
UDPStop ==
    /\ LoopDry /\ Head(frames).fn \in {"Start", "Stop"}
    /\ CloseSocket
    /\ frames' = [frames EXCEPT ![1].pc = "joining"]
    /\ UNCHANGED <<state, told, connection, threads, fd, reader, dave, discovering, queues,
                   ghosts>>

\* The reader finds m_running false, within a second.
ReaderEnds ==
    /\ ~crashed /\ Joining /\ reader = "running" /\ reader' = "ended"
    /\ UNCHANGED <<state, told, connection, threads, fd, descriptors, dave, discovering,
                   queues, frames, ghosts>>

\* Bug: the reader is left to end by itself.
BugJoinsReader(fn) ==
    /\ ~crashed /\ Joining /\ Head(frames).fn = fn
    /\ UNCHANGED <<fd, descriptors, reader>>
    /\ frames' = Tail(frames)

\* UDPSocket::Stop returns.
JoinsReader(fn) ==
    /\ ~crashed /\ Joining /\ Head(frames).fn = fn
    /\ reader # "running" /\ reader' = "none" /\ UNCHANGED <<fd, descriptors>>
    /\ frames' = Tail(frames)

\* The threads are told to end and joined; the keepalive thread ends because it
\* waits on the heartbeat's waiter.
JoinThreads == heartbeat' = "none" /\ keepalive' = "none"

\* The rest of Stop.
StopEnds ==
    /\ JoinsReader("Stop") /\ JoinThreads /\ terminate' = TRUE
    /\ dave' = 0 /\ told' = "disconnected"
    /\ UNCHANGED <<state, connection, discovering, queues, ghosts>>

\* The rest of the Stop that Start calls, and of Start.
StartEnds ==
    /\ JoinsReader("Start") /\ JoinThreads
    /\ StartUp(dispatch)
    /\ UNCHANGED <<discovering, msgQueue, ghosts>>

----------------------------------------------------------------------------
(* ix::WebSocket's thread and the voice server *)

SocketOpens ==
    /\ ~crashed /\ phase = "connecting"
    /\ phase' = "open"
    /\ dispatch' = Append(dispatch, "open")
    /\ UNCHANGED <<state, told, sock, shake, threads, media, discovering, msgQueue,
                   frames, ghosts>>

SocketFails ==
    /\ ~crashed /\ phase = "connecting"
    /\ \/ faults < MaxFaults /\ faults' = faults + 1
       \/ Stopping /\ UNCHANGED faults
    /\ phase' = "closed"
    /\ UNCHANGED <<state, told, sock, shake, threads, media, discovering, queues,
                   frames, orders, crashed>>

\* The server or the network closes (4014, 4000), or the close asked for is done.
SocketCloses ==
    /\ ~crashed /\ phase = "open"
    /\ \/ faults < MaxFaults /\ faults' = faults + 1
       \/ Stopping /\ UNCHANGED faults
    /\ phase' = "closed"
    /\ dispatch' = Append(dispatch, "close")
    /\ UNCHANGED <<state, told, sock, shake, threads, media, discovering, msgQueue,
                   frames, orders, crashed>>

SocketJoined ==
    /\ ~crashed /\ Stopping /\ phase \in {"none", "closed"}
    /\ frames' = [frames EXCEPT ![1].pc = "pumping"]
    /\ UNCHANGED <<state, told, connection, threads, media, discovering, queues, ghosts>>

\* The server's part of the handshake and what follows it: OnWebsocketMessage.
ServerSends(op) ==
    \/ op = "Hello" /\ shake = "hello" /\ shake' = "identify"
    \/ op = "Ready" /\ shake = "ready" /\ shake' = "select"
    \/ op = "SessionDescription" /\ shake = "describe" /\ shake' = "done"
    \/ op = "PrepareEpoch" /\ shake = "done" /\ shake' = "epoch"

SocketReceives(op) ==
    /\ ~crashed /\ phase = "open" /\ ServerSends(op)
    /\ msgQueue' = Append(msgQueue, op)
    /\ dispatch' = Append(dispatch, "msg")
    /\ UNCHANGED <<state, told, sock, phase, threads, media, discovering, frames, ghosts>>

----------------------------------------------------------------------------
(* The main thread takes a notification *)

\* OnWebsocketOpen.
OnWebsocketOpen ==
    /\ Notified("open")
    /\ state' = "EstablishingConnection"
    /\ UNCHANGED <<told, connection, threads, media, discovering, msgQueue, frames, ghosts>>

\* m_close_dispatcher stops the socket that m_ws holds now ...
DispatchClose ==
    /\ Notified("close")
    /\ CallStop("Close")
    /\ UNCHANGED <<state, told, connection, threads, media, discovering, msgQueue, ghosts>>

\* Bug: the close handler has the socket closed once more.
BugOnWebsocketClose ==
    /\ MainReady /\ frames # <<>> /\ Head(frames).fn = "Close"
    /\ dispatch = <<>> /\ dispatch' = <<"close">>
    /\ frames' = Tail(frames)
    /\ UNCHANGED <<state, told, connection, threads, media, discovering, msgQueue, ghosts>>

\* ... and OnWebsocketClose only logs.
OnWebsocketClose ==
    /\ LoopDry /\ Head(frames).fn = "Close"
    /\ frames' = Tail(frames)
    /\ UNCHANGED <<state, told, connection, threads, media, discovering, queues, ghosts>>

\* OnDispatch: nothing to do when the queue is empty.
OnDispatch(op) ==
    /\ Notified("msg")
    /\ msgQueue # <<>> /\ Head(msgQueue) = op
    /\ msgQueue' = Tail(msgQueue)

\* m_ws.Send reaches the server when the socket is open and it is our turn.
Send(expected, next) ==
    shake' = IF phase = "open" /\ shake = expected THEN next ELSE shake

\* Assigning to a joinable std::thread terminates the program.
HandleGatewayHello ==
    /\ OnDispatch("Hello")
    /\ IF heartbeat # "none"
       THEN crashed' = TRUE /\ UNCHANGED <<heartbeat, shake>>
       ELSE /\ heartbeat' = NewThread
            /\ Send("identify", "ready")
            /\ UNCHANGED crashed
    /\ UNCHANGED <<state, told, sock, phase, terminate, keepalive, media, discovering,
                   frames, orders, faults>>

\* Bug: discovery is done for the first descriptor only.
BugHandleGatewayReady ==
    /\ OnDispatch("Ready")
    /\ fd' = sock /\ descriptors' = descriptors \cup {sock}
    /\ keepalive' = NewThread /\ discovering' = (IF fd = 0 THEN "waiting" ELSE "no")
    /\ UNCHANGED <<state, told, connection, terminate, heartbeat, reader, dave, frames, ghosts>>

\* Connect makes a descriptor; Discovery sends a request and waits for its answer.
HandleGatewayReady ==
    /\ OnDispatch("Ready")
    /\ fd' = sock /\ descriptors' = descriptors \cup {sock}
    /\ IF keepalive # "none"
       THEN crashed' = TRUE /\ UNCHANGED <<keepalive, discovering>>
       ELSE /\ keepalive' = NewThread
            /\ discovering' = "waiting"
            /\ UNCHANGED crashed
    /\ UNCHANGED <<state, told, connection, terminate, heartbeat, reader, dave, frames,
                   orders, faults>>

\* The request or its answer is lost: recvfrom, which has no time limit, does not return.
DatagramLost ==
    /\ ~crashed /\ discovering = "waiting" /\ discovering' = "lost"
    /\ faults < MaxFaults /\ faults' = faults + 1
    /\ UNCHANGED <<state, told, connection, threads, media, queues, frames, orders, crashed>>

\* Discovery ends: the answer came and SelectProtocol is sent, or 100 other
\* packets came and nothing is.
DiscoveryEnds ==
    /\ ~crashed /\ discovering = "waiting" /\ discovering' = "no"
    /\ \/ Send("select", "describe") /\ UNCHANGED faults
       \/ faults < MaxFaults /\ faults' = faults + 1 /\ UNCHANGED shake
    /\ UNCHANGED <<state, told, sock, phase, threads, media, queues, frames, orders, crashed>>

\* m_udp.Run starts the reader; dave_protocol_version says whether m_dave is made.
HandleGatewaySessionDescription ==
    /\ OnDispatch("SessionDescription")
    /\ \/ UNCHANGED dave
       \/ dave' = IF dave = 0 THEN sock ELSE dave
    /\ IF reader # "none"
       THEN crashed' = TRUE /\ UNCHANGED <<reader, state>>
       ELSE reader' = "running" /\ state' = "Connected" /\ UNCHANGED crashed
    /\ UNCHANGED <<told, connection, threads, fd, descriptors, discovering, frames, orders,
                   faults>>

\* HandleGatewayDavePrepareEpoch makes a session when there is none.
HandleGatewayDavePrepareEpoch ==
    /\ OnDispatch("PrepareEpoch")
    /\ \/ UNCHANGED dave
       \/ dave' = IF dave = 0 THEN sock ELSE dave
    /\ UNCHANGED <<state, told, connection, threads, fd, descriptors, reader, discovering,
                   frames, ghosts>>

----------------------------------------------------------------------------
Environment == \/ \E kind \in {"start", "stop"} : OrderArrives(kind)
               \/ SocketOpens \/ SocketFails \/ SocketCloses \/ SocketJoined
               \/ ReaderEnds \/ DatagramLost
               \/ \E op \in Op : SocketReceives(op)
Main == \/ Start \/ StartAfresh \/ Stop \/ UDPStop \/ StopEnds \/ StartEnds
        \/ OnWebsocketOpen \/ DispatchClose \/ OnWebsocketClose
        \/ HandleGatewayHello \/ HandleGatewayReady \/ DiscoveryEnds
        \/ HandleGatewaySessionDescription \/ HandleGatewayDavePrepareEpoch

Next == Environment \/ Main

Spec == Init /\ [][Next]_vars

\* The main loop serves its sources, the threads run and the server does its part of
\* the handshake; what answers Discovery arrives, unless it is lost.
Fairness ==
    /\ WF_vars(Main) /\ WF_vars(SocketOpens) /\ WF_vars(SocketJoined) /\ WF_vars(ReaderEnds)
    /\ WF_vars(SocketCloses /\ Stopping) /\ WF_vars(SocketFails /\ Stopping)
    /\ \A op \in Op : WF_vars(SocketReceives(op))

FairSpec == Spec /\ Fairness

----------------------------------------------------------------------------
(* Properties *)

\* The range of every variable.
TypeOK ==
    /\ state \in State /\ told \in {"nothing", "connected", "disconnected"}
    /\ sock \in 0..MaxConn /\ phase \in Phase /\ shake \in Shake
    /\ terminate \in BOOLEAN /\ heartbeat \in Thread /\ keepalive \in Thread
    /\ fd \in 0..MaxConn /\ descriptors \subseteq 0..MaxConn /\ reader \in Thread
    /\ dave \in 0..MaxConn /\ discovering \in {"no", "waiting", "lost"}
    /\ dispatch \in Seq(Notice) /\ msgQueue \in Seq(Op) /\ frames \in Seq(Frame)
    /\ orders \in 0..MaxOrders /\ faults \in 0..MaxFaults /\ crashed \in BOOLEAN

\* No std::thread is assigned to while it is joinable, which would terminate the
\* program: a Hello, a Ready or a SESSION_DESCRIPTION finds no thread of an
\* earlier connection (HandleGatewayHello, HandleGatewayReady, UDPSocket::Run).
NoCrash == ~crashed

\* Once we have identified ourselves on an open voice connection and no handler
\* is suspended in Stop, its heartbeat thread runs: the waiter that earlier
\* connections killed was revived for it (Start, HandleGatewayHello).
VoiceBeats ==
    shake \notin {"hello", "identify"} /\ phase = "open" /\ frames = <<>>
        => heartbeat = "running"

\* No descriptor is left open that m_socket has forgotten, and the thread that reads
\* UDP selects on the one that the READY of its own connection opened.  Only while
\* UDPSocket::Stop waits for it may that one be closed (voiceclient.cpp:113-121).
ReaderHasSocket ==
    /\ descriptors \subseteq {fd}
    /\ reader = "running" => fd = sock /\ (fd \in descriptors \/ Joining)

\* m_dave, when there is one, was made for the connection that m_ws holds: no
\* session of an earlier call encrypts the packets of this one.
OwnSession == dave # 0 => dave = sock

\* The threads of the client that serve a connection.
Served == IF heartbeat = "none" /\ keepalive = "none" /\ reader = "none" THEN 0 ELSE sock

Link == INSTANCE Connection WITH
            number <- sock, link <- phase, serving <- Served,
            said <- (IF told = "disconnected" THEN "gone" ELSE "going")

\* A call is a connection as the rest of the program is promised one: a voice socket
\* is replaced only when it is closed and its threads are joined, and after
\* signal_disconnected nothing is opened or kept open until the next Start.
ImplementsConnection == Link!Spec

\* Every Stop the client calls returns to its caller, whatever is queued for the loop
\* that it runs, with one exception: a READY handled there enters Discovery, which
\* waits without a time limit for a datagram that may be lost (voiceclient.cpp:474).
StopEventuallyReturns == frames # <<>> ~> frames = <<>> \/ discovering = "lost"

\* A connection that signal_connected announced is established, unless it is
\* stopped or the network or the voice server lets it down.
Establishes ==
    told = "connected" /\ faults = 0
        ~> IsConnected \/ told = "disconnected" \/ faults > 0
=============================================================================
