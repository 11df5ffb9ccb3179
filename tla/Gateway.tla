------------------------------ MODULE Gateway ------------------------------
(***************************************************************************)
(* The session of DiscordClient with Discord's gateway: discord.cpp's      *)
(* Start, Stop and socket/gateway handlers, websocket.cpp and waiter.hpp.  *)
(*                                                                         *)
(* Three threads run: the GTK main thread, the thread of ix::WebSocket     *)
(* that receives frames, and the heartbeat thread.  The receiving thread   *)
(* reaches the main thread only through Glib::Dispatcher notifications,    *)
(* which share one pipe and so arrive in order.  Websocket::Stop blocks    *)
(* the main thread until the socket's thread has ended and then runs the   *)
(* main loop until no event is pending: whatever is queued is handled      *)
(* inside the handler that called Stop.  "frames" is that stack of         *)
(* half-finished handlers, the innermost first.                            *)
(***************************************************************************)
EXTENDS Naturals, Sequences, FiniteSets

CONSTANTS
    MaxConn,      \* connections opened in a behaviour (bound)
    MaxFaults,    \* control frames, events, fragments and remote closes (bound)
    MaxLogins,    \* times the user presses Connect (bound)
    MaxDepth,     \* handlers nested in one another by Websocket::Stop (bound)
    ServerOps,    \* the opcodes the server may send besides HELLO, READY and events
    LateFrames,   \* may frames still arrive while the client stops a socket?
    SplitFrames,  \* may a compressed message arrive in two frames?
    UserInPump    \* may the user act while Websocket::Stop runs the main loop?

ASSUME GatewayAssumption ==
    /\ MaxConn \in Nat \ {0} /\ MaxFaults \in Nat
    /\ MaxLogins \in Nat \ {0} /\ MaxDepth \in Nat \ {0}
    /\ ServerOps \subseteq {"Reconnect", "InvalidSession"}
    /\ LateFrames \in BOOLEAN /\ SplitFrames \in BOOLEAN /\ UserInPump \in BOOLEAN

VARIABLES
    started,       \* m_client_started
    connected,     \* m_client_connected
    reconnecting,  \* m_reconnecting
    wantsResume,   \* m_wants_resume
    session,       \* m_session_id: the connection whose READY gave it, 0 if none
    told,          \* what the last signal_connected / signal_disconnected said
    heartbeat,     \* m_heartbeat_thread: connection whose HELLO began it, 0 if not joinable
    sock,          \* m_websocket: number of the connection it holds, 0 before the first
    phase,         \* what ix::WebSocket is doing with that connection
    shake,         \* how far the handshake on it is, as the server sees it
    closeInfo,     \* m_close_info
    zstream,       \* m_zstream, as it stands to the stream of the present connection
    compressed,    \* whose bytes m_compressed_buf holds
    dispatch,      \* notifications in the dispatchers' pipe
    msgQueue,      \* m_msg_queue
    genericQueue,  \* m_generic_queue: the close codes its callbacks captured
    tReconnect,    \* armed timeouts of HandleSocketClose
    tRestart,      \* armed timeouts of HandleGatewayInvalidSession
    frames,        \* handlers suspended in Websocket::Stop, innermost first
    login,         \* the first connection of the present login
    logins,        \* times Start ran
    faults,        \* faults that have happened
    crashed        \* std::terminate was called

client  == <<started, connected, reconnecting, wantsResume, session, told>>
socket  == <<sock, phase, shake, closeInfo>>
inflate == <<zstream, compressed>>
queues  == <<dispatch, msgQueue, genericQueue>>
timers  == <<tReconnect, tRestart>>
ghosts  == <<login, logins, faults, crashed>>
vars == <<client, heartbeat, socket, inflate, queues, timers, frames, ghosts>>

Phase     == {"none", "connecting", "open", "closed"}
Shake     == {"wait", "hello", "identified", "resuming", "ready", "dismissed"}
CloseCode == {"normal", "restart", "abnormal", "fatal"}
Op        == {"Hello", "Ready", "Event", "Reconnect", "InvalidSession"}
Message   == [op : Op, conn : 1..MaxConn]
Handler   == {"Reconnect", "InvalidSession", "Close", "Stop"}
Frame     == [fn : Handler, pc : {"stopping", "pumping"}, code : CloseCode]
Notice    == {"open", "close", "msg", "generic"}

Init ==
    /\ started = FALSE /\ connected = FALSE /\ reconnecting = FALSE
    /\ wantsResume = FALSE /\ session = 0 /\ told = "nothing"
    /\ heartbeat = 0
    /\ sock = 0 /\ phase = "none" /\ shake = "wait" /\ closeInfo = "normal"
    /\ zstream = "ended" /\ compressed = "empty"
    /\ dispatch = <<>> /\ msgQueue = <<>> /\ genericQueue = <<>>
    /\ tReconnect = 0 /\ tRestart = 0
    /\ frames = <<>>
    /\ login = 0 /\ logins = 0 /\ faults = 0 /\ crashed = FALSE

----------------------------------------------------------------------------
(* Helpers *)

\* The main thread can take an event: it is idle in the main loop, or it runs
\* the loop that ends Websocket::Stop.
MainReady == ~crashed /\ (frames # <<>> => Head(frames).pc = "pumping")

\* A handler calls Websocket::Stop(code) and has its remaining statements pending.
CallStop(fn, code) ==
    /\ Len(frames) < MaxDepth
    /\ frames' = <<[fn |-> fn, pc |-> "stopping", code |-> code]>> \o frames

\* Mutant: Stop does not run the main loop until nothing is pending.
BugStopReturns(fn) ==
    /\ ~crashed /\ frames # <<>>
    /\ Head(frames).fn = fn /\ Head(frames).pc = "pumping"
    /\ frames' = Tail(frames)

\* The innermost handler's loop finds no event pending and Stop returns to it.
StopReturns(fn) ==
    /\ ~crashed /\ frames # <<>>
    /\ Head(frames).fn = fn /\ Head(frames).pc = "pumping"
    /\ dispatch = <<>>
    /\ frames' = Tail(frames)

\* Websocket::StartConnection: a new ix::WebSocket replaces the old one, whose
\* destructor stops it and reports the close as any other.  z and buf are the
\* inflate state the caller leaves; bytes of an older stream are useless to the new.
StartConnection(z, buf) ==
    /\ sock < MaxConn
    /\ sock' = sock + 1 /\ phase' = "connecting" /\ shake' = "wait"
    /\ zstream' = IF z = "used" THEN "bad" ELSE z
    /\ compressed' = IF buf = "own" THEN "foreign" ELSE buf
    /\ IF phase = "open"
       THEN closeInfo' = "normal" /\ dispatch' = Append(dispatch, "close")
       ELSE UNCHANGED <<closeInfo, dispatch>>

\* m_heartbeat_waiter.kill() and the join that follows it.
KillHeartbeat == heartbeat' = 0

----------------------------------------------------------------------------
(* The user *)

\* Abaddon::ActionConnect, DiscordClient::Start.
Start ==
    /\ MainReady /\ (frames # <<>> => UserInPump)
    /\ ~started /\ logins < MaxLogins
    /\ started' = TRUE /\ connected' = TRUE /\ told' = "nothing"
    /\ StartConnection("fresh", compressed)
    /\ login' = sock + 1 /\ logins' = logins + 1
    /\ UNCHANGED <<reconnecting, wantsResume, session, heartbeat, msgQueue,
                   genericQueue, timers, frames, faults, crashed>>

\* Abaddon::ActionDisconnect, DiscordClient::Stop up to m_websocket.Stop().
Stop ==
    /\ MainReady /\ (frames # <<>> => UserInPump)
    /\ started
    /\ zstream' = "ended" /\ compressed' = "empty"
    /\ KillHeartbeat
    /\ connected' = FALSE /\ reconnecting' = FALSE
    /\ CallStop("Stop", "normal")
    /\ UNCHANGED <<started, wantsResume, session, told, socket, queues, timers, ghosts>>

\* The rest of DiscordClient::Stop.
StopEnds ==
    /\ StopReturns("Stop")
    /\ started' = FALSE
    /\ UNCHANGED <<connected, reconnecting, wantsResume, session, told, heartbeat,
                   socket, inflate, queues, timers, ghosts>>

----------------------------------------------------------------------------
(* ix::WebSocket's thread and the server at the other end *)

Stopping == frames # <<>> /\ Head(frames).pc = "stopping"

\* The connection is up: Websocket::OnMessage(Open).
SocketOpens ==
    /\ ~crashed /\ phase = "connecting"
    /\ phase' = "open"
    /\ dispatch' = Append(dispatch, "open")
    /\ UNCHANGED <<client, heartbeat, sock, shake, closeInfo, inflate, msgQueue,
                   genericQueue, timers, frames, ghosts>>

\* The connection cannot be made: OnMessage(Error) only logs it.
SocketFails ==
    /\ ~crashed /\ phase = "connecting"
    /\ \/ faults < MaxFaults /\ faults' = faults + 1
       \/ Stopping /\ UNCHANGED faults
    /\ phase' = "closed"
    /\ UNCHANGED <<client, heartbeat, sock, shake, closeInfo, inflate, queues,
                   timers, frames, login, logins, crashed>>

\* The peer or the network ends the connection: OnMessage(Close).
SocketCloses ==
    /\ ~crashed /\ phase = "open" /\ faults < MaxFaults
    /\ \E code \in {"abnormal", "fatal"} : closeInfo' = code
    /\ phase' = "closed" /\ faults' = faults + 1
    /\ dispatch' = Append(dispatch, "close")
    /\ UNCHANGED <<client, heartbeat, sock, shake, inflate, msgQueue, genericQueue,
                   timers, frames, login, logins, crashed>>

\* The close the main thread asked for is done: OnMessage(Close).
SocketClosesLocally ==
    /\ ~crashed /\ Stopping /\ phase = "open"
    /\ closeInfo' = Head(frames).code
    /\ phase' = "closed"
    /\ dispatch' = Append(dispatch, "close")
    /\ UNCHANGED <<client, heartbeat, sock, shake, inflate, msgQueue, genericQueue,
                   timers, frames, ghosts>>

\* ix::WebSocket::stop has joined its thread; Websocket::Stop begins its loop.
SocketJoined ==
    /\ ~crashed /\ Stopping /\ phase \in {"none", "closed"}
    /\ frames' = [frames EXCEPT ![1].pc = "pumping"]
    /\ UNCHANGED <<client, heartbeat, socket, inflate, queues, timers, ghosts>>

\* The server's next frame: HELLO first, then what the handshake calls for, and
\* at any time after it an event or a request to start over.
ServerSends(op) ==
    CASE op = "Hello" -> shake = "wait" /\ shake' = "hello" /\ UNCHANGED faults
      [] op = "Ready" -> shake = "identified" /\ shake' = "ready" /\ UNCHANGED faults
      [] op = "Event" ->
            \/ shake = "resuming" /\ shake' = "ready" /\ UNCHANGED faults
            \/ shake # "wait" /\ faults < MaxFaults /\ faults' = faults + 1 /\ UNCHANGED shake
      [] OTHER -> op \in ServerOps /\ shake \notin {"wait", "dismissed"} /\ shake' = "dismissed"
                  /\ faults < MaxFaults /\ faults' = faults + 1

\* The inflate call of HandleGatewayMessageRaw succeeds: the stream is in step
\* with this connection's, and nothing of another is in front of the bytes.
Inflates ==
    /\ zstream = "used" \/ (zstream = "fresh" /\ shake = "wait")
    /\ compressed # "foreign"

\* OnMessage(Message) with a full message: HandleGatewayMessageRaw.
SocketReceives(op) ==
    /\ ~crashed /\ phase = "open"
    /\ LateFrames \/ ~Stopping
    /\ ServerSends(op)
    /\ IF Inflates
       THEN /\ msgQueue' = Append(msgQueue, [op |-> op, conn |-> sock])
            /\ dispatch' = Append(dispatch, "msg")
            /\ zstream' = "used"
       ELSE /\ zstream' = IF zstream = "ended" THEN "ended" ELSE "bad"
            /\ UNCHANGED <<msgQueue, dispatch>>
    /\ compressed' = "empty"
    /\ UNCHANGED <<client, heartbeat, sock, phase, closeInfo, genericQueue, timers,
                   frames, login, logins, crashed>>

\* OnMessage(Message) with the first part of a message: there is no suffix yet.
SocketReceivesPart ==
    /\ ~crashed /\ phase = "open" /\ SplitFrames
    /\ LateFrames \/ ~Stopping
    /\ faults < MaxFaults /\ faults' = faults + 1
    /\ compressed = "empty" /\ compressed' = "own"
    /\ UNCHANGED <<client, heartbeat, socket, zstream, queues, timers, frames,
                   login, logins, crashed>>

----------------------------------------------------------------------------
(* The main thread takes the oldest notification *)

Notified(kind) ==
    /\ MainReady
    /\ dispatch # <<>> /\ Head(dispatch) = kind
    /\ dispatch' = Tail(dispatch)

\* m_open_dispatcher: DiscordClient::HandleSocketOpen is empty.
DispatchOpen ==
    /\ Notified("open")
    /\ UNCHANGED <<client, heartbeat, socket, inflate, msgQueue, genericQueue,
                   timers, frames, ghosts>>

\* m_close_dispatcher, up to its Websocket::Stop(): the socket that is stopped is
\* the one m_websocket holds now, whichever socket reported the close.
DispatchClose ==
    /\ Notified("close")
    /\ CallStop("Close", "normal")
    /\ UNCHANGED <<client, heartbeat, socket, inflate, msgQueue, genericQueue,
                   timers, ghosts>>

\* Mutant: the callback emits the close dispatcher in place of the generic one.
BugCloseEnds ==
    /\ StopReturns("Close")
    /\ dispatch' = Append(dispatch, "close")
    /\ UNCHANGED <<client, heartbeat, socket, inflate, msgQueue, genericQueue, timers, ghosts>>

\* The rest of it: signal_close, on which HandleSocketClose queues a callback.
CloseEnds ==
    /\ StopReturns("Close")
    /\ genericQueue' = Append(genericQueue, closeInfo)
    /\ dispatch' = Append(dispatch, "generic")
    /\ UNCHANGED <<client, heartbeat, socket, inflate, msgQueue, timers, ghosts>>

\* Mutant: a reconnection already begun is not asked for.
BugRearms ==
    /\ Notified("generic")
    /\ genericQueue' = Tail(genericQueue)
    /\ KillHeartbeat
    /\ connected' = FALSE
    /\ IF started /\ Head(genericQueue) = "abnormal"
       THEN tReconnect' = tReconnect + 1 /\ reconnecting' = TRUE
       ELSE UNCHANGED <<tReconnect, reconnecting>>
    /\ told' = IF reconnecting' THEN "reconnecting" ELSE "gone"
    /\ UNCHANGED <<started, wantsResume, session, socket, inflate, msgQueue,
                   tRestart, frames, ghosts>>

\* m_generic_dispatch: the callback of HandleSocketClose.  Only an abnormal close
\* of a started client that is not yet reconnecting arms the one second timeout.
HandleSocketClose ==
    /\ Notified("generic")
    /\ genericQueue' = Tail(genericQueue)
    /\ KillHeartbeat
    /\ connected' = FALSE
    /\ IF started /\ ~reconnecting /\ Head(genericQueue) = "abnormal"
       THEN tReconnect' = tReconnect + 1 /\ reconnecting' = TRUE
       ELSE UNCHANGED <<tReconnect, reconnecting>>
    /\ told' = IF reconnecting' THEN "reconnecting" ELSE "gone"
    /\ UNCHANGED <<started, wantsResume, session, socket, inflate, msgQueue,
                   tRestart, frames, ghosts>>

\* Mutant: the message is read but not popped.
BugMessageDispatch(op) ==
    /\ Notified("msg")
    /\ Head(msgQueue).op = op
    /\ msgQueue' = msgQueue

\* m_msg_dispatch: MessageDispatch takes the front of m_msg_queue, whatever is there.
MessageDispatch(op) ==
    /\ Notified("msg")
    /\ Head(msgQueue).op = op
    /\ msgQueue' = Tail(msgQueue)

\* HandleGatewayHello, SendResume, SendIdentify.  Assigning to a joinable
\* std::thread terminates the program.
HandleGatewayHello ==
    /\ MessageDispatch("Hello")
    /\ IF heartbeat # 0
       THEN /\ crashed' = TRUE
            /\ UNCHANGED <<client, heartbeat, shake>>
       ELSE /\ connected' = TRUE
            /\ heartbeat' = Head(msgQueue).conn
            /\ told' = "connected"
            /\ reconnecting' = FALSE /\ wantsResume' = FALSE
            /\ shake' = IF phase # "open" \/ shake # "hello" THEN shake
                        ELSE IF wantsResume THEN "resuming" ELSE "identified"
            /\ UNCHANGED <<started, session, crashed>>
    /\ UNCHANGED <<sock, phase, closeInfo, inflate, genericQueue, timers, frames,
                   login, logins, faults>>

\* HandleGatewayReady, as far as the session goes: m_session_id.
HandleGatewayReady ==
    /\ MessageDispatch("Ready")
    /\ session' = Head(msgQueue).conn
    /\ UNCHANGED <<started, connected, reconnecting, wantsResume, told, heartbeat,
                   socket, inflate, genericQueue, timers, frames, ghosts>>

\* Any other dispatch event, a heartbeat acknowledgement.
HandleGatewayEvent ==
    /\ MessageDispatch("Event")
    /\ UNCHANGED <<client, heartbeat, socket, inflate, genericQueue, timers, frames, ghosts>>

\* HandleGatewayReconnect up to m_websocket.Stop(1012).
BeginReconnect ==
    /\ zstream' = "ended" /\ compressed' = "empty"
    /\ KillHeartbeat
    /\ reconnecting' = TRUE /\ wantsResume' = TRUE
    /\ CallStop("Reconnect", "restart")
    /\ UNCHANGED <<started, connected, session, told, socket, genericQueue, ghosts>>

HandleGatewayReconnect ==
    /\ MessageDispatch("Reconnect")
    /\ BeginReconnect
    /\ UNCHANGED timers

\* Mutant: inflateInit2 is left out.
BugReconnectEnds ==
    /\ StopReturns("Reconnect")
    /\ StartConnection(zstream, compressed)
    /\ UNCHANGED <<client, heartbeat, msgQueue, genericQueue, timers, ghosts>>

\* The rest of it: a fresh inflate state and a new connection.
ReconnectEnds ==
    /\ StopReturns("Reconnect")
    /\ StartConnection("fresh", compressed)
    /\ UNCHANGED <<client, heartbeat, msgQueue, genericQueue, timers, ghosts>>

\* Mutant: m_reconnecting is not set.
BugHandleGatewayInvalidSession ==
    /\ MessageDispatch("InvalidSession")
    /\ zstream' = "fresh" /\ compressed' = "empty"
    /\ wantsResume' = FALSE
    /\ KillHeartbeat
    /\ CallStop("InvalidSession", "normal")
    /\ UNCHANGED <<started, connected, reconnecting, session, told, socket,
                   genericQueue, timers, ghosts>>

\* HandleGatewayInvalidSession up to m_websocket.Stop(1000): the inflate state is
\* renewed while the old connection still delivers.
HandleGatewayInvalidSession ==
    /\ MessageDispatch("InvalidSession")
    /\ zstream' = "fresh" /\ compressed' = "empty"
    /\ wantsResume' = FALSE /\ reconnecting' = TRUE
    /\ KillHeartbeat
    /\ CallStop("InvalidSession", "normal")
    /\ UNCHANGED <<started, connected, session, told, socket, genericQueue, timers, ghosts>>

\* The rest of it: the new connection is left to a timeout.
InvalidSessionEnds ==
    /\ StopReturns("InvalidSession")
    /\ tRestart' = IF started THEN tRestart + 1 ELSE tRestart
    /\ UNCHANGED <<client, heartbeat, socket, inflate, queues, tReconnect, ghosts>>

----------------------------------------------------------------------------
(* Timeouts of the main loop *)

\* Mutant: the timeout only notes that it ran.
BugLostTimeout ==
    /\ MainReady
    /\ tReconnect > 0 /\ tReconnect' = tReconnect - 1
    /\ UNCHANGED <<client, heartbeat, socket, inflate, queues, tRestart, frames, ghosts>>

\* The timeout HandleSocketClose armed.
TimeoutReconnect ==
    /\ MainReady
    /\ tReconnect > 0 /\ tReconnect' = tReconnect - 1
    /\ IF started
       THEN BeginReconnect
       ELSE UNCHANGED <<client, heartbeat, socket, inflate, genericQueue, frames, ghosts>>
    /\ UNCHANGED <<dispatch, msgQueue, tRestart>>

\* The timeout HandleGatewayInvalidSession armed.
TimeoutRestart ==
    /\ MainReady
    /\ tRestart > 0 /\ tRestart' = tRestart - 1
    /\ IF started
       THEN StartConnection(zstream, compressed)
       ELSE UNCHANGED <<sock, phase, shake, inflate, closeInfo, dispatch>>
    /\ UNCHANGED <<client, heartbeat, msgQueue, genericQueue, tReconnect, frames, ghosts>>

----------------------------------------------------------------------------
User   == Start \/ Stop
Socket == \/ SocketOpens \/ SocketFails \/ SocketCloses
          \/ SocketClosesLocally \/ SocketJoined \/ SocketReceivesPart
          \/ \E op \in Op : SocketReceives(op)
Main   == \/ DispatchOpen \/ DispatchClose \/ CloseEnds \/ HandleSocketClose
          \/ HandleGatewayHello \/ HandleGatewayReady \/ HandleGatewayEvent
          \/ HandleGatewayReconnect \/ ReconnectEnds
          \/ HandleGatewayInvalidSession \/ InvalidSessionEnds
          \/ StopEnds \/ TimeoutReconnect \/ TimeoutRestart

Next == User \/ Socket \/ Main

Spec == Init /\ [][Next]_vars

\* The main loop serves its sources, the socket's thread runs, the network
\* carries a connection attempt to an end and the server answers a handshake.
\* The user, faults and control frames owe nothing.
Fairness ==
    /\ WF_vars(Main)
    /\ WF_vars(SocketOpens) /\ WF_vars(SocketClosesLocally) /\ WF_vars(SocketJoined)
    /\ WF_vars(SocketFails /\ Stopping)
    /\ WF_vars(SocketReceives("Hello")) /\ WF_vars(SocketReceives("Ready"))

FairSpec == Spec /\ Fairness

----------------------------------------------------------------------------
(* Properties *)

ClientTypeOK ==
    /\ started \in BOOLEAN /\ connected \in BOOLEAN
    /\ reconnecting \in BOOLEAN /\ wantsResume \in BOOLEAN
    /\ session \in 0..MaxConn /\ heartbeat \in 0..MaxConn
    /\ told \in {"nothing", "connected", "reconnecting", "gone"}
    /\ tReconnect \in Nat /\ tRestart \in Nat

SocketTypeOK ==
    /\ sock \in 0..MaxConn /\ phase \in Phase /\ shake \in Shake
    /\ closeInfo \in CloseCode
    /\ zstream \in {"ended", "fresh", "used", "bad"}
    /\ compressed \in {"empty", "own", "foreign"}

QueueTypeOK ==
    /\ dispatch \in Seq(Notice) /\ msgQueue \in Seq(Message)
    /\ genericQueue \in Seq(CloseCode)
    /\ frames \in Seq(Frame)

GhostTypeOK ==
    /\ login \in 0..MaxConn /\ logins \in 0..MaxLogins /\ faults \in 0..MaxFaults
    /\ crashed \in BOOLEAN

\* Every variable keeps its type (the message taken by MessageDispatch is one).
TypeOK == ClientTypeOK /\ SocketTypeOK /\ QueueTypeOK /\ GhostTypeOK

Count(q, kind) == Cardinality({i \in DOMAIN q : q[i] = kind})

\* Each pending notification has its queue entry and each entry its notification,
\* whatever nests in whatever: MessageDispatch and the generic callback take
\* front() without asking whether the queue is empty.
QueuesMatch ==
    /\ Count(dispatch, "msg") = Len(msgQueue)
    /\ Count(dispatch, "generic") = Len(genericQueue)

\* A heartbeat thread that is not joined still runs: its loop condition,
\* m_client_connected, is never turned off under it.
HeartbeatRuns == heartbeat # 0 => connected

\* No HELLO finds the heartbeat thread of an earlier connection joinable:
\* the assignment to m_heartbeat_thread would call std::terminate.
NoCrash == ~crashed

\* A connection past its handshake has a heartbeat, or the server would drop it:
\* the cleanup of an older connection never joins the thread of a newer one.
SessionBeats ==
    shake \in {"identified", "resuming", "ready"} /\ phase = "open" /\ frames = <<>>
        => heartbeat = sock

\* While the client runs, each full message the socket delivers is decoded and
\* queued: the inflate state is in step with the connection and holds no bytes of
\* another (discord.cpp: "handles multiple zlib compressed messages, calling
\* HandleGatewayMessage when a full message is received").
FullMessageIsQueued ==
    [][(\E op \in Op : SocketReceives(op)) /\ started /\ frames = <<>>
            => Len(msgQueue') = Len(msgQueue) + 1]_vars

Link == INSTANCE Connection WITH
            number <- sock, link <- phase, serving <- heartbeat,
            said <- (IF told = "gone" THEN "gone" ELSE "going")

\* The session is a connection as the rest of the program is promised one: a socket
\* is replaced only when it is closed and its heartbeat joined, the heartbeat is that
\* of the socket there is, and after signal_disconnected(false, ...) nothing is opened
\* until Start (discord.hpp: "bool true if reconnecting").
ImplementsConnection == Link!Spec

\* The main thread returns to its main loop: the handlers that nest in
\* Websocket::Stop all come to their end, unless the program is terminated.
StopEventuallyReturns == frames # <<>> ~> frames = <<>> \/ crashed

\* A started client that says it reconnects comes to a HELLO, is stopped by the
\* user, or finds a connection that ends before its HELLO.
Recovers ==
    started /\ reconnecting
        ~> ~started \/ ~reconnecting \/ (phase = "closed" /\ shake = "wait")
=============================================================================
