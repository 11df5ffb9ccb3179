-------------------------- MODULE VoiceClientProofs --------------------------
(***************************************************************************)
(* For every bound, and also when orders overlap: the types of VoiceClient *)
(* and that no encryption session outlives its connection.  For every      *)
(* bound, when orders do not overlap: that the threads are joined before   *)
(* others take their place, that none outlives what it uses, and that      *)
(* VoiceClient implements Connection.                                      *)
(***************************************************************************)
EXTENDS VoiceClient, SequenceTheorems, TLAPS

\* OwnSession needs no more than the types: a session is made for the connection
\* there is, and a new connection begins without one.
IInv == TypeOK /\ OwnSession

\* The types but for the queues ...
ScalarsOK ==
    /\ state \in State /\ told \in {"nothing", "connected", "disconnected"}
    /\ sock \in 0..MaxConn /\ phase \in Phase /\ shake \in Shake
    /\ terminate \in BOOLEAN /\ heartbeat \in Thread /\ keepalive \in Thread
    /\ fd \in 0..MaxConn /\ descriptors \subseteq 0..MaxConn /\ reader \in Thread
    /\ dave \in 0..MaxConn /\ discovering \in {"no", "waiting", "lost"}
    /\ orders \in 0..MaxOrders /\ faults \in 0..MaxFaults /\ crashed \in BOOLEAN

\* ... and theirs.
QueuesOK == dispatch \in Seq(Notice) /\ msgQueue \in Seq(Op) /\ frames \in Seq(Frame)

LEMMA Parts == TypeOK <=> ScalarsOK /\ QueuesOK
BY DEF TypeOK, ScalarsOK, QueuesOK

\* Nothing is connected when the program starts.
LEMMA InitIInv == Init => IInv
<1> SUFFICES ASSUME Init PROVE IInv
    OBVIOUS
<1> USE VoiceAssumption DEF Init
<1>1. ScalarsOK
    <2>1. state \in State /\ phase \in Phase /\ shake \in Shake
        BY DEF State, Phase, Shake
    <2>2. heartbeat \in Thread /\ keepalive \in Thread /\ reader \in Thread
        BY DEF Thread
    <2>3. terminate \in BOOLEAN /\ crashed \in BOOLEAN /\ discovering \in {"no", "waiting", "lost"}
        OBVIOUS
    <2>4. sock \in 0..MaxConn /\ dave \in 0..MaxConn /\ orders \in 0..MaxOrders
          /\ faults \in 0..MaxFaults /\ fd \in 0..MaxConn /\ descriptors \subseteq 0..MaxConn
        OBVIOUS
    <2> QED BY <2>1, <2>2, <2>3, <2>4 DEF ScalarsOK
<1>2. QueuesOK
    BY DEF QueuesOK
<1> QED BY <1>1, <1>2, Parts DEF IInv, OwnSession

----------------------------------------------------------------------------
(* The queues *)

\* A handler is suspended in Stop, or resumed, or waits for the next thread.
LEMMA FramesTyped ==
    ASSUME QueuesOK
    PROVE  /\ \A fn \in {"Start", "Stop", "Close"} : CallStop(fn) => frames' \in Seq(Frame)
           /\ frames # <<>> => Tail(frames) \in Seq(Frame)
           /\ \A pc : /\ frames # <<>>
                      /\ pc = "pumping" \/ (pc = "joining" /\ Head(frames).fn \in {"Start", "Stop"})
                      => [frames EXCEPT ![1].pc = pc] \in Seq(Frame)
<1>1. ASSUME NEW fn \in {"Start", "Stop", "Close"}, CallStop(fn) PROVE frames' \in Seq(Frame)
    <2>1. [fn |-> fn, pc |-> "stopping"] \in Frame
        BY DEF Frame
    <2>2. <<[fn |-> fn, pc |-> "stopping"]>> \in Seq(Frame)
        BY <2>1
    <2> QED BY <1>1, <2>2 DEF CallStop, QueuesOK
<1>2. ASSUME frames # <<>> PROVE Tail(frames) \in Seq(Frame)
    BY <1>2 DEF QueuesOK
<1>3. ASSUME NEW pc, frames # <<>>,
             pc = "pumping" \/ (pc = "joining" /\ Head(frames).fn \in {"Start", "Stop"})
      PROVE  [frames EXCEPT ![1].pc = pc] \in Seq(Frame)
    <2>1. frames \in Seq(Frame) /\ 1 \in DOMAIN frames /\ frames[1] \in Frame /\ frames[1] = Head(frames)
        BY <1>3 DEF QueuesOK
    <2>2. frames[1].fn \in {"Start", "Stop", "Close"}
        BY <2>1 DEF Frame
    <2>3. [frames[1] EXCEPT !.pc = pc] = [fn |-> frames[1].fn, pc |-> pc]
        BY <2>1 DEF Frame
    <2>4. [frames[1] EXCEPT !.pc = pc] \in Frame
        BY <1>3, <2>1, <2>2, <2>3 DEF Frame
    <2>5. [frames EXCEPT ![1].pc = pc] = [frames EXCEPT ![1] = [frames[1] EXCEPT !.pc = pc]]
        OBVIOUS
    <2> QED BY <2>1, <2>4, <2>5, ExceptSeq
<1> QED BY <1>1, <1>2, <1>3

\* A notification is taken, and with it an entry of the queue of messages.
LEMMA TakenTyped ==
    ASSUME QueuesOK
    PROVE  /\ \A kind \in Notice : Notified(kind) => dispatch' \in Seq(Notice)
           /\ \A op \in Op : OnDispatch(op) => dispatch' \in Seq(Notice) /\ msgQueue' \in Seq(Op)
<1>1. ASSUME NEW kind \in Notice, Notified(kind) PROVE dispatch' \in Seq(Notice)
    BY <1>1 DEF Notified, QueuesOK
<1>2. ASSUME NEW op \in Op, OnDispatch(op)
      PROVE  dispatch' \in Seq(Notice) /\ msgQueue' \in Seq(Op)
    <2>1. "msg" \in Notice
        BY DEF Notice
    <2>2. dispatch' \in Seq(Notice)
        BY <1>1, <1>2, <2>1 DEF OnDispatch
    <2>3. msgQueue' \in Seq(Op)
        BY <1>2 DEF OnDispatch, QueuesOK
    <2> QED BY <2>2, <2>3
<1> QED BY <1>1, <1>2

\* A connection begins: it has the next number and no session.
LEMMA BeginTyped ==
    ASSUME ScalarsOK, NEW q \in Seq(Notice), StartUp(q)
    PROVE  /\ sock' \in 0..MaxConn /\ dave' = 0 /\ dispatch' \in Seq(Notice)
           /\ state' \in State /\ phase' \in Phase /\ shake' \in Shake
           /\ told' = "connected" /\ terminate' = FALSE
<1>1. sock' \in 0..MaxConn
    BY VoiceAssumption DEF StartUp, StartConnection, ScalarsOK
<1>2. dispatch' \in Seq(Notice)
    BY DEF StartUp, StartConnection, Notice
<1>3. state' \in State /\ phase' \in Phase /\ shake' \in Shake
    BY DEF StartUp, StartConnection, State, Phase, Shake
<1> QED BY <1>1, <1>2, <1>3 DEF StartUp

----------------------------------------------------------------------------
(* The steps *)

\* Orders, and what the rest of Start and Stop does.
LEMMA OrderStep ==
    ASSUME IInv,
           \/ \E kind \in {"start", "stop"} : OrderArrives(kind)
           \/ Start \/ StartAfresh \/ Stop \/ UDPStop \/ StopEnds \/ StartEnds
    PROVE  IInv'
<1>0. ScalarsOK /\ QueuesOK /\ OwnSession
    BY Parts DEF IInv
<1> USE VoiceAssumption DEF connection, threads, media, queues, ghosts
<1>1. ASSUME NEW kind \in {"start", "stop"}, OrderArrives(kind) PROVE IInv'
    <2>1. QueuesOK'
        BY <1>0, <1>1 DEF OrderArrives, QueuesOK, Notice
    <2>2. ScalarsOK' /\ OwnSession'
        BY <1>0, <1>1 DEF OrderArrives, ScalarsOK, OwnSession
    <2> QED BY <2>1, <2>2, Parts, PTL DEF IInv
<1>2. CASE Start
    <2>1. frames' \in Seq(Frame)
        BY <1>0, <1>2, FramesTyped DEF Start
    <2>2. dispatch' \in Seq(Notice)
        BY <1>0, <1>2, TakenTyped DEF Start, Notice
    <2>3. QueuesOK'
        BY <1>0, <1>2, <2>1, <2>2 DEF Start, QueuesOK
    <2>4. ScalarsOK' /\ OwnSession'
        BY <1>0, <1>2 DEF Start, ScalarsOK, OwnSession, State
    <2> QED BY <2>3, <2>4, Parts, PTL DEF IInv
<1>3. CASE StartAfresh
    <2>1. Tail(dispatch) \in Seq(Notice)
        BY <1>0, <1>3 DEF StartAfresh, QueuesOK
    <2>2. StartUp(Tail(dispatch))
        BY <1>3 DEF StartAfresh
    <2>3. /\ sock' \in 0..MaxConn /\ dave' = 0 /\ dispatch' \in Seq(Notice)
          /\ state' \in State /\ phase' \in Phase /\ shake' \in Shake
          /\ told' = "connected" /\ terminate' = FALSE
        BY <1>0, <2>1, <2>2, BeginTyped
    <2>4. UNCHANGED <<heartbeat, keepalive, fd, descriptors, reader, discovering, msgQueue,
                      frames, ghosts>>
        BY <1>3 DEF StartAfresh
    <2>5. QueuesOK'
        BY <1>0, <2>3, <2>4 DEF QueuesOK
    <2>6. ScalarsOK' /\ OwnSession'
        <3>1. /\ heartbeat' \in Thread /\ keepalive' \in Thread
              /\ fd' \in 0..MaxConn /\ descriptors' \subseteq 0..MaxConn /\ reader' \in Thread
              /\ orders' \in 0..MaxOrders /\ faults' \in 0..MaxFaults
            BY <1>0, <2>4 DEF ScalarsOK
        <3>2. /\ discovering' \in {"no", "waiting", "lost"}
              /\ crashed' \in BOOLEAN /\ terminate' \in BOOLEAN
            BY <1>0, <2>3, <2>4 DEF ScalarsOK
        <3> QED BY <2>3, <3>1, <3>2 DEF ScalarsOK, OwnSession
    <2> QED BY <2>5, <2>6, Parts, PTL DEF IInv
<1>4. CASE Stop
    <2>1. frames' \in Seq(Frame)
        BY <1>0, <1>4, FramesTyped DEF Stop, QueuesOK
    <2>2. dispatch' \in Seq(Notice)
        BY <1>0, <1>4, TakenTyped DEF Stop, Notice
    <2>3. QueuesOK'
        BY <1>0, <1>4, <2>1, <2>2 DEF Stop, QueuesOK
    <2>4. ScalarsOK' /\ OwnSession'
        BY <1>0, <1>4 DEF Stop, ScalarsOK, OwnSession, State
    <2> QED BY <2>3, <2>4, Parts, PTL DEF IInv
<1>5. CASE StopEnds
    <2>1. frames' \in Seq(Frame)
        BY <1>0, <1>5, FramesTyped DEF StopEnds, JoinsReader, Joining
    <2>2. QueuesOK'
        BY <1>0, <1>5, <2>1 DEF StopEnds, QueuesOK
    <2>3. ScalarsOK' /\ OwnSession'
        BY <1>0, <1>5 DEF StopEnds, JoinsReader, JoinThreads, ScalarsOK, OwnSession, Thread
    <2> QED BY <2>2, <2>3, Parts, PTL DEF IInv
<1>6. CASE StartEnds
    <2>1. frames' \in Seq(Frame) /\ StartUp(dispatch) /\ dispatch \in Seq(Notice)
        BY <1>0, <1>6, FramesTyped DEF StartEnds, JoinsReader, Joining, QueuesOK
    <2>2. /\ sock' \in 0..MaxConn /\ dave' = 0 /\ dispatch' \in Seq(Notice)
          /\ state' \in State /\ phase' \in Phase /\ shake' \in Shake
          /\ told' = "connected" /\ terminate' = FALSE
        BY <1>0, <2>1, BeginTyped
    <2>3. QueuesOK'
        BY <1>0, <1>6, <2>1, <2>2 DEF StartEnds, QueuesOK
    <2>4. ScalarsOK' /\ OwnSession'
        <3>1. /\ heartbeat' \in Thread /\ keepalive' \in Thread
              /\ fd' \in 0..MaxConn /\ descriptors' \subseteq 0..MaxConn /\ reader' \in Thread
              /\ orders' \in 0..MaxOrders /\ faults' \in 0..MaxFaults
            BY <1>0, <1>6 DEF StartEnds, JoinsReader, JoinThreads, ScalarsOK, Thread
        <3>2. /\ discovering' \in {"no", "waiting", "lost"}
              /\ crashed' \in BOOLEAN /\ terminate' \in BOOLEAN
            BY <1>0, <1>6, <2>2 DEF StartEnds, ScalarsOK
        <3> QED BY <2>2, <3>1, <3>2 DEF ScalarsOK, OwnSession
    <2> QED BY <2>3, <2>4, Parts, PTL DEF IInv
<1>7. CASE UDPStop
    <2>1. frames' \in Seq(Frame)
        BY <1>0, <1>7, FramesTyped DEF UDPStop, LoopDry
    <2>2. QueuesOK'
        BY <1>0, <1>7, <2>1 DEF UDPStop, QueuesOK
    <2>3. ScalarsOK' /\ OwnSession'
        BY <1>0, <1>7 DEF UDPStop, CloseSocket, ScalarsOK, OwnSession
    <2> QED BY <2>2, <2>3, Parts, PTL DEF IInv
<1> QED BY <1>1, <1>2, <1>3, <1>4, <1>5, <1>6, <1>7

\* The websocket's thread, the voice server, the network and the reader.
LEMMA SocketStep ==
    ASSUME IInv,
           \/ SocketOpens \/ SocketFails \/ SocketCloses \/ SocketJoined
           \/ ReaderEnds \/ DatagramLost
           \/ \E op \in Op : SocketReceives(op)
    PROVE  IInv'
<1>0. ScalarsOK /\ QueuesOK /\ OwnSession
    BY Parts DEF IInv
<1> USE VoiceAssumption DEF connection, threads, media, queues, ghosts
<1>1. CASE SocketOpens
    <2>1. QueuesOK'
        BY <1>0, <1>1 DEF SocketOpens, QueuesOK, Notice
    <2>2. ScalarsOK' /\ OwnSession'
        BY <1>0, <1>1 DEF SocketOpens, ScalarsOK, OwnSession, Phase
    <2> QED BY <2>1, <2>2, Parts, PTL DEF IInv
<1>2. CASE SocketFails
    <2>1. QueuesOK'
        BY <1>0, <1>2 DEF SocketFails, QueuesOK
    <2>2. ScalarsOK' /\ OwnSession'
        BY <1>0, <1>2 DEF SocketFails, ScalarsOK, OwnSession, Phase
    <2> QED BY <2>1, <2>2, Parts, PTL DEF IInv
<1>3. CASE SocketCloses
    <2>1. QueuesOK'
        BY <1>0, <1>3 DEF SocketCloses, QueuesOK, Notice
    <2>2. ScalarsOK' /\ OwnSession'
        BY <1>0, <1>3 DEF SocketCloses, ScalarsOK, OwnSession, Phase
    <2> QED BY <2>1, <2>2, Parts, PTL DEF IInv
<1>4. CASE SocketJoined
    <2>5. frames' \in Seq(Frame)
        BY <1>0, <1>4, FramesTyped DEF SocketJoined, Stopping
    <2>6. QueuesOK'
        BY <1>0, <1>4, <2>5 DEF SocketJoined, QueuesOK
    <2>7. ScalarsOK' /\ OwnSession'
        BY <1>0, <1>4 DEF SocketJoined, ScalarsOK, OwnSession
    <2> QED BY <2>6, <2>7, Parts, PTL DEF IInv
<1>5. ASSUME NEW op \in Op, SocketReceives(op) PROVE IInv'
    <2>1. QueuesOK'
        BY <1>0, <1>5 DEF SocketReceives, QueuesOK, Notice
    <2>2. ScalarsOK' /\ OwnSession'
        BY <1>0, <1>5 DEF SocketReceives, ServerSends, ScalarsOK, OwnSession, Shake
    <2> QED BY <2>1, <2>2, Parts, PTL DEF IInv
<1>6. CASE ReaderEnds \/ DatagramLost
    <2>1. QueuesOK'
        BY <1>0, <1>6 DEF ReaderEnds, DatagramLost, QueuesOK
    <2>2. CASE ReaderEnds
        <3>1. ScalarsOK' /\ OwnSession'
            BY <1>0, <2>2 DEF ReaderEnds, ScalarsOK, OwnSession, Thread
        <3> QED BY <2>1, <3>1, Parts, PTL DEF IInv
    <2>3. CASE DatagramLost
        <3>1. faults' \in 0..MaxFaults
            BY <1>0, <2>3 DEF DatagramLost, ScalarsOK
        <3>2. ScalarsOK' /\ OwnSession'
            BY <1>0, <2>3, <3>1 DEF DatagramLost, ScalarsOK, OwnSession
        <3> QED BY <2>1, <3>2, Parts, PTL DEF IInv
    <2> QED BY <1>6, <2>2, <2>3
<1> QED BY <1>1, <1>2, <1>3, <1>4, <1>5, <1>6

\* The notifications that the main thread takes, and what follows them.
LEMMA MainStep ==
    ASSUME IInv,
           \/ OnWebsocketOpen \/ DispatchClose \/ OnWebsocketClose
           \/ HandleGatewayHello \/ HandleGatewayReady \/ DiscoveryEnds
           \/ HandleGatewaySessionDescription \/ HandleGatewayDavePrepareEpoch
    PROVE  IInv'
<1>0. ScalarsOK /\ QueuesOK /\ OwnSession
    BY Parts DEF IInv
<1> USE VoiceAssumption DEF connection, threads, media, queues, ghosts
<1>1. CASE OnWebsocketOpen
    <2>1. QueuesOK'
        BY <1>0, <1>1, TakenTyped DEF OnWebsocketOpen, QueuesOK, Notice
    <2>2. ScalarsOK' /\ OwnSession'
        BY <1>0, <1>1 DEF OnWebsocketOpen, ScalarsOK, OwnSession, State
    <2> QED BY <2>1, <2>2, Parts, PTL DEF IInv
<1>2. CASE DispatchClose
    <2>1. frames' \in Seq(Frame)
        BY <1>0, <1>2, FramesTyped DEF DispatchClose
    <2>2. QueuesOK'
        BY <1>0, <1>2, <2>1, TakenTyped DEF DispatchClose, QueuesOK, Notice
    <2>3. ScalarsOK' /\ OwnSession'
        BY <1>0, <1>2 DEF DispatchClose, ScalarsOK, OwnSession
    <2> QED BY <2>2, <2>3, Parts, PTL DEF IInv
<1>3. CASE OnWebsocketClose
    <2>1. frames' \in Seq(Frame)
        BY <1>0, <1>3, FramesTyped DEF OnWebsocketClose, LoopDry
    <2>2. QueuesOK'
        BY <1>0, <1>3, <2>1 DEF OnWebsocketClose, QueuesOK
    <2>3. ScalarsOK' /\ OwnSession'
        BY <1>0, <1>3 DEF OnWebsocketClose, ScalarsOK, OwnSession
    <2> QED BY <2>2, <2>3, Parts, PTL DEF IInv
<1>4. CASE HandleGatewayHello
    <2>1. QueuesOK'
        BY <1>0, <1>4, TakenTyped DEF HandleGatewayHello, QueuesOK, Op
    <2>2. /\ crashed' \in BOOLEAN /\ heartbeat' \in Thread /\ shake' \in Shake
          /\ UNCHANGED <<state, told, sock, phase, terminate, keepalive, media, discovering,
                         orders, faults>>
        BY <1>0, <1>4 DEF HandleGatewayHello, Send, NewThread, ScalarsOK, Thread, Shake
    <2>3. ScalarsOK' /\ OwnSession'
        BY <1>0, <2>2 DEF ScalarsOK, OwnSession
    <2> QED BY <2>1, <2>3, Parts, PTL DEF IInv
<1>5. CASE HandleGatewayReady
    <2>1. QueuesOK'
        BY <1>0, <1>5, TakenTyped DEF HandleGatewayReady, QueuesOK, Op
    <2>2. /\ crashed' \in BOOLEAN /\ keepalive' \in Thread /\ discovering' \in {"no", "waiting", "lost"}
          /\ fd' = sock /\ descriptors' = descriptors \cup {sock}
          /\ UNCHANGED <<state, told, connection, terminate, heartbeat, reader, dave,
                         orders, faults>>
        BY <1>0, <1>5 DEF HandleGatewayReady, NewThread, ScalarsOK, Thread
    <2>3. ScalarsOK' /\ OwnSession'
        BY <1>0, <2>2 DEF ScalarsOK, OwnSession
    <2> QED BY <2>1, <2>3, Parts, PTL DEF IInv
<1>6. CASE DiscoveryEnds
    <2>1. QueuesOK'
        BY <1>0, <1>6 DEF DiscoveryEnds, QueuesOK
    <2>2. /\ discovering' = "no" /\ shake' \in Shake /\ faults' \in 0..MaxFaults
          /\ UNCHANGED <<state, told, sock, phase, threads, media, orders, crashed>>
        BY <1>0, <1>6 DEF DiscoveryEnds, Send, ScalarsOK, Shake
    <2>3. ScalarsOK' /\ OwnSession'
        BY <1>0, <2>2 DEF ScalarsOK, OwnSession
    <2> QED BY <2>1, <2>3, Parts, PTL DEF IInv
<1>7. CASE HandleGatewaySessionDescription
    <2>1. QueuesOK'
        BY <1>0, <1>7, TakenTyped DEF HandleGatewaySessionDescription, QueuesOK, Op
    <2>2. /\ crashed' \in BOOLEAN /\ reader' \in Thread /\ state' \in State
          /\ UNCHANGED <<told, connection, threads, fd, descriptors, discovering, orders, faults>>
        BY <1>0, <1>7 DEF HandleGatewaySessionDescription, ScalarsOK, State, Thread
    <2>3. dave' \in 0..MaxConn /\ OwnSession'
        BY <1>0, <1>7 DEF HandleGatewaySessionDescription, ScalarsOK, OwnSession
    <2>4. ScalarsOK'
        BY <1>0, <2>2, <2>3 DEF ScalarsOK
    <2> QED BY <2>1, <2>3, <2>4, Parts, PTL DEF IInv
<1>8. CASE HandleGatewayDavePrepareEpoch
    <2>1. QueuesOK'
        BY <1>0, <1>8, TakenTyped DEF HandleGatewayDavePrepareEpoch, QueuesOK, Op
    <2>2. ScalarsOK' /\ OwnSession'
        BY <1>0, <1>8 DEF HandleGatewayDavePrepareEpoch, ScalarsOK, OwnSession
    <2> QED BY <2>1, <2>2, Parts, PTL DEF IInv
<1> QED BY <1>1, <1>2, <1>3, <1>4, <1>5, <1>6, <1>7, <1>8

\* Every step keeps the invariant.
LEMMA StepIInv == IInv /\ [Next]_vars => IInv'
<1> SUFFICES ASSUME IInv, [Next]_vars PROVE IInv'
    OBVIOUS
<1>1. CASE Next
    BY <1>1, OrderStep, SocketStep, MainStep DEF Next, Environment, Main
<1>2. CASE UNCHANGED vars
    BY <1>2 DEF vars, connection, threads, media, queues, ghosts, IInv, TypeOK, OwnSession
<1> QED BY <1>1, <1>2

----------------------------------------------------------------------------
(* The theorems *)

\* Every variable of the voice connection keeps its type.
THEOREM TypeCorrect == Spec => []TypeOK
<1>1. IInv => TypeOK
    BY DEF IInv
<1> QED BY <1>1, InitIInv, StepIInv, PTL DEF Spec

\* However orders overlap and nest in Stop's main loop, the encryption session is
\* never one that an earlier connection made.
THEOREM SessionIsOwn == Spec => []OwnSession
<1>1. IInv => OwnSession
    BY DEF IInv
<1> QED BY <1>1, InitIInv, StepIInv, PTL DEF Spec

----------------------------------------------------------------------------
(* What holds when orders do not overlap *)

\* The notifications d announce the messages m: each has one of its own, in order.
AnnouncedBy(m, d) ==
    \E f \in [DOMAIN m -> DOMAIN d] :
        /\ \A i \in DOMAIN m : d[f[i]] = "msg"
        /\ \A i, j \in DOMAIN m : i < j => f[i] < f[j]

IsOrder(n) == n \in {"start", "stop"}
IsStop(fr) == fr.fn \in {"Start", "Stop"}

Over == phase \in {"none", "closed"}
NoThreads == heartbeat = "none" /\ keepalive = "none" /\ reader = "none"
Pending(d) == \E i \in DOMAIN d : IsOrder(d[i])
Suspended(F) == \E i \in DOMAIN F : IsStop(F[i])

\* There is one order at most, waiting or being carried out ...
OnePending(d) == \A i, j \in DOMAIN d : IsOrder(d[i]) /\ IsOrder(d[j]) => i = j
OneSuspended(F) == \A i, j \in DOMAIN F : IsStop(F[i]) /\ IsStop(F[j]) => i = j
OneOrder == OnePending(dispatch) /\ OneSuspended(frames) /\ ~(Pending(dispatch) /\ Suspended(frames))

\* ... so that nothing opens a connection while the main loop runs inside its Stop.
InPump(F) == \E i \in DOMAIN F : IsStop(F[i]) /\ F[i].pc # "stopping"
Pumped == InPump(frames) => Over

\* A client that has not announced a connection has none, and holds nothing of one.
Quiet ==
    /\ told # "connected" => Over /\ NoThreads /\ msgQueue = <<>>
    /\ told = "connected" => terminate = FALSE /\ sock # 0
    /\ state = "DisconnectedByClient" /\ ~Suspended(frames) => told # "connected"

Announced == AnnouncedBy(msgQueue, dispatch)

\* Server and client take turns: what waits in the queue is the server's last word,
\* and the thread that it will start is not there yet.
Turns ==
    /\ \/ msgQueue = <<>>
       \/ msgQueue = <<"Hello">> /\ shake = "identify"
       \/ msgQueue = <<"Ready">> /\ shake = "select"
       \/ msgQueue = <<"SessionDescription">> /\ shake = "done"
       \/ msgQueue \in {<<"PrepareEpoch">>, Append(<<"SessionDescription">>, "PrepareEpoch")}
             /\ shake = "epoch"
    /\ heartbeat # "none" => shake # "hello" /\ msgQueue # <<"Hello">>
    /\ keepalive # "none" => /\ shake \notin {"hello", "identify", "ready"}
                             /\ msgQueue # <<"Ready">>
    /\ reader # "none" => /\ shake \in {"done", "epoch"} /\ keepalive # "none"
                          /\ msgQueue \in {<<>>, <<"PrepareEpoch">>}
    /\ discovering # "no" => keepalive # "none"
    /\ msgQueue # <<>> /\ shake \in {"done", "epoch"} => keepalive # "none"
    /\ crashed = FALSE

\* On an open connection each turn has left its thread running.
Beats ==
    /\ phase = "connecting" => shake = "hello"
    /\ phase = "open" /\ shake \notin {"hello", "identify"} => heartbeat = "running"
    /\ phase = "open" /\ shake \in {"describe", "done", "epoch"} => keepalive # "none"

Orderly == OneOrder /\ Pumped /\ Quiet /\ Announced /\ Turns /\ Beats

\* While Stop waits for the reader nothing is left to take, and nothing can be.
Dry == Joining => dispatch = <<>> /\ msgQueue = <<>> /\ discovering = "no"

\* Only the innermost handler waits for the reader.
Nested == \A i \in DOMAIN frames : i # 1 => frames[i].pc # "joining"

\* The keepalive thread and the UDP socket begin with one READY, and end with one Stop,
\* the socket first.
Sockets ==
    /\ descriptors \subseteq {fd}
    /\ keepalive = "none" => descriptors = {}
    /\ keepalive # "none" => fd = sock /\ (fd \in descriptors \/ Joining)
    /\ Joining => descriptors = {}

----------------------------------------------------------------------------
(* Messages and their notifications *)

LEMMA AnnounceNothing ==
    ASSUME NEW d
    PROVE  AnnouncedBy(<<>>, d)
<1> DEFINE f == [i \in {} |-> i]
<1>1. DOMAIN <<>> = {} /\ f \in [DOMAIN <<>> -> DOMAIN d]
    OBVIOUS
<1> QED BY <1>1 DEF AnnouncedBy

LEMMA NothingAnnounced ==
    ASSUME NEW m \in Seq(Op), AnnouncedBy(m, <<>>)
    PROVE  m = <<>>
<1>1. PICK f \in [DOMAIN m -> DOMAIN <<>>] : TRUE
    BY DEF AnnouncedBy
<1>2. DOMAIN m = 1..Len(m) /\ Len(m) \in Nat /\ DOMAIN <<>> = {}
    OBVIOUS
<1>3. ~(1 \in DOMAIN m)
    BY <1>1, <1>2
<1> QED BY <1>2, <1>3

LEMMA AnnouncePut ==
    ASSUME NEW m \in Seq(Op), NEW d \in Seq(Notice), NEW n \in Notice, AnnouncedBy(m, d)
    PROVE  AnnouncedBy(m, Append(d, n))
<1>1. PICK f \in [DOMAIN m -> DOMAIN d] : /\ \A i \in DOMAIN m : d[f[i]] = "msg"
                                          /\ \A i, j \in DOMAIN m : i < j => f[i] < f[j]
    BY DEF AnnouncedBy
<1>2. \A k \in DOMAIN d : k \in DOMAIN Append(d, n) /\ Append(d, n)[k] = d[k]
    OBVIOUS
<1>3. f \in [DOMAIN m -> DOMAIN Append(d, n)]
    BY <1>2
<1>4. \A i \in DOMAIN m : Append(d, n)[f[i]] = "msg"
    BY <1>1, <1>2
<1> QED BY <1>1, <1>3, <1>4 DEF AnnouncedBy

LEMMA AnnounceMessage ==
    ASSUME NEW m \in Seq(Op), NEW d \in Seq(Notice), NEW op \in Op, AnnouncedBy(m, d)
    PROVE  AnnouncedBy(Append(m, op), Append(d, "msg"))
<1>1. PICK f \in [DOMAIN m -> DOMAIN d] : /\ \A i \in DOMAIN m : d[f[i]] = "msg"
                                         /\ \A i, j \in DOMAIN m : i < j => f[i] < f[j]
    BY DEF AnnouncedBy
<1> DEFINE M == Append(m, op)
           D == Append(d, "msg")
           g == [i \in DOMAIN M |-> IF i \in DOMAIN m THEN f[i] ELSE Len(d) + 1]
<1>2. /\ Len(m) \in Nat /\ Len(d) \in Nat
      /\ DOMAIN m = 1..Len(m) /\ DOMAIN d = 1..Len(d)
      /\ DOMAIN M = 1..(Len(m) + 1) /\ DOMAIN D = 1..(Len(d) + 1)
      /\ \A k \in DOMAIN d : D[k] = d[k]
      /\ D[Len(d) + 1] = "msg"
    OBVIOUS
<1> HIDE DEF M, D
<1>3. \A i \in DOMAIN m : f[i] \in DOMAIN d
    OBVIOUS
<1>4. \A i \in DOMAIN M : /\ g[i] \in DOMAIN D /\ D[g[i]] = "msg"
    BY <1>1, <1>2, <1>3
<1>5. \A i, j \in DOMAIN M : i < j => g[i] < g[j]
    BY <1>1, <1>2, <1>3
<1>6. g \in [DOMAIN M -> DOMAIN D]
    BY <1>4
<1> HIDE DEF g
<1> QED BY <1>4, <1>5, <1>6 DEF AnnouncedBy, M, D

LEMMA AnnounceTail ==
    ASSUME NEW m \in Seq(Op), NEW d \in Seq(Notice), d # <<>>, Head(d) # "msg", AnnouncedBy(m, d)
    PROVE  AnnouncedBy(m, Tail(d))
<1>1. PICK f \in [DOMAIN m -> DOMAIN d] : /\ \A i \in DOMAIN m : d[f[i]] = "msg"
                                         /\ \A i, j \in DOMAIN m : i < j => f[i] < f[j]
    BY DEF AnnouncedBy
<1> DEFINE D == Tail(d)
           g == [i \in DOMAIN m |-> f[i] - 1]
<1>2. /\ DOMAIN d = 1..Len(d) /\ Len(d) \in Nat /\ DOMAIN D = 1..(Len(d) - 1) /\ d[1] = Head(d)
      /\ \A k \in 1..(Len(d) - 1) : D[k] = d[k + 1]
    OBVIOUS
<1> HIDE DEF D
<1>3. \A i \in DOMAIN m : f[i] \in 1..Len(d) /\ f[i] # 1
    BY <1>1, <1>2
<1>4. \A i \in DOMAIN m : g[i] \in DOMAIN D /\ D[g[i]] = "msg"
    BY <1>1, <1>2, <1>3
<1>5. \A i, j \in DOMAIN m : i < j => g[i] < g[j]
    BY <1>1, <1>2, <1>3
<1>6. g \in [DOMAIN m -> DOMAIN D]
    BY <1>4
<1> HIDE DEF g
<1> QED BY <1>4, <1>5, <1>6 DEF AnnouncedBy, D

LEMMA AnnounceTake ==
    ASSUME NEW m \in Seq(Op), NEW d \in Seq(Notice), d # <<>>, m # <<>>, AnnouncedBy(m, d)
    PROVE  AnnouncedBy(Tail(m), Tail(d))
<1>1. PICK f \in [DOMAIN m -> DOMAIN d] : /\ \A i \in DOMAIN m : d[f[i]] = "msg"
                                         /\ \A i, j \in DOMAIN m : i < j => f[i] < f[j]
    BY DEF AnnouncedBy
<1> DEFINE M == Tail(m)
           D == Tail(d)
           g == [i \in DOMAIN M |-> f[i + 1] - 1]
<1>2. /\ DOMAIN d = 1..Len(d) /\ Len(d) \in Nat /\ DOMAIN D = 1..(Len(d) - 1)
      /\ \A k \in 1..(Len(d) - 1) : D[k] = d[k + 1]
      /\ DOMAIN m = 1..Len(m) /\ Len(m) \in Nat /\ DOMAIN M = 1..(Len(m) - 1) /\ 1 \in DOMAIN m
    OBVIOUS
<1> HIDE DEF M, D
<1>3. \A i \in DOMAIN M : i + 1 \in DOMAIN m /\ f[i + 1] \in 1..Len(d) /\ f[1] < f[i + 1]
                          /\ f[1] \in 1..Len(d)
    BY <1>1, <1>2
<1>4. \A i \in DOMAIN M : g[i] \in DOMAIN D /\ D[g[i]] = "msg"
    BY <1>1, <1>2, <1>3
<1>5. ASSUME NEW i \in DOMAIN M, NEW j \in DOMAIN M, i < j
      PROVE  g[i] < g[j]
    <2>1. i + 1 \in DOMAIN m /\ j + 1 \in DOMAIN m /\ i + 1 < j + 1
        BY <1>2, <1>3, <1>5
    <2>2. f[i + 1] < f[j + 1] /\ f[i + 1] \in 1..Len(d) /\ f[j + 1] \in 1..Len(d)
        BY <1>1, <2>1
    <2>3. g[i] = f[i + 1] - 1 /\ g[j] = f[j + 1] - 1
        OBVIOUS
    <2> HIDE DEF g
    <2> QED BY <1>2, <2>2, <2>3
<1>6. g \in [DOMAIN M -> DOMAIN D]
    BY <1>4
<1> HIDE DEF g
<1> QED BY <1>4, <1>5, <1>6 DEF AnnouncedBy, M, D

----------------------------------------------------------------------------
(* Orders and suspended handlers *)

LEMMA OrderPut ==
    ASSUME NEW d \in Seq(Notice), NEW n \in Notice
    PROVE  /\ ~IsOrder(n) => /\ Pending(Append(d, n)) <=> Pending(d)
                             /\ OnePending(d) => OnePending(Append(d, n))
           /\ ~Pending(d) => OnePending(Append(d, n))
<1> DEFINE D == Append(d, n)
<1>1. /\ DOMAIN d = 1..Len(d) /\ Len(d) \in Nat /\ DOMAIN D = 1..(Len(d) + 1)
      /\ \A k \in 1..Len(d) : D[k] = d[k]
      /\ D[Len(d) + 1] = n
    OBVIOUS
<1> HIDE DEF D
<1>2. \A k \in DOMAIN D : k \in DOMAIN d \/ k = Len(d) + 1
    BY <1>1
<1>3. \A k \in DOMAIN d : k \in DOMAIN D /\ D[k] = d[k]
    BY <1>1
<1>4. ASSUME ~IsOrder(n)
      PROVE  (Pending(D) <=> Pending(d)) /\ (OnePending(d) => OnePending(D))
    <2>1. \A k \in DOMAIN D : IsOrder(D[k]) => k \in DOMAIN d /\ IsOrder(d[k])
        BY <1>1, <1>2, <1>3, <1>4
    <2> QED BY <1>3, <2>1 DEF Pending, OnePending
<1>5. ASSUME ~Pending(d) PROVE OnePending(D)
    <2>1. \A k \in DOMAIN D : IsOrder(D[k]) => k = Len(d) + 1
        BY <1>2, <1>3, <1>5 DEF Pending
    <2> QED BY <2>1 DEF OnePending
<1> QED BY <1>4, <1>5 DEF D

LEMMA OrderTail ==
    ASSUME NEW d \in Seq(Notice), d # <<>>, OnePending(d)
    PROVE  /\ OnePending(Tail(d))
           /\ Pending(Tail(d)) => Pending(d)
           /\ IsOrder(Head(d)) => Pending(d) /\ ~Pending(Tail(d))
<1> DEFINE D == Tail(d)
<1>1. /\ DOMAIN d = 1..Len(d) /\ Len(d) \in Nat \ {0} /\ DOMAIN D = 1..(Len(d) - 1) /\ d[1] = Head(d)
      /\ \A k \in 1..(Len(d) - 1) : D[k] = d[k + 1]
    OBVIOUS
<1> HIDE DEF D
<1>2. \A k \in DOMAIN D : k \in Nat /\ k # 0 /\ k + 1 \in DOMAIN d /\ D[k] = d[k + 1]
    BY <1>1
<1>3. OnePending(D)
    <2> SUFFICES ASSUME NEW i \in DOMAIN D, NEW j \in DOMAIN D, IsOrder(D[i]), IsOrder(D[j])
                 PROVE  i = j
        BY DEF OnePending
    <2>1. i + 1 = j + 1
        BY <1>2 DEF OnePending
    <2> QED BY <1>2, <2>1
<1>4. Pending(D) => Pending(d)
    BY <1>2 DEF Pending
<1>5. ASSUME IsOrder(Head(d)) PROVE Pending(d) /\ ~Pending(D)
    <2>1. 1 \in DOMAIN d /\ IsOrder(d[1])
        BY <1>1, <1>5
    <2>2. \A k \in DOMAIN D : ~IsOrder(D[k])
        <3> SUFFICES ASSUME NEW k \in DOMAIN D, IsOrder(D[k]) PROVE FALSE
            OBVIOUS
        <3>1. k + 1 = 1
            BY <1>2, <2>1 DEF OnePending
        <3> QED BY <1>2, <3>1
    <2> QED BY <2>1, <2>2 DEF Pending
<1> QED BY <1>3, <1>4, <1>5 DEF D

LEMMA FramePushed ==
    ASSUME NEW F \in Seq(Frame), NEW fn \in {"Start", "Stop", "Close"}
    PROVE  LET G == <<[fn |-> fn, pc |-> "stopping"]>> \o F IN
           /\ Suspended(G) <=> Suspended(F) \/ fn # "Close"
           /\ OneSuspended(F) /\ (fn = "Close" \/ ~Suspended(F)) => OneSuspended(G)
           /\ InPump(G) => InPump(F)
<1> DEFINE e == [fn |-> fn, pc |-> "stopping"]
           G == <<e>> \o F
<1>1. e \in Frame /\ <<e>> \in Seq(Frame) /\ Len(<<e>>) = 1 /\ <<e>>[1] = e
    BY DEF Frame
<1>2. /\ DOMAIN F = 1..Len(F) /\ Len(F) \in Nat /\ DOMAIN G = 1..(Len(F) + 1)
      /\ \A k \in 1..(Len(F) + 1) : G[k] = IF k <= 1 THEN e ELSE F[k - 1]
    BY <1>1, ConcatProperties, LenProperties
<1> HIDE DEF G
<1>3. \A k \in DOMAIN F : k + 1 \in DOMAIN G /\ G[k + 1] = F[k] /\ k \in Nat
    BY <1>2
<1>4. \A k \in DOMAIN G : /\ k \in Nat
                          /\ k # 1 => k - 1 \in DOMAIN F /\ G[k] = F[k - 1]
    BY <1>2
<1>5. 1 \in DOMAIN G /\ G[1] = e
    BY <1>2
<1>6. IsStop(e) <=> fn # "Close"
    BY DEF IsStop
<1>7. Suspended(G) <=> Suspended(F) \/ fn # "Close"
    <2>1. ASSUME Suspended(F) PROVE Suspended(G)
        BY <1>3, <2>1 DEF Suspended
    <2>2. ASSUME Suspended(G), fn = "Close" PROVE Suspended(F)
        BY <1>4, <1>5, <1>6, <2>2 DEF Suspended
    <2>3. ASSUME fn # "Close" PROVE Suspended(G)
        BY <1>5, <1>6, <2>3 DEF Suspended
    <2> QED BY <2>1, <2>2, <2>3
<1>8. ASSUME OneSuspended(F), fn = "Close" \/ ~Suspended(F) PROVE OneSuspended(G)
    <2> SUFFICES ASSUME NEW i \in DOMAIN G, NEW j \in DOMAIN G, IsStop(G[i]), IsStop(G[j])
                 PROVE  i = j
        BY DEF OneSuspended
    <2>1. CASE fn = "Close"
        <3>1. i # 1 /\ j # 1
            BY <1>5, <1>6, <2>1
        <3>2. i - 1 = j - 1
            BY <1>4, <1>8, <3>1 DEF OneSuspended
        <3> QED BY <1>4, <3>2
    <2>2. CASE ~Suspended(F)
        BY <1>4, <2>2 DEF Suspended
    <2> QED BY <1>8, <2>1, <2>2
<1>9. InPump(G) => InPump(F)
    <2>1. e.pc = "stopping"
        OBVIOUS
    <2> QED BY <1>4, <1>5, <2>1 DEF InPump
<1> QED BY <1>7, <1>8, <1>9 DEF G

LEMMA FramePopped ==
    ASSUME NEW F \in Seq(Frame), F # <<>>, OneSuspended(F)
    PROVE  /\ Suspended(Tail(F)) <=> Suspended(F) /\ Head(F).fn = "Close"
           /\ OneSuspended(Tail(F)) /\ (InPump(Tail(F)) => InPump(F))
           /\ IsStop(Head(F)) /\ Head(F).pc # "stopping" => InPump(F)
<1> DEFINE G == Tail(F)
<1>1. /\ DOMAIN F = 1..Len(F) /\ Len(F) \in Nat \ {0} /\ DOMAIN G = 1..(Len(F) - 1) /\ F[1] = Head(F)
      /\ \A k \in 1..(Len(F) - 1) : G[k] = F[k + 1]
      /\ Head(F) \in Frame
    OBVIOUS
<1> HIDE DEF G
<1>2. \A k \in DOMAIN G : k \in Nat /\ k # 0 /\ k + 1 \in DOMAIN F /\ G[k] = F[k + 1]
    BY <1>1
<1>3. \A k \in DOMAIN F : k # 1 => k - 1 \in DOMAIN G /\ G[k - 1] = F[k]
    BY <1>1
<1>4. 1 \in DOMAIN F /\ F[1] = Head(F) /\ (IsStop(Head(F)) <=> Head(F).fn # "Close")
    BY <1>1 DEF IsStop, Frame
<1>5. OneSuspended(G)
    <2> SUFFICES ASSUME NEW i \in DOMAIN G, NEW j \in DOMAIN G, IsStop(G[i]), IsStop(G[j])
                 PROVE  i = j
        BY DEF OneSuspended
    <2>1. i + 1 = j + 1
        BY <1>2 DEF OneSuspended
    <2> QED BY <1>2, <2>1
<1>6. ASSUME Suspended(G) PROVE Suspended(F) /\ Head(F).fn = "Close"
    <2>1. PICK k \in DOMAIN G : IsStop(G[k])
        BY <1>6 DEF Suspended
    <2>2. k + 1 \in DOMAIN F /\ IsStop(F[k + 1]) /\ k + 1 # 1
        BY <1>2, <2>1
    <2> QED BY <1>4, <2>2 DEF Suspended, OneSuspended
<1>7. ASSUME Suspended(F), Head(F).fn = "Close" PROVE Suspended(G)
    BY <1>3, <1>4, <1>7 DEF Suspended
<1>8. InPump(G) => InPump(F)
    BY <1>2 DEF InPump
<1>9. IsStop(Head(F)) /\ Head(F).pc # "stopping" => InPump(F)
    BY <1>4 DEF InPump
<1> QED BY <1>5, <1>6, <1>7, <1>8, <1>9 DEF G

----------------------------------------------------------------------------
(* The steps, when orders do not overlap *)

LEMMA InitOrderly == Init => Orderly
<1> SUFFICES ASSUME Init PROVE Orderly
    OBVIOUS
<1>1. OneOrder /\ Pumped
    BY DEF Init, OneOrder, Pumped, OnePending, OneSuspended, Pending, Suspended, InPump
<1>2. Quiet /\ Turns /\ Beats
    BY DEF Init, Quiet, Turns, Beats, Over, NoThreads
<1>3. Announced
    BY AnnounceNothing DEF Init, Announced
<1> QED BY <1>1, <1>2, <1>3 DEF Orderly

\* An order comes, or is taken.
LEMMA OrderlyOrder ==
    ASSUME IInv, Orderly, ~Overlap,
           (\E kind \in {"start", "stop"} : OrderArrives(kind)) \/ Start \/ Stop
    PROVE  Orderly'
<1>0. dispatch \in Seq(Notice) /\ msgQueue \in Seq(Op) /\ frames \in Seq(Frame)
    BY DEF IInv, TypeOK
<1> USE DEF connection, threads, media, ghosts
<1>1. ASSUME NEW kind \in {"start", "stop"}, OrderArrives(kind) PROVE Orderly'
    <2>1. /\ dispatch' = Append(dispatch, kind) /\ kind \in Notice
          /\ frames = <<>> /\ ~Pending(dispatch)
          /\ UNCHANGED <<state, told, sock, phase, shake, terminate, heartbeat, keepalive, fd,
                         reader, discovering, msgQueue, frames, crashed>>
        BY <1>1 DEF OrderArrives, Notice, Pending, IsOrder
    <2>2. OneOrder'
        BY <1>0, <2>1, OrderPut DEF Orderly, OneOrder, Suspended
    <2>3. Announced'
        BY <1>0, <2>1, AnnouncePut DEF Orderly, Announced
    <2>4. Pumped' /\ Quiet' /\ Turns' /\ Beats'
        BY <2>1 DEF Orderly, Pumped, Quiet, Turns, Beats, Over, NoThreads
    <2> QED BY <2>2, <2>3, <2>4 DEF Orderly
<1>2. ASSUME NEW kind \in {"start", "stop"}, NEW fn \in {"Start", "Stop"},
             Notified(kind), CallStop(fn), state' = "DisconnectedByClient",
             UNCHANGED <<told, connection, threads, media, discovering, msgQueue, ghosts>>
      PROVE  Orderly'
    <2>1. /\ dispatch # <<>> /\ Head(dispatch) = kind /\ dispatch' = Tail(dispatch)
          /\ frames' = <<[fn |-> fn, pc |-> "stopping"]>> \o frames
        BY <1>2 DEF Notified, CallStop
    <2>2. Pending(dispatch) /\ ~Pending(dispatch') /\ OnePending(dispatch')
        BY <1>0, <2>1, OrderTail DEF Orderly, OneOrder, IsOrder
    <2>3. Suspended(frames') /\ OneSuspended(frames') /\ (InPump(frames') => InPump(frames))
        BY <1>0, <2>1, <2>2, FramePushed DEF Orderly, OneOrder
    <2>4. Announced'
        BY <1>0, <1>2, <2>1, AnnounceTail DEF Orderly, Announced
    <2>5. Pumped' /\ Turns' /\ Beats'
        BY <1>2, <2>3 DEF Orderly, Pumped, Turns, Beats, Over
    <2>6. Quiet'
        BY <1>2, <2>3 DEF Orderly, Quiet, Over, NoThreads
    <2> QED BY <2>2, <2>3, <2>4, <2>5, <2>6 DEF Orderly, OneOrder
<1>3. CASE Start
    BY <1>2, <1>3 DEF Start
<1>4. CASE Stop
    <2>1. CASE IsConnected \/ IsConnecting
        BY <1>2, <1>4, <2>1 DEF Stop
    <2>2. CASE ~(IsConnected \/ IsConnecting)
        <3>1. /\ dispatch # <<>> /\ Head(dispatch) = "stop" /\ dispatch' = Tail(dispatch)
              /\ UNCHANGED <<state, told, sock, phase, shake, terminate, heartbeat, keepalive, fd,
                             reader, discovering, msgQueue, frames, crashed>>
            BY <1>4, <2>2 DEF Stop, Notified
        <3>2. OneOrder'
            BY <1>0, <3>1, OrderTail DEF Orderly, OneOrder
        <3>3. Announced'
            BY <1>0, <3>1, AnnounceTail DEF Orderly, Announced
        <3>4. Pumped' /\ Quiet' /\ Turns' /\ Beats'
            BY <3>1 DEF Orderly, Pumped, Quiet, Turns, Beats, Over, NoThreads
        <3> QED BY <3>2, <3>3, <3>4 DEF Orderly
    <2> QED BY <2>1, <2>2
<1> QED BY <1>1, <1>3, <1>4

\* A connection begins where there is none and nothing of one.
LEMMA OrderlyBegin ==
    ASSUME IInv, ~Suspended(frames'), OneSuspended(frames'),
           NEW q \in Seq(Notice), StartUp(q), OnePending(q), crashed' = FALSE,
           msgQueue' = <<>>, discovering' = "no",
           heartbeat' = "none", keepalive' = "none", reader' = "none"
    PROVE  Orderly'
<1>0. sock \in Nat /\ phase \in Phase
    BY VoiceAssumption DEF IInv, TypeOK
<1>1. /\ state' = "ConnectingToWebsocket" /\ told' = "connected" /\ terminate' = FALSE
      /\ sock' = sock + 1 /\ phase' = "connecting" /\ shake' = "hello"
      /\ dispatch' = q \/ dispatch' = Append(q, "close")
    BY DEF StartUp, StartConnection
<1>2. OneOrder'
    BY <1>1, OrderPut DEF OneOrder, Notice, IsOrder
<1>3. Pumped'
    BY DEF Pumped, InPump, Suspended
<1>4. Quiet' /\ Turns' /\ Beats'
    BY <1>0, <1>1 DEF Quiet, Turns, Beats
<1>5. Announced'
    BY AnnounceNothing DEF Announced
<1> QED BY <1>2, <1>3, <1>4, <1>5 DEF Orderly

\* A handler resumed in Start or Stop finds the socket closed and the queues empty.
LEMMA StopReturned ==
    ASSUME IInv, Orderly, Dry, NEW fn \in {"Start", "Stop"}, JoinsReader(fn)
    PROVE  /\ ~Suspended(frames') /\ OneSuspended(frames') /\ ~InPump(frames')
           /\ Over /\ dispatch = <<>> /\ msgQueue = <<>>
           /\ discovering = "no" /\ crashed = FALSE
<1>0. frames \in Seq(Frame)
    BY DEF IInv, TypeOK
<1>1. /\ frames # <<>> /\ Head(frames).fn = fn /\ Head(frames).pc = "joining"
      /\ frames' = Tail(frames)
      /\ dispatch = <<>> /\ msgQueue = <<>> /\ discovering = "no" /\ crashed = FALSE
    BY <1>0 DEF JoinsReader, Joining, Dry, Orderly, Turns
<1>2. ~Suspended(frames') /\ OneSuspended(frames') /\ InPump(frames)
    BY <1>0, <1>1, FramePopped DEF Orderly, OneOrder, IsStop
<1>3. ~InPump(frames')
    BY <1>2 DEF InPump, Suspended
<1> QED BY <1>1, <1>2, <1>3 DEF Orderly, Pumped

LEMMA OrderlyStart ==
    ASSUME IInv, Orderly, Dry, StartAfresh \/ StartEnds \/ StopEnds
    PROVE  Orderly'
<1>0. /\ dispatch \in Seq(Notice) /\ msgQueue \in Seq(Op) /\ frames \in Seq(Frame)
      /\ state \in State
    BY DEF IInv, TypeOK
<1> USE DEF connection, threads, media, queues, ghosts
<1>1. CASE StartAfresh
    <2>1. /\ dispatch # <<>> /\ Head(dispatch) = "start" /\ StartUp(Tail(dispatch))
          /\ discovering = "no" /\ state = "DisconnectedByClient"
          /\ UNCHANGED <<heartbeat, keepalive, reader, discovering, msgQueue, frames, crashed>>
        BY <1>0, <1>1 DEF StartAfresh, MainReady, IsConnected, IsConnecting, State
    <2>2. Pending(dispatch) /\ OnePending(Tail(dispatch)) /\ Tail(dispatch) \in Seq(Notice)
        BY <1>0, <2>1, OrderTail DEF Orderly, OneOrder, IsOrder
    <2>3. ~Suspended(frames) /\ OneSuspended(frames)
        BY <2>2 DEF Orderly, OneOrder
    <2>4. NoThreads /\ msgQueue = <<>> /\ crashed = FALSE
        BY <2>1, <2>3 DEF Orderly, Quiet, Turns
    <2> QED BY <2>1, <2>2, <2>3, <2>4, OrderlyBegin DEF NoThreads
<1>2. CASE StartEnds
    <2>1. /\ ~Suspended(frames') /\ OneSuspended(frames')
          /\ dispatch = <<>> /\ msgQueue = <<>> /\ discovering = "no" /\ crashed = FALSE
        BY <1>2, StopReturned DEF StartEnds
    <2>2. /\ StartUp(dispatch) /\ heartbeat' = "none" /\ keepalive' = "none" /\ reader' = "none"
          /\ msgQueue' = msgQueue /\ discovering' = discovering /\ crashed' = crashed
        BY <1>2 DEF StartEnds, JoinsReader, JoinThreads
    <2>3. OnePending(dispatch)
        BY <2>1 DEF OnePending
    <2> QED BY <1>0, <2>1, <2>2, <2>3, OrderlyBegin
<1>3. CASE StopEnds
    <2>1. /\ ~Suspended(frames') /\ OneSuspended(frames') /\ ~InPump(frames')
          /\ Over /\ dispatch = <<>> /\ msgQueue = <<>> /\ discovering = "no" /\ crashed = FALSE
        BY <1>3, StopReturned DEF StopEnds
    <2>2. /\ heartbeat' = "none" /\ keepalive' = "none" /\ reader' = "none"
          /\ told' = "disconnected"
          /\ UNCHANGED <<state, sock, phase, shake, discovering, dispatch, msgQueue, crashed>>
        BY <1>3 DEF StopEnds, JoinsReader, JoinThreads
    <2>3. OneOrder' /\ Pumped'
        BY <2>1, <2>2 DEF OneOrder, OnePending, Pending, Pumped
    <2>4. Quiet' /\ Turns' /\ Beats'
        BY <2>1, <2>2 DEF Orderly, Quiet, Turns, Beats, Over, NoThreads
    <2>5. Announced'
        BY <2>1, <2>2, AnnounceNothing DEF Announced
    <2> QED BY <2>3, <2>4, <2>5 DEF Orderly
<1> QED BY <1>1, <1>2, <1>3

LEMMA OrderlySocket ==
    ASSUME IInv, Orderly,
           \/ SocketOpens \/ SocketFails \/ SocketCloses \/ SocketJoined
           \/ UDPStop \/ ReaderEnds \/ DatagramLost
           \/ \E op \in Op : SocketReceives(op)
    PROVE  Orderly'
<1>0. /\ dispatch \in Seq(Notice) /\ msgQueue \in Seq(Op) /\ frames \in Seq(Frame)
      /\ shake \in Shake /\ phase \in Phase
    BY DEF IInv, TypeOK
<1> USE DEF connection, threads, media, queues, ghosts
<1>1. ASSUME dispatch' \in {dispatch, Append(dispatch, "open"), Append(dispatch, "close")},
             phase \in {"connecting", "open"}, phase' = "closed" \/ (phase' = "open" /\ phase = "connecting"),
             UNCHANGED <<state, told, sock, shake, terminate, heartbeat, keepalive, fd, reader,
                         discovering, msgQueue, frames, crashed>>
      PROVE  Orderly'
    <2>1. \A n \in {"open", "close"} : n \in Notice /\ ~IsOrder(n)
        BY DEF Notice, IsOrder
    <2>2. OneOrder'
        BY <1>0, <1>1, <2>1, OrderPut DEF Orderly, OneOrder
    <2>3. Announced'
        BY <1>0, <1>1, <2>1, AnnouncePut DEF Orderly, Announced
    <2>4. ~Over /\ ~InPump(frames) /\ told = "connected"
        BY <1>1 DEF Orderly, Over, Pumped, Quiet
    <2>5. Pumped' /\ Quiet' /\ Turns'
        BY <1>1, <2>4 DEF Orderly, Pumped, Quiet, Turns, Over
    <2>6. Beats'
        BY <1>1 DEF Orderly, Beats
    <2> QED BY <2>2, <2>3, <2>5, <2>6 DEF Orderly
<1>2. CASE SocketOpens
    BY <1>1, <1>2 DEF SocketOpens
<1>3. CASE SocketFails
    <2>1. /\ phase = "connecting" /\ phase' = "closed" /\ dispatch' = dispatch
          /\ UNCHANGED <<state, told, sock, shake, terminate, heartbeat, keepalive, fd, reader,
                         discovering, msgQueue, frames, crashed>>
        BY <1>3 DEF SocketFails
    <2> QED BY <1>1, <2>1
<1>4. CASE SocketCloses
    <2>1. /\ phase = "open" /\ phase' = "closed" /\ dispatch' = Append(dispatch, "close")
          /\ UNCHANGED <<state, told, sock, shake, terminate, heartbeat, keepalive, fd, reader,
                         discovering, msgQueue, frames, crashed>>
        BY <1>4 DEF SocketCloses
    <2> QED BY <1>1, <2>1
<1>5. ASSUME NEW pc, frames # <<>>, frames' = [frames EXCEPT ![1].pc = pc],
             InPump(frames) \/ Over,
             UNCHANGED <<state, told, sock, phase, shake, terminate, heartbeat, keepalive,
                         reader, discovering, dispatch, msgQueue, crashed>>
      PROVE  Orderly'
    <2>1. frames' = [frames EXCEPT ![1] = [frames[1] EXCEPT !.pc = pc]]
        BY <1>5
    <2>2. frames[1] \in Frame /\ 1 \in DOMAIN frames
        BY <1>0, <1>5
    <2>3. DOMAIN frames' = DOMAIN frames /\ \A i \in DOMAIN frames : frames'[i].fn = frames[i].fn
        BY <1>0, <2>1, <2>2 DEF Frame
    <2>4. (Suspended(frames') <=> Suspended(frames)) /\ (OneSuspended(frames) => OneSuspended(frames'))
        BY <2>3 DEF Suspended, OneSuspended, IsStop
    <2>5. OneOrder' /\ Announced'
        BY <1>5, <2>4 DEF Orderly, OneOrder, Announced
    <2>6. Pumped' /\ Quiet' /\ Turns' /\ Beats'
        BY <1>5, <2>4 DEF Orderly, Pumped, Quiet, Turns, Beats, Over, NoThreads
    <2> QED BY <2>5, <2>6 DEF Orderly
<1>51. CASE SocketJoined
    <2>1. phase \in {"none", "closed"} /\ frames # <<>>
        BY <1>51 DEF SocketJoined, Stopping
    <2> QED BY <1>5, <1>51, <2>1 DEF SocketJoined, Over
<1>52. CASE UDPStop
    <2>1. /\ frames # <<>> /\ Head(frames).pc = "pumping" /\ Head(frames).fn \in {"Start", "Stop"}
          /\ 1 \in DOMAIN frames /\ frames[1] = Head(frames)
        BY <1>0, <1>52 DEF UDPStop, LoopDry, MainReady
    <2>2. InPump(frames)
        BY <2>1 DEF InPump, IsStop
    <2> QED BY <1>5, <1>52, <2>1, <2>2 DEF UDPStop
<1>53. CASE ReaderEnds
    <2>1. /\ reader = "running" /\ reader' = "ended"
          /\ UNCHANGED <<state, told, sock, phase, shake, terminate, heartbeat, keepalive,
                         discovering, dispatch, msgQueue, frames, crashed>>
        BY <1>53 DEF ReaderEnds
    <2> QED BY <2>1 DEF Orderly, OneOrder, Announced, Pumped, Quiet, Turns, Beats, Over, NoThreads
<1>54. CASE DatagramLost
    <2>1. /\ discovering = "waiting" /\ discovering' = "lost"
          /\ UNCHANGED <<state, told, sock, phase, shake, terminate, heartbeat, keepalive,
                         reader, dispatch, msgQueue, frames, crashed>>
        BY <1>54 DEF DatagramLost
    <2> QED BY <2>1 DEF Orderly, OneOrder, Announced, Pumped, Quiet, Turns, Beats, Over, NoThreads
<1>6. ASSUME NEW op \in Op, SocketReceives(op) PROVE Orderly'
    <2>1. /\ phase = "open" /\ ServerSends(op)
          /\ msgQueue' = Append(msgQueue, op) /\ dispatch' = Append(dispatch, "msg")
          /\ UNCHANGED <<state, told, sock, phase, terminate, heartbeat, keepalive, fd, reader,
                         discovering, frames, crashed>>
        BY <1>6 DEF SocketReceives
    <2>2. "msg" \in Notice /\ ~IsOrder("msg")
        BY DEF Notice, IsOrder
    <2>3. OneOrder'
        BY <1>0, <2>1, <2>2, OrderPut DEF Orderly, OneOrder
    <2>4. Announced'
        BY <1>0, <2>1, AnnounceMessage DEF Orderly, Announced
    <2>5. told = "connected"
        BY <2>1 DEF Orderly, Quiet, Over
    <2>6. Pumped' /\ Quiet'
        BY <2>1, <2>5 DEF Orderly, Pumped, Quiet, Over
    <2>7. Turns' /\ Beats'
        <3>1. CASE op = "Hello"
            <4>1. shake = "hello" /\ shake' = "identify" /\ msgQueue = <<>> /\ msgQueue' = <<"Hello">>
                BY <2>1, <3>1 DEF ServerSends, Orderly, Turns
            <4> QED BY <2>1, <4>1 DEF Orderly, Turns, Beats
        <3>2. CASE op = "Ready"
            <4>1. shake = "ready" /\ shake' = "select" /\ msgQueue = <<>> /\ msgQueue' = <<"Ready">>
                BY <2>1, <3>2 DEF ServerSends, Orderly, Turns
            <4> QED BY <2>1, <4>1 DEF Orderly, Turns, Beats
        <3>3. CASE op = "SessionDescription"
            <4>1. /\ shake = "describe" /\ shake' = "done" /\ msgQueue = <<>>
                  /\ msgQueue' = <<"SessionDescription">>
                BY <2>1, <3>3 DEF ServerSends, Orderly, Turns
            <4> QED BY <2>1, <4>1 DEF Orderly, Turns, Beats
        <3>4. CASE op = "PrepareEpoch"
            <4>1. shake = "done" /\ shake' = "epoch"
                BY <2>1, <3>4 DEF ServerSends
            <4>2. CASE msgQueue = <<>>
                <5>1. msgQueue' = <<"PrepareEpoch">>
                    BY <2>1, <3>4, <4>2
                <5> QED BY <2>1, <4>1, <4>2, <5>1 DEF Orderly, Turns, Beats
            <4>3. CASE msgQueue = <<"SessionDescription">>
                <5>1. msgQueue' = Append(<<"SessionDescription">>, "PrepareEpoch")
                    BY <2>1, <3>4, <4>3
                <5>2. /\ msgQueue # <<>> /\ msgQueue' # <<"Hello">> /\ msgQueue' # <<"Ready">>
                      /\ msgQueue \notin {<<>>, <<"PrepareEpoch">>}
                    BY <4>3, <5>1
                <5>3. reader = "none" /\ keepalive # "none"
                    BY <4>1, <4>3, <5>2 DEF Orderly, Turns
                <5>4. Beats'
                    BY <2>1, <4>1 DEF Orderly, Beats
                <5>5. Turns'
                    BY <2>1, <4>1, <5>1, <5>2, <5>3 DEF Orderly, Turns
                <5> QED BY <5>4, <5>5
            <4> QED BY <4>1, <4>2, <4>3 DEF Orderly, Turns
        <3> QED BY <3>1, <3>2, <3>3, <3>4 DEF Op
    <2> QED BY <2>3, <2>4, <2>6, <2>7 DEF Orderly
<1> QED BY <1>2, <1>3, <1>4, <1>51, <1>52, <1>53, <1>54, <1>6

\* Notifications of the websocket, and the handlers that a close suspends.
LEMMA OrderlyNotice ==
    ASSUME IInv, Orderly, OnWebsocketOpen \/ DispatchClose \/ OnWebsocketClose \/ DiscoveryEnds
    PROVE  Orderly'
<1>0. /\ dispatch \in Seq(Notice) /\ msgQueue \in Seq(Op) /\ frames \in Seq(Frame)
      /\ shake \in Shake /\ phase \in Phase
    BY DEF IInv, TypeOK
<1> USE DEF connection, threads, media, queues, ghosts
<1>1. CASE OnWebsocketOpen
    <2>1. /\ dispatch # <<>> /\ Head(dispatch) = "open" /\ dispatch' = Tail(dispatch)
          /\ state' = "EstablishingConnection"
          /\ UNCHANGED <<told, sock, phase, shake, terminate, heartbeat, keepalive, fd, reader,
                         discovering, msgQueue, frames, crashed>>
        BY <1>1 DEF OnWebsocketOpen, Notified
    <2>2. OneOrder'
        BY <1>0, <2>1, OrderTail DEF Orderly, OneOrder
    <2>3. Announced'
        BY <1>0, <2>1, AnnounceTail DEF Orderly, Announced
    <2>4. Pumped' /\ Quiet' /\ Turns' /\ Beats'
        BY <2>1 DEF Orderly, Pumped, Quiet, Turns, Beats, Over, NoThreads
    <2> QED BY <2>2, <2>3, <2>4 DEF Orderly
<1>2. CASE DispatchClose
    <2>1. /\ dispatch # <<>> /\ Head(dispatch) = "close" /\ dispatch' = Tail(dispatch)
          /\ frames' = <<[fn |-> "Close", pc |-> "stopping"]>> \o frames
          /\ UNCHANGED <<state, told, sock, phase, shake, terminate, heartbeat, keepalive, fd, reader,
                         discovering, msgQueue, crashed>>
        BY <1>2 DEF DispatchClose, Notified, CallStop
    <2>2. /\ Suspended(frames') <=> Suspended(frames)
          /\ OneSuspended(frames') /\ (InPump(frames') => InPump(frames))
        BY <1>0, <2>1, FramePushed DEF Orderly, OneOrder
    <2>3. OneOrder'
        BY <1>0, <2>1, <2>2, OrderTail DEF Orderly, OneOrder
    <2>4. Announced'
        BY <1>0, <2>1, AnnounceTail DEF Orderly, Announced
    <2>5. Pumped' /\ Quiet' /\ Turns' /\ Beats'
        BY <2>1, <2>2 DEF Orderly, Pumped, Quiet, Turns, Beats, Over, NoThreads
    <2> QED BY <2>3, <2>4, <2>5 DEF Orderly
<1>3. CASE OnWebsocketClose
    <2>1. /\ frames # <<>> /\ Head(frames).fn = "Close" /\ frames' = Tail(frames)
          /\ UNCHANGED <<state, told, sock, phase, shake, terminate, heartbeat, keepalive, fd, reader,
                         discovering, dispatch, msgQueue, crashed>>
        BY <1>3 DEF OnWebsocketClose, LoopDry
    <2>2. /\ Suspended(frames') <=> Suspended(frames)
          /\ OneSuspended(frames') /\ (InPump(frames') => InPump(frames))
        BY <1>0, <2>1, FramePopped DEF Orderly, OneOrder
    <2>3. OneOrder' /\ Announced'
        BY <2>1, <2>2 DEF Orderly, OneOrder, Announced
    <2>4. Pumped' /\ Quiet' /\ Turns' /\ Beats'
        BY <2>1, <2>2 DEF Orderly, Pumped, Quiet, Turns, Beats, Over, NoThreads
    <2> QED BY <2>3, <2>4 DEF Orderly
<1>4. CASE DiscoveryEnds
    <2>1. /\ discovering = "waiting" /\ discovering' = "no"
          /\ shake' = shake \/ (phase = "open" /\ shake = "select" /\ shake' = "describe")
          /\ UNCHANGED <<state, told, sock, phase, terminate, heartbeat, keepalive, fd, reader,
                         frames, dispatch, msgQueue, crashed>>
        BY <1>0, <1>4 DEF DiscoveryEnds, Send
    <2>2. keepalive # "none" /\ msgQueue # <<"Ready">>
        BY <2>1 DEF Orderly, Turns
    <2>3. OneOrder' /\ Announced' /\ Pumped' /\ Quiet'
        BY <2>1 DEF Orderly, OneOrder, Announced, Pumped, Quiet, Over, NoThreads
    <2>4. Turns' /\ Beats'
        BY <2>1, <2>2 DEF Orderly, Turns, Beats
    <2> QED BY <2>3, <2>4 DEF Orderly
<1> QED BY <1>1, <1>2, <1>3, <1>4

\* A message is taken: what the four handlers have in common.
LEMMA OrderlyTaken ==
    ASSUME IInv, Orderly, NEW op \in Op, OnDispatch(op),
           UNCHANGED <<told, sock, phase, terminate, frames>>,
           state' = state \/ state' = "Connected"
    PROVE  /\ OneOrder' /\ Announced' /\ Pumped' /\ Quiet'
           /\ told = "connected" /\ terminate = FALSE
           /\ msgQueue # <<>> /\ Head(msgQueue) = op /\ msgQueue' = Tail(msgQueue)
<1>0. dispatch \in Seq(Notice) /\ msgQueue \in Seq(Op)
    BY DEF IInv, TypeOK
<1>1. /\ dispatch # <<>> /\ Head(dispatch) = "msg" /\ dispatch' = Tail(dispatch)
      /\ msgQueue # <<>> /\ Head(msgQueue) = op /\ msgQueue' = Tail(msgQueue)
    BY DEF OnDispatch, Notified
<1>2. told = "connected" /\ terminate = FALSE
    BY <1>1 DEF Orderly, Quiet
<1>3. OneOrder'
    BY <1>0, <1>1, OrderTail DEF Orderly, OneOrder
<1>4. Announced'
    BY <1>0, <1>1, AnnounceTake DEF Orderly, Announced
<1>5. Pumped' /\ Quiet'
    BY <1>2 DEF Orderly, Pumped, Quiet, Over
<1> QED BY <1>1, <1>2, <1>3, <1>4, <1>5

LEMMA OrderlyMessage ==
    ASSUME IInv, Orderly,
           \/ HandleGatewayHello \/ HandleGatewayReady
           \/ HandleGatewaySessionDescription \/ HandleGatewayDavePrepareEpoch
    PROVE  Orderly'
<1>0. msgQueue \in Seq(Op) /\ shake \in Shake /\ phase \in Phase
    BY DEF IInv, TypeOK
<1> USE DEF connection, threads, media, queues, ghosts
<1>1. CASE HandleGatewayHello
    <2>1. /\ OneOrder' /\ Announced' /\ Pumped' /\ Quiet' /\ terminate = FALSE
          /\ msgQueue # <<>> /\ Head(msgQueue) = "Hello" /\ msgQueue' = Tail(msgQueue)
        BY <1>1, OrderlyTaken DEF HandleGatewayHello, Op
    <2>2. msgQueue = <<"Hello">> /\ shake = "identify"
        BY <2>1 DEF Orderly, Turns
    <2>3. heartbeat = "none" /\ keepalive = "none" /\ reader = "none" /\ crashed = FALSE
        BY <2>2 DEF Orderly, Turns
    <2>4. msgQueue' = <<>>
        BY <2>1, <2>2
    <2>5. /\ heartbeat' = "running" /\ shake' = (IF phase = "open" THEN "ready" ELSE "identify")
          /\ UNCHANGED <<phase, keepalive, fd, reader, discovering, crashed>>
        BY <1>1, <2>1, <2>2, <2>3 DEF HandleGatewayHello, NewThread, Send
    <2>6. Turns' /\ Beats'
        BY <2>2, <2>3, <2>4, <2>5 DEF Orderly, Turns, Beats
    <2> QED BY <2>1, <2>6 DEF Orderly
<1>2. CASE HandleGatewayReady
    <2>1. /\ OneOrder' /\ Announced' /\ Pumped' /\ Quiet' /\ terminate = FALSE
          /\ msgQueue # <<>> /\ Head(msgQueue) = "Ready" /\ msgQueue' = Tail(msgQueue)
        BY <1>2, OrderlyTaken DEF HandleGatewayReady, Op
    <2>2. msgQueue = <<"Ready">> /\ shake = "select"
        BY <2>1 DEF Orderly, Turns
    <2>3. keepalive = "none" /\ reader = "none" /\ crashed = FALSE
        BY <2>2 DEF Orderly, Turns
    <2>4. msgQueue' = <<>>
        BY <2>1, <2>2
    <2>5. /\ keepalive' = "running" /\ crashed' = crashed
          /\ UNCHANGED <<phase, shake, heartbeat, reader>>
        BY <1>2, <2>1, <2>3 DEF HandleGatewayReady, NewThread
    <2>6. Turns' /\ Beats'
        BY <2>2, <2>3, <2>4, <2>5 DEF Orderly, Turns, Beats
    <2> QED BY <2>1, <2>6 DEF Orderly
<1>3. CASE HandleGatewaySessionDescription
    <2>0. state' = state \/ state' = "Connected"
        BY <1>3 DEF HandleGatewaySessionDescription
    <2>1. /\ OneOrder' /\ Announced' /\ Pumped' /\ Quiet'
          /\ msgQueue # <<>> /\ Head(msgQueue) = "SessionDescription" /\ msgQueue' = Tail(msgQueue)
        BY <1>3, <2>0, OrderlyTaken DEF HandleGatewaySessionDescription, Op
    <2>2. /\ shake \in {"done", "epoch"}
          /\ msgQueue \in {<<"SessionDescription">>, Append(<<"SessionDescription">>, "PrepareEpoch")}
        BY <2>1 DEF Orderly, Turns
    <2>3. keepalive # "none" /\ reader = "none" /\ crashed = FALSE
        BY <2>1, <2>2 DEF Orderly, Turns
    <2>4. /\ msgQueue = <<"SessionDescription">> => msgQueue' = <<>>
          /\ msgQueue # <<"SessionDescription">> => msgQueue' = <<"PrepareEpoch">> /\ shake = "epoch"
        <3>1. Tail(<<"SessionDescription">>) = <<>>
            OBVIOUS
        <3>2. Tail(Append(<<"SessionDescription">>, "PrepareEpoch")) = <<"PrepareEpoch">>
            <4>1. "SessionDescription" \in Op /\ "PrepareEpoch" \in Op
                BY DEF Op
            <4>2. <<"SessionDescription">> \in Seq(Op)
                BY <4>1
            <4>3. <<"SessionDescription">> # <<>>
                OBVIOUS
            <4>4. Tail(Append(<<"SessionDescription">>, "PrepareEpoch")) = Append(<<>>, "PrepareEpoch")
                BY <3>1, <4>1, <4>2, <4>3, HeadTailAppend
            <4>5. Append(<<>>, "PrepareEpoch") = <<"PrepareEpoch">>
                OBVIOUS
            <4> QED BY <4>4, <4>5
        <3> QED BY <2>1, <2>2, <3>1, <3>2 DEF Orderly, Turns
    <2>5. /\ reader' = "running" /\ crashed' = crashed
          /\ UNCHANGED <<phase, shake, heartbeat, keepalive, fd, discovering>>
        BY <1>3, <2>3 DEF HandleGatewaySessionDescription
    <2>6. msgQueue' \in {<<>>, <<"PrepareEpoch">>} /\ (msgQueue' = <<>> \/ shake = "epoch")
        BY <2>2, <2>4
    <2>7. Turns' /\ Beats'
        BY <2>2, <2>3, <2>5, <2>6 DEF Orderly, Turns, Beats
    <2> QED BY <2>1, <2>7 DEF Orderly
<1>4. CASE HandleGatewayDavePrepareEpoch
    <2>1. /\ OneOrder' /\ Announced' /\ Pumped' /\ Quiet'
          /\ msgQueue # <<>> /\ Head(msgQueue) = "PrepareEpoch" /\ msgQueue' = Tail(msgQueue)
        BY <1>4, OrderlyTaken DEF HandleGatewayDavePrepareEpoch, Op
    <2>2. msgQueue = <<"PrepareEpoch">> /\ shake = "epoch"
        BY <2>1 DEF Orderly, Turns
    <2>3. msgQueue' = <<>>
        BY <2>1, <2>2
    <2>4. UNCHANGED <<phase, shake, heartbeat, keepalive, fd, reader, discovering, crashed>>
        BY <1>4 DEF HandleGatewayDavePrepareEpoch
    <2>5. Turns' /\ Beats'
        BY <2>2, <2>3, <2>4 DEF Orderly, Turns, Beats
    <2> QED BY <2>1, <2>5 DEF Orderly
<1> QED BY <1>1, <1>2, <1>3, <1>4

LEMMA StepOrderly ==
    ASSUME IInv, Orderly, Dry, ~Overlap, [Next]_vars
    PROVE  Orderly'
<1>1. CASE Next
    BY <1>1, OrderlyOrder, OrderlyStart, OrderlySocket, OrderlyNotice, OrderlyMessage
       DEF Next, Environment, Main
<1>2. CASE UNCHANGED vars
    BY <1>2 DEF vars, connection, threads, media, queues, ghosts, Orderly, OneOrder, Pumped,
                Quiet, Announced, Turns, Beats, Over, NoThreads
<1> QED BY <1>1, <1>2

\* Stop waits for the reader when its loop has run dry, and while it waits no handler
\* runs, the socket is closed and, as orders do not overlap, nothing is queued.
LEMMA StepDry ==
    ASSUME IInv, Orderly, Dry, ~Overlap, [Next]_vars
    PROVE  Dry'
<1>0. /\ dispatch \in Seq(Notice) /\ msgQueue \in Seq(Op) /\ frames \in Seq(Frame)
    BY DEF IInv, TypeOK
<1> USE DEF connection, threads, media, queues, ghosts
<1>1. MainReady => ~Joining
    BY DEF MainReady, Joining
<1>2. Joining => Over
    <2> SUFFICES ASSUME Joining PROVE Over
        OBVIOUS
    <2>1. 1 \in DOMAIN frames /\ frames[1] = Head(frames) /\ frames[1] \in Frame
        BY <1>0 DEF Joining
    <2>2. IsStop(frames[1]) /\ frames[1].pc # "stopping"
        BY <2>1 DEF Joining, Frame, IsStop
    <2> QED BY <2>1, <2>2 DEF InPump, Orderly, Pumped
<1>3. ASSUME ~Joining, UNCHANGED frames PROVE Dry'
    BY <1>3 DEF Dry, Joining
<1>4. ASSUME NEW fn, CallStop(fn) PROVE Dry'
    <2>1. Head(frames') = [fn |-> fn, pc |-> "stopping"]
        BY <1>0, <1>4 DEF CallStop
    <2> QED BY <2>1 DEF Dry, Joining
<1>5. CASE \E kind \in {"start", "stop"} : OrderArrives(kind)
    <2>1. frames = <<>> /\ UNCHANGED frames
        BY <1>5 DEF OrderArrives
    <2> QED BY <2>1 DEF Dry, Joining
<1>6. CASE Start \/ Stop \/ DispatchClose
    <2>1. MainReady
        BY <1>6 DEF Start, Stop, DispatchClose, Notified
    <2> QED BY <1>1, <1>3, <1>4, <1>6, <2>1 DEF Start, Stop, DispatchClose
<1>7. CASE \/ StartAfresh \/ OnWebsocketOpen \/ HandleGatewayHello \/ HandleGatewayReady
           \/ HandleGatewaySessionDescription \/ HandleGatewayDavePrepareEpoch
    <2>1. MainReady /\ UNCHANGED frames
        BY <1>7 DEF StartAfresh, OnWebsocketOpen, HandleGatewayHello, HandleGatewayReady,
                    HandleGatewaySessionDescription, HandleGatewayDavePrepareEpoch,
                    OnDispatch, Notified
    <2> QED BY <1>1, <1>3, <2>1
<1>8. CASE StartEnds \/ StopEnds
    <2>1. ~InPump(frames')
        BY <1>8, StopReturned DEF StartEnds, StopEnds
    <2>2. frames' \in Seq(Frame)
        <3>1. frames # <<>> /\ frames' = Tail(frames)
            BY <1>8 DEF StartEnds, StopEnds, JoinsReader, Joining
        <3> QED BY <1>0, <3>1
    <2>3. ~Joining'
        <3> SUFFICES ASSUME Joining' PROVE FALSE
            OBVIOUS
        <3>1. /\ 1 \in DOMAIN frames' /\ frames'[1] \in Frame /\ frames'[1].pc = "joining"
            BY <2>2 DEF Joining
        <3>2. IsStop(frames'[1])
            BY <3>1 DEF Frame, IsStop
        <3> QED BY <2>1, <3>1, <3>2 DEF InPump
    <2> QED BY <2>3 DEF Dry
<1>9. CASE UDPStop \/ OnWebsocketClose
    <2>1. dispatch = <<>> /\ discovering = "no" /\ UNCHANGED <<dispatch, msgQueue, discovering>>
        BY <1>9 DEF UDPStop, OnWebsocketClose, LoopDry, MainReady
    <2>2. msgQueue = <<>>
        BY <1>0, <2>1, NothingAnnounced DEF Orderly, Announced
    <2> QED BY <2>1, <2>2 DEF Dry
<1>10. CASE SocketOpens \/ SocketFails \/ SocketCloses \/ \E op \in Op : SocketReceives(op)
    <2>1. ~Over /\ UNCHANGED frames
        BY <1>10 DEF SocketOpens, SocketFails, SocketCloses, SocketReceives, Over
    <2> QED BY <1>2, <1>3, <2>1
<1>11. CASE SocketJoined
    <2>1. frames # <<>> /\ frames' = [frames EXCEPT ![1].pc = "pumping"]
        BY <1>11 DEF SocketJoined, Stopping
    <2>2. frames[1] \in Frame /\ 1 \in DOMAIN frames
        BY <1>0, <2>1
    <2>3. frames'[1].pc = "pumping" /\ Head(frames') = frames'[1]
        BY <1>0, <2>1, <2>2 DEF Frame
    <2> QED BY <2>3 DEF Dry, Joining
<1>12. CASE DiscoveryEnds \/ DatagramLost
    <2>1. discovering = "waiting" /\ UNCHANGED frames
        BY <1>12 DEF DiscoveryEnds, DatagramLost
    <2> QED BY <1>3, <2>1 DEF Dry
<1>13. CASE ReaderEnds \/ UNCHANGED vars
    <2>1. UNCHANGED <<frames, dispatch, msgQueue, discovering>>
        BY <1>13 DEF ReaderEnds, vars
    <2> QED BY <2>1 DEF Dry, Joining
<1> QED BY <1>5, <1>6, <1>7, <1>8, <1>9, <1>10, <1>11, <1>12, <1>13 DEF Next, Environment, Main

LEMMA StepNested ==
    ASSUME IInv, Nested, [Next]_vars
    PROVE  Nested'
<1>0. frames \in Seq(Frame)
    BY DEF IInv, TypeOK
<1>1. ASSUME UNCHANGED frames PROVE Nested'
    BY <1>1 DEF Nested
<1>2. ASSUME MainReady, NEW fn, CallStop(fn) PROVE Nested'
    <2>1. frames' = <<[fn |-> fn, pc |-> "stopping"]>> \o frames
        BY <1>2 DEF CallStop
    <2>2. \A i \in DOMAIN frames' : i # 1 => i - 1 \in DOMAIN frames /\ frames'[i] = frames[i - 1]
        BY <1>0, <2>1
    <2>3. \A j \in DOMAIN frames : frames[j].pc # "joining"
        BY <1>0, <1>2 DEF MainReady, Nested
    <2> QED BY <2>2, <2>3 DEF Nested
<1>3. ASSUME frames # <<>>, frames' = Tail(frames) PROVE Nested'
    <2>1. \A i \in DOMAIN frames' : i + 1 \in DOMAIN frames /\ frames'[i] = frames[i + 1] /\ i + 1 # 1
        BY <1>0, <1>3
    <2> QED BY <2>1 DEF Nested
<1>4. ASSUME NEW pc, frames' = [frames EXCEPT ![1].pc = pc] PROVE Nested'
    <2>1. DOMAIN frames' = DOMAIN frames /\ \A i \in DOMAIN frames : i # 1 => frames'[i] = frames[i]
        BY <1>0, <1>4
    <2> QED BY <2>1 DEF Nested
<1>5. CASE Start \/ Stop \/ DispatchClose
    <2>1. MainReady /\ (UNCHANGED frames \/ \E fn \in {"Start", "Stop", "Close"} : CallStop(fn))
        BY <1>5 DEF Start, Stop, DispatchClose, Notified
    <2> QED BY <1>1, <1>2, <2>1
<1>6. CASE StartEnds \/ StopEnds \/ OnWebsocketClose
    BY <1>3, <1>6 DEF StartEnds, StopEnds, JoinsReader, Joining, OnWebsocketClose, LoopDry
<1>7. CASE UDPStop \/ SocketJoined
    BY <1>4, <1>7 DEF UDPStop, SocketJoined
<1>8. CASE \/ (\E kind \in {"start", "stop"} : OrderArrives(kind))
           \/ SocketOpens \/ SocketFails \/ SocketCloses \/ ReaderEnds \/ DatagramLost
           \/ (\E op \in Op : SocketReceives(op)) \/ UNCHANGED vars
    BY <1>1, <1>8 DEF OrderArrives, SocketOpens, SocketFails, SocketCloses, ReaderEnds,
                      DatagramLost, SocketReceives, vars
<1>9. CASE \/ StartAfresh \/ OnWebsocketOpen \/ HandleGatewayHello \/ HandleGatewayReady
           \/ DiscoveryEnds \/ HandleGatewaySessionDescription \/ HandleGatewayDavePrepareEpoch
    BY <1>1, <1>9 DEF StartAfresh, OnWebsocketOpen, HandleGatewayHello, HandleGatewayReady,
                      DiscoveryEnds, HandleGatewaySessionDescription,
                      HandleGatewayDavePrepareEpoch
<1> QED BY <1>5, <1>6, <1>7, <1>8, <1>9 DEF Next, Environment, Main

\* A READY finds no descriptor open, and m_socket is closed before the threads go.
LEMMA StepSockets ==
    ASSUME IInv, Orderly, Dry, Nested, Sockets, [Next]_vars
    PROVE  Sockets'
<1>0. frames \in Seq(Frame)
    BY DEF IInv, TypeOK
<1> USE DEF connection, threads, media, queues, ghosts
<1>1. ASSUME UNCHANGED <<fd, descriptors, keepalive, sock>>, Joining' <=> Joining
      PROVE  Sockets'
    BY <1>1 DEF Sockets
<1>2. MainReady => ~Joining
    BY DEF MainReady, Joining
<1>3. CASE \/ (\E kind \in {"start", "stop"} : OrderArrives(kind))
           \/ SocketOpens \/ SocketFails \/ SocketCloses \/ ReaderEnds \/ DatagramLost
           \/ DiscoveryEnds \/ (\E op \in Op : SocketReceives(op)) \/ UNCHANGED vars
    <2>1. /\ UNCHANGED <<fd, descriptors, keepalive, sock, frames>>
        BY <1>3 DEF OrderArrives, SocketOpens, SocketFails, SocketCloses, ReaderEnds,
                    DatagramLost, DiscoveryEnds, SocketReceives, vars
    <2> QED BY <1>1, <2>1 DEF Joining
<1>4. CASE \/ Start \/ Stop \/ OnWebsocketOpen \/ DispatchClose \/ OnWebsocketClose
           \/ HandleGatewayHello \/ HandleGatewaySessionDescription
           \/ HandleGatewayDavePrepareEpoch
    <2>1. MainReady /\ UNCHANGED <<fd, descriptors, keepalive, sock>>
        BY <1>4 DEF Start, Stop, OnWebsocketOpen, DispatchClose, OnWebsocketClose, LoopDry,
                    HandleGatewayHello, HandleGatewaySessionDescription,
                    HandleGatewayDavePrepareEpoch, OnDispatch, Notified
    <2>2. ~Joining'
        <3>1. ASSUME UNCHANGED frames PROVE ~Joining'
            BY <1>2, <2>1, <3>1 DEF Joining
        <3>2. ASSUME NEW fn, CallStop(fn) PROVE ~Joining'
            <4>1. Head(frames') = [fn |-> fn, pc |-> "stopping"]
                BY <1>0, <3>2 DEF CallStop
            <4> QED BY <4>1 DEF Joining
        <3>3. CASE OnWebsocketClose
            <4>1. frames # <<>> /\ frames' = Tail(frames)
                BY <3>3 DEF OnWebsocketClose, LoopDry
            <4>2. frames' # <<>> => 2 \in DOMAIN frames /\ Head(frames') = frames[2]
                BY <1>0, <4>1
            <4> QED BY <4>2 DEF Joining, Nested
        <3> QED BY <1>4, <3>1, <3>2, <3>3 DEF Start, Stop, OnWebsocketOpen, DispatchClose,
                    HandleGatewayHello, HandleGatewaySessionDescription,
                    HandleGatewayDavePrepareEpoch
    <2> QED BY <1>1, <1>2, <2>1, <2>2
<1>5. CASE SocketJoined
    <2>1. /\ ~Joining /\ UNCHANGED <<fd, descriptors, keepalive, sock>>
          /\ frames # <<>> /\ frames' = [frames EXCEPT ![1].pc = "pumping"]
        BY <1>5 DEF SocketJoined, Stopping, Joining
    <2>2. frames[1] \in Frame /\ 1 \in DOMAIN frames
        BY <1>0, <2>1
    <2>3. ~Joining'
        BY <1>0, <2>1, <2>2 DEF Joining, Frame
    <2> QED BY <1>1, <2>1, <2>3
<1>6. CASE StartAfresh \/ StartEnds \/ StopEnds
    <2>1. keepalive' = "none" /\ UNCHANGED <<fd, descriptors>>
        <3>1. CASE StartAfresh
            <4>1. /\ dispatch # <<>> /\ Head(dispatch) = "start" /\ state = "DisconnectedByClient"
                  /\ UNCHANGED <<keepalive, fd, descriptors>>
                BY <3>1 DEF StartAfresh, IsConnected, IsConnecting, IInv, TypeOK, State
            <4>2. ~Suspended(frames)
                BY <4>1, OrderTail DEF Orderly, OneOrder, IsOrder, IInv, TypeOK
            <4> QED BY <4>1, <4>2 DEF Orderly, Quiet, NoThreads
        <3>2. CASE StartEnds \/ StopEnds
            BY <3>2 DEF StartEnds, StopEnds, JoinsReader, JoinThreads
        <3> QED BY <1>6, <3>1, <3>2
    <2>2. descriptors = {}
        <3>1. CASE keepalive = "none"
            BY <3>1 DEF Sockets
        <3>2. CASE Joining
            BY <3>2 DEF Sockets
        <3>3. keepalive = "none" \/ Joining
            BY <1>6, <2>1 DEF StartAfresh, StartEnds, StopEnds, JoinsReader
        <3> QED BY <3>1, <3>2, <3>3
    <2> QED BY <2>1, <2>2 DEF Sockets
<1>7. CASE UDPStop
    <2>1. /\ descriptors' = descriptors \ {fd} /\ UNCHANGED <<fd, keepalive, sock>>
          /\ frames # <<>> /\ frames' = [frames EXCEPT ![1].pc = "joining"]
        BY <1>7 DEF UDPStop, CloseSocket, LoopDry
    <2>2. frames[1] \in Frame /\ 1 \in DOMAIN frames
        BY <1>0, <2>1
    <2>3. Joining'
        BY <1>0, <2>1, <2>2 DEF Joining, Frame
    <2> QED BY <2>1, <2>3 DEF Sockets
<1>8. CASE HandleGatewayReady
    <2>1. msgQueue # <<>> /\ Head(msgQueue) = "Ready"
        BY <1>8 DEF HandleGatewayReady, OnDispatch
    <2>2. keepalive = "none"
        BY <2>1 DEF Orderly, Turns
    <2>3. /\ fd' = sock /\ descriptors' = descriptors \cup {sock} /\ sock' = sock
          /\ keepalive' # "none"
        BY <1>8, <2>2 DEF HandleGatewayReady, NewThread
    <2>4. ~Joining'
        BY <1>2, <1>8 DEF HandleGatewayReady, OnDispatch, Notified, Joining
    <2> QED BY <2>2, <2>3, <2>4 DEF Sockets
<1> QED BY <1>3, <1>4, <1>5, <1>6, <1>7, <1>8 DEF Next, Environment, Main

\* The invariants, when orders do not overlap.
LEMMA Order ==
    ASSUME ~Overlap
    PROVE  Spec => [](IInv /\ Orderly /\ Dry /\ Nested /\ Sockets)
<1>1. Init => IInv /\ Orderly /\ Dry /\ Nested /\ Sockets
    <2>1. Init => Dry /\ Nested /\ Sockets
        BY DEF Init, Dry, Nested, Sockets, Joining
    <2> QED BY <2>1, InitIInv, InitOrderly
<1>2. IInv /\ Orderly /\ Dry /\ Nested /\ Sockets /\ [Next]_vars => (IInv /\ Orderly /\ Dry /\ Nested /\ Sockets)'
    BY StepIInv, StepOrderly, StepDry, StepNested, StepSockets
<1> QED BY <1>1, <1>2, PTL DEF Spec

\* No thread of an earlier connection is assigned to: the program is not terminated
\* by HELLO, READY or SESSION_DESCRIPTION.
THEOREM ThreadsAreJoined == ASSUME ~Overlap PROVE Spec => []NoCrash
<1>1. Orderly => NoCrash
    BY DEF Orderly, Turns, NoCrash
<1> QED BY <1>1, Order, PTL

\* The connection that was identified beats, however many were there before.
THEOREM HeartbeatRevived == ASSUME ~Overlap PROVE Spec => []VoiceBeats
<1>1. Orderly => VoiceBeats
    BY DEF Orderly, Beats, VoiceBeats
<1> QED BY <1>1, Order, PTL

\* No descriptor is forgotten open, and the reader of UDP packets has the one of its
\* connection, which is open until UDPSocket::Stop closes it and waits for the reader.
THEOREM ReaderKeepsSocket == ASSUME ~Overlap PROVE Spec => []ReaderHasSocket
<1>1. Orderly /\ Sockets => ReaderHasSocket
    BY DEF Orderly, Turns, Sockets, ReaderHasSocket
<1> QED BY <1>1, Order, PTL

----------------------------------------------------------------------------
(* The voice client implements Connection *)

LEMMA LinkInit == Init => Link!Init
BY DEF Init, Link!Init, Served

\* Every step is one of Connection's or leaves its variables alone.
LEMMA LinkStep ==
    ASSUME IInv, Orderly, Dry, Orderly', [Next]_vars
    PROVE  [Link!Next]_(Link!vars)
<1>0. /\ sock \in Nat /\ phase \in Phase /\ frames \in Seq(Frame) /\ state \in State
      /\ dispatch \in Seq(Notice) /\ told \in {"nothing", "connected", "disconnected"}
    BY VoiceAssumption DEF IInv, TypeOK
<1> USE DEF connection, threads, media, queues, ghosts, Link!vars, Served
<1>1. ASSUME UNCHANGED <<told, sock, phase, heartbeat, keepalive, reader>>
      PROVE  UNCHANGED Link!vars
    BY <1>1
<1>2. ASSUME NEW kind \in {"start", "stop"}, OrderArrives(kind) PROVE UNCHANGED Link!vars
    BY <1>1, <1>2 DEF OrderArrives
<1>3. CASE Start \/ Stop \/ UDPStop
    BY <1>1, <1>3 DEF Start, Stop, UDPStop
<1>4. ASSUME Over, told # "connected" \/ ~Suspended(frames'), NEW q, StartUp(q),
             heartbeat' = "none", keepalive' = "none", reader' = "none"
      PROVE  Link!Begin
    BY <1>4 DEF StartUp, StartConnection, Link!Begin, Link!Over, Over
<1>5. CASE StartAfresh
    <2>1. /\ dispatch # <<>> /\ Head(dispatch) = "start" /\ StartUp(Tail(dispatch))
          /\ state = "DisconnectedByClient"
          /\ UNCHANGED <<heartbeat, keepalive, reader>>
        BY <1>0, <1>5 DEF StartAfresh, IsConnected, IsConnecting, State
    <2>2. ~Suspended(frames)
        BY <1>0, <2>1, OrderTail DEF Orderly, OneOrder, IsOrder
    <2>3. told # "connected" /\ Over /\ NoThreads
        BY <2>1, <2>2 DEF Orderly, Quiet
    <2>4. Link!Begin
        BY <1>4, <2>1, <2>3 DEF NoThreads
    <2> QED BY <2>4 DEF Link!Next
<1>6. CASE StartEnds
    <2>1. Over /\ ~Suspended(frames')
        BY <1>6, StopReturned DEF StartEnds
    <2>2. Link!Begin
        BY <1>4, <1>6, <2>1 DEF StartEnds, JoinsReader, JoinThreads
    <2> QED BY <2>2 DEF Link!Next
<1>7. CASE StopEnds
    <2>1. Over
        BY <1>7, StopReturned DEF StopEnds
    <2>2. Link!Announce
        BY <1>7, <2>1 DEF StopEnds, JoinsReader, JoinThreads, Link!Announce, Link!Over, Over
    <2> QED BY <2>2 DEF Link!Next
<1>8. CASE SocketOpens
    <2>1. Link!Opens
        BY <1>8 DEF SocketOpens, Link!Opens
    <2> QED BY <2>1 DEF Link!Next
<1>9. CASE SocketFails \/ SocketCloses
    <2>1. Link!Ends
        BY <1>9 DEF SocketFails, SocketCloses, Link!Ends
    <2> QED BY <2>1 DEF Link!Next
<1>10. CASE SocketJoined \/ \E op \in Op : SocketReceives(op)
    BY <1>1, <1>10 DEF SocketJoined, SocketReceives
<1>11. CASE OnWebsocketOpen \/ DispatchClose \/ OnWebsocketClose \/ DiscoveryEnds
                \/ HandleGatewayDavePrepareEpoch
    BY <1>1, <1>11 DEF OnWebsocketOpen, DispatchClose, OnWebsocketClose, DiscoveryEnds,
                       HandleGatewayDavePrepareEpoch
<1>12. ASSUME told = "connected", UNCHANGED <<told, sock, phase>>,
              Served' = sock \/ UNCHANGED <<heartbeat, keepalive, reader>>
       PROVE  [Link!Next]_(Link!vars)
    <2>1. sock # 0
        BY <1>12 DEF Orderly, Quiet
    <2>2. CASE UNCHANGED <<heartbeat, keepalive, reader>>
        BY <1>1, <1>12, <2>2
    <2>3. CASE Served' = sock /\ Served = sock
        BY <1>12, <2>3
    <2>4. CASE Served' = sock /\ Served = 0
        <3>1. Link!Serve
            BY <1>0, <1>12, <2>1, <2>4 DEF Link!Serve
        <3> QED BY <3>1 DEF Link!Next
    <2> QED BY <1>12, <2>2, <2>3, <2>4
<1>13. CASE HandleGatewayHello \/ HandleGatewayReady \/ HandleGatewaySessionDescription
    <2>1. /\ told = "connected"
        BY <1>13 DEF HandleGatewayHello, HandleGatewayReady, HandleGatewaySessionDescription,
                     OnDispatch, Orderly, Quiet
    <2>2. UNCHANGED <<told, sock, phase>>
        BY <1>13 DEF HandleGatewayHello, HandleGatewayReady, HandleGatewaySessionDescription
    <2>3. Served' = sock \/ UNCHANGED <<heartbeat, keepalive, reader>>
        BY <1>13, <2>2 DEF HandleGatewayHello, HandleGatewayReady,
                           HandleGatewaySessionDescription, NewThread
    <2> QED BY <1>12, <2>1, <2>2, <2>3
<1>14. CASE UNCHANGED vars \/ DatagramLost
    BY <1>1, <1>14 DEF vars, DatagramLost
<1>15. CASE ReaderEnds
    BY <1>15 DEF ReaderEnds
<1> QED BY <1>2, <1>3, <1>5, <1>6, <1>7, <1>8, <1>9, <1>10, <1>11, <1>13, <1>14, <1>15
        DEF Next, Environment, Main

\* The voice client keeps the promise of Connection, for any number of connections,
\* orders, faults and nested handlers, as long as each order is carried out before
\* the next one comes.
THEOREM VoiceImplementsConnection == ASSUME ~Overlap PROVE Spec => ImplementsConnection
<1>1. Spec => [](IInv /\ Orderly /\ Dry)
    BY Order, PTL
<1>2. (IInv /\ Orderly /\ Dry) /\ (IInv /\ Orderly /\ Dry)' /\ [Next]_vars => [Link!Next]_(Link!vars)
    BY LinkStep
<1> QED BY <1>1, <1>2, LinkInit, PTL DEF Spec, ImplementsConnection, Link!Spec

\* What Connection promises of the announced end follows from its steps.
LEMMA GoneSteps ==
    /\ Link!Init => Link!GoneIsOver
    /\ Link!GoneIsOver /\ [Link!Next]_(Link!vars) => Link!GoneIsOver'
<1>1. Link!Init => Link!GoneIsOver
    BY DEF Link!Init, Link!GoneIsOver
<1>2. ASSUME Link!GoneIsOver, [Link!Next]_(Link!vars) PROVE Link!GoneIsOver'
    BY <1>2 DEF Link!Next, Link!vars, Link!GoneIsOver, Link!Begin, Link!Opens, Link!Ends,
                Link!Serve, Link!Release, Link!Announce, Link!Over
<1> QED BY <1>1, <1>2

\* Once the call is announced to be over there is no socket and no thread of it.
THEOREM GoneIsOver == ASSUME ~Overlap PROVE Spec => []Link!GoneIsOver
<1>1. Spec => Link!Spec
    BY VoiceImplementsConnection DEF ImplementsConnection
<1> QED BY <1>1, GoneSteps, PTL DEF Link!Spec
=============================================================================
