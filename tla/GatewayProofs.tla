--------------------------- MODULE GatewayProofs ---------------------------
(***************************************************************************)
(* What the gateway session keeps for every bound and every environment:   *)
(* its types, the agreement of the dispatchers' pipe with the queues it    *)
(* announces, and the state of the heartbeat thread.  Messages are typed   *)
(* only because the queues match (front() of an empty queue is anything),  *)
(* so the two are one inductive invariant.                                 *)
(***************************************************************************)
EXTENDS Gateway, FiniteSetTheorems, SequenceTheorems, TLAPS

----------------------------------------------------------------------------
(* How Count follows the operations on the pipe *)

Places(q, kind) == {i \in DOMAIN q : q[i] = kind}

\* The places of a kind in a sequence are finitely many, so Count is a number.
LEMMA PlacesFinite ==
    ASSUME NEW q \in Seq(Notice), NEW kind
    PROVE  IsFiniteSet(Places(q, kind)) /\ Count(q, kind) = Cardinality(Places(q, kind))
           /\ Count(q, kind) \in Nat
<1>1. IsFiniteSet(DOMAIN q)
  BY FS_Interval
<1>2. Places(q, kind) \subseteq DOMAIN q
  BY DEF Places
<1>3. IsFiniteSet(Places(q, kind))
  BY <1>1, <1>2, FS_Subset
<1> QED
  BY <1>3, FS_CardinalityType DEF Places, Count

\* The empty pipe announces nothing.
LEMMA CountEmpty == \A kind : Count(<<>>, kind) = 0
<1> TAKE kind
<1>1. {i \in DOMAIN <<>> : <<>>[i] = kind} = {}
  OBVIOUS
<1> QED
  BY <1>1, FS_EmptySet DEF Count

\* A notification put into the pipe counts for its own kind and for no other.
LEMMA CountAppend ==
    ASSUME NEW q \in Seq(Notice), NEW k \in Notice, NEW kind
    PROVE  Count(Append(q, k), kind) = IF k = kind THEN Count(q, kind) + 1 ELSE Count(q, kind)
<1> DEFINE n == Len(q) + 1
<1>0. IsFiniteSet(Places(q, kind)) /\ Count(q, kind) = Cardinality(Places(q, kind))
  BY PlacesFinite
<1>1. n \notin Places(q, kind)
  BY DEF Places
<1>a. Cardinality(Places(q, kind) \cup {n}) = Cardinality(Places(q, kind)) + 1
  BY <1>0, <1>1, FS_AddElement
<1>2. CASE k = kind
  <2>1. {i \in DOMAIN Append(q, k) : Append(q, k)[i] = kind} = Places(q, kind) \cup {n}
    BY <1>2 DEF Places
  <2> QED
    BY <1>0, <1>a, <1>2, <2>1 DEF Count
<1>3. CASE k # kind
  <2>1. {i \in DOMAIN Append(q, k) : Append(q, k)[i] = kind} = Places(q, kind)
    BY <1>3 DEF Places
  <2> QED
    BY <1>0, <1>3, <2>1 DEF Count
<1> QED
  BY <1>2, <1>3

\* The notification taken out was one of its kind and of no other.
LEMMA CountTail ==
    ASSUME NEW q \in Seq(Notice), q # <<>>, NEW kind
    PROVE  Count(q, kind) = IF Head(q) = kind THEN Count(Tail(q), kind) + 1
                            ELSE Count(Tail(q), kind)
<1> DEFINE T == Places(Tail(q), kind)
           R == {i \in Places(q, kind) : i # 1}
           f == [i \in T |-> i + 1]
<1>0. Tail(q) \in Seq(Notice) /\ Len(q) \in Nat \ {0} /\ Len(Tail(q)) = Len(q) - 1
      /\ \A i \in 1..Len(Tail(q)) : Tail(q)[i] = q[i + 1]
  OBVIOUS
<1>1. f \in Bijection(T, R)
  <2>1. \A i \in T : i + 1 \in R
    BY <1>0 DEF Places
  <2>2. f \in [T -> R]
    BY <2>1
  <2>3. \A a, b \in T : f[a] = f[b] => a = b
    BY <1>0 DEF Places
  <2>4. \A r \in R : \E a \in T : f[a] = r
    <3> TAKE r \in R
    <3>1. r - 1 \in T
      BY <1>0 DEF Places
    <3> QED
      BY <3>1, <1>0 DEF Places
  <2> QED
    BY <2>2, <2>3, <2>4 DEF Bijection, Injection, Surjection, IsInjective
<1>2. IsFiniteSet(T) /\ Cardinality(T) = Count(Tail(q), kind)
  BY <1>0, PlacesFinite
<1>3. IsFiniteSet(R) /\ Cardinality(R) = Cardinality(T)
  BY <1>1, <1>2, FS_Bijection DEF ExistsBijection
<1>6. Count(q, kind) = Cardinality(Places(q, kind))
  BY PlacesFinite
<1>4. CASE Head(q) = kind
  <2>1. Places(q, kind) = R \cup {1} /\ 1 \notin R
    BY <1>0, <1>4 DEF Places
  <2>2. Cardinality(R \cup {1}) = Cardinality(R) + 1
    BY <1>2, <1>3, <2>1, FS_AddElement
  <2> HIDE DEF R, T
  <2> QED
    BY <1>2, <1>3, <1>4, <1>6, <2>1, <2>2
<1>5. CASE Head(q) # kind
  <2>1. Places(q, kind) = R
    BY <1>0, <1>5 DEF Places
  <2> QED
    BY <1>2, <1>3, <1>5, <1>6, <2>1
<1> QED
  BY <1>4, <1>5

----------------------------------------------------------------------------
(* The inductive invariant *)

\* A socket that exists has a number.
SocketNumbered == phase # "none" => sock # 0

IInv == TypeOK /\ SocketNumbered /\ QueuesMatch /\ HeartbeatRuns

\* A notification in the pipe means that the queue it announces has a front.
LEMMA FrontExists ==
    ASSUME IInv, dispatch # <<>>
    PROVE  /\ Head(dispatch) = "msg" => msgQueue # <<>>
           /\ Head(dispatch) = "generic" => genericQueue # <<>>
<1>1. dispatch \in Seq(Notice) /\ Tail(dispatch) \in Seq(Notice)
  BY DEF IInv, TypeOK, QueueTypeOK
<1>2. ASSUME NEW kind, Head(dispatch) = kind
      PROVE  Count(dispatch, kind) # 0
  <2>1. Count(Tail(dispatch), kind) \in Nat
    BY <1>1, PlacesFinite
  <2>2. Count(dispatch, kind) = Count(Tail(dispatch), kind) + 1
    BY <1>1, <1>2, CountTail
  <2> QED
    BY <2>1, <2>2
<1> QED
  BY <1>2 DEF IInv, QueuesMatch

\* Nothing runs when the program starts.
LEMMA InitIInv == Init => IInv
<1> SUFFICES ASSUME Init PROVE IInv
  OBVIOUS
<1>1. QueuesMatch
  BY CountEmpty DEF Init, QueuesMatch
<1>2. TypeOK
  <2>1. 0 \in 0..MaxConn /\ 0 \in 0..MaxLogins /\ 0 \in 0..MaxFaults /\ 0 \in Nat
    BY GatewayAssumption
  <2>2. <<>> \in Seq(Notice) /\ <<>> \in Seq(Message) /\ <<>> \in Seq(CloseCode)
        /\ <<>> \in Seq(Frame)
    OBVIOUS
  <2> QED
    BY <2>1, <2>2 DEF Init, TypeOK, ClientTypeOK, SocketTypeOK,
                        QueueTypeOK, GhostTypeOK, Phase, Shake, CloseCode
<1> QED
  BY <1>1, <1>2 DEF IInv, Init, SocketNumbered, HeartbeatRuns

\* What StartConnection does to the variables it writes.
LEMMA StartConnectionKeeps ==
    ASSUME IInv, NEW z \in {"ended", "fresh", "used", "bad"},
           NEW buf \in {"empty", "own", "foreign"}, StartConnection(z, buf)
    PROVE  /\ sock' \in 1..MaxConn /\ phase' \in Phase /\ shake' \in Shake
           /\ closeInfo' \in CloseCode
           /\ zstream' \in {"ended", "fresh", "used", "bad"}
           /\ compressed' \in {"empty", "own", "foreign"}
           /\ dispatch' \in Seq(Notice)
           /\ Count(dispatch', "msg") = Count(dispatch, "msg")
           /\ Count(dispatch', "generic") = Count(dispatch, "generic")
<1>1. dispatch \in Seq(Notice) /\ "close" \in Notice
  BY DEF IInv, TypeOK, QueueTypeOK, Notice
<1>2. /\ Count(Append(dispatch, "close"), "msg") = Count(dispatch, "msg")
      /\ Count(Append(dispatch, "close"), "generic") = Count(dispatch, "generic")
  BY <1>1, CountAppend
<1>3. dispatch' = dispatch \/ dispatch' = Append(dispatch, "close")
  BY DEF StartConnection
<1>4. sock' \in 1..MaxConn
  BY GatewayAssumption DEF IInv, TypeOK, SocketTypeOK, StartConnection
<1>5. dispatch' \in Seq(Notice)
  BY <1>1, <1>3
<1>6. /\ Count(dispatch', "msg") = Count(dispatch, "msg")
      /\ Count(dispatch', "generic") = Count(dispatch, "generic")
  BY <1>2, <1>3
<1>7. /\ phase' \in Phase /\ shake' \in Shake /\ closeInfo' \in CloseCode
      /\ zstream' \in {"ended", "fresh", "used", "bad"}
      /\ compressed' \in {"empty", "own", "foreign"}
  BY DEF IInv, TypeOK, SocketTypeOK, StartConnection, Phase, Shake, CloseCode
<1> QED
  BY <1>4, <1>5, <1>6, <1>7

\* CallStop and StopReturns keep a stack of handlers.
LEMMA FramesKept ==
    ASSUME IInv, NEW fn \in Handler, NEW code \in CloseCode,
           CallStop(fn, code) \/ StopReturns(fn)
    PROVE  frames' \in Seq(Frame)
<1>1. frames \in Seq(Frame)
  BY DEF IInv, TypeOK, QueueTypeOK
<1>2. [fn |-> fn, pc |-> "stopping", code |-> code] \in Frame
  BY DEF Frame
<1>3. <<[fn |-> fn, pc |-> "stopping", code |-> code]>> \o frames \in Seq(Frame)
  BY <1>1, <1>2
<1>4. frames # <<>> => Tail(frames) \in Seq(Frame)
  BY <1>1
<1> QED
  BY <1>3, <1>4 DEF CallStop, StopReturns

\* Taking a notification lowers the count of its kind and of no other.
LEMMA TakeNotice ==
    ASSUME IInv, NEW kind, Notified(kind)
    PROVE  /\ dispatch # <<>> /\ dispatch' \in Seq(Notice)
           /\ \A k : /\ Count(dispatch', k) \in Nat
                     /\ Count(dispatch, k) = IF k = kind THEN Count(dispatch', k) + 1
                                             ELSE Count(dispatch', k)
<1>1. /\ dispatch \in Seq(Notice) /\ dispatch # <<>>
      /\ dispatch' = Tail(dispatch) /\ Head(dispatch) = kind
  BY DEF IInv, TypeOK, QueueTypeOK, Notified
<1>2. Tail(dispatch) \in Seq(Notice)
  BY <1>1
<1>3. ASSUME NEW k
      PROVE  /\ Count(dispatch', k) \in Nat
             /\ Count(dispatch, k) = IF k = kind THEN Count(dispatch', k) + 1
                                     ELSE Count(dispatch', k)
  BY <1>1, <1>2, PlacesFinite, CountTail
<1> QED
  BY <1>1, <1>2, <1>3

\* Putting one raises it.
LEMMA PutNotice ==
    ASSUME IInv, NEW kind \in Notice, dispatch' = Append(dispatch, kind)
    PROVE  /\ dispatch' \in Seq(Notice)
           /\ \A k : Count(dispatch', k) = IF k = kind THEN Count(dispatch, k) + 1
                                           ELSE Count(dispatch, k)
<1>1. dispatch \in Seq(Notice)
  BY DEF IInv, TypeOK, QueueTypeOK
<1> QED
  BY <1>1, CountAppend

\* MessageDispatch finds a message and leaves the queues in agreement.
LEMMA TakeMessage ==
    ASSUME IInv, NEW op, MessageDispatch(op)
    PROVE  /\ Head(msgQueue) \in Message
           /\ dispatch' \in Seq(Notice) /\ msgQueue' \in Seq(Message)
           /\ Count(dispatch', "msg") = Len(msgQueue')
           /\ Count(dispatch', "generic") = Count(dispatch, "generic")
<1>1. Notified("msg") /\ msgQueue' = Tail(msgQueue)
  BY DEF MessageDispatch
<1>2. msgQueue # <<>>
  BY <1>1, FrontExists DEF Notified
<1>3. msgQueue \in Seq(Message) /\ Count(dispatch, "msg") = Len(msgQueue)
  BY DEF IInv, TypeOK, QueueTypeOK, QueuesMatch
<1>4. /\ Head(msgQueue) \in Message /\ msgQueue' \in Seq(Message)
      /\ Len(msgQueue') = Len(msgQueue) - 1 /\ Len(msgQueue) \in Nat
  BY <1>1, <1>2, <1>3
<1>5. /\ dispatch' \in Seq(Notice) /\ Count(dispatch', "msg") \in Nat
      /\ Count(dispatch, "msg") = Count(dispatch', "msg") + 1
      /\ Count(dispatch, "generic") = Count(dispatch', "generic")
  BY <1>1, TakeNotice
<1> QED
  BY <1>3, <1>4, <1>5

----------------------------------------------------------------------------
(* Every step keeps the inductive invariant *)

\* The user's actions.
LEMMA UserStep == IInv /\ User => IInv'
<1> SUFFICES ASSUME IInv, User PROVE IInv'
  OBVIOUS
<1> USE DEF IInv, TypeOK, ClientTypeOK, SocketTypeOK, QueueTypeOK, GhostTypeOK,
            SocketNumbered, QueuesMatch, HeartbeatRuns, client, socket, inflate, queues,
            timers, ghosts
<1>1. CASE Start
  <2>1. /\ sock' \in 1..MaxConn /\ phase' \in Phase /\ shake' \in Shake
        /\ closeInfo' \in CloseCode
        /\ zstream' \in {"ended", "fresh", "used", "bad"}
        /\ compressed' \in {"empty", "own", "foreign"}
        /\ dispatch' \in Seq(Notice)
        /\ Count(dispatch', "msg") = Count(dispatch, "msg")
        /\ Count(dispatch', "generic") = Count(dispatch, "generic")
    <3>1. StartConnection("fresh", compressed)
      BY <1>1 DEF Start
    <3> QED
      BY <3>1, StartConnectionKeeps
  <2>2. ClientTypeOK' /\ HeartbeatRuns'
    BY <1>1 DEF Start
  <2>3. GhostTypeOK'
    BY <1>1, <2>1, GatewayAssumption DEF Start, StartConnection
  <2> QED
    BY <1>1, <2>1, <2>2, <2>3 DEF Start
<1>2. CASE Stop
  <2>1. frames' \in Seq(Frame)
    <3>1. CallStop("Stop", "normal") /\ "Stop" \in Handler /\ "normal" \in CloseCode
      BY <1>2 DEF Stop, Handler, CloseCode
    <3> QED
      BY <3>1, FramesKept
  <2>2. ClientTypeOK' /\ HeartbeatRuns'
    <3>1. heartbeat' = 0 /\ 0 \in 0..MaxConn
      BY <1>2, GatewayAssumption DEF Stop, KillHeartbeat
    <3>2. connected' = FALSE /\ reconnecting' = FALSE
          /\ UNCHANGED <<started, wantsResume, session, told, timers>>
      BY <1>2 DEF Stop
    <3> QED
      BY <3>1, <3>2
  <2> QED
    BY <1>2, <2>1, <2>2 DEF Stop
<1> QED
  BY <1>1, <1>2 DEF User

\* The steps of the socket's thread.
LEMMA SocketStep == IInv /\ Socket => IInv'
<1> SUFFICES ASSUME IInv, Socket PROVE IInv'
  OBVIOUS
<1> USE DEF IInv, TypeOK, ClientTypeOK, SocketTypeOK, QueueTypeOK, GhostTypeOK,
            SocketNumbered, QueuesMatch, HeartbeatRuns, client, socket, inflate, queues,
            timers, ghosts
<1>0. {"open", "close", "msg", "generic"} \subseteq Notice
  BY DEF Notice
<1>1. CASE SocketOpens
  <2>1. /\ dispatch' \in Seq(Notice)
        /\ Count(dispatch', "msg") = Count(dispatch, "msg")
        /\ Count(dispatch', "generic") = Count(dispatch, "generic")
    BY <1>0, <1>1, PutNotice DEF SocketOpens
  <2> QED
    BY <1>1, <2>1 DEF SocketOpens, Phase
<1>2. CASE SocketFails
  BY <1>2, GatewayAssumption DEF SocketFails, Phase
<1>3. CASE SocketCloses
  <2>1. /\ dispatch' \in Seq(Notice)
        /\ Count(dispatch', "msg") = Count(dispatch, "msg")
        /\ Count(dispatch', "generic") = Count(dispatch, "generic")
    BY <1>0, <1>3, PutNotice DEF SocketCloses
  <2> QED
    BY <1>3, <2>1, GatewayAssumption DEF SocketCloses, Phase, CloseCode
<1>4. CASE SocketClosesLocally
  <2>1. /\ dispatch' \in Seq(Notice)
        /\ Count(dispatch', "msg") = Count(dispatch, "msg")
        /\ Count(dispatch', "generic") = Count(dispatch, "generic")
    BY <1>0, <1>4, PutNotice DEF SocketClosesLocally
  <2>2. closeInfo' \in CloseCode
    <3>1. Head(frames) \in Frame
      BY <1>4 DEF SocketClosesLocally, Stopping
    <3> QED
      BY <1>4, <3>1 DEF SocketClosesLocally, Frame
  <2> QED
    BY <1>4, <2>1, <2>2 DEF SocketClosesLocally, Phase
<1>5. CASE SocketJoined
  <2>1. frames' \in Seq(Frame)
    <3>1. frames \in Seq(Frame) /\ 1 \in 1..Len(frames)
          /\ frames' = [frames EXCEPT ![1].pc = "pumping"]
      BY <1>5 DEF SocketJoined, Stopping
    <3>2. frames[1] \in Frame
      BY <3>1
    <3>3. [frames[1] EXCEPT !.pc = "pumping"] \in Frame
      BY <3>2 DEF Frame
    <3> QED
      BY <3>1, <3>3, ExceptSeq
  <2> QED
    BY <1>5, <2>1 DEF SocketJoined
<1>6. CASE SocketReceivesPart
  BY <1>6, GatewayAssumption DEF SocketReceivesPart
<1>7. ASSUME NEW op \in Op, SocketReceives(op)
      PROVE  IInv'
  <2>1. shake' \in Shake /\ faults' \in 0..MaxFaults
    <3>1. ServerSends(op)
      BY <1>7 DEF SocketReceives
    <3> DEFINE Sent == /\ shake' \in {shake, "hello", "ready", "dismissed"}
                       /\ \/ faults' = faults
                          \/ faults < MaxFaults /\ faults' = faults + 1
    <3> SUFFICES Sent
      BY GatewayAssumption DEF Shake
    <3>2. CASE op = "Hello"
      BY <3>1, <3>2 DEF ServerSends
    <3>3. CASE op = "Ready"
      BY <3>1, <3>3 DEF ServerSends
    <3>4. CASE op = "Event"
      BY <3>1, <3>4 DEF ServerSends
    <3>6. CASE op \in {"Reconnect", "InvalidSession"}
      <4>1. shake' = "dismissed" /\ faults < MaxFaults /\ faults' = faults + 1
        BY <3>1, <3>6 DEF ServerSends
      <4> QED
        BY <4>1
    <3> QED
      BY <3>2, <3>3, <3>4, <3>6 DEF Op
  <2>2. [op |-> op, conn |-> sock] \in Message
    BY <1>7, GatewayAssumption DEF SocketReceives, Message
  <2>3. /\ zstream' \in {"ended", "fresh", "used", "bad"}
        /\ compressed' \in {"empty", "own", "foreign"}
    BY <1>7 DEF SocketReceives
  <2>4. /\ dispatch' \in Seq(Notice) /\ msgQueue' \in Seq(Message)
        /\ Count(dispatch', "msg") = Len(msgQueue')
        /\ Count(dispatch', "generic") = Count(dispatch, "generic")
    <3>1. CASE Inflates
      <4>1. /\ dispatch' = Append(dispatch, "msg")
            /\ msgQueue' = Append(msgQueue, [op |-> op, conn |-> sock])
        BY <1>7, <3>1 DEF SocketReceives
      <4>2. /\ dispatch' \in Seq(Notice)
            /\ Count(dispatch', "msg") = Count(dispatch, "msg") + 1
            /\ Count(dispatch', "generic") = Count(dispatch, "generic")
        BY <1>0, <4>1, PutNotice
      <4> QED
        BY <2>2, <4>1, <4>2
    <3>2. CASE ~Inflates
      BY <1>7, <3>2 DEF SocketReceives
    <3> QED
      BY <3>1, <3>2
  <2> QED
    BY <1>7, <2>1, <2>3, <2>4 DEF SocketReceives
<1> QED
  BY <1>1, <1>2, <1>3, <1>4, <1>5, <1>6, <1>7 DEF Socket

\* BeginReconnect, which a message and a timeout share.
LEMMA BeginReconnectKeeps ==
    ASSUME IInv, BeginReconnect
    PROVE  /\ heartbeat' = 0 /\ reconnecting' = TRUE /\ wantsResume' = TRUE
           /\ zstream' = "ended" /\ compressed' = "empty"
           /\ frames' \in Seq(Frame)
           /\ UNCHANGED <<started, connected, session, told, socket, genericQueue, ghosts>>
<1>1. CallStop("Reconnect", "restart") /\ "Reconnect" \in Handler /\ "restart" \in CloseCode
  BY DEF BeginReconnect, Handler, CloseCode
<1>2. frames' \in Seq(Frame)
  BY <1>1, FramesKept
<1> QED
  BY <1>2 DEF BeginReconnect, KillHeartbeat

\* The notifications and messages the main thread takes.
LEMMA MessageStep ==
    ASSUME IInv,
           \/ HandleGatewayHello \/ HandleGatewayReady \/ HandleGatewayEvent
           \/ HandleGatewayReconnect \/ HandleGatewayInvalidSession
    PROVE  IInv'
<1> USE DEF IInv, TypeOK, ClientTypeOK, SocketTypeOK, QueueTypeOK, GhostTypeOK,
            SocketNumbered, QueuesMatch, HeartbeatRuns, client, socket, inflate, queues,
            timers, ghosts
<1> DEFINE Taken == /\ dispatch' \in Seq(Notice) /\ msgQueue' \in Seq(Message)
                    /\ Count(dispatch', "msg") = Len(msgQueue')
                    /\ Count(dispatch', "generic") = Count(dispatch, "generic")
<1>1. CASE HandleGatewayHello
  <2>1. Taken /\ Head(msgQueue).conn \in 1..MaxConn
    <3>1. MessageDispatch("Hello")
      BY <1>1 DEF HandleGatewayHello
    <3> QED
      BY <3>1, TakeMessage DEF Message
  <2>2. crashed' \in BOOLEAN /\ shake' \in Shake
    BY <1>1 DEF HandleGatewayHello, Shake
  <2>3. ClientTypeOK' /\ HeartbeatRuns'
    <3>1. CASE heartbeat # 0
      BY <1>1, <3>1 DEF HandleGatewayHello
    <3>2. CASE heartbeat = 0
      <4>1. /\ connected' = TRUE /\ told' = "connected"
            /\ reconnecting' = FALSE /\ wantsResume' = FALSE
            /\ heartbeat' = Head(msgQueue).conn
            /\ UNCHANGED <<started, session, timers>>
        BY <1>1, <3>2 DEF HandleGatewayHello
      <4>b. started' \in BOOLEAN /\ connected' \in BOOLEAN
            /\ reconnecting' \in BOOLEAN /\ wantsResume' \in BOOLEAN
        BY <4>1
      <4>c. HeartbeatRuns'
        BY <4>1
      <4> QED
        BY <2>1, <4>1, <4>b, <4>c, GatewayAssumption
    <3> QED
      BY <3>1, <3>2
  <2> QED
    BY <1>1, <2>1, <2>2, <2>3 DEF HandleGatewayHello
<1>2. CASE HandleGatewayReady
  <2>1. Taken /\ Head(msgQueue).conn \in 1..MaxConn
    <3>1. MessageDispatch("Ready")
      BY <1>2 DEF HandleGatewayReady
    <3> QED
      BY <3>1, TakeMessage DEF Message
  <2>2. session' \in 0..MaxConn
    BY <1>2, <2>1, GatewayAssumption DEF HandleGatewayReady
  <2> QED
    BY <1>2, <2>1, <2>2 DEF HandleGatewayReady
<1>3. CASE HandleGatewayEvent
  <2>1. Taken
    BY <1>3, TakeMessage DEF HandleGatewayEvent
  <2> QED
    BY <1>3, <2>1 DEF HandleGatewayEvent
<1>4. CASE HandleGatewayReconnect
  <2>1. Taken
    BY <1>4, TakeMessage DEF HandleGatewayReconnect
  <2>2. /\ heartbeat' = 0 /\ reconnecting' = TRUE /\ wantsResume' = TRUE
        /\ zstream' = "ended" /\ compressed' = "empty"
        /\ frames' \in Seq(Frame)
        /\ UNCHANGED <<started, connected, session, told, socket, genericQueue, ghosts>>
        /\ UNCHANGED timers
    BY <1>4, BeginReconnectKeeps DEF HandleGatewayReconnect
  <2>3. ClientTypeOK' /\ HeartbeatRuns'
    BY <2>2, GatewayAssumption
  <2> QED
    BY <2>1, <2>2, <2>3
<1>5. CASE HandleGatewayInvalidSession
  <2>1. Taken
    BY <1>5, TakeMessage DEF HandleGatewayInvalidSession
  <2>2. frames' \in Seq(Frame)
    <3>1. /\ CallStop("InvalidSession", "normal")
          /\ "InvalidSession" \in Handler /\ "normal" \in CloseCode
      BY <1>5 DEF HandleGatewayInvalidSession, Handler, CloseCode
    <3> QED
      BY <3>1, FramesKept
  <2>3. /\ heartbeat' = 0 /\ reconnecting' = TRUE /\ wantsResume' = FALSE
        /\ zstream' = "fresh" /\ compressed' = "empty"
        /\ UNCHANGED <<started, connected, session, told, socket, genericQueue, timers, ghosts>>
    BY <1>5 DEF HandleGatewayInvalidSession, KillHeartbeat
  <2>4. ClientTypeOK' /\ HeartbeatRuns'
    <3>b. started' \in BOOLEAN /\ connected' \in BOOLEAN
          /\ reconnecting' \in BOOLEAN /\ wantsResume' \in BOOLEAN
      BY <2>3
    <3>c. HeartbeatRuns'
      BY <2>3
    <3> QED
      BY <2>3, <3>b, <3>c, GatewayAssumption
  <2> QED
    BY <2>1, <2>2, <2>3, <2>4
<1> QED
  BY <1>1, <1>2, <1>3, <1>4, <1>5

\* The open, close and generic dispatchers keep the invariant.
LEMMA NoticeStep ==
    ASSUME IInv, DispatchOpen \/ DispatchClose \/ HandleSocketClose
    PROVE  IInv'
<1> USE DEF IInv, TypeOK, ClientTypeOK, SocketTypeOK, QueueTypeOK, GhostTypeOK,
            SocketNumbered, QueuesMatch, HeartbeatRuns, client, socket, inflate, queues,
            timers, ghosts
<1>1. CASE DispatchOpen
  <2>1. /\ dispatch' \in Seq(Notice)
        /\ Count(dispatch', "msg") = Count(dispatch, "msg")
        /\ Count(dispatch', "generic") = Count(dispatch, "generic")
    <3>1. Notified("open")
      BY <1>1 DEF DispatchOpen
    <3> QED
      BY <3>1, TakeNotice
  <2> QED
    BY <1>1, <2>1 DEF DispatchOpen
<1>2. CASE DispatchClose
  <2>1. /\ dispatch' \in Seq(Notice)
        /\ Count(dispatch', "msg") = Count(dispatch, "msg")
        /\ Count(dispatch', "generic") = Count(dispatch, "generic")
    <3>1. Notified("close")
      BY <1>2 DEF DispatchClose
    <3> QED
      BY <3>1, TakeNotice
  <2>2. frames' \in Seq(Frame)
    <3>1. CallStop("Close", "normal") /\ "Close" \in Handler /\ "normal" \in CloseCode
      BY <1>2 DEF DispatchClose, Handler, CloseCode
    <3> QED
      BY <3>1, FramesKept
  <2> QED
    BY <1>2, <2>1, <2>2 DEF DispatchClose
<1>3. CASE HandleSocketClose
  <2>1. Notified("generic") /\ genericQueue' = Tail(genericQueue)
    BY <1>3 DEF HandleSocketClose
  <2>2. genericQueue # <<>>
    BY <2>1, FrontExists DEF Notified
  <2>3. /\ genericQueue' \in Seq(CloseCode) /\ Len(genericQueue) \in Nat
        /\ Len(genericQueue') = Len(genericQueue) - 1
    BY <2>1, <2>2
  <2>4. /\ dispatch' \in Seq(Notice)
        /\ Count(dispatch', "msg") = Count(dispatch, "msg")
        /\ Count(dispatch', "generic") = Len(genericQueue')
    <3>1. /\ dispatch' \in Seq(Notice) /\ Count(dispatch', "generic") \in Nat
          /\ Count(dispatch, "msg") = Count(dispatch', "msg")
          /\ Count(dispatch, "generic") = Count(dispatch', "generic") + 1
      BY <2>1, TakeNotice
    <3> QED
      BY <2>3, <3>1
  <2>5. ClientTypeOK' /\ HeartbeatRuns'
    <3>1. heartbeat' = 0 /\ connected' = FALSE /\ 0 \in 0..MaxConn
          /\ UNCHANGED <<started, wantsResume, session, tRestart>>
      BY <1>3, GatewayAssumption DEF HandleSocketClose, KillHeartbeat
    <3>2. /\ \/ tReconnect' = tReconnect + 1 /\ reconnecting' = TRUE
             \/ tReconnect' = tReconnect /\ reconnecting' = reconnecting
          /\ told' = "reconnecting" \/ told' = "gone"
      BY <1>3 DEF HandleSocketClose
    <3>b. started' \in BOOLEAN /\ connected' \in BOOLEAN
          /\ reconnecting' \in BOOLEAN /\ wantsResume' \in BOOLEAN
      BY <3>1, <3>2
    <3>c. HeartbeatRuns'
      BY <3>1, <3>2
    <3> QED
      BY <3>1, <3>2, <3>b, <3>c
  <2> QED
    BY <1>3, <2>3, <2>4, <2>5 DEF HandleSocketClose
<1> QED
  BY <1>1, <1>2, <1>3

\* The handlers that Websocket::Stop returns to.
LEMMA ReturnStep ==
    ASSUME IInv, CloseEnds \/ ReconnectEnds \/ InvalidSessionEnds \/ StopEnds
    PROVE  IInv'
<1> USE DEF IInv, TypeOK, ClientTypeOK, SocketTypeOK, QueueTypeOK, GhostTypeOK,
            SocketNumbered, QueuesMatch, HeartbeatRuns, client, socket, inflate, queues,
            timers, ghosts
<1>0. {"Reconnect", "InvalidSession", "Close", "Stop"} \subseteq Handler /\ "normal" \in CloseCode
      /\ "generic" \in Notice
  BY DEF Handler, CloseCode, Notice
<1>1. CASE CloseEnds
  <2>1. frames' \in Seq(Frame)
    <3>1. StopReturns("Close")
      BY <1>1 DEF CloseEnds
    <3> QED
      BY <1>0, <3>1, FramesKept
  <2>2. /\ dispatch' \in Seq(Notice)
        /\ Count(dispatch', "msg") = Count(dispatch, "msg")
        /\ Count(dispatch', "generic") = Count(dispatch, "generic") + 1
    <3>1. dispatch' = Append(dispatch, "generic")
      BY <1>1 DEF CloseEnds
    <3> QED
      BY <1>0, <3>1, PutNotice
  <2>3. genericQueue' \in Seq(CloseCode) /\ Len(genericQueue') = Len(genericQueue) + 1
    BY <1>1 DEF CloseEnds
  <2> QED
    BY <1>1, <2>1, <2>2, <2>3 DEF CloseEnds
<1>2. CASE ReconnectEnds
  <2>1. frames' \in Seq(Frame)
    <3>1. StopReturns("Reconnect")
      BY <1>2 DEF ReconnectEnds
    <3> QED
      BY <1>0, <3>1, FramesKept
  <2>2. /\ sock' \in 1..MaxConn /\ phase' \in Phase /\ shake' \in Shake
        /\ closeInfo' \in CloseCode
        /\ zstream' \in {"ended", "fresh", "used", "bad"}
        /\ compressed' \in {"empty", "own", "foreign"}
        /\ dispatch' \in Seq(Notice)
        /\ Count(dispatch', "msg") = Count(dispatch, "msg")
        /\ Count(dispatch', "generic") = Count(dispatch, "generic")
    <3>1. StartConnection("fresh", compressed)
      BY <1>2 DEF ReconnectEnds
    <3> QED
      BY <3>1, StartConnectionKeeps
  <2> QED
    BY <1>2, <2>1, <2>2 DEF ReconnectEnds
<1>3. CASE InvalidSessionEnds
  <2>1. frames' \in Seq(Frame)
    <3>1. StopReturns("InvalidSession")
      BY <1>3 DEF InvalidSessionEnds
    <3> QED
      BY <1>0, <3>1, FramesKept
  <2> QED
    BY <1>3, <2>1 DEF InvalidSessionEnds
<1>4. CASE StopEnds
  <2>1. frames' \in Seq(Frame)
    <3>1. StopReturns("Stop")
      BY <1>4 DEF StopEnds
    <3> QED
      BY <1>0, <3>1, FramesKept
  <2>2. started' = FALSE
        /\ UNCHANGED <<connected, reconnecting, wantsResume, session, told, heartbeat,
                       socket, inflate, queues, timers, ghosts>>
    BY <1>4 DEF StopEnds
  <2>3. started' \in BOOLEAN
    BY <2>2
  <2> QED
    BY <2>1, <2>2, <2>3
<1> QED
  BY <1>1, <1>2, <1>3, <1>4

\* So do the two timeouts.
LEMMA TimeoutStep ==
    ASSUME IInv, TimeoutReconnect \/ TimeoutRestart
    PROVE  IInv'
<1> USE DEF IInv, TypeOK, ClientTypeOK, SocketTypeOK, QueueTypeOK, GhostTypeOK,
            SocketNumbered, QueuesMatch, HeartbeatRuns, client, socket, inflate, queues,
            timers, ghosts
<1>1. CASE TimeoutReconnect
  <2>1. tReconnect' \in Nat /\ UNCHANGED <<dispatch, msgQueue, tRestart>>
    BY <1>1 DEF TimeoutReconnect
  <2>2. CASE started
    <3>1. BeginReconnect
      BY <1>1, <2>2 DEF TimeoutReconnect
    <3>2. /\ heartbeat' = 0 /\ reconnecting' = TRUE /\ wantsResume' = TRUE
          /\ zstream' = "ended" /\ compressed' = "empty"
          /\ frames' \in Seq(Frame)
          /\ UNCHANGED <<started, connected, session, told, socket, genericQueue, ghosts>>
      BY <3>1, BeginReconnectKeeps
    <3>3. ClientTypeOK' /\ HeartbeatRuns'
      BY <2>1, <3>2, GatewayAssumption
    <3> QED
      BY <2>1, <3>2, <3>3
  <2>3. CASE ~started
    BY <1>1, <2>1, <2>3 DEF TimeoutReconnect
  <2> QED
    BY <2>2, <2>3
<1>2. CASE TimeoutRestart
  <2>1. tRestart' \in Nat
        /\ UNCHANGED <<client, heartbeat, msgQueue, genericQueue, tReconnect, frames, ghosts>>
    BY <1>2 DEF TimeoutRestart
  <2>2. CASE started
    <3>1. StartConnection(zstream, compressed)
      BY <1>2, <2>2 DEF TimeoutRestart
    <3>2. /\ sock' \in 1..MaxConn /\ phase' \in Phase /\ shake' \in Shake
          /\ closeInfo' \in CloseCode
          /\ zstream' \in {"ended", "fresh", "used", "bad"}
          /\ compressed' \in {"empty", "own", "foreign"}
          /\ dispatch' \in Seq(Notice)
          /\ Count(dispatch', "msg") = Count(dispatch, "msg")
          /\ Count(dispatch', "generic") = Count(dispatch, "generic")
      BY <3>1, StartConnectionKeeps
    <3> QED
      BY <2>1, <3>2
  <2>3. CASE ~started
    BY <1>2, <2>1, <2>3 DEF TimeoutRestart
  <2> QED
    BY <2>2, <2>3
<1> QED
  BY <1>1, <1>2

\* Every step keeps the invariant.
LEMMA StepIInv == IInv /\ [Next]_vars => IInv'
<1> SUFFICES ASSUME IInv, [Next]_vars PROVE IInv'
  OBVIOUS
<1>1. CASE User
  BY <1>1, UserStep
<1>2. CASE Socket
  BY <1>2, SocketStep
<1>3. CASE Main
  BY <1>3, MessageStep, NoticeStep, ReturnStep, TimeoutStep DEF Main
<1>4. CASE UNCHANGED vars
  BY <1>4 DEF IInv, TypeOK, ClientTypeOK, SocketTypeOK, QueueTypeOK, GhostTypeOK,
              SocketNumbered, QueuesMatch, HeartbeatRuns, vars, client, socket, inflate,
              queues, timers, ghosts
<1> QED
  BY <1>1, <1>2, <1>3, <1>4 DEF Next

----------------------------------------------------------------------------
(* The theorems *)

\* The inductive invariant holds of every behaviour.
THEOREM Invariance == Spec => []IInv
<1> QED
  BY InitIInv, StepIInv, PTL DEF Spec

\* Every variable of the session keeps its type; in particular what
\* MessageDispatch and the generic callback take from their queues is there.
THEOREM TypeCorrect == Spec => []TypeOK
<1>1. IInv => TypeOK
  BY DEF IInv
<1> QED
  BY <1>1, Invariance, PTL

\* A notification in the pipe always stands for one entry of its queue: no
\* nesting of handlers makes MessageDispatch or the generic callback take the
\* front of an empty queue, whatever the server, the network and the user do.
THEOREM QueuesAgree == Spec => []QueuesMatch
<1>1. IInv => QueuesMatch
  BY DEF IInv
<1> QED
  BY <1>1, Invariance, PTL

\* A heartbeat thread that was not joined still has its loop condition.
THEOREM HeartbeatKept == Spec => []HeartbeatRuns
<1>1. IInv => HeartbeatRuns
  BY DEF IInv
<1> QED
  BY <1>1, Invariance, PTL

----------------------------------------------------------------------------
(* One login: one session at a time *)

\* No handler waits in Websocket::Stop but, it may be, the user's own DiscordClient::Stop.
Based(s)  == s = <<>> \/ (s # <<>> /\ Head(s).fn = "Stop" /\ Tail(s) = <<>>)

\* The innermost handler is one that will replace the connection, on top of that.
Renews(s) == s # <<>> /\ Head(s).fn \in {"Reconnect", "InvalidSession"} /\ Based(Tail(s))

\* The innermost handler is that of a close, on top of either.
Closes(s) == s # <<>> /\ Head(s).fn = "Close" /\ (Based(Tail(s)) \/ Renews(Tail(s)))

\* A handler that will replace the connection is on the stack.
Renewing  == Renews(frames) \/ (Closes(frames) /\ Renews(Tail(frames)))

\* A timeout that will replace the connection is armed.
Armed == started /\ (tReconnect > 0 \/ tRestart > 0)

\* No deeper stack exists: a close inside a renewal inside the user's stop.
Nesting == Based(frames) \/ Renews(frames) \/ Closes(frames)

\* Before the first login there is no connection and no timeout.
Unstarted ==
    /\ logins = 0 => phase = "none" /\ tReconnect = 0 /\ tRestart = 0
    /\ phase = "none" => ~started

\* The close of a connection, and the callback it leads to, are the last that the pipe
\* holds: the socket reports nothing after them.
LastWord ==
    \A i \in DOMAIN dispatch : dispatch[i] \in {"close", "generic"}
                                   => i = Len(dispatch) /\ phase = "closed"

\* A connection that is not open yet has had nothing to say, and nothing waits to replace it.
Early == phase \in {"none", "connecting"} =>
             dispatch = <<>> /\ shake = "wait" /\ Based(frames) /\ ~Armed

\* Before its HELLO a connection has no heartbeat and no message.
Waiting == shake = "wait" => heartbeat = 0 /\ msgQueue = <<>>

\* The heartbeat is that of the connection there is.
OwnBeat == heartbeat \in {0, sock}

\* Every queued message is of the connection there is; HELLO is its first, with no heartbeat
\* yet; after a request to start over there are only events.
MessagesInOrder ==
    \A i \in DOMAIN msgQueue :
        /\ msgQueue[i].conn = sock
        /\ msgQueue[i].op = "Hello" => i = 1 /\ heartbeat = 0
        /\ msgQueue[i].op \in {"Reconnect", "InvalidSession"} =>
               /\ shake = "dismissed"
               /\ \A j \in DOMAIN msgQueue : j > i => msgQueue[j].op = "Event"

\* While a close is handled the connection is over and the pipe is empty.
WhileClosing == Closes(frames) => dispatch = <<>> /\ phase = "closed" /\ ~Armed

\* While a handler that will replace the connection is on the stack the client says that it
\* reconnects, the heartbeat is joined and no HELLO is left to be handled.
WhileRenewing == Renewing =>
    /\ reconnecting /\ told # "gone" /\ heartbeat = 0 /\ ~Armed
    /\ \A i \in DOMAIN msgQueue : msgQueue[i].op = "Event"
    /\ phase = "open" => shake = "dismissed" /\ Stopping

\* A timeout is armed by the last thing a connection leaves, and is the only one.
WhileArmed == Armed =>
    /\ Based(frames) /\ dispatch = <<>> /\ phase = "closed" /\ heartbeat = 0
    /\ told # "gone" /\ tReconnect + tRestart = 1

\* A connection past its handshake has its heartbeat, or is about to be stopped.
Beating == phase = "open" /\ shake \in {"identified", "resuming", "ready"}
               => heartbeat = sock \/ Stopping

\* Once the end is announced nothing of the connection is left and nothing replaces it.
WhileGone == told = "gone" =>
    phase = "closed" /\ heartbeat = 0 /\ dispatch = <<>> /\ Based(frames) /\ ~Armed

\* There is one session at a time: at any moment at most one thing -- a handler on the stack, a
\* timeout, nothing -- is going to replace the connection, and none before all that the
\* old one left in the pipe has been handled.
Orderly ==
    /\ Nesting /\ Unstarted /\ LastWord /\ Early /\ Waiting /\ OwnBeat /\ MessagesInOrder
    /\ WhileClosing /\ WhileRenewing /\ WhileArmed /\ WhileGone /\ Beating

----------------------------------------------------------------------------
(* Lemmas on the pipe and the stack *)

\* An empty pipe means empty queues.
LEMMA SilentPipe == ASSUME IInv, dispatch = <<>> PROVE msgQueue = <<>> /\ genericQueue = <<>>
<1>1. Count(dispatch, "msg") = 0 /\ Count(dispatch, "generic") = 0
  BY CountEmpty
<1>2. Len(msgQueue) = 0 /\ Len(genericQueue) = 0
  BY <1>1 DEF IInv, QueuesMatch
<1> QED
  BY <1>2 DEF IInv, TypeOK, QueueTypeOK

\* The places of a sequence after an append.
LEMMA AppendAt ==
    ASSUME NEW S, NEW q \in Seq(S), NEW e \in S
    PROVE  /\ DOMAIN q = 1..Len(q) /\ Len(q) \in Nat /\ Len(Append(q, e)) = Len(q) + 1
           /\ DOMAIN Append(q, e) = 1..(Len(q) + 1)
           /\ \A i \in 1..(Len(q) + 1) :
                  Append(q, e)[i] = IF i = Len(q) + 1 THEN e ELSE q[i]
<1>1. /\ Append(q, e) \in Seq(S) /\ Len(Append(q, e)) = Len(q) + 1 /\ Len(q) \in Nat
      /\ \A i \in 1..Len(q) : Append(q, e)[i] = q[i]
      /\ Append(q, e)[Len(q) + 1] = e
  BY AppendProperties
<1>2. DOMAIN q = 1..Len(q) /\ DOMAIN Append(q, e) = 1..Len(Append(q, e))
  BY <1>1
<1> QED
  BY <1>1, <1>2

\* The places of a sequence after its head is taken.
LEMMA TailAt ==
    ASSUME NEW S, NEW q \in Seq(S), q # <<>>
    PROVE  /\ DOMAIN q = 1..Len(q) /\ Len(q) \in Nat \ {0} /\ Len(Tail(q)) = Len(q) - 1
           /\ DOMAIN Tail(q) = 1..(Len(q) - 1) /\ Head(q) = q[1]
           /\ \A i \in 1..(Len(q) - 1) : Tail(q)[i] = q[i + 1]
           /\ Len(q) = 1 => Tail(q) = <<>>
<1>1. /\ Tail(q) \in Seq(S) /\ Len(Tail(q)) = Len(q) - 1 /\ Len(q) \in Nat
      /\ \A i \in 1..Len(Tail(q)) : Tail(q)[i] = q[i + 1]
  BY HeadTailProperties
<1>2. DOMAIN q = 1..Len(q) /\ DOMAIN Tail(q) = 1..Len(Tail(q)) /\ Head(q) = q[1] /\ Len(q) # 0
  BY <1>1
<1>3. Len(Tail(q)) = 0 => Tail(q) = <<>>
  BY <1>1, EmptySeq
<1> QED
  BY <1>1, <1>2, <1>3

\* A handler that calls Stop is the innermost.
LEMMA Called ==
    ASSUME IInv, NEW fn \in Handler, NEW code \in CloseCode, CallStop(fn, code)
    PROVE  /\ frames' # <<>> /\ Tail(frames') = frames
           /\ Head(frames').fn = fn /\ Head(frames').pc = "stopping"
<1>1. frames \in Seq(Frame) /\ [fn |-> fn, pc |-> "stopping", code |-> code] \in Frame
  BY DEF IInv, TypeOK, QueueTypeOK, Frame
<1>2. frames' = <<[fn |-> fn, pc |-> "stopping", code |-> code]>> \o frames
  BY DEF CallStop
<1> QED
  BY <1>1, <1>2

\* Joining the socket's thread changes only the innermost handler's state.
LEMMA Joined ==
    ASSUME IInv, SocketJoined
    PROVE  /\ frames # <<>> /\ frames' # <<>> /\ Tail(frames') = Tail(frames)
           /\ Head(frames').fn = Head(frames).fn /\ Head(frames').pc = "pumping"
<1> DEFINE e == [frames[1] EXCEPT !.pc = "pumping"]
<1>1. frames \in Seq(Frame) /\ frames # <<>> /\ frames' = [frames EXCEPT ![1] = e]
  BY DEF IInv, TypeOK, QueueTypeOK, SocketJoined, Stopping
<1>2. frames[1] \in Frame /\ Len(frames) \in Nat \ {0} /\ Head(frames) = frames[1]
  BY <1>1
<1>3. e \in Frame /\ e.fn = frames[1].fn /\ e.pc = "pumping"
  BY <1>2 DEF Frame
<1> HIDE DEF e
<1>4. frames' \in Seq(Frame) /\ Len(frames') = Len(frames) /\ frames'[1] = e
      /\ \A i \in 1..Len(frames) : i # 1 => frames'[i] = frames[i]
  BY <1>1, <1>2, <1>3, ExceptSeq
<1>5. frames' # <<>> /\ Head(frames') = e
  BY <1>2, <1>4
<1>6. /\ Tail(frames') \in Seq(Frame) /\ Tail(frames) \in Seq(Frame)
      /\ Len(Tail(frames')) = Len(Tail(frames))
      /\ \A i \in 1..Len(Tail(frames)) : Tail(frames')[i] = Tail(frames)[i]
  BY <1>1, <1>2, <1>4, <1>5
<1>7. Tail(frames') = Tail(frames)
  BY <1>6, SeqEqual
<1> QED
  BY <1>1, <1>2, <1>3, <1>5, <1>7

\* The three shapes of the stack exclude one another.
LEMMA Unbased ==
  ASSUME Nesting
  PROVE /\ Closes(frames) => ~Based(frames) /\ ~Renews(frames)
        /\ Renews(frames) => ~Based(frames) /\ ~Closes(frames)
        /\ Renewing => ~Based(frames)
  BY DEF Nesting, Closes, Renews, Based, Renewing

----------------------------------------------------------------------------
(* Every step keeps the order *)

\* The steps of the socket's thread keep the order.
LEMMA SocketOrder ==
    ASSUME IInv, Orderly, Socket
    PROVE  Orderly'
<1>0. /\ dispatch \in Seq(Notice) /\ msgQueue \in Seq(Message) /\ phase \in Phase /\ sock \in Nat
      /\ shake \in Shake /\ heartbeat \in Nat
  BY DEF IInv, TypeOK, ClientTypeOK, QueueTypeOK, SocketTypeOK
<1>0a. dispatch = <<>> => msgQueue = <<>>
  BY SilentPipe
<1>1. CASE SocketOpens
  <2>1. dispatch = <<>> /\ msgQueue = <<>> /\ msgQueue' = <<>> /\ dispatch' = <<"open">>
    BY <1>0a, <1>1 DEF SocketOpens, Orderly, Early, queues
  <2>2. LastWord' /\ MessagesInOrder'
    BY <2>1 DEF LastWord, MessagesInOrder
  <2>3. Early' /\ Waiting' /\ OwnBeat' /\ Nesting' /\ Unstarted'
    BY <1>1, <2>1 DEF SocketOpens, Orderly, Nesting, Unstarted, LastWord, Early, Waiting,
                      OwnBeat, MessagesInOrder,
            WhileClosing, WhileRenewing, WhileArmed, WhileGone, Beating, Armed, Renewing, Stopping,
            client, socket, inflate, queues, timers, ghosts
  <2>4. WhileClosing' /\ WhileRenewing' /\ WhileArmed' /\ WhileGone' /\ Beating'
    BY <1>1, <2>1, Unbased DEF SocketOpens, Orderly, Nesting, Unstarted, LastWord, Early,
                               Waiting, OwnBeat, MessagesInOrder,
            WhileClosing, WhileRenewing, WhileArmed, WhileGone, Beating, Armed, Renewing, Stopping,
            client, socket, inflate, queues, timers, ghosts
  <2> QED
    BY <2>2, <2>3, <2>4 DEF Orderly
<1>2. CASE SocketFails
    BY <1>0, <1>0a, <1>2 DEF SocketFails, Orderly, Nesting, Unstarted, LastWord, Early,
                             Waiting, OwnBeat, MessagesInOrder,
            WhileClosing, WhileRenewing, WhileArmed, WhileGone, Beating, Armed, Renewing, Stopping,
            client, socket, inflate, queues, timers, ghosts
<1>3. CASE SocketCloses \/ SocketClosesLocally
  <2>1. /\ phase = "open" /\ phase' = "closed" /\ dispatch' = Append(dispatch, "close")
        /\ UNCHANGED <<client, heartbeat, sock, shake, inflate, msgQueue, genericQueue,
                   timers, frames, login, logins, crashed>>
    BY <1>3 DEF SocketCloses, SocketClosesLocally, client, socket, inflate, queues, timers,
                ghosts
  <2>2. LastWord'
    <3>1. /\ DOMAIN dispatch = 1..Len(dispatch) /\ Len(dispatch) \in Nat
          /\ DOMAIN dispatch' = 1..(Len(dispatch) + 1) /\ Len(dispatch') = Len(dispatch) + 1
          /\ \A i \in 1..(Len(dispatch) + 1) :
                dispatch'[i] = IF i = Len(dispatch) + 1 THEN "close" ELSE dispatch[i]
      BY <1>0, <2>1, AppendAt DEF Notice
    <3> QED
      BY <2>1, <3>1 DEF Orderly, LastWord
  <2>3. /\ WhileArmed' /\ WhileGone' /\ WhileClosing' /\ WhileRenewing' /\ Early'
    BY <1>0, <2>1 DEF Orderly, Nesting, Unstarted, LastWord, Early, Waiting, OwnBeat,
                      MessagesInOrder,
            WhileClosing, WhileRenewing, WhileArmed, WhileGone, Beating, Armed, Renewing, Stopping,
            client, socket, inflate, queues, timers, ghosts
  <2>4. Waiting' /\ OwnBeat' /\ Nesting' /\ Unstarted' /\ Beating' /\ MessagesInOrder'
    BY <1>0, <2>1 DEF Orderly, Nesting, Unstarted, LastWord, Early, Waiting, OwnBeat,
                      MessagesInOrder,
            WhileClosing, WhileRenewing, WhileArmed, WhileGone, Beating, Armed, Renewing, Stopping,
            client, socket, inflate, queues, timers, ghosts
  <2> QED
    BY <2>2, <2>3, <2>4 DEF Orderly
<1>5. CASE SocketJoined
  <2>1. /\ phase \in {"none", "closed"} /\ Stopping
        /\ UNCHANGED <<client, heartbeat, socket, inflate, queues, timers, ghosts>>
    BY <1>5 DEF SocketJoined
  <2>2. /\ Based(frames') = Based(frames) /\ Renews(frames') = Renews(frames)
        /\ Closes(frames') = Closes(frames) /\ Tail(frames') = Tail(frames)
    BY <1>5, Joined DEF Based, Renews, Closes
  <2> QED
    BY <1>0, <2>1, <2>2 DEF Orderly, Nesting, Unstarted, LastWord, Early, Waiting, OwnBeat,
                            MessagesInOrder,
            WhileClosing, WhileRenewing, WhileArmed, WhileGone, Beating, Armed, Renewing, Stopping,
            client, socket, inflate, queues, timers, ghosts
<1>6. CASE SocketReceivesPart
    BY <1>0, <1>6 DEF SocketReceivesPart, Orderly, Nesting, Unstarted, LastWord, Early,
                      Waiting, OwnBeat, MessagesInOrder,
            WhileClosing, WhileRenewing, WhileArmed, WhileGone, Beating, Armed, Renewing, Stopping,
            client, socket, inflate, queues, timers, ghosts
<1>7. ASSUME NEW op \in Op, SocketReceives(op)
      PROVE  Orderly'
  <2>1. /\ phase = "open"
        /\ UNCHANGED <<client, heartbeat, sock, phase, closeInfo, genericQueue, timers,
                   frames, login, logins, crashed>>
    BY <1>7 DEF SocketReceives, client, timers
  <2>2. /\ shake' # "wait"
        /\ op = "Hello" => shake = "wait"
        /\ op \in {"Reconnect", "InvalidSession"}
               => shake \notin {"wait", "dismissed"} /\ shake' = "dismissed"
        /\ op \in {"Hello", "Ready"} => shake # "dismissed"
        /\ shake = "dismissed" => shake' = "dismissed"
        /\ shake' \in {"identified", "resuming", "ready"} => shake \in {"identified", "resuming", "ready"}
    <3>1. ServerSends(op)
      BY <1>7 DEF SocketReceives
    <3>2. CASE op = "Hello"
      BY <3>1, <3>2 DEF ServerSends
    <3>3. CASE op = "Ready"
      BY <3>1, <3>3 DEF ServerSends
    <3>4. CASE op = "Event"
      BY <3>1, <3>4 DEF ServerSends
    <3>6. CASE op \in {"Reconnect", "InvalidSession"}
      BY <3>1, <3>6 DEF ServerSends
    <3> QED
      BY <3>2, <3>3, <3>4, <3>6 DEF Op
  <2>3. \/ dispatch' = dispatch /\ msgQueue' = msgQueue
        \/ dispatch' = Append(dispatch, "msg")
           /\ msgQueue' = Append(msgQueue, [op |-> op, conn |-> sock])
    BY <1>7 DEF SocketReceives
  <2>a. "msg" \in Notice /\ [op |-> op, conn |-> sock] \in Message
    BY <2>1, GatewayAssumption DEF Notice, Message, IInv, TypeOK, SocketTypeOK,
                                   SocketNumbered
  <2>4. LastWord'
    <3>1. CASE dispatch' = dispatch
      BY <2>1, <3>1 DEF Orderly, LastWord
    <3>2. CASE dispatch' = Append(dispatch, "msg")
      <4>1. /\ DOMAIN dispatch = 1..Len(dispatch) /\ Len(dispatch) \in Nat
            /\ DOMAIN dispatch' = 1..(Len(dispatch) + 1)
            /\ \A i \in 1..(Len(dispatch) + 1) :
                  dispatch'[i] = IF i = Len(dispatch) + 1 THEN "msg" ELSE dispatch[i]
        BY <1>0, <2>a, <3>2, AppendAt
      <4>2. \A i \in 1..Len(dispatch) : dispatch[i] \notin {"close", "generic"}
        BY <2>1, <4>1 DEF Orderly, LastWord
      <4>3. \A i \in 1..(Len(dispatch) + 1) : dispatch'[i] \notin {"close", "generic"}
        BY <4>1, <4>2
      <4> QED
        BY <4>1, <4>3 DEF LastWord
    <3> QED
      BY <2>3, <3>1, <3>2
  <2>5. MessagesInOrder'
    <3>1. CASE msgQueue' = msgQueue
      BY <2>1, <2>2, <3>1 DEF Orderly, MessagesInOrder
    <3>2. CASE msgQueue' = Append(msgQueue, [op |-> op, conn |-> sock])
      <4>1. /\ DOMAIN msgQueue = 1..Len(msgQueue) /\ Len(msgQueue) \in Nat
            /\ DOMAIN msgQueue' = 1..(Len(msgQueue) + 1)
            /\ \A i \in 1..(Len(msgQueue) + 1) :
                  msgQueue'[i] = IF i = Len(msgQueue) + 1 THEN [op |-> op, conn |-> sock]
                                                         ELSE msgQueue[i]
        BY <1>0, <2>a, <3>2, AppendAt
      <4>3. op \notin {"Hello", "Reconnect", "InvalidSession"} => op = "Event" \/ shake # "dismissed"
        BY <2>2 DEF Op
      <4>4. op = "Hello" => msgQueue = <<>> /\ heartbeat = 0
        BY <2>2 DEF Orderly, Waiting
      <4> QED
        BY <2>1, <2>2, <4>1, <4>3, <4>4 DEF Orderly, MessagesInOrder
    <3> QED
      BY <2>3, <3>1, <3>2
  <2>6. \A i \in DOMAIN msgQueue' :
            \/ msgQueue'[i] = [op |-> op, conn |-> sock]
            \/ i \in DOMAIN msgQueue /\ msgQueue'[i] = msgQueue[i]
    <3>1. CASE msgQueue' = Append(msgQueue, [op |-> op, conn |-> sock])
      <4>1. /\ DOMAIN msgQueue = 1..Len(msgQueue) /\ Len(msgQueue) \in Nat
            /\ DOMAIN msgQueue' = 1..(Len(msgQueue) + 1)
            /\ \A i \in 1..(Len(msgQueue) + 1) :
                  msgQueue'[i] = IF i = Len(msgQueue) + 1 THEN [op |-> op, conn |-> sock]
                                                         ELSE msgQueue[i]
        BY <1>0, <2>a, <3>1, AppendAt
      <4> QED
        BY <4>1
    <3> QED
      BY <2>3, <3>1
  <2>7. WhileRenewing'
    BY <2>1, <2>2, <2>6 DEF Op, Orderly, WhileRenewing, Renewing, Stopping, Armed, client,
                            timers
  <2> QED
    BY <1>0, <2>1, <2>2, <2>4, <2>5, <2>7 DEF Orderly, Nesting, Unstarted, LastWord, Early,
                                              Waiting, OwnBeat, MessagesInOrder,
            WhileClosing, WhileRenewing, WhileArmed, WhileGone, Beating, Armed, Renewing, Stopping,
            client, socket, inflate, queues, timers, ghosts
<1> QED
  BY <1>1, <1>2, <1>3, <1>5, <1>6, <1>7 DEF Socket

\* A connection begun when the last is over and silent keeps it.
LEMMA Begun ==
    ASSUME IInv, Orderly, NEW z, NEW buf, StartConnection(z, buf),
           phase # "open", dispatch = <<>>, heartbeat = 0, heartbeat' = 0,
           msgQueue' = msgQueue, Based(frames'), ~Armed', told' # "gone", logins' # 0
    PROVE  Orderly'
<1>1. /\ sock' = sock + 1 /\ phase' = "connecting" /\ shake' = "wait" /\ dispatch' = <<>>
      /\ msgQueue' = <<>>
  BY SilentPipe DEF StartConnection
<1>2. ~Renews(frames') /\ ~Closes(frames')
  BY DEF Based, Renews, Closes
<1> QED
  BY <1>1, <1>2 DEF Orderly, Nesting, Unstarted, LastWord, Early, Waiting, OwnBeat,
                    MessagesInOrder, WhileClosing, WhileRenewing, WhileArmed, WhileGone,
                    Beating, Renewing

\* So do the user's actions, of which one login and none inside a Stop.
LEMMA UserOrder ==
    ASSUME IInv, Orderly, User, MaxLogins = 1, ~UserInPump
    PROVE  Orderly'
<1>1. CASE Start
  <2>1. /\ frames = <<>> /\ logins = 0 /\ frames' = frames /\ logins' = 1 /\ started' = TRUE
        /\ told' = "nothing"
        /\ UNCHANGED <<heartbeat, msgQueue, tReconnect, tRestart>>
    BY <1>1 DEF Start, IInv, TypeOK, GhostTypeOK, timers
  <2>2. phase = "none" /\ tReconnect = 0 /\ tRestart = 0
    BY <2>1 DEF Orderly, Unstarted
  <2>3. dispatch = <<>> /\ heartbeat = 0
    BY <2>2 DEF Orderly, Early, Waiting
  <2>4. Based(frames') /\ ~Armed'
    BY <2>1, <2>2 DEF Based, Armed
  <2>5. StartConnection("fresh", compressed)
    BY <1>1 DEF Start
  <2> QED
    BY <2>1, <2>2, <2>3, <2>4, <2>5, Begun
<1>2. CASE Stop
  <2>1. /\ frames = <<>> /\ started /\ heartbeat' = 0 /\ CallStop("Stop", "normal")
        /\ UNCHANGED <<started, wantsResume, session, told, socket, queues, timers, ghosts>>
    BY <1>2 DEF Stop, KillHeartbeat
  <2>2. /\ frames' # <<>> /\ Tail(frames') = frames
        /\ Head(frames').fn = "Stop" /\ Head(frames').pc = "stopping"
    BY <2>1, Called DEF Handler, CloseCode
  <2>3. /\ Based(frames') /\ ~Renews(frames') /\ ~Closes(frames')
        /\ Based(frames) /\ ~Renews(frames) /\ ~Closes(frames)
    BY <2>1, <2>2 DEF Based, Renews, Closes
  <2>5. OwnBeat' /\ MessagesInOrder' /\ Waiting' /\ LastWord' /\ Unstarted'
    BY <2>1 DEF Orderly, OwnBeat, MessagesInOrder, Waiting, LastWord, Unstarted, socket,
                queues, timers, ghosts
  <2>6. Nesting' /\ Early' /\ WhileClosing' /\ WhileRenewing' /\ WhileArmed' /\ WhileGone'
    BY <2>1, <2>3 DEF Orderly, Nesting, Early, WhileClosing, WhileRenewing, WhileArmed,
            WhileGone, Renewing, Armed, socket, queues, timers, ghosts
  <2>7. Beating'
    BY <2>2 DEF Beating, Stopping
  <2> QED
    BY <2>5, <2>6, <2>7 DEF Orderly
<1> QED
  BY <1>1, <1>2 DEF User

\* What taking a notification tells of the rest: it comes from a connection that is not
\* being closed, with no timeout armed, and a close leaves the pipe empty.
LEMMA Noticed ==
    ASSUME IInv, Orderly, NEW kind, Notified(kind)
    PROVE  /\ dispatch # <<>> /\ ~Closes(frames) /\ ~Armed /\ told # "gone"
           /\ phase \in {"open", "closed"}
           /\ kind \in {"close", "generic"} => phase = "closed" /\ dispatch' = <<>>
           /\ phase' = phase => LastWord'
           /\ frames # <<>> => Head(frames).pc = "pumping"
<1>1. /\ dispatch # <<>> /\ dispatch \in Seq(Notice) /\ Head(dispatch) = kind
      /\ dispatch' = Tail(dispatch) /\ phase \in Phase
  BY DEF Notified, IInv, TypeOK, QueueTypeOK, SocketTypeOK
<1>2. /\ DOMAIN dispatch = 1..Len(dispatch) /\ Len(dispatch) \in Nat \ {0}
      /\ Len(dispatch') = Len(dispatch) - 1
      /\ DOMAIN dispatch' = 1..(Len(dispatch) - 1) /\ Head(dispatch) = dispatch[1]
      /\ \A i \in 1..(Len(dispatch) - 1) : dispatch'[i] = dispatch[i + 1]
      /\ Len(dispatch) = 1 => dispatch' = <<>>
  BY <1>1, TailAt
<1>3. LastWord
  BY DEF Orderly
<1>4. kind \in {"close", "generic"} => phase = "closed" /\ dispatch' = <<>>
  BY <1>1, <1>2, <1>3 DEF LastWord
<1>5. ASSUME phase' = phase PROVE LastWord'
  <2> SUFFICES ASSUME NEW i \in DOMAIN dispatch', dispatch'[i] \in {"close", "generic"}
               PROVE  i = Len(dispatch') /\ phase' = "closed"
    BY DEF LastWord
  <2>1. i \in 1..(Len(dispatch) - 1) /\ i + 1 \in DOMAIN dispatch /\ dispatch'[i] = dispatch[i + 1]
    BY <1>2
  <2>2. i + 1 = Len(dispatch) /\ phase = "closed"
    BY <1>3, <2>1 DEF LastWord
  <2> QED
    BY <1>2, <1>5, <2>1, <2>2
<1>6. ~Closes(frames) /\ ~Armed /\ told # "gone" /\ phase \in {"open", "closed"}
  BY <1>1 DEF Orderly, WhileClosing, WhileArmed, WhileGone, Early, Phase
<1>7. frames # <<>> => Head(frames).pc = "pumping"
  BY DEF Notified, MainReady
<1> QED
  BY <1>1, <1>4, <1>5, <1>6, <1>7

\* What taking a message tells: it is of this connection, a HELLO finds no heartbeat, only
\* an event is handled inside a Stop, and what remains is still in order.
LEMMA Taken ==
    ASSUME IInv, Orderly, NEW op \in Op, MessageDispatch(op)
    PROVE  /\ dispatch # <<>> /\ ~Closes(frames) /\ ~Armed /\ told # "gone"
           /\ phase \in {"open", "closed"} /\ shake # "wait"
           /\ phase' = phase => LastWord'
           /\ frames # <<>> => Head(frames).pc = "pumping"
           /\ Head(msgQueue).op = op /\ Head(msgQueue).conn = sock
           /\ op = "Hello" => heartbeat = 0
           /\ op # "Event" => Based(frames)
           /\ op \in {"Reconnect", "InvalidSession"} =>
                  shake = "dismissed" /\ \A i \in DOMAIN msgQueue' : msgQueue'[i].op = "Event"
           /\ \A i \in DOMAIN msgQueue' :
                  /\ msgQueue'[i].conn = sock /\ msgQueue'[i].op # "Hello"
                  /\ msgQueue'[i].op \in {"Reconnect", "InvalidSession"} =>
                        /\ shake = "dismissed"
                        /\ \A j \in DOMAIN msgQueue' : j > i => msgQueue'[j].op = "Event"
           /\ Renewing => \A i \in DOMAIN msgQueue' : msgQueue'[i].op = "Event"
<1>1. Notified("msg") /\ msgQueue' = Tail(msgQueue) /\ Head(msgQueue).op = op
  BY DEF MessageDispatch
<1>2. msgQueue # <<>> /\ msgQueue \in Seq(Message)
  BY <1>1, FrontExists DEF Notified, IInv, TypeOK, QueueTypeOK
<1>3. /\ DOMAIN msgQueue = 1..Len(msgQueue) /\ Len(msgQueue) \in Nat \ {0}
      /\ DOMAIN msgQueue' = 1..(Len(msgQueue) - 1) /\ Head(msgQueue) = msgQueue[1]
      /\ \A i \in 1..(Len(msgQueue) - 1) : msgQueue'[i] = msgQueue[i + 1]
  BY <1>1, <1>2, TailAt
<1>4. 1 \in DOMAIN msgQueue /\ \A i \in DOMAIN msgQueue' : i + 1 \in DOMAIN msgQueue
      /\ i + 1 > 1 /\ msgQueue'[i] = msgQueue[i + 1] /\ i \in Nat
  BY <1>3
<1>5. MessagesInOrder
  BY DEF Orderly
<1>6. /\ Head(msgQueue).conn = sock /\ (op = "Hello" => heartbeat = 0)
      /\ op \in {"Reconnect", "InvalidSession"} =>
                  shake = "dismissed" /\ \A i \in DOMAIN msgQueue' : msgQueue'[i].op = "Event"
  BY <1>1, <1>3, <1>4, <1>5 DEF MessagesInOrder
<1>7. ASSUME NEW i \in DOMAIN msgQueue'
      PROVE  /\ msgQueue'[i].conn = sock /\ msgQueue'[i].op # "Hello"
             /\ msgQueue'[i].op \in {"Reconnect", "InvalidSession"} =>
                        /\ shake = "dismissed"
                        /\ \A j \in DOMAIN msgQueue' : j > i => msgQueue'[j].op = "Event"
  <2>1. i + 1 \in DOMAIN msgQueue /\ i \in Nat /\ i + 1 # 1 /\ msgQueue'[i] = msgQueue[i + 1]
    BY <1>4
  <2>2. msgQueue'[i].conn = sock /\ msgQueue'[i].op # "Hello"
    BY <1>5, <2>1 DEF MessagesInOrder
  <2>3. ASSUME msgQueue'[i].op \in {"Reconnect", "InvalidSession"}
        PROVE  /\ shake = "dismissed"
               /\ \A j \in DOMAIN msgQueue' : j > i => msgQueue'[j].op = "Event"
    <3>1. shake = "dismissed" /\ \A k \in DOMAIN msgQueue : k > i + 1 => msgQueue[k].op = "Event"
      BY <1>5, <2>1, <2>3 DEF MessagesInOrder
    <3>2. ASSUME NEW j \in DOMAIN msgQueue', j > i PROVE msgQueue'[j].op = "Event"
      <4>1. j + 1 \in DOMAIN msgQueue /\ j \in Nat /\ msgQueue'[j] = msgQueue[j + 1]
        BY <1>4
      <4>2. j + 1 > i + 1
        BY <2>1, <3>2, <4>1
      <4> QED
        BY <3>1, <4>1, <4>2
    <3> QED
      BY <3>1, <3>2
  <2> QED
    BY <2>2, <2>3
<1>8. Renewing => \A i \in DOMAIN msgQueue : msgQueue[i].op = "Event"
  BY DEF Orderly, WhileRenewing
<1>9. Renewing => \A i \in DOMAIN msgQueue' : msgQueue'[i].op = "Event"
  BY <1>4, <1>8
<1>10. /\ dispatch # <<>> /\ ~Closes(frames) /\ ~Armed /\ told # "gone"
       /\ phase \in {"open", "closed"} /\ shake # "wait"
       /\ phase' = phase => LastWord'
       /\ frames # <<>> => Head(frames).pc = "pumping"
  BY <1>1, <1>2, Noticed DEF Orderly, Waiting
<1>11. op # "Event" => Based(frames)
  BY <1>1, <1>3, <1>4, <1>8, <1>10 DEF Orderly, Nesting, Renewing
<1> QED
  BY <1>1, <1>6, <1>7, <1>9, <1>10, <1>11

\* A handler that calls Stop to replace the connection keeps the order.
LEMMA RenewalBegun ==
    ASSUME IInv, Orderly, Based(frames), ~Armed', told # "gone", UNCHANGED told, reconnecting' = TRUE,
           NEW fn \in {"Reconnect", "InvalidSession"}, NEW code \in CloseCode, CallStop(fn, code),
           heartbeat' = 0, phase \in {"open", "closed"}, phase = "open" => shake = "dismissed",
           UNCHANGED socket, UNCHANGED logins, LastWord',
           \A i \in DOMAIN msgQueue' : msgQueue'[i].op = "Event" /\ msgQueue'[i].conn = sock,
           shake # "wait" \/ msgQueue' = <<>>
    PROVE  Orderly'
<1>1. /\ frames' # <<>> /\ Tail(frames') = frames
      /\ Head(frames').fn = fn /\ Head(frames').pc = "stopping"
  BY Called DEF Handler
<1>2. Renews(frames') /\ ~Closes(frames') /\ ~Based(frames')
  BY <1>1 DEF Renews, Closes, Based
<1>3. OwnBeat' /\ MessagesInOrder' /\ Waiting' /\ Unstarted'
  <2>1. logins = 0 => phase = "none"
    BY DEF Orderly, Unstarted
  <2> QED
    BY <2>1 DEF OwnBeat, MessagesInOrder, Waiting, Unstarted, socket
<1>4. Nesting' /\ Early' /\ WhileClosing' /\ WhileRenewing' /\ WhileArmed' /\ WhileGone' /\ Beating'
  BY <1>1, <1>2 DEF Nesting, Early, WhileClosing, WhileRenewing, WhileArmed, WhileGone,
                    Beating,
                    Stopping, Renewing, socket
<1> QED
  BY <1>3, <1>4 DEF Orderly

\* The messages of the gateway keep it.
LEMMA MessageOrder ==
    ASSUME IInv, Orderly,
           \/ HandleGatewayHello \/ HandleGatewayReady \/ HandleGatewayEvent
           \/ HandleGatewayReconnect \/ HandleGatewayInvalidSession
    PROVE  Orderly'
<1>0. {"Hello", "Ready", "Event", "Reconnect", "InvalidSession"} \subseteq Op
  BY DEF Op
<1>1. CASE HandleGatewayHello
  <2>0. MessageDispatch("Hello")
    BY <1>1 DEF HandleGatewayHello
  <2>1. /\ dispatch # <<>> /\ ~Closes(frames) /\ ~Armed /\ told # "gone"
        /\ phase \in {"open", "closed"} /\ shake # "wait"
        /\ phase' = phase => LastWord'
        /\ Head(msgQueue).conn = sock /\ heartbeat = 0 /\ Based(frames)
        /\ \A i \in DOMAIN msgQueue' :
                  /\ msgQueue'[i].conn = sock /\ msgQueue'[i].op # "Hello"
                  /\ msgQueue'[i].op \in {"Reconnect", "InvalidSession"} =>
                        /\ shake = "dismissed"
                        /\ \A j \in DOMAIN msgQueue' : j > i => msgQueue'[j].op = "Event"
    BY <1>0, <2>0, Taken
  <2>2. /\ heartbeat' = sock /\ told' = "connected"
        /\ shake' # "wait" /\ (shake = "dismissed" => shake' = "dismissed")
        /\ UNCHANGED <<started, sock, phase, timers, frames, logins>>
    BY <1>1, <2>1 DEF HandleGatewayHello
  <2>3. ~Renewing /\ ~Renewing' /\ ~Armed' /\ ~Closes(frames')
    BY <2>1, <2>2, Unbased DEF Orderly, Renewing, Armed, timers
  <2> QED
    BY <2>1, <2>2, <2>3 DEF Orderly, Nesting, Unstarted, Early, Waiting, OwnBeat,
                            MessagesInOrder,
          WhileClosing, WhileRenewing, WhileArmed, WhileGone, Beating, timers
<1>2. CASE HandleGatewayReady \/ HandleGatewayEvent
  <2>0. PICK op \in {"Ready", "Event"} : MessageDispatch(op)
    BY <1>2 DEF HandleGatewayReady, HandleGatewayEvent
  <2>1. /\ dispatch # <<>> /\ ~Closes(frames) /\ ~Armed /\ told # "gone"
        /\ phase \in {"open", "closed"} /\ shake # "wait"
        /\ phase' = phase => LastWord'
        /\ \A i \in DOMAIN msgQueue' :
                  /\ msgQueue'[i].conn = sock /\ msgQueue'[i].op # "Hello"
                  /\ msgQueue'[i].op \in {"Reconnect", "InvalidSession"} =>
                        /\ shake = "dismissed"
                        /\ \A j \in DOMAIN msgQueue' : j > i => msgQueue'[j].op = "Event"
        /\ Renewing => \A i \in DOMAIN msgQueue' : msgQueue'[i].op = "Event"
    BY <1>0, <2>0, Taken
  <2>2. UNCHANGED <<started, reconnecting, told, heartbeat, socket, timers, frames, logins>>
    BY <1>2 DEF HandleGatewayReady, HandleGatewayEvent, client, ghosts
  <2>3. /\ MessagesInOrder' /\ LastWord' /\ Waiting' /\ OwnBeat' /\ Unstarted'
        /\ Nesting'
    BY <2>1, <2>2 DEF Orderly, MessagesInOrder, Waiting, OwnBeat, Unstarted, Nesting,
                      socket, timers
  <2> QED
    BY <2>1, <2>2, <2>3 DEF Orderly, Early, Renewing, Armed, Stopping,
          WhileClosing, WhileRenewing, WhileArmed, WhileGone, Beating, timers, socket
<1>3. CASE HandleGatewayReconnect
  <2>0. /\ MessageDispatch("Reconnect") /\ heartbeat' = 0 /\ reconnecting' = TRUE
        /\ CallStop("Reconnect", "restart") /\ "restart" \in CloseCode
        /\ UNCHANGED <<started, told, socket, timers, logins>>
    BY <1>3 DEF HandleGatewayReconnect, BeginReconnect, KillHeartbeat, ghosts, CloseCode
  <2>1. /\ ~Armed /\ told # "gone" /\ phase \in {"open", "closed"} /\ shake = "dismissed"
        /\ phase' = phase => LastWord'
        /\ Based(frames)
        /\ \A i \in DOMAIN msgQueue' : msgQueue'[i].op = "Event" /\ msgQueue'[i].conn = sock
    BY <1>0, <2>0, Taken
  <2>2. ~Armed' /\ LastWord'
    BY <2>0, <2>1 DEF Armed, timers, socket
  <2> QED
    BY <2>0, <2>1, <2>2, RenewalBegun
<1>4. CASE HandleGatewayInvalidSession
  <2>0. /\ MessageDispatch("InvalidSession") /\ heartbeat' = 0 /\ reconnecting' = TRUE
        /\ CallStop("InvalidSession", "normal") /\ "normal" \in CloseCode
        /\ UNCHANGED <<started, told, socket, timers, logins>>
    BY <1>4 DEF HandleGatewayInvalidSession, KillHeartbeat, ghosts, CloseCode
  <2>1. /\ ~Armed /\ told # "gone" /\ phase \in {"open", "closed"} /\ shake = "dismissed"
        /\ phase' = phase => LastWord'
        /\ Based(frames)
        /\ \A i \in DOMAIN msgQueue' : msgQueue'[i].op = "Event" /\ msgQueue'[i].conn = sock
    BY <1>0, <2>0, Taken
  <2>2. ~Armed' /\ LastWord'
    BY <2>0, <2>1 DEF Armed, timers, socket
  <2> QED
    BY <2>0, <2>1, <2>2, RenewalBegun
<1> QED
  BY <1>1, <1>2, <1>3, <1>4

\* The open, close and generic dispatchers keep it.
LEMMA NoticeOrder ==
    ASSUME IInv, Orderly, DispatchOpen \/ DispatchClose \/ HandleSocketClose
    PROVE  Orderly'
<1>1. CASE DispatchOpen
  <2>1. /\ Notified("open")
        /\ UNCHANGED <<client, heartbeat, socket, msgQueue, timers, frames, logins>>
    BY <1>1 DEF DispatchOpen, ghosts
  <2>2. /\ dispatch # <<>> /\ ~Closes(frames) /\ ~Armed /\ told # "gone"
        /\ phase \in {"open", "closed"} /\ (phase' = phase => LastWord')
    BY <2>1, Noticed
  <2>3. /\ MessagesInOrder' /\ LastWord' /\ Waiting' /\ OwnBeat' /\ Unstarted'
        /\ Nesting'
    BY <2>1, <2>2 DEF Orderly, MessagesInOrder, Waiting, OwnBeat, Unstarted, Nesting,
                      socket, timers, client
  <2> QED
    BY <2>1, <2>2, <2>3 DEF Orderly, Early, Renewing, Armed, Stopping, client,
          WhileClosing, WhileRenewing, WhileArmed, WhileGone, Beating, timers, socket
<1>2. CASE DispatchClose
  <2>1. /\ Notified("close") /\ CallStop("Close", "normal")
        /\ UNCHANGED <<client, heartbeat, socket, msgQueue, timers, logins>>
    BY <1>2 DEF DispatchClose, ghosts
  <2>2. /\ dispatch # <<>> /\ ~Closes(frames) /\ ~Armed /\ told # "gone"
        /\ phase = "closed" /\ dispatch' = <<>>
    BY <2>1, Noticed
  <2>3. /\ frames' # <<>> /\ Tail(frames') = frames /\ Head(frames').fn = "Close"
    BY <2>1, Called DEF Handler, CloseCode
  <2>4. Closes(frames') /\ ~Renews(frames') /\ ~Based(frames') /\ Renewing' = Renewing
    BY <2>2, <2>3 DEF Orderly, Nesting, Renewing, Closes, Renews, Based
  <2>5. /\ MessagesInOrder' /\ LastWord' /\ Waiting' /\ OwnBeat' /\ Unstarted'
        /\ Nesting'
    BY <2>1, <2>2, <2>4 DEF Orderly, MessagesInOrder, LastWord, Waiting, OwnBeat, Unstarted,
                            Nesting, socket, timers, client
  <2> QED
    BY <2>1, <2>2, <2>4, <2>5 DEF Orderly, Early, Armed, Stopping, client,
          WhileClosing, WhileRenewing, WhileArmed, WhileGone, Beating, timers, socket
<1>3. CASE HandleSocketClose
  <2>1. /\ Notified("generic") /\ heartbeat' = 0
        /\ \/ /\ started /\ ~reconnecting /\ reconnecting' = TRUE
              /\ tReconnect' = tReconnect + 1
           \/ UNCHANGED <<tReconnect, reconnecting>>
        /\ told' = IF reconnecting' THEN "reconnecting" ELSE "gone"
        /\ UNCHANGED <<started, socket, msgQueue, tRestart, frames, logins>>
    BY <1>3 DEF HandleSocketClose, KillHeartbeat, ghosts
  <2>2. /\ dispatch # <<>> /\ ~Closes(frames) /\ ~Armed /\ told # "gone"
        /\ phase = "closed" /\ dispatch' = <<>>
    BY <2>1, Noticed
  <2>3. Renewing => reconnecting
    BY DEF Orderly, WhileRenewing
  <2>4. ~reconnecting => Based(frames)
    BY <2>2, <2>3 DEF Orderly, Nesting, Renewing
  <2>5. /\ MessagesInOrder' /\ LastWord' /\ Waiting' /\ OwnBeat' /\ Unstarted'
        /\ Nesting' /\ Early' /\ Beating'
    BY <2>1, <2>2, <2>4 DEF Orderly, MessagesInOrder, LastWord, Waiting, OwnBeat, Unstarted,
                            Nesting, Early, Beating, socket
  <2>6. WhileArmed' /\ WhileGone' /\ (Armed' => ~reconnecting /\ reconnecting' = TRUE)
    <3>1. tReconnect \in Nat /\ tRestart \in Nat
      BY DEF IInv, TypeOK, ClientTypeOK
    <3> QED
      BY <2>1, <2>2, <2>4, <3>1 DEF WhileArmed, WhileGone, Armed, socket
  <2>7. WhileClosing' /\ WhileRenewing'
    BY <2>1, <2>2, <2>3, <2>6, Unbased DEF Orderly, WhileClosing, WhileRenewing, Renewing,
                                           socket, Stopping
  <2> QED
    BY <2>5, <2>6, <2>7 DEF Orderly
<1> QED
  BY <1>1, <1>2, <1>3

\* The handlers that Stop returns to keep it.
LEMMA ReturnOrder ==
    ASSUME IInv, Orderly, CloseEnds \/ ReconnectEnds \/ InvalidSessionEnds \/ StopEnds
    PROVE  Orderly'
<1>1. CASE CloseEnds
  <2>1. /\ frames # <<>> /\ Head(frames).fn = "Close" /\ frames' = Tail(frames) /\ dispatch = <<>>
        /\ dispatch' = Append(dispatch, "generic")
        /\ UNCHANGED <<client, heartbeat, socket, msgQueue, timers, logins>>
    BY <1>1 DEF CloseEnds, StopReturns, ghosts
  <2>2. Closes(frames) /\ phase = "closed" /\ ~Armed
    BY <2>1 DEF Orderly, Nesting, Based, Renews, WhileClosing
  <2>3. dispatch' = <<"generic">>
    BY <2>1
  <2>4. (Based(frames') \/ Renews(frames')) /\ ~Closes(frames') /\ (Renewing' => Renewing)
    BY <2>1, <2>2 DEF Closes, Renewing, Based, Renews
  <2>5. told # "gone"
    BY <2>1, <2>2 DEF Orderly, WhileGone, Based, Closes
  <2>6. /\ MessagesInOrder' /\ LastWord' /\ Waiting' /\ OwnBeat' /\ Unstarted'
        /\ Nesting'
    BY <2>1, <2>2, <2>3, <2>4 DEF Orderly, MessagesInOrder, LastWord, Waiting, OwnBeat,
                                  Unstarted, Nesting, socket, timers, client
  <2> QED
    BY <2>1, <2>2, <2>4, <2>5, <2>6 DEF Orderly, Early, Armed, Stopping, client,
          WhileClosing, WhileRenewing, WhileArmed, WhileGone, Beating, timers, socket
<1>2. CASE ReconnectEnds \/ InvalidSessionEnds
  <2>1. /\ frames # <<>> /\ Head(frames).fn \in {"Reconnect", "InvalidSession"} /\ frames' = Tail(frames)
        /\ dispatch = <<>> /\ Head(frames).pc = "pumping"
        /\ UNCHANGED <<client, heartbeat, msgQueue, logins>>
    BY <1>2 DEF ReconnectEnds, InvalidSessionEnds, StopReturns, ghosts, queues
  <2>2. Renews(frames) /\ Renewing
    BY <2>1 DEF Orderly, Nesting, Based, Renews, Closes, Renewing
  <2>3. /\ phase = "closed" /\ heartbeat = 0 /\ ~Armed /\ told # "gone" /\ Based(frames)'
    BY <2>1, <2>2 DEF Orderly, WhileRenewing, Renews, Early, Stopping, IInv, TypeOK,
                      SocketTypeOK, Phase,
         Based
  <2>4. logins # 0
    BY <2>3 DEF Orderly, Unstarted
  <2>5. CASE ReconnectEnds
    <3>1. StartConnection("fresh", compressed) /\ UNCHANGED timers
      BY <2>5 DEF ReconnectEnds
    <3>2. ~Armed'
      BY <2>1, <2>3, <3>1 DEF Armed, timers, client
    <3> QED
      BY <2>1, <2>3, <2>4, <3>1, <3>2, Begun DEF client
  <2>6. CASE InvalidSessionEnds
    <3>1. /\ tRestart' = (IF started THEN tRestart + 1 ELSE tRestart)
          /\ UNCHANGED <<client, heartbeat, socket, queues, tReconnect, ghosts>>
      BY <2>6 DEF InvalidSessionEnds
    <3>2. ~Renews(frames') /\ ~Closes(frames') /\ ~Renewing'
      BY <2>3 DEF Based, Renews, Closes, Renewing
    <3>3. /\ MessagesInOrder' /\ LastWord' /\ Waiting' /\ OwnBeat' /\ Unstarted'
          /\ Nesting' /\ Early' /\ Beating'
      BY <2>3, <2>4, <3>1 DEF Orderly, MessagesInOrder, LastWord, Waiting, OwnBeat,
                              Unstarted, Nesting, socket, client, queues, ghosts, Early,
                              Beating
    <3>4. WhileArmed'
      <4>1. tReconnect \in Nat /\ tRestart \in Nat
        BY DEF IInv, TypeOK, ClientTypeOK
      <4> QED
        BY <2>1, <2>3, <3>1, <4>1 DEF WhileArmed, Armed, socket, client, queues
    <3>5. WhileClosing' /\ WhileRenewing' /\ WhileGone'
      BY <2>3, <3>1, <3>2 DEF WhileClosing, WhileRenewing, WhileGone, client
    <3> QED
      BY <3>3, <3>4, <3>5 DEF Orderly
  <2> QED
    BY <1>2, <2>5, <2>6
<1>4. CASE StopEnds
  <2>1. /\ frames # <<>> /\ Head(frames).fn = "Stop" /\ frames' = Tail(frames) /\ started' = FALSE
        /\ Head(frames).pc = "pumping"
        /\ UNCHANGED <<told, heartbeat, socket, queues, timers, ghosts>>
    BY <1>4 DEF StopEnds, StopReturns
  <2>2. Based(frames) /\ frames' = <<>>
    BY <2>1 DEF Orderly, Nesting, Based, Renews, Closes
  <2>3. Based(frames') /\ ~Renews(frames') /\ ~Closes(frames') /\ ~Armed' /\ ~Renewing'
    BY <2>1, <2>2 DEF Based, Renews, Closes, Armed, Renewing
  <2>4. /\ MessagesInOrder' /\ LastWord' /\ Waiting' /\ OwnBeat' /\ Unstarted'
        /\ Nesting' /\ Early' /\ Beating'
    BY <2>1, <2>3 DEF Orderly, MessagesInOrder, LastWord, Waiting, OwnBeat, Unstarted,
                      Nesting, socket, queues, ghosts, timers, Early, Beating, Stopping
  <2>5. WhileClosing' /\ WhileRenewing' /\ WhileGone' /\ WhileArmed'
      BY <2>1, <2>3 DEF Orderly, WhileClosing, WhileRenewing, WhileGone, WhileArmed, socket,
                        queues
  <2> QED
    BY <2>4, <2>5 DEF Orderly
<1> QED
  BY <1>1, <1>2, <1>4

\* Of two counters that sum to one, one step down leaves none.
LEMMA LastOfTwo ==
    ASSUME NEW a \in Nat, NEW b \in Nat, NEW c \in Nat, NEW d \in Nat,
           a + b = 1, c + d = a + b - 1
    PROVE  c = 0 /\ d = 0
  OBVIOUS

\* So do the two timeouts.
LEMMA TimeoutOrder ==
    ASSUME IInv, Orderly, TimeoutReconnect \/ TimeoutRestart
    PROVE  Orderly'
<1>0. tReconnect \in Nat /\ tRestart \in Nat
  BY DEF IInv, TypeOK, ClientTypeOK
<1>1. CASE started
  <2>1. /\ tReconnect > 0 \/ tRestart > 0
        /\ tReconnect' + tRestart' = tReconnect + tRestart - 1
        /\ tReconnect' \in Nat /\ tRestart' \in Nat /\ started' = started
    <3>1. CASE TimeoutReconnect
      BY <1>0, <1>1, <3>1 DEF TimeoutReconnect, BeginReconnect
    <3>2. CASE TimeoutRestart
      BY <1>0, <1>1, <3>2 DEF TimeoutRestart, client
    <3> QED
      BY <3>1, <3>2
  <2>2. /\ Armed /\ Based(frames) /\ dispatch = <<>> /\ phase = "closed" /\ heartbeat = 0
        /\ told # "gone" /\ tReconnect + tRestart = 1 /\ msgQueue = <<>> /\ logins # 0
    BY <1>1, <2>1, SilentPipe DEF Orderly, Armed, WhileArmed, Unstarted
  <2>3. ~Armed'
    <3>0. tReconnect + tRestart = 1
      BY <2>2
    <3>1. tReconnect' = 0 /\ tRestart' = 0
      BY <1>0, <2>1, <3>0, LastOfTwo
    <3> QED
      BY <3>1 DEF Armed
  <2>4. CASE TimeoutReconnect
    <3>1. BeginReconnect /\ UNCHANGED <<dispatch, msgQueue>>
      BY <1>1, <2>4 DEF TimeoutReconnect
    <3>2. /\ heartbeat' = 0 /\ reconnecting' = TRUE
        /\ CallStop("Reconnect", "restart") /\ "restart" \in CloseCode
        /\ UNCHANGED <<told, socket, logins>>
      BY <3>1 DEF BeginReconnect, KillHeartbeat, ghosts, CloseCode
    <3>3. LastWord'
      BY <2>2, <3>1 DEF LastWord
    <3>4. \A i \in DOMAIN msgQueue' : msgQueue'[i].op = "Event" /\ msgQueue'[i].conn = sock
      BY <2>2, <3>1
    <3> QED
      BY <2>2, <2>3, <3>1, <3>2, <3>3, <3>4, RenewalBegun
  <2>5. CASE TimeoutRestart
    <3>1. StartConnection(zstream, compressed)
          /\ UNCHANGED <<client, heartbeat, msgQueue, frames, ghosts>>
      BY <1>1, <2>5 DEF TimeoutRestart
    <3> QED
      BY <2>2, <2>3, <3>1, Begun DEF client, ghosts
  <2> QED
    BY <2>4, <2>5
<1>2. CASE ~started
  <2>1. UNCHANGED <<client, heartbeat, socket, queues, frames, ghosts>>
    <3>1. CASE TimeoutReconnect
      BY <1>2, <3>1 DEF TimeoutReconnect, queues
    <3>2. CASE TimeoutRestart
      BY <1>2, <3>2 DEF TimeoutRestart, queues, socket
    <3> QED
      BY <3>1, <3>2
  <2>2. logins # 0
    <3>1. tReconnect > 0 \/ tRestart > 0
      BY DEF TimeoutReconnect, TimeoutRestart
    <3> QED
      BY <1>0, <3>1 DEF Orderly, Unstarted
  <2>3. ~Armed' /\ ~Armed
    BY <1>2, <2>1 DEF Armed, client
  <2>4. /\ MessagesInOrder' /\ LastWord' /\ Waiting' /\ OwnBeat' /\ Unstarted'
        /\ Nesting' /\ Early' /\ Beating'
    BY <2>1, <2>2, <2>3 DEF Orderly, MessagesInOrder, LastWord, Waiting, OwnBeat, Unstarted,
                            Nesting, client, socket, queues, ghosts, Early, Beating,
                            Stopping
  <2>5. WhileClosing' /\ WhileRenewing' /\ WhileGone' /\ WhileArmed'
      BY <2>1, <2>3 DEF Orderly, WhileClosing, WhileRenewing, WhileGone, WhileArmed,
                        Renewing, client, socket, queues, Stopping
  <2> QED
    BY <2>4, <2>5 DEF Orderly
<1> QED
  BY <1>1, <1>2

\* The order holds when the program starts.
LEMMA InitOrderly == Init => Orderly
  BY DEF Init, Orderly, Nesting, Unstarted, LastWord, Early, Waiting, OwnBeat,
         MessagesInOrder,
         WhileClosing, WhileRenewing, WhileArmed, WhileGone, Beating, Based, Renews, Closes,
         Renewing, Armed

\* Every step keeps it.
LEMMA StepOrderly ==
    ASSUME MaxLogins = 1, ~UserInPump
    PROVE  IInv /\ Orderly /\ [Next]_vars => Orderly'
<1> SUFFICES ASSUME IInv, Orderly, [Next]_vars PROVE Orderly'
  OBVIOUS
<1>1. CASE User
  BY <1>1, UserOrder
<1>2. CASE Socket
  BY <1>2, SocketOrder
<1>3. CASE Main
  BY <1>3, MessageOrder, NoticeOrder, ReturnOrder, TimeoutOrder DEF Main
<1>4. CASE UNCHANGED vars
  BY <1>4 DEF Orderly, Nesting, Unstarted, LastWord, Early, Waiting, OwnBeat,
              MessagesInOrder,
         WhileClosing, WhileRenewing, WhileArmed, WhileGone, Beating, Renewing, Armed, Stopping,
         vars, client, socket, inflate, queues, timers, ghosts
<1> QED
  BY <1>1, <1>2, <1>3, <1>4 DEF Next

\* For one login of a user who waits for each handler (ActionConnect once, no click inside
\* Websocket::Stop's loop), whatever the network and the server do: there is one session at a time.
THEOREM OneSession ==
    ASSUME MaxLogins = 1, ~UserInPump
    PROVE  Spec => []Orderly
<1>1. IInv /\ Orderly /\ [Next]_vars => Orderly'
  BY StepOrderly
<1> QED
  BY <1>1, InitOrderly, Invariance, PTL DEF Spec

----------------------------------------------------------------------------
(* What follows for the session *)

\* No step terminates the program: a HELLO finds the heartbeat thread joined.
LEMMA HelloUncrashed ==
    IInv /\ Orderly /\ NoCrash /\ [Next]_vars => NoCrash'
<1> SUFFICES ASSUME IInv, Orderly, NoCrash, [Next]_vars PROVE NoCrash'
  OBVIOUS
<1>1. CASE HandleGatewayHello
  <2>1. heartbeat = 0
    BY <1>1, Taken DEF HandleGatewayHello, Op
  <2> QED
    BY <1>1, <2>1 DEF HandleGatewayHello, NoCrash
<1>2. CASE [User \/ Socket \/ Main]_vars /\ ~HandleGatewayHello
  <2>1. crashed' = crashed
    <3>1. CASE User
      BY <3>1 DEF User, Start, Stop, ghosts
    <3>2. CASE Socket
      BY <3>2 DEF Socket, SocketOpens, SocketFails, SocketCloses, SocketClosesLocally,
                  SocketJoined,
                  SocketReceivesPart, SocketReceives, ghosts
    <3>3. CASE Main
      BY <1>2, <3>3 DEF Main, DispatchOpen, DispatchClose, CloseEnds, HandleSocketClose,
                        HandleGatewayReady,
           HandleGatewayEvent, HandleGatewayReconnect, ReconnectEnds, BeginReconnect,
           HandleGatewayInvalidSession, InvalidSessionEnds, StopEnds, TimeoutReconnect, TimeoutRestart, ghosts
    <3>4. CASE UNCHANGED vars
      BY <3>4 DEF vars, ghosts
    <3> QED
      BY <1>2, <3>1, <3>2, <3>3, <3>4
  <2> QED
    BY <2>1 DEF NoCrash
<1> QED
  BY <1>1, <1>2 DEF Next

\* The assignment to m_heartbeat_thread never finds a joinable thread (HandleGatewayHello),
\* whatever closes, requests to reconnect and timeouts come in whatever order.
THEOREM NeverCrashes ==
    ASSUME MaxLogins = 1, ~UserInPump
    PROVE  Spec => []NoCrash
<1>1. Init => NoCrash
  BY DEF Init, NoCrash
<1>2. Spec => []Orderly
  BY OneSession
<1> QED
  BY <1>1, <1>2, HelloUncrashed, Invariance, PTL DEF Spec

\* A connection past its handshake keeps its heartbeat: no cleanup of an older connection
\* joins the thread of a newer one.
THEOREM SessionsBeat ==
    ASSUME MaxLogins = 1, ~UserInPump
    PROVE  Spec => []SessionBeats
<1>1. Orderly => SessionBeats
  BY DEF Orderly, Beating, SessionBeats, Stopping
<1>2. Spec => []Orderly
  BY OneSession
<1> QED
  BY <1>1, <1>2, PTL

----------------------------------------------------------------------------
(* The session is a connection *)

\* StartConnection begins a connection when the last is over.
LEMMA LinkBegun ==
    ASSUME NEW z, NEW buf, StartConnection(z, buf),
           phase \in {"none", "closed"}, heartbeat' = 0, told' # "gone"
    PROVE  Link!Begin
  BY DEF StartConnection, Link!Begin, Link!Over

\* Every step of the session is one of a connection or leaves it as it is.
LEMMA StepLink ==
    ASSUME IInv, Orderly, [Next]_vars, MaxLogins = 1, ~UserInPump
    PROVE  [Link!Next]_(Link!vars)
<1> USE DEF Link!Next, Link!vars, Link!Over, Link!Opens, Link!Ends, Link!Release, Link!Announce, Link!Serve
<1>0. phase \in Phase /\ sock \in Nat /\ heartbeat \in Nat
  BY DEF IInv, TypeOK, SocketTypeOK, ClientTypeOK
<1>1. CASE Start
  <2>1. /\ phase = "none" /\ heartbeat = 0 /\ heartbeat' = 0 /\ told' = "nothing"
        /\ StartConnection("fresh", compressed)
    BY <1>1 DEF Start, Orderly, Unstarted, Early, Waiting, IInv, TypeOK, GhostTypeOK
  <2> QED
    BY <2>1, LinkBegun
<1>2. CASE Stop
  BY <1>2 DEF Stop, KillHeartbeat, socket
<1>3. CASE SocketOpens
  BY <1>3 DEF SocketOpens, client
<1>4. CASE SocketFails \/ SocketCloses \/ SocketClosesLocally
  BY <1>4 DEF SocketFails, SocketCloses, SocketClosesLocally, client
<1>5. CASE SocketJoined \/ SocketReceivesPart \/ \E op \in Op : SocketReceives(op)
  BY <1>5 DEF SocketJoined, SocketReceivesPart, SocketReceives, client, socket
<1>6. CASE \/ DispatchOpen \/ DispatchClose \/ CloseEnds \/ HandleGatewayReady
           \/ HandleGatewayEvent \/ InvalidSessionEnds \/ StopEnds
  BY <1>6 DEF DispatchOpen, DispatchClose, CloseEnds, HandleGatewayReady,
              HandleGatewayEvent, InvalidSessionEnds, StopEnds, client, socket
<1>7. CASE HandleSocketClose
  <2>1. told # "gone" /\ phase = "closed"
    BY <1>7, Noticed DEF HandleSocketClose
  <2> QED
    BY <1>7, <2>1 DEF HandleSocketClose, KillHeartbeat, socket
<1>8. CASE HandleGatewayHello
  <2>1. /\ heartbeat = 0 /\ told # "gone" /\ Head(msgQueue).conn = sock /\ phase \in {"open", "closed"}
    BY <1>8, Taken DEF HandleGatewayHello, Op
  <2>2. sock # 0
    BY <2>1 DEF IInv, SocketNumbered
  <2> QED
    BY <1>0, <1>8, <2>1, <2>2 DEF HandleGatewayHello
<1>9. CASE HandleGatewayReconnect \/ HandleGatewayInvalidSession
  BY <1>9 DEF HandleGatewayReconnect, HandleGatewayInvalidSession, BeginReconnect,
              KillHeartbeat, socket
<1>10. CASE TimeoutReconnect
  BY <1>10 DEF TimeoutReconnect, BeginReconnect, KillHeartbeat, socket, client
<1>11. CASE ReconnectEnds
  <2>1. Renewing /\ Head(frames).pc = "pumping"
    BY <1>11 DEF ReconnectEnds, StopReturns, Orderly, Nesting, Based, Renews, Closes,
                 Renewing
  <2>2. phase = "closed" /\ heartbeat = 0 /\ told # "gone"
    BY <1>0, <2>1 DEF Orderly, WhileRenewing, Early, Stopping, Phase, Renewing, Renews,
                      Closes, Based
  <2> QED
    BY <1>11, <2>2, LinkBegun DEF ReconnectEnds, client
<1>12. CASE TimeoutRestart
  <2>1. CASE started
    <3>1. phase = "closed" /\ heartbeat = 0 /\ told # "gone"
      BY <1>12, <2>1 DEF TimeoutRestart, Orderly, WhileArmed, Armed
    <3> QED
      BY <1>12, <2>1, <3>1, LinkBegun DEF TimeoutRestart, client
  <2>2. CASE ~started
    BY <1>12, <2>2 DEF TimeoutRestart, client
  <2> QED
    BY <2>1, <2>2
<1>13. CASE UNCHANGED vars
  BY <1>13 DEF vars, client, socket
<1> QED
  BY <1>1, <1>2, <1>3, <1>4, <1>5, <1>6, <1>7, <1>8, <1>9, <1>10, <1>11, <1>12,
        <1>13 DEF Next, User, Socket, Main

\* The session implements Connection: each step of discord.cpp's handlers is a step of the
\* connection that the rest of the program is promised.
THEOREM Implements ==
    ASSUME MaxLogins = 1, ~UserInPump
    PROVE  Spec => ImplementsConnection
<1>1. Init => Link!Init
  BY DEF Init, Link!Init
<1>2. IInv /\ Orderly /\ [Next]_vars => [Link!Next]_(Link!vars)
  BY StepLink
<1>3. Spec => []Orderly
  BY OneSession
<1> QED
  BY <1>1, <1>2, <1>3, Invariance, PTL DEF Spec, ImplementsConnection, Link!Spec

----------------------------------------------------------------------------
(* The inflate state *)

\* The user's DiscordClient::Stop is not on the stack.
Unstopped(s) ==
    \/ s = <<>>
    \/ /\ s # <<>> /\ Head(s).fn # "Stop"
       /\ \/ Tail(s) = <<>>
          \/ Tail(s) # <<>> /\ Head(Tail(s)).fn # "Stop" /\ Tail(Tail(s)) = <<>>

\* The client is started and not being stopped.
Stays == started /\ Unstopped(frames)

\* HandleGatewayInvalidSession is on the stack.
Restarting == \/ frames # <<>> /\ Head(frames).fn = "InvalidSession"
              \/ frames # <<>> /\ Tail(frames) # <<>> /\ Head(Tail(frames)).fn = "InvalidSession"

\* The inflate state is in step with the connection: fresh before its first message, used
\* after it, and with no bytes of another connection in front.
InStep ==
    /\ logins = 0 => compressed = "empty"
    /\ Stays =>
         /\ compressed # "foreign"
         /\ phase = "connecting" \/ (phase = "open" /\ shake = "wait") => zstream = "fresh"
         /\ phase = "open" /\ shake # "wait" /\ ~Renewing => zstream = "used"
         /\ Renewing => compressed = "empty"
         /\ Restarting \/ tRestart > 0 => zstream = "fresh" /\ compressed = "empty"

\* A handler other than the user's stop that returns leaves that one where it was.
LEMMA FramesStay ==
    ASSUME Nesting, frames' = Tail(frames), frames # <<>>, Head(frames).fn # "Stop"
    PROVE  Unstopped(frames') <=> Unstopped(frames)
  BY DEF Unstopped, Nesting, Based, Renews, Closes

\* So does a handler that calls Stop.
LEMMA FramesGrow ==
    ASSUME Nesting, frames' # <<>>, Tail(frames') = frames, Head(frames').fn # "Stop", ~Closes(frames),
           Based(frames) \/ Head(frames').fn = "Close"
    PROVE  Unstopped(frames') <=> Unstopped(frames)
  BY DEF Unstopped, Nesting, Based, Renews, Closes

\* HandleGatewayInvalidSession is one of those that replace the connection.
LEMMA RestartRenews == ASSUME Nesting, Restarting PROVE Renewing
  BY DEF Nesting, Restarting, Renewing, Based, Renews, Closes

\* With an idle stack nothing replaces the connection.
LEMMA Rest ==
    ASSUME Based(frames') PROVE ~Renewing' /\ ~Restarting'
  BY DEF Based, Renewing, Renews, Closes, Restarting

\* The user's actions keep the inflate state in step.
LEMMA UserInStep ==
    ASSUME IInv, Orderly, InStep, User, MaxLogins = 1, ~UserInPump
    PROVE  InStep'
<1>1. CASE Start
  <2>1. /\ logins = 0 /\ frames = <<>> /\ frames' = <<>> /\ StartConnection("fresh", compressed)
        /\ tRestart' = tRestart /\ phase = "none" /\ tRestart = 0 /\ logins' = 1
    BY <1>1 DEF Start, timers, Orderly, Unstarted, IInv, TypeOK, GhostTypeOK
  <2>2. zstream' = "fresh" /\ compressed' = "empty" /\ phase' = "connecting"
    BY <2>1 DEF StartConnection, InStep
  <2>3. ~Renewing' /\ ~Restarting'
    BY <2>1, Rest DEF Based
  <2> QED
    BY <2>1, <2>2, <2>3 DEF InStep
<1>2. CASE Stop
  <2>1. CallStop("Stop", "normal") /\ compressed' = "empty"
    BY <1>2 DEF Stop
  <2>2. frames' # <<>> /\ Head(frames').fn = "Stop"
    BY <2>1, Called DEF Handler, CloseCode
  <2> QED
    BY <2>1, <2>2 DEF InStep, Stays, Unstopped
<1> QED
  BY <1>1, <1>2 DEF User

\* So does the socket's thread, when a socket that is being stopped delivers nothing more.
LEMMA SocketInStep ==
    ASSUME IInv, Orderly, InStep, Socket, ~LateFrames
    PROVE  InStep'
<1>0. Nesting /\ zstream \in {"ended", "fresh", "used", "bad"} /\ shake \in Shake
  BY DEF Orderly, IInv, TypeOK, SocketTypeOK
<1>1. CASE SocketOpens
  <2>1. phase = "connecting" /\ shake = "wait" /\ phase' = "open"
        /\ UNCHANGED <<client, shake, inflate, timers, frames, logins>>
    BY <1>1 DEF SocketOpens, Orderly, Early, ghosts
  <2> QED
    BY <2>1 DEF InStep, Stays, Renewing, Restarting, client, inflate, timers
<1>2. CASE SocketFails \/ SocketCloses \/ SocketClosesLocally
  <2>1. phase' = "closed" /\ UNCHANGED <<client, shake, inflate, timers, frames, logins>>
    BY <1>2 DEF SocketFails, SocketCloses, SocketClosesLocally, ghosts
  <2> QED
    BY <2>1 DEF InStep, Stays, Renewing, Restarting, client, inflate, timers
<1>3. CASE SocketJoined
  <2>1. UNCHANGED <<client, phase, shake, inflate, timers, logins>>
    BY <1>3 DEF SocketJoined, socket, ghosts
  <2>2. /\ frames # <<>> /\ frames' # <<>> /\ Tail(frames') = Tail(frames)
        /\ Head(frames').fn = Head(frames).fn
    BY <1>3, Joined
  <2>3. Unstopped(frames') = Unstopped(frames) /\ Renewing' = Renewing /\ Restarting' = Restarting
    BY <2>2 DEF Unstopped, Renewing, Restarting, Renews, Closes, Based
  <2> QED
    BY <2>1, <2>3 DEF InStep, Stays, client, inflate, timers
<1>4. ASSUME SocketReceivesPart \/ \E op \in Op : SocketReceives(op), Stays
      PROVE  /\ phase = "open" /\ ~Renewing /\ ~Restarting /\ ~(tRestart > 0)
             /\ UNCHANGED <<client, phase, timers, frames, logins>>
  <2>1. /\ phase = "open" /\ ~Stopping
        /\ UNCHANGED <<client, phase, timers, frames, logins>>
    BY <1>4 DEF SocketReceivesPart, SocketReceives, socket
  <2>2. ~Renewing /\ ~Armed
    BY <2>1 DEF Orderly, WhileRenewing, WhileArmed
  <2> QED
    BY <1>0, <1>4, <2>1, <2>2, RestartRenews DEF Armed, Stays
<1>5. CASE SocketReceivesPart
  <2>1. /\ compressed' = "own" /\ UNCHANGED <<client, phase, shake, zstream, timers, frames, logins>>
        /\ phase = "open"
    BY <1>5 DEF SocketReceivesPart, socket
  <2>2. logins # 0
    BY <2>1 DEF Orderly, Unstarted
  <2> QED
    BY <1>4, <1>5, <2>1, <2>2 DEF InStep, Stays, Renewing, Restarting, client, timers
<1>6. ASSUME NEW op \in Op, SocketReceives(op)
      PROVE  InStep'
  <2>1. /\ compressed' = "empty" /\ UNCHANGED <<client, phase, timers, frames, logins>>
    BY <1>6 DEF SocketReceives
  <2>2. shake' # "wait"
    <3>1. ServerSends(op)
      BY <1>6 DEF SocketReceives
    <3> QED
      BY <3>1 DEF ServerSends, Op
  <2>3. Stays => zstream' = "used"
    BY <1>4, <1>6 DEF SocketReceives, Inflates, InStep
  <2> QED
    BY <1>4, <1>6, <2>1, <2>2, <2>3 DEF InStep, Stays, Renewing, Restarting, client, timers
<1> QED
  BY <1>1, <1>2, <1>3, <1>5, <1>6 DEF Socket

\* So do the messages of the gateway.
LEMMA MessageInStep ==
    ASSUME IInv, Orderly, InStep,
           \/ HandleGatewayHello \/ HandleGatewayReady \/ HandleGatewayEvent
           \/ HandleGatewayReconnect \/ HandleGatewayInvalidSession
    PROVE  InStep'
<1>0. Nesting /\ {"Hello", "Ready", "Event", "Reconnect", "InvalidSession"} \subseteq Op
  BY DEF Orderly, Op
<1>1. CASE HandleGatewayHello
  <2>1. shake # "wait" /\ MessageDispatch("Hello")
    BY <1>0, <1>1, Taken DEF HandleGatewayHello
  <2>2. shake' # "wait" /\ UNCHANGED <<started, phase, inflate, timers, frames, logins>>
    BY <1>1, <2>1 DEF HandleGatewayHello, client
  <2> QED
    BY <2>1, <2>2 DEF InStep, Stays, Renewing, Restarting, inflate, timers
<1>2. CASE HandleGatewayReady \/ HandleGatewayEvent
  <2>1. UNCHANGED <<started, socket, inflate, timers, frames, logins>>
    BY <1>2 DEF HandleGatewayReady, HandleGatewayEvent, client, ghosts
  <2> QED
    BY <2>1 DEF InStep, Stays, Renewing, Restarting, inflate, timers, socket
<1>3. CASE HandleGatewayReconnect \/ HandleGatewayInvalidSession
  <2>1. PICK fn \in {"Reconnect", "InvalidSession"} :
           /\ MessageDispatch(fn) /\ CallStop(fn, IF fn = "Reconnect" THEN "restart" ELSE "normal")
           /\ fn = "InvalidSession" => zstream' = "fresh"
    BY <1>3 DEF HandleGatewayReconnect, HandleGatewayInvalidSession, BeginReconnect
  <2>2. /\ UNCHANGED <<started, socket, timers, logins>> /\ compressed' = "empty"
    BY <1>3 DEF HandleGatewayReconnect, HandleGatewayInvalidSession, BeginReconnect, ghosts
  <2>3. /\ frames' # <<>> /\ Tail(frames') = frames /\ Head(frames').fn = fn
    BY <2>1, Called DEF Handler, CloseCode
  <2>4. ~Armed /\ phase \in {"open", "closed"} /\ Based(frames) /\ shake # "wait"
    BY <1>0, <2>1, Taken
  <2>5. Renewing' /\ (Restarting' => fn = "InvalidSession")
    BY <2>3, <2>4 DEF Based, Renewing, Renews, Restarting
  <2>6. started => ~(tRestart > 0)
    BY <2>4 DEF Armed
  <2> QED
    BY <2>1, <2>2, <2>4, <2>5, <2>6 DEF InStep, Stays, socket, timers
<1> QED
  BY <1>1, <1>2, <1>3

\* So do the other dispatchers.
LEMMA NoticeInStep ==
    ASSUME IInv, Orderly, InStep, DispatchOpen \/ DispatchClose \/ HandleSocketClose
    PROVE  InStep'
<1>1. CASE DispatchOpen \/ HandleSocketClose
  <2>1. UNCHANGED <<started, socket, inflate, tRestart, frames, logins>>
    BY <1>1 DEF DispatchOpen, HandleSocketClose, client, ghosts, timers
  <2> QED
    BY <2>1 DEF InStep, Stays, Renewing, Restarting, inflate, socket
<1>2. CASE DispatchClose
  <2>1. /\ Notified("close") /\ CallStop("Close", "normal")
        /\ UNCHANGED <<client, socket, inflate, timers, logins>>
    BY <1>2 DEF DispatchClose, ghosts
  <2>2. ~Closes(frames) /\ phase = "closed"
    BY <2>1, Noticed
  <2>3. /\ frames' # <<>> /\ Tail(frames') = frames /\ Head(frames').fn = "Close"
    BY <2>1, Called DEF Handler, CloseCode
  <2>4. Nesting
    BY DEF Orderly
  <2>5. /\ Unstopped(frames') => Unstopped(frames)
        /\ Renewing' => Renewing
        /\ Restarting' => Restarting
    <3>1. Unstopped(frames') => Unstopped(frames)
      BY <2>2, <2>3, <2>4, FramesGrow
    <3> QED
      BY <2>2, <2>3, <2>4, <3>1 DEF Nesting, Renewing, Restarting, Renews, Closes, Based
  <2> QED
    BY <2>1, <2>2, <2>5 DEF InStep, Stays, inflate, socket, timers, client
<1> QED
  BY <1>1, <1>2

\* So do the handlers that Stop returns to.
LEMMA ReturnInStep ==
    ASSUME IInv, Orderly, InStep, CloseEnds \/ ReconnectEnds \/ InvalidSessionEnds \/ StopEnds
    PROVE  InStep'
<1>0. Nesting
  BY DEF Orderly
<1>1. CASE CloseEnds
  <2>1. /\ frames # <<>> /\ Head(frames).fn = "Close" /\ frames' = Tail(frames)
        /\ UNCHANGED <<client, socket, inflate, timers, logins>>
    BY <1>1 DEF CloseEnds, StopReturns, ghosts
  <2>2. Closes(frames) /\ phase = "closed"
    BY <2>1 DEF Orderly, Nesting, Based, Renews, WhileClosing
  <2>3. /\ Unstopped(frames') => Unstopped(frames)
        /\ Renewing' => Renewing
        /\ Restarting' => Restarting
    <3>1. Unstopped(frames') => Unstopped(frames)
      BY <1>0, <2>1, FramesStay
    <3> QED
      BY <2>1, <2>2, <3>1 DEF Renewing, Restarting, Renews, Closes, Based
  <2> QED
    BY <2>1, <2>2, <2>3 DEF InStep, Stays, inflate, socket, timers, client
<1>2. CASE ReconnectEnds \/ InvalidSessionEnds
  <2>1. /\ frames # <<>> /\ Head(frames).fn \in {"Reconnect", "InvalidSession"} /\ frames' = Tail(frames)
        /\ Head(frames).pc = "pumping"
        /\ UNCHANGED <<client, logins>>
    BY <1>2 DEF ReconnectEnds, InvalidSessionEnds, StopReturns, ghosts
  <2>2. Renews(frames) /\ Renewing /\ Based(frames')
    BY <2>1 DEF Orderly, Nesting, Based, Renews, Closes, Renewing
  <2>3. /\ phase = "closed" /\ ~Armed
    BY <2>1, <2>2 DEF Orderly, WhileRenewing, Renews, Early, Stopping, IInv, TypeOK,
                      SocketTypeOK, Phase,
         Based
  <2>4. logins # 0
    BY <2>3 DEF Orderly, Unstarted
  <2>5. Unstopped(frames') => Unstopped(frames)
    BY <1>0, <2>1, FramesStay
  <2>6. ~Renewing' /\ ~Restarting'
    BY <2>2, Rest
  <2>7. CASE ReconnectEnds
    <3>1. StartConnection("fresh", compressed) /\ UNCHANGED timers
      BY <2>7 DEF ReconnectEnds
    <3> QED
      BY <2>1, <2>2, <2>3, <2>4, <2>5, <2>6, <3>1 DEF StartConnection, InStep, Stays, Armed,
            client, timers
  <2>8. CASE InvalidSessionEnds
    <3>1. /\ UNCHANGED <<socket, inflate>> /\ Head(frames).fn = "InvalidSession"
      BY <2>8 DEF InvalidSessionEnds, StopReturns
    <3>2. Restarting
      BY <2>1, <3>1 DEF Restarting
    <3> QED
      BY <2>1, <2>2, <2>3, <2>4, <2>5, <2>6, <3>1, <3>2 DEF InStep, Stays, client, socket,
            inflate
  <2> QED
    BY <1>2, <2>7, <2>8
<1>3. CASE StopEnds
  BY <1>3 DEF StopEnds, InStep, Stays, inflate, ghosts
<1> QED
  BY <1>1, <1>2, <1>3

\* So do the timeouts.
LEMMA TimeoutInStep ==
    ASSUME IInv, Orderly, InStep, TimeoutReconnect \/ TimeoutRestart
    PROVE  InStep'
<1>0. Nesting /\ tReconnect \in Nat /\ tRestart \in Nat
  BY DEF Orderly, IInv, TypeOK, ClientTypeOK
<1>1. tReconnect > 0 \/ tRestart > 0
  BY DEF TimeoutReconnect, TimeoutRestart
<1>2. logins # 0
  BY <1>0, <1>1 DEF Orderly, Unstarted
<1>3. CASE ~started
  <2>1. logins' = logins /\ ~started'
    BY <1>3 DEF TimeoutReconnect, TimeoutRestart, client, ghosts
  <2> QED
    BY <1>2, <2>1 DEF InStep, Stays
<1>4. CASE started
  <2>1. Based(frames) /\ phase = "closed" /\ tReconnect + tRestart = 1
    BY <1>1, <1>4 DEF Orderly, Armed, WhileArmed
  <2>2. CASE TimeoutReconnect
    <3>1. /\ CallStop("Reconnect", "restart") /\ UNCHANGED <<started, socket, tRestart, logins>>
          /\ compressed' = "empty"
      BY <1>4, <2>2 DEF TimeoutReconnect, BeginReconnect, ghosts
    <3>2. /\ frames' # <<>> /\ Tail(frames') = frames /\ Head(frames').fn = "Reconnect"
      BY <3>1, Called DEF Handler, CloseCode
    <3>3. ~Restarting'
      BY <2>1, <3>2 DEF Restarting, Based
    <3>4. ~(tRestart > 0)
      <4>1. tReconnect > 0
        BY <2>2 DEF TimeoutReconnect
      <4> QED
        BY <1>0, <2>1, <4>1
    <3> QED
      BY <1>2, <2>1, <3>1, <3>3, <3>4 DEF InStep, socket
  <2>3. CASE TimeoutRestart
    <3>1. StartConnection(zstream, compressed) /\ UNCHANGED <<client, frames, logins>>
      BY <1>4, <2>3 DEF TimeoutRestart, ghosts
    <3>2. tRestart > 0 /\ ~(tRestart' > 0)
      <4>1. tRestart > 0 /\ tRestart' = tRestart - 1
        BY <2>3 DEF TimeoutRestart
      <4> QED
        BY <1>0, <2>1, <4>1
    <3>3. ~Renewing' /\ ~Restarting'
      BY <2>1, <3>1, Rest
    <3> QED
      BY <1>2, <3>1, <3>2, <3>3 DEF StartConnection, InStep, Stays, client
  <2> QED
    BY <2>2, <2>3
<1> QED
  BY <1>3, <1>4

\* So does every step.
LEMMA StepInStep ==
    ASSUME MaxLogins = 1, ~UserInPump, ~LateFrames
    PROVE  IInv /\ Orderly /\ InStep /\ [Next]_vars => InStep'
<1> SUFFICES ASSUME IInv, Orderly, InStep, [Next]_vars PROVE InStep'
  OBVIOUS
<1>1. CASE User
  BY <1>1, UserInStep
<1>2. CASE Socket
  BY <1>2, SocketInStep
<1>3. CASE Main
  BY <1>3, MessageInStep, NoticeInStep, ReturnInStep, TimeoutInStep DEF Main
<1>4. CASE UNCHANGED vars
  BY <1>4 DEF InStep, Stays, Renewing, Restarting, vars, client, socket, inflate, timers,
              ghosts
<1> QED
  BY <1>1, <1>2, <1>3, <1>4 DEF Next

\* Nothing was inflated when the program starts.
LEMMA InitInStep == Init => InStep
  BY DEF Init, InStep, Stays

\* When a socket that is being stopped delivers nothing more, each full message that reaches
\* a started client is decoded and queued (HandleGatewayMessageRaw). The assumption on late
\* frames is needed: with them the run gateway_decode finds the message that is lost.
THEOREM FullMessagesQueued ==
    ASSUME MaxLogins = 1, ~UserInPump, ~LateFrames
    PROVE  Spec => FullMessageIsQueued
<1> DEFINE Full == (\E op \in Op : SocketReceives(op)) /\ started /\ frames = <<>>
                       => Len(msgQueue') = Len(msgQueue) + 1
<1>1. IInv /\ Orderly /\ InStep /\ [Next]_vars => [Full]_vars
  <2> SUFFICES ASSUME IInv, Orderly, InStep, NEW op \in Op, SocketReceives(op), started, frames = <<>>
               PROVE  Len(msgQueue') = Len(msgQueue) + 1
    OBVIOUS
  <2>1. phase = "open" /\ msgQueue \in Seq(Message) /\ [op |-> op, conn |-> sock] \in Message
    BY GatewayAssumption DEF SocketReceives, IInv, TypeOK, QueueTypeOK, SocketTypeOK,
                             SocketNumbered, Message
  <2>2. ~Renewing /\ Stays
    BY DEF Renewing, Renews, Closes, Stays, Unstopped
  <2>3. Inflates
    BY <2>1, <2>2 DEF InStep, Inflates
  <2>4. msgQueue' = Append(msgQueue, [op |-> op, conn |-> sock])
    BY <2>3 DEF SocketReceives
  <2> QED
    BY <2>1, <2>4
<1>2. IInv /\ Orderly /\ InStep /\ [Next]_vars => InStep'
  BY StepInStep
<1>3. Spec => []Orderly
  BY OneSession
<1> QED
  BY <1>1, <1>2, <1>3, InitInStep, Invariance, PTL DEF Spec, FullMessageIsQueued

\* The heartbeat thread serves the connection there is: Websocket::Send uses m_websocket as
\* it stands, so that a thread of an earlier connection would send on a later one.
THEOREM HeartbeatServesOwn ==
    ASSUME MaxLogins = 1, ~UserInPump
    PROVE  Spec => []Link!ServesOwn
<1>1. Orderly => Link!ServesOwn
  BY DEF Orderly, OwnBeat, Link!ServesOwn
<1>2. Spec => []Orderly
  BY OneSession
<1> QED
  BY <1>1, <1>2, PTL

\* After signal_disconnected(false, ...) there is no connection and no heartbeat.
THEOREM GoneIsOver ==
    ASSUME MaxLogins = 1, ~UserInPump
    PROVE  Spec => []Link!GoneIsOver
<1>1. Orderly => Link!GoneIsOver
  BY DEF Orderly, WhileGone, Link!GoneIsOver
<1>2. Spec => []Orderly
  BY OneSession
<1> QED
  BY <1>1, <1>2, PTL
=============================================================================
