---------------------------- MODULE MediaProofs ----------------------------
(***************************************************************************)
(* For every bound, when orders do not overlap: a packet goes to the call  *)
(* it was recorded in, the capture device runs with the call, and the      *)
(* sources are the call's own.  In any order, types are kept and           *)
(* timestamps follow the time.                                             *)
(***************************************************************************)
EXTENDS Media, SequenceTheorems, TLAPS

\* Nobody is heard and nothing was recorded to be sent yet.
Silent == /\ capture = 0 /\ ~reader /\ state # "up"
          /\ \A s \in Ssrcs : <<call, s>> \notin spoken

\* The socket is the call's, and so is its key.
Own == fd = call /\ key = call

\* How far the handshake is, by the message to be handled next and by what was told
\* when none is left.
Handshake ==
    /\ told = "nothing" => inbox = <<>> /\ Silent /\ ~open
    /\ told = "ready" /\ inbox = <<>> => Silent /\ open /\ fd = call
    /\ told = "description" /\ inbox = <<>> => reader
    /\ inbox # <<>> =>
          /\ Head(inbox).type = "ready" => Silent /\ ~open
          /\ Head(inbox).type = "description" => Silent /\ open /\ fd = call
          /\ Head(inbox).type = "speaking" => reader

\* The order of the messages: the handshake's, then who speaks.
Follows(a, b) ==
    \/ a.type = "ready" /\ b.type = "description"
    \/ a.type # "ready" /\ b.type = "speaking"

Ordered ==
    /\ \A i \in 1..Len(inbox) : inbox[i].of = call
    /\ \A i \in 1..Len(inbox) - 1 : Follows(inbox[i], inbox[i + 1])
    /\ inbox # <<>> /\ told = "ready" => inbox[Len(inbox)].type = "ready"
    /\ inbox # <<>> /\ told = "description" => inbox[Len(inbox)].type # "ready"

\* When orders do not overlap at most one Stop is under way.  What is left then of
\* the connection, and when it is over.
Stages ==
    /\ frames = <<>> \/ \E fr \in Frame : frames = <<fr>>
    /\ told # "over" => frames = <<>> /\ device /\ state # "down"
    /\ inbox # <<>> => device
    /\ told = "over" /\ (frames = <<>> \/ frames[1].at # "pump") => inbox = <<>> /\ ~open
    /\ told = "over" /\ (frames = <<>> \/ frames[1].at = "over") => ~reader
    /\ told = "over" => state # "connecting"
    /\ told = "over" /\ frames = <<>> => ~device /\ capture = 0
    /\ reader /\ frames = <<>> => state = "up"

\* Whose the socket and the buffer being sent are.  No buffer is sent over a
\* descriptor that an earlier Stop closed.
Owners ==
    /\ reader => Own /\ device
    /\ state = "up" => Own
    /\ capture # 0 => capture = call /\ device /\ Own
    /\ frames = <<>> /\ device /\ (state = "up" \/ capture # 0) => open

\* Whose the sources are.
Heard ==
    /\ frames = <<>> =>
          DOMAIN sources = {s \in Ssrcs : <<call, s>> \in spoken /\ reader}
    /\ \A s \in DOMAIN sources : sources[s] \in {0, call}
    /\ \A e \in spoken : e[1] <= call

IInv == TypeOK /\ Ordered /\ Handshake /\ Stages /\ Owners /\ Heard /\ SentInOwnCall

----------------------------------------------------------------------------
(* Sequences *)

\* The messages left when the first is taken out.
LEMMA Rest ==
    ASSUME NEW S, NEW q \in Seq(S), q # <<>>
    PROVE  /\ Tail(q) \in Seq(S) /\ Len(Tail(q)) = Len(q) - 1 /\ Head(q) = q[1] /\ Head(q) \in S
           /\ Len(q) \in Nat \ {0}
           /\ \A i \in 1..Len(q) - 1 : Tail(q)[i] = q[i + 1]
           /\ Tail(q) # <<>> => Head(Tail(q)) = q[2] /\ Len(q) >= 2
           /\ (Len(q) = 1) <=> (Tail(q) = <<>>)
<1>1. /\ Head(q) = q[1] /\ Head(q) \in S /\ Tail(q) \in Seq(S) /\ Len(Tail(q)) = Len(q) - 1
      /\ \A i \in 1..Len(Tail(q)) : Tail(q)[i] = q[i + 1]
    BY HeadTailProperties
<1>2. Len(q) \in Nat \ {0}
    BY EmptySeq
<1>3. (Len(q) = 1) <=> (Tail(q) = <<>>)
    BY <1>1, <1>2, EmptySeq
<1>4. Tail(q) # <<>> => Head(Tail(q)) = q[2] /\ Len(q) >= 2
  <2> SUFFICES ASSUME Tail(q) # <<>> PROVE Head(Tail(q)) = q[2] /\ Len(q) >= 2
      OBVIOUS
  <2>1. Head(Tail(q)) = Tail(q)[1] /\ Len(Tail(q)) # 0
      BY <1>1, HeadTailProperties, EmptySeq
  <2> QED
      BY <1>1, <1>2, <2>1
<1> QED
    BY <1>1, <1>2, <1>3, <1>4

\* The messages when one more is queued.
LEMMA Queued ==
    ASSUME NEW S, NEW q \in Seq(S), NEW m \in S
    PROVE  /\ Append(q, m) \in Seq(S) /\ Append(q, m) # <<>> /\ Len(q) \in Nat
           /\ Len(Append(q, m)) = Len(q) + 1 /\ Append(q, m)[Len(q) + 1] = m
           /\ \A i \in 1..Len(q) : Append(q, m)[i] = q[i]
           /\ Head(Append(q, m)) = IF q = <<>> THEN m ELSE Head(q)
<1>1. /\ Append(q, m) \in Seq(S) /\ Append(q, m) # <<>> /\ Len(Append(q, m)) = Len(q) + 1
      /\ Append(q, m)[Len(q) + 1] = m
      /\ \A i \in 1..Len(q) : Append(q, m)[i] = q[i]
    BY AppendProperties
<1>2. Len(q) \in Nat
    BY LenProperties
<1>3. Head(Append(q, m)) = Append(q, m)[1]
    BY <1>1, HeadTailProperties
<1>4. CASE q = <<>>
    BY <1>1, <1>3, <1>4, EmptySeq
<1>5. CASE q # <<>>
    BY <1>1, <1>2, <1>3, <1>5, EmptySeq, HeadTailProperties
<1> QED
    BY <1>1, <1>2, <1>3, <1>4, <1>5

\* A frame is put in the place of the innermost.
LEMMA Frames ==
    ASSUME NEW F \in Seq(Frame), F # <<>>
    PROVE  /\ F[Len(F)] \in Frame /\ SubSeq(F, 1, Len(F) - 1) \in Seq(Frame)
           /\ \A fr \in Frame : Append(SubSeq(F, 1, Len(F) - 1), fr) \in Seq(Frame)
<1>1. Len(F) \in Nat \ {0}
    BY EmptySeq
<1>2. F[Len(F)] \in Frame
    BY <1>1
<1>3. SubSeq(F, 1, Len(F) - 1) \in Seq(Frame)
    BY <1>1, SubSeqProperties
<1> QED
    BY <1>2, <1>3, AppendProperties

\* The one Stop there may be.
LEMMA OneFrame ==
    ASSUME Stages, frames # <<>>
    PROVE  /\ Len(frames) = 1 /\ Top = frames[1] /\ Top \in Frame /\ told = "over"
           /\ Popped = <<>>
           /\ \A fr : Append(Popped, fr) = <<fr>>
<1>1. PICK fr \in Frame : frames = <<fr>>
    BY DEF Stages
<1>2. Len(frames) = 1 /\ frames[1] = fr /\ Top = frames[1]
    BY <1>1 DEF Top
<1>3. Popped = <<>>
    BY <1>1, <1>2 DEF Popped
<1>4. \A x : Append(Popped, x) = <<x>>
    BY <1>3
<1> QED
    BY <1>1, <1>2, <1>3, <1>4 DEF Stages

\* A stopped client has nothing of a call.
LEMMA Nothing ==
    ASSUME IInv, frames = <<>>, state = "down"
    PROVE  /\ told = "over" /\ inbox = <<>> /\ ~reader /\ ~open /\ capture = 0 /\ ~device
           /\ DOMAIN sources = {}
BY DEF IInv, Stages, Heard

----------------------------------------------------------------------------
(* Types *)

\* The orders of the gateway, and the ends of Stop.
LEMMA OrdersTyped ==
    ASSUME TypeOK, Start \/ Stop \/ UDPStop \/ JoinReader \/ OnVoiceDisconnected
    PROVE  TypeOK'
<1> USE DEF TypeOK, connection, udp, packets
<1>1. ASSUME NEW again \in BOOLEAN, CallStop(again) PROVE frames' \in Seq(Frame)
  <2>1. [again |-> again, at |-> "pump"] \in Frame
      BY DEF Frame
  <2> QED
      BY <1>1, <2>1, AppendProperties DEF CallStop
<1>2. CASE Start
  <2>1. CASE state = "down"
      BY <1>2, <2>1 DEF Start, StartUp
  <2>2. CASE state # "down"
    <3>1. frames' \in Seq(Frame)
        BY <1>1, <1>2, <2>2 DEF Start
    <3> QED
        BY <1>2, <2>2, <3>1 DEF Start, CallStop
  <2> QED
      BY <2>1, <2>2
<1>3. CASE Stop
  <2>1. frames' \in Seq(Frame)
      BY <1>1, <1>3 DEF Stop
  <2> QED
      BY <1>3, <2>1 DEF Stop, CallStop
<1>4. ASSUME NEW from, NEW to \in {"join", "over"}, GoesOn(from, to) PROVE frames' \in Seq(Frame)
  <2>1. frames # <<>> /\ frames \in Seq(Frame)
      BY <1>4 DEF GoesOn
  <2>2. Top \in Frame
      BY <2>1, Frames DEF Top
  <2>3. [again |-> Top.again, at |-> to] \in Frame
      BY <2>2 DEF Frame
  <2> QED
      BY <1>4, <2>1, <2>3, Frames DEF GoesOn, Popped
<1>5. CASE UDPStop \/ JoinReader
  <2>1. frames' \in Seq(Frame)
      BY <1>4, <1>5 DEF UDPStop, JoinReader
  <2> QED
      BY <1>5, <2>1 DEF UDPStop, JoinReader
<1>6. CASE OnVoiceDisconnected
  <2>1. frames' \in Seq(Frame)
      BY <1>6, Frames DEF OnVoiceDisconnected, Popped
  <2>2. DOMAIN sources' \subseteq Ssrcs /\ sources' \in [DOMAIN sources' -> Nat]
      BY <1>6 DEF OnVoiceDisconnected
  <2>3. CASE Top.again
      BY <1>6, <2>1, <2>2, <2>3 DEF OnVoiceDisconnected, StartUp
  <2>4. CASE ~Top.again
      BY <1>6, <2>1, <2>2, <2>4 DEF OnVoiceDisconnected
  <2> QED
      BY <2>3, <2>4
<1> QED
    BY <1>2, <1>3, <1>5, <1>6

\* A packet that is sent is one.
LEMMA PacketTyped ==
    ASSUME TypeOK, NEW c \in Nat, NEW k \in Nat, SendEncrypted(c, k)
    PROVE  sequence' \in Nat /\ sent' \in Packet
<1>1. sequence' \in Nat
    BY MediaAssumption DEF TypeOK, SendEncrypted
<1>2. Descriptor \in {"open", "closing", "stale"}
    BY DEF Descriptor
<1> QED
    BY <1>1, <1>2 DEF TypeOK, SendEncrypted, Packet

\* The voice server's messages.
LEMMA MessagesTyped ==
    ASSUME TypeOK, \/ ServerSends \/ HandleGatewayReady
                   \/ HandleGatewaySessionDescription \/ HandleGatewaySpeaking
    PROVE  TypeOK'
<1> USE DEF TypeOK, connection, udp, packets
<1>1. CASE ServerSends
  <2>1. inbox' \in Seq(Notice)
    <3>1. PICK m \in Notice : inbox' = Append(inbox, m)
        BY <1>1 DEF ServerSends, Notice
    <3> QED
        BY <3>1, AppendProperties
  <2>2. told' \in {"nothing", "ready", "description", "over"}
      BY <1>1 DEF ServerSends
  <2> QED
      BY <1>1, <2>1, <2>2 DEF ServerSends
<1>2. ASSUME NEW type \in {"ready", "description", "speaking"}, Message(type)
      PROVE  inbox' \in Seq(Notice) /\ Head(inbox) \in Notice
      BY <1>2, Rest DEF Message
<1>3. CASE HandleGatewayReady
  <2>1. inbox' \in Seq(Notice)
      BY <1>2, <1>3 DEF HandleGatewayReady
  <2> QED
      BY <1>3, <2>1 DEF HandleGatewayReady, Message
<1>4. CASE HandleGatewaySessionDescription
  <2>1. inbox' \in Seq(Notice)
      BY <1>2, <1>4 DEF HandleGatewaySessionDescription
  <2>2. sequence' \in Nat /\ sent' \in Packet
    <3>1. call \in Nat /\ SendEncrypted(call, call)
        BY <1>4 DEF HandleGatewaySessionDescription
    <3> QED
        BY <3>1, PacketTyped
  <2> QED
      BY <1>4, <2>1, <2>2 DEF HandleGatewaySessionDescription, Message
<1>5. CASE HandleGatewaySpeaking
  <2>1. inbox' \in Seq(Notice) /\ Head(inbox) \in Notice /\ Head(inbox).type = "speaking"
      BY <1>2, <1>5 DEF HandleGatewaySpeaking, Message
  <2>2. Head(inbox).ssrc \in Ssrcs /\ Head(inbox).of \in Nat
      BY <2>1 DEF Notice
  <2>3. DOMAIN sources' \subseteq Ssrcs /\ sources' \in [DOMAIN sources' -> Nat]
      BY <1>5, <2>2 DEF HandleGatewaySpeaking
  <2>4. spoken' \subseteq Nat \X Ssrcs
      BY <1>5, <2>2 DEF HandleGatewaySpeaking
  <2> QED
      BY <1>5, <2>1, <2>3, <2>4 DEF HandleGatewaySpeaking, Message
<1> QED
    BY <1>1, <1>3, <1>4, <1>5

\* The other threads.
LEMMA ThreadsTyped ==
    ASSUME TypeOK, OnCapturedPCM \/ SendPacket \/ OnUDPData \/ DataCallback
    PROVE  TypeOK'
<1>1. Recorded => timestamp' \in Nat /\ clock' \in Nat
    BY MediaAssumption DEF TypeOK, Recorded
<1> USE DEF connection, udp, packets
<1>2. CASE OnCapturedPCM
    BY <1>1, <1>2 DEF TypeOK, OnCapturedPCM
<1>3. CASE SendPacket
  <2>1. sequence' \in Nat /\ sent' \in Packet
    <3>1. capture \in Nat /\ key \in Nat /\ SendEncrypted(capture, key)
        BY <1>3 DEF TypeOK, SendPacket
    <3> QED
        BY <3>1, PacketTyped
  <2> QED
      BY <1>1, <1>3, <2>1 DEF TypeOK, SendPacket
<1>4. CASE OnUDPData
    BY <1>4 DEF TypeOK, OnUDPData
<1>5. CASE DataCallback
    BY <1>5 DEF TypeOK, DataCallback
<1> QED
    BY <1>2, <1>3, <1>4, <1>5

LEMMA InitTypeOK == Init => TypeOK
<1> SUFFICES ASSUME Init PROVE TypeOK
    OBVIOUS
<1>1. DOMAIN sources = {} /\ sources \in [DOMAIN sources -> Nat]
    BY DEF Init
<1>2. frames \in Seq(Frame) /\ inbox \in Seq(Notice)
    BY EmptySeq DEF Init
<1> QED
    BY <1>1, <1>2 DEF Init, TypeOK, Packet

LEMMA StepTypeOK ==
    ASSUME TypeOK, [Next]_vars
    PROVE  TypeOK'
<1>1. CASE UNCHANGED vars
    BY <1>1 DEF vars, connection, udp, packets, TypeOK
<1> QED
    BY <1>1, OrdersTyped, MessagesTyped, ThreadsTyped DEF Next

\* Every variable keeps its type, when orders overlap too.
THEOREM TypeCorrect == Spec => []TypeOK
BY InitTypeOK, StepTypeOK, PTL DEF Spec

----------------------------------------------------------------------------
(* Orders of the gateway, one at a time *)

\* A connection is begun over one that is gone.
LEMMA StepStartUp ==
    ASSUME IInv, TypeOK', frames' = <<>>, StartUp, inbox = <<>>, ~reader, ~open, capture = 0,
           DOMAIN sources' = {}, UNCHANGED <<inbox, udp, packets, capture, spoken>>
    PROVE  IInv'
<1> USE DEF IInv
<1>1. /\ call' = call + 1 /\ told' = "nothing" /\ device' = TRUE /\ state' = "connecting"
      /\ inbox' = <<>> /\ ~reader' /\ ~open' /\ capture' = 0 /\ spoken' = spoken
      /\ sent' = sent
    BY DEF StartUp, udp, packets
<1>2. Ordered'
  <2>1. Len(inbox') = 0
      BY <1>1, EmptySeq
  <2> QED
      BY <1>1, <2>1 DEF Ordered
<1>3. \A s \in Ssrcs : <<call', s>> \notin spoken'
    BY <1>1 DEF Heard, TypeOK
<1>4. Handshake'
    BY <1>1, <1>3 DEF Handshake, Silent
<1>5. Stages'
    BY <1>1 DEF Stages
<1>6. Owners'
    BY <1>1 DEF Owners
<1>7. Heard'
  <2>1. \A e \in spoken' : e[1] <= call'
      BY <1>1 DEF Heard, TypeOK
  <2> QED
      BY <1>1, <2>1 DEF Heard
<1>8. SentInOwnCall'
    BY <1>1 DEF SentInOwnCall
<1> QED
    BY <1>2, <1>4, <1>5, <1>6, <1>7, <1>8

\* A Stop is called: its main loop serves what there is.
LEMMA StepCallStop ==
    ASSUME IInv, TypeOK', NEW again \in BOOLEAN, frames = <<>>, state # "down", CallStop(again),
           UNCHANGED <<inbox, udp, packets, sources, capture, spoken>>
    PROVE  IInv'
<1> USE DEF IInv
<1>1. /\ frames' = <<[again |-> again, at |-> "pump"]>>
      /\ state' = "down" /\ told' = "over" /\ call' = call /\ device' = device
      /\ inbox' = inbox /\ reader' = reader /\ fd' = fd /\ key' = key /\ capture' = capture
      /\ open' = open /\ spoken' = spoken /\ sources' = sources /\ sent' = sent
    BY DEF CallStop, udp, packets
<1>2. frames' # <<>> /\ (\E fr \in Frame : frames' = <<fr>>) /\ frames'[1].at = "pump"
    BY <1>1 DEF Frame
<1>3. Ordered'
    BY <1>1 DEF Ordered
<1>4. Silent => Silent'
    BY <1>1 DEF Silent
<1>5. Handshake'
    BY <1>1, <1>4 DEF Handshake
<1>6. Stages'
    BY <1>1, <1>2 DEF Stages
<1>7. Owners'
    BY <1>1, <1>2 DEF Owners, Own
<1>8. Heard' /\ SentInOwnCall'
    BY <1>1, <1>2 DEF Heard, SentInOwnCall
<1> QED
    BY <1>3, <1>5, <1>6, <1>7, <1>8

LEMMA StepOrders ==
    ASSUME ~Overlap, IInv, TypeOK', Start \/ Stop
    PROVE  IInv'
<1>1. frames = <<>>
    BY DEF Start, Stop, Order
<1>2. CASE Start /\ state = "down"
  <2>1. DOMAIN sources = {} /\ inbox = <<>> /\ ~reader /\ ~open /\ capture = 0
      BY <1>1, <1>2, Nothing
  <2>2. sources' = sources /\ frames' = frames
      BY <1>2 DEF Start
  <2> QED
      BY <1>1, <1>2, <2>1, <2>2, StepStartUp DEF Start
<1>3. CASE Start /\ state # "down"
    BY <1>1, <1>3, StepCallStop DEF Start
<1>4. CASE Stop
    BY <1>1, <1>4, StepCallStop DEF Stop
<1> QED
    BY <1>2, <1>3, <1>4

\* The descriptor is closed, or the reader joined.
LEMMA StepUDPStop ==
    ASSUME ~Overlap, IInv, TypeOK', UDPStop \/ JoinReader
    PROVE  IInv'
<1> USE DEF IInv
<1>1. PICK to \in {"join", "over"} : GoesOn(IF to = "join" THEN "pump" ELSE "join", to)
    BY DEF UDPStop, JoinReader
<1>2. /\ frames # <<>> /\ Top = frames[1] /\ told = "over"
      /\ frames' = <<[again |-> Top.again, at |-> to]>> /\ [again |-> Top.again, at |-> to] \in Frame
    BY <1>1, OneFrame DEF GoesOn, Frame
<1>3. inbox = <<>>
    BY <1>1, <1>2 DEF UDPStop, JoinReader, GoesOn, Stages
<1>4. ~open' /\ (reader' => reader) /\ (to = "over" => ~reader')
    BY <1>1, <1>2 DEF UDPStop, JoinReader, GoesOn, Stages
<1>5. /\ state' = state /\ told' = told /\ call' = call /\ device' = device /\ inbox' = inbox
      /\ fd' = fd /\ key' = key /\ capture' = capture /\ spoken' = spoken /\ sources' = sources
      /\ sent' = sent
    BY DEF UDPStop, JoinReader, packets
<1>6. frames' # <<>> /\ (\E fr \in Frame : frames' = <<fr>>) /\ frames'[1].at = to
    BY <1>2
<1>7. Ordered' /\ Handshake'
    BY <1>2, <1>3, <1>5 DEF Ordered, Handshake
<1>8. Stages'
    BY <1>2, <1>3, <1>4, <1>5, <1>6 DEF Stages
<1>9. Owners'
    BY <1>4, <1>5, <1>6 DEF Owners, Own
<1>10. Heard' /\ SentInOwnCall'
    BY <1>5, <1>6 DEF Heard, SentInOwnCall
<1> QED
    BY <1>7, <1>8, <1>9, <1>10

LEMMA StepOnVoiceDisconnected ==
    ASSUME ~Overlap, IInv, TypeOK', OnVoiceDisconnected
    PROVE  IInv'
<1> USE DEF IInv
<1>1. /\ frames # <<>> /\ told = "over" /\ Top = frames[1] /\ frames' = <<>> /\ capture = 0
      /\ sources' = [s \in {} |-> 0] /\ Top.at = "over"
    BY OneFrame DEF OnVoiceDisconnected
<1>2. inbox = <<>> /\ ~reader /\ ~open
    BY <1>1 DEF Stages
<1>3. DOMAIN sources' = {}
    BY <1>1
<1>4. CASE Top.again
  <2>1. StartUp /\ UNCHANGED <<inbox, udp, packets, capture, spoken>>
      BY <1>4 DEF OnVoiceDisconnected
  <2> QED
      BY <1>1, <1>2, <1>3, <2>1, StepStartUp
<1>5. CASE ~Top.again
  <2>1. /\ ~device' /\ state' = state /\ call' = call /\ told' = told /\ inbox' = inbox
        /\ ~reader' /\ ~open' /\ fd' = fd /\ key' = key /\ capture' = 0 /\ spoken' = spoken
        /\ sent' = sent
      BY <1>1, <1>2, <1>5 DEF OnVoiceDisconnected, udp, packets
  <2>2. Ordered' /\ Handshake'
      BY <1>1, <1>2, <2>1 DEF Ordered, Handshake
  <2>3. state # "connecting"
      BY <1>1 DEF Stages
  <2>4. Stages'
      BY <1>1, <1>2, <2>1, <2>3 DEF Stages
  <2>5. Owners'
      BY <1>2, <2>1 DEF Owners, Own
  <2>6. Heard' /\ SentInOwnCall'
      BY <1>1, <1>3, <2>1 DEF Heard, SentInOwnCall
  <2> QED
      BY <2>2, <2>4, <2>5, <2>6
<1> QED
    BY <1>4, <1>5

----------------------------------------------------------------------------
(* The voice server's messages *)

LEMMA StepServerSends ==
    ASSUME IInv, TypeOK', ServerSends
    PROVE  IInv'
<1> USE DEF IInv
<1>1. PICK m \in Notice :
        /\ inbox' = Append(inbox, m) /\ m.of = call
        /\ \/ told = "nothing" /\ told' = "ready" /\ m.type = "ready"
           \/ told = "ready" /\ told' = "description" /\ m.type = "description"
           \/ told = "description" /\ told' = "description" /\ m.type = "speaking"
  <2>1. ASSUME told = "nothing", told' = "ready",
               inbox' = Append(inbox, [type |-> "ready", of |-> call])
        PROVE  \E m \in Notice : /\ inbox' = Append(inbox, m) /\ m.of = call
                                 /\ told = "nothing" /\ told' = "ready" /\ m.type = "ready"
    <3>1. [type |-> "ready", of |-> call] \in Notice
        BY DEF Notice, TypeOK
    <3> QED
        BY <2>1, <3>1
  <2>2. ASSUME told = "ready", told' = "description",
               inbox' = Append(inbox, [type |-> "description", of |-> call])
        PROVE  \E m \in Notice : /\ inbox' = Append(inbox, m) /\ m.of = call
                                 /\ told = "ready" /\ told' = "description" /\ m.type = "description"
    <3>1. [type |-> "description", of |-> call] \in Notice
        BY DEF Notice, TypeOK
    <3> QED
        BY <2>2, <3>1
  <2>3. ASSUME NEW s \in Ssrcs, told = "description", told' = told,
               inbox' = Append(inbox, [type |-> "speaking", of |-> call, ssrc |-> s])
        PROVE  \E m \in Notice : /\ inbox' = Append(inbox, m) /\ m.of = call
                                 /\ told = "description" /\ told' = "description"
                                 /\ m.type = "speaking"
    <3>1. [type |-> "speaking", of |-> call, ssrc |-> s] \in Notice
        BY DEF Notice, TypeOK
    <3> QED
        BY <2>3, <3>1
  <2> QED
      BY <2>1, <2>2, <2>3 DEF ServerSends
<1>2. /\ state' = state /\ frames' = frames /\ call' = call /\ reader' = reader /\ fd' = fd
      /\ open' = open /\ key' = key /\ capture' = capture /\ spoken' = spoken /\ sources' = sources
      /\ sent' = sent /\ device' = device
    BY DEF ServerSends, udp, packets
<1>3. UNCHANGED <<sequence, timestamp, clock>>
    BY DEF ServerSends, packets
<1>4. inbox \in Seq(Notice)
    BY DEF TypeOK
<1>5. /\ inbox' \in Seq(Notice) /\ inbox' # <<>> /\ Len(inbox) \in Nat
      /\ Len(inbox') = Len(inbox) + 1 /\ inbox'[Len(inbox) + 1] = m
      /\ \A i \in 1..Len(inbox) : inbox'[i] = inbox[i]
      /\ Head(inbox') = IF inbox = <<>> THEN m ELSE Head(inbox)
    BY <1>1, <1>4, Queued
<1>6. (Len(inbox) = 0) <=> (inbox = <<>>)
    BY <1>4, EmptySeq
<1>8. Ordered'
  <2>1. ASSUME NEW i \in 1..Len(inbox') PROVE inbox'[i].of = call'
      BY <1>1, <1>2, <1>5 DEF Ordered
  <2>2. ASSUME NEW i \in 1..Len(inbox') - 1 PROVE Follows(inbox'[i], inbox'[i + 1])
    <3>1. CASE i < Len(inbox)
        BY <1>5, <3>1 DEF Ordered
    <3>2. CASE i = Len(inbox)
      <4>1. inbox # <<>> /\ inbox'[i] = inbox[Len(inbox)] /\ inbox'[i + 1] = m
          BY <1>5, <1>6, <3>2
      <4>2. inbox[Len(inbox)] \in Notice
          BY <1>4, <1>5, <1>6, <4>1
      <4>3. told # "nothing"
          BY <4>1 DEF Handshake
      <4> QED
          BY <1>1, <4>1, <4>3 DEF Ordered, Follows
    <3> QED
        BY <1>5, <3>1, <3>2
  <2>3. inbox'[Len(inbox')] = m
      BY <1>5
  <2>4. told' = "ready" => m.type = "ready"
      BY <1>1
  <2>5. told' = "description" => m.type # "ready"
      BY <1>1
  <2> QED
      BY <2>1, <2>2, <2>3, <2>4, <2>5 DEF Ordered
<1>9. Silent' = Silent
    BY <1>2 DEF Silent
<1>10. Handshake'
  <2>1. told' # "nothing"
      BY <1>1
  <2>2. Head(inbox').type = "ready" => Silent' /\ ~open'
      BY <1>1, <1>2, <1>5, <1>9 DEF Handshake
  <2>3. Head(inbox').type = "description" => Silent' /\ open' /\ fd' = call'
      BY <1>1, <1>2, <1>5, <1>9 DEF Handshake
  <2>4. Head(inbox').type = "speaking" => reader'
      BY <1>1, <1>2, <1>5, <1>9 DEF Handshake
  <2> QED
      BY <1>5, <2>1, <2>2, <2>3, <2>4 DEF Handshake
<1>11. Stages'
    BY <1>1, <1>2 DEF Stages
<1>12. Owners'
    BY <1>2 DEF Owners, Own
<1>13. Heard' /\ SentInOwnCall'
    BY <1>2 DEF Heard, SentInOwnCall
<1> QED
    BY <1>8, <1>10, <1>11, <1>12, <1>13

\* What is known when a message is handled, and of those behind it.
LEMMA Handled ==
    ASSUME IInv, NEW type \in {"ready", "description", "speaking"}, Message(type)
    PROVE  /\ inbox # <<>> /\ Head(inbox).type = type /\ Head(inbox).of = call
           /\ Head(inbox) \in Notice /\ inbox' = Tail(inbox) /\ inbox' \in Seq(Notice)
           /\ frames' = frames /\ call' = call /\ told' = told /\ device' = device /\ capture' = capture
           /\ Ordered'
           /\ inbox' # <<>> => Follows(Head(inbox), Head(inbox')) /\ Head(inbox') \in Notice
           /\ inbox' = <<>> => /\ told # "nothing"
                               /\ told = "ready" => type = "ready"
                               /\ told = "description" => type # "ready"
<1> USE DEF IInv
<1>1. /\ inbox # <<>> /\ Head(inbox).type = type /\ inbox' = Tail(inbox)
      /\ frames' = frames /\ call' = call /\ told' = told /\ device' = device /\ capture' = capture
    BY DEF Message
<1>2. inbox \in Seq(Notice)
    BY DEF TypeOK
<1>3. /\ inbox' \in Seq(Notice) /\ Len(inbox') = Len(inbox) - 1
      /\ Head(inbox) = inbox[1] /\ Head(inbox) \in Notice /\ Len(inbox) \in Nat \ {0}
      /\ \A i \in 1..Len(inbox) - 1 : inbox'[i] = inbox[i + 1]
      /\ inbox' # <<>> => Head(inbox') = inbox[2] /\ Len(inbox) >= 2
      /\ (Len(inbox) = 1) <=> (inbox' = <<>>)
    BY <1>1, <1>2, Rest
<1>4. Head(inbox).of = call
    BY <1>3 DEF Ordered
<1>5. inbox' # <<>> => Follows(Head(inbox), Head(inbox')) /\ Head(inbox') \in Notice
    BY <1>2, <1>3 DEF Ordered
<1>6. inbox' = <<>> => /\ told # "nothing"
                       /\ told = "ready" => type = "ready"
                       /\ told = "description" => type # "ready"
    BY <1>1, <1>3 DEF Ordered, Handshake
<1>7. Ordered'
  <2>1. ASSUME NEW i \in 1..Len(inbox') PROVE inbox'[i].of = call'
      BY <1>1, <1>3 DEF Ordered
  <2>2. ASSUME NEW i \in 1..Len(inbox') - 1 PROVE Follows(inbox'[i], inbox'[i + 1])
    <3>1. /\ i \in 1..Len(inbox) - 1 /\ i + 1 \in 1..Len(inbox) - 1
          /\ inbox'[i] = inbox[i + 1] /\ inbox'[i + 1] = inbox[(i + 1) + 1]
        BY <1>3
    <3> QED
        BY <3>1 DEF Ordered
  <2>3. inbox' # <<>> => inbox'[Len(inbox')] = inbox[Len(inbox)]
      BY <1>3
  <2> QED
      BY <1>1, <2>1, <2>2, <2>3 DEF Ordered
<1> QED
    BY <1>1, <1>3, <1>4, <1>5, <1>6, <1>7

LEMMA StepHandleGatewayReady ==
    ASSUME IInv, TypeOK', HandleGatewayReady
    PROVE  IInv'
<1> USE DEF IInv
<1>1. Message("ready")
    BY DEF HandleGatewayReady
<1>2. /\ inbox # <<>> /\ Head(inbox).type = "ready" /\ inbox' \in Seq(Notice)
      /\ frames' = frames /\ call' = call /\ told' = told /\ device' = device /\ capture' = capture
      /\ Ordered'
      /\ inbox' # <<>> => Follows(Head(inbox), Head(inbox'))
      /\ inbox' = <<>> => told # "nothing" /\ told # "description"
    BY <1>1, Handled
<1>3. /\ fd' = call /\ open' /\ state' = state /\ key' = key /\ reader' = reader /\ sources' = sources
      /\ spoken' = spoken /\ sent' = sent
    BY DEF HandleGatewayReady, packets
<1>4. UNCHANGED <<sequence, timestamp, clock>>
    BY DEF HandleGatewayReady, packets
<1>5. Silent
    BY <1>2 DEF Handshake
<1>6. Silent'
    BY <1>2, <1>3, <1>5 DEF Silent
<1>8. inbox' # <<>> => Head(inbox').type = "description"
    BY <1>2 DEF Follows
<1>9. told' # "nothing"
    BY <1>2 DEF Handshake
<1>10. Handshake'
    BY <1>2, <1>3, <1>6, <1>8, <1>9 DEF Handshake
<1>11. told = "over" => frames # <<>> /\ frames[1].at = "pump"
    BY <1>2 DEF Stages
<1>12. inbox' # <<>> => device
    BY <1>2 DEF Stages
<1>13. Stages'
    BY <1>2, <1>3, <1>11, <1>12 DEF Stages
<1>14. Owners'
    BY <1>2, <1>3, <1>5 DEF Owners, Silent
<1>15. Heard' /\ SentInOwnCall'
    BY <1>2, <1>3 DEF Heard, SentInOwnCall
<1> QED
    BY <1>2, <1>10, <1>13, <1>14, <1>15

LEMMA StepHandleGatewaySessionDescription ==
    ASSUME IInv, TypeOK', HandleGatewaySessionDescription
    PROVE  IInv'
<1> USE DEF IInv
<1>1. Message("description")
    BY DEF HandleGatewaySessionDescription
<1>2. /\ inbox # <<>> /\ Head(inbox).type = "description" /\ inbox' \in Seq(Notice)
      /\ frames' = frames /\ call' = call /\ told' = told /\ device' = device /\ capture' = capture
      /\ Ordered'
      /\ inbox' # <<>> => Follows(Head(inbox), Head(inbox'))
      /\ inbox' = <<>> => told # "nothing" /\ told # "ready"
    BY <1>1, Handled
<1>3. /\ fd' = fd /\ open' = open /\ state' = "up" /\ key' = call /\ reader' = TRUE
      /\ sources' = sources /\ spoken' = spoken
      /\ sent'.from = call /\ sent'.by = fd /\ sent'.key = call /\ sent'.through = Descriptor
    BY DEF HandleGatewaySessionDescription, SendEncrypted
<1>4. Silent /\ open /\ fd = call
    BY <1>2 DEF Handshake
<1>5. device
    BY <1>2 DEF Stages
<1>7. inbox' # <<>> => Head(inbox').type = "speaking"
    BY <1>2 DEF Follows
<1>8. told' # "nothing"
    BY <1>2 DEF Handshake
<1>9. Handshake'
    BY <1>2, <1>3, <1>7, <1>8 DEF Handshake
<1>10. told = "over" => frames # <<>> /\ frames[1].at = "pump"
    BY <1>2 DEF Stages
<1>11. Stages'
    BY <1>2, <1>3, <1>5, <1>10 DEF Stages
<1>12. Owners'
    BY <1>2, <1>3, <1>4, <1>5 DEF Owners, Own, Silent
<1>13. Heard'
  <2>1. frames' = <<>> => DOMAIN sources' = {}
      BY <1>2, <1>3, <1>4 DEF Heard, Silent
  <2>2. {s \in Ssrcs : <<call', s>> \in spoken' /\ reader'} = {}
      BY <1>2, <1>3, <1>4 DEF Silent
  <2> QED
      BY <1>2, <1>3, <2>1, <2>2 DEF Heard
<1>14. SentInOwnCall'
    BY <1>3, <1>4 DEF SentInOwnCall, Descriptor
<1> QED
    BY <1>2, <1>9, <1>11, <1>12, <1>13, <1>14

LEMMA StepHandleGatewaySpeaking ==
    ASSUME IInv, TypeOK', HandleGatewaySpeaking
    PROVE  IInv'
<1> USE DEF IInv
<1>1. Message("speaking")
    BY DEF HandleGatewaySpeaking
<1>2. /\ inbox # <<>> /\ Head(inbox).type = "speaking" /\ inbox' \in Seq(Notice)
      /\ Head(inbox) \in Notice /\ Head(inbox).of = call
      /\ frames' = frames /\ call' = call /\ told' = told /\ device' = device /\ capture' = capture
      /\ Ordered'
      /\ inbox' # <<>> => Follows(Head(inbox), Head(inbox')) /\ Head(inbox') \in Notice
      /\ inbox' = <<>> => told # "nothing" /\ told # "ready"
    BY <1>1, Handled
<1> DEFINE s == Head(inbox).ssrc
<1>3. s \in Ssrcs
    BY <1>2 DEF Notice
<1>4. /\ fd' = fd /\ open' = open /\ state' = state /\ key' = key /\ reader' = reader /\ sent' = sent
      /\ spoken' = spoken \cup {<<call, s>>}
      /\ sources' = [x \in DOMAIN sources \cup {s} |-> IF x \in DOMAIN sources THEN sources[x] ELSE 0]
    BY <1>2 DEF HandleGatewaySpeaking, udp, packets
<1>5. UNCHANGED <<sequence, timestamp, clock>>
    BY DEF HandleGatewaySpeaking, packets
<1>6. reader
    BY <1>2 DEF Handshake
<1> HIDE DEF s
<1>8. inbox' # <<>> => Head(inbox').type = "speaking"
    BY <1>2 DEF Follows
<1>9. told' # "nothing"
    BY <1>2 DEF Handshake
<1>10. Handshake'
    BY <1>2, <1>4, <1>6, <1>8, <1>9 DEF Handshake
<1>11. told = "over" => frames # <<>> /\ frames[1].at = "pump"
    BY <1>2 DEF Stages
<1>12. device
    BY <1>2 DEF Stages
<1>13. Stages'
    BY <1>2, <1>4, <1>11, <1>12 DEF Stages
<1>14. Owners'
    BY <1>2, <1>4 DEF Owners, Own
<1>15. Heard'
  <2>1. frames' = <<>> => DOMAIN sources' = {x \in Ssrcs : <<call', x>> \in spoken' /\ reader'}
      BY <1>2, <1>3, <1>4, <1>6 DEF Heard
  <2>2. \A x \in DOMAIN sources' : sources'[x] \in {0, call'}
      BY <1>2, <1>4 DEF Heard
  <2>3. \A e \in spoken' : e[1] <= call'
      BY <1>2, <1>4 DEF Heard, TypeOK
  <2> QED
      BY <2>1, <2>2, <2>3 DEF Heard
<1>16. SentInOwnCall'
    BY <1>4 DEF SentInOwnCall
<1> QED
    BY <1>2, <1>10, <1>13, <1>14, <1>15, <1>16

----------------------------------------------------------------------------
(* The other threads *)

LEMMA StepCapture ==
    ASSUME IInv, TypeOK', OnCapturedPCM \/ SendPacket
    PROVE  IInv'
<1> USE DEF IInv
<1>1. /\ state' = state /\ frames' = frames /\ call' = call /\ told' = told /\ inbox' = inbox
      /\ fd' = fd /\ open' = open /\ key' = key /\ reader' = reader
      /\ sources' = sources /\ device' = device /\ spoken' = spoken
    BY DEF OnCapturedPCM, SendPacket, connection, udp
<1>2. capture' = 0 \/ (state = "up" /\ device /\ capture' = call)
    BY DEF OnCapturedPCM, SendPacket
<1>4. sent' = sent
      \/ /\ capture # 0
         /\ sent'.from = capture /\ sent'.by = fd /\ sent'.key = key /\ sent'.through = Descriptor
    BY DEF OnCapturedPCM, SendPacket, SendEncrypted, packets
<1>8. Ordered'
    BY <1>1 DEF Ordered
<1>9. Silent => Silent'
    BY <1>1, <1>2 DEF Silent
<1>10. Handshake'
    BY <1>1, <1>9 DEF Handshake
<1>11. Stages'
    BY <1>1, <1>2 DEF Stages
<1>12. Owners'
    BY <1>1, <1>2 DEF Owners, Own
<1>13. Heard'
    BY <1>1 DEF Heard
<1>14. SentInOwnCall'
  <2>1. CASE sent' = sent
      BY <2>1 DEF SentInOwnCall
  <2>2. CASE sent' # sent
    <3>1. capture # 0 /\ sent'.from = call /\ sent'.by = call /\ sent'.key = call
          /\ sent'.through = Descriptor
        BY <1>4, <2>2 DEF Owners, Own
    <3>2. Descriptor # "stale"
        BY <3>1 DEF Descriptor, Owners
    <3> QED
        BY <3>1, <3>2 DEF SentInOwnCall
  <2> QED
      BY <2>1, <2>2
<1> QED
    BY <1>8, <1>10, <1>11, <1>12, <1>13, <1>14

LEMMA StepPlayback ==
    ASSUME IInv, TypeOK', OnUDPData \/ DataCallback
    PROVE  IInv'
<1> USE DEF IInv
<1>1. /\ state' = state /\ frames' = frames /\ call' = call /\ told' = told /\ inbox' = inbox
      /\ fd' = fd /\ open' = open /\ key' = key /\ reader' = reader /\ device' = device
      /\ capture' = capture /\ spoken' = spoken /\ sent' = sent
    BY DEF OnUDPData, DataCallback, connection, udp, packets
<1>2. /\ sources' \in [DOMAIN sources -> Nat] /\ DOMAIN sources' = DOMAIN sources
      /\ \A s \in DOMAIN sources : sources'[s] \in {0, call}
  <2>1. CASE OnUDPData
    <3>1. reader /\ fd = call
        BY <2>1 DEF OnUDPData, Owners, Own
    <3>2. PICK s \in DOMAIN sources : sources' = [sources EXCEPT ![s] = fd]
        BY <2>1 DEF OnUDPData
    <3> QED
        BY <3>1, <3>2 DEF TypeOK, Heard
  <2>2. CASE DataCallback
    <3>1. sources' = [s \in DOMAIN sources |-> 0]
        BY <2>2 DEF DataCallback
    <3> QED
        BY <3>1
  <2> QED
      BY <2>1, <2>2
<1>3. DOMAIN sources' \subseteq Ssrcs /\ sources' \in [DOMAIN sources' -> Nat]
    BY <1>2 DEF TypeOK
<1>5. Ordered'
    BY <1>1 DEF Ordered
<1>6. Silent' = Silent
    BY <1>1 DEF Silent
<1>7. Handshake'
    BY <1>1, <1>6 DEF Handshake
<1>8. Stages' /\ Owners'
    BY <1>1 DEF Stages, Owners, Own
<1>9. Heard'
    BY <1>1, <1>2 DEF Heard
<1>10. SentInOwnCall'
    BY <1>1 DEF SentInOwnCall
<1> QED
    BY <1>5, <1>7, <1>8, <1>9, <1>10

----------------------------------------------------------------------------
(* The invariant, and what follows from it *)

LEMMA InitIInv == Init => IInv
<1> SUFFICES ASSUME Init PROVE IInv
    OBVIOUS
<1>1. Len(inbox) = 0 /\ DOMAIN sources = {}
    BY EmptySeq DEF Init
<1>2. Ordered /\ Handshake /\ Stages /\ Owners
    BY <1>1 DEF Init, Ordered, Handshake, Stages, Owners, Own
<1>3. Heard /\ SentInOwnCall
    BY <1>1 DEF Init, Heard, SentInOwnCall
<1> QED
    BY <1>2, <1>3, InitTypeOK DEF IInv

LEMMA StepIInv ==
    ASSUME ~Overlap, IInv, [Next]_vars
    PROVE  IInv'
<1>0. TypeOK'
    BY StepTypeOK DEF IInv
<1>1. CASE Next
    BY <1>0, <1>1, StepOrders, StepUDPStop, StepOnVoiceDisconnected, StepServerSends,
       StepHandleGatewayReady, StepHandleGatewaySessionDescription, StepHandleGatewaySpeaking,
       StepCapture, StepPlayback DEF Next
<1>2. CASE UNCHANGED vars
  <2>1. /\ state' = state /\ frames' = frames /\ call' = call /\ told' = told /\ inbox' = inbox
        /\ fd' = fd /\ open' = open /\ key' = key /\ reader' = reader /\ device' = device
        /\ capture' = capture /\ spoken' = spoken /\ sent' = sent /\ sources' = sources
      BY <1>2 DEF vars, connection, udp, packets
  <2>2. Ordered' /\ (Silent' = Silent)
      BY <2>1 DEF IInv, Ordered, Silent
  <2>3. Handshake' /\ Stages' /\ Owners'
      BY <2>1, <2>2 DEF IInv, Handshake, Stages, Owners, Own
  <2>4. Heard' /\ SentInOwnCall'
      BY <2>1 DEF IInv, Heard, SentInOwnCall
  <2> QED
      BY <1>0, <2>2, <2>3, <2>4 DEF IInv
<1> QED
    BY <1>1, <1>2

\* The inductive invariant of each kind of order holds of every behaviour.
THEOREM Invariant ==
    ASSUME ~Overlap
    PROVE  Spec => []IInv
<1>1. Init => IInv
    BY InitIInv
<1>2. IInv /\ [Next]_vars => IInv'
    BY StepIInv
<1> QED
    BY <1>1, <1>2, PTL DEF Spec

\* OnCapturedPCM reads the state, and the call may be over before SendEncrypted: the
\* packet goes over the descriptor of the call it was recorded in, which the Stop that
\* goes on may have closed, and over none that was closed before.
THEOREM SentToItsCall ==
    ASSUME ~Overlap
    PROVE  Spec => []SentInOwnCall
<1>1. IInv => SentInOwnCall
    BY DEF IInv
<1> QED
    BY <1>1, Invariant, PTL

\* OnVoiceConnected and OnVoiceDisconnected start and stop the capture device with
\* the call, whoever ends it and however it is taken up again.
THEOREM CaptureWithCall ==
    ASSUME ~Overlap
    PROVE  Spec => []CaptureFollowsCall
<1>1. IInv => CaptureFollowsCall
  <2> SUFFICES ASSUME IInv, frames = <<>>
               PROVE  (reader => device) /\ (~reader /\ state # "connecting" => ~device)
      BY DEF CaptureFollowsCall
  <2>1. reader => device
      BY DEF IInv, Owners
  <2>2. ASSUME ~reader, state # "connecting" PROVE ~device
    <3>1. ASSUME told # "over" PROVE FALSE
      <4>1. state = "up"
          BY <2>2, <3>1 DEF IInv, TypeOK, Stages
      <4>2. inbox = <<>> \/ Head(inbox) \in Notice
          BY Rest DEF IInv, TypeOK
      <4>3. inbox = <<>> \/ Head(inbox).type \in {"ready", "description", "speaking"}
          BY <4>2 DEF Notice
      <4> QED
          BY <2>2, <3>1, <4>1, <4>3 DEF IInv, TypeOK, Handshake, Silent
    <3> QED
        BY <3>1 DEF IInv, Stages
  <2> QED
      BY <2>1, <2>2
<1> QED
    BY <1>1, Invariant, PTL

\* The sources are those of the call that is read from, and what they hold is of it.
THEOREM SourcesOfCall ==
    ASSUME ~Overlap
    PROVE  Spec => []HeardInThisCall
<1>1. IInv => HeardInThisCall
    BY DEF IInv, Heard, HeardInThisCall
<1> QED
    BY <1>1, Invariant, PTL

----------------------------------------------------------------------------
(* Numbers modulo another *)

\* What is left of a division, and how often it goes.
LEMMA DivMod ==
    ASSUME NEW T \in Nat \ {0}, NEW x \in Nat
    PROVE  \E q \in Nat, r \in 0..(T - 1) : x = T * q + r /\ r = x % T
<1>1. T \in Int /\ T > 0 /\ x \in Int
    OBVIOUS
<1>2. PICK q, r \in Int : x = T * q + r /\ q = x \div T /\ r = x % T
  <2>1. x \div T \in Int /\ x % T \in Int
      BY <1>1
  <2> QED
      BY <1>1, <2>1
<1>3. x \div T \in Nat /\ x % T \in 0..(T - 1)
    BY <1>1
<1> QED
    BY <1>2, <1>3

\* A number has one such division.
LEMMA ModUnique ==
    ASSUME NEW T \in Nat \ {0}, NEW x \in Nat, NEW q \in Nat, NEW r \in 0..(T - 1),
           x = T * q + r
    PROVE  x % T = r
<1>1. PICK p \in Nat, s \in 0..(T - 1) : x = T * p + s /\ s = x % T
    BY DivMod
<1>2. CASE p > q
  <2>1. PICK d \in Nat : p = q + 1 + d
    <3>1. p - q - 1 \in Nat /\ p = q + 1 + (p - q - 1)
        BY <1>2
    <3> QED
        BY <3>1
  <2>2. T * p = T * q + T + T * d /\ T * d >= 0 /\ T * q \in Nat
      BY <2>1
  <2> QED
      BY <1>1, <2>2
<1>3. CASE p < q
  <2>1. PICK d \in Nat : q = p + 1 + d
    <3>1. q - p - 1 \in Nat /\ q = p + 1 + (q - p - 1)
        BY <1>3
    <3> QED
        BY <3>1
  <2>2. T * q = T * p + T + T * d /\ T * d >= 0 /\ T * p \in Nat
      BY <2>1
  <2> QED
      BY <1>1, <2>2
<1>4. CASE p = q
  <2>1. T * p \in Nat /\ T * q = T * p
      BY <1>4
  <2> QED
      BY <1>1, <2>1
<1>5. p > q \/ p < q \/ p = q
    OBVIOUS
<1> QED
    BY <1>2, <1>3, <1>4, <1>5

\* Counting on after the remainder was taken is counting on before it.
LEMMA ModSucc ==
    ASSUME NEW T \in Nat \ {0}, NEW x \in Nat
    PROVE  ((x % T) + 1) % T = (x + 1) % T
<1>1. PICK q \in Nat, r \in 0..(T - 1) : x = T * q + r /\ r = x % T
    BY DivMod
<1>2. CASE r + 1 < T
  <2>1. r + 1 \in 0..(T - 1) /\ x + 1 = T * q + (r + 1) /\ x + 1 \in Nat
    <3>1. T * q \in Nat
        OBVIOUS
    <3> QED
        BY <1>1, <1>2, <3>1
  <2>2. (r + 1) % T = r + 1
      BY <2>1
  <2>3. (x + 1) % T = r + 1
      BY <2>1, ModUnique
  <2> QED
      BY <1>1, <2>2, <2>3
<1>3. CASE r + 1 = T
  <2>1. x + 1 = T * (q + 1) + 0 /\ 0 \in 0..(T - 1) /\ x + 1 \in Nat /\ q + 1 \in Nat
    <3>1. T * q \in Nat /\ T * (q + 1) = T * q + T
        OBVIOUS
    <3> QED
        BY <1>1, <1>3, <3>1
  <2>2. (x + 1) % T = 0
      BY <2>1, ModUnique
  <2>3. (r + 1) % T = 0
      BY <1>3
  <2> QED
      BY <1>1, <2>2, <2>3
<1> QED
    BY <1>2, <1>3

----------------------------------------------------------------------------
(* The time of a packet *)

\* The timestamp is the last packet's, and the time since; it needs no order of the
\* calls.
Linear ==
    /\ clock \in Nat /\ timestamp \in 0..(TsWrap - 1)
    /\ sent.ts \in Nat /\ sent.at \in 0..clock /\ sent.seq = sequence
    /\ timestamp = (sent.ts + (clock - sent.at)) % TsWrap

\* Sending numbers a packet on, and gives it the time of its recording.
Numbered ==
    sent'.seq = (sent.seq + 1) % SeqWrap /\ sent'.seq = sequence'
        /\ sent'.ts = timestamp /\ sent'.at = clock

\* A buffer's time is counted: after no packet, or after its own.
LEMMA StepRecorded ==
    ASSUME Linear, Recorded, Numbered \/ UNCHANGED <<sent, sequence>>
    PROVE  Linear'
<1> USE MediaAssumption DEF Linear
<1>1. clock' = clock + 1 /\ timestamp' = (timestamp + 1) % TsWrap
    BY DEF Recorded
<1>2. clock' \in Nat /\ timestamp' \in 0..(TsWrap - 1)
    BY <1>1
<1>3. CASE Numbered
  <2>1. sent'.ts + (clock' - sent'.at) = timestamp + 1
      BY <1>1, <1>3 DEF Numbered
  <2> QED
      BY <1>1, <1>2, <1>3, <2>1 DEF Numbered
<1>4. CASE UNCHANGED <<sent, sequence>>
  <2> DEFINE x == sent.ts + (clock - sent.at)
  <2>1. x \in Nat /\ sent.ts + (clock' - sent.at) = x + 1
    <3>1. sent.at \in Nat /\ clock - sent.at \in Nat
        OBVIOUS
    <3>2. clock' - sent.at = (clock - sent.at) + 1
        BY <1>1, <3>1
    <3>3. sent.ts \in Nat /\ clock \in Nat
        OBVIOUS
    <3> HIDE DEF Linear
    <3> QED
        BY <3>1, <3>2, <3>3
  <2>2. timestamp' = (x + 1) % TsWrap
    <3>1. timestamp = x % TsWrap
        OBVIOUS
    <3> QED
        BY <1>1, <2>1, <3>1, ModSucc
  <2> QED
      BY <1>1, <1>2, <1>4, <2>1, <2>2
<1> QED
    BY <1>3, <1>4

LEMMA StepLinear ==
    ASSUME Linear, [Next]_vars
    PROVE  Linear' /\ (Numbered \/ UNCHANGED sent)
<1> USE MediaAssumption
<1>1. ASSUME UNCHANGED packets PROVE Linear' /\ UNCHANGED sent
    BY <1>1 DEF Linear, packets
<1>2. CASE Start \/ Stop \/ UDPStop \/ JoinReader \/ OnVoiceDisconnected \/ ServerSends
    BY <1>1, <1>2 DEF Start, Stop, UDPStop, JoinReader, OnVoiceDisconnected, ServerSends, packets
<1>3. CASE HandleGatewayReady \/ HandleGatewaySpeaking
    BY <1>1, <1>3 DEF HandleGatewayReady, HandleGatewaySpeaking, packets, udp
<1>4. CASE HandleGatewaySessionDescription
  <2>1. Numbered /\ UNCHANGED <<timestamp, clock>>
      BY <1>4 DEF HandleGatewaySessionDescription, SendEncrypted, Numbered, Linear
  <2>2. (timestamp + (clock - clock)) % TsWrap = timestamp
      BY DEF Linear
  <2> QED
      BY <2>1, <2>2 DEF Linear, Numbered
<1>5. CASE OnCapturedPCM
  <2>1. CASE UNCHANGED packets
      BY <1>1, <2>1
  <2>2. CASE Recorded /\ UNCHANGED <<capture, sequence, sent>>
      BY <2>2, StepRecorded
  <2> QED
      BY <1>5, <2>1, <2>2 DEF OnCapturedPCM
<1>6. CASE SendPacket
  <2>1. Numbered /\ Recorded
      BY <1>6 DEF SendPacket, SendEncrypted, Numbered, Linear
  <2> QED
      BY <2>1, StepRecorded
<1>7. CASE OnUDPData \/ DataCallback
    BY <1>1, <1>7 DEF OnUDPData, DataCallback, packets
<1>8. CASE UNCHANGED vars
    BY <1>1, <1>8 DEF vars
<1> QED
    BY <1>2, <1>3, <1>4, <1>5, <1>6, <1>7, <1>8 DEF Next

\* The RTP timestamp is counted on for every buffer recorded, whatever was sent of
\* it and in which call, across the wrap at 2^32 too: also when orders overlap.
THEOREM TimeIsLinear == Spec => TimestampsAreLinear
<1>1. Init => Linear
    BY MediaAssumption DEF Init, Linear
<1>2. ASSUME Linear, [Next]_vars PROVE Linear'
    BY <1>2, StepLinear
<1>3. ASSUME Linear, [Next]_vars
      PROVE  [sent' # sent =>
                 /\ sent'.seq = (sent.seq + 1) % SeqWrap
                 /\ sent'.ts = (sent.ts + (sent'.at - sent.at)) % TsWrap]_vars
    BY <1>3, StepLinear DEF Linear, Numbered
<1> QED
    BY <1>1, <1>2, <1>3, PTL DEF Spec, TimestampsAreLinear
=============================================================================
