------------------------ MODULE VoiceStatesProofs ------------------------
(***************************************************************************)
(* For every set of users and of channels and every bound: the two maps of *)
(* VoiceStates agree, and MainWindow shows them (IInv); and what is on its *)
(* way from the server makes the maps and the call what they should be     *)
(* (Delivered), so that they are once nothing is.                          *)
(***************************************************************************)
EXTENDS VoiceStates, SequenceTheorems, TLAPS

\* The inductive invariant of the maps: these need no more than the types.
IInv == TypeOK /\ MapsAgree /\ ShownIsCurrent

\* What the steps below need of a change to the maps.
MapsKept == /\ voiceStates' \in [Users -> Place]
            /\ channelUsers' \in [Channels -> SUBSET Users]
            /\ shown' \in [Channels -> SUBSET Users]
            /\ MapsAgree' /\ ShownIsCurrent'

\* The initial maps agree: nobody is anywhere.
LEMMA InitIInv == Init => IInv
<1> SUFFICES ASSUME Init PROVE IInv
    OBVIOUS
<1> USE VoiceStatesAssumption DEF Init
<1>1. TypeOK
    <2>1. inbox \in Seq(Event) /\ outbox \in Seq(Place) /\ frames \in Seq(Frame)
        OBVIOUS
    <2>2. voice \in BOOLEAN /\ linked \in BOOLEAN /\ skipped \in BOOLEAN
        /\ nesting \subseteq {"event", "open"}
        OBVIOUS
    <2> QED BY <2>1, <2>2 DEF TypeOK, Place
<1>2. MapsAgree
    BY DEF MapsAgree
<1>3. ShownIsCurrent
    BY DEF ShownIsCurrent
<1> QED BY <1>1, <1>2, <1>3 DEF IInv

\* SetVoiceState keeps the maps in agreement: a user who is entered has been
\* erased from the one set that held them.
LEMMA SetKeepsMaps ==
    ASSUME IInv, NEW S \in SUBSET Users, NEW f \in [S -> Channels],
           SetVoiceState(f), UpdateUI
    PROVE  MapsKept
<1> USE DEF IInv, TypeOK
<1>1. voiceStates' \in [Users -> Place]
    BY DEF SetVoiceState, Place
<1>2. channelUsers' \in [Channels -> SUBSET Users]
    BY DEF SetVoiceState
<1>3. ASSUME NEW u \in Users, NEW c \in Channels
      PROVE  u \in channelUsers'[c] <=> voiceStates'[u] = c
    <2>1. CASE u \in S
        BY <2>1 DEF SetVoiceState, MapsAgree
    <2>2. CASE u \notin S
        BY <2>2 DEF SetVoiceState, MapsAgree
    <2> QED BY <2>1, <2>2
<1>4. MapsAgree'
    BY <1>3 DEF MapsAgree
<1>5. ShownIsCurrent' /\ shown' \in [Channels -> SUBSET Users]
    BY <1>2 DEF UpdateUI, ShownIsCurrent
<1> QED BY <1>1, <1>2, <1>4, <1>5 DEF MapsKept

\* ClearVoiceState keeps the maps in agreement: the set erased from is the only
\* one with the user.
LEMMA ClearKeepsMaps ==
    ASSUME IInv, NEW u \in Users, ClearVoiceState(u), UpdateUI
    PROVE  MapsKept
<1> USE VoiceStatesAssumption DEF IInv, TypeOK
<1>1. voiceStates' \in [Users -> Place]
    BY DEF ClearVoiceState, Place
<1>2. channelUsers' \in [Channels -> SUBSET Users]
    BY DEF ClearVoiceState
<1>3. ASSUME NEW v \in Users, NEW c \in Channels
      PROVE  v \in channelUsers'[c] <=> voiceStates'[v] = c
    <2>1. CASE v = u
        BY <2>1 DEF ClearVoiceState, MapsAgree
    <2>2. CASE v # u
        BY <2>2 DEF ClearVoiceState, MapsAgree
    <2> QED BY <2>1, <2>2
<1>4. MapsAgree'
    BY <1>3 DEF MapsAgree
<1>5. ShownIsCurrent' /\ shown' \in [Channels -> SUBSET Users]
    BY <1>2 DEF UpdateUI, ShownIsCurrent
<1> QED BY <1>1, <1>2, <1>4, <1>5 DEF MapsKept

\* So does a step that leaves them alone.
LEMMA UnchangedMaps == ASSUME IInv, UNCHANGED maps PROVE MapsKept
BY DEF IInv, TypeOK, MapsKept, MapsAgree, ShownIsCurrent, maps

\* The second half of CheckVoiceState keeps the maps in agreement.
LEMMA ApplyKeepsMaps ==
    ASSUME IInv, NEW u \in Users, NEW c \in Place, Apply(u, c)
    PROVE  MapsKept
<1>1. CASE c # NoChannel /\ SetVoiceState([v \in {u} |-> c]) /\ UpdateUI
    <2>1. [v \in {u} |-> c] \in [{u} -> Channels]
        BY <1>1 DEF Place
    <2> QED BY <1>1, <2>1, SetKeepsMaps
<1>2. CASE ClearVoiceState(u) /\ UpdateUI
    BY <1>2, ClearKeepsMaps
<1>3. CASE UNCHANGED maps
    BY <1>3, UnchangedMaps
<1> QED BY <1>1, <1>2, <1>3 DEF Apply

\* What remains of the types once the maps are kept.
Others == /\ where' \in [Users -> Place] /\ linked' \in BOOLEAN /\ skipped' \in BOOLEAN
          /\ nesting' \subseteq {"event", "open"}
          /\ inbox' \in Seq(Event) /\ outbox' \in Seq(Place)
          /\ voiceChannel' \in Place /\ voice' \in BOOLEAN /\ callChannel' \in Place
          /\ frames' \in Seq(Frame)
          /\ moves' \in 0..MaxMoves /\ clicks' \in 0..MaxClicks /\ drops' \in 0..MaxDrops

\* A step of the server, whatever it sends, keeps the types.
LEMMA ServerStep == ASSUME TypeOK, Server PROVE Others
<1> USE VoiceStatesAssumption DEF TypeOK, Others, maps, call
<1>1. ASSUME NEW u \in Users, NEW c \in Place, NEW paired \in BOOLEAN
      PROVE  Events(u, c, paired) \in Seq(Event)
    <2>1. State(u, c) \in Event /\ ServerUpdate \in Event
        BY DEF Event
    <2> QED BY <2>1 DEF Events
<1>2. ASSUME NEW u \in Users, NEW c \in Place, Moves(u, c)
      PROVE  where' \in [Users -> Place] /\ inbox' \in Seq(Event) /\ skipped' \in BOOLEAN
  <2>1. PICK paired \in BOOLEAN :
           /\ where' = [where EXCEPT ![u] = c]
           /\ inbox' = IF linked THEN inbox \o Events(u, c, paired) ELSE inbox
           /\ skipped' = IF u = Me THEN c # NoChannel /\ ~paired ELSE skipped
    BY <1>2 DEF Moves
  <2>2. skipped' \in BOOLEAN
    BY <2>1
  <2>3. Events(u, c, paired) \in Seq(Event)
    BY <1>1
  <2> QED
    BY <2>1, <2>2, <2>3
<1>3. ASSUME NEW u \in Users, NEW c \in Place, ServerMoves(u, c) PROVE Others
    BY <1>2, <1>3 DEF ServerMoves
<1>4. CASE ServerTakes
    BY <1>2, <1>4 DEF ServerTakes
<1>5. CASE SessionLost
    <2>1. linked' \in BOOLEAN
        BY <1>5 DEF SessionLost
    <2>2. drops' \in 0..MaxDrops
        BY <1>5 DEF SessionLost
    <2>3. outbox' \in Seq(Place)
        BY <1>5 DEF SessionLost
    <2> QED BY <1>5, <2>1, <2>2, <2>3 DEF SessionLost
<1>6. CASE Identified
    <2>1. Supplemental(where) \in Event
        BY DEF Event
    <2> QED BY <1>6, <2>1 DEF Identified
<1> QED BY <1>3, <1>4, <1>5, <1>6 DEF Server

\* Calling Stop suspends one more handler.
LEMMA CallStopTypes ==
    ASSUME TypeOK, NEW fn \in Frame, CallStop(fn)
    PROVE  voice' \in BOOLEAN /\ frames' \in Seq(Frame)
<1>1. voice' \in BOOLEAN
    BY DEF CallStop
<1>2. <<fn>> \in Seq(Frame) /\ frames \in Seq(Frame)
    BY DEF TypeOK
<1>3. frames' \in Seq(Frame)
    BY <1>2 DEF CallStop
<1> QED BY <1>1, <1>3

\* A handler keeps the types.
LEMMA HandlerStep == ASSUME TypeOK, Handlers PROVE Others
<1> USE VoiceStatesAssumption DEF TypeOK, Others, server, call, maps, Takes, Returns, Place, Send
<1>1. ASSUME NEW u \in Users, NEW c \in Place, HandleGatewayVoiceStateUpdate(u, c)
      PROVE  Others
    BY <1>1 DEF HandleGatewayVoiceStateUpdate
<1>2. CASE CheckVoiceStateStops
    <2>1. voice' \in BOOLEAN /\ frames' \in Seq(Frame)
        BY <1>2, CallStopTypes DEF CheckVoiceStateStops, Frame
    <2> QED BY <1>2, <2>1 DEF CheckVoiceStateStops
<1>3. CASE CheckVoiceStateEnds
    BY <1>3 DEF CheckVoiceStateEnds
<1>4. CASE HandleGatewayVoiceServerUpdate
    <2>1. voice' \in BOOLEAN /\ frames' \in Seq(Frame)
        BY <1>4, CallStopTypes DEF HandleGatewayVoiceServerUpdate, Frame
    <2> QED BY <1>4, <2>1 DEF HandleGatewayVoiceServerUpdate
<1>5. CASE VoiceServerUpdateEnds
    BY <1>5 DEF VoiceServerUpdateEnds
<1>6. ASSUME NEW f \in [Users -> Place], HandleGatewayReadySupplemental(f) PROVE Others
    BY <1>6 DEF HandleGatewayReadySupplemental
<1>7. CASE DisconnectEnds
    BY <1>7 DEF DisconnectEnds
<1>8. CASE OnWebsocketOpen
    BY <1>8 DEF OnWebsocketOpen
<1> QED BY <1>1, <1>2, <1>3, <1>4, <1>5, <1>6, <1>7, <1>8 DEF Handlers

\* A click keeps the types.
LEMMA ClickStep == ASSUME TypeOK, Clicks PROVE Others
<1> USE VoiceStatesAssumption DEF TypeOK, Others, server, call, maps, Place, Send
<1>1. ASSUME NEW c \in Channels, ConnectToVoice(c) PROVE Others
    BY <1>1 DEF ConnectToVoice
<1>2. CASE DisconnectFromVoice
    BY <1>2 DEF DisconnectFromVoice
<1>3. CASE DisconnectStops
    <2>1. voice' \in BOOLEAN /\ frames' \in Seq(Frame)
        BY <1>3, CallStopTypes DEF DisconnectStops, Frame
    <2> QED BY <1>3, <2>1 DEF DisconnectStops
<1> QED BY <1>1, <1>2, <1>3 DEF Clicks

\* Every step keeps the invariant.
LEMMA StepIInv == IInv /\ [Next]_vars => IInv'
<1> SUFFICES ASSUME IInv, [Next]_vars PROVE IInv'
    OBVIOUS
<1>1. Others /\ MapsKept => IInv'
    BY DEF IInv, TypeOK, Others, MapsKept
<1>2. CASE Server
    <2>1. UNCHANGED maps
        BY <1>2 DEF Server, ServerMoves, ServerTakes, SessionLost, Identified
    <2> QED BY <1>1, <1>2, <2>1, ServerStep, UnchangedMaps DEF IInv
<1>3. CASE Clicks
    <2>1. UNCHANGED maps
        BY <1>3 DEF Clicks, ConnectToVoice, DisconnectFromVoice, DisconnectStops
    <2> QED BY <1>1, <1>3, <2>1, ClickStep, UnchangedMaps DEF IInv
<1>4. CASE Handlers
    <2>1. Others
        BY <1>4, HandlerStep DEF IInv
    <2>2. ASSUME NEW u \in Users, NEW c \in Place, HandleGatewayVoiceStateUpdate(u, c)
          PROVE  MapsKept
        BY <2>2, ApplyKeepsMaps DEF HandleGatewayVoiceStateUpdate
    <2>3. ASSUME CheckVoiceStateEnds PROVE MapsKept
        <3>1. Me \in Users /\ NoChannel \in Place
            BY VoiceStatesAssumption DEF Place
        <3>2. Apply(Me, NoChannel)
            BY <2>3 DEF CheckVoiceStateEnds
        <3> QED BY <3>1, <3>2, ApplyKeepsMaps
    <2>4. ASSUME NEW f \in [Users -> Place], HandleGatewayReadySupplemental(f)
          PROVE  MapsKept
        <3> DEFINE S == {v \in Users : f[v] # NoChannel}
        <3>1. [u \in S |-> f[u]] \in [S -> Channels]
            BY DEF Place
        <3>2. SetVoiceState([u \in S |-> f[u]]) /\ UpdateUI
            BY <2>4 DEF HandleGatewayReadySupplemental
        <3>3. S \in SUBSET Users
            OBVIOUS
        <3> HIDE DEF S
        <3> QED BY <3>1, <3>2, <3>3, SetKeepsMaps
    <2>5. ASSUME UNCHANGED maps PROVE MapsKept
        BY <2>5, UnchangedMaps
    <2>6. MapsKept
        BY <1>4, <2>2, <2>3, <2>4, <2>5 DEF Handlers, CheckVoiceStateStops,
           HandleGatewayVoiceServerUpdate, VoiceServerUpdateEnds, DisconnectEnds, OnWebsocketOpen
    <2> QED BY <1>1, <2>1, <2>6
<1>5. CASE UNCHANGED vars
    BY <1>5 DEF vars, server, maps, call, IInv, TypeOK, MapsAgree, ShownIsCurrent
<1> QED BY <1>2, <1>3, <1>4, <1>5 DEF Next

\* The invariant holds in every reachable state.
THEOREM Invariance == Spec => []IInv
BY InitIInv, StepIInv, PTL DEF Spec

\* The variables keep their types.
THEOREM TypeCorrect == Spec => []TypeOK
<1>1. IInv => TypeOK
    BY DEF IInv
<1> QED BY <1>1, Invariance, PTL

\* m_voice_states and m_voice_state_channel_users say the same, whatever is
\* handled inside a Stop and whatever sessions are lost.
THEOREM MapsAlwaysAgree == Spec => []MapsAgree
<1>1. IInv => MapsAgree
    BY DEF IInv
<1> QED BY <1>1, Invariance, PTL

\* The channel list is never behind the maps.
THEOREM ListIsCurrent == Spec => []ShownIsCurrent
<1>1. IInv => ShownIsCurrent
    BY DEF IInv
<1> QED BY <1>1, Invariance, PTL
----------------------------------------------------------------------------
(* What is on its way *)

\* An event tells of a user who is in a channel, or leaves; READY_SUPPLEMENTAL tells
\* nothing of a user who is in none.
Tells(e, u) == \/ e.kind = "state" /\ e.user = u
               \/ e.kind = "supplemental" /\ e.states[u] # NoChannel
Says(e, u)  == IF e.kind = "state" THEN e.channel ELSE e.states[u]

\* Once the events of q are handled, a user who was at was is at p: the last that
\* tells of the user says so.
Comes(q, u, was, p) ==
    /\ (\A k \in 1..Len(q) : ~Tells(q[k], u)) => was = p
    /\ \A k \in 1..Len(q) :
          Tells(q[k], u) /\ (\A j \in (k + 1)..Len(q) : ~Tells(q[j], u)) => Says(q[k], u) = p

\* Another user will be where the server has them, once what is on its way is handled:
\* one who is in a channel in any session, one who is in none if no session was lost.
OthersComing ==
    \A u \in Users \ {Me} :
        linked /\ (drops = 0 \/ where[u] # NoChannel) => Comes(inbox, u, voiceStates[u], where[u])

NothingMissed == drops = 0 => linked
OneFrame      == nesting = {} => Len(frames) <= 1

\* No session was lost and nothing is handled inside a Stop: then the same holds of the account,
\* counting what a suspended CheckVoiceState has yet to do.
Strict   == drops = 0 /\ nesting = {}
OwnPlace == IF frames = <<"CheckVoiceState">> THEN NoChannel ELSE voiceStates[Me]

OwnComing == Strict => Comes(inbox, Me, OwnPlace, where[Me])

\* A VOICE_SERVER_UPDATE comes right after an own state that names a channel, and after
\* the last of these it does come, unless the server skipped it.
OwnState(e) == e.kind = "state" /\ e.user = Me
Brings(e)   == OwnState(e) /\ e.channel # NoChannel

LastOwn(q, k) == \A j \in (k + 1)..Len(q) : ~OwnState(q[j])

Paired ==
    Strict => \A k \in 1..Len(inbox) :
       /\ inbox[k].kind # "supplemental"
       /\ inbox[k] = ServerUpdate /\ k > 1 => Brings(inbox[k - 1])
       /\ ~skipped /\ Brings(inbox[k]) /\ LastOwn(inbox, k) =>
             k < Len(inbox) /\ inbox[k + 1] = ServerUpdate

\* A request is on its way that moves the account, so that more will be told.
Contradicted == \E k \in 1..Len(outbox) : outbox[k] # where[Me]

\* The connection is up or about to be.
Up == voice \/ frames = <<"VoiceServerUpdate">>

NoneOwn(q)    == \A k \in 1..Len(q) : ~OwnState(q[k])
ServerNext(q) == q # <<>> /\ Head(q) = ServerUpdate

\* With nothing of the account's own on its way, the connection is that of the channel
\* the server has it in, or will be by the VOICE_SERVER_UPDATE that comes next; only the
\* account's being in a channel is certain if the server skipped that one.
CallComing ==
    Strict /\ NoneOwn(inbox) =>
      /\ ServerNext(inbox) =>
            where[Me] # NoChannel /\ (voiceChannel = where[Me] \/ Contradicted)
      /\ ~ServerNext(inbox) /\ Up =>
            where[Me] # NoChannel /\ (skipped \/ callChannel = where[Me] \/ Contradicted)

Delivered == /\ NothingMissed /\ OneFrame /\ OthersComing
             /\ OwnComing /\ Paired /\ CallComing

\* The elements of a sequence that grew at its end.
LEMMA AppendAt ==
    ASSUME NEW S, NEW q \in Seq(S), NEW e \in S
    PROVE  /\ Append(q, e) \in Seq(S) /\ Len(Append(q, e)) = Len(q) + 1 /\ Len(q) \in Nat
           /\ \A k \in 1..Len(q) : Append(q, e)[k] = q[k]
           /\ Append(q, e)[Len(q) + 1] = e
           /\ Append(q, e) # <<>>
           /\ q # <<>> => Head(Append(q, e)) = Head(q)
           /\ q = <<>> => Head(Append(q, e)) = e
<1>1. /\ Append(q, e) \in Seq(S) /\ Len(Append(q, e)) = Len(q) + 1 /\ Len(q) \in Nat
      /\ \A k \in 1..Len(q) : Append(q, e)[k] = q[k]
      /\ Append(q, e)[Len(q) + 1] = e
      /\ Append(q, e) # <<>>
  BY AppendProperties
<1>2. Head(Append(q, e)) = Append(q, e)[1]
  BY <1>1, HeadTailProperties
<1>3. q # <<>> => Head(q) = q[1] /\ Len(q) # 0
  BY HeadTailProperties, EmptySeq
<1>4. q = <<>> => Len(q) = 0
  OBVIOUS
<1> QED
  BY <1>1, <1>2, <1>3, <1>4

\* The elements of a sequence that lost its head.
LEMMA TailAt ==
    ASSUME NEW S, NEW q \in Seq(S), q # <<>>
    PROVE  /\ Tail(q) \in Seq(S) /\ Len(Tail(q)) = Len(q) - 1 /\ Len(q) \in Nat /\ Len(q) > 0
           /\ \A k \in 1..(Len(q) - 1) : Tail(q)[k] = q[k + 1]
           /\ Head(q) = q[1] /\ q[1] \in S
           /\ Tail(q) # <<>> => Head(Tail(q)) = q[2]
           /\ Tail(q) = <<>> <=> Len(q) = 1
<1>1. /\ Tail(q) \in Seq(S) /\ Len(Tail(q)) = Len(q) - 1 /\ Len(q) \in Nat
      /\ \A k \in 1..Len(Tail(q)) : Tail(q)[k] = q[k + 1]
  BY HeadTailProperties
<1>2. Len(q) # 0 /\ Head(q) = q[1]
  BY HeadTailProperties, EmptySeq
<1>3. q[1] \in S
  BY <1>1, <1>2, ElementOfSeq
<1>4. Tail(q) = <<>> <=> Len(Tail(q)) = 0
  BY <1>1, EmptySeq
<1>5. Tail(q) # <<>> => Head(Tail(q)) = Tail(q)[1]
  BY <1>1, HeadTailProperties
<1>6. Tail(q) # <<>> => 1 \in 1..Len(Tail(q)) /\ 1 + 1 = 2
  BY <1>1, <1>4
<1> QED
  BY <1>1, <1>2, <1>3, <1>4, <1>5, <1>6

\* An event that tells of the user decides, another one changes nothing.
LEMMA ComesAfter ==
    ASSUME NEW q \in Seq(Event), NEW e \in Event, NEW u, NEW was, NEW p,
           IF Tells(e, u) THEN Says(e, u) = p ELSE Comes(q, u, was, p)
    PROVE  Comes(Append(q, e), u, was, p)
<1> DEFINE r == Append(q, e)
<1>1. /\ Len(r) = Len(q) + 1 /\ Len(q) \in Nat /\ r[Len(q) + 1] = e
      /\ \A k \in 1..Len(q) : r[k] = q[k]
  BY AppendAt
<1> HIDE DEF r
<1>2. CASE Tells(e, u)
  BY <1>1, <1>2 DEF Comes
<1>3. CASE ~Tells(e, u)
  <2>1. (\A k \in 1..Len(r) : ~Tells(r[k], u)) => \A k \in 1..Len(q) : ~Tells(q[k], u)
    BY <1>1
  <2>2. ASSUME NEW k \in 1..Len(r), Tells(r[k], u), \A j \in (k + 1)..Len(r) : ~Tells(r[j], u)
        PROVE  Says(r[k], u) = p
    <3>1. k \in 1..Len(q)
      BY <1>1, <1>3, <2>2
    <3>2. \A j \in (k + 1)..Len(q) : j \in (k + 1)..Len(r) /\ r[j] = q[j]
      BY <1>1, <3>1
    <3> QED
      BY <1>1, <1>3, <2>2, <3>1, <3>2 DEF Comes
  <2> QED
    BY <1>3, <2>1, <2>2 DEF Comes
<1> QED
  BY <1>2, <1>3 DEF r

\* Handling an event is to be where it says.
LEMMA ComesOn ==
    ASSUME NEW q \in Seq(Event), q # <<>>, NEW u, NEW was, NEW p, Comes(q, u, was, p)
    PROVE  Comes(Tail(q), u, IF Tells(Head(q), u) THEN Says(Head(q), u) ELSE was, p)
<1> DEFINE r == Tail(q)
<1>1. /\ Len(r) = Len(q) - 1 /\ Len(q) \in Nat /\ Len(q) > 0 /\ Head(q) = q[1]
      /\ \A k \in 1..(Len(q) - 1) : r[k] = q[k + 1]
  BY TailAt
<1> HIDE DEF r
<1>2. ASSUME \A k \in 1..Len(r) : ~Tells(r[k], u)
      PROVE  (IF Tells(q[1], u) THEN Says(q[1], u) ELSE was) = p
  <2>1. \A j \in 2..Len(q) : ~Tells(q[j], u)
    <3> SUFFICES ASSUME NEW j \in 2..Len(q) PROVE ~Tells(q[j], u)
      OBVIOUS
    <3>1. j - 1 \in 1..Len(r) /\ r[j - 1] = q[(j - 1) + 1] /\ (j - 1) + 1 = j
      BY <1>1
    <3> QED
      BY <1>2, <3>1
  <2>2. \A k \in 1..Len(q) : k = 1 \/ k \in 2..Len(q)
    BY <1>1
  <2>3. 1 \in 1..Len(q) /\ 1 + 1 = 2
    BY <1>1
  <2> QED
    BY <2>1, <2>2, <2>3 DEF Comes
<1>3. ASSUME NEW k \in 1..Len(r), Tells(r[k], u), \A j \in (k + 1)..Len(r) : ~Tells(r[j], u)
      PROVE  Says(r[k], u) = p
  <2>1. k + 1 \in 1..Len(q) /\ r[k] = q[k + 1]
    BY <1>1
  <2>2. ASSUME NEW j \in ((k + 1) + 1)..Len(q) PROVE ~Tells(q[j], u)
    <3>1. j - 1 \in (k + 1)..Len(r) /\ r[j - 1] = q[(j - 1) + 1] /\ (j - 1) + 1 = j
      BY <1>1
    <3> QED
      BY <1>3, <3>1
  <2> QED
    BY <1>3, <2>1, <2>2 DEF Comes
<1> QED
  BY <1>1, <1>2, <1>3 DEF Comes, r
----------------------------------------------------------------------------
(* The events of the inbox *)

\* What an event is and tells.
LEMMA EventsTell ==
    ASSUME NEW v \in Users, NEW u \in Users, NEW c \in Place
    PROVE  /\ State(u, c) \in Event /\ ServerUpdate \in Event
           /\ Tells(State(u, c), v) <=> u = v
           /\ Says(State(u, c), u) = c
           /\ ~Tells(ServerUpdate, v) /\ ~OwnState(ServerUpdate) /\ ~Brings(ServerUpdate)
           /\ OwnState(State(u, c)) <=> u = Me
           /\ Brings(State(u, c)) <=> u = Me /\ c # NoChannel
           /\ State(u, c) # ServerUpdate
           /\ State(u, c).kind # "supplemental" /\ ServerUpdate.kind # "supplemental"
<1>1. State(u, c).kind = "state" /\ State(u, c).user = u /\ State(u, c).channel = c
      /\ ServerUpdate.kind = "server"
  BY DEF State, ServerUpdate
<1>2. State(u, c) \in Event /\ ServerUpdate \in Event
  BY DEF Event
<1>3. State(u, c) # ServerUpdate
  BY <1>1
<1> QED
  BY <1>1, <1>2, <1>3 DEF Tells, Says, OwnState, Brings

\* Without READY_SUPPLEMENTAL, what tells of the account is its own states.
LEMMA OwnTells ==
    ASSUME NEW e, e.kind # "supplemental"
    PROVE  Tells(e, Me) <=> OwnState(e)
  BY DEF Tells, OwnState

\* An event that is no VOICE_SERVER_UPDATE comes at the end: not the account's own, which
\* changes nothing of what the server skipped, or an own state that needs none.
LEMMA PairedAfter ==
    ASSUME IInv, Paired, NEW e \in Event, inbox' = Append(inbox, e), Strict' <=> Strict,
           e.kind # "supplemental", e # ServerUpdate, Brings(e) => skipped',
           ~OwnState(e) => skipped' = skipped
    PROVE  Paired'
<1>1. inbox \in Seq(Event)
  BY DEF IInv, TypeOK
<1>2. /\ Len(inbox') = Len(inbox) + 1 /\ Len(inbox) \in Nat /\ inbox'[Len(inbox) + 1] = e
      /\ \A k \in 1..Len(inbox) : inbox'[k] = inbox[k]
  BY <1>1, AppendAt
<1> SUFFICES ASSUME Strict, NEW k \in 1..Len(inbox')
             PROVE  /\ inbox'[k].kind # "supplemental"
                    /\ inbox'[k] = ServerUpdate /\ k > 1 => Brings(inbox'[k - 1])
                    /\ ~skipped' /\ Brings(inbox'[k]) /\ LastOwn(inbox', k) =>
                          k < Len(inbox') /\ inbox'[k + 1] = ServerUpdate
  BY DEF Paired
<1>3. CASE k = Len(inbox) + 1
  BY <1>2, <1>3
<1>4. CASE k \in 1..Len(inbox)
  <2>1. inbox'[k] = inbox[k] /\ (k > 1 => k - 1 \in 1..Len(inbox))
        /\ (k < Len(inbox) => k + 1 \in 1..Len(inbox))
    BY <1>2, <1>4
  <2>2. /\ inbox[k].kind # "supplemental"
        /\ inbox[k] = ServerUpdate /\ k > 1 => Brings(inbox[k - 1])
        /\ ~skipped /\ Brings(inbox[k]) /\ LastOwn(inbox, k) =>
              k < Len(inbox) /\ inbox[k + 1] = ServerUpdate
    BY <1>4 DEF Paired
  <2>3. LastOwn(inbox', k) => ~OwnState(e) /\ LastOwn(inbox, k)
    <3>1. Len(inbox) + 1 \in (k + 1)..Len(inbox')
      BY <1>2, <1>4
    <3>2. \A j \in (k + 1)..Len(inbox) : j \in (k + 1)..Len(inbox') /\ inbox'[j] = inbox[j]
      BY <1>2, <1>4
    <3> QED
      BY <1>2, <3>1, <3>2 DEF LastOwn
  <2>4. ~skipped' /\ Brings(inbox'[k]) /\ LastOwn(inbox', k) =>
            k < Len(inbox) /\ inbox[k + 1] = ServerUpdate
    BY <2>1, <2>2, <2>3
  <2>5. k < Len(inbox) => k < Len(inbox') /\ inbox'[k + 1] = inbox[k + 1]
    BY <1>2, <2>1
  <2>6. inbox'[k] = ServerUpdate /\ k > 1 => Brings(inbox'[k - 1])
    BY <1>2, <2>1, <2>2
  <2> QED
    BY <2>1, <2>2, <2>4, <2>5, <2>6
<1> QED
  BY <1>2, <1>3, <1>4

\* An own state comes at the end with its VOICE_SERVER_UPDATE.
LEMMA PairedAfterBoth ==
    ASSUME IInv, Paired, NEW e \in Event, Brings(e),
           inbox' = Append(Append(inbox, e), ServerUpdate), Strict' <=> Strict
    PROVE  Paired'
<1> DEFINE n == Len(inbox)
<1>1. inbox \in Seq(Event) /\ ServerUpdate \in Event
  BY DEF IInv, TypeOK, Event
<1>2. /\ Append(inbox, e) \in Seq(Event) /\ Len(Append(inbox, e)) = n + 1 /\ n \in Nat
      /\ Append(inbox, e)[n + 1] = e
      /\ \A k \in 1..n : Append(inbox, e)[k] = inbox[k]
  BY <1>1, AppendAt
<1>3. /\ Len(inbox') = Len(Append(inbox, e)) + 1
      /\ inbox'[Len(Append(inbox, e)) + 1] = ServerUpdate
      /\ \A k \in 1..Len(Append(inbox, e)) : inbox'[k] = Append(inbox, e)[k]
  BY <1>1, <1>2, AppendAt
<1>4. /\ Len(inbox') = n + 2 /\ inbox'[n + 1] = e /\ inbox'[n + 2] = ServerUpdate
      /\ \A k \in 1..n : inbox'[k] = inbox[k]
  BY <1>2, <1>3
<1>5. e.kind = "state" /\ ServerUpdate.kind = "server" /\ e # ServerUpdate /\ ~Brings(ServerUpdate)
  BY DEF Brings, OwnState, ServerUpdate
<1> SUFFICES ASSUME Strict, NEW k \in 1..Len(inbox')
             PROVE  /\ inbox'[k].kind # "supplemental"
                    /\ inbox'[k] = ServerUpdate /\ k > 1 => Brings(inbox'[k - 1])
                    /\ ~skipped' /\ Brings(inbox'[k]) /\ LastOwn(inbox', k) =>
                          k < Len(inbox') /\ inbox'[k + 1] = ServerUpdate
  BY DEF Paired
<1>6. CASE k = n + 1
  <2>1. k + 1 = n + 2
    BY <1>2, <1>6
  <2> QED
    BY <1>2, <1>4, <1>5, <1>6, <2>1
<1>7. CASE k = n + 2
  <2>1. k - 1 = n + 1
    BY <1>2, <1>7
  <2> QED
    BY <1>2, <1>4, <1>5, <1>7, <2>1
<1>8. CASE k \in 1..n
  <2>1. inbox'[k] = inbox[k] /\ (k > 1 => k - 1 \in 1..n) /\ (k < n => k + 1 \in 1..n)
    BY <1>2, <1>4, <1>8
  <2>2. /\ inbox[k].kind # "supplemental"
        /\ inbox[k] = ServerUpdate /\ k > 1 => Brings(inbox[k - 1])
    BY <1>8 DEF Paired
  <2>3. ~LastOwn(inbox', k)
    <3>1. n + 1 \in (k + 1)..Len(inbox')
      BY <1>2, <1>4, <1>8
    <3> QED
      BY <1>4, <3>1 DEF LastOwn, Brings
  <2> QED
    BY <1>2, <1>4, <1>8, <2>1, <2>2, <2>3
<1> QED
  BY <1>2, <1>4, <1>6, <1>7, <1>8

\* What is left once the head is taken.
LEMMA PairedOn ==
    ASSUME IInv, Paired, Strict, inbox # <<>>, inbox' = Tail(inbox),
           UNCHANGED skipped
    PROVE  /\ Paired'
           /\ ~skipped /\ Brings(Head(inbox)) /\ NoneOwn(inbox') => ServerNext(inbox')
           /\ ~Brings(Head(inbox)) => ~ServerNext(inbox')
           /\ ~OwnState(Head(inbox)) /\ NoneOwn(inbox') => NoneOwn(inbox)
           /\ NoneOwn(inbox') <=> \A k \in 1..Len(inbox') : ~Tells(inbox'[k], Me)
           /\ Tells(Head(inbox), Me) <=> OwnState(Head(inbox))
<1> DEFINE n == Len(inbox)
<1>1. inbox \in Seq(Event)
  BY DEF IInv, TypeOK
<1>2. /\ Len(inbox') = n - 1 /\ n \in Nat /\ n > 0 /\ Head(inbox) = inbox[1]
      /\ \A k \in 1..(n - 1) : inbox'[k] = inbox[k + 1]
      /\ inbox' # <<>> => Head(inbox') = inbox[2]
      /\ inbox' = <<>> <=> n = 1
  BY <1>1, TailAt
<1>3. \A k \in 1..n :
         /\ inbox[k].kind # "supplemental"
         /\ inbox[k] = ServerUpdate /\ k > 1 => Brings(inbox[k - 1])
         /\ ~skipped /\ Brings(inbox[k]) /\ LastOwn(inbox, k) =>
               k < n /\ inbox[k + 1] = ServerUpdate
  BY DEF Paired
<1>4. Paired'
  <2> SUFFICES ASSUME NEW k \in 1..Len(inbox')
               PROVE  /\ inbox'[k].kind # "supplemental"
                      /\ inbox'[k] = ServerUpdate /\ k > 1 => Brings(inbox'[k - 1])
                      /\ ~skipped /\ Brings(inbox'[k]) /\ LastOwn(inbox', k) =>
                            k < Len(inbox') /\ inbox'[k + 1] = ServerUpdate
    BY DEF Paired
  <2>1. k + 1 \in 1..n /\ inbox'[k] = inbox[k + 1] /\ (k + 1) - 1 = k
    BY <1>2
  <2>2. k > 1 => inbox'[k - 1] = inbox[k]
    <3>1. k > 1 => k - 1 \in 1..(n - 1) /\ (k - 1) + 1 = k
      BY <1>2
    <3> QED
      BY <1>2, <3>1
  <2>3. k + 1 < n => inbox'[k + 1] = inbox[(k + 1) + 1]
    BY <1>2
  <2>4. LastOwn(inbox', k) => LastOwn(inbox, k + 1)
    <3> SUFFICES ASSUME LastOwn(inbox', k), NEW j \in ((k + 1) + 1)..n
                 PROVE  ~OwnState(inbox[j])
      BY DEF LastOwn
    <3>1. j - 1 \in (k + 1)..Len(inbox') /\ inbox'[j - 1] = inbox[(j - 1) + 1]
          /\ (j - 1) + 1 = j
      BY <1>2
    <3> QED
      BY <3>1 DEF LastOwn
  <2>5. ~skipped /\ Brings(inbox'[k]) /\ LastOwn(inbox', k) =>
            k + 1 < n /\ inbox[(k + 1) + 1] = ServerUpdate
    BY <1>3, <2>1, <2>4
  <2>6. k + 1 < n => k < Len(inbox')
    BY <1>2
  <2>7. inbox'[k] = ServerUpdate /\ k > 1 => Brings(inbox'[k - 1])
    BY <1>2, <1>3, <2>1, <2>2
  <2> QED
    BY <1>3, <2>1, <2>3, <2>5, <2>6, <2>7
<1>5. 1 \in 1..n /\ 1 + 1 = 2 /\ (n # 1 => 2 \in 1..n /\ 2 > 1 /\ 2 - 1 = 1)
  BY <1>2
<1>6. ServerNext(inbox') => Brings(Head(inbox))
  BY <1>2, <1>3, <1>5 DEF ServerNext
<1>10. ASSUME ~skipped, Brings(Head(inbox)), NoneOwn(inbox') PROVE ServerNext(inbox')
  <2>1. LastOwn(inbox, 1)
    <3> SUFFICES ASSUME NEW j \in (1 + 1)..n PROVE ~OwnState(inbox[j])
      BY DEF LastOwn
    <3>1. j - 1 \in 1..(n - 1) /\ (j - 1) + 1 = j
      BY <1>2
    <3> QED
      BY <1>2, <1>10, <3>1 DEF NoneOwn
  <2>2. 1 < n /\ inbox[1 + 1] = ServerUpdate
    BY <1>2, <1>3, <1>5, <1>10, <2>1
  <2> QED
    BY <1>2, <1>5, <2>2 DEF ServerNext
<1>7. ASSUME ~OwnState(Head(inbox)), NoneOwn(inbox') PROVE NoneOwn(inbox)
  <2> SUFFICES ASSUME NEW k \in 1..n PROVE ~OwnState(inbox[k])
    BY DEF NoneOwn
  <2>1. CASE k = 1
    BY <1>2, <1>7, <2>1
  <2>2. CASE k # 1
    <3>1. k - 1 \in 1..(n - 1) /\ (k - 1) + 1 = k
      BY <1>2, <2>2
    <3> QED
      BY <1>2, <1>7, <3>1 DEF NoneOwn
  <2> QED
    BY <2>1, <2>2
<1>8. NoneOwn(inbox') <=> \A k \in 1..Len(inbox') : ~Tells(inbox'[k], Me)
  BY <1>4, OwnTells DEF Paired, NoneOwn
<1>9. Tells(Head(inbox), Me) <=> OwnState(Head(inbox))
  BY <1>2, <1>3, <1>5, OwnTells
<1> QED
  BY <1>4, <1>6, <1>7, <1>8, <1>9, <1>10
----------------------------------------------------------------------------
(* The steps *)

\* Whoever is moved is told, while there is a session.
LEMMA MovesDeliver ==
    ASSUME IInv, Delivered, NEW u \in Users, NEW c \in Place, c # where[u], Moves(u, c),
           UNCHANGED <<linked, nesting, drops, voiceStates, call, frames>>,
           u # Me => UNCHANGED outbox
    PROVE  Delivered'
<1> USE VoiceStatesAssumption
<1>0. PICK paired \in BOOLEAN :
         /\ where' = [where EXCEPT ![u] = c]
         /\ inbox' = IF linked THEN inbox \o Events(u, c, paired) ELSE inbox
         /\ skipped' = IF u = Me THEN c # NoChannel /\ ~paired ELSE skipped
  BY DEF Moves
<1>1. /\ where' = [where EXCEPT ![u] = c] /\ inbox \in Seq(Event)
      /\ where \in [Users -> Place] /\ skipped \in BOOLEAN
  BY <1>0 DEF IInv, TypeOK
<1>2. where'[u] = c /\ \A v \in Users : v # u => where'[v] = where[v]
  BY <1>1
<1>3. NothingMissed' /\ OneFrame' /\ (Strict' <=> Strict) /\ OwnPlace' = OwnPlace
      /\ (Up' <=> Up)
  BY DEF Delivered, NothingMissed, OneFrame, Strict, OwnPlace, Up, call
<1>4. CASE ~linked
  <2>1. ~Strict /\ ~Strict' /\ ~linked'
    BY <1>3, <1>4 DEF Delivered, NothingMissed, Strict
  <2> QED
    BY <1>3, <2>1 DEF Delivered, OthersComing, OwnComing, Paired, CallComing
<1>5. CASE linked
  <2> DEFINE r == Append(inbox, State(u, c))
  <2>1. State(u, c) \in Event /\ ServerUpdate \in Event
    BY EventsTell
  <2>2. r \in Seq(Event) /\ Len(r) = Len(inbox) + 1 /\ Len(inbox) \in Nat
        /\ r[Len(inbox) + 1] = State(u, c)
        /\ (inbox # <<>> => Head(r) = Head(inbox)) /\ (inbox = <<>> => Head(r) = State(u, c))
        /\ r # <<>>
    BY <1>1, <2>1, AppendAt
  <2>3. inbox' = IF u = Me /\ c # NoChannel /\ paired THEN Append(r, ServerUpdate) ELSE r
    <3>1. inbox' = inbox \o Events(u, c, paired)
      BY <1>0, <1>5
    <3>2. CASE u = Me /\ c # NoChannel /\ paired
      <4>1. Events(u, c, paired) = <<State(u, c), ServerUpdate>>
        BY <3>2 DEF Events
      <4>2. inbox \o <<State(u, c), ServerUpdate>> = Append(r, ServerUpdate)
        BY <1>1, <2>1
      <4> QED
        BY <3>1, <3>2, <4>1, <4>2
    <3>3. CASE ~(u = Me /\ c # NoChannel /\ paired)
      <4>1. Events(u, c, paired) = <<State(u, c)>>
        BY <3>3 DEF Events
      <4>2. inbox \o <<State(u, c)>> = r
        BY <1>1, <2>1
      <4> QED
        BY <3>1, <3>3, <4>1, <4>2
    <3> QED
      BY <3>2, <3>3
  <2> HIDE DEF r
  <2>4. ASSUME NEW v \in Users, NEW was, v # u => Comes(inbox, v, was, where[v])
        PROVE  Comes(inbox', v, was, where'[v])
    <3>1. /\ Tells(State(u, c), v) <=> u = v
          /\ Says(State(u, c), u) = c /\ ~Tells(ServerUpdate, v)
      BY EventsTell
    <3>2. Comes(r, v, was, where'[v])
      BY <1>1, <1>2, <2>1, <2>4, <3>1, ComesAfter DEF r
    <3>3. Comes(Append(r, ServerUpdate), v, was, where'[v])
      BY <2>1, <2>2, <3>1, <3>2, ComesAfter
    <3> QED
      BY <2>3, <3>2, <3>3
  <2>5. OthersComing'
    <3> SUFFICES ASSUME NEW v \in Users \ {Me}, linked', drops' = 0 \/ where'[v] # NoChannel
                 PROVE  Comes(inbox', v, voiceStates'[v], where'[v])
      BY DEF OthersComing
    <3>1. v # u => Comes(inbox, v, voiceStates[v], where[v])
      BY <1>2, <1>5 DEF Delivered, OthersComing
    <3> QED
      BY <2>4, <3>1
  <2>6. OwnComing'
    <3> SUFFICES ASSUME Strict PROVE Comes(inbox', Me, OwnPlace, where'[Me])
      BY <1>3 DEF OwnComing
    <3>1. Comes(inbox, Me, OwnPlace, where[Me])
      BY DEF Delivered, OwnComing
    <3> QED
      BY <2>4, <3>1
  <2>7. Paired'
    <3>1. /\ Brings(State(u, c)) <=> u = Me /\ c # NoChannel
          /\ State(u, c) # ServerUpdate /\ State(u, c).kind # "supplemental"
          /\ OwnState(State(u, c)) <=> u = Me
      BY EventsTell
    <3>4. /\ Brings(State(u, c)) /\ ~paired => skipped'
          /\ ~OwnState(State(u, c)) => skipped' = skipped
      BY <1>0, <3>1
    <3>2. CASE u = Me /\ c # NoChannel /\ paired
      BY <1>3, <2>1, <2>3, <3>1, <3>2, PairedAfterBoth DEF Delivered, r
    <3>3. CASE ~(u = Me /\ c # NoChannel /\ paired)
      BY <1>3, <2>1, <2>3, <3>1, <3>3, <3>4, PairedAfter DEF Delivered, r
    <3> QED
      BY <3>2, <3>3
  <2>8. CallComing'
    <3> SUFFICES ASSUME Strict, NoneOwn(inbox')
                 PROVE  /\ ServerNext(inbox') =>
                             where'[Me] # NoChannel /\ (voiceChannel' = where'[Me] \/ Contradicted')
                        /\ ~ServerNext(inbox') /\ Up' =>
                             where'[Me] # NoChannel /\ (skipped' \/ callChannel' = where'[Me] \/ Contradicted')
      BY <1>3 DEF CallComing
    <3>1. OwnState(State(u, c)) <=> u = Me
      BY EventsTell
    <3>2. /\ Len(Append(r, ServerUpdate)) = Len(r) + 1
          /\ \A k \in 1..Len(r) : Append(r, ServerUpdate)[k] = r[k]
      BY <2>1, <2>2, AppendAt
    <3>3. u # Me
      <4> SUFFICES ASSUME u = Me PROVE FALSE
        OBVIOUS
      <4>1. Len(inbox) + 1 \in 1..Len(inbox') /\ inbox'[Len(inbox) + 1] = State(u, c)
        BY <2>2, <2>3, <3>2
      <4> QED
        BY <3>1, <4>1 DEF NoneOwn
    <3>4. inbox' = r /\ UNCHANGED <<outbox, voiceChannel, callChannel, skipped>>
          /\ where'[Me] = where[Me]
      BY <1>0, <1>2, <2>3, <3>3 DEF call
    <3>5. Contradicted' <=> Contradicted
      BY <3>4 DEF Contradicted
    <3>6. NoneOwn(inbox)
      <4>1. \A k \in 1..Len(inbox) : k \in 1..Len(r) /\ r[k] = inbox[k]
        BY <1>1, <2>1, <2>2, AppendAt DEF r
      <4> QED
        BY <3>4, <4>1 DEF NoneOwn
    <3>7. ServerNext(inbox') <=> ServerNext(inbox)
      <4>1. State(u, c) # ServerUpdate
        BY EventsTell
      <4> QED
        BY <2>2, <3>4, <4>1 DEF ServerNext
    <3> QED
      BY <1>3, <3>4, <3>5, <3>6, <3>7 DEF Delivered, CallComing
  <2> QED
    BY <1>3, <2>5, <2>6, <2>7, <2>8 DEF Delivered
<1> QED
  BY <1>4, <1>5

\* A request that changes nothing contradicted nothing.
LEMMA TakenContradicts ==
    ASSUME TypeOK, outbox # <<>>, outbox' = Tail(outbox), Head(outbox) = where[Me],
           UNCHANGED where, Contradicted
    PROVE  Contradicted'
<1>1. /\ Len(outbox') = Len(outbox) - 1 /\ Len(outbox) \in Nat /\ Head(outbox) = outbox[1]
      /\ \A k \in 1..(Len(outbox) - 1) : outbox'[k] = outbox[k + 1]
  BY TailAt DEF TypeOK
<1>2. PICK k \in 1..Len(outbox) : outbox[k] # where[Me]
  BY DEF Contradicted
<1>3. k # 1
  BY <1>1, <1>2
<1>4. k - 1 \in 1..Len(outbox') /\ outbox'[k - 1] = outbox[(k - 1) + 1] /\ (k - 1) + 1 = k
  BY <1>1, <1>3
<1> QED
  BY <1>2, <1>4 DEF Contradicted

\* A request more contradicts what was contradicted.
LEMMA SentContradicts ==
    ASSUME TypeOK, NEW c \in Place, Send(c), UNCHANGED where
    PROVE  /\ Contradicted => Contradicted'
           /\ linked /\ c # where[Me] => Contradicted'
<1>1. CASE ~linked
  BY <1>1 DEF Send, Contradicted
<1>2. CASE linked
  <2>1. /\ Len(outbox') = Len(outbox) + 1 /\ Len(outbox) \in Nat
        /\ \A k \in 1..Len(outbox) : outbox'[k] = outbox[k]
        /\ outbox'[Len(outbox) + 1] = c
    BY <1>2, AppendAt DEF Send, TypeOK
  <2>2. /\ Len(outbox) + 1 \in 1..Len(outbox')
        /\ \A k \in 1..Len(outbox) : k \in 1..Len(outbox')
    BY <2>1
  <2> QED
    BY <2>1, <2>2 DEF Contradicted
<1> QED
  BY <1>1, <1>2

\* A step that leaves what is on its way, the maps and the place of a suspended
\* handler alone, and the call as far as it is coming.
LEMMA KeepsDelivered ==
    ASSUME IInv, Delivered,
           UNCHANGED <<where, linked, skipped, nesting, drops, inbox, voiceStates>>,
           OneFrame', Strict => OwnPlace' = OwnPlace,
           Strict => (Contradicted => Contradicted'),
           Strict => (voiceChannel' = voiceChannel \/ voiceChannel' = where[Me] \/ Contradicted'),
           Strict => callChannel' = callChannel, Strict => (Up' => Up)
    PROVE  Delivered'
<1>1. NothingMissed' /\ OthersComing' /\ Paired' /\ (Strict' <=> Strict)
  BY DEF Delivered, NothingMissed, OthersComing, Paired, Strict
<1>2. OwnComing'
  BY <1>1 DEF Delivered, OwnComing
<1>3. CallComing'
  BY <1>1 DEF Delivered, CallComing
<1> QED
  BY <1>1, <1>2, <1>3 DEF Delivered

\* The server's steps.
LEMMA ServerDelivers == ASSUME IInv, Delivered, Server PROVE Delivered'
<1> USE VoiceStatesAssumption
<1>1. ASSUME NEW u \in Users, NEW c \in Place, ServerMoves(u, c) PROVE Delivered'
  <2>1. /\ c # where[u] /\ Moves(u, c)
        /\ UNCHANGED <<linked, nesting, drops, voiceStates, call, frames, outbox>>
    BY <1>1 DEF ServerMoves, maps
  <2> QED
    BY <2>1, MovesDeliver
<1>2. ASSUME ServerTakes, Head(outbox) # where[Me] PROVE Delivered'
  <2>1. /\ Moves(Me, Head(outbox))
        /\ UNCHANGED <<linked, nesting, drops, voiceStates, call, frames>>
    BY <1>2 DEF ServerTakes, maps
  <2>2. Head(outbox) \in Place
    BY <1>2, TailAt DEF ServerTakes, IInv, TypeOK
  <2> QED
    BY <1>2, <2>1, <2>2, MovesDeliver
<1>3. ASSUME ServerTakes, Head(outbox) = where[Me] PROVE Delivered'
  <2>1. /\ outbox # <<>> /\ outbox' = Tail(outbox)
        /\ UNCHANGED <<where, inbox, linked, skipped, nesting, drops, voiceStates, voice, voiceChannel,
                       callChannel, frames>>
    BY <1>3 DEF ServerTakes, maps, call
  <2>2. Contradicted => Contradicted'
    BY <1>3, <2>1, TakenContradicts DEF IInv
  <2>3. OneFrame' /\ OwnPlace' = OwnPlace /\ (Up' <=> Up)
    BY <2>1 DEF Delivered, OneFrame, OwnPlace, Up
  <2> QED
    BY <2>1, <2>2, <2>3, KeepsDelivered
<1>4. ASSUME SessionLost PROVE Delivered'
  <2>1. ~linked' /\ drops' = drops + 1 /\ drops \in Nat /\ UNCHANGED <<nesting, frames>>
    BY <1>4 DEF SessionLost, IInv, TypeOK
  <2>2. drops' # 0
    BY <2>1
  <2> QED
    BY <2>1, <2>2 DEF Delivered, NothingMissed, OneFrame, OthersComing, OwnComing, Paired,
                      CallComing, Strict
<1>5. ASSUME Identified PROVE Delivered'
  <2>1. /\ linked' /\ drops # 0 /\ inbox' = Append(inbox, Supplemental(where))
        /\ UNCHANGED <<where, nesting, drops, voiceStates, frames>>
    BY <1>5 DEF Identified, maps, Delivered, NothingMissed
  <2>2. OthersComing'
    <3> SUFFICES ASSUME NEW u \in Users \ {Me}, where[u] # NoChannel
                 PROVE  Comes(inbox', u, voiceStates[u], where[u])
      BY <2>1 DEF OthersComing
    <3> DEFINE e == Supplemental(where)
    <3>1. e \in Event /\ inbox \in Seq(Event)
      BY DEF Event, IInv, TypeOK
    <3>2. Tells(e, u) /\ Says(e, u) = where[u]
      BY DEF Supplemental, Tells, Says
    <3> HIDE DEF e
    <3> QED
      BY <2>1, <3>1, <3>2, ComesAfter DEF e
  <2> QED
    BY <2>1, <2>2 DEF Delivered, NothingMissed, OneFrame, OwnComing, Paired, CallComing, Strict
<1> QED
  BY <1>1, <1>2, <1>3, <1>4, <1>5 DEF Server
\* The second half of CheckVoiceState puts the user where it is told.
LEMMA ApplyPuts ==
    ASSUME TypeOK, NEW u \in Users, NEW c \in Place, Apply(u, c)
    PROVE  \A v \in Users : voiceStates'[v] = IF v = u THEN c ELSE voiceStates[v]
<1>1. voiceStates \in [Users -> Place]
  BY DEF TypeOK
<1>2. CASE SetVoiceState([v \in {u} |-> c])
  BY <1>1, <1>2 DEF SetVoiceState
<1>3. CASE c = NoChannel /\ ClearVoiceState(u)
  BY <1>1, <1>3 DEF ClearVoiceState
<1>4. CASE c = NoChannel /\ voiceStates[u] = NoChannel /\ UNCHANGED maps
  BY <1>4 DEF maps
<1> QED
  BY <1>2, <1>3, <1>4 DEF Apply

\* Handling the event at the head: the others' part.
LEMMA HandledOthers ==
    ASSUME IInv, Delivered, inbox # <<>>, inbox' = Tail(inbox),
           UNCHANGED <<where, linked, drops>>,
           \A v \in Users \ {Me} :
              voiceStates'[v] = IF Tells(Head(inbox), v) THEN Says(Head(inbox), v) ELSE voiceStates[v]
    PROVE  OthersComing' /\ NothingMissed'
<1>1. inbox \in Seq(Event)
  BY DEF IInv, TypeOK
<1>2. ASSUME NEW v \in Users \ {Me}, linked, drops = 0 \/ where[v] # NoChannel
      PROVE  Comes(inbox', v, voiceStates'[v], where[v])
  <2>1. Comes(inbox, v, voiceStates[v], where[v])
    BY <1>2 DEF Delivered, OthersComing
  <2> QED
    BY <1>1, <2>1, ComesOn
<1> QED
  BY <1>2 DEF Delivered, NothingMissed, OthersComing

\* ... and the account's.
LEMMA HandledOwn ==
    ASSUME IInv, Delivered, inbox # <<>>, inbox' = Tail(inbox), UNCHANGED <<where, skipped, nesting, drops>>,
           Strict => OwnPlace' = IF Tells(Head(inbox), Me) THEN Says(Head(inbox), Me) ELSE OwnPlace
    PROVE  OwnComing' /\ Paired' /\ (Strict' <=> Strict)
<1>1. inbox \in Seq(Event) /\ (Strict' <=> Strict)
  BY DEF IInv, TypeOK, Strict
<1>2. ASSUME Strict PROVE Comes(inbox', Me, OwnPlace', where[Me])
  <2>1. Comes(inbox, Me, OwnPlace, where[Me])
    BY <1>2 DEF Delivered, OwnComing
  <2>2. Comes(inbox', Me, IF Tells(Head(inbox), Me) THEN Says(Head(inbox), Me) ELSE OwnPlace,
              where[Me])
    BY <1>1, <2>1, ComesOn
  <2> QED
    BY <1>2, <2>2
<1>3. OwnComing'
  BY <1>1, <1>2 DEF OwnComing
<1>4. Paired'
  BY <1>1, PairedOn DEF Delivered, Paired
<1> QED
  BY <1>1, <1>3, <1>4

\* No handler is suspended when an event is handled and nothing is handled inside a Stop.
LEMMA ReadyAlone == ASSUME Ready, Strict PROVE frames = <<>>
  BY DEF Ready, Strict

\* A suspended handler that returns was alone, when nothing is handled inside a Stop.
LEMMA ReturnsAlone ==
    ASSUME IInv, Delivered, NEW fn, Returns(fn), UNCHANGED nesting
    PROVE  /\ OneFrame'
           /\ Strict => frames = <<fn>> /\ frames' = <<>>
<1>1. /\ frames \in Seq(Frame) /\ frames # <<>> /\ Head(frames) = fn /\ frames' = Tail(frames)
  BY DEF Returns, IInv, TypeOK
<1>2. /\ Len(frames') = Len(frames) - 1 /\ Len(frames) \in Nat /\ Len(frames) > 0
      /\ frames' = <<>> <=> Len(frames) = 1
      /\ frames' \in Seq(Frame)
  BY <1>1, TailAt
<1>3. nesting = {} => Len(frames) = 1
  BY <1>2 DEF Delivered, OneFrame
<1>4. nesting = {} => frames' = <<>>
  BY <1>2, <1>3
<1>6. Len(<<>>) <= 1
  OBVIOUS
<1>7. OneFrame'
  BY <1>4, <1>6 DEF OneFrame
<1>5. Len(frames) = 1 => frames = <<Head(frames)>>
  BY <1>1
<1> QED
  BY <1>1, <1>3, <1>4, <1>5, <1>7 DEF Strict

\* The handlers' steps.
LEMMA HandlersDeliver == ASSUME IInv, Delivered, Handlers PROVE Delivered'
<1> USE VoiceStatesAssumption
<1>0. inbox \in Seq(Event) /\ frames \in Seq(Frame) /\ Me \in Users /\ NoChannel \in Place
  BY DEF IInv, TypeOK, Place
<1>1. ASSUME NEW u \in Users, NEW c \in Place, HandleGatewayVoiceStateUpdate(u, c)
      PROVE  Delivered'
  <2>1. /\ Ready /\ inbox # <<>> /\ Head(inbox) = State(u, c) /\ inbox' = Tail(inbox)
        /\ u = Me /\ c = NoChannel => ~voice
        /\ voiceChannel' = IF u = Me /\ c # NoChannel THEN c ELSE voiceChannel
        /\ Apply(u, c)
        /\ UNCHANGED <<where, linked, skipped, nesting, drops, outbox, voice, callChannel, frames>>
    BY <1>1 DEF HandleGatewayVoiceStateUpdate, Takes, server
  <2>2. \A v \in Users : voiceStates'[v] = IF v = u THEN c ELSE voiceStates[v]
    BY <2>1, ApplyPuts DEF IInv
  <2>3. /\ \A v \in Users : Tells(State(u, c), v) <=> u = v
        /\ Says(State(u, c), u) = c
        /\ OwnState(State(u, c)) <=> u = Me
        /\ Brings(State(u, c)) <=> u = Me /\ c # NoChannel
        /\ State(u, c) # ServerUpdate
    BY EventsTell
  <2>4. OthersComing' /\ NothingMissed'
    BY <2>1, <2>2, <2>3, HandledOthers
  <2>5. Strict => frames = <<>> /\ OwnPlace' = voiceStates'[Me] /\ OwnPlace = voiceStates[Me]
    BY <2>1, ReadyAlone DEF OwnPlace
  <2>6. OwnComing' /\ Paired' /\ (Strict' <=> Strict)
    BY <1>0, <2>1, <2>2, <2>3, <2>5, HandledOwn
  <2>7. OneFrame'
    BY <2>1 DEF Delivered, OneFrame
  <2>8. CallComing'
    <3> SUFFICES ASSUME Strict, NoneOwn(inbox')
                 PROVE  /\ ServerNext(inbox') =>
                             where'[Me] # NoChannel /\ (voiceChannel' = where'[Me] \/ Contradicted')
                        /\ ~ServerNext(inbox') /\ Up' =>
                             where'[Me] # NoChannel /\ (skipped' \/ callChannel' = where'[Me] \/ Contradicted')
      BY <2>6 DEF CallComing
    <3>1. /\ ~skipped /\ Brings(State(u, c)) => ServerNext(inbox')
          /\ ~Brings(State(u, c)) => ~ServerNext(inbox')
          /\ ~OwnState(State(u, c)) => NoneOwn(inbox)
          /\ \A k \in 1..Len(inbox') : ~Tells(inbox'[k], Me)
      BY <2>1, PairedOn DEF Delivered
    <3>2. OwnPlace' = where[Me]
      BY <2>1, <2>6, <3>1 DEF OwnComing, Comes
    <3>3. (Contradicted' <=> Contradicted) /\ (Up' <=> Up)
      BY <2>1 DEF Contradicted, Up
    <3>4. CASE u = Me /\ c # NoChannel
      BY <1>0, <2>1, <2>2, <2>3, <2>5, <3>1, <3>2, <3>4
    <3>5. CASE u = Me /\ c = NoChannel
      <4>1. ~Up'
        BY <2>1, <2>5, <3>5 DEF Up
      <4> QED
        BY <2>3, <3>1, <3>5, <4>1
    <3>6. CASE u # Me
      <4>1. ~ServerNext(inbox) /\ ~ServerNext(inbox') /\ NoneOwn(inbox)
        BY <2>1, <2>3, <3>1, <3>6 DEF ServerNext
      <4> QED
        BY <2>1, <3>3, <4>1 DEF Delivered, CallComing
    <3> QED
      BY <3>4, <3>5, <3>6
  <2> QED
    BY <2>4, <2>6, <2>7, <2>8 DEF Delivered
<1>2. ASSUME CheckVoiceStateStops PROVE Delivered'
  <2>1. /\ Ready /\ inbox # <<>> /\ Head(inbox) = State(Me, NoChannel) /\ inbox' = Tail(inbox)
        /\ ~voice' /\ frames' = <<"CheckVoiceState">> \o frames
        /\ UNCHANGED <<where, linked, skipped, nesting, drops, outbox, voiceStates, voiceChannel, callChannel>>
    BY <1>2 DEF CheckVoiceStateStops, Takes, CallStop, server, maps
  <2>2. /\ \A v \in Users : Tells(State(Me, NoChannel), v) <=> Me = v
        /\ Says(State(Me, NoChannel), Me) = NoChannel
        /\ ~Brings(State(Me, NoChannel))
    BY <1>0, EventsTell
  <2>3. nesting = {} => frames' = <<"CheckVoiceState">>
    <3>1. nesting = {} => frames = <<>>
      BY <2>1 DEF Ready
    <3> QED
      BY <2>1, <3>1
  <2>4. OthersComing' /\ NothingMissed'
    BY <2>1, <2>2, HandledOthers
  <2>5. Strict => OwnPlace' = NoChannel /\ ~Up'
    BY <2>1, <2>3 DEF Strict, OwnPlace, Up
  <2>6. OwnComing' /\ Paired' /\ (Strict' <=> Strict)
    BY <1>0, <2>1, <2>2, <2>5, HandledOwn
  <2>7. OneFrame'
    <3>1. Len(<<"CheckVoiceState">>) = 1
      OBVIOUS
    <3> QED
      BY <2>1, <2>3, <3>1 DEF OneFrame
  <2>8. CallComing'
    <3>1. Strict => ~ServerNext(inbox')
      BY <2>1, <2>2, PairedOn DEF Delivered
    <3> QED
      BY <2>5, <2>6, <3>1 DEF CallComing
  <2> QED
    BY <2>4, <2>6, <2>7, <2>8 DEF Delivered
<1>3. ASSUME CheckVoiceStateEnds PROVE Delivered'
  <2>1. /\ Returns("CheckVoiceState") /\ Apply(Me, NoChannel)
        /\ UNCHANGED <<where, linked, skipped, nesting, drops, inbox, outbox, voice, voiceChannel, callChannel>>
    BY <1>3 DEF CheckVoiceStateEnds, server, call
  <2>2. \A v \in Users : voiceStates'[v] = IF v = Me THEN NoChannel ELSE voiceStates[v]
    BY <1>0, <2>1, ApplyPuts DEF IInv
  <2>3. OneFrame' /\ (Strict => frames = <<"CheckVoiceState">> /\ frames' = <<>>)
    BY <2>1, ReturnsAlone
  <2>4. OthersComing' /\ NothingMissed'
    BY <2>1, <2>2 DEF Delivered, OthersComing, NothingMissed
  <2>5. (Strict' <=> Strict) /\ (Strict => OwnPlace' = OwnPlace /\ (Up' <=> Up))
    <3>1. <<>> # <<"CheckVoiceState">> /\ <<>> # <<"VoiceServerUpdate">>
          /\ <<"CheckVoiceState">> # <<"VoiceServerUpdate">>
      OBVIOUS
    <3> QED
      BY <1>0, <2>1, <2>2, <2>3, <3>1 DEF Strict, OwnPlace, Up
  <2>6. OwnComing' /\ Paired'
    BY <2>1, <2>5 DEF Delivered, OwnComing, Paired
  <2>7. CallComing'
    BY <2>1, <2>5 DEF Delivered, CallComing, Contradicted
  <2> QED
    BY <2>3, <2>4, <2>6, <2>7 DEF Delivered
<1>4. ASSUME HandleGatewayVoiceServerUpdate PROVE Delivered'
  <2>1. /\ Ready /\ inbox # <<>> /\ Head(inbox) = ServerUpdate /\ inbox' = Tail(inbox)
        /\ callChannel' = voiceChannel
        /\ frames' = frames \/ frames' = <<"VoiceServerUpdate">> \o frames
        /\ UNCHANGED <<where, linked, skipped, nesting, drops, outbox, voiceStates, voiceChannel>>
    BY <1>4 DEF HandleGatewayVoiceServerUpdate, Takes, CallStop, server, maps
  <2>2. \A v \in Users : ~Tells(ServerUpdate, v)
    BY <1>0, EventsTell
  <2>3. nesting = {} => frames = <<>> /\ (frames' = <<>> \/ frames' = <<"VoiceServerUpdate">>)
    <3>1. nesting = {} => frames = <<>>
      BY <2>1 DEF Ready
    <3> QED
      BY <2>1, <3>1
  <2>4. OthersComing' /\ NothingMissed'
    BY <2>1, <2>2, HandledOthers
  <2>5. Strict => OwnPlace' = OwnPlace
    <3>1. <<>> # <<"CheckVoiceState">> /\ <<"CheckVoiceState">> # <<"VoiceServerUpdate">>
      OBVIOUS
    <3> QED
      BY <2>1, <2>3, <3>1 DEF Strict, OwnPlace
  <2>6. OwnComing' /\ Paired' /\ (Strict' <=> Strict)
    BY <1>0, <2>1, <2>2, <2>5, HandledOwn
  <2>7. OneFrame'
    <3>1. Len(<<"VoiceServerUpdate">>) <= 1 /\ Len(<<>>) <= 1
      OBVIOUS
    <3>2. nesting = {} => Len(frames') <= 1
      BY <2>3, <3>1
    <3> QED
      BY <2>1, <3>2 DEF OneFrame
  <2>8. CallComing'
    <3>1. Strict => ~ServerNext(inbox') /\ (NoneOwn(inbox') => NoneOwn(inbox)) /\ ServerNext(inbox)
      <4>1. ~OwnState(ServerUpdate) /\ ~Brings(ServerUpdate)
        BY <1>0, EventsTell
      <4> QED
        BY <2>1, <4>1, PairedOn DEF Delivered, ServerNext
    <3> QED
      BY <2>1, <2>6, <3>1 DEF Delivered, CallComing, Contradicted
  <2> QED
    BY <2>4, <2>6, <2>7, <2>8 DEF Delivered
<1>5. ASSUME VoiceServerUpdateEnds PROVE Delivered'
  <2>1. /\ Returns("VoiceServerUpdate")
        /\ UNCHANGED <<where, linked, skipped, nesting, drops, inbox, outbox, voiceStates, voiceChannel,
                       callChannel>>
    BY <1>5 DEF VoiceServerUpdateEnds, server, maps
  <2>2. OneFrame' /\ (Strict => frames = <<"VoiceServerUpdate">> /\ frames' = <<>>)
    BY <2>1, ReturnsAlone
  <2>3. Strict => OwnPlace' = OwnPlace /\ Up
    <3>1. <<>> # <<"CheckVoiceState">> /\ <<"CheckVoiceState">> # <<"VoiceServerUpdate">>
      OBVIOUS
    <3> QED
      BY <2>1, <2>2, <3>1 DEF OwnPlace, Up
  <2>4. Contradicted => Contradicted'
    BY <2>1 DEF Contradicted
  <2> QED
    BY <2>1, <2>2, <2>3, <2>4, KeepsDelivered
<1>6. ASSUME NEW f \in [Users -> Place], HandleGatewayReadySupplemental(f) PROVE Delivered'
  <2>1. /\ Ready /\ inbox # <<>> /\ Head(inbox) = Supplemental(f) /\ inbox' = Tail(inbox)
        /\ SetVoiceState([u \in {v \in Users : f[v] # NoChannel} |-> f[u]])
        /\ UNCHANGED <<where, linked, skipped, nesting, drops, frames>>
    BY <1>6 DEF HandleGatewayReadySupplemental, Takes, server
  <2>2. ~Strict /\ ~Strict'
    <3>1. Supplemental(f).kind = "supplemental"
      BY DEF Supplemental
    <3>2. Len(inbox) > 0 /\ Len(inbox) \in Nat /\ Head(inbox) = inbox[1]
      BY <1>0, <2>1, TailAt
    <3>3. 1 \in 1..Len(inbox)
      BY <3>2
    <3> QED
      BY <2>1, <3>1, <3>2, <3>3 DEF Delivered, Paired, Strict
  <2>3. \A v \in Users :
           voiceStates'[v] = IF Tells(Supplemental(f), v) THEN Says(Supplemental(f), v)
                                                          ELSE voiceStates[v]
    <3>1. \A v \in Users : voiceStates'[v] = IF f[v] # NoChannel THEN f[v] ELSE voiceStates[v]
      BY <2>1 DEF SetVoiceState
    <3> QED
      BY <3>1 DEF Tells, Says, Supplemental
  <2>4. OthersComing' /\ NothingMissed'
    BY <2>1, <2>3, HandledOthers
  <2> QED
    BY <2>1, <2>2, <2>4 DEF Delivered, OneFrame, OwnComing, Paired, CallComing
<1>7. ASSUME DisconnectEnds PROVE Delivered'
  <2>1. /\ Returns("DisconnectFromVoice") /\ Send(NoChannel)
        /\ UNCHANGED <<where, linked, skipped, nesting, drops, inbox, voiceStates, voice, voiceChannel,
                       callChannel>>
    BY <1>7 DEF DisconnectEnds, server, maps, call
  <2>2. OneFrame' /\ (Strict => frames = <<"DisconnectFromVoice">> /\ frames' = <<>>)
    BY <2>1, ReturnsAlone
  <2>3. Strict => OwnPlace' = OwnPlace /\ (Up' <=> Up)
    <3>1. /\ <<>> # <<"CheckVoiceState">> /\ <<"CheckVoiceState">> # <<"DisconnectFromVoice">>
          /\ <<>> # <<"VoiceServerUpdate">> /\ <<"VoiceServerUpdate">> # <<"DisconnectFromVoice">>
      OBVIOUS
    <3> QED
      BY <2>1, <2>2, <3>1 DEF OwnPlace, Up
  <2>4. Contradicted => Contradicted'
    BY <1>0, <2>1, SentContradicts DEF IInv
  <2> QED
    BY <2>1, <2>2, <2>3, <2>4, KeepsDelivered
<1>8. ASSUME OnWebsocketOpen PROVE Delivered'
  <2>1. /\ "open" \in nesting
        /\ UNCHANGED <<where, linked, skipped, nesting, drops, inbox, voiceStates, frames>>
    BY <1>8 DEF OnWebsocketOpen, server, maps
  <2>2. ~Strict /\ OneFrame'
    BY <2>1 DEF Strict, Delivered, OneFrame
  <2> QED
    BY <2>1, <2>2, KeepsDelivered
<1> QED
  BY <1>1, <1>2, <1>3, <1>4, <1>5, <1>6, <1>7, <1>8 DEF Handlers

\* The clicks: a request may contradict the server, and a Stop may be under way.
LEMMA ClicksDeliver == ASSUME IInv, Delivered, Clicks PROVE Delivered'
<1> USE VoiceStatesAssumption
<1>1. ASSUME NEW c \in Channels, ConnectToVoice(c) PROVE Delivered'
  <2>1. /\ voiceChannel' = c /\ Send(c) /\ c \in Place
        /\ UNCHANGED <<where, linked, skipped, nesting, drops, inbox, voiceStates, voice, callChannel, frames>>
    BY <1>1 DEF ConnectToVoice, server, maps, Place
  <2>2. (Contradicted => Contradicted') /\ (linked /\ c # where[Me] => Contradicted')
    BY <2>1, SentContradicts DEF IInv
  <2>3. Strict => linked
    BY DEF Delivered, NothingMissed, Strict
  <2>4. OneFrame' /\ OwnPlace' = OwnPlace /\ (Up' <=> Up)
    BY <2>1 DEF Delivered, OneFrame, OwnPlace, Up
  <2> QED
    BY <2>1, <2>2, <2>3, <2>4, KeepsDelivered
<1>2. ASSUME DisconnectFromVoice PROVE Delivered'
  <2>1. /\ Send(NoChannel) /\ NoChannel \in Place
        /\ UNCHANGED <<where, linked, skipped, nesting, drops, inbox, voiceStates, voice, voiceChannel,
                       callChannel, frames>>
    BY <1>2 DEF DisconnectFromVoice, server, maps, call, Place
  <2>2. Contradicted => Contradicted'
    BY <2>1, SentContradicts DEF IInv
  <2>3. OneFrame' /\ OwnPlace' = OwnPlace /\ (Up' <=> Up)
    BY <2>1 DEF Delivered, OneFrame, OwnPlace, Up
  <2> QED
    BY <2>1, <2>2, <2>3, KeepsDelivered
<1>3. ASSUME DisconnectStops PROVE Delivered'
  <2>1. /\ Ready /\ ~voice' /\ frames' = <<"DisconnectFromVoice">> \o frames
        /\ UNCHANGED <<where, linked, skipped, nesting, drops, inbox, outbox, voiceStates, voiceChannel,
                       callChannel>>
    BY <1>3 DEF DisconnectStops, CallStop, server, maps
  <2>2. nesting = {} => frames = <<>> /\ frames' = <<"DisconnectFromVoice">>
    <3>1. nesting = {} => frames = <<>>
      BY <2>1 DEF Ready
    <3> QED
      BY <2>1, <3>1
  <2>3. OneFrame'
    <3>1. Len(<<"DisconnectFromVoice">>) = 1
      OBVIOUS
    <3> QED
      BY <2>1, <2>2, <3>1 DEF OneFrame
  <2>4. Strict => OwnPlace' = OwnPlace /\ ~Up'
    <3>1. /\ <<>> # <<"CheckVoiceState">> /\ <<"CheckVoiceState">> # <<"DisconnectFromVoice">>
          /\ <<"VoiceServerUpdate">> # <<"DisconnectFromVoice">>
      OBVIOUS
    <3> QED
      BY <2>1, <2>2, <3>1 DEF Strict, OwnPlace, Up
  <2>5. Contradicted => Contradicted'
    BY <2>1 DEF Contradicted
  <2> QED
    BY <2>1, <2>3, <2>4, <2>5, KeepsDelivered
<1> QED
  BY <1>1, <1>2, <1>3 DEF Clicks

\* At first nothing is on its way, nobody is anywhere and there is no call.
LEMMA InitDelivered == Init => Delivered
<1> SUFFICES ASSUME Init PROVE Delivered
  OBVIOUS
<1>1. /\ linked /\ frames = <<>> /\ inbox = <<>> /\ voice = FALSE
      /\ where = [u \in Users |-> NoChannel] /\ voiceStates = [u \in Users |-> NoChannel]
  BY DEF Init
<1>2. Len(<<>>) = 0 /\ 1..0 = {}
  OBVIOUS
<1>3. NothingMissed /\ OneFrame /\ Paired
  BY <1>1, <1>2 DEF NothingMissed, OneFrame, Paired
<1>4. OthersComing /\ OwnComing
  BY <1>1, <1>2, VoiceStatesAssumption DEF OthersComing, OwnComing, OwnPlace, Comes
<1>5. CallComing
  <2>1. ~Up /\ ~ServerNext(inbox)
    BY <1>1 DEF Up, ServerNext
  <2> QED
    BY <2>1 DEF CallComing
<1> QED
  BY <1>3, <1>4, <1>5 DEF Delivered

\* What is on its way makes the maps what they should be for the other users, whatever
\* sessions are lost (who is in no channel: if none is); and, while no session is lost and
\* nothing is handled inside a Stop, for the account too, with its call.
THEOREM OnItsWay == Spec => []Delivered
<1>1. ASSUME IInv, Delivered, [Next]_vars PROVE Delivered'
  <2>1. CASE UNCHANGED vars
    <3>1. UNCHANGED <<where, linked, skipped, nesting, drops, inbox, outbox, voiceStates, voice,
                      voiceChannel, callChannel, frames>>
      BY <2>1 DEF vars, server, maps, call
    <3>2. OneFrame'
      BY <1>1, <3>1 DEF Delivered, OneFrame
    <3>3. OwnPlace' = OwnPlace /\ (Up' <=> Up)
      BY <3>1 DEF OwnPlace, Up
    <3>4. Contradicted => Contradicted'
      BY <3>1 DEF Contradicted
    <3> QED
      BY <1>1, <3>1, <3>2, <3>3, <3>4, KeepsDelivered
  <2> QED
    BY <1>1, <2>1, ServerDelivers, HandlersDeliver, ClicksDeliver DEF Next
<1> QED
  BY <1>1, InitDelivered, Invariance, PTL DEF Spec

\* With nothing on its way, a user is where the last word put them.
LEMMA NothingToCome ==
    ASSUME NEW u, NEW was, NEW p, Comes(<<>>, u, was, p)
    PROVE  was = p
<1>1. Len(<<>>) = 0 /\ 1..0 = {}
  OBVIOUS
<1> QED
  BY <1>1 DEF Comes

\* Another user who is in a channel is listed there once all that is under way is
\* handled, whatever sessions were lost and whatever is handled inside a Stop.
THEOREM OthersAreListed == Spec => []PresentAreListed
<1>1. Delivered => PresentAreListed
  BY NothingToCome DEF Delivered, OthersComing, PresentAreListed, CaughtUp
<1> QED
  BY <1>1, OnItsWay, PTL

\* While no session is lost and nothing is handled inside a Stop, the maps follow the server.
THEOREM MapsFollowServer == Spec => []FollowsServer
<1>1. IInv /\ Delivered => FollowsServer
  <2> SUFFICES ASSUME IInv, Delivered, InOrder PROVE voiceStates = where
    BY DEF FollowsServer
  <2>1. /\ linked /\ inbox = <<>> /\ frames = <<>> /\ drops = 0 /\ Strict
    BY DEF InOrder, CaughtUp, Strict
  <2>2. \A u \in Users \ {Me} : voiceStates[u] = where[u]
    BY <2>1, NothingToCome DEF Delivered, OthersComing
  <2>3. voiceStates[Me] = where[Me]
    <3>1. OwnPlace = voiceStates[Me]
      BY <2>1 DEF OwnPlace
    <3> QED
      BY <2>1, <3>1, NothingToCome DEF Delivered, OwnComing
  <2>4. voiceStates \in [Users -> Place] /\ where \in [Users -> Place]
    BY DEF IInv, TypeOK
  <2> QED
    BY <2>2, <2>3, <2>4
<1> QED
  BY <1>1, OnItsWay, Invariance, PTL

\* ... and the voice connection is down when the server has the account in no channel,
\* and that of the account's channel when the server told of the last move with a
\* VOICE_SERVER_UPDATE.
THEOREM CallIsOwn == Spec => []OwnCall
<1>1. Delivered => OwnCall
  <2> SUFFICES ASSUME Delivered, InOrder
               PROVE  voice => where[Me] # NoChannel /\ (skipped \/ callChannel = where[Me])
    BY DEF OwnCall
  <2>1. inbox = <<>> /\ outbox = <<>> /\ Strict /\ Len(<<>>) = 0 /\ 1..0 = {}
    BY DEF InOrder, CaughtUp, Strict
  <2>2. NoneOwn(inbox) /\ ~ServerNext(inbox) /\ ~Contradicted
    BY <2>1 DEF NoneOwn, ServerNext, Contradicted
  <2> QED
    BY <2>1, <2>2 DEF Delivered, CallComing, Up
<1> QED
  BY <1>1, OnItsWay, PTL
=============================================================================
