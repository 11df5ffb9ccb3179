------------------------------- MODULE Media -------------------------------
(***************************************************************************)
(* The sound of a call: the capture device and the packets made of what it *)
(* records, the sources that the other users' packets are decoded into,    *)
(* and the voice connection as far as it starts and stops them.            *)
(*                                                                         *)
(* Four threads share it.  The main thread starts and stops calls and      *)
(* handles the voice server's messages, which Stop serves in a main loop   *)
(* of its own; the capture device's thread encodes and sends, the UDP      *)
(* reader's decodes, the playback device's takes what was decoded.         *)
(*                                                                         *)
(* A buffer is 480 samples, recorded 100 times a second: the RTP timestamp *)
(* is counted in buffers here.  What is in a packet, and whether it is     *)
(* encrypted end to end, is in module Dave; voice activity, the microphone *)
(* button and the deafen button only decide whether a buffer is sent or a  *)
(* packet fed, and are choices here.                                       *)
(***************************************************************************)
EXTENDS Naturals, Sequences

CONSTANTS
    Ssrcs,     \* ssrcs the voice server gives to other users, in any call
    TsWrap,    \* timestamps are modulo this many buffers (2^32 samples in the code)
    SeqWrap,   \* sequence numbers are modulo this (2^16 in the code)
    MaxCalls,  \* calls begun (bound)
    MaxClock,  \* buffers recorded (bound)
    MaxDepth,  \* handlers suspended in Stop (bound)
    Overlap    \* whether an order is handled inside the Stop of another

ASSUME MediaAssumption ==
    /\ TsWrap \in Nat \ {0} /\ SeqWrap \in Nat \ {0, 1}
    /\ MaxCalls \in Nat /\ MaxClock \in Nat /\ MaxDepth \in Nat
    /\ Overlap \in BOOLEAN

VARIABLES
    state,      \* DiscordVoiceClient::m_state: "down", "connecting" or "up"
    frames,     \* Stops under way: whether Start goes on, and how far each is
    call,       \* calls begun; the last is the one the websocket is for
    told,       \* what the server has told of it: "nothing", "ready", "description" or "over"
    inbox,      \* messages of the voice server, queued for the main thread
    fd,         \* m_udp.m_socket: the call its descriptor was made for, 0 before any
    open,       \* whether that descriptor is open
    key,        \* m_udp's secret key: the call it is of, 0 if none yet
    reader,     \* whether UDPSocket's thread runs
    sequence,   \* UDPSocket::m_sequence
    sources,    \* AudioManager::m_sources: ssrc to the call its samples are of, 0 if empty
    device,     \* whether the capture device is started
    capture,    \* its callback: the call a buffer to be sent was recorded in, 0 if none
    timestamp,  \* m_rtp_timestamp
    clock,      \* buffers recorded while a device was started
    sent,       \* the last packet sent
    spoken      \* call and ssrc of every SPEAKING handled

connection == <<state, frames, call, told, inbox>>
udp == <<fd, open, key, reader>>
packets == <<sequence, timestamp, clock, sent>>
vars == <<connection, udp, packets, sources, device, capture, spoken>>

Init ==
    /\ state = "down" /\ frames = <<>> /\ call = 0 /\ told = "over" /\ inbox = <<>>
    /\ fd = 0 /\ open = FALSE /\ key = 0 /\ reader = FALSE /\ sequence = 0
    /\ sources = [s \in {} |-> 0]
    /\ device = FALSE /\ capture = 0 /\ timestamp = 0 /\ clock = 0
    /\ sent = [from |-> 0, by |-> 0, key |-> 0, through |-> "open", seq |-> 0, ts |-> 0, at |-> 0]
    /\ spoken = {}

Top == frames[Len(frames)]
Popped == SubSeq(frames, 1, Len(frames) - 1)

\* The main thread serves its sources: at rest, or in the main loop of a Stop.
MainReady == IF frames = <<>> THEN TRUE ELSE Top.at = "pump"

\* What m_socket is to whoever sends: open, closed by the Stop that waits now, or a
\* number that may be anybody's by now.
Descriptor == IF open THEN "open" ELSE IF frames # <<>> THEN "closing" ELSE "stale"

\* A packet of what was recorded in call c, with key k, as the socket now is.
SendEncrypted(c, k) ==
    /\ sequence' = (sequence + 1) % SeqWrap
    /\ sent' = [from |-> c, by |-> fd, key |-> k, through |-> Descriptor,
                seq |-> sequence', ts |-> timestamp, at |-> clock]

----------------------------------------------------------------------------
(* Orders of the gateway *)

\* A connection is begun, and the capture device with it.
StartUp ==
    /\ state' = "connecting" /\ call' = call + 1 /\ told' = "nothing"
    /\ device' = TRUE

\* SetState and the websocket's stop, up to its main loop.
CallStop(again) ==
    /\ Len(frames) < MaxDepth
    /\ frames' = Append(frames, [again |-> again, at |-> "pump"])
    /\ state' = "down" /\ told' = "over"
    /\ UNCHANGED <<call, device>>

Order == MainReady /\ (frames = <<>> \/ Overlap)

\* VOICE_SERVER_UPDATE.
Start ==
    /\ Order /\ call < MaxCalls
    /\ IF state = "down" THEN StartUp /\ UNCHANGED frames ELSE CallStop(TRUE)
    /\ UNCHANGED <<inbox, udp, packets, sources, capture, spoken>>

\* The user leaves the channel.
Stop ==
    /\ Order /\ state # "down"
    /\ CallStop(FALSE)
    /\ UNCHANGED <<inbox, udp, packets, sources, capture, spoken>>

\* The innermost Stop goes on to its next part.
GoesOn(from, to) ==
    /\ frames # <<>> /\ Top.at = from
    /\ frames' = Append(Popped, [again |-> Top.again, at |-> to])

\* No event is pending: the descriptor is closed, while m_socket keeps its number ...
UDPStop ==
    /\ GoesOn("pump", "join") /\ inbox = <<>>
    /\ open' = FALSE
    /\ UNCHANGED <<state, call, told, inbox, fd, key, reader, packets, sources, device, capture,
                   spoken>>

\* ... and the reader is joined, which may feed what it has received till then.
JoinReader ==
    /\ GoesOn("join", "over")
    /\ reader' = FALSE
    /\ UNCHANGED <<state, call, told, inbox, fd, open, key, packets, sources, device, capture,
                   spoken>>

\* Mutant: the capture device goes on.
BugOnVoiceDisconnected ==
    /\ frames # <<>> /\ Top.at = "over" /\ (Top.again => call < MaxCalls)
    /\ frames' = Popped
    /\ sources' = [s \in {} |-> 0]
    /\ IF Top.again THEN StartUp ELSE UNCHANGED <<state, call, told, device>>
    /\ UNCHANGED <<inbox, udp, packets, capture, spoken>>

\* Mutant: the sources are kept.
BugKeepsSources ==
    /\ frames # <<>> /\ Top.at = "over" /\ (Top.again => call < MaxCalls)
    /\ capture = 0
    /\ frames' = Popped
    /\ IF Top.again THEN StartUp
       ELSE device' = FALSE /\ UNCHANGED <<state, call, told>>
    /\ UNCHANGED <<inbox, udp, packets, sources, capture, spoken>>

\* The end of Stop: the capture device is stopped, which waits for its callback,
\* and every source is removed.  A Start that called Stop goes on.
OnVoiceDisconnected ==
    /\ frames # <<>> /\ Top.at = "over" /\ (Top.again => call < MaxCalls)
    /\ capture = 0
    /\ frames' = Popped
    /\ sources' = [s \in {} |-> 0]
    /\ IF Top.again THEN StartUp
       ELSE device' = FALSE /\ UNCHANGED <<state, call, told>>
    /\ UNCHANGED <<inbox, udp, packets, capture, spoken>>

----------------------------------------------------------------------------
(* The voice server's messages *)

ServerSends ==
    /\ \/ /\ told = "nothing" /\ told' = "ready"
          /\ inbox' = Append(inbox, [type |-> "ready", of |-> call])
       \/ /\ told = "ready" /\ told' = "description"
          /\ inbox' = Append(inbox, [type |-> "description", of |-> call])
       \/ \E s \in Ssrcs :
             /\ told = "description" /\ told' = told
             /\ \A i \in DOMAIN inbox : inbox[i].type # "speaking"
             /\ inbox' = Append(inbox, [type |-> "speaking", of |-> call, ssrc |-> s])
    /\ UNCHANGED <<state, frames, call, udp, packets, sources, device, capture, spoken>>

Message(type) ==
    /\ MainReady /\ inbox # <<>> /\ Head(inbox).type = type
    /\ inbox' = Tail(inbox)
    /\ UNCHANGED <<frames, call, told, device, capture>>

\* UDPSocket::Connect: the socket of this call.
HandleGatewayReady ==
    /\ Message("ready")
    /\ fd' = call /\ open' = TRUE
    /\ UNCHANGED <<state, key, reader, packets, sources, spoken>>

\* The key, a first packet of silence, and the reader.
HandleGatewaySessionDescription ==
    /\ Message("description")
    /\ key' = call /\ reader' = TRUE /\ state' = "up"
    /\ SendEncrypted(call, key')
    /\ UNCHANGED <<fd, open, timestamp, clock, sources, spoken>>

\* AddSSRC: a source for the ssrc, if there is none.
HandleGatewaySpeaking ==
    /\ Message("speaking")
    /\ LET s == Head(inbox).ssrc IN
       /\ sources' = [x \in DOMAIN sources \cup {s} |->
                        IF x \in DOMAIN sources THEN sources[x] ELSE 0]
       /\ spoken' = spoken \cup {<<Head(inbox).of, s>>}
    /\ UNCHANGED <<state, udp, packets>>

----------------------------------------------------------------------------
(* The other threads *)

Recorded == timestamp' = (timestamp + 1) % TsWrap /\ clock' = clock + 1

\* A buffer is recorded.  It is to be sent if it passes OnCapturedPCM's conditions
\* and the client is connected; else its time is counted and nothing else.
OnCapturedPCM ==
    /\ device /\ capture = 0 /\ clock < MaxClock
    /\ \/ state = "up" /\ capture' = call /\ UNCHANGED packets
       \/ Recorded /\ UNCHANGED <<capture, sequence, sent>>
    /\ UNCHANGED <<connection, udp, sources, device, spoken>>

\* Mutant: the time of a buffer is counted before it is sent.
BugSendPacket ==
    /\ capture # 0 /\ capture' = 0
    /\ Recorded
    /\ sequence' = (sequence + 1) % SeqWrap
    /\ sent' = [from |-> capture, by |-> fd, key |-> key, through |-> Descriptor,
                seq |-> sequence', ts |-> timestamp', at |-> clock]
    /\ UNCHANGED <<connection, udp, sources, device, spoken>>

\* The buffer is sent and its time counted.
SendPacket ==
    /\ capture # 0 /\ capture' = 0
    /\ SendEncrypted(capture, key) /\ Recorded
    /\ UNCHANGED <<connection, udp, sources, device, spoken>>

\* A packet of another user, of the call that the socket is for: its samples are
\* kept if its ssrc has a source.
OnUDPData ==
    /\ reader
    /\ \E s \in DOMAIN sources : sources' = [sources EXCEPT ![s] = fd]
    /\ UNCHANGED <<connection, udp, packets, device, capture, spoken>>

\* The playback device takes what there is.
DataCallback ==
    /\ sources' = [s \in DOMAIN sources |-> 0]
    /\ UNCHANGED <<connection, udp, packets, device, capture, spoken>>

----------------------------------------------------------------------------
Next == \/ Start \/ Stop \/ UDPStop \/ JoinReader \/ OnVoiceDisconnected
        \/ ServerSends
        \/ HandleGatewayReady \/ HandleGatewaySessionDescription \/ HandleGatewaySpeaking
        \/ OnCapturedPCM \/ SendPacket \/ OnUDPData \/ DataCallback

Spec == Init /\ [][Next]_vars

----------------------------------------------------------------------------
(* Properties *)

Notice == [type : {"ready", "description"}, of : Nat]
              \cup [type : {"speaking"}, of : Nat, ssrc : Ssrcs]

Packet == [from : Nat, by : Nat, key : Nat, through : {"open", "closing", "stale"},
           seq : Nat, ts : Nat, at : Nat]

Frame == [again : BOOLEAN, at : {"pump", "join", "over"}]

\* Every variable keeps its type.
TypeOK ==
    /\ state \in {"down", "connecting", "up"}
    /\ frames \in Seq(Frame)
    /\ call \in Nat /\ told \in {"nothing", "ready", "description", "over"}
    /\ inbox \in Seq(Notice)
    /\ fd \in Nat /\ open \in BOOLEAN /\ key \in Nat /\ reader \in BOOLEAN /\ sequence \in Nat
    /\ DOMAIN sources \subseteq Ssrcs /\ sources \in [DOMAIN sources -> Nat]
    /\ device \in BOOLEAN /\ capture \in Nat /\ timestamp \in Nat /\ clock \in Nat
    /\ sent \in Packet /\ spoken \subseteq Nat \X Ssrcs

\* A packet is sent over the descriptor of the call it was recorded in, with that
\* call's key: the capture device's thread, which has looked at the state before, sends
\* nothing over the next call's socket.  It does send to a descriptor that is closed
\* (voiceclient.cpp:96 after 115), but only while the Stop that closed it goes on, and
\* to no number left over from an earlier Stop.  Orders must not overlap (Overlap).
SentInOwnCall ==
    sent.by = sent.from /\ sent.key = sent.from /\ sent.through # "stale"

\* While a call is read from, its own voice is recorded; without one, nothing is, if
\* orders do not overlap.
CaptureFollowsCall ==
    frames = <<>> => /\ reader => device
                     /\ ~reader /\ state # "connecting" => ~device

\* A call is heard from everyone who was announced in it and from nobody of an
\* earlier one: ssrcs are given anew in each call.  Orders must not overlap (Overlap).
HeardInThisCall ==
    /\ frames = <<>> =>
          DOMAIN sources = {s \in Ssrcs : <<call, s>> \in spoken /\ reader}
    /\ \A s \in DOMAIN sources : sources[s] \in {0, call}

\* The time between two packets is the time between their recordings, however much
\* was silent in between, and no number is left out.
TimestampsAreLinear ==
    [][sent' # sent =>
          /\ sent'.seq = (sent.seq + 1) % SeqWrap
          /\ sent'.ts = (sent.ts + (sent'.at - sent.at)) % TsWrap]_vars
=============================================================================
