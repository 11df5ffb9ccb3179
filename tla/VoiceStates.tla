---------------------------- MODULE VoiceStates ----------------------------
(***************************************************************************)
(* Who is in which voice channel: DiscordClient's two maps of it           *)
(* (discord.cpp), the events of the main gateway that feed them, the list  *)
(* MainWindow draws from them and the clicks it turns into requests.  The  *)
(* voice connection itself (module VoiceClient) is here only up or down;   *)
(* what matters of it is that stopping it runs the main loop, so that the  *)
(* events that follow are handled before the handler that called Stop      *)
(* goes on.                                                                *)
(***************************************************************************)
EXTENDS Naturals, Sequences

CONSTANTS
    Users,      \* users of one guild
    Me,         \* m_user_data.ID
    Channels,   \* its voice channels
    NoChannel,  \* a null channel_id, Snowflake::Invalid
    MaxMoves,   \* moves the server makes by itself (bound)
    MaxClicks,  \* rows activated by the user (bound)
    MaxDrops,   \* sessions lost for good (bound)
    Nesting     \* what the main loop inside Stop may handle: sets of "event" and "open"

ASSUME VoiceStatesAssumption ==
    /\ Me \in Users /\ NoChannel \notin Channels
    /\ MaxMoves \in Nat /\ MaxClicks \in Nat /\ MaxDrops \in Nat
    /\ Nesting \subseteq SUBSET {"event", "open"}

Place == Channels \cup {NoChannel}

VARIABLES
    where,         \* the server's truth
    linked,        \* the server has a session of ours
    skipped,       \* our last move between channels came without a VOICE_SERVER_UPDATE
    nesting,       \* what is handled while a handler waits in Stop
    inbox,         \* events on their way to their handler
    outbox,        \* VOICE_STATE_UPDATE requests on their way to the server
    voiceStates,   \* m_voice_states
    channelUsers,  \* m_voice_state_channel_users
    shown,         \* the users listed under each channel by MainWindow
    voiceChannel,  \* m_voice_channel_id
    voice,         \* m_voice.IsConnected() || m_voice.IsConnecting()
    callChannel,   \* the channel that SetChannelID gave m_voice
    frames,        \* handlers suspended in m_voice.Stop(), innermost first
    moves, clicks, drops

server == <<where, linked, skipped, nesting, moves, drops>>
maps   == <<voiceStates, channelUsers, shown>>
call   == <<voiceChannel, voice, callChannel>>
vars   == <<server, inbox, outbox, maps, call, frames, clicks>>

State(u, c)     == [kind |-> "state", user |-> u, channel |-> c]
ServerUpdate    == [kind |-> "server"]
Supplemental(f) == [kind |-> "supplemental", states |-> f]
Event == {State(u, c) : u \in Users, c \in Place} \cup {ServerUpdate}
           \cup {Supplemental(f) : f \in [Users -> Place]}
Frame == {"CheckVoiceState", "VoiceServerUpdate", "DisconnectFromVoice"}

Init ==
    /\ where = [u \in Users |-> NoChannel] /\ linked = TRUE
    /\ skipped = FALSE /\ nesting \in Nesting
    /\ inbox = <<>> /\ outbox = <<>>
    /\ voiceStates = [u \in Users |-> NoChannel]
    /\ channelUsers = [c \in Channels |-> {}] /\ shown = [c \in Channels |-> {}]
    /\ voiceChannel = NoChannel /\ voice = FALSE /\ callChannel = NoChannel
    /\ frames = <<>>
    /\ moves = 0 /\ clicks = 0 /\ drops = 0

----------------------------------------------------------------------------
(* The server *)

\* What a session is told when u comes to be in c.
Events(u, c, paired) == IF u = Me /\ c # NoChannel /\ paired THEN <<State(u, c), ServerUpdate>>
                                                             ELSE <<State(u, c)>>

\* We are told where to connect when we join, and "usually" when we are moved
\* (discord.cpp:2465).
Moves(u, c) ==
    \E paired \in {TRUE} \cup {where[Me] = NoChannel} :
        /\ where' = [where EXCEPT ![u] = c]
        /\ inbox' = IF linked THEN inbox \o Events(u, c, paired) ELSE inbox
        /\ skipped' = IF u = Me THEN c # NoChannel /\ ~paired ELSE skipped

\* A user joins, leaves or is moved.
ServerMoves(u, c) ==
    /\ moves < MaxMoves /\ moves' = moves + 1
    /\ c # where[u] /\ Moves(u, c)
    /\ UNCHANGED <<linked, nesting, drops, outbox, maps, call, frames, clicks>>

\* The server carries out a request of ours.
ServerTakes ==
    /\ outbox # <<>> /\ outbox' = Tail(outbox)
    /\ IF Head(outbox) # where[Me] THEN Moves(Me, Head(outbox))
                                   ELSE UNCHANGED <<where, inbox, skipped>>
    /\ UNCHANGED <<linked, nesting, moves, drops, maps, call, frames, clicks>>

\* The session is lost: what happens until the next one is not told.
SessionLost ==
    /\ linked /\ linked' = FALSE
    /\ drops < MaxDrops /\ drops' = drops + 1
    /\ outbox' = <<>>
    /\ UNCHANGED <<where, skipped, nesting, moves, inbox, maps, call, frames, clicks>>

\* A new session is told who is in a channel (READY_SUPPLEMENTAL).
Identified ==
    /\ ~linked /\ linked' = TRUE
    /\ inbox' = Append(inbox, Supplemental(where))
    /\ UNCHANGED <<where, skipped, nesting, moves, drops, outbox, maps, call, frames, clicks>>

----------------------------------------------------------------------------
(* The maps *)

\* Bug: a user who moves stays in the old channel's set.
BugSetVoiceState(f) ==
    /\ voiceStates' = [u \in Users |-> IF u \in DOMAIN f THEN f[u] ELSE voiceStates[u]]
    /\ channelUsers' = [c \in Channels |->
           channelUsers[c] \cup {u \in DOMAIN f : f[u] = c}]

\* SetVoiceState for every user of the function f: a user is erased from the
\* set of the channel m_voice_states has, then entered in both maps.
SetVoiceState(f) ==
    /\ voiceStates' = [u \in Users |-> IF u \in DOMAIN f THEN f[u] ELSE voiceStates[u]]
    /\ channelUsers' = [c \in Channels |->
           {u \in channelUsers[c] : ~(u \in DOMAIN f /\ voiceStates[u] = c)}
               \cup {u \in DOMAIN f : f[u] = c}]

\* ClearVoiceState.
ClearVoiceState(u) ==
    /\ voiceStates' = [voiceStates EXCEPT ![u] = NoChannel]
    /\ channelUsers' = [c \in Channels |->
           IF c = voiceStates[u] THEN channelUsers[c] \ {u} ELSE channelUsers[c]]

\* MainWindow::UpdateUI, connected to the signals of a change.
UpdateUI == shown' = channelUsers'

\* The second half of CheckVoiceState; nothing is emitted for a user who was
\* nowhere and goes nowhere.
Apply(u, c) ==
    \/ c # NoChannel /\ SetVoiceState([v \in {u} |-> c]) /\ UpdateUI
    \/ c = NoChannel /\ voiceStates[u] # NoChannel /\ ClearVoiceState(u) /\ UpdateUI
    \/ c = NoChannel /\ voiceStates[u] = NoChannel /\ UNCHANGED maps

----------------------------------------------------------------------------
(* The client *)

Ready == "event" \in nesting \/ frames = <<>>

\* The next event is taken from the queue.
Takes(event) ==
    /\ Ready
    /\ inbox # <<>> /\ event = Head(inbox) /\ inbox' = Tail(inbox)

\* m_voice.Stop() in a handler that goes on once it returns.
CallStop(fn) == voice /\ voice' = FALSE /\ frames' = <<fn>> \o frames

\* m_voice.Stop() returns at once or has returned, and the handler goes on.
Returns(fn) == frames # <<>> /\ Head(frames) = fn /\ frames' = Tail(frames)

\* A websocket that opened before it was closed, or a SESSION_DESCRIPTION, is handled
\* inside Stop: the voice connection counts as one again, and goes on doing so when
\* Stop has returned.
OnWebsocketOpen ==
    /\ frames # <<>> /\ "open" \in nesting
    /\ ~voice /\ voice' = TRUE
    /\ UNCHANGED <<server, inbox, outbox, maps, voiceChannel, callChannel, frames, clicks>>

\* m_websocket.Send
Send(request) == outbox' = IF linked THEN Append(outbox, request) ELSE outbox

\* Bug: a user who goes nowhere is not handled.
BugHandleGatewayVoiceStateUpdate(u, c) ==
    /\ Takes(State(u, c))
    /\ u = Me /\ c = NoChannel => ~voice
    /\ voiceChannel' = IF u = Me /\ c # NoChannel THEN c ELSE voiceChannel
    /\ IF c # NoChannel \/ u = Me THEN Apply(u, c) ELSE UNCHANGED maps
    /\ UNCHANGED <<server, outbox, voice, callChannel, frames, clicks>>

\* CheckVoiceState, for VOICE_STATE_UPDATE and each state of CALL_CREATE.
HandleGatewayVoiceStateUpdate(u, c) ==
    /\ Takes(State(u, c))
    /\ u = Me /\ c = NoChannel => ~voice
    /\ voiceChannel' = IF u = Me /\ c # NoChannel THEN c ELSE voiceChannel
    /\ Apply(u, c)
    /\ UNCHANGED <<server, outbox, voice, callChannel, frames, clicks>>

\* Bug: the voice connection is left alone.
BugCheckVoiceStateStops ==
    /\ Takes(State(Me, NoChannel)) /\ voice
    /\ frames' = <<"CheckVoiceState">> \o frames
    /\ UNCHANGED <<server, outbox, maps, voiceChannel, voice, callChannel, clicks>>

\* A null channel for us stops the voice connection before anything else.
CheckVoiceStateStops ==
    /\ Takes(State(Me, NoChannel)) /\ CallStop("CheckVoiceState")
    /\ UNCHANGED <<server, outbox, maps, voiceChannel, callChannel, clicks>>

CheckVoiceStateEnds ==
    /\ Returns("CheckVoiceState")
    /\ Apply(Me, NoChannel)
    /\ UNCHANGED <<server, inbox, outbox, call, clicks>>

\* Bug: only the first call is given its channel.
BugHandleGatewayVoiceServerUpdate ==
    /\ Takes(ServerUpdate)
    /\ callChannel' = IF callChannel = NoChannel THEN voiceChannel ELSE callChannel
    /\ \/ CallStop("VoiceServerUpdate")
       \/ ~voice /\ voice' = TRUE /\ UNCHANGED frames
    /\ UNCHANGED <<server, outbox, maps, voiceChannel, clicks>>

\* m_voice.Start stops a live connection first.
HandleGatewayVoiceServerUpdate ==
    /\ Takes(ServerUpdate)
    /\ callChannel' = voiceChannel
    /\ \/ CallStop("VoiceServerUpdate")
       \/ ~voice /\ voice' = TRUE /\ UNCHANGED frames
    /\ UNCHANGED <<server, outbox, maps, voiceChannel, clicks>>

VoiceServerUpdateEnds ==
    /\ Returns("VoiceServerUpdate")
    /\ voice' = TRUE
    /\ UNCHANGED <<server, inbox, outbox, maps, voiceChannel, callChannel, clicks>>

\* Bug: a user whom the maps already have somewhere is skipped.
BugHandleGatewayReadySupplemental(f) ==
    /\ Takes(Supplemental(f))
    /\ SetVoiceState([u \in {v \in Users : f[v] # NoChannel /\ voiceStates[v] = NoChannel}
                         |-> f[u]])
    /\ UpdateUI
    /\ UNCHANGED <<server, outbox, call, frames, clicks>>

\* Users in a channel are entered; nobody is removed.
HandleGatewayReadySupplemental(f) ==
    /\ Takes(Supplemental(f))
    /\ SetVoiceState([u \in {v \in Users : f[v] # NoChannel} |-> f[u]])
    /\ UpdateUI
    /\ UNCHANGED <<server, outbox, call, frames, clicks>>

\* OnChannelRowActivated on another channel than the current one: ConnectToVoice.
ConnectToVoice(c) ==
    /\ Ready
    /\ clicks < MaxClicks /\ clicks' = clicks + 1
    /\ voiceChannel # c /\ voiceChannel' = c
    /\ Send(c)
    /\ UNCHANGED <<server, inbox, maps, voice, callChannel, frames>>

\* ... and on the current one: DisconnectFromVoice, which has nothing to stop ...
DisconnectFromVoice ==
    /\ Ready
    /\ clicks < MaxClicks /\ clicks' = clicks + 1
    /\ voiceChannel # NoChannel /\ ~voice
    /\ Send(NoChannel)
    /\ UNCHANGED <<server, inbox, maps, call, frames>>

\* ... or stops the voice connection before it sends.
DisconnectStops ==
    /\ Ready
    /\ clicks < MaxClicks /\ clicks' = clicks + 1
    /\ voiceChannel # NoChannel /\ CallStop("DisconnectFromVoice")
    /\ UNCHANGED <<server, inbox, outbox, maps, voiceChannel, callChannel>>

DisconnectEnds ==
    /\ Returns("DisconnectFromVoice")
    /\ Send(NoChannel)
    /\ UNCHANGED <<server, inbox, maps, call, clicks>>

----------------------------------------------------------------------------
Server == \/ \E u \in Users, c \in Place : ServerMoves(u, c)
          \/ ServerTakes \/ SessionLost \/ Identified

Handlers == \/ \E u \in Users, c \in Place : HandleGatewayVoiceStateUpdate(u, c)
            \/ CheckVoiceStateStops \/ CheckVoiceStateEnds
            \/ HandleGatewayVoiceServerUpdate \/ VoiceServerUpdateEnds
            \/ \E f \in [Users -> Place] : HandleGatewayReadySupplemental(f)
            \/ DisconnectEnds \/ OnWebsocketOpen

Clicks == \/ \E c \in Channels : ConnectToVoice(c)
          \/ DisconnectFromVoice \/ DisconnectStops

Next == Server \/ Handlers \/ Clicks

Spec == Init /\ [][Next]_vars

----------------------------------------------------------------------------
(* Properties *)

\* The range of every variable.
TypeOK ==
    /\ where \in [Users -> Place] /\ linked \in BOOLEAN /\ skipped \in BOOLEAN
    /\ nesting \subseteq {"event", "open"}
    /\ inbox \in Seq(Event) /\ outbox \in Seq(Place)
    /\ voiceStates \in [Users -> Place]
    /\ channelUsers \in [Channels -> SUBSET Users] /\ shown \in [Channels -> SUBSET Users]
    /\ voiceChannel \in Place /\ voice \in BOOLEAN /\ callChannel \in Place
    /\ frames \in Seq(Frame)
    /\ moves \in 0..MaxMoves /\ clicks \in 0..MaxClicks /\ drops \in 0..MaxDrops

\* The two maps say the same: a user is in the set of a channel exactly when the
\* user's own state names it, so in one set at most (SetVoiceState, which erases
\* from one set only, and ClearVoiceState).
MapsAgree ==
    \A u \in Users, c \in Channels : u \in channelUsers[c] <=> voiceStates[u] = c

\* The list MainWindow last drew is the one it would draw now: every change of
\* the maps is followed by a signal, and the signal by no change.
ShownIsCurrent == shown = channelUsers

\* Nothing is under way between the server and the maps.
CaughtUp == linked /\ inbox = <<>> /\ outbox = <<>> /\ frames = <<>>

\* Another user who is in a channel is listed there, whatever sessions were
\* lost and whatever was handled inside a Stop.
PresentAreListed ==
    CaughtUp => \A u \in Users \ {Me} : where[u] # NoChannel => voiceStates[u] = where[u]

\* A null channel_id means disconnect: the voice connection is not up when the
\* server has us in no channel.
NullMeansDisconnect == CaughtUp /\ where[Me] = NoChannel => ~voice

\* Nothing was lost, and no handler was overtaken inside its Stop.
InOrder == CaughtUp /\ drops = 0 /\ nesting = {}

\* The maps follow the server, us included.
FollowsServer == InOrder => voiceStates = where

\* The voice connection is the one of the channel that the server has us in: it was
\* told that channel, and is not up when there is none.  A move that the server tells
\* without a VOICE_SERVER_UPDATE leaves it the channel before.
OwnCall ==
    InOrder => /\ where[Me] = NoChannel => ~voice
               /\ voice /\ ~skipped => callChannel = where[Me]
=============================================================================
