# A TLA+ model of Abaddon

Abaddon is a Discord client for the desktop, written in C++ with GTK. In the
commit modelled here the main window shows the servers, their channels and a
voice call, and the rest of the client (chat, guild settings and so on) is
compiled but not shown. This project models the parts of it that run
concurrently or whose state has to follow a server's: the session with Discord's
gateway, the connection to a voice server, its sound and its end-to-end
encryption, the lists of who is in which voice channel, what is read and unread,
the login with a QR code, the cache of downloaded files, and what the account may
see. Each is a module that TLC checks on small instances, and each has theorems
that the TLA+ proof system checks for every instance.

Run a check with `tlc -config <run>.cfg <Module>`, a proof with
`tlapm <Module>Proofs.tla` (`AccountProofs` for `RemoteAuth` and `Permissions`). `PROJECT.json` lists runs, theorems, hazards,
findings and, for each definition, the lines it translates.

## The system

### Threads

* The **main thread** runs GTK's main loop. Every handler of a gateway message,
  of a timeout and of a click runs on it.
* **`ix::WebSocket`** has a thread for each open socket. It calls
  `Websocket::OnMessage`, which queues what it has and notifies the main thread
  by a `Glib::Dispatcher`. All dispatchers write to one pipe, so notifications
  of different dispatchers are served in the order in which they were made.
* **Heartbeat threads** (one for each gateway), the **keepalive** and the **UDP**
  thread of a voice connection, the audio library's callback thread, the threads
  that `HTTPClient` starts for each request and the **curl worker** of the file
  cache.

What makes this code hard is `Websocket::Stop` (`websocket.cpp:57`): after it has
stopped the socket it runs the main loop until no event is pending. Whatever is
queued by then is handled *inside* the handler that called `Stop`, before that
handler's remaining statements, and may itself call `Stop`. No lock helps, as it
is all one thread; each handler is in effect cut in two wherever it stops a
socket. Every module that stops a socket keeps a stack of these half-finished
handlers in a variable `frames`.

### Components

| component | state | operations | hard behaviour | what makes it correct |
|---|---|---|---|---|
| Gateway session (`discord.cpp` start to `MessageDispatch`, the connection handlers, `waiter.hpp`) | started/connected/reconnecting/resume flags, session id, heartbeat thread, zlib stream, message and close queues, timeouts | `Start`, `Stop`, HELLO, READY, RECONNECT, INVALID_SESSION, close, timeouts | nesting, timeouts against events, faults while connecting, a thread object assigned to while joinable | one socket and one heartbeat at a time, queues in step with notifications, a lost connection is made again |
| `Websocket` | the socket, close information, dispatchers | `StartConnection`, `Stop`, `Send` | a socket replaced while open; a close served after the socket changed | used by the two clients and modelled in each |
| Voice connection (`voiceclient.cpp`) | `m_state`, the websocket, four threads, waiters, UDP descriptor, `m_dave` | `Start`, `Stop`, Hello, Ready, discovery, SESSION_DESCRIPTION | nesting with the gateway's orders, threads restarted, blocking discovery | nothing of a call outlives it; an announced call is established |
| Voice states (`discord.cpp`, `mainwindow.cpp`) | `m_voice_states`, `m_voice_state_channel_users`, the list drawn, the channel joined | VOICE_STATE_UPDATE, VOICE_SERVER_UPDATE, READY_SUPPLEMENTAL, GUILD_CREATE, clicks | events nested in `m_voice.Stop()`, lost sessions, answers late against clicks | both maps agree and follow the server |
| DAVE session (`dave.cpp`) | protocol versions, ready flag, MLS session, encryptor, decryptors | proposals, commit, welcome, prepare, execute, epoch, user and ssrc events | announcement and execution apart; rejected commits; packets before their ssrc is known | encrypts with the group's epoch, hears everyone, gets into the group |
| Audio (`audio/`) | sources by ssrc, decoders, capture device, RTP timestamp | capture and playback callbacks, `FeedMeOpus`, add and remove ssrc | three threads against the main one, counters in step | sound stays in its call, timestamps are linear |
| File cache (`filecache.cpp`), image manager | callbacks by URL, worker queue, transfers, files, the images to show | `GetFileFromURL`, `add_image`, the worker's loop, `OnResponse`, `stop` | check and act without the lock, lost wake-up, failed transfers | a URL is fetched once at a time and handed out when its transfer is over, who asks is answered, shutdown ends |
| Read state (`discord.cpp`) | `m_unread`, `m_last_message_id` | MESSAGE_CREATE, MESSAGE_ACK, READY, `MarkChannelAsRead`, `MarkGuildAsRead` | requests answered through the gateway, reading elsewhere, a new session's snapshot | the entries agree with the server's read state |
| Remote authentication (`remoteauth/`, `ActionLoginQR`) | a websocket, a heartbeat, a timeout, a key, the dialog | the QR login's messages, restart, the dialog's buttons | handlers inside `Stop`'s main loop and inside a message box; an answer after its connection | one connection listened to, every login ends, with a token |
| HTTP client (`httpclient.cpp`) | futures, callback queue | `Make*`, `OnResponse`, `RunCallbacks` | futures shared by threads, callbacks under a lock | modelled where a callback runs a main loop (`RemoteAuth`) |
| Permissions, with guilds, channels, roles and the own member in the store (`discord.cpp`, `store.cpp`) | SQLite tables, `m_guild_to_channels` | the events that change them, `HasChannelPermission` | rows no event removes, changes no session is told, order of overwrites | what is computed is what the server grants |
| Threads, stages, member lists, mutes, messages, the rest of the store | maps of ids, tables | events that fill and empty them | stale entries | not modelled, see the end |
| Widgets, windows, notifications, JSON objects, settings, vendored code | | | | not modelled: drawing, dialogs, field-by-field conversion, third party |

`PROJECT.json` has the same list with sources and with the reason for each part
that is left out.

### How they interact

The gateway session delivers VOICE_STATE_UPDATE and VOICE_SERVER_UPDATE to the
voice states, which start and stop the voice connection; the voice connection
makes and feeds the DAVE session and, by its UDP thread, the audio sources; the
main window draws from the voice states on a signal and sends requests back
through the gateway. The link back is `Websocket::Stop`: stopping a voice
connection serves the gateway's notifications in the middle of the handler of
another one. `VoiceClient` therefore has the gateway's orders as notifications in
its pipe, and `VoiceStates` has the stop of the voice connection as a point at
which later events are handled. `Media` has the part of the voice connection that its
threads meet, `RemoteAuth` the same websocket a third time, with two further main loops
around it: the dialog's and that of an error message.

## The modules

### Connection

The abstract specification: a client has one connection at a time (`number`,
`link`), its threads serve that one and no other (`serving`), and once it has `said`
that the connection is gone nothing is left of it until it is told to begin.
`Gateway` and `VoiceClient` define `Link == INSTANCE Connection WITH ...` and
`ImplementsConnection == Link!Spec`: the number is that of the socket held, `serving`
the connection that the heartbeat (or, of a call, any of its three threads) was made
for, `said` what was last signalled. A socket replaced while open, a thread that
outlives its socket, two reconnections at once and an end announced too early
all refute it. `RemoteAuth` keeps to it from the connection it begins with on
(`StepsAsConnection`) where nothing comes late; it announces no end to the program, as
it is the dialog's own.

### Gateway

`started`, `connected`, `reconnecting`, `wantsResume`, `session` and `heartbeat`
are the members of `DiscordClient`; `heartbeat` is the number of the connection
whose HELLO began the thread, 0 when the thread object is not joinable.
`sock`, `phase`, `shake` are the socket held, what `ix::WebSocket` does with it and
how far its handshake is. `zstream` and `compressed` say whether the inflate state
and the buffer belong to the present connection; `SocketReceives` and
`SocketReceivesPart` are `HandleGatewayMessageRaw`. `dispatch` is the pipe,
`msgQueue` and `genericQueue` the queues it announces.

A handler that stops a socket is two actions: `HandleGatewayReconnect` and
`ReconnectEnds`, `HandleGatewayInvalidSession` and `InvalidSessionEnds`, `Stop`
and `StopEnds`, `DispatchClose` and `CloseEnds`. Between them `SocketJoined` ends
the wait for the socket's thread and any action of the main thread may come;
the second half needs an empty pipe, as `Stop` returns when no event is pending.
`HandleSocketClose` is the callback queued by the close dispatcher.
`TimeoutReconnect` and `TimeoutRestart` are the two `signal_timeout` callbacks;
an armed timeout survives `Stop`, as it does in the code.

The server is external: it says HELLO first, answers IDENTIFY by READY or by
INVALID_SESSION and RESUME by an event or by INVALID_SESSION, and may say
RECONNECT, or close, at any time. Resumable and other invalid sessions are told
apart by what the handler does with them. A frame of a connection that is being
stopped (`LateFrames`), a message in two frames (`SplitFrames`) and a user who acts
while `Stop` runs the main loop (`UserInPump`) are constants. Missed heartbeat acknowledgements are
only logged by the code and are not distinguished from other events.

### VoiceClient

`state`, `terminate` (the waiter's flag), `heartbeat`, `keepalive`, `reader`,
`fd` and `dave` are the members of `DiscordVoiceClient` and `UDPSocket`. A thread
object is "none", "running" or "ended": a thread started while its waiter is
killed ends at once and stays joinable, and an assignment to a joinable object
terminates the program (`crashed`). Orders of the gateway come through the same
pipe as the voice socket's notifications. `Start` that finds a live connection
stops it first and is suspended in `Stop` (`StartEnds` is the rest). `discovering`
blocks the main thread as `UDPSocket::Receive` does, for ever when the datagram it
waits for is lost (`DatagramLost`).

`UDPSocket::Stop` is cut in three as in the code: `UDPStop` closes the descriptor and
clears `m_running`, `ReaderEnds` is the reader's thread finding that, and `StopEnds` or
`StartEnds` join it and go on. `fd` is the number in `m_socket`, which closing leaves as
it is, and `descriptors` are those that are open; closing one that is closed does
nothing in the model.

### VoiceStates

`where` is the server's truth; `voiceStates`, `channelUsers` and `shown` the two
maps and what `MainWindow` last drew. Events travel in `inbox`, requests in
`outbox`. `CheckVoiceStateStops` and `CheckVoiceStateEnds`,
`HandleGatewayVoiceServerUpdate` and `VoiceServerUpdateEnds`, `DisconnectStops` and
`DisconnectEnds` are handlers cut where they stop the voice connection; of that
connection only "up or down" is kept, `VoiceClient` has the rest. A session may be
lost for good (`SessionLost`), with what was on its way, and a new one tells who
is in a channel now (`Identified`). `Nesting` is the set of the choices considered: of
events and of the voice websocket's opening, what is handled inside a `Stop`.
`OnWebsocketOpen` is the latter: an opening or a SESSION_DESCRIPTION handled there makes
the voice connection count as one again, and it goes on doing so afterwards.

A move of the account comes with a VOICE_SERVER_UPDATE when it joins, and *usually* when
it goes from one channel to another, as the comment at `discord.cpp:2465` has it:
`Moves` has both cases, and `skipped` remembers the one without. A VOICE_SERVER_UPDATE
without a move, as after a change of region, is an order in `VoiceClient` only.

### Dave

The server's half is a sequence of changes of the group, each announced and, when
it was not in force at once, executed later. The client's half is `DaveSession` with
the handlers of `DiscordVoiceClient` that call it, one action per handler.
A key is known by the epoch it belongs to: `encryptor` is the epoch of the ratchet
in use, `decryptors` that of each decryptor made. `recognized` is the session's
copy of the connected users, `mapped` the users whose ssrc is in
`m_ssrc_user_map`. libdave's MLS session is external: a commit can be processed
in the epoch before its own, a welcome when it is for the key package made last
and when every member is a recognized user, and a fault may make either fail.
A user has one ssrc in the model. Proposals change nothing that the client keeps
besides libdave's own state and are left out.

Two handlers are cut by a condition and not by a step: `PrepareEpochCreates` is
`HandleGatewayDavePrepareEpoch` when there is no session, where the session's
`Init` and the `OnPrepareEpoch` that follows both make a key package. What a server
may do in a call (change the group at once, announce before the last change is
executed, turn encryption on again, tell an ssrc by SESSION_UPDATE) and who may be in
it is the variable `call`, one of `Calls`; `MCDave` gives the three of the run.

`OnUDPData` runs on the UDP thread and takes no lock. It is three steps, between which the
main thread may handle anything: the lookup of the ssrc, `GetOrCreateDecryptor` finding
the decryptor or taking a ratchet for a new one, and its entry in the table
(`DecryptorEntered`). `missed` remembers the users whose decryptor was entered with
what had held before a message overtook it. Concurrent changes of the tables themselves
are data races, which no model holds.

### FileCache

Three kinds of threads. `main` is where the main thread is in `GetFileFromURL` or in
`~Cache`; `worker` is where `FileCacheWorkerThread::loop` is: at its test of `m_stop`,
with the queue's lock held before `wait`, waiting, before it takes an entry, before
it reads curl's messages, ended. `tasks` are the threads of `std::async` that
`m_futures` keeps: one that has yet to take the callbacks of a URL, or one that runs
them. `callbacks`, `queue`, `handles`, `stop` and `loaded` are `Cache::m_callbacks`,
the worker's `m_queue`, `m_handles` (by URL; its `m_callbacks`, `m_paths` and
`m_handle_urls` are filled and emptied with it) and `m_stop`, and the image
manager's `m_cb_queue`. A file is absent, whole, or what a failed transfer left.

`GetFileFromURL` is cut where it has looked for the file, and again between its
lookup in the table and the insertion when the entry is there, as it holds no lock
(`FindsEntry`, `JoinsEntry`). `Wakes` is `wait` returning for no reason: the code
does not call it in a loop. `Callback` is what `LoadFromURL` passes: an image is
queued if the file holds one. curl is external: transfers end in any order.

What no lock or check prevents is in the model as it is in the code: a transfer ends
whole or failed and is renamed either way (`LoopCompletes`), `OnResponse` may come
between a lookup and its insertion (`JoinsEntry`), and `Quit` between the worker's look
at `m_stop` and its wait (`LoopWaits`). Three history variables, `failed`, `raced` and
`missed`, say when that has happened, and each property names those it excepts. The
one constant is `Refused`, the URLs whose file `fopen` does not open.

### ReadState

The server's half is `last`, `mark`, `entries` and `pings`: the last message of each
channel, the one up to which it is read, which channels have an entry, and who was
mentioned. The client's half is `lastMessage` and `unread`. `feed` has the
gateway's events in order; `posts` the acknowledgements asked for, which arrive in any
order, each answered by a MESSAGE_ACK in the feed. The account may read on another
client, to any message (`ReadElsewhere`), and a session may be lost with its feed and
followed by a new READY (`NewSession`). `hidden` and `leftover` are history: what the code is
known to lose, which the properties except by name.

### Media

The main thread starts and stops calls (`Start`, `Stop`, cut at the websocket's stop
and in `UDPSocket::Stop` as in `VoiceClient`: `UDPStop`, `JoinReader`,
`OnVoiceDisconnected`), takes the voice server's messages and adds and removes sources.
The capture thread is two steps, `Recorded` (the buffer, the timestamp and the look at
`IsConnected` in `OnCapturedPCM`) and `SendPacket`, with anything between them; the
UDP thread feeds a source, the playback thread takes what was decoded. A packet
remembers the call it was recorded in, whose socket and whose key it went by, and
whether that descriptor was open, closed by the `Stop` that went on, or left from an
earlier one (`Descriptor`): the capture thread sends to `m_socket` without a look. RTP
timestamps count buffers and wrap around, as sequence numbers do.

### RemoteAuth

`frames` is again the stack of suspended handlers, here in three kinds of loops:
`Websocket::Stop`'s, that of the message shown by `OnError`, and, at the bottom, the
dialog's own. `timers`, `timeout` and `key` are the connection each belongs to;
`requests` and `locked` are `HTTPClient` as the login's answer meets it, whose callback
runs under `m_mutex`. `late` says which of four kinds of events a behaviour may have
out of time: a hello or a cancel still pending when the client is stopped, a timeout
that goes off while a handler waits, an answer to a login that was given up. All
sixteen combinations are initial states, and each property names those it needs absent.
`ListensToOne` and `RestartsStopped` need none: a login that has not crashed is put
right again by the handlers that wait. Its behaviours are `LoginSpec` and, with
fairness, `FairLoginSpec`, as `AccountProofs` extends this module and `Permissions`.

### Permissions

One guild: the server's `owner`, `roles`, `mine` (the account's) and `channels` with
their overwrites; and the tables that the client keeps of them, with the row, the
statement or the trigger that each handler touches. A change and its event are one
step, as events come in order and nothing is asked in between; what can make the tables
wrong is what no event tells: a change made while there is no session or the account
is not in the guild, and rows that an event leaves. `Granted` is the reference: the
first layer that says something of a permission decides it, stated without the masks
that `ComputeOverwrites` works with. What the windows show is not modelled: the code
relates it to permissions in some handlers only (below). `MCPermissions` gives the
instance; roles are interchangeable in it, and channels, so symmetry is sound (only
invariants are checked).

## What the runs check

| run | module and instance | shows |
|---|---|---|
| `gateway_session` | `Gateway`: 1 login, 5 connections, 3 faults, 4 nested handlers, split frames; fair | `QueuesMatch`: `front()` is never called on an empty queue; `NoCrash`, `SessionBeats`, `FullMessageIsQueued`; `ImplementsConnection`; `Recovers`, `StopEventuallyReturns`: it comes to a HELLO and no handler stays suspended |
| `gateway_decode` | `Gateway`, violation of `FullMessageIsQueued` | INVALID_SESSION renews the inflate state before the old socket is stopped |
| `voice_orders` | `VoiceClient`: 4 connections, 4 orders one at a time, 2 faults, 4 nested handlers; fair | `NoCrash`, `VoiceBeats`, `ReaderHasSocket`, `OwnSession`; `ImplementsConnection`; `Establishes` without faults, `StopEventuallyReturns` but for a lost UDP answer |
| `voicestates` | `VoiceStates`: 2 users, 2 channels, 3 moves, 2 clicks, 1 lost session, moves with and without a VOICE_SERVER_UPDATE, with and without events and openings handled inside `Stop` | `MapsAgree`, `PresentAreListed`; without nesting and loss also `FollowsServer`, `OwnCall` |
| `voicestates_null` | `VoiceStates`, violation of `NullMeansDisconnect` | a disconnect handled inside the stop of a VOICE_SERVER_UPDATE is undone by it |
| `dave` | `MCDave`: a call of three where every change is executed later, a call of two with changes at once or later, a call of two with ssrcs told by SESSION_UPDATE too; one announcement at a time, 3 epochs, 5 key packages, 2 joins or leaves, 1 failed commit or welcome, 1 downgrade; fair | `SendsAsGroup`; `HearsEveryone` where SPEAKING tells the ssrcs, but for a decryptor that a message overtook; `Joins` where changes are executed later: a client outside the group comes to be in it |
| `media` | `Media`: 2 ssrcs, 3 calls whose orders do not overlap, 5 buffers, timestamps modulo 3, sequence numbers modulo 4 | `SentInOwnCall`, `HeardInThisCall`, `TimestampsAreLinear` |
| `filecache` | `FileCache`: 4 URLs of which 1 is refused, 3 requests, 2 transfers at a time, failing or not; fair | `FetchedOnce`, `EntryIsFetched`, `PickedUpDone`, `Awake`, `Answered`, `StopReturns`, with the exceptions below |
| `readstate` | `ReadState`: 2 channels, 3 messages, 2 acknowledgements, 1 fault; fair | `NoneMissed`, `NoneInvented`, `MentionsCounted`, `MarkedBecomesRead` |
| `readstate_ack` | `ReadState`, violation of `AbsentMeansRead` | an acknowledgement of an older message hides the later ones |
| `remoteauth` | `RemoteAuth`: 3 connections, 4 waiting handlers, each kind of late event or not; fair | `NoCrash`, `ListensToOne`, `TokenIsReadable`; `StepsAsConnection`: the steps are those of `Connection`; `Concludes` |
| `permissions` | `MCPermissions`: 2 roles, 2 channels, 3 changes | `ComputesWhatIsGranted` |

Type invariants are proved and not run (`Permissions` states none, that of `RemoteAuth`
is in `AccountProofs`), and so are `ShownIsCurrent` of `VoiceStates`, `RestartsStopped`
of `RemoteAuth` and `GoneIsUnseen` of `Permissions`. Every property of a run has a
mutant: a definition `Bug...` next to the one it replaces, changed as a plausible bug
would change it, which makes TLC find the property violated in the same instance.

### Bounds

Five connections let a reconnection meet one that is already under way and fail
again; three faults are a failure while recovering from another; nesting of four is a
close, inside a reconnection, inside a close, inside the user's stop. With a second
login, or a user who acts inside `Stop`, `NoCrash` and `SessionBeats` do not hold (below);
the theorems of `Gateway` that do not name them in an `ASSUME` hold with both. The same reasoning gives four voice connections and
orders. Two users and two channels are enough
for the maps, which treat users alike: one who moves and one (oneself) whose moves
start and stop the call; two channels make a move distinct from a leave. Three
epochs are the welcome into a group, a change of it and one more after a failure or a
downgrade. A third person is one whose decryptor is there when another's coming or going changes
the group; where changes are in force at once two are considered, and the theorems have any number. Three calls are one whose end meets the beginning of the next, twice; five
buffers wrap both counters around, at different times. Three requests are two callers of one URL and one of
another, or three URLs that meet the limit of two transfers, or one that comes
after the file of the first is there. Three messages in two channels are an older and
a newer one with an acknowledgement between them, and another channel that a guild's
acknowledgement meets. Three connections of a QR login are a restart inside a restart.
Three changes are a change, one that is missed or meets the first, and one after; the
initial states already have every guild of one channel and at most one role besides
everyone's. The bounds on counters stop a behaviour and never
change a step; the theorems hold for all of them.

### Fairness

Weak fairness of the main thread is the main loop serving its sources; of
`SocketJoined` and of closes and failures *while a stop is waiting*, that
`ix::WebSocket::stop` comes back; of `SocketOpens`, HELLO, READY and their voice
counterparts, that network and server answer a handshake. `ReaderEnds` is that the UDP reader, whose `select`
waits a second at most, looks at `m_running` again. Discovery waits on the main thread
with no timeout for an answer that may be lost: it is fair to end only as long as it is
not (`DatagramLost`), a loss counts as a fault to `Establishes`, and is the exception
of `StopEventuallyReturns`. In `Dave` the server reads what it is sent, adds
who asks and executes what it announced. In
`FileCache` the worker, the threads of `std::async` and the main loop run, and
transfers end (the code sets no timeout, so that a server which keeps a
connection open for ever keeps its callers and the destructor waiting). In `ReadState` the client takes its
events and a request that does not fail arrives. In `RemoteAuth` messages are taken and
waiting handlers go on, which includes that the user closes an error message. The user otherwise,
faults, control messages and other users owe nothing.

## Findings

Each is a run that TLC ends with a counterexample, and a line in the repository
that says otherwise.

1. `HandleGatewayInvalidSession` calls `inflateInit2` before it stops the old
   socket (`discord.cpp:2625`); `HandleGatewayReconnect` does it after. A late
   frame makes the next connection undecodable (`gateway_decode`).
2. A null VOICE_STATE_UPDATE handled inside the `Stop` of `m_voice.Start()` finds
   nothing connected, and `Start` goes on to connect (`voicestates_null`).
3. MESSAGE_ACK erases the channel's entry whichever message it acknowledges
   (`discord.cpp:2338`): read elsewhere up to an older message, a channel with unread
   ones counts as read (`readstate_ack`).

### What else does not hold

These have no run of their own. Some are the other value of a constant, under which
TLC finds the violation; some are conditions or exceptions that a property names; the rest was
met while reading.

The gateway:

* An attempt to reconnect that fails before the socket opens (`Gateway`):
  `OnMessage`'s Error branch reports no close, so nothing tries again although
  `m_reconnecting` stays on (`discord.cpp:2881`). `Recovers` names this case as one
  of its ends.
* Two logins within the second that a restart timeout takes (`MaxLogins = 2`): the
  timeout armed before `Stop` opens a second connection over the first. `NoCrash` and
  `SessionBeats` do not hold.
* The user acts while `Stop` runs the main loop (`UserInPump`): a disconnect
  inside the stop of a RECONNECT is reported as final by
  `signal_disconnected(false, ...)`, and the suspended handler then opens its
  connection. `ImplementsConnection` does not hold.
* A RECONNECT or an INVALID_SESSION handled inside the `Stop` of a logout opens a
  connection again, as `m_client_started` is cleared after it (`discord.cpp:75`).
  `Connection` allows a client that has not announced its end to begin once more.
* `DiscordClient::Stop` resets `m_reconnecting` and leaves `m_wants_resume`
  (`discord.cpp:70`): after a RECONNECT and a disconnect the next login resumes the
  old session.
* A missed heartbeat acknowledgement is only logged (`discord.cpp:2783`), and
  `inflateEnd` runs on the main thread while the socket's may inflate
  (`discord.cpp:2600`).

The call:

* `DiscordVoiceClient::OnWebsocketClose` only logs: after the voice server's close
  `IsConnected()` remains true. An "open" or a SESSION_DESCRIPTION handled inside
  `Stop` likewise leaves the state connecting or connected, also after `Stop` has
  returned (`VoiceStates`, `Nesting` with "open").
* A move told without a VOICE_SERVER_UPDATE leaves the voice client the channel it
  had (`SetChannelID` is called at `discord.cpp:2491` only). `OwnCall` excepts it.
* The UDP answer that Discovery waits for is lost (`voiceclient.cpp:474`): the main
  thread hangs, and with it whatever `Stop` serves the READY. `StopEventuallyReturns`
  excepts it, `Establishes` counts it as a fault.
* `UDPSocket::Stop` closes the descriptor before the reader is joined and leaves its
  number in `m_socket` (`voiceclient.cpp:113`). Until `Stop` has gone on the reader
  selects on it and the keepalive and capture threads send to it; `ReaderHasSocket` and
  `SentInOwnCall` say that this is the only time. The next `Stop` closes the number
  again if no READY came in between. What else of the process has the number by then
  is not modelled.
* `m_voice_channel_id` is never reset (`mainwindow.cpp:518`): after leaving, a click
  on the same channel disconnects again in place of joining.
* The comment at `manager.cpp:45` that the packet sent and the timestamp's increment are always in
  sync does not hold: the silence sent on SESSION_DESCRIPTION and the first
  packet recorded share a timestamp.
* Orders overlap (`Media`, `Overlap`): `SentInOwnCall` and `HeardInThisCall` do not
  hold, nor that the capture device runs exactly in a call.
* Orders for the voice connection overlap (`VoiceClient`, `Overlap`): a
  `Start` nested in the `Stop` of another opens a connection that the outer one
  tears down by halves. Of the run's safety properties only `OwnSession` holds (and is proved).
* A change of the group is announced before the last was executed (`Dave`, a call with
  `overlap`): `OnExecuteTransition` ignores its transition id, so the first
  execution takes the second change into use and the second finds nothing ready
  and makes the session anew, while the server counts the client as a member.
  `SendsAsGroup` and `HearsEveryone` do not hold, and the client may stay outside;
  they and `Joins` except it.
* Encryption is turned on again after a downgrade (`reupgrade`):
  `OnPrepareEpoch` leaves `m_pending_protocol_version` 0, so the next execution
  turns encryption off once more. `SendsAsGroup`, `HearsEveryone` and `Joins`
  except it, and do not hold.
* The ssrc comes by SESSION_UPDATE (`sessionUpdates`): unlike SPEAKING it applies
  no ratchet, and a decryptor made before it stays without one until the next
  epoch. `HearsEveryone` excepts such calls.
* A message that tells an ssrc or changes the group is handled between the steps of the
  UDP thread's `OnUDPData` (`voiceclient.cpp:609`, `dave.cpp:233`): the decryptor is
  entered without a ratchet, or with the old one, and stays so until the next SPEAKING
  of that user or change of the group. `HearsEveryone` excepts it (`missed`).
* A commit or welcome that is in force at once is rejected (`atOnce`): only an
  execution makes the session anew, and there is none. `Joins` excepts such calls.

The file cache:

* `OnResponse` takes the callbacks of a URL after `GetFileFromURL` has found its
  entry and before it inserts (`filecache.cpp:60`): `operator[]` makes the entry
  anew, nobody fetches it, and everyone who asks for the URL while its file is not
  there, or joined, waits. `EntryIsFetched` and `Answered` except it (`raced`). It is
  also a data race on the map.
* `stop` comes between the worker's look at `m_stop` and its wait (`filecache.cpp:136`):
  it notifies without the lock, the worker sleeps and the join never returns. `Awake`
  and `StopReturns` except it (`missed`).
* The worker does not look at the result of a transfer (`filecache.cpp:210`): what was
  cut short gets the name of a finished file, although the comment at `filecache.cpp:169`
  has the "!" there so that the image loader does not pick a file up "if its not done
  yet". It is handed out then and at every later request; the loader finds no image in
  it and its caller is not told. `PickedUpDone` allows it and `Answered` excepts it (`failed`).
* A file that cannot be opened (`Refused`) leaves its URL in the table for good: it
  is never fetched again. `EntryIsFetched` and `Answered` except such URLs.
* A file's name is a 32-bit hash of its URL: URLs whose hashes collide share a file in
  the code; in `FileCache` each has a name of its own.

Read state:

* A new READY writes entries over and removes none (`discord.cpp:2998`): what was
  read while the session was lost stays unread until the next acknowledgement
  (`leftover`). The account's own message that mentions it makes an entry that
  nothing removes but an acknowledgement (`leftover` too).

The QR login, each with its kind of `late`:

* A hello handled inside `Stop` makes a thread, and a timeout, for a client that is
  being destroyed or restarted; a cancel handled there restarts inside, and the new
  connection's hello finds the first heartbeat joinable; a timeout that goes off
  in a close's main loop starts a connection that the close then ends;
  an answer that comes when its client is gone calls it, and one that comes inside
  another's callback locks `m_mutex` twice. `NoCrash` does not hold.
* The answer of a login whose connection was given up is decrypted with a new key:
  the token is empty and the dialog ends as if it had succeeded. So does the
  dialog's own button, pressed before there is a token, which logs in with an empty one.
  An attempt to connect that fails is not reported.

Permissions:

* CHANNEL_UPDATE and READY insert overwrites and delete none (`discord.cpp:2021`): one
  that was removed keeps deciding. `ComputesWhatIsGranted` excepts channels that have one.
* A guild that was left while there was no session stays stored, and its later
  GUILD_CREATE is passed over (`discord.cpp:2726`), so that everything is as old as
  the first. `HandleGatewayGuildDelete` leaves the roles, members and overwrites;
  after the account has joined again its roles are the old ones until a message, a
  voice state or a list brings its member, as GUILD_CREATE does not. The property begins to hold again then (`heard`).
* What is shown is not kept to what may be seen. CHANNEL_UPDATE and GUILD_ROLE_UPDATE
  compare the permissions before and after and tell of the difference; a member's
  roles, a role's deletion and a new owner compare nothing (`discord.cpp:1961`, 2044,
  2083); CHANNEL_CREATE, READY and GUILD_CREATE tell of channels whether they may be
  seen or not (`discord.cpp:2041`, 1913, 2732), and the lists add rows unasked
  (`channellisttree.cpp:540`, `mainwindow.cpp:273`). So there is no property of it.

## What is proved

Theorems are of the form `Spec => []Property` or, of an action property, `Spec => Property`, for every value of the
constants under the assumption the module names (`GatewayAssumption`,
`VoiceAssumption`, `VoiceStatesAssumption`, `DaveAssumption`, `FileCacheAssumption`,
`ReadStateAssumption`, `MediaAssumption`, `PermissionsAssumption`, `RemoteAuthAssumption`: bounds are natural
numbers, flags Booleans, oneself a user); a theorem that needs more says so in an
`ASSUME`. Each follows from an inductive invariant
`IInv` by `InitIInv` and `StepIInv`, the latter with one lemma for each action or group
of actions (of `RemoteAuth`, `LoginInv` by `LoginBegins` and `LoginStep`).

* **GatewayProofs**: `TypeCorrect`, `QueuesAgree`, `HeartbeatKept`. `IInv` adds
  `SocketNumbered` to the three properties: a socket that exists has a number, so
  a thread that a HELLO starts is told from no thread. `QueuesMatch` counts
  notifications; the lemmas `CountAppend` and `CountTail` give the count of a
  sequence grown at its end or shortened at its head by a bijection of positions.
  `FrontExists` then is what the code relies on when it calls `front()`.

  For `MaxLogins = 1` and `~UserInPump`, `NeverCrashes` (`NoCrash`), `SessionsBeat`,
  `Implements` (`ImplementsConnection`), and with it `HeartbeatServesOwn` and
  `GoneIsOver`, which say what the refinement is worth to the rest of the program. They
  rest on a second invariant, `Orderly`: for each stage of a session (not started, in
  its handshake, beating, ended by a close, by a request to reconnect or by
  INVALID_SESSION, waiting in a timeout, gone) which handlers are suspended, which
  timeout is armed and which messages and notifications may still come, in which
  order. `OneSession` proves it. `FullMessagesQueued` also assumes `~LateFrames`; its
  `InStep` says that the inflate state is fresh until the connection's first message, used
  after it, and that no bytes of another connection are in front.
  None of the assumptions can be dropped: TLC finds `NoCrash` violated with two logins or a
  user in the pump, and `gateway_decode` is what late frames do.
* **VoiceStatesProofs**: `TypeCorrect`, `MapsAlwaysAgree`, `ListIsCurrent`, with
  nesting and lost sessions. The three are inductive together: `SetVoiceState`
  erases a user from the one set that the user's own state names, which is enough
  only because the maps agreed before. `OthersAreListed` (`PresentAreListed`),
  `MapsFollowServer` and `CallIsOwn` are about an empty inbox; `Delivered` says of any
  inbox what is still to come: the last event about a user leaves the user where the
  server has it (`OthersComing`, of users who left without loss; of oneself `OwnComing`,
  without loss and nesting), a VOICE_SERVER_UPDATE comes at once after an own state or
  not at all (`Paired`), and the call is that of the server's channel, or will be by the
  update that is next, unless the last was skipped (`CallComing`).
* **DaveProofs**: `TypeCorrect`, `NeverWithoutRatchet`, `SessionKnowsUsers`.
  `IInv` adds the type of the messages (a commit brings an epoch, never 0) and
  `ReadyHasEpoch`: a transition that is ready has an epoch to take into use.
  That `Reinit` forgets both is what makes it inductive. All of it holds for overlapping
  announcements and second upgrades.

  `SendsToGroup` (`SendsAsGroup`) and `HearsTheGroup` (`HearsEveryone`) compare two
  parties that act on each other's messages with a delay. `InStep` relates them while
  messages are on their way: `Path(q, R, s, t)` says that handling the messages of `q`
  may take `s` to `t`, each by a triple of `R`, so that `Foreseen` (`Changes`, the epoch
  we hold) and `Leaves` (`Turns`, on the way to a downgrade) say where
  the session will be, by the messages in the inbox, and that this is where the
  server believes it to be. `PathAppend` and `PathTail` are what a message sent
  or taken does to a path. `Agreed`, `OnTrack`, `NeverOn`, `InUse` and `Hearing` say
  what the server announced, which messages there can be and what is in use meanwhile.
  `InStepWithGroup` proves it for all constants; the properties themselves except
  overlapping announcements and second upgrades, where they do not hold, and
  `HearsEveryone` ssrcs told by SESSION_UPDATE and decryptors that were overtaken: a
  packet between its steps has the ratchet of now, or its user will be in `missed`.
* **VoiceClientProofs**: `TypeCorrect`, `SessionIsOwn`, for overlapping orders too. If
  orders do not overlap, `ThreadsAreJoined` (`NoCrash`), `HeartbeatRevived`,
  `ReaderKeepsSocket`, `VoiceImplementsConnection`: each step is a step of
  `Connection` or leaves its variables alone; and `GoneIsOver`. Their invariant `Orderly` says at which
  points of the handshake which threads exist and which message may be queued: a
  message is handled by the connection that announced it (`AnnouncedBy`), so that a
  HELLO never meets the thread of an earlier one. `Announce...` lemmas say what an
  added or a taken message does to that.
* **ReadStateProofs**: `TypeCorrect`, `NeverMisses`, `NeverInvents`, `NoMentionLost`
  (`MentionsCounted`). The properties speak of
  an empty feed; the invariants `WillNotMiss` and `WillNotInvent` say of any feed what
  the entries will be when it has been handled, by the last event in it that
  concerns a channel, and `Counted` what the count will be, by the counts after each
  event (`WillCount`). The `Show...` and `Count...` lemmas compute that for a feed grown
  at its end or taken from. An acknowledgement of the last message makes both counts 0, one of an
  older message is what `hidden` excepts.
* **MediaProofs**: `TimeIsLinear` (`TimestampsAreLinear`) for all constants: by `Linear`
  the timestamp is that of the last packet and the time since, modulo the wrap;
  `DivMod`, `ModUnique` and `ModSucc` are the arithmetic. `TypeCorrect` holds for all constants too. If orders do not overlap, `SentToItsCall`,
  `CaptureWithCall` (the device runs while a call is read from and stands still
  without one) and `SourcesOfCall`. The invariant has the handshake's stages, the order of messages, whose the
  socket, key and device are, and who was heard.
* **FileCacheProofs**: `TypeCorrect`, `FetchesOnce`, `HandsOutDone` (`PickedUpDone`),
  `NobodyStranded` (`EntryIsFetched`) and `NeverSleepsOnWork` (`Awake`), for all
  constants and with every race and failure of the model. `IInv` is the type and
  `FetchedOnce`: that a URL is in the queue at most once needs the table to have it
  while it is queued, transferred or answered, which is what the lookup then relies on.
  `Appended` and `Shortened` give the range of a queue without repetitions when it
  grows or shrinks. That a callback's file is there needs that no action takes a file
  away while one runs (`FileInv`).
* **AccountProofs**, of `RemoteAuth`, for any number of connections and any nesting:
  `LoginNeverCrashes` (`NoCrash`), `ListensToItsOwn` (`ListensToOne`), `LoginHasToken`
  (`TokenIsReadable`), `RestartFindsStopped` (`RestartsStopped`) and
  `LoginKeepsConnection` (`StepsAsConnection`). Two invariants carry them.

  `LoginInv` (`LoginHolds`) is about every login, whatever comes late, and so has to
  hold of those that will crash: one is `Doomed` when a hello waits to be handled while
  there is a heartbeat, which it will find joinable. What can be said of such a login
  is its `Shape`, and that a handler waits in a `Stop` (`DoomedJoins`), which is where
  the hello will be served. A login that is neither doomed nor crashed has its present
  connection at one step, with one message or one request (`OneStep`); its key is its own
  from its hello on (`KeyFollows`); one timeout is armed (`TimeoutFollows`); its
  heartbeat is that of the connection or will be joined by a handler in the
  stack, and two that will join leave nothing behind that makes another
  (`HeartbeatFollows`). `RestartFollows` is why a restart finds the client stopped: a
  restart that was nested in it and started the client leaves a close to be handled
  before it goes on, which stops the client again. The stack is described by what is in it and
  what is above what (`Joining`, `JoiningTwice`, `RestartOver`, `CloseOver`, `Under`), and
  `OfTop`, `OnTop` say what becomes of each when a handler is entered or left, so that
  no proof looks further than its head; `LeftOf` and `Followed` do the same for the
  queue.

  `InTimeInv` (`LoginIsInTime`) is about a login to which nothing comes late
  (`late = {}`): what is pending behind a `Stop` is nothing that crashes, no answer comes
  for a client that is gone or for a lock that is held, and a client that stops has no
  timeout. `Readable`, which needs only that no answer comes late, says that an answer
  in the queue has the key of its login, or a hello before it that will crash.
  `NoCrash` and `TokenIsReadable` do not hold with the events they exclude (above).

  Of `Permissions`: `AnswersAsGranted` (`ComputesWhatIsGranted`) and `GoneShowsNothing` (`GoneIsUnseen`), for any roles, channels and
  overwrites. `TablesComplete` is the invariant they follow from: the tables hold every
  row of the server's guild once the client has heard of it (`KnowsGuild`,
  `KnowsRoles`), whatever rows of earlier times they hold besides (`Existed`: of roles
  that were deleted and never come back). That the successive overwrites of `ComputeOverwrites` give what the
  layers of `Granted` say is `KnowsEnough`, layer by layer.

Only model-checked: liveness (`Recovers`, `StopEventuallyReturns`, `Establishes`,
`Joins`, `Answered`, `StopReturns`, `MarkedBecomesRead`, `Concludes`), which is out of
the prover's reach. Every safety and action property of the passing runs has its theorem.

## Not modelled

Of the media path Opus, noise suppression, gains, voice activity and the bytes of an
RTP header; of HTTP everything but the login's request, whose callback alone runs a main loop
(the vector of futures is a data race, listed as a hazard). Mutes and the totals of
unread channels, threads, stages, friends and member lists: each event fills or empties
one map by itself. `CanModifyRole` and `CanManageMember`, which compare positions. Of
the store what only remembers. Of the cache `ClearCache` (nothing calls it),
`GetPathIfCached` and the placeholders.
Widgets, dialogs, notifications, JSON conversion, settings and start-up: no
concurrent state of their own. `GuildData`'s `from_json` takes any "unavailable" key,
even false, for true (`guild.cpp:5`); `Permissions` has guilds that are sent without it.
Data races (`inflateEnd` against the socket's thread,
the UDP and audio threads against `m_dave`, the main thread against `OnResponse` in
`Cache::m_callbacks`, the destructor's loop over `m_futures` against `CleanupFutures`)
have no defined outcome; the models cut the steps concerned where every order of them
has one, make each step atomic, and say nothing of a table torn by two
threads; `PROJECT.json` lists the main ones as hazards.

## Plan

Done: `Connection` and the two clients that implement it, `VoiceStates`, `Dave`,
`Media`, `FileCache`, `ReadState`, `RemoteAuth`, `Permissions`; a proof of every safety
and action property that their runs check. To do:

1. `Membership`: threads, stages and member lists, with the mutes that `Unread` totals
   and notifications depend on.
2. The slow-mode indicator and the completer as operators against a reference
   definition.
