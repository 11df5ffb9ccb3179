----------------------------- MODULE RemoteAuth -----------------------------
(***************************************************************************)
(* Login with a QR code: RemoteAuthDialog and its RemoteAuthClient, whose  *)
(* socket, heartbeat and timeout are its own, and HTTPClient as far as it  *)
(* brings the answer of the login.                                         *)
(*                                                                         *)
(* Everything but the heartbeat, the socket's thread and the workers of    *)
(* HTTPClient runs on the main thread: in the loop of Gtk::Dialog::run, in *)
(* the loop that Websocket::Stop runs until nothing is pending, or in that *)
(* of the message that OnError shows.  "frames" is the stack of handlers   *)
(* that wait in such loops.  The nonce, the fingerprint, the user's name   *)
(* and the QR code made of them change nothing but the dialog's looks.     *)
(* Its behaviours are called LoginSpec because AccountProofs extends this  *)
(* module and Permissions, where Spec is what the account may see.         *)
(***************************************************************************)
EXTENDS Naturals, Sequences

CONSTANTS
    MaxConn,     \* connections opened (bound)
    MaxDepth     \* handlers that wait in a loop (bound)

ASSUME RemoteAuthAssumption == MaxConn \in Nat \ {0} /\ MaxDepth \in Nat \ {0}

\* What may come late, in one behaviour or another: a "hello" or a "cancel" that is
\* pending when the client is stopped, a "timeout" that goes off while a handler
\* waits, an "answer" to a login when its connection is over.
Lateness == {"hello", "cancel", "timeout", "answer"}

VARIABLES
    late,       \* what comes late in this behaviour
    dialog,     \* "open", "closing" when run has returned, "gone"
    response,   \* the dialog's last response: "none", "ok", "pressed" by the user, "cancel"
    token,      \* m_token: the login it is of, 0 if it is empty
    connected,  \* m_connected
    sock,       \* m_ws: the connection it holds
    phase,      \* "connecting", "open" or "closed"
    stage,      \* how far the server is with it
    heartbeat,  \* m_heartbeat_thread: the connection it was made for, 0 if not joinable
    killed,     \* m_heartbeat_waiter was killed and not revived
    timers,     \* connections whose timeout is armed
    timeout,    \* m_timeout_conn: the one that Stop disconnects
    key,        \* m_pkey: the connection it was made for
    inbox,      \* dispatcher notifications for the main thread
    requests,   \* logins that are with a worker of HTTPClient
    locked,     \* RunCallbacks holds HTTPClient::m_mutex
    frames,     \* handlers that wait in a loop, innermost first
    crashed     \* std::terminate, a destroyed object called or a mutex locked twice

window    == <<late, dialog, response, token>>
socket    == <<sock, phase, stage>>
beats     == <<heartbeat, killed, timers, timeout>>
http      == <<requests, locked>>
loginVars == <<window, connected, socket, beats, key, inbox, http, frames, crashed>>

\* The dialog has been made, and Start has run in its constructor.
LoginInit ==
    /\ late \in SUBSET Lateness
    /\ dialog = "open" /\ response = "none" /\ token = 0
    /\ connected = TRUE /\ sock = 1 /\ phase = "connecting" /\ stage = "wait"
    /\ heartbeat = 0 /\ killed = FALSE /\ timers = {} /\ timeout = 0 /\ key = 0
    /\ inbox = <<>> /\ requests = {} /\ locked = FALSE /\ frames = <<>> /\ crashed = FALSE

Top == Head(frames)

\* The main thread takes events in the innermost loop; the dialog's own ends with
\* its response, the program's goes on when it is gone.
MainReady ==
    /\ ~crashed
    /\ IF frames = <<>> THEN response = "none" \/ dialog = "gone"
                        ELSE Top.pc \in {"pump", "confirm"}

Takes(op) ==
    /\ MainReady /\ inbox # <<>> /\ Head(inbox).op = op

\* What has to be handled before the client may be stopped.
InTime == \A i \in DOMAIN inbox : inbox[i].op \notin {"hello", "cancel"} \ late

\* Bug: the timeout goes on.
BugCallStop(fn, behind, queue, armed) ==
    /\ Len(behind) < MaxDepth
    /\ frames' = <<[fn |-> fn, pc |-> IF connected THEN "pump" ELSE "go"]>> \o behind
    /\ connected' = FALSE
    /\ timers' = armed
    /\ phase' = IF connected THEN "closed" ELSE phase
    /\ inbox' = IF connected /\ phase = "open" THEN Append(queue, [op |-> "close"]) ELSE queue
    /\ UNCHANGED <<sock, stage, heartbeat, killed, timeout>>

\* A handler calls Stop on the way, with these handlers behind it, these
\* notifications and these timeouts: it goes on at once if nothing is connected, or
\* else when the loop of Websocket::Stop has ended.
CallStop(fn, behind, queue, armed) ==
    /\ Len(behind) < MaxDepth
    /\ frames' = <<[fn |-> fn, pc |-> IF connected THEN "pump" ELSE "go"]>> \o behind
    /\ connected' = FALSE
    /\ timers' = IF connected THEN armed \ {timeout} ELSE armed
    /\ phase' = IF connected THEN "closed" ELSE phase
    /\ inbox' = IF connected /\ phase = "open" THEN Append(queue, [op |-> "close"]) ELSE queue
    /\ UNCHANGED <<sock, stage, heartbeat, killed, timeout>>

----------------------------------------------------------------------------
(* The socket and the server *)

SocketOpens ==
    /\ phase = "connecting" /\ phase' = "open"
    /\ UNCHANGED <<window, connected, sock, stage, beats, key, inbox, http, frames, crashed>>

\* A connection that fails is not reported.
SocketFails ==
    /\ phase = "connecting" /\ phase' = "closed"
    /\ UNCHANGED <<window, connected, sock, stage, beats, key, inbox, http, frames, crashed>>

SocketCloses ==
    /\ phase = "open" /\ phase' = "closed"
    /\ inbox' = Append(inbox, [op |-> "close"])
    /\ UNCHANGED <<window, connected, sock, stage, beats, key, http, frames, crashed>>

\* What the server says at each stage.  It cancels when the user does on the phone.
ServerSends ==
    /\ phase = "open"
    /\ \E op \in {"hello", "nonce_proof", "pending_login", "cancel"} :
          /\ op \in late \/ response = "none" \/ op \notin {"hello", "cancel"}
          /\ \/ stage = "wait" /\ op = "hello"
             \/ stage = "init" /\ op = "nonce_proof"
             \/ stage = "proved" /\ op = "pending_login"
             \/ stage = "proved" /\ op = "cancel" /\ sock + Len(frames) < MaxConn
          /\ stage' = op
          /\ inbox' = Append(inbox, [op |-> op, conn |-> sock])
    /\ UNCHANGED <<window, connected, sock, phase, beats, key, http, frames, crashed>>

----------------------------------------------------------------------------
(* RemoteAuthClient *)

\* Answers on a socket that is closed are lost.
Replies(from, to) == stage' = IF phase = "open" /\ stage = from THEN to ELSE stage

\* The heartbeat's thread, the timeout and a key are made.
HandleGatewayHello ==
    /\ Takes("hello") /\ inbox' = Tail(inbox)
    /\ LET c == Head(inbox).conn IN
       /\ crashed' = (heartbeat # 0)
       /\ heartbeat' = c /\ timers' = timers \cup {c} /\ timeout' = c /\ key' = c
    /\ Replies("hello", "init")
    /\ UNCHANGED <<window, connected, sock, phase, killed, http, frames>>

HandleGatewayNonceProof ==
    /\ Takes("nonce_proof") /\ inbox' = Tail(inbox)
    /\ Replies("nonce_proof", IF key = Head(inbox).conn THEN "proved" ELSE "nonce_proof")
    /\ UNCHANGED <<window, connected, sock, phase, beats, key, http, frames, crashed>>

\* RemoteAuthLogin: a request of the ticket.
HandleGatewayPendingLogin ==
    /\ Takes("pending_login") /\ inbox' = Tail(inbox)
    /\ requests' = requests \cup {Head(inbox).conn}
    /\ UNCHANGED <<window, connected, socket, beats, key, locked, frames, crashed>>

HandleGatewayCancel ==
    /\ Takes("cancel")
    /\ CallStop("Restart", frames, Tail(inbox), timers)
    /\ UNCHANGED <<window, key, http, crashed>>

\* A timeout that is still armed when the client is gone calls it all the same.
OnTimeout ==
    /\ MainReady /\ InTime /\ (frames = <<>> \/ "timeout" \in late)
    /\ \E c \in timers :
          \/ /\ dialog # "gone" /\ sock + Len(frames) < MaxConn
             /\ CallStop("Restart", frames, inbox, timers \ {c})
             /\ UNCHANGED crashed
          \/ /\ dialog = "gone" /\ crashed' = TRUE
             /\ UNCHANGED <<connected, socket, beats, inbox, frames>>
    /\ UNCHANGED <<window, key, http>>

\* Websocket's close dispatcher stops the socket before it tells the client.
DispatchClose ==
    /\ Takes("close")
    /\ Len(frames) < MaxDepth
    /\ frames' = <<[fn |-> "Close", pc |-> "pump"]>> \o frames
    /\ phase' = "closed"
    /\ inbox' = IF phase = "open" THEN Append(Tail(inbox), [op |-> "close"]) ELSE Tail(inbox)
    /\ UNCHANGED <<window, connected, sock, stage, beats, key, http, crashed>>

\* Bug: the heartbeat is killed and not joined.
BugKeepsHeartbeat ==
    /\ ~crashed /\ frames # <<>> /\ Top.pc = "pump" /\ inbox = <<>>
    /\ frames' = <<[Top EXCEPT !.pc = "go"]>> \o Tail(frames)
    /\ killed' = (Top.fn # "Close" \/ killed)
    /\ UNCHANGED <<window, connected, socket, heartbeat, timers, timeout, key, inbox, http, crashed>>

\* Nothing is pending: Websocket::Stop returns, and Stop ends the heartbeat.
StopReturns ==
    /\ ~crashed /\ frames # <<>> /\ Top.pc = "pump" /\ inbox = <<>>
    /\ frames' = <<[Top EXCEPT !.pc = "go"]>> \o Tail(frames)
    /\ IF Top.fn = "Close" THEN UNCHANGED <<heartbeat, killed>>
                           ELSE heartbeat' = 0 /\ killed' = TRUE
    /\ UNCHANGED <<window, connected, socket, timers, timeout, key, inbox, http, crashed>>

GoesOn(fn) == ~crashed /\ frames # <<>> /\ Top = [fn |-> fn, pc |-> "go"]

\* Bug: the waiter is not revived.
BugRestartEnds ==
    /\ GoesOn("Restart") /\ ~connected
    /\ frames' = Tail(frames)
    /\ connected' = TRUE
    /\ sock' = sock + 1 /\ phase' = "connecting" /\ stage' = "wait"
    /\ UNCHANGED <<window, heartbeat, killed, timers, timeout, key, inbox, http, crashed>>

\* Bug: the client is not started again.
BugForgetsStart ==
    /\ GoesOn("Restart") /\ ~connected
    /\ frames' = Tail(frames)
    /\ UNCHANGED <<window, connected, socket, beats, key, inbox, http, crashed>>

\* Start.  It would stop a client that another handler has started meanwhile, if ever
\* one had (RestartsStopped).
RestartEnds ==
    /\ GoesOn("Restart") /\ ~connected
    /\ frames' = Tail(frames)
    /\ connected' = TRUE /\ killed' = FALSE
    /\ sock' = sock + 1 /\ phase' = "connecting" /\ stage' = "wait"
    /\ UNCHANGED <<window, heartbeat, timers, timeout, key, inbox, http, crashed>>

\* OnWebsocketClose: an error, unless the client has stopped.
CloseEnds ==
    /\ GoesOn("Close")
    /\ \/ connected /\ CallStop("Closed", Tail(frames), inbox, timers)
       \/ ~connected /\ frames' = Tail(frames) /\ UNCHANGED <<connected, socket, beats, inbox>>
    /\ UNCHANGED <<window, key, http, crashed>>

----------------------------------------------------------------------------
(* HTTPClient *)

\* A worker queues an answer, when it gets the mutex.
OnResponse ==
    /\ ~locked
    /\ \E c \in requests, ok \in BOOLEAN :
          /\ "answer" \in late \/ (c = sock /\ connected)
          /\ requests' = requests \ {c}
          /\ inbox' = Append(inbox, [op |-> "answer", conn |-> c, ok |-> ok])
    /\ UNCHANGED <<window, connected, socket, beats, key, locked, frames, crashed>>

\* Bug: an answer without a token is taken for one.
BugRunCallbacks ==
    /\ Takes("answer") /\ ~locked /\ dialog # "gone"
    /\ locked' = TRUE
    /\ token' = IF Head(inbox).ok /\ key = Head(inbox).conn THEN key ELSE 0
    /\ CallStop("Token", frames, Tail(inbox), timers)
    /\ UNCHANGED <<late, dialog, response, key, requests, crashed>>

\* The answer's callback runs with the mutex held, of a client that must be there:
\* a token that its key decrypts or else an empty one, or an error.
RunCallbacks ==
    /\ Takes("answer")
    /\ IF locked \/ dialog = "gone"
       THEN crashed' = TRUE /\ UNCHANGED <<token, connected, socket, beats, inbox, locked, frames>>
       ELSE /\ locked' = TRUE
            /\ LET answer == Head(inbox) IN
               /\ token' = IF ~answer.ok THEN token ELSE IF key = answer.conn THEN key ELSE 0
               /\ CallStop(IF answer.ok THEN "Token" ELSE "Refused", frames, Tail(inbox), timers)
            /\ UNCHANGED crashed
    /\ UNCHANGED <<late, dialog, response, key, requests>>

----------------------------------------------------------------------------
(* RemoteAuthDialog *)

OnTokenEnds ==
    /\ GoesOn("Token")
    /\ response' = "ok" /\ locked' = FALSE /\ frames' = Tail(frames)
    /\ UNCHANGED <<late, dialog, token, connected, socket, beats, key, inbox, requests, crashed>>

\* OnError shows the error until the user dismisses it.
OnErrorShows ==
    /\ GoesOn("Refused") \/ GoesOn("Closed")
    /\ frames' = <<[Top EXCEPT !.pc = "confirm"]>> \o Tail(frames)
    /\ UNCHANGED <<window, connected, socket, beats, key, inbox, http, crashed>>

OnErrorEnds ==
    /\ ~crashed /\ frames # <<>> /\ Top.pc = "confirm"
    /\ response' = "cancel" /\ frames' = Tail(frames)
    /\ locked' = (locked /\ Top.fn # "Refused")
    /\ UNCHANGED <<late, dialog, token, connected, socket, beats, key, inbox, requests, crashed>>

\* The dialog's own buttons, unless a message is before it.
UserResponds ==
    /\ MainReady /\ dialog = "open"
    /\ \A i \in DOMAIN frames : frames[i].pc # "confirm"
    /\ InTime
    /\ response' \in {"pressed", "cancel"}
    /\ UNCHANGED <<late, dialog, token, connected, socket, beats, key, inbox, http, frames, crashed>>

\* run has returned, and the dialog is destroyed with its client, which stops.
RunReturns ==
    /\ ~crashed /\ frames = <<>> /\ dialog = "open" /\ response # "none"
    /\ dialog' = "closing"
    /\ CallStop("Destroy", frames, inbox, timers)
    /\ UNCHANGED <<late, response, token, key, http, crashed>>

DestroyEnds ==
    /\ GoesOn("Destroy")
    /\ dialog' = "gone" /\ frames' = Tail(frames)
    /\ UNCHANGED <<late, response, token, connected, socket, beats, key, inbox, http, crashed>>

----------------------------------------------------------------------------
Messages == \/ HandleGatewayHello \/ HandleGatewayNonceProof
            \/ HandleGatewayPendingLogin \/ HandleGatewayCancel
            \/ DispatchClose \/ RunCallbacks

Continues == \/ StopReturns \/ RestartEnds \/ CloseEnds
             \/ OnTokenEnds \/ OnErrorShows \/ OnErrorEnds \/ RunReturns \/ DestroyEnds

LoginNext == \/ SocketOpens \/ SocketFails \/ SocketCloses \/ ServerSends
             \/ Messages \/ OnTimeout \/ OnResponse \/ UserResponds \/ Continues

LoginSpec == LoginInit /\ [][LoginNext]_loginVars

\* The main thread takes what is pending, and the user reads the message.
FairLoginSpec == LoginSpec /\ WF_loginVars(Messages) /\ WF_loginVars(Continues)

----------------------------------------------------------------------------
(* Properties *)

\* When nothing comes late, no handler makes a second heartbeat thread over the first,
\* is called on a client that is gone, or waits for the mutex its own callback holds.
NoCrash == late = {} => ~crashed

\* The dialog at rest listens to one connection: when that has said hello, its
\* heartbeat beats and its timeout, and no other, is armed.
ListensToOne ==
    frames = <<>> /\ response = "none" /\ ~crashed =>
        /\ timers \subseteq {sock} /\ connected
        /\ key = sock => heartbeat = sock /\ ~killed /\ timers = {sock}

\* When the login closes the dialog there is a token: the key that decrypts it is
\* still the one the login was begun with.
TokenIsReadable == "answer" \notin late /\ response = "ok" => token # 0

\* A handler that goes on to Start finds the client stopped, whatever was handled in its
\* Stop: one that was started there has been stopped again by the close that followed.
RestartsStopped == GoesOn("Restart") => ~connected

\* From the connection that the dialog begins with on, and when nothing comes late, the
\* client keeps to Connection: it begins a connection when the last is over and its
\* heartbeat was joined, and no heartbeat is made over another.
Link == INSTANCE Connection WITH number <- sock, link <- phase, serving <- heartbeat,
                                 said <- "going"
StepsAsConnection == [][late = {} => Link!Next]_(Link!vars)

\* A client that has stopped starts again, or its dialog ends, as does every dialog
\* that was responded to.
Concludes == late = {} /\ (~connected \/ response # "none")
                 ~> dialog = "gone" \/ (connected /\ response = "none")
=============================================================================
