----------------------------- MODULE ReadState -----------------------------
(***************************************************************************)
(* What DiscordClient knows of read and unread channels: m_unread and      *)
(* m_last_message_id of discord.cpp, against the read state the server     *)
(* keeps for the account.                                                  *)
(*                                                                         *)
(* Nothing is marked as read locally: MarkChannelAsRead and                *)
(* MarkGuildAsRead ask the server over HTTP, each request on a thread of   *)
(* its own, and the entry goes when the server's MESSAGE_ACK comes back    *)
(* through the gateway, in order with the messages.  The account may read  *)
(* on another client too, and a lost session ends in a new READY, whose    *)
(* snapshot replaces the events that were never delivered.                 *)
(***************************************************************************)
EXTENDS Naturals, Sequences, FiniteSets

CONSTANTS
    Channels,     \* text channels of one guild, all of them visible to the account
    JoinedAt,     \* the first message posted after the account joined the guild
    MaxMessages,  \* messages posted in a behaviour (bound)
    MaxMarks,     \* times the user marks something as read, here or elsewhere (bound)
    MaxFaults     \* sessions lost and requests failed (bound)

ASSUME ReadStateAssumption ==
    /\ IsFiniteSet(Channels) /\ JoinedAt \in Nat \ {0}
    /\ MaxMessages \in Nat /\ MaxMarks \in Nat /\ MaxFaults \in Nat

VARIABLES
    last,         \* server: id of the last message in each channel, 0 if none
    mark,         \* server: the message up to which a channel is read
    entries,      \* server: channels with an entry in the read state
    pings,        \* server: ids of the messages of others that mention the account
    feed,         \* gateway events on their way to the client, in order
    posts,        \* acknowledgements asked for over HTTP: channel to message id
    lastMessage,  \* m_last_message_id, 0 for a channel that is not in it
    unread,       \* m_unread: channel to mention count
    hidden,       \* last message an acknowledgement of an older one has hidden
    leftover,     \* channels whose entry in m_unread no event on its way will remove
    messages,     \* messages posted
    marks,        \* acknowledgements asked for
    faults        \* faults that have happened

server == <<last, mark, entries, pings>>
client == <<lastMessage, unread>>
ghosts == <<hidden, leftover, messages, marks, faults>>
vars == <<server, feed, posts, client, ghosts>>

Kind == {"other", "ping", "own", "ownPing"}

ServerUnread(c) == last[c] > mark[c]
Mentions(c) == Cardinality({i \in pings[c] : i > mark[c]})

Create(c, k) == [type |-> "create", ch |-> c, id |-> last[c] + 1, kind |-> k]
Ack(c, i)    == [type |-> "ack", ch |-> c, id |-> i]

\* What READY says of the read state: each channel's last message, the entries
\* with their last read message and their mention count.
Snapshot == [type |-> "ready", last |-> last, mark |-> mark, entries |-> entries,
             count |-> [c \in Channels |-> Mentions(c)]]

Init ==
    /\ last = [c \in Channels |-> JoinedAt - 1]
    /\ mark = [c \in Channels |-> JoinedAt - 1]
    /\ entries = {} /\ pings = [c \in Channels |-> {}]
    /\ feed = <<Snapshot>> /\ posts = {}
    /\ lastMessage = [c \in Channels |-> 0]
    /\ unread = [c \in {} |-> 0]
    /\ hidden = [c \in Channels |-> 0] /\ leftover = {}
    /\ messages = 0 /\ marks = 0 /\ faults = 0

----------------------------------------------------------------------------
(* The server *)

\* A message is posted.  One of the account's own is read if all before it is; a
\* mention makes an entry, which is where mentions are counted.
Post(c, k) ==
    /\ messages < MaxMessages /\ messages' = messages + 1
    /\ last' = [last EXCEPT ![c] = @ + 1]
    /\ feed' = Append(feed, Create(c, k))
    /\ IF k \in {"own", "ownPing"}
       THEN /\ IF ServerUnread(c)
               THEN UNCHANGED <<mark, entries>>
               ELSE mark' = [mark EXCEPT ![c] = last[c] + 1] /\ entries' = entries \cup {c}
            /\ hidden' = IF hidden[c] = last[c] THEN [hidden EXCEPT ![c] = @ + 1] ELSE hidden
            /\ leftover' = IF k = "ownPing" /\ ~ServerUnread(c) THEN leftover \cup {c}
                           ELSE leftover
            /\ UNCHANGED pings
       ELSE /\ pings' = IF k = "ping" THEN [pings EXCEPT ![c] = @ \cup {last[c] + 1}] ELSE pings
            /\ entries' = IF k = "ping" THEN entries \cup {c} ELSE entries
            /\ UNCHANGED <<mark, hidden, leftover>>
    /\ UNCHANGED <<posts, client, marks, faults>>

\* The server takes acknowledgements, a bulk request's all at once, and tells
\* every client of the account.  The mark never moves back.
Acknowledge(acks) ==
    /\ mark' = [c \in Channels |->
                  IF c \in DOMAIN acks /\ acks[c] > mark[c] THEN acks[c] ELSE mark[c]]
    /\ entries' = entries \cup DOMAIN acks
    /\ \E s \in [1..Cardinality(DOMAIN acks) -> DOMAIN acks] :
          /\ \A c \in DOMAIN acks : \E i \in DOMAIN s : s[i] = c
          /\ feed' = feed \o [i \in DOMAIN s |-> Ack(s[i], acks[s[i]])]
    /\ hidden' = [c \in Channels |->
                    IF c \in DOMAIN acks THEN IF acks[c] < last[c] THEN last[c] ELSE 0
                    ELSE hidden[c]]
    /\ leftover' = leftover \ DOMAIN acks
    /\ UNCHANGED <<last, pings, client, messages>>

\* A request of this client reaches the server.
PostArrives ==
    \E r \in posts : /\ posts' = posts \ {r}
                     /\ Acknowledge(r)
                     /\ UNCHANGED <<marks, faults>>

\* A request fails: the callbacks of every caller are empty.
PostFails ==
    /\ faults < MaxFaults /\ faults' = faults + 1
    /\ \E r \in posts : posts' = posts \ {r}
    /\ UNCHANGED <<server, feed, client, hidden, leftover, messages, marks>>

\* The account reads a channel on another client, up to any message.
ReadElsewhere(c) ==
    /\ marks < MaxMarks /\ marks' = marks + 1
    /\ \E i \in (mark[c] + 1)..last[c] : Acknowledge([x \in {c} |-> i])
    /\ UNCHANGED <<posts, faults>>

\* The session is lost and a new one identified: what was not delivered never
\* will be, and the client's maps are not cleared.
NewSession ==
    /\ faults < MaxFaults /\ faults' = faults + 1
    /\ feed' = <<Snapshot>>
    /\ hidden' = [c \in Channels |-> 0]
    /\ leftover' = {c \in DOMAIN unread : ~ServerUnread(c)}
    /\ UNCHANGED <<server, posts, client, messages, marks>>

----------------------------------------------------------------------------
(* Gateway events *)

Event(type) ==
    /\ feed # <<>> /\ Head(feed).type = type
    /\ feed' = Tail(feed)
    /\ UNCHANGED <<server, posts, ghosts>>

\* m_unread with an entry for c that counts n mentions.
Unread(u, c, n) == [x \in DOMAIN u \cup {c} |-> IF x = c THEN n ELSE u[x]]

\* m_unread[c], 0 if there is no entry.
CountOf(u, c) == IF c \in DOMAIN u THEN u[c] ELSE 0

\* Mutant: only a mention makes an entry.
BugCreated(u, c, k) == IF k \in {"ping", "ownPing"} THEN Unread(u, c, CountOf(u, c) + 1) ELSE u

\* Mutant: a mention is not counted.
BugUncounted(u, c, k) == IF k = "own" THEN u ELSE Unread(u, c, CountOf(u, c))

\* m_unread after a message: one of another's makes an entry, a mention counts,
\* whoever wrote it.
Created(u, c, k) ==
    IF k \in {"ping", "ownPing"} THEN Unread(u, c, CountOf(u, c) + 1)
    ELSE IF k = "other" THEN Unread(u, c, CountOf(u, c))
    ELSE u

HandleGatewayMessageCreate ==
    /\ Event("create")
    /\ lastMessage' = [lastMessage EXCEPT ![Head(feed).ch] = Head(feed).id]
    /\ unread' = Created(unread, Head(feed).ch, Head(feed).kind)

\* Mutant: the acknowledgement is only passed on.
BugHandleGatewayMessageAck == Event("ack") /\ UNCHANGED client

\* The entry goes, whichever message was acknowledged.
HandleGatewayMessageAck ==
    /\ Event("ack")
    /\ unread' = [c \in DOMAIN unread \ {Head(feed).ch} |-> unread[c]]
    /\ UNCHANGED lastMessage

\* The channels READY finds unread: by their entry, or because they have none and
\* hold a message from after the account joined.
UnreadAtReady(e, known) ==
    {c \in e.entries : known[c] # 0 /\ known[c] > e.mark[c]}
        \cup {c \in Channels \ e.entries : e.last[c] # 0 /\ e.last[c] >= JoinedAt}

\* HandleReadyReadState: entries are made or written over, never removed.
HandleReadyReadState ==
    /\ Event("ready")
    /\ LET e == Head(feed) IN
       /\ lastMessage' = [c \in Channels |-> IF e.last[c] # 0 THEN e.last[c] ELSE lastMessage[c]]
       /\ LET new == UnreadAtReady(e, lastMessage') IN
          unread' = [c \in DOMAIN unread \cup new |->
                       IF c \notin new THEN unread[c]
                       ELSE IF c \in e.entries THEN e.count[c] ELSE 0]

----------------------------------------------------------------------------
(* The user *)

AskToAck(acks) ==
    /\ marks < MaxMarks /\ marks' = marks + 1
    /\ posts' = posts \cup {acks}
    /\ UNCHANGED <<server, feed, client, hidden, leftover, messages, faults>>

\* A row is activated, the active channel is left or "Mark as Read" is chosen.
MarkChannelAsRead(c) ==
    /\ c \in DOMAIN unread /\ lastMessage[c] # 0
    /\ AskToAck([x \in {c} |-> lastMessage[x]])

\* "Mark Guild as Read": one request for all its unread channels.
MarkGuildAsRead ==
    LET known == {c \in DOMAIN unread : lastMessage[c] # 0} IN
    /\ known # {}
    /\ AskToAck([c \in known |-> lastMessage[c]])

----------------------------------------------------------------------------
Server == \/ \E c \in Channels, k \in Kind : Post(c, k)
          \/ \E c \in Channels : ReadElsewhere(c)
          \/ PostArrives \/ PostFails \/ NewSession
Client == HandleGatewayMessageCreate \/ HandleGatewayMessageAck \/ HandleReadyReadState
User   == MarkGuildAsRead \/ \E c \in Channels : MarkChannelAsRead(c)

Next == Server \/ Client \/ User

Spec == Init /\ [][Next]_vars

\* The gateway delivers and the main loop handles what is delivered; a request is
\* answered.  Nobody owes a message, a fault or a click.
FairSpec == Spec /\ WF_vars(Client) /\ WF_vars(PostArrives)

----------------------------------------------------------------------------
(* Properties *)

IsAcks(r) == DOMAIN r \subseteq Channels /\ r \in [DOMAIN r -> Nat]

EventOK ==
    [type : {"create"}, ch : Channels, id : Nat, kind : Kind]
    \cup [type : {"ack"}, ch : Channels, id : Nat]
    \cup [type : {"ready"}, last : [Channels -> Nat], mark : [Channels -> Nat],
          entries : SUBSET Channels, count : [Channels -> Nat]]

\* Every variable keeps its type.
TypeOK ==
    /\ last \in [Channels -> Nat] /\ mark \in [Channels -> Nat]
    /\ entries \subseteq Channels /\ pings \in [Channels -> SUBSET Nat]
    /\ feed \in Seq(EventOK) /\ \A r \in posts : IsAcks(r)
    /\ lastMessage \in [Channels -> Nat]
    /\ DOMAIN unread \subseteq Channels /\ unread \in [DOMAIN unread -> Nat]
    /\ hidden \in [Channels -> Nat] /\ leftover \subseteq Channels
    /\ messages \in Nat /\ marks \in Nat /\ faults \in Nat

\* Once every event is handled, a channel with messages the account has not read
\* has its entry in m_unread, whatever was read where and however often the session
\* was lost, unless all of them came before an acknowledgement of an older message.
NoneMissed ==
    feed = <<>> =>
        \A c \in Channels : ServerUnread(c) /\ last[c] > hidden[c] => c \in DOMAIN unread

\* Once every event is handled, an entry in m_unread is a channel with messages to
\* read, save those a new session found read with the old entry in place and those
\* the account's own mention made.
NoneInvented ==
    feed = <<>> => \A c \in DOMAIN unread : ServerUnread(c) \/ c \in leftover

\* The number on the badge is never less than the server's count of mentions.
MentionsCounted ==
    feed = <<>> =>
        \A c \in Channels : ServerUnread(c) /\ hidden[c] = 0 => unread[c] >= Mentions(c)

\* What the user marks as read becomes read, unless the request or the session fails.
MarkedBecomesRead ==
    \A c \in Channels :
        faults = 0 /\ (\E r \in posts : c \in DOMAIN r) ~> c \notin DOMAIN unread \/ faults > 0

\* discord.cpp: "the absence of an entry in m_unread indicates a read channel".
AbsentMeansRead ==
    feed = <<>> => \A c \in Channels : c \notin DOMAIN unread => ~ServerUnread(c)
=============================================================================
