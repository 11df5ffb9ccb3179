-------------------------------- MODULE Dave --------------------------------
(***************************************************************************)
(* The end-to-end encryption of a voice connection: DaveSession (dave.cpp) *)
(* and the handlers of DiscordVoiceClient that feed it (voiceclient.cpp).  *)
(* The server announces changes of the group and later has them executed;  *)
(* what the client keeps of an announcement until then is a flag, an id    *)
(* and a version.  Keys are known by the epoch they belong to.  libdave's  *)
(* MLS session is external: an epoch, its roster and a key package.        *)
(* The UDP thread takes packets without a lock: any message may be handled *)
(* between the steps of OnUDPData.                                         *)
(***************************************************************************)
EXTENDS Naturals, Sequences

CONSTANTS
    Users,          \* the other users of the channel
    MaxEpochs,      \* epochs of the group (bound)
    MaxKeys,        \* key packages sent (bound)
    MaxFaults,      \* commits and welcomes that cannot be processed (bound)
    MaxDowngrades,  \* times the server turns encryption off (bound)
    MaxMoves,       \* times a user joins or leaves (bound)
    Calls           \* the calls considered: who may be in one and what may happen

\* What a server may do in a call: change the group at once, announce a change before
\* the last is executed, turn encryption on again after a downgrade, tell an ssrc by
\* SESSION_UPDATE.
Call == [users : SUBSET Users, atOnce : BOOLEAN, overlap : BOOLEAN, reupgrade : BOOLEAN,
         sessionUpdates : BOOLEAN]

ASSUME DaveAssumption ==
    /\ MaxEpochs \in Nat \ {0} /\ MaxKeys \in Nat \ {0}
    /\ MaxFaults \in Nat /\ MaxDowngrades \in Nat /\ MaxMoves \in Nat
    /\ Calls \subseteq Call

VARIABLES
    \* the server
    call,        \* which of the calls this is
    group,       \* version and epoch that are in force
    members,     \* the other users, as of the last announcement
    inGroup,     \* are we a member, as of the last announcement?
    announced,   \* announcements not yet executed
    keyPackage,  \* the last key package received and not used, 0 if none
    inbox,       \* messages on their way to their handler
    outbox,      \* messages on their way to the server
    \* DaveSession
    exists,          \* m_dave
    version,         \* m_protocol_version
    pendingVersion,  \* m_pending_protocol_version
    ready,           \* m_pending_transition_ready
    enabled,         \* m_enabled
    downgraded,      \* m_downgraded
    mls,             \* m_mls_session: its epoch and roster, epoch 0 outside a group
    key,             \* the key package made last
    encryptor,       \* m_encryptor: the epoch of its ratchet, 0 if it has none
    decryptors,      \* m_decryptors, likewise
    recognized,      \* m_connected_users of the session, ourselves apart
    \* DiscordVoiceClient
    connected,       \* m_connected_users
    mapped,          \* users whose ssrc is in m_ssrc_user_map
    packet,          \* where the UDP thread is with a packet
    missed,          \* users whose decryptor a message overtook while it was made
    epochs, faults, downgrades, moves

server  == <<call, group, members, inGroup, announced, keyPackage>>
flags   == <<exists, version, pendingVersion, ready, enabled, downgraded>>
keys    == <<mls, key, encryptor, decryptors>>
known   == <<recognized, connected, mapped>>
udp     == <<packet, missed>>
session == <<flags, keys, recognized>>
counts  == <<epochs, faults, downgrades, moves>>
vars    == <<server, inbox, outbox, flags, keys, known, udp, counts>>

Epoch   == 0..MaxEpochs
Version == {0, 1}
Outside == [epoch |-> 0, roster |-> {}]

\* A packet: whose it is and whether the ssrc was known, then the ratchet to enter.
NoPacket == [at |-> "none"]
Packet == {NoPacket} \cup [at : {"lookup"}, user : Users, known : BOOLEAN]
                    \cup [at : {"entry"}, user : Users, ratchet : Epoch]

\* The call begins with or without encryption; HandleGatewaySessionDescription
\* comes first.
Init ==
    /\ call \in Calls
    /\ group \in [version : Version, epoch : {0}]
    /\ members \in SUBSET call.users /\ inGroup = FALSE
    /\ announced = <<>> /\ keyPackage = 0
    /\ inbox = <<[kind |-> "Connect", users |-> members],
                 [kind |-> "SessionDescription", version |-> group.version]>>
    /\ outbox = <<>>
    /\ exists = FALSE /\ version = 0 /\ pendingVersion = 0 /\ ready = FALSE
    /\ enabled = FALSE /\ downgraded = FALSE
    /\ mls = Outside /\ key = 0 /\ encryptor = 0 /\ decryptors = <<>>
    /\ recognized = {} /\ connected = {} /\ mapped = {}
    /\ packet = NoPacket /\ missed = {}
    /\ epochs = 0 /\ faults = 0 /\ downgrades = 0 /\ moves = 0

----------------------------------------------------------------------------
(* The server *)

Announces(change, messages) ==
    /\ call.overlap \/ announced = <<>>
    /\ inbox' = inbox \o messages
    /\ announced' = Append(announced, change)

\* A change of the group makes a new epoch.  The message that brings it has id 0
\* when it is in force at once, its epoch for an id when it waits to be executed.
NextEpoch(told, message) ==
    /\ epochs < MaxEpochs /\ epochs' = epochs + 1
    /\ \/ /\ call.atOnce /\ announced = <<>> /\ UNCHANGED announced
          /\ inbox' = inbox \o told \o <<[message EXCEPT !.id = 0]>>
          /\ group' = [group EXCEPT !.epoch = epochs']
       \/ /\ Announces([version |-> 1, epoch |-> epochs'], told \o <<message>>)
          /\ UNCHANGED group

\* A user joins or leaves: the other clients are told, and members of the group
\* get the commit.
UserJoinsOrLeaves(u) ==
    /\ u \in call.users /\ moves < MaxMoves /\ moves' = moves + 1
    /\ members' = IF u \in members THEN members \ {u} ELSE members \cup {u}
    /\ LET told == [kind |-> IF u \in members THEN "Disconnect" ELSE "Connect", users |-> {u}]
       IN  IF inGroup
           THEN NextEpoch(<<told>>, [kind |-> "Commit", id |-> epochs', epoch |-> epochs',
                                     roster |-> members'])
           ELSE inbox' = Append(inbox, told) /\ UNCHANGED <<group, announced, epochs>>
    /\ UNCHANGED <<call, inGroup, keyPackage, outbox, session, connected, mapped, udp,
                   faults, downgrades>>

\* Our key package is used to add us to the group.
ServerAddsUs ==
    /\ group.version = 1 /\ keyPackage # 0 /\ keyPackage' = 0
    /\ ~inGroup /\ inGroup' = TRUE
    /\ NextEpoch(<<>>, [kind |-> "Welcome", id |-> epochs', epoch |-> epochs',
                        roster |-> members, key |-> keyPackage])
    /\ UNCHANGED <<call, members, outbox, session, connected, mapped, udp, faults,
                   downgrades, moves>>

\* Encryption is turned off, once every client is ready ...
ServerDowngrades ==
    /\ group.version = 1 /\ \A i \in DOMAIN announced : announced[i].version # 0
    /\ downgrades < MaxDowngrades /\ downgrades' = downgrades + 1
    /\ Announces([version |-> 0, epoch |-> 0],
                 <<[kind |-> "PrepareTransition", version |-> 0]>>)
    /\ inGroup' = FALSE
    /\ UNCHANGED <<call, group, members, keyPackage, outbox, session, connected,
                   mapped, udp, epochs, faults, moves>>

\* ... or on, or the group is made anew: the first epoch of a new group is prepared.
ServerPreparesEpoch ==
    /\ announced = <<>> /\ (call.reupgrade \/ downgrades = 0)
    /\ epochs < MaxEpochs /\ epochs' = epochs + 1
    /\ group' = [version |-> 1, epoch |-> 0] /\ inGroup' = FALSE /\ keyPackage' = 0
    /\ inbox' = Append(inbox, [kind |-> "PrepareEpoch", version |-> 1, epoch |-> 1])
    /\ UNCHANGED <<call, members, announced, outbox, session, connected, mapped, udp,
                   faults, downgrades, moves>>

\* A change is executed when every client is ready for it, or was given long enough.
ServerExecutes ==
    /\ announced # <<>> /\ announced' = Tail(announced)
    /\ group' = [version |-> Head(announced).version, epoch |-> Head(announced).epoch]
    /\ inbox' = Append(inbox, [kind |-> "Execute"])
    /\ UNCHANGED <<call, members, inGroup, keyPackage, outbox, session, connected, mapped,
                   udp, counts>>

\* A key package arrives, or word that we could not process a change: then we are
\* out of the group.  That we are ready is not modelled: it only hastens ServerExecutes.
ServerTakes ==
    /\ outbox # <<>> /\ outbox' = Tail(outbox)
    /\ keyPackage' = IF Head(outbox).kind = "KeyPackage" THEN Head(outbox).key ELSE keyPackage
    /\ inGroup' = (inGroup /\ Head(outbox).kind # "Invalid")
    /\ UNCHANGED <<call, group, members, announced, inbox, session, connected, mapped,
                   udp, counts>>

----------------------------------------------------------------------------
(* DaveSession *)

\* Reinit: a new MLS session, outside any group, and its key package.
Reinit ==
    /\ enabled' = FALSE /\ downgraded' = FALSE /\ ready' = FALSE
    /\ mls' = Outside /\ encryptor' = 0 /\ decryptors' = <<>> /\ missed' = {}
    /\ key < MaxKeys /\ key' = key + 1
    /\ outbox' = Append(outbox, [kind |-> "KeyPackage", key |-> key'])

\* GetKeyRatchet: the epoch of the ratchet for user u, 0 if there is none.
Ratchet(session_, u) == IF u \in session_.roster THEN session_.epoch ELSE 0

\* Whoever is in a group and mapped is given its ratchet.
Refresh(m) ==
    /\ decryptors' = [u \in DOMAIN decryptors |->
           IF u \in mapped /\ Ratchet(m, u) # 0 THEN Ratchet(m, u) ELSE decryptors[u]]
    /\ missed' = {u \in missed : ~(u \in mapped /\ Ratchet(m, u) # 0)}

\* Bug: the encryptor is given a ratchet only once.
BugKeepsRatchet(m) ==
    /\ ready' = FALSE /\ encryptor' = IF encryptor = 0 THEN m.epoch ELSE encryptor
    /\ Refresh(m)
    /\ enabled' = TRUE /\ downgraded' = IF enabled THEN downgraded ELSE FALSE

\* CompleteTransition with a commit or a welcome processed: the ratchets of the
\* session m are taken into use.
CompleteTransition(m) ==
    /\ ready' = FALSE /\ encryptor' = m.epoch
    /\ Refresh(m)
    /\ enabled' = TRUE /\ downgraded' = IF enabled THEN downgraded ELSE FALSE

\* The next message is taken.
Takes(kind) == inbox # <<>> /\ Head(inbox).kind = kind /\ inbox' = Tail(inbox)

\* A commit or a welcome that the MLS session accepts.
Accepts(message) ==
    /\ mls' = [epoch |-> message.epoch, roster |-> message.roster]
    /\ IF message.id = 0
       THEN CompleteTransition(mls')
       ELSE ready' = TRUE /\ UNCHANGED <<encryptor, decryptors, missed, enabled, downgraded>>
    /\ UNCHANGED outbox

\* The message is rejected; the session stays as it is.
Rejects ==
    /\ outbox' = Append(outbox, [kind |-> "Invalid"])
    /\ UNCHANGED <<ready, mls, encryptor, decryptors, missed, enabled, downgraded>>

\* OnAnnounceCommitTransition: a commit can be processed in the epoch before its
\* own; others are rejected, or ignored without an answer.
OnAnnounceCommitTransition ==
    /\ Takes("Commit")
    /\ LET m == Head(inbox)
       IN  \/ exists /\ mls.epoch # 0 /\ mls.epoch + 1 = m.epoch
              /\ Accepts(m) /\ UNCHANGED faults
           \/ exists /\ mls.epoch # 0 /\ mls.epoch + 1 = m.epoch
              /\ faults < MaxFaults /\ faults' = faults + 1 /\ Rejects
           \/ exists /\ (mls.epoch = 0 \/ mls.epoch + 1 # m.epoch)
              /\ Rejects /\ UNCHANGED faults
           \/ (~exists \/ mls.epoch = 0 \/ mls.epoch + 1 # m.epoch)
              /\ UNCHANGED <<ready, mls, encryptor, decryptors, missed, enabled, downgraded,
                             outbox, faults>>
    /\ UNCHANGED <<server, exists, version, pendingVersion, key, known, packet, epochs,
                   downgrades, moves>>

\* OnWelcome: it is for our present key package and every member of the group is
\* one whom the voice server told us of.
OnWelcome ==
    /\ Takes("Welcome")
    /\ LET m == Head(inbox)
       IN  \/ exists /\ m.key = key /\ m.roster \subseteq recognized
              /\ Accepts(m) /\ UNCHANGED faults
           \/ exists /\ m.key = key
              /\ faults < MaxFaults /\ faults' = faults + 1 /\ Rejects
           \/ exists /\ (m.key # key \/ ~(m.roster \subseteq recognized))
              /\ Rejects /\ UNCHANGED faults
           \/ ~exists /\ UNCHANGED <<ready, mls, encryptor, decryptors, missed, enabled,
                                      downgraded, outbox, faults>>
    /\ UNCHANGED <<server, exists, version, pendingVersion, key, known, packet, epochs,
                   downgrades, moves>>

\* OnPrepareTransition.
OnPrepareTransition ==
    /\ Takes("PrepareTransition")
    /\ IF exists
       THEN pendingVersion' = Head(inbox).version
       ELSE UNCHANGED pendingVersion
    /\ UNCHANGED <<server, outbox, exists, version, ready, enabled, downgraded, keys, known, udp,
                   counts>>

\* Bug: an execution that finds nothing to take into use is passed over.
BugExecutes(v) ==
    /\ version' = v
    /\ IF ready THEN CompleteTransition(mls)
                ELSE UNCHANGED <<ready, encryptor, decryptors, missed, enabled, downgraded>>
    /\ UNCHANGED <<mls, key, outbox>>

\* OnExecuteTransition, once the version is v: what is ready is taken into use,
\* whichever change it came with; when nothing is, we begin anew.
Executes(v) ==
    /\ version' = v
    /\ \/ ready /\ CompleteTransition(mls) /\ UNCHANGED <<mls, key, outbox>>
       \/ ~ready /\ Reinit

\* OnExecuteTransition: a pending version 0 disables encryption and nothing else.
OnExecuteTransition ==
    /\ Takes("Execute")
    /\ \/ /\ exists /\ pendingVersion # version /\ pendingVersion = 0
          /\ version' = 0 /\ enabled' = FALSE /\ downgraded' = TRUE
          /\ UNCHANGED <<ready, keys, missed, outbox>>
       \/ exists /\ (pendingVersion = version \/ pendingVersion # 0) /\ Executes(pendingVersion)
       \/ ~exists /\ UNCHANGED <<version, ready, enabled, downgraded, keys, missed, outbox>>
    /\ UNCHANGED <<server, exists, pendingVersion, known, packet, counts>>

----------------------------------------------------------------------------
(* DiscordVoiceClient *)

\* EnsureDaveSession when there is none: DaveSession's constructor and Init.
EnsureDaveSession(v) ==
    /\ exists' = TRUE /\ version' = v /\ pendingVersion' = v
    /\ recognized' = connected
    /\ Reinit

HandleGatewaySessionDescription ==
    /\ Takes("SessionDescription")
    /\ IF Head(inbox).version > 0 /\ ~exists
       THEN EnsureDaveSession(Head(inbox).version)
       ELSE UNCHANGED <<session, missed, outbox>>
    /\ UNCHANGED <<server, connected, mapped, packet, counts>>

\* HandleGatewayDavePrepareEpoch and OnPrepareEpoch, with a session: it is made
\* anew for the first epoch of a group.
HandleGatewayDavePrepareEpoch ==
    /\ Takes("PrepareEpoch") /\ exists
    /\ IF Head(inbox).epoch = 1
       THEN version' = Head(inbox).version /\ Reinit
       ELSE UNCHANGED <<version, ready, enabled, downgraded, keys, missed, outbox>>
    /\ UNCHANGED <<server, exists, pendingVersion, known, packet, counts>>

\* ... and without one: the session that is made sends a key package, and the one
\* that OnPrepareEpoch makes of it at once another.
PrepareEpochCreates ==
    /\ Takes("PrepareEpoch") /\ ~exists
    /\ exists' = TRUE /\ version' = 1 /\ pendingVersion' = 1
    /\ recognized' = connected
    /\ enabled' = FALSE /\ downgraded' = FALSE /\ ready' = FALSE
    /\ mls' = Outside /\ encryptor' = 0 /\ decryptors' = <<>>
    /\ key + 1 < MaxKeys /\ key' = key + 2
    /\ outbox' = outbox \o <<[kind |-> "KeyPackage", key |-> key + 1],
                             [kind |-> "KeyPackage", key |-> key + 2]>>
    /\ UNCHANGED <<server, connected, mapped, udp, counts>>

\* A user is added to what client and session know.
Adds(us) ==
    /\ connected' = connected \cup us
    /\ recognized' = IF exists THEN recognized \cup us ELSE recognized

HandleGatewayClientConnect ==
    /\ Takes("Connect") /\ Adds(Head(inbox).users)
    /\ UNCHANGED <<server, outbox, flags, keys, mapped, udp, counts>>

\* HandleGatewayClientDisconnect, RemoveConnectedUser: the decryptor is found by
\* way of m_ssrc_user_map.
HandleGatewayClientDisconnect ==
    /\ Takes("Disconnect")
    /\ LET us == Head(inbox).users
       IN  /\ connected' = connected \ us /\ mapped' = mapped \ us
           /\ recognized' = IF exists THEN recognized \ us ELSE recognized
           /\ decryptors' = [u \in DOMAIN decryptors \ (us \cap mapped) |-> decryptors[u]]
    /\ UNCHANGED <<server, outbox, flags, mls, key, encryptor, udp, counts>>

\* Bug: a decryptor that exists already is left without the ratchet.
BugHandleGatewaySpeaking(u) ==
    /\ u \in connected /\ u \in members
    /\ Adds({u}) /\ mapped' = mapped \cup {u} /\ UNCHANGED decryptors
    /\ UNCHANGED <<server, inbox, outbox, flags, mls, key, encryptor, udp, counts>>

\* HandleGatewaySpeaking, ApplyKeyRatchetForSSRC: the server tells the ssrc of a
\* user of the channel.
HandleGatewaySpeaking(u) ==
    /\ u \in connected /\ u \in members
    /\ Adds({u}) /\ mapped' = mapped \cup {u}
    /\ IF exists /\ u \in DOMAIN decryptors /\ Ratchet(mls, u) # 0
       THEN decryptors' = [decryptors EXCEPT ![u] = Ratchet(mls, u)] /\ missed' = missed \ {u}
       ELSE UNCHANGED <<decryptors, missed>>
    /\ UNCHANGED <<server, inbox, outbox, flags, mls, key, encryptor, packet, counts>>

\* HandleGatewaySessionUpdate tells it as well; no decryptor gets a ratchet.
HandleGatewaySessionUpdate(u) ==
    /\ call.sessionUpdates /\ u \in connected /\ u \in members
    /\ Adds({u}) /\ mapped' = mapped \cup {u}
    /\ UNCHANGED <<server, inbox, outbox, flags, keys, udp, counts>>

\* OnUDPData with encryption enabled looks up whose ssrc it is ...
OnUDPData(u) ==
    /\ packet = NoPacket /\ exists /\ enabled /\ u \in members
    /\ packet' = [at |-> "lookup", user |-> u, known |-> u \in mapped]
    /\ UNCHANGED <<server, inbox, outbox, flags, keys, known, missed, counts>>

\* ... GetOrCreateDecryptor finds the decryptor or takes a ratchet for a new one,
\* none when the user was not known ...
GetOrCreateDecryptor ==
    /\ packet.at = "lookup"
    /\ packet' = IF packet.user \in DOMAIN decryptors THEN NoPacket
                 ELSE [at |-> "entry", user |-> packet.user,
                       ratchet |-> IF packet.known THEN Ratchet(mls, packet.user) ELSE 0]
    /\ UNCHANGED <<server, inbox, outbox, flags, keys, known, missed, counts>>

\* ... and enters it: a message since then that told the ssrc or changed the group did
\* not find it there.
DecryptorEntered ==
    /\ packet.at = "entry" /\ packet' = NoPacket
    /\ LET u   == packet.user
           now == IF u \in mapped THEN Ratchet(mls, u) ELSE 0
       IN  /\ decryptors' = [w \in DOMAIN decryptors \cup {u} |->
                  IF w = u THEN packet.ratchet ELSE decryptors[w]]
           /\ missed' = IF packet.ratchet = now THEN missed \ {u} ELSE missed \cup {u}
    /\ UNCHANGED <<server, inbox, outbox, flags, mls, key, encryptor, known, counts>>

----------------------------------------------------------------------------
Server == \/ \E u \in Users : UserJoinsOrLeaves(u)
          \/ ServerAddsUs \/ ServerDowngrades \/ ServerPreparesEpoch
          \/ ServerExecutes \/ ServerTakes
Client == \/ OnAnnounceCommitTransition \/ OnWelcome \/ OnPrepareTransition
          \/ OnExecuteTransition \/ HandleGatewaySessionDescription
          \/ HandleGatewayDavePrepareEpoch \/ PrepareEpochCreates
          \/ HandleGatewayClientConnect \/ HandleGatewayClientDisconnect
Media  == \/ \E u \in Users : \/ HandleGatewaySpeaking(u) \/ HandleGatewaySessionUpdate(u)
                              \/ OnUDPData(u)
          \/ GetOrCreateDecryptor \/ DecryptorEntered

Next == Server \/ Client \/ Media

Spec == Init /\ [][Next]_vars

\* The dispatchers run, the server reads its messages, adds who asks to be in
\* the group and executes what its clients are ready for.
FairSpec == Spec /\ WF_vars(Client) /\ WF_vars(ServerTakes)
                 /\ WF_vars(ServerAddsUs) /\ WF_vars(ServerExecutes)

----------------------------------------------------------------------------
(* Properties *)

\* The range of the session's variables and of what it knows.
TypeOK ==
    /\ exists \in BOOLEAN /\ version \in Version /\ pendingVersion \in Version
    /\ ready \in BOOLEAN /\ enabled \in BOOLEAN /\ downgraded \in BOOLEAN
    /\ mls \in [epoch : Epoch, roster : SUBSET Users]
    /\ key \in 0..MaxKeys /\ encryptor \in Epoch
    /\ DOMAIN decryptors \subseteq Users
    /\ \A u \in DOMAIN decryptors : decryptors[u] \in Epoch
    /\ recognized \subseteq Users /\ connected \subseteq Users /\ mapped \subseteq Users
    /\ packet \in Packet /\ missed \subseteq Users

\* While encryption is enabled the encryptor has a ratchet: an execution never
\* finds "ready" left over from before the session was made anew, or every
\* packet would fail to encrypt (OnExecuteTransition, CompleteTransition, Reinit).
EnabledHasRatchet == enabled => encryptor # 0

\* Server and client have nothing to say to each other.
CaughtUp == inbox = <<>> /\ outbox = <<>> /\ announced = <<>>

\* What we send is what the group expects: encrypted by the ratchet of its epoch
\* when it has one, and in the clear when encryption is off, as long as announcements
\* do not overlap and encryption that was turned off stays off.
SendsAsGroup ==
    CaughtUp /\ ~call.overlap /\ ~call.reupgrade
             => /\ inGroup => enabled /\ encryptor = group.epoch
                /\ group.version = 0 => ~enabled

\* Whom we were told the ssrc of is heard: the decryptor made for that ssrc has the
\* ratchet of the group's epoch, when every ssrc is told by SPEAKING.  It was made before
\* that ssrc was told, or after; but the UDP thread makes it without a lock, and one that
\* was entered with what held before a message that it was overtaken by (missed) has no
\* ratchet, or the old one, until the next SPEAKING of the user or change of the group.
HearsEveryone ==
    CaughtUp /\ inGroup /\ ~call.overlap /\ ~call.reupgrade /\ ~call.sessionUpdates
        => \A u \in (members \cap mapped \cap DOMAIN decryptors) \ missed :
               decryptors[u] = group.epoch

\* The session knows every user the voice client does, in whatever order users,
\* session and epochs came: a welcome is refused for a member it does not know.
KnowsConnected == exists => recognized = connected

\* A client that is not in the group of a call with encryption, or does not encrypt as
\* one of it, comes to do so, when changes are executed after they were announced and
\* announcements do not overlap.  A change that is in force at once is not executed: a
\* client that cannot process it is left out and does not begin anew.
Joined == inGroup /\ mls.epoch # 0 /\ enabled

Joins ==
    ~call.atOnce /\ ~call.overlap /\ ~call.reupgrade /\ group.version = 1 /\ ~Joined
        ~> Joined \/ group.version = 0 \/ epochs = MaxEpochs \/ key + 1 >= MaxKeys
=============================================================================
