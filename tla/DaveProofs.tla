----------------------------- MODULE DaveProofs -----------------------------
(***************************************************************************)
(* For every set of users, every bound and every way the server has of     *)
(* announcing changes: an encryptor in use has a ratchet, and the session  *)
(* knows the users of the voice client.  Where announcements do not        *)
(* overlap and encryption that was turned off stays off, we send what the  *)
(* group expects and hear everyone of it whose decryptor was not overtaken *)
(* as it was made.                                                         *)
(***************************************************************************)
EXTENDS Dave, SequenceTheorems, TLAPS

\* What the server sends: a commit or a welcome brings an epoch of a group.
Message ==
    [kind : {"Connect", "Disconnect"}, users : SUBSET Users]
    \cup [kind : {"SessionDescription", "PrepareTransition"}, version : Version]
    \cup [kind : {"PrepareEpoch"}, version : {1}, epoch : {1}]
    \cup [kind : {"Commit"}, id : Epoch, epoch : 1..MaxEpochs, roster : SUBSET Users]
    \cup [kind : {"Welcome"}, id : Epoch, epoch : 1..MaxEpochs, roster : SUBSET Users,
          key : 0..MaxKeys]
    \cup [kind : {"Execute"}]

\* What the client sends.
Reply == [kind : {"KeyPackage"}, key : 0..MaxKeys] \cup [kind : {"Invalid"}]

ServerTypeOK ==
    /\ group \in [version : Version, epoch : Epoch] /\ members \in SUBSET Users
    /\ announced \in Seq([version : Version, epoch : Epoch])
    /\ inbox \in Seq(Message) /\ outbox \in Seq(Reply)
    /\ keyPackage \in 0..MaxKeys /\ epochs \in Epoch

\* A transition that is ready has an epoch to take into use: Reinit, which leaves
\* the group, also forgets that one was ready.
ReadyHasEpoch == ready => mls.epoch # 0

IInv == /\ TypeOK /\ ServerTypeOK
        /\ ReadyHasEpoch /\ EnabledHasRatchet /\ KnowsConnected

\* A call begins without a session.
LEMMA InitIInv == Init => IInv
<1> SUFFICES ASSUME Init PROVE IInv
    OBVIOUS
<1> USE DaveAssumption DEF Init, Epoch, Version, Call
<1>1. TypeOK
    <2>1. DOMAIN decryptors = {}
        OBVIOUS
    <2>2. mls \in [epoch : Epoch, roster : SUBSET Users] /\ encryptor \in Epoch
        BY DEF Outside
    <2>3. exists \in BOOLEAN /\ ready \in BOOLEAN /\ enabled \in BOOLEAN /\ downgraded \in BOOLEAN
        OBVIOUS
    <2>4. key \in 0..MaxKeys /\ version \in Version /\ pendingVersion \in Version
        OBVIOUS
    <2>5. packet \in Packet /\ missed \subseteq Users
        BY DEF Packet
    <2> QED BY <2>1, <2>2, <2>3, <2>4, <2>5 DEF TypeOK
<1>2. inbox \in Seq(Message)
    <2>1. [kind |-> "Connect", users |-> members] \in Message
        BY DEF Message
    <2>2. [kind |-> "SessionDescription", version |-> group.version] \in Message
        BY DEF Message
    <2> QED BY <2>1, <2>2
<1>3. ServerTypeOK
    <2>1. outbox \in Seq(Reply) /\ announced \in Seq([version : Version, epoch : Epoch])
        OBVIOUS
    <2> QED BY <1>2, <2>1 DEF ServerTypeOK
<1> QED BY <1>1, <1>3 DEF IInv, ReadyHasEpoch, EnabledHasRatchet, KnowsConnected

----------------------------------------------------------------------------
(* The server's steps leave the session alone: only what it sends has to keep *)
(* its type.                                                                  *)

\* What no step of the server touches.
Apart == UNCHANGED <<session, connected, mapped, udp>>

LEMMA SessionApart == ASSUME IInv, Apart, ServerTypeOK' PROVE IInv'
BY DEF IInv, Apart, TypeOK, ReadyHasEpoch, EnabledHasRatchet, KnowsConnected,
       session, flags, keys, udp

\* An announcement keeps the types.
LEMMA AnnouncesTypes ==
    ASSUME ServerTypeOK, NEW change \in [version : Version, epoch : Epoch],
           NEW messages \in Seq(Message), Announces(change, messages)
    PROVE  /\ inbox' \in Seq(Message)
           /\ announced' \in Seq([version : Version, epoch : Epoch])
BY DEF ServerTypeOK, Announces

\* A new epoch of the group has a number of its own, within the bound.
LEMMA NextEpochCounts ==
    ASSUME epochs \in Epoch, epochs < MaxEpochs, epochs' = epochs + 1
    PROVE  epochs' \in 1..MaxEpochs /\ epochs' \in Epoch
BY DaveAssumption DEF Epoch

\* An epoch that is made keeps the types too.
LEMMA NextEpochTypes ==
    ASSUME ServerTypeOK, NEW told \in Seq(Message), NEW message \in Message,
           [message EXCEPT !.id = 0] \in Message, NextEpoch(told, message)
    PROVE  /\ epochs' \in 1..MaxEpochs /\ group' \in [version : Version, epoch : Epoch]
           /\ inbox' \in Seq(Message)
           /\ announced' \in Seq([version : Version, epoch : Epoch])
<1> USE DaveAssumption
<1>1. epochs' \in 1..MaxEpochs /\ epochs' \in Epoch
    BY NextEpochCounts DEF NextEpoch, ServerTypeOK
<1>2. /\ told \o <<message>> \in Seq(Message)
      /\ told \o <<[message EXCEPT !.id = 0]>> \in Seq(Message)
    OBVIOUS
<1>3. [version |-> 1, epoch |-> epochs'] \in [version : Version, epoch : Epoch]
    BY <1>1 DEF Version
<1>4. CASE Announces([version |-> 1, epoch |-> epochs'], told \o <<message>>) /\ UNCHANGED group
    BY <1>1, <1>2, <1>3, <1>4, AnnouncesTypes DEF ServerTypeOK
<1>5. CASE /\ UNCHANGED announced
           /\ inbox' = inbox \o told \o <<[message EXCEPT !.id = 0]>>
           /\ group' = [group EXCEPT !.epoch = epochs']
    <2>1. inbox' \in Seq(Message)
        BY <1>2, <1>5 DEF ServerTypeOK
    <2>2. group' \in [version : Version, epoch : Epoch]
        BY <1>1, <1>5 DEF ServerTypeOK
    <2> QED BY <1>1, <1>5, <2>1, <2>2 DEF ServerTypeOK
<1> QED BY <1>4, <1>5 DEF NextEpoch

\* A commit and a welcome are messages, with their transition or sent without one.
LEMMA CommitTypes ==
    ASSUME NEW e \in 1..MaxEpochs, e \in Epoch, NEW rest \in SUBSET Users,
           NEW commit, commit = [kind |-> "Commit", id |-> e, epoch |-> e, roster |-> rest]
    PROVE  commit \in Message /\ [commit EXCEPT !.id = 0] \in Message
<1>1. 0 \in Epoch
    BY DaveAssumption DEF Epoch
<1>2. [commit EXCEPT !.id = 0] = [kind |-> "Commit", id |-> 0, epoch |-> e, roster |-> rest]
    OBVIOUS
<1> QED BY <1>1, <1>2 DEF Message

LEMMA WelcomeTypes ==
    ASSUME NEW e \in 1..MaxEpochs, e \in Epoch, NEW rest \in SUBSET Users,
           NEW k \in 0..MaxKeys, NEW welcome,
           welcome = [kind |-> "Welcome", id |-> e, epoch |-> e, roster |-> rest, key |-> k]
    PROVE  welcome \in Message /\ [welcome EXCEPT !.id = 0] \in Message
<1>1. 0 \in Epoch
    BY DaveAssumption DEF Epoch
<1>2. [welcome EXCEPT !.id = 0]
          = [kind |-> "Welcome", id |-> 0, epoch |-> e, roster |-> rest, key |-> k]
    OBVIOUS
<1> QED BY <1>1, <1>2 DEF Message

\* A step of the server keeps the invariant.
LEMMA ServerStep == ASSUME IInv, Server PROVE IInv'
<1> USE DaveAssumption
<1> ServerTypeOK
    BY DEF IInv
<1>1. ASSUME NEW u \in Users, UserJoinsOrLeaves(u) PROVE IInv'
    <2> DEFINE told == [kind |-> IF u \in members THEN "Disconnect" ELSE "Connect", users |-> {u}]
               commit == [kind |-> "Commit", id |-> epochs', epoch |-> epochs', roster |-> members']
    <2>1. told \in Message
        BY DEF Message
    <2>2. members' \in SUBSET Users /\ Apart
        BY <1>1 DEF UserJoinsOrLeaves, ServerTypeOK, Apart
    <2>3. CASE ~inGroup
        <3>1. inbox' \in Seq(Message)
            <4>1. inbox' = Append(inbox, told)
                BY <1>1, <2>3 DEF UserJoinsOrLeaves
            <4> QED BY <2>1, <4>1 DEF ServerTypeOK
        <3>2. ServerTypeOK'
            BY <1>1, <2>2, <2>3, <3>1 DEF UserJoinsOrLeaves, ServerTypeOK
        <3> QED BY <2>2, <3>2, SessionApart
    <2>4. CASE inGroup
        <3>1. NextEpoch(<<told>>, commit)
            BY <1>1, <2>4 DEF UserJoinsOrLeaves
        <3>2. epochs' \in 1..MaxEpochs /\ epochs' \in Epoch
            <4>1. epochs < MaxEpochs /\ epochs' = epochs + 1
                BY <3>1 DEF NextEpoch
            <4>2. epochs \in Epoch
                BY DEF ServerTypeOK
            <4> QED BY <4>1, <4>2, NextEpochCounts
        <3>3. commit \in Message /\ [commit EXCEPT !.id = 0] \in Message
            BY <2>2, <3>2, CommitTypes
        <3>4. <<told>> \in Seq(Message)
            BY <2>1
        <3> HIDE DEF told, commit
        <3>5. /\ group' \in [version : Version, epoch : Epoch] /\ inbox' \in Seq(Message)
              /\ announced' \in Seq([version : Version, epoch : Epoch])
            BY <3>1, <3>3, <3>4, NextEpochTypes
        <3>6. ServerTypeOK'
            BY <1>1, <2>2, <3>2, <3>5 DEF UserJoinsOrLeaves, ServerTypeOK
        <3> QED BY <2>2, <3>6, SessionApart
    <2> QED BY <2>3, <2>4
<1>2. CASE ServerAddsUs
    <2> DEFINE welcome == [kind |-> "Welcome", id |-> epochs', epoch |-> epochs',
                           roster |-> members, key |-> keyPackage]
    <2>1. NextEpoch(<<>>, welcome)
        BY <1>2 DEF ServerAddsUs
    <2>2. epochs' \in 1..MaxEpochs /\ epochs' \in Epoch
        <3>1. epochs < MaxEpochs /\ epochs' = epochs + 1
            BY <2>1 DEF NextEpoch
        <3>2. epochs \in Epoch
            BY DEF ServerTypeOK
        <3> QED BY <3>1, <3>2, NextEpochCounts
    <2>3. welcome \in Message /\ [welcome EXCEPT !.id = 0] \in Message
        BY <2>2, WelcomeTypes DEF ServerTypeOK
    <2>4. <<>> \in Seq(Message)
        OBVIOUS
    <2> HIDE DEF welcome
    <2>5. /\ group' \in [version : Version, epoch : Epoch] /\ inbox' \in Seq(Message)
          /\ announced' \in Seq([version : Version, epoch : Epoch])
        BY <2>1, <2>3, <2>4, NextEpochTypes
    <2>6. ServerTypeOK' /\ Apart
        BY <1>2, <2>2, <2>5 DEF ServerAddsUs, ServerTypeOK, Apart
    <2> QED BY <2>6, SessionApart
<1>3. CASE ServerDowngrades
    <2>1. <<[kind |-> "PrepareTransition", version |-> 0]>> \in Seq(Message)
        <3>1. [kind |-> "PrepareTransition", version |-> 0] \in Message
            BY DEF Message, Version
        <3> QED BY <3>1
    <2>2. [version |-> 0, epoch |-> 0] \in [version : Version, epoch : Epoch]
        BY DEF Version, Epoch
    <2>3. inbox' \in Seq(Message) /\ announced' \in Seq([version : Version, epoch : Epoch])
        BY <1>3, <2>1, <2>2, AnnouncesTypes DEF ServerDowngrades
    <2>4. ServerTypeOK' /\ Apart
        BY <1>3, <2>3 DEF ServerDowngrades, ServerTypeOK, Apart
    <2> QED BY <2>4, SessionApart
<1>4. CASE ServerPreparesEpoch
    <2>1. [kind |-> "PrepareEpoch", version |-> 1, epoch |-> 1] \in Message
        BY DEF Message, Version
    <2>2. [version |-> 1, epoch |-> 0] \in [version : Version, epoch : Epoch]
        BY DEF Version, Epoch
    <2>3. inbox' \in Seq(Message)
        BY <1>4, <2>1 DEF ServerPreparesEpoch, ServerTypeOK
    <2>4. epochs' \in Epoch
        <3>1. epochs < MaxEpochs /\ epochs' = epochs + 1
            BY <1>4 DEF ServerPreparesEpoch
        <3>2. epochs \in Epoch
            BY DEF ServerTypeOK
        <3> QED BY <3>1, <3>2, NextEpochCounts
    <2>5. ServerTypeOK' /\ Apart
        BY <1>4, <2>2, <2>3, <2>4 DEF ServerPreparesEpoch, ServerTypeOK, Apart
    <2> QED BY <2>5, SessionApart
<1>5. CASE ServerExecutes
    <2>1. Head(announced) \in [version : Version, epoch : Epoch]
        <3>1. announced \in Seq([version : Version, epoch : Epoch]) /\ announced # <<>>
            BY <1>5 DEF ServerExecutes, ServerTypeOK
        <3> QED BY <3>1, HeadTailProperties
    <2>2. [kind |-> "Execute"] \in Message
        BY DEF Message
    <2>3. inbox' \in Seq(Message) /\ announced' \in Seq([version : Version, epoch : Epoch])
        <3>1. announced' = Tail(announced) /\ inbox' = Append(inbox, [kind |-> "Execute"])
            BY <1>5 DEF ServerExecutes
        <3>2. inbox' \in Seq(Message)
            BY <2>2, <3>1 DEF ServerTypeOK
        <3>3. announced' \in Seq([version : Version, epoch : Epoch])
            BY <1>5, <3>1 DEF ServerExecutes, ServerTypeOK
        <3> QED BY <3>2, <3>3
    <2>4. ServerTypeOK' /\ Apart
        BY <1>5, <2>1, <2>3 DEF ServerExecutes, ServerTypeOK, Apart, counts
    <2> QED BY <2>4, SessionApart
<1>6. CASE ServerTakes
    <2>1. Head(outbox) \in Reply /\ outbox' \in Seq(Reply)
        BY <1>6 DEF ServerTakes, ServerTypeOK
    <2>2. keyPackage' \in 0..MaxKeys
        BY <1>6, <2>1 DEF ServerTakes, ServerTypeOK, Reply
    <2>3. ServerTypeOK' /\ Apart
        BY <1>6, <2>1, <2>2 DEF ServerTakes, ServerTypeOK, Apart, counts
    <2> QED BY <2>3, SessionApart
<1> QED BY <1>1, <1>2, <1>3, <1>4, <1>5, <1>6 DEF Server

----------------------------------------------------------------------------
(* The client's steps *)

\* What the handlers leave to the server's side of the invariant.
ServerApart == UNCHANGED server /\ inbox' \in Seq(Message) /\ outbox' \in Seq(Reply)
               /\ UNCHANGED epochs

LEMMA ServerKept == ASSUME IInv, ServerApart PROVE ServerTypeOK'
BY DEF IInv, ServerApart, ServerTypeOK, server

\* What is taken from the inbox is a message of its kind.
LEMMA TakesMessage ==
    ASSUME IInv, NEW kind, Takes(kind)
    PROVE  inbox' \in Seq(Message) /\ Head(inbox) \in Message /\ Head(inbox).kind = kind
<1>1. inbox \in Seq(Message) /\ inbox # <<>> /\ inbox' = Tail(inbox)
    BY DEF IInv, ServerTypeOK, Takes
<1> QED BY <1>1, HeadTailProperties DEF Takes

\* The types of the flags and keys that the session's operations change, and what
\* the invariant says of them.
SessionOK ==
    /\ ready \in BOOLEAN /\ enabled \in BOOLEAN /\ downgraded \in BOOLEAN
    /\ mls \in [epoch : Epoch, roster : SUBSET Users]
    /\ key \in 0..MaxKeys /\ encryptor \in Epoch
    /\ DOMAIN decryptors \subseteq Users
    /\ \A u \in DOMAIN decryptors : decryptors[u] \in Epoch
    /\ ReadyHasEpoch /\ EnabledHasRatchet

LEMMA SessionHolds == IInv => SessionOK
BY DEF IInv, TypeOK, SessionOK

\* Reinit: nothing is in use and nothing is ready.
LEMMA ReinitKeeps == ASSUME IInv, Reinit PROVE SessionOK' /\ outbox' \in Seq(Reply)
<1> USE DaveAssumption DEF Epoch
<1>1. key' \in 0..MaxKeys
    BY DEF IInv, TypeOK, Reinit
<1>2. outbox' \in Seq(Reply)
    <2>1. [kind |-> "KeyPackage", key |-> key'] \in Reply
        BY <1>1 DEF Reply
    <2> QED BY <2>1 DEF IInv, ServerTypeOK, Reinit
<1>3. DOMAIN decryptors' = {}
    BY DEF Reinit
<1>4. mls' \in [epoch : Epoch, roster : SUBSET Users] /\ encryptor' \in Epoch
    BY DEF Reinit, Outside
<1>5. enabled' = FALSE /\ ready' = FALSE /\ downgraded' = FALSE
    BY DEF Reinit
<1> QED BY <1>1, <1>2, <1>3, <1>4, <1>5 DEF SessionOK, ReadyHasEpoch, EnabledHasRatchet

\* CompleteTransition: the ratchets taken into use are of an epoch of a group.
LEMMA CompleteKeeps ==
    ASSUME IInv, NEW m \in [epoch : Epoch, roster : SUBSET Users], m.epoch # 0,
           CompleteTransition(m), mls' = m, key' = key
    PROVE  SessionOK'
<1> USE DEF IInv, TypeOK
<1>1. DOMAIN decryptors' \subseteq Users
    BY DEF CompleteTransition, Refresh
<1>2. ASSUME NEW u \in DOMAIN decryptors' PROVE decryptors'[u] \in Epoch
    <2>1. u \in DOMAIN decryptors /\ decryptors[u] \in Epoch
        BY <1>2 DEF CompleteTransition, Refresh
    <2>2. Ratchet(m, u) \in Epoch
        BY DaveAssumption DEF Ratchet, Epoch
    <2> QED BY <2>1, <2>2 DEF CompleteTransition, Refresh
<1>3. encryptor' \in Epoch /\ encryptor' # 0
    BY DEF CompleteTransition
<1>4. ready' = FALSE /\ enabled' \in BOOLEAN /\ downgraded' \in BOOLEAN
    BY DEF CompleteTransition
<1> QED BY <1>1, <1>2, <1>3, <1>4 DEF SessionOK, ReadyHasEpoch, EnabledHasRatchet

\* A commit or a welcome that is accepted brings an epoch of a group.
LEMMA AcceptsKeeps ==
    ASSUME IInv, NEW m \in Message, m.kind \in {"Commit", "Welcome"}, Accepts(m), key' = key
    PROVE  SessionOK' /\ outbox' \in Seq(Reply)
<1>1. m.epoch \in 1..MaxEpochs /\ m.roster \in SUBSET Users
    BY DEF Message
<1>2. mls' \in [epoch : Epoch, roster : SUBSET Users] /\ mls'.epoch # 0
    BY <1>1, DaveAssumption DEF Accepts, Epoch
<1>3. outbox' \in Seq(Reply)
    BY DEF Accepts, IInv, ServerTypeOK
<1>4. CASE m.id = 0
    <2>1. CompleteTransition(mls')
        BY <1>4 DEF Accepts
    <2> QED BY <1>2, <1>3, <2>1, CompleteKeeps
<1>5. CASE m.id # 0
    BY <1>2, <1>3, <1>5, SessionHolds DEF Accepts, SessionOK, ReadyHasEpoch, EnabledHasRatchet
<1> QED BY <1>4, <1>5

\* One that is rejected leaves the session as it is.
LEMMA RejectsKeeps ==
    ASSUME IInv, Rejects, key' = key PROVE SessionOK' /\ outbox' \in Seq(Reply)
<1>1. [kind |-> "Invalid"] \in Reply
    BY DEF Reply
<1>2. outbox' \in Seq(Reply)
    BY <1>1 DEF Rejects, IInv, ServerTypeOK
<1> QED BY <1>2, SessionHolds DEF Rejects, SessionOK, ReadyHasEpoch, EnabledHasRatchet

\* Where the UDP thread is with a packet.
PacketOK == packet \in Packet /\ missed \subseteq Users

\* The rest of the types, and that client and session know the same users.
KnownOK ==
    /\ exists \in BOOLEAN /\ version \in Version /\ pendingVersion \in Version
    /\ recognized \subseteq Users /\ connected \subseteq Users /\ mapped \subseteq Users
    /\ KnowsConnected

LEMMA KnownHolds == IInv => KnownOK
BY DEF IInv, TypeOK, KnownOK

\* The parts make up the invariant.
LEMMA Parts == ASSUME IInv, SessionOK', KnownOK', PacketOK', ServerApart PROVE IInv'
<1>1. ServerTypeOK'
    BY ServerKept
<1> QED BY <1>1 DEF IInv, TypeOK, SessionOK, KnownOK, PacketOK

\* A step that leaves flags and keys alone keeps that part; so with the users.
LEMMA SameSession ==
    ASSUME IInv, UNCHANGED <<ready, enabled, downgraded, mls, key, encryptor, decryptors>>
    PROVE  SessionOK'
BY SessionHolds DEF SessionOK, ReadyHasEpoch, EnabledHasRatchet

LEMMA SameKnown ==
    ASSUME IInv, version' \in Version, UNCHANGED <<exists, pendingVersion, known>>
    PROVE  KnownOK'
BY KnownHolds DEF KnownOK, KnowsConnected, known

\* The messages of MLS keep the invariant.
LEMMA GroupStep ==
    ASSUME IInv, PacketOK', OnAnnounceCommitTransition \/ OnWelcome PROVE IInv'
<1> DEFINE m == Head(inbox)
<1>1. m \in Message /\ m.kind \in {"Commit", "Welcome"} /\ inbox' \in Seq(Message)
    BY TakesMessage DEF OnAnnounceCommitTransition, OnWelcome
<1>2. /\ UNCHANGED <<server, epochs, key, known, exists, version, pendingVersion>>
      /\ \/ Accepts(m)
         \/ Rejects
         \/ UNCHANGED <<ready, mls, encryptor, decryptors, missed, enabled, downgraded, outbox>>
    BY DEF OnAnnounceCommitTransition, OnWelcome
<1>3. KnownOK'
    BY <1>2, SameKnown, KnownHolds DEF KnownOK
<1> HIDE DEF m
<1>4. SessionOK' /\ outbox' \in Seq(Reply)
    <2>1. CASE Accepts(m)
        BY <1>1, <1>2, <2>1, AcceptsKeeps
    <2>2. CASE Rejects
        BY <1>2, <2>2, RejectsKeeps
    <2>3. CASE UNCHANGED <<ready, mls, encryptor, decryptors, missed, enabled, downgraded, outbox>>
        BY <1>2, <2>3, SameSession DEF IInv, ServerTypeOK
    <2> QED BY <1>2, <2>1, <2>2, <2>3
<1> QED BY <1>1, <1>2, <1>3, <1>4, Parts DEF ServerApart

\* What is prepared is only noted.
LEMMA PrepareStep == ASSUME IInv, PacketOK', OnPrepareTransition PROVE IInv'
<1>1. inbox' \in Seq(Message) /\ Head(inbox) \in Message /\ Head(inbox).kind = "PrepareTransition"
    BY TakesMessage DEF OnPrepareTransition
<1>2. Head(inbox).version \in Version
    BY <1>1 DEF Message
<1>3. SessionOK'
    BY SameSession DEF OnPrepareTransition, keys
<1>4. KnownOK'
    BY <1>2, KnownHolds DEF OnPrepareTransition, KnownOK, KnowsConnected, known
<1>5. ServerApart
    BY <1>1 DEF OnPrepareTransition, ServerApart, IInv, ServerTypeOK, counts
<1> QED BY <1>3, <1>4, <1>5, Parts

\* An execution disables encryption, takes what is ready into use or begins anew.
LEMMA ExecuteStep == ASSUME IInv, PacketOK', OnExecuteTransition PROVE IInv'
<1>1. inbox' \in Seq(Message)
    BY TakesMessage DEF OnExecuteTransition
<1>2. UNCHANGED <<server, exists, pendingVersion, known, epochs>>
    BY DEF OnExecuteTransition, counts
<1>3. CASE version' = 0 /\ enabled' = FALSE /\ downgraded' = TRUE /\ UNCHANGED <<ready, keys, missed, outbox>>
    <2>1. SessionOK'
        BY <1>3, SessionHolds DEF SessionOK, ReadyHasEpoch, EnabledHasRatchet, keys
    <2>2. KnownOK'
        BY <1>2, <1>3, SameKnown DEF Version
    <2> QED BY <1>1, <1>2, <1>3, <2>1, <2>2, Parts DEF ServerApart, IInv, ServerTypeOK
<1>4. CASE Executes(pendingVersion)
    <2>1. KnownOK'
        BY <1>2, <1>4, SameKnown, KnownHolds DEF Executes, KnownOK
    <2>2. CASE Reinit
        BY <1>1, <1>2, <2>1, <2>2, ReinitKeeps, Parts DEF ServerApart
    <2>3. CASE ready /\ CompleteTransition(mls) /\ UNCHANGED <<mls, key, outbox>>
        <3>1. mls \in [epoch : Epoch, roster : SUBSET Users] /\ mls.epoch # 0
            BY <2>3 DEF IInv, TypeOK, ReadyHasEpoch
        <3>2. SessionOK'
            BY <2>3, <3>1, CompleteKeeps
        <3> QED BY <1>1, <1>2, <2>1, <2>3, <3>2, Parts DEF ServerApart, IInv, ServerTypeOK
    <2> QED BY <1>4, <2>2, <2>3 DEF Executes
<1>5. CASE UNCHANGED <<version, ready, enabled, downgraded, keys, missed, outbox>>
    <2>1. SessionOK' /\ KnownOK'
        BY <1>2, <1>5, SameSession, SameKnown, KnownHolds DEF keys, KnownOK
    <2> QED BY <1>1, <1>2, <1>5, <2>1, Parts DEF ServerApart, IInv, ServerTypeOK
<1> QED BY <1>3, <1>4, <1>5 DEF OnExecuteTransition

\* A session is made with the users already connected, and outside any group.
LEMMA SessionStep ==
    ASSUME IInv, PacketOK',
           HandleGatewaySessionDescription \/ HandleGatewayDavePrepareEpoch \/ PrepareEpochCreates
    PROVE  IInv'
<1>1. inbox' \in Seq(Message) /\ Head(inbox) \in Message
      /\ Head(inbox).kind \in {"SessionDescription", "PrepareEpoch"}
    BY TakesMessage DEF HandleGatewaySessionDescription, HandleGatewayDavePrepareEpoch,
                        PrepareEpochCreates
<1>2. UNCHANGED <<server, connected, mapped, epochs>>
    BY DEF HandleGatewaySessionDescription, HandleGatewayDavePrepareEpoch,
           PrepareEpochCreates, counts, known
<1>3. Head(inbox).version \in Version
    BY <1>1 DEF Message, Version
<1>4. CASE EnsureDaveSession(Head(inbox).version)
    <2>1. SessionOK' /\ outbox' \in Seq(Reply)
        BY <1>4, ReinitKeeps DEF EnsureDaveSession
    <2>2. KnownOK'
        BY <1>2, <1>3, <1>4, KnownHolds DEF EnsureDaveSession, KnownOK, KnowsConnected
    <2> QED BY <1>1, <1>2, <2>1, <2>2, Parts DEF ServerApart
<1>5. CASE UNCHANGED <<session, missed, outbox>>
    <2>1. SessionOK' /\ KnownOK'
        BY <1>2, <1>5, SameSession, SameKnown, KnownHolds DEF session, flags, keys, known, KnownOK
    <2> QED BY <1>1, <1>2, <1>5, <2>1, Parts DEF ServerApart, IInv, ServerTypeOK
<1>6. CASE HandleGatewayDavePrepareEpoch
    <2>1. UNCHANGED <<exists, pendingVersion, known>> /\ version' \in Version
        BY <1>3, <1>6, KnownHolds DEF HandleGatewayDavePrepareEpoch, KnownOK
    <2>2. KnownOK'
        BY <2>1, SameKnown
    <2>3. CASE Reinit
        BY <1>1, <1>2, <2>2, <2>3, ReinitKeeps, Parts DEF ServerApart
    <2>4. CASE UNCHANGED <<version, ready, enabled, downgraded, keys, missed, outbox>>
        <3>1. SessionOK'
            BY <2>4, SameSession DEF keys
        <3> QED BY <1>1, <1>2, <2>2, <2>4, <3>1, Parts DEF ServerApart, IInv, ServerTypeOK
    <2> QED BY <1>6, <2>3, <2>4 DEF HandleGatewayDavePrepareEpoch
<1>7. CASE PrepareEpochCreates
    <2> USE DaveAssumption
    <2>1. key' \in 0..MaxKeys /\ key + 1 \in 0..MaxKeys /\ key + 2 \in 0..MaxKeys
        BY <1>7 DEF PrepareEpochCreates, IInv, TypeOK
    <2>2. outbox' \in Seq(Reply)
        <3>1. /\ [kind |-> "KeyPackage", key |-> key + 1] \in Reply
              /\ [kind |-> "KeyPackage", key |-> key + 2] \in Reply
            BY <2>1 DEF Reply
        <3>2. <<[kind |-> "KeyPackage", key |-> key + 1],
                [kind |-> "KeyPackage", key |-> key + 2]>> \in Seq(Reply)
            BY <3>1
        <3> QED BY <1>7, <3>2 DEF PrepareEpochCreates, IInv, ServerTypeOK
    <2>3. SessionOK'
        <3>1. DOMAIN decryptors' = {} /\ ready' = FALSE /\ enabled' = FALSE /\ downgraded' = FALSE
            BY <1>7 DEF PrepareEpochCreates
        <3>2. mls' \in [epoch : Epoch, roster : SUBSET Users] /\ encryptor' \in Epoch
            BY <1>7 DEF PrepareEpochCreates, Outside, Epoch
        <3> QED BY <2>1, <3>1, <3>2 DEF SessionOK, ReadyHasEpoch, EnabledHasRatchet
    <2>4. KnownOK'
        BY <1>2, <1>7, KnownHolds DEF PrepareEpochCreates, KnownOK, KnowsConnected, Version
    <2> QED BY <1>1, <1>2, <2>2, <2>3, <2>4, Parts DEF ServerApart
<1> QED BY <1>4, <1>5, <1>6, <1>7 DEF HandleGatewaySessionDescription

\* Users come and go; whoever the client learns of the session learns of.
LEMMA UsersStep ==
    ASSUME IInv, PacketOK', HandleGatewayClientConnect \/ HandleGatewayClientDisconnect PROVE IInv'
<1>1. inbox' \in Seq(Message) /\ Head(inbox) \in Message
      /\ Head(inbox).kind \in {"Connect", "Disconnect"}
    BY TakesMessage DEF HandleGatewayClientConnect, HandleGatewayClientDisconnect
<1>2. Head(inbox).users \in SUBSET Users
    BY <1>1 DEF Message
<1>3. ServerApart
    BY <1>1 DEF HandleGatewayClientConnect, HandleGatewayClientDisconnect, ServerApart,
                counts, IInv, ServerTypeOK
<1>4. CASE HandleGatewayClientConnect
    <2>1. SessionOK'
        BY <1>4, SameSession DEF HandleGatewayClientConnect, flags, keys
    <2>2. KnownOK'
        BY <1>2, <1>4, KnownHolds
        DEF HandleGatewayClientConnect, Adds, flags, KnownOK, KnowsConnected
    <2> QED BY <1>3, <2>1, <2>2, Parts
<1>5. CASE HandleGatewayClientDisconnect
    <2>1. DOMAIN decryptors' \subseteq DOMAIN decryptors
          /\ \A u \in DOMAIN decryptors' : decryptors'[u] = decryptors[u]
        BY <1>5 DEF HandleGatewayClientDisconnect
    <2>2. UNCHANGED <<ready, enabled, downgraded, mls, key, encryptor>>
        BY <1>5 DEF HandleGatewayClientDisconnect, flags
    <2>3. SessionOK'
        BY <2>1, <2>2, SessionHolds DEF SessionOK, ReadyHasEpoch, EnabledHasRatchet
    <2>4. KnownOK'
        BY <1>2, <1>5, KnownHolds
        DEF HandleGatewayClientDisconnect, flags, KnownOK, KnowsConnected
    <2> QED BY <1>3, <2>3, <2>4, Parts
<1> QED BY <1>4, <1>5

\* Telling an ssrc and receiving a packet change the decryptors only.
LEMMA MediaStep == ASSUME IInv, PacketOK', Media PROVE IInv'
<1>1. \A u \in Users : Ratchet(mls, u) \in Epoch
    BY DaveAssumption DEF IInv, TypeOK, Ratchet, Epoch
<1>2. UNCHANGED <<ready, enabled, downgraded, mls, key, encryptor>>
    BY DEF Media, HandleGatewaySpeaking, HandleGatewaySessionUpdate, OnUDPData,
           GetOrCreateDecryptor, DecryptorEntered, flags, keys
<1>3. ServerApart
    BY DEF Media, HandleGatewaySpeaking, HandleGatewaySessionUpdate, OnUDPData,
           GetOrCreateDecryptor, DecryptorEntered, ServerApart, counts, IInv, ServerTypeOK
<1>4. KnownOK'
    <2>1. ASSUME NEW u \in Users, Adds({u}), mapped' = mapped \cup {u}, UNCHANGED flags
          PROVE  KnownOK'
        BY <2>1, KnownHolds DEF Adds, flags, KnownOK, KnowsConnected
    <2>2. CASE UNCHANGED <<flags, known>>
        BY <2>2, KnownHolds DEF flags, known, KnownOK, KnowsConnected
    <2> QED BY <2>1, <2>2 DEF Media, HandleGatewaySpeaking, HandleGatewaySessionUpdate,
                OnUDPData, GetOrCreateDecryptor, DecryptorEntered
<1>5. /\ DOMAIN decryptors' \subseteq Users
      /\ \A w \in DOMAIN decryptors' : decryptors'[w] \in Epoch
    <2>0. /\ DOMAIN decryptors \subseteq Users
          /\ \A w \in DOMAIN decryptors : decryptors[w] \in Epoch
        BY DEF IInv, TypeOK
    <2>1. ASSUME NEW u \in Users, HandleGatewaySpeaking(u)
          PROVE  /\ DOMAIN decryptors' \subseteq Users
                 /\ \A w \in DOMAIN decryptors' : decryptors'[w] \in Epoch
        <3>1. CASE UNCHANGED decryptors
            BY <2>0, <3>1
        <3>2. CASE decryptors' = [decryptors EXCEPT ![u] = Ratchet(mls, u)]
            BY <1>1, <2>0, <3>2
        <3> QED BY <2>1, <3>1, <3>2 DEF HandleGatewaySpeaking
    <2>2. CASE DecryptorEntered
        <3>1. packet.user \in Users /\ packet.ratchet \in Epoch
            BY <2>2 DEF DecryptorEntered, IInv, TypeOK, Packet, NoPacket
        <3>2. /\ DOMAIN decryptors' = DOMAIN decryptors \cup {packet.user}
              /\ \A w \in DOMAIN decryptors' :
                    decryptors'[w] = IF w = packet.user THEN packet.ratchet ELSE decryptors[w]
            BY <2>2 DEF DecryptorEntered
        <3> QED BY <2>0, <3>1, <3>2
    <2>3. CASE UNCHANGED decryptors
        BY <2>0, <2>3
    <2> QED BY <2>1, <2>2, <2>3 DEF Media, HandleGatewaySessionUpdate, OnUDPData,
                GetOrCreateDecryptor, keys
<1>6. SessionOK'
    BY <1>2, <1>5, SessionHolds DEF SessionOK, ReadyHasEpoch, EnabledHasRatchet
<1> QED BY <1>3, <1>4, <1>6, Parts

\* The UDP thread's packet keeps its type, and messages only take users from those whose
\* decryptor they overtook.
LEMMA PacketStep == ASSUME IInv, [Next]_vars PROVE PacketOK'
<1>0. packet \in Packet /\ missed \subseteq Users
    BY DEF IInv, TypeOK
<1>1. ASSUME UNCHANGED packet, missed' \subseteq missed PROVE PacketOK'
    BY <1>0, <1>1 DEF PacketOK
<1>2. CASE Server
    BY <1>1, <1>2 DEF Server, UserJoinsOrLeaves, ServerAddsUs, ServerDowngrades,
                      ServerPreparesEpoch, ServerExecutes, ServerTakes, udp
<1>3. CASE Client
    <2>1. UNCHANGED packet
        BY <1>3 DEF Client, OnAnnounceCommitTransition, OnWelcome, OnPrepareTransition,
           OnExecuteTransition, HandleGatewaySessionDescription, HandleGatewayDavePrepareEpoch,
           PrepareEpochCreates, HandleGatewayClientConnect, HandleGatewayClientDisconnect, udp
    <2>2. missed' \subseteq missed
        <3>1. Reinit => missed' = {}
            BY DEF Reinit
        <3>2. ASSUME NEW m, CompleteTransition(m) PROVE missed' \subseteq missed
            BY <3>2 DEF CompleteTransition, Refresh
        <3>3. ASSUME NEW m, Accepts(m) PROVE missed' \subseteq missed
            BY <3>2, <3>3 DEF Accepts
        <3> QED BY <1>3, <3>1, <3>2, <3>3 DEF Client, OnAnnounceCommitTransition, OnWelcome,
               Rejects, OnPrepareTransition, OnExecuteTransition, Executes,
               HandleGatewaySessionDescription, EnsureDaveSession,
               HandleGatewayDavePrepareEpoch, PrepareEpochCreates,
               HandleGatewayClientConnect, HandleGatewayClientDisconnect, udp
    <2> QED BY <1>1, <2>1, <2>2
<1>4. CASE Media
    <2>1. ASSUME NEW u \in Users, HandleGatewaySpeaking(u) \/ HandleGatewaySessionUpdate(u)
          PROVE  PacketOK'
        BY <1>1, <2>1 DEF HandleGatewaySpeaking, HandleGatewaySessionUpdate, udp
    <2>2. ASSUME NEW u \in Users, OnUDPData(u) PROVE PacketOK'
        <3>1. (u \in mapped) \in BOOLEAN
            OBVIOUS
        <3>2. [at |-> "lookup", user |-> u, known |-> u \in mapped] \in Packet
            BY <3>1 DEF Packet
        <3> QED BY <1>0, <2>2, <3>2 DEF OnUDPData, PacketOK
    <2>3. CASE GetOrCreateDecryptor
        <3>1. packet.user \in Users
            BY <1>0, <2>3 DEF GetOrCreateDecryptor, Packet, NoPacket
        <3>2. Ratchet(mls, packet.user) \in Epoch /\ 0 \in Epoch
            BY DaveAssumption DEF IInv, TypeOK, Ratchet, Epoch
        <3>3. packet' \in Packet
            BY <2>3, <3>1, <3>2 DEF GetOrCreateDecryptor, Packet
        <3> QED BY <1>0, <2>3, <3>3 DEF GetOrCreateDecryptor, PacketOK
    <2>4. CASE DecryptorEntered
        <3>1. packet.user \in Users
            BY <1>0, <2>4 DEF DecryptorEntered, Packet, NoPacket
        <3> QED BY <1>0, <2>4, <3>1 DEF DecryptorEntered, PacketOK, Packet
    <2> QED BY <1>4, <2>1, <2>2, <2>3, <2>4 DEF Media
<1>5. CASE UNCHANGED vars
    BY <1>1, <1>5 DEF vars, udp
<1> QED BY <1>2, <1>3, <1>4, <1>5 DEF Next

\* Every step keeps the invariant.
LEMMA StepIInv == IInv /\ [Next]_vars => IInv'
<1> SUFFICES ASSUME IInv, [Next]_vars PROVE IInv'
    OBVIOUS
<1> PacketOK'
    BY PacketStep
<1>1. CASE Server
    BY <1>1, ServerStep
<1>2. CASE Client
    BY <1>2, GroupStep, PrepareStep, ExecuteStep, SessionStep, UsersStep DEF Client
<1>3. CASE Media
    BY <1>3, MediaStep
<1>4. CASE UNCHANGED vars
    <2>1. SessionOK' /\ KnownOK'
        BY <1>4, SameSession, SameKnown, KnownHolds DEF vars, flags, keys, KnownOK
    <2>2. ServerApart
        BY <1>4 DEF vars, counts, ServerApart, IInv, ServerTypeOK
    <2> QED BY <2>1, <2>2, Parts
<1> QED BY <1>1, <1>2, <1>3, <1>4 DEF Next

----------------------------------------------------------------------------
(* The theorems *)

\* The inductive invariant holds of every behaviour.
THEOREM Invariance == Spec => []IInv
<1> QED BY InitIInv, StepIInv, PTL DEF Spec

\* The variables of DaveSession and of its users keep their types.
THEOREM TypeCorrect == Spec => []TypeOK
<1>1. IInv => TypeOK
    BY DEF IInv
<1> QED BY <1>1, Invariance, PTL

\* Whatever is announced, in whatever order it is executed, and whatever of it the
\* session cannot process: while encryption is enabled the encryptor has a ratchet.
THEOREM NeverWithoutRatchet == Spec => []EnabledHasRatchet
<1>1. IInv => EnabledHasRatchet
    BY DEF IInv
<1> QED BY <1>1, Invariance, PTL

\* A session, whenever it was made, knows exactly the users the client knows.
THEOREM SessionKnowsUsers == Spec => []KnowsConnected
<1>1. IInv => KnowsConnected
    BY DEF IInv
<1> QED BY <1>1, Invariance, PTL

----------------------------------------------------------------------------
(* What is on its way.  The state in which a queue of messages leaves its *)
(* reader is foretold by a path: one state before and one after each of   *)
(* them, every two of them related by what the message between them does. *)

\* The elements of a sequence that grew at its end.
LEMMA AppendAt ==
    ASSUME NEW S, NEW q \in Seq(S), NEW e \in S
    PROVE  /\ Append(q, e) \in Seq(S) /\ Len(Append(q, e)) = Len(q) + 1 /\ Len(q) \in Nat
           /\ \A k \in 1..Len(q) : Append(q, e)[k] = q[k]
           /\ Append(q, e)[Len(q) + 1] = e
BY AppendProperties

\* ... and of what is left of one when its first is taken.
LEMMA TailAt ==
    ASSUME NEW S, NEW q \in Seq(S), q # <<>>
    PROVE  /\ Tail(q) \in Seq(S) /\ Len(Tail(q)) = Len(q) - 1 /\ Len(q) \in Nat /\ Len(q) > 0
           /\ \A k \in 1..(Len(q) - 1) : Tail(q)[k] = q[k + 1]
           /\ Head(q) = q[1] /\ q[1] \in S
<1>1. /\ Tail(q) \in Seq(S) /\ Len(Tail(q)) = Len(q) - 1 /\ Len(q) \in Nat
      /\ \A k \in 1..Len(Tail(q)) : Tail(q)[k] = q[k + 1]
    BY HeadTailProperties
<1>2. Len(q) # 0 /\ Head(q) = q[1]
    BY HeadTailProperties, EmptySeq
<1>3. q[1] \in S
    BY <1>1, <1>2, ElementOfSeq
<1> QED BY <1>1, <1>2, <1>3

\* The messages of q may take s to t, each by a triple of R.
Path(q, R, s, t) ==
    \E st : /\ st[0] = s /\ st[Len(q)] = t
            /\ \A k \in 1..Len(q) : <<st[k - 1], q[k], st[k]>> \in R

\* No message, no change.
LEMMA PathEmpty == ASSUME NEW R, NEW s, NEW t, Path(<<>>, R, s, t) PROVE s = t
BY DEF Path

\* A message that is sent extends the path.
LEMMA PathAppend ==
    ASSUME NEW M, NEW q \in Seq(M), NEW m \in M, NEW R, NEW s, NEW t, NEW u,
           Path(q, R, s, t), <<t, m, u>> \in R
    PROVE  Path(Append(q, m), R, s, u)
<1> PICK st : /\ st[0] = s /\ st[Len(q)] = t
              /\ \A k \in 1..Len(q) : <<st[k - 1], q[k], st[k]>> \in R
    BY DEF Path
<1> DEFINE n == Len(q)
           p == Append(q, m)
           on == [k \in 0..(n + 1) |-> IF k <= n THEN st[k] ELSE u]
<1>1. n \in Nat /\ Len(p) = n + 1 /\ p[n + 1] = m /\ \A k \in 1..n : p[k] = q[k]
    BY AppendAt
<1> HIDE DEF n, p
<1>2. on[0] = s /\ on[n + 1] = u
    BY <1>1 DEF n
<1>3. ASSUME NEW k \in 1..(n + 1) PROVE <<on[k - 1], p[k], on[k]>> \in R
    <2>1. CASE k = n + 1
        <3>1. on[k - 1] = t
            BY <1>1, <2>1 DEF n
        <3> QED BY <1>1, <1>2, <2>1, <3>1
    <2>2. CASE k # n + 1
        <3>1. k \in 1..n /\ on[k - 1] = st[k - 1] /\ on[k] = st[k]
            BY <1>1, <2>2
        <3>2. p[k] = q[k] /\ <<st[k - 1], q[k], st[k]>> \in R
            BY <1>1, <3>1 DEF n
        <3> QED BY <3>1, <3>2
    <2> QED BY <2>1, <2>2
<1> HIDE DEF on
<1>4. on[Len(p)] = u /\ \A k \in 1..Len(p) : <<on[k - 1], p[k], on[k]>> \in R
    BY <1>1, <1>2, <1>3
<1>5. Path(p, R, s, u)
    BY <1>2, <1>4 DEF Path
<1> QED BY <1>5 DEF p

\* A message that is taken is the first of the path.
LEMMA PathTail ==
    ASSUME NEW M, NEW q \in Seq(M), q # <<>>, NEW R, NEW s, NEW t, Path(q, R, s, t)
    PROVE  \E u : <<s, Head(q), u>> \in R /\ Path(Tail(q), R, u, t)
<1> PICK st : /\ st[0] = s /\ st[Len(q)] = t
              /\ \A k \in 1..Len(q) : <<st[k - 1], q[k], st[k]>> \in R
    BY DEF Path
<1> DEFINE n == Len(q)
           p == Tail(q)
           on == [k \in 0..(n - 1) |-> st[k + 1]]
<1>1. /\ n \in Nat /\ n > 0 /\ Len(p) = n - 1 /\ Head(q) = q[1]
      /\ \A k \in 1..(n - 1) : p[k] = q[k + 1]
    BY TailAt
<1>2. <<st[0], q[1], st[1]>> \in R
    BY <1>1
<1> HIDE DEF n, p
<1>3. on[0] = st[1] /\ on[n - 1] = t
    BY <1>1 DEF n
<1>4. ASSUME NEW k \in 1..(n - 1) PROVE <<on[k - 1], p[k], on[k]>> \in R
    <2>1. k + 1 \in 1..n /\ on[k - 1] = st[k] /\ on[k] = st[k + 1] /\ k = (k + 1) - 1
        BY <1>1
    <2>2. <<st[k], q[k + 1], st[k + 1]>> \in R
        BY <2>1 DEF n
    <2> QED BY <1>1, <2>1, <2>2
<1> HIDE DEF on
<1>5. on[Len(p)] = t /\ \A k \in 1..Len(p) : <<on[k - 1], p[k], on[k]>> \in R
    BY <1>1, <1>3, <1>4
<1>6. Path(p, R, st[1], t)
    BY <1>3, <1>5 DEF Path
<1> QED BY <1>1, <1>2, <1>6 DEF p

\* Where no message changes anything the path stays.
LEMMA PathStays ==
    ASSUME NEW M, NEW q \in Seq(M), NEW R, NEW s, \A m \in M : <<s, m, s>> \in R
    PROVE  Path(q, R, s, s)
<1> DEFINE st == [k \in 0..Len(q) |-> s]
<1>1. Len(q) \in Nat
    OBVIOUS
<1>2. st[0] = s /\ st[Len(q)] = s
    BY <1>1
<1>3. ASSUME NEW k \in 1..Len(q) PROVE <<st[k - 1], q[k], st[k]>> \in R
    <2>1. q[k] \in M
        BY <1>3, ElementOfSeq
    <2>2. st[k - 1] = s /\ st[k] = s
        BY <1>1
    <2> QED BY <2>1, <2>2
<1> HIDE DEF st
<1> QED BY <1>2, <1>3 DEF Path

\* Two messages are sent one after the other.
LEMMA AppendBoth ==
    ASSUME NEW M, NEW q \in Seq(M), NEW a \in M, NEW b \in M
    PROVE  /\ q \o <<a>> \o <<b>> = Append(Append(q, a), b)
           /\ q \o (<<a>> \o <<b>>) = Append(Append(q, a), b)
           /\ q \o <<a>> = Append(q, a)
           /\ q \o (<<>> \o <<a>>) = Append(q, a)
           /\ q \o <<>> \o <<a>> = Append(q, a)
<1>1. q \o <<a>> = Append(q, a)
    OBVIOUS
<1>2. Append(q, a) \o <<b>> = Append(Append(q, a), b)
    OBVIOUS
<1>3. q \o (<<a>> \o <<b>>) = (q \o <<a>>) \o <<b>>
    BY ConcatAssociative
<1>4. <<>> \o <<a>> = <<a>> /\ q \o <<>> = q
    BY ConcatEmptySeq
<1> QED BY <1>1, <1>2, <1>3, <1>4

----------------------------------------------------------------------------
(* How client and group keep step, as long as announcements do not overlap *)
(* and encryption that was turned off stays off.                           *)

Steady == ~call.overlap /\ ~call.reupgrade

\* Nothing is on its way that tells the server of a change we could not process.
Quiet == \A k \in 1..Len(outbox) : outbox[k].kind # "Invalid"

\* Before there is a session nothing was sent, and the server cannot have added us.
Sessionless ==
    ~exists => /\ mls = Outside /\ ~enabled /\ outbox = <<>>
               /\ keyPackage = 0 /\ ~inGroup

\* What the server announced and did not execute: the newest epoch, or the downgrade.
Agreed ==
    /\ downgrades \in Nat
    /\ Steady
           => /\ downgrades = 0 => announced \in {<<>>, <<[version |-> 1, epoch |-> epochs]>>}
              /\ downgrades > 0 => /\ ~inGroup
                                   /\ \/ announced = <<>> /\ group.version = 0
                                      \/ announced = <<[version |-> 0, epoch |-> 0]>>
              /\ inGroup => epochs # 0 /\ (announced = <<>> => group.epoch = epochs)

\* Before the downgrade no other version is prepared.
OnTrack ==
    Steady /\ downgrades = 0
        => /\ exists => version = 1 /\ pendingVersion = 1
           /\ inbox \in Seq({m \in Message : m.kind # "PrepareTransition"})

\* Where there never was encryption nothing of it is on its way.
NeverOn ==
    Steady /\ downgrades = 0 /\ group.version = 0
        => /\ ~exists /\ ~inGroup /\ announced = <<>>
           /\ inbox \in Seq({m \in Message : \/ m.kind \in {"Connect", "Disconnect"}
                                             \/ m.kind = "SessionDescription" /\ m.version = 0})

\* An epoch of the group that is not ready is in use.
InUse ==
    Steady /\ downgrades = 0 /\ mls.epoch # 0 /\ ~ready => enabled /\ encryptor = mls.epoch

\* ... and so it is for everyone of it whose ssrc and decryptor we have, but for a
\* decryptor that a message overtook.
Hearing ==
    /\ mls.epoch = 0 => mls.roster = {}
    /\ ~call.sessionUpdates
           => \A u \in (mapped \cap DOMAIN decryptors \cap mls.roster) \ missed :
                  ready \/ decryptors[u] = mls.epoch

\* Where the session stands in the group, and where the server thinks it does.
Standing == [epoch : Epoch, ready : BOOLEAN, roster : SUBSET Users]
Unknown  == [epoch |-> 0, ready |-> FALSE, roster |-> {}]
Here     == [epoch |-> mls.epoch, ready |-> ready, roster |-> mls.roster]
Told     == [epoch |-> epochs, ready |-> announced # <<>>, roster |-> members]

\* What a message makes of it: a welcome counts whatever came before, a commit
\* only in the epoch before its own.
Brings(m) == [epoch |-> m.epoch, ready |-> m.id # 0, roster |-> m.roster]
Done(s)   == [epoch |-> s.epoch, ready |-> FALSE, roster |-> s.roster]
After(s, m, t) ==
    \/ s = Unknown /\ t = Unknown
    \/ m.kind \in {"Connect", "Disconnect", "SessionDescription"} /\ t = s
    \/ m.kind = "Welcome" /\ t = Brings(m)
    \/ m.kind = "Commit" /\ s.epoch # 0 /\ s.epoch + 1 = m.epoch /\ t = Brings(m)
    \/ m.kind = "Execute" /\ s.ready /\ t = Done(s)
Changes == {x \in Standing \X Message \X Standing : After(x[1], x[2], x[3])}

\* The messages on their way take the session from where it stands, or from wherever
\* the welcome among them finds it, to where the server thinks it is.
Foreseen ==
    Steady /\ inGroup /\ Quiet => \E s \in {Unknown, Here} : Path(inbox, Changes, s, Told)

\* The way out of encryption: the downgrade is prepared, then executed.
Stage == {"on", "leaving", "off"}
At(s) == \/ s = "on" /\ (exists => version = 1 /\ pendingVersion = 1)
         \/ s = "leaving" /\ (exists => version = 1 /\ pendingVersion = 0)
         \/ s = "off" /\ ~enabled
Turn(s, m, t) ==
    \/ s = "on" /\ t = "on" /\ m.kind # "PrepareTransition"
    \/ s = "on" /\ t = "leaving" /\ m.kind = "PrepareTransition" /\ m.version = 0
    \/ s = "leaving" /\ t = "off" /\ m.kind = "Execute"
    \/ m.kind \in {"Connect", "Disconnect"} /\ t = s
Turns == {x \in Stage \X Message \X Stage : Turn(x[1], x[2], x[3])}
Due   == IF announced = <<>> THEN "off" ELSE "leaving"

\* Once it is announced, what is on its way takes the session out of encryption.
Leaves ==
    Steady /\ downgrades > 0 => \E s \in Stage : At(s) /\ Path(inbox, Turns, s, Due)

InStep == /\ Sessionless /\ Agreed /\ OnTrack /\ NeverOn
          /\ InUse /\ Hearing /\ Foreseen /\ Leaves

\* A call begins in step: nothing was announced, and nobody is in the group.
LEMMA InitInStep == Init => InStep
<1> SUFFICES ASSUME Init PROVE InStep
    OBVIOUS
<1> USE DEF Init
<1>1. IInv
    BY InitIInv
<1> DEFINE M == {m \in Message : m.kind # "PrepareTransition"}
           E == {m \in Message : \/ m.kind \in {"Connect", "Disconnect"}
                                 \/ m.kind = "SessionDescription" /\ m.version = 0}
           a == [kind |-> "Connect", users |-> members]
           b == [kind |-> "SessionDescription", version |-> group.version]
<1>2. a \in Message /\ b \in Message /\ a.kind = "Connect" /\ b.kind = "SessionDescription"
      /\ b.version = group.version
    <2>1. members \in SUBSET Users /\ group.version \in Version
        BY <1>1 DEF IInv, ServerTypeOK
    <2> QED BY <2>1 DEF Message
<1>3. a \in M /\ b \in M /\ (group.version = 0 => a \in E /\ b \in E)
    BY <1>2
<1>4. inbox = <<a, b>>
    OBVIOUS
<1> HIDE DEF M, E, a, b
<1>5. inbox \in Seq(M) /\ (group.version = 0 => inbox \in Seq(E))
    BY <1>3, <1>4
<1> QED BY <1>5, DaveAssumption
        DEF M, E, InStep, Sessionless, Agreed, OnTrack, NeverOn, InUse, Hearing, Foreseen,
            Leaves, Outside

\* Which call this is does not change.
LEMMA CallStays == ASSUME [Next]_vars PROVE call' = call
<1>1. CASE Server
    BY <1>1 DEF Server, UserJoinsOrLeaves, ServerAddsUs, ServerDowngrades, ServerPreparesEpoch,
                ServerExecutes, ServerTakes
<1>2. CASE Client
    BY <1>2 DEF Client, OnAnnounceCommitTransition, OnWelcome, OnPrepareTransition,
                OnExecuteTransition, HandleGatewaySessionDescription,
                HandleGatewayDavePrepareEpoch, PrepareEpochCreates, HandleGatewayClientConnect,
                HandleGatewayClientDisconnect, server
<1>3. CASE Media
    BY <1>3 DEF Media, HandleGatewaySpeaking, HandleGatewaySessionUpdate, OnUDPData,
                GetOrCreateDecryptor, DecryptorEntered, server
<1> QED BY <1>1, <1>2, <1>3 DEF Next, vars, server

----------------------------------------------------------------------------
(* The server's steps *)

\* A new epoch is announced when nothing else is, or in force at once.
LEMMA NextEpochOutcome ==
    ASSUME IInv, Steady, NEW told, NEW message, NextEpoch(told, message)
    PROVE  /\ announced = <<>> /\ epochs' = epochs + 1
           /\ \/ /\ announced' = <<>> /\ group' = [group EXCEPT !.epoch = epochs']
                 /\ inbox' = inbox \o told \o <<[message EXCEPT !.id = 0]>>
              \/ /\ announced' = <<[version |-> 1, epoch |-> epochs']>> /\ group' = group
                 /\ inbox' = inbox \o (told \o <<message>>)
<1>1. epochs' = epochs + 1
    BY DEF NextEpoch
<1>2. CASE /\ announced = <<>> /\ UNCHANGED announced
           /\ inbox' = inbox \o told \o <<[message EXCEPT !.id = 0]>>
           /\ group' = [group EXCEPT !.epoch = epochs']
    BY <1>1, <1>2
<1>3. CASE Announces([version |-> 1, epoch |-> epochs'], told \o <<message>>) /\ UNCHANGED group
    <2> DEFINE c == [version |-> 1, epoch |-> epochs']
    <2>1. announced = <<>> /\ announced' = Append(announced, c)
        BY <1>3 DEF Announces, Steady
    <2> HIDE DEF c
    <2>2. announced' = <<c>>
        BY <2>1
    <2> QED BY <1>1, <1>3, <2>1, <2>2 DEF c, Announces
<1> QED BY <1>1, <1>2, <1>3 DEF NextEpoch

\* What a user who joins or leaves, or we ourselves, make of the group.
LEMMA SessionlessServer == ASSUME IInv, InStep, Server PROVE Sessionless'
<1> USE DEF InStep, Sessionless, session, flags, keys
<1>1. ASSUME NEW u \in Users, UserJoinsOrLeaves(u) PROVE Sessionless'
    BY <1>1 DEF UserJoinsOrLeaves
<1>2. CASE ServerAddsUs
    BY <1>2 DEF ServerAddsUs
<1>3. CASE ServerDowngrades
    BY <1>3 DEF ServerDowngrades
<1>4. CASE ServerPreparesEpoch
    BY <1>4 DEF ServerPreparesEpoch
<1>5. CASE ServerExecutes
    BY <1>5 DEF ServerExecutes
<1>6. CASE ServerTakes
    BY <1>6 DEF ServerTakes
<1> QED BY <1>1, <1>2, <1>3, <1>4, <1>5, <1>6 DEF Server

\* A new epoch keeps the agreement.
LEMMA NextEpochAgrees ==
    ASSUME IInv, InStep, Steady, NEW told, NEW message, NextEpoch(told, message),
           downgrades = 0, UNCHANGED downgrades
    PROVE  Agreed'
<1> DEFINE c == <<[version |-> 1, epoch |-> epochs']>>
<1>1. epochs \in Nat /\ group \in [version : Version, epoch : Epoch]
    BY DaveAssumption DEF IInv, ServerTypeOK, Epoch
<1>2. epochs' = epochs + 1 /\ epochs' # 0
    <2>1. epochs' = epochs + 1
        BY NextEpochOutcome
    <2> QED BY <1>1, <2>1
<1>3. \/ announced' = <<>> /\ group'.epoch = epochs'
      \/ announced' = c
    <2>1. \/ announced' = <<>> /\ group' = [group EXCEPT !.epoch = epochs']
          \/ announced' = c
        BY NextEpochOutcome
    <2> HIDE DEF c
    <2> QED BY <1>1, <2>1
<1>4. c # <<>>
    OBVIOUS
<1> HIDE DEF c
<1>5. /\ announced' \in {<<>>, c}
      /\ announced' = <<>> => group'.epoch = epochs'
    BY <1>3, <1>4
<1> QED BY <1>2, <1>5 DEF Agreed, c

\* Announcements are made one at a time, and the downgrade is the last.
LEMMA AgreedServer == ASSUME IInv, InStep, Server PROVE Agreed'
<1>0. Steady' = Steady
    BY CallStays DEF Next, Steady
<1>1. /\ epochs \in Nat /\ downgrades \in Nat /\ group \in [version : Version, epoch : Epoch]
      /\ Agreed
    BY DaveAssumption DEF IInv, ServerTypeOK, Epoch, InStep, Agreed
<1>2. ASSUME NEW u \in Users, UserJoinsOrLeaves(u) PROVE Agreed'
    <2>1. CASE ~inGroup
        BY <1>0, <1>1, <1>2, <2>1 DEF UserJoinsOrLeaves, Agreed
    <2>2. CASE inGroup /\ Steady
        <3>1. PICK told, message : NextEpoch(told, message)
            BY <1>2, <2>2 DEF UserJoinsOrLeaves
        <3>2. downgrades = 0 /\ inGroup' = inGroup /\ downgrades' = downgrades
            BY <1>1, <1>2, <2>2 DEF UserJoinsOrLeaves, Agreed
        <3> QED BY <2>2, <3>1, <3>2, NextEpochAgrees
    <2>3. CASE ~Steady
        BY <1>0, <1>1, <1>2, <2>3 DEF UserJoinsOrLeaves, Agreed
    <2> QED BY <2>1, <2>2, <2>3
<1>3. CASE ServerAddsUs
    <2>1. CASE Steady
        <3>1. PICK told, message : NextEpoch(told, message)
            BY <1>3 DEF ServerAddsUs
        <3>a. announced = <<>>
            BY <2>1, <3>1, NextEpochOutcome
        <3>b. group.version = 1
            BY <1>3 DEF ServerAddsUs
        <3>2. announced = <<>> /\ group.version # 0
            BY <3>a, <3>b
        <3>3. downgrades = 0 /\ downgrades' = downgrades
            BY <1>1, <1>3, <2>1, <3>2 DEF ServerAddsUs, Agreed
        <3> QED BY <2>1, <3>1, <3>3, NextEpochAgrees
    <2> QED BY <1>0, <1>1, <1>3, <2>1 DEF ServerAddsUs, Agreed
<1>4. CASE ServerDowngrades
    <2> DEFINE c == [version |-> 0, epoch |-> 0]
    <2>1. downgrades' = downgrades + 1 /\ ~inGroup' /\ announced' = Append(announced, c)
        BY <1>4 DEF ServerDowngrades, Announces
    <2>2. Steady => announced = <<>>
        BY <1>4 DEF ServerDowngrades, Announces, Steady
    <2> HIDE DEF c
    <2>3. Steady => announced' = <<c>>
        BY <2>1, <2>2
    <2> QED BY <1>0, <1>1, <2>1, <2>3 DEF Agreed, c
<1>5. CASE ServerPreparesEpoch
    BY <1>0, <1>1, <1>5 DEF ServerPreparesEpoch, Agreed, Steady
<1>6. CASE ServerExecutes
    <2>1. UNCHANGED <<inGroup, downgrades, epochs>>
        BY <1>6 DEF ServerExecutes, counts
    <2>2. CASE Steady
        <3>1. PICK c : announced = <<c>> /\ (downgrades = 0 => c.epoch = epochs)
                       /\ (downgrades > 0 => c.version = 0)
            BY <1>1, <1>6, <2>2 DEF ServerExecutes, Agreed
        <3>2. announced' = <<>> /\ group' = [version |-> c.version, epoch |-> c.epoch]
            BY <1>6, <3>1 DEF ServerExecutes
        <3> QED BY <1>1, <2>1, <2>2, <3>1, <3>2 DEF Agreed
    <2> QED BY <1>0, <1>1, <2>1, <2>2 DEF Agreed
<1>7. CASE ServerTakes
    BY <1>0, <1>1, <1>7 DEF ServerTakes, Agreed, counts
<1> QED BY <1>2, <1>3, <1>4, <1>5, <1>6, <1>7 DEF Server

\* What the server may send.
LEMMA SentTypes ==
    ASSUME IInv
    PROVE  /\ \A us \in SUBSET Users : /\ [kind |-> "Connect", users |-> us] \in Message
                                       /\ [kind |-> "Disconnect", users |-> us] \in Message
           /\ [kind |-> "PrepareTransition", version |-> 0] \in Message
           /\ [kind |-> "PrepareEpoch", version |-> 1, epoch |-> 1] \in Message
           /\ [kind |-> "Execute"] \in Message
BY DEF Message, Version

\* What a user who joins or leaves has sent: word of it and, to a member of the
\* group, the commit.
LEMMA JoinsOrLeavesOutcome ==
    ASSUME IInv, InStep, Steady, NEW u \in Users, UserJoinsOrLeaves(u)
    PROVE  /\ UNCHANGED <<call, inGroup, keyPackage, outbox, session, connected, mapped, downgrades>>
           /\ \E told \in Message :
                /\ told.kind \in {"Connect", "Disconnect"}
                /\ \/ /\ ~inGroup /\ inbox' = Append(inbox, told)
                      /\ UNCHANGED <<group, announced, epochs>>
                   \/ /\ inGroup /\ announced = <<>> /\ epochs' = epochs + 1
                      /\ group'.version = group.version
                      /\ \E m \in Message :
                           /\ m.kind = "Commit" /\ m.epoch = epochs' /\ m.roster = members'
                           /\ inbox' = Append(Append(inbox, told), m)
                           /\ m.id # 0 <=> announced' # <<>>
<1> DEFINE told == [kind |-> IF u \in members THEN "Disconnect" ELSE "Connect", users |-> {u}]
           commit == [kind |-> "Commit", id |-> epochs', epoch |-> epochs', roster |-> members']
           c == <<[version |-> 1, epoch |-> epochs']>>
<1>1. UNCHANGED <<call, inGroup, keyPackage, outbox, session, connected, mapped, downgrades>>
    BY DEF UserJoinsOrLeaves
<1>2. told \in Message /\ told.kind \in {"Connect", "Disconnect"}
    BY DEF Message
<1>3. /\ members' \in SUBSET Users /\ inbox \in Seq(Message) /\ epochs \in Nat /\ epochs \in Epoch
      /\ group \in [version : Version, epoch : Epoch]
    BY DaveAssumption DEF UserJoinsOrLeaves, IInv, ServerTypeOK, Epoch
<1>4. CASE ~inGroup
    <2>1. inbox' = Append(inbox, told) /\ UNCHANGED <<group, announced, epochs>>
        BY <1>4 DEF UserJoinsOrLeaves
    <2> HIDE DEF told
    <2> QED BY <1>1, <1>2, <1>4, <2>1
<1>5. CASE inGroup
    <2>1. NextEpoch(<<told>>, commit)
        BY <1>5 DEF UserJoinsOrLeaves
    <2>2. epochs < MaxEpochs /\ epochs' = epochs + 1
        BY <2>1 DEF NextEpoch
    <2>3. epochs' \in 1..MaxEpochs /\ epochs' \in Epoch
        BY <1>3, <2>2, NextEpochCounts
    <2>4. commit \in Message /\ [commit EXCEPT !.id = 0] \in Message
        BY <1>3, <2>3, CommitTypes
    <2>5. /\ commit.kind = "Commit" /\ commit.epoch = epochs' /\ commit.roster = members'
          /\ commit.id # 0
        BY <2>3
    <2> DEFINE atOnce == [commit EXCEPT !.id = 0]
    <2>6. /\ atOnce.kind = "Commit" /\ atOnce.epoch = epochs' /\ atOnce.roster = members'
          /\ atOnce.id = 0
        OBVIOUS
    <2> HIDE DEF told, commit
    <2>7. /\ announced = <<>>
          /\ \/ /\ announced' = <<>> /\ group' = [group EXCEPT !.epoch = epochs']
                /\ inbox' = inbox \o <<told>> \o <<atOnce>>
             \/ /\ announced' = c /\ group' = group
                /\ inbox' = inbox \o (<<told>> \o <<commit>>)
        BY <2>1, NextEpochOutcome
    <2>8. c # <<>>
        OBVIOUS
    <2> HIDE DEF atOnce, c
    <2>9. CASE announced' = <<>> /\ group' = [group EXCEPT !.epoch = epochs']
               /\ inbox' = inbox \o <<told>> \o <<atOnce>>
        <3>0. atOnce \in Message
            BY <2>4 DEF atOnce
        <3>1. inbox' = Append(Append(inbox, told), atOnce)
            BY <1>2, <1>3, <2>9, <3>0, AppendBoth
        <3>2. group'.version = group.version
            BY <1>3, <2>9
        <3>4. \E m \in Message :
                  /\ m.kind = "Commit" /\ m.epoch = epochs' /\ m.roster = members'
                  /\ inbox' = Append(Append(inbox, told), m)
                  /\ m.id # 0 <=> announced' # <<>>
            BY <2>6, <2>9, <3>0, <3>1
        <3> QED BY <1>1, <1>2, <1>5, <2>2, <2>7, <3>2, <3>4
    <2>10. CASE announced' = c /\ group' = group /\ inbox' = inbox \o (<<told>> \o <<commit>>)
        <3>1. inbox' = Append(Append(inbox, told), commit)
            BY <1>2, <1>3, <2>4, <2>10, AppendBoth
        <3> QED BY <1>1, <1>2, <1>5, <2>2, <2>4, <2>5, <2>7, <2>8, <2>10, <3>1
    <2> QED BY <2>7, <2>9, <2>10
<1> QED BY <1>4, <1>5

\* When we are added to the group a welcome is sent.
LEMMA AddsUsOutcome ==
    ASSUME IInv, InStep, Steady, ServerAddsUs
    PROVE  /\ UNCHANGED <<call, members, outbox, session, connected, mapped, downgrades>>
           /\ announced = <<>> /\ epochs' = epochs + 1 /\ group.version = 1 /\ group'.version = 1
           /\ \E m \in Message :
                /\ m.kind = "Welcome" /\ m.epoch = epochs' /\ m.roster = members'
                /\ inbox' = Append(inbox, m)
                /\ m.id # 0 <=> announced' # <<>>
<1> DEFINE welcome == [kind |-> "Welcome", id |-> epochs', epoch |-> epochs',
                       roster |-> members, key |-> keyPackage]
           c == <<[version |-> 1, epoch |-> epochs']>>
<1>1. /\ UNCHANGED <<call, members, outbox, session, connected, mapped, downgrades>>
      /\ group.version = 1
    BY DEF ServerAddsUs
<1>2. /\ members \in SUBSET Users /\ inbox \in Seq(Message) /\ epochs \in Nat /\ epochs \in Epoch
      /\ group \in [version : Version, epoch : Epoch] /\ keyPackage \in 0..MaxKeys
    BY DaveAssumption DEF IInv, ServerTypeOK, Epoch
<1>3. NextEpoch(<<>>, welcome)
    BY DEF ServerAddsUs
<1>4. epochs < MaxEpochs /\ epochs' = epochs + 1
    BY <1>3 DEF NextEpoch
<1>5. epochs' \in 1..MaxEpochs /\ epochs' \in Epoch
    BY <1>2, <1>4, NextEpochCounts
<1>6. welcome \in Message /\ [welcome EXCEPT !.id = 0] \in Message
    BY <1>2, <1>5, WelcomeTypes
<1>7. /\ welcome.kind = "Welcome" /\ welcome.epoch = epochs' /\ welcome.roster = members'
      /\ welcome.id # 0
    BY <1>1, <1>5
<1> DEFINE atOnce == [welcome EXCEPT !.id = 0]
<1>8. /\ atOnce.kind = "Welcome" /\ atOnce.epoch = epochs' /\ atOnce.roster = members'
      /\ atOnce.id = 0
    BY <1>1
<1> HIDE DEF welcome
<1>9. /\ announced = <<>>
      /\ \/ /\ announced' = <<>> /\ group' = [group EXCEPT !.epoch = epochs']
            /\ inbox' = inbox \o <<>> \o <<atOnce>>
         \/ /\ announced' = c /\ group' = group
            /\ inbox' = inbox \o (<<>> \o <<welcome>>)
    BY <1>3, NextEpochOutcome
<1>10. c # <<>>
    OBVIOUS
<1> HIDE DEF atOnce, c
<1>11. CASE announced' = <<>> /\ group' = [group EXCEPT !.epoch = epochs']
            /\ inbox' = inbox \o <<>> \o <<atOnce>>
    <2>1. inbox' = Append(inbox, atOnce)
        BY <1>2, <1>6, <1>11, AppendBoth DEF atOnce
    <2>2. group'.version = 1
        BY <1>1, <1>2, <1>11
    <2>3. atOnce \in Message
        BY <1>6 DEF atOnce
    <2> QED BY <1>1, <1>4, <1>8, <1>9, <1>11, <2>1, <2>2, <2>3
<1>12. CASE announced' = c /\ group' = group /\ inbox' = inbox \o (<<>> \o <<welcome>>)
    <2>1. inbox' = Append(inbox, welcome)
        BY <1>2, <1>6, <1>12, AppendBoth
    <2> QED BY <1>1, <1>4, <1>6, <1>7, <1>9, <1>10, <1>12, <2>1
<1> QED BY <1>9, <1>11, <1>12

\* A downgrade is not forgotten.
LEMMA NotForgotten == ASSUME InStep, Server, downgrades' = 0 PROVE downgrades = 0
<1>1. downgrades \in Nat
    BY DEF InStep, Agreed
<1>2. CASE downgrades' = downgrades + 1
    BY <1>1, <1>2
<1>3. CASE UNCHANGED downgrades
    BY <1>3
<1> QED BY <1>2, <1>3 DEF Server, UserJoinsOrLeaves, ServerAddsUs, ServerDowngrades,
           ServerPreparesEpoch, ServerExecutes, ServerTakes, counts

\* A queue stays free of what is not sent.
LEMMA OnTrackServer == ASSUME IInv, InStep, Server PROVE OnTrack'
<1> DEFINE M == {m \in Message : m.kind # "PrepareTransition"}
<1> SUFFICES ASSUME Steady', downgrades' = 0
             PROVE  /\ (exists => version = 1 /\ pendingVersion = 1)'
                    /\ inbox' \in Seq(M)
    BY DEF OnTrack
<1>0. Steady
    BY CallStays DEF Next, Steady
<1>1. downgrades = 0
    BY NotForgotten
<1>2. UNCHANGED <<exists, version, pendingVersion>>
    BY DEF Server, UserJoinsOrLeaves, ServerAddsUs, ServerDowngrades, ServerPreparesEpoch,
           ServerExecutes, ServerTakes, session, flags
<1>3. (exists => version = 1 /\ pendingVersion = 1) /\ inbox \in Seq(M)
    BY <1>0, <1>1 DEF InStep, OnTrack
<1>4. inbox' \in Seq(M)
    <2>1. ASSUME NEW u \in Users, UserJoinsOrLeaves(u) PROVE inbox' \in Seq(M)
        <3>1. PICK told \in M :
                  \/ inbox' = Append(inbox, told)
                  \/ \E m \in M : inbox' = Append(Append(inbox, told), m)
            BY <1>0, <2>1, JoinsOrLeavesOutcome
        <3> HIDE DEF M
        <3> QED BY <1>3, <3>1
    <2>2. CASE ServerAddsUs
        <3>1. PICK m \in M : inbox' = Append(inbox, m)
            BY <1>0, <2>2, AddsUsOutcome
        <3> HIDE DEF M
        <3> QED BY <1>3, <3>1
    <2>3. CASE ServerDowngrades
        BY <1>1, <2>3 DEF ServerDowngrades
    <2>4. CASE ServerPreparesEpoch
        <3>1. [kind |-> "PrepareEpoch", version |-> 1, epoch |-> 1] \in M
            BY SentTypes
        <3>2. inbox' = Append(inbox, [kind |-> "PrepareEpoch", version |-> 1, epoch |-> 1])
            BY <2>4 DEF ServerPreparesEpoch
        <3> HIDE DEF M
        <3> QED BY <1>3, <3>1, <3>2
    <2>5. CASE ServerExecutes
        <3>1. [kind |-> "Execute"] \in M
            BY SentTypes
        <3>2. inbox' = Append(inbox, [kind |-> "Execute"])
            BY <2>5 DEF ServerExecutes
        <3> HIDE DEF M
        <3> QED BY <1>3, <3>1, <3>2
    <2>6. CASE ServerTakes
        BY <1>3, <2>6 DEF ServerTakes
    <2> QED BY <2>1, <2>2, <2>3, <2>4, <2>5, <2>6 DEF Server
<1> QED BY <1>2, <1>3, <1>4

\* Without encryption the server sends nothing but who comes and goes.
LEMMA NeverOnServer == ASSUME IInv, InStep, Server PROVE NeverOn'
<1> DEFINE E == {m \in Message : \/ m.kind \in {"Connect", "Disconnect"}
                                 \/ m.kind = "SessionDescription" /\ m.version = 0}
<1> SUFFICES ASSUME Steady', downgrades' = 0, group'.version = 0
             PROVE  /\ (~exists /\ ~inGroup /\ announced = <<>>)'
                    /\ inbox' \in Seq(E)
    BY DEF NeverOn
<1>0. Steady
    BY CallStays DEF Next, Steady
<1>1. downgrades = 0
    BY NotForgotten
<1>2. group.version = 0 => ~exists /\ ~inGroup /\ announced = <<>> /\ inbox \in Seq(E)
    BY <1>0, <1>1 DEF InStep, NeverOn
<1>3. ASSUME NEW u \in Users, UserJoinsOrLeaves(u)
      PROVE  (~exists /\ ~inGroup /\ announced = <<>>)' /\ inbox' \in Seq(E)
    <2>1. group.version = 0 /\ UNCHANGED <<inGroup, session>>
        BY <1>0, <1>3, JoinsOrLeavesOutcome
    <2>2. ~inGroup
        BY <1>2, <2>1
    <2>3. PICK told \in E : inbox' = Append(inbox, told) /\ UNCHANGED announced
        BY <1>0, <1>3, <2>2, JoinsOrLeavesOutcome
    <2> HIDE DEF E
    <2> QED BY <1>2, <2>1, <2>3 DEF session, flags
<1>4. CASE ServerAddsUs
    BY <1>0, <1>4, AddsUsOutcome
<1>5. CASE ServerDowngrades
    BY <1>1, <1>5 DEF ServerDowngrades
<1>6. CASE ServerPreparesEpoch
    BY <1>6 DEF ServerPreparesEpoch
<1>7. CASE ServerExecutes
    <2>1. announced # <<>> /\ announced \in {<<>>, <<[version |-> 1, epoch |-> epochs]>>}
        BY <1>0, <1>1, <1>7 DEF InStep, Agreed, ServerExecutes
    <2>2. Head(announced).version = 1
        BY <2>1
    <2> QED BY <1>7, <2>2 DEF ServerExecutes
<1>8. CASE ServerTakes
    BY <1>2, <1>8 DEF ServerTakes, session, flags
<1> QED BY <1>3, <1>4, <1>5, <1>6, <1>7, <1>8 DEF Server

\* What is in use does not change with the group.
LEMMA UsesServer == ASSUME IInv, InStep, Server PROVE InUse' /\ Hearing'
<1>1. UNCHANGED <<call, session, mapped, missed>>
    BY DEF Server, UserJoinsOrLeaves, ServerAddsUs, ServerDowngrades, ServerPreparesEpoch,
           ServerExecutes, ServerTakes, udp
<1>2. downgrades' = 0 => downgrades = 0
    BY NotForgotten
<1> QED BY <1>1, <1>2 DEF InStep, InUse, Hearing, Steady, session, flags, keys

\* Membership in the relations between states before and after a message.
LEMMA InChanges ==
    ASSUME NEW s, NEW m, NEW t
    PROVE  <<s, m, t>> \in Changes
               <=> s \in Standing /\ m \in Message /\ t \in Standing /\ After(s, m, t)
BY DEF Changes

\* ... and likewise for the way out.
LEMMA InTurns ==
    ASSUME NEW s, NEW m, NEW t
    PROVE  <<s, m, t>> \in Turns
               <=> s \in Stage /\ m \in Message /\ t \in Stage /\ Turn(s, m, t)
BY DEF Turns

\* A message that the server takes with word of a change we could not process puts
\* us out of the group: while we are in it, it took none.
LEMMA TakenQuietly ==
    ASSUME IInv, ServerTakes, inGroup', Quiet' PROVE inGroup /\ Quiet
<1>1. outbox \in Seq(Reply) /\ outbox # <<>> /\ outbox' = Tail(outbox)
    BY DEF IInv, ServerTypeOK, ServerTakes
<1>2. inGroup /\ Head(outbox).kind # "Invalid"
    BY DEF ServerTakes
<1>3. ASSUME NEW k \in 1..Len(outbox) PROVE outbox[k].kind # "Invalid"
    <2>1. CASE k = 1
        BY <1>1, <1>2, <2>1, TailAt
    <2>2. CASE k # 1
        <3>1. Len(outbox) \in Nat /\ Len(outbox') = Len(outbox) - 1
              /\ \A n \in 1..(Len(outbox) - 1) : outbox'[n] = outbox[n + 1]
            BY <1>1, TailAt
        <3>2. k - 1 \in 1..(Len(outbox) - 1) /\ (k - 1) + 1 = k
            BY <2>2, <3>1
        <3> QED BY <3>1, <3>2 DEF Quiet
    <2> QED BY <2>1, <2>2
<1> QED BY <1>2, <1>3 DEF Quiet

\* The types of where the session stands.
LEMMA StandingTypes ==
    IInv => /\ Unknown \in Standing /\ Here \in Standing /\ Told \in Standing
            /\ inbox \in Seq(Message) /\ outbox \in Seq(Reply)
<1> SUFFICES ASSUME IInv
             PROVE  /\ Unknown \in Standing /\ Here \in Standing /\ Told \in Standing
                    /\ inbox \in Seq(Message) /\ outbox \in Seq(Reply)
    OBVIOUS
<1>1. Unknown \in Standing
    BY DaveAssumption DEF Unknown, Standing, Epoch
<1>2. Here \in Standing
    BY DEF IInv, TypeOK, Here, Standing
<1>3. Told \in Standing
    BY DEF IInv, ServerTypeOK, Told, Standing
<1> QED BY <1>1, <1>2, <1>3 DEF IInv, ServerTypeOK

\* What the server sends is foretold: it leads from where the path ended to what
\* the server now thinks.
LEMMA ForeseenServer == ASSUME IInv, IInv', InStep, Server PROVE Foreseen'
<1> SUFFICES ASSUME Steady', inGroup', Quiet'
             PROVE  (\E s \in {Unknown, Here} : Path(inbox, Changes, s, Told))'
    BY DEF Foreseen
<1>0. Steady /\ Steady'
    BY CallStays DEF Next, Steady
<1>1. inbox \in Seq(Message) /\ Told \in Standing /\ Told' \in Standing /\ Unknown \in Standing
      /\ Here \in Standing
    <2>1. Told' \in Standing
        BY DEF IInv, ServerTypeOK, Told, Standing
    <2> QED BY <2>1, StandingTypes
<1>2. Here' = Here
    BY DEF Server, UserJoinsOrLeaves, ServerAddsUs, ServerDowngrades, ServerPreparesEpoch,
           ServerExecutes, ServerTakes, session, flags, keys, Here
<1> SUFFICES \E s \in {Unknown, Here} : Path(inbox', Changes, s, Told')
    BY <1>2
<1>3. ASSUME inGroup, Quiet
      PROVE  \E s \in {Unknown, Here} : s \in Standing /\ Path(inbox, Changes, s, Told)
    BY <1>0, <1>1, <1>3 DEF InStep, Foreseen
<1>4. ASSUME NEW u \in Users, UserJoinsOrLeaves(u)
      PROVE  \E s \in {Unknown, Here} : Path(inbox', Changes, s, Told')
    <2>1. UNCHANGED <<inGroup, outbox>>
        BY <1>0, <1>4, JoinsOrLeavesOutcome
    <2>2. inGroup /\ Quiet
        BY <2>1 DEF Quiet
    <2>3. PICK told \in Message :
              /\ told.kind \in {"Connect", "Disconnect"}
              /\ announced = <<>> /\ epochs' = epochs + 1
              /\ \E m \in Message :
                     /\ m.kind = "Commit" /\ m.epoch = epochs' /\ m.roster = members'
                     /\ inbox' = Append(Append(inbox, told), m)
                     /\ m.id # 0 <=> announced' # <<>>
        BY <1>0, <1>4, <2>2, JoinsOrLeavesOutcome
    <2>4. PICK m \in Message :
              /\ m.kind = "Commit" /\ m.epoch = epochs' /\ m.roster = members'
              /\ inbox' = Append(Append(inbox, told), m)
              /\ m.id # 0 <=> announced' # <<>>
        BY <2>3
    <2>5. PICK s \in {Unknown, Here} : Path(inbox, Changes, s, Told)
        BY <1>3, <2>2
    <2>6. <<Told, told, Told>> \in Changes
        BY <1>1, <2>3, InChanges DEF After
    <2>7. Path(Append(inbox, told), Changes, s, Told)
        BY <1>1, <2>5, <2>6, PathAppend
    <2>8. <<Told, m, Told'>> \in Changes
        <3>1. Told.epoch # 0 /\ Told.epoch + 1 = m.epoch
            BY <1>0, <2>2, <2>3, <2>4 DEF Told, InStep, Agreed
        <3>2. Told' = Brings(m)
            BY <2>4 DEF Told, Brings
        <3> QED BY <1>1, <2>4, <3>1, <3>2, InChanges DEF After
    <2>9. Append(inbox, told) \in Seq(Message)
        BY <1>1
    <2>10. Path(inbox', Changes, s, Told')
        BY <2>4, <2>7, <2>8, <2>9, PathAppend
    <2> QED BY <2>10
<1>5. CASE ServerAddsUs
    <2>1. PICK m \in Message :
              /\ m.kind = "Welcome" /\ m.epoch = epochs' /\ m.roster = members'
              /\ inbox' = Append(inbox, m)
              /\ m.id # 0 <=> announced' # <<>>
        BY <1>0, <1>5, AddsUsOutcome
    <2>2. \A n \in Message : <<Unknown, n, Unknown>> \in Changes
        BY <1>1, InChanges DEF After
    <2>3. Path(inbox, Changes, Unknown, Unknown)
        BY <1>1, <2>2, PathStays
    <2>4. Told' = Brings(m)
        BY <2>1 DEF Told, Brings
    <2>5. <<Unknown, m, Told'>> \in Changes
        BY <1>1, <2>1, <2>4, InChanges DEF After
    <2>6. Path(inbox', Changes, Unknown, Told')
        BY <1>1, <2>1, <2>3, <2>5, PathAppend
    <2> QED BY <2>6
<1>6. CASE ServerDowngrades \/ ServerPreparesEpoch
    BY <1>6 DEF ServerDowngrades, ServerPreparesEpoch
<1>7. CASE ServerExecutes
    <2> DEFINE x == [kind |-> "Execute"]
    <2>1. UNCHANGED <<inGroup, outbox, members, epochs>> /\ inbox' = Append(inbox, x)
          /\ announced # <<>> /\ announced' = Tail(announced)
        BY <1>7 DEF ServerExecutes, counts
    <2>2. inGroup /\ Quiet
        BY <2>1 DEF Quiet
    <2>3. announced' = <<>>
        <3>1. downgrades = 0
            BY <1>0, <2>2 DEF InStep, Agreed
        <3>2. announced = <<[version |-> 1, epoch |-> epochs]>>
            BY <1>0, <2>1, <3>1 DEF InStep, Agreed
        <3> QED BY <2>1, <3>2
    <2>4. PICK s \in {Unknown, Here} : Path(inbox, Changes, s, Told)
        BY <1>3, <2>2
    <2>5. x \in Message /\ x.kind = "Execute"
        BY <1>0, SentTypes
    <2>6. Told.ready /\ Told' = Done(Told)
        <3>1. announced' # <<>> <=> FALSE
            BY <2>3
        <3>2. Told' = [epoch |-> epochs, ready |-> FALSE, roster |-> members]
            BY <2>1, <3>1 DEF Told
        <3>3. Told = [epoch |-> epochs, ready |-> TRUE, roster |-> members]
            BY <2>1 DEF Told
        <3> QED BY <3>2, <3>3 DEF Done
    <2> HIDE DEF x
    <2>7. <<Told, x, Told'>> \in Changes
        BY <1>1, <2>5, <2>6, InChanges DEF After
    <2>8. Path(inbox', Changes, s, Told')
        BY <1>1, <2>1, <2>4, <2>5, <2>7, PathAppend
    <2> QED BY <2>8
<1>8. CASE ServerTakes
    <2>1. inGroup /\ Quiet
        BY <1>8, TakenQuietly
    <2>2. inbox' = inbox /\ Told' = Told
        BY <1>8 DEF ServerTakes, counts, Told
    <2> QED BY <1>3, <2>1, <2>2
<1> QED BY <1>4, <1>5, <1>6, <1>7, <1>8 DEF Server

\* So is the way out of encryption.
LEMMA LeavesServer == ASSUME IInv, InStep, Server PROVE Leaves'
<1> SUFFICES ASSUME Steady', downgrades' > 0
             PROVE  (\E s \in Stage : At(s) /\ Path(inbox, Turns, s, Due))'
    BY DEF Leaves
<1>0. Steady
    BY CallStays DEF Next, Steady
<1>1. inbox \in Seq(Message) /\ downgrades \in Nat
    BY StandingTypes DEF InStep, Agreed
<1>2. \A s : At(s)' <=> At(s)
    BY DEF Server, UserJoinsOrLeaves, ServerAddsUs, ServerDowngrades, ServerPreparesEpoch,
           ServerExecutes, ServerTakes, session, flags, At
<1>3. ASSUME downgrades > 0
      PROVE  /\ \E s \in Stage : At(s) /\ Path(inbox, Turns, s, Due)
             /\ ~inGroup
             /\ \/ announced = <<>> /\ group.version = 0
                \/ announced = <<[version |-> 0, epoch |-> 0]>>
    BY <1>0, <1>3 DEF InStep, Leaves, Agreed
<1> SUFFICES \E s \in Stage : At(s) /\ Path(inbox', Turns, s, Due')
    BY <1>2
<1>4. ASSUME NEW u \in Users, UserJoinsOrLeaves(u)
      PROVE  \E s \in Stage : At(s) /\ Path(inbox', Turns, s, Due')
    <2>1. UNCHANGED downgrades
        BY <1>0, <1>4, JoinsOrLeavesOutcome
    <2>2. PICK told \in Message : /\ told.kind \in {"Connect", "Disconnect"}
                                  /\ inbox' = Append(inbox, told) /\ UNCHANGED announced
        BY <1>0, <1>3, <1>4, <2>1, JoinsOrLeavesOutcome
    <2>3. PICK s \in Stage : At(s) /\ Path(inbox, Turns, s, Due)
        BY <1>3, <2>1
    <2>4. Due \in Stage /\ Due' = Due
        BY <2>2 DEF Due, Stage
    <2>5. <<Due, told, Due>> \in Turns
        BY <2>2, <2>4, InTurns DEF Turn
    <2>6. Path(inbox', Turns, s, Due')
        BY <1>1, <2>2, <2>3, <2>4, <2>5, PathAppend
    <2> QED BY <2>3, <2>6
<1>5. CASE ServerAddsUs
    <2>1. UNCHANGED downgrades /\ announced = <<>> /\ group.version = 1
        BY <1>0, <1>5, AddsUsOutcome
    <2> QED BY <1>3, <2>1
<1>6. CASE ServerDowngrades
    <2> DEFINE x == [kind |-> "PrepareTransition", version |-> 0]
               c == [version |-> 0, epoch |-> 0]
    <2>1. /\ announced = <<>> /\ inbox' = inbox \o <<x>> /\ announced' = Append(announced, c)
          /\ group.version = 1
        BY <1>0, <1>6 DEF ServerDowngrades, Announces, Steady
    <2>2. downgrades = 0
        BY <1>1, <1>3, <2>1
    <2>3. At("on") /\ inbox \in Seq({m \in Message : m.kind # "PrepareTransition"})
        BY <1>0, <2>2 DEF InStep, OnTrack, At
    <2>4. \A m \in {n \in Message : n.kind # "PrepareTransition"} : <<"on", m, "on">> \in Turns
        BY InTurns DEF Turn, Stage
    <2>5. Path(inbox, Turns, "on", "on")
        <3> DEFINE M == {n \in Message : n.kind # "PrepareTransition"}
        <3> HIDE DEF M
        <3>1. inbox \in Seq(M) /\ \A m \in M : <<"on", m, "on">> \in Turns
            BY <2>3, <2>4 DEF M
        <3> QED BY <3>1, PathStays
    <2>6. x \in Message /\ x.kind = "PrepareTransition" /\ x.version = 0
        BY SentTypes
    <2> HIDE DEF x
    <2>7. <<"on", x, "leaving">> \in Turns
        BY <2>6, InTurns DEF Turn, Stage
    <2>8. inbox' = Append(inbox, x)
        BY <1>1, <2>1, <2>6, AppendBoth
    <2>9. Due' = "leaving"
        <3> HIDE DEF c
        <3>1. announced' # <<>>
            BY <2>1
        <3> QED BY <3>1 DEF Due
    <2>10. Path(inbox', Turns, "on", "leaving")
        BY <1>1, <2>5, <2>6, <2>7, <2>8, PathAppend
    <2> QED BY <2>3, <2>9, <2>10 DEF Stage
<1>7. CASE ServerPreparesEpoch
    BY <1>0, <1>1, <1>7 DEF ServerPreparesEpoch, Steady
<1>8. CASE ServerExecutes
    <2> DEFINE x == [kind |-> "Execute"]
    <2>1. UNCHANGED downgrades /\ inbox' = Append(inbox, x)
          /\ announced # <<>> /\ announced' = Tail(announced)
        BY <1>8 DEF ServerExecutes, counts
    <2>2. announced = <<[version |-> 0, epoch |-> 0]>>
        BY <1>3, <2>1
    <2>3. Due = "leaving" /\ Due' = "off"
        BY <2>1, <2>2 DEF Due
    <2>4. PICK s \in Stage : At(s) /\ Path(inbox, Turns, s, Due)
        BY <1>3, <2>1
    <2>5. x \in Message /\ x.kind = "Execute"
        BY SentTypes
    <2> HIDE DEF x
    <2>6. <<Due, x, Due'>> \in Turns
        BY <2>3, <2>5, InTurns DEF Turn, Stage
    <2>7. Path(inbox', Turns, s, Due')
        BY <1>1, <2>1, <2>4, <2>5, <2>6, PathAppend
    <2> QED BY <2>4, <2>7
<1>9. CASE ServerTakes
    <2>1. UNCHANGED <<downgrades, inbox, announced>>
        BY <1>9 DEF ServerTakes, counts
    <2> QED BY <1>3, <2>1 DEF Due
<1> QED BY <1>4, <1>5, <1>6, <1>7, <1>8, <1>9 DEF Server

----------------------------------------------------------------------------
(* The client's steps *)

\* They leave the server's side alone.
ServerStays == UNCHANGED <<server, epochs, downgrades>>

\* A handler takes the first message.
LEMMA ClientFrame ==
    ASSUME IInv, Client
    PROVE  /\ ServerStays
           /\ inbox \in Seq(Message) /\ inbox # <<>> /\ inbox' = Tail(inbox)
           /\ Head(inbox) \in Message
<1>1. ServerStays
    BY DEF Client, OnAnnounceCommitTransition, OnWelcome, OnPrepareTransition,
           OnExecuteTransition, HandleGatewaySessionDescription,
           HandleGatewayDavePrepareEpoch, PrepareEpochCreates, HandleGatewayClientConnect,
           HandleGatewayClientDisconnect, ServerStays, counts
<1>2. inbox # <<>> /\ inbox' = Tail(inbox)
    BY DEF Client, OnAnnounceCommitTransition, OnWelcome, OnPrepareTransition,
           OnExecuteTransition, HandleGatewaySessionDescription,
           HandleGatewayDavePrepareEpoch, PrepareEpochCreates, HandleGatewayClientConnect,
           HandleGatewayClientDisconnect, Takes
<1>3. inbox \in Seq(Message)
    BY DEF IInv, ServerTypeOK
<1> QED BY <1>1, <1>2, <1>3, TailAt

\* Packets and ssrcs leave the messages alone too.
LEMMA MediaFrame ==
    ASSUME Media
    PROVE  /\ ServerStays
           /\ UNCHANGED <<inbox, outbox, flags, mls, key, encryptor>>
BY DEF Media, HandleGatewaySpeaking, HandleGatewaySessionUpdate, OnUDPData,
       GetOrCreateDecryptor, DecryptorEntered, ServerStays, counts, keys

\* What the server and the client agree on stays so.
LEMMA AgreedStays == ASSUME InStep, ServerStays PROVE Agreed'
BY DEF InStep, Agreed, ServerStays, server, Steady

\* A session, once there is one, stays.
LEMMA SessionlessClient == ASSUME IInv, InStep, Client \/ Media PROVE Sessionless'
<1> SUFFICES ASSUME ~exists'
             PROVE  (mls = Outside /\ ~enabled /\ outbox = <<>> /\ keyPackage = 0 /\ ~inGroup)'
    BY DEF Sessionless
<1>1. UNCHANGED <<keyPackage, inGroup>>
    BY ClientFrame, MediaFrame DEF ServerStays, server
<1>2. /\ ~exists
      /\ UNCHANGED <<mls, enabled, outbox>>
    <2>1. CASE OnAnnounceCommitTransition \/ OnWelcome
        BY <2>1 DEF OnAnnounceCommitTransition, OnWelcome
    <2>2. CASE OnPrepareTransition
        BY <2>2 DEF OnPrepareTransition, keys
    <2>3. CASE OnExecuteTransition
        BY <2>3 DEF OnExecuteTransition, keys
    <2>4. CASE HandleGatewaySessionDescription
        BY <2>4 DEF HandleGatewaySessionDescription, EnsureDaveSession, session, flags, keys
    <2>5. CASE HandleGatewayDavePrepareEpoch \/ PrepareEpochCreates
        BY <2>5 DEF HandleGatewayDavePrepareEpoch, PrepareEpochCreates
    <2>6. CASE HandleGatewayClientConnect \/ HandleGatewayClientDisconnect
        BY <2>6 DEF HandleGatewayClientConnect, HandleGatewayClientDisconnect, flags, keys
    <2>7. CASE Media
        BY <2>7, MediaFrame DEF flags
    <2> QED BY <2>1, <2>2, <2>3, <2>4, <2>5, <2>6, <2>7 DEF Client
<1> QED BY <1>1, <1>2 DEF InStep, Sessionless

\* What the client takes leaves a queue of the same kind of messages.
LEMMA NeverOnClient == ASSUME IInv, InStep, Client \/ Media PROVE NeverOn'
<1> DEFINE E == {m \in Message : \/ m.kind \in {"Connect", "Disconnect"}
                                 \/ m.kind = "SessionDescription" /\ m.version = 0}
<1> SUFFICES ASSUME Steady', downgrades' = 0, group'.version = 0
             PROVE  /\ (~exists /\ ~inGroup /\ announced = <<>>)'
                    /\ inbox' \in Seq(E)
    BY DEF NeverOn
<1>1. ServerStays
    BY ClientFrame, MediaFrame
<1>2. ~exists /\ ~inGroup /\ announced = <<>> /\ inbox \in Seq(E)
    BY <1>1 DEF InStep, NeverOn, ServerStays, server, Steady
<1>3. (~inGroup /\ announced = <<>>)'
    BY <1>1, <1>2 DEF ServerStays, server
<1>4. CASE Client
    <2>1. inbox # <<>> /\ inbox' = Tail(inbox)
        BY <1>4, ClientFrame
    <2>2. Head(inbox) \in E
        <3> HIDE DEF E
        <3> QED BY <1>2, <2>1, TailAt
    <2>3. inbox' \in Seq(E)
        <3> HIDE DEF E
        <3> QED BY <1>2, <2>1, TailAt
    <2>4. ~exists'
        <3>1. CASE HandleGatewaySessionDescription
            <4>1. Head(inbox).version = 0
                BY <2>2, <3>1 DEF HandleGatewaySessionDescription, Takes
            <4> QED BY <1>2, <3>1, <4>1 DEF HandleGatewaySessionDescription, session, flags
        <3>2. CASE HandleGatewayClientConnect \/ HandleGatewayClientDisconnect
            BY <1>2, <3>2 DEF HandleGatewayClientConnect, HandleGatewayClientDisconnect, flags
        <3> QED BY <1>4, <2>2, <3>1, <3>2
                DEF Client, OnAnnounceCommitTransition, OnWelcome, OnPrepareTransition,
                    OnExecuteTransition, HandleGatewayDavePrepareEpoch, PrepareEpochCreates, Takes
    <2> QED BY <1>3, <2>3, <2>4
<1>5. CASE Media
    BY <1>2, <1>3, <1>5, MediaFrame DEF flags
<1> QED BY <1>4, <1>5

\* Until the downgrade is prepared version 1 is in use and pending.
LEMMA OnTrackClient == ASSUME IInv, InStep, Client \/ Media PROVE OnTrack'
<1> DEFINE M == {m \in Message : m.kind # "PrepareTransition"}
<1> SUFFICES ASSUME Steady', downgrades' = 0
             PROVE  /\ (exists => version = 1 /\ pendingVersion = 1)'
                    /\ inbox' \in Seq(M)
    BY DEF OnTrack
<1>1. ServerStays
    BY ClientFrame, MediaFrame
<1>2. (exists => version = 1 /\ pendingVersion = 1) /\ inbox \in Seq(M)
    BY <1>1 DEF InStep, OnTrack, ServerStays, server, Steady
<1>3. CASE Client
    <2>1. inbox # <<>> /\ inbox' = Tail(inbox) /\ Head(inbox) \in Message
        BY <1>3, ClientFrame
    <2>2. Head(inbox) \in M /\ inbox' \in Seq(M)
        <3> HIDE DEF M
        <3> QED BY <1>2, <2>1, TailAt
    <2>3. (exists => version = 1 /\ pendingVersion = 1)'
        <3>1. CASE OnAnnounceCommitTransition \/ OnWelcome
            BY <1>2, <3>1 DEF OnAnnounceCommitTransition, OnWelcome
        <3>2. CASE OnPrepareTransition
            BY <2>2, <3>2 DEF OnPrepareTransition, Takes
        <3>3. CASE OnExecuteTransition
            BY <1>2, <3>3 DEF OnExecuteTransition, Executes
        <3>4. CASE HandleGatewaySessionDescription
            <4>1. Head(inbox).version \in Version
                BY <2>1, <3>4 DEF HandleGatewaySessionDescription, Takes, Message
            <4>2. CASE Head(inbox).version > 0 /\ ~exists
                BY <3>4, <4>1, <4>2
                DEF HandleGatewaySessionDescription, EnsureDaveSession, Version
            <4>3. CASE ~(Head(inbox).version > 0 /\ ~exists)
                BY <1>2, <3>4, <4>3 DEF HandleGatewaySessionDescription, session, flags
            <4> QED BY <4>2, <4>3
        <3>5. CASE HandleGatewayDavePrepareEpoch
            <4>1. Head(inbox).version = 1
                BY <2>1, <3>5 DEF HandleGatewayDavePrepareEpoch, Takes, Message
            <4> QED BY <1>2, <3>5, <4>1 DEF HandleGatewayDavePrepareEpoch
        <3>6. CASE PrepareEpochCreates
            BY <3>6 DEF PrepareEpochCreates
        <3>7. CASE HandleGatewayClientConnect \/ HandleGatewayClientDisconnect
            BY <1>2, <3>7 DEF HandleGatewayClientConnect, HandleGatewayClientDisconnect, flags
        <3> QED BY <1>3, <3>1, <3>2, <3>3, <3>4, <3>5, <3>6, <3>7 DEF Client
    <2> QED BY <2>2, <2>3
<1>4. CASE Media
    BY <1>2, <1>4, MediaFrame DEF flags
<1> QED BY <1>3, <1>4

\* What the operations of the session make of an epoch in use.
LEMMA ReinitUses ==
    ASSUME Reinit PROVE mls'.epoch = 0 /\ mls'.roster = {} /\ DOMAIN decryptors' = {}
BY DEF Reinit, Outside

\* The ratchets of an epoch of the group are taken into use together.
LEMMA CompleteUses ==
    ASSUME NEW m, m.epoch # 0, CompleteTransition(m), mls' = m, mapped' = mapped
    PROVE  /\ enabled' /\ encryptor' = mls'.epoch
           /\ \A u \in mapped' \cap DOMAIN decryptors' \cap mls'.roster :
                  decryptors'[u] = mls'.epoch
BY DEF CompleteTransition, Refresh, Ratchet

\* A commit or a welcome that is accepted is ready, or in use.
LEMMA AcceptsUses ==
    ASSUME NEW m \in Message, m.kind \in {"Commit", "Welcome"}, Accepts(m), mapped' = mapped
    PROVE  /\ mls'.epoch # 0
           /\ \/ ready'
              \/ /\ enabled' /\ encryptor' = mls'.epoch
                 /\ \A u \in mapped' \cap DOMAIN decryptors' \cap mls'.roster :
                        decryptors'[u] = mls'.epoch
<1>1. m.epoch \in 1..MaxEpochs
    BY DEF Message
<1>2. mls' = [epoch |-> m.epoch, roster |-> m.roster] /\ mls'.epoch # 0
    BY <1>1, DaveAssumption DEF Accepts
<1>3. CASE m.id = 0
    <2>1. CompleteTransition(mls')
        BY <1>3 DEF Accepts
    <2> QED BY <1>2, <2>1, CompleteUses
<1>4. CASE m.id # 0
    BY <1>2, <1>4 DEF Accepts
<1> QED BY <1>3, <1>4

\* Whatever reaches the session, an epoch that is not ready is in use, by the
\* encryptor and by everyone's decryptor.
LEMMA UsesClient == ASSUME IInv, InStep, Client PROVE InUse' /\ Hearing'
<1>1. ServerStays /\ Head(inbox) \in Message
    BY ClientFrame
<1>2. Steady' = Steady /\ call' = call /\ downgrades' = downgrades
    BY <1>1 DEF ServerStays, server, Steady
<1>3. ASSUME UNCHANGED <<mls, ready, enabled, encryptor, decryptors, mapped, missed>>
      PROVE  InUse' /\ Hearing'
    BY <1>2, <1>3 DEF InStep, InUse, Hearing
<1>4. ASSUME Reinit PROVE InUse' /\ Hearing'
    BY <1>2, <1>4, ReinitUses DEF InUse, Hearing
<1>5. CASE OnAnnounceCommitTransition \/ OnWelcome
    <2>1. /\ Head(inbox).kind \in {"Commit", "Welcome"} /\ mapped' = mapped
          /\ \/ Accepts(Head(inbox))
             \/ UNCHANGED <<mls, ready, enabled, encryptor, decryptors, mapped, missed>>
        BY <1>5 DEF OnAnnounceCommitTransition, OnWelcome, Takes, Rejects, known
    <2>2. CASE Accepts(Head(inbox))
        BY <1>1, <1>2, <2>1, <2>2, AcceptsUses DEF InUse, Hearing
    <2> QED BY <1>3, <2>1, <2>2
<1>6. CASE OnPrepareTransition
    BY <1>3, <1>6 DEF OnPrepareTransition, keys, known, udp
<1>7. CASE OnExecuteTransition
    <2>1. mapped' = mapped
        BY <1>7 DEF OnExecuteTransition, known
    <2>2. CASE exists /\ pendingVersion # version /\ pendingVersion = 0
               /\ version' = 0 /\ enabled' = FALSE /\ UNCHANGED <<ready, keys, missed>>
        <3>1. InUse'
            <4>1. ~(Steady /\ downgrades = 0)
                BY <2>2 DEF InStep, OnTrack
            <4> QED BY <1>2, <4>1 DEF InUse
        <3>2. Hearing'
            BY <1>2, <2>1, <2>2 DEF InStep, Hearing, keys
        <3> QED BY <3>1, <3>2
    <2>3. CASE ready /\ CompleteTransition(mls) /\ UNCHANGED <<mls, key, outbox>>
        <3>1. mls.epoch # 0
            BY <2>3 DEF IInv, ReadyHasEpoch
        <3> QED BY <1>2, <2>1, <2>3, <3>1, CompleteUses DEF InUse, Hearing
    <2>4. CASE UNCHANGED <<ready, enabled, keys, missed>>
        BY <1>3, <2>1, <2>4 DEF keys
    <2> QED BY <1>4, <1>7, <2>2, <2>3, <2>4 DEF OnExecuteTransition, Executes
<1>8. CASE HandleGatewaySessionDescription
    <2>1. CASE Reinit
        BY <1>4, <2>1
    <2>2. CASE UNCHANGED <<session, missed>>
        BY <1>3, <1>8, <2>2 DEF HandleGatewaySessionDescription, session, flags, keys
    <2> QED BY <1>8, <2>1, <2>2 DEF HandleGatewaySessionDescription, EnsureDaveSession
<1>9. CASE HandleGatewayDavePrepareEpoch
    <2>1. CASE Reinit
        BY <1>4, <2>1
    <2>2. CASE UNCHANGED <<version, ready, enabled, downgraded, keys, missed, outbox>>
        BY <1>3, <1>9, <2>2 DEF HandleGatewayDavePrepareEpoch, keys, known
    <2> QED BY <1>9, <2>1, <2>2 DEF HandleGatewayDavePrepareEpoch
<1>10. CASE PrepareEpochCreates
    BY <1>2, <1>10 DEF PrepareEpochCreates, Outside, InUse, Hearing
<1>11. CASE HandleGatewayClientConnect
    BY <1>3, <1>11 DEF HandleGatewayClientConnect, flags, keys, udp
<1>12. CASE HandleGatewayClientDisconnect
    <2>1. UNCHANGED <<mls, ready, enabled, encryptor, missed>> /\ mapped' \subseteq mapped
        BY <1>12 DEF HandleGatewayClientDisconnect, flags, udp
    <2>2. DOMAIN decryptors' \subseteq DOMAIN decryptors
          /\ \A u \in DOMAIN decryptors' : decryptors'[u] = decryptors[u]
        BY <1>12 DEF HandleGatewayClientDisconnect
    <2>3. InUse'
        BY <1>2, <2>1 DEF InStep, InUse
    <2>4. Hearing'
        BY <1>2, <2>1, <2>2 DEF InStep, Hearing
    <2> QED BY <2>3, <2>4
<1> QED BY <1>5, <1>6, <1>7, <1>8, <1>9, <1>10, <1>11, <1>12 DEF Client

\* The decryptor made by the first packet of an ssrc that was told, and the one
\* whose ssrc is told later, get the ratchet of the epoch.
LEMMA UsesMedia == ASSUME IInv, InStep, Media PROVE InUse' /\ Hearing'
<1>1. ServerStays /\ UNCHANGED <<flags, mls, encryptor>>
    BY MediaFrame
<1>2. Steady' = Steady /\ call' = call /\ downgrades' = downgrades
    BY <1>1 DEF ServerStays, server, Steady
<1>3. InUse'
    BY <1>1, <1>2 DEF InStep, InUse, flags
<1>4. Hearing'
    <2> SUFFICES ASSUME ~call.sessionUpdates,
                        NEW w \in (mapped' \cap DOMAIN decryptors' \cap mls.roster) \ missed'
                 PROVE  ready \/ decryptors'[w] = mls.epoch
        BY <1>1, <1>2 DEF InStep, Hearing, flags
    <2>1. mls.epoch # 0 /\ exists
        BY DEF InStep, Hearing, Sessionless, Outside
    <2>2. Ratchet(mls, w) = mls.epoch
        BY DEF Ratchet
    <2>3. w \in mapped /\ w \in DOMAIN decryptors /\ w \notin missed =>
              ready \/ decryptors[w] = mls.epoch
        BY DEF InStep, Hearing
    <2>4. ASSUME NEW u \in Users, HandleGatewaySpeaking(u) PROVE ready \/ decryptors'[w] = mls.epoch
        <3>1. CASE w = u
            BY <2>1, <2>2, <2>4, <3>1 DEF HandleGatewaySpeaking
        <3>2. CASE w # u
            <4>1. w \in mapped /\ w \in DOMAIN decryptors /\ w \notin missed
                  /\ decryptors'[w] = decryptors[w]
                BY <2>4, <3>2 DEF HandleGatewaySpeaking
            <4> QED BY <2>3, <4>1
        <3> QED BY <3>1, <3>2
    <2>5. CASE DecryptorEntered
        <3>1. mapped' = mapped
            BY <2>5 DEF DecryptorEntered, known
        <3>2. CASE w = packet.user
            BY <2>2, <2>5, <3>1, <3>2 DEF DecryptorEntered
        <3>3. CASE w # packet.user
            <4>1. w \in mapped /\ w \in DOMAIN decryptors /\ w \notin missed
                  /\ decryptors'[w] = decryptors[w]
                BY <2>5, <3>1, <3>3 DEF DecryptorEntered
            <4> QED BY <2>3, <4>1
        <3> QED BY <3>2, <3>3
    <2>6. CASE UNCHANGED <<mapped, decryptors, missed>>
        BY <2>3, <2>6
    <2>7. ASSUME NEW u \in Users, OnUDPData(u) PROVE UNCHANGED <<mapped, decryptors, missed>>
        BY <2>7 DEF OnUDPData, keys, known
    <2>8. CASE GetOrCreateDecryptor
        BY <2>6, <2>8 DEF GetOrCreateDecryptor, keys, known
    <2> QED BY <2>4, <2>5, <2>6, <2>7, <2>8 DEF Media, HandleGatewaySessionUpdate
<1> QED BY <1>3, <1>4

\* What is still to be taken in the quiet was to be before.
LEMMA AppendQuiet ==
    ASSUME IInv, NEW r \in Reply, outbox' = Append(outbox, r), Quiet'
    PROVE  Quiet /\ r.kind # "Invalid"
<1>1. outbox \in Seq(Reply)
    BY DEF IInv, ServerTypeOK
<1>2. /\ Len(outbox') = Len(outbox) + 1 /\ Len(outbox) \in Nat
      /\ \A k \in 1..Len(outbox) : outbox'[k] = outbox[k]
      /\ outbox'[Len(outbox) + 1] = r
    BY <1>1, AppendAt
<1> QED BY <1>2 DEF Quiet

\* A message taken takes the session one step along the path.
LEMMA ForeseenTaken ==
    ASSUME IInv, InStep, Client, Steady, inGroup, Quiet,
           \A s \in {Unknown, Here}, t \in Standing :
               After(s, Head(inbox), t) => t \in {Unknown, Here'}
    PROVE  Foreseen'
<1>1. ServerStays /\ inbox \in Seq(Message) /\ inbox # <<>> /\ inbox' = Tail(inbox)
    BY ClientFrame
<1>2. Told' = Told
    BY <1>1 DEF ServerStays, server, Told
<1>3. PICK s \in {Unknown, Here} : Path(inbox, Changes, s, Told)
    BY DEF InStep, Foreseen
<1>4. PICK t : <<s, Head(inbox), t>> \in Changes /\ Path(inbox', Changes, t, Told)
    BY <1>1, <1>3, PathTail
<1>5. t \in {Unknown, Here'}
    BY <1>3, <1>4, InChanges
<1>6. \E p \in {Unknown, Here'} : Path(inbox', Changes, p, Told')
    BY <1>2, <1>4, <1>5
<1> QED BY <1>6 DEF Foreseen

\* ... and one step along the way out.
LEMMA LeavesTaken ==
    ASSUME IInv, InStep, Client, Steady, downgrades > 0,
           \A s \in Stage, t \in Stage : At(s) /\ Turn(s, Head(inbox), t) => At(t)'
    PROVE  Leaves'
<1>1. ServerStays /\ inbox \in Seq(Message) /\ inbox # <<>> /\ inbox' = Tail(inbox)
    BY ClientFrame
<1>2. Due' = Due
    BY <1>1 DEF ServerStays, server, Due
<1>3. PICK s \in Stage : At(s) /\ Path(inbox, Turns, s, Due)
    BY DEF InStep, Leaves
<1>4. PICK t : <<s, Head(inbox), t>> \in Turns /\ Path(inbox', Turns, t, Due)
    BY <1>1, <1>3, PathTail
<1>5. t \in Stage /\ At(t)'
    BY <1>3, <1>4, InTurns
<1>6. \E p \in Stage : At(p)' /\ Path(inbox', Turns, p, Due')
    BY <1>2, <1>4, <1>5
<1> QED BY <1>6 DEF Leaves

\* The session goes where the messages it takes were foreseen to take it.
LEMMA ForeseenClient == ASSUME IInv, InStep, Client PROVE Foreseen'
<1> SUFFICES ASSUME Steady', inGroup', Quiet' PROVE Foreseen'
    BY DEF Foreseen
<1> DEFINE m == Head(inbox)
           Goes == \A s \in {Unknown, Here}, t \in Standing : After(s, m, t) => t \in {Unknown, Here'}
<1>1. ServerStays /\ m \in Message
    BY ClientFrame
<1>2. Steady /\ inGroup
    BY <1>1 DEF ServerStays, server, Steady
<1>3. exists /\ version = 1 /\ pendingVersion = 1
    BY <1>2 DEF InStep, Sessionless, Agreed, OnTrack
<1>4. Unknown.epoch = 0 /\ Unknown.ready = FALSE /\ Here.epoch = mls.epoch /\ Here.ready = ready
    BY DEF Unknown, Here
<1> SUFFICES Quiet /\ Goes
    BY <1>2, ForeseenTaken
<1>5. ASSUME NEW r \in Reply, outbox' = Append(outbox, r) PROVE Quiet /\ r.kind # "Invalid"
    BY <1>5, AppendQuiet
<1>6. ~Rejects
    <2>1. ASSUME Rejects PROVE FALSE
        <3> DEFINE r == [kind |-> "Invalid"]
        <3>1. r \in Reply /\ r.kind = "Invalid"
            BY DEF Reply
        <3>2. outbox' = Append(outbox, r)
            BY <2>1 DEF Rejects
        <3> HIDE DEF r
        <3> QED BY <1>5, <3>1, <3>2
    <2> QED BY <2>1
<1>7. Reinit => Quiet
    <2> SUFFICES ASSUME Reinit PROVE Quiet
        OBVIOUS
    <2> DEFINE r == [kind |-> "KeyPackage", key |-> key']
    <2>1. r \in Reply
        BY DaveAssumption DEF Reinit, IInv, TypeOK, Reply
    <2>2. outbox' = Append(outbox, r)
        BY DEF Reinit
    <2> HIDE DEF r
    <2> QED BY <1>5, <2>1, <2>2
<1>8. outbox' = outbox => Quiet
    BY DEF Quiet
<1>9. ASSUME Accepts(m) PROVE Here' = Brings(m) /\ Quiet
    <2>1. mls' = [epoch |-> m.epoch, roster |-> m.roster] /\ outbox' = outbox
        BY <1>9 DEF Accepts
    <2>2. ready' = (m.id # 0)
        <3>1. CASE m.id = 0
            BY <1>9, <3>1 DEF Accepts, CompleteTransition
        <3>2. CASE m.id # 0
            BY <1>9, <3>2 DEF Accepts
        <3> QED BY <3>1, <3>2
    <2>3. mls'.epoch = m.epoch /\ mls'.roster = m.roster
        BY <2>1
    <2> QED BY <1>8, <2>1, <2>2, <2>3 DEF Here, Brings
<1> HIDE DEF m
<1>10. CASE OnAnnounceCommitTransition
    <2>1. m.kind = "Commit"
        BY <1>10 DEF OnAnnounceCommitTransition, Takes, m
    <2>2. CASE Accepts(m)
        BY <1>4, <1>9, <2>1, <2>2 DEF After
    <2>3. CASE (mls.epoch = 0 \/ mls.epoch + 1 # m.epoch) /\ outbox' = outbox
        BY <1>4, <1>8, <2>1, <2>3 DEF After
    <2> QED BY <1>3, <1>6, <1>10, <2>2, <2>3 DEF OnAnnounceCommitTransition, m
<1>11. CASE OnWelcome
    <2>1. m.kind = "Welcome"
        BY <1>11 DEF OnWelcome, Takes, m
    <2>2. Accepts(m)
        BY <1>3, <1>6, <1>11 DEF OnWelcome, m
    <2> QED BY <1>9, <2>1, <2>2 DEF After
<1>12. CASE OnPrepareTransition
    <2>1. m.kind = "PrepareTransition" /\ outbox' = outbox
        BY <1>12 DEF OnPrepareTransition, Takes, m
    <2> QED BY <1>8, <2>1 DEF After
<1>13. CASE OnExecuteTransition
    <2>1. m.kind = "Execute" /\ Executes(1)
        BY <1>3, <1>13 DEF OnExecuteTransition, Takes, m
    <2>2. CASE ready /\ CompleteTransition(mls) /\ UNCHANGED <<mls, key, outbox>>
        <3>1. Here' = Done(Here)
            BY <2>2 DEF CompleteTransition, Here, Done
        <3> QED BY <1>4, <1>8, <2>1, <2>2, <3>1 DEF After
    <2>3. CASE ~ready /\ Reinit
        BY <1>4, <1>7, <2>1, <2>3 DEF After
    <2> QED BY <2>1, <2>2, <2>3 DEF Executes
<1>14. CASE HandleGatewaySessionDescription
    <2>1. m.kind = "SessionDescription" /\ outbox' = outbox /\ Here' = Here
        BY <1>3, <1>14 DEF HandleGatewaySessionDescription, Takes, m, session, flags, keys, Here
    <2> QED BY <1>8, <2>1 DEF After
<1>15. CASE HandleGatewayDavePrepareEpoch
    <2>1. m.kind = "PrepareEpoch" /\ (Reinit \/ outbox' = outbox)
        BY <1>15 DEF HandleGatewayDavePrepareEpoch, Takes, m
    <2> QED BY <1>7, <1>8, <2>1 DEF After
<1>16. CASE PrepareEpochCreates
    BY <1>3, <1>16 DEF PrepareEpochCreates
<1>17. CASE HandleGatewayClientConnect \/ HandleGatewayClientDisconnect
    <2>1. m.kind \in {"Connect", "Disconnect"} /\ outbox' = outbox /\ Here' = Here
        BY <1>17 DEF HandleGatewayClientConnect, HandleGatewayClientDisconnect, Takes, m,
                     flags, keys, Here
    <2> QED BY <1>8, <2>1 DEF After
<1> QED BY <1>10, <1>11, <1>12, <1>13, <1>14, <1>15, <1>16, <1>17 DEF Client

\* It leaves encryption by the way that was foreseen.
LEMMA LeavesClient == ASSUME IInv, InStep, Client PROVE Leaves'
<1> SUFFICES ASSUME Steady', downgrades' > 0 PROVE Leaves'
    BY DEF Leaves
<1> DEFINE m == Head(inbox)
           Goes == \A s \in Stage, t \in Stage : At(s) /\ Turn(s, m, t) => At(t)'
<1>1. ServerStays /\ m \in Message
    BY ClientFrame
<1>2. Steady /\ downgrades > 0
    BY <1>1 DEF ServerStays, server, Steady
<1> SUFFICES Goes
    BY <1>2, LeavesTaken
<1> HIDE DEF m
<1>3. ASSUME UNCHANGED <<exists, version, pendingVersion, enabled>>,
             m.kind \notin {"PrepareTransition", "Execute"}
      PROVE  Goes
    BY <1>3 DEF At, Turn
<1>4. CASE OnAnnounceCommitTransition \/ OnWelcome
    <2>1. m.kind \in {"Commit", "Welcome"} /\ UNCHANGED <<exists, version, pendingVersion>>
        BY <1>4 DEF OnAnnounceCommitTransition, OnWelcome, Takes, m
    <2> QED BY <2>1 DEF At, Turn
<1>5. CASE OnPrepareTransition
    <2>1. /\ m.kind = "PrepareTransition" /\ UNCHANGED <<exists, version, enabled>>
          /\ exists => pendingVersion' = m.version
        BY <1>5 DEF OnPrepareTransition, Takes, m
    <2> QED BY <2>1 DEF At, Turn
<1>6. CASE OnExecuteTransition
    <2>1. m.kind = "Execute" /\ UNCHANGED <<exists, pendingVersion>>
        BY <1>6 DEF OnExecuteTransition, Takes, m
    <2>2. CASE exists /\ pendingVersion # version /\ pendingVersion = 0 /\ enabled' = FALSE
        BY <2>1, <2>2 DEF At, Turn
    <2>3. CASE exists /\ (pendingVersion = version \/ pendingVersion # 0) /\ Executes(pendingVersion)
        BY <2>1, <2>3 DEF At, Turn, Executes
    <2>4. CASE ~exists /\ UNCHANGED <<version, enabled>>
        BY <2>1, <2>4 DEF At, Turn, InStep, Sessionless
    <2> QED BY <1>6, <2>2, <2>3, <2>4 DEF OnExecuteTransition
<1>7. CASE HandleGatewaySessionDescription
    <2>1. m.kind = "SessionDescription" /\ m.version \in Version
        BY <1>1, <1>7 DEF HandleGatewaySessionDescription, Takes, Message, m
    <2>2. CASE m.version > 0 /\ ~exists
        <3>1. exists' /\ version' = 1 /\ pendingVersion' = 1
            BY <1>7, <2>1, <2>2 DEF HandleGatewaySessionDescription, EnsureDaveSession, Version, m
        <3> QED BY <2>1, <3>1 DEF At, Turn
    <2>3. CASE ~(m.version > 0 /\ ~exists)
        BY <1>3, <1>7, <2>1, <2>3 DEF HandleGatewaySessionDescription, session, flags, m
    <2> QED BY <2>2, <2>3
<1>8. CASE HandleGatewayDavePrepareEpoch
    <2>1. m.kind = "PrepareEpoch" /\ m.version = 1 /\ m.epoch = 1
        BY <1>1, <1>8 DEF HandleGatewayDavePrepareEpoch, Takes, Message, m
    <2>2. version' = 1 /\ UNCHANGED <<exists, pendingVersion>>
        BY <1>8, <2>1 DEF HandleGatewayDavePrepareEpoch, m
    <2> QED BY <2>1, <2>2 DEF At, Turn
<1>9. CASE PrepareEpochCreates
    <2>1. m.kind = "PrepareEpoch" /\ version' = 1 /\ pendingVersion' = 1
        BY <1>9 DEF PrepareEpochCreates, Takes, m
    <2> QED BY <2>1 DEF At, Turn
<1>10. CASE HandleGatewayClientConnect \/ HandleGatewayClientDisconnect
    <2>1. m.kind \in {"Connect", "Disconnect"}
          /\ UNCHANGED <<exists, version, pendingVersion, enabled>>
        BY <1>10 DEF HandleGatewayClientConnect, HandleGatewayClientDisconnect, Takes, m, flags
    <2> QED BY <1>3, <2>1
<1> QED BY <1>4, <1>5, <1>6, <1>7, <1>8, <1>9, <1>10 DEF Client

\* A packet or an ssrc changes nothing of either.
LEMMA PathsMedia == ASSUME IInv, InStep, Media PROVE Foreseen' /\ Leaves'
<1>1. ServerStays /\ UNCHANGED <<inbox, outbox, flags, mls>>
    BY MediaFrame
<1>2. /\ UNCHANGED <<inbox, outbox, inGroup, downgrades>> /\ Here' = Here /\ Told' = Told /\ Due' = Due
      /\ Steady' = Steady /\ Quiet' = Quiet
    BY <1>1 DEF ServerStays, server, flags, Here, Told, Due, Steady, Quiet
<1>3. \A s : At(s)' <=> At(s)
    BY <1>1 DEF flags, At
<1>4. Foreseen'
    BY <1>2 DEF InStep, Foreseen
<1>5. Leaves'
    BY <1>2, <1>3 DEF InStep, Leaves
<1> QED BY <1>4, <1>5

\* Every step keeps them in step.
LEMMA StepInStep == IInv /\ IInv' /\ InStep /\ [Next]_vars => InStep'
<1> SUFFICES ASSUME IInv, IInv', InStep, [Next]_vars PROVE InStep'
    OBVIOUS
<1>1. CASE Server
    BY <1>1, SessionlessServer, AgreedServer, OnTrackServer, NeverOnServer, UsesServer,
       ForeseenServer, LeavesServer DEF InStep
<1>2. CASE Client
    BY <1>2, ClientFrame, AgreedStays, SessionlessClient, OnTrackClient, NeverOnClient, UsesClient,
       ForeseenClient, LeavesClient DEF InStep
<1>3. CASE Media
    BY <1>3, MediaFrame, AgreedStays, SessionlessClient, OnTrackClient, NeverOnClient, UsesMedia,
       PathsMedia DEF InStep
<1>4. CASE UNCHANGED vars
    <2> USE <1>4 DEF vars, server, flags, keys, known, udp, counts, InStep
    <2>1. Sessionless' /\ Agreed' /\ OnTrack' /\ NeverOn' /\ InUse' /\ Hearing'
        BY DEF Sessionless, Agreed, OnTrack, NeverOn, InUse, Hearing, Steady
    <2>2. Here' = Here /\ Told' = Told /\ Due' = Due /\ Steady' = Steady /\ Quiet' = Quiet
        BY DEF Here, Told, Due, Steady, Quiet
    <2>3. \A s : At(s)' <=> At(s)
        BY DEF At
    <2>4. Foreseen' /\ Leaves'
        BY <2>2, <2>3 DEF Foreseen, Leaves
    <2> QED BY <2>1, <2>4
<1> QED BY <1>1, <1>2, <1>3, <1>4 DEF Next

\* Where nobody has anything to say, the session stands where the server thinks.
LEMMA StandsAsTold ==
    ASSUME IInv, InStep, CaughtUp, Steady, inGroup
    PROVE  /\ mls.epoch = group.epoch /\ mls.epoch # 0 /\ mls.roster = members /\ ~ready
           /\ downgrades = 0
<1>1. inbox = <<>> /\ Quiet /\ announced = <<>>
    BY DEF CaughtUp, Quiet
<1>2. PICK s \in {Unknown, Here} : Path(inbox, Changes, s, Told)
    BY <1>1 DEF InStep, Foreseen
<1>3. s = Told
    BY <1>1, <1>2, PathEmpty
<1>4. Told.epoch = group.epoch /\ Told.epoch # 0 /\ Told.roster = members /\ ~Told.ready
      /\ downgrades = 0
    <2>1. downgrades = 0 /\ epochs # 0 /\ group.epoch = epochs
        BY <1>1 DEF InStep, Agreed
    <2>2. Told = [epoch |-> epochs, ready |-> FALSE, roster |-> members]
        <3>1. announced # <<>> <=> FALSE
            BY <1>1
        <3> QED BY <3>1 DEF Told
    <2> QED BY <2>1, <2>2
<1>5. s = Here
    BY <1>3, <1>4 DEF Unknown
<1> QED BY <1>3, <1>4, <1>5 DEF Here

----------------------------------------------------------------------------
(* The theorems on the group *)

\* Client and group are in step in every behaviour.
THEOREM InStepWithGroup == Spec => []InStep
<1>1. Init => InStep
    BY InitInStep
<1>2. IInv /\ IInv' /\ InStep /\ [Next]_vars => InStep'
    BY StepInStep
<1> QED BY <1>1, <1>2, Invariance, PTL DEF Spec

\* What is sent when nothing is on its way any more is what the group expects: it is
\* encrypted by the epoch of the group we are in, and in the clear where encryption is
\* off, however many epochs, members and faults there were.
THEOREM SendsToGroup == Spec => []SendsAsGroup
<1>1. IInv /\ InStep => SendsAsGroup
    <2> SUFFICES ASSUME IInv, InStep, CaughtUp, Steady
                 PROVE  /\ inGroup => enabled /\ encryptor = group.epoch
                        /\ group.version = 0 => ~enabled
        BY DEF SendsAsGroup, Steady
    <2>1. ASSUME inGroup PROVE enabled /\ encryptor = group.epoch
        BY <2>1, StandsAsTold DEF InStep, InUse
    <2>2. ASSUME group.version = 0 PROVE ~enabled
        <3>1. CASE downgrades = 0
            BY <2>2, <3>1 DEF InStep, NeverOn, Sessionless
        <3>2. CASE downgrades > 0
            <4>1. inbox = <<>> /\ Due = "off"
                BY DEF CaughtUp, Due
            <4>2. PICK s \in Stage : At(s) /\ Path(inbox, Turns, s, Due)
                BY <3>2 DEF InStep, Leaves
            <4>3. s = "off"
                BY <4>1, <4>2, PathEmpty
            <4> QED BY <4>2, <4>3 DEF At
        <3>3. downgrades \in Nat
            BY DEF InStep, Agreed
        <3> QED BY <3>1, <3>2, <3>3
    <2> QED BY <2>1, <2>2
<1> QED BY <1>1, Invariance, InStepWithGroup, PTL

\* Whoever of the group has told us an ssrc and has a decryptor is heard by it, in
\* the epoch of the group, unless a message overtook the UDP thread as it made it.
THEOREM HearsTheGroup == Spec => []HearsEveryone
<1>1. IInv /\ InStep => HearsEveryone
    <2> SUFFICES ASSUME IInv, InStep, CaughtUp, Steady, inGroup, ~call.sessionUpdates,
                        NEW u \in (members \cap mapped \cap DOMAIN decryptors) \ missed
                 PROVE  decryptors[u] = group.epoch
        BY DEF HearsEveryone, Steady
    <2>1. mls.epoch = group.epoch /\ mls.roster = members /\ ~ready
        BY StandsAsTold
    <2> QED BY <2>1 DEF InStep, Hearing
<1> QED BY <1>1, Invariance, InStepWithGroup, PTL
=============================================================================
