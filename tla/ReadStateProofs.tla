-------------------------- MODULE ReadStateProofs --------------------------
(***************************************************************************)
(* What m_unread comes to agree with, for any channels, messages, marks    *)
(* and faults.  Between the server's word and the client's map lie the     *)
(* events not yet handled: the invariants say of each channel what         *)
(* m_unread will hold of it when they are.                                 *)
(***************************************************************************)
EXTENDS ReadState, SequenceTheorems, FiniteSetTheorems, TLAPS

----------------------------------------------------------------------------
(* What the events on their way will make of a channel *)

\* The event makes an entry for c.
Enters(e, c) ==
    \/ e.type = "create" /\ e.ch = c /\ e.kind # "own"
    \/ e.type = "ready" /\ e.last[c] > e.mark[c]

\* The event removes the entry of c.
Leaves(e, c) == e.type = "ack" /\ e.ch = c

\* Some event of f makes the entry and none after it removes it.
EntersLast(f, c) ==
    \E i \in DOMAIN f : /\ Enters(f[i], c)
                        /\ \A j \in DOMAIN f : j > i => ~Leaves(f[j], c)

\* With entries for the channels in U, c has one when the events of f are handled.
WillShow(f, U, c) ==
    \/ EntersLast(f, c)
    \/ c \in U /\ \A j \in DOMAIN f : ~Leaves(f[j], c)

\* No event is of two kinds.
LEMMA OneKind ==
    ASSUME NEW e \in EventOK, NEW c
    PROVE  ~(Enters(e, c) /\ Leaves(e, c))
BY DEF Enters, Leaves

\* An event that is put behind the others and removes nothing.
LEMMA ShowAppend ==
    ASSUME NEW f \in Seq(EventOK), NEW e \in EventOK, NEW U, NEW c, ~Leaves(e, c)
    PROVE  WillShow(Append(f, e), U, c) <=> WillShow(f, U, c) \/ Enters(e, c)
<1> DEFINE g == Append(f, e)
           n == Len(f)
<1>1. /\ n \in Nat /\ DOMAIN f = 1..n /\ DOMAIN g = 1..(n + 1)
      /\ \A i \in 1..n : g[i] = f[i]
      /\ g[n + 1] = e
  OBVIOUS
<1> HIDE DEF g, n
<1>2. (\A j \in DOMAIN g : ~Leaves(g[j], c)) <=> (\A j \in DOMAIN f : ~Leaves(f[j], c))
  BY <1>1
<1>3. ASSUME Enters(e, c)
      PROVE  EntersLast(g, c)
  <2>1. n + 1 \in DOMAIN g /\ \A j \in DOMAIN g : ~(j > n + 1)
    BY <1>1
  <2> QED
    BY <1>1, <1>3, <2>1 DEF EntersLast
<1>4. ASSUME EntersLast(f, c)
      PROVE  EntersLast(g, c)
  <2>1. PICK i \in DOMAIN f : Enters(f[i], c) /\ \A j \in DOMAIN f : j > i => ~Leaves(f[j], c)
    BY <1>4 DEF EntersLast
  <2>2. i \in DOMAIN g /\ Enters(g[i], c)
    BY <1>1, <2>1
  <2>3. \A j \in DOMAIN g : j > i => ~Leaves(g[j], c)
    BY <1>1, <2>1
  <2> QED
    BY <2>2, <2>3 DEF EntersLast
<1>5. ASSUME EntersLast(g, c)
      PROVE  EntersLast(f, c) \/ Enters(e, c)
  <2>1. PICK i \in DOMAIN g : Enters(g[i], c) /\ \A j \in DOMAIN g : j > i => ~Leaves(g[j], c)
    BY <1>5 DEF EntersLast
  <2>2. CASE i = n + 1
    BY <1>1, <2>1, <2>2
  <2>3. CASE i \in DOMAIN f
    <3>1. Enters(f[i], c) /\ \A j \in DOMAIN f : j > i => ~Leaves(f[j], c)
      BY <1>1, <2>1, <2>3
    <3> QED
      BY <2>3, <3>1 DEF EntersLast
  <2> QED
    BY <1>1, <2>1, <2>2, <2>3
<1> QED
  BY <1>2, <1>3, <1>4, <1>5 DEF WillShow, g

\* Acknowledgements put behind the others: they make no entry, and remove that of
\* a channel one of them names.
LEMMA ShowAcks ==
    ASSUME NEW f \in Seq(EventOK), NEW g \in Seq(EventOK), NEW U, NEW c,
           \A i \in DOMAIN g : g[i].type = "ack"
    PROVE  /\ (\A i \in DOMAIN g : ~Leaves(g[i], c)) =>
                  (WillShow(f \o g, U, c) <=> WillShow(f, U, c))
           /\ (\E i \in DOMAIN g : Leaves(g[i], c)) => ~WillShow(f \o g, U, c)
<1> DEFINE h == f \o g
           n == Len(f)
           m == Len(g)
<1>1. /\ n \in Nat /\ m \in Nat /\ DOMAIN f = 1..n /\ DOMAIN g = 1..m
      /\ DOMAIN h = 1..(n + m)
      /\ \A i \in 1..(n + m) : h[i] = IF i <= n THEN f[i] ELSE g[i - n]
  BY ConcatProperties, LenProperties
<1> HIDE DEF h, n, m
<1>2. \A i \in DOMAIN f : i \in DOMAIN h /\ h[i] = f[i]
  BY <1>1
<1>3. \A i \in DOMAIN g : i + n \in DOMAIN h /\ h[i + n] = g[i] /\ \A j \in DOMAIN f : i + n > j
  BY <1>1
<1>4. \A i \in DOMAIN h : i \in DOMAIN f \/ (i - n \in DOMAIN g /\ h[i] = g[i - n])
  BY <1>1
<1>5. \A i \in DOMAIN g : ~Enters(g[i], c)
  BY DEF Enters
<1>6. ASSUME \A i \in DOMAIN g : ~Leaves(g[i], c)
      PROVE  WillShow(h, U, c) <=> WillShow(f, U, c)
  <2>1. (\A j \in DOMAIN h : ~Leaves(h[j], c)) <=> (\A j \in DOMAIN f : ~Leaves(f[j], c))
    BY <1>2, <1>4, <1>6
  <2>2. ASSUME EntersLast(f, c) PROVE EntersLast(h, c)
    <3>1. PICK i \in DOMAIN f : Enters(f[i], c) /\ \A j \in DOMAIN f : j > i => ~Leaves(f[j], c)
      BY <2>2 DEF EntersLast
    <3>2. \A j \in DOMAIN h : j > i => ~Leaves(h[j], c)
      BY <3>1, <1>2, <1>4, <1>6
    <3> QED
      BY <3>1, <3>2, <1>2 DEF EntersLast
  <2>3. ASSUME EntersLast(h, c) PROVE EntersLast(f, c)
    <3>1. PICK i \in DOMAIN h : Enters(h[i], c) /\ \A j \in DOMAIN h : j > i => ~Leaves(h[j], c)
      BY <2>3 DEF EntersLast
    <3>2. i \in DOMAIN f /\ Enters(f[i], c)
      BY <3>1, <1>2, <1>4, <1>5
    <3>3. \A j \in DOMAIN f : j > i => ~Leaves(f[j], c)
      BY <3>1, <1>2
    <3> QED
      BY <3>2, <3>3 DEF EntersLast
  <2> QED
    BY <2>1, <2>2, <2>3 DEF WillShow
<1>7. ASSUME NEW k \in DOMAIN g, Leaves(g[k], c)
      PROVE  ~WillShow(h, U, c)
  <2>1. k + n \in DOMAIN h /\ Leaves(h[k + n], c)
    BY <1>3, <1>7
  <2>2. ASSUME EntersLast(h, c) PROVE FALSE
    <3>1. PICK i \in DOMAIN h : Enters(h[i], c) /\ \A j \in DOMAIN h : j > i => ~Leaves(h[j], c)
      BY <2>2 DEF EntersLast
    <3>2. i \in DOMAIN f
      BY <3>1, <1>4, <1>5
    <3> QED
      BY <3>1, <3>2, <2>1, <1>3
  <2> QED
    BY <2>1, <2>2 DEF WillShow
<1> QED
  BY <1>6, <1>7 DEF h

\* The first event is handled: it does what it does, the rest as before.
LEMMA ShowTail ==
    ASSUME NEW f \in Seq(EventOK), f # <<>>, NEW U, NEW V, NEW c,
           c \in V <=> Enters(Head(f), c) \/ (c \in U /\ ~Leaves(Head(f), c))
    PROVE  WillShow(Tail(f), V, c) <=> WillShow(f, U, c)
<1> DEFINE t == Tail(f)
           e == Head(f)
           n == Len(f)
<1>1. /\ n \in Nat \ {0} /\ DOMAIN f = 1..n /\ DOMAIN t = 1..(n - 1)
      /\ \A i \in 1..(n - 1) : t[i] = f[i + 1]
      /\ f[1] = e /\ e \in EventOK
  OBVIOUS
<1> HIDE DEF t, e, n
<1>2. \A i \in DOMAIN t : i + 1 \in DOMAIN f /\ t[i] = f[i + 1]
  BY <1>1
<1>3. \A i \in DOMAIN f : i = 1 \/ (i - 1 \in DOMAIN t /\ f[i] = t[i - 1])
  BY <1>1
<1>3a. 1 \in DOMAIN f
  BY <1>1
<1>4. (\A j \in DOMAIN f : ~Leaves(f[j], c))
          <=> ~Leaves(e, c) /\ (\A j \in DOMAIN t : ~Leaves(t[j], c))
  BY <1>1, <1>2, <1>3, <1>3a
<1>5. (\A j \in DOMAIN f : j > 1 => ~Leaves(f[j], c))
          <=> \A j \in DOMAIN t : ~Leaves(t[j], c)
  <2>1. ASSUME \A j \in DOMAIN f : j > 1 => ~Leaves(f[j], c), NEW j \in DOMAIN t
        PROVE  ~Leaves(t[j], c)
    BY <1>1, <1>2, <2>1
  <2>2. ASSUME \A j \in DOMAIN t : ~Leaves(t[j], c), NEW j \in DOMAIN f, j > 1
        PROVE  ~Leaves(f[j], c)
    BY <1>1, <1>3, <2>2
  <2> QED
    BY <2>1, <2>2
<1>6. ASSUME EntersLast(t, c)
      PROVE  EntersLast(f, c)
  <2>1. PICK i \in DOMAIN t : Enters(t[i], c) /\ \A j \in DOMAIN t : j > i => ~Leaves(t[j], c)
    BY <1>6 DEF EntersLast
  <2>2. \A j \in DOMAIN f : j > i + 1 => ~Leaves(f[j], c)
    BY <1>1, <1>3, <2>1
  <2> QED
    BY <2>1, <2>2, <1>2 DEF EntersLast
<1>7. ASSUME EntersLast(f, c)
      PROVE  EntersLast(t, c) \/ (Enters(e, c) /\ \A j \in DOMAIN t : ~Leaves(t[j], c))
  <2>1. PICK i \in DOMAIN f : Enters(f[i], c) /\ \A j \in DOMAIN f : j > i => ~Leaves(f[j], c)
    BY <1>7 DEF EntersLast
  <2>2. CASE i = 1
    BY <1>1, <1>5, <2>1, <2>2
  <2>3. CASE i # 1
    <3>1. i - 1 \in DOMAIN t /\ Enters(t[i - 1], c)
      BY <1>3, <2>1, <2>3
    <3>2. \A j \in DOMAIN t : j > i - 1 => ~Leaves(t[j], c)
      BY <1>1, <1>2, <2>1
    <3> QED
      BY <3>1, <3>2 DEF EntersLast
  <2> QED
    BY <2>2, <2>3
<1>8. ASSUME Enters(e, c), \A j \in DOMAIN t : ~Leaves(t[j], c)
      PROVE  EntersLast(f, c)
  BY <1>1, <1>3a, <1>5, <1>8 DEF EntersLast
<1>9. c \in V <=> Enters(e, c) \/ (c \in U /\ ~Leaves(e, c))
  BY DEF e
<1>10. ~(Enters(e, c) /\ Leaves(e, c))
  BY <1>1, OneKind
<1> QED
  BY <1>4, <1>6, <1>7, <1>8, <1>9, <1>10 DEF WillShow, t

----------------------------------------------------------------------------
(* The inductive invariant *)

\* Nothing the client or the server knows is beyond the last message of a channel,
\* and a channel without an entry was read up to the day the account joined.
Bounds ==
    /\ \A c \in Channels : /\ mark[c] <= last[c] /\ hidden[c] <= last[c]
                           /\ lastMessage[c] <= last[c] /\ pings[c] \subseteq 1..last[c]
                           /\ c \notin entries => mark[c] = JoinedAt - 1
    /\ \A r \in posts : \A c \in DOMAIN r : r[c] <= last[c]

\* A READY is the first event of its session, and no message is announced that was
\* not posted.
FeedOK ==
    \A i \in DOMAIN feed :
        /\ feed[i].type = "create" => feed[i].id <= last[feed[i].ch]
        /\ feed[i].type = "ready" =>
              /\ i = 1
              /\ \A c \in Channels :
                    /\ lastMessage[c] <= feed[i].last[c] /\ feed[i].last[c] <= last[c]
                    /\ c \notin feed[i].entries => feed[i].mark[c] = JoinedAt - 1

\* When the events are handled the client knows of every unread channel that no
\* acknowledgement hides ...
WillNotMiss ==
    \A c \in Channels :
        ServerUnread(c) /\ last[c] > hidden[c] => WillShow(feed, DOMAIN unread, c)

\* ... and of no read one but those left over.
WillNotInvent ==
    \A c \in Channels :
        WillShow(feed, DOMAIN unread, c) => ServerUnread(c) \/ c \in leftover

IInv == TypeOK /\ Bounds /\ FeedOK /\ WillNotMiss /\ WillNotInvent

\* The mentions of a channel are finitely many.
LEMMA MentionsOK ==
    ASSUME last \in [Channels -> Nat], NEW c \in Channels, pings[c] \subseteq 1..last[c]
    PROVE  /\ IsFiniteSet({i \in pings[c] : i > mark[c]})
           /\ Mentions(c) \in Nat
           /\ mark[c] = last[c] => Mentions(c) = 0
<1>1. IsFiniteSet(1..last[c])
  BY FS_Interval
<1>2. {i \in pings[c] : i > mark[c]} \in SUBSET (1..last[c])
  OBVIOUS
<1>3. IsFiniteSet({i \in pings[c] : i > mark[c]})
  BY <1>1, <1>2, FS_Subset
<1>4. ASSUME mark[c] = last[c]
      PROVE  {i \in pings[c] : i > mark[c]} = {}
  BY <1>4
<1> QED
  BY <1>3, <1>4, FS_CardinalityType, FS_EmptySet DEF Mentions

\* READY's snapshot is an event: the mentions of a channel are finitely many.
LEMMA SnapshotOK ==
    ASSUME last \in [Channels -> Nat], mark \in [Channels -> Nat], entries \subseteq Channels,
           Bounds
    PROVE  Snapshot \in EventOK
<1>1. \A c \in Channels : Mentions(c) \in Nat
  BY MentionsOK DEF Bounds
<1>2. [c \in Channels |-> Mentions(c)] \in [Channels -> Nat]
  BY <1>1
<1> QED
  BY <1>2 DEF Snapshot, EventOK

\* A feed that holds nothing but a READY shows the channels it finds unread, and
\* those that have an entry.
LEMMA ShowSnapshot ==
    ASSUME NEW e, e.type = "ready", NEW U, NEW c
    PROVE  WillShow(<<e>>, U, c) <=> e.last[c] > e.mark[c] \/ c \in U
<1>1. DOMAIN <<e>> = {1} /\ <<e>>[1] = e
  OBVIOUS
<1> QED
  BY <1>1 DEF WillShow, EntersLast, Enters, Leaves

\* The snapshot is a feed that keeps its part of the invariant.
LEMMA SnapshotFeed ==
    ASSUME last \in [Channels -> Nat], mark \in [Channels -> Nat], entries \subseteq Channels,
           Bounds, feed = <<Snapshot>>
    PROVE  feed \in Seq(EventOK) /\ FeedOK
<1>1. DOMAIN feed = {1} /\ feed[1] = Snapshot
  OBVIOUS
<1>2. FeedOK
  BY <1>1 DEF FeedOK, Bounds, Snapshot
<1> QED
  BY <1>2, SnapshotOK

LEMMA InitIInv == Init => IInv
<1> SUFFICES ASSUME Init
             PROVE  IInv
  OBVIOUS
<1>1. /\ last \in [Channels -> Nat] /\ mark \in [Channels -> Nat] /\ entries = {}
      /\ pings \in [Channels -> SUBSET Nat] /\ hidden \in [Channels -> Nat]
      /\ lastMessage \in [Channels -> Nat]
      /\ \A c \in Channels : /\ last[c] = JoinedAt - 1 /\ mark[c] = JoinedAt - 1
                             /\ hidden[c] = 0 /\ lastMessage[c] = 0 /\ pings[c] = {}
  BY ReadStateAssumption DEF Init
<1>2. Bounds
  BY <1>1 DEF Init, Bounds
<1>3. feed \in Seq(EventOK) /\ FeedOK
  BY <1>1, <1>2, SnapshotFeed DEF Init
<1>4. TypeOK
  BY <1>1, <1>3 DEF Init, TypeOK
<1>5. ~ \E c \in Channels : WillShow(feed, DOMAIN unread, c) \/ ServerUnread(c)
  <2> SUFFICES ASSUME NEW c \in Channels
               PROVE  ~WillShow(feed, DOMAIN unread, c) /\ ~ServerUnread(c)
    OBVIOUS
  <2>1. feed = <<Snapshot>> /\ Snapshot.type = "ready" /\ DOMAIN unread = {}
    BY DEF Init, Snapshot
  <2>2. ~(Snapshot.last[c] > Snapshot.mark[c]) /\ ~ServerUnread(c)
    BY <1>1 DEF Snapshot, ServerUnread
  <2> QED
    BY <2>1, <2>2, ShowSnapshot
<1> QED
  BY <1>2, <1>3, <1>4, <1>5 DEF IInv, WillNotMiss, WillNotInvent

----------------------------------------------------------------------------
(* The server's steps *)

LEMMA StepPost ==
    ASSUME IInv, NEW d \in Channels, NEW k \in Kind, Post(d, k)
    PROVE  IInv'
<1> DEFINE e == Create(d, k)
<1>1. e \in EventOK /\ \A c : ~Leaves(e, c)
  BY DEF EventOK, Create, IInv, TypeOK, Leaves
<1>0. /\ last \in [Channels -> Nat] /\ mark \in [Channels -> Nat]
      /\ hidden \in [Channels -> Nat] /\ pings \in [Channels -> SUBSET Nat]
  BY DEF IInv, TypeOK
<1>2. \A c : Enters(e, c) <=> c = d /\ k # "own"
  BY DEF Create, Enters
<1>3. feed' = Append(feed, e) /\ UNCHANGED <<posts, lastMessage, unread>>
  BY DEF Post, client
<1>4. \A c : WillShow(feed', DOMAIN unread, c)
                <=> WillShow(feed, DOMAIN unread, c) \/ (c = d /\ k # "own")
  BY <1>1, <1>2, <1>3, ShowAppend DEF IInv, TypeOK
<1>5. /\ last' \in [Channels -> Nat] /\ last'[d] = last[d] + 1
      /\ \A c \in Channels \ {d} : last'[c] = last[c]
      /\ mark' \in [Channels -> Nat] /\ hidden' \in [Channels -> Nat]
      /\ pings' \in [Channels -> SUBSET Nat] /\ entries \subseteq entries'
      /\ entries' \subseteq entries \cup {d} /\ leftover \subseteq leftover'
      /\ leftover' \subseteq leftover \cup {d}
      /\ \A c \in Channels \ {d} :
            mark'[c] = mark[c] /\ hidden'[c] = hidden[c] /\ pings'[c] = pings[c]
  <2>1. last' = [last EXCEPT ![d] = @ + 1]
    BY DEF Post
  <2>2. mark' = mark \/ mark' = [mark EXCEPT ![d] = last[d] + 1]
    BY DEF Post
  <2>3. hidden' = hidden \/ hidden' = [hidden EXCEPT ![d] = @ + 1]
    BY DEF Post
  <2>4. pings' = pings \/ pings' = [pings EXCEPT ![d] = @ \cup {last[d] + 1}]
    BY DEF Post
  <2>5. entries' \in {entries, entries \cup {d}} /\ leftover' \in {leftover, leftover \cup {d}}
    BY DEF Post
  <2>6. last[d] + 1 \in Nat
    BY <1>0
  <2> QED
    BY <1>0, <2>1, <2>2, <2>3, <2>4, <2>5, <2>6
<1>5a. \A c \in Channels : last[c] \in Nat /\ last'[c] \in Nat /\ last[c] <= last'[c]
  BY <1>0, <1>5
<1>6. /\ mark'[d] = mark[d] \/ (mark'[d] = last'[d] /\ d \in entries')
      /\ hidden'[d] = hidden[d] \/ (hidden'[d] = last'[d])
      /\ pings'[d] \subseteq pings[d] \cup {last'[d]}
  BY <1>5 DEF Post, IInv, TypeOK
<1> DEFINE n == Len(feed)
<1>7. /\ n \in Nat /\ DOMAIN feed = 1..n /\ DOMAIN feed' = 1..(n + 1)
      /\ \A i \in 1..n : feed'[i] = feed[i] /\ feed[i] \in EventOK
      /\ feed'[n + 1] = e
  BY <1>1, <1>3 DEF IInv, TypeOK
<1>8. TypeOK'
  <2>1. feed' \in Seq(EventOK)
    BY <1>1, <1>3 DEF IInv, TypeOK
  <2>2. messages' \in Nat /\ marks' = marks /\ faults' = faults
    BY DEF Post, IInv, TypeOK
  <2> QED
    BY <1>3, <1>5, <2>1, <2>2 DEF IInv, TypeOK
<1>9. Bounds'
  <2>1. ASSUME NEW c \in Channels
        PROVE  /\ mark'[c] <= last'[c] /\ hidden'[c] <= last'[c]
               /\ lastMessage'[c] <= last'[c] /\ pings'[c] \subseteq 1..last'[c]
               /\ c \notin entries' => mark'[c] = JoinedAt - 1
    <3>1. /\ mark[c] <= last[c] /\ hidden[c] <= last[c]
          /\ lastMessage[c] <= last[c] /\ pings[c] \subseteq 1..last[c]
          /\ c \notin entries => mark[c] = JoinedAt - 1
          /\ last[c] \in Nat /\ mark[c] \in Nat /\ hidden[c] \in Nat /\ lastMessage[c] \in Nat
      BY DEF IInv, Bounds, TypeOK
    <3>2. CASE c = d
      BY <1>3, <1>5, <1>6, <3>1, <3>2
    <3>3. CASE c # d
      BY <1>3, <1>5, <3>1, <3>3
    <3> QED
      BY <3>2, <3>3
  <2>2. \A r \in posts' : \A c \in DOMAIN r : r[c] <= last'[c]
    <3> SUFFICES ASSUME NEW r \in posts, NEW c \in DOMAIN r
                 PROVE  r[c] <= last'[c]
      BY <1>3
    <3>1. c \in Channels /\ r[c] \in Nat /\ r[c] <= last[c] /\ last[c] \in Nat
      BY DEF IInv, TypeOK, IsAcks, Bounds
    <3> QED
      BY <1>5, <3>1
  <2> QED
    BY <2>1, <2>2 DEF Bounds
<1>10. FeedOK'
  <2> SUFFICES ASSUME NEW i \in DOMAIN feed'
               PROVE  /\ feed'[i].type = "create" => feed'[i].id <= last'[feed'[i].ch]
                      /\ feed'[i].type = "ready" =>
                           /\ i = 1
                           /\ \A c \in Channels :
                                 /\ lastMessage'[c] <= feed'[i].last[c]
                                 /\ feed'[i].last[c] <= last'[c]
                                 /\ c \notin feed'[i].entries => feed'[i].mark[c] = JoinedAt - 1
    BY DEF FeedOK
  <2>1. CASE i = n + 1
    BY <1>5, <1>7, <2>1 DEF Create, IInv, TypeOK
  <2>2. CASE i \in 1..n
    <3>1. feed'[i] = feed[i] /\ feed[i] \in EventOK
      BY <1>7, <2>2
    <3>2. /\ feed[i].type = "create" => feed[i].id <= last[feed[i].ch]
          /\ feed[i].type = "ready" =>
                 /\ i = 1
                 /\ \A c \in Channels :
                       /\ lastMessage[c] <= feed[i].last[c]
                       /\ feed[i].last[c] <= last[c]
                       /\ c \notin feed[i].entries => feed[i].mark[c] = JoinedAt - 1
      BY <1>7, <2>2 DEF IInv, FeedOK
    <3>3. CASE feed[i].type = "create"
      <4>1. feed[i].ch \in Channels /\ feed[i].id \in Nat
        BY <3>1, <3>3 DEF EventOK
      <4> QED
        BY <1>5a, <3>1, <3>2, <3>3, <4>1
    <3>4. CASE feed[i].type = "ready"
      <4>1. feed[i].last \in [Channels -> Nat]
        BY <3>1, <3>4 DEF EventOK
      <4>2. \A c \in Channels : feed[i].last[c] <= last'[c]
        BY <1>5a, <3>2, <3>4, <4>1
      <4> QED
        BY <1>3, <3>1, <3>2, <3>4, <4>2
    <3> QED
      BY <3>1, <3>3, <3>4
  <2> QED
    BY <1>7, <2>1, <2>2
<1>11. WillNotMiss' /\ WillNotInvent'
  <2> SUFFICES ASSUME NEW c \in Channels
               PROVE  /\ last'[c] > mark'[c] /\ last'[c] > hidden'[c]
                             => WillShow(feed', DOMAIN unread, c)
                      /\ WillShow(feed', DOMAIN unread, c)
                             => last'[c] > mark'[c] \/ c \in leftover'
    BY <1>3 DEF WillNotMiss, WillNotInvent, ServerUnread
  <2>1. /\ last[c] > mark[c] /\ last[c] > hidden[c] => WillShow(feed, DOMAIN unread, c)
        /\ WillShow(feed, DOMAIN unread, c) => last[c] > mark[c] \/ c \in leftover
        /\ mark[c] <= last[c] /\ hidden[c] <= last[c]
        /\ last[c] \in Nat /\ mark[c] \in Nat /\ hidden[c] \in Nat
    BY DEF IInv, WillNotMiss, WillNotInvent, ServerUnread, Bounds, TypeOK
  <2>2. CASE c # d
    BY <1>4, <1>5, <2>1, <2>2
  <2>3. CASE c = d /\ k \in {"other", "ping"}
    <3>1. mark' = mark
      BY <2>3 DEF Post
    <3> QED
      BY <1>4, <1>5, <2>1, <2>3, <3>1
  <2>4. CASE c = d /\ k \in {"own", "ownPing"} /\ last[d] > mark[d]
    <3>1. mark' = mark /\ hidden'[d] = IF hidden[d] = last[d] THEN hidden[d] + 1 ELSE hidden[d]
      BY <2>4 DEF Post, ServerUnread, IInv, TypeOK
    <3> QED
      BY <1>4, <1>5, <2>1, <2>4, <3>1
  <2>5. CASE c = d /\ k \in {"own", "ownPing"} /\ ~(last[d] > mark[d])
    <3>1. mark'[d] = last[d] + 1 /\ (k = "ownPing" => d \in leftover')
      BY <2>5 DEF Post, ServerUnread, IInv, TypeOK
    <3> QED
      BY <1>4, <1>5, <2>1, <2>5, <3>1
  <2> QED
    BY <2>2, <2>3, <2>4, <2>5 DEF Kind
<1> QED
  BY <1>8, <1>9, <1>10, <1>11 DEF IInv

\* Acknowledgements of messages that were posted.
LEMMA StepAcknowledge ==
    ASSUME IInv, NEW acks, IsAcks(acks), \A c \in DOMAIN acks : acks[c] <= last[c],
           Acknowledge(acks), posts' \subseteq posts, marks' \in Nat, faults' \in Nat
    PROVE  IInv'
<1>1. DOMAIN acks \subseteq Channels /\ acks \in [DOMAIN acks -> Nat]
  BY DEF IsAcks
<1>2. PICK s \in [1..Cardinality(DOMAIN acks) -> DOMAIN acks] :
         /\ \A c \in DOMAIN acks : \E i \in DOMAIN s : s[i] = c
         /\ feed' = feed \o [i \in DOMAIN s |-> Ack(s[i], acks[s[i]])]
  BY DEF Acknowledge
<1> DEFINE g == [i \in DOMAIN s |-> Ack(s[i], acks[s[i]])]
           n == Len(feed)
<1>3. Cardinality(DOMAIN acks) \in Nat
  <2>1. IsFiniteSet(DOMAIN acks)
    BY <1>1, FS_Subset, ReadStateAssumption
  <2> QED
    BY <2>1, FS_CardinalityType
<1>4. \A i \in DOMAIN g : /\ g[i] \in EventOK /\ g[i].type = "ack" /\ g[i].ch = s[i]
                          /\ s[i] \in DOMAIN acks
  BY <1>1, <1>2 DEF Ack, EventOK
<1>5. g \in Seq(EventOK) /\ DOMAIN g = DOMAIN s /\ feed \in Seq(EventOK) /\ feed' = feed \o g
  <2>1. DOMAIN g = 1..Cardinality(DOMAIN acks) /\ DOMAIN g = DOMAIN s
    OBVIOUS
  <2>2. g \in [1..Cardinality(DOMAIN acks) -> EventOK]
    BY <1>4, <2>1
  <2> HIDE DEF g
  <2>3. g \in Seq(EventOK)
    BY <1>3, <2>2
  <2> QED
    BY <1>2, <2>1, <2>3 DEF IInv, TypeOK, g
<1> HIDE DEF g
<1>6. /\ last' = last /\ pings' = pings /\ lastMessage' = lastMessage /\ unread' = unread
      /\ messages' = messages /\ entries' = entries \cup DOMAIN acks
      /\ leftover' = leftover \ DOMAIN acks
      /\ mark' = [c \in Channels |->
                    IF c \in DOMAIN acks /\ acks[c] > mark[c] THEN acks[c] ELSE mark[c]]
      /\ hidden' = [c \in Channels |->
                      IF c \in DOMAIN acks THEN IF acks[c] < last[c] THEN last[c] ELSE 0
                      ELSE hidden[c]]
  BY DEF Acknowledge, client
<1>7. ASSUME NEW c \in Channels
      PROVE  /\ last[c] \in Nat /\ mark[c] \in Nat /\ hidden[c] \in Nat
             /\ lastMessage[c] \in Nat
             /\ c \in DOMAIN acks => acks[c] \in Nat /\ acks[c] <= last[c]
             /\ mark[c] <= last[c] /\ hidden[c] <= last[c] /\ lastMessage[c] <= last[c]
             /\ pings[c] \subseteq 1..last[c]
             /\ c \notin entries => mark[c] = JoinedAt - 1
  BY <1>1 DEF IInv, TypeOK, Bounds
<1>8. mark' \in [Channels -> Nat] /\ hidden' \in [Channels -> Nat]
  BY <1>6, <1>7
<1>9. TypeOK'
  <2>1. feed' \in Seq(EventOK)
    BY <1>5, ConcatProperties
  <2>2. /\ last' \in [Channels -> Nat] /\ entries' \subseteq Channels
        /\ pings' \in [Channels -> SUBSET Nat] /\ (\A r \in posts' : IsAcks(r))
        /\ lastMessage' \in [Channels -> Nat]
        /\ DOMAIN unread' \subseteq Channels /\ unread' \in [DOMAIN unread' -> Nat]
        /\ leftover' \subseteq Channels /\ messages' \in Nat
    BY <1>1, <1>6 DEF IInv, TypeOK
  <2> QED
    BY <1>8, <2>1, <2>2 DEF TypeOK
<1>10. Bounds'
  <2>1. ASSUME NEW c \in Channels
        PROVE  /\ mark'[c] <= last'[c] /\ hidden'[c] <= last'[c]
               /\ lastMessage'[c] <= last'[c] /\ pings'[c] \subseteq 1..last'[c]
               /\ c \notin entries' => mark'[c] = JoinedAt - 1
    BY <1>6, <1>7
  <2>2. \A r \in posts' : \A c \in DOMAIN r : r[c] <= last'[c]
    BY <1>6 DEF IInv, Bounds
  <2> QED
    BY <2>1, <2>2 DEF Bounds
<1>11. FeedOK'
  <2> SUFFICES ASSUME NEW i \in DOMAIN feed'
               PROVE  /\ feed'[i].type = "create" => feed'[i].id <= last[feed'[i].ch]
                      /\ feed'[i].type = "ready" =>
                           /\ i = 1
                           /\ \A c \in Channels :
                                 /\ lastMessage[c] <= feed'[i].last[c]
                                 /\ feed'[i].last[c] <= last[c]
                                 /\ c \notin feed'[i].entries => feed'[i].mark[c] = JoinedAt - 1
    BY <1>6 DEF FeedOK
  <2>1. /\ n \in Nat /\ DOMAIN feed = 1..n
        /\ i \in DOMAIN feed \/ i - n \in DOMAIN g
        /\ i \in DOMAIN feed => feed'[i] = feed[i]
        /\ i \notin DOMAIN feed => feed'[i] = g[i - n]
    <3>1. /\ n \in Nat /\ DOMAIN feed = 1..n /\ Len(g) \in Nat /\ DOMAIN g = 1..Len(g)
          /\ DOMAIN feed' = 1..(n + Len(g))
          /\ \A j \in 1..(n + Len(g)) : feed'[j] = IF j <= n THEN feed[j] ELSE g[j - n]
      BY <1>5, ConcatProperties, LenProperties
    <3> QED
      BY <3>1
  <2>2. CASE i \in DOMAIN feed
    BY <2>1, <2>2 DEF IInv, FeedOK
  <2>3. CASE i \notin DOMAIN feed
    BY <1>4, <2>1, <2>3
  <2> QED
    BY <2>2, <2>3
<1>12. WillNotMiss' /\ WillNotInvent'
  <2> SUFFICES ASSUME NEW c \in Channels
               PROVE  /\ last[c] > mark'[c] /\ last[c] > hidden'[c]
                             => WillShow(feed', DOMAIN unread, c)
                      /\ WillShow(feed', DOMAIN unread, c)
                             => last[c] > mark'[c] \/ c \in leftover'
    BY <1>6 DEF WillNotMiss, WillNotInvent, ServerUnread
  <2>1. /\ last[c] > mark[c] /\ last[c] > hidden[c] => WillShow(feed, DOMAIN unread, c)
        /\ WillShow(feed, DOMAIN unread, c) => last[c] > mark[c] \/ c \in leftover
    BY DEF IInv, WillNotMiss, WillNotInvent, ServerUnread
  <2>2. CASE c \in DOMAIN acks
    <3>1. \E i \in DOMAIN g : Leaves(g[i], c)
      BY <1>2, <1>4, <1>5, <2>2 DEF Leaves
    <3>2. ~WillShow(feed', DOMAIN unread, c)
      BY <1>4, <1>5, <3>1, ShowAcks
    <3>3. ~(last[c] > mark'[c] /\ last[c] > hidden'[c])
      BY <1>6, <1>7, <2>2
    <3> QED
      BY <3>2, <3>3
  <2>3. CASE c \notin DOMAIN acks
    <3>1. \A i \in DOMAIN g : ~Leaves(g[i], c)
      BY <1>4, <2>3 DEF Leaves
    <3>2. WillShow(feed', DOMAIN unread, c) <=> WillShow(feed, DOMAIN unread, c)
      BY <1>4, <1>5, <3>1, ShowAcks
    <3>3. mark'[c] = mark[c] /\ hidden'[c] = hidden[c] /\ (c \in leftover' <=> c \in leftover)
      BY <1>6, <2>3
    <3> QED
      BY <2>1, <3>2, <3>3
  <2> QED
    BY <2>2, <2>3
<1> QED
  BY <1>9, <1>10, <1>11, <1>12 DEF IInv

LEMMA StepPostArrives ==
    ASSUME IInv, PostArrives
    PROVE  IInv'
<1>1. PICK r \in posts : posts' = posts \ {r} /\ Acknowledge(r) /\ UNCHANGED <<marks, faults>>
  BY DEF PostArrives
<1>2. IsAcks(r) /\ (\A c \in DOMAIN r : r[c] <= last[c]) /\ marks \in Nat /\ faults \in Nat
  BY DEF IInv, TypeOK, Bounds
<1> QED
  BY <1>1, <1>2, StepAcknowledge

LEMMA StepReadElsewhere ==
    ASSUME IInv, NEW d \in Channels, ReadElsewhere(d)
    PROVE  IInv'
<1>1. PICK i \in (mark[d] + 1)..last[d] : Acknowledge([x \in {d} |-> i])
  BY DEF ReadElsewhere
<1>2. i \in Nat /\ i <= last[d]
  BY DEF IInv, TypeOK
<1>3. IsAcks([x \in {d} |-> i]) /\ \A c \in DOMAIN [x \in {d} |-> i] : [x \in {d} |-> i][c] <= last[c]
  BY <1>2 DEF IsAcks
<1>4. marks' \in Nat /\ faults' \in Nat /\ posts' = posts
  BY DEF ReadElsewhere, IInv, TypeOK
<1> QED
  BY <1>1, <1>3, <1>4, StepAcknowledge

\* The rest of the invariant says nothing of the requests on their way, and a
\* request that fails or is made asks for nothing that was not posted.
LEMMA StepPosts ==
    ASSUME IInv, UNCHANGED <<server, feed, client, hidden, leftover, messages>>,
           marks' \in Nat, faults' \in Nat,
           \A r \in posts' : r \in posts \/ (IsAcks(r) /\ \A c \in DOMAIN r : r[c] <= last[c])
    PROVE  IInv'
<1> USE DEF server, client
<1>1. TypeOK'
  BY DEF IInv, TypeOK
<1>2. Bounds'
  BY DEF IInv, Bounds
<1>3. FeedOK'
  BY DEF IInv, FeedOK
<1>4. WillNotMiss' /\ WillNotInvent'
  BY DEF IInv, WillNotMiss, WillNotInvent, ServerUnread
<1> QED
  BY <1>1, <1>2, <1>3, <1>4 DEF IInv

LEMMA StepNewSession ==
    ASSUME IInv, NewSession
    PROVE  IInv'
<1>1. /\ UNCHANGED <<last, mark, entries, pings, posts, lastMessage, unread, messages, marks>>
      /\ feed' = <<Snapshot>> /\ hidden' = [c \in Channels |-> 0]
      /\ leftover' = {c \in DOMAIN unread : ~ServerUnread(c)} /\ faults' \in Nat
  BY DEF NewSession, server, client, IInv, TypeOK
<1>2. hidden' \in [Channels -> Nat] /\ \A c \in Channels : hidden'[c] <= last[c]
  BY <1>1 DEF IInv, TypeOK
<1>3. Bounds'
  BY <1>1, <1>2 DEF IInv, Bounds
<1>4. Snapshot \in EventOK
  BY SnapshotOK DEF IInv, TypeOK
<1>5. FeedOK'
  <2>1. DOMAIN feed' = {1} /\ feed'[1] = Snapshot
    BY <1>1
  <2>2. \A c \in Channels : Snapshot.last[c] <= last[c]
    BY DEF Snapshot, IInv, TypeOK
  <2> QED
    BY <1>1, <2>1, <2>2 DEF FeedOK, Snapshot, IInv, Bounds
<1>6. TypeOK'
  <2>1. feed' \in Seq(EventOK)
    BY <1>1, <1>4
  <2>2. leftover' \subseteq Channels
    BY <1>1 DEF IInv, TypeOK
  <2> QED
    BY <1>1, <1>2, <2>1, <2>2 DEF IInv, TypeOK
<1>7. ASSUME NEW c \in Channels
      PROVE  WillShow(feed', DOMAIN unread, c) <=> ServerUnread(c) \/ c \in DOMAIN unread
  <2>1. Snapshot.type = "ready" /\ Snapshot.last[c] = last[c] /\ Snapshot.mark[c] = mark[c]
    BY DEF Snapshot
  <2> QED
    BY <1>1, <2>1, ShowSnapshot DEF ServerUnread
<1> QED
  BY <1>1, <1>3, <1>5, <1>6, <1>7 DEF IInv, WillNotMiss, WillNotInvent, ServerUnread

----------------------------------------------------------------------------
(* The client's steps *)

\* An event is handled, and m_unread changes as the event says.
LEMMA StepEvent ==
    ASSUME IInv, NEW type, Event(type), lastMessage' \in [Channels -> Nat],
           \A c \in Channels : lastMessage'[c] <= last[c],
           DOMAIN unread' \subseteq Channels, unread' \in [DOMAIN unread' -> Nat],
           \A c \in Channels :
               c \in DOMAIN unread'
                   <=> Enters(Head(feed), c) \/ (c \in DOMAIN unread /\ ~Leaves(Head(feed), c))
    PROVE  IInv'
<1>1. /\ feed # <<>> /\ feed' = Tail(feed)
      /\ UNCHANGED <<last, mark, entries, pings, posts, hidden, leftover, messages, marks, faults>>
  BY DEF Event, server, ghosts
<1>2. /\ feed \in Seq(EventOK) /\ feed' \in Seq(EventOK)
      /\ \A i \in DOMAIN feed' : i \in Nat \ {0} /\ i + 1 \in DOMAIN feed /\ feed'[i] = feed[i + 1]
  BY <1>1 DEF IInv, TypeOK
<1>3. TypeOK'
  BY <1>1, <1>2 DEF IInv, TypeOK
<1>4. Bounds'
  BY <1>1 DEF IInv, Bounds
<1>5. FeedOK'
  <2>1. ASSUME NEW i \in DOMAIN feed'
        PROVE  /\ feed'[i].type # "ready"
               /\ feed'[i].type = "create" => feed'[i].id <= last[feed'[i].ch]
    BY <1>2 DEF IInv, FeedOK
  <2> QED
    BY <1>1, <2>1 DEF FeedOK
<1>6. \A c \in Channels : WillShow(feed', DOMAIN unread', c) <=> WillShow(feed, DOMAIN unread, c)
  BY <1>1, <1>2, ShowTail
<1>7. WillNotMiss' /\ WillNotInvent'
  BY <1>1, <1>6 DEF IInv, WillNotMiss, WillNotInvent, ServerUnread
<1> QED
  BY <1>3, <1>4, <1>5, <1>7 DEF IInv

\* The event at the front, as the invariant knows it.
LEMMA Front ==
    ASSUME IInv, feed # <<>>
    PROVE  LET e == Head(feed) IN
           /\ e \in EventOK
           /\ e.type = "create" => e.id <= last[e.ch]
           /\ e.type = "ready" => \A c \in Channels :
                 /\ lastMessage[c] <= e.last[c] /\ e.last[c] <= last[c]
                 /\ c \notin e.entries => e.mark[c] = JoinedAt - 1
<1>1. 1 \in DOMAIN feed /\ feed[1] = Head(feed) /\ Head(feed) \in EventOK
  BY DEF IInv, TypeOK
<1> QED
  BY <1>1 DEF IInv, FeedOK

LEMMA StepCreate ==
    ASSUME IInv, HandleGatewayMessageCreate
    PROVE  IInv'
<1> DEFINE e == Head(feed)
<1>1. Event("create") /\ feed # <<>> /\ e.type = "create"
  BY DEF HandleGatewayMessageCreate, Event
<1>2. e.ch \in Channels /\ e.id \in Nat /\ e.kind \in Kind /\ e.id <= last[e.ch]
  BY <1>1, Front DEF EventOK
<1>3. /\ lastMessage' = [lastMessage EXCEPT ![e.ch] = e.id]
      /\ unread' = Created(unread, e.ch, e.kind)
  BY DEF HandleGatewayMessageCreate
<1>4. /\ lastMessage' \in [Channels -> Nat] /\ \A c \in Channels : lastMessage'[c] <= last[c]
  BY <1>2, <1>3 DEF IInv, TypeOK, Bounds
<1>5. ASSUME NEW k \in Nat
      PROVE  /\ DOMAIN Unread(unread, e.ch, k) = DOMAIN unread \cup {e.ch}
             /\ Unread(unread, e.ch, k) \in [DOMAIN unread \cup {e.ch} -> Nat]
  BY DEF Unread, IInv, TypeOK
<1>6. CountOf(unread, e.ch) \in Nat /\ CountOf(unread, e.ch) + 1 \in Nat
  BY DEF CountOf, IInv, TypeOK
<1>7. /\ DOMAIN unread' = IF e.kind = "own" THEN DOMAIN unread ELSE DOMAIN unread \cup {e.ch}
      /\ unread' \in [DOMAIN unread' -> Nat]
  <2>1. CASE e.kind \in {"ping", "ownPing"}
    BY <1>3, <1>5, <1>6, <2>1 DEF Created
  <2>2. CASE e.kind = "other"
    BY <1>3, <1>5, <1>6, <2>2 DEF Created
  <2>3. CASE e.kind = "own"
    BY <1>3, <2>3 DEF Created, IInv, TypeOK
  <2> QED
    BY <1>2, <2>1, <2>2, <2>3 DEF Kind
<1>8. \A c : (Enters(e, c) <=> c = e.ch /\ e.kind # "own") /\ ~Leaves(e, c)
  BY <1>1 DEF Enters, Leaves
<1>9. DOMAIN unread' \subseteq Channels
  BY <1>2, <1>7 DEF IInv, TypeOK
<1> QED
  BY <1>1, <1>4, <1>7, <1>8, <1>9, StepEvent

LEMMA StepAck ==
    ASSUME IInv, HandleGatewayMessageAck
    PROVE  IInv'
<1> DEFINE e == Head(feed)
<1>1. Event("ack") /\ feed # <<>> /\ e.type = "ack"
  BY DEF HandleGatewayMessageAck, Event
<1>2. /\ lastMessage' = lastMessage
      /\ unread' = [c \in DOMAIN unread \ {e.ch} |-> unread[c]]
  BY DEF HandleGatewayMessageAck
<1>3. /\ lastMessage' \in [Channels -> Nat] /\ \A c \in Channels : lastMessage'[c] <= last[c]
  BY <1>2 DEF IInv, TypeOK, Bounds
<1>4. /\ DOMAIN unread' = DOMAIN unread \ {e.ch} /\ unread' \in [DOMAIN unread' -> Nat]
      /\ DOMAIN unread' \subseteq Channels
  BY <1>2 DEF IInv, TypeOK
<1>5. \A c : ~Enters(e, c) /\ (Leaves(e, c) <=> c = e.ch)
  BY <1>1 DEF Enters, Leaves
<1> QED
  BY <1>1, <1>3, <1>4, <1>5, StepEvent

\* What READY finds unread is what the server had unread when it sent READY: a
\* channel without an entry was read up to the day the account joined.
LEMMA ReadyFinds ==
    ASSUME IInv, HandleReadyReadState
    PROVE  \A c \in Channels : c \in UnreadAtReady(Head(feed), lastMessage')
                                <=> Head(feed).last[c] > Head(feed).mark[c]
<1> DEFINE e == Head(feed)
<1>1. feed # <<>> /\ e.type = "ready"
  BY DEF HandleReadyReadState, Event
<1>2. e.last \in [Channels -> Nat] /\ e.mark \in [Channels -> Nat] /\ e.entries \subseteq Channels
  BY <1>1, Front DEF EventOK
<1>3. ASSUME NEW c \in Channels
      PROVE  /\ lastMessage[c] <= e.last[c] /\ lastMessage[c] \in Nat
             /\ c \notin e.entries => e.mark[c] = JoinedAt - 1
  BY <1>1, Front DEF IInv, TypeOK
<1>4. lastMessage' = [c \in Channels |-> IF e.last[c] # 0 THEN e.last[c] ELSE lastMessage[c]]
  BY DEF HandleReadyReadState
<1>5. \A c \in Channels : lastMessage'[c] = e.last[c]
  BY <1>2, <1>3, <1>4
<1> QED
  BY <1>2, <1>3, <1>5, ReadStateAssumption DEF UnreadAtReady

LEMMA StepReady ==
    ASSUME IInv, HandleReadyReadState
    PROVE  IInv'
<1> DEFINE e == Head(feed)
           new == UnreadAtReady(e, lastMessage')
<1>1. Event("ready") /\ feed # <<>> /\ e.type = "ready"
  BY DEF HandleReadyReadState, Event
<1>2. /\ e.last \in [Channels -> Nat] /\ e.mark \in [Channels -> Nat]
      /\ e.entries \subseteq Channels /\ e.count \in [Channels -> Nat]
  BY <1>1, Front DEF EventOK
<1>3. ASSUME NEW c \in Channels
      PROVE  /\ lastMessage[c] <= e.last[c] /\ e.last[c] <= last[c]
             /\ lastMessage[c] \in Nat /\ last[c] \in Nat
             /\ c \notin e.entries => e.mark[c] = JoinedAt - 1
  BY <1>1, Front DEF IInv, TypeOK
<1>4. /\ lastMessage' = [c \in Channels |-> IF e.last[c] # 0 THEN e.last[c] ELSE lastMessage[c]]
      /\ unread' = [c \in DOMAIN unread \cup new |->
                      IF c \notin new THEN unread[c]
                      ELSE IF c \in e.entries THEN e.count[c] ELSE 0]
  BY DEF HandleReadyReadState
<1>5. \A c \in Channels : lastMessage'[c] = e.last[c]
  BY <1>2, <1>3, <1>4
<1>6. lastMessage' \in [Channels -> Nat] /\ \A c \in Channels : lastMessage'[c] <= last[c]
  BY <1>2, <1>3, <1>4, <1>5
<1>7. new \subseteq Channels
  BY <1>2 DEF UnreadAtReady
<1>8. \A c \in Channels : c \in new <=> e.last[c] > e.mark[c]
  BY ReadyFinds
<1>9. \A c \in Channels : (Enters(e, c) <=> c \in new) /\ ~Leaves(e, c)
  BY <1>1, <1>8 DEF Enters, Leaves
<1> HIDE DEF new
<1>10. /\ DOMAIN unread' = DOMAIN unread \cup new /\ DOMAIN unread' \subseteq Channels
       /\ unread' \in [DOMAIN unread' -> Nat]
  BY <1>2, <1>4, <1>7 DEF IInv, TypeOK
<1> QED
  BY <1>1, <1>6, <1>9, <1>10, StepEvent

----------------------------------------------------------------------------
(* The user's steps, and the theorems *)

\* The user asks for an acknowledgement of messages the client has seen.
LEMMA StepAsk ==
    ASSUME IInv, NEW acks, AskToAck(acks), DOMAIN acks \subseteq Channels,
           \A c \in DOMAIN acks : acks[c] = lastMessage[c], acks = [c \in DOMAIN acks |-> acks[c]]
    PROVE  IInv'
<1>1. IsAcks(acks) /\ \A c \in DOMAIN acks : acks[c] <= last[c]
  BY DEF IsAcks, IInv, TypeOK, Bounds
<1>2. /\ UNCHANGED <<server, feed, client, hidden, leftover, messages>>
      /\ marks' \in Nat /\ faults' \in Nat /\ posts' = posts \cup {acks}
  BY DEF AskToAck, IInv, TypeOK
<1> QED
  BY <1>1, <1>2, StepPosts

LEMMA StepIInv == IInv /\ [Next]_vars => IInv'
<1> SUFFICES ASSUME IInv, [Next]_vars
             PROVE  IInv'
  OBVIOUS
<1>1. ASSUME NEW c \in Channels, NEW k \in Kind, Post(c, k)
      PROVE  IInv'
  BY <1>1, StepPost
<1>2. ASSUME NEW c \in Channels, ReadElsewhere(c)
      PROVE  IInv'
  BY <1>2, StepReadElsewhere
<1>3. CASE PostArrives
  BY <1>3, StepPostArrives
<1>4. CASE PostFails
  <2>1. /\ UNCHANGED <<server, feed, client, hidden, leftover, messages>>
        /\ marks' \in Nat /\ faults' \in Nat /\ posts' \subseteq posts
    BY <1>4 DEF PostFails, IInv, TypeOK
  <2> QED
    BY <2>1, StepPosts
<1>5. CASE NewSession
  BY <1>5, StepNewSession
<1>6. CASE HandleGatewayMessageCreate
  BY <1>6, StepCreate
<1>7. CASE HandleGatewayMessageAck
  BY <1>7, StepAck
<1>8. CASE HandleReadyReadState
  BY <1>8, StepReady
<1>9. CASE MarkGuildAsRead
  <2> DEFINE known == {c \in DOMAIN unread : lastMessage[c] # 0}
  <2>1. known \subseteq Channels /\ AskToAck([c \in known |-> lastMessage[c]])
    BY <1>9 DEF MarkGuildAsRead, IInv, TypeOK
  <2> HIDE DEF known
  <2> QED
    BY <2>1, StepAsk
<1>10. ASSUME NEW c \in Channels, MarkChannelAsRead(c)
       PROVE  IInv'
  BY <1>10, StepAsk DEF MarkChannelAsRead
<1>11. CASE UNCHANGED vars
  <2>1. UNCHANGED <<server, feed, client, hidden, leftover, messages, posts, marks, faults>>
    BY <1>11 DEF vars, ghosts
  <2>2. marks' \in Nat /\ faults' \in Nat
    BY <2>1 DEF IInv, TypeOK
  <2> QED
    BY <2>1, <2>2, StepPosts
<1> QED
  BY <1>1, <1>2, <1>3, <1>4, <1>5, <1>6, <1>7, <1>8, <1>9, <1>10, <1>11
     DEF Next, Server, Client, User

LEMMA Invariance == Spec => []IInv
BY InitIInv, StepIInv, PTL DEF Spec

\* Every variable keeps its type.
THEOREM TypeCorrect == Spec => []TypeOK
BY Invariance, PTL DEF IInv

\* When the events are handled, what they will show is what m_unread shows.
LEMMA Shown ==
    ASSUME feed = <<>>, NEW c
    PROVE  WillShow(feed, DOMAIN unread, c) <=> c \in DOMAIN unread
BY DEF WillShow, EntersLast

\* No channel with messages to read is missed, except behind an acknowledgement of an
\* older message, for any channels, messages, acknowledgements and lost sessions.
THEOREM NeverMisses == Spec => []NoneMissed
<1>1. IInv => NoneMissed
  BY Shown DEF IInv, WillNotMiss, NoneMissed
<1> QED
  BY <1>1, Invariance, PTL

\* No channel is shown unread that is not, except those left over.
THEOREM NeverInvents == Spec => []NoneInvented
<1>1. IInv => NoneInvented
  BY Shown DEF IInv, WillNotInvent, NoneInvented, TypeOK
<1> QED
  BY <1>1, Invariance, PTL

----------------------------------------------------------------------------
(* The badge: what the events on their way will make of a count *)

\* The count of c after an event, when it was n before; no entry counts 0.
CountAfter(e, c, n) ==
    IF e.type = "create" /\ e.ch = c /\ e.kind \in {"ping", "ownPing"} THEN n + 1
    ELSE IF Leaves(e, c) THEN 0
    ELSE IF e.type = "ready" /\ e.last[c] > e.mark[c]
         THEN IF c \in e.entries THEN e.count[c] ELSE 0
    ELSE n

\* The count of c is m, and is n when the events of f are handled.
WillCount(f, c, m, n) ==
    \E h \in [0..Len(f) -> Nat] :
        /\ h[0] = m /\ h[Len(f)] = n
        /\ \A i \in 1..Len(f) : h[i] = CountAfter(f[i], c, h[i - 1])

\* It will be no less than the server's, unless an acknowledgement hides some of it.
Counted ==
    \A c \in Channels :
        /\ c \notin entries => pings[c] = {}
        /\ \E n \in Nat : /\ WillCount(feed, c, CountOf(unread, c), n)
                          /\ hidden[c] = 0 => n >= Mentions(c)

LEMMA CountAfterNat ==
    ASSUME NEW e \in EventOK, NEW c \in Channels, NEW n \in Nat
    PROVE  CountAfter(e, c, n) \in Nat
<1>1. e.type = "ready" => e.count[c] \in Nat
  BY DEF EventOK
<1> QED
  BY <1>1 DEF CountAfter

\* An event that is put behind the others.
LEMMA CountAppend ==
    ASSUME NEW f \in Seq(EventOK), NEW e \in EventOK, NEW c \in Channels, NEW m, NEW n \in Nat,
           WillCount(f, c, m, n)
    PROVE  WillCount(Append(f, e), c, m, CountAfter(e, c, n))
<1> DEFINE g == Append(f, e)
           k == Len(f)
           u == CountAfter(e, c, n)
<1>1. PICK h \in [0..k -> Nat] : /\ h[0] = m /\ h[k] = n
                                 /\ \A i \in 1..k : h[i] = CountAfter(f[i], c, h[i - 1])
  BY DEF WillCount
<1>2. k \in Nat /\ Len(g) = k + 1 /\ g[k + 1] = e /\ \A i \in 1..k : g[i] = f[i]
  BY AppendProperties
<1>3. u \in Nat
  BY CountAfterNat
<1> HIDE DEF g, k, u
<1> DEFINE on == [i \in 0..(k + 1) |-> IF i <= k THEN h[i] ELSE u]
<1>4. on \in [0..(k + 1) -> Nat] /\ on[0] = m /\ on[k + 1] = u
  BY <1>1, <1>2, <1>3
<1>5. ASSUME NEW i \in 1..(k + 1)
      PROVE  on[i] = CountAfter(g[i], c, on[i - 1])
  <2>1. CASE i = k + 1
    <3>1. on[i - 1] = n /\ on[i] = u /\ g[i] = e
      BY <1>1, <1>2, <2>1
    <3> QED
      BY <3>1 DEF u
  <2>2. CASE i # k + 1
    <3>1. i \in 1..k /\ on[i - 1] = h[i - 1] /\ on[i] = h[i] /\ g[i] = f[i]
      BY <1>2, <2>2
    <3> QED
      BY <1>1, <3>1
  <2> QED
    BY <2>1, <2>2
<1> HIDE DEF on
<1>6. WillCount(g, c, m, u)
  BY <1>2, <1>4, <1>5 DEF WillCount
<1> QED
  BY <1>6 DEF g, u

\* Acknowledgements put behind the others change no count but of those they name.
LEMMA CountAcks ==
    ASSUME NEW f \in Seq(EventOK), NEW g \in Seq(EventOK), NEW c \in Channels,
           NEW m, NEW n \in Nat,
           \A i \in DOMAIN g : g[i].type = "ack", WillCount(f, c, m, n)
    PROVE  \E u \in Nat : /\ WillCount(f \o g, c, m, u)
                          /\ (\A i \in DOMAIN g : ~Leaves(g[i], c)) => u = n
<1> DEFINE q == f \o g
           k == Len(f)
           l == Len(g)
<1>1. PICK h \in [0..k -> Nat] : /\ h[0] = m /\ h[k] = n
                                 /\ \A i \in 1..k : h[i] = CountAfter(f[i], c, h[i - 1])
  BY DEF WillCount
<1>2. /\ k \in Nat /\ l \in Nat /\ DOMAIN g = 1..l /\ Len(q) = k + l
      /\ \A i \in 1..(k + l) : q[i] = IF i <= k THEN f[i] ELSE g[i - k]
  BY ConcatProperties, LenProperties
<1> HIDE DEF q, k, l
<1> DEFINE Gone(i) == \E j \in 1..(i - k) : Leaves(g[j], c)
           on == [i \in 0..(k + l) |-> IF i <= k THEN h[i] ELSE IF Gone(i) THEN 0 ELSE n]
<1>3. on \in [0..(k + l) -> Nat] /\ on[0] = m /\ on[k + l] \in Nat
  <2> HIDE DEF Gone
  <2>1. on \in [0..(k + l) -> Nat] /\ on[0] = m /\ k + l \in 0..(k + l)
    BY <1>1, <1>2
  <2> HIDE DEF on
  <2> QED
    BY <2>1
<1>4. (\A i \in DOMAIN g : ~Leaves(g[i], c)) => on[k + l] = n
  <2> SUFFICES ASSUME \A i \in DOMAIN g : ~Leaves(g[i], c)
               PROVE  on[k + l] = n
    OBVIOUS
  <2>0. (k + l) - k = l
    BY <1>2
  <2>1. ~Gone(k + l)
    BY <1>2, <2>0, Zenon
  <2>2. k + l \in 0..(k + l) /\ (k + l <= k => k + l = k)
    BY <1>2
  <2> HIDE DEF Gone
  <2>3. on[k + l] = IF k + l <= k THEN h[k + l] ELSE n
    BY <2>1, <2>2
  <2> HIDE DEF on
  <2> QED
    BY <1>1, <2>2, <2>3
<1>5. ASSUME NEW i \in 1..(k + l)
      PROVE  on[i] = CountAfter(q[i], c, on[i - 1])
  <2>1. CASE i <= k
    <3>1. i \in 1..k /\ on[i - 1] = h[i - 1] /\ on[i] = h[i] /\ q[i] = f[i]
      BY <1>2, <2>1
    <3> QED
      BY <1>1, <3>1
  <2>2. CASE i > k
    <3>1. i - k \in 1..l /\ q[i] = g[i - k]
      BY <1>2, <2>2
    <3>1a. g[i - k].type = "ack"
      BY <1>2, <3>1
    <3>2. CountAfter(q[i], c, on[i - 1]) = IF Leaves(g[i - k], c) THEN 0 ELSE on[i - 1]
      BY <3>1, <3>1a DEF CountAfter
    <3>3. Gone(i) <=> Leaves(g[i - k], c) \/ Gone(i - 1)
      <4>1. i - k \in 1..(i - k)
        BY <1>2, <3>1
      <4>2. \A j \in 1..(i - k) : j = i - k \/ j \in 1..((i - 1) - k)
        BY <1>2, <3>1
      <4>3. \A j \in 1..((i - 1) - k) : j \in 1..(i - k)
        BY <1>2, <3>1
      <4> QED
        BY <4>1, <4>2, <4>3
    <3>4. on[i] = IF Gone(i) THEN 0 ELSE n
      BY <1>2, <2>2
    <3>5. on[i - 1] = IF Gone(i - 1) THEN 0 ELSE n
      <4>1. CASE i - 1 = k
        BY <1>1, <1>2, <4>1
      <4>2. CASE i - 1 # k
        BY <1>2, <2>2, <4>2
      <4> QED
        BY <4>1, <4>2
    <3> HIDE DEF Gone, on
    <3> QED
      BY <3>2, <3>3, <3>4, <3>5
  <2> QED
    BY <1>2, <2>1, <2>2
<1> HIDE DEF on
<1>6. WillCount(q, c, m, on[k + l])
  BY <1>2, <1>3, <1>5 DEF WillCount
<1> QED
  BY <1>3, <1>4, <1>6 DEF q

\* The first event is handled.
LEMMA CountTail ==
    ASSUME NEW f \in Seq(EventOK), f # <<>>, NEW c \in Channels, NEW m, NEW n,
           WillCount(f, c, m, n)
    PROVE  WillCount(Tail(f), c, CountAfter(Head(f), c, m), n)
<1> DEFINE t == Tail(f)
           e == Head(f)
           k == Len(f)
<1>1. PICK h \in [0..k -> Nat] : /\ h[0] = m /\ h[k] = n
                                 /\ \A i \in 1..k : h[i] = CountAfter(f[i], c, h[i - 1])
  BY DEF WillCount
<1>2. k \in Nat \ {0} /\ Len(t) = k - 1 /\ e = f[1] /\ \A i \in 1..(k - 1) : t[i] = f[i + 1]
  OBVIOUS
<1> HIDE DEF t, e, k
<1> DEFINE on == [i \in 0..(k - 1) |-> h[i + 1]]
<1>3. on \in [0..(k - 1) -> Nat] /\ on[0] = h[1] /\ on[k - 1] = n
  BY <1>1, <1>2
<1>4. h[1] = CountAfter(e, c, m)
  <2>1. 1 \in 1..k /\ 1 - 1 = 0
    BY <1>2
  <2> QED
    BY <1>1, <1>2, <2>1
<1>5. ASSUME NEW i \in 1..(k - 1)
      PROVE  on[i] = CountAfter(t[i], c, on[i - 1])
  <2>1. /\ i + 1 \in 1..k /\ (i + 1) - 1 = i /\ on[i] = h[i + 1] /\ on[i - 1] = h[i]
        /\ t[i] = f[i + 1]
    BY <1>2
  <2>2. h[i + 1] = CountAfter(f[i + 1], c, h[i])
    BY <1>1, <2>1
  <2> QED
    BY <2>1, <2>2
<1> HIDE DEF on
<1>6. WillCount(t, c, on[0], n)
  BY <1>2, <1>3, <1>5 DEF WillCount
<1> QED
  BY <1>3, <1>4, <1>6 DEF t, e

\* A READY alone.
LEMMA CountSnapshot ==
    ASSUME NEW e \in EventOK, NEW c \in Channels, NEW m \in Nat
    PROVE  WillCount(<<e>>, c, m, CountAfter(e, c, m))
<1>1. CountAfter(e, c, m) \in Nat
  BY CountAfterNat
<1> DEFINE h == [i \in 0..1 |-> IF i = 0 THEN m ELSE CountAfter(e, c, m)]
<1>2. /\ h \in [0..1 -> Nat] /\ h[0] = m /\ h[1] = CountAfter(e, c, m)
      /\ \A i \in 1..1 : h[i] = CountAfter(<<e>>[i], c, h[i - 1])
  BY <1>1
<1>3. Len(<<e>>) = 1
  OBVIOUS
<1> HIDE DEF h
<1> QED
  BY <1>2, <1>3 DEF WillCount

----------------------------------------------------------------------------
(* The badge: every step keeps the count *)

\* The maps of the client and the read state are as they were, and so is the feed.
LEMMA CountedKept ==
    ASSUME Counted, UNCHANGED <<last, mark, entries, pings, feed, unread, hidden>>
    PROVE  Counted'
BY DEF Counted, Mentions

LEMMA CountedPost ==
    ASSUME IInv, Counted, NEW d \in Channels, NEW k \in Kind, Post(d, k)
    PROVE  Counted'
<1> DEFINE e == Create(d, k)
<1>1. /\ last \in [Channels -> Nat] /\ mark \in [Channels -> Nat]
      /\ hidden \in [Channels -> Nat] /\ pings \in [Channels -> SUBSET Nat]
      /\ feed \in Seq(EventOK) /\ unread \in [DOMAIN unread -> Nat]
  BY DEF IInv, TypeOK
<1>2. e \in EventOK
  BY <1>1 DEF EventOK, Create
<1>3. /\ feed' = Append(feed, e) /\ unread' = unread
      /\ entries \subseteq entries' /\ last' = [last EXCEPT ![d] = @ + 1]
  BY DEF Post, client
<1>4. SUFFICES ASSUME NEW c \in Channels
               PROVE  /\ c \notin entries' => pings'[c] = {}
                      /\ \E n \in Nat : /\ WillCount(feed', c, CountOf(unread, c), n)
                                        /\ hidden'[c] = 0 => n >= Mentions(c)'
  BY <1>3 DEF Counted, CountOf
<1>5. c \notin entries' => pings'[c] = {}
  BY <1>1, <1>3 DEF Counted, Post
<1>6. \E n \in Nat : /\ WillCount(feed', c, CountOf(unread, c), n)
                     /\ hidden'[c] = 0 => n >= Mentions(c)'
  <2>1. hidden'[c] = 0 => hidden[c] = 0
    <3>1. hidden' = hidden \/ hidden' = [hidden EXCEPT ![d] = @ + 1]
      BY DEF Post
    <3> QED
      BY <1>1, <3>1
  <2>2. PICK n \in Nat : /\ WillCount(feed, c, CountOf(unread, c), n)
                         /\ hidden[c] = 0 => n >= Mentions(c)
    BY DEF Counted
  <2> DEFINE u == CountAfter(e, c, n)
  <2>3. WillCount(feed', c, CountOf(unread, c), u) /\ u \in Nat
    <3> HIDE DEF e
    <3>1. WillCount(feed, c, CountOf(unread, c), n)
      BY <2>2, Zenon
    <3>2. WillCount(Append(feed, e), c, CountOf(unread, c), u)
      BY <1>1, <1>2, <3>1, CountAppend
    <3>3. u \in Nat
      BY <1>2, CountAfterNat
    <3> QED
      BY <1>3, <3>2, <3>3
  <2>4. u = IF c = d /\ k \in {"ping", "ownPing"} THEN n + 1 ELSE n
    BY DEF CountAfter, Leaves, Create
  <2>5. pings[c] \subseteq 1..last[c] /\ mark[c] <= last[c]
    BY DEF IInv, Bounds
  <2>6. Mentions(c) \in Nat /\ IsFiniteSet({i \in pings[c] : i > mark[c]})
    BY <1>1, <2>5, MentionsOK
  <2> HIDE DEF u, e
  <2>7. ASSUME hidden'[c] = 0 PROVE u >= Mentions(c)'
    <3>0. n >= Mentions(c)
      <4>1. hidden[c] = 0
        BY <2>1, <2>7
      <4> QED
        BY <2>2, <4>1, Zenon
    <3>1. CASE c # d
      <4>1. mark' = mark \/ mark' = [mark EXCEPT ![d] = last[d] + 1]
        BY DEF Post
      <4>2. pings' = pings \/ pings' = [pings EXCEPT ![d] = @ \cup {last[d] + 1}]
        BY DEF Post
      <4>3. mark'[c] = mark[c] /\ pings'[c] = pings[c]
        BY <1>1, <3>1, <4>1, <4>2
      <4> QED
        BY <3>0, <2>4, <3>1, <4>3 DEF Mentions
    <3>2. CASE c = d /\ k = "ping"
      <4>1. mark' = mark /\ pings'[c] = pings[c] \cup {last[c] + 1}
        BY <1>1, <3>2 DEF Post
      <4> DEFINE M == {i \in pings[c] : i > mark[c]}
      <4>2. last[c] + 1 \notin M /\ {i \in pings'[c] : i > mark'[c]} = M \cup {last[c] + 1}
        BY <1>1, <2>5, <4>1
      <4> HIDE DEF M
      <4>3. Cardinality(M \cup {last[c] + 1}) = Cardinality(M) + 1
        BY <2>6, <4>2, FS_AddElement DEF M
      <4>4. Mentions(c)' = Mentions(c) + 1
        BY <4>2, <4>3 DEF Mentions, M
      <4> QED
        BY <3>0, <2>4, <2>6, <3>2, <4>4
    <3>3. CASE c = d /\ (k = "other" \/ (k \in {"own", "ownPing"} /\ ServerUnread(d)))
      <4>1. mark' = mark /\ pings' = pings
        BY <3>3 DEF Post
      <4>2. Mentions(c)' = Mentions(c)
        BY <4>1 DEF Mentions
      <4> QED
        BY <3>0, <2>4, <2>6, <4>2
    <3>4. CASE c = d /\ k \in {"own", "ownPing"} /\ ~ServerUnread(d)
      <4>1. mark'[c] = last[c] + 1 /\ pings'[c] = pings[c]
        BY <1>1, <3>4 DEF Post
      <4>2. {i \in pings'[c] : i > mark'[c]} = {}
        BY <1>1, <2>5, <4>1
      <4>3. Mentions(c)' = 0
        BY <4>2, FS_EmptySet DEF Mentions
      <4> QED
        BY <2>3, <4>3
    <3> QED
      BY <3>1, <3>2, <3>3, <3>4 DEF Kind
  <2> QED
    BY <2>3, <2>7
<1> QED
  BY <1>5, <1>6

LEMMA CountedAcknowledge ==
    ASSUME IInv, Counted, NEW acks, IsAcks(acks), \A c \in DOMAIN acks : acks[c] <= last[c],
           Acknowledge(acks)
    PROVE  Counted'
<1>1. DOMAIN acks \subseteq Channels /\ acks \in [DOMAIN acks -> Nat]
  BY DEF IsAcks
<1>2. PICK s \in [1..Cardinality(DOMAIN acks) -> DOMAIN acks] :
         feed' = feed \o [i \in DOMAIN s |-> Ack(s[i], acks[s[i]])]
  BY DEF Acknowledge
<1> DEFINE g == [i \in DOMAIN s |-> Ack(s[i], acks[s[i]])]
<1>3. Cardinality(DOMAIN acks) \in Nat
  <2>1. IsFiniteSet(DOMAIN acks)
    BY <1>1, FS_Subset, ReadStateAssumption
  <2> QED
    BY <2>1, FS_CardinalityType
<1>4. \A i \in DOMAIN g : g[i] \in EventOK /\ g[i].type = "ack" /\ g[i].ch \in DOMAIN acks
  BY <1>1, <1>2 DEF Ack, EventOK
<1>5. g \in Seq(EventOK) /\ feed \in Seq(EventOK) /\ feed' = feed \o g
  <2>1. g \in [1..Cardinality(DOMAIN acks) -> EventOK]
    BY <1>4
  <2> HIDE DEF g
  <2>2. g \in Seq(EventOK)
    BY <1>3, <2>1
  <2> QED
    BY <1>2, <2>2 DEF IInv, TypeOK, g
<1> HIDE DEF g
<1>6. /\ last' = last /\ pings' = pings /\ unread' = unread
      /\ entries' = entries \cup DOMAIN acks
      /\ mark' = [c \in Channels |->
                    IF c \in DOMAIN acks /\ acks[c] > mark[c] THEN acks[c] ELSE mark[c]]
      /\ hidden' = [c \in Channels |->
                      IF c \in DOMAIN acks THEN IF acks[c] < last[c] THEN last[c] ELSE 0
                      ELSE hidden[c]]
  BY DEF Acknowledge, client
<1>7. SUFFICES ASSUME NEW c \in Channels
               PROVE  /\ c \notin entries' => pings[c] = {}
                      /\ \E n \in Nat : /\ WillCount(feed', c, CountOf(unread, c), n)
                                        /\ hidden'[c] = 0 => n >= Mentions(c)'
  BY <1>6 DEF Counted, CountOf
<1>8. c \notin entries' => pings[c] = {}
  BY <1>6 DEF Counted
<1>9. /\ last[c] \in Nat /\ mark[c] \in Nat /\ mark[c] <= last[c] /\ pings[c] \subseteq 1..last[c]
      /\ c \in DOMAIN acks => acks[c] \in Nat /\ acks[c] <= last[c]
  BY <1>1 DEF IInv, TypeOK, Bounds
<1>10. \A n \in Nat : WillCount(feed, c, CountOf(unread, c), n) =>
          \E u \in Nat : /\ WillCount(feed', c, CountOf(unread, c), u)
                         /\ (\A i \in DOMAIN g : ~Leaves(g[i], c)) => u = n
  BY <1>4, <1>5, CountAcks
<1>11. \E n \in Nat : /\ WillCount(feed', c, CountOf(unread, c), n)
                      /\ hidden'[c] = 0 => n >= Mentions(c)'
  <2>1. PICK n \in Nat : /\ WillCount(feed, c, CountOf(unread, c), n)
                         /\ hidden[c] = 0 => n >= Mentions(c)
    BY DEF Counted
  <2>2. PICK u \in Nat : /\ WillCount(feed', c, CountOf(unread, c), u)
                         /\ (\A i \in DOMAIN g : ~Leaves(g[i], c)) => u = n
    BY <1>10, <2>1
  <2>3. ASSUME hidden'[c] = 0, c \in DOMAIN acks
        PROVE  u >= Mentions(c)'
    <3>1. acks[c] = last[c] /\ mark'[c] = last[c]
      <4>1. ~(acks[c] < last[c])
        BY <1>6, <1>9, <2>3
      <4> QED
        BY <1>6, <1>9, <2>3, <4>1
    <3>2. {i \in pings'[c] : i > mark'[c]} = {}
      BY <1>6, <1>9, <3>1
    <3>3. Mentions(c)' = 0
      BY <3>2, FS_EmptySet DEF Mentions
    <3> QED
      BY <3>3
  <2>4. ASSUME hidden'[c] = 0, c \notin DOMAIN acks
        PROVE  u >= Mentions(c)'
    <3>1. hidden[c] = 0 /\ mark'[c] = mark[c]
      BY <1>6, <2>4
    <3>2. Mentions(c)' = Mentions(c)
      BY <1>6, <3>1 DEF Mentions
    <3>3. \A i \in DOMAIN g : ~Leaves(g[i], c)
      BY <1>4, <2>4 DEF Leaves
    <3>4. n >= Mentions(c) /\ u = n
      BY <2>1, <2>2, <3>1, <3>3, Zenon
    <3> QED
      BY <3>2, <3>4
  <2> QED
    BY <2>2, <2>3, <2>4
<1> QED
  BY <1>8, <1>11
LEMMA CountedNewSession ==
    ASSUME IInv, Counted, NewSession
    PROVE  Counted'
<1>1. /\ UNCHANGED <<last, mark, entries, pings, unread>> /\ feed' = <<Snapshot>>
  BY DEF NewSession, server, client
<1>2. Snapshot \in EventOK
  BY SnapshotOK DEF IInv, TypeOK
<1>3. SUFFICES ASSUME NEW c \in Channels
               PROVE  \E n \in Nat : /\ WillCount(<<Snapshot>>, c, CountOf(unread, c), n)
                                     /\ n >= Mentions(c)
  <2>1. \A c \in Channels : Mentions(c)' = Mentions(c)
    BY <1>1 DEF Mentions
  <2> QED
    BY <1>1, <2>1 DEF Counted, CountOf
<1>4. CountOf(unread, c) \in Nat
  BY DEF CountOf, IInv, TypeOK
<1> DEFINE n == CountAfter(Snapshot, c, CountOf(unread, c))
<1>5. n \in Nat /\ WillCount(<<Snapshot>>, c, CountOf(unread, c), n)
  BY <1>2, <1>4, CountAfterNat, CountSnapshot
<1>6. /\ last[c] \in Nat /\ mark[c] \in Nat /\ mark[c] <= last[c] /\ Mentions(c) \in Nat
      /\ mark[c] = last[c] => Mentions(c) = 0
  <2>1. last \in [Channels -> Nat] /\ pings[c] \subseteq 1..last[c]
    BY DEF IInv, TypeOK, Bounds
  <2> QED
    BY <2>1, MentionsOK DEF IInv, TypeOK, Bounds
<1>7. CASE last[c] > mark[c] /\ c \in entries
  <2>1. n = Mentions(c)
    BY <1>7 DEF CountAfter, Leaves, Snapshot
  <2> QED
    BY <1>5, <1>6, <2>1
<1>8. CASE last[c] > mark[c] /\ c \notin entries
  <2>1. {i \in pings[c] : i > mark[c]} = {}
    BY <1>8 DEF Counted
  <2>2. Mentions(c) = 0
    BY <2>1, FS_EmptySet DEF Mentions
  <2> QED
    BY <1>5, <2>2
<1>9. CASE ~(last[c] > mark[c])
  <2>1. Mentions(c) = 0
    BY <1>6, <1>9
  <2> QED
    BY <1>5, <2>1
<1> QED
  BY <1>7, <1>8, <1>9

\* An event is handled, and every count changes as the event says.
LEMMA CountedEvent ==
    ASSUME IInv, Counted, NEW type, Event(type),
           \A c \in Channels :
               CountOf(unread', c) = CountAfter(Head(feed), c, CountOf(unread, c))
    PROVE  Counted'
<1>1. /\ feed # <<>> /\ feed' = Tail(feed) /\ feed \in Seq(EventOK)
      /\ UNCHANGED <<last, mark, entries, pings, hidden>>
  BY DEF Event, server, ghosts, IInv, TypeOK
<1>2. ASSUME NEW c \in Channels
      PROVE  /\ c \notin entries' => pings'[c] = {}
             /\ \E n \in Nat : /\ WillCount(feed', c, CountOf(unread', c), n)
                               /\ hidden'[c] = 0 => n >= Mentions(c)'
  <2>1. PICK n \in Nat : /\ WillCount(feed, c, CountOf(unread, c), n)
                         /\ hidden[c] = 0 => n >= Mentions(c)
    BY DEF Counted
  <2>2. WillCount(feed', c, CountOf(unread', c), n)
    BY <1>1, <2>1, CountTail
  <2>3. Mentions(c)' = Mentions(c)
    BY <1>1 DEF Mentions
  <2> QED
    BY <1>1, <2>1, <2>2, <2>3 DEF Counted
<1> QED
  BY <1>2 DEF Counted, CountOf

LEMMA CountedCreate ==
    ASSUME IInv, Counted, HandleGatewayMessageCreate
    PROVE  Counted'
<1> DEFINE e == Head(feed)
<1>1. Event("create") /\ feed # <<>> /\ e.type = "create" /\ unread' = Created(unread, e.ch, e.kind)
  BY DEF HandleGatewayMessageCreate, Event
<1>2. e.ch \in Channels /\ e.kind \in Kind
  BY <1>1, Front DEF EventOK
<1>3. ASSUME NEW c \in Channels
      PROVE  CountOf(unread', c) = CountAfter(e, c, CountOf(unread, c))
  <2>1. CountAfter(e, c, CountOf(unread, c)) =
            IF c = e.ch /\ e.kind \in {"ping", "ownPing"} THEN CountOf(unread, c) + 1
                                                         ELSE CountOf(unread, c)
    BY <1>1 DEF CountAfter, Leaves
  <2>2. \A n : CountOf(Unread(unread, e.ch, n), c) = IF c = e.ch THEN n ELSE CountOf(unread, c)
    BY DEF CountOf, Unread
  <2>3. CASE e.kind \in {"ping", "ownPing"}
    BY <1>1, <2>1, <2>2, <2>3 DEF Created
  <2>4. CASE e.kind = "other"
    BY <1>1, <2>1, <2>2, <2>4 DEF Created
  <2>5. CASE e.kind = "own"
    BY <1>1, <2>1, <2>5 DEF Created
  <2> QED
    BY <1>2, <2>3, <2>4, <2>5 DEF Kind
<1> QED
  BY <1>1, <1>3, CountedEvent

LEMMA CountedAck ==
    ASSUME IInv, Counted, HandleGatewayMessageAck
    PROVE  Counted'
<1> DEFINE e == Head(feed)
<1>1. /\ Event("ack") /\ feed # <<>> /\ e.type = "ack"
      /\ unread' = [c \in DOMAIN unread \ {e.ch} |-> unread[c]]
  BY DEF HandleGatewayMessageAck, Event
<1>2. ASSUME NEW c \in Channels
      PROVE  CountOf(unread', c) = CountAfter(e, c, CountOf(unread, c))
  BY <1>1 DEF CountOf, CountAfter, Leaves
<1> QED
  BY <1>1, <1>2, CountedEvent

LEMMA CountedReady ==
    ASSUME IInv, Counted, HandleReadyReadState
    PROVE  Counted'
<1> DEFINE e == Head(feed)
           new == UnreadAtReady(e, lastMessage')
<1>1. /\ Event("ready") /\ feed # <<>> /\ e.type = "ready"
      /\ unread' = [c \in DOMAIN unread \cup new |->
                      IF c \notin new THEN unread[c]
                      ELSE IF c \in e.entries THEN e.count[c] ELSE 0]
  BY DEF HandleReadyReadState, Event
<1>2. \A c \in Channels : c \in new <=> e.last[c] > e.mark[c]
  BY ReadyFinds
<1> HIDE DEF new
<1>3. ASSUME NEW c \in Channels
      PROVE  CountOf(unread', c) = CountAfter(e, c, CountOf(unread, c))
  BY <1>1, <1>2, <1>3 DEF CountOf, CountAfter, Leaves
<1> QED
  BY <1>1, <1>3, CountedEvent

LEMMA StepCounted ==
    ASSUME IInv, Counted, [Next]_vars
    PROVE  Counted'
<1>1. ASSUME NEW c \in Channels, NEW k \in Kind, Post(c, k)
      PROVE  Counted'
  BY <1>1, CountedPost
<1>2. ASSUME NEW c \in Channels, ReadElsewhere(c)
      PROVE  Counted'
  <2>1. PICK i \in (mark[c] + 1)..last[c] : Acknowledge([x \in {c} |-> i])
    BY <1>2 DEF ReadElsewhere
  <2>2. i \in Nat /\ i <= last[c]
    BY DEF IInv, TypeOK
  <2>3. /\ IsAcks([x \in {c} |-> i])
        /\ \A d \in DOMAIN [x \in {c} |-> i] : [x \in {c} |-> i][d] <= last[d]
    BY <2>2 DEF IsAcks
  <2> QED
    BY <2>1, <2>3, CountedAcknowledge
<1>3. CASE PostArrives
  <2>1. PICK r \in posts : Acknowledge(r)
    BY <1>3 DEF PostArrives
  <2>2. IsAcks(r) /\ \A c \in DOMAIN r : r[c] <= last[c]
    BY DEF IInv, TypeOK, Bounds
  <2> QED
    BY <2>1, <2>2, CountedAcknowledge
<1>4. CASE PostFails
  BY <1>4, CountedKept DEF PostFails, server, client
<1>5. CASE NewSession
  BY <1>5, CountedNewSession
<1>6. CASE HandleGatewayMessageCreate
  BY <1>6, CountedCreate
<1>7. CASE HandleGatewayMessageAck
  BY <1>7, CountedAck
<1>8. CASE HandleReadyReadState
  BY <1>8, CountedReady
<1>9. CASE User
  BY <1>9, CountedKept DEF User, MarkGuildAsRead, MarkChannelAsRead, AskToAck, server, client
<1>10. CASE UNCHANGED vars
  BY <1>10, CountedKept DEF vars, server, client, ghosts
<1> QED
  BY <1>1, <1>2, <1>3, <1>4, <1>5, <1>6, <1>7, <1>8, <1>9, <1>10 DEF Next, Server, Client

LEMMA InitCounted ==
    ASSUME Init
    PROVE  Counted
<1>1. /\ IInv /\ last \in [Channels -> Nat] /\ \A c \in Channels : pings[c] = {} /\ mark[c] = last[c]
  BY InitIInv DEF Init, IInv, TypeOK
<1>2. Snapshot \in EventOK /\ feed = <<Snapshot>>
  BY <1>1, SnapshotOK DEF Init, IInv, TypeOK
<1>3. ASSUME NEW c \in Channels
      PROVE  \E n \in Nat : WillCount(feed, c, CountOf(unread, c), n) /\ n >= Mentions(c)
  <2>1. Mentions(c) = 0
    BY <1>1, MentionsOK
  <2>2. CountOf(unread, c) = 0
    BY DEF Init, CountOf
  <2>3. WillCount(feed, c, CountOf(unread, c), CountAfter(Snapshot, c, 0))
    BY <1>2, <2>2, CountSnapshot
  <2>4. CountAfter(Snapshot, c, 0) \in Nat
    BY <1>2, CountAfterNat
  <2> QED
    BY <2>1, <2>3, <2>4
<1> QED
  BY <1>1, <1>3 DEF Counted

\* No mention is lost from the badge, whatever was posted, read and lost, unless an
\* acknowledgement of an older message hides it: a new session's snapshot counts what
\* was not delivered, and an acknowledgement takes the count away with the mentions.
THEOREM NoMentionLost == Spec => []MentionsCounted
<1>1. IInv /\ Counted => MentionsCounted
  <2> SUFFICES ASSUME IInv, Counted, feed = <<>>, NEW c \in Channels, ServerUnread(c), hidden[c] = 0
               PROVE  unread[c] >= Mentions(c)
    BY DEF MentionsCounted
  <2>1. PICK n \in Nat : WillCount(feed, c, CountOf(unread, c), n) /\ n >= Mentions(c)
    BY DEF Counted
  <2>2. n = CountOf(unread, c)
    BY <2>1 DEF WillCount
  <2>3. last[c] > hidden[c]
    BY DEF ServerUnread, IInv, TypeOK, Bounds
  <2>4. c \in DOMAIN unread
    BY <2>3, Shown DEF IInv, WillNotMiss
  <2> QED
    BY <2>1, <2>2, <2>4 DEF CountOf
<1>2. Init => IInv /\ Counted
  BY InitIInv, InitCounted
<1>3. IInv /\ Counted /\ [Next]_vars => (IInv /\ Counted)'
  BY StepIInv, StepCounted
<1> QED
  BY <1>1, <1>2, <1>3, PTL DEF Spec
=============================================================================
