--------------------------- MODULE AccountProofs ---------------------------
(***************************************************************************)
(* The account: what it may see in a guild, and how it logs in.            *)
(*                                                                         *)
(* For every set of roles and of channels and any number of changes: the   *)
(* client's answer is the server's where no overwrite is stored that the   *)
(* server removed, and nothing of a guild that is gone may be seen.  The   *)
(* tables are never emptied of what is no longer told, so that the         *)
(* invariant says what they contain (all that the server has) and never    *)
(* what they do not.                                                       *)
(*                                                                         *)
(* For every number of connections and any depth of nested loops: a login  *)
(* for which nothing comes late neither crashes nor hears of a connection  *)
(* that is over, and it ends with a token that is read with its own key.   *)
(* The two share no variable; they are here as two parts.                  *)
(***************************************************************************)
EXTENDS Permissions, RemoteAuth, SequenceTheorems, TLAPS

\* What the server has is well formed: everyone's role is there, the account's roles
\* and the ids of the overwrites are known ones.
Truthful ==
    /\ DOMAIN roles \subseteq Roles \cup {Everyone} /\ Everyone \in DOMAIN roles
    /\ mine \subseteq DOMAIN roles \ {Everyone}
    /\ DOMAIN channels \subseteq Channels
    /\ \A c \in DOMAIN channels : DOMAIN channels[c] \subseteq Ids

\* A stored role of the account existed at some time, and so is no role to come.
Existed == memberRoles \subseteq DOMAIN roles \cup retired

\* The table of channels agrees with the guild's row.
Listed ==
    /\ channelTable \subseteq Channels
    /\ joined /\ up => guild # "none"
    /\ guild = "none" => channelTable = {}

\* A client that has heard of the guild since the account joined stores all that the
\* server has of it, besides what it may have kept from before.
KnowsGuild ==
    joined /\ up /\ heard \in {"guild", "all"} =>
        /\ guild = IF owner THEN "own" ELSE "other"
        /\ \A r \in DOMAIN roles : r \in DOMAIN roleTable /\ roleTable[r] = roles[r]
        /\ DOMAIN channels \subseteq channelTable
        /\ \A c \in DOMAIN channels : \A i \in DOMAIN channels[c] :
              <<c, i>> \in DOMAIN permissions /\ permissions[<<c, i>>] = channels[c][i]

\* One that has heard of the account's roles too stores the member and counts those
\* roles and no others.
KnowsRoles == joined /\ up /\ heard = "all" => member /\ GetMemberRoles = mine

IInv == Truthful /\ Existed /\ Listed /\ KnowsGuild /\ KnowsRoles

----------------------------------------------------------------------------
(* The answer *)

\* Deleting rows keeps the others.
LEMMA Deleted ==
    ASSUME NEW f, NEW S
    PROVE  /\ DOMAIN Delete(f, S) = DOMAIN f \ S
           /\ \A x \in DOMAIN f \ S : Delete(f, S)[x] = f[x]
  BY DEF Delete

\* One layer of overwrites, by the server's rows: what it allows goes before what it denies.
LEMMA Layer ==
    ASSUME KnowsGuild, joined, up, heard = "all", NEW c \in DOMAIN channels, NEW ids,
           \A i \in ids : <<c, i>> \in DOMAIN permissions => i \in DOMAIN channels[c],
           NEW perms, NEW p
    PROVE  p \in Overwritten(perms, c, ids) <=>
              \/ \E i \in ids \cap DOMAIN channels[c] : p \in channels[c][i]["allow"]
              \/ p \in perms /\ ~\E i \in ids \cap DOMAIN channels[c] : p \in channels[c][i]["deny"]
<1> DEFINE rows == {permissions[<<c, i>>] : i \in {i \in ids : <<c, i>> \in DOMAIN permissions}}
<1>1. rows = {channels[c][i] : i \in ids \cap DOMAIN channels[c]}
  BY DEF KnowsGuild
<1>2. Overwritten(perms, c, ids) = (perms \ UNION {row.deny : row \in rows})
                                       \cup UNION {row.allow : row \in rows}
  BY DEF Overwritten
<1> HIDE DEF rows
<1>3. p \in UNION {row.deny : row \in rows}
         <=> \E i \in ids \cap DOMAIN channels[c] : p \in channels[c][i]["deny"]
  BY <1>1
<1>4. p \in UNION {row.allow : row \in rows}
         <=> \E i \in ids \cap DOMAIN channels[c] : p \in channels[c][i]["allow"]
  BY <1>1
<1> QED
  BY <1>2, <1>3, <1>4

\* The four layers of Granted, spelled out.
LEMMA GrantedIn ==
    ASSUME NEW c, NEW p
    PROVE  LET Says(layer, what) == \E i \in layer \cap DOMAIN channels[c] : p \in channels[c][i][what]
               base == UNION {roles[r] : r \in mine \cup {Everyone}}
           IN  Granted(c, p) <=>
                 \/ owner \/ "admin" \in base
                 \/ Says({Me}, "allow")
                 \/ /\ ~Says({Me}, "deny")
                    /\ \/ Says(mine, "allow")
                       \/ /\ ~Says(mine, "deny")
                          /\ \/ Says({Everyone}, "allow")
                             \/ ~Says({Everyone}, "deny") /\ p \in base
<1> DEFINE Says(layer, what) == \E i \in layer \cap DOMAIN channels[c] : p \in channels[c][i][what]
           base == UNION {roles[r] : r \in mine \cup {Everyone}}
           decides == <<{Me}, mine, {Everyone}>>
           Silent(n) == \A k \in 1..n : ~Says(decides[k], "allow") /\ ~Says(decides[k], "deny")
<1>1. Granted(c, p) <=> \/ owner \/ "admin" \in base
                        \/ \E n \in 1..3 : Silent(n - 1) /\ Says(decides[n], "allow")
                        \/ Silent(3) /\ p \in base
  BY DEF Granted
<1>2. decides[1] = {Me} /\ decides[2] = mine /\ decides[3] = {Everyone}
  OBVIOUS
<1> HIDE DEF Says, base, decides
<1>3. 1..0 = {} /\ 1..1 = {1} /\ 1..2 = {1, 2} /\ 1..3 = {1, 2, 3}
  OBVIOUS
<1>4. /\ Silent(0)
      /\ Silent(1) <=> ~Says({Me}, "allow") /\ ~Says({Me}, "deny")
      /\ Silent(2) <=> Silent(1) /\ ~Says(mine, "allow") /\ ~Says(mine, "deny")
      /\ Silent(3) <=> Silent(2) /\ ~Says({Everyone}, "allow") /\ ~Says({Everyone}, "deny")
  BY <1>2, <1>3
<1> HIDE DEF Silent
<1>5. (\E n \in 1..3 : Silent(n - 1) /\ Says(decides[n], "allow"))
        <=> \/ Says({Me}, "allow")
            \/ Silent(1) /\ Says(mine, "allow")
            \/ Silent(2) /\ Says({Everyone}, "allow")
  BY <1>2, <1>3, <1>4
<1>6. Granted(c, p) <=>
                 \/ owner \/ "admin" \in base
                 \/ Says({Me}, "allow")
                 \/ /\ ~Says({Me}, "deny")
                    /\ \/ Says(mine, "allow")
                       \/ /\ ~Says(mine, "deny")
                          /\ \/ Says({Everyone}, "allow")
                             \/ ~Says({Everyone}, "deny") /\ p \in base
  BY <1>1, <1>4, <1>5
<1> QED
  BY <1>6 DEF Says, base

\* What the invariant says of the answer.
LEMMA KnowsEnough == Truthful /\ KnowsGuild /\ KnowsRoles => ComputesWhatIsGranted
<1> SUFFICES ASSUME Truthful, KnowsGuild, KnowsRoles, joined, up, heard = "all",
                    NEW c \in DOMAIN channels,
                    \A i \in GetMemberRoles \cup {Everyone, Me} :
                        <<c, i>> \in DOMAIN permissions => i \in DOMAIN channels[c],
                    NEW p \in Perms
             PROVE  HasChannelPermission(c, p) <=> Granted(c, p)
  BY DEF ComputesWhatIsGranted
<1> DEFINE Says(layer, what) == \E i \in layer \cap DOMAIN channels[c] : p \in channels[c][i][what]
           base == UNION {roles[r] : r \in mine \cup {Everyone}}
<1>1. GetMemberRoles = mine /\ c \in channelTable /\ Everyone \in DOMAIN roleTable
  BY DEF KnowsRoles, KnowsGuild, Truthful
<1>2. roleTable[Everyone] \cup UNION {roleTable[r] : r \in GetMemberRoles} = base
  <2>1. \A r \in mine \cup {Everyone} : roleTable[r] = roles[r]
    BY DEF KnowsGuild, Truthful
  <2> QED
    BY <1>1, <2>1
<1>3. guild = IF owner THEN "own" ELSE "other"
  BY DEF KnowsGuild
<1> DEFINE granted == \/ owner \/ "admin" \in base
                 \/ Says({Me}, "allow")
                 \/ /\ ~Says({Me}, "deny")
                    /\ \/ Says(mine, "allow")
                       \/ /\ ~Says(mine, "deny")
                          /\ \/ Says({Everyone}, "allow")
                             \/ ~Says({Everyone}, "deny") /\ p \in base
<1>4. Granted(c, p) <=> granted
  BY GrantedIn
<1>5. HasChannelPermission(c, p) <=> p \in ComputeOverwrites(ComputePermissions, c)
  BY <1>1 DEF HasChannelPermission
<1>6. ASSUME NEW perms, NEW ids, ids \subseteq mine \cup {Everyone, Me}
      PROVE  p \in Overwritten(perms, c, ids) <=>
                Says(ids, "allow") \/ (p \in perms /\ ~Says(ids, "deny"))
  <2>1. \A i \in ids : <<c, i>> \in DOMAIN permissions => i \in DOMAIN channels[c]
    BY <1>1, <1>6
  <2> QED
    BY <2>1, Layer
<1>7. CASE owner \/ "admin" \in base
  <2>1. ComputePermissions = Perms
    BY <1>1, <1>2, <1>3, <1>7 DEF ComputePermissions
  <2>2. ComputeOverwrites(ComputePermissions, c) = Perms
    BY <2>1 DEF ComputeOverwrites, Perms
  <2> QED
    BY <1>4, <1>5, <1>7, <2>2
<1>8. CASE ~owner /\ "admin" \notin base
  <2>1. ComputePermissions = base
    BY <1>1, <1>2, <1>3, <1>8 DEF ComputePermissions
  <2> HIDE DEF Says, base
  <2>2. ComputeOverwrites(base, c)
          = Overwritten(Overwritten(Overwritten(base, c, {Everyone}), c, mine), c, {Me})
    BY <1>1, <1>8 DEF ComputeOverwrites
  <2>3. p \in Overwritten(base, c, {Everyone})
          <=> Says({Everyone}, "allow") \/ (p \in base /\ ~Says({Everyone}, "deny"))
    BY <1>6
  <2>4. p \in Overwritten(Overwritten(base, c, {Everyone}), c, mine)
          <=> Says(mine, "allow")
              \/ (p \in Overwritten(base, c, {Everyone}) /\ ~Says(mine, "deny"))
    BY <1>6
  <2>5. p \in ComputeOverwrites(base, c)
          <=> Says({Me}, "allow")
              \/ (p \in Overwritten(Overwritten(base, c, {Everyone}), c, mine) /\ ~Says({Me}, "deny"))
    BY <1>6, <2>2
  <2> QED
    BY <1>4, <1>5, <1>8, <2>1, <2>3, <2>4, <2>5
<1> QED
  BY <1>7, <1>8
----------------------------------------------------------------------------
(* The server *)

\* A change that the client does not hear of disturbs nothing it is held to.
LEMMA Untold ==
    ASSUME IInv, UNCHANGED presence, ~(joined /\ up), UNCHANGED client,
           Truthful', DOMAIN roles \cup retired \subseteq DOMAIN roles' \cup retired'
    PROVE  IInv'
<1> USE DEF presence, client, tables, members
<1>1. Existed'
  BY DEF IInv, Existed
<1>2. Listed'
  BY DEF IInv, Listed
<1>3. KnowsGuild' /\ KnowsRoles'
  BY DEF KnowsGuild, KnowsRoles
<1> QED
  BY <1>1, <1>2, <1>3 DEF IInv

\* A role is created: its row is inserted, and nobody who is stored has it.
LEMMA CreatesRoleStep ==
    ASSUME IInv, NEW r \in Roles \cup {Everyone}, CreatesRole(r)
    PROVE  IInv'
<1>1. PICK p \in Grants : /\ roles' = Replace(roles, [x \in {r} |-> p])
                          /\ Changes(HandleGatewayGuildRoleCreate(r, p))
  BY DEF CreatesRole
<1>2. /\ r \notin DOMAIN roles \cup retired
      /\ UNCHANGED <<owner, mine, channels, retired, presence>>
  BY <1>1 DEF CreatesRole, Changes
<1>3. DOMAIN roles' = DOMAIN roles \cup {r} /\ roles'[r] = p
      /\ \A x \in DOMAIN roles : roles'[x] = roles[x]
  BY <1>1, <1>2 DEF Replace
<1>4. Truthful'
  BY <1>2, <1>3 DEF IInv, Truthful
<1>5. CASE ~(joined /\ up)
  BY <1>1, <1>2, <1>3, <1>4, <1>5, Untold DEF Changes
<1>6. CASE joined /\ up
  <2>1. HandleGatewayGuildRoleCreate(r, p)
    BY <1>1, <1>6 DEF Changes
  <2>2. /\ roleTable' = Replace(roleTable, [x \in {r} |-> p])
        /\ UNCHANGED <<guild, member, memberRoles, channelTable, permissions, heard>>
    BY <2>1 DEF HandleGatewayGuildRoleCreate, members
  <2>3. DOMAIN roleTable' = DOMAIN roleTable \cup {r} /\ roleTable'[r] = p
        /\ \A x \in DOMAIN roleTable : x # r => roleTable'[x] = roleTable[x]
    BY <2>2 DEF Replace
  <2>4. Existed'
    BY <1>2, <1>3, <2>2 DEF IInv, Existed
  <2>5. Listed'
    BY <1>2, <2>2 DEF IInv, Listed, presence
  <2>6. KnowsGuild'
    BY <1>2, <1>3, <1>6, <2>2, <2>3 DEF IInv, KnowsGuild, presence
  <2>7. KnowsRoles'
    BY <1>2, <1>6, <2>2, <2>3 DEF IInv, KnowsRoles, GetMemberRoles, Existed, presence
  <2> QED
    BY <1>4, <2>4, <2>5, <2>6, <2>7 DEF IInv
<1> QED
  BY <1>5, <1>6

\* A role is changed: its row is replaced.
LEMMA UpdatesRoleStep ==
    ASSUME IInv, NEW r \in Roles \cup {Everyone}, UpdatesRole(r)
    PROVE  IInv'
<1>1. PICK p \in Grants \ {roles[r]} : /\ roles' = [roles EXCEPT ![r] = p]
                                       /\ Changes(HandleGatewayGuildRoleUpdate(r, p))
  BY DEF UpdatesRole
<1>2. r \in DOMAIN roles /\ UNCHANGED <<owner, mine, channels, retired, presence>>
  BY <1>1 DEF UpdatesRole, Changes
<1>3. DOMAIN roles' = DOMAIN roles /\ roles'[r] = p
      /\ \A x \in DOMAIN roles : x # r => roles'[x] = roles[x]
  BY <1>1, <1>2
<1>4. Truthful'
  BY <1>2, <1>3 DEF IInv, Truthful
<1>5. CASE ~(joined /\ up)
  BY <1>1, <1>2, <1>3, <1>4, <1>5, Untold DEF Changes
<1>6. CASE joined /\ up
  <2>1. HandleGatewayGuildRoleUpdate(r, p)
    BY <1>1, <1>6 DEF Changes
  <2>2. /\ roleTable' = Replace(roleTable, [x \in {r} |-> p])
        /\ UNCHANGED <<guild, member, memberRoles, channelTable, permissions, heard>>
    BY <2>1 DEF HandleGatewayGuildRoleUpdate, members
  <2>3. DOMAIN roleTable' = DOMAIN roleTable \cup {r} /\ roleTable'[r] = p
        /\ \A x \in DOMAIN roleTable : x # r => roleTable'[x] = roleTable[x]
    BY <2>2 DEF Replace
  <2>4. Existed'
    BY <1>2, <1>3, <2>2 DEF IInv, Existed
  <2>5. Listed'
    BY <1>2, <2>2 DEF IInv, Listed, presence
  <2>6. KnowsGuild'
    BY <1>2, <1>3, <1>6, <2>2, <2>3 DEF IInv, KnowsGuild, presence
  <2>7. KnowsRoles'
    <3>1. heard = "all" => r \in DOMAIN roleTable
      BY <1>2, <1>6 DEF IInv, KnowsGuild
    <3> QED
      BY <1>2, <1>6, <2>2, <2>3, <3>1 DEF IInv, KnowsRoles, GetMemberRoles, presence
  <2> QED
    BY <1>4, <2>4, <2>5, <2>6, <2>7 DEF IInv
<1> QED
  BY <1>5, <1>6

\* A role is deleted: its row goes, from the account's roles too.
LEMMA DeletesRoleStep ==
    ASSUME IInv, NEW r \in Roles \cup {Everyone}, DeletesRole(r)
    PROVE  IInv'
<1>1. /\ r \in DOMAIN roles /\ r # Everyone
      /\ roles' = Delete(roles, {r}) /\ mine' = mine \ {r}
      /\ channels' = [c \in DOMAIN channels |-> Delete(channels[c], {r})]
      /\ retired' = retired \cup {r}
      /\ Changes(HandleGatewayGuildRoleDelete(r))
      /\ UNCHANGED <<owner, presence>>
  BY DEF DeletesRole, Changes
<1>2. DOMAIN roles' = DOMAIN roles \ {r} /\ \A x \in DOMAIN roles \ {r} : roles'[x] = roles[x]
  BY <1>1, Deleted
<1>3. /\ DOMAIN channels' = DOMAIN channels
      /\ \A c \in DOMAIN channels : /\ DOMAIN channels'[c] = DOMAIN channels[c] \ {r}
                                    /\ \A i \in DOMAIN channels[c] \ {r} :
                                          channels'[c][i] = channels[c][i]
  BY <1>1 DEF Delete
<1>4. Truthful'
  BY <1>1, <1>2, <1>3 DEF IInv, Truthful
<1>5. CASE ~(joined /\ up)
  BY <1>1, <1>2, <1>4, <1>5, Untold DEF Changes
<1>6. CASE joined /\ up
  <2>1. HandleGatewayGuildRoleDelete(r)
    BY <1>1, <1>6 DEF Changes
  <2>2. /\ roleTable' = Delete(roleTable, {r}) /\ memberRoles' = memberRoles \ {r}
        /\ UNCHANGED <<guild, member, channelTable, permissions, heard>>
    BY <2>1 DEF HandleGatewayGuildRoleDelete
  <2>3. DOMAIN roleTable' = DOMAIN roleTable \ {r}
        /\ \A x \in DOMAIN roleTable \ {r} : roleTable'[x] = roleTable[x]
    BY <2>2, Deleted
  <2>4. Existed'
    BY <1>1, <1>2, <2>2 DEF IInv, Existed
  <2>5. Listed'
    BY <1>1, <2>2 DEF IInv, Listed, presence
  <2>6. KnowsGuild'
    <3> SUFFICES ASSUME heard' \in {"guild", "all"}
                 PROVE  KnowsGuild!2'
      BY DEF KnowsGuild
    <3>1. KnowsGuild!2
      BY <1>6, <2>2 DEF IInv, KnowsGuild
    <3>2. guild' = IF owner' THEN "own" ELSE "other"
      BY <1>1, <2>2, <3>1
    <3>3. \A x \in DOMAIN roles' : x \in DOMAIN roleTable' /\ roleTable'[x] = roles'[x]
      BY <1>2, <2>3, <3>1
    <3>4. DOMAIN channels' \subseteq channelTable'
      BY <1>3, <2>2, <3>1
    <3>5. \A c \in DOMAIN channels' : \A i \in DOMAIN channels'[c] :
             <<c, i>> \in DOMAIN permissions' /\ permissions'[<<c, i>>] = channels'[c][i]
      BY <1>3, <2>2, <3>1
    <3> QED
      BY <3>2, <3>3, <3>4, <3>5
  <2>7. KnowsRoles'
    BY <1>1, <1>6, <2>2, <2>3 DEF IInv, KnowsRoles, GetMemberRoles, presence
  <2> QED
    BY <1>4, <2>4, <2>5, <2>6, <2>7 DEF IInv
<1> QED
  BY <1>5, <1>6

\* Telling a client that knows the guild the account's roles makes it count those.
LEMMA Counts ==
    ASSUME Truthful, KnowsGuild, joined, up, NEW s, s \subseteq DOMAIN roles,
           SetGuildMember(s), UNCHANGED roleTable, heard' = "all"
    PROVE  member' /\ GetMemberRoles' = s
<1>1. heard \in {"guild", "all"}
  BY DEF SetGuildMember
<1>2. s \subseteq DOMAIN roleTable
  BY <1>1 DEF KnowsGuild
<1> QED
  BY <1>2 DEF SetGuildMember, SetMemberRoles, GetMemberRoles

\* The account is given other roles: its rows are replaced, where it is stored.
LEMMA GivesRolesStep ==
    ASSUME IInv, GivesRoles
    PROVE  IInv'
<1>1. PICK s \in SUBSET (DOMAIN roles \ {Everyone}) :
         mine' = s /\ Changes(HandleGatewayGuildMemberUpdate(s))
  BY DEF GivesRoles
<1>2. UNCHANGED <<owner, roles, channels, retired, presence>>
  BY <1>1 DEF GivesRoles, Changes
<1>3. Truthful'
  BY <1>1, <1>2 DEF IInv, Truthful
<1>4. CASE ~(joined /\ up)
  BY <1>1, <1>2, <1>3, <1>4, Untold DEF Changes
<1>5. CASE joined /\ up
  <2>1. HandleGatewayGuildMemberUpdate(s)
    BY <1>1, <1>5 DEF Changes
  <2>2. /\ UNCHANGED <<guild, roleTable, channelTable, permissions>>
        /\ IF member THEN SetGuildMember(s) ELSE UNCHANGED <<member, memberRoles, heard>>
    BY <2>1 DEF HandleGatewayGuildMemberUpdate, members
  <2>3. Existed'
    BY <1>1, <1>2, <2>2 DEF IInv, Existed, SetGuildMember, SetMemberRoles
  <2>4. Listed'
    BY <1>2, <2>2 DEF IInv, Listed, presence
  <2>5. KnowsGuild'
    <3>1. heard' \in {"guild", "all"} => heard \in {"guild", "all"}
      BY <2>2 DEF SetGuildMember
    <3> QED
      BY <1>2, <1>5, <2>2, <3>1 DEF IInv, KnowsGuild, presence
  <2>6. KnowsRoles'
    <3>1. CASE member
      BY <1>1, <1>2, <1>5, <2>2, <3>1, Counts DEF IInv, KnowsRoles, presence
    <3>2. CASE ~member
      BY <1>2, <1>5, <2>2, <3>2 DEF IInv, KnowsRoles, presence
    <3> QED
      BY <3>1, <3>2
  <2> QED
    BY <1>3, <2>3, <2>4, <2>5, <2>6 DEF IInv
<1> QED
  BY <1>4, <1>5

\* The account's member comes with a message, a voice state or a list.
LEMMA TellsMemberStep ==
    ASSUME IInv, TellsMember
    PROVE  IInv'
<1>1. /\ joined /\ up /\ heard = "guild"
      /\ UNCHANGED <<owner, roles, mine, channels, retired, joined, up>>
      /\ UNCHANGED <<guild, roleTable, channelTable, permissions>>
      /\ SetGuildMember(mine)
  BY DEF TellsMember, MemberComes, truth, presence
<1>2. Truthful'
  BY <1>1 DEF IInv, Truthful
<1>3. Existed'
  BY <1>1 DEF IInv, Existed, Truthful, SetGuildMember, SetMemberRoles
<1>4. Listed'
  BY <1>1 DEF IInv, Listed
<1>5. KnowsGuild'
  BY <1>1 DEF IInv, KnowsGuild
<1>6. KnowsRoles'
  <2>1. mine \subseteq DOMAIN roles
    BY DEF IInv, Truthful
  <2> QED
    BY <1>1, <2>1, Counts DEF IInv, KnowsRoles
<1> QED
  BY <1>2, <1>3, <1>4, <1>5, <1>6 DEF IInv
\* The overwrites of a channel are inserted or replaced; no other channel's row is touched.
LEMMA SetsOverwrites ==
    ASSUME NEW c, NEW overwrites, SetPermissionOverwrites(c, overwrites)
    PROVE  /\ \A i \in DOMAIN overwrites : /\ <<c, i>> \in DOMAIN permissions'
                                           /\ permissions'[<<c, i>>] = overwrites[i]
           /\ \A d, i : d # c =>
                 /\ <<d, i>> \in DOMAIN permissions' <=> <<d, i>> \in DOMAIN permissions
                 /\ <<d, i>> \in DOMAIN permissions =>
                       permissions'[<<d, i>>] = permissions[<<d, i>>]
<1> DEFINE g == [x \in {c} \X DOMAIN overwrites |-> overwrites[x[2]]]
<1>1. permissions' = Replace(permissions, g)
  BY DEF SetPermissionOverwrites
<1>2. DOMAIN g = {c} \X DOMAIN overwrites /\ \A i \in DOMAIN overwrites : g[<<c, i>>] = overwrites[i]
  OBVIOUS
<1> HIDE DEF g
<1>3. /\ DOMAIN permissions' = DOMAIN permissions \cup DOMAIN g
      /\ \A x \in DOMAIN g : permissions'[x] = g[x]
      /\ \A x \in DOMAIN permissions : x \notin DOMAIN g => permissions'[x] = permissions[x]
  BY <1>1 DEF Replace
<1>4. \A d, i : <<d, i>> \in DOMAIN g <=> d = c /\ i \in DOMAIN overwrites
  BY <1>2
<1> QED
  BY <1>2, <1>3, <1>4

\* A channel is created: it is listed and its overwrites are inserted.
LEMMA CreatesChannelStep ==
    ASSUME IInv, NEW c \in Channels, CreatesChannel(c)
    PROVE  IInv'
<1>1. PICK i \in {Everyone, Me}, w \in Overwrites :
          /\ channels' = Replace(channels, [x \in {c} |-> [y \in {i} |-> w]])
          /\ Changes(HandleGatewayChannelCreate(c, channels'[c]))
  BY DEF CreatesChannel
<1>2. UNCHANGED <<owner, roles, mine, retired, presence>>
  BY <1>1 DEF CreatesChannel, Changes
<1>3. /\ DOMAIN channels' = DOMAIN channels \cup {c} /\ DOMAIN channels'[c] = {i}
      /\ \A d \in DOMAIN channels \ {c} : channels'[d] = channels[d]
  BY <1>1 DEF Replace
<1>4. Truthful'
  <2>1. i \in Ids
    BY DEF Ids
  <2> QED
    BY <1>2, <1>3, <2>1 DEF IInv, Truthful
<1>5. CASE ~(joined /\ up)
  BY <1>1, <1>2, <1>4, <1>5, Untold DEF Changes
<1>6. CASE joined /\ up
  <2>1. HandleGatewayChannelCreate(c, channels'[c])
    BY <1>1, <1>6 DEF Changes
  <2>2. /\ channelTable' = channelTable \cup {c}
        /\ SetPermissionOverwrites(c, channels'[c])
        /\ UNCHANGED <<guild, roleTable, member, memberRoles, heard>>
    BY <2>1 DEF HandleGatewayChannelCreate, members
  <2>3. /\ \A x \in DOMAIN channels'[c] : /\ <<c, x>> \in DOMAIN permissions'
                                          /\ permissions'[<<c, x>>] = channels'[c][x]
        /\ \A d, x : d # c =>
              /\ <<d, x>> \in DOMAIN permissions' <=> <<d, x>> \in DOMAIN permissions
              /\ <<d, x>> \in DOMAIN permissions =>
                    permissions'[<<d, x>>] = permissions[<<d, x>>]
    BY <2>2, SetsOverwrites
  <2>4. Existed'
    BY <1>2, <2>2 DEF IInv, Existed
  <2>5. Listed'
    BY <1>2, <1>6, <2>2 DEF IInv, Listed, presence
  <2>6. KnowsGuild'
    <3> SUFFICES ASSUME heard' \in {"guild", "all"}
                 PROVE  KnowsGuild!2'
      BY DEF KnowsGuild
    <3>1. KnowsGuild!2
      BY <1>6, <2>2 DEF IInv, KnowsGuild
    <3>2. guild' = IF owner' THEN "own" ELSE "other"
      BY <1>2, <2>2, <3>1
    <3>3. \A x \in DOMAIN roles' : x \in DOMAIN roleTable' /\ roleTable'[x] = roles'[x]
      BY <1>2, <2>2, <3>1
    <3>4. DOMAIN channels' \subseteq channelTable'
      BY <1>3, <2>2, <3>1
    <3>5. \A d \in DOMAIN channels' : \A x \in DOMAIN channels'[d] :
             <<d, x>> \in DOMAIN permissions' /\ permissions'[<<d, x>>] = channels'[d][x]
      <4> SUFFICES ASSUME NEW d \in DOMAIN channels', NEW x \in DOMAIN channels'[d]
                   PROVE  <<d, x>> \in DOMAIN permissions' /\ permissions'[<<d, x>>] = channels'[d][x]
        OBVIOUS
      <4>1. CASE d = c
        BY <2>3, <3>1, <4>1
      <4>2. CASE d # c
        <5>1. d \in DOMAIN channels /\ channels'[d] = channels[d]
          BY <1>3, <4>2
        <5>2. <<d, x>> \in DOMAIN permissions /\ permissions[<<d, x>>] = channels[d][x]
          BY <3>1, <5>1
        <5> QED
          BY <2>3, <4>2, <5>1, <5>2
      <4> QED
        BY <4>1, <4>2
    <3> QED
      BY <3>2, <3>3, <3>4, <3>5
  <2>7. KnowsRoles'
    BY <1>2, <2>2 DEF IInv, KnowsRoles, GetMemberRoles, presence
  <2> QED
    BY <1>4, <2>4, <2>5, <2>6, <2>7 DEF IInv
<1> QED
  BY <1>5, <1>6

\* An overwrite is set or removed: the channel's are inserted or replaced where it is
\* listed.  One that was removed stays, which the invariant allows.
LEMMA UpdatesChannelStep ==
    ASSUME IInv, NEW c \in Channels, UpdatesChannel(c)
    PROVE  IInv'
<1>1. PICK i \in DOMAIN roles \cup {Me} :
          /\ \/ \E w \in Overwrites :
                   channels' = [channels EXCEPT ![c] = Replace(@, [x \in {i} |-> w])]
             \/ channels' = [channels EXCEPT ![c] = Delete(@, {i})]
          /\ Changes(HandleGatewayChannelUpdate(c, channels'[c]))
  BY DEF UpdatesChannel
<1>2. c \in DOMAIN channels /\ UNCHANGED <<owner, roles, mine, retired, presence>>
  BY <1>1 DEF UpdatesChannel, Changes
<1>3. /\ DOMAIN channels' = DOMAIN channels
      /\ DOMAIN channels'[c] \subseteq DOMAIN channels[c] \cup {i}
      /\ \A d \in DOMAIN channels \ {c} : channels'[d] = channels[d]
  <2>1. CASE channels' = [channels EXCEPT ![c] = Delete(@, {i})]
    BY <1>2, <2>1 DEF Delete
  <2>2. ASSUME NEW w, channels' = [channels EXCEPT ![c] = Replace(@, [x \in {i} |-> w])]
        PROVE  <1>3
    BY <1>2, <2>2 DEF Replace
  <2> QED
    BY <1>1, <2>1, <2>2
<1>4. Truthful'
  <2>1. i \in Ids
    BY DEF Ids, IInv, Truthful
  <2>2. DOMAIN channels[c] \subseteq Ids
    BY <1>2 DEF IInv, Truthful
  <2> QED
    BY <1>2, <1>3, <2>1, <2>2 DEF IInv, Truthful
<1>5. CASE ~(joined /\ up)
  BY <1>1, <1>2, <1>4, <1>5, Untold DEF Changes
<1>6. CASE joined /\ up
  <2>1. HandleGatewayChannelUpdate(c, channels'[c])
    BY <1>1, <1>6 DEF Changes
  <2>2. /\ IF c \in channelTable THEN SetPermissionOverwrites(c, channels'[c])
                                 ELSE UNCHANGED permissions
        /\ UNCHANGED <<guild, roleTable, member, memberRoles, channelTable, heard>>
    BY <2>1 DEF HandleGatewayChannelUpdate, members
  <2>3. /\ c \in channelTable => \A x \in DOMAIN channels'[c] :
              <<c, x>> \in DOMAIN permissions' /\ permissions'[<<c, x>>] = channels'[c][x]
        /\ \A d, x : d # c =>
              /\ <<d, x>> \in DOMAIN permissions' <=> <<d, x>> \in DOMAIN permissions
              /\ <<d, x>> \in DOMAIN permissions =>
                    permissions'[<<d, x>>] = permissions[<<d, x>>]
    BY <2>2, SetsOverwrites
  <2>4. Existed'
    BY <1>2, <2>2 DEF IInv, Existed
  <2>5. Listed'
    BY <1>2, <2>2 DEF IInv, Listed, presence
  <2>6. KnowsGuild'
    <3> SUFFICES ASSUME heard' \in {"guild", "all"}
                 PROVE  KnowsGuild!2'
      BY DEF KnowsGuild
    <3>1. KnowsGuild!2
      BY <1>6, <2>2 DEF IInv, KnowsGuild
    <3>2. guild' = IF owner' THEN "own" ELSE "other"
      BY <1>2, <2>2, <3>1
    <3>3. \A x \in DOMAIN roles' : x \in DOMAIN roleTable' /\ roleTable'[x] = roles'[x]
      BY <1>2, <2>2, <3>1
    <3>4. DOMAIN channels' \subseteq channelTable'
      BY <1>3, <2>2, <3>1
    <3>5. \A d \in DOMAIN channels' : \A x \in DOMAIN channels'[d] :
             <<d, x>> \in DOMAIN permissions' /\ permissions'[<<d, x>>] = channels'[d][x]
      <4> SUFFICES ASSUME NEW d \in DOMAIN channels', NEW x \in DOMAIN channels'[d]
                   PROVE  <<d, x>> \in DOMAIN permissions' /\ permissions'[<<d, x>>] = channels'[d][x]
        OBVIOUS
      <4>1. CASE d = c
        BY <1>2, <2>3, <3>1, <4>1
      <4>2. CASE d # c
        <5>1. d \in DOMAIN channels /\ channels'[d] = channels[d]
          BY <1>3, <4>2
        <5>2. <<d, x>> \in DOMAIN permissions /\ permissions[<<d, x>>] = channels[d][x]
          BY <3>1, <5>1
        <5> QED
          BY <2>3, <4>2, <5>1, <5>2
      <4> QED
        BY <4>1, <4>2
    <3> QED
      BY <3>2, <3>3, <3>4, <3>5
  <2>7. KnowsRoles'
    BY <1>2, <2>2 DEF IInv, KnowsRoles, GetMemberRoles, presence
  <2> QED
    BY <1>4, <2>4, <2>5, <2>6, <2>7 DEF IInv
<1> QED
  BY <1>5, <1>6

\* A channel is deleted: its row goes and its overwrites stay.
LEMMA DeletesChannelStep ==
    ASSUME IInv, NEW c \in Channels, DeletesChannel(c)
    PROVE  IInv'
<1>1. /\ channels' = Delete(channels, {c}) /\ retired' = retired \cup {c}
      /\ Changes(HandleGatewayChannelDelete(c))
      /\ UNCHANGED <<owner, roles, mine, presence>>
  BY DEF DeletesChannel, Changes
<1>2. /\ DOMAIN channels' = DOMAIN channels \ {c}
      /\ \A d \in DOMAIN channels \ {c} : channels'[d] = channels[d]
  BY <1>1, Deleted
<1>3. Truthful'
  BY <1>1, <1>2 DEF IInv, Truthful
<1>4. CASE ~(joined /\ up)
  BY <1>1, <1>3, <1>4, Untold DEF Changes
<1>5. CASE joined /\ up
  <2>1. HandleGatewayChannelDelete(c)
    BY <1>1, <1>5 DEF Changes
  <2>2. /\ channelTable' = channelTable \ {c}
        /\ UNCHANGED <<guild, roleTable, member, memberRoles, permissions, heard>>
    BY <2>1 DEF HandleGatewayChannelDelete, members
  <2>3. Existed'
    BY <1>1, <2>2 DEF IInv, Existed
  <2>4. Listed'
    BY <1>1, <2>2 DEF IInv, Listed, presence
  <2>5. KnowsGuild'
    <3> SUFFICES ASSUME heard' \in {"guild", "all"}
                 PROVE  KnowsGuild!2'
      BY DEF KnowsGuild
    <3>1. KnowsGuild!2
      BY <1>5, <2>2 DEF IInv, KnowsGuild
    <3>2. guild' = IF owner' THEN "own" ELSE "other"
      BY <1>1, <2>2, <3>1
    <3>3. \A x \in DOMAIN roles' : x \in DOMAIN roleTable' /\ roleTable'[x] = roles'[x]
      BY <1>1, <2>2, <3>1
    <3>4. DOMAIN channels' \subseteq channelTable'
      BY <1>2, <2>2, <3>1
    <3>5. \A d \in DOMAIN channels' : \A x \in DOMAIN channels'[d] :
             <<d, x>> \in DOMAIN permissions' /\ permissions'[<<d, x>>] = channels'[d][x]
      BY <1>2, <2>2, <3>1
    <3> QED
      BY <3>2, <3>3, <3>4, <3>5
  <2>6. KnowsRoles'
    BY <1>1, <2>2 DEF IInv, KnowsRoles, GetMemberRoles, presence
  <2> QED
    BY <1>3, <2>3, <2>4, <2>5, <2>6 DEF IInv
<1> QED
  BY <1>4, <1>5

\* The guild changes hands: everything may be seen then, or no longer.
LEMMA ChangesOwnerStep ==
    ASSUME IInv, ChangesOwner
    PROVE  IInv'
<1>1. /\ owner' = ~owner /\ Changes(HandleGatewayGuildUpdate(~owner))
      /\ UNCHANGED <<roles, mine, channels, retired, presence>>
  BY DEF ChangesOwner, Changes
<1>2. Truthful'
  BY <1>1 DEF IInv, Truthful
<1>3. CASE ~(joined /\ up)
  BY <1>1, <1>2, <1>3, Untold DEF Changes
<1>4. CASE joined /\ up
  <2>1. HandleGatewayGuildUpdate(~owner)
    BY <1>1, <1>4 DEF Changes
  <2>2. /\ guild' = IF guild = "none" THEN "none" ELSE IF ~owner THEN "own" ELSE "other"
        /\ UNCHANGED <<roleTable, member, memberRoles, channelTable, permissions, heard>>
    BY <2>1 DEF HandleGatewayGuildUpdate, members
  <2>3. Existed'
    BY <1>1, <2>2 DEF IInv, Existed
  <2>4. Listed'
    BY <1>1, <1>4, <2>2 DEF IInv, Listed, presence
  <2>5. KnowsGuild'
    BY <1>1, <1>4, <2>2 DEF IInv, KnowsGuild, Listed, presence
  <2>6. KnowsRoles'
    BY <1>1, <2>2 DEF IInv, KnowsRoles, GetMemberRoles, presence
  <2> QED
    BY <1>2, <2>3, <2>4, <2>5, <2>6 DEF IInv
<1> QED
  BY <1>3, <1>4
----------------------------------------------------------------------------
(* Joining, leaving, and sessions *)

\* Bringing the guild inserts all that the server has of it.
LEMMA Brings ==
    ASSUME Truthful, UNCHANGED truth, ProcessNewGuild
    PROVE  KnowsGuild' /\ guild' # "none"
<1>1. UNCHANGED <<owner, roles, mine, channels, retired>>
  BY DEF truth
<1>2. guild' = IF owner THEN "own" ELSE "other"
  BY DEF ProcessNewGuild
<1>3. \A r \in DOMAIN roles : r \in DOMAIN roleTable' /\ roleTable'[r] = roles[r]
  BY DEF ProcessNewGuild, Replace
<1>4. DOMAIN channels \subseteq channelTable'
  BY DEF ProcessNewGuild
<1>5. ASSUME NEW c \in DOMAIN channels, NEW i \in DOMAIN channels[c]
      PROVE  <<c, i>> \in DOMAIN permissions' /\ permissions'[<<c, i>>] = channels[c][i]
  <2> DEFINE told == {y \in Channels \X Ids : y[1] \in DOMAIN channels /\ y[2] \in DOMAIN channels[y[1]]}
             g == [x \in told |-> channels[x[1]][x[2]]]
  <2>1. permissions' = Replace(permissions, g)
    BY DEF ProcessNewGuild
  <2>2. <<c, i>> \in told
    <3>1. c \in Channels /\ i \in Ids
      BY <1>5 DEF Truthful
    <3> QED
      BY <1>5, <3>1
  <2>3. DOMAIN g = told /\ g[<<c, i>>] = channels[c][i]
    BY <2>2
  <2> HIDE DEF told, g
  <2>4. <<c, i>> \in DOMAIN permissions' /\ permissions'[<<c, i>>] = g[<<c, i>>]
    BY <2>1, <2>2, <2>3 DEF Replace
  <2> QED
    BY <2>3, <2>4
<1> QED
  BY <1>1, <1>2, <1>3, <1>4, <1>5 DEF KnowsGuild

\* The account leaves or the guild becomes unavailable: its row and its channels go.
LEMMA GoesStep ==
    ASSUME IInv, Goes
    PROVE  IInv'
<1>1. /\ joined' = FALSE /\ mine' \in {mine, {}}
      /\ UNCHANGED <<owner, roles, channels, retired, up>>
      /\ IF up THEN HandleGatewayGuildDelete ELSE UNCHANGED client
  BY DEF Goes
<1>2. Truthful'
  BY <1>1 DEF IInv, Truthful
<1>3. KnowsGuild' /\ KnowsRoles'
  BY <1>1 DEF KnowsGuild, KnowsRoles
<1>4. UNCHANGED memberRoles
  BY <1>1 DEF HandleGatewayGuildDelete, client, tables, members
<1>5. Existed'
  BY <1>1, <1>4 DEF IInv, Existed
<1>6. CASE up
  <2>1. guild' = "none" /\ channelTable' = {}
    BY <1>1, <1>6 DEF HandleGatewayGuildDelete, IInv, Listed
  <2>2. Listed'
    BY <1>1, <2>1 DEF Listed
  <2> QED
    BY <1>2, <1>3, <1>5, <2>2 DEF IInv
<1>7. CASE ~up
  <2>1. Listed'
    BY <1>1, <1>7 DEF IInv, Listed, client, tables
  <2> QED
    BY <1>2, <1>3, <1>5, <2>1 DEF IInv
<1> QED
  BY <1>6, <1>7

\* The account joins, or the guild is available again: where it is not stored all of it
\* is brought, but the account's roles are not.
LEMMA ComesBackStep ==
    ASSUME IInv, ComesBack
    PROVE  IInv'
<1>1. /\ ~joined /\ joined'
      /\ IF up THEN HandleGatewayGuildCreate ELSE UNCHANGED client
      /\ UNCHANGED <<truth, owner, roles, mine, channels, retired, up>>
  BY DEF ComesBack, truth
<1>2. Truthful'
  BY <1>1 DEF IInv, Truthful
<1>3. CASE ~up
  <2>1. UNCHANGED <<guild, roleTable, member, memberRoles, channelTable, permissions>>
    BY <1>1, <1>3 DEF client, tables, members
  <2>2. Existed' /\ Listed'
    BY <1>1, <1>3, <2>1 DEF IInv, Existed, Listed
  <2>3. KnowsGuild' /\ KnowsRoles'
    BY <1>1, <1>3 DEF KnowsGuild, KnowsRoles
  <2> QED
    BY <1>2, <2>2, <2>3 DEF IInv
<1>4. CASE up /\ guild # "none"
  <2>1. /\ UNCHANGED <<guild, roleTable, member, memberRoles, channelTable, permissions>>
        /\ heard' = "nothing"
    BY <1>1, <1>4 DEF HandleGatewayGuildCreate, tables, members
  <2>2. Existed' /\ Listed'
    BY <1>1, <1>4, <2>1 DEF IInv, Existed, Listed
  <2>3. KnowsGuild' /\ KnowsRoles'
    BY <2>1 DEF KnowsGuild, KnowsRoles
  <2> QED
    BY <1>2, <2>2, <2>3 DEF IInv
<1>5. CASE up /\ guild = "none"
  <2>1. /\ ProcessNewGuild /\ UNCHANGED memberRoles
        /\ heard' = "guild"
    BY <1>1, <1>5 DEF HandleGatewayGuildCreate, members
  <2>2. KnowsGuild' /\ guild' # "none"
    BY <1>1, <2>1, Brings DEF IInv
  <2>3. KnowsRoles'
    BY <2>1 DEF KnowsRoles
  <2>4. channelTable = {} /\ channelTable' = DOMAIN channels
    BY <1>5, <2>1 DEF IInv, Listed, ProcessNewGuild
  <2>5. Existed'
    BY <1>1, <2>1 DEF IInv, Existed
  <2>6. Listed'
    BY <1>1, <2>2, <2>4 DEF IInv, Listed, Truthful
  <2> QED
    BY <1>2, <2>2, <2>3, <2>5, <2>6 DEF IInv
<1> QED
  BY <1>3, <1>4, <1>5

\* A session ends, and perhaps the store is cleared.
LEMMA SessionEndsStep ==
    ASSUME IInv, SessionEnds
    PROVE  IInv'
<1>1. /\ ClearAll \/ UNCHANGED client
      /\ UNCHANGED <<owner, roles, mine, channels, retired, joined>>
  BY DEF SessionEnds, truth
<1>2. ~up'
  BY DEF SessionEnds
<1>3. Truthful'
  BY <1>1 DEF IInv, Truthful
<1>4. KnowsGuild' /\ KnowsRoles'
  BY <1>2 DEF KnowsGuild, KnowsRoles
<1>5. Existed' /\ Listed'
  <2>1. CASE ClearAll
    BY <1>1, <1>2, <2>1 DEF IInv, Existed, Listed, ClearAll
  <2>2. CASE UNCHANGED client
    BY <1>1, <1>2, <2>2 DEF IInv, Existed, Listed, client, tables, members
  <2> QED
    BY <1>1, <2>1, <2>2
<1> QED
  BY <1>3, <1>4, <1>5 DEF IInv

\* A session begins: READY brings the guild with the account's member.
LEMMA SessionBeginsStep ==
    ASSUME IInv, SessionBegins
    PROVE  IInv'
<1>1. /\ up' /\ HandleGatewayReady
      /\ UNCHANGED <<truth, owner, roles, mine, channels, retired, joined>>
  BY DEF SessionBegins, truth
<1>2. Truthful'
  BY <1>1 DEF IInv, Truthful
<1>3. CASE joined
  <2>1. ProcessNewGuild /\ SetMemberRoles(mine) /\ heard' = "all"
    BY <1>1, <1>3 DEF HandleGatewayReady
  <2>2. KnowsGuild' /\ guild' # "none"
    BY <1>1, <2>1, Brings DEF IInv
  <2>3. mine \subseteq DOMAIN roles
    BY DEF IInv, Truthful
  <2>4. mine \subseteq DOMAIN roleTable'
    BY <1>1, <1>3, <2>1, <2>2, <2>3 DEF KnowsGuild
  <2>5. KnowsRoles'
    BY <1>1, <2>1, <2>4 DEF KnowsRoles, SetMemberRoles, GetMemberRoles
  <2>6. Existed'
    BY <1>1, <2>1, <2>3 DEF IInv, Existed, SetMemberRoles
  <2>7. channelTable' = channelTable \cup DOMAIN channels
    BY <2>1 DEF ProcessNewGuild
  <2>8. Listed'
    BY <1>1, <2>2, <2>7 DEF IInv, Listed, Truthful
  <2> QED
    BY <1>2, <2>2, <2>5, <2>6, <2>8 DEF IInv
<1>4. CASE ~joined
  <2>1. UNCHANGED <<guild, memberRoles, channelTable>>
    BY <1>1, <1>4 DEF HandleGatewayReady, client, tables, members
  <2>2. KnowsGuild' /\ KnowsRoles'
    BY <1>1, <1>4 DEF KnowsGuild, KnowsRoles
  <2>3. Existed'
    BY <1>1, <2>1 DEF IInv, Existed
  <2>4. Listed'
    BY <1>1, <1>4, <2>1 DEF IInv, Listed
  <2> QED
    BY <1>2, <2>2, <2>3, <2>4 DEF IInv
<1> QED
  BY <1>3, <1>4

----------------------------------------------------------------------------
(* The theorems *)

\* The guild as READY has brought it.
LEMMA Begins == Init => IInv
<1> SUFFICES ASSUME Init PROVE IInv
  OBVIOUS
<1>1. /\ owner = FALSE /\ guild = "other" /\ roleTable = roles /\ memberRoles = mine
      /\ joined /\ up /\ member /\ heard = "all" /\ retired = {}
      /\ channelTable = DOMAIN channels
      /\ permissions = [x \in UNION {{c} \X DOMAIN channels[c] : c \in DOMAIN channels}
                           |-> channels[x[1]][x[2]]]
  BY DEF Init
<1>2. PICK r \in Roles, c \in Channels :
         /\ roles \in [{Everyone, r} -> Grants] /\ mine \in SUBSET {r}
         /\ \E D \in SUBSET {Everyone, r, Me} : channels \in [{c} -> [D -> Overwrites]]
  BY DEF Init
<1>3. Truthful
  BY <1>2, PermissionsAssumption DEF Truthful, Ids
<1>4. Existed
  BY <1>1, <1>3 DEF Existed, Truthful
<1>5. Listed
  BY <1>1, <1>3 DEF Listed, Truthful
<1>6. KnowsGuild
  <2> SUFFICES ASSUME NEW d \in DOMAIN channels, NEW i \in DOMAIN channels[d]
               PROVE  <<d, i>> \in DOMAIN permissions /\ permissions[<<d, i>>] = channels[d][i]
    BY <1>1 DEF KnowsGuild
  <2>1. <<d, i>> \in UNION {{e} \X DOMAIN channels[e] : e \in DOMAIN channels}
    <3>1. <<d, i>> \in {d} \X DOMAIN channels[d]
      OBVIOUS
    <3> QED
      BY <3>1
  <2> QED
    BY <1>1, <2>1
<1>7. KnowsRoles
  BY <1>1, <1>3 DEF KnowsRoles, GetMemberRoles, Truthful
<1> QED
  BY <1>3, <1>4, <1>5, <1>6, <1>7 DEF IInv

\* A step of nobody.
LEMMA Stutters ==
    ASSUME IInv, UNCHANGED vars
    PROVE  IInv'
<1> USE DEF vars, truth, presence, client, tables, members
<1>1. Truthful' /\ Existed' /\ Listed'
  BY DEF IInv, Truthful, Existed, Listed
<1>2. KnowsGuild' /\ KnowsRoles'
  BY DEF IInv, KnowsGuild, KnowsRoles, GetMemberRoles
<1> QED
  BY <1>1, <1>2 DEF IInv

\* What the server has is well formed, and the tables contain all of it that was told.
THEOREM TablesComplete == Spec => []IInv
<1>1. ASSUME IInv, [Next]_vars
      PROVE  IInv'
  <2>1. CASE \E r \in Roles \cup {Everyone} : CreatesRole(r) \/ UpdatesRole(r) \/ DeletesRole(r)
    BY <1>1, <2>1, CreatesRoleStep, UpdatesRoleStep, DeletesRoleStep
  <2>2. CASE \E c \in Channels : CreatesChannel(c) \/ UpdatesChannel(c) \/ DeletesChannel(c)
    BY <1>1, <2>2, CreatesChannelStep, UpdatesChannelStep, DeletesChannelStep
  <2>3. CASE GivesRoles \/ TellsMember \/ ChangesOwner
    BY <1>1, <2>3, GivesRolesStep, TellsMemberStep, ChangesOwnerStep
  <2>4. CASE Goes \/ ComesBack \/ SessionEnds \/ SessionBegins
    BY <1>1, <2>4, GoesStep, ComesBackStep, SessionEndsStep, SessionBeginsStep
  <2>5. CASE UNCHANGED vars
    BY <1>1, <2>5, Stutters
  <2> QED
    BY <1>1, <2>1, <2>2, <2>3, <2>4, <2>5 DEF Next, Server
<1> QED
  BY <1>1, Begins, PTL DEF Spec

\* Where no overwrite is stored that the server has removed, the client's answer is the
\* server's, whatever was changed and missed, for any roles, channels and overwrites.
THEOREM AnswersAsGranted == Spec => []ComputesWhatIsGranted
<1>1. IInv => ComputesWhatIsGranted
  BY KnowsEnough DEF IInv
<1> QED
  BY <1>1, TablesComplete, PTL

\* Nothing may be seen of a guild that is gone.
THEOREM GoneShowsNothing == Spec => []GoneIsUnseen
<1>1. IInv => GoneIsUnseen
  BY DEF IInv, Listed, GoneIsUnseen, HasChannelPermission
<1> QED
  BY <1>1, TablesComplete, PTL
----------------------------------------------------------------------------
(* The login: what its invariants are made of *)

Handler == [fn : {"Restart", "Close", "Closed", "Token", "Refused", "Destroy"},
            pc : {"go", "pump", "confirm"}]

\* What the main thread may be notified of, by which of n connections.
Letter == [op : {"close"}]
            \cup [op : {"hello", "nonce_proof", "pending_login", "cancel"}, conn : Nat]
            \cup [op : {"answer"}, conn : Nat, ok : BOOLEAN]
Letters == Seq(Letter)
Numbered(q, n) == \A i \in DOMAIN q : q[i].op # "close" => q[i].conn \in 1..n

LoginTypeOK ==
    /\ dialog \in {"open", "closing", "gone"}
    /\ response \in {"none", "ok", "pressed", "cancel"}
    /\ token \in Nat /\ connected \in BOOLEAN /\ sock \in Nat \ {0}
    /\ phase \in {"connecting", "open", "closed"}
    /\ stage \in {"wait", "hello", "init", "nonce_proof", "proved", "pending_login", "cancel"}
    /\ heartbeat \in 0..sock /\ killed \in BOOLEAN /\ timers \in SUBSET (1..sock)
    /\ timeout \in 0..sock /\ key \in 0..sock
    /\ inbox \in Letters /\ Numbered(inbox, sock) /\ requests \in SUBSET (1..sock) /\ locked \in BOOLEAN
    /\ frames \in Seq(Handler) /\ crashed \in BOOLEAN

\* A handler that waits in the Stop of the client: it will join the heartbeat.
Joins(f) == f.fn # "Close" /\ f.pc = "pump"

\* Of a stack of handlers: one or two of them will join the heartbeat, one stops the
\* client (Close only its socket), one restarts, ends or reads the login, and what
\* is above what.
Joining(s)      == \E i \in DOMAIN s : Joins(s[i])
JoiningTwice(s) == \E i, j \in DOMAIN s : i < j /\ Joins(s[i]) /\ Joins(s[j])
Stops(s)        == \E i \in DOMAIN s : s[i].fn # "Close"
Holds(s, fn)    == \E i \in DOMAIN s : s[i].fn = fn
RestartOver(s)  == \E i, j \in DOMAIN s : i < j /\ s[i].fn = "Restart" /\ Joins(s[i]) /\ Joins(s[j])
CloseOver(s)    == \E i, j \in DOMAIN s : i < j /\ s[i].fn = "Close" /\ s[j].fn = "Restart"
Under(s)        == \A i \in DOMAIN s : s[i].fn \in {"Restart", "Destroy"} => i = Len(s)
Waits(f)        == f.pc # "go" /\ (f.pc = "confirm" => f.fn \in {"Closed", "Refused"})
Waiting(s)      == \A i \in DOMAIN s : Waits(s[i])
AtGo(fn)        == frames # <<>> /\ Head(frames) = [fn |-> fn, pc |-> "go"]

\* Of a queue of notifications: it holds one of a kind, a close is behind every hello
\* and cancel, or only there, and it is what is left of another, closes apart.
Has(q, op)      == \E i \in DOMAIN q : q[i].op = op
Followed(q)     == \A i \in DOMAIN q : q[i].op \in {"hello", "cancel"} =>
                       \E j \in DOMAIN q : i < j /\ q[j].op = "close"
ClosesLast(q)   == \A i, j \in DOMAIN q :
                       q[i].op = "close" /\ q[j].op \in {"hello", "cancel"} => j < i

LeftOf(q, p, d) == \A i \in DOMAIN q : q[i].op = "close" \/ (i + d \in DOMAIN p /\ q[i] = p[i + d])

\* What a restart must not leave behind, and the queue without it.
Kept  == {"hello", "cancel"} \cup ({"answer"} \ late)
Quiet == \A op \in Kept : ~Has(inbox, op)

\* A hello that waits will find a thread in m_heartbeat_thread: the next Stop to
\* return, which would join it, waits for that hello.
Doomed == Has(inbox, "hello") /\ heartbeat # 0
Live   == ~crashed /\ ~Doomed
----------------------------------------------------------------------------
(* The login: the inductive invariant *)

\* What holds also of a login that is doomed or has crashed.
Shape ==
    /\ ~connected => phase = "closed"
    /\ phase = "connecting" => stage = "wait"
    /\ frames # <<>> => Waiting(Tail(frames))
    /\ frames # <<>> /\ Head(frames).pc = "confirm" => Head(frames).fn \in {"Closed", "Refused"}
    /\ AtGo("Restart") => ~connected
    /\ response = "none" => ~Holds(frames, "Destroy")
    /\ response = "none" /\ (~connected \/ killed) => Stops(frames)

\* A connection is at one step of the login at a time: its one message or answer in the
\* queue, or its request, is that of the stage it is at.
OneStep ==
    /\ \A i \in DOMAIN inbox : inbox[i].op # "close" /\ inbox[i].conn = sock =>
          /\ inbox[i].op = stage \/ (inbox[i].op = "answer" /\ stage = "pending_login")
          /\ sock \notin requests
          /\ \A j \in DOMAIN inbox : inbox[j].op # "close" /\ inbox[j].conn = sock => j = i
    /\ sock \in requests => stage = "pending_login"
    /\ \A i \in DOMAIN inbox : inbox[i].op \in Kept => inbox[i].conn = sock

\* The key is the connection's own from its hello on.
KeyFollows ==
    /\ stage = "wait" => key # sock
    /\ stage \notin {"wait", "hello"} => key = sock
    /\ Has(inbox, "hello") => key # sock

\* One timeout is armed, that of the connection.
TimeoutFollows ==
    /\ timers \subseteq {timeout}
    /\ connected /\ key # sock => timers = {}
    /\ ~connected /\ timers # {} => Quiet
    /\ response = "none" /\ connected /\ key = sock /\ ~Stops(frames) => timers = {sock}

\* The heartbeat is that of the connection, unless a handler will join it.
HeartbeatFollows ==
    /\ heartbeat # 0 => (connected /\ heartbeat = sock /\ key = sock) \/ Joining(frames)
    /\ connected /\ key = sock => heartbeat = sock
    /\ ~connected /\ Has(inbox, "hello") => Joining(frames)
    /\ Joining(frames) /\ connected => heartbeat # 0 /\ key # sock
    /\ Joining(frames) /\ ~connected /\ (timers # {} \/ Has(inbox, "cancel")) => heartbeat # 0
    /\ Joining(frames) /\ AtGo("Restart") => heartbeat # 0
    /\ JoiningTwice(frames) => /\ ~connected /\ timers = {}
                               /\ ~Has(inbox, "cancel") /\ ~Has(inbox, "hello")
    /\ JoiningTwice(frames) => ~AtGo("Restart")
    /\ ~RestartOver(frames)

\* A client that is to be started again hears of nothing from before; one that was
\* started inside another restart hears of a close.
RestartFollows ==
    /\ AtGo("Restart") => Quiet
    /\ Holds(frames, "Restart") /\ ~connected => timers = {} /\ ~Has(inbox, "hello")
    /\ phase = "closed" => Followed(inbox)
    /\ AtGo("Restart") /\ Holds(Tail(frames), "Restart") => Has(inbox, "close")
    /\ connected /\ Holds(frames, "Restart") => Has(inbox, "close") \/ CloseOver(frames)

\* A doomed login waits in a Stop.
DoomedJoins == ~crashed /\ Doomed => Joining(frames)

LiveInv  == OneStep /\ KeyFollows /\ TimeoutFollows /\ HeartbeatFollows /\ RestartFollows
LoginInv == LoginTypeOK /\ Shape /\ DoomedJoins /\ (Live => LiveInv)

\* An answer that is in time finds the key that its login was begun with, or a hello
\* before it that crashes; so a login that ends has a token.
Answered(q, k, h) ==
    \A i \in DOMAIN q : q[i].op = "answer" =>
        \/ k = q[i].conn /\ \A j \in 1..i : q[j].op # "hello"
        \/ h # 0 /\ \E j \in 1..i : q[j].op = "hello"
HasToken == response = "ok" \/ Holds(frames, "Token") => token # 0
Readable == "answer" \notin late => (~crashed => Answered(inbox, key, heartbeat)) /\ HasToken

\* When nothing comes late, nothing that would crash waits behind a Stop.
OnTime ==
    /\ ~crashed /\ ClosesLast(inbox)
    /\ frames # <<>> \/ ~connected \/ response # "none" =>
          ~Has(inbox, "hello") /\ ~Has(inbox, "cancel")
    /\ Has(inbox, "close") \/ frames # <<>> \/ ~connected => phase = "closed"
    /\ ~connected => timers = {}
    /\ Stops(frames) => ~connected
    /\ Under(frames)
    /\ ~connected /\ Has(inbox, "answer") => Joining(frames)
    /\ locked => ~Has(inbox, "answer")
    /\ AtGo("Destroy") \/ dialog = "gone" => ~connected /\ ~Has(inbox, "answer")
    /\ dialog = "gone" => ~Stops(frames)
    /\ AtGo("Restart") => ~Has(inbox, "close")
InTimeInv == late = {} => OnTime
----------------------------------------------------------------------------
(* The login: how stacks and queues change *)

\* Every stack has a top.
LEMMA TopAndRest ==
    ASSUME NEW s \in Seq(Handler), s # <<>>
    PROVE  Head(s) \in Handler /\ Tail(s) \in Seq(Handler) /\ s = <<Head(s)>> \o Tail(s)
<1> DEFINE t == <<Head(s)>> \o Tail(s)
<1>1. /\ Len(s) \in Nat \ {0} /\ s[1] = Head(s) /\ Head(s) \in Handler
      /\ Tail(s) \in Seq(Handler) /\ Len(Tail(s)) = Len(s) - 1
      /\ \A i \in 1..Len(Tail(s)) : Tail(s)[i] = s[i + 1]
    BY HeadTailProperties
<1>2. t \in Seq(Handler) /\ Len(t) = Len(s) /\ t[1] = Head(s)
      /\ \A i \in 1..Len(s) : i # 1 => t[i] = Tail(s)[i - 1]
    BY <1>1
<1> HIDE DEF t
<1>3. \A i \in 1..Len(s) : t[i] = s[i]
    BY <1>1, <1>2
<1> QED BY <1>1, <1>2, <1>3, SeqEqual DEF t

\* What is to be known of a stack, from its top and the rest.
LEMMA OnTop ==
    ASSUME NEW f \in Handler, NEW s \in Seq(Handler), NEW t, t = <<f>> \o s
    PROVE  /\ t \in Seq(Handler) /\ t # <<>> /\ Head(t) = f /\ Tail(t) = s
           /\ Joining(t) <=> Joins(f) \/ Joining(s)
           /\ JoiningTwice(t) <=> (Joins(f) /\ Joining(s)) \/ JoiningTwice(s)
           /\ Stops(t) <=> f.fn # "Close" \/ Stops(s)
           /\ \A fn : Holds(t, fn) <=> f.fn = fn \/ Holds(s, fn)
           /\ RestartOver(t) <=> (f.fn = "Restart" /\ Joins(f) /\ Joining(s)) \/ RestartOver(s)
           /\ CloseOver(t) <=> (f.fn = "Close" /\ Holds(s, "Restart")) \/ CloseOver(s)
           /\ Waiting(t) <=> Waits(f) /\ Waiting(s)
           /\ Under(t) <=> (f.fn \in {"Restart", "Destroy"} => s = <<>>) /\ Under(s)
<1>1. /\ t \in Seq(Handler) /\ t # <<>> /\ Head(t) = f
      /\ Len(s) \in Nat /\ Len(t) = Len(s) + 1 /\ DOMAIN t = 1..Len(t) /\ DOMAIN s = 1..Len(s)
      /\ t[1] = f /\ \A i \in 1..Len(s) : t[i + 1] = s[i]
    OBVIOUS
<1>2. Tail(t) = s
    <2>1. Tail(t) \in Seq(Handler) /\ Len(Tail(t)) = Len(s)
          /\ \A i \in 1..Len(s) : Tail(t)[i] = t[i + 1]
        BY <1>1, HeadTailProperties
    <2> QED BY <1>1, <2>1, SeqEqual
<1>3. \A i \in DOMAIN t : i = 1 \/ (i - 1 \in DOMAIN s /\ t[i] = s[i - 1])
    BY <1>1
<1>4. \A i \in DOMAIN s : i + 1 \in DOMAIN t /\ t[i + 1] = s[i]
    BY <1>1
<1>5. 1 \in DOMAIN t /\ t[1] = f /\ DOMAIN s \subseteq Nat \ {0} /\ DOMAIN t \subseteq Nat \ {0}
    BY <1>1
<1>6. (s = <<>>) <=> Len(s) = 0
    BY <1>1
<1>7. Joining(t) <=> Joins(f) \/ Joining(s)
    BY <1>3, <1>4, <1>5 DEF Joining
<1>8. JoiningTwice(t) <=> (Joins(f) /\ Joining(s)) \/ JoiningTwice(s)
    <2>1. JoiningTwice(t) => (Joins(f) /\ Joining(s)) \/ JoiningTwice(s)
        <3> SUFFICES ASSUME NEW i \in DOMAIN t, NEW j \in DOMAIN t, i < j, Joins(t[i]), Joins(t[j])
                     PROVE  (Joins(f) /\ Joining(s)) \/ JoiningTwice(s)
            BY DEF JoiningTwice
        <3>1. j - 1 \in DOMAIN s /\ t[j] = s[j - 1]
            BY <1>3, <1>5
        <3>2. CASE i = 1
            BY <3>1, <3>2, <1>5 DEF Joining
        <3>3. CASE i # 1
            BY <3>1, <3>3, <1>3, <1>5 DEF JoiningTwice
        <3> QED BY <3>2, <3>3
    <2>2. ASSUME Joins(f), NEW j \in DOMAIN s, Joins(s[j]) PROVE JoiningTwice(t)
        <3>1. 1 < j + 1 /\ j + 1 \in DOMAIN t /\ t[j + 1] = s[j]
            BY <1>4, <1>5
        <3> QED BY <1>5, <2>2, <3>1 DEF JoiningTwice
    <2>3. ASSUME NEW i \in DOMAIN s, NEW j \in DOMAIN s, i < j, Joins(s[i]), Joins(s[j])
          PROVE  JoiningTwice(t)
        <3>1. i + 1 < j + 1 /\ i + 1 \in DOMAIN t /\ t[i + 1] = s[i]
              /\ j + 1 \in DOMAIN t /\ t[j + 1] = s[j]
            BY <1>4, <1>5, <2>3
        <3> QED BY <2>3, <3>1 DEF JoiningTwice
    <2> QED BY <2>1, <2>2, <2>3 DEF Joining, JoiningTwice
<1>9. Stops(t) <=> f.fn # "Close" \/ Stops(s)
    BY <1>3, <1>4, <1>5 DEF Stops
<1>10. ASSUME NEW fn PROVE Holds(t, fn) <=> f.fn = fn \/ Holds(s, fn)
    BY <1>3, <1>4, <1>5 DEF Holds
<1>11. RestartOver(t) <=> (f.fn = "Restart" /\ Joins(f) /\ Joining(s)) \/ RestartOver(s)
    <2>1. RestartOver(t) => (f.fn = "Restart" /\ Joins(f) /\ Joining(s)) \/ RestartOver(s)
        <3> SUFFICES ASSUME NEW i \in DOMAIN t, NEW j \in DOMAIN t, i < j,
                            t[i].fn = "Restart", Joins(t[i]), Joins(t[j])
                     PROVE  (f.fn = "Restart" /\ Joins(f) /\ Joining(s)) \/ RestartOver(s)
            BY DEF RestartOver
        <3>1. j - 1 \in DOMAIN s /\ t[j] = s[j - 1]
            BY <1>3, <1>5
        <3>2. CASE i = 1
            BY <3>1, <3>2, <1>5 DEF Joining
        <3>3. CASE i # 1
            BY <3>1, <3>3, <1>3, <1>5 DEF RestartOver
        <3> QED BY <3>2, <3>3
    <2>2. ASSUME f.fn = "Restart", Joins(f), NEW j \in DOMAIN s, Joins(s[j])
          PROVE  RestartOver(t)
        <3>1. 1 < j + 1 /\ j + 1 \in DOMAIN t /\ t[j + 1] = s[j]
            BY <1>4, <1>5
        <3> QED BY <1>5, <2>2, <3>1 DEF RestartOver
    <2>3. ASSUME NEW i \in DOMAIN s, NEW j \in DOMAIN s, i < j,
                 s[i].fn = "Restart", Joins(s[i]), Joins(s[j])
          PROVE  RestartOver(t)
        <3>1. i + 1 < j + 1 /\ i + 1 \in DOMAIN t /\ t[i + 1] = s[i]
              /\ j + 1 \in DOMAIN t /\ t[j + 1] = s[j]
            BY <1>4, <1>5, <2>3
        <3> QED BY <2>3, <3>1 DEF RestartOver
    <2> QED BY <2>1, <2>2, <2>3 DEF Joining, RestartOver
<1>12. CloseOver(t) <=> (f.fn = "Close" /\ Holds(s, "Restart")) \/ CloseOver(s)
    <2>1. CloseOver(t) => (f.fn = "Close" /\ Holds(s, "Restart")) \/ CloseOver(s)
        <3> SUFFICES ASSUME NEW i \in DOMAIN t, NEW j \in DOMAIN t, i < j,
                            t[i].fn = "Close", t[j].fn = "Restart"
                     PROVE  (f.fn = "Close" /\ Holds(s, "Restart")) \/ CloseOver(s)
            BY DEF CloseOver
        <3>1. j - 1 \in DOMAIN s /\ t[j] = s[j - 1]
            BY <1>3, <1>5
        <3>2. CASE i = 1
            BY <3>1, <3>2, <1>5 DEF Holds
        <3>3. CASE i # 1
            BY <3>1, <3>3, <1>3, <1>5 DEF CloseOver
        <3> QED BY <3>2, <3>3
    <2>2. ASSUME f.fn = "Close", NEW j \in DOMAIN s, s[j].fn = "Restart" PROVE CloseOver(t)
        <3>1. 1 < j + 1 /\ j + 1 \in DOMAIN t /\ t[j + 1] = s[j]
            BY <1>4, <1>5
        <3> QED BY <1>5, <2>2, <3>1 DEF CloseOver
    <2>3. ASSUME NEW i \in DOMAIN s, NEW j \in DOMAIN s, i < j,
                 s[i].fn = "Close", s[j].fn = "Restart"
          PROVE  CloseOver(t)
        <3>1. i + 1 < j + 1 /\ i + 1 \in DOMAIN t /\ t[i + 1] = s[i]
              /\ j + 1 \in DOMAIN t /\ t[j + 1] = s[j]
            BY <1>4, <1>5, <2>3
        <3> QED BY <2>3, <3>1 DEF CloseOver
    <2> QED BY <2>1, <2>2, <2>3 DEF Holds, CloseOver
<1>13. Waiting(t) <=> Waits(f) /\ Waiting(s)
    BY <1>3, <1>4, <1>5 DEF Waiting
<1>14. Under(t) <=> (f.fn \in {"Restart", "Destroy"} => s = <<>>) /\ Under(s)
    <2>1. Under(t) => (f.fn \in {"Restart", "Destroy"} => s = <<>>) /\ Under(s)
        <3> SUFFICES ASSUME Under(t)
                     PROVE  (f.fn \in {"Restart", "Destroy"} => s = <<>>) /\ Under(s)
            OBVIOUS
        <3>1. f.fn \in {"Restart", "Destroy"} => 1 = Len(s) + 1
            BY <1>1, <1>5 DEF Under
        <3>2. ASSUME NEW i \in DOMAIN s, s[i].fn \in {"Restart", "Destroy"} PROVE i = Len(s)
            <4>1. i + 1 = Len(s) + 1
                BY <1>1, <1>4, <3>2 DEF Under
            <4> QED BY <1>1, <4>1
        <3> QED BY <1>1, <1>6, <3>1, <3>2 DEF Under
    <2>2. (f.fn \in {"Restart", "Destroy"} => s = <<>>) /\ Under(s) => Under(t)
        BY <1>1, <1>3, <1>5, <1>6 DEF Under
    <2> QED BY <2>1, <2>2
<1> QED
    BY <1>1, <1>2, <1>7, <1>8, <1>9, <1>10, <1>11, <1>12, <1>13, <1>14

\* Of an empty stack nothing is to be known.
LEMMA NothingStacked ==
    /\ ~Joining(<<>>) /\ ~JoiningTwice(<<>>) /\ ~Stops(<<>>) /\ ~RestartOver(<<>>)
    /\ ~CloseOver(<<>>) /\ Waiting(<<>>) /\ Under(<<>>) /\ \A fn : ~Holds(<<>>, fn)
<1>1. DOMAIN <<>> = {}
    OBVIOUS
<1> QED
    BY <1>1 DEF Joining, JoiningTwice, Stops, RestartOver, CloseOver, Waiting, Under, Holds

\* Two that join are one that joins; a restart that waits will join; a restart under a
\* close is a restart.
LEMMA OfStacks ==
    ASSUME NEW s \in Seq(Handler)
    PROVE  /\ JoiningTwice(s) => Joining(s)
           /\ RestartOver(s) => JoiningTwice(s)
           /\ Joining(s) => Stops(s)
           /\ Waiting(s) /\ Holds(s, "Restart") => Joining(s)
           /\ CloseOver(s) => Holds(s, "Restart")
           /\ \A fn : fn # "Close" /\ Holds(s, fn) => Stops(s)
<1>1. \A i \in DOMAIN s : s[i] \in Handler
    OBVIOUS
<1> QED
    BY <1>1 DEF JoiningTwice, Joining, RestartOver, Stops, Waiting, Waits, Holds, CloseOver, Joins, Handler

\* A letter's fields.
LEMMA LetterFields ==
    ASSUME NEW m \in Letter
    PROVE  /\ m.op \in {"close", "hello", "nonce_proof", "pending_login", "cancel", "answer"}
           /\ m.op # "close" => m.conn \in Nat
BY DEF Letter

\* What is left of a queue is of no more connections, and of one more the queue is too.
LEMMA StaysNumbered ==
    ASSUME NEW q \in Letters, NEW n \in Nat, Numbered(q, n)
    PROVE  /\ Numbered(q, n + 1)
           /\ \A r, d : LeftOf(r, q, d) => Numbered(r, n)
<1>1. 1..n \subseteq 1..(n + 1)
    OBVIOUS
<1>2. Numbered(q, n + 1)
    BY <1>1 DEF Numbered
<1>3. ASSUME NEW r, NEW d, LeftOf(r, q, d) PROVE Numbered(r, n)
    BY <1>3 DEF Numbered, LeftOf
<1> QED BY <1>2, <1>3

\* The first letter is taken.
LEMMA Taken ==
    ASSUME NEW q \in Letters, q # <<>>, NEW t, t = Tail(q)
    PROVE  /\ t \in Letters /\ Head(q) \in Letter
           /\ 1 \in DOMAIN q /\ q[1] = Head(q) /\ DOMAIN t \subseteq Nat \ {0}
           /\ LeftOf(t, q, 1)
           /\ \A i \in DOMAIN t : i + 1 \in DOMAIN q /\ t[i] = q[i + 1]
           /\ \A i \in DOMAIN q : i \in Nat \ {0} /\ (i # 1 => i - 1 \in DOMAIN t /\ q[i] = t[i - 1])
           /\ \A op : Has(q, op) <=> Head(q).op = op \/ Has(t, op)
           /\ Followed(q) => Followed(t)
           /\ Followed(q) /\ Head(q).op \in {"hello", "cancel"} => Has(t, "close")
           /\ ClosesLast(q) => ClosesLast(t)
           /\ ClosesLast(q) /\ Head(q).op = "close" => ~Has(t, "hello") /\ ~Has(t, "cancel")
<1>1. /\ Head(q) \in Letter /\ t \in Letters /\ Len(t) = Len(q) - 1
      /\ Len(q) \in Nat \ {0} /\ q[1] = Head(q)
      /\ \A i \in 1..Len(t) : t[i] = q[i + 1]
      /\ DOMAIN q = 1..Len(q) /\ DOMAIN t = 1..Len(t)
    BY HeadTailProperties DEF Letters
<1>2. 1 \in DOMAIN q /\ DOMAIN t \subseteq Nat \ {0}
    BY <1>1
<1>3. \A i \in DOMAIN t : i + 1 \in DOMAIN q /\ t[i] = q[i + 1]
    BY <1>1
<1>4. \A i \in DOMAIN q : i \in Nat \ {0} /\ (i # 1 => i - 1 \in DOMAIN t /\ q[i] = t[i - 1])
    BY <1>1
<1>5. ASSUME NEW op PROVE Has(q, op) <=> Head(q).op = op \/ Has(t, op)
    BY <1>1, <1>2, <1>3, <1>4 DEF Has
<1>6. Followed(q) => Followed(t)
    <2> SUFFICES ASSUME Followed(q), NEW i \in DOMAIN t, t[i].op \in {"hello", "cancel"}
                 PROVE  \E j \in DOMAIN t : i < j /\ t[j].op = "close"
        BY DEF Followed
    <2>1. PICK j \in DOMAIN q : i + 1 < j /\ q[j].op = "close"
        BY <1>3 DEF Followed
    <2>2. i < j - 1 /\ j - 1 \in DOMAIN t /\ t[j - 1] = q[j]
        BY <1>2, <1>4, <2>1
    <2> QED BY <2>1, <2>2
<1>7. Followed(q) /\ Head(q).op \in {"hello", "cancel"} => Has(t, "close")
    <2> SUFFICES ASSUME Followed(q), Head(q).op \in {"hello", "cancel"} PROVE Has(t, "close")
        OBVIOUS
    <2>1. PICK j \in DOMAIN q : 1 < j /\ q[j].op = "close"
        BY <1>1, <1>2 DEF Followed
    <2>2. j - 1 \in DOMAIN t /\ t[j - 1].op = "close"
        BY <1>4, <2>1
    <2> QED BY <2>2 DEF Has
<1>8. ClosesLast(q) => ClosesLast(t)
    <2> SUFFICES ASSUME ClosesLast(q), NEW i \in DOMAIN t, NEW j \in DOMAIN t,
                        t[i].op = "close", t[j].op \in {"hello", "cancel"}
                 PROVE  j < i
        BY DEF ClosesLast
    <2>1. j + 1 < i + 1
        BY <1>3 DEF ClosesLast
    <2> QED BY <1>2, <2>1
<1>9. ClosesLast(q) /\ Head(q).op = "close" => ~Has(t, "hello") /\ ~Has(t, "cancel")
    <2> SUFFICES ASSUME ClosesLast(q), Head(q).op = "close", NEW j \in DOMAIN t,
                        t[j].op \in {"hello", "cancel"}
                 PROVE  FALSE
        BY DEF Has
    <2>1. j + 1 < 1
        BY <1>1, <1>2, <1>3 DEF ClosesLast
    <2> QED BY <1>2, <2>1
<1>10. LeftOf(t, q, 1)
    BY <1>3 DEF LeftOf
<1> QED BY <1>1, <1>2, <1>3, <1>4, <1>5, <1>6, <1>7, <1>8, <1>9, <1>10

\* A letter is put behind the others: where they are then.
LEMMA PutLastPlaces ==
    ASSUME NEW q \in Letters, NEW m \in Letter
    PROVE  /\ Append(q, m) \in Letters /\ Append(q, m) # <<>>
           /\ DOMAIN Append(q, m) = 1..(Len(q) + 1) /\ DOMAIN q = 1..Len(q) /\ Len(q) \in Nat
           /\ Append(q, m)[Len(q) + 1] = m
           /\ \A i \in DOMAIN q : Append(q, m)[i] = q[i]
BY DEF Letters

\* And what there is, when it is a message or an answer, and when it is a close.
LEMMA PutLast ==
    ASSUME NEW q \in Letters, NEW m \in Letter, NEW t, t = Append(q, m)
    PROVE  /\ t \in Letters
           /\ \A i \in DOMAIN t : (i \in DOMAIN q /\ t[i] = q[i]) \/ t[i] = m
           /\ \A i \in DOMAIN q : i \in DOMAIN t /\ t[i] = q[i]
           /\ \A op : Has(t, op) <=> Has(q, op) \/ m.op = op
           /\ m.op = "close" => Followed(t)
           /\ Followed(q) /\ m.op \notin {"hello", "cancel"} => Followed(t)
           /\ ClosesLast(q) /\ (m.op \in {"hello", "cancel"} => ~Has(q, "close")) => ClosesLast(t)
           /\ m.op = "close" => LeftOf(t, q, 0)
           /\ \A n : Numbered(q, n) /\ (m.op # "close" => m.conn \in 1..n) => Numbered(t, n)
<1> DEFINE k == Len(q) + 1
<1>0. /\ t \in Letters /\ DOMAIN t = 1..k /\ DOMAIN q = 1..Len(q) /\ Len(q) \in Nat
      /\ t[k] = m /\ \A i \in DOMAIN q : t[i] = q[i]
    BY PutLastPlaces
<1>1. /\ k \in DOMAIN t /\ t[k] = m /\ k \notin DOMAIN q /\ DOMAIN t \subseteq Nat
      /\ \A i \in DOMAIN q : i \in DOMAIN t /\ t[i] = q[i] /\ i < k
      /\ \A i \in DOMAIN t : i \in DOMAIN q \/ i = k
    BY <1>0
<1> HIDE DEF k
<1>2. \A i \in DOMAIN t : (i \in DOMAIN q /\ t[i] = q[i]) \/ (t[i] = m /\ i = k)
    BY <1>1
<1>3. \A i \in DOMAIN t : (i \in DOMAIN q /\ t[i] = q[i]) \/ t[i] = m
    BY <1>2
<1>4. \A i \in DOMAIN q : i \in DOMAIN t /\ t[i] = q[i]
    BY <1>1
<1>5. m.op = "close" => LeftOf(t, q, 0)
    <2> SUFFICES ASSUME m.op = "close", NEW i \in DOMAIN t, t[i].op # "close"
                 PROVE  i + 0 \in DOMAIN q /\ t[i] = q[i + 0]
        BY DEF LeftOf
    <2>1. i \in DOMAIN q /\ t[i] = q[i] /\ i + 0 = i
        BY <1>1, <1>3
    <2> QED BY <2>1
<1>6. ASSUME NEW n, Numbered(q, n), m.op # "close" => m.conn \in 1..n PROVE Numbered(t, n)
    BY <1>3, <1>6 DEF Numbered
<1>7. ASSUME NEW op PROVE Has(t, op) <=> Has(q, op) \/ m.op = op
    BY <1>1, <1>3 DEF Has
<1>8. m.op = "close" => Followed(t)
    <2> SUFFICES ASSUME m.op = "close", NEW i \in DOMAIN t, t[i].op \in {"hello", "cancel"}
                 PROVE  i < k
        BY <1>1 DEF Followed
    <2> QED BY <1>1, <1>2
<1>9. Followed(q) /\ m.op \notin {"hello", "cancel"} => Followed(t)
    BY <1>1, <1>2 DEF Followed
<1>10. ClosesLast(q) /\ (m.op \in {"hello", "cancel"} => ~Has(q, "close")) => ClosesLast(t)
    <2> SUFFICES ASSUME ClosesLast(q), m.op \in {"hello", "cancel"} => ~Has(q, "close"),
                        NEW i \in DOMAIN t, NEW j \in DOMAIN t,
                        t[i].op = "close", t[j].op \in {"hello", "cancel"}
                 PROVE  j < i
        BY DEF ClosesLast
    <2>1. CASE i \in DOMAIN q /\ j \in DOMAIN q
        BY <1>1, <2>1 DEF ClosesLast
    <2>2. CASE i \in DOMAIN q /\ j \notin DOMAIN q
        BY <1>2, <2>2 DEF Has
    <2>3. CASE i \notin DOMAIN q
        BY <1>1, <1>2, <2>3
    <2> QED BY <2>1, <2>2, <2>3
<1> QED
    BY <1>0, <1>3, <1>4, <1>5, <1>6, <1>7, <1>8, <1>9, <1>10

\* A close is put behind the others.
LEMMA PutClose ==
    ASSUME NEW q \in Letters, NEW t, t = Append(q, [op |-> "close"])
    PROVE  /\ t \in Letters /\ LeftOf(t, q, 0) /\ Followed(t)
           /\ \A op : Has(t, op) <=> Has(q, op) \/ op = "close"
           /\ ClosesLast(q) => ClosesLast(t)
           /\ \A n : Numbered(q, n) => Numbered(t, n)
<1> DEFINE m == [op |-> "close"]
<1>1. m \in Letter /\ m.op = "close" /\ t = Append(q, m)
    BY DEF Letter
<1> HIDE DEF m
<1>2. /\ t \in Letters /\ LeftOf(t, q, 0) /\ Followed(t)
      /\ \A op : Has(t, op) <=> Has(q, op) \/ m.op = op
      /\ ClosesLast(q) => ClosesLast(t)
      /\ \A n : Numbered(q, n) => Numbered(t, n)
    BY <1>1, PutLast
<1> QED BY <1>1, <1>2

\* What is left of what is left with a close behind it is left.
LEMMA LeftWithClose ==
    ASSUME NEW q \in Letters, NEW p, NEW d \in {0, 1}, LeftOf(q, p, d),
           NEW r \in Letters, LeftOf(r, q, 0)
    PROVE  LeftOf(r, p, d)
<1> SUFFICES ASSUME NEW i \in DOMAIN r, r[i].op # "close"
             PROVE  i + d \in DOMAIN p /\ r[i] = p[i + d]
    BY DEF LeftOf
<1>1. i + 0 \in DOMAIN q /\ r[i] = q[i + 0] /\ i \in Nat
    BY DEF LeftOf, Letters
<1>2. i \in DOMAIN q /\ r[i] = q[i]
    BY <1>1
<1> QED BY <1>2 DEF LeftOf

\* An empty queue.
LEMMA NothingWaits ==
    /\ \A op : ~Has(<<>>, op)
    /\ Followed(<<>>) /\ ClosesLast(<<>>)
<1>1. DOMAIN <<>> = {}
    OBVIOUS
<1> QED BY <1>1 DEF Has, Followed, ClosesLast

----------------------------------------------------------------------------
(* The login: what handlers that stop the client do *)

\* What is left of a queue shows no step of the login that was not there.
LEMMA OneStepLeft ==
    ASSUME LoginTypeOK, OneStep, NEW d \in {0, 1},
           inbox' \in Letters, LeftOf(inbox', inbox, d),
           UNCHANGED <<late, sock, stage, requests>>
    PROVE  OneStep'
<1>1. \A i \in DOMAIN inbox' : inbox'[i].op = "close" \/ (i + d \in DOMAIN inbox /\ inbox'[i] = inbox[i + d])
    BY DEF LeftOf
<1>2. DOMAIN inbox' \subseteq Nat
    BY DEF Letters
<1>3. ASSUME NEW i \in DOMAIN inbox', inbox'[i].op # "close", inbox'[i].conn = sock
      PROVE  /\ inbox'[i].op = stage \/ (inbox'[i].op = "answer" /\ stage = "pending_login")
             /\ sock \notin requests
    BY <1>1, <1>3 DEF OneStep
<1>4. ASSUME NEW i \in DOMAIN inbox', inbox'[i].op # "close", inbox'[i].conn = sock,
             NEW j \in DOMAIN inbox', inbox'[j].op # "close", inbox'[j].conn = sock
      PROVE  j = i
    <2>1. j + d = i + d
        BY <1>1, <1>4 DEF OneStep
    <2> QED BY <1>2, <2>1
<1>5. ASSUME NEW i \in DOMAIN inbox', inbox'[i].op \in Kept' PROVE inbox'[i].conn = sock
    <2>1. inbox'[i].op # "close"
        BY <1>5 DEF Kept
    <2> QED BY <1>1, <1>5, <2>1 DEF OneStep, Kept
<1> QED BY <1>3, <1>4, <1>5 DEF OneStep

\* Stop is called by a handler over a waiting stack, with what is left of the queue.
LEMMA CallStopTypes ==
    ASSUME LoginTypeOK, NEW fn \in {"Restart", "Closed", "Token", "Refused", "Destroy"},
           NEW behind \in Seq(Handler), NEW queue \in Letters, NEW armed \in SUBSET timers,
           Numbered(queue, sock), CallStop(fn, behind, queue, armed)
    PROVE  /\ connected' = FALSE /\ timers' \in SUBSET (1..sock)
           /\ phase' = (IF connected THEN "closed" ELSE phase)
           /\ inbox' \in Letters /\ Numbered(inbox', sock) /\ inbox' \in {queue, Append(queue, [op |-> "close"])}
           /\ (inbox' = queue) \/ (connected /\ phase = "open")
           /\ (inbox' = Append(queue, [op |-> "close"])) \/ ~connected \/ phase # "open"
           /\ \E f \in Handler : /\ frames' = <<f>> \o behind
                                 /\ f.fn = fn /\ f.pc = (IF connected THEN "pump" ELSE "go")
           /\ UNCHANGED <<sock, stage, heartbeat, killed, timeout>>
<1> DEFINE f == [fn |-> fn, pc |-> IF connected THEN "pump" ELSE "go"]
<1>1. f \in Handler /\ f.fn = fn /\ f.pc = (IF connected THEN "pump" ELSE "go")
    BY DEF Handler
<1>2. [op |-> "close"] \in Letter
    BY DEF Letter
<1>3. Append(queue, [op |-> "close"]) \in Letters
    BY <1>2, PutLastPlaces
<1>4. inbox' \in Letters /\ Numbered(inbox', sock)
    <2>1. CASE inbox' = queue
        BY <2>1
    <2>2. CASE inbox' = Append(queue, [op |-> "close"])
        BY <2>2, PutClose
    <2> QED BY <2>1, <2>2 DEF CallStop
<1> QED BY <1>1, <1>3, <1>4 DEF CallStop, LoginTypeOK

\* Stop is called by a handler of which this much is known: what is under it and what
\* is left of the queue, and, if it is to restart, that the connection has said hello
\* and that the restart leaves nothing behind.
LEMMA CallStopStep ==
    ASSUME LoginTypeOK, Shape, DoomedJoins, Live => LiveInv,
           NEW fn \in {"Restart", "Closed", "Token", "Refused", "Destroy"},
           NEW behind \in Seq(Handler), NEW queue \in Letters, NEW armed \in SUBSET timers,
           NEW d \in {0, 1}, LeftOf(queue, inbox, d),
           CallStop(fn, behind, queue, armed), UNCHANGED <<late, response, key, requests, crashed>>,
           Waiting(behind),
           Joining(behind) <=> Joining(frames), JoiningTwice(behind) <=> JoiningTwice(frames),
           Stops(behind) <=> Stops(frames), RestartOver(behind) => RestartOver(frames),
           \A g : g # "Close" => (Holds(behind, g) <=> Holds(frames, g)),
           fn = "Destroy" => response # "none",
           \A op : Has(queue, op) => Has(inbox, op),
           Has(inbox, "hello") => Has(queue, "hello"),
           Followed(inbox) => Followed(queue),
           fn = "Restart" /\ Live =>
               /\ connected => key = sock
               /\ ~Has(queue, "hello") /\ timers' = {}
               /\ ~connected => /\ \A op \in Kept : ~Has(queue, op)
                                /\ timers # {} \/ Has(inbox, "cancel")
                                /\ timers = {} => Has(queue, "close")
    PROVE  Shape' /\ DoomedJoins' /\ (Live' => LiveInv')
<1>1. /\ connected' = FALSE /\ phase' = (IF connected THEN "closed" ELSE phase)
      /\ inbox' \in {queue, Append(queue, [op |-> "close"])}
      /\ (inbox' = queue) \/ (connected /\ phase = "open")
      /\ (inbox' = Append(queue, [op |-> "close"])) \/ ~connected \/ phase # "open"
      /\ UNCHANGED <<sock, stage, heartbeat, killed, timeout>>
    BY DEF CallStop
<1>2. timers' = (IF connected THEN armed \ {timeout} ELSE armed)
    BY DEF CallStop
<1>3. /\ inbox' \in Letters
      /\ \E f \in Handler : /\ frames' = <<f>> \o behind
                            /\ f.fn = fn /\ f.pc = (IF connected THEN "pump" ELSE "go")
    <2>1. Numbered(queue, sock)
        BY StaysNumbered DEF LoginTypeOK
    <2> QED BY <2>1, CallStopTypes
<1> PICK f \in Handler : /\ frames' = <<f>> \o behind
                         /\ f.fn = fn /\ f.pc = (IF connected THEN "pump" ELSE "go")
    BY <1>3
<1>4. connected \in BOOLEAN /\ sock \in Nat \ {0} /\ heartbeat \in 0..sock /\ key \in 0..sock
    BY DEF LoginTypeOK
<1>5. /\ frames' # <<>> /\ Head(frames') = f /\ Tail(frames') = behind
      /\ Joining(frames') <=> connected \/ Joining(frames)
      /\ JoiningTwice(frames') <=> (connected /\ Joining(frames)) \/ JoiningTwice(frames)
      /\ Stops(frames')
      /\ \A g : g # "Close" => (Holds(frames', g) <=> fn = g \/ Holds(frames, g))
      /\ RestartOver(frames') => (fn = "Restart" /\ connected /\ Joining(frames)) \/ RestartOver(frames)
    BY <1>3, <1>4, OnTop DEF Joins
<1>6. /\ \A op : Has(inbox', op) => Has(queue, op) \/ op = "close"
      /\ \A op : Has(queue, op) => Has(inbox', op)
      /\ phase' = "closed" /\ (phase # "connecting" \/ ~connected) /\ Followed(inbox) => Followed(inbox')
      /\ connected /\ phase = "open" => Followed(inbox')
      /\ LeftOf(inbox', inbox, d)
    <2>1. queue \in Letters /\ sock \in Nat
        BY <1>4
    <2>2. CASE inbox' = queue
        BY <1>1, <2>2
    <2>3. CASE inbox' = Append(queue, [op |-> "close"])
        <3>1. LeftOf(inbox', queue, 0) /\ Followed(inbox')
            BY <2>3, PutClose
        <3>2. \A op : Has(inbox', op) <=> Has(queue, op) \/ op = "close"
            BY <2>3, PutClose
        <3>3. LeftOf(inbox', inbox, d)
            BY <1>3, <3>1, LeftWithClose
        <3> QED BY <3>1, <3>2, <3>3
    <2> QED BY <1>1, <2>2, <2>3
<1>h. /\ Has(inbox', "hello") <=> Has(inbox, "hello")
      /\ Has(inbox', "cancel") => Has(inbox, "cancel")
      /\ Has(inbox', "answer") => Has(inbox, "answer")
    BY <1>6
<1>7. AtGo("Restart")' <=> fn = "Restart" /\ ~connected
    <2>1. Head(frames') = [fn |-> "Restart", pc |-> "go"] <=> fn = "Restart" /\ ~connected
        BY <1>3, <1>4, <1>5 DEF Handler
    <2> QED BY <1>5, <2>1 DEF AtGo
<1>8. Shape'
    BY <1>1, <1>3, <1>4, <1>5, <1>7 DEF Shape
<1>9. Live' => Live
    BY <1>1, <1>6 DEF Live, Doomed
<1>10. DoomedJoins'
    BY <1>1, <1>5, <1>h DEF DoomedJoins, Doomed
<1>11. ASSUME Live', Live, LiveInv PROVE LiveInv'
    <2> USE <1>1, <1>3, <1>4
    <2>1. OneStep'
        BY <1>6, <1>11, OneStepLeft DEF LiveInv
    <2>2. KeyFollows'
        BY <1>6, <1>11 DEF LiveInv, KeyFollows
    <2>a. Holds(frames, "Restart") /\ connected => Joining(frames)
        <3>1. CASE frames = <<>>
            BY <3>1, NothingStacked
        <3>2. CASE frames # <<>>
            BY <1>3, OfStacks
        <3> QED BY <3>1, <3>2
    <2>b. Has(inbox, "cancel") => key = sock
        <3>1. ASSUME NEW i \in DOMAIN inbox, inbox[i].op = "cancel" PROVE key = sock
            BY <3>1, <1>11 DEF LiveInv, OneStep, Kept, KeyFollows
        <3> QED BY <3>1 DEF Has
    <2>c. connected => timers' = {}
        BY <1>2, <1>11 DEF LiveInv, TimeoutFollows
    <2>3. TimeoutFollows'
        BY <1>2, <1>h, <1>11, <2>c DEF LiveInv, TimeoutFollows, Quiet, Kept
    <2>d. Has(inbox, "hello") => heartbeat = 0
        BY <1>11 DEF Live, Doomed
    <2>4. HeartbeatFollows'
        BY <1>2, <1>5, <1>6, <1>7, <1>11, <2>b, <2>c, <2>d DEF LiveInv, HeartbeatFollows, TimeoutFollows
    <2>5. RestartFollows'
        <3>1. AtGo("Restart")' => Quiet'
            BY <1>6, <1>7, <1>11 DEF Quiet, Kept
        <3>2. Holds(frames', "Restart") => timers' = {} /\ ~Has(inbox', "hello")
            BY <1>2, <1>5, <1>6, <1>11, <2>a, <2>c, <2>d DEF LiveInv, HeartbeatFollows, RestartFollows
        <3>3. phase' = "closed" => Followed(inbox')
            <4>1. phase = "connecting" => ~Has(inbox, "hello") /\ ~Has(inbox, "cancel")
                BY <1>11 DEF Has, LiveInv, OneStep, Kept, Shape
            <4>2. ~Has(inbox', "hello") /\ ~Has(inbox', "cancel") => Followed(inbox')
                BY DEF Has, Followed
            <4> QED BY <1>6, <1>11, <4>1, <4>2 DEF LiveInv, RestartFollows, LoginTypeOK
        <3>4. AtGo("Restart")' /\ Holds(Tail(frames'), "Restart") => Has(inbox', "close")
            BY <1>5, <1>6, <1>7, <1>11 DEF LiveInv, RestartFollows
        <3> QED BY <3>1, <3>2, <3>3, <3>4 DEF RestartFollows
    <2> QED BY <2>1, <2>2, <2>3, <2>4, <2>5 DEF LiveInv
<1> QED BY <1>8, <1>9, <1>10, <1>11
----------------------------------------------------------------------------
(* The login: its steps keep the types *)

\* A stack's top and rest, and what is to be known of it from them.
LEMMA OfTop ==
    ASSUME NEW s \in Seq(Handler), s # <<>>
    PROVE  /\ Head(s) \in Handler /\ Tail(s) \in Seq(Handler)
           /\ Joining(s) <=> Joins(Head(s)) \/ Joining(Tail(s))
           /\ JoiningTwice(s) <=> (Joins(Head(s)) /\ Joining(Tail(s))) \/ JoiningTwice(Tail(s))
           /\ Stops(s) <=> Head(s).fn # "Close" \/ Stops(Tail(s))
           /\ \A fn : Holds(s, fn) <=> Head(s).fn = fn \/ Holds(Tail(s), fn)
           /\ RestartOver(s) <=> (Head(s).fn = "Restart" /\ Joins(Head(s)) /\ Joining(Tail(s)))
                                   \/ RestartOver(Tail(s))
           /\ CloseOver(s) <=> (Head(s).fn = "Close" /\ Holds(Tail(s), "Restart")) \/ CloseOver(Tail(s))
           /\ Waiting(s) <=> Waits(Head(s)) /\ Waiting(Tail(s))
           /\ Under(s) <=> (Head(s).fn \in {"Restart", "Destroy"} => Tail(s) = <<>>) /\ Under(Tail(s))
<1> DEFINE f == Head(s)
           r == Tail(s)
<1>1. f \in Handler /\ r \in Seq(Handler) /\ s = <<f>> \o r
    BY TopAndRest
<1> HIDE DEF f, r
<1>2. /\ Joining(s) <=> Joins(f) \/ Joining(r)
      /\ JoiningTwice(s) <=> (Joins(f) /\ Joining(r)) \/ JoiningTwice(r)
      /\ Stops(s) <=> f.fn # "Close" \/ Stops(r)
      /\ \A fn : Holds(s, fn) <=> f.fn = fn \/ Holds(r, fn)
      /\ RestartOver(s) <=> (f.fn = "Restart" /\ Joins(f) /\ Joining(r)) \/ RestartOver(r)
      /\ CloseOver(s) <=> (f.fn = "Close" /\ Holds(r, "Restart")) \/ CloseOver(r)
      /\ Waiting(s) <=> Waits(f) /\ Waiting(r)
      /\ Under(s) <=> (f.fn \in {"Restart", "Destroy"} => r = <<>>) /\ Under(r)
    BY <1>1, OnTop
<1> QED BY <1>1, <1>2 DEF f, r

\* Another program counter at the top.
LEMMA TopTurns ==
    ASSUME NEW f \in Handler, NEW pc \in {"go", "pump", "confirm"}
    PROVE  \E g \in Handler : g.fn = f.fn /\ g.pc = pc /\ [f EXCEPT !.pc = pc] = g
<1> DEFINE g == [f EXCEPT !.pc = pc]
<1>1. g \in Handler /\ g.fn = f.fn /\ g.pc = pc
    BY DEF Handler
<1> QED BY <1>1

\* A handler that stops the client keeps the types of what is the client's.
LEMMA CallStopKeeps ==
    ASSUME LoginTypeOK, NEW fn \in {"Restart", "Closed", "Token", "Refused", "Destroy"},
           NEW behind \in Seq(Handler), NEW queue \in Letters, NEW armed \in SUBSET timers,
           Numbered(queue, sock), CallStop(fn, behind, queue, armed),
           dialog' \in {"open", "closing", "gone"}, token' \in Nat, locked' \in BOOLEAN,
           UNCHANGED <<late, response, key, requests, crashed>>
    PROVE  LoginTypeOK'
<1>1. /\ connected' = FALSE /\ timers' \in SUBSET (1..sock)
      /\ phase' = (IF connected THEN "closed" ELSE phase)
      /\ inbox' \in Letters /\ Numbered(inbox', sock)
      /\ UNCHANGED <<sock, stage, heartbeat, killed, timeout>>
      /\ \E f \in Handler : /\ frames' = <<f>> \o behind
                            /\ f.fn = fn /\ f.pc = (IF connected THEN "pump" ELSE "go")
    BY CallStopTypes
<1>2. frames' \in Seq(Handler)
    BY <1>1
<1> QED BY <1>1, <1>2 DEF LoginTypeOK

\* Every step of the login keeps the types.
LEMMA LoginTypes == LoginTypeOK /\ [LoginNext]_loginVars => LoginTypeOK'
<1> SUFFICES ASSUME LoginTypeOK, [LoginNext]_loginVars PROVE LoginTypeOK'
    OBVIOUS
<1> USE DEF window, socket, beats, http
<1>t. /\ connected \in BOOLEAN /\ sock \in Nat \ {0} /\ key \in 0..sock /\ heartbeat \in 0..sock
      /\ inbox \in Letters /\ Numbered(inbox, sock) /\ frames \in Seq(Handler)
      /\ token \in Nat /\ requests \in SUBSET (1..sock) /\ timers \in SUBSET (1..sock)
    BY DEF LoginTypeOK
<1>l. inbox # <<>> => /\ Tail(inbox) \in Letters /\ Numbered(Tail(inbox), sock)
                      /\ Head(inbox).op # "close" => Head(inbox).conn \in 1..sock
    <2> SUFFICES ASSUME inbox # <<>>
                 PROVE  /\ Tail(inbox) \in Letters /\ Numbered(Tail(inbox), sock)
                        /\ Head(inbox).op # "close" => Head(inbox).conn \in 1..sock
        OBVIOUS
    <2>1. Tail(inbox) \in Letters /\ LeftOf(Tail(inbox), inbox, 1)
          /\ 1 \in DOMAIN inbox /\ inbox[1] = Head(inbox)
        BY <1>t, Taken
    <2>2. Numbered(Tail(inbox), sock)
        BY <1>t, <2>1, StaysNumbered
    <2>3. Head(inbox).op # "close" => Head(inbox).conn \in 1..sock
        BY <1>t, <2>1 DEF Numbered
    <2> QED BY <2>1, <2>2, <2>3
<1>f. frames # <<>> => Head(frames) \in Handler /\ Tail(frames) \in Seq(Handler)
    BY <1>t, TopAndRest
<1>0. CASE UNCHANGED loginVars
    BY <1>0 DEF loginVars, LoginTypeOK
<1>1. CASE SocketOpens
    BY <1>1 DEF SocketOpens, LoginTypeOK
<1>2. CASE SocketFails
    BY <1>2 DEF SocketFails, LoginTypeOK
<1>3. CASE SocketCloses
    <2>1. inbox' \in Letters /\ Numbered(inbox', sock)
        BY <1>3, <1>t, PutClose DEF SocketCloses
    <2> QED BY <1>3, <2>1 DEF SocketCloses, LoginTypeOK
<1>4. CASE ServerSends
    <2>1. PICK op \in {"hello", "nonce_proof", "pending_login", "cancel"} :
              stage' = op /\ inbox' = Append(inbox, [op |-> op, conn |-> sock])
        BY <1>4 DEF ServerSends
    <2> DEFINE m == [op |-> op, conn |-> sock]
    <2>2. m \in Letter /\ m.conn \in 1..sock /\ inbox' = Append(inbox, m)
        BY <1>t, <2>1 DEF Letter
    <2> HIDE DEF m
    <2>3. inbox' \in Letters /\ Numbered(inbox', sock)
        BY <1>t, <2>2, PutLast
    <2> QED BY <1>4, <2>1, <2>3 DEF ServerSends, LoginTypeOK
<1>5. CASE HandleGatewayHello
    <2>1. PICK c \in 1..sock : /\ inbox # <<>> /\ inbox' = Tail(inbox)
                               /\ crashed' = (heartbeat # 0) /\ heartbeat' = c
                               /\ timers' = timers \cup {c} /\ timeout' = c /\ key' = c
        BY <1>5, <1>l DEF HandleGatewayHello, Takes
    <2>2. timers' \in SUBSET (1..sock) /\ c \in 0..sock
        BY <1>t, <2>1
    <2>3. stage' \in {stage, "init"}
          /\ UNCHANGED <<late, dialog, response, token, connected, sock, phase, killed,
                         requests, locked, frames>>
        BY <1>5 DEF HandleGatewayHello, Replies
    <2> QED BY <1>l, <2>1, <2>2, <2>3 DEF LoginTypeOK
<1>6. CASE HandleGatewayNonceProof
    BY <1>6, <1>t, <1>l DEF HandleGatewayNonceProof, Takes, Replies, LoginTypeOK
<1>7. CASE HandleGatewayPendingLogin
    <2>1. /\ inbox # <<>> /\ inbox' = Tail(inbox) /\ Head(inbox).conn \in 1..sock
          /\ requests' = requests \cup {Head(inbox).conn}
          /\ UNCHANGED <<late, dialog, response, token, connected, sock, phase, stage,
                         heartbeat, killed, timers, timeout, key, locked, frames, crashed>>
        BY <1>7, <1>l DEF HandleGatewayPendingLogin, Takes
    <2>2. requests' \in SUBSET (1..sock)
        BY <1>t, <2>1
    <2> QED BY <1>l, <2>1, <2>2 DEF LoginTypeOK
<1>8. CASE HandleGatewayCancel
    <2>1. inbox # <<>> /\ CallStop("Restart", frames, Tail(inbox), timers)
          /\ UNCHANGED <<late, dialog, response, token, key, requests, locked, crashed>>
        BY <1>8 DEF HandleGatewayCancel, Takes
    <2> QED BY <1>t, <1>l, <2>1, CallStopKeeps DEF LoginTypeOK
<1>9. CASE DispatchClose
    <2>1. inbox' \in Letters /\ Numbered(inbox', sock)
        BY <1>9, <1>t, <1>l, PutClose DEF DispatchClose, Takes
    <2>2. frames' \in Seq(Handler)
        BY <1>9, <1>t DEF DispatchClose, Handler
    <2> QED BY <1>9, <2>1, <2>2 DEF DispatchClose, LoginTypeOK
<1>10. CASE RunCallbacks
    <2>0. inbox # <<>> /\ UNCHANGED <<late, dialog, response, key, requests>>
        BY <1>10 DEF RunCallbacks, Takes
    <2>1. CASE locked \/ dialog = "gone"
        BY <1>10, <2>0, <2>1 DEF RunCallbacks, LoginTypeOK
    <2>2. CASE ~(locked \/ dialog = "gone")
        <3>1. \E fn \in {"Token", "Refused"} : CallStop(fn, frames, Tail(inbox), timers)
            BY <1>10, <2>2 DEF RunCallbacks
        <3>2. token' \in Nat /\ locked' = TRUE /\ crashed' = crashed
            BY <1>10, <1>t, <2>2 DEF RunCallbacks
        <3> QED BY <1>t, <1>l, <2>0, <3>1, <3>2, CallStopKeeps DEF LoginTypeOK
    <2> QED BY <2>1, <2>2
<1>11. CASE OnTimeout
    <2>0. UNCHANGED <<late, dialog, response, token, key, requests, locked>>
        BY <1>11 DEF OnTimeout
    <2>1. PICK c \in timers : \/ CallStop("Restart", frames, inbox, timers \ {c}) /\ UNCHANGED crashed
                              \/ crashed' = TRUE /\ UNCHANGED <<connected, sock, phase, stage, heartbeat,
                                                             killed, timers, timeout, inbox, frames>>
        BY <1>11 DEF OnTimeout
    <2>2. CASE CallStop("Restart", frames, inbox, timers \ {c}) /\ UNCHANGED crashed
        BY <1>t, <2>0, <2>2, CallStopKeeps DEF LoginTypeOK
    <2>3. CASE crashed' = TRUE /\ UNCHANGED <<connected, sock, phase, stage, heartbeat,
                                              killed, timers, timeout, inbox, frames>>
        BY <2>0, <2>3 DEF LoginTypeOK
    <2> QED BY <2>1, <2>2, <2>3
<1>12. CASE OnResponse
    <2>1. PICK c \in requests, ok \in BOOLEAN :
              /\ requests' = requests \ {c}
              /\ inbox' = Append(inbox, [op |-> "answer", conn |-> c, ok |-> ok])
        BY <1>12 DEF OnResponse
    <2> DEFINE m == [op |-> "answer", conn |-> c, ok |-> ok]
    <2>2. m \in Letter /\ m.conn \in 1..sock /\ inbox' = Append(inbox, m)
        BY <1>t, <2>1 DEF Letter
    <2> HIDE DEF m
    <2>3. inbox' \in Letters /\ Numbered(inbox', sock)
        BY <1>t, <2>2, PutLast
    <2> QED BY <1>12, <2>1, <2>3 DEF OnResponse, LoginTypeOK
<1>13. CASE UserResponds
    BY <1>13 DEF UserResponds, LoginTypeOK
<1>14. CASE StopReturns
    <2>1. frames' \in Seq(Handler)
        <3>0. frames # <<>> /\ frames' = <<[Head(frames) EXCEPT !.pc = "go"]>> \o Tail(frames)
            BY <1>14 DEF StopReturns, Top
        <3>1. PICK f \in Handler : f = [Head(frames) EXCEPT !.pc = "go"]
            BY <1>f, <3>0, TopTurns
        <3> QED BY <1>f, <3>0, <3>1
    <2>2. heartbeat' \in 0..sock /\ killed' \in BOOLEAN
        <3>1. CASE Top.fn = "Close"
            BY <1>14, <3>1 DEF StopReturns, LoginTypeOK
        <3>2. CASE Top.fn # "Close"
            BY <1>14, <1>t, <3>2 DEF StopReturns
        <3> QED BY <3>1, <3>2
    <2>3. /\ UNCHANGED <<late, dialog, response, token, connected, sock, phase, stage, timers,
                         timeout, key, inbox, requests, locked, crashed>>
        BY <1>14 DEF StopReturns
    <2> QED BY <2>3, <2>1, <2>2 DEF StopReturns, LoginTypeOK
<1>15. CASE RestartEnds
    <2>1. Numbered(inbox, sock + 1)
        BY <1>t, StaysNumbered
    <2>2. /\ sock + 1 \in Nat \ {0} /\ 0..sock \subseteq 0..(sock + 1)
          /\ 1..sock \subseteq 1..(sock + 1)
        BY <1>t
    <2>3. /\ frames' \in Seq(Handler) /\ sock' = sock + 1 /\ connected' = TRUE /\ killed' = FALSE
          /\ phase' = "connecting" /\ stage' = "wait"
          /\ UNCHANGED <<late, dialog, response, token, heartbeat, timers, timeout, key, inbox,
                         requests, locked, crashed>>
        BY <1>15, <1>f DEF RestartEnds, GoesOn
    <2>4. heartbeat' \in 0..sock' /\ timeout' \in 0..sock' /\ key' \in 0..sock'
          /\ timers' \in SUBSET (1..sock') /\ requests' \in SUBSET (1..sock')
        BY <2>2, <2>3 DEF LoginTypeOK
    <2> QED BY <2>1, <2>2, <2>3, <2>4 DEF LoginTypeOK
<1>16. CASE CloseEnds
    <2>1. /\ frames # <<>> /\ UNCHANGED <<late, dialog, response, token, key, requests, locked, crashed>>
          /\ \/ CallStop("Closed", Tail(frames), inbox, timers)
             \/ frames' = Tail(frames) /\ UNCHANGED <<connected, sock, phase, stage, heartbeat,
                                                     killed, timers, timeout, inbox>>
        BY <1>16 DEF CloseEnds, GoesOn
    <2>2. CASE CallStop("Closed", Tail(frames), inbox, timers)
        BY <1>t, <1>f, <2>1, <2>2, CallStopKeeps DEF LoginTypeOK
    <2>3. CASE frames' = Tail(frames) /\ UNCHANGED <<connected, sock, phase, stage, heartbeat,
                                                    killed, timers, timeout, inbox>>
        BY <1>f, <2>1, <2>3 DEF LoginTypeOK
    <2> QED BY <2>1, <2>2, <2>3
<1>17. CASE OnTokenEnds
    BY <1>17, <1>f DEF OnTokenEnds, GoesOn, LoginTypeOK
<1>18. CASE OnErrorShows
    <2>1. frames' \in Seq(Handler)
        <3>0. frames # <<>> /\ frames' = <<[Head(frames) EXCEPT !.pc = "confirm"]>> \o Tail(frames)
            BY <1>18 DEF OnErrorShows, GoesOn, Top
        <3>1. PICK f \in Handler : f = [Head(frames) EXCEPT !.pc = "confirm"]
            BY <1>f, <3>0, TopTurns
        <3> QED BY <1>f, <3>0, <3>1
    <2> QED BY <1>18, <2>1 DEF OnErrorShows, LoginTypeOK
<1>19. CASE OnErrorEnds
    BY <1>19, <1>f DEF OnErrorEnds, LoginTypeOK
<1>20. CASE RunReturns
    <2>1. dialog' = "closing" /\ CallStop("Destroy", frames, inbox, timers)
          /\ UNCHANGED <<late, response, token, key, requests, locked, crashed>>
        BY <1>20 DEF RunReturns
    <2> QED BY <1>t, <2>1, CallStopKeeps DEF LoginTypeOK
<1>21. CASE DestroyEnds
    BY <1>21, <1>f DEF DestroyEnds, GoesOn, LoginTypeOK
<1> QED
    BY <1>0, <1>1, <1>2, <1>3, <1>4, <1>5, <1>6, <1>7, <1>8, <1>9, <1>10, <1>11, <1>12, <1>13,
       <1>14, <1>15, <1>16, <1>17, <1>18, <1>19, <1>20, <1>21
       DEF LoginNext, Messages, Continues
----------------------------------------------------------------------------
(* The login: what the socket and the server do keeps the invariant *)

\* A queue that lacks them says nothing of hellos and cancels.
LEMMA NoneFollowed ==
    ASSUME NEW q, ~Has(q, "hello"), ~Has(q, "cancel")
    PROVE  Followed(q)
BY DEF Has, Followed

\* While the socket connects, no message of the connection waits.
LEMMA ConnectingIsQuiet ==
    ASSUME Shape, LiveInv, phase = "connecting"
    PROVE  ~Has(inbox, "hello") /\ ~Has(inbox, "cancel")
BY DEF Has, LiveInv, OneStep, Kept, Shape

\* A socket that opens waits for its hello.
LEMMA SocketOpensStep ==
    ASSUME LoginInv, SocketOpens
    PROVE  Shape' /\ DoomedJoins' /\ (Live' => LiveInv')
<1> USE DEF window, socket, beats, http
<1>1. /\ phase = "connecting" /\ phase' = "open"
      /\ UNCHANGED <<late, dialog, response, token, connected, sock, stage, heartbeat, killed,
                     timers, timeout, key, inbox, requests, locked, frames, crashed>>
    BY DEF SocketOpens
<1>2. Shape'
    BY <1>1 DEF LoginInv, Shape, AtGo
<1>3. DoomedJoins' /\ (Live' => Live)
    BY <1>1 DEF LoginInv, DoomedJoins, Live, Doomed
<1>4. ASSUME Live, LiveInv PROVE LiveInv'
    <2>1. OneStep' /\ KeyFollows'
        BY <1>1, <1>4 DEF LiveInv, OneStep, KeyFollows, Kept
    <2>2. TimeoutFollows' /\ HeartbeatFollows'
        BY <1>1, <1>4 DEF LiveInv, TimeoutFollows, HeartbeatFollows, Quiet, Kept, AtGo
    <2>3. RestartFollows'
        BY <1>1, <1>4 DEF LiveInv, RestartFollows, Quiet, Kept, AtGo
    <2> QED BY <2>1, <2>2, <2>3 DEF LiveInv
<1> QED BY <1>2, <1>3, <1>4 DEF LoginInv

\* A connection that failed before it opened announces its close, and is no more.
LEMMA SocketFailsStep ==
    ASSUME LoginInv, SocketFails
    PROVE  Shape' /\ DoomedJoins' /\ (Live' => LiveInv')
<1> USE DEF window, socket, beats, http
<1>1. /\ phase = "connecting" /\ phase' = "closed"
      /\ UNCHANGED <<late, dialog, response, token, connected, sock, stage, heartbeat, killed,
                     timers, timeout, key, inbox, requests, locked, frames, crashed>>
    BY DEF SocketFails
<1>2. Shape'
    BY <1>1 DEF LoginInv, Shape, AtGo
<1>3. DoomedJoins' /\ (Live' => Live)
    BY <1>1 DEF LoginInv, DoomedJoins, Live, Doomed
<1>4. ASSUME Live, LiveInv PROVE LiveInv'
    <2>1. OneStep' /\ KeyFollows'
        BY <1>1, <1>4 DEF LiveInv, OneStep, KeyFollows, Kept
    <2>2. TimeoutFollows' /\ HeartbeatFollows'
        BY <1>1, <1>4 DEF LiveInv, TimeoutFollows, HeartbeatFollows, Quiet, Kept, AtGo
    <2>3. Followed(inbox')
        BY <1>1, <1>4, ConnectingIsQuiet, NoneFollowed DEF LoginInv
    <2>4. RestartFollows'
        BY <1>1, <1>4, <2>3 DEF LiveInv, RestartFollows, Quiet, Kept, AtGo
    <2> QED BY <2>1, <2>2, <2>4 DEF LiveInv
<1> QED BY <1>2, <1>3, <1>4 DEF LoginInv

\* One that is closed announces it behind whatever it had sent.
LEMMA SocketClosesStep ==
    ASSUME LoginInv, SocketCloses
    PROVE  Shape' /\ DoomedJoins' /\ (Live' => LiveInv')
<1> USE DEF window, socket, beats, http
<1>1. /\ phase = "open" /\ phase' = "closed" /\ inbox' = Append(inbox, [op |-> "close"])
      /\ UNCHANGED <<late, dialog, response, token, connected, sock, stage, heartbeat, killed,
                     timers, timeout, key, requests, locked, frames, crashed>>
    BY DEF SocketCloses
<1>2. /\ inbox' \in Letters /\ LeftOf(inbox', inbox, 0) /\ Followed(inbox')
      /\ \A op : Has(inbox', op) <=> Has(inbox, op) \/ op = "close"
    BY <1>1, PutClose DEF LoginInv, LoginTypeOK
<1>c. connected = TRUE
    BY <1>1 DEF LoginInv, Shape, LoginTypeOK
<1>3. Shape'
    BY <1>1 DEF LoginInv, Shape, AtGo
<1>4. DoomedJoins' /\ (Live' => Live)
    BY <1>1, <1>2 DEF LoginInv, DoomedJoins, Live, Doomed
<1>5. ASSUME Live, LiveInv PROVE LiveInv'
    <2>1. OneStep'
        BY <1>1, <1>2, <1>5, OneStepLeft DEF LiveInv, LoginInv
    <2>2. KeyFollows'
        BY <1>1, <1>2, <1>5 DEF LiveInv, KeyFollows
    <2>3. TimeoutFollows'
        BY <1>1, <1>c, <1>5 DEF LiveInv, TimeoutFollows
    <2>4. HeartbeatFollows'
        BY <1>1, <1>c, <1>5 DEF LiveInv, HeartbeatFollows, AtGo
    <2>5. RestartFollows'
        BY <1>1, <1>2, <1>c, <1>3 DEF Shape, RestartFollows
    <2> QED BY <2>1, <2>2, <2>3, <2>4, <2>5 DEF LiveInv
<1> QED BY <1>3, <1>4, <1>5 DEF LoginInv

\* The server's next message goes behind the last; it is the only one of this
\* connection, as the server waits for the client's reply.
LEMMA ServerSendsStep ==
    ASSUME LoginInv, ServerSends
    PROVE  Shape' /\ DoomedJoins' /\ (Live' => LiveInv')
<1> USE DEF window, socket, beats, http
<1>0. PICK op \in {"hello", "nonce_proof", "pending_login", "cancel"} :
          /\ \/ stage = "wait" /\ op = "hello"
             \/ stage = "init" /\ op = "nonce_proof"
             \/ stage = "proved" /\ op \in {"pending_login", "cancel"}
          /\ stage' = op
          /\ inbox' = Append(inbox, [op |-> op, conn |-> sock])
    BY DEF ServerSends
<1>1. /\ phase = "open" /\ phase' = "open" /\ connected = TRUE
      /\ UNCHANGED <<late, dialog, response, token, connected, sock, heartbeat, killed,
                     timers, timeout, key, requests, locked, frames, crashed>>
    BY DEF ServerSends, LoginInv, Shape, LoginTypeOK
<1> DEFINE m == [op |-> op, conn |-> sock]
<1>t. inbox \in Letters /\ sock \in Nat /\ requests \in SUBSET (1..sock)
    BY DEF LoginInv, LoginTypeOK
<1>m. m \in Letter /\ m.op = op /\ m.conn = sock /\ inbox' = Append(inbox, m)
    BY <1>0, <1>t DEF Letter
<1> HIDE DEF m
<1>2. \A o : Has(inbox', o) <=> Has(inbox, o) \/ op = o
    BY <1>m, <1>t, PutLast
<1>l. \A i \in DOMAIN inbox' : (i \in DOMAIN inbox /\ inbox'[i] = inbox[i])
                                  \/ (inbox'[i] = m /\ i = Len(inbox) + 1)
    BY <1>m, <1>t, PutLastPlaces
<1>3. Shape'
    BY <1>1 DEF LoginInv, Shape, AtGo
<1>4. Live' => Live
    BY <1>1, <1>2 DEF Live, Doomed
<1>5. DoomedJoins'
    <2> SUFFICES ASSUME ~crashed, Doomed', Live PROVE Joining(frames)
        BY <1>1 DEF LoginInv, DoomedJoins, Live
    <2>1. heartbeat # 0 /\ op = "hello"
        BY <1>1, <1>2 DEF Doomed, Live
    <2> QED BY <1>0, <2>1 DEF LoginInv, LiveInv, HeartbeatFollows, KeyFollows
<1>6. ASSUME Live, LiveInv PROVE LiveInv'
    <2>n. /\ \A i \in DOMAIN inbox : inbox[i].op # "close" => inbox[i].conn # sock
          /\ sock \notin requests
          /\ ~Has(inbox, "hello") /\ ~Has(inbox, "cancel")
        <3>0. \A i \in DOMAIN inbox : inbox[i].op \notin {"wait", "init", "proved"}
            BY <1>t DEF Letters, Letter
        <3>1. \A i \in DOMAIN inbox : inbox[i].op # "close" => inbox[i].conn # sock
            BY <1>0, <1>6, <3>0 DEF LiveInv, OneStep
        <3>2. sock \notin requests
            BY <1>0, <1>6 DEF LiveInv, OneStep
        <3> QED BY <3>1, <3>2, <1>6 DEF LiveInv, OneStep, Has, Kept
    <2>1. OneStep'
        <3>1. \A i \in DOMAIN inbox' : inbox'[i].op # "close" /\ inbox'[i].conn = sock =>
                                          inbox'[i] = m /\ i = Len(inbox) + 1
            BY <1>l, <2>n
        <3>2. \A i \in DOMAIN inbox' : inbox'[i].op \in Kept => inbox'[i].conn = sock
            BY <1>l, <1>m, <1>6 DEF LiveInv, OneStep
        <3> QED BY <3>1, <3>2, <2>n, <1>0, <1>1, <1>m DEF OneStep, Kept
    <2>2. KeyFollows'
        BY <1>0, <1>1, <1>2, <2>n, <1>6 DEF LiveInv, KeyFollows
    <2>3. TimeoutFollows'
        BY <1>1, <1>6 DEF LiveInv, TimeoutFollows
    <2>4. HeartbeatFollows'
        BY <1>1, <1>6 DEF LiveInv, HeartbeatFollows, AtGo
    <2>5. RestartFollows'
        BY <1>1, <1>2, <1>3, <1>6 DEF Shape, LiveInv, RestartFollows
    <2> QED BY <2>1, <2>2, <2>3, <2>4, <2>5 DEF LiveInv
<1> QED BY <1>3, <1>4, <1>5, <1>6 DEF LoginInv

\* A worker queues the answer of the one login that was sent.
LEMMA OnResponseStep ==
    ASSUME LoginInv, OnResponse
    PROVE  Shape' /\ DoomedJoins' /\ (Live' => LiveInv')
<1> USE DEF window, socket, beats, http
<1>0. PICK c \in requests, ok \in BOOLEAN :
          /\ "answer" \in late \/ (c = sock /\ connected)
          /\ requests' = requests \ {c}
          /\ inbox' = Append(inbox, [op |-> "answer", conn |-> c, ok |-> ok])
    BY DEF OnResponse
<1>1. UNCHANGED <<late, dialog, response, token, connected, sock, phase, stage, heartbeat, killed,
                  timers, timeout, key, locked, frames, crashed>>
    BY DEF OnResponse
<1> DEFINE m == [op |-> "answer", conn |-> c, ok |-> ok]
<1>t. inbox \in Letters /\ sock \in Nat /\ requests \in SUBSET (1..sock) /\ connected \in BOOLEAN
    BY DEF LoginInv, LoginTypeOK
<1>m. m \in Letter /\ m.op = "answer" /\ m.conn = c /\ inbox' = Append(inbox, m)
    BY <1>0, <1>t DEF Letter
<1> HIDE DEF m
<1>2. /\ \A o : Has(inbox', o) <=> Has(inbox, o) \/ o = "answer"
      /\ Followed(inbox) => Followed(inbox')
    <2>1. \A o : Has(inbox', o) <=> Has(inbox, o) \/ m.op = o
        BY <1>m, <1>t, PutLast
    <2>2. Followed(inbox) /\ m.op \notin {"hello", "cancel"} => Followed(inbox')
        BY <1>m, <1>t, PutLast
    <2> QED BY <1>m, <2>1, <2>2
<1>l. \A i \in DOMAIN inbox' : (i \in DOMAIN inbox /\ inbox'[i] = inbox[i])
                                  \/ (inbox'[i] = m /\ i = Len(inbox) + 1)
    BY <1>m, <1>t, PutLastPlaces
<1>3. Shape'
    BY <1>1 DEF LoginInv, Shape, AtGo
<1>4. DoomedJoins' /\ (Live' => Live)
    BY <1>1, <1>2 DEF LoginInv, DoomedJoins, Live, Doomed
<1>6. ASSUME Live, LiveInv PROVE LiveInv'
    <2>1. OneStep'
        <3>a. CASE c = sock
            <4>1. stage = "pending_login"
                  /\ \A i \in DOMAIN inbox : inbox[i].op # "close" => inbox[i].conn # sock
                BY <3>a, <1>6 DEF LiveInv, OneStep
            <4>2. \A i \in DOMAIN inbox' : inbox'[i].op # "close" /\ inbox'[i].conn = sock =>
                                              inbox'[i] = m /\ i = Len(inbox) + 1
                BY <1>l, <4>1
            <4>3. \A i \in DOMAIN inbox' : inbox'[i].op \in Kept => inbox'[i].conn = sock
                BY <1>l, <1>m, <1>6, <3>a DEF LiveInv, OneStep
            <4> QED BY <4>1, <4>2, <4>3, <3>a, <1>0, <1>1, <1>m DEF OneStep, Kept
        <3>b. CASE c # sock
            <4>1. \A i \in DOMAIN inbox' : inbox'[i].op # "close" /\ inbox'[i].conn = sock =>
                                              i \in DOMAIN inbox /\ inbox'[i] = inbox[i]
                BY <1>l, <1>m, <3>b
            <4>2. m.op \notin Kept
                BY <1>0, <1>m, <3>b DEF Kept
            <4>3. \A i \in DOMAIN inbox' : inbox'[i].op \in Kept => inbox'[i].conn = sock
                BY <1>l, <4>2, <1>6 DEF LiveInv, OneStep
            <4>4. ASSUME NEW i \in DOMAIN inbox', inbox'[i].op # "close", inbox'[i].conn = sock
                  PROVE  /\ inbox'[i].op = stage \/ (inbox'[i].op = "answer" /\ stage = "pending_login")
                         /\ sock \notin requests
                BY <4>1, <4>4, <1>6 DEF LiveInv, OneStep
            <4>5. ASSUME NEW i \in DOMAIN inbox', inbox'[i].op # "close", inbox'[i].conn = sock,
                         NEW j \in DOMAIN inbox', inbox'[j].op # "close", inbox'[j].conn = sock
                  PROVE  j = i
                BY <4>1, <4>5, <1>6 DEF LiveInv, OneStep
            <4>6. sock \in requests' => stage = "pending_login"
                BY <1>0, <1>6 DEF LiveInv, OneStep
            <4> QED BY <4>3, <4>4, <4>5, <4>6, <1>0, <1>1 DEF OneStep, Kept
        <3> QED BY <3>a, <3>b
    <2>2. KeyFollows'
        BY <1>1, <1>2, <1>6 DEF LiveInv, KeyFollows
    <2>q. "answer" \in Kept => connected
        BY <1>0 DEF Kept
    <2>s. Shape
        BY DEF LoginInv
    <2>r. Quiet => Quiet' \/ connected
        BY <1>1, <1>2, <2>q DEF Quiet, Kept
    <2>3. TimeoutFollows'
        BY <1>1, <1>t, <2>r, <1>6 DEF LiveInv, TimeoutFollows
    <2>4. HeartbeatFollows'
        BY <1>1, <1>2, <1>6 DEF LiveInv, HeartbeatFollows, AtGo
    <2>5. RestartFollows'
        BY <1>1, <1>2, <2>r, <2>s, <1>6 DEF Shape, LiveInv, RestartFollows, AtGo
    <2> QED BY <2>1, <2>2, <2>3, <2>4, <2>5 DEF LiveInv
<1> QED BY <1>3, <1>4, <1>6 DEF LoginInv
----------------------------------------------------------------------------
(* The login: messages and the timeout keep the invariant *)

\* When the main thread takes an event, every handler waits.
LEMMA ReadyWaits ==
    ASSUME LoginTypeOK, Shape, MainReady
    PROVE  ~crashed /\ Waiting(frames) /\ \A fn : ~AtGo(fn)
<1>1. CASE frames = <<>>
    BY <1>1, NothingStacked DEF MainReady, AtGo
<1>2. CASE frames # <<>>
    <2>1. ~crashed /\ Head(frames).pc \in {"pump", "confirm"}
        BY <1>2 DEF MainReady, Top
    <2>2. Waits(Head(frames)) /\ Waiting(Tail(frames))
        BY <1>2, <2>1 DEF Shape, Waits
    <2>3. Waiting(frames)
        BY <1>2, <2>2, OfTop DEF LoginTypeOK
    <2> QED BY <2>1, <2>3 DEF AtGo
<1> QED BY <1>1, <1>2

\* What a handler takes from the queue, and what it leaves there.
LEMMA TakesFirst ==
    ASSUME LoginTypeOK, Shape, NEW op, Takes(op)
    PROVE  /\ Tail(inbox) \in Letters /\ LeftOf(Tail(inbox), inbox, 1)
           /\ Head(inbox).op = op /\ Has(inbox, op)
           /\ op # "close" => Head(inbox).conn \in 1..sock
           /\ \A o : Has(inbox, o) <=> op = o \/ Has(Tail(inbox), o)
           /\ Followed(inbox) => Followed(Tail(inbox))
           /\ Followed(inbox) /\ op \in {"hello", "cancel"} => Has(Tail(inbox), "close")
           /\ ~crashed /\ Waiting(frames) /\ \A fn : ~AtGo(fn)
           /\ 1 \in DOMAIN inbox /\ inbox[1] = Head(inbox)
           /\ \A i \in DOMAIN Tail(inbox) : /\ i + 1 \in DOMAIN inbox /\ i + 1 # 1
                                            /\ Tail(inbox)[i] = inbox[i + 1]
<1>1. inbox # <<>> /\ inbox \in Letters /\ Numbered(inbox, sock) /\ MainReady /\ Head(inbox).op = op
    BY DEF Takes, LoginTypeOK
<1>2. /\ Tail(inbox) \in Letters /\ LeftOf(Tail(inbox), inbox, 1)
      /\ \A o : Has(inbox, o) <=> Head(inbox).op = o \/ Has(Tail(inbox), o)
      /\ 1 \in DOMAIN inbox /\ inbox[1] = Head(inbox) /\ DOMAIN Tail(inbox) \subseteq Nat \ {0}
      /\ \A i \in DOMAIN Tail(inbox) : i + 1 \in DOMAIN inbox /\ Tail(inbox)[i] = inbox[i + 1]
    BY <1>1, Taken
<1>3. /\ Followed(inbox) => Followed(Tail(inbox))
      /\ Followed(inbox) /\ Head(inbox).op \in {"hello", "cancel"} => Has(Tail(inbox), "close")
    BY <1>1, Taken
<1>4. op # "close" => Head(inbox).conn \in 1..sock
    BY <1>1, <1>2 DEF Numbered
<1>5. ~crashed /\ Waiting(frames) /\ \A fn : ~AtGo(fn)
    BY <1>1, ReadyWaits
<1>6. \A i \in DOMAIN Tail(inbox) : i + 1 # 1
    BY <1>2
<1> QED BY <1>1, <1>2, <1>3, <1>4, <1>5, <1>6

\* A message of the connection is the only one there is of it, so that when one of its
\* kinds was taken nothing is left that a restart must not leave behind.
LEMMA TakenAlone ==
    ASSUME LoginTypeOK, Shape, OneStep, NEW op, op # "close", Takes(op)
    PROVE  /\ op \in Kept => Head(inbox).conn = sock
           /\ Head(inbox).conn = sock =>
                 /\ op = stage \/ (op = "answer" /\ stage = "pending_login")
                 /\ sock \notin requests
                 /\ \A i \in DOMAIN Tail(inbox) : Tail(inbox)[i].op # "close" => Tail(inbox)[i].conn # sock
                 /\ \A o \in Kept : ~Has(Tail(inbox), o)
<1>1. /\ 1 \in DOMAIN inbox /\ inbox[1] = Head(inbox) /\ Head(inbox).op = op
      /\ \A i \in DOMAIN Tail(inbox) : /\ i + 1 \in DOMAIN inbox /\ i + 1 # 1
                                       /\ Tail(inbox)[i] = inbox[i + 1]
    BY TakesFirst
<1>2. op \in Kept => Head(inbox).conn = sock
    BY <1>1 DEF OneStep
<1>3. ASSUME Head(inbox).conn = sock
      PROVE  /\ op = stage \/ (op = "answer" /\ stage = "pending_login")
             /\ sock \notin requests
             /\ \A j \in DOMAIN inbox : inbox[j].op # "close" /\ inbox[j].conn = sock => j = 1
    BY <1>1, <1>3 DEF OneStep
<1>4. ASSUME Head(inbox).conn = sock, NEW i \in DOMAIN Tail(inbox), Tail(inbox)[i].op # "close"
      PROVE  Tail(inbox)[i].conn # sock
    BY <1>1, <1>3, <1>4
<1>5. ASSUME Head(inbox).conn = sock, NEW o \in Kept PROVE ~Has(Tail(inbox), o)
    <2>1. ASSUME NEW i \in DOMAIN Tail(inbox), Tail(inbox)[i].op = o PROVE FALSE
        <3>1. i + 1 \in DOMAIN inbox /\ inbox[i + 1].conn = sock /\ o # "close"
            BY <1>1, <1>5, <2>1 DEF OneStep, Kept
        <3> QED BY <1>1, <1>4, <1>5, <2>1, <3>1
    <2> QED BY <2>1 DEF Has
<1> QED BY <1>2, <1>3, <1>4, <1>5

\* A hello makes key, heartbeat and timeout of this connection; it crashes if a
\* heartbeat is there.
LEMMA HelloStep ==
    ASSUME LoginInv, HandleGatewayHello
    PROVE  Shape' /\ DoomedJoins' /\ (Live' => LiveInv')
<1> USE DEF window, socket, beats, http
<1> DEFINE c == Head(inbox).conn
<1>1. /\ Takes("hello") /\ inbox' = Tail(inbox) /\ crashed' = (heartbeat # 0)
      /\ heartbeat' = c /\ timers' = timers \cup {c} /\ timeout' = c /\ key' = c
      /\ stage' = (IF phase = "open" /\ stage = "hello" THEN "init" ELSE stage)
      /\ UNCHANGED <<late, dialog, response, token, connected, sock, phase, killed,
                     requests, locked, frames>>
    BY DEF HandleGatewayHello, Replies
<1> HIDE DEF c
<1>t. LoginTypeOK /\ Shape /\ sock \in Nat \ {0} /\ connected \in BOOLEAN
    BY DEF LoginInv, LoginTypeOK
<1>2. /\ LeftOf(inbox', inbox, 1) /\ inbox' \in Letters /\ Has(inbox, "hello")
      /\ \A o : Has(inbox, o) <=> o = "hello" \/ Has(inbox', o)
      /\ Followed(inbox) => Followed(inbox')
      /\ ~crashed /\ Waiting(frames) /\ \A fn : ~AtGo(fn)
    BY <1>1, <1>t, TakesFirst
<1>3. Shape'
    BY <1>1, <1>t DEF Shape, AtGo
<1>d. CASE heartbeat # 0
    BY <1>1, <1>3, <1>d DEF DoomedJoins, Live
<1>4. CASE heartbeat = 0
    <2>0. Live /\ LiveInv
        BY <1>2, <1>4 DEF LoginInv, Live, Doomed
    <2>1. /\ c = sock /\ stage = "hello" /\ sock \notin requests
          /\ \A i \in DOMAIN inbox' : inbox'[i].op # "close" => inbox'[i].conn # sock
          /\ \A o \in Kept : ~Has(inbox', o)
        <3>1. "hello" \in Kept /\ OneStep
            BY <2>0 DEF Kept, LiveInv
        <3>2. Head(inbox).conn = sock
            BY <1>1, <1>t, <3>1, TakenAlone
        <3>3. "hello" = stage /\ sock \notin requests
            BY <1>1, <1>t, <3>1, <3>2, TakenAlone
        <3>4. \A i \in DOMAIN Tail(inbox) : Tail(inbox)[i].op # "close" => Tail(inbox)[i].conn # sock
            BY <1>1, <1>t, <3>1, <3>2, TakenAlone
        <3>5. \A o \in Kept : ~Has(Tail(inbox), o)
            BY <1>1, <1>t, <3>1, <3>2, TakenAlone
        <3> QED BY <1>1, <3>2, <3>3, <3>4, <3>5 DEF c
    <2>2. timers = {} /\ key # sock /\ (~connected => Joining(frames)) /\ (connected => ~Joining(frames))
          /\ (Holds(frames, "Restart") => connected) /\ ~JoiningTwice(frames) /\ ~RestartOver(frames)
        <3>1. timers = {}
            BY <1>2, <2>0 DEF LiveInv, TimeoutFollows, KeyFollows, Quiet, Kept
        <3>2. key # sock /\ (~connected => Joining(frames)) /\ (connected => ~Joining(frames))
              /\ ~JoiningTwice(frames) /\ ~RestartOver(frames)
            BY <1>2, <1>4, <2>0 DEF LiveInv, HeartbeatFollows, KeyFollows
        <3>3. Holds(frames, "Restart") => connected
            BY <1>2, <2>0 DEF LiveInv, RestartFollows
        <3> QED BY <3>1, <3>2, <3>3
    <2>3. \A o \in Kept' : ~Has(inbox', o)
        <3>1. Kept' = Kept
            BY <1>1 DEF Kept
        <3>2. \A o \in Kept : ~Has(inbox', o)
            BY <2>1
        <3> QED BY <3>1, <3>2, Zenon
    <2>h. ~Has(inbox', "hello") /\ ~Has(inbox', "cancel")
        <3>1. "hello" \in Kept /\ "cancel" \in Kept
            BY DEF Kept
        <3>2. \A o \in Kept : ~Has(inbox', o)
            BY <2>1
        <3> QED BY <3>1, <3>2, Zenon
    <2>4. OneStep'
        <3>1. \A i \in DOMAIN inbox' : inbox'[i].op \notin Kept'
            BY <2>3 DEF Has
        <3> QED BY <1>1, <2>1, <3>1 DEF OneStep
    <2>5. KeyFollows'
        BY <1>1, <2>1, <2>h DEF KeyFollows
    <2>6. TimeoutFollows'
        BY <1>1, <2>1, <2>2, <2>3 DEF TimeoutFollows, Quiet
    <2>7. HeartbeatFollows'
        BY <1>1, <1>t, <2>1, <2>2, <2>h DEF HeartbeatFollows
    <2>8. RestartFollows'
        <3>1. ~AtGo("Restart")'
            BY <1>1, <1>2 DEF AtGo
        <3>2. phase' = "closed" => Followed(inbox')
            BY <1>1, <1>2, <2>0 DEF LiveInv, RestartFollows
        <3>3. connected' /\ Holds(frames', "Restart") => Has(inbox', "close") \/ CloseOver(frames')
            BY <1>1, <1>2, <2>0 DEF LiveInv, RestartFollows
        <3> QED BY <1>1, <2>2, <3>1, <3>2, <3>3 DEF RestartFollows
    <2>9. DoomedJoins'
        BY <2>h DEF DoomedJoins, Doomed
    <2> QED BY <1>3, <2>4, <2>5, <2>6, <2>7, <2>8, <2>9 DEF LiveInv
<1> QED BY <1>d, <1>4

\* A nonce_proof changes the server's stage at most.
LEMMA NonceProofStep ==
    ASSUME LoginInv, HandleGatewayNonceProof
    PROVE  Shape' /\ DoomedJoins' /\ (Live' => LiveInv')
<1> USE DEF window, socket, beats, http
<1> DEFINE c == Head(inbox).conn
<1>1. /\ Takes("nonce_proof") /\ inbox' = Tail(inbox)
      /\ stage' = (IF phase = "open" /\ stage = "nonce_proof" /\ key = c THEN "proved" ELSE stage)
      /\ UNCHANGED <<late, dialog, response, token, connected, sock, phase, heartbeat, killed,
                     timers, timeout, key, requests, locked, frames, crashed>>
    BY DEF HandleGatewayNonceProof, Replies
<1>t. LoginTypeOK /\ Shape
    BY DEF LoginInv, LoginTypeOK
<1>2. /\ LeftOf(inbox', inbox, 1) /\ inbox' \in Letters
      /\ \A o : Has(inbox, o) <=> o = "nonce_proof" \/ Has(inbox', o)
      /\ Followed(inbox) => Followed(inbox')
      /\ ~crashed /\ Waiting(frames) /\ \A fn : ~AtGo(fn)
    BY <1>1, <1>t, TakesFirst
<1>3. Shape'
    BY <1>1, <1>t DEF Shape, AtGo
<1>4. DoomedJoins' /\ (Live' => Live)
    BY <1>1, <1>2 DEF LoginInv, DoomedJoins, Live, Doomed
<1>5. ASSUME Live, LiveInv PROVE LiveInv'
    <2>1. OneStep'
        <3>1. CASE stage' = stage
            BY <1>1, <1>2, <1>5, <1>t, <3>1, OneStepLeft DEF LiveInv
        <3>2. CASE stage' # stage
            <4>1. stage = "nonce_proof" /\ key = Head(inbox).conn /\ OneStep
                BY <1>1, <1>5, <3>2 DEF LiveInv
            <4>2. Head(inbox).conn = sock
                BY <4>1, <1>5 DEF LiveInv, KeyFollows
            <4>3. \A i \in DOMAIN inbox' : inbox'[i].op # "close" => inbox'[i].conn # sock
                BY <1>1, <1>t, <4>1, <4>2, TakenAlone
            <4>4. sock \notin requests
                BY <1>1, <1>t, <4>1, <4>2, TakenAlone
            <4>5. \A i \in DOMAIN inbox' : inbox'[i].op \in Kept => inbox'[i].conn = sock
                BY <1>2, <4>1 DEF OneStep, LeftOf, Kept
            <4> QED BY <1>1, <4>3, <4>4, <4>5 DEF OneStep, Kept
        <3> QED BY <3>1, <3>2
    <2>2. KeyFollows'
        BY <1>1, <1>2, <1>5 DEF LiveInv, KeyFollows
    <2>3. TimeoutFollows'
        BY <1>1, <1>2, <1>5 DEF LiveInv, TimeoutFollows, Quiet, Kept
    <2>4. HeartbeatFollows'
        BY <1>1, <1>2, <1>5 DEF LiveInv, HeartbeatFollows, AtGo
    <2>5. RestartFollows'
        BY <1>1, <1>2, <1>5 DEF LiveInv, RestartFollows, AtGo
    <2> QED BY <2>1, <2>2, <2>3, <2>4, <2>5 DEF LiveInv
<1> QED BY <1>3, <1>4, <1>5 DEF LoginInv

\* A pending login is sent to a worker.
LEMMA PendingLoginStep ==
    ASSUME LoginInv, HandleGatewayPendingLogin
    PROVE  Shape' /\ DoomedJoins' /\ (Live' => LiveInv')
<1> USE DEF window, socket, beats, http
<1>1. /\ Takes("pending_login") /\ inbox' = Tail(inbox)
      /\ requests' = requests \cup {Head(inbox).conn}
      /\ UNCHANGED <<late, dialog, response, token, connected, sock, phase, stage, heartbeat, killed,
                     timers, timeout, key, locked, frames, crashed>>
    BY DEF HandleGatewayPendingLogin
<1>t. LoginTypeOK /\ Shape
    BY DEF LoginInv, LoginTypeOK
<1>2. /\ LeftOf(inbox', inbox, 1) /\ inbox' \in Letters
      /\ \A o : Has(inbox, o) <=> o = "pending_login" \/ Has(inbox', o)
      /\ Followed(inbox) => Followed(inbox')
      /\ ~crashed /\ Waiting(frames) /\ \A fn : ~AtGo(fn)
    BY <1>1, <1>t, TakesFirst
<1>3. Shape'
    BY <1>1, <1>t DEF Shape, AtGo
<1>4. DoomedJoins' /\ (Live' => Live)
    BY <1>1, <1>2 DEF LoginInv, DoomedJoins, Live, Doomed
<1>5. ASSUME Live, LiveInv PROVE LiveInv'
    <2>1. OneStep'
        <3>0. OneStep
            BY <1>5 DEF LiveInv
        <3>5. \A i \in DOMAIN inbox' : inbox'[i].op \in Kept => inbox'[i].conn = sock
            BY <1>2, <3>0 DEF OneStep, LeftOf, Kept
        <3>1. CASE Head(inbox).conn = sock
            <4>1. stage = "pending_login"
                BY <1>1, <1>t, <3>0, <3>1, TakenAlone
            <4>2. \A i \in DOMAIN inbox' : inbox'[i].op # "close" => inbox'[i].conn # sock
                BY <1>1, <1>t, <3>0, <3>1, TakenAlone
            <4> QED BY <1>1, <3>5, <4>1, <4>2 DEF OneStep, Kept
        <3>2. CASE Head(inbox).conn # sock
            <4>1. sock \in requests' <=> sock \in requests
                BY <1>1, <3>2
            <4>2. DOMAIN inbox' \subseteq Nat /\ \A i \in DOMAIN inbox' :
                      inbox'[i].op = "close" \/ (i + 1 \in DOMAIN inbox /\ inbox'[i] = inbox[i + 1])
                BY <1>2 DEF LeftOf, Letters
            <4>3. ASSUME NEW i \in DOMAIN inbox', inbox'[i].op # "close", inbox'[i].conn = sock
                  PROVE  /\ inbox'[i].op = stage \/ (inbox'[i].op = "answer" /\ stage = "pending_login")
                         /\ sock \notin requests
                BY <3>0, <4>2, <4>3 DEF OneStep
            <4>4. ASSUME NEW i \in DOMAIN inbox', inbox'[i].op # "close", inbox'[i].conn = sock,
                         NEW j \in DOMAIN inbox', inbox'[j].op # "close", inbox'[j].conn = sock
                  PROVE  j = i
                <5>1. j + 1 = i + 1
                    BY <3>0, <4>2, <4>4 DEF OneStep
                <5> QED BY <4>2, <5>1
            <4> QED BY <1>1, <3>0, <3>5, <4>1, <4>3, <4>4 DEF OneStep, Kept
        <3> QED BY <3>1, <3>2
    <2>2. KeyFollows'
        BY <1>1, <1>2, <1>5 DEF LiveInv, KeyFollows
    <2>3. TimeoutFollows'
        BY <1>1, <1>2, <1>5 DEF LiveInv, TimeoutFollows, Quiet, Kept
    <2>4. HeartbeatFollows'
        BY <1>1, <1>2, <1>5 DEF LiveInv, HeartbeatFollows, AtGo
    <2>5. RestartFollows'
        BY <1>1, <1>2, <1>5 DEF LiveInv, RestartFollows, AtGo
    <2> QED BY <2>1, <2>2, <2>3, <2>4, <2>5 DEF LiveInv
<1> QED BY <1>3, <1>4, <1>5 DEF LoginInv
\* A cancel stops the client, to start it again.
LEMMA CancelStep ==
    ASSUME LoginInv, HandleGatewayCancel
    PROVE  Shape' /\ DoomedJoins' /\ (Live' => LiveInv')
<1> USE DEF window, socket, beats, http
<1>1. /\ Takes("cancel") /\ CallStop("Restart", frames, Tail(inbox), timers)
      /\ UNCHANGED <<late, dialog, response, token, key, requests, locked, crashed>>
    BY DEF HandleGatewayCancel
<1>t. LoginTypeOK /\ Shape /\ DoomedJoins /\ (Live => LiveInv)
      /\ connected \in BOOLEAN /\ frames \in Seq(Handler) /\ timers \in SUBSET timers
    BY DEF LoginInv, LoginTypeOK
<1>2. /\ Tail(inbox) \in Letters /\ LeftOf(Tail(inbox), inbox, 1)
      /\ Has(inbox, "cancel")
      /\ \A o : Has(inbox, o) <=> o = "cancel" \/ Has(Tail(inbox), o)
      /\ Followed(inbox) => Followed(Tail(inbox))
      /\ Followed(inbox) => Has(Tail(inbox), "close")
      /\ ~crashed /\ Waiting(frames) /\ \A fn : ~AtGo(fn)
    BY <1>1, <1>t, TakesFirst
<1>3. ASSUME Live
      PROVE  /\ connected => key = sock
             /\ ~Has(Tail(inbox), "hello") /\ timers' = {}
             /\ ~connected => /\ \A op \in Kept : ~Has(Tail(inbox), op)
                              /\ timers # {} \/ Has(inbox, "cancel")
                              /\ timers = {} => Has(Tail(inbox), "close")
    <2>0. LiveInv /\ OneStep /\ "cancel" \in Kept /\ "hello" \in Kept
        BY <1>3, <1>t DEF LiveInv, Kept
    <2>1. Head(inbox).conn = sock
        BY <1>1, <1>t, <2>0, TakenAlone
    <2>2. "cancel" = stage
        BY <1>1, <1>t, <2>0, <2>1, TakenAlone
    <2>3. \A o \in Kept : ~Has(Tail(inbox), o)
        BY <1>1, <1>t, <2>0, <2>1, TakenAlone
    <2>4. key = sock
        BY <2>0, <2>2 DEF LiveInv, KeyFollows
    <2>5. ~connected => timers = {}
        BY <1>2, <2>0 DEF LiveInv, TimeoutFollows, Quiet, Kept
    <2>6. timers' = {}
        BY <1>1, <1>t, <2>0, <2>5 DEF CallStop, LiveInv, TimeoutFollows
    <2>7. ~connected => Followed(inbox)
        BY <1>t, <2>0 DEF Shape, LiveInv, RestartFollows
    <2>8. ~Has(Tail(inbox), "hello")
        BY <2>0, <2>3
    <2> QED BY <1>2, <2>3, <2>4, <2>6, <2>7, <2>8
<1>4. ("cancel" # "hello") /\ (Has(inbox, "hello") => Has(Tail(inbox), "hello"))
    BY <1>2
<1> QED BY <1>1, <1>t, <1>2, <1>3, <1>4, CallStopStep

\* A timeout stops the client, to start it again, whatever handler waits.
LEMMA OnTimeoutStep ==
    ASSUME LoginInv, OnTimeout
    PROVE  Shape' /\ DoomedJoins' /\ (Live' => LiveInv')
<1> USE DEF window, socket, beats, http
<1>1. /\ MainReady /\ UNCHANGED <<late, dialog, response, token, key, requests, locked>>
    BY DEF OnTimeout
<1>0. PICK c \in timers : \/ CallStop("Restart", frames, inbox, timers \ {c}) /\ UNCHANGED crashed
                          \/ crashed' = TRUE /\ UNCHANGED <<connected, sock, phase, stage, heartbeat,
                                                            killed, timers, timeout, inbox, frames>>
    BY DEF OnTimeout
<1>t. LoginTypeOK /\ Shape /\ DoomedJoins /\ (Live => LiveInv)
      /\ connected \in BOOLEAN /\ frames \in Seq(Handler) /\ timers \ {c} \in SUBSET timers
      /\ inbox \in Letters
    BY DEF LoginInv, LoginTypeOK
<1>2. Waiting(frames) /\ LeftOf(inbox, inbox, 0)
    <2>1. Waiting(frames)
        BY <1>1, <1>t, ReadyWaits
    <2>2. DOMAIN inbox \subseteq Nat
        BY <1>t DEF Letters
    <2>3. LeftOf(inbox, inbox, 0)
        BY <2>2 DEF LeftOf
    <2> QED BY <2>1, <2>3
<1>3. CASE CallStop("Restart", frames, inbox, timers \ {c}) /\ UNCHANGED crashed
    <2>1. ASSUME Live
          PROVE  /\ connected => key = sock
                 /\ ~Has(inbox, "hello") /\ timers' = {}
                 /\ ~connected => /\ \A op \in Kept : ~Has(inbox, op)
                                  /\ timers # {} \/ Has(inbox, "cancel")
                                  /\ timers = {} => Has(inbox, "close")
        <3>0. LiveInv /\ timers # {}
            BY <2>1, <1>t
        <3>1. connected => key = sock
            BY <3>0 DEF LiveInv, TimeoutFollows
        <3>2. ~connected => \A op \in Kept : ~Has(inbox, op)
            BY <3>0 DEF LiveInv, TimeoutFollows, Quiet
        <3>3. ~Has(inbox, "hello")
            <4>1. "hello" \in Kept
                BY DEF Kept
            <4> QED BY <1>t, <3>0, <3>1, <3>2, <4>1 DEF LiveInv, KeyFollows
        <3>4. timers' = {}
            BY <1>3, <3>0 DEF CallStop, LiveInv, TimeoutFollows
        <3> QED BY <3>0, <3>1, <3>2, <3>3, <3>4
    <2> QED BY <1>1, <1>t, <1>2, <1>3, <2>1, CallStopStep
<1>4. CASE crashed' = TRUE /\ UNCHANGED <<connected, sock, phase, stage, heartbeat,
                                          killed, timers, timeout, inbox, frames>>
    BY <1>1, <1>t, <1>4 DEF Shape, AtGo, DoomedJoins, Live
<1> QED BY <1>0, <1>3, <1>4

\* The answer of the login stops the client with the lock held, or crashes.
LEMMA RunCallbacksStep ==
    ASSUME LoginInv, RunCallbacks
    PROVE  Shape' /\ DoomedJoins' /\ (Live' => LiveInv')
<1> USE DEF window, socket, beats, http
<1>1. Takes("answer") /\ UNCHANGED <<late, dialog, response, key, requests>>
    BY DEF RunCallbacks
<1>t. LoginTypeOK /\ Shape /\ DoomedJoins /\ (Live => LiveInv)
      /\ connected \in BOOLEAN /\ frames \in Seq(Handler) /\ timers \in SUBSET timers
    BY DEF LoginInv, LoginTypeOK
<1>2. /\ Tail(inbox) \in Letters /\ LeftOf(Tail(inbox), inbox, 1)
      /\ \A o : Has(inbox, o) <=> o = "answer" \/ Has(Tail(inbox), o)
      /\ Followed(inbox) => Followed(Tail(inbox))
      /\ ~crashed /\ Waiting(frames) /\ \A fn : ~AtGo(fn)
    BY <1>1, <1>t, TakesFirst
<1>3. CASE locked \/ dialog = "gone"
    <2>1. crashed' = TRUE /\ UNCHANGED <<connected, sock, phase, stage, heartbeat, killed,
                                         timers, timeout, inbox, frames>>
        BY <1>3 DEF RunCallbacks
    <2> QED BY <1>1, <1>t, <2>1 DEF Shape, AtGo, DoomedJoins, Live
<1>4. CASE ~(locked \/ dialog = "gone")
    <2>1. PICK fn \in {"Token", "Refused"} : CallStop(fn, frames, Tail(inbox), timers)
        BY <1>4 DEF RunCallbacks
    <2>2. crashed' = crashed
        BY <1>4 DEF RunCallbacks
    <2>3. Has(inbox, "hello") => Has(Tail(inbox), "hello")
        BY <1>2
    <2> QED BY <1>1, <1>t, <1>2, <2>1, <2>2, <2>3, CallStopStep
<1> QED BY <1>3, <1>4

\* A close that is taken starts the end of the dialog's connection.
LEMMA DispatchCloseStep ==
    ASSUME LoginInv, DispatchClose
    PROVE  Shape' /\ DoomedJoins' /\ (Live' => LiveInv')
<1> USE DEF window, socket, beats, http
<1>1. /\ Takes("close") /\ phase' = "closed"
      /\ inbox' = (IF phase = "open" THEN Append(Tail(inbox), [op |-> "close"]) ELSE Tail(inbox))
      /\ UNCHANGED <<late, dialog, response, token, connected, sock, stage, heartbeat, killed,
                     timers, timeout, key, requests, locked, crashed>>
    BY DEF DispatchClose
<1>t. LoginTypeOK /\ Shape /\ connected \in BOOLEAN /\ frames \in Seq(Handler)
      /\ phase \in {"connecting", "open", "closed"}
    BY DEF LoginInv, LoginTypeOK
<1> PICK f \in Handler : f.fn = "Close" /\ f.pc = "pump" /\ frames' = <<f>> \o frames
    BY DEF DispatchClose, Handler
<1>2. /\ Tail(inbox) \in Letters /\ LeftOf(Tail(inbox), inbox, 1)
      /\ \A o : Has(inbox, o) <=> o = "close" \/ Has(Tail(inbox), o)
      /\ Followed(inbox) => Followed(Tail(inbox))
      /\ ~crashed /\ Waiting(frames) /\ \A fn : ~AtGo(fn)
    BY <1>1, <1>t, TakesFirst
<1>3. /\ frames' # <<>> /\ Head(frames') = f /\ Tail(frames') = frames
      /\ Joining(frames') <=> Joining(frames)
      /\ JoiningTwice(frames') <=> JoiningTwice(frames)
      /\ Stops(frames') <=> Stops(frames)
      /\ \A g : g # "Close" => (Holds(frames', g) <=> Holds(frames, g))
      /\ RestartOver(frames') <=> RestartOver(frames)
      /\ CloseOver(frames') <=> Holds(frames, "Restart") \/ CloseOver(frames)
    BY <1>t, OnTop DEF Joins
<1>4. /\ inbox' \in Letters /\ LeftOf(inbox', inbox, 1)
      /\ \A o : o # "close" => (Has(inbox', o) <=> Has(inbox, o))
      /\ phase = "open" \/ Followed(inbox) => Followed(inbox')
    <2>1. CASE phase = "open"
        <3>1. LeftOf(inbox', Tail(inbox), 0) /\ Followed(inbox') /\ inbox' \in Letters
            BY <1>1, <1>2, <2>1, PutClose
        <3>2. \A op : Has(inbox', op) <=> Has(Tail(inbox), op) \/ op = "close"
            BY <1>1, <1>2, <2>1, PutClose
        <3>3. LeftOf(inbox', inbox, 1)
            BY <1>2, <3>1, LeftWithClose
        <3> QED BY <1>2, <3>1, <3>2, <3>3
    <2>2. CASE phase # "open"
        BY <1>1, <1>2, <2>2
    <2> QED BY <2>1, <2>2
<1>g. \A fn : ~AtGo(fn)'
    BY <1>3 DEF AtGo
<1>5. Shape'
    BY <1>1, <1>2, <1>3, <1>g, <1>t DEF Shape
<1>h. /\ Has(inbox', "hello") <=> Has(inbox, "hello")
      /\ Has(inbox', "cancel") <=> Has(inbox, "cancel")
      /\ Has(inbox', "answer") <=> Has(inbox, "answer")
    BY <1>4
<1>6. DoomedJoins' /\ (Live' => Live)
    BY <1>1, <1>3, <1>h DEF LoginInv, DoomedJoins, Live, Doomed
<1>7. ASSUME Live, LiveInv PROVE LiveInv'
    <2>1. OneStep'
        BY <1>1, <1>4, <1>7, <1>t, OneStepLeft DEF LiveInv
    <2>2. KeyFollows'
        BY <1>1, <1>h, <1>7 DEF LiveInv, KeyFollows
    <2>3. TimeoutFollows'
        BY <1>1, <1>h, <1>3, <1>7 DEF LiveInv, TimeoutFollows, Quiet, Kept
    <2>4. HeartbeatFollows'
        BY <1>1, <1>h, <1>3, <1>g, <1>7 DEF LiveInv, HeartbeatFollows
    <2>5. Followed(inbox')
        <3>1. phase = "connecting" => Followed(inbox)
            BY <1>t, <1>7, ConnectingIsQuiet, NoneFollowed
        <3> QED BY <1>t, <1>4, <1>7, <3>1 DEF LiveInv, RestartFollows
    <2>6. RestartFollows'
        BY <1>1, <1>h, <1>3, <1>g, <2>5, <1>7 DEF LiveInv, RestartFollows
    <2> QED BY <2>1, <2>2, <2>3, <2>4, <2>6 DEF LiveInv
<1> QED BY <1>5, <1>6, <1>7 DEF LoginInv
----------------------------------------------------------------------------
(* The login: the handlers that go on keep the invariant *)

\* The innermost Stop returns: it joins the heartbeat and disconnects the timeout.
LEMMA StopReturnsStep ==
    ASSUME LoginInv, StopReturns
    PROVE  Shape' /\ DoomedJoins' /\ (Live' => LiveInv')
<1> USE DEF window, socket, beats, http
<1>1. /\ ~crashed /\ frames # <<>> /\ Head(frames).pc = "pump" /\ inbox = <<>>
      /\ frames' = <<[Head(frames) EXCEPT !.pc = "go"]>> \o Tail(frames)
      /\ Head(frames).fn = "Close" => heartbeat' = heartbeat /\ killed' = killed
      /\ Head(frames).fn # "Close" => heartbeat' = 0 /\ killed' = TRUE
      /\ UNCHANGED <<late, dialog, response, token, connected, sock, phase, stage,
                     timers, timeout, key, inbox, requests, locked, crashed>>
    BY DEF StopReturns, Top
<1>t. LoginTypeOK /\ Shape /\ connected \in BOOLEAN /\ frames \in Seq(Handler)
    BY DEF LoginInv, LoginTypeOK
<1> DEFINE f == Head(frames)
           r == Tail(frames)
<1>f. f \in Handler /\ r \in Seq(Handler) /\ Waiting(r) /\ (Joins(f) <=> f.fn # "Close")
    BY <1>1, <1>t, TopAndRest DEF Shape, Joins
<1>2. /\ Joining(frames) <=> Joins(f) \/ Joining(r)
      /\ JoiningTwice(frames) <=> (Joins(f) /\ Joining(r)) \/ JoiningTwice(r)
      /\ Stops(frames) <=> f.fn # "Close" \/ Stops(r)
      /\ \A fn : Holds(frames, fn) <=> f.fn = fn \/ Holds(r, fn)
      /\ RestartOver(frames) <=> (f.fn = "Restart" /\ Joins(f) /\ Joining(r)) \/ RestartOver(r)
      /\ CloseOver(frames) <=> (f.fn = "Close" /\ Holds(r, "Restart")) \/ CloseOver(r)
    BY <1>1, <1>t, OfTop
<1>g. PICK g \in Handler : g.fn = f.fn /\ g.pc = "go" /\ frames' = <<g>> \o r
    BY <1>1, <1>f, TopTurns
<1>3. /\ frames' # <<>> /\ Head(frames') = g /\ Tail(frames') = r
      /\ Joining(frames') <=> Joining(r)
      /\ JoiningTwice(frames') <=> JoiningTwice(r)
      /\ Stops(frames') <=> f.fn # "Close" \/ Stops(r)
      /\ \A fn : Holds(frames', fn) <=> f.fn = fn \/ Holds(r, fn)
      /\ RestartOver(frames') <=> RestartOver(r)
      /\ CloseOver(frames') <=> (f.fn = "Close" /\ Holds(r, "Restart")) \/ CloseOver(r)
    BY <1>g, <1>f, OnTop DEF Joins
<1>4. /\ JoiningTwice(r) => Joining(r)
      /\ Holds(r, "Restart") => Joining(r)
      /\ CloseOver(r) => Holds(r, "Restart")
    BY <1>f, OfStacks
<1> HIDE DEF f, r
<1>h. \A op : ~Has(inbox, op)
    BY <1>1, NothingWaits
<1>l. Live /\ LiveInv
    BY <1>1, <1>h DEF LoginInv, Live, Doomed
<1>a. AtGo("Restart")' <=> f.fn = "Restart"
    BY <1>g, <1>3 DEF AtGo, Handler
<1>5. f.fn = "Restart" => ~connected /\ ~Joining(r)
    <2>1. ~RestartOver(frames)
        BY <1>l DEF LiveInv, HeartbeatFollows
    <2>2. connected /\ Holds(frames, "Restart") => CloseOver(frames)
        BY <1>l, <1>h DEF LiveInv, RestartFollows
    <2> QED BY <1>f, <1>2, <1>4, <2>1, <2>2
<1>6. Shape'
    <2>1. /\ f.fn = "Close" => killed' = killed
          /\ UNCHANGED <<response, connected, phase, stage>>
        BY <1>1 DEF f
    <2>2. frames' # <<>> => Waiting(Tail(frames'))
        BY <1>3, <1>f
    <2>3. Head(frames').pc # "confirm"
        BY <1>3, <1>g
    <2>4. response = "none" => ~Holds(frames', "Destroy")
        BY <1>2, <1>3, <1>t DEF Shape
    <2>5. response = "none" /\ (~connected \/ killed') => Stops(frames')
        BY <2>1, <1>2, <1>3, <1>t DEF Shape
    <2> QED BY <1>a, <1>5, <1>t, <2>1, <2>2, <2>3, <2>4, <2>5 DEF Shape
<1>7. DoomedJoins'
    BY <1>1, <1>h DEF DoomedJoins, Doomed
<1>8. OneStep' /\ KeyFollows'
    BY <1>1, <1>l DEF LiveInv, OneStep, KeyFollows, Kept
<1>9. TimeoutFollows'
    BY <1>1, <1>l, <1>2, <1>3 DEF LiveInv, TimeoutFollows, Quiet, Kept
<1>10. HeartbeatFollows'
    <2>1. CASE f.fn = "Close"
        BY <1>1, <1>l, <1>f, <1>2, <1>3, <1>a, <2>1 DEF LiveInv, HeartbeatFollows, f
    <2>2. CASE f.fn # "Close"
        <3>1. heartbeat' = 0 /\ Joining(frames) /\ (JoiningTwice(frames) <=> Joining(r))
              /\ ~RestartOver(frames)
            BY <1>1, <1>f, <1>l, <1>2, <1>4, <2>2 DEF LiveInv, HeartbeatFollows, f
        <3>2. connected => key # sock /\ ~Joining(r)
            BY <1>l, <3>1 DEF LiveInv, HeartbeatFollows
        <3>3. Joining(r) => timers = {}
            BY <1>l, <3>1 DEF LiveInv, HeartbeatFollows
        <3> QED BY <1>1, <1>h, <1>2, <1>3, <1>4, <1>a, <1>5, <3>1, <3>2, <3>3 DEF HeartbeatFollows
    <2> QED BY <2>1, <2>2
<1>11. RestartFollows'
    BY <1>1, <1>l, <1>h, <1>2, <1>3, <1>4, <1>a, <1>5 DEF LiveInv, RestartFollows, Quiet
<1> QED BY <1>6, <1>7, <1>8, <1>9, <1>10, <1>11 DEF LiveInv

\* A restart starts the next connection, of which nothing is there yet.
LEMMA RestartEndsStep ==
    ASSUME LoginInv, RestartEnds
    PROVE  Shape' /\ DoomedJoins' /\ (Live' => LiveInv')
<1> USE DEF window, socket, beats, http
<1>1. /\ AtGo("Restart") /\ ~crashed /\ ~connected /\ frames # <<>> /\ Head(frames).fn = "Restart"
      /\ Head(frames).pc = "go" /\ frames' = Tail(frames)
      /\ connected' = TRUE /\ killed' = FALSE
      /\ sock' = sock + 1 /\ phase' = "connecting" /\ stage' = "wait"
      /\ UNCHANGED <<late, dialog, response, token, heartbeat, timers, timeout, key, inbox,
                     requests, locked, crashed>>
    BY DEF RestartEnds, GoesOn, Top, AtGo
<1>t. /\ LoginTypeOK /\ Shape /\ connected \in BOOLEAN /\ frames \in Seq(Handler)
      /\ sock \in Nat /\ key \in 0..sock /\ heartbeat \in 0..sock
      /\ requests \in SUBSET (1..sock) /\ Numbered(inbox, sock)
    BY DEF LoginInv, LoginTypeOK
<1> DEFINE f == Head(frames)
           r == Tail(frames)
<1>2. /\ f \in Handler /\ r \in Seq(Handler)
      /\ Joining(frames) <=> Joining(r)
      /\ JoiningTwice(frames) <=> JoiningTwice(r)
      /\ Stops(frames)
      /\ \A fn : Holds(frames, fn) <=> "Restart" = fn \/ Holds(r, fn)
      /\ RestartOver(frames) <=> RestartOver(r)
    BY <1>1, <1>t, OfTop DEF Joins
<1>w. Waiting(r)
    BY <1>1, <1>t DEF Shape
<1>3. r # <<>> => /\ Waits(Head(r)) /\ Waiting(Tail(r))
    BY <1>w, <1>2, OfTop
<1> HIDE DEF f, r
<1>r. frames' = r
    BY <1>1 DEF r
<1>a. \A fn : ~AtGo(fn)'
    BY <1>r, <1>3 DEF AtGo, Waits
<1>4. Shape'
    BY <1>1, <1>r, <1>2, <1>3, <1>a, <1>t DEF Shape, Waits
<1>5. DoomedJoins' /\ (Live' => Live)
    BY <1>1, <1>r, <1>2 DEF LoginInv, DoomedJoins, Live, Doomed
<1>6. ASSUME Live, LiveInv PROVE LiveInv'
    <2>q. Quiet /\ timers = {} /\ ~Has(inbox, "hello") /\ ~Has(inbox, "cancel")
        <3>1. Quiet /\ timers = {}
            BY <1>1, <1>2, <1>6 DEF LiveInv, RestartFollows
        <3> QED BY <3>1 DEF Quiet, Kept
    <2>s. /\ sock' # key /\ sock' # sock /\ sock' \notin requests
          /\ \A i \in DOMAIN inbox : inbox[i].op # "close" => inbox[i].conn # sock'
        BY <1>1, <1>t DEF Numbered
    <2>1. OneStep'
        <3>1. \A i \in DOMAIN inbox : inbox[i].op \notin Kept
            BY <2>q DEF Quiet, Has
        <3> QED BY <1>1, <2>s, <3>1 DEF OneStep, Kept
    <2>2. KeyFollows'
        BY <1>1, <2>s, <2>q DEF KeyFollows
    <2>3. TimeoutFollows'
        BY <1>1, <2>s, <2>q DEF TimeoutFollows
    <2>4. HeartbeatFollows'
        BY <1>1, <1>2, <1>r, <1>a, <2>s, <1>6 DEF LiveInv, HeartbeatFollows
    <2>5. RestartFollows'
        <3>1. Holds(r, "Restart") => Has(inbox, "close")
            BY <1>1, <1>6 DEF LiveInv, RestartFollows, r
        <3> QED BY <1>1, <1>r, <1>a, <3>1 DEF RestartFollows
    <2> QED BY <2>1, <2>2, <2>3, <2>4, <2>5 DEF LiveInv
<1> QED BY <1>4, <1>5, <1>6 DEF LoginInv

\* A handler that is done leaves the stack to those behind it: of a login that was
\* responded to, or of a close that the client was not told of.
LEMMA DoneStep ==
    ASSUME LoginInv, ~crashed, frames # <<>>, frames' = Tail(frames),
           ~Joins(Head(frames)), Head(frames).fn # "Restart",
           Head(frames).fn = "Close" => ~connected /\ response' = response,
           Head(frames).fn # "Close" => response' # "none",
           UNCHANGED <<late, connected, sock, phase, stage, heartbeat, killed,
                       timers, timeout, key, inbox, requests, crashed>>
    PROVE  Shape' /\ DoomedJoins' /\ (Live' => LiveInv')
<1>t. LoginTypeOK /\ Shape /\ frames \in Seq(Handler)
    BY DEF LoginInv, LoginTypeOK
<1> DEFINE f == Head(frames)
           r == Tail(frames)
<1>2. /\ f \in Handler /\ r \in Seq(Handler)
      /\ Joining(frames) <=> Joining(r)
      /\ JoiningTwice(frames) <=> JoiningTwice(r)
      /\ Stops(frames) <=> f.fn # "Close" \/ Stops(r)
      /\ \A fn : Holds(frames, fn) <=> f.fn = fn \/ Holds(r, fn)
      /\ RestartOver(frames) <=> RestartOver(r)
      /\ CloseOver(frames) <=> (f.fn = "Close" /\ Holds(r, "Restart")) \/ CloseOver(r)
    BY <1>t, OfTop
<1>w. Waiting(r)
    BY <1>t DEF Shape
<1>3. r # <<>> => /\ Waits(Head(r)) /\ Waiting(Tail(r))
    BY <1>w, <1>2, OfTop
<1>f. /\ f.fn # "Restart"
      /\ f.fn = "Close" => ~connected /\ response' = response
      /\ f.fn # "Close" => response' # "none"
    OBVIOUS
<1> HIDE DEF f, r
<1>r. frames' = r
    BY DEF r
<1>a. \A fn : ~AtGo(fn)'
    BY <1>r, <1>3 DEF AtGo, Waits
<1>4. Shape'
    BY <1>r, <1>2, <1>3, <1>a, <1>f, <1>t DEF Shape, Waits
<1>5. DoomedJoins' /\ (Live' => Live)
    BY <1>r, <1>2 DEF LoginInv, DoomedJoins, Live, Doomed
<1>6. ASSUME Live, LiveInv PROVE LiveInv'
    <2>1. OneStep' /\ KeyFollows'
        BY <1>6 DEF LiveInv, OneStep, KeyFollows, Kept
    <2>3. TimeoutFollows'
        BY <1>6, <1>r, <1>f, <1>2 DEF LiveInv, TimeoutFollows, Quiet, Kept
    <2>4. HeartbeatFollows'
        BY <1>6, <1>r, <1>a, <1>2 DEF LiveInv, HeartbeatFollows
    <2>5. RestartFollows'
        BY <1>6, <1>r, <1>a, <1>f, <1>2 DEF LiveInv, RestartFollows
    <2> QED BY <2>1, <2>3, <2>4, <2>5 DEF LiveInv
<1> QED BY <1>4, <1>5, <1>6 DEF LoginInv

\* The handler of a close asks for the message of an error.
LEMMA CloseEndsStep ==
    ASSUME LoginInv, CloseEnds
    PROVE  Shape' /\ DoomedJoins' /\ (Live' => LiveInv')
<1> USE DEF window, socket, beats, http
<1>1. /\ ~crashed /\ frames # <<>> /\ Head(frames).fn = "Close" /\ Head(frames).pc = "go"
      /\ UNCHANGED <<late, dialog, response, token, key, requests, locked, crashed>>
    BY DEF CloseEnds, GoesOn, Top
<1>t. LoginTypeOK /\ Shape /\ DoomedJoins /\ (Live => LiveInv)
      /\ connected \in BOOLEAN /\ frames \in Seq(Handler) /\ timers \in SUBSET timers
      /\ inbox \in Letters
    BY DEF LoginInv, LoginTypeOK
<1>2. CASE ~connected
    <2>1. frames' = Tail(frames) /\ UNCHANGED <<connected, sock, phase, stage, heartbeat, killed,
                                                timers, timeout, inbox>>
        BY <1>2 DEF CloseEnds
    <2>2. ~Joins(Head(frames))
        BY <1>1 DEF Joins
    <2> QED BY <1>1, <1>2, <2>1, <2>2, DoneStep
<1>3. CASE connected
    <2>1. CallStop("Closed", Tail(frames), inbox, timers)
        BY <1>3 DEF CloseEnds
    <2>2. LeftOf(inbox, inbox, 0)
        <3>1. DOMAIN inbox \subseteq Nat
            BY <1>t DEF Letters
        <3> QED BY <3>1 DEF LeftOf
    <2>3. /\ Tail(frames) \in Seq(Handler) /\ Waiting(Tail(frames))
          /\ Joining(Tail(frames)) <=> Joining(frames)
          /\ JoiningTwice(Tail(frames)) <=> JoiningTwice(frames)
          /\ Stops(Tail(frames)) <=> Stops(frames)
          /\ RestartOver(Tail(frames)) => RestartOver(frames)
          /\ \A g : g # "Close" => (Holds(Tail(frames), g) <=> Holds(frames, g))
        BY <1>1, <1>t, OfTop DEF Joins, Shape
    <2> QED BY <1>1, <1>t, <2>1, <2>2, <2>3, CallStopStep
<1> QED BY <1>t, <1>2, <1>3

\* The message box opens over what waits.
LEMMA OnErrorShowsStep ==
    ASSUME LoginInv, OnErrorShows
    PROVE  Shape' /\ DoomedJoins' /\ (Live' => LiveInv')
<1> USE DEF window, socket, beats, http
<1>1. /\ ~crashed /\ frames # <<>> /\ Head(frames).fn \in {"Refused", "Closed"} /\ Head(frames).pc = "go"
      /\ frames' = <<[Head(frames) EXCEPT !.pc = "confirm"]>> \o Tail(frames)
      /\ UNCHANGED <<late, dialog, response, token, connected, sock, phase, stage, heartbeat, killed,
                     timers, timeout, key, inbox, requests, locked, crashed>>
    BY DEF OnErrorShows, GoesOn, Top
<1>t. LoginTypeOK /\ Shape /\ connected \in BOOLEAN /\ frames \in Seq(Handler)
    BY DEF LoginInv, LoginTypeOK
<1> DEFINE f == Head(frames)
           r == Tail(frames)
<1>f. f \in Handler /\ r \in Seq(Handler) /\ Waiting(r) /\ ~Joins(f)
    BY <1>1, <1>t, TopAndRest DEF Shape, Joins
<1>2. /\ Joining(frames) <=> Joining(r)
      /\ JoiningTwice(frames) <=> JoiningTwice(r)
      /\ Stops(frames)
      /\ \A fn : Holds(frames, fn) <=> f.fn = fn \/ Holds(r, fn)
      /\ RestartOver(frames) <=> RestartOver(r)
      /\ CloseOver(frames) <=> CloseOver(r)
    BY <1>1, <1>t, <1>f, OfTop
<1>g. PICK g \in Handler : g.fn = f.fn /\ g.pc = "confirm" /\ frames' = <<g>> \o r
    BY <1>1, <1>f, TopTurns
<1>3. /\ frames' # <<>> /\ Head(frames') = g /\ Tail(frames') = r
      /\ Joining(frames') <=> Joining(frames)
      /\ JoiningTwice(frames') <=> JoiningTwice(frames)
      /\ Stops(frames')
      /\ \A fn : Holds(frames', fn) <=> Holds(frames, fn)
      /\ RestartOver(frames') <=> RestartOver(frames)
      /\ CloseOver(frames') <=> CloseOver(frames)
    BY <1>1, <1>g, <1>f, <1>2, OnTop DEF Joins
<1>a. \A fn : ~AtGo(fn)'
    BY <1>g, <1>3 DEF AtGo
<1>c. g.fn \in {"Refused", "Closed"}
    BY <1>1, <1>g
<1> HIDE DEF f, r
<1>4. Shape'
    BY <1>1, <1>3, <1>a, <1>f, <1>2, <1>c, <1>t DEF Shape
<1>5. DoomedJoins' /\ (Live' => Live)
    BY <1>1, <1>3 DEF LoginInv, DoomedJoins, Live, Doomed
<1>6. ASSUME Live, LiveInv PROVE LiveInv'
    <2>1. OneStep' /\ KeyFollows'
        BY <1>1, <1>6 DEF LiveInv, OneStep, KeyFollows, Kept
    <2>3. TimeoutFollows'
        BY <1>1, <1>6, <1>2, <1>3 DEF LiveInv, TimeoutFollows, Quiet, Kept
    <2>4. HeartbeatFollows'
        BY <1>1, <1>6, <1>a, <1>3 DEF LiveInv, HeartbeatFollows
    <2>5. RestartFollows'
        BY <1>1, <1>6, <1>a, <1>3 DEF LiveInv, RestartFollows
    <2> QED BY <2>1, <2>3, <2>4, <2>5 DEF LiveInv
<1> QED BY <1>4, <1>5, <1>6 DEF LoginInv

\* The dialog is responded to, and nothing else changes.
LEMMA UserRespondsStep ==
    ASSUME LoginInv, UserResponds
    PROVE  Shape' /\ DoomedJoins' /\ (Live' => LiveInv')
<1> USE DEF window, socket, beats, http
<1>1. /\ response' # "none"
      /\ UNCHANGED <<late, dialog, token, connected, sock, phase, stage, heartbeat, killed,
                     timers, timeout, key, inbox, requests, locked, frames, crashed>>
    BY DEF UserResponds
<1>4. Shape'
    BY <1>1 DEF LoginInv, Shape, AtGo
<1>5. DoomedJoins' /\ (Live' => Live)
    BY <1>1 DEF LoginInv, DoomedJoins, Live, Doomed
<1>6. ASSUME Live, LiveInv PROVE LiveInv'
    <2>1. OneStep' /\ KeyFollows'
        BY <1>1, <1>6 DEF LiveInv, OneStep, KeyFollows, Kept
    <2>3. TimeoutFollows'
        BY <1>1, <1>6 DEF LiveInv, TimeoutFollows, Quiet, Kept
    <2>4. HeartbeatFollows' /\ RestartFollows'
        BY <1>1, <1>6 DEF LiveInv, HeartbeatFollows, RestartFollows, AtGo, Quiet, Kept
    <2> QED BY <2>1, <2>3, <2>4 DEF LiveInv
<1> QED BY <1>4, <1>5, <1>6 DEF LoginInv

\* The dialog has returned and is destroyed, which stops the client.
LEMMA RunReturnsStep ==
    ASSUME LoginInv, RunReturns
    PROVE  Shape' /\ DoomedJoins' /\ (Live' => LiveInv')
<1>1. /\ ~crashed /\ frames = <<>> /\ response # "none"
      /\ CallStop("Destroy", frames, inbox, timers)
      /\ UNCHANGED <<late, response, token, key, requests, locked, crashed>>
    BY DEF RunReturns, http
<1>t. LoginTypeOK /\ Shape /\ DoomedJoins /\ (Live => LiveInv)
      /\ frames \in Seq(Handler) /\ timers \in SUBSET timers /\ inbox \in Letters
    BY DEF LoginInv, LoginTypeOK
<1>2. LeftOf(inbox, inbox, 0)
    <2>1. DOMAIN inbox \subseteq Nat
        BY <1>t DEF Letters
    <2> QED BY <2>1 DEF LeftOf
<1>3. Waiting(frames)
    BY <1>1, NothingStacked
<1> QED BY <1>1, <1>t, <1>2, <1>3, CallStopStep

\* The ends of the other handlers leave the connection alone.
LEMMA ResponseStep ==
    ASSUME LoginInv, OnTokenEnds \/ OnErrorEnds \/ DestroyEnds
    PROVE  Shape' /\ DoomedJoins' /\ (Live' => LiveInv')
<1> USE DEF window, socket, beats, http
<1>1. /\ ~crashed /\ frames # <<>> /\ frames' = Tail(frames)
      /\ UNCHANGED <<late, connected, sock, phase, stage, heartbeat, killed,
                     timers, timeout, key, inbox, requests, crashed>>
    BY DEF OnTokenEnds, OnErrorEnds, DestroyEnds, GoesOn
<1>2. ~Joins(Head(frames)) /\ Head(frames).fn \notin {"Restart", "Close"}
    BY DEF OnTokenEnds, OnErrorEnds, DestroyEnds, GoesOn, Top, Joins, LoginInv, Shape
<1>3. response' # "none"
    <2>1. CASE DestroyEnds
        <3>1. frames # <<>> /\ Head(frames).fn = "Destroy" /\ response' = response
            BY <2>1 DEF DestroyEnds, GoesOn, Top
        <3>2. Holds(frames, "Destroy")
            BY <3>1, OfTop DEF LoginInv, LoginTypeOK
        <3> QED BY <3>1, <3>2 DEF LoginInv, Shape
    <2>2. CASE OnTokenEnds \/ OnErrorEnds
        BY <2>2 DEF OnTokenEnds, OnErrorEnds
    <2> QED BY <2>1, <2>2
<1> QED BY <1>1, <1>2, <1>3, DoneStep
----------------------------------------------------------------------------
(* The login: what it keeps, and what follows *)

\* The dialog begins with the invariant.
LEMMA LoginBegins == LoginInit => LoginInv
<1> SUFFICES ASSUME LoginInit PROVE LoginInv
    OBVIOUS
<1>1. /\ dialog = "open" /\ response = "none" /\ token = 0
      /\ connected = TRUE /\ sock = 1 /\ phase = "connecting" /\ stage = "wait"
      /\ heartbeat = 0 /\ killed = FALSE /\ timers = {} /\ timeout = 0 /\ key = 0
      /\ inbox = <<>> /\ requests = {} /\ locked = FALSE /\ frames = <<>> /\ crashed = FALSE
    BY DEF LoginInit
<1>2. /\ \A op : ~Has(inbox, op)
      /\ ~Joining(frames) /\ ~JoiningTwice(frames) /\ ~Stops(frames) /\ ~RestartOver(frames)
      /\ \A fn : ~Holds(frames, fn) /\ ~AtGo(fn)
    BY <1>1, NothingWaits, NothingStacked DEF AtGo
<1>3. LoginTypeOK
    <2>1. inbox \in Letters /\ frames \in Seq(Handler)
        BY <1>1 DEF Letters
    <2>2. Numbered(inbox, sock)
        <3>1. DOMAIN inbox = {}
            BY <1>1
        <3> QED BY <3>1 DEF Numbered
    <2>3. /\ sock \in Nat \ {0} /\ token \in Nat
          /\ heartbeat \in 0..sock /\ timeout \in 0..sock /\ key \in 0..sock
        BY <1>1
    <2>4. timers \in SUBSET (1..sock) /\ requests \in SUBSET (1..sock)
        BY <1>1
    <2>5. /\ dialog \in {"open", "closing", "gone"}
          /\ response \in {"none", "ok", "pressed", "cancel"}
          /\ phase \in {"connecting", "open", "closed"}
          /\ stage \in {"wait", "hello", "init", "nonce_proof", "proved", "pending_login", "cancel"}
          /\ connected \in BOOLEAN /\ killed \in BOOLEAN /\ locked \in BOOLEAN /\ crashed \in BOOLEAN
        BY <1>1
    <2> QED BY <2>1, <2>2, <2>3, <2>4, <2>5 DEF LoginTypeOK
<1>4. Shape /\ DoomedJoins
    BY <1>1, <1>2 DEF Shape, DoomedJoins, Doomed
<1>5. OneStep /\ KeyFollows
    BY <1>1, <1>2 DEF OneStep, KeyFollows
<1>6. TimeoutFollows /\ HeartbeatFollows /\ RestartFollows
    BY <1>1, <1>2 DEF TimeoutFollows, HeartbeatFollows, RestartFollows
<1> QED BY <1>3, <1>4, <1>5, <1>6 DEF LoginInv, LiveInv

\* Nothing changes when nothing happens.
LEMMA LoginStutters == LoginInv /\ UNCHANGED loginVars => LoginInv'
<1> SUFFICES ASSUME LoginInv, UNCHANGED loginVars PROVE LoginInv'
    OBVIOUS
<1>1. UNCHANGED <<late, dialog, response, token, connected, sock, phase, stage, heartbeat, killed,
                  timers, timeout, key, inbox, requests, locked, frames, crashed>>
    BY DEF loginVars, window, socket, beats, http
<1>2. LoginTypeOK' /\ Shape' /\ DoomedJoins' /\ (Live' => Live)
    BY <1>1 DEF LoginInv, LoginTypeOK, Shape, AtGo, DoomedJoins, Live, Doomed
<1>3. ASSUME LiveInv PROVE LiveInv'
    <2>1. OneStep' /\ KeyFollows'
        BY <1>1, <1>3 DEF LiveInv, OneStep, KeyFollows, Kept
    <2>2. TimeoutFollows' /\ HeartbeatFollows'
        BY <1>1, <1>3 DEF LiveInv, TimeoutFollows, HeartbeatFollows, AtGo, Quiet, Kept
    <2>3. RestartFollows'
        BY <1>1, <1>3 DEF LiveInv, RestartFollows, AtGo, Quiet, Kept
    <2> QED BY <2>1, <2>2, <2>3 DEF LiveInv
<1> QED BY <1>2, <1>3 DEF LoginInv

\* Every step of the login keeps the invariant.
LEMMA LoginStep == LoginInv /\ [LoginNext]_loginVars => LoginInv'
<1> SUFFICES ASSUME LoginInv, [LoginNext]_loginVars PROVE LoginInv'
    OBVIOUS
<1>1. LoginTypeOK'
    BY LoginTypes DEF LoginInv
<1>2. CASE UNCHANGED loginVars
    BY <1>2, LoginStutters
<1>3. CASE LoginNext
    <2>1. Shape' /\ DoomedJoins' /\ (Live' => LiveInv')
        BY <1>3, SocketOpensStep, SocketFailsStep, SocketClosesStep, ServerSendsStep, OnResponseStep,
           HelloStep, NonceProofStep, PendingLoginStep, CancelStep, OnTimeoutStep, RunCallbacksStep,
           DispatchCloseStep, StopReturnsStep, RestartEndsStep, CloseEndsStep, OnErrorShowsStep,
           UserRespondsStep, RunReturnsStep, ResponseStep
           DEF LoginNext, Messages, Continues
    <2> QED BY <1>1, <2>1 DEF LoginInv
<1> QED BY <1>2, <1>3

\* The login keeps what its properties rest on, whatever comes late: who is stacked over
\* whom, where the one message of the connection is, whose the key, the timeout and the
\* heartbeat are, and that a hello that will find a heartbeat has its crash before it.
THEOREM LoginHolds == LoginSpec => []LoginInv
BY LoginBegins, LoginStep, PTL DEF LoginSpec

\* The dialog at rest listens to one connection, with its own heartbeat and timeout.
THEOREM ListensToItsOwn == LoginSpec => []ListensToOne
<1>1. LoginInv => ListensToOne
    <2> SUFFICES ASSUME LoginInv, frames = <<>>, response = "none", ~crashed
                 PROVE  /\ timers \subseteq {sock} /\ connected
                        /\ key = sock => heartbeat = sock /\ ~killed /\ timers = {sock}
        BY DEF ListensToOne
    <2>1. ~Joining(frames) /\ ~Stops(frames)
        BY NothingStacked
    <2>2. connected /\ ~killed
        BY <2>1 DEF LoginInv, Shape
    <2>3. LiveInv
        BY <2>1 DEF LoginInv, DoomedJoins, Live
    <2> QED BY <2>1, <2>2, <2>3 DEF LiveInv, TimeoutFollows, HeartbeatFollows
<1> QED BY <1>1, LoginHolds, PTL

\* A restart that goes on to Start finds the client stopped.
THEOREM RestartFindsStopped == LoginSpec => []RestartsStopped
<1>1. LoginInv => RestartsStopped
    BY DEF LoginInv, Shape, RestartsStopped, GoesOn, Top, AtGo
<1> QED BY <1>1, LoginHolds, PTL
----------------------------------------------------------------------------
(* The login: an answer in time finds its key *)

\* A letter behind the others leaves the answers' keys and hellos before them.
LEMMA AnsweredPut ==
    ASSUME NEW q \in Letters, NEW m \in Letter, NEW k, NEW h, Answered(q, k, h),
           m.op = "answer" => \/ m.conn = k /\ ~Has(q, "hello")
                              \/ h # 0 /\ Has(q, "hello")
    PROVE  Answered(Append(q, m), k, h)
<1> DEFINE t == Append(q, m)
           n == Len(q)
<1>1. /\ DOMAIN t = 1..(n + 1) /\ DOMAIN q = 1..n /\ n \in Nat
      /\ t[n + 1] = m /\ \A i \in DOMAIN q : t[i] = q[i]
    BY PutLastPlaces
<1> HIDE DEF t, n
<1> SUFFICES ASSUME NEW i \in DOMAIN t, t[i].op = "answer"
             PROVE  \/ k = t[i].conn /\ \A j \in 1..i : t[j].op # "hello"
                    \/ h # 0 /\ \E j \in 1..i : t[j].op = "hello"
    BY DEF Answered, t
<1>2. CASE i \in DOMAIN q
    <2>1. t[i] = q[i] /\ \A j \in 1..i : j \in DOMAIN q /\ t[j] = q[j]
        BY <1>1, <1>2
    <2>2. \/ k = q[i].conn /\ \A j \in 1..i : q[j].op # "hello"
          \/ h # 0 /\ \E j \in 1..i : q[j].op = "hello"
        BY <1>2, <2>1 DEF Answered
    <2> QED BY <2>1, <2>2
<1>3. CASE i \notin DOMAIN q
    <2>1. i = n + 1 /\ t[i] = m /\ \A j \in 1..i : j # i => j \in DOMAIN q /\ t[j] = q[j]
        BY <1>1, <1>3
    <2>2. \A j \in DOMAIN q : j \in 1..i /\ t[j] = q[j]
        BY <1>1, <2>1
    <2>3. CASE m.conn = k /\ ~Has(q, "hello")
        <3>1. \A j \in 1..i : t[j].op # "hello"
            BY <2>1, <2>3 DEF Has
        <3> QED BY <2>1, <2>3, <3>1
    <2>4. CASE h # 0 /\ Has(q, "hello")
        BY <2>2, <2>4 DEF Has
    <2> QED BY <2>1, <2>3, <2>4
<1> QED BY <1>2, <1>3

\* So does the first letter, when it is no hello and is taken.
LEMMA AnsweredTaken ==
    ASSUME NEW q \in Letters, q # <<>>, Head(q).op # "hello", NEW k, NEW h, Answered(q, k, h)
    PROVE  Answered(Tail(q), k, h)
<1> DEFINE t == Tail(q)
<1>1. /\ 1 \in DOMAIN q /\ q[1] = Head(q) /\ DOMAIN t \subseteq Nat \ {0}
      /\ \A i \in DOMAIN t : i + 1 \in DOMAIN q /\ t[i] = q[i + 1]
      /\ \A i \in DOMAIN t : 1..i \subseteq DOMAIN t
    <2>1. t \in Letters
        BY Taken
    <2>2. \A i \in DOMAIN t : 1..i \subseteq DOMAIN t
        BY <2>1 DEF Letters
    <2> QED BY <2>2, Taken
<1> HIDE DEF t
<1> SUFFICES ASSUME NEW i \in DOMAIN t, t[i].op = "answer"
             PROVE  \/ k = t[i].conn /\ \A j \in 1..i : t[j].op # "hello"
                    \/ h # 0 /\ \E j \in 1..i : t[j].op = "hello"
    BY DEF Answered, t
<1>2. \/ k = q[i + 1].conn /\ \A j \in 1..(i + 1) : q[j].op # "hello"
      \/ h # 0 /\ \E j \in 1..(i + 1) : q[j].op = "hello"
    BY <1>1 DEF Answered
<1>3. i \in Nat \ {0} /\ t[i] = q[i + 1]
      /\ \A j \in 1..i : j + 1 \in 1..(i + 1) /\ t[j] = q[j + 1]
    BY <1>1
<1>4. CASE k = q[i + 1].conn /\ \A j \in 1..(i + 1) : q[j].op # "hello"
    BY <1>3, <1>4
<1>5. CASE h # 0 /\ \E j \in 1..(i + 1) : q[j].op = "hello"
    <2>1. PICK j \in 1..(i + 1) : q[j].op = "hello"
        BY <1>5
    <2>2. j # 1
        BY <1>1, <2>1
    <2>3. j - 1 \in 1..i /\ (j - 1) + 1 = j
        BY <1>3, <2>2
    <2>4. t[j - 1] = q[j]
        BY <1>3, <2>3
    <2> QED BY <1>5, <2>1, <2>3, <2>4
<1> QED BY <1>2, <1>4, <1>5

\* Stop changes neither what the answers in the queue find nor whether there is a token.
LEMMA CallStopAnswers ==
    ASSUME NEW fn \in {"Restart", "Closed", "Token", "Refused", "Destroy"},
           NEW behind \in Seq(Handler), NEW queue \in Letters, NEW armed,
           CallStop(fn, behind, queue, armed), UNCHANGED key,
           ~crashed' => Answered(queue, key, heartbeat),
           fn = "Token" \/ Holds(behind, "Token") \/ response' = "ok" => token' # 0
    PROVE  (~crashed' => Answered(inbox', key', heartbeat')) /\ HasToken'
<1>1. /\ inbox' \in {queue, Append(queue, [op |-> "close"])} /\ heartbeat' = heartbeat
      /\ frames' = <<[fn |-> fn, pc |-> IF connected THEN "pump" ELSE "go"]>> \o behind
    BY DEF CallStop
<1> PICK f \in Handler : f.fn = fn /\ frames' = <<f>> \o behind
    <2>1. [fn |-> fn, pc |-> IF connected THEN "pump" ELSE "go"] \in Handler
        BY DEF Handler
    <2> QED BY <1>1, <2>1
<1>2. Holds(frames', "Token") <=> fn = "Token" \/ Holds(behind, "Token")
    BY OnTop
<1> DEFINE m == [op |-> "close"]
<1>3. m \in Letter /\ m.op # "answer"
    BY DEF Letter
<1> HIDE DEF m
<1>4. ~crashed' => Answered(Append(queue, m), key, heartbeat)
    BY <1>3, AnsweredPut
<1> QED BY <1>1, <1>2, <1>4 DEF HasToken, m

\* An answer that is in time waits for the key that its login was begun with, and a
\* login that has ended has a token.
LEMMA ReadableStep ==
    ASSUME LoginInv, Readable, [LoginNext]_loginVars
    PROVE  Readable'
<1> USE DEF window, socket, beats, http
<1>0. late' = late
    BY DEF LoginNext, Messages, Continues, loginVars, SocketOpens, SocketFails, SocketCloses, ServerSends,
       HandleGatewayHello, HandleGatewayNonceProof, HandleGatewayPendingLogin, HandleGatewayCancel,
       DispatchClose, RunCallbacks, OnTimeout, OnResponse, UserResponds, StopReturns, RestartEnds,
       CloseEnds, OnTokenEnds, OnErrorShows, OnErrorEnds, RunReturns, DestroyEnds
<1> SUFFICES ASSUME "answer" \notin late
             PROVE  (~crashed' => Answered(inbox', key', heartbeat')) /\ HasToken'
    BY <1>0 DEF Readable
<1>a. (~crashed => Answered(inbox, key, heartbeat)) /\ HasToken
    BY DEF Readable
<1>t. /\ LoginTypeOK /\ Shape /\ inbox \in Letters /\ frames \in Seq(Handler)
      /\ sock \in Nat \ {0} /\ requests \in SUBSET (1..sock)
    BY DEF LoginInv, LoginTypeOK
<1>s. ASSUME frames # <<>>
      PROVE  /\ Tail(frames) \in Seq(Handler) /\ Head(frames) \in Handler
             /\ Holds(frames, "Token") <=> Head(frames).fn = "Token" \/ Holds(Tail(frames), "Token")
    BY <1>s, <1>t, OfTop
<1>c. ASSUME UNCHANGED <<response, token, key, heartbeat, inbox, crashed>>, frames' = frames
      PROVE  (~crashed' => Answered(inbox', key', heartbeat')) /\ HasToken'
    BY <1>a, <1>c DEF HasToken
<1>1. CASE SocketOpens \/ SocketFails \/ UNCHANGED loginVars
    BY <1>1, <1>c DEF SocketOpens, SocketFails, loginVars
<1>2. CASE SocketCloses
    <2> DEFINE m == [op |-> "close"]
    <2>1. m \in Letter /\ m.op # "answer"
        BY DEF Letter
    <2>2. inbox' = Append(inbox, m) /\ UNCHANGED <<response, token, key, heartbeat, frames, crashed>>
        BY <1>2 DEF SocketCloses
    <2> HIDE DEF m
    <2>3. ~crashed => Answered(Append(inbox, m), key, heartbeat)
        BY <1>a, <1>t, <2>1, AnsweredPut
    <2> QED BY <1>a, <2>2, <2>3 DEF HasToken
<1>3. CASE ServerSends
    <2>1. PICK op \in {"hello", "nonce_proof", "pending_login", "cancel"} :
              inbox' = Append(inbox, [op |-> op, conn |-> sock])
        BY <1>3 DEF ServerSends
    <2> DEFINE m == [op |-> op, conn |-> sock]
    <2>2. m \in Letter /\ m.op # "answer"
        BY <1>t DEF Letter
    <2>3. inbox' = Append(inbox, m) /\ UNCHANGED <<response, token, key, heartbeat, frames, crashed>>
        BY <1>3, <2>1 DEF ServerSends
    <2> HIDE DEF m
    <2>4. ~crashed => Answered(Append(inbox, m), key, heartbeat)
        BY <1>a, <1>t, <2>2, AnsweredPut
    <2> QED BY <1>a, <2>3, <2>4 DEF HasToken
<1>4. CASE OnResponse
    <2>1. PICK c \in requests, ok \in BOOLEAN :
              c = sock /\ connected /\ inbox' = Append(inbox, [op |-> "answer", conn |-> c, ok |-> ok])
        BY <1>4 DEF OnResponse
    <2> DEFINE m == [op |-> "answer", conn |-> c, ok |-> ok]
    <2>2. m \in Letter /\ m.op = "answer" /\ m.conn = sock
        BY <1>t, <2>1 DEF Letter
    <2>3. inbox' = Append(inbox, m) /\ UNCHANGED <<response, token, key, heartbeat, frames, crashed>>
        BY <1>4, <2>1 DEF OnResponse
    <2> HIDE DEF m
    <2>4. ~crashed => \/ m.conn = key /\ ~Has(inbox, "hello")
                      \/ heartbeat # 0 /\ Has(inbox, "hello")
        <3>1. CASE Live
            <4>1. stage = "pending_login" /\ LiveInv
                BY <2>1, <3>1 DEF LoginInv, LiveInv, OneStep
            <4>2. key = sock /\ ~Has(inbox, "hello")
                BY <4>1 DEF LiveInv, KeyFollows
            <4> QED BY <2>2, <4>2
        <3>2. CASE ~Live
            BY <3>2 DEF Live, Doomed
        <3> QED BY <3>1, <3>2
    <2>5. ~crashed => Answered(Append(inbox, m), key, heartbeat)
        BY <1>a, <1>t, <2>2, <2>4, AnsweredPut
    <2> QED BY <1>a, <2>3, <2>5 DEF HasToken
<1>5. CASE HandleGatewayHello
    <2>1. /\ Takes("hello") /\ inbox' = Tail(inbox) /\ crashed' = (heartbeat # 0)
          /\ UNCHANGED <<response, token, frames>>
        BY <1>5 DEF HandleGatewayHello
    <2>2. /\ ~crashed /\ inbox[1].op = "hello"
          /\ \A i \in DOMAIN Tail(inbox) : /\ i + 1 \in DOMAIN inbox /\ i \in Nat
                                           /\ Tail(inbox)[i] = inbox[i + 1]
        <3>1. Tail(inbox) \in Letters
            BY <1>t, <2>1, TakesFirst
        <3>2. DOMAIN Tail(inbox) \subseteq Nat
            BY <3>1 DEF Letters
        <3> QED BY <1>t, <2>1, <3>2, TakesFirst
    <2>3. ASSUME heartbeat = 0, NEW i \in DOMAIN Tail(inbox), Tail(inbox)[i].op = "answer"
          PROVE  FALSE
        <3>1. 1 \in 1..(i + 1) /\ i + 1 \in DOMAIN inbox /\ inbox[i + 1].op = "answer"
            BY <2>2, <2>3
        <3> QED BY <1>a, <2>2, <2>3, <3>1 DEF Answered
    <2>4. heartbeat = 0 => Answered(Tail(inbox), key', heartbeat')
        BY <2>3 DEF Answered
    <2> QED BY <1>a, <2>1, <2>4 DEF HasToken
<1>6. CASE HandleGatewayNonceProof \/ HandleGatewayPendingLogin
    <2>1. /\ Takes("nonce_proof") \/ Takes("pending_login")
          /\ inbox' = Tail(inbox) /\ UNCHANGED <<response, token, key, heartbeat, frames, crashed>>
        BY <1>6 DEF HandleGatewayNonceProof, HandleGatewayPendingLogin
    <2>2. inbox # <<>> /\ Head(inbox).op # "hello"
        BY <2>1 DEF Takes
    <2>3. ~crashed => Answered(Tail(inbox), key, heartbeat)
        BY <1>a, <1>t, <2>2, AnsweredTaken
    <2> QED BY <1>a, <2>1, <2>3 DEF HasToken
<1>7. CASE HandleGatewayCancel
    <2>1. /\ Takes("cancel") /\ CallStop("Restart", frames, Tail(inbox), timers)
          /\ UNCHANGED <<response, token, key, crashed>>
        BY <1>7 DEF HandleGatewayCancel
    <2>2. inbox # <<>> /\ Head(inbox).op # "hello"
        BY <2>1 DEF Takes
    <2>3. Tail(inbox) \in Letters
        BY <1>t, <2>1, TakesFirst
    <2>4. ~crashed => Answered(Tail(inbox), key, heartbeat)
        BY <1>a, <1>t, <2>2, AnsweredTaken
    <2> QED BY <1>a, <1>t, <2>1, <2>3, <2>4, CallStopAnswers DEF HasToken
<1>8. CASE DispatchClose
    <2>1. /\ Takes("close") /\ inbox' \in {Tail(inbox), Append(Tail(inbox), [op |-> "close"])}
          /\ UNCHANGED <<response, token, key, heartbeat, crashed>>
          /\ frames' = <<[fn |-> "Close", pc |-> "pump"]>> \o frames
        BY <1>8 DEF DispatchClose
    <2>2. inbox # <<>> /\ Head(inbox).op # "hello"
        BY <2>1 DEF Takes
    <2>3. Tail(inbox) \in Letters
        BY <1>t, <2>1, TakesFirst
    <2>4. ~crashed => Answered(Tail(inbox), key, heartbeat)
        BY <1>a, <1>t, <2>2, AnsweredTaken
    <2> DEFINE m == [op |-> "close"]
    <2>5. m \in Letter /\ m.op # "answer"
        BY DEF Letter
    <2> HIDE DEF m
    <2>6. ~crashed => Answered(Append(Tail(inbox), m), key, heartbeat)
        BY <2>3, <2>4, <2>5, AnsweredPut
    <2>7. Holds(frames', "Token") <=> Holds(frames, "Token")
        <3>1. PICK f \in Handler : f.fn = "Close" /\ frames' = <<f>> \o frames
            BY <2>1 DEF Handler
        <3> QED BY <1>t, <3>1, OnTop
    <2> QED BY <1>a, <2>1, <2>4, <2>6, <2>7 DEF HasToken, m
<1>9. CASE RunCallbacks
    <2>1. Takes("answer") /\ UNCHANGED <<response, key>>
        BY <1>9 DEF RunCallbacks
    <2>2. inbox # <<>> /\ Head(inbox).op = "answer"
        BY <2>1 DEF Takes
    <2>3. Tail(inbox) \in Letters /\ ~crashed /\ Head(inbox).conn \in 1..sock
          /\ 1 \in DOMAIN inbox /\ inbox[1] = Head(inbox)
        BY <1>t, <2>1, TakesFirst
    <2>4. Answered(Tail(inbox), key, heartbeat)
        BY <1>a, <1>t, <2>2, <2>3, AnsweredTaken
    <2>5. key = Head(inbox).conn /\ key # 0
        <3>1. 1 \in 1..1 /\ \A j \in 1..1 : j = 1
            OBVIOUS
        <3>2. \/ key = inbox[1].conn
              \/ \E j \in 1..1 : inbox[j].op = "hello"
            BY <1>a, <2>2, <2>3 DEF Answered
        <3> QED BY <2>2, <2>3, <3>1, <3>2
    <2>6. CASE locked \/ dialog = "gone"
        BY <1>9, <1>a, <2>1, <2>6 DEF RunCallbacks, HasToken
    <2>7. CASE ~(locked \/ dialog = "gone")
        <3>1. token' = IF ~Head(inbox).ok THEN token ELSE key
            BY <1>9, <2>5, <2>7 DEF RunCallbacks
        <3>2. CallStop(IF Head(inbox).ok THEN "Token" ELSE "Refused", frames, Tail(inbox), timers)
            BY <1>9, <2>7 DEF RunCallbacks
        <3>3. CASE Head(inbox).ok
            <4>1. token' # 0 /\ CallStop("Token", frames, Tail(inbox), timers)
                BY <2>5, <3>1, <3>2, <3>3
            <4> QED BY <1>t, <2>1, <2>3, <2>4, <4>1, CallStopAnswers
        <3>4. CASE ~Head(inbox).ok
            <4>1. token' = token /\ CallStop("Refused", frames, Tail(inbox), timers)
                BY <3>1, <3>2, <3>4
            <4> QED BY <1>a, <1>t, <2>1, <2>3, <2>4, <4>1, CallStopAnswers DEF HasToken
        <3> QED BY <3>3, <3>4
    <2> QED BY <2>6, <2>7
<1>10. CASE OnTimeout
    <2>1. MainReady /\ UNCHANGED <<response, token, key>>
        BY <1>10 DEF OnTimeout
    <2>2. PICK c \in timers : \/ CallStop("Restart", frames, inbox, timers \ {c}) /\ UNCHANGED crashed
                              \/ crashed' = TRUE /\ UNCHANGED frames
        BY <1>10 DEF OnTimeout
    <2>3. CASE CallStop("Restart", frames, inbox, timers \ {c}) /\ UNCHANGED crashed
        BY <1>a, <1>t, <2>1, <2>3, CallStopAnswers DEF HasToken
    <2>4. CASE crashed' = TRUE /\ UNCHANGED frames
        BY <1>a, <2>1, <2>4 DEF HasToken
    <2> QED BY <2>2, <2>3, <2>4
<1>11. CASE UserResponds
    BY <1>11, <1>a DEF UserResponds, HasToken
<1>12. CASE StopReturns
    <2>1. /\ inbox = <<>> /\ frames # <<>> /\ inbox' = inbox /\ UNCHANGED <<response, token>>
          /\ frames' = <<[Head(frames) EXCEPT !.pc = "go"]>> \o Tail(frames)
        BY <1>12 DEF StopReturns, Top
    <2>2. PICK g \in Handler : g.fn = Head(frames).fn /\ frames' = <<g>> \o Tail(frames)
        BY <2>1, <1>s, TopTurns
    <2>3. Holds(frames', "Token") <=> Holds(frames, "Token")
        <3>0. frames # <<>>
            BY <2>1
        <3>1. /\ Tail(frames) \in Seq(Handler)
              /\ Holds(frames, "Token") <=> g.fn = "Token" \/ Holds(Tail(frames), "Token")
            BY <3>0, <1>s, <2>2
        <3> QED BY <2>2, <3>1, OnTop
    <2>4. Answered(inbox', key', heartbeat')
        <3>1. DOMAIN inbox' = {}
            BY <2>1
        <3> QED BY <3>1 DEF Answered
    <2> QED BY <1>a, <2>1, <2>3, <2>4 DEF HasToken
<1>13. CASE RestartEnds
    BY <1>13, <1>a, <1>s DEF RestartEnds, GoesOn, HasToken
<1>14. CASE CloseEnds
    <2>1. frames # <<>> /\ ~crashed /\ UNCHANGED <<response, token, key, crashed>>
        BY <1>14 DEF CloseEnds, GoesOn
    <2>2. CASE CallStop("Closed", Tail(frames), inbox, timers)
        BY <1>a, <1>t, <1>s, <2>1, <2>2, CallStopAnswers DEF HasToken
    <2>3. CASE frames' = Tail(frames) /\ UNCHANGED <<heartbeat, inbox>>
        BY <1>a, <1>s, <2>1, <2>3 DEF HasToken
    <2> QED BY <1>14, <2>2, <2>3 DEF CloseEnds
<1>15. CASE OnTokenEnds
    <2>1. /\ frames # <<>> /\ Head(frames).fn = "Token" /\ frames' = Tail(frames)
          /\ UNCHANGED <<token, key, heartbeat, inbox, crashed>>
        BY <1>15 DEF OnTokenEnds, GoesOn, Top
    <2> QED BY <1>a, <1>s, <2>1 DEF HasToken
<1>16. CASE OnErrorShows
    <2>1. /\ frames # <<>> /\ UNCHANGED <<response, token, key, heartbeat, inbox, crashed>>
          /\ frames' = <<[Head(frames) EXCEPT !.pc = "confirm"]>> \o Tail(frames)
        BY <1>16 DEF OnErrorShows, GoesOn, Top
    <2>2. PICK g \in Handler : g.fn = Head(frames).fn /\ frames' = <<g>> \o Tail(frames)
        BY <2>1, <1>s, TopTurns
    <2>3. Holds(frames', "Token") <=> Holds(frames, "Token")
        <3>0. frames # <<>>
            BY <2>1
        <3>1. /\ Tail(frames) \in Seq(Handler)
              /\ Holds(frames, "Token") <=> g.fn = "Token" \/ Holds(Tail(frames), "Token")
            BY <3>0, <1>s, <2>2
        <3> QED BY <2>2, <3>1, OnTop
    <2> QED BY <1>a, <2>1, <2>3 DEF HasToken
<1>17. CASE OnErrorEnds
    BY <1>17, <1>a, <1>s DEF OnErrorEnds, HasToken
<1>18. CASE RunReturns
    <2>1. /\ CallStop("Destroy", frames, inbox, timers)
          /\ UNCHANGED <<response, token, key, crashed>>
        BY <1>18 DEF RunReturns
    <2> QED BY <1>a, <1>t, <2>1, CallStopAnswers DEF HasToken
<1>19. CASE DestroyEnds
    BY <1>19, <1>a, <1>s DEF DestroyEnds, GoesOn, HasToken
<1> QED
    BY <1>1, <1>2, <1>3, <1>4, <1>5, <1>6, <1>7, <1>8, <1>9, <1>10, <1>11, <1>12, <1>13, <1>14,
       <1>15, <1>16, <1>17, <1>18, <1>19
       DEF LoginNext, Messages, Continues

\* When the login closes the dialog there is a token: between the login's request and its
\* answer no hello makes another key, unless the program has crashed before.
THEOREM LoginHasToken == LoginSpec => []TokenIsReadable
<1>1. LoginInit => Readable
    <2> SUFFICES ASSUME LoginInit PROVE Readable
        OBVIOUS
    <2>1. inbox = <<>> /\ response = "none" /\ frames = <<>>
        BY DEF LoginInit
    <2>2. DOMAIN inbox = {} /\ ~Holds(frames, "Token")
        BY <2>1, NothingStacked
    <2> QED BY <2>1, <2>2 DEF Readable, Answered, HasToken
<1>2. LoginInv /\ Readable /\ [LoginNext]_loginVars => Readable'
    BY ReadableStep
<1>3. Readable => TokenIsReadable
    BY DEF Readable, HasToken, TokenIsReadable
<1> QED BY <1>1, <1>2, <1>3, LoginHolds, PTL DEF LoginSpec
----------------------------------------------------------------------------
(* The login: nothing that comes in time crashes *)

\* Stop, by a handler that leaves neither hello nor cancel and nothing that an answer
\* would find held or gone.
LEMMA CallStopInTime ==
    ASSUME LoginTypeOK, Shape, LiveInv, OnTime,
           NEW fn \in {"Restart", "Closed", "Token", "Refused", "Destroy"},
           NEW behind \in Seq(Handler), NEW queue \in Letters, NEW armed \in SUBSET timers,
           CallStop(fn, behind, queue, armed), ~crashed', dialog' # "gone",
           ClosesLast(queue), ~Has(queue, "hello"), ~Has(queue, "cancel"),
           Under(behind), fn \in {"Restart", "Destroy"} => behind = <<>>,
           fn = "Restart" => connected,
           ~connected /\ Has(queue, "answer") => Joining(behind),
           locked' => ~Has(queue, "answer")
    PROVE  OnTime'
<1>1. /\ connected' = FALSE /\ phase' = (IF connected THEN "closed" ELSE phase)
      /\ timers' = (IF connected THEN armed \ {timeout} ELSE armed)
      /\ inbox' \in {queue, Append(queue, [op |-> "close"])}
      /\ frames' = <<[fn |-> fn, pc |-> IF connected THEN "pump" ELSE "go"]>> \o behind
    BY DEF CallStop
<1>2. connected \in BOOLEAN
    BY DEF LoginTypeOK
<1> PICK f \in Handler : /\ frames' = <<f>> \o behind /\ f.fn = fn
                         /\ f.pc = (IF connected THEN "pump" ELSE "go")
    <2>1. [fn |-> fn, pc |-> IF connected THEN "pump" ELSE "go"] \in Handler
        BY DEF Handler
    <2> QED BY <1>1, <2>1
<1>3. /\ frames' # <<>> /\ Head(frames') = f
      /\ Joining(frames') <=> connected \/ Joining(behind)
      /\ Under(frames')
    BY <1>2, OnTop DEF Joins
<1>4. /\ \A op : op # "close" => (Has(inbox', op) <=> Has(queue, op))
      /\ ClosesLast(inbox')
    <2>1. CASE inbox' = queue
        BY <2>1
    <2>2. CASE inbox' = Append(queue, [op |-> "close"])
        BY <2>2, PutClose
    <2> QED BY <1>1, <2>1, <2>2
<1>5. /\ ~Has(inbox', "hello") /\ ~Has(inbox', "cancel")
      /\ Has(inbox', "answer") <=> Has(queue, "answer")
    BY <1>4
<1>6. phase' = "closed"
    BY <1>1, <1>2 DEF Shape
<1>7. timers' = {}
    BY <1>1, <1>2 DEF OnTime, LiveInv, TimeoutFollows
<1>8. ~AtGo("Restart")'
    BY <1>2, <1>3 DEF AtGo
<1>9. AtGo("Destroy")' => ~Has(queue, "answer")
    <2>1. AtGo("Destroy")' => fn = "Destroy" /\ ~connected
        BY <1>2, <1>3 DEF AtGo
    <2>2. fn = "Destroy" => ~Joining(behind)
        BY NothingStacked
    <2> QED BY <2>1, <2>2
<1>10. ~connected' /\ Has(inbox', "answer") => Joining(frames')
    BY <1>2, <1>3, <1>5
<1> QED BY <1>1, <1>3, <1>4, <1>5, <1>6, <1>7, <1>8, <1>9, <1>10 DEF OnTime

\* A login in time is live.
LEMMA InTimeLives ==
    ASSUME LoginInv, OnTime
    PROVE  Live /\ LiveInv
<1>1. Doomed => FALSE
    <2>1. Doomed => frames = <<>> /\ Joining(frames)
        BY DEF Doomed, OnTime, LoginInv, DoomedJoins
    <2> QED BY <2>1, NothingStacked
<1> QED BY <1>1 DEF Live, LoginInv, OnTime

\* Every step of a login to which nothing comes late keeps it from a crash.
LEMMA OnTimeStep ==
    ASSUME LoginInv, OnTime, late = {}, LoginNext
    PROVE  OnTime'
<1> USE DEF window, socket, beats, http
<1>t. /\ LoginTypeOK /\ Shape /\ inbox \in Letters /\ frames \in Seq(Handler)
      /\ sock \in Nat \ {0} /\ requests \in SUBSET (1..sock) /\ connected \in BOOLEAN
      /\ timers \in SUBSET timers /\ locked \in BOOLEAN
    BY DEF LoginInv, LoginTypeOK
<1>v. Live /\ LiveInv /\ OneStep
    BY InTimeLives DEF LiveInv
<1>k. "hello" \in Kept /\ "cancel" \in Kept /\ "answer" \in Kept
    BY DEF Kept
<1>s. ASSUME frames # <<>>
      PROVE  /\ Head(frames) \in Handler /\ Tail(frames) \in Seq(Handler)
             /\ Joining(frames) <=> Joins(Head(frames)) \/ Joining(Tail(frames))
             /\ Stops(frames) <=> Head(frames).fn # "Close" \/ Stops(Tail(frames))
             /\ Under(frames) <=> (Head(frames).fn \in {"Restart", "Destroy"} => Tail(frames) = <<>>)
                                    /\ Under(Tail(frames))
             /\ Waiting(Tail(frames))
    BY <1>s, <1>t, OfTop DEF Shape
<1>e. ASSUME NEW op, op # "close", Takes(op)
      PROVE  /\ inbox # <<>> /\ Tail(inbox) \in Letters /\ ClosesLast(Tail(inbox)) /\ Has(inbox, op)
             /\ \A o : Has(Tail(inbox), o) => Has(inbox, o)
             /\ \A fn : ~AtGo(fn)
             /\ op \in Kept => \A o \in Kept : ~Has(Tail(inbox), o)
    <2>1. inbox # <<>>
        BY <1>e DEF Takes
    <2>2. /\ Tail(inbox) \in Letters /\ \A o : Has(Tail(inbox), o) => Has(inbox, o)
          /\ Has(inbox, op) /\ \A fn : ~AtGo(fn)
        BY <1>e, <1>t, TakesFirst
    <2>3. ClosesLast(Tail(inbox))
        BY <1>t, <2>1, Taken DEF OnTime
    <2>4. op \in Kept => Head(inbox).conn = sock
        BY <1>e, <1>t, <1>v, TakenAlone
    <2>5. Head(inbox).conn = sock => \A o \in Kept : ~Has(Tail(inbox), o)
        BY <1>e, <1>t, <1>v, TakenAlone
    <2> QED BY <2>1, <2>2, <2>3, <2>4, <2>5
<1>w. ASSUME frames # <<>>, frames' = Tail(frames) PROVE \A fn : ~AtGo(fn)'
    <2>1. CASE Tail(frames) = <<>>
        BY <1>w, <2>1 DEF AtGo
    <2>2. CASE Tail(frames) # <<>>
        <3>1. Waits(Head(Tail(frames)))
            BY <1>w, <1>s, <2>2, OfTop
        <3> QED BY <1>w, <3>1 DEF AtGo, Waits
    <2> QED BY <2>1, <2>2
<1>i. InTime => ~Has(inbox, "hello") /\ ~Has(inbox, "cancel")
    BY DEF InTime, Has
<1>1. CASE SocketOpens
    BY <1>1 DEF SocketOpens, OnTime, AtGo
<1>2. CASE SocketFails
    BY <1>2 DEF SocketFails, OnTime, AtGo
<1>3. CASE SocketCloses
    <2>1. /\ phase = "open" /\ phase' = "closed" /\ inbox' = Append(inbox, [op |-> "close"])
          /\ UNCHANGED <<dialog, response, connected, timers, locked, frames, crashed>>
        BY <1>3 DEF SocketCloses
    <2>2. /\ \A op : Has(inbox', op) <=> Has(inbox, op) \/ op = "close"
          /\ ClosesLast(inbox')
        BY <1>t, <2>1, PutClose DEF OnTime
    <2>3. frames = <<>>
        BY <2>1 DEF OnTime
    <2> QED BY <2>1, <2>2, <2>3 DEF OnTime, AtGo
<1>4. CASE ServerSends
    <2>1. PICK op \in {"hello", "nonce_proof", "pending_login", "cancel"} :
              /\ response = "none" \/ op \notin {"hello", "cancel"}
              /\ inbox' = Append(inbox, [op |-> op, conn |-> sock])
        BY <1>4 DEF ServerSends
    <2>2. /\ phase = "open" /\ phase' = "open"
          /\ UNCHANGED <<dialog, response, connected, timers, locked, frames, crashed>>
        BY <1>4 DEF ServerSends
    <2> DEFINE m == [op |-> op, conn |-> sock]
    <2>3. m \in Letter /\ m.op = op /\ inbox' = Append(inbox, m)
        BY <1>t, <2>1 DEF Letter
    <2> HIDE DEF m
    <2>4. \A o : Has(inbox', o) <=> Has(inbox, o) \/ op = o
        BY <1>t, <2>3, PutLast
    <2>5. ~Has(inbox, "close") /\ frames = <<>> /\ connected
        BY <2>2, <1>t DEF OnTime
    <2>6. ClosesLast(inbox')
        <3>1. ClosesLast(inbox) /\ (m.op \in {"hello", "cancel"} => ~Has(inbox, "close")) => ClosesLast(inbox')
            BY <1>t, <2>3, PutLast
        <3> QED BY <2>5, <3>1 DEF OnTime
    <2> QED BY <2>1, <2>2, <2>4, <2>5, <2>6 DEF OnTime, AtGo
<1>5. CASE HandleGatewayHello
    <2>1. /\ Takes("hello") /\ inbox' = Tail(inbox) /\ crashed' = (heartbeat # 0)
          /\ UNCHANGED <<dialog, response, connected, phase, locked, frames>>
        BY <1>5 DEF HandleGatewayHello
    <2>2. /\ ClosesLast(inbox') /\ Has(inbox, "hello") /\ \A o : Has(inbox', o) => Has(inbox, o)
        BY <1>e, <2>1
    <2>3. frames = <<>> /\ connected /\ response = "none" /\ ~crashed'
        BY <2>1, <2>2, <1>v DEF OnTime, Live, Doomed
    <2> QED BY <1>t, <2>1, <2>2, <2>3 DEF OnTime, AtGo
<1>6. CASE HandleGatewayNonceProof \/ HandleGatewayPendingLogin
    <2>1. /\ Takes("nonce_proof") \/ Takes("pending_login")
          /\ inbox' = Tail(inbox)
          /\ UNCHANGED <<dialog, response, connected, phase, timers, locked, frames, crashed>>
        BY <1>6 DEF HandleGatewayNonceProof, HandleGatewayPendingLogin
    <2>2. /\ ClosesLast(inbox') /\ \A o : Has(inbox', o) => Has(inbox, o)
          /\ \A fn : ~AtGo(fn)
        BY <1>e, <2>1
    <2> QED BY <2>1, <2>2 DEF OnTime, AtGo
<1>7. CASE HandleGatewayCancel
    <2>1. /\ Takes("cancel") /\ CallStop("Restart", frames, Tail(inbox), timers)
          /\ UNCHANGED <<dialog, response, locked, crashed>>
        BY <1>7 DEF HandleGatewayCancel
    <2>2. /\ Tail(inbox) \in Letters /\ ClosesLast(Tail(inbox)) /\ Has(inbox, "cancel")
          /\ \A o \in Kept : ~Has(Tail(inbox), o)
        BY <1>e, <1>k, <2>1
    <2>3. frames = <<>> /\ connected
        BY <2>2 DEF OnTime
    <2>4. ~crashed' /\ dialog' # "gone" /\ Under(frames)
        BY <2>1, <2>3, NothingStacked DEF OnTime
    <2>5. ~Has(Tail(inbox), "hello") /\ ~Has(Tail(inbox), "cancel") /\ ~Has(Tail(inbox), "answer")
        BY <1>k, <2>2
    <2> QED BY <1>t, <1>v, <2>1, <2>2, <2>3, <2>4, <2>5, CallStopInTime
<1>8. CASE DispatchClose
    <2>1. /\ Takes("close") /\ phase' = "closed"
          /\ inbox' = (IF phase = "open" THEN Append(Tail(inbox), [op |-> "close"]) ELSE Tail(inbox))
          /\ UNCHANGED <<dialog, response, connected, timers, locked, crashed>>
        BY <1>8 DEF DispatchClose
    <2>2. PICK f \in Handler : f.fn = "Close" /\ f.pc = "pump" /\ frames' = <<f>> \o frames
        BY <1>8 DEF DispatchClose, Handler
    <2>3. /\ inbox # <<>> /\ Head(inbox).op = "close" /\ Has(inbox, "close")
          /\ \A o : Has(Tail(inbox), o) => Has(inbox, o)
        <3>1. inbox # <<>>
            BY <2>1 DEF Takes
        <3>2. /\ Head(inbox).op = "close" /\ Has(inbox, "close")
              /\ \A o : Has(Tail(inbox), o) => Has(inbox, o)
            BY <1>t, <2>1, TakesFirst
        <3> QED BY <3>1, <3>2
    <2>4. phase = "closed" /\ inbox' = Tail(inbox)
        BY <2>1, <2>3 DEF OnTime
    <2>5. ClosesLast(Tail(inbox)) /\ ~Has(Tail(inbox), "hello") /\ ~Has(Tail(inbox), "cancel")
        BY <1>t, <2>3, Taken DEF OnTime
    <2>6. /\ frames' # <<>> /\ Head(frames') = f
          /\ Joining(frames') <=> Joining(frames)
          /\ Stops(frames') <=> Stops(frames)
          /\ Under(frames') <=> Under(frames)
        BY <1>t, <2>2, OnTop DEF Joins
    <2>7. \A fn : ~AtGo(fn)'
        BY <2>2, <2>6 DEF AtGo
    <2> QED BY <2>1, <2>3, <2>4, <2>5, <2>6, <2>7 DEF OnTime
<1>9. CASE RunCallbacks
    <2>1. Takes("answer") /\ UNCHANGED <<dialog, response>>
        BY <1>9 DEF RunCallbacks
    <2>2. /\ Tail(inbox) \in Letters /\ ClosesLast(Tail(inbox)) /\ Has(inbox, "answer")
          /\ \A o \in Kept : ~Has(Tail(inbox), o)
        BY <1>e, <1>k, <2>1
    <2>3. ~locked /\ dialog # "gone"
        BY <2>2 DEF OnTime
    <2>4. PICK fn \in {"Token", "Refused"} : CallStop(fn, frames, Tail(inbox), timers)
        BY <1>9, <2>3 DEF RunCallbacks
    <2>5. ~crashed' /\ dialog' # "gone" /\ Under(frames)
        BY <1>9, <2>1, <2>3 DEF OnTime, RunCallbacks
    <2>6. ~Has(Tail(inbox), "hello") /\ ~Has(Tail(inbox), "cancel") /\ ~Has(Tail(inbox), "answer")
        BY <1>k, <2>2
    <2> QED BY <1>t, <1>v, <2>2, <2>4, <2>5, <2>6, CallStopInTime
<1>10. CASE OnTimeout
    <2>1. /\ InTime /\ frames = <<>> /\ UNCHANGED <<dialog, response, locked>>
        BY <1>10 DEF OnTimeout
    <2>2. PICK c \in timers : \/ CallStop("Restart", frames, inbox, timers \ {c}) /\ UNCHANGED crashed
                              \/ dialog = "gone"
        BY <1>10 DEF OnTimeout
    <2>3. connected /\ dialog # "gone"
        <3>1. timers # {}
            BY <2>2
        <3> QED BY <1>t, <3>1 DEF OnTime
    <2>4. CallStop("Restart", frames, inbox, timers \ {c}) /\ ~crashed' /\ dialog' # "gone"
          /\ timers \ {c} \in SUBSET timers
        BY <2>1, <2>2, <2>3 DEF OnTime
    <2>5. ClosesLast(inbox) /\ Under(frames) /\ (locked' => ~Has(inbox, "answer"))
        BY <2>1 DEF OnTime
    <2> QED BY <1>t, <1>v, <1>i, <2>1, <2>3, <2>4, <2>5, CallStopInTime
<1>11. CASE OnResponse
    <2>1. PICK c \in requests, ok \in BOOLEAN :
              connected /\ inbox' = Append(inbox, [op |-> "answer", conn |-> c, ok |-> ok])
        BY <1>11 DEF OnResponse
    <2>2. /\ ~locked /\ UNCHANGED <<dialog, response, connected, phase, timers, locked, frames, crashed>>
        BY <1>11 DEF OnResponse
    <2> DEFINE m == [op |-> "answer", conn |-> c, ok |-> ok]
    <2>3. m \in Letter /\ m.op = "answer" /\ inbox' = Append(inbox, m)
        BY <1>t, <2>1 DEF Letter
    <2> HIDE DEF m
    <2>4. \A o : Has(inbox', o) <=> Has(inbox, o) \/ m.op = o
        BY <1>t, <2>3, PutLast
    <2>5. ClosesLast(inbox')
        <3>1. ClosesLast(inbox) /\ (m.op \in {"hello", "cancel"} => ~Has(inbox, "close")) => ClosesLast(inbox')
            BY <1>t, <2>3, PutLast
        <3> QED BY <2>3, <3>1 DEF OnTime
    <2> QED BY <2>1, <2>2, <2>3, <2>4, <2>5 DEF OnTime, AtGo
<1>12. CASE UserResponds
    <2>1. /\ InTime /\ UNCHANGED <<dialog, connected, phase, timers, inbox, locked, frames, crashed>>
        BY <1>12 DEF UserResponds
    <2> QED BY <1>i, <2>1 DEF OnTime, AtGo
<1>13. CASE StopReturns
    <2>1. /\ frames # <<>> /\ Head(frames).pc = "pump" /\ inbox = <<>> /\ inbox' = inbox
          /\ frames' = <<[Head(frames) EXCEPT !.pc = "go"]>> \o Tail(frames)
        BY <1>13 DEF StopReturns, Top
    <2>2. UNCHANGED <<dialog, response, connected, phase, timers, locked, crashed>>
        BY <1>13 DEF StopReturns
    <2>3. PICK g \in Handler : g.fn = Head(frames).fn /\ frames' = <<g>> \o Tail(frames)
        BY <2>1, <1>s, TopTurns
    <2>4. \A op : ~Has(inbox', op)
        BY <2>1, NothingWaits
    <2>5. frames # <<>>
        BY <2>1
    <2>6. /\ Head(frames') = g /\ frames' # <<>>
          /\ Stops(frames') <=> Head(frames).fn # "Close" \/ Stops(Tail(frames))
          /\ Under(frames') <=> (Head(frames).fn \in {"Restart", "Destroy"} => Tail(frames) = <<>>)
                                  /\ Under(Tail(frames))
        <3>1. Tail(frames) \in Seq(Handler)
            BY <1>s, <2>5
        <3> QED BY <2>3, <3>1, OnTop
    <2>7. (Stops(frames') <=> Stops(frames)) /\ (Under(frames') <=> Under(frames))
        BY <1>s, <2>5, <2>6
    <2>8. AtGo("Destroy")' => Stops(frames)
        BY <2>3, <2>5, <2>6, <1>s DEF AtGo
    <2>9. ClosesLast(inbox') /\ phase = "closed"
        BY <2>1, <2>5 DEF OnTime
    <2> QED BY <2>2, <2>4, <2>5, <2>7, <2>8, <2>9 DEF OnTime
<1>14. CASE RestartEnds
    <2>1. /\ frames # <<>> /\ Head(frames).fn = "Restart" /\ AtGo("Restart")
          /\ frames' = Tail(frames) /\ connected' = TRUE
          /\ UNCHANGED <<dialog, response, timers, inbox, locked, crashed>>
        BY <1>14 DEF RestartEnds, GoesOn, Top, AtGo
    <2>2. frames' = <<>> /\ Stops(frames)
        BY <1>s, <2>1 DEF OnTime
    <2>3. ~Stops(frames') /\ Under(frames') /\ ~AtGo("Restart")' /\ ~AtGo("Destroy")'
        BY <2>2, NothingStacked DEF AtGo
    <2>4. /\ ~Has(inbox, "close") /\ dialog # "gone" /\ ~Has(inbox, "hello") /\ ~Has(inbox, "cancel")
        BY <2>1, <2>2 DEF OnTime
    <2> QED BY <2>1, <2>2, <2>3, <2>4 DEF OnTime
<1>15. CASE CloseEnds
    <2>1. /\ frames # <<>> /\ Head(frames) = [fn |-> "Close", pc |-> "go"]
          /\ UNCHANGED <<dialog, response, locked, crashed>>
        BY <1>15 DEF CloseEnds, GoesOn, Top
    <2>2. /\ Tail(frames) \in Seq(Handler)
          /\ Joining(frames) <=> Joining(Tail(frames))
          /\ Stops(frames) <=> Stops(Tail(frames))
          /\ Under(Tail(frames))
        BY <1>s, <2>1 DEF Joins, OnTime
    <2>3. CASE connected
        <3>1. CallStop("Closed", Tail(frames), inbox, timers)
            BY <1>15, <2>3 DEF CloseEnds
        <3>2. /\ ~crashed' /\ dialog' # "gone" /\ ClosesLast(inbox)
              /\ ~Has(inbox, "hello") /\ ~Has(inbox, "cancel")
              /\ locked' => ~Has(inbox, "answer")
            BY <2>1, <2>3 DEF OnTime
        <3> QED BY <1>t, <1>v, <2>2, <2>3, <3>1, <3>2, CallStopInTime
    <2>4. CASE ~connected
        <3>1. frames' = Tail(frames) /\ UNCHANGED <<connected, phase, timers, inbox>>
            BY <1>15, <2>4 DEF CloseEnds
        <3>2. \A fn : ~AtGo(fn)'
            BY <1>w, <2>1, <3>1
        <3> QED BY <2>1, <2>2, <2>4, <3>1, <3>2 DEF OnTime
    <2> QED BY <1>t, <2>3, <2>4
<1>16. CASE OnTokenEnds \/ OnErrorEnds
    <2>1. /\ frames # <<>> /\ ~Joins(Head(frames)) /\ Head(frames).fn # "Close"
          /\ frames' = Tail(frames) /\ (locked' => locked)
          /\ UNCHANGED <<dialog, connected, phase, timers, inbox, crashed>>
        <3>1. CASE OnTokenEnds
            BY <3>1 DEF OnTokenEnds, GoesOn, Top, Joins
        <3>2. CASE OnErrorEnds
            BY <1>t, <3>2 DEF OnErrorEnds, Top, Joins, Shape
        <3> QED BY <1>16, <3>1, <3>2
    <2>2. /\ Joining(frames) <=> Joining(Tail(frames))
          /\ Stops(frames) /\ ~connected /\ dialog # "gone"
          /\ Under(Tail(frames))
        BY <1>s, <2>1 DEF OnTime
    <2>3. \A fn : ~AtGo(fn)'
        BY <1>w, <2>1
    <2> QED BY <2>1, <2>2, <2>3 DEF OnTime
<1>17. CASE OnErrorShows
    <2>1. /\ frames # <<>> /\ Head(frames).fn \in {"Refused", "Closed"} /\ Head(frames).pc = "go"
          /\ frames' = <<[Head(frames) EXCEPT !.pc = "confirm"]>> \o Tail(frames)
        BY <1>17 DEF OnErrorShows, GoesOn, Top
    <2>2. UNCHANGED <<dialog, response, connected, phase, timers, inbox, locked, crashed>>
        BY <1>17 DEF OnErrorShows
    <2>3. PICK g \in Handler : /\ g.fn = Head(frames).fn /\ g.pc = "confirm"
                               /\ frames' = <<g>> \o Tail(frames)
        BY <2>1, <1>s, TopTurns
    <2>5. frames # <<>> /\ Head(frames).fn \in {"Refused", "Closed"} /\ ~Joins(Head(frames))
        BY <2>1 DEF Joins
    <2>6. /\ Head(frames') = g /\ frames' # <<>>
          /\ Joining(frames') <=> Joining(Tail(frames))
          /\ Stops(frames')
          /\ Under(frames') <=> Under(Tail(frames))
        <3>1. Tail(frames) \in Seq(Handler)
            BY <1>s, <2>5
        <3> QED BY <2>3, <2>5, <3>1, OnTop DEF Joins
    <2>7. (Joining(frames') <=> Joining(frames)) /\ Stops(frames) /\ (Under(frames') <=> Under(frames))
        BY <1>s, <2>5, <2>6
    <2>8. \A fn : ~AtGo(fn)'
        BY <2>3, <2>6 DEF AtGo
    <2> QED BY <2>2, <2>5, <2>6, <2>7, <2>8 DEF OnTime
<1>18. CASE RunReturns
    <2>1. /\ frames = <<>> /\ response # "none" /\ dialog' = "closing"
          /\ CallStop("Destroy", frames, inbox, timers) /\ UNCHANGED <<locked, crashed>>
        BY <1>18 DEF RunReturns
    <2>2. /\ ~crashed' /\ dialog' # "gone" /\ ClosesLast(inbox)
          /\ ~Has(inbox, "hello") /\ ~Has(inbox, "cancel") /\ Under(frames)
          /\ ~connected /\ Has(inbox, "answer") => Joining(frames)
          /\ locked' => ~Has(inbox, "answer")
        BY <2>1 DEF OnTime
    <2> QED BY <1>t, <1>v, <2>1, <2>2, CallStopInTime
<1>19. CASE DestroyEnds
    <2>1. /\ frames # <<>> /\ Head(frames).fn = "Destroy" /\ AtGo("Destroy")
          /\ frames' = Tail(frames) /\ dialog' = "gone"
          /\ UNCHANGED <<response, connected, phase, timers, inbox, locked, crashed>>
        BY <1>19 DEF DestroyEnds, GoesOn, Top, AtGo
    <2>2. frames' = <<>>
        BY <1>s, <2>1 DEF OnTime
    <2>3. ~Stops(frames') /\ Under(frames') /\ ~AtGo("Restart")' /\ ~AtGo("Destroy")'
        BY <2>2, NothingStacked DEF AtGo
    <2>4. ~connected /\ ~Has(inbox, "answer")
        BY <2>1 DEF OnTime
    <2> QED BY <2>1, <2>2, <2>3, <2>4 DEF OnTime
<1> QED
    BY <1>1, <1>2, <1>3, <1>4, <1>5, <1>6, <1>7, <1>8, <1>9, <1>10, <1>11, <1>12, <1>13, <1>14,
       <1>15, <1>16, <1>17, <1>18, <1>19
       DEF LoginNext, Messages, Continues

\* What comes late is settled when the dialog is made.
LEMMA LatenessStays == [LoginNext]_loginVars => late' = late
BY DEF LoginNext, Messages, Continues, loginVars, window, socket, beats, http,
   SocketOpens, SocketFails, SocketCloses, ServerSends, HandleGatewayHello, HandleGatewayNonceProof,
   HandleGatewayPendingLogin, HandleGatewayCancel, DispatchClose, RunCallbacks, OnTimeout, OnResponse,
   UserResponds, StopReturns, RestartEnds, CloseEnds, OnTokenEnds, OnErrorShows, OnErrorEnds,
   RunReturns, DestroyEnds

\* A login to which nothing comes late has nothing ahead of it that would crash.
THEOREM LoginIsInTime == LoginSpec => []InTimeInv
<1>1. LoginInit => InTimeInv
    <2> SUFFICES ASSUME LoginInit PROVE OnTime
        BY DEF InTimeInv
    <2>1. /\ dialog = "open" /\ response = "none" /\ connected = TRUE /\ phase = "connecting"
          /\ timers = {} /\ inbox = <<>> /\ locked = FALSE /\ frames = <<>> /\ crashed = FALSE
        BY DEF LoginInit
    <2>2. /\ \A op : ~Has(inbox, op)
          /\ ~Stops(frames) /\ Under(frames) /\ ClosesLast(inbox) /\ \A fn : ~AtGo(fn)
        BY <2>1, NothingWaits, NothingStacked DEF AtGo
    <2> QED BY <2>1, <2>2 DEF OnTime
<1>2. LoginInv /\ InTimeInv /\ [LoginNext]_loginVars => InTimeInv'
    <2> SUFFICES ASSUME LoginInv, InTimeInv, [LoginNext]_loginVars, late = {} PROVE OnTime'
        BY LatenessStays DEF InTimeInv
    <2>1. CASE LoginNext
        BY <2>1, OnTimeStep DEF InTimeInv
    <2>2. CASE UNCHANGED loginVars
        <3>1. UNCHANGED <<dialog, response, connected, phase, timers, inbox, locked, frames, crashed>>
            BY <2>2 DEF loginVars, window, socket, beats, http
        <3> QED BY <3>1 DEF InTimeInv, OnTime, AtGo
    <2> QED BY <2>1, <2>2
<1> QED BY <1>1, <1>2, LoginHolds, PTL DEF LoginSpec

\* When nothing comes late the login never crashes: no heartbeat is made over another, no
\* callback reaches a client that is gone, and none waits for its own lock.
THEOREM LoginNeverCrashes == LoginSpec => []NoCrash
<1>1. InTimeInv => NoCrash
    BY DEF InTimeInv, OnTime, NoCrash
<1> QED BY <1>1, LoginIsInTime, PTL

----------------------------------------------------------------------------
(* The login: its connections *)

\* When nothing comes late, a step of the client is one of Connection.
LEMMA StepsLink ==
    ASSUME LoginInv, InTimeInv, LoginNext, late = {}
    PROVE  Link!Next \/ UNCHANGED Link!vars
<1> USE DEF window, socket, beats, http
<1>t. /\ LoginTypeOK /\ Shape /\ frames \in Seq(Handler) /\ sock \in Nat \ {0}
      /\ connected \in BOOLEAN /\ OnTime /\ phase \in {"connecting", "open", "closed"}
    BY DEF LoginInv, LoginTypeOK, InTimeInv
<1>v. Live /\ LiveInv /\ OneStep
    BY <1>t, InTimeLives DEF LiveInv
<1>0. ASSUME UNCHANGED <<sock, phase, heartbeat>> PROVE UNCHANGED Link!vars
    BY <1>0 DEF Link!vars
<1>1. ASSUME UNCHANGED <<sock, heartbeat>>, phase' = "closed" PROVE Link!Next \/ UNCHANGED Link!vars
    <2>1. CASE phase = "closed"
        BY <1>0, <1>1, <2>1
    <2>2. CASE phase # "closed"
        <3>1. Link!Ends
            BY <1>1, <1>t, <2>2 DEF Link!Ends
        <3> QED BY <3>1 DEF Link!Next
    <2> QED BY <2>1, <2>2
<1>2. ASSUME NEW fn, NEW behind, NEW queue, NEW armed, CallStop(fn, behind, queue, armed)
      PROVE  Link!Next \/ UNCHANGED Link!vars
    <2>1. /\ phase' = (IF connected THEN "closed" ELSE phase) /\ UNCHANGED <<sock, heartbeat>>
        BY <1>2 DEF CallStop
    <2>2. phase' = "closed"
        BY <1>t, <2>1 DEF Shape
    <2> QED BY <1>1, <2>1, <2>2
<1>3. CASE SocketOpens
    <2>1. Link!Opens
        BY <1>3 DEF SocketOpens, Link!Opens
    <2> QED BY <2>1 DEF Link!Next
<1>4. CASE SocketFails \/ SocketCloses \/ DispatchClose
    BY <1>1, <1>4 DEF SocketFails, SocketCloses, DispatchClose
<1>5. CASE HandleGatewayHello
    <2>1. Takes("hello") /\ heartbeat' = Head(inbox).conn /\ UNCHANGED <<sock, phase>>
        BY <1>5 DEF HandleGatewayHello
    <2>2. Head(inbox).conn = sock
        <3>1. "hello" \in Kept
            BY DEF Kept
        <3> QED BY <1>t, <1>v, <2>1, <3>1, TakenAlone
    <2>3. heartbeat = 0
        <3>1. Has(inbox, "hello")
            BY <1>t, <2>1, TakesFirst
        <3> QED BY <1>v, <3>1 DEF Live, Doomed
    <2>4. Link!Serve
        BY <1>t, <2>1, <2>2, <2>3 DEF Link!Serve
    <2> QED BY <2>4 DEF Link!Next
<1>6. CASE StopReturns
    <2>1. UNCHANGED <<sock, phase>> /\ heartbeat' \in {heartbeat, 0}
        BY <1>6 DEF StopReturns
    <2>2. CASE heartbeat' = heartbeat
        BY <1>0, <2>1, <2>2
    <2>3. CASE heartbeat' # heartbeat
        <3>1. Link!Release
            BY <2>1, <2>3 DEF Link!Release
        <3> QED BY <3>1 DEF Link!Next
    <2> QED BY <2>2, <2>3
<1>7. CASE RestartEnds
    <2>1. /\ frames # <<>> /\ Head(frames) = [fn |-> "Restart", pc |-> "go"] /\ ~connected
          /\ sock' = sock + 1 /\ phase' = "connecting" /\ heartbeat' = heartbeat
        BY <1>7 DEF RestartEnds, GoesOn, Top
    <2>2. ~Joining(frames)
        <3>1. Tail(frames) = <<>>
            BY <1>t, <2>1, OfTop DEF OnTime
        <3>2. ~Joins(Head(frames))
            BY <2>1 DEF Joins
        <3>3. Joining(frames) => Joining(Tail(frames))
            BY <1>t, <2>1, <3>2, OfTop
        <3> QED BY <3>1, <3>3 DEF Joining
    <2>3. heartbeat = 0
        BY <1>v, <2>1, <2>2 DEF LiveInv, HeartbeatFollows
    <2>4. Link!Begin
        BY <1>t, <2>1, <2>3 DEF Link!Begin, Link!Over, Shape
    <2> QED BY <2>4 DEF Link!Next
<1>8. CASE HandleGatewayCancel \/ OnTimeout \/ RunCallbacks \/ CloseEnds \/ RunReturns
    <2>1. \/ \E fn, behind, queue, armed : CallStop(fn, behind, queue, armed)
          \/ UNCHANGED <<sock, phase, heartbeat>>
        BY <1>8 DEF HandleGatewayCancel, OnTimeout, RunCallbacks, CloseEnds, RunReturns
    <2> QED BY <1>0, <1>2, <2>1
<1>9. CASE \/ ServerSends \/ HandleGatewayNonceProof \/ HandleGatewayPendingLogin \/ OnResponse
           \/ UserResponds \/ OnTokenEnds \/ OnErrorShows \/ OnErrorEnds \/ DestroyEnds
    BY <1>0, <1>9 DEF ServerSends, HandleGatewayNonceProof, HandleGatewayPendingLogin, OnResponse,
       UserResponds, OnTokenEnds, OnErrorShows, OnErrorEnds, DestroyEnds
<1> QED
    BY <1>3, <1>4, <1>5, <1>6, <1>7, <1>8, <1>9 DEF LoginNext, Messages, Continues

\* When nothing comes late, the client keeps to Connection: a connection begins when the
\* last is over and its heartbeat was joined, and no heartbeat is made over another.
THEOREM LoginKeepsConnection == LoginSpec => StepsAsConnection
<1>1. LoginInv /\ InTimeInv /\ [LoginNext]_loginVars => [late = {} => Link!Next]_(Link!vars)
    <2> SUFFICES ASSUME LoginInv, InTimeInv, [LoginNext]_loginVars, late = {}
                 PROVE  Link!Next \/ UNCHANGED Link!vars
        OBVIOUS
    <2>1. CASE LoginNext
        BY <2>1, StepsLink
    <2>2. CASE UNCHANGED loginVars
        BY <2>2 DEF loginVars, socket, beats, Link!vars
    <2> QED BY <2>1, <2>2
<1> QED BY <1>1, LoginHolds, LoginIsInTime, PTL DEF LoginSpec, StepsAsConnection
=============================================================================
