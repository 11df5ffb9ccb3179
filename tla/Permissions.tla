---------------------------- MODULE Permissions ----------------------------
(***************************************************************************)
(* What the account may do in the channels of one guild: the tables of     *)
(* store.cpp that the answer is computed from, the gateway's events that   *)
(* change them (discord.cpp), and HasChannelPermission, against what the   *)
(* server grants.                                                          *)
(*                                                                         *)
(* Events reach the client in the order of the changes and are handled     *)
(* before anything is asked, so that a change and its event are one step.  *)
(* What keeps the tables behind is what is never told: changes made while  *)
(* there is no session or the guild is not there, and rows that an event   *)
(* leaves in a table.                                                      *)
(***************************************************************************)
EXTENDS Naturals

CONSTANTS
    Roles,       \* roles other than everyone's
    Everyone,    \* the role of the guild's own id
    Me,          \* the account, as the id of an overwrite
    Channels,    \* channels of the guild
    MaxChanges   \* changes that the server makes (bound)

ASSUME PermissionsAssumption ==
    Everyone \notin Roles /\ Me \notin Roles \cup {Everyone} /\ MaxChanges \in Nat

VARIABLES
    \* the server
    owner,       \* does the account own the guild?
    roles,       \* role to permissions
    mine,        \* roles of the account, everyone's apart
    channels,    \* channel to its overwrites, by id
    joined,      \* is the account in the guild, and the guild available?
    up,          \* is there a session?
    retired,     \* roles and channels that were deleted
    changes,
    \* the client
    guild,           \* the row of table guilds: "none", or whose the guild is
    roleTable,       \* table roles
    member,          \* is there a row of the account in table members?
    memberRoles,     \* table member_roles
    channelTable,    \* table channels
    permissions,     \* table permissions, by channel and id
    \* of the behaviour
    heard            \* what the client has heard since the account joined: "nothing",
                     \* the "guild", or "all" of it with the account's roles

truth    == <<owner, roles, mine, channels, retired>>
presence == <<joined, up>>
members  == <<member, memberRoles>>
tables   == <<guild, roleTable, members, channelTable, permissions>>
client   == <<tables, heard>>
vars     == <<truth, presence, changes, client>>

Perms == {"view", "admin"}
Ids   == Roles \cup {Everyone, Me}

\* A role's permissions, and what an overwrite says.
Grants     == {{}, {"view"}, {"admin"}}
Overwrites == [allow : {{"view"}}, deny : {{}}] \cup [allow : {{}}, deny : {{"view"}}]

NoRows == [x \in {} |-> {}]

\* f with the rows of g inserted, or replaced.
Replace(f, g) == [x \in DOMAIN f \cup DOMAIN g |-> IF x \in DOMAIN g THEN g[x] ELSE f[x]]
Delete(f, S)  == [x \in DOMAIN f \ S |-> f[x]]

----------------------------------------------------------------------------
(* The answer *)

\* GetMemberRoles: the roles of the account that have a row of their own.
GetMemberRoles == memberRoles \cap DOMAIN roleTable

ComputePermissions ==
    LET base == roleTable[Everyone] \cup UNION {roleTable[r] : r \in GetMemberRoles}
    IN  IF guild = "own" THEN Perms
        ELSE IF Everyone \notin DOMAIN roleTable THEN {}
        ELSE IF "admin" \in base THEN Perms ELSE base

\* One or several overwrites at once: what they deny goes before what they allow.
Overwritten(perms, c, ids) ==
    LET rows == {permissions[<<c, i>>] : i \in {i \in ids : <<c, i>> \in DOMAIN permissions}}
    IN  (perms \ UNION {row.deny : row \in rows}) \cup UNION {row.allow : row \in rows}

\* Everyone's overwrite, then those of the account's roles, then its own.
ComputeOverwrites(base, c) ==
    IF "admin" \in base THEN Perms
    ELSE Overwritten(Overwritten(Overwritten(base, c, {Everyone}), c, GetMemberRoles), c, {Me})

HasChannelPermission(c, p) ==
    c \in channelTable /\ p \in ComputeOverwrites(ComputePermissions, c)

----------------------------------------------------------------------------
(* The store *)

\* Bug: roles that were taken stay.
BugSetMemberRoles(s) == member' = TRUE /\ memberRoles' = memberRoles \cup s

\* The member's roles that have a row are cleared, those told are inserted.
SetMemberRoles(s) ==
    /\ member' = TRUE
    /\ memberRoles' = (memberRoles \ DOMAIN roleTable') \cup s

SetGuildMember(s) ==
    /\ SetMemberRoles(s)
    /\ heard' = IF heard = "guild" THEN "all" ELSE heard

SetPermissionOverwrites(c, overwrites) ==
    permissions' = Replace(permissions, [x \in {c} \X DOMAIN overwrites |-> overwrites[x[2]]])

\* ProcessNewGuild: every row that is told is inserted or replaced, none is deleted.
ProcessNewGuild ==
    /\ guild' = IF owner THEN "own" ELSE "other"
    /\ roleTable' = Replace(roleTable, roles)
    /\ channelTable' = channelTable \cup DOMAIN channels
    /\ permissions' = Replace(permissions,
           [x \in {y \in Channels \X Ids : y[1] \in DOMAIN channels /\ y[2] \in DOMAIN channels[y[1]]}
              |-> channels[x[1]][x[2]]])

----------------------------------------------------------------------------
(* The handlers *)

HandleGatewayGuildRoleCreate(r, p) ==
    /\ roleTable' = Replace(roleTable, [x \in {r} |-> p])
    /\ UNCHANGED <<guild, members, channelTable, permissions, heard>>

HandleGatewayGuildRoleUpdate(r, p) ==
    /\ roleTable' = Replace(roleTable, [x \in {r} |-> p])
    /\ UNCHANGED <<guild, members, channelTable, permissions, heard>>

\* ClearRole, and the trigger remove_deleted_roles.
HandleGatewayGuildRoleDelete(r) ==
    /\ roleTable' = Delete(roleTable, {r})
    /\ memberRoles' = memberRoles \ {r}
    /\ UNCHANGED <<guild, member, channelTable, permissions, heard>>

\* A member that is not stored is passed over.
HandleGatewayGuildMemberUpdate(s) ==
    /\ UNCHANGED <<guild, roleTable, channelTable, permissions>>
    /\ IF member THEN SetGuildMember(s) ELSE UNCHANGED <<members, heard>>

\* A message or a voice state of the account's own, or a list of members, brings the
\* member too, stored or not (and changes something when none was told before).
MemberComes(s) ==
    /\ UNCHANGED <<guild, roleTable, channelTable, permissions>>
    /\ SetGuildMember(s)

HandleGatewayChannelCreate(c, overwrites) ==
    /\ channelTable' = channelTable \cup {c}
    /\ SetPermissionOverwrites(c, overwrites)
    /\ UNCHANGED <<guild, roleTable, members, heard>>

\* The overwrites told are inserted or replaced; one that is gone stays.
HandleGatewayChannelUpdate(c, overwrites) ==
    /\ IF c \in channelTable THEN SetPermissionOverwrites(c, overwrites) ELSE UNCHANGED permissions
    /\ UNCHANGED <<guild, roleTable, members, channelTable, heard>>

HandleGatewayChannelDelete(c) ==
    /\ channelTable' = channelTable \ {c}
    /\ UNCHANGED <<guild, roleTable, members, permissions, heard>>

HandleGatewayGuildUpdate(own) ==
    /\ guild' = IF guild = "none" THEN "none" ELSE IF own THEN "own" ELSE "other"
    /\ UNCHANGED <<roleTable, members, channelTable, permissions, heard>>

\* The guild's row and its channels go, the other tables stay.
HandleGatewayGuildDelete ==
    /\ guild' = "none"
    /\ channelTable' = IF guild = "none" THEN channelTable ELSE {}
    /\ UNCHANGED <<roleTable, members, permissions, heard>>

\* A guild that is stored is passed over.
HandleGatewayGuildCreate ==
    /\ IF guild # "none" THEN UNCHANGED tables ELSE ProcessNewGuild /\ UNCHANGED members
    /\ heard' = IF guild = "none" THEN "guild" ELSE "nothing"

\* READY brings the guild and the account's member.
HandleGatewayReady ==
    IF joined THEN ProcessNewGuild /\ SetMemberRoles(mine) /\ heard' = "all"
              ELSE UNCHANGED client

\* Store::ClearAll, of DiscordClient::Stop.
ClearAll ==
    /\ guild' = "none" /\ roleTable' = NoRows /\ member' = FALSE /\ memberRoles' = {}
    /\ channelTable' = {} /\ permissions' = NoRows
    /\ UNCHANGED heard

----------------------------------------------------------------------------
(* The server *)

\* A change is told when there is a session and the guild is in it.
Changes(handler) ==
    /\ changes < MaxChanges /\ changes' = changes + 1
    /\ UNCHANGED presence
    /\ IF joined /\ up THEN handler ELSE UNCHANGED client

CreatesRole(r) ==
    /\ r \notin DOMAIN roles \cup retired
    /\ \E p \in Grants : /\ roles' = Replace(roles, [x \in {r} |-> p])
                         /\ Changes(HandleGatewayGuildRoleCreate(r, p))
    /\ UNCHANGED <<owner, mine, channels, retired>>

UpdatesRole(r) ==
    /\ r \in DOMAIN roles
    /\ \E p \in Grants \ {roles[r]} : /\ roles' = [roles EXCEPT ![r] = p]
                                      /\ Changes(HandleGatewayGuildRoleUpdate(r, p))
    /\ UNCHANGED <<owner, mine, channels, retired>>

\* The role goes from the account and from every channel's overwrites with it.
DeletesRole(r) ==
    /\ r \in DOMAIN roles \ {Everyone}
    /\ roles' = Delete(roles, {r}) /\ mine' = mine \ {r}
    /\ channels' = [c \in DOMAIN channels |-> Delete(channels[c], {r})]
    /\ retired' = retired \cup {r}
    /\ Changes(HandleGatewayGuildRoleDelete(r))
    /\ UNCHANGED owner

GivesRoles ==
    /\ \E s \in SUBSET (DOMAIN roles \ {Everyone}) :
          s # mine /\ mine' = s /\ Changes(HandleGatewayGuildMemberUpdate(s))
    /\ UNCHANGED <<owner, roles, channels, retired>>

TellsMember ==
    /\ joined /\ up /\ heard = "guild"
    /\ MemberComes(mine)
    /\ UNCHANGED <<truth, presence, changes>>

CreatesChannel(c) ==
    /\ c \notin DOMAIN channels \cup retired
    /\ \E i \in {Everyone, Me}, w \in Overwrites :
          /\ channels' = Replace(channels, [x \in {c} |-> [y \in {i} |-> w]])
          /\ Changes(HandleGatewayChannelCreate(c, channels'[c]))
    /\ UNCHANGED <<owner, roles, mine, retired>>

\* An overwrite is set or removed.
UpdatesChannel(c) ==
    /\ c \in DOMAIN channels
    /\ \E i \in DOMAIN roles \cup {Me} :
          /\ \/ \E w \in Overwrites :
                   channels' = [channels EXCEPT ![c] = Replace(@, [x \in {i} |-> w])]
             \/ channels' = [channels EXCEPT ![c] = Delete(@, {i})]
          /\ channels' # channels
          /\ Changes(HandleGatewayChannelUpdate(c, channels'[c]))
    /\ UNCHANGED <<owner, roles, mine, retired>>

DeletesChannel(c) ==
    /\ c \in DOMAIN channels
    /\ channels' = Delete(channels, {c}) /\ retired' = retired \cup {c}
    /\ Changes(HandleGatewayChannelDelete(c))
    /\ UNCHANGED <<owner, roles, mine>>

ChangesOwner ==
    /\ owner' = ~owner
    /\ Changes(HandleGatewayGuildUpdate(~owner))
    /\ UNCHANGED <<roles, mine, channels, retired>>

\* The account leaves, or the guild becomes unavailable; who leaves loses the roles.
Goes ==
    /\ joined /\ changes < MaxChanges /\ changes' = changes + 1
    /\ joined' = FALSE /\ mine' \in {mine, {}} /\ UNCHANGED <<owner, roles, channels, retired, up>>
    /\ IF up THEN HandleGatewayGuildDelete ELSE UNCHANGED client

ComesBack ==
    /\ ~joined /\ joined' = TRUE
    /\ IF up THEN HandleGatewayGuildCreate ELSE UNCHANGED client
    /\ UNCHANGED <<truth, up, changes>>

\* The session is lost for good, or the user disconnects, which clears the store.
SessionEnds ==
    /\ up /\ changes < MaxChanges /\ changes' = changes + 1
    /\ up' = FALSE
    /\ ClearAll \/ UNCHANGED client
    /\ UNCHANGED <<truth, joined>>

SessionBegins ==
    /\ ~up /\ up' = TRUE
    /\ HandleGatewayReady
    /\ UNCHANGED <<truth, joined, changes>>

----------------------------------------------------------------------------
\* A guild with one channel and perhaps one role more, as READY has brought it.
Init ==
    /\ owner = FALSE /\ joined = TRUE /\ up = TRUE /\ retired = {} /\ changes = 0
    /\ \E r \in Roles, c \in Channels :
          /\ roles \in [{Everyone, r} -> Grants]
          /\ mine \in SUBSET {r}
          /\ \E D \in SUBSET {Everyone, r, Me} : channels \in [{c} -> [D -> Overwrites]]
    /\ guild = "other" /\ roleTable = roles
    /\ member = TRUE /\ memberRoles = mine
    /\ channelTable = DOMAIN channels
    /\ permissions = [x \in UNION {{c} \X DOMAIN channels[c] : c \in DOMAIN channels}
                        |-> channels[x[1]][x[2]]]
    /\ heard = "all"

Server == \/ \E r \in Roles \cup {Everyone} : CreatesRole(r) \/ UpdatesRole(r) \/ DeletesRole(r)
          \/ \E c \in Channels : CreatesChannel(c) \/ UpdatesChannel(c) \/ DeletesChannel(c)
          \/ GivesRoles \/ TellsMember \/ ChangesOwner

Next == Server \/ Goes \/ ComesBack \/ SessionEnds \/ SessionBegins

Spec == Init /\ [][Next]_vars

----------------------------------------------------------------------------
(* Properties *)

\* The permission is decided by the first of these that says something of it: the
\* account's own overwrite, those of its roles, that of everyone, and at last the
\* roles' permissions.  To allow goes before to deny.
Granted(c, p) ==
    LET Says(layer, what) == \E i \in layer \cap DOMAIN channels[c] : p \in channels[c][i][what]
        base == UNION {roles[r] : r \in mine \cup {Everyone}}
        decides == <<{Me}, mine, {Everyone}>>
        Silent(n) == \A k \in 1..n : ~Says(decides[k], "allow") /\ ~Says(decides[k], "deny")
    IN  \/ owner
        \/ "admin" \in base
        \/ \E n \in 1..3 : Silent(n - 1) /\ Says(decides[n], "allow")
        \/ Silent(3) /\ p \in base

\* Where no overwrite is stored that the server has removed, the client computes what
\* the server grants, whatever was changed in whatever order and missed in which
\* session, once it has heard of the guild and of its roles.
ComputesWhatIsGranted ==
    joined /\ up /\ heard = "all" =>
        \A c \in DOMAIN channels :
            (\A i \in GetMemberRoles \cup {Everyone, Me} :
                <<c, i>> \in DOMAIN permissions => i \in DOMAIN channels[c])
            => \A p \in Perms : HasChannelPermission(c, p) <=> Granted(c, p)

\* Of a guild that is gone nothing may be seen, though its roles, members and
\* overwrites stay in the store.
GoneIsUnseen == guild = "none" => \A c \in Channels, p \in Perms : ~HasChannelPermission(c, p)
=============================================================================
