-------------------------------- MODULE Roles --------------------------------
(***************************************************************************)
(* Roles, who has them, and bans: the v3 mutations on roles                *)
(* (gql/mutations/roles.rs, `roles` of users.rs) and bans (bans.rs), and   *)
(* what the loader of full users makes of them for the session of a        *)
(* request (dataloader/full_user.rs, middleware/session.rs).               *)
(*                                                                         *)
(* A call is one request at a time.  Its session is loaded when it         *)
(* starts: `call[c]` holds the permissions and the rank of that moment,    *)
(* and every check of the request is made against them.                    *)
(***************************************************************************)
EXTENDS Permissions, Integers

CONSTANTS User, Role, Ban, Call, None,
          Everybody,     \* the global default entitlement group
          Asked,         \* the pairs of old bits that roles are made with
          Effects,       \* the effects that bans are made with
          MaxTime,       \* the longest ban that ends
          FirstRoles,    \* roles there are at the start: a function to their permissions
          FirstEdges     \* who has them

Forever == MaxTime + 1

VARIABLES
    roles,      \* the roles that exist, with
    rank,       \* their ranks, on which the collection has a unique index,
    perm,       \* and their permissions
    gone,       \* roles that were deleted
    edges,      \* entitlement edges from users, and from Everybody, to roles
    ban,        \* bans: their user, permissions, and the time they have left
    hasBans,    \* the users marked `has_bans`
    call,
    \* History: what a role was made with, and the edges made after their role was deleted.
    asked, late

rolesVars == <<roles, rank, perm, gone, edges, ban, hasBans, call, asked, late>>

\* At the start the ranks of the roles are 0, 1, ... in any order.
Init ==
    /\ roles = DOMAIN FirstRoles
    /\ rank \in {f \in [Role -> 0 .. Cardinality(roles)] :
                    /\ {f[r] : r \in roles} = 0 .. Cardinality(roles) - 1
                    /\ \A r \in Role \ roles : f[r] = 0}
    /\ perm = [r \in Role |-> IF r \in roles THEN FirstRoles[r] ELSE Nothing]
    /\ gone = {} /\ edges = FirstEdges
    /\ ban = [b \in Ban |-> None] /\ hasBans = {}
    /\ call = [c \in Call |-> None]
    /\ asked = [r \in Role |-> None] /\ late = {}

(***************************************************************************)
(* The loader of full users                                                *)
(***************************************************************************)

\* The roles a traversal of the edges finds, and of those the ones that can be loaded.
RolesOf(u) == {r \in roles : <<u, r>> \in edges \/ <<Everybody, r>> \in edges}

\* `compute_highest_role_rank`.
HighestRank(u) == Max({rank[r] : r \in RolesOf(u)} \cup {-1})

\* What is said at each rank from the lowest: a rank the user has no role of says nothing.
ByRank(u) ==
    LET of == RolesOf(u)
    IN  [i \in 1 .. HighestRank(u) + 1 |-> Together({perm[r] : r \in {r \in of : rank[r] = i-1}})]

\* Wrong variant: the highest rank is merged first.
ComputedDownwards(u) == MergeAll(Reverse(ByRank(u)))

\* `compute_permissions`: the roles are merged from the lowest rank to the highest.
Computed(u) == MergeAll(ByRank(u))

\* `ActiveBans::new` and `permissions`: those for ever first, then by how long they last.
\* Bans that end together come in any order, but no ban allows what another denies.
ActiveBans(u) ==
    {b \in Ban : u \in hasBans /\ ban[b] /= None /\ ban[b].user = u /\ ban[b].left > 0}
ByEnd(u) ==
    LET of == ActiveBans(u)
    IN  [i \in 1 .. Forever |-> Together({ban[b].perm : b \in {b \in of : ban[b].left = Forever + 1 - i}})]
BanOf(u) == MergeAll(ByEnd(u))

\* Wrong variant: the roles have the last word.
FullBansFirst(u) == Merge(BanOf(u), Computed(u))

\* `load_user_many`: what the roles give, then what the bans say.
Full(u) == Merge(Computed(u), BanOf(u))

(***************************************************************************)
(* Calls                                                                   *)
(***************************************************************************)

\* `parse_session`: the request is one of user u, with what u may do now.
Begin(c, u) ==
    /\ call[c] = None
    /\ call' = [call EXCEPT ![c] =
            [user |-> u, perm |-> Full(u), rank |-> HighestRank(u), at |-> "session"]]
    /\ UNCHANGED <<roles, rank, perm, gone, edges, ban, hasBans, asked, late>>

In(c, at) == call[c] /= None /\ call[c].at = at

\* The request has its answer, a refusal or an error, or the client is gone.
End(c) == call' = [call EXCEPT ![c] = None]

Drop(c) ==
    /\ call[c] /= None /\ End(c)
    /\ UNCHANGED <<roles, rank, perm, gone, edges, ban, hasBans, asked, late>>

FreeRank == Min((0 .. Cardinality(roles)) \ {rank[r] : r \in roles})

\* `create_role`: the lowest rank that no role has, by what the transaction reads.
CreateReads(c, pair) ==
    /\ In(c, "session")
    /\ Has(call[c].perm, <<"role", "Manage">>)
    /\ Superset(call[c].perm, ToNew(pair[1], pair[2]))
    /\ call' = [call EXCEPT ![c] =
            [at |-> "create", pair |-> pair, rank |-> FreeRank]]
    /\ UNCHANGED <<roles, rank, perm, gone, edges, ban, hasBans, asked, late>>

\* A transaction that conflicts with another is run again.
CreateReadsAgain(c) ==
    /\ In(c, "create")
    /\ call' = [call EXCEPT ![c].rank = FreeRank]
    /\ UNCHANGED <<roles, rank, perm, gone, edges, ban, hasBans, asked, late>>

\* Wrong variant: without the unique index.
CreateInsertsAnyway(c, r) ==
    /\ In(c, "create") /\ r \notin roles \cup gone
    /\ roles' = roles \cup {r}
    /\ rank' = [rank EXCEPT ![r] = call[c].rank]
    /\ perm' = [perm EXCEPT ![r] = ToNew(call[c].pair[1], call[c].pair[2])]
    /\ asked' = [asked EXCEPT ![r] = call[c].pair]
    /\ End(c)
    /\ UNCHANGED <<gone, edges, ban, hasBans, late>>

\* ... and the insertion, which the unique index refuses if another has taken the rank.
CreateInserts(c, r) ==
    /\ In(c, "create")
    /\ \A s \in roles : rank[s] /= call[c].rank
    /\ CreateInsertsAnyway(c, r)

\* `delete_role`, under the mutex of the role: the role, and the edges from it and to it.
DeleteRole(c, r) ==
    /\ In(c, "session")
    /\ Has(call[c].perm, <<"role", "Manage">>)
    /\ r \in roles /\ Superset(call[c].perm, perm[r])
    /\ roles' = roles \ {r} /\ gone' = gone \cup {r}
    /\ edges' = {e \in edges : e[2] /= r}
    /\ End(c)
    /\ UNCHANGED <<rank, perm, ban, hasBans, asked, late>>

\* `roles` of a user loads and checks the role before it takes the mutex of the user ...
RolesRead(c, u, r) ==
    /\ In(c, "session")
    /\ Has(call[c].perm, <<"role", "Assign">>)
    /\ r \in roles /\ Superset(call[c].perm, perm[r])
    /\ call' = [call EXCEPT ![c] = [at |-> "roles", edge |-> <<u, r>>]]
    /\ UNCHANGED <<roles, rank, perm, gone, edges, ban, hasBans, asked, late>>

\* ... and then makes the edge, if it is not there, or deletes it.
RolesAdd(c) ==
    /\ In(c, "roles")
    /\ edges' = edges \cup {call[c].edge}
    /\ late' = IF call[c].edge[2] \in roles THEN late ELSE late \cup {call[c].edge}
    /\ End(c)
    /\ UNCHANGED <<roles, rank, perm, gone, ban, hasBans, asked>>

RolesRemove(c) ==
    /\ In(c, "roles")
    /\ edges' = edges \ {call[c].edge}
    /\ End(c)
    /\ UNCHANGED <<roles, rank, perm, gone, ban, hasBans, asked, late>>

\* `create_ban` loads the user, who must not be the caller and must rank below him ...
BanReads(c, u) ==
    /\ In(c, "session")
    /\ Has(call[c].perm, <<"user", "Moderate">>)
    /\ call[c].user /= u
    /\ call[c].rank > HighestRank(u) \/ Has(call[c].perm, Super)
    /\ call' = [call EXCEPT ![c] = [at |-> "ban", user |-> u]]
    /\ UNCHANGED <<roles, rank, perm, gone, edges, ban, hasBans, asked, late>>

\* Wrong variant: the user is not marked.
BanWritesUnmarked(c, b, effects, time) ==
    /\ In(c, "ban") /\ ban[b] = None
    /\ ban' = [ban EXCEPT ![b] =
            [user |-> call[c].user, perm |-> BanPermissions(effects), left |-> time]]
    /\ End(c)
    /\ UNCHANGED <<roles, rank, perm, gone, edges, hasBans, asked, late>>

\* ... and marks the user and inserts the ban, under the mutex of the user.
BanWrites(c, b, effects, time) ==
    /\ In(c, "ban") /\ ban[b] = None
    /\ ban' = [ban EXCEPT ![b] =
            [user |-> call[c].user, perm |-> BanPermissions(effects), left |-> time]]
    /\ hasBans' = hasBans \cup {call[c].user}
    /\ End(c)
    /\ UNCHANGED <<roles, rank, perm, gone, edges, asked, late>>

\* `edit_ban`, under the mutex of the ban: new effects, a new end, or both.
EditBan(c, b, effects, time) ==
    /\ In(c, "session")
    /\ Has(call[c].perm, <<"user", "Moderate">>)
    /\ ban[b] /= None
    /\ ban' = [ban EXCEPT ![b].perm = IF effects = None THEN @ ELSE BanPermissions(effects),
                          ![b].left = IF time = None THEN @ ELSE time]
    /\ End(c)
    /\ UNCHANGED <<roles, rank, perm, gone, edges, hasBans, asked, late>>

\* Time passes.
Tick ==
    /\ \E b \in Ban : ban[b] /= None /\ ban[b].left \in 1 .. MaxTime
    /\ ban' = [b \in Ban |-> IF ban[b] /= None /\ ban[b].left \in 1 .. MaxTime
                             THEN [ban[b] EXCEPT !.left = @ - 1] ELSE ban[b]]
    /\ UNCHANGED <<roles, rank, perm, gone, edges, hasBans, call, asked, late>>

Next ==
    \/ \E c \in Call :
        \/ Drop(c) \/ CreateReadsAgain(c) \/ RolesAdd(c) \/ RolesRemove(c)
        \/ \E u \in User : Begin(c, u) \/ BanReads(c, u) \/ \E r \in Role : RolesRead(c, u, r)
        \/ \E pair \in Asked : CreateReads(c, pair)
        \/ \E r \in Role : CreateInserts(c, r) \/ DeleteRole(c, r)
        \/ \E b \in Ban, effects \in Effects, time \in 1 .. Forever :
                BanWrites(c, b, effects, time)
        \/ \E b \in Ban, effects \in Effects \cup {None}, time \in (0 .. MaxTime) \cup {None} :
                EditBan(c, b, effects, time)
    \/ Tick

Spec == Init /\ [][Next]_rolesVars

(***************************************************************************)
(* Properties                                                              *)
(***************************************************************************)

TypeOK ==
    /\ roles \subseteq Role /\ gone \subseteq Role \ roles
    /\ rank \in [Role -> Nat]
    /\ UNION {perm[r].allow \cup perm[r].deny : r \in Role} \subseteq Bits
    /\ edges \subseteq (User \cup {Everybody}) \X Role
    /\ \A b \in Ban : ban[b] = None \/ (ban[b].user \in User /\ ban[b].left \in 0 .. Forever)
    /\ hasBans \subseteq User

\* What a user may do does not depend on the order in which roles were made or found: of the
\* roles that say something of a bit the one of the highest rank decides (compute_permissions).
HighestRoleDecides ==
    /\ \A r, s \in roles : rank[r] = rank[s] => r = s
    /\ \A u \in User :
        LET of == RolesOf(u)
            has == Effective(Computed(u))
        IN  \A bit \in UNION {perm[r].allow \cup perm[r].deny : r \in of} :
                LET speaking == {r \in of : bit \in perm[r].allow \cup perm[r].deny}
                    highest == CHOOSE r \in speaking : \A s \in speaking : rank[s] <= rank[r]
                IN  bit \in has <=> bit \in Effective(perm[highest])

\* While a ban is active its user does not have what it denies, whatever the roles say, unless
\* by a bit that stands for more, and is hidden if it says so; without one the roles alone
\* decide (bans.rs and ActiveBans).
BansBite ==
    \A u \in User :
        LET active == {b \in Ban : ban[b] /= None /\ ban[b].user = u /\ ban[b].left > 0}
            full == Full(u)
            has == Effective(full)
        IN  /\ \A b \in active :
                /\ ban[b].perm.allow \subseteq has
                /\ \A bit \in ban[b].perm.deny :
                    Has(full, bit) => IsAdmin(full) \/ <<bit[1], "Admin">> \in has
            /\ active = {} => full = Computed(u)

\* An edge that user.roles made leads to a role that exists, unless the call had loaded the
\* role before it was deleted.  (Of the v4 mutation entitlement_edge, which inserts whatever
\* edge it is given, this says nothing.)
EdgesLeadToRoles == \A e \in edges : e[2] \in roles \/ e \in late

\* The old bits of a role that was made with some: creating and editing sets are one bit, and
\* an administrator has every bit.
ShownFor(pair) ==
    LET sets == {"CreateEmoteSet", "EditEmoteSet"}
        with(old) == old \cup IF old \cap sets /= {} THEN sets ELSE {}
        allowed == with(pair[1] \cap OldBits)
        denied == with(pair[2] \cap OldBits)
    IN  IF "SuperAdministrator" \in allowed \ denied
        THEN [allowed |-> OldBits, denied |-> {}]
        ELSE [allowed |-> allowed \ denied, denied |-> denied]

\* The v3 API shows of a role what it was made with (role_permission.rs, both ways).
ShownAsAsked == \A r \in roles : asked[r] /= None => FromDb(perm[r]) = ShownFor(asked[r])
=============================================================================
