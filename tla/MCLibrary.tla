----------------------------- MODULE MCLibrary -----------------------------
(***************************************************************************)
(* A TLC instance of four parts that have no variable in common:           *)
(* accounts, an emote set, roles with bans, and the editors of a user.     *)
(* `part` says whose behaviour it is, as in MCUploads.                     *)
(***************************************************************************)
EXTENDS Accounts, TLC

CONSTANTS Call, Emote, Alias, Name, MaxCap,
          u1, u2, c1, c2, b1, root, staff, helper, other, Everybody, MaxTime,
          Editor, Instant, Owner, Admin, Change, Granted,
          Person, Role, Ban, Request, Effects

VARIABLES part,
          exists, entries, cap, name, copy, adding, deleted, merged, heard, misled, grown,
          roles, rank, perm, gone, edges, ban, hasBans, request, asked, late,
          entry, change, logged, nth, consent, crossed, unlogged, inherited

set == <<exists, entries, cap, name, copy, adding, deleted, merged, heard, misled, grown>>
rights == <<roles, rank, perm, gone, edges, ban, hasBans, request, asked, late>>
editing == <<entry, change, logged, nth, consent, crossed, unlogged, inherited>>

\* The first user is above everybody, and everybody else moderates.
FirstRoles ==
    [r \in {root, staff} |->
        IF r = root THEN [allow |-> {<<"admin", "SuperAdmin">>}, deny |-> {}]
        ELSE [allow |-> {<<"user", "Moderate">>, <<"user", "Login">>, <<"role", "Manage">>,
                         <<"role", "Assign">>, <<"emote", "Upload">>},
              deny |-> {<<"emote", "Edit">>}]]
FirstEdges == {<<u1, root>>, <<Everybody, staff>>}

\* One pair allows and denies the same new bit; with the other a role denies what the
\* first roles allow or leave open.
Asked == {<<{"CreateEmoteSet", "EditEmote", "ManageReports"}, {"EditEmoteSet", "ManageReports"}>>,
          <<{"SuperAdministrator"}, {"EditEmote"}>>}

S == INSTANCE EmoteSets
R == INSTANCE Roles WITH User <- Person, Call <- Request, call <- request
D == INSTANCE Editors WITH Call <- Change, call <- change, Asked <- Granted

ASSUME CapAssumption == MaxCap \in Nat

\* What is no document is not one of an editor, and none of its states.
ASSUME EditorsAssumption ==
    LET states == {"Pending", "Accepted", "Rejected"}
    IN  None \notin states \cup [state : states, perms : Granted]

\* Whoever has a role at the start, and that role, exist; bans that end do so some time.
ASSUME RolesAssumption ==
    IsFiniteSet(Role) /\ {root, staff} \subseteq Role /\ u1 \in Person /\ MaxTime \in Nat

MCInit ==
    /\ part \in {"accounts", "set", "roles", "editors"}
    /\ Init /\ S!Init /\ R!Init /\ D!Init
    /\ cap < MaxCap => part = "set"
    /\ rank[root] < rank[staff] => part = "roles"

AccountsNext == part = "accounts" /\ Next /\ UNCHANGED <<part, set, rights, editing>>
SetNext == part = "set" /\ S!Next /\ UNCHANGED <<part, vars, rights, editing>>
RolesNext == part = "roles" /\ R!Next /\ UNCHANGED <<part, vars, set, editing>>
EditorsNext == part = "editors" /\ D!Next /\ UNCHANGED <<part, vars, set, rights>>

MCSpec ==
    MCInit
    /\ [][AccountsNext \/ SetNext \/ RolesNext \/ EditorsNext]_<<part, vars, set, rights, editing>>

Symmetry == Permutations(Emote) \cup Permutations(Alias)

\* A set in which a mutation misled by its old copy has removed or renamed the
\* wrong entry is excused by every property and not looked at any further; nor is one
\* with three entries, or with a new name or flags beside other entries, which nothing
\* depends on.
Unmisled ==
    /\ ~misled /\ Len(entries) < 3
    /\ name = CHOOSE n \in Name : TRUE
    /\ \A i \in DOMAIN entries : entries[i].wide => Len(entries) = 1
    /\ adding # None => ~adding.wide

\* Three edges, one deleted role, and a ban or a third role; each caller is one of the users.
\* A fourth role is made only if nothing else has happened.
FewRights ==
    /\ Cardinality(edges) <= 3 /\ Cardinality(gone) <= 1
    /\ other \in roles => helper \in roles /\ edges = FirstEdges
    /\ ban[b1] = None \/ helper \notin roles \cup gone
    /\ \A c \in {c1, c2} : R!In(c, "session") => request[c].user = IF c = c1 THEN u1 ELSE u2

\* Each editor is invited twice; beside a merge there is one call and two invitations.
FewInvitations ==
    /\ \A e \in Editor : nth[e] <= 2
    /\ unlogged # {} =>
        /\ \A e \in Editor : \A f \in Editor \ {e} : nth[e] + nth[f] <= 2
        /\ Cardinality({c \in Change : change[c] # None}) <= 1

\* An account has one user, a user has an account, and a user that was merged nothing.
AccountsHold == OneOwner /\ NobodyLockedOut /\ MergesAreFinal

\* The set is what its listeners were told, and within its rules.
SetHolds == S!ListenersFollow /\ S!NamesUnique /\ S!WithinCapacity

\* A role means what it was made with, of those a user has the highest decides, and
\* nobody has one that does not exist.
RolesHold == part = "roles" => R!TypeOK /\ R!HighestRoleDecides /\ R!EdgesLeadToRoles /\ R!ShownAsAsked

\* What an active ban denies its user does not have.
BansBite == part = "roles" => R!BansBite

\* Editors consented, their answers stand, and the stored events say who they are.
EditorsHold == D!EditorsHold
=============================================================================
