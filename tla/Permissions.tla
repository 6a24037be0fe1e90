----------------------------- MODULE Permissions -----------------------------
(***************************************************************************)
(* The permissions of users, roles and bans: ten groups of bits, each bit  *)
(* allowed, denied or left open (shared/database/types/role), and the one  *)
(* word of bits that the v3 API shows instead (shared/old_types).          *)
(*                                                                         *)
(* A bit is a pair of its group and its name, so that one pair of sets     *)
(* stands for the ten pairs of masks.  Limits and rate limits, which       *)
(* are merged by the same rule, are left out.                              *)
(***************************************************************************)
EXTENDS Integers, SequencesExt, FiniteSetsExt

\* The bits of the groups that are assigned to moderators and administrators.
StaffBits ==
    [role |-> {"Admin", "Manage", "Assign"},
     badge |-> {"Admin", "Manage", "Assign"},
     paint |-> {"Admin", "Manage", "Assign"},
     ticket |-> {"Admin", "Create", "ManageAbuse", "ManageBilling", "ManageGeneric", "Message"},
     emote_moderation_request |-> {"Admin", "Manage"},
     admin |-> {"Admin", "SuperAdmin", "BypassRateLimit", "ManageRedeemCodes", "ManageEntitlements"}]

\* The bits of the groups that every user has something of, and that a ban takes away.
UserBits ==
    [emote |-> {"Admin", "Upload", "Delete", "Edit", "ManageAny", "Merge", "ViewUnlisted"},
     emote_set |-> {"Admin", "Manage", "ManageAny", "Resize", "ManageGlobal", "ManageSpecial",
                    "Assign"},
     user |-> {"Admin", "Login", "InviteEditors", "UseCustomProfilePicture", "UsePersonalEmoteSet",
               "UseBadge", "UsePaint", "ManageAny", "Billing", "ManageBilling", "Moderate",
               "ViewHidden", "ManageSessions"},
     flags |-> {"Hidden", "InstantInvite"}]

Groups == DOMAIN StaffBits \cup DOMAIN UserBits
AllFlags(g) == {g} \X (IF g \in DOMAIN UserBits THEN UserBits[g] ELSE StaffBits[g])
Bits == UNION {AllFlags(g) : g \in Groups}

Super == <<"admin", "SuperAdmin">>
Login == <<"user", "Login">>
Hidden == <<"flags", "Hidden">>

\* `Permissions::default()`.
Nothing == [allow |-> {}, deny |-> {}]

\* `AllowDeny::merge`, group by group: what the second says of a bit wins.
Merge(p, q) ==
    [allow |-> (p.allow \cup q.allow) \ q.deny,
     deny |-> (p.deny \ q.allow) \cup q.deny]

\* `from_iter`: one after the other.
MergeAll(perms) ==
    LET upTo[i \in 0 .. Len(perms)] ==
            IF i = 0 THEN Nothing ELSE Merge(upTo[i-1], perms[i])
    IN  upTo[Len(perms)]

\* What is said at once, by one or by several that do not contradict one another.
Together(S) == [allow |-> UNION {p.allow : p \in S}, deny |-> UNION {p.deny : p \in S}]

Effective(p) == p.allow \ p.deny
IsSuper(p) == Super \in Effective(p)
IsAdmin(p) == Effective(p) \cap {<<"admin", "Admin">>, Super} /= {}

\* `has_*` of a mask of bits of group g.  An administrator has everything but the flags and
\* the bit above him; the "Admin" bit of a group stands for the group.  (TRUE in a set of truth
\* values is a disjunction that TLC takes as one guard.)
HasMask(p, g, mask) ==
    CASE g = "flags" -> mask \subseteq Effective(p)
      [] g = "admin" /\ mask = {Super} -> IsSuper(p)
      [] g = "admin" /\ mask /= {Super} -> TRUE \in {IsAdmin(p), mask \subseteq Effective(p)}
      [] OTHER -> TRUE \in {IsAdmin(p), mask \subseteq Effective(p), <<g, "Admin">> \in Effective(p)}

Has(p, bit) == HasMask(p, bit[1], {bit})

\* `denied_*`: denied, and not overridden by a bit that stands for it.
Denied(p, bit) ==
    /\ bit \in p.deny
    /\ CASE bit[1] = "flags" -> TRUE
         [] bit[1] = "admin" -> ~IsSuper(p)
         [] OTHER -> ~IsAdmin(p) /\ <<bit[1], "Admin">> \notin Effective(p)

\* `is_superset_of` compares what is allowed, group by group, without the flags.
Superset(p, q) ==
    TRUE \in {IsSuper(p), \A g \in {bit[1] : bit \in q.allow} \ {"flags"} : HasMask(p, g, {bit \in q.allow : bit[1] = g})}

(***************************************************************************)
(* The v3 API                                                              *)
(***************************************************************************)

\* `to_*_permission`: what each old bit turns into; a bit that is not here turns into nothing.
NewBits(b) ==
    CASE b = "CreateEmote" -> {<<"emote", "Upload">>}
      [] b = "EditEmote" -> {<<"emote", "Edit">>, <<"emote", "Delete">>}
      [] b = "EditAnyEmote" -> {<<"emote", "ManageAny">>, <<"emote_moderation_request", "Manage">>}
      [] b = "ManageRoles" -> {<<"role", "Manage">>}
      [] b \in {"CreateEmoteSet", "EditEmoteSet"} -> {<<"emote_set", "Manage">>}
      [] b = "EditAnyEmoteSet" -> {<<"emote_set", "ManageAny">>}
      [] b = "ManageCosmetics" -> {<<"badge", "Manage">>, <<"paint", "Manage">>}
      [] b = "ManageBans" -> {<<"user", "Moderate">>}
      [] b = "ManageUsers" -> {<<"user", "ManageAny">>}
      [] b = "FeatureProfilePictureAnimation" -> {<<"user", "UseCustomProfilePicture">>}
      [] b = "CreateReport" -> {<<"ticket", "Create">>}
      [] b = "ManageReports" -> {<<"ticket", "ManageAbuse">>, <<"ticket", "ManageGeneric">>}
      [] b = "SuperAdministrator" -> {Super}

OldBits ==
    {"CreateEmote", "EditEmote", "EditAnyEmote", "ManageRoles", "CreateEmoteSet", "EditEmoteSet",
     "EditAnyEmoteSet", "ManageCosmetics", "ManageBans", "ManageUsers",
     "FeatureProfilePictureAnimation", "CreateReport", "ManageReports", "SuperAdministrator"}

\* Wrong variant: the allowances are applied after the denials.
ToNewReversed(allowed, denied) ==
    LET of(old) == UNION {NewBits(b) : b \in old \cap OldBits}
    IN  [allow |-> of(allowed), deny |-> of(denied) \ of(allowed)]

\* `to_new_permissions`: the denials of a group are applied after its allowances.
ToNew(allowed, denied) ==
    LET of(old) == UNION {NewBits(b) : b \in old \cap OldBits}
    IN  [allow |-> of(allowed) \ of(denied), deny |-> of(denied)]

\* The new bits that decide about an old one when a role is shown.
Shown(b) == CASE b = "EditEmote" -> {<<"emote", "Edit">>}
              [] b = "EditAnyEmote" -> {<<"emote", "ManageAny">>}
              [] OTHER -> NewBits(b)

\* `from_db`: what the v3 API shows as allowed and denied.
FromDb(p) ==
    [allowed |-> {b \in OldBits :
        IF b = "ManageCosmetics" THEN \E x \in Shown(b) : Has(p, x) ELSE \A x \in Shown(b) : Has(p, x)},
     denied |-> {b \in OldBits : \E x \in Shown(b) : Denied(p, x)}]

(***************************************************************************)
(* Bans                                                                    *)
(***************************************************************************)

\* `ban_effect_to_permissions`.
BanPermissions(effects) ==
    [allow |-> IF "MemoryHole" \in effects THEN {Hidden} ELSE {},
     deny |-> (IF effects \cap {"NoAuth", "BlockedIp"} /= {} THEN {Login} ELSE {})
              \cup (IF "NoPermissions" \in effects
                    THEN AllFlags("emote") \cup AllFlags("emote_set") \cup (AllFlags("user") \ {Login})
                    ELSE {})]
=============================================================================
