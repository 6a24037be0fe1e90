------------------------------- MODULE Editors -------------------------------
(***************************************************************************)
(* The editors of one user: invitations, answers, permissions and          *)
(* removal by the v4 mutations (gql/mutations/user_editor) and by the one  *)
(* v3 mutation `editors`, and what `merge` does to them when the user, or  *)
(* an editor, is one of the two it merges (v3/gql/mutations/users.rs).     *)
(*                                                                         *)
(* Both check who calls and, in v4, the entry itself before they take the  *)
(* mutex of the user, and only write under it: a call is a read, which     *)
(* keeps what it needs in `call`, and a write.                             *)
(***************************************************************************)
EXTENDS Naturals, FiniteSets

CONSTANTS Editor, Call, None,
          Owner, Admin,   \* the user, and one who may manage any user
          Instant,        \* editors with the flag InstantInvite
          Asked           \* the permissions that are given

VARIABLES
    entry,      \* entry[e]: the document of editor e, or None
    call,       \* call[c]: what call c is about to write
    \* History: whom the stored events add and have not removed, how often each was invited,
    \* who accepted the present invitation, whose answer met another document than it was
    \* given to, whose entry a merge brought or took since the last event about it, and
    \* whose entry it brought with the consent given to another user.
    logged, nth, consent, crossed, unlogged, inherited

editorsVars == <<entry, call, logged, nth, consent, crossed, unlogged, inherited>>

Init ==
    /\ entry = [e \in Editor |-> None]
    /\ call = [c \in Call |-> None]
    /\ logged = {} /\ consent = {} /\ crossed = {} /\ unlogged = {} /\ inherited = {}
    /\ nth = [e \in Editor |-> 0]

(***************************************************************************)
(* Permissions of an editor: of the three groups the one about the user,   *)
(* whose SuperAdmin bit stands for all three and Admin for the group.      *)
(***************************************************************************)

Contains(p, mask) == mask \subseteq p
IsSuperAdmin(p) == Contains(p, {"SuperAdmin"})

\* `has_user`.
Has(p, mask) ==
    \/ IsSuperAdmin(p)
    \/ "SuperAdmin" \notin mask /\ (Contains(p, mask) \/ Contains(p, {"Admin"}))

\* `is_superset_of`.
Superset(p, q) == IsSuperAdmin(p) \/ Has(p, q)

State(e) == IF entry[e] = None THEN None ELSE entry[e].state

\* The user, those who may manage any user, and an editor who accepted and manages editors.
Manages(who) ==
    IF who \in {Owner, Admin} THEN TRUE
    ELSE State(who) = "Accepted" /\ Has(entry[who].perms, {"ManageEditors"})

\* An editor gives what is not above his own: the check turns back what covers all of it.
MayGive(who, perms) ==
    IF who \in {Owner, Admin} THEN TRUE ELSE ~Superset(perms, entry[who].perms)

(***************************************************************************)
(* The database                                                            *)
(***************************************************************************)

Goes(c, what) == call[c] = None /\ call' = [call EXCEPT ![c] = what]
Ends(c) == call' = [call EXCEPT ![c] = None]
In(c, op) == call[c] /= None /\ call[c].op = op

\* Nothing is left of what was known of the old entry.
Forgotten(e) ==
    /\ consent' = consent \ {e} /\ crossed' = crossed \ {e}
    /\ unlogged' = unlogged \ {e} /\ inherited' = inherited \ {e}

\* The invitation is a new one, with no answer yet.
Invited(e) == nth' = [nth EXCEPT ![e] = @ + 1] /\ Forgotten(e)

FirstState(e) == IF e \in Instant THEN "Accepted" ELSE "Pending"

\* A call that is refused, fails, is given up before its transaction commits, or finds
\* nothing to change.
Fail(c) ==
    /\ call[c] /= None /\ Ends(c)
    /\ UNCHANGED <<entry, logged, nth, consent, crossed, unlogged, inherited>>

(***************************************************************************)
(* v4                                                                      *)
(***************************************************************************)

\* `create`.
CreateReads(c, who, e, perms) ==
    /\ Manages(who) /\ MayGive(who, perms) /\ entry[e] = None
    /\ Goes(c, [op |-> "create", on |-> e, perms |-> perms])
    /\ UNCHANGED <<entry, logged, nth, consent, crossed, unlogged, inherited>>

\* Wrong variant: whatever is there is replaced.
CreateReplaces(c) ==
    LET e == call[c].on
    IN  /\ In(c, "create")
        /\ entry' = [entry EXCEPT ![e] = [state |-> FirstState(e), perms |-> call[c].perms]]
        /\ logged' = logged \cup {e}
        /\ Invited(e) /\ Ends(c)

\* The document is inserted; if there is one with its id by now, that is an error.
CreateInserts(c) == In(c, "create") /\ entry[call[c].on] = None /\ CreateReplaces(c)

\* `delete`: a rejected invitation is left to the editor.
DeleteReads(c, who, e) ==
    /\ entry[e] /= None
    /\ who = e \/ (Manages(who) /\ State(e) /= "Rejected")
    /\ Goes(c, [op |-> "delete", on |-> e])
    /\ UNCHANGED <<entry, logged, nth, consent, crossed, unlogged, inherited>>

\* Wrong variant: the removal is not an event.
DeleteSilently(c) ==
    LET e == call[c].on
    IN  /\ In(c, "delete") /\ entry[e] /= None
        /\ entry' = [entry EXCEPT ![e] = None]
        /\ Forgotten(e) /\ Ends(c) /\ UNCHANGED <<nth, logged>>

\* Whatever is there is deleted; if nothing is, that is no event, nor an error (`Fail`).
Delete(c) ==
    LET e == call[c].on
    IN  /\ In(c, "delete") /\ entry[e] /= None
        /\ entry' = [entry EXCEPT ![e] = None]
        /\ logged' = logged \ {e}
        /\ Forgotten(e) /\ Ends(c) /\ UNCHANGED nth

\* Wrong variant: `update_state` of an invitation that was answered.
AnswerAgain(c, e) ==
    /\ State(e) /= None
    /\ Goes(c, [op |-> "answer", on |-> e, nth |-> nth[e], state |-> State(e)])
    /\ UNCHANGED <<entry, logged, nth, consent, crossed, unlogged, inherited>>

\* `update_state`, which only the editor himself may call, and while it is pending.
AnswerReads(c, e) ==
    /\ State(e) = "Pending"
    /\ Goes(c, [op |-> "answer", on |-> e, nth |-> nth[e], state |-> "Pending"])
    /\ UNCHANGED <<entry, logged, nth, consent, crossed, unlogged, inherited>>

\* The answer is written to the document that is there, whatever its state.
AnswerWrites(c, state) ==
    LET e == call[c].on
        same == call[c].nth = nth[e] /\ call[c].state = State(e)
    IN  /\ In(c, "answer") /\ entry[e] /= None
        /\ entry' = [entry EXCEPT ![e].state = state]
        /\ consent' = IF same /\ state = "Accepted" THEN consent \cup {e} ELSE consent \ {e}
        /\ crossed' = IF same THEN crossed ELSE crossed \cup {e}
        /\ inherited' = inherited \ {e}
        /\ Ends(c) /\ UNCHANGED <<logged, nth, unlogged>>

\* `update_permissions`.
PermissionsRead(c, who, e, perms) ==
    /\ who /= e /\ State(e) = "Accepted"
    /\ Manages(who) /\ MayGive(who, perms)
    /\ Goes(c, [op |-> "permissions", on |-> e, perms |-> perms])
    /\ UNCHANGED <<entry, logged, nth, consent, crossed, unlogged, inherited>>

PermissionsWritten(c) ==
    /\ In(c, "permissions") /\ entry[call[c].on] /= None
    /\ entry' = [entry EXCEPT ![call[c].on].perms = call[c].perms]
    /\ Ends(c) /\ UNCHANGED <<logged, nth, consent, crossed, unlogged, inherited>>

(***************************************************************************)
(* v3: `editors` removes the editor when it is given no permission, and    *)
(* otherwise adds him or replaces his permissions.                         *)
(***************************************************************************)

EditorsReads(c, who, e, perms) ==
    /\ Manages(who) \/ (who = e /\ perms = {})
    /\ Goes(c, IF perms = {} THEN [op |-> "delete", on |-> e]
               ELSE [op |-> "editors", on |-> e, perms |-> perms])
    /\ UNCHANGED <<entry, logged, nth, consent, crossed, unlogged, inherited>>

\* Wrong variant: the state is set as if the editor were new.
EditorsUpdateResets(c) ==
    LET e == call[c].on
    IN  /\ In(c, "editors") /\ entry[e] /= None /\ entry[e].perms /= call[c].perms
        /\ entry' = [entry EXCEPT ![e] = [state |-> FirstState(e), perms |-> call[c].perms]]
        /\ Ends(c) /\ UNCHANGED <<logged, nth, consent, crossed, unlogged, inherited>>

\* One who is there keeps his state.
EditorsUpdate(c) ==
    LET e == call[c].on
    IN  /\ In(c, "editors") /\ entry[e] /= None /\ entry[e].perms /= call[c].perms
        /\ entry' = [entry EXCEPT ![e].perms = call[c].perms]
        /\ Ends(c) /\ UNCHANGED <<logged, nth, consent, crossed, unlogged, inherited>>

EditorsAdd(c) ==
    LET e == call[c].on
    IN  /\ In(c, "editors") /\ entry[e] = None
        /\ entry' = [entry EXCEPT ![e] = [state |-> FirstState(e), perms |-> call[c].perms]]
        /\ logged' = logged \cup {e}
        /\ Invited(e) /\ Ends(c)

(***************************************************************************)
(* `merge` of two users, in a transaction under the mutex of the first: no *)
(* entry it moves is an event, and nobody is asked.                        *)
(***************************************************************************)

Moved(after) ==
    LET arrived == {e \in Editor : entry[e] = None /\ after[e] /= None}
        left == {e \in Editor : entry[e] /= None /\ after[e] = None}
        fresh == {e \in arrived : after[e].state = "Accepted"}
    IN  /\ arrived \cup left /= {}
        /\ entry' = after
        /\ nth' = [e \in Editor |-> IF e \in arrived THEN nth[e] + 1 ELSE nth[e]]
        /\ consent' = consent \ (arrived \cup left) /\ crossed' = crossed \ (arrived \cup left)
        /\ unlogged' = unlogged \cup arrived \cup left
        /\ inherited' = (inherited \ left) \cup fresh
        /\ UNCHANGED <<call, logged>>

\* The user is merged into another, who gets his editors.
MergeAway == Moved([e \in Editor |-> None])

\* Wrong variant: of one who edits both, the entry of the other user is kept.
MergeIntoReplaces(others) ==
    Moved([e \in Editor |-> IF others[e] = None THEN entry[e] ELSE others[e]])

\* Another user is merged into this one: those of his editors who are none here.
MergeInto(others) ==
    Moved([e \in Editor |-> IF entry[e] = None THEN others[e] ELSE entry[e]])

\* Editor e is merged into f, who takes his place unless he has one.
MergeEditor(e, f) ==
    Moved([entry EXCEPT ![e] = None, ![f] = IF entry[f] = None THEN entry[e] ELSE entry[f]])

States == {"Pending", "Accepted", "Rejected"}

Merge ==
    \/ MergeAway
    \/ \E others \in [Editor -> {None} \cup [state : States, perms : Asked]] : MergeInto(others)
    \/ \E e \in Editor : \E f \in Editor \ {e} : MergeEditor(e, f)

Next ==
    \/ Merge
    \/ \E c \in Call :
        \/ Fail(c)
        \/ CreateInserts(c) \/ Delete(c) \/ PermissionsWritten(c)
        \/ EditorsAdd(c) \/ EditorsUpdate(c)
        \/ \E state \in {"Accepted", "Rejected"} : AnswerWrites(c, state)
        \/ \E e \in Editor :
            \/ AnswerReads(c, e)
            \/ \E who \in {Owner, Admin} \cup Editor :
                \/ DeleteReads(c, who, e)
                \/ \E perms \in Asked :
                    \/ CreateReads(c, who, e, perms) \/ PermissionsRead(c, who, e, perms)
                \/ \E perms \in Asked \cup {{}} : EditorsReads(c, who, e, perms)

Spec == Init /\ [][Next]_editorsVars

(***************************************************************************)
(* Properties                                                              *)
(***************************************************************************)

TypeOK ==
    /\ \A e \in Editor : State(e) \in States \cup {None}
    /\ consent \cup crossed \cup unlogged \cup inherited \subseteq Editor
    /\ nth \in [Editor -> Nat]

\* Nobody is an editor who did not accept: he said so to the invitation there is, may be
\* added without being asked, said so to one that had changed under his answer - or had
\* accepted when a merge moved the entry, another user's or for another editor.
Consented ==
    \A e \in Editor : State(e) = "Accepted" => e \in Instant \cup consent \cup crossed \cup inherited

\* The stored events tell who the editors and the invited are (user_editor/mod.rs), but
\* for those of whom the last thing that happened was a merge (users.rs:1215-1333).
LogAgrees == \A e \in Editor \ unlogged : e \in logged <=> entry[e] /= None

\* One who is invited is not invited again, and an answer stands until the entry goes, unless
\* two answers were given to it (operation.rs:183).
AnswerStands ==
    [][ \A e \in Editor : entry[e] /= None /\ entry'[e] /= None =>
            /\ nth'[e] = nth[e]
            /\ State(e)' /= State(e) => State(e) = "Pending" \/ e \in crossed'
            /\ State(e)' = "Pending" => State(e) = "Pending" ]_editorsVars

EditorsHold == [](Consented /\ LogAgrees) /\ AnswerStands
=============================================================================
