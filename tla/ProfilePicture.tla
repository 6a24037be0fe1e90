--------------------------- MODULE ProfilePicture ---------------------------
(***************************************************************************)
(* The profile picture of one user: the upload handler                     *)
(* (apps/api/src/http/v4/rest/users.rs, the same in v3), which submits the *)
(* image job before it writes the picture and then the user, the callbacks *)
(* (apps/api/src/image_processor), each one transaction, and the removal.  *)
(* A picture is the name of the upload that creates it.                    *)
(***************************************************************************)
EXTENDS Naturals

CONSTANTS Pic,      \* the pictures, one for each upload
          None      \* no picture

Kind == {"success", "fail", "cancel"}

VARIABLES
    up,         \* up[p]: the upload handler
    doc,        \* doc[p]: the UserProfilePicture: "none", "pending" or "ready"
    pending,    \* user.style.pending_profile_picture
    active,     \* user.style.active_profile_picture
    job,        \* job[p]: "none", "queued" or "over"
    msgs,       \* the callbacks in the stream that are not acknowledged
    cause,      \* history: a callback of p was "missed": lost, or handled too early,
                \* or the existing picture was "cancelled"
    dismissed   \* history: the pictures the user removed

vars == <<up, doc, pending, active, job, msgs, cause, dismissed>>

style == <<pending, active>>
stream == <<job, msgs>>
history == <<cause, dismissed>>

Init ==
    /\ up = [p \in Pic |-> "idle"]
    /\ doc = [p \in Pic |-> "none"]
    /\ pending = None
    /\ active = None
    /\ job = [p \in Pic |-> "none"]
    /\ msgs = {}
    /\ cause = [p \in Pic |-> {}]
    /\ dismissed = {}

Goto(p, label) == up' = [up EXCEPT ![p] = label]
SetDoc(p, what) == doc' = [doc EXCEPT ![p] = what]
Because(p, why) == cause' = [cause EXCEPT ![p] = @ \cup {why}]

-----------------------------------------------------------------------------
(* upload_user_profile_picture *)

\* Refused while a change is pending; the user was read before.
Check(p) ==
    /\ up[p] = "idle"
    /\ Goto(p, IF pending = None THEN "checked" ELSE "gone")
    /\ UNCHANGED <<doc, style, stream, history>>

\* The image processor takes the job ..
Submit(p) ==
    /\ up[p] = "checked"
    /\ job' = [job EXCEPT ![p] = "queued"]
    /\ Goto(p, "submitted")
    /\ UNCHANGED <<doc, style, msgs, history>>

\* .. then the picture is inserted ..
Insert(p) ==
    /\ up[p] = "submitted"
    /\ SetDoc(p, "pending")
    /\ Goto(p, "inserted")
    /\ UNCHANGED <<style, stream, history>>

\* .. then it becomes the pending picture, whichever was before.
SetPending(p) ==
    /\ up[p] = "inserted"
    /\ pending' = p
    /\ Goto(p, "done")
    /\ UNCHANGED <<doc, active, stream, history>>

\* A step fails, having been executed or not, or the client goes away: nothing is
\* taken back.
Abort(p) ==
    /\ Goto(p, "gone")
    /\ \/ /\ up[p] \in {"checked", "submitted", "inserted"}
          /\ UNCHANGED <<doc, pending, job>>
       \/ /\ up[p] = "checked"
          /\ job' = [job EXCEPT ![p] = "queued"]
          /\ UNCHANGED <<doc, pending>>
       \/ /\ up[p] = "submitted"
          /\ SetDoc(p, "pending")
          /\ UNCHANGED <<pending, job>>
       \/ /\ up[p] = "inserted"
          /\ pending' = p
          /\ UNCHANGED <<doc, job>>
    /\ UNCHANGED <<active, msgs, history>>

-----------------------------------------------------------------------------
(* The image processor: see ImageJobs *)

\* A callback is published, or lost; a disturbed job is attempted once more.
Report(p, k) ==
    /\ job[p] = "queued"
    /\ \E next \in {"queued", "over"} : job' = [job EXCEPT ![p] = next]
    /\ \/ msgs' = msgs \cup {<<p, k>>} /\ UNCHANGED cause
       \/ Because(p, "missed") /\ UNCHANGED msgs
    /\ UNCHANGED <<up, doc, style, dismissed>>

-----------------------------------------------------------------------------
(* The callback consumer *)

\* The callback is acknowledged, or not and delivered again.
Acknowledge(p, k) == msgs' \in {msgs, msgs \ {<<p, k>>}}

\* A callback that is handled before the upload has set the pending picture.
NoteEarly(p) ==
    IF up[p] \in {"submitted", "inserted"} THEN Because(p, "missed") ELSE UNCHANGED cause

\* Wrong variant: the user is not asked for the pending picture.
SuccessAnyway(p) ==
    /\ <<p, "success">> \in msgs
    /\ IF doc[p] = "none"
       THEN UNCHANGED <<doc, style>>
       ELSE /\ SetDoc(p, "ready")
            /\ active' = p
            /\ pending' = IF pending = p THEN None ELSE pending
    /\ Acknowledge(p, "success")
    /\ NoteEarly(p)
    /\ UNCHANGED <<up, job, dismissed>>

\* handle_success: the picture gets its images, and becomes the active one if it
\* is the pending one.  An unknown picture is an error, logged and acknowledged.
Success(p) ==
    /\ <<p, "success">> \in msgs
    /\ doc' = IF doc[p] = "none" THEN doc ELSE [doc EXCEPT ![p] = "ready"]
    /\ IF doc[p] # "none" /\ pending = p
       THEN active' = p /\ pending' = None
       ELSE UNCHANGED style
    /\ Acknowledge(p, "success")
    /\ NoteEarly(p)
    /\ UNCHANGED <<up, job, dismissed>>

\* Wrong variant: the picture is deleted though the user does not match.
FailDeletes(p) ==
    /\ <<p, "fail">> \in msgs
    /\ SetDoc(p, "none")
    /\ pending' = IF pending = p THEN None ELSE pending
    /\ Acknowledge(p, "fail")
    /\ NoteEarly(p)
    /\ UNCHANGED <<up, active, job, dismissed>>

\* Wrong variant: the user keeps the pending picture.
FailKeepsPending(p) ==
    /\ <<p, "fail">> \in msgs
    /\ IF doc[p] # "none" /\ pending = p THEN SetDoc(p, "none") ELSE UNCHANGED doc
    /\ Acknowledge(p, "fail")
    /\ NoteEarly(p)
    /\ UNCHANGED <<up, style, job, dismissed>>

\* handle_fail: the picture is deleted and the user freed of it, or - when the
\* picture is not the pending one - the transaction is aborted.
Fail(p) ==
    /\ <<p, "fail">> \in msgs
    /\ IF doc[p] # "none" /\ pending = p
       THEN SetDoc(p, "none") /\ pending' = None
       ELSE UNCHANGED <<doc, pending>>
    /\ Acknowledge(p, "fail")
    /\ NoteEarly(p)
    /\ UNCHANGED <<up, active, job, dismissed>>

\* handle_cancel: the picture is deleted, the user is left as it is.
Cancel(p) ==
    /\ <<p, "cancel">> \in msgs
    /\ SetDoc(p, "none")
    /\ Acknowledge(p, "cancel")
    /\ IF doc[p] # "none" THEN Because(p, "cancelled") ELSE NoteEarly(p)
    /\ UNCHANGED <<up, style, job, dismissed>>

\* The transaction fails: logged, and acknowledged all the same.
HandlerFails(p, k) ==
    /\ <<p, k>> \in msgs
    /\ msgs' = msgs \ {<<p, k>>}
    /\ Because(p, "missed")
    /\ UNCHANGED <<up, doc, style, job, dismissed>>

-----------------------------------------------------------------------------
(* remove_profile_picture *)

Remove ==
    /\ active # None
    /\ active' = None
    /\ dismissed' = dismissed \cup {active}
    /\ UNCHANGED <<up, doc, pending, stream, cause>>

Next ==
    \/ \E p \in Pic :
        \/ Check(p) \/ Submit(p) \/ Insert(p) \/ SetPending(p) \/ Abort(p)
        \/ Success(p) \/ Fail(p) \/ Cancel(p)
        \/ \E k \in Kind : Report(p, k) \/ HandlerFails(p, k)
    \/ Remove

Spec == Init /\ [][Next]_vars

-----------------------------------------------------------------------------
(* What must hold *)

TypeOK ==
    /\ up \in [Pic -> {"idle", "checked", "submitted", "inserted", "done", "gone"}]
    /\ doc \in [Pic -> {"none", "pending", "ready"}]
    /\ pending \in Pic \cup {None}
    /\ active \in Pic \cup {None}
    /\ job \in [Pic -> {"none", "queued", "over"}]
    /\ msgs \subseteq Pic \X Kind
    /\ cause \in [Pic -> SUBSET {"missed", "cancelled"}]
    /\ dismissed \subseteq Pic

\* The active picture has its images, whatever second verdicts and repeated
\* deliveries say of it, but for a cancellation (profile_picture.rs:120-155: a
\* failure of a picture that is not pending is rolled back).
ActiveIsReady ==
    active # None => doc[active] = "ready" \/ "cancelled" \in cause[active]

\* A user is only locked out of uploads - pending, and no callback to come - by a
\* callback that was lost, came early, or was a cancellation (users.rs:77-82).
LockNeedsCause ==
    \A p \in Pic :
        (pending = p /\ job[p] = "over" /\ \A k \in Kind : <<p, k>> \notin msgs)
            => cause[p] # {}

\* A picture the user removed does not come back with a repeated callback
\* (profile_picture.rs:55-83).
RemovedStaysRemoved == active \notin dismissed
=============================================================================
