------------------------------- MODULE Emotes -------------------------------
(***************************************************************************)
(* Emotes from their upload to their deletion: the upload handler          *)
(* (http/v4/rest/emotes.rs), the callbacks of the image processor          *)
(* (image_processor/emote.rs), the v4 and v3 mutations, and the moderation *)
(* requests that each of them opens or closes.  A mutation is one          *)
(* transaction under the emote's mutex, decided on a copy loaded earlier.  *)
(***************************************************************************)
EXTENDS Naturals, FiniteSets

CONSTANTS Emote,
          Call,      \* calls of the mutations, each with its copy of an emote
          ManageAny, \* those by users who may manage any emote,
          ManageRequests, \* ... the moderation requests,
          MayMerge,  \* ... or merge emotes: three permissions, granted one by one
          MaxPending, \* emote_moderation_request_limit of the uploader
          None

VARIABLES
    upload,     \* upload[e]: the await of the handler that uploads e
    job,        \* job[e]: what the image processor has to say of e
    box,        \* box[e]: the callbacks in the stream
    exists,     \* the emotes inserted so far; none is ever removed
    ready,      \* those with their images
    flags,      \* flags[e]: "listed", "approved", "denied", "private"; no request
                \* depends on the others
    deleted,
    merged,     \* the emotes merged into another
    listing,    \* listing[e]: status of its request for PublicListing
    personal,   \* personal[e]: status of its request for PersonalUse
    copy,       \* copy[c]: the emote and the flags the call c has loaded
    asked,      \* the emote that an addition to a personal set has read, or None
    bypassed,   \* history: bypassed[e]: the flags of e set by a call that may not
                \* answer its requests
    lost,       \* history: emotes with a callback unpublished, early or failed
    late,       \* history: emotes whose deletion or merge was overtaken
    undone      \* history: emotes whose flags were written from an old copy

uploads == <<upload, job, lost>>
documents == <<exists, ready, deleted, merged>>
requests == <<listing, personal>>
vars == <<uploads, box, documents, flags, requests, copy, asked, bypassed, late, undone>>

Flag == {"listed", "approved", "denied", "private"}
\* Whether a closed request was approved, denied or its emote deleted, nobody asks.
Status == {"none", "pending", "closed"}

TypeOK ==
    /\ upload \in [Emote -> {"idle", "counted", "submitted", "ended"}]
    /\ job \in [Emote -> {"none", "queued", "ended"}]
    /\ box \in [Emote -> SUBSET {"success", "fail"}]
    /\ flags \in [Emote -> SUBSET Flag]
    /\ listing \in [Emote -> Status] /\ personal \in [Emote -> Status]
    /\ copy \in [Call -> [emote : Emote, flags : SUBSET Flag, deleted : BOOLEAN] \cup {None}]
    /\ asked \in Emote \cup {None}
    /\ bypassed \in [Emote -> SUBSET Flag]
    /\ ready \cup deleted \cup merged \cup undone \subseteq exists
    /\ exists \cup lost \cup late \subseteq Emote

Init ==
    /\ upload = [e \in Emote |-> "idle"]
    /\ job = [e \in Emote |-> "none"]
    /\ box = [e \in Emote |-> {}]
    /\ flags = [e \in Emote |-> {}]
    /\ listing = [e \in Emote |-> "none"] /\ personal = [e \in Emote |-> "none"]
    /\ copy = [c \in Call |-> None] /\ asked = None
    /\ bypassed = [e \in Emote |-> {}]
    /\ exists = {} /\ ready = {} /\ deleted = {} /\ merged = {}
    /\ lost = {} /\ late = {} /\ undone = {}

Live(e) == e \in exists \ (deleted \cup merged)

Pending(status) == {e \in Emote : status[e] = "pending"}

\* A pending request of e gets its answer; one that is closed already keeps its own.
Closed(status, e) == IF status[e] = "pending" THEN [status EXCEPT ![e] = "closed"]
                     ELSE status

-----------------------------------------------------------------------------
(* The upload.  The count is read outside of any transaction.              *)

Count(e) ==
    /\ upload[e] = "idle"
    /\ Cardinality(Pending(listing)) <= MaxPending
    /\ upload' = [upload EXCEPT ![e] = "counted"]
    /\ UNCHANGED <<job, lost, box, documents, flags, requests, copy, asked, bypassed, late, undone>>

Submit(e) ==
    /\ upload[e] = "counted"
    /\ upload' = [upload EXCEPT ![e] = "submitted"]
    /\ job' = [job EXCEPT ![e] = "queued"]
    /\ UNCHANGED <<lost, box, documents, flags, requests, copy, asked, bypassed, late, undone>>

Insert(e) ==
    /\ upload[e] = "submitted"
    /\ upload' = [upload EXCEPT ![e] = "ended"]
    /\ exists' = exists \cup {e}
    /\ \E private \in SUBSET {"private"} : flags' = [flags EXCEPT ![e] = private]
    /\ UNCHANGED <<job, lost, box, ready, deleted, merged, requests, copy, asked, bypassed, late, undone>>

\* The handler is dropped, or the image processor or the database refuses.
Abort(e) ==
    /\ upload[e] \in {"counted", "submitted"}
    /\ upload' = [upload EXCEPT ![e] = "ended"]
    /\ UNCHANGED <<job, lost, box, documents, flags, requests, copy, asked, bypassed, late, undone>>

-----------------------------------------------------------------------------
(* The image processor and its callbacks.                                  *)

\* An attempt tells its verdict, or fails to publish it and goes on; a second
\* attempt may tell another one.
Report(e, verdict) ==
    /\ job[e] = "queued"
    /\ \/ /\ box' = [box EXCEPT ![e] = box[e] \cup {verdict}]
          /\ UNCHANGED lost
       \/ /\ lost' = lost \cup {e}
          /\ UNCHANGED box
    /\ job' \in {job, [job EXCEPT ![e] = "ended"]}
    /\ UNCHANGED <<upload, documents, flags, requests, copy, asked, bypassed, late, undone>>

\* A message is acknowledged whatever its handler returned, or delivered again.
Acknowledge(e, verdict) ==
    /\ verdict \in box[e]
    /\ box' \in {box, [box EXCEPT ![e] = box[e] \ {verdict}]}

\* The handler returns an error: no emote yet, or a failed transaction.
CallbackFails(e, verdict) ==
    /\ Acknowledge(e, verdict)
    /\ lost' = lost \cup {e}
    /\ UNCHANGED <<upload, job, documents, flags, requests, copy, asked, bypassed, late, undone>>

\* The request is inserted, and its index allows one for each emote: a second
\* success of an unlisted emote is a duplicate key, an error.
HandleSuccess(e) ==
    /\ Acknowledge(e, "success")
    /\ e \in exists
    /\ "listed" \in flags[e] \/ listing[e] = "none"
    /\ ready' = ready \cup {e}
    /\ IF "listed" \in flags[e]
       THEN UNCHANGED <<listing, late>>
       ELSE /\ listing' = [listing EXCEPT ![e] = "pending"]
            /\ late' = IF Live(e) THEN late ELSE late \cup {e}
    /\ UNCHANGED <<uploads, exists, deleted, merged, flags, personal, copy, asked, bypassed, undone>>

\* Wrong variants: the emote stays; the requests stay.
HandleFailKeepsEmote(e) ==
    /\ Acknowledge(e, "fail")
    /\ e \in exists
    /\ listing' = [listing EXCEPT ![e] = "none"]
    /\ personal' = [personal EXCEPT ![e] = "none"]
    /\ UNCHANGED <<uploads, documents, flags, copy, asked, bypassed, late, undone>>

HandleFailKeepsRequests(e) ==
    /\ Acknowledge(e, "fail")
    /\ e \in exists
    /\ deleted' = deleted \cup {e}
    /\ UNCHANGED <<uploads, exists, ready, merged, flags, requests, copy, asked, bypassed, late, undone>>

HandleFail(e) ==
    /\ Acknowledge(e, "fail")
    /\ e \in exists
    /\ deleted' = deleted \cup {e}
    /\ listing' = [listing EXCEPT ![e] = "none"]
    /\ personal' = [personal EXCEPT ![e] = "none"]
    /\ UNCHANGED <<uploads, exists, ready, merged, flags, copy, asked, bypassed, late, undone>>

-----------------------------------------------------------------------------
(* The mutations.                                                          *)

\* The loader; the v4 one finds deleted emotes too.
Load(c, e) ==
    /\ copy[c] = None
    /\ e \in exists
    /\ copy' = [copy EXCEPT ![c] = [emote |-> e, flags |-> flags[e], deleted |-> e \in deleted]]
    /\ UNCHANGED <<uploads, box, documents, flags, requests, asked, bypassed, late, undone>>

\* No permission, nothing to change, or another error.
Leave(c) ==
    /\ copy[c] # None
    /\ copy' = [copy EXCEPT ![c] = None]
    /\ UNCHANGED <<uploads, box, documents, flags, requests, asked, bypassed, late, undone>>

\* What may be asked for: only who manages any emote may touch more than "private".
MaySet(c, new) ==
    /\ new # copy[c].flags
    /\ c \notin ManageAny => new \ {"private"} = copy[c].flags \ {"private"}

\* A flag set anew, as the copy has it, answers its request, if the caller may
\* manage requests.
Answers(c, new, answering) == c \in ManageRequests /\ (new \ copy[c].flags) \cap answering # {}

\* What of the new flags was decided by callers who may not.
Bypassing(c, new) ==
    LET raised == IF c \in ManageRequests THEN {} ELSE new \ copy[c].flags
    IN new \cap (bypassed[copy[c].emote] \cup (raised \ {"private"}))

\* Wrong variant: the requests for listing stay open.
WriteFlagsLeavesListing(c, new) ==
    LET e == copy[c].emote
    IN /\ flags' = [flags EXCEPT ![e] = new]
       /\ personal' = IF Answers(c, new, {"approved", "denied"}) THEN Closed(personal, e)
                      ELSE personal
       /\ bypassed' = [bypassed EXCEPT ![e] = Bypassing(c, new)]
       /\ undone' = IF copy[c].flags # flags[e] THEN undone \cup {e} ELSE undone
       /\ copy' = [copy EXCEPT ![c] = None]
       /\ UNCHANGED <<uploads, box, documents, listing, asked, late>>

\* The whole word of flags is written, computed from the copy.
WriteFlags(c, new) ==
    LET e == copy[c].emote
    IN /\ flags' = [flags EXCEPT ![e] = new]
       /\ listing' = IF Answers(c, new, {"listed"}) THEN Closed(listing, e) ELSE listing
       /\ personal' = IF Answers(c, new, {"approved", "denied"}) THEN Closed(personal, e)
                      ELSE personal
       /\ bypassed' = [bypassed EXCEPT ![e] = Bypassing(c, new)]
       /\ undone' = IF copy[c].flags # flags[e] THEN undone \cup {e} ELSE undone
       /\ copy' = [copy EXCEPT ![c] = None]
       /\ UNCHANGED <<uploads, box, documents, asked, late>>

\* v4: any flags.
SetFlags(c, new) ==
    /\ copy[c] # None
    /\ MaySet(c, new)
    /\ WriteFlags(c, new)

\* v3: `listed` and `personal_use`, which sets one of two flags and clears the
\* other.  Its loader does not find deleted emotes.
Update(c, private, listed) ==
    /\ copy[c] # None
    /\ ~copy[c].deleted
    /\ \E use \in {copy[c].flags \cap {"approved", "denied"}, {"approved"}, {"denied"}} :
           /\ MaySet(c, private \cup listed \cup use)
           /\ WriteFlags(c, private \cup listed \cup use)

Delete(c) ==
    /\ copy[c] # None
    /\ ~copy[c].deleted
    /\ deleted' = deleted \cup {copy[c].emote}
    /\ listing' = Closed(listing, copy[c].emote)
    /\ personal' = Closed(personal, copy[c].emote)
    /\ copy' = [copy EXCEPT ![c] = None]
    /\ UNCHANGED <<uploads, box, exists, ready, merged, flags, asked, bypassed, late, undone>>

\* Whether the emote is deleted or merged already is not looked at.
Merge(c) ==
    /\ copy[c] # None
    /\ c \in MayMerge
    /\ merged' = merged \cup {copy[c].emote}
    /\ listing' = Closed(listing, copy[c].emote)
    /\ personal' = Closed(personal, copy[c].emote)
    /\ copy' = [copy EXCEPT ![c] = None]
    /\ UNCHANGED <<uploads, box, exists, ready, deleted, flags, asked, bypassed, late, undone>>

-----------------------------------------------------------------------------
(* Adding an emote to a personal set asks for its approval.  It holds the  *)
(* mutex of the set: nothing keeps the emote it has read as it is.         *)

AskReads(e) ==
    /\ asked = None
    /\ Live(e)
    /\ flags[e] \cap {"approved", "denied"} = {}
    /\ asked' = e
    /\ UNCHANGED <<uploads, box, documents, flags, requests, copy, bypassed, late, undone>>

\* The upsert writes only if there is no request; the limit counts the pending.
AskWrites ==
    LET opened == IF personal[asked] = "none" THEN [personal EXCEPT ![asked] = "pending"]
                  ELSE personal
    IN /\ asked # None
       /\ asked' = None
       /\ personal' = IF Cardinality(Pending(opened)) <= MaxPending THEN opened ELSE personal
       /\ late' = IF Live(asked) THEN late ELSE late \cup {asked}
       /\ undone' = IF flags[asked] \cap {"approved", "denied"} = {} THEN undone
                    ELSE undone \cup {asked}
       /\ UNCHANGED <<uploads, box, documents, flags, listing, copy, bypassed>>

Next ==
    \/ \E e \in Emote :
           \/ Count(e) \/ Submit(e) \/ Insert(e) \/ Abort(e)
           \/ HandleSuccess(e) \/ HandleFail(e) \/ AskReads(e)
           \/ \E v \in {"success", "fail"} : Report(e, v) \/ CallbackFails(e, v)
    \/ \E c \in Call :
           \/ \E e \in Emote : Load(c, e)
           \/ \E new \in SUBSET Flag : SetFlags(c, new)
           \/ \E private \in SUBSET {"private"}, listed \in SUBSET {"listed"} :
                  Update(c, private, listed)
           \/ Leave(c) \/ Delete(c) \/ Merge(c)
    \/ AskWrites

Spec == Init /\ [][Next]_vars

-----------------------------------------------------------------------------
(* Properties. *)

\* A decision closes the request it answers: no request stays pending for a flag
\* the emote has, unless that flag was set by one who manages emotes and not their
\* requests, a write from an outdated copy brought it back, or the emote was read
\* before the decision.
PendingIsUndecided ==
    \A e \in exists \ undone :
        /\ listing[e] = "pending" => flags[e] \cap {"listed"} \subseteq bypassed[e]
        /\ personal[e] = "pending" => flags[e] \cap {"approved", "denied"} \subseteq bypassed[e]

\* Moderators are not asked about emotes that are gone, unless the emote went
\* while its images were made or while it was being added to a personal set.
RequestsOfLiveEmotes ==
    \A e \in exists \ late :
        listing[e] = "pending" \/ personal[e] = "pending" => Live(e)

\* An emote stays without its images, neither deleted nor with a callback to
\* come, only after a callback that was never published, early or not handled.
StuckUploadNeedsCause ==
    \A e \in exists \ (ready \cup deleted) :
        job[e] = "ended" /\ box[e] = {} => e \in lost
=============================================================================
