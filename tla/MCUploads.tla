----------------------------- MODULE MCUploads -----------------------------
(***************************************************************************)
(* A TLC instance of three parts that have no variable in common: the      *)
(* image jobs, and the profile pictures and emotes that both wait for      *)
(* them.  `part` says whose behaviour it is; the other parts stay as they  *)
(* start, so the run has the states of each and no product of them.        *)
(***************************************************************************)
EXTENDS MCImageJobs, TLC

CONSTANTS None, Pic, Emote, Call, ManageAny, ManageRequests, MayMerge, MaxPending

ASSUME UploadsAssumption == None \notin Pic /\ None \notin Emote

VARIABLES part,
          up, doc, pending, active, job, msgs, cause, dismissed,
          upload, emoteJob, box, exists, ready, flags, deleted, merged, listing, personal,
          copy, asked, bypassed, lost, late, undone

pictures == <<up, doc, pending, active, job, msgs, cause, dismissed>>
emotes == <<upload, emoteJob, box, exists, ready, flags, deleted, merged, listing, personal,
            copy, asked, bypassed, lost, late, undone>>

P == INSTANCE ProfilePicture
E == INSTANCE Emotes WITH job <- emoteJob

MCInit ==
    /\ part \in {"pictures", "emotes", "jobs"}
    /\ Init /\ P!Init /\ E!Init

PicturesNext == part = "pictures" /\ P!Next /\ UNCHANGED <<part, emotes, vars>>
EmotesNext == part = "emotes" /\ E!Next /\ UNCHANGED <<part, pictures, vars>>
JobsNext == part = "jobs" /\ Next /\ UNCHANGED <<part, pictures, emotes>>

MCSpec == MCInit /\ [][PicturesNext \/ EmotesNext \/ JobsNext]_<<part, pictures, emotes, vars>>

Symmetry == Permutations(Pic)

\* An emote whose deletion or whose flags were overtaken is excused by every
\* property: what happens to it after that is not looked at.  Neither is what a
\* call does with outdated flags: if it writes it is excused, and what else it may
\* do does not depend on them.
InTime ==
    /\ undone = {} /\ late = {}
    /\ \A c \in Call : copy[c] # None => copy[c].flags = flags[copy[c].emote]

\* What ProfilePicture says of the active picture, of a user who is locked out,
\* and of a picture that was removed.
ActiveIsReady == P!ActiveIsReady
LockNeedsCause == P!LockNeedsCause
RemovedStaysRemoved == P!RemovedStaysRemoved

\* An emote that stays pending has a cause, and the requests about it make sense.
EmotesHold == E!StuckUploadNeedsCause /\ E!PendingIsUndecided /\ E!RequestsOfLiveEmotes

\* No job vanishes untold, and a second verdict needs a disturbance.
JobsAreTold == NoSilentRemoval /\ VerdictsNeedDisturbance
=============================================================================
