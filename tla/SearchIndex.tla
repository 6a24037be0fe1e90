----------------------------- MODULE SearchIndex -----------------------------
(***************************************************************************)
(* The way of a change into the search index: the change stream            *)
(* (mongo-change-stream/src/stream.rs), the work queue and its handlers    *)
(* (mongo-typesense/src/typesense).  Two documents that depend on one      *)
(* another: an emote set, and a user who has it active and in whose        *)
(* document the emotes are cached.  One emote is enough: the set holds it  *)
(* or not.  `updated_at` is a number that grows with every change.         *)
(***************************************************************************)
EXTENDS Integers, FiniteSets

CONSTANTS Handler,     \* spawned tasks, one for each message taken
          MaxDeliver,  \* max_deliver of the consumer
          MaxChanges   \* bound on the changes by the rest of the system

ASSUME ConstAssumption == MaxDeliver \in Nat \ {0} /\ MaxChanges \in Nat

VARIABLES
    stamp,      \* updated_at of the two documents
    alive,      \* those that are in the database
    marked,     \* those whose search_updated_at is later than updated_at
    holds,      \* the set holds the emote
    touched,    \* emotes_changed_since_reindex
    cached,     \* the emote is among the active emotes cached in the user
    counted,    \* sum of the rows for the emote in emote_stats
    index,      \* the updated_at of the indexed copies, 0 if there is none
    watching,   \* the change stream runs
    queue,      \* messages, with the number of their deliveries
    taken,      \* those delivered and not yet acknowledged or given back
    task,       \* task[h]: the await of the handler, and what it has read
    lost,       \* history: documents with a change nobody saw or a message given up
    overlapped, \* history: documents that two handlers were at
    torn,       \* history: a set was marked and its users were not
    uncounted   \* history: an emote was counted and the user was not written

database == <<stamp, alive, marked, holds, touched, cached>>
delivery == <<queue, taken>>
history == <<lost, overlapped, torn, uncounted>>
vars == <<database, counted, index, watching, delivery, task, history>>

Doc == {"set", "user"}
Message == [doc : Doc, n : Nat, op : {"change", "delete"}]
Idle == [at |-> "idle"]

TypeOK ==
    /\ stamp \in [Doc -> Nat] /\ index \in [Doc -> Nat]
    /\ alive \cup marked \cup lost \cup overlapped \subseteq Doc
    /\ {holds, touched, cached, watching, torn, uncounted} \subseteq BOOLEAN
    /\ counted \in Int
    /\ \A q \in queue : q.m \in Message /\ q.count \in 0..MaxDeliver
    /\ taken \subseteq Message
    /\ \A h \in Handler : task[h].at \in {"idle", "load", "loadset", "upsert", "mark"}

Init ==
    /\ stamp = [d \in Doc |-> 1] /\ index = stamp
    /\ alive = Doc /\ marked = Doc
    /\ holds = FALSE /\ touched = FALSE /\ cached = FALSE
    /\ counted = 0
    /\ watching = TRUE
    /\ queue = {} /\ taken = {}
    /\ task = [h \in Handler |-> Idle]
    /\ lost = {} /\ overlapped = {} /\ torn = FALSE /\ uncounted = FALSE

-----------------------------------------------------------------------------
(* The change stream.  It publishes each change once, in their order; it   *)
(* has no resume token, so what changes while it is down is never told.    *)

Sent(docs, op) ==
    IF watching THEN {[m |-> [doc |-> d, n |-> stamp'[d], op |-> op], count |-> 0] : d \in docs}
    ELSE {}

Unseen(docs) == IF watching THEN {} ELSE docs

Publish(d, op) ==
    /\ queue' = queue \cup Sent({d}, op)
    /\ lost' = lost \cup Unseen({d})

StreamStops ==
    /\ watching' = ~watching
    /\ UNCHANGED <<database, counted, index, delivery, task, history>>

Bump(d) ==
    /\ stamp' = [stamp EXCEPT ![d] = stamp[d] + 1]
    /\ marked' = marked \ {d}

\* A mutation by the API, of the set's emotes or of anything else.
Change(d, emotes) ==
    /\ d \in alive
    /\ stamp["set"] + stamp["user"] < MaxChanges + 2
    /\ Bump(d)
    /\ IF d = "set" /\ emotes THEN holds' = ~holds /\ touched' = TRUE
       ELSE UNCHANGED <<holds, touched>>
    /\ Publish(d, "change")
    /\ UNCHANGED <<alive, cached, counted, index, watching, taken, task, overlapped, torn, uncounted>>

Delete(d) ==
    /\ d \in alive
    /\ stamp["set"] + stamp["user"] < MaxChanges + 2
    /\ alive' = alive \ {d}
    /\ Bump(d)
    /\ Publish(d, "delete")
    /\ UNCHANGED <<holds, touched, cached, counted, index, watching, taken, task, overlapped, torn, uncounted>>

-----------------------------------------------------------------------------
(* Delivery. *)

DocOf(h) == task[h].m.doc

\* Another handler is at the same document.
Overlaps(m) == \E h \in Handler : task[h] # Idle /\ DocOf(h) = m.doc

Take(h, q) ==
    /\ task[h] = Idle
    /\ q.m \notin taken
    /\ q.count < MaxDeliver
    /\ queue' = (queue \ {q}) \cup {[m |-> q.m, count |-> q.count + 1]}
    /\ taken' = taken \cup {q.m}
    /\ task' = [task EXCEPT ![h] = [at |-> "load", m |-> q.m]]
    /\ overlapped' = IF Overlaps(q.m) THEN overlapped \cup {q.m.doc} ELSE overlapped
    /\ UNCHANGED <<database, counted, index, watching, lost, torn, uncounted>>

\* The progress of a handler does not reach the queue for ack_wait.
AckWaitEnds(m) ==
    /\ m \in taken
    /\ taken' = taken \ {m}
    /\ UNCHANGED <<database, counted, index, watching, queue, task, history>>

Ack(h) ==
    /\ queue' = {q \in queue : q.m # task[h].m}
    /\ taken' = taken \ {task[h].m}
    /\ task' = [task EXCEPT ![h] = Idle]

Nak(h) ==
    /\ taken' = taken \ {task[h].m}
    /\ task' = [task EXCEPT ![h] = Idle]
    /\ UNCHANGED queue

\* The message that fails now is not delivered again.
GivenUp(h) ==
    IF \E q \in queue : q.m = task[h].m /\ q.count = MaxDeliver THEN {DocOf(h)} ELSE {}

\* An error of MongoDB, Typesense or ClickHouse, or a process that ends.
Fails(h) ==
    /\ task[h] # Idle
    /\ Nak(h)
    /\ lost' = lost \cup GivenUp(h)
    /\ uncounted' = (uncounted \/ (DocOf(h) = "user" /\ task[h].at \in {"upsert", "mark"}
                                   /\ task[h].sees # task[h].cached))
    /\ UNCHANGED <<database, counted, index, watching, overlapped, torn>>

-----------------------------------------------------------------------------
(* The handlers. *)

HandleDelete(h) ==
    /\ task[h].at = "load"
    /\ task[h].m.op = "delete"
    /\ index[DocOf(h)] # 0
    /\ index' = [index EXCEPT ![DocOf(h)] = 0]
    /\ Ack(h)
    /\ UNCHANGED <<database, counted, watching, history>>

\* A copy that is not there cannot be deleted, a document that is gone not loaded:
\* both are errors, and the message comes back until it is given up.
NotFound(h) ==
    /\ task[h].at = "load"
    /\ IF task[h].m.op = "delete" THEN index[DocOf(h)] = 0 ELSE DocOf(h) \notin alive
    /\ Nak(h)
    /\ UNCHANGED <<database, counted, index, watching, history>>

\* Somebody else has indexed this state.
AlreadyIndexed(h) ==
    /\ task[h].at = "load"
    /\ task[h].m.op = "change"
    /\ DocOf(h) \in alive \cap marked
    /\ Ack(h)
    /\ UNCHANGED <<database, counted, index, watching, history>>

Load(h) ==
    /\ task[h].at = "load"
    /\ task[h].m.op = "change"
    /\ DocOf(h) \in alive \ marked
    /\ task' = [task EXCEPT ![h] =
                   IF DocOf(h) = "set"
                   THEN [at |-> "upsert", m |-> task[h].m, stamp |-> stamp["set"], touched |-> touched]
                   ELSE [at |-> "loadset", m |-> task[h].m, stamp |-> stamp["user"], cached |-> cached]]
    /\ UNCHANGED <<database, counted, index, watching, delivery, history>>

\* Wrong variant: all emotes of the set are counted again.
LoadSetCountsAll(h) ==
    LET sees == "set" \in alive /\ holds
    IN /\ task[h].at = "loadset"
       /\ counted' = counted + IF sees THEN 1 ELSE 0
       /\ task' = [task EXCEPT ![h] = [at |-> "upsert", m |-> task[h].m, stamp |-> task[h].stamp,
                                       cached |-> task[h].cached, sees |-> sees]]
       /\ UNCHANGED <<database, index, watching, delivery, history>>

\* The emotes of the active set; the difference to the cached ones is counted.
LoadSet(h) ==
    LET sees == "set" \in alive /\ holds
        one(b) == IF b THEN 1 ELSE 0
    IN /\ task[h].at = "loadset"
       /\ counted' = counted + one(sees) - one(task[h].cached)
       /\ task' = [task EXCEPT ![h] = [at |-> "upsert", m |-> task[h].m, stamp |-> task[h].stamp,
                                       cached |-> task[h].cached, sees |-> sees]]
       /\ UNCHANGED <<database, index, watching, delivery, history>>

Upsert(h) ==
    /\ task[h].at = "upsert"
    /\ index' = [index EXCEPT ![DocOf(h)] = task[h].stamp]
    /\ task' = [task EXCEPT ![h].at = "mark"]
    /\ UNCHANGED <<database, counted, watching, delivery, history>>

\* The document is as it was read: the filter on _id and updated_at.
Unchanged(h) == DocOf(h) \in alive /\ stamp[DocOf(h)] = task[h].stamp

\* Wrong variant: without the filter on updated_at.
MarkUserAlways(h) ==
    /\ task[h].at = "mark"
    /\ DocOf(h) = "user"
    /\ marked' = marked \cup {"user"}
    /\ cached' = task[h].sees
    /\ Ack(h)
    /\ UNCHANGED <<stamp, alive, holds, touched, counted, index, watching, history>>

\* The update is published if more than search_updated_at has changed: its message
\* finds the user marked, so it is left out.
MarkUser(h) ==
    /\ task[h].at = "mark"
    /\ DocOf(h) = "user"
    /\ IF Unchanged(h)
       THEN marked' = marked \cup {"user"} /\ cached' = task[h].sees /\ UNCHANGED uncounted
       ELSE /\ UNCHANGED <<marked, cached>>
            /\ uncounted' = (uncounted \/ (task[h].sees # task[h].cached))
    /\ Ack(h)
    /\ UNCHANGED <<stamp, alive, holds, touched, counted, index, watching, lost, overlapped, torn>>

\* Wrong variant: without the filter on updated_at.
MarkSetAlways(h, ok) ==
    LET told == IF "users" \in ok /\ task[h].touched THEN alive \cap {"user"} ELSE {}
    IN /\ task[h].at = "mark"
       /\ DocOf(h) = "set"
       /\ stamp' = [stamp EXCEPT !["user"] = @ + Cardinality(told)]
       /\ marked' = (marked \cup {"set"}) \ told
       /\ touched' = (touched /\ ~task[h].touched)
       /\ ok = {"set", "users"}
       /\ taken' = taken \ {task[h].m}
       /\ task' = [task EXCEPT ![h] = Idle]
       /\ queue' = {q \in queue : q.m # task[h].m} \cup Sent(told, "change")
       /\ lost' = lost \cup Unseen(told)
       /\ UNCHANGED <<alive, holds, cached, counted, index, watching, overlapped, torn, uncounted>>

\* One bulk write: the set, and if its emotes had changed the users who have it
\* active.  Each part may fail by itself, and then the message comes back.
MarkSet(h, ok) ==
    LET told == IF "users" \in ok /\ task[h].touched THEN alive \cap {"user"} ELSE {}
        itself == IF "set" \in ok /\ Unchanged(h) THEN {"set"} ELSE {}
        whole == ok = {"set", "users"}
    IN /\ task[h].at = "mark"
       /\ DocOf(h) = "set"
       /\ stamp' = [stamp EXCEPT !["user"] = @ + Cardinality(told)]
       /\ marked' = (marked \cup itself) \ told
       /\ touched' = (touched /\ ~(itself # {} /\ task[h].touched))
       /\ torn' = (torn \/ (itself # {} /\ task[h].touched /\ ~whole))
       /\ taken' = taken \ {task[h].m}
       /\ task' = [task EXCEPT ![h] = Idle]
       /\ queue' = {q \in queue : ~whole \/ q.m # task[h].m} \cup Sent(told, "change")
       /\ lost' = lost \cup Unseen(told) \cup IF whole THEN {} ELSE GivenUp(h)
       /\ UNCHANGED <<alive, holds, cached, counted, index, watching, overlapped, uncounted>>

Next ==
    \/ StreamStops
    \/ \E d \in Doc : Delete(d) \/ \E emotes \in BOOLEAN : Change(d, emotes)
    \/ \E m \in taken : AckWaitEnds(m)
    \/ \E h \in Handler :
           \/ \E q \in queue : Take(h, q)
           \/ Fails(h) \/ HandleDelete(h) \/ NotFound(h) \/ AlreadyIndexed(h)
           \/ Load(h) \/ LoadSet(h) \/ Upsert(h) \/ MarkUser(h)
           \/ \E ok \in SUBSET {"set", "users"} : MarkSet(h, ok)

Spec == Init /\ [][Next]_vars

-----------------------------------------------------------------------------
(* Properties. *)

\* No handler runs and no message will be delivered.
Quiet ==
    /\ \A h \in Handler : task[h] = Idle
    /\ \A q \in queue : q.count = MaxDeliver /\ q.m \notin taken

\* When the queue is done the index has the last state of every document, and
\* nothing of the deleted ones, unless two handlers were at one document, the
\* change stream was down or a message was given up after errors.
IndexFollows ==
    Quiet => \A d \in Doc \ (lost \cup overlapped) :
                 index[d] = IF d \in alive THEN stamp[d] ELSE 0

\* The emotes cached in a user are those of the active set, however the handlers
\* of the two documents meet, unless a change was lost, the set was deleted, or
\* only one half of the bulk write came through.
CacheFollows ==
    Quiet /\ ~torn /\ lost = {} /\ alive = Doc => cached = holds

\* The statistics count an emote once for each user who has it, unless a handler
\* counted and then did not write the user, or two of them counted the same.
CountsFollow ==
    uncounted \/ "user" \in overlapped \/ (\E h \in Handler : task[h] # Idle /\ DocOf(h) = "user")
    \/ counted = IF cached THEN 1 ELSE 0

\* The three together: what a search finds and ranks by is what the documents say.
SearchFollows == IndexFollows /\ CacheFollows /\ CountsFollow
=============================================================================
