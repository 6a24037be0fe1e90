------------------------------ MODULE CdnCache ------------------------------
(***************************************************************************)
(* The response cache of apps/cdn/src/cache/mod.rs and the purge worker of *)
(* apps/cdn/src/cdn_purge.rs, for one key.  A request that misses either   *)
(* joins the in-flight entry or creates it; the creator looks at the cache *)
(* once more and spawns a task that asks the origin, stores the answer,    *)
(* wakes those who joined and removes the entry.  A request is also the    *)
(* name of the in-flight entry it creates.                                 *)
(***************************************************************************)
EXTENDS Naturals

CONSTANTS Req,          \* the requests for the key
          None,         \* no value, no entry
          Error,        \* CachedData::InternalServerError
          MaxVersion    \* bound on the changes of the object at the origin

ASSUME ConstAssumption ==
    /\ None \notin Nat /\ Error \notin Nat /\ None # Error
    /\ None \notin Req
    /\ MaxVersion \in Nat

VARIABLES
    origin,     \* version of the object at the origin; 0: no such key
    queue,      \* purge messages not yet acknowledged, by version purged for
    cached,     \* version in the moka cache, or None
    inflight,   \* the in-flight entry of the key, or None
    pc,         \* pc[r]: the handler
    on,         \* on[r]: the entry the handler has joined
    task,       \* task[r]: the spawned task of entry r
    val,        \* val[r]: what the task of entry r got from the origin
    resp,       \* resp[r]: the OnceCell of entry r
    token,      \* the entries whose token is cancelled
    answer,     \* answer[r]: what the handler returned
    purged,     \* history: highest version a purge was executed for
    raced,      \* history: the last purge met a fetch past its read
    leaked      \* history: entries left in the map for ever

vars == <<origin, queue, cached, inflight, pc, on, task, val, resp, token, answer,
          purged, raced, leaked>>

entry == <<on, val, resp, token, inflight, leaked>>
store == <<origin, queue, cached, purged, raced>>

Version == 0..MaxVersion

Init ==
    /\ origin = 0
    /\ queue = {}
    /\ cached = None
    /\ inflight = None
    /\ pc = [r \in Req |-> "idle"]
    /\ on = [r \in Req |-> None]
    /\ task = [r \in Req |-> "none"]
    /\ val = [r \in Req |-> None]
    /\ resp = [r \in Req |-> None]
    /\ token = {}
    /\ answer = [r \in Req |-> None]
    /\ purged = 0
    /\ raced = FALSE
    /\ leaked = {}

Goto(r, label) == pc' = [pc EXCEPT ![r] = label]

Advance(r, label) == task' = [task EXCEPT ![r] = label]

Reply(r, v) ==
    /\ Goto(r, "done")
    /\ answer' = [answer EXCEPT ![r] = v]

\* The steps of a task between the spawn and the removal of the entry.
Fetching == {"queued", "reading", "fetched", "answered", "inserted", "removing"}

-----------------------------------------------------------------------------
(* handle_request *)

\* The first look at the cache.
Lookup(r) ==
    /\ pc[r] = "idle"
    /\ IF cached # None
       THEN Reply(r, cached)
       ELSE Goto(r, "missed") /\ UNCHANGED answer
    /\ UNCHANGED <<store, entry, task>>

\* Wrong variant: a new entry replaces the one in flight.
JoinAlwaysInserts(r) ==
    /\ pc[r] = "missed"
    /\ inflight' = r
    /\ Goto(r, "rebound")
    /\ UNCHANGED <<store, on, val, resp, token, leaked, task, answer>>

\* entry_async(key).or_insert_with(..)
Join(r) ==
    /\ pc[r] = "missed"
    /\ IF inflight = None
       THEN /\ inflight' = r
            /\ Goto(r, "rebound")
            /\ UNCHANGED on
       ELSE /\ on' = [on EXCEPT ![r] = inflight]
            /\ Goto(r, "wait")
            /\ UNCHANGED inflight
    /\ UNCHANGED <<store, val, resp, token, leaked, task, answer>>

\* Wrong variant: the woken request asks the cache instead of the entry.
WokenReadsCache(r) ==
    /\ pc[r] = "wait"
    /\ on[r] \in token
    /\ Reply(r, IF cached = None THEN Error ELSE cached)
    /\ UNCHANGED <<store, entry, task>>

\* A request that joined is woken by the token and takes the entry's response.
Woken(r) ==
    /\ pc[r] = "wait"
    /\ on[r] \in token
    /\ Reply(r, IF resp[on[r]] = None THEN Error ELSE resp[on[r]])
    /\ UNCHANGED <<store, entry, task>>

\* Wrong variant: the creator does not look at the cache again.
ReboundBlindly(r) ==
    /\ pc[r] = "rebound"
    /\ Advance(r, "queued")
    /\ Goto(r, "spawned")
    /\ UNCHANGED <<store, entry, answer>>

\* The creator looks at the cache again: a hit is given to those who joined and
\* disarm() cancels the token, a miss spawns the task.
Rebound(r) ==
    /\ pc[r] = "rebound"
    /\ IF cached # None
       THEN /\ resp' = [resp EXCEPT ![r] = cached]
            /\ token' = token \cup {r}
            /\ Goto(r, "removing")
            /\ UNCHANGED task
       ELSE /\ task' = [task EXCEPT ![r] = "queued"]
            /\ Goto(r, "spawned")
            /\ UNCHANGED <<resp, token>>
    /\ UNCHANGED <<store, on, val, inflight, leaked, answer>>

\* disarm()'s remove_async, in the handler.
Removed(r) ==
    /\ pc[r] = "removing"
    /\ inflight' = None
    /\ Reply(r, resp[r])
    /\ UNCHANGED <<store, on, val, resp, token, leaked, task>>

\* The handler that spawned the task awaits it.
TaskAwaited(r) ==
    /\ pc[r] = "spawned"
    /\ task[r] \in {"finished", "panicked"}
    /\ Reply(r, IF task[r] = "finished" THEN val[r] ELSE Error)
    /\ UNCHANGED <<store, entry, task>>

\* Wrong variant: the guard removes the entry and does not cancel the token.
DropHandlerSilently(r) ==
    /\ pc[r] \in {"missed", "wait", "rebound", "spawned"}
    /\ Goto(r, "dropped")
    /\ inflight' = IF pc[r] = "rebound" THEN None ELSE inflight
    /\ UNCHANGED <<store, on, val, resp, token, leaked, task, answer>>

\* The client disconnects and the handler is dropped.  Before the spawn the
\* PanicDropGuard wakes those who joined and removes the entry.  In disarm() the
\* guard is already empty: if remove_async has not got the bucket, the entry
\* stays.  A spawned task goes on.
DropHandler(r) ==
    /\ pc[r] \in {"missed", "wait", "rebound", "removing", "spawned"}
    /\ Goto(r, "dropped")
    /\ token' = IF pc[r] = "rebound" THEN token \cup {r} ELSE token
    /\ inflight' = IF pc[r] = "rebound" THEN None ELSE inflight
    /\ leaked' = IF pc[r] = "removing" THEN leaked \cup {r} ELSE leaked
    /\ UNCHANGED <<store, on, val, resp, task, answer>>

-----------------------------------------------------------------------------
(* The spawned task. *)

\* request_limiter: a permit is granted; other keys compete for it.
Permit(r) ==
    /\ task[r] = "queued"
    /\ Advance(r, "reading")
    /\ UNCHANGED <<store, entry, pc, answer>>

\* The origin reads the object; the answer is on its way.
OriginReads(r) ==
    /\ task[r] = "reading"
    /\ val' = [val EXCEPT ![r] = origin]
    /\ Advance(r, "fetched")
    /\ UNCHANGED <<store, on, resp, token, inflight, leaked, pc, answer>>

\* A timeout or an S3 error: a response with max_age zero.
OriginFails(r) ==
    /\ task[r] \in {"reading", "fetched"}
    /\ val' = [val EXCEPT ![r] = Error]
    /\ resp' = [resp EXCEPT ![r] = Error]
    /\ Advance(r, "answered")
    /\ UNCHANGED <<store, on, token, inflight, leaked, pc, answer>>

\* response.set(cached)
SetResponse(r) ==
    /\ task[r] = "fetched"
    /\ resp' = [resp EXCEPT ![r] = val[r]]
    /\ Advance(r, "answered")
    /\ UNCHANGED <<store, on, val, token, inflight, leaked, pc, answer>>

\* The answer enters the cache unless its max_age is zero.
Insert(r) ==
    /\ task[r] = "answered"
    /\ cached' = IF val[r] = Error THEN cached ELSE val[r]
    /\ Advance(r, "inserted")
    /\ UNCHANGED <<origin, queue, purged, raced, entry, pc, answer>>

\* Wrong variant: the token is not cancelled.
DisarmSilently(r) ==
    /\ task[r] = "inserted"
    /\ Advance(r, "removing")
    /\ UNCHANGED <<store, entry, pc, answer>>

\* disarm(): the token is cancelled ..
Disarm(r) ==
    /\ task[r] = "inserted"
    /\ token' = token \cup {r}
    /\ Advance(r, "removing")
    /\ UNCHANGED <<store, on, val, resp, inflight, leaked, pc, answer>>

\* Wrong variant: the entry is not removed.
FinishKeepsEntry(r) ==
    /\ task[r] = "removing"
    /\ Advance(r, "finished")
    /\ UNCHANGED <<store, entry, pc, answer>>

\* .. and the entry is removed.
Finish(r) ==
    /\ task[r] = "removing"
    /\ inflight' = None
    /\ Advance(r, "finished")
    /\ UNCHANGED <<store, on, val, resp, token, leaked, pc, answer>>

\* The task panics before disarm(): the guard wakes the others and removes the
\* entry, the handler answers with a general error.
Panic(r) ==
    /\ task[r] \in {"queued", "reading", "fetched", "answered", "inserted"}
    /\ token' = token \cup {r}
    /\ inflight' = None
    /\ Advance(r, "panicked")
    /\ UNCHANGED <<store, on, val, resp, leaked, pc, answer>>

-----------------------------------------------------------------------------
(* The origin, the purge worker and the eviction of the cache. *)

\* The object changes at the origin and a purge of the key is requested.
Change ==
    /\ origin < MaxVersion
    /\ origin' = origin + 1
    /\ queue' = queue \cup {origin + 1}
    /\ UNCHANGED <<cached, purged, raced, entry, task, pc, answer>>

\* A fetch has read the object and has not entered it in the cache yet.
PastRead(r) == task[r] \in {"fetched", "answered"}

\* Wrong variant: the message is handled and the key is not invalidated.
PurgeNothing(v) ==
    /\ v \in queue
    /\ purged' = IF v > purged THEN v ELSE purged
    /\ raced' = (\E r \in Req : PastRead(r))
    /\ UNCHANGED <<origin, queue, cached, entry, task, pc, answer>>

\* cdn_purge::run: the key is invalidated; a message may be delivered again.
Purge(v) ==
    /\ v \in queue
    /\ cached' = None
    /\ purged' = IF v > purged THEN v ELSE purged
    /\ raced' = (\E r \in Req : PastRead(r))
    /\ UNCHANGED <<origin, queue, entry, task, pc, answer>>

\* The message is acknowledged after the response was published.
AckPurge(v) ==
    /\ v \in queue
    /\ v <= purged
    /\ queue' = queue \ {v}
    /\ UNCHANGED <<origin, cached, purged, raced, entry, task, pc, answer>>

\* max_age has passed, or the cache is full.
Evict ==
    /\ cached # None
    /\ cached' = None
    /\ UNCHANGED <<origin, queue, purged, raced, entry, task, pc, answer>>

-----------------------------------------------------------------------------

Handler(r) ==
    Lookup(r) \/ Join(r) \/ Woken(r) \/ Rebound(r) \/ Removed(r) \/ TaskAwaited(r)

Task(r) ==
    \/ Permit(r) \/ OriginReads(r) \/ OriginFails(r) \/ SetResponse(r) \/ Insert(r)
    \/ Disarm(r) \/ Finish(r)

Next ==
    \/ \E r \in Req : Handler(r) \/ Task(r) \/ DropHandler(r) \/ Panic(r)
    \/ Change \/ Evict
    \/ \E v \in Version : Purge(v) \/ AckPurge(v)

Spec == Init /\ [][Next]_vars

\* The runtime polls every handler and task; an origin request ends because of
\* its timeout, a permit comes because every holder's request ends.
Fairness == \A r \in Req : WF_vars(Handler(r)) /\ WF_vars(Task(r))

FairSpec == Spec /\ Fairness

-----------------------------------------------------------------------------
(* Properties. *)

TypeOK ==
    /\ origin \in Version
    /\ queue \subseteq Version
    /\ cached \in Version \cup {None}
    /\ inflight \in Req \cup {None}
    /\ pc \in [Req -> {"idle", "missed", "wait", "rebound", "removing", "spawned",
                       "done", "dropped"}]
    /\ on \in [Req -> Req \cup {None}]
    /\ task \in [Req -> Fetching \cup {"none", "finished", "panicked"}]
    /\ val \in [Req -> Version \cup {None, Error}]
    /\ resp \in [Req -> Version \cup {None, Error}]
    /\ token \subseteq Req
    /\ answer \in [Req -> Version \cup {None, Error}]
    /\ purged \in Version
    /\ raced \in BOOLEAN
    /\ leaked \subseteq Req

\* Requests are coalesced: at most one task at a time asks the origin for the key,
\* and none does for an answer that another request has put in the cache in the
\* meantime (mod.rs:144-161, the in-flight map, and 205-214, the second look).
OneFetch ==
    /\ \A r, s \in Req : (task[r] \in Fetching /\ task[s] \in Fetching) => r = s
    /\ \A r \in Req : task[r] \in {"queued", "reading", "fetched", "answered"} => cached = None

\* Somebody will wake every request that waits, whatever was dropped or panicked
\* (mod.rs:163-201, the drop guard).
WaiterHasWaker ==
    \A r \in Req : pc[r] = "wait" =>
        \/ on[r] \in token
        \/ pc[on[r]] = "rebound"
        \/ task[on[r]] \in Fetching \ {"removing"}

\* The in-flight entry belongs to a handler or task that will remove it, unless
\* its creator was dropped inside disarm() (mod.rs:170-177 and 209).
EntryHasOwner ==
    inflight # None =>
        \/ pc[inflight] \in {"rebound", "removing"}
        \/ task[inflight] \in Fetching
        \/ inflight \in leaked

\* A version that was purged is only served from the cache if the purge met a
\* fetch that had already read the origin (mod.rs:131-134 and 215-224).
StaleOnlyAfterRace == (cached # None /\ cached < purged) => raced

\* A request that joined an entry answers what the entry's creator answers, but
\* for errors on either side (mod.rs:159-160, 208, 219).
CoalescedAgree ==
    \A r, s \in Req :
        (on[r] = s /\ answer[r] \notin {None, Error} /\ answer[s] # None)
            => answer[s] \in {answer[r], Error}

\* Every request is answered, unless its client goes away (mod.rs:136-235).
RequestsAnswered == \A r \in Req : (pc[r] # "idle") ~> (pc[r] \in {"done", "dropped"})
=============================================================================
