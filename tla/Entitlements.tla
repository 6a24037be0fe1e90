----------------------------- MODULE Entitlements -----------------------------
(***************************************************************************)
(* The entitlements cached in a user.  An entitlement is an edge of a      *)
(* graph (shared/src/database/entitlement_edge.rs); what a user has is     *)
(* what can be reached from him and from the group everybody is in.        *)
(* Handlers of the search pipeline (mongo-typesense/src/typesense/         *)
(* handlers.rs) walk the graph and write what they find into the user,     *)
(* with the highest rank of the roles, for fast loads to read.             *)
(*                                                                         *)
(* How messages get lost or given up is in SearchIndex; here one stays in  *)
(* the queue until it is handled.  Two messages of one document are one:   *)
(* the second finds what the first has left.                               *)
(***************************************************************************)
EXTENDS Integers

CONSTANTS User, Role,
          Grant,      \* the other nodes that lead on: products, benefits, special events
          Item,       \* nodes that do not: badges, paints, emote sets
          Group,      \* the global default entitlement group
          Links,      \* the edges that may be made
          MaxRank,
          MaxChanges, \* bound on the changes by the rest of the system
          Handler     \* spawned tasks

VARIABLES
    edges,
    rank, applied,  \* of roles: the rank, and the one their users were last marked for
    marked,         \* users and roles whose search_updated_at is later than updated_at
    cached, top,    \* of users: the cached entitlements and role rank
    queue,          \* edges, users and roles with a message
    task,           \* task[h]: the document, the await it is at, and what it has read
    missed,         \* history: users written by a handler that something had changed behind
    changes,
    unranked        \* history: roles marked and their users not, or given back the rank they had

entitlementVars == <<edges, rank, applied, marked, cached, top, queue, task, missed, changes, unranked>>

Node == User \cup Role \cup Grant \cup Item \cup {Group}
Idle == [at |-> "idle"]

Targets(S) == {e[2] : e \in S}

\* `has_outbound`.
LeadsOn(n) == n \notin Item

Start(u) == {u, Group}

\* `role_rank`, 0 for one who has no role.
TopOf(nodes) ==
    LET ranks == {rank[r] : r \in nodes \cap Role}
    IN  IF ranks = {} THEN 0 ELSE CHOOSE n \in ranks : \A k \in ranks : k <= n

\* The nodes whose edges count for a user of whom some nodes are found.
Sources(u, nodes) == Start(u) \cup {n \in nodes : LeadsOn(n)}

\* What a user has: all that can be reached, the least that no edge leads out of.
Closed(u, nodes) == Targets({e \in edges : e[1] \in Sources(u, nodes)}) \subseteq nodes
Reached(u) == {n \in Node : \A nodes \in SUBSET Node : Closed(u, nodes) => n \in nodes}

\* The graph is any, and everything is up to date.
Init ==
    /\ edges \in SUBSET Links /\ queue = {}
    /\ rank = [r \in Role |-> 1] /\ applied = rank
    /\ marked = User \cup Role
    /\ cached = [u \in User |-> Reached(u)] /\ top = [u \in User |-> TopOf(Reached(u))]
    /\ task = [h \in Handler |-> Idle]
    /\ missed = {} /\ unranked = {} /\ changes = 0

-----------------------------------------------------------------------------
(* The rest of the system. *)

\* An edge is made or taken away; each is a message of its own.
ChangeEdge(e) ==
    /\ changes < MaxChanges /\ changes' = changes + 1
    /\ edges' = IF e \in edges THEN edges \ {e} ELSE edges \cup {e}
    /\ queue' = queue \cup {e}
    /\ UNCHANGED <<rank, applied, marked, cached, top, task, missed, unranked>>

\* An unordered bulk write: each part comes through or fails by itself.
Outcomes(parts) == SUBSET parts

\* Documents that get a new updated_at: whoever works on one will not find it as he read it.
Told(T, docs) == [h \in Handler |-> IF T[h] # Idle /\ T[h].doc \in docs
                                    THEN [T[h] EXCEPT !.fresh = FALSE] ELSE T[h]]

Bump(docs) == marked' = marked \ docs

\* A rank, changed by hand: the mutation for it is not implemented yet.
Rerank(r, n) ==
    /\ changes < MaxChanges /\ changes' = changes + 1
    /\ n # rank[r] /\ rank' = [rank EXCEPT ![r] = n]
    /\ Bump({r})
    /\ queue' = queue \cup {r}
    /\ task' = Told(task, {r})
    /\ unranked' = IF n = applied[r] THEN unranked \cup {r} ELSE unranked
    /\ UNCHANGED <<edges, applied, cached, top, missed>>

-----------------------------------------------------------------------------
(* Edges. *)

At(h, at) == task[h].at = at
OnUser(h) == task[h] # Idle /\ task[h].doc \in User

\* The nodes whose edges a handler of a user has read.
Visited(h) ==
    Sources(task[h].doc, Targets(task[h].read)) \ task[h].next

\* The users whose cached entitlements an edge may change, by what is cached.
UsersOf(e) ==
    CASE e[1] \in User  -> {e[1]}
      [] e[1] = Group   -> User
      [] OTHER          -> {u \in User : e[1] \in cached[u]}

\* A handler has read past the edge and is at a user who is not told.
Misses(h, e, docs) ==
    /\ OnUser(h) /\ task[h].doc \notin docs
    /\ e[1] \in Visited(h) /\ (e \in edges) # (e \in task[h].read)

\* Wrong variant: only who has the edge himself is told.
HandleEdgeDirect(e, ok) ==
    LET docs == IF e[1] \in User THEN {e[1]} ELSE IF e[1] = Group THEN User ELSE {}
    IN  /\ e \in queue /\ ok = {"doc", "users"}
        /\ Bump(docs)
        /\ queue' = (queue \ {e}) \cup docs
        /\ task' = Told(task, docs)
        /\ UNCHANGED <<edges, rank, applied, cached, top, missed, unranked, changes>>

\* One bulk write: the document the edge comes from, and the users who have it.  If a part
\* fails the message comes back.
HandleEdge(e, ok) ==
    LET users == IF "users" \in ok THEN UsersOf(e) ELSE {}
        docs  == users \cup IF "doc" \in ok THEN {e[1]} \cap Role ELSE {}
        whole == ok = {"doc", "users"}
    IN  /\ e \in queue
        /\ Bump(docs)
        /\ queue' = (IF whole THEN queue \ {e} ELSE queue) \cup docs
        /\ task' = [h \in Handler |->
                       IF "users" \in ok /\ Misses(h, e, users)
                       THEN [task[h] EXCEPT !.missed = TRUE] ELSE Told(task, docs)[h]]
        /\ UNCHANGED <<edges, rank, applied, cached, top, missed, unranked, changes>>

-----------------------------------------------------------------------------
(* Users and roles. *)

\* Somebody else has handled this state.
AlreadyIndexed(d) ==
    /\ d \in queue \cap marked
    /\ queue' = queue \ {d}
    /\ UNCHANGED <<edges, rank, applied, marked, cached, top, task, missed, unranked, changes>>

Load(h, d) ==
    /\ task[h] = Idle /\ d \in queue \ marked /\ d \in User \cup Role
    /\ queue' = queue \ {d}
    /\ task' = [task EXCEPT ![h] =
           IF d \in User
           THEN [doc |-> d, at |-> "walk", fresh |-> TRUE, missed |-> FALSE, read |-> {}, next |-> Start(d),
                 cached |-> cached[d], top |-> top[d], newTop |-> 0]
           ELSE [doc |-> d, at |-> "apply", fresh |-> TRUE, rank |-> rank[d], changed |-> applied[d] # rank[d]]]
    /\ UNCHANGED <<edges, rank, applied, marked, cached, top, missed, unranked, changes>>

\* An error, or the end of the process: the message comes back.
Fails(h) ==
    /\ task[h] # Idle
    /\ queue' = queue \cup {task[h].doc}
    /\ task' = [task EXCEPT ![h] = Idle]
    /\ UNCHANGED <<edges, rank, applied, marked, cached, top, missed, unranked, changes>>

\* The progress of the handler is late: the message comes back while it works on.
AckWaitEnds(h) ==
    /\ task[h] # Idle
    /\ queue' = queue \cup {task[h].doc}
    /\ UNCHANGED <<edges, rank, applied, marked, cached, top, task, missed, unranked, changes>>

\* Wrong variant: what the user has himself.
WalkOnce(h) ==
    LET new == {e \in edges : e[1] \in task[h].next}
    IN  /\ At(h, "walk")
        /\ task' = [task EXCEPT ![h].read = @ \cup new, ![h].next = {}, ![h].at = "roles"]
        /\ UNCHANGED <<edges, rank, applied, marked, cached, top, queue, missed, unranked, changes>>

\* `traversal`: the edges out of all nodes found last, in one query, and then those of the
\* nodes these lead to that have not been visited.
Walk(h) ==
    LET new  == {e \in edges : e[1] \in task[h].next}
        next == {n \in Targets(new) : LeadsOn(n) /\ n \notin Visited(h) \cup task[h].next}
    IN  /\ At(h, "walk")
        /\ task' = [task EXCEPT ![h].read = @ \cup new, ![h].next = next,
                                ![h].at = IF next = {} THEN "roles" ELSE "walk"]
        /\ UNCHANGED <<edges, rank, applied, marked, cached, top, queue, missed, unranked, changes>>

LoadRoles(h) ==
    /\ At(h, "roles")
    /\ task' = [task EXCEPT ![h].newTop = TopOf(Targets(task[h].read)), ![h].at = "write"]
    /\ UNCHANGED <<edges, rank, applied, marked, cached, top, queue, missed, unranked, changes>>

\* Wrong variant: without the filter on updated_at.
WriteAlways(h) ==
    LET u == task[h].doc
        found == Targets(task[h].read)
    IN  /\ At(h, "write")
        /\ cached' = [cached EXCEPT ![u] = IF found # task[h].cached THEN found ELSE @]
        /\ top' = [top EXCEPT ![u] = IF task[h].newTop # task[h].top THEN task[h].newTop ELSE @]
        /\ marked' = marked \cup {u}
        /\ missed' = IF task[h].missed THEN missed \cup {u}
                     ELSE IF cached'[u] = found /\ top'[u] = task[h].newTop THEN missed \ {u}
                     ELSE missed
        /\ task' = [task EXCEPT ![h] = Idle]
        /\ UNCHANGED <<edges, rank, applied, queue, unranked, changes>>

\* The user is written if he is as he was read, and that counts as his being up to date.
Write(h) ==
    IF At(h, "write") /\ ~task[h].fresh
    THEN /\ task' = [task EXCEPT ![h] = Idle]
         /\ UNCHANGED <<edges, rank, applied, marked, cached, top, queue, missed, unranked, changes>>
    ELSE WriteAlways(h)

\* Wrong variant: users are not told of the new rank.
ApplyQuietly(h, ok) ==
    LET r == task[h].doc
    IN  /\ At(h, "apply") /\ ok = {"role", "users"}
        /\ marked' = IF task[h].fresh THEN marked \cup {r} ELSE marked
        /\ applied' = IF task[h].fresh THEN [applied EXCEPT ![r] = task[h].rank] ELSE applied
        /\ task' = [task EXCEPT ![h] = Idle]
        /\ UNCHANGED <<edges, rank, cached, top, queue, missed, unranked, changes>>

\* One bulk write: the role, if it is as it was read, and the users who have it, if the
\* rank is a new one.
Apply(h, ok) ==
    LET r == task[h].doc
        users == IF "users" \in ok /\ task[h].changed THEN {u \in User : r \in cached[u]} ELSE {}
        itself == "role" \in ok /\ task[h].fresh
        whole == ok = {"role", "users"}
        Late(k) == /\ OnUser(k) /\ task[k].doc \notin users /\ At(k, "write")
                   /\ task[k].newTop # TopOf(Targets(task[k].read))
    IN  /\ At(h, "apply")
        /\ marked' = (marked \cup IF itself THEN {r} ELSE {}) \ users
        /\ applied' = IF itself /\ task[h].changed THEN [applied EXCEPT ![r] = task[h].rank] ELSE applied
        /\ queue' = queue \cup users \cup IF whole THEN {} ELSE {r}
        /\ unranked' = IF ~task[h].changed THEN unranked
                       ELSE IF whole THEN unranked \ {r}
                       ELSE IF itself THEN unranked \cup {r} ELSE unranked
        /\ task' = [k \in Handler |->
                       IF k = h THEN Idle
                       ELSE IF Late(k) THEN [task[k] EXCEPT !.missed = TRUE] ELSE Told(task, users)[k]]
        /\ UNCHANGED <<edges, rank, cached, top, missed, changes>>

Next ==
    \/ \E e \in Links : ChangeEdge(e)
    \/ \E e \in queue \cap Links, ok \in Outcomes({"doc", "users"}) : HandleEdge(e, ok)
    \/ \E r \in Role, n \in 1 .. MaxRank : Rerank(r, n)
    \/ \E d \in User \cup Role : AlreadyIndexed(d)
    \/ \E h \in Handler :
        \/ \E d \in User \cup Role : Load(h, d)
        \/ Fails(h) \/ AckWaitEnds(h)
        \/ Walk(h) \/ LoadRoles(h) \/ Write(h)
        \/ \E ok \in Outcomes({"role", "users"}) : Apply(h, ok)

Spec == Init /\ [][Next]_entitlementVars

-----------------------------------------------------------------------------
(* Properties. *)

Quiet == queue = {} /\ \A h \in Handler : task[h] = Idle

\* When the queue is done, what is cached in a user is what he has, however the handlers of
\* edges, roles and users met, unless one wrote what another had no way to tell him of:
\* an edge changed behind it, and the node it comes from was not cached yet
\* (handlers.rs:466).  The rank is right too, unless only one half of the bulk write of a role
\* came through, or the role was given another rank and back before its handler came.
CacheFollows ==
    Quiet => \A u \in User \ missed :
                /\ cached[u] = Reached(u)
                /\ Reached(u) \cap unranked = {} => top[u] = TopOf(Reached(u))
=============================================================================
