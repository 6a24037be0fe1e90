--------------------------- MODULE CdnCacheProofs ---------------------------
(***************************************************************************)
(* Proofs about CdnCache, for any set of requests and number of changes.   *)
(***************************************************************************)
EXTENDS MCCdnCache, TLAPS

\* A creator that has not finished owns the in-flight entry: so there is one.
OwnerInv ==
    \A r \in Req :
        /\ (pc[r] \in {"rebound", "removing"} \/ task[r] \in Fetching) => inflight = r
        /\ pc[r] \in {"idle", "missed", "wait", "rebound", "removing"} => task[r] = "none"
        /\ pc[r] = "removing" => r \in token
        /\ task[r] = "removing" => r \in token

\* An entry in the map whose token is not cancelled has a creator at work.
EntryInv ==
    \A r \in Req :
        (inflight = r /\ r \notin token) =>
            pc[r] = "rebound" \/ task[r] \in Fetching \ {"removing"}

WaitInv == \A r \in Req : pc[r] = "wait" => on[r] \in Req

-----------------------------------------------------------------------------

THEOREM TypeCorrect == Spec => []TypeOK
<1>1. Init => TypeOK
  <2>1. 0 \in Version
    BY ConstAssumption DEF Version
  <2> QED
    BY <2>1 DEF Init, TypeOK, Fetching
<1>2. TypeOK /\ [Next]_vars => TypeOK'
  <2> SUFFICES ASSUME TypeOK, [Next]_vars PROVE TypeOK'
    OBVIOUS
  <2> USE ConstAssumption DEF TypeOK, Version, Fetching, entry, store
  <2>1. ASSUME NEW r \in Req, Lookup(r) PROVE TypeOK'
    BY <2>1 DEF Lookup, Reply, Goto
  <2>2. ASSUME NEW r \in Req, Join(r) PROVE TypeOK'
    BY <2>2 DEF Join, Goto
  <2>3. ASSUME NEW r \in Req, Woken(r) PROVE TypeOK'
    BY <2>3 DEF Woken, Reply, Goto
  <2>4. ASSUME NEW r \in Req, Rebound(r) PROVE TypeOK'
    BY <2>4 DEF Rebound, Goto
  <2>5. ASSUME NEW r \in Req, Removed(r) PROVE TypeOK'
    BY <2>5 DEF Removed, Reply, Goto
  <2>6. ASSUME NEW r \in Req, TaskAwaited(r) PROVE TypeOK'
    BY <2>6 DEF TaskAwaited, Reply, Goto
  <2>7. ASSUME NEW r \in Req, DropHandler(r) PROVE TypeOK'
    BY <2>7 DEF DropHandler, Goto
  <2>8. ASSUME NEW r \in Req, Permit(r) PROVE TypeOK'
    BY <2>8 DEF Permit, Advance
  <2>9. ASSUME NEW r \in Req, OriginReads(r) PROVE TypeOK'
    BY <2>9 DEF OriginReads, Advance
  <2>10. ASSUME NEW r \in Req, OriginFails(r) PROVE TypeOK'
    BY <2>10 DEF OriginFails, Advance
  <2>11. ASSUME NEW r \in Req, SetResponse(r) PROVE TypeOK'
    BY <2>11 DEF SetResponse, Advance
  <2>12. ASSUME NEW r \in Req, Insert(r) PROVE TypeOK'
    BY <2>12 DEF Insert, Advance
  <2>13. ASSUME NEW r \in Req, Disarm(r) PROVE TypeOK'
    BY <2>13 DEF Disarm, Advance
  <2>14. ASSUME NEW r \in Req, Finish(r) PROVE TypeOK'
    BY <2>14 DEF Finish, Advance
  <2>15. ASSUME NEW r \in Req, Panic(r) PROVE TypeOK'
    BY <2>15 DEF Panic, Advance
  <2>16. CASE Change
    BY <2>16 DEF Change
  <2>17. CASE Evict
    BY <2>17 DEF Evict
  <2>18. ASSUME NEW v \in Version, Purge(v) PROVE TypeOK'
    BY <2>18 DEF Purge
  <2>19. ASSUME NEW v \in Version, AckPurge(v) PROVE TypeOK'
    BY <2>19 DEF AckPurge
  <2>20. CASE UNCHANGED vars
    BY <2>20 DEF vars
  <2>21. QED
    BY <2>1, <2>2, <2>3, <2>4, <2>5, <2>6, <2>7, <2>8, <2>9, <2>10, <2>11,
       <2>12, <2>13, <2>14, <2>15, <2>16, <2>17, <2>18, <2>19, <2>20 DEF
       Next, Handler, Task
<1>3. QED
  BY <1>1, <1>2, PTL DEF Spec

-----------------------------------------------------------------------------
(* Coalescing. *)

LEMMA OwnerStep ==
  ASSUME TypeOK, OwnerInv, [Next]_vars
  PROVE  OwnerInv'
<1> USE ConstAssumption DEF TypeOK, Fetching, entry, store, OwnerInv
<1>1. ASSUME NEW r \in Req, Lookup(r) PROVE OwnerInv'
  BY <1>1 DEF Lookup, Reply, Goto
<1>2. ASSUME NEW r \in Req, Join(r) PROVE OwnerInv'
  BY <1>2 DEF Join, Goto
<1>3. ASSUME NEW r \in Req, Woken(r) PROVE OwnerInv'
  BY <1>3 DEF Woken, Reply, Goto
<1>4. ASSUME NEW r \in Req, Rebound(r) PROVE OwnerInv'
  BY <1>4 DEF Rebound, Goto
<1>5. ASSUME NEW r \in Req, Removed(r) PROVE OwnerInv'
  BY <1>5 DEF Removed, Reply, Goto
<1>6. ASSUME NEW r \in Req, TaskAwaited(r) PROVE OwnerInv'
  BY <1>6 DEF TaskAwaited, Reply, Goto
<1>7. ASSUME NEW r \in Req, DropHandler(r) PROVE OwnerInv'
  BY <1>7 DEF DropHandler, Goto
<1>8. ASSUME NEW r \in Req, Permit(r) PROVE OwnerInv'
  BY <1>8 DEF Permit, Advance
<1>9. ASSUME NEW r \in Req, OriginReads(r) PROVE OwnerInv'
  BY <1>9 DEF OriginReads, Advance
<1>10. ASSUME NEW r \in Req, OriginFails(r) PROVE OwnerInv'
  BY <1>10 DEF OriginFails, Advance
<1>11. ASSUME NEW r \in Req, SetResponse(r) PROVE OwnerInv'
  BY <1>11 DEF SetResponse, Advance
<1>12. ASSUME NEW r \in Req, Insert(r) PROVE OwnerInv'
  BY <1>12 DEF Insert, Advance
<1>13. ASSUME NEW r \in Req, Disarm(r) PROVE OwnerInv'
  BY <1>13 DEF Disarm, Advance
<1>14. ASSUME NEW r \in Req, Finish(r) PROVE OwnerInv'
  BY <1>14 DEF Finish, Advance
<1>15. ASSUME NEW r \in Req, Panic(r) PROVE OwnerInv'
  BY <1>15 DEF Panic, Advance
<1>16. CASE Change
  BY <1>16 DEF Change
<1>17. CASE Evict
  BY <1>17 DEF Evict
<1>18. ASSUME NEW v \in Version, Purge(v) PROVE OwnerInv'
  BY <1>18 DEF Purge
<1>19. ASSUME NEW v \in Version, AckPurge(v) PROVE OwnerInv'
  BY <1>19 DEF AckPurge
<1>20. CASE UNCHANGED vars
  BY <1>20 DEF vars
<1>21. QED
  BY <1>1, <1>2, <1>3, <1>4, <1>5, <1>6, <1>7, <1>8, <1>9, <1>10, <1>11,
     <1>12, <1>13, <1>14, <1>15, <1>16, <1>17, <1>18, <1>19, <1>20 DEF
     Next, Handler, Task

\* Only the task of the entry in the map fills the cache, and it fetches no more.
LEMMA FetchStep ==
  ASSUME TypeOK, OwnerInv, OneFetch, [Next]_vars
  PROVE  OneFetch'
<1>1. OwnerInv'
  BY OwnerStep
<1> DEFINE Asking(r) == task[r] \in {"queued", "reading", "fetched", "answered"}
<1>2. \A r \in Req : Asking(r)' => cached' = None
  <2> USE DEF TypeOK, Fetching, entry, store, OwnerInv, OneFetch
  <2>1. ASSUME NEW q \in Req, Lookup(q) PROVE \A r \in Req : Asking(r)' => cached' = None
    BY <2>1 DEF Lookup, Reply, Goto
  <2>2. ASSUME NEW q \in Req, Join(q) PROVE \A r \in Req : Asking(r)' => cached' = None
    BY <2>2 DEF Join, Goto
  <2>3. ASSUME NEW q \in Req, Woken(q) PROVE \A r \in Req : Asking(r)' => cached' = None
    BY <2>3 DEF Woken, Reply, Goto
  <2>4. ASSUME NEW q \in Req, Rebound(q) PROVE \A r \in Req : Asking(r)' => cached' = None
    BY <2>4 DEF Rebound, Goto
  <2>5. ASSUME NEW q \in Req, Removed(q) PROVE \A r \in Req : Asking(r)' => cached' = None
    BY <2>5 DEF Removed, Reply, Goto
  <2>6. ASSUME NEW q \in Req, TaskAwaited(q) PROVE \A r \in Req : Asking(r)' => cached' = None
    BY <2>6 DEF TaskAwaited, Reply, Goto
  <2>7. ASSUME NEW q \in Req, DropHandler(q) PROVE \A r \in Req : Asking(r)' => cached' = None
    BY <2>7 DEF DropHandler, Goto
  <2>8. ASSUME NEW q \in Req, Permit(q) PROVE \A r \in Req : Asking(r)' => cached' = None
    BY <2>8 DEF Permit, Advance
  <2>9. ASSUME NEW q \in Req, OriginReads(q) PROVE \A r \in Req : Asking(r)' => cached' = None
    BY <2>9 DEF OriginReads, Advance
  <2>10. ASSUME NEW q \in Req, OriginFails(q) PROVE \A r \in Req : Asking(r)' => cached' = None
    BY <2>10 DEF OriginFails, Advance
  <2>11. ASSUME NEW q \in Req, SetResponse(q) PROVE \A r \in Req : Asking(r)' => cached' = None
    BY <2>11 DEF SetResponse, Advance
  <2>12. ASSUME NEW q \in Req, Insert(q) PROVE \A r \in Req : Asking(r)' => cached' = None
    BY <2>12 DEF Insert, Advance
  <2>13. ASSUME NEW q \in Req, Disarm(q) PROVE \A r \in Req : Asking(r)' => cached' = None
    BY <2>13 DEF Disarm, Advance
  <2>14. ASSUME NEW q \in Req, Finish(q) PROVE \A r \in Req : Asking(r)' => cached' = None
    BY <2>14 DEF Finish, Advance
  <2>15. ASSUME NEW q \in Req, Panic(q) PROVE \A r \in Req : Asking(r)' => cached' = None
    BY <2>15 DEF Panic, Advance
  <2>16. CASE Change
    BY <2>16 DEF Change
  <2>17. CASE Evict
    BY <2>17 DEF Evict
  <2>18. ASSUME NEW v \in Version, Purge(v) PROVE \A r \in Req : Asking(r)' => cached' = None
    BY <2>18 DEF Purge
  <2>19. ASSUME NEW v \in Version, AckPurge(v) PROVE \A r \in Req : Asking(r)' => cached' = None
    BY <2>19 DEF AckPurge
  <2>20. CASE UNCHANGED vars
    BY <2>20 DEF vars
  <2>21. QED
    BY <2>1, <2>2, <2>3, <2>4, <2>5, <2>6, <2>7, <2>8, <2>9, <2>10, <2>11,
       <2>12, <2>13, <2>14, <2>15, <2>16, <2>17, <2>18, <2>19, <2>20 DEF
       Next, Handler, Task
<1>3. QED
  BY <1>1, <1>2 DEF OwnerInv, OneFetch

\* At most one task at a time asks the origin for the key, and none for what is cached.
THEOREM Coalescing == Spec => []OneFetch
<1>1. Init => OwnerInv /\ OneFetch
  BY ConstAssumption DEF Init, OwnerInv, OneFetch, Fetching
<1>2. TypeOK /\ OwnerInv /\ OneFetch /\ [Next]_vars => OwnerInv' /\ OneFetch'
  BY OwnerStep, FetchStep
<1>3. QED
  BY <1>1, <1>2, TypeCorrect, PTL DEF Spec

-----------------------------------------------------------------------------
(* Waiting requests. *)

LEMMA EntryStep ==
  ASSUME TypeOK, OwnerInv, EntryInv, [Next]_vars
  PROVE  EntryInv'
<1> USE ConstAssumption DEF TypeOK, Fetching, entry, store, OwnerInv, EntryInv
<1>1. ASSUME NEW r \in Req, Lookup(r) PROVE EntryInv'
  BY <1>1 DEF Lookup, Reply, Goto
<1>2. ASSUME NEW r \in Req, Join(r) PROVE EntryInv'
  BY <1>2 DEF Join, Goto
<1>3. ASSUME NEW r \in Req, Woken(r) PROVE EntryInv'
  BY <1>3 DEF Woken, Reply, Goto
<1>4. ASSUME NEW r \in Req, Rebound(r) PROVE EntryInv'
  BY <1>4 DEF Rebound, Goto
<1>5. ASSUME NEW r \in Req, Removed(r) PROVE EntryInv'
  BY <1>5 DEF Removed, Reply, Goto
<1>6. ASSUME NEW r \in Req, TaskAwaited(r) PROVE EntryInv'
  BY <1>6 DEF TaskAwaited, Reply, Goto
<1>7. ASSUME NEW r \in Req, DropHandler(r) PROVE EntryInv'
  BY <1>7 DEF DropHandler, Goto
<1>8. ASSUME NEW r \in Req, Permit(r) PROVE EntryInv'
  BY <1>8 DEF Permit, Advance
<1>9. ASSUME NEW r \in Req, OriginReads(r) PROVE EntryInv'
  BY <1>9 DEF OriginReads, Advance
<1>10. ASSUME NEW r \in Req, OriginFails(r) PROVE EntryInv'
  BY <1>10 DEF OriginFails, Advance
<1>11. ASSUME NEW r \in Req, SetResponse(r) PROVE EntryInv'
  BY <1>11 DEF SetResponse, Advance
<1>12. ASSUME NEW r \in Req, Insert(r) PROVE EntryInv'
  BY <1>12 DEF Insert, Advance
<1>13. ASSUME NEW r \in Req, Disarm(r) PROVE EntryInv'
  BY <1>13 DEF Disarm, Advance
<1>14. ASSUME NEW r \in Req, Finish(r) PROVE EntryInv'
  BY <1>14 DEF Finish, Advance
<1>15. ASSUME NEW r \in Req, Panic(r) PROVE EntryInv'
  BY <1>15 DEF Panic, Advance
<1>16. CASE Change
  BY <1>16 DEF Change
<1>17. CASE Evict
  BY <1>17 DEF Evict
<1>18. ASSUME NEW v \in Version, Purge(v) PROVE EntryInv'
  BY <1>18 DEF Purge
<1>19. ASSUME NEW v \in Version, AckPurge(v) PROVE EntryInv'
  BY <1>19 DEF AckPurge
<1>20. CASE UNCHANGED vars
  BY <1>20 DEF vars
<1>21. QED
  BY <1>1, <1>2, <1>3, <1>4, <1>5, <1>6, <1>7, <1>8, <1>9, <1>10, <1>11,
     <1>12, <1>13, <1>14, <1>15, <1>16, <1>17, <1>18, <1>19, <1>20 DEF
     Next, Handler, Task

LEMMA WaiterStep ==
  ASSUME TypeOK, OwnerInv, EntryInv, WaitInv, WaiterHasWaker, [Next]_vars
  PROVE  WaitInv' /\ WaiterHasWaker'
<1> USE ConstAssumption DEF TypeOK, Fetching, entry, store, OwnerInv, EntryInv,
      WaitInv, WaiterHasWaker
<1>1. ASSUME NEW r \in Req, Lookup(r) PROVE WaitInv' /\ WaiterHasWaker'
  BY <1>1 DEF Lookup, Reply, Goto
<1>2. ASSUME NEW r \in Req, Join(r) PROVE WaitInv' /\ WaiterHasWaker'
  BY <1>2 DEF Join, Goto
<1>3. ASSUME NEW r \in Req, Woken(r) PROVE WaitInv' /\ WaiterHasWaker'
  BY <1>3 DEF Woken, Reply, Goto
<1>4. ASSUME NEW r \in Req, Rebound(r) PROVE WaitInv' /\ WaiterHasWaker'
  BY <1>4 DEF Rebound, Goto
<1>5. ASSUME NEW r \in Req, Removed(r) PROVE WaitInv' /\ WaiterHasWaker'
  BY <1>5 DEF Removed, Reply, Goto
<1>6. ASSUME NEW r \in Req, TaskAwaited(r) PROVE WaitInv' /\ WaiterHasWaker'
  BY <1>6 DEF TaskAwaited, Reply, Goto
<1>7. ASSUME NEW r \in Req, DropHandler(r) PROVE WaitInv' /\ WaiterHasWaker'
  BY <1>7 DEF DropHandler, Goto
<1>8. ASSUME NEW r \in Req, Permit(r) PROVE WaitInv' /\ WaiterHasWaker'
  BY <1>8 DEF Permit, Advance
<1>9. ASSUME NEW r \in Req, OriginReads(r) PROVE WaitInv' /\ WaiterHasWaker'
  BY <1>9 DEF OriginReads, Advance
<1>10. ASSUME NEW r \in Req, OriginFails(r) PROVE WaitInv' /\ WaiterHasWaker'
  BY <1>10 DEF OriginFails, Advance
<1>11. ASSUME NEW r \in Req, SetResponse(r) PROVE WaitInv' /\ WaiterHasWaker'
  BY <1>11 DEF SetResponse, Advance
<1>12. ASSUME NEW r \in Req, Insert(r) PROVE WaitInv' /\ WaiterHasWaker'
  BY <1>12 DEF Insert, Advance
<1>13. ASSUME NEW r \in Req, Disarm(r) PROVE WaitInv' /\ WaiterHasWaker'
  BY <1>13 DEF Disarm, Advance
<1>14. ASSUME NEW r \in Req, Finish(r) PROVE WaitInv' /\ WaiterHasWaker'
  BY <1>14 DEF Finish, Advance
<1>15. ASSUME NEW r \in Req, Panic(r) PROVE WaitInv' /\ WaiterHasWaker'
  BY <1>15 DEF Panic, Advance
<1>16. CASE Change
  BY <1>16 DEF Change
<1>17. CASE Evict
  BY <1>17 DEF Evict
<1>18. ASSUME NEW v \in Version, Purge(v) PROVE WaitInv' /\ WaiterHasWaker'
  BY <1>18 DEF Purge
<1>19. ASSUME NEW v \in Version, AckPurge(v) PROVE WaitInv' /\ WaiterHasWaker'
  BY <1>19 DEF AckPurge
<1>20. CASE UNCHANGED vars
  BY <1>20 DEF vars
<1>21. QED
  BY <1>1, <1>2, <1>3, <1>4, <1>5, <1>6, <1>7, <1>8, <1>9, <1>10, <1>11,
     <1>12, <1>13, <1>14, <1>15, <1>16, <1>17, <1>18, <1>19, <1>20 DEF
     Next, Handler, Task

\* Somebody will wake every request that waits.
THEOREM WaitersWoken == Spec => []WaiterHasWaker
<1>1. Init => OwnerInv /\ EntryInv /\ WaitInv /\ WaiterHasWaker
  BY ConstAssumption DEF Init, OwnerInv, EntryInv, WaitInv, WaiterHasWaker, Fetching
<1>2. TypeOK /\ OwnerInv /\ EntryInv /\ WaitInv /\ WaiterHasWaker /\ [Next]_vars
         => (OwnerInv /\ EntryInv /\ WaitInv /\ WaiterHasWaker)'
  BY OwnerStep, EntryStep, WaiterStep
<1>3. QED
  BY <1>1, <1>2, TypeCorrect, PTL DEF Spec

-----------------------------------------------------------------------------
(* What the requests that joined an entry get. *)

\* A cancelled token freezes the response of its entry, and the task has given the
\* response that its handler will answer with.
AnswerInv ==
    \A r \in Req :
        /\ r \in token => /\ pc[r] \in {"removing", "spawned", "done", "dropped"}
                          /\ task[r] \in {"none", "removing", "finished", "panicked"}
        /\ task[r] \in Fetching => pc[r] \in {"spawned", "dropped"}
        /\ task[r] \in {"answered", "inserted", "removing", "finished"} => resp[r] = val[r]
        /\ answer[r] # None => pc[r] = "done"
        /\ answer[r] # None /\ r \in token => answer[r] \in {resp[r], Error}

\* Who joined an entry waits, has ended, or has answered with its frozen response.
JoinInv ==
    \A r \in Req :
        /\ on[r] # None => pc[r] \in {"wait", "done", "dropped"}
        /\ on[r] # None /\ answer[r] \notin {None, Error}
              => on[r] \in token /\ resp[on[r]] = answer[r]

AgreeInv == AnswerInv /\ JoinInv

LEMMA AgreeStep ==
  ASSUME TypeOK, OwnerInv, AgreeInv, EntryHasOwner, [Next]_vars
  PROVE  AgreeInv' /\ EntryHasOwner'
<1> USE ConstAssumption DEF TypeOK, Fetching, entry, store, OwnerInv, AgreeInv, AnswerInv,
      JoinInv, EntryHasOwner
<1>1. ASSUME NEW r \in Req, Lookup(r) PROVE AgreeInv' /\ EntryHasOwner'
  BY <1>1 DEF Lookup, Reply, Goto
<1>2. ASSUME NEW r \in Req, Join(r) PROVE AgreeInv' /\ EntryHasOwner'
  BY <1>2 DEF Join, Goto
<1>3. ASSUME NEW r \in Req, Woken(r) PROVE AgreeInv' /\ EntryHasOwner'
  BY <1>3 DEF Woken, Reply, Goto
<1>4. ASSUME NEW r \in Req, Rebound(r) PROVE AgreeInv' /\ EntryHasOwner'
  BY <1>4 DEF Rebound, Goto
<1>5. ASSUME NEW r \in Req, Removed(r) PROVE AgreeInv' /\ EntryHasOwner'
  BY <1>5 DEF Removed, Reply, Goto
<1>6. ASSUME NEW r \in Req, TaskAwaited(r) PROVE AgreeInv' /\ EntryHasOwner'
  BY <1>6 DEF TaskAwaited, Reply, Goto
<1>7. ASSUME NEW r \in Req, DropHandler(r) PROVE AgreeInv' /\ EntryHasOwner'
  BY <1>7 DEF DropHandler, Goto
<1>8. ASSUME NEW r \in Req, Permit(r) PROVE AgreeInv' /\ EntryHasOwner'
  BY <1>8 DEF Permit, Advance
<1>9. ASSUME NEW r \in Req, OriginReads(r) PROVE AgreeInv' /\ EntryHasOwner'
  BY <1>9 DEF OriginReads, Advance
<1>10. ASSUME NEW r \in Req, OriginFails(r) PROVE AgreeInv' /\ EntryHasOwner'
  BY <1>10 DEF OriginFails, Advance
<1>11. ASSUME NEW r \in Req, SetResponse(r) PROVE AgreeInv' /\ EntryHasOwner'
  BY <1>11 DEF SetResponse, Advance
<1>12. ASSUME NEW r \in Req, Insert(r) PROVE AgreeInv' /\ EntryHasOwner'
  BY <1>12 DEF Insert, Advance
<1>13. ASSUME NEW r \in Req, Disarm(r) PROVE AgreeInv' /\ EntryHasOwner'
  BY <1>13 DEF Disarm, Advance
<1>14. ASSUME NEW r \in Req, Finish(r) PROVE AgreeInv' /\ EntryHasOwner'
  BY <1>14 DEF Finish, Advance
<1>15. ASSUME NEW r \in Req, Panic(r) PROVE AgreeInv' /\ EntryHasOwner'
  BY <1>15 DEF Panic, Advance
<1>16. CASE Change
  BY <1>16 DEF Change
<1>17. CASE Evict
  BY <1>17 DEF Evict
<1>18. ASSUME NEW v \in Version, Purge(v) PROVE AgreeInv' /\ EntryHasOwner'
  BY <1>18 DEF Purge
<1>19. ASSUME NEW v \in Version, AckPurge(v) PROVE AgreeInv' /\ EntryHasOwner'
  BY <1>19 DEF AckPurge
<1>20. CASE UNCHANGED vars
  BY <1>20 DEF vars
<1>21. QED
  BY <1>1, <1>2, <1>3, <1>4, <1>5, <1>6, <1>7, <1>8, <1>9, <1>10, <1>11,
     <1>12, <1>13, <1>14, <1>15, <1>16, <1>17, <1>18, <1>19, <1>20 DEF
     Next, Handler, Task

\* An entry in the map has an owner who will take it away, unless its creator was
\* dropped inside disarm(), and who joined it gets what its creator got.
THEOREM CoalescingIsSound == Spec => []CoalescingSound
<1>1. Init => OwnerInv /\ AgreeInv /\ EntryHasOwner
  BY ConstAssumption DEF Init, OwnerInv, AgreeInv, AnswerInv, JoinInv, EntryHasOwner, Fetching
<1>2. TypeOK /\ OwnerInv /\ AgreeInv /\ EntryHasOwner /\ [Next]_vars
         => (OwnerInv /\ AgreeInv /\ EntryHasOwner)'
  BY OwnerStep, AgreeStep
<1>3. AgreeInv /\ EntryHasOwner => CoalescingSound
  BY ConstAssumption DEF AgreeInv, AnswerInv, JoinInv, CoalescingSound, CoalescedAgree
<1>4. QED
  BY <1>1, <1>2, <1>3, TypeCorrect, PTL DEF Spec

-----------------------------------------------------------------------------
(* Purges. *)

\* Without a race, whatever was read from the origin is as new as the last purge.
FreshInv ==
    /\ purged <= origin
    /\ \A v \in queue : v <= origin
    /\ ~raced =>
          /\ cached # None => cached >= purged
          /\ \A r \in Req : (PastRead(r) /\ val[r] # Error) =>
                val[r] \in Version /\ val[r] >= purged
    /\ \A r \in Req : PastRead(r) => val[r] # None

LEMMA FreshStep ==
  ASSUME TypeOK, FreshInv, [Next]_vars
  PROVE  FreshInv'
<1> USE ConstAssumption DEF TypeOK, Fetching, entry, store, FreshInv, PastRead, Version
<1>1. ASSUME NEW r \in Req, Lookup(r) PROVE FreshInv'
  BY <1>1 DEF Lookup, Reply, Goto
<1>2. ASSUME NEW r \in Req, Join(r) PROVE FreshInv'
  BY <1>2 DEF Join, Goto
<1>3. ASSUME NEW r \in Req, Woken(r) PROVE FreshInv'
  BY <1>3 DEF Woken, Reply, Goto
<1>4. ASSUME NEW r \in Req, Rebound(r) PROVE FreshInv'
  BY <1>4 DEF Rebound, Goto
<1>5. ASSUME NEW r \in Req, Removed(r) PROVE FreshInv'
  BY <1>5 DEF Removed, Reply, Goto
<1>6. ASSUME NEW r \in Req, TaskAwaited(r) PROVE FreshInv'
  BY <1>6 DEF TaskAwaited, Reply, Goto
<1>7. ASSUME NEW r \in Req, DropHandler(r) PROVE FreshInv'
  BY <1>7 DEF DropHandler, Goto
<1>8. ASSUME NEW r \in Req, Permit(r) PROVE FreshInv'
  BY <1>8 DEF Permit, Advance
<1>9. ASSUME NEW r \in Req, OriginReads(r) PROVE FreshInv'
  BY <1>9 DEF OriginReads, Advance
<1>10. ASSUME NEW r \in Req, OriginFails(r) PROVE FreshInv'
  BY <1>10 DEF OriginFails, Advance
<1>11. ASSUME NEW r \in Req, SetResponse(r) PROVE FreshInv'
  BY <1>11 DEF SetResponse, Advance
<1>12. ASSUME NEW r \in Req, Insert(r) PROVE FreshInv'
  BY <1>12 DEF Insert, Advance
<1>13. ASSUME NEW r \in Req, Disarm(r) PROVE FreshInv'
  BY <1>13 DEF Disarm, Advance
<1>14. ASSUME NEW r \in Req, Finish(r) PROVE FreshInv'
  BY <1>14 DEF Finish, Advance
<1>15. ASSUME NEW r \in Req, Panic(r) PROVE FreshInv'
  BY <1>15 DEF Panic, Advance
<1>16. CASE Change
  BY <1>16 DEF Change
<1>17. CASE Evict
  BY <1>17 DEF Evict
<1>18. ASSUME NEW v \in Version, Purge(v) PROVE FreshInv'
  BY <1>18 DEF Purge
<1>19. ASSUME NEW v \in Version, AckPurge(v) PROVE FreshInv'
  BY <1>19 DEF AckPurge
<1>20. CASE UNCHANGED vars
  BY <1>20 DEF vars
<1>21. QED
  BY <1>1, <1>2, <1>3, <1>4, <1>5, <1>6, <1>7, <1>8, <1>9, <1>10, <1>11,
     <1>12, <1>13, <1>14, <1>15, <1>16, <1>17, <1>18, <1>19, <1>20 DEF
     Next, Handler, Task

\* A purged version is only in the cache if the purge met a fetch past its read.
THEOREM PurgeSound == Spec => []StaleOnlyAfterRace
<1>1. Init => FreshInv
  BY ConstAssumption DEF Init, FreshInv, PastRead
<1>2. TypeOK /\ FreshInv /\ [Next]_vars => FreshInv'
  BY FreshStep
<1>3. TypeOK /\ FreshInv => StaleOnlyAfterRace
  BY ConstAssumption DEF TypeOK, FreshInv, StaleOnlyAfterRace, Version
<1>4. QED
  BY <1>1, <1>2, <1>3, TypeCorrect, PTL DEF Spec
=============================================================================
