--------------------------- MODULE UploadsProofs ---------------------------
(***************************************************************************)
(* Proofs about ImageJobs, for any jobs, processes, priorities, permits,   *)
(* clocks and intervals, about ProfilePicture (P), for any set of uploads, *)
(* and about Emotes (E), for any emotes, calls and moderators.             *)
(***************************************************************************)
EXTENDS MCUploads, FiniteSetTheorems, TLAPS

-----------------------------------------------------------------------------
(* The image jobs *)

\* A verdict was told, or its publication failed, before the attempt completes;
\* and only a job that is gone was cancelled.
ToldInv ==
    /\ \A a \in Attempt : pc[a] = "completing" => told[work[a]] \cap {"verdict", "lost"} # {}
    /\ \A j \in Job : cancelled[j] # "no" => j \in submitted \ docs

\* How much of the hold is left in each phase of an attempt that is never late.
HoldOf(a) ==
    LET left == hold[work[a]] + age[a]
        room == Hold + Skew[WorkerOf[a]]
    IN  /\ age[a] <= Limit(a)
        /\ pc[a] = "starting" => left >= room - Latency
        /\ pc[a] = "working" => left >= room - 2 * Latency
        /\ pc[a] = "telling" => left >= room - RefreshEvery - 3 * Latency
        /\ pc[a] = "completing" => left >= room - RefreshEvery - 4 * Latency

HoldInv == \A a \in Attempt : pc[a] # "free" => HoldOf(a)

Alone == \A a, b \in Attempt : (work[a] = work[b] /\ pc[a] # "free") => a = b

\* The permits of a process, counting its blocking tasks.
InUse(w) == {a \in Attempt : WorkerOf[a] = w /\ HoldsPermit(a)}

PermitInv == \A w \in Worker : Cardinality(InUse(w)) <= Permits

-----------------------------------------------------------------------------

\* A step of either specification keeps the types.
LEMMA TypeStep == TypeOK /\ [Next]_vars => TypeOK'
<1> SUFFICES ASSUME TypeOK, [Next]_vars PROVE TypeOK'
  OBVIOUS
<1> USE ConstAssumption DEF TypeOK, queue, heard
<1>1. ASSUME NEW a \in Attempt, Started(a) PROVE TypeOK'
  BY <1>1 DEF Started, Phase
<1>2. ASSUME NEW a \in Attempt, ThreadStart(a) PROVE TypeOK'
  BY <1>2 DEF ThreadStart
<1>3. ASSUME NEW a \in Attempt, ThreadEnd(a) PROVE TypeOK'
  BY <1>3 DEF ThreadEnd
<1>4. ASSUME NEW a \in Attempt, Finish(a) PROVE TypeOK'
  BY <1>4 DEF Finish, Phase
<1>5. ASSUME NEW a \in Attempt, Timeout(a) PROVE TypeOK'
  BY <1>5 DEF Timeout, Phase
<1>6. ASSUME NEW a \in Attempt, Refresh(a) PROVE TypeOK'
  BY <1>6 DEF Refresh, Phase, Leave, Prolong, Mine
<1>7. ASSUME NEW a \in Attempt, Tell(a) PROVE TypeOK'
  BY <1>7 DEF Tell, Phase, Publish
<1>8. ASSUME NEW a \in Attempt, Complete(a) PROVE TypeOK'
  BY <1>8 DEF Complete, Phase, Leave, Mine
<1>9. ASSUME NEW a \in Attempt, RefreshFails(a) PROVE TypeOK'
  BY <1>9 DEF RefreshFails, Phase, Leave, Prolong, Disturb, Mine
<1>10. ASSUME NEW a \in Attempt, CompleteFails(a) PROVE TypeOK'
  BY <1>10 DEF CompleteFails, Phase, Leave, Disturb, Mine
<1>11. ASSUME NEW a \in Attempt, NEW j \in Job, Fetch(a, j) PROVE TypeOK'
  BY <1>11 DEF Fetch, Phase, Prolong, Disturb, Fetchable
<1>12. ASSUME NEW w \in Worker, Crash(w) PROVE TypeOK'
  BY <1>12 DEF Crash, Disturb
<1>13. ASSUME NEW j \in Job, Submit(j) PROVE TypeOK'
  BY <1>13 DEF Submit
<1>14. ASSUME NEW j \in Job, Cancel(j) \/ TellCancel(j) \/ CancelCut(j) PROVE TypeOK'
  BY <1>14 DEF Cancel, TellCancel, CancelCut, Publish
<1>15. ASSUME NEW j \in Job, Expire(j) PROVE TypeOK'
  BY <1>15 DEF Expire
<1>16. ASSUME Tick PROVE TypeOK'
  BY <1>16 DEF Tick, Unheld
<1>17. CASE UNCHANGED vars
  BY <1>17 DEF vars, queue, heard
<1> QED
  BY <1>1, <1>2, <1>3, <1>4, <1>5, <1>6, <1>7, <1>8, <1>9, <1>10, <1>11, <1>12, <1>13, <1>14, <1>15, <1>16, <1>17 DEF Next, Moves, Step

LEMMA TypeInit == Init => TypeOK
BY ConstAssumption DEF Init, TypeOK, Unheld

\* Every variable keeps its type.
THEOREM TypeCorrect == Spec => []TypeOK
<1>1. QED
  BY TypeInit, TypeStep, PTL DEF Spec

-----------------------------------------------------------------------------

\* Publishing adds the callback, or its loss, and takes nothing away.
LEMMA Publishing ==
    ASSUME TypeOK, NEW j \in Job, NEW k \in {"verdict", "cancel"}, Publish(j, k)
    PROVE  /\ told'[j] \cap {k, "lost"} # {}
           /\ \A i \in Job : told[i] \subseteq told'[i]
<1>1. PICK what \in {k, "lost"} : told' = [told EXCEPT ![j] = @ \cup {what}]
  BY DEF Publish
<1>2. told'[j] = told[j] \cup {what}
  BY <1>1 DEF TypeOK
<1>3. what \in told'[j] /\ what \in {k, "lost"}
  BY <1>2
<1>4. \A i \in Job : told[i] \subseteq told'[i]
  BY <1>1, <1>2 DEF TypeOK
<1> QED
  BY <1>3, <1>4

\* No job without a time-to-live leaves the collection before its verdict is
\* published, unless it is cancelled, and no cancellation succeeds before its
\* callback is - or fails to be.
THEOREM NothingVanishes == Spec => []NoSilentRemoval
<1>1. Init => ToldInv /\ NoSilentRemoval
  BY DEF Init, ToldInv, NoSilentRemoval
<1>2. TypeOK /\ ToldInv /\ NoSilentRemoval /\ [Next]_vars => ToldInv' /\ NoSilentRemoval'
  <2> SUFFICES ASSUME TypeOK, ToldInv, NoSilentRemoval, [Next]_vars
               PROVE  ToldInv' /\ NoSilentRemoval'
    OBVIOUS
  <2> USE ConstAssumption DEF TypeOK, ToldInv, NoSilentRemoval, queue, heard
  <2>1. ASSUME NEW a \in Attempt, Started(a) PROVE ToldInv' /\ NoSilentRemoval'
    BY <2>1 DEF Started, Phase
  <2>2. ASSUME NEW a \in Attempt, ThreadStart(a) PROVE ToldInv' /\ NoSilentRemoval'
    BY <2>2 DEF ThreadStart
  <2>3. ASSUME NEW a \in Attempt, ThreadEnd(a) PROVE ToldInv' /\ NoSilentRemoval'
    BY <2>3 DEF ThreadEnd
  <2>4. ASSUME NEW a \in Attempt, Finish(a) PROVE ToldInv' /\ NoSilentRemoval'
    BY <2>4 DEF Finish, Phase
  <2>5. ASSUME NEW a \in Attempt, Timeout(a) PROVE ToldInv' /\ NoSilentRemoval'
    BY <2>5 DEF Timeout, Phase
  <2>6. ASSUME NEW a \in Attempt, Refresh(a) PROVE ToldInv' /\ NoSilentRemoval'
    BY <2>6 DEF Refresh, Phase, Leave, Prolong, Mine
  <2>7. ASSUME NEW a \in Attempt, Tell(a) PROVE ToldInv' /\ NoSilentRemoval'
    <3>1. told'[work[a]] \cap {"verdict", "lost"} # {}
          /\ \A i \in Job : told[i] \subseteq told'[i]
      BY <2>7, Publishing DEF Tell
    <3> QED
      BY <2>7, <3>1 DEF Tell, Phase
  <2>8. ASSUME NEW a \in Attempt, Complete(a) PROVE ToldInv' /\ NoSilentRemoval'
    BY <2>8 DEF Complete, Phase, Leave, Mine
  <2>9. ASSUME NEW a \in Attempt, RefreshFails(a) PROVE ToldInv' /\ NoSilentRemoval'
    BY <2>9 DEF RefreshFails, Phase, Leave, Prolong, Disturb, Mine
  <2>10. ASSUME NEW a \in Attempt, CompleteFails(a) PROVE ToldInv' /\ NoSilentRemoval'
    BY <2>10 DEF CompleteFails, Phase, Leave, Disturb, Mine
  <2>11. ASSUME NEW a \in Attempt, NEW j \in Job, Fetch(a, j) PROVE ToldInv' /\ NoSilentRemoval'
    BY <2>11 DEF Fetch, Phase, Prolong, Disturb, Fetchable
  <2>12. ASSUME NEW w \in Worker, Crash(w) PROVE ToldInv' /\ NoSilentRemoval'
    BY <2>12 DEF Crash, Disturb
  <2>13. ASSUME NEW j \in Job, Submit(j) PROVE ToldInv' /\ NoSilentRemoval'
    BY <2>13 DEF Submit
  <2>14. ASSUME NEW j \in Job, Cancel(j) \/ TellCancel(j) \/ CancelCut(j)
         PROVE ToldInv' /\ NoSilentRemoval'
    <3>1. CASE Cancel(j)
      BY <3>1 DEF Cancel
    <3>2. CASE TellCancel(j)
      <4>1. told'[j] \cap {"cancel", "lost"} # {}
            /\ \A i \in Job : told[i] \subseteq told'[i]
        BY <3>2, Publishing DEF TellCancel
      <4> QED
        BY <3>2, <4>1 DEF TellCancel
    <3>3. CASE CancelCut(j)
      BY <3>3 DEF CancelCut
    <3> QED
      BY <2>14, <3>1, <3>2, <3>3
  <2>15. ASSUME NEW j \in Job, Expire(j) PROVE ToldInv' /\ NoSilentRemoval'
    BY <2>15 DEF Expire
  <2>16. ASSUME Tick PROVE ToldInv' /\ NoSilentRemoval'
    BY <2>16 DEF Tick
  <2>17. CASE UNCHANGED vars
    BY <2>17 DEF vars, queue, heard
  <2> QED
    BY <2>1, <2>2, <2>3, <2>4, <2>5, <2>6, <2>7, <2>8, <2>9, <2>10, <2>11, <2>12, <2>13, <2>14, <2>15, <2>16, <2>17 DEF Next, Moves, Step
<1>3. QED
  BY <1>1, <1>2, TypeInit, TypeStep, PTL DEF Spec

-----------------------------------------------------------------------------

\* With room for five late steps and the skew of the clocks, and attempts that
\* are never late, a job has one attempt at a time.
THEOREM TimelyOneAttempt == TimelySpec => []OneAttemptPerJob
<1> DEFINE Inv == Roomy => HoldInv /\ Alone
<1>1. Init => Inv
  BY DEF Init, HoldInv, Alone
<1>2. TypeOK /\ Inv /\ [TimelyNext]_vars => Inv'
  <2> SUFFICES ASSUME TypeOK, HoldInv, Alone, Roomy, [TimelyNext]_vars
               PROVE  HoldInv' /\ Alone'
    BY DEF Roomy
  <2> USE ConstAssumption DEF TypeOK, HoldInv, HoldOf, Limit, Alone, queue, heard
  <2>1. ASSUME NEW a \in Attempt, Started(a) PROVE HoldInv' /\ Alone'
    BY <2>1 DEF Started, Phase
  <2>2. ASSUME NEW a \in Attempt, ThreadStart(a) PROVE HoldInv' /\ Alone'
    BY <2>2 DEF ThreadStart
  <2>3. ASSUME NEW a \in Attempt, ThreadEnd(a) PROVE HoldInv' /\ Alone'
    BY <2>3 DEF ThreadEnd
  <2>4. ASSUME NEW a \in Attempt, Finish(a) PROVE HoldInv' /\ Alone'
    BY <2>4 DEF Finish, Phase
  <2>5. ASSUME NEW a \in Attempt, Timeout(a) PROVE HoldInv' /\ Alone'
    BY <2>5 DEF Timeout, Phase
  <2>6. ASSUME NEW a \in Attempt, Refresh(a) PROVE HoldInv' /\ Alone'
    <3>1. CASE Mine(a)
      <4>1. PICK d \in 0..Latency : Prolong(work[a], WorkerOf[a], d)
        BY <2>6, <3>1 DEF Refresh
      <4>2. /\ hold'[work[a]] = Hold + Skew[WorkerOf[a]] - d
            /\ \A b \in Attempt : (b # a /\ pc[b] # "free") => hold'[work[b]] = hold[work[b]]
        BY <2>6, <4>1 DEF Refresh, Prolong
      <4>3. pc' = pc /\ work' = work /\ age' = [age EXCEPT ![a] = 0]
        <5>1. /\ pc' = [pc EXCEPT ![a] = "working"] /\ work' = work
              /\ age' = [age EXCEPT ![a] = 0] /\ pc[a] = "working"
          BY <2>6, <3>1 DEF Refresh, Phase
        <5> QED
          BY <5>1
      <4> QED
        BY <2>6, <4>2, <4>3 DEF Refresh
    <3>2. CASE ~Mine(a)
      BY <2>6, <3>2 DEF Refresh, Phase, Leave
    <3> QED
      BY <3>1, <3>2
  <2>7. ASSUME NEW a \in Attempt, Tell(a) PROVE HoldInv' /\ Alone'
    <3>1. told'[work[a]] \cap {"verdict", "lost"} # {}
          /\ \A i \in Job : told[i] \subseteq told'[i]
      BY <2>7, Publishing DEF Tell
    <3> QED
      BY <2>7, <3>1 DEF Tell, Phase
  <2>8. ASSUME NEW a \in Attempt, Complete(a) PROVE HoldInv' /\ Alone'
    BY <2>8 DEF Complete, Phase, Leave, Mine
  <2>9. ASSUME NEW a \in Attempt, RefreshFails(a) PROVE HoldInv' /\ Alone'
    BY <2>9 DEF RefreshFails, Phase, Leave, Prolong, Disturb, Mine
  <2>10. ASSUME NEW a \in Attempt, CompleteFails(a) PROVE HoldInv' /\ Alone'
    BY <2>10 DEF CompleteFails, Phase, Leave, Disturb, Mine
  <2>11. ASSUME NEW a \in Attempt, NEW j \in Job, Fetch(a, j) PROVE HoldInv' /\ Alone'
    <3>1. PICK d \in 0..Latency : j \in Fetchable(WorkerOf[a], d) /\ Prolong(j, WorkerOf[a], d)
      BY <2>11 DEF Fetch
    <3>2. hold[j] < Skew[WorkerOf[a]] /\ hold' = [hold EXCEPT ![j] = Hold + Skew[WorkerOf[a]] - d]
      BY <3>1 DEF Fetchable, Prolong
    <3>3. ASSUME NEW b \in Attempt, pc[b] # "free", work[b] = j PROVE FALSE
      <4>0. HoldOf(b) /\ age[b] \in Nat /\ hold[j] \in Int /\ Skew[WorkerOf[b]] \in Nat
        BY <3>3
      <4>1. hold[j] >= Hold - RefreshEvery - 5 * Latency + Skew[WorkerOf[b]]
        <5>1. CASE pc[b] = "working"
          BY <3>3, <4>0, <5>1
        <5>2. CASE pc[b] \in {"starting", "telling", "completing"}
          BY <3>3, <4>0, <5>2
        <5> QED
          BY <3>3, <5>1, <5>2
      <4>2. Hold >= RefreshEvery + 5 * Latency + Skew[WorkerOf[a]]
        BY DEF Roomy
      <4> QED
        BY <3>2, <4>1, <4>2
    <3>4. /\ pc' = [pc EXCEPT ![a] = "starting"]
          /\ age' = [age EXCEPT ![a] = 0]
          /\ work' = [work EXCEPT ![a] = j]
      BY <2>11 DEF Fetch, Phase
    <3>5. Alone'
      BY <2>11, <3>3, <3>4 DEF Fetch
    <3>6. ASSUME NEW b \in Attempt, pc'[b] # "free" PROVE HoldOf(b)'
      <4>1. CASE b = a
        BY <3>2, <3>4, <4>1
      <4>2. CASE b # a
        BY <3>2, <3>3, <3>4, <3>6, <4>2
      <4> QED
        BY <4>1, <4>2
    <3> QED
      BY <3>5, <3>6
  <2>12. ASSUME NEW w \in Worker, Crash(w) PROVE HoldInv' /\ Alone'
    BY <2>12 DEF Crash, Disturb
  <2>13. ASSUME NEW j \in Job, Submit(j) PROVE HoldInv' /\ Alone'
    BY <2>13 DEF Submit
  <2>14. ASSUME NEW j \in Job, Cancel(j) \/ TellCancel(j) \/ CancelCut(j)
         PROVE HoldInv' /\ Alone'
    BY <2>14 DEF Cancel, TellCancel, CancelCut
  <2>15. ASSUME NEW j \in Job, Expire(j) PROVE HoldInv' /\ Alone'
    BY <2>15 DEF Expire
  <2>16. ASSUME OnTime, Tick PROVE HoldInv' /\ Alone'
    <3>1. \A j \in Job : hold'[j] >= hold[j] - 1
      BY <2>16 DEF Tick, Unheld
    <3>2. ASSUME NEW b \in Attempt, pc[b] # "free"
          PROVE  age'[b] = age[b] + 1 /\ age'[b] <= Limit(b) /\ work[b] \in Job
      <4>1. age[b] < Limit(b)
        BY <2>16, <3>2 DEF OnTime
      <4>2. age[b] \in Nat /\ age[b] + 1 <= Limit(b) /\ age[b] < RefreshEvery + Latency
        BY <4>1
      <4>3. age'[b] = age[b] + 1
        BY <2>16, <3>2, <4>2 DEF Tick
      <4> QED
        BY <3>2, <4>2, <4>3
    <3>3. pc' = pc /\ work' = work
      BY <2>16 DEF Tick
    <3>4. ASSUME NEW b \in Attempt, pc'[b] # "free" PROVE HoldOf(b)'
      <4>1. pc[b] # "free" /\ work[b] \in Job
        BY <3>2, <3>3, <3>4
      <4>2. /\ hold'[work'[b]] \in Int /\ age'[b] \in Nat /\ hold[work[b]] \in Int
            /\ age'[b] <= Limit(b)
        BY <2>16, <3>2, <3>3, <4>1 DEF Tick, Unheld
      <4>3. hold'[work'[b]] + age'[b] >= hold[work[b]] + age[b]
        <5>1. hold'[work[b]] >= hold[work[b]] - 1 /\ age'[b] = age[b] + 1 /\ work'[b] = work[b]
          BY <3>1, <3>2, <3>3, <4>1
        <5>2. age[b] \in Nat
          OBVIOUS
        <5> QED
          BY <4>2, <5>1, <5>2
      <4>4. HoldOf(b) /\ pc'[b] = pc[b]
        BY <3>3, <4>1
      <4> QED
        BY <4>2, <4>3, <4>4
    <3> QED
      BY <3>3, <3>4
  <2>17. CASE UNCHANGED vars
    BY <2>17 DEF vars, queue, heard
  <2> QED
    BY <2>1, <2>2, <2>3, <2>4, <2>5, <2>6, <2>7, <2>8, <2>9, <2>10, <2>11, <2>12, <2>13, <2>14, <2>15, <2>16, <2>17 DEF TimelyNext, Moves, Step
<1>3. [TimelyNext]_vars => [Next]_vars
  BY DEF TimelyNext, Next
<1>4. Inv => OneAttemptPerJob
  BY DEF Alone, OneAttemptPerJob
<1>5. QED
  BY <1>1, <1>2, <1>3, <1>4, TypeInit, TypeStep, PTL DEF TimelySpec

-----------------------------------------------------------------------------

\* A set that gains at most one element grows by at most one.
LEMMA OneMore ==
    ASSUME NEW S, NEW T, NEW x, IsFiniteSet(S), T \subseteq S \cup {x}
    PROVE  IsFiniteSet(T) /\ Cardinality(T) <= Cardinality(S) + 1
<1>1. IsFiniteSet(S \cup {x}) /\ Cardinality(S \cup {x}) <= Cardinality(S) + 1
  <2>1. /\ IsFiniteSet(S \cup {x}) /\ Cardinality(S) \in Nat
        /\ Cardinality(S \cup {x}) = IF x \in S THEN Cardinality(S) ELSE Cardinality(S) + 1
    BY FS_AddElement, FS_CardinalityType
  <2> QED
    BY <2>1
<1>2. Cardinality(T) <= Cardinality(S \cup {x}) /\ IsFiniteSet(T)
  BY <1>1, FS_Subset
<1> QED
  BY <1>1, <1>2, FS_CardinalityType

\* Only a fetch takes a permit, and only when there is one.
LEMMA PermitStep == TypeOK /\ PermitInv /\ [Next]_vars => PermitInv'
<1> SUFFICES ASSUME TypeOK, PermitInv, [Next]_vars, NEW w \in Worker
             PROVE  Cardinality(InUse(w)') <= Permits
  BY DEF PermitInv
<1>1. IsFiniteSet(InUse(w)) /\ Cardinality(InUse(w)) \in Nat
  BY ConstAssumption, FS_Subset, FS_CardinalityType DEF InUse
<1>2. ASSUME InUse(w)' \subseteq InUse(w) PROVE Cardinality(InUse(w)') <= Permits
  <2>1. Cardinality(InUse(w)') <= Cardinality(InUse(w)) /\ IsFiniteSet(InUse(w)')
    BY <1>1, <1>2, FS_Subset
  <2> QED
    BY <1>1, <2>1, FS_CardinalityType, ConstAssumption DEF PermitInv
<1>3. ASSUME NEW a \in Attempt, NEW j \in Job, Fetch(a, j) PROVE Cardinality(InUse(w)') <= Permits
  <2>1. CASE WorkerOf[a] # w
    <3>1. InUse(w)' \subseteq InUse(w)
      BY <1>3, <2>1 DEF Fetch, Phase, InUse, HoldsPermit, TypeOK
    <3> QED
      BY <3>1, <1>2
  <2>2. CASE WorkerOf[a] = w
    <3>1. InUse(w)' \subseteq InUse(w) \cup {a}
      BY <1>3, <2>2 DEF Fetch, Phase, InUse, HoldsPermit, TypeOK
    <3>2. Cardinality(InUse(w)) < Permits
      BY <1>3, <2>2 DEF Fetch, InUse
    <3>3. Cardinality(InUse(w)') <= Cardinality(InUse(w)) + 1 /\ IsFiniteSet(InUse(w)')
      BY <1>1, <3>1, OneMore
    <3> QED
      BY <1>1, <3>2, <3>3, FS_CardinalityType, ConstAssumption
  <2> QED
    BY <2>1, <2>2
<1>4. ASSUME ~(\E a \in Attempt, j \in Job : Fetch(a, j)) PROVE InUse(w)' \subseteq InUse(w)
  <2> USE DEF TypeOK, InUse, HoldsPermit, queue, heard
  <2>1. ASSUME NEW a \in Attempt, Started(a) PROVE InUse(w)' \subseteq InUse(w)
    BY <2>1 DEF Started, Phase
  <2>2. ASSUME NEW a \in Attempt, ThreadStart(a) PROVE InUse(w)' \subseteq InUse(w)
    BY <2>2 DEF ThreadStart
  <2>3. ASSUME NEW a \in Attempt, ThreadEnd(a) PROVE InUse(w)' \subseteq InUse(w)
    BY <2>3 DEF ThreadEnd
  <2>4. ASSUME NEW a \in Attempt, Finish(a) PROVE InUse(w)' \subseteq InUse(w)
    BY <2>4 DEF Finish, Phase
  <2>5. ASSUME NEW a \in Attempt, Timeout(a) PROVE InUse(w)' \subseteq InUse(w)
    BY <2>5 DEF Timeout, Phase
  <2>6. ASSUME NEW a \in Attempt, Refresh(a) PROVE InUse(w)' \subseteq InUse(w)
    BY <2>6 DEF Refresh, Phase, Leave, Prolong, Mine
  <2>7. ASSUME NEW a \in Attempt, Tell(a) PROVE InUse(w)' \subseteq InUse(w)
    BY <2>7 DEF Tell, Phase, Publish
  <2>8. ASSUME NEW a \in Attempt, Complete(a) PROVE InUse(w)' \subseteq InUse(w)
    BY <2>8 DEF Complete, Phase, Leave, Mine
  <2>9. ASSUME NEW a \in Attempt, RefreshFails(a) PROVE InUse(w)' \subseteq InUse(w)
    BY <2>9 DEF RefreshFails, Phase, Leave, Prolong, Disturb, Mine
  <2>10. ASSUME NEW a \in Attempt, CompleteFails(a) PROVE InUse(w)' \subseteq InUse(w)
    BY <2>10 DEF CompleteFails, Phase, Leave, Disturb, Mine
  <2>11. ASSUME NEW a \in Attempt, NEW j \in Job, Fetch(a, j) PROVE InUse(w)' \subseteq InUse(w)
    BY <1>4, <2>11
  <2>12. ASSUME NEW v \in Worker, Crash(v) PROVE InUse(w)' \subseteq InUse(w)
    BY <2>12 DEF Crash, Disturb
  <2>13. ASSUME NEW j \in Job, Submit(j) PROVE InUse(w)' \subseteq InUse(w)
    BY <2>13 DEF Submit
  <2>14. ASSUME NEW j \in Job, Cancel(j) \/ TellCancel(j) \/ CancelCut(j)
         PROVE InUse(w)' \subseteq InUse(w)
    BY <2>14 DEF Cancel, TellCancel, CancelCut
  <2>15. ASSUME NEW j \in Job, Expire(j) PROVE InUse(w)' \subseteq InUse(w)
    BY <2>15 DEF Expire
  <2>16. ASSUME Tick PROVE InUse(w)' \subseteq InUse(w)
    BY <2>16 DEF Tick, Unheld
  <2>17. CASE UNCHANGED vars
    BY <2>17 DEF vars, queue, heard
  <2> QED
    BY <2>1, <2>2, <2>3, <2>4, <2>5, <2>6, <2>7, <2>8, <2>9, <2>10, <2>11, <2>12, <2>13, <2>14, <2>15, <2>16, <2>17 DEF Next, Moves, Step
<1> QED
  BY <1>2, <1>3, <1>4

\* A process never decodes more images at a time than it has permits, however
\* its attempts overlap and its blocking tasks outlive them.
THEOREM PermitsBound == Spec => []PermitsRespected
<1>1. Init => PermitInv
  <2> SUFFICES ASSUME Init, NEW w \in Worker PROVE Cardinality(InUse(w)) <= Permits
    BY DEF PermitInv
  <2>1. InUse(w) = {}
    BY DEF Init, InUse, HoldsPermit
  <2> QED
    BY <2>1, FS_EmptySet, ConstAssumption
<1>2. PermitInv => PermitsRespected
  <2> SUFFICES ASSUME PermitInv, NEW w \in Worker
               PROVE  Cardinality({a \in Attempt : WorkerOf[a] = w /\ thread[a] # "idle"}) <= Permits
    BY DEF PermitsRespected
  <2>1. {a \in Attempt : WorkerOf[a] = w /\ thread[a] # "idle"} \subseteq InUse(w)
    BY DEF InUse, HoldsPermit
  <2>2. IsFiniteSet(InUse(w))
    BY ConstAssumption, FS_Subset DEF InUse
  <2>3. Cardinality({a \in Attempt : WorkerOf[a] = w /\ thread[a] # "idle"}) <= Cardinality(InUse(w))
    BY <2>1, <2>2, FS_Subset
  <2>4. IsFiniteSet({a \in Attempt : WorkerOf[a] = w /\ thread[a] # "idle"})
    BY <2>1, <2>2, FS_Subset
  <2> QED
    BY <2>2, <2>3, <2>4, FS_CardinalityType, ConstAssumption DEF PermitInv
<1>3. QED
  BY <1>1, <1>2, PermitStep, TypeInit, TypeStep, PTL DEF Spec

-----------------------------------------------------------------------------

\* The attempts at j that may still tell a verdict.
Unspoken(j) == {a \in Attempt : work[a] = j /\ pc[a] \in {"starting", "working", "telling"}}

\* The verdicts of j that were told, and those that may be.
Possible(j) == verdicts[j] + Cardinality(Unspoken(j))

\* An attempt at j will find that the job is its own.
Owned(j) == \E a \in Attempt : work[a] = j /\ claim[j] = WorkerOf[a]

\* One verdict is free and each disturbance excuses one; a job that somebody may
\* claim while it is in the collection, with no owner at work, has one to spare.
Allowed(j) ==
    /\ Possible(j) <= 1 + disturbed[j]
    /\ j \in docs /\ ~Owned(j) => Possible(j) <= disturbed[j]

\* Nobody works on a job that was not submitted.
FutureInv ==
    \A j \in Job \ submitted : verdicts[j] = 0 /\ \A a \in Attempt : work[a] # j

VerdictInv == FutureInv /\ \A j \in Job : Allowed(j)

LEMMA PossibleType ==
    ASSUME TypeOK, NEW j \in Job
    PROVE  /\ IsFiniteSet(Unspoken(j)) /\ Cardinality(Unspoken(j)) \in Nat
           /\ Possible(j) \in Nat /\ verdicts[j] \in Nat /\ disturbed[j] \in Nat
<1>1. IsFiniteSet(Unspoken(j)) /\ Cardinality(Unspoken(j)) \in Nat
  BY ConstAssumption, FS_Subset, FS_CardinalityType DEF Unspoken
<1> QED
  BY <1>1 DEF Possible, TypeOK

LEMMA PossibleNext ==
    ASSUME TypeOK', NEW j \in Job
    PROVE  /\ Cardinality(Unspoken(j)') \in Nat
           /\ Possible(j)' \in Nat /\ verdicts'[j] \in Nat /\ disturbed'[j] \in Nat
<1>1. Cardinality(Unspoken(j)') \in Nat
  BY ConstAssumption, FS_Subset, FS_CardinalityType DEF Unspoken
<1> QED
  BY <1>1 DEF Possible, TypeOK

\* What is possible does not grow when no attempt starts and none tells a verdict.
LEMMA NothingMore ==
    ASSUME TypeOK, TypeOK', NEW j \in Job,
           verdicts'[j] = verdicts[j], Unspoken(j)' \subseteq Unspoken(j)
    PROVE  Possible(j)' <= Possible(j)
<1>1. Cardinality(Unspoken(j)') <= Cardinality(Unspoken(j)) /\ Cardinality(Unspoken(j)') \in Nat
  BY PossibleType, FS_Subset, FS_CardinalityType
<1> QED
  BY <1>1, PossibleType DEF Possible

\* An attempt that ends without a verdict, or tells it, can tell no other.
LEMMA OneLess ==
    ASSUME TypeOK, TypeOK', NEW j \in Job, NEW a \in Unspoken(j),
           Unspoken(j)' \subseteq Unspoken(j) \ {a}
    PROVE  Cardinality(Unspoken(j)') <= Cardinality(Unspoken(j)) - 1
<1>1. /\ IsFiniteSet(Unspoken(j) \ {a})
      /\ Cardinality(Unspoken(j) \ {a}) = Cardinality(Unspoken(j)) - 1
  BY PossibleType, FS_RemoveElement
<1>2. Cardinality(Unspoken(j)') <= Cardinality(Unspoken(j) \ {a})
  BY <1>1, FS_Subset
<1> QED
  BY <1>1, <1>2

\* A step after which no more is possible keeps what is allowed, if it takes an
\* owner away only with a disturbance or with the job.
LEMMA StillAllowed ==
    ASSUME TypeOK, TypeOK', NEW j \in Job, Allowed(j),
           Possible(j)' <= Possible(j),
           \/ disturbed'[j] = disturbed[j] + 1
           \/ /\ disturbed'[j] = disturbed[j]
              /\ j \in docs' => j \in docs /\ (Owned(j) => Owned(j)')
    PROVE  Allowed(j)'
<1>1. /\ Possible(j) \in Nat /\ Possible(j)' \in Nat
      /\ disturbed[j] \in Nat /\ disturbed'[j] \in Nat
  BY PossibleType, PossibleNext
<1> QED
  BY <1>1 DEF Allowed

LEMMA DisturbType ==
    ASSUME TypeOK, NEW S, Disturb(S), NEW j \in Job
    PROVE  disturbed'[j] = IF j \in S THEN disturbed[j] + 1 ELSE disturbed[j]
BY DEF Disturb, TypeOK

\* A fetch is the first of an unowned job, or a disturbance.
LEMMA FetchAllowed ==
    ASSUME TypeOK, TypeOK', NEW a \in Attempt, NEW i \in Job, Fetch(a, i), NEW j \in Job, Allowed(j)
    PROVE  Allowed(j)'
<1>1. /\ pc' = [pc EXCEPT ![a] = "starting"] /\ work' = [work EXCEPT ![a] = i]
      /\ claim' = [claim EXCEPT ![i] = WorkerOf[a]]
      /\ pc[a] = "free" /\ work[a] = Nobody
      /\ docs' = docs /\ verdicts' = verdicts
      /\ IF Working(i) = {} THEN disturbed' = disturbed ELSE Disturb({i})
  BY DEF Fetch, Phase, TypeOK
<1>2. i \in docs
  BY DEF Fetch, Fetchable
<1>3. CASE j # i
  <2>1. Unspoken(j)' = Unspoken(j) /\ (Owned(j)' <=> Owned(j))
    BY <1>1, <1>3, ConstAssumption DEF Unspoken, Owned, TypeOK
  <2>2. disturbed'[j] = disturbed[j]
    BY <1>1, <1>3, DisturbType
  <2>3. Possible(j)' <= Possible(j)
    BY <1>1, <2>1, NothingMore
  <2> QED
    BY <1>1, <2>1, <2>2, <2>3, StillAllowed
<1>4. CASE j = i
  <2>1. Unspoken(j)' \subseteq Unspoken(j) \cup {a}
    BY <1>1, <1>4 DEF Unspoken, TypeOK
  <2>2. Cardinality(Unspoken(j)') <= Cardinality(Unspoken(j)) + 1 /\ Cardinality(Unspoken(j)') \in Nat
    BY <2>1, PossibleType, OneMore, FS_CardinalityType
  <2>3. Possible(j)' <= Possible(j) + 1 /\ Possible(j)' \in Nat
    BY <1>1, <2>2, PossibleType DEF Possible
  <2>4. Owned(j)'
    BY <1>1, <1>4 DEF Owned, TypeOK
  <2>5. CASE Working(i) = {}
    <3>1. ~Owned(j)
      BY <1>4, <2>5 DEF Owned, Working
    <3>2. Possible(j) <= disturbed[j]
      BY <1>2, <1>4, <3>1 DEF Allowed
    <3> QED
      BY <1>1, <2>3, <2>4, <2>5, <3>2, PossibleType DEF Allowed
  <2>6. CASE Working(i) # {}
    <3>1. disturbed'[j] = disturbed[j] + 1
      BY <1>1, <1>4, <2>6, DisturbType
    <3> QED
      BY <2>3, <2>4, <3>1, PossibleType DEF Allowed
  <2> QED
    BY <2>5, <2>6
<1> QED
  BY <1>3, <1>4

\* The verdict an attempt tells was one of the possible ones.
LEMMA TellAllowed ==
    ASSUME TypeOK, TypeOK', NEW a \in Attempt, Tell(a), NEW j \in Job, Allowed(j)
    PROVE  Allowed(j)'
<1>1. /\ pc' = [pc EXCEPT ![a] = "completing"] /\ work' = work /\ claim' = claim
      /\ docs' = docs /\ verdicts' = [verdicts EXCEPT ![work[a]] = @ + 1]
      /\ pc[a] = "telling" /\ work[a] \in Job /\ disturbed' = disturbed
  BY DEF Tell, Phase, TypeOK, queue
<1>2. Owned(j)' <=> Owned(j)
  BY <1>1 DEF Owned
<1>3. Possible(j)' <= Possible(j)
  <2>1. CASE work[a] # j
    <3>1. Unspoken(j)' \subseteq Unspoken(j) /\ verdicts'[j] = verdicts[j]
      BY <1>1, <2>1 DEF Unspoken, TypeOK
    <3> QED
      BY <3>1, NothingMore
  <2>2. CASE work[a] = j
    <3>1. a \in Unspoken(j) /\ Unspoken(j)' \subseteq Unspoken(j) \ {a}
      BY <1>1, <2>2 DEF Unspoken, TypeOK
    <3>2. verdicts'[j] = verdicts[j] + 1
      BY <1>1, <2>2 DEF TypeOK
    <3>3. Cardinality(Unspoken(j)') <= Cardinality(Unspoken(j)) - 1
      BY <3>1, OneLess
    <3>4. /\ Cardinality(Unspoken(j)) \in Nat /\ Cardinality(Unspoken(j)') \in Nat
          /\ verdicts[j] \in Nat
      BY PossibleType, PossibleNext
    <3> QED
      BY <3>2, <3>3, <3>4 DEF Possible
  <2> QED
    BY <2>1, <2>2
<1> QED
  BY <1>1, <1>2, <1>3, StillAllowed

\* An attempt that leaves takes its ownership along: it was none, or it deletes
\* the job, or the command failed.
LEMMA LeaveAllowed ==
    ASSUME TypeOK, TypeOK', NEW a \in Attempt, Leave(a), NEW j \in Job, Allowed(j),
           verdicts' = verdicts, claim' = claim, docs' \subseteq docs,
           \/ Disturb({work[a]})
           \/ /\ disturbed' = disturbed
              /\ Mine(a) => work[a] \notin docs'
    PROVE  Allowed(j)'
<1>1. pc' = [pc EXCEPT ![a] = "free"] /\ work' = [work EXCEPT ![a] = Nobody]
  BY DEF Leave, Phase
<1>2. Unspoken(j)' \subseteq Unspoken(j)
  BY <1>1 DEF Unspoken, TypeOK
<1>3. Possible(j)' <= Possible(j)
  BY <1>2, NothingMore
<1>4. CASE work[a] # j
  <2>1. Owned(j) => Owned(j)'
    BY <1>1, <1>4 DEF Owned, TypeOK
  <2>2. disturbed'[j] = disturbed[j]
    BY <1>4, DisturbType
  <2> QED
    BY <1>3, <2>1, <2>2, StillAllowed
<1>5. CASE work[a] = j
  <2>1. CASE Disturb({work[a]})
    BY <1>3, <1>5, <2>1, DisturbType, StillAllowed
  <2>2. CASE disturbed' = disturbed /\ (Mine(a) => work[a] \notin docs')
    <3>1. j \in docs' => (Owned(j) => Owned(j)')
      <4> SUFFICES ASSUME j \in docs', NEW b \in Attempt, work[b] = j, claim[j] = WorkerOf[b]
                   PROVE  Owned(j)'
        BY DEF Owned
      <4>1. b # a
        BY <1>5, <2>2 DEF Mine
      <4> QED
        BY <1>1, <4>1 DEF Owned, TypeOK
    <3> QED
      BY <1>3, <2>2, <3>1, StillAllowed
  <2> QED
    BY <2>1, <2>2
<1> QED
  BY <1>4, <1>5

\* A crash disturbs every job its process owned and worked on.
LEMMA CrashAllowed ==
    ASSUME TypeOK, TypeOK', NEW w \in Worker, Crash(w), NEW j \in Job, Allowed(j)
    PROVE  Allowed(j)'
<1> DEFINE gone == {a \in Attempt : WorkerOf[a] = w}
<1>1. /\ pc' = [a \in Attempt |-> IF a \in gone THEN "free" ELSE pc[a]]
      /\ work' = [a \in Attempt |-> IF a \in gone THEN Nobody ELSE work[a]]
      /\ claim' = [i \in Job |-> IF claim[i] = w THEN Nobody ELSE claim[i]]
      /\ docs' = docs /\ verdicts' = verdicts
      /\ Disturb({work[a] : a \in gone} \cap Job)
  BY DEF Crash
<1>2. Unspoken(j)' \subseteq Unspoken(j)
  BY <1>1 DEF Unspoken, TypeOK
<1>3. Possible(j)' <= Possible(j)
  BY <1>1, <1>2, NothingMore
<1>4. CASE j \in {work[a] : a \in gone}
  BY <1>1, <1>3, <1>4, DisturbType, StillAllowed
<1>5. CASE j \notin {work[a] : a \in gone}
  <2>1. disturbed'[j] = disturbed[j]
    BY <1>1, <1>5, DisturbType
  <2>2. Owned(j) => Owned(j)'
    <3> SUFFICES ASSUME NEW b \in Attempt, work[b] = j, claim[j] = WorkerOf[b]
                 PROVE  Owned(j)'
      BY DEF Owned
    <3>1. b \notin gone
      BY <1>5
    <3>2. work'[b] = j /\ claim'[j] = WorkerOf[b]
      BY <1>1, <3>1
    <3> QED
      BY <3>2 DEF Owned
  <2> QED
    BY <1>1, <1>3, <2>1, <2>2, StillAllowed
<1> QED
  BY <1>4, <1>5

\* The other steps start no attempt, tell nothing, and take nobody's job but by
\* deleting it.
LEMMA QuietAllowed ==
    ASSUME TypeOK, TypeOK', NEW j \in Job, Allowed(j),
           verdicts' = verdicts, disturbed' = disturbed, claim' = claim, work' = work,
           docs' \subseteq docs,
           \A a \in Attempt : pc'[a] = pc[a] \/ pc'[a] = "completing"
                              \/ pc[a] \in {"starting", "working", "telling"}
    PROVE  Allowed(j)'
<1>1. Unspoken(j)' \subseteq Unspoken(j)
  BY DEF Unspoken
<1>2. Possible(j)' <= Possible(j)
  BY <1>1, NothingMore
<1>3. Owned(j)' <=> Owned(j)
  BY DEF Owned
<1> QED
  BY <1>2, <1>3, StillAllowed

\* A job that is submitted has had no attempt.
LEMMA SubmitAllowed ==
    ASSUME TypeOK, TypeOK', FutureInv, NEW i \in Job, Submit(i), NEW j \in Job, Allowed(j)
    PROVE  Allowed(j)'
<1>1. /\ verdicts' = verdicts /\ disturbed' = disturbed /\ claim' = claim
      /\ work' = work /\ pc' = pc /\ docs' = docs \cup {i} /\ i \notin submitted
  BY DEF Submit, heard
<1>2. Unspoken(j)' = Unspoken(j) /\ (Owned(j)' <=> Owned(j))
  BY <1>1 DEF Unspoken, Owned
<1>3. Possible(j)' <= Possible(j)
  BY <1>1, <1>2, NothingMore
<1>4. CASE i = j
  <2>1. Unspoken(j) = {} /\ verdicts[j] = 0
    BY <1>1, <1>4 DEF FutureInv, Unspoken
  <2>2. Possible(j) = 0
    BY <2>1, FS_EmptySet DEF Possible
  <2> QED
    BY <1>1, <1>3, <2>2, PossibleType, PossibleNext DEF Allowed
<1>5. CASE i # j
  BY <1>1, <1>2, <1>3, <1>5, StillAllowed
<1> QED
  BY <1>4, <1>5

LEMMA FutureStep == TypeOK /\ FutureInv /\ [Next]_vars => FutureInv'
<1> SUFFICES ASSUME TypeOK, FutureInv, [Next]_vars PROVE FutureInv'
  OBVIOUS
<1> USE ConstAssumption DEF TypeOK, FutureInv, queue, heard
<1>1. ASSUME NEW a \in Attempt, Started(a) \/ ThreadStart(a) \/ ThreadEnd(a) \/ Finish(a) \/ Timeout(a)
      PROVE FutureInv'
  BY <1>1 DEF Started, ThreadStart, ThreadEnd, Finish, Timeout
<1>2. ASSUME NEW a \in Attempt, Refresh(a) PROVE FutureInv'
  BY <1>2 DEF Refresh, Leave
<1>3. ASSUME NEW a \in Attempt, RefreshFails(a) PROVE FutureInv'
  BY <1>3 DEF RefreshFails, Leave
<1>4. ASSUME NEW a \in Attempt, Tell(a) PROVE FutureInv'
  BY <1>4 DEF Tell
<1>5. ASSUME NEW a \in Attempt, Complete(a) \/ CompleteFails(a) PROVE FutureInv'
  BY <1>5 DEF Complete, CompleteFails, Leave
<1>6. ASSUME NEW a \in Attempt, NEW j \in Job, Fetch(a, j) PROVE FutureInv'
  BY <1>6 DEF Fetch, Fetchable
<1>7. ASSUME NEW w \in Worker, Crash(w) PROVE FutureInv'
  BY <1>7 DEF Crash
<1>8. ASSUME NEW j \in Job, Submit(j) \/ Cancel(j) \/ TellCancel(j) \/ CancelCut(j) \/ Expire(j)
      PROVE FutureInv'
  BY <1>8 DEF Submit, Cancel, TellCancel, CancelCut, Expire
<1>9. CASE Tick
  BY <1>9 DEF Tick
<1>10. CASE UNCHANGED vars
  BY <1>10 DEF vars
<1> QED
  BY <1>1, <1>2, <1>3, <1>4, <1>5, <1>6, <1>7, <1>8, <1>9, <1>10 DEF Next, Moves, Step

LEMMA VerdictStep == TypeOK /\ VerdictInv /\ [Next]_vars => VerdictInv'
<1> SUFFICES ASSUME TypeOK, VerdictInv, [Next]_vars, NEW j \in Job PROVE Allowed(j)'
  BY FutureStep DEF VerdictInv
<1>1. TypeOK /\ TypeOK' /\ Allowed(j) /\ FutureInv
  BY TypeStep DEF VerdictInv
<1>2. ASSUME NEW a \in Attempt, Started(a) \/ Finish(a) \/ Timeout(a) PROVE Allowed(j)'
  BY <1>1, <1>2, QuietAllowed DEF Started, Finish, Timeout, Phase, TypeOK, queue, heard
<1>3. ASSUME NEW a \in Attempt, ThreadStart(a) \/ ThreadEnd(a) PROVE Allowed(j)'
  BY <1>1, <1>3, QuietAllowed DEF ThreadStart, ThreadEnd, queue, heard
<1>4. ASSUME NEW a \in Attempt, Refresh(a) PROVE Allowed(j)'
  <2>1. CASE Phase(a, "working") /\ UNCHANGED <<work, thread>>
    BY <1>1, <1>4, <2>1, QuietAllowed DEF Refresh, Phase, TypeOK, heard
  <2>2. CASE ~Mine(a) /\ Leave(a)
    BY <1>1, <1>4, <2>2, LeaveAllowed DEF Refresh, heard
  <2> QED
    BY <1>4, <2>1, <2>2 DEF Refresh
<1>5. ASSUME NEW a \in Attempt, RefreshFails(a) PROVE Allowed(j)'
  BY <1>1, <1>5, LeaveAllowed DEF RefreshFails
<1>6. ASSUME NEW a \in Attempt, Tell(a) PROVE Allowed(j)'
  BY <1>1, <1>6, TellAllowed
<1>7. ASSUME NEW a \in Attempt, Complete(a) PROVE Allowed(j)'
  BY <1>1, <1>7, LeaveAllowed DEF Complete, heard
<1>8. ASSUME NEW a \in Attempt, CompleteFails(a) PROVE Allowed(j)'
  BY <1>1, <1>8, LeaveAllowed DEF CompleteFails
<1>9. ASSUME NEW a \in Attempt, NEW i \in Job, Fetch(a, i) PROVE Allowed(j)'
  BY <1>1, <1>9, FetchAllowed
<1>10. ASSUME NEW w \in Worker, Crash(w) PROVE Allowed(j)'
  BY <1>1, <1>10, CrashAllowed
<1>11. ASSUME NEW i \in Job, Submit(i) PROVE Allowed(j)'
  BY <1>1, <1>11, SubmitAllowed
<1>12. ASSUME NEW i \in Job, Cancel(i) \/ TellCancel(i) \/ CancelCut(i) \/ Expire(i)
       PROVE Allowed(j)'
  BY <1>1, <1>12, QuietAllowed DEF Cancel, TellCancel, CancelCut, Expire, queue, heard
<1>13. CASE Tick
  BY <1>1, <1>13, QuietAllowed DEF Tick, heard
<1>14. CASE UNCHANGED vars
  BY <1>1, <1>14, QuietAllowed DEF vars
<1> QED
  BY <1>2, <1>3, <1>4, <1>5, <1>6, <1>7, <1>8, <1>9, <1>10, <1>11, <1>12, <1>13, <1>14
     DEF Next, Moves, Step

\* A job is told one verdict, and one more for each crash, failed command or hold
\* that lapsed under a living attempt (process/mod.rs:162-176); and unless it has a
\* time-to-live or is cancelled, it leaves the collection only after a verdict.
THEOREM JobsHearTheirVerdict == Spec => []JobsAreTold
<1>1. Init => VerdictInv
  <2> SUFFICES ASSUME Init, NEW j \in Job PROVE Allowed(j) /\ FutureInv
    BY DEF VerdictInv, FutureInv, Init
  <2>1. FutureInv
    BY ConstAssumption DEF Init, FutureInv
  <2>2. Unspoken(j) = {} /\ verdicts[j] = 0 /\ disturbed[j] = 0
    BY DEF Init, Unspoken
  <2>3. Possible(j) = 0
    BY <2>2, FS_EmptySet DEF Possible
  <2> QED
    BY <2>1, <2>2, <2>3 DEF Allowed
<1>2. TypeOK /\ VerdictInv => VerdictsNeedDisturbance
  <2> SUFFICES ASSUME TypeOK, VerdictInv, NEW j \in Job PROVE verdicts[j] <= 1 + disturbed[j]
    BY DEF VerdictsNeedDisturbance
  <2> QED
    BY PossibleType DEF VerdictInv, Allowed, Possible
<1>3. NoSilentRemoval /\ VerdictsNeedDisturbance => JobsAreTold
  BY DEF JobsAreTold
<1>4. QED
  BY <1>1, <1>2, <1>3, VerdictStep, NothingVanishes, TypeInit, TypeStep, PTL DEF Spec

-----------------------------------------------------------------------------
(* The profile pictures.  The invariant says where a picture can be while  *)
(* its upload runs (PendingInv, ActiveInv, RemovedInv), and why a change   *)
(* that no callback will end is pending (StartedInv, UnknownInv, StuckInv) *)

Settled(p) == up[p] \in {"done", "gone"}

\* The user waits for p, or is about to.
Waiting(p) == up[p] \in {"submitted", "inserted"} \/ pending = p

\* No callback of p is left or will come.
Quiet(p) == job[p] = "over" /\ \A k \in P!Kind : <<p, k>> \notin msgs

\* A pending picture was never active, so a repeated success makes it so only once.
PendingInv == \A p \in Pic : pending = p => Settled(p) /\ active # p /\ p \notin dismissed

ActiveInv ==
    \A p \in Pic : active = p =>
        /\ Settled(p)
        /\ p \notin dismissed
        /\ doc[p] = "ready" \/ "cancelled" \in cause[p]

RemovedInv == \A p \in dismissed : Settled(p)

StartedInv == \A p \in Pic : Waiting(p) => job[p] # "none"

\* A callback finds the picture of the user who waits, or another one took it away.
UnknownInv ==
    \A p \in Pic : (up[p] = "inserted" \/ pending = p) /\ doc[p] = "none" => cause[p] # {}

StuckInv == \A p \in Pic : Waiting(p) /\ Quiet(p) => cause[p] # {}

StyleInv == P!TypeOK /\ PendingInv /\ ActiveInv /\ RemovedInv
LockInv == StartedInv /\ UnknownInv /\ StuckInv

PictureStep(p) ==
    \/ P!Check(p) \/ P!Submit(p) \/ P!Insert(p) \/ P!SetPending(p) \/ P!Abort(p)
    \/ P!Success(p) \/ P!Fail(p) \/ P!Cancel(p)
    \/ \E k \in P!Kind : P!Report(p, k) \/ P!HandlerFails(p, k)

-----------------------------------------------------------------------------

LEMMA PictureSteps == P!Next <=> (\E p \in Pic : PictureStep(p)) \/ P!Remove
BY DEF P!Next, PictureStep

LEMMA PicturesInit == P!Init => StyleInv /\ LockInv
BY UploadsAssumption DEF P!Init, StyleInv, LockInv, P!TypeOK, PendingInv, ActiveInv, RemovedInv, StartedInv,
   UnknownInv, StuckInv, Settled, Waiting, Quiet

\* The steps of one upload and of its callbacks keep the types.
LEMMA PictureTypeStep ==
    ASSUME P!TypeOK, NEW p \in Pic, PictureStep(p)
    PROVE  P!TypeOK'
<1> USE DEF P!TypeOK, P!Goto, P!SetDoc, P!Because, P!Acknowledge, P!NoteEarly, P!style, P!stream, P!history, P!Kind
<1>1. CASE P!Check(p)
  BY <1>1, UploadsAssumption DEF P!Check
<1>2. CASE P!Submit(p)
  BY <1>2, UploadsAssumption DEF P!Submit
<1>3. CASE P!Insert(p)
  BY <1>3, UploadsAssumption DEF P!Insert
<1>4. CASE P!SetPending(p)
  BY <1>4, UploadsAssumption DEF P!SetPending
<1>5. CASE P!Abort(p)
  BY <1>5, UploadsAssumption DEF P!Abort
<1>6. CASE P!Success(p)
  BY <1>6, UploadsAssumption DEF P!Success
<1>7. CASE P!Fail(p)
  BY <1>7, UploadsAssumption DEF P!Fail
<1>8. CASE P!Cancel(p)
  BY <1>8, UploadsAssumption DEF P!Cancel
<1>9. ASSUME NEW k \in P!Kind, P!Report(p, k)
      PROVE  P!TypeOK'
  BY <1>9 DEF P!Report
<1>10. ASSUME NEW k \in P!Kind, P!HandlerFails(p, k)
       PROVE  P!TypeOK'
  BY <1>10 DEF P!HandlerFails
<1> QED
  BY <1>1, <1>2, <1>3, <1>4, <1>5, <1>6, <1>7, <1>8, <1>9, <1>10 DEF PictureStep

\* The steps of one upload leave the others alone.
LEMMA OthersStay ==
    ASSUME P!TypeOK, NEW p \in Pic, PictureStep(p)
    PROVE  /\ \A q \in Pic \ {p} :
                /\ up'[q] = up[q] /\ doc'[q] = doc[q] /\ job'[q] = job[q] /\ cause'[q] = cause[q]
                /\ \A k \in P!Kind : <<q, k>> \in msgs' <=> <<q, k>> \in msgs
           /\ pending' \in {pending, p, None}
           /\ active' \in {active, p}
           /\ dismissed' = dismissed
<1> USE DEF P!TypeOK, P!Goto, P!SetDoc, P!Because, P!Acknowledge, P!NoteEarly, P!style, P!stream, P!history
<1>1. CASE P!Check(p)
  BY <1>1 DEF P!Check
<1>2. CASE P!Submit(p)
  BY <1>2 DEF P!Submit
<1>3. CASE P!Insert(p)
  BY <1>3 DEF P!Insert
<1>4. CASE P!SetPending(p)
  BY <1>4 DEF P!SetPending
<1>5. CASE P!Abort(p)
  BY <1>5 DEF P!Abort
<1>6. CASE P!Success(p)
  BY <1>6 DEF P!Success
<1>7. CASE P!Fail(p)
  BY <1>7 DEF P!Fail
<1>8. CASE P!Cancel(p)
  BY <1>8 DEF P!Cancel
<1>9. CASE \E k \in P!Kind : P!Report(p, k)
  BY <1>9 DEF P!Report
<1>10. CASE \E k \in P!Kind : P!HandlerFails(p, k)
  BY <1>10 DEF P!HandlerFails
<1> QED
  BY <1>1, <1>2, <1>3, <1>4, <1>5, <1>6, <1>7, <1>8, <1>9, <1>10 DEF PictureStep

\* Where a picture is in the user follows its upload.
LEMMA StyleStep ==
    ASSUME StyleInv, NEW p \in Pic, PictureStep(p)
    PROVE  StyleInv'
<1> USE UploadsAssumption DEF StyleInv, PendingInv, ActiveInv, RemovedInv, Settled
<1> USE DEF P!TypeOK, P!Goto, P!SetDoc, P!Because, P!Acknowledge, P!NoteEarly, P!style, P!stream, P!history, P!Kind
<1>1. P!TypeOK /\ P!TypeOK'
  BY PictureTypeStep
<1>2. CASE P!Check(p)
  BY <1>1, <1>2, OthersStay DEF P!Check
<1>3. CASE P!Submit(p)
  BY <1>1, <1>3, OthersStay DEF P!Submit
<1>4. CASE P!Insert(p)
  BY <1>1, <1>4, OthersStay DEF P!Insert
<1>5. CASE P!SetPending(p)
  BY <1>1, <1>5, OthersStay DEF P!SetPending
<1>6. CASE P!Abort(p)
  BY <1>1, <1>6, OthersStay DEF P!Abort
<1>7. CASE P!Success(p)
  BY <1>1, <1>7, OthersStay DEF P!Success
<1>8. CASE P!Fail(p)
  BY <1>1, <1>8, OthersStay DEF P!Fail
<1>9. CASE P!Cancel(p)
  BY <1>1, <1>9, OthersStay DEF P!Cancel
<1>10. CASE \E k \in P!Kind : P!Report(p, k)
  BY <1>1, <1>10, OthersStay DEF P!Report
<1>11. CASE \E k \in P!Kind : P!HandlerFails(p, k)
  BY <1>1, <1>11, OthersStay DEF P!HandlerFails
<1> QED
  BY <1>2, <1>3, <1>4, <1>5, <1>6, <1>7, <1>8, <1>9, <1>10, <1>11 DEF PictureStep

\* A change stays pending without an end in sight only with a cause.
LEMMA LockStep ==
    ASSUME StyleInv, LockInv, NEW p \in Pic, PictureStep(p)
    PROVE  LockInv'
<1> USE UploadsAssumption DEF StyleInv, PendingInv, LockInv, StartedInv, UnknownInv, StuckInv, Settled, Waiting, Quiet
<1> USE DEF P!TypeOK, P!Goto, P!SetDoc, P!Because, P!Acknowledge, P!NoteEarly, P!style, P!stream, P!history, P!Kind
<1>1. P!TypeOK /\ P!TypeOK'
  BY PictureTypeStep
<1>2. CASE P!Check(p)
  BY <1>1, <1>2, OthersStay DEF P!Check
<1>3. CASE P!Submit(p)
  BY <1>1, <1>3, OthersStay DEF P!Submit
<1>4. CASE P!Insert(p)
  BY <1>1, <1>4, OthersStay DEF P!Insert
<1>5. CASE P!SetPending(p)
  BY <1>1, <1>5, OthersStay DEF P!SetPending
<1>6. CASE P!Abort(p)
  BY <1>1, <1>6, OthersStay DEF P!Abort
<1>7. CASE P!Success(p)
  BY <1>1, <1>7, OthersStay, SMTT(60) DEF P!Success
<1>8. CASE P!Fail(p)
  BY <1>1, <1>8, OthersStay DEF P!Fail
<1>9. CASE P!Cancel(p)
  BY <1>1, <1>9, OthersStay DEF P!Cancel
<1>10. CASE \E k \in P!Kind : P!Report(p, k)
  BY <1>1, <1>10, OthersStay DEF P!Report
<1>11. CASE \E k \in P!Kind : P!HandlerFails(p, k)
  BY <1>1, <1>11, OthersStay DEF P!HandlerFails
<1> QED
  BY <1>2, <1>3, <1>4, <1>5, <1>6, <1>7, <1>8, <1>9, <1>10, <1>11 DEF PictureStep

-----------------------------------------------------------------------------

LEMMA PicturesInductive == StyleInv /\ LockInv /\ [P!Next]_(P!vars) => StyleInv' /\ LockInv'
<1> SUFFICES ASSUME StyleInv, LockInv, [P!Next]_(P!vars)
             PROVE  StyleInv' /\ LockInv'
  OBVIOUS
<1>1. ASSUME NEW p \in Pic, PictureStep(p)
      PROVE  StyleInv' /\ LockInv'
  BY <1>1, StyleStep, LockStep
<1>2. CASE P!Remove
  BY <1>2, UploadsAssumption DEF P!Remove, P!stream, StyleInv, P!TypeOK, PendingInv, ActiveInv, RemovedInv,
     LockInv, StartedInv, UnknownInv, StuckInv, Settled, Waiting, Quiet
<1>3. CASE UNCHANGED P!vars
  BY <1>3 DEF P!vars, StyleInv, P!TypeOK, PendingInv, ActiveInv, RemovedInv,
     LockInv, StartedInv, UnknownInv, StuckInv, Settled, Waiting, Quiet
<1> QED
  BY <1>1, <1>2, <1>3, PictureSteps

THEOREM PicturesAlways == P!Spec => [](StyleInv /\ LockInv)
BY PicturesInit, PicturesInductive, PTL DEF P!Spec

\* Every variable keeps its type.
THEOREM PicturesTyped == P!Spec => []P!TypeOK
<1>1. StyleInv => P!TypeOK
  BY DEF StyleInv
<1> QED
  BY <1>1, PicturesAlways, PTL

\* The active picture has its images, unless a cancellation deleted it: no late or
\* repeated callback of any upload takes them away (profile_picture.rs:107-165).
THEOREM ActiveStaysReady == P!Spec => []ActiveIsReady
<1>1. StyleInv => ActiveIsReady
  BY UploadsAssumption DEF StyleInv, P!TypeOK, ActiveInv, ActiveIsReady, P!ActiveIsReady
<1> QED
  BY <1>1, PicturesAlways, PTL

\* A picture the user removed is not brought back by a repeated success
\* (profile_picture.rs:55-83).
THEOREM RemovalIsFinal == P!Spec => []RemovedStaysRemoved
<1>1. StyleInv => RemovedStaysRemoved
  BY UploadsAssumption DEF StyleInv, P!TypeOK, ActiveInv, RemovedStaysRemoved, P!RemovedStaysRemoved
<1> QED
  BY <1>1, PicturesAlways, PTL

\* A user locked out of uploads owes it to a callback that was lost, that came
\* before the upload had set the pending picture, or that was a cancellation
\* (users.rs:77-82, 156-180).
THEOREM LockoutsHaveCause == P!Spec => []LockNeedsCause
<1>1. LockInv => LockNeedsCause
  BY DEF LockInv, StuckInv, Waiting, Quiet, LockNeedsCause, P!LockNeedsCause
<1> QED
  BY <1>1, PicturesAlways, PTL

-----------------------------------------------------------------------------
(* The emotes.  A mutation decides on a copy: what it writes answers the   *)
(* requests that copy knew of, and DecidedInv says why that is enough.     *)

\* Copies and additions to sets are of emotes that were inserted, and an emote is
\* inserted by the last step of its upload.
CopyInv ==
    /\ \A c \in Call : copy[c] # None => copy[c].emote \in exists
    /\ asked # None => asked \in exists
    /\ \A e \in exists : upload[e] = "ended"

EmoteInv == E!TypeOK /\ CopyInv

\* An emote that waits for its images has a callback to come, or one that was lost
\* - even before it was inserted.
AwaitedInv ==
    \A e \in Emote :
        (upload[e] = "submitted" \/ e \in exists \ (ready \cup deleted))
            /\ emoteJob[e] = "ended" /\ box[e] = {} => e \in lost

DecidedInv == E!PendingIsUndecided /\ E!RequestsOfLiveEmotes

EmoteStep(e) ==
    \/ E!Count(e) \/ E!Submit(e) \/ E!Insert(e) \/ E!Abort(e)
    \/ E!HandleSuccess(e) \/ E!HandleFail(e) \/ E!AskReads(e)
    \/ \E v \in {"success", "fail"} : E!Report(e, v) \/ E!CallbackFails(e, v)

\* A call, but for its loading.
CallStep(c) ==
    \/ \E new \in SUBSET E!Flag : E!MaySet(c, new) /\ E!WriteFlags(c, new)
    \/ E!Leave(c) \/ E!Delete(c) \/ E!Merge(c)

\* Both mutations of the flags write what a copy allows.
LEMMA EmoteSteps ==
    ASSUME E!TypeOK, E!Next
    PROVE  \/ \E e \in Emote : EmoteStep(e)
           \/ \E c \in Call, e \in Emote : E!Load(c, e)
           \/ \E c \in Call : copy[c] # None /\ CallStep(c)
           \/ E!AskWrites
<1>1. ASSUME NEW c \in Call, NEW new \in SUBSET E!Flag, E!SetFlags(c, new)
      PROVE  copy[c] # None /\ CallStep(c)
  BY <1>1 DEF E!SetFlags, CallStep
<1>2. ASSUME NEW c \in Call, NEW private \in SUBSET {"private"}, NEW listed \in SUBSET {"listed"},
             E!Update(c, private, listed)
      PROVE  copy[c] # None /\ CallStep(c)
  <2>1. PICK use \in {copy[c].flags \cap {"approved", "denied"}, {"approved"}, {"denied"}} :
            /\ E!MaySet(c, private \cup listed \cup use)
            /\ E!WriteFlags(c, private \cup listed \cup use)
    BY <1>2 DEF E!Update
  <2>2. private \cup listed \cup use \in SUBSET E!Flag
    BY DEF E!Flag
  <2> QED
    BY <1>2, <2>1, <2>2 DEF E!Update, CallStep
<1>3. ASSUME NEW c \in Call, E!Leave(c) \/ E!Delete(c) \/ E!Merge(c)
      PROVE  copy[c] # None /\ CallStep(c)
  BY <1>3 DEF E!Leave, E!Delete, E!Merge, CallStep
<1> QED
  BY <1>1, <1>2, <1>3 DEF E!Next, EmoteStep

\* What a copy holds.
LEMMA CopyType ==
    ASSUME EmoteInv, NEW c \in Call, copy[c] # None
    PROVE  /\ copy[c].emote \in exists /\ copy[c].emote \in Emote
           /\ copy[c].flags \in SUBSET E!Flag
BY DEF EmoteInv, CopyInv, E!TypeOK

\* A call that ends has no copy any more.
LEMMA Forgetting ==
    ASSUME NEW S, NEW f \in [Call -> S \cup {None}], NEW c \in Call
    PROVE  /\ [f EXCEPT ![c] = None] \in [Call -> S \cup {None}]
           /\ \A d \in Call : [f EXCEPT ![c] = None][d] \in {f[d], None}
OBVIOUS

\* Closing a request closes it if it is pending, and leaves all others.
LEMMA Closing ==
    ASSUME NEW status \in [Emote -> E!Status], NEW e \in Emote
    PROVE  /\ E!Closed(status, e) \in [Emote -> E!Status]
           /\ E!Closed(status, e)[e] # "pending"
           /\ \A f \in Emote : E!Closed(status, e)[f] \in {status[f], "closed"}
           /\ \A f \in Emote \ {e} : E!Closed(status, e)[f] = status[f]
BY DEF E!Closed, E!Status

LEMMA EmotesInit == E!Init => EmoteInv /\ AwaitedInv /\ DecidedInv
BY DEF E!Init, EmoteInv, E!TypeOK, E!Status, CopyInv, AwaitedInv, DecidedInv,
   E!PendingIsUndecided, E!RequestsOfLiveEmotes

LEMMA EmoteTypeStep == EmoteInv /\ E!Next => EmoteInv'
<1> SUFFICES ASSUME EmoteInv, E!Next PROVE EmoteInv'
  OBVIOUS
<1>0. E!TypeOK /\ CopyInv
  BY DEF EmoteInv
<1> USE DEF E!uploads, E!documents, E!requests
<1>1. ASSUME NEW e \in Emote, E!Count(e) \/ E!Submit(e) \/ E!Insert(e) \/ E!Abort(e) \/ E!AskReads(e)
      PROVE  EmoteInv'
  <2>1. CASE E!Count(e)
    BY <1>0, <2>1 DEF E!Count, EmoteInv, CopyInv, E!TypeOK
  <2>2. CASE E!Submit(e)
    BY <1>0, <2>2 DEF E!Submit, EmoteInv, CopyInv, E!TypeOK
  <2>3. CASE E!Insert(e)
    <3>1. PICK private \in SUBSET {"private"} : flags' = [flags EXCEPT ![e] = private]
      BY <2>3 DEF E!Insert
    <3>2. flags' \in [Emote -> SUBSET E!Flag]
      BY <1>0, <3>1 DEF E!TypeOK, E!Flag
    <3> QED
      BY <1>0, <2>3, <3>2 DEF E!Insert, EmoteInv, CopyInv, E!TypeOK
  <2>4. CASE E!Abort(e)
    BY <1>0, <2>4 DEF E!Abort, EmoteInv, CopyInv, E!TypeOK
  <2>5. CASE E!AskReads(e)
    BY <1>0, <2>5 DEF E!AskReads, E!Live, EmoteInv, CopyInv, E!TypeOK
  <2> QED
    BY <1>1, <2>1, <2>2, <2>3, <2>4, <2>5
<1>2. ASSUME NEW e \in Emote, E!HandleSuccess(e) PROVE EmoteInv'
  BY <1>0, <1>2 DEF E!HandleSuccess, E!Acknowledge, EmoteInv, CopyInv, E!TypeOK, E!Status
<1>3. ASSUME NEW e \in Emote, E!HandleFail(e) PROVE EmoteInv'
  BY <1>0, <1>3 DEF E!HandleFail, E!Acknowledge, EmoteInv, CopyInv, E!TypeOK, E!Status
<1>4. ASSUME NEW e \in Emote, NEW v \in {"success", "fail"}, E!Report(e, v) \/ E!CallbackFails(e, v)
      PROVE  EmoteInv'
  BY <1>0, <1>4 DEF E!Report, E!CallbackFails, E!Acknowledge, EmoteInv, CopyInv, E!TypeOK
<1>5. ASSUME NEW c \in Call, NEW e \in Emote, E!Load(c, e) PROVE EmoteInv'
  <2> DEFINE read == [emote |-> e, flags |-> flags[e], deleted |-> e \in deleted]
  <2>1. read \in [emote : Emote, flags : SUBSET E!Flag, deleted : BOOLEAN] /\ read.emote = e
    BY <1>0 DEF E!TypeOK
  <2>2. copy' = [copy EXCEPT ![c] = read] /\ e \in exists
    BY <1>5 DEF E!Load
  <2> HIDE DEF read
  <2> QED
    BY <1>0, <1>5, <2>1, <2>2 DEF E!Load, EmoteInv, CopyInv, E!TypeOK
<1>6. ASSUME NEW c \in Call, copy[c] # None, NEW new \in SUBSET E!Flag, E!WriteFlags(c, new)
      PROVE  EmoteInv'
  <2>1. copy[c].emote \in exists /\ copy[c].emote \in Emote
    BY <1>6, CopyType
  <2>2. listing' \in [Emote -> E!Status] /\ personal' \in [Emote -> E!Status]
    BY <1>0, <1>6, <2>1, Closing DEF E!WriteFlags, E!TypeOK
  <2>3. flags' \in [Emote -> SUBSET E!Flag] /\ undone' \subseteq undone \cup {copy[c].emote}
    BY <1>0, <1>6, <2>1 DEF E!WriteFlags, E!TypeOK
  <2>4. copy' = [copy EXCEPT ![c] = None]
    BY <1>6 DEF E!WriteFlags
  <2>5. E!Bypassing(c, new) \in SUBSET E!Flag
    BY DEF E!Bypassing
  <2>6. bypassed' \in [Emote -> SUBSET E!Flag]
    BY <1>0, <1>6, <2>5 DEF E!WriteFlags, E!TypeOK
  <2> QED
    BY <1>0, <1>6, <2>1, <2>2, <2>3, <2>4, <2>6, Forgetting DEF E!WriteFlags, EmoteInv, CopyInv, E!TypeOK
<1>7. ASSUME NEW c \in Call, copy[c] # None, E!Leave(c) \/ E!Delete(c) \/ E!Merge(c)
      PROVE  EmoteInv'
  <2>1. copy[c].emote \in exists /\ copy[c].emote \in Emote
    BY <1>7, CopyType
  <2>2. listing' \in [Emote -> E!Status] /\ personal' \in [Emote -> E!Status]
    <3>1. CASE E!Leave(c)
      BY <1>0, <3>1 DEF E!Leave, E!TypeOK
    <3>2. CASE E!Delete(c) \/ E!Merge(c)
      <4>1. /\ listing' = E!Closed(listing, copy[c].emote)
            /\ personal' = E!Closed(personal, copy[c].emote)
        BY <3>2 DEF E!Delete, E!Merge
      <4>2. listing \in [Emote -> E!Status] /\ personal \in [Emote -> E!Status]
        BY <1>0 DEF E!TypeOK
      <4> QED
        BY <2>1, <4>1, <4>2, Closing
    <3> QED
      BY <1>7, <3>1, <3>2
  <2>3. /\ copy' = [copy EXCEPT ![c] = None]
        /\ deleted' \subseteq deleted \cup {copy[c].emote}
        /\ merged' \subseteq merged \cup {copy[c].emote}
        /\ UNCHANGED <<upload, emoteJob, box, exists, ready, flags, asked, bypassed, lost,
                      late, undone>>
    BY <1>7 DEF E!Leave, E!Delete, E!Merge
  <2> QED
    BY <1>0, <2>1, <2>2, <2>3, Forgetting DEF EmoteInv, CopyInv, E!TypeOK
<1>8. ASSUME E!AskWrites PROVE EmoteInv'
  <2>1. personal' \in {personal, [personal EXCEPT ![asked] = "pending"]} /\ asked' = None
    BY <1>8 DEF E!AskWrites
  <2>2. personal' \in [Emote -> E!Status] /\ asked \in exists
    BY <1>0, <1>8, <2>1 DEF E!AskWrites, E!TypeOK, E!Status, CopyInv
  <2>3. late' \subseteq late \cup {asked} /\ undone' \subseteq undone \cup {asked}
    BY <1>8 DEF E!AskWrites
  <2>4. UNCHANGED <<upload, emoteJob, box, exists, ready, deleted, merged, flags, listing, copy, bypassed,
                      lost>>
    BY <1>8 DEF E!AskWrites
  <2> QED
    BY <1>0, <2>1, <2>2, <2>3, <2>4 DEF EmoteInv, CopyInv, E!TypeOK
<1> QED
  BY <1>0, <1>1, <1>2, <1>3, <1>4, <1>5, <1>6, <1>7, <1>8, EmoteSteps DEF EmoteStep, CallStep

\* The last callback of an upload finds the emote or is lost.
LEMMA AwaitedStep == EmoteInv /\ AwaitedInv /\ E!Next => AwaitedInv'
<1> SUFFICES ASSUME EmoteInv, AwaitedInv, E!Next PROVE AwaitedInv'
  OBVIOUS
<1>0. E!TypeOK /\ CopyInv
  BY DEF EmoteInv
<1> USE DEF AwaitedInv, E!uploads, E!documents, E!requests
<1>1. ASSUME NEW e \in Emote, E!Count(e) \/ E!Submit(e) \/ E!Insert(e) \/ E!Abort(e) \/ E!AskReads(e)
      PROVE  AwaitedInv'
  BY <1>0, <1>1 DEF E!Count, E!Submit, E!Insert, E!Abort, E!AskReads, E!TypeOK, CopyInv
<1>2. ASSUME NEW e \in Emote, E!HandleSuccess(e) PROVE AwaitedInv'
  BY <1>0, <1>2 DEF E!HandleSuccess, E!Acknowledge, E!TypeOK, CopyInv
<1>3. ASSUME NEW e \in Emote, E!HandleFail(e) PROVE AwaitedInv'
  BY <1>0, <1>3 DEF E!HandleFail, E!Acknowledge, E!TypeOK, CopyInv
<1>4. ASSUME NEW e \in Emote, NEW v \in {"success", "fail"}, E!Report(e, v) \/ E!CallbackFails(e, v)
      PROVE  AwaitedInv'
  BY <1>0, <1>4 DEF E!Report, E!CallbackFails, E!Acknowledge, E!TypeOK
<1>5. ASSUME NEW c \in Call, NEW e \in Emote, E!Load(c, e) PROVE AwaitedInv'
  BY <1>5 DEF E!Load
<1>6. ASSUME NEW c \in Call, copy[c] # None, NEW new \in SUBSET E!Flag, E!WriteFlags(c, new)
      PROVE  AwaitedInv'
  BY <1>6 DEF E!WriteFlags
<1>7. ASSUME NEW c \in Call, copy[c] # None, E!Leave(c) \/ E!Delete(c) \/ E!Merge(c)
      PROVE  AwaitedInv'
  BY <1>7 DEF E!Leave, E!Delete, E!Merge
<1>8. ASSUME E!AskWrites PROVE AwaitedInv'
  BY <1>8 DEF E!AskWrites
<1> QED
  BY <1>0, <1>1, <1>2, <1>3, <1>4, <1>5, <1>6, <1>7, <1>8, EmoteSteps DEF EmoteStep, CallStep

\* A write from a copy that is not outdated answers the requests its flags decide.
LEMMA WriteDecides ==
    ASSUME EmoteInv, E!PendingIsUndecided, NEW c \in Call, copy[c] # None,
           NEW new \in SUBSET E!Flag, E!MaySet(c, new), E!WriteFlags(c, new)
    PROVE  E!PendingIsUndecided'
<1> DEFINE e == copy[c].emote
<1>1. e \in exists /\ e \in Emote /\ E!TypeOK
  BY CopyType DEF EmoteInv
<1>2. /\ flags' = [flags EXCEPT ![e] = new]
      /\ listing' = IF E!Answers(c, new, {"listed"}) THEN E!Closed(listing, e) ELSE listing
      /\ personal' = IF E!Answers(c, new, {"approved", "denied"}) THEN E!Closed(personal, e)
                     ELSE personal
      /\ undone' = IF copy[c].flags # flags[e] THEN undone \cup {e} ELSE undone
      /\ bypassed' = [bypassed EXCEPT ![e] = E!Bypassing(c, new)]
      /\ exists' = exists
  BY DEF E!WriteFlags, E!documents
<1>3. listing \in [Emote -> E!Status] /\ personal \in [Emote -> E!Status] /\ flags \in [Emote -> SUBSET E!Flag]
      /\ exists \subseteq Emote /\ bypassed \in [Emote -> SUBSET E!Flag]
  BY <1>1 DEF E!TypeOK
<1>9. E!Bypassing(c, new) =
          new \cap (bypassed[e] \cup ((IF c \in ManageRequests THEN {} ELSE new \ copy[c].flags)
                                      \ {"private"}))
  BY DEF E!Bypassing
<1> HIDE DEF e
<1>4. SUFFICES ASSUME NEW f \in exists, f \notin undone'
      PROVE  /\ listing'[f] = "pending" => flags'[f] \cap {"listed"} \subseteq bypassed'[f]
             /\ personal'[f] = "pending" =>
                    flags'[f] \cap {"approved", "denied"} \subseteq bypassed'[f]
  BY <1>2 DEF E!PendingIsUndecided
<1>5. f \notin undone
  BY <1>2, <1>4
<1>6. /\ listing[f] = "pending" => flags[f] \cap {"listed"} \subseteq bypassed[f]
      /\ personal[f] = "pending" => flags[f] \cap {"approved", "denied"} \subseteq bypassed[f]
  BY <1>5 DEF E!PendingIsUndecided
<1>7. CASE f # e
  <2>1. flags'[f] = flags[f] /\ bypassed'[f] = bypassed[f]
    BY <1>2, <1>3, <1>7
  <2>2. listing'[f] = listing[f] /\ personal'[f] = personal[f]
    BY <1>1, <1>2, <1>3, <1>7, Closing
  <2> QED
    BY <1>6, <2>1, <2>2
<1>8. CASE f = e
  <2>1. copy[c].flags = flags[e] /\ flags'[f] = new /\ bypassed'[f] = E!Bypassing(c, new)
    BY <1>1, <1>2, <1>3, <1>4, <1>8
  <2>2. ASSUME NEW decided \in {{"listed"}, {"approved", "denied"}}, ~E!Answers(c, new, decided),
               flags[e] \cap decided \subseteq bypassed[e]
        PROVE  new \cap decided \subseteq E!Bypassing(c, new)
    <3>1. c \in ManageRequests => new \cap decided \subseteq copy[c].flags
      BY <2>2 DEF E!Answers
    <3>2. "private" \notin decided
      OBVIOUS
    <3> QED
      BY <1>9, <2>1, <2>2, <3>1, <3>2
  <2>3. ASSUME listing'[f] = "pending" PROVE new \cap {"listed"} \subseteq E!Bypassing(c, new)
    <3>1. ~E!Answers(c, new, {"listed"}) /\ listing[e] = "pending"
      BY <1>1, <1>2, <1>3, <1>8, <2>3, Closing
    <3> QED
      BY <1>6, <1>8, <2>2, <3>1
  <2>4. ASSUME personal'[f] = "pending"
        PROVE  new \cap {"approved", "denied"} \subseteq E!Bypassing(c, new)
    <3>1. ~E!Answers(c, new, {"approved", "denied"}) /\ personal[e] = "pending"
      BY <1>1, <1>2, <1>3, <1>8, <2>4, Closing
    <3> QED
      BY <1>6, <1>8, <2>2, <3>1
  <2> QED
    BY <2>1, <2>3, <2>4
<1> QED
  BY <1>7, <1>8

\* The flags and the removal of an emote close what was asked about it.
LEMMA DecidedStep == EmoteInv /\ DecidedInv /\ E!Next => DecidedInv'
<1> SUFFICES ASSUME EmoteInv, DecidedInv, E!Next PROVE DecidedInv'
  OBVIOUS
<1>0. E!TypeOK /\ CopyInv
  BY DEF EmoteInv
<1> USE DEF DecidedInv, E!RequestsOfLiveEmotes, E!Live, E!uploads, E!documents, E!requests
<1>1. ASSUME NEW e \in Emote, E!Count(e) \/ E!Submit(e) \/ E!Insert(e) \/ E!Abort(e) \/ E!AskReads(e)
      PROVE  DecidedInv'
  BY <1>0, <1>1 DEF E!Count, E!Submit, E!Insert, E!Abort, E!AskReads, E!TypeOK, CopyInv, E!PendingIsUndecided
<1>2. ASSUME NEW e \in Emote, E!HandleSuccess(e) PROVE DecidedInv'
  BY <1>0, <1>2 DEF E!HandleSuccess, E!TypeOK, E!PendingIsUndecided
<1>3. ASSUME NEW e \in Emote, E!HandleFail(e) PROVE DecidedInv'
  BY <1>0, <1>3 DEF E!HandleFail, E!TypeOK, E!PendingIsUndecided
<1>4. ASSUME NEW e \in Emote, NEW v \in {"success", "fail"}, E!Report(e, v) \/ E!CallbackFails(e, v)
      PROVE  DecidedInv'
  BY <1>4 DEF E!Report, E!CallbackFails, E!PendingIsUndecided
<1>5. ASSUME NEW c \in Call, NEW e \in Emote, E!Load(c, e) PROVE DecidedInv'
  BY <1>5 DEF E!Load, E!PendingIsUndecided
<1>6. ASSUME NEW c \in Call, copy[c] # None, NEW new \in SUBSET E!Flag,
             E!MaySet(c, new), E!WriteFlags(c, new)
      PROVE  DecidedInv'
  <2>1. E!PendingIsUndecided'
    BY <1>6, WriteDecides
  <2>2. /\ \A f \in Emote : listing'[f] \in {listing[f], "closed"} /\ personal'[f] \in {personal[f], "closed"}
        /\ exists' = exists /\ deleted' = deleted /\ merged' = merged /\ late' = late
    BY <1>0, <1>6, CopyType, Closing DEF E!WriteFlags, E!TypeOK
  <2> QED
    BY <1>0, <2>1, <2>2 DEF E!TypeOK
<1>7. ASSUME NEW c \in Call, copy[c] # None, E!Leave(c) PROVE DecidedInv'
  BY <1>7 DEF E!Leave, E!PendingIsUndecided
<1>8. ASSUME NEW c \in Call, copy[c] # None, E!Delete(c) \/ E!Merge(c) PROVE DecidedInv'
  <2> DEFINE e == copy[c].emote
  <2>1. e \in Emote /\ exists \subseteq Emote
    BY <1>0, <1>8, CopyType DEF E!TypeOK
  <2>2. /\ listing' = E!Closed(listing, e) /\ personal' = E!Closed(personal, e)
        /\ exists' = exists /\ flags' = flags /\ late' = late /\ undone' = undone
        /\ bypassed' = bypassed
        /\ deleted' \cup merged' = deleted \cup merged \cup {e}
    BY <1>8 DEF E!Delete, E!Merge
  <2>3. /\ listing'[e] # "pending" /\ personal'[e] # "pending"
        /\ \A f \in Emote \ {e} : listing'[f] = listing[f] /\ personal'[f] = personal[f]
    BY <1>0, <2>1, <2>2, Closing DEF E!TypeOK
  <2> HIDE DEF e
  <2> QED
    BY <2>1, <2>2, <2>3 DEF E!PendingIsUndecided
<1>9. ASSUME E!AskWrites PROVE DecidedInv'
  <2>1. /\ asked \in Emote /\ exists \subseteq Emote
        /\ personal' \in {personal, [personal EXCEPT ![asked] = "pending"]}
        /\ exists' = exists /\ flags' = flags /\ listing' = listing
        /\ deleted' = deleted /\ merged' = merged /\ bypassed' = bypassed
    BY <1>0, <1>9 DEF E!AskWrites, E!TypeOK
  <2>2. /\ late' = IF asked \in exists \ (deleted \cup merged) THEN late ELSE late \cup {asked}
        /\ undone' = IF flags[asked] \cap {"approved", "denied"} = {} THEN undone
                     ELSE undone \cup {asked}
    BY <1>9 DEF E!AskWrites
  <2>3. \A f \in Emote : f # asked => personal'[f] = personal[f]
    BY <1>0, <2>1 DEF E!TypeOK
  <2>4. E!PendingIsUndecided'
    BY <2>1, <2>2, <2>3 DEF E!PendingIsUndecided
  <2> QED
    BY <2>1, <2>2, <2>3, <2>4
<1> QED
  BY <1>0, <1>1, <1>2, <1>3, <1>4, <1>5, <1>6, <1>7, <1>8, <1>9, EmoteSteps DEF EmoteStep, CallStep

\* Emotes stay without images only after a callback that was never published, early
\* or failed (events.rs, image_processor/emote.rs); a decision by one who may answer
\* requests leaves none pending for a flag the emote has, and no request outlives
\* its emote (mutations/emotes), but for writes from outdated copies.
THEOREM EmotesAlwaysHold == E!Spec => []EmotesHold
<1>1. EmoteInv /\ AwaitedInv /\ DecidedInv /\ [E!Next]_(E!vars) => (EmoteInv /\ AwaitedInv /\ DecidedInv)'
  <2>1. CASE E!Next
    BY <2>1, EmoteTypeStep, AwaitedStep, DecidedStep
  <2>2. CASE UNCHANGED E!vars
    BY <2>2 DEF E!vars, E!uploads, E!documents, E!requests, EmoteInv, E!TypeOK, CopyInv, AwaitedInv,
       DecidedInv, E!PendingIsUndecided, E!RequestsOfLiveEmotes, E!Live
  <2> QED
    BY <2>1, <2>2
<1>2. EmoteInv /\ AwaitedInv /\ DecidedInv => EmotesHold
  BY DEF EmoteInv, E!TypeOK, AwaitedInv, DecidedInv, EmotesHold, E!StuckUploadNeedsCause
<1> QED
  BY <1>1, <1>2, EmotesInit, PTL DEF E!Spec

-----------------------------------------------------------------------------

\* The composed run of MCUploads is a behaviour of each of its parts.
THEOREM UploadsRunIsEachPart == MCSpec => Spec /\ P!Spec /\ E!Spec
<1>1. MCInit => Init /\ P!Init /\ E!Init
  BY DEF MCInit
<1> DEFINE Run == PicturesNext \/ EmotesNext \/ JobsNext
<1>2. [Run]_<<part, pictures, emotes, vars>> => [Next]_vars /\ [P!Next]_(P!vars) /\ [E!Next]_(E!vars)
  <2>1. ASSUME UNCHANGED pictures PROVE UNCHANGED P!vars
    BY <2>1 DEF pictures, P!vars
  <2>2. ASSUME UNCHANGED emotes PROVE UNCHANGED E!vars
    BY <2>2 DEF emotes, E!vars, E!uploads, E!documents, E!requests
  <2> QED
    BY <2>1, <2>2 DEF PicturesNext, EmotesNext, JobsNext
<1> QED
  BY <1>1, <1>2, PTL DEF MCSpec, Spec, P!Spec, E!Spec
=============================================================================
