---------------------------- MODULE LeasesProofs ----------------------------
(***************************************************************************)
(* Proofs about DistributedMutex, for any number of calls and any TTL,     *)
(* period, number of attempts and delay, and about CronLease, for any      *)
(* number of jobs and runners.  The first is part of MCLeases by its own   *)
(* names and the second as C.                                              *)
(***************************************************************************)
EXTENDS MCLeases, TLAPS

\* A free command belongs to a call that has completed its closure or ended,
\* so it cannot hit a running closure of the same call (mod.rs:103-107).
NetInv ==
    \A c \in Call : net[c] = "free" => pc[c] \in Ended \cup {"free"}

\* A call that was granted the lock and whose key never expired owns the key.
GrantInv ==
    \A c \in Call :
        (c \notin lapsed /\ (Inside(c) \/ (pc[c] = "lock" /\ net[c] = "yes")))
            => owner = c

OverlapInv == TypeOK /\ NetInv /\ GrantInv

-----------------------------------------------------------------------------

\* Every variable of the mutex keeps its type.
THEOREM TypeCorrect == Spec => []TypeOK
<1>1. Init => TypeOK
  BY ConstAssumption DEF Init, TypeOK, PC, TimerCap
<1>2. TypeOK /\ [Next]_vars => TypeOK'
  <2> SUFFICES ASSUME TypeOK, [Next]_vars PROVE TypeOK'
    OBVIOUS
  <2> USE ConstAssumption DEF TypeOK, PC, Live, Ended, TimerCap
  <2>1. ASSUME NEW c \in Call, Start(c) PROVE TypeOK'
    BY <2>1 DEF Start, SendLock, Goto
  <2>2. ASSUME NEW c \in Call, Refused(c) PROVE TypeOK'
    BY <2>2 DEF Refused, Receive, Goto
  <2>3. ASSUME NEW c \in Call, Retry(c) PROVE TypeOK'
    BY <2>3 DEF Retry, SendLock, Goto
  <2>4. ASSUME NEW c \in Call, GiveUp(c) PROVE TypeOK'
    BY <2>4 DEF GiveUp, Goto
  <2>5. ASSUME NEW c \in Call, Enter(c) PROVE TypeOK'
    BY <2>5 DEF Enter, Receive, Goto
  <2>6. ASSUME NEW c \in Call, Renew(c) PROVE TypeOK'
    BY <2>6 DEF Renew, SendLock, Goto
  <2>7. ASSUME NEW c \in Call, Renewed(c) PROVE TypeOK'
    BY <2>7 DEF Renewed, Receive, Goto
  <2>8. ASSUME NEW c \in Call, Lost(c) PROVE TypeOK'
    BY <2>8 DEF Lost, Receive, Goto
  <2>9. ASSUME NEW c \in Call, Complete(c) PROVE TypeOK'
    BY <2>9 DEF Complete, Goto
  <2>10. ASSUME NEW c \in Call, Freed(c) PROVE TypeOK'
    BY <2>10 DEF Freed, Receive, Goto
  <2>11. ASSUME NEW c \in Call, RedisError(c) PROVE TypeOK'
    BY <2>11 DEF RedisError, Goto
  <2>12. ASSUME NEW c \in Call, Drop(c) PROVE TypeOK'
    BY <2>12 DEF Drop, Goto
  <2>13. ASSUME NEW c \in Call, ServeLock(c) PROVE TypeOK'
    BY <2>13 DEF ServeLock, Answer
  <2>14. ASSUME NEW c \in Call, ServeFree(c) PROVE TypeOK'
    BY <2>14 DEF ServeFree, Answer
  <2>15. CASE Tick
    BY <2>15 DEF Tick
  <2>16. CASE UNCHANGED vars
    BY <2>16 DEF vars
  <2>17. QED
    BY <2>1, <2>2, <2>3, <2>4, <2>5, <2>6, <2>7, <2>8, <2>9, <2>10, <2>11,
       <2>12, <2>13, <2>14, <2>15, <2>16 DEF Next, Step
<1>3. QED
  BY <1>1, <1>2, PTL DEF Spec

-----------------------------------------------------------------------------
(* Overlap only after a lapse, whatever the delays. *)

\* One step of the mutex keeps a granted, unlapsed call the owner of the key.
LEMMA OverlapStep ==
  ASSUME TypeOK, NetInv, GrantInv, [Next]_vars
  PROVE  NetInv' /\ GrantInv'
<1> USE ConstAssumption DEF TypeOK, PC, Live, Ended, NetInv, GrantInv, Inside
<1>1. ASSUME NEW c \in Call, Start(c) PROVE NetInv' /\ GrantInv'
  BY <1>1 DEF Start, SendLock, Goto
<1>2. ASSUME NEW c \in Call, Refused(c) PROVE NetInv' /\ GrantInv'
  BY <1>2 DEF Refused, Receive, Goto
<1>3. ASSUME NEW c \in Call, Retry(c) PROVE NetInv' /\ GrantInv'
  BY <1>3 DEF Retry, SendLock, Goto
<1>4. ASSUME NEW c \in Call, GiveUp(c) PROVE NetInv' /\ GrantInv'
  BY <1>4 DEF GiveUp, Goto
<1>5. ASSUME NEW c \in Call, Enter(c) PROVE NetInv' /\ GrantInv'
  BY <1>5 DEF Enter, Receive, Goto
<1>6. ASSUME NEW c \in Call, Renew(c) PROVE NetInv' /\ GrantInv'
  BY <1>6 DEF Renew, SendLock, Goto
<1>7. ASSUME NEW c \in Call, Renewed(c) PROVE NetInv' /\ GrantInv'
  BY <1>7 DEF Renewed, Receive, Goto
<1>8. ASSUME NEW c \in Call, Lost(c) PROVE NetInv' /\ GrantInv'
  BY <1>8 DEF Lost, Receive, Goto
<1>9. ASSUME NEW c \in Call, Complete(c) PROVE NetInv' /\ GrantInv'
  BY <1>9 DEF Complete, Goto
<1>10. ASSUME NEW c \in Call, Freed(c) PROVE NetInv' /\ GrantInv'
  BY <1>10 DEF Freed, Receive, Goto
<1>11. ASSUME NEW c \in Call, RedisError(c) PROVE NetInv' /\ GrantInv'
  BY <1>11 DEF RedisError, Goto
<1>12. ASSUME NEW c \in Call, Drop(c) PROVE NetInv' /\ GrantInv'
  BY <1>12 DEF Drop, Goto
<1>13. ASSUME NEW c \in Call, ServeLock(c) PROVE NetInv' /\ GrantInv'
  BY <1>13 DEF ServeLock, Answer
<1>14. ASSUME NEW c \in Call, ServeFree(c) PROVE NetInv' /\ GrantInv'
  BY <1>14 DEF ServeFree, Answer
<1>15. CASE Tick
  BY <1>15 DEF Tick
<1>16. CASE UNCHANGED vars
  BY <1>16 DEF vars
<1>17. QED
  BY <1>1, <1>2, <1>3, <1>4, <1>5, <1>6, <1>7, <1>8, <1>9, <1>10, <1>11,
     <1>12, <1>13, <1>14, <1>15, <1>16 DEF Next, Step

\* However late messages and timers are, two closures run at once only if the
\* key of one of them has expired under it.
THEOREM OverlapSafe == Spec => []OverlapOnlyAfterLapse
<1>1. Init => NetInv /\ GrantInv
  BY DEF Init, NetInv, GrantInv, Inside
<1>2. TypeOK /\ NetInv /\ GrantInv /\ [Next]_vars => (NetInv /\ GrantInv)'
  BY OverlapStep
<1>3. GrantInv => OverlapOnlyAfterLapse
  BY DEF GrantInv, OverlapOnlyAfterLapse
<1>4. QED
  BY <1>1, <1>2, <1>3, TypeCorrect, PTL DEF Spec

-----------------------------------------------------------------------------
(* Exclusion when every leg is on time. *)

\* The key outlives a period and the three legs between two executions of the
\* lock command for one call: the grant, a late timer, the refresh.
Slack == Period + 3 * Latency < TTL

\* From its grant on a call owns the key, and the key has enough life left for
\* whatever the call still waits for.
GrantedIsFresh(c) ==
    (pc[c] \in {"lock", "renew"} /\ net[c] = "yes") =>
        /\ owner = c
        /\ timer[c] <= Latency
        /\ ttl + timer[c] >= TTL

RunningIsFresh(c) ==
    pc[c] = "run" =>
        /\ owner = c
        /\ timer[c] <= Period + Latency
        /\ ttl + timer[c] >= TTL - Latency

RenewingIsFresh(c) ==
    pc[c] = "renew" =>
        /\ net[c] \in {"lock", "yes"}
        /\ net[c] = "lock" =>
              /\ owner = c
              /\ timer[c] <= Latency
              /\ ttl + timer[c] >= TTL - Period - 2 * Latency

FreshInv ==
    \A c \in Call : GrantedIsFresh(c) /\ RunningIsFresh(c) /\ RenewingIsFresh(c)

\* A timely step keeps every granted key fresh.
LEMMA FreshStep ==
  ASSUME Slack, TypeOK, NetInv, FreshInv, [Next /\ Timely]_vars
  PROVE  FreshInv'
<1> USE ConstAssumption DEF TypeOK, PC, Live, Ended, NetInv, FreshInv,
      GrantedIsFresh, RunningIsFresh, RenewingIsFresh
<1>1. ASSUME NEW c \in Call, Start(c) PROVE FreshInv'
  BY <1>1 DEF Start, SendLock, Goto
<1>2. ASSUME NEW c \in Call, Refused(c) PROVE FreshInv'
  BY <1>2 DEF Refused, Receive, Goto
<1>3. ASSUME NEW c \in Call, Retry(c) PROVE FreshInv'
  BY <1>3 DEF Retry, SendLock, Goto
<1>4. ASSUME NEW c \in Call, GiveUp(c) PROVE FreshInv'
  BY <1>4 DEF GiveUp, Goto
<1>5. ASSUME NEW c \in Call, Enter(c) PROVE FreshInv'
  BY <1>5 DEF Enter, Receive, Goto
<1>6. ASSUME NEW c \in Call, Renew(c) PROVE FreshInv'
  BY <1>6 DEF Renew, SendLock, Goto
<1>7. ASSUME NEW c \in Call, Renewed(c) PROVE FreshInv'
  BY <1>7 DEF Renewed, Receive, Goto
<1>8. ASSUME NEW c \in Call, Lost(c) PROVE FreshInv'
  BY <1>8 DEF Lost, Receive, Goto
<1>9. ASSUME NEW c \in Call, Complete(c) PROVE FreshInv'
  BY <1>9 DEF Complete, Goto
<1>10. ASSUME NEW c \in Call, Freed(c) PROVE FreshInv'
  BY <1>10 DEF Freed, Receive, Goto
<1>11. ASSUME NEW c \in Call, RedisError(c) PROVE FreshInv'
  BY <1>11 DEF RedisError, Goto
<1>12. ASSUME NEW c \in Call, Drop(c) PROVE FreshInv'
  BY <1>12 DEF Drop, Goto
<1>13. ASSUME NEW c \in Call, ServeLock(c) PROVE FreshInv'
  BY <1>13 DEF ServeLock, Answer
<1>14. ASSUME NEW c \in Call, ServeFree(c) PROVE FreshInv'
  BY <1>14 DEF ServeFree, Answer
<1>15. CASE Tick /\ \A c \in Call : OnTime(c)
  BY <1>15 DEF Tick, OnTime, Slack, TimerCap
<1>16. CASE UNCHANGED vars
  BY <1>16 DEF vars
<1>17. QED
  BY <1>1, <1>2, <1>3, <1>4, <1>5, <1>6, <1>7, <1>8, <1>9, <1>10, <1>11,
     <1>12, <1>13, <1>14, <1>15, <1>16 DEF Next, Step, Timely

LEMMA FreshInvariant ==
  ASSUME Slack
  PROVE  TimelySpec => [](TypeOK /\ FreshInv)
<1>1. Init => NetInv /\ GrantInv /\ FreshInv
  BY DEF Init, NetInv, GrantInv, Inside, FreshInv, GrantedIsFresh,
     RunningIsFresh, RenewingIsFresh
<1>2. TypeOK /\ NetInv /\ GrantInv /\ [Next]_vars => (NetInv /\ GrantInv)'
  BY OverlapStep
<1>3. TypeOK /\ NetInv /\ FreshInv /\ [Next /\ Timely]_vars => FreshInv'
  BY FreshStep
<1>4. [Next /\ Timely]_vars => [Next]_vars
  OBVIOUS
<1>5. QED
  BY <1>1, <1>2, <1>3, <1>4, TypeCorrect, PTL DEF Spec, TimelySpec

\* When every leg is on time, closures for one key exclude one another.
THEOREM TimelyExclusion ==
  ASSUME Slack
  PROVE  TimelySpec => []Exclusion
<1>1. TypeOK /\ FreshInv => Exclusion
  BY ConstAssumption DEF TypeOK, FreshInv, RunningIsFresh, RenewingIsFresh,
     GrantedIsFresh, Exclusion, Inside
<1>2. QED
  BY <1>1, FreshInvariant, PTL

\* A timely step of the mutex is a step of the exclusive section or leaves it
\* unchanged: only Enter starts a closure, and then no other one is running.
LEMMA SectionStep ==
  ASSUME TypeOK, FreshInv, [Next]_vars
  PROVE  [Section!Next]_{c \in Call : Inside(c)}
<1> DEFINE S == {c \in Call : Inside(c)}
<1> USE ConstAssumption DEF TypeOK, PC, Live, Ended, Inside
<1>1. ASSUME NEW c \in Call, Start(c) PROVE S' = S
  BY <1>1 DEF Start, SendLock, Goto
<1>2. ASSUME NEW c \in Call, Refused(c) PROVE S' = S
  BY <1>2 DEF Refused, Receive, Goto
<1>3. ASSUME NEW c \in Call, Retry(c) PROVE S' = S
  BY <1>3 DEF Retry, SendLock, Goto
<1>4. ASSUME NEW c \in Call, GiveUp(c) PROVE S' = S
  BY <1>4 DEF GiveUp, Goto
<1>5. ASSUME NEW c \in Call, Enter(c) PROVE Section!Enter(c)
  <2>1. S = {}
    BY <1>5 DEF Enter, Receive, Goto, FreshInv, GrantedIsFresh, RunningIsFresh,
      RenewingIsFresh
  <2>2. S' = {c}
    BY <1>5, <2>1 DEF Enter, Receive, Goto
  <2>3. QED
    BY <2>1, <2>2 DEF Section!Enter
<1>6. ASSUME NEW c \in Call, Renew(c) PROVE S' = S
  BY <1>6 DEF Renew, SendLock, Goto
<1>7. ASSUME NEW c \in Call, Renewed(c) PROVE S' = S
  BY <1>7 DEF Renewed, Receive, Goto
<1>8. ASSUME NEW c \in Call, Lost(c) PROVE Section!Leave(c)
  BY <1>8 DEF Lost, Receive, Goto, Section!Leave
<1>9. ASSUME NEW c \in Call, Complete(c) PROVE Section!Leave(c)
  BY <1>9 DEF Complete, Goto, Section!Leave
<1>10. ASSUME NEW c \in Call, Freed(c) PROVE S' = S
  BY <1>10 DEF Freed, Receive, Goto
<1>11. ASSUME NEW c \in Call, RedisError(c) PROVE S' = S \/ Section!Leave(c)
  BY <1>11 DEF RedisError, Goto, Section!Leave
<1>12. ASSUME NEW c \in Call, Drop(c) PROVE S' = S \/ Section!Leave(c)
  BY <1>12 DEF Drop, Goto, Section!Leave
<1>13. ASSUME NEW c \in Call, ServeLock(c) \/ ServeFree(c) PROVE S' = S
  BY <1>13 DEF ServeLock, ServeFree
<1>14. CASE Tick \/ UNCHANGED vars
  BY <1>14 DEF Tick, vars
<1>15. QED
  BY <1>1, <1>2, <1>3, <1>4, <1>5, <1>6, <1>7, <1>8, <1>9, <1>10, <1>11,
     <1>12, <1>13, <1>14 DEF Next, Step, Section!Next

\* With every leg on time the mutex implements the exclusive section.
THEOREM MutexImplementsSection ==
  ASSUME Slack
  PROVE  TimelySpec => ImplementsSection
<1>1. Init => Section!Init
  BY DEF Init, Section!Init, Inside
<1>2. TypeOK /\ FreshInv /\ [Next]_vars => [Section!Next]_{c \in Call : Inside(c)}
  BY SectionStep
<1>3. [Next /\ Timely]_vars => [Next]_vars
  OBVIOUS
<1>4. QED
  BY <1>1, <1>2, <1>3, FreshInvariant, PTL
  DEF TimelySpec, ImplementsSection, Section!Spec

-----------------------------------------------------------------------------
(* A late free spares the next owner. *)

\* No step ends the lock of a call whose closure is running, except the call's
\* own steps and the expiry of the key: a free of that call would mean that it
\* has ended, and a free of another one does not match its id.
THEOREM OnlyOwnerFrees == Spec => OnlyOwnerReleases
<1>1. Init => NetInv /\ GrantInv
  BY DEF Init, NetInv, GrantInv, Inside
<1>2. TypeOK /\ NetInv /\ GrantInv /\ [Next]_vars => (NetInv /\ GrantInv)'
  BY OverlapStep
<1>3. ASSUME TypeOK, NetInv, [Next]_vars
      PROVE  [\A c \in Call :
                 (owner = c /\ owner' # c /\ Inside(c) /\ Inside(c)')
                     => (ttl <= 1 /\ c \in lapsed')]_vars
  <2> SUFFICES ASSUME Next, NEW c \in Call, owner = c, owner' # c, Inside(c), Inside(c)'
               PROVE  ttl <= 1 /\ c \in lapsed'
    BY <1>3
  <2> USE <1>3, ConstAssumption DEF TypeOK, NetInv, Inside, Ended
  <2>1. ASSUME NEW d \in Call, ServeLock(d) PROVE FALSE
    BY <2>1 DEF ServeLock
  <2>2. ASSUME NEW d \in Call, ServeFree(d) PROVE FALSE
    BY <2>2 DEF ServeFree
  <2>3. ASSUME NEW d \in Call, Step(d) PROVE FALSE
    BY <2>1, <2>2, <2>3 DEF Step, Start, Refused, Retry, GiveUp, Enter, Renew, Renewed,
      Lost, Complete, Freed, RedisError, Drop
  <2>4. CASE Tick
    BY <2>4 DEF Tick
  <2>5. QED
    BY <2>3, <2>4 DEF Next
<1>4. QED
  BY <1>1, <1>2, <1>3, TypeCorrect, PTL DEF Spec, OnlyOwnerReleases

-----------------------------------------------------------------------------
(* An Acquire error comes from contention. *)

\* The attempts outlast the key of an owner that has died: 349 delays of 30 ms
\* against 5 s.
Patient == (Attempts - 1) * Delay >= TTL

\* The time a call has slept for before its n-th attempt.
Slept(n) == (n - 1) * Delay

LEMMA SleptStep ==
  ASSUME NEW n \in Nat \ {0}
  PROVE  Slept(n) \in Nat /\ Slept(n + 1) = Slept(n) + Delay
<1>1. n - 1 \in Nat /\ (n + 1) - 1 = (n - 1) + 1
  OBVIOUS
<1>2. \A m \in Nat : m * Delay \in Nat /\ (m + 1) * Delay = m * Delay + Delay
  BY ConstAssumption
<1>3. QED
  BY <1>1, <1>2 DEF Slept

\* Only a call that waits for an answer, or has ended, has a lock command under way.
LockInv ==
    \A c \in Call :
        /\ net[c] = "lock" => pc[c] \in {"lock", "renew"} \cup Ended
        /\ pc[c] \in {"lock", "wait"} => tries[c] \in Nat \ {0}

\* A key has life left.
KeyInv == owner # NoCall => ttl >= 1

\* While nobody has taken or refreshed the key since the call began, the key it
\* runs into is the one of its first attempt, and has aged by what the call slept.
Aged(c, t) == owner # NoCall => ttl + Slept(tries[c]) + t <= TTL

Undisturbed(c) ==
    /\ pc[c] = "lock" /\ net[c] # "yes" => Aged(c, 0)
    /\ pc[c] = "lock" /\ net[c] = "no" => Slept(tries[c]) < TTL
    /\ pc[c] = "wait" =>
          /\ Slept(tries[c]) < TTL
          /\ timer[c] <= Delay => Aged(c, timer[c])
          /\ timer[c] >= Delay => Aged(c, Delay)
    /\ pc[c] # "failed"

ContentionInv ==
    /\ LockInv /\ KeyInv
    /\ \A c \in Call : c \in contended \/ Undisturbed(c)

\* One step keeps the key within what the undisturbed calls have slept.
LEMMA ContentionStep ==
  ASSUME TypeOK, NetInv, ContentionInv, Patient, [Next]_vars
  PROVE  ContentionInv'
<1> USE ConstAssumption DEF TypeOK, PC, Live, Ended, TimerCap, NetInv, ContentionInv,
      LockInv, KeyInv, Undisturbed, Aged
<1>0. \A n \in Nat \ {0} : Slept(n) \in Nat /\ Slept(n + 1) = Slept(n) + Delay
  BY SleptStep
<1>1. ASSUME NEW c \in Call, Start(c) PROVE ContentionInv'
  <2>1. Slept(1) = 0
    BY DEF Slept
  <2>2. QED
    BY <1>1, <2>1 DEF Start, SendLock, Goto
<1>2. ASSUME NEW c \in Call, Refused(c) PROVE ContentionInv'
  BY <1>0, <1>2 DEF Refused, Receive, Goto
<1>3. ASSUME NEW c \in Call, Retry(c) PROVE ContentionInv'
  BY <1>0, <1>3 DEF Retry, SendLock, Goto
<1>4. ASSUME NEW c \in Call, GiveUp(c) PROVE ContentionInv'
  <2>1. tries[c] = Attempts
    BY <1>4 DEF GiveUp
  <2>2. c \in contended
    BY <1>4, <2>1 DEF GiveUp, Patient, Slept
  <2>3. QED
    BY <1>4, <2>2 DEF GiveUp, Goto
<1>5. ASSUME NEW c \in Call, Enter(c) PROVE ContentionInv'
  BY <1>5 DEF Enter, Receive, Goto
<1>6. ASSUME NEW c \in Call, Renew(c) PROVE ContentionInv'
  BY <1>6 DEF Renew, SendLock, Goto
<1>7. ASSUME NEW c \in Call, Renewed(c) PROVE ContentionInv'
  BY <1>7 DEF Renewed, Receive, Goto
<1>8. ASSUME NEW c \in Call, Lost(c) PROVE ContentionInv'
  BY <1>8 DEF Lost, Receive, Goto
<1>9. ASSUME NEW c \in Call, Complete(c) PROVE ContentionInv'
  BY <1>9 DEF Complete, Goto
<1>10. ASSUME NEW c \in Call, Freed(c) PROVE ContentionInv'
  BY <1>10 DEF Freed, Receive, Goto
<1>11. ASSUME NEW c \in Call, RedisError(c) PROVE ContentionInv'
  BY <1>11 DEF RedisError, Goto
<1>12. ASSUME NEW c \in Call, Drop(c) PROVE ContentionInv'
  BY <1>12 DEF Drop, Goto
<1>13. ASSUME NEW c \in Call, ServeLock(c) PROVE ContentionInv'
  BY <1>0, <1>13 DEF ServeLock, Answer
<1>14. ASSUME NEW c \in Call, ServeFree(c) PROVE ContentionInv'
  BY <1>14 DEF ServeFree, Answer
<1>15. CASE Tick
  <2>1. LockInv' /\ KeyInv'
    BY <1>15 DEF Tick
  <2>2. ASSUME NEW c \in Call, c \notin contended' PROVE Undisturbed(c)'
    <3>1. Undisturbed(c) /\ pc'[c] = pc[c] /\ net'[c] = net[c] /\ tries'[c] = tries[c]
      BY <1>15, <2>2 DEF Tick
    <3>2. owner' # NoCall => owner # NoCall /\ ttl' = ttl - 1
      BY <1>15 DEF Tick
    <3>3. pc[c] = "wait" => timer'[c] = timer[c] + 1 \/ (timer'[c] = timer[c] /\ timer[c] >= Delay)
      BY <1>15 DEF Tick
    <3>4. pc[c] \in {"lock", "wait"} => Slept(tries[c]) \in Nat
      BY <1>0
    <3>5. timer'[c] \in Nat /\ timer[c] \in Nat /\ ttl \in Nat /\ ttl' \in Nat
      BY <1>15 DEF Tick
    <3>6. QED
      BY <3>1, <3>2, <3>3, <3>4, <3>5
  <2>3. QED
    BY <2>1, <2>2
<1>16. CASE UNCHANGED vars
  BY <1>16 DEF vars
<1>17. QED
  BY <1>1, <1>2, <1>3, <1>4, <1>5, <1>6, <1>7, <1>8, <1>9, <1>10, <1>11,
     <1>12, <1>13, <1>14, <1>15, <1>16 DEF Next, Step

\* When the attempts outlast the key, MutexError::Acquire is only returned to a
\* call that has seen another one take or refresh the lock meanwhile.
THEOREM FailuresAreContention ==
  ASSUME Patient
  PROVE  Spec => []FailureMeansContention
<1>1. Init => NetInv /\ GrantInv /\ ContentionInv
  BY ConstAssumption DEF Init, NetInv, GrantInv, Inside, ContentionInv, LockInv, KeyInv,
    Undisturbed
<1>2. TypeOK /\ NetInv /\ GrantInv /\ [Next]_vars => (NetInv /\ GrantInv)'
  BY OverlapStep
<1>3. TypeOK /\ NetInv /\ ContentionInv /\ [Next]_vars => ContentionInv'
  BY ContentionStep
<1>4. ContentionInv => FailureMeansContention
  BY DEF ContentionInv, Undisturbed, FailureMeansContention
<1>5. QED
  BY <1>1, <1>2, <1>3, <1>4, TypeCorrect, PTL DEF Spec
-----------------------------------------------------------------------------
(* The leases of the cron jobs. *)

\* A clock reading is no older than the minute that a job is held for.
ClockInTime == Hold \in Nat /\ Interval \in Nat /\ ClockAge \in Nat /\ ClockAge <= Hold

\* A runner whose last lease is younger than a minute is entered as the runner of
\* its job, and the job is held for the rest of that minute.
LeaseInv ==
    \A r \in Runner :
        cron[r] = "running" /\ age[r] < Hold
            => holder[at[r]] = r /\ held[at[r]] = Hold - age[r]

\* One step of the runners keeps the types and the leases: a claim needs that the
\* job is not held, and a completion that the runner is the holder.
LEMMA LeaseStep ==
  ASSUME ClockInTime, C!TypeOK, LeaseInv, [C!Next]_C!vars
  PROVE  C!TypeOK' /\ LeaseInv'
<1> USE DEF ClockInTime, C!TypeOK, LeaseInv, C!Goto, C!Mine, C!Holds
<1>1. CASE C!Tick
  <2>1. C!TypeOK'
    <3>1. next' \in [Job -> 0..Interval] /\ held' \in [Job -> 0..Hold]
      BY <1>1 DEF C!Tick
    <3>2. age' \in [Runner -> 0..Hold]
      BY <1>1 DEF C!Tick
    <3>3. QED
      BY <1>1, <3>1, <3>2 DEF C!Tick
  <2>2. ASSUME NEW r \in Runner, cron'[r] = "running", age'[r] < Hold
        PROVE  holder'[at'[r]] = r /\ held'[at'[r]] = Hold - age'[r]
    <3>1. age'[r] = age[r] + 1 /\ age[r] \in Nat
      BY <1>1, <2>2 DEF C!Tick
    <3>2. holder[at[r]] = r /\ held[at[r]] = Hold - age[r]
      BY <1>1, <2>2, <3>1 DEF C!Tick
    <3>3. held'[at[r]] = held[at[r]] - 1
      BY <1>1, <2>2, <3>1, <3>2 DEF C!Tick
    <3>4. QED
      BY <1>1, <2>2, <3>1, <3>2, <3>3 DEF C!Tick
  <2>3. QED
    BY <2>1, <2>2
<1>2. ASSUME NEW r \in Runner, NEW j \in Job, NEW d \in 0..ClockAge, C!Fetch(r, j, d)
      PROVE  C!TypeOK' /\ LeaseInv'
  BY <1>2 DEF C!Fetch, C!Free
<1>3. ASSUME NEW r \in Runner, C!LosesLock(r) PROVE C!TypeOK' /\ LeaseInv'
  BY <1>3 DEF C!LosesLock
<1>4. ASSUME NEW r \in Runner, C!Fails(r) PROVE C!TypeOK' /\ LeaseInv'
  BY <1>4 DEF C!Fails
<1>5. ASSUME NEW r \in Runner, C!Complete(r) PROVE C!TypeOK' /\ LeaseInv'
  BY <1>5 DEF C!Complete
<1>6. ASSUME NEW r \in Runner, C!FreeJob(r) PROVE C!TypeOK' /\ LeaseInv'
  BY <1>6 DEF C!FreeJob
<1>7. ASSUME NEW r \in Runner, C!Crash(r) PROVE C!TypeOK' /\ LeaseInv'
  BY <1>7 DEF C!Crash
<1>8. ASSUME NEW r \in Runner, NEW d \in 0..ClockAge, C!Lease(r, d)
      PROVE  C!TypeOK' /\ LeaseInv'
  BY <1>8 DEF C!Lease
<1>9. ASSUME NEW j \in Job, C!Rerun(j) PROVE C!TypeOK' /\ LeaseInv'
  BY <1>9 DEF C!Rerun
<1>10. ASSUME NEW j \in Job, C!Toggle(j) PROVE C!TypeOK' /\ LeaseInv'
  BY <1>10 DEF C!Toggle
<1>11. CASE UNCHANGED C!vars
  BY <1>11 DEF C!vars
<1>12. QED
  BY <1>1, <1>2, <1>3, <1>4, <1>5, <1>6, <1>7, <1>8, <1>9, <1>10, <1>11
  DEF C!Next, C!Claims

\* Two runners are at the same job only when the last lease of one of them is a
\* minute old, for any number of jobs and runners.
THEOREM OneRunnerAtATime ==
  ASSUME ClockInTime
  PROVE  C!Spec => []OneRunner
<1>1. C!Init => C!TypeOK /\ LeaseInv
  BY DEF C!Init, C!TypeOK, LeaseInv, ClockInTime
<1>2. C!TypeOK /\ LeaseInv /\ [C!Next]_C!vars => (C!TypeOK /\ LeaseInv)'
  BY LeaseStep
<1>3. C!TypeOK /\ LeaseInv => OneRunner
  <2> SUFFICES ASSUME C!TypeOK, LeaseInv,
                      NEW r \in Runner, NEW s \in Runner, r # s, at[r] = at[s],
                      cron[r] = "running", cron[s] = "running",
                      age[r] # Hold, age[s] # Hold
               PROVE  FALSE
    BY DEF OneRunner, C!OneRunner
  <2>1. age[r] < Hold /\ age[s] < Hold
    BY DEF C!TypeOK, ClockInTime
  <2>2. holder[at[r]] = r /\ holder[at[s]] = s
    BY <2>1 DEF LeaseInv
  <2>3. QED
    BY <2>2
<1>4. QED
  BY <1>1, <1>2, <1>3, PTL DEF C!Spec

\* The behaviours that TLC goes through are behaviours of the runners.
THEOREM LeasesRunIsCron == MCSpec => C!Spec
<1>1. MCInit => C!Init
  BY DEF MCInit
<1>2. [MutexNext \/ CronNext]_<<part, vars, jobs>> => [C!Next]_C!vars
  BY DEF MutexNext, CronNext, jobs, C!vars
<1>3. QED
  BY <1>1, <1>2, PTL DEF MCSpec, C!Spec
=============================================================================
