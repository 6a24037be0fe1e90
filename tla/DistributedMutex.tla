-------------------------- MODULE DistributedMutex --------------------------
(***************************************************************************)
(* The Redis mutex of apps/api/src/mutex (mod.rs and mutex.lua), for one   *)
(* key.  Each acquire() call draws a fresh lock id, so a call is its id.   *)
(* Commands travel to Redis and back; Redis runs each script atomically    *)
(* and expires the key.  Time advances by Tick, in units of TTL/Period.    *)
(***************************************************************************)
EXTENDS Integers

CONSTANTS Call,         \* the acquire() calls made for the key
          NoCall,       \* no owner
          TTL,          \* lock duration: 5 s in the code
          Period,       \* refresh period: 2 s in the code
          Attempts,     \* MutexAquireRequest::attempts: 350 by default
          Delay,        \* MutexAquireRequest::delay: 30 ms by default
          Latency       \* Timely only: bound on a message leg and on a late timer

ASSUME ConstAssumption ==
    /\ NoCall \notin Call
    /\ TTL \in Nat \ {0}
    /\ Period \in Nat
    /\ Attempts \in Nat \ {0}
    /\ Delay \in Nat
    /\ Latency \in Nat

VARIABLES
    pc,         \* pc[c]: where the call is in acquire()
    net,        \* net[c]: its command in flight, or the reply on the way back
    tries,      \* tries[c]: lock attempts sent so far
    timer,      \* timer[c]: ticks spent at the current await
    owner,      \* the id stored under the key, or NoCall
    ttl,        \* remaining life of the key
    lapsed,     \* history: calls whose key has expired under them
    contended   \* history: calls that saw another id stored or refreshed while trying

vars == <<pc, net, tries, timer, owner, ttl, lapsed, contended>>

\* acquire() has ended: Ok, MutexError::Acquire, ::Lost, ::Redis, future dropped
Ended == {"done", "failed", "lost", "error", "dropped"}
Live == {"lock", "wait", "run", "renew", "free"}
PC == {"idle"} \cup Live \cup Ended

\* the closure f has started and has neither completed nor been dropped
Inside(c) == pc[c] \in {"run", "renew"}

TimerCap == Period + Delay + Latency    \* no comparison looks above it

Init ==
    /\ pc = [c \in Call |-> "idle"]
    /\ net = [c \in Call |-> "none"]
    /\ tries = [c \in Call |-> 0]
    /\ timer = [c \in Call |-> 0]
    /\ owner = NoCall
    /\ ttl = 0
    /\ lapsed = {}
    /\ contended = {}

-----------------------------------------------------------------------------
(* The caller. *)

Goto(c, label) ==
    /\ pc' = [pc EXCEPT ![c] = label]
    /\ timer' = [timer EXCEPT ![c] = 0]

SendLock(c, label) ==
    /\ Goto(c, label)
    /\ net' = [net EXCEPT ![c] = "lock"]

Receive(c, reply) ==
    /\ net[c] = reply
    /\ net' = [net EXCEPT ![c] = "none"]

\* The first turn of the attempt loop.
Start(c) ==
    /\ pc[c] = "idle"
    /\ SendLock(c, "lock")
    /\ tries' = [tries EXCEPT ![c] = 1]
    /\ UNCHANGED <<owner, ttl, lapsed, contended>>

\* fcall returned false: sleep for req.delay, after the last attempt too.
Refused(c) ==
    /\ pc[c] = "lock"
    /\ Receive(c, "no")
    /\ Goto(c, "wait")
    /\ UNCHANGED <<tries, owner, ttl, lapsed, contended>>

\* Wrong variants: a retry that does not sleep, and one that does not count.
RetryAtOnce(c) ==
    /\ pc[c] = "wait"
    /\ tries[c] < Attempts
    /\ SendLock(c, "lock")
    /\ tries' = [tries EXCEPT ![c] = tries[c] + 1]
    /\ UNCHANGED <<owner, ttl, lapsed, contended>>

RetryForever(c) ==
    /\ pc[c] = "wait"
    /\ timer[c] >= Delay
    /\ SendLock(c, "lock")
    /\ UNCHANGED <<tries, owner, ttl, lapsed, contended>>

Retry(c) ==
    /\ pc[c] = "wait"
    /\ timer[c] >= Delay
    /\ tries[c] < Attempts
    /\ SendLock(c, "lock")
    /\ tries' = [tries EXCEPT ![c] = tries[c] + 1]
    /\ UNCHANGED <<owner, ttl, lapsed, contended>>

\* The loop is exhausted: MutexError::Acquire.
GiveUp(c) ==
    /\ pc[c] = "wait"
    /\ timer[c] >= Delay
    /\ tries[c] >= Attempts
    /\ Goto(c, "failed")
    /\ UNCHANGED <<net, tries, owner, ttl, lapsed, contended>>

\* fcall returned true: f() is created and polled.
Enter(c) ==
    /\ pc[c] = "lock"
    /\ Receive(c, "yes")
    /\ Goto(c, "run")
    /\ UNCHANGED <<tries, owner, ttl, lapsed, contended>>

\* The sleep arm of the select: f is not polled until the refresh is answered.
Renew(c) ==
    /\ pc[c] = "run"
    /\ timer[c] >= Period
    /\ SendLock(c, "renew")
    /\ UNCHANGED <<tries, owner, ttl, lapsed, contended>>

Renewed(c) ==
    /\ pc[c] = "renew"
    /\ Receive(c, "yes")
    /\ Goto(c, "run")
    /\ UNCHANGED <<tries, owner, ttl, lapsed, contended>>

\* MutexError::Lost: the `?` returns and drops f.
Lost(c) ==
    /\ pc[c] = "renew"
    /\ Receive(c, "no")
    /\ Goto(c, "lost")
    /\ UNCHANGED <<tries, owner, ttl, lapsed, contended>>

\* The result arm of the select: f is complete, the lock is freed.
Complete(c) ==
    /\ pc[c] = "run"
    /\ Goto(c, "free")
    /\ net' = [net EXCEPT ![c] = "free"]
    /\ UNCHANGED <<tries, owner, ttl, lapsed, contended>>

\* free's answer is ignored.
Freed(c) ==
    /\ pc[c] = "free"
    /\ \E reply \in {"yes", "no"} : Receive(c, reply)
    /\ Goto(c, "done")
    /\ UNCHANGED <<tries, owner, ttl, lapsed, contended>>

\* The client library reports an error.  A command still in flight may be
\* executed later.  A failed free is only logged: the call returns Ok.
RedisError(c) ==
    /\ pc[c] \in {"lock", "renew", "free"}
    /\ Goto(c, IF pc[c] = "free" THEN "done" ELSE "error")
    /\ net' = [net EXCEPT ![c] = IF @ \in {"lock", "free"} THEN @ ELSE "none"]
    /\ UNCHANGED <<tries, owner, ttl, lapsed, contended>>

\* The task that awaits acquire() is dropped, or its process dies.
Drop(c) ==
    /\ pc[c] \in Live
    /\ Goto(c, "dropped")
    /\ net' = [net EXCEPT ![c] = IF @ \in {"lock", "free"} THEN @ ELSE "none"]
    /\ UNCHANGED <<tries, owner, ttl, lapsed, contended>>

-----------------------------------------------------------------------------
(* Redis. *)

Answer(c, reply) ==
    /\ net' = [net EXCEPT ![c] = IF pc[c] \in Live THEN reply ELSE "none"]
    /\ timer' = [timer EXCEPT ![c] = 0]

\* Wrong variant: a lock that overwrites another owner.
ServeLockOverwrite(c) ==
    /\ net[c] = "lock"
    /\ owner' = c
    /\ ttl' = TTL
    /\ Answer(c, "yes")
    /\ UNCHANGED <<pc, tries, lapsed, contended>>

\* api_mutex_lock: set a free key, extend one's own, refuse any other.
ServeLock(c) ==
    /\ net[c] = "lock"
    /\ IF owner \in {c, NoCall}
       THEN /\ owner' = c
            /\ ttl' = TTL
            /\ Answer(c, "yes")
            /\ contended' = contended \cup
                   {d \in Call \ {c} : pc[d] \in {"lock", "wait"}}
       ELSE /\ Answer(c, "no")
            /\ UNCHANGED <<owner, ttl, contended>>
    /\ UNCHANGED <<pc, tries, lapsed>>

\* Wrong variant: a free that does not compare the id.
ServeFreeAny(c) ==
    /\ net[c] = "free"
    /\ owner' = NoCall
    /\ ttl' = 0
    /\ Answer(c, "yes")
    /\ UNCHANGED <<pc, tries, lapsed, contended>>

\* api_mutex_free: delete the key only if it holds the caller's id.
ServeFree(c) ==
    /\ net[c] = "free"
    /\ IF owner = c
       THEN /\ owner' = NoCall
            /\ ttl' = 0
            /\ Answer(c, "yes")
       ELSE /\ Answer(c, "no")
            /\ UNCHANGED <<owner, ttl>>
    /\ UNCHANGED <<pc, tries, lapsed, contended>>

\* One unit of time passes; the key expires when its life is over.
Tick ==
    /\ timer' = [c \in Call |-> IF pc[c] \in Live /\ timer[c] < TimerCap
                                THEN timer[c] + 1 ELSE timer[c]]
    /\ ttl' = IF ttl > 0 THEN ttl - 1 ELSE 0
    /\ owner' = IF ttl <= 1 THEN NoCall ELSE owner
    /\ lapsed' = IF ttl <= 1 /\ owner # NoCall THEN lapsed \cup {owner} ELSE lapsed
    /\ UNCHANGED <<pc, net, tries, contended>>

-----------------------------------------------------------------------------

Step(c) ==
    \/ Start(c) \/ Refused(c) \/ Retry(c) \/ GiveUp(c) \/ Enter(c)
    \/ Renew(c) \/ Renewed(c) \/ Lost(c) \/ Complete(c) \/ Freed(c)
    \/ RedisError(c) \/ Drop(c)
    \/ ServeLock(c) \/ ServeFree(c)

Next == (\E c \in Call : Step(c)) \/ Tick

Spec == Init /\ [][Next]_vars

\* The answer to a lock command, a refresh command and a refresh timer are each
\* at most Latency late.  Nothing in the code enforces this; it is the condition
\* under which the lock excludes.
OnTime(c) ==
    /\ (net[c] = "yes" /\ pc[c] \in {"lock", "renew"}) => timer[c] < Latency
    /\ (net[c] = "lock" /\ pc[c] = "renew") => timer[c] < Latency
    /\ pc[c] = "run" => timer[c] < Period + Latency

Timely == Tick => \A c \in Call : OnTime(c)

TimelySpec == Init /\ [][Next /\ Timely]_vars

\* Redis and the tokio runtime keep going.  A dropped caller, a Redis error and
\* the completion of f are not assumed.
Fairness ==
    /\ WF_vars(Tick)
    /\ \A c \in Call :
          /\ WF_vars(ServeLock(c))
          /\ WF_vars(ServeFree(c))
          /\ WF_vars(Refused(c) \/ Retry(c) \/ GiveUp(c) \/ Enter(c))
          /\ WF_vars(Renew(c) \/ Renewed(c) \/ Lost(c) \/ Freed(c))

FairSpec == Spec /\ Fairness

-----------------------------------------------------------------------------
(* Properties. *)

TypeOK ==
    /\ pc \in [Call -> PC]
    /\ net \in [Call -> {"none", "lock", "free", "yes", "no"}]
    /\ tries \in [Call -> 0..Attempts]
    /\ timer \in [Call -> 0..TimerCap]
    /\ owner \in Call \cup {NoCall}
    /\ ttl \in 0..TTL
    /\ lapsed \in SUBSET Call
    /\ contended \in SUBSET Call

\* However late messages and timers are, two closures run at once only if the
\* key of one of them has expired under it (mod.rs:101-131, mutex.lua:3-32).
OverlapOnlyAfterLapse ==
    \A c, d \in Call :
        (c # d /\ Inside(c) /\ Inside(d)) => (c \in lapsed \/ d \in lapsed)

\* When every leg is on time, closures exclude one another (mod.rs:98-131).
Exclusion ==
    \A c, d \in Call : (Inside(c) /\ Inside(d)) => c = d

\* MutexError::Acquire is only returned when somebody else took or refreshed
\* the lock meanwhile: the attempts outlast the key a dead owner has left
\* (350 x 30 ms against 5 s, mod.rs:30-38).
FailureMeansContention ==
    \A c \in Call : pc[c] = "failed" => c \in contended

\* No step ends the lock of a call whose closure is running, except the call's
\* own steps and the expiry of the key (mutex.lua:21-32, a late free of an
\* earlier owner must not delete the key of the next).
OnlyOwnerReleases ==
    [][\A c \in Call :
          (owner = c /\ owner' # c /\ Inside(c) /\ Inside(c)')
              => (ttl <= 1 /\ c \in lapsed')]_vars

\* The attempt loop ends (mod.rs:71-91).
AttemptsEnd ==
    \A c \in Call : (pc[c] \in {"lock", "wait"}) ~> (pc[c] \notin {"lock", "wait"})

Section == INSTANCE ExclusiveSection WITH inside <- {c \in Call : Inside(c)}

\* With every leg on time the mutex implements the exclusive section.
ImplementsSection == Section!Spec
=============================================================================
