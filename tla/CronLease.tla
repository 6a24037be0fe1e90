----------------------------- MODULE CronLease -----------------------------
(***************************************************************************)
(* The cron jobs of apps/api/src/cron/mod.rs.  Every process has a runner  *)
(* that claims a due job for a minute, leases it again every thirty        *)
(* seconds while the job runs, and completes it.  A runner has one job at  *)
(* a time and a new lease id for each, so the runner stands for the id.    *)
(* Time is in ticks; next_run and held_until are what is left of them.     *)
(***************************************************************************)
EXTENDS Naturals

CONSTANTS Job, Runner,
          NoRunner,  \* currently_running_by is null
          Hold,      \* a minute
          Every,     \* thirty seconds
          Interval,  \* the interval of the jobs
          Latency    \* bound on the age of the clock reading that a command carries

VARIABLES
    enabled,  \* the jobs that are enabled
    next,     \* next[j]: ticks until next_run has passed
    held,     \* held[j]: ticks until held_until has passed
    holder,   \* holder[j]: currently_running_by
    at,       \* at[r]: the job of the runner
    pc,       \* pc[r]: "idle", "running" or "freeing"
    age       \* age[r]: ticks since the clock reading it last held the job by

vars == <<enabled, next, held, holder, at, pc, age>>

TypeOK ==
    /\ enabled \subseteq Job
    /\ next \in [Job -> 0..Interval] /\ held \in [Job -> 0..Hold]
    /\ holder \in [Job -> Runner \cup {NoRunner}]
    /\ at \in [Runner -> Job]
    /\ pc \in [Runner -> {"idle", "running", "freeing"}]
    /\ age \in [Runner -> 0..Hold]

Init ==
    /\ enabled = Job
    /\ next = [j \in Job |-> 0]
    /\ held = [j \in Job |-> 0]
    /\ holder = [j \in Job |-> NoRunner]
    /\ at \in [Runner -> Job]
    /\ pc = [r \in Runner |-> "idle"]
    /\ age = [r \in Runner |-> Hold]

-----------------------------------------------------------------------------
Mine(r) == holder[at[r]] = r

Goto(r, label) == pc' = [pc EXCEPT ![r] = label]

\* held_until := now + 1 minute, now being d ticks old.
Holds(r, j, d) ==
    /\ held' = [held EXCEPT ![j] = Hold - d]
    /\ age' = [age EXCEPT ![r] = d]

Free(j) == next[j] = 0 /\ held[j] = 0

\* Wrong variant: a job is claimed only if nobody is entered as its runner.
FetchUnclaimed(r, j, d) ==
    /\ pc[r] = "idle"
    /\ j \in enabled /\ Free(j) /\ holder[j] = NoRunner
    /\ holder' = [holder EXCEPT ![j] = r]
    /\ at' = [at EXCEPT ![r] = j]
    /\ Holds(r, j, d)
    /\ Goto(r, "running")
    /\ UNCHANGED <<enabled, next>>

Fetch(r, j, d) ==
    /\ pc[r] = "idle"
    /\ j \in enabled /\ Free(j)
    /\ holder' = [holder EXCEPT ![j] = r]
    /\ at' = [at EXCEPT ![r] = j]
    /\ Holds(r, j, d)
    /\ Goto(r, "running")
    /\ UNCHANGED <<enabled, next>>

\* A runner that is paused does this late.
Lease(r, d) ==
    /\ pc[r] = "running"
    /\ age[r] >= Every
    /\ Mine(r) /\ at[r] \in enabled
    /\ Holds(r, at[r], d)
    /\ UNCHANGED <<enabled, next, holder, at, pc>>

\* The job is disabled or another's: the run is dropped.
LosesLock(r) ==
    /\ pc[r] = "running"
    /\ age[r] >= Every
    /\ ~(Mine(r) /\ at[r] \in enabled)
    /\ Goto(r, "freeing")
    /\ UNCHANGED <<enabled, next, held, holder, at, age>>

\* The job, its completion or a lease is an error, or the process shuts down.
Fails(r) ==
    /\ pc[r] = "running"
    /\ Goto(r, "freeing")
    /\ UNCHANGED <<enabled, next, held, holder, at, age>>

\* Wrong variant: the completion does not look at the holder.
CompleteAnyway(r) ==
    /\ pc[r] = "running"
    /\ holder' = [holder EXCEPT ![at[r]] = NoRunner]
    /\ next' = [next EXCEPT ![at[r]] = Interval]
    /\ held' = [held EXCEPT ![at[r]] = 0]
    /\ Goto(r, "idle")
    /\ UNCHANGED <<enabled, at, age>>

\* The run has succeeded even if the job is another's by now.
Complete(r) ==
    /\ pc[r] = "running"
    /\ IF Mine(r)
       THEN /\ holder' = [holder EXCEPT ![at[r]] = NoRunner]
            /\ next' = [next EXCEPT ![at[r]] = Interval]
            /\ held' = [held EXCEPT ![at[r]] = 0]
       ELSE UNCHANGED <<holder, next, held>>
    /\ Goto(r, "idle")
    /\ UNCHANGED <<enabled, at, age>>

\* free_job asks for a field `id`, which no job has: nothing is written.
FreeJob(r) ==
    /\ pc[r] = "freeing"
    /\ Goto(r, "idle")
    /\ UNCHANGED <<enabled, next, held, holder, at, age>>

Crash(r) ==
    /\ pc[r] # "idle"
    /\ Goto(r, "idle")
    /\ UNCHANGED <<enabled, next, held, holder, at, age>>

-----------------------------------------------------------------------------
\* rerun_subscription_refresh_job
Rerun(j) ==
    /\ next' = [next EXCEPT ![j] = 0]
    /\ UNCHANGED <<enabled, held, holder, at, pc, age>>

Toggle(j) ==
    /\ enabled' = IF j \in enabled THEN enabled \ {j} ELSE enabled \cup {j}
    /\ UNCHANGED <<next, held, holder, at, pc, age>>

Tick ==
    /\ next' = [j \in Job |-> IF next[j] = 0 THEN 0 ELSE next[j] - 1]
    /\ held' = [j \in Job |-> IF held[j] = 0 THEN 0 ELSE held[j] - 1]
    /\ age' = [r \in Runner |-> IF age[r] = Hold THEN Hold ELSE age[r] + 1]
    /\ UNCHANGED <<enabled, holder, at, pc>>

Claims == \E r \in Runner, j \in Job, d \in 0..Latency : Fetch(r, j, d)

Next ==
    \/ Tick \/ Claims
    \/ \E r \in Runner :
           \/ LosesLock(r) \/ Fails(r) \/ Complete(r) \/ FreeJob(r) \/ Crash(r)
           \/ \E d \in 0..Latency : Lease(r, d)
    \/ \E j \in Job : Rerun(j) \/ Toggle(j)

Spec == Init /\ [][Next]_vars

\* Time passes, a job is claimed by one of the runners that wake up every five
\* seconds, and free_job comes back.
Fairness ==
    /\ WF_vars(Tick) /\ WF_vars(Claims)
    /\ \A r \in Runner : WF_vars(FreeJob(r))

-----------------------------------------------------------------------------
(* Properties. *)

\* Two runners are at the same job only while one of them is late: its last lease is
\* a minute old, and at its next it finds the lock lost.  No late lease or completion
\* takes the job from the new holder, not even if the job is asked for again.
OneRunner ==
    \A r, s \in Runner :
        /\ r # s /\ at[r] = at[s]
        /\ pc[r] = "running" /\ pc[s] = "running"
        => age[r] = Hold \/ age[s] = Hold

\* A due job is run, whatever became of the last runner: one that failed, and was
\* not freed, and one that died are waited for only until their minute is over.
DueJobsRun ==
    \A j \in Job :
        next[j] = 0 /\ j \in enabled ~>
            j \notin enabled \/ \E r \in Runner : pc[r] = "running" /\ at[r] = j
=============================================================================
