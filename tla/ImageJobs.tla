----------------------------- MODULE ImageJobs -----------------------------
(***************************************************************************)
(* The job queue of apps/image-processor: documents in MongoDB that the    *)
(* workers claim for a while, refresh while they work, and delete once the *)
(* verdict is handed to the event queue (database.rs, worker/mod.rs,       *)
(* worker/process/mod.rs, worker/process/blocking.rs, events.rs).          *)
(*                                                                         *)
(* Time is in ticks.  hold_until is written from the clock of one worker   *)
(* and read against the clock of another: hold[j] is what is left of it    *)
(* and Skew[w] how far the clock of w runs ahead.  A clock is read before  *)
(* the command is sent, so a command acts on a reading up to Latency old.  *)
(***************************************************************************)
EXTENDS Integers, FiniteSets

CONSTANTS Job, Worker,
          Attempt,      \* names for the runs of ProcessJob::process
          WorkerOf,     \* WorkerOf[a]: the process attempt a runs in
          Permits,      \* config.worker.concurrency
          Priority,     \* Priority[j]: priority of the task
          HasTtl,       \* the jobs submitted with a time-to-live
          Hold,         \* config.worker.hold_time
          RefreshEvery, \* config.worker.refresh_interval
          Latency,      \* bound on a clock reading's age, and on a timely step
          Skew,         \* Skew[w]: how far the clock of w is ahead
          MaxDisturb,   \* bound on the disturbances of a job
          Nobody        \* claimed by no running process

ASSUME ConstAssumption ==
    /\ IsFiniteSet(Attempt)
    /\ WorkerOf \in [Attempt -> Worker]
    /\ Priority \in [Job -> Nat]
    /\ HasTtl \subseteq Job
    /\ Skew \in [Worker -> Nat]
    /\ Hold \in Nat /\ RefreshEvery \in Nat /\ Latency \in Nat
    /\ Permits \in Nat /\ MaxDisturb \in Nat
    /\ Nobody \notin Worker /\ Nobody \notin Job

VARIABLES
    submitted,  \* the jobs that were inserted
    docs,       \* the jobs in the collection
    claim,      \* claim[j]: claimed_by_id
    hold,       \* hold[j]: ticks until hold_until
    pc,         \* pc[a]: the attempt
    work,       \* work[a]: its job, or Nobody
    age,        \* age[a]: ticks since the attempt entered its phase
    thread,     \* thread[a]: its blocking task
    cancelled,  \* cancelled[j]: how far the call that cancels j came
    told,       \* history: told[j]: the final callbacks handed to the event queue
    verdicts,   \* history: verdicts[j]: how many attempts told a verdict
    disturbed   \* history: disturbed[j]: crashes, failed commands and lapses

vars == <<submitted, docs, claim, hold, pc, work, age, thread, cancelled, told, verdicts,
          disturbed>>

queue == <<submitted, docs, claim, hold>>
heard == <<cancelled, told, verdicts, disturbed>>

\* hold_until is null, or so far in the past that every clock agrees.
Unheld == -(Latency + 1)

Init ==
    /\ submitted = {}
    /\ docs = {}
    /\ claim = [j \in Job |-> Nobody]
    /\ hold = [j \in Job |-> Unheld]
    /\ pc = [a \in Attempt |-> "free"]
    /\ work = [a \in Attempt |-> Nobody]
    /\ age = [a \in Attempt |-> 0]
    /\ thread = [a \in Attempt |-> "idle"]
    /\ cancelled = [j \in Job |-> "no"]
    /\ told = [j \in Job |-> {}]
    /\ verdicts = [j \in Job |-> 0]
    /\ disturbed = [j \in Job |-> 0]

Phase(a, p) ==
    /\ pc' = [pc EXCEPT ![a] = p]
    /\ age' = [age EXCEPT ![a] = 0]

\* Wrong variant: a permit is not given back when the attempt ends early.
LeaveKeepsPermit(a) ==
    /\ Phase(a, "free")
    /\ work' = [work EXCEPT ![a] = Nobody]
    /\ UNCHANGED thread

\* process() returns: its future is dropped, the blocking task goes on alone.
Leave(a) ==
    /\ Phase(a, "free")
    /\ work' = [work EXCEPT ![a] = Nobody]
    /\ thread' = [thread EXCEPT ![a] = IF @ = "done" THEN "idle" ELSE @]

\* A callback is published, or the failure to publish it is logged.
Publish(j, k) == \E what \in {k, "lost"} : told' = [told EXCEPT ![j] = @ \cup {what}]

Disturb(jobs) ==
    /\ \A j \in jobs : disturbed[j] < MaxDisturb
    /\ disturbed' = [j \in Job |-> IF j \in jobs THEN disturbed[j] + 1 ELSE disturbed[j]]

Mine(a) == work[a] \in docs /\ claim[work[a]] = WorkerOf[a]

\* hold_until := now + hold_time, by the clock of w as it was d ticks ago.
Prolong(j, w, d) == hold' = [hold EXCEPT ![j] = Hold + Skew[w] - d]

-----------------------------------------------------------------------------
(* Job::new, Job::fetch *)

Submit(j) ==
    /\ j \notin submitted
    /\ submitted' = submitted \cup {j}
    /\ docs' = docs \cup {j}
    /\ UNCHANGED <<claim, hold, pc, work, age, thread, heard>>

\* hold_until is null or $lt now, read d ticks ago on the clock of w.
Fetchable(w, d) == {j \in docs : hold[j] < Skew[w] - d}

\* Wrong variant: the permit goes with the future, not with the blocking task.
HoldsPermitUntilLeft(a) == pc[a] # "free"

\* The permit is shared by process() and its blocking task, which keeps it
\* for as long as it runs.
HoldsPermit(a) == pc[a] # "free" \/ thread[a] # "idle"

Working(j) == {a \in Attempt : work[a] = j}

\* The loop waits for a permit, then claims the most urgent job it may claim.
Fetch(a, j) ==
    LET w == WorkerOf[a] IN
    /\ pc[a] = "free" /\ thread[a] = "idle"
    /\ Cardinality({b \in Attempt : WorkerOf[b] = w /\ HoldsPermit(b)}) < Permits
    /\ \E d \in 0..Latency :
        /\ j \in Fetchable(w, d)
        /\ \A k \in Fetchable(w, d) : Priority[k] <= Priority[j]
        /\ Prolong(j, w, d)
    /\ claim' = [claim EXCEPT ![j] = w]
    /\ Phase(a, "starting")
    /\ work' = [work EXCEPT ![a] = j]
    /\ IF Working(j) = {} THEN UNCHANGED disturbed ELSE Disturb({j})
    /\ UNCHANGED <<submitted, docs, thread, cancelled, told, verdicts>>

-----------------------------------------------------------------------------
(* ProcessJob::process *)

\* The start callback is published, or not: nothing depends on it here.
Started(a) ==
    /\ pc[a] = "starting"
    /\ Phase(a, "working")
    /\ UNCHANGED <<queue, work, thread, heard>>

\* The input is downloaded: the blocking task decodes, resizes and encodes.
ThreadStart(a) ==
    /\ pc[a] = "working"
    /\ thread[a] = "idle"
    /\ thread' = [thread EXCEPT ![a] = "running"]
    /\ UNCHANGED <<queue, pc, work, age, heard>>

\* It finishes, fails, panics, or sees that it is cancelled.
ThreadEnd(a) ==
    /\ thread[a] = "running"
    /\ thread' = [thread EXCEPT ![a] = IF pc[a] = "working" THEN "done" ELSE "idle"]
    /\ UNCHANGED <<queue, pc, work, age, heard>>

\* The future ends: the files are uploaded, or the input, the blocking task or
\* an upload failed.
Finish(a) ==
    /\ pc[a] = "working"
    /\ thread[a] # "running"
    /\ Phase(a, "telling")
    /\ thread' = [thread EXCEPT ![a] = "idle"]
    /\ UNCHANGED <<queue, work, heard>>

\* Wrong variant: the time is up, and nobody is told.
TimeoutSaysNothing(a) ==
    /\ pc[a] = "working"
    /\ Phase(a, "completing")
    /\ thread' = [thread EXCEPT ![a] = IF @ = "done" THEN "idle" ELSE @]
    /\ UNCHANGED <<queue, work, heard>>

\* limits.max_input_duration_ms has passed: the blocking task is not awaited.
Timeout(a) ==
    /\ pc[a] = "working"
    /\ Phase(a, "telling")
    /\ thread' = [thread EXCEPT ![a] = IF @ = "done" THEN "idle" ELSE @]
    /\ UNCHANGED <<queue, work, heard>>

\* Wrong variant: the hold is checked but not prolonged.
RefreshNothing(a) ==
    /\ pc[a] = "working"
    /\ age[a] >= RefreshEvery
    /\ IF Mine(a) THEN Phase(a, "working") /\ UNCHANGED <<work, thread>> ELSE Leave(a)
    /\ UNCHANGED <<queue, heard>>

\* Job::refresh, every refresh_interval; an attempt whose job is gone or has
\* another owner ends there without a word.
Refresh(a) ==
    /\ pc[a] = "working"
    /\ age[a] >= RefreshEvery
    /\ \/ /\ Mine(a)
          /\ \E d \in 0..Latency : Prolong(work[a], WorkerOf[a], d)
          /\ Phase(a, "working")
          /\ UNCHANGED <<work, thread>>
       \/ /\ ~Mine(a)
          /\ Leave(a)
          /\ UNCHANGED hold
    /\ UNCHANGED <<submitted, docs, claim, heard>>

\* The command fails, having been executed or not: the attempt is given up.
RefreshFails(a) ==
    /\ pc[a] = "working"
    /\ age[a] >= RefreshEvery
    /\ \/ UNCHANGED hold
       \/ Mine(a) /\ \E d \in 0..Latency : Prolong(work[a], WorkerOf[a], d)
    /\ Leave(a)
    /\ Disturb({work[a]})
    /\ UNCHANGED <<submitted, docs, claim, cancelled, told, verdicts>>

\* on_success or on_failure, while the job is still in the collection.
Tell(a) ==
    /\ pc[a] = "telling"
    /\ Phase(a, "completing")
    /\ Publish(work[a], "verdict")
    /\ verdicts' = [verdicts EXCEPT ![work[a]] = @ + 1]
    /\ UNCHANGED <<queue, work, thread, cancelled, disturbed>>

\* Wrong variant: the verdict is told and the job is left in the collection.
CompleteKeeps(a) ==
    /\ pc[a] = "completing"
    /\ Leave(a)
    /\ UNCHANGED <<queue, heard>>

\* Job::complete deletes the job if it is still claimed by this process; the
\* answer is not looked at.
Complete(a) ==
    /\ pc[a] = "completing"
    /\ docs' = IF Mine(a) THEN docs \ {work[a]} ELSE docs
    /\ Leave(a)
    /\ UNCHANGED <<submitted, claim, hold, heard>>

\* The command fails, having been executed or not: logged.
CompleteFails(a) ==
    /\ pc[a] = "completing"
    /\ \/ UNCHANGED docs
       \/ Mine(a) /\ docs' = docs \ {work[a]}
    /\ Leave(a)
    /\ Disturb({work[a]})
    /\ UNCHANGED <<submitted, claim, hold, cancelled, told, verdicts>>

-----------------------------------------------------------------------------
(* The process, the other owners of the collection, and time *)

\* The process dies, or run() returns because error_threshold fetches failed:
\* nothing of it is left, and it comes back under a new worker_id.
Crash(w) ==
    LET gone == {a \in Attempt : WorkerOf[a] = w} IN
    /\ \E a \in gone : HoldsPermit(a)
    /\ pc' = [a \in Attempt |-> IF a \in gone THEN "free" ELSE pc[a]]
    /\ work' = [a \in Attempt |-> IF a \in gone THEN Nobody ELSE work[a]]
    /\ age' = [a \in Attempt |-> IF a \in gone THEN 0 ELSE age[a]]
    /\ thread' = [a \in Attempt |-> IF a \in gone THEN "idle" ELSE thread[a]]
    /\ claim' = [j \in Job |-> IF claim[j] = w THEN Nobody ELSE claim[j]]
    /\ Disturb({work[a] : a \in gone} \cap Job)
    /\ UNCHANGED <<submitted, docs, hold, cancelled, told, verdicts>>

\* Wrong variant: the call is answered without a word to the event queue.
TellCancelSilently(j) ==
    /\ cancelled[j] = "deleted"
    /\ cancelled' = [cancelled EXCEPT ![j] = "told"]
    /\ UNCHANGED <<queue, pc, work, age, thread, told, verdicts, disturbed>>

\* Job::cancel deletes the job, whoever works on it ...
Cancel(j) ==
    /\ j \in docs
    /\ docs' = docs \ {j}
    /\ cancelled' = [cancelled EXCEPT ![j] = "deleted"]
    /\ UNCHANGED <<submitted, claim, hold, pc, work, age, thread, told, verdicts, disturbed>>

\* ... and once it has the answer, it publishes the callback: the call succeeds.
TellCancel(j) ==
    /\ cancelled[j] = "deleted"
    /\ cancelled' = [cancelled EXCEPT ![j] = "told"]
    /\ Publish(j, "cancel")
    /\ UNCHANGED <<queue, pc, work, age, thread, verdicts, disturbed>>

\* In between the answer is lost, the handler is dropped or its process dies.
\* Nobody comes back to a job that is not in the collection any more.
CancelCut(j) ==
    /\ cancelled[j] = "deleted"
    /\ cancelled' = [cancelled EXCEPT ![j] = "cut"]
    /\ UNCHANGED <<queue, pc, work, age, thread, told, verdicts, disturbed>>

\* The TTL index deletes the job whoever works on it.
Expire(j) ==
    /\ j \in docs \cap HasTtl
    /\ docs' = docs \ {j}
    /\ UNCHANGED <<submitted, claim, hold, pc, work, age, thread, heard>>

\* A tick of every clock; ages beyond the bound are not told apart.
Tick ==
    /\ hold' = [j \in Job |-> IF hold[j] > Unheld THEN hold[j] - 1 ELSE Unheld]
    /\ age' = [a \in Attempt |->
                 IF pc[a] # "free" /\ age[a] < RefreshEvery + Latency THEN age[a] + 1 ELSE age[a]]
    /\ UNCHANGED <<submitted, docs, claim, pc, work, thread, heard>>

Step(a) ==
    \/ Started(a) \/ ThreadStart(a) \/ ThreadEnd(a) \/ Finish(a) \/ Timeout(a)
    \/ Refresh(a) \/ Tell(a) \/ Complete(a)

Moves ==
    \/ \E a \in Attempt : Step(a) \/ RefreshFails(a) \/ CompleteFails(a)
    \/ \E a \in Attempt, j \in Job : Fetch(a, j)
    \/ \E w \in Worker : Crash(w)
    \/ \E j \in Job : Submit(j) \/ Cancel(j) \/ TellCancel(j) \/ CancelCut(j) \/ Expire(j)

Next == Moves \/ Tick

Spec == Init /\ [][Next]_vars

\* An attempt is never late: it publishes and completes within Latency, and its
\* refresh fires and is executed within Latency of its time.
Limit(a) == IF pc[a] = "working" THEN RefreshEvery + Latency ELSE Latency

OnTime == \A a \in Attempt : pc[a] # "free" => age[a] < Limit(a)

TimelyNext == Moves \/ (OnTime /\ Tick)

TimelySpec == Init /\ [][TimelyNext]_vars

\* The processes run, time passes, jobs that may be claimed are claimed, and a
\* blocking task ends.
FairSpec ==
    /\ TimelySpec
    /\ WF_vars(OnTime /\ Tick)
    /\ \A w \in Worker : WF_vars(\E a \in Attempt, j \in Job : WorkerOf[a] = w /\ Fetch(a, j))
    /\ \A a \in Attempt :
        /\ WF_vars(Started(a))
        /\ WF_vars(ThreadEnd(a))
        /\ WF_vars(Finish(a))
        /\ WF_vars(Refresh(a))
        /\ WF_vars(Tell(a))
        /\ WF_vars(Complete(a))

-----------------------------------------------------------------------------
(* What must hold *)

TypeOK ==
    /\ submitted \subseteq Job
    /\ docs \subseteq submitted
    /\ claim \in [Job -> Worker \cup {Nobody}]
    /\ hold \in [Job -> Int]
    /\ pc \in [Attempt -> {"free", "starting", "working", "telling", "completing"}]
    /\ work \in [Attempt -> Job \cup {Nobody}]
    /\ \A a \in Attempt : work[a] = Nobody <=> pc[a] = "free"
    /\ age \in [Attempt -> Nat]
    /\ thread \in [Attempt -> {"idle", "running", "done"}]
    /\ cancelled \in [Job -> {"no", "deleted", "told", "cut"}]
    /\ told \in [Job -> SUBSET {"verdict", "cancel", "lost"}]
    /\ verdicts \in [Job -> Nat]
    /\ disturbed \in [Job -> Nat]

\* A job leaves the collection for a reason that was told: unless it has a
\* time-to-live or was cancelled, its verdict was published before it was deleted
\* (process/mod.rs:162-175), and a cancellation that succeeds was published after
\* it - or the publication failed.  A cancellation that is cut between the two
\* leaves neither job nor callback (database.rs:221-231): of that nothing is said.
NoSilentRemoval ==
    \A j \in submitted \ docs :
        /\ cancelled[j] = "no" /\ j \notin HasTtl => told[j] \cap {"verdict", "lost"} # {}
        /\ cancelled[j] = "told" => told[j] \cap {"cancel", "lost"} # {}

\* However attempts overlap and threads outlive them, a process never decodes
\* more images at a time than it has permits (blocking.rs:79-85).
PermitsRespected ==
    \A w \in Worker :
        Cardinality({a \in Attempt : WorkerOf[a] = w /\ thread[a] # "idle"}) <= Permits

\* A second verdict of one job needs a disturbance: a crash, a failed command or
\* a hold that lapsed under a living attempt.
VerdictsNeedDisturbance == \A j \in Job : verdicts[j] <= 1 + disturbed[j]

\* When attempts are never late, the refresh leaves room for five late steps and
\* the skew of the clocks, no two attempts ever work on one job.
Roomy == \A w \in Worker : Hold >= RefreshEvery + 5 * Latency + Skew[w]

OneAttemptPerJob ==
    Roomy => \A a, b \in Attempt : (work[a] = work[b] /\ pc[a] # "free") => a = b

\* service.proto:26: "If the task has not started processing within the TTL, it
\* will be removed."  A job that leaves the collection for no other reason had not
\* been started.
TtlOnlyBeforeStart ==
    [][\A j \in docs \ docs' :
           told'[j] = {} /\ cancelled'[j] = "no" => Working(j) = {}]_vars

\* Every job leaves the collection.
JobsEnd == \A j \in Job : (j \in docs) ~> (j \notin docs)

=============================================================================
