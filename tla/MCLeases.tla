------------------------------ MODULE MCLeases ------------------------------
(***************************************************************************)
(* A TLC instance of two parts that have no variable in common: the mutex  *)
(* in Redis and the leases of cron jobs in MongoDB.  `part` says whose     *)
(* behaviour it is, as in MCUploads.                                       *)
(***************************************************************************)
EXTENDS DistributedMutex, TLC

CONSTANTS Job, Runner, NoRunner, Hold, Every, Interval, ClockAge

VARIABLES part, enabled, next, held, holder, at, cron, age

jobs == <<enabled, next, held, holder, at, cron, age>>

C == INSTANCE CronLease WITH pc <- cron, Latency <- ClockAge

MCInit == part \in {"mutex", "cron"} /\ Init /\ C!Init

MutexNext == part = "mutex" /\ Next /\ Timely /\ UNCHANGED <<part, jobs>>
CronNext == part = "cron" /\ C!Next /\ UNCHANGED <<part, vars>>

MCSpec ==
    /\ MCInit /\ [][MutexNext \/ CronNext]_<<part, vars, jobs>>
    /\ part = "cron" => C!Fairness

OneRunner == C!OneRunner
DueJobsRun == part = "cron" => C!DueJobsRun
=============================================================================
