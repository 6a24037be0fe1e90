---------------------------- MODULE MCImageJobs ----------------------------
(***************************************************************************)
(* TLC instances of ImageJobs: a3 runs in process w2, the other attempts   *)
(* in w1; j2 has the higher priority.                                      *)
(***************************************************************************)
EXTENDS ImageJobs

CONSTANTS j2, w1, w2, a3

MCWorkerOf == [a \in Attempt |-> IF a = a3 THEN w2 ELSE w1]
J2First == [j \in Job |-> IF j = j2 THEN 2 ELSE 1]
NoSkew == [w \in Worker |-> 0]
W2Ahead == [w \in Worker |-> IF w = w2 THEN 1 ELSE 0]
=============================================================================
