--------------------------- MODULE MCTransaction ---------------------------
(***************************************************************************)
(* TLC instances of Transaction.  c1 and c2 are inside the mutex and       *)
(* register events, c3 does neither; only c1 may run its closure again.    *)
(***************************************************************************)
EXTENDS Transaction, TLC

CONSTANT c1

MCMaxTries == [c \in Client |-> IF c = c1 THEN 2 ELSE 1]
=============================================================================
