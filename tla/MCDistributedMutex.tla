------------------------- MODULE MCDistributedMutex -------------------------
(***************************************************************************)
(* TLC instances of DistributedMutex.  Calls are interchangeable.          *)
(***************************************************************************)
EXTENDS DistributedMutex, TLC

Symmetry == Permutations(Call)
=============================================================================
