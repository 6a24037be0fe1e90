----------------------------- MODULE MCCdnCache -----------------------------
(***************************************************************************)
(* TLC instances of CdnCache.  Requests for the key are interchangeable.   *)
(***************************************************************************)
EXTENDS CdnCache, TLC

Symmetry == Permutations(Req)

\* Coalescing is sound: an entry has an owner who will take it away, and who joined
\* it gets what its creator got (see CdnCache).
CoalescingSound == EntryHasOwner /\ CoalescedAgree
=============================================================================
