-------------------------- MODULE ExclusiveSection --------------------------
(***************************************************************************)
(* What a caller of DistributedMutex::acquire is promised: the closures    *)
(* passed for one key run one at a time.  A closure leaves the section by  *)
(* completing or by being dropped.                                         *)
(***************************************************************************)
CONSTANT Call           \* the acquire() calls made for one key
VARIABLE inside         \* the calls whose closure has started and not ended

Init == inside = {}

Enter(c) == inside = {} /\ inside' = {c}

Leave(c) == c \in inside /\ inside' = inside \ {c}

Next == \E c \in Call : Enter(c) \/ Leave(c)

Spec == Init /\ [][Next]_inside
=============================================================================
