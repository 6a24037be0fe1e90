---------------------------- MODULE RedeemCodes ----------------------------
(***************************************************************************)
(* One redeem code: its remaining uses, and the entitlements it gives      *)
(* (http/egvault/redeem.rs, webhooks/stripe/checkout_session.rs).  The use *)
(* is taken first.  A user without a subscription may be sent through a    *)
(* check-out at Stripe, which tells of its end with an event until that is *)
(* answered; otherwise the call grants the entitlements itself.  To grant  *)
(* them is to delete those of the code and to insert them again, outside   *)
(* any transaction.                                                        *)
(***************************************************************************)
EXTENDS Naturals, FiniteSets

CONSTANTS User,
          Redemption,  \* calls of redeem_code_inner
          Uses,        \* uses of the code when it is made
          Count        \* entitlements it gives: 1..Count, in the order they are inserted

VARIABLES
    left,     \* remaining_uses
    pc,       \* pc[r]: the call, or the check-out it has led to
    by,       \* by[r]: the user
    at,       \* at[r]: the entitlement to be inserted, or 0 when no grant is under way
    edges,    \* edges[u]: the entitlements of the code
    seen,     \* webhook_events, by redemption
    dead,     \* an administrator has deactivated the code
    back,     \* history: redemptions whose use came back since
    granted,  \* history: users who were told they have the entitlements
    torn      \* history: users one of whose grants ended between two writes

vars == <<left, pc, by, at, edges, seen, dead, back, granted, torn>>

TypeOK ==
    /\ left \in Nat
    /\ pc \in [Redemption -> {"idle", "taken", "answered", "lost", "open", "paid", "lapsed"}]
    /\ by \in [Redemption -> User]
    /\ at \in [Redemption -> 0..(Count + 1)]
    /\ edges \in [User -> SUBSET (1..Count)]
    /\ seen \cup back \subseteq Redemption /\ granted \cup torn \subseteq User
    /\ dead \in BOOLEAN

Init ==
    /\ left = Uses
    /\ pc = [r \in Redemption |-> "idle"]
    /\ by = [r \in Redemption |-> CHOOSE u \in User : TRUE]
    /\ at = [r \in Redemption |-> 0]
    /\ edges = [u \in User |-> {}]
    /\ seen = {} /\ dead = FALSE /\ back = {} /\ granted = {} /\ torn = {}

Goto(r, label) == pc' = [pc EXCEPT ![r] = label]

\* Wrong variant: an event is not looked up among those that have been handled.
FreshAny(r) == at[r] = 0

\* The events of a check-out are handled one at a time, under its mutex.
Fresh(r) == at[r] = 0 /\ r \notin seen

-----------------------------------------------------------------------------
(* The call. *)

Take(r, u) ==
    /\ pc[r] = "idle" /\ left > 0
    /\ left' = left - 1
    /\ by' = [by EXCEPT ![r] = u]
    /\ Goto(r, "taken")
    /\ UNCHANGED <<at, edges, seen, dead, back, granted, torn>>

\* The customer, the product or the check-out is an error: the use is not given back.
CallFails(r) ==
    /\ pc[r] = "taken" /\ at[r] = 0
    /\ Goto(r, "lost")
    /\ UNCHANGED <<left, by, at, edges, seen, dead, back, granted, torn>>

CheckOut(r) ==
    /\ pc[r] = "taken" /\ at[r] = 0
    /\ Goto(r, "open")
    /\ UNCHANGED <<left, by, at, edges, seen, dead, back, granted, torn>>

-----------------------------------------------------------------------------
(* grant_entitlements, by the call or by the event of a check-out. *)

DeleteEdges(r) ==
    /\ \/ pc[r] = "taken" /\ at[r] = 0
       \/ pc[r] = "paid" /\ Fresh(r)
    /\ edges' = [edges EXCEPT ![by[r]] = {}]
    /\ at' = [at EXCEPT ![r] = 1]
    /\ UNCHANGED <<left, pc, by, seen, dead, back, granted, torn>>

InsertEdge(r) ==
    /\ at[r] \in 1..Count /\ at[r] \notin edges[by[r]]
    /\ edges' = [edges EXCEPT ![by[r]] = @ \cup {at[r]}]
    /\ at' = [at EXCEPT ![r] = @ + 1]
    /\ UNCHANGED <<left, pc, by, seen, dead, back, granted, torn>>

\* The call is answered with an error; an event comes again.
Ends(r) ==
    /\ at' = [at EXCEPT ![r] = 0]
    /\ IF pc[r] = "taken" THEN Goto(r, "lost") ELSE UNCHANGED pc
    /\ UNCHANGED <<left, by, edges, seen, dead, back, granted>>

\* Another grant has inserted it meanwhile.
Duplicate(r) ==
    /\ at[r] \in 1..Count /\ at[r] \in edges[by[r]]
    /\ Ends(r)
    /\ UNCHANGED torn

GrantFails(r) ==
    /\ at[r] # 0
    /\ Ends(r)
    /\ torn' = IF at[r] <= Count THEN torn \cup {by[r]} ELSE torn

\* The call is answered, or the transaction of the event is committed.
Granted(r) ==
    /\ at[r] = Count + 1
    /\ at' = [at EXCEPT ![r] = 0]
    /\ IF pc[r] = "taken" THEN Goto(r, "answered") /\ UNCHANGED seen
       ELSE seen' = seen \cup {r} /\ UNCHANGED pc
    /\ granted' = granted \cup {by[r]}
    /\ UNCHANGED <<left, by, edges, dead, back, torn>>

-----------------------------------------------------------------------------
(* Check-outs and the administrator. *)

Pay(r) ==
    /\ pc[r] = "open" /\ Goto(r, "paid")
    /\ UNCHANGED <<left, by, at, edges, seen, dead, back, granted, torn>>

Lapse(r) ==
    /\ pc[r] = "open" /\ Goto(r, "lapsed")
    /\ UNCHANGED <<left, by, at, edges, seen, dead, back, granted, torn>>

\* One transaction: the event is noted and the use given back.
Expired(r) ==
    /\ pc[r] = "lapsed" /\ Fresh(r)
    /\ left' = left + 1
    /\ seen' = seen \cup {r} /\ back' = back \cup {r}
    /\ UNCHANGED <<pc, by, at, edges, dead, granted, torn>>

Deactivate ==
    /\ left' = 0 /\ dead' = TRUE /\ back' = {}
    /\ UNCHANGED <<pc, by, at, edges, seen, granted, torn>>

-----------------------------------------------------------------------------
Next ==
    \/ \E r \in Redemption :
           \/ \E u \in User : Take(r, u)
           \/ CallFails(r) \/ CheckOut(r) \/ Pay(r) \/ Lapse(r) \/ Expired(r)
           \/ DeleteEdges(r) \/ InsertEdge(r) \/ Duplicate(r) \/ GrantFails(r) \/ Granted(r)
    \/ Deactivate

Spec == Init /\ [][Next]_vars

-----------------------------------------------------------------------------
(* Properties. *)

\* No use is made twice: what is left and what was taken are the uses of the code,
\* and a check-out that lapses gives its own back once, however often that is told.
\* A deactivated code has none left but those that come back from check-outs.
UsesAddUp ==
    LET taken == {r \in Redemption : pc[r] # "idle" /\ ~(pc[r] = "lapsed" /\ r \in seen)}
    IN IF dead THEN left <= Cardinality(back) /\ left + Cardinality(taken) <= Uses
       ELSE left + Cardinality(taken) = Uses

\* Who was told to have the entitlements has them all, though the code be redeemed
\* again, by two calls at once or by an event told twice; unless a later grant is
\* between its writes, or has ended there.
GrantedStay ==
    \A u \in granted \ torn :
        \/ edges[u] = 1..Count
        \/ \E r \in Redemption : by[r] = u /\ at[r] \in 1..Count

CodesHold == UsesAddUp /\ GrantedStay
=============================================================================
