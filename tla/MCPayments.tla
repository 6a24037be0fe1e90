----------------------------- MODULE MCPayments -----------------------------
(***************************************************************************)
(* A TLC instance of four parts that have no variable in common: what the  *)
(* subscriptions of a user give, the periods of one of them, a redeem      *)
(* code, and what is cached of a user's entitlements.  `part` says whose   *)
(* behaviour it is, as in MCUploads.                                       *)
(***************************************************************************)
EXTENDS SubscriptionRefresh, FiniteSets, Sequences, TLC

CONSTANTS Gift, GiftLength, MaxTime, MaxChanges,
          User, Redemption, Uses, Count,
          Role, Grant, Item, Group, Links, MaxRank, Handler, u1, r1, g1, b1

\* A code gives some entitlements, some times, to the calls there are.
ASSUME CodesAssumption ==
    /\ Uses \in Nat /\ Count \in Nat
    /\ IsFiniteSet(Redemption) /\ User # {}

\* Invoices of gifts are others than those of the subscription, and last some cycles.
ASSUME PeriodsAssumption ==
    /\ MaxTime \in Nat /\ MaxChanges \in Nat /\ GiftLength \subseteq Nat
    /\ \A g \in Gift : g \notin 0..(MaxTime + 1)

\* No edge leads to a user or the group (`has_inbound`), and an edge is no user or role.
ASSUME EntitlementsAssumption ==
    /\ MaxRank \in Nat \ {0}
    /\ Links \subseteq ({Group} \cup User \cup Role \cup Grant \cup Item) \X (Role \cup Grant \cup Item)
    /\ ({Group} \cup Role \cup Grant \cup Item) \cap User = {}
    /\ Links \cap (User \cup Role) = {}

VARIABLES part,
          now, sub, sent, seen, looks, periods, crossed, hurried,
          left, call, by, at, edges, events, dead, back, granted, torn,
          graph, rank, applied, marked, cached, top, queue, task, missed, changes, unranked

payments == <<now, sub, sent, seen, looks, periods, crossed, hurried>>
codes == <<left, call, by, at, edges, events, dead, back, granted, torn>>
caches == <<graph, rank, applied, marked, cached, top, queue, task, missed, changes, unranked>>

\* A user has something that leads to a role, and that to a badge; everybody may have the role.
FewLinks == {<<u1, g1>>, <<g1, r1>>, <<r1, b1>>, <<Group, r1>>}

P == INSTANCE SubscriptionPeriods
C == INSTANCE RedeemCodes WITH pc <- call, seen <- events
E == INSTANCE Entitlements WITH edges <- graph

MCInit ==
    /\ part \in {"benefits", "periods", "codes", "entitlements"}
    /\ Init /\ P!Init /\ C!Init /\ E!Init
    /\ part # "entitlements" => graph = Links
    /\ part = "entitlements" => /\ graph \in {{}, Links \ {<<Group, r1>>}}
                                /\ sub.provider # "paypal"
    /\ sub.provider = "paypal" => part = "periods"

BenefitsNext == part = "benefits" /\ Next /\ UNCHANGED <<part, payments, codes, caches>>
PeriodsNext == part = "periods" /\ P!Next /\ UNCHANGED <<part, vars, codes, caches>>
CodesNext == part = "codes" /\ C!Next /\ UNCHANGED <<part, vars, payments, caches>>
CachesNext == part = "entitlements" /\ E!Next /\ UNCHANGED <<part, vars, payments, codes>>

MCSpec ==
    MCInit /\ [][BenefitsNext \/ PeriodsNext \/ CodesNext \/ CachesNext]_<<part, vars, payments, codes, caches>>

\* The products of one part are the gifts of the other.
Symmetry == Permutations(Product) \cup Permutations(Handler)

\* One of two subscriptions goes through every state, the other is at most bought.
OneChanges ==
    \E p \in Product : worth[p] \in {"never", "renewing"} /\ state[p] \in {"none", "active"}

\* Four events, gifts and periods of an administrator, and three periods in all.
Few ==
    /\ Cardinality(sent) + Cardinality({i \in DOMAIN periods : ~P!OfProvider(i)}) <= 4
    /\ Len(periods) <= 3

\* The periods are what was paid and given.
PeriodsFollow == P!PeriodsFollow

\* The age counts every cycle of the periods once.
AgeCountsOnce == P!AgeCountsOnce

\* A code gives what it has to as many users as it has uses.
CodesHold == C!CodesHold

\* What is cached of a user's entitlements is what the graph gives.
CacheFollows == part = "entitlements" => E!CacheFollows
=============================================================================
