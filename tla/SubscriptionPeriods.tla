------------------------ MODULE SubscriptionPeriods ------------------------
(***************************************************************************)
(* How payments become the periods of one subscription of one user: the    *)
(* webhooks of Stripe and PayPal (http/internal/rest/webhooks), the two    *)
(* requests of the user (http/egvault/cancel.rs) and the age that is       *)
(* counted from the periods (sub_refresh_job.rs).  An event is delivered   *)
(* until it is answered, in any order and more than once; its handler is   *)
(* a transaction, which asks the provider between its reads and its        *)
(* writes.  Time is in billing cycles.  What the periods are worth to the  *)
(* user, the state of the subscription included, is SubscriptionRefresh.   *)
(***************************************************************************)
EXTENDS Integers, FiniteSets, SequencesExt

CONSTANTS Gift,        \* invoices of gifts to the user
          GiftLength,  \* cycles a gift may have: a month, a year
          MaxTime,     \* bound on the cycles
          MaxChanges   \* bound on the changes of mind at the provider

VARIABLES
    now,
    sub,      \* the subscription at the provider
    sent,     \* events of the provider
    seen,     \* webhook_events
    looks,    \* transactions that have read and not yet committed
    periods,  \* subscription_periods of the user's subscription
    crossed,  \* history: an event was overtaken by a later one, or by a payment
    hurried   \* history: gifts that were handled late, or two at a time

vars == <<now, sub, sent, seen, looks, periods, crossed, hurried>>

Bill == 1..(MaxTime + 1)  \* invoices of the subscription, one for each cycle
System == 0               \* a period that an administrator gives
Subscription ==
    [provider : {"stripe", "paypal"}, live : BOOLEAN, renews : BOOLEAN,
     bill : {0} \cup Bill, from : 0..MaxTime, changes : 0..MaxChanges]
Period == [inv : {System} \cup Bill \cup Gift, start : Nat, end : Nat, renews : BOOLEAN]

TypeOK ==
    /\ now \in 0..MaxTime
    /\ sub \in Subscription
    /\ seen \subseteq sent
    /\ \A l \in looks : l.event \in sent \ seen /\ l.period \in Period
    /\ periods \in Seq(Period)
    /\ crossed \in BOOLEAN /\ hurried \subseteq Gift

\* New subscriptions are Stripe's; those at PayPal are old ones.
Init ==
    /\ now = 0
    /\ \E p \in {"stripe", "paypal"} :
           LET old == p = "paypal"
           IN /\ sub = [provider |-> p, live |-> old, renews |-> old,
                        bill |-> IF old THEN 1 ELSE 0, from |-> 0, changes |-> 0]
              /\ periods = IF old THEN << [inv |-> 1, start |-> 0, end |-> 1, renews |-> TRUE] >>
                           ELSE << >>
    /\ sent = {} /\ seen = {} /\ looks = {}
    /\ crossed = FALSE /\ hurried = {}

-----------------------------------------------------------------------------
(* The provider. *)

Send(e) == sent' = sent \cup {e}

Charged(s, t) ==
    /\ sub' = [s EXCEPT !.live = TRUE, !.renews = TRUE, !.bill = @ + 1, !.from = t]
    /\ Send([kind |-> "paid", inv |-> s.bill + 1])

\* The check-out may have been opened before the user had a period.
Subscribe ==
    /\ sub.provider = "stripe" /\ sub.bill = 0
    /\ Charged(sub, now)
    /\ UNCHANGED <<now, seen, looks, periods, crossed, hurried>>

Tick ==
    /\ now < MaxTime
    /\ now' = now + 1
    /\ \/ /\ ~sub.live
          /\ UNCHANGED <<sub, sent>>
       \/ /\ sub.live /\ sub.renews
          /\ Charged(sub, now + 1)
       \/ /\ sub.live /\ ~sub.renews
          /\ sub' = [sub EXCEPT !.live = FALSE]
          /\ IF sub.provider = "stripe" THEN Send([kind |-> "ended", at |-> now + 1])
             ELSE UNCHANGED sent
    /\ UNCHANGED <<seen, looks, periods, crossed, hurried>>

\* Ended at once, or its product taken out of it.
EndAtOnce ==
    /\ sub.provider = "stripe" /\ sub.live
    /\ sub' = [sub EXCEPT !.live = FALSE]
    /\ Send([kind |-> "ended", at |-> now])
    /\ UNCHANGED <<now, seen, looks, periods, crossed, hurried>>

BuyGift(g, n) ==
    /\ \A e \in sent : e.kind = "gift" => e.inv # g
    /\ Send([kind |-> "gift", inv |-> g, created |-> now, length |-> n])
    /\ UNCHANGED <<now, sub, seen, looks, periods, crossed, hurried>>

\* The subscription is told to renew or not; a subscription at PayPal that has been
\* cancelled stays so.
Told(renew) ==
    /\ sub.live
    /\ IF sub.renews = renew THEN UNCHANGED <<sub, sent>>
       ELSE /\ sub.changes < MaxChanges
            /\ sub' = [sub EXCEPT !.renews = renew, !.changes = @ + 1]
            /\ Send([kind |-> "changed", inv |-> sub.bill, renews |-> renew,
                     no |-> sub.changes + 1])

\* By the user or an administrator, at the provider.
ToldThere(renew) ==
    /\ sub.provider = "paypal" => ~renew
    /\ sub.renews # renew /\ Told(renew)
    /\ UNCHANGED <<now, seen, looks, periods, crossed, hurried>>

-----------------------------------------------------------------------------
(* Payments. *)

Current(i) == periods[i].start <= now /\ now < periods[i].end
OfProvider(i) == periods[i].inv \in Bill

\* Wrong variant: an event is not looked up among those that have been handled.
FreshAny(e) == e \in sent /\ \A l \in looks : l.event # e

Fresh(e) == e \in sent \ seen /\ \A l \in looks : l.event # e

Looks(e, start, end, renew) ==
    looks' = looks \cup
        {[event |-> e, period |-> [inv |-> e.inv, start |-> start, end |-> end, renews |-> renew]]}

\* The period is what the provider says of the subscription now.
LookPaid(e) ==
    /\ e.kind = "paid" /\ Fresh(e)
    /\ sub.provider = "paypal" => sub.renews
    /\ Looks(e, sub.from, sub.from + 1, sub.renews)
    /\ crossed' = (crossed \/ e.inv < sub.bill)
    /\ UNCHANGED <<now, sub, sent, seen, periods, hurried>>

\* A subscription that was cancelled at PayPal has no next billing time: the payment
\* is noted and buys nothing.
PaidForNothing(e) ==
    /\ e.kind = "paid" /\ Fresh(e)
    /\ sub.provider = "paypal" /\ ~sub.renews
    /\ seen' = seen \cup {e}
    /\ UNCHANGED <<now, sub, sent, looks, periods, crossed, hurried>>

\* The periods that are not over, the first to end first.
Remaining ==
    {i \in DOMAIN periods : now < periods[i].end}
EndsFirst(i) ==
    \A j \in Remaining :
        \/ periods[i].end < periods[j].end
        \/ periods[i].end = periods[j].end /\ i <= j
GiftStart(e) ==
    IF Remaining = {} THEN e.created ELSE Max({periods[i].end : i \in Remaining})

\* A gift goes after everything the user has; a subscription that would renew is told
\* not to.
LookGift(e) ==
    /\ e.kind = "gift" /\ Fresh(e)
    /\ IF \E i \in Remaining : EndsFirst(i) /\ periods[i].start <= now /\ periods[i].renews
       THEN Told(FALSE) ELSE UNCHANGED <<sub, sent>>
    /\ Looks(e, GiftStart(e), GiftStart(e) + e.length, FALSE)
    /\ hurried' = hurried \cup
           (IF e.created < now \/ \E l \in looks : l.event.kind = "gift" THEN {e.inv} ELSE {})
    /\ UNCHANGED <<now, seen, periods, crossed>>

Commit(l) ==
    /\ seen' = seen \cup {l.event}
    /\ periods' = Append(periods, l.period)
    /\ looks' = looks \ {l}
    /\ UNCHANGED <<now, sub, sent, crossed, hurried>>

\* The provider's answer or the commit is an error, or the process dies.
Fail(l) ==
    /\ looks' = looks \ {l}
    /\ UNCHANGED <<now, sub, sent, seen, periods, crossed, hurried>>

-----------------------------------------------------------------------------
(* What is told of a subscription, and what the user and the administrator do. *)

\* Stripe names the invoice; at PayPal it is the current period that stops renewing.
HandleChanged(e) ==
    LET hit == {i \in DOMAIN periods :
                    IF sub.provider = "stripe" THEN periods[i].inv = e.inv
                    ELSE OfProvider(i) /\ Current(i)}
    IN /\ e.kind = "changed" /\ Fresh(e)
       /\ seen' = seen \cup {e}
       /\ IF hit = {} THEN UNCHANGED periods
          ELSE \E i \in hit : periods' = [periods EXCEPT ![i].renews = e.renews]
       /\ crossed' = (\/ crossed
                      \/ \E f \in seen : f.kind = "changed" /\ f.no > e.no
                      \/ \E l \in looks : l.event.inv = e.inv /\ l.period.renews # e.renews)
       /\ UNCHANGED <<now, sub, sent, looks, hurried>>

HandleEnded(e) ==
    LET hit == {i \in DOMAIN periods : OfProvider(i) /\ Current(i)}
    IN /\ e.kind = "ended" /\ Fresh(e)
       /\ seen' = seen \cup {e}
       /\ IF hit = {} THEN UNCHANGED periods
          ELSE \E i \in hit : periods' = [periods EXCEPT ![i].end = e.at]
       /\ crossed' = (\/ crossed
                      \/ \E f \in sent \ seen : f.kind = "paid" /\ f.inv = sub.bill)
       /\ UNCHANGED <<now, sub, sent, looks, hurried>>

\* A period of nobody's subscription ends at once.
Cancel(i) ==
    /\ Current(i)
    /\ IF OfProvider(i) THEN Told(FALSE) /\ UNCHANGED periods
       ELSE periods' = [periods EXCEPT ![i].end = now] /\ UNCHANGED <<sub, sent>>
    /\ UNCHANGED <<now, seen, looks, crossed, hurried>>

Reactivate(i) ==
    /\ Current(i) /\ OfProvider(i) /\ sub.provider = "stripe"
    /\ Told(TRUE)
    /\ UNCHANGED <<now, seen, looks, periods, crossed, hurried>>

\* One such period is enough.
CreatePeriod(start, end) ==
    /\ \A i \in DOMAIN periods : periods[i].inv # System
    /\ periods' = Append(periods,
           [inv |-> System, start |-> start, end |-> end, renews |-> FALSE])
    /\ UNCHANGED <<now, sub, sent, seen, looks, crossed, hurried>>

-----------------------------------------------------------------------------
Payments == \E e \in sent : LookPaid(e) \/ PaidForNothing(e) \/ LookGift(e)
Commits == \E l \in looks : Commit(l)
Changes == \E e \in sent : HandleChanged(e) \/ HandleEnded(e)
Requests ==
    \/ \E i \in DOMAIN periods : Cancel(i) \/ Reactivate(i)
    \/ \E start \in 0..now, end \in 1..(MaxTime + 1) : start < end /\ CreatePeriod(start, end)

Next ==
    \/ Subscribe \/ Tick \/ EndAtOnce
    \/ \E g \in Gift, n \in GiftLength : BuyGift(g, n)
    \/ \E renew \in BOOLEAN : ToldThere(renew)
    \/ Payments \/ Commits \/ Changes \/ Requests
    \/ \E l \in looks : Fail(l)

Spec == Init /\ [][Next]_vars

-----------------------------------------------------------------------------
(* The age of a subscription. *)

Least(a, b) == IF a < b THEN a ELSE b

\* Wrong variant: the span ends where the last of its periods does.
JoinLast(acc, p) ==
    IF acc = << >> \/ Last(acc).end < p.start THEN Append(acc, p)
    ELSE [acc EXCEPT ![Len(acc)].end = p.end]

Join(acc, p) ==
    IF acc = << >> \/ Last(acc).end < p.start THEN Append(acc, p)
    ELSE [acc EXCEPT ![Len(acc)].end = IF @ < p.end THEN p.end ELSE @]

\* Those that start together come as the one that ends last: Join makes the same of them
\* in any order.
JoinAll(acc, start, ends) ==
    IF ends = {} THEN acc ELSE Join(acc, [start |-> start, end |-> Max(ends)])

\* The periods that have begun, cut off now, join into spans in the order they start.
Spans(ps) ==
    LET ends(t) == {Least(ps[i].end, now) : i \in {i \in DOMAIN ps : ps[i].start = t}}
        upTo[t \in 0..now] ==
            IF t = 0 THEN << >> ELSE JoinAll(upTo[t-1], t-1, ends(t-1))
    IN  upTo[now]

\* The sum of their lengths.
SubAge(ps) ==
    LET spans == Spans(ps)
        days[n \in 0..Len(spans)] ==
            IF n = 0 THEN 0 ELSE days[n-1] + (spans[n].end - spans[n].start)
    IN  days[Len(spans)]

-----------------------------------------------------------------------------
(* Properties. *)

\* A payment makes one period, however often its event comes and however its
\* handlers fail.
OnePeriodPerInvoice ==
    \A i, j \in DOMAIN periods : i # j => periods[i].inv # periods[j].inv

\* A gift is time on top: no two gifts cover the same cycle, unless they were handled
\* at the same moment - each has an invoice, and so a mutex, of its own - or late.
GiftsAddUp ==
    \A i, j \in DOMAIN periods :
        /\ i # j /\ {periods[i].inv, periods[j].inv} \subseteq Gift \ hurried
        => periods[i].end <= periods[j].start \/ periods[j].end <= periods[i].start

\* When every event has been handled, the period of the last invoice renews if the
\* subscription does, and is over if it is; a change that comes before the payment it
\* is about is not lost, since the payment asks the provider again.
ProviderFollowed ==
    sent = seen /\ ~crossed =>
        \A i \in DOMAIN periods :
            OfProvider(i) /\ periods[i].inv = sub.bill =>
                IF sub.live THEN periods[i].renews = sub.renews ELSE ~Current(i)

PeriodsFollow == OnePeriodPerInvoice /\ GiftsAddUp /\ ProviderFollowed

\* The age is the number of cycles some period covers: none twice, none left out.
AgeCountsOnce ==
    SubAge(periods) =
        Cardinality({t \in 0..(now - 1) :
                        \E i \in DOMAIN periods : periods[i].start <= t /\ t < periods[i].end})
=============================================================================
