------------------------ MODULE SubscriptionRefresh ------------------------
(***************************************************************************)
(* What the periods of a user's subscriptions are worth to the user:       *)
(* refresh (sub_refresh_job.rs) of one subscription for each product, run  *)
(* after a webhook, by an administrator and once a day.  It is several     *)
(* writes without a transaction, under a mutex of the subscription; the    *)
(* personal emote set is made under a mutex of the user.  The periods,     *)
(* which SubscriptionPeriods is about, are here what they amount to.       *)
(***************************************************************************)
EXTENDS Naturals

CONSTANT Product

VARIABLES
    worth,  \* worth[p]: none yet, over, or a current period, which renews or does not
    gave,   \* the user has given enough subscriptions to earn a special event
    state,  \* state[p]: the state of the subscription's document
    edge,   \* products with an edge from the user to the subscription
    event,  \* products with an edge from the subscription to the special event
    sets,   \* personal emote sets of the user
    style,  \* the user's style names a personal emote set
    pc,     \* pc[p]: the next write of the refresh of the subscription
    view,   \* view[p]: what it has read
    since,  \* history: what became of the last change of the subscription
    cut     \* history: the last refresh to write the edges of the subscription failed later

vars == <<worth, gave, state, edge, event, sets, style, pc, view, since, cut>>

Worth == {"never", "over", "ending", "renewing"}
Active(w) == w \in {"ending", "renewing"}
Nothing == [worth |-> "never", held |-> FALSE, gave |-> FALSE]

TypeOK ==
    /\ worth \in [Product -> Worth]
    /\ state \in [Product -> {"none", "active", "cancelled", "ended"}]
    /\ edge \subseteq Product /\ event \subseteq Product
    /\ gave \in BOOLEAN /\ style \in BOOLEAN /\ sets \in Nat
    /\ pc \in [Product -> {"idle", "save", "delete", "insert", "find", "create", "style"}]
    /\ view \in [Product -> [worth : Worth, held : BOOLEAN, gave : BOOLEAN]]
    /\ since \in [Product -> {"changed", "read", "written"}] /\ cut \subseteq Product

Init ==
    /\ worth = [p \in Product |-> "never"] /\ gave = FALSE
    /\ state = [p \in Product |-> "none"]
    /\ edge = {} /\ event = {}
    /\ sets = 0 /\ style = FALSE
    /\ pc = [p \in Product |-> "idle"]
    /\ view = [p \in Product |-> Nothing]
    /\ since = [p \in Product |-> "changed"] /\ cut = {}

-----------------------------------------------------------------------------
(* One refresh. *)

Goto(p, label) == pc' = [pc EXCEPT ![p] = label]
Forget(p) == view' = [view EXCEPT ![p] = Nothing]

Read(p) ==
    /\ pc[p] = "idle"
    /\ view' = [view EXCEPT ![p] = [worth |-> worth[p], held |-> p \in edge, gave |-> gave]]
    /\ Goto(p, "save")
    /\ since' = [since EXCEPT ![p] = "read"]
    /\ UNCHANGED <<worth, gave, state, edge, event, sets, style, cut>>

Due(w) ==
    CASE w = "renewing" -> "active" [] w = "ending" -> "cancelled" [] OTHER -> "ended"

Save(p) ==
    /\ pc[p] = "save"
    /\ state' = [state EXCEPT ![p] = Due(view[p].worth)]
    /\ Goto(p, "delete")
    /\ UNCHANGED <<worth, gave, edge, event, sets, style, view, since, cut>>

Delete(p) ==
    /\ pc[p] = "delete"
    /\ edge' = IF view[p].held /\ ~Active(view[p].worth) THEN edge \ {p} ELSE edge
    /\ event' = IF view[p].gave THEN event ELSE event \ {p}
    /\ Goto(p, "insert")
    /\ UNCHANGED <<worth, gave, state, sets, style, view, since, cut>>

New(p) == Active(view[p].worth) /\ ~view[p].held

\* Wrong variant: the insert stops at the first edge that is there already.
InsertInOrder(p) ==
    /\ pc[p] = "insert"
    /\ edge' = IF New(p) /\ ~(view[p].gave /\ p \in event) THEN edge \cup {p} ELSE edge
    /\ event' = IF view[p].gave THEN event \cup {p} ELSE event
    /\ Goto(p, IF view[p].gave /\ p \in event THEN "idle" ELSE "find")
    /\ since' = [since EXCEPT ![p] = IF @ = "read" THEN "written" ELSE @]
    /\ Forget(p)
    /\ UNCHANGED <<worth, gave, state, sets, style, cut>>

\* The edge to the event is inserted again and again: from the second time on that is
\* an error, which ends the refresh.  The insert is not ordered, so the edge of the
\* user is written all the same.
Insert(p) ==
    /\ pc[p] = "insert"
    /\ edge' = IF New(p) THEN edge \cup {p} ELSE edge
    /\ event' = IF view[p].gave THEN event \cup {p} ELSE event
    /\ Goto(p, IF view[p].gave /\ p \in event THEN "idle" ELSE "find")
    /\ since' = [since EXCEPT ![p] = IF @ = "read" THEN "written" ELSE @]
    /\ Forget(p)
    /\ UNCHANGED <<worth, gave, state, sets, style, cut>>

Find(p) ==
    /\ pc[p] = "find"
    /\ Goto(p, IF sets = 0 THEN "create" ELSE "style")
    /\ UNCHANGED <<worth, gave, state, edge, event, sets, style, view, since, cut>>

\* A transaction under the mutex of the user.
Create(p) ==
    /\ pc[p] = "create"
    /\ sets' = IF sets = 0 THEN 1 ELSE sets
    /\ Goto(p, "style")
    /\ UNCHANGED <<worth, gave, state, edge, event, style, view, since, cut>>

Style(p) ==
    /\ pc[p] = "style"
    /\ style' = TRUE
    /\ Goto(p, "idle")
    /\ cut' = cut \ {p}
    /\ UNCHANGED <<worth, gave, state, edge, event, sets, view, since>>

\* A write is an error, or the process dies; whoever asked for the refresh ignores it.
Fail(p) ==
    /\ pc[p] # "idle"
    /\ Goto(p, "idle")
    /\ cut' = IF pc[p] \in {"find", "create", "style"} THEN cut \cup {p} ELSE cut
    /\ Forget(p)
    /\ UNCHANGED <<worth, gave, state, edge, event, sets, style, since>>

-----------------------------------------------------------------------------
(* What goes on meanwhile. *)

\* A payment, a change at the provider, or the passing of time.
PeriodsChange(p, w) ==
    /\ w # "never" /\ w # worth[p]
    /\ worth' = [worth EXCEPT ![p] = w]
    /\ since' = [since EXCEPT ![p] = "changed"]
    /\ UNCHANGED <<gave, state, edge, event, sets, style, pc, view, cut>>

Gives ==
    /\ gave' = TRUE
    /\ UNCHANGED <<worth, state, edge, event, sets, style, pc, view, since, cut>>

\* The state is written at once, though a provider may go on to say otherwise; a gift
\* ends at once.  No refresh is asked for.
CancelSubscription(p, w) ==
    /\ Active(worth[p]) /\ w \in {worth[p], "over"}
    /\ worth' = [worth EXCEPT ![p] = w]
    /\ state' = [state EXCEPT ![p] = IF @ = "none" THEN @ ELSE "cancelled"]
    /\ since' = [since EXCEPT ![p] = "changed"]
    /\ UNCHANGED <<gave, edge, event, sets, style, pc, view, cut>>

ReactivateSubscription(p) ==
    /\ Active(worth[p])
    /\ state' = [state EXCEPT ![p] = IF @ = "none" THEN @ ELSE "active"]
    /\ since' = [since EXCEPT ![p] = "changed"]
    /\ UNCHANGED <<worth, gave, edge, event, sets, style, pc, view, cut>>

-----------------------------------------------------------------------------
Next ==
    \/ Gives
    \/ \E p \in Product :
           \/ Read(p) \/ Save(p) \/ Delete(p) \/ Insert(p)
           \/ Find(p) \/ Create(p) \/ Style(p) \/ Fail(p)
           \/ \E w \in Worth : PeriodsChange(p, w) \/ CancelSubscription(p, w)
           \/ ReactivateSubscription(p)

Spec == Init /\ [][Next]_vars

-----------------------------------------------------------------------------
(* Properties. *)

\* The user has at most one personal emote set, though each subscription looks for it.
OnePersonalSet == sets <= 1

\* A refresh that has read the last change and written the edges has made the user's
\* what is paid for and taken what is over, whatever earlier refreshes left half done
\* and whatever else the insert found; and the user has the personal emote set, unless
\* it failed on the last steps, which an edge to an event keeps every later one from.
EntitlementsFollow ==
    \A p \in Product :
        since[p] = "written" =>
            /\ p \in edge <=> Active(worth[p])
            /\ state[p] = Due(worth[p])
            /\ pc[p] = "idle" /\ p \notin cut => style

BenefitsFollow == OnePersonalSet /\ EntitlementsFollow
=============================================================================
