------------------------- MODULE EventSubscriptions -------------------------
(***************************************************************************)
(* The subscription manager of apps/event-api/src/subscription: one task   *)
(* owns a map from topics to broadcast channels, reads NATS, and serves    *)
(* the requests that subscribers put in an unbounded channel.  A receiver  *)
(* unsubscribes when it is dropped, first the broadcast receiver and then  *)
(* the guard that sends the request (recv.rs).                             *)
(*                                                                         *)
(* A subscriber is one SubscriberReceiver of one connection, for one       *)
(* topic; it may come and go.  A channel is the entry of its topic or, if  *)
(* that was removed, an orphan nobody sends to.                            *)
(***************************************************************************)
EXTENDS Naturals, Sequences, FiniteSets

CONSTANTS Sub,          \* the subscribers
          TopicOf,      \* TopicOf[s]: the topic of subscriber s
          Keys,         \* the sets of keys a NATS message is sent to
          MaxQueue,     \* bound on the requests in the channel
          Nobody        \* the sender of a request whose oneshot is closed

Topic == {TopicOf[s] : s \in Sub}

ASSUME ConstAssumption ==
    /\ Keys \subseteq SUBSET Topic
    /\ MaxQueue \in Nat
    /\ Nobody \notin Sub

VARIABLES
    manager,    \* "running", or "stopped" when run() has returned
    down,       \* the global context is done
    nats,       \* the NATS subscription: "open" or "closed"
    entries,    \* the topics in the map
    queue,      \* the requests in the channel, oldest first
    st,         \* st[s]: where subscriber s stands
    attached,   \* the receivers whose channel is the entry of their topic
    missed      \* history: the receivers a message of their topic went past

vars == <<manager, down, nats, entries, queue, st, attached, missed>>

task == <<manager, down, nats>>

\* A subscribe request carries the oneshot of s, an unsubscribe request its topic.
Subscription(t, s) == [op |-> "subscribe", topic |-> t, tx |-> s]
Unsubscription(t) == [op |-> "unsubscribe", topic |-> t, tx |-> Nobody]

Request == [op : {"subscribe", "unsubscribe"}, topic : Topic, tx : Sub \cup {Nobody}]

Init ==
    /\ manager = "running"
    /\ down = FALSE
    /\ nats = "open"
    /\ entries = {}
    /\ queue = <<>>
    /\ st = [s \in Sub |-> "none"]
    /\ attached = {}
    /\ missed = {}

Goto(s, label) == st' = [st EXCEPT ![s] = label]

\* The requests are sent to an unbounded channel that is never closed.
Send(request) ==
    /\ Len(queue) < MaxQueue
    /\ queue' = Append(queue, request)

-----------------------------------------------------------------------------
(* SubscriptionManager::subscribe and the SubscriberReceiver *)

Subscribe(s) ==
    /\ st[s] = "none"
    /\ ~down
    /\ Send(Subscription(TopicOf[s], s))
    /\ Goto(s, "asked")
    /\ UNCHANGED <<task, entries, attached, missed>>

\* rx.await gives the broadcast receiver: the guard exists from here on.
Take(s) ==
    /\ st[s] = "replied"
    /\ Goto(s, "held")
    /\ UNCHANGED <<task, entries, queue, attached, missed>>

\* At shutdown the connection's future is dropped while it waits: the oneshot is
\* closed, and with it goes a receiver that was already in it.
Abandon(s) ==
    /\ down
    /\ st[s] \in {"asked", "replied"}
    /\ Goto(s, "none")
    /\ queue' = [i \in DOMAIN queue |->
                    IF queue[i].tx = s THEN [queue[i] EXCEPT !.tx = Nobody] ELSE queue[i]]
    /\ attached' = attached \ {s}
    /\ UNCHANGED <<task, entries, missed>>

\* The subscription is removed, its stream has ended, or the connection is over:
\* first the broadcast receiver is dropped ..
DropReceiver(s) ==
    /\ st[s] = "held"
    /\ Goto(s, "closing")
    /\ attached' = attached \ {s}
    /\ UNCHANGED <<task, entries, queue, missed>>

\* Wrong variant: no request is sent.
DropGuardSilently(s) ==
    /\ st[s] = "closing"
    /\ Goto(s, "none")
    /\ UNCHANGED <<task, entries, queue, attached, missed>>

\* .. then the guard sends the request.
DropGuard(s) ==
    /\ st[s] = "closing"
    /\ Send(Unsubscription(TopicOf[s]))
    /\ Goto(s, "none")
    /\ UNCHANGED <<task, entries, attached, missed>>

-----------------------------------------------------------------------------
(* subscription::run *)

Receivers(t) == {s \in attached : TopicOf[s] = t}

\* Event::Subscribe: the receiver of the entry's channel, or of a new one that is
\* entered in the map, unless nobody waits for it any more.
ServeSubscribe ==
    /\ manager = "running"
    /\ queue # <<>> /\ Head(queue).op = "subscribe"
    /\ LET s == Head(queue).tx
       IN  IF s = Nobody
           THEN UNCHANGED <<entries, st, attached>>
           ELSE /\ entries' = entries \cup {Head(queue).topic}
                /\ Goto(s, "replied")
                /\ attached' = attached \cup {s}
    /\ queue' = Tail(queue)
    /\ UNCHANGED <<task, missed>>

\* Removing an entry drops its sender: the channel of its receivers is closed.
Remove(topics) ==
    /\ entries' = entries \ topics
    /\ attached' = {s \in attached : TopicOf[s] \notin topics}

\* Wrong variant: the receivers are not counted.
ServeUnsubscribeAlways ==
    /\ manager = "running"
    /\ queue # <<>> /\ Head(queue).op = "unsubscribe"
    /\ Remove({Head(queue).topic})
    /\ queue' = Tail(queue)
    /\ UNCHANGED <<task, st, missed>>

\* Wrong variant: the manager waits for the last receiver of the channel.
ServeUnsubscribeWaits ==
    /\ manager = "running"
    /\ queue # <<>> /\ Head(queue).op = "unsubscribe"
    /\ Receivers(Head(queue).topic) = {}
    /\ Remove({Head(queue).topic})
    /\ queue' = Tail(queue)
    /\ UNCHANGED <<task, st, missed>>

\* Event::Unsubscribe: the entry goes when no receiver of its channel is left.
ServeUnsubscribe ==
    /\ manager = "running"
    /\ queue # <<>> /\ Head(queue).op = "unsubscribe"
    /\ Remove({t \in {Head(queue).topic} : Receivers(t) = {}})
    /\ queue' = Tail(queue)
    /\ UNCHANGED <<task, st, missed>>

\* A message: each of its keys that is in the map gets it, an entry without
\* receivers is removed, and whoever holds another channel does not hear of it.
Publish(keys) ==
    /\ manager = "running" /\ nats = "open"
    /\ Remove({t \in keys : Receivers(t) = {}})
    /\ missed' = missed \cup {s \in Sub \ attached :
                                st[s] \in {"replied", "held"} /\ TopicOf[s] \in keys}
    /\ UNCHANGED <<task, queue, st>>

\* run() returns: the map is dropped, the requests stay in the channel.
Stop ==
    /\ manager = "running"
    /\ manager' = "stopped"
    /\ Remove(Topic)
    /\ UNCHANGED <<down, nats, queue, st, missed>>

\* rmp_serde cannot read the message.
Malformed == nats = "open" /\ Stop

\* sub.next() gives None, or the context is done.
Finished == (nats = "closed" \/ down) /\ Stop

-----------------------------------------------------------------------------
(* Their surroundings *)

NatsCloses ==
    /\ nats = "open"
    /\ nats' = "closed"
    /\ UNCHANGED <<manager, down, entries, queue, st, attached, missed>>

ShutDown ==
    /\ ~down
    /\ down' = TRUE
    /\ UNCHANGED <<manager, nats, entries, queue, st, attached, missed>>

Serve == ServeSubscribe \/ ServeUnsubscribe

Next ==
    \/ \E s \in Sub :
        Subscribe(s) \/ Take(s) \/ Abandon(s) \/ DropReceiver(s) \/ DropGuard(s)
    \/ Serve
    \/ \E keys \in Keys : Publish(keys)
    \/ Malformed \/ Finished \/ NatsCloses \/ ShutDown

Spec == Init /\ [][Next]_vars

\* The manager and the connections are polled, and select! picks at random among
\* what is ready: requests are served.  A drop that has begun goes through.
Fairness ==
    /\ WF_vars(Serve)
    /\ \A s \in Sub : WF_vars(Take(s)) /\ WF_vars(DropGuard(s))

FairSpec == Spec /\ Fairness

-----------------------------------------------------------------------------
(* What must hold *)

TypeOK ==
    /\ manager \in {"running", "stopped"}
    /\ down \in BOOLEAN
    /\ nats \in {"open", "closed"}
    /\ entries \subseteq Topic
    /\ queue \in Seq(Request)
    /\ st \in [Sub -> {"none", "asked", "replied", "held", "closing"}]
    /\ attached \subseteq {s \in Sub : st[s] \in {"replied", "held"}}
    /\ missed \subseteq Sub

\* A message of its topic never goes past a live receiver, however requests,
\* removals and messages interleave (mod.rs:155-165 and 217-225).
HoldersHear == missed = {}

\* An entry without receivers goes with the next unsubscribe request, which is on
\* its way: the map does not grow with the topics that were ever asked for
\* (mod.rs:155-165, recv.rs:10-14), but for what is abandoned at shutdown.
EmptyEntriesLeave ==
    \A t \in entries : Receivers(t) = {} =>
        \/ down
        \/ \E s \in Sub : st[s] = "closing" /\ TopicOf[s] = t
        \/ \E i \in DOMAIN queue : queue[i] = Unsubscription(t)

\* Every subscribe call returns while the manager runs (mod.rs:99-112).
SubscribeReturns ==
    \A s \in Sub : (st[s] = "asked") ~> (st[s] # "asked" \/ manager = "stopped")

\* mod.rs:116-117: "This function will block until the global context is done or
\* when the NATS connection is closed."
BlocksUntilDone == manager = "stopped" => (down \/ nats = "closed")
=============================================================================
