---------------------- MODULE EventSubscriptionsProofs ----------------------
(***************************************************************************)
(* Proofs about EventSubscriptions, for any subscribers, topics and sets   *)
(* of keys.                                                                *)
(***************************************************************************)
EXTENDS EventSubscriptions, SequenceTheorems, TLAPS

\* Every live receiver is one of the channel in the map, and a request that still
\* has a sender is that of a subscriber who waits, for its own topic.
Registered ==
    /\ manager = "running" =>
        \A s \in Sub : st[s] \in {"replied", "held"} => s \in attached
    /\ \A i \in DOMAIN queue :
        queue[i].op = "subscribe" /\ queue[i].tx # Nobody =>
            queue[i].topic = TopicOf[queue[i].tx]

Steps(s) == Subscribe(s) \/ Take(s) \/ Abandon(s) \/ DropReceiver(s) \/ DropGuard(s)

-----------------------------------------------------------------------------

\* What the channel of requests holds after a send and after a receive.
LEMMA Sending ==
    ASSUME queue \in Seq(Request), NEW r \in Request, Send(r)
    PROVE  /\ queue' \in Seq(Request)
           /\ DOMAIN queue' = 1..(Len(queue) + 1)
           /\ queue'[Len(queue) + 1] = r
           /\ \A i \in DOMAIN queue : i \in DOMAIN queue' /\ queue'[i] = queue[i]
BY DEF Send

LEMMA Receiving ==
    ASSUME queue \in Seq(Request), queue # <<>>, queue' = Tail(queue)
    PROVE  /\ queue' \in Seq(Request)
           /\ Head(queue) = queue[1] /\ Head(queue) \in Request
           /\ 1 \in DOMAIN queue
           /\ DOMAIN queue' = 1..(Len(queue) - 1)
           /\ \A i \in DOMAIN queue' : i + 1 \in DOMAIN queue /\ queue'[i] = queue[i + 1]
           /\ \A i \in DOMAIN queue : i # 1 => i - 1 \in DOMAIN queue' /\ queue'[i - 1] = queue[i]
<1>1. queue' \in Seq(Request) /\ Len(queue') = Len(queue) - 1
  OBVIOUS
<1>2. \A i \in 1..(Len(queue) - 1) : queue'[i] = queue[i + 1]
  OBVIOUS
<1>3. Head(queue) = queue[1] /\ 1 \in DOMAIN queue /\ queue[1] \in Request
  OBVIOUS
<1>4. Len(queue) \in Nat /\ DOMAIN queue = 1..Len(queue) /\ DOMAIN queue' = 1..(Len(queue) - 1)
  BY <1>1
<1> QED
  BY <1>1, <1>2, <1>3, <1>4

\* Closing the oneshot of s touches nothing but the sender of its requests.
LEMMA Closing ==
    ASSUME queue \in Seq(Request), NEW s \in Sub, Abandon(s)
    PROVE  /\ queue' \in Seq(Request)
           /\ DOMAIN queue' = DOMAIN queue
           /\ \A i \in DOMAIN queue :
                /\ queue'[i].op = queue[i].op /\ queue'[i].topic = queue[i].topic
                /\ queue'[i].tx \in {queue[i].tx, Nobody}
                /\ queue[i].tx = Nobody => queue'[i] = queue[i]
<1> DEFINE new(i) == IF queue[i].tx = s THEN [queue[i] EXCEPT !.tx = Nobody] ELSE queue[i]
<1>1. queue' = [i \in 1..Len(queue) |-> new(i)] /\ Len(queue) \in Nat
  BY DEF Abandon
<1>2. \A i \in 1..Len(queue) :
        /\ queue[i] \in Request
        /\ new(i) \in Request /\ new(i).op = queue[i].op /\ new(i).topic = queue[i].topic
        /\ new(i).tx \in {queue[i].tx, Nobody}
        /\ queue[i].tx = Nobody => new(i) = queue[i]
  <2> SUFFICES ASSUME NEW i \in 1..Len(queue)
               PROVE  /\ queue[i] \in Request
                      /\ new(i) \in Request /\ new(i).op = queue[i].op
                      /\ new(i).topic = queue[i].topic
                      /\ new(i).tx \in {queue[i].tx, Nobody}
                      /\ queue[i].tx = Nobody => new(i) = queue[i]
    OBVIOUS
  <2>1. queue[i] \in Request
    OBVIOUS
  <2>2. CASE queue[i].tx = s
    <3>1. s # Nobody
      BY ConstAssumption
    <3> QED
      BY <2>1, <2>2, <3>1 DEF Request
  <2>3. CASE queue[i].tx # s
    BY <2>1, <2>3
  <2> QED
    BY <2>2, <2>3
<1>3. queue' \in Seq(Request) /\ DOMAIN queue' = 1..Len(queue) /\ DOMAIN queue = 1..Len(queue)
  BY <1>1, <1>2
<1>4. \A i \in 1..Len(queue) : queue'[i] = new(i)
  BY <1>1
<1> HIDE DEF new
<1> QED
  BY <1>2, <1>3, <1>4

-----------------------------------------------------------------------------

LEMMA InitOK == Init => TypeOK /\ Registered /\ HoldersHear /\ EmptyEntriesLeave
<1>1. Init => queue = <<>> /\ queue \in Seq(Request) /\ DOMAIN queue = {}
  BY DEF Init
<1>2. Init => TypeOK
  BY <1>1 DEF Init, TypeOK
<1>3. Init => Registered /\ HoldersHear /\ EmptyEntriesLeave
  BY <1>1 DEF Init, Registered, HoldersHear, EmptyEntriesLeave
<1> QED
  BY <1>2, <1>3

\* Every step keeps the types, and every live receiver registered.
LEMMA TypeStep == TypeOK /\ [Next]_vars => TypeOK'
<1> SUFFICES ASSUME TypeOK, [Next]_vars PROVE TypeOK'
  OBVIOUS
<1> USE ConstAssumption DEF TypeOK, task, Goto
<1>1. ASSUME NEW s \in Sub, Subscribe(s) PROVE TypeOK'
  <2>1. Subscription(TopicOf[s], s) \in Request
    BY DEF Subscription, Request, Topic
  <2>2. queue' \in Seq(Request)
    BY <1>1, <2>1, Sending DEF Subscribe
  <2> QED
    BY <1>1, <2>2 DEF Subscribe
<1>2. ASSUME NEW s \in Sub, Take(s) PROVE TypeOK'
  BY <1>2 DEF Take
<1>3. ASSUME NEW s \in Sub, Abandon(s) PROVE TypeOK'
  <2>1. queue' \in Seq(Request)
    BY <1>3, Closing
  <2> QED
    BY <1>3, <2>1 DEF Abandon
<1>4. ASSUME NEW s \in Sub, DropReceiver(s) PROVE TypeOK'
  BY <1>4 DEF DropReceiver
<1>5. ASSUME NEW s \in Sub, DropGuard(s) PROVE TypeOK'
  <2>1. Unsubscription(TopicOf[s]) \in Request
    BY DEF Unsubscription, Request, Topic
  <2>2. queue' \in Seq(Request)
    BY <1>5, <2>1, Sending DEF DropGuard
  <2> QED
    BY <1>5, <2>2 DEF DropGuard
<1>6. ASSUME ServeSubscribe PROVE TypeOK'
  <2>1. queue' \in Seq(Request) /\ Head(queue) \in Request
    BY <1>6, Receiving DEF ServeSubscribe
  <2>2. Head(queue).tx \in Sub \cup {Nobody} /\ Head(queue).topic \in Topic
    BY <2>1 DEF Request
  <2>3. entries' \subseteq Topic
    BY <1>6, <2>2 DEF ServeSubscribe
  <2>4. st' \in [Sub -> {"none", "asked", "replied", "held", "closing"}]
        /\ attached' \subseteq {s \in Sub : st'[s] \in {"replied", "held"}}
    BY <1>6, <2>2 DEF ServeSubscribe
  <2> QED
    BY <1>6, <2>1, <2>3, <2>4 DEF ServeSubscribe
<1>7. ASSUME ServeUnsubscribe PROVE TypeOK'
  <2>1. queue' \in Seq(Request)
    BY <1>7, Receiving DEF ServeUnsubscribe
  <2> QED
    BY <1>7, <2>1 DEF ServeUnsubscribe, Remove
<1>8. ASSUME NEW keys \in Keys, Publish(keys) PROVE TypeOK'
  BY <1>8 DEF Publish, Remove
<1>9. ASSUME Stop PROVE TypeOK'
  BY <1>9 DEF Stop, Remove
<1>10. ASSUME NatsCloses \/ ShutDown PROVE TypeOK'
  BY <1>10 DEF NatsCloses, ShutDown
<1>11. CASE UNCHANGED vars
  BY <1>11 DEF vars
<1> QED
  BY <1>1, <1>2, <1>3, <1>4, <1>5, <1>6, <1>7, <1>8, <1>9, <1>10, <1>11
  DEF Next, Serve, Malformed, Finished

\* Every variable keeps its type.
THEOREM TypeCorrect == Spec => []TypeOK
<1>1. QED
  BY InitOK, TypeStep, PTL DEF Spec

-----------------------------------------------------------------------------

\* A step keeps the receivers registered: an entry only leaves when it has none.
LEMMA RegisteredStep == TypeOK /\ Registered /\ [Next]_vars => Registered'
<1> SUFFICES ASSUME TypeOK, Registered, [Next]_vars PROVE Registered'
  OBVIOUS
<1> USE ConstAssumption DEF TypeOK, Registered, task, Goto
<1>1. ASSUME NEW s \in Sub, Subscribe(s) PROVE Registered'
  <2>1. Subscription(TopicOf[s], s) \in Request
    BY DEF Subscription, Request, Topic
  <2>2. \A i \in DOMAIN queue' :
          (i \in DOMAIN queue /\ queue'[i] = queue[i]) \/ queue'[i] = Subscription(TopicOf[s], s)
    BY <1>1, <2>1, Sending DEF Subscribe
  <2> QED
    BY <1>1, <2>2 DEF Subscribe, Subscription
<1>2. ASSUME NEW s \in Sub, Take(s) PROVE Registered'
  BY <1>2 DEF Take
<1>3. ASSUME NEW s \in Sub, Abandon(s) PROVE Registered'
  <2>1. (manager = "running" =>
          \A x \in Sub : st[x] \in {"replied", "held"} => x \in attached)'
    BY <1>3 DEF Abandon
  <2> QED
    BY <1>3, <2>1, Closing
<1>4. ASSUME NEW s \in Sub, DropReceiver(s) PROVE Registered'
  BY <1>4 DEF DropReceiver
<1>5. ASSUME NEW s \in Sub, DropGuard(s) PROVE Registered'
  <2>1. Unsubscription(TopicOf[s]) \in Request
    BY DEF Unsubscription, Request, Topic
  <2>2. \A i \in DOMAIN queue' :
          (i \in DOMAIN queue /\ queue'[i] = queue[i]) \/ queue'[i] = Unsubscription(TopicOf[s])
    BY <1>5, <2>1, Sending DEF DropGuard
  <2> QED
    BY <1>5, <2>2 DEF DropGuard, Unsubscription
<1>6. ASSUME ServeSubscribe PROVE Registered'
  <2>1. \A i \in DOMAIN queue' : i + 1 \in DOMAIN queue /\ queue'[i] = queue[i + 1]
    BY <1>6, Receiving DEF ServeSubscribe
  <2>2. (manager = "running" =>
          \A x \in Sub : st[x] \in {"replied", "held"} => x \in attached)'
    BY <1>6 DEF ServeSubscribe
  <2> QED
    BY <2>1, <2>2
<1>7. ASSUME ServeUnsubscribe PROVE Registered'
  <2>1. \A i \in DOMAIN queue' : i + 1 \in DOMAIN queue /\ queue'[i] = queue[i + 1]
    BY <1>7, Receiving DEF ServeUnsubscribe
  <2>2. attached' = attached
    BY <1>7 DEF ServeUnsubscribe, Remove, Receivers
  <2> QED
    BY <1>7, <2>1, <2>2 DEF ServeUnsubscribe
<1>8. ASSUME NEW keys \in Keys, Publish(keys) PROVE Registered'
  <2>1. attached' = attached
    BY <1>8 DEF Publish, Remove, Receivers
  <2> QED
    BY <1>8, <2>1 DEF Publish
<1>9. ASSUME Stop PROVE Registered'
  BY <1>9 DEF Stop, Remove
<1>10. ASSUME NatsCloses \/ ShutDown PROVE Registered'
  BY <1>10 DEF NatsCloses, ShutDown
<1>11. CASE UNCHANGED vars
  BY <1>11 DEF vars
<1> QED
  BY <1>1, <1>2, <1>3, <1>4, <1>5, <1>6, <1>7, <1>8, <1>9, <1>10, <1>11
  DEF Next, Serve, Malformed, Finished

\* No message of its topic goes past a live receiver.
THEOREM NobodyMisses == Spec => []HoldersHear
<1>1. TypeOK /\ Registered /\ HoldersHear /\ [Next]_vars => HoldersHear'
  <2> SUFFICES ASSUME TypeOK, Registered, HoldersHear, [Next]_vars PROVE HoldersHear'
    OBVIOUS
  <2>1. ASSUME NEW keys \in Keys, Publish(keys) PROVE HoldersHear'
    BY <2>1 DEF Publish, Registered, HoldersHear
  <2>2. CASE UNCHANGED missed
    BY <2>2 DEF HoldersHear
  <2> QED
    BY <2>1, <2>2 DEF Next, vars, Serve, Malformed, Finished, Stop, Subscribe, Take, Abandon,
       DropReceiver, DropGuard, ServeSubscribe, ServeUnsubscribe, NatsCloses, ShutDown
<1>2. QED
  BY <1>1, InitOK, TypeStep, RegisteredStep, PTL DEF Spec

-----------------------------------------------------------------------------

\* Why the entry of topic t may be without receivers.
Leaving(t) ==
    \/ down
    \/ \E s \in Sub : st[s] = "closing" /\ TopicOf[s] = t
    \/ \E i \in DOMAIN queue : queue[i] = Unsubscription(t)

\* An entry without receivers is about to be removed, unless at shutdown.
LEMMA LeaveStep == TypeOK /\ Registered /\ EmptyEntriesLeave /\ [Next]_vars => EmptyEntriesLeave'
<1> SUFFICES ASSUME TypeOK, Registered, EmptyEntriesLeave, [Next]_vars,
                    NEW t \in entries', Receivers(t)' = {}
             PROVE  Leaving(t)'
  BY DEF EmptyEntriesLeave, Leaving
<1> USE ConstAssumption DEF TypeOK, task, Goto
<1>0. t \in entries /\ Receivers(t) = {} => Leaving(t)
  BY DEF EmptyEntriesLeave, Leaving
<1>1. ASSUME NEW s \in Sub, Subscribe(s) PROVE Leaving(t)'
  <2>1. Subscription(TopicOf[s], s) \in Request
    BY DEF Subscription, Request, Topic
  <2>2. \A i \in DOMAIN queue : i \in DOMAIN queue' /\ queue'[i] = queue[i]
    BY <1>1, <2>1, Sending DEF Subscribe
  <2> QED
    BY <1>0, <1>1, <2>2 DEF Subscribe, Receivers, Leaving
<1>2. ASSUME NEW s \in Sub, Take(s) PROVE Leaving(t)'
  BY <1>0, <1>2 DEF Take, Receivers, Leaving
<1>3. ASSUME NEW s \in Sub, Abandon(s) PROVE Leaving(t)'
  BY <1>3 DEF Abandon, Leaving
<1>4. ASSUME NEW s \in Sub, DropReceiver(s) PROVE Leaving(t)'
  <2>1. CASE TopicOf[s] = t
    BY <1>4, <2>1 DEF DropReceiver, Leaving
  <2>2. CASE TopicOf[s] # t
    BY <1>0, <1>4, <2>2 DEF DropReceiver, Receivers, Leaving
  <2> QED
    BY <2>1, <2>2
<1>5. ASSUME NEW s \in Sub, DropGuard(s) PROVE Leaving(t)'
  <2>1. Unsubscription(TopicOf[s]) \in Request
    BY DEF Unsubscription, Request, Topic
  <2>2. /\ Len(queue) + 1 \in DOMAIN queue'
        /\ queue'[Len(queue) + 1] = Unsubscription(TopicOf[s])
        /\ \A i \in DOMAIN queue : i \in DOMAIN queue' /\ queue'[i] = queue[i]
    BY <1>5, <2>1, Sending DEF DropGuard
  <2>3. CASE TopicOf[s] = t
    BY <2>2, <2>3 DEF Leaving, Unsubscription
  <2>4. CASE TopicOf[s] # t
    BY <1>0, <1>5, <2>2, <2>4 DEF DropGuard, Receivers, Leaving, Unsubscription
  <2> QED
    BY <2>3, <2>4
<1>6. ASSUME ServeSubscribe PROVE Leaving(t)'
  <2>1. /\ \A i \in DOMAIN queue : i # 1 => i - 1 \in DOMAIN queue' /\ queue'[i - 1] = queue[i]
        /\ queue[1].op = "subscribe" /\ Head(queue) = queue[1] /\ 1 \in DOMAIN queue
        /\ Head(queue) \in Request
    BY <1>6, Receiving DEF ServeSubscribe
  <2>2. \A i \in DOMAIN queue : queue[i] = Unsubscription(t) =>
          \E k \in DOMAIN queue' : queue'[k] = Unsubscription(t)
    <3> SUFFICES ASSUME NEW i \in DOMAIN queue, queue[i] = Unsubscription(t)
                 PROVE  \E k \in DOMAIN queue' : queue'[k] = Unsubscription(t)
      OBVIOUS
    <3>1. i # 1
      BY <2>1 DEF Unsubscription
    <3> QED
      BY <2>1, <3>1
  <2>3. CASE Head(queue).tx = Nobody
    BY <1>0, <1>6, <2>2, <2>3 DEF ServeSubscribe, Receivers, Leaving, Unsubscription
  <2>4. CASE Head(queue).tx # Nobody
    <3> DEFINE s == Head(queue).tx
    <3>1. s \in Sub /\ Head(queue).topic = TopicOf[s]
      BY <2>1, <2>4 DEF Request, Registered
    <3>2. /\ entries' = entries \cup {TopicOf[s]} /\ attached' = attached \cup {s}
          /\ st' = [st EXCEPT ![s] = "replied"] /\ down' = down
      BY <1>6, <2>4, <3>1 DEF ServeSubscribe
    <3>3. t # TopicOf[s] /\ t \in entries /\ Receivers(t) = {}
      BY <3>1, <3>2 DEF Receivers
    <3>4. \A x \in Sub : st[x] = "closing" /\ TopicOf[x] = t => st'[x] = "closing"
      BY <3>1, <3>2, <3>3
    <3> QED
      BY <1>0, <2>2, <3>2, <3>3, <3>4 DEF Leaving, Unsubscription
  <2> QED
    BY <2>3, <2>4
<1>7. ASSUME ServeUnsubscribe PROVE Leaving(t)'
  <2>1. /\ \A i \in DOMAIN queue : i # 1 => i - 1 \in DOMAIN queue' /\ queue'[i - 1] = queue[i]
        /\ Head(queue) = queue[1]
    BY <1>7, Receiving DEF ServeUnsubscribe
  <2>2. attached' = attached /\ t \in entries /\ Receivers(t) = {} /\ t # Head(queue).topic
    BY <1>7 DEF ServeUnsubscribe, Remove, Receivers
  <2>3. \A i \in DOMAIN queue : queue[i] = Unsubscription(t) =>
          \E k \in DOMAIN queue' : queue'[k] = Unsubscription(t)
    <3> SUFFICES ASSUME NEW i \in DOMAIN queue, queue[i] = Unsubscription(t)
                 PROVE  \E k \in DOMAIN queue' : queue'[k] = Unsubscription(t)
      OBVIOUS
    <3>1. i # 1
      BY <2>1, <2>2 DEF Unsubscription
    <3> QED
      BY <2>1, <3>1
  <2> QED
    BY <1>0, <1>7, <2>2, <2>3 DEF ServeUnsubscribe, Leaving, Unsubscription
<1>8. ASSUME NEW keys \in Keys, Publish(keys) PROVE Leaving(t)'
  BY <1>0, <1>8 DEF Publish, Remove, Receivers, Leaving
<1>9. ASSUME Stop PROVE Leaving(t)'
  BY <1>9 DEF Stop, Remove
<1>10. ASSUME NatsCloses \/ ShutDown PROVE Leaving(t)'
  BY <1>0, <1>10 DEF NatsCloses, ShutDown, Receivers, Leaving
<1>11. CASE UNCHANGED vars
  BY <1>0, <1>11 DEF vars, Receivers, Leaving
<1> QED
  BY <1>1, <1>2, <1>3, <1>4, <1>5, <1>6, <1>7, <1>8, <1>9, <1>10, <1>11
  DEF Next, Serve, Malformed, Finished

\* The map keeps no entry for a topic that nobody listens to any more.
THEOREM MapIsTidy == Spec => []EmptyEntriesLeave
<1>1. QED
  BY InitOK, TypeStep, RegisteredStep, LeaveStep, PTL DEF Spec

=============================================================================
