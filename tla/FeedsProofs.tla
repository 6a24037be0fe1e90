----------------------------- MODULE FeedsProofs -----------------------------
(***************************************************************************)
(* What is proved of the parts that feed clients: the search index, the    *)
(* emotes cached in the users and the numbers counted of them follow the   *)
(* documents (SearchIndex), and a client follows what its connection was   *)
(* told (EventConnection), for any number of handlers, deliveries,         *)
(* changes, users and objects.                                             *)
(***************************************************************************)
EXTENDS MCFeeds, Sequences, FiniteSetTheorems, TLAPS

-----------------------------------------------------------------------------
(* Types. *)

Job ==
    [at : {"idle"}]
    \cup [at : {"load"}, m : Message]
    \cup [at : {"upsert", "mark"}, m : Message, stamp : Nat, touched : BOOLEAN]
    \cup [at : {"loadset"}, m : Message, stamp : Nat, cached : BOOLEAN]
    \cup [at : {"upsert", "mark"}, m : Message, stamp : Nat, cached : BOOLEAN, sees : BOOLEAN]

DocTypes ==
    /\ stamp \in [Doc -> Nat] /\ index \in [Doc -> Nat]
    /\ alive \subseteq Doc /\ marked \subseteq Doc
    /\ lost \subseteq Doc /\ overlapped \subseteq Doc
    /\ holds \in BOOLEAN /\ touched \in BOOLEAN /\ cached \in BOOLEAN
    /\ watching \in BOOLEAN /\ torn \in BOOLEAN /\ uncounted \in BOOLEAN
    /\ counted \in Int

QueueTypes ==
    /\ queue \subseteq [m : Message, count : 0..MaxDeliver]
    /\ taken \subseteq Message

\* A job is about a document, and what it has read is of that kind.
TaskTypes ==
    /\ task \in [Handler -> Job]
    /\ \A h \in Handler :
           /\ task[h].at = "loadset" => DocOf(h) = "user"
           /\ task[h].at \in {"upsert", "mark"} /\ DocOf(h) = "user" =>
                  task[h] \in [at : {"upsert", "mark"}, m : Message, stamp : Nat,
                               cached : BOOLEAN, sees : BOOLEAN]
           /\ task[h].at \in {"upsert", "mark"} /\ DocOf(h) = "set" =>
                  task[h] \in [at : {"upsert", "mark"}, m : Message, stamp : Nat,
                               touched : BOOLEAN]

Types == DocTypes /\ QueueTypes /\ TaskTypes

\* Records of a change are messages, and not yet delivered.
LEMMA SentTypes ==
    ASSUME DocTypes, stamp' \in [Doc -> Nat], NEW docs \in SUBSET Doc,
           NEW op \in {"change", "delete"}
    PROVE  Sent(docs, op) \subseteq [m : Message, count : 0..MaxDeliver]
<1>1. 0 \in 0..MaxDeliver
  BY ConstAssumption
<1>2. \A d \in docs : [doc |-> d, n |-> stamp'[d], op |-> op] \in Message
  BY DEF Message
<1>3. QED
  BY <1>1, <1>2 DEF Sent

\* The types hold at the start.
LEMMA TypesInit == Init => Types
<1> SUFFICES ASSUME Init PROVE Types
  OBVIOUS
<1>1. Idle \in Job /\ Idle.at = "idle"
  BY DEF Idle, Job
<1>2. TaskTypes
  BY <1>1 DEF Init, TaskTypes
<1>3. DocTypes
  <2>1. stamp \in [Doc -> Nat] /\ index \in [Doc -> Nat]
    BY DEF Init
  <2>2. counted \in Int
    BY DEF Init
  <2>3. QED
    BY <2>1, <2>2 DEF Init, DocTypes
<1>4. QueueTypes
  BY DEF Init, QueueTypes
<1>5. QED
  BY <1>2, <1>3, <1>4 DEF Types

\* What a step may do to the handlers: one takes a message, ends, or goes on.
TaskCase ==
    \/ \E h \in Handler : \E q \in queue : Take(h, q)
    \/ \E h \in Handler : task' = [task EXCEPT ![h] = Idle]
    \/ \E h \in Handler : Load(h)
    \/ \E h \in Handler : LoadSet(h)
    \/ \E h \in Handler : Upsert(h)
    \/ task' = task

\* Every step is one of these cases.
LEMMA TaskCases == [Next]_vars => TaskCase
<1> SUFFICES ASSUME [Next]_vars PROVE TaskCase
  OBVIOUS
<1>1. CASE StreamStops \/ UNCHANGED vars
  BY <1>1 DEF StreamStops, vars, TaskCase
<1>2. ASSUME NEW d \in Doc, Delete(d) PROVE TaskCase
  BY <1>2 DEF Delete, TaskCase
<1>3. ASSUME NEW d \in Doc, NEW emotes \in BOOLEAN, Change(d, emotes) PROVE TaskCase
  BY <1>3 DEF Change, TaskCase
<1>4. ASSUME NEW m \in taken, AckWaitEnds(m) PROVE TaskCase
  BY <1>4 DEF AckWaitEnds, TaskCase
<1>5. ASSUME NEW h \in Handler, NEW q \in queue, Take(h, q) PROVE TaskCase
  BY <1>5 DEF TaskCase
<1>6. ASSUME NEW h \in Handler, Load(h) \/ LoadSet(h) \/ Upsert(h) PROVE TaskCase
  BY <1>6 DEF TaskCase
<1>7. ASSUME NEW h \in Handler,
             Fails(h) \/ HandleDelete(h) \/ NotFound(h) \/ AlreadyIndexed(h) \/ MarkUser(h)
      PROVE  TaskCase
  <2>1. task' = [task EXCEPT ![h] = Idle]
    BY <1>7 DEF Fails, HandleDelete, NotFound, AlreadyIndexed, MarkUser, Ack, Nak
  <2>2. QED
    BY <2>1 DEF TaskCase
<1>8. ASSUME NEW h \in Handler, NEW ok \in SUBSET {"set", "users"}, MarkSet(h, ok)
      PROVE  TaskCase
  <2>1. task' = [task EXCEPT ![h] = Idle]
    BY <1>8 DEF MarkSet
  <2>2. QED
    BY <2>1 DEF TaskCase
<1>9. QED
  BY <1>1, <1>2, <1>3, <1>4, <1>5, <1>6, <1>7, <1>8 DEF Next

\* The types are kept by every step.
LEMMA TypesStep == Types /\ [Next]_vars => Types'
<1> SUFFICES ASSUME Types, [Next]_vars PROVE Types'
  OBVIOUS
<1> USE DEF Types
<1>0. Idle \in Job /\ Idle.at = "idle"
  BY DEF Idle, Job
<1>1. DocTypes'
  <2> USE DEF DocTypes, Doc, database, delivery, history, Ack, Nak
  <2>1. ASSUME NEW d \in Doc, NEW emotes \in BOOLEAN, Change(d, emotes) PROVE DocTypes'
    <3>1. stamp' \in [Doc -> Nat]
      BY <2>1 DEF Change, Bump
    <3>2. holds' \in BOOLEAN /\ touched' \in BOOLEAN
      <4>1. CASE d = "set" /\ emotes
        BY <2>1, <4>1 DEF Change
      <4>2. CASE ~(d = "set" /\ emotes)
        BY <2>1, <4>2 DEF Change
      <4>3. QED
        BY <4>1, <4>2
    <3>3. QED
      BY <2>1, <3>1, <3>2 DEF Change, Bump, Publish, Unseen
  <2>2. ASSUME NEW d \in Doc, Delete(d) PROVE DocTypes'
    BY <2>2 DEF Delete, Bump, Publish, Unseen
  <2>3. ASSUME NEW h \in Handler, NEW q \in queue, Take(h, q) PROVE DocTypes'
    <3>1. q.m.doc \in Doc
      BY DEF QueueTypes, Message
    <3>2. QED
      BY <2>3, <3>1 DEF Take
  <2>4. ASSUME NEW h \in Handler, Fails(h) PROVE DocTypes'
    <3>1. DocOf(h) \in Doc
      BY <2>4, <1>0 DEF TaskTypes, Job, Message, DocOf, Fails
    <3>2. lost' \subseteq Doc
      BY <2>4, <3>1 DEF Fails, GivenUp
    <3>3. uncounted' \in BOOLEAN
      BY <2>4 DEF Fails
    <3>4. QED
      BY <2>4, <3>2, <3>3 DEF Fails
  <2>5. ASSUME NEW h \in Handler, HandleDelete(h) PROVE DocTypes'
    BY <2>5 DEF HandleDelete
  <2>6. ASSUME NEW h \in Handler, NotFound(h) \/ AlreadyIndexed(h) \/ Load(h) PROVE DocTypes'
    BY <2>6 DEF NotFound, AlreadyIndexed, Load
  <2>7. ASSUME NEW h \in Handler, LoadSet(h) PROVE DocTypes'
    BY <2>7 DEF LoadSet
  <2>8. ASSUME NEW h \in Handler, Upsert(h) PROVE DocTypes'
    <3>1. task[h].stamp \in Nat
      BY <2>8, <1>0 DEF Upsert, TaskTypes, Job, DocOf, Message
    <3>2. QED
      BY <2>8, <3>1 DEF Upsert
  <2>9. ASSUME NEW h \in Handler, MarkUser(h) PROVE DocTypes'
    <3>1. task[h].sees \in BOOLEAN
      BY <2>9 DEF MarkUser, TaskTypes
    <3>2. QED
      BY <2>9, <3>1 DEF MarkUser
  <2>10. ASSUME NEW h \in Handler, NEW ok \in SUBSET {"set", "users"}, MarkSet(h, ok)
         PROVE  DocTypes'
    <3>1. task[h].touched \in BOOLEAN
      BY <2>10 DEF MarkSet, TaskTypes
    <3>2. stamp' \in [Doc -> Nat]
      <4> DEFINE whom == IF "users" \in ok /\ task[h].touched THEN alive \cap {"user"} ELSE {}
      <4>1. Cardinality(whom) \in Nat
        <5>1. IsFiniteSet({"user"}) /\ whom \subseteq {"user"}
          BY FS_Singleton
        <5>2. QED
          BY <5>1, FS_Subset, FS_CardinalityType
      <4>2. stamp' = [stamp EXCEPT !["user"] = @ + Cardinality(whom)]
        BY <2>10 DEF MarkSet
      <4> HIDE DEF whom
      <4>3. QED
        BY <4>1, <4>2
    <3>3. marked' \subseteq Doc /\ lost' \subseteq Doc
      BY <2>10 DEF MarkSet, Unseen, GivenUp, DocOf
    <3>4. touched' \in BOOLEAN /\ torn' \in BOOLEAN
      BY <2>10, <3>1 DEF MarkSet
    <3>5. QED
      BY <2>10, <3>2, <3>3, <3>4 DEF MarkSet
  <2>11. CASE StreamStops
    BY <2>11 DEF StreamStops
  <2>12. ASSUME NEW m \in taken, AckWaitEnds(m) PROVE DocTypes'
    BY <2>12 DEF AckWaitEnds
  <2>13. CASE UNCHANGED vars
    BY <2>13 DEF vars
  <2>14. QED
    BY <2>1, <2>2, <2>3, <2>4, <2>5, <2>6, <2>7, <2>8, <2>9, <2>10, <2>11, <2>12, <2>13
       DEF Next
<1>2. QueueTypes'
  <2> USE DEF QueueTypes, database, delivery, history
  <2>1. ASSUME NEW d \in Doc, NEW emotes \in BOOLEAN, Change(d, emotes) PROVE QueueTypes'
    BY <2>1, <1>1, SentTypes DEF Change, Publish, DocTypes
  <2>2. ASSUME NEW d \in Doc, Delete(d) PROVE QueueTypes'
    BY <2>2, <1>1, SentTypes DEF Delete, Publish, DocTypes
  <2>3. ASSUME NEW h \in Handler, NEW q \in queue, Take(h, q) PROVE QueueTypes'
    <3>1. q.m \in Message /\ q.count + 1 \in 0..MaxDeliver
      BY <2>3, ConstAssumption DEF Take
    <3>2. QED
      BY <2>3, <3>1 DEF Take
  <2>4. ASSUME NEW h \in Handler, NEW ok \in SUBSET {"set", "users"}, MarkSet(h, ok)
        PROVE  QueueTypes'
    <3>1. Sent(IF "users" \in ok /\ task[h].touched THEN alive \cap {"user"} ELSE {}, "change")
              \subseteq [m : Message, count : 0..MaxDeliver]
      BY <1>1, SentTypes DEF DocTypes
    <3>2. QED
      BY <2>4, <3>1 DEF MarkSet
  <2>5. ASSUME NEW h \in Handler,
               Fails(h) \/ HandleDelete(h) \/ NotFound(h) \/ AlreadyIndexed(h) \/ MarkUser(h)
        PROVE  QueueTypes'
    BY <2>5 DEF Fails, HandleDelete, NotFound, AlreadyIndexed, MarkUser, Ack, Nak
  <2>6. ASSUME NEW h \in Handler, Load(h) \/ LoadSet(h) \/ Upsert(h) PROVE QueueTypes'
    BY <2>6 DEF Load, LoadSet, Upsert
  <2>7. ASSUME NEW m \in taken, AckWaitEnds(m) PROVE QueueTypes'
    BY <2>7 DEF AckWaitEnds
  <2>8. CASE StreamStops \/ UNCHANGED vars
    BY <2>8 DEF StreamStops, vars
  <2>9. QED
    BY <2>1, <2>2, <2>3, <2>4, <2>5, <2>6, <2>7, <2>8 DEF Next
<1>3. TaskTypes'
  <2> USE <1>0 DEF TaskTypes, DocTypes, QueueTypes, database, delivery, history, DocOf
  <2>1. ASSUME NEW h \in Handler, NEW q \in queue, Take(h, q) PROVE TaskTypes'
    <3>1. [at |-> "load", m |-> q.m] \in Job /\ [at |-> "load", m |-> q.m].at = "load"
      BY DEF Job
    <3>2. QED
      BY <2>1, <3>1 DEF Take
  <2>2. ASSUME NEW h \in Handler, task' = [task EXCEPT ![h] = Idle] PROVE TaskTypes'
    BY <2>2
  <2>3. ASSUME NEW h \in Handler, Load(h) PROVE TaskTypes'
    <3>1. task[h].m \in Message /\ task[h].m.doc \in Doc
      BY <2>3 DEF Load, Job, Message
    <3>2. CASE task[h].m.doc = "set"
      <4> DEFINE new == [at |-> "upsert", m |-> task[h].m, stamp |-> stamp["set"],
                         touched |-> touched]
      <4>1. new \in [at : {"upsert", "mark"}, m : Message, stamp : Nat, touched : BOOLEAN]
        BY <3>1 DEF Doc
      <4>2. new \in Job /\ new.at = "upsert" /\ new.m = task[h].m
        BY <4>1 DEF Job
      <4>3. task' = [task EXCEPT ![h] = new]
        BY <2>3, <3>2 DEF Load
      <4> HIDE DEF new
      <4>4. QED
        BY <4>1, <4>2, <4>3, <3>2
    <3>3. CASE task[h].m.doc # "set"
      <4> DEFINE new == [at |-> "loadset", m |-> task[h].m, stamp |-> stamp["user"],
                         cached |-> cached]
      <4>1. new \in Job /\ new.at = "loadset" /\ new.m = task[h].m
        BY <3>1 DEF Doc, Job
      <4>2. task[h].m.doc = "user"
        BY <3>1, <3>3 DEF Doc
      <4>3. task' = [task EXCEPT ![h] = new]
        BY <2>3, <3>3 DEF Load
      <4> HIDE DEF new
      <4>4. QED
        BY <4>1, <4>2, <4>3
    <3>4. QED
      BY <3>2, <3>3
  <2>4. ASSUME NEW h \in Handler, LoadSet(h) PROVE TaskTypes'
    <3> DEFINE sees == "set" \in alive /\ holds
               new == [at |-> "upsert", m |-> task[h].m, stamp |-> task[h].stamp,
                       cached |-> task[h].cached, sees |-> sees]
    <3>1. task[h] \in [at : {"loadset"}, m : Message, stamp : Nat, cached : BOOLEAN]
      BY <2>4 DEF LoadSet, Job
    <3>2. sees \in BOOLEAN
      OBVIOUS
    <3>3. task' = [task EXCEPT ![h] = new]
      BY <2>4 DEF LoadSet
    <3> HIDE DEF sees
    <3>4. new \in [at : {"upsert", "mark"}, m : Message, stamp : Nat, cached : BOOLEAN,
                   sees : BOOLEAN]
      BY <3>1, <3>2
    <3>5. new \in Job /\ new.at = "upsert" /\ new.m = task[h].m
      BY <3>4 DEF Job
    <3>6. task[h].m.doc = "user"
      BY <2>4 DEF LoadSet
    <3> HIDE DEF new
    <3>7. QED
      BY <3>3, <3>4, <3>5, <3>6
  <2>5. ASSUME NEW h \in Handler, Upsert(h) PROVE TaskTypes'
    <3>1. /\ task[h].m.doc \in Doc
          /\ task[h].at = "upsert"
          /\ task' = [task EXCEPT ![h] = [task[h] EXCEPT !.at = "mark"]]
      BY <2>5 DEF Upsert, Job, Message
    <3>2. CASE task[h].m.doc = "set"
      BY <3>1, <3>2 DEF Job
    <3>3. CASE task[h].m.doc = "user"
      BY <3>1, <3>3 DEF Job
    <3>4. QED
      BY <3>1, <3>2, <3>3 DEF Doc
  <2>6. CASE task' = task
    BY <2>6
  <2>7. QED
    BY <2>1, <2>2, <2>3, <2>4, <2>5, <2>6, TaskCases DEF TaskCase
<1>4. QED
  BY <1>1, <1>2, <1>3

\* Every variable keeps its type.
THEOREM TypeCorrect == Spec => []TypeOK
<1>1. Types => TypeOK
  BY DEF Types, DocTypes, QueueTypes, TaskTypes, TypeOK, Job
<1>2. QED
  BY <1>1, TypesInit, TypesStep, PTL DEF Spec

\* A handler is idle exactly when it says so, and what it has read is typed.
LEMMA TaskFacts ==
    ASSUME Types, NEW h \in Handler
    PROVE  /\ task[h] = Idle <=> task[h].at = "idle"
           /\ task[h].at \in {"idle", "load", "loadset", "upsert", "mark"}
           /\ task[h].at # "idle" => task[h].m \in Message /\ DocOf(h) \in Doc
           /\ task[h].at \in {"loadset", "upsert", "mark"} => task[h].stamp \in Nat
BY DEF Types, TaskTypes, Job, Idle, Message, DocOf

-----------------------------------------------------------------------------
(* Order. *)

\* No message is ahead of its document, a deletion is only told of documents that are
\* gone, and a handler works on a state between its message and the document.
StampInv ==
    /\ \A q \in queue :
           q.m.n <= stamp[q.m.doc] /\ (q.m.op = "delete" => q.m.doc \notin alive)
    /\ \A h \in Handler :
           /\ task[h].at # "idle" =>
                  /\ task[h].m.n <= stamp[DocOf(h)]
                  /\ task[h].m.op = "delete" => DocOf(h) \notin alive
           /\ task[h].at \in {"loadset", "upsert", "mark"} =>
                  /\ task[h].m.op = "change"
                  /\ task[h].m.n <= task[h].stamp
                  /\ task[h].stamp <= stamp[DocOf(h)]

\* At the start no handler is busy and the queue is empty.
LEMMA StampInit == Init => StampInv
<1>1. Idle.at = "idle"
  BY DEF Idle
<1>2. QED
  BY <1>1 DEF Init, StampInv

\* The user is told of a set whose emotes had changed, and only then becomes newer.
Told(h, ok) == IF "users" \in ok /\ task[h].touched THEN alive \cap {"user"} ELSE {}

\* What the bulk write does to the documents and the queue.
LEMMA MarkSetFacts ==
    ASSUME Types, NEW h \in Handler, NEW ok \in SUBSET {"set", "users"}, MarkSet(h, ok)
    PROVE  /\ DocOf(h) = "set" /\ task[h].at = "mark"
           /\ Told(h, ok) \in {{}, {"user"}} /\ Told(h, ok) \subseteq alive
           /\ stamp' = IF Told(h, ok) = {} THEN stamp
                       ELSE [stamp EXCEPT !["user"] = stamp["user"] + 1]
           /\ task' = [task EXCEPT ![h] = Idle]
           /\ UNCHANGED <<alive, holds, cached, counted, index, watching, overlapped, uncounted>>
<1>1. Told(h, ok) \in {{}, {"user"}} /\ Told(h, ok) \subseteq alive
  BY DEF Told
<1>2. Cardinality({}) = 0 /\ Cardinality({"user"}) = 1
  BY FS_EmptySet, FS_Singleton
<1>3. stamp' = [stamp EXCEPT !["user"] = stamp["user"] + Cardinality(Told(h, ok))]
  BY DEF MarkSet, Told
<1>4. stamp \in [Doc -> Nat] /\ "user" \in Doc
  BY DEF Types, DocTypes, Doc
<1>5. CASE Told(h, ok) = {}
  BY <1>1, <1>2, <1>3, <1>4, <1>5 DEF MarkSet
<1>6. CASE Told(h, ok) = {"user"}
  BY <1>1, <1>2, <1>3, <1>4, <1>6 DEF MarkSet
<1>7. QED
  BY <1>1, <1>5, <1>6

\* Stamps grow, the deleted stay deleted, and the new messages are as new as theirs.
Grown ==
    /\ alive' \subseteq alive
    /\ \A d \in Doc : stamp[d] <= stamp'[d]
    /\ \A q \in queue' : \/ \E p \in queue : q.m = p.m
                         \/ /\ q.m.doc \in Doc /\ q.m.n = stamp'[q.m.doc]
                            /\ q.m.op = "delete" => q.m.doc \notin alive'

\* Nothing becomes older, and what is published is of the present state.
LEMMA Grows == Types /\ [Next]_vars => Grown
<1> SUFFICES ASSUME Types, [Next]_vars PROVE Grown
  OBVIOUS
<1> USE DEF Types, DocTypes, Grown, database, delivery, history, Ack, Nak
<1>1. ASSUME NEW d \in Doc, NEW emotes \in BOOLEAN, Change(d, emotes) PROVE Grown
  BY <1>1 DEF Change, Bump, Publish, Sent
<1>2. ASSUME NEW d \in Doc, Delete(d) PROVE Grown
  BY <1>2 DEF Delete, Bump, Publish, Sent
<1>3. ASSUME NEW h \in Handler, NEW q \in queue, Take(h, q) PROVE Grown
  BY <1>3 DEF Take
<1>4. ASSUME NEW h \in Handler, NEW ok \in SUBSET {"set", "users"}, MarkSet(h, ok) PROVE Grown
  <2>1. \A q \in Sent(Told(h, ok), "change") :
            q.m.doc \in Doc /\ q.m.n = stamp'[q.m.doc] /\ q.m.op # "delete"
    BY <1>4, MarkSetFacts DEF Sent
  <2>2. queue' \subseteq queue \cup Sent(Told(h, ok), "change")
    BY <1>4 DEF MarkSet, Told
  <2>3. QED
    BY <1>4, <2>1, <2>2, MarkSetFacts
<1>5. ASSUME NEW h \in Handler,
             Fails(h) \/ HandleDelete(h) \/ NotFound(h) \/ AlreadyIndexed(h) \/ MarkUser(h)
      PROVE  Grown
  BY <1>5 DEF Fails, HandleDelete, NotFound, AlreadyIndexed, MarkUser
<1>6. ASSUME NEW h \in Handler, Load(h) \/ LoadSet(h) \/ Upsert(h) PROVE Grown
  BY <1>6 DEF Load, LoadSet, Upsert
<1>7. ASSUME NEW m \in taken, AckWaitEnds(m) PROVE Grown
  BY <1>7 DEF AckWaitEnds
<1>8. CASE StreamStops \/ UNCHANGED vars
  BY <1>8 DEF StreamStops, vars
<1>9. QED
  BY <1>1, <1>2, <1>3, <1>4, <1>5, <1>6, <1>7, <1>8 DEF Next

\* How the task of a handler changes: it takes a message, ends, loads, or goes on.
Moves(h) ==
    \/ task'[h] = task[h]
    \/ task'[h].at = "idle"
    \/ /\ task[h].at = "idle" /\ task'[h].at = "load"
       /\ \E q \in queue : task'[h].m = q.m
    \/ /\ task[h].at = "load" /\ task'[h].at \in {"loadset", "upsert"}
       /\ task'[h].m = task[h].m /\ task[h].m.op = "change"
       /\ task'[h].stamp = stamp[DocOf(h)] /\ DocOf(h) \in alive \ marked
       /\ task'[h].at = "upsert" => DocOf(h) = "set" /\ task'[h].touched = touched
       /\ task'[h].at = "loadset" => DocOf(h) = "user" /\ task'[h].cached = cached
    \/ /\ task[h].at = "loadset" /\ task'[h].at = "upsert" /\ LoadSet(h)
       /\ task'[h].m = task[h].m /\ task'[h].stamp = task[h].stamp
       /\ task'[h].cached = task[h].cached /\ DocOf(h) = "user"
       /\ task'[h].sees = ("set" \in alive /\ holds)
    \/ /\ task[h].at = "upsert" /\ task'[h].at = "mark"
       /\ task'[h].m = task[h].m /\ task'[h].stamp = task[h].stamp
       /\ DocOf(h) = "set" => task'[h].touched = task[h].touched
       /\ DocOf(h) = "user" =>
              task'[h].cached = task[h].cached /\ task'[h].sees = task[h].sees
       /\ index' = [index EXCEPT ![DocOf(h)] = task[h].stamp]

\* Every handler moves in one of these ways.
LEMMA TasksMove == Types /\ [Next]_vars => \A h \in Handler : Moves(h)
<1> SUFFICES ASSUME Types, [Next]_vars PROVE \A h \in Handler : Moves(h)
  OBVIOUS
<1> USE DEF Moves
<1>1. Idle.at = "idle" /\ task \in [Handler -> Job]
  BY DEF Idle, Types, TaskTypes
<1>2. ASSUME NEW h \in Handler, NEW q \in queue, Take(h, q) PROVE \A g \in Handler : Moves(g)
  BY <1>1, <1>2 DEF Take
<1>3. ASSUME NEW h \in Handler, task' = [task EXCEPT ![h] = Idle]
      PROVE  \A g \in Handler : Moves(g)
  BY <1>1, <1>3
<1>4. ASSUME NEW h \in Handler, Load(h) PROVE \A g \in Handler : Moves(g)
  <2>1. DocOf(h) \in {"set", "user"}
    BY <1>4, TaskFacts DEF Load, Doc
  <2>2. CASE DocOf(h) = "set"
    BY <1>1, <1>4, <2>2 DEF Load
  <2>3. CASE DocOf(h) = "user"
    BY <1>1, <1>4, <2>3 DEF Load
  <2>4. QED
    BY <2>1, <2>2, <2>3
<1>5. ASSUME NEW h \in Handler, LoadSet(h) PROVE \A g \in Handler : Moves(g)
  <2> DEFINE new == [at |-> "upsert", m |-> task[h].m, stamp |-> task[h].stamp,
                     cached |-> task[h].cached, sees |-> "set" \in alive /\ holds]
  <2>1. task' = [task EXCEPT ![h] = new] /\ task[h].at = "loadset"
    BY <1>5 DEF LoadSet
  <2>2. DocOf(h) = "user"
    BY <2>1 DEF Types, TaskTypes
  <2>3. /\ new.at = "upsert" /\ new.m = task[h].m /\ new.stamp = task[h].stamp
        /\ new.cached = task[h].cached /\ new.sees = ("set" \in alive /\ holds)
    OBVIOUS
  <2> HIDE DEF new
  <2>4. QED
    BY <1>1, <1>5, <2>1, <2>2, <2>3
<1>6. ASSUME NEW h \in Handler, Upsert(h) PROVE \A g \in Handler : Moves(g)
  <2>1. task'[h] = [task[h] EXCEPT !.at = "mark"] /\ \A g \in Handler \ {h} : task'[g] = task[g]
    BY <1>1, <1>6 DEF Upsert
  <2>2. task[h].at = "upsert" /\ DocOf(h) \in {"set", "user"}
    BY <1>6, TaskFacts DEF Upsert, Doc
  <2>3. CASE DocOf(h) = "set"
    <3>1. task[h] \in [at : {"upsert", "mark"}, m : Message, stamp : Nat, touched : BOOLEAN]
      BY <2>2, <2>3 DEF Types, TaskTypes
    <3>2. /\ task'[h].at = "mark" /\ task'[h].m = task[h].m /\ task'[h].stamp = task[h].stamp
          /\ task'[h].touched = task[h].touched
      BY <2>1, <3>1
    <3>3. QED
      BY <1>6, <2>1, <2>2, <2>3, <3>2 DEF Upsert
  <2>4. CASE DocOf(h) = "user"
    <3>1. task[h] \in [at : {"upsert", "mark"}, m : Message, stamp : Nat, cached : BOOLEAN,
                       sees : BOOLEAN]
      BY <2>2, <2>4 DEF Types, TaskTypes
    <3>2. /\ task'[h].at = "mark" /\ task'[h].m = task[h].m /\ task'[h].stamp = task[h].stamp
          /\ task'[h].cached = task[h].cached /\ task'[h].sees = task[h].sees
      BY <2>1, <3>1
    <3>3. QED
      BY <1>6, <2>1, <2>2, <2>4, <3>2 DEF Upsert
  <2>5. QED
    BY <2>2, <2>3, <2>4
<1>7. CASE task' = task
  BY <1>7
<1>8. QED
  BY <1>2, <1>3, <1>4, <1>5, <1>6, <1>7, TaskCases DEF TaskCase

\* Publishing and taking messages keeps the order.
LEMMA StampStep == Types /\ StampInv /\ [Next]_vars => StampInv'
<1> SUFFICES ASSUME Types, StampInv, [Next]_vars PROVE StampInv'
  OBVIOUS
<1>1. Types' /\ Grown /\ \A h \in Handler : Moves(h)
  BY TypesStep, Grows, TasksMove
<1>2. \A m \in Message : m.doc \in Doc /\ m.n \in Nat
  BY DEF Message
<1>3. \A d \in Doc : stamp[d] \in Nat /\ stamp'[d] \in Nat
  BY <1>1 DEF Types, DocTypes
<1>4. \A q \in queue \cup queue' : q.m \in Message
  BY <1>1 DEF Types, QueueTypes
<1>5. ASSUME NEW q \in queue'
      PROVE  q.m.n <= stamp'[q.m.doc] /\ (q.m.op = "delete" => q.m.doc \notin alive')
  BY <1>1, <1>2, <1>3, <1>4 DEF Grown, StampInv
<1>6. ASSUME NEW h \in Handler
      PROVE  /\ task'[h].at # "idle" =>
                    /\ task'[h].m.n <= stamp'[task'[h].m.doc]
                    /\ task'[h].m.op = "delete" => task'[h].m.doc \notin alive'
             /\ task'[h].at \in {"loadset", "upsert", "mark"} =>
                    /\ task'[h].m.op = "change"
                    /\ task'[h].m.n <= task'[h].stamp
                    /\ task'[h].stamp <= stamp'[task'[h].m.doc]
  <2>1. /\ task[h].at # "idle" =>
               /\ task[h].m \in Message /\ task[h].m.doc \in Doc /\ task[h].m.n \in Nat
               /\ task[h].m.n <= stamp[task[h].m.doc]
               /\ task[h].m.op = "delete" => task[h].m.doc \notin alive
        /\ task[h].at \in {"loadset", "upsert", "mark"} =>
               /\ task[h].m.op = "change" /\ task[h].stamp \in Nat
               /\ task[h].m.n <= task[h].stamp
               /\ task[h].stamp <= stamp[task[h].m.doc]
    BY <1>2, TaskFacts DEF StampInv, DocOf
  <2>2. alive' \subseteq alive /\ \A d \in Doc : stamp[d] <= stamp'[d]
    BY <1>1 DEF Grown
  <2>3. CASE task'[h] = task[h]
    BY <1>3, <2>1, <2>2, <2>3
  <2>4. CASE task'[h].at = "idle"
    BY <2>4
  <2>5. CASE task[h].at = "idle" /\ task'[h].at = "load"
    <3>1. PICK q \in queue : task'[h].m = q.m
      BY <1>1, <2>5 DEF Moves
    <3>2. q.m.doc \in Doc /\ q.m.n \in Nat /\ q.m.n <= stamp[q.m.doc]
          /\ (q.m.op = "delete" => q.m.doc \notin alive)
      BY <1>2, <1>4 DEF StampInv
    <3>3. QED
      BY <1>3, <2>2, <2>5, <3>1, <3>2
  <2>6. CASE task[h].at = "load" /\ task'[h].at \in {"loadset", "upsert"}
    <3>1. /\ task'[h].m = task[h].m /\ task[h].m.op = "change"
          /\ task'[h].stamp = stamp[task[h].m.doc]
      BY <1>1, <2>6 DEF Moves, DocOf
    <3>2. QED
      BY <1>3, <2>1, <2>2, <2>6, <3>1
  <2>7. CASE task[h].at \in {"loadset", "upsert"} /\ task'[h].at \in {"upsert", "mark"}
             /\ task'[h] # task[h]
    <3>1. task'[h].m = task[h].m /\ task'[h].stamp = task[h].stamp
      BY <1>1, <2>7 DEF Moves
    <3>2. QED
      BY <1>3, <2>1, <2>2, <2>7, <3>1
  <2>8. QED
    BY <1>1, <2>3, <2>4, <2>5, <2>6, <2>7 DEF Moves
<1>7. QED
  BY <1>5, <1>6 DEF StampInv, DocOf

-----------------------------------------------------------------------------
(* Messages that are still to be handled. *)

\* A message that a handler has, or that will be delivered again.
Held(q) ==
    \/ q.count < MaxDeliver
    \/ \E h \in Handler : task[h].at # "idle" /\ task[h].m = q.m

Latest(d, op) == [doc |-> d, n |-> stamp[d], op |-> op]

Waiting(d, op) == \E q \in queue : q.m = Latest(d, op) /\ Held(q)

\* A step does not handle the last message of a document.
Unhandled(d, op) ==
    IF op = "change" THEN d \in alive' \ marked'
    ELSE /\ d \notin alive
         /\ \A h \in Handler : DocOf(h) = d =>
                ~HandleDelete(h) /\ (NotFound(h) => task[h].m.op = "change")

\* The last message of a document waits until it is handled or given up.
LEMMA WaitingStays ==
    ASSUME Types, StampInv, [Next]_vars, NEW d \in Doc, NEW op \in {"change", "delete"},
           Waiting(d, op), Unhandled(d, op), stamp'[d] = stamp[d], d \notin lost'
    PROVE  Waiting(d, op)'
<1>0. PICK q \in queue : q.m = Latest(d, op) /\ Held(q)
  BY DEF Waiting
<1>1. /\ q.m.doc = d /\ q.m.n = stamp[d] /\ q.m.op = op
      /\ q.m = Latest(d, op)'
      /\ q.m \in Message /\ q.count \in 0..MaxDeliver /\ stamp[d] \in Nat
  BY <1>0 DEF Latest, Types, QueueTypes, DocTypes
<1>2. alive' \subseteq alive
  BY Grows DEF Grown
<1>3. \A h \in Handler : (task[h] = Idle <=> task[h].at = "idle") /\ Idle.at = "idle"
  BY TaskFacts DEF Idle
<1>4. SUFFICES \E p \in queue' : p.m = q.m /\ Held(p)'
  BY <1>1 DEF Waiting
<1>5. task \in [Handler -> Job]
  BY DEF Types, TaskTypes
<1>6. ASSUME NEW h \in Handler, q \in queue', task' = [task EXCEPT ![h] = Idle], task[h].m # q.m
      PROVE  \E p \in queue' : p.m = q.m /\ Held(p)'
  BY <1>0, <1>3, <1>5, <1>6 DEF Held
<1>7. ASSUME q \in queue', \A h \in Handler : task'[h] = task[h] \/ (task'[h].m = task[h].m
                                                    /\ task'[h].at # "idle")
      PROVE  \E p \in queue' : p.m = q.m /\ Held(p)'
  BY <1>0, <1>7 DEF Held
<1> USE DEF database, delivery, history
<1>8. ASSUME NEW e \in Doc, Delete(e) \/ \E emotes \in BOOLEAN : Change(e, emotes)
      PROVE  \E p \in queue' : p.m = q.m /\ Held(p)'
  BY <1>7, <1>8 DEF Delete, Change, Publish
<1>9. ASSUME NEW h \in Handler, NEW p \in queue, Take(h, p)
      PROVE  \E r \in queue' : r.m = q.m /\ Held(r)'
  <2>1. task'[h] = [at |-> "load", m |-> p.m] /\ \A g \in Handler \ {h} : task'[g] = task[g]
    BY <1>5, <1>9 DEF Take
  <2>2. CASE p = q
    <3>1. [m |-> q.m, count |-> q.count + 1] \in queue'
      BY <1>9, <2>2 DEF Take
    <3>2. QED
      BY <2>1, <2>2, <3>1 DEF Held
  <2>3. CASE p # q
    <3>1. q \in queue' /\ task[h].at = "idle"
      BY <1>3, <1>9, <2>3 DEF Take
    <3>2. QED
      BY <1>0, <2>1, <3>1 DEF Held
  <2>4. QED
    BY <2>2, <2>3
<1>10. ASSUME NEW h \in Handler, Fails(h)
       PROVE  \E p \in queue' : p.m = q.m /\ Held(p)'
  <2>1. CASE task[h].m # q.m
    BY <1>6, <1>10, <2>1 DEF Fails, Nak
  <2>2. CASE task[h].m = q.m
    <3>1. q.count # MaxDeliver
      BY <1>1, <1>10, <2>2 DEF Fails, GivenUp, DocOf
    <3>2. q.count < MaxDeliver /\ q \in queue'
      BY <1>1, <1>10, <3>1, ConstAssumption DEF Fails, Nak
    <3>3. QED
      BY <3>2 DEF Held
  <2>3. QED
    BY <2>1, <2>2
<1>11. ASSUME NEW h \in Handler, HandleDelete(h) \/ AlreadyIndexed(h)
       PROVE  \E p \in queue' : p.m = q.m /\ Held(p)'
  <2>1. task[h].at # "idle" /\ (task[h].m.op = "delete" => DocOf(h) \notin alive)
    BY <1>11 DEF HandleDelete, AlreadyIndexed, StampInv
  <2>2. task[h].m # q.m
    BY <1>1, <1>2, <1>11, <2>1 DEF HandleDelete, AlreadyIndexed, Unhandled, DocOf
  <2>3. q \in queue' /\ task' = [task EXCEPT ![h] = Idle]
    BY <1>11, <2>2 DEF HandleDelete, AlreadyIndexed, Ack
  <2>4. QED
    BY <1>6, <2>2, <2>3
<1>12. ASSUME NEW h \in Handler, NotFound(h)
       PROVE  \E p \in queue' : p.m = q.m /\ Held(p)'
  <2>1. task[h].at # "idle" /\ (task[h].m.op = "delete" => DocOf(h) \notin alive)
    BY <1>12 DEF NotFound, StampInv
  <2>2. task[h].m # q.m
    BY <1>1, <1>2, <1>12, <2>1 DEF NotFound, Unhandled, DocOf
  <2>3. QED
    BY <1>6, <1>12, <2>2 DEF NotFound, Nak
<1>13. ASSUME NEW h \in Handler, Load(h) \/ LoadSet(h) \/ Upsert(h)
       PROVE  \E p \in queue' : p.m = q.m /\ Held(p)'
  <2>1. q \in queue' /\ task[h].at \in {"load", "loadset", "upsert"}
    BY <1>13 DEF Load, LoadSet, Upsert
  <2>2. \A g \in Handler : task'[g] = task[g] \/ (task'[g].m = task[g].m /\ task'[g].at # "idle")
    <3>1. \A g \in Handler \ {h} : task'[g] = task[g]
      BY <1>5, <1>13 DEF Load, LoadSet, Upsert
    <3>2. CASE Load(h)
      BY <1>5, <3>1, <3>2 DEF Load
    <3>3. CASE LoadSet(h)
      BY <1>5, <3>1, <3>3 DEF LoadSet
    <3>4. CASE Upsert(h)
      <4>1. task'[h] = [task[h] EXCEPT !.at = "mark"] /\ task[h].at = "upsert"
        BY <1>5, <3>4 DEF Upsert
      <4>2. \/ task[h] \in [at : {"upsert", "mark"}, m : Message, stamp : Nat,
                             touched : BOOLEAN]
            \/ task[h] \in [at : {"upsert", "mark"}, m : Message, stamp : Nat,
                             cached : BOOLEAN, sees : BOOLEAN]
        BY <4>1 DEF Types, TaskTypes, Job
      <4>3. task'[h].at = "mark" /\ task'[h].m = task[h].m
        BY <4>1, <4>2
      <4>4. QED
        BY <3>1, <4>3
    <3>5. QED
      BY <1>13, <3>2, <3>3, <3>4
  <2>3. QED
    BY <1>7, <2>1, <2>2
<1>14. ASSUME NEW h \in Handler, MarkUser(h)
       PROVE  \E p \in queue' : p.m = q.m /\ Held(p)'
  <2>1. /\ task[h].m.op = "change" /\ task[h].m.n \in Nat /\ task[h].stamp \in Nat
        /\ task[h].m.n <= task[h].stamp /\ task[h].stamp <= stamp[DocOf(h)]
        /\ DocOf(h) = "user"
    BY <1>14, TaskFacts DEF MarkUser, StampInv, Message
  <2>2. task[h].m # q.m
    <3>1. CASE op = "delete" \/ d # "user"
      BY <1>1, <2>1, <3>1 DEF DocOf
    <3>2. CASE op = "change" /\ d = "user"
      <4>1. d \in alive /\ d \notin marked'
        BY <1>2, <3>2 DEF Unhandled
      <4>2. ~Unchanged(h)
        BY <1>14, <3>2, <4>1 DEF MarkUser
      <4>3. task[h].stamp # stamp[d]
        BY <2>1, <3>2, <4>1, <4>2 DEF Unchanged
      <4>4. QED
        BY <1>1, <2>1, <3>2, <4>3
    <3>3. QED
      BY <3>1, <3>2
  <2>3. q \in queue' /\ task' = [task EXCEPT ![h] = Idle]
    BY <1>14, <2>2 DEF MarkUser, Ack
  <2>4. QED
    BY <1>6, <2>2, <2>3
<1>15. ASSUME NEW h \in Handler, NEW ok \in SUBSET {"set", "users"}, MarkSet(h, ok)
       PROVE  \E p \in queue' : p.m = q.m /\ Held(p)'
  <2>1. /\ task[h].m.op = "change" /\ task[h].m.n \in Nat /\ task[h].stamp \in Nat
        /\ task[h].m.n <= task[h].stamp /\ task[h].stamp <= stamp[DocOf(h)]
        /\ DocOf(h) = "set" /\ task' = [task EXCEPT ![h] = Idle]
    BY <1>15, TaskFacts, MarkSetFacts DEF MarkSet, StampInv, Message
  <2>2. CASE task[h].m # q.m
    <3>1. q \in queue'
      BY <1>15, <2>2 DEF MarkSet
    <3>2. QED
      BY <1>6, <2>1, <2>2, <3>1
  <2>3. CASE task[h].m = q.m
    <3>1. d = "set" /\ op = "change"
      BY <1>1, <2>1, <2>3 DEF DocOf
    <3>2. d \in alive /\ d \notin marked' /\ stamp[d] <= task[h].stamp
      BY <1>1, <1>2, <2>1, <2>3, <3>1 DEF Unhandled
    <3>3. Unchanged(h)
      BY <1>1, <2>1, <3>1, <3>2 DEF Unchanged
    <3>4. "set" \notin ok
      BY <1>15, <3>1, <3>2, <3>3 DEF MarkSet
    <3>5. q \in queue' /\ (q.count = MaxDeliver => d \in lost')
      BY <1>15, <2>1, <2>3, <3>1, <3>4 DEF MarkSet, GivenUp
    <3>6. q.count < MaxDeliver
      BY <1>1, <3>5, ConstAssumption
    <3>7. QED
      BY <3>5, <3>6 DEF Held
  <2>4. QED
    BY <2>2, <2>3
<1>16. ASSUME NEW m \in taken, AckWaitEnds(m)
       PROVE  \E p \in queue' : p.m = q.m /\ Held(p)'
  BY <1>7, <1>16 DEF AckWaitEnds
<1>17. CASE StreamStops \/ UNCHANGED vars
  BY <1>7, <1>17 DEF StreamStops, vars
<1>18. QED
  BY <1>8, <1>9, <1>10, <1>11, <1>12, <1>13, <1>14, <1>15, <1>16, <1>17 DEF Next

\* A change that is published waits to be handled.
LEMMA SentWaits ==
    ASSUME Types, [Next]_vars, NEW d \in Doc, NEW op \in {"change", "delete"},
           NEW docs \in SUBSET Doc, d \in docs, watching,
           Sent(docs, op) \subseteq queue'
    PROVE  Waiting(d, op)'
<1> DEFINE q == [m |-> [doc |-> d, n |-> stamp'[d], op |-> op], count |-> 0]
<1>1. q \in queue'
  BY DEF Sent
<1>2. q.m = Latest(d, op)' /\ q.count < MaxDeliver
  BY ConstAssumption DEF Latest
<1> HIDE DEF q
<1>3. QED
  BY <1>1, <1>2 DEF Waiting, Held

\* What the histories record stays recorded.
LEMMA HistoryGrows ==
    [Next]_vars =>
        lost \subseteq lost' /\ overlapped \subseteq overlapped' /\ (uncounted => uncounted')
<1> DEFINE Goal ==
        lost \subseteq lost' /\ overlapped \subseteq overlapped' /\ (uncounted => uncounted')
<1> SUFFICES ASSUME [Next]_vars PROVE Goal
  OBVIOUS
<1>1. CASE UNCHANGED vars
  BY <1>1 DEF vars, history
<1>2. CASE StreamStops
  BY <1>2 DEF StreamStops, history
<1>3. ASSUME NEW d \in Doc, Delete(d) PROVE Goal
  BY <1>3 DEF Delete, Publish
<1>4. ASSUME NEW d \in Doc, NEW emotes \in BOOLEAN, Change(d, emotes) PROVE Goal
  BY <1>4 DEF Change, Publish
<1>5. ASSUME NEW m \in taken, AckWaitEnds(m) PROVE Goal
  BY <1>5 DEF AckWaitEnds, history
<1>6. ASSUME NEW h \in Handler, NEW q \in queue, Take(h, q) PROVE Goal
  BY <1>6 DEF Take
<1>7. ASSUME NEW h \in Handler, Fails(h) PROVE Goal
  BY <1>7 DEF Fails
<1>8. ASSUME NEW h \in Handler, HandleDelete(h) \/ NotFound(h) \/ AlreadyIndexed(h) PROVE Goal
  BY <1>8 DEF HandleDelete, NotFound, AlreadyIndexed, history
<1>9. ASSUME NEW h \in Handler, Load(h) \/ LoadSet(h) \/ Upsert(h) PROVE Goal
  BY <1>9 DEF Load, LoadSet, Upsert, history
<1>10. ASSUME NEW h \in Handler, MarkUser(h) PROVE Goal
  BY <1>10 DEF MarkUser
<1>11. ASSUME NEW h \in Handler, NEW ok \in SUBSET {"set", "users"}, MarkSet(h, ok) PROVE Goal
  BY <1>11 DEF MarkSet
<1> HIDE DEF Goal
<1>12. QED
  BY <1>1, <1>2, <1>3, <1>4, <1>5, <1>6, <1>7, <1>8, <1>9, <1>10, <1>11 DEF Next

\* A document becomes newer by a change or its deletion, which is sent if it is seen.
Renewed(d) ==
    /\ stamp'[d] = stamp[d] + 1
    /\ d \in alive /\ d \notin marked'
    /\ watching /\ d \in alive' => Waiting(d, "change")'
    /\ watching /\ d \notin alive' => Waiting(d, "delete")'
    /\ ~watching => d \in lost'

Same(d) == stamp'[d] = stamp[d] /\ (d \in marked => d \in marked') /\ (d \in alive <=> d \in alive')

\* A document stays as it was, or its change is published or recorded as lost.
LEMMA Renews ==
    Types /\ [Next]_vars =>
        /\ lost \subseteq lost' /\ overlapped \subseteq overlapped'
        /\ \A d \in Doc : Same(d) \/ Renewed(d)
<1> SUFFICES ASSUME Types, [Next]_vars
             PROVE  /\ lost \subseteq lost' /\ overlapped \subseteq overlapped'
                    /\ \A d \in Doc : Same(d) \/ Renewed(d)
  OBVIOUS
<1>0. stamp \in [Doc -> Nat] /\ alive \subseteq Doc
  BY DEF Types, DocTypes
<1> USE DEF database, delivery, history, Ack, Nak
<1>1. lost \subseteq lost'
  BY HistoryGrows
<1>2. overlapped \subseteq overlapped'
  BY HistoryGrows
<1>3. ASSUME NEW e \in Doc, NEW emotes \in BOOLEAN, Change(e, emotes), NEW d \in Doc
      PROVE  Same(d) \/ Renewed(d)
  <2>1. stamp' = [stamp EXCEPT ![e] = stamp[e] + 1] /\ marked' = marked \ {e} /\ alive' = alive
        /\ e \in alive
    BY <1>3 DEF Change, Bump
  <2>2. CASE d # e
    BY <1>0, <2>1, <2>2 DEF Same
  <2>3. CASE d = e
    <3>1. Sent({d}, "change") \subseteq queue' /\ lost' = lost \cup Unseen({d})
      BY <1>3, <2>3 DEF Change, Publish
    <3>2. watching => Waiting(d, "change")'
      BY <3>1, SentWaits
    <3>3. QED
      BY <1>0, <2>1, <2>3, <3>1, <3>2 DEF Renewed, Unseen
  <2>4. QED
    BY <2>2, <2>3
<1>4. ASSUME NEW e \in Doc, Delete(e), NEW d \in Doc
      PROVE  Same(d) \/ Renewed(d)
  <2>1. stamp' = [stamp EXCEPT ![e] = stamp[e] + 1] /\ marked' = marked \ {e}
        /\ alive' = alive \ {e} /\ e \in alive
    BY <1>4 DEF Delete, Bump
  <2>2. CASE d # e
    BY <1>0, <2>1, <2>2 DEF Same
  <2>3. CASE d = e
    <3>1. Sent({d}, "delete") \subseteq queue' /\ lost' = lost \cup Unseen({d})
      BY <1>4, <2>3 DEF Delete, Publish
    <3>2. watching => Waiting(d, "delete")'
      BY <3>1, SentWaits
    <3>3. QED
      BY <1>0, <2>1, <2>3, <3>1, <3>2 DEF Renewed, Unseen
  <2>4. QED
    BY <2>2, <2>3
<1>5. ASSUME NEW h \in Handler, NEW ok \in SUBSET {"set", "users"}, MarkSet(h, ok), NEW d \in Doc
      PROVE  Same(d) \/ Renewed(d)
  <2>1. /\ Told(h, ok) \in {{}, {"user"}} /\ Told(h, ok) \subseteq alive /\ alive' = alive
        /\ stamp' = IF Told(h, ok) = {} THEN stamp
                    ELSE [stamp EXCEPT !["user"] = stamp["user"] + 1]
    BY <1>5, MarkSetFacts
  <2>2. /\ \A e \in Doc : e \in marked /\ e \notin Told(h, ok) => e \in marked'
        /\ \A e \in Told(h, ok) : e \notin marked'
        /\ Sent(Told(h, ok), "change") \subseteq queue'
        /\ Unseen(Told(h, ok)) \subseteq lost'
    BY <1>5 DEF MarkSet, Told
  <2>3. CASE d \notin Told(h, ok)
    BY <1>0, <2>1, <2>2, <2>3 DEF Same
  <2>4. CASE d \in Told(h, ok)
    <3>1. watching => Waiting(d, "change")'
      BY <2>1, <2>2, <2>4, SentWaits
    <3>2. QED
      BY <1>0, <2>1, <2>2, <2>4, <3>1 DEF Renewed, Unseen
  <2>5. QED
    BY <2>3, <2>4
<1>6. ASSUME NEW h \in Handler, MarkUser(h), NEW d \in Doc PROVE Same(d)
  BY <1>6 DEF MarkUser, Same
<1>7. ASSUME UNCHANGED <<stamp, marked, alive>>, NEW d \in Doc PROVE Same(d)
  BY <1>7 DEF Same
<1>8. ASSUME NEW d \in Doc PROVE Same(d) \/ Renewed(d)
  BY <1>3, <1>4, <1>5, <1>6, <1>7
     DEF Next, vars, StreamStops, AckWaitEnds, Take, Fails, HandleDelete, NotFound, AlreadyIndexed,
         Load, LoadSet, Upsert
<1>9. QED
  BY <1>1, <1>2, <1>8

\* A living document that is not marked has a message that waits, unless one was lost.
PendingInv == \A d \in alive \ (marked \cup lost) : Waiting(d, "change")

\* At the start everything is marked.
LEMMA PendingInit == Init => PendingInv
BY DEF Init, PendingInv

\* A document that is not marked always has somebody who will come for it.
LEMMA PendingStep == Types /\ StampInv /\ PendingInv /\ [Next]_vars => PendingInv'
<1> SUFFICES ASSUME Types, StampInv, PendingInv, [Next]_vars,
                    NEW d \in Doc, d \in alive', d \notin marked', d \notin lost'
             PROVE  Waiting(d, "change")'
  BY TypesStep DEF PendingInv, Types, DocTypes
<1>1. d \notin lost /\ (Same(d) \/ Renewed(d))
  BY Renews
<1>2. CASE Same(d)
  BY <1>1, <1>2, WaitingStays DEF PendingInv, Unhandled, Same
<1>3. CASE Renewed(d)
  BY <1>3 DEF Renewed
<1>4. QED
  BY <1>1, <1>2, <1>3

-----------------------------------------------------------------------------
(* The index. *)

Busy(h, d) == task[h].at # "idle" /\ DocOf(h) = d
Reads(h, d) == task[h].at \in {"loadset", "upsert", "mark"} /\ DocOf(h) = d

\* A document that two handlers were never at has one at most.
AloneInv ==
    \A d \in Doc \ overlapped : \A g, h \in Handler : Busy(g, d) /\ Busy(h, d) => g = h

\* At the start no handler is busy.
LEMMA AloneInit == Init => AloneInv
<1>1. Idle.at = "idle"
  BY DEF Idle
<1>2. QED
  BY <1>1 DEF Init, AloneInv, Busy

\* Two handlers at one document are recorded when the second takes its message.
LEMMA AloneStep == Types /\ AloneInv /\ [Next]_vars => AloneInv'
<1> SUFFICES ASSUME Types, AloneInv, [Next]_vars,
                    NEW d \in Doc, d \notin overlapped', NEW g \in Handler, NEW h \in Handler,
                    Busy(g, d)', Busy(h, d)', g # h
             PROVE  FALSE
  BY DEF AloneInv
<1>1. d \notin overlapped /\ Moves(g) /\ Moves(h)
  BY Renews, TasksMove
<1>2. ~Busy(g, d) \/ ~Busy(h, d)
  BY <1>1 DEF AloneInv
<1>3. ASSUME NEW f \in Handler, ~Busy(f, d), Busy(f, d)'
      PROVE  \E q \in queue : Take(f, q) /\ q.m.doc = d
  <2>1. task[f].at = "idle" /\ task'[f].at # "idle"
    BY <1>3, TasksMove DEF Moves, Busy, DocOf
  <2>2. \E q \in queue : Take(f, q)
    <3>1. task \in [Handler -> Job] /\ Idle.at = "idle"
      BY DEF Types, TaskTypes, Idle
    <3>2. ASSUME NEW e \in Handler, NEW q \in queue, Take(e, q) PROVE e = f
      BY <2>1, <3>1, <3>2 DEF Take
    <3>3. ASSUME NEW e \in Handler PROVE ~(task' = [task EXCEPT ![e] = Idle])
      BY <2>1, <3>1, <3>3
    <3>4. ASSUME NEW e \in Handler, Load(e) PROVE FALSE
      BY <2>1, <3>1, <3>4 DEF Load
    <3>5. ASSUME NEW e \in Handler, LoadSet(e) PROVE FALSE
      BY <2>1, <3>1, <3>5 DEF LoadSet
    <3>6. ASSUME NEW e \in Handler, Upsert(e) PROVE FALSE
      BY <2>1, <3>1, <3>6 DEF Upsert
    <3>7. task' # task
      BY <2>1
    <3>8. QED
      BY <3>2, <3>3, <3>4, <3>5, <3>6, <3>7, TaskCases DEF TaskCase
  <2>3. PICK q \in queue : Take(f, q)
    BY <2>2
  <2>4. task'[f].m = q.m
    BY <2>3 DEF Take, Types, TaskTypes
  <2>5. QED
    BY <1>3, <2>3, <2>4 DEF Busy, DocOf
<1>4. ASSUME NEW e \in Handler, NEW f \in Handler, e # f, ~Busy(f, d), Busy(f, d)', Busy(e, d)'
      PROVE  FALSE
  <2>1. PICK q \in queue : Take(f, q) /\ q.m.doc = d
    BY <1>3, <1>4
  <2>2. task'[e] = task[e]
    BY <1>4, <2>1 DEF Take, Types, TaskTypes
  <2>3. Busy(e, d)
    BY <1>4, <2>2 DEF Busy, DocOf
  <2>4. Overlaps(q.m)
    BY <2>1, <2>3, TaskFacts DEF Overlaps, Busy
  <2>5. QED
    BY <2>1, <2>4 DEF Take
<1>5. QED
  BY <1>2, <1>4

\* Who writes the copy of a document in the index, and who marks it.
Writes(d) ==
    /\ \/ index'[d] = index[d]
       \/ \E h \in Handler :
              /\ DocOf(h) = d
              /\ (Upsert(h) /\ task[h].at = "upsert") \/ (HandleDelete(h) /\ index'[d] = 0)
    /\ d \in marked' =>
           \/ d \in marked
           \/ \E h \in Handler :
                  /\ DocOf(h) = d /\ task[h].at = "mark" /\ Unchanged(h)
                  /\ task'[h].at = "idle" /\ index' = index

\* The index changes by the writes of the handlers only.
\* Every step treats the copy and the mark of a document in one of these ways.
LEMMA WritesFacts == Types /\ [Next]_vars => \A d \in Doc : Writes(d)
<1> SUFFICES ASSUME Types, [Next]_vars, NEW d \in Doc PROVE Writes(d)
  OBVIOUS
<1> USE DEF Writes, database, delivery, history
<1>1. ASSUME NEW h \in Handler, MarkUser(h) PROVE Writes(d)
  <2>1. task'[h].at = "idle" /\ index' = index /\ task[h].at = "mark" /\ DocOf(h) = "user"
    BY <1>1 DEF MarkUser, Ack, Types, TaskTypes, Idle
  <2>2. CASE Unchanged(h)
    BY <1>1, <2>1, <2>2 DEF MarkUser
  <2>3. CASE ~Unchanged(h)
    BY <1>1, <2>1, <2>3 DEF MarkUser
  <2>4. QED
    BY <2>2, <2>3
<1>2. ASSUME NEW h \in Handler, NEW ok \in SUBSET {"set", "users"}, MarkSet(h, ok) PROVE Writes(d)
  <2>1. task'[h].at = "idle" /\ index' = index /\ task[h].at = "mark" /\ DocOf(h) = "set"
    BY <1>2, MarkSetFacts DEF Types, TaskTypes, Idle
  <2>2. marked' \subseteq marked \cup IF Unchanged(h) THEN {"set"} ELSE {}
    BY <1>2 DEF MarkSet
  <2>3. QED
    BY <2>1, <2>2
<1>3. ASSUME NEW h \in Handler, Upsert(h) PROVE Writes(d)
  <2>1. index' = [index EXCEPT ![DocOf(h)] = task[h].stamp] /\ marked' = marked
        /\ task[h].at = "upsert"
    BY <1>3 DEF Upsert
  <2>2. DocOf(h) # d => index'[d] = index[d]
    BY <2>1 DEF Types, DocTypes
  <2>3. QED
    BY <1>3, <2>1, <2>2
<1>4. ASSUME NEW h \in Handler, HandleDelete(h) PROVE Writes(d)
  BY <1>4 DEF HandleDelete, Types, DocTypes
<1>5. ASSUME index' = index, marked' \subseteq marked PROVE Writes(d)
  BY <1>5
<1>6. QED
  BY <1>1, <1>2, <1>3, <1>4, <1>5
     DEF Next, vars, StreamStops, Delete, Change, Bump, AckWaitEnds, Take, Fails, NotFound,
         AlreadyIndexed, Load, LoadSet

\* What a handler has indexed is in the index, a marked document is there as it is,
\* and of a deleted one nothing, unless its deletion waits to be handled.
IndexInv ==
    \A d \in Doc \ overlapped :
        /\ \A h \in Handler :
               /\ Reads(h, d) => d \notin marked
               /\ Reads(h, d) /\ task[h].at = "mark" => index[d] = task[h].stamp
        /\ d \in alive \cap marked => index[d] = stamp[d]
        /\ d \notin alive \cup lost =>
               \/ Waiting(d, "delete")
               \/ index[d] = 0 /\ \A h \in Handler : ~Reads(h, d)

\* At the start the index is up to date.
LEMMA IndexInit == Init => IndexInv
<1>1. Idle.at = "idle"
  BY DEF Idle
<1>2. QED
  BY <1>1 DEF Init, IndexInv, Reads

\* Every step keeps the index in line with those who are still to write it.
LEMMA IndexStep ==
    Types /\ StampInv /\ AloneInv /\ IndexInv /\ [Next]_vars => IndexInv'
<1> SUFFICES ASSUME Types, StampInv, AloneInv, IndexInv, [Next]_vars,
                    NEW d \in Doc, d \notin overlapped'
             PROVE  /\ \A h \in Handler :
                           /\ Reads(h, d)' => d \notin marked'
                           /\ Reads(h, d)' /\ task'[h].at = "mark" => index'[d] = task'[h].stamp
                    /\ d \in alive' \cap marked' => index'[d] = stamp'[d]
                    /\ d \notin alive' \cup lost' =>
                           \/ Waiting(d, "delete")'
                           \/ index'[d] = 0 /\ \A h \in Handler : ~Reads(h, d)'
  BY DEF IndexInv
<1>1. d \notin overlapped /\ Writes(d) /\ (Same(d) \/ Renewed(d)) /\ lost \subseteq lost'
  BY Renews, WritesFacts
<1>2. \A g, h \in Handler : Busy(g, d) /\ Busy(h, d) => g = h
  BY <1>1 DEF AloneInv
<1>3. /\ \A h \in Handler :
             /\ Reads(h, d) => d \notin marked
             /\ Reads(h, d) /\ task[h].at = "mark" => index[d] = task[h].stamp
      /\ d \in alive \cap marked => index[d] = stamp[d]
      /\ d \notin alive \cup lost =>
             \/ Waiting(d, "delete")
             \/ index[d] = 0 /\ \A h \in Handler : ~Reads(h, d)
  BY <1>1 DEF IndexInv
<1>4. ASSUME NEW h \in Handler, Reads(h, d)'
      PROVE  /\ Busy(h, d)
             /\ \/ task'[h] = task[h] /\ Reads(h, d)
                \/ task[h].at = "load" /\ d \in alive \ marked
                \/ task[h].at = "loadset" /\ task'[h].at = "upsert" /\ Reads(h, d)
                \/ /\ task[h].at = "upsert" /\ task'[h].at = "mark" /\ Reads(h, d)
                   /\ task'[h].stamp = task[h].stamp
                   /\ index' = [index EXCEPT ![d] = task[h].stamp]
  BY <1>4, TasksMove DEF Moves, Reads, Busy, DocOf
<1>5. ASSUME NEW h \in Handler, HandleDelete(h), DocOf(h) = d
      PROVE  task[h].at = "load" /\ task'[h].at = "idle" /\ d \notin alive
  BY <1>5 DEF HandleDelete, Ack, StampInv, Types, TaskTypes, Idle
<1>6. ASSUME NEW h \in Handler, Reads(h, d)'
      PROVE  /\ d \notin marked'
             /\ task'[h].at = "mark" => index'[d] = task'[h].stamp
  <2>1. d \notin marked
    BY <1>3, <1>4, <1>6
  <2>2. d \notin marked'
    BY <1>1, <1>2, <1>4, <1>6, <2>1 DEF Writes, Busy, Reads
  <2>3. CASE task'[h] = task[h] /\ task[h].at = "mark" /\ Reads(h, d)
    <3>1. index'[d] = index[d]
      BY <1>1, <1>2, <1>4, <1>5, <1>6, <2>3 DEF Writes, Busy
    <3>2. QED
      BY <1>3, <2>2, <2>3, <3>1
  <2>4. CASE task[h].at = "upsert" /\ task'[h].at = "mark"
    <3>1. index' = [index EXCEPT ![d] = task[h].stamp] /\ task'[h].stamp = task[h].stamp
      BY <1>4, <1>6, <2>4
    <3>2. index'[d] = task'[h].stamp
      BY <3>1 DEF Types, DocTypes
    <3>3. QED
      BY <2>2, <3>2
  <2>5. ASSUME task'[h].at = "mark"
        PROVE  \/ task'[h] = task[h] /\ task[h].at = "mark" /\ Reads(h, d)
               \/ task[h].at = "upsert" /\ task'[h].at = "mark"
    <3>1. CASE task[h].at = "load"
      BY <1>6, <2>5, <3>1, TasksMove DEF Moves
    <3>2. CASE task[h].at # "load"
      BY <1>4, <1>6, <2>5, <3>2
    <3>3. QED
      BY <3>1, <3>2
  <2>6. QED
    BY <2>2, <2>3, <2>4, <2>5
<1>7. ASSUME d \in alive', d \in marked' PROVE index'[d] = stamp'[d]
  <2>1. Same(d) /\ d \in alive
    BY <1>1, <1>7 DEF Same, Renewed
  <2>2. CASE d \in marked
    <3>1. \A h \in Handler : DocOf(h) = d => ~Upsert(h) /\ ~HandleDelete(h)
      BY <1>3, <1>5, <2>1, <2>2 DEF Reads, Upsert
    <3>2. QED
      BY <1>1, <1>3, <2>1, <2>2, <3>1 DEF Writes, Same
  <2>3. CASE d \notin marked
    <3>1. PICK h \in Handler : DocOf(h) = d /\ task[h].at = "mark" /\ Unchanged(h) /\ index' = index
      BY <1>1, <1>7, <2>3 DEF Writes
    <3>2. QED
      BY <1>3, <2>1, <3>1 DEF Reads, Unchanged, Same
  <2>4. QED
    BY <2>2, <2>3
<1>8. ASSUME d \notin alive', d \notin lost'
      PROVE  \/ Waiting(d, "delete")'
             \/ index'[d] = 0 /\ \A h \in Handler : ~Reads(h, d)'
  <2>1. CASE Renewed(d)
    BY <1>8, <2>1 DEF Renewed
  <2>2. CASE Same(d)
    <3>1. d \notin alive /\ d \notin lost
      BY <1>1, <1>8, <2>2 DEF Same
    <3>2. CASE index[d] = 0 /\ \A h \in Handler : ~Reads(h, d)
      BY <1>1, <1>4, <3>1, <3>2 DEF Writes, Reads
    <3>3. ASSUME NEW h \in Handler, DocOf(h) = d,
                 HandleDelete(h) \/ (NotFound(h) /\ task[h].m.op = "delete")
          PROVE  index'[d] = 0 /\ \A g \in Handler : ~Reads(g, d)'
      <4>1. Busy(h, d) /\ task'[h].at = "idle" /\ index'[d] = 0
        BY <3>3 DEF HandleDelete, NotFound, Ack, Nak, Busy, Types, TaskTypes, DocTypes, Idle
      <4>2. QED
        BY <1>2, <1>4, <4>1 DEF Reads
    <3>4. ASSUME NEW h \in Handler, NotFound(h) PROVE task[h].m.op \in {"change", "delete"}
      BY <3>4, TaskFacts DEF NotFound, Message
    <3>5. ASSUME Waiting(d, "delete"),
                 \A h \in Handler : DocOf(h) = d =>
                     ~HandleDelete(h) /\ ~(NotFound(h) /\ task[h].m.op = "delete")
          PROVE  Waiting(d, "delete")'
      <4>1. Unhandled(d, "delete")
        BY <3>1, <3>4, <3>5 DEF Unhandled
      <4>2. QED
        BY <1>8, <2>2, <3>5, <4>1, WaitingStays DEF Same
    <3>6. CASE Waiting(d, "delete")
      BY <3>3, <3>5, <3>6
    <3>7. QED
      BY <1>3, <3>1, <3>2, <3>6
  <2>3. QED
    BY <1>1, <2>1, <2>2
<1>9. QED
  BY <1>6, <1>7, <1>8

-----------------------------------------------------------------------------
(* The emotes cached in the users. *)

Sees(h) == Reads(h, "user") /\ task[h].at \in {"upsert", "mark"}

\* The set whose emotes have changed since is not marked, and a handler of its state
\* knows of it; else the users are told, or see its emotes as they are.
CacheInv ==
    /\ touched => "set" \notin marked
    /\ \A h \in Handler :
           Reads(h, "set") /\ task[h].stamp = stamp["set"] /\ touched => task[h].touched
    /\ ~torn /\ alive = Doc /\ ~touched =>
           /\ "user" \in marked => cached = holds
           /\ \A h \in Handler :
                  Sees(h) /\ task[h].stamp = stamp["user"] => task[h].sees = holds

\* At the start nothing is cached.
LEMMA CacheInit == Init => CacheInv
<1>1. Idle.at = "idle"
  BY DEF Idle
<1>2. QED
  BY <1>1 DEF Init, CacheInv, Reads, Sees

\* A handler that has read the set, or sees its emotes, did so before or does so now.
LEMMA ReadsMove ==
    ASSUME Types, [Next]_vars, NEW h \in Handler
    PROVE  /\ Reads(h, "set")' =>
                  \/ Reads(h, "set") /\ task'[h].stamp = task[h].stamp
                                     /\ task'[h].touched = task[h].touched
                  \/ task'[h].touched = touched /\ task'[h].stamp = stamp["set"]
           /\ Reads(h, "user")' =>
                  \/ Reads(h, "user") /\ task'[h].cached = task[h].cached
                                      /\ task'[h].stamp = task[h].stamp
                  \/ task[h].at = "load" /\ task'[h].at = "loadset" /\ task'[h].cached = cached
           /\ Sees(h)' =>
                  \/ Sees(h) /\ task'[h].stamp = task[h].stamp /\ task'[h].sees = task[h].sees
                  \/ /\ task[h].at = "loadset" /\ task'[h].at = "upsert" /\ DocOf(h) = "user"
                     /\ task'[h].sees = ("set" \in alive /\ holds)
<1>1. Moves(h)
  BY TasksMove
<1>2. task[h].at = "loadset" => DocOf(h) = "user"
  BY DEF Types, TaskTypes
<1>3. ASSUME Reads(h, "set")'
      PROVE  \/ Reads(h, "set") /\ task'[h].stamp = task[h].stamp
                                /\ task'[h].touched = task[h].touched
             \/ task'[h].touched = touched /\ task'[h].stamp = stamp["set"]
  BY <1>1, <1>2, <1>3, TypesStep DEF Moves, Reads, DocOf, Types, TaskTypes
<1>4. ASSUME Reads(h, "user")'
      PROVE  \/ Reads(h, "user") /\ task'[h].cached = task[h].cached
                                 /\ task'[h].stamp = task[h].stamp
             \/ task[h].at = "load" /\ task'[h].at = "loadset" /\ task'[h].cached = cached
  BY <1>1, <1>2, <1>4 DEF Moves, Reads, DocOf
<1>5. ASSUME Sees(h)'
      PROVE  \/ Sees(h) /\ task'[h].stamp = task[h].stamp /\ task'[h].sees = task[h].sees
             \/ /\ task[h].at = "loadset" /\ task'[h].at = "upsert" /\ DocOf(h) = "user"
                /\ task'[h].sees = ("set" \in alive /\ holds)
  BY <1>1, <1>2, <1>5 DEF Moves, Sees, Reads, DocOf
<1>6. QED
  BY <1>3, <1>4, <1>5

\* Every step keeps the cache in line with those who are still to refresh it.
LEMMA CacheStep == Types /\ StampInv /\ CacheInv /\ [Next]_vars => CacheInv'
<1> SUFFICES ASSUME Types, StampInv, CacheInv, [Next]_vars PROVE CacheInv'
  OBVIOUS
<1>0. /\ stamp \in [Doc -> Nat] /\ "set" \in Doc /\ "user" \in Doc
      /\ holds \in BOOLEAN /\ touched \in BOOLEAN /\ cached \in BOOLEAN /\ torn \in BOOLEAN
      /\ alive \subseteq Doc /\ marked \subseteq Doc
  BY DEF Types, DocTypes, Doc
<1>1. \A h \in Handler, d \in Doc :
          Reads(h, d) => task[h].stamp \in Nat /\ task[h].stamp <= stamp[d]
  BY TaskFacts DEF StampInv, Reads
<1>2. /\ touched => "set" \notin marked
      /\ \A h \in Handler :
             Reads(h, "set") /\ task[h].stamp = stamp["set"] /\ touched => task[h].touched
      /\ ~torn /\ alive = Doc /\ ~touched =>
             /\ "user" \in marked => cached = holds
             /\ \A h \in Handler :
                    Sees(h) /\ task[h].stamp = stamp["user"] => task[h].sees = holds
  BY DEF CacheInv
<1> USE DEF database, delivery, history
<1>3. ASSUME UNCHANGED <<stamp, alive, holds, touched, cached, torn>>, marked' = marked
      PROVE  CacheInv'
  BY <1>0, <1>2, <1>3, ReadsMove DEF CacheInv
<1>4. ASSUME NEW d \in Doc, NEW emotes \in BOOLEAN, Change(d, emotes) PROVE CacheInv'
  <2>1. /\ stamp' = [stamp EXCEPT ![d] = stamp[d] + 1] /\ marked' = marked \ {d}
        /\ UNCHANGED <<alive, cached, torn, task>>
    BY <1>4 DEF Change, Bump
  <2>2. \A h \in Handler : (Reads(h, "set")' <=> Reads(h, "set")) /\ (Sees(h)' <=> Sees(h))
    BY <2>1 DEF Reads, Sees, DocOf
  <2>3. CASE d = "set"
    <3>1. CASE emotes
      BY <1>0, <1>1, <1>4, <2>1, <2>2, <2>3, <3>1 DEF CacheInv, Change
    <3>2. CASE ~emotes
      BY <1>0, <1>1, <1>2, <1>4, <2>1, <2>2, <2>3, <3>2 DEF CacheInv, Change
    <3>3. QED
      BY <3>1, <3>2
  <2>4. CASE d = "user"
    <3>1. holds' = holds /\ touched' = touched
      BY <1>4, <2>4 DEF Change
    <3>2. QED
      BY <1>0, <1>1, <1>2, <2>1, <2>2, <2>4, <3>1 DEF CacheInv, Sees
  <2>5. QED
    BY <2>3, <2>4 DEF Doc
<1>5. ASSUME NEW d \in Doc, Delete(d) PROVE CacheInv'
  <2>1. /\ stamp' = [stamp EXCEPT ![d] = stamp[d] + 1] /\ marked' = marked \ {d}
        /\ alive' = alive \ {d} /\ UNCHANGED <<holds, touched, task>>
    BY <1>5 DEF Delete, Bump
  <2>2. \A h \in Handler : Reads(h, "set")' <=> Reads(h, "set")
    BY <2>1 DEF Reads, DocOf
  <2>3. QED
    BY <1>0, <1>1, <1>2, <2>1, <2>2 DEF CacheInv
<1>6. ASSUME NEW h \in Handler, task' = [task EXCEPT ![h] = Idle]
      PROVE  /\ \A g \in Handler : Reads(g, "set")' => g # h /\ Reads(g, "set")
             /\ \A g \in Handler : Sees(g)' => g # h /\ Sees(g)
             /\ \A g \in Handler : g # h => task'[g] = task[g]
  BY <1>6 DEF Reads, Sees, DocOf, Idle, Types, TaskTypes
<1>7. ASSUME NEW h \in Handler, MarkUser(h) PROVE CacheInv'
  <2>1. /\ task' = [task EXCEPT ![h] = Idle] /\ task[h].at = "mark" /\ DocOf(h) = "user"
        /\ UNCHANGED <<stamp, alive, holds, touched, torn>>
    BY <1>7 DEF MarkUser, Ack
  <2>2. Sees(h)
    BY <2>1 DEF Sees, Reads
  <2>3. CASE Unchanged(h)
    <3>1. marked' = marked \cup {"user"} /\ cached' = task[h].sees
      BY <1>7, <2>3 DEF MarkUser
    <3>2. task[h].stamp = stamp["user"]
      BY <2>1, <2>3 DEF Unchanged
    <3>3. QED
      BY <1>0, <1>2, <1>6, <2>1, <2>2, <3>1, <3>2 DEF CacheInv
  <2>4. CASE ~Unchanged(h)
    <3>1. marked' = marked /\ cached' = cached
      BY <1>7, <2>4 DEF MarkUser
    <3>2. QED
      BY <1>0, <1>2, <1>6, <2>1, <3>1 DEF CacheInv
  <2>5. QED
    BY <2>3, <2>4
<1>8. ASSUME NEW h \in Handler, NEW ok \in SUBSET {"set", "users"}, MarkSet(h, ok)
      PROVE  CacheInv'
  <2> DEFINE itself == "set" \in ok /\ Unchanged(h)
             whole == ok = {"set", "users"}
  <2>1. /\ DocOf(h) = "set" /\ task[h].at = "mark"
        /\ Told(h, ok) \in {{}, {"user"}} /\ Told(h, ok) \subseteq alive
        /\ stamp' = IF Told(h, ok) = {} THEN stamp
                    ELSE [stamp EXCEPT !["user"] = stamp["user"] + 1]
        /\ task' = [task EXCEPT ![h] = Idle]
        /\ UNCHANGED <<alive, holds, cached>>
    BY <1>8, MarkSetFacts
  <2>2. /\ marked' = (marked \cup (IF itself THEN {"set"} ELSE {})) \ Told(h, ok)
        /\ touched' <=> touched /\ ~(itself /\ task[h].touched)
        /\ torn' <=> torn \/ (itself /\ task[h].touched /\ ~whole)
    BY <1>8 DEF MarkSet, Told
  <2>3. Reads(h, "set") /\ (itself => task[h].stamp = stamp["set"])
    BY <2>1 DEF Reads, Unchanged
  <2>4. whole /\ task[h].touched /\ alive = Doc => Told(h, ok) = {"user"}
    BY <1>0 DEF Told
  <2>5. Told(h, ok) = {"user"} =>
            "user" \notin marked' /\ \A g \in Handler : Sees(g) => task[g].stamp # stamp'["user"]
    BY <1>0, <1>1, <2>1, <2>2 DEF Sees
  <2>6. stamp'["set"] = stamp["set"] /\ ("set" \in marked' => "set" \in marked \/ itself)
        /\ ("user" \in marked' => "user" \in marked)
    BY <1>0, <2>1, <2>2
  <2>7. Told(h, ok) = {} => stamp' = stamp
    BY <2>1
  <2> HIDE DEF itself, whole
  <2>8. touched' => "set" \notin marked'
    BY <1>2, <2>2, <2>3, <2>6
  <2>9. ASSUME NEW g \in Handler, Reads(g, "set")', task'[g].stamp = stamp'["set"], touched'
        PROVE  task'[g].touched
    BY <1>2, <1>6, <2>1, <2>2, <2>6, <2>9
  <2>10. ASSUME ~torn', alive' = Doc, ~touched'
         PROVE  /\ "user" \in marked' => cached' = holds'
                /\ \A g \in Handler :
                       Sees(g)' /\ task'[g].stamp = stamp'["user"] => task'[g].sees = holds'
    <3>1. CASE Told(h, ok) = {"user"}
      BY <1>6, <2>1, <2>5, <3>1
    <3>2. CASE Told(h, ok) = {}
      <4>1. ~touched /\ ~torn /\ alive = Doc
        BY <2>1, <2>2, <2>4, <2>10, <3>2
      <4>2. QED
        BY <1>2, <1>6, <2>1, <2>6, <2>7, <3>2, <4>1
    <3>3. QED
      BY <2>1, <3>1, <3>2
  <2>11. QED
    BY <2>8, <2>9, <2>10 DEF CacheInv
<1>9. QED
  BY <1>3, <1>4, <1>5, <1>7, <1>8
     DEF Next, vars, StreamStops, AckWaitEnds, Take, Fails, HandleDelete, NotFound, AlreadyIndexed,
         Load, LoadSet, Upsert

-----------------------------------------------------------------------------
(* The numbers. *)

One(b) == IF b THEN 1 ELSE 0

\* A handler that has the user to itself counts what it sees; until then, and after it
\* has written, what is cached is counted.
CountInv ==
    ~uncounted /\ "user" \notin overlapped =>
        /\ \A h \in Handler :
               /\ Reads(h, "user") => task[h].cached = cached
               /\ Sees(h) => counted = One(task[h].sees)
        /\ (\A h \in Handler : ~Sees(h)) => counted = One(cached)

\* At the start nothing is counted.
LEMMA CountInit == Init => CountInv
<1>1. Idle.at = "idle"
  BY DEF Idle
<1>2. QED
  BY <1>1 DEF Init, CountInv, Reads, Sees, One

\* Every step keeps the count in line with the handler at the user.
LEMMA CountStep == Types /\ AloneInv /\ CountInv /\ [Next]_vars => CountInv'
<1> SUFFICES ASSUME Types, AloneInv, CountInv, [Next]_vars, ~uncounted',
                    "user" \notin overlapped'
             PROVE  /\ \A h \in Handler :
                           /\ Reads(h, "user")' => task'[h].cached = cached'
                           /\ Sees(h)' => counted' = One(task'[h].sees)
                    /\ (\A h \in Handler : ~Sees(h)') => counted' = One(cached')
  BY DEF CountInv, One
<1> DEFINE Goal ==
             /\ \A h \in Handler :
                    /\ Reads(h, "user")' => task'[h].cached = cached'
                    /\ Sees(h)' => counted' = One(task'[h].sees)
             /\ (\A h \in Handler : ~Sees(h)') => counted' = One(cached')
<1>0. counted \in Int /\ cached \in BOOLEAN /\ \A b \in BOOLEAN : One(b) \in {0, 1}
  BY DEF Types, DocTypes, One
<1>1. /\ \A h \in Handler :
             /\ Reads(h, "user") => task[h].cached = cached
             /\ Sees(h) => counted = One(task[h].sees)
      /\ (\A h \in Handler : ~Sees(h)) => counted = One(cached)
      /\ \A g, h \in Handler : Busy(g, "user") /\ Busy(h, "user") => g = h
  <2>1. ~uncounted /\ "user" \notin overlapped
    <3>1. uncounted => uncounted'
      BY HistoryGrows
    <3>2. QED
      BY <3>1, Renews
  <2>2. QED
    BY <2>1 DEF CountInv, AloneInv, Doc
<1>2. \A h \in Handler : Sees(h) => Reads(h, "user") /\ Busy(h, "user")
  BY DEF Sees, Reads, Busy
<1>3. ASSUME NEW h \in Handler, LoadSet(h) PROVE Goal
  <2> DEFINE sees == "set" \in alive /\ holds
  <2>1. Busy(h, "user") /\ Reads(h, "user") /\ ~Sees(h)
    BY <1>3 DEF LoadSet, Types, TaskTypes, Busy, Reads, Sees
  <2>2. counted = One(cached) /\ task[h].cached = cached
    BY <1>1, <1>2, <2>1
  <2>3. counted' = counted + One(sees) - One(task[h].cached) /\ cached' = cached
    BY <1>3 DEF LoadSet, One, database
  <2>4. counted' = One(sees)
    <3>1. One(sees) \in Int /\ One(cached) \in Int
      BY DEF One
    <3>2. One(task[h].cached) = One(cached)
      BY <2>2
    <3> HIDE DEF sees
    <3>3. QED
      BY <2>2, <2>3, <3>1, <3>2
  <2>5. Sees(h)' /\ task'[h].sees = sees /\ task'[h].cached = task[h].cached
    BY <1>3 DEF LoadSet, Types, TaskTypes, Sees, Reads, DocOf
  <2>6. \A g \in Handler \ {h} : ~Reads(g, "user")' /\ ~Sees(g)'
    BY <1>1, <1>3, <2>1 DEF LoadSet, Types, TaskTypes, Sees, Reads, DocOf, Busy
  <2> HIDE DEF sees
  <2>7. QED
    BY <2>2, <2>3, <2>4, <2>5, <2>6
<1>4. ASSUME NEW h \in Handler, DocOf(h) = "user", task' = [task EXCEPT ![h] = Idle],
             Busy(h, "user")
      PROVE  \A g \in Handler : ~Reads(g, "user")' /\ ~Sees(g)'
  BY <1>1, <1>4 DEF Reads, Sees, Busy, DocOf, Idle, Types, TaskTypes
<1>5. ASSUME NEW h \in Handler, MarkUser(h) PROVE Goal
  <2>1. /\ DocOf(h) = "user" /\ Busy(h, "user") /\ Sees(h) /\ Reads(h, "user")
        /\ task' = [task EXCEPT ![h] = Idle] /\ counted' = counted
    BY <1>5 DEF MarkUser, Ack, Busy, Sees, Reads
  <2>2. counted = One(task[h].sees) /\ task[h].cached = cached
    BY <1>1, <2>1
  <2>3. cached' = task[h].sees
    BY <1>5, <2>2 DEF MarkUser
  <2>4. QED
    BY <1>4, <2>1, <2>2, <2>3
<1>6. ASSUME NEW h \in Handler, Fails(h) PROVE Goal
  <2>1. /\ task' = [task EXCEPT ![h] = Idle] /\ task[h].at # "idle"
        /\ counted' = counted /\ cached' = cached
    BY <1>6, TaskFacts DEF Fails, Nak, database
  <2>2. CASE DocOf(h) = "user"
    <3>1. Busy(h, "user")
      BY <2>1, <2>2 DEF Busy
    <3>2. CASE Sees(h)
      <4>1. task[h].sees = task[h].cached
        BY <1>6, <2>2, <3>2 DEF Fails, Sees
      <4>2. counted = One(cached)
        BY <1>1, <1>2, <3>2, <4>1
      <4>3. QED
        BY <1>4, <2>1, <2>2, <3>1, <4>2
    <3>3. CASE ~Sees(h)
      <4>1. counted = One(cached)
        BY <1>1, <1>2, <3>1, <3>3
      <4>2. QED
        BY <1>4, <2>1, <2>2, <3>1, <4>1
    <3>4. QED
      BY <3>2, <3>3
  <2>3. CASE DocOf(h) # "user"
    <3>1. \A g \in Handler : /\ Reads(g, "user")' <=> Reads(g, "user")
                             /\ Sees(g)' <=> Sees(g)
                             /\ Reads(g, "user") => task'[g] = task[g]
      BY <2>1, <2>3 DEF Reads, Sees, DocOf, Idle, Types, TaskTypes
    <3>2. QED
      BY <1>1, <1>2, <2>1, <3>1
  <2>4. QED
    BY <2>2, <2>3
<1>7. ASSUME UNCHANGED <<counted, cached>>,
             \A h \in Handler : ~LoadSet(h),
             \A h \in Handler : Sees(h) => Sees(h)'
      PROVE  Goal
  <2>1. \A h \in Handler : Sees(h)' => Sees(h) /\ task'[h].sees = task[h].sees
    <3>1. ASSUME NEW h \in Handler PROVE ~(task[h].at = "loadset" /\ task'[h].at = "upsert")
      BY <1>7, TasksMove DEF Moves
    <3>2. QED
      BY <3>1, ReadsMove
  <2>2. QED
    BY <1>1, <1>7, <2>1, ReadsMove
<1>8. ASSUME NEW h \in Handler, Sees(h), ~Sees(h)' PROVE MarkUser(h) \/ Fails(h)
  <2>1. task[h].at \in {"upsert", "mark"} /\ DocOf(h) = "user" /\ task'[h].at = "idle"
    BY <1>8, TasksMove DEF Moves, Sees, Reads, DocOf
  <2>2. ASSUME NEW g \in Handler,
               \/ \E q \in queue : Take(g, q)
               \/ HandleDelete(g) \/ NotFound(g) \/ AlreadyIndexed(g) \/ Load(g) \/ LoadSet(g)
        PROVE  FALSE
    <3>1. task[g].at # "upsert" /\ task[g].at # "mark"
      BY <2>2, TaskFacts DEF Take, HandleDelete, NotFound, AlreadyIndexed, Load, LoadSet
    <3>2. \A f \in Handler \ {g} : task'[f] = task[f]
      BY <2>2 DEF Take, HandleDelete, NotFound, AlreadyIndexed, Load, LoadSet, Ack, Nak,
             Types, TaskTypes
    <3>3. QED
      BY <2>1, <3>1, <3>2
  <2>3. ASSUME NEW g \in Handler, Upsert(g) PROVE FALSE
    <3>1. \A f \in Handler \ {g} : task'[f] = task[f]
      BY <2>3 DEF Upsert, Types, TaskTypes
    <3>2. g = h
      BY <2>1, <3>1
    <3>3. task[h] \in [at : {"upsert", "mark"}, m : Message, stamp : Nat, cached : BOOLEAN,
                       sees : BOOLEAN]
      BY <2>1 DEF Types, TaskTypes
    <3>4. task'[h].at = "mark"
      BY <2>3, <3>2, <3>3 DEF Upsert, Types, TaskTypes
    <3>5. QED
      BY <2>1, <3>4
  <2>4. ASSUME NEW g \in Handler, NEW ok \in SUBSET {"set", "users"}, MarkSet(g, ok) PROVE FALSE
    BY <2>1, <2>4, MarkSetFacts DEF Types, TaskTypes
  <2>5. ASSUME NEW g \in Handler, g # h, MarkUser(g) \/ Fails(g) PROVE FALSE
    BY <2>1, <2>5 DEF MarkUser, Fails, Ack, Nak, Types, TaskTypes
  <2>6. task' # task
    BY <2>1
  <2>7. QED
    BY <2>2, <2>3, <2>4, <2>5, <2>6 DEF Next, vars, StreamStops, Change, Delete, AckWaitEnds
<1>9. CASE \E h \in Handler : LoadSet(h) \/ MarkUser(h) \/ Fails(h)
  BY <1>3, <1>5, <1>6, <1>9
<1>10. CASE ~\E h \in Handler : LoadSet(h) \/ MarkUser(h) \/ Fails(h)
  <2>1. UNCHANGED <<counted, cached>>
    BY <1>10 DEF Next, vars, StreamStops, Change, Delete, AckWaitEnds, Take, HandleDelete,
         NotFound, AlreadyIndexed, Load, Upsert, MarkSet, Ack, Nak, database, delivery, history
  <2>2. QED
    BY <1>7, <1>8, <1>10, <2>1
<1>11. QED
  BY <1>9, <1>10

-----------------------------------------------------------------------------
Inv == StampInv /\ PendingInv /\ AloneInv /\ IndexInv /\ CacheInv /\ CountInv

\* The index, the cached emotes and the numbers follow the documents (SearchFollows).
THEOREM SearchHolds == Spec => []SearchFollows
<1>1. Init => Types /\ Inv
  BY TypesInit, StampInit, PendingInit, AloneInit, IndexInit, CacheInit, CountInit DEF Inv
<1>2. Types /\ Inv /\ [Next]_vars => Types' /\ Inv'
  BY TypesStep, StampStep, PendingStep, AloneStep, IndexStep, CacheStep, CountStep DEF Inv
<1>3. Types /\ Inv => SearchFollows
  <2> SUFFICES ASSUME Types, Inv PROVE SearchFollows
    OBVIOUS
  <2>1. \A h \in Handler : (task[h] = Idle <=> task[h].at = "idle") /\ Idle.at = "idle"
    BY TaskFacts DEF Idle
  <2>2. Quiet => \A q \in queue : ~Held(q)
    BY <2>1, ConstAssumption DEF Quiet, Held, Types, QueueTypes
  <2>3. Quiet => \A d \in alive : d \in marked \cup lost
    BY <2>2 DEF Inv, PendingInv, Waiting
  <2>4. IndexFollows
    BY <2>1, <2>2, <2>3 DEF IndexFollows, Inv, IndexInv, Waiting, Types, DocTypes
  <2>5. CacheFollows
    BY <2>3 DEF CacheFollows, Inv, CacheInv, Types, DocTypes, Doc
  <2>6. CountsFollow
    BY <2>1 DEF CountsFollow, Inv, CountInv, Sees, Reads, One
  <2>7. QED
    BY <2>4, <2>5, <2>6 DEF SearchFollows
<1>4. QED
  BY <1>1, <1>2, <1>3, PTL DEF Spec

-----------------------------------------------------------------------------
(* The connection.  What the server remembers of a user is what the client *)
(* shows of him, until he falls out of the cache (ViewInv); the last       *)
(* presence of a user was handled, waits as his last, or is lost           *)
(* (LatestInv); and no message is older than what was sent (DatesInv).     *)

\* A list of keys that names none twice.
Keys(S) == {s \in Seq(S) : \A i, j \in 1..Len(s) : s[i] = s[j] => i = j}

\* What is left of a sequence without its i-th element.
LEMMA RemovedAt ==
    ASSUME NEW S, NEW s \in Seq(S), NEW i \in 1..Len(s)
    PROVE  /\ C!RemoveAt(s, i) \in Seq(S)
           /\ Len(C!RemoveAt(s, i)) = Len(s) - 1
           /\ \A n \in 1..Len(s)-1 : C!RemoveAt(s, i)[n] = IF n < i THEN s[n] ELSE s[n+1]
<1> DEFINE front == SubSeq(s, 1, i-1)
           back == SubSeq(s, i+1, Len(s))
<1>1. front \in Seq(S) /\ Len(front) = i - 1 /\ \A n \in 1..(i-1) : front[n] = s[n]
  OBVIOUS
<1>2. back \in Seq(S) /\ Len(back) = Len(s) - i /\ \A n \in 1..(Len(s) - i) : back[n] = s[i + n]
  OBVIOUS
<1>3. C!RemoveAt(s, i) = front \o back
  BY DEF C!RemoveAt
<1> HIDE DEF front, back
<1>4. /\ front \o back \in Seq(S)
      /\ Len(front \o back) = Len(s) - 1
  BY <1>1, <1>2
<1>5. ASSUME NEW n \in 1..Len(s)-1 PROVE (front \o back)[n] = IF n < i THEN s[n] ELSE s[n+1]
  <2>0. n \in Int /\ i \in Int
    OBVIOUS
  <2>1. CASE n < i
    BY <1>1, <1>2, <2>1
  <2>2. CASE ~(n < i)
    <3>1. (front \o back)[n] = back[n - (i - 1)]
      BY <1>1, <1>2, <2>2
    <3>2. back[n - (i - 1)] = s[i + (n - (i - 1))]
      BY <1>2, <2>2
    <3>3. i + (n - (i - 1)) = n + 1
      OBVIOUS
    <3> QED
      BY <2>2, <3>1, <3>2, <3>3
  <2> QED
    BY <2>1, <2>2
<1> QED
  BY <1>3, <1>4, <1>5

\* lru.pop takes its key out and no other.
LEMMA Popped ==
    ASSUME NEW S, NEW s \in Keys(S), NEW k
    PROVE  /\ C!Without(s, k) \in Keys(S)
           /\ C!ToSet(C!Without(s, k)) = C!ToSet(s) \ {k}
<1>0. s \in Seq(S) /\ \A i, j \in 1..Len(s) : s[i] = s[j] => i = j
  BY DEF Keys
<1>1. CASE ~C!Contains(s, k)
  BY <1>0, <1>1 DEF C!Without, C!Contains, C!ToSet
<1>2. CASE C!Contains(s, k)
  <2> DEFINE i == CHOOSE n \in 1..Len(s) : s[n] = k
  <2>1. i \in 1..Len(s) /\ s[i] = k
    BY <1>2 DEF C!Contains
  <2>2. C!Without(s, k) = C!RemoveAt(s, i)
    BY <1>2 DEF C!Without
  <2> HIDE DEF i
  <2> DEFINE t == C!RemoveAt(s, i)
  <2>3. t \in Seq(S) /\ Len(t) = Len(s) - 1 /\ \A n \in 1..Len(s)-1 : t[n] = IF n < i THEN s[n] ELSE s[n+1]
    BY <1>0, <2>1, RemovedAt
  <2> HIDE DEF t
  <2>4. t \in Keys(S)
    <3> SUFFICES ASSUME NEW m \in 1..Len(t), NEW n \in 1..Len(t), t[m] = t[n] PROVE m = n
      BY <2>3 DEF Keys
    <3> DEFINE at(p) == IF p < i THEN p ELSE p + 1
    <3>1. ASSUME NEW p \in 1..Len(t) PROVE at(p) \in 1..Len(s) /\ t[p] = s[at(p)]
      <4>1. p \in 1..Len(s)-1 /\ Len(s) \in Nat /\ i \in Int
        BY <1>0, <2>1, <2>3
      <4>2. at(p) \in 1..Len(s)
        BY <4>1
      <4>3. t[p] = s[at(p)]
        BY <2>3, <4>1
      <4> QED
        BY <4>2, <4>3
    <3>2. at(m) = at(n)
      <4> HIDE DEF at
      <4> QED
        BY <1>0, <3>1
    <3>3. m \in Int /\ n \in Int /\ i \in Int
      BY <2>1
    <3> QED
      BY <3>2, <3>3
  <2>5. ASSUME NEW x \in C!ToSet(t) PROVE x \in C!ToSet(s) \ {k}
    <3>1. PICK n \in 1..Len(t) : x = t[n]
      BY <2>3 DEF C!ToSet
    <3>2. PICK m \in 1..Len(s) : m # i /\ x = s[m]
      <4>1. CASE n < i
        BY <1>0, <2>1, <2>3, <3>1, <4>1
      <4>2. CASE ~(n < i)
        <5>1. n + 1 \in 1..Len(s) /\ n + 1 # i /\ x = s[n + 1]
          BY <1>0, <2>1, <2>3, <3>1, <4>2
        <5> QED
          BY <5>1
      <4> QED
        BY <4>1, <4>2
    <3> QED
      BY <3>2, <1>0, <2>1 DEF C!ToSet
  <2>6. ASSUME NEW x \in C!ToSet(s), x # k PROVE x \in C!ToSet(t)
    <3>1. PICK m \in 1..Len(s) : x = s[m]
      BY <1>0 DEF C!ToSet
    <3>2. CASE m < i
      <4>1. m \in 1..Len(t) /\ t[m] = x
        BY <1>0, <2>1, <2>3, <3>1, <3>2
      <4> QED
        BY <2>3, <4>1 DEF C!ToSet
    <3>3. CASE m > i
      <4>1. m - 1 \in 1..Len(t) /\ t[m - 1] = x
        BY <1>0, <2>1, <2>3, <3>1, <3>3
      <4> QED
        BY <2>3, <4>1 DEF C!ToSet
    <3> QED
      BY <3>1, <3>2, <3>3, <2>1, <2>6, <1>0
  <2> QED
    BY <1>0, <2>2, <2>3, <2>4, <2>5, <2>6 DEF t
<1> QED
  BY <1>1, <1>2

\* lru.put has its key afterwards, and no other key it did not have before.
LEMMA Put ==
    ASSUME NEW S, NEW s \in Keys(S), NEW k \in S, NEW size \in Nat \ {0}
    PROVE  /\ C!Used(s, k, size) \in Keys(S)
           /\ k \in C!ToSet(C!Used(s, k, size))
           /\ C!ToSet(C!Used(s, k, size)) \subseteq C!ToSet(s) \cup {k}
<1> DEFINE t == C!Without(s, k)
           all == <<k>> \o t
<1>1. t \in Seq(S) /\ k \notin C!ToSet(t) /\ C!ToSet(t) \subseteq C!ToSet(s)
      /\ \A i, j \in 1..Len(t) : t[i] = t[j] => i = j
  BY Popped DEF Keys
<1> HIDE DEF t
<1>2. /\ all \in Seq(S) /\ Len(all) = Len(t) + 1 /\ all[1] = k
      /\ \A i \in 2..Len(all) : all[i] = t[i - 1] /\ i - 1 \in 1..Len(t)
  BY <1>1
<1> HIDE DEF all
<1>3. \A i \in 2..Len(all) : all[i] \in C!ToSet(t)
  BY <1>1, <1>2 DEF C!ToSet
<1>4. ASSUME NEW i \in 1..Len(all), NEW j \in 1..Len(all), all[i] = all[j] PROVE i = j
  <2>1. CASE i = 1 /\ j = 1
    BY <2>1
  <2>2. CASE i # 1 /\ j # 1
    <3>1. i \in 2..Len(all) /\ j \in 2..Len(all)
      BY <1>1, <1>2, <2>2
    <3>2. i - 1 \in 1..Len(t) /\ j - 1 \in 1..Len(t) /\ t[i - 1] = t[j - 1]
      BY <1>2, <1>4, <3>1
    <3>3. i - 1 = j - 1
      BY <1>1, <3>2
    <3> QED
      BY <3>1, <3>3
  <2>3. CASE i = 1 /\ j # 1
    <3>1. j \in 2..Len(all)
      BY <1>1, <1>2, <2>3
    <3> QED
      BY <1>1, <1>2, <1>3, <1>4, <2>3, <3>1
  <2>4. CASE i # 1 /\ j = 1
    <3>1. i \in 2..Len(all)
      BY <1>1, <1>2, <2>4
    <3> QED
      BY <1>1, <1>2, <1>3, <1>4, <2>4, <3>1
  <2> QED
    BY <2>1, <2>2, <2>3, <2>4
<1>5. ASSUME NEW u, u \in Seq(S), Len(u) >= 1, Len(u) <= Len(all), \A i \in 1..Len(u) : u[i] = all[i]
      PROVE  u \in Keys(S) /\ k \in C!ToSet(u) /\ C!ToSet(u) \subseteq C!ToSet(s) \cup {k}
  <2>1. u \in Keys(S)
    <3> SUFFICES ASSUME NEW i \in 1..Len(u), NEW j \in 1..Len(u), u[i] = u[j] PROVE i = j
      BY <1>5 DEF Keys
    <3>1. i \in 1..Len(all) /\ j \in 1..Len(all) /\ all[i] = all[j]
      BY <1>2, <1>5
    <3> QED
      BY <1>4, <3>1
  <2>2. k \in C!ToSet(u)
    BY <1>2, <1>5 DEF C!ToSet
  <2>3. ASSUME NEW x \in C!ToSet(u) PROVE x \in C!ToSet(s) \cup {k}
    <3>1. PICK i \in 1..Len(u) : x = u[i]
      BY <1>5 DEF C!ToSet
    <3>2. CASE i = 1
      BY <1>2, <1>5, <3>1, <3>2
    <3>3. CASE i # 1
      <4>1. i \in 2..Len(all) /\ x = all[i]
        BY <1>2, <1>5, <3>1, <3>3
      <4> QED
        BY <1>1, <1>3, <4>1
    <3> QED
      BY <3>2, <3>3
  <2> QED
    BY <2>1, <2>2, <2>3
<1>6. CASE Len(all) > size
  <2>1. C!Used(s, k, size) = SubSeq(all, 1, Len(all) - 1)
    BY <1>6 DEF C!Used, C!Front, all, t
  <2>2. /\ SubSeq(all, 1, Len(all) - 1) \in Seq(S)
        /\ Len(SubSeq(all, 1, Len(all) - 1)) = Len(all) - 1
        /\ \A i \in 1..(Len(all) - 1) : SubSeq(all, 1, Len(all) - 1)[i] = all[i]
    BY <1>2
  <2>3. Len(all) - 1 >= 1 /\ Len(all) - 1 <= Len(all)
    BY <1>2, <1>6
  <2> QED
    BY <1>5, <2>1, <2>2, <2>3
<1>7. CASE ~(Len(all) > size)
  <2>1. C!Used(s, k, size) = all
    BY <1>7 DEF C!Used, all, t
  <2>2. Len(all) \in Nat /\ Len(all) >= 1
    BY <1>1, <1>2
  <2> QED
    BY <1>2, <1>5, <2>1, <2>2
<1> QED
  BY <1>6, <1>7

-----------------------------------------------------------------------------

\* Presences as they are published: the objects with their dates.
Presence ==
    UNION {[user : User, has : {h}, version : [h -> Nat]] : h \in SUBSET C!Object}

ConnectionTypes ==
    /\ IsFiniteSet(topics)
    /\ box \in Seq(Presence)
    /\ version \in [C!Object -> Nat]
    /\ latest = [u \in User |-> latest[u]]
    /\ \A u \in User : /\ latest[u].has \subseteq C!Object
                       /\ \A o \in latest[u].has : latest[u].version[o] \in Nat
    /\ unread \subseteq User /\ forgotten \subseteq User
    /\ sent \in [C!Object -> Nat] /\ knows = sent
    /\ told \in [User -> SUBSET C!Cosmetic]
    /\ view \in [User -> SUBSET C!Object]
    /\ recent \in Keys(User)

\* Messages carry dates between what was sent last and what is, in their order.
DatesInv ==
    /\ \A o \in C!Object : sent[o] <= version[o]
    /\ \A i \in 1..Len(box) : \A o \in box[i].has :
           sent[o] <= box[i].version[o] /\ box[i].version[o] <= version[o]
    /\ \A i, j \in 1..Len(box) : i < j =>
           \A o \in box[i].has \cap box[j].has : box[i].version[o] <= box[j].version[o]

Waits(b, u) == \E i \in 1..Len(b) : b[i].user = u

\* The last message of u in b is m.
LastIs(b, u, m) ==
    \A i \in 1..Len(b) :
        (b[i].user = u /\ \A j \in 1..Len(b) : j > i => b[j].user # u) => b[i] = m

\* The last presence of u was handled.
Handled(u) ==
    /\ \A o \in latest[u].has : sent[o] >= latest[u].version[o]
    /\ latest[u].has \subseteq view[u]
    /\ u \notin forgotten => view[u] \cap C!Cosmetic = latest[u].has \cap C!Cosmetic

LatestOf(u) ==
    /\ u \in unread => ~Waits(box, u)
    /\ u \notin unread => LastIs(box, u, latest[u])
    /\ u \notin unread /\ ~Waits(box, u) => Handled(u)

LatestInv == \A u \in User : LatestOf(u)

\* What the server remembers of a user the client shows, and nothing else unless the
\* server once forgot him.
ViewOf(u) ==
    /\ C!Remembered(u) \subseteq view[u]
    /\ u \notin forgotten => view[u] \cap C!Cosmetic = C!Remembered(u)

ViewInv == \A u \in User : ViewOf(u)

LimitInv == C!TopicsBounded

ConnectionInv == ConnectionTypes /\ DatesInv /\ LatestInv /\ ViewInv /\ LimitInv

-----------------------------------------------------------------------------

LEMMA PresenceType ==
    ASSUME NEW m \in Presence
    PROVE  /\ m.user \in User /\ m.has \subseteq C!Object
           /\ m.version \in [m.has -> Nat]
BY DEF Presence

\* The tail of a queue has what was behind its head.
LEMMA Taken ==
    ASSUME NEW M, NEW b \in Seq(M), b # <<>>
    PROVE  /\ Tail(b) \in Seq(M) /\ Len(Tail(b)) = Len(b) - 1 /\ Len(b) >= 1
           /\ \A i \in 1..(Len(b) - 1) : Tail(b)[i] = b[i + 1]
           /\ Head(b) = b[1] /\ b[1] \in M
OBVIOUS

\* Taking the head of a queue leaves the last message of everybody else, and of
\* its user if he has another one.
LEMMA TakenLast ==
    ASSUME NEW M, NEW b \in Seq(M), b # <<>>, NEW u, NEW m, LastIs(b, u, m)
    PROVE  /\ LastIs(Tail(b), u, m)
           /\ Waits(Tail(b), u) => Waits(b, u)
           /\ b[1].user # u /\ Waits(b, u) => Waits(Tail(b), u)
           /\ b[1].user = u /\ ~Waits(Tail(b), u) => b[1] = m
<1>1. /\ Tail(b) \in Seq(M) /\ Len(Tail(b)) = Len(b) - 1 /\ Len(b) >= 1 /\ Len(b) \in Nat
      /\ \A i \in 1..(Len(b) - 1) : Tail(b)[i] = b[i + 1]
  BY Taken
<1> DEFINE t == Tail(b)
<1> HIDE DEF t
<1>2. Len(t) = Len(b) - 1 /\ \A i \in 1..Len(t) : t[i] = b[i + 1] /\ i + 1 \in 1..Len(b)
  BY <1>1 DEF t
<1>3. \A j \in 2..Len(b) : j - 1 \in 1..Len(t) /\ t[j - 1] = b[j]
  BY <1>1, <1>2
<1>4. LastIs(t, u, m)
  <2> SUFFICES ASSUME NEW i \in 1..Len(t), t[i].user = u, \A j \in 1..Len(t) : j > i => t[j].user # u
               PROVE  t[i] = m
    BY DEF LastIs
  <2>1. i + 1 \in 1..Len(b) /\ t[i] = b[i + 1]
    BY <1>2
  <2>2. ASSUME NEW j \in 1..Len(b), j > i + 1 PROVE b[j].user # u
    <3>1. j \in 2..Len(b) /\ j - 1 > i
      BY <1>1, <2>1, <2>2
    <3> QED
      BY <1>3, <3>1
  <2> QED
    BY <2>1, <2>2 DEF LastIs
<1>5. Waits(t, u) => Waits(b, u)
  BY <1>2 DEF Waits
<1>6. ASSUME b[1].user # u, Waits(b, u) PROVE Waits(t, u)
  <2>1. PICK i \in 1..Len(b) : b[i].user = u
    BY <1>6 DEF Waits
  <2>2. i \in 2..Len(b)
    BY <1>1, <1>6, <2>1
  <2> QED
    BY <1>3, <2>1, <2>2 DEF Waits
<1>7. ASSUME b[1].user = u, ~Waits(t, u) PROVE b[1] = m
  <2>1. ASSUME NEW j \in 1..Len(b), j > 1 PROVE b[j].user # u
    <3>1. j \in 2..Len(b)
      BY <1>1, <2>1
    <3> QED
      BY <1>3, <1>7, <3>1 DEF Waits
  <2>2. 1 \in 1..Len(b)
    BY <1>1
  <2> QED
    BY <1>7, <2>1, <2>2 DEF LastIs
<1> QED
  BY <1>4, <1>5, <1>6, <1>7 DEF t

\* A message appended is the last of its user and leaves the others.
LEMMA AppendedLast ==
    ASSUME NEW M, NEW b \in Seq(M), NEW x \in M, NEW u, NEW m
    PROVE  /\ x.user = u => LastIs(Append(b, x), u, x) /\ Waits(Append(b, x), u)
           /\ x.user # u => /\ LastIs(b, u, m) => LastIs(Append(b, x), u, m)
                            /\ Waits(Append(b, x), u) <=> Waits(b, u)
<1> DEFINE a == Append(b, x)
<1>1. /\ a \in Seq(M) /\ Len(a) = Len(b) + 1 /\ Len(b) \in Nat /\ a[Len(b) + 1] = x
      /\ \A i \in 1..Len(b) : a[i] = b[i]
  OBVIOUS
<1> HIDE DEF a
<1>2. \A i \in 1..Len(a) : i \in 1..Len(b) \/ i = Len(b) + 1
  BY <1>1
<1>3. ASSUME x.user = u PROVE LastIs(a, u, x) /\ Waits(a, u)
  <2>1. Len(b) + 1 \in 1..Len(a)
    BY <1>1
  <2>2. \A i \in 1..Len(b) : Len(b) + 1 > i
    BY <1>1
  <2> QED
    BY <1>1, <1>2, <1>3, <2>1, <2>2 DEF LastIs, Waits
<1>4. ASSUME x.user # u PROVE Waits(a, u) <=> Waits(b, u)
  <2>1. \A i \in 1..Len(b) : i \in 1..Len(a)
    BY <1>1
  <2> QED
    BY <1>1, <1>2, <1>4, <2>1 DEF Waits
<1>5. ASSUME x.user # u, LastIs(b, u, m) PROVE LastIs(a, u, m)
  <2> SUFFICES ASSUME NEW i \in 1..Len(a), a[i].user = u, \A j \in 1..Len(a) : j > i => a[j].user # u
               PROVE  a[i] = m
    BY DEF LastIs
  <2>1. i \in 1..Len(b) /\ a[i] = b[i]
    BY <1>1, <1>2, <1>5
  <2>2. ASSUME NEW j \in 1..Len(b), j > i PROVE b[j].user # u
    <3>1. j \in 1..Len(a) /\ a[j] = b[j]
      BY <1>1
    <3> QED
      BY <2>2, <3>1
  <2> QED
    BY <1>5, <2>1, <2>2 DEF LastIs
<1> QED
  BY <1>3, <1>4, <1>5 DEF a

-----------------------------------------------------------------------------

\* The instance counts as everybody does.
LEMMA SameCardinality == \A S : C!Cardinality(S) = Cardinality(S)
BY DEF C!Cardinality, Cardinality, C!IsFiniteSet, IsFiniteSet

LEMMA ConnectionInit == C!Init => ConnectionInv
<1> SUFFICES ASSUME C!Init PROVE ConnectionInv
  OBVIOUS
<1>1. /\ topics = {} /\ box = <<>> /\ version = [o \in C!Object |-> 1]
      /\ latest = [u \in User |-> [user |-> u, has |-> {}, version |-> <<>>]]
      /\ unread = {} /\ forgotten = {} /\ sent = [o \in C!Object |-> 0] /\ knows = sent
      /\ told = [u \in User |-> {}] /\ view = told /\ recent = <<>>
  BY DEF C!Init
<1>2. \A u \in User : latest[u] = [user |-> u, has |-> {}, version |-> <<>>]
  BY <1>1
<1>3. \A u \in User : latest[u].has = {}
  <2> SUFFICES ASSUME NEW u \in User PROVE latest[u].has = {}
    OBVIOUS
  <2> DEFINE first == [user |-> u, has |-> {}, version |-> <<>>]
  <2>1. latest[u] = first
    BY <1>2
  <2>2. first.has = {}
    OBVIOUS
  <2> QED
    BY <2>1, <2>2
<1>4. Len(box) = 0 /\ Len(recent) = 0 /\ box \in Seq(Presence) /\ recent \in Keys(User)
  BY <1>1 DEF Keys
<1>5. ConnectionTypes
  BY <1>1, <1>3, <1>4, FS_EmptySet DEF ConnectionTypes
<1>6. DatesInv
  BY <1>1, <1>4 DEF DatesInv
<1>7. ViewInv
  BY <1>1, <1>4 DEF ViewInv, ViewOf, C!Remembered, C!Contains
<1>8. LatestInv
  BY <1>1, <1>3, <1>4 DEF LatestInv, LatestOf, LastIs, Handled
<1>9. LimitInv
  BY <1>1, FS_EmptySet, SameCardinality, ConnectionAssumption DEF LimitInv, C!TopicsBounded
<1> QED
  BY <1>5, <1>6, <1>7, <1>8, <1>9 DEF ConnectionInv

\* What a step does not touch stays as it is.
LEMMA DatesStay ==
    ASSUME DatesInv, UNCHANGED <<sent, box, version>>
    PROVE  DatesInv'
BY DEF DatesInv

LEMMA LatestStays ==
    ASSUME LatestInv, UNCHANGED <<latest, unread, box, sent, forgotten, view>>
    PROVE  LatestInv'
BY DEF LatestInv, LatestOf, LastIs, Waits, Handled

LEMMA ViewStays ==
    ASSUME ViewInv, UNCHANGED <<forgotten, view, told, recent>>
    PROVE  ViewInv'
BY DEF ViewInv, ViewOf, C!Remembered

\* Topics are added one or two at a time, below the limit.
LEMMA SubscribeStep ==
    ASSUME ConnectionInv, NEW t, NEW channel \in BOOLEAN, C!Subscribe(t, channel)
    PROVE  ConnectionInv'
<1>0. ConnectionTypes /\ DatesInv /\ LatestInv /\ ViewInv /\ LimitInv
  BY DEF ConnectionInv
<1>1. /\ Cardinality(topics) < Limit
      /\ topics' = topics \cup {t} \cup IF channel THEN {"presence"} ELSE {}
      /\ UNCHANGED <<box, version, latest, unread, sent, objects, told, recent, forgotten, knows, view>>
  BY SameCardinality DEF C!Subscribe, C!world, C!server, C!client
<1>2. IsFiniteSet(topics) /\ Cardinality(topics) \in Nat
  BY <1>0, FS_CardinalityType DEF ConnectionTypes
<1>3. /\ IsFiniteSet(topics \cup {t}) /\ Cardinality(topics \cup {t}) \in Nat
      /\ Cardinality(topics \cup {t}) <= Cardinality(topics) + 1
  <2> DEFINE two == topics \cup {t}
  <2>1. IsFiniteSet(two) /\ (Cardinality(two) = Cardinality(topics) \/ Cardinality(two) = Cardinality(topics) + 1)
    BY <1>2, FS_AddElement
  <2> QED
    BY <1>2, <2>1
<1>4. /\ IsFiniteSet((topics \cup {t}) \cup {"presence"})
      /\ Cardinality((topics \cup {t}) \cup {"presence"}) \in Nat
      /\ Cardinality((topics \cup {t}) \cup {"presence"}) <= Cardinality(topics \cup {t}) + 1
  <2> DEFINE two == topics \cup {t}
  <2> HIDE DEF two
  <2>1. IsFiniteSet(two) /\ Cardinality(two) \in Nat
    BY <1>3 DEF two
  <2>2. /\ IsFiniteSet(two \cup {"presence"})
        /\ Cardinality(two \cup {"presence"}) = Cardinality(two) \/ Cardinality(two \cup {"presence"}) = Cardinality(two) + 1
    BY <2>1, FS_AddElement
  <2> QED
    BY <2>1, <2>2 DEF two
<1>5. IsFiniteSet(topics') /\ Cardinality(topics') <= Limit + 1
  <2>1. CASE channel
    <3>1. topics' = (topics \cup {t}) \cup {"presence"}
      BY <1>1, <2>1
    <3> QED
      BY <1>1, <1>2, <1>3, <1>4, <3>1, ConnectionAssumption
  <2>2. CASE ~channel
    <3>1. topics' = topics \cup {t}
      BY <1>1, <2>2
    <3> QED
      BY <1>1, <1>2, <1>3, <3>1, ConnectionAssumption
  <2> QED
    BY <2>1, <2>2
<1> QED
  BY <1>0, <1>1, <1>5, SameCardinality, DatesStay, LatestStays, ViewStays
     DEF ConnectionInv, ConnectionTypes, LimitInv, C!TopicsBounded

\* What the receiver of the presences still held is lost.
LEMMA UnsubscribeStep ==
    ASSUME ConnectionInv, NEW gone, C!Unsubscribe(gone)
    PROVE  ConnectionInv'
<1>0. ConnectionTypes /\ DatesInv /\ LatestInv /\ ViewInv /\ LimitInv
  BY DEF ConnectionInv
<1>1. /\ topics' = topics \ gone
      /\ C!Drops(gone)
      /\ UNCHANGED <<version, latest, sent, objects, told, recent, forgotten, knows, view>>
  BY DEF C!Unsubscribe, C!server, C!client
<1>2. IsFiniteSet(topics') /\ LimitInv'
  <2>1. /\ IsFiniteSet(topics') /\ Cardinality(topics') <= Cardinality(topics)
        /\ Cardinality(topics') \in Nat /\ Cardinality(topics) \in Nat
    BY <1>0, <1>1, FS_Subset, FS_CardinalityType DEF ConnectionTypes
  <2> QED
    BY <1>0, <2>1, SameCardinality, ConnectionAssumption DEF LimitInv, C!TopicsBounded
<1>3. CASE UNCHANGED <<box, unread>>
  BY <1>0, <1>1, <1>2, <1>3, DatesStay, LatestStays, ViewStays DEF ConnectionInv, ConnectionTypes
<1>4. CASE box' = <<>> /\ unread' = unread \cup {box[i].user : i \in DOMAIN box}
  <2>1. box \in Seq(Presence) /\ DOMAIN box = 1..Len(box)
    BY <1>0 DEF ConnectionTypes
  <2>2. Len(box') = 0 /\ box' \in Seq(Presence)
    BY <1>4
  <2>3. unread' \subseteq User
    <3>1. \A i \in 1..Len(box) : box[i].user \in User
      BY <2>1, PresenceType
    <3> QED
      BY <1>0, <1>4, <2>1, <3>1 DEF ConnectionTypes
  <2>4. LatestInv'
    <3> SUFFICES ASSUME NEW u \in User PROVE LatestOf(u)'
      BY DEF LatestInv
    <3>1. u \notin unread' => u \notin unread /\ ~Waits(box, u)
      BY <1>4, <2>1 DEF Waits
    <3>2. u \notin unread' => Handled(u)
      BY <1>0, <3>1 DEF LatestInv, LatestOf
    <3> QED
      BY <1>1, <2>2, <3>2 DEF LatestOf, LastIs, Waits, Handled
  <2>5. DatesInv'
    BY <1>0, <1>1, <2>2 DEF DatesInv
  <2> QED
    BY <1>0, <1>1, <1>2, <2>2, <2>3, <2>4, <2>5, ViewStays DEF ConnectionInv, ConnectionTypes
<1> QED
  BY <1>1, <1>3, <1>4 DEF C!Drops

\* A change of an object makes it newer than every message.
LEMMA ObjectStep ==
    ASSUME ConnectionInv, NEW o \in C!Object, C!ObjectChanges(o)
    PROVE  ConnectionInv'
<1>0. ConnectionTypes /\ DatesInv /\ LatestInv /\ ViewInv /\ LimitInv
  BY DEF ConnectionInv
<1>1. /\ version' = [version EXCEPT ![o] = @ + 1]
      /\ UNCHANGED <<topics, box, latest, unread, sent, objects, told, recent, forgotten, knows, view>>
  BY DEF C!ObjectChanges, C!server, C!client
<1>2. /\ version' \in [C!Object -> Nat] /\ version \in [C!Object -> Nat] /\ sent \in [C!Object -> Nat]
      /\ \A p \in C!Object : version'[p] >= version[p]
  BY <1>0, <1>1 DEF ConnectionTypes
<1>3. DatesInv'
  <2>1. \A i \in 1..Len(box) : \A p \in box[i].has : p \in C!Object /\ box[i].version[p] \in Nat
    BY <1>0, PresenceType DEF ConnectionTypes
  <2>2. \A i \in 1..Len(box) : \A p \in box[i].has :
           sent[p] <= box[i].version[p] /\ box[i].version[p] <= version'[p]
    <3> SUFFICES ASSUME NEW i \in 1..Len(box), NEW p \in box[i].has
                 PROVE  sent[p] <= box[i].version[p] /\ box[i].version[p] <= version'[p]
      OBVIOUS
    <3>1. sent[p] <= box[i].version[p] /\ box[i].version[p] <= version[p]
      BY <1>0 DEF DatesInv
    <3>2. p \in C!Object /\ box[i].version[p] \in Nat
      BY <2>1
    <3>3. version[p] \in Nat /\ version'[p] \in Nat /\ version'[p] >= version[p]
      BY <1>2, <3>2
    <3> QED
      BY <3>1, <3>2, <3>3
  <2>3. \A p \in C!Object : sent[p] <= version'[p]
    BY <1>0, <1>2 DEF DatesInv
  <2> QED
    BY <1>0, <1>1, <2>2, <2>3 DEF DatesInv
<1> QED
  BY <1>0, <1>1, <1>2, <1>3, LatestStays, ViewStays DEF ConnectionInv, ConnectionTypes, LimitInv, C!TopicsBounded

LEMMA PresencesAreObjects ==
    ASSUME NEW has \in C!Presences
    PROVE  has \subseteq C!Object
BY DEF C!Presences, C!Object, C!Cosmetic

\* A presence waits behind all others; a full receiver loses its oldest one.
LEMMA PublishStep ==
    ASSUME ConnectionInv, NEW u \in User, NEW has \in C!Presences, C!Publish(u, has)
    PROVE  ConnectionInv'
<1>0. ConnectionTypes /\ DatesInv /\ LatestInv /\ ViewInv /\ LimitInv
  BY DEF ConnectionInv
<1> DEFINE message == [user |-> u, has |-> has, version |-> [o \in has |-> version[o]]]
           all == Append(box, message)
<1>1. /\ latest' = [latest EXCEPT ![u] = message]
      /\ UNCHANGED <<topics, version, sent, objects, told, recent, forgotten, knows, view>>
      /\ IF Len(all) > Lag
         THEN /\ box' = Tail(all)
              /\ unread' = {v \in unread \cup {box[1].user} : \A i \in DOMAIN box' : box'[i].user # v}
         ELSE box' = all /\ unread' = unread \ {u}
  BY DEF C!Publish, C!server, C!client
<1>2. has \subseteq C!Object
  BY PresencesAreObjects
<1>3. message \in Presence
  <2>1. [o \in has |-> version[o]] \in [has -> Nat]
    BY <1>0, <1>2 DEF ConnectionTypes
  <2>2. message \in [user : User, has : {has}, version : [has -> Nat]]
    BY <2>1
  <2> QED
    BY <1>2, <2>2 DEF Presence
<1>4. message.user = u /\ message.has = has /\ \A o \in has : message.version[o] = version[o]
  OBVIOUS
<1> HIDE DEF message
<1>5. /\ box \in Seq(Presence) /\ Len(box) \in Nat
      /\ version \in [C!Object -> Nat] /\ sent \in [C!Object -> Nat]
  BY <1>0 DEF ConnectionTypes
<1>6. /\ all \in Seq(Presence) /\ Len(all) = Len(box) + 1 /\ all[Len(box) + 1] = message /\ all # <<>>
      /\ \A i \in 1..Len(box) : all[i] = box[i]
  BY <1>3, <1>5
<1>7. \A i \in 1..Len(all) : i \in 1..Len(box) \/ i = Len(box) + 1
  BY <1>5, <1>6
<1> HIDE DEF all
<1>8. /\ \A i \in 1..Len(all) : \A o \in all[i].has :
           sent[o] <= all[i].version[o] /\ all[i].version[o] <= version[o]
      /\ \A i, j \in 1..Len(all) : i < j =>
           \A o \in all[i].has \cap all[j].has : all[i].version[o] <= all[j].version[o]
  <2>1. \A i \in 1..Len(box) : \A o \in box[i].has : o \in C!Object /\ box[i].version[o] \in Nat
    BY <1>5, PresenceType
  <2>2. ASSUME NEW i \in 1..Len(all), NEW o \in all[i].has
        PROVE  sent[o] <= all[i].version[o] /\ all[i].version[o] <= version[o]
    <3>1. CASE i \in 1..Len(box)
      BY <1>0, <1>6, <2>2, <3>1 DEF DatesInv
    <3>2. CASE i = Len(box) + 1
      BY <1>0, <1>2, <1>4, <1>5, <1>6, <2>2, <3>2 DEF DatesInv
    <3> QED
      BY <1>7, <3>1, <3>2
  <2>3. ASSUME NEW i \in 1..Len(all), NEW j \in 1..Len(all), i < j, NEW o \in all[i].has \cap all[j].has
        PROVE  all[i].version[o] <= all[j].version[o]
    <3>0. i \in 1..Len(box)
      BY <1>5, <1>6, <2>3
    <3>1. CASE j \in 1..Len(box)
      BY <1>0, <1>6, <2>3, <3>0, <3>1 DEF DatesInv
    <3>2. CASE j = Len(box) + 1
      <4>1. all[j].version[o] = version[o]
        BY <1>4, <1>6, <2>3, <3>2
      <4> QED
        BY <2>2, <4>1
    <3> QED
      BY <1>7, <3>1, <3>2
  <2> QED
    BY <2>2, <2>3
<1>9. \A v \in User : latest'[v] = IF v = u THEN message ELSE latest[v]
  BY <1>0, <1>1 DEF ConnectionTypes
<1>10. /\ latest' = [v \in User |-> latest'[v]]
       /\ \A v \in User : /\ latest'[v].has \subseteq C!Object
                          /\ \A o \in latest'[v].has : latest'[v].version[o] \in Nat
  <2>1. latest' = [v \in User |-> latest'[v]]
    BY <1>0, <1>1 DEF ConnectionTypes
  <2>2. \A o \in message.has : message.version[o] \in Nat
    BY <1>2, <1>4, <1>5
  <2> QED
    BY <1>0, <1>2, <1>4, <1>9, <2>1, <2>2 DEF ConnectionTypes
<1>11. ASSUME NEW v \in User
       PROVE  /\ v = u => LastIs(all, v, message) /\ Waits(all, v)
              /\ v # u => /\ LastIs(box, v, latest[v]) => LastIs(all, v, latest[v])
                          /\ Waits(all, v) <=> Waits(box, v)
  BY <1>3, <1>4, <1>5, AppendedLast DEF all
<1>12. ASSUME NEW v \in User, v # u, Handled(v) PROVE Handled(v)'
  BY <1>1, <1>9, <1>12 DEF Handled
<1>13. CASE Len(all) > Lag
  <2>1. /\ box' = Tail(all)
        /\ unread' = {v \in unread \cup {box[1].user} : \A i \in DOMAIN box' : box'[i].user # v}
    BY <1>1, <1>13
  <2>2. Len(box) >= 1 /\ box[1] = all[1] /\ box[1].user \in User
    <3>1. Len(box) >= 1
      BY <1>5, <1>6, <1>13, ConnectionAssumption
    <3>2. 1 \in 1..Len(box)
      BY <1>5, <3>1
    <3> QED
      BY <1>5, <1>6, <3>1, <3>2, PresenceType
  <2>3. /\ box' \in Seq(Presence) /\ Len(box') = Len(all) - 1
        /\ \A i \in 1..Len(box') : box'[i] = all[i + 1] /\ i + 1 \in 1..Len(all)
    BY <1>5, <1>6, <2>1, Taken
  <2>4. unread' = {v \in unread \cup {box[1].user} : ~Waits(box', v)}
    <3>1. DOMAIN box' = 1..Len(box')
      BY <2>3
    <3>2. \A v : (\A i \in DOMAIN box' : box'[i].user # v) <=> ~Waits(box', v)
      BY <3>1 DEF Waits
    <3> QED
      BY <2>1, <3>2
  <2>5. DatesInv'
    <3>1. \A i \in 1..Len(box') : \A o \in box'[i].has :
             sent[o] <= box'[i].version[o] /\ box'[i].version[o] <= version[o]
      BY <1>8, <2>3
    <3>2. \A i, j \in 1..Len(box') : i < j =>
             \A o \in box'[i].has \cap box'[j].has : box'[i].version[o] <= box'[j].version[o]
      <4> SUFFICES ASSUME NEW i \in 1..Len(box'), NEW j \in 1..Len(box'), i < j,
                          NEW o \in box'[i].has \cap box'[j].has
                   PROVE  box'[i].version[o] <= box'[j].version[o]
        OBVIOUS
      <4>1. i + 1 \in 1..Len(all) /\ j + 1 \in 1..Len(all) /\ box'[i] = all[i + 1] /\ box'[j] = all[j + 1]
        BY <2>3
      <4>2. i + 1 < j + 1
        OBVIOUS
      <4> QED
        BY <1>8, <4>1, <4>2
    <3> QED
      BY <1>0, <1>1, <3>1, <3>2 DEF DatesInv
  <2>6. LatestInv'
    <3> SUFFICES ASSUME NEW v \in User PROVE LatestOf(v)'
      BY DEF LatestInv
    <3>1. v \in unread' => ~Waits(box', v)
      BY <2>4
    <3>2. ASSUME v = u PROVE v \notin unread' /\ LastIs(box', v, message) /\ Waits(box', v)
      <4>1. Len(box) \in 1..Len(box') /\ box'[Len(box)] = message
        BY <1>5, <1>6, <2>2, <2>3
      <4>2. Waits(box', v)
        BY <1>4, <3>2, <4>1 DEF Waits
      <4>3. LastIs(box', v, message)
        BY <1>6, <1>11, <2>1, <3>2, TakenLast
      <4> QED
        BY <3>1, <4>2, <4>3
    <3>3. ASSUME v # u, v \notin unread' PROVE LastIs(box', v, latest[v]) /\ (~Waits(box', v) => Handled(v))
      <4>1. Waits(box', v) => Waits(box, v)
        <5>1. ASSUME Waits(box', v) PROVE Waits(all, v)
          BY <2>3, <5>1 DEF Waits
        <5> QED
          BY <1>11, <3>3, <5>1
      <4>2. CASE v \notin unread
        <5>1. LastIs(all, v, latest[v])
          BY <1>0, <1>11, <3>3, <4>2 DEF LatestInv, LatestOf
        <5>2. LastIs(box', v, latest[v]) /\ (all[1].user # v /\ Waits(all, v) => Waits(box', v))
          BY <1>6, <2>1, <5>1, TakenLast
        <5>3. ASSUME ~Waits(box', v) PROVE ~Waits(box, v)
          BY <1>11, <2>2, <2>4, <3>3, <5>2, <5>3
        <5> QED
          BY <1>0, <4>2, <5>2, <5>3 DEF LatestInv, LatestOf
      <4>3. CASE v \in unread
        <5>1. Waits(box', v) /\ ~Waits(box, v)
          BY <1>0, <2>4, <3>3, <4>3 DEF LatestInv, LatestOf
        <5> QED
          BY <4>1, <5>1
      <4> QED
        BY <4>2, <4>3
    <3> QED
      BY <1>9, <1>12, <3>1, <3>2, <3>3 DEF LatestOf
  <2>7. unread' \subseteq User
    BY <1>0, <2>2, <2>4 DEF ConnectionTypes
  <2> QED
    BY <1>0, <1>1, <1>10, <2>3, <2>5, <2>6, <2>7, ViewStays
       DEF ConnectionInv, ConnectionTypes, LimitInv, C!TopicsBounded
<1>14. CASE ~(Len(all) > Lag)
  <2>1. box' = all /\ unread' = unread \ {u}
    BY <1>1, <1>14
  <2>2. DatesInv'
    BY <1>0, <1>1, <1>8, <2>1 DEF DatesInv
  <2>3. LatestInv'
    <3> SUFFICES ASSUME NEW v \in User PROVE LatestOf(v)'
      BY DEF LatestInv
    <3>1. CASE v = u
      BY <1>9, <1>11, <2>1, <3>1 DEF LatestOf
    <3>2. CASE v # u
      <4>1. LatestOf(v)
        BY <1>0 DEF LatestInv
      <4> QED
        BY <1>9, <1>11, <1>12, <2>1, <3>2, <4>1 DEF LatestOf
    <3> QED
      BY <3>1, <3>2
  <2> QED
    BY <1>0, <1>1, <1>6, <1>10, <2>1, <2>2, <2>3, ViewStays
       DEF ConnectionInv, ConnectionTypes, LimitInv, C!TopicsBounded
<1> QED
  BY <1>13, <1>14

\* What the client shows after the difference to what it was told.
LEMMA Difference ==
    ASSUME NEW seen, NEW cosmetics, NEW has, NEW old, old \subseteq seen
    PROVE  LET now == (seen \ (old \ has)) \cup (has \ old)
           IN  /\ has \subseteq now
               /\ seen \cap cosmetics = old => now \cap cosmetics = has \cap cosmetics
OBVIOUS

\* The oldest presence is handled: the objects of it are as new as it says, its user
\* is shown with it, and whoever falls out of the cache for it is forgotten.
LEMMA HandleStep ==
    ASSUME ConnectionInv, C!HandlePresence
    PROVE  ConnectionInv'
<1>0. ConnectionTypes /\ DatesInv /\ LatestInv /\ ViewInv /\ LimitInv
  BY DEF ConnectionInv
<1> DEFINE m == box[1]
<1>1. box \in Seq(Presence) /\ box # <<>> /\ box' = Tail(box)
  BY <1>0 DEF C!HandlePresence, ConnectionTypes
<1>2. /\ Len(box) \in Nat /\ Len(box) >= 1 /\ m \in Presence /\ Head(box) = m
      /\ box' \in Seq(Presence) /\ Len(box') = Len(box) - 1
      /\ \A i \in 1..(Len(box) - 1) : box'[i] = box[i + 1]
  BY <1>1, Taken
<1> HIDE DEF m
<1>3. /\ UNCHANGED <<topics, version, latest, unread>>
      /\ C!SendObjects(m)
      /\ C!SendDifference(m) \/ C!SendNothing(m)
      /\ forgotten' = forgotten \cup (C!ToSet(recent) \ (C!ToSet(recent') \cup {m.user}))
  BY <1>2 DEF C!HandlePresence, C!world
<1>4. m.user \in User /\ m.has \subseteq C!Object /\ m.version \in [m.has -> Nat]
  BY <1>2, PresenceType
<1>5. /\ sent \in [C!Object -> Nat] /\ version \in [C!Object -> Nat] /\ knows = sent
      /\ told \in [User -> SUBSET C!Cosmetic] /\ view \in [User -> SUBSET C!Object]
      /\ recent \in Keys(User)
  BY <1>0 DEF ConnectionTypes
<1>6. /\ sent' \in [C!Object -> Nat]
      /\ \A o \in C!Object : sent'[o] = IF o \in m.has THEN m.version[o] ELSE sent[o]
  BY <1>3, <1>4, <1>5 DEF C!SendObjects
<1>7. \A o \in C!Object : sent'[o] >= sent[o] /\ sent'[o] <= version[o]
  <2>1. 1 \in 1..Len(box)
    BY <1>2
  <2>2. \A o \in m.has : sent[o] <= m.version[o] /\ m.version[o] <= version[o]
    BY <1>0, <2>1 DEF DatesInv, m
  <2> QED
    BY <1>0, <1>4, <1>5, <1>6, <2>2 DEF DatesInv
<1>8. knows' = sent'
  <2>1. knows' = [o \in C!Object |-> IF o \in C!New(m) THEN m.version[o] ELSE knows[o]]
    BY <1>3 DEF C!SendObjects
  <2>2. ASSUME NEW o \in C!Object PROVE knows'[o] = sent'[o]
    <3>1. CASE o \in C!New(m)
      BY <1>6, <2>1, <3>1 DEF C!New
    <3>2. CASE o \notin C!New(m)
      <4>1. o \in m.has => sent[o] = m.version[o]
        BY <3>2 DEF C!New
      <4> QED
        BY <1>5, <1>6, <2>1, <3>2, <4>1
    <3> QED
      BY <3>1, <3>2
  <2> QED
    BY <1>6, <2>1, <2>2
<1>9. DatesInv'
  <2>1. ASSUME NEW i \in 1..Len(box')
        PROVE  i + 1 \in 1..Len(box) /\ i \in Int /\ box'[i] = box[i + 1] /\ box[i + 1] \in Presence
    BY <1>1, <1>2
  <2>2. ASSUME NEW i \in 1..Len(box'), NEW o \in box'[i].has
        PROVE  sent'[o] <= box'[i].version[o] /\ box'[i].version[o] <= version[o]
    <3>1. sent[o] <= box[i + 1].version[o] /\ box[i + 1].version[o] <= version[o]
      BY <1>0, <2>1, <2>2 DEF DatesInv
    <3>2. o \in C!Object
      BY <2>1, <2>2, PresenceType
    <3>3. CASE o \in m.has
      <4>1. 1 \in 1..Len(box) /\ 1 < i + 1
        BY <1>2, <2>1
      <4>2. m.version[o] <= box[i + 1].version[o]
        BY <1>0, <2>1, <2>2, <3>3, <4>1 DEF DatesInv, m
      <4> QED
        BY <1>6, <2>1, <3>1, <3>2, <3>3, <4>2
    <3>4. CASE o \notin m.has
      BY <1>6, <2>1, <3>1, <3>2, <3>4
    <3> QED
      BY <3>3, <3>4
  <2>3. ASSUME NEW i \in 1..Len(box'), NEW j \in 1..Len(box'), i < j, NEW o \in box'[i].has \cap box'[j].has
        PROVE  box'[i].version[o] <= box'[j].version[o]
    <3>1. i + 1 < j + 1
      BY <2>1, <2>3
    <3> QED
      BY <1>0, <2>1, <2>3, <3>1 DEF DatesInv
  <2> QED
    BY <1>3, <1>7, <2>2, <2>3 DEF DatesInv
<1> DEFINE old == C!Remembered(m.user)
<1>10. \A v : C!Contains(recent, v) <=> v \in C!ToSet(recent)
  BY <1>5 DEF Keys, C!Contains, C!ToSet
<1>11. /\ recent' \in Keys(User)
       /\ C!ToSet(recent') \subseteq C!ToSet(recent) \cup {m.user}
       /\ m.has # {} => m.user \in C!ToSet(recent')
       /\ m.has = {} => m.user \notin C!ToSet(recent')
  <2>1. CASE C!SendDifference(m)
    BY <1>4, <1>5, <2>1, Put, ConnectionAssumption DEF C!SendDifference
  <2>2. CASE C!SendNothing(m)
    BY <1>4, <1>5, <2>2, Popped DEF C!SendNothing
  <2> QED
    BY <1>3, <2>1, <2>2
<1>12. \A v : C!Contains(recent', v) <=> v \in C!ToSet(recent')
  BY <1>11 DEF Keys, C!Contains, C!ToSet
<1>13. C!ToSet(recent) \subseteq User
  BY <1>5 DEF Keys, C!ToSet
<1>14. forgotten' \subseteq User /\ forgotten \subseteq forgotten'
  BY <1>0, <1>3, <1>13 DEF ConnectionTypes
<1>15. old \subseteq C!Cosmetic
  BY <1>4, <1>5 DEF C!Remembered
<1>16. C!Cosmetic \subseteq C!Object
  BY DEF C!Object
<1>17. /\ told' \in [User -> SUBSET C!Cosmetic]
       /\ m.has # {} => told'[m.user] = m.has \cap C!Cosmetic
       /\ \A v \in User \ {m.user} : told'[v] = told[v]
  <2>1. CASE C!SendDifference(m)
    BY <1>4, <1>5, <2>1 DEF C!SendDifference
  <2>2. CASE C!SendNothing(m)
    BY <1>4, <1>5, <2>2 DEF C!SendNothing
  <2> QED
    BY <1>3, <2>1, <2>2
<1>18. /\ view' \in [User -> SUBSET C!Object]
       /\ view'[m.user] = (view[m.user] \ (old \ m.has)) \cup (m.has \ old)
       /\ \A v \in User \ {m.user} : view'[v] = view[v]
  <2> HIDE DEF old
  <2>1. CASE C!SendDifference(m)
    <3>1. view' = [view EXCEPT ![m.user] = (@ \ (old \ m.has)) \cup (m.has \ old)]
      BY <2>1 DEF C!SendDifference, old
    <3>2. (view[m.user] \ (old \ m.has)) \cup (m.has \ old) \subseteq C!Object
      BY <1>4, <1>5
    <3> QED
      BY <1>4, <1>5, <3>1, <3>2
  <2>2. CASE C!SendNothing(m)
    <3>1. view' = [view EXCEPT ![m.user] = @ \ old] /\ m.has = {}
      BY <2>2 DEF C!SendNothing, old
    <3>2. view[m.user] \ old = (view[m.user] \ (old \ m.has)) \cup (m.has \ old)
      BY <3>1
    <3> QED
      BY <1>4, <1>5, <3>1, <3>2
  <2> QED
    BY <1>3, <2>1, <2>2
<1>19. /\ m.has \subseteq view'[m.user]
       /\ m.user \notin forgotten => view'[m.user] \cap C!Cosmetic = m.has \cap C!Cosmetic
  <2>1. old \subseteq view[m.user] /\ (m.user \notin forgotten => view[m.user] \cap C!Cosmetic = old)
    BY <1>0, <1>4 DEF ViewInv, ViewOf
  <2> HIDE DEF old
  <2> QED
    BY <1>18, <2>1, Difference
<1>20. ViewInv'
  <2> SUFFICES ASSUME NEW v \in User PROVE ViewOf(v)'
    BY DEF ViewInv
  <2>1. C!Remembered(v) = IF v \in C!ToSet(recent) THEN told[v] ELSE {}
    BY <1>10 DEF C!Remembered
  <2>2. C!Remembered(v)' = IF v \in C!ToSet(recent') THEN told'[v] ELSE {}
    BY <1>12 DEF C!Remembered
  <2>3. v \notin forgotten' => v \notin forgotten
    BY <1>14
  <2>4. ViewOf(v)
    BY <1>0 DEF ViewInv
  <2>5. CASE v = m.user
    BY <1>11, <1>17, <1>19, <2>2, <2>3, <2>5 DEF ViewOf
  <2>6. CASE v # m.user
    <3>1. v \in C!ToSet(recent') => v \in C!ToSet(recent)
      BY <1>11, <2>6
    <3>2. v \notin forgotten' => (v \in C!ToSet(recent) <=> v \in C!ToSet(recent'))
      BY <1>3, <1>11, <2>6
    <3>3. told'[v] = told[v] /\ view'[v] = view[v]
      BY <1>17, <1>18, <2>6
    <3> QED
      BY <2>1, <2>2, <2>3, <2>4, <3>1, <3>2, <3>3 DEF ViewOf
  <2> QED
    BY <2>5, <2>6
<1>21. LatestInv'
  <2> SUFFICES ASSUME NEW v \in User PROVE LatestOf(v)'
    BY DEF LatestInv
  <2>1. LatestOf(v)
    BY <1>0 DEF LatestInv
  <2>2. Waits(box', v) => Waits(box, v)
    <3>1. ASSUME NEW i \in 1..Len(box') PROVE i + 1 \in 1..Len(box) /\ box'[i] = box[i + 1]
      BY <1>2
    <3> QED
      BY <3>1 DEF Waits
  <2>3. CASE v \in unread
    BY <1>3, <2>1, <2>2, <2>3 DEF LatestOf
  <2>4. CASE v \notin unread
    <3>1. LastIs(box, v, latest[v])
      BY <2>1, <2>4 DEF LatestOf
    <3>2. /\ LastIs(box', v, latest[v])
          /\ m.user # v /\ Waits(box, v) => Waits(box', v)
          /\ m.user = v /\ ~Waits(box', v) => m = latest[v]
      BY <1>1, <3>1, TakenLast DEF m
    <3>3. ASSUME ~Waits(box', v) PROVE Handled(v)'
      <4>1. CASE v = m.user
        <5>1. latest'[v] = m
          BY <1>3, <3>2, <3>3, <4>1
        <5>2. \A o \in m.has : sent'[o] = m.version[o] /\ sent'[o] \in Nat
          BY <1>4, <1>6
        <5>3. \A o \in m.has : sent'[o] >= m.version[o]
          BY <5>2
        <5> QED
          BY <1>14, <1>19, <4>1, <5>1, <5>3 DEF Handled
      <4>2. CASE v # m.user
        <5>1. Handled(v)
          BY <2>1, <2>4, <3>2, <3>3, <4>2 DEF LatestOf
        <5>2. \A o \in latest[v].has : o \in C!Object /\ latest[v].version[o] \in Nat
          BY <1>0 DEF ConnectionTypes
        <5>3. \A o \in latest[v].has : sent'[o] >= latest[v].version[o]
          BY <1>5, <1>6, <1>7, <5>1, <5>2 DEF Handled
        <5>4. view'[v] = view[v]
          BY <1>18, <4>2
        <5> QED
          BY <1>3, <1>14, <5>1, <5>3, <5>4 DEF Handled
      <4> QED
        BY <4>1, <4>2
    <3> QED
      BY <1>3, <2>4, <3>2, <3>3 DEF LatestOf
  <2> QED
    BY <2>3, <2>4
<1>22. ConnectionTypes'
  BY <1>0, <1>2, <1>3, <1>6, <1>8, <1>11, <1>14, <1>17, <1>18 DEF ConnectionTypes
<1>23. LimitInv'
  BY <1>0, <1>3 DEF LimitInv, C!TopicsBounded
<1> QED
  BY <1>9, <1>20, <1>21, <1>22, <1>23 DEF ConnectionInv

\* What the invariant speaks of.
followed == <<topics, box, version, latest, unread, sent, told, recent, forgotten, knows, view>>

LEMMA ConnectionStays ==
    ASSUME ConnectionInv, UNCHANGED followed
    PROVE  ConnectionInv'
<1>1. UNCHANGED <<topics, box, version, latest, unread, sent, told, recent, forgotten, knows, view>>
  BY DEF followed
<1> QED
  BY <1>1, DatesStay, LatestStays, ViewStays
     DEF ConnectionInv, ConnectionTypes, LimitInv, C!TopicsBounded

LEMMA ConnectionKeeps ==
    ASSUME ConnectionInv, [C!Next]_(C!vars)
    PROVE  ConnectionInv'
<1>1. ASSUME C!Close PROVE ConnectionInv'
  BY <1>1, ConnectionStays DEF C!Close, C!world, C!server, C!client, followed
<1>2. CASE \E t \in Topic, channel \in BOOLEAN : C!Subscribe(t, channel)
  BY <1>2, SubscribeStep
<1>3. CASE C!SubscribeRefused \/ C!Ends
  BY <1>1, <1>3 DEF C!SubscribeRefused, C!Ends
<1>4. CASE C!HandlePresence
  BY <1>4, HandleStep
<1>5. CASE \E gone \in SUBSET topics : C!Unsubscribe(gone)
  BY <1>5, UnsubscribeStep
<1>6. CASE \E o \in C!Object : C!ObjectChanges(o)
  BY <1>6, ObjectStep
<1>7. CASE \E u \in User, has \in C!Presences : C!Publish(u, has)
  BY <1>7, PublishStep
<1>8. CASE UNCHANGED C!vars
  BY <1>8, ConnectionStays DEF C!vars, C!world, C!server, C!client, followed
<1> QED
  BY <1>2, <1>3, <1>4, <1>5, <1>6, <1>7, <1>8 DEF C!Next

\* A client that has read everything shows what the last presences it was not robbed of
\* said, and no other badge or paint unless the server once forgot the user; that its
\* personal emote sets are taken back is not claimed.  There are no more topics than
\* the limit and one (handle_presence, handle_subscription).
THEOREM ConnectionAlwaysHolds == C!Spec => []ConnectionHolds
<1>1. ConnectionInv => ConnectionHolds
  <2> SUFFICES ASSUME ConnectionInv PROVE C!ClientFollows /\ C!TopicsBounded
    BY DEF ConnectionHolds
  <2>0. ConnectionTypes /\ LatestInv /\ LimitInv
    BY DEF ConnectionInv
  <2>1. C!TopicsBounded
    BY <2>0 DEF LimitInv
  <2>2. ASSUME box = <<>>, NEW u \in User \ unread PROVE Handled(u)
    <3>1. ~Waits(box, u)
      BY <2>2 DEF Waits
    <3> QED
      BY <2>0, <2>2, <3>1 DEF LatestInv, LatestOf
  <2>3. C!ClientFollows
    BY <2>0, <2>2 DEF C!ClientFollows, Handled, ConnectionTypes
  <2> QED
    BY <2>1, <2>3
<1> QED
  BY <1>1, ConnectionInit, ConnectionKeeps, PTL DEF C!Spec

\* The behaviours of the run are behaviours of the index and of the connection.
THEOREM FeedsRunIsEachPart == MCSpec => Spec /\ C!Spec
<1>1. MCInit => Init /\ C!Init
  BY DEF MCInit
<1>2. [IndexNext \/ ConnectionNext]_<<part, vars, connection>> => [Next]_vars /\ [C!Next]_(C!vars)
  BY DEF IndexNext, ConnectionNext, connection, C!vars, C!world, C!server, C!client
<1> QED
  BY <1>1, <1>2, PTL DEF MCSpec, Spec, C!Spec

=============================================================================
