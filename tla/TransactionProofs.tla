------------------------- MODULE TransactionProofs -------------------------
(***************************************************************************)
(* Proofs about Transaction, for any calls, inside the mutex or not, and   *)
(* any number of retries.                                                  *)
(***************************************************************************)
EXTENDS Transaction, TLAPS

\* A call's writes are durable exactly when its transaction has committed, and
\* the closure only runs while no commit of the call is outstanding.
CommitInv ==
    \A c \in Client :
        /\ Committed(c) <=> srv[c] = "committed"
        /\ pc[c] \in {"idle", "begin", "read", "write"} =>
               srv[c] \in {"none", "open", "aborted"}
        /\ pc[c] \in {"read", "write"} => driver[c] = "active"
        /\ (pc[c] \in {"store", "commit"} /\ driver[c] = "active") => srv[c] = "dirty"
        /\ (pc[c] \in {"store", "commit"} /\ driver[c] = "committed") =>
               srv[c] \in {"doubt", "committed", "aborted"}
        /\ pc[c] = "committing" =>
               driver[c] = "committed" /\ srv[c] \in {"doubt", "committed", "aborted"}
        /\ pc[c] = "publish" \/ outcome[c] = "ok" => srv[c] = "committed"

\* Where the event document of a call is while its fate is open.
StoreOf(c) ==
    /\ pc[c] \in {"idle", "begin", "read", "write"} => stored[c] = 0
    /\ (pc[c] = "store" /\ driver[c] = "active")
           => srv[c] = "dirty" /\ stored[c] = 0
    /\ (pc[c] = "commit" /\ driver[c] # "none")
           => srv[c] = "dirty" /\ stored[c] = 0 /\ c \in staged
    /\ pc[c] = "committing" =>
           \/ srv[c] = "doubt" /\ stored[c] = 0 /\ c \in staged
           \/ srv[c] = "committed" /\ stored[c] = 1
           \/ srv[c] = "aborted" /\ stored[c] = 0
    /\ pc[c] = "publish" => stored[c] = 1
    /\ outcome[c] = "ok" => pc[c] = "ended" /\ stored[c] = 1 /\ Published(c)
    /\ pc[c] # "ended" => outcome[c] = "none"
    /\ srv[c] = "committed" => c \notin staged

StoreInv == \A c \in HasEvents : StoreOf(c)

-----------------------------------------------------------------------------

\* Every variable keeps its type.
THEOREM TypeCorrect == Spec => []TypeOK
<1>1. Init => TypeOK
  BY ConstAssumption DEF Init, TypeOK
<1>2. TypeOK /\ [Next]_vars => TypeOK'
  <2> SUFFICES ASSUME TypeOK, [Next]_vars PROVE TypeOK'
    OBVIOUS
  <2> USE ConstAssumption DEF TypeOK, server
  <2>1. ASSUME NEW c \in Client, Enter(c) PROVE TypeOK'
    BY <2>1 DEF Enter, Goto
  <2>2. ASSUME NEW c \in Client, Release(c) PROVE TypeOK'
    BY <2>2 DEF Release
  <2>3. ASSUME NEW c \in Client, Begin(c) PROVE TypeOK'
    BY <2>3 DEF Begin, Goto
  <2>4. ASSUME NEW c \in Client, TooManyFailures(c) PROVE TypeOK'
    BY <2>4 DEF TooManyFailures, Return, Goto
  <2>5. ASSUME NEW c \in Client, Read(c) PROVE TypeOK'
    BY <2>5 DEF Read, Goto
  <2>6. ASSUME NEW c \in Client, Write(c) PROVE TypeOK'
    BY <2>6 DEF Write, Goto
  <2>7. ASSUME NEW c \in Client, Transient(c) PROVE TypeOK'
    BY <2>7 DEF Transient, Goto
  <2>8. ASSUME NEW c \in Client, OperationFails(c) PROVE TypeOK'
    BY <2>8 DEF OperationFails, Return, Goto
  <2>9. ASSUME NEW c \in Client, StoreEvents(c) PROVE TypeOK'
    <3>1. stored' \in [Client -> Nat] /\ driver' \in [Client -> {"none", "active", "committed"}]
      <4>1. CASE c \notin HasEvents
        BY <2>9, <4>1 DEF StoreEvents
      <4>2. CASE c \in HasEvents /\ driver[c] = "active"
        BY <2>9, <4>2 DEF StoreEvents
      <4>3. CASE c \in HasEvents /\ driver[c] # "active"
        <5>1. /\ stored' = [stored EXCEPT ![c] = stored[c] + 1]
              /\ driver' = [driver EXCEPT ![c] = "none"]
          BY <2>9, <4>3 DEF StoreEvents
        <5>2. stored[c] + 1 \in Nat
          BY <2>9
        <5>3. QED
          BY <5>1, <5>2
      <4>4. QED
        BY <4>1, <4>2, <4>3
    <3>2. staged' \subseteq HasEvents /\ UNCHANGED <<section, tries, srv, snap, commits, feed, unsure, outcome>>
      BY <2>9 DEF StoreEvents
    <3>3. QED
      BY <2>9, <3>1, <3>2 DEF StoreEvents, Goto
  <2>10. ASSUME NEW c \in Client, StoreFails(c) PROVE TypeOK'
    BY <2>10 DEF StoreFails, Return, Goto
  <2>11. ASSUME NEW c \in Client, SendCommit(c) PROVE TypeOK'
    BY <2>11 DEF SendCommit, Goto
  <2>12. ASSUME NEW c \in Client, NothingToCommit(c) PROVE TypeOK'
    BY <2>12 DEF NothingToCommit, Return, Goto
  <2>13. ASSUME NEW c \in Client, CommitOk(c) PROVE TypeOK'
    BY <2>13 DEF CommitOk, Goto
  <2>14. ASSUME NEW c \in Client, CommitUnknown(c) PROVE TypeOK'
    BY <2>14 DEF CommitUnknown, Goto
  <2>15. ASSUME NEW c \in Client, CommitAborted(c) PROVE TypeOK'
    BY <2>15 DEF CommitAborted, Return, Goto
  <2>16. ASSUME NEW c \in Client, Publish(c) PROVE TypeOK'
    <3>1. feed' \in Seq(Client)
      <4>1. Append(feed, c) \in Seq(Client)
        BY <2>16
      <4>2. feed' = feed \/ feed' = Append(feed, c)
        BY <2>16 DEF Publish
      <4>3. QED
        BY <4>1, <4>2
    <3>2. QED
      BY <2>16, <3>1 DEF Publish, Return, Goto
  <2>17. ASSUME NEW c \in Client, Drop(c) PROVE TypeOK'
    BY <2>17 DEF Drop, Return, Goto
  <2>18. ASSUME NEW c \in Client, Land(c) PROVE TypeOK'
    BY <2>18 DEF Land
  <2>19. ASSUME NEW c \in Client, ServerAborts(c) PROVE TypeOK'
    BY <2>19 DEF ServerAborts
  <2>20. CASE UNCHANGED vars
    BY <2>20 DEF vars
  <2>21. QED
    BY <2>1, <2>2, <2>3, <2>4, <2>5, <2>6, <2>7, <2>8, <2>9, <2>10, <2>11,
       <2>12, <2>13, <2>14, <2>15, <2>16, <2>17, <2>18, <2>19, <2>20 DEF
       Next, Call, Server
<1>3. QED
  BY <1>1, <1>2, PTL DEF Spec

-----------------------------------------------------------------------------

\* A commit that lands appends the call to the durable changes and keeps the rest.
LEMMA LandAppends ==
  ASSUME TypeOK, NEW c \in Client, Land(c)
  PROVE  /\ \A d \in Client : Committed(d)' <=> Committed(d) \/ d = c
         /\ Len(commits') = Len(commits) + 1
         /\ commits'[Len(commits) + 1] = c
         /\ \A i \in 1..Len(commits) : commits'[i] = commits[i]
<1>1. /\ Len(commits') = Len(commits) + 1
      /\ commits'[Len(commits) + 1] = c
      /\ \A i \in 1..Len(commits) : commits'[i] = commits[i]
  BY DEF TypeOK, Land
<1>2. ASSUME NEW d \in Client PROVE Committed(d)' <=> Committed(d) \/ d = c
  <2> Len(commits) \in Nat
    BY DEF TypeOK
  <2>1. Committed(d)' <=> \E i \in 1..(Len(commits) + 1) : commits'[i] = d
    BY <1>1 DEF Committed
  <2>2. 1..(Len(commits) + 1) = (1..Len(commits)) \cup {Len(commits) + 1}
    OBVIOUS
  <2>3. QED
    BY <1>1, <2>1, <2>2 DEF Committed
<1>3. QED
  BY <1>1, <1>2

LEMMA CommittedKept ==
  ASSUME commits' = commits
  PROVE  \A d : Committed(d)' <=> Committed(d)
BY DEF Committed

\* One step keeps the commit invariant.
LEMMA CommitStep ==
  ASSUME TypeOK, CommitInv, [Next]_vars
  PROVE  CommitInv'
<1> USE ConstAssumption DEF TypeOK, server, CommitInv
<1>1. ASSUME NEW c \in Client, Enter(c) PROVE CommitInv'
  BY <1>1, CommittedKept DEF Enter, Goto
<1>2. ASSUME NEW c \in Client, Release(c) PROVE CommitInv'
  BY <1>2, CommittedKept DEF Release
<1>3. ASSUME NEW c \in Client, Begin(c) PROVE CommitInv'
  BY <1>3, CommittedKept DEF Begin, Goto
<1>4. ASSUME NEW c \in Client, TooManyFailures(c) PROVE CommitInv'
  BY <1>4, CommittedKept DEF TooManyFailures, Return, Goto
<1>5. ASSUME NEW c \in Client, Read(c) PROVE CommitInv'
  BY <1>5, CommittedKept DEF Read, Goto
<1>6. ASSUME NEW c \in Client, Write(c) PROVE CommitInv'
  BY <1>6, CommittedKept DEF Write, Goto
<1>7. ASSUME NEW c \in Client, Transient(c) PROVE CommitInv'
  BY <1>7, CommittedKept DEF Transient, Goto
<1>8. ASSUME NEW c \in Client, OperationFails(c) PROVE CommitInv'
  BY <1>8, CommittedKept DEF OperationFails, Return, Goto
<1>9. ASSUME NEW c \in Client, StoreEvents(c) PROVE CommitInv'
  BY <1>9, CommittedKept DEF StoreEvents, Goto
<1>10. ASSUME NEW c \in Client, StoreFails(c) PROVE CommitInv'
  BY <1>10, CommittedKept DEF StoreFails, Return, Goto
<1>11. ASSUME NEW c \in Client, SendCommit(c) PROVE CommitInv'
  BY <1>11, CommittedKept DEF SendCommit, Goto
<1>12. ASSUME NEW c \in Client, NothingToCommit(c) PROVE CommitInv'
  BY <1>12, CommittedKept DEF NothingToCommit, Return, Goto
<1>13. ASSUME NEW c \in Client, CommitOk(c) PROVE CommitInv'
  BY <1>13, CommittedKept DEF CommitOk, Goto
<1>14. ASSUME NEW c \in Client, CommitUnknown(c) PROVE CommitInv'
  BY <1>14, CommittedKept DEF CommitUnknown, Goto
<1>15. ASSUME NEW c \in Client, CommitAborted(c) PROVE CommitInv'
  BY <1>15, CommittedKept DEF CommitAborted, Return, Goto
<1>16. ASSUME NEW c \in Client, Publish(c) PROVE CommitInv'
  BY <1>16, CommittedKept DEF Publish, Return, Goto
<1>17. ASSUME NEW c \in Client, Drop(c) PROVE CommitInv'
  BY <1>17, CommittedKept DEF Drop, Return, Goto
<1>18. ASSUME NEW c \in Client, Land(c) PROVE CommitInv'
  <2>1. \A d \in Client : Committed(d)' <=> Committed(d) \/ d = c
    BY <1>18, LandAppends
  <2>2. QED
    BY <1>18, <2>1 DEF Land
<1>19. ASSUME NEW c \in Client, ServerAborts(c) PROVE CommitInv'
  BY <1>19, CommittedKept DEF ServerAborts
<1>20. CASE UNCHANGED vars
  BY <1>20, CommittedKept DEF vars
<1>21. QED
  BY <1>1, <1>2, <1>3, <1>4, <1>5, <1>6, <1>7, <1>8, <1>9, <1>10, <1>11,
     <1>12, <1>13, <1>14, <1>15, <1>16, <1>17, <1>18, <1>19, <1>20 DEF Next,
     Call, Server

\* A call's writes take effect at most once, whatever is retried.
THEOREM AppliedAtMostOnce == Spec => []AppliedOnce
<1>1. Init => CommitInv /\ AppliedOnce
  BY DEF Init, CommitInv, AppliedOnce, Committed
<1>2. TypeOK /\ CommitInv /\ AppliedOnce /\ [Next]_vars => (CommitInv /\ AppliedOnce)'
  <2> SUFFICES ASSUME TypeOK, CommitInv, AppliedOnce, [Next]_vars
               PROVE  AppliedOnce'
    BY CommitStep
  <2>1. ASSUME NEW c \in Client, Land(c) PROVE AppliedOnce'
    <3>1. ~Committed(c)
      BY <2>1 DEF Land, CommitInv
    <3>2. Len(commits) \in Nat
      BY DEF TypeOK
    <3>3. /\ Len(commits') = Len(commits) + 1
          /\ commits'[Len(commits) + 1] = c
          /\ \A i \in 1..Len(commits) : commits'[i] = commits[i]
      BY <2>1, LandAppends
    <3>4. QED
      BY <3>1, <3>2, <3>3 DEF AppliedOnce, Committed
  <2>2. CASE UNCHANGED commits
    BY <2>2 DEF AppliedOnce
  <2>3. QED
    BY <2>1, <2>2 DEF Next, Call, Server, vars, server, Enter, Release, Begin,
       TooManyFailures, Read, Write, Transient, OperationFails, StoreEvents,
       StoreFails, SendCommit, NothingToCommit, CommitOk, CommitUnknown,
       CommitAborted, Publish, Drop, ServerAborts
<1>3. QED
  BY <1>1, <1>2, TypeCorrect, PTL DEF Spec

-----------------------------------------------------------------------------

LEMMA PublishAppends ==
  ASSUME TypeOK, NEW c \in Client, c \in HasEvents, feed' = Append(feed, c)
  PROVE  \A d \in Client : Published(d)' <=> Published(d) \/ d = c
<1>1. /\ Len(feed') = Len(feed) + 1
      /\ feed'[Len(feed) + 1] = c
      /\ \A i \in 1..Len(feed) : feed'[i] = feed[i]
  BY DEF TypeOK
<1>2. ASSUME NEW d \in Client PROVE Published(d)' <=> Published(d) \/ d = c
  <2> Len(feed) \in Nat
    BY DEF TypeOK
  <2>1. Published(d)' <=> \E i \in 1..(Len(feed) + 1) : feed'[i] = d
    BY <1>1 DEF Published
  <2>2. 1..(Len(feed) + 1) = (1..Len(feed)) \cup {Len(feed) + 1}
    OBVIOUS
  <2>3. QED
    BY <1>1, <2>1, <2>2 DEF Published
<1>3. QED
  BY <1>2

\* Nobody hears of a change that is not durable.
THEOREM PublishedOnlyIfCommitted == Spec => []PublishedIsCommitted
<1>1. Init => CommitInv /\ PublishedIsCommitted
  BY DEF Init, CommitInv, PublishedIsCommitted, Committed, Published
<1>2. TypeOK /\ CommitInv /\ PublishedIsCommitted /\ [Next]_vars
         => (CommitInv /\ PublishedIsCommitted)'
  <2> SUFFICES ASSUME TypeOK, CommitInv, PublishedIsCommitted, [Next]_vars
               PROVE  PublishedIsCommitted'
    BY CommitStep
  <2>1. ASSUME NEW c \in Client, Land(c) PROVE PublishedIsCommitted'
    BY <2>1, LandAppends DEF PublishedIsCommitted, Published, Land
  <2>2. ASSUME NEW c \in Client, Publish(c) PROVE PublishedIsCommitted'
    <3>1. Committed(c) /\ commits' = commits
      BY <2>2 DEF Publish, CommitInv, server
    <3>2. CASE feed' = feed
      BY <3>1, <3>2 DEF PublishedIsCommitted, Published, Committed
    <3>3. CASE c \in HasEvents /\ feed' = Append(feed, c)
      BY <3>1, <3>3, PublishAppends, CommittedKept DEF PublishedIsCommitted
    <3>4. QED
      BY <2>2, <3>2, <3>3 DEF Publish
  <2>3. CASE UNCHANGED <<commits, feed>>
    BY <2>3 DEF PublishedIsCommitted, Published, Committed
  <2>4. QED
    BY <2>1, <2>2, <2>3 DEF Next, Call, Server, vars, server, Enter, Release, Begin,
       TooManyFailures, Read, Write, Transient, OperationFails, StoreEvents,
       StoreFails, SendCommit, NothingToCommit, CommitOk, CommitUnknown,
       CommitAborted, Drop, ServerAborts
<1>3. QED
  BY <1>1, <1>2, TypeCorrect, PTL DEF Spec
-----------------------------------------------------------------------------

\* What is published stays published.
LEMMA PublishedKept ==
  ASSUME TypeOK, NEW c \in Client,
         feed' = feed \/ (c \in HasEvents /\ feed' = Append(feed, c))
  PROVE  \A d \in Client : Published(d) => Published(d)'
BY PublishAppends DEF Published

\* One step keeps track of the event documents.
LEMMA StoreStep ==
  ASSUME TypeOK, CommitInv, StoreInv, [Next]_vars
  PROVE  StoreInv'
<1> USE ConstAssumption DEF TypeOK, server, CommitInv, StoreInv, StoreOf
<1>1. ASSUME NEW c \in Client, Enter(c) PROVE StoreInv'
  BY <1>1, PublishedKept DEF Enter, Goto
<1>2. ASSUME NEW c \in Client, Release(c) PROVE StoreInv'
  BY <1>2, PublishedKept DEF Release
<1>3. ASSUME NEW c \in Client, Begin(c) PROVE StoreInv'
  BY <1>3, PublishedKept DEF Begin, Goto
<1>4. ASSUME NEW c \in Client, TooManyFailures(c) PROVE StoreInv'
  BY <1>4, PublishedKept DEF TooManyFailures, Return, Goto
<1>5. ASSUME NEW c \in Client, Read(c) PROVE StoreInv'
  BY <1>5, PublishedKept DEF Read, Goto
<1>6. ASSUME NEW c \in Client, Write(c) PROVE StoreInv'
  BY <1>6, PublishedKept DEF Write, Goto
<1>7. ASSUME NEW c \in Client, Transient(c) PROVE StoreInv'
  BY <1>7, PublishedKept DEF Transient, Goto
<1>8. ASSUME NEW c \in Client, OperationFails(c) PROVE StoreInv'
  BY <1>8, PublishedKept DEF OperationFails, Return, Goto
<1>9. ASSUME NEW c \in Client, StoreEvents(c) PROVE StoreInv'
  BY <1>9, PublishedKept DEF StoreEvents, Goto
<1>10. ASSUME NEW c \in Client, StoreFails(c) PROVE StoreInv'
  BY <1>10, PublishedKept DEF StoreFails, Return, Goto
<1>11. ASSUME NEW c \in Client, SendCommit(c) PROVE StoreInv'
  BY <1>11, PublishedKept DEF SendCommit, Goto
<1>12. ASSUME NEW c \in Client, NothingToCommit(c) PROVE StoreInv'
  BY <1>12, PublishedKept DEF NothingToCommit, Return, Goto
<1>13. ASSUME NEW c \in Client, CommitOk(c) PROVE StoreInv'
  BY <1>13, PublishedKept DEF CommitOk, Goto
<1>14. ASSUME NEW c \in Client, CommitUnknown(c) PROVE StoreInv'
  BY <1>14, PublishedKept DEF CommitUnknown, Goto
<1>15. ASSUME NEW c \in Client, CommitAborted(c) PROVE StoreInv'
  BY <1>15, PublishedKept DEF CommitAborted, Return, Goto
<1>16. ASSUME NEW c \in Client, Publish(c) PROVE StoreInv'
  <2>1. \A d \in Client : Published(d) => Published(d)'
    BY <1>16, PublishedKept DEF Publish
  <2>2. (outcome'[c] = "ok" /\ c \in HasEvents) => Published(c)'
    <3>1. CASE c \in HasEvents /\ feed' = Append(feed, c)
      BY <3>1, PublishAppends
    <3>2. CASE outcome' = [outcome EXCEPT ![c] = "error"]
      BY <3>2, <1>16
    <3>3. QED
      BY <1>16, <3>1, <3>2 DEF Publish, Return
  <2>3. QED
    BY <1>16, <2>1, <2>2 DEF Publish, Return, Goto
<1>17. ASSUME NEW c \in Client, Drop(c) PROVE StoreInv'
  BY <1>17, PublishedKept DEF Drop, Return, Goto
<1>18. ASSUME NEW c \in Client, Land(c) PROVE StoreInv'
  <2>1. \A d \in Client : Published(d) => Published(d)'
    BY <1>18, PublishedKept DEF Land
  <2>2. CASE c \in staged
    <3>1. stored' = [stored EXCEPT ![c] = stored[c] + 1]
      BY <1>18, <2>2 DEF Land
    <3>2. /\ srv[c] = "doubt" /\ srv' = [srv EXCEPT ![c] = "committed"]
          /\ staged' = staged \ {c}
          /\ UNCHANGED <<pc, driver, outcome>>
      BY <1>18 DEF Land
    <3>3. \A d \in HasEvents : d # c => stored'[d] = stored[d] /\ srv'[d] = srv[d]
      BY <3>1, <3>2
    <3>4. (c \in HasEvents /\ stored[c] = 0) => stored'[c] = 1
      BY <3>1
    <3>5. ASSUME NEW d \in HasEvents, d # c PROVE StoreOf(d)'
      BY <2>1, <3>2, <3>3, <3>5
    <3>6. ASSUME c \in HasEvents PROVE StoreOf(c)'
      <4>1. pc[c] \notin {"idle", "begin", "read", "write", "publish"}
        BY <3>2
      <4>2. pc[c] \in {"store", "commit"} => driver[c] \notin {"active"}
        BY <3>2, <3>6
      <4>3. QED
        BY <1>18, <2>1, <3>2, <3>4, <3>6, <4>1, <4>2
    <3>7. QED
      BY <3>5, <3>6
  <2>3. CASE c \notin staged
    <3>1. stored' = stored
      BY <1>18, <2>3 DEF Land
    <3>2. QED
      BY <1>18, <2>1, <3>1, <2>3 DEF Land
  <2>4. QED
    BY <2>2, <2>3
<1>19. ASSUME NEW c \in Client, ServerAborts(c) PROVE StoreInv'
  BY <1>19, PublishedKept DEF ServerAborts
<1>20. CASE UNCHANGED vars
  BY <1>20 DEF vars, Published
<1>21. QED
  BY <1>1, <1>2, <1>3, <1>4, <1>5, <1>6, <1>7, <1>8, <1>9, <1>10, <1>11,
     <1>12, <1>13, <1>14, <1>15, <1>16, <1>17, <1>18, <1>19, <1>20 DEF
     Next, Call, Server

\* Ok means that the change is durable, and each event stored once and published.
THEOREM OkIsDone == Spec => []OkMeansDone
<1>1. Init => CommitInv /\ StoreInv
  BY ConstAssumption DEF Init, CommitInv, StoreInv, StoreOf, Committed
<1>2. TypeOK /\ CommitInv /\ StoreInv /\ [Next]_vars => (CommitInv /\ StoreInv)'
  BY CommitStep, StoreStep
<1>3. CommitInv /\ StoreInv => OkMeansDone
  BY DEF CommitInv, StoreInv, StoreOf, OkMeansDone
<1>4. QED
  BY <1>1, <1>2, <1>3, TypeCorrect, PTL DEF Spec

-----------------------------------------------------------------------------
(* The audit log and the order of the events. *)

\* Until a call is told that the result of its commit is unknown, its event is in
\* the transaction that is committed, and stored with it.
LogOf(c) ==
    /\ stored[c] = IF srv[c] = "committed" THEN 1 ELSE 0
    /\ srv[c] = "doubt" => c \in staged
    /\ pc[c] \in {"store", "commit"} => driver[c] = "active"

LogInv == \A c \in HasEvents \ unsure : LogOf(c)

\* One step keeps the log of these calls.
LEMMA LogStep ==
  ASSUME TypeOK, CommitInv, StoreInv, LogInv, [Next]_vars
  PROVE  LogInv'
<1> USE ConstAssumption DEF TypeOK, server, CommitInv, StoreInv, StoreOf, LogInv, LogOf
<1>1. ASSUME NEW c \in Client, Enter(c) PROVE LogInv'
  BY <1>1 DEF Enter, Goto
<1>2. ASSUME NEW c \in Client, Release(c) PROVE LogInv'
  BY <1>2 DEF Release
<1>3. ASSUME NEW c \in Client, Begin(c) PROVE LogInv'
  BY <1>3 DEF Begin, Goto
<1>4. ASSUME NEW c \in Client, TooManyFailures(c) PROVE LogInv'
  BY <1>4 DEF TooManyFailures, Return, Goto
<1>5. ASSUME NEW c \in Client, Read(c) PROVE LogInv'
  BY <1>5 DEF Read, Goto
<1>6. ASSUME NEW c \in Client, Write(c) PROVE LogInv'
  BY <1>6 DEF Write, Goto
<1>7. ASSUME NEW c \in Client, Transient(c) PROVE LogInv'
  BY <1>7 DEF Transient, Goto
<1>8. ASSUME NEW c \in Client, OperationFails(c) PROVE LogInv'
  BY <1>8 DEF OperationFails, Return, Goto
<1>9. ASSUME NEW c \in Client, StoreEvents(c) PROVE LogInv'
  BY <1>9 DEF StoreEvents, Goto
<1>10. ASSUME NEW c \in Client, StoreFails(c) PROVE LogInv'
  BY <1>10 DEF StoreFails, Return, Goto
<1>11. ASSUME NEW c \in Client, SendCommit(c) PROVE LogInv'
  BY <1>11 DEF SendCommit, Goto
<1>12. ASSUME NEW c \in Client, NothingToCommit(c) PROVE LogInv'
  BY <1>12 DEF NothingToCommit, Return, Goto
<1>13. ASSUME NEW c \in Client, CommitOk(c) PROVE LogInv'
  BY <1>13 DEF CommitOk, Goto
<1>14. ASSUME NEW c \in Client, CommitUnknown(c) PROVE LogInv'
  BY <1>14 DEF CommitUnknown, Goto
<1>15. ASSUME NEW c \in Client, CommitAborted(c) PROVE LogInv'
  BY <1>15 DEF CommitAborted, Return, Goto
<1>16. ASSUME NEW c \in Client, Publish(c) PROVE LogInv'
  BY <1>16 DEF Publish, Return, Goto
<1>17. ASSUME NEW c \in Client, Drop(c) PROVE LogInv'
  BY <1>17 DEF Drop, Return, Goto
<1>18. ASSUME NEW c \in Client, Land(c) PROVE LogInv'
  BY <1>18 DEF Land
<1>19. ASSUME NEW c \in Client, ServerAborts(c) PROVE LogInv'
  BY <1>19 DEF ServerAborts
<1>20. CASE UNCHANGED vars
  BY <1>20 DEF vars
<1>21. QED
  BY <1>1, <1>2, <1>3, <1>4, <1>5, <1>6, <1>7, <1>8, <1>9, <1>10, <1>11,
     <1>12, <1>13, <1>14, <1>15, <1>16, <1>17, <1>18, <1>19, <1>20 DEF Next,
     Call, Server

\* One locked call runs at a time, and a call that has published has ended.
SectionInv ==
    /\ \A c, d \in section : c = d
    /\ \A c \in Locked : pc[c] \notin {"idle", "ended"} => c \in section
    /\ \A c \in Client : Published(c) => pc[c] = "ended"

\* Wherever y is in a sequence, x is before it.
Before(s, x, y) == \A m, n \in 1..Len(s) : s[m] = x /\ s[n] = y => m < n

LEMMA BeforeAppended ==
  ASSUME NEW S, NEW s \in Seq(S), NEW e \in S, NEW x, NEW y, x # e, Before(s, x, y)
  PROVE  Before(Append(s, e), x, y)
<1> DEFINE t == Append(s, e)
<1>1. /\ Len(s) \in Nat /\ Len(t) = Len(s) + 1 /\ t[Len(s) + 1] = e
      /\ \A i \in 1..Len(s) : t[i] = s[i]
  OBVIOUS
<1> HIDE DEF t
<1> SUFFICES ASSUME NEW m \in 1..Len(t), NEW n \in 1..Len(t), t[m] = x, t[n] = y
             PROVE  m < n
  BY DEF Before, t
<1>2. m \in 1..Len(s) /\ s[m] = x
  <2>1. m # Len(s) + 1
    BY <1>1
  <2>2. m \in 1..Len(s)
    BY <1>1, <2>1
  <2>3. QED
    BY <1>1, <2>2
<1>3. CASE n = Len(s) + 1
  BY <1>1, <1>2, <1>3
<1>4. CASE n \in 1..Len(s)
  BY <1>1, <1>2, <1>4 DEF Before
<1>5. QED
  BY <1>1, <1>3, <1>4

\* The order of the events, said with Before.
LEMMA FeedBefore ==
  FeedInCommitOrder <=>
      \A i, j \in 1..Len(feed) :
          i < j /\ feed[i] \in Locked /\ feed[j] \in Locked => Before(commits, feed[i], feed[j])
BY DEF FeedInCommitOrder, Before

\* Whatever a locked call has published is older than the change of the one that
\* runs now, even if that has not landed yet.
OrderInv ==
    \A c, d \in Locked :
        c # d /\ pc[c] \notin {"idle", "ended"} /\ Published(d) => Before(commits, d, c)

\* A step that neither publishes, nor commits, nor enters or leaves the section.
Quiet ==
    /\ UNCHANGED <<section, commits, feed>>
    /\ \A c \in Client : pc'[c] = pc[c] \/ pc[c] \notin {"idle", "ended"}

LEMMA QuietSteps ==
  ASSUME TypeOK, [Next]_vars
  PROVE  \/ Quiet
         \/ \E c \in Client : Enter(c) \/ Release(c) \/ Publish(c) \/ Land(c)
<1> USE DEF TypeOK, Quiet, server, Goto, Return
<1>1. CASE UNCHANGED vars
  BY <1>1 DEF vars
<1>2. ASSUME NEW c \in Client,
             \/ Begin(c) \/ TooManyFailures(c) \/ Read(c) \/ Write(c) \/ Transient(c)
             \/ OperationFails(c) \/ Drop(c)
      PROVE  Quiet
  BY <1>2 DEF Begin, TooManyFailures, Read, Write, Transient, OperationFails, Drop
<1>3. ASSUME NEW c \in Client,
             \/ StoreEvents(c) \/ StoreFails(c) \/ SendCommit(c) \/ NothingToCommit(c)
             \/ CommitOk(c) \/ CommitUnknown(c) \/ CommitAborted(c) \/ ServerAborts(c)
      PROVE  Quiet
  BY <1>3 DEF StoreEvents, StoreFails, SendCommit, NothingToCommit, CommitOk, CommitUnknown,
    CommitAborted, ServerAborts
<1>4. QED
  BY <1>1, <1>2, <1>3 DEF Next, Call, Server

LEMMA PublishedSame ==
  ASSUME feed' = feed
  PROVE  \A d : Published(d)' <=> Published(d)
BY DEF Published

\* The section, and the order of what is published, survive every step.
LEMMA SectionStep ==
  ASSUME TypeOK, SectionInv, [Next]_vars
  PROVE  SectionInv'
<1> USE ConstAssumption DEF TypeOK, SectionInv
<1>1. CASE Quiet
  BY <1>1, PublishedSame DEF Quiet
<1>2. ASSUME NEW c \in Client, Enter(c) PROVE SectionInv'
  BY <1>2, PublishedSame DEF Enter, Goto
<1>3. ASSUME NEW c \in Client, Release(c) PROVE SectionInv'
  BY <1>3, PublishedSame DEF Release
<1>4. ASSUME NEW c \in Client, Publish(c) PROVE SectionInv'
  <2>1. section' = section /\ pc[c] = "publish" /\ pc' = [pc EXCEPT ![c] = "ended"]
    BY <1>4 DEF Publish, Return, Goto
  <2>2. \A d \in Client : Published(d)' => Published(d) \/ d = c
    BY <1>4, PublishedSame, PublishAppends DEF Publish
  <2>3. QED
    BY <2>1, <2>2
<1>5. ASSUME NEW c \in Client, Land(c) PROVE SectionInv'
  BY <1>5, PublishedSame DEF Land
<1>6. QED
  BY <1>1, <1>2, <1>3, <1>4, <1>5, QuietSteps

LEMMA OrderStep ==
  ASSUME TypeOK, CommitInv, PublishedIsCommitted, SectionInv, OrderInv, [Next]_vars
  PROVE  OrderInv'
<1> SUFFICES ASSUME NEW c \in Locked, NEW d \in Locked, c # d,
                    pc'[c] \notin {"idle", "ended"}, Published(d)'
             PROVE  Before(commits', d, c)
  BY DEF OrderInv, Before
<1>0. c \in Client /\ d \in Client
  BY ConstAssumption
<1>1. CASE Quiet
  BY <1>0, <1>1, PublishedSame DEF Quiet, OrderInv
<1>2. ASSUME NEW e \in Client, Enter(e) PROVE Before(commits', d, c)
  <2>1. commits' = commits /\ Published(d)
    BY <1>2, PublishedSame DEF Enter, server
  <2>2. CASE c = e
    <3>1. ~Committed(c)
      BY <1>2, <2>2 DEF Enter, CommitInv
    <3>2. QED
      BY <2>1, <3>1 DEF Committed, Before
  <2>3. CASE c # e
    <3>1. pc[c] = pc'[c]
      BY <1>0, <1>2, <2>3 DEF Enter, Goto, TypeOK
    <3>2. QED
      BY <2>1, <3>1 DEF OrderInv
  <2>4. QED
    BY <2>2, <2>3
<1>3. ASSUME NEW e \in Client, Release(e) PROVE Before(commits', d, c)
  BY <1>3, PublishedSame DEF Release, server, OrderInv
<1>4. ASSUME NEW e \in Client, Publish(e) PROVE Before(commits', d, c)
  <2>1. commits' = commits /\ pc[e] = "publish" /\ pc' = [pc EXCEPT ![e] = "ended"]
    BY <1>4 DEF Publish, Return, Goto, server
  <2>2. c # e /\ pc[c] \notin {"idle", "ended"}
    BY <1>0, <2>1 DEF TypeOK
  <2>3. d # e
    BY <2>1, <2>2 DEF SectionInv
  <2>4. Published(d)
    BY <1>0, <1>4, <2>3, PublishedSame, PublishAppends DEF Publish
  <2>5. QED
    BY <2>1, <2>2, <2>4 DEF OrderInv
<1>5. ASSUME NEW e \in Client, Land(e) PROVE Before(commits', d, c)
  <2>1. pc' = pc /\ Published(d) /\ commits' = Append(commits, e)
    BY <1>5, PublishedSame DEF Land
  <2>2. d # e
    BY <1>0, <1>5, <2>1 DEF Land, CommitInv, PublishedIsCommitted
  <2>3. Before(commits, d, c) /\ commits \in Seq(Client)
    BY <2>1 DEF OrderInv, TypeOK
  <2>4. QED
    BY <2>1, <2>2, <2>3, BeforeAppended
<1>6. QED
  BY <1>1, <1>2, <1>3, <1>4, <1>5, QuietSteps

LEMMA FeedStep ==
  ASSUME TypeOK, CommitInv, PublishedIsCommitted, SectionInv, OrderInv, FeedInCommitOrder,
         [Next]_vars
  PROVE  FeedInCommitOrder'
<1>1. CASE UNCHANGED <<feed, commits>>
  BY <1>1 DEF FeedInCommitOrder
<1>2. ASSUME NEW c \in Client, Publish(c), feed' = Append(feed, c)
      PROVE  FeedInCommitOrder'
  <2>1. commits' = commits /\ pc[c] = "publish"
    BY <1>2 DEF Publish, server
  <2>2. /\ Len(feed) \in Nat /\ Len(feed') = Len(feed) + 1
        /\ feed'[Len(feed) + 1] = c
        /\ \A i \in 1..Len(feed) : feed'[i] = feed[i]
    BY <1>2 DEF TypeOK
  <2> SUFFICES ASSUME NEW i \in 1..Len(feed'), NEW j \in 1..Len(feed'), i < j,
                      feed'[i] \in Locked, feed'[j] \in Locked
               PROVE  Before(commits, feed'[i], feed'[j])
    BY <2>1 DEF FeedInCommitOrder, Before
  <2>3. i \in 1..Len(feed) /\ feed'[i] = feed[i]
    <3>1. i \in 1..Len(feed)
      BY <2>2
    <3>2. QED
      BY <2>2, <3>1
  <2>4. CASE j = Len(feed) + 1
    <3>1. feed'[j] = c /\ c \in Locked /\ feed[i] \in Locked
      BY <2>2, <2>3, <2>4
    <3>2. Published(feed[i])
      BY <2>3 DEF Published
    <3>3. feed[i] # c
      BY <2>1, <3>2, <1>2 DEF SectionInv
    <3>4. QED
      BY <2>1, <2>3, <3>1, <3>2, <3>3 DEF OrderInv
  <2>5. CASE j \in 1..Len(feed)
    <3>1. feed'[j] = feed[j]
      BY <2>2, <2>5
    <3>2. QED
      BY <2>3, <2>5, <3>1, FeedBefore
  <2>6. QED
    BY <2>2, <2>4, <2>5
<1>3. ASSUME NEW c \in Client, Land(c) PROVE FeedInCommitOrder'
  <2>1. feed' = feed /\ commits' = Append(commits, c) /\ commits \in Seq(Client)
    BY <1>3 DEF Land, TypeOK
  <2> SUFFICES ASSUME NEW i \in 1..Len(feed), NEW j \in 1..Len(feed), i < j,
                      feed[i] \in Locked, feed[j] \in Locked
               PROVE  Before(commits', feed[i], feed[j])
    BY <2>1 DEF FeedInCommitOrder, Before
  <2>2. ~Published(c)
    BY <1>3 DEF Land, CommitInv, PublishedIsCommitted
  <2>3. feed[i] # c
    BY <2>2 DEF Published
  <2>4. QED
    BY <2>1, <2>3, BeforeAppended, FeedBefore
<1>4. ASSUME NEW c \in Client, Publish(c), feed' = feed PROVE UNCHANGED <<feed, commits>>
  BY <1>4 DEF Publish, server
<1>5. ASSUME NEW c \in Client, Enter(c) \/ Release(c) PROVE UNCHANGED <<feed, commits>>
  BY <1>5 DEF Enter, Release, server
<1>6. QED
  BY <1>1, <1>2, <1>3, <1>4, <1>5, QuietSteps DEF Quiet, Publish

\* The log agrees with the data for every call that was not left in doubt, and the
\* calls inside the mutex hand over their events in the order of their changes.
THEOREM EventsInOrder == Spec => []EventsFollowCommits
<1>1. Init => CommitInv /\ StoreInv /\ LogInv /\ SectionInv /\ OrderInv /\ FeedInCommitOrder
  BY ConstAssumption DEF Init, CommitInv, StoreInv, StoreOf, LogInv, LogOf, SectionInv, OrderInv,
    FeedInCommitOrder, Committed, Published
<1>2. TypeOK /\ CommitInv /\ StoreInv /\ LogInv /\ [Next]_vars
         => (CommitInv /\ StoreInv /\ LogInv)'
  BY CommitStep, StoreStep, LogStep
<1>3. TypeOK /\ CommitInv /\ PublishedIsCommitted /\ SectionInv /\ OrderInv /\ FeedInCommitOrder
         /\ [Next]_vars => (SectionInv /\ OrderInv /\ FeedInCommitOrder)'
  BY SectionStep, OrderStep, FeedStep
<1>4. TypeOK /\ CommitInv /\ LogInv /\ FeedInCommitOrder => EventsFollowCommits
  BY ConstAssumption DEF TypeOK, CommitInv, LogInv, LogOf, LogMatchesData, EventsFollowCommits
<1>5. QED
  BY <1>1, <1>2, <1>3, <1>4, TypeCorrect, PublishedOnlyIfCommitted, PTL DEF Spec
=============================================================================
