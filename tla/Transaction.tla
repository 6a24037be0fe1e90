---------------------------- MODULE Transaction ----------------------------
(***************************************************************************)
(* transaction() and transaction_with_mutex() of                           *)
(* apps/api/src/transactions/mod.rs: several calls that read and write one *)
(* document, record their events beside it and publish them.  A call is a  *)
(* process; MongoDB runs snapshot transactions that conflict on a write to *)
(* the document; the driver's session remembers whether a commit was sent. *)
(***************************************************************************)
EXTENDS Naturals, Sequences

CONSTANTS Client,       \* the calls
          Locked,       \* those inside the document's mutex throughout; the others
                        \* have none, or theirs lapsed while they were running
          HasEvents,    \* those whose closure registers a storable event
          MaxTries      \* attempts of each call; 11 in the code: retry_count > 10 gives up

ASSUME ConstAssumption ==
    /\ Locked \subseteq Client
    /\ HasEvents \subseteq Client
    /\ MaxTries \in [Client -> Nat \ {0}]

VARIABLES
    section,    \* the calls inside the mutex
    pc,         \* pc[c]: where the call is
    tries,      \* tries[c]: retry_count
    driver,     \* driver[c]: the session's transaction state in the driver
    srv,        \* srv[c]: the transaction on the server; "doubt": commit sent
    snap,       \* snap[c]: number of commits its snapshot contains
    staged,     \* the calls whose transaction holds a stored event
    stored,     \* stored[c]: event documents of the call in the database
    commits,    \* the calls whose writes are durable, in commit order
    feed,       \* the calls whose events were handed to NATS, in that order
    unsure,     \* the calls that were told the commit result is unknown
    outcome     \* outcome[c]: what the call returned

vars == <<section, pc, tries, driver, srv, snap, staged, stored, commits, feed,
          unsure, outcome>>

server == <<srv, snap, staged, stored, commits>>

Init ==
    /\ section = {}
    /\ pc = [c \in Client |-> "idle"]
    /\ tries = [c \in Client |-> 0]
    /\ driver = [c \in Client |-> "none"]
    /\ srv = [c \in Client |-> "none"]
    /\ snap = [c \in Client |-> 0]
    /\ staged = {}
    /\ stored = [c \in Client |-> 0]
    /\ commits = <<>>
    /\ feed = <<>>
    /\ unsure = {}
    /\ outcome = [c \in Client |-> "none"]

Goto(c, label) == pc' = [pc EXCEPT ![c] = label]

Return(c, result) ==
    /\ Goto(c, "ended")
    /\ outcome' = [outcome EXCEPT ![c] = result]

Committed(c) == \E i \in 1..Len(commits) : commits[i] = c

Published(c) == \E i \in 1..Len(feed) : feed[i] = c

-----------------------------------------------------------------------------
(* The call. *)

\* transaction_with_mutex: DistributedMutex admits one call at a time.
Enter(c) ==
    /\ pc[c] = "idle"
    /\ IF c \in Locked
       THEN /\ section = {}
            /\ section' = section \cup {c}
       ELSE UNCHANGED section
    /\ Goto(c, "begin")
    /\ UNCHANGED <<tries, driver, server, feed, unsure, outcome>>

\* Wrong variant: the mutex is freed once the change is committed.
ReleaseBeforePublish(c) ==
    /\ c \in section
    /\ pc[c] \in {"publish", "ended"}
    /\ section' = section \ {c}
    /\ UNCHANGED <<pc, tries, driver, server, feed, unsure, outcome>>

\* The mutex is freed when the closure ends.
Release(c) ==
    /\ c \in section
    /\ pc[c] = "ended"
    /\ section' = section \ {c}
    /\ UNCHANGED <<pc, tries, driver, server, feed, unsure, outcome>>

\* Wrong variant: retries that are not counted.
BeginUncounted(c) ==
    /\ pc[c] = "begin"
    /\ driver' = [driver EXCEPT ![c] = "active"]
    /\ srv' = [srv EXCEPT ![c] = "open"]
    /\ Goto(c, "read")
    /\ UNCHANGED <<section, tries, snap, staged, stored, commits, feed, unsure, outcome>>

\* The head of 'retry_operation and reset(): the previous transaction is
\* aborted, the events are cleared and a new one is started.
Begin(c) ==
    /\ pc[c] = "begin"
    /\ tries[c] < MaxTries[c]
    /\ tries' = [tries EXCEPT ![c] = tries[c] + 1]
    /\ driver' = [driver EXCEPT ![c] = "active"]
    /\ srv' = [srv EXCEPT ![c] = "open"]
    /\ staged' = staged \ {c}
    /\ Goto(c, "read")
    /\ UNCHANGED <<section, snap, stored, commits, feed, unsure, outcome>>

TooManyFailures(c) ==
    /\ pc[c] = "begin"
    /\ tries[c] >= MaxTries[c]
    /\ Return(c, "error")
    /\ UNCHANGED <<section, tries, driver, server, feed, unsure>>

\* The closure reads the document: the server fixes the snapshot.
Read(c) ==
    /\ pc[c] = "read"
    /\ snap' = [snap EXCEPT ![c] = Len(commits)]
    /\ Goto(c, "write")
    /\ UNCHANGED <<section, tries, driver, srv, staged, stored, commits, feed,
                   unsure, outcome>>

WriteConflict(c) ==
    \/ snap[c] # Len(commits)
    \/ \E d \in Client \ {c} : srv[d] \in {"dirty", "doubt"}

\* The closure writes the document, registers its events and returns Ok.
Write(c) ==
    /\ pc[c] = "write"
    /\ ~WriteConflict(c)
    /\ srv' = [srv EXCEPT ![c] = "dirty"]
    /\ Goto(c, "store")
    /\ UNCHANGED <<section, tries, driver, snap, staged, stored, commits, feed,
                   unsure, outcome>>

\* An operation fails with TRANSIENT_TRANSACTION_ERROR (a write conflict or a
\* network error): sleep 100 ms and run the closure again.
Transient(c) ==
    /\ pc[c] \in {"read", "write"}
    /\ srv' = [srv EXCEPT ![c] = "aborted"]
    /\ Goto(c, "begin")
    /\ UNCHANGED <<section, tries, driver, snap, staged, stored, commits, feed,
                   unsure, outcome>>

\* The closure returns any other error: abort and return it.
OperationFails(c) ==
    /\ pc[c] \in {"read", "write"}
    /\ srv' = [srv EXCEPT ![c] = "aborted"]
    /\ Return(c, "error")
    /\ UNCHANGED <<section, tries, driver, snap, staged, stored, commits, feed,
                   unsure>>

\* Wrong variant: the insert is not given the session.
StoreEventsNoSession(c) ==
    /\ pc[c] = "store"
    /\ Goto(c, "commit")
    /\ stored' = [stored EXCEPT ![c] = IF c \in HasEvents THEN stored[c] + 1 ELSE 0]
    /\ UNCHANGED <<section, tries, driver, srv, snap, staged, commits, feed, unsure,
                   outcome>>

\* The head of 'retry_commit: insert_many of the stored events.  In an active
\* transaction the insert is part of it.  After a commit was sent the driver
\* forgets the transaction at the next operation, so the insert is on its own.
StoreEvents(c) ==
    /\ pc[c] = "store"
    /\ Goto(c, "commit")
    /\ IF c \notin HasEvents
       THEN UNCHANGED <<driver, staged, stored>>
       ELSE IF driver[c] = "active"
       THEN /\ staged' = staged \cup {c}
            /\ UNCHANGED <<driver, stored>>
       ELSE /\ stored' = [stored EXCEPT ![c] = stored[c] + 1]
            /\ driver' = [driver EXCEPT ![c] = "none"]
            /\ UNCHANGED staged
    /\ UNCHANGED <<section, tries, srv, snap, commits, feed, unsure, outcome>>

\* insert_many fails: `?` returns, and the dropped session aborts a transaction
\* whose commit was not sent.
StoreFails(c) ==
    /\ pc[c] = "store"
    /\ c \in HasEvents
    /\ srv' = [srv EXCEPT ![c] = IF srv[c] = "dirty" THEN "aborted" ELSE @]
    /\ Return(c, "error")
    /\ UNCHANGED <<section, tries, driver, snap, staged, stored, commits, feed,
                   unsure>>

\* commit_transaction: sent to the server, again if it was sent before.
SendCommit(c) ==
    /\ pc[c] = "commit"
    /\ driver[c] \in {"active", "committed"}
    /\ driver' = [driver EXCEPT ![c] = "committed"]
    /\ srv' = [srv EXCEPT ![c] = IF srv[c] = "dirty" THEN "doubt" ELSE @]
    /\ Goto(c, "committing")
    /\ UNCHANGED <<section, tries, snap, staged, stored, commits, feed, unsure, outcome>>

\* The driver has no transaction: an error without a label.
NothingToCommit(c) ==
    /\ pc[c] = "commit"
    /\ driver[c] = "none"
    /\ Return(c, "error")
    /\ UNCHANGED <<section, tries, driver, server, feed, unsure>>

\* Wrong variant: the events go out before the commit is known.
CommitOkUnchecked(c) ==
    /\ pc[c] = "committing"
    /\ Goto(c, "publish")
    /\ UNCHANGED <<section, tries, driver, server, feed, unsure, outcome>>

CommitOk(c) ==
    /\ pc[c] = "committing"
    /\ srv[c] = "committed"
    /\ Goto(c, "publish")
    /\ UNCHANGED <<section, tries, driver, server, feed, unsure, outcome>>

\* Wrong variant: an unknown result runs the closure again.
CommitUnknownReruns(c) ==
    /\ pc[c] = "committing"
    /\ unsure' = unsure \cup {c}
    /\ Goto(c, "begin")
    /\ UNCHANGED <<section, tries, driver, server, feed, outcome>>

\* UNKNOWN_TRANSACTION_COMMIT_RESULT: whatever the server did or will do.
CommitUnknown(c) ==
    /\ pc[c] = "committing"
    /\ unsure' = unsure \cup {c}
    /\ Goto(c, "store")
    /\ UNCHANGED <<section, tries, driver, server, feed, outcome>>

\* The server aborted: TRANSIENT_TRANSACTION_ERROR, or an error with no label.
CommitAborted(c) ==
    /\ pc[c] = "committing"
    /\ srv[c] = "aborted"
    /\ \/ Goto(c, "begin") /\ UNCHANGED outcome
       \/ Return(c, "error")
    /\ UNCHANGED <<section, tries, driver, server, feed, unsure>>

\* The events are handed to NATS; an error is returned though all is committed.
Publish(c) ==
    /\ pc[c] = "publish"
    /\ \/ /\ feed' = IF c \in HasEvents THEN Append(feed, c) ELSE feed
          /\ Return(c, "ok")
       \/ /\ UNCHANGED feed
          /\ Return(c, "error")
    /\ UNCHANGED <<section, tries, driver, server, unsure>>

\* The future is dropped (client gone, MutexError::Lost) or the process dies.
\* The session aborts a transaction whose commit was not sent.
Drop(c) ==
    /\ pc[c] \notin {"idle", "ended"}
    /\ srv' = [srv EXCEPT ![c] = IF srv[c] \in {"open", "dirty"} THEN "aborted" ELSE @]
    /\ Return(c, "dropped")
    /\ UNCHANGED <<section, tries, driver, snap, staged, stored, commits, feed,
                   unsure>>

-----------------------------------------------------------------------------
(* MongoDB. *)

\* A commit that was sent takes effect: the write and the stored event together.
Land(c) ==
    /\ srv[c] = "doubt"
    /\ srv' = [srv EXCEPT ![c] = "committed"]
    /\ commits' = Append(commits, c)
    /\ stored' = IF c \in staged THEN [stored EXCEPT ![c] = stored[c] + 1] ELSE stored
    /\ staged' = staged \ {c}
    /\ UNCHANGED <<section, pc, tries, driver, snap, feed, unsure, outcome>>

\* The server aborts a transaction (a failover, its lifetime limit).
ServerAborts(c) ==
    /\ srv[c] = "doubt"
    /\ srv' = [srv EXCEPT ![c] = "aborted"]
    /\ staged' = staged \ {c}
    /\ UNCHANGED <<section, pc, tries, driver, snap, stored, commits, feed, unsure,
                   outcome>>

-----------------------------------------------------------------------------

Call(c) ==
    \/ Begin(c) \/ TooManyFailures(c) \/ Read(c) \/ Write(c) \/ Transient(c)
    \/ OperationFails(c) \/ StoreEvents(c) \/ StoreFails(c) \/ SendCommit(c)
    \/ NothingToCommit(c) \/ CommitOk(c) \/ CommitUnknown(c) \/ CommitAborted(c)
    \/ Publish(c)

Server(c) == Land(c) \/ ServerAborts(c)

Next == \E c \in Client :
            Enter(c) \/ Release(c) \/ Call(c) \/ Drop(c) \/ Server(c)

Spec == Init /\ [][Next]_vars

\* A call keeps running, MongoDB decides every commit it received, and does not
\* leave the client in doubt for ever.
Fairness ==
    \A c \in Client :
        /\ WF_vars(Call(c))
        /\ WF_vars(Server(c))
        /\ WF_vars(Release(c))
        /\ SF_vars(CommitOk(c) \/ CommitAborted(c))

FairSpec == Spec /\ Fairness

-----------------------------------------------------------------------------
(* Properties. *)

TypeOK ==
    /\ section \subseteq Locked
    /\ pc \in [Client -> {"idle", "begin", "read", "write", "store", "commit",
                          "committing", "publish", "ended"}]
    /\ tries \in [Client -> Nat]
    /\ \A c \in Client : tries[c] <= MaxTries[c]
    /\ driver \in [Client -> {"none", "active", "committed"}]
    /\ srv \in [Client -> {"none", "open", "dirty", "doubt", "committed", "aborted"}]
    /\ snap \in [Client -> Nat]
    /\ staged \subseteq HasEvents
    /\ stored \in [Client -> Nat]
    /\ commits \in Seq(Client)
    /\ feed \in Seq(Client)
    /\ unsure \subseteq Client
    /\ outcome \in [Client -> {"none", "ok", "error", "dropped"}]

\* Whatever is retried, a call's writes take effect at most once
\* (mod.rs:356-378: an unknown result retries the commit, never the closure).
AppliedOnce ==
    \A i, j \in 1..Len(commits) : commits[i] = commits[j] => i = j

\* Ok means all of it: the writes are durable, each event is stored exactly once
\* and was handed to NATS (mod.rs:356-368).
OkMeansDone ==
    \A c \in Client : outcome[c] = "ok" =>
        /\ Committed(c)
        /\ c \in HasEvents => stored[c] = 1 /\ Published(c)

\* Nobody hears of a change that is not durable (mod.rs:361-366).
PublishedIsCommitted == \A c \in Client : Published(c) => Committed(c)

\* The audit log and the data agree, but for calls whose commit result was
\* unknown: those may leave an event without its change, or store it twice
\* (mod.rs:357-374, the insert is repeated by 'retry_commit).
LogMatchesData ==
    \A c \in HasEvents \ unsure :
        stored[c] = IF Committed(c) THEN 1 ELSE 0

\* The events of the calls that hold the mutex throughout go out in the order of
\* their changes, whatever is done outside it (mod.rs:313, publish is inside).
FeedInCommitOrder ==
    \A i, j \in 1..Len(feed), m, n \in 1..Len(commits) :
        /\ i < j
        /\ {feed[i], feed[j]} \subseteq Locked
        /\ commits[m] = feed[i]
        /\ commits[n] = feed[j]
        => m < n

EventsFollowCommits == LogMatchesData /\ FeedInCommitOrder

\* A call that has begun returns (mod.rs:346-349, the retries are bounded).
CallReturns == \A c \in Client : (pc[c] # "idle") ~> (pc[c] = "ended")
=============================================================================
