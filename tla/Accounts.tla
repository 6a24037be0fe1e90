------------------------------ MODULE Accounts ------------------------------
(***************************************************************************)
(* Users, the platform accounts they are connected to and their sessions:  *)
(* the v4 logins and links (http/v4/rest/auth.rs), the v3 callback         *)
(* (http/v3/rest/auth/login.rs), the connection mutations of both APIs and *)
(* the merge and deletion of users (http/v3/gql/mutations/users.rs).  Each *)
(* transaction writes the users it reads, so MongoDB orders them; only a   *)
(* search that found nobody is not protected.                              *)
(***************************************************************************)
EXTENDS Naturals, FiniteSets, SequencesExt

CONSTANTS User,      \* user ids, each given out once
          Account,   \* accounts of the platforms
          Session,   \* a login call is named by the session it creates
          None

ASSUME ConstAssumption == None \notin User \cup Account

VARIABLES
    born,      \* the users inserted so far
    users,     \* those that have not been deleted
    conns,     \* conns[u]: the accounts of u, the main one first
    into,      \* into[u]: merged_into_id
    pc,        \* pc[s]: the step of the login that creates s, or of a link in s
    call,      \* call[s]: the user and the account this call holds
    session,   \* session[s]: the user of the session s, or None
    revived    \* history: merged users given something by a call that held
               \* their id from before the merge, or linked by a moderator

vars == <<born, users, conns, into, pc, call, session, revived>>

people == <<born, users, conns, into>>

TypeOK ==
    /\ users \subseteq born /\ born \subseteq User /\ revived \subseteq User
    /\ conns \in [User -> Seq(Account)]
    /\ into \in [User -> User \cup {None}]
    /\ pc \in [Session -> {"idle", "create", "enter", "link", "done"}]
    /\ call \in [Session -> (User \cup {None}) \X (Account \cup {None})]
    /\ session \in [Session -> User \cup {None}]

Init ==
    /\ born = {} /\ users = {} /\ revived = {}
    /\ conns = [u \in User |-> <<>>]
    /\ into = [u \in User |-> None]
    /\ pc = [s \in Session |-> "idle"]
    /\ call = [s \in Session |-> <<None, None>>]
    /\ session = [s \in Session |-> None]

-----------------------------------------------------------------------------
Owns(u, a) == u \in users /\ Contains(conns[u], a)

Free(a) == \A u \in users : ~Owns(u, a)

\* The call goes on to a step with the user and the account it holds there.
Goto(s, label, u, a) ==
    /\ pc' = [pc EXCEPT ![s] = label]
    /\ call' = [call EXCEPT ![s] = <<u, a>>]

Ends(s) == Goto(s, "done", None, None)

Merged(u) == into[u] # None

\* What is given to a merged user brings it back.
Given(u) == revived' = IF Merged(u) THEN revived \cup {u} ELSE revived

NewUser(u, a) ==
    /\ u \notin born
    /\ born' = born \cup {u}
    /\ users' = users \cup {u}
    /\ conns' = [conns EXCEPT ![u] = <<a>>]

\* `$pull` of a connection, which is in the array once.
Pulled(accounts, a) == RemoveAt(accounts, CHOOSE i \in DOMAIN accounts : accounts[i] = a)

Connect(u, a) == conns' = [conns EXCEPT ![u] = Append(conns[u], a)]

-----------------------------------------------------------------------------
(* Logging in, v4: a transaction for the user, another for the session.    *)

LoginFinds(s, u, a) ==
    /\ pc[s] = "idle"
    /\ Owns(u, a)
    /\ Goto(s, "enter", u, None)
    /\ UNCHANGED <<people, session, revived>>

LoginMisses(s, a) ==
    /\ pc[s] = "idle"
    /\ Free(a)
    /\ Goto(s, "create", None, a)
    /\ UNCHANGED <<people, session, revived>>

\* Wrong variant: without the unique index on the accounts.
LoginCreatesAnyway(s, u) ==
    /\ pc[s] = "create"
    /\ NewUser(u, call[s][2])
    /\ Goto(s, "enter", u, None)
    /\ UNCHANGED <<into, session, revived>>

\* The unique index on the accounts refuses the second of two first logins.
LoginCreates(s, u) ==
    /\ pc[s] = "create"
    /\ Free(call[s][2])
    /\ NewUser(u, call[s][2])
    /\ Goto(s, "enter", u, None)
    /\ UNCHANGED <<into, session, revived>>

\* The session is inserted for the user found before, whatever became of it.
LoginEnters(s) ==
    /\ pc[s] = "enter"
    /\ session' = [session EXCEPT ![s] = call[s][1]]
    /\ Ends(s)
    /\ Given(call[s][1])
    /\ UNCHANGED people

\* An error: a duplicate key, no permission to log in, an account that is taken.
CallFails(s) ==
    /\ pc[s] \in {"create", "enter", "link"}
    /\ Ends(s)
    /\ UNCHANGED <<people, session, revived>>

\* v3: user and session in one transaction, which logs the old session out.
Callback(s, u, a, old) ==
    /\ pc[s] = "idle"
    /\ \/ Owns(u, a) /\ UNCHANGED people
       \/ Free(a) /\ NewUser(u, a) /\ UNCHANGED into
    /\ Given(u)
    /\ session' = [o \in Session |-> IF o = s THEN u ELSE IF o \in old THEN None ELSE session[o]]
    /\ Ends(s)

-----------------------------------------------------------------------------
(* Connections. *)

\* A link holds the user of its session while it asks the platform.
LinkStarts(s, a) ==
    /\ pc[s] = "done"
    /\ session[s] \in users
    /\ Goto(s, "link", session[s], a)
    /\ UNCHANGED <<people, session, revived>>

\* Wrong variant: the user's own accounts are not looked at.
LinkFinishUnchecked(s) ==
    LET u == call[s][1]
    IN /\ pc[s] = "link"
       /\ u \in users
       /\ \A v \in users \ {u} : ~Owns(v, call[s][2])
       /\ Connect(u, call[s][2])
       /\ Given(u)
       /\ Ends(s)
       /\ UNCHANGED <<born, users, into, session>>

LinkFinish(s) ==
    LET u == call[s][1]
    IN /\ pc[s] = "link"
       /\ u \in users
       /\ Free(call[s][2])
       /\ Connect(u, call[s][2])
       /\ Given(u)
       /\ Ends(s)
       /\ UNCHANGED <<born, users, into, session>>

ManuallyLinkKick(u, a) ==
    /\ u \in users
    /\ Free(a)
    /\ Connect(u, a)
    /\ Given(u)
    /\ UNCHANGED <<born, users, into, pc, call, session>>

\* Wrong variant: the last connection goes too.
RemoveLastConnection(u, a) ==
    /\ Owns(u, a)
    /\ conns' = [conns EXCEPT ![u] = Pulled(conns[u], a)]
    /\ UNCHANGED <<born, users, into, pc, call, session, revived>>

\* The last connection stays: the transaction is aborted after the update.
RemoveConnection(u, a) ==
    /\ Owns(u, a)
    /\ conns' = [conns EXCEPT ![u] = Pulled(conns[u], a)]
    /\ conns'[u] # <<>>
    /\ UNCHANGED <<born, users, into, pc, call, session, revived>>

MainConnection(u, a) ==
    /\ Owns(u, a)
    /\ conns' = [conns EXCEPT ![u] = <<a>> \o Pulled(conns[u], a)]
    /\ UNCHANGED <<born, users, into, pc, call, session, revived>>

-----------------------------------------------------------------------------
(* Sessions and users. *)

SessionsOf(u) == {s \in Session : session[s] = u}

\* A call that is under way keeps the user it has read.
Close(sessions) ==
    session' = [s \in Session |-> IF s \in sessions THEN None ELSE session[s]]

\* Logging out, and the sessions' expiry.
Logout(s) ==
    /\ session[s] # None
    /\ Close({s})
    /\ UNCHANGED <<people, pc, call, revived>>

\* All but the caller's own.
DeleteAllSessions(u, own) ==
    /\ Close(SessionsOf(u) \ {own})
    /\ UNCHANGED <<people, pc, call, revived>>

\* Wrong variants: the sessions stay; the target is not looked at.
MergeKeepsSessions(u, target) ==
    /\ u # target /\ {u, target} \subseteq users
    /\ ~Merged(target)
    /\ conns' = [conns EXCEPT ![u] = <<>>, ![target] = conns[target] \o conns[u]]
    /\ into' = [into EXCEPT ![u] = target]
    /\ UNCHANGED <<born, users, pc, call, session, revived>>

MergeIntoAny(u, target) ==
    /\ u # target /\ {u, target} \subseteq users
    /\ conns' = [conns EXCEPT ![u] = <<>>, ![target] = conns[target] \o conns[u]]
    /\ into' = [into EXCEPT ![u] = target]
    /\ Close(SessionsOf(u))
    /\ UNCHANGED <<born, users, pc, call, revived>>

\* The source may have been merged before, the target may not.
Merge(u, target) ==
    /\ u # target /\ {u, target} \subseteq users
    /\ ~Merged(target)
    /\ conns' = [conns EXCEPT ![u] = <<>>, ![target] = conns[target] \o conns[u]]
    /\ into' = [into EXCEPT ![u] = target]
    /\ Close(SessionsOf(u))
    /\ UNCHANGED <<born, users, pc, call, revived>>

\* Only the document of the user goes.
Delete(u) ==
    /\ u \in users
    /\ users' = users \ {u}
    /\ UNCHANGED <<born, conns, into, pc, call, session, revived>>

Next ==
    \/ \E s \in Session, a \in Account :
           \/ LoginMisses(s, a) \/ LinkStarts(s, a)
           \/ \E u \in User : LoginFinds(s, u, a)
                              \/ \E old \in SUBSET (Session \ {s}) :
                                     Cardinality(old) <= 1 /\ Callback(s, u, a, old)
    \/ \E s \in Session :
           \/ CallFails(s) \/ LoginEnters(s) \/ LinkFinish(s) \/ Logout(s)
           \/ \E u \in User : LoginCreates(s, u) \/ DeleteAllSessions(u, s)
    \/ \E u \in User, a \in Account :
           ManuallyLinkKick(u, a) \/ RemoveConnection(u, a) \/ MainConnection(u, a)
    \/ \E u \in User, target \in User : Merge(u, target)
    \/ \E u \in User : Delete(u)

Spec == Init /\ [][Next]_vars

-----------------------------------------------------------------------------
(* Properties. *)

\* An account is connected to one user, once: logins, links, the moderators' link
\* and merges cannot both give it away.
OneOwner ==
    \A u, v \in users : \A i \in DOMAIN conns[u], j \in DOMAIN conns[v] :
        conns[u][i] = conns[v][j] => u = v /\ i = j

\* Nobody is locked out: a user that is not merged keeps a connection to log in
\* with, whatever is unlinked and merged meanwhile.
NobodyLockedOut == \A u \in users : ~Merged(u) => conns[u] # <<>>

\* A merged user has neither connections nor sessions, unless a call that knew it
\* from before, or a moderator, gave it some again.
MergedIsEmpty ==
    \A u \in users \ revived : Merged(u) =>
        conns[u] = <<>> /\ SessionsOf(u) = {}

\* Merges do not go round: of any users, one is not merged into another of them.
MergesEnd ==
    \A group \in SUBSET User : group # {} => \E u \in group : into[u] \notin group

\* A merge is done once and for all: the user stays empty and leads to a live one.
MergesAreFinal == MergedIsEmpty /\ MergesEnd
=============================================================================
