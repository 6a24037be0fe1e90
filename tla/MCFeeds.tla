------------------------------ MODULE MCFeeds ------------------------------
(***************************************************************************)
(* A TLC instance of two parts that have no variable in common: a          *)
(* connection to the event API and the search index, the two ways a change *)
(* reaches its readers.  `part` says whose behaviour it is, as in          *)
(* MCUploads.                                                              *)
(***************************************************************************)
EXTENDS SearchIndex, TLC

CONSTANTS User, Badge, Paint, EmoteSet, Topic, Limit, Lag, UserCache, ObjectCache, MaxVersion

\* event-api makes its channels of 16 messages and its cache of 512 presences; the
\* limit of topics is a number of its configuration.
ASSUME ConnectionAssumption ==
    /\ Limit \in Nat /\ MaxVersion \in Nat
    /\ Lag \in Nat \ {0} /\ UserCache \in Nat \ {0}

VARIABLES part,
          open, topics, box, version, latest, unread, sent, objects, told, recent, forgotten,
          knows, view

connection == <<open, topics, box, version, latest, unread, sent, objects, told, recent,
                forgotten, knows, view>>

C == INSTANCE EventConnection WITH lost <- unread

MCInit == part \in {"index", "connection"} /\ Init /\ C!Init

IndexNext == part = "index" /\ Next /\ UNCHANGED <<part, connection>>
ConnectionNext == part = "connection" /\ C!Next /\ UNCHANGED <<part, vars>>

MCSpec == MCInit /\ [][IndexNext \/ ConnectionNext]_<<part, vars, connection>>

Symmetry == Permutations(User)

\* What the properties excuse is not looked at any further: documents with a lost
\* change, a torn bulk write, both documents overlapped.  Four messages wait at most.
Kept ==
    /\ Cardinality(queue) < 4
    /\ lost = {} /\ ~torn /\ counted \in 0..1
    /\ overlapped = {} \/ (overlapped # Doc /\ stamp["set"] + stamp["user"] < 5)

\* Likewise; and one object changes, and one user falls out of the cache at most.
Followed ==
    /\ open /\ unread = {} /\ Cardinality(forgotten) <= 1
    /\ \A o \in C!Object \ {CHOOSE b \in Badge : TRUE} : version[o] = 1

\* The client has what it was promised, and no more topics than the limit and one.
ConnectionHolds == C!ClientFollows /\ C!TopicsBounded
=============================================================================
