--------------------------- MODULE EventConnection ---------------------------
(***************************************************************************)
(* One connection to the event API (event-api/src/http/v3/mod.rs,          *)
(* topic_map.rs) and its client: subscriptions, dispatches, and presences, *)
(* of which the client is only told the difference to what it was told     *)
(* before.  The server remembers that in caches that forget.               *)
(***************************************************************************)
EXTENDS Naturals, SequencesExt

CONSTANTS User,
          Badge, Paint, EmoteSet,
          Topic,         \* topics a client can ask for, other than presences
          Limit,         \* subscription_limit
          Lag,           \* messages a receiver may be behind
          UserCache,     \* size of presence_lru
          ObjectCache,   \* size of badge_lru, paint_lru and personal_emote_set_lru
          MaxVersion     \* bound on the changes of an object

VARIABLES
    open,      \* the connection is served
    topics,    \* the keys of the topic map
    box,       \* presences in the receiver of the presence topic
    version,   \* updated_at of the badges, paints and emote sets
    latest,    \* latest[u]: what the last presence published for u said
    lost,      \* users whose last presence was dropped before it was read
    sent,      \* sent[o]: updated_at of the object when it was sent last
    objects,   \* per kind, the keys of the cache of objects sent, newest first
    told,      \* told[u]: the badge and the paint in the cache of presences
    recent,    \* the keys of that cache, newest first
    forgotten, \* history: users who fell out of it
    knows,     \* client: updated_at of the objects it was sent, 0 if none
    view       \* client: what it thinks each user has

server == <<sent, objects, told, recent, forgotten>>
client == <<knows, view>>
world == <<version, latest, lost>>
vars == <<open, topics, box, world, server, client>>

Cosmetic == Badge \cup Paint
Object == Cosmetic \cup EmoteSet
Kinds == <<Badge, Paint, EmoteSet>>

\* What a user can have: one badge, one paint, some personal emote sets.
Presences ==
    {b \cup p \cup e : b \in {{}} \cup {{o} : o \in Badge}, p \in {{}} \cup {{o} : o \in Paint},
                       e \in SUBSET EmoteSet}

\* A presence carries its objects as they are when it is published.
IsMessage(m) ==
    m.user \in User /\ m.has \in Presences /\ m.version \in [m.has -> 1..MaxVersion]

TypeOK ==
    /\ open \in BOOLEAN
    /\ topics \subseteq Topic \cup {"presence"}
    /\ \A i \in DOMAIN box : IsMessage(box[i])
    /\ Len(box) <= Lag
    /\ version \in [Object -> 1..MaxVersion]
    /\ \A u \in User : IsMessage(latest[u])
    /\ sent \in [Object -> 0..MaxVersion] /\ knows \in [Object -> 0..MaxVersion]
    /\ \A k \in 1..3 : ToSet(objects[k]) \subseteq Kinds[k] /\ Len(objects[k]) <= ObjectCache
    /\ told \in [User -> SUBSET Cosmetic] /\ view \in [User -> SUBSET Object]
    /\ ToSet(recent) \subseteq User /\ Len(recent) <= UserCache
    /\ lost \subseteq User /\ forgotten \subseteq User

Init ==
    /\ open = TRUE
    /\ topics = {}
    /\ box = <<>>
    /\ version = [o \in Object |-> 1]
    /\ latest = [u \in User |-> [user |-> u, has |-> {}, version |-> <<>>]]
    /\ lost = {} /\ forgotten = {}
    /\ sent = [o \in Object |-> 0] /\ knows = sent
    /\ objects = <<<<>>, <<>>, <<>>>>
    /\ told = [u \in User |-> {}] /\ view = told
    /\ recent = <<>>

-----------------------------------------------------------------------------
(* Subscriptions. *)

Close ==
    /\ open' = FALSE
    /\ UNCHANGED <<topics, box, world, server, client>>

\* The limit is looked at once, before one topic or two are added.
Subscribe(t, channel) ==
    /\ open
    /\ Cardinality(topics) < Limit
    /\ topics' = topics \cup {t} \cup IF channel THEN {"presence"} ELSE {}
    /\ UNCHANGED <<open, box, world, server, client>>

SubscribeRefused ==
    /\ open
    /\ Cardinality(topics) >= Limit
    /\ Close

\* Dropping the receiver of the presences drops what it holds.
Drops(gone) ==
    IF "presence" \in gone THEN box' = <<>> /\ lost' = lost \cup {box[i].user : i \in DOMAIN box}
    ELSE UNCHANGED <<box, lost>>

\* One topic, or all of an event type.
Unsubscribe(gone) ==
    /\ open
    /\ gone # {} /\ gone \subseteq topics
    /\ topics' = topics \ gone
    /\ Drops(gone)
    /\ UNCHANGED <<open, version, latest, server, client>>

\* A topic the client has not subscribed to, an invalid message, an error of the
\* socket, the TTL, a shutdown.
Ends ==
    /\ open
    /\ Close

-----------------------------------------------------------------------------
(* The rest of the system. *)

ObjectChanges(o) ==
    /\ version[o] < MaxVersion
    /\ version' = [version EXCEPT ![o] = @ + 1]
    /\ UNCHANGED <<open, topics, box, latest, lost, server, client>>

\* A receiver that lags behind loses its oldest message without notice.
Publish(u, has) ==
    LET message == [user |-> u, has |-> has, version |-> [o \in has |-> version[o]]]
        all == Append(box, message)
        first == box[1].user
    IN /\ open
       /\ "presence" \in topics
       /\ latest' = [latest EXCEPT ![u] = message]
       /\ IF Len(all) > Lag
          THEN /\ box' = Tail(all)
               /\ lost' = {v \in lost \cup {first} :
                              \A i \in DOMAIN box' : box'[i].user # v}
          ELSE box' = all /\ lost' = lost \ {u}
       /\ UNCHANGED <<open, topics, version, server, client>>

-----------------------------------------------------------------------------
(* Presences. *)

\* lru.pop: the key falls out, if it is there.
Without(lru, k) ==
    IF Contains(lru, k) THEN RemoveAt(lru, CHOOSE i \in 1..Len(lru) : lru[i] = k) ELSE lru

\* lru.put: the key becomes the newest, the oldest falls out.
Used(lru, k, size) == LET all == <<k>> \o Without(lru, k)
                      IN IF Len(all) > size THEN Front(all) ELSE all

\* All objects of a presence are put, a kind after the other.
UsedAll(lru, keys) ==
    FoldSeq(LAMBDA k, old : Used(old, k, ObjectCache), lru, SetToSeq(keys))

\* Wrong variant: an object in the cache is taken for the one in the message.
NewIgnoringDates(m) == {o \in m.has : \A k \in 1..3 : o \notin ToSet(objects[k])}

\* Objects the client is sent: those not in the cache, or in it with another date.
New(m) ==
    {o \in m.has : \A k \in 1..3 : o \notin ToSet(objects[k]) \/ sent[o] # m.version[o]}

SendObjects(m) ==
    /\ objects' = [k \in 1..3 |-> UsedAll(objects[k], m.has \cap Kinds[k])]
    /\ sent' = [o \in Object |-> IF o \in m.has THEN m.version[o] ELSE sent[o]]
    /\ knows' = [o \in Object |-> IF o \in New(m) THEN m.version[o] ELSE knows[o]]

\* What the server thinks the client was told of a user; the emote sets are never
\* entered there.
Remembered(u) == IF Contains(recent, u) THEN told[u] ELSE {}

\* Wrong variant: the old cosmetics are not taken back.
SendDifferenceKeepsOld(m) ==
    /\ m.has # {}
    /\ recent' = Used(recent, m.user, UserCache)
    /\ told' = [told EXCEPT ![m.user] = m.has \cap Cosmetic]
    /\ view' = [view EXCEPT ![m.user] = @ \cup (m.has \ Remembered(m.user))]

SendDifference(m) ==
    /\ m.has # {}
    /\ recent' = Used(recent, m.user, UserCache)
    /\ told' = [told EXCEPT ![m.user] = m.has \cap Cosmetic]
    /\ view' = [view EXCEPT ![m.user] = (@ \ (Remembered(m.user) \ m.has))
                                        \cup (m.has \ Remembered(m.user))]

\* An empty presence takes back what is remembered.
SendNothing(m) ==
    /\ m.has = {}
    /\ recent' = Without(recent, m.user)
    /\ view' = [view EXCEPT ![m.user] = @ \ Remembered(m.user)]
    /\ UNCHANGED told

HandlePresence ==
    LET m == Head(box)
    IN /\ open
       /\ box # <<>>
       /\ box' = Tail(box)
       /\ SendObjects(m)
       /\ SendDifference(m) \/ SendNothing(m)
       /\ forgotten' = forgotten \cup (ToSet(recent) \ (ToSet(recent') \cup {m.user}))
       /\ UNCHANGED <<open, topics, world>>

Next ==
    \/ \E t \in Topic, channel \in BOOLEAN : Subscribe(t, channel)
    \/ SubscribeRefused \/ Ends \/ HandlePresence
    \/ \E gone \in SUBSET topics : Unsubscribe(gone)
    \/ \E o \in Object : ObjectChanges(o)
    \/ \E u \in User, has \in Presences : Publish(u, has)

Spec == Init /\ [][Next]_vars

-----------------------------------------------------------------------------
(* Properties. *)

\* A client that has read everything shows what the last presence of each user said, and
\* has those objects as new as that presence had them, unless a lagging or dropped
\* receiver lost it (subscription/recv.rs skips the lag).  It shows no other badge or
\* paint, unless the user once fell out of presence_lru: then nobody takes back what he
\* had.  Emote sets are never taken back, as nobody enters them in presence_lru.
ClientFollows ==
    open /\ box = <<>> =>
        \A u \in User \ lost :
            /\ latest[u].has \subseteq view[u]
            /\ \A o \in latest[u].has : knows[o] >= latest[u].version[o]
            /\ u \notin forgotten => view[u] \cap Cosmetic = latest[u].has \cap Cosmetic

\* The limit is overrun by one topic at most, the presences that come with a
\* channel (handle_subscription).
TopicsBounded == Cardinality(topics) <= Limit + 1
=============================================================================
