----------------------------- MODULE EmoteSets -----------------------------
(***************************************************************************)
(* One emote set and what its listeners are told: the v4 mutations of      *)
(* http/v4/gql/mutations/emote_set/operation.rs and the v3 mutations of    *)
(* http/v3/gql/mutations/emote_sets.  A mutation runs under the mutex of   *)
(* the set, but the v4 ones decide on a copy they loaded before they took  *)
(* it.  Emotes are deleted and merged under other mutexes.                 *)
(***************************************************************************)
EXTENDS Naturals, FiniteSets, SequencesExt

CONSTANTS Call,      \* v4 calls that hold a copy of the set
          Emote, Alias, Name,
          MaxCap,    \* the capacity the owner's permissions allow
          None

VARIABLES
    exists,     \* the document of the set is there
    entries,    \* its emotes, in their order
    cap, name,
    copy,       \* copy[c]: the set as the call c loaded it, or None
    adding,     \* the entry the call inside the mutex is adding, or None
    deleted,    \* the deleted emotes
    merged,     \* merged[e]: the emote e was merged into, or None
    heard,      \* id and alias of the entries a listener has put together
    misled,     \* a removal or renaming was decided on an outdated copy, or
                \* named one of several entries of an emote
    grown       \* the capacity was lowered on an outdated copy, or an entry
                \* counts again because its emote was merged anew

vars == <<exists, entries, cap, name, copy, adding, deleted, merged, heard, misled, grown>>

Entry == [id : Emote, alias : Alias, wide : BOOLEAN]

TypeOK ==
    /\ exists \in BOOLEAN
    /\ entries \in Seq(Entry)
    /\ cap \in 1..MaxCap
    /\ name \in Name
    /\ \A c \in Call : copy[c] # None =>
           copy[c].entries \in Seq(Entry) /\ copy[c].cap \in 1..MaxCap /\ copy[c].name \in Name
    /\ adding \in Entry \cup {None}
    /\ deleted \subseteq Emote
    /\ merged \in [Emote -> Emote \cup {None}]
    /\ heard \subseteq Emote \X Alias
    /\ misled \in BOOLEAN /\ grown \in BOOLEAN

Init ==
    /\ exists = TRUE
    /\ entries = <<>>
    /\ cap \in 1..MaxCap
    /\ name \in Name
    /\ copy = [c \in Call |-> None]
    /\ adding = None
    /\ deleted = {}
    /\ merged = [e \in Emote |-> None]
    /\ heard = {}
    /\ misled = FALSE /\ grown = FALSE

-----------------------------------------------------------------------------
Live(e) == e \notin deleted /\ merged[e] = None

Led(e, into, gone) == IF into[e] = None \/ e \in gone THEN e ELSE into[e]

LedThrice(e, into, gone) == Led(Led(Led(e, into, gone), into, gone), into, gone)

\* MergedResult::get: where nine merges lead from e; one that a tenth would reach is
\* not found.
Target(e, into, gone) ==
    LedThrice(LedThrice(LedThrice(e, into, gone), into, gone), into, gone)

\* load_many_merged: the entries that count towards the capacity.
Active(es, into) ==
    Cardinality({i \in DOMAIN es : LET t == Target(es[i].id, into, deleted)
                                   IN t \notin deleted /\ into[t] = None})

Key(entry) == <<entry.id, entry.alias>>

KeysAt(es, places) == {Key(es[i]) : i \in places}

Keys(es) == KeysAt(es, DOMAIN es)

\* A request names an emote and, if it likes, the alias of one of its entries.
Named(es, e, a) == {i \in DOMAIN es : es[i].id = e /\ a \in {None, es[i].alias}}

FirstOf(es, e) == SelectInSeq(es, LAMBDA entry : entry.id = e)

FirstAs(es, a) == SelectInSeq(es, LAMBDA entry : entry.alias = a)

\* The filter on `emotes.id` and `emotes.alias` asks for an element of each; the
\* position `$` is that of either.
Positions(e, a) ==
    LET byId == FirstOf(entries, e)
        byAlias == IF a = None THEN byId ELSE FirstAs(entries, a)
    IN IF 0 \in {byId, byAlias} THEN {} ELSE {byId, byAlias}

\* A v4 mutation of call c may run: it has its copy and the mutex is free.
Ready(c) == exists /\ adding = None /\ copy[c] # None

Listing(es) == [i \in DOMAIN es |-> Key(es[i])]

Outdated(c) == Listing(copy[c].entries) # Listing(entries)

Done(c) == copy' = [copy EXCEPT ![c] = None]

\* The loader, and check_perms on what it returned.
Load(c) ==
    /\ exists
    /\ copy[c] = None
    /\ copy' = [copy EXCEPT ![c] = [entries |-> entries, cap |-> cap, name |-> name]]
    /\ UNCHANGED <<exists, entries, cap, name, adding, deleted, merged, heard, misled, grown>>

\* An error, or a value that is the one of the copy.
Leave(c) ==
    /\ copy[c] # None
    /\ Done(c)
    /\ UNCHANGED <<exists, entries, cap, name, adding, deleted, merged, heard, misled, grown>>

SetName(c, n) ==
    /\ Ready(c)
    /\ n # copy[c].name
    /\ name' = n
    /\ Done(c)
    /\ UNCHANGED <<exists, entries, cap, adding, deleted, merged, heard, misled, grown>>

SetCapacity(c, n) ==
    /\ Ready(c)
    /\ n >= Len(copy[c].entries)
    /\ n # copy[c].cap
    /\ cap' = n
    /\ grown' = (grown \/ Outdated(c))
    /\ Done(c)
    /\ UNCHANGED <<exists, entries, name, adding, deleted, merged, heard, misled>>

\* v3 update: both at once, and the capacity also if it is the one of the copy.
Update(c, n, m) ==
    /\ Ready(c)
    /\ n >= Len(copy[c].entries)
    /\ cap' = n
    /\ name' = m
    /\ grown' = (grown \/ Outdated(c))
    /\ Done(c)
    /\ UNCHANGED <<exists, entries, adding, deleted, merged, heard, misled>>

-----------------------------------------------------------------------------
(* Adding.  The transaction reads the set and the emote, and loads the     *)
(* other emotes on the way: only the set is protected by the mutex.        *)

AddReads(e, a, wide) ==
    /\ exists
    /\ adding = None
    /\ Live(e)
    /\ adding' = [id |-> e, alias |-> a, wide |-> wide]
    /\ UNCHANGED <<exists, entries, cap, name, copy, deleted, merged, heard, misled, grown>>

\* The entry takes the place of the first with its alias if that emote is
\* deleted, else the last place.
Conflicts(entry) ==
    LET i == FirstAs(entries, entry.alias) IN i # 0 /\ entries[i].id \notin deleted

With(entry) ==
    LET i == FirstAs(entries, entry.alias)
    IN IF i = 0 THEN Append(entries, entry) ELSE [entries EXCEPT ![i] = entry]

\* Wrong variant: the set as it was is counted.
AddWritesOneMore ==
    /\ adding # None
    /\ ~Conflicts(adding)
    /\ Active(entries, merged) <= cap
    /\ entries' = With(adding)
    /\ heard' = heard \cup {Key(adding)}
    /\ adding' = None
    /\ UNCHANGED <<exists, cap, name, copy, deleted, merged, misled, grown>>

AddWrites ==
    /\ adding # None
    /\ ~Conflicts(adding)
    /\ entries' = With(adding)
    /\ Active(entries', merged) <= cap
    /\ heard' = heard \cup {Key(adding)}
    /\ adding' = None
    /\ UNCHANGED <<exists, cap, name, copy, deleted, merged, misled, grown>>

AddFails ==
    /\ adding # None
    /\ adding' = None
    /\ UNCHANGED <<exists, entries, cap, name, copy, deleted, merged, heard, misled, grown>>

-----------------------------------------------------------------------------
(* Removing, renaming and flags. *)

\* `$pull`: the entries that are not named, in the order they have.
Without(e, a) ==
    LET others == DOMAIN entries \ Named(entries, e, a)
        order == {at \in [1..Cardinality(others) -> others] :
                      \A i, j \in DOMAIN at : i < j => at[i] < at[j]}
    IN  {[i \in DOMAIN at |-> entries[at[i]]] : at \in order}

\* v4: one event for each entry of the copy.
RemoveEmote(c, e, a) ==
    /\ Ready(c)
    /\ Named(copy[c].entries, e, a) # {}
    /\ Positions(e, a) # {}
    /\ entries' \in Without(e, a)
    /\ heard' = heard \ KeysAt(copy[c].entries, Named(copy[c].entries, e, a))
    /\ misled' = (misled \/ Outdated(c))
    /\ Done(c)
    /\ UNCHANGED <<exists, cap, name, adding, deleted, merged, grown>>

\* Wrong variant: an event for the first entry only.
EmoteRemoveTellsOne(e) ==
    /\ exists /\ adding = None
    /\ FirstOf(entries, e) # 0
    /\ entries' \in Without(e, None)
    /\ heard' = heard \ {Key(entries[FirstOf(entries, e)])}
    /\ UNCHANGED <<exists, cap, name, copy, adding, deleted, merged, misled, grown>>

\* v3: on the set as it is.
EmoteRemove(e) ==
    /\ exists /\ adding = None
    /\ FirstOf(entries, e) # 0
    /\ entries' \in Without(e, None)
    /\ heard' = heard \ KeysAt(entries, Named(entries, e, None))
    /\ UNCHANGED <<exists, cap, name, copy, adding, deleted, merged, misled, grown>>

\* The RenameEmote event takes the new alias from the first entry of the emote.
Renamed(e, old, es) == (heard \ {<<e, old>>}) \cup {Key(es[FirstOf(es, e)])}

\* v4: which entry, and whether the alias is taken, is decided on the copy.
UpdateEmoteAlias(c, e, a, new) ==
    /\ Ready(c)
    /\ Named(copy[c].entries, e, a) # {}
    /\ Live(e)
    /\ FirstAs(copy[c].entries, new) = 0
    /\ \E i \in Positions(e, a) : entries' = [entries EXCEPT ![i].alias = new]
    /\ FirstOf(entries', e) # 0
    /\ heard' = Renamed(e, copy[c].entries[Min(Named(copy[c].entries, e, a))].alias, entries')
    /\ misled' = (misled \/ Outdated(c) \/ (a # None /\ Cardinality(Named(entries, e, None)) > 1))
    /\ Done(c)
    /\ UNCHANGED <<exists, cap, name, adding, deleted, merged, grown>>

\* Wrong variant: the old alias is not looked for.
EmoteUpdateUnchecked(e, new) ==
    /\ exists /\ adding = None
    /\ Live(e)
    /\ FirstOf(entries, e) # 0
    /\ entries' = [entries EXCEPT ![FirstOf(entries, e)].alias = new]
    /\ heard' = Renamed(e, entries[FirstOf(entries, e)].alias, entries')
    /\ UNCHANGED <<exists, cap, name, copy, adding, deleted, merged, misled, grown>>

\* v3: the first entry of the emote, on the set as it is.
EmoteUpdate(e, new) ==
    /\ exists /\ adding = None
    /\ Live(e)
    /\ FirstOf(entries, e) # 0
    /\ FirstAs(entries, new) = 0
    /\ entries' = [entries EXCEPT ![FirstOf(entries, e)].alias = new]
    /\ heard' = Renamed(e, entries[FirstOf(entries, e)].alias, entries')
    /\ UNCHANGED <<exists, cap, name, copy, adding, deleted, merged, misled, grown>>

\* No event is registered.
UpdateEmoteFlags(c, e, a, wide) ==
    /\ Ready(c)
    /\ Live(e)
    /\ \E i \in Positions(e, a) : entries' = [entries EXCEPT ![i].wide = wide]
    /\ Done(c)
    /\ UNCHANGED <<exists, cap, name, adding, deleted, merged, heard, misled, grown>>

Delete(c) ==
    /\ Ready(c)
    /\ exists' = FALSE
    /\ entries' = <<>>
    /\ heard' = {}
    /\ Done(c)
    /\ UNCHANGED <<cap, name, adding, deleted, merged, misled, grown>>

-----------------------------------------------------------------------------
(* The emotes, under their own mutexes. *)

EmoteDeleted(e) ==
    /\ deleted' = deleted \cup {e}
    /\ UNCHANGED <<exists, entries, cap, name, copy, adding, merged, heard, misled, grown>>

\* Neither emote is looked at: an emote can be merged again, and in a circle.
EmoteMerged(e, target) ==
    /\ merged' = [merged EXCEPT ![e] = target]
    /\ grown' = (grown \/ Active(entries, merged') > Active(entries, merged))
    /\ UNCHANGED <<exists, entries, cap, name, copy, adding, deleted, heard, misled>>

Next ==
    \/ \E c \in Call :
           \/ Load(c) \/ Leave(c) \/ Delete(c)
           \/ \E n \in Name : SetName(c, n)
           \/ \E n \in 1..MaxCap : SetCapacity(c, n) \/ \E m \in Name : Update(c, n, m)
           \/ \E e \in Emote, a \in Alias \cup {None} :
                  \/ RemoveEmote(c, e, a)
                  \/ \E new \in Alias : UpdateEmoteAlias(c, e, a, new)
                  \/ \E wide \in BOOLEAN : UpdateEmoteFlags(c, e, a, wide)
    \/ \E e \in Emote : EmoteRemove(e) \/ EmoteDeleted(e)
    \/ \E e \in Emote, a \in Alias : EmoteUpdate(e, a)
    \/ \E e \in Emote, a \in Alias, wide \in BOOLEAN : AddReads(e, a, wide)
    \/ AddWrites \/ AddFails
    \/ \E e \in Emote, target \in Emote : EmoteMerged(e, target)

Spec == Init /\ [][Next]_vars

-----------------------------------------------------------------------------
(* Properties. *)

\* Two entries never answer to one alias, except after a mutation that was
\* decided on a copy loaded before another one: the v4 rename looks for the
\* alias in its own copy of the set, the v3 one and the additions in the set.
NamesUnique ==
    misled \/ \A i, j \in DOMAIN entries : entries[i].alias = entries[j].alias => i = j

\* The entries whose emote can still be shown stay within the capacity, whatever
\* is deleted, merged, replaced or added meanwhile, unless the capacity was
\* lowered on an outdated copy or an emote was merged anew.
WithinCapacity == grown \/ Active(entries, merged) <= cap

\* A listener that applies the events one by one has the entries of the set, but
\* for deleted emotes, unless an event was made from an outdated copy.
ListenersFollow ==
    LET shown(keys) == {k \in keys : k[1] \notin deleted}
    IN misled \/ shown(heard) = shown(Keys(entries))
=============================================================================
