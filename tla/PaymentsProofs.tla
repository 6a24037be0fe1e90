---------------------------- MODULE PaymentsProofs ----------------------------
(***************************************************************************)
(* What is proved of payments, for any number of products, redemptions,    *)
(* gifts and cycles: a refresh makes the entitlements follow the periods   *)
(* (SubscriptionRefresh), a redeem code gives what it has and no more      *)
(* (RedeemCodes), the periods are what was paid and given and the age      *)
(* counts them once (SubscriptionPeriods), and what is cached of a user's  *)
(* entitlements follows the graph (Entitlements).                          *)
(***************************************************************************)
EXTENDS MCPayments, FiniteSetTheorems, WellFoundedInduction, TLAPS

View == [worth : Worth, held : BOOLEAN, gave : BOOLEAN]

\* Every variable keeps its type.
THEOREM TypeCorrect == Spec => []TypeOK
<1>1. Init => TypeOK
  <2>1. Nothing \in View
    BY DEF Nothing, View, Worth
  <2>2. ASSUME Init PROVE view \in [Product -> View]
    BY <2>1, <2>2 DEF Init
  <2>3. ASSUME Init PROVE TypeOK
    BY <2>2, <2>3 DEF Init, TypeOK, View, Worth
  <2>4. QED
    BY <2>3
<1>2. TypeOK /\ [Next]_vars => TypeOK'
  <2> SUFFICES ASSUME TypeOK, [Next]_vars PROVE TypeOK'
    OBVIOUS
  <2> USE DEF TypeOK, Goto, Forget
  <2>1. ASSUME NEW p \in Product, Read(p) PROVE TypeOK'
    BY <2>1 DEF Read
  <2>2. ASSUME NEW p \in Product, Save(p) PROVE TypeOK'
    BY <2>2 DEF Save, Due
  <2>3. ASSUME NEW p \in Product, Delete(p) PROVE TypeOK'
    BY <2>3 DEF Delete
  <2>4. ASSUME NEW p \in Product, Insert(p) PROVE TypeOK'
    BY <2>4 DEF Insert, Nothing, Worth
  <2>5. ASSUME NEW p \in Product, Find(p) \/ Create(p) \/ Style(p) PROVE TypeOK'
    <3>1. CASE Find(p)
      BY <3>1 DEF Find
    <3>2. CASE Create(p)
      BY <3>2 DEF Create
    <3>3. CASE Style(p)
      BY <3>3 DEF Style
    <3>4. QED
      BY <2>5, <3>1, <3>2, <3>3
  <2>6. ASSUME NEW p \in Product, Fail(p) PROVE TypeOK'
    BY <2>6 DEF Fail, Nothing, Worth
  <2>7. ASSUME NEW p \in Product, NEW w \in Worth, PeriodsChange(p, w) PROVE TypeOK'
    BY <2>7 DEF PeriodsChange
  <2>8. ASSUME NEW p \in Product, NEW w \in Worth, CancelSubscription(p, w) PROVE TypeOK'
    BY <2>8 DEF CancelSubscription
  <2>9. ASSUME NEW p \in Product, ReactivateSubscription(p) PROVE TypeOK'
    BY <2>9 DEF ReactivateSubscription
  <2>10. CASE Gives
    BY <2>10 DEF Gives
  <2>11. CASE UNCHANGED vars
    BY <2>11 DEF vars
  <2>12. QED
    BY <2>1, <2>2, <2>3, <2>4, <2>5, <2>6, <2>7, <2>8, <2>9, <2>10, <2>11 DEF Next
<1>3. QED
  BY <1>1, <1>2, PTL DEF Spec

\* What a refresh under way has read: the edge of the user as it is, since no other
\* refresh of the subscription writes it; and the periods, unless they have changed.
ReadInv ==
    \A p \in Product :
        /\ pc[p] \in {"save", "delete"} => (view[p].held <=> p \in edge)
        /\ pc[p] = "insert" => (p \in edge <=> view[p].held /\ Active(view[p].worth))
        /\ pc[p] \in {"save", "delete", "insert"} /\ since[p] = "read" =>
               view[p].worth = worth[p]
        /\ pc[p] \in {"delete", "insert"} /\ since[p] = "read" =>
               state[p] = Due(view[p].worth)

\* An edge to an event has been written by a refresh that went on to the personal
\* emote set: it is on its last steps, or failed there, or succeeded.
EventInv ==
    \A p \in event : style \/ p \in cut \/ pc[p] \in {"find", "create", "style"}

WrittenInv ==
    \A p \in Product :
        since[p] = "written" => pc[p] \in {"idle", "find", "create", "style"}

Inv == ReadInv /\ EventInv /\ WrittenInv /\ BenefitsFollow

\* In the end the user has what is paid for and not what is over, and one personal
\* emote set (BenefitsFollow).
THEOREM BenefitsHold == Spec => []BenefitsFollow
<1>1. Init => Inv
  BY DEF Init, Inv, ReadInv, EventInv, WrittenInv, BenefitsFollow, OnePersonalSet,
         EntitlementsFollow
<1>2. TypeOK /\ Inv /\ [Next]_vars => Inv'
  <2> SUFFICES ASSUME TypeOK, Inv, [Next]_vars PROVE Inv'
    OBVIOUS
  <2> USE DEF TypeOK, Inv, ReadInv, EventInv, WrittenInv, BenefitsFollow, OnePersonalSet,
              EntitlementsFollow, Goto, Forget
  <2>1. ASSUME NEW p \in Product, Read(p) PROVE Inv'
    <3>1. view'[p].held = (p \in edge) /\ view'[p].worth = worth[p]
      BY <2>1 DEF Read
    <3>2. \A q \in Product : q # p =>
              view'[q] = view[q] /\ pc'[q] = pc[q] /\ since'[q] = since[q]
      BY <2>1 DEF Read
    <3>3. pc'[p] = "save" /\ since'[p] = "read" /\ pc[p] = "idle"
      BY <2>1 DEF Read
    <3>4. UNCHANGED <<worth, edge, state, event, sets, style, cut>>
      BY <2>1 DEF Read
    <3>5. ReadInv'
      <4> SUFFICES ASSUME NEW q \in Product
                   PROVE  /\ pc'[q] \in {"save", "delete"} => (view'[q].held <=> q \in edge)
                          /\ pc'[q] = "insert" => (q \in edge <=> view'[q].held /\ Active(view'[q].worth))
                          /\ pc'[q] \in {"save", "delete", "insert"} /\ since'[q] = "read" =>
                                 view'[q].worth = worth[q]
                          /\ pc'[q] \in {"delete", "insert"} /\ since'[q] = "read" =>
                                 state[q] = Due(view'[q].worth)
        BY <3>4 DEF ReadInv, Active, Due
      <4>1. CASE q = p
        BY <3>1, <3>3, <4>1
      <4>2. CASE q # p
        BY <3>2, <4>2
      <4>3. QED
        BY <4>1, <4>2
    <3>6. EventInv' /\ WrittenInv'
      BY <3>2, <3>3, <3>4
    <3>7. BenefitsFollow'
      BY <3>2, <3>3, <3>4
    <3>8. QED
      BY <3>5, <3>6, <3>7
  <2>2. ASSUME NEW p \in Product, Save(p) PROVE Inv'
    BY <2>2 DEF Save
  <2>3. ASSUME NEW p \in Product, Delete(p) PROVE Inv'
    BY <2>3 DEF Delete
  <2>4. ASSUME NEW p \in Product, Insert(p) PROVE Inv'
    BY <2>4 DEF Insert, New
  <2>5. ASSUME NEW p \in Product, Find(p) PROVE Inv'
    BY <2>5 DEF Find
  <2>6. ASSUME NEW p \in Product, Create(p) PROVE Inv'
    BY <2>6 DEF Create
  <2>7. ASSUME NEW p \in Product, Style(p) PROVE Inv'
    BY <2>7 DEF Style
  <2>8. ASSUME NEW p \in Product, Fail(p) PROVE Inv'
    BY <2>8 DEF Fail
  <2>9. ASSUME NEW p \in Product, NEW w \in Worth, PeriodsChange(p, w) PROVE Inv'
    BY <2>9 DEF PeriodsChange
  <2>10. ASSUME NEW p \in Product, NEW w \in Worth, CancelSubscription(p, w) PROVE Inv'
    BY <2>10 DEF CancelSubscription
  <2>11. ASSUME NEW p \in Product, ReactivateSubscription(p) PROVE Inv'
    BY <2>11 DEF ReactivateSubscription
  <2>12. CASE Gives
    BY <2>12 DEF Gives
  <2>13. CASE UNCHANGED vars
    BY <2>13 DEF vars
  <2>14. QED
    BY <2>1, <2>2, <2>3, <2>4, <2>5, <2>6, <2>7, <2>8, <2>9, <2>10, <2>11, <2>12, <2>13
       DEF Next
<1>3. Inv => BenefitsFollow
  BY DEF Inv
<1>4. QED
  BY <1>1, <1>2, <1>3, TypeCorrect, PTL DEF Spec
-----------------------------------------------------------------------------
(* The redeem code.  What was taken and what is left are the uses of the   *)
(* code (UseInv), since an event of a check-out that lapsed is handled     *)
(* once; and an entitlement somebody misses is yet to be inserted by a     *)
(* grant of his (ChainInv).                                                *)

\* Redemptions that hold a use.
Taken == {r \in Redemption : call[r] # "idle" /\ ~(call[r] = "lapsed" /\ r \in events)}

CodeTypes ==
    /\ left \in Nat /\ dead \in BOOLEAN
    /\ call \in [Redemption -> {"idle", "taken", "answered", "lost", "open", "paid", "lapsed"}]
    /\ by \in [Redemption -> User]
    /\ at \in [Redemption -> 0..(Count + 1)]
    /\ edges \in [User -> SUBSET (1..Count)]
    /\ events \subseteq Redemption /\ back \subseteq events
    /\ granted \subseteq User /\ torn \subseteq User

\* Events are of check-outs that have ended, grants of calls and of those paid.
PhaseInv ==
    \A r \in Redemption :
        /\ r \in events => call[r] \in {"paid", "lapsed"}
        /\ at[r] # 0 => call[r] = "taken" \/ (call[r] = "paid" /\ r \notin events)

UseInv ==
    IF dead THEN left <= Cardinality(back) /\ left + Cardinality(Taken) <= Uses
    ELSE left + Cardinality(Taken) = Uses

\* Grants of u were begun.
Begun(u) == u \in granted \/ \E r \in Redemption : by[r] = u /\ at[r] # 0

\* Whatever a user misses, a grant of his is still to come to; and it is not beyond any
\* of those he has.
ChainInv ==
    \A u \in User \ torn : Begun(u) =>
        \A n \in (1..Count) \ edges[u], j \in {0} \cup edges[u] :
            j < n => \E r \in Redemption : by[r] = u /\ at[r] \in (j+1)..n

CodeInv == CodeTypes /\ PhaseInv /\ UseInv /\ ChainInv

-----------------------------------------------------------------------------

LEMMA SameCardinality == \A S : C!Cardinality(S) = Cardinality(S)
BY DEF C!Cardinality, Cardinality, C!IsFiniteSet, IsFiniteSet

LEMMA TakenFinite == IsFiniteSet(Taken) /\ Cardinality(Taken) \in Nat
<1>1. Taken \subseteq Redemption
  BY DEF Taken
<1> QED
  BY <1>1, CodesAssumption, FS_Subset, FS_CardinalityType

LEMMA TakenFinitePrime == IsFiniteSet(Taken') /\ Cardinality(Taken') \in Nat
<1>1. Taken' \subseteq Redemption
  BY DEF Taken
<1> QED
  BY <1>1, CodesAssumption, FS_Subset, FS_CardinalityType

LEMMA BackFinite ==
    ASSUME CodeTypes
    PROVE  IsFiniteSet(back) /\ Cardinality(back) \in Nat
<1>1. back \subseteq Redemption
  BY DEF CodeTypes
<1> QED
  BY <1>1, CodesAssumption, FS_Subset, FS_CardinalityType

LEMMA CodeInit == C!Init => CodeInv
<1> SUFFICES ASSUME C!Init PROVE CodeInv
  OBVIOUS
<1>1. /\ left = Uses /\ call = [r \in Redemption |-> "idle"]
      /\ by = [r \in Redemption |-> CHOOSE u \in User : TRUE]
      /\ at = [r \in Redemption |-> 0] /\ edges = [u \in User |-> {}]
      /\ events = {} /\ dead = FALSE /\ back = {} /\ granted = {} /\ torn = {}
  BY DEF C!Init
<1>2. CodeTypes
  <2>1. by \in [Redemption -> User]
    BY <1>1, CodesAssumption
  <2>2. 0 \in 0..(Count + 1)
    BY CodesAssumption
  <2> QED
    BY <1>1, <2>1, <2>2, CodesAssumption DEF CodeTypes
<1>3. PhaseInv
  BY <1>1 DEF PhaseInv
<1>4. UseInv
  <2>1. Taken = {}
    BY <1>1 DEF Taken
  <2> QED
    BY <1>1, <2>1, FS_EmptySet, CodesAssumption DEF UseInv
<1>5. ChainInv
  BY <1>1 DEF ChainInv, Begun
<1> QED
  BY <1>2, <1>3, <1>4, <1>5 DEF CodeInv

\* What a step does not touch stays as it is.
LEMMA UsesStay ==
    ASSUME UseInv, UNCHANGED <<left, dead, back>>, Taken' = Taken
    PROVE  UseInv'
BY DEF UseInv

LEMMA ChainStays ==
    ASSUME ChainInv, CodeTypes, UNCHANGED <<by, edges, granted>>, torn \subseteq torn',
           NEW r \in Redemption, at' = at \/ at' = [at EXCEPT ![r] = 0],
           at' = at \/ at[r] = Count + 1 \/ by[r] \in torn'
    PROVE  ChainInv'
<1> SUFFICES ASSUME NEW u \in User \ torn', Begun(u)',
                    NEW n \in (1..Count) \ edges[u], NEW j \in {0} \cup edges[u], j < n
             PROVE  \E q \in Redemption : by[q] = u /\ at'[q] \in (j+1)..n
  BY DEF ChainInv
<1>1. at' = at \/ \A q \in Redemption : at'[q] = IF q = r THEN 0 ELSE at[q]
  BY DEF CodeTypes
<1>2. Begun(u)
  BY <1>1 DEF Begun
<1>3. PICK q \in Redemption : by[q] = u /\ at[q] \in (j+1)..n
  BY <1>2 DEF ChainInv
<1>4. q = r => at' = at
  BY <1>3, CodesAssumption
<1> QED
  BY <1>1, <1>3, <1>4

\* Redemptions that hold a use hold it until they lapse.
LEMMA TakenStays ==
    ASSUME NEW r \in Redemption,
           \A q \in Redemption \ {r} : call'[q] = call[q] /\ (q \in events' <=> q \in events),
           (r \in Taken) <=> (r \in Taken')
    PROVE  Taken' = Taken
<1> SUFFICES ASSUME NEW q \in Redemption PROVE q \in Taken <=> q \in Taken'
  BY DEF Taken
<1>1. CASE q = r
  BY <1>1
<1>2. CASE q # r
  BY <1>2 DEF Taken
<1> QED
  BY <1>1, <1>2

\* A use is taken.
LEMMA TakeStep ==
    ASSUME CodeInv, NEW r \in Redemption, NEW u \in User, C!Take(r, u)
    PROVE  CodeInv'
<1>0. CodeTypes /\ PhaseInv /\ UseInv /\ ChainInv
  BY DEF CodeInv
<1>1. /\ call[r] = "idle" /\ left > 0 /\ left' = left - 1
      /\ by' = [by EXCEPT ![r] = u] /\ call' = [call EXCEPT ![r] = "taken"]
      /\ UNCHANGED <<at, edges, events, dead, back, granted, torn>>
  BY DEF C!Take, C!Goto
<1>2. r \notin events /\ at[r] = 0
  BY <1>0, <1>1 DEF PhaseInv
<1>3. CodeTypes'
  BY <1>0, <1>1 DEF CodeTypes
<1>4. PhaseInv'
  BY <1>0, <1>1, <1>2 DEF PhaseInv, CodeTypes
<1>5. UseInv'
  <2>1. Taken' = Taken \cup {r} /\ r \notin Taken
    BY <1>0, <1>1, <1>2 DEF Taken, CodeTypes
  <2>2. Cardinality(Taken') = Cardinality(Taken) + 1
    BY <2>1, TakenFinite, FS_AddElement
  <2> QED
    BY <1>0, <1>1, <2>2, TakenFinite, BackFinite, CodesAssumption DEF UseInv, CodeTypes
<1>6. ChainInv'
  <2> SUFFICES ASSUME NEW v \in User \ torn, Begun(v)',
                      NEW n \in (1..Count) \ edges[v], NEW j \in {0} \cup edges[v], j < n
               PROVE  \E q \in Redemption : by'[q] = v /\ at[q] \in (j+1)..n
    BY <1>1 DEF ChainInv
  <2>1. \A q \in Redemption : by'[q] = IF q = r THEN u ELSE by[q]
    BY <1>0, <1>1 DEF CodeTypes
  <2>2. Begun(v)
    BY <1>1, <1>2, <2>1 DEF Begun
  <2>3. PICK q \in Redemption : by[q] = v /\ at[q] \in (j+1)..n
    BY <1>0, <2>2 DEF ChainInv
  <2>4. q # r
    <3>1. 0 \notin (j+1)..n
      BY <1>0 DEF CodeTypes
    <3> QED
      BY <1>2, <2>3, <3>1
  <2> QED
    BY <2>1, <2>3, <2>4
<1> QED
  BY <1>3, <1>4, <1>5, <1>6 DEF CodeInv

\* The call goes on, and a check-out ends.
LEMMA CallStep ==
    ASSUME CodeInv, NEW r \in Redemption,
           C!CallFails(r) \/ C!CheckOut(r) \/ C!Pay(r) \/ C!Lapse(r)
    PROVE  CodeInv'
<1>0. CodeTypes /\ PhaseInv /\ UseInv /\ ChainInv
  BY DEF CodeInv
<1>1. /\ UNCHANGED <<left, by, at, edges, events, dead, back, granted, torn>>
      /\ \/ call[r] = "taken" /\ at[r] = 0 /\ call' = [call EXCEPT ![r] = "lost"]
         \/ call[r] = "taken" /\ at[r] = 0 /\ call' = [call EXCEPT ![r] = "open"]
         \/ call[r] = "open" /\ call' = [call EXCEPT ![r] = "paid"]
         \/ call[r] = "open" /\ call' = [call EXCEPT ![r] = "lapsed"]
  BY DEF C!CallFails, C!CheckOut, C!Pay, C!Lapse, C!Goto
<1>2. r \notin events /\ at[r] = 0
  BY <1>0, <1>1 DEF PhaseInv
<1>3. CodeTypes'
  BY <1>0, <1>1 DEF CodeTypes
<1>4. PhaseInv'
  BY <1>0, <1>1, <1>2 DEF PhaseInv, CodeTypes
<1>5. Taken' = Taken
  BY <1>0, <1>1, <1>2 DEF Taken, CodeTypes
<1>6. ChainInv'
  BY <1>0, <1>1, ChainStays
<1> QED
  BY <1>0, <1>1, <1>3, <1>4, <1>5, <1>6, UsesStay DEF CodeInv

\* The use of a check-out that lapsed comes back, and its event is noted.
LEMMA ExpiredStep ==
    ASSUME CodeInv, NEW r \in Redemption, C!Expired(r)
    PROVE  CodeInv'
<1>0. CodeTypes /\ PhaseInv /\ UseInv /\ ChainInv
  BY DEF CodeInv
<1>1. /\ call[r] = "lapsed" /\ at[r] = 0 /\ r \notin events
      /\ left' = left + 1 /\ events' = events \cup {r} /\ back' = back \cup {r}
      /\ UNCHANGED <<call, by, at, edges, dead, granted, torn>>
  BY DEF C!Expired, C!Fresh
<1>2. CodeTypes'
  BY <1>0, <1>1 DEF CodeTypes
<1>3. PhaseInv'
  BY <1>0, <1>1 DEF PhaseInv
<1>4. UseInv'
  <2>1. Taken' = Taken \ {r} /\ r \in Taken
    BY <1>1 DEF Taken
  <2>2. Cardinality(Taken') = Cardinality(Taken) - 1
    BY <2>1, TakenFinite, FS_RemoveElement
  <2>3. Cardinality(back') = Cardinality(back) + 1
    <3>1. r \notin back
      BY <1>0, <1>1 DEF CodeTypes
    <3> QED
      BY <1>0, <1>1, <3>1, BackFinite, FS_AddElement
  <2> QED
    BY <1>0, <1>1, <2>2, <2>3, TakenFinite, BackFinite, CodesAssumption DEF UseInv, CodeTypes
<1>5. ChainInv'
  BY <1>0, <1>1, ChainStays
<1> QED
  BY <1>2, <1>3, <1>4, <1>5 DEF CodeInv

LEMMA DeactivateStep ==
    ASSUME CodeInv, C!Deactivate
    PROVE  CodeInv'
<1>0. CodeTypes /\ PhaseInv /\ UseInv /\ ChainInv
  BY DEF CodeInv
<1>1. /\ left' = 0 /\ dead' = TRUE /\ back' = {}
      /\ UNCHANGED <<call, by, at, edges, events, granted, torn>>
  BY DEF C!Deactivate
<1>2. CodeTypes'
  BY <1>0, <1>1 DEF CodeTypes
<1>3. PhaseInv' /\ Taken' = Taken
  BY <1>0, <1>1 DEF PhaseInv, Taken
<1>4. UseInv'
  BY <1>0, <1>1, <1>3, TakenFinite, FS_EmptySet, CodesAssumption DEF UseInv, CodeTypes
<1>5. ChainInv'
  BY <1>0, <1>1 DEF ChainInv, Begun
<1> QED
  BY <1>2, <1>3, <1>4, <1>5 DEF CodeInv

\* A grant begins with nothing, and has everything before it.
LEMMA DeleteStep ==
    ASSUME CodeInv, NEW r \in Redemption, C!DeleteEdges(r)
    PROVE  CodeInv'
<1>0. CodeTypes /\ PhaseInv /\ UseInv /\ ChainInv
  BY DEF CodeInv
<1>1. /\ (call[r] = "taken" /\ at[r] = 0) \/ (call[r] = "paid" /\ at[r] = 0 /\ r \notin events)
      /\ edges' = [edges EXCEPT ![by[r]] = {}] /\ at' = [at EXCEPT ![r] = 1]
      /\ UNCHANGED <<left, call, by, events, dead, back, granted, torn>>
  BY DEF C!DeleteEdges, C!Fresh
<1>2. /\ \A q \in Redemption : at'[q] = IF q = r THEN 1 ELSE at[q]
      /\ \A u \in User : edges'[u] = IF u = by[r] THEN {} ELSE edges[u]
      /\ by[r] \in User
  BY <1>0, <1>1 DEF CodeTypes
<1>3. CodeTypes'
  <2>1. 1 \in 0..(Count + 1)
    BY CodesAssumption
  <2> QED
    BY <1>0, <1>1, <2>1 DEF CodeTypes
<1>4. PhaseInv' /\ Taken' = Taken
  BY <1>0, <1>1, <1>2 DEF PhaseInv, Taken
<1>5. ChainInv'
  <2> SUFFICES ASSUME NEW u \in User \ torn, Begun(u)',
                      NEW n \in (1..Count) \ edges'[u], NEW j \in {0} \cup edges'[u], j < n
               PROVE  \E q \in Redemption : by[q] = u /\ at'[q] \in (j+1)..n
    BY <1>1 DEF ChainInv
  <2>1. CASE u = by[r]
    <3>1. j = 0 /\ n \in Int
      BY <1>2, <2>1, CodesAssumption
    <3>2. 1 \in (j+1)..n
      BY <3>1
    <3> QED
      BY <1>2, <2>1, <3>2
  <2>2. CASE u # by[r]
    <3>1. Begun(u)
      BY <1>1, <1>2, <2>2 DEF Begun
    <3>2. PICK q \in Redemption : by[q] = u /\ at[q] \in (j+1)..n
      BY <1>0, <1>2, <2>2, <3>1 DEF ChainInv
    <3> QED
      BY <1>2, <2>2, <3>2
  <2> QED
    BY <2>1, <2>2
<1> QED
  BY <1>0, <1>1, <1>3, <1>4, <1>5, UsesStay DEF CodeInv

\* What is inserted is missed no more, and the grant goes on to the next.
LEMMA InsertStep ==
    ASSUME CodeInv, NEW r \in Redemption, C!InsertEdge(r)
    PROVE  CodeInv'
<1>0. CodeTypes /\ PhaseInv /\ UseInv /\ ChainInv
  BY DEF CodeInv
<1> DEFINE k == at[r]
<1>1. /\ k \in 1..Count /\ k \notin edges[by[r]]
      /\ edges' = [edges EXCEPT ![by[r]] = @ \cup {k}] /\ at' = [at EXCEPT ![r] = k + 1]
      /\ UNCHANGED <<left, call, by, events, dead, back, granted, torn>>
  BY <1>0 DEF C!InsertEdge, CodeTypes
<1>2. /\ \A q \in Redemption : at'[q] = IF q = r THEN k + 1 ELSE at[q]
      /\ \A u \in User : edges'[u] = IF u = by[r] THEN edges[u] \cup {k} ELSE edges[u]
      /\ by[r] \in User /\ k \in Int /\ k # 0 /\ k + 1 # 0 /\ at[r] = k
  <2>1. k \in Int /\ k # 0 /\ k + 1 # 0
    BY <1>1, CodesAssumption
  <2> QED
    BY <1>0, <1>1, <2>1 DEF CodeTypes
<1> HIDE DEF k
<1>3. CodeTypes'
  <2>1. k + 1 \in 0..(Count + 1)
    BY <1>1, CodesAssumption
  <2> QED
    BY <1>0, <1>1, <2>1 DEF CodeTypes
<1>4. PhaseInv' /\ Taken' = Taken
  BY <1>0, <1>1, <1>2 DEF PhaseInv, Taken
<1>5. ChainInv'
  <2> SUFFICES ASSUME NEW u \in User \ torn, Begun(u)',
                      NEW n \in (1..Count) \ edges'[u], NEW j \in {0} \cup edges'[u], j < n
               PROVE  \E q \in Redemption : by[q] = u /\ at'[q] \in (j+1)..n
    BY <1>1 DEF ChainInv
  <2>0. n \in Int /\ j \in Int /\ n \notin edges[u] /\ edges[u] \subseteq 1..Count
    BY <1>0, <1>2, <1>3, CodesAssumption DEF CodeTypes
  <2>1. Begun(u)
    BY <1>1, <1>2 DEF Begun
  <2>2. CASE j \in {0} \cup edges[u]
    <3>1. PICK q \in Redemption : by[q] = u /\ at[q] \in (j+1)..n
      BY <1>0, <2>0, <2>1, <2>2 DEF ChainInv
    <3>2. CASE q # r
      BY <1>2, <3>1, <3>2
    <3>3. CASE q = r
      <4>1. k # n
        BY <1>2, <3>1, <3>3
      <4>2. k + 1 \in (j+1)..n
        BY <1>2, <2>0, <3>1, <3>3, <4>1
      <4> QED
        BY <1>2, <3>1, <3>3, <4>2
    <3> QED
      BY <3>2, <3>3
  <2>3. CASE j \notin {0} \cup edges[u]
    <3>1. u = by[r] /\ j = k
      BY <1>2, <2>3
    <3>2. k + 1 \in (j+1)..n
      BY <1>2, <2>0, <3>1
    <3> QED
      BY <1>2, <3>1, <3>2
  <2> QED
    BY <2>2, <2>3
<1> QED
  BY <1>0, <1>1, <1>3, <1>4, <1>5, UsesStay DEF CodeInv

\* What is there already was inserted by another, who came further or has ended in torn.
LEMMA DuplicateStep ==
    ASSUME CodeInv, NEW r \in Redemption, C!Duplicate(r)
    PROVE  CodeInv'
<1>0. CodeTypes /\ PhaseInv /\ UseInv /\ ChainInv
  BY DEF CodeInv
<1>1. /\ at[r] \in 1..Count /\ at[r] \in edges[by[r]] /\ at' = [at EXCEPT ![r] = 0]
      /\ (call[r] = "taken" /\ call' = [call EXCEPT ![r] = "lost"]) \/ (call[r] # "taken" /\ call' = call)
      /\ UNCHANGED <<left, by, edges, events, dead, back, granted, torn>>
  BY DEF C!Duplicate, C!Ends, C!Goto
<1>2. /\ \A q \in Redemption : at'[q] = IF q = r THEN 0 ELSE at[q]
      /\ at[r] # 0 /\ at[r] \in Int
  BY <1>0, <1>1, CodesAssumption DEF CodeTypes
<1>3. CodeTypes'
  <2>1. 0 \in 0..(Count + 1)
    BY CodesAssumption
  <2> QED
    BY <1>0, <1>1, <2>1 DEF CodeTypes
<1>4. PhaseInv' /\ Taken' = Taken
  BY <1>0, <1>1, <1>2 DEF PhaseInv, Taken, CodeTypes
<1>5. ChainInv'
  <2> SUFFICES ASSUME NEW u \in User \ torn, Begun(u)',
                      NEW n \in (1..Count) \ edges[u], NEW j \in {0} \cup edges[u], j < n
               PROVE  \E q \in Redemption : by[q] = u /\ at'[q] \in (j+1)..n
    BY <1>1 DEF ChainInv
  <2>0. n \in Int /\ j \in Int
    BY <1>0, CodesAssumption DEF CodeTypes
  <2>1. Begun(u)
    BY <1>1, <1>2 DEF Begun
  <2>2. PICK q \in Redemption : by[q] = u /\ at[q] \in (j+1)..n
    BY <1>0, <2>1 DEF ChainInv
  <2>3. CASE q # r
    BY <1>2, <2>2, <2>3
  <2>4. CASE q = r
    <3>1. at[r] \in edges[u] /\ at[r] < n
      <4>1. at[r] \in edges[u] /\ at[r] <= n /\ at[r] # n
        BY <1>1, <2>0, <2>2, <2>4
      <4> QED
        BY <1>2, <2>0, <4>1
    <3>2. PICK p \in Redemption : by[p] = u /\ at[p] \in (at[r]+1)..n
      BY <1>0, <2>1, <3>1 DEF ChainInv
    <3>3. p # r /\ at[p] \in (j+1)..n
      BY <1>2, <2>0, <2>2, <2>4, <3>2
    <3> QED
      BY <1>2, <3>2, <3>3
  <2> QED
    BY <2>3, <2>4
<1> QED
  BY <1>0, <1>1, <1>3, <1>4, <1>5, UsesStay DEF CodeInv

LEMMA FailsStep ==
    ASSUME CodeInv, NEW r \in Redemption, C!GrantFails(r)
    PROVE  CodeInv'
<1>0. CodeTypes /\ PhaseInv /\ UseInv /\ ChainInv
  BY DEF CodeInv
<1>1. /\ at[r] # 0 /\ at' = [at EXCEPT ![r] = 0]
      /\ (call[r] = "taken" /\ call' = [call EXCEPT ![r] = "lost"]) \/ (call[r] # "taken" /\ call' = call)
      /\ torn' = IF at[r] <= Count THEN torn \cup {by[r]} ELSE torn
      /\ UNCHANGED <<left, by, edges, events, dead, back, granted>>
  BY DEF C!GrantFails, C!Ends, C!Goto
<1>2. /\ \A q \in Redemption : at'[q] = IF q = r THEN 0 ELSE at[q]
      /\ at[r] \in 0..(Count+1) /\ by[r] \in User
  BY <1>0, <1>1, CodesAssumption DEF CodeTypes
<1>3. CodeTypes'
  <2>1. 0 \in 0..(Count + 1)
    BY CodesAssumption
  <2> QED
    BY <1>0, <1>1, <1>2, <2>1 DEF CodeTypes
<1>4. PhaseInv' /\ Taken' = Taken
  BY <1>0, <1>1, <1>2 DEF PhaseInv, Taken, CodeTypes
<1>5. ChainInv'
  <2>1. at[r] = Count + 1 \/ by[r] \in torn'
    BY <1>1, <1>2, CodesAssumption
  <2>2. torn \subseteq torn'
    BY <1>1
  <2> QED
    BY <1>0, <1>1, <2>1, <2>2, ChainStays
<1> QED
  BY <1>0, <1>1, <1>3, <1>4, <1>5, UsesStay DEF CodeInv

\* Who is told has begun before, and nothing is expected of a grant that is through.
LEMMA GrantedStep ==
    ASSUME CodeInv, NEW r \in Redemption, C!Granted(r)
    PROVE  CodeInv'
<1>0. CodeTypes /\ PhaseInv /\ UseInv /\ ChainInv
  BY DEF CodeInv
<1>1. /\ at[r] = Count + 1 /\ at' = [at EXCEPT ![r] = 0] /\ granted' = granted \cup {by[r]}
      /\ \/ call[r] = "taken" /\ call' = [call EXCEPT ![r] = "answered"] /\ events' = events
         \/ call[r] # "taken" /\ call' = call /\ events' = events \cup {r}
      /\ UNCHANGED <<left, by, edges, dead, back, torn>>
  BY DEF C!Granted, C!Goto
<1>2. /\ \A q \in Redemption : at'[q] = IF q = r THEN 0 ELSE at[q]
      /\ at[r] # 0 /\ by[r] \in User
  BY <1>0, <1>1, CodesAssumption DEF CodeTypes
<1>3. call[r] = "taken" \/ (call[r] = "paid" /\ r \notin events)
  BY <1>0, <1>2 DEF PhaseInv
<1>4. CodeTypes'
  <2>1. 0 \in 0..(Count + 1)
    BY CodesAssumption
  <2> QED
    BY <1>0, <1>1, <1>2, <2>1 DEF CodeTypes
<1>5. PhaseInv' /\ Taken' = Taken
  BY <1>0, <1>1, <1>2, <1>3 DEF PhaseInv, Taken, CodeTypes
<1>6. ChainInv'
  <2> SUFFICES ASSUME NEW u \in User \ torn, Begun(u)',
                      NEW n \in (1..Count) \ edges[u], NEW j \in {0} \cup edges[u], j < n
               PROVE  \E q \in Redemption : by[q] = u /\ at'[q] \in (j+1)..n
    BY <1>1 DEF ChainInv
  <2>1. Begun(u)
    BY <1>1, <1>2 DEF Begun
  <2>2. PICK q \in Redemption : by[q] = u /\ at[q] \in (j+1)..n
    BY <1>0, <2>1 DEF ChainInv
  <2>3. q # r
    BY <1>1, <2>2, CodesAssumption
  <2> QED
    BY <1>2, <2>2, <2>3
<1> QED
  BY <1>0, <1>1, <1>4, <1>5, <1>6, UsesStay DEF CodeInv

LEMMA CodeKeeps ==
    ASSUME CodeInv, [C!Next]_(C!vars)
    PROVE  CodeInv'
<1>1. CASE UNCHANGED C!vars
  <2>1. UNCHANGED <<left, call, by, at, edges, events, dead, back, granted, torn>>
    BY <1>1 DEF C!vars
  <2> QED
    BY <2>1 DEF CodeInv, CodeTypes, PhaseInv, UseInv, ChainInv, Begun, Taken
<1> QED
  BY <1>1, TakeStep, CallStep, ExpiredStep, DeactivateStep, DeleteStep, InsertStep,
     DuplicateStep, FailsStep, GrantedStep DEF C!Next

\* No use is made twice, and who was told to have the entitlements of the code has them
\* all, though it be redeemed by several calls at once and an event be told twice
\* (redeem_code_inner, grant_entitlements).
THEOREM CodesAlwaysHold == C!Spec => []CodesHold
<1>1. CodeInv => CodesHold
  <2> SUFFICES ASSUME CodeInv PROVE C!UsesAddUp /\ C!GrantedStay
    BY DEF CodesHold, C!CodesHold
  <2>0. CodeTypes /\ UseInv /\ ChainInv
    BY DEF CodeInv
  <2>1. C!UsesAddUp
    BY <2>0, SameCardinality DEF C!UsesAddUp, UseInv, Taken
  <2>2. ASSUME NEW u \in granted \ torn, ~(edges[u] = 1..Count)
        PROVE  \E r \in Redemption : by[r] = u /\ at[r] \in 1..Count
    <3>1. u \in User \ torn /\ edges[u] \subseteq 1..Count /\ Begun(u)
      BY <2>0, <2>2 DEF CodeTypes, Begun
    <3>2. PICK n \in (1..Count) \ edges[u] : TRUE
      BY <2>2, <3>1
    <3>3. n \in Int /\ 0 < n /\ n <= Count
      BY <3>2, CodesAssumption
    <3>4. PICK r \in Redemption : by[r] = u /\ at[r] \in (0+1)..n
      BY <2>0, <3>1, <3>2, <3>3 DEF ChainInv
    <3>5. at[r] \in 1..Count
      BY <3>3, <3>4, CodesAssumption
    <3> QED
      BY <3>4, <3>5
  <2>3. C!GrantedStay
    BY <2>2 DEF C!GrantedStay
  <2> QED
    BY <2>1, <2>3
<1> QED
  BY <1>1, CodeInit, CodeKeeps, PTL DEF C!Spec

-----------------------------------------------------------------------------
(* The periods.  An invoice has an event that waits or a period, not both  *)
(* (InvoiceInv); a gift that is looked at goes after all others (GiftInv); *)
(* and of the last invoice there is either what the provider says now or   *)
(* an event that is still to tell it (PlaceInv, RenewInv, DeadInv).        *)

PeriodTypes ==
    /\ now \in 0..MaxTime
    /\ sub \in [provider : {"stripe", "paypal"}, live : BOOLEAN, renews : BOOLEAN,
                bill : 0..(MaxTime + 1), from : Nat, changes : Nat]
    /\ crossed \in BOOLEAN /\ hurried \subseteq Gift
    /\ periods \in Seq(P!Period)

\* A subscription that lives was charged in this cycle; one at PayPal is only ever cancelled.
SubInv ==
    /\ sub.bill <= now + 1 /\ sub.from <= now
    /\ sub.live => sub.from = now /\ sub.bill >= 1
    /\ sub.provider = "paypal" => sub.bill >= 1 /\ (sub.changes > 0 => ~sub.renews)

PaidEvent(e) ==
    e.kind = "paid" /\ e.inv \in 1..sub.bill /\ e = [kind |-> "paid", inv |-> e.inv]
GiftEvent(e) ==
    e.kind = "gift" /\ e.inv \in Gift /\ e.created \in 0..now /\ e.length \in GiftLength
ChangedEvent(e) ==
    /\ e.kind = "changed" /\ e.inv \in 0..sub.bill /\ e.no \in 1..sub.changes /\ e.renews \in BOOLEAN
    /\ e.no = sub.changes /\ e.inv = sub.bill => e.renews = sub.renews
    /\ sub.provider = "paypal" => e.inv = sub.bill
EndedEvent(e) ==
    e.kind = "ended" /\ e.at \in 0..now /\ ~sub.live /\ sub.bill >= 1

SentInv ==
    /\ seen \subseteq sent
    /\ \A e \in sent : PaidEvent(e) \/ GiftEvent(e) \/ ChangedEvent(e) \/ EndedEvent(e)
    /\ \A e, f \in sent : e.kind = "gift" /\ f.kind = "gift" /\ e.inv = f.inv => e = f

\* Changes are told in their order, and the last one was.
ChangesInv ==
    /\ \A e, f \in sent : e.kind = "changed" /\ f.kind = "changed" =>
           /\ e.no = f.no => e = f
           /\ e.no < f.no => e.inv <= f.inv
    /\ sub.changes > 0 => \E e \in sent : e.kind = "changed" /\ e.no = sub.changes

LooksInv ==
    /\ \A l \in looks : /\ l.event \in sent \ seen /\ l.event.kind \in {"paid", "gift"}
                        /\ l.period \in P!Period /\ l.period.inv = l.event.inv
    /\ \A l, k \in looks : l.event = k.event => l = k

InvoiceInv ==
    /\ \A i \in DOMAIN periods :
           /\ P!OfProvider(i) => periods[i].inv <= sub.bill
           /\ periods[i].inv \in Gift => \E e \in sent : e.kind = "gift" /\ e.inv = periods[i].inv
           /\ \A e \in sent \ seen : e.kind \in {"paid", "gift"} => e.inv # periods[i].inv
    /\ P!OnePeriodPerInvoice

\* Gifts that were neither late nor together.
Calm(p) == p.inv \in Gift \ hurried

GiftInv ==
    /\ \A i, j \in DOMAIN periods :
           i # j /\ Calm(periods[i]) /\ Calm(periods[j]) =>
               periods[i].end <= periods[j].start \/ periods[j].end <= periods[i].start
    /\ \A l \in looks, i \in DOMAIN periods :
           Calm(l.period) /\ Calm(periods[i]) => periods[i].end <= l.period.start
    /\ \A l, k \in looks : Calm(l.period) /\ Calm(k.period) => l = k

\* Where a period of the provider lies.
Placed(p) ==
    IF p.inv = sub.bill THEN p.start = sub.from /\ (p.end = sub.from + 1 \/ (p.end <= now /\ ~sub.live))
    ELSE p.end <= sub.from

PlaceInv ==
    ~crossed => /\ \A i \in DOMAIN periods : P!OfProvider(i) => Placed(periods[i])
                /\ \A l \in looks : l.event.kind = "paid" => Placed(l.period)

\* The last change of the subscription waits to be told of.
ChangeWaits ==
    \E e \in sent \ seen : e.kind = "changed" /\ e.no = sub.changes /\ e.inv = sub.bill

RenewInv ==
    ~crossed /\ sub.live /\ ~ChangeWaits =>
        /\ \A i \in DOMAIN periods : periods[i].inv = sub.bill => periods[i].renews = sub.renews
        /\ \A l \in looks : l.event.kind = "paid" /\ l.event.inv = sub.bill => l.period.renews = sub.renews

\* The end of the subscription is a cycle ago, or waits to be told of, or was told.
DeadInv ==
    ~crossed /\ ~sub.live /\ sub.bill >= 1 =>
        \/ sub.from + 1 <= now
        \/ \E e \in sent \ seen : e.kind = "ended"
        \/ /\ \A e \in sent \ seen : e.kind = "paid" => e.inv # sub.bill
           /\ \A i \in DOMAIN periods : periods[i].inv = sub.bill => periods[i].end <= now

PeriodInv ==
    /\ PeriodTypes /\ SubInv /\ SentInv /\ ChangesInv /\ LooksInv
    /\ InvoiceInv /\ GiftInv /\ PlaceInv /\ RenewInv /\ DeadInv

\* There is a least number among some.
LEMMA LeastNumber ==
    ASSUME NEW T \in SUBSET Nat, T # {}
    PROVE  \E n \in T : \A m \in T : n <= m
<1>1. PICK n \in T : \A m \in T : ~(<<m, n>> \in OpToRel(<, Nat))
  BY WFMin, NatLessThanWellFounded, Zenon
<1>2. ASSUME NEW m \in T PROVE ~(m < n)
  <2>1. m < n => <<m, n>> \in OpToRel(<, Nat)
    <3>1. <<m, n>> \in Nat \X Nat
      OBVIOUS
    <3>2. <<m, n>>[1] = m /\ <<m, n>>[2] = n
      OBVIOUS
    <3> QED
      BY <3>1, <3>2, Zenon DEF OpToRel
  <2> QED
    BY <1>1, <2>1, Zenon
<1>3. n \in Nat /\ \A m \in T : m \in Nat /\ ~(m < n)
  BY <1>2
<1>4. \A m \in T : n <= m
  BY <1>3
<1> QED
  BY <1>4

\* Bounded numbers have a greatest one.
LEMMA MaxIs ==
    ASSUME NEW S \in SUBSET Nat, S # {}, NEW b \in Nat, \A x \in S : x <= b
    PROVE  P!Max(S) \in S /\ \A x \in S : P!Max(S) >= x
<1> DEFINE U == {n \in Nat : \A x \in S : x <= n}
<1>1. PICK n \in U : \A m \in U : n <= m
  <2>1. U # {} /\ U \in SUBSET Nat
    OBVIOUS
  <2> HIDE DEF U
  <2> QED
    BY <2>1, LeastNumber
<1>2. n \in S
  <2> SUFFICES ASSUME n \notin S PROVE FALSE
    OBVIOUS
  <2>1. n \in Nat /\ \A x \in S : x <= n /\ x # n /\ x \in Nat
    BY <1>1
  <2>2. \A x \in S : x <= n - 1
    BY <2>1
  <2>3. n - 1 \in Nat
    <3>1. PICK x \in S : TRUE
      OBVIOUS
    <3>2. x \in Nat /\ x <= n - 1
      BY <2>1, <2>2, <3>1
    <3> QED
      BY <2>1, <3>2
  <2>4. n - 1 \in U
    BY <2>2, <2>3
  <2> QED
    BY <1>1, <2>1, <2>4
<1> QED
  BY <1>1, <1>2 DEF P!Max

\* An element of a sequence is replaced.
LEMMA Replaced ==
    ASSUME NEW S, NEW s \in Seq(S), NEW i \in 1..Len(s), NEW x \in S
    PROVE  /\ [s EXCEPT ![i] = x] \in Seq(S)
           /\ Len([s EXCEPT ![i] = x]) = Len(s)
           /\ \A n \in 1..Len(s) : [s EXCEPT ![i] = x][n] = IF n = i THEN x ELSE s[n]
OBVIOUS

LEMMA PeriodFields ==
    ASSUME NEW p \in P!Period
    PROVE  /\ p.inv \in {0} \cup 1..(MaxTime + 1) \cup Gift
           /\ p.start \in Nat /\ p.end \in Nat /\ p.renews \in BOOLEAN
BY DEF P!Period, P!System, P!Bill

LEMMA PeriodIs ==
    ASSUME PeriodTypes
    PROVE  /\ DOMAIN periods = 1..Len(periods) /\ Len(periods) \in Nat
           /\ \A i \in 1..Len(periods) :
                  /\ periods[i] \in P!Period
                  /\ periods[i].inv \in {0} \cup 1..(MaxTime + 1) \cup Gift
                  /\ periods[i].start \in Nat /\ periods[i].end \in Nat /\ periods[i].renews \in BOOLEAN
                  /\ P!OfProvider(i) <=> periods[i].inv \in 1..(MaxTime + 1)
BY PeriodFields DEF PeriodTypes, P!OfProvider, P!Bill

LEMMA SubIs ==
    ASSUME PeriodTypes
    PROVE  /\ sub.provider \in {"stripe", "paypal"} /\ sub.live \in BOOLEAN /\ sub.renews \in BOOLEAN
           /\ sub.bill \in Nat /\ sub.bill <= MaxTime + 1 /\ sub.from \in Nat /\ sub.changes \in Nat
           /\ now \in Nat /\ now <= MaxTime /\ MaxTime \in Nat
BY PeriodsAssumption DEF PeriodTypes

\* The paid events and the gifts tell their invoices apart.
LEMMA OneEvent ==
    ASSUME SentInv, PeriodTypes,
           NEW e \in sent, NEW f \in sent,
           e.kind \in {"paid", "gift"}, f.kind \in {"paid", "gift"}, e.inv = f.inv
    PROVE  e = f
<1>1. e.kind = "paid" => PaidEvent(e) /\ e.inv \notin Gift
  BY SubIs, PeriodsAssumption DEF SentInv, PaidEvent, GiftEvent, ChangedEvent, EndedEvent
<1>2. f.kind = "paid" => PaidEvent(f) /\ f.inv \notin Gift
  BY SubIs, PeriodsAssumption DEF SentInv, PaidEvent, GiftEvent, ChangedEvent, EndedEvent
<1>3. (e.kind = "gift" => e.inv \in Gift) /\ (f.kind = "gift" => f.inv \in Gift)
  BY DEF SentInv, PaidEvent, GiftEvent, ChangedEvent, EndedEvent
<1>4. CASE e.kind = "paid"
  BY <1>1, <1>2, <1>3, <1>4 DEF PaidEvent
<1>5. CASE e.kind = "gift"
  <2>1. f.kind = "gift"
    BY <1>2, <1>3, <1>5
  <2> QED
    BY <1>5, <2>1 DEF SentInv
<1> QED
  BY <1>4, <1>5

\* A period of the provider was paid.
LEMMA LookIs ==
    ASSUME SentInv, LooksInv, PeriodTypes, NEW l \in looks
    PROVE  /\ l.event \in sent /\ l.event \notin seen
           /\ l.event.kind = "paid" <=> l.period.inv \in 1..(MaxTime + 1)
           /\ l.event.kind = "gift" <=> l.period.inv \in Gift
           /\ l.event.kind = "paid" => l.event.inv \in 1..sub.bill
           /\ l.period.inv = l.event.inv
           /\ l.period.start \in Nat /\ l.period.end \in Nat /\ l.period.renews \in BOOLEAN
<1>1. /\ l.event \in sent \ seen /\ l.event.kind \in {"paid", "gift"} /\ l.period \in P!Period
      /\ l.period.inv = l.event.inv
  BY DEF LooksInv
<1>2. PaidEvent(l.event) \/ GiftEvent(l.event)
  BY <1>1 DEF SentInv, ChangedEvent, EndedEvent
<1>3. sub.bill \in Nat /\ sub.bill <= MaxTime + 1 /\ MaxTime \in Nat
  BY SubIs
<1>4. CASE PaidEvent(l.event)
  <2>1. l.event.kind = "paid" /\ l.event.inv \in 1..sub.bill /\ l.event.inv \in 1..(MaxTime + 1)
    BY <1>3, <1>4 DEF PaidEvent
  <2> QED
    BY <1>1, <1>3, <2>1, PeriodFields, PeriodsAssumption
<1>5. CASE GiftEvent(l.event)
  BY <1>1, <1>3, <1>5, PeriodFields, PeriodsAssumption DEF GiftEvent
<1> QED
  BY <1>2, <1>4, <1>5

LEMMA PeriodInit == P!Init => PeriodInv
<1> SUFFICES ASSUME P!Init PROVE PeriodInv
  OBVIOUS
<1> DEFINE SubSet == [provider : {"stripe", "paypal"}, live : BOOLEAN, renews : BOOLEAN,
                      bill : 0..(MaxTime + 1), from : Nat, changes : Nat]
           new == [provider |-> "stripe", live |-> FALSE, renews |-> FALSE,
                   bill |-> 0, from |-> 0, changes |-> 0]
           old == [provider |-> "paypal", live |-> TRUE, renews |-> TRUE,
                   bill |-> 1, from |-> 0, changes |-> 0]
           first == [inv |-> 1, start |-> 0, end |-> 1, renews |-> TRUE]
<1>1. /\ now = 0 /\ sent = {} /\ seen = {} /\ looks = {} /\ crossed = FALSE /\ hurried = {}
      /\ (sub = new /\ periods = << >>) \/ (sub = old /\ periods = <<first>>)
  BY DEF P!Init
<1>2. first \in P!Period /\ first.inv = 1 /\ first.start = 0 /\ first.end = 1 /\ first.renews = TRUE
  BY PeriodsAssumption DEF P!Period, P!Bill, P!System
<1>3. /\ new.bill = 0 /\ new.from = 0 /\ new.changes = 0 /\ new.live = FALSE /\ new.renews = FALSE
      /\ new.provider = "stripe" /\ new \in SubSet
  BY PeriodsAssumption
<1>4. /\ old.bill = 1 /\ old.from = 0 /\ old.changes = 0 /\ old.live = TRUE /\ old.renews = TRUE
      /\ old.provider = "paypal" /\ old \in SubSet
  BY PeriodsAssumption
<1> HIDE DEF first, new, old
<1>5. CASE sub = new /\ periods = << >>
  <2>1. DOMAIN periods = {} /\ periods \in Seq(P!Period)
    BY <1>5
  <2>0. /\ sub.provider = "stripe" /\ sub.bill = 0 /\ sub.from = 0 /\ sub.changes = 0 /\ sub.live = FALSE
        /\ sub.renews = FALSE /\ sub \in SubSet
    BY <1>3, <1>5
  <2>2. PeriodTypes /\ SubInv
    <3>0. now \in 0..MaxTime /\ hurried \subseteq Gift
      BY <1>1, PeriodsAssumption
    <3>1. PeriodTypes
      BY <1>1, <2>0, <2>1, <3>0, Zenon DEF PeriodTypes
    <3>2. SubInv
      BY <1>1, <2>0 DEF SubInv
    <3> QED
      BY <3>1, <3>2
  <2>3. DeadInv
    BY <1>3, <1>5 DEF DeadInv
  <2> QED
    BY <1>1, <1>3, <1>5, <2>1, <2>2, <2>3, PeriodsAssumption
       DEF PeriodInv, SentInv, ChangesInv, LooksInv, InvoiceInv, GiftInv, PlaceInv,
           RenewInv, P!OnePeriodPerInvoice
<1>6. CASE sub = old /\ periods = <<first>>
  <2>1. DOMAIN periods = {1} /\ periods \in Seq(P!Period) /\ periods[1] = first
    BY <1>2, <1>6
  <2>0. /\ sub.provider = "paypal" /\ sub.bill = 1 /\ sub.from = 0 /\ sub.changes = 0 /\ sub.live = TRUE
        /\ sub.renews = TRUE /\ sub \in SubSet
    BY <1>4, <1>6
  <2>2. PeriodTypes /\ SubInv
    <3>0. now \in 0..MaxTime /\ hurried \subseteq Gift
      BY <1>1, PeriodsAssumption
    <3>1. PeriodTypes
      BY <1>1, <2>0, <2>1, <3>0, Zenon DEF PeriodTypes
    <3>2. SubInv
      BY <1>1, <2>0 DEF SubInv
    <3> QED
      BY <3>1, <3>2
  <2>3. 1 \notin Gift
    BY PeriodsAssumption
  <2>4. InvoiceInv /\ GiftInv
    BY <1>1, <1>2, <1>4, <1>6, <2>1, <2>3 DEF InvoiceInv, GiftInv, Calm, P!OnePeriodPerInvoice
  <2>5. PlaceInv /\ RenewInv /\ DeadInv
    <3>1. PlaceInv
      BY <1>1, <1>2, <2>0, <2>1 DEF PlaceInv, Placed
    <3>2. RenewInv
      BY <1>1, <1>2, <2>0, <2>1 DEF RenewInv
    <3>3. DeadInv
      BY <2>0 DEF DeadInv
    <3> QED
      BY <3>1, <3>2, <3>3
  <2> QED
    BY <1>1, <1>4, <1>6, <2>2, <2>4, <2>5 DEF PeriodInv, SentInv, ChangesInv, LooksInv
<1> QED
  BY <1>1, <1>5, <1>6

\* A cycle is charged: the invoice is a new one, and all before it lie before it.
LEMMA ChargeStep ==
    ASSUME PeriodInv, NEW t \in 0..MaxTime, now' = t, t >= now, P!Charged(sub, t),
           \/ sub.bill = 0 /\ ~sub.live
           \/ sub.live /\ sub.renews /\ t = now + 1,
           UNCHANGED <<seen, looks, periods, crossed, hurried>>
    PROVE  PeriodInv'
<1>0. /\ PeriodTypes /\ SubInv /\ SentInv /\ ChangesInv /\ LooksInv
      /\ InvoiceInv /\ GiftInv /\ PlaceInv
  BY DEF PeriodInv
<1>a. PICK e : e = [kind |-> "paid", inv |-> sub.bill + 1]
  OBVIOUS
<1>1. /\ sub' = [sub EXCEPT !.live = TRUE, !.renews = TRUE, !.bill = sub.bill + 1, !.from = t]
      /\ sent' = sent \cup {e} /\ now' = t
      /\ UNCHANGED <<seen, looks, periods, crossed, hurried>>
  BY <1>a DEF P!Charged, P!Send
<1>2. /\ sub.provider \in {"stripe", "paypal"} /\ sub.bill \in Nat /\ sub.from \in Nat /\ sub.changes \in Nat
      /\ now \in Nat /\ t \in Nat /\ t <= MaxTime /\ MaxTime \in Nat
  BY <1>0, SubIs
<1>3. sub.bill <= t /\ sub.from <= t
  BY <1>0, <1>2 DEF SubInv
<1>4. /\ sub'.provider = sub.provider /\ sub'.live = TRUE /\ sub'.renews = TRUE
      /\ sub'.bill = sub.bill + 1 /\ sub'.from = t /\ sub'.changes = sub.changes
      /\ sub' \in [provider : {"stripe", "paypal"}, live : BOOLEAN, renews : BOOLEAN,
                   bill : 0..(MaxTime + 1), from : Nat, changes : Nat]
  <2>1. sub \in [provider : {"stripe", "paypal"}, live : BOOLEAN, renews : BOOLEAN,
                 bill : 0..(MaxTime + 1), from : Nat, changes : Nat]
    BY <1>0 DEF PeriodTypes
  <2>2. sub.bill + 1 \in 0..(MaxTime + 1)
    BY <1>2, <1>3
  <2> QED
    BY <1>1, <1>2, <2>1, <2>2
<1>5. e.kind = "paid" /\ e.inv = sub.bill + 1 /\ e = [kind |-> "paid", inv |-> e.inv]
  BY <1>a
<1>6. sub.provider = "paypal" => sub.changes = 0
  BY <1>0, <1>2 DEF SubInv
<1>7. PeriodTypes' /\ SubInv'
  BY <1>0, <1>1, <1>2, <1>3, <1>4, <1>6 DEF PeriodTypes, SubInv
<1>8. ASSUME NEW f \in sent PROVE ~EndedEvent(f) /\ (PaidEvent(f)' \/ GiftEvent(f)' \/ ChangedEvent(f)')
  <2>1. PaidEvent(f) \/ GiftEvent(f) \/ ChangedEvent(f) \/ EndedEvent(f)
    BY <1>0 DEF SentInv
  <2>2. ~EndedEvent(f)
    BY <1>2 DEF EndedEvent
  <2>3. CASE PaidEvent(f)
    BY <1>2, <1>4, <2>2, <2>3 DEF PaidEvent
  <2>4. CASE GiftEvent(f)
    BY <1>1, <1>2, <2>2, <2>4 DEF GiftEvent
  <2>5. CASE ChangedEvent(f)
    <3>1. f.inv \in Nat /\ f.inv <= sub.bill /\ f.no \in 1..sub.changes
      BY <1>2, <2>5 DEF ChangedEvent
    <3>2. sub.provider # "paypal"
      BY <1>6, <3>1
    <3> QED
      BY <1>2, <1>4, <2>2, <2>5, <3>1, <3>2 DEF ChangedEvent
  <2> QED
    BY <2>1, <2>2, <2>3, <2>4, <2>5
<1>9. PaidEvent(e)'
  BY <1>2, <1>4, <1>5 DEF PaidEvent
<1>10. SentInv'
  <2>1. seen' \subseteq sent'
    BY <1>0, <1>1 DEF SentInv
  <2>2. \A f \in sent' : PaidEvent(f)' \/ GiftEvent(f)' \/ ChangedEvent(f)' \/ EndedEvent(f)'
    BY <1>1, <1>8, <1>9
  <2>3. \A f, g \in sent' : f.kind = "gift" /\ g.kind = "gift" /\ f.inv = g.inv => f = g
    BY <1>0, <1>1, <1>5 DEF SentInv
  <2> QED
    BY <2>1, <2>2, <2>3 DEF SentInv
<1>11. ChangesInv'
  BY <1>0, <1>1, <1>4, <1>5 DEF ChangesInv
<1>12. LooksInv'
  BY <1>0, <1>1 DEF LooksInv
<1>13. GiftInv'
  BY <1>0, <1>1 DEF GiftInv, Calm
<1>14. e.inv \in 1..(MaxTime + 1) /\ e.inv \notin Gift /\ e.inv # 0 /\ e.inv > sub.bill
  BY <1>2, <1>3, <1>5, PeriodsAssumption
<1>15. \A i \in DOMAIN periods : P!OfProvider(i) => periods[i].inv \in Nat /\ periods[i].inv <= sub.bill /\ periods[i].inv >= 1
  BY <1>0, PeriodIs DEF InvoiceInv
<1>16. \A i \in DOMAIN periods : e.inv # periods[i].inv
  <2> SUFFICES ASSUME NEW i \in DOMAIN periods PROVE e.inv # periods[i].inv
    OBVIOUS
  <2>1. CASE P!OfProvider(i)
    BY <1>2, <1>5, <1>15, <2>1
  <2>2. CASE ~P!OfProvider(i)
    BY <1>0, <1>14, <2>2, PeriodIs
  <2> QED
    BY <2>1, <2>2
<1>17. InvoiceInv'
  <2>1. \A i \in DOMAIN periods : P!OfProvider(i) => periods[i].inv <= sub'.bill
    BY <1>2, <1>4, <1>15
  <2>2. \A i \in DOMAIN periods : periods[i].inv \in Gift => \E f \in sent' : f.kind = "gift" /\ f.inv = periods[i].inv
    BY <1>0, <1>1 DEF InvoiceInv
  <2>3. \A i \in DOMAIN periods : \A f \in sent' \ seen : f.kind \in {"paid", "gift"} => f.inv # periods[i].inv
    BY <1>0, <1>1, <1>16 DEF InvoiceInv
  <2>4. P!OnePeriodPerInvoice
    BY <1>0 DEF InvoiceInv
  <2> QED
    BY <1>1, <2>1, <2>2, <2>3, <2>4 DEF InvoiceInv, P!OfProvider, P!OnePeriodPerInvoice
<1>18. \A l \in looks : l.event.kind = "paid" => l.event.inv \in Nat /\ l.event.inv <= sub.bill /\ l.event.inv >= 1 /\ l.period.inv = l.event.inv
  BY <1>0, <1>2, LookIs
<1>19. ASSUME NEW p, p.inv \in Nat, p.inv >= 1, p.inv <= sub.bill, p.end \in Nat, Placed(p)
       PROVE  Placed(p)'
  <2>1. p.inv # sub'.bill
    BY <1>2, <1>4, <1>19
  <2>2. sub.live /\ sub.from = now /\ t = now + 1
    BY <1>0, <1>2, <1>19 DEF SubInv
  <2>3. p.end <= t
    BY <1>2, <1>3, <1>19, <2>2 DEF Placed
  <2> QED
    BY <1>4, <2>1, <2>3 DEF Placed
<1>20. PlaceInv'
  <2> SUFFICES ASSUME ~crossed
               PROVE  /\ \A i \in DOMAIN periods : P!OfProvider(i) => Placed(periods[i])'
                      /\ \A l \in looks : l.event.kind = "paid" => Placed(l.period)'
    BY <1>1 DEF PlaceInv, P!OfProvider, Placed
  <2>1. ASSUME NEW i \in DOMAIN periods, P!OfProvider(i) PROVE Placed(periods[i])'
    <3> DEFINE p == periods[i]
    <3>1. p.inv \in Nat /\ p.inv >= 1 /\ p.inv <= sub.bill /\ p.end \in Nat /\ Placed(p)
      BY <1>0, <1>15, <2>1, PeriodIs DEF PlaceInv
    <3> HIDE DEF p
    <3>2. Placed(p)'
      <4>1. p' = p
        BY <1>1 DEF p
      <4> QED
        BY <1>19, <3>1, <4>1
    <3> QED
      BY <3>2 DEF p
  <2>2. ASSUME NEW l \in looks, l.event.kind = "paid" PROVE Placed(l.period)'
    <3> DEFINE p == l.period
    <3>1. p.inv \in Nat /\ p.inv >= 1 /\ p.inv <= sub.bill /\ p.end \in Nat /\ Placed(p)
      BY <1>0, <1>18, <2>2, LookIs DEF PlaceInv
    <3> HIDE DEF p
    <3> QED
      BY <1>19, <3>1 DEF p
  <2> QED
    BY <2>1, <2>2
<1>21. RenewInv'
  <2>1. \A i \in DOMAIN periods : periods[i].inv # sub'.bill
    BY <1>4, <1>5, <1>16
  <2>2. \A l \in looks : l.event.kind = "paid" => l.event.inv # sub'.bill
    BY <1>2, <1>4, <1>18
  <2> QED
    BY <1>1, <2>1, <2>2 DEF RenewInv
<1>22. DeadInv'
  BY <1>4 DEF DeadInv
<1> QED
  BY <1>7, <1>10, <1>11, <1>12, <1>13, <1>17, <1>20, <1>21, <1>22 DEF PeriodInv

\* The kinds of events.
LEMMA KindIs ==
    ASSUME SentInv, NEW e \in sent
    PROVE  /\ e.kind = "paid" => PaidEvent(e)
           /\ e.kind = "gift" => GiftEvent(e)
           /\ e.kind = "changed" => ChangedEvent(e)
           /\ e.kind = "ended" => EndedEvent(e)
BY DEF SentInv, PaidEvent, GiftEvent, ChangedEvent, EndedEvent

SubKeeps ==
    /\ PeriodTypes' /\ SubInv' /\ SentInv' /\ ChangesInv'
    /\ InvoiceInv' /\ PlaceInv' /\ RenewInv' /\ DeadInv'

\* A look at a gift changes nothing of the subscription.
LEMMA SubSame ==
    ASSUME PeriodInv, UNCHANGED <<now, sub, sent, seen, periods, crossed>>, hurried' \subseteq Gift,
           \A l \in looks' : l.event.kind = "paid" => l \in looks
    PROVE  SubKeeps /\ sent \subseteq sent'
<1>0. /\ PeriodTypes /\ SubInv /\ SentInv /\ ChangesInv /\ LooksInv
      /\ InvoiceInv /\ PlaceInv /\ RenewInv /\ DeadInv
  BY DEF PeriodInv
<1>1. PeriodTypes' /\ SubInv'
  BY <1>0 DEF PeriodTypes, SubInv
<1>2. SentInv' /\ ChangesInv'
  BY <1>0 DEF SentInv, ChangesInv, PaidEvent, GiftEvent, ChangedEvent, EndedEvent
<1>3. InvoiceInv'
  BY <1>0 DEF InvoiceInv, P!OfProvider, P!OnePeriodPerInvoice
<1>4. PlaceInv' /\ RenewInv'
  BY <1>0 DEF PlaceInv, RenewInv, Placed, ChangeWaits, P!OfProvider
<1>5. DeadInv'
  BY <1>0 DEF DeadInv
<1> QED
  BY <1>1, <1>2, <1>3, <1>4, <1>5 DEF SubKeeps

\* A change of mind waits to be told of.
LEMMA ToldKeeps ==
    ASSUME PeriodInv, NEW renew \in BOOLEAN, P!Told(renew), sub.provider = "paypal" => ~renew,
           UNCHANGED <<now, seen, periods, crossed>>, hurried' \subseteq Gift,
           \A l \in looks' : l.event.kind = "paid" => l \in looks
    PROVE  SubKeeps /\ sent \subseteq sent'
<1>0. /\ PeriodTypes /\ SubInv /\ SentInv /\ ChangesInv /\ LooksInv
      /\ InvoiceInv /\ PlaceInv /\ RenewInv
  BY DEF PeriodInv
<1>1. CASE sub' = sub /\ sent' = sent
  BY <1>1, SubSame
<1>2. CASE sub.renews # renew
  <2>a. PICK e : e = [kind |-> "changed", inv |-> sub.bill, renews |-> renew, no |-> sub.changes + 1]
    OBVIOUS
  <2>1. /\ sub.live /\ sub' = [sub EXCEPT !.renews = renew, !.changes = sub.changes + 1]
        /\ sent' = sent \cup {e}
    BY <1>2, <2>a DEF P!Told, P!Send
  <2>2. /\ sub.provider \in {"stripe", "paypal"} /\ sub.live \in BOOLEAN /\ sub.renews \in BOOLEAN
        /\ sub.bill \in Nat /\ sub.from \in Nat /\ sub.changes \in Nat /\ now \in Nat
    BY <1>0, SubIs
  <2>3. /\ sub'.provider = sub.provider /\ sub'.live = sub.live /\ sub'.renews = renew
        /\ sub'.bill = sub.bill /\ sub'.from = sub.from /\ sub'.changes = sub.changes + 1
        /\ sub' \in [provider : {"stripe", "paypal"}, live : BOOLEAN, renews : BOOLEAN,
                     bill : 0..(MaxTime + 1), from : Nat, changes : Nat]
    <3>1. sub \in [provider : {"stripe", "paypal"}, live : BOOLEAN, renews : BOOLEAN,
                   bill : 0..(MaxTime + 1), from : Nat, changes : Nat]
      BY <1>0 DEF PeriodTypes
    <3>2. sub.changes + 1 \in Nat
      BY <2>2
    <3> QED
      BY <2>1, <3>1, <3>2
  <2>4. e.kind = "changed" /\ e.inv = sub.bill /\ e.renews = renew /\ e.no = sub.changes + 1
    BY <2>a
  <2>5. PeriodTypes'
    BY <1>0, <2>3 DEF PeriodTypes
  <2>6. SubInv'
    BY <1>0, <2>2, <2>3 DEF SubInv
  <2>7. ASSUME NEW f \in sent PROVE PaidEvent(f)' \/ GiftEvent(f)' \/ ChangedEvent(f)' \/ EndedEvent(f)'
    <3>1. CASE ChangedEvent(f)
      <4>1. /\ f.kind = "changed" /\ f.inv \in 0..sub.bill /\ f.no \in 1..sub.changes /\ f.renews \in BOOLEAN
            /\ sub.provider = "paypal" => f.inv = sub.bill
        BY <3>1 DEF ChangedEvent
      <4>2. f.no \in 1..(sub.changes + 1) /\ f.no # sub.changes + 1
        BY <2>2, <4>1
      <4> QED
        BY <2>3, <4>1, <4>2 DEF ChangedEvent
    <3>2. CASE PaidEvent(f) \/ GiftEvent(f) \/ EndedEvent(f)
      BY <2>3, <3>2 DEF PaidEvent, GiftEvent, EndedEvent
    <3> QED
      BY <1>0, <3>1, <3>2 DEF SentInv
  <2>8. ChangedEvent(e)'
    <3>1. e' = e
      BY <2>a
    <3>2. sub.changes + 1 \in 1..(sub.changes + 1) /\ sub.bill \in 0..sub.bill
      BY <2>2
    <3> QED
      BY <2>3, <2>4, <3>1, <3>2 DEF ChangedEvent
  <2>9. \A f \in sent : f.kind = "changed" => /\ f.no \in Nat /\ f.no < e.no
                                              /\ f.inv \in Nat /\ f.inv <= e.inv
    <3> SUFFICES ASSUME NEW f \in sent, f.kind = "changed"
                 PROVE  f.no \in Nat /\ f.no < e.no /\ f.inv \in Nat /\ f.inv <= e.inv
      OBVIOUS
    <3>1. f.no \in 1..sub.changes /\ f.inv \in 0..sub.bill
      BY <1>0, KindIs DEF ChangedEvent
    <3> QED
      BY <2>2, <2>4, <3>1
  <2>10. e \notin sent
    BY <2>2, <2>4, <2>9
  <2>11. SentInv'
    BY <1>0, <2>1, <2>4, <2>7, <2>8 DEF SentInv
  <2>12. ChangesInv'
    <3>1. ASSUME NEW f \in sent', NEW g \in sent', f.kind = "changed", g.kind = "changed"
          PROVE  (f.no = g.no => f = g) /\ (f.no < g.no => f.inv <= g.inv)
      <4>1. CASE f \in sent /\ g \in sent
        BY <1>0, <3>1, <4>1 DEF ChangesInv
      <4>2. CASE f = e /\ g \in sent
        BY <2>2, <2>4, <2>9, <3>1, <4>2
      <4>3. CASE f \in sent /\ g = e
        BY <2>2, <2>4, <2>9, <3>1, <4>3
      <4>4. CASE f = e /\ g = e
        BY <2>2, <2>4, <4>4
      <4> QED
        BY <2>1, <4>1, <4>2, <4>3, <4>4
    <3> QED
      BY <2>1, <2>3, <2>4, <3>1 DEF ChangesInv
  <2>13. InvoiceInv'
    BY <1>0, <2>1, <2>3, <2>4 DEF InvoiceInv, P!OfProvider, P!OnePeriodPerInvoice
  <2>14. PlaceInv'
    BY <1>0, <2>3 DEF PlaceInv, Placed, P!OfProvider
  <2>15. RenewInv'
    <3>1. e \in sent' \ seen
      BY <1>0, <2>1, <2>10 DEF SentInv
    <3>2. ChangeWaits'
      BY <2>3, <2>4, <3>1 DEF ChangeWaits
    <3> QED
      BY <3>2 DEF RenewInv
  <2>16. DeadInv'
    BY <2>1, <2>3 DEF DeadInv
  <2> QED
    BY <2>1, <2>5, <2>6, <2>11, <2>12, <2>13, <2>14, <2>15, <2>16 DEF SubKeeps
<1> QED
  BY <1>1, <1>2 DEF P!Told

LEMMA LooksStay ==
    ASSUME LooksInv, GiftInv, UNCHANGED <<looks, seen, periods, hurried>>, sent \subseteq sent'
    PROVE  LooksInv' /\ GiftInv'
BY DEF LooksInv, GiftInv, Calm

\* The user and an administrator change their minds.
LEMMA ToldStep ==
    ASSUME PeriodInv, NEW renew \in BOOLEAN, P!Told(renew), sub.provider = "paypal" => ~renew,
           UNCHANGED <<now, seen, looks, periods, crossed, hurried>>
    PROVE  PeriodInv'
<1>1. hurried' \subseteq Gift
  BY DEF PeriodInv, PeriodTypes
<1>2. SubKeeps /\ sent \subseteq sent'
  BY <1>1, ToldKeeps
<1> QED
  BY <1>2, LooksStay DEF PeriodInv, SubKeeps

\* Time passes, or the subscription ends and that waits to be told of.
LEMMA EndStep ==
    ASSUME PeriodInv, now' \in 0..MaxTime, now' >= now,
           /\ sub'.provider = sub.provider /\ sub'.live = FALSE /\ sub'.renews = sub.renews
           /\ sub'.bill = sub.bill /\ sub'.from = sub.from /\ sub'.changes = sub.changes,
           sub' \in [provider : {"stripe", "paypal"}, live : BOOLEAN, renews : BOOLEAN,
                     bill : 0..(MaxTime + 1), from : Nat, changes : Nat],
           NEW e, e = [kind |-> "ended", at |-> now'],
           sent' = sent \/ (sent' = sent \cup {e} /\ sub.live),
           sub.live => now' = now + 1 \/ sent' = sent \cup {e},
           UNCHANGED <<seen, looks, periods, crossed, hurried>>
    PROVE  PeriodInv'
<1>0. /\ PeriodTypes /\ SubInv /\ SentInv /\ ChangesInv /\ LooksInv
      /\ InvoiceInv /\ GiftInv /\ PlaceInv /\ RenewInv /\ DeadInv
  BY DEF PeriodInv
<1>1. /\ sub.live \in BOOLEAN /\ sub.bill \in Nat /\ sub.from \in Nat /\ sub.changes \in Nat
      /\ now \in Nat /\ now' \in Nat /\ MaxTime \in Nat
  BY <1>0, SubIs
<1>2. sent \subseteq sent' /\ \A f \in sent' : f \in sent \/ f = e
  OBVIOUS
<1>3. e.kind = "ended" /\ e.at = now' /\ e' = e
  <2>1. e.kind = "ended" /\ e.at = now'
    OBVIOUS
  <2> QED
    BY <2>1
<1>4. PeriodTypes' /\ SubInv'
  <2>1. PeriodTypes'
    BY <1>0 DEF PeriodTypes
  <2>2. SubInv'
    BY <1>0, <1>1 DEF SubInv
  <2> QED
    BY <2>1, <2>2
<1>5. sub.live => \A f \in sent : f.kind # "ended"
  BY <1>0, KindIs DEF EndedEvent
<1>6. SentInv'
  <2>1. ASSUME NEW f \in sent PROVE PaidEvent(f)' \/ GiftEvent(f)' \/ ChangedEvent(f)' \/ EndedEvent(f)'
    <3>1. PaidEvent(f) => PaidEvent(f)'
      BY DEF PaidEvent
    <3>2. GiftEvent(f) => GiftEvent(f)'
      BY <1>1 DEF GiftEvent
    <3>3. ChangedEvent(f) => ChangedEvent(f)'
      BY DEF ChangedEvent
    <3>4. EndedEvent(f) => EndedEvent(f)'
      BY <1>1 DEF EndedEvent
    <3> QED
      BY <1>0, <3>1, <3>2, <3>3, <3>4 DEF SentInv
  <2>2. sent' # sent => EndedEvent(e)'
    BY <1>0, <1>1, <1>3 DEF EndedEvent, SubInv
  <2> QED
    BY <1>0, <1>2, <1>3, <2>1, <2>2 DEF SentInv
<1>7. ChangesInv'
  BY <1>0, <1>2, <1>3 DEF ChangesInv
<1>8. LooksInv' /\ GiftInv'
  BY <1>0, <1>2, LooksStay
<1>9. InvoiceInv'
  BY <1>0, <1>2, <1>3 DEF InvoiceInv, P!OfProvider, P!OnePeriodPerInvoice
<1>10. PlaceInv'
  <2>1. ASSUME NEW p, p.end \in Nat, Placed(p) PROVE Placed(p)'
    BY <1>1, <2>1 DEF Placed
  <2> SUFFICES ASSUME ~crossed
               PROVE  /\ \A i \in DOMAIN periods : P!OfProvider(i) => Placed(periods[i])'
                      /\ \A l \in looks : l.event.kind = "paid" => Placed(l.period)'
    BY DEF PlaceInv, P!OfProvider, Placed
  <2>2. ASSUME NEW i \in DOMAIN periods, P!OfProvider(i) PROVE Placed(periods[i])'
    <3> DEFINE p == periods[i]
    <3>1. p.end \in Nat /\ Placed(p) /\ p' = p
      BY <1>0, <2>2, PeriodIs DEF PlaceInv
    <3> HIDE DEF p
    <3>2. Placed(p)'
      BY <2>1, <3>1
    <3> QED
      BY <3>2 DEF p
  <2>3. ASSUME NEW l \in looks, l.event.kind = "paid" PROVE Placed(l.period)'
    <3>1. l.period.end \in Nat /\ Placed(l.period)
      BY <1>0, <2>3, LookIs DEF PlaceInv
    <3> QED
      BY <2>1, <3>1
  <2> QED
    BY <2>2, <2>3
<1>11. RenewInv'
  BY DEF RenewInv
<1>12. DeadInv'
  <2> SUFFICES ASSUME ~crossed, sub.bill >= 1
               PROVE  \/ sub.from + 1 <= now'
                      \/ \E f \in sent' \ seen : f.kind = "ended"
                      \/ /\ \A f \in sent' \ seen : f.kind = "paid" => f.inv # sub.bill
                         /\ \A i \in DOMAIN periods : periods[i].inv = sub.bill => periods[i].end <= now'
    BY DEF DeadInv
  <2>1. CASE sub.live /\ now' = now + 1
    BY <1>0, <1>1, <2>1 DEF SubInv
  <2>2. CASE sub.live /\ sent' = sent \cup {e}
    <3>1. e \notin seen
      BY <1>0, <1>3, <1>5, <2>2 DEF SentInv
    <3> QED
      BY <1>3, <2>2, <3>1
  <2>3. CASE ~sub.live
    <3>1. CASE sub.from + 1 <= now
      BY <1>1, <3>1
    <3>2. CASE \E f \in sent \ seen : f.kind = "ended"
      BY <1>2, <3>2
    <3>3. CASE /\ \A f \in sent \ seen : f.kind = "paid" => f.inv # sub.bill
               /\ \A i \in DOMAIN periods : periods[i].inv = sub.bill => periods[i].end <= now
      <4>1. \A f \in sent' \ seen : f.kind = "paid" => f.inv # sub.bill
        BY <1>2, <1>3, <3>3
      <4>2. \A i \in DOMAIN periods : periods[i].inv = sub.bill => periods[i].end <= now'
        <5> SUFFICES ASSUME NEW i \in DOMAIN periods, periods[i].inv = sub.bill PROVE periods[i].end <= now'
          OBVIOUS
        <5>1. periods[i].end \in Nat /\ periods[i].end <= now
          BY <1>0, <3>3, PeriodIs
        <5> QED
          BY <1>1, <5>1
      <4> QED
        BY <4>1, <4>2
    <3> QED
      BY <1>0, <2>3, <3>1, <3>2, <3>3 DEF DeadInv
  <2> QED
    BY <1>1, <2>1, <2>2, <2>3
<1> QED
  BY <1>4, <1>6, <1>7, <1>8, <1>9, <1>10, <1>11, <1>12 DEF PeriodInv

\* It ends: what it was stays.
LEMMA EndAny ==
    ASSUME PeriodInv, now' \in 0..MaxTime, now' >= now,
           sub.live => sub' = [sub EXCEPT !.live = FALSE], ~sub.live => sub' = sub,
           NEW e, e = [kind |-> "ended", at |-> now'],
           sent' = sent \/ (sent' = sent \cup {e} /\ sub.live),
           sub.live => now' = now + 1 \/ sent' = sent \cup {e},
           UNCHANGED <<seen, looks, periods, crossed, hurried>>
    PROVE  PeriodInv'
<1>1. sub \in [provider : {"stripe", "paypal"}, live : BOOLEAN, renews : BOOLEAN,
               bill : 0..(MaxTime + 1), from : Nat, changes : Nat]
  BY DEF PeriodInv, PeriodTypes
<1>2. sub' = [sub EXCEPT !.live = FALSE]
  <2>1. CASE ~sub.live
    <3>1. sub.live = FALSE
      BY <1>1, <2>1
    <3> QED
      BY <1>1, <2>1, <3>1
  <2> QED
    BY <2>1
<1>3. /\ sub'.provider = sub.provider /\ sub'.live = FALSE /\ sub'.renews = sub.renews
      /\ sub'.bill = sub.bill /\ sub'.from = sub.from /\ sub'.changes = sub.changes
      /\ sub' \in [provider : {"stripe", "paypal"}, live : BOOLEAN, renews : BOOLEAN,
                   bill : 0..(MaxTime + 1), from : Nat, changes : Nat]
  BY <1>1, <1>2
<1> QED
  BY <1>3, EndStep

\* A gift has not been bought before.
LEMMA BuyStep ==
    ASSUME PeriodInv, NEW g \in Gift, NEW n \in GiftLength, P!BuyGift(g, n)
    PROVE  PeriodInv'
<1>0. /\ PeriodTypes /\ SubInv /\ SentInv /\ ChangesInv /\ LooksInv
      /\ InvoiceInv /\ GiftInv /\ PlaceInv /\ RenewInv /\ DeadInv
  BY DEF PeriodInv
<1>a. PICK e : e = [kind |-> "gift", inv |-> g, created |-> now, length |-> n]
  OBVIOUS
<1>1. /\ \A f \in sent : f.kind = "gift" => f.inv # g
      /\ sent' = sent \cup {e}
      /\ UNCHANGED <<now, sub, seen, looks, periods, crossed, hurried>>
  BY <1>a DEF P!BuyGift, P!Send
<1>2. e.kind = "gift" /\ e.inv = g /\ e.created = now /\ e.length = n /\ now \in 0..now
  BY <1>0, <1>a, SubIs
<1>3. PeriodTypes' /\ SubInv'
  BY <1>0, <1>1 DEF PeriodTypes, SubInv
<1>4. SentInv'
  <2>1. \A f \in sent : PaidEvent(f)' \/ GiftEvent(f)' \/ ChangedEvent(f)' \/ EndedEvent(f)'
    BY <1>0, <1>1 DEF SentInv, PaidEvent, GiftEvent, ChangedEvent, EndedEvent
  <2>2. \A f \in {e} : GiftEvent(f)'
    BY <1>1, <1>2 DEF GiftEvent
  <2>3. seen' \subseteq sent'
    BY <1>0, <1>1 DEF SentInv
  <2>4. \A f, h \in sent' : f.kind = "gift" /\ h.kind = "gift" /\ f.inv = h.inv => f = h
    BY <1>0, <1>1, <1>2 DEF SentInv
  <2> QED
    BY <1>1, <2>1, <2>2, <2>3, <2>4 DEF SentInv
<1>5. ChangesInv'
  BY <1>0, <1>1, <1>2 DEF ChangesInv
<1>6. LooksInv' /\ GiftInv'
  BY <1>0, <1>1, LooksStay
<1>7. InvoiceInv'
  BY <1>0, <1>1, <1>2 DEF InvoiceInv, P!OfProvider, P!OnePeriodPerInvoice
<1>8. PlaceInv'
  BY <1>0, <1>1 DEF PlaceInv, Placed, P!OfProvider
<1>9. RenewInv'
  BY <1>0, <1>1, <1>2 DEF RenewInv, ChangeWaits
<1>10. DeadInv'
  BY <1>0, <1>1, <1>2 DEF DeadInv
<1> QED
  BY <1>3, <1>4, <1>5, <1>6, <1>7, <1>8, <1>9, <1>10 DEF PeriodInv

\* The periods have a last end.
EndsInv == \E b \in Nat : \A i \in DOMAIN periods : periods[i].end <= b

\* A payment is looked up: the period is what the provider says now.
LEMMA PaidStep ==
    ASSUME PeriodInv, NEW e \in sent, P!LookPaid(e)
    PROVE  PeriodInv'
<1>0. /\ PeriodTypes /\ SubInv /\ SentInv /\ ChangesInv /\ LooksInv
      /\ InvoiceInv /\ GiftInv /\ PlaceInv /\ RenewInv /\ DeadInv
  BY DEF PeriodInv
<1>a. PICK k : k = [event |-> e, period |-> [inv |-> e.inv, start |-> sub.from,
                                             end |-> sub.from + 1, renews |-> sub.renews]]
  OBVIOUS
<1>1. /\ e.kind = "paid" /\ e \in sent \ seen /\ \A l \in looks : l.event # e
      /\ looks' = looks \cup {k} /\ crossed' = (crossed \/ e.inv < sub.bill)
      /\ UNCHANGED <<now, sub, sent, seen, periods, hurried>>
  BY <1>a DEF P!LookPaid, P!Fresh, P!Looks
<1>2. /\ sub.bill \in Nat /\ sub.bill <= MaxTime + 1 /\ MaxTime \in Nat /\ sub.from \in Nat
      /\ sub.renews \in BOOLEAN /\ now \in Nat
  BY <1>0, SubIs
<1>3. e.inv \in 1..sub.bill /\ e.inv \in 1..(MaxTime + 1) /\ e.inv \notin Gift
  BY <1>0, <1>1, <1>2, KindIs, PeriodsAssumption DEF PaidEvent
<1>4. /\ k.event = e /\ k.period.inv = e.inv /\ k.period.start = sub.from
      /\ k.period.end = sub.from + 1 /\ k.period.renews = sub.renews /\ k.period \in P!Period
  BY <1>2, <1>3, <1>a DEF P!Period, P!Bill
<1>5. PeriodTypes' /\ SubInv'
  BY <1>0, <1>1, <1>2 DEF PeriodTypes, SubInv
<1>6. SentInv' /\ ChangesInv'
  BY <1>0, <1>1 DEF SentInv, ChangesInv, PaidEvent, GiftEvent, ChangedEvent, EndedEvent
<1>7. LooksInv'
  BY <1>0, <1>1, <1>4 DEF LooksInv
<1>8. InvoiceInv'
  BY <1>0, <1>1 DEF InvoiceInv, P!OfProvider, P!OnePeriodPerInvoice
<1>9. GiftInv'
  BY <1>0, <1>1, <1>3, <1>4 DEF GiftInv, Calm
<1>10. ~crossed' => ~crossed /\ e.inv = sub.bill
  <2>1. ~crossed' => ~crossed /\ ~(e.inv < sub.bill)
    BY <1>1, Zenon
  <2>2. ~(e.inv < sub.bill) => e.inv = sub.bill
    BY <1>2, <1>3
  <2> QED
    BY <2>1, <2>2
<1>11. PlaceInv'
  <2> SUFFICES ASSUME ~crossed'
               PROVE  /\ \A i \in DOMAIN periods : P!OfProvider(i) => Placed(periods[i])
                      /\ \A l \in looks' : l.event.kind = "paid" => Placed(l.period)
    BY <1>1 DEF PlaceInv, P!OfProvider, Placed
  <2>1. Placed(k.period)
    BY <1>4, <1>10 DEF Placed
  <2> QED
    BY <1>0, <1>1, <1>10, <2>1 DEF PlaceInv
<1>12. RenewInv'
  BY <1>0, <1>1, <1>4, <1>10 DEF RenewInv, ChangeWaits
<1>13. DeadInv'
  BY <1>0, <1>1, <1>10 DEF DeadInv
<1> QED
  BY <1>5, <1>6, <1>7, <1>8, <1>9, <1>11, <1>12, <1>13 DEF PeriodInv

\* A payment buys nothing: its event waits no more.
LEMMA NothingStep ==
    ASSUME PeriodInv, NEW e \in sent, P!PaidForNothing(e)
    PROVE  PeriodInv'
<1>0. /\ PeriodTypes /\ SubInv /\ SentInv /\ ChangesInv /\ LooksInv
      /\ InvoiceInv /\ GiftInv /\ PlaceInv /\ RenewInv /\ DeadInv
  BY DEF PeriodInv
<1>1. /\ e.kind = "paid" /\ \A l \in looks : l.event # e
      /\ seen' = seen \cup {e}
      /\ UNCHANGED <<now, sub, sent, looks, periods, crossed, hurried>>
  BY DEF P!PaidForNothing, P!Fresh
<1>2. PeriodTypes' /\ SubInv'
  BY <1>0, <1>1 DEF PeriodTypes, SubInv
<1>3. SentInv' /\ ChangesInv'
  BY <1>0, <1>1 DEF SentInv, ChangesInv, PaidEvent, GiftEvent, ChangedEvent, EndedEvent
<1>4. LooksInv'
  BY <1>0, <1>1 DEF LooksInv
<1>5. InvoiceInv'
  BY <1>0, <1>1 DEF InvoiceInv, P!OfProvider, P!OnePeriodPerInvoice
<1>6. GiftInv'
  BY <1>0, <1>1 DEF GiftInv, Calm
<1>7. PlaceInv'
  BY <1>0, <1>1 DEF PlaceInv, Placed, P!OfProvider
<1>8. RenewInv'
  BY <1>0, <1>1 DEF RenewInv, ChangeWaits
<1>9. DeadInv'
  BY <1>0, <1>1 DEF DeadInv
<1> QED
  BY <1>2, <1>3, <1>4, <1>5, <1>6, <1>7, <1>8, <1>9 DEF PeriodInv

\* A gift goes after every period there is.
LEMMA GiftAfterAll ==
    ASSUME PeriodTypes, EndsInv, NEW e, e.created \in 0..now
    PROVE  /\ P!GiftStart(e) \in Nat
           /\ e.created = now => \A i \in DOMAIN periods : periods[i].end <= P!GiftStart(e)
<1>1. now \in Nat /\ e.created \in Nat
  BY SubIs
<1>2. \A i \in DOMAIN periods : periods[i].end \in Nat
  BY PeriodIs
<1>3. P!Remaining = {i \in DOMAIN periods : now < periods[i].end}
  BY DEF P!Remaining
<1>4. CASE P!Remaining = {}
  <2>1. P!GiftStart(e) = e.created
    BY <1>4 DEF P!GiftStart
  <2>2. \A i \in DOMAIN periods : periods[i].end <= now
    BY <1>1, <1>2, <1>3, <1>4
  <2> QED
    BY <1>1, <2>1, <2>2
<1>5. CASE P!Remaining # {}
  <2> DEFINE S == {periods[i].end : i \in P!Remaining}
  <2>1. P!GiftStart(e) = P!Max(S)
    BY <1>5 DEF P!GiftStart
  <2>2. PICK b \in Nat : \A i \in DOMAIN periods : periods[i].end <= b
    BY DEF EndsInv
  <2>3. S \in SUBSET Nat /\ S # {} /\ \A x \in S : x <= b
    BY <1>2, <1>3, <1>5, <2>2
  <2>4. PICK j \in P!Remaining : TRUE
    BY <1>5
  <2>5. \A i \in P!Remaining : periods[i].end \in S
    OBVIOUS
  <2> HIDE DEF S
  <2>6. P!Max(S) \in S /\ \A x \in S : P!Max(S) >= x
    BY <2>3, MaxIs
  <2>7. P!Max(S) \in Nat
    BY <2>3, <2>6
  <2>8. \A i \in P!Remaining : periods[i].end <= P!Max(S) /\ now < periods[i].end /\ periods[i].end \in Nat
    BY <1>1, <1>2, <1>3, <2>5, <2>6, <2>7
  <2>9. now < P!Max(S)
    BY <1>1, <2>4, <2>7, <2>8
  <2>10. ASSUME NEW i \in DOMAIN periods PROVE periods[i].end <= P!Max(S)
    <3>1. CASE i \in P!Remaining
      BY <2>8, <3>1
    <3>2. CASE i \notin P!Remaining
      BY <1>1, <1>2, <1>3, <2>7, <2>9, <3>2
    <3> QED
      BY <3>1, <3>2
  <2> QED
    BY <2>1, <2>7, <2>10
<1> QED
  BY <1>4, <1>5

\* Two gifts cannot be looked at together and be calm.
LEMMA GiftStep ==
    ASSUME PeriodInv, EndsInv, NEW e \in sent, P!LookGift(e)
    PROVE  PeriodInv'
<1>0. /\ PeriodTypes /\ SubInv /\ SentInv /\ ChangesInv /\ LooksInv /\ GiftInv
  BY DEF PeriodInv
<1>a. PICK k : k = [event |-> e, period |-> [inv |-> e.inv, start |-> P!GiftStart(e),
                                             end |-> P!GiftStart(e) + e.length, renews |-> FALSE]]
  OBVIOUS
<1>b. PICK H : H = IF e.created < now \/ \E l \in looks : l.event.kind = "gift" THEN {e.inv} ELSE {}
  OBVIOUS
<1>1. /\ e.kind = "gift" /\ e \in sent \ seen /\ \A l \in looks : l.event # e
      /\ P!Told(FALSE) \/ (sub' = sub /\ sent' = sent)
      /\ looks' = looks \cup {k} /\ hurried' = hurried \cup H
      /\ UNCHANGED <<now, seen, periods, crossed>>
  BY <1>a, <1>b DEF P!LookGift, P!Fresh, P!Looks
<1>2. e.inv \in Gift /\ e.created \in 0..now /\ e.length \in Nat
  BY <1>0, <1>1, KindIs, PeriodsAssumption DEF GiftEvent
<1>3. now \in Nat /\ e.created \in Nat /\ e.created <= now
  BY <1>0, <1>2, SubIs
<1>4. P!GiftStart(e) \in Nat
  BY <1>0, <1>2, GiftAfterAll
<1>5. k.event = e /\ k.period.inv = e.inv /\ k.period.start = P!GiftStart(e) /\ k.period \in P!Period
  BY <1>2, <1>4, <1>a DEF P!Period
<1>6. hurried' \subseteq Gift
  BY <1>0, <1>1, <1>2, <1>b DEF PeriodTypes
<1>7. \A l \in looks' : l.event.kind = "paid" => l \in looks
  BY <1>1, <1>5
<1>8. SubKeeps /\ sent \subseteq sent'
  BY <1>1, <1>6, <1>7, SubSame, ToldKeeps
<1>9. LooksInv'
  BY <1>0, <1>1, <1>5, <1>8 DEF LooksInv
<1>10. \A p : Calm(p)' => Calm(p)
  BY <1>1 DEF Calm
<1>11. Calm(k.period)' => /\ e.created = now /\ \A l \in looks : l.event.kind # "gift"
  <2> SUFFICES ASSUME k.period.inv \notin hurried'
               PROVE  e.created = now /\ \A l \in looks : l.event.kind # "gift"
    BY DEF Calm
  <2>1. ~(e.created < now \/ \E l \in looks : l.event.kind = "gift")
    BY <1>1, <1>5, <1>b
  <2> QED
    BY <1>3, <2>1
<1>12. \A l \in looks : Calm(l.period) => l.event.kind = "gift"
  BY <1>0, LookIs DEF Calm
<1>13. GiftInv'
  <2>1. \A i, j \in DOMAIN periods :
           i # j /\ Calm(periods[i])' /\ Calm(periods[j])' =>
               periods[i].end <= periods[j].start \/ periods[j].end <= periods[i].start
    BY <1>0, <1>1 DEF GiftInv, Calm
  <2>2. ASSUME NEW l \in looks', NEW i \in DOMAIN periods, Calm(l.period)', Calm(periods[i])'
        PROVE  periods[i].end <= l.period.start
    <3>1. CASE l \in looks
      <4>1. Calm(l.period)
        BY <1>1, <2>2 DEF Calm
      <4>2. Calm(periods[i])
        BY <1>1, <2>2 DEF Calm
      <4> QED
        BY <1>0, <3>1, <4>1, <4>2 DEF GiftInv
    <3>2. CASE l = k
      BY <1>0, <1>2, <1>5, <1>11, <2>2, <3>2, GiftAfterAll
    <3> QED
      BY <1>1, <3>1, <3>2
  <2>3. ASSUME NEW l \in looks', NEW m \in looks', Calm(l.period)', Calm(m.period)' PROVE l = m
    <3>1. \A x \in looks : Calm(x.period)' => Calm(x.period)
      BY <1>1 DEF Calm
    <3>2. CASE l \in looks /\ m \in looks
      BY <1>0, <2>3, <3>1, <3>2 DEF GiftInv
    <3>3. CASE l = k /\ m \in looks
      BY <1>11, <1>12, <2>3, <3>1, <3>3
    <3>4. CASE l \in looks /\ m = k
      BY <1>11, <1>12, <2>3, <3>1, <3>4
    <3> QED
      BY <1>1, <3>2, <3>3, <3>4
  <2> QED
    BY <1>1, <2>1, <2>2, <2>3 DEF GiftInv, Calm
<1> QED
  BY <1>8, <1>9, <1>13 DEF PeriodInv, SubKeeps

\* A transaction that fails leaves nothing.
LEMMA FailStep ==
    ASSUME PeriodInv, NEW k \in looks, P!Fail(k)
    PROVE  PeriodInv'
<1>1. looks' \subseteq looks /\ UNCHANGED <<now, sub, sent, seen, periods, crossed, hurried>>
  BY DEF P!Fail
<1>2. hurried' \subseteq Gift
  BY <1>1 DEF PeriodInv, PeriodTypes
<1>3. SubKeeps
  BY <1>1, <1>2, SubSame
<1>4. LooksInv' /\ GiftInv'
  BY <1>1 DEF PeriodInv, LooksInv, GiftInv, Calm
<1> QED
  BY <1>3, <1>4 DEF PeriodInv, SubKeeps

\* A period is added that goes after all calm gifts, or is none.
LEMMA CommitStep ==
    ASSUME PeriodInv, EndsInv, NEW k \in looks, P!Commit(k)
    PROVE  PeriodInv' /\ EndsInv'
<1>0. /\ PeriodTypes /\ SubInv /\ SentInv /\ ChangesInv /\ LooksInv
      /\ InvoiceInv /\ GiftInv /\ PlaceInv /\ RenewInv /\ DeadInv
  BY DEF PeriodInv
<1> DEFINE e == k.event
           p == k.period
           n == Len(periods) + 1
<1>1. /\ seen' = seen \cup {e} /\ periods' = Append(periods, p) /\ looks' = looks \ {k}
      /\ UNCHANGED <<now, sub, sent, crossed, hurried>>
  BY DEF P!Commit
<1>2. /\ e \in sent /\ e \notin seen /\ e.kind \in {"paid", "gift"} /\ p \in P!Period /\ p.inv = e.inv
      /\ (e.kind = "paid" <=> p.inv \in 1..(MaxTime + 1)) /\ (e.kind = "gift" <=> p.inv \in Gift)
      /\ (e.kind = "paid" => e.inv \in 1..sub.bill)
      /\ p.start \in Nat /\ p.end \in Nat /\ p.renews \in BOOLEAN
  BY <1>0, LookIs DEF LooksInv
<1>3. /\ sub.bill \in Nat /\ sub.bill <= MaxTime + 1 /\ MaxTime \in Nat /\ now \in Nat
  BY <1>0, SubIs
<1>4. /\ DOMAIN periods = 1..Len(periods) /\ Len(periods) \in Nat
      /\ \A i \in 1..Len(periods) : periods[i].end \in Nat
      /\ \A i \in DOMAIN periods : P!OfProvider(i) <=> periods[i].inv \in 1..(MaxTime + 1)
  BY <1>0, PeriodIs
<1>5. /\ periods' \in Seq(P!Period) /\ DOMAIN periods' = DOMAIN periods \cup {n} /\ n \notin DOMAIN periods
      /\ periods'[n] = p /\ \A i \in DOMAIN periods : periods'[i] = periods[i]
  <2>1. periods \in Seq(P!Period)
    BY <1>0 DEF PeriodTypes
  <2> QED
    BY <1>1, <1>2, <1>4, <2>1
<1>6. k \in looks
  OBVIOUS
<1> HIDE DEF e, p, n
<1>7. PeriodTypes' /\ SubInv'
  BY <1>0, <1>1, <1>5 DEF PeriodTypes, SubInv
<1>8. SentInv' /\ ChangesInv'
  BY <1>0, <1>1, <1>2 DEF SentInv, ChangesInv, PaidEvent, GiftEvent, ChangedEvent, EndedEvent
<1>9. LooksInv'
  BY <1>0, <1>1 DEF LooksInv, e
<1>10. \A i \in DOMAIN periods' : P!OfProvider(i)' <=> periods'[i].inv \in 1..(MaxTime + 1)
  <2>1. PeriodTypes'
    BY <1>7
  <2> QED
    BY DEF P!OfProvider, P!Bill
<1>11. \A i \in DOMAIN periods : periods[i].inv # p.inv
  BY <1>0, <1>2 DEF InvoiceInv
<1>12. InvoiceInv'
  <2>1. \A i \in DOMAIN periods' : P!OfProvider(i)' => periods'[i].inv <= sub.bill
    BY <1>0, <1>2, <1>4, <1>5, <1>10 DEF InvoiceInv
  <2>2. \A i \in DOMAIN periods' : periods'[i].inv \in Gift => \E f \in sent : f.kind = "gift" /\ f.inv = periods'[i].inv
    BY <1>0, <1>2, <1>5 DEF InvoiceInv
  <2>3. ASSUME NEW i \in DOMAIN periods', NEW f \in sent \ seen', f.kind \in {"paid", "gift"}
        PROVE  f.inv # periods'[i].inv
    <3>1. f \in sent /\ f \notin seen /\ f # e
      BY <1>1
    <3>2. f.inv # e.inv
      BY <1>0, <1>2, <2>3, <3>1, OneEvent
    <3> QED
      BY <1>0, <1>2, <1>5, <2>3, <3>1, <3>2 DEF InvoiceInv
  <2>4. P!OnePeriodPerInvoice'
    BY <1>0, <1>5, <1>11 DEF InvoiceInv, P!OnePeriodPerInvoice
  <2> QED
    BY <1>1, <2>1, <2>2, <2>3, <2>4 DEF InvoiceInv
<1>13. \A x : Calm(x)' <=> Calm(x)
  BY <1>1 DEF Calm
<1>14. GiftInv'
  <2>1. \A i \in DOMAIN periods : Calm(p) /\ Calm(periods[i]) => periods[i].end <= p.start
    BY <1>0, <1>6 DEF GiftInv, p
  <2>2. \A l \in looks' : ~(Calm(p) /\ Calm(l.period))
    BY <1>0, <1>1, <1>6 DEF GiftInv, p
  <2>3. \A i, j \in DOMAIN periods' :
           i # j /\ Calm(periods'[i]) /\ Calm(periods'[j]) =>
               periods'[i].end <= periods'[j].start \/ periods'[j].end <= periods'[i].start
    <3> SUFFICES ASSUME NEW i \in DOMAIN periods', NEW j \in DOMAIN periods', i # j,
                        Calm(periods'[i]), Calm(periods'[j])
                 PROVE  periods'[i].end <= periods'[j].start \/ periods'[j].end <= periods'[i].start
      OBVIOUS
    <3>1. CASE i \in DOMAIN periods /\ j \in DOMAIN periods
      BY <1>0, <1>5, <3>1 DEF GiftInv
    <3>2. CASE i = n /\ j \in DOMAIN periods
      BY <1>5, <2>1, <3>2
    <3>3. CASE i \in DOMAIN periods /\ j = n
      BY <1>5, <2>1, <3>3
    <3> QED
      BY <1>5, <3>1, <3>2, <3>3
  <2>4. \A l \in looks', i \in DOMAIN periods' :
           Calm(l.period) /\ Calm(periods'[i]) => periods'[i].end <= l.period.start
    BY <1>0, <1>1, <1>5, <2>2 DEF GiftInv
  <2>5. \A l, m \in looks' : Calm(l.period) /\ Calm(m.period) => l = m
    BY <1>0, <1>1 DEF GiftInv
  <2> QED
    BY <1>1, <2>3, <2>4, <2>5 DEF GiftInv, Calm
<1>15. \A x : Placed(x)' <=> Placed(x)
  BY <1>1 DEF Placed
<1>16. PlaceInv'
  <2> SUFFICES ASSUME ~crossed
               PROVE  /\ \A i \in DOMAIN periods' : periods'[i].inv \in 1..(MaxTime + 1) => Placed(periods'[i])
                      /\ \A l \in looks' : l.event.kind = "paid" => Placed(l.period)
    BY <1>1, <1>10 DEF PlaceInv, Placed
  <2>1. p.inv \in 1..(MaxTime + 1) => Placed(p)
    <3>1. p.inv \in 1..(MaxTime + 1) => k.event.kind = "paid"
      BY <1>2 DEF e
    <3> QED
      BY <1>0, <1>6, <3>1 DEF PlaceInv, p
  <2> QED
    BY <1>0, <1>1, <1>4, <1>5, <2>1 DEF PlaceInv
<1>17. sub.bill >= 1 /\ p.inv = sub.bill => e.kind = "paid" /\ e.inv = sub.bill
  BY <1>2, <1>3
<1>18. RenewInv'
  <2> SUFFICES ASSUME ~crossed, sub.live, ~ChangeWaits'
               PROVE  /\ \A i \in DOMAIN periods' : periods'[i].inv = sub.bill => periods'[i].renews = sub.renews
                      /\ \A l \in looks' : l.event.kind = "paid" /\ l.event.inv = sub.bill => l.period.renews = sub.renews
    BY <1>1 DEF RenewInv
  <2>1. ~ChangeWaits
    BY <1>1, <1>2 DEF ChangeWaits
  <2>2. sub.bill >= 1
    BY <1>0 DEF SubInv
  <2>3. p.inv = sub.bill => p.renews = sub.renews
    <3>1. p.inv = sub.bill => k.event.kind = "paid" /\ k.event.inv = sub.bill
      BY <1>17, <2>2 DEF e
    <3> QED
      BY <1>0, <1>6, <2>1, <3>1 DEF RenewInv, p
  <2> QED
    BY <1>0, <1>1, <1>5, <2>1, <2>3 DEF RenewInv
<1>19. DeadInv'
  <2> SUFFICES ASSUME ~crossed, ~sub.live, sub.bill >= 1, ~(sub.from + 1 <= now),
                      ~(\E f \in sent \ seen' : f.kind = "ended")
               PROVE  /\ \A f \in sent \ seen' : f.kind = "paid" => f.inv # sub.bill
                      /\ \A i \in DOMAIN periods' : periods'[i].inv = sub.bill => periods'[i].end <= now
    BY <1>1 DEF DeadInv
  <2>1. /\ \A f \in sent \ seen : f.kind = "paid" => f.inv # sub.bill
        /\ \A i \in DOMAIN periods : periods[i].inv = sub.bill => periods[i].end <= now
    BY <1>0, <1>1, <1>2 DEF DeadInv
  <2>2. p.inv # sub.bill
    BY <1>2, <1>17, <2>1
  <2> QED
    BY <1>1, <1>5, <2>1, <2>2
<1>20. EndsInv'
  <2>1. PICK b \in Nat : \A i \in DOMAIN periods : periods[i].end <= b
    BY DEF EndsInv
  <2>2. b + p.end \in Nat /\ \A i \in DOMAIN periods' : periods'[i].end <= b + p.end
    BY <1>2, <1>4, <1>5, <2>1
  <2> QED
    BY <2>2 DEF EndsInv
<1> QED
  BY <1>7, <1>8, <1>9, <1>12, <1>14, <1>16, <1>18, <1>19, <1>20 DEF PeriodInv

\* A period of an administrator is of no invoice.
LEMMA CreateStep ==
    ASSUME PeriodInv, EndsInv, NEW start \in 0..now, NEW end \in 1..(MaxTime + 1), P!CreatePeriod(start, end)
    PROVE  PeriodInv' /\ EndsInv'
<1>0. /\ PeriodTypes /\ SubInv /\ SentInv /\ ChangesInv /\ LooksInv
      /\ InvoiceInv /\ GiftInv /\ PlaceInv /\ RenewInv /\ DeadInv
  BY DEF PeriodInv
<1>a. PICK p : p = [inv |-> 0, start |-> start, end |-> end, renews |-> FALSE]
  OBVIOUS
<1> DEFINE n == Len(periods) + 1
<1>1. /\ \A i \in DOMAIN periods : periods[i].inv # 0
      /\ periods' = Append(periods, p)
      /\ UNCHANGED <<now, sub, sent, seen, looks, crossed, hurried>>
  BY <1>a DEF P!CreatePeriod, P!System
<1>2. /\ sub.bill \in Nat /\ sub.bill <= MaxTime + 1 /\ MaxTime \in Nat /\ now \in Nat
  BY <1>0, SubIs
<1>3. p.inv = 0 /\ p.end = end /\ end \in Nat /\ p \in P!Period
  BY <1>2, <1>a DEF P!Period, P!System
<1>4. /\ DOMAIN periods = 1..Len(periods) /\ Len(periods) \in Nat
      /\ \A i \in 1..Len(periods) : periods[i].end \in Nat
  BY <1>0, PeriodIs
<1>5. /\ periods' \in Seq(P!Period) /\ DOMAIN periods' = DOMAIN periods \cup {n} /\ n \notin DOMAIN periods
      /\ periods'[n] = p /\ \A i \in DOMAIN periods : periods'[i] = periods[i]
  <2>1. periods \in Seq(P!Period)
    BY <1>0 DEF PeriodTypes
  <2> QED
    BY <1>1, <1>3, <1>4, <2>1
<1> HIDE DEF n
<1>6. 0 \notin Gift /\ 0 \notin P!Bill
  BY <1>2, PeriodsAssumption DEF P!Bill
<1>7. PeriodTypes' /\ SubInv'
  BY <1>0, <1>1, <1>5 DEF PeriodTypes, SubInv
<1>8. SentInv' /\ ChangesInv'
  BY <1>0, <1>1 DEF SentInv, ChangesInv, PaidEvent, GiftEvent, ChangedEvent, EndedEvent
<1>9. LooksInv'
  BY <1>0, <1>1 DEF LooksInv
<1>10. \A f \in sent \ seen : f.kind \in {"paid", "gift"} => f.inv # 0
  <2>1. \A f \in sent : f.kind = "paid" => f.inv # 0
    BY <1>0, <1>2, KindIs DEF PaidEvent
  <2>2. \A f \in sent : f.kind = "gift" => f.inv # 0
    BY <1>0, <1>6, KindIs DEF GiftEvent
  <2> QED
    BY <2>1, <2>2
<1>11. InvoiceInv'
  <2>1. \A i \in DOMAIN periods' : P!OfProvider(i)' => periods'[i].inv <= sub.bill
    BY <1>0, <1>3, <1>5, <1>6 DEF InvoiceInv, P!OfProvider
  <2>2. \A i \in DOMAIN periods' : periods'[i].inv \in Gift => \E f \in sent : f.kind = "gift" /\ f.inv = periods'[i].inv
    BY <1>0, <1>3, <1>5, <1>6 DEF InvoiceInv
  <2>3. \A i \in DOMAIN periods', f \in sent \ seen : f.kind \in {"paid", "gift"} => f.inv # periods'[i].inv
    BY <1>0, <1>3, <1>5, <1>10 DEF InvoiceInv
  <2>4. P!OnePeriodPerInvoice'
    BY <1>0, <1>1, <1>3, <1>5 DEF InvoiceInv, P!OnePeriodPerInvoice
  <2> QED
    BY <1>1, <2>1, <2>2, <2>3, <2>4 DEF InvoiceInv
<1>12. GiftInv'
  BY <1>0, <1>1, <1>3, <1>5, <1>6 DEF GiftInv, Calm
<1>13. PlaceInv'
  BY <1>0, <1>1, <1>3, <1>5, <1>6 DEF PlaceInv, Placed, P!OfProvider
<1>14. RenewInv'
  <2>1. sub.live => sub.bill # 0
    BY <1>0 DEF SubInv
  <2> QED
    BY <1>0, <1>1, <1>3, <1>5, <2>1 DEF RenewInv, ChangeWaits
<1>15. DeadInv'
  <2>1. sub.bill >= 1 => sub.bill # 0
    BY <1>2
  <2> QED
    BY <1>0, <1>1, <1>3, <1>5, <2>1 DEF DeadInv
<1>16. EndsInv'
  <2>1. PICK b \in Nat : \A i \in DOMAIN periods : periods[i].end <= b
    BY DEF EndsInv
  <2>2. b + end \in Nat /\ \A i \in DOMAIN periods' : periods'[i].end <= b + end
    BY <1>3, <1>4, <1>5, <2>1
  <2> QED
    BY <2>2 DEF EndsInv
<1> QED
  BY <1>7, <1>8, <1>9, <1>11, <1>12, <1>13, <1>14, <1>15, <1>16 DEF PeriodInv

\* Periods are changed, none is put elsewhere or gets longer, and no payment is handled.
LEMMA Handled ==
    ASSUME PeriodInv, EndsInv,
           periods' \in Seq(P!Period), DOMAIN periods' = DOMAIN periods,
           \A j \in DOMAIN periods :
               /\ periods'[j].inv = periods[j].inv /\ periods'[j].start = periods[j].start
               /\ periods'[j].end <= periods[j].end,
           UNCHANGED <<now, sub, sent, looks, hurried>>, crossed' \in BOOLEAN,
           seen \subseteq seen', seen' \subseteq sent,
           \A e \in seen' \ seen : e.kind \notin {"paid", "gift"}
    PROVE  /\ PeriodTypes' /\ SubInv' /\ SentInv' /\ ChangesInv' /\ LooksInv'
           /\ InvoiceInv' /\ GiftInv' /\ EndsInv'
<1>0. /\ PeriodTypes /\ SubInv /\ SentInv /\ ChangesInv /\ LooksInv /\ InvoiceInv /\ GiftInv
  BY DEF PeriodInv
<1>1. PeriodTypes' /\ SubInv'
  BY <1>0 DEF PeriodTypes, SubInv
<1>2. SentInv' /\ ChangesInv'
  BY <1>0 DEF SentInv, ChangesInv, PaidEvent, GiftEvent, ChangedEvent, EndedEvent
<1>3. LooksInv'
  BY <1>0 DEF LooksInv
<1>4. InvoiceInv'
  BY <1>0 DEF InvoiceInv, P!OfProvider, P!OnePeriodPerInvoice
<1>5. \A j \in DOMAIN periods : /\ periods[j].start \in Nat /\ periods[j].end \in Nat
                                /\ periods'[j].start \in Nat /\ periods'[j].end \in Nat
  <2>1. \A j \in DOMAIN periods : periods[j].start \in Nat /\ periods[j].end \in Nat
    BY <1>0, PeriodIs
  <2>2. \A j \in DOMAIN periods : periods'[j] \in P!Period
    OBVIOUS
  <2>3. \A j \in DOMAIN periods : periods'[j].start \in Nat /\ periods'[j].end \in Nat
    BY <2>2, PeriodFields
  <2> QED
    BY <2>1, <2>3
<1>6. \A j \in DOMAIN periods : Calm(periods[j])' <=> Calm(periods[j])
  BY DEF Calm
<1>7. GiftInv'
  <2>1. \A i, j \in DOMAIN periods :
           i # j /\ Calm(periods[i]) /\ Calm(periods[j]) =>
               periods'[i].end <= periods'[j].start \/ periods'[j].end <= periods'[i].start
    <3> SUFFICES ASSUME NEW i \in DOMAIN periods, NEW j \in DOMAIN periods, i # j,
                        Calm(periods[i]), Calm(periods[j])
                 PROVE  periods'[i].end <= periods'[j].start \/ periods'[j].end <= periods'[i].start
      OBVIOUS
    <3>1. periods[i].end <= periods[j].start \/ periods[j].end <= periods[i].start
      BY <1>0 DEF GiftInv
    <3> QED
      BY <1>5, <3>1
  <2>2. ASSUME NEW l \in looks, NEW i \in DOMAIN periods, Calm(l.period), Calm(periods[i])
        PROVE  periods'[i].end <= l.period.start
    <3>1. periods[i].end <= l.period.start /\ l.period.start \in Nat
      BY <1>0, <2>2, LookIs DEF GiftInv
    <3> QED
      BY <1>5, <3>1
  <2>3. \A l, k \in looks : Calm(l.period) /\ Calm(k.period) => l = k
    BY <1>0 DEF GiftInv
  <2> QED
    BY <1>6, <2>1, <2>2, <2>3 DEF GiftInv, Calm
<1>8. EndsInv'
  <2>1. PICK b \in Nat : \A i \in DOMAIN periods : periods[i].end <= b
    BY DEF EndsInv
  <2>2. \A i \in DOMAIN periods : periods'[i].end <= b
    BY <1>5, <2>1
  <2> QED
    BY <2>2 DEF EndsInv
<1> QED
  BY <1>1, <1>2, <1>3, <1>4, <1>7, <1>8

\* One period takes another value, or none does.
LEMMA OneChanged ==
    ASSUME PeriodTypes, NEW i \in DOMAIN periods, NEW p \in P!Period, periods' = [periods EXCEPT ![i] = p]
    PROVE  /\ periods' \in Seq(P!Period) /\ DOMAIN periods' = DOMAIN periods
           /\ \A j \in DOMAIN periods : periods'[j] = IF j = i THEN p ELSE periods[j]
BY PeriodIs DEF PeriodTypes

\* The change that is told of last decides, unless it was overtaken.
LEMMA ChangedStep ==
    ASSUME PeriodInv, EndsInv, NEW e \in sent, P!HandleChanged(e)
    PROVE  PeriodInv' /\ EndsInv'
<1>0. /\ PeriodTypes /\ SubInv /\ SentInv /\ ChangesInv /\ LooksInv
      /\ InvoiceInv /\ GiftInv /\ PlaceInv /\ RenewInv /\ DeadInv
  BY DEF PeriodInv
<1> DEFINE hit == {i \in DOMAIN periods :
                      IF sub.provider = "stripe" THEN periods[i].inv = e.inv
                      ELSE P!OfProvider(i) /\ P!Current(i)}
           late == \/ \E f \in seen : f.kind = "changed" /\ f.no > e.no
                   \/ \E l \in looks : l.event.inv = e.inv /\ l.period.renews # e.renews
<1>1. /\ e.kind = "changed" /\ seen' = seen \cup {e} /\ crossed' = (crossed \/ late)
      /\ UNCHANGED <<now, sub, sent, looks, hurried>>
      /\ \/ hit = {} /\ periods' = periods
         \/ \E i \in hit : periods' = [periods EXCEPT ![i] = [periods[i] EXCEPT !.renews = e.renews]]
  BY DEF P!HandleChanged, P!Fresh
<1>2. /\ e.inv \in 0..sub.bill /\ e.no \in 1..sub.changes /\ e.renews \in BOOLEAN
      /\ (e.no = sub.changes /\ e.inv = sub.bill => e.renews = sub.renews)
      /\ (sub.provider = "paypal" => e.inv = sub.bill)
  BY <1>0, <1>1, KindIs DEF ChangedEvent
<1>3. /\ sub.bill \in Nat /\ sub.bill <= MaxTime + 1 /\ MaxTime \in Nat /\ now \in Nat
      /\ sub.from \in Nat /\ sub.changes \in Nat /\ sub.provider \in {"stripe", "paypal"}
  BY <1>0, SubIs
<1>4. hit \subseteq DOMAIN periods
  OBVIOUS
<1>5. ASSUME NEW i \in hit, periods' = [periods EXCEPT ![i] = [periods[i] EXCEPT !.renews = e.renews]]
      PROVE  /\ periods' \in Seq(P!Period) /\ DOMAIN periods' = DOMAIN periods
             /\ \A j \in DOMAIN periods :
                    /\ periods'[j].inv = periods[j].inv /\ periods'[j].start = periods[j].start
                    /\ periods'[j].end = periods[j].end
                    /\ periods'[j].renews = IF j = i THEN e.renews ELSE periods[j].renews
  <2>1. PICK q : q = [periods[i] EXCEPT !.renews = e.renews]
    OBVIOUS
  <2>2. periods[i] \in P!Period
    BY <1>0, <1>4, PeriodIs
  <2>3. /\ q \in P!Period /\ q.inv = periods[i].inv /\ q.start = periods[i].start
        /\ q.end = periods[i].end /\ q.renews = e.renews
    BY <1>2, <2>1, <2>2 DEF P!Period
  <2>4. /\ periods' \in Seq(P!Period) /\ DOMAIN periods' = DOMAIN periods
        /\ \A j \in DOMAIN periods : periods'[j] = IF j = i THEN q ELSE periods[j]
    BY <1>0, <1>4, <1>5, <2>1, <2>3, OneChanged
  <2> QED
    BY <2>3, <2>4
<1>6. /\ periods' \in Seq(P!Period) /\ DOMAIN periods' = DOMAIN periods
      /\ \A j \in DOMAIN periods :
             /\ periods'[j].inv = periods[j].inv /\ periods'[j].start = periods[j].start
             /\ periods'[j].end = periods[j].end
  <2>1. CASE periods' = periods
    BY <1>0, <2>1 DEF PeriodTypes
  <2>2. CASE periods' # periods
    BY <1>1, <1>5, <2>2
  <2> QED
    BY <2>1, <2>2
<1>7. ~crossed' => ~crossed /\ ~late
  BY <1>1, Zenon
<1>8. /\ PeriodTypes' /\ SubInv' /\ SentInv' /\ ChangesInv' /\ LooksInv'
      /\ InvoiceInv' /\ GiftInv' /\ EndsInv'
  <2>1. crossed' \in BOOLEAN
    BY <1>1, Zenon
  <2>2. \A j \in DOMAIN periods : periods'[j].end <= periods[j].end
    BY <1>0, <1>6, PeriodIs
  <2>3. seen \subseteq seen' /\ seen' \subseteq sent /\ \A f \in seen' \ seen : f.kind \notin {"paid", "gift"}
    BY <1>0, <1>1 DEF SentInv
  <2> QED
    BY <1>1, <1>6, <2>1, <2>2, <2>3, Handled
<1>9. PlaceInv'
  BY <1>0, <1>1, <1>6, <1>7 DEF PlaceInv, Placed, P!OfProvider
<1>10. RenewInv'
  <2> SUFFICES ASSUME ~crossed', sub.live, ~ChangeWaits'
               PROVE  /\ \A i \in DOMAIN periods : periods[i].inv = sub.bill => periods'[i].renews = sub.renews
                      /\ \A l \in looks : l.event.kind = "paid" /\ l.event.inv = sub.bill => l.period.renews = sub.renews
    BY <1>1, <1>6 DEF RenewInv
  <2>1. ~crossed /\ ~late
    BY <1>7
  <2>2. sub.bill \in P!Bill /\ sub.from = now
    BY <1>0, <1>3 DEF SubInv, P!Bill
  <2>3. ASSUME e.no = sub.changes, e.inv = sub.bill
        PROVE  /\ \A i \in DOMAIN periods : periods[i].inv = sub.bill => periods'[i].renews = sub.renews
               /\ \A l \in looks : l.event.kind = "paid" /\ l.event.inv = sub.bill => l.period.renews = sub.renews
    <3>1. e.renews = sub.renews
      BY <1>2, <2>3
    <3>2. \A l \in looks : l.event.inv = sub.bill => l.period.renews = sub.renews
      BY <2>1, <2>3, <3>1
    <3>3. ASSUME NEW i \in DOMAIN periods, periods[i].inv = sub.bill PROVE periods'[i].renews = sub.renews
      <4>1. P!OfProvider(i) /\ P!Current(i)
        <5>1. P!OfProvider(i)
          BY <2>2, <3>3 DEF P!OfProvider
        <5>2. Placed(periods[i])
          BY <1>0, <2>1, <5>1 DEF PlaceInv
        <5>3. periods[i].start = now /\ periods[i].end = now + 1
          BY <2>2, <3>3, <5>2 DEF Placed
        <5> QED
          BY <1>3, <5>1, <5>3 DEF P!Current
      <4>2. i \in hit
        BY <2>3, <3>3, <4>1
      <4>3. PICK h \in hit : periods' = [periods EXCEPT ![h] = [periods[h] EXCEPT !.renews = e.renews]]
        BY <1>1, <4>2
      <4>4. h = i
        <5>1. CASE sub.provider = "stripe"
          <6>1. periods[h].inv = sub.bill
            BY <2>3, <5>1
          <6> QED
            BY <1>0, <1>4, <3>3, <6>1 DEF InvoiceInv, P!OnePeriodPerInvoice
        <5>2. CASE sub.provider = "paypal"
          <6>1. h \in DOMAIN periods /\ P!OfProvider(h) /\ P!Current(h)
            BY <4>3, <5>2
          <6>2. Placed(periods[h])
            BY <1>0, <2>1, <6>1 DEF PlaceInv
          <6>3. now < periods[h].end /\ periods[h].end \in Nat
            BY <1>0, <6>1, PeriodIs DEF P!Current
          <6>4. periods[h].inv = sub.bill
            BY <1>3, <2>2, <6>2, <6>3 DEF Placed
          <6> QED
            BY <1>0, <3>3, <6>1, <6>4 DEF InvoiceInv, P!OnePeriodPerInvoice
        <5> QED
          BY <1>3, <5>1, <5>2
      <4> QED
        <5>1. \A j \in DOMAIN periods : periods'[j].renews = IF j = h THEN e.renews ELSE periods[j].renews
          BY <1>5, <4>3
        <5>2. periods'[i].renews = e.renews
          BY <4>4, <5>1, Zenon
        <5> QED
          BY <3>1, <5>2
    <3> QED
      BY <3>2, <3>3
  <2>4. ASSUME ~(e.no = sub.changes /\ e.inv = sub.bill) PROVE ~ChangeWaits
    <3>1. SUFFICES ASSUME ChangeWaits PROVE FALSE
      OBVIOUS
    <3>2. PICK f \in sent \ seen : f.kind = "changed" /\ f.no = sub.changes /\ f.inv = sub.bill
      BY <3>1 DEF ChangeWaits
    <3>3. f \notin seen'
      BY <1>1, <2>4, <3>2
    <3> QED
      BY <1>1, <3>2, <3>3 DEF ChangeWaits
  <2>5. ASSUME ~(e.no = sub.changes /\ e.inv = sub.bill) PROVE e.inv # sub.bill
    <3> SUFFICES ASSUME e.inv = sub.bill PROVE FALSE
      OBVIOUS
    <3>1. e.no < sub.changes /\ e.no \in Nat /\ sub.changes > 0
      BY <1>2, <1>3, <2>5
    <3>2. PICK f \in sent : f.kind = "changed" /\ f.no = sub.changes
      BY <1>0, <3>1 DEF ChangesInv
    <3>3. f.inv \in Nat /\ f.inv <= sub.bill
      BY <1>0, <1>3, <3>2, KindIs DEF ChangedEvent
    <3>4. e.inv <= f.inv
      BY <1>0, <1>1, <3>1, <3>2 DEF ChangesInv
    <3>5. f.inv = sub.bill
      BY <1>3, <3>3, <3>4
    <3>6. f \notin seen
      BY <1>3, <2>1, <3>1, <3>2
    <3>7. f \notin seen' /\ f \in sent'
      BY <1>1, <3>1, <3>2, <3>6
    <3> QED
      BY <1>1, <3>2, <3>5, <3>7 DEF ChangeWaits
  <2>6. ASSUME ~(e.no = sub.changes /\ e.inv = sub.bill)
        PROVE  \A i \in DOMAIN periods : periods[i].inv = sub.bill => periods'[i].renews = periods[i].renews
    <3>1. CASE periods' = periods
      BY <3>1
    <3>2. CASE periods' # periods
      <4>1. PICK h \in hit : periods' = [periods EXCEPT ![h] = [periods[h] EXCEPT !.renews = e.renews]]
        BY <1>1, <3>2
      <4>2. sub.provider = "stripe"
        BY <1>2, <1>3, <2>5, <2>6
      <4>3. periods[h].inv # sub.bill
        BY <2>5, <2>6, <4>2
      <4> QED
        BY <1>5, <4>1, <4>3
    <3> QED
      BY <3>1, <3>2
  <2>7. ASSUME ~(e.no = sub.changes /\ e.inv = sub.bill)
        PROVE  /\ \A i \in DOMAIN periods : periods[i].inv = sub.bill => periods'[i].renews = sub.renews
               /\ \A l \in looks : l.event.kind = "paid" /\ l.event.inv = sub.bill => l.period.renews = sub.renews
    BY <1>0, <2>1, <2>4, <2>6, <2>7 DEF RenewInv
  <2> QED
    BY <2>3, <2>7
<1>11. DeadInv'
  <2> SUFFICES ASSUME ~crossed, ~sub.live, sub.bill >= 1, ~(sub.from + 1 <= now),
                      ~(\E f \in sent \ seen' : f.kind = "ended")
               PROVE  /\ \A f \in sent \ seen' : f.kind = "paid" => f.inv # sub.bill
                      /\ \A i \in DOMAIN periods' : periods'[i].inv = sub.bill => periods'[i].end <= now
    BY <1>1, <1>7 DEF DeadInv
  <2>1. /\ \A f \in sent \ seen : f.kind = "paid" => f.inv # sub.bill
        /\ \A i \in DOMAIN periods : periods[i].inv = sub.bill => periods[i].end <= now
    BY <1>0, <1>1 DEF DeadInv
  <2> QED
    BY <1>1, <1>6, <2>1
<1> QED
  BY <1>8, <1>9, <1>10, <1>11 DEF PeriodInv

\* The period that ends is the one of the last invoice, and nothing is to come for it.
LEMMA EndedStep ==
    ASSUME PeriodInv, EndsInv, NEW e \in sent, P!HandleEnded(e)
    PROVE  PeriodInv' /\ EndsInv'
<1>0. /\ PeriodTypes /\ SubInv /\ SentInv /\ ChangesInv /\ LooksInv
      /\ InvoiceInv /\ GiftInv /\ PlaceInv /\ RenewInv /\ DeadInv
  BY DEF PeriodInv
<1> DEFINE hit == {i \in DOMAIN periods : P!OfProvider(i) /\ P!Current(i)}
           late == \E f \in sent \ seen : f.kind = "paid" /\ f.inv = sub.bill
<1>1. /\ e.kind = "ended" /\ seen' = seen \cup {e} /\ crossed' = (crossed \/ late)
      /\ UNCHANGED <<now, sub, sent, looks, hurried>>
      /\ \/ hit = {} /\ periods' = periods
         \/ \E i \in hit : periods' = [periods EXCEPT ![i] = [periods[i] EXCEPT !.end = e.at]]
  BY DEF P!HandleEnded, P!Fresh
<1>2. e.at \in Nat /\ e.at <= now /\ ~sub.live /\ sub.bill >= 1
  <2>1. EndedEvent(e)
    BY <1>0, <1>1, KindIs
  <2> QED
    BY <1>0, <2>1, SubIs DEF EndedEvent
<1>3. /\ sub.bill \in Nat /\ sub.bill <= MaxTime + 1 /\ MaxTime \in Nat /\ now \in Nat
      /\ sub.from \in Nat /\ sub.from <= now
  BY <1>0, SubIs DEF SubInv
<1>4. \A j \in DOMAIN periods : periods[j].start \in Nat /\ periods[j].end \in Nat /\ periods[j] \in P!Period
  BY <1>0, PeriodIs
<1>5. ASSUME NEW i \in hit, periods' = [periods EXCEPT ![i] = [periods[i] EXCEPT !.end = e.at]]
      PROVE  /\ periods' \in Seq(P!Period) /\ DOMAIN periods' = DOMAIN periods
             /\ \A j \in DOMAIN periods :
                    /\ periods'[j].inv = periods[j].inv /\ periods'[j].start = periods[j].start
                    /\ periods'[j].renews = periods[j].renews
                    /\ periods'[j].end = IF j = i THEN e.at ELSE periods[j].end
  <2>1. PICK q : q = [periods[i] EXCEPT !.end = e.at]
    OBVIOUS
  <2>2. periods[i] \in P!Period
    BY <1>4
  <2>3. /\ q \in P!Period /\ q.inv = periods[i].inv /\ q.start = periods[i].start
        /\ q.end = e.at /\ q.renews = periods[i].renews
    BY <1>2, <2>1, <2>2 DEF P!Period
  <2>4. /\ periods' \in Seq(P!Period) /\ DOMAIN periods' = DOMAIN periods
        /\ \A j \in DOMAIN periods : periods'[j] = IF j = i THEN q ELSE periods[j]
    BY <1>0, <1>5, <2>1, <2>3, OneChanged
  <2> QED
    BY <2>3, <2>4
<1>6. \A j \in hit : now < periods[j].end /\ periods[j].start <= now
  BY DEF P!Current
<1>7. /\ periods' \in Seq(P!Period) /\ DOMAIN periods' = DOMAIN periods
      /\ \A j \in DOMAIN periods :
             /\ periods'[j].inv = periods[j].inv /\ periods'[j].start = periods[j].start
             /\ periods'[j].end = periods[j].end \/ (j \in hit /\ periods'[j].end = e.at)
             /\ periods'[j].end \in Nat /\ periods'[j].end <= periods[j].end
  <2>1. CASE periods' = periods
    BY <1>0, <1>4, <2>1 DEF PeriodTypes
  <2>2. CASE periods' # periods
    <3>1. PICK i \in hit : periods' = [periods EXCEPT ![i] = [periods[i] EXCEPT !.end = e.at]]
      BY <1>1, <2>2
    <3>2. e.at <= periods[i].end
      BY <1>2, <1>3, <1>4, <1>6
    <3>3. /\ periods' \in Seq(P!Period) /\ DOMAIN periods' = DOMAIN periods
          /\ \A j \in DOMAIN periods :
                    /\ periods'[j].inv = periods[j].inv /\ periods'[j].start = periods[j].start
                    /\ periods'[j].end = IF j = i THEN e.at ELSE periods[j].end
      BY <1>5, <3>1
    <3> HIDE DEF hit
    <3> QED
      BY <1>2, <1>4, <3>2, <3>3
  <2> QED
    BY <2>1, <2>2
<1>8. ~crossed' => ~crossed /\ ~late
  BY <1>1, Zenon
<1>9. /\ PeriodTypes' /\ SubInv' /\ SentInv' /\ ChangesInv' /\ LooksInv'
      /\ InvoiceInv' /\ GiftInv' /\ EndsInv'
  <2>1. crossed' \in BOOLEAN
    BY <1>1, Zenon
  <2>2. seen \subseteq seen' /\ seen' \subseteq sent /\ \A f \in seen' \ seen : f.kind \notin {"paid", "gift"}
    BY <1>0, <1>1 DEF SentInv
  <2> QED
    BY <1>1, <1>7, <2>1, <2>2, Handled
<1>10. PlaceInv'
  <2> SUFFICES ASSUME ~crossed'
               PROVE  /\ \A i \in DOMAIN periods : P!OfProvider(i) => Placed(periods'[i])
                      /\ \A l \in looks : l.event.kind = "paid" => Placed(l.period)
    BY <1>1, <1>7 DEF PlaceInv, P!OfProvider, Placed
  <2>1. \A i \in DOMAIN periods : P!OfProvider(i) => Placed(periods[i])
    BY <1>0, <1>8 DEF PlaceInv
  <2>2. ASSUME NEW i \in DOMAIN periods, P!OfProvider(i) PROVE Placed(periods'[i])
    <3>1. Placed(periods[i])
      BY <2>1, <2>2
    <3>2. CASE periods'[i].end = periods[i].end
      BY <1>7, <3>1, <3>2 DEF Placed
    <3>3. CASE i \in hit /\ periods'[i].end = e.at
      <4>1. periods[i].inv = sub.bill
        <5>1. now < periods[i].end
          BY <1>6, <3>3
        <5> QED
          BY <1>3, <1>4, <3>1, <5>1 DEF Placed
      <4>2. periods'[i].inv = sub.bill /\ periods'[i].start = sub.from /\ periods'[i].end <= now
        BY <1>2, <1>7, <3>1, <3>3, <4>1 DEF Placed
      <4> QED
        BY <1>2, <4>2 DEF Placed
    <3> QED
      BY <1>7, <3>2, <3>3
  <2> QED
    BY <1>0, <1>8, <2>2 DEF PlaceInv
<1>11. RenewInv'
  BY <1>1, <1>2 DEF RenewInv
<1>12. DeadInv'
  <2> SUFFICES ASSUME ~crossed', ~(sub.from + 1 <= now)
               PROVE  /\ \A f \in sent \ seen' : f.kind = "paid" => f.inv # sub.bill
                      /\ \A i \in DOMAIN periods : periods[i].inv = sub.bill => periods'[i].end <= now
    BY <1>1, <1>7 DEF DeadInv
  <2>1. ~crossed /\ ~late /\ sub.from = now
    BY <1>3, <1>8
  <2>2. \A f \in sent \ seen' : f.kind = "paid" => f.inv # sub.bill
    BY <1>1, <2>1
  <2>3. ASSUME NEW i \in DOMAIN periods, periods[i].inv = sub.bill PROVE periods'[i].end <= now
    <3>1. P!OfProvider(i)
      BY <1>2, <1>3, <2>3 DEF P!OfProvider, P!Bill
    <3>2. Placed(periods[i])
      BY <1>0, <2>1, <3>1 DEF PlaceInv
    <3>3. CASE periods[i].end <= now
      BY <1>2, <1>3, <1>4, <1>7, <3>3
    <3>4. CASE ~(periods[i].end <= now)
      <4>1. periods[i].start = now /\ now < periods[i].end
        BY <1>3, <1>4, <2>1, <2>3, <3>2, <3>4 DEF Placed
      <4>2. i \in hit
        BY <1>3, <3>1, <4>1 DEF P!Current
      <4>3. PICK h \in hit : periods' = [periods EXCEPT ![h] = [periods[h] EXCEPT !.end = e.at]]
        BY <1>1, <4>2
      <4>4. Placed(periods[h]) /\ now < periods[h].end
        BY <1>0, <1>6, <2>1 DEF PlaceInv
      <4>5. periods[h].inv = sub.bill
        BY <1>3, <1>4, <2>1, <4>4 DEF Placed
      <4>6. h = i
        BY <1>0, <2>3, <4>5 DEF InvoiceInv, P!OnePeriodPerInvoice
      <4> QED
        BY <1>2, <1>5, <4>3, <4>6
    <3> QED
      BY <3>3, <3>4
  <2> QED
    BY <2>2, <2>3
<1> QED
  BY <1>9, <1>10, <1>11, <1>12 DEF PeriodInv

\* A period that is nobody's subscription ends.
LEMMA CutStep ==
    ASSUME PeriodInv, EndsInv, NEW i \in DOMAIN periods, P!Current(i), ~P!OfProvider(i),
           periods' = [periods EXCEPT ![i].end = now],
           UNCHANGED <<now, sub, sent, seen, looks, crossed, hurried>>
    PROVE  PeriodInv' /\ EndsInv'
<1>0. /\ PeriodTypes /\ SubInv /\ SentInv /\ ChangesInv /\ LooksInv
      /\ InvoiceInv /\ GiftInv /\ PlaceInv /\ RenewInv /\ DeadInv
  BY DEF PeriodInv
<1>1. /\ sub.bill \in Nat /\ sub.bill <= MaxTime + 1 /\ MaxTime \in Nat /\ now \in Nat
  BY <1>0, SubIs
<1>2. \A j \in DOMAIN periods : periods[j].start \in Nat /\ periods[j].end \in Nat /\ periods[j] \in P!Period
  BY <1>0, PeriodIs
<1>3. now < periods[i].end
  BY DEF P!Current
<1>4. /\ periods' \in Seq(P!Period) /\ DOMAIN periods' = DOMAIN periods
      /\ \A j \in DOMAIN periods :
             /\ periods'[j].inv = periods[j].inv /\ periods'[j].start = periods[j].start
             /\ periods'[j].renews = periods[j].renews
             /\ periods'[j].end = IF j = i THEN now ELSE periods[j].end
  <2>1. PICK q : q = [periods[i] EXCEPT !.end = now]
    OBVIOUS
  <2>2. /\ q \in P!Period /\ q.inv = periods[i].inv /\ q.start = periods[i].start
        /\ q.end = now /\ q.renews = periods[i].renews
    BY <1>1, <1>2, <2>1 DEF P!Period
  <2>3. /\ periods' \in Seq(P!Period) /\ DOMAIN periods' = DOMAIN periods
        /\ \A j \in DOMAIN periods : periods'[j] = IF j = i THEN q ELSE periods[j]
    BY <1>0, <2>1, <2>2, OneChanged
  <2> QED
    BY <2>2, <2>3
<1>5. \A j \in DOMAIN periods : periods'[j].end <= periods[j].end
  BY <1>1, <1>2, <1>3, <1>4
<1>6. /\ PeriodTypes' /\ SubInv' /\ SentInv' /\ ChangesInv' /\ LooksInv'
      /\ InvoiceInv' /\ GiftInv' /\ EndsInv'
  <2>1. crossed' \in BOOLEAN /\ seen \subseteq sent
    BY <1>0 DEF PeriodTypes, SentInv
  <2> QED
    BY <1>4, <1>5, <2>1, Handled
<1>7. sub.bill >= 1 => periods[i].inv # sub.bill
  BY <1>1 DEF P!OfProvider, P!Bill
<1>8. PlaceInv'
  BY <1>0, <1>4 DEF PlaceInv, Placed, P!OfProvider
<1>9. RenewInv'
  BY <1>0, <1>4 DEF RenewInv, ChangeWaits
<1>10. DeadInv'
  BY <1>0, <1>4, <1>7 DEF DeadInv
<1> QED
  BY <1>6, <1>8, <1>9, <1>10 DEF PeriodInv

LEMMA PeriodStep == PeriodInv /\ EndsInv /\ [P!Next]_payments => PeriodInv' /\ EndsInv'
<1> SUFFICES ASSUME PeriodInv, EndsInv, [P!Next]_payments PROVE PeriodInv' /\ EndsInv'
  OBVIOUS
<1>0. PeriodTypes /\ SubInv /\ now \in Nat /\ MaxTime \in Nat
  BY SubIs DEF PeriodInv
<1>1. ASSUME UNCHANGED periods PROVE EndsInv'
  BY <1>1 DEF EndsInv
<1>2. CASE P!Subscribe
  <2>1. sub.bill = 0 /\ ~sub.live /\ P!Charged(sub, now) /\ UNCHANGED <<now, seen, looks, periods, crossed, hurried>>
    BY <1>0, <1>2 DEF P!Subscribe, SubInv
  <2>2. now \in 0..MaxTime
    BY <1>0 DEF PeriodTypes
  <2> QED
    BY <1>1, <2>1, <2>2, ChargeStep
<1>3. CASE P!Tick
  <2>1. now < MaxTime /\ now' = now + 1 /\ UNCHANGED <<seen, looks, periods, crossed, hurried>>
    BY <1>3 DEF P!Tick
  <2>2. now + 1 \in 0..MaxTime /\ now + 1 >= now
    BY <1>0, <2>1
  <2>3. CASE sub.live /\ sub.renews
    <3>1. P!Charged(sub, now + 1)
      BY <1>3, <2>3 DEF P!Tick
    <3> QED
      BY <1>1, <2>1, <2>2, <2>3, <3>1, ChargeStep
  <2>4. CASE ~(sub.live /\ sub.renews)
    <3>a. PICK e : e = [kind |-> "ended", at |-> now']
      OBVIOUS
    <3>1. sub.live => sub' = [sub EXCEPT !.live = FALSE]
      BY <1>3, <2>4 DEF P!Tick
    <3>2. ~sub.live => sub' = sub
      BY <1>3 DEF P!Tick
    <3>3. sent' = sent \/ (sent' = sent \cup {e} /\ sub.live)
      BY <1>3, <2>1, <2>4, <3>a DEF P!Tick, P!Send
    <3> QED
      BY <1>1, <2>1, <2>2, <3>a, <3>1, <3>2, <3>3, EndAny
  <2> QED
    BY <2>3, <2>4
<1>4. CASE P!EndAtOnce
  <2>a. PICK e : e = [kind |-> "ended", at |-> now']
    OBVIOUS
  <2>1. /\ sub.live /\ sub' = [sub EXCEPT !.live = FALSE] /\ sent' = sent \cup {e} /\ now' = now
        /\ UNCHANGED <<seen, looks, periods, crossed, hurried>>
    BY <1>4, <2>a DEF P!EndAtOnce, P!Send
  <2>2. now' \in 0..MaxTime /\ now' >= now
    BY <1>0, <2>1 DEF PeriodTypes
  <2> QED
    BY <1>1, <2>a, <2>1, <2>2, EndAny
<1>5. CASE \E g \in Gift, n \in GiftLength : P!BuyGift(g, n)
  <2>1. PICK g \in Gift, n \in GiftLength : P!BuyGift(g, n)
    BY <1>5
  <2> QED
    BY <1>1, <2>1, BuyStep DEF P!BuyGift
<1>6. CASE \E renew \in BOOLEAN : P!ToldThere(renew)
  <2>1. PICK renew \in BOOLEAN : P!ToldThere(renew)
    BY <1>6
  <2> QED
    BY <1>1, <2>1, ToldStep DEF P!ToldThere
<1>7. CASE P!Payments
  <2>1. PICK e \in sent : P!LookPaid(e) \/ P!PaidForNothing(e) \/ P!LookGift(e)
    BY <1>7 DEF P!Payments
  <2>2. UNCHANGED periods
    BY <2>1 DEF P!LookPaid, P!PaidForNothing, P!LookGift
  <2> QED
    BY <1>1, <2>1, <2>2, PaidStep, NothingStep, GiftStep
<1>8. CASE P!Commits
  BY <1>8, CommitStep DEF P!Commits
<1>9. CASE P!Changes
  BY <1>9, ChangedStep, EndedStep DEF P!Changes
<1>10. CASE P!Requests
  <2>1. ASSUME NEW i \in DOMAIN periods, P!Cancel(i) PROVE PeriodInv' /\ EndsInv'
    <3>1. CASE P!OfProvider(i)
      BY <1>1, <2>1, <3>1, ToldStep DEF P!Cancel
    <3>2. CASE ~P!OfProvider(i)
      BY <2>1, <3>2, CutStep DEF P!Cancel
    <3> QED
      BY <3>1, <3>2
  <2>2. ASSUME NEW i \in DOMAIN periods, P!Reactivate(i) PROVE PeriodInv' /\ EndsInv'
    BY <1>1, <2>2, ToldStep DEF P!Reactivate
  <2> QED
    BY <1>10, <2>1, <2>2, CreateStep DEF P!Requests
<1>11. CASE \E l \in looks : P!Fail(l)
  BY <1>1, <1>11, FailStep DEF P!Fail
<1>12. CASE UNCHANGED payments
  <2>1. UNCHANGED <<now, sub, sent, seen, looks, periods, crossed, hurried>>
    BY <1>12 DEF payments
  <2>2. hurried' \subseteq Gift
    BY <1>0, <2>1 DEF PeriodTypes
  <2>3. SubKeeps /\ LooksInv' /\ GiftInv'
    BY <2>1, <2>2, SubSame, LooksStay DEF PeriodInv
  <2> QED
    BY <1>1, <2>1, <2>3 DEF PeriodInv, SubKeeps
<1> QED
  BY <1>2, <1>3, <1>4, <1>5, <1>6, <1>7, <1>8, <1>9, <1>10, <1>11, <1>12 DEF P!Next

\* The periods are what was paid and given: a payment makes one, however often its event
\* comes; no two calm gifts cover the same cycle; and when all events have been handled
\* in order, the last period renews if the subscription does and is over if it is.
THEOREM PeriodsAlwaysFollow == P!Spec => []PeriodsFollow
<1>1. P!Init => PeriodInv /\ EndsInv
  <2>1. P!Init => periods = << >> \/ periods = << [inv |-> 1, start |-> 0, end |-> 1, renews |-> TRUE] >>
    BY DEF P!Init
  <2>2. P!Init => EndsInv
    BY <2>1 DEF EndsInv
  <2> QED
    BY <2>2, PeriodInit
<1>2. PeriodInv /\ EndsInv /\ [P!Next]_payments => PeriodInv' /\ EndsInv'
  BY PeriodStep
<1>3. PeriodInv => PeriodsFollow
  <2> SUFFICES ASSUME PeriodInv PROVE P!OnePeriodPerInvoice /\ P!GiftsAddUp /\ P!ProviderFollowed
    BY DEF PeriodsFollow, P!PeriodsFollow
  <2>1. P!OnePeriodPerInvoice
    BY DEF PeriodInv, InvoiceInv
  <2>2. P!GiftsAddUp
    BY DEF PeriodInv, GiftInv, Calm, P!GiftsAddUp
  <2>3. ASSUME sent = seen, ~crossed, NEW i \in DOMAIN periods, P!OfProvider(i), periods[i].inv = sub.bill
        PROVE  IF sub.live THEN periods[i].renews = sub.renews ELSE ~P!Current(i)
    <3>1. ~ChangeWaits
      BY <2>3 DEF ChangeWaits
    <3>2. sub.live => periods[i].renews = sub.renews
      BY <2>3, <3>1 DEF PeriodInv, RenewInv
    <3>3. ~sub.live => ~P!Current(i)
      <4> SUFFICES ASSUME ~sub.live PROVE ~P!Current(i)
        OBVIOUS
      <4>1. /\ sub.bill \in Nat /\ sub.from \in Nat /\ now \in Nat /\ periods[i].end \in Nat
            /\ periods[i].inv \in 1..(MaxTime + 1) /\ MaxTime \in Nat
        BY <2>3, SubIs, PeriodIs DEF PeriodInv
      <4>2. sub.from + 1 <= now \/ periods[i].end <= now
        BY <2>3, <4>1 DEF PeriodInv, DeadInv
      <4>3. periods[i].end = sub.from + 1 \/ periods[i].end <= now
        BY <2>3 DEF PeriodInv, PlaceInv, Placed
      <4> QED
        BY <4>1, <4>2, <4>3 DEF P!Current
    <3> QED
      BY <3>2, <3>3
  <2>4. P!ProviderFollowed
    BY <2>3 DEF P!ProviderFollowed
  <2> QED
    BY <2>1, <2>2, <2>4
<1> QED
  BY <1>1, <1>2, <1>3, PTL DEF P!Spec, P!vars, payments

-----------------------------------------------------------------------------
(* The age.  The spans that Spans makes of the periods stay Tidy and cover *)
(* the same cycles as they do (SpansCover), so that the sum of their       *)
(* lengths is the number of these cycles (SumCounts).  A sum and a join of *)
(* one after the other are recursive functions: what holds of every step   *)
(* holds at the end, as there is no least number where it does not.        *)

Ends(t) == {P!Least(periods[i].end, now) : i \in {i \in DOMAIN periods : periods[i].start = t}}

\* What Spans makes of the periods that start before n.
JoinedUpTo(f, n) ==
    f = [t \in 0..n |-> IF t = 0 THEN << >> ELSE P!JoinAll(f[t-1], t-1, Ends(t-1))]

LEMMA JoinedExists == ASSUME NEW n \in Nat PROVE \E f : JoinedUpTo(f, n)
<1> DEFINE Bad == {k \in Nat : k <= n /\ ~ \E f : JoinedUpTo(f, k)}
<1> SUFFICES ASSUME Bad # {} PROVE FALSE
  OBVIOUS
<1>1. PICK k \in Bad : \A m \in Bad : k <= m
  BY LeastNumber
<1>2. CASE k = 0
  <2> DEFINE f == [i \in 0..0 |-> << >>]
  <2>1. JoinedUpTo(f, 0)
    BY DEF JoinedUpTo
  <2> QED
    BY <1>1, <1>2, <2>1
<1>3. CASE k # 0
  <2>1. k - 1 \in Nat /\ k - 1 <= n /\ k - 1 \notin Bad
    BY <1>1, <1>3
  <2>2. PICK g : JoinedUpTo(g, k - 1)
    BY <2>1
  <2> DEFINE f == [i \in 0..k |-> IF i = k THEN P!JoinAll(g[k-1], k-1, Ends(k-1)) ELSE g[i]]
             h == [t \in 0..k |-> IF t = 0 THEN << >> ELSE P!JoinAll(f[t-1], t-1, Ends(t-1))]
  <2>3. ASSUME NEW i \in 0..k PROVE f[i] = h[i]
    <3>1. CASE i = k
      BY <1>3, <2>1, <3>1
    <3>2. CASE i # k
      <4>1. i \in 0..(k-1)
        BY <3>2, <2>1
      <4>2. g[i] = IF i = 0 THEN << >> ELSE P!JoinAll(g[i-1], i-1, Ends(i-1))
        BY <2>2, <4>1 DEF JoinedUpTo
      <4>3. f[i] = g[i] /\ (i # 0 => f[i-1] = g[i-1])
        BY <3>2, <4>1
      <4> QED
        BY <4>2, <4>3
    <3> QED
      BY <3>1, <3>2
  <2>4. f = h
    <3>1. DOMAIN f = 0..k /\ DOMAIN h = 0..k
      OBVIOUS
    <3> QED
      BY <2>3, <3>1
  <2>5. JoinedUpTo(f, k)
    BY <2>4 DEF JoinedUpTo
  <2> QED
    BY <1>1, <2>5
<1> QED
  BY <1>2, <1>3

LEMMA SpansIs ==
    ASSUME now \in Nat
    PROVE  \E f : JoinedUpTo(f, now) /\ P!Spans(periods) = f[now]
<1> DEFINE f == CHOOSE g : JoinedUpTo(g, now)
<1>1. JoinedUpTo(f, now)
  BY JoinedExists
<1>2. P!Spans(periods) = f[now]
  BY DEF P!Spans, JoinedUpTo, Ends
<1> QED
  BY <1>1, <1>2

\* The sum of the lengths of the first n spans.
SumUpTo(f, s, n) ==
    f = [k \in 0..n |-> IF k = 0 THEN 0 ELSE f[k-1] + (s[k].end - s[k].start)]

LEMMA SumExists == ASSUME NEW s, NEW n \in Nat PROVE \E f : SumUpTo(f, s, n)
<1> DEFINE Bad == {k \in Nat : k <= n /\ ~ \E f : SumUpTo(f, s, k)}
<1> SUFFICES ASSUME Bad # {} PROVE FALSE
  OBVIOUS
<1>1. PICK k \in Bad : \A m \in Bad : k <= m
  BY LeastNumber
<1>2. CASE k = 0
  <2> DEFINE f == [i \in 0..0 |-> 0]
  <2>1. SumUpTo(f, s, 0)
    BY DEF SumUpTo
  <2> QED
    BY <1>1, <1>2, <2>1
<1>3. CASE k # 0
  <2>1. k - 1 \in Nat /\ k - 1 <= n /\ k - 1 \notin Bad
    BY <1>1, <1>3
  <2>2. PICK g : SumUpTo(g, s, k - 1)
    BY <2>1
  <2> DEFINE f == [i \in 0..k |-> IF i = k THEN g[k-1] + (s[k].end - s[k].start) ELSE g[i]]
             h == [i \in 0..k |-> IF i = 0 THEN 0 ELSE f[i-1] + (s[i].end - s[i].start)]
  <2>3. ASSUME NEW i \in 0..k PROVE f[i] = h[i]
    <3>1. CASE i = k
      BY <1>3, <2>1, <3>1
    <3>2. CASE i # k
      <4>1. i \in 0..(k-1)
        BY <3>2, <2>1
      <4>2. g[i] = IF i = 0 THEN 0 ELSE g[i-1] + (s[i].end - s[i].start)
        BY <2>2, <4>1 DEF SumUpTo
      <4>3. f[i] = g[i] /\ (i # 0 => f[i-1] = g[i-1])
        BY <3>2, <4>1
      <4> QED
        BY <4>2, <4>3
    <3> QED
      BY <3>1, <3>2
  <2>4. f = h
    <3>1. DOMAIN f = 0..k /\ DOMAIN h = 0..k
      OBVIOUS
    <3> QED
      BY <2>3, <3>1
  <2>5. SumUpTo(f, s, k)
    BY <2>4 DEF SumUpTo
  <2> QED
    BY <1>1, <2>5
<1> QED
  BY <1>2, <1>3

LEMMA SubAgeIs ==
    ASSUME NEW s, s = P!Spans(periods), Len(s) \in Nat
    PROVE  \E f : SumUpTo(f, s, Len(s)) /\ P!SubAge(periods) = f[Len(s)]
<1> DEFINE f == CHOOSE g : SumUpTo(g, s, Len(s))
<1>1. SumUpTo(f, s, Len(s))
  BY SumExists
<1>2. P!SubAge(periods) = f[Len(s)]
  BY DEF P!SubAge, SumUpTo
<1> QED
  BY <1>1, <1>2

-----------------------------------------------------------------------------

Span == [start : Nat, end : Nat]

LEMMA SpanFields == \A p \in Span : p.start \in Nat /\ p.end \in Nat
  BY DEF Span

LEMMA SpanEnds == \A p \in Span, e \in Nat :
    [p EXCEPT !.end = e] \in Span /\ [p EXCEPT !.end = e].start = p.start /\ [p EXCEPT !.end = e].end = e
  BY DEF Span

\* Spans that start before t, each after the end of the one before it.
Tidy(s, t) ==
    /\ s \in Seq(Span)
    /\ \A k \in 1..Len(s) : s[k].start <= s[k].end /\ s[k].start < t
    /\ \A j, k \in 1..Len(s) : j < k => s[j].end < s[k].start

\* The cycles of the first n spans.
CyclesOf(s, n) == {x \in Nat : \E k \in 1..n : s[k].start <= x /\ x < s[k].end}

LEMMA JoinKeepsTidy ==
    ASSUME NEW s, NEW t \in Nat, Tidy(s, t), NEW p \in Span,
           p.start = t, t <= p.end
    PROVE  /\ Tidy(P!Join(s, p), t + 1)
           /\ CyclesOf(P!Join(s, p), Len(P!Join(s, p))) =
                CyclesOf(s, Len(s)) \cup {x \in Nat : t <= x /\ x < p.end}
<1> DEFINE n == Len(s)
           new == P!Join(s, p)
           e == IF s[n].end < p.end THEN p.end ELSE s[n].end
<1>0. p.end \in Nat /\ n \in Nat /\ DOMAIN s = 1..n /\ s \in Seq(Span) /\ \A k \in 1..n : s[k] \in Span /\ s[k].start \in Nat /\ s[k].end \in Nat
  <2>1. s \in Seq(Span)
    BY DEF Tidy
  <2>2. Len(s) \in Nat /\ \A k \in 1..Len(s) : s[k] \in Span
    BY <2>1
  <2> QED
    BY <2>1, <2>2, SpanFields
<1> HIDE DEF n, new, e
<1>1. CASE s = << >> \/ (n > 0 /\ s[n].end < t)
  <2>1. new = Append(s, p)
    BY <1>0, <1>1 DEF P!Join, P!Last, new, n
  <2>2. /\ new \in Seq(Span) /\ Len(new) = n + 1
        /\ new[n+1] = p /\ \A k \in 1..n : new[k] = s[k]
    BY <1>0, <2>1 DEF n
  <2>3. \A k \in 1..n : s[k].end < t
    BY <1>0, <1>1, SpanFields DEF Tidy, n
  <2>4. Tidy(new, t + 1)
    <3>1. ASSUME NEW k \in 1..(n+1) PROVE new[k].start <= new[k].end /\ new[k].start < t + 1
      BY <1>0, <2>2, <3>1 DEF Tidy, n
    <3>2. ASSUME NEW j \in 1..(n+1), NEW k \in 1..(n+1), j < k PROVE new[j].end < new[k].start
      <4>1. CASE k = n + 1
        BY <1>0, <2>2, <2>3, <3>2, <4>1
      <4>2. CASE k # n + 1
        BY <1>0, <2>2, <3>2, <4>2 DEF Tidy, n
      <4> QED
        BY <4>1, <4>2
    <3> QED
      BY <2>2, <3>1, <3>2 DEF Tidy
  <2>5. ASSUME NEW x \in Nat
        PROVE  x \in CyclesOf(new, Len(new)) <=> x \in CyclesOf(s, n) \/ (t <= x /\ x < p.end)
    <3>1. x \in CyclesOf(s, n) => x \in CyclesOf(new, n + 1)
      BY <1>0, <2>2 DEF CyclesOf
    <3>2. t <= x /\ x < p.end => x \in CyclesOf(new, n + 1)
      BY <1>0, <2>2 DEF CyclesOf
    <3>3. ASSUME NEW k \in 1..(n+1), new[k].start <= x, x < new[k].end
          PROVE  x \in CyclesOf(s, n) \/ (t <= x /\ x < p.end)
      BY <1>0, <2>2, <3>3 DEF CyclesOf
    <3> QED
      BY <2>2, <3>1, <3>2, <3>3 DEF CyclesOf
  <2>6. CyclesOf(new, Len(new)) = CyclesOf(s, n) \cup {x \in Nat : t <= x /\ x < p.end}
    BY <2>5 DEF CyclesOf
  <2> QED
    BY <2>4, <2>6 DEF new, n
<1>2. CASE n > 0 /\ ~(s[n].end < t)
  <2>0. n \in 1..n /\ s # << >>
    BY <1>0, <1>2
  <2> DEFINE q == [s[n] EXCEPT !.end = e]
  <2>a. e \in Nat /\ s[n].end <= e /\ p.end <= e /\ t <= s[n].end
    BY <1>0, <1>2, <2>0 DEF e
  <2>b. q \in Span /\ q.start = s[n].start /\ q.end = e
    BY <1>0, <2>0, <2>a, SpanEnds
  <2>1. new = [s EXCEPT ![n] = q]
    BY <1>2, <2>0 DEF P!Join, P!Last, new, n, e
  <2> HIDE DEF q
  <2>2. /\ new \in Seq(Span) /\ Len(new) = n /\ DOMAIN new = 1..n
        /\ new[n] = q /\ \A k \in 1..n : k # n => new[k] = s[k]
    <3>1. /\ [s EXCEPT ![n] = q] \in Seq(Span) /\ Len([s EXCEPT ![n] = q]) = n
          /\ \A k \in 1..n : [s EXCEPT ![n] = q][k] = IF k = n THEN q ELSE s[k]
      BY <1>0, <2>0, <2>b, Replaced DEF n
    <3>2. new \in Seq(Span) /\ Len(new) = n
      BY <2>1, <3>1
    <3>3. DOMAIN new = 1..n
      BY <3>2
    <3> QED
      BY <2>0, <2>1, <3>1, <3>2, <3>3
  <2>3. new[n].start = s[n].start /\ new[n].end = e /\ e \in Nat /\ s[n].end <= e /\ p.end <= e /\ t <= s[n].end
    BY <2>2, <2>a, <2>b
  <2>4. s[n].start < t /\ s[n].start <= s[n].end
    BY <2>0 DEF Tidy, n
  <2>5. Tidy(new, t + 1)
    <3>2. ASSUME NEW k \in 1..n PROVE new[k].start <= new[k].end /\ new[k].start < t + 1
      <4>1. CASE k = n
        BY <1>0, <2>0, <2>3, <2>4, <4>1
      <4>2. CASE k # n
        <5>1. new[k] = s[k] /\ s[k].start <= s[k].end /\ s[k].start < t
          BY <2>2, <4>2 DEF Tidy, n
        <5> QED
          BY <1>0, <5>1
      <4> QED
        BY <4>1, <4>2
    <3>3. ASSUME NEW j \in 1..n, NEW k \in 1..n, j < k PROVE new[j].end < new[k].start
      <4>1. new[j] = s[j] /\ new[k].start = s[k].start
        BY <1>0, <2>2, <2>3, <3>3
      <4> QED
        BY <3>3, <4>1 DEF Tidy, n
    <3> QED
      BY <2>2, <3>2, <3>3 DEF Tidy
  <2>6. ASSUME NEW x \in Nat
        PROVE  x \in CyclesOf(new, n) <=> x \in CyclesOf(s, n) \/ (t <= x /\ x < p.end)
    <3>1. ASSUME NEW k \in 1..n, s[k].start <= x, x < s[k].end PROVE x \in CyclesOf(new, n)
      <4>1. new[k].start <= x /\ x < new[k].end
        <5>1. k # n => new[k] = s[k]
          BY <2>2
        <5>2. k = n => x < e
          BY <1>0, <2>0, <2>a, <3>1
        <5> QED
          BY <2>3, <3>1, <5>1, <5>2
      <4> QED
        BY <4>1 DEF CyclesOf
    <3>2. t <= x /\ x < p.end => x \in CyclesOf(new, n)
      <4> SUFFICES ASSUME t <= x, x < p.end PROVE new[n].start <= x /\ x < new[n].end
        BY <2>0 DEF CyclesOf
      <4> QED
        BY <1>0, <2>0, <2>3, <2>4
    <3>3. ASSUME NEW k \in 1..n, new[k].start <= x, x < new[k].end
          PROVE  x \in CyclesOf(s, n) \/ (t <= x /\ x < p.end)
      <4>1. CASE k # n
        BY <2>2, <3>3, <4>1 DEF CyclesOf
      <4>2. CASE k = n
        <5>1. s[n].start <= x /\ (x < s[n].end \/ x < p.end)
          BY <2>3, <3>3, <4>2 DEF e
        <5> QED
          BY <1>0, <2>0, <2>4, <5>1, <1>2 DEF CyclesOf
      <4> QED
        BY <4>1, <4>2
    <3> QED
      BY <3>1, <3>2, <3>3 DEF CyclesOf
  <2>7. CyclesOf(new, n) = CyclesOf(s, n) \cup {x \in Nat : t <= x /\ x < p.end}
    BY <2>6 DEF CyclesOf
  <2> QED
    BY <2>2, <2>5, <2>7 DEF new, n
<1> QED
  BY <1>0, <1>1, <1>2 DEF n, new

-----------------------------------------------------------------------------

\* A period does not end before it starts.
Forward == \A i \in DOMAIN periods : periods[i].start <= periods[i].end

AgeTypes == PeriodTypes /\ now \in Nat /\ Forward

\* The cycles before now of the periods that start before t.
CoveredBefore(t) ==
    {x \in Nat : \E i \in DOMAIN periods :
                    periods[i].start < t /\ periods[i].start <= x /\ x < periods[i].end /\ x < now}

LEMMA JoinAllStarting ==
    ASSUME AgeTypes, NEW t \in Nat, t < now, NEW s, Tidy(s, t), CyclesOf(s, Len(s)) = CoveredBefore(t)
    PROVE  LET new == P!JoinAll(s, t, Ends(t))
           IN  Tidy(new, t + 1) /\ CyclesOf(new, Len(new)) = CoveredBefore(t + 1)
<1> DEFINE new == P!JoinAll(s, t, Ends(t))
           here == {x \in Nat : \E i \in DOMAIN periods :
                    periods[i].start = t /\ t <= x /\ x < periods[i].end /\ x < now}
<1>0. now \in Nat /\ \A i \in DOMAIN periods : periods[i].start \in Nat /\ periods[i].end \in Nat
  BY PeriodIs DEF AgeTypes
<1>1. CoveredBefore(t + 1) = CoveredBefore(t) \cup here
  BY <1>0 DEF CoveredBefore
<1>2. CASE Ends(t) = {}
  <2>1. here = {}
    BY <1>2 DEF Ends
  <2>2. new = s
    BY <1>2 DEF P!JoinAll
  <2>3. Tidy(s, t + 1)
    <3>1. \A k \in 1..Len(s) : s[k].start \in Nat
      <4>1. s \in Seq(Span)
        BY DEF Tidy
      <4> QED
        BY <4>1, SpanFields
    <3> QED
      BY <3>1 DEF Tidy
  <2> QED
    BY <1>1, <2>1, <2>2, <2>3
<1>3. CASE Ends(t) # {}
  <2> DEFINE m == P!Max(Ends(t))
             p == [start |-> t, end |-> m]
  <2>1. Ends(t) \in SUBSET Nat /\ \A x \in Ends(t) : t <= x /\ x <= now
    BY <1>0 DEF Ends, P!Least, AgeTypes, Forward
  <2>2. m \in Ends(t) /\ \A x \in Ends(t) : m >= x
    BY <1>0, <1>3, <2>1, MaxIs
  <2>3. m \in Nat /\ t <= m
    BY <2>1, <2>2
  <2>4. new = P!Join(s, p)
    BY <1>3 DEF P!JoinAll
  <2>5. here = {x \in Nat : t <= x /\ x < m}
    <3> HIDE DEF m
    <3>1. ASSUME NEW x \in here PROVE x < m
      <4>1. PICK i \in DOMAIN periods : periods[i].start = t /\ x < periods[i].end /\ x < now
        BY <3>1
      <4>2. x < P!Least(periods[i].end, now) /\ P!Least(periods[i].end, now) \in Ends(t)
        BY <4>1 DEF P!Least, Ends
      <4>3. P!Least(periods[i].end, now) \in Nat /\ P!Least(periods[i].end, now) <= m
        BY <2>1, <2>2, <2>3, <4>2
      <4> QED
        BY <2>3, <4>2, <4>3
    <3>2. ASSUME NEW x \in Nat, t <= x, x < m PROVE x \in here
      <4>1. PICK i \in DOMAIN periods : periods[i].start = t /\ m = P!Least(periods[i].end, now)
        BY <2>2 DEF Ends
      <4>2. x < periods[i].end /\ x < now
        BY <1>0, <3>2, <4>1 DEF P!Least
      <4> QED
        BY <3>2, <4>1, <4>2
    <3> QED
      BY <3>1, <3>2
  <2>6. p \in Span /\ p.start = t /\ p.end = m
    BY <2>3 DEF Span
  <2> HIDE DEF m, p, here, new
  <2>7. Tidy(new, t + 1) /\ CyclesOf(new, Len(new)) = CyclesOf(s, Len(s)) \cup here
    BY <2>3, <2>4, <2>5, <2>6, JoinKeepsTidy
  <2> QED
    BY <1>1, <2>7 DEF new
<1> QED
  BY <1>2, <1>3

\* The spans are tidy and cover what the periods cover.
LEMMA SpansCover ==
    ASSUME AgeTypes, NEW s, s = P!Spans(periods)
    PROVE  Tidy(s, now) /\ CyclesOf(s, Len(s)) = CoveredBefore(now)
<1>0. now \in Nat
  BY DEF AgeTypes
<1>1. PICK f : JoinedUpTo(f, now) /\ s = f[now]
  BY <1>0, SpansIs
<1> DEFINE Good(t) == Tidy(f[t], t) /\ CyclesOf(f[t], Len(f[t])) = CoveredBefore(t)
           Bad == {t \in Nat : t <= now /\ ~Good(t)}
<1> SUFFICES ASSUME Bad # {} PROVE FALSE
  BY <1>0, <1>1
<1>2. PICK t \in Bad : \A u \in Bad : t <= u
  BY LeastNumber
<1>3. CASE t = 0
  <2>1. f[0] = << >>
    BY <1>0, <1>1 DEF JoinedUpTo
  <2>2. Tidy(<< >>, 0) /\ CyclesOf(<< >>, Len(<< >>)) = {}
    BY DEF Tidy, CyclesOf
  <2>3. CoveredBefore(0) = {}
    BY PeriodIs DEF AgeTypes, CoveredBefore
  <2> QED
    BY <1>2, <1>3, <2>1, <2>2, <2>3
<1>4. CASE t # 0
  <2>1. t - 1 \in Nat /\ t - 1 < now /\ t - 1 \notin Bad /\ t \in 0..now /\ (t - 1) + 1 = t
    BY <1>0, <1>2, <1>4
  <2>2. Good(t - 1)
    BY <1>0, <2>1
  <2>3. f[t] = P!JoinAll(f[t-1], t-1, Ends(t-1))
    BY <1>1, <1>4, <2>1 DEF JoinedUpTo
  <2>4. Good((t - 1) + 1)
    BY <2>1, <2>2, <2>3, JoinAllStarting
  <2> QED
    BY <1>2, <2>1, <2>4
<1> QED
  BY <1>3, <1>4

\* The spans have as many cycles as they are long.
LEMMA SumCounts ==
    ASSUME NEW s, NEW t, Tidy(s, t), NEW f, SumUpTo(f, s, Len(s))
    PROVE  f[Len(s)] = Cardinality(CyclesOf(s, Len(s)))
<1> DEFINE n == Len(s)
           Good(k) == IsFiniteSet(CyclesOf(s, k)) /\ f[k] = Cardinality(CyclesOf(s, k))
           Bad == {k \in Nat : k <= n /\ ~Good(k)}
<1>0. n \in Nat /\ \A k \in 1..n : s[k].start \in Nat /\ s[k].end \in Nat /\ s[k].start <= s[k].end
  <2>1. s \in Seq(Span)
    BY DEF Tidy
  <2> QED
    BY <2>1, SpanFields DEF Tidy
<1> SUFFICES ASSUME Bad # {} PROVE FALSE
  BY <1>0
<1> HIDE DEF n
<1>1. PICK k \in Bad : \A u \in Bad : k <= u
  BY LeastNumber
<1>2. CASE k = 0
  <2>1. CyclesOf(s, 0) = {}
    BY DEF CyclesOf
  <2>2. f[0] = 0
    BY <1>0 DEF SumUpTo, n
  <2> QED
    BY <1>1, <1>2, <2>1, <2>2, FS_EmptySet
<1>3. CASE k # 0
  <2> DEFINE last == s[k].start .. (s[k].end - 1)
             before == CyclesOf(s, k - 1)
  <2>1. k - 1 \in Nat /\ k - 1 <= n /\ k - 1 \notin Bad /\ k \in 1..n /\ k \in 0..n
    BY <1>0, <1>1, <1>3
  <2>2. IsFiniteSet(before) /\ f[k-1] = Cardinality(before)
    BY <2>1
  <2>3. f[k] = f[k-1] + (s[k].end - s[k].start)
    BY <1>3, <2>1 DEF SumUpTo, n
  <2>4. s[k].start \in Nat /\ s[k].end \in Nat /\ s[k].start <= s[k].end
    BY <1>0, <2>1
  <2>5. IsFiniteSet(last) /\ Cardinality(last) = s[k].end - s[k].start
    <3>1. s[k].start \in Int /\ s[k].end - 1 \in Int
      BY <2>4
    <3>2. Cardinality(last) = IF s[k].start > s[k].end - 1 THEN 0 ELSE (s[k].end - 1) - s[k].start + 1
      BY <3>1, FS_Interval
    <3>3. IsFiniteSet(last)
      BY <3>1, FS_Interval
    <3> QED
      BY <2>4, <3>2, <3>3
  <2>6. CyclesOf(s, k) = before \cup last
    <3>1. ASSUME NEW x \in CyclesOf(s, k) PROVE x \in before \cup last
      <4>1. PICK j \in 1..k : s[j].start <= x /\ x < s[j].end /\ x \in Nat
        BY <3>1 DEF CyclesOf
      <4>2. CASE j = k
        BY <2>4, <4>1, <4>2
      <4>3. CASE j # k
        BY <2>1, <4>1, <4>3 DEF CyclesOf
      <4> QED
        BY <4>2, <4>3
    <3>2. ASSUME NEW x \in before PROVE x \in CyclesOf(s, k)
      BY <2>1, <3>2 DEF CyclesOf
    <3>3. ASSUME NEW x \in last PROVE x \in CyclesOf(s, k)
      BY <2>1, <2>4, <3>3 DEF CyclesOf
    <3> QED
      BY <3>1, <3>2, <3>3
  <2>7. before \cap last = {}
    <3> SUFFICES ASSUME NEW x \in before, x \in last PROVE FALSE
      OBVIOUS
    <3>1. PICK j \in 1..(k-1) : x < s[j].end /\ x \in Nat
      BY DEF CyclesOf
    <3>2. s[j].end < s[k].start /\ s[j].end \in Nat
      BY <1>0, <2>1, <3>1 DEF Tidy, n
    <3> QED
      BY <2>4, <3>1, <3>2
  <2> HIDE DEF before, last
  <2>8. IsFiniteSet(before \cup last) /\ Cardinality(before \cup last) =
            Cardinality(before) + Cardinality(last) - Cardinality(before \cap last)
    BY <2>2, <2>5, FS_Union
  <2>9. Cardinality(before) \in Nat /\ Cardinality({}) = 0
    BY <2>2, FS_CardinalityType, FS_EmptySet
  <2>10. Cardinality(before \cup last) = f[k-1] + (s[k].end - s[k].start)
    <3>1. Cardinality(before \cap last) = 0
      BY <2>7, <2>9, Zenon
    <3>2. Cardinality(before \cup last) = Cardinality(before) + (s[k].end - s[k].start) - 0
      BY <2>5, <2>8, <3>1, Zenon
    <3> QED
      BY <2>2, <2>4, <2>9, <3>2
  <2> HIDE DEF Good
  <2>11. IsFiniteSet(CyclesOf(s, k)) /\ f[k] = Cardinality(CyclesOf(s, k))
    BY <2>3, <2>6, <2>8, <2>10
  <2> QED
    BY <1>1, <2>11 DEF Good
<1> QED
  BY <1>2, <1>3

LEMMA AgeIsRight == AgeTypes => AgeCountsOnce
<1> SUFFICES ASSUME AgeTypes PROVE P!AgeCountsOnce
  BY DEF AgeCountsOnce
<1> DEFINE s == P!Spans(periods)
           covered == {t \in 0..(now - 1) : \E i \in DOMAIN periods : periods[i].start <= t /\ t < periods[i].end}
<1>1. Tidy(s, now) /\ CyclesOf(s, Len(s)) = CoveredBefore(now)
  BY SpansCover
<1>2. Len(s) \in Nat
  <2>1. s \in Seq(Span)
    BY <1>1 DEF Tidy
  <2> QED
    BY <2>1
<1>3. PICK f : SumUpTo(f, s, Len(s)) /\ P!SubAge(periods) = f[Len(s)]
  BY <1>2, SubAgeIs
<1>4. f[Len(s)] = Cardinality(CyclesOf(s, Len(s)))
  BY <1>1, <1>3, SumCounts
<1>5. covered = CoveredBefore(now)
  <2>1. now \in Nat /\ \A i \in DOMAIN periods : periods[i].start \in Nat /\ periods[i].end \in Nat
    BY PeriodIs DEF AgeTypes
  <2> QED
    BY <2>1 DEF CoveredBefore
<1>6. P!Cardinality(covered) = Cardinality(covered)
  BY DEF P!Cardinality, Cardinality
<1> QED
  BY <1>1, <1>3, <1>4, <1>5, <1>6 DEF P!AgeCountsOnce

\* A period starts before it ends, and before the subscription was last charged; a subscription
\* that has ended was charged before that.
ForwardInv ==
    /\ Forward
    /\ \A l \in looks : l.period.start <= l.period.end
    /\ \A i \in DOMAIN periods : P!OfProvider(i) => periods[i].start <= sub.from
    /\ \A l \in looks : l.event.kind = "paid" => l.period.start <= sub.from
    /\ \A e \in sent : e.kind = "ended" => sub.from <= e.at

LEMMA ForwardInit == P!Init => ForwardInv
<1> SUFFICES ASSUME P!Init PROVE ForwardInv
  OBVIOUS
<1>1. periods = << >> \/ periods = << [inv |-> 1, start |-> 0, end |-> 1, renews |-> TRUE] >>
  BY DEF P!Init
<1>2. looks = {} /\ sent = {} /\ sub.from = 0
  BY DEF P!Init
<1>3. \A i \in DOMAIN periods : periods[i].start = 0 /\ periods[i].end = 1
  BY <1>1
<1> QED
  BY <1>2, <1>3 DEF ForwardInv, Forward

LEMMA ForwardTypes ==
    ASSUME PeriodInv
    PROVE  /\ now \in Nat /\ sub.from \in Nat /\ sub.from <= now /\ sub.live \in BOOLEAN
           /\ \A i \in DOMAIN periods : periods[i].start \in Nat /\ periods[i].end \in Nat
           /\ \A l \in looks : l.period.start \in Nat /\ l.period.end \in Nat
           /\ \A e \in sent : e.kind = "ended" => e.at \in Nat /\ ~sub.live /\ sub.bill >= 1
           /\ DOMAIN periods = 1..Len(periods) /\ Len(periods) \in Nat
<1>1. PeriodTypes /\ SubInv /\ LooksInv /\ SentInv
  BY DEF PeriodInv
<1>2. /\ now \in Nat /\ sub.from \in Nat /\ sub.from <= now /\ sub.live \in BOOLEAN
  BY <1>1, SubIs DEF PeriodTypes, SubInv
<1>3. \A i \in DOMAIN periods : periods[i].start \in Nat /\ periods[i].end \in Nat
  BY <1>1, PeriodIs
<1>4. \A l \in looks : l.period.start \in Nat /\ l.period.end \in Nat
  BY <1>1, PeriodFields DEF LooksInv
<1>5. ASSUME NEW e \in sent, e.kind = "ended" PROVE e.at \in Nat /\ ~sub.live /\ sub.bill >= 1
  <2>1. PaidEvent(e) \/ GiftEvent(e) \/ ChangedEvent(e) \/ EndedEvent(e)
    BY <1>1 DEF SentInv
  <2>2. EndedEvent(e)
    BY <1>5, <2>1 DEF PaidEvent, GiftEvent, ChangedEvent
  <2> QED
    BY <1>2, <2>2 DEF EndedEvent
<1> QED
  BY <1>1, <1>2, <1>3, <1>4, <1>5, PeriodIs

LEMMA ForwardStep == PeriodInv /\ EndsInv /\ ForwardInv /\ [P!Next]_payments => ForwardInv'
<1> SUFFICES ASSUME PeriodInv, EndsInv, ForwardInv, [P!Next]_payments PROVE ForwardInv'
  OBVIOUS
<1>0. /\ now \in Nat /\ sub.from \in Nat /\ sub.from <= now /\ sub.live \in BOOLEAN
      /\ \A i \in DOMAIN periods : periods[i].start \in Nat /\ periods[i].end \in Nat
      /\ \A l \in looks : l.period.start \in Nat /\ l.period.end \in Nat
      /\ \A e \in sent : e.kind = "ended" => e.at \in Nat /\ ~sub.live /\ sub.bill >= 1
      /\ DOMAIN periods = 1..Len(periods) /\ Len(periods) \in Nat
  BY ForwardTypes
<1>t. PeriodTypes /\ SubInv /\ LooksInv /\ SentInv
  BY DEF PeriodInv
\* The provider: the subscription is charged later than before, or ends now.
<1>1. ASSUME UNCHANGED <<periods, looks>>, sub'.from = sub.from,
             \A e \in sent' : e \in sent \/ e.kind # "ended" \/ e.at >= sub.from
      PROVE  ForwardInv'
  BY <1>1 DEF ForwardInv, Forward, P!OfProvider
<1>2. ASSUME UNCHANGED <<periods, looks>>, NEW u \in Nat, u >= sub.from, P!Charged(sub, u),
             sub.live \/ sub.bill = 0
      PROVE  ForwardInv'
  <2>1. sub'.from = u
    BY <1>t, <1>2 DEF P!Charged, PeriodTypes
  <2>2. \A e \in sent' : e.kind # "ended"
    BY <1>0, <1>2 DEF P!Charged, P!Send
  <2>3. \A i \in DOMAIN periods : P!OfProvider(i) => periods[i].start <= u
    BY <1>0, <1>2 DEF ForwardInv
  <2>4. \A l \in looks : l.event.kind = "paid" => l.period.start <= u
    BY <1>0, <1>2 DEF ForwardInv
  <2> QED
    BY <1>2, <2>1, <2>2, <2>3, <2>4 DEF ForwardInv, Forward, P!OfProvider
<1>3. ASSUME NEW renew \in BOOLEAN, P!Told(renew) PROVE
         sub'.from = sub.from /\ \A e \in sent' : e \in sent \/ e.kind # "ended"
  <2>1. CASE sub.renews = renew
    BY <1>3, <2>1 DEF P!Told
  <2>2. CASE sub.renews # renew
    <3>1. sub' = [sub EXCEPT !.renews = renew, !.changes = @ + 1]
      BY <1>3, <2>2 DEF P!Told
    <3>2. \A e \in sent' : e \in sent \/ e.kind = "changed"
      BY <1>3, <2>2 DEF P!Told, P!Send
    <3> QED
      BY <1>t, <3>1, <3>2 DEF PeriodTypes
  <2> QED
    BY <2>1, <2>2
<1>4. CASE P!Subscribe
  BY <1>0, <1>2, <1>4 DEF P!Subscribe
<1>5. CASE P!Tick
  <2>1. CASE sub.live /\ sub.renews
    BY <1>0, <1>2, <1>5, <2>1 DEF P!Tick
  <2>2. CASE ~(sub.live /\ sub.renews)
    <3>1. sub'.from = sub.from
      BY <1>t, <1>5, <2>2 DEF P!Tick, PeriodTypes
    <3>2. \A e \in sent' : e \in sent \/ e.at = now + 1
      BY <1>5, <2>2 DEF P!Tick, P!Send
    <3>3. \A e \in sent' : e \in sent \/ e.at >= sub.from
      BY <1>0, <3>2
    <3> QED
      BY <1>1, <1>5, <3>1, <3>3 DEF P!Tick
  <2> QED
    BY <2>1, <2>2
<1>6. CASE P!EndAtOnce
  <2>1. sub'.from = sub.from
    BY <1>t, <1>6 DEF P!EndAtOnce, PeriodTypes
  <2>2. \A e \in sent' : e \in sent \/ e.at = now
    BY <1>6 DEF P!EndAtOnce, P!Send
  <2> QED
    BY <1>0, <1>1, <1>6, <2>1, <2>2 DEF P!EndAtOnce
<1>7. CASE \E g \in Gift, n \in GiftLength : P!BuyGift(g, n)
  <2>1. \A e \in sent' : e \in sent \/ e.kind = "gift"
    BY <1>7 DEF P!BuyGift, P!Send
  <2> QED
    BY <1>1, <1>7, <2>1 DEF P!BuyGift
<1>8. CASE \E renew \in BOOLEAN : P!ToldThere(renew)
  BY <1>1, <1>3, <1>8 DEF P!ToldThere
\* A look adds a period that is forward, and of a payment from now.
<1>9. ASSUME NEW e \in sent, NEW start \in Nat, NEW end \in Nat, start <= end, NEW renew,
             P!Looks(e, start, end, renew), e.kind = "paid" => start <= sub.from,
             UNCHANGED periods, sub'.from = sub.from,
             \A f \in sent' : f \in sent \/ f.kind # "ended"
      PROVE  ForwardInv'
  <2>1. ASSUME NEW l \in looks' PROVE l.period.start <= l.period.end /\ (l.event.kind = "paid" => l.period.start <= sub.from)
    <3>1. CASE l \in looks
      BY <3>1 DEF ForwardInv
    <3>2. CASE l \notin looks
      BY <1>9, <3>2 DEF P!Looks
    <3> QED
      BY <3>1, <3>2
  <2> QED
    BY <1>9, <2>1 DEF ForwardInv, Forward, P!OfProvider
<1>10. CASE P!Payments
  <2>1. PICK e \in sent : P!LookPaid(e) \/ P!PaidForNothing(e) \/ P!LookGift(e)
    BY <1>10 DEF P!Payments
  <2>2. CASE P!LookPaid(e)
    BY <1>0, <1>9, <2>2 DEF P!LookPaid
  <2>3. CASE P!PaidForNothing(e)
    BY <1>1, <2>3 DEF P!PaidForNothing
  <2>4. CASE P!LookGift(e)
    <3>1. GiftEvent(e) /\ e.kind = "gift"
      BY <1>t, <2>4 DEF P!LookGift, SentInv, PaidEvent, ChangedEvent, EndedEvent
    <3>2. e.length \in Nat /\ e.created \in 0..now
      BY <3>1, PeriodsAssumption DEF GiftEvent
    <3>3. P!GiftStart(e) \in Nat
      BY <1>t, <3>2, GiftAfterAll
    <3>4. P!GiftStart(e) + e.length \in Nat /\ P!GiftStart(e) <= P!GiftStart(e) + e.length
      BY <3>2, <3>3
    <3>5. P!Told(FALSE) \/ UNCHANGED <<sub, sent>>
      BY <2>4 DEF P!LookGift
    <3>6. sub'.from = sub.from /\ \A f \in sent' : f \in sent \/ f.kind # "ended"
      BY <1>3, <3>5
    <3> HIDE DEF P!GiftStart
    <3>7. P!Looks(e, P!GiftStart(e), P!GiftStart(e) + e.length, FALSE) /\ UNCHANGED periods
      BY <2>4 DEF P!LookGift
    <3> QED
      BY <1>9, <3>1, <3>3, <3>4, <3>6, <3>7
  <2> QED
    BY <2>1, <2>2, <2>3, <2>4
<1>11. CASE P!Commits
  <2>1. PICK l \in looks : P!Commit(l)
    BY <1>11 DEF P!Commits
  <2>2. periods' = Append(periods, l.period) /\ looks' \subseteq looks /\ UNCHANGED <<sub, sent>>
    BY <2>1 DEF P!Commit
  <2>3. /\ l.period \in P!Period /\ periods \in Seq(P!Period)
        /\ (l.period.inv \in P!Bill => l.event.kind = "paid")
    BY <1>t, LookIs DEF LooksInv, PeriodTypes, P!Bill
  <2>4. /\ DOMAIN periods' = 1..(Len(periods) + 1) /\ periods'[Len(periods) + 1] = l.period
        /\ \A i \in DOMAIN periods : periods'[i] = periods[i]
    BY <1>0, <2>2, <2>3
  <2>5. ASSUME NEW i \in DOMAIN periods'
        PROVE  /\ periods'[i].start <= periods'[i].end
               /\ periods'[i].inv \in P!Bill => periods'[i].start <= sub.from
    <3>1. CASE i \in DOMAIN periods
      BY <2>4, <3>1 DEF ForwardInv, Forward, P!OfProvider
    <3>2. CASE i \notin DOMAIN periods
      <4>1. i = Len(periods) + 1
        BY <1>0, <2>4, <3>2
      <4> QED
        BY <2>3, <2>4, <4>1 DEF ForwardInv
    <3> QED
      BY <3>1, <3>2
  <2> QED
    BY <2>2, <2>5 DEF ForwardInv, Forward, P!OfProvider
\* A change of one period's end or renewal that leaves it forward.
<1>12. ASSUME UNCHANGED <<sub, looks>>, sent' = sent, NEW i \in DOMAIN periods,
              NEW q, periods' = [periods EXCEPT ![i] = q],
              q.inv = periods[i].inv, q.start = periods[i].start, q.start <= q.end
       PROVE  ForwardInv'
  <2>1. DOMAIN periods' = DOMAIN periods /\ \A j \in DOMAIN periods : periods'[j] = IF j = i THEN q ELSE periods[j]
    BY <1>12
  <2> QED
    BY <1>12, <2>1 DEF ForwardInv, Forward, P!OfProvider
<1>f. \A i \in DOMAIN periods : periods[i] \in P!Period
  BY <1>t, PeriodIs
<1>13. CASE P!Changes
  <2>1. PICK e \in sent : P!HandleChanged(e) \/ P!HandleEnded(e)
    BY <1>13 DEF P!Changes
  <2>2. CASE P!HandleChanged(e)
    <3>1. UNCHANGED <<sub, looks>> /\ sent' = sent
      BY <2>2 DEF P!HandleChanged
    <3>2. CASE UNCHANGED periods
      BY <1>1, <3>1, <3>2
    <3>3. CASE ~UNCHANGED periods
      <4>1. PICK i \in DOMAIN periods : periods' = [periods EXCEPT ![i].renews = e.renews]
        BY <2>2, <3>3 DEF P!HandleChanged
      <4> DEFINE q == [periods[i] EXCEPT !.renews = e.renews]
      <4>2. periods' = [periods EXCEPT ![i] = q]
        BY <4>1
      <4>3. q.inv = periods[i].inv /\ q.start = periods[i].start /\ q.end = periods[i].end
        BY <1>f DEF P!Period
      <4>4. q.start <= q.end
        BY <4>3 DEF ForwardInv, Forward
      <4> HIDE DEF q
      <4> QED
        BY <1>12, <3>1, <4>2, <4>3, <4>4
    <3> QED
      BY <3>2, <3>3
  <2>3. CASE P!HandleEnded(e)
    <3>1. UNCHANGED <<sub, looks>> /\ sent' = sent /\ e.kind = "ended"
      BY <2>3 DEF P!HandleEnded
    <3>2. CASE UNCHANGED periods
      BY <1>1, <3>1, <3>2
    <3>3. CASE ~UNCHANGED periods
      <4>1. PICK i \in DOMAIN periods : P!OfProvider(i) /\ periods' = [periods EXCEPT ![i].end = e.at]
        BY <2>3, <3>3 DEF P!HandleEnded
      <4> DEFINE q == [periods[i] EXCEPT !.end = e.at]
      <4>2. periods' = [periods EXCEPT ![i] = q]
        BY <4>1
      <4>3. q.inv = periods[i].inv /\ q.start = periods[i].start /\ q.end = e.at
        BY <1>f DEF P!Period
      <4>4. periods[i].start <= sub.from /\ sub.from <= e.at /\ e.at \in Nat
        BY <1>0, <3>1, <4>1 DEF ForwardInv
      <4>5. q.start <= q.end
        BY <1>0, <4>3, <4>4
      <4> HIDE DEF q
      <4> QED
        BY <1>12, <3>1, <4>2, <4>3, <4>5
    <3> QED
      BY <3>2, <3>3
  <2> QED
    BY <2>1, <2>2, <2>3
<1>14. CASE P!Requests
  <2>1. ASSUME NEW i \in DOMAIN periods, P!Cancel(i) PROVE ForwardInv'
    <3>1. CASE P!OfProvider(i)
      BY <1>1, <1>3, <2>1, <3>1 DEF P!Cancel
    <3>2. CASE ~P!OfProvider(i)
      <4>1. periods' = [periods EXCEPT ![i].end = now] /\ UNCHANGED <<sub, looks>> /\ sent' = sent
        BY <2>1, <3>2 DEF P!Cancel
      <4> DEFINE q == [periods[i] EXCEPT !.end = now]
      <4>2. periods' = [periods EXCEPT ![i] = q]
        BY <4>1
      <4>3. q.inv = periods[i].inv /\ q.start = periods[i].start /\ q.end = now
        BY <1>f DEF P!Period
      <4>4. q.start <= q.end
        BY <2>1, <4>3 DEF P!Cancel, P!Current
      <4> HIDE DEF q
      <4> QED
        BY <1>12, <4>1, <4>2, <4>3, <4>4
    <3> QED
      BY <3>1, <3>2
  <2>2. ASSUME NEW i \in DOMAIN periods, P!Reactivate(i) PROVE ForwardInv'
    BY <1>1, <1>3, <2>2 DEF P!Reactivate
  <2>3. ASSUME NEW start \in 0..now, NEW end \in 1..(MaxTime + 1), start < end, P!CreatePeriod(start, end)
        PROVE  ForwardInv'
    <3> DEFINE p == [inv |-> P!System, start |-> start, end |-> end, renews |-> FALSE]
    <3>1. periods' = Append(periods, p) /\ UNCHANGED <<sub, looks>> /\ sent' = sent
      BY <2>3 DEF P!CreatePeriod
    <3>2. p.inv \notin P!Bill /\ p.start = start /\ p.end = end /\ start <= end
      BY <1>0, <1>t, <2>3, SubIs DEF P!System, P!Bill
    <3>3. periods \in Seq(P!Period)
      BY <1>t DEF PeriodTypes
    <3> HIDE DEF p
    <3>4. /\ DOMAIN periods' = 1..(Len(periods) + 1) /\ periods'[Len(periods) + 1] = p
          /\ \A i \in DOMAIN periods : periods'[i] = periods[i]
      BY <1>0, <3>1, <3>3
    <3>5. \A i \in DOMAIN periods' : i \in DOMAIN periods \/ periods'[i] = p
      BY <1>0, <3>4
    <3> QED
      BY <3>1, <3>2, <3>4, <3>5 DEF ForwardInv, Forward, P!OfProvider
  <2> QED
    BY <1>14, <2>1, <2>2, <2>3 DEF P!Requests
<1>15. CASE \E l \in looks : P!Fail(l)
  BY <1>15 DEF P!Fail, ForwardInv, Forward, P!OfProvider
<1>16. CASE UNCHANGED payments
  BY <1>1, <1>16 DEF payments
<1> QED
  BY <1>4, <1>5, <1>6, <1>7, <1>8, <1>10, <1>11, <1>13, <1>14, <1>15, <1>16 DEF P!Next

\* The age counts every cycle that some period covers, once, however the periods
\* of payments, gifts and administrators overlap.
THEOREM AgeAlwaysCountsOnce == P!Spec => []AgeCountsOnce
<1>1. P!Init => PeriodInv /\ EndsInv /\ ForwardInv
  <2>1. P!Init => periods = << >> \/ periods = << [inv |-> 1, start |-> 0, end |-> 1, renews |-> TRUE] >>
    BY DEF P!Init
  <2>2. P!Init => EndsInv
    BY <2>1 DEF EndsInv
  <2> QED
    BY <2>2, PeriodInit, ForwardInit
<1>2. PeriodInv /\ EndsInv /\ ForwardInv /\ [P!Next]_payments => (PeriodInv /\ EndsInv /\ ForwardInv)'
  BY PeriodStep, ForwardStep
<1>3. PeriodInv /\ ForwardInv => AgeCountsOnce
  BY AgeIsRight, SubIs DEF PeriodInv, ForwardInv, AgeTypes
<1> QED
  BY <1>1, <1>2, <1>3, PTL DEF P!Spec, P!vars, payments

-----------------------------------------------------------------------------
(* What is cached of a user's entitlements. *)

Found == Role \cup Grant \cup Item
UserTask ==
    [doc : User, at : {"walk", "roles", "write"}, fresh : BOOLEAN, missed : BOOLEAN,
     read : SUBSET Links, next : SUBSET E!Node,
     cached : SUBSET Found, top : 0..MaxRank, newTop : 0..MaxRank]
RoleTask == [doc : Role, at : {"apply"}, fresh : BOOLEAN, rank : 1..MaxRank, changed : BOOLEAN]

CacheTypes ==
    /\ graph \subseteq Links /\ queue \subseteq Links \cup User \cup Role
    /\ rank \in [Role -> 1..MaxRank] /\ applied \in [Role -> 1..MaxRank]
    /\ marked \subseteq User \cup Role
    /\ cached \in [User -> SUBSET Found] /\ top \in [User -> 0..MaxRank]
    /\ task \in [Handler -> {E!Idle} \cup UserTask \cup RoleTask]
    /\ missed \subseteq User /\ unranked \subseteq Role

\* Whatever no edge that was read leads out of has all that the edges lead to.
Grounded(u, read) ==
    \A nodes \in SUBSET E!Node :
        (\A e \in read : e[1] \in E!Sources(u, nodes) => e[2] \in nodes) => E!Targets(read) \subseteq nodes

\* What was read of the edges from some nodes is what they are, or a message tells.
Follows(u, read, nodes) ==
    /\ read \subseteq Links /\ Grounded(u, read)
    /\ \A e \in read : e[1] \in nodes
    /\ \A e \in Links : e[1] \in nodes /\ (e \in graph) # (e \in read) => e \in queue

\* The highest rank, by the ranks as they were.
Highest(S) == IF S = {} THEN 0 ELSE CHOOSE n \in S : \A k \in S : k <= n
TopBy(ranks, nodes) == Highest({ranks[r] : r \in nodes \cap Role})

\* The users of the role are still to be told of its rank, or will not be.
Stale(r) == r \in unranked \/ applied[r] # rank[r]

Ranked(n, nodes) ==
    \E ranks \in [Role -> 1..MaxRank] :
        n = TopBy(ranks, nodes) /\ \A r \in nodes \cap Role : ranks[r] = rank[r] \/ Stale(r)

\* An edge that he will be told of.
Waits(u) == \E e \in queue \cap Links : e[1] \in E!Sources(u, cached[u])

Untouched(h) ==
    task[h].doc \in marked \/ (cached[task[h].doc] = task[h].cached /\ top[task[h].doc] = task[h].top)
Reading(h) ==
    /\ Follows(task[h].doc, task[h].read, E!Visited(h))
    /\ task[h].next \subseteq E!Sources(task[h].doc, E!Targets(task[h].read))
    /\ task[h].at # "walk" => task[h].next = {}
    /\ task[h].at = "write" => Ranked(task[h].newTop, E!Targets(task[h].read))
FreshOnUser(h) == E!OnUser(h) /\ task[h].fresh

\* Who works on a user that is as he was read has read what the graph is, or a message tells,
\* unless an edge has changed that he will not hear of.
WalkInv == \A h \in Handler : FreshOnUser(h) => Untouched(h) /\ (~task[h].missed => Reading(h))

\* So has whoever wrote him.  The rank may wait for the same message.
WrittenAs(u) ==
    \E read \in SUBSET Links : cached[u] = E!Targets(read) /\ Follows(u, read, E!Sources(u, cached[u]))
CachedInv ==
    \A u \in User : u \in marked /\ u \notin missed =>
        WrittenAs(u) /\ (Ranked(top[u], cached[u]) \/ Waits(u))

\* Who is not up to date has a message, or somebody at work who finds him as he was read.
Works(h, d) == task[h] # E!Idle /\ task[h].doc = d /\ task[h].fresh
MarkInv == \A d \in User \cup Role : d \notin marked => d \in queue \/ \E h \in Handler : Works(h, d)

\* A role that is up to date was applied, and who works on one has read its rank.
RankInv ==
    /\ \A r \in Role : r \in marked => applied[r] = rank[r]
    /\ \A h \in Handler, r \in Role : Works(h, r) => task[h].rank = rank[r] /\ (task[h].changed \/ applied[r] = rank[r])

CacheInv == CacheTypes /\ WalkInv /\ CachedInv /\ MarkInv /\ RankInv

-----------------------------------------------------------------------------

LEMMA CacheConstants ==
    /\ MaxRank \in Nat /\ 1 \in 1..MaxRank /\ 0 \in 0..MaxRank
    /\ \A e \in Links : e[1] \in E!Node /\ e[2] \in Found /\ e \notin User /\ e \notin Role
    /\ Found \cap User = {} /\ Group \notin User /\ Role \cap User = {} /\ Found \subseteq E!Node
    /\ Group \in E!Node /\ User \subseteq E!Node /\ Role \subseteq Found
BY EntitlementsAssumption DEF Found, E!Node

LEMMA TargetsFound == ASSUME NEW S \in SUBSET Links PROVE E!Targets(S) \subseteq Found
BY CacheConstants DEF E!Targets

LEMMA TopIn ==
    ASSUME NEW ranks \in [Role -> 1..MaxRank], NEW nodes
    PROVE  TopBy(ranks, nodes) \in 0..MaxRank
<1> DEFINE S == {ranks[r] : r \in nodes \cap Role}
<1>1. S \in SUBSET Nat /\ MaxRank \in Nat /\ \A x \in S : x <= MaxRank
  BY CacheConstants
<1>2. CASE S = {}
  BY <1>1, <1>2, CacheConstants DEF TopBy, Highest
<1>3. CASE S # {}
  <2> HIDE DEF S
  <2>1. P!Max(S) \in S /\ \A x \in S : P!Max(S) >= x
    BY <1>1, <1>3, MaxIs
  <2>2. \A x \in S : x <= P!Max(S)
    BY <1>1, <2>1
  <2>3. (CHOOSE n \in S : \A k \in S : k <= n) \in S
    BY <2>1, <2>2
  <2>4. TopBy(ranks, nodes) = IF S = {} THEN 0 ELSE CHOOSE n \in S : \A k \in S : k <= n
    BY DEF TopBy, Highest, S
  <2>5. TopBy(ranks, nodes) \in S
    BY <1>3, <2>3, <2>4
  <2>6. \A x \in S : x \in 0..MaxRank
    BY <1>1
  <2> QED
    BY <2>5, <2>6, Zenon
<1> QED
  BY <1>2, <1>3

LEMMA TopOfIs ==
    ASSUME NEW nodes
    PROVE  E!TopOf(nodes) = TopBy(rank, nodes) /\ E!TopOf(nodes)' = TopBy(rank', nodes)
BY DEF E!TopOf, TopBy, Highest

\* A handler is idle, at a user or at a role.
LEMMA TaskIs ==
    ASSUME CacheTypes, NEW h \in Handler
    PROVE  /\ task[h] = E!Idle \/ task[h] \in UserTask \/ task[h] \in RoleTask
           /\ task[h] \in UserTask => task[h] # E!Idle /\ E!OnUser(h) /\ task[h].doc \notin Role
           /\ task[h] \in RoleTask => task[h] # E!Idle /\ ~E!OnUser(h)
           /\ E!OnUser(h) => task[h] \in UserTask
           /\ ~E!At(h, "idle") => task[h] # E!Idle
           /\ E!At(h, "walk") \/ E!At(h, "roles") \/ E!At(h, "write") => task[h] \in UserTask
           /\ E!At(h, "apply") => task[h] \in RoleTask
<1>1. task[h] = E!Idle \/ task[h] \in UserTask \/ task[h] \in RoleTask
  BY DEF CacheTypes
<1>2. E!Idle.at = "idle"
  BY DEF E!Idle
<1>3. task[h] \in UserTask => task[h].at \in {"walk", "roles", "write"} /\ task[h].doc \in User
  BY DEF UserTask
<1>4. task[h] \in RoleTask => task[h].at = "apply" /\ task[h].doc \in Role
  BY DEF RoleTask
<1> QED
  BY <1>1, <1>2, <1>3, <1>4, CacheConstants DEF E!OnUser, E!At

LEMMA UserTaskFields ==
    ASSUME NEW t \in UserTask
    PROVE  /\ t.doc \in User /\ t.fresh \in BOOLEAN /\ t.missed \in BOOLEAN /\ t.read \subseteq Links
           /\ t.next \subseteq E!Node /\ t.cached \subseteq Found /\ t.top \in 0..MaxRank
           /\ t.newTop \in 0..MaxRank /\ t.at \in {"walk", "roles", "write"}
BY DEF UserTask

LEMMA RoleTaskFields ==
    ASSUME NEW t \in RoleTask
    PROVE  t.doc \in Role /\ t.fresh \in BOOLEAN /\ t.rank \in 1..MaxRank /\ t.changed \in BOOLEAN /\ t.at = "apply"
BY DEF RoleTask

\* Who has the source of an edge cached is told of it.
LEMMA SourceIsTold ==
    ASSUME CacheTypes, NEW u \in User, NEW e \in Links, e[1] \in E!Sources(u, cached[u])
    PROVE  u \in E!UsersOf(e)
<1>1. cached[u] \subseteq Found
  BY DEF CacheTypes
<1>2. e[1] = u \/ e[1] = Group \/ (e[1] \in Found /\ e[1] \in cached[u])
  BY <1>1 DEF E!Sources, E!Start
<1>3. CASE e[1] \in User
  BY <1>2, <1>3, CacheConstants DEF E!UsersOf
<1>4. CASE e[1] = Group
  BY <1>4, CacheConstants DEF E!UsersOf
<1>5. CASE e[1] \notin User /\ e[1] # Group
  BY <1>2, <1>5 DEF E!UsersOf
<1> QED
  BY <1>3, <1>4, <1>5

\* What is reached is closed, and what follows the edges is what is reached.
LEMMA ReachedIs ==
    ASSUME CacheTypes, NEW u \in User
    PROVE  /\ E!Reached(u) \subseteq E!Node /\ E!Closed(u, E!Reached(u))
           /\ \A nodes \in SUBSET E!Node : E!Closed(u, nodes) => E!Reached(u) \subseteq nodes
<1>1. \A nodes \in SUBSET E!Node : E!Closed(u, nodes) => E!Reached(u) \subseteq nodes
  BY DEF E!Reached
<1>2. ASSUME NEW e \in graph, e[1] \in E!Sources(u, E!Reached(u)) PROVE e[2] \in E!Reached(u)
  <2>1. e[2] \in E!Node
    BY CacheConstants DEF CacheTypes
  <2>2. ASSUME NEW nodes \in SUBSET E!Node, E!Closed(u, nodes) PROVE e[2] \in nodes
    <3>1. e[1] \in E!Sources(u, nodes)
      BY <1>1, <1>2, <2>2 DEF E!Sources
    <3> QED
      BY <2>2, <3>1 DEF E!Closed, E!Targets
  <2> QED
    BY <2>1, <2>2 DEF E!Reached
<1>3. E!Closed(u, E!Reached(u))
  BY <1>2 DEF E!Closed, E!Targets
<1> QED
  BY <1>1, <1>3 DEF E!Reached

LEMMA FollowingIsReached ==
    ASSUME CacheTypes, NEW u \in User, WrittenAs(u), queue = {}
    PROVE  cached[u] = E!Reached(u)
<1>1. PICK read \in SUBSET Links : cached[u] = E!Targets(read) /\ Follows(u, read, E!Sources(u, cached[u]))
  BY DEF WrittenAs
<1>2. \A e \in Links : e[1] \in E!Sources(u, cached[u]) => (e \in graph <=> e \in read)
  BY <1>1 DEF Follows
<1>3. cached[u] \subseteq E!Node
  BY CacheConstants DEF CacheTypes
<1>4. E!Closed(u, cached[u])
  BY <1>1, <1>2 DEF E!Closed, E!Targets, CacheTypes
<1>5. ASSUME NEW e \in read, e[1] \in E!Sources(u, E!Reached(u)) PROVE e[2] \in E!Reached(u)
  <2>1. e[1] \in E!Sources(u, cached[u]) /\ e \in Links
    BY <1>1 DEF Follows
  <2>2. e \in graph
    BY <1>2, <2>1
  <2> QED
    BY <1>5, <2>2, ReachedIs DEF E!Closed, E!Targets
<1>6. E!Targets(read) \subseteq E!Reached(u)
  BY <1>1, <1>5, ReachedIs DEF Follows, Grounded
<1> QED
  BY <1>1, <1>3, <1>4, <1>6, ReachedIs

LEMMA ReachedIsFollowing ==
    ASSUME CacheTypes, NEW u \in User, cached[u] = E!Reached(u)
    PROVE  WrittenAs(u)
<1> DEFINE read == {e \in graph : e[1] \in E!Sources(u, E!Reached(u))}
<1>0. read \in SUBSET Links /\ E!Targets(read) \subseteq E!Node
  <2>1. read \in SUBSET Links
    BY DEF CacheTypes
  <2> QED
    BY <2>1, TargetsFound, CacheConstants
<1>1. E!Targets(read) \subseteq E!Reached(u)
  BY ReachedIs DEF E!Closed
<1>2. E!Closed(u, E!Targets(read))
  <2>1. ASSUME NEW e \in graph, e[1] \in E!Sources(u, E!Targets(read)) PROVE e[2] \in E!Targets(read)
    <3>1. e[1] \in E!Sources(u, E!Reached(u))
      BY <1>1, <2>1 DEF E!Sources
    <3> QED
      BY <3>1 DEF E!Targets
  <2> HIDE DEF read
  <2> QED
    BY <2>1 DEF E!Closed, E!Targets
<1>3. E!Targets(read) = E!Reached(u)
  BY <1>0, <1>1, <1>2, ReachedIs
<1>4. ASSUME NEW nodes \in SUBSET E!Node, \A e \in read : e[1] \in E!Sources(u, nodes) => e[2] \in nodes
      PROVE  E!Reached(u) \subseteq nodes
  <2> DEFINE both == nodes \cap E!Reached(u)
  <2>1. ASSUME NEW e \in graph, e[1] \in E!Sources(u, both) PROVE e[2] \in both
    <3>1. e[1] \in E!Sources(u, E!Reached(u)) /\ e[1] \in E!Sources(u, nodes)
      BY <2>1 DEF E!Sources
    <3>2. e \in read
      BY <3>1
    <3>3. e[2] \in E!Reached(u)
      BY <3>1, ReachedIs DEF E!Closed, E!Targets
    <3> QED
      BY <1>4, <3>1, <3>2, <3>3
  <2>2. E!Closed(u, both)
    BY <2>1 DEF E!Closed, E!Targets
  <2>3. both \in SUBSET E!Node
    OBVIOUS
  <2>4. E!Reached(u) \subseteq both
    BY <2>2, <2>3, ReachedIs
  <2> QED
    BY <2>4
<1>5. Grounded(u, read)
  BY <1>3, <1>4 DEF Grounded
<1>6. Follows(u, read, E!Sources(u, cached[u]))
  BY <1>0, <1>5 DEF Follows
<1> QED
  BY <1>0, <1>3, <1>6 DEF WrittenAs

\* Two readings of a user's nodes find the same, or an edge they have in sight waits.
LEMMA SameOrWaits ==
    ASSUME CacheTypes, NEW u \in User, NEW R \in SUBSET Links, NEW S \in SUBSET Links,
           Follows(u, R, E!Sources(u, E!Targets(R))), Follows(u, S, E!Sources(u, E!Targets(S)))
    PROVE  \/ E!Targets(R) = E!Targets(S)
           \/ \E e \in queue \cap Links : /\ e[1] \in E!Sources(u, E!Targets(R))
                                          /\ e[1] \in E!Sources(u, E!Targets(S))
<1> SUFFICES ASSUME ~ \E e \in queue \cap Links : /\ e[1] \in E!Sources(u, E!Targets(R))
                                                  /\ e[1] \in E!Sources(u, E!Targets(S))
             PROVE  E!Targets(R) = E!Targets(S)
  OBVIOUS
<1> DEFINE both == E!Targets(R) \cap E!Targets(S)
<1>1. ASSUME NEW e \in Links, e[1] \in E!Sources(u, both) PROVE e \in R <=> e \in S
  <2>1. e[1] \in E!Sources(u, E!Targets(R)) /\ e[1] \in E!Sources(u, E!Targets(S))
    BY <1>1 DEF E!Sources
  <2>2. e \notin queue
    BY <2>1
  <2> QED
    BY <2>1, <2>2 DEF Follows
<1>2. \A e \in R : e[1] \in E!Sources(u, both) => e[2] \in both
  BY <1>1 DEF E!Targets
<1>3. \A e \in S : e[1] \in E!Sources(u, both) => e[2] \in both
  BY <1>1 DEF E!Targets
<1>4. both \in SUBSET E!Node
  BY TargetsFound, CacheConstants
<1> HIDE DEF both
<1>5. E!Targets(R) \subseteq both /\ E!Targets(S) \subseteq both
  BY <1>2, <1>3, <1>4 DEF Follows, Grounded
<1> QED
  BY <1>5 DEF both

-----------------------------------------------------------------------------
(* What stays when others act. *)

LEMMA FollowsStays ==
    ASSUME NEW u, NEW read, NEW nodes, Follows(u, read, nodes),
           \A e \in Links : e[1] \in nodes /\ (e \in graph') # (e \in read) => e \in queue'
    PROVE  Follows(u, read, nodes)'
BY DEF Follows

LEMMA RankedStays ==
    ASSUME NEW n, NEW nodes, Ranked(n, nodes),
           \A r \in nodes \cap Role : (rank'[r] = rank[r] \/ Stale(r)') /\ (Stale(r) => Stale(r)')
    PROVE  Ranked(n, nodes)'
BY DEF Ranked

\* A reading by the ranks there are.
LEMMA RankedNow ==
    ASSUME NEW nodes, rank \in [Role -> 1..MaxRank]
    PROVE  Ranked(E!TopOf(nodes), nodes)
<1>1. E!TopOf(nodes) = TopBy(rank, nodes)
  BY TopOfIs
<1> QED
  BY <1>1 DEF Ranked

LEMMA RankedThen ==
    ASSUME NEW n, NEW nodes, rank' \in [Role -> 1..MaxRank], n = E!TopOf(nodes)'
    PROVE  Ranked(n, nodes)'
<1>1. n = TopBy(rank', nodes)
  BY TopOfIs
<1> QED
  BY <1>1 DEF Ranked

\* Messages of edges stay, and an edge that changes has one.
EdgesWait == \A e \in Links : e \in queue \/ (e \in graph') # (e \in graph) => e \in queue'
\* So do the roles that are stale.
RanksWait == \A r \in Role : (rank'[r] = rank[r] \/ Stale(r)') /\ (Stale(r) => Stale(r)')

LEMMA ReadingStays ==
    ASSUME NEW h \in Handler, Reading(h), task'[h] = task[h], EdgesWait,
           RanksWait \/ Ranked(task[h].newTop, E!Targets(task[h].read))' \/ ~E!At(h, "write")
    PROVE  Reading(h)'
<1> DEFINE t == task[h]
<1>1. E!Visited(h)' = E!Visited(h)
  BY DEF E!Visited
<1>2. Follows(t.doc, t.read, E!Visited(h))'
  <2>1. \A e \in Links : e[1] \in E!Visited(h) /\ (e \in graph') # (e \in t.read) => e \in queue'
    BY DEF Reading, Follows, EdgesWait
  <2>2. Follows(t.doc, t.read, E!Visited(h))
    BY DEF Reading
  <2> QED
    BY <1>1, <2>1, <2>2 DEF Follows
<1>3. t.at = "write" => Ranked(t.newTop, E!Targets(t.read))'
  BY RankedStays DEF Reading, RanksWait, E!At
<1> QED
  BY <1>2, <1>3 DEF Reading

LEMMA CachedStays ==
    ASSUME NEW u \in User, CachedInv, EdgesWait, cached'[u] = cached[u], top'[u] = top[u],
           \A r \in cached[u] \cap Role : (rank'[r] = rank[r] \/ Stale(r)') /\ (Stale(r) => Stale(r)'),
           u \in marked, u \notin missed
    PROVE  WrittenAs(u)' /\ (Ranked(top[u], cached[u]) \/ Waits(u))'
<1>1. WrittenAs(u) /\ (Ranked(top[u], cached[u]) \/ Waits(u))
  BY DEF CachedInv
<1>2. WrittenAs(u)'
  <2>1. PICK read \in SUBSET Links : cached[u] = E!Targets(read) /\ Follows(u, read, E!Sources(u, cached[u]))
    BY <1>1 DEF WrittenAs
  <2>2. Follows(u, read, E!Sources(u, cached[u]))'
    BY <2>1 DEF Follows, EdgesWait
  <2> QED
    BY <2>1, <2>2 DEF WrittenAs
<1>3. CASE Waits(u)
  <2>1. Waits(u)'
    BY <1>3 DEF Waits, EdgesWait
  <2> QED
    BY <1>2, <2>1
<1>4. CASE Ranked(top[u], cached[u])
  <2>1. Ranked(top[u], cached[u])'
    BY <1>4 DEF Ranked
  <2> QED
    BY <1>2, <2>1
<1> QED
  BY <1>1, <1>3, <1>4

\* An action that writes no user and whose changes wait: tasks stay, or are no longer fresh.
LEMMA Quietly ==
    ASSUME CacheInv, EdgesWait, RanksWait, UNCHANGED <<cached, top, missed>>,
           marked' \cap User \subseteq marked,
           \A h \in Handler : FreshOnUser(h)' =>
               task'[h] = task[h] /\ (task[h].doc \in marked => task[h].doc \in marked')
    PROVE  WalkInv' /\ CachedInv'
<1>1. ASSUME NEW h \in Handler, FreshOnUser(h)' PROVE Untouched(h)' /\ (~task[h].missed => Reading(h))'
  <2>1. task'[h] = task[h] /\ FreshOnUser(h)
    BY <1>1 DEF FreshOnUser, E!OnUser
  <2>2. Untouched(h) /\ (~task[h].missed => Reading(h))
    BY <2>1 DEF CacheInv, WalkInv
  <2>3. Untouched(h)'
    BY <1>1, <2>1, <2>2 DEF Untouched
  <2> QED
    BY <2>1, <2>2, <2>3, ReadingStays
<1>2. ASSUME NEW u \in User, u \in marked', u \notin missed' PROVE WrittenAs(u)' /\ (Ranked(top[u], cached[u]) \/ Waits(u))'
  BY <1>2, CachedStays DEF CacheInv, RanksWait
<1> QED
  BY <1>1, <1>2 DEF WalkInv, CachedInv

-----------------------------------------------------------------------------
(* Types. *)

AnyTask == {E!Idle} \cup UserTask \cup RoleTask

LEMMA Unfresh ==
    ASSUME NEW t \in UserTask \cup RoleTask
    PROVE  /\ [t EXCEPT !.fresh = FALSE] \in AnyTask
           /\ [t EXCEPT !.fresh = FALSE].doc = t.doc /\ ~[t EXCEPT !.fresh = FALSE].fresh
           /\ [t EXCEPT !.fresh = FALSE] # E!Idle
<1> DEFINE n == [t EXCEPT !.fresh = FALSE]
<1>1. CASE t \in UserTask
  <2>1. n \in UserTask /\ n.doc = t.doc /\ n.fresh = FALSE /\ n.at \in {"walk", "roles", "write"}
    BY <1>1 DEF UserTask
  <2> QED
    BY <2>1 DEF AnyTask, E!Idle
<1>2. CASE t \in RoleTask
  <2>1. n \in RoleTask /\ n.doc = t.doc /\ n.fresh = FALSE /\ n.at = "apply"
    BY <1>2 DEF RoleTask
  <2> QED
    BY <2>1 DEF AnyTask, E!Idle
<1> QED
  BY <1>1, <1>2

\* Who is told is no longer fresh, and nobody else hears of it.
LEMMA ToldIs ==
    ASSUME CacheTypes, NEW docs, NEW h \in Handler
    PROVE  /\ E!Told(task, docs)[h] \in AnyTask
           /\ ~(task[h] # E!Idle /\ task[h].doc \in docs) => E!Told(task, docs)[h] = task[h]
           /\ task[h] # E!Idle /\ task[h].doc \in docs =>
                /\ E!Told(task, docs)[h] # E!Idle /\ E!Told(task, docs)[h].doc = task[h].doc
                /\ ~E!Told(task, docs)[h].fresh
<1>1. E!Told(task, docs)[h] = IF task[h] # E!Idle /\ task[h].doc \in docs
                              THEN [task[h] EXCEPT !.fresh = FALSE] ELSE task[h]
  BY DEF E!Told
<1>2. task[h] \in AnyTask /\ (task[h] # E!Idle => task[h] \in UserTask \cup RoleTask)
  BY DEF CacheTypes, AnyTask
<1> QED
  BY <1>1, <1>2, Unfresh

LEMMA UserTaskChanges ==
    ASSUME NEW t \in UserTask
    PROVE  /\ [t EXCEPT !.missed = TRUE] \in UserTask
           /\ \A read \in SUBSET Links, next \in SUBSET E!Node, a \in {"walk", "roles"} :
                [t EXCEPT !.read = read, !.next = next, !.at = a] \in UserTask
           /\ \A n \in 0..MaxRank : [t EXCEPT !.newTop = n, !.at = "write"] \in UserTask
BY DEF UserTask

TaskTypes == task' \in [Handler -> AnyTask]

LEMMA HandleEdgeTypes ==
    ASSUME CacheTypes, NEW e \in Links, NEW ok, E!HandleEdge(e, ok)
    PROVE  CacheTypes'
<1> DEFINE users == IF "users" \in ok THEN E!UsersOf(e) ELSE {}
           docs  == users \cup IF "doc" \in ok THEN {e[1]} \cap Role ELSE {}
<1>1. E!UsersOf(e) \subseteq User
  BY CacheConstants DEF E!UsersOf
<1>2. docs \subseteq User \cup Role
  BY <1>1
<1>3. TaskTypes
  <2>1. ASSUME NEW h \in Handler PROVE task'[h] \in AnyTask
    <3>1. CASE "users" \in ok /\ E!Misses(h, e, users)
      <4>1. task'[h] = [task[h] EXCEPT !.missed = TRUE]
        BY <3>1 DEF E!HandleEdge
      <4>2. task[h] \in UserTask
        BY <3>1, TaskIs DEF E!Misses
      <4> QED
        BY <4>1, <4>2, UserTaskChanges DEF AnyTask
    <3>2. CASE ~("users" \in ok /\ E!Misses(h, e, users))
      <4>1. task'[h] = E!Told(task, docs)[h]
        BY <3>2 DEF E!HandleEdge
      <4> QED
        BY <4>1, ToldIs
    <3> QED
      BY <3>1, <3>2
  <2>2. DOMAIN task' = Handler /\ task' = [h \in Handler |-> task'[h]]
    BY DEF E!HandleEdge
  <2> QED
    BY <2>1, <2>2 DEF TaskTypes
<1>4. marked' = marked \ docs /\ queue' \subseteq queue \cup docs
  BY DEF E!HandleEdge, E!Bump
<1> QED
  BY <1>2, <1>3, <1>4 DEF CacheTypes, TaskTypes, AnyTask, E!HandleEdge

LEMMA LoadTypes ==
    ASSUME CacheTypes, NEW h \in Handler, NEW d, E!Load(h, d)
    PROVE  CacheTypes'
<1>1. CASE d \in User
  <2> DEFINE t == [doc |-> d, at |-> "walk", fresh |-> TRUE, missed |-> FALSE, read |-> {},
                   next |-> E!Start(d), cached |-> cached[d], top |-> top[d], newTop |-> 0]
  <2>1. t \in UserTask
    BY <1>1, CacheConstants DEF UserTask, CacheTypes, E!Start
  <2>2. task' = [task EXCEPT ![h] = t]
    BY <1>1 DEF E!Load
  <2> HIDE DEF t
  <2>3. task' \in [Handler -> AnyTask]
    BY <2>1, <2>2 DEF CacheTypes, AnyTask
  <2>4. queue' \subseteq queue /\ UNCHANGED <<graph, rank, applied, marked, cached, top, missed, unranked>>
    BY DEF E!Load
  <2> QED
    BY <2>3, <2>4 DEF CacheTypes, AnyTask
<1>2. CASE d \notin User
  <2> DEFINE t == [doc |-> d, at |-> "apply", fresh |-> TRUE, rank |-> rank[d], changed |-> applied[d] # rank[d]]
  <2>1. t \in RoleTask
    BY <1>2 DEF RoleTask, CacheTypes, E!Load
  <2>2. task' = [task EXCEPT ![h] = t]
    BY <1>2 DEF E!Load
  <2> HIDE DEF t
  <2>3. task' \in [Handler -> AnyTask]
    BY <2>1, <2>2 DEF CacheTypes, AnyTask
  <2>4. queue' \subseteq queue /\ UNCHANGED <<graph, rank, applied, marked, cached, top, missed, unranked>>
    BY DEF E!Load
  <2> QED
    BY <2>3, <2>4 DEF CacheTypes, AnyTask
<1> QED
  BY <1>1, <1>2

LEMMA WalkTypes ==
    ASSUME CacheTypes, NEW h \in Handler, E!Walk(h)
    PROVE  CacheTypes'
<1> DEFINE new  == {e \in graph : e[1] \in task[h].next}
           next == {n \in E!Targets(new) : E!LeadsOn(n) /\ n \notin E!Visited(h) \cup task[h].next}
           a == IF next = {} THEN "roles" ELSE "walk"
           t == [task[h] EXCEPT !.read = task[h].read \cup new, !.next = next, !.at = a]
<1>1. task[h] \in UserTask
  BY TaskIs DEF E!Walk
<1>2. task[h].read \cup new \in SUBSET Links /\ new \in SUBSET Links
  BY <1>1, UserTaskFields DEF CacheTypes
<1>3. next \in SUBSET E!Node
  BY <1>2, TargetsFound, CacheConstants
<1>4. task' = [task EXCEPT ![h] = t]
  BY DEF E!Walk
<1> HIDE DEF new, next
<1>5. t \in UserTask
  BY <1>1, <1>2, <1>3, UserTaskChanges
<1> HIDE DEF t
<1> QED
  BY <1>4, <1>5 DEF CacheTypes, E!Walk

LEMMA RolesTypes ==
    ASSUME CacheTypes, NEW h \in Handler, E!LoadRoles(h)
    PROVE  CacheTypes'
<1> DEFINE n == E!TopOf(E!Targets(task[h].read))
           t == [task[h] EXCEPT !.newTop = n, !.at = "write"]
<1>1. task[h] \in UserTask
  BY TaskIs DEF E!LoadRoles
<1>2. n \in 0..MaxRank
  BY TopOfIs, TopIn DEF CacheTypes
<1>3. task' = [task EXCEPT ![h] = t]
  BY DEF E!LoadRoles
<1> HIDE DEF n
<1>4. t \in UserTask
  BY <1>1, <1>2, UserTaskChanges
<1> HIDE DEF t
<1> QED
  BY <1>3, <1>4 DEF CacheTypes, E!LoadRoles

LEMMA IdleTypes ==
    ASSUME CacheTypes, NEW h \in Handler
    PROVE  [task EXCEPT ![h] = E!Idle] \in [Handler -> AnyTask]
BY DEF CacheTypes, AnyTask

LEMMA WriteTypes ==
    ASSUME CacheTypes, NEW h \in Handler, E!Write(h)
    PROVE  CacheTypes'
<1>1. E!At(h, "write")
  BY DEF E!Write, E!WriteAlways
<1>2. task[h] \in UserTask
  BY <1>1, TaskIs
<1>3. CASE ~task[h].fresh
  <2>1. task' = [task EXCEPT ![h] = E!Idle]
    BY <1>1, <1>3 DEF E!Write
  <2> QED
    BY <1>1, <1>3, <2>1, IdleTypes DEF E!Write, CacheTypes, AnyTask
<1>4. CASE task[h].fresh
  <2> DEFINE u == task[h].doc
             found == E!Targets(task[h].read)
  <2>1. E!WriteAlways(h)
    BY <1>4 DEF E!Write
  <2>2. u \in User /\ found \in SUBSET Found /\ task[h].newTop \in 0..MaxRank
    BY <1>2, UserTaskFields, TargetsFound
  <2>3. task' = [task EXCEPT ![h] = E!Idle]
    BY <2>1 DEF E!WriteAlways
  <2>4. task' \in [Handler -> AnyTask]
    BY <2>3, IdleTypes
  <2>5. cached' \in [User -> SUBSET Found] /\ top' \in [User -> 0..MaxRank]
    BY <2>1, <2>2 DEF E!WriteAlways, CacheTypes
  <2>6. marked' \subseteq User \cup Role /\ missed' \subseteq User
    BY <2>1, <2>2 DEF E!WriteAlways, CacheTypes
  <2> QED
    BY <2>1, <2>4, <2>5, <2>6 DEF E!WriteAlways, CacheTypes, AnyTask
<1> QED
  BY <1>3, <1>4

LEMMA ApplyTypes ==
    ASSUME CacheTypes, NEW h \in Handler, NEW ok, E!Apply(h, ok)
    PROVE  CacheTypes'
<1> DEFINE r == task[h].doc
           users == IF "users" \in ok /\ task[h].changed THEN {u \in User : r \in cached[u]} ELSE {}
           Late(k) == /\ E!OnUser(k) /\ task[k].doc \notin users /\ E!At(k, "write")
                      /\ task[k].newTop # E!TopOf(E!Targets(task[k].read))
<1>1. task[h] \in RoleTask
  BY TaskIs DEF E!Apply
<1>2. r \in Role /\ task[h].rank \in 1..MaxRank /\ users \subseteq User
  BY <1>1, RoleTaskFields
<1>3. TaskTypes
  <2>1. ASSUME NEW k \in Handler PROVE task'[k] \in AnyTask
    <3>1. CASE k = h
      BY <3>1 DEF E!Apply, AnyTask
    <3>2. CASE k # h /\ Late(k)
      <4>1. task'[k] = [task[k] EXCEPT !.missed = TRUE]
        BY <3>2 DEF E!Apply
      <4>2. task[k] \in UserTask
        BY <3>2, TaskIs
      <4> QED
        BY <4>1, <4>2, UserTaskChanges DEF AnyTask
    <3>3. CASE k # h /\ ~Late(k)
      <4>1. task'[k] = E!Told(task, users)[k]
        BY <3>3 DEF E!Apply
      <4> QED
        BY <4>1, ToldIs
    <3> QED
      BY <3>1, <3>2, <3>3
  <2>2. DOMAIN task' = Handler /\ task' = [k \in Handler |-> task'[k]]
    BY DEF E!Apply
  <2> QED
    BY <2>1, <2>2 DEF TaskTypes
<1>4. marked' \subseteq User \cup Role /\ queue' \subseteq Links \cup User \cup Role /\ unranked' \subseteq Role
  BY <1>2 DEF E!Apply, CacheTypes
<1>5. applied' \in [Role -> 1..MaxRank]
  BY <1>2 DEF E!Apply, CacheTypes
<1> QED
  BY <1>3, <1>4, <1>5 DEF E!Apply, CacheTypes, TaskTypes, AnyTask

LEMMA CacheTypesStay == CacheTypes /\ [E!Next]_caches => CacheTypes'
<1> SUFFICES ASSUME CacheTypes, [E!Next]_caches PROVE CacheTypes'
  OBVIOUS
<1>1. ASSUME NEW e \in Links, E!ChangeEdge(e) PROVE CacheTypes'
  BY <1>1 DEF E!ChangeEdge, CacheTypes
<1>2. ASSUME NEW e \in queue \cap Links, NEW ok, E!HandleEdge(e, ok) PROVE CacheTypes'
  BY <1>2, HandleEdgeTypes
<1>3. ASSUME NEW r \in Role, NEW n \in 1..MaxRank, E!Rerank(r, n) PROVE CacheTypes'
  <2>1. task' = E!Told(task, {r})
    BY <1>3 DEF E!Rerank
  <2>2. task' \in [Handler -> AnyTask]
    <3>1. \A h \in Handler : task'[h] \in AnyTask
      BY <2>1, ToldIs
    <3>2. task' = [h \in Handler |-> task'[h]]
      BY <2>1 DEF E!Told
    <3> QED
      BY <3>1, <3>2
  <2> QED
    BY <1>3, <2>2 DEF E!Rerank, E!Bump, CacheTypes, AnyTask
<1>4. ASSUME NEW d \in User \cup Role, E!AlreadyIndexed(d) PROVE CacheTypes'
  BY <1>4 DEF E!AlreadyIndexed, CacheTypes
<1>5. ASSUME NEW h \in Handler, E!Fails(h) PROVE CacheTypes'
  <2>1. task[h].doc \in User \cup Role
    BY <1>5, TaskIs, UserTaskFields, RoleTaskFields DEF E!Fails
  <2> QED
    BY <1>5, <2>1, IdleTypes DEF E!Fails, CacheTypes, AnyTask
<1>6. ASSUME NEW h \in Handler, E!AckWaitEnds(h) PROVE CacheTypes'
  <2>1. task[h].doc \in User \cup Role
    BY <1>6, TaskIs, UserTaskFields, RoleTaskFields DEF E!AckWaitEnds
  <2> QED
    BY <1>6, <2>1 DEF E!AckWaitEnds, CacheTypes
<1>7. CASE UNCHANGED caches
  BY <1>7 DEF caches, CacheTypes
<1> QED
  BY <1>1, <1>2, <1>3, <1>4, <1>5, <1>6, <1>7, LoadTypes, WalkTypes, RolesTypes, WriteTypes, ApplyTypes DEF E!Next

-----------------------------------------------------------------------------
(* The steps. *)

CacheStays == WalkInv' /\ CachedInv' /\ MarkInv' /\ RankInv'

LEMMA SameTasks ==
    ASSUME CacheInv, EdgesWait, RanksWait,
           UNCHANGED <<rank, applied, marked, cached, top, missed, task>>,
           \A d \in User \cup Role : d \in queue \ marked => d \in queue'
    PROVE  CacheStays
<1>1. WalkInv' /\ CachedInv'
  <2>1. \A h \in Handler : FreshOnUser(h)' => task'[h] = task[h] /\ (task[h].doc \in marked => task[h].doc \in marked')
    OBVIOUS
  <2> QED
    BY <2>1, Quietly
<1>2. MarkInv'
  BY DEF CacheInv, MarkInv, Works
<1>3. RankInv'
  BY DEF CacheInv, RankInv, Works
<1> QED
  BY <1>1, <1>2, <1>3 DEF CacheStays

LEMMA ChangeEdgeStep ==
    ASSUME CacheInv, NEW e \in Links, E!ChangeEdge(e)
    PROVE  CacheStays
<1>1. EdgesWait
  BY DEF E!ChangeEdge, EdgesWait
<1>2. RanksWait
  BY DEF E!ChangeEdge, RanksWait, Stale
<1> QED
  BY <1>1, <1>2, SameTasks DEF E!ChangeEdge

LEMMA IndexedStep ==
    ASSUME CacheInv, NEW d \in User \cup Role, E!AlreadyIndexed(d)
    PROVE  CacheStays
<1>1. EdgesWait
  BY CacheConstants DEF E!AlreadyIndexed, EdgesWait
<1>2. RanksWait
  BY DEF E!AlreadyIndexed, RanksWait, Stale
<1> QED
  BY <1>1, <1>2, SameTasks DEF E!AlreadyIndexed

LEMMA AckStep ==
    ASSUME CacheInv, NEW h \in Handler, E!AckWaitEnds(h)
    PROVE  CacheStays
<1>1. EdgesWait
  BY DEF E!AckWaitEnds, EdgesWait
<1>2. RanksWait
  BY DEF E!AckWaitEnds, RanksWait, Stale
<1> QED
  BY <1>1, <1>2, SameTasks DEF E!AckWaitEnds

LEMMA RerankStep ==
    ASSUME CacheInv, NEW r \in Role, NEW n \in 1..MaxRank, E!Rerank(r, n)
    PROVE  CacheStays
<1>0. CacheTypes
  BY DEF CacheInv
<1>1. EdgesWait
  BY DEF E!Rerank, EdgesWait
<1>2. rank' = [rank EXCEPT ![r] = n] /\ rank'[r] = n /\ \A s \in Role : s # r => rank'[s] = rank[s]
  BY <1>0 DEF E!Rerank, CacheTypes
<1>3. RanksWait
  BY <1>2 DEF E!Rerank, RanksWait, Stale
<1>4. task' = E!Told(task, {r}) /\ marked' = marked \ {r} /\ r \in queue' /\ queue \subseteq queue'
  BY DEF E!Rerank, E!Bump
<1>5. ASSUME NEW h \in Handler, NEW d, Works(h, d)'
      PROVE  d # r /\ task'[h] = task[h] /\ Works(h, d)
  BY <1>0, <1>4, <1>5, ToldIs DEF Works
<1>6. WalkInv' /\ CachedInv'
  <2>1. ASSUME NEW h \in Handler, FreshOnUser(h)'
        PROVE  task'[h] = task[h] /\ (task[h].doc \in marked => task[h].doc \in marked')
    <3>0. PICK d : d = task'[h].doc
      OBVIOUS
    <3>1. Works(h, d)'
      BY <2>1, <3>0 DEF FreshOnUser, E!OnUser, Works
    <3>2. task'[h] = task[h] /\ d # r
      BY <1>5, <3>1
    <3> QED
      BY <1>4, <3>0, <3>2
  <2> QED
    BY <1>1, <1>3, <1>4, <2>1, Quietly DEF E!Rerank
<1>7. MarkInv'
  <2>1. ASSUME NEW d \in User \cup Role, d \notin marked', d \notin queue'
        PROVE  \E h \in Handler : Works(h, d)'
    <3>1. d # r /\ d \notin marked /\ d \notin queue
      BY <1>4, <2>1
    <3>2. PICK h \in Handler : Works(h, d)
      BY <3>1 DEF CacheInv, MarkInv
    <3>3. task'[h] = task[h]
      BY <1>0, <1>4, <3>1, <3>2, ToldIs DEF Works
    <3> QED
      BY <3>2, <3>3 DEF Works
  <2> QED
    BY <2>1 DEF MarkInv
<1>8. RankInv'
  <2>1. \A s \in Role : s \in marked' => applied'[s] = rank'[s]
    BY <1>2, <1>4 DEF E!Rerank, CacheInv, RankInv
  <2>2. ASSUME NEW h \in Handler, NEW s \in Role, Works(h, s)'
        PROVE  task'[h].rank = rank'[s] /\ (task'[h].changed \/ applied'[s] = rank'[s])
    <3>1. s # r /\ task'[h] = task[h] /\ Works(h, s)
      BY <1>5, <2>2
    <3> QED
      BY <1>2, <3>1 DEF E!Rerank, CacheInv, RankInv
  <2> QED
    BY <2>1, <2>2 DEF RankInv
<1> QED
  BY <1>6, <1>7, <1>8 DEF CacheStays

LEMMA HandleEdgeStep ==
    ASSUME CacheInv, NEW e \in Links, NEW ok \in E!Outcomes({"doc", "users"}), E!HandleEdge(e, ok)
    PROVE  CacheStays
<1> DEFINE users == IF "users" \in ok THEN E!UsersOf(e) ELSE {}
           docs  == users \cup IF "doc" \in ok THEN {e[1]} \cap Role ELSE {}
           whole == ok = {"doc", "users"}
           misses(h) == "users" \in ok /\ E!Misses(h, e, users)
<1>0. CacheTypes
  BY DEF CacheInv
<1>a. /\ marked' = marked \ docs /\ queue' = (IF whole THEN queue \ {e} ELSE queue) \cup docs
      /\ UNCHANGED <<graph, rank, applied, cached, top, missed, unranked>>
  BY DEF E!HandleEdge, E!Bump
<1>b. ASSUME NEW h \in Handler
      PROVE  task'[h] = IF misses(h) THEN [task[h] EXCEPT !.missed = TRUE] ELSE E!Told(task, docs)[h]
  BY DEF E!HandleEdge
<1>c. E!UsersOf(e) \subseteq User /\ users \subseteq User /\ docs \subseteq User \cup Role /\ docs \cap User = users
  <2>1. E!UsersOf(e) \subseteq User
    BY CacheConstants DEF E!UsersOf
  <2> QED
    BY <2>1, CacheConstants
<1>d. e \notin User \cup Role
  BY CacheConstants
<1>e. \A d \in User \cup Role : (d \in queue => d \in queue') /\ (d \in docs => d \in queue')
  BY <1>a, <1>d
<1>f. \A f \in Links : f \in queue => f \in queue' \/ (whole /\ f = e)
  BY <1>a
<1> HIDE DEF docs
<1>g. ASSUME NEW h \in Handler, misses(h)
      PROVE  /\ task[h] \in UserTask /\ task'[h] = [task[h] EXCEPT !.missed = TRUE] /\ task'[h] \in UserTask
             /\ task[h].doc \notin docs /\ task'[h].missed
             /\ task'[h].doc = task[h].doc /\ task'[h].fresh = task[h].fresh
             /\ task'[h].cached = task[h].cached /\ task'[h].top = task[h].top
  <2>1. task[h] \in UserTask /\ task[h].doc \in User /\ task[h].doc \notin users
    BY <1>0, <1>g, TaskIs, UserTaskFields DEF E!Misses
  <2>2. task'[h] = [task[h] EXCEPT !.missed = TRUE]
    BY <1>b, <1>g
  <2>3. task'[h] \in UserTask
    BY <2>1, <2>2, UserTaskChanges
  <2>4. /\ task'[h].missed /\ task'[h].doc = task[h].doc /\ task'[h].fresh = task[h].fresh
        /\ task'[h].cached = task[h].cached /\ task'[h].top = task[h].top
    BY <2>1, <2>2 DEF UserTask
  <2> QED
    BY <1>c, <2>1, <2>2, <2>3, <2>4
<1> HIDE DEF misses
<1>h. ASSUME NEW h \in Handler, NEW d, Works(h, d)'
      PROVE  Works(h, d) /\ d \notin docs /\ (task'[h] = task[h] \/ misses(h))
  <2>1. CASE misses(h)
    <3>1. task[h] # E!Idle
      BY <1>0, <1>g, <2>1, TaskIs
    <3> QED
      BY <1>g, <1>h, <2>1, <3>1 DEF Works
  <2>2. CASE ~misses(h)
    BY <1>0, <1>b, <1>h, <2>2, ToldIs DEF Works
  <2> QED
    BY <2>1, <2>2
<1>1. WalkInv'
  <2>1. ASSUME NEW h \in Handler, FreshOnUser(h)'
        PROVE  Untouched(h)' /\ (~task'[h].missed => Reading(h)')
    <3>0. PICK u : u = task'[h].doc
      OBVIOUS
    <3>1. Works(h, u)' /\ u \in User
      BY <2>1, <3>0 DEF FreshOnUser, E!OnUser, Works
    <3>2. Works(h, u) /\ task'[h].doc \notin docs /\ (task'[h] = task[h] \/ misses(h))
      BY <1>h, <3>0, <3>1
    <3>3. FreshOnUser(h) /\ task'[h].doc = task[h].doc /\ task[h].doc \in User
      BY <3>0, <3>1, <3>2 DEF Works, FreshOnUser, E!OnUser
    <3>4. Untouched(h)'
      <4>1. Untouched(h)
        BY <3>3 DEF CacheInv, WalkInv
      <4>2. task'[h].cached = task[h].cached /\ task'[h].top = task[h].top
        BY <1>g, <3>2
      <4> QED
        BY <1>a, <3>2, <3>3, <4>1, <4>2 DEF Untouched
    <3>5. ASSUME ~task'[h].missed PROVE Reading(h)'
      <4>1. task'[h] = task[h] /\ ~misses(h)
        BY <1>g, <3>2, <3>5
      <4>2. Reading(h)
        BY <3>3, <3>5, <4>1 DEF CacheInv, WalkInv
      <4>3. E!Visited(h)' = E!Visited(h)
        BY <4>1 DEF E!Visited
      <4>4. ASSUME NEW f \in Links, f[1] \in E!Visited(h), (f \in graph) # (f \in task[h].read)
            PROVE  f \in queue'
        <5>1. f \in queue
          BY <4>2, <4>4 DEF Reading, Follows
        <5>2. ~(whole /\ f = e)
          <6> SUFFICES ASSUME whole, f = e PROVE FALSE
            OBVIOUS
          <6>1. task[h].doc \notin users
            BY <1>c, <3>2, <3>3
          <6> QED
            BY <3>3, <4>1, <4>4, <6>1 DEF misses, E!Misses, FreshOnUser
        <5> QED
          BY <1>f, <5>1, <5>2
      <4>5. Follows(task[h].doc, task[h].read, E!Visited(h))'
        <5>1. Follows(task[h].doc, task[h].read, E!Visited(h))
          BY <4>2 DEF Reading
        <5> QED
          BY <1>a, <4>1, <4>3, <4>4, <5>1 DEF Follows
      <4>6. task[h].at = "write" => Ranked(task[h].newTop, E!Targets(task[h].read))'
        <5>1. \A r \in Role : Stale(r)' = Stale(r)
          BY <1>a DEF Stale
        <5>2. task[h].at = "write" => Ranked(task[h].newTop, E!Targets(task[h].read))
          BY <4>2 DEF Reading
        <5> QED
          BY <1>a, <4>1, <5>1, <5>2 DEF Ranked
      <4> QED
        BY <4>1, <4>2, <4>5, <4>6 DEF Reading
    <3> QED
      BY <3>4, <3>5
  <2> QED
    BY <2>1 DEF WalkInv
<1>2. CachedInv'
  <2>1. ASSUME NEW u \in User, u \in marked', u \notin missed'
        PROVE  WrittenAs(u)' /\ (Ranked(top[u], cached[u]) \/ Waits(u))'
    <3>0. u \in marked /\ u \notin missed /\ u \notin users
      BY <1>a, <1>c, <2>1
    <3>1. WrittenAs(u) /\ (Ranked(top[u], cached[u]) \/ Waits(u))
      BY <3>0 DEF CacheInv, CachedInv
    <3>2. ASSUME NEW f \in queue \cap Links, f[1] \in E!Sources(u, cached[u]) PROVE f \in queue'
      <4>1. u \in E!UsersOf(f)
        BY <1>0, <3>2, SourceIsTold
      <4>2. ~(whole /\ f = e)
        BY <3>0, <4>1
      <4> QED
        BY <1>f, <4>2
    <3>3. WrittenAs(u)'
      <4>1. PICK read \in SUBSET Links : cached[u] = E!Targets(read) /\ Follows(u, read, E!Sources(u, cached[u]))
        BY <3>1 DEF WrittenAs
      <4>2. Follows(u, read, E!Sources(u, cached[u]))'
        BY <1>a, <3>2, <4>1 DEF Follows
      <4> QED
        BY <1>a, <4>1, <4>2 DEF WrittenAs
    <3>4. Waits(u) => Waits(u)'
      BY <1>a, <3>2 DEF Waits
    <3>5. Ranked(top[u], cached[u]) => Ranked(top[u], cached[u])'
      BY <1>a DEF Ranked, Stale
    <3> QED
      BY <3>1, <3>3, <3>4, <3>5
  <2> QED
    BY <2>1 DEF CachedInv
<1>3. MarkInv'
  <2>1. ASSUME NEW d \in User \cup Role, d \notin marked', d \notin queue'
        PROVE  \E h \in Handler : Works(h, d)'
    <3>1. d \notin docs /\ d \notin marked /\ d \notin queue
      BY <1>a, <1>e, <2>1
    <3>2. PICK h \in Handler : Works(h, d)
      BY <3>1 DEF CacheInv, MarkInv
    <3>3. CASE misses(h)
      <4>1. task'[h] # E!Idle
        BY <1>g, <3>3 DEF UserTask, E!Idle
      <4> QED
        BY <1>g, <3>2, <3>3, <4>1 DEF Works
    <3>4. CASE ~misses(h)
      <4>1. task'[h] = task[h]
        BY <1>0, <1>b, <3>1, <3>2, <3>4, ToldIs DEF Works
      <4> QED
        BY <3>2, <4>1 DEF Works
    <3> QED
      BY <3>3, <3>4
  <2> QED
    BY <2>1 DEF MarkInv
<1>4. RankInv'
  <2>1. \A r \in Role : r \in marked' => applied'[r] = rank'[r]
    BY <1>a DEF CacheInv, RankInv
  <2>2. ASSUME NEW h \in Handler, NEW r \in Role, Works(h, r)'
        PROVE  task'[h].rank = rank'[r] /\ (task'[h].changed \/ applied'[r] = rank'[r])
    <3>1. Works(h, r) /\ (task'[h] = task[h] \/ misses(h))
      BY <1>h, <2>2
    <3>2. ~misses(h)
      BY <1>g, <3>1, UserTaskFields, CacheConstants DEF Works
    <3> QED
      BY <1>a, <3>1, <3>2 DEF CacheInv, RankInv
  <2> QED
    BY <2>1, <2>2 DEF RankInv
<1> QED
  BY <1>1, <1>2, <1>3, <1>4 DEF CacheStays

\* One handler goes on, and nothing is written.
LEMMA OneTask ==
    ASSUME CacheInv, NEW h \in Handler, EdgesWait,
           UNCHANGED <<rank, applied, marked, cached, top, missed, unranked>>,
           \A k \in Handler : k # h => task'[k] = task[k],
           FreshOnUser(h)' => Untouched(h)' /\ (~task'[h].missed => Reading(h)'),
           \A d \in User \cup Role : d \in queue \/ Works(h, d) => d \in queue' \/ Works(h, d)',
           \A r \in Role : Works(h, r)' => task'[h].rank = rank[r] /\ (task'[h].changed \/ applied[r] = rank[r])
    PROVE  CacheStays
<1>1. RanksWait
  BY DEF RanksWait, Stale
<1>2. WalkInv'
  <2>1. ASSUME NEW k \in Handler, k # h, FreshOnUser(k)' PROVE Untouched(k)' /\ (~task'[k].missed => Reading(k)')
    <3>1. task'[k] = task[k] /\ FreshOnUser(k)
      BY <2>1 DEF FreshOnUser, E!OnUser
    <3>2. Untouched(k) /\ (~task[k].missed => Reading(k))
      BY <3>1 DEF CacheInv, WalkInv
    <3>3. Untouched(k)'
      BY <3>1, <3>2 DEF Untouched
    <3> QED
      BY <1>1, <3>1, <3>2, <3>3, ReadingStays
  <2> QED
    BY <2>1 DEF WalkInv
<1>3. CachedInv'
  <2>1. ASSUME NEW u \in User, u \in marked', u \notin missed' PROVE WrittenAs(u)' /\ (Ranked(top[u], cached[u]) \/ Waits(u))'
    BY <1>1, <2>1, CachedStays DEF CacheInv, RanksWait
  <2> QED
    BY <2>1 DEF CachedInv
<1>4. MarkInv'
  BY DEF CacheInv, MarkInv, Works
<1>5. RankInv'
  <2>1. ASSUME NEW k \in Handler, NEW r \in Role, Works(k, r)'
        PROVE  task'[k].rank = rank'[r] /\ (task'[k].changed \/ applied'[r] = rank'[r])
    BY <2>1 DEF CacheInv, RankInv, Works
  <2>2. \A r \in Role : r \in marked' => applied'[r] = rank'[r]
    BY DEF CacheInv, RankInv
  <2> QED
    BY <2>1, <2>2 DEF RankInv
<1> QED
  BY <1>2, <1>3, <1>4, <1>5 DEF CacheStays

LEMMA LoadStep ==
    ASSUME CacheInv, NEW h \in Handler, NEW d \in User \cup Role, E!Load(h, d)
    PROVE  CacheStays
<1>0. CacheTypes
  BY DEF CacheInv
<1>1. EdgesWait
  BY CacheConstants DEF E!Load, EdgesWait
<1>2. task[h] = E!Idle /\ queue' = queue \ {d} /\ \A k \in Handler : k # h => task'[k] = task[k]
  BY <1>0 DEF E!Load, CacheTypes
<1>3. CASE d \in User
  <2> DEFINE t == [doc |-> d, at |-> "walk", fresh |-> TRUE, missed |-> FALSE, read |-> {},
                   next |-> E!Start(d), cached |-> cached[d], top |-> top[d], newTop |-> 0]
  <2>1. task'[h] = t /\ t \in UserTask
    BY <1>0, <1>3, CacheConstants DEF UserTask, CacheTypes, E!Start, E!Load
  <2>2. /\ t.doc = d /\ t.at = "walk" /\ t.fresh /\ t.read = {} /\ t.next = E!Start(d)
        /\ t.cached = cached[d] /\ t.top = top[d]
    OBVIOUS
  <2>3. t # E!Idle
    BY <2>1 DEF UserTask, E!Idle
  <2> HIDE DEF t
  <2>4. Untouched(h)'
    BY <2>1, <2>2 DEF Untouched, E!Load
  <2>5. E!Targets({}) = {} /\ E!Sources(d, {}) = E!Start(d)
    BY DEF E!Targets, E!Sources
  <2>6. E!Visited(h)' = {}
    BY <2>1, <2>2, <2>5 DEF E!Visited
  <2>7. Grounded(d, {})
    BY <2>5 DEF Grounded
  <2>8. Reading(h)'
    BY <2>1, <2>2, <2>5, <2>6, <2>7 DEF Reading, Follows
  <2>9. Works(h, d)'
    BY <2>1, <2>2, <2>3 DEF Works
  <2>10. \A r \in Role : ~Works(h, r)'
    BY <1>3, <2>1, <2>2, CacheConstants DEF Works
  <2> QED
    BY <1>1, <1>2, <2>4, <2>8, <2>9, <2>10, OneTask DEF E!Load, Works
<1>4. CASE d \notin User
  <2> DEFINE t == [doc |-> d, at |-> "apply", fresh |-> TRUE, rank |-> rank[d], changed |-> applied[d] # rank[d]]
  <2>1. task'[h] = t /\ t \in RoleTask
    BY <1>0, <1>4 DEF RoleTask, CacheTypes, E!Load
  <2>2. t.doc = d /\ t.fresh /\ t.rank = rank[d] /\ t.changed = (applied[d] # rank[d])
    OBVIOUS
  <2>3. t # E!Idle
    BY <2>1 DEF RoleTask, E!Idle
  <2> HIDE DEF t
  <2>4. ~FreshOnUser(h)'
    BY <1>4, <2>1, <2>2 DEF FreshOnUser, E!OnUser
  <2>5. Works(h, d)'
    BY <2>1, <2>2, <2>3 DEF Works
  <2>6. \A r \in Role : Works(h, r)' => task'[h].rank = rank[r] /\ (task'[h].changed \/ applied[r] = rank[r])
    BY <2>1, <2>2 DEF Works
  <2>7. \A c \in User \cup Role : c \in queue \/ Works(h, c) => c \in queue' \/ Works(h, c)'
    <3>1. \A c : ~Works(h, c)
      BY <1>2 DEF Works
    <3> QED
      BY <1>2, <2>5, <3>1
  <2>8. UNCHANGED <<rank, applied, marked, cached, top, missed, unranked>>
    BY DEF E!Load
  <2> QED
    BY <1>1, <1>2, <2>4, <2>6, <2>7, <2>8, OneTask
<1> QED
  BY <1>3, <1>4

LEMMA WorkFailsStep ==
    ASSUME CacheInv, NEW h \in Handler, E!Fails(h)
    PROVE  CacheStays
<1>0. CacheTypes
  BY DEF CacheInv
<1>1. EdgesWait
  BY DEF E!Fails, EdgesWait
<1>2. task'[h] = E!Idle /\ \A k \in Handler : k # h => task'[k] = task[k]
  BY <1>0 DEF E!Fails, CacheTypes
<1>3. ~FreshOnUser(h)' /\ \A d : ~Works(h, d)'
  BY <1>2 DEF FreshOnUser, E!OnUser, Works
<1>4. \A d \in User \cup Role : d \in queue \/ Works(h, d) => d \in queue'
  BY DEF E!Fails, Works
<1> QED
  BY <1>1, <1>2, <1>3, <1>4, OneTask DEF E!Fails

\* The handler of a user goes on.
LEMMA UserGoesOn ==
    ASSUME CacheInv, NEW h \in Handler, NEW t \in UserTask, task[h] \in UserTask,
           task' = [task EXCEPT ![h] = t],
           UNCHANGED <<graph, rank, applied, marked, cached, top, queue, missed, unranked>>,
           t.doc = task[h].doc, t.fresh = task[h].fresh, t.missed = task[h].missed,
           t.cached = task[h].cached, t.top = task[h].top,
           Reading(h) => Reading(h)'
    PROVE  CacheStays
<1>0. CacheTypes
  BY DEF CacheInv
<1>1. EdgesWait
  BY DEF EdgesWait
<1>2. task'[h] = t /\ \A k \in Handler : k # h => task'[k] = task[k]
  BY <1>0 DEF CacheTypes
<1>3. t # E!Idle /\ task[h] # E!Idle /\ t.doc \in User
  BY DEF UserTask, E!Idle
<1>4. FreshOnUser(h)' => Untouched(h)' /\ (~task'[h].missed => Reading(h)')
  <2>1. FreshOnUser(h)' => FreshOnUser(h)
    BY <1>2, <1>3 DEF FreshOnUser, E!OnUser
  <2>2. FreshOnUser(h) => Untouched(h) /\ (~task[h].missed => Reading(h))
    BY DEF CacheInv, WalkInv
  <2>3. Untouched(h) => Untouched(h)'
    BY <1>2 DEF Untouched
  <2> QED
    BY <1>2, <2>1, <2>2, <2>3
<1>5. \A d \in User \cup Role : Works(h, d) => Works(h, d)'
  BY <1>2, <1>3 DEF Works
<1>6. \A r \in Role : ~Works(h, r)'
  BY <1>2, <1>3, CacheConstants DEF Works
<1> QED
  BY <1>1, <1>2, <1>4, <1>5, <1>6, OneTask

LEMMA WalkStep ==
    ASSUME CacheInv, NEW h \in Handler, E!Walk(h)
    PROVE  CacheStays
<1> DEFINE new  == {e \in graph : e[1] \in task[h].next}
           next == {n \in E!Targets(new) : E!LeadsOn(n) /\ n \notin E!Visited(h) \cup task[h].next}
           a == IF next = {} THEN "roles" ELSE "walk"
           read == task[h].read \cup new
           t == [task[h] EXCEPT !.read = read, !.next = next, !.at = a]
<1>0. CacheTypes
  BY DEF CacheInv
<1>1. task[h] \in UserTask
  BY <1>0, TaskIs DEF E!Walk
<1>2. read \in SUBSET Links /\ new \in SUBSET Links
  BY <1>0, <1>1, UserTaskFields DEF CacheTypes
<1>3. next \in SUBSET E!Node
  BY <1>2, TargetsFound, CacheConstants
<1>4. task' = [task EXCEPT ![h] = t]
  BY DEF E!Walk
<1>5. E!Targets(read) = E!Targets(task[h].read) \cup E!Targets(new)
  BY DEF E!Targets
<1>6. \A n \in next : n \in E!Targets(new) /\ E!LeadsOn(n) /\ n \notin E!Visited(h) /\ n \notin task[h].next
  OBVIOUS
<1>7. \A n \in E!Targets(new) : E!LeadsOn(n) => n \in next \/ n \in E!Visited(h) \/ n \in task[h].next
  OBVIOUS
<1>8. \A e \in Links : e \in new <=> e \in graph /\ e[1] \in task[h].next
  OBVIOUS
<1>9. \A e \in new : e[1] \in task[h].next
  OBVIOUS
<1>10. \A e \in Links : e \in read <=> e \in task[h].read \/ e \in new
  OBVIOUS
<1>11. \A e \in read : e \in task[h].read \/ e \in new
  OBVIOUS
<1> HIDE DEF next, new, read
<1>12. t \in UserTask /\ a \in {"roles", "walk"}
  BY <1>1, <1>2, <1>3, UserTaskChanges
<1>13. /\ t.doc = task[h].doc /\ t.fresh = task[h].fresh /\ t.missed = task[h].missed
       /\ t.cached = task[h].cached /\ t.top = task[h].top /\ t.read = read /\ t.next = next /\ t.at = a
  BY <1>1 DEF UserTask
<1>14. a # "walk" => next = {}
  OBVIOUS
<1> HIDE DEF t, a
<1>15. task'[h] = t
  BY <1>0, <1>4 DEF CacheTypes
<1>16. UNCHANGED <<graph, rank, applied, marked, cached, top, queue, missed, unranked>>
  BY DEF E!Walk
<1>17. ASSUME Reading(h) PROVE Reading(h)'
  <2> DEFINE u == task[h].doc
             old == E!Sources(u, E!Targets(task[h].read))
             V == E!Visited(h)
  <2>1. Follows(u, task[h].read, V) /\ task[h].next \subseteq old /\ V = old \ task[h].next
    BY <1>17 DEF Reading, E!Visited
  <2>2. E!Sources(u, E!Targets(read)) = old \cup {n \in E!Targets(new) : E!LeadsOn(n)}
    BY <1>5 DEF E!Sources
  <2>3. E!Visited(h)' = E!Sources(u, E!Targets(read)) \ next
    BY <1>13, <1>15 DEF E!Visited
  <2> HIDE DEF V, old
  <2>4. E!Visited(h)' = V \cup task[h].next
    BY <1>6, <1>7, <2>1, <2>2, <2>3 DEF V
  <2>5. next \subseteq E!Sources(u, E!Targets(read))
    BY <1>6, <2>2
  <2>6. Grounded(u, read)
    <3>1. ASSUME NEW nodes \in SUBSET E!Node, \A e \in read : e[1] \in E!Sources(u, nodes) => e[2] \in nodes
          PROVE  E!Targets(read) \subseteq nodes
      <4>1. E!Targets(task[h].read) \subseteq nodes
        <5>1. \A e \in task[h].read : e[1] \in E!Sources(u, nodes) => e[2] \in nodes
          BY <3>1 DEF read
        <5>2. Grounded(u, task[h].read)
          BY <2>1 DEF Follows
        <5> QED
          BY <5>1, <5>2 DEF Grounded
      <4>2. task[h].next \subseteq E!Sources(u, nodes)
        BY <2>1, <4>1 DEF old, E!Sources
      <4>3. E!Targets(new) \subseteq nodes
        <5>1. \A e \in new : e \in read /\ e[1] \in E!Sources(u, nodes)
          BY <1>9, <4>2 DEF read
        <5> QED
          BY <3>1, <5>1 DEF E!Targets
      <4> QED
        BY <1>5, <4>1, <4>3
    <3> QED
      BY <3>1 DEF Grounded
  <2>7. \A e \in read : e[1] \in V \cup task[h].next
    BY <1>9, <1>11, <2>1 DEF Follows
  <2>8. ASSUME NEW e \in Links, e[1] \in V \cup task[h].next, (e \in graph) # (e \in read)
        PROVE  e \in queue
    <3>1. CASE e[1] \in task[h].next
      BY <1>8, <1>10, <2>1, <2>8, <3>1 DEF Follows
    <3>2. CASE e[1] \notin task[h].next
      BY <1>8, <1>10, <2>1, <2>8, <3>2 DEF Follows
    <3> QED
      BY <3>1, <3>2
  <2>9. Follows(u, read, V \cup task[h].next)
    BY <1>2, <2>6, <2>7, <2>8 DEF Follows
  <2>10. Follows(task[h].doc, task[h].read, E!Visited(h))'
    BY <1>13, <1>15, <1>16, <2>4, <2>9 DEF Follows
  <2> QED
    BY <1>12, <1>13, <1>14, <1>15, <2>5, <2>10 DEF Reading
<1> QED
  BY <1>1, <1>4, <1>12, <1>13, <1>16, <1>17, UserGoesOn

LEMMA RolesStep ==
    ASSUME CacheInv, NEW h \in Handler, E!LoadRoles(h)
    PROVE  CacheStays
<1>a. PICK n : n = E!TopOf(E!Targets(task[h].read))
  OBVIOUS
<1> DEFINE t == [task[h] EXCEPT !.newTop = n, !.at = "write"]
<1>0. CacheTypes
  BY DEF CacheInv
<1>1. task[h] \in UserTask /\ task[h].at = "roles"
  BY <1>0, TaskIs DEF E!LoadRoles, E!At
<1>2. n \in 0..MaxRank
  BY <1>a, <1>0, TopOfIs, TopIn DEF CacheTypes
<1>3. task' = [task EXCEPT ![h] = t]
  BY <1>a DEF E!LoadRoles
<1>4. Ranked(n, E!Targets(task[h].read))
  BY <1>a, <1>0, RankedNow DEF CacheTypes
<1>5. t \in UserTask
  BY <1>1, <1>2, UserTaskChanges
<1>6. /\ t.doc = task[h].doc /\ t.fresh = task[h].fresh /\ t.missed = task[h].missed
      /\ t.cached = task[h].cached /\ t.top = task[h].top /\ t.read = task[h].read /\ t.next = task[h].next
      /\ t.at = "write" /\ t.newTop = n
  BY <1>1 DEF UserTask
<1> HIDE DEF t
<1>7. task'[h] = t
  BY <1>0, <1>3 DEF CacheTypes
<1>8. UNCHANGED <<graph, rank, applied, marked, cached, top, queue, missed, unranked>>
  BY DEF E!LoadRoles
<1>9. ASSUME Reading(h) PROVE Reading(h)'
  <2>1. E!Visited(h)' = E!Visited(h)
    BY <1>6, <1>7 DEF E!Visited
  <2>2. Follows(task[h].doc, task[h].read, E!Visited(h))'
    BY <1>6, <1>7, <1>8, <1>9, <2>1 DEF Reading, Follows
  <2>3. Ranked(n, E!Targets(task[h].read))'
    <3>1. \A r \in Role : Stale(r)' = Stale(r)
      BY <1>8 DEF Stale
    <3> QED
      BY <1>4, <1>6, <1>7, <1>8, <3>1 DEF Ranked
  <2>4. task[h].next \subseteq E!Sources(task[h].doc, E!Targets(task[h].read)) /\ task[h].next = {}
    BY <1>1, <1>9 DEF Reading
  <2> QED
    BY <1>6, <1>7, <2>2, <2>3, <2>4 DEF Reading
<1> QED
  BY <1>1, <1>3, <1>5, <1>6, <1>8, <1>9, UserGoesOn

LEMMA WriteStep ==
    ASSUME CacheInv, NEW h \in Handler, E!Write(h)
    PROVE  CacheStays
<1>0. CacheTypes
  BY DEF CacheInv
<1>1. E!At(h, "write")
  BY DEF E!Write, E!WriteAlways
<1>2. task[h] \in UserTask /\ task[h] # E!Idle /\ task[h].at = "write"
  BY <1>0, <1>1, TaskIs DEF E!At
<1>3. EdgesWait /\ task' = [task EXCEPT ![h] = E!Idle] /\ UNCHANGED <<graph, rank, applied, queue, unranked>>
  BY <1>1 DEF E!Write, E!WriteAlways, EdgesWait
<1>4. task'[h] = E!Idle /\ \A k \in Handler : k # h => task'[k] = task[k]
  BY <1>0, <1>3 DEF CacheTypes
<1>5. ~FreshOnUser(h)' /\ \A d : ~Works(h, d)'
  BY <1>4 DEF FreshOnUser, E!OnUser, Works
<1>6. CASE ~task[h].fresh
  <2>1. UNCHANGED <<rank, applied, marked, cached, top, missed, unranked>>
    BY <1>1, <1>6 DEF E!Write
  <2>2. \A d \in User \cup Role : d \in queue \/ Works(h, d) => d \in queue'
    BY <1>3, <1>6 DEF Works
  <2> QED
    BY <1>3, <1>4, <1>5, <2>1, <2>2, OneTask
<1>7. CASE task[h].fresh
  <2>0. PICK u : u = task[h].doc
    OBVIOUS
  <2> DEFINE t == task[h]
             found == E!Targets(t.read)
  <2>1. u \in User /\ u \notin Role
    BY <1>2, <2>0, UserTaskFields, CacheConstants
  <2>2. E!WriteAlways(h)
    BY <1>7 DEF E!Write
  <2>3. /\ cached' = [cached EXCEPT ![u] = IF found # t.cached THEN found ELSE cached[u]]
        /\ top' = [top EXCEPT ![u] = IF t.newTop # t.top THEN t.newTop ELSE top[u]]
        /\ marked' = marked \cup {u}
        /\ missed' = IF t.missed THEN missed \cup {u}
                     ELSE IF cached'[u] = found /\ top'[u] = t.newTop THEN missed \ {u}
                     ELSE missed
    BY <2>0, <2>2 DEF E!WriteAlways
  <2>4. /\ cached'[u] = IF found # t.cached THEN found ELSE cached[u]
        /\ top'[u] = IF t.newTop # t.top THEN t.newTop ELSE top[u]
        /\ \A v \in User : v # u => cached'[v] = cached[v] /\ top'[v] = top[v]
    BY <1>0, <2>1, <2>3 DEF CacheTypes
  <2>5. FreshOnUser(h) /\ Works(h, u)
    BY <1>2, <1>7, <2>0, <2>1 DEF FreshOnUser, E!OnUser, Works
  <2>6. RanksWait /\ \A r \in Role : Stale(r)' = Stale(r)
    BY <1>3 DEF RanksWait, Stale
  <2>7. WalkInv'
    <3>1. ASSUME NEW k \in Handler, k # h, FreshOnUser(k)' PROVE Untouched(k)' /\ (~task'[k].missed => Reading(k)')
      <4>1. task'[k] = task[k] /\ FreshOnUser(k) /\ task[k].doc \in User
        BY <1>4, <3>1 DEF FreshOnUser, E!OnUser
      <4>2. Untouched(k) /\ (~task[k].missed => Reading(k))
        BY <4>1 DEF CacheInv, WalkInv
      <4>3. Untouched(k)'
        BY <2>3, <2>4, <4>1, <4>2 DEF Untouched
      <4> QED
        BY <1>3, <2>6, <4>1, <4>2, <4>3, ReadingStays
    <3> QED
      BY <1>5, <3>1 DEF WalkInv
  <2>8. CachedInv'
    <3>1. ASSUME NEW v \in User, v \in marked', v \notin missed', v # u
          PROVE  WrittenAs(v)' /\ (Ranked(top[v], cached[v]) \/ Waits(v))'
      <4>1. v \in marked /\ v \notin missed
        BY <2>3, <3>1
      <4> QED
        BY <1>3, <2>4, <2>6, <3>1, <4>1, CachedStays DEF CacheInv, RanksWait
    <3>2. ASSUME u \notin missed' PROVE WrittenAs(u)' /\ (Ranked(top[u], cached[u]) \/ Waits(u))'
      <4>0. ~t.missed
        BY <2>3, <3>2
      <4>1. t.read \in SUBSET Links /\ Follows(u, t.read, E!Sources(u, found)) /\ Ranked(t.newTop, found)
        <5>1. Reading(h)
          BY <2>5, <4>0 DEF CacheInv, WalkInv
        <5>2. E!Visited(h) = E!Sources(u, found)
          BY <1>2, <2>0, <5>1 DEF E!Visited, Reading
        <5> QED
          BY <1>2, <2>0, <5>1, <5>2, UserTaskFields DEF Reading
      <4>2. PICK R \in SUBSET Links : R = t.read
        BY <4>1
      <4>3. PICK F : F = found
        OBVIOUS
      <4>4. PICK n : n = t.newTop
        OBVIOUS
      <4>5. Follows(u, R, E!Sources(u, F))' /\ F = E!Targets(R)
        BY <1>3, <4>1, <4>2, <4>3 DEF Follows
      <4>6. Ranked(n, F)'
        BY <1>3, <2>6, <4>1, <4>3, <4>4 DEF Ranked
      <4>7. CASE cached'[u] = F /\ top'[u] = n
        <5>1. WrittenAs(u)'
          BY <4>5, <4>7 DEF WrittenAs
        <5>2. Ranked(top[u], cached[u])'
          BY <4>6, <4>7 DEF Ranked
        <5> QED
          BY <5>1, <5>2
      <4>8. CASE ~(cached'[u] = F /\ top'[u] = n)
        <5>1. u \notin missed
          BY <2>3, <3>2, <4>0, <4>3, <4>4, <4>8
        <5>2. u \in marked
          <6>1. Untouched(h)
            BY <2>5 DEF CacheInv, WalkInv
          <6> QED
            BY <2>0, <2>4, <4>3, <4>4, <4>8, <6>1 DEF Untouched
        <5>3. WrittenAs(u) /\ (Ranked(top[u], cached[u]) \/ Waits(u))
          BY <2>1, <5>1, <5>2 DEF CacheInv, CachedInv
        <5>4. PICK S \in SUBSET Links : cached[u] = E!Targets(S) /\ Follows(u, S, E!Sources(u, cached[u]))
          BY <5>3 DEF WrittenAs
        <5>5. PICK had : had = cached[u]
          OBVIOUS
        <5>6. Follows(u, S, E!Sources(u, had))' /\ had = E!Targets(S)
          BY <1>3, <5>4, <5>5 DEF Follows
        <5>7. cached'[u] = F \/ cached'[u] = had
          BY <2>4, <4>3, <5>5
        <5>8. WrittenAs(u)'
          BY <4>5, <5>6, <5>7 DEF WrittenAs
        <5>9. \/ F = had
              \/ \E e \in queue \cap Links : e[1] \in E!Sources(u, F) /\ e[1] \in E!Sources(u, had)
          BY <1>0, <2>1, <4>1, <4>2, <4>3, <5>4, <5>5, SameOrWaits
        <5>10. CASE F # had
          <6>1. Waits(u)'
            BY <1>3, <5>7, <5>9, <5>10 DEF Waits
          <6> QED
            BY <5>8, <6>1
        <5>11. CASE F = had
          <6>1. cached'[u] = had /\ (top'[u] = n \/ top'[u] = top[u])
            BY <2>4, <4>4, <5>7, <5>11
          <6>2. CASE top'[u] = n
            BY <4>6, <5>8, <5>11, <6>1, <6>2 DEF Ranked
          <6>3. CASE top'[u] = top[u]
            <7>1. Ranked(top[u], cached[u]) => Ranked(top[u], cached[u])'
              BY <1>3, <2>6, <5>5, <6>1, <6>3 DEF Ranked
            <7>2. Waits(u) => Waits(u)'
              BY <1>3, <5>5, <6>1 DEF Waits
            <7> QED
              BY <5>3, <5>8, <7>1, <7>2
          <6> QED
            BY <6>1, <6>2, <6>3
        <5> QED
          BY <5>10, <5>11
      <4> QED
        BY <4>7, <4>8
    <3> QED
      BY <3>1, <3>2 DEF CachedInv
  <2>9. MarkInv'
    <3>1. ASSUME NEW d \in User \cup Role, d \notin marked', d \notin queue' PROVE \E k \in Handler : Works(k, d)'
      <4>1. d # u /\ d \notin marked /\ d \notin queue
        BY <1>3, <2>3, <3>1
      <4>2. PICK k \in Handler : Works(k, d)
        BY <4>1 DEF CacheInv, MarkInv
      <4>3. k # h
        BY <2>0, <4>1, <4>2 DEF Works
      <4> QED
        BY <1>4, <4>2, <4>3 DEF Works
    <3> QED
      BY <3>1 DEF MarkInv
  <2>10. RankInv'
    <3>1. \A r \in Role : r \in marked' => applied'[r] = rank'[r]
      BY <1>3, <2>1, <2>3 DEF CacheInv, RankInv
    <3>2. ASSUME NEW k \in Handler, NEW r \in Role, Works(k, r)'
          PROVE  task'[k].rank = rank'[r] /\ (task'[k].changed \/ applied'[r] = rank'[r])
      <4>1. k # h
        BY <1>5, <3>2
      <4>2. task'[k] = task[k] /\ Works(k, r)
        BY <1>4, <3>2, <4>1 DEF Works
      <4> QED
        BY <1>3, <4>2 DEF CacheInv, RankInv
    <3> QED
      BY <3>1, <3>2 DEF RankInv
  <2> QED
    BY <2>7, <2>8, <2>9, <2>10 DEF CacheStays
<1> QED
  BY <1>6, <1>7

LEMMA ApplyStep ==
    ASSUME CacheInv, NEW h \in Handler, NEW ok \in E!Outcomes({"role", "users"}), E!Apply(h, ok)
    PROVE  CacheStays
<1>a. PICK r : r = task[h].doc
  OBVIOUS
<1>b. PICK users : users = IF "users" \in ok /\ task[h].changed THEN {u \in User : r \in cached[u]} ELSE {}
  OBVIOUS
<1> DEFINE t == task[h]
           itself == "role" \in ok /\ t.fresh
           whole == ok = {"role", "users"}
           Late(k) == /\ E!OnUser(k) /\ task[k].doc \notin users /\ E!At(k, "write")
                      /\ task[k].newTop # E!TopOf(E!Targets(task[k].read))
<1>0. CacheTypes
  BY DEF CacheInv
<1>1. t \in RoleTask /\ t # E!Idle /\ ~E!OnUser(h) /\ r \in Role /\ r \notin User
  BY <1>0, <1>a, TaskIs, RoleTaskFields, CacheConstants DEF E!Apply
<1>2. users \subseteq User
  BY <1>b
<1>3. /\ marked' = (marked \cup IF itself THEN {r} ELSE {}) \ users
      /\ applied' = IF itself /\ t.changed THEN [applied EXCEPT ![r] = t.rank] ELSE applied
      /\ queue' = queue \cup users \cup IF whole THEN {} ELSE {r}
      /\ unranked' = IF ~t.changed THEN unranked
                     ELSE IF whole THEN unranked \ {r}
                     ELSE IF itself THEN unranked \cup {r} ELSE unranked
      /\ UNCHANGED <<graph, rank, cached, top, missed, changes>>
  BY <1>a, <1>b DEF E!Apply
<1>4. /\ task'[h] = E!Idle
      /\ \A k \in Handler : k # h =>
            task'[k] = IF Late(k) THEN [task[k] EXCEPT !.missed = TRUE] ELSE E!Told(task, users)[k]
  BY <1>a, <1>b DEF E!Apply
<1>5. ~FreshOnUser(h)' /\ \A d : ~Works(h, d)'
  BY <1>4 DEF FreshOnUser, E!OnUser, Works
<1>6. ASSUME NEW k \in Handler, k # h, Late(k)
      PROVE  /\ task[k] \in UserTask /\ task[k] # E!Idle /\ task'[k] # E!Idle /\ task[k].doc \notin users
             /\ task'[k].missed /\ task'[k].doc = task[k].doc /\ task'[k].fresh = task[k].fresh
             /\ task'[k].cached = task[k].cached /\ task'[k].top = task[k].top
  <2>1. task[k] \in UserTask /\ task[k] # E!Idle
    BY <1>0, <1>6, TaskIs
  <2>2. task'[k] = [task[k] EXCEPT !.missed = TRUE]
    BY <1>4, <1>6
  <2>3. task'[k] \in UserTask
    BY <2>1, <2>2, UserTaskChanges
  <2>4. task'[k] # E!Idle
    BY <2>3 DEF UserTask, E!Idle
  <2>5. /\ task'[k].missed /\ task'[k].doc = task[k].doc /\ task'[k].fresh = task[k].fresh
        /\ task'[k].cached = task[k].cached /\ task'[k].top = task[k].top
    BY <2>1, <2>2 DEF UserTask
  <2> QED
    BY <1>6, <2>1, <2>4, <2>5
<1> HIDE DEF Late
<1>7. ASSUME NEW k \in Handler, k # h, NEW d, Works(k, d)'
      PROVE  Works(k, d) /\ d \notin users /\ (task'[k] = task[k] \/ Late(k))
  <2>1. CASE Late(k)
    BY <1>6, <1>7, <2>1 DEF Works
  <2>2. CASE ~Late(k)
    BY <1>0, <1>4, <1>7, <2>2, ToldIs DEF Works
  <2> QED
    BY <2>1, <2>2
<1>8. ASSUME NEW k \in Handler, k # h, NEW d, Works(k, d), d \notin users PROVE Works(k, d)'
  <2>1. CASE Late(k)
    BY <1>6, <1>8, <2>1 DEF Works
  <2>2. CASE ~Late(k)
    <3>1. task'[k] = task[k]
      BY <1>0, <1>4, <1>8, <2>2, ToldIs DEF Works
    <3> QED
      BY <1>8, <3>1 DEF Works
  <2> QED
    BY <2>1, <2>2
<1>9. EdgesWait
  BY <1>3 DEF EdgesWait
<1>10. ASSUME NEW s \in Role, ~(whole /\ t.changed /\ s = r) PROVE Stale(s) => Stale(s)'
  <2>1. applied'[s] = applied[s] \/ (itself /\ t.changed /\ s = r)
    BY <1>0, <1>1, <1>3 DEF CacheTypes
  <2>2. s \in unranked => s \in unranked'
    BY <1>3, <1>10
  <2>3. itself /\ t.changed /\ s = r => s \in unranked'
    BY <1>3, <1>10
  <2> QED
    BY <1>3, <2>1, <2>2, <2>3 DEF Stale
<1>11. WalkInv'
  <2>1. ASSUME NEW k \in Handler, k # h, FreshOnUser(k)' PROVE Untouched(k)' /\ (~task'[k].missed => Reading(k)')
    <3>0. PICK u : u = task'[k].doc
      OBVIOUS
    <3>1. Works(k, u)' /\ u \in User
      BY <2>1, <3>0 DEF FreshOnUser, E!OnUser, Works
    <3>2. Works(k, u) /\ u \notin users /\ (task'[k] = task[k] \/ Late(k))
      BY <1>7, <2>1, <3>1
    <3>3. FreshOnUser(k) /\ task[k].doc = u
      BY <3>1, <3>2 DEF Works, FreshOnUser, E!OnUser
    <3>4. Untouched(k) /\ (~task[k].missed => Reading(k))
      BY <3>3 DEF CacheInv, WalkInv
    <3>5. task'[k].cached = task[k].cached /\ task'[k].top = task[k].top
      BY <1>6, <2>1, <3>2
    <3>6. Untouched(k)'
      BY <1>3, <3>0, <3>2, <3>3, <3>4, <3>5 DEF Untouched
    <3>7. ASSUME ~task'[k].missed PROVE Reading(k)'
      <4>1. ~Late(k) /\ task'[k] = task[k]
        BY <1>6, <2>1, <3>2, <3>7
      <4>2. Reading(k)
        BY <3>4, <3>7, <4>1
      <4>3. CASE E!At(k, "write")
        <5>1. PICK n : n = task[k].newTop
          OBVIOUS
        <5>2. PICK nodes : nodes = E!Targets(task[k].read)
          OBVIOUS
        <5>3. n = E!TopOf(nodes)
          BY <3>2, <3>3, <4>1, <4>3, <5>1, <5>2 DEF Late, FreshOnUser
        <5>4. n = E!TopOf(nodes)'
          BY <1>3, <5>3, TopOfIs
        <5>5. Ranked(n, nodes)'
          BY <1>0, <1>3, <5>4, RankedThen DEF CacheTypes
        <5>6. Ranked(task[k].newTop, E!Targets(task[k].read))'
          BY <4>1, <5>1, <5>2, <5>5 DEF Ranked
        <5> QED
          BY <1>9, <4>1, <4>2, <5>6, ReadingStays
      <4>4. CASE ~E!At(k, "write")
        BY <1>9, <4>1, <4>2, <4>4, ReadingStays
      <4> QED
        BY <4>3, <4>4
    <3> QED
      BY <3>6, <3>7
  <2> QED
    BY <1>5, <2>1 DEF WalkInv
<1>12. CachedInv'
  <2>1. ASSUME NEW v \in User, v \in marked', v \notin missed'
        PROVE  WrittenAs(v)' /\ (Ranked(top[v], cached[v]) \/ Waits(v))'
    <3>1. v \in marked /\ v \notin missed /\ v \notin users
      BY <1>1, <1>3, <2>1
    <3>2. whole /\ t.changed => r \notin cached[v]
      BY <1>b, <3>1
    <3>3. \A s \in cached[v] \cap Role : (rank'[s] = rank[s] \/ Stale(s)') /\ (Stale(s) => Stale(s)')
      BY <1>3, <1>10, <3>2
    <3> QED
      BY <1>3, <1>9, <3>1, <3>3, CachedStays DEF CacheInv
  <2> QED
    BY <2>1 DEF CachedInv
<1>13. MarkInv'
  <2>1. ASSUME NEW d \in User \cup Role, d \notin marked', d \notin queue' PROVE \E k \in Handler : Works(k, d)'
    <3>1. d \notin users /\ d \notin marked /\ d \notin queue
      BY <1>3, <2>1
    <3>2. PICK k \in Handler : Works(k, d)
      BY <3>1 DEF CacheInv, MarkInv
    <3>3. k # h
      <4> SUFFICES ASSUME k = h PROVE FALSE
        OBVIOUS
      <4>1. d = r /\ t.fresh
        BY <1>a, <3>2 DEF Works
      <4>2. "role" \notin ok
        BY <1>3, <2>1, <3>1, <4>1
      <4>3. ~whole
        BY <4>2
      <4> QED
        BY <1>3, <2>1, <4>1, <4>3
    <3> QED
      BY <1>8, <3>1, <3>2, <3>3
  <2> QED
    BY <2>1 DEF MarkInv
<1>14. RankInv'
  <2>0. itself => t.rank = rank[r] /\ (t.changed \/ applied[r] = rank[r])
    <3>1. itself => Works(h, r)
      BY <1>1, <1>a DEF Works
    <3> QED
      BY <1>1, <3>1 DEF CacheInv, RankInv
  <2>1. \A s \in Role : applied'[s] = applied[s] \/ (applied'[s] = rank[s] /\ s = r)
    BY <1>0, <1>1, <1>3, <2>0 DEF CacheTypes
  <2>2. ASSUME NEW s \in Role, s \in marked' PROVE applied'[s] = rank'[s]
    <3>1. CASE s \in marked
      BY <1>3, <2>1, <3>1 DEF CacheInv, RankInv
    <3>2. CASE s \notin marked
      <4>1. s = r /\ itself
        BY <1>3, <2>2, <3>2
      <4> QED
        BY <1>0, <1>1, <1>3, <2>0, <4>1 DEF CacheTypes
    <3> QED
      BY <3>1, <3>2
  <2>3. ASSUME NEW k \in Handler, NEW s \in Role, Works(k, s)'
        PROVE  task'[k].rank = rank'[s] /\ (task'[k].changed \/ applied'[s] = rank'[s])
    <3>1. k # h
      BY <1>5, <2>3
    <3>2. Works(k, s) /\ (task'[k] = task[k] \/ Late(k))
      BY <1>7, <2>3, <3>1
    <3>3. ~Late(k)
      BY <1>6, <3>1, <3>2, UserTaskFields, CacheConstants DEF Works
    <3> QED
      BY <1>3, <2>1, <3>2, <3>3 DEF CacheInv, RankInv
  <2> QED
    BY <2>2, <2>3 DEF RankInv
<1> QED
  BY <1>11, <1>12, <1>13, <1>14 DEF CacheStays

LEMMA CacheInit == E!Init => CacheInv
<1> SUFFICES ASSUME E!Init PROVE CacheInv
  OBVIOUS
<1>1. ASSUME NEW u \in User PROVE cached[u] = E!Reached(u) /\ cached[u] \in SUBSET Found
  <2>1. E!Targets(graph) \in SUBSET Found /\ graph \in SUBSET Links
    BY TargetsFound DEF E!Init
  <2>2. E!Closed(u, E!Targets(graph))
    BY DEF E!Closed, E!Targets
  <2>3. E!Reached(u) \subseteq E!Targets(graph)
    BY <2>1, <2>2, CacheConstants DEF E!Reached
  <2>4. cached[u] = E!Reached(u)
    BY DEF E!Init
  <2> QED
    BY <2>1, <2>3, <2>4
<1>2. rank \in [Role -> 1..MaxRank] /\ applied = rank
  BY CacheConstants DEF E!Init
<1>3. ASSUME NEW u \in User PROVE top[u] = E!TopOf(cached[u]) /\ top[u] \in 0..MaxRank
  <2>1. top[u] = E!TopOf(E!Reached(u))
    BY DEF E!Init
  <2>2. E!TopOf(cached[u]) \in 0..MaxRank
    BY <1>2, TopOfIs, TopIn
  <2> QED
    BY <1>1, <2>1, <2>2
<1>4. CacheTypes
  <2>1. cached = [u \in User |-> cached[u]] /\ top = [u \in User |-> top[u]]
    BY DEF E!Init
  <2>2. cached \in [User -> SUBSET Found] /\ top \in [User -> 0..MaxRank]
    BY <1>1, <1>3, <2>1
  <2> QED
    BY <1>2, <2>2 DEF E!Init, CacheTypes
<1>5. \A h \in Handler : task[h] = E!Idle
  BY DEF E!Init
<1>6. WalkInv
  BY <1>5 DEF WalkInv, FreshOnUser, E!OnUser
<1>7. CachedInv
  <2>1. ASSUME NEW u \in User PROVE WrittenAs(u) /\ Ranked(top[u], cached[u])
    BY <1>1, <1>2, <1>3, <1>4, ReachedIsFollowing, RankedNow
  <2> QED
    BY <2>1 DEF CachedInv
<1>8. MarkInv
  BY DEF E!Init, MarkInv
<1>9. RankInv
  BY <1>2, <1>5 DEF RankInv, Works
<1> QED
  BY <1>4, <1>6, <1>7, <1>8, <1>9 DEF CacheInv

LEMMA CacheStep == CacheInv /\ [E!Next]_caches => CacheInv'
<1> SUFFICES ASSUME CacheInv, [E!Next]_caches PROVE CacheInv'
  OBVIOUS
<1>1. CacheTypes'
  BY CacheTypesStay DEF CacheInv
<1>2. CacheStays
  <2>1. CASE UNCHANGED caches
    <3>1. EdgesWait /\ RanksWait
      BY <2>1 DEF caches, EdgesWait, RanksWait, Stale
    <3> QED
      BY <2>1, <3>1, SameTasks DEF caches
  <2>2. CASE E!Next
    BY <2>2, ChangeEdgeStep, HandleEdgeStep, RerankStep, IndexedStep, LoadStep, WorkFailsStep, AckStep,
       WalkStep, RolesStep, WriteStep, ApplyStep DEF E!Next
  <2> QED
    BY <2>1, <2>2
<1> QED
  BY <1>1, <1>2 DEF CacheInv, CacheStays

LEMMA CacheHolds == CacheInv => E!CacheFollows
<1> SUFFICES ASSUME CacheInv, E!Quiet, NEW u \in User, u \notin missed
             PROVE  /\ cached[u] = E!Reached(u)
                    /\ E!Reached(u) \cap unranked = {} => top[u] = E!TopOf(E!Reached(u))
  BY DEF E!CacheFollows
<1>1. queue = {} /\ \A h \in Handler : task[h] = E!Idle
  BY DEF E!Quiet
<1>2. marked = User \cup Role
  BY <1>1 DEF CacheInv, CacheTypes, MarkInv, Works
<1>3. WrittenAs(u) /\ Ranked(top[u], cached[u])
  BY <1>1, <1>2 DEF CacheInv, CachedInv, Waits
<1>4. cached[u] = E!Reached(u)
  BY <1>1, <1>3, FollowingIsReached DEF CacheInv
<1>5. ASSUME E!Reached(u) \cap unranked = {} PROVE top[u] = E!TopOf(E!Reached(u))
  <2>1. PICK ranks \in [Role -> 1..MaxRank] :
            top[u] = TopBy(ranks, cached[u]) /\ \A r \in cached[u] \cap Role : ranks[r] = rank[r] \/ Stale(r)
    BY <1>3 DEF Ranked
  <2>2. \A r \in cached[u] \cap Role : ranks[r] = rank[r]
    BY <1>2, <1>4, <1>5, <2>1 DEF Stale, CacheInv, RankInv
  <2>3. {ranks[r] : r \in cached[u] \cap Role} = {rank[r] : r \in cached[u] \cap Role}
    BY <2>2
  <2>4. TopBy(ranks, cached[u]) = TopBy(rank, cached[u])
    BY <2>3 DEF TopBy
  <2> QED
    BY <1>4, <2>1, <2>4, TopOfIs
<1> QED
  BY <1>4, <1>5

\* When the queue is done, what is cached of a user's entitlements is what the graph gives, and
\* the rank is that of his roles, however the handlers of edges, users and roles met, but for
\* the users and the roles that CacheFollows names.
THEOREM CacheAlwaysFollows == E!Spec => []CacheFollows
<1>1. E!Init => CacheInv
  BY CacheInit
<1>2. CacheInv /\ [E!Next]_caches => CacheInv'
  BY CacheStep
<1>3. CacheInv => CacheFollows
  BY CacheHolds DEF CacheFollows
<1> QED
  BY <1>1, <1>2, <1>3, PTL DEF E!Spec, E!entitlementVars, caches

-----------------------------------------------------------------------------

\* The behaviours of the run are behaviours of each part.
THEOREM PaymentsRunIsEachPart == MCSpec => Spec /\ P!Spec /\ C!Spec /\ E!Spec
<1>1. MCInit => Init /\ P!Init /\ C!Init /\ E!Init
  BY DEF MCInit
<1>2. [BenefitsNext \/ PeriodsNext \/ CodesNext \/ CachesNext]_<<part, vars, payments, codes, caches>>
      => [Next]_vars /\ [P!Next]_(P!vars) /\ [C!Next]_(C!vars) /\ [E!Next]_(E!entitlementVars)
  BY DEF BenefitsNext, PeriodsNext, CodesNext, CachesNext, payments, codes, caches,
         P!vars, C!vars, E!entitlementVars
<1> QED
  BY <1>1, <1>2, PTL DEF MCSpec, Spec, P!Spec, C!Spec, E!Spec
=============================================================================
