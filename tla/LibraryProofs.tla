--------------------------- MODULE LibraryProofs ---------------------------
(***************************************************************************)
(* Proofs about Accounts, for any users, accounts and sessions, about      *)
(* EmoteSets (S), for any calls, emotes, aliases and capacity, about       *)
(* Editors (D), for any editors, calls and permissions, and about Roles    *)
(* (R) with Permissions, for any users, roles, bans and old bits.          *)
(***************************************************************************)
EXTENDS MCLibrary, FiniteSetTheorems, WellFoundedInduction, TLAPS

-----------------------------------------------------------------------------

\* Some number is the least.
LEMMA Least ==
    ASSUME NEW Q \in SUBSET Nat, Q # {}
    PROVE  \E n \in Q : \A m \in Q : n =< m
<1>1. PICK n \in Q : \A m \in Q : ~(<<m, n>> \in OpToRel(<, Nat))
  BY WFMin, NatLessThanWellFounded, Zenon
<1>2. ASSUME NEW m \in Q PROVE ~(m < n)
  <2>1. m < n => <<m, n>> \in OpToRel(<, Nat)
    <3>1. <<m, n>> \in Nat \X Nat
      OBVIOUS
    <3>2. <<m, n>>[1] = m /\ <<m, n>>[2] = n
      OBVIOUS
    <3> QED
      BY <3>1, <3>2, Zenon DEF OpToRel
  <2> QED
    BY <1>1, <2>1, Zenon
<1>3. n \in Nat /\ \A m \in Q : m \in Nat /\ ~(m < n)
  BY <1>2
<1> QED
  BY <1>3

-----------------------------------------------------------------------------
(* The accounts *)

\* A call holds what its step needs.
CallInv ==
    \A s \in Session :
        /\ pc[s] \in {"enter", "link"} => call[s][1] \in User
        /\ pc[s] \in {"create", "link"} => call[s][2] \in Account

\* Who was merged had been inserted: a new user was not.
BornInv == \A u \in User : Merged(u) => u \in born

AccountsInv == TypeOK /\ CallInv /\ BornInv /\ OneOwner /\ NobodyLockedOut /\ MergesAreFinal

-----------------------------------------------------------------------------
(* Lists of accounts *)

\* The list t has elements of the list s, each at most as often.
Drawn(t, s) ==
    \E at \in [1..Len(t) -> 1..Len(s)] :
        /\ \A m, n \in 1..Len(t) : at[m] = at[n] => m = n
        /\ \A n \in 1..Len(t) : t[n] = s[at[n]]

LEMMA RemovedAt ==
    ASSUME NEW Elem, NEW s \in Seq(Elem), NEW i \in 1..Len(s)
    PROVE  /\ RemoveAt(s, i) \in Seq(Elem)
           /\ Len(RemoveAt(s, i)) = Len(s) - 1
           /\ \A n \in 1..Len(s)-1 : RemoveAt(s, i)[n] = IF n < i THEN s[n] ELSE s[n+1]
<1> DEFINE front == SubSeq(s, 1, i-1)
           back == SubSeq(s, i+1, Len(s))
<1>1. front \in Seq(Elem) /\ Len(front) = i - 1 /\ \A n \in 1..(i-1) : front[n] = s[n]
  OBVIOUS
<1>2. back \in Seq(Elem) /\ Len(back) = Len(s) - i /\ \A n \in 1..(Len(s) - i) : back[n] = s[i + n]
  OBVIOUS
<1>3. RemoveAt(s, i) = front \o back
  BY DEF RemoveAt
<1> HIDE DEF front, back
<1>4. /\ front \o back \in Seq(Elem)
      /\ Len(front \o back) = Len(s) - 1
  BY <1>1, <1>2
<1>5. ASSUME NEW n \in 1..Len(s)-1 PROVE (front \o back)[n] = IF n < i THEN s[n] ELSE s[n+1]
  <2>0. n \in Int /\ i \in Int
    OBVIOUS
  <2>1. CASE n < i
    BY <1>1, <1>2, <2>1
  <2>2. CASE ~(n < i)
    <3>1. (front \o back)[n] = back[n - (i - 1)]
      BY <1>1, <1>2, <2>2
    <3>2. back[n - (i - 1)] = s[i + (n - (i - 1))]
      BY <1>2, <2>2
    <3>3. i + (n - (i - 1)) = n + 1
      OBVIOUS
    <3> QED
      BY <2>2, <3>1, <3>2, <3>3
  <2> QED
    BY <2>1, <2>2
<1> QED
  BY <1>3, <1>4, <1>5

\* What is left when an account is pulled, alone and behind that account.
LEMMA PulledDraws ==
    ASSUME NEW s \in Seq(Account), NEW a \in Account, Contains(s, a)
    PROVE  /\ Pulled(s, a) \in Seq(Account) /\ Drawn(Pulled(s, a), s)
           /\ <<a>> \o Pulled(s, a) \in Seq(Account) /\ Drawn(<<a>> \o Pulled(s, a), s)
           /\ <<a>> \o Pulled(s, a) # <<>>
<1> DEFINE i == CHOOSE n \in DOMAIN s : s[n] = a
           t == Pulled(s, a)
           u == <<a>> \o t
<1>1. i \in 1..Len(s) /\ s[i] = a
  BY DEF Contains
<1>2. t = RemoveAt(s, i)
  BY DEF Pulled
<1> HIDE DEF i, t
<1>3. t \in Seq(Account) /\ Len(t) = Len(s) - 1 /\ \A n \in 1..Len(s)-1 : t[n] = IF n < i THEN s[n] ELSE s[n+1]
  BY <1>1, <1>2, RemovedAt
<1>4. Drawn(t, s)
  <2> DEFINE at == [n \in 1..Len(t) |-> IF n < i THEN n ELSE n + 1]
  <2>1. at \in [1..Len(t) -> 1..Len(s)]
    BY <1>1, <1>3
  <2>2. \A m, n \in 1..Len(t) : at[m] = at[n] => m = n
    BY <1>1, <1>3
  <2>3. \A n \in 1..Len(t) : t[n] = s[at[n]]
    BY <1>1, <1>3
  <2> QED
    BY <2>1, <2>2, <2>3 DEF Drawn
<1>5. u \in Seq(Account) /\ Len(u) = Len(s) /\ u[1] = a /\ \A n \in 2..Len(s) : u[n] = t[n-1]
  BY <1>1, <1>3
<1>6. Drawn(u, s)
  <2> DEFINE at == [n \in 1..Len(u) |-> IF n = 1 THEN i ELSE IF n - 1 < i THEN n - 1 ELSE n]
  <2>1. at \in [1..Len(u) -> 1..Len(s)]
    BY <1>1, <1>5
  <2>2. \A m, n \in 1..Len(u) : at[m] = at[n] => m = n
    BY <1>1, <1>5
  <2>3. ASSUME NEW n \in 1..Len(u) PROVE u[n] = s[at[n]]
    <3>1. CASE n = 1
      BY <1>1, <1>5, <3>1
    <3>2. CASE n # 1
      <4>1. n - 1 \in 1..Len(s)-1 /\ u[n] = t[n-1]
        BY <1>1, <1>5, <3>2
      <4>2. t[n-1] = IF n - 1 < i THEN s[n-1] ELSE s[n-1+1]
        BY <1>3, <4>1
      <4>3. n - 1 + 1 = n
        BY <3>2
      <4> QED
        BY <3>2, <4>1, <4>2, <4>3
    <3> QED
      BY <3>1, <3>2
  <2> HIDE DEF at
  <2> QED
    BY <2>1, <2>2, <2>3 DEF Drawn
<1>7. u # <<>>
  BY <1>1, <1>5
<1> QED
  BY <1>3, <1>4, <1>5, <1>6, <1>7 DEF t

-----------------------------------------------------------------------------

LEMMA AccountsTypeStep ==
    AccountsInv /\ [Next]_vars => TypeOK' /\ CallInv' /\ BornInv'
<1> SUFFICES ASSUME AccountsInv, [Next]_vars PROVE TypeOK' /\ CallInv' /\ BornInv'
  OBVIOUS
<1> USE ConstAssumption DEF AccountsInv, TypeOK, CallInv, BornInv, Merged, people
<1>1. ASSUME NEW s \in Session, NEW a \in Account, LoginMisses(s, a) PROVE TypeOK' /\ CallInv' /\ BornInv'
  BY <1>1 DEF LoginMisses, Goto
<1>2. ASSUME NEW s \in Session, NEW a \in Account, LinkStarts(s, a) PROVE TypeOK' /\ CallInv' /\ BornInv'
  BY <1>2 DEF LinkStarts, Goto
<1>3. ASSUME NEW s \in Session, NEW u \in User, NEW a \in Account, LoginFinds(s, u, a) PROVE TypeOK' /\ CallInv' /\ BornInv'
  BY <1>3 DEF LoginFinds, Goto
<1>4. ASSUME NEW s \in Session, NEW u \in User, NEW a \in Account, NEW old \in SUBSET (Session \ {s}),
             Callback(s, u, a, old)
      PROVE  TypeOK' /\ CallInv' /\ BornInv'
  <2>1. CASE Owns(u, a) /\ UNCHANGED people
    BY <1>4, <2>1 DEF Callback, Given, Ends, Goto
  <2>2. CASE Free(a) /\ NewUser(u, a) /\ UNCHANGED into
    BY <1>4, <2>2 DEF Callback, Given, Ends, Goto, NewUser
  <2> QED
    BY <1>4, <2>1, <2>2 DEF Callback
<1>5. ASSUME NEW s \in Session, CallFails(s) PROVE TypeOK' /\ CallInv' /\ BornInv'
  BY <1>5 DEF CallFails, Ends, Goto
<1>6. ASSUME NEW s \in Session, LoginEnters(s) PROVE TypeOK' /\ CallInv' /\ BornInv'
  BY <1>6 DEF LoginEnters, Ends, Goto, Given
<1>7. ASSUME NEW s \in Session, LinkFinish(s) PROVE TypeOK' /\ CallInv' /\ BornInv'
  BY <1>7 DEF LinkFinish, Ends, Goto, Given, Connect
<1>8. ASSUME NEW s \in Session, Logout(s) PROVE TypeOK' /\ CallInv' /\ BornInv'
  BY <1>8 DEF Logout, Close
<1>9. ASSUME NEW s \in Session, NEW u \in User, LoginCreates(s, u) PROVE TypeOK' /\ CallInv' /\ BornInv'
  BY <1>9 DEF LoginCreates, NewUser, Goto
<1>10. ASSUME NEW s \in Session, NEW u \in User, DeleteAllSessions(u, s) PROVE TypeOK' /\ CallInv' /\ BornInv'
  BY <1>10 DEF DeleteAllSessions, Close
<1>11. ASSUME NEW u \in User, NEW a \in Account, ManuallyLinkKick(u, a) PROVE TypeOK' /\ CallInv' /\ BornInv'
  BY <1>11 DEF ManuallyLinkKick, Connect, Given
<1>12. ASSUME NEW u \in User, NEW a \in Account, RemoveConnection(u, a) PROVE TypeOK' /\ CallInv' /\ BornInv'
  <2>1. Pulled(conns[u], a) \in Seq(Account)
    BY <1>12, PulledDraws DEF RemoveConnection, Owns
  <2> QED
    BY <1>12, <2>1 DEF RemoveConnection
<1>13. ASSUME NEW u \in User, NEW a \in Account, MainConnection(u, a) PROVE TypeOK' /\ CallInv' /\ BornInv'
  <2>1. <<a>> \o Pulled(conns[u], a) \in Seq(Account)
    BY <1>13, PulledDraws DEF MainConnection, Owns
  <2> HIDE DEF Pulled
  <2> QED
    BY <1>13, <2>1 DEF MainConnection
<1>14. ASSUME NEW u \in User, NEW target \in User, Merge(u, target) PROVE TypeOK' /\ CallInv' /\ BornInv'
  <2> DEFINE both == conns[target] \o conns[u]
  <2>1. both \in Seq(Account)
    OBVIOUS
  <2> HIDE DEF both
  <2>2. conns' \in [User -> Seq(Account)]
    <3>1. conns' = [conns EXCEPT ![u] = <<>>, ![target] = both]
      BY <1>14 DEF Merge, both
    <3>2. [conns EXCEPT ![u] = <<>>] \in [User -> Seq(Account)]
      OBVIOUS
    <3> QED
      BY <3>1, <3>2, <2>1
  <2>3. session' \in [Session -> User \cup {None}]
    BY <1>14 DEF Merge, Close
  <2>4. into' \in [User -> User \cup {None}] /\ BornInv'
    BY <1>14 DEF Merge
  <2> QED
    BY <1>14, <2>2, <2>3, <2>4 DEF Merge
<1>15. ASSUME NEW u \in User, Delete(u) PROVE TypeOK' /\ CallInv' /\ BornInv'
  BY <1>15 DEF Delete
<1>16. CASE UNCHANGED vars
  BY <1>16 DEF vars
<1> QED
  BY <1>1, <1>2, <1>3, <1>4, <1>5, <1>6, <1>7, <1>8, <1>9, <1>10, <1>11, <1>12, <1>13, <1>14, <1>15, <1>16 DEF Next

-----------------------------------------------------------------------------
(* One owner *)

\* An account that is free is connected to a user.
LEMMA ConnectKeepsOwners ==
    ASSUME TypeOK, OneOwner, NEW u \in User, NEW a \in Account, Free(a), Connect(u, a), users' = users
    PROVE  OneOwner'
<1> USE DEF TypeOK
<1> DEFINE s == Append(conns[u], a)
<1>1. /\ \A v \in User : conns'[v] = IF v = u THEN s ELSE conns[v]
      /\ s \in Seq(Account) /\ Len(s) = Len(conns[u]) + 1
      /\ s[Len(s)] = a /\ \A i \in 1..Len(conns[u]) : s[i] = conns[u][i]
  BY DEF Connect
<1> HIDE DEF s
<1>2. \A v \in users : \A i \in DOMAIN conns[v] : conns[v][i] # a
  BY DEF Free, Owns, Contains
<1> SUFFICES ASSUME NEW v \in users, NEW w \in users, NEW i \in DOMAIN conns'[v], NEW j \in DOMAIN conns'[w],
                    conns'[v][i] = conns'[w][j]
             PROVE  v = w /\ i = j
  BY DEF OneOwner
<1>3. \/ i \in DOMAIN conns[v] /\ conns'[v][i] = conns[v][i]
      \/ v = u /\ i = Len(s) /\ conns'[v][i] = a
  <2>1. CASE v = u
    <3>1. conns'[v] = s /\ i \in 1..Len(s) /\ DOMAIN conns[u] = 1..Len(conns[u]) /\ Len(conns[u]) \in Nat
      BY <1>1, <2>1
    <3>2. CASE i = Len(s)
      BY <1>1, <2>1, <3>1, <3>2
    <3>3. CASE i # Len(s)
      <4>1. i \in 1..Len(conns[u])
        BY <1>1, <3>1, <3>3
      <4> QED
        BY <1>1, <2>1, <3>1, <4>1
    <3> QED
      BY <3>2, <3>3
  <2>2. CASE v # u
    BY <1>1, <2>2
  <2> QED
    BY <2>1, <2>2
<1>4. \/ j \in DOMAIN conns[w] /\ conns'[w][j] = conns[w][j]
      \/ w = u /\ j = Len(s) /\ conns'[w][j] = a
  <2>1. CASE w = u
    <3>1. conns'[w] = s /\ j \in 1..Len(s) /\ DOMAIN conns[u] = 1..Len(conns[u]) /\ Len(conns[u]) \in Nat
      BY <1>1, <2>1
    <3>2. CASE j = Len(s)
      BY <1>1, <2>1, <3>1, <3>2
    <3>3. CASE j # Len(s)
      <4>1. j \in 1..Len(conns[u])
        BY <1>1, <3>1, <3>3
      <4> QED
        BY <1>1, <2>1, <3>1, <4>1
    <3> QED
      BY <3>2, <3>3
  <2>2. CASE w # u
    BY <1>1, <2>2
  <2> QED
    BY <2>1, <2>2
<1> QED
  BY <1>2, <1>3, <1>4 DEF OneOwner

LEMMA NewUserKeepsOwners ==
    ASSUME TypeOK, OneOwner, NEW u \in User, NEW a \in Account, Free(a), NewUser(u, a)
    PROVE  OneOwner'
<1> USE DEF TypeOK
<1>1. /\ \A v \in User : conns'[v] = IF v = u THEN <<a>> ELSE conns[v]
      /\ users' = users \cup {u} /\ u \notin users
  BY DEF NewUser
<1>2. \A v \in users : \A i \in DOMAIN conns[v] : conns[v][i] # a
  BY DEF Free, Owns, Contains
<1> SUFFICES ASSUME NEW v \in users', NEW w \in users', NEW i \in DOMAIN conns'[v], NEW j \in DOMAIN conns'[w],
                    conns'[v][i] = conns'[w][j]
             PROVE  v = w /\ i = j
  BY DEF OneOwner
<1>3. \/ v \in users /\ v # u /\ conns'[v] = conns[v]
      \/ v = u /\ i = 1 /\ conns'[v][i] = a
  BY <1>1
<1>4. \/ w \in users /\ w # u /\ conns'[w] = conns[w]
      \/ w = u /\ j = 1 /\ conns'[w][j] = a
  BY <1>1
<1> QED
  BY <1>2, <1>3, <1>4 DEF OneOwner

LEMMA DrawnKeepsOwners ==
    ASSUME TypeOK, OneOwner, NEW u \in users, NEW t \in Seq(Account), Drawn(t, conns[u]),
           conns' = [conns EXCEPT ![u] = t], users' = users
    PROVE  OneOwner'
<1> USE DEF TypeOK
<1>1. PICK at \in [1..Len(t) -> 1..Len(conns[u])] :
          /\ \A m, n \in 1..Len(t) : at[m] = at[n] => m = n
          /\ \A n \in 1..Len(t) : t[n] = conns[u][at[n]]
  BY DEF Drawn
<1>2. \A v \in User : conns'[v] = IF v = u THEN t ELSE conns[v]
  OBVIOUS
<1> SUFFICES ASSUME NEW v \in users, NEW w \in users, NEW i \in DOMAIN conns'[v], NEW j \in DOMAIN conns'[w],
                    conns'[v][i] = conns'[w][j]
             PROVE  v = w /\ i = j
  BY DEF OneOwner
<1>3. \/ v # u /\ i \in DOMAIN conns[v] /\ conns'[v][i] = conns[v][i]
      \/ v = u /\ i \in 1..Len(t) /\ at[i] \in DOMAIN conns[v] /\ conns'[v][i] = conns[v][at[i]]
  <2>1. CASE v = u
    <3>1. conns'[v] = t
      BY <1>2, <2>1
    <3>2. i \in 1..Len(t)
      BY <3>1
    <3>3. at[i] \in DOMAIN conns[v]
      BY <1>1, <2>1, <3>2
    <3> QED
      BY <1>1, <2>1, <3>1, <3>2, <3>3
  <2>2. CASE v # u
    BY <1>2, <2>2
  <2> QED
    BY <2>1, <2>2
<1>4. \/ w # u /\ j \in DOMAIN conns[w] /\ conns'[w][j] = conns[w][j]
      \/ w = u /\ j \in 1..Len(t) /\ at[j] \in DOMAIN conns[w] /\ conns'[w][j] = conns[w][at[j]]
  <2>1. CASE w = u
    <3>1. conns'[w] = t
      BY <1>2, <2>1
    <3>2. j \in 1..Len(t)
      BY <3>1
    <3>3. at[j] \in DOMAIN conns[w]
      BY <1>1, <2>1, <3>2
    <3> QED
      BY <1>1, <2>1, <3>1, <3>2, <3>3
  <2>2. CASE w # u
    BY <1>2, <2>2
  <2> QED
    BY <2>1, <2>2
<1> QED
  BY <1>1, <1>3, <1>4 DEF OneOwner

LEMMA MergeKeepsOwners ==
    ASSUME TypeOK, OneOwner, NEW u \in User, NEW target \in User, Merge(u, target)
    PROVE  OneOwner'
<1> USE DEF TypeOK
<1> DEFINE s == conns[target] \o conns[u]
           all == Len(conns[target])
<1>1. /\ u # target /\ u \in users /\ target \in users /\ users' = users
      /\ \A v \in User : conns'[v] = IF v = u THEN <<>> ELSE IF v = target THEN s ELSE conns[v]
  BY DEF Merge
<1>2. /\ s \in Seq(Account) /\ Len(s) = all + Len(conns[u]) /\ all \in Nat /\ Len(conns[u]) \in Nat
      /\ \A i \in 1..Len(s) : s[i] = IF i <= all THEN conns[target][i] ELSE conns[u][i - all]
  OBVIOUS
<1> HIDE DEF s, all
<1> SUFFICES ASSUME NEW v \in users, NEW w \in users, NEW i \in DOMAIN conns'[v], NEW j \in DOMAIN conns'[w],
                    conns'[v][i] = conns'[w][j]
             PROVE  v = w /\ i = j
  BY <1>1 DEF OneOwner
<1> DEFINE Was(x, n, y, m) == y \in users /\ m \in DOMAIN conns[y] /\ conns'[x][n] = conns[y][m]
<1>3. ASSUME NEW x \in users, NEW n \in DOMAIN conns'[x]
      PROVE  \/ x # target /\ x # u /\ Was(x, n, x, n)
             \/ x = target /\ n \in Int /\ Was(x, n, target, n)
             \/ x = target /\ n \in Int /\ Was(x, n, u, n - all)
  <2>1. CASE x = target
    <3>1. n \in 1..Len(s) /\ conns'[x][n] = s[n] /\ n \in Int
      BY <1>1, <1>2, <2>1
    <3>2. CASE n <= all
      <4>1. n \in DOMAIN conns[target]
        BY <1>2, <3>1, <3>2 DEF all
      <4> QED
        BY <1>1, <1>2, <2>1, <3>1, <3>2, <4>1
    <3>3. CASE ~(n <= all)
      <4>1. n - all \in DOMAIN conns[u]
        BY <1>2, <3>1, <3>3
      <4> QED
        BY <1>1, <1>2, <2>1, <3>1, <3>3, <4>1
    <3> QED
      BY <3>2, <3>3
  <2>2. CASE x # target
    BY <1>1, <2>2
  <2> QED
    BY <2>1, <2>2
<1> HIDE DEF Was
<1>4. \A x, y, n, m, x2, y2, n2, m2 :
          Was(x, n, y, m) /\ Was(x2, n2, y2, m2) /\ conns'[x][n] = conns'[x2][n2] => y = y2 /\ m = m2
  <2> SUFFICES ASSUME NEW x, NEW y, NEW n, NEW m, NEW x2, NEW y2, NEW n2, NEW m2,
                      Was(x, n, y, m), Was(x2, n2, y2, m2), conns'[x][n] = conns'[x2][n2]
               PROVE  y = y2 /\ m = m2
    OBVIOUS
  <2>1. y \in users /\ m \in DOMAIN conns[y] /\ conns'[x][n] = conns[y][m]
    BY DEF Was
  <2>2. y2 \in users /\ m2 \in DOMAIN conns[y2] /\ conns'[x2][n2] = conns[y2][m2]
    BY DEF Was
  <2>3. conns[y][m] = conns[y2][m2]
    BY <2>1, <2>2
  <2> QED
    BY <2>1, <2>2, <2>3 DEF OneOwner
<1>5. i \in Int /\ j \in Int => (i - all = j - all => i = j)
  BY <1>2
<1>6. \/ v # target /\ v # u /\ Was(v, i, v, i)
      \/ v = target /\ i \in Int /\ Was(v, i, target, i)
      \/ v = target /\ i \in Int /\ Was(v, i, u, i - all)
  BY <1>3
<1>7. \/ w # target /\ w # u /\ Was(w, j, w, j)
      \/ w = target /\ j \in Int /\ Was(w, j, target, j)
      \/ w = target /\ j \in Int /\ Was(w, j, u, j - all)
  BY <1>3
<1> QED
  BY <1>1, <1>4, <1>5, <1>6, <1>7, Zenon

\* No step of a call, a moderator or a merge gives an account away twice.
LEMMA OwnersStep == AccountsInv /\ [Next]_vars => OneOwner'
<1> SUFFICES ASSUME AccountsInv, [Next]_vars PROVE OneOwner'
  OBVIOUS
<1> USE DEF AccountsInv
<1>0. ASSUME conns' = conns, users' \subseteq users PROVE OneOwner'
  BY <1>0 DEF OneOwner
<1>1. ASSUME NEW s \in Session, NEW a \in Account, LoginMisses(s, a) PROVE OneOwner'
  BY <1>0, <1>1 DEF LoginMisses, people
<1>2. ASSUME NEW s \in Session, NEW a \in Account, LinkStarts(s, a) PROVE OneOwner'
  BY <1>0, <1>2 DEF LinkStarts, people
<1>3. ASSUME NEW s \in Session, NEW u \in User, NEW a \in Account, LoginFinds(s, u, a) PROVE OneOwner'
  BY <1>0, <1>3 DEF LoginFinds, people
<1>4. ASSUME NEW s \in Session, NEW u \in User, NEW a \in Account, NEW old \in SUBSET (Session \ {s}),
             Callback(s, u, a, old)
      PROVE  OneOwner'
  BY <1>0, <1>4, NewUserKeepsOwners DEF Callback, people
<1>5. ASSUME NEW s \in Session, CallFails(s) PROVE OneOwner'
  BY <1>0, <1>5 DEF CallFails, people
<1>6. ASSUME NEW s \in Session, LoginEnters(s) PROVE OneOwner'
  BY <1>0, <1>6 DEF LoginEnters, people
<1>7. ASSUME NEW s \in Session, LinkFinish(s) PROVE OneOwner'
  BY <1>7, ConnectKeepsOwners DEF LinkFinish, CallInv
<1>8. ASSUME NEW s \in Session, Logout(s) PROVE OneOwner'
  BY <1>0, <1>8 DEF Logout, people
<1>9. ASSUME NEW s \in Session, NEW u \in User, LoginCreates(s, u) PROVE OneOwner'
  BY <1>9, NewUserKeepsOwners DEF LoginCreates, CallInv
<1>10. ASSUME NEW s \in Session, NEW u \in User, DeleteAllSessions(u, s) PROVE OneOwner'
  BY <1>0, <1>10 DEF DeleteAllSessions, people
<1>11. ASSUME NEW u \in User, NEW a \in Account, ManuallyLinkKick(u, a) PROVE OneOwner'
  BY <1>11, ConnectKeepsOwners DEF ManuallyLinkKick
<1>12. ASSUME NEW u \in User, NEW a \in Account, RemoveConnection(u, a) PROVE OneOwner'
  <2>1. u \in users /\ conns[u] \in Seq(Account) /\ Contains(conns[u], a)
    BY <1>12 DEF RemoveConnection, Owns, TypeOK
  <2> DEFINE t == Pulled(conns[u], a)
  <2>2. conns' = [conns EXCEPT ![u] = t] /\ users' = users
    BY <1>12 DEF RemoveConnection
  <2>3. t \in Seq(Account) /\ Drawn(t, conns[u])
    BY <2>1, PulledDraws
  <2> HIDE DEF t
  <2> QED
    BY <2>1, <2>2, <2>3, DrawnKeepsOwners
<1>13. ASSUME NEW u \in User, NEW a \in Account, MainConnection(u, a) PROVE OneOwner'
  <2>1. u \in users /\ conns[u] \in Seq(Account) /\ Contains(conns[u], a)
    BY <1>13 DEF MainConnection, Owns, TypeOK
  <2> DEFINE t == <<a>> \o Pulled(conns[u], a)
  <2>2. conns' = [conns EXCEPT ![u] = t] /\ users' = users
    BY <1>13 DEF MainConnection
  <2>3. t \in Seq(Account) /\ Drawn(t, conns[u])
    BY <2>1, PulledDraws
  <2> HIDE DEF t
  <2> QED
    BY <2>1, <2>2, <2>3, DrawnKeepsOwners
<1>14. ASSUME NEW u \in User, NEW target \in User, Merge(u, target) PROVE OneOwner'
  BY <1>14, MergeKeepsOwners
<1>15. ASSUME NEW u \in User, Delete(u) PROVE OneOwner'
  BY <1>0, <1>15 DEF Delete
<1>16. CASE UNCHANGED vars
  BY <1>0, <1>16 DEF vars
<1> QED
  BY <1>1, <1>2, <1>3, <1>4, <1>5, <1>6, <1>7, <1>8, <1>9, <1>10, <1>11, <1>12, <1>13, <1>14, <1>15, <1>16 DEF Next

-----------------------------------------------------------------------------
(* Merged users *)

NobodyLost == NobodyLockedOut /\ MergesAreFinal

\* Only a merge makes a user merged; what is left to prove of a step that merges
\* nobody is that each user keeps what he needs and that merged ones get nothing.
LEMMA NothingMerged ==
    ASSUME AccountsInv, into' = into, revived \subseteq revived', users' \subseteq User,
           \A u \in users' : ~Merged(u) => conns'[u] # <<>>,
           \A u \in users' \ revived' : Merged(u) =>
               u \in users /\ conns'[u] = conns[u]
               /\ \A s \in Session : session'[s] = u => session[s] = u
    PROVE  NobodyLockedOut' /\ MergesAreFinal'
<1> USE DEF AccountsInv, Merged
<1>1. NobodyLockedOut'
  BY DEF NobodyLockedOut
<1>2. MergedIsEmpty'
  BY DEF MergesAreFinal, MergedIsEmpty, SessionsOf
<1>3. MergesEnd'
  BY DEF MergesAreFinal, MergesEnd
<1> QED
  BY <1>1, <1>2, <1>3 DEF MergesAreFinal

\* The user merged is emptied and the other one is not merged, so that no circle closes.
LEMMA MergeIsFinal ==
    ASSUME AccountsInv, NEW u \in User, NEW target \in User, Merge(u, target)
    PROVE  NobodyLockedOut' /\ MergesAreFinal'
<1> USE ConstAssumption DEF AccountsInv, TypeOK, Merged
<1> DEFINE both == conns[target] \o conns[u]
<1>1. /\ u # target /\ u \in users /\ target \in users /\ users' = users /\ into[target] = None
      /\ revived' = revived
      /\ \A v \in User : conns'[v] = IF v = u THEN <<>> ELSE IF v = target THEN both ELSE conns[v]
      /\ \A v \in User : into'[v] = IF v = u THEN target ELSE into[v]
  BY DEF Merge
<1>2. conns[target] # <<>>
  BY <1>1 DEF NobodyLockedOut
<1>3. both # <<>>
  BY <1>2
<1>4. \A s \in Session : session'[s] # u /\ (session'[s] = session[s] \/ session'[s] = None)
  BY DEF Merge, Close, SessionsOf
<1> HIDE DEF both
<1>5. NobodyLockedOut'
  BY <1>1, <1>3 DEF NobodyLockedOut
<1>6. MergedIsEmpty'
  <2> SUFFICES ASSUME NEW v \in users' \ revived', into'[v] # None
               PROVE  conns'[v] = <<>> /\ \A s \in Session : session'[s] # v
    BY DEF MergedIsEmpty, SessionsOf
  <2>1. CASE v = u
    BY <1>1, <1>4, <2>1
  <2>2. CASE v # u
    <3>1. v # target /\ into[v] # None /\ v \in users \ revived /\ v \in User
      BY <1>1, <2>2
    <3>2. conns[v] = <<>> /\ \A s \in Session : session[s] # v
      BY <3>1 DEF MergesAreFinal, MergedIsEmpty, SessionsOf
    <3> QED
      BY <1>1, <1>4, <2>2, <3>1, <3>2
  <2> QED
    BY <2>1, <2>2
<1>7. MergesEnd'
  <2> SUFFICES ASSUME NEW group \in SUBSET User, group # {} PROVE \E v \in group : into'[v] \notin group
    BY DEF MergesEnd
  <2>1. PICK v \in group : into[v] \notin group
    BY DEF MergesAreFinal, MergesEnd
  <2>2. CASE v = u /\ target \in group
    BY <1>1, <2>2
  <2>3. CASE v # u \/ target \notin group
    BY <1>1, <2>1, <2>3
  <2> QED
    BY <2>2, <2>3
<1> QED
  BY <1>5, <1>6, <1>7 DEF MergesAreFinal

LEMMA MergedStep == AccountsInv /\ [Next]_vars => NobodyLost'
<1> SUFFICES ASSUME AccountsInv, [Next]_vars PROVE NobodyLost'
  OBVIOUS
<1> USE ConstAssumption DEF AccountsInv, TypeOK, Merged, people, NobodyLockedOut, NobodyLost
<1>0. ASSUME UNCHANGED people, revived \subseteq revived',
             \A s \in Session : session'[s] \in {session[s], None} \/ session'[s] \in revived' \/ ~Merged(session'[s])
      PROVE  NobodyLost'
  BY <1>0, NothingMerged
<1>1. ASSUME NEW s \in Session, NEW a \in Account, LoginMisses(s, a) PROVE NobodyLost'
  BY <1>0, <1>1 DEF LoginMisses
<1>2. ASSUME NEW s \in Session, NEW a \in Account, LinkStarts(s, a) PROVE NobodyLost'
  BY <1>0, <1>2 DEF LinkStarts
<1>3. ASSUME NEW s \in Session, NEW u \in User, NEW a \in Account, LoginFinds(s, u, a) PROVE NobodyLost'
  BY <1>0, <1>3 DEF LoginFinds
<1>4. ASSUME NEW s \in Session, NEW u \in User, NEW a \in Account, NEW old \in SUBSET (Session \ {s}),
             Callback(s, u, a, old)
      PROVE  NobodyLost'
  <2>1. /\ \A o \in Session : session'[o] \in {u, None, session[o]}
        /\ revived' = IF Merged(u) THEN revived \cup {u} ELSE revived
    BY <1>4 DEF Callback, Given
  <2>2. CASE UNCHANGED people
    BY <1>0, <2>1, <2>2
  <2>3. CASE NewUser(u, a) /\ UNCHANGED into
    <3>1. ~Merged(u)
      BY <2>3 DEF NewUser, BornInv
    <3> QED
      BY <2>1, <2>3, <3>1, NothingMerged DEF NewUser
  <2> QED
    BY <1>4, <2>2, <2>3 DEF Callback
<1>5. ASSUME NEW s \in Session, CallFails(s) PROVE NobodyLost'
  BY <1>0, <1>5 DEF CallFails
<1>6. ASSUME NEW s \in Session, LoginEnters(s) PROVE NobodyLost'
  BY <1>0, <1>6 DEF LoginEnters, Given
<1>7. ASSUME NEW s \in Session, LinkFinish(s) PROVE NobodyLost'
  <2> DEFINE u == call[s][1]
             t == Append(conns[u], call[s][2])
  <2>1. /\ u \in users /\ u \in User /\ into' = into /\ users' = users /\ session' = session
        /\ revived' = IF Merged(u) THEN revived \cup {u} ELSE revived
        /\ conns' = [conns EXCEPT ![u] = t]
    BY <1>7 DEF LinkFinish, Connect, Given, CallInv
  <2>2. t # <<>>
    BY <1>7, <2>1 DEF LinkFinish, CallInv
  <2> HIDE DEF u, t
  <2> QED
    BY <2>1, <2>2, NothingMerged
<1>8. ASSUME NEW s \in Session, Logout(s) PROVE NobodyLost'
  BY <1>0, <1>8 DEF Logout, Close
<1>9. ASSUME NEW s \in Session, NEW u \in User, LoginCreates(s, u) PROVE NobodyLost'
  <2>1. ~Merged(u)
    BY <1>9 DEF LoginCreates, NewUser, BornInv
  <2> QED
    BY <1>9, <2>1, NothingMerged DEF LoginCreates, NewUser
<1>10. ASSUME NEW s \in Session, NEW u \in User, DeleteAllSessions(u, s) PROVE NobodyLost'
  BY <1>0, <1>10 DEF DeleteAllSessions, Close
<1>11. ASSUME NEW u \in User, NEW a \in Account, ManuallyLinkKick(u, a) PROVE NobodyLost'
  <2> DEFINE t == Append(conns[u], a)
  <2>1. /\ u \in users /\ into' = into /\ users' = users /\ session' = session
        /\ revived' = IF Merged(u) THEN revived \cup {u} ELSE revived
        /\ conns' = [conns EXCEPT ![u] = t]
    BY <1>11 DEF ManuallyLinkKick, Connect, Given
  <2>2. t # <<>>
    OBVIOUS
  <2> HIDE DEF t
  <2> QED
    BY <2>1, <2>2, NothingMerged
<1>12. ASSUME NEW u \in User, NEW a \in Account, NEW t,
              Owns(u, a), conns' = [conns EXCEPT ![u] = t], t # <<>>,
              UNCHANGED <<born, users, into, pc, call, session, revived>>
       PROVE  NobodyLost'
  <2>1. u \in users /\ conns[u] # <<>>
    BY <1>12 DEF Owns, Contains
  <2>2. \A v \in users \ revived : Merged(v) => v # u
    BY <2>1 DEF MergesAreFinal, MergedIsEmpty
  <2> QED
    BY <1>12, <2>1, <2>2, NothingMerged
<1>13. ASSUME NEW u \in User, NEW a \in Account, RemoveConnection(u, a) PROVE NobodyLost'
  <2> DEFINE t == Pulled(conns[u], a)
  <2>1. conns' = [conns EXCEPT ![u] = t] /\ conns'[u] # <<>>
    BY <1>13 DEF RemoveConnection
  <2> HIDE DEF t
  <2>2. t # <<>>
    BY <2>1
  <2> QED
    BY <1>12, <1>13, <2>1, <2>2 DEF RemoveConnection
<1>14. ASSUME NEW u \in User, NEW a \in Account, MainConnection(u, a) PROVE NobodyLost'
  <2> DEFINE t == <<a>> \o Pulled(conns[u], a)
  <2>1. conns' = [conns EXCEPT ![u] = t]
    BY <1>14 DEF MainConnection
  <2>2. t # <<>>
    BY <1>14, PulledDraws DEF MainConnection, Owns
  <2> HIDE DEF t
  <2> QED
    BY <1>12, <1>14, <2>1, <2>2 DEF MainConnection
<1>15. ASSUME NEW u \in User, NEW target \in User, Merge(u, target) PROVE NobodyLost'
  BY <1>15, MergeIsFinal
<1>16. ASSUME NEW u \in User, Delete(u) PROVE NobodyLost'
  BY <1>16, NothingMerged DEF Delete
<1>17. CASE UNCHANGED vars
  BY <1>0, <1>17 DEF vars
<1> HIDE DEF NobodyLost, AccountsInv, TypeOK, Merged, people, NobodyLockedOut
<1> QED
  BY <1>1, <1>2, <1>3, <1>4, <1>5, <1>6, <1>7, <1>8, <1>9, <1>10, <1>11, <1>13, <1>14, <1>15, <1>16, <1>17 DEF Next

LEMMA AccountsBegin == Init => AccountsInv
<1> SUFFICES ASSUME Init PROVE AccountsInv
  OBVIOUS
<1> USE ConstAssumption DEF Init
<1>1. TypeOK /\ CallInv /\ BornInv
  BY DEF TypeOK, CallInv, BornInv, Merged
<1>2. OneOwner /\ NobodyLockedOut /\ MergedIsEmpty
  BY DEF OneOwner, NobodyLockedOut, MergedIsEmpty
<1>3. MergesEnd
  BY DEF MergesEnd
<1> QED
  BY <1>1, <1>2, <1>3 DEF AccountsInv, MergesAreFinal

\* Whatever logins, links, moderators and merges meet: an account has one user, a
\* user that is not merged can log in, a merged one has nothing, merges end.
THEOREM AccountsAlwaysHold == Spec => []AccountsHold
<1>1. AccountsInv /\ [Next]_vars => AccountsInv'
  BY AccountsTypeStep, OwnersStep, MergedStep DEF AccountsInv, NobodyLost
<1>2. AccountsInv => AccountsHold
  BY DEF AccountsInv, AccountsHold
<1> QED
  BY <1>1, <1>2, AccountsBegin, PTL DEF Spec

-----------------------------------------------------------------------------
(* The emote set.  Unless a mutation was misled, the copy that it decided  *)
(* on lists the entries there are, so that what it looks for in the copy   *)
(* it finds in the set.                                                    *)

SetTypes ==
    /\ entries \in Seq(S!Entry) /\ cap \in Nat
    /\ adding # None => adding \in S!Entry
    /\ copy \in [Call -> {copy[c] : c \in Call}]
    /\ \A c \in Call : copy[c] # None => copy[c].entries \in Seq(S!Entry)

SetInv == SetTypes /\ S!NamesUnique /\ S!WithinCapacity /\ S!ListenersFollow

Shown(keys) == {k \in keys : k[1] \notin deleted}

-----------------------------------------------------------------------------
(* Places in a set *)

LEMMA SetCardinality == \A Q : S!Cardinality(Q) = Cardinality(Q)
  BY DEF S!Cardinality, Cardinality

\* Some place is the first.
LEMMA FirstPlace ==
    ASSUME NEW Q \in SUBSET Nat, Q # {}
    PROVE  S!Min(Q) \in Q
<1>1. \E n \in Q : \A m \in Q : n =< m
  BY Least
<1> QED
  BY <1>1 DEF S!Min

\* The first entry of an emote, and the one with an alias.
LEMMA FirstEntry ==
    ASSUME NEW es \in Seq(S!Entry), NEW e, NEW a
    PROVE  /\ \/ S!FirstOf(es, e) = 0 /\ \A i \in DOMAIN es : es[i].id # e
              \/ S!FirstOf(es, e) \in DOMAIN es /\ es[S!FirstOf(es, e)].id = e
           /\ \/ S!FirstAs(es, a) = 0 /\ \A i \in DOMAIN es : es[i].alias # a
              \/ S!FirstAs(es, a) \in DOMAIN es /\ es[S!FirstAs(es, a)].alias = a
           /\ 0 \notin DOMAIN es
<1> DEFINE ids == {i \in 1..Len(es) : es[i].id = e}
           aliases == {i \in 1..Len(es) : es[i].alias = a}
<1>1. S!FirstOf(es, e) = IF ids # {} THEN S!Min(ids) ELSE 0
  BY DEF S!FirstOf, S!SelectInSeq
<1>2. S!FirstAs(es, a) = IF aliases # {} THEN S!Min(aliases) ELSE 0
  BY DEF S!FirstAs, S!SelectInSeq
<1>3. /\ ids # {} => S!Min(ids) \in ids
      /\ aliases # {} => S!Min(aliases) \in aliases
  <2>1. ids \in SUBSET Nat /\ aliases \in SUBSET Nat
    OBVIOUS
  <2> QED
    BY <2>1, FirstPlace
<1>4. DOMAIN es = 1..Len(es) /\ 0 \notin 1..Len(es)
  OBVIOUS
<1> HIDE DEF S!Min
<1>5. CASE ids = {} /\ aliases = {}
  BY <1>1, <1>2, <1>4, <1>5
<1>6. CASE ids # {} /\ aliases = {}
  BY <1>1, <1>2, <1>3, <1>4, <1>6
<1>7. CASE ids = {} /\ aliases # {}
  BY <1>1, <1>2, <1>3, <1>4, <1>7
<1>8. CASE ids # {} /\ aliases # {}
  BY <1>1, <1>2, <1>3, <1>4, <1>8
<1> QED
  BY <1>5, <1>6, <1>7, <1>8

\* The first of the entries of an emote is the first that is named without an alias.
LEMMA FirstNamed ==
    ASSUME NEW es \in Seq(S!Entry), NEW e, S!Named(es, e, None) # {}
    PROVE  S!FirstOf(es, e) = S!Min(S!Named(es, e, None))
<1>1. S!Named(es, e, None) = {i \in 1..Len(es) : es[i].id = e}
  BY DEF S!Named
<1> QED
  BY <1>1 DEF S!FirstOf, S!SelectInSeq

\* An entry that is named is there.
LEMMA NamedIsThere ==
    ASSUME NEW es \in Seq(S!Entry), NEW e, NEW a, S!Named(es, e, a) # {}
    PROVE  /\ S!Min(S!Named(es, e, a)) \in S!Named(es, e, a)
           /\ S!Named(es, e, a) \subseteq S!Named(es, e, None)
<1>1. S!Named(es, e, a) \in SUBSET Nat /\ S!Named(es, e, a) \subseteq S!Named(es, e, None)
  BY DEF S!Named
<1> QED
  BY <1>1, FirstPlace

\* Two copies with the same list name the same places and hold the same keys.
LEMMA SameListing ==
    ASSUME NEW es \in Seq(S!Entry), NEW fs \in Seq(S!Entry), S!Listing(es) = S!Listing(fs)
    PROVE  /\ Len(es) = Len(fs) /\ DOMAIN es = DOMAIN fs
           /\ \A i \in DOMAIN es : es[i].id = fs[i].id /\ es[i].alias = fs[i].alias /\ S!Key(es[i]) = S!Key(fs[i])
           /\ \A e, a : S!Named(es, e, a) = S!Named(fs, e, a)
<1>1. DOMAIN es = DOMAIN S!Listing(es) /\ DOMAIN fs = DOMAIN S!Listing(fs)
  BY DEF S!Listing
<1>2. DOMAIN es = DOMAIN fs
  BY <1>1
<1>3. Len(es) = Len(fs)
  BY <1>2
<1>4. \A i \in DOMAIN es : S!Key(es[i]) = S!Key(fs[i])
  BY <1>2 DEF S!Listing
<1>5. \A i \in DOMAIN es : es[i].id = fs[i].id /\ es[i].alias = fs[i].alias
  BY <1>4 DEF S!Key
<1>6. \A e, a : S!Named(es, e, a) = S!Named(fs, e, a)
  BY <1>2, <1>5 DEF S!Named
<1> QED
  BY <1>2, <1>3, <1>4, <1>5, <1>6

\* The entries fs are those of es at the places that `at` gives.
Places(at, fs, es) ==
    /\ at \in [1..Len(fs) -> DOMAIN es]
    /\ \A i, j \in 1..Len(fs) : at[i] = at[j] => i = j
    /\ \A i \in 1..Len(fs) : fs[i] = es[at[i]]

\* The entries t are those that are not pulled.
Left(t, pulled) ==
    /\ t \in Seq(S!Entry)
    /\ \E at : /\ Places(at, t, entries)
               /\ \A i \in 1..Len(t) : at[i] \notin pulled
               /\ \A p \in DOMAIN entries \ pulled : \E i \in 1..Len(t) : at[i] = p

\* What `$pull` leaves: the entries at the other places, each once.
LEMMA PulledEntries ==
    ASSUME SetTypes, NEW e, NEW a, NEW t \in S!Without(e, a)
    PROVE  Left(t, S!Named(entries, e, a))
<1> DEFINE others == DOMAIN entries \ S!Named(entries, e, a)
           n == Cardinality(others)
<1>1. IsFiniteSet(others) /\ n \in Nat
  <2>1. others \in SUBSET (1..Len(entries)) /\ Len(entries) \in Nat
    BY DEF SetTypes
  <2>2. IsFiniteSet(1..Len(entries))
    BY <2>1, FS_Interval
  <2> QED
    BY <2>1, <2>2, FS_Subset, FS_CardinalityType
<1>2. PICK at \in [1..n -> others] :
          /\ \A i, j \in DOMAIN at : i < j => at[i] < at[j]
          /\ t = [i \in DOMAIN at |-> entries[at[i]]]
  BY SetCardinality DEF S!Without
<1> HIDE DEF n
<1>3. others \subseteq Int /\ others \subseteq DOMAIN entries
  BY DEF SetTypes
<1>4. \A i, j \in 1..n : at[i] = at[j] => i = j
  <2> SUFFICES ASSUME NEW i \in 1..n, NEW j \in 1..n, at[i] = at[j] PROVE i = j
    OBVIOUS
  <2>1. at[i] \in Int /\ at[j] \in Int /\ i \in Int /\ j \in Int /\ DOMAIN at = 1..n
    BY <1>2, <1>3
  <2>2. (i < j => at[i] < at[j]) /\ (j < i => at[j] < at[i])
    BY <1>2, <2>1
  <2> QED
    BY <2>1, <2>2
<1>5. \A p \in others : \E i \in 1..n : at[i] = p
  <2>1. at \in Injection(1..n, others)
    BY <1>2, <1>4 DEF Injection, IsInjective
  <2>2. Cardinality(1..n) = n
    BY <1>1, FS_Interval
  <2>3. at \in Surjection(1..n, others)
    BY <1>1, <2>1, <2>2, FS_Injection DEF n
  <2> QED
    BY <2>3 DEF Surjection
<1>7. others \cap S!Named(entries, e, a) = {}
  OBVIOUS
<1>8. \A p \in DOMAIN entries \ S!Named(entries, e, a) : p \in others
  OBVIOUS
<1> HIDE DEF others
<1>6. t \in Seq(S!Entry) /\ Len(t) = n /\ \A i \in 1..n : t[i] = entries[at[i]]
  <2>1. DOMAIN at = 1..n /\ \A i \in 1..n : entries[at[i]] \in S!Entry
    BY <1>2, <1>3 DEF SetTypes
  <2> QED
    BY <1>1, <1>2, <2>1
<1>9. Places(at, t, entries)
  BY <1>2, <1>3, <1>4, <1>6 DEF Places
<1>10. \A i \in 1..Len(t) : at[i] \notin S!Named(entries, e, a)
  BY <1>2, <1>6, <1>7
<1> QED
  BY <1>5, <1>6, <1>8, <1>9, <1>10 DEF Left

-----------------------------------------------------------------------------
(* The entries that count *)

Counted(es, links) ==
    {i \in DOMAIN es :
        LET t == S!Target(es[i].id, links, deleted) IN t \notin deleted /\ links[t] = None}

LEMMA ActiveIsCounted ==
    ASSUME NEW es \in Seq(S!Entry), NEW links
    PROVE  /\ S!Active(es, links) = Cardinality(Counted(es, links)) /\ IsFiniteSet(Counted(es, links))
           /\ S!Active(es, links) \in Nat /\ S!Active(es, links) <= Len(es)
<1>1. S!Active(es, links) = Cardinality(Counted(es, links))
  BY SetCardinality DEF S!Active, Counted
<1>2. Counted(es, links) \in SUBSET (1..Len(es)) /\ Len(es) \in Nat
  BY DEF Counted
<1>3. IsFiniteSet(1..Len(es)) /\ Cardinality(1..Len(es)) = Len(es)
  <2>1. ASSUME NEW n \in Nat PROVE IsFiniteSet(1..n) /\ Cardinality(1..n) = n
    BY FS_Interval
  <2> QED
    BY <1>2, <2>1
<1> QED
  BY <1>1, <1>2, <1>3, FS_Subset, FS_CardinalityType

LEMMA ActiveIsCountedPrime ==
    ASSUME NEW es \in Seq(S!Entry)
    PROVE  /\ S!Active(es, merged)' = Cardinality(Counted(es, merged)') /\ IsFiniteSet(Counted(es, merged)')
           /\ S!Active(es, merged)' \in Nat /\ S!Active(es, merged)' <= Len(es)
<1>1. S!Active(es, merged)' = Cardinality(Counted(es, merged)')
  BY SetCardinality DEF S!Active, Counted
<1>2. Counted(es, merged)' \in SUBSET (1..Len(es)) /\ Len(es) \in Nat
  BY DEF Counted
<1>3. IsFiniteSet(1..Len(es)) /\ Cardinality(1..Len(es)) = Len(es)
  <2>1. ASSUME NEW n \in Nat PROVE IsFiniteSet(1..n) /\ Cardinality(1..n) = n
    BY FS_Interval
  <2> QED
    BY <1>2, <2>1
<1> QED
  BY <1>1, <1>2, <1>3, FS_Subset, FS_CardinalityType

\* The alias and the flags of an entry do not count.
LEMMA ActiveLooksAtIds ==
    ASSUME NEW es \in Seq(S!Entry), NEW fs \in Seq(S!Entry), DOMAIN es = DOMAIN fs,
           \A i \in DOMAIN es : es[i].id = fs[i].id, NEW links
    PROVE  S!Active(es, links) = S!Active(fs, links)
<1>1. Counted(es, links) = Counted(fs, links)
  BY DEF Counted
<1> QED
  BY <1>1, ActiveIsCounted

\* Of fewer entries, fewer count.
LEMMA ActiveOfFewer ==
    ASSUME NEW es \in Seq(S!Entry), NEW fs \in Seq(S!Entry), NEW links,
           NEW at, Places(at, fs, es)
    PROVE  S!Active(fs, links) <= S!Active(es, links)
<1> DEFINE places == Counted(fs, links)
           f == [i \in places |-> at[i]]
<1>1. places \subseteq 1..Len(fs) /\ \A i \in places : at[i] \in Counted(es, links)
  BY DEF Counted, Places
<1> HIDE DEF places
<1>2. f \in Injection(places, Counted(es, links))
  BY <1>1 DEF Injection, IsInjective, Places
<1>3. Cardinality(places) <= Cardinality(Counted(es, links))
  BY <1>2, FS_Injection, ActiveIsCounted
<1> QED
  BY <1>3, ActiveIsCounted DEF places

\* When emotes are deleted a path of merges ends sooner, and then at a deleted one.
LEMMA PathEndsSooner ==
    ASSUME NEW links, NEW before, NEW after, before \subseteq after, NEW e
    PROVE  \/ S!Target(e, links, after) = S!Target(e, links, before)
           \/ S!Target(e, links, after) \in after
<1> DEFINE Near(f, g) == f = g \/ f \in after
<1>1. \A f, g : Near(f, g) => Near(S!Led(f, links, after), S!Led(g, links, before))
  BY DEF S!Led
<1>2. Near(e, e)
  OBVIOUS
<1> HIDE DEF Near
<1>3. \A f, g : Near(f, g) => Near(S!LedThrice(f, links, after), S!LedThrice(g, links, before))
  BY <1>1 DEF S!LedThrice
<1>4. Near(S!Target(e, links, after), S!Target(e, links, before))
  BY <1>2, <1>3 DEF S!Target
<1> QED
  BY <1>4 DEF Near

LEMMA DeletedCountsLess ==
    ASSUME NEW es \in Seq(S!Entry), merged' = merged, deleted \subseteq deleted'
    PROVE  S!Active(es, merged)' <= S!Active(es, merged)
<1>1. Counted(es, merged)' \subseteq Counted(es, merged)
  <2> SUFFICES ASSUME NEW i \in Counted(es, merged)' PROVE i \in Counted(es, merged)
    OBVIOUS
  <2> DEFINE t == S!Target(es[i].id, merged, deleted')
  <2>1. i \in DOMAIN es /\ t \notin deleted' /\ merged[t] = None
    BY DEF Counted
  <2>2. t = S!Target(es[i].id, merged, deleted)
    BY <2>1, PathEndsSooner
  <2> HIDE DEF t
  <2> QED
    BY <2>1, <2>2 DEF Counted
<1>2. Cardinality(Counted(es, merged)') <= Cardinality(Counted(es, merged))
  BY <1>1, ActiveIsCounted, FS_Subset
<1> QED
  BY <1>2, ActiveIsCounted, ActiveIsCountedPrime

-----------------------------------------------------------------------------
(* Steps that leave the list of entries *)

LEMMA ListLeft ==
    ASSUME SetInv, entries' = entries, heard' = heard, deleted' = deleted, misled => misled'
    PROVE  S!NamesUnique' /\ S!ListenersFollow'
  BY DEF SetInv, S!NamesUnique, S!ListenersFollow, S!Keys, S!KeysAt, S!Key

LEMMA CapacityLeft ==
    ASSUME SetInv, entries' = entries, deleted' = deleted, merged' = merged, cap' = cap, grown' = grown
    PROVE  S!WithinCapacity'
<1>1. S!Active(entries, merged)' = S!Active(entries, merged)
  BY DEF S!Active
<1> QED
  BY <1>1 DEF SetInv, S!WithinCapacity

LEMMA CopyDone ==
    ASSUME SetTypes, NEW c \in Call, S!Done(c)
    PROVE  /\ copy' \in [Call -> {copy'[d] : d \in Call}]
           /\ \A d \in Call : copy'[d] # None => copy'[d].entries \in Seq(S!Entry)
  BY DEF SetTypes, S!Done

LEMMA LoadStep == ASSUME SetInv, NEW c \in Call, S!Load(c) PROVE SetInv'
<1> DEFINE new == [entries |-> entries, cap |-> cap, name |-> name]
<1>1. new.entries \in Seq(S!Entry)
  BY DEF SetInv, SetTypes
<1>2. copy' = [copy EXCEPT ![c] = new]
  BY DEF S!Load
<1> HIDE DEF new
<1>3. SetTypes'
  BY <1>1, <1>2 DEF SetInv, SetTypes, S!Load
<1> QED
  BY <1>3, ListLeft, CapacityLeft DEF SetInv, S!Load

LEMMA NoEntryStep ==
    ASSUME SetInv, NEW c \in Call, S!Done(c),
           UNCHANGED <<entries, cap, adding, deleted, merged, heard, misled, grown>>
    PROVE  SetInv'
<1>1. SetTypes'
  BY CopyDone DEF SetInv, SetTypes
<1> QED
  BY <1>1, ListLeft, CapacityLeft DEF SetInv

\* A capacity below the number of entries is refused: of the copy, which lists the entries.
LEMMA CapacityStep ==
    ASSUME SetInv, NEW c \in Call, NEW n \in 1..MaxCap, S!Ready(c), n >= Len(copy[c].entries), cap' = n,
           grown' = (grown \/ S!Outdated(c)), S!Done(c), UNCHANGED <<entries, adding, deleted, merged, heard, misled>>
    PROVE  SetInv'
<1>1. n \in Nat
  BY CapAssumption
<1>2. SetTypes'
  BY <1>1, CopyDone DEF SetInv, SetTypes
<1>3. S!WithinCapacity'
  <2>1. CASE grown \/ S!Outdated(c)
    BY <2>1 DEF S!WithinCapacity
  <2>2. CASE ~S!Outdated(c)
    <3>1. copy[c].entries \in Seq(S!Entry) /\ entries \in Seq(S!Entry)
      BY DEF S!Ready, SetInv, SetTypes
    <3>2. Len(copy[c].entries) = Len(entries)
      BY <2>2, <3>1, SameListing DEF S!Outdated
    <3>3. S!Active(entries, merged)' = S!Active(entries, merged)
      BY DEF S!Active
    <3>4. /\ S!Active(entries, merged) \in Nat /\ S!Active(entries, merged) <= Len(entries)
          /\ Len(entries) \in Nat
      BY <3>1, ActiveIsCounted
    <3>5. S!Active(entries, merged)' <= cap'
      BY <1>1, <3>2, <3>3, <3>4
    <3> QED
      BY <3>5 DEF S!WithinCapacity
  <2> QED
    BY <2>1, <2>2
<1> QED
  BY <1>2, <1>3, ListLeft DEF SetInv

LEMMA AddReadsStep ==
    ASSUME SetInv, NEW e \in Emote, NEW a \in Alias, NEW wide \in BOOLEAN, S!AddReads(e, a, wide)
    PROVE  SetInv'
<1>1. SetTypes'
  BY DEF SetInv, SetTypes, S!AddReads, S!Entry
<1> QED
  BY <1>1, ListLeft, CapacityLeft DEF SetInv, S!AddReads

LEMMA AddFailsStep == ASSUME SetInv, S!AddFails PROVE SetInv'
<1>1. SetTypes'
  BY DEF SetInv, SetTypes, S!AddFails
<1> QED
  BY <1>1, ListLeft, CapacityLeft DEF SetInv, S!AddFails

LEMMA EmoteDeletedStep == ASSUME SetInv, NEW e \in Emote, S!EmoteDeleted(e) PROVE SetInv'
<1>1. SetTypes' /\ S!NamesUnique'
  BY DEF SetInv, SetTypes, S!NamesUnique, S!EmoteDeleted
<1>2. S!ListenersFollow'
  BY DEF SetInv, S!ListenersFollow, S!EmoteDeleted, S!Keys, S!KeysAt, S!Key
<1>3. S!WithinCapacity'
  <2>1. /\ entries \in Seq(S!Entry) /\ merged' = merged /\ deleted \subseteq deleted' /\ entries' = entries
        /\ cap' = cap /\ cap \in Nat /\ grown' = grown
    BY DEF SetInv, SetTypes, S!EmoteDeleted
  <2>2. /\ S!Active(entries, merged)' <= S!Active(entries, merged)
        /\ S!Active(entries, merged) \in Nat
    BY <2>1, DeletedCountsLess, ActiveIsCounted DEF S!Active
  <2>3. S!Active(entries, merged)' \in Nat
    BY <2>1, ActiveIsCountedPrime DEF S!Active
  <2>4. S!Active(entries, merged) <= cap => S!Active(entries, merged)' <= cap'
    BY <2>1, <2>2, <2>3
  <2> QED
    BY <2>1, <2>4 DEF SetInv, S!WithinCapacity
<1> QED
  BY <1>1, <1>2, <1>3 DEF SetInv

LEMMA EmoteMergedStep ==
    ASSUME SetInv, NEW e \in Emote, NEW target \in Emote, S!EmoteMerged(e, target)
    PROVE  SetInv'
<1>1. SetTypes' /\ S!NamesUnique' /\ S!ListenersFollow'
  BY ListLeft DEF SetInv, SetTypes, S!EmoteMerged
<1>2. S!WithinCapacity'
  <2>1. /\ entries \in Seq(S!Entry) /\ entries' = entries /\ deleted' = deleted /\ cap' = cap /\ cap \in Nat
        /\ grown' = (grown \/ S!Active(entries, merged') > S!Active(entries, merged))
    BY DEF SetInv, SetTypes, S!EmoteMerged
  <2>2. S!Active(entries, merged)' = S!Active(entries, merged')
    BY <2>1 DEF S!Active
  <2>3. S!Active(entries, merged') \in Nat /\ S!Active(entries, merged) \in Nat
    BY <2>1, ActiveIsCounted
  <2>4. CASE S!Active(entries, merged') > S!Active(entries, merged) \/ grown
    BY <2>1, <2>4 DEF S!WithinCapacity
  <2>5. CASE ~(S!Active(entries, merged') > S!Active(entries, merged)) /\ ~grown
    <3>1. S!Active(entries, merged) <= cap
      BY <2>5 DEF SetInv, S!WithinCapacity
    <3>2. S!Active(entries, merged)' <= cap'
      BY <2>1, <2>2, <2>3, <2>5, <3>1
    <3> QED
      BY <3>2 DEF S!WithinCapacity
  <2> QED
    BY <2>4, <2>5
<1> QED
  BY <1>1, <1>2 DEF SetInv

LEMMA SetDeleteStep == ASSUME SetInv, NEW c \in Call, S!Delete(c) PROVE SetInv'
<1>1. entries' = <<>> /\ heard' = {} /\ cap' = cap /\ cap \in Nat /\ entries' \in Seq(S!Entry)
  BY DEF S!Delete, SetInv, SetTypes
<1>2. SetTypes'
  BY <1>1, CopyDone DEF SetInv, SetTypes, S!Delete
<1>3. S!NamesUnique' /\ S!ListenersFollow'
  BY <1>1 DEF S!NamesUnique, S!ListenersFollow, S!Keys, S!KeysAt
<1>4. S!WithinCapacity'
  <2>1. S!Active(<<>>, merged)' \in Nat /\ S!Active(<<>>, merged)' <= 0
    <3>1. <<>> \in Seq(S!Entry) /\ Len(<<>>) = 0
      OBVIOUS
    <3>2. S!Active(<<>>, merged)' <= Len(<<>>)
      BY <3>1, ActiveIsCountedPrime
    <3>3. S!Active(<<>>, merged)' \in Nat
      BY <3>1, ActiveIsCountedPrime
    <3> QED
      BY <3>1, <3>2, <3>3
  <2>2. S!Active(entries, merged)' = S!Active(<<>>, merged)'
    BY <1>1 DEF S!Active
  <2>3. S!Active(entries, merged)' <= cap'
    BY <1>1, <2>1, <2>2
  <2> QED
    BY <2>3 DEF S!WithinCapacity
<1> QED
  BY <1>2, <1>3, <1>4 DEF SetInv

-----------------------------------------------------------------------------
(* Entries come and go *)

LEMMA AddWritesStep == ASSUME SetInv, S!AddWrites PROVE SetInv'
<1> DEFINE new == adding
           i == S!FirstAs(entries, new.alias)
<1>1. /\ new \in S!Entry /\ entries \in Seq(S!Entry) /\ entries' = S!With(new) /\ ~S!Conflicts(new)
      /\ heard' = heard \cup {S!Key(new)} /\ adding' = None /\ cap' = cap /\ cap \in Nat /\ copy' = copy
      /\ deleted' = deleted /\ misled' = misled /\ S!Active(entries', merged) <= cap /\ merged' = merged
  BY DEF S!AddWrites, SetInv, SetTypes
<1>2. S!WithinCapacity'
  <2>1. S!Active(entries, merged)' = S!Active(entries', merged)
    BY <1>1 DEF S!Active
  <2> QED
    BY <1>1, <2>1 DEF S!WithinCapacity
<1> HIDE DEF new
<1>3. CASE i = 0
  <2>1. entries' = Append(entries, new) /\ \A j \in DOMAIN entries : entries[j].alias # new.alias
    BY <1>1, <1>3, FirstEntry DEF S!With
  <2>2. /\ entries' \in Seq(S!Entry) /\ DOMAIN entries' = DOMAIN entries \cup {Len(entries) + 1}
        /\ entries'[Len(entries) + 1] = new
        /\ \A j \in DOMAIN entries : entries'[j] = entries[j] /\ j # Len(entries) + 1
    BY <1>1, <2>1
  <2>3. S!NamesUnique'
    BY <1>1, <2>1, <2>2 DEF SetInv, S!NamesUnique
  <2>4. S!Keys(entries') = S!Keys(entries) \cup {S!Key(new)}
    <3> HIDE DEF S!Key
    <3> QED
      BY <2>2 DEF S!Keys, S!KeysAt
  <2>5. S!Keys(entries)' = S!Keys(entries')
    BY DEF S!Keys, S!KeysAt, S!Key
  <2>6. S!ListenersFollow'
    BY <1>1, <2>4, <2>5 DEF SetInv, S!ListenersFollow
  <2> QED
    BY <1>1, <1>2, <2>2, <2>3, <2>6 DEF SetInv, SetTypes
<1>4. CASE i # 0
  <2>1. /\ i \in DOMAIN entries /\ entries[i].alias = new.alias /\ entries[i].id \in deleted
        /\ entries' = [entries EXCEPT ![i] = new]
    BY <1>1, <1>4, FirstEntry DEF S!With, S!Conflicts
  <2> HIDE DEF i
  <2>2. PICK k \in DOMAIN entries : k = i
    BY <2>1
  <2>3. /\ entries' \in Seq(S!Entry) /\ DOMAIN entries' = DOMAIN entries
        /\ \A j \in DOMAIN entries : entries'[j] = IF j = k THEN new ELSE entries[j]
    BY <1>1, <2>1, <2>2
  <2>4. S!NamesUnique'
    BY <1>1, <2>1, <2>2, <2>3 DEF SetInv, S!NamesUnique
  <2>5. Shown(S!Keys(entries')) = Shown(S!Keys(entries) \cup {S!Key(new)})
    <3>1. S!Keys(entries') \subseteq S!Keys(entries) \cup {S!Key(new)}
      BY <2>3 DEF S!Keys, S!KeysAt
    <3>2. S!Key(new) \in S!Keys(entries')
      BY <2>3 DEF S!Keys, S!KeysAt
    <3>3. ASSUME NEW j \in DOMAIN entries, S!Key(entries[j])[1] \notin deleted
          PROVE  S!Key(entries[j]) \in S!Keys(entries')
      <4>1. j # k
        BY <2>1, <2>2, <3>3 DEF S!Key
      <4> QED
        BY <2>3, <4>1 DEF S!Keys, S!KeysAt
    <3> QED
      BY <3>1, <3>2, <3>3 DEF Shown, S!Keys, S!KeysAt
  <2>6. S!Keys(entries)' = S!Keys(entries')
    BY DEF S!Keys, S!KeysAt, S!Key
  <2>7. S!ListenersFollow'
    BY <1>1, <2>5, <2>6 DEF SetInv, S!ListenersFollow, Shown
  <2> QED
    BY <1>1, <1>2, <2>3, <2>4, <2>7 DEF SetInv, SetTypes
<1> QED
  BY <1>3, <1>4

\* What is pulled, of the entries there are, is what the listeners are told is gone.
LEMMA PullStep ==
    ASSUME SetInv, NEW e, NEW a, entries' \in S!Without(e, a), UNCHANGED <<cap, adding, deleted, merged, grown>>,
           copy' \in [Call -> {copy'[c] : c \in Call}],
           \A c \in Call : copy'[c] # None => copy'[c].entries \in Seq(S!Entry),
           misled => misled',
           misled' \/ heard' = heard \ S!KeysAt(entries, S!Named(entries, e, a))
    PROVE  SetInv'
<1> DEFINE named == S!Named(entries, e, a)
<1>0. PICK t \in S!Without(e, a) : entries' = t
  OBVIOUS
<1>1. entries \in Seq(S!Entry) /\ cap \in Nat
  BY DEF SetInv, SetTypes
<1>2. Left(t, named)
  <2>1. SetTypes
    BY DEF SetInv
  <2> QED
    BY <2>1, PulledEntries
<1> HIDE DEF named
<1>3. PICK at : /\ Places(at, t, entries)
                /\ \A i \in 1..Len(t) : at[i] \notin named
                /\ \A p \in DOMAIN entries \ named : \E i \in 1..Len(t) : at[i] = p
  BY <1>2 DEF Left
<1>4. SetTypes'
  BY <1>0, <1>1, <1>2 DEF SetInv, SetTypes, Left
<1>5. t \in Seq(S!Entry) /\ DOMAIN t = 1..Len(t)
  BY <1>2 DEF Left
<1>6. S!NamesUnique'
  BY <1>0, <1>3, <1>5 DEF SetInv, S!NamesUnique, Places
<1>7. S!WithinCapacity'
  <2>2. S!Active(t, merged) <= S!Active(entries, merged)
    BY <1>1, <1>3, <1>5, ActiveOfFewer
  <2>3. S!Active(t, merged) \in Nat /\ S!Active(entries, merged) \in Nat
    BY <1>1, <1>5, ActiveIsCounted
  <2>4. S!Active(entries, merged)' = S!Active(t, merged)
    BY <1>0 DEF S!Active
  <2>5. S!Active(entries, merged) <= cap => S!Active(entries, merged)' <= cap'
    BY <1>1, <2>2, <2>3, <2>4
  <2> QED
    BY <2>5 DEF SetInv, S!WithinCapacity
<1>8. S!ListenersFollow'
  <2> SUFFICES ASSUME ~misled' PROVE Shown(heard') = Shown(S!Keys(t))
    BY <1>0 DEF S!ListenersFollow, Shown, S!Keys, S!KeysAt, S!Key
  <2>1. heard' = heard \ S!KeysAt(entries, named) /\ Shown(heard) = Shown(S!Keys(entries))
    BY DEF SetInv, S!ListenersFollow, Shown, named
  <2>2. ASSUME NEW i \in DOMAIN t
        PROVE  S!Key(t[i]) \in S!Keys(entries) \ S!KeysAt(entries, named)
    <3>1. at[i] \in DOMAIN entries \ named /\ t[i] = entries[at[i]]
      BY <1>3, <1>5 DEF Places
    <3>2. ASSUME NEW j \in named PROVE S!Key(entries[j]) # S!Key(entries[at[i]])
      <4>1. entries[j].id = e /\ a \in {None, entries[j].alias}
        BY DEF named, S!Named
      <4>2. entries[at[i]].id # e \/ a \notin {None, entries[at[i]].alias}
        BY <3>1 DEF named, S!Named
      <4> QED
        BY <4>1, <4>2 DEF S!Key
    <3> HIDE DEF S!Key
    <3> QED
      BY <3>1, <3>2 DEF S!Keys, S!KeysAt
  <2>3. ASSUME NEW k \in S!Keys(entries) \ S!KeysAt(entries, named) PROVE k \in S!Keys(t)
    <3>1. PICK j \in DOMAIN entries : k = S!Key(entries[j])
      BY DEF S!Keys, S!KeysAt
    <3>2. j \notin named
      BY <3>1 DEF S!KeysAt
    <3>3. PICK i \in 1..Len(t) : at[i] = j
      BY <1>3, <3>2
    <3> QED
      BY <1>3, <1>5, <3>1, <3>3 DEF S!Keys, S!KeysAt, Places
  <2>4. S!Keys(t) = S!Keys(entries) \ S!KeysAt(entries, named)
    <3>1. \A k \in S!Keys(t) : \E i \in DOMAIN t : k = S!Key(t[i])
      BY DEF S!Keys, S!KeysAt
    <3> QED
      BY <2>2, <2>3, <3>1
  <2> QED
    BY <2>1, <2>4 DEF Shown
<1> QED
  BY <1>4, <1>6, <1>7, <1>8 DEF SetInv

LEMMA RemoveEmoteStep ==
    ASSUME SetInv, NEW c \in Call, NEW e, NEW a, S!RemoveEmote(c, e, a)
    PROVE  SetInv'
<1>1. /\ entries' \in S!Without(e, a) /\ UNCHANGED <<cap, adding, deleted, merged, grown>> /\ S!Done(c)
      /\ heard' = heard \ S!KeysAt(copy[c].entries, S!Named(copy[c].entries, e, a))
      /\ misled' = (misled \/ S!Outdated(c)) /\ copy[c] # None
  BY DEF S!RemoveEmote, S!Ready
<1>2. misled' \/ heard' = heard \ S!KeysAt(entries, S!Named(entries, e, a))
  <2>1. CASE S!Outdated(c)
    BY <1>1, <2>1
  <2>2. CASE ~S!Outdated(c)
    <3> DEFINE old == copy[c].entries
    <3>1. old \in Seq(S!Entry) /\ entries \in Seq(S!Entry) /\ S!Listing(old) = S!Listing(entries)
      BY <1>1, <2>2 DEF SetInv, SetTypes, S!Outdated
    <3> HIDE DEF old
    <3>2. /\ \A i \in DOMAIN old : S!Key(old[i]) = S!Key(entries[i])
          /\ S!Named(old, e, a) = S!Named(entries, e, a) /\ S!Named(old, e, a) \subseteq DOMAIN old
      BY <3>1, SameListing DEF S!Named
    <3>3. S!KeysAt(old, S!Named(old, e, a)) = S!KeysAt(entries, S!Named(entries, e, a))
      BY <3>2 DEF S!KeysAt
    <3> QED
      BY <1>1, <3>3 DEF old
  <2> QED
    BY <2>1, <2>2
<1> QED
  BY <1>1, <1>2, PullStep, CopyDone DEF SetInv

LEMMA EmoteRemoveStep == ASSUME SetInv, NEW e, S!EmoteRemove(e) PROVE SetInv'
<1>1. /\ copy' \in [Call -> {copy'[c] : c \in Call}]
      /\ \A c \in Call : copy'[c] # None => copy'[c].entries \in Seq(S!Entry)
  BY DEF S!EmoteRemove, SetInv, SetTypes
<1>2. /\ entries' \in S!Without(e, None) /\ UNCHANGED <<cap, adding, deleted, merged, misled, grown>>
      /\ heard' = heard \ S!KeysAt(entries, S!Named(entries, e, None))
  BY DEF S!EmoteRemove
<1> QED
  BY <1>1, <1>2, PullStep

-----------------------------------------------------------------------------
(* Entries change *)

\* An entry that changes keeps its emote, and counts as before.
LEMMA ChangedEntry ==
    ASSUME SetInv, NEW i \in DOMAIN entries, NEW new \in S!Entry, new.id = entries[i].id,
           entries' = [entries EXCEPT ![i] = new], UNCHANGED <<cap, adding, deleted, merged, grown>>,
           copy' \in [Call -> {copy'[c] : c \in Call}],
           \A c \in Call : copy'[c] # None => copy'[c].entries \in Seq(S!Entry)
    PROVE  /\ SetTypes' /\ S!WithinCapacity'
           /\ entries' \in Seq(S!Entry) /\ DOMAIN entries' = DOMAIN entries
           /\ \A j \in DOMAIN entries : entries'[j] = IF j = i THEN new ELSE entries[j]
           /\ \A j \in DOMAIN entries : entries'[j].id = entries[j].id
<1>1. entries \in Seq(S!Entry)
  BY DEF SetInv, SetTypes
<1>2. /\ entries' \in Seq(S!Entry) /\ DOMAIN entries' = DOMAIN entries
      /\ \A j \in DOMAIN entries : entries'[j] = IF j = i THEN new ELSE entries[j]
  BY <1>1
<1>3. \A j \in DOMAIN entries : entries'[j].id = entries[j].id
  BY <1>2
<1>4. SetTypes'
  BY <1>2 DEF SetInv, SetTypes
<1>5. S!Active(entries, merged)' = S!Active(entries, merged)
  <2>1. PICK t \in Seq(S!Entry) : t = entries'
    BY <1>2
  <2>2. S!Active(t, merged) = S!Active(entries, merged)
    BY <1>1, <1>2, <1>3, <2>1, ActiveLooksAtIds
  <2>3. S!Active(entries, merged)' = S!Active(t, merged)
    BY <2>1 DEF S!Active
  <2> QED
    BY <2>2, <2>3
<1>6. S!WithinCapacity'
  BY <1>5 DEF SetInv, S!WithinCapacity
<1> QED
  BY <1>2, <1>3, <1>4, <1>6

LEMMA EntryKeepsId ==
    ASSUME NEW x \in S!Entry
    PROVE  /\ \A a \in Alias : LET new == [x EXCEPT !.alias = a]
                              IN  new \in S!Entry /\ new.id = x.id /\ new.alias = a
           /\ \A wide \in BOOLEAN : LET new == [x EXCEPT !.wide = wide]
                                   IN  new \in S!Entry /\ new.id = x.id /\ new.alias = x.alias
  BY DEF S!Entry

\* Neither the names nor the listeners know of the flags.
LEMMA FlagsStep ==
    ASSUME SetInv, NEW c \in Call, NEW e, NEW a, NEW wide \in BOOLEAN, S!UpdateEmoteFlags(c, e, a, wide)
    PROVE  SetInv'
<1>1. PICK i \in S!Positions(e, a) : entries' = [entries EXCEPT ![i].wide = wide]
  BY DEF S!UpdateEmoteFlags
<1>2. i \in DOMAIN entries /\ entries \in Seq(S!Entry)
  BY FirstEntry DEF SetInv, SetTypes, S!Positions
<1> DEFINE new == [entries[i] EXCEPT !.wide = wide]
<1>3. new \in S!Entry /\ new.id = entries[i].id /\ new.alias = entries[i].alias
  <2>1. entries[i] \in S!Entry
    BY <1>2
  <2> QED
    BY <2>1, EntryKeepsId
<1>4. entries' = [entries EXCEPT ![i] = new]
  BY <1>1
<1> HIDE DEF new
<1>5. UNCHANGED <<cap, adding, deleted, merged, grown, heard, misled>> /\ S!Done(c)
  BY DEF S!UpdateEmoteFlags
<1>6. /\ SetTypes' /\ S!WithinCapacity' /\ DOMAIN entries' = DOMAIN entries
      /\ \A j \in DOMAIN entries : entries'[j] = IF j = i THEN new ELSE entries[j]
  BY <1>2, <1>3, <1>4, <1>5, ChangedEntry, CopyDone DEF SetInv
<1>7. \A j \in DOMAIN entries : entries'[j].id = entries[j].id /\ entries'[j].alias = entries[j].alias
  BY <1>3, <1>6
<1>8. S!NamesUnique'
  BY <1>5, <1>6, <1>7 DEF SetInv, S!NamesUnique
<1>9. S!Keys(entries)' = S!Keys(entries)
  BY <1>6, <1>7 DEF S!Keys, S!KeysAt, S!Key
<1>10. S!ListenersFollow'
  BY <1>5, <1>9 DEF SetInv, S!ListenersFollow
<1> QED
  BY <1>6, <1>8, <1>10 DEF SetInv

\* The first entry of an emote gets an alias that is free; a mutation that was misled may
\* have taken another one.
LEMMA RenameStep ==
    ASSUME SetInv, NEW e, NEW i \in DOMAIN entries, NEW alias \in Alias, NEW old,
           entries' = [entries EXCEPT ![i].alias = alias], UNCHANGED <<cap, adding, deleted, merged, grown>>,
           copy' \in [Call -> {copy'[c] : c \in Call}],
           \A c \in Call : copy'[c] # None => copy'[c].entries \in Seq(S!Entry),
           misled => misled', heard' = S!Renamed(e, old, entries'),
           misled' \/ (/\ i = S!FirstOf(entries, e) /\ entries[i].id = e /\ entries[i].alias = old
                       /\ \A j \in DOMAIN entries : entries[j].alias # alias)
    PROVE  SetInv'
<1> DEFINE new == [entries[i] EXCEPT !.alias = alias]
<1>1. new \in S!Entry /\ new.id = entries[i].id /\ new.alias = alias /\ entries \in Seq(S!Entry)
  <2>1. entries \in Seq(S!Entry)
    BY DEF SetInv, SetTypes
  <2>2. entries[i] \in S!Entry
    BY <2>1
  <2> QED
    BY <2>1, <2>2, EntryKeepsId
<1>2. entries' = [entries EXCEPT ![i] = new]
  OBVIOUS
<1> HIDE DEF new
<1>3. /\ SetTypes' /\ S!WithinCapacity' /\ entries' \in Seq(S!Entry) /\ DOMAIN entries' = DOMAIN entries
      /\ \A j \in DOMAIN entries : entries'[j] = IF j = i THEN new ELSE entries[j]
      /\ \A j \in DOMAIN entries : entries'[j].id = entries[j].id
  BY <1>1, <1>2, ChangedEntry
<1>4. CASE misled'
  BY <1>3, <1>4 DEF SetInv, S!NamesUnique, S!ListenersFollow
<1>5. CASE ~misled'
  <2>1. /\ i = S!FirstOf(entries, e) /\ entries[i].id = e /\ entries[i].alias = old
        /\ \A j \in DOMAIN entries : entries[j].alias # alias
        /\ \A j, k \in DOMAIN entries : entries[j].alias = entries[k].alias => j = k
        /\ Shown(heard) = Shown(S!Keys(entries))
    BY <1>5 DEF SetInv, S!NamesUnique, S!ListenersFollow, Shown
  <2>2. S!NamesUnique'
    BY <1>1, <1>3, <2>1 DEF S!NamesUnique
  <2>3. S!FirstOf(entries', e) = i
    <3>1. {j \in 1..Len(entries') : entries'[j].id = e} = {j \in 1..Len(entries) : entries[j].id = e}
      BY <1>1, <1>3
    <3> QED
      BY <2>1, <3>1 DEF S!FirstOf, S!SelectInSeq
  <2>4. heard' = (heard \ {<<e, old>>}) \cup {<<e, alias>>}
    BY <1>1, <1>3, <2>1, <2>3 DEF S!Renamed, S!Key
  <2>5. S!Keys(entries') = (S!Keys(entries) \ {<<e, old>>}) \cup {<<e, alias>>}
    <3>1. /\ \A k : k \in S!Keys(entries) <=> \E j \in DOMAIN entries : k = S!Key(entries[j])
          /\ \A k : k \in S!Keys(entries') <=> \E j \in DOMAIN entries : k = S!Key(entries'[j])
      BY <1>3 DEF S!Keys, S!KeysAt
    <3>2. S!Key(entries'[i]) = <<e, alias>>
      BY <1>1, <1>3, <2>1 DEF S!Key
    <3>3. \A j \in DOMAIN entries \ {i} : S!Key(entries'[j]) = S!Key(entries[j]) /\ S!Key(entries[j]) # <<e, old>>
      BY <1>3, <2>1 DEF S!Key
    <3>4. S!Key(entries[i]) = <<e, old>>
      BY <2>1 DEF S!Key
    <3>5. ASSUME NEW k \in S!Keys(entries') PROVE k \in (S!Keys(entries) \ {<<e, old>>}) \cup {<<e, alias>>}
      BY <3>1, <3>2, <3>3, <3>5
    <3>6. ASSUME NEW k \in S!Keys(entries) \ {<<e, old>>} PROVE k \in S!Keys(entries')
      <4>1. PICK j \in DOMAIN entries : k = S!Key(entries[j])
        BY <3>1, <3>6
      <4>2. j \in DOMAIN entries \ {i} /\ S!Key(entries'[j]) = k
        BY <3>3, <3>4, <3>6, <4>1
      <4> QED
        BY <3>1, <4>1, <4>2
    <3>7. <<e, alias>> \in S!Keys(entries')
      BY <3>1, <3>2
    <3> QED
      BY <3>5, <3>6, <3>7
  <2>6. S!Keys(entries)' = S!Keys(entries')
    BY DEF S!Keys, S!KeysAt, S!Key
  <2>7. S!ListenersFollow'
    BY <2>1, <2>4, <2>5, <2>6 DEF S!ListenersFollow, Shown
  <2> QED
    BY <1>3, <2>2, <2>7 DEF SetInv
<1> QED
  BY <1>4, <1>5

LEMMA EmoteUpdateStep ==
    ASSUME SetInv, NEW e \in Emote, NEW alias \in Alias, S!EmoteUpdate(e, alias)
    PROVE  SetInv'
<1> DEFINE i == S!FirstOf(entries, e)
<1>1. entries \in Seq(S!Entry)
  BY DEF SetInv, SetTypes
<1>2. /\ i \in DOMAIN entries /\ entries[i].id = e /\ \A j \in DOMAIN entries : entries[j].alias # alias
  BY <1>1, FirstEntry DEF S!EmoteUpdate
<1>3. /\ entries' = [entries EXCEPT ![i].alias = alias] /\ heard' = S!Renamed(e, entries[i].alias, entries')
      /\ UNCHANGED <<cap, adding, deleted, merged, grown, misled, copy>>
  BY DEF S!EmoteUpdate
<1>4. /\ copy' \in [Call -> {copy'[c] : c \in Call}]
      /\ \A c \in Call : copy'[c] # None => copy'[c].entries \in Seq(S!Entry)
  BY <1>3 DEF SetInv, SetTypes
<1> QED
  BY <1>2, <1>3, <1>4, RenameStep

\* What was found in the copy is the first entry of the emote, unless it has several.
LEMMA AliasStep ==
    ASSUME SetInv, NEW c \in Call, NEW e \in Emote, NEW a, NEW alias \in Alias,
           S!UpdateEmoteAlias(c, e, a, alias)
    PROVE  SetInv'
<1> DEFINE fs == copy[c].entries
           old == fs[S!Min(S!Named(fs, e, a))].alias
<1>1. /\ copy[c] # None /\ S!Named(fs, e, a) # {} /\ S!FirstAs(fs, alias) = 0
      /\ heard' = S!Renamed(e, old, entries')
      /\ misled' = (misled \/ S!Outdated(c) \/ (a # None /\ S!Cardinality(S!Named(entries, e, None)) > 1))
      /\ UNCHANGED <<cap, adding, deleted, merged, grown>> /\ S!Done(c)
  BY DEF S!UpdateEmoteAlias, S!Ready
<1>2. PICK i \in S!Positions(e, a) : entries' = [entries EXCEPT ![i].alias = alias]
  BY DEF S!UpdateEmoteAlias
<1>3. entries \in Seq(S!Entry) /\ fs \in Seq(S!Entry)
  BY <1>1 DEF SetInv, SetTypes
<1>4. i \in DOMAIN entries
  BY <1>3, FirstEntry DEF S!Positions
<1> HIDE DEF fs
<1>5. misled' \/ (/\ i = S!FirstOf(entries, e) /\ entries[i].id = e /\ entries[i].alias = old
                  /\ \A j \in DOMAIN entries : entries[j].alias # alias)
  <2> SUFFICES ASSUME ~misled'
               PROVE  /\ i = S!FirstOf(entries, e) /\ entries[i].id = e /\ entries[i].alias = old
                      /\ \A j \in DOMAIN entries : entries[j].alias # alias
    OBVIOUS
  <2>1. ~misled /\ S!Listing(fs) = S!Listing(entries) /\ (a = None \/ ~(Cardinality(S!Named(entries, e, None)) > 1))
    BY <1>1, SetCardinality DEF S!Outdated, fs
  <2>2. /\ DOMAIN fs = DOMAIN entries /\ S!Named(fs, e, a) = S!Named(entries, e, a)
        /\ \A j \in DOMAIN fs : fs[j].alias = entries[j].alias
    BY <1>3, <2>1, SameListing
  <2>3. \A j \in DOMAIN entries : entries[j].alias # alias
    BY <1>1, <1>3, <2>2, FirstEntry
  <2> DEFINE named == S!Named(entries, e, a)
             all == S!Named(entries, e, None)
             m == S!Min(named)
  <2>4. m \in named /\ named \subseteq all
    BY <1>1, <1>3, <2>2, NamedIsThere
  <2>5. m \in DOMAIN entries /\ entries[m].id = e /\ entries[m].alias = old /\ a \in {None, entries[m].alias}
    BY <2>2, <2>4 DEF S!Named
  <2>6. S!FirstOf(entries, e) = S!Min(all) /\ S!Min(all) \in all
    BY <1>3, <2>4, FirstNamed, NamedIsThere
  <2> HIDE DEF m, old
  <2>7. m = S!FirstOf(entries, e)
    <3>1. CASE a = None
      BY <2>6, <3>1 DEF m
    <3>2. CASE a # None
      <4>1. IsFiniteSet(all)
        <5>1. all \in SUBSET (1..Len(entries)) /\ Len(entries) \in Nat
          BY <1>3 DEF S!Named
        <5>2. IsFiniteSet(1..Len(entries))
          BY <5>1, FS_Interval
        <5> QED
          BY <5>1, <5>2, FS_Subset
      <4> HIDE DEF all, named
      <4>2. Cardinality(all) \in Nat /\ Cardinality(all) # 0
        BY <4>1, <2>6, FS_CardinalityType, FS_EmptySet
      <4>3. Cardinality(all) = 1
        BY <2>1, <3>2, <4>2 DEF all
      <4>4. PICK x : all = {x}
        BY <4>1, <4>3, FS_Singleton
      <4> QED
        BY <2>4, <2>6, <4>4
    <3> QED
      BY <3>1, <3>2
  <2>8. i = m
    <3>1. CASE a = None
      BY <1>2, <2>7, <3>1 DEF S!Positions
    <3>2. CASE a # None
      <4>1. i \in {S!FirstOf(entries, e), S!FirstAs(entries, a)}
        BY <1>2, <3>2 DEF S!Positions
      <4>2. S!FirstAs(entries, a) \in DOMAIN entries /\ entries[S!FirstAs(entries, a)].alias = a
        BY <1>3, <2>5, <3>2, FirstEntry
      <4>3. S!FirstAs(entries, a) = m
        BY <2>1, <2>5, <3>2, <4>2 DEF SetInv, S!NamesUnique
      <4> QED
        BY <2>7, <4>1, <4>3
    <3> QED
      BY <3>1, <3>2
  <2> QED
    BY <2>3, <2>5, <2>7, <2>8
<1>6. misled => misled'
  BY <1>1
<1> HIDE DEF old
<1>7. /\ copy' \in [Call -> {copy'[d] : d \in Call}]
      /\ \A d \in Call : copy'[d] # None => copy'[d].entries \in Seq(S!Entry)
  BY <1>1, CopyDone DEF SetInv
<1> QED
  BY <1>1, <1>2, <1>4, <1>5, <1>6, <1>7, RenameStep

-----------------------------------------------------------------------------

LEMMA SetStep == SetInv /\ [S!Next]_(S!vars) => SetInv'
<1> SUFFICES ASSUME SetInv, [S!Next]_(S!vars) PROVE SetInv'
  OBVIOUS
<1>1. ASSUME NEW c \in Call, S!Leave(c) PROVE SetInv'
  BY <1>1, NoEntryStep DEF S!Leave
<1>2. ASSUME NEW c \in Call, NEW n \in Name, S!SetName(c, n) PROVE SetInv'
  BY <1>2, NoEntryStep DEF S!SetName
<1>3. ASSUME NEW c \in Call, NEW n \in 1..MaxCap, S!SetCapacity(c, n) PROVE SetInv'
  BY <1>3, CapacityStep DEF S!SetCapacity
<1>4. ASSUME NEW c \in Call, NEW n \in 1..MaxCap, NEW m \in Name, S!Update(c, n, m) PROVE SetInv'
  BY <1>4, CapacityStep DEF S!Update
<1>5. CASE UNCHANGED S!vars
  <2>1. UNCHANGED <<entries, cap, copy, adding, deleted, merged, heard, misled, grown>>
    BY <1>5 DEF S!vars
  <2>2. SetTypes'
    BY <2>1 DEF SetInv, SetTypes
  <2> QED
    BY <2>1, <2>2, ListLeft, CapacityLeft DEF SetInv
<1> QED
  BY <1>1, <1>2, <1>3, <1>4, <1>5, LoadStep, SetDeleteStep, RemoveEmoteStep, AliasStep, FlagsStep, EmoteRemoveStep,
     EmoteDeletedStep, EmoteUpdateStep, AddReadsStep, AddWritesStep, AddFailsStep, EmoteMergedStep
     DEF S!Next

LEMMA SetBegins == S!Init => SetInv
<1> SUFFICES ASSUME S!Init PROVE SetInv
  OBVIOUS
<1>1. entries = <<>> /\ heard = {} /\ cap \in Nat /\ entries \in Seq(S!Entry) /\ Len(entries) = 0
  BY CapAssumption DEF S!Init
<1>2. SetTypes
  BY <1>1 DEF S!Init, SetTypes
<1>3. S!NamesUnique /\ S!ListenersFollow
  BY <1>1 DEF S!NamesUnique, S!ListenersFollow, S!Keys, S!KeysAt
<1>4. S!Active(entries, merged) \in Nat /\ S!Active(entries, merged) <= 0
  BY <1>1, ActiveIsCounted
<1>5. S!WithinCapacity
  BY <1>1, <1>4 DEF S!WithinCapacity
<1> QED
  BY <1>2, <1>3, <1>5 DEF SetInv

\* No two entries of a set have one alias, those that count are within its capacity and the
\* listeners know them, whatever the mutations of both APIs do between the loading of the set
\* and the mutex, unless one was decided on a copy that no longer lists the entries.
THEOREM SetsAlwaysHold == S!Spec => []SetHolds
<1>1. SetInv => SetHolds
  BY DEF SetInv, SetHolds
<1> QED
  BY <1>1, SetBegins, SetStep, PTL DEF S!Spec

-----------------------------------------------------------------------------
(* The editors *)

EntryInv == entry \in [Editor -> {None} \cup [state : D!States, perms : Granted]]

\* A call names an editor and what it was given; an answer is to what was pending.
ChangeInv ==
    \A c \in Change : change[c] # None =>
        /\ change[c].on \in Editor
        /\ change[c].op \in {"create", "permissions", "editors"} => change[c].perms \in Granted
        /\ change[c].op = "answer" => change[c].state = "Pending"

EditorsInv ==
    /\ EntryInv /\ change \in [Change -> {change[c] : c \in Change}] /\ ChangeInv
    /\ nth \in [Editor -> Nat] /\ D!Consented /\ D!LogAgrees

\* What a step may do to the entry of an editor.
Answered ==
    \A e \in Editor : entry[e] # None /\ entry'[e] # None =>
        /\ nth'[e] = nth[e]
        /\ D!State(e)' # D!State(e) => D!State(e) = "Pending" \/ e \in crossed'
        /\ D!State(e)' = "Pending" => D!State(e) = "Pending"

LEMMA NoneIsNoEntry == ASSUME NEW x \in [state : D!States, perms : Granted] PROVE x # None /\ x.state # None
  BY EditorsAssumption DEF D!States

\* A call that has read keeps what it will write, and has written nothing yet.
LEMMA ReadStep ==
    ASSUME EditorsInv, NEW c \in Change, NEW what, D!Goes(c, what),
           UNCHANGED <<entry, logged, nth, consent, crossed, unlogged, inherited>>,
           what.on \in Editor,
           what.op \in {"create", "permissions", "editors"} => what.perms \in Granted,
           what.op = "answer" => what.state = "Pending"
    PROVE  EditorsInv' /\ Answered
<1>1. change' = [change EXCEPT ![c] = what]
  BY DEF D!Goes
<1>2. ChangeInv' /\ change' \in [Change -> {change'[d] : d \in Change}]
  BY <1>1 DEF EditorsInv, ChangeInv
<1>3. (D!Consented /\ D!LogAgrees)' /\ EntryInv' /\ Answered
  BY DEF EditorsInv, EntryInv, Answered, D!Consented, D!LogAgrees, D!State
<1> QED
  BY <1>2, <1>3 DEF EditorsInv

\* A call that ends is forgotten.
LEMMA EndedCall ==
    ASSUME EditorsInv, NEW c \in Change, D!Ends(c)
    PROVE  ChangeInv' /\ change' \in [Change -> {change'[d] : d \in Change}]
  BY DEF EditorsInv, ChangeInv, D!Ends

\* An editor who is new, by either API.
LEMMA NewEditorStep ==
    ASSUME EditorsInv, NEW c \in Change, NEW e \in Editor, NEW perms \in Granted,
           D!Ends(c), entry[e] = None,
           entry' = [entry EXCEPT ![e] = [state |-> D!FirstState(e), perms |-> perms]],
           logged' = logged \cup {e}, D!Invited(e)
    PROVE  EditorsInv' /\ Answered
<1> DEFINE new == [state |-> D!FirstState(e), perms |-> perms]
<1>1. /\ new \in [state : D!States, perms : Granted] /\ new.state = D!FirstState(e)
      /\ new.state = "Accepted" => e \in Instant
  BY DEF D!FirstState, D!States
<1>2. new # None
  BY <1>1, NoneIsNoEntry
<1>3. /\ \A f \in Editor : entry'[f] = IF f = e THEN new ELSE entry[f]
      /\ \A f \in Editor \ {e} : nth'[f] = nth[f]
      /\ consent' = consent \ {e} /\ crossed' = crossed \ {e}
      /\ unlogged' = unlogged \ {e} /\ inherited' = inherited \ {e}
      /\ nth' \in [Editor -> Nat]
  BY DEF EditorsInv, EntryInv, D!Invited, D!Forgotten
<1>4. EntryInv'
  BY <1>1 DEF EditorsInv, EntryInv
<1> HIDE DEF new
<1>5. D!Consented'
  <2> SUFFICES ASSUME NEW f \in Editor, D!State(f)' = "Accepted"
               PROVE  f \in Instant \cup consent' \cup crossed' \cup inherited'
    BY DEF D!Consented
  <2>1. CASE f = e
    BY <1>1, <1>2, <1>3, <2>1 DEF D!State
  <2>2. CASE f # e
    BY <1>3, <2>2 DEF D!State, EditorsInv, D!Consented
  <2> QED
    BY <2>1, <2>2
<1>6. D!LogAgrees'
  BY <1>2, <1>3 DEF EditorsInv, D!LogAgrees
<1>7. Answered
  BY <1>3, EditorsAssumption DEF Answered, D!State
<1> QED
  BY <1>3, <1>4, <1>5, <1>6, <1>7, EndedCall DEF EditorsInv

\* An editor who is there gets other permissions, by either API.
LEMMA OtherPermissionsStep ==
    ASSUME EditorsInv, NEW c \in Change, NEW e \in Editor, NEW perms \in Granted,
           D!Ends(c), entry[e] # None, entry' = [entry EXCEPT ![e].perms = perms],
           UNCHANGED <<logged, nth, consent, crossed, unlogged, inherited>>
    PROVE  EditorsInv' /\ Answered
<1> DEFINE new == [entry[e] EXCEPT !.perms = perms]
<1>1. entry[e] \in [state : D!States, perms : Granted]
  BY DEF EditorsInv, EntryInv
<1>2. new \in [state : D!States, perms : Granted] /\ new.state = entry[e].state
  BY <1>1
<1>3. new # None
  BY <1>2, NoneIsNoEntry
<1>4. entry' = [entry EXCEPT ![e] = new]
  OBVIOUS
<1> HIDE DEF new
<1>5. \A f \in Editor : entry'[f] = IF f = e THEN new ELSE entry[f]
  BY <1>4 DEF EditorsInv, EntryInv
<1>6. EntryInv'
  BY <1>2, <1>4 DEF EditorsInv, EntryInv
<1>7. \A f \in Editor : D!State(f)' = D!State(f) /\ (entry'[f] = None <=> entry[f] = None)
  BY <1>2, <1>3, <1>5 DEF D!State
<1>8. D!Consented' /\ D!LogAgrees' /\ Answered
  BY <1>7 DEF EditorsInv, D!Consented, D!LogAgrees, Answered
<1> QED
  BY <1>6, <1>8, EndedCall DEF EditorsInv

LEMMA DeleteStep == ASSUME EditorsInv, NEW c \in Change, D!Delete(c) PROVE EditorsInv' /\ Answered
<1> DEFINE e == change[c].on
<1>1. /\ e \in Editor /\ D!Ends(c) /\ entry' = [entry EXCEPT ![e] = None]
      /\ logged' = logged \ {e} /\ consent' = consent \ {e} /\ crossed' = crossed \ {e} /\ nth' = nth
      /\ unlogged' = unlogged \ {e} /\ inherited' = inherited \ {e}
  BY DEF D!Delete, D!In, D!Forgotten, EditorsInv, ChangeInv
<1> HIDE DEF e
<1>2. \A f \in Editor : entry'[f] = IF f = e THEN None ELSE entry[f]
  BY <1>1 DEF EditorsInv, EntryInv
<1>3. EntryInv'
  BY <1>1 DEF EditorsInv, EntryInv
<1>4. D!Consented'
  BY <1>1, <1>2, EditorsAssumption DEF EditorsInv, D!Consented, D!State
<1>5. D!LogAgrees' /\ Answered
  BY <1>1, <1>2 DEF EditorsInv, D!LogAgrees, Answered, D!State
<1> QED
  BY <1>1, <1>3, <1>4, <1>5, EndedCall DEF EditorsInv

\* The answer was given to a pending invitation; if it is another one by now, it is crossed.
LEMMA AnswerStep ==
    ASSUME EditorsInv, NEW c \in Change, NEW state \in {"Accepted", "Rejected"}, D!AnswerWrites(c, state)
    PROVE  EditorsInv' /\ Answered
<1>0. PICK e \in Editor : e = change[c].on
  BY DEF D!AnswerWrites, D!In, EditorsInv, ChangeInv
<1> DEFINE new == [entry[e] EXCEPT !.state = state]
           same == change[c].nth = nth[e] /\ change[c].state = D!State(e)
<1>1. /\ e \in Editor /\ change[c].state = "Pending" /\ D!Ends(c) /\ entry[e] # None
      /\ entry' = [entry EXCEPT ![e].state = state]
      /\ consent' = IF same /\ state = "Accepted" THEN consent \cup {e} ELSE consent \ {e}
      /\ crossed' = IF same THEN crossed ELSE crossed \cup {e}
      /\ logged' = logged /\ nth' = nth /\ unlogged' = unlogged /\ inherited' = inherited \ {e}
  BY <1>0 DEF D!AnswerWrites, D!In, EditorsInv, ChangeInv
<1>2. same => D!State(e) = "Pending"
  BY <1>1
<1> HIDE DEF same
<1>3. entry[e] \in [state : D!States, perms : Granted]
  BY <1>1 DEF EditorsInv, EntryInv
<1>4. new \in [state : D!States, perms : Granted] /\ new.state = state
  BY <1>3 DEF D!States
<1>5. new # None
  BY <1>4, NoneIsNoEntry
<1>6. entry' = [entry EXCEPT ![e] = new]
  BY <1>1
<1> HIDE DEF new
<1>7. \A f \in Editor : entry'[f] = IF f = e THEN new ELSE entry[f]
  BY <1>1, <1>6 DEF EditorsInv, EntryInv
<1>8. EntryInv'
  BY <1>4, <1>6 DEF EditorsInv, EntryInv
<1>9. D!State(e)' = state /\ \A f \in Editor \ {e} : D!State(f)' = D!State(f)
  BY <1>1, <1>4, <1>5, <1>7 DEF D!State
<1>10. D!Consented'
  BY <1>1, <1>9 DEF EditorsInv, D!Consented
<1>11. D!LogAgrees'
  BY <1>1, <1>5, <1>7 DEF EditorsInv, D!LogAgrees
<1>12. Answered
  <2>1. nth' = nth /\ state # "Pending"
    BY <1>1
  <2>2. D!State(e) = "Pending" \/ e \in crossed'
    BY <1>1, <1>2
  <2> HIDE DEF D!State
  <2> QED
    BY <2>1, <2>2, <1>9 DEF Answered
<1> QED
  BY <1>1, <1>8, <1>10, <1>11, <1>12, EndedCall DEF EditorsInv

\* A merge brings and takes entries, and changes none that stays.
LEMMA MovedStep ==
    ASSUME EditorsInv, NEW after \in [Editor -> {None} \cup [state : D!States, perms : Granted]],
           \A e \in Editor : entry[e] # None /\ after[e] # None => after[e] = entry[e],
           D!Moved(after)
    PROVE  EditorsInv' /\ Answered
<1> DEFINE arrived == {e \in Editor : entry[e] = None /\ after[e] # None}
           left == {e \in Editor : entry[e] # None /\ after[e] = None}
<1>1. /\ entry' = after /\ change' = change /\ logged' = logged
      /\ nth' = [e \in Editor |-> IF e \in arrived THEN nth[e] + 1 ELSE nth[e]]
      /\ consent' = consent \ (arrived \cup left) /\ crossed' = crossed \ (arrived \cup left)
      /\ unlogged' = unlogged \cup arrived \cup left
      /\ inherited' = (inherited \ left) \cup {e \in arrived : after[e].state = "Accepted"}
  BY DEF D!Moved
<1>2. EntryInv' /\ nth' \in [Editor -> Nat] /\ ChangeInv'
      /\ change' \in [Change -> {change'[c] : c \in Change}]
  BY <1>1 DEF EditorsInv, EntryInv, ChangeInv
<1>3. \A e \in Editor \ (arrived \cup left) : after[e] = entry[e]
  OBVIOUS
<1>4. D!Consented'
  <2> SUFFICES ASSUME NEW e \in Editor, after[e] # None, after[e].state = "Accepted"
               PROVE  e \in Instant \cup consent' \cup crossed' \cup inherited'
    BY <1>1, EditorsAssumption DEF D!Consented, D!State
  <2>1. CASE e \in arrived
    BY <1>1, <2>1
  <2>2. CASE e \notin arrived
    <3>1. e \notin left /\ after[e] = entry[e]
      BY <1>3, <2>2
    <3>2. e \in Instant \cup consent \cup crossed \cup inherited
      BY <3>1 DEF EditorsInv, D!Consented, D!State
    <3> QED
      BY <1>1, <2>2, <3>1, <3>2
  <2> QED
    BY <2>1, <2>2
<1>5. D!LogAgrees'
  BY <1>1, <1>3 DEF EditorsInv, D!LogAgrees
<1>6. Answered
  BY <1>1 DEF Answered, D!State
<1> QED
  BY <1>2, <1>4, <1>5, <1>6 DEF EditorsInv

LEMMA MergeStep == ASSUME EditorsInv, D!Merge PROVE EditorsInv' /\ Answered
<1>0. entry \in [Editor -> {None} \cup [state : D!States, perms : Granted]]
  BY DEF EditorsInv, EntryInv
<1>1. CASE D!MergeAway
  <2> DEFINE after == [e \in Editor |-> None]
  <2>1. /\ after \in [Editor -> {None} \cup [state : D!States, perms : Granted]]
        /\ \A e \in Editor : after[e] = None
    OBVIOUS
  <2>2. D!Moved(after)
    BY <1>1 DEF D!MergeAway
  <2> HIDE DEF after
  <2> QED
    BY <2>1, <2>2, MovedStep
<1>2. ASSUME NEW others \in [Editor -> {None} \cup [state : D!States, perms : Granted]], D!MergeInto(others)
      PROVE  EditorsInv' /\ Answered
  <2> DEFINE after == [e \in Editor |-> IF entry[e] = None THEN others[e] ELSE entry[e]]
  <2>1. /\ after \in [Editor -> {None} \cup [state : D!States, perms : Granted]]
        /\ \A e \in Editor : entry[e] # None => after[e] = entry[e]
    BY <1>0
  <2>2. D!Moved(after)
    BY <1>2 DEF D!MergeInto
  <2> HIDE DEF after
  <2> QED
    BY <2>1, <2>2, MovedStep
<1>3. ASSUME NEW e \in Editor, NEW f \in Editor \ {e}, D!MergeEditor(e, f) PROVE EditorsInv' /\ Answered
  <2> DEFINE after == [entry EXCEPT ![e] = None, ![f] = IF entry[f] = None THEN entry[e] ELSE entry[f]]
  <2>1. /\ after \in [Editor -> {None} \cup [state : D!States, perms : Granted]]
        /\ \A d \in Editor : entry[d] # None /\ after[d] # None => after[d] = entry[d]
    BY <1>0
  <2>2. D!Moved(after)
    BY <1>3 DEF D!MergeEditor
  <2> HIDE DEF after
  <2> QED
    BY <2>1, <2>2, MovedStep
<1> QED
  BY <1>1, <1>2, <1>3 DEF D!Merge

LEMMA EditorsStep == EditorsInv /\ [D!Next]_(D!editorsVars) => EditorsInv' /\ [Answered]_(D!editorsVars)
<1> DEFINE Kept == EditorsInv' /\ Answered
<1> SUFFICES ASSUME EditorsInv, [D!Next]_(D!editorsVars) PROVE EditorsInv' /\ [Answered]_(D!editorsVars)
  OBVIOUS
<1>1. ASSUME NEW c \in Change, D!Fail(c) PROVE Kept
  <2>1. (EntryInv /\ D!Consented /\ D!LogAgrees)' /\ nth' = nth /\ Answered
    BY <1>1 DEF EditorsInv, EntryInv, Answered, D!Consented, D!LogAgrees, D!State, D!Fail
  <2> QED
    BY <1>1, <2>1, EndedCall DEF D!Fail, EditorsInv
<1>2. ASSUME NEW c \in Change, D!CreateInserts(c) PROVE Kept
  <2>1. change[c].on \in Editor /\ change[c].perms \in Granted
    BY <1>2 DEF D!CreateInserts, D!In, EditorsInv, ChangeInv
  <2> QED
    BY <1>2, <2>1, NewEditorStep DEF D!CreateInserts, D!CreateReplaces
<1>3. ASSUME NEW c \in Change, D!Delete(c) PROVE Kept
  BY <1>3, DeleteStep
<1>4. ASSUME NEW c \in Change, D!PermissionsWritten(c) PROVE Kept
  <2>1. change[c].on \in Editor /\ change[c].perms \in Granted
    BY <1>4 DEF D!PermissionsWritten, D!In, EditorsInv, ChangeInv
  <2> QED
    BY <1>4, <2>1, OtherPermissionsStep DEF D!PermissionsWritten
<1>5. ASSUME NEW c \in Change, D!EditorsAdd(c) PROVE Kept
  <2>1. change[c].on \in Editor /\ change[c].perms \in Granted
    BY <1>5 DEF D!EditorsAdd, D!In, EditorsInv, ChangeInv
  <2> QED
    BY <1>5, <2>1, NewEditorStep DEF D!EditorsAdd
<1>6. ASSUME NEW c \in Change, D!EditorsUpdate(c) PROVE Kept
  <2>1. change[c].on \in Editor /\ change[c].perms \in Granted
    BY <1>6 DEF D!EditorsUpdate, D!In, EditorsInv, ChangeInv
  <2> QED
    BY <1>6, <2>1, OtherPermissionsStep DEF D!EditorsUpdate
<1>7. ASSUME NEW c \in Change, NEW state \in {"Accepted", "Rejected"}, D!AnswerWrites(c, state) PROVE Kept
  BY <1>7, AnswerStep
<1>8. ASSUME NEW c \in Change, NEW e \in Editor, D!AnswerReads(c, e) PROVE Kept
  <2> DEFINE what == [op |-> "answer", on |-> e, nth |-> nth[e], state |-> "Pending"]
  <2>1. what.op = "answer" /\ what.on = e /\ what.state = "Pending"
    OBVIOUS
  <2>2. D!Goes(c, what) /\ UNCHANGED <<entry, logged, nth, consent, crossed, unlogged, inherited>>
    BY <1>8 DEF D!AnswerReads
  <2> HIDE DEF what
  <2> QED
    BY <2>1, <2>2, ReadStep
<1>9. ASSUME NEW c \in Change, NEW who, NEW e \in Editor, D!DeleteReads(c, who, e) PROVE Kept
  <2> DEFINE what == [op |-> "delete", on |-> e]
  <2>1. what.op = "delete" /\ what.on = e
    OBVIOUS
  <2>2. D!Goes(c, what) /\ UNCHANGED <<entry, logged, nth, consent, crossed, unlogged, inherited>>
    BY <1>9 DEF D!DeleteReads
  <2> HIDE DEF what
  <2> QED
    BY <2>1, <2>2, ReadStep
<1>10. ASSUME NEW c \in Change, NEW who, NEW e \in Editor, NEW perms \in Granted, D!CreateReads(c, who, e, perms)
       PROVE  Kept
  <2> DEFINE what == [op |-> "create", on |-> e, perms |-> perms]
  <2>1. what.op = "create" /\ what.on = e /\ what.perms = perms
    OBVIOUS
  <2>2. D!Goes(c, what) /\ UNCHANGED <<entry, logged, nth, consent, crossed, unlogged, inherited>>
    BY <1>10 DEF D!CreateReads
  <2> HIDE DEF what
  <2> QED
    BY <2>1, <2>2, ReadStep
<1>11. ASSUME NEW c \in Change, NEW who, NEW e \in Editor, NEW perms \in Granted, D!PermissionsRead(c, who, e, perms)
       PROVE  Kept
  <2> DEFINE what == [op |-> "permissions", on |-> e, perms |-> perms]
  <2>1. what.op = "permissions" /\ what.on = e /\ what.perms = perms
    OBVIOUS
  <2>2. D!Goes(c, what) /\ UNCHANGED <<entry, logged, nth, consent, crossed, unlogged, inherited>>
    BY <1>11 DEF D!PermissionsRead
  <2> HIDE DEF what
  <2> QED
    BY <2>1, <2>2, ReadStep
<1>12. ASSUME NEW c \in Change, NEW who, NEW e \in Editor, NEW perms \in Granted \cup {{}},
              D!EditorsReads(c, who, e, perms)
       PROVE  Kept
  <2> DEFINE what == IF perms = {} THEN [op |-> "delete", on |-> e]
                     ELSE [op |-> "editors", on |-> e, perms |-> perms]
  <2>1. /\ what.on = e /\ what.op # "answer"
        /\ what.op \in {"create", "permissions", "editors"} => what.perms = perms /\ perms # {}
    OBVIOUS
  <2>2. D!Goes(c, what) /\ UNCHANGED <<entry, logged, nth, consent, crossed, unlogged, inherited>>
    BY <1>12 DEF D!EditorsReads
  <2> HIDE DEF what
  <2> QED
    BY <2>1, <2>2, ReadStep
<1>13. CASE UNCHANGED D!editorsVars
  BY <1>13 DEF D!editorsVars, EditorsInv, EntryInv, ChangeInv, D!Consented, D!LogAgrees, D!State
<1>14. CASE D!Merge
  BY <1>14, MergeStep
<1> QED
  BY <1>1, <1>2, <1>3, <1>4, <1>5, <1>6, <1>7, <1>8, <1>9, <1>10, <1>11, <1>12, <1>13, <1>14 DEF D!Next

\* Nobody is an editor who did not agree to it and the stored events say who is one, but for
\* entries that a merge of users brought or took; nobody is invited twice, and an answer
\* stands, whatever the calls of both APIs do between their checks and their writes.
THEOREM EditorsAlwaysHold == D!Spec => EditorsHold
<1>1. D!Init => EditorsInv
  BY EditorsAssumption DEF D!Init, EditorsInv, EntryInv, ChangeInv, D!Consented, D!LogAgrees, D!State
<1>2. [Answered]_(D!editorsVars) =>
        [ \A e \in Editor : entry[e] /= None /\ entry'[e] /= None =>
            /\ nth'[e] = nth[e]
            /\ D!State(e)' /= D!State(e) => D!State(e) = "Pending" \/ e \in crossed'
            /\ D!State(e)' = "Pending" => D!State(e) = "Pending" ]_(D!editorsVars)
  BY DEF Answered
<1>3. EditorsInv => D!Consented /\ D!LogAgrees
  BY DEF EditorsInv
<1> QED
  BY <1>1, <1>2, <1>3, EditorsStep, PTL DEF D!Spec, EditorsHold, D!EditorsHold, D!AnswerStands

-----------------------------------------------------------------------------
(* Permissions: what a merge of several says of a bit. *)

\* What the merge of the first n is.
MergesUpTo(f, perms, n) ==
    f = [i \in 0..n |-> IF i = 0 THEN R!Nothing ELSE R!Merge(f[i-1], perms[i])]

\* The merge one after the other exists.
LEMMA MergeExists ==
    ASSUME NEW perms, NEW n \in Nat
    PROVE  \E f : MergesUpTo(f, perms, n)
<1> DEFINE Bad == {k \in Nat : k =< n /\ ~ \E f : MergesUpTo(f, perms, k)}
<1> SUFFICES ASSUME Bad # {} PROVE FALSE
  OBVIOUS
<1>1. PICK k \in Bad : \A m \in Bad : k =< m
  BY Least
<1>2. CASE k = 0
  <2> DEFINE f == [i \in 0..0 |-> R!Nothing]
  <2>1. MergesUpTo(f, perms, 0)
    BY DEF MergesUpTo
  <2> QED
    BY <1>1, <1>2, <2>1
<1>3. CASE k # 0
  <2>1. k - 1 \in Nat /\ k - 1 =< n /\ k - 1 \notin Bad
    BY <1>1, <1>3
  <2>2. PICK g : MergesUpTo(g, perms, k - 1)
    BY <2>1
  <2> DEFINE f == [i \in 0..k |-> IF i = k THEN R!Merge(g[k-1], perms[k]) ELSE g[i]]
  <2>3. ASSUME NEW i \in 0..k
        PROVE  f[i] = IF i = 0 THEN R!Nothing ELSE R!Merge(f[i-1], perms[i])
    <3> HIDE DEF R!Nothing, R!Merge
    <3>1. CASE i = k
      BY <1>3, <2>1, <3>1
    <3>2. CASE i # k
      <4>1. i \in 0..(k-1)
        BY <3>2, <2>1
      <4>2. g[i] = IF i = 0 THEN R!Nothing ELSE R!Merge(g[i-1], perms[i])
        BY <2>2, <4>1 DEF MergesUpTo
      <4>3. f[i] = g[i] /\ (i # 0 => f[i-1] = g[i-1])
        BY <3>2, <4>1
      <4> QED
        BY <4>2, <4>3
    <3> QED
      BY <3>1, <3>2
  <2>4. MergesUpTo(f, perms, k)
    <3> HIDE DEF R!Nothing, R!Merge
    <3> DEFINE h == [i \in 0..k |-> IF i = 0 THEN R!Nothing ELSE R!Merge(f[i-1], perms[i])]
    <3>1. DOMAIN f = 0..k /\ DOMAIN h = 0..k
      OBVIOUS
    <3>2. \A i \in 0..k : f[i] = h[i]
      BY <2>3
    <3>3. f = h
      BY <3>1, <3>2
    <3> QED
      BY <3>3 DEF MergesUpTo
  <2> QED
    BY <1>1, <2>4
<1> QED
  BY <1>2, <1>3

LEMMA MergeAllDef ==
    ASSUME NEW perms, Len(perms) \in Nat
    PROVE  \E f : MergesUpTo(f, perms, Len(perms)) /\ R!MergeAll(perms) = f[Len(perms)]
<1> DEFINE n == Len(perms)
           f == CHOOSE g : MergesUpTo(g, perms, n)
<1>1. MergesUpTo(f, perms, n)
  BY MergeExists
<1>2. R!MergeAll(perms) = f[n]
  BY DEF R!MergeAll, MergesUpTo
<1> QED
  BY <1>1, <1>2

Speaks(q, bit) == bit \in q.allow \cup q.deny

\* What p says of a bit is what q says of it.
Says(p, q, bit) ==
    /\ bit \in q.deny => bit \in p.deny /\ bit \notin p.allow
    /\ bit \in q.allow \ q.deny => bit \in p.allow /\ bit \notin p.deny

LEMMA MergeSays ==
    ASSUME NEW p, NEW q, NEW bit
    PROVE  /\ Says(R!Merge(p, q), q, bit)
           /\ ~Speaks(q, bit) => /\ bit \in R!Merge(p, q).allow <=> bit \in p.allow
                                 /\ bit \in R!Merge(p, q).deny <=> bit \in p.deny
  BY DEF Says, Speaks, R!Merge

\* Of those that say something of a bit the last decides.
LEMMA LastDecides ==
    ASSUME NEW perms, Len(perms) \in Nat, NEW i \in 1..Len(perms), NEW bit,
           \A j \in 1..Len(perms) : j > i => ~Speaks(perms[j], bit)
    PROVE  Says(R!MergeAll(perms), perms[i], bit)
<1>1. PICK f : MergesUpTo(f, perms, Len(perms)) /\ R!MergeAll(perms) = f[Len(perms)]
  BY MergeAllDef
<1>2. \A k \in 1..Len(perms) : f[k] = R!Merge(f[k-1], perms[k])
  BY <1>1 DEF MergesUpTo
<1> DEFINE Bad == {k \in Nat : k >= i /\ k =< Len(perms) /\ ~Says(f[k], perms[i], bit)}
<1> SUFFICES ASSUME Bad # {} PROVE FALSE
  BY <1>1
<1>3. PICK k \in Bad : \A m \in Bad : k =< m
  BY Least
<1>4. k \in 1..Len(perms) /\ ~Says(f[k], perms[i], bit) /\ k >= i
  OBVIOUS
<1>5. CASE k = i
  BY <1>2, <1>4, <1>5, MergeSays
<1>6. CASE k # i
  <2>1. k - 1 \notin Bad
    BY <1>3, <1>4, <1>6
  <2>2. Says(f[k-1], perms[i], bit)
    BY <2>1, <1>4, <1>6
  <2>3. ~Speaks(perms[k], bit)
    BY <1>4, <1>6
  <2> QED
    BY <1>2, <1>4, <2>2, <2>3, MergeSays DEF Says
<1> QED
  BY <1>5, <1>6

\* What nobody speaks of the merge says nothing of.
LEMMA SilentMerge ==
    ASSUME NEW perms, Len(perms) \in Nat, NEW bit,
           \A j \in 1..Len(perms) : ~Speaks(perms[j], bit)
    PROVE  ~Speaks(R!MergeAll(perms), bit)
<1>1. PICK f : MergesUpTo(f, perms, Len(perms)) /\ R!MergeAll(perms) = f[Len(perms)]
  BY MergeAllDef
<1>2. /\ f[0] = R!Nothing
      /\ \A k \in 1..Len(perms) : f[k] = R!Merge(f[k-1], perms[k])
  BY <1>1 DEF MergesUpTo
<1> DEFINE Bad == {k \in Nat : k =< Len(perms) /\ Speaks(f[k], bit)}
<1> SUFFICES ASSUME Bad # {} PROVE FALSE
  BY <1>1
<1>3. PICK k \in Bad : \A m \in Bad : k =< m
  BY Least
<1>4. CASE k = 0
  BY <1>2, <1>4 DEF Speaks, R!Nothing
<1>5. CASE k # 0
  <2>1. k - 1 \notin Bad /\ k \in 1..Len(perms)
    BY <1>3, <1>5
  <2>2. ~Speaks(f[k-1], bit)
    BY <2>1
  <2> QED
    BY <1>2, <2>1, <2>2, MergeSays DEF Speaks
<1> QED
  BY <1>4, <1>5

\* A merge is a pair of an allowance and a denial.
LEMMA MergeForm ==
    ASSUME NEW perms, Len(perms) \in Nat
    PROVE  R!MergeAll(perms) = [allow |-> R!MergeAll(perms).allow, deny |-> R!MergeAll(perms).deny]
<1>1. PICK f : MergesUpTo(f, perms, Len(perms)) /\ R!MergeAll(perms) = f[Len(perms)]
  BY MergeAllDef
<1>2. f[Len(perms)] = R!Nothing \/ \E p, q : f[Len(perms)] = R!Merge(p, q)
  <2>1. CASE Len(perms) = 0
    BY <1>1, <2>1 DEF MergesUpTo
  <2>2. CASE Len(perms) # 0
    BY <1>1, <2>2 DEF MergesUpTo
  <2> QED
    BY <2>1, <2>2
<1> QED
  BY <1>1, <1>2 DEF R!Nothing, R!Merge

\* Where somebody speaks of a bit somebody is the last to do so.
LEMMA LastSpeaker ==
    ASSUME NEW perms, Len(perms) \in Nat, NEW bit, NEW k \in 1..Len(perms), Speaks(perms[k], bit)
    PROVE  \E i \in 1..Len(perms) :
              /\ Speaks(perms[i], bit)
              /\ \A j \in 1..Len(perms) : j > i => ~Speaks(perms[j], bit)
<1> DEFINE Q == {d \in Nat : d < Len(perms) /\ Speaks(perms[Len(perms) - d], bit)}
<1>1. Len(perms) - k \in Q
  <2>1. Len(perms) - (Len(perms) - k) = k
    OBVIOUS
  <2> QED
    BY <2>1
<1>2. PICK d \in Q : \A m \in Q : d =< m
  <2>1. Q \in SUBSET Nat /\ Q # {}
    BY <1>1
  <2> HIDE DEF Q
  <2> QED
    BY <2>1, Least
<1>3. ASSUME NEW j \in 1..Len(perms), j > Len(perms) - d PROVE ~Speaks(perms[j], bit)
  <2>1. Len(perms) - (Len(perms) - j) = j /\ Len(perms) - j \in Nat /\ Len(perms) - j < d
    BY <1>3
  <2> QED
    BY <1>2, <2>1
<1>4. Len(perms) - d \in 1..Len(perms) /\ Speaks(perms[Len(perms) - d], bit)
  BY <1>2
<1> QED
  BY <1>3, <1>4

-----------------------------------------------------------------------------
(* Permissions: the old bits and the new ones. *)

OneBit == {"CreateEmoteSet", "EditEmoteSet"}

\* What is asked with some old bits.
With(old) == old \cup IF old \cap OneBit # {} THEN OneBit ELSE {}

\* A new bit that decides about an old one comes from that one alone, where creating and
\* editing sets are one.
LEMMA BitsOfTheirOwn ==
    ASSUME NEW b \in R!OldBits, NEW c \in R!OldBits, NEW x \in R!Shown(b)
    PROVE  /\ x \in R!NewBits(c) <=> c = b \/ (b \in OneBit /\ c \in OneBit)
           /\ x[1] # "flags" /\ x = <<x[1], x[2]>> /\ x[2] # "Admin"
           /\ x[1] = "admin" => x = R!Super /\ b = "SuperAdministrator"
  BY DEF R!NewBits, OneBit, R!Super, R!Shown, R!OldBits

LEMMA NoGroupWhole ==
    ASSUME NEW b \in R!OldBits, NEW x \in R!NewBits(b)
    PROVE  /\ x[1] # "flags" /\ x = <<x[1], x[2]>> /\ x[2] # "Admin"
           /\ x = R!Super <=> b = "SuperAdministrator"
           /\ x \in R!Bits
  BY DEF R!NewBits, R!Super, R!OldBits, R!Bits, R!AllFlags, R!Groups, R!StaffBits, R!UserBits

LEMMA ShownIsThere ==
    ASSUME NEW b \in R!OldBits
    PROVE  R!Shown(b) # {} /\ R!Shown(b) \subseteq R!NewBits(b)
  BY DEF R!NewBits, R!Shown, R!OldBits

\* The new bits of some old ones.
Of(old) == UNION {R!NewBits(b) : b \in old \cap R!OldBits}

\* A bit that decides about an old one is among those of some exactly if it was asked with them.
LEMMA OfDecides ==
    ASSUME NEW old, NEW b \in R!OldBits, NEW x \in R!Shown(b)
    PROVE  x \in Of(old) <=> b \in With(old \cap R!OldBits)
<1>1. x \in Of(old) <=> \E c \in old \cap R!OldBits : c = b \/ (b \in OneBit /\ c \in OneBit)
  BY BitsOfTheirOwn DEF Of
<1>2. OneBit \subseteq R!OldBits
  BY DEF OneBit, R!OldBits
<1> QED
  BY <1>1, <1>2 DEF With

\* What a role has that was made with some old bits.
LEMMA HasWhatIsAllowed ==
    ASSUME NEW allowed, NEW denied, NEW b \in R!OldBits, NEW x \in R!Shown(b)
    PROVE  LET p == R!ToNew(allowed, denied)
               super == R!Super \in Of(allowed) \ Of(denied)
           IN  /\ R!Has(p, x) <=> super \/ x \in Of(allowed) \ Of(denied)
               /\ R!Denied(p, x) <=> ~super /\ x \in Of(denied)
<1> DEFINE p == R!ToNew(allowed, denied)
           super == R!Super \in Of(allowed) \ Of(denied)
<1>1. p = [allow |-> Of(allowed) \ Of(denied), deny |-> Of(denied)]
  BY DEF R!ToNew, Of
<1>2. R!Effective(p) = Of(allowed) \ Of(denied)
  BY <1>1 DEF R!Effective
<1>3. /\ x[1] # "flags" /\ x = <<x[1], x[2]>> /\ x[2] # "Admin"
      /\ x[1] = "admin" => x = R!Super
  BY BitsOfTheirOwn
<1>4. \A y \in R!Effective(p) : y[2] # "Admin"
  BY <1>2, NoGroupWhole DEF Of
<1> HIDE DEF p
<1>5. R!IsSuper(p) <=> super
  BY <1>2 DEF R!IsSuper
<1>6. R!IsAdmin(p) <=> super
  <2>1. <<"admin", "Admin">> \notin R!Effective(p)
    BY <1>4
  <2> QED
    BY <1>2, <2>1 DEF R!IsAdmin
<1>7. <<x[1], "Admin">> \notin R!Effective(p)
  BY <1>4
<1>8. R!Has(p, x) <=> super \/ x \in R!Effective(p)
  <2>1. CASE x[1] = "admin"
    <3>1. {x} = {R!Super}
      BY <1>3, <2>1
    <3>2. R!Has(p, x) <=> R!IsSuper(p)
      BY <2>1, <3>1 DEF R!Has, R!HasMask
    <3>3. x \in R!Effective(p) <=> super
      BY <1>2, <3>1
    <3> QED
      BY <1>5, <3>2, <3>3
  <2>2. CASE x[1] # "admin"
    <3>1. R!Has(p, x) <=> TRUE \in {R!IsAdmin(p), {x} \subseteq R!Effective(p), <<x[1], "Admin">> \in R!Effective(p)}
      BY <1>3, <2>2 DEF R!Has, R!HasMask
    <3>2. ({x} \subseteq R!Effective(p)) <=> x \in R!Effective(p)
      OBVIOUS
    <3>4. R!Has(p, x) <=> R!IsAdmin(p) \/ ({x} \subseteq R!Effective(p)) \/ (<<x[1], "Admin">> \in R!Effective(p))
      BY <3>1 DEF R!IsAdmin
    <3> QED
      BY <1>6, <1>7, <3>2, <3>4
  <2> QED
    BY <2>1, <2>2
<1>9. R!Denied(p, x) <=> ~super /\ x \in Of(denied)
  <2>1. p.deny = Of(denied)
    BY <1>1
  <2> QED
    BY <1>3, <1>5, <1>6, <1>7, <2>1 DEF R!Denied
<1> QED
  BY <1>2, <1>8, <1>9 DEF p

\* What an old bit is shown as is what it was asked as.
LEMMA ShownAsMade ==
    ASSUME NEW allowed, NEW denied
    PROVE  R!FromDb(R!ToNew(allowed, denied)) = R!ShownFor(<<allowed, denied>>)
<1> DEFINE p == R!ToNew(allowed, denied)
           a == With(allowed \cap R!OldBits)
           d == With(denied \cap R!OldBits)
           super == R!Super \in Of(allowed) \ Of(denied)
<1>1. super <=> "SuperAdministrator" \in a \ d
  <2>1. "SuperAdministrator" \in R!OldBits /\ R!Super \in R!Shown("SuperAdministrator")
    BY DEF R!OldBits, R!Shown, R!NewBits
  <2> QED
    BY <2>1, OfDecides
<1>2. a \subseteq R!OldBits /\ d \subseteq R!OldBits
  BY DEF With, OneBit, R!OldBits
<1>3. ASSUME NEW b \in R!OldBits
      PROVE  /\ \A x \in R!Shown(b) : R!Has(p, x) <=> super \/ b \in a \ d
             /\ \A x \in R!Shown(b) : R!Denied(p, x) <=> ~super /\ b \in d
  BY OfDecides, HasWhatIsAllowed
<1>4. ASSUME NEW b \in R!OldBits
      PROVE  /\ (IF b = "ManageCosmetics" THEN \E x \in R!Shown(b) : R!Has(p, x) ELSE \A x \in R!Shown(b) : R!Has(p, x))
                    <=> super \/ b \in a \ d
             /\ (\E x \in R!Shown(b) : R!Denied(p, x)) <=> ~super /\ b \in d
  BY <1>3, ShownIsThere
<1>5. R!FromDb(p) = [allowed |-> {b \in R!OldBits : super \/ b \in a \ d}, denied |-> {b \in R!OldBits : ~super /\ b \in d}]
  <2> HIDE DEF p, a, d, super
  <2> QED
    BY <1>4, Zenon DEF R!FromDb
<1>6. R!ShownFor(<<allowed, denied>>) =
          IF "SuperAdministrator" \in a \ d THEN [allowed |-> R!OldBits, denied |-> {}]
          ELSE [allowed |-> a \ d, denied |-> d]
  BY DEF R!ShownFor, With, OneBit
<1> QED
  <2> HIDE DEF a, d, super
  <2>1. CASE super
    BY <1>1, <1>5, <1>6, <2>1 DEF p
  <2>2. CASE ~super
    BY <1>1, <1>2, <1>5, <1>6, <2>2 DEF p
  <2> QED
    BY <2>1, <2>2

-----------------------------------------------------------------------------
(* Roles and bans.  What a user may do is what the loader merges; the       *)
(* ranks that say in which order are kept apart by their index, and a ban   *)
(* says little enough for the order of bans not to matter.                  *)

\* What is kept of a role and of a ban, and what a call has looked up.
Perms == [allow : SUBSET R!Bits, deny : SUBSET R!Bits]
BanPerms == {p \in Perms : p.allow \subseteq {R!Hidden} /\ R!Hidden \notin p.deny}

\* No two roles have a rank, and ranks do not grow beyond the number of roles.
RanksInv ==
    /\ rank \in [Role -> Nat]
    /\ \A r \in roles : rank[r] =< Cardinality(Role)
    /\ \A r, s \in roles : rank[r] = rank[s] => r = s

MadeInv ==
    /\ perm \in [Role -> Perms] /\ asked \in [Role -> {asked[r] : r \in Role}]
    /\ \A r \in Role : asked[r] # None => perm[r] = R!ToNew(asked[r][1], asked[r][2])

RequestInv ==
    /\ request \in [Request -> {request[c] : c \in Request}]
    /\ \A c \in Request :
        /\ R!In(c, "create") => request[c] \in [at : {"create"}, pair : Asked, rank : 0..Cardinality(Role)]
        /\ R!In(c, "roles") => request[c].edge \in Person \X Role
        /\ R!In(c, "ban") => request[c].user \in Person

BanInv ==
    /\ ban \in [Ban -> {ban[b] : b \in Ban}]
    /\ \A b \in Ban : ban[b] # None =>
            /\ ban[b] \in [user : Person, perm : BanPerms, left : 0..R!Forever]
            /\ ban[b].user \in hasBans

RolesInv == R!TypeOK /\ R!EdgesLeadToRoles /\ RanksInv /\ MadeInv /\ RequestInv /\ BanInv

-----------------------------------------------------------------------------

LEMMA RoleCount == R!Cardinality(roles) = Cardinality(roles)
  BY DEF R!Cardinality, Cardinality

\* There is always a rank that no role has.
LEMMA FreeRankIsFree ==
    ASSUME roles \subseteq Role, rank \in [Role -> Nat]
    PROVE  R!FreeRank \in 0..Cardinality(Role)
<1> DEFINE n == Cardinality(roles)
           taken == {rank[r] : r \in roles}
           free == (0..n) \ taken
<1>1. IsFiniteSet(roles) /\ n \in Nat /\ n =< Cardinality(Role) /\ Cardinality(Role) \in Nat
  BY RolesAssumption, FS_Subset, FS_CardinalityType
<1>2. free # {}
  <2> SUFFICES ASSUME free = {} PROVE FALSE
    OBVIOUS
  <2> DEFINE f == [k \in 0..n |-> CHOOSE r \in roles : rank[r] = k]
  <2>1. \A k \in 0..n : f[k] \in roles /\ rank[f[k]] = k
    OBVIOUS
  <2>2. IsFiniteSet(0..n) /\ Cardinality(0..n) = n + 1
    BY <1>1, FS_Interval
  <2> HIDE DEF f
  <2>3. f \in [0..n -> roles]
    BY <2>1 DEF f
  <2> DEFINE places == 0..n
  <2>4. \E j, k \in places : j # k /\ f[j] = f[k]
    <3>1. IsFiniteSet(places) /\ Cardinality(roles) < Cardinality(places) /\ f \in [places -> roles]
      BY <1>1, <2>2, <2>3
    <3> HIDE DEF places
    <3> QED
      BY <1>1, <3>1, FS_PigeonHole
  <2> QED
    BY <2>1, <2>4
<1>3. PICK k \in free : \A m \in free : k =< m
  <2> free \in SUBSET Nat
    BY <1>1
  <2> HIDE DEF free
  <2> QED
    BY <1>2, Least
<1>4. R!FreeRank \in free
  <2>1. R!FreeRank = CHOOSE x \in free : \A y \in free : x =< y
    BY RoleCount DEF R!FreeRank, R!Min
  <2> QED
    BY <1>3, <2>1
<1> QED
  BY <1>1, <1>4

\* The pairs that are asked for are pairs, and what is made of them has bits.
LEMMA AskedPairs ==
    ASSUME NEW pair \in Asked
    PROVE  R!ToNew(pair[1], pair[2]) \in Perms
<1>1. \A old : UNION {R!NewBits(b) : b \in old \cap R!OldBits} \subseteq R!Bits
  BY NoGroupWhole
<1> QED
  BY <1>1 DEF R!ToNew, Perms

\* A ban hides a user or denies bits, but never that he is hidden.
LEMMA BansAreBans ==
    ASSUME NEW effects
    PROVE  R!BanPermissions(effects) \in BanPerms
<1>1. {R!Hidden, R!Login} \subseteq R!Bits
  BY DEF R!Hidden, R!Login, R!Bits, R!AllFlags, R!Groups, R!StaffBits, R!UserBits
<1>2. \A g \in {"emote", "emote_set", "user"} : R!AllFlags(g) \subseteq R!Bits /\ R!Hidden \notin R!AllFlags(g)
  BY DEF R!Hidden, R!Bits, R!AllFlags, R!Groups, R!StaffBits, R!UserBits
<1>3. R!Login # R!Hidden
  BY DEF R!Hidden, R!Login
<1> QED
  BY <1>1, <1>2, <1>3 DEF R!BanPermissions, BanPerms, Perms

-----------------------------------------------------------------------------
(* The steps *)

\* What a call has looked up when it is at its next step.
LEMMA RequestGoesOn ==
    ASSUME RequestInv, NEW c \in Request, NEW x, request' = [request EXCEPT ![c] = x],
           x # None =>
             /\ x.at = "create" => x \in [at : {"create"}, pair : Asked, rank : 0..Cardinality(Role)]
             /\ x.at = "roles" => x.edge \in Person \X Role
             /\ x.at = "ban" => x.user \in Person
    PROVE  RequestInv'
<1>1. request' \in [Request -> {request'[d] : d \in Request}]
  BY DEF RequestInv
<1>2. \A d \in Request : request'[d] = IF d = c THEN x ELSE request[d]
  BY DEF RequestInv
<1> QED
  BY <1>1, <1>2 DEF RequestInv, R!In

LEMMA RequestEnds ==
    ASSUME RequestInv, NEW c \in Request, R!End(c)
    PROVE  RequestInv'
  BY RequestGoesOn DEF R!End

\* Steps that only look something up.
LEMMA OnlyRequest ==
    ASSUME RolesInv, UNCHANGED <<roles, rank, perm, gone, edges, ban, hasBans, asked, late>>, RequestInv'
    PROVE  RolesInv'
  BY DEF RolesInv, R!TypeOK, R!EdgesLeadToRoles, RanksInv, MadeInv, BanInv

LEMMA LookupSteps ==
    ASSUME RolesInv, NEW c \in Request,
           \/ R!Drop(c) \/ R!CreateReadsAgain(c)
           \/ \E u \in Person : R!Begin(c, u) \/ R!BanReads(c, u) \/ \E r \in Role : R!RolesRead(c, u, r)
           \/ \E pair \in Asked : R!CreateReads(c, pair)
    PROVE  RolesInv'
<1>0. RequestInv /\ roles \subseteq Role /\ rank \in [Role -> Nat]
  BY DEF RolesInv, R!TypeOK
<1>1. CASE R!Drop(c)
  BY <1>0, <1>1, RequestEnds, OnlyRequest DEF R!Drop
<1>2. CASE R!CreateReadsAgain(c)
  <2> DEFINE x == [request[c] EXCEPT !.rank = R!FreeRank]
  <2>1. request[c] \in [at : {"create"}, pair : Asked, rank : 0..Cardinality(Role)]
    BY <1>0, <1>2 DEF R!CreateReadsAgain, RequestInv
  <2>2. x \in [at : {"create"}, pair : Asked, rank : 0..Cardinality(Role)]
    BY <1>0, <2>1, FreeRankIsFree
  <2>3. request' = [request EXCEPT ![c] = x]
    BY <1>2 DEF R!CreateReadsAgain
  <2> HIDE DEF x
  <2>4. x.at = "create"
    BY <2>2
  <2>5. RequestInv'
    BY <1>0, <2>2, <2>3, <2>4, RequestGoesOn
  <2> QED
    BY <1>2, <2>5, OnlyRequest DEF R!CreateReadsAgain
<1>3. ASSUME NEW u \in Person, R!Begin(c, u) PROVE RolesInv'
  <2> DEFINE x == [user |-> u, perm |-> R!Full(u), rank |-> R!HighestRank(u), at |-> "session"]
  <2>1. request' = [request EXCEPT ![c] = x]
    BY <1>3 DEF R!Begin
  <2>2. x.at = "session"
    OBVIOUS
  <2> HIDE DEF x
  <2>3. RequestInv'
    BY <1>0, <2>1, <2>2, RequestGoesOn
  <2> QED
    BY <1>3, <2>3, OnlyRequest DEF R!Begin
<1>4. ASSUME NEW u \in Person, R!BanReads(c, u) PROVE RolesInv'
  <2> DEFINE x == [at |-> "ban", user |-> u]
  <2>1. request' = [request EXCEPT ![c] = x]
    BY <1>4 DEF R!BanReads
  <2>2. x.at = "ban" /\ x.user = u
    OBVIOUS
  <2> HIDE DEF x
  <2>3. RequestInv'
    BY <1>0, <2>1, <2>2, RequestGoesOn
  <2> QED
    BY <1>4, <2>3, OnlyRequest DEF R!BanReads
<1>5. ASSUME NEW u \in Person, NEW r \in Role, R!RolesRead(c, u, r) PROVE RolesInv'
  <2> DEFINE x == [at |-> "roles", edge |-> <<u, r>>]
  <2>1. request' = [request EXCEPT ![c] = x]
    BY <1>5 DEF R!RolesRead
  <2>2. x.at = "roles" /\ x.edge \in Person \X Role
    OBVIOUS
  <2> HIDE DEF x
  <2>3. RequestInv'
    BY <1>0, <2>1, <2>2, RequestGoesOn
  <2> QED
    BY <1>5, <2>3, OnlyRequest DEF R!RolesRead
<1>6. ASSUME NEW pair \in Asked, R!CreateReads(c, pair) PROVE RolesInv'
  <2> DEFINE x == [at |-> "create", pair |-> pair, rank |-> R!FreeRank]
  <2>1. request' = [request EXCEPT ![c] = x]
    BY <1>6 DEF R!CreateReads
  <2>2. x.at = "create" /\ x \in [at : {"create"}, pair : Asked, rank : 0..Cardinality(Role)]
    BY <1>0, FreeRankIsFree
  <2> HIDE DEF x
  <2>3. RequestInv'
    BY <1>0, <2>1, <2>2, RequestGoesOn
  <2> QED
    BY <1>6, <2>3, OnlyRequest DEF R!CreateReads
<1> QED
  BY <1>1, <1>2, <1>3, <1>4, <1>5, <1>6

\* The unique index keeps the ranks apart.
LEMMA CreateStep ==
    ASSUME RolesInv, NEW c \in Request, NEW r \in Role, R!CreateInserts(c, r)
    PROVE  RolesInv'
<1> USE DEF RolesInv, R!CreateInserts, R!CreateInsertsAnyway
<1> DEFINE pair == request[c].pair
           new == R!ToNew(pair[1], pair[2])
<1>1. request[c].rank \in 0..Cardinality(Role) /\ pair \in Asked /\ Cardinality(Role) \in Nat
  BY RolesAssumption, FS_CardinalityType DEF RequestInv
<1>2. new \in Perms
  BY <1>1, AskedPairs
<1> HIDE DEF new, pair
<1>3. RequestInv'
  BY RequestEnds
<1>4. RanksInv'
  BY <1>1 DEF RanksInv, R!TypeOK
<1>5. MadeInv'
  <2>1. perm' = [perm EXCEPT ![r] = new] /\ asked' = [asked EXCEPT ![r] = pair]
    BY DEF new, pair
  <2>2. new = R!ToNew(pair[1], pair[2])
    BY DEF new
  <2> QED
    BY <1>2, <2>1, <2>2 DEF MadeInv
<1>6. BanInv'
  BY DEF BanInv
<1>7. R!TypeOK'
  <2>1. \A s \in Role : perm'[s].allow \subseteq R!Bits /\ perm'[s].deny \subseteq R!Bits
    BY <1>5 DEF MadeInv, Perms
  <2> QED
    BY <1>4, <2>1 DEF R!TypeOK, RanksInv
<1>8. R!EdgesLeadToRoles'
  BY DEF R!EdgesLeadToRoles
<1> QED
  BY <1>3, <1>4, <1>5, <1>6, <1>7, <1>8

LEMMA RoleSteps ==
    ASSUME RolesInv, NEW c \in Request,
           R!RolesAdd(c) \/ R!RolesRemove(c) \/ \E r \in Role : R!DeleteRole(c, r)
    PROVE  RolesInv'
<1> USE DEF RolesInv
<1>1. RequestInv'
  BY RequestEnds DEF R!RolesAdd, R!RolesRemove, R!DeleteRole
<1>2. CASE R!RolesAdd(c)
  <2>1. request[c].edge \in Person \X Role
    BY <1>2 DEF RequestInv, R!RolesAdd
  <2> QED
    BY <1>1, <1>2, <2>1 DEF R!RolesAdd, R!TypeOK, R!EdgesLeadToRoles, RanksInv, MadeInv, BanInv
<1>3. CASE R!RolesRemove(c)
  BY <1>1, <1>3 DEF R!RolesRemove, R!TypeOK, R!EdgesLeadToRoles, RanksInv, MadeInv, BanInv
<1>4. ASSUME NEW r \in Role, R!DeleteRole(c, r) PROVE RolesInv'
  BY <1>1, <1>4 DEF R!DeleteRole, R!TypeOK, R!EdgesLeadToRoles, RanksInv, MadeInv, BanInv
<1> QED
  BY <1>2, <1>3, <1>4

\* Steps of the bans.
LEMMA OnlyBans ==
    ASSUME RolesInv, UNCHANGED <<roles, rank, perm, gone, edges, asked, late>>, RequestInv', BanInv',
           hasBans' \subseteq Person
    PROVE  RolesInv'
<1>1. \A b \in Ban : ban'[b] = None \/ (ban'[b].user \in Person /\ ban'[b].left \in 0..R!Forever)
  BY DEF BanInv
<1> QED
  BY <1>1 DEF RolesInv, R!TypeOK, R!EdgesLeadToRoles, RanksInv, MadeInv

LEMMA BanSteps ==
    ASSUME RolesInv, NEW c \in Request, NEW b \in Ban, NEW effects,
           \/ \E time \in 1..R!Forever : R!BanWrites(c, b, effects, time)
           \/ \E time \in (0..MaxTime) \cup {None} : R!EditBan(c, b, effects, time)
    PROVE  RolesInv'
<1> USE DEF RolesInv
<1>0. R!Forever = MaxTime + 1 /\ MaxTime \in Nat
  BY RolesAssumption DEF R!Forever
<1>1. RequestInv'
  BY RequestEnds DEF R!BanWrites, R!EditBan
<1>2. ASSUME NEW time \in 1..R!Forever, R!BanWrites(c, b, effects, time) PROVE RolesInv'
  <2> DEFINE x == [user |-> request[c].user, perm |-> R!BanPermissions(effects), left |-> time]
  <2>1. request[c].user \in Person
    BY <1>2 DEF RequestInv, R!BanWrites
  <2>2. x \in [user : Person, perm : BanPerms, left : 0..R!Forever] /\ x.user = request[c].user
    BY <1>0, <2>1, BansAreBans
  <2>3. ban' = [ban EXCEPT ![b] = x] /\ hasBans' = hasBans \cup {request[c].user}
    BY <1>2 DEF R!BanWrites
  <2> HIDE DEF x
  <2>4. BanInv'
    BY <2>2, <2>3 DEF BanInv
  <2> QED
    BY <1>1, <1>2, <2>1, <2>3, <2>4, OnlyBans DEF R!BanWrites, R!TypeOK
<1>3. ASSUME NEW time \in (0..MaxTime) \cup {None}, R!EditBan(c, b, effects, time) PROVE RolesInv'
  <2> DEFINE newPerm == IF effects = None THEN ban[b].perm ELSE R!BanPermissions(effects)
             newLeft == IF time = None THEN ban[b].left ELSE time
             x == [ban[b] EXCEPT !.perm = newPerm, !.left = newLeft]
  <2>1. ban[b] \in [user : Person, perm : BanPerms, left : 0..R!Forever] /\ ban[b].user \in hasBans
    BY <1>3 DEF BanInv, R!EditBan
  <2>2. newPerm \in BanPerms /\ newLeft \in 0..R!Forever
    BY <1>0, <2>1, BansAreBans
  <2>3. ban' = [ban EXCEPT ![b].perm = newPerm, ![b].left = newLeft] /\ hasBans' = hasBans
    BY <1>3, Zenon DEF R!EditBan
  <2> HIDE DEF newPerm, newLeft
  <2>4. x \in [user : Person, perm : BanPerms, left : 0..R!Forever] /\ x.user = ban[b].user
    BY <2>1, <2>2
  <2>5. ban' = [ban EXCEPT ![b] = x]
    BY <2>3 DEF BanInv
  <2> HIDE DEF x
  <2>6. BanInv'
    BY <2>1, <2>3, <2>4, <2>5 DEF BanInv
  <2> QED
    BY <1>1, <1>3, <2>3, <2>6, OnlyBans DEF R!EditBan, R!TypeOK
<1> QED
  BY <1>2, <1>3

LEMMA TickStep == ASSUME RolesInv, R!Tick PROVE RolesInv'
<1> USE DEF RolesInv
<1>0. R!Forever = MaxTime + 1 /\ MaxTime \in Nat
  BY RolesAssumption DEF R!Forever
<1>1. RequestInv'
  BY DEF R!Tick, RequestInv, R!In
<1>2. BanInv'
  <2>1. ban' \in [Ban -> {ban'[b] : b \in Ban}]
    BY DEF R!Tick
  <2>2. ASSUME NEW b \in Ban, ban'[b] # None
        PROVE  /\ ban'[b] \in [user : Person, perm : BanPerms, left : 0..R!Forever]
               /\ ban'[b].user \in hasBans
    <3>1. CASE ban[b] # None /\ ban[b].left \in 1..MaxTime
      <4>1. ban[b] \in [user : Person, perm : BanPerms, left : 0..R!Forever] /\ ban[b].user \in hasBans
        BY <3>1 DEF BanInv
      <4>2. ban'[b] = [ban[b] EXCEPT !.left = @ - 1]
        BY <3>1 DEF R!Tick
      <4> QED
        BY <1>0, <3>1, <4>1, <4>2
    <3>2. CASE ~(ban[b] # None /\ ban[b].left \in 1..MaxTime)
      BY <2>2, <3>2 DEF R!Tick, BanInv
    <3> QED
      BY <3>1, <3>2
  <2> QED
    BY <2>1, <2>2 DEF BanInv, R!Tick
<1> QED
  BY <1>1, <1>2, OnlyBans DEF R!Tick, R!TypeOK

LEMMA RolesStep == RolesInv /\ [R!Next]_(R!rolesVars) => RolesInv'
<1> SUFFICES ASSUME RolesInv, [R!Next]_(R!rolesVars) PROVE RolesInv'
  OBVIOUS
<1>1. CASE UNCHANGED R!rolesVars
  BY <1>1 DEF R!rolesVars, RolesInv, R!TypeOK, R!EdgesLeadToRoles, RanksInv, MadeInv, RequestInv, BanInv, R!In
<1>2. CASE R!Next
  BY <1>2, LookupSteps, CreateStep, RoleSteps, BanSteps, TickStep DEF R!Next
<1> QED
  BY <1>1, <1>2

LEMMA RolesBegin == R!Init => RolesInv
<1> SUFFICES ASSUME R!Init PROVE RolesInv
  OBVIOUS
<1> USE DEF R!Init
<1>1. roles = {root, staff} /\ roles \subseteq Role /\ edges = FirstEdges /\ hasBans = {} /\ gone = {}
  BY RolesAssumption DEF FirstRoles
<1>2. RanksInv
  <2> DEFINE n == Cardinality(roles)
             f == [r \in roles |-> rank[r]]
  <2>1. IsFiniteSet(roles) /\ n \in Nat /\ n =< Cardinality(Role) /\ Cardinality(Role) \in Nat
    BY <1>1, RolesAssumption, FS_Subset, FS_CardinalityType
  <2>2. rank \in [Role -> 0..n] /\ {rank[r] : r \in roles} = 0..n-1
    BY RoleCount
  <2>3. f \in Surjection(roles, 0..n-1)
    BY <2>2 DEF Surjection
  <2>4. Cardinality(0..n-1) = n
    BY <2>1, FS_Interval
  <2> HIDE DEF f
  <2>5. f \in Injection(roles, 0..n-1)
    BY <2>1, <2>3, <2>4, FS_SurjSameCardinalityImpliesInj
  <2>6. \A r, s \in roles : rank[r] = rank[s] => r = s
    BY <2>5 DEF f, Injection, IsInjective
  <2> QED
    BY <1>1, <2>1, <2>2, <2>6 DEF RanksInv
<1>3. MadeInv
  <2>1. {<<"admin", "SuperAdmin">>, <<"user", "Moderate">>, <<"user", "Login">>, <<"role", "Manage">>,
         <<"role", "Assign">>, <<"emote", "Upload">>, <<"emote", "Edit">>} \subseteq R!Bits
    BY DEF R!Bits, R!AllFlags, R!Groups, R!StaffBits, R!UserBits
  <2>2. \A r \in roles : FirstRoles[r] \in Perms
    BY <1>1, <2>1 DEF FirstRoles, Perms
  <2>3. R!Nothing \in Perms
    BY DEF R!Nothing, Perms
  <2> QED
    BY <2>2, <2>3 DEF MadeInv
<1>4. R!TypeOK
  <2>1. \A r \in Role : perm[r].allow \subseteq R!Bits /\ perm[r].deny \subseteq R!Bits
    BY <1>3 DEF MadeInv, Perms
  <2>2. edges \subseteq (Person \cup {Everybody}) \X Role
    BY <1>1, RolesAssumption DEF FirstEdges
  <2> QED
    BY <1>1, <1>2, <2>1, <2>2 DEF R!TypeOK, RanksInv
<1>5. R!EdgesLeadToRoles
  BY <1>1 DEF R!EdgesLeadToRoles, FirstEdges
<1>6. RequestInv /\ BanInv
  BY DEF RequestInv, BanInv, R!In
<1> QED
  BY <1>2, <1>3, <1>4, <1>5, <1>6 DEF RolesInv

-----------------------------------------------------------------------------
(* What the loader makes of roles and bans *)

\* Of some roles there is one above the others.
LEMMA Highest ==
    ASSUME RanksInv, NEW Q \in SUBSET roles, Q # {}, roles \subseteq Role
    PROVE  \E r \in Q : \A s \in Q : rank[s] =< rank[r]
<1> DEFINE n == Cardinality(Role)
           below == {k \in Nat : \E r \in Q : k = n - rank[r]}
<1>1. n \in Nat
  BY RolesAssumption, FS_CardinalityType
<1>2. \A r \in Q : rank[r] \in Nat /\ rank[r] =< n /\ n - rank[r] \in below
  BY <1>1 DEF RanksInv
<1>3. PICK k \in below : \A m \in below : k =< m
  <2>1. below \in SUBSET Nat /\ below # {}
    BY <1>2
  <2> HIDE DEF below
  <2> QED
    BY <2>1, Least
<1>4. PICK r \in Q : k = n - rank[r]
  OBVIOUS
<1>5. ASSUME NEW s \in Q PROVE rank[s] =< rank[r]
  <2>1. k =< n - rank[s]
    BY <1>2, <1>3
  <2> QED
    BY <1>1, <1>2, <1>4, <2>1
<1> QED
  BY <1>4, <1>5

\* The highest rank a user has is the rank of a role, or -1.
LEMMA HighestRankOf ==
    ASSUME RolesInv, NEW u
    PROVE  /\ R!HighestRank(u) \in Int /\ R!HighestRank(u) >= -1
           /\ \A r \in R!RolesOf(u) : rank[r] =< R!HighestRank(u)
<1> DEFINE ranks == {rank[r] : r \in R!RolesOf(u)} \cup {-1}
<1>0. R!RolesOf(u) \subseteq roles /\ RanksInv /\ roles \subseteq Role
  BY DEF R!RolesOf, RolesInv, R!TypeOK
<1>1. ranks \subseteq Int
  BY <1>0 DEF RanksInv
<1>2. \E k \in ranks : \A m \in ranks : k >= m
  <2>1. CASE R!RolesOf(u) = {}
    BY <2>1
  <2>2. CASE R!RolesOf(u) # {}
    <3>1. PICK r \in R!RolesOf(u) : \A s \in R!RolesOf(u) : rank[s] =< rank[r]
      BY <1>0, <2>2, Highest
    <3>2. rank[r] \in Nat /\ \A s \in R!RolesOf(u) : rank[s] \in Nat
      BY <1>0 DEF RanksInv
    <3>3. \A m \in ranks : rank[r] >= m
      BY <3>1, <3>2
    <3> QED
      BY <3>3
  <2> QED
    BY <2>1, <2>2
<1>3. R!HighestRank(u) \in ranks /\ \A m \in ranks : R!HighestRank(u) >= m
  <2> HIDE DEF ranks
  <2>1. R!HighestRank(u) = CHOOSE k \in ranks : \A m \in ranks : k >= m
    BY DEF R!HighestRank, R!Max, ranks
  <2> QED
    BY <1>2, <2>1
<1> QED
  BY <1>1, <1>3, <1>0 DEF RanksInv

\* Of the roles that say something of a bit the one of the highest rank decides.
LEMMA HighestDecides ==
    ASSUME RolesInv, NEW u, NEW bit, NEW h \in R!RolesOf(u), Speaks(perm[h], bit),
           \A s \in R!RolesOf(u) : Speaks(perm[s], bit) => rank[s] =< rank[h]
    PROVE  bit \in R!Effective(R!Computed(u)) <=> bit \in R!Effective(perm[h])
<1> DEFINE of == R!RolesOf(u)
           s == R!ByRank(u)
           n == R!HighestRank(u) + 1
           i == rank[h] + 1
<1>1. of \subseteq roles /\ RanksInv /\ roles \subseteq Role
  BY DEF R!RolesOf, RolesInv, R!TypeOK
<1>2. n \in Nat /\ rank[h] \in Nat /\ i \in 1..n
  BY <1>1, HighestRankOf DEF RanksInv
<1>3. s = [k \in 1..n |-> R!Together({perm[r] : r \in {r \in of : rank[r] = k-1}})]
  BY DEF R!ByRank
<1> HIDE DEF s, n, of
<1>4. Len(s) = n
  BY <1>2, <1>3
<1>5. s[i].allow = perm[h].allow /\ s[i].deny = perm[h].deny
  <2>1. {r \in of : rank[r] = i-1} = {h}
    <3>1. i - 1 = rank[h]
      BY <1>2
    <3>2. \A r \in of : rank[r] = rank[h] <=> r = h
      BY <1>1 DEF RanksInv, of
    <3> QED
      BY <3>1, <3>2 DEF of
  <2>2. s[i] = R!Together({perm[r] : r \in {r \in of : rank[r] = i-1}})
    BY <1>2, <1>3
  <2>3. {perm[r] : r \in {h}} = {perm[h]}
    OBVIOUS
  <2> HIDE DEF i
  <2>4. s[i] = R!Together({perm[h]})
    BY <2>1, <2>2, <2>3
  <2> QED
    BY <2>4 DEF R!Together
<1>6. ASSUME NEW j \in 1..n, j > i PROVE ~Speaks(s[j], bit)
  <2> SUFFICES ASSUME Speaks(s[j], bit) PROVE FALSE
    OBVIOUS
  <2>1. s[j] = R!Together({perm[r] : r \in {r \in of : rank[r] = j-1}})
    BY <1>3
  <2>2. PICK r \in of : rank[r] = j-1 /\ Speaks(perm[r], bit)
    BY <2>1 DEF Speaks, R!Together
  <2>3. rank[r] =< rank[h]
    BY <2>2 DEF of
  <2> QED
    BY <1>2, <1>6, <2>2, <2>3
<1>7. Says(R!MergeAll(s), s[i], bit)
  <2> HIDE DEF i
  <2> QED
    BY <1>2, <1>4, <1>6, LastDecides
<1>8. R!Computed(u) = R!MergeAll(s)
  BY DEF R!Computed, s
<1> QED
  BY <1>5, <1>7, <1>8 DEF Says, Speaks, R!Effective

LEMMA RolesDecide == RolesInv => R!HighestRoleDecides
<1> SUFFICES ASSUME RolesInv, NEW u \in Person,
                    NEW bit \in UNION {perm[r].allow \cup perm[r].deny : r \in R!RolesOf(u)}
             PROVE  LET speaking == {r \in R!RolesOf(u) : bit \in perm[r].allow \cup perm[r].deny}
                        highest == CHOOSE r \in speaking : \A s \in speaking : rank[s] <= rank[r]
                    IN  bit \in R!Effective(R!Computed(u)) <=> bit \in R!Effective(perm[highest])
  BY DEF R!HighestRoleDecides, RolesInv, RanksInv
<1> DEFINE speaking == {r \in R!RolesOf(u) : bit \in perm[r].allow \cup perm[r].deny}
           highest == CHOOSE r \in speaking : \A s \in speaking : rank[s] <= rank[r]
<1>1. R!RolesOf(u) \subseteq roles /\ RanksInv /\ roles \subseteq Role
  BY DEF R!RolesOf, RolesInv, R!TypeOK
<1>2. speaking # {} /\ speaking \subseteq roles
  BY <1>1
<1> HIDE DEF speaking
<1>3. highest \in speaking /\ \A s \in speaking : rank[s] <= rank[highest]
  BY <1>1, <1>2, Highest
<1> HIDE DEF highest
<1>4. highest \in R!RolesOf(u) /\ Speaks(perm[highest], bit)
  BY <1>3 DEF speaking, Speaks
<1>5. \A s \in R!RolesOf(u) : Speaks(perm[s], bit) => rank[s] =< rank[highest]
  BY <1>3 DEF speaking, Speaks
<1>6. bit \in R!Effective(R!Computed(u)) <=> bit \in R!Effective(perm[highest])
  BY <1>4, <1>5, HighestDecides
<1> QED
  BY <1>6 DEF highest, speaking

LEMMA RolesShown == RolesInv => R!ShownAsAsked
<1> SUFFICES ASSUME RolesInv, NEW r \in roles, asked[r] # None
             PROVE  R!FromDb(perm[r]) = R!ShownFor(asked[r])
  BY DEF R!ShownAsAsked
<1>1. perm[r] = R!ToNew(asked[r][1], asked[r][2])
  BY DEF RolesInv, MadeInv, R!TypeOK
<1>2. R!ShownFor(<<asked[r][1], asked[r][2]>>) = R!ShownFor(asked[r])
  BY DEF R!ShownFor
<1> QED
  BY <1>1, <1>2, ShownAsMade

\* The v3 API shows of a role what it was made with; of the roles a user has the one of the
\* highest rank decides about each bit it speaks of; an edge leads to a role there is.
THEOREM RolesAlwaysHold == R!Spec => []RolesHold
<1>1. RolesInv => RolesHold
  BY RolesDecide, RolesShown DEF RolesInv, RolesHold
<1> QED
  BY <1>1, RolesBegin, RolesStep, PTL DEF R!Spec

-----------------------------------------------------------------------------
(* Bans *)

\* Why somebody has a bit.
LEMMA HasBecause ==
    ASSUME NEW p, NEW bit, R!Has(p, bit)
    PROVE  bit \in R!Effective(p) \/ R!IsAdmin(p) \/ <<bit[1], "Admin">> \in R!Effective(p)
<1>1. CASE bit[1] = "flags"
  BY <1>1 DEF R!Has, R!HasMask
<1>2. CASE bit[1] = "admin" /\ {bit} = {R!Super}
  <2>1. R!IsSuper(p)
    BY <1>2 DEF R!Has, R!HasMask
  <2>2. bit = R!Super
    BY <1>2
  <2> QED
    BY <2>1, <2>2 DEF R!IsSuper
<1>3. CASE bit[1] = "admin" /\ {bit} # {R!Super}
  <2>1. TRUE \in {R!IsAdmin(p), {bit} \subseteq R!Effective(p)}
    BY <1>3 DEF R!Has, R!HasMask
  <2> QED
    BY <2>1 DEF R!IsAdmin
<1>4. CASE bit[1] # "flags" /\ bit[1] # "admin"
  <2>1. TRUE \in {R!IsAdmin(p), {bit} \subseteq R!Effective(p), <<bit[1], "Admin">> \in R!Effective(p)}
    BY <1>4 DEF R!Has, R!HasMask
  <2> QED
    BY <2>1 DEF R!IsAdmin
<1> QED
  BY <1>1, <1>2, <1>3, <1>4

\* What the bans of a user say, each from when it ends.
LEMMA BansSay ==
    ASSUME RolesInv, NEW u, NEW s, s = R!ByEnd(u)
    PROVE  /\ Len(s) \in Nat
           /\ \A k \in 1..Len(s) : s[k].allow \subseteq {R!Hidden} /\ R!Hidden \notin s[k].deny
           /\ R!ActiveBans(u) = {} => \A k \in 1..Len(s) : \A bit : ~Speaks(s[k], bit)
           /\ \A b \in R!ActiveBans(u) : \E k \in 1..Len(s) :
                ban[b].perm.allow \subseteq s[k].allow /\ ban[b].perm.deny \subseteq s[k].deny
<1> DEFINE n == R!Forever
           of == R!ActiveBans(u)
           At(k) == {b \in of : ban[b].left = n + 1 - k}
<1>1. n \in Nat /\ n # 0
  BY RolesAssumption DEF R!Forever
<1>2. s = [k \in 1..n |-> R!Together({ban[b].perm : b \in At(k)})]
  BY DEF R!ByEnd
<1>3. \A b \in of : ban[b].perm \in BanPerms /\ ban[b].left \in 1..n
  <2> SUFFICES ASSUME NEW b \in of PROVE ban[b].perm \in BanPerms /\ ban[b].left \in 1..n
    OBVIOUS
  <2>1. b \in Ban /\ ban[b] # None /\ ban[b].left > 0
    BY DEF R!ActiveBans
  <2>2. ban[b] \in [user : Person, perm : BanPerms, left : 0..n]
    BY <2>1 DEF RolesInv, BanInv
  <2> HIDE DEF n
  <2> QED
    BY <1>1, <2>1, <2>2
<1> HIDE DEF n, of
<1>4. Len(s) = n
  BY <1>1, <1>2
<1>5. ASSUME NEW k \in 1..n
      PROVE  /\ \A bit : bit \in s[k].allow <=> \E b \in At(k) : bit \in ban[b].perm.allow
             /\ \A bit : bit \in s[k].deny <=> \E b \in At(k) : bit \in ban[b].perm.deny
  <2> DEFINE said == {ban[b].perm : b \in At(k)}
  <2>1. s[k] = R!Together(said)
    BY <1>2
  <2> HIDE DEF said, At
  <2>2. s[k].allow = UNION {p.allow : p \in said} /\ s[k].deny = UNION {p.deny : p \in said}
    BY <2>1 DEF R!Together
  <2>3. /\ \A bit : bit \in s[k].allow <=> \E p \in said : bit \in p.allow
        /\ \A bit : bit \in s[k].deny <=> \E p \in said : bit \in p.deny
    BY <2>2
  <2> QED
    BY <2>3 DEF said
<1>6. ASSUME NEW k \in 1..n PROVE s[k].allow \subseteq {R!Hidden} /\ R!Hidden \notin s[k].deny
  <2>1. \A b \in At(k) : ban[b].perm.allow \subseteq {R!Hidden} /\ R!Hidden \notin ban[b].perm.deny
    BY <1>3 DEF BanPerms
  <2> HIDE DEF At
  <2> QED
    BY <1>5, <2>1
<1>7. ASSUME of = {}, NEW k \in 1..n, NEW bit PROVE ~Speaks(s[k], bit)
  <2>1. At(k) = {}
    BY <1>7
  <2> HIDE DEF At
  <2> QED
    BY <1>5, <2>1 DEF Speaks
<1>8. ASSUME NEW b \in of
      PROVE  \E k \in 1..n : ban[b].perm.allow \subseteq s[k].allow /\ ban[b].perm.deny \subseteq s[k].deny
  <2> DEFINE k == n + 1 - ban[b].left
  <2>1. k \in 1..n /\ ban[b].left = n + 1 - k
    BY <1>1, <1>3
  <2>2. b \in At(k)
    BY <2>1
  <2> HIDE DEF k, At
  <2>4. ban[b].perm.allow \subseteq s[k].allow /\ ban[b].perm.deny \subseteq s[k].deny
    BY <1>5, <2>1, <2>2
  <2> QED
    BY <2>1, <2>4
<1> QED
  BY <1>1, <1>4, <1>6, <1>7, <1>8 DEF of

LEMMA BansAreLast ==
    ASSUME RolesInv, NEW u, NEW b \in R!ActiveBans(u)
    PROVE  /\ ban[b].perm.allow \subseteq R!Effective(R!Full(u))
           /\ ban[b].perm.deny \cap R!Effective(R!Full(u)) = {}
<1> DEFINE s == R!ByEnd(u)
           m == R!MergeAll(s)
<1>1. PICK k \in 1..Len(s) : ban[b].perm.allow \subseteq s[k].allow /\ ban[b].perm.deny \subseteq s[k].deny
  BY BansSay
<1>2. Len(s) \in Nat /\ \A j \in 1..Len(s) : s[j].allow \subseteq {R!Hidden} /\ R!Hidden \notin s[j].deny
  BY BansSay
<1>3. R!Full(u) = R!Merge(R!Computed(u), m)
  BY DEF R!Full, R!BanOf
<1> HIDE DEF s
<1>4. ASSUME NEW bit \in ban[b].perm.allow PROVE bit \in R!Effective(R!Full(u))
  <2>1. bit = R!Hidden /\ Speaks(s[k], bit)
    BY <1>1, <1>2 DEF Speaks
  <2>2. PICK i \in 1..Len(s) : Speaks(s[i], bit) /\ \A j \in 1..Len(s) : j > i => ~Speaks(s[j], bit)
    BY <1>2, <2>1, LastSpeaker
  <2>3. bit \in s[i].allow \ s[i].deny
    BY <1>2, <2>1, <2>2 DEF Speaks
  <2>4. bit \in m.allow /\ bit \notin m.deny
    BY <1>2, <2>2, <2>3, LastDecides DEF Says
  <2> HIDE DEF m
  <2> QED
    BY <1>3, <2>4 DEF R!Merge, R!Effective
<1>5. ASSUME NEW bit \in ban[b].perm.deny PROVE bit \notin R!Effective(R!Full(u))
  <2>1. bit # R!Hidden /\ Speaks(s[k], bit)
    BY <1>1, <1>2 DEF Speaks
  <2>2. PICK i \in 1..Len(s) : Speaks(s[i], bit) /\ \A j \in 1..Len(s) : j > i => ~Speaks(s[j], bit)
    BY <1>2, <2>1, LastSpeaker
  <2>3. bit \in s[i].deny
    BY <1>2, <2>1, <2>2 DEF Speaks
  <2>4. bit \in m.deny /\ bit \notin m.allow
    BY <1>2, <2>2, <2>3, LastDecides DEF Says
  <2> HIDE DEF m
  <2> QED
    BY <1>3, <2>4 DEF R!Merge, R!Effective
<1> QED
  BY <1>4, <1>5

\* Without a ban the roles alone decide.
LEMMA NoBanSaysNothing ==
    ASSUME RolesInv, NEW u, R!ActiveBans(u) = {}
    PROVE  R!Full(u) = R!Computed(u)
<1> DEFINE s == R!ByEnd(u)
           m == R!MergeAll(s)
           p == R!Computed(u)
<1>1. Len(s) \in Nat /\ \A k \in 1..Len(s) : \A bit : ~Speaks(s[k], bit)
  BY BansSay
<1>2. \A bit : ~Speaks(m, bit)
  <2> HIDE DEF s
  <2> QED
    BY <1>1, SilentMerge
<1>3. p = [allow |-> p.allow, deny |-> p.deny]
  <2>1. Len(R!ByRank(u)) \in Nat
    BY HighestRankOf DEF R!ByRank
  <2> QED
    BY <2>1, MergeForm DEF R!Computed
<1>4. R!Full(u) = R!Merge(p, m)
  BY DEF R!Full, R!BanOf
<1> HIDE DEF m, p
<1>5. m.allow = {} /\ m.deny = {}
  BY <1>2 DEF Speaks
<1>6. R!Merge(p, m) = [allow |-> p.allow, deny |-> p.deny]
  BY <1>5 DEF R!Merge
<1> QED
  BY <1>3, <1>4, <1>6 DEF p

\* While a ban is active its user does not have what it denies, unless by a bit that stands for
\* more, whatever roles he has or gets; without one the roles alone decide.
THEOREM BansAlwaysBite == R!Spec => []BansBite
<1>1. RolesInv => BansBite
  <2> SUFFICES ASSUME RolesInv, NEW u \in Person
               PROVE  LET active == {b \in Ban : ban[b] # None /\ ban[b].user = u /\ ban[b].left > 0}
                          full == R!Full(u)
                          has == R!Effective(full)
                      IN  /\ \A b \in active :
                              /\ ban[b].perm.allow \subseteq has
                              /\ \A bit \in ban[b].perm.deny :
                                    R!Has(full, bit) => R!IsAdmin(full) \/ <<bit[1], "Admin">> \in has
                          /\ active = {} => full = R!Computed(u)
    BY DEF BansBite, R!BansBite
  <2>1. {b \in Ban : ban[b] # None /\ ban[b].user = u /\ ban[b].left > 0} = R!ActiveBans(u)
    BY DEF RolesInv, BanInv, R!ActiveBans
  <2>2. ASSUME NEW b \in R!ActiveBans(u), NEW bit \in ban[b].perm.deny, R!Has(R!Full(u), bit)
        PROVE  R!IsAdmin(R!Full(u)) \/ <<bit[1], "Admin">> \in R!Effective(R!Full(u))
    BY <2>2, BansAreLast, HasBecause
  <2>3. \A b \in R!ActiveBans(u) : ban[b].perm.allow \subseteq R!Effective(R!Full(u))
    BY BansAreLast
  <2>4. R!ActiveBans(u) = {} => R!Full(u) = R!Computed(u)
    BY NoBanSaysNothing
  <2> QED
    BY <2>1, <2>2, <2>3, <2>4
<1> QED
  BY <1>1, RolesBegin, RolesStep, PTL DEF R!Spec

-----------------------------------------------------------------------------

\* The composed run of MCLibrary is a behaviour of each of its parts.
THEOREM LibraryRunIsEachPart == MCSpec => Spec /\ S!Spec /\ R!Spec /\ D!Spec
<1>1. MCInit => Init /\ S!Init /\ R!Init /\ D!Init
  BY DEF MCInit
<1> DEFINE Run == AccountsNext \/ SetNext \/ RolesNext \/ EditorsNext
<1>2. [Run]_<<part, vars, set, rights, editing>> =>
        [Next]_vars /\ [S!Next]_(S!vars) /\ [R!Next]_(R!rolesVars) /\ [D!Next]_(D!editorsVars)
  <2>1. ASSUME UNCHANGED set PROVE UNCHANGED S!vars
    BY <2>1 DEF set, S!vars
  <2>2. ASSUME UNCHANGED rights PROVE UNCHANGED R!rolesVars
    BY <2>2 DEF rights, R!rolesVars
  <2>3. ASSUME UNCHANGED editing PROVE UNCHANGED D!editorsVars
    BY <2>3 DEF editing, D!editorsVars
  <2> QED
    BY <2>1, <2>2, <2>3 DEF AccountsNext, SetNext, RolesNext, EditorsNext
<1> QED
  BY <1>1, <1>2, PTL DEF MCSpec, Spec, S!Spec, R!Spec, D!Spec
=============================================================================
