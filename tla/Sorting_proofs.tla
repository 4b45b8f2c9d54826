----------------------------- MODULE Sorting_proofs -----------------------------
(***************************************************************************)
(* What the lists of Sorting are for every finite set and every order: the *)
(* members, each of them once, in that order.                              *)
(***************************************************************************)
EXTENDS Sorting, FiniteSetTheorems, TLAPS

\* The relation tells any two members of S apart, one way.
Orders(before, S) ==
    /\ \A x \in S : <<x, x>> \notin before
    /\ \A x, y, z \in S : <<x, y>> \in before /\ <<y, z>> \in before => <<x, z>> \in before
    /\ \A x, y \in S : x = y \/ <<x, y>> \in before \/ <<y, x>> \in before

\* A list of the members of S that goes up.
Lists(s, S, before) ==
    /\ s \in [1 .. Cardinality(S) -> S]
    /\ \A x \in S : \E i \in 1 .. Cardinality(S) : s[i] = x
    /\ \A i, j \in 1 .. Cardinality(S) : i < j <=> <<s[i], s[j]>> \in before

\* The members before x are fewer than the members before any that follows x.
LEMMA EarlierIsLess ==
    ASSUME NEW S, IsFiniteSet(S), NEW before, Orders(before, S), NEW x \in S
    PROVE  /\ Cardinality(Earlier(S, before, x)) \in 0 .. Cardinality(S) - 1
           /\ \A y \in S : <<x, y>> \in before =>
                Cardinality(Earlier(S, before, x)) < Cardinality(Earlier(S, before, y))
<1> DEFINE E(y) == Earlier(S, before, y)
<1>1. \A y \in S : E(y) \in SUBSET S /\ IsFiniteSet(E(y)) /\ Cardinality(E(y)) \in Nat
  <2> TAKE y \in S
  <2>1. E(y) \in SUBSET S
    BY DEF Earlier
  <2> QED
    BY <2>1, FS_Subset, FS_CardinalityType
<1>2. Cardinality(S) \in Nat
  BY FS_CardinalityType
<1>3. Cardinality(E(x)) <= Cardinality(S) /\ Cardinality(E(x)) # Cardinality(S)
  <2>1. x \notin E(x)
    BY DEF Orders, Earlier
  <2> QED
    BY <1>1, <2>1, FS_Subset
<1>4. ASSUME NEW y \in S, <<x, y>> \in before PROVE Cardinality(E(x)) < Cardinality(E(y))
  <2>1. E(x) \in SUBSET E(y) /\ x \in E(y) /\ x \notin E(x)
    BY <1>4 DEF Orders, Earlier
  <2>2. Cardinality(E(x)) <= Cardinality(E(y)) /\ Cardinality(E(x)) # Cardinality(E(y))
    BY <1>1, <2>1, FS_Subset
  <2> QED
    BY <1>1, <2>2
<1> QED
  BY <1>1, <1>2, <1>3, <1>4

(***************************************************************************)
(* A list in the order of a relation that orders the set is such a list.   *)
(***************************************************************************)
LEMMA InOrderLists ==
    ASSUME NEW S, IsFiniteSet(S), NEW before, Orders(before, S)
    PROVE  Lists(InOrder(S, before), S, before)
<1> DEFINE n == Cardinality(S)
           place == [x \in S |-> Cardinality(Earlier(S, before, x)) + 1]
           s == InOrder(S, before)
<1>1. n \in Nat
  BY FS_CardinalityType
<1>2. place \in [S -> 1 .. n]
  BY <1>1, EarlierIsLess
<1>3. \A x, y \in S : <<x, y>> \in before => place[x] < place[y]
  BY EarlierIsLess
<1> HIDE DEF place
<1>a. \A x \in S : place[x] \in Int
  BY <1>1, <1>2
<1>4. ASSUME NEW x \in S, NEW y \in S, place[x] = place[y] PROVE x = y
  <2>1. ~(place[x] < place[y]) /\ ~(place[y] < place[x])
    BY <1>4, <1>a
  <2> QED
    BY <1>3, <2>1 DEF Orders
<1>5. ASSUME NEW x \in S, NEW y \in S PROVE place[x] < place[y] <=> <<x, y>> \in before
  <2>1. CASE x = y
    BY <1>a, <2>1 DEF Orders
  <2>2. CASE <<x, y>> \in before
    BY <1>3, <2>2
  <2>3. CASE <<y, x>> \in before
    <3>1. place[y] < place[x] /\ <<x, y>> \notin before
      BY <1>3, <2>3 DEF Orders
    <3> QED
      BY <1>a, <3>1
  <2> QED
    BY <2>1, <2>2, <2>3 DEF Orders
<1>6. place \in Injection(S, 1 .. n)
  BY <1>2, <1>4 DEF Injection, IsInjective
<1>7. IsFiniteSet(1 .. n) /\ Cardinality(1 .. n) = n
  BY <1>1, FS_Interval
<1>8. place \in Surjection(S, 1 .. n)
  BY <1>6, <1>7, FS_Injection
<1>9. \A i \in 1 .. n : \E x \in S : place[x] = i
  BY <1>8 DEF Surjection
<1>10. \A i \in 1 .. n : s[i] = CHOOSE x \in S : place[x] = i
  <2> TAKE i \in 1 .. n
  <2>1. s[i] = CHOOSE x \in S : Cardinality(Earlier(S, before, x)) = i - 1
    BY DEF InOrder
  <2>2. \A x \in S : place[x] = i <=> Cardinality(Earlier(S, before, x)) = i - 1
    BY <1>1, EarlierIsLess DEF place
  <2>3. (CHOOSE x \in S : place[x] = i) = CHOOSE x \in S : Cardinality(Earlier(S, before, x)) = i - 1
    BY <2>2
  <2> QED
    BY <2>1, <2>3
<1>11. \A i \in 1 .. n : s[i] \in S /\ place[s[i]] = i
  BY <1>9, <1>10
<1>12. s \in [1 .. n -> S]
  BY <1>11 DEF InOrder
<1>13. \A x \in S : place[x] \in 1 .. n /\ s[place[x]] = x
  BY <1>2, <1>4, <1>11
<1>14. \A i, j \in 1 .. n : i < j <=> <<s[i], s[j]>> \in before
  BY <1>5, <1>11
<1> HIDE DEF s, n
<1>15. \A x \in S : \E i \in 1 .. n : s[i] = x
  BY <1>13
<1> QED
  BY <1>12, <1>14, <1>15 DEF Lists, s, n

(***************************************************************************)
(* There is no other.                                                      *)
(***************************************************************************)
LEMMA OneList ==
    ASSUME NEW S, IsFiniteSet(S), NEW before, Orders(before, S), NEW s, Lists(s, S, before)
    PROVE  s = InOrder(S, before)
<1> DEFINE n == Cardinality(S)
           t == InOrder(S, before)
<1>1. n \in Nat
  BY FS_CardinalityType
<1>2. s \in [1 .. n -> S] /\ t \in [1 .. n -> S]
  BY InOrderLists DEF Lists
<1>3. ASSUME NEW i \in 1 .. n PROVE t[i] = s[i]
  <2> DEFINE E == Earlier(S, before, s[i])
             low == [j \in 1 .. i - 1 |-> s[j]]
  <2>1. s[i] \in S
    BY <1>2
  <2>2. \A j \in 1 .. n : j < i <=> s[j] \in E
    BY <1>2 DEF Lists, Earlier
  <2>3. \A x \in E : \E j \in 1 .. n : s[j] = x
    BY DEF Lists, Earlier
  <2>4. ASSUME NEW j \in 1 .. n, NEW k \in 1 .. n, s[j] = s[k] PROVE j = k
    <3>1. ~(j < k) /\ ~(k < j)
      BY <1>2, <2>4 DEF Lists, Orders
    <3> QED
      BY <1>1, <3>1
  <2>5. 1 .. i - 1 \subseteq 1 .. n /\ \A j \in 1 .. n : j < i <=> j \in 1 .. i - 1
    BY <1>1
  <2> HIDE DEF E
  <2>6. low \in [1 .. i - 1 -> E]
    BY <2>2, <2>5
  <2>7. \A x \in E : \E j \in 1 .. i - 1 : low[j] = x
    BY <2>2, <2>3, <2>5
  <2>8. \A j, k \in 1 .. i - 1 : low[j] = low[k] => j = k
    BY <2>4, <2>5
  <2>9. low \in Bijection(1 .. i - 1, E)
    BY <2>6, <2>7, <2>8 DEF Bijection, Injection, IsInjective, Surjection
  <2>10. ExistsBijection(1 .. i - 1, E)
    BY <2>9 DEF ExistsBijection
  <2>11. Cardinality(E) = i - 1
    BY <1>1, <2>10, FS_CountingElements
  <2>12. t[i] = CHOOSE x \in S : Cardinality(Earlier(S, before, x)) = i - 1
    BY DEF InOrder
  <2>13. t[i] \in S /\ Cardinality(Earlier(S, before, t[i])) = i - 1
    BY <2>1, <2>11, <2>12 DEF E
  <2>14. \A x \in S : <<x, s[i]>> \in before => Cardinality(Earlier(S, before, x)) < i - 1
    BY <2>1, <2>11, EarlierIsLess DEF E
  <2>15. \A x \in S : <<s[i], x>> \in before => i - 1 < Cardinality(Earlier(S, before, x))
    BY <2>1, <2>11, EarlierIsLess DEF E
  <2>16. i - 1 \in Int /\ ~(i - 1 < i - 1)
    BY <1>1
  <2>17. <<t[i], s[i]>> \notin before /\ <<s[i], t[i]>> \notin before
    <3> DEFINE k == i - 1
    <3>1. /\ \A x \in S : <<x, s[i]>> \in before => Cardinality(Earlier(S, before, x)) < k
          /\ \A x \in S : <<s[i], x>> \in before => k < Cardinality(Earlier(S, before, x))
          /\ Cardinality(Earlier(S, before, t[i])) = k /\ ~(k < k)
      BY <2>13, <2>14, <2>15, <2>16
    <3> HIDE DEF k
    <3> QED
      BY <2>13, <3>1
  <2> QED
    BY <2>1, <2>13, <2>17 DEF Orders
<1> HIDE DEF n, t
<1>4. s = [i \in 1 .. n |-> s[i]] /\ t = [i \in 1 .. n |-> t[i]]
  BY <1>2
<1>5. [i \in 1 .. n |-> s[i]] = [i \in 1 .. n |-> t[i]]
  BY <1>3
<1> QED
  BY <1>4, <1>5 DEF t
(***************************************************************************)
(* A part of the set that comes before the rest makes the beginning of the *)
(* list.                                                                   *)
(***************************************************************************)
LEMMA ListsJoin ==
    ASSUME NEW A, NEW B, IsFiniteSet(A), IsFiniteSet(B), NEW before, Orders(before, A \cup B),
           \A a \in A, b \in B : <<a, b>> \in before
    PROVE  InOrder(A, before) \o InOrder(B, before) = InOrder(A \cup B, before)
<1> DEFINE m == Cardinality(A)
           n == Cardinality(B)
           s == InOrder(A, before)
           t == InOrder(B, before)
           j == s \o t
<1>1. m \in Nat /\ n \in Nat
  BY FS_CardinalityType
<1>2. A \cap B = {}
  BY DEF Orders
<1>3. IsFiniteSet(A \cup B) /\ Cardinality(A \cup B) = m + n
  <2>1. Cardinality(A \cup B) = Cardinality(A) + Cardinality(B) - Cardinality(A \cap B)
    BY FS_Union
  <2>2. Cardinality(A \cap B) = 0
    BY <1>2, FS_EmptySet
  <2> QED
    BY <1>1, <2>1, <2>2, FS_Union
<1>4. Orders(before, A) /\ Orders(before, B)
  BY DEF Orders
<1>5. Lists(s, A, before) /\ Lists(t, B, before)
  BY <1>4, InOrderLists
<1> HIDE DEF s, t
<1>6. s \in Seq(A) /\ Len(s) = m /\ t \in Seq(B) /\ Len(t) = n
  BY <1>1, <1>5 DEF Lists
<1>7. j \in Seq(A \cup B) /\ Len(j) = m + n
  BY <1>1, <1>6
<1>8. \A i \in 1 .. m : i \in 1 .. m + n /\ j[i] = s[i] /\ j[i] \in A
  BY <1>1, <1>6
<1>9. \A i \in 1 .. n : m + i \in 1 .. m + n /\ j[m + i] = t[i] /\ j[m + i] \in B
  BY <1>1, <1>6
<1>10. \A i \in 1 .. m + n : i \in 1 .. m \/ \E k \in 1 .. n : i = m + k
  <2> TAKE i \in 1 .. m + n
  <2>1. CASE i <= m
    BY <1>1, <2>1
  <2>2. CASE ~(i <= m)
    <3>1. i - m \in 1 .. n /\ i = m + (i - m)
      BY <1>1, <2>2
    <3> QED
      BY <3>1
  <2> QED
    BY <2>1, <2>2
<1> HIDE DEF j
<1>11. ASSUME NEW x \in A \cup B PROVE \E i \in 1 .. m + n : j[i] = x
  <2>1. CASE x \in A
    BY <1>5, <1>8, <2>1 DEF Lists
  <2>2. CASE x \in B
    <3>1. PICK i \in 1 .. n : t[i] = x
      BY <1>5, <2>2 DEF Lists
    <3> QED
      BY <1>9, <3>1
  <2> QED
    BY <2>1, <2>2
<1>12. ASSUME NEW i \in 1 .. m + n, NEW k \in 1 .. m + n PROVE i < k <=> <<j[i], j[k]>> \in before
  <2>1. CASE i \in 1 .. m /\ k \in 1 .. m
    BY <1>5, <1>8, <2>1 DEF Lists
  <2>2. ASSUME i \in 1 .. m, NEW q \in 1 .. n, k = m + q PROVE i < k <=> <<j[i], j[k]>> \in before
    <3>1. <<j[i], j[k]>> \in before
      BY <1>8, <1>9, <2>2
    <3> QED
      BY <1>1, <2>2, <3>1
  <2>3. ASSUME NEW p \in 1 .. n, i = m + p, k \in 1 .. m PROVE i < k <=> <<j[i], j[k]>> \in before
    <3>1. <<j[k], j[i]>> \in before /\ j[k] \in A \cup B /\ j[i] \in A \cup B
      BY <1>8, <1>9, <2>3
    <3>2. <<j[i], j[k]>> \notin before
      BY <3>1 DEF Orders
    <3> QED
      BY <1>1, <2>3, <3>2
  <2>4. ASSUME NEW p \in 1 .. n, i = m + p, NEW q \in 1 .. n, k = m + q
        PROVE  i < k <=> <<j[i], j[k]>> \in before
    <3>1. p < q <=> <<t[p], t[q]>> \in before
      BY <1>5 DEF Lists
    <3>2. j[i] = t[p] /\ j[k] = t[q]
      BY <1>9, <2>4
    <3> QED
      BY <1>1, <2>4, <3>1, <3>2
  <2> QED
    BY <1>10, <2>1, <2>2, <2>3, <2>4
<1>13. j \in [1 .. m + n -> A \cup B]
  BY <1>7
<1>14. Lists(j, A \cup B, before)
  BY <1>3, <1>11, <1>12, <1>13 DEF Lists
<1>15. j = InOrder(A \cup B, before)
  BY <1>3, <1>14, OneList
<1> QED
  BY <1>15 DEF j, s, t

(***************************************************************************)
(* Only the order of the members counts.                                   *)
(***************************************************************************)
LEMMA OrderOfMembers ==
    ASSUME NEW S, NEW one, NEW other,
           \A x, y \in S : <<x, y>> \in one <=> <<x, y>> \in other
    PROVE  InOrder(S, one) = InOrder(S, other)
<1>1. \A x \in S : Earlier(S, one, x) = Earlier(S, other, x)
  BY DEF Earlier
<1> DEFINE first(i)  == CHOOSE x \in S : Cardinality(Earlier(S, one, x)) = i - 1
           second(i) == CHOOSE x \in S : Cardinality(Earlier(S, other, x)) = i - 1
<1>2. \A i : first(i) = second(i)
  BY <1>1
<1>3. /\ InOrder(S, one) = [i \in 1 .. Cardinality(S) |-> first(i)]
      /\ InOrder(S, other) = [i \in 1 .. Cardinality(S) |-> second(i)]
  BY DEF InOrder
<1> HIDE DEF first, second
<1> QED
  BY <1>2, <1>3

(***************************************************************************)
(* Numbers that go up.                                                     *)
(***************************************************************************)
LEMMA NumbersAreOrdered ==
    ASSUME NEW S, S \subseteq Int
    PROVE  Orders({p \in S \X S : p[1] < p[2]}, S)
<1>1. \A x, y \in S : <<x, y>> \in {p \in S \X S : p[1] < p[2]} <=> x < y
  OBVIOUS
<1> QED
  BY <1>1 DEF Orders

\* Ascending is the list of a set of numbers that goes up.
LEMMA AscendingLists ==
    ASSUME NEW S, S \subseteq Int, IsFiniteSet(S)
    PROVE  /\ Cardinality(S) \in Nat
           /\ Ascending(S) \in Seq(S) /\ Len(Ascending(S)) = Cardinality(S)
           /\ Ascending(S) \in [1 .. Cardinality(S) -> S]
           /\ \A x \in S : \E i \in 1 .. Cardinality(S) : Ascending(S)[i] = x
           /\ \A i, j \in 1 .. Cardinality(S) : i < j <=> Ascending(S)[i] < Ascending(S)[j]
<1> DEFINE less == {p \in S \X S : p[1] < p[2]}
           s == Ascending(S)
<1>1. Lists(s, S, less)
  BY NumbersAreOrdered, InOrderLists DEF Ascending
<1>2. \A x, y \in S : <<x, y>> \in less <=> x < y
  OBVIOUS
<1>3. Cardinality(S) \in Nat
  BY FS_CardinalityType
<1> HIDE DEF less, s
<1>4. s \in [1 .. Cardinality(S) -> S]
  BY <1>1 DEF Lists
<1>5. s \in Seq(S) /\ Len(s) = Cardinality(S)
  BY <1>3, <1>4
<1>6. ASSUME NEW i \in 1 .. Cardinality(S), NEW j \in 1 .. Cardinality(S) PROVE i < j <=> s[i] < s[j]
  <2>1. s[i] \in S /\ s[j] \in S
    BY <1>4
  <2>2. i < j <=> <<s[i], s[j]>> \in less
    BY <1>1 DEF Lists
  <2> QED
    BY <1>2, <2>1, <2>2
<1>7. \A x \in S : \E i \in 1 .. Cardinality(S) : s[i] = x
  BY <1>1 DEF Lists
<1> QED
  BY <1>3, <1>4, <1>5, <1>6, <1>7 DEF s

\* The lists of two sets, one below the other, join to the list of both.
LEMMA AscendingJoins ==
    ASSUME NEW A, NEW B, IsFiniteSet(A), IsFiniteSet(B), A \cup B \subseteq Int,
           \A a \in A, b \in B : a < b
    PROVE  Ascending(A) \o Ascending(B) = Ascending(A \cup B)
<1> DEFINE less(S) == {p \in S \X S : p[1] < p[2]}
           all == less(A \cup B)
<1>1. InOrder(A, less(A)) = InOrder(A, all)
  BY OrderOfMembers
<1>2. InOrder(B, less(B)) = InOrder(B, all)
  BY OrderOfMembers
<1>3. \A a \in A, b \in B : <<a, b>> \in all
  OBVIOUS
<1>4. Orders(all, A \cup B)
  BY NumbersAreOrdered
<1> HIDE DEF all
<1>5. InOrder(A, all) \o InOrder(B, all) = InOrder(A \cup B, all)
  BY ZenonT(30), <1>3, <1>4, ListsJoin
<1> QED
  BY <1>1, <1>2, <1>5 DEF Ascending, all

(***************************************************************************)
(* Numbers.                                                                *)
(***************************************************************************)
\* A set of numbers that is not empty has a least one.
LEMMA NatMin == ASSUME NEW T, T \subseteq Nat, T # {} PROVE \E m \in T : \A n \in T : m <= n
<1> DEFINE Segments == {0 .. n : n \in T}
<1>1. IsWellFoundedOn(StrictSubsetOrdering(Nat), FiniteSubsetsOf(Nat))
  BY FS_StrictSubsetOrderingWellFounded
<1>2. Segments \subseteq FiniteSubsetsOf(Nat) /\ Segments # {}
  <2>1. \A n \in T : 0 .. n \subseteq Nat /\ IsFiniteSet(0 .. n)
    BY FS_Interval
  <2> QED BY <2>1 DEF FiniteSubsetsOf
<1>3. PICK s \in Segments : \A u \in Segments : ~ (<<u, s>> \in StrictSubsetOrdering(Nat))
  BY <1>1, <1>2, WFMin
<1>4. PICK m \in T : s = 0 .. m
  OBVIOUS
<1>5. ASSUME NEW n \in T, n < m PROVE FALSE
  <2>1. 0 .. n \subseteq 0 .. m /\ 0 .. n \subseteq Nat /\ 0 .. m \subseteq Nat /\ m \in 0 .. m
           /\ m \notin 0 .. n
    BY <1>5
  <2>2. <<0 .. n, 0 .. m>> \in StrictSubsetOrdering(Nat)
    BY <2>1 DEF StrictSubsetOrdering
  <2> QED BY <1>3, <1>4, <2>2
<1> QED BY <1>5

\* And a greatest one, when it is bounded.
LEMMA NatMax == ASSUME NEW N \in Nat, NEW T, T \subseteq 0 .. N, T # {} PROVE \E m \in T : \A n \in T : n <= m
<1> DEFINE U == {N - n : n \in T}
<1>0. \A n \in T : N - n \in Nat
  OBVIOUS
<1>1. U \subseteq Nat /\ U # {}
  BY <1>0
<1> HIDE DEF U
<1>2. PICK d \in U : \A e \in U : d <= e
  BY <1>1, NatMin
<1>3. PICK m \in T : d = N - m
  BY DEF U
<1>4. \A n \in T : N - n \in U
  BY DEF U
<1>5. \A n \in T : N - m <= N - n
  BY <1>2, <1>3, <1>4
<1> QED BY <1>5

(***************************************************************************)
(* Loops over a list.                                                      *)
(***************************************************************************)
\* What holds before the first turn and survives each turn holds after all of them.
LEMMA TurnByTurn ==
    ASSUME NEW N \in Nat, NEW T, 0 \in T, \A n \in 1 .. N : n - 1 \in T => n \in T
    PROVE  \A n \in 0 .. N : n \in T
<1> DEFINE bad == {n \in 0 .. N : n \notin T}
<1> SUFFICES ASSUME bad # {} PROVE FALSE
  OBVIOUS
<1>1. PICK m \in bad : \A n \in bad : m <= n
  <2>1. bad \subseteq Nat
    OBVIOUS
  <2> HIDE DEF bad
  <2> QED BY <2>1, NatMin
<1>2. m \in 1 .. N /\ m \notin T
  OBVIOUS
<1>3. m - 1 \in T
  BY <1>1, <1>2
<1> QED BY <1>2, <1>3

\* What a loop has come to after each of its first m turns.
LoopOf(g, m, S, first, turn) ==
    /\ g \in [0 .. m -> S] /\ g[0] = first
    /\ \A n \in 1 .. m : g[n] = turn[n][g[n - 1]]

\* There is a function that says so for all turns.
LEMMA LoopExists ==
    ASSUME NEW N \in Nat, NEW S, NEW first \in S, NEW turn \in [1 .. N -> [S -> S]]
    PROVE  \E g : LoopOf(g, N, S, first, turn)
<1> DEFINE T == {m \in 0 .. N : \E g : LoopOf(g, m, S, first, turn)}
<1>1. 0 \in T
  <2>1. LoopOf([n \in 0 .. 0 |-> first], 0, S, first, turn)
    BY DEF LoopOf
  <2> QED BY <2>1
<1>2. ASSUME NEW m \in 1 .. N, m - 1 \in T PROVE m \in T
  <2>1. PICK g : LoopOf(g, m - 1, S, first, turn)
    BY <1>2
  <2>2. g \in [0 .. m - 1 -> S] /\ turn[m][g[m - 1]] \in S
    BY <2>1 DEF LoopOf
  <2> DEFINE h == [n \in 0 .. m |-> IF n = m THEN turn[m][g[m - 1]] ELSE g[n]]
  <2>3. h \in [0 .. m -> S] /\ h[0] = first
    BY <2>1, <2>2 DEF LoopOf
  <2>4. ASSUME NEW n \in 1 .. m PROVE h[n] = turn[n][h[n - 1]]
    <3>1. h[n - 1] = g[n - 1]
      OBVIOUS
    <3> QED BY <2>1, <3>1 DEF LoopOf
  <2>5. LoopOf(h, m, S, first, turn)
    BY <2>3, <2>4 DEF LoopOf
  <2> QED BY <2>5
<1>3. N \in T
  <2> HIDE DEF T
  <2>1. \A m \in 1 .. N : m - 1 \in T => m \in T
    BY <1>2
  <2>2. \A n \in 0 .. N : n \in T
    BY ONLY <1>1, <2>1, N \in Nat, TurnByTurn
  <2> QED BY <2>2
<1> QED BY <1>3

(***************************************************************************)
(* The members of a list at some of its places.                            *)
(***************************************************************************)
LEMMA ThoseAreListed ==
    ASSUME NEW T, NEW s \in Seq(T), NEW P, P \subseteq DOMAIN s
    PROVE  /\ Those(s, P) \in Seq(T) /\ Len(Those(s, P)) <= Len(s)
           /\ \A k \in DOMAIN Those(s, P) : \E i \in P : Those(s, P)[k] = s[i]
           /\ \A k, m \in DOMAIN Those(s, P) : k < m =>
                \E i, j \in P : i < j /\ Those(s, P)[k] = s[i] /\ Those(s, P)[m] = s[j]
<1> DEFINE at == Ascending(P)
           n == Cardinality(P)
           those == Those(s, P)
<1>1. DOMAIN s = 1 .. Len(s) /\ Len(s) \in Nat /\ \A i \in DOMAIN s : s[i] \in T
  OBVIOUS
<1>2. \A m \in Nat : IsFiniteSet(1 .. m) /\ Cardinality(1 .. m) = m
  BY FS_Interval
<1>3. IsFiniteSet(P) /\ n <= Len(s)
  <2>1. P \subseteq 1 .. Len(s) /\ IsFiniteSet(1 .. Len(s)) /\ Cardinality(1 .. Len(s)) = Len(s)
    BY <1>1, <1>2
  <2> QED BY <2>1, FS_Subset
<1>4. /\ n \in Nat /\ at \in Seq(P) /\ Len(at) = n /\ at \in [1 .. n -> P]
      /\ \A i, j \in 1 .. n : i < j <=> at[i] < at[j]
  <2>1. P \subseteq Int
    BY <1>1
  <2> QED BY <1>3, <2>1, AscendingLists
<1>5. those = [k \in 1 .. n |-> s[at[k]]]
  BY <1>4 DEF Those
<1> HIDE DEF at, n, those
<1>6. \A k \in 1 .. n : those[k] = s[at[k]] /\ at[k] \in P /\ s[at[k]] \in T
  BY <1>1, <1>4, <1>5
<1>7. those \in Seq(T) /\ Len(those) = n /\ DOMAIN those = 1 .. n
  BY <1>4, <1>5, <1>6
<1>8. \A k, m \in 1 .. n : k < m =>
        \E i, j \in P : i < j /\ those[k] = s[i] /\ those[m] = s[j]
  BY <1>4, <1>6
<1> QED BY <1>3, <1>6, <1>7, <1>8 DEF those
================================================================================
