------------------------- MODULE ConversationProofs -------------------------
(***************************************************************************)
(* The safety of Conversation, for any number of sessions, turns, messages *)
(* and operations, any limit of a read and any number of messages kept.    *)
(***************************************************************************)
EXTENDS Conversation, FiniteSetTheorems, SequenceTheorems, TLAPS

-----------------------------------------------------------------------------
(* Sorting. *)

\* A set of natural numbers has a least element.
LEMMA LeastExists ==
  ASSUME NEW T, T \subseteq Nat, T # {}
  PROVE  \E x \in T : \A y \in T : x <= y
<1>1. IsWellFoundedOn(OpToRel(<, Nat), Nat)
  BY NatLessThanWellFounded
<1>2. PICK x \in T : \A y \in T : <<y, x>> \notin OpToRel(<, Nat)
  BY <1>1, WFMin
<1>3. ASSUME NEW y \in T PROVE x <= y
  BY <1>2, ~(y < x) DEF OpToRel
<1> QED BY <1>3

\* R orders S strictly and totally.
StrictOrder(S, R) ==
  /\ \A x \in S : <<x, x>> \notin R
  /\ \A x, y, z \in S : <<x, y>> \in R /\ <<y, z>> \in R => <<x, z>> \in R
  /\ \A x, y \in S : x = y \/ <<x, y>> \in R \/ <<y, x>> \in R

\* s has each element of S once, in the order R.
Orders(s, S, R) ==
  /\ s \in [1..Cardinality(S) -> S]
  /\ \A x \in S : \E i \in 1..Cardinality(S) : s[i] = x
  /\ \A i, j \in 1..Cardinality(S) : i < j => <<s[i], s[j]>> \in R

Below(x, S, R) == {y \in S : <<y, x>> \in R}

\* What is below x is fewer than S.
LEMMA BelowType ==
  ASSUME NEW S, NEW R, IsFiniteSet(S), StrictOrder(S, R), NEW x \in S
  PROVE  /\ Cardinality(Below(x, S, R)) \in Nat
         /\ Cardinality(Below(x, S, R)) < Cardinality(S)
         /\ IsFiniteSet(Below(x, S, R))
<1>1. /\ IsFiniteSet(S \ {x})
      /\ Cardinality(S \ {x}) = Cardinality(S) - 1
  BY FS_RemoveElement
<1>2. Below(x, S, R) \in SUBSET (S \ {x})
  BY DEF Below, StrictOrder
<1>3. /\ IsFiniteSet(Below(x, S, R))
      /\ Cardinality(Below(x, S, R)) <= Cardinality(S \ {x})
  BY <1>1, <1>2, FS_Subset
<1>4. Cardinality(Below(x, S, R)) \in Nat /\ Cardinality(S) \in Nat
  BY <1>3, FS_CardinalityType
<1> QED BY <1>1, <1>3, <1>4

\* Of two elements the lower one has fewer below it.
LEMMA BelowLess ==
  ASSUME NEW S, NEW R, IsFiniteSet(S), StrictOrder(S, R),
         NEW x \in S, NEW y \in S, <<x, y>> \in R
  PROVE  Cardinality(Below(x, S, R)) < Cardinality(Below(y, S, R))
<1> DEFINE B == Below(x, S, R)
           D == Below(y, S, R)
<1>1. x \notin B
  BY DEF Below, StrictOrder
<1>2. B \cup {x} \in SUBSET D
  BY DEF Below, StrictOrder
<1>3. /\ IsFiniteSet(B) /\ IsFiniteSet(D)
      /\ Cardinality(B) \in Nat /\ Cardinality(D) \in Nat
  BY BelowType
<1> HIDE DEF B, D
<1>4. Cardinality(B \cup {x}) = Cardinality(B) + 1
  BY <1>1, <1>3, FS_AddElement
<1>5. Cardinality(B \cup {x}) <= Cardinality(D)
  BY <1>2, <1>3, FS_Subset
<1> QED BY <1>3, <1>4, <1>5 DEF B, D

\* Sorting a finite set puts each of its elements in its place.
LEMMA SortedOrders ==
  ASSUME NEW S, NEW R, IsFiniteSet(S), StrictOrder(S, R)
  PROVE  Orders(Sorted(S, R), S, R)
<1> DEFINE n == Cardinality(S)
           f == [x \in S |-> Cardinality(Below(x, S, R))]
           s == Sorted(S, R)
<1>1. n \in Nat
  BY FS_CardinalityType
<1>2. f \in [S -> 0..(n - 1)]
  BY <1>1, BelowType
<1>3. ASSUME NEW x \in S, NEW y \in S, f[x] = f[y] PROVE x = y
  <2>1. /\ f[x] \in Int /\ f[x] = Cardinality(Below(x, S, R))
        /\ f[y] = Cardinality(Below(y, S, R))
    BY <1>2, BelowType
  <2>2. /\ <<x, y>> \in R => f[x] < f[y]
        /\ <<y, x>> \in R => f[y] < f[x]
    BY <2>1, BelowLess
  <2> QED BY <1>3, <2>1, <2>2 DEF StrictOrder
<1>4. f \in Injection(S, 0..(n - 1))
  BY <1>2, <1>3 DEF Injection, IsInjective
<1>5. IsFiniteSet(0..(n - 1)) /\ Cardinality(0..(n - 1)) = n
  BY SMTT(30), <1>1, FS_Interval
<1>6. f \in Surjection(S, 0..(n - 1))
  <2> HIDE DEF f, n
  <2>1. Cardinality(S) = Cardinality(0..(n - 1))
    BY <1>5 DEF n
  <2> QED BY <1>4, <1>5, <2>1, FS_Injection
<1>7. \A i \in 1..n : \E x \in S : f[x] = i - 1
  <2>1. \A k \in 0..(n - 1) : \E x \in S : f[x] = k
    BY <1>6 DEF Surjection
  <2> HIDE DEF f, n
  <2>2. \A i \in 1..n : i - 1 \in 0..(n - 1)
    BY <1>1
  <2> QED BY <2>1, <2>2
<1>8. s = [i \in 1..n |->
             CHOOSE x \in S : Cardinality({y \in S : <<y, x>> \in R}) = i - 1]
  BY DEF Sorted
<1>9. \A i \in 1..n : s[i] \in S /\ f[s[i]] = i - 1
  <2> SUFFICES ASSUME NEW i \in 1..n PROVE s[i] \in S /\ f[s[i]] = i - 1
    OBVIOUS
  <2>1. s[i] = CHOOSE x \in S : Cardinality({y \in S : <<y, x>> \in R}) = i - 1
    BY <1>8
  <2>2. \E x \in S : Cardinality({y \in S : <<y, x>> \in R}) = i - 1
    BY <1>7 DEF Below
  <2>3. /\ s[i] \in S
        /\ Cardinality({y \in S : <<y, s[i]>> \in R}) = i - 1
    BY <2>1, <2>2
  <2> QED BY <2>3 DEF Below
<1>10. s \in [1..n -> S]
  BY <1>8, <1>9
<1>11. \A x \in S : \E i \in 1..n : s[i] = x
  <2> SUFFICES ASSUME NEW x \in S PROVE \E i \in 1..n : s[i] = x
    OBVIOUS
  <2> HIDE DEF f, s, n
  <2>1. f[x] \in 0..(n - 1)
    BY <1>2
  <2>2. f[x] + 1 \in 1..n /\ (f[x] + 1) - 1 = f[x]
    BY <2>1, <1>1
  <2>3. s[f[x] + 1] \in S /\ f[s[f[x] + 1]] = f[x]
    BY <2>2, <1>9
  <2> QED BY <2>2, <2>3, <1>3
<1>12. \A i, j \in 1..n : i < j => <<s[i], s[j]>> \in R
  <2> SUFFICES ASSUME NEW i \in 1..n, NEW j \in 1..n, i < j,
                      <<s[i], s[j]>> \notin R
               PROVE  FALSE
    OBVIOUS
  <2>1. /\ s[i] \in S /\ s[j] \in S
        /\ f[s[i]] = i - 1 /\ f[s[j]] = j - 1
    BY <1>9
  <2>2. s[i] # s[j]
    <3> HIDE DEF f, s, n
    <3> QED BY <2>1, <1>1
  <2>3. <<s[j], s[i]>> \in R
    BY <2>1, <2>2 DEF StrictOrder
  <2>4. f[s[j]] < f[s[i]]
    BY <2>1, <2>3, BelowLess
  <2> HIDE DEF f, s, n
  <2> QED BY <2>1, <2>4, <1>1
<1> QED BY <1>10, <1>11, <1>12 DEF Orders

\* There is one way to put S in the order R.
LEMMA OneOrder ==
  ASSUME NEW S, NEW R, IsFiniteSet(S), StrictOrder(S, R),
         NEW s, Orders(s, S, R), NEW t, Orders(t, S, R)
  PROVE  s = t
<1> DEFINE n == Cardinality(S)
           Bad == {i \in 1..n : s[i] # t[i]}
<1>1. n \in Nat
  BY FS_CardinalityType
<1>2. s \in [1..n -> S] /\ t \in [1..n -> S]
  BY DEF Orders
<1>3. SUFFICES ASSUME Bad # {} PROVE FALSE
  <2>1. CASE Bad = {}
    <3>1. \A i \in 1..n : s[i] = t[i]
      BY <2>1
    <3>2. s = [i \in 1..n |-> s[i]] /\ t = [i \in 1..n |-> t[i]]
      BY <1>2
    <3> HIDE DEF Bad, n
    <3>3. s = t
      BY <3>1, <3>2
    <3> QED BY <3>3
  <2> QED BY <2>1
<1>4. PICK i \in Bad : \A j \in Bad : i <= j
  <2>1. Bad \subseteq Nat
    BY <1>1
  <2> HIDE DEF Bad
  <2> QED BY <1>3, <2>1, LeastExists
<1>5. i \in 1..n /\ s[i] # t[i] /\ \A j \in 1..n : j < i => s[j] = t[j]
  BY <1>1, <1>4
<1>6. PICK j \in 1..n : s[j] = t[i]
  BY <1>2, <1>5 DEF Orders
<1>7. PICK k \in 1..n : t[k] = s[i]
  BY <1>2, <1>5 DEF Orders
<1> HIDE DEF Bad, n
<1>8. ~(j < i)
  <2> SUFFICES ASSUME j < i PROVE FALSE
    OBVIOUS
  <2>1. t[j] = t[i]
    BY <1>5, <1>6
  <2>2. <<t[j], t[i]>> \in R
    BY <1>5 DEF Orders, n
  <2> QED BY <2>1, <2>2, <1>2, <1>5 DEF StrictOrder
<1>9. ~(k < i)
  <2> SUFFICES ASSUME k < i PROVE FALSE
    OBVIOUS
  <2>1. s[k] = s[i]
    BY <1>5, <1>7
  <2>2. <<s[k], s[i]>> \in R
    BY <1>5 DEF Orders, n
  <2> QED BY <2>1, <2>2, <1>2, <1>5 DEF StrictOrder
<1>10. j # i /\ k # i
  BY <1>5, <1>6, <1>7
<1>11. i < j /\ i < k
  BY <1>1, <1>5, <1>8, <1>9, <1>10
<1>12. <<s[i], t[i]>> \in R /\ <<t[i], s[i]>> \in R
  BY <1>5, <1>6, <1>7, <1>11 DEF Orders, n
<1> QED BY <1>2, <1>5, <1>12 DEF StrictOrder

\* A sequence that has no element twice has as many as it is long.
LEMMA RangeCount ==
  ASSUME NEW n \in Nat, NEW X, NEW s \in [1..n -> X],
         \A i, j \in 1..n : s[i] = s[j] => i = j
  PROVE  /\ IsFiniteSet(Range(s))
         /\ Cardinality(Range(s)) = n
         /\ s \in [1..n -> Range(s)]
<1>1. s \in [1..n -> Range(s)]
  BY DEF Range
<1>2. s \in Bijection(1..n, Range(s))
  <2>1. s \in Injection(1..n, Range(s))
    BY <1>1 DEF Injection, IsInjective
  <2>2. \A x \in Range(s) : \E i \in 1..n : s[i] = x
    BY DEF Range
  <2> QED BY <1>1, <2>1, <2>2 DEF Bijection, Surjection
<1>3. ExistsBijection(1..n, Range(s))
  BY <1>2 DEF ExistsBijection
<1>4. IsFiniteSet(1..n) /\ Cardinality(1..n) = n
  BY FS_Interval
<1> QED BY <1>1, <1>3, <1>4, FS_Bijection

\* A sequence that is in order is what sorting its elements gives.
LEMMA SortedAlready ==
  ASSUME NEW n \in Nat, NEW X, NEW s \in [1..n -> X], NEW R,
         StrictOrder(Range(s), R),
         \A i, j \in 1..n : i < j => <<s[i], s[j]>> \in R
  PROVE  IsFiniteSet(Range(s)) /\ Sorted(Range(s), R) = s
<1>1. \A i, j \in 1..n : s[i] = s[j] => i = j
  <2> SUFFICES ASSUME NEW i \in 1..n, NEW j \in 1..n, s[i] = s[j], i < j
               PROVE  FALSE
    OBVIOUS
  <2>1. s[i] \in Range(s)
    BY DEF Range
  <2> QED BY <2>1 DEF StrictOrder
<1>2. /\ IsFiniteSet(Range(s))
      /\ Cardinality(Range(s)) = n
      /\ s \in [1..n -> Range(s)]
  BY <1>1, RangeCount
<1>3. \A x \in Range(s) : \E i \in 1..n : s[i] = x
  BY DEF Range
<1>4. Orders(s, Range(s), R)
  BY <1>2, <1>3 DEF Orders
<1> QED BY <1>2, <1>4, SortedOrders, OneOrder

\* The order of the integers.
Upwards(S) == {p \in S \X S : p[1] < p[2]}

\* It is a strict order on every set of them.
LEMMA UpwardsOrder ==
  ASSUME NEW S, S \subseteq Int
  PROVE  StrictOrder(S, Upwards(S))
BY DEF StrictOrder, Upwards

\* Ascending lists a finite set of integers.
LEMMA AscendingOrders ==
  ASSUME NEW S, S \subseteq Int, IsFiniteSet(S)
  PROVE  Orders(Ascending(S), S, Upwards(S))
<1>1. Ascending(S) = Sorted(S, Upwards(S))
  BY DEF Ascending, Upwards
<1> QED BY <1>1, UpwardsOrder, SortedOrders

\* A finite set of integers that is not empty has a maximum.
LEMMA MaxFacts ==
  ASSUME NEW S, S \subseteq Int, IsFiniteSet(S), S # {}
  PROVE  Max(S) \in S /\ \A x \in S : x <= Max(S)
<1> DEFINE n == Cardinality(S)
           s == Ascending(S)
<1>1. n \in Nat /\ n # 0
  BY FS_CardinalityType, FS_EmptySet
<1>2. Orders(s, S, Upwards(S))
  BY AscendingOrders
<1>3. s[n] \in S
  BY <1>1, <1>2 DEF Orders
<1>4. ASSUME NEW x \in S PROVE s[n] >= x
  <2>1. PICK i \in 1..n : s[i] = x
    BY <1>2 DEF Orders
  <2>2. i < n => <<s[i], s[n]>> \in Upwards(S)
    BY <1>1, <1>2 DEF Orders
  <2>3. i < n => x < s[n]
    BY <2>1, <2>2 DEF Upwards
  <2>4. i = n => x = s[n]
    BY <2>1
  <2> HIDE DEF s, n
  <2>5. i < n \/ i = n
    BY <1>1, <2>1
  <2>6. x \in Int /\ s[n] \in Int
    BY <1>3
  <2> QED BY <2>3, <2>4, <2>5, <2>6
<1> HIDE DEF s
<1>5. \E m \in S : \A x \in S : m >= x
  BY <1>3, <1>4
<1>6. Max(S) = CHOOSE m \in S : \A x \in S : m >= x
  BY DEF Max
<1>7. Max(S) \in S /\ \A x \in S : Max(S) >= x
  BY <1>5, <1>6
<1> QED BY <1>7

-----------------------------------------------------------------------------
(* Sequences one after the other. *)

PlaceIn(p, n, groups) ==
  \E i \in 1..n : \E j \in 1..Len(groups[i]) : p = <<i, j>>

\* What the places of n sequences are.
LEMMA PlacesAre ==
  ASSUME NEW n \in Nat, NEW X, NEW groups \in [1..n -> Seq(X)]
  PROVE  /\ \A p \in Places(groups) : PlaceIn(p, n, groups)
         /\ \A i \in 1..n : \A j \in 1..Len(groups[i]) :
              <<i, j>> \in Places(groups)
<1>1. \A i \in 1..n : DOMAIN groups[i] = 1..Len(groups[i])
  BY LenProperties
<1>2. DOMAIN groups = 1..n
  OBVIOUS
<1>3. ASSUME NEW p \in Places(groups) PROVE PlaceIn(p, n, groups)
  <2>1. PICK i \in 1..n : p \in {i} \X DOMAIN groups[i]
    BY <1>2 DEF Places
  <2>2. p \in {i} \X (1..Len(groups[i]))
    BY <2>1, <1>1
  <2>3. p[2] \in 1..Len(groups[i]) /\ p = <<i, p[2]>>
    BY <2>2
  <2> QED BY <2>3 DEF PlaceIn
<1>4. ASSUME NEW i \in 1..n, NEW j \in 1..Len(groups[i])
      PROVE  <<i, j>> \in Places(groups)
  <2>1. <<i, j>> \in {i} \X DOMAIN groups[i]
    BY <1>1
  <2> QED BY <2>1, <1>2 DEF Places
<1> QED BY <1>3, <1>4

\* There are finitely many.
LEMMA PlacesFinite ==
  ASSUME NEW n \in Nat, NEW X, NEW groups \in [1..n -> Seq(X)]
  PROVE  IsFiniteSet(Places(groups))
<1> DEFINE f == [i \in 1..n |-> {i} \X DOMAIN groups[i]]
           T == {{i} \X DOMAIN groups[i] : i \in 1..n}
<1>1. f \in Surjection(1..n, T)
  BY DEF Surjection
<1>2. IsFiniteSet(1..n)
  BY FS_Interval
<1>3. IsFiniteSet(T)
  <2> HIDE DEF f, T
  <2> QED BY <1>1, <1>2, FS_Surjection
<1>4. ASSUME NEW i \in 1..n PROVE IsFiniteSet({i} \X DOMAIN groups[i])
  <2>1. DOMAIN groups[i] = 1..Len(groups[i]) /\ Len(groups[i]) \in Nat
    BY LenProperties
  <2>2. IsFiniteSet(1..Len(groups[i]))
    BY <2>1, FS_Interval
  <2>3. IsFiniteSet({i})
    BY FS_Singleton
  <2> QED BY <2>1, <2>2, <2>3, FS_Product
<1>5. \A Q \in T : IsFiniteSet(Q)
  BY <1>4
<1>6. Places(groups) = UNION T
  BY DEF Places
<1> HIDE DEF T
<1> QED BY <1>3, <1>5, <1>6, FS_UNION

Forwards(P) == {pq \in P \X P : Ahead(pq[1], pq[2])}

\* InTurn lists them.
LEMMA PlacesOrdered ==
  ASSUME NEW n \in Nat, NEW X, NEW groups \in [1..n -> Seq(X)]
  PROVE  Orders(InTurn(Places(groups)), Places(groups),
                Forwards(Places(groups)))
<1> DEFINE P == Places(groups)
<1>1. \A p \in P : PlaceIn(p, n, groups)
  BY PlacesAre
<1>2. \A p \in P : p[1] \in Int /\ p[2] \in Int /\ p = <<p[1], p[2]>>
  BY <1>1, LenProperties DEF PlaceIn
<1> HIDE DEF P
<1>3. StrictOrder(P, Forwards(P))
  <2>1. \A p \in P : <<p, p>> \notin Forwards(P)
    BY <1>2 DEF Forwards, Ahead
  <2>2. \A p, q, r \in P : <<p, q>> \in Forwards(P) /\ <<q, r>> \in Forwards(P)
                           => <<p, r>> \in Forwards(P)
    BY <1>2 DEF Forwards, Ahead
  <2>3. \A p, q \in P : p = q \/ <<p, q>> \in Forwards(P)
                              \/ <<q, p>> \in Forwards(P)
    <3> SUFFICES ASSUME NEW p \in P, NEW q \in P,
                        ~Ahead(p, q), ~Ahead(q, p)
                 PROVE  p = q
      BY DEF Forwards
    <3>1. p[1] = q[1] /\ p[2] = q[2]
      BY <1>2 DEF Ahead
    <3> QED BY <3>1, <1>2
  <2> QED BY <2>1, <2>2, <2>3 DEF StrictOrder
<1>4. InTurn(P) = Sorted(P, Forwards(P))
  BY DEF InTurn, Forwards
<1>5. IsFiniteSet(P)
  BY PlacesFinite DEF P
<1> QED BY <1>3, <1>4, <1>5, SortedOrders DEF P

\* The element at a place of the result is the one at its place in its group.
LEMMA JoinedFacts ==
  ASSUME NEW n \in Nat, NEW X, NEW groups \in [1..n -> Seq(X)]
  PROVE  LET J == Joined(groups)
             place == InTurn(Places(groups))
         IN /\ J \in Seq(X)
            /\ DOMAIN J = 1..Len(J) /\ Len(J) \in Nat
            /\ DOMAIN place = 1..Len(J)
            /\ \A k \in 1..Len(J) :
                 /\ place[k] \in Places(groups)
                 /\ J[k] = groups[place[k][1]][place[k][2]]
<1> DEFINE J == Joined(groups)
           place == InTurn(Places(groups))
           P == Places(groups)
           N == Cardinality(P)
<1>1. N \in Nat
  BY PlacesFinite, FS_CardinalityType
<1>2. place \in [1..N -> P]
  BY PlacesOrdered DEF Orders
<1>3. J = [k \in 1..N |-> groups[place[k][1]][place[k][2]]]
  BY <1>2 DEF Joined
<1>4. \A k \in 1..N : place[k] \in P /\ groups[place[k][1]][place[k][2]] \in X
  <2> SUFFICES ASSUME NEW k \in 1..N
               PROVE  place[k] \in P /\ groups[place[k][1]][place[k][2]] \in X
    OBVIOUS
  <2>1. place[k] \in P
    BY <1>2
  <2>2. PICK i \in 1..n : \E j \in 1..Len(groups[i]) : place[k] = <<i, j>>
    <3>1. PlaceIn(place[k], n, groups)
      BY <2>1, PlacesAre
    <3> HIDE DEF place
    <3> QED BY <3>1 DEF PlaceIn
  <2>3. PICK j \in 1..Len(groups[i]) : place[k] = <<i, j>>
    BY <2>2
  <2>4. groups[i][j] \in X
    BY ElementOfSeq
  <2> QED BY <2>1, <2>3, <2>4
<1>5. J \in [1..N -> X]
  BY <1>3, <1>4
<1>6. J \in Seq(X) /\ Len(J) = N
  <2> HIDE DEF J, N
  <2> QED BY <1>1, <1>5
<1> QED BY <1>1, <1>2, <1>3, <1>4, <1>6

\* The same for one element.
Sequences(groups, n, X) == n \in Nat /\ groups \in [1..n -> Seq(X)]
IsAt(groups, k, i, j) ==
  /\ k \in 1..Len(Joined(groups))
  /\ InTurn(Places(groups))[k] = <<i, j>>

\* The element that was put at k comes from there.
LEMMA JoinedAt ==
  ASSUME NEW n, NEW X, NEW groups, Sequences(groups, n, X),
         NEW k, NEW i, NEW j, IsAt(groups, k, i, j)
  PROVE  Joined(groups)[k] = groups[i][j]
<1>1. n \in Nat /\ groups \in [1..n -> Seq(X)]
  BY DEF Sequences
<1>2. k \in 1..Len(Joined(groups)) /\ InTurn(Places(groups))[k] = <<i, j>>
  BY DEF IsAt
<1> DEFINE place == InTurn(Places(groups))
<1>3. \A m \in 1..Len(Joined(groups)) :
        Joined(groups)[m] = groups[place[m][1]][place[m][2]]
  BY SMTT(30), <1>1, JoinedFacts
<1> HIDE DEF place
<1>4. place[k] = <<i, j>>
  BY <1>2 DEF place
<1> QED BY <1>2, <1>3, <1>4

\* Every element is somewhere.
LEMMA JoinedIn ==
  ASSUME NEW n, NEW X, NEW groups, Sequences(groups, n, X),
         NEW k \in 1..Len(Joined(groups))
  PROVE  \E i \in 1..n : \E j \in 1..Len(groups[i]) : IsAt(groups, k, i, j)
<1> DEFINE place == InTurn(Places(groups))
<1>1. n \in Nat /\ groups \in [1..n -> Seq(X)]
  BY DEF Sequences
<1>2. place[k] \in Places(groups)
  BY <1>1, JoinedFacts
<1>3. PlaceIn(place[k], n, groups)
  BY <1>1, <1>2, PlacesAre
<1> HIDE DEF place
<1>4. PICK i \in 1..n : \E j \in 1..Len(groups[i]) : place[k] = <<i, j>>
  BY <1>3 DEF PlaceIn
<1>5. PICK j \in 1..Len(groups[i]) : place[k] = <<i, j>>
  BY <1>4
<1>6. IsAt(groups, k, i, j)
  BY <1>5 DEF IsAt, place
<1> QED BY <1>6

\* Every place is reached.
LEMMA JoinedAll ==
  ASSUME NEW n, NEW X, NEW groups, Sequences(groups, n, X),
         NEW i \in 1..n, NEW j \in 1..Len(groups[i])
  PROVE  \E k \in 1..Len(Joined(groups)) : IsAt(groups, k, i, j)
<1> DEFINE place == InTurn(Places(groups))
           P == Places(groups)
<1>1. n \in Nat /\ groups \in [1..n -> Seq(X)]
  BY DEF Sequences
<1>2. DOMAIN place = 1..Len(Joined(groups))
  BY <1>1, JoinedFacts
<1>3. Orders(place, P, Forwards(P))
  BY <1>1, PlacesOrdered
<1>4. <<i, j>> \in P
  BY <1>1, PlacesAre
<1>5. PICK k \in 1..Cardinality(P) : place[k] = <<i, j>>
  BY <1>3, <1>4 DEF Orders
<1>6. k \in 1..Len(Joined(groups))
  BY <1>2, <1>3 DEF Orders
<1>7. IsAt(groups, k, i, j)
  BY <1>5, <1>6 DEF IsAt
<1> QED BY <1>6, <1>7

-----------------------------------------------------------------------------
(* Recovery. *)

USE ConversationAssumption

\* What the store holds: only an answer has calls, and finitely many.
Stored ==
  {r \in RowSet : /\ IsFiniteSet(r.calls)
                  /\ r.role # "assistant" => r.calls = {}}

\* The message a result may belong to is the last before it that is none.
LEMMA OwnerFacts ==
  ASSUME NEW l \in Seq(Stored), NEW k \in 1..Len(l)
  PROVE  /\ Owner(l, k) \in 0..(k - 1)
         /\ Owner(l, k) > 0 => l[Owner(l, k)].role # "tool"
         /\ \A i \in 1..(k - 1) : i > Owner(l, k) => l[i].role = "tool"
<1> DEFINE T == {i \in 1..(k - 1) : l[i].role # "tool"} \cup {0}
<1>1. k \in Nat /\ k >= 1
  BY LenProperties
<1>2. T \in SUBSET (0..(k - 1))
  BY <1>1
<1>3. IsFiniteSet(0..(k - 1)) /\ 0..(k - 1) \subseteq Int
  BY <1>1, FS_Interval
<1>4. IsFiniteSet(T) /\ T \subseteq Int /\ T # {}
  BY <1>2, <1>3, FS_Subset
<1>5. Owner(l, k) = Max(T)
  BY DEF Owner
<1>6. Owner(l, k) \in T /\ \A i \in T : i <= Owner(l, k)
  <2> HIDE DEF T
  <2> QED BY <1>4, <1>5, MaxFacts
<1>7. \A i \in 1..(k - 1) : i > Owner(l, k) => l[i].role = "tool"
  <2> SUFFICES ASSUME NEW i \in 1..(k - 1), i > Owner(l, k),
                      l[i].role # "tool"
               PROVE  FALSE
    OBVIOUS
  <2>1. i \in T
    OBVIOUS
  <2>2. i <= Owner(l, k)
    BY <2>1, <1>6
  <2>3. Owner(l, k) \in Int
    BY <1>2, <1>6
  <2> HIDE DEF T
  <2> QED BY <2>2, <2>3
<1> QED BY <1>2, <1>6, <1>7

\* The results of a message are tool messages, one for each of some calls.
LEMMA ResultsFacts ==
  ASSUME NEW l \in Seq(Stored), NEW i \in 1..Len(l)
  PROVE  /\ Results(l, i) \subseteq 1..Len(l)
         /\ IsFiniteSet(Results(l, i))
         /\ \A k \in Results(l, i) :
              /\ Taken(l, k) /\ Owner(l, k) = i
              /\ l[k].role = "tool" /\ l[k].call \in l[i].calls
         /\ \A k, m \in Results(l, i) : l[k].call = l[m].call => k = m
<1>1. Len(l) \in Nat
  BY LenProperties
<1>2. Results(l, i) \in SUBSET (1..Len(l))
  BY <1>1 DEF Results
<1>3. IsFiniteSet(Results(l, i))
  <2>0. 1 \in Int /\ Len(l) \in Int
    BY <1>1
  <2>1. IsFiniteSet(1..Len(l))
    BY ZenonT(30), <2>0, FS_Interval
  <2> QED BY <2>1, <1>2, FS_Subset
<1>4. \A k \in Results(l, i) :
        /\ Taken(l, k) /\ Owner(l, k) = i /\ k > i
        /\ l[k].role = "tool" /\ l[k].call \in l[i].calls
        /\ \A j \in (i + 1)..(k - 1) : l[j].call # l[k].call
  BY <1>1 DEF Results, Taken
<1>5. ASSUME NEW k \in Results(l, i), NEW m \in Results(l, i),
             l[k].call = l[m].call, k < m
      PROVE  FALSE
  <2>1. k \in Int /\ m \in Int /\ i \in Int
    BY <1>1, <1>2
  <2>2. k \in (i + 1)..(m - 1)
    BY <2>1, <1>4, <1>5
  <2> QED BY <2>2, <1>4, <1>5
<1>6. \A k, m \in Results(l, i) : k \in Int /\ m \in Int
  BY <1>1, <1>2
<1> QED BY <1>2, <1>3, <1>4, <1>5, <1>6

\* A taken message is a result of the message that it belongs to, which is
\* not taken itself.
LEMMA TakenFacts ==
  ASSUME NEW l \in Seq(Stored), NEW k \in 1..Len(l), Taken(l, k)
  PROVE  \E i \in 1..Len(l) : k \in Results(l, i) /\ ~Taken(l, i)
<1> DEFINE i == Owner(l, k)
<1>1. /\ i \in 0..(k - 1) /\ i > 0 /\ l[i].role # "tool"
      /\ k \in Nat /\ Len(l) \in Nat
  BY OwnerFacts, LenProperties DEF Taken
<1>2. i \in 1..Len(l) /\ k \in (i + 1)..Len(l)
  <2> HIDE DEF i
  <2> QED BY <1>1
<1>3. k \in Results(l, i)
  BY <1>2 DEF Results
<1>4. ~Taken(l, i)
  BY <1>1 DEF Taken
<1> QED BY <1>2, <1>3, <1>4

Parts(g, x, a, A, b, B) ==
  /\ Len(g) = 1 + a + b
  /\ g[1] = x
  /\ \A j \in 1..a : g[1 + j] = A[j]
  /\ \A j \in 1..b : g[1 + a + j] = B[j]

\* A sequence made of one element and two sequences.
LEMMA ThreeParts ==
  ASSUME NEW X, NEW x \in X, NEW a \in Nat, NEW A \in [1..a -> X],
         NEW b \in Nat, NEW B \in [1..b -> X]
  PROVE  /\ <<x>> \o A \o B \in Seq(X)
         /\ Parts(<<x>> \o A \o B, x, a, A, b, B)
<1>1. /\ <<x>> \in Seq(X) /\ Len(<<x>>) = 1
      /\ A \in Seq(X) /\ Len(A) = a
      /\ B \in Seq(X) /\ Len(B) = b
  BY SMTT(30)
<1> DEFINE h == <<x>> \o A
<1>2. /\ h \in Seq(X) /\ Len(h) = 1 + a
      /\ \A i \in 1..(1 + a) : h[i] = IF i <= 1 THEN <<x>>[i] ELSE A[i - 1]
  BY <1>1, ConcatProperties
<1> DEFINE g == h \o B
<1>3. /\ g \in Seq(X) /\ Len(g) = 1 + a + b
      /\ \A i \in 1..(1 + a + b) :
           g[i] = IF i <= 1 + a THEN h[i] ELSE B[i - (1 + a)]
  <2> HIDE DEF h
  <2>0. h \in Seq(X) /\ B \in Seq(X)
    BY <1>1, <1>2
  <2>1. /\ h \o B \in Seq(X) /\ Len(h \o B) = Len(h) + Len(B)
        /\ \A i \in 1..(Len(h) + Len(B)) :
             (h \o B)[i] = IF i <= Len(h) THEN h[i] ELSE B[i - Len(h)]
    BY <2>0, ConcatProperties
  <2> QED BY <2>1, <1>1, <1>2
<1> HIDE DEF h, g
<1>4. g[1] = x
  BY SMTT(30), <1>2, <1>3
<1>5. \A j \in 1..a : g[1 + j] = A[j]
  BY SMTT(30), <1>2, <1>3
<1>6. ASSUME NEW j \in 1..b PROVE g[1 + a + j] = B[j]
  <2>1. /\ 1 + a + j \in 1..(1 + a + b) /\ ~(1 + a + j <= 1 + a)
        /\ (1 + a + j) - (1 + a) = j
    OBVIOUS
  <2> QED BY <2>1, <1>3
<1> QED BY <1>3, <1>4, <1>5, <1>6 DEF Parts, g, h

\* The calls that have a result and those that miss one.
LEMMA MissingFacts ==
  ASSUME NEW l \in Seq(Stored), NEW i \in 1..Len(l)
  PROVE  /\ Missing(l, i) \subseteq l[i].calls
         /\ IsFiniteSet(Missing(l, i)) /\ Missing(l, i) \subseteq Nat
         /\ \A c \in l[i].calls \ Missing(l, i) :
              \E k \in Results(l, i) : l[k].call = c
         /\ Cardinality(Results(l, i)) \in Nat
         /\ Cardinality(Missing(l, i)) \in Nat
         /\ Cardinality(l[i].calls) =
              Cardinality(Results(l, i)) + Cardinality(Missing(l, i))
<1> DEFINE R == Results(l, i)
           C == l[i].calls
           f == [k \in R |-> l[k].call]
           T == {l[k].call : k \in R}
<1>1. l[i] \in Stored
  BY ElementOfSeq
<1>2. IsFiniteSet(C) /\ C \subseteq Nat
  BY <1>1 DEF Stored, RowSet
<1>3. /\ IsFiniteSet(R)
      /\ \A k \in R : l[k].call \in C
      /\ \A k, m \in R : l[k].call = l[m].call => k = m
  BY ResultsFacts
<1>4. T \in SUBSET C /\ Missing(l, i) = C \ T
  BY <1>3 DEF Missing
<1>5. ExistsBijection(R, T)
  <2>1. f \in [R -> T]
    OBVIOUS
  <2>2. f \in Injection(R, T)
    BY <2>1, <1>3 DEF Injection, IsInjective
  <2>3. f \in Surjection(R, T)
    BY <2>1 DEF Surjection
  <2> QED BY <2>2, <2>3 DEF Bijection, ExistsBijection
<1> HIDE DEF T, f
<1>6. Cardinality(T) = Cardinality(R) /\ IsFiniteSet(T)
  BY <1>3, <1>5, FS_Bijection
<1>7. C \cap T = T
  BY <1>4
<1>8. IsFiniteSet(C \ T) /\ Cardinality(C \ T) = Cardinality(C) - Cardinality(T)
  <2>1. Cardinality(C \ T) = Cardinality(C) - Cardinality(C \cap T)
    BY <1>2, FS_Difference
  <2> QED BY <2>1, <1>2, <1>7, FS_Difference
<1>9. /\ Cardinality(C) \in Nat /\ Cardinality(R) \in Nat
      /\ Cardinality(C \ T) \in Nat
  BY <1>2, <1>3, <1>8, FS_CardinalityType
<1>10. \A c \in C \ Missing(l, i) : \E k \in R : l[k].call = c
  BY <1>4 DEF T
<1> QED BY SMTT(30), <1>2, <1>4, <1>6, <1>8, <1>9, <1>10

\* There are finitely many in all.
LEMMA AllMissingFacts ==
  ASSUME NEW l \in Seq(Stored)
  PROVE  /\ IsFiniteSet(AllMissing(l)) /\ AllMissing(l) \subseteq Nat
         /\ Cardinality(AllMissing(l)) \in Nat
<1> DEFINE f == [i \in 1..Len(l) |-> Missing(l, i)]
           T == {Missing(l, i) : i \in 1..Len(l)}
<1>1. Len(l) \in Nat /\ DOMAIN l = 1..Len(l)
  BY LenProperties
<1>2. f \in Surjection(1..Len(l), T)
  BY DEF Surjection
<1>3. IsFiniteSet(1..Len(l))
  BY <1>1, FS_Interval
<1>4. \A Q \in T : IsFiniteSet(Q) /\ Q \subseteq Nat
  BY MissingFacts
<1>5. AllMissing(l) = UNION T
  BY <1>1 DEF AllMissing
<1> HIDE DEF f, T
<1>6. IsFiniteSet(T)
  BY <1>2, <1>3, FS_Surjection
<1>7. IsFiniteSet(AllMissing(l))
  BY <1>4, <1>5, <1>6, FS_UNION
<1> QED BY <1>4, <1>5, <1>7, FS_CardinalityType

\* The places of calls among them are different numbers below their number.
LEMMA RankFacts ==
  ASSUME NEW C, C \subseteq Nat, IsFiniteSet(C)
  PROVE  /\ \A c \in C : /\ Rank(c, C) \in Nat
                         /\ Rank(c, C) < Cardinality(C)
         /\ \A c, d \in C : Rank(c, C) = Rank(d, C) => c = d
<1>1. StrictOrder(C, Upwards(C))
  <2>1. C \subseteq Int
    OBVIOUS
  <2> QED BY <2>1, UpwardsOrder
<1>2. ASSUME NEW c \in C PROVE Rank(c, C) = Cardinality(Below(c, C, Upwards(C)))
  <2>1. {d \in C : d < c} = Below(c, C, Upwards(C))
    BY DEF Below, Upwards
  <2> QED BY <2>1 DEF Rank
<1>3. \A c \in C : Rank(c, C) \in Nat /\ Rank(c, C) < Cardinality(C)
  BY <1>1, <1>2, BelowType
<1>4. ASSUME NEW c \in C, NEW d \in C, Rank(c, C) = Rank(d, C), c < d
      PROVE  FALSE
  <2>1. <<c, d>> \in Upwards(C)
    BY <1>4 DEF Upwards
  <2>2. Rank(c, C) < Rank(d, C)
    BY <2>1, <1>1, <1>2, BelowLess
  <2> QED BY <2>2, <1>3, <1>4
<1> QED BY <1>3, <1>4

\* Above or below all other messages, for each result made up.
Signs(l) == [AllMissing(l) -> {1, -1}]

MadeUp(l, i, sign, c) ==
  Row(sign[c] * (next + Rank(c, AllMissing(l))), "tool", {}, c, l[i].at)

\* It is a message like the others.
LEMMA MadeUpStored ==
  ASSUME next \in Nat, NEW l \in Seq(Stored), NEW i \in 1..Len(l),
         NEW sign \in Signs(l), NEW c \in Missing(l, i)
  PROVE  /\ MadeUp(l, i, sign, c) \in Stored
         /\ MadeUp(l, i, sign, c).role = "tool"
         /\ MadeUp(l, i, sign, c).calls = {}
         /\ MadeUp(l, i, sign, c).call = c
<1>1. c \in AllMissing(l)
  <2>1. i \in DOMAIN l
    BY LenProperties
  <2> QED BY <2>1 DEF AllMissing
<1>2. Rank(c, AllMissing(l)) \in Nat /\ c \in Nat
  BY <1>1, AllMissingFacts, RankFacts
<1>3. sign[c] * (next + Rank(c, AllMissing(l))) \in Int
  BY <1>1, <1>2 DEF Signs
<1>4. l[i].at \in Int
  <2>1. l[i] \in Stored
    BY ElementOfSeq
  <2> QED BY <2>1 DEF Stored, RowSet
<1>5. IsFiniteSet({})
  BY FS_EmptySet
<1> QED BY <1>2, <1>3, <1>4, <1>5 DEF MadeUp, Row, Stored, RowSet, Roles

\* The message and then, at n places, a result for each of its calls.
WithResults(g, n, l, i, sign) ==
  /\ n \in Nat /\ Len(g) = 1 + n /\ g[1] = l[i]
  /\ \A q \in 1..n :
       \/ \E k \in Results(l, i) : g[1 + q] = l[k]
       \/ \E c \in Missing(l, i) : g[1 + q] = MadeUp(l, i, sign, c)
  /\ \A k \in Results(l, i) : \E q \in 1..n : g[1 + q] = l[k]
  /\ \A c \in Missing(l, i) : \E q \in 1..n :
       g[1 + q] = MadeUp(l, i, sign, c)

\* A group is empty, or the message and then a result for each of its calls.
LEMMA GroupFacts ==
  ASSUME next \in Nat, NEW l \in Seq(Stored), NEW i \in 1..Len(l),
         NEW sign \in Signs(l)
  PROVE  /\ Group(l, i, sign) \in Seq(Stored)
         /\ Taken(l, i) => Group(l, i, sign) = <<>>
         /\ ~Taken(l, i) => WithResults(Group(l, i, sign),
                               Cardinality(l[i].calls), l, i, sign)
<1> DEFINE R == Results(l, i)
           M == Missing(l, i)
           a == Cardinality(R)
           b == Cardinality(M)
           taken == Ascending(R)
           lost == Ascending(M)
           A == [j \in 1..a |-> l[taken[j]]]
           B == [j \in 1..b |-> MadeUp(l, i, sign, lost[j])]
           g == <<l[i]>> \o A \o B
<1>1. R \subseteq 1..Len(l) /\ IsFiniteSet(R) /\ R \subseteq Int
  <2>1. Len(l) \in Nat
    BY LenProperties
  <2> QED BY <2>1, ResultsFacts
<1>2. M \subseteq Int /\ IsFiniteSet(M) /\ a \in Nat /\ b \in Nat
      /\ Cardinality(l[i].calls) = a + b
  BY MissingFacts
<1>3. Orders(taken, R, Upwards(R)) /\ Orders(lost, M, Upwards(M))
  BY <1>1, <1>2, AscendingOrders
<1>4. /\ taken \in [1..a -> R] /\ \A k \in R : \E j \in 1..a : taken[j] = k
      /\ lost \in [1..b -> M] /\ \A c \in M : \E j \in 1..b : lost[j] = c
  BY <1>3 DEF Orders
<1>5. l[i] \in Stored /\ \A k \in R : l[k] \in Stored
  BY <1>1, ElementOfSeq
<1>6. A \in [1..a -> Stored]
  BY <1>4, <1>5
<1>7. B \in [1..b -> Stored]
  BY <1>4, MadeUpStored
<1>8. Taken(l, i) => Group(l, i, sign) = <<>>
  BY DEF Group
<1>9. ~Taken(l, i) => Group(l, i, sign) = g
  <2> SUFFICES ASSUME ~Taken(l, i) PROVE Group(l, i, sign) = g
    OBVIOUS
  <2>1. A = [j \in DOMAIN taken |-> l[taken[j]]]
    BY <1>4
  <2>2. B = [j \in DOMAIN lost |->
               Row(sign[lost[j]] * (next + Rank(lost[j], AllMissing(l))),
                   "tool", {}, lost[j], l[i].at)]
    BY <1>4 DEF MadeUp
  <2> QED BY <2>1, <2>2 DEF Group
<1> HIDE DEF A, B, a, b, taken, lost, R, M
<1>10. /\ g \in Seq(Stored) /\ Len(g) = 1 + a + b
       /\ g[1] = l[i]
       /\ \A j \in 1..a : g[1 + j] = A[j]
       /\ \A j \in 1..b : g[1 + a + j] = B[j]
  <2>1. g \in Seq(Stored) /\ Parts(g, l[i], a, A, b, B)
    BY <1>2, <1>5, <1>6, <1>7, ThreeParts
  <2> QED BY <2>1 DEF Parts
<1> HIDE DEF g
<1>11. ASSUME NEW q \in 1..(a + b)
       PROVE  \/ \E k \in R : g[1 + q] = l[k]
              \/ \E c \in M : g[1 + q] = MadeUp(l, i, sign, c)
  <2>1. CASE q <= a
    <3>1. q \in 1..a
      BY <2>1, <1>2
    <3>2. g[1 + q] = l[taken[q]] /\ taken[q] \in R
      BY <3>1, <1>4, <1>10 DEF A
    <3> QED BY <3>2
  <2>2. CASE ~(q <= a)
    <3>1. q - a \in 1..b /\ 1 + a + (q - a) = 1 + q
      BY <2>2, <1>2
    <3>2. /\ g[1 + q] = MadeUp(l, i, sign, lost[q - a])
          /\ lost[q - a] \in M
      <4>1. g[1 + a + (q - a)] = B[q - a]
        BY <3>1, <1>10
      <4> QED BY <3>1, <4>1, <1>4 DEF B
    <3> QED BY <3>2
  <2> QED BY <2>1, <2>2
<1>12. ASSUME NEW k \in R PROVE \E q \in 1..(a + b) : g[1 + q] = l[k]
  <2>1. PICK j \in 1..a : taken[j] = k
    BY <1>4
  <2>2. g[1 + j] = l[k]
    BY <2>1, <1>10 DEF A
  <2>3. j \in 1..(a + b)
    BY <1>2
  <2> QED BY <2>2, <2>3
<1>13. ASSUME NEW c \in M
       PROVE  \E q \in 1..(a + b) : g[1 + q] = MadeUp(l, i, sign, c)
  <2>1. PICK j \in 1..b : lost[j] = c
    BY <1>4
  <2>2. g[1 + a + j] = MadeUp(l, i, sign, c)
    BY <2>1, <1>10 DEF B
  <2>3. a + j \in 1..(a + b) /\ 1 + (a + j) = 1 + a + j
    BY SMTT(30), <1>2
  <2> QED BY <2>2, <2>3
<1>14. <<>> \in Seq(Stored)
  BY EmptySeq
<1>15. a + b \in Nat /\ Len(g) = 1 + (a + b)
  BY <1>2, <1>10
<1>16. WithResults(g, a + b, l, i, sign)
  <2>1. \A q \in 1..(a + b) :
          \/ \E k \in R : g[1 + q] = l[k]
          \/ \E c \in M : g[1 + q] = MadeUp(l, i, sign, c)
    BY <1>11
  <2>2. \A k \in R : \E q \in 1..(a + b) : g[1 + q] = l[k]
    BY <1>12
  <2>3. \A c \in M : \E q \in 1..(a + b) : g[1 + q] = MadeUp(l, i, sign, c)
    BY <1>13
  <2>4. g[1] = l[i]
    BY <1>10
  <2> QED BY <1>15, <2>1, <2>2, <2>3, <2>4 DEF WithResults, R, M
<1>17. Group(l, i, sign) \in Seq(Stored)
  BY <1>8, <1>9, <1>10, <1>14
<1> QED BY <1>2, <1>8, <1>9, <1>16, <1>17

GroupsOf(l, sign) == [i \in DOMAIN l |-> Group(l, i, sign)]

\* The groups that Recovered joins.
LEMMA GroupsType ==
  ASSUME next \in Nat, NEW l \in Seq(Stored), NEW sign \in Signs(l)
  PROVE  /\ Len(l) \in Nat
         /\ Sequences(GroupsOf(l, sign), Len(l), Stored)
         /\ \A i \in 1..Len(l) : GroupsOf(l, sign)[i] = Group(l, i, sign)
         /\ Recovered(l, sign) = Joined(GroupsOf(l, sign))
<1>1. Len(l) \in Nat /\ DOMAIN l = 1..Len(l)
  BY LenProperties
<1>2. \A i \in 1..Len(l) : Group(l, i, sign) \in Seq(Stored)
  BY GroupFacts
<1> QED BY <1>1, <1>2 DEF GroupsOf, Recovered, Sequences

\* The element k of what is recovered is at place j of the group of the
\* message i, which is not taken.
AtPlace(l, sign, k, i, j) ==
  /\ i \in 1..Len(l) /\ ~Taken(l, i) /\ j \in 1..Len(Group(l, i, sign))
  /\ IsAt(GroupsOf(l, sign), k, i, j)
  /\ k \in 1..Len(Recovered(l, sign))
  /\ Recovered(l, sign)[k] = Group(l, i, sign)[j]

\* What is at a place of the groups is there.
LEMMA PlaceOf ==
  ASSUME next \in Nat, NEW l \in Seq(Stored), NEW sign \in Signs(l),
         NEW k, NEW i \in 1..Len(l), NEW j \in 1..Len(Group(l, i, sign)),
         IsAt(GroupsOf(l, sign), k, i, j)
  PROVE  AtPlace(l, sign, k, i, j)
<1>1. /\ Sequences(GroupsOf(l, sign), Len(l), Stored)
      /\ GroupsOf(l, sign)[i] = Group(l, i, sign)
      /\ Recovered(l, sign) = Joined(GroupsOf(l, sign))
  BY GroupsType
<1>2. Joined(GroupsOf(l, sign))[k] = GroupsOf(l, sign)[i][j]
  BY <1>1, JoinedAt
<1>3. k \in 1..Len(Joined(GroupsOf(l, sign)))
  BY DEF IsAt
<1>4. ~Taken(l, i)
  <2>1. Len(<<>>) = 0
    BY EmptySeq
  <2>2. Taken(l, i) => Group(l, i, sign) = <<>>
    BY GroupFacts
  <2> QED BY <2>1, <2>2
<1> QED BY <1>1, <1>2, <1>3, <1>4 DEF AtPlace

\* Every element is somewhere.
LEMMA Placed ==
  ASSUME next \in Nat, NEW l \in Seq(Stored), NEW sign \in Signs(l),
         NEW k \in 1..Len(Recovered(l, sign))
  PROVE  \E i, j \in Nat : AtPlace(l, sign, k, i, j)
<1> DEFINE G == GroupsOf(l, sign)
<1>1. /\ Len(l) \in Nat /\ Sequences(G, Len(l), Stored)
      /\ \A i \in 1..Len(l) : G[i] = Group(l, i, sign)
      /\ Recovered(l, sign) = Joined(G)
  BY GroupsType
<1> HIDE DEF G
<1>2. PICK i \in 1..Len(l) : \E j \in 1..Len(G[i]) : IsAt(G, k, i, j)
  BY <1>1, JoinedIn
<1>3. PICK j \in 1..Len(G[i]) : IsAt(G, k, i, j)
  BY <1>2
<1>4. j \in 1..Len(Group(l, i, sign))
  BY <1>1
<1>5. AtPlace(l, sign, k, i, j)
  BY <1>3, <1>4, PlaceOf DEF G
<1>6. i \in Nat /\ j \in Nat
  <2>1. Group(l, i, sign) \in Seq(Stored)
    BY GroupFacts
  <2>2. Len(Group(l, i, sign)) \in Nat
    BY <2>1, LenProperties
  <2> QED BY <1>1, <1>4, <2>2
<1> QED BY <1>5, <1>6

\* The other one of two numbers is the lesser.
LEMMA MinOfTwo ==
  ASSUME NEW a \in Int, NEW b \in Int, a <= b
  PROVE  Min({a, b}) = a
<1>1. a \in {a, b} /\ \A y \in {a, b} : a <= y
  OBVIOUS
<1>2. \A x \in {a, b} : (\A y \in {a, b} : x <= y) => x = a
  OBVIOUS
<1>3. Min({a, b}) = CHOOSE x \in {a, b} : \A y \in {a, b} : x <= y
  BY DEF Min
<1> QED BY <1>1, <1>2, <1>3

\* What is recovered: every message there was, and results made up.
LEMMA RecoveredFacts ==
  ASSUME next \in Nat, NEW l \in Seq(Stored), NEW sign \in Signs(l)
  PROVE  /\ Recovered(l, sign) \in Seq(Stored)
         /\ \A m \in 1..Len(l) : \E k \in 1..Len(Recovered(l, sign)) :
              Recovered(l, sign)[k] = l[m]
         /\ \A k \in 1..Len(Recovered(l, sign)) :
              \/ \E m \in 1..Len(l) : Recovered(l, sign)[k] = l[m]
              \/ \E m \in 1..Len(l) : \E c \in Missing(l, m) :
                   Recovered(l, sign)[k] = MadeUp(l, m, sign, c)
<1> DEFINE L == Recovered(l, sign)
           G == GroupsOf(l, sign)
<1>1. /\ Sequences(G, Len(l), Stored)
      /\ \A i \in 1..Len(l) : G[i] = Group(l, i, sign)
      /\ L = Joined(G)
  BY GroupsType
<1>2. L \in Seq(Stored)
  BY <1>1, JoinedFacts DEF Sequences
<1>3. \A i \in 1..Len(l) : ~Taken(l, i) =>
        WithResults(Group(l, i, sign), Cardinality(l[i].calls), l, i, sign)
  BY GroupFacts
<1> HIDE DEF G, L
<1>4. ASSUME NEW i \in 1..Len(l), NEW j \in 1..Len(Group(l, i, sign))
      PROVE  \E k \in 1..Len(L) : L[k] = Group(l, i, sign)[j]
  <2>1. PICK k \in 1..Len(Joined(G)) : IsAt(G, k, i, j)
    <3>1. j \in 1..Len(G[i])
      BY <1>1
    <3> QED BY <3>1, <1>1, JoinedAll
  <2>2. AtPlace(l, sign, k, i, j)
    BY <2>1, PlaceOf DEF G
  <2> QED BY <2>2 DEF AtPlace, L
<1>5. ASSUME NEW m \in 1..Len(l)
      PROVE  \E k \in 1..Len(L) : L[k] = l[m]
  <2>1. CASE ~Taken(l, m)
    <3>1. /\ Len(Group(l, m, sign)) = 1 + Cardinality(l[m].calls)
          /\ Cardinality(l[m].calls) \in Nat
          /\ Group(l, m, sign)[1] = l[m]
      BY <2>1, <1>3 DEF WithResults
    <3>2. 1 \in 1..Len(Group(l, m, sign))
      BY <3>1
    <3>3. PICK k \in 1..Len(L) : L[k] = Group(l, m, sign)[1]
      BY <3>2, <1>4
    <3> QED BY <3>1, <3>3
  <2>2. CASE Taken(l, m)
    <3>1. PICK i \in 1..Len(l) : m \in Results(l, i) /\ ~Taken(l, i)
      BY <2>2, TakenFacts
    <3>2. PICK n : n = Cardinality(l[i].calls)
      OBVIOUS
    <3>3. WithResults(Group(l, i, sign), n, l, i, sign)
      BY <3>1, <3>2, <1>3
    <3>4. PICK q \in 1..n : Group(l, i, sign)[1 + q] = l[m]
      BY <3>1, <3>3 DEF WithResults
    <3>5. PICK j : j = 1 + q
      OBVIOUS
    <3>6. j \in 1..Len(Group(l, i, sign))
      BY <3>3, <3>5 DEF WithResults
    <3> QED BY <3>4, <3>5, <3>6, <1>4
  <2> QED BY <2>1, <2>2
<1>6. ASSUME NEW k \in 1..Len(L)
      PROVE  \/ \E m \in 1..Len(l) : L[k] = l[m]
             \/ \E m \in 1..Len(l) : \E c \in Missing(l, m) :
                  L[k] = MadeUp(l, m, sign, c)
  <2>1. PICK i, j \in Nat : AtPlace(l, sign, k, i, j)
    BY Placed DEF L
  <2>2. /\ i \in 1..Len(l) /\ ~Taken(l, i) /\ j \in 1..Len(Group(l, i, sign))
        /\ L[k] = Group(l, i, sign)[j]
    BY <2>1 DEF AtPlace, L
  <2>3. PICK n : n = Cardinality(l[i].calls)
    OBVIOUS
  <2>4. WithResults(Group(l, i, sign), n, l, i, sign)
    BY <2>2, <2>3, <1>3
  <2>5. CASE j = 1
    <3>1. L[k] = l[i]
      BY <2>2, <2>4, <2>5 DEF WithResults
    <3> QED BY <2>2, <3>1
  <2>6. CASE j # 1
    <3>1. PICK q : q = j - 1
      OBVIOUS
    <3>2. q \in 1..n /\ 1 + q = j
      BY SMTT(30), <3>1, <2>2, <2>4, <2>6 DEF WithResults
    <3>3. \/ \E m \in Results(l, i) : L[k] = l[m]
          \/ \E c \in Missing(l, i) : L[k] = MadeUp(l, i, sign, c)
      BY <3>2, <2>2, <2>4 DEF WithResults
    <3> QED BY <3>3, <2>2, ResultsFacts
  <2> QED BY <2>5, <2>6
<1> QED BY <1>2, <1>5, <1>6 DEF L

-----------------------------------------------------------------------------
(* What the store holds of one session. *)

\* The ids and the calls that can have been given out when the next id is n.
RowBelow(r, n) ==
  /\ r.id \in (-n + 1)..(n - 1)
  /\ \A c \in r.calls : c < 10 * n

\* No id and no call is used twice.
Apart(R) ==
  \A r, q \in R : r # q => r.id # q.id /\ r.calls \cap q.calls = {}

GoodRows(R, n) ==
  /\ R \subseteq Stored /\ IsFiniteSet(R) /\ Apart(R)
  /\ \A r \in R : RowBelow(r, n)

\* The same of a sequence, and that it is in the order of the store.
Strung(l) ==
  \A i, j \in DOMAIN l :
    i # j => l[i].id # l[j].id /\ l[i].calls \cap l[j].calls = {}

InOrder(l) == \A i, j \in DOMAIN l : i < j => Before(l[i], l[j])

GoodList(l, n) ==
  /\ l \in Seq(Stored) /\ Strung(l)
  /\ \A i \in DOMAIN l : RowBelow(l[i], n)

\* The types of the parts of a message of the store.
LEMMA StoredType ==
  ASSUME NEW r \in Stored
  PROVE  /\ r.id \in Int /\ r.at \in Int /\ r.role \in Roles
         /\ r.calls \subseteq Nat /\ IsFiniteSet(r.calls)
         /\ r.call \in Nat \cup {None}
         /\ r = Row(r.id, r.role, r.calls, r.call, r.at)
         /\ r \in RowSet
         /\ r.role # "assistant" => r.calls = {}
BY DEF Stored, RowSet, Row

\* What has been given out stays given out.
LEMMA BelowLater ==
  ASSUME NEW n \in Nat, NEW m \in Nat, n <= m, NEW r \in Stored, RowBelow(r, n)
  PROVE  RowBelow(r, m)
<1>1. \A c \in r.calls : c \in Int /\ (c < 10 * n)
  BY StoredType DEF RowBelow
<1>2. \A c \in r.calls : c < 10 * m
  <2>1. 10 * n <= 10 * m
    OBVIOUS
  <2> QED BY <1>1, <2>1
<1>3. r.id \in (-m + 1)..(m - 1)
  BY DEF RowBelow
<1> QED BY <1>2, <1>3 DEF RowBelow

\* What the store may hold it may hold later.
LEMMA GoodLater ==
  ASSUME NEW n \in Nat, NEW m \in Nat, n <= m, NEW R, GoodRows(R, n)
  PROVE  GoodRows(R, m)
BY BelowLater DEF GoodRows

\* A message that has the next id and calls numbered after it is new.
LEMMA FreshRow ==
  ASSUME NEW n \in Nat, n <= MaxId, NEW R, R \subseteq Stored, Apart(R),
         \A q \in R : RowBelow(q, n),
         NEW r \in Stored, r.id = n,
         \A c \in r.calls : c \in (10 * n)..(10 * n + 9)
  PROVE  /\ Apart(R \cup {r})
         /\ RowBelow(r, n + 1)
<1>0. MaxId \in Nat
  BY ConversationAssumption
<1>1. ASSUME NEW q \in R PROVE q.id # r.id /\ q.calls \cap r.calls = {}
  <2>1. RowBelow(q, n)
    OBVIOUS
  <2>2. q.id # n
    BY <2>1, <1>0 DEF RowBelow
  <2>3. \A c \in q.calls : c \in Nat /\ c \notin (10 * n)..(10 * n + 9)
    BY <2>1, <1>0, StoredType DEF RowBelow
  <2> QED BY <2>2, <2>3
<1>2. RowBelow(r, n + 1)
  <2>1. r.id \in (-(n + 1) + 1)..((n + 1) - 1)
    OBVIOUS
  <2>2. \A c \in r.calls : c < 10 * (n + 1)
    OBVIOUS
  <2> QED BY <2>1, <2>2 DEF RowBelow
<1> QED BY <1>1, <1>2 DEF Apart

\* A message with the next id and fresh calls may be added.
LEMMA GoodAppend ==
  ASSUME NEW n \in Nat, n <= MaxId, NEW R, GoodRows(R, n),
         NEW r \in Stored, r.id = n,
         \A c \in r.calls : c \in (10 * n)..(10 * n + 9)
  PROVE  GoodRows(R \cup {r}, n + 1)
<1>1. /\ R \subseteq Stored /\ IsFiniteSet(R) /\ Apart(R)
      /\ \A q \in R : RowBelow(q, n)
  BY DEF GoodRows
<1>2. Apart(R \cup {r}) /\ RowBelow(r, n + 1)
  BY <1>1, FreshRow
<1>3. \A q \in R : RowBelow(q, n + 1)
  <2>1. PICK m \in Nat : m = n + 1 /\ n <= m
    OBVIOUS
  <2>2. \A q \in R : RowBelow(q, m)
    BY <1>1, <2>1, BelowLater
  <2> QED BY <2>1, <2>2
<1>4. IsFiniteSet(R \cup {r})
  BY <1>1, FS_AddElement
<1> QED BY <1>1, <1>2, <1>3, <1>4 DEF GoodRows

\* No messages at all are such a set.
LEMMA NothingGood ==
  ASSUME NEW n
  PROVE  GoodRows({}, n)
BY FS_EmptySet DEF GoodRows, Apart

\* The store's order is one when no id is used twice.
LEMMA TimeOrder ==
  ASSUME NEW R, R \subseteq Stored, \A r, q \in R : r # q => r.id # q.id
  PROVE  StrictOrder(R, ByTime(R))
<1>1. \A r \in R : r.id \in Int /\ r.at \in Int
  BY StoredType
<1> QED BY <1>1 DEF StrictOrder, ByTime, Before

\* Reading a session gives each of its messages once, in order.
LEMMA ListingFacts ==
  ASSUME NEW n, NEW R, GoodRows(R, n)
  PROVE  /\ GoodList(Listing(R), n) /\ InOrder(Listing(R))
         /\ Range(Listing(R)) = R
<1> DEFINE l == Listing(R)
           N == Cardinality(R)
<1>1. /\ R \subseteq Stored /\ IsFiniteSet(R) /\ Apart(R)
      /\ \A q \in R : RowBelow(q, n)
  BY DEF GoodRows
<1>2. StrictOrder(R, ByTime(R))
  BY <1>1, TimeOrder DEF Apart
<1>3. Orders(l, R, ByTime(R))
  BY <1>1, <1>2, SortedOrders DEF Listing
<1>4. N \in Nat
  BY <1>1, FS_CardinalityType
<1>5. /\ l \in [1..N -> R] /\ \A x \in R : \E i \in 1..N : l[i] = x
      /\ \A i, j \in 1..N : i < j => <<l[i], l[j]>> \in ByTime(R)
  BY <1>3 DEF Orders
<1> HIDE DEF l, N
<1>6. l \in Seq(Stored) /\ DOMAIN l = 1..N
  BY <1>1, <1>4, <1>5
<1>7. InOrder(l)
  BY <1>5, <1>6 DEF InOrder, ByTime
<1>8. \A i, j \in 1..N : i # j => l[i] # l[j]
  <2>1. \A i, j \in 1..N : i < j => l[i] # l[j]
    BY <1>2, <1>5 DEF StrictOrder
  <2>2. \A i, j \in 1..N : i < j \/ j < i \/ i = j
    BY <1>4
  <2> QED BY <2>1, <2>2
<1>9. Strung(l)
  BY <1>1, <1>5, <1>6, <1>8 DEF Strung, Apart
<1>10. \A i \in DOMAIN l : RowBelow(l[i], n)
  BY <1>1, <1>5, <1>6
<1>11. Range(l) = R
  BY <1>5, <1>6 DEF Range
<1> QED BY <1>6, <1>7, <1>9, <1>10, <1>11 DEF GoodList, l

\* A part of a sequence from the store is like it.
LEMMA PartFacts ==
  ASSUME NEW n, NEW l, GoodList(l, n), InOrder(l),
         NEW a \in Nat, NEW b \in Nat, a >= 1, b <= Len(l)
  PROVE  /\ GoodList(SubSeq(l, a, b), n) /\ InOrder(SubSeq(l, a, b))
         /\ Range(SubSeq(l, a, b)) \subseteq Range(l)
<1> DEFINE m == IF a <= b THEN b - a + 1 ELSE 0
           p == SubSeq(l, a, b)
<1>1. l \in Seq(Stored) /\ Len(l) \in Nat /\ DOMAIN l = 1..Len(l)
  BY LenProperties DEF GoodList
<1>2. /\ p \in Seq(Stored) /\ Len(p) = m
      /\ \A i \in 1..m : p[i] = l[a + i - 1]
  <2>1. \A i \in a..b : l[i] \in Stored
    BY <1>1, ElementOfSeq
  <2>2. a \in Int /\ b \in Int
    OBVIOUS
  <2>3. /\ p \in Seq(Stored) /\ Len(p) = m
        /\ \A i \in 1..(b - a + 1) : p[i] = l[a + i - 1]
    BY <2>1, <2>2, SubSeqProperties
  <2>4. 1..m \subseteq 1..(b - a + 1)
    OBVIOUS
  <2> QED BY <2>3, <2>4
<1>3. m \in Nat /\ \A i \in 1..m : a + i - 1 \in 1..Len(l)
  BY <1>1
<1> HIDE DEF p, m
<1>4. DOMAIN p = 1..m
  BY <1>2, LenProperties
<1>5. \A i \in 1..m : \E k \in DOMAIN l : k = a + i - 1 /\ p[i] = l[k]
  BY <1>1, <1>2, <1>3
<1>6. \A i, j \in 1..m : i # j => \E k, o \in DOMAIN l :
        k # o /\ (i < j => k < o) /\ p[i] = l[k] /\ p[j] = l[o]
  <2> SUFFICES ASSUME NEW i \in 1..m, NEW j \in 1..m, i # j
               PROVE  \E k, o \in DOMAIN l : k # o /\ (i < j => k < o)
                        /\ p[i] = l[k] /\ p[j] = l[o]
    OBVIOUS
  <2>1. PICK k \in DOMAIN l : k = a + i - 1 /\ p[i] = l[k]
    BY <1>5
  <2>2. PICK o \in DOMAIN l : o = a + j - 1 /\ p[j] = l[o]
    BY <1>5
  <2>3. k # o /\ (i < j => k < o)
    BY <1>3, <2>1, <2>2
  <2> QED BY <2>1, <2>2, <2>3
<1>7. Strung(p)
  BY SMTT(30), <1>4, <1>6 DEF Strung, GoodList
<1>8. InOrder(p)
  <2> SUFFICES ASSUME NEW i \in 1..m, NEW j \in 1..m, i < j
               PROVE  Before(p[i], p[j])
    BY <1>4 DEF InOrder
  <2>0. i # j
    BY <1>3
  <2>1. PICK k \in DOMAIN l, o \in DOMAIN l :
          k # o /\ (i < j => k < o) /\ p[i] = l[k] /\ p[j] = l[o]
    BY <2>0, <1>6
  <2> QED BY <2>1 DEF InOrder
<1>9. \A i \in DOMAIN p : RowBelow(p[i], n)
  BY <1>4, <1>5 DEF GoodList
<1>10. Range(p) \subseteq Range(l)
  BY <1>4, <1>5 DEF Range
<1> QED BY <1>2, <1>7, <1>8, <1>9, <1>10 DEF GoodList, p

\* So is what GetMessages returns.
LEMMA GetFacts ==
  ASSUME NEW n, NEW s, GoodRows(rows[s], n), NEW m \in Nat
  PROVE  /\ GoodList(Get(s, m), n) /\ InOrder(Get(s, m))
         /\ Range(Get(s, m)) \subseteq rows[s]
<1> DEFINE all == Listing(rows[s])
<1>1. GoodList(all, n) /\ InOrder(all) /\ Range(all) = rows[s]
  BY ListingFacts
<1>2. Len(all) \in Nat
  BY <1>1, LenProperties DEF GoodList
<1>3. Min({m, Len(all)}) \in Nat /\ Min({m, Len(all)}) <= Len(all)
  <2> HIDE DEF all
  <2>1. CASE m <= Len(all)
    BY <1>2, <2>1, MinOfTwo
  <2>2. CASE ~(m <= Len(all))
    <3>1. {m, Len(all)} = {Len(all), m}
      OBVIOUS
    <3> QED BY <1>2, <2>2, <3>1, MinOfTwo
  <2> QED BY <2>1, <2>2
<1> HIDE DEF all
<1>4. PICK b : b = Min({m, Len(all)})
  OBVIOUS
<1>5. Get(s, m) = SubSeq(all, 1, b)
  BY <1>4 DEF Get, all
<1>6. b \in Nat /\ b <= Len(all)
  BY <1>3, <1>4
<1>7. 1 \in Nat /\ 1 >= 1
  OBVIOUS
<1>8. PICK p : p = SubSeq(all, 1, b)
  OBVIOUS
<1>9. GoodList(p, n) /\ InOrder(p) /\ Range(p) \subseteq Range(all)
  BY <1>1, <1>6, <1>7, <1>8, PartFacts
<1> QED BY <1>1, <1>5, <1>8, <1>9

-----------------------------------------------------------------------------
(* What the operations write. *)

\* A sequence has finitely many elements.
LEMMA RangeFacts ==
  ASSUME NEW X, NEW s \in Seq(X)
  PROVE  /\ IsFiniteSet(Range(s)) /\ Range(s) \subseteq X
         /\ \A x \in Range(s) : \E i \in 1..Len(s) : s[i] = x
         /\ \A i \in 1..Len(s) : s[i] \in Range(s)
<1>1. Len(s) \in Nat /\ DOMAIN s = 1..Len(s) /\ s \in [1..Len(s) -> X]
  BY LenProperties
<1>2. s \in Surjection(1..Len(s), Range(s))
  BY <1>1 DEF Surjection, Range
<1>3. IsFiniteSet(1..Len(s))
  BY <1>1, FS_Interval
<1>4. IsFiniteSet(Range(s))
  BY <1>2, <1>3, FS_Surjection
<1> QED BY <1>1, <1>4 DEF Range

\* The ids of the results made up are the next ones, or those below all.
LEMMA MadeUpIds ==
  ASSUME next \in Nat, NEW l \in Seq(Stored), NEW sign \in Signs(l),
         NEW i \in 1..Len(l), NEW c \in Missing(l, i),
         NEW n, n = next + Cardinality(AllMissing(l))
  PROVE  /\ MadeUp(l, i, sign, c).id = sign[c] * (next + Rank(c, AllMissing(l)))
         /\ Rank(c, AllMissing(l)) \in Nat
         /\ next + Rank(c, AllMissing(l)) < n
         /\ n \in Nat
         /\ c \in AllMissing(l) /\ sign[c] \in {1, -1}
<1>1. c \in AllMissing(l)
  <2>1. i \in DOMAIN l
    BY LenProperties
  <2> QED BY <2>1 DEF AllMissing
<1>2. /\ IsFiniteSet(AllMissing(l)) /\ AllMissing(l) \subseteq Nat
      /\ Cardinality(AllMissing(l)) \in Nat
  BY AllMissingFacts
<1>3. /\ Rank(c, AllMissing(l)) \in Nat
      /\ Rank(c, AllMissing(l)) < Cardinality(AllMissing(l))
  BY <1>1, <1>2, RankFacts
<1>4. MadeUp(l, i, sign, c).id = sign[c] * (next + Rank(c, AllMissing(l)))
  BY DEF MadeUp, Row
<1>5. sign[c] \in {1, -1}
  BY <1>1 DEF Signs
<1> QED BY SMTT(30), <1>1, <1>2, <1>3, <1>4, <1>5

\* Recovery gives no id and no call to two messages.
LEMMA RecoveredGood ==
  ASSUME next \in Nat, next >= 5, NEW l, GoodList(l, next),
         NEW sign \in Signs(l),
         NEW n, n = next + Cardinality(AllMissing(l)), n <= MaxId + 1
  PROVE  GoodRows(Range(Recovered(l, sign)), n)
<1> DEFINE L == Recovered(l, sign)
           R == Range(L)
           Old(r) == \E m \in 1..Len(l) : r = l[m]
           New(r) == \E m \in 1..Len(l) : \E c \in Missing(l, m) :
                       r = MadeUp(l, m, sign, c)
<1>0. MaxId \in Nat
  BY ConversationAssumption
<1>1. /\ l \in Seq(Stored) /\ Len(l) \in Nat /\ DOMAIN l = 1..Len(l)
      /\ Strung(l) /\ \A m \in 1..Len(l) : l[m] \in Stored /\ RowBelow(l[m], next)
  BY LenProperties, ElementOfSeq DEF GoodList
<1>2. L \in Seq(Stored) /\ \A k \in 1..Len(L) : Old(L[k]) \/ New(L[k])
  BY <1>1, RecoveredFacts
<1>3. IsFiniteSet(R) /\ R \subseteq Stored
  BY <1>2, RangeFacts
<1>4. \A r \in R : Old(r) \/ New(r)
  <2> HIDE DEF Old, New, L
  <2> SUFFICES ASSUME NEW r \in Range(L) PROVE Old(r) \/ New(r)
    OBVIOUS
  <2>1. PICK k \in 1..Len(L) : L[k] = r
    BY <1>2, RangeFacts
  <2> QED BY <1>2, <2>1
<1>5. n \in Nat /\ next <= n
  BY <1>1, AllMissingFacts
<1>6. ASSUME NEW r \in R, Old(r)
      PROVE  /\ r.id \in (-next + 1)..(next - 1)
             /\ RowBelow(r, n)
  BY <1>1, <1>5, <1>6, BelowLater DEF RowBelow
<1>7. ASSUME NEW r \in R, New(r)
      PROVE  /\ \/ r.id \in (-n + 1)..(-next)
                \/ r.id \in next..(n - 1)
             /\ r.calls = {}
             /\ RowBelow(r, n)
  <2>1. PICK m \in 1..Len(l) : \E e \in Missing(l, m) : r = MadeUp(l, m, sign, e)
    BY <1>7
  <2>1a. PICK c \in Missing(l, m) : r = MadeUp(l, m, sign, c)
    BY <2>1
  <2>2. PICK k : k = Rank(c, AllMissing(l))
    OBVIOUS
  <2>3. /\ r.id = sign[c] * (next + k) /\ k \in Nat /\ next + k < n
        /\ r.calls = {} /\ sign[c] \in {1, -1}
    BY SMTT(30), <1>1, <2>1a, <2>2, MadeUpIds, MadeUpStored
  <2>4. r.id \in (-n + 1)..(-next) \/ r.id \in next..(n - 1)
    <3>1. sign[c] = 1 => r.id = next + k
      BY <2>3
    <3>2. sign[c] = -1 => r.id = -(next + k)
      BY <2>3
    <3> HIDE DEF R, Old, New
    <3>3. sign[c] = 1 \/ sign[c] = -1
      BY <2>3
    <3>4. next + k \in next..(n - 1) /\ -(next + k) \in (-n + 1)..(-next)
      BY SMTT(30), <2>3, <1>5
    <3> QED BY <3>1, <3>2, <3>3, <3>4
  <2>5. r.id \in (-n + 1)..(n - 1)
    <3> HIDE DEF R, Old, New
    <3>1. PICK x : x = r.id
      OBVIOUS
    <3>2. x \in (-n + 1)..(-next) => x \in (-n + 1)..(n - 1)
      BY <1>5
    <3>3. x \in next..(n - 1) => x \in (-n + 1)..(n - 1)
      BY <1>5
    <3> QED BY <2>4, <3>1, <3>2, <3>3
  <2> QED BY <2>3, <2>4, <2>5 DEF RowBelow
<1>8. ASSUME NEW r \in R, NEW q \in R, r # q, Old(r), Old(q)
      PROVE  r.id # q.id /\ r.calls \cap q.calls = {}
  <2>1. PICK i \in 1..Len(l) : r = l[i]
    BY <1>8
  <2>2. PICK j \in 1..Len(l) : q = l[j]
    BY <1>8
  <2> QED BY <1>1, <1>8, <2>1, <2>2 DEF Strung
<1>9. ASSUME NEW r \in R, NEW q \in R, Old(r), New(q)
      PROVE  r.id # q.id /\ r.calls \cap q.calls = {}
  <2>1. r.id \in (-next + 1)..(next - 1)
    BY <1>6, <1>9
  <2>2. /\ q.id \in (-n + 1)..(-next) \/ q.id \in next..(n - 1)
        /\ q.calls = {}
    BY <1>7, <1>9
  <2> HIDE DEF R, Old, New
  <2>3. r.id # q.id
    BY <2>1, <2>2, <1>0, <1>5
  <2> QED BY <2>2, <2>3
<1>10. ASSUME NEW r \in R, NEW q \in R, r # q, New(r), New(q)
       PROVE  r.id # q.id
  <2>1. PICK m \in 1..Len(l) : \E e \in Missing(l, m) : r = MadeUp(l, m, sign, e)
    BY <1>10
  <2>1a. PICK c \in Missing(l, m) : r = MadeUp(l, m, sign, c)
    BY <2>1
  <2>2. PICK o \in 1..Len(l) : \E e \in Missing(l, o) : q = MadeUp(l, o, sign, e)
    BY <1>10
  <2>2a. PICK d \in Missing(l, o) : q = MadeUp(l, o, sign, d)
    BY <2>2
  <2>3. PICK j, k : j = Rank(c, AllMissing(l)) /\ k = Rank(d, AllMissing(l))
    OBVIOUS
  <2>4. /\ r.id = sign[c] * (next + j) /\ j \in Nat /\ c \in AllMissing(l)
        /\ q.id = sign[d] * (next + k) /\ k \in Nat /\ d \in AllMissing(l)
        /\ sign[c] \in {1, -1} /\ sign[d] \in {1, -1}
    <3>1. /\ r.id = sign[c] * (next + j) /\ j \in Nat /\ c \in AllMissing(l)
          /\ sign[c] \in {1, -1}
      BY ZenonT(40), <1>1, <2>1a, <2>3, MadeUpIds
    <3>2. /\ q.id = sign[d] * (next + k) /\ k \in Nat /\ d \in AllMissing(l)
          /\ sign[d] \in {1, -1}
      BY ZenonT(40), <1>1, <2>2a, <2>3, MadeUpIds
    <3> QED BY <3>1, <3>2
  <2>5. SUFFICES ASSUME r.id = q.id PROVE FALSE
    OBVIOUS
  <2>6. j = k
    <3> HIDE DEF R, Old, New
    <3>1. PICK x, y \in {1, -1} : x = sign[c] /\ y = sign[d]
      BY <2>4
    <3>2. x * (next + j) = y * (next + k)
      BY <2>4, <2>5, <3>1
    <3>3. CASE x = 1
      BY <2>4, <3>2, <3>3
    <3>4. CASE x = -1
      BY <2>4, <3>2, <3>4
    <3> QED BY <3>3, <3>4
  <2>7. c = d
    <3>1. /\ IsFiniteSet(AllMissing(l)) /\ AllMissing(l) \subseteq Nat
      BY <1>1, AllMissingFacts
    <3> QED BY <2>3, <2>4, <2>6, <3>1, RankFacts
  <2>8. c \in l[m].calls /\ c \in l[o].calls
    BY <1>1, <2>1a, <2>2a, <2>7, MissingFacts
  <2>9. m = o
    BY <1>1, <2>8 DEF Strung
  <2> QED BY <1>10, <2>1a, <2>2a, <2>7, <2>9
<1>11. \A r \in R : New(r) => r.calls = {}
  BY <1>7
<1> HIDE DEF R, Old, New
<1>12. Apart(R)
  BY <1>4, <1>8, <1>9, <1>10, <1>11 DEF Apart
<1>13. \A r \in R : RowBelow(r, n)
  BY <1>4, <1>6, <1>7
<1> QED BY <1>3, <1>12, <1>13 DEF GoodRows, R

\* And for every call that misses its result, the one made up.
LEMMA RecoveredHolds ==
  ASSUME next \in Nat, NEW l \in Seq(Stored), NEW sign \in Signs(l)
  PROVE  \A m \in 1..Len(l) : \A c \in Missing(l, m) :
           MadeUp(l, m, sign, c) \in Range(Recovered(l, sign))
<1> DEFINE L == Recovered(l, sign)
           G == GroupsOf(l, sign)
<1> SUFFICES ASSUME NEW m \in 1..Len(l), NEW c \in Missing(l, m)
             PROVE  MadeUp(l, m, sign, c) \in Range(L)
  OBVIOUS
<1>1. /\ Sequences(G, Len(l), Stored)
      /\ \A i \in 1..Len(l) : G[i] = Group(l, i, sign)
      /\ L = Joined(G)
  BY GroupsType
<1>2. L \in Seq(Stored)
  BY RecoveredFacts
<1>3. ~Taken(l, m)
  <2>1. l[m] \in Stored /\ c \in l[m].calls
    BY MissingFacts, ElementOfSeq
  <2>2. l[m].role # "tool"
    BY <2>1 DEF Stored
  <2> QED BY <2>2 DEF Taken
<1>4. PICK n : n = Cardinality(l[m].calls)
  OBVIOUS
<1>5. WithResults(Group(l, m, sign), n, l, m, sign)
  BY <1>3, <1>4, GroupFacts
<1>6. PICK q \in 1..n : Group(l, m, sign)[1 + q] = MadeUp(l, m, sign, c)
  BY <1>5 DEF WithResults
<1>7. PICK j : j = 1 + q
  OBVIOUS
<1>8. j \in 1..Len(Group(l, m, sign))
  BY <1>5, <1>7 DEF WithResults
<1> HIDE DEF G, L
<1>9. PICK k \in 1..Len(Joined(G)) : IsAt(G, k, m, j)
  BY <1>1, <1>8, JoinedAll
<1>10. AtPlace(l, sign, k, m, j)
  BY <1>8, <1>9, PlaceOf DEF G
<1>11. k \in 1..Len(L) /\ L[k] = MadeUp(l, m, sign, c)
  BY <1>6, <1>7, <1>10 DEF AtPlace, L
<1> QED BY <1>2, <1>11, RangeFacts

\* A result of every call, with nothing but results, and messages of the time
\* of the call, between.
Near(R, a, c) ==
  \E r \in R :
    /\ r.role = "tool" /\ r.call = c /\ r.at >= a.at
    /\ \A m \in R : Before(a, m) /\ Before(m, r) =>
         m.role = "tool" \/ m.at = a.at

AllNear(R) == \A a \in R : \A c \in a.calls : Near(R, a, c)

\* What a message of the store is compared by.
LEMMA StoredKeys ==
  ASSUME NEW r \in Stored
  PROVE  r.id \in Int /\ r.at \in Int
BY DEF Stored, RowSet

\* Recovery leaves a result near every call, in the order of the store.
LEMMA RecoveredNear ==
  ASSUME next \in Nat, NEW l \in Seq(Stored), InOrder(l), NEW sign \in Signs(l)
  PROVE  AllNear(Range(Recovered(l, sign)))
<1> DEFINE L == Recovered(l, sign)
           New(r) == \E m \in 1..Len(l) : \E c \in Missing(l, m) :
                       r = MadeUp(l, m, sign, c)
<1>1. /\ Len(l) \in Nat /\ DOMAIN l = 1..Len(l)
      /\ \A m \in 1..Len(l) : l[m] \in Stored
  BY LenProperties, ElementOfSeq
<1>2. /\ \A m \in 1..Len(l) : l[m] \in Range(L)
      /\ \A r \in Range(L) : (\E m \in 1..Len(l) : r = l[m]) \/ New(r)
  <2>1. /\ L \in Seq(Stored)
        /\ \A m \in 1..Len(l) : \E k \in 1..Len(L) : L[k] = l[m]
        /\ \A k \in 1..Len(L) : (\E m \in 1..Len(l) : L[k] = l[m]) \/ New(L[k])
    BY RecoveredFacts
  <2> HIDE DEF L, New
  <2>2. ASSUME NEW m \in 1..Len(l) PROVE l[m] \in Range(L)
    <3>1. PICK k \in 1..Len(L) : L[k] = l[m]
      BY <2>1
    <3> QED BY <2>1, <3>1, RangeFacts
  <2>3. ASSUME NEW r \in Range(L)
        PROVE  (\E m \in 1..Len(l) : r = l[m]) \/ New(r)
    <3>1. PICK k \in 1..Len(L) : L[k] = r
      BY <2>1, RangeFacts
    <3> QED BY <2>1, <3>1
  <2> QED BY <2>2, <2>3
<1>3. ASSUME NEW r, New(r) PROVE r.role = "tool" /\ r.calls = {}
  <2>1. PICK m \in 1..Len(l) : \E c \in Missing(l, m) : r = MadeUp(l, m, sign, c)
    BY <1>3
  <2>2. PICK c \in Missing(l, m) : r = MadeUp(l, m, sign, c)
    BY <2>1
  <2> QED BY <2>2 DEF MadeUp, Row
<1>4. \A m \in 1..Len(l) : \A c \in Missing(l, m) :
        MadeUp(l, m, sign, c) \in Range(L)
  BY RecoveredHolds
<1> HIDE DEF L, New
<1> SUFFICES ASSUME NEW a \in Range(L), NEW c \in a.calls
             PROVE  Near(Range(L), a, c)
  BY DEF AllNear, L
<1>5. PICK i \in 1..Len(l) : a = l[i]
  BY <1>2, <1>3
<1>6. CASE c \in Missing(l, i)
  <2>1. PICK r : r = MadeUp(l, i, sign, c)
    OBVIOUS
  <2>2. r \in Range(L)
    BY <1>4, <1>6, <2>1
  <2>3. r.role = "tool" /\ r.call = c /\ r.at = a.at
    BY <1>5, <2>1 DEF MadeUp, Row
  <2>4. a.at \in Int
    BY <1>1, <1>5, StoredKeys
  <2>5. ASSUME NEW m \in Range(L), Before(a, m), Before(m, r)
        PROVE  m.role = "tool" \/ m.at = a.at
    <3>1. CASE \E j \in 1..Len(l) : m = l[j]
      <4>1. m.at \in Int
        BY <1>1, <3>1, StoredKeys
      <4> QED BY <2>3, <2>4, <2>5, <4>1 DEF Before
    <3>2. CASE New(m)
      BY <1>3, <3>2
    <3> QED BY <1>2, <3>1, <3>2
  <2> QED BY <2>2, <2>3, <2>4, <2>5 DEF Near
<1>7. CASE c \notin Missing(l, i)
  <2>1. PICK k \in Results(l, i) : l[k].call = c
    BY <1>5, <1>7, MissingFacts
  <2>2. /\ k \in 1..Len(l) /\ k > i /\ Owner(l, k) = i /\ l[k].role = "tool"
    <3>1. k \in (i + 1)..Len(l) /\ Owner(l, k) = i
      BY <2>1 DEF Results
    <3>2. k \in 1..Len(l) /\ k > i
      BY <1>1, <3>1
    <3> QED BY <2>1, <3>1, <3>2, ResultsFacts
  <2>3. PICK r : r = l[k]
    OBVIOUS
  <2>4. /\ r \in Range(L) /\ r.role = "tool" /\ r.call = c
    BY <1>2, <2>1, <2>2, <2>3
  <2>5. a.at \in Int /\ r.at \in Int
    BY <1>1, <1>5, <2>2, <2>3, StoredKeys
  <2>6. Before(a, r)
    BY <1>1, <1>5, <2>2, <2>3 DEF InOrder
  <2>7. r.at >= a.at
    BY <2>5, <2>6 DEF Before
  <2>8. ASSUME NEW m \in Range(L), Before(a, m), Before(m, r)
        PROVE  m.role = "tool" \/ m.at = a.at
    <3>1. CASE \E j \in 1..Len(l) : m = l[j]
      <4>1. PICK j \in 1..Len(l) : m = l[j]
        BY <3>1
      <4>2. i < j
        <5>1. ~Before(l[j], l[i]) /\ j # i
          <6>1. /\ m.at \in Int /\ m.id \in Int /\ a.at \in Int /\ a.id \in Int
            BY <1>1, <1>5, <4>1, StoredKeys
          <6>2. ~Before(m, a) /\ m # a
            BY <2>8, <6>1 DEF Before
          <6> QED BY <1>5, <4>1, <6>2
        <5> QED BY <1>1, <5>1 DEF InOrder
      <4>3. j < k
        <5>1. ~Before(l[k], l[j]) /\ j # k
          <6>1. /\ m.at \in Int /\ m.id \in Int /\ r.at \in Int /\ r.id \in Int
            BY <1>1, <2>2, <2>3, <4>1, StoredKeys
          <6>2. ~Before(r, m) /\ m # r
            BY <2>8, <6>1 DEF Before
          <6> QED BY <2>3, <4>1, <6>2
        <5> QED BY <1>1, <2>2, <5>1 DEF InOrder
      <4>4. j \in 1..(k - 1) /\ j > Owner(l, k)
        BY <1>1, <2>2, <4>2, <4>3
      <4> QED BY <2>2, <4>1, <4>4, OwnerFacts
    <3>2. CASE New(m)
      BY <1>3, <3>2
    <3> QED BY <1>2, <3>1, <3>2
  <2> QED BY <2>4, <2>7, <2>8 DEF Near
<1> QED BY <1>6, <1>7

\* What Fork writes: the messages it read, with ids of their own.
Copied(l, sign, n) == [i \in DOMAIN l |-> [l[i] EXCEPT !.id = sign * (n + i - 1)]]

\* A fork holds what the store may hold, with the ids after those given out.
LEMMA CopiedGood ==
  ASSUME NEW n \in Nat, n >= 1, NEW l, GoodList(l, n), NEW sign \in {1, -1}
  PROVE  GoodRows(Range(Copied(l, sign, n)), n + Len(l)) /\ Len(l) \in Nat
<1> DEFINE L == Copied(l, sign, n)
           id(i) == sign * (n + i - 1)
<1>1. /\ l \in Seq(Stored) /\ Len(l) \in Nat /\ DOMAIN l = 1..Len(l)
      /\ Strung(l) /\ \A m \in 1..Len(l) : l[m] \in Stored /\ RowBelow(l[m], n)
  BY LenProperties, ElementOfSeq DEF GoodList
<1>2. ASSUME NEW i \in 1..Len(l)
      PROVE  /\ id(i) \in (-(n + Len(l)) + 1)..((n + Len(l)) - 1)
             /\ \A j \in 1..Len(l) : id(i) = id(j) => i = j
  <2>1. sign = 1 \/ sign = -1
    OBVIOUS
  <2>2. CASE sign = 1
    BY <1>1, <2>2
  <2>3. CASE sign = -1
    BY <1>1, <2>3
  <2> QED BY <2>1, <2>2, <2>3
<1> HIDE DEF id
<1>3. \A i \in 1..Len(l) : L[i] = [l[i] EXCEPT !.id = id(i)]
  BY <1>1 DEF Copied, id
<1>4. \A i \in 1..Len(l) : /\ L[i] \in Stored /\ L[i].id = id(i)
                           /\ L[i].calls = l[i].calls
  <2> SUFFICES ASSUME NEW i \in 1..Len(l)
               PROVE  /\ L[i] \in Stored /\ L[i].id = id(i)
                      /\ L[i].calls = l[i].calls
    OBVIOUS
  <2>1. l[i] \in Stored /\ id(i) \in Int
    BY <1>1, <1>2
  <2> HIDE DEF L
  <2> QED BY <1>3, <2>1 DEF Stored, RowSet
<1>5. L \in [1..Len(l) -> Stored]
  <2>1. DOMAIN L = 1..Len(l)
    BY <1>1 DEF Copied
  <2>2. L = [i \in DOMAIN L |-> L[i]]
    BY DEF Copied
  <2> HIDE DEF L
  <2> QED BY <1>4, <2>1, <2>2
<1> HIDE DEF L
<1>6. L \in Seq(Stored) /\ Len(L) = Len(l)
  BY <1>1, <1>5
<1>7. /\ IsFiniteSet(Range(L)) /\ Range(L) \subseteq Stored
      /\ \A r \in Range(L) : \E i \in 1..Len(l) : r = L[i]
  BY <1>6, RangeFacts
<1>8. Apart(Range(L))
  <2> SUFFICES ASSUME NEW i \in 1..Len(l), NEW j \in 1..Len(l), i # j
               PROVE  L[i].id # L[j].id /\ L[i].calls \cap L[j].calls = {}
    BY <1>7 DEF Apart
  <2>1. l[i].id # l[j].id /\ l[i].calls \cap l[j].calls = {}
    BY <1>1 DEF Strung
  <2>2. L[i].id = id(i) /\ L[j].id = id(j) /\ id(i) # id(j)
    BY <1>2, <1>4
  <2>3. L[i].calls = l[i].calls /\ L[j].calls = l[j].calls
    BY <1>4
  <2> QED BY <2>1, <2>2, <2>3
<1>9. ASSUME NEW i \in 1..Len(l) PROVE RowBelow(L[i], n + Len(l))
  <2>1. \A c \in l[i].calls : c \in Int /\ (c < 10 * n)
    BY SMTT(30), <1>1, StoredType DEF RowBelow
  <2>2. \A c \in L[i].calls : c < 10 * (n + Len(l))
    <3>1. 10 * n <= 10 * (n + Len(l))
      BY <1>1
    <3> QED BY SMTT(30), <1>1, <1>4, <2>1, <3>1
  <2> QED BY <1>2, <1>4, <2>2 DEF RowBelow
<1> QED BY <1>1, <1>7, <1>8, <1>9 DEF GoodRows, L

\* p is the m elements of l after the first a.
Slice(p, l, a, m) ==
  /\ p \in Seq(Stored) /\ Len(p) = m /\ DOMAIN p = 1..m
  /\ \A i \in 1..m : a + i \in 1..Len(l) /\ p[i] = l[a + i]

\* What SubSeq returns is the slice.
LEMMA SliceFacts ==
  ASSUME NEW l \in Seq(Stored), NEW a \in Nat, NEW m \in Nat,
         a + m <= Len(l), NEW f, f = a + 1, NEW e, e = a + m
  PROVE  Slice(SubSeq(l, f, e), l, a, m)
<1> DEFINE p == SubSeq(l, f, e)
<1>1. Len(l) \in Nat
  BY LenProperties
<1>2. f \in Int /\ e \in Int
  OBVIOUS
<1>3. \A i \in f..e : l[i] \in Stored
  <2>1. f..e \subseteq 1..Len(l)
    BY <1>1
  <2> QED BY <2>1, ElementOfSeq
<1>4. /\ p \in Seq(Stored)
      /\ Len(p) = IF f <= e THEN e - f + 1 ELSE 0
      /\ \A i \in 1..(e - f + 1) : p[i] = l[f + i - 1]
  BY <1>2, <1>3, SubSeqProperties
<1> HIDE DEF p
<1>5. Len(p) = m /\ e - f + 1 = m
  BY <1>4
<1>6. DOMAIN p = 1..m
  BY <1>4, <1>5, LenProperties
<1>7. ASSUME NEW i \in 1..m PROVE a + i \in 1..Len(l) /\ p[i] = l[a + i]
  <2>1. f + i - 1 = a + i
    OBVIOUS
  <2> QED BY <1>1, <1>4, <1>5, <2>1
<1> QED BY <1>4, <1>5, <1>6, <1>7 DEF Slice, p

\* How a compaction divides what it has read.
LeadOf(l) == SubSeq(l, 1, LeadCount(l))
RestOf(l) == SubSeq(l, LeadCount(l) + 1, Len(l))
KeptOf(l) == SubSeq(RestOf(l), Boundary(RestOf(l)) + 1, Len(RestOf(l)))

CutAt(l, c, d, m) ==
  /\ c \in Nat /\ d \in Nat /\ m \in Nat /\ c + d + m = Len(l)
  /\ m >= Keep /\ Keep >= 1
  /\ c = LeadCount(l) /\ \A i \in 1..c : l[i].role = "system"
  /\ d # 0 => ~InGroup(l[c + d + 1])
  /\ Slice(LeadOf(l), l, 0, c)
  /\ Slice(Middle(l), l, c, d)
  /\ Slice(KeptOf(l), l, c + d, m)

\* Two parts that make a whole.
LEMMA SumFacts ==
  ASSUME NEW a \in Nat, NEW b \in Nat, NEW n, a + b = n
  PROVE  a + b <= n /\ n = a + b
OBVIOUS

\* The leading messages, those taken out, and those kept are all there are,
\* and as many are kept as must be.
LEMMA CutFacts ==
  ASSUME NEW l \in Seq(Stored), Compactable(l)
  PROVE  \E c, d, m \in Nat : CutAt(l, c, d, m)
<1> DEFINE c == LeadCount(l)
           r == RestOf(l)
           d == Boundary(r)
           m == Len(r) - d
<1>0. Keep \in Nat /\ Keep >= 1
  BY ConversationAssumption
<1>1. Len(l) \in Nat /\ DOMAIN l = 1..Len(l)
  BY LenProperties
<1>2. c \in 0..Len(l) /\ \A i \in 1..c : l[i].role = "system"
  <2> DEFINE T == {0} \cup {n \in DOMAIN l :
                              \A i \in 1..n : l[i].role = "system"}
  <2>1. T \in SUBSET (0..Len(l))
    BY <1>1
  <2>2. IsFiniteSet(0..Len(l)) /\ 0..Len(l) \subseteq Int
    BY <1>1, FS_Interval
  <2>3. IsFiniteSet(T) /\ T \subseteq Int /\ T # {}
    BY <2>1, <2>2, FS_Subset
  <2>4. c = Max(T)
    BY DEF LeadCount
  <2>5. \A n \in T : n = 0 \/ \A i \in 1..n : l[i].role = "system"
    OBVIOUS
  <2>6. 1..0 = {}
    OBVIOUS
  <2> HIDE DEF T, c
  <2>7. c \in T
    BY <2>3, <2>4, MaxFacts
  <2> QED BY <2>1, <2>5, <2>6, <2>7
<1> HIDE DEF c
<1>3. Slice(LeadOf(l), l, 0, c)
  <2>1. 0 + c <= Len(l) /\ c \in Nat /\ 1 = 0 + 1 /\ c = 0 + c
    BY <1>1, <1>2
  <2> QED BY <2>1, SliceFacts DEF LeadOf, c
<1>4. PICK k : k = Len(l) - c
  OBVIOUS
<1>5. k \in Nat /\ c \in Nat /\ c + k = Len(l)
  BY <1>1, <1>2, <1>4
<1>6. Slice(r, l, c, k)
  <2>1. PICK f : f = c + 1
    OBVIOUS
  <2>2. r = SubSeq(l, f, Len(l))
    BY <2>1 DEF RestOf, c
  <2> HIDE DEF r, d, m
  <2>3. c + k <= Len(l) /\ Len(l) = c + k
    BY <1>5, SumFacts, Zenon
  <2>4. Slice(SubSeq(l, f, Len(l)), l, c, k)
    BY <1>5, <2>1, <2>3, SliceFacts
  <2> QED BY <2>2, <2>4
<1>7. r \in Seq(Stored) /\ Len(r) = k /\ DOMAIN r = 1..k
      /\ \A i \in 1..k : c + i \in 1..Len(l) /\ r[i] = l[c + i]
  BY <1>6 DEF Slice
<1>8. Len(r) > Keep + 1 /\ d > 0
  BY DEF Compactable, RestOf
<1> HIDE DEF r
<1>9. d \in 0..(k - Keep) /\ (d # 0 => ~InGroup(r[d + 1]))
  <2> DEFINE T == {b \in 0..(Len(r) - Keep) : b = 0 \/ ~InGroup(r[b + 1])}
  <2>1. 0 \in T
    BY <1>0, <1>5, <1>7, <1>8
  <2>2. T \in SUBSET (0..(k - Keep))
    BY <1>7
  <2>3. IsFiniteSet(0..(k - Keep)) /\ 0..(k - Keep) \subseteq Int
    <3>1. k - Keep \in Int
      BY <1>0, <1>5
    <3> QED BY <3>1, FS_Interval
  <2>4. IsFiniteSet(T)
    BY <2>2, <2>3, FS_Subset
  <2>5. T \subseteq Int
    BY <2>2, <2>3
  <2>6. d = Max(T)
    BY DEF Boundary
  <2>7. \A b \in T : b = 0 \/ ~InGroup(r[b + 1])
    OBVIOUS
  <2> HIDE DEF T, d
  <2>8. d \in T
    BY <2>1, <2>4, <2>5, <2>6, MaxFacts
  <2> QED BY <2>2, <2>7, <2>8
<1> HIDE DEF d
<1>10. d \in Nat /\ m \in Nat /\ m >= Keep /\ d + m = k /\ d <= k
  BY <1>0, <1>5, <1>7, <1>9
<1>11. Slice(Middle(l), l, c, d)
  <2>1. Middle(l) = SubSeq(r, 1, d)
    BY DEF Middle, r, RestOf, d
  <2>2. 0 + d <= Len(r) /\ 1 = 0 + 1 /\ d = 0 + d
    BY <1>7, <1>10
  <2>3. Slice(SubSeq(r, 1, d), r, 0, d)
    BY <1>7, <1>10, <2>2, SliceFacts
  <2>4. \A i \in 1..d : i \in 1..k /\ 0 + i = i
    BY <1>5, <1>10
  <2> QED BY <1>7, <2>1, <2>3, <2>4 DEF Slice
<1>12. Slice(KeptOf(l), l, c + d, m)
  <2>1. PICK f : f = d + 1
    OBVIOUS
  <2>2. KeptOf(l) = SubSeq(r, f, Len(r))
    BY <2>1 DEF KeptOf, r, d
  <2>3. d + m <= Len(r) /\ Len(r) = d + m
    BY <1>5, <1>7, <1>10
  <2> HIDE DEF m
  <2>4. Slice(SubSeq(r, f, Len(r)), r, d, m)
    BY <1>7, <1>10, <2>1, <2>3, SliceFacts
  <2>5. \A i \in 1..m : d + i \in 1..k /\ c + (d + i) = (c + d) + i
    BY <1>5, <1>10
  <2> QED BY SMTT(30), <1>7, <2>2, <2>4, <2>5 DEF Slice
<1>13. c + d + m = Len(l)
  BY <1>5, <1>10
<1>14. d # 0 => ~InGroup(l[c + d + 1])
  <2>1. d + 1 \in 1..k /\ c + (d + 1) = c + d + 1
    BY <1>0, <1>5, <1>10
  <2>2. r[d + 1] = l[c + d + 1]
    BY <1>7, <2>1
  <2> QED BY <1>9, <2>2
<1>15. CutAt(l, c, d, m)
  BY <1>0, <1>2, <1>3, <1>5, <1>10, <1>11, <1>12, <1>13, <1>14 DEF CutAt, c
<1> QED BY <1>5, <1>10, <1>15

\* The times that the message i may be moved to.
MovedTo(kept, t, i) == {t + i} \cup {kept[j].at + (i - j) : j \in 1..i}

\* They are integers, finitely many, and at least one.
LEMMA MovedToFacts ==
  ASSUME NEW kept \in Seq(Stored), NEW t \in Int, NEW i \in 1..Len(kept)
  PROVE  /\ MovedTo(kept, t, i) \subseteq Int
         /\ IsFiniteSet(MovedTo(kept, t, i))
         /\ t + i \in MovedTo(kept, t, i)
         /\ i \in Nat
<1> DEFINE T == {kept[j].at + (i - j) : j \in 1..i}
           f == [j \in 1..i |-> kept[j].at + (i - j)]
<1>1. Len(kept) \in Nat /\ i \in Nat
  BY LenProperties
<1>2. \A j \in 1..i : kept[j] \in Stored
  <2>1. 1..i \subseteq 1..Len(kept)
    BY <1>1
  <2> QED BY <2>1, ElementOfSeq
<1>3. \A j \in 1..i : kept[j].at \in Int
  BY <1>2, StoredType
<1>4. f \in Surjection(1..i, T)
  BY DEF Surjection
<1>5. IsFiniteSet(1..i)
  BY <1>1, FS_Interval
<1>6. T \subseteq Int
  BY <1>1, <1>3
<1>7. MovedTo(kept, t, i) = {t + i} \cup T
  BY DEF MovedTo
<1> HIDE DEF T, f
<1>8. IsFiniteSet(T)
  BY <1>4, <1>5, FS_Surjection
<1>9. IsFiniteSet(T \cup {t + i})
  BY <1>8, FS_AddElement
<1>10. t + i \in Int
  BY <1>1
<1>11. {t + i} \cup T = T \cup {t + i}
  OBVIOUS
<1> QED BY <1>1, <1>6, <1>7, <1>9, <1>10, <1>11

\* Two messages that differ in nothing but id and time.
Alike(r, q) == r.role = q.role /\ r.calls = q.calls /\ r.call = q.call

\* The messages moved are the same otherwise, and each follows the other.
Moved(B, kept, t) ==
  /\ B \in Seq(Stored) /\ Len(B) = Len(kept)
  /\ \A i \in 1..Len(kept) :
       /\ B[i].id = kept[i].id /\ Alike(B[i], kept[i])
       /\ t < B[i].at
  /\ \A i, j \in 1..Len(kept) : i < j => B[i].at < B[j].at

\* Bumped moves the messages after the summary and keeps their order.
LEMMA BumpedFacts ==
  ASSUME NEW kept \in Seq(Stored), NEW t \in Int
  PROVE  Moved(Bumped(kept, t), kept, t)
<1> DEFINE at(i) == Max(MovedTo(kept, t, i))
           n == Len(kept)
           B == Bumped(kept, t)
<1>1. n \in Nat /\ DOMAIN kept = 1..n /\ \A i \in 1..n : kept[i] \in Stored
  BY LenProperties, ElementOfSeq
<1>2. B = [i \in DOMAIN kept |-> [kept[i] EXCEPT !.at = at(i)]]
  BY DEF Bumped, MovedTo
<1>3. \A i \in 1..n : /\ at(i) \in MovedTo(kept, t, i) /\ at(i) \in Int
                      /\ \A x \in MovedTo(kept, t, i) : x <= at(i)
                      /\ t < at(i)
  <2> SUFFICES ASSUME NEW i \in 1..n
               PROVE  /\ at(i) \in MovedTo(kept, t, i) /\ at(i) \in Int
                      /\ \A x \in MovedTo(kept, t, i) : x <= at(i)
                      /\ t < at(i)
    OBVIOUS
  <2>1. /\ MovedTo(kept, t, i) \subseteq Int
        /\ IsFiniteSet(MovedTo(kept, t, i))
        /\ t + i \in MovedTo(kept, t, i)
        /\ i \in Nat /\ i >= 1
    BY MovedToFacts
  <2>2. /\ at(i) \in MovedTo(kept, t, i)
        /\ \A x \in MovedTo(kept, t, i) : x <= at(i)
    BY <2>1, MaxFacts
  <2> HIDE DEF at
  <2>3. t + i <= at(i) /\ at(i) \in Int
    BY <2>1, <2>2
  <2> QED BY <2>1, <2>2, <2>3
<1> HIDE DEF at
<1>4. \A i \in 1..n : /\ B[i] \in Stored /\ B[i].id = kept[i].id
                      /\ Alike(B[i], kept[i]) /\ B[i].at = at(i)
  <2> SUFFICES ASSUME NEW i \in 1..n
               PROVE  /\ B[i] \in Stored /\ B[i].id = kept[i].id
                      /\ Alike(B[i], kept[i]) /\ B[i].at = at(i)
    OBVIOUS
  <2>1. B[i] = [kept[i] EXCEPT !.at = at(i)]
    BY <1>1, <1>2
  <2>2. kept[i] \in Stored /\ at(i) \in Int
    BY <1>1, <1>3
  <2> HIDE DEF B
  <2> QED BY <2>1, <2>2 DEF Stored, RowSet, Alike
<1>5. DOMAIN B = 1..n
  BY <1>1, <1>2
<1>6. B = [i \in DOMAIN B |-> B[i]]
  BY <1>2
<1> HIDE DEF B
<1>7. B \in Seq(Stored) /\ Len(B) = n
  <2>1. B \in [1..n -> Stored]
    BY <1>4, <1>5, <1>6
  <2> QED BY <2>1, <1>1
<1>8. ASSUME NEW i \in 1..n, NEW j \in 1..n, i < j
      PROVE  at(i) < at(j)
  <2>1. i \in Int /\ j \in Int /\ i >= 1
    BY <1>1
  <2>2. at(i) \in MovedTo(kept, t, i) /\ at(i) \in Int /\ at(j) \in Int
    BY <1>3
  <2>3. CASE at(i) = t + i
    <3>1. t + j <= at(j)
      <4>1. t + j \in MovedTo(kept, t, j)
        BY DEF MovedTo
      <4> QED BY <4>1, <1>3
    <3> QED BY <1>8, <2>1, <2>2, <2>3, <3>1
  <2>4. CASE at(i) # t + i
    <3>1. PICK o \in 1..i : at(i) = kept[o].at + (i - o)
      BY <2>2, <2>4 DEF MovedTo
    <3>2. o \in 1..j /\ o \in 1..n /\ o \in Int
      BY <1>1, <1>8, <2>1
    <3>3. kept[o].at + (j - o) \in MovedTo(kept, t, j)
      BY <3>2 DEF MovedTo
    <3>4. kept[o].at + (j - o) <= at(j)
      BY <1>3, <3>3
    <3>5. kept[o].at \in Int
      BY <1>1, <3>2, StoredType
    <3>6. PICK x, y, z : x = kept[o].at /\ y = at(i) /\ z = at(j)
      OBVIOUS
    <3>7. /\ x \in Int /\ y \in Int /\ z \in Int
          /\ y = x + (i - o) /\ x + (j - o) <= z
      BY <2>2, <3>1, <3>4, <3>5, <3>6
    <3>8. y < z
      BY <1>8, <2>1, <3>2, <3>7
    <3> QED BY <3>6, <3>8
  <2> QED BY <2>3, <2>4
<1> HIDE DEF n
<1>9. \A i \in 1..n : t < B[i].at
  BY <1>3, <1>4
<1>10. \A i, j \in 1..n : i < j => B[i].at < B[j].at
  BY <1>4, <1>8
<1> QED BY <1>4, <1>7, <1>9, <1>10 DEF Moved, B, n

\* g is x between the sequences A and B.
InBetween(g, X, A, x, B) ==
  /\ g \in Seq(X) /\ Len(g) = Len(A) + 1 + Len(B)
  /\ \A i \in 1..Len(A) : g[i] = A[i]
  /\ g[Len(A) + 1] = x
  /\ \A i \in 1..Len(B) : g[Len(A) + 1 + i] = B[i]

\* The element between two sequences.
LEMMA Between ==
  ASSUME NEW X, NEW x \in X, NEW A \in Seq(X), NEW B \in Seq(X)
  PROVE  InBetween(A \o <<x>> \o B, X, A, x, B)
<1>1. /\ <<x>> \in Seq(X) /\ Len(<<x>>) = 1 /\ <<x>>[1] = x
      /\ Len(A) \in Nat /\ Len(B) \in Nat
  BY LenProperties
<1> DEFINE h == A \o <<x>>
           a == Len(A)
           b == Len(B)
<1>2. /\ h \in Seq(X) /\ Len(h) = a + 1
      /\ \A i \in 1..(a + 1) : h[i] = IF i <= a THEN A[i] ELSE <<x>>[i - a]
  BY <1>1, ConcatProperties
<1> HIDE DEF h
<1>3. /\ h \o B \in Seq(X) /\ Len(h \o B) = Len(h) + b
      /\ \A i \in 1..(Len(h) + b) :
           (h \o B)[i] = IF i <= Len(h) THEN h[i] ELSE B[i - Len(h)]
  BY ZenonT(40), <1>1, <1>2, ConcatProperties
<1> DEFINE g == h \o B
<1> HIDE DEF g, a, b
<1>4. a \in Nat /\ b \in Nat
  BY <1>1 DEF a, b
<1>5. /\ g \in Seq(X) /\ Len(g) = a + 1 + b
      /\ \A i \in 1..(a + 1 + b) :
           g[i] = IF i <= a + 1 THEN h[i] ELSE B[i - (a + 1)]
  BY <1>2, <1>3 DEF g
<1>6. \A i \in 1..a : g[i] = A[i]
  BY <1>2, <1>4, <1>5
<1>7. g[a + 1] = x
  <2>1. a + 1 \in 1..(a + 1 + b) /\ ~(a + 1 <= a) /\ (a + 1) - a = 1
    BY <1>4
  <2> QED BY <1>1, <1>2, <1>5, <2>1
<1>8. ASSUME NEW i \in 1..b PROVE g[a + 1 + i] = B[i]
  <2>1. /\ a + 1 + i \in 1..(a + 1 + b) /\ ~(a + 1 + i <= a + 1)
        /\ (a + 1 + i) - (a + 1) = i
    BY <1>4
  <2> QED BY <1>5, <2>1
<1> QED BY <1>5, <1>6, <1>7, <1>8 DEF g, h, a, b, InBetween

\* The leading messages as they were, the summary with the id n, and the
\* messages kept, in the order of the store.
Shape(C, l, n, c, d, m) ==
  /\ C \in Seq(Stored) /\ Len(C) = c + 1 + m
  /\ \A i \in 1..c : C[i] = l[i]
  /\ C[c + 1].id = n /\ C[c + 1].calls = {} /\ C[c + 1].role = "system"
  /\ \A i \in 1..m : /\ C[c + 1 + i].id = l[c + d + i].id
                     /\ Alike(C[c + 1 + i], l[c + d + i])
  /\ InOrder(C)

\* The summary is later than the leading messages.
LEMMA SummaryLater ==
  ASSUME NEW l \in Seq(Stored), NEW c, NEW d, NEW m, CutAt(l, c, d, m)
  PROVE  /\ SummaryTime(LeadOf(l), KeptOf(l)) \in Int
         /\ c # 0 => l[c].at < SummaryTime(LeadOf(l), KeptOf(l))
<1> DEFINE lead == LeadOf(l)
           kept == KeptOf(l)
<1>1. /\ lead \in Seq(Stored) /\ Len(lead) = c /\ c \in Nat
      /\ \A i \in 1..c : 0 + i \in 1..Len(l) /\ lead[i] = l[0 + i]
      /\ kept \in Seq(Stored) /\ Len(kept) = m /\ m \in Nat /\ m >= 1
  <2>1. /\ Slice(lead, l, 0, c) /\ Slice(kept, l, c + d, m)
        /\ c \in Nat /\ m \in Nat /\ m >= Keep /\ Keep >= 1
    BY DEF CutAt
  <2>2. Keep \in Nat
    BY ConversationAssumption
  <2> HIDE DEF lead, kept
  <2> QED BY <2>1, <2>2 DEF Slice
<1> HIDE DEF lead, kept
<1>2. Head(kept) \in Stored
  <2>1. kept # <<>>
    BY <1>1, EmptySeq
  <2> QED BY <1>1, <2>1, HeadTailProperties
<1>3. Head(kept).at \in Int
  BY <1>2, StoredType
<1>4. SummaryTime(lead, kept) =
        IF lead # <<>> /\ Head(kept).at - 1 <= Last(lead).at
          THEN Last(lead).at + 1 ELSE Head(kept).at - 1
  BY DEF SummaryTime
<1>5. CASE c = 0
  <2>1. lead = <<>>
    BY <1>1, <1>5, EmptySeq
  <2> QED BY <1>3, <1>4, <1>5, <2>1 DEF lead, kept
<1>6. CASE c # 0
  <2>1. lead # <<>>
    BY <1>1, <1>6, EmptySeq
  <2>2. c \in 1..c /\ 0 + c = c
    BY <1>1, <1>6
  <2>3. Last(lead) = l[c] /\ c \in 1..Len(l)
    BY <1>1, <2>2 DEF Last
  <2>4. l[c] \in Stored
    BY <2>3, ElementOfSeq
  <2>5. l[c].at \in Int
    BY <2>4, StoredType
  <2>6. PICK a, h : a = l[c].at /\ h = Head(kept).at
    OBVIOUS
  <2>7. SummaryTime(lead, kept) = IF h - 1 <= a THEN a + 1 ELSE h - 1
    BY <1>4, <2>1, <2>3, <2>6
  <2>8. SummaryTime(lead, kept) \in Int /\ a < SummaryTime(lead, kept)
    BY <1>3, <2>5, <2>6, <2>7
  <2> QED BY <2>6, <2>8 DEF lead, kept
<1> QED BY <1>5, <1>6

\* Compacted has the shape: the leading messages, the summary, those kept.
LEMMA CompactedShape ==
  ASSUME NEW l \in Seq(Stored), InOrder(l), NEW n \in Int,
         NEW c, NEW d, NEW m, CutAt(l, c, d, m)
  PROVE  Shape(Compacted(l, n), l, n, c, d, m)
<1> DEFINE lead == LeadOf(l)
           kept == KeptOf(l)
           t == SummaryTime(lead, kept)
           B == Bumped(kept, t)
           S == Row(n, "system", {}, None, t)
           C == lead \o <<S>> \o B
<1>1. /\ lead \in Seq(Stored) /\ Len(lead) = c /\ c \in Nat /\ d \in Nat
      /\ \A i \in 1..c : 0 + i \in 1..Len(l) /\ lead[i] = l[0 + i]
      /\ kept \in Seq(Stored) /\ Len(kept) = m /\ m \in Nat
      /\ \A i \in 1..m : (c + d) + i \in 1..Len(l) /\ kept[i] = l[(c + d) + i]
      /\ c + d + m = Len(l) /\ DOMAIN l = 1..Len(l)
  BY LenProperties DEF CutAt, Slice
<1>2. t \in Int /\ (c # 0 => l[c].at < t)
  BY SummaryLater
<1>3. Compacted(l, n) = C
  BY DEF Compacted, LeadOf, KeptOf, RestOf
<1> HIDE DEF lead, kept, t
<1>4. Moved(B, kept, t)
  BY <1>1, <1>2, BumpedFacts
<1> HIDE DEF B
<1>5. /\ S \in Stored /\ S.id = n /\ S.calls = {} /\ S.at = t
      /\ S.role = "system"
  <2>1. None \in Nat \cup {None} /\ {} \in SUBSET Nat /\ IsFiniteSet({})
        /\ "system" \in Roles
    BY FS_EmptySet DEF Roles
  <2>2. S \in Stored
    BY <1>2, <2>1 DEF Row, Stored, RowSet
  <2> QED BY <2>2 DEF Row
<1> HIDE DEF S
<1>6. /\ B \in Seq(Stored) /\ Len(B) = m
      /\ \A i \in 1..m : /\ B[i].id = kept[i].id /\ Alike(B[i], kept[i])
                         /\ t < B[i].at
      /\ \A i, j \in 1..m : i < j => B[i].at < B[j].at
  BY <1>1, <1>4 DEF Moved
<1>7. /\ C \in Seq(Stored) /\ Len(C) = c + 1 + m
      /\ \A i \in 1..c : C[i] = lead[i]
      /\ C[c + 1] = S
      /\ \A i \in 1..m : C[c + 1 + i] = B[i]
  <2>1. /\ C \in Seq(Stored) /\ Len(C) = Len(lead) + 1 + Len(B)
        /\ \A i \in 1..Len(lead) : C[i] = lead[i]
        /\ C[Len(lead) + 1] = S
        /\ \A i \in 1..Len(B) : C[Len(lead) + 1 + i] = B[i]
    <3>1. lead \in Seq(Stored) /\ S \in Stored /\ B \in Seq(Stored)
      BY <1>1, <1>5, <1>6
    <3>2. InBetween(lead \o <<S>> \o B, Stored, lead, S, B)
      BY <3>1, Between
    <3> QED BY <3>2 DEF InBetween
  <2> HIDE DEF C
  <2> QED BY <1>1, <1>6, <2>1
<1> HIDE DEF C
<1>8. \A i \in 1..c : C[i] = l[i] /\ i \in 1..Len(l)
  BY <1>1, <1>7
<1>9. \A i \in 1..m : C[c + 1 + i].id = l[c + d + i].id
                   /\ Alike(C[c + 1 + i], l[c + d + i])
  <2> SUFFICES ASSUME NEW i \in 1..m
               PROVE  /\ C[c + 1 + i].id = l[c + d + i].id
                      /\ Alike(C[c + 1 + i], l[c + d + i])
    OBVIOUS
  <2>1. C[c + 1 + i] = B[i]
    BY <1>7
  <2>2. B[i].id = kept[i].id /\ Alike(B[i], kept[i])
    BY <1>6
  <2>3. kept[i] = l[c + d + i]
    BY <1>1
  <2> QED BY <2>1, <2>2, <2>3
<1>10. \A i \in 1..(c + 1 + m) : C[i] \in Stored /\ C[i].at \in Int
  BY <1>7, ElementOfSeq, StoredType
<1>11. ASSUME NEW i \in 1..c PROVE C[i].at < t
  <2>1. i \in 1..(c + 1 + m) /\ c \in 1..(c + 1 + m) /\ c \in 1..c
    BY SMTT(30), <1>1
  <2>2. C[i].at \in Int /\ C[c].at \in Int /\ C[c] = l[c] /\ C[i] = l[i]
    BY <2>1, <1>8, <1>10
  <2>3. i < c => Before(l[i], l[c])
    BY <2>1, <1>1, <1>8 DEF InOrder
  <2>4. C[i].at <= C[c].at
    BY <2>1, <2>2, <2>3, <1>1 DEF Before
  <2>5. C[c].at < t /\ t \in Int
    <3>1. c # 0
      BY <2>1
    <3> QED BY <1>2, <2>2, <3>1
  <2> QED BY <2>2, <2>4, <2>5
<1>12. ASSUME NEW i \in 1..(c + 1 + m), i > c + 1
       PROVE  \E k \in 1..m : i = c + 1 + k /\ C[i] = B[k]
  <2>1. i - (c + 1) \in 1..m /\ i = c + 1 + (i - (c + 1))
    BY <1>1, <1>12
  <2> QED BY <2>1, <1>7
<1>13. \A i \in 1..(c + 1 + m) : i > c + 1 => t < C[i].at
  BY <1>6, <1>12
<1>14. ASSUME NEW i \in 1..(c + 1 + m), NEW j \in 1..(c + 1 + m), i < j
       PROVE  Before(C[i], C[j])
  <2>0. i \in Int /\ j \in Int /\ C[i].at \in Int /\ C[j].at \in Int
    BY SMTT(30), <1>1, <1>10
  <2>1. CASE j <= c
    <3>1. i \in 1..c /\ j \in 1..c
      BY <1>1, <1>14, <2>0, <2>1
    <3>2. Before(l[i], l[j])
      BY <1>1, <1>8, <1>14, <3>1 DEF InOrder
    <3> QED BY <1>8, <3>1, <3>2
  <2>2. CASE j > c /\ i <= c
    <3>1. i \in 1..c
      BY <1>1, <2>0, <2>2
    <3>2. C[i].at < t
      BY <1>11, <3>1
    <3>3. t <= C[j].at
      <4>1. j = c + 1 \/ j > c + 1
        BY <1>1, <2>0, <2>2
      <4>2. j = c + 1 => C[j].at = t
        BY <1>5, <1>7
      <4>3. j > c + 1 => t < C[j].at
        BY <1>13
      <4> QED BY <4>1, <4>2, <4>3, <2>0, <1>2
    <3> QED BY <2>0, <3>2, <3>3, <1>2 DEF Before
  <2>3. CASE i = c + 1
    <3>1. t < C[j].at
      BY <1>13, <1>14, <2>3
    <3>2. C[i].at = t
      BY <1>5, <1>7, <2>3
    <3> QED BY <3>1, <3>2 DEF Before
  <2>4. CASE i > c + 1
    <3>1. j > c + 1
      BY SMTT(30), <1>1, <1>14, <2>0, <2>4
    <3>2. PICK k \in 1..m : i = c + 1 + k /\ C[i] = B[k]
      BY <1>12, <2>4
    <3>3. PICK o \in 1..m : j = c + 1 + o /\ C[j] = B[o]
      BY <1>12, <3>1
    <3>4. k < o
      BY <1>1, <1>14, <3>2, <3>3
    <3> QED BY <1>6, <3>2, <3>3, <3>4 DEF Before
  <2> QED BY <1>1, <2>0, <2>1, <2>2, <2>3, <2>4
<1>15. InOrder(C)
  <2>1. DOMAIN C = 1..(c + 1 + m)
    BY <1>7, LenProperties
  <2> QED BY <2>1, <1>14 DEF InOrder
<1>16. C[c + 1].id = n /\ C[c + 1].calls = {} /\ C[c + 1].role = "system"
  BY <1>5, <1>7
<1>17. Shape(C, l, n, c, d, m)
  BY <1>7, <1>8, <1>9, <1>15, <1>16 DEF Shape
<1> QED BY <1>3, <1>17

\* Every message but the summary has the id and calls of one read, and is
\* the only one.
LEMMA FromList ==
  ASSUME NEW l \in Seq(Stored), NEW n, NEW c, NEW d, NEW m,
         CutAt(l, c, d, m), NEW C, Shape(C, l, n, c, d, m),
         NEW i \in 1..(c + 1 + m), i # c + 1
  PROVE  \E k \in 1..Len(l) :
           /\ k = (IF i <= c THEN i ELSE d + i - 1)
           /\ C[i].id = l[k].id /\ Alike(C[i], l[k])
<1>1. /\ c \in Nat /\ d \in Nat /\ m \in Nat /\ c + d + m = Len(l)
      /\ \A j \in 1..c : C[j] = l[j]
      /\ \A j \in 1..m : /\ C[c + 1 + j].id = l[c + d + j].id
                         /\ Alike(C[c + 1 + j], l[c + d + j])
  BY DEF CutAt, Shape
<1>2. CASE i <= c
  <2>1. i \in 1..c /\ i \in 1..Len(l)
    BY <1>1, <1>2
  <2>2. Alike(l[i], l[i])
    BY DEF Alike
  <2> QED BY <2>1, <2>2, <1>1, <1>2
<1>3. CASE ~(i <= c)
  <2>1. PICK j : j = i - (c + 1)
    OBVIOUS
  <2>2. j \in 1..m /\ i = c + 1 + j /\ d + i - 1 = c + d + j
        /\ c + d + j \in 1..Len(l)
    BY <1>1, <1>3, <2>1
  <2>3. C[i].id = l[c + d + j].id /\ Alike(C[i], l[c + d + j])
    BY <1>1, <2>2
  <2> QED BY <2>2, <2>3, <1>3
<1> QED BY <1>2, <1>3

\* What a compaction writes is good, and is read back as it was written.
LEMMA CompactedGood ==
  ASSUME NEW n \in Nat, n >= 1, n <= MaxId, NEW l, GoodList(l, n),
         NEW c, NEW d, NEW m, CutAt(l, c, d, m),
         NEW C, Shape(C, l, n, c, d, m)
  PROVE  /\ GoodRows(Range(C), n + 1)
         /\ Listing(Range(C)) = C
<1>0. MaxId \in Nat
  BY ConversationAssumption
<1>1. /\ l \in Seq(Stored) /\ DOMAIN l = 1..Len(l) /\ Strung(l)
      /\ \A k \in 1..Len(l) : l[k] \in Stored /\ RowBelow(l[k], n)
  BY LenProperties, ElementOfSeq DEF GoodList
<1>2. /\ c \in Nat /\ d \in Nat /\ m \in Nat
  BY DEF CutAt
<1>3. /\ C \in Seq(Stored) /\ Len(C) = c + 1 + m /\ InOrder(C)
      /\ C[c + 1].id = n /\ C[c + 1].calls = {}
  BY DEF Shape
<1>4. DOMAIN C = 1..(c + 1 + m) /\ c + 1 + m \in Nat
      /\ \A i \in 1..(c + 1 + m) : C[i] \in Stored
  BY <1>2, <1>3, LenProperties, ElementOfSeq
<1>5. ASSUME NEW i \in 1..(c + 1 + m), i # c + 1
      PROVE  /\ C[i].id # n
             /\ RowBelow(C[i], n)
  <2>1. PICK k \in 1..Len(l) :
          C[i].id = l[k].id /\ C[i].calls = l[k].calls
    BY <1>1, <1>5, FromList DEF Alike
  <2>2. RowBelow(l[k], n)
    BY <1>1
  <2> QED BY <2>1, <2>2, <1>0 DEF RowBelow
<1>6. ASSUME NEW i \in 1..(c + 1 + m)
      PROVE  RowBelow(C[i], n + 1)
  <2>1. CASE i = c + 1
    BY SMTT(30), <1>3, <2>1 DEF RowBelow
  <2>2. CASE i # c + 1
    <3>1. PICK e \in Nat : e = n + 1 /\ n <= e
      OBVIOUS
    <3>2. RowBelow(C[i], n) /\ C[i] \in Stored
      BY <1>4, <1>5, <2>2
    <3>3. RowBelow(C[i], e)
      BY <3>1, <3>2, BelowLater
    <3> QED BY <3>1, <3>3
  <2> QED BY <2>1, <2>2
<1>7. ASSUME NEW i \in 1..(c + 1 + m), NEW j \in 1..(c + 1 + m), i # j
      PROVE  C[i].id # C[j].id /\ C[i].calls \cap C[j].calls = {}
  <2>1. CASE i = c + 1
    BY <1>3, <1>5, <1>7, <2>1
  <2>2. CASE j = c + 1
    BY <1>3, <1>5, <1>7, <2>2
  <2>3. CASE i # c + 1 /\ j # c + 1
    <3>1. PICK k \in 1..Len(l) :
            /\ k = (IF i <= c THEN i ELSE d + i - 1)
            /\ C[i].id = l[k].id /\ C[i].calls = l[k].calls
      BY SMTT(30), <1>1, <2>3, FromList DEF Alike
    <3>2. PICK o \in 1..Len(l) :
            /\ o = (IF j <= c THEN j ELSE d + j - 1)
            /\ C[j].id = l[o].id /\ C[j].calls = l[o].calls
      BY SMTT(30), <1>1, <2>3, FromList DEF Alike
    <3>3. k # o
      BY SMTT(30), <1>2, <1>7, <2>3, <3>1, <3>2
    <3>4. l[k].id # l[o].id /\ l[k].calls \cap l[o].calls = {}
      BY <1>1, <3>3 DEF Strung
    <3> QED BY <3>1, <3>2, <3>4
  <2> QED BY <2>1, <2>2, <2>3
<1>8. /\ IsFiniteSet(Range(C)) /\ Range(C) \subseteq Stored
      /\ \A r \in Range(C) : \E i \in 1..(c + 1 + m) : C[i] = r
  BY <1>3, RangeFacts
<1>9. Apart(Range(C))
  <2> SUFFICES ASSUME NEW r \in Range(C), NEW q \in Range(C), r # q
               PROVE  r.id # q.id /\ r.calls \cap q.calls = {}
    BY DEF Apart
  <2>1. PICK i \in 1..(c + 1 + m) : C[i] = r
    BY <1>8
  <2>2. PICK j \in 1..(c + 1 + m) : C[j] = q
    BY <1>8
  <2> QED BY <1>7, <2>1, <2>2
<1>10. GoodRows(Range(C), n + 1)
  <2>1. \A r \in Range(C) : RowBelow(r, n + 1)
    BY <1>6, <1>8
  <2> QED BY <1>8, <1>9, <2>1 DEF GoodRows
<1>11. Listing(Range(C)) = C
  <2>1. StrictOrder(Range(C), ByTime(Range(C)))
    BY <1>8, <1>9, TimeOrder DEF Apart
  <2>2. PICK e \in Nat : e = c + 1 + m
    BY <1>4
  <2>3. C \in [1..e -> Stored]
    BY <1>3, <1>4, <2>2
  <2>4. \A i, j \in 1..e : i < j => <<C[i], C[j]>> \in ByTime(Range(C))
    <3> SUFFICES ASSUME NEW i \in 1..e, NEW j \in 1..e, i < j
                 PROVE  <<C[i], C[j]>> \in ByTime(Range(C))
      OBVIOUS
    <3>1. C[i] \in Range(C) /\ C[j] \in Range(C)
      BY <1>4, <2>2 DEF Range
    <3>2. Before(C[i], C[j])
      BY <1>3, <1>4, <2>2 DEF InOrder
    <3> QED BY <3>1, <3>2 DEF ByTime
  <2>5. Sorted(Range(C), ByTime(Range(C))) = C
    BY <2>1, <2>3, <2>4, SortedAlready
  <2> QED BY <2>5 DEF Listing
<1> QED BY <1>10, <1>11

\* No id that was read is lost: it is written again or was taken out.
LEMMA CompactedIds ==
  ASSUME NEW l \in Seq(Stored), NEW n, NEW c, NEW d, NEW m,
         CutAt(l, c, d, m), NEW C, Shape(C, l, n, c, d, m)
  PROVE  Ids(Range(l)) \subseteq Ids(Range(C)) \cup Ids(Range(Middle(l)))
<1>1. /\ c \in Nat /\ d \in Nat /\ m \in Nat /\ c + d + m = Len(l)
      /\ Slice(Middle(l), l, c, d)
      /\ C \in Seq(Stored) /\ Len(C) = c + 1 + m
      /\ \A j \in 1..c : C[j] = l[j]
      /\ \A j \in 1..m : C[c + 1 + j].id = l[c + d + j].id
  BY DEF CutAt, Shape
<1>2. /\ Middle(l) \in Seq(Stored) /\ Len(Middle(l)) = d
      /\ \A j \in 1..d : Middle(l)[j] = l[c + j]
  BY <1>1 DEF Slice
<1>3. /\ \A k \in 1..(c + 1 + m) : C[k].id \in Ids(Range(C))
      /\ \A k \in 1..d : Middle(l)[k].id \in Ids(Range(Middle(l)))
  BY <1>1, <1>2, RangeFacts DEF Ids
<1>4. ASSUME NEW k \in 1..Len(l)
      PROVE  l[k].id \in Ids(Range(C)) \cup Ids(Range(Middle(l)))
  <2>1. CASE k <= c
    <3>1. k \in 1..c /\ k \in 1..(c + 1 + m)
      BY <1>1, <2>1
    <3> QED BY <3>1, <1>1, <1>3
  <2>2. CASE k > c /\ k <= c + d
    <3>1. PICK j : j = k - c
      OBVIOUS
    <3>2. j \in 1..d /\ k = c + j
      BY <1>1, <2>2, <3>1
    <3> QED BY <3>2, <1>2, <1>3
  <2>3. CASE k > c + d
    <3>1. PICK j : j = k - (c + d)
      OBVIOUS
    <3>2. j \in 1..m /\ k = c + d + j /\ c + 1 + j \in 1..(c + 1 + m)
      BY <1>1, <2>3, <3>1
    <3>3. C[c + 1 + j].id = l[k].id
      BY <1>1, <3>2
    <3> QED BY <3>2, <3>3, <1>3
  <2> QED BY <1>1, <2>1, <2>2, <2>3
<1> QED BY SMTT(30), <1>4, RangeFacts DEF Ids

\* The messages of an export are good beside those made here.
LEMMA ExportedFacts ==
  /\ Exported \in Seq(Stored)
  /\ Apart(Range(Exported))
  /\ \A r \in Range(Exported) : \A n \in 5..(MaxId + 1) : RowBelow(r, n)
<1> DEFINE call == 21
           e1 == Row(1, "system", {}, None, 0)
           e2 == Row(2, "assistant", {call}, None, 0)
           e3 == Row(3, "tool", {}, call, 0)
           e4 == Row(4, "user", {}, None, 0)
<1>1. MaxId \in Nat
  BY ConversationAssumption
<1>2. Exported = <<e1, e2, e3, e4>>
  BY DEF Exported
<1>3. IsFiniteSet({}) /\ IsFiniteSet({call})
  BY FS_EmptySet, FS_Singleton
<1>4. call = 21
  OBVIOUS
<1>5. e1 \in Stored /\ e2 \in Stored /\ e3 \in Stored /\ e4 \in Stored
  <2> HIDE DEF call
  <2> QED BY SMTT(30), <1>1, <1>3, <1>4 DEF Row, Stored, RowSet, Roles
<1>6. /\ e1.id = 1 /\ e1.calls = {}
      /\ e2.id = 2 /\ e2.calls = {call}
      /\ e3.id = 3 /\ e3.calls = {}
      /\ e4.id = 4 /\ e4.calls = {}
  BY DEF Row
<1> HIDE DEF e1, e2, e3, e4, call
<1>7. Exported \in Seq(Stored) /\ Range(Exported) = {e1, e2, e3, e4}
  <2>1. Exported \in Seq(Stored)
    BY <1>2, <1>5
  <2>2. Len(Exported) = 4 /\ Exported[1] = e1 /\ Exported[2] = e2
        /\ Exported[3] = e3 /\ Exported[4] = e4
    BY <1>2
  <2>3. \A i \in 1..4 : i = 1 \/ i = 2 \/ i = 3 \/ i = 4
    OBVIOUS
  <2>4. Range(Exported) = {e1, e2, e3, e4}
    <3>1. \A x \in Range(Exported) : x \in {e1, e2, e3, e4}
      <4> SUFFICES ASSUME NEW x \in Range(Exported)
                   PROVE  x \in {e1, e2, e3, e4}
        OBVIOUS
      <4>1. PICK i \in 1..4 : Exported[i] = x
        BY SMTT(30), <2>1, <2>2, RangeFacts
      <4> QED BY <4>1, <2>2, <2>3
    <3>2. \A i \in 1..4 : Exported[i] \in Range(Exported)
      BY <2>1, <2>2, RangeFacts
    <3>3. \A x \in {e1, e2, e3, e4} : x \in Range(Exported)
      BY <3>2, <2>2
    <3> QED BY <3>1, <3>3
  <2> QED BY <2>1, <2>4
<1>8. Apart({e1, e2, e3, e4})
  BY <1>1, <1>6 DEF Apart
<1>9. \A r \in {e1, e2, e3, e4} : \A n \in 5..(MaxId + 1) : RowBelow(r, n)
  BY <1>1, <1>4, <1>6 DEF RowBelow
<1> QED BY <1>7, <1>8, <1>9

-----------------------------------------------------------------------------
(* The invariant, in parts that name the state they speak of. *)

StoreOK(R, n) ==
  /\ n \in 5..(MaxId + 1)
  /\ R \in [Sessions -> SUBSET RowSet]
  /\ \A s \in Sessions : GoodRows(R[s], n)

\* Only a session that is made has messages.
MadeOK(R, M) == M \subseteq Sessions /\ \A s \in Sessions \ M : R[s] = {}

\* What an operation has read is good; what is imported goes with what is
\* there.
OpOK(o, R, n, M) ==
  /\ o \in [kind : {"none", "open", "compact", "fork", "import"},
            at : {"none", "fill", "asking", "create", "copy"},
            session : Sessions \cup {None}, list : Seq(RowSet)]
  /\ o.kind # "none" => o.session \in Sessions
  /\ o.kind = "import" => o.at = "copy"
  /\ o.at = "copy" => o.session \in M
  /\ o.list \in Seq(Stored)
  /\ \A r \in Range(o.list) : RowBelow(r, n)
  /\ o.kind = "open" => Apart(Range(o.list)) /\ AllNear(Range(o.list))
  /\ o.kind \in {"compact", "fork"} => Strung(o.list) /\ InOrder(o.list)
  /\ o.kind = "compact" => Compactable(o.list)
  /\ o.kind = "import" => Apart(R[o.session] \cup Range(o.list))

\* An accepted message of a session that an operation is about to replace
\* has been read, or is one of the exceptions.
ReadOK(o, R, A, X, B) ==
  /\ o.kind \in {"open", "compact"} =>
       A \cap Ids(R[o.session]) \subseteq Ids(Range(o.list)) \cup X \cup B
  /\ o.kind = "fork" /\ o.at = "copy" => A \cap Ids(R[o.session]) \subseteq X

IdTypes ==
  \A ids \in {acked, summed, dropped, cleared, raced, beyond} :
    ids \subseteq Int

Safe ==
  /\ StoreOK(rows, next) /\ MadeOK(rows, made)
  /\ OpOK(op, rows, next, made) /\ ReadOK(op, rows, acked, raced, beyond)
  /\ NothingLost

\* The turns, and the turn that runs, with the calls it still has to answer.
TurnOK ==
  /\ turns \in [Sessions -> Seq({"streaming", "over"})]
  /\ run \in [at : {"none", "started", "first", "again", "asked", "results",
                    "ending"},
              session : Sessions \cup {None}, seq : Nat,
              todo : SUBSET Nat]
  /\ RunAt("results") => run.todo # {}

\* An operation that is over wants nothing.
LEMMA NoOpOK ==
  ASSUME NEW R, NEW n, NEW M, NEW A, NEW X, NEW B
  PROVE  OpOK(NoOp, R, n, M) /\ ReadOK(NoOp, R, A, X, B)
<1>1. <<>> \in Seq(Stored) /\ <<>> \in Seq(RowSet) /\ Range(<<>>) = {}
  BY EmptySeq DEF Range
<1> QED BY <1>1 DEF OpOK, ReadOK, NoOp

\* An operation is none the worse for steps that are not about its session.
LEMMA OpLater ==
  ASSUME NEW o, NEW R, NEW T, NEW n \in Nat, NEW m \in Nat, n <= m,
         NEW M, NEW N, M \subseteq N, OpOK(o, R, n, M),
         o.kind = "import" => Apart(T[o.session] \cup Range(o.list))
  PROVE  OpOK(o, T, m, N)
<1>1. o.list \in Seq(Stored) /\ \A r \in Range(o.list) : RowBelow(r, n)
  BY DEF OpOK
<1>2. \A r \in Range(o.list) : r \in Stored
  BY <1>1, RangeFacts
<1>3. \A r \in Range(o.list) : RowBelow(r, m)
  BY <1>1, <1>2, BelowLater
<1> QED BY <1>3 DEF OpOK

\* Nothing of A is lost: it is in E or in a session.
NoneLost(A, R, E) == \A x \in A : x \in E \/ \E s \in Sessions : x \in Ids(R[s])
Excepted == summed \cup dropped \cup cleared \cup raced \cup beyond

\* The two ways to say that no id of A is lost.
LEMMA LostIff ==
  ASSUME NEW A, NEW R, NEW a, NEW b, NEW c, NEW d, NEW e
  PROVE  (A \subseteq (UNION {Ids(R[s]) : s \in Sessions}) \cup a \cup b \cup c
                       \cup d \cup e)
           <=> NoneLost(A, R, a \cup b \cup c \cup d \cup e)
BY DEF NoneLost

\* NothingLost, in the second of them.
LEMMA NothingLostIs ==
  /\ NothingLost <=> NoneLost(acked, rows, Excepted)
  /\ NothingLost' <=> NoneLost(acked', rows', Excepted')
<1>1. NothingLost <=> NoneLost(acked, rows, Excepted)
  BY LostIff DEF NothingLost, Excepted
<1>2. NothingLost' <=> NoneLost(acked', rows', Excepted')
  BY LostIff DEF NothingLost, Excepted
<1> QED BY <1>1, <1>2

\* When every accepted message of a session is still there, or one of the
\* exceptions, nothing is lost.
LEMMA NotLost ==
  ASSUME NothingLost, acked' = acked,
         summed \subseteq summed', dropped \subseteq dropped',
         cleared \subseteq cleared', raced \subseteq raced',
         beyond \subseteq beyond',
         \A s \in Sessions : acked \cap Ids(rows[s]) \subseteq
           Ids(rows'[s]) \cup summed' \cup dropped' \cup cleared' \cup raced'
             \cup beyond'
  PROVE  NothingLost'
<1>1. NoneLost(acked, rows, Excepted)
  BY NothingLostIs
<1>2. Excepted \subseteq Excepted'
  BY DEF Excepted
<1>3. \A s \in Sessions : acked \cap Ids(rows[s]) \subseteq Ids(rows'[s]) \cup Excepted'
  BY DEF Excepted
<1>4. NoneLost(acked', rows', Excepted')
  BY <1>1, <1>2, <1>3 DEF NoneLost
<1> QED BY <1>4, NothingLostIs

\* What the store holds is of its type.
LEMMA StoreType ==
  ASSUME NEW n \in 5..(MaxId + 1), NEW R, DOMAIN R = Sessions,
         R = [s \in Sessions |-> R[s]],
         \A s \in Sessions : GoodRows(R[s], n)
  PROVE  StoreOK(R, n)
<1>1. \A s \in Sessions : R[s] \in SUBSET RowSet
  BY DEF GoodRows, Stored
<1> QED BY <1>1 DEF StoreOK

\* Ids are integers.
LEMMA IdsType ==
  ASSUME NEW R, R \subseteq Stored
  PROVE  Ids(R) \subseteq Int
BY StoredType DEF Ids

\* A message is appended to a session, and an operation may be under way.
LEMMA AppendKeeps ==
  ASSUME Safe, NEW s \in made, NEW r \in Stored, r.id = next,
         \A c \in r.calls : c \in (10 * next)..(10 * next + 9),
         AppendMessage(s, r),
         UNCHANGED <<op, made, summed, dropped, cleared, beyond>>
  PROVE  Safe'
<1>1. /\ next \in Nat /\ next >= 5 /\ next <= MaxId /\ MaxId \in Nat
      /\ next' = next + 1
      /\ rows' = [rows EXCEPT ![s] = @ \cup {r}]
      /\ acked' = acked \cup {next}
      /\ raced' = IF Replacing(s) THEN raced \cup {next} ELSE raced
      /\ rows \in [Sessions -> SUBSET RowSet]
      /\ \A t \in Sessions : GoodRows(rows[t], next)
      /\ s \in Sessions
  BY ConversationAssumption DEF Safe, StoreOK, MadeOK, AppendMessage
<1>2. /\ DOMAIN rows' = Sessions /\ rows' = [t \in Sessions |-> rows'[t]]
      /\ rows'[s] = rows[s] \cup {r}
      /\ \A t \in Sessions : t # s => rows'[t] = rows[t]
  BY <1>1
<1>3. PICK n \in Nat : n = next + 1 /\ next <= n
  BY <1>1
<1>4. \A t \in Sessions : GoodRows(rows'[t], n)
  <2> SUFFICES ASSUME NEW t \in Sessions PROVE GoodRows(rows'[t], n)
    OBVIOUS
  <2>1. CASE t = s
    <3>1. GoodRows(rows[s] \cup {r}, next + 1)
      BY <1>1, GoodAppend
    <3> QED BY <1>2, <1>3, <2>1, <3>1
  <2>2. CASE t # s
    <3>1. GoodRows(rows[t], next)
      BY <1>1
    <3>2. GoodRows(rows[t], n)
      BY <1>1, <1>3, <3>1, GoodLater
    <3> QED BY <1>2, <2>2, <3>2
  <2> QED BY <2>1, <2>2
<1>5. StoreOK(rows', next')
  <2>1. n \in 5..(MaxId + 1)
    BY <1>1, <1>3
  <2> QED BY <1>1, <1>2, <1>3, <1>4, <2>1, StoreType
<1>6. MadeOK(rows', made')
  BY <1>1, <1>2 DEF Safe, MadeOK
<1>7. OpOK(op', rows', next', made')
  <2>1. OpOK(op, rows, next, made)
    BY DEF Safe
  <2>2. ASSUME op.kind = "import"
        PROVE  Apart(rows'[op.session] \cup Range(op.list))
    <3> DEFINE R == rows[op.session] \cup Range(op.list)
    <3>1. /\ op.session \in Sessions /\ op.list \in Seq(Stored)
          /\ Apart(R) /\ \A q \in Range(op.list) : RowBelow(q, next)
      BY <2>1, <2>2 DEF OpOK
    <3>2. /\ rows[op.session] \subseteq Stored
          /\ \A q \in rows[op.session] : RowBelow(q, next)
      BY <1>1, <3>1 DEF GoodRows
    <3>3. Range(op.list) \subseteq Stored
      BY <3>1, RangeFacts
    <3>4. R \subseteq Stored /\ \A q \in R : RowBelow(q, next)
      BY <3>1, <3>2, <3>3
    <3>5. CASE op.session = s
      <4>1. Apart(R \cup {r})
        BY <1>1, <3>1, <3>4, FreshRow
      <4>2. rows'[op.session] \cup Range(op.list) = R \cup {r}
        BY <1>2, <3>5
      <4> QED BY <4>1, <4>2
    <3>6. CASE op.session # s
      BY <1>2, <3>1, <3>6
    <3> QED BY <3>5, <3>6
  <2>3. OpOK(op, rows', n, made)
    <3>1. next \in Nat /\ next <= n /\ made \subseteq made
      BY <1>1, <1>3
    <3>2. op.kind = "import" => Apart(rows'[op.session] \cup Range(op.list))
      BY <2>2
    <3> QED BY <3>1, <3>2, <2>1, OpLater
  <2> QED BY <1>1, <1>3, <2>3
<1>8. ReadOK(op', rows', acked', raced', beyond')
  <2>1. ReadOK(op, rows, acked, raced, beyond) /\ OpOK(op, rows, next, made)
    BY DEF Safe
  <2>2. CASE op.session = s /\ Replacing(s)
    <3>1. Ids(rows'[s]) \subseteq Ids(rows[s]) \cup {next}
      BY <1>2 DEF Ids
    <3>2. acked' \cap Ids(rows'[s]) \subseteq (acked \cap Ids(rows[s])) \cup raced'
      BY <1>1, <2>2, <3>1
    <3> QED BY <1>1, <2>1, <2>2, <3>2 DEF ReadOK
  <2>3. CASE op.session = s /\ ~Replacing(s)
    BY <2>1, <2>3 DEF ReadOK, Replacing, OpOK
  <2>4. CASE op.session # s
    <3>1. \A q \in rows[op.session] : op.session \in Sessions => q.id # next
      <4> SUFFICES ASSUME NEW q \in rows[op.session], op.session \in Sessions
                   PROVE  q.id # next
        OBVIOUS
      <4>1. RowBelow(q, next)
        BY <1>1 DEF GoodRows
      <4> QED BY <4>1, <1>1 DEF RowBelow
    <3>2. op.session \in Sessions =>
            acked' \cap Ids(rows'[op.session]) \subseteq acked \cap Ids(rows[op.session])
      BY <1>1, <1>2, <2>4, <3>1 DEF Ids
    <3>3. raced \subseteq raced'
      BY <1>1
    <3>4. op.kind # "none" => op.session \in Sessions
      BY <2>1 DEF OpOK
    <3> QED BY <2>1, <3>2, <3>3, <3>4 DEF ReadOK
  <2> QED BY <2>2, <2>3, <2>4
<1>9. NothingLost'
  <2>1. NothingLost
    BY DEF Safe
  <2>2. \A t \in Sessions : Ids(rows[t]) \subseteq Ids(rows'[t])
    BY <1>2 DEF Ids
  <2>3. next \in Ids(rows'[s])
    BY <1>2 DEF Ids
  <2>4. raced \subseteq raced'
    BY <1>1
  <2>5. Excepted \subseteq Excepted'
    BY <2>4 DEF Excepted
  <2>6. NoneLost(acked, rows, Excepted)
    BY <2>1, NothingLostIs
  <2>7. NoneLost(acked', rows', Excepted')
    BY <1>1, <2>2, <2>3, <2>5, <2>6 DEF NoneLost
  <2> QED BY <2>7, NothingLostIs
<1> QED BY <1>5, <1>6, <1>7, <1>8, <1>9 DEF Safe

\* The messages of one session are replaced.
Put(T, R, s, X) == T = [R EXCEPT ![s] = X]

\* The store is still good, and the other sessions are as they were.
LEMMA Swapped ==
  ASSUME NEW R, NEW n \in Nat, NEW m \in 5..(MaxId + 1), n <= m,
         StoreOK(R, n), NEW s \in Sessions, NEW X, GoodRows(X, m),
         NEW T, Put(T, R, s, X)
  PROVE  /\ StoreOK(T, m) /\ T[s] = X
         /\ \A t \in Sessions : t # s => T[t] = R[t]
<1>1. R \in [Sessions -> SUBSET RowSet] /\ \A t \in Sessions : GoodRows(R[t], n)
  BY DEF StoreOK
<1>2. m \in Nat
  BY ConversationAssumption
<1>3. /\ DOMAIN T = Sessions /\ T = [t \in Sessions |-> T[t]] /\ T[s] = X
      /\ \A t \in Sessions : t # s => T[t] = R[t]
  BY <1>1 DEF Put
<1>4. \A t \in Sessions : GoodRows(T[t], m)
  <2> SUFFICES ASSUME NEW t \in Sessions PROVE GoodRows(T[t], m)
    OBVIOUS
  <2>1. GoodRows(R[t], m)
    BY <1>1, <1>2, GoodLater
  <2> QED BY <2>1, <1>3
<1>5. StoreOK(T, m)
  BY <1>3, <1>4, StoreType
<1> QED BY <1>3, <1>5

\* A step that writes no message, and after which the operation is good.
LEMMA QuietKeeps ==
  ASSUME Safe, rows' = rows, next' \in Nat, next <= next', next' <= MaxId + 1,
         acked' = acked, raced' = raced, beyond \subseteq beyond',
         UNCHANGED <<summed, dropped, cleared>>,
         made \subseteq made', made' \subseteq Sessions,
         OpOK(op', rows, next', made'),
         ReadOK(op', rows, acked, raced, beyond')
  PROVE  Safe'
<1>1. /\ next \in Nat /\ next >= 5 /\ next' \in 5..(MaxId + 1)
      /\ rows \in [Sessions -> SUBSET RowSet]
      /\ \A s \in Sessions : GoodRows(rows[s], next)
  BY ConversationAssumption DEF Safe, StoreOK
<1>2. PICK m \in 5..(MaxId + 1) : m = next' /\ next <= m /\ m \in Nat
  BY <1>1
<1>3. \A s \in Sessions : GoodRows(rows[s], m)
  BY <1>1, <1>2, GoodLater
<1>4. StoreOK(rows', next')
  BY <1>1, <1>2, <1>3 DEF StoreOK
<1>5. MadeOK(rows', made')
  BY DEF Safe, MadeOK
<1>6. NothingLost'
  <2>1. NoneLost(acked, rows, Excepted)
    BY NothingLostIs DEF Safe
  <2>2. Excepted \subseteq Excepted'
    BY DEF Excepted
  <2>3. NoneLost(acked', rows', Excepted')
    BY <2>1, <2>2 DEF NoneLost
  <2> QED BY <2>3, NothingLostIs
<1> QED BY <1>4, <1>5, <1>6 DEF Safe

\* A step that changes nothing the invariant speaks of.
LEMMA OtherKeeps ==
  ASSUME Safe,
         UNCHANGED <<rows, made, next, op, acked, summed, dropped, cleared,
                     raced, beyond>>
  PROVE  Safe'
BY DEF Safe, NothingLost, StoreOK, MadeOK, OpOK, ReadOK

\* An operation that ends leaves the rest.
LEMMA FinishKeeps ==
  ASSUME Safe, op' = NoOp,
         UNCHANGED <<rows, made, next, acked, summed, dropped, cleared,
                     raced, beyond>>
  PROVE  Safe'
<1>1. /\ OpOK(NoOp, rows, next', made')
      /\ ReadOK(NoOp, rows, acked, raced, beyond')
  BY NoOpOK
<1>2. /\ next' \in Nat /\ next <= next' /\ next' <= MaxId + 1
      /\ made \subseteq made' /\ made' \subseteq Sessions
  BY ConversationAssumption DEF Safe, StoreOK, MadeOK
<1> QED BY <1>1, <1>2, QuietKeeps

\* Start keeps what is stored and read consistent.
LEMMA StartKeeps ==
  ASSUME Safe, NEW s \in Sessions, Start(s)
  PROVE  Safe'
<1>1. /\ next' = next /\ op' = op /\ rows' = rows /\ made' = made \cup {s}
      /\ acked' = acked /\ raced' = raced /\ beyond' = beyond
      /\ UNCHANGED <<summed, dropped, cleared>>
  BY DEF Start, Create, OpKeeps, fateVars, lossVars
<1>2. /\ next \in Nat /\ next' \in Nat /\ next <= next' /\ next' <= MaxId + 1
      /\ made \subseteq made' /\ made' \subseteq Sessions
      /\ OpOK(op, rows, next, made)
      /\ ReadOK(op, rows, acked, raced, beyond)
  BY <1>1, ConversationAssumption DEF Safe, StoreOK, MadeOK
<1>3. op.kind = "import" => Apart(rows[op.session] \cup Range(op.list))
  BY <1>2 DEF OpOK
<1>4. OpOK(op, rows, next', made')
  <2>1. PICK M : M = made' /\ made \subseteq M
    BY <1>2
  <2>2. OpOK(op, rows, next, M)
    <3>1. next <= next
      BY <1>2
    <3> QED BY <1>2, <1>3, <2>1, <3>1, OpLater
  <2> QED BY <1>1, <2>1, <2>2
<1> QED BY <1>1, <1>2, <1>4, QuietKeeps

\* What has been read for an operation.
LEMMA ReadFacts ==
  ASSUME Safe, NEW s \in Sessions, NEW l, l = Get(s, Limit)
  PROVE  /\ GoodList(l, next) /\ InOrder(l) /\ l \in Seq(Stored)
         /\ l \in Seq(RowSet)
         /\ \A r \in Range(l) : RowBelow(r, next)
         /\ NotRead(s, l) = Ids(rows[s]) \ Ids(Range(l))
<1>1. GoodRows(rows[s], next) /\ Limit \in Nat
  BY ConversationAssumption DEF Safe, StoreOK
<1>2. GoodList(l, next) /\ InOrder(l)
  BY <1>1, GetFacts
<1>3. l \in Seq(Stored) /\ \A i \in 1..Len(l) : RowBelow(l[i], next)
  BY <1>2, LenProperties DEF GoodList
<1>4. \A r \in Range(l) : RowBelow(r, next)
  BY <1>3, RangeFacts
<1>5. l \in Seq(RowSet)
  BY <1>3 DEF Stored
<1> QED BY <1>2, <1>3, <1>4, <1>5 DEF NotRead

\* OpenSession keeps what is stored and read consistent.
LEMMA OpenSessionKeeps ==
  ASSUME Safe, NEW s \in Sessions, OpenSession(s)
  PROVE  Safe'
<1>1. PICK l : l = Get(s, Limit)
  OBVIOUS
<1>2. PICK lost : lost = Cardinality(AllMissing(l))
  OBVIOUS
<1>3. PICK sign \in Signs(l) :
        op' = [kind |-> "open", at |-> "fill", session |-> s,
               list |-> Recovered(l, sign)]
  BY <1>1 DEF OpenSession, Begin, Signs
<1>4. /\ next + lost <= MaxId + 1 /\ next' = next + lost
      /\ beyond' = beyond \cup NotRead(s, l)
      /\ UNCHANGED <<rows, made, acked, raced, summed, dropped, cleared>>
  BY <1>1, <1>2 DEF OpenSession, OpKeeps, storeVars
<1>5. next \in Nat /\ next >= 5
  BY ConversationAssumption DEF Safe, StoreOK
<1>6. /\ GoodList(l, next) /\ InOrder(l) /\ l \in Seq(Stored)
      /\ NotRead(s, l) = Ids(rows[s]) \ Ids(Range(l))
  BY <1>1, ReadFacts
<1>7. lost \in Nat
  BY <1>2, <1>6, AllMissingFacts
<1>8. PICK n : n = next + lost
  OBVIOUS
<1>9. PICK L : L = Recovered(l, sign)
  OBVIOUS
<1>10. GoodRows(Range(L), n)
  BY <1>2, <1>4, <1>5, <1>6, <1>8, <1>9, RecoveredGood
<1>11. L \in Seq(Stored) /\ AllNear(Range(L)) /\ Ids(Range(l)) \subseteq Ids(Range(L))
  <2>1. /\ L \in Seq(Stored)
        /\ \A m \in 1..Len(l) : \E k \in 1..Len(L) : L[k] = l[m]
    <3>1. /\ Recovered(l, sign) \in Seq(Stored)
          /\ \A m \in 1..Len(l) : \E k \in 1..Len(Recovered(l, sign)) :
               Recovered(l, sign)[k] = l[m]
      BY <1>5, <1>6, RecoveredFacts
    <3> QED BY <3>1, <1>9
  <2>2. AllNear(Range(L))
    BY <1>5, <1>6, <1>9, RecoveredNear
  <2>3. Range(l) \subseteq Range(L)
    <3> SUFFICES ASSUME NEW x \in Range(l) PROVE x \in Range(L)
      OBVIOUS
    <3>1. PICK m \in 1..Len(l) : l[m] = x
      BY <1>6, RangeFacts
    <3>2. PICK k \in 1..Len(L) : L[k] = x
      BY <2>1, <3>1
    <3> QED BY <2>1, <3>2, RangeFacts
  <2> QED BY <2>1, <2>2, <2>3 DEF Ids
<1>12. OpOK(op', rows, next', made')
  <2>1. L \in Seq(RowSet)
    BY <1>11 DEF Stored
  <2>2. Apart(Range(L)) /\ \A r \in Range(L) : RowBelow(r, n)
    BY <1>10 DEF GoodRows
  <2> QED BY <1>3, <1>4, <1>8, <1>9, <1>11, <2>1, <2>2 DEF OpOK
<1>13. ReadOK(op', rows, acked, raced, beyond')
  BY <1>3, <1>4, <1>6, <1>9, <1>11 DEF ReadOK
<1>14. /\ next' \in Nat /\ next <= next' /\ next' <= MaxId + 1
       /\ made \subseteq made' /\ made' \subseteq Sessions
       /\ beyond \subseteq beyond'
  BY <1>4, <1>5, <1>7 DEF Safe, MadeOK
<1> QED BY <1>4, <1>12, <1>13, <1>14, QuietKeeps

\* The messages of s are replaced by X: nothing is lost that is not read.
LEMMA ReplaceKeeps ==
  ASSUME Safe, NEW s \in made, NEW X, rows' = [rows EXCEPT ![s] = X],
         next' \in Nat, next <= next', next' <= MaxId + 1,
         GoodRows(X, next'), op' = NoOp, acked' = acked, made' = made,
         raced' = raced,
         summed \subseteq summed', dropped \subseteq dropped',
         cleared \subseteq cleared', beyond' = beyond,
         acked \cap Ids(rows[s]) \subseteq
           Ids(X) \cup summed' \cup dropped' \cup cleared' \cup raced \cup beyond
  PROVE  Safe'
<1>1. /\ next \in Nat /\ next >= 5 /\ next' \in 5..(MaxId + 1)
      /\ StoreOK(rows, next) /\ s \in Sessions /\ MadeOK(rows, made)
      /\ NothingLost
  BY ConversationAssumption DEF Safe, StoreOK, MadeOK
<1>2. PICK m \in 5..(MaxId + 1) : m = next' /\ next <= m
  BY <1>1
<1>3. PICK T : T = rows'
  OBVIOUS
<1>4. /\ StoreOK(T, m) /\ T[s] = X
      /\ \A t \in Sessions : t # s => T[t] = rows[t]
  <2>1. GoodRows(X, m) /\ Put(T, rows, s, X) /\ next <= m
    BY <1>2, <1>3 DEF Put
  <2> QED BY <1>1, <2>1, Swapped
<1>5. MadeOK(rows', made')
  BY <1>1, <1>3, <1>4 DEF MadeOK
<1>6. OpOK(op', rows', next', made') /\ ReadOK(op', rows', acked', raced', beyond')
  BY NoOpOK
<1>7. NothingLost'
  <2>1. \A t \in Sessions : acked \cap Ids(rows[t]) \subseteq
          Ids(rows'[t]) \cup summed' \cup dropped' \cup cleared' \cup raced'
            \cup beyond'
    <3> SUFFICES ASSUME NEW t \in Sessions
                 PROVE  acked \cap Ids(rows[t]) \subseteq
                          Ids(rows'[t]) \cup summed' \cup dropped' \cup cleared'
                            \cup raced' \cup beyond'
      OBVIOUS
    <3>1. CASE t = s
      BY <1>3, <1>4, <3>1
    <3>2. CASE t # s
      BY <1>3, <1>4, <3>2
    <3> QED BY <3>1, <3>2
  <2>2. raced \subseteq raced' /\ beyond \subseteq beyond'
    OBVIOUS
  <2> QED BY <1>1, <2>1, <2>2, NotLost
<1> QED BY <1>2, <1>3, <1>4, <1>5, <1>6, <1>7 DEF Safe

\* StoreRecovered keeps what is stored and read consistent.
LEMMA StoreRecoveredKeeps ==
  ASSUME Safe, StoreRecovered
  PROVE  Safe'
<1> DEFINE s == op.session
           L == op.list
<1>1. /\ op.kind = "open" /\ s \in made /\ op' = NoOp
      /\ rows' = [rows EXCEPT ![s] = Range(L)]
      /\ UNCHANGED <<made, next, acked, raced, summed, dropped, cleared, beyond>>
  BY DEF StoreRecovered, Replace, Finish, OpKeeps, fateVars, lossVars
<1>2. /\ L \in Seq(Stored) /\ Apart(Range(L))
      /\ \A r \in Range(L) : RowBelow(r, next)
      /\ next \in Nat /\ next <= MaxId + 1
  BY <1>1, ConversationAssumption DEF Safe, OpOK, StoreOK
<1>3. GoodRows(Range(L), next)
  BY <1>2, RangeFacts DEF GoodRows
<1>4. acked \cap Ids(rows[s]) \subseteq Ids(Range(L)) \cup raced \cup beyond
  BY <1>1 DEF Safe, ReadOK
<1> HIDE DEF s, L
<1>5. PICK X : X = Range(L)
  OBVIOUS
<1>6. /\ next' \in Nat /\ next <= next' /\ next' <= MaxId + 1
      /\ GoodRows(X, next')
  BY <1>1, <1>2, <1>3, <1>5
<1>7. acked \cap Ids(rows[s]) \subseteq
        Ids(X) \cup summed' \cup dropped' \cup cleared' \cup raced \cup beyond
  BY <1>4, <1>5
<1> QED BY <1>1, <1>5, <1>6, <1>7, ReplaceKeeps

\* CompactRead keeps what is stored and read consistent.
LEMMA CompactReadKeeps ==
  ASSUME Safe, NEW s \in Sessions, CompactRead(s)
  PROVE  Safe'
<1>1. PICK l : l = Get(s, Limit)
  OBVIOUS
<1>2. /\ Compactable(l)
      /\ op' = [kind |-> "compact", at |-> "asking", session |-> s, list |-> l]
      /\ beyond' = beyond \cup NotRead(s, l)
      /\ UNCHANGED <<rows, made, next, acked, raced, summed, dropped, cleared>>
  BY <1>1 DEF CompactRead, Begin, OpKeeps, storeVars
<1>3. /\ GoodList(l, next) /\ InOrder(l) /\ l \in Seq(Stored)
      /\ l \in Seq(RowSet)
      /\ \A r \in Range(l) : RowBelow(r, next)
      /\ NotRead(s, l) = Ids(rows[s]) \ Ids(Range(l))
  BY <1>1, ReadFacts
<1>4. OpOK(op', rows, next', made')
  BY <1>2, <1>3 DEF OpOK, GoodList
<1>5. ReadOK(op', rows, acked, raced, beyond')
  BY <1>2, <1>3 DEF ReadOK
<1>6. /\ next' \in Nat /\ next <= next' /\ next' <= MaxId + 1
      /\ made \subseteq made' /\ made' \subseteq Sessions
      /\ beyond \subseteq beyond'
  BY <1>2, ConversationAssumption DEF Safe, MadeOK, StoreOK
<1> QED BY <1>2, <1>4, <1>5, <1>6, QuietKeeps

\* What a compaction has in hand, and what it makes of it.
LEMMA InHand ==
  ASSUME Safe, op.kind = "compact"
  PROVE  /\ op.list \in Seq(Stored) /\ GoodList(op.list, next)
         /\ InOrder(op.list)
         /\ \E c, d, m \in Nat : CutAt(op.list, c, d, m)
         /\ next \in Nat /\ next >= 5
<1>1. /\ op.list \in Seq(Stored) /\ Strung(op.list) /\ InOrder(op.list)
      /\ Compactable(op.list)
      /\ \A r \in Range(op.list) : RowBelow(r, next)
      /\ next \in Nat /\ next >= 5
  BY ConversationAssumption DEF Safe, OpOK, StoreOK
<1>2. \A i \in DOMAIN op.list : RowBelow(op.list[i], next)
  BY <1>1, LenProperties, RangeFacts
<1> QED BY <1>1, <1>2, CutFacts DEF GoodList

\* CompactWrite keeps what is stored and read consistent.
LEMMA CompactWriteKeeps ==
  ASSUME Safe, CompactWrite
  PROVE  Safe'
<1> DEFINE s == op.session
           l == op.list
           C == Compacted(l, next)
<1>1. /\ op.kind = "compact" /\ s \in made /\ next <= MaxId
      /\ rows' = [rows EXCEPT ![s] = Range(C)]
      /\ next' = next + 1 /\ op' = NoOp
      /\ UNCHANGED <<made, acked, raced, cleared, beyond>>
  BY DEF CompactWrite, Doing, Replace, Finish, OpKeeps
<1>2. PICK included \in WithinBudget(Middle(l)) :
        /\ summed' = summed \cup Ids(Range(included))
        /\ dropped' = dropped \cup
             (Ids(Range(Middle(l))) \ Ids(Range(included)))
  BY DEF CompactWrite
<1>3. /\ l \in Seq(Stored) /\ GoodList(l, next) /\ InOrder(l)
      /\ next \in Nat /\ next >= 5
  BY <1>1, InHand
<1>4. PICK c, d, m \in Nat : CutAt(l, c, d, m)
  BY <1>1, InHand
<1> HIDE DEF l, s, C
<1>5. Shape(C, l, next, c, d, m)
  <2>1. next \in Int
    BY <1>3
  <2> QED BY <2>1, <1>3, <1>4, CompactedShape DEF C
<1>6. GoodRows(Range(C), next + 1)
  BY <1>1, <1>3, <1>4, <1>5, CompactedGood
<1>7. Ids(Range(l)) \subseteq Ids(Range(C)) \cup Ids(Range(Middle(l)))
  BY <1>3, <1>4, <1>5, CompactedIds
<1>8. acked \cap Ids(rows[s]) \subseteq Ids(Range(l)) \cup raced \cup beyond
  BY <1>1 DEF Safe, ReadOK, l, s
<1>9. PICK X : X = Range(C)
  OBVIOUS
<1>10. acked \cap Ids(rows[s]) \subseteq
         Ids(X) \cup summed' \cup dropped' \cup cleared' \cup raced \cup beyond
  BY <1>2, <1>7, <1>8, <1>9
<1>11. /\ next' \in Nat /\ next <= next' /\ next' <= MaxId + 1
       /\ GoodRows(X, next')
  BY <1>1, <1>3, <1>6, <1>9, ConversationAssumption
<1>12. /\ summed \subseteq summed' /\ dropped \subseteq dropped'
       /\ cleared \subseteq cleared'
  BY <1>1, <1>2
<1> QED BY <1>1, <1>9, <1>10, <1>11, <1>12, ReplaceKeeps

\* ForkRead keeps what is stored and read consistent.
LEMMA ForkReadKeeps ==
  ASSUME Safe, NEW s \in Sessions, ForkRead(s)
  PROVE  Safe'
<1>1. PICK l : l = Get(s, Limit)
  OBVIOUS
<1>2. /\ op' = [kind |-> "fork", at |-> "create", session |-> s, list |-> l]
      /\ UNCHANGED <<rows, made, next, acked, raced, summed, dropped, cleared,
                     beyond>>
  BY <1>1 DEF ForkRead, Begin, OpKeeps, storeVars, fateVars, lossVars
<1>3. /\ GoodList(l, next) /\ InOrder(l) /\ l \in Seq(Stored)
      /\ l \in Seq(RowSet)
      /\ \A r \in Range(l) : RowBelow(r, next)
  BY <1>1, ReadFacts
<1>4. OpOK(op', rows, next', made')
  BY <1>2, <1>3 DEF OpOK, GoodList
<1>5. ReadOK(op', rows, acked, raced, beyond')
  BY <1>2, <1>3 DEF ReadOK
<1>6. /\ next' \in Nat /\ next <= next' /\ next' <= MaxId + 1
      /\ made \subseteq made' /\ made' \subseteq Sessions
      /\ beyond \subseteq beyond'
  BY <1>2, ConversationAssumption DEF Safe, MadeOK, StoreOK
<1> QED BY <1>2, <1>4, <1>5, <1>6, QuietKeeps

\* ForkCreate keeps what is stored and read consistent.
LEMMA ForkCreateKeeps ==
  ASSUME Safe, NEW t \in Sessions, ForkCreate(t)
  PROVE  Safe'
<1>1. /\ op.kind = "fork" /\ op.at = "create" /\ t \notin made
      /\ made' = made \cup {t}
      /\ op' = [op EXCEPT !.at = "copy", !.session = t]
      /\ UNCHANGED <<rows, next, acked, raced, summed, dropped, cleared, beyond>>
  BY DEF ForkCreate, Doing, Create, OpKeeps, fateVars, lossVars
<1>2. OpOK(op, rows, next, made)
  BY DEF Safe
<1>3. /\ op' \in [kind : {"none", "open", "compact", "fork", "import"},
                  at : {"none", "fill", "asking", "create", "copy"},
                  session : Sessions \cup {None}, list : Seq(RowSet)]
      /\ op'.kind = "fork" /\ op'.at = "copy" /\ op'.session = t
      /\ op'.list = op.list
  BY <1>1, <1>2 DEF OpOK
<1>4. OpOK(op', rows, next', made')
  <2>1. /\ op.list \in Seq(Stored) /\ Strung(op.list) /\ InOrder(op.list)
        /\ \A r \in Range(op.list) : RowBelow(r, next)
    BY <1>1, <1>2 DEF OpOK
  <2> QED BY <1>1, <1>3, <2>1 DEF OpOK
<1>5. ReadOK(op', rows, acked, raced, beyond')
  <2>1. Ids(rows[t]) = {}
    BY <1>1 DEF Safe, MadeOK, Ids
  <2> QED BY <1>3, <2>1 DEF ReadOK
<1>6. /\ next' \in Nat /\ next <= next' /\ next' <= MaxId + 1
      /\ made \subseteq made' /\ made' \subseteq Sessions
      /\ beyond \subseteq beyond'
  BY <1>1, ConversationAssumption DEF Safe, MadeOK, StoreOK
<1> QED BY <1>1, <1>4, <1>5, <1>6, QuietKeeps

\* ForkWrite keeps what is stored and read consistent.
LEMMA ForkWriteKeeps ==
  ASSUME Safe, ForkWrite
  PROVE  Safe'
<1> DEFINE s == op.session
           l == op.list
<1>1. PICK sign \in {1, -1} : rows' = [rows EXCEPT ![s] = Range(Copied(l, sign, next))]
  BY DEF ForkWrite, Replace, Copied
<1>2. /\ op.kind = "fork" /\ op.at = "copy"
      /\ next + Len(l) <= MaxId + 1 /\ next' = next + Len(l) /\ op' = NoOp
      /\ UNCHANGED <<made, acked, raced, summed, dropped, cleared, beyond>>
  BY DEF ForkWrite, Doing, Finish, OpKeeps, fateVars, lossVars
<1>3. /\ l \in Seq(Stored) /\ Strung(l) /\ s \in made
      /\ \A r \in Range(l) : RowBelow(r, next)
      /\ next \in Nat /\ next >= 5
  BY <1>2, ConversationAssumption DEF Safe, OpOK, StoreOK
<1>4. acked \cap Ids(rows[s]) \subseteq raced
  BY <1>2 DEF Safe, ReadOK
<1> HIDE DEF s, l
<1>5. GoodList(l, next)
  BY <1>3, LenProperties, RangeFacts DEF GoodList
<1>6. PICK X : X = Range(Copied(l, sign, next))
  OBVIOUS
<1>7. GoodRows(X, next + Len(l)) /\ Len(l) \in Nat
  <2>1. next \in Nat /\ next >= 1
    BY <1>3
  <2> QED BY <2>1, <1>5, <1>6, CopiedGood
<1>8. /\ next' \in Nat /\ next <= next' /\ next' <= MaxId + 1
      /\ GoodRows(X, next')
  BY <1>2, <1>3, <1>7
<1>9. acked \cap Ids(rows[s]) \subseteq
        Ids(X) \cup summed' \cup dropped' \cup cleared' \cup raced \cup beyond
  BY <1>4
<1> QED BY <1>1, <1>2, <1>3, <1>6, <1>8, <1>9, ReplaceKeeps

\* ImportCreate keeps what is stored and read consistent.
LEMMA ImportCreateKeeps ==
  ASSUME Safe, NEW t \in Sessions, ImportCreate(t)
  PROVE  Safe'
<1>1. /\ t \notin made /\ made' = made \cup {t}
      /\ op' = [kind |-> "import", at |-> "copy", session |-> t,
                list |-> Exported]
      /\ UNCHANGED <<rows, next, acked, raced, summed, dropped, cleared, beyond>>
  BY DEF ImportCreate, Create, Begin, OpKeeps, fateVars, lossVars
<1>2. /\ next \in 5..(MaxId + 1) /\ made \subseteq Sessions /\ rows[t] = {}
      /\ next \in Nat /\ next <= MaxId + 1
  BY <1>1, ConversationAssumption DEF Safe, StoreOK, MadeOK
<1>3. /\ Exported \in Seq(Stored) /\ Exported \in Seq(RowSet)
      /\ Apart(rows[t] \cup Range(Exported))
      /\ \A r \in Range(Exported) : RowBelow(r, next)
  <2>1. rows[t] \cup Range(Exported) = Range(Exported)
    BY <1>2
  <2>2. Exported \in Seq(Stored)
    BY ExportedFacts
  <2>3. Exported \in Seq(RowSet)
    BY <2>2 DEF Stored
  <2> QED BY <1>2, <2>1, <2>2, <2>3, ExportedFacts
<1>4. OpOK(op', rows, next', made')
  BY <1>1, <1>2, <1>3 DEF OpOK
<1>5. ReadOK(op', rows, acked, raced, beyond')
  BY <1>1 DEF ReadOK
<1>6. /\ next' \in Nat /\ next <= next' /\ next' <= MaxId + 1
      /\ made \subseteq made' /\ made' \subseteq Sessions
      /\ beyond \subseteq beyond'
  BY <1>1, <1>2
<1> QED BY <1>1, <1>4, <1>5, <1>6, QuietKeeps

\* A step that puts messages into a session and lets the operation go on.
LEMMA GrowKeeps ==
  ASSUME Safe, NEW s \in made, NEW X, rows' = [rows EXCEPT ![s] = X],
         next' = next, made' = made, GoodRows(X, next),
         OpOK(op', rows', next, made),
         ReadOK(op', rows', acked, raced, beyond),
         acked' = acked, raced' = raced, beyond' = beyond,
         summed' = summed, dropped' = dropped, cleared \subseteq cleared',
         Ids(rows[s]) \subseteq Ids(X) \cup cleared'
  PROVE  Safe'
<1>1. /\ next \in Nat /\ next \in 5..(MaxId + 1)
      /\ StoreOK(rows, next) /\ s \in Sessions /\ MadeOK(rows, made)
      /\ NothingLost /\ next <= next
  BY ConversationAssumption DEF Safe, StoreOK, MadeOK
<1>2. PICK T : T = rows'
  OBVIOUS
<1>3. /\ StoreOK(T, next) /\ T[s] = X
      /\ \A t \in Sessions : t # s => T[t] = rows[t]
  <2>1. Put(T, rows, s, X)
    BY <1>2 DEF Put
  <2> QED BY <1>1, <2>1, Swapped
<1>4. MadeOK(rows', made')
  BY <1>1, <1>2, <1>3 DEF MadeOK
<1>5. NothingLost'
  <2>1. \A t \in Sessions : acked \cap Ids(rows[t]) \subseteq
          Ids(rows'[t]) \cup summed' \cup dropped' \cup cleared' \cup raced'
            \cup beyond'
    <3> SUFFICES ASSUME NEW t \in Sessions
                 PROVE  acked \cap Ids(rows[t]) \subseteq
                          Ids(rows'[t]) \cup summed' \cup dropped' \cup cleared'
                            \cup raced' \cup beyond'
      OBVIOUS
    <3>1. CASE t = s
      BY <1>2, <1>3, <3>1
    <3>2. CASE t # s
      BY <1>2, <1>3, <3>2
    <3> QED BY <3>1, <3>2
  <2>2. raced \subseteq raced' /\ beyond \subseteq beyond'
        /\ summed \subseteq summed' /\ dropped \subseteq dropped'
    OBVIOUS
  <2> QED BY <1>1, <2>1, <2>2, NotLost
<1> QED BY <1>2, <1>3, <1>4, <1>5 DEF Safe

\* ImportAppend keeps what is stored and read consistent.
LEMMA ImportAppendKeeps ==
  ASSUME Safe, ImportAppend
  PROVE  Safe'
<1> DEFINE s == op.session
           l == op.list
<1>1. /\ op.kind = "import" /\ op.at = "copy" /\ l # <<>>
      /\ rows' = [rows EXCEPT ![s] = @ \cup {Head(l)}]
      /\ op' = [op EXCEPT !.list = Tail(l)]
      /\ UNCHANGED <<made, next, acked, raced, summed, dropped, cleared, beyond>>
  BY DEF ImportAppend, Doing, OpKeeps, fateVars, lossVars
<1>2. /\ OpOK(op, rows, next, made) /\ s \in made /\ s \in Sessions
      /\ l \in Seq(Stored) /\ Apart(rows[s] \cup Range(l))
      /\ \A r \in Range(l) : RowBelow(r, next)
      /\ rows \in [Sessions -> SUBSET RowSet] /\ GoodRows(rows[s], next)
  BY <1>1 DEF Safe, OpOK, StoreOK, MadeOK
<1>3. /\ Head(l) \in Stored /\ Head(l) \in Range(l)
      /\ Tail(l) \in Seq(Stored) /\ Range(Tail(l)) \subseteq Range(l)
  <2> HIDE DEF l
  <2>1. /\ Head(l) = l[1] /\ Tail(l) \in Seq(Stored) /\ Head(l) \in Stored
        /\ Len(Tail(l)) = Len(l) - 1
        /\ \A i \in 1..Len(Tail(l)) : Tail(l)[i] = l[i + 1]
    BY <1>1, <1>2, HeadTailProperties
  <2>2. Len(l) \in Nat /\ Len(l) >= 1
    BY <1>1, <1>2, EmptySeq, LenProperties
  <2>3. l[1] \in Range(l)
    BY <1>2, <2>2, RangeFacts
  <2>4. \A i \in 1..Len(Tail(l)) : i + 1 \in 1..Len(l)
    BY <2>1, <2>2
  <2>5. \A i \in 1..Len(Tail(l)) : Tail(l)[i] \in Range(l)
    BY <1>2, <2>1, <2>4, RangeFacts
  <2>6. Range(Tail(l)) \subseteq Range(l)
    <3> SUFFICES ASSUME NEW x \in Range(Tail(l)) PROVE x \in Range(l)
      OBVIOUS
    <3>0. PICK t : t = Tail(l)
      OBVIOUS
    <3>1. PICK i \in 1..Len(Tail(l)) : Tail(l)[i] = x
      <4>1. t \in Seq(Stored) /\ x \in Range(t)
        BY <2>1, <3>0
      <4>2. \E i \in 1..Len(t) : t[i] = x
        BY <4>1, RangeFacts
      <4> QED BY <3>0, <4>2
    <3> QED BY <2>5, <3>1
  <2> QED BY <2>1, <2>3, <2>6
<1>4. /\ op' \in [kind : {"none", "open", "compact", "fork", "import"},
                  at : {"none", "fill", "asking", "create", "copy"},
                  session : Sessions \cup {None}, list : Seq(RowSet)]
      /\ op'.kind = "import" /\ op'.at = "copy" /\ op'.session = s
      /\ op'.list = Tail(l)
  <2>1. Tail(l) \in Seq(RowSet)
    BY <1>3 DEF Stored
  <2>2. op \in [kind : {"none", "open", "compact", "fork", "import"},
                at : {"none", "fill", "asking", "create", "copy"},
                session : Sessions \cup {None}, list : Seq(RowSet)]
    BY <1>2 DEF OpOK
  <2> QED BY <1>1, <2>1, <2>2
<1> HIDE DEF l, s
<1>5. PICK X : X = rows[s] \cup {Head(l)}
  BY Zenon
<1>6. rows' = [rows EXCEPT ![s] = X] /\ rows'[s] = X
  BY <1>1, <1>2, <1>5
<1>7. GoodRows(X, next)
  <2>1. /\ rows[s] \subseteq Stored /\ IsFiniteSet(rows[s])
        /\ \A r \in rows[s] : RowBelow(r, next)
    BY <1>2 DEF GoodRows
  <2>2. IsFiniteSet(X)
    BY <1>5, <2>1, FS_AddElement
  <2>3. Apart(X)
    BY <1>2, <1>3, <1>5 DEF Apart
  <2> QED BY <1>2, <1>3, <1>5, <2>1, <2>2, <2>3 DEF GoodRows
<1>8. OpOK(op', rows', next, made)
  <2>1. Apart(X \cup Range(Tail(l)))
    BY <1>2, <1>3, <1>5 DEF Apart
  <2>2. \A r \in Range(Tail(l)) : RowBelow(r, next)
    BY <1>2, <1>3
  <2> QED BY <1>2, <1>3, <1>4, <1>6, <2>1, <2>2 DEF OpOK
<1>9. ReadOK(op', rows', acked, raced, beyond)
  BY <1>4 DEF ReadOK
<1>10. Ids(rows[s]) \subseteq Ids(X) \cup cleared'
  BY <1>5 DEF Ids
<1>11. next' = next /\ made' = made /\ acked' = acked /\ raced' = raced
       /\ beyond' = beyond /\ summed' = summed /\ dropped' = dropped
       /\ cleared \subseteq cleared'
  BY <1>1
<1> QED BY <1>2, <1>6, <1>7, <1>8, <1>9, <1>10, <1>11, GrowKeeps

\* ImportFails keeps what is stored and read consistent.
LEMMA ImportFailsKeeps ==
  ASSUME Safe, ImportFails
  PROVE  Safe'
<1> DEFINE s == op.session
<1>1. /\ op.kind = "import" /\ op' = NoOp
      /\ rows' = [rows EXCEPT ![s] = {}] /\ made' = made \ {s}
      /\ cleared' = cleared \cup Ids(rows[s])
      /\ UNCHANGED <<next, acked, raced, summed, dropped, beyond>>
  BY DEF ImportFails, DeleteSession, Finish
<1>2. /\ s \in Sessions /\ MadeOK(rows, made) /\ StoreOK(rows, next)
      /\ next \in Nat /\ next \in 5..(MaxId + 1) /\ next <= next
      /\ NothingLost
  BY <1>1, ConversationAssumption DEF Safe, OpOK, StoreOK
<1> HIDE DEF s
<1>3. PICK T : T = rows'
  OBVIOUS
<1>4. /\ StoreOK(T, next) /\ T[s] = {}
      /\ \A t \in Sessions : t # s => T[t] = rows[t]
  <2>1. PICK X : X = {}
    OBVIOUS
  <2>2. Put(T, rows, s, X) /\ GoodRows(X, next)
    BY <1>1, <1>3, <2>1, NothingGood DEF Put
  <2> QED BY <1>2, <2>1, <2>2, Swapped
<1>5. MadeOK(rows', made')
  BY <1>1, <1>2, <1>3, <1>4 DEF MadeOK
<1>6. OpOK(op', rows', next', made') /\ ReadOK(op', rows', acked', raced', beyond')
  BY <1>1, NoOpOK
<1>7. NothingLost'
  <2>1. \A t \in Sessions : acked \cap Ids(rows[t]) \subseteq
          Ids(rows'[t]) \cup summed' \cup dropped' \cup cleared' \cup raced'
            \cup beyond'
    <3> SUFFICES ASSUME NEW t \in Sessions
                 PROVE  acked \cap Ids(rows[t]) \subseteq
                          Ids(rows'[t]) \cup summed' \cup dropped' \cup cleared'
                            \cup raced' \cup beyond'
      OBVIOUS
    <3>1. CASE t = s
      BY <1>1, <3>1
    <3>2. CASE t # s
      BY <1>3, <1>4, <3>2
    <3> QED BY <3>1, <3>2
  <2>2. /\ raced \subseteq raced' /\ beyond \subseteq beyond'
        /\ summed \subseteq summed' /\ dropped \subseteq dropped'
        /\ cleared \subseteq cleared' /\ acked' = acked
    BY <1>1
  <2> QED BY <1>2, <2>1, <2>2, NotLost
<1> QED BY <1>1, <1>3, <1>4, <1>5, <1>6, <1>7 DEF Safe

\* ClearMessages keeps what is stored and read consistent.
LEMMA ClearMessagesKeeps ==
  ASSUME Safe, NEW s \in Sessions, ClearMessages(s)
  PROVE  Safe'
<1>1. /\ s \in made /\ ~(op.at = "copy" /\ op.session = s)
      /\ rows' = [rows EXCEPT ![s] = {}]
      /\ cleared' = cleared \cup Ids(rows[s])
      /\ UNCHANGED <<made, next, op, acked, raced, summed, dropped, beyond>>
  BY DEF ClearMessages, Known, OpKeeps
<1>2. /\ OpOK(op, rows, next, made) /\ ReadOK(op, rows, acked, raced, beyond)
      /\ rows \in [Sessions -> SUBSET RowSet] /\ next \in Nat /\ next <= next
  BY ConversationAssumption DEF Safe, StoreOK
<1>3. rows'[s] = {} /\ \A t \in Sessions : t # s => rows'[t] = rows[t]
  BY <1>1, <1>2
<1>4. OpOK(op', rows', next, made)
  <2>1. op.kind = "import" => op.session \in Sessions /\ op.session # s
                              /\ Apart(rows[op.session] \cup Range(op.list))
    BY <1>1, <1>2 DEF OpOK
  <2>2. op.kind = "import" => Apart(rows'[op.session] \cup Range(op.list))
    BY <1>3, <2>1
  <2>3. made \subseteq made
    OBVIOUS
  <2>4. PICK T : T = rows'
    OBVIOUS
  <2>5. OpOK(op, T, next, made)
    BY <1>2, <2>2, <2>3, <2>4, OpLater
  <2> QED BY <1>1, <2>4, <2>5
<1>5. ReadOK(op', rows', acked, raced, beyond)
  <2>1. Ids(rows'[s]) = {}
    BY <1>3 DEF Ids
  <2>2. op.kind # "none" => op.session \in Sessions
    BY <1>2 DEF OpOK
  <2>3. CASE op.session = s
    BY <1>1, <2>1, <2>3 DEF ReadOK
  <2>4. CASE op.session # s
    BY <1>1, <1>2, <1>3, <2>2, <2>4 DEF ReadOK
  <2> QED BY <2>3, <2>4
<1>6. PICK X : X = {}
  OBVIOUS
<1>7. GoodRows(X, next) /\ Ids(rows[s]) \subseteq Ids(X) \cup cleared'
  BY <1>1, <1>6, NothingGood
<1>8. next' = next /\ made' = made /\ acked' = acked /\ raced' = raced
      /\ beyond' = beyond /\ summed' = summed /\ dropped' = dropped
      /\ cleared \subseteq cleared' /\ rows' = [rows EXCEPT ![s] = X]
  BY <1>1, <1>6
<1> QED BY <1>1, <1>4, <1>5, <1>7, <1>8, GrowKeeps

-----------------------------------------------------------------------------
(* The turns, and every step. *)

IInv == Safe /\ TurnOK /\ IdTypes /\ spent \in Nat

\* A turn that is saved is one of the turns.
LEMMA SaveTurnType ==
  ASSUME TurnOK, NEW s \in Sessions, NEW seq \in Nat,
         NEW state \in {"streaming", "over"}, SaveTurn(s, seq, state)
  PROVE  turns' \in [Sessions -> Seq({"streaming", "over"})]
<1> DEFINE S == {"streaming", "over"}
           q == turns[s]
           p == IF seq > Len(q) THEN Append(q, state)
                ELSE [q EXCEPT ![seq] = state]
<1>1. turns \in [Sessions -> Seq(S)] /\ turns' = [turns EXCEPT ![s] = p]
  BY DEF TurnOK, SaveTurn
<1>2. q \in Seq(S) /\ state \in S
  BY <1>1
<1> HIDE DEF S
<1>3. Append(q, state) \in Seq(S)
  BY <1>2, AppendProperties
<1>4. [q EXCEPT ![seq] = state] \in Seq(S)
  <2>1. q \in [1..Len(q) -> S] /\ Len(q) \in Nat
    BY <1>2, LenProperties
  <2>2. [q EXCEPT ![seq] = state] \in [1..Len(q) -> S]
    BY <1>2, <2>1
  <2> QED BY <2>1, <2>2, SeqDef
<1>5. p \in Seq(S)
  BY <1>3, <1>4
<1> HIDE DEF p, q
<1>6. turns' \in [Sessions -> Seq(S)]
  BY <1>1, <1>5
<1> QED BY <1>6 DEF S

\* SaveTurn keeps the states of the turns.
LEMMA SavedType ==
  ASSUME TurnOK, made \subseteq Sessions, Saved
  PROVE  turns' \in [Sessions -> Seq({"streaming", "over"})]
<1>1. CASE UNCHANGED turns
  BY <1>1 DEF TurnOK
<1>2. CASE run.session \in made /\ SaveTurn(run.session, run.seq, "over")
  <2>1. run.session \in Sessions /\ run.seq \in Nat
    BY <1>2 DEF TurnOK
  <2> QED BY <1>2, <2>1, SaveTurnType
<1> QED BY <1>1, <1>2 DEF Saved

\* The first of the calls that are still to be answered.
LEMMA FirstCall ==
  ASSUME NEW T, T \subseteq Nat, T # {}
  PROVE  Min(T) \in T
<1>1. \E x \in T : \A y \in T : x <= y
  BY LeastExists
<1>2. Min(T) = CHOOSE x \in T : \A y \in T : x <= y
  BY DEF Min
<1> QED BY <1>1, <1>2

\* Now is later than every message of the session.
LEMMA TimeFacts ==
  ASSUME Safe, NEW s \in Sessions
  PROVE  /\ Time(s) \in Int /\ next \in Nat
         /\ \A r \in rows[s] : r.at \in Int /\ r.at < Time(s)
<1> DEFINE T == {r.at + 1 : r \in rows[s]}
           f == [r \in rows[s] |-> r.at + 1]
<1>1. /\ rows[s] \subseteq Stored /\ IsFiniteSet(rows[s]) /\ next \in Nat
  BY ConversationAssumption DEF Safe, StoreOK, GoodRows
<1>2. \A r \in rows[s] : r.at \in Int
  BY <1>1, StoredType
<1>3. f \in Surjection(rows[s], T)
  BY DEF Surjection
<1>4. IsFiniteSet(T)
  BY <1>1, <1>3, FS_Surjection
<1>5. T \subseteq Int
  BY <1>2
<1>6. IsFiniteSet(T \cup {2 * next})
  BY <1>4, FS_AddElement
<1>7. PICK U : U = {2 * next} \cup T
  OBVIOUS
<1>8. \A r \in rows[s] : r.at + 1 \in U
  BY <1>7
<1>9. U = T \cup {2 * next}
  BY <1>7
<1>10. Time(s) = Max(U)
  BY <1>7 DEF Time
<1> HIDE DEF T, f
<1>11. U \subseteq Int /\ IsFiniteSet(U) /\ U # {}
  BY <1>1, <1>5, <1>6, <1>9
<1>12. Max(U) \in Int /\ \A x \in U : x <= Max(U)
  BY <1>11, MaxFacts
<1>13. \A r \in rows[s] : r.at < Time(s)
  <2> SUFFICES ASSUME NEW r \in rows[s] PROVE r.at < Time(s)
    OBVIOUS
  <2>1. r.at + 1 <= Max(U) /\ r.at \in Int
    BY <1>2, <1>8, <1>12
  <2> QED BY <2>1, <1>10, <1>12
<1> QED BY <1>1, <1>2, <1>10, <1>12, <1>13

\* A message of a turn, or of the system, is one of the store.
LEMMA TurnRow ==
  ASSUME Safe, NEW s \in Sessions, NEW role \in Roles,
         NEW call \in Nat \cup {None}
  PROVE  /\ Row(next, role, {}, call, Time(s)) \in Stored
         /\ Row(next, role, {}, call, Time(s)).id = next
         /\ Row(next, role, {}, call, Time(s)).calls = {}
<1>1. IsFiniteSet({}) /\ Time(s) \in Int /\ next \in Nat
  BY FS_EmptySet, TimeFacts
<1> QED BY <1>1 DEF Row, Stored, RowSet

\* The ids that an append adds are ids.
LEMMA AppendIds ==
  ASSUME IdTypes, next \in Nat, NEW s, NEW r, r.id = next, AppendMessage(s, r),
         UNCHANGED <<summed, dropped, cleared, beyond>>
  PROVE  IdTypes'
BY DEF IdTypes, AppendMessage

\* What is recorded of the ids is as it was.
LEMMA SameIds ==
  ASSUME IdTypes, UNCHANGED <<acked, summed, dropped, cleared, raced, beyond>>
  PROVE  IdTypes'
BY DEF IdTypes

\* The steps of a turn that write no message.
LEMMA QuietTurn ==
  ASSUME IInv,
         \/ \E s \in Sessions : StartTurn(s)
         \/ Ask \/ ReplyNothing \/ EndTurn \/ FailTurn
  PROVE  IInv'
<1>1. UNCHANGED <<rows, next, acked, raced, made, op, summed, dropped, cleared,
                  beyond, spent>>
  BY DEF StartTurn, Ask, ReplyNothing, EndTurn, FailTurn, TurnVars, fateVars, lossVars
<1>2. Safe'
  BY <1>1, OtherKeeps DEF IInv
<1>3. IdTypes' /\ spent' \in Nat
  BY <1>1, SameIds DEF IInv
<1>4. TurnOK /\ made \subseteq Sessions
  BY DEF IInv, Safe, MadeOK
<1>5. TurnOK'
  <2>1. ASSUME NEW s \in Sessions, StartTurn(s) PROVE TurnOK'
    <3>1. /\ SaveTurn(s, NextTurnSeq(s), "streaming")
          /\ run' = [NoRun EXCEPT !.at = "started", !.session = s,
                                  !.seq = NextTurnSeq(s)]
      BY <2>1 DEF StartTurn
    <3>2. NextTurnSeq(s) \in Nat
      <4>1. turns[s] \in Seq({"streaming", "over"})
        BY <1>4 DEF TurnOK
      <4>2. Len(turns[s]) \in Nat
        BY <4>1, LenProperties
      <4> QED BY <4>2 DEF NextTurnSeq
    <3>3. turns' \in [Sessions -> Seq({"streaming", "over"})]
      BY <1>4, <3>1, <3>2, SaveTurnType
    <3> QED BY <3>1, <3>2, <3>3 DEF TurnOK, NoRun, RunAt
  <2>2. ASSUME Ask PROVE TurnOK'
    BY <1>4, <2>2 DEF Ask, TurnOK, RunAt, RunGoes
  <2>3. ASSUME ReplyNothing PROVE TurnOK'
    BY <1>4, <2>3 DEF ReplyNothing, TurnOK, RunAt, RunGoes
  <2>4. ASSUME run' = NoRun,
               turns' \in [Sessions -> Seq({"streaming", "over"})]
        PROVE  TurnOK'
    BY <2>4 DEF TurnOK, NoRun, RunAt
  <2>5. ASSUME EndTurn PROVE TurnOK'
    BY <1>4, <2>4, <2>5, SavedType DEF EndTurn
  <2>6. ASSUME FailTurn PROVE TurnOK'
    <3>1. Saved \/ UNCHANGED turns
      BY <2>6 DEF FailTurn
    <3>2. turns' \in [Sessions -> Seq({"streaming", "over"})]
      BY <1>4, <3>1, SavedType DEF TurnOK
    <3> QED BY <2>4, <2>6, <3>2 DEF FailTurn
  <2> QED BY <2>1, <2>2, <2>3, <2>5, <2>6
<1> QED BY <1>2, <1>3, <1>5 DEF IInv

\* A message that is appended by the turn.
LEMMA TurnAppend ==
  ASSUME IInv, run.session \in made, NEW r \in Stored, r.id = next,
         \A c \in r.calls : c \in (10 * next)..(10 * next + 9),
         AppendMessage(run.session, r),
         UNCHANGED <<turns, made, op, lossVars, spent>>, TurnOK'
  PROVE  IInv'
<1>1. UNCHANGED <<op, made, summed, dropped, cleared, beyond, spent>>
  BY DEF lossVars
<1>2. Safe /\ IdTypes /\ next \in Nat /\ spent \in Nat
  BY ConversationAssumption DEF IInv, Safe, StoreOK
<1>3. PICK s \in made : s = run.session
  OBVIOUS
<1>4. Safe'
  BY <1>1, <1>2, <1>3, AppendKeeps
<1>5. IdTypes'
  BY <1>1, <1>2, AppendIds
<1> QED BY <1>1, <1>2, <1>4, <1>5 DEF IInv

\* The steps of a turn that append a message keep the invariant.
LEMMA LoudTurn ==
  ASSUME IInv, AppendUser \/ ReplyCalls \/ AppendResult \/ ReplyText
  PROVE  IInv'
<1>1. /\ TurnOK /\ Safe /\ next \in Nat
      /\ run.session \in made => run.session \in Sessions
  BY ConversationAssumption DEF IInv, Safe, StoreOK, MadeOK
<1> DEFINE now == Time(run.session)
<1>2. ASSUME AppendUser PROVE IInv'
  <2>0. run.session \in Sessions
    BY <1>1, <1>2 DEF AppendUser
  <2>1. PICK r : r = Row(next, "user", {}, None, now)
    OBVIOUS
  <2>2. r \in Stored /\ r.id = next /\ r.calls = {}
    BY <1>1, <2>0, <2>1, TurnRow DEF Roles
  <2>3. /\ run.session \in made /\ AppendMessage(run.session, r)
        /\ UNCHANGED <<turns, made, op, lossVars, spent>>
    BY <1>2, <2>1 DEF AppendUser, Stores, TurnVars, fateVars
  <2>4. TurnOK'
    BY <1>1, <1>2 DEF AppendUser, TurnOK, RunAt, RunGoes
  <2>5. \A c \in r.calls : c \in (10 * next)..(10 * next + 9)
    BY <2>2
  <2> QED BY <2>2, <2>3, <2>4, <2>5, TurnAppend
<1>3. ASSUME ReplyText PROVE IInv'
  <2>0. run.session \in Sessions
    BY <1>1, <1>3 DEF ReplyText
  <2>1. PICK r : r = Row(next, "assistant", {}, None, now)
    OBVIOUS
  <2>2. r \in Stored /\ r.id = next /\ r.calls = {}
    BY <1>1, <2>0, <2>1, TurnRow DEF Roles
  <2>3. /\ run.session \in made /\ AppendMessage(run.session, r)
        /\ UNCHANGED <<turns, made, op, lossVars, spent>>
    BY <1>3, <2>1 DEF ReplyText, Stores, TurnVars, fateVars
  <2>4. TurnOK'
    BY <1>1, <1>3 DEF ReplyText, TurnOK, RunAt, RunGoes
  <2>5. \A c \in r.calls : c \in (10 * next)..(10 * next + 9)
    BY <2>2
  <2> QED BY <2>2, <2>3, <2>4, <2>5, TurnAppend
<1>4. ASSUME AppendResult PROVE IInv'
  <2>0. run.session \in Sessions
    BY <1>1, <1>4 DEF AppendResult
  <2>1. run.todo \subseteq Nat /\ run.todo # {}
    BY <1>1, <1>4 DEF AppendResult, TurnOK
  <2>2. PICK c \in run.todo : c = Min(run.todo)
    BY <2>1, FirstCall
  <2>3. PICK r : r = Row(next, "tool", {}, c, now)
    OBVIOUS
  <2>4. r \in Stored /\ r.id = next /\ r.calls = {}
    <3>1. c \in Nat \cup {None}
      BY <2>1
    <3> QED BY <1>1, <2>0, <2>3, <3>1, TurnRow DEF Roles
  <2>5. /\ run.session \in made /\ AppendMessage(run.session, r)
        /\ UNCHANGED <<turns, made, op, lossVars, spent>>
        /\ run' = [run EXCEPT !.todo = @ \ {c},
                              !.at = IF @ = "results" /\ run.todo = {c}
                                       THEN "again" ELSE @]
    BY <1>4, <2>2, <2>3 DEF AppendResult, Stores, TurnVars, fateVars
  <2>6. TurnOK'
    <3>1. run \in [at : {"none", "started", "first", "again", "asked",
                         "results", "ending"},
                   session : Sessions \cup {None}, seq : Nat,
                   todo : SUBSET Nat]
          /\ run.at = "results"
      BY <1>1, <1>4 DEF TurnOK, AppendResult, RunAt
    <3>2. CASE run.todo = {c}
      BY <1>1, <2>5, <3>1, <3>2 DEF TurnOK, RunAt
    <3>3. CASE run.todo # {c}
      <4>1. run.todo \ {c} # {}
        BY <2>1, <3>3
      <4> QED BY ZenonT(40), <1>1, <2>5, <3>1, <3>3, <4>1 DEF TurnOK, RunAt
    <3> QED BY <3>2, <3>3
  <2>7. \A d \in r.calls : d \in (10 * next)..(10 * next + 9)
    BY <2>4
  <2> QED BY <2>4, <2>5, <2>6, <2>7, TurnAppend
<1>5. ASSUME ReplyCalls PROVE IInv'
  <2>0. run.session \in Sessions
    BY <1>1, <1>5 DEF ReplyCalls
  <2>1. PICK K \in (SUBSET CallNos) \ {{}} :
          /\ AppendMessage(run.session,
               Row(next, "assistant", {10 * next + k : k \in K}, None, now))
          /\ run' = [run EXCEPT !.at = "results",
                                !.todo = {10 * next + k : k \in K}]
    BY Zenon, <1>5 DEF ReplyCalls, Stores
  <2>2. PICK C : C = {10 * next + k : k \in K}
    OBVIOUS
  <2>3. PICK r : r = Row(next, "assistant", C, None, now)
    OBVIOUS
  <2>4. K \subseteq 1..9 /\ K # {}
    BY <2>1, ConversationAssumption
  <2>5. C \in SUBSET ((10 * next)..(10 * next + 9)) /\ C # {}
    BY <1>1, <2>2, <2>4
  <2>6. C \subseteq Nat /\ IsFiniteSet(C)
    <3>1. PICK N : N = (10 * next)..(10 * next + 9)
      OBVIOUS
    <3>2. IsFiniteSet(N) /\ C \in SUBSET N
      BY SMTT(30), <1>1, <2>5, <3>1, FS_Interval
    <3>3. IsFiniteSet(C)
      BY <3>2, FS_Subset
    <3> QED BY <1>1, <2>5, <3>3
  <2>7. r \in Stored /\ r.id = next /\ r.calls = C
    <3>1. now \in Int
      BY <1>1, <2>0, TimeFacts
    <3> QED BY <1>1, <2>3, <2>6, <3>1 DEF Row, Stored, RowSet, Roles
  <2>8. /\ run.session \in made /\ AppendMessage(run.session, r)
        /\ UNCHANGED <<turns, made, op, lossVars, spent>>
        /\ run' = [run EXCEPT !.at = "results", !.todo = C]
    BY <1>5, <2>1, <2>2, <2>3 DEF ReplyCalls, Stores
  <2>9. TurnOK'
    BY <1>1, <2>5, <2>6, <2>8 DEF TurnOK, RunAt
  <2>10. \A c \in r.calls : c \in (10 * next)..(10 * next + 9)
    BY <2>5, <2>7
  <2> QED BY <2>7, <2>8, <2>9, <2>10, TurnAppend
<1> QED BY <1>2, <1>3, <1>4, <1>5

\* A step that leaves the turns alone.
LEMMA SameTurn ==
  ASSUME TurnOK, UNCHANGED <<turns, run>>
  PROVE  TurnOK'
BY DEF TurnOK, RunAt

\* The ids of what a session holds are ids.
LEMMA SessionIds ==
  ASSUME Safe, NEW s \in Sessions
  PROVE  Ids(rows[s]) \subseteq Int
<1>1. rows[s] \subseteq Stored
  BY DEF Safe, StoreOK, GoodRows
<1> QED BY <1>1, IdsType

\* An operation that begins, or that writes nothing, or that ends.
LEMMA OpSteps ==
  ASSUME IInv, NEW s \in Sessions,
         \/ Start(s) \/ OpenSession(s) \/ CompactRead(s) \/ ForkRead(s)
         \/ ForkCreate(s) \/ ImportCreate(s)
  PROVE  IInv'
<1>1. /\ UNCHANGED <<turns, run, acked, raced, summed, dropped, cleared>>
      /\ beyond' \subseteq beyond \cup Ids(rows[s])
  <2>1. CASE Start(s)
    BY <2>1 DEF Start, OpKeeps, fateVars, lossVars
  <2>2. CASE OpenSession(s)
    BY <2>2 DEF OpenSession, OpKeeps, storeVars, NotRead
  <2>3. CASE CompactRead(s)
    BY <2>3 DEF CompactRead, OpKeeps, storeVars, NotRead
  <2>4. CASE ForkRead(s)
    BY <2>4 DEF ForkRead, OpKeeps, storeVars, fateVars, lossVars
  <2>5. CASE ForkCreate(s)
    BY <2>5 DEF ForkCreate, OpKeeps, fateVars, lossVars
  <2>6. CASE ImportCreate(s)
    BY <2>6 DEF ImportCreate, OpKeeps, fateVars, lossVars
  <2> QED BY <2>1, <2>2, <2>3, <2>4, <2>5, <2>6
<1>2. spent' = spent \/ spent' = spent + 1
  BY DEF Start, OpenSession, CompactRead, ForkRead, ForkCreate, ImportCreate,
         Begin
<1>3. Safe'
  BY StartKeeps, OpenSessionKeeps, CompactReadKeeps, ForkReadKeeps,
     ForkCreateKeeps, ImportCreateKeeps DEF IInv
<1>4. TurnOK'
  BY <1>1, SameTurn DEF IInv
<1>5. IdTypes'
  <2>1. Ids(rows[s]) \subseteq Int
    BY SessionIds DEF IInv
  <2> QED BY <1>1, <2>1 DEF IInv, IdTypes
<1>6. spent' \in Nat
  BY <1>2 DEF IInv
<1> QED BY <1>3, <1>4, <1>5, <1>6 DEF IInv

\* What a compaction takes out has ids.
LEMMA MiddleIds ==
  ASSUME IInv, op.kind = "compact",
         NEW included \in WithinBudget(Middle(op.list))
  PROVE  /\ Ids(Range(included)) \subseteq Int
         /\ Ids(Range(Middle(op.list))) \subseteq Int
<1>1. op.list \in Seq(Stored) /\ \E c, d, m \in Nat : CutAt(op.list, c, d, m)
  BY InHand DEF IInv
<1>2. PICK p : p = Middle(op.list)
  OBVIOUS
<1>3. p \in Seq(Stored)
  BY <1>1, <1>2 DEF CutAt, Slice
<1>4. PICK i \in DOMAIN p : included = SubSeq(p, i, Len(p))
  BY <1>2 DEF WithinBudget
<1>5. DOMAIN p = 1..Len(p) /\ Len(p) \in Nat
  BY <1>3, LenProperties
<1>6. included \in Seq(Stored)
  <2>1. i \in Int /\ Len(p) \in Int
    BY <1>4, <1>5
  <2>2. \A j \in i..Len(p) : p[j] \in Stored
    <3>1. \A j \in i..Len(p) : j \in 1..Len(p)
      BY <1>4, <1>5
    <3> QED BY <3>1, <1>3, ElementOfSeq
  <2> QED BY <1>4, <2>1, <2>2, SubSeqProperties
<1>7. Range(included) \subseteq Stored /\ Range(p) \subseteq Stored
  BY <1>3, <1>6, RangeFacts
<1> QED BY <1>2, <1>7, IdsType

\* The steps that write what an operation has read keep the invariant.
LEMMA OpWrites ==
  ASSUME IInv, StoreRecovered \/ CompactWrite \/ ForkWrite \/ ImportAppend
  PROVE  IInv'
<1>1. UNCHANGED <<turns, run, acked, raced, cleared, beyond, spent>>
  BY DEF StoreRecovered, CompactWrite, ForkWrite, ImportAppend, OpKeeps,
         fateVars, lossVars
<1>2. Safe'
  BY StoreRecoveredKeeps, CompactWriteKeeps, ForkWriteKeeps, ImportAppendKeeps
     DEF IInv
<1>3. TurnOK'
  BY <1>1, SameTurn DEF IInv
<1>4. IdTypes'
  <2>1. CASE CompactWrite
    <3>1. PICK included \in WithinBudget(Middle(op.list)) :
            /\ summed' = summed \cup Ids(Range(included))
            /\ dropped' = dropped \cup
                 (Ids(Range(Middle(op.list))) \ Ids(Range(included)))
      BY <2>1 DEF CompactWrite
    <3>2. /\ Ids(Range(included)) \subseteq Int
          /\ Ids(Range(Middle(op.list))) \subseteq Int
      BY <2>1, MiddleIds DEF CompactWrite, Doing
    <3>3. \A ids \in {acked, summed, dropped, cleared, raced, beyond} :
            ids \subseteq Int
      BY DEF IInv, IdTypes
    <3>4. summed' \subseteq Int /\ dropped' \subseteq Int
      BY <3>1, <3>2, <3>3
    <3> QED BY <1>1, <3>3, <3>4 DEF IdTypes
  <2>2. CASE ~CompactWrite
    <3>1. UNCHANGED <<summed, dropped>>
      BY <2>2 DEF StoreRecovered, ForkWrite, ImportAppend, fateVars, lossVars
    <3> QED BY <1>1, <3>1, SameIds DEF IInv
  <2> QED BY <2>1, <2>2
<1> QED BY <1>1, <1>2, <1>3, <1>4 DEF IInv

\* So do the steps that only end an operation.
LEMMA OpEnds ==
  ASSUME IInv, ImportDone \/ ImportCancelled \/ OpFails \/ Crash
  PROVE  IInv'
<1>1. /\ op' = NoOp
      /\ UNCHANGED <<rows, made, next, acked, summed, dropped, cleared, raced,
                     beyond>>
  BY DEF ImportDone, ImportCancelled, OpFails, Crash, Finish, OpKeeps,
         storeVars, fateVars, lossVars
<1>2. Safe'
  BY <1>1, FinishKeeps DEF IInv
<1>3. IdTypes'
  BY <1>1, SameIds DEF IInv
<1>4. spent' = spent \/ spent' = spent + 1
  BY DEF ImportDone, ImportCancelled, OpFails, Crash
<1>5. TurnOK'
  <2>1. CASE Crash
    <3>1. turns \in [Sessions -> Seq({"streaming", "over"})]
      BY DEF IInv, TurnOK
    <3>2. ASSUME NEW t \in Sessions
          PROVE  AfterCrash(t) \in Seq({"streaming", "over"})
      <4>1. PICK q : q = turns[t]
        OBVIOUS
      <4>2. DOMAIN q = 1..Len(q) /\ Len(q) \in Nat
        BY <3>1, <4>1, LenProperties
      <4>3. \A i \in 1..Len(q) : q[i] \in {"streaming", "over"}
        BY <3>1, <4>1, ElementOfSeq
      <4>4. AfterCrash(t) \in [1..Len(q) -> {"streaming", "over"}]
        BY <4>1, <4>2, <4>3 DEF AfterCrash
      <4> QED BY <4>2, <4>4
    <3>3. turns' \in [Sessions -> Seq({"streaming", "over"})]
      BY <2>1, <3>2 DEF Crash
    <3> QED BY <2>1, <3>3 DEF Crash, TurnOK, NoRun, RunAt
  <2>2. CASE ~Crash
    <3>1. UNCHANGED <<turns, run>>
      BY <2>2 DEF ImportDone, ImportCancelled, OpFails, OpKeeps, storeVars
    <3> QED BY <3>1, SameTurn DEF IInv
  <2> QED BY <2>1, <2>2
<1>6. spent' \in Nat
  BY <1>4 DEF IInv
<1> QED BY <1>2, <1>3, <1>5, <1>6 DEF IInv

\* So do those that delete.
LEMMA Deletions ==
  ASSUME IInv, ImportFails \/ \E s \in Sessions : ClearMessages(s)
  PROVE  IInv'
<1>1. ASSUME ImportFails PROVE IInv'
  <2>1. /\ op.kind = "import"
        /\ turns' = [turns EXCEPT ![op.session] = <<>>]
        /\ cleared' = cleared \cup Ids(rows[op.session])
        /\ UNCHANGED <<run, acked, raced, summed, dropped, beyond, spent>>
    BY <1>1 DEF ImportFails, DeleteSession
  <2>2. op.session \in Sessions
    BY <2>1 DEF IInv, Safe, OpOK
  <2>3. Safe'
    BY <1>1, ImportFailsKeeps DEF IInv
  <2>4. TurnOK'
    <3>1. <<>> \in Seq({"streaming", "over"})
      BY EmptySeq
    <3> QED BY <2>1, <3>1 DEF IInv, TurnOK, RunAt
  <2>5. IdTypes'
    <3>1. Ids(rows[op.session]) \subseteq Int
      BY <2>2, SessionIds DEF IInv
    <3> QED BY <2>1, <3>1 DEF IInv, IdTypes
  <2> QED BY <2>1, <2>3, <2>4, <2>5 DEF IInv
<1>2. ASSUME NEW s \in Sessions, ClearMessages(s) PROVE IInv'
  <2>1. /\ spent' = spent + 1 /\ cleared' = cleared \cup Ids(rows[s])
        /\ UNCHANGED <<turns, run, acked, raced, summed, dropped, beyond>>
    BY <1>2 DEF ClearMessages, OpKeeps
  <2>2. Safe'
    BY <1>2, ClearMessagesKeeps DEF IInv
  <2>3. TurnOK'
    BY <2>1, SameTurn DEF IInv
  <2>4. IdTypes'
    <3>1. Ids(rows[s]) \subseteq Int
      BY SessionIds DEF IInv
    <3> QED BY <2>1, <3>1 DEF IInv, IdTypes
  <2>5. spent' \in Nat
    BY <2>1 DEF IInv
  <2> QED BY <2>2, <2>3, <2>4, <2>5 DEF IInv
<1> QED BY <1>1, <1>2

\* So does a system message, which waits for no turn.
LEMMA SystemMessages ==
  ASSUME IInv, NEW s \in Sessions, AppendSystem(s)
  PROVE  IInv'
<1>1. PICK r : r = Row(next, "system", {}, None, Time(s))
  OBVIOUS
<1>2. /\ s \in made /\ spent' = spent + 1 /\ AppendMessage(s, r)
      /\ UNCHANGED <<turns, run, made, op, summed, dropped, cleared, beyond>>
  BY <1>1 DEF AppendSystem, Known, lossVars
<1>3. Safe /\ TurnOK /\ IdTypes /\ next \in Nat /\ spent \in Nat
  BY ConversationAssumption DEF IInv, Safe, StoreOK
<1>4. r \in Stored /\ r.id = next /\ r.calls = {}
  BY <1>1, <1>3, TurnRow DEF Roles
<1>5. \A c \in r.calls : c \in (10 * next)..(10 * next + 9)
  BY <1>4
<1>6. Safe'
  BY <1>2, <1>3, <1>4, <1>5, AppendKeeps
<1>7. IdTypes'
  BY <1>2, <1>3, <1>4, AppendIds
<1> QED BY <1>2, <1>3, <1>6, <1>7, SameTurn DEF IInv

\* Every step keeps the invariant.
LEMMA StepKeeps ==
  ASSUME IInv, [Next]_vars
  PROVE  IInv'
<1>1. CASE Next
  BY <1>1, QuietTurn, LoudTurn, OpSteps, OpWrites, OpEnds, Deletions,
     SystemMessages DEF Next, TurnStep
<1>2. CASE UNCHANGED vars
  <2>1. UNCHANGED <<rows, made, next, op, acked, summed, dropped, cleared,
                    raced, beyond, turns, run, spent>>
    BY <1>2 DEF vars, storeVars, fateVars, lossVars
  <2> QED BY <2>1, OtherKeeps, SameTurn, SameIds DEF IInv
<1> QED BY <1>1, <1>2

\* The invariant holds at the start.
LEMMA StartsWell ==
  ASSUME Init
  PROVE  IInv
<1>1. /\ rows = [s \in Sessions |-> {}] /\ turns = [s \in Sessions |-> <<>>]
      /\ made = {} /\ next = 5 /\ run = NoRun /\ op = NoOp
      /\ acked = {} /\ summed = {} /\ dropped = {} /\ cleared = {}
      /\ raced = {} /\ beyond = {} /\ loose = {} /\ spent = 0
  BY DEF Init
<1>2. StoreOK(rows, next)
  <2>1. \A s \in Sessions : GoodRows(rows[s], next)
    BY <1>1, NothingGood
  <2>2. next \in 5..(MaxId + 1)
    BY <1>1, ConversationAssumption
  <2> QED BY <1>1, <2>1, <2>2 DEF StoreOK
<1>3. MadeOK(rows, made)
  BY <1>1 DEF MadeOK
<1>4. OpOK(op, rows, next, made) /\ ReadOK(op, rows, acked, raced, beyond)
  BY <1>1, NoOpOK
<1>5. NothingLost
  BY <1>1 DEF NothingLost
<1>6. TurnOK
  <2>1. <<>> \in Seq({"streaming", "over"})
    BY EmptySeq
  <2> QED BY <1>1, <2>1 DEF TurnOK, NoRun, RunAt
<1>7. IdTypes /\ spent \in Nat
  BY <1>1 DEF IdTypes
<1> QED BY <1>2, <1>3, <1>4, <1>5, <1>6, <1>7 DEF IInv, Safe

\* The invariant holds always.
LEMMA InvariantHolds == Spec => []IInv
<1>1. Init => IInv
  BY StartsWell
<1>2. IInv /\ [Next]_vars => IInv'
  BY StepKeeps
<1> QED BY <1>1, <1>2, PTL DEF Spec

-----------------------------------------------------------------------------
(* A result and the message with its call.  Of the calls in X nothing is    *)
(* said, and T are the calls that are still to be answered.                 *)

Other(m) == m.role # "tool" /\ m.calls = {}

\* m lies between a and the result q of a call of a.
Parting(a, m, q) ==
  /\ q.role = "tool" /\ q.call \in a.calls
  /\ Before(a, m) /\ Other(m) /\ Before(m, q)

\* Each result has the message with its call, and nothing else in between.
Paired(R, X) ==
  \A q \in R : q.role = "tool" => q.call \in X \/ \E a \in R : q.call \in a.calls
Close(R, X) == \A a, m, q \in R : Parting(a, m, q) => q.call \in X

\* The message with a call that is to be answered is there, and nothing but
\* results follows it.
Held(R, X, T) == \A c \in T : c \in X \/ \E a \in R : c \in a.calls
Ends(R, X, T) ==
  \A a, m \in R : \A c \in T :
    c \in a.calls /\ Other(m) /\ Before(a, m) => c \in X

\* The calls that are separated are exactly those that are not close.
LEMMA CloseIs ==
  ASSUME NEW R, NEW X
  PROVE  Separated(R) \subseteq X <=> Close(R, X)
<1>1. ASSUME Separated(R) \subseteq X, NEW a \in R, NEW m \in R, NEW q \in R,
             Parting(a, m, q)
      PROVE  q.call \in X
  <2>1. q.call \in Separated(R)
    BY <1>1 DEF Separated, Parting, Other
  <2> QED BY <1>1, <2>1
<1>2. ASSUME Close(R, X), NEW c \in Separated(R)
      PROVE  c \in X
  <2>1. PICK q \in R : /\ c = q.call /\ q.role = "tool"
                       /\ \E a, m \in R :
                            /\ q.call \in a.calls /\ Before(a, m)
                            /\ m.role # "tool" /\ m.calls = {}
                            /\ Before(m, q)
    BY <1>2 DEF Separated
  <2>2. PICK a \in R, m \in R : Parting(a, m, q)
    BY <2>1 DEF Parting, Other
  <2> QED BY <1>2, <2>1, <2>2 DEF Close
<1> QED BY <1>1, <1>2 DEF Close

\* Of fewer messages, or with more exceptions, as much holds.
LEMMA FewerPairs ==
  ASSUME NEW R, NEW S, S \subseteq R, NEW X, NEW Y, X \subseteq Y,
         NEW T, NEW U, U \subseteq T
  PROVE  /\ Close(R, X) => Close(S, Y)
         /\ Ends(R, X, T) => Ends(S, Y, U)
         /\ Paired(R, X) => Paired(R, Y)
         /\ Held(S, X, T) => Held(R, Y, U)
BY DEF Close, Ends, Paired, Held

\* A message that is later than all is before none.
LEMMA LastOfAll ==
  ASSUME NEW R, R \subseteq Stored, NEW r \in Stored,
         \A q \in R : q.at < r.at
  PROVE  \A q \in R \cup {r} : ~Before(r, q)
<1>1. r.at \in Int /\ r.id \in Int
  BY StoredType
<1>2. \A q \in R : q.at \in Int /\ q.at < r.at
  BY StoredType
<1> QED BY <1>1, <1>2 DEF Before

\* A message is appended: a result to what it answers.
LEMMA AppendedPairs ==
  ASSUME NEW R, R \subseteq Stored, NEW r \in Stored,
         \A q \in R : q.at < r.at, NEW X, Paired(R, X), Close(R, X),
         r.role = "tool" => Held(R, X, {r.call}) /\ Ends(R, X, {r.call})
  PROVE  Paired(R \cup {r}, X) /\ Close(R \cup {r}, X)
<1>1. \A q \in R \cup {r} : ~Before(r, q)
  BY LastOfAll
<1>2. Paired(R \cup {r}, X)
  BY DEF Paired, Held
<1>3. ASSUME NEW a \in R \cup {r}, NEW m \in R \cup {r}, NEW q \in R \cup {r},
             Parting(a, m, q)
      PROVE  q.call \in X
  <2>1. a \in R /\ m \in R
    BY <1>1, <1>3 DEF Parting
  <2>2. CASE q \in R
    BY <1>3, <2>1, <2>2 DEF Close
  <2>3. CASE q = r
    BY <1>3, <2>1, <2>3 DEF Parting, Ends
  <2> QED BY <2>2, <2>3
<1> QED BY <1>2, <1>3 DEF Close

\* What is to be answered is still the last, but for a message that comes
\* between.
LEMMA AppendedEnds ==
  ASSUME NEW R, R \subseteq Stored, NEW r \in Stored,
         \A q \in R : q.at < r.at, NEW X, NEW T,
         Ends(R, X, T), Held(R, X, T), Other(r) => T \subseteq X
  PROVE  Ends(R \cup {r}, X, T) /\ Held(R \cup {r}, X, T)
<1>1. \A q \in R \cup {r} : ~Before(r, q)
  BY LastOfAll
<1>2. Held(R \cup {r}, X, T)
  BY DEF Held
<1>3. ASSUME NEW a \in R \cup {r}, NEW m \in R \cup {r}, NEW c \in T,
             c \in a.calls, Other(m), Before(a, m)
      PROVE  c \in X
  <2>1. a \in R
    BY <1>1, <1>3
  <2>2. CASE m \in R
    BY <1>3, <2>1, <2>2 DEF Ends
  <2>3. CASE m = r
    BY <1>3, <2>3
  <2> QED BY <2>2, <2>3
<1> QED BY <1>2, <1>3 DEF Ends

\* The message with the calls is appended.
LEMMA CallsAppended ==
  ASSUME NEW R, R \subseteq Stored, NEW r \in Stored,
         \A q \in R : q.at < r.at /\ q.calls \cap r.calls = {}, NEW X
  PROVE  Ends(R \cup {r}, X, r.calls) /\ Held(R \cup {r}, X, r.calls)
<1>1. \A q \in R \cup {r} : ~Before(r, q)
  BY LastOfAll
<1>2. \A q \in R : \A c \in r.calls : c \notin q.calls
  OBVIOUS
<1> QED BY <1>1, <1>2 DEF Held, Ends

\* Recovery adds results to messages that are there.
LEMMA RecoveredPairs ==
  ASSUME next \in Nat, next >= 5, NEW l \in Seq(Stored), NEW sign \in Signs(l),
         NEW X, NEW T
  PROVE  LET L == Range(Recovered(l, sign))
         IN /\ Paired(Range(l), X) => Paired(L, X)
            /\ Ends(Range(l), X, T) => Ends(L, X, T)
            /\ Held(Range(l), X, T) => Held(L, X, T)
<1> DEFINE L == Recovered(l, sign)
           Old(r) == \E m \in 1..Len(l) : r = l[m]
           New(r) == \E m \in 1..Len(l) : \E c \in Missing(l, m) :
                       r = MadeUp(l, m, sign, c)
<1>1. /\ L \in Seq(Stored)
      /\ \A k \in 1..Len(L) : Old(L[k]) \/ New(L[k])
      /\ \A m \in 1..Len(l) : \E k \in 1..Len(L) : L[k] = l[m]
  BY RecoveredFacts
<1>2. \A r \in Range(L) : Old(r) \/ New(r)
  <2> HIDE DEF Old, New, L
  <2> SUFFICES ASSUME NEW r \in Range(L) PROVE Old(r) \/ New(r)
    OBVIOUS
  <2>1. PICK k \in 1..Len(L) : L[k] = r
    BY <1>1, RangeFacts
  <2> QED BY <1>1, <2>1
<1>3. ASSUME NEW r, Old(r) PROVE r \in Range(l)
  BY <1>3, RangeFacts
<1>4. ASSUME NEW r, New(r)
      PROVE  /\ r.role = "tool" /\ r.calls = {}
             /\ \E a \in Range(l) : r.call \in a.calls
  <2>0. PICK m \in 1..Len(l) :
          \E c \in Missing(l, m) : r = MadeUp(l, m, sign, c)
    BY <1>4
  <2>1. PICK c \in Missing(l, m) : r = MadeUp(l, m, sign, c)
    BY <2>0
  <2>2. r.role = "tool" /\ r.calls = {} /\ r.call = c
    BY <2>1 DEF MadeUp, Row
  <2>3. c \in l[m].calls
    BY <2>1 DEF Missing
  <2>4. l[m] \in Range(l)
    BY RangeFacts
  <2> QED BY <2>2, <2>3, <2>4
<1>5. Range(l) \subseteq Range(L)
  <2> HIDE DEF L
  <2> SUFFICES ASSUME NEW x \in Range(l) PROVE x \in Range(L)
    OBVIOUS
  <2>1. PICK m \in 1..Len(l) : l[m] = x
    BY RangeFacts
  <2>2. PICK k \in 1..Len(L) : L[k] = x
    BY <1>1, <2>1
  <2> QED BY <1>1, <2>2, RangeFacts
<1>6. \A r \in Range(L) : r \in Range(l)
        \/ /\ r.role = "tool" /\ r.calls = {}
           /\ \E a \in Range(l) : r.call \in a.calls
  BY <1>2, <1>3, <1>4
<1>7. PICK N : N = Range(L)
  OBVIOUS
<1>8. PICK O : O = Range(l)
  OBVIOUS
<1>9. O \subseteq N /\ \A r \in N : r \in O
        \/ /\ r.role = "tool" /\ r.calls = {}
           /\ \E a \in O : r.call \in a.calls
  BY <1>5, <1>6, <1>7, <1>8
<1>10. /\ Paired(O, X) => Paired(N, X)
       /\ Ends(O, X, T) => Ends(N, X, T)
       /\ Held(O, X, T) => Held(N, X, T)
  <2>1. Paired(O, X) => Paired(N, X)
    BY <1>9 DEF Paired
  <2>2. Held(O, X, T) => Held(N, X, T)
    BY <1>9 DEF Held
  <2>3. ASSUME Ends(O, X, T), NEW a \in N, NEW m \in N, NEW c \in T,
               c \in a.calls, Other(m), Before(a, m)
        PROVE  c \in X
    <3>1. a \in O /\ m \in O
      BY <1>9, <2>3 DEF Other
    <3> QED BY <2>3, <3>1 DEF Ends
  <2> QED BY <2>1, <2>2, <2>3 DEF Ends
<1> QED BY <1>7, <1>8, <1>10

\* Of two messages one at most is before the other.
LEMMA NotBoth ==
  ASSUME NEW a, NEW b, a.at \in Int, b.at \in Int, a.id \in Int, b.id \in Int,
         Before(b, a)
  PROVE  ~Before(a, b)
BY DEF Before

\* In a conversation that is in order, before is further to the front.
LEMMA OrderIs ==
  ASSUME NEW l \in Seq(Stored), InOrder(l),
         NEW i \in 1..Len(l), NEW j \in 1..Len(l)
  PROVE  Before(l[i], l[j]) <=> i < j
<1>1. DOMAIN l = 1..Len(l) /\ Len(l) \in Nat /\ l[i] \in Stored /\ l[j] \in Stored
  BY LenProperties, ElementOfSeq
<1>2. l[i].at \in Int /\ l[j].at \in Int /\ l[i].id \in Int /\ l[j].id \in Int
  BY <1>1, StoredType
<1>3. CASE i < j
  BY <1>1, <1>3 DEF InOrder
<1>4. CASE j < i
  <2>1. Before(l[j], l[i])
    BY <1>1, <1>4 DEF InOrder
  <2>2. ~Before(l[i], l[j])
    BY <1>2, <2>1, NotBoth, Zenon
  <2>3. ~(i < j)
    BY <1>1, <1>4
  <2> QED BY <2>2, <2>3, Zenon
<1>5. CASE i = j
  BY <1>2, <1>5 DEF Before
<1> QED BY <1>1, <1>3, <1>4, <1>5

\* A call or a result that a compaction writes is one it has kept.
LEMMA WasKept ==
  ASSUME NEW l \in Seq(Stored), NEW n, NEW c, NEW d, NEW m,
         CutAt(l, c, d, m), NEW C, Shape(C, l, n, c, d, m),
         NEW i \in 1..Len(C), InGroup(C[i])
  PROVE  /\ i > c + 1
         /\ \E k \in 1..Len(l) : /\ k = d + i - 1 /\ c + d < k
                                 /\ Alike(C[i], l[k])
<1>1. /\ c \in Nat /\ d \in Nat /\ m \in Nat /\ c + d + m = Len(l)
      /\ \A j \in 1..c : l[j].role = "system"
      /\ Len(C) = c + 1 + m /\ \A j \in 1..c : C[j] = l[j]
      /\ C[c + 1].calls = {} /\ C[c + 1].role = "system"
  BY DEF CutAt, Shape
<1>2. i # c + 1
  BY <1>1 DEF InGroup
<1>3. ~(i <= c)
  <2> SUFFICES ASSUME i <= c PROVE FALSE
    OBVIOUS
  <2>1. i \in 1..c /\ i \in 1..Len(l)
    BY <1>1
  <2>2. C[i] = l[i] /\ l[i].role = "system" /\ l[i] \in Stored
    BY <1>1, <2>1, ElementOfSeq
  <2>3. l[i].calls = {}
    BY <2>2, StoredType
  <2> QED BY <2>2, <2>3 DEF InGroup
<1>4. i \in 1..(c + 1 + m)
  BY <1>1
<1>5. PICK k \in 1..Len(l) :
        k = (IF i <= c THEN i ELSE d + i - 1) /\ Alike(C[i], l[k])
  BY <1>2, <1>4, FromList
<1>6. i > c + 1 /\ k = d + i - 1 /\ c + d < k
  BY <1>1, <1>2, <1>3, <1>4, <1>5
<1> QED BY <1>5, <1>6

\* A message of l has its calls in C, or that at e, which is neither a call
\* nor a result, follows it.
KeptOrBehind(C, l, k, e) ==
  \/ \E i \in 1..Len(C) : C[i].calls = l[k].calls
  \/ \E b \in 1..Len(l) : b = e /\ k < b /\ Other(l[b])

\* A message with calls is kept, or the first behind the cut follows it.
LEMMA KeptOrCut ==
  ASSUME NEW l \in Seq(Stored), NEW n, NEW c, NEW d, NEW m,
         CutAt(l, c, d, m), NEW C, Shape(C, l, n, c, d, m),
         NEW k \in 1..Len(l), NEW x \in l[k].calls
  PROVE  KeptOrBehind(C, l, k, c + d + 1)
<1> USE DEF KeptOrBehind
<1>0. /\ c \in Nat /\ d \in Nat /\ m \in Nat /\ c + d + m = Len(l)
      /\ m >= Keep /\ Keep >= 1
      /\ \A j \in 1..c : l[j].role = "system"
      /\ d # 0 => ~InGroup(l[c + d + 1])
  BY DEF CutAt
<1>1. /\ c \in Nat /\ d \in Nat /\ m \in Nat /\ c + d + m = Len(l) /\ m >= 1
      /\ \A j \in 1..c : l[j].role = "system"
      /\ d # 0 => ~InGroup(l[c + d + 1])
      /\ Len(C) = c + 1 + m
      /\ \A j \in 1..m : Alike(C[c + 1 + j], l[c + d + j])
  <2>1. Keep \in Nat
    BY ConversationAssumption
  <2>2. m >= 1
    BY <1>0, <2>1
  <2> QED BY <1>0, <2>2 DEF Shape
<1>2. ~(k <= c)
  <2> SUFFICES ASSUME k <= c PROVE FALSE
    OBVIOUS
  <2>1. l[k].role = "system" /\ l[k] \in Stored
    BY <1>1, ElementOfSeq
  <2> QED BY <2>1, StoredType
<1>3. CASE k <= c + d
  <2>1. PICK b : b = c + d + 1
    OBVIOUS
  <2>2. b \in 1..Len(l) /\ k < b /\ d # 0
    BY <1>1, <1>2, <1>3, <2>1
  <2>3. Other(l[b])
    BY <1>1, <2>1, <2>2 DEF Other, InGroup
  <2> QED BY <2>1, <2>2, <2>3
<1>4. CASE ~(k <= c + d)
  <2>1. PICK j : j = k - (c + d)
    OBVIOUS
  <2>2. j \in 1..m /\ c + d + j = k /\ c + 1 + j \in 1..Len(C)
    BY <1>1, <1>4, <2>1
  <2>3. C[c + 1 + j].calls = l[k].calls
    BY <1>1, <2>2 DEF Alike
  <2> QED BY <2>2, <2>3
<1> QED BY <1>3, <1>4

\* What is moved by the same distance stays in order.
LEMMA PlacesFollow ==
  ASSUME NEW i \in Nat, NEW j \in Nat, NEW d \in Nat, i < j,
         NEW o, NEW k, o = d + i - 1, k = d + j - 1
  PROVE  o < k
OBVIOUS

\* A compaction parts no call from its result, and what is still to be
\* answered can be.
LEMMA CompactedPairs ==
  ASSUME NEW l \in Seq(Stored), InOrder(l), NEW n, NEW c, NEW d, NEW m,
         CutAt(l, c, d, m), NEW C, Shape(C, l, n, c, d, m),
         NEW X, Paired(Range(l), X), Close(Range(l), X)
  PROVE  /\ Paired(Range(C), X) /\ Close(Range(C), X)
         /\ \A T : Ends(Range(l), X, T) /\ Held(Range(l), X, T)
                     => Ends(Range(C), X, T) /\ Held(Range(C), X, T)
<1>1. /\ C \in Seq(Stored) /\ InOrder(C)
      /\ c \in Nat /\ d \in Nat
  BY DEF CutAt, Shape
<1>2. /\ \A x \in Range(C) : \E i \in 1..Len(C) : C[i] = x
      /\ \A i \in 1..Len(C) : C[i] \in Range(C)
      /\ \A x \in Range(l) : \E i \in 1..Len(l) : l[i] = x
      /\ \A i \in 1..Len(l) : l[i] \in Range(l)
  BY <1>1, RangeFacts
<1>3. \A i, j \in 1..Len(l) : i < j => Before(l[i], l[j])
  BY OrderIs
<1>4. \A i, j \in 1..Len(C) : Before(C[i], C[j]) => i < j
  BY <1>1, OrderIs
<1>5. ASSUME NEW i \in 1..Len(C), InGroup(C[i])
      PROVE  /\ i > c + 1
             /\ \E k \in 1..Len(l) : /\ k = d + i - 1 /\ c + d < k
                                     /\ Alike(C[i], l[k])
  BY <1>5, WasKept
<1>6. ASSUME NEW k \in 1..Len(l), NEW x \in l[k].calls
      PROVE  KeptOrBehind(C, l, k, c + d + 1)
  BY <1>6, KeptOrCut
<1>7. ASSUME NEW i \in 1..Len(C), NEW j \in 1..Len(C), i < j, C[i].calls # {},
             Other(C[j])
      PROVE  \E k \in 1..Len(l) : /\ k = d + j - 1 /\ Other(l[k])
                                  /\ \A o \in 1..Len(l) :
                                       o = d + i - 1 => Before(l[o], l[k])
  <2>1. i > c + 1
    BY <1>5, <1>7 DEF InGroup
  <2>2. j \in 1..(c + 1 + m) /\ j # c + 1 /\ ~(j <= c)
    <3>1. Len(C) = c + 1 + m
      BY DEF Shape
    <3>2. i \in Int /\ j \in Int /\ i < j /\ c \in Int
      BY <1>1, <1>7
    <3>3. j # c + 1 /\ ~(j <= c)
      BY <2>1, <3>2
    <3>4. j \in 1..(c + 1 + m)
      BY <3>1, Zenon
    <3> QED BY <3>3, <3>4
  <2>3. PICK k \in 1..Len(l) : k = d + j - 1 /\ Alike(C[j], l[k])
    BY <2>2, FromList
  <2>4. Other(l[k])
    BY <1>7, <2>3 DEF Other, Alike
  <2>5. \A o \in 1..Len(l) : o = d + i - 1 => o < k
    <3>1. i \in Nat /\ j \in Nat /\ d \in Nat /\ i < j
      BY <1>1, <1>7
    <3> QED BY <2>3, <3>1, PlacesFollow, Zenon
  <2> QED BY <1>3, <2>3, <2>4, <2>5
<1>8. Paired(Range(C), X)
  <2> SUFFICES ASSUME NEW q \in Range(C), q.role = "tool"
               PROVE  q.call \in X \/ \E a \in Range(C) : q.call \in a.calls
    BY DEF Paired
  <2>1. PICK i \in 1..Len(C) : C[i] = q
    BY <1>2
  <2>2. PICK k \in 1..Len(l) : k = d + i - 1 /\ c + d < k /\ Alike(C[i], l[k])
    BY <1>5, <2>1 DEF InGroup
  <2>3. l[k].role = "tool" /\ l[k].call = q.call
    BY <2>1, <2>2 DEF Alike
  <2>4. CASE \E a \in Range(l) : q.call \in a.calls
    <3>1. PICK o \in 1..Len(l) : q.call \in l[o].calls
      BY <1>2, <2>4
    <3>2. CASE \E j \in 1..Len(C) : C[j].calls = l[o].calls
      BY <1>2, <3>1, <3>2
    <3>3. CASE \E b \in 1..Len(l) : b = c + d + 1 /\ o < b /\ Other(l[b])
      <4>1. PICK b \in 1..Len(l) : b = c + d + 1 /\ o < b /\ Other(l[b])
        BY <3>3
      <4>2. b # k
        BY <2>3, <4>1 DEF Other
      <4>3. b < k
        BY <1>1, <2>2, <4>1, <4>2
      <4>4. Parting(l[o], l[b], l[k])
        BY <1>3, <2>3, <3>1, <4>1, <4>3 DEF Parting
      <4> QED BY <1>2, <2>3, <4>4 DEF Close
    <3> QED BY <1>6, <3>1, <3>2, <3>3 DEF KeptOrBehind
  <2>5. CASE ~\E a \in Range(l) : q.call \in a.calls
    BY <1>2, <2>3, <2>5 DEF Paired
  <2> QED BY <2>4, <2>5
<1>9. Close(Range(C), X)
  <2> SUFFICES ASSUME NEW a \in Range(C), NEW x \in Range(C), NEW q \in Range(C),
                      Parting(a, x, q)
               PROVE  q.call \in X
    BY DEF Close
  <2>1. PICK i \in 1..Len(C) : C[i] = a
    BY <1>2
  <2>2. PICK j \in 1..Len(C) : C[j] = x
    BY <1>2
  <2>3. PICK e \in 1..Len(C) : C[e] = q
    BY <1>2
  <2>4. /\ i < j /\ j < e /\ C[i].calls # {} /\ Other(C[j])
        /\ C[e].role = "tool" /\ C[e].call \in C[i].calls
    BY <1>4, <2>1, <2>2, <2>3 DEF Parting
  <2>5. PICK o \in 1..Len(l) : o = d + i - 1 /\ Alike(C[i], l[o])
    BY <1>5, <2>4 DEF InGroup
  <2>6. PICK k \in 1..Len(l) : k = d + j - 1 /\ Other(l[k])
                               /\ Before(l[o], l[k])
    BY <1>7, <2>4, <2>5
  <2>7. PICK f \in 1..Len(l) : f = d + e - 1 /\ Alike(C[e], l[f])
    BY <1>5, <2>4 DEF InGroup
  <2>8. k < f
    BY <1>1, <2>4, <2>6, <2>7
  <2>9. Parting(l[o], l[k], l[f])
    BY <1>3, <2>4, <2>5, <2>6, <2>7, <2>8 DEF Parting, Alike
  <2>10. l[f].call \in X
    BY <1>2, <2>9 DEF Close
  <2> QED BY <2>3, <2>7, <2>10 DEF Alike
<1>10. ASSUME NEW T, Ends(Range(l), X, T), Held(Range(l), X, T)
       PROVE  Ends(Range(C), X, T) /\ Held(Range(C), X, T)
  <2>1. ASSUME NEW a \in Range(C), NEW x \in Range(C), NEW t \in T,
               t \in a.calls, Other(x), Before(a, x)
        PROVE  t \in X
    <3>1. PICK i \in 1..Len(C) : C[i] = a
      BY <1>2
    <3>2. PICK j \in 1..Len(C) : C[j] = x
      BY <1>2
    <3>3. i < j /\ C[i].calls # {} /\ Other(C[j])
      BY <1>4, <2>1, <3>1, <3>2
    <3>4. PICK o \in 1..Len(l) : o = d + i - 1 /\ Alike(C[i], l[o])
      BY <1>5, <3>3 DEF InGroup
    <3>5. PICK k \in 1..Len(l) : Other(l[k]) /\ Before(l[o], l[k])
      BY <1>7, <3>3, <3>4
    <3>6. t \in l[o].calls
      BY <2>1, <3>1, <3>4 DEF Alike
    <3> QED BY <1>2, <1>10, <3>5, <3>6 DEF Ends
  <2>2. ASSUME NEW t \in T
        PROVE  t \in X \/ \E a \in Range(C) : t \in a.calls
    <3>1. CASE t \in X
      BY <3>1
    <3>2. CASE t \notin X
      <4>1. PICK o \in 1..Len(l) : t \in l[o].calls
        BY <1>2, <1>10, <3>2 DEF Held
      <4>2. CASE \E j \in 1..Len(C) : C[j].calls = l[o].calls
        BY <1>2, <4>1, <4>2
      <4>3. ASSUME NEW b \in 1..Len(l), o < b, Other(l[b])
            PROVE  t \in X
        <5>1. Before(l[o], l[b])
          BY <1>3, <4>3
        <5> QED BY <1>2, <1>10, <4>1, <4>3, <5>1 DEF Ends
      <4> QED BY <1>6, <4>1, <4>2, <4>3 DEF KeptOrBehind
    <3> QED BY <3>1, <3>2
  <2> QED BY <2>1, <2>2 DEF Ends, Held
<1> QED BY <1>8, <1>9, <1>10

\* A read returns what belongs together, but for what it does not return.
LEMMA ReadPairs ==
  ASSUME NEW s, NEW l, Range(l) \subseteq rows[s], NEW X,
         NEW Y, Y = X \cup Unread(s, l)
  PROVE  /\ Paired(rows[s], X) => Paired(Range(l), Y)
         /\ Close(rows[s], X) => Close(Range(l), Y)
         /\ Ends(rows[s], X, run.todo) => Ends(Range(l), Y, run.todo)
         /\ Held(rows[s], X, run.todo) => Held(Range(l), Y, run.todo)
<1>1. X \subseteq Y
  OBVIOUS
<1>2. ASSUME NEW a \in rows[s], a \notin Range(l), NEW c \in a.calls,
             c \in run.todo \/ \E r \in Range(l) : c = r.call
      PROVE  c \in Y
  BY <1>2 DEF Unread
<1>3. ASSUME Paired(rows[s], X), NEW q \in Range(l), q.role = "tool"
      PROVE  q.call \in Y \/ \E a \in Range(l) : q.call \in a.calls
  <2>1. CASE q.call \in X
    BY <1>1, <2>1
  <2>2. CASE q.call \notin X
    <3>1. PICK a \in rows[s] : q.call \in a.calls
      BY <1>3, <2>2 DEF Paired
    <3> QED BY <1>2, <3>1
  <2> QED BY <2>1, <2>2
<1>4. ASSUME Held(rows[s], X, run.todo), NEW c \in run.todo
      PROVE  c \in Y \/ \E a \in Range(l) : c \in a.calls
  <2>1. CASE c \in X
    BY <1>1, <2>1
  <2>2. CASE c \notin X
    <3>1. PICK a \in rows[s] : c \in a.calls
      BY <1>4, <2>2 DEF Held
    <3> QED BY <1>2, <3>1
  <2> QED BY <2>1, <2>2
<1>5. Paired(rows[s], X) => Paired(Range(l), Y)
  BY <1>3 DEF Paired
<1>6. Held(rows[s], X, run.todo) => Held(Range(l), Y, run.todo)
  BY <1>4 DEF Held
<1>7. /\ Close(rows[s], X) => Close(Range(l), Y)
      /\ Ends(rows[s], X, run.todo) => Ends(Range(l), Y, run.todo)
  BY <1>1, FewerPairs
<1> QED BY <1>5, <1>6, <1>7

\* A fork copies a result together with the message that has its call.
LEMMA CopiedPairs ==
  ASSUME NEW n, NEW l \in Seq(Stored), NEW sign \in {1, -1}, NEW X,
         Paired(Range(l), X)
  PROVE  Paired(Range(Copied(l, sign, n)), X)
<1> DEFINE L == Copied(l, sign, n)
<1>1. DOMAIN l = 1..Len(l) /\ \A i \in 1..Len(l) : l[i] \in Stored
  BY LenProperties, ElementOfSeq
<1>2. /\ DOMAIN L = DOMAIN l
      /\ \A i \in DOMAIN l : L[i] = [l[i] EXCEPT !.id = sign * (n + i - 1)]
  BY DEF Copied
<1>3. \A i \in DOMAIN l : Alike(L[i], l[i])
  BY <1>1, <1>2 DEF Alike, Stored, RowSet
<1> HIDE DEF L
<1>4. \A q \in Range(L) : \E i \in DOMAIN l : q = L[i]
  BY <1>2 DEF Range
<1>5. \A a \in Range(l) : \E i \in DOMAIN l : a = l[i]
  BY DEF Range
<1>6. \A i \in DOMAIN l : L[i] \in Range(L) /\ l[i] \in Range(l)
  BY <1>2 DEF Range
<1>7. ASSUME NEW q \in Range(L), q.role = "tool"
      PROVE  q.call \in X \/ \E a \in Range(L) : q.call \in a.calls
  <2>1. PICK i \in DOMAIN l : q = L[i]
    BY <1>4
  <2>2. l[i].role = "tool" /\ l[i].call = q.call
    BY <1>3, <1>7, <2>1 DEF Alike
  <2>3. CASE \E a \in Range(l) : q.call \in a.calls
    <3>1. PICK j \in DOMAIN l : q.call \in l[j].calls
      BY <1>5, <2>3
    <3>2. q.call \in L[j].calls
      BY <1>3, <3>1 DEF Alike
    <3> QED BY <1>6, <3>2
  <2>4. CASE ~\E a \in Range(l) : q.call \in a.calls
    BY <1>6, <2>2, <2>4 DEF Paired
  <2> QED BY <2>3, <2>4
<1> QED BY <1>7 DEF Paired, L

\* What has been imported so far, and what is still to come.
Importing(R, l) ==
  \E k \in 0..4 : /\ R = {Exported[i] : i \in 1..k} /\ Len(l) = 4 - k
                  /\ \A i \in 1..(4 - k) : l[i] = Exported[k + i]

\* An import puts no other message between a call and its result.
LEMMA ImportedPairs ==
  ASSUME NEW R, NEW l, Importing(R, l), NEW X
  PROVE  Paired(R, X) /\ Close(R, X)
<1> DEFINE call == 21
           e1 == Row(1, "system", {}, None, 0)
           e2 == Row(2, "assistant", {call}, None, 0)
           e3 == Row(3, "tool", {}, call, 0)
           e4 == Row(4, "user", {}, None, 0)
<1>1. Exported = <<e1, e2, e3, e4>>
  BY DEF Exported
<1>2. /\ e1.role = "system" /\ e1.calls = {} /\ e1.id = 1 /\ e1.at = 0
      /\ e2.role = "assistant" /\ e2.calls = {call} /\ e2.id = 2
      /\ e2.at = 0
      /\ e3.role = "tool" /\ e3.calls = {} /\ e3.call = call
      /\ e3.id = 3 /\ e3.at = 0
      /\ e4.role = "user" /\ e4.calls = {} /\ e4.id = 4 /\ e4.at = 0
  BY DEF Row
<1>3. MaxId \in Nat
  BY ConversationAssumption
<1> HIDE DEF e1, e2, e3, e4, call
<1>4. PICK k \in 0..4 : R = {Exported[i] : i \in 1..k}
  BY DEF Importing
<1>5. /\ Exported[1] = e1 /\ Exported[2] = e2 /\ Exported[3] = e3
      /\ Exported[4] = e4
  BY <1>1
<1>6. \A x \in R : x \in {e1, e2, e3, e4}
  <2> SUFFICES ASSUME NEW i \in 1..k PROVE Exported[i] \in {e1, e2, e3, e4}
    BY <1>4
  <2>1. i = 1 \/ i = 2 \/ i = 3 \/ i = 4
    OBVIOUS
  <2> QED BY <1>5, <2>1
<1>7. e3 \in R => e2 \in R
  <2>1. ASSUME NEW i \in 1..k, Exported[i] = e3 PROVE i >= 3
    <3>1. i # 1 /\ i # 2
      BY <1>2, <1>5, <2>1
    <3> QED BY <3>1
  <2>2. ASSUME k >= 3 PROVE e2 \in R
    <3>1. 2 \in 1..k
      BY <2>2
    <3> QED BY <1>4, <1>5, <3>1
  <2>3. ASSUME e3 \in R PROVE k >= 3
    <3>1. PICK i \in 1..k : Exported[i] = e3
      BY <1>4, <2>3
    <3> QED BY <2>1, <3>1
  <2> QED BY <2>2, <2>3
<1>8. Paired(R, X)
  <2> SUFFICES ASSUME NEW q \in R, q.role = "tool"
               PROVE  \E a \in R : q.call \in a.calls
    BY DEF Paired
  <2>1. q = e3
    BY <1>2, <1>6
  <2> QED BY <1>2, <1>7, <2>1
<1>9. Close(R, X)
  <2> SUFFICES ASSUME NEW a \in R, NEW m \in R, NEW q \in R, Parting(a, m, q)
               PROVE  FALSE
    BY DEF Close
  <2>1. q = e3
    BY <1>2, <1>6 DEF Parting
  <2>2. a = e2
    BY <1>2, <1>6 DEF Parting
  <2>3. m = e1 \/ m = e4
    BY <1>2, <1>6 DEF Parting, Other
  <2>4. Before(e2, m) /\ Before(m, e3)
    BY <2>1, <2>2 DEF Parting
  <2> QED BY <1>2, <1>3, <2>3, <2>4 DEF Before
<1> QED BY <1>8, <1>9

\* An import begins with nothing.
LEMMA ImportBegins == Importing({}, Exported)
<1>1. Len(Exported) = 4 /\ \A i \in 1..4 : Exported[i] = Exported[0 + i]
  BY DEF Exported
<1>2. 4 - 0 = 4 /\ 0 \in 0..4 /\ {Exported[i] : i \in 1..0} = {}
  OBVIOUS
<1> QED BY <1>1, <1>2 DEF Importing

\* It goes on message by message.
LEMMA ImportGoesOn ==
  ASSUME NEW R, NEW l \in Seq(Stored), l # <<>>, Importing(R, l)
  PROVE  Importing(R \cup {Head(l)}, Tail(l))
<1>1. PICK k \in 0..4 :
        /\ R = {Exported[i] : i \in 1..k} /\ Len(l) = 4 - k
        /\ \A i \in 1..(4 - k) : l[i] = Exported[k + i]
  BY DEF Importing
<1>2. /\ Len(l) \in Nat /\ Len(l) >= 1
  BY EmptySeq, LenProperties
<1>3. /\ Head(l) = l[1] /\ Len(Tail(l)) = Len(l) - 1
      /\ \A i \in 1..Len(Tail(l)) : Tail(l)[i] = l[i + 1]
  BY HeadTailProperties
<1>4. PICK j \in 0..4 : j = k + 1
  BY <1>1, <1>2
<1>5. Len(Tail(l)) = 4 - j
  BY <1>1, <1>3, <1>4
<1>6. Head(l) = Exported[j]
  <2>1. 1 \in 1..(4 - k)
    BY <1>1, <1>2
  <2> QED BY <1>1, <1>3, <1>4, <2>1
<1>7. \A i \in 1..(4 - j) : Tail(l)[i] = Exported[j + i]
  <2> SUFFICES ASSUME NEW i \in 1..(4 - j) PROVE Tail(l)[i] = Exported[j + i]
    OBVIOUS
  <2>1. i + 1 \in 1..(4 - k) /\ k + (i + 1) = j + i
    BY <1>4
  <2>2. l[i + 1] = Exported[j + i]
    BY <1>1, <2>1
  <2> QED BY <1>3, <1>5, <2>2
<1>8. R \cup {Exported[j]} = {Exported[i] : i \in 1..j}
  <2>1. 1..j = (1..k) \cup {j}
    BY <1>4
  <2> QED BY <1>1, <2>1
<1> QED BY <1>4, <1>5, <1>6, <1>7, <1>8 DEF Importing

-----------------------------------------------------------------------------
(* That no result comes without its call is kept by every step. *)

Pending(R, X, T) == Ends(R, X, T) /\ Held(R, X, T)

StorePairs(R, X) == \A s \in Sessions : Paired(R[s], X) /\ Close(R[s], X)

\* The turn still has to answer only what it can.
RunPairs(R, X, u, M) ==
  /\ u.session \in M \cup {None}
  /\ u.at # "results" => u.todo = {}
  /\ u.session = None => u.todo = {}
  /\ u.session # None => Pending(R[u.session], X, u.todo)

\* What an operation has in hand is together, and can take what the turn
\* still has to answer.
OpPairs(R, X, u, o) ==
  /\ o.kind \in {"open", "compact", "fork"} => Paired(Range(o.list), X)
  /\ o.kind = "compact" => Close(Range(o.list), X)
  /\ o.kind \in {"open", "compact"} /\ o.session = u.session
       => Pending(Range(o.list), X, u.todo)
  /\ o.at = "copy" => o.session # u.session
  /\ o.kind = "import" => Importing(R[o.session], o.list)

PairsOK ==
  /\ loose \subseteq Int /\ StorePairs(rows, loose)
  /\ RunPairs(rows, loose, run, made) /\ OpPairs(rows, loose, run, op)

\* What is excepted, or not to be answered, is not pending.
LEMMA NonePending ==
  ASSUME NEW R, NEW X, NEW T, T \subseteq X
  PROVE  Pending(R, X, T)
BY DEF Pending, Ends, Held

\* With more exceptions, and less to answer, as much is pending.
LEMMA StillPending ==
  ASSUME NEW R, NEW X, NEW Y, X \subseteq Y, NEW T, NEW U, U \subseteq T,
         Pending(R, X, T)
  PROVE  Pending(R, Y, U)
BY FewerPairs DEF Pending

\* No operation has nothing in hand.
LEMMA NoOpPairs ==
  ASSUME NEW R, NEW X, NEW u
  PROVE  OpPairs(R, X, u, NoOp)
BY DEF OpPairs, NoOp

\* The operation has in hand what it had.
LEMMA SameOp ==
  ASSUME NEW R, NEW S, NEW X, NEW Y, X \subseteq Y, NEW u, NEW v, NEW o,
         OpPairs(R, X, u, o),
         o.kind = "import" => S[o.session] = R[o.session],
         o.at = "copy" => o.session # v.session,
         o.kind \in {"open", "compact"} /\ o.session = v.session
           => v.todo \subseteq Y \/ (u.session = v.session /\ v.todo \subseteq u.todo)
  PROVE  OpPairs(S, Y, v, o)
<1>1. o.kind \in {"open", "compact", "fork"} => Paired(Range(o.list), Y)
  BY DEF OpPairs, Paired
<1>2. o.kind = "compact" => Close(Range(o.list), Y)
  BY DEF OpPairs, Close
<1>3. ASSUME o.kind \in {"open", "compact"}, o.session = v.session
      PROVE  Pending(Range(o.list), Y, v.todo)
  <2>1. CASE v.todo \subseteq Y
    BY <2>1, NonePending
  <2>2. CASE u.session = v.session /\ v.todo \subseteq u.todo
    <3>1. Pending(Range(o.list), X, u.todo)
      BY <1>3, <2>2 DEF OpPairs
    <3> QED BY <2>2, <3>1, StillPending
  <2> QED BY <1>3, <2>1, <2>2
<1> QED BY <1>1, <1>2, <1>3 DEF OpPairs

\* A step that writes no message.
LEMMA NothingWritten ==
  ASSUME PairsOK, rows' = rows, loose \subseteq loose', loose' \subseteq Int,
         run'.session \in made' \cup {None},
         run'.at # "results" => run'.todo = {},
         \/ run'.todo = {}
         \/ run'.session = run.session /\ run'.todo = run.todo,
         OpPairs(rows, loose', run', op')
  PROVE  PairsOK'
<1>1. StorePairs(rows', loose')
  BY DEF PairsOK, StorePairs, Paired, Close
<1>2. RunPairs(rows', loose', run', made')
  <2>1. CASE run'.todo = {}
    <3>1. run'.todo \subseteq loose'
      BY <2>1
    <3>2. Pending(rows'[run'.session], loose', run'.todo)
      BY <3>1, NonePending
    <3> QED BY <2>1, <3>2 DEF RunPairs
  <2>2. CASE run'.session = run.session /\ run'.todo = run.todo
    <3>1. run.session # None => Pending(rows[run.session], loose, run.todo)
      BY DEF PairsOK, RunPairs
    <3>2. run.session # None => Pending(rows[run.session], loose', run.todo)
      BY <3>1, StillPending
    <3>3. run.session = None => run.todo = {}
      BY DEF PairsOK, RunPairs
    <3> QED BY <2>2, <3>2, <3>3 DEF RunPairs
  <2> QED BY <2>1, <2>2
<1> QED BY <1>1, <1>2 DEF PairsOK

\* A step that writes the messages of one session.
LEMMA OneWritten ==
  ASSUME IInv, PairsOK, NEW s \in Sessions, NEW Z,
         rows' = [rows EXCEPT ![s] = Z],
         loose \subseteq loose', loose' \subseteq Int,
         Paired(Z, loose'), Close(Z, loose'),
         run'.session = run.session, run.session \in made' \cup {None},
         run'.at # "results" => run'.todo = {},
         run.session = s => Pending(Z, loose', run'.todo),
         run.session # s => run'.todo \subseteq run.todo,
         OpPairs(rows', loose', run', op')
  PROVE  PairsOK'
<1>1. /\ rows'[s] = Z /\ \A t \in Sessions : t # s => rows'[t] = rows[t]
      /\ made \subseteq Sessions /\ run.session \in made \cup {None}
  BY DEF IInv, Safe, StoreOK, MadeOK, PairsOK, RunPairs
<1>2. StorePairs(rows', loose')
  <2> SUFFICES ASSUME NEW t \in Sessions
               PROVE  Paired(rows'[t], loose') /\ Close(rows'[t], loose')
    BY DEF StorePairs
  <2>1. CASE t = s
    BY <1>1, <2>1
  <2>2. CASE t # s
    <3>1. Paired(rows[t], loose) /\ Close(rows[t], loose)
      BY DEF PairsOK, StorePairs
    <3>2. Paired(rows[t], loose') /\ Close(rows[t], loose')
      BY <3>1 DEF Paired, Close
    <3> QED BY <1>1, <2>2, <3>2
  <2> QED BY <2>1, <2>2
<1>3. RunPairs(rows', loose', run', made')
  <2>1. run.session = None => run'.todo = {}
    BY DEF PairsOK, RunPairs
  <2>2. CASE run.session = s
    BY <1>1, <2>1, <2>2 DEF RunPairs
  <2>3. CASE run.session = None
    BY <2>1, <2>3 DEF RunPairs
  <2>4. CASE run.session \in Sessions /\ run.session # s
    <3>1. Pending(rows[run.session], loose, run.todo)
      BY <2>4, ConversationAssumption DEF PairsOK, RunPairs
    <3>2. Pending(rows[run.session], loose', run'.todo)
      BY <2>4, <3>1, StillPending
    <3> QED BY <1>1, <2>1, <2>4, <3>2 DEF RunPairs
  <2> QED BY <1>1, <2>2, <2>3, <2>4
<1> QED BY <1>2, <1>3 DEF PairsOK

\* The steps of a turn that write no message.
LEMMA QuietTurnPairs ==
  ASSUME IInv, PairsOK,
         \/ \E s \in Sessions : StartTurn(s)
         \/ Ask \/ ReplyNothing \/ EndTurn \/ FailTurn
  PROVE  PairsOK'
<1>1. UNCHANGED <<rows, made, op, loose>>
  BY DEF StartTurn, Ask, ReplyNothing, EndTurn, FailTurn, TurnVars, fateVars
<1>2. /\ run \in [at : {"none", "started", "first", "again", "asked",
                        "results", "ending"},
                  session : Sessions \cup {None}, seq : Nat,
                  todo : SUBSET Nat]
      /\ run.session \in made \cup {None} /\ made \subseteq Sessions
      /\ run.at # "results" => run.todo = {}
      /\ op.at = "copy" => op.session # run.session /\ op.session # None
      /\ loose \subseteq Int /\ OpPairs(rows, loose, run, op)
  BY ConversationAssumption DEF IInv, TurnOK, Safe, MadeOK, OpOK, PairsOK,
                                RunPairs, OpPairs
<1>3. /\ run'.session \in made \cup {None} /\ run'.todo = {}
      /\ op.at = "copy" => op.session # run'.session
  <2>1. ASSUME NEW s \in Sessions, StartTurn(s)
        PROVE  /\ run'.session = s /\ run'.todo = {} /\ s \in made
               /\ ~(op.at = "copy" /\ op.session = s)
    BY <2>1 DEF StartTurn, NoRun, Known
  <2>2. ASSUME Ask \/ ReplyNothing
        PROVE  run'.session = run.session /\ run'.todo = {}
    BY <1>2, <2>2 DEF Ask, ReplyNothing, RunAt, RunGoes
  <2>3. ASSUME EndTurn \/ FailTurn
        PROVE  run'.session = None /\ run'.todo = {}
    BY <2>3 DEF EndTurn, FailTurn, NoRun
  <2> QED BY <1>2, <2>1, <2>2, <2>3
<1>4. OpPairs(rows, loose, run', op)
  <2>1. run'.todo \subseteq loose
    BY <1>3
  <2> QED BY <1>2, <1>3, <2>1, SameOp
<1> QED BY <1>1, <1>2, <1>3, <1>4, NothingWritten

\* A message is appended, by the turn or by the system.
LEMMA AppendPairs ==
  ASSUME IInv, PairsOK, NEW s \in made, NEW r \in Stored, r.at = Time(s),
         AppendMessage(s, r), op' = op, made' = made,
         loose \subseteq loose', loose' \subseteq Int,
         op.at = "copy" => op.session # s,
         run'.session = run.session, run'.at # "results" => run'.todo = {},
         r.role = "tool" => Pending(rows[s], loose, {r.call}),
         run.session = s => Pending(rows[s] \cup {r}, loose', run'.todo),
         run.session # s => run'.todo \subseteq run.todo,
         op.kind \in {"open", "compact"} /\ op.session = run.session
           => run'.todo \subseteq loose' \/ run'.todo \subseteq run.todo
  PROVE  PairsOK'
<1>1. /\ s \in Sessions /\ Safe /\ rows[s] \subseteq Stored
      /\ op.kind = "import" => op.at = "copy" /\ op.session \in Sessions
      /\ rows \in [Sessions -> SUBSET RowSet]
      /\ run.session \in made \cup {None}
      /\ op.at = "copy" => op.session # run.session
      /\ OpPairs(rows, loose, run, op)
      /\ Paired(rows[s], loose) /\ Close(rows[s], loose)
  BY DEF IInv, Safe, MadeOK, StoreOK, GoodRows, OpOK, PairsOK, RunPairs,
         OpPairs, StorePairs
<1>2. \A q \in rows[s] : q.at < r.at
  BY <1>1, TimeFacts
<1>3. PICK Z : Z = rows[s] \cup {r}
  OBVIOUS
<1>4. rows' = [rows EXCEPT ![s] = Z]
  BY <1>3 DEF AppendMessage
<1>5. Paired(Z, loose) /\ Close(Z, loose)
  <2>1. r.role = "tool" =>
          Held(rows[s], loose, {r.call}) /\ Ends(rows[s], loose, {r.call})
    BY DEF Pending
  <2>2. PICK R : R = rows[s]
    OBVIOUS
  <2>3. PICK X : X = loose
    OBVIOUS
  <2>4. Paired(R \cup {r}, X) /\ Close(R \cup {r}, X)
    BY <1>1, <1>2, <2>1, <2>2, <2>3, AppendedPairs
  <2> QED BY <1>3, <2>2, <2>3, <2>4
<1>6. Paired(Z, loose') /\ Close(Z, loose')
  BY <1>5 DEF Paired, Close
<1>7. OpPairs(rows', loose', run', op')
  <2>1. op.kind = "import" => rows'[op.session] = rows[op.session]
    BY <1>1, <1>4
  <2>2. OpPairs(rows', loose', run', op)
    BY <1>1, <2>1, SameOp
  <2> QED BY <2>2
<1> QED BY <1>1, <1>3, <1>4, <1>6, <1>7, OneWritten

\* Of what the turn has to answer, all is pending in its session.
LEMMA RunPending ==
  ASSUME IInv, PairsOK, run.session \in made
  PROVE  /\ Pending(rows[run.session], loose, run.todo)
         /\ op.at = "copy" => op.session # run.session
         /\ run.session \in Sessions /\ loose \subseteq Int
         /\ rows[run.session] \subseteq Stored
         /\ \A q \in rows[run.session] : q.at < Time(run.session)
                                         /\ RowBelow(q, next)
<1>1. run.session \in Sessions /\ run.session # None /\ Safe
  BY ConversationAssumption DEF IInv, Safe, MadeOK
<1>2. GoodRows(rows[run.session], next)
  BY <1>1 DEF Safe, StoreOK
<1> QED BY <1>1, <1>2, TimeFacts DEF PairsOK, RunPairs, OpPairs, GoodRows

\* The turn stores what was asked, or the text of the answer.
LEMMA TextPairs ==
  ASSUME IInv, PairsOK, AppendUser \/ ReplyText
  PROVE  PairsOK'
<1>1. PICK role \in {"user", "assistant"} : Stores(role, {}, None)
  BY DEF AppendUser, ReplyText
<1>2. /\ run.session \in made /\ UNCHANGED <<op, made, loose>>
      /\ run.at # "results" /\ run'.at # "results"
      /\ run'.session = run.session /\ run'.todo = run.todo
  BY DEF AppendUser, ReplyText, TurnVars, fateVars, RunAt, RunGoes, IInv, TurnOK
<1>3. run.todo = {}
  BY <1>2 DEF PairsOK, RunPairs
<1>4. PICK s \in made : s = run.session
  BY <1>2
<1>5. PICK r : r = Row(next, role, {}, None, Time(s))
  OBVIOUS
<1>6. r \in Stored /\ r.at = Time(s) /\ r.role # "tool"
  <2>1. s \in Sessions /\ Safe /\ role \in Roles
    BY <1>2, <1>4, RunPending DEF IInv, Roles
  <2>2. r \in Stored
    BY <1>5, <2>1, TurnRow
  <2> QED BY <1>5, <2>2 DEF Row
<1>7. AppendMessage(s, r)
  BY <1>1, <1>4, <1>5 DEF Stores
<1>8. /\ op.at = "copy" => op.session # s
      /\ loose \subseteq loose' /\ loose' \subseteq Int
  BY <1>2, <1>4, RunPending
<1>9. run'.todo \subseteq loose' /\ run'.todo \subseteq run.todo
  BY <1>2, <1>3
<1>10. Pending(rows[s] \cup {r}, loose', run'.todo)
  BY <1>9, NonePending
<1> QED BY <1>2, <1>3, <1>6, <1>7, <1>8, <1>9, <1>10, AppendPairs

\* The turn stores the message with the calls.
LEMMA CallsPairs ==
  ASSUME IInv, PairsOK, ReplyCalls
  PROVE  PairsOK'
<1>1. PICK K \in (SUBSET CallNos) \ {{}} :
        LET calls == {10 * next + k : k \in K}
        IN /\ Stores("assistant", calls, None)
           /\ run' = [run EXCEPT !.at = "results", !.todo = calls]
           /\ loose' = IF Replacing(run.session) THEN loose \cup calls
                       ELSE loose
  BY DEF ReplyCalls
<1>2. PICK C : C = {10 * next + k : k \in K}
  OBVIOUS
<1>3. /\ run.session \in made /\ UNCHANGED <<op, made>> /\ run.at = "asked"
      /\ run' = [run EXCEPT !.at = "results", !.todo = C]
      /\ loose' = IF Replacing(run.session) THEN loose \cup C ELSE loose
      /\ Stores("assistant", C, None)
  BY <1>1, <1>2 DEF ReplyCalls, RunAt
<1>4. /\ run'.at = "results" /\ run'.todo = C /\ run'.session = run.session
  BY <1>3 DEF IInv, TurnOK
<1>5. PICK s \in made : s = run.session
  BY <1>3
<1>6. PICK r : r = Row(next, "assistant", C, None, Time(s))
  OBVIOUS
<1>7. /\ s \in Sessions /\ rows[s] \subseteq Stored /\ loose \subseteq Int
      /\ op.at = "copy" => op.session # s
      /\ \A q \in rows[s] : q.at < Time(s) /\ RowBelow(q, next)
  BY <1>3, <1>5, RunPending
<1>8. K \subseteq 1..9 /\ next \in Nat /\ MaxId \in Nat /\ next <= MaxId
  BY <1>1, <1>3, ConversationAssumption
     DEF IInv, Safe, StoreOK, Stores, AppendMessage
<1>9. C \in SUBSET ((10 * next)..(10 * next + 9)) /\ C \subseteq Nat
  BY <1>2, <1>8
<1>10. IsFiniteSet(C)
  <2>1. PICK N : N = (10 * next)..(10 * next + 9)
    OBVIOUS
  <2>2. IsFiniteSet(N) /\ C \in SUBSET N
    BY SMTT(30), <1>8, <1>9, <2>1, FS_Interval
  <2> QED BY <2>2, FS_Subset
<1>11. r \in Stored /\ r.at = Time(s) /\ r.role # "tool" /\ r.calls = C
  <2>1. Time(s) \in Int /\ next \in Nat
    BY <1>7, TimeFacts DEF IInv
  <2> QED BY <1>6, <1>9, <1>10, <2>1 DEF Row, Stored, RowSet, Roles
<1>12. AppendMessage(s, r)
  BY <1>3, <1>5, <1>6 DEF Stores
<1>13. loose \subseteq loose' /\ loose' \subseteq Int
  BY <1>3, <1>7, <1>9
<1>14. \A q \in rows[s] : q.at < r.at /\ q.calls \cap r.calls = {}
  <2> SUFFICES ASSUME NEW q \in rows[s], NEW c \in q.calls, c \in C
               PROVE  FALSE
    BY <1>7, <1>11
  <2>1. c < 10 * next
    BY <1>7 DEF RowBelow
  <2>2. c \in (10 * next)..(10 * next + 9)
    BY <1>9
  <2>3. c <= 10 * next + 9 /\ c >= 10 * next /\ c \in Int
    BY <1>8, <2>2
  <2> QED BY <1>8, <2>1, <2>3
<1>15. Pending(rows[s] \cup {r}, loose', run'.todo)
  <2>1. PICK R : R = rows[s]
    OBVIOUS
  <2>2. PICK X : X = loose'
    OBVIOUS
  <2>3. Ends(R \cup {r}, X, r.calls) /\ Held(R \cup {r}, X, r.calls)
    BY <1>7, <1>11, <1>14, <2>1, CallsAppended
  <2> QED BY <1>4, <1>11, <2>1, <2>2, <2>3 DEF Pending
<1>16. op.kind \in {"open", "compact"} /\ op.session = run.session
         => run'.todo \subseteq loose' \/ run'.todo \subseteq run.todo
  BY <1>3, <1>4 DEF Replacing
<1> QED BY <1>3, <1>4, <1>5, <1>7, <1>11, <1>12, <1>13, <1>15, <1>16, AppendPairs

\* The turn stores a result.
LEMMA ResultPairs ==
  ASSUME IInv, PairsOK, AppendResult
  PROVE  PairsOK'
<1>1. /\ run \in [at : {"none", "started", "first", "again", "asked",
                        "results", "ending"},
                  session : Sessions \cup {None}, seq : Nat,
                  todo : SUBSET Nat]
      /\ run.at = "results" /\ run.todo # {} /\ run.todo \subseteq Nat
      /\ run.session \in made /\ UNCHANGED <<op, made, loose>>
  BY DEF AppendResult, IInv, TurnOK, RunAt, TurnVars, fateVars
<1>2. PICK c \in run.todo : c = Min(run.todo)
  BY <1>1, FirstCall
<1>3. /\ Stores("tool", {}, c)
      /\ run' = [run EXCEPT !.todo = @ \ {c},
                            !.at = IF @ = "results" /\ run.todo = {c}
                                     THEN "again" ELSE @]
  BY <1>2 DEF AppendResult
<1>4. /\ run'.todo = run.todo \ {c} /\ run'.session = run.session
      /\ run'.at # "results" => run.todo = {c}
  BY <1>1, <1>3
<1>5. PICK s \in made : s = run.session
  BY <1>1
<1>6. PICK r : r = Row(next, "tool", {}, c, Time(s))
  OBVIOUS
<1>7. /\ s \in Sessions /\ rows[s] \subseteq Stored /\ loose \subseteq Int
      /\ op.at = "copy" => op.session # s
      /\ \A q \in rows[s] : q.at < Time(s)
      /\ Pending(rows[s], loose, run.todo)
  BY <1>1, <1>5, RunPending
<1>8. r \in Stored /\ r.at = Time(s) /\ r.role = "tool" /\ r.call = c
  <2>1. Safe /\ c \in Nat \cup {None} /\ "tool" \in Roles
    BY <1>1 DEF IInv, Roles
  <2>2. r \in Stored
    BY <1>6, <1>7, <2>1, TurnRow
  <2> QED BY <1>6, <2>2 DEF Row
<1>9. AppendMessage(s, r)
  BY <1>3, <1>5, <1>6 DEF Stores
<1>10. Pending(rows[s], loose, {r.call})
  <2>1. {r.call} \subseteq run.todo /\ loose \subseteq loose
    BY <1>8
  <2> QED BY <1>7, <2>1, StillPending
<1>11. Pending(rows[s] \cup {r}, loose', run'.todo)
  <2>1. run'.todo \subseteq run.todo /\ loose \subseteq loose
    BY <1>4
  <2>2. Pending(rows[s], loose, run'.todo)
    BY <1>7, <2>1, StillPending
  <2>3. ~Other(r)
    BY <1>8 DEF Other
  <2>4. PICK R : R = rows[s]
    OBVIOUS
  <2>5. PICK X : X = loose
    OBVIOUS
  <2>6. PICK T : T = run'.todo
    OBVIOUS
  <2>7. Ends(R \cup {r}, X, T) /\ Held(R \cup {r}, X, T)
    BY <1>7, <1>8, <2>2, <2>3, <2>4, <2>5, <2>6, AppendedEnds DEF Pending
  <2> QED BY <1>1, <2>4, <2>5, <2>6, <2>7 DEF Pending
<1> QED BY <1>1, <1>4, <1>5, <1>7, <1>8, <1>9, <1>10, <1>11, AppendPairs

\* A system message may come between a call and its result.
LEMMA SystemPairs ==
  ASSUME IInv, PairsOK, NEW s \in Sessions, AppendSystem(s)
  PROVE  PairsOK'
<1>1. PICK r : r = Row(next, "system", {}, None, Time(s))
  OBVIOUS
<1>2. /\ s \in made /\ ~(op.at = "copy" /\ op.session = s)
      /\ AppendMessage(s, r) /\ UNCHANGED <<run, made, op>>
      /\ loose' = IF run.session = s THEN loose \cup run.todo ELSE loose
  BY <1>1 DEF AppendSystem, Known, Loosened
<1>3. r \in Stored /\ r.at = Time(s) /\ r.role # "tool"
  <2>1. Safe /\ "system" \in Roles
    BY DEF IInv, Roles
  <2>2. r \in Stored
    BY <1>1, <2>1, TurnRow
  <2> QED BY <1>1, <2>2 DEF Row
<1>4. /\ run.todo \subseteq Int /\ loose \subseteq Int
      /\ run.at # "results" => run.todo = {}
  BY DEF IInv, TurnOK, PairsOK, RunPairs
<1>5. loose \subseteq loose' /\ loose' \subseteq Int
  BY <1>2, <1>4
<1>6. run.session = s => Pending(rows[s] \cup {r}, loose', run'.todo)
  BY <1>2, NonePending
<1> QED BY <1>2, <1>3, <1>4, <1>5, <1>6, AppendPairs

\* What one step of the turn keeps, all keep.
LEMMA TurnPairs ==
  ASSUME IInv, PairsOK, TurnStep
  PROVE  PairsOK'
BY QuietTurnPairs, TextPairs, CallsPairs, ResultPairs DEF TurnStep

\* What the operations need to know of the state.
LEMMA PairsNow ==
  ASSUME IInv, PairsOK
  PROVE  /\ run.session \in made \cup {None} /\ made \subseteq Sessions
         /\ None \notin Sessions
         /\ run.at # "results" => run.todo = {}
         /\ run.todo \subseteq Nat /\ loose \subseteq Int
         /\ OpPairs(rows, loose, run, op) /\ OpOK(op, rows, next, made)
         /\ op.at = "copy" => op.session # run.session /\ op.session \in made
         /\ op.kind # "none" => op.session \in Sessions
         /\ \A s \in Sessions :
              /\ GoodRows(rows[s], next) /\ rows[s] \subseteq Stored
              /\ Paired(rows[s], loose) /\ Close(rows[s], loose)
              /\ run.session = s => Pending(rows[s], loose, run.todo)
              /\ s \notin made => rows[s] = {}
BY ConversationAssumption
   DEF IInv, Safe, MadeOK, StoreOK, GoodRows, OpOK, TurnOK, PairsOK,
       RunPairs, OpPairs, StorePairs

\* An operation begins with what it has read from s, and no other message is
\* excepted than those it has not read.
LEMMA BeginPairs ==
  ASSUME IInv, PairsOK, NEW s \in Sessions, NEW l, l = Get(s, Limit),
         loose' = loose \cup Unread(s, l)
  PROVE  /\ Paired(Range(l), loose') /\ Close(Range(l), loose')
         /\ run.session = s => Pending(Range(l), loose', run.todo)
         /\ loose \subseteq loose' /\ loose' \subseteq Int
         /\ l \in Seq(Stored) /\ InOrder(l)
<1>1. /\ GoodRows(rows[s], next) /\ rows[s] \subseteq Stored
      /\ Paired(rows[s], loose) /\ Close(rows[s], loose)
      /\ run.session = s => Pending(rows[s], loose, run.todo)
      /\ loose \subseteq Int
  BY PairsNow
<1>2. Limit \in Nat
  BY ConversationAssumption
<1>3. GoodList(l, next) /\ InOrder(l) /\ Range(l) \subseteq rows[s]
  BY <1>1, <1>2, GetFacts
<1>4. PICK X : X = loose
  OBVIOUS
<1>5. PICK Y : Y = loose'
  OBVIOUS
<1>6. Y = X \cup Unread(s, l)
  BY <1>4, <1>5
<1>7. /\ Paired(rows[s], X) => Paired(Range(l), Y)
      /\ Close(rows[s], X) => Close(Range(l), Y)
      /\ Ends(rows[s], X, run.todo) => Ends(Range(l), Y, run.todo)
      /\ Held(rows[s], X, run.todo) => Held(Range(l), Y, run.todo)
  BY <1>3, <1>6, ReadPairs
<1>8. Unread(s, l) \subseteq Int
  <2>1. \A r \in rows[s] : r.calls \subseteq Nat
    BY <1>1, StoredType
  <2> QED BY <2>1 DEF Unread
<1> QED BY <1>1, <1>3, <1>4, <1>5, <1>7, <1>8 DEF Pending, GoodList

\* OpenSession keeps results and their calls together.
LEMMA OpenSessionPairs ==
  ASSUME IInv, PairsOK, NEW s \in Sessions, OpenSession(s)
  PROVE  PairsOK'
<1>1. PICK l : l = Get(s, Limit)
  OBVIOUS
<1>2. PICK sign \in Signs(l) :
        op' = [kind |-> "open", at |-> "fill", session |-> s,
               list |-> Recovered(l, sign)]
  BY <1>1 DEF OpenSession, Begin, Signs
<1>3. UNCHANGED <<rows, made, run>> /\ loose' = loose \cup Unread(s, l)
  BY <1>1 DEF OpenSession, OpKeeps, storeVars
<1>4. /\ Paired(Range(l), loose')
      /\ run.session = s => Pending(Range(l), loose', run.todo)
      /\ loose \subseteq loose' /\ loose' \subseteq Int /\ l \in Seq(Stored)
  BY <1>1, <1>3, BeginPairs
<1>5. next \in Nat /\ next >= 5
  BY ConversationAssumption DEF IInv, Safe, StoreOK
<1>6. PICK L : L = Recovered(l, sign)
  OBVIOUS
<1>7. Paired(Range(L), loose')
      /\ (run.session = s => Pending(Range(L), loose', run.todo))
  <2>1. PICK X : X = loose'
    OBVIOUS
  <2>2. PICK T : T = run.todo
    OBVIOUS
  <2>3. /\ Paired(Range(l), X) => Paired(Range(L), X)
        /\ Ends(Range(l), X, T) => Ends(Range(L), X, T)
        /\ Held(Range(l), X, T) => Held(Range(L), X, T)
    BY <1>4, <1>5, <1>6, RecoveredPairs
  <2> QED BY <1>4, <2>1, <2>2, <2>3 DEF Pending
<1>8. OpPairs(rows, loose', run', op')
  BY <1>2, <1>3, <1>6, <1>7 DEF OpPairs
<1>9. /\ run.session \in made \cup {None}
      /\ run.at # "results" => run.todo = {}
  BY PairsNow
<1> QED BY <1>3, <1>4, <1>8, <1>9, NothingWritten

\* CompactRead keeps results and their calls together.
LEMMA CompactReadPairs ==
  ASSUME IInv, PairsOK, NEW s \in Sessions, CompactRead(s)
  PROVE  PairsOK'
<1>1. PICK l : l = Get(s, Limit)
  OBVIOUS
<1>2. /\ op' = [kind |-> "compact", at |-> "asking", session |-> s, list |-> l]
      /\ UNCHANGED <<rows, made, run>> /\ loose' = loose \cup Unread(s, l)
  BY <1>1 DEF CompactRead, Begin, OpKeeps, storeVars
<1>3. /\ Paired(Range(l), loose') /\ Close(Range(l), loose')
      /\ run.session = s => Pending(Range(l), loose', run.todo)
      /\ loose \subseteq loose' /\ loose' \subseteq Int
  BY <1>1, <1>2, BeginPairs
<1>4. OpPairs(rows, loose', run', op')
  BY <1>2, <1>3 DEF OpPairs
<1>5. /\ run.session \in made \cup {None}
      /\ run.at # "results" => run.todo = {}
  BY PairsNow
<1> QED BY <1>2, <1>3, <1>4, <1>5, NothingWritten

\* ForkRead keeps results and their calls together.
LEMMA ForkReadPairs ==
  ASSUME IInv, PairsOK, NEW s \in Sessions, ForkRead(s)
  PROVE  PairsOK'
<1>1. PICK l : l = Get(s, Limit)
  OBVIOUS
<1>2. /\ op' = [kind |-> "fork", at |-> "create", session |-> s, list |-> l]
      /\ UNCHANGED <<rows, made, run>> /\ loose' = loose \cup Unread(s, l)
  BY <1>1 DEF ForkRead, Begin, OpKeeps, storeVars
<1>3. /\ Paired(Range(l), loose')
      /\ loose \subseteq loose' /\ loose' \subseteq Int
  BY <1>1, <1>2, BeginPairs
<1>4. OpPairs(rows, loose', run', op')
  BY <1>2, <1>3 DEF OpPairs
<1>5. /\ run.session \in made \cup {None}
      /\ run.at # "results" => run.todo = {}
  BY PairsNow
<1> QED BY <1>2, <1>3, <1>4, <1>5, NothingWritten

\* A session that is made is none the turn runs in.
LEMMA CreatePairs ==
  ASSUME IInv, PairsOK, NEW s \in Sessions,
         Start(s) \/ ForkCreate(s) \/ ImportCreate(s)
  PROVE  PairsOK'
<1>1. /\ s \notin made /\ made' = made \cup {s}
      /\ UNCHANGED <<rows, run, loose>>
  BY DEF Start, ForkCreate, ImportCreate, Create, OpKeeps, fateVars
<1>2. /\ run.session \in made \cup {None} /\ None \notin Sessions
      /\ run.at # "results" => run.todo = {}
      /\ loose \subseteq Int /\ rows[s] = {}
      /\ OpPairs(rows, loose, run, op) /\ OpOK(op, rows, next, made)
  BY <1>1, PairsNow
<1>3. run.session # s
  BY <1>1, <1>2
<1>4. OpPairs(rows, loose, run, op')
  <2>1. CASE Start(s)
    BY <1>2, <2>1 DEF Start
  <2>2. CASE ForkCreate(s)
    <3>1. op.kind = "fork" /\ op' = [op EXCEPT !.at = "copy", !.session = s]
      BY <2>2 DEF ForkCreate, Doing
    <3>2. /\ op'.kind = "fork" /\ op'.session = s /\ op'.list = op.list
      BY <1>2, <3>1 DEF OpOK
    <3> QED BY <1>2, <1>3, <3>1, <3>2 DEF OpPairs
  <2>3. CASE ImportCreate(s)
    <3>1. op' = [kind |-> "import", at |-> "copy", session |-> s,
                 list |-> Exported]
      BY <2>3 DEF ImportCreate, Begin
    <3> QED BY <1>2, <1>3, <3>1, ImportBegins DEF OpPairs
  <2> QED BY <2>1, <2>2, <2>3
<1> QED BY <1>1, <1>2, <1>4, NothingWritten

\* StoreRecovered keeps results and their calls together.
LEMMA StoreRecoveredPairs ==
  ASSUME IInv, PairsOK, StoreRecovered
  PROVE  PairsOK'
<1>1. PICK s : s = op.session
  OBVIOUS
<1>2. PICK Z : Z = Range(op.list)
  OBVIOUS
<1>3. /\ op.kind = "open" /\ op' = NoOp /\ rows' = [rows EXCEPT ![s] = Z]
      /\ UNCHANGED <<made, run>> /\ loose' = loose \cup Separated(Z)
  BY <1>1, <1>2 DEF StoreRecovered, Replace, Finish, OpKeeps
<1>4. /\ run.session \in made \cup {None} /\ s \in Sessions
      /\ run.at # "results" => run.todo = {}
      /\ loose \subseteq Int /\ OpPairs(rows, loose, run, op)
      /\ OpOK(op, rows, next, made)
  BY <1>1, <1>3, PairsNow
<1>5. /\ Paired(Z, loose) /\ (run.session = s => Pending(Z, loose, run.todo))
  BY <1>1, <1>2, <1>3, <1>4 DEF OpPairs
<1>6. Z \subseteq Stored
  BY <1>2, <1>4, RangeFacts DEF OpOK
<1>7. loose \subseteq loose' /\ loose' \subseteq Int
  <2>1. \A r \in Z : r.calls \subseteq Nat
    BY <1>6, StoredType
  <2>2. Separated(Z) \subseteq Int
    BY <2>1 DEF Separated
  <2> QED BY <1>3, <1>4, <2>2
<1>8. Paired(Z, loose') /\ (run.session = s => Pending(Z, loose', run.todo))
  BY <1>5, <1>7, StillPending DEF Paired
<1>9. Close(Z, loose')
  <2>1. PICK Y : Y = loose'
    OBVIOUS
  <2>2. Separated(Z) \subseteq Y
    BY <1>3, <2>1
  <2>3. Close(Z, Y)
    BY <2>2, CloseIs
  <2> QED BY <2>1, <2>3
<1>10. OpPairs(rows', loose', run', op')
  BY <1>3, NoOpPairs
<1> QED BY <1>3, <1>4, <1>7, <1>8, <1>9, <1>10, OneWritten

\* CompactWrite keeps results and their calls together: what it takes out
\* ends before a message that is neither a call nor a result.
LEMMA CompactWritePairs ==
  ASSUME IInv, PairsOK, CompactWrite
  PROVE  PairsOK'
<1>1. PICK s : s = op.session
  OBVIOUS
<1>2. PICK l : l = op.list
  OBVIOUS
<1>3. PICK C : C = Compacted(l, next)
  OBVIOUS
<1>4. /\ op.kind = "compact" /\ op' = NoOp
      /\ rows' = [rows EXCEPT ![s] = Range(C)]
      /\ UNCHANGED <<made, run, loose>>
  BY <1>1, <1>2, <1>3 DEF CompactWrite, Doing, Replace, Finish, OpKeeps
<1>5. /\ l \in Seq(Stored) /\ InOrder(l) /\ next \in Int
  BY <1>2, <1>4, InHand DEF IInv
<1>6. PICK c, d, m \in Nat : CutAt(l, c, d, m)
  BY <1>2, <1>4, InHand DEF IInv
<1>7. Shape(C, l, next, c, d, m)
  BY <1>3, <1>5, <1>6, CompactedShape
<1>8. /\ run.session \in made \cup {None} /\ s \in Sessions
      /\ run.at # "results" => run.todo = {}
      /\ loose \subseteq Int /\ OpPairs(rows, loose, run, op)
  BY <1>1, <1>4, PairsNow
<1>9. /\ Paired(Range(l), loose) /\ Close(Range(l), loose)
      /\ run.session = s => Pending(Range(l), loose, run.todo)
  BY <1>1, <1>2, <1>4, <1>8 DEF OpPairs
<1>10. PICK X : X = loose
  OBVIOUS
<1>11. /\ Paired(Range(C), X) /\ Close(Range(C), X)
       /\ \A T : Ends(Range(l), X, T) /\ Held(Range(l), X, T)
                   => Ends(Range(C), X, T) /\ Held(Range(C), X, T)
  BY <1>5, <1>6, <1>7, <1>9, <1>10, CompactedPairs
<1>12. PICK Z : Z = Range(C)
  OBVIOUS
<1>13. /\ Paired(Z, loose') /\ Close(Z, loose')
       /\ run.session = s => Pending(Z, loose', run'.todo)
  BY <1>4, <1>9, <1>10, <1>11, <1>12 DEF Pending
<1>14. OpPairs(rows', loose', run', op')
  BY <1>4, NoOpPairs
<1>15. rows' = [rows EXCEPT ![s] = Z]
  BY <1>4, <1>12
<1> QED BY <1>4, <1>8, <1>13, <1>14, <1>15, OneWritten

\* ForkWrite keeps results and their calls together.
LEMMA ForkWritePairs ==
  ASSUME IInv, PairsOK, ForkWrite
  PROVE  PairsOK'
<1>1. PICK s : s = op.session
  OBVIOUS
<1>2. PICK l : l = op.list
  OBVIOUS
<1>3. PICK sign \in {1, -1} :
        /\ rows' = [rows EXCEPT ![s] = Range(Copied(l, sign, next))]
        /\ loose' = loose \cup Separated(Range(Copied(l, sign, next)))
  BY <1>1, <1>2 DEF ForkWrite, Replace, Copied
<1>4. PICK Z : Z = Range(Copied(l, sign, next))
  OBVIOUS
<1>5. /\ op.kind = "fork" /\ op.at = "copy" /\ op' = NoOp
      /\ UNCHANGED <<made, run>>
      /\ rows' = [rows EXCEPT ![s] = Z] /\ loose' = loose \cup Separated(Z)
  BY <1>3, <1>4 DEF ForkWrite, Doing, Finish, OpKeeps
<1>6. /\ run.session \in made \cup {None} /\ s \in Sessions
      /\ run.at # "results" => run.todo = {}
      /\ run.session # s
      /\ loose \subseteq Int /\ OpPairs(rows, loose, run, op)
      /\ OpOK(op, rows, next, made)
  BY <1>1, <1>5, PairsNow
<1>7. /\ l \in Seq(Stored) /\ Strung(l) /\ next \in Nat /\ next >= 5
      /\ \A r \in Range(l) : RowBelow(r, next)
      /\ Paired(Range(l), loose)
  BY <1>2, <1>5, <1>6, ConversationAssumption
     DEF OpOK, OpPairs, IInv, Safe, StoreOK
<1>8. Z \subseteq Stored
  <2>1. GoodList(l, next)
    BY <1>7, LenProperties, RangeFacts DEF GoodList
  <2>2. next >= 1
    BY <1>7
  <2> QED BY <1>4, <1>7, <2>1, <2>2, CopiedGood DEF GoodRows
<1>9. loose \subseteq loose' /\ loose' \subseteq Int
  <2>1. \A r \in Z : r.calls \subseteq Nat
    BY <1>8, StoredType
  <2>2. Separated(Z) \subseteq Int
    BY <2>1 DEF Separated
  <2> QED BY <1>5, <1>6, <2>2
<1>10. PICK X : X = loose
  OBVIOUS
<1>11. PICK Y : Y = loose'
  OBVIOUS
<1>12. Paired(Z, loose')
  <2>1. Paired(Z, X)
    BY <1>4, <1>7, <1>10, CopiedPairs
  <2> QED BY <1>9, <1>10, <2>1 DEF Paired
<1>13. Close(Z, loose')
  <2>1. Separated(Z) \subseteq Y
    BY <1>5, <1>11
  <2>2. Close(Z, Y)
    BY <2>1, CloseIs
  <2> QED BY <1>11, <2>2
<1>14. OpPairs(rows', loose', run', op')
  BY <1>5, NoOpPairs
<1> QED BY <1>5, <1>6, <1>9, <1>12, <1>13, <1>14, OneWritten

\* ImportAppend keeps results and their calls together.
LEMMA ImportAppendPairs ==
  ASSUME IInv, PairsOK, ImportAppend
  PROVE  PairsOK'
<1>1. PICK s : s = op.session
  OBVIOUS
<1>2. PICK l : l = op.list
  OBVIOUS
<1>3. PICK Z : Z = rows[s] \cup {Head(l)}
  OBVIOUS
<1>4. /\ op.kind = "import" /\ op.at = "copy" /\ l # <<>>
      /\ rows' = [rows EXCEPT ![s] = Z]
      /\ op' = [op EXCEPT !.list = Tail(l)]
      /\ UNCHANGED <<made, run, loose>>
  BY <1>1, <1>2, <1>3 DEF ImportAppend, Doing, OpKeeps, fateVars
<1>5. /\ run.session \in made \cup {None} /\ s \in Sessions
      /\ run.at # "results" => run.todo = {}
      /\ run.session # s
      /\ loose \subseteq Int /\ OpPairs(rows, loose, run, op)
      /\ OpOK(op, rows, next, made)
  BY <1>1, <1>4, PairsNow
<1>6. /\ op'.kind = "import" /\ op'.at = "copy" /\ op'.session = s
      /\ op'.list = Tail(l)
  BY <1>1, <1>4, <1>5 DEF OpOK
<1>7. Importing(Z, Tail(l))
  <2>1. Importing(rows[s], l) /\ l \in Seq(Stored)
    BY <1>1, <1>2, <1>4, <1>5 DEF OpPairs, OpOK
  <2>2. PICK R : R = rows[s]
    OBVIOUS
  <2>3. Importing(R \cup {Head(l)}, Tail(l))
    BY <1>4, <2>1, <2>2, ImportGoesOn
  <2> QED BY <1>3, <2>2, <2>3
<1>8. Paired(Z, loose') /\ Close(Z, loose')
  <2>1. PICK Y : Y = loose'
    OBVIOUS
  <2>2. Paired(Z, Y) /\ Close(Z, Y)
    BY <1>7, ImportedPairs
  <2> QED BY <2>1, <2>2
<1>9. rows'[s] = Z
  <2>1. DOMAIN rows = Sessions
    BY DEF IInv, Safe, StoreOK
  <2> QED BY <1>4, <1>5, <2>1
<1>10. OpPairs(rows', loose', run', op')
  BY <1>4, <1>5, <1>6, <1>7, <1>9 DEF OpPairs
<1> QED BY <1>4, <1>5, <1>8, <1>10, OneWritten

\* A session that is cleared or deleted has no results.
LEMMA ClearedPairs ==
  ASSUME IInv, PairsOK,
         ImportFails \/ \E s \in Sessions : ClearMessages(s)
  PROVE  PairsOK'
<1>1. ASSUME NEW X PROVE Paired({}, X) /\ Close({}, X)
  BY DEF Paired, Close
<1>2. ASSUME ImportFails PROVE PairsOK'
  <2>1. PICK s : s = op.session
    OBVIOUS
  <2>2. PICK Z : Z = {}
    OBVIOUS
  <2>3. /\ op.kind = "import" /\ op' = NoOp /\ made' = made \ {s}
        /\ rows' = [rows EXCEPT ![s] = Z] /\ UNCHANGED <<run, loose>>
    BY <1>2, <2>1, <2>2 DEF ImportFails, DeleteSession, Finish
  <2>4. op.at = "copy"
    BY <2>3, PairsNow DEF OpOK
  <2>5. /\ run.session \in made' \cup {None} /\ s \in Sessions
        /\ run.at # "results" => run.todo = {}
        /\ run.session # s /\ loose \subseteq Int
    BY <2>1, <2>3, <2>4, PairsNow
  <2>6. OpPairs(rows', loose', run', op')
    BY <2>3, NoOpPairs
  <2>7. Paired(Z, loose') /\ Close(Z, loose')
    BY <1>1, <2>2
  <2> QED BY <2>3, <2>5, <2>6, <2>7, OneWritten
<1>3. ASSUME NEW s \in Sessions, ClearMessages(s) PROVE PairsOK'
  <2>1. PICK Z : Z = {}
    OBVIOUS
  <2>2. /\ ~(op.at = "copy" /\ op.session = s)
        /\ rows' = [rows EXCEPT ![s] = Z]
        /\ loose' = IF run.session = s THEN loose \cup run.todo ELSE loose
        /\ UNCHANGED <<made, op, run>>
    BY <1>3, <2>1 DEF ClearMessages, Known, Loosened, OpKeeps
  <2>3. /\ run.session \in made \cup {None}
        /\ run.at # "results" => run.todo = {}
        /\ run.todo \subseteq Nat /\ loose \subseteq Int
        /\ OpPairs(rows, loose, run, op) /\ OpOK(op, rows, next, made)
        /\ op.at = "copy" => op.session # run.session
        /\ op.kind # "none" => op.session \in Sessions
    BY PairsNow
  <2>4. loose \subseteq loose' /\ loose' \subseteq Int
    BY <2>2, <2>3
  <2>5. OpPairs(rows', loose', run', op')
    <3>1. op.kind = "import" => rows'[op.session] = rows[op.session]
      BY <2>2, <2>3 DEF IInv, Safe, StoreOK, OpOK
    <3> QED BY <2>2, <2>3, <2>4, <3>1, SameOp
  <2>6. run.session = s => Pending(Z, loose', run'.todo)
    BY <2>2, NonePending
  <2>7. Paired(Z, loose') /\ Close(Z, loose')
    BY <1>1, <2>1
  <2> QED BY <2>2, <2>3, <2>4, <2>5, <2>6, <2>7, OneWritten
<1> QED BY <1>2, <1>3

\* An operation that ends, or a crash, parts nothing.
LEMMA EndPairs ==
  ASSUME IInv, PairsOK, ImportDone \/ ImportCancelled \/ OpFails \/ Crash
  PROVE  PairsOK'
<1>1. op' = NoOp /\ UNCHANGED <<rows, made, loose>>
  BY DEF ImportDone, ImportCancelled, OpFails, Crash, Finish, storeVars,
         fateVars
<1>2. run' = run \/ run' = NoRun
  BY DEF ImportDone, ImportCancelled, OpFails, Crash, OpKeeps
<1>3. /\ run.session \in made \cup {None} /\ loose \subseteq Int
      /\ run.at # "results" => run.todo = {}
  BY PairsNow
<1>4. /\ run'.session \in made' \cup {None}
      /\ run'.at # "results" => run'.todo = {}
      /\ \/ run'.todo = {}
         \/ run'.session = run.session /\ run'.todo = run.todo
  BY <1>1, <1>2, <1>3 DEF NoRun
<1>5. OpPairs(rows, loose', run', op')
  BY <1>1, NoOpPairs
<1> QED BY <1>1, <1>3, <1>4, <1>5, NothingWritten

\* Every step keeps results and their calls together.
LEMMA PairsStep ==
  ASSUME IInv, PairsOK, [Next]_vars
  PROVE  PairsOK'
<1>1. CASE Next
  BY <1>1, TurnPairs, CreatePairs, OpenSessionPairs, CompactReadPairs,
     ForkReadPairs, ClearedPairs, SystemPairs, StoreRecoveredPairs,
     CompactWritePairs, ForkWritePairs, ImportAppendPairs, EndPairs DEF Next
<1>2. CASE UNCHANGED vars
  BY <1>2 DEF vars, storeVars, fateVars, PairsOK
<1> QED BY <1>1, <1>2

\* They are together at the start, when there are none.
LEMMA PairsStart ==
  ASSUME Init
  PROVE  PairsOK
<1>1. /\ rows = [s \in Sessions |-> {}] /\ loose = {}
      /\ run = NoRun /\ op = NoOp
  BY DEF Init
<1>2. StorePairs(rows, loose)
  BY <1>1 DEF StorePairs, Paired, Close
<1>3. RunPairs(rows, loose, run, made)
  BY <1>1 DEF RunPairs, NoRun
<1>4. OpPairs(rows, loose, run, op)
  BY <1>1, NoOpPairs
<1> QED BY <1>1, <1>2, <1>3, <1>4 DEF PairsOK

\* The invariant and this part of it hold always.
LEMMA PairsHold == Spec => [](IInv /\ PairsOK)
<1>1. Init => IInv /\ PairsOK
  BY StartsWell, PairsStart
<1>2. (IInv /\ PairsOK) /\ [Next]_vars => (IInv /\ PairsOK)'
  BY StepKeeps, PairsStep
<1> QED BY <1>1, <1>2, PTL DEF Spec

-----------------------------------------------------------------------------
(* The summary of a compaction. *)

\* What SummaryInPlace says of the messages l that were read and of the
\* messages N that are read back.
SummaryThere(l, N) ==
  LET old == [i \in DOMAIN l |-> l[i].id]
      lead == LeadCount(l)
      kept == Len(N) - lead - 1
  IN /\ kept >= Keep
     /\ \A i \in 1..lead : N[i].id = old[i]
     /\ \A i \in 1..kept : N[lead + 1 + i].id = old[Len(old) - kept + i]

\* A conversation of the shape that Compacted gives has its summary there.
LEMMA ShapeHasSummary ==
  ASSUME NEW l \in Seq(Stored), NEW n, NEW c, NEW d, NEW m,
         CutAt(l, c, d, m), NEW C, Shape(C, l, n, c, d, m)
  PROVE  SummaryThere(l, C)
<1>1. /\ c \in Nat /\ d \in Nat /\ m \in Nat /\ c + d + m = Len(l)
      /\ m >= Keep /\ c = LeadCount(l)
      /\ Len(C) = c + 1 + m
      /\ \A i \in 1..c : C[i] = l[i]
      /\ \A i \in 1..m : C[c + 1 + i].id = l[c + d + i].id
  BY DEF CutAt, Shape
<1>2. PICK old : old = [i \in DOMAIN l |-> l[i].id]
  OBVIOUS
<1>3. /\ DOMAIN l = 1..Len(l) /\ Len(l) \in Nat /\ m \in Int /\ c \in Int
      /\ d \in Int /\ c <= Len(l)
  BY <1>1, LenProperties
<1>4. /\ Len(old) = Len(l)
      /\ \A i \in 1..Len(l) : old[i] = l[i].id
  BY <1>2, <1>3
<1>5. PICK kept : kept = Len(C) - LeadCount(l) - 1
  OBVIOUS
<1>6. kept = m
  <2>1. LeadCount(l) = c /\ Len(C) = c + 1 + m /\ c \in Nat /\ m \in Nat
    BY <1>1
  <2>2. kept = (c + 1 + m) - c - 1
    BY <1>5, <2>1
  <2> QED BY <2>1, <2>2
<1>7. ASSUME NEW i \in 1..c
      PROVE  C[i].id = old[i]
  <2>1. i \in 1..Len(l)
    BY <1>1, <1>3
  <2> QED BY <2>1, <1>1, <1>4
<1>8. ASSUME NEW i \in 1..m
      PROVE  C[c + 1 + i].id = old[Len(old) - m + i]
  <2>1. PICK n0 \in Nat : n0 = Len(l)
    BY <1>3
  <2>2. Len(old) = n0 /\ c + d + m = n0
    BY <1>1, <1>4, <2>1
  <2>3. n0 - m + i = c + d + i /\ c + d + i \in 1..n0
    <3>1. c \in Nat /\ d \in Nat /\ m \in Nat
      BY <1>1
    <3> QED BY <2>1, <2>2, <3>1
  <2>4. Len(old) - m + i = c + d + i /\ c + d + i \in 1..Len(l)
    BY <2>1, <2>2, <2>3
  <2> QED BY Zenon, <2>4, <1>1, <1>4
<1>9. /\ kept >= Keep
      /\ \A i \in 1..LeadCount(l) : C[i].id = old[i]
      /\ \A i \in 1..kept :
           C[LeadCount(l) + 1 + i].id = old[Len(old) - kept + i]
  BY <1>1, <1>6, <1>7, <1>8
<1> QED BY <1>2, <1>5, <1>9 DEF SummaryThere

\* What CompactWrite leaves in the store is read back in the order it had.
LEMMA WrittenHasSummary ==
  ASSUME Safe, CompactWrite
  PROVE  SummaryThere(op.list, Listing(rows'[op.session]))
<1> DEFINE l == op.list
           C == Compacted(l, next)
<1>1. /\ op.kind = "compact" /\ op.session \in made /\ next <= MaxId
      /\ rows' = [rows EXCEPT ![op.session] = Range(C)]
  BY DEF CompactWrite, Doing, Replace
<1>2. /\ l \in Seq(Stored) /\ GoodList(l, next) /\ InOrder(l)
      /\ next \in Nat /\ next >= 5
  BY <1>1, InHand
<1>3. PICK c, d, m \in Nat : CutAt(l, c, d, m)
  BY <1>1, InHand
<1>4. rows'[op.session] = Range(C)
  <2>1. op.session \in DOMAIN rows
    BY <1>1 DEF Safe, MadeOK, StoreOK
  <2> HIDE DEF C
  <2> QED BY <1>1, <2>1
<1> HIDE DEF l, C
<1>5. Shape(C, l, next, c, d, m)
  <2>1. next \in Int
    BY <1>2
  <2> QED BY <2>1, <1>2, <1>3, CompactedShape DEF C
<1>6. Listing(Range(C)) = C
  BY <1>1, <1>2, <1>3, <1>5, CompactedGood
<1>7. SummaryThere(l, C)
  BY <1>2, <1>3, <1>5, ShapeHasSummary
<1> QED BY <1>4, <1>6, <1>7 DEF l

\* No other step ends a compaction and writes to its session.
LEMMA OnlyCompactWrite ==
  ASSUME [Next]_vars, Doing("compact", "asking"),
         rows' # rows, op' = NoOp
  PROVE  CompactWrite
<1>1. op.kind = "compact" /\ op # NoOp
  BY DEF Doing, NoOp
<1>2. CASE TurnStep
  <2>1. op' = op
    BY <1>2 DEF TurnStep, StartTurn, AppendUser, Ask, ReplyCalls,
       AppendResult, ReplyText, ReplyNothing, EndTurn, FailTurn, TurnVars
  <2> QED BY <2>1, <1>1
<1>3. ASSUME NEW s \in Sessions,
             \/ Start(s) \/ OpenSession(s)
             \/ CompactRead(s) \/ ForkRead(s) \/ ForkCreate(s)
             \/ ImportCreate(s) \/ ClearMessages(s) \/ AppendSystem(s)
      PROVE  FALSE
  BY <1>1, <1>3 DEF Start, OpenSession, CompactRead, ForkRead, ForkCreate,
     ImportCreate, ClearMessages, AppendSystem, MayBegin, Idle, Doing
<1>4. CASE StoreRecovered \/ ForkWrite \/ ImportAppend \/ ImportDone
           \/ ImportFails \/ ImportCancelled
  BY <1>1, <1>4 DEF StoreRecovered, ForkWrite, ImportAppend, ImportDone,
     ImportFails, ImportCancelled, Doing
<1>5. CASE OpFails \/ Crash
  BY <1>5 DEF OpFails, Crash, storeVars
<1>6. CASE UNCHANGED vars
  BY <1>6, <1>1 DEF vars
<1> QED BY <1>2, <1>3, <1>4, <1>5, <1>6 DEF Next

-----------------------------------------------------------------------------
(* What the runs check. *)

\* The variables keep their types.
THEOREM TypeCorrect == Spec => []TypeOK
<1>1. IInv /\ PairsOK => TypeOK
  <2> SUFFICES ASSUME IInv, PairsOK PROVE TypeOK
    OBVIOUS
  <2>1. /\ rows \in [Sessions -> SUBSET RowSet] /\ made \subseteq Sessions
        /\ next \in Nat /\ spent \in Nat
        /\ op \in [kind : {"none", "open", "compact", "fork", "import"},
                   at : {"none", "fill", "asking", "create", "copy"},
                   session : Sessions \cup {None}, list : Seq(RowSet)]
    BY ConversationAssumption DEF IInv, Safe, StoreOK, MadeOK, OpOK
  <2>2. \A ids \in {acked, summed, dropped, cleared, raced, beyond, loose} :
          ids \subseteq Int
    BY DEF IInv, IdTypes, PairsOK
  <2> QED BY <2>1, <2>2 DEF IInv, TurnOK, TypeOK
<1> QED BY <1>1, PairsHold, PTL

\* No message that the store has accepted is lost, but by the exceptions that
\* the code makes (AppendMessage, ReplaceMessages and what calls it).
THEOREM NothingIsLost == Spec => []NothingLost
<1>1. IInv => NothingLost
  BY DEF IInv, Safe
<1> QED BY <1>1, InvariantHolds, PTL

\* A result never comes without the message that has its call, but by the
\* exceptions that the code makes (findSafeBoundary, recoverMessages, Fork and
\* what appends while they work).
THEOREM PairsStayTogether == Spec => []PairsKept
<1>1. PairsOK => PairsKept
  BY DEF PairsOK, StorePairs, Paired, PairsKept
<1> QED BY <1>1, PairsHold, PTL

\* No other step ends an opening and writes to its session.
LEMMA OnlyStoreRecovered ==
  ASSUME [Next]_vars, op.kind = "open", NEW s \in Sessions, op.session = s,
         rows'[s] # rows[s], op' = NoOp
  PROVE  StoreRecovered
<1>1. op # NoOp /\ rows' # rows
  BY DEF NoOp
<1>2. CASE TurnStep
  <2>1. op' = op
    BY <1>2 DEF TurnStep, StartTurn, AppendUser, Ask, ReplyCalls,
       AppendResult, ReplyText, ReplyNothing, EndTurn, FailTurn, TurnVars
  <2> QED BY <2>1, <1>1
<1>3. ASSUME NEW t \in Sessions,
             \/ Start(t) \/ OpenSession(t)
             \/ CompactRead(t) \/ ForkRead(t) \/ ForkCreate(t)
             \/ ImportCreate(t) \/ ClearMessages(t) \/ AppendSystem(t)
      PROVE  FALSE
  BY <1>1, <1>3 DEF Start, OpenSession, CompactRead, ForkRead, ForkCreate,
     ImportCreate, ClearMessages, AppendSystem, MayBegin, Idle, Doing
<1>4. CASE CompactWrite \/ ForkWrite \/ ImportAppend \/ ImportDone
           \/ ImportFails \/ ImportCancelled
  BY <1>1, <1>4 DEF CompactWrite, ForkWrite, ImportAppend, ImportDone,
     ImportFails, ImportCancelled, Doing
<1>5. CASE OpFails \/ Crash
  BY <1>1, <1>5 DEF OpFails, Crash, storeVars
<1>6. CASE UNCHANGED vars
  BY <1>6, <1>1 DEF vars
<1> QED BY <1>2, <1>3, <1>4, <1>5, <1>6 DEF Next

\* What opening a session stores has a result near every call, up to the order
\* of messages of one time (recoverMessages and ReplaceMessages).
THEOREM RecoveryIsStored == Spec => RecoveryStored
<1> DEFINE A == \A s \in Sessions :
                  op.kind = "open" /\ op.session = s /\ rows'[s] # rows[s]
                    /\ op' = NoOp => AllNear(rows'[s])
<1>1. ASSUME IInv, [Next]_vars
      PROVE  A
  <2>1. SUFFICES ASSUME NEW s \in Sessions, op.kind = "open", op.session = s,
                        rows'[s] # rows[s], op' = NoOp
                 PROVE  AllNear(rows'[s])
    OBVIOUS
  <2>2. StoreRecovered
    BY <1>1, <2>1, OnlyStoreRecovered
  <2>3. rows' = [rows EXCEPT ![s] = Range(op.list)]
    BY <2>1, <2>2 DEF StoreRecovered, Replace
  <2>4. s \in DOMAIN rows /\ AllNear(Range(op.list))
    BY <1>1, <2>1 DEF IInv, Safe, StoreOK, OpOK
  <2> QED BY <2>3, <2>4
<1>2. (Spec => [][A]_vars) => (Spec => RecoveryStored)
  BY DEF RecoveryStored, AllNear, Near
<1> HIDE DEF A
<1>3. IInv /\ [Next]_vars => [A]_vars
  BY <1>1
<1> QED BY <1>2, <1>3, InvariantHolds, PTL DEF Spec

\* A compaction puts its summary between the leading messages and those it
\* keeps, and they are read back in that order (Compact and ReplaceMessages).
THEOREM SummaryStays == Spec => SummaryInPlace
<1> DEFINE A == \A s \in Sessions :
                  Doing("compact", "asking") /\ op.session = s
                    /\ rows'[s] # rows[s] /\ op' = NoOp =>
                  SummaryThere(op.list, Listing(rows'[s]))
<1>1. ASSUME IInv, [Next]_vars
      PROVE  A
  <2>1. SUFFICES ASSUME NEW s \in Sessions, Doing("compact", "asking"),
                        op.session = s, rows'[s] # rows[s], op' = NoOp
                 PROVE  SummaryThere(op.list, Listing(rows'[s]))
    OBVIOUS
  <2>2. CompactWrite
    BY <1>1, <2>1, OnlyCompactWrite
  <2> QED BY <1>1, <2>1, <2>2, WrittenHasSummary DEF IInv
<1>2. (Spec => [][A]_vars) => (Spec => SummaryInPlace)
  BY DEF SummaryInPlace, SummaryThere
<1> HIDE DEF A
<1>3. IInv /\ [Next]_vars => [A]_vars
  BY <1>1
<1> QED BY <1>2, <1>3, InvariantHolds, PTL DEF Spec

=============================================================================
