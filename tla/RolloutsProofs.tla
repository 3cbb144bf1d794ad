--------------------------- MODULE RolloutsProofs ---------------------------
(***************************************************************************)
(* Proofs about the conversations of Rollouts, for batches of any size,    *)
(* any tasks and any limits.                                               *)
(*                                                                         *)
(* The operators first: what the grouping by task takes apart, the sorting *)
(* by row puts together again.  Then where each sample stands at each      *)
(* place of the driver, which is the inductive invariant; the properties   *)
(* of Rollouts follow from it.                                             *)
(***************************************************************************)
EXTENDS Rollouts, FiniteSetTheorems, TLAPS

------------------------------------------------------------------------------
(* Least elements *)

\* A set of naturals that has a member has a least one.
LEMMA LeastNatural ==
  ASSUME NEW S \in SUBSET Nat, S # {}
  PROVE  \E n \in S : \A m \in S : n <= m
<1> DEFINE T == {0 .. n : n \in S}
           R == StrictSubsetOrdering(Nat)
<1>1. T \subseteq FiniteSubsetsOf(Nat)
  <2>1. ASSUME NEW n \in Nat PROVE IsFiniteSet(0 .. n)
    BY FS_Interval
  <2>2. ASSUME NEW n \in Nat PROVE 0 .. n \in SUBSET Nat
    OBVIOUS
  <2> QED BY <2>1, <2>2 DEF FiniteSubsetsOf
<1>2. T # {}
  OBVIOUS
<1>3. IsWellFoundedOn(R, FiniteSubsetsOf(Nat))
  BY FS_StrictSubsetOrderingWellFounded
<1>4. PICK x \in T : \A y \in T : ~(<<y, x>> \in R)
  <2> HIDE DEF T, R
  <2> QED BY <1>1, <1>2, <1>3, WFMin
<1>5. PICK n \in S : x = 0 .. n
  OBVIOUS
<1>6. ASSUME NEW m \in S, m < n PROVE FALSE
  <2>1. 0 .. m \subseteq 0 .. n /\ 0 .. m # 0 .. n
    <3>1. n \in 0 .. n /\ n \notin 0 .. m
      BY <1>6
    <3> QED BY <1>6, <3>1
  <2>2. <<0 .. m, x>> \in R
    BY <2>1, <1>5 DEF StrictSubsetOrdering
  <2> QED BY <1>4, <2>2
<1> QED
  BY <1>6

LEMMA MinIsMember ==
  ASSUME NEW S \in SUBSET Nat, S # {}
  PROVE  Min(S) \in S
BY LeastNatural DEF Min

------------------------------------------------------------------------------
(* The stable sort *)

\* i comes before j in the order of the keys.
Before(key, i, j) == key[i] < key[j] \/ (key[i] = key[j] /\ i < j)

\* How many come before i.
Rank(key, i) == Cardinality({j \in DOMAIN key : Before(key, j, i)})

LEMMA RankIsNatural ==
  ASSUME NEW K \in SUBSET Nat, IsFiniteSet(K), NEW key \in [K -> Int], NEW i \in K
  PROVE  Rank(key, i) \in Nat /\ Rank(key, i) + 1 \in 1 .. Cardinality(K)
<1> DEFINE B == {j \in K : Before(key, j, i)}
<1>1. B \subseteq K \ {i}
  BY DEF Before
<1>2. IsFiniteSet(K \ {i}) /\ Cardinality(K \ {i}) = Cardinality(K) - 1
  BY FS_RemoveElement
<1>3. IsFiniteSet(B) /\ Cardinality(B) <= Cardinality(K \ {i})
  <2> HIDE DEF B
  <2> QED BY <1>1, <1>2, FS_Subset
<1>4. Cardinality(K) \in Nat /\ Cardinality(B) \in Nat
  BY <1>3, FS_CardinalityType
<1>5. Rank(key, i) = Cardinality(B)
  BY DEF Rank
<1> HIDE DEF B
<1> QED
  BY <1>2, <1>3, <1>4, <1>5

LEMMA RankGrows ==
  ASSUME NEW K \in SUBSET Nat, IsFiniteSet(K), NEW key \in [K -> Int],
         NEW i \in K, NEW j \in K, Before(key, i, j)
  PROVE  Rank(key, i) < Rank(key, j)
<1> DEFINE B(k) == {l \in K : Before(key, l, k)}
<1>1. B(i) \subseteq B(j) /\ i \in B(j) /\ i \notin B(i)
  <2>1. ASSUME NEW l \in K, Before(key, l, i) PROVE Before(key, l, j)
    BY <2>1 DEF Before
  <2>2. ~Before(key, i, i)
    BY DEF Before
  <2> QED BY <2>1, <2>2
<1>2. IsFiniteSet(B(i)) /\ IsFiniteSet(B(j))
  BY FS_Subset
<1>3. Cardinality(B(i)) <= Cardinality(B(j)) /\ Cardinality(B(i)) # Cardinality(B(j))
  <2> HIDE DEF B
  <2> QED BY <1>1, <1>2, FS_Subset
<1>4. Cardinality(B(i)) \in Nat /\ Cardinality(B(j)) \in Nat
  BY <1>2, FS_CardinalityType
<1>5. DOMAIN key = K
  OBVIOUS
<1> QED
  BY <1>3, <1>4, <1>5 DEF Rank

IsSortOf(s, key) ==
  /\ s \in [1 .. Cardinality(DOMAIN key) -> DOMAIN key]
  /\ \A p, q \in DOMAIN s : p < q => Before(key, s[p], s[q])

\* Any numbers with keys can be sorted: the place of a number is its rank.
LEMMA StableSortSorts ==
  ASSUME NEW K \in SUBSET Nat, IsFiniteSet(K), NEW key \in [K -> Int]
  PROVE  IsSortOf(StableSort(key), key)
<1> DEFINE c == Cardinality(K)
           f == [i \in K |-> Rank(key, i) + 1]
           s == [p \in 1 .. c |-> CHOOSE i \in K : f[i] = p]
<1>1. c \in Nat /\ IsFiniteSet(1 .. c) /\ Cardinality(1 .. c) = c
  BY FS_CardinalityType, FS_Interval
<1>2. f \in Injection(K, 1 .. c)
  <2>1. f \in [K -> 1 .. c]
    BY RankIsNatural
  <2>2. ASSUME NEW i \in K, NEW j \in K, i # j PROVE f[i] # f[j]
    <3>1. Before(key, i, j) \/ Before(key, j, i)
      BY <2>2 DEF Before
    <3>2. Rank(key, i) < Rank(key, j) \/ Rank(key, j) < Rank(key, i)
      BY <3>1, RankGrows
    <3>3. f[i] = Rank(key, i) + 1 /\ f[j] = Rank(key, j) + 1
      OBVIOUS
    <3>4. Rank(key, i) \in Nat /\ Rank(key, j) \in Nat
      BY RankIsNatural
    <3> QED BY <3>2, <3>3, <3>4
  <2> HIDE DEF f
  <2> QED BY <2>1, <2>2 DEF Injection, IsInjective
<1>3. \A p \in 1 .. c : \E i \in K : f[i] = p
  <2> HIDE DEF f, c
  <2>1. f \in Surjection(K, 1 .. c)
    BY <1>1, <1>2, FS_Injection DEF c
  <2> QED BY <2>1 DEF Surjection
<1>4. s \in [1 .. c -> K] /\ \A p \in 1 .. c : f[s[p]] = p
  BY <1>3
<1>5. ASSUME NEW p \in 1 .. c, NEW q \in 1 .. c, p < q
      PROVE  Before(key, s[p], s[q])
  <2>1. f[s[p]] = p /\ f[s[q]] = q /\ s[p] \in K /\ s[q] \in K
    BY <1>4
  <2>2. s[p] # s[q]
    BY <2>1, <1>5
  <2>3. ~Before(key, s[q], s[p])
    <3>1. ASSUME Before(key, s[q], s[p]) PROVE Rank(key, s[q]) < Rank(key, s[p])
      BY <3>1, <2>1, RankGrows
    <3>2. Rank(key, s[p]) + 1 = p /\ Rank(key, s[q]) + 1 = q
      BY <2>1
    <3>3. Rank(key, s[p]) \in Nat /\ Rank(key, s[q]) \in Nat
      <4> HIDE DEF s
      <4> QED BY <2>1, RankIsNatural
    <3> QED BY <3>1, <3>2, <3>3, <1>5
  <2>4. \A a, b \in K : a # b => Before(key, a, b) \/ Before(key, b, a)
    BY DEF Before
  <2> HIDE DEF s
  <2> QED BY <2>1, <2>2, <2>3, <2>4
<1>6. IsSortOf(s, key)
  <2> HIDE DEF s
  <2> QED BY <1>4, <1>5 DEF IsSortOf
<1> HIDE DEF s, f, c
<1> DEFINE F == [1 .. Cardinality(DOMAIN key) -> DOMAIN key]
           P(t) == \A p, q \in DOMAIN t : p < q =>
                     key[t[p]] < key[t[q]] \/ (key[t[p]] = key[t[q]] /\ t[p] < t[q])
<1>7. s \in F /\ P(s)
  BY <1>6 DEF IsSortOf, Before
<1>8. StableSort(key) = CHOOSE t \in F : P(t)
  BY DEF StableSort
<1>9. StableSort(key) \in F /\ P(StableSort(key))
  <2> HIDE DEF F, P
  <2> QED BY <1>7, <1>8
<1> QED
  BY <1>9 DEF IsSortOf, Before

\* It puts every number at one place.
LEMMA StableSortPermutes ==
  ASSUME NEW K \in SUBSET Nat, IsFiniteSet(K), NEW key \in [K -> Int]
  PROVE  LET s == StableSort(key)
         IN  /\ Cardinality(K) \in Nat
             /\ s \in [1 .. Cardinality(K) -> K]
             /\ \A p, q \in 1 .. Cardinality(K) : p # q => s[p] # s[q]
             /\ \A i \in K : \E p \in 1 .. Cardinality(K) : s[p] = i
<1> DEFINE s == StableSort(key)
           c == Cardinality(K)
<1>1. c \in Nat /\ IsFiniteSet(1 .. c) /\ Cardinality(1 .. c) = c
  BY FS_CardinalityType, FS_Interval
<1>2. s \in [1 .. c -> K] /\ \A p, q \in 1 .. c : p < q => Before(key, s[p], s[q])
  BY StableSortSorts DEF IsSortOf
<1> HIDE DEF s, c
<1>3. ASSUME NEW p \in 1 .. c, NEW q \in 1 .. c, p # q PROVE s[p] # s[q]
  <2>1. \A a \in K : ~Before(key, a, a)
    BY DEF Before
  <2>2. p < q \/ q < p
    BY <1>1, <1>3
  <2> QED BY <1>2, <2>1, <2>2
<1>4. s \in Injection(1 .. c, K)
  BY <1>2, <1>3 DEF Injection, IsInjective
<1>5. s \in Surjection(1 .. c, K)
  BY <1>1, <1>4, FS_Injection DEF c
<1> QED
  BY <1>1, <1>2, <1>3, <1>5 DEF Surjection, s, c

------------------------------------------------------------------------------
(* calculate_rewards *)

\* Grouped by task, every row is still there once.
LEMMA GroupingPermutes ==
  ASSUME NEW n \in Nat, NEW names, DOMAIN names = 1 .. n
  PROVE  /\ IndicesOrder(names) \in [1 .. n -> 1 .. n]
         /\ \A p, q \in 1 .. n : p # q => IndicesOrder(names)[p] # IndicesOrder(names)[q]
<1> DEFINE key == [i \in 1 .. n |-> GroupOf(names, i)]
<1>1. ASSUME NEW i \in 1 .. n PROVE GroupOf(names, i) \in Int
  <2> DEFINE S == {j \in 1 .. n : names[j] = names[i]}
  <2>1. S \in SUBSET Nat /\ S # {}
    OBVIOUS
  <2>2. GroupOf(names, i) = Min(S)
    BY DEF GroupOf
  <2> HIDE DEF S
  <2>3. Min(S) \in S
    BY <2>1, MinIsMember
  <2>4. Min(S) \in Nat
    BY <2>1, <2>3
  <2> QED BY <2>2, <2>4
<1>2. key \in [1 .. n -> Int]
  BY <1>1
<1>3. IsFiniteSet(1 .. n) /\ Cardinality(1 .. n) = n /\ 1 .. n \in SUBSET Nat
  BY FS_Interval
<1>4. IndicesOrder(names) = StableSort(key)
  BY DEF IndicesOrder
<1> HIDE DEF key
<1>5. /\ StableSort(key) \in [1 .. Cardinality(1 .. n) -> 1 .. n]
      /\ \A p, q \in 1 .. Cardinality(1 .. n) : p # q => StableSort(key)[p] # StableSort(key)[q]
  BY <1>2, <1>3, StableSortPermutes
<1> QED
  BY <1>3, <1>4, <1>5

\* Whatever order the results are in, they are sorted back by row: the place of
\* the result of row i comes out as number i.
LEMMA SortsBack ==
  ASSUME NEW n \in Nat, NEW order \in [1 .. n -> 1 .. n],
         \A p, q \in 1 .. n : p # q => order[p] # order[q]
  PROVE  /\ SortedIndices(order) \in [1 .. n -> 1 .. n]
         /\ \A i \in 1 .. n : order[SortedIndices(order)[i]] = i
<1> DEFINE s == StableSort(order)
           g == [p \in 1 .. n |-> order[s[p]]]
<1>1. 1 .. n \in SUBSET Nat /\ IsFiniteSet(1 .. n) /\ Cardinality(1 .. n) = n
  BY FS_Interval
<1>2. order \in [1 .. n -> Int]
  OBVIOUS
<1>3. s \in [1 .. n -> 1 .. n] /\ \A p, q \in 1 .. n : p < q => Before(order, s[p], s[q])
  <2>1. IsSortOf(s, order)
    BY <1>1, <1>2, StableSortSorts
  <2> HIDE DEF s
  <2> QED BY <1>1, <2>1 DEF IsSortOf
<1> HIDE DEF s
<1>4. ASSUME NEW p \in 1 .. n, NEW q \in 1 .. n, p < q PROVE g[p] < g[q]
  <2>1. Before(order, s[p], s[q]) /\ s[p] \in 1 .. n /\ s[q] \in 1 .. n
    BY <1>3, <1>4
  <2>2. order[s[p]] = order[s[q]] => s[p] = s[q]
    BY <2>1
  <2> QED BY <2>1, <2>2 DEF Before
<1>5. g \in [1 .. n -> 1 .. n]
  BY <1>3
<1> HIDE DEF g
<1>6. ASSUME NEW p \in 1 .. n, NEW q \in 1 .. n, p # q PROVE g[p] # g[q]
  <2>1. g[p] \in Int /\ g[q] \in Int
    BY <1>5
  <2>2. p < q => g[p] < g[q]
    BY <1>4
  <2>3. q < p => g[q] < g[p]
    BY <1>4
  <2>4. CASE p < q
    <3>1. g[p] < g[q]
      BY <2>2, <2>4
    <3> QED BY <2>1, <3>1
  <2>5. CASE q < p
    <3>1. g[q] < g[p]
      BY <2>3, <2>5
    <3> QED BY <2>1, <3>1
  <2>6. p < q \/ q < p
    BY <1>6
  <2> QED BY <2>4, <2>5, <2>6
<1>7. ASSUME NEW p \in 1 .. n PROVE g[p] = p
  <2> DEFINE h == [q \in 1 .. p |-> g[q]]
             k == [q \in p .. n |-> g[q]]
  <2>1. h \in Injection(1 .. p, 1 .. g[p])
    <3>1. ASSUME NEW q \in 1 .. p PROVE g[q] \in 1 .. g[p]
      <4>1. q \in 1 .. n /\ (q = p \/ q < p)
        OBVIOUS
      <4>2. g[q] \in 1 .. n /\ g[p] \in 1 .. n
        BY <1>5, <4>1
      <4>3. CASE q = p
        BY <4>2, <4>3
      <4>4. CASE q < p
        BY <1>4, <4>1, <4>2, <4>4
      <4> QED BY <4>1, <4>3, <4>4
    <3>2. ASSUME NEW q \in 1 .. p, NEW r \in 1 .. p, q # r PROVE g[q] # g[r]
      BY <1>6, <3>2
    <3> QED BY <3>1, <3>2 DEF Injection, IsInjective
  <2>2. k \in Injection(p .. n, g[p] .. n)
    <3>1. ASSUME NEW q \in p .. n PROVE g[q] \in g[p] .. n
      <4>1. q \in 1 .. n /\ (q = p \/ p < q)
        OBVIOUS
      <4>2. g[q] \in 1 .. n /\ g[p] \in 1 .. n
        BY <1>5, <4>1
      <4>3. CASE q = p
        BY <4>2, <4>3
      <4>4. CASE p < q
        BY <1>4, <4>1, <4>2, <4>4
      <4> QED BY <4>1, <4>3, <4>4
    <3>2. ASSUME NEW q \in p .. n, NEW r \in p .. n, q # r PROVE g[q] # g[r]
      BY <1>6, <3>2
    <3> QED BY <3>1, <3>2 DEF Injection, IsInjective
  <2>3. PICK m \in 1 .. n : g[p] = m
    BY <1>5
  <2> HIDE DEF h, k
  <2>4. ASSUME NEW a \in 1 .. n, NEW b \in 1 .. n, a <= b
        PROVE  IsFiniteSet(a .. b) /\ Cardinality(a .. b) = b - a + 1
    <3>1. a \in Int /\ b \in Int /\ ~(a > b)
      BY <2>4
    <3> QED BY <3>1, FS_Interval
  <2>5. 1 \in 1 .. n /\ n \in 1 .. n /\ 1 <= m /\ 1 <= p /\ m <= n /\ p <= n
    OBVIOUS
  <2>6. /\ IsFiniteSet(1 .. m) /\ Cardinality(1 .. m) = m - 1 + 1
        /\ Cardinality(1 .. p) = p - 1 + 1
    BY <2>4, <2>5, Zenon
  <2>7. /\ IsFiniteSet(m .. n) /\ Cardinality(m .. n) = n - m + 1
        /\ Cardinality(p .. n) = n - p + 1
    BY <2>4, <2>5, Zenon
  <2>8. Cardinality(1 .. p) <= Cardinality(1 .. m)
    BY <2>1, <2>3, <2>6, FS_Injection
  <2>9. Cardinality(p .. n) <= Cardinality(m .. n)
    BY <2>2, <2>3, <2>7, FS_Injection
  <2> QED BY <2>3, <2>6, <2>7, <2>8, <2>9
<1>8. SortedIndices(order) = s
  BY DEF SortedIndices, s
<1> QED
  BY <1>3, <1>7, <1>8 DEF g

\* What the environments answer to a row comes back as the answer of that row, in
\* whatever way the rows are spread over tasks.
THEOREM RewardsStayInPlace ==
  ASSUME NEW n \in Nat, NEW names, DOMAIN names = 1 .. n,
         NEW step, step = [i \in 1 .. n |-> step[i]]
  PROVE  CalculateRewards(names, step) = step
<1> DEFINE order == IndicesOrder(names)
           collected == [k \in DOMAIN order |-> step[order[k]]]
           sorted == SortedIndices(order)
<1>1. /\ order \in [1 .. n -> 1 .. n]
      /\ \A p, q \in 1 .. n : p # q => order[p] # order[q]
  BY GroupingPermutes
<1>2. CalculateRewards(names, step) = [i \in 1 .. n |-> collected[sorted[i]]]
  BY DEF CalculateRewards
<1> HIDE DEF order
<1>3. sorted \in [1 .. n -> 1 .. n] /\ \A i \in 1 .. n : order[sorted[i]] = i
  BY <1>1, SortsBack
<1> HIDE DEF sorted
<1>4. ASSUME NEW i \in 1 .. n PROVE collected[sorted[i]] = step[i]
  BY <1>1, <1>3
<1> HIDE DEF collected
<1> QED
  BY <1>2, <1>4

------------------------------------------------------------------------------
(* Taking a sample out of the active ones *)

Distinct(s) == \A i, j \in DOMAIN s : i # j => s[i] # s[j]

LEMMA RemoveFirstRemoves ==
  ASSUME NEW T, NEW s \in Seq(T), Distinct(s), NEW e, Contains(s, e)
  PROVE  /\ RemoveFirst(s, e) \in Seq(T)
         /\ Distinct(RemoveFirst(s, e))
         /\ \A x : Contains(RemoveFirst(s, e), x) <=> Contains(s, x) /\ x # e
<1>1. PICK k \in 1 .. Len(s) : s[k] = e
  BY DEF Contains
<1> DEFINE t == SubSeq(s, 1, k - 1) \o SubSeq(s, k + 1, Len(s))
<1>2. RemoveFirst(s, e) = t
  <2>1. {i \in 1 .. Len(s) : s[i] = e} = {k}
    BY <1>1 DEF Distinct
  <2>2. Min({k}) = k
    BY DEF Min
  <2>3. SelectInSeq(s, LAMBDA v : v = e) = k
    BY <2>1, <2>2 DEF SelectInSeq
  <2> QED BY <1>1, <2>3 DEF RemoveFirst, RemoveAt
<1>3. /\ t \in Seq(T) /\ Len(t) = Len(s) - 1
      /\ \A i \in 1 .. Len(t) : t[i] = IF i < k THEN s[i] ELSE s[i + 1]
  <2> DEFINE u == SubSeq(s, 1, k - 1)
             v == SubSeq(s, k + 1, Len(s))
  <2>1. u \in Seq(T) /\ Len(u) = k - 1 /\ \A i \in 1 .. k - 1 : u[i] = s[i]
    BY <1>1
  <2>2. v \in Seq(T) /\ Len(v) = Len(s) - k /\ \A i \in 1 .. Len(s) - k : v[i] = s[i + k]
    BY <1>1
  <2> HIDE DEF u, v
  <2>3. /\ u \o v \in Seq(T) /\ Len(u \o v) = Len(s) - 1
        /\ \A i \in 1 .. Len(s) - 1 :
             (u \o v)[i] = IF i <= k - 1 THEN u[i] ELSE v[i - (k - 1)]
    <3>1. Len(u) + Len(v) = Len(s) - 1
      BY <1>1, <2>1, <2>2
    <3>2. u \o v \in Seq(T)
      BY <2>1, <2>2
    <3>3. Len(u \o v) = Len(u) + Len(v)
      <4>1. u \in Seq(T) /\ v \in Seq(T)
        BY <2>1, <2>2
      <4> QED BY <4>1
    <3>4. \A i \in 1 .. Len(u) + Len(v) :
            (u \o v)[i] = IF i <= Len(u) THEN u[i] ELSE v[i - Len(u)]
      BY <2>1, <2>2
    <3> QED BY <2>1, <3>1, <3>2, <3>3, <3>4
  <2>4. t = u \o v
    BY DEF u, v
  <2>5. ASSUME NEW i \in 1 .. Len(s) - 1
        PROVE  (u \o v)[i] = IF i < k THEN s[i] ELSE s[i + 1]
    <3>1. CASE i < k
      BY <1>1, <2>1, <2>3, <3>1
    <3>2. CASE ~(i < k)
      <4>1. i - (k - 1) \in 1 .. Len(s) - k /\ i - (k - 1) + k = i + 1
        BY <1>1, <3>2
      <4> QED BY <1>1, <2>2, <2>3, <3>2, <4>1
    <3> QED BY <3>1, <3>2
  <2> HIDE DEF t
  <2> QED BY <2>3, <2>4, <2>5
<1> HIDE DEF t
<1>4. ASSUME NEW i \in 1 .. Len(t)
      PROVE  \E j \in 1 .. Len(s) : j # k /\ t[i] = s[j] /\ j = IF i < k THEN i ELSE i + 1
  BY <1>1, <1>3
<1>5. Distinct(t)
  <2> SUFFICES ASSUME NEW i \in 1 .. Len(t), NEW j \in 1 .. Len(t), i # j
               PROVE  t[i] # t[j]
    BY <1>3 DEF Distinct
  <2>1. PICK a \in 1 .. Len(s) : t[i] = s[a] /\ a = IF i < k THEN i ELSE i + 1
    BY <1>4
  <2>2. PICK b \in 1 .. Len(s) : t[j] = s[b] /\ b = IF j < k THEN j ELSE j + 1
    BY <1>4
  <2>3. a # b
    BY <1>1, <2>1, <2>2
  <2> QED BY <2>1, <2>2, <2>3 DEF Distinct
<1>6. ASSUME NEW x, Contains(t, x) PROVE Contains(s, x) /\ x # e
  <2>1. PICK i \in 1 .. Len(t) : t[i] = x
    BY <1>6 DEF Contains
  <2>2. PICK j \in 1 .. Len(s) : j # k /\ t[i] = s[j]
    BY <1>4
  <2> QED BY <1>1, <2>1, <2>2 DEF Contains, Distinct
<1>7. ASSUME NEW x, Contains(s, x), x # e PROVE Contains(t, x)
  <2>1. PICK i \in 1 .. Len(s) : s[i] = x
    BY <1>7 DEF Contains
  <2>2. i # k
    BY <1>1, <1>7, <2>1
  <2>3. CASE i < k
    BY <1>1, <1>3, <2>1, <2>3 DEF Contains
  <2>4. CASE i > k
    <3>1. i - 1 \in 1 .. Len(t) /\ t[i - 1] = s[i]
      BY <1>1, <1>3, <2>1, <2>4
    <3> QED BY <2>1, <3>1 DEF Contains
  <2> QED BY <1>1, <2>1, <2>2, <2>3, <2>4
<1> QED
  BY <1>2, <1>3, <1>5, <1>6, <1>7

------------------------------------------------------------------------------
(* The inductive invariant *)

Message == [role : {"assistant", "environment"}, of : Nat, turn : Nat]
Origin == [of : Nat, turn : Nat]
Places == {"turn", "generate", "reward", "observe", "compact", "gather", "returned", "raised"}

TypeOK ==
  /\ driver \in {"batched", "async"}
  /\ task \in [Samples -> Tasks]
  /\ log \in [Samples -> Seq(Message)]
  /\ len \in [Samples -> 0 .. MaxSeqLen]
  /\ reward \in [Samples -> Seq(Origin)]
  /\ info \in [Samples -> Origin] /\ stops \in [Samples -> Origin]
  /\ turns \in [Samples -> Nat] /\ over \in [Samples -> Nat]
  /\ truncated \in [Samples -> BOOLEAN]
  /\ terminated \in [Samples -> BOOLEAN]
  /\ failed \in [Samples -> BOOLEAN]
  /\ place \in Places
  /\ turn \in 0 .. MaxTurns /\ row \in Nat \ {0}
  /\ active \in Seq(Samples) /\ Distinct(active)
  /\ answers \in Seq([to : Origin, says : Verdicts])
  /\ cut \in Seq(BOOLEAN)

\* Messages of the sample s alone, response and observation in turn; its rewards.
OwnLog(messages, s) ==
  \A k \in DOMAIN messages :
    messages[k] = Said(IF k % 2 = 1 THEN "assistant" ELSE "environment", s, (k + 1) \div 2)

OwnRewards(rewards, s) == \A k \in DOMAIN rewards : rewards[k] = From(s, k)

\* What is recorded of a sample is its own.
Own(s) ==
  /\ OwnLog(log[s], s)
  /\ OwnRewards(reward[s], s)
  /\ info[s] \in {From(s, k) : k \in 0 .. turns[s]}
  /\ stops[s] \in {From(s, k) : k \in 0 .. turns[s]} \cup {None}
  /\ over[s] \in {0, turns[s]} \/ failed[s]

OwnInv == \A s \in Samples : Own(s)

\* In the batched rollout: the i-th active sample has its response of this turn,
\* its reward, its observation.
Replied(i) == place = "generate" => i < row
Rewarded == place \notin {"generate", "reward"}
Observed(i) == Rewarded /\ (place = "observe" => i < row)

\* A turn goes on, and the environments have answered it.
InTurn == place \in {"generate", "reward", "observe", "compact"}
Answering == place \in {"observe", "compact"}

LoopInv ==
  /\ place \in {"turn", "generate", "reward", "observe", "compact", "returned"}
  /\ IF place \in {"generate", "observe"} THEN row <= Len(active) ELSE row = 1
  /\ InTurn => turn > 0 /\ active # <<>>
  /\ place = "returned" => turn = MaxTurns \/ active = <<>>
  /\ place = "observe" => Len(cut) = row - 1
  /\ place = "compact" => Len(cut) = Len(active)
  /\ Answering => /\ Len(answers) = Len(active)
                  /\ \A i \in DOMAIN active : answers[i].to = From(active[i], turn)

\* The lengths of what is recorded follow the place of the loops.
Counted(i) ==
  LET s == active[i]
  IN  /\ turns[s] = IF Observed(i) THEN turn ELSE turn - 1
      /\ Len(reward[s]) = IF Rewarded THEN turn ELSE turn - 1
      /\ Len(log[s]) = turns[s] + IF Replied(i) THEN turn ELSE turn - 1

\* What the turn has decided about a sample is in cut and answers.
Decided(i) ==
  LET s == active[i]
  IN  IF Answering /\ Observed(i)
        THEN /\ over[s] = IF answers[i].says.over THEN turn ELSE 0
             /\ IF cut[i] THEN truncated[s] ELSE len[s] < MaxSeqLen
        ELSE over[s] = 0 /\ (~InTurn /\ turn > 0 => len[s] < MaxSeqLen)

\* A sample that left the active ones.
Left(s) ==
  /\ Len(reward[s]) = turns[s] /\ Len(log[s]) = 2 * turns[s]
  /\ over[s] = 0 \/ len[s] = MaxSeqLen => truncated[s]

BatchedInv ==
  /\ \A s \in Samples : ~failed[s]
  /\ place # "raised" =>
       /\ LoopInv
       /\ \A i \in DOMAIN active : Counted(i) /\ Decided(i)
       /\ \A s \in Samples : ~Contains(active, s) => Left(s)

\* In the async rollout: a sample whose coroutine runs, or has ended.
Runs(s) ==
  /\ turns[s] < MaxTurns /\ Len(reward[s]) = turns[s] /\ Len(log[s]) = 2 * turns[s]
  /\ over[s] = 0 /\ ~failed[s]
  /\ turns[s] > 0 => len[s] < MaxSeqLen

Ended(s) ==
  IF failed[s]
    THEN /\ turns[s] > 0
         /\ Len(reward[s]) = turns[s] - 1 /\ Len(log[s]) = 2 * (turns[s] - 1)
         /\ turns[s] > 1 => len[s] < MaxSeqLen
    ELSE /\ Len(reward[s]) = turns[s] /\ Len(log[s]) = 2 * turns[s]
         /\ over[s] = 0 => truncated[s] \/ turns[s] = MaxTurns
         /\ len[s] = MaxSeqLen => truncated[s]

AsyncInv ==
  /\ place \in {"gather", "returned", "raised"}
  /\ place = "returned" => active = <<>>
  /\ \A s \in Samples : IF Contains(active, s) THEN Runs(s) ELSE Ended(s)

IInv ==
  /\ TypeOK
  /\ OwnInv
  /\ driver = "batched" => BatchedInv
  /\ driver = "async" => AsyncInv

------------------------------------------------------------------------------
(* What one more message or reward does *)

LEMMA SampleIsNatural ==
  ASSUME NEW s \in Samples
  PROVE  s \in Nat \ {0}
BY RolloutAssumption DEF Samples

LEMMA Parity ==
  ASSUME NEW t \in Nat
  PROVE  /\ (2 * t + 1) % 2 = 1 /\ ((2 * t + 1) + 1) \div 2 = t + 1
         /\ (2 * t + 2) % 2 = 0 /\ ((2 * t + 2) + 1) \div 2 = t + 1
OBVIOUS

LEMMA ReplyIsOwn ==
  ASSUME NEW s \in Samples, NEW messages \in Seq(Message), NEW t \in Nat,
         Len(messages) = 2 * t, OwnLog(messages, s)
  PROVE  LET said == Append(messages, Said("assistant", s, t + 1))
         IN  said \in Seq(Message) /\ Len(said) = 2 * t + 1 /\ OwnLog(said, s)
<1> DEFINE m == Said("assistant", s, t + 1)
           said == Append(messages, m)
<1>1. m \in Message
  BY SampleIsNatural DEF Said, Message
<1>2. m = Said(IF (2 * t + 1) % 2 = 1 THEN "assistant" ELSE "environment", s,
               ((2 * t + 1) + 1) \div 2)
  BY Parity
<1> HIDE DEF m
<1>3. /\ said \in Seq(Message) /\ Len(said) = 2 * t + 1
      /\ \A k \in 1 .. 2 * t : said[k] = messages[k]
      /\ said[2 * t + 1] = m
  BY <1>1
<1> HIDE DEF said
<1>4. ASSUME NEW k \in DOMAIN said
      PROVE  said[k] = Said(IF k % 2 = 1 THEN "assistant" ELSE "environment", s, (k + 1) \div 2)
  <2>1. CASE k = 2 * t + 1
    BY <1>2, <1>3, <2>1
  <2>2. CASE k # 2 * t + 1
    <3>1. k \in 1 .. 2 * t /\ k \in DOMAIN messages
      BY <1>3, <2>2
    <3> QED BY <1>3, <3>1 DEF OwnLog
  <2> QED BY <2>1, <2>2
<1> QED
  BY <1>3, <1>4 DEF OwnLog, said, m

LEMMA ObservationIsOwn ==
  ASSUME NEW s \in Samples, NEW messages \in Seq(Message), NEW t \in Nat,
         Len(messages) = 2 * t + 1, OwnLog(messages, s)
  PROVE  LET said == Append(messages, Said("environment", s, t + 1))
         IN  said \in Seq(Message) /\ Len(said) = 2 * t + 2 /\ OwnLog(said, s)
<1> DEFINE m == Said("environment", s, t + 1)
           said == Append(messages, m)
<1>1. m \in Message
  BY SampleIsNatural DEF Said, Message
<1>2. m = Said(IF (2 * t + 2) % 2 = 1 THEN "assistant" ELSE "environment", s,
               ((2 * t + 2) + 1) \div 2)
  BY Parity
<1> HIDE DEF m
<1>3. /\ said \in Seq(Message) /\ Len(said) = 2 * t + 2
      /\ \A k \in 1 .. 2 * t + 1 : said[k] = messages[k]
      /\ said[2 * t + 2] = m
  BY <1>1
<1> HIDE DEF said
<1>4. ASSUME NEW k \in DOMAIN said
      PROVE  said[k] = Said(IF k % 2 = 1 THEN "assistant" ELSE "environment", s, (k + 1) \div 2)
  <2>1. CASE k = 2 * t + 2
    BY <1>2, <1>3, <2>1
  <2>2. CASE k # 2 * t + 2
    <3>1. k \in 1 .. 2 * t + 1 /\ k \in DOMAIN messages
      BY <1>3, <2>2
    <3> QED BY <1>3, <3>1 DEF OwnLog
  <2> QED BY <2>1, <2>2
<1> QED
  BY <1>3, <1>4 DEF OwnLog, said, m

LEMMA RewardIsOwn ==
  ASSUME NEW s \in Samples, NEW rewards \in Seq(Origin), NEW t \in Nat,
         Len(rewards) = t, OwnRewards(rewards, s)
  PROVE  LET earned == Append(rewards, From(s, t + 1))
         IN  earned \in Seq(Origin) /\ Len(earned) = t + 1 /\ OwnRewards(earned, s)
<1> DEFINE earned == Append(rewards, From(s, t + 1))
<1>1. From(s, t + 1) \in Origin
  BY SampleIsNatural DEF From, Origin
<1>2. /\ earned \in Seq(Origin) /\ Len(earned) = t + 1
      /\ \A k \in 1 .. t : earned[k] = rewards[k]
      /\ earned[t + 1] = From(s, t + 1)
  BY <1>1
<1> HIDE DEF earned
<1>3. ASSUME NEW k \in DOMAIN earned PROVE earned[k] = From(s, k)
  BY <1>2 DEF OwnRewards
<1> QED
  BY <1>2, <1>3 DEF OwnRewards, earned

\* The environment is sent a conversation that ends with the response of the turn.
LEMMA AnswerIsOwn ==
  ASSUME NEW s \in Samples, NEW messages \in Seq(Message), NEW t \in Nat,
         Len(messages) = 2 * t + 1, OwnLog(messages, s), NEW says
  PROVE  Answer(messages, says) = [to |-> From(s, t + 1), says |-> says]
<1>1. messages[2 * t + 1] = Said("assistant", s, t + 1)
  <2>1. 2 * t + 1 \in DOMAIN messages
    OBVIOUS
  <2> QED BY <2>1, Parity DEF OwnLog
<1> QED
  BY <1>1 DEF Answer, Last, Said

LEMMA ContainsByIndex ==
  ASSUME NEW s \in Seq(Samples)
  PROVE  \A e : Contains(s, e) <=> \E i \in DOMAIN s : s[i] = e
BY DEF Contains

------------------------------------------------------------------------------
(* The invariant is inductive *)

LEMMA InitInv == Init => IInv
<1> SUFFICES ASSUME Init PROVE IInv
  OBVIOUS
<1> USE RolloutAssumption
<1>1. /\ active \in Seq(Samples) /\ Len(active) = BatchSize
      /\ \A i \in Samples : active[i] = i
  BY DEF Init, Samples
<1>2. \A s \in Samples : Contains(active, s)
  BY <1>1 DEF Contains, Samples
<1>3. TypeOK
  <2>1. \A s \in Samples : s \in Nat
    BY SampleIsNatural
  <2>2. len \in [Samples -> 0 .. MaxSeqLen]
    <3>1. PromptLens \subseteq 0 .. MaxSeqLen
      OBVIOUS
    <3>2. len \in [Samples -> PromptLens]
      BY DEF Init
    <3> QED BY <3>1, <3>2
  <2>3. info \in [Samples -> Origin] /\ stops \in [Samples -> Origin]
    BY <2>1 DEF Init, From, Origin
  <2>4. Distinct(active)
    BY <1>1 DEF Distinct, Samples
  <2> QED BY <1>1, <2>2, <2>3, <2>4 DEF Init, TypeOK, Places
<1>4. OwnInv
  <2>1. ASSUME NEW s \in Samples PROVE Own(s)
    <3>1. turns[s] = 0 /\ over[s] = 0 /\ info[s] = From(s, 0) /\ stops[s] = From(s, 0)
      BY DEF Init
    <3>2. OwnLog(log[s], s) /\ OwnRewards(reward[s], s)
      BY DEF Init, OwnLog, OwnRewards
    <3>3. From(s, 0) \in {From(s, k) : k \in 0 .. turns[s]}
      BY <3>1
    <3> QED BY <3>1, <3>2, <3>3 DEF Own
  <2> QED BY <2>1 DEF OwnInv
<1>5. ASSUME driver = "batched" PROVE BatchedInv
  <2>1. place = "turn" /\ turn = 0 /\ row = 1
    BY <1>5 DEF Init
  <2>2. LoopInv
    BY <2>1 DEF LoopInv, InTurn, Answering
  <2>3. ASSUME NEW i \in DOMAIN active PROVE Counted(i) /\ Decided(i)
    <3>1. active[i] \in Samples
      BY <1>1
    <3>2. /\ turns[active[i]] = 0 /\ over[active[i]] = 0
          /\ log[active[i]] = <<>> /\ reward[active[i]] = <<>>
      BY <3>1 DEF Init
    <3> QED BY <2>1, <3>2 DEF Counted, Decided, Observed, Rewarded, Replied, InTurn, Answering
  <2>4. \A s \in Samples : ~failed[s]
    BY DEF Init
  <2> QED BY <1>2, <2>2, <2>3, <2>4 DEF BatchedInv
<1>6. ASSUME driver = "async" PROVE AsyncInv
  <2>1. place = "gather"
    BY <1>6 DEF Init
  <2>2. ASSUME NEW s \in Samples PROVE Runs(s)
    BY DEF Runs, Init
  <2> QED BY <1>2, <2>1, <2>2 DEF AsyncInv
<1> QED
  BY <1>3, <1>4, <1>5, <1>6 DEF IInv

\* What the loop does between two samples leaves them as they are.
LEMMA HeadKeepsInv ==
  ASSUME IInv, StartTurn \/ EndTurns \/ Raise
  PROVE  IInv'
<1> USE RolloutAssumption
<1>1. /\ UNCHANGED <<driver, task, samples, active, answers, cut, row>>
      /\ driver = "batched"
  BY DEF StartTurn, EndTurns, Raise, At
<1>2. TypeOK'
  <2>1. CASE StartTurn
    <3>1. turn' \in 0 .. MaxTurns /\ place' \in Places
      BY <2>1 DEF IInv, TypeOK, StartTurn, At, Places
    <3> QED BY <1>1, <3>1 DEF IInv, TypeOK, samples
  <2>2. CASE EndTurns \/ Raise
    BY <1>1, <2>2 DEF IInv, TypeOK, EndTurns, Raise, At, samples, Places
  <2> QED BY <2>1, <2>2
<1>3. OwnInv'
  BY <1>1 DEF IInv, OwnInv, Own, samples
<1>4. BatchedInv'
  <2>1. \A s \in Samples : ~failed'[s]
    BY <1>1 DEF IInv, BatchedInv, samples
  <2>2. CASE Raise
    BY <2>1, <2>2 DEF Raise, BatchedInv
  <2>3. CASE StartTurn \/ EndTurns
    <3>1. /\ place = "turn" /\ row = 1 /\ place' \in {"generate", "returned"}
          /\ turn' = IF place' = "generate" THEN turn + 1 ELSE turn
          /\ place' = "generate" => active # <<>>
          /\ place' = "returned" => turn = MaxTurns \/ active = <<>>
      BY <1>1, <2>3 DEF StartTurn, EndTurns, At, IInv, BatchedInv, LoopInv
    <3>2. turn \in Nat /\ active \in Seq(Samples)
      BY DEF IInv, TypeOK
    <3>3. LoopInv'
      BY <1>1, <3>1, <3>2 DEF LoopInv, InTurn, Answering
    <3>4. ASSUME NEW i \in DOMAIN active PROVE Counted(i)' /\ Decided(i)'
      <4>1. Counted(i) /\ Decided(i) /\ i \in Nat \ {0}
        BY <1>1, <3>1, <3>2 DEF IInv, BatchedInv
      <4>2. CASE place' = "generate"
        BY <1>1, <3>1, <3>2, <4>1, <4>2
           DEF Counted, Decided, Observed, Rewarded, Replied, InTurn, Answering, samples
      <4>3. CASE place' = "returned"
        BY <1>1, <3>1, <3>2, <4>1, <4>3
           DEF Counted, Decided, Observed, Rewarded, Replied, InTurn, Answering, samples
      <4> QED BY <3>1, <4>2, <4>3
    <3>5. ASSUME NEW s \in Samples, ~Contains(active, s) PROVE Left(s)'
      BY <1>1, <3>1, <3>5 DEF IInv, BatchedInv, Left, samples
    <3> QED BY <1>1, <2>1, <3>3, <3>4, <3>5 DEF BatchedInv
  <2> QED BY <2>2, <2>3
<1> QED
  BY <1>1, <1>2, <1>3, <1>4 DEF IInv

LEMMA GatherKeepsInv ==
  ASSUME IInv, EnvironmentFails \/ Gathered
  PROVE  IInv'
<1>1. /\ UNCHANGED <<driver, task, samples, active, batchVars>>
      /\ driver = "async" /\ place = "gather" /\ place' \in {"raised", "returned"}
      /\ place' = "returned" => active = <<>>
  BY DEF EnvironmentFails, Gathered
<1>2. TypeOK'
  BY <1>1 DEF IInv, TypeOK, samples, batchVars, Places
<1>3. OwnInv'
  BY <1>1 DEF IInv, OwnInv, Own, samples
<1>4. AsyncInv'
  <2>1. ASSUME NEW s \in Samples
        PROVE  (IF Contains(active, s) THEN Runs(s) ELSE Ended(s))'
    BY <1>1 DEF IInv, AsyncInv, Runs, Ended, samples
  <2> QED BY <1>1, <2>1 DEF AsyncInv
<1> QED
  BY <1>1, <1>2, <1>3, <1>4 DEF IInv

\* The response of one active sample: it becomes one that has replied.
LEMMA GenerateKeepsInv ==
  ASSUME IInv, Generate
  PROVE  IInv'
<1> USE RolloutAssumption
<1> DEFINE s == active[row]
           t == turn - 1
<1>1. /\ driver = "batched" /\ place = "generate"
      /\ active \in Seq(Samples) /\ Distinct(active)
      /\ row \in DOMAIN active /\ s \in Samples
      /\ turn > 0 /\ t \in Nat /\ turn = t + 1
  <2>1. /\ driver = "batched" /\ place = "generate" /\ TypeOK /\ LoopInv
    BY DEF Generate, NextRow, IInv, BatchedInv
  <2>2. row \in DOMAIN active
    BY <2>1 DEF TypeOK, LoopInv
  <2> QED BY <2>1, <2>2 DEF TypeOK, LoopInv, InTurn
<1>2. PICK r \in Responses(len[s]) :
         /\ log' = [log EXCEPT ![s] = Append(@, Said("assistant", s, turn))]
         /\ len' = [len EXCEPT ![s] = @ + r.tokens]
         /\ truncated' = [truncated EXCEPT ![s] = @ \/ r.capped]
  BY DEF Generate
<1>3. UNCHANGED <<driver, task, reward, info, stops, turns, terminated, failed, over, turn,
                 active, answers, cut>>
  BY DEF Generate
<1>4. \/ row < Len(active) /\ row' = row + 1 /\ place' = "generate"
      \/ row = Len(active) /\ row' = 1 /\ place' = "reward"
  <2>1. IF row < Len(active) THEN row' = row + 1 /\ place' = place
                            ELSE row' = 1 /\ place' = "reward"
    BY DEF Generate, NextRow
  <2> QED BY <1>1, <2>1
<1>5. Counted(row) /\ turns[s] = t /\ Len(reward[s]) = t /\ Len(log[s]) = 2 * t
  <2>1. Counted(row)
    BY <1>1 DEF IInv, BatchedInv
  <2>2. ~Replied(row) /\ ~Rewarded /\ ~Observed(row)
    BY <1>1 DEF Replied, Rewarded, Observed
  <2> QED BY <1>1, <2>1, <2>2 DEF Counted
<1>6. /\ log'[s] \in Seq(Message) /\ Len(log'[s]) = 2 * t + 1 /\ OwnLog(log'[s], s)
      /\ \A u \in Samples : u # s => log'[u] = log[u]
      /\ log' \in [Samples -> Seq(Message)]
  <2>1. log \in [Samples -> Seq(Message)] /\ OwnLog(log[s], s)
    BY <1>1 DEF IInv, TypeOK, OwnInv, Own
  <2>2. log'[s] = Append(log[s], Said("assistant", s, t + 1))
    BY <1>1, <1>2, <2>1
  <2>3. log'[s] \in Seq(Message) /\ Len(log'[s]) = 2 * t + 1 /\ OwnLog(log'[s], s)
    BY <1>1, <1>5, <2>1, <2>2, ReplyIsOwn
  <2> QED BY <1>1, <1>2, <2>1, <2>3
<1>7. /\ len' \in [Samples -> 0 .. MaxSeqLen]
      /\ \A u \in Samples : u # s => len'[u] = len[u]
  <2>1. len \in [Samples -> 0 .. MaxSeqLen]
    BY DEF IInv, TypeOK
  <2>2. len[s] + r.tokens \in 0 .. MaxSeqLen
    <3>1. r.tokens \in Nat /\ r.tokens <= MaxSeqLen - len[s]
      BY <1>1, <2>1 DEF Responses
    <3> QED BY <1>1, <2>1, <3>1
  <2> QED BY <1>1, <1>2, <2>1, <2>2
<1>8. /\ truncated' \in [Samples -> BOOLEAN]
      /\ \A u \in Samples : u # s => truncated'[u] = truncated[u]
  BY <1>1, <1>2 DEF IInv, TypeOK
<1>9. TypeOK'
  <2>1. row' \in Nat \ {0} /\ place' \in Places
    BY <1>1, <1>4 DEF Places
  <2> QED BY <1>3, <1>6, <1>7, <1>8, <2>1 DEF IInv, TypeOK
<1>10. OwnInv'
  <2>1. ASSUME NEW u \in Samples PROVE Own(u)'
    BY <1>3, <1>6 DEF IInv, OwnInv, Own
  <2> QED BY <2>1 DEF OwnInv
<1>11. BatchedInv'
  <2>1. \A u \in Samples : ~failed'[u]
    BY <1>1, <1>3 DEF IInv, BatchedInv
  <2>2. LoopInv'
    BY <1>1, <1>3, <1>4 DEF LoopInv, InTurn, Answering
  <2>3. ASSUME NEW j \in DOMAIN active PROVE Counted(j)' /\ Decided(j)'
    <3>1. active[j] \in Samples /\ (j # row => active[j] # s) /\ j \in Nat
      BY <1>1 DEF Distinct
    <3>2. /\ Counted(j) /\ Decided(j)
          /\ (Replied(j) <=> j < row) /\ (Replied(j)' <=> j <= row)
          /\ ~Rewarded /\ ~Rewarded' /\ ~Observed(j) /\ ~Observed(j)'
          /\ InTurn' /\ ~Answering /\ ~Answering'
      BY <1>1, <1>4, <3>1
         DEF IInv, BatchedInv, Replied, Rewarded, Observed, InTurn, Answering
    <3>3. CASE j = row
      <4>1. active[j] = s /\ ~Replied(j) /\ Replied(j)'
        BY <1>1, <3>1, <3>2, <3>3
      <4>2. active'[j] = s /\ turns' = turns /\ reward' = reward /\ turn' = turn
        BY <1>3, <4>1
      <4>3. turns[s] = t /\ Len(reward[s]) = t /\ Len(log'[s]) = t + turn
        BY <1>1, <1>5, <1>6
      <4>4. Counted(j)'
        <5> HIDE DEF s
        <5> QED BY <1>1, <3>2, <4>1, <4>2, <4>3 DEF Counted
      <4>5. Decided(j)'
        BY <1>3, <3>2 DEF Decided
      <4> QED BY <4>4, <4>5
    <3>4. CASE j # row
      <4>1. log'[active[j]] = log[active[j]] /\ (Replied(j)' <=> Replied(j))
        BY <1>1, <1>6, <3>1, <3>2, <3>4
      <4>2. Counted(j)'
        BY <1>3, <3>2, <4>1 DEF Counted
      <4>3. Decided(j)'
        BY <1>3, <3>2 DEF Decided
      <4> QED BY <4>2, <4>3
    <3> QED BY <3>3, <3>4
  <2>4. ASSUME NEW u \in Samples, ~Contains(active, u) PROVE Left(u)'
    <3>1. u # s
      BY <1>1, <2>4, ContainsByIndex
    <3>2. Left(u)
      BY <1>1, <2>4 DEF IInv, BatchedInv
    <3> QED BY <1>3, <1>6, <1>7, <1>8, <3>1, <3>2 DEF Left
  <2> QED BY <1>3, <2>1, <2>2, <2>3, <2>4 DEF BatchedInv
<1> QED
  BY <1>1, <1>3, <1>9, <1>10, <1>11 DEF IInv

\* The answers of the environments: every active sample gets its reward.
LEMMA RewardKeepsInv ==
  ASSUME IInv, Reward
  PROVE  IInv'
<1> USE RolloutAssumption
<1> DEFINE t == turn - 1
           n == Len(active)
           names == [i \in DOMAIN active |-> task[active[i]]]
<1>1. /\ driver = "batched" /\ place = "reward" /\ place' = "observe" /\ row = 1
      /\ active \in Seq(Samples) /\ Distinct(active) /\ n \in Nat /\ DOMAIN active = 1 .. n
      /\ turn > 0 /\ t \in Nat /\ turn = t + 1 /\ cut' = <<>>
  <2>1. /\ driver = "batched" /\ place = "reward" /\ place' = "observe" /\ TypeOK /\ LoopInv
        /\ cut' = <<>>
    BY DEF Reward, At, IInv, BatchedInv
  <2> QED BY <2>1 DEF TypeOK, LoopInv, InTurn
<1>2. UNCHANGED <<driver, task, log, len, info, stops, turns, truncated, terminated, failed,
                 over, turn, row, active>>
  BY DEF Reward
<1>3. ASSUME NEW i \in 1 .. n
      PROVE  /\ active[i] \in Samples /\ Counted(i) /\ Decided(i)
             /\ turns[active[i]] = t /\ Len(reward[active[i]]) = t
             /\ Len(log[active[i]]) = 2 * t + 1 /\ over[active[i]] = 0
  <2>1. Counted(i) /\ Decided(i) /\ active[i] \in Samples
    BY <1>1 DEF IInv, BatchedInv
  <2>2. Replied(i) /\ ~Rewarded /\ ~Observed(i) /\ ~Answering
    BY <1>1 DEF Replied, Rewarded, Observed, Answering
  <2>3. turns[active[i]] = t /\ Len(reward[active[i]]) = t /\ Len(log[active[i]]) = t + turn
    BY <2>1, <2>2 DEF Counted
  <2>4. over[active[i]] = 0
    BY <2>1, <2>2 DEF Decided
  <2> QED BY <1>1, <2>1, <2>3, <2>4
<1>4. PICK says \in [1 .. n -> Verdicts] :
         answers' = [i \in 1 .. n |-> [to |-> From(active[i], turn), says |-> says[i]]]
  <2>1. PICK says \in [1 .. n -> Verdicts] :
          answers' = CalculateRewards(names, [i \in 1 .. n |-> Answer(log[active[i]], says[i])])
    BY <1>1 DEF Reward
  <2> DEFINE step == [i \in 1 .. n |-> Answer(log[active[i]], says[i])]
  <2>2. DOMAIN names = 1 .. n
    BY <1>1
  <2>3. step = [i \in 1 .. n |-> step[i]]
    OBVIOUS
  <2>4. ASSUME NEW i \in 1 .. n
        PROVE  Answer(log[active[i]], says[i]) = [to |-> From(active[i], turn), says |-> says[i]]
    <3>1. log[active[i]] \in Seq(Message) /\ OwnLog(log[active[i]], active[i])
      BY <1>3 DEF IInv, TypeOK, OwnInv, Own
    <3> QED BY <1>1, <1>3, <3>1, AnswerIsOwn
  <2>5. step = [i \in 1 .. n |-> [to |-> From(active[i], turn), says |-> says[i]]]
    BY <2>4
  <2> HIDE DEF step, names, n
  <2>6. CalculateRewards(names, step) = step
    BY <1>1, <2>2, <2>3, RewardsStayInPlace
  <2> QED BY <2>1, <2>5, <2>6 DEF step
<1>5. /\ Len(answers') = n /\ answers' \in Seq([to : Origin, says : Verdicts])
      /\ \A i \in 1 .. n : answers'[i].to = From(active[i], turn)
  <2>1. \A i \in 1 .. n : From(active[i], turn) \in Origin
    BY <1>1, <1>3, SampleIsNatural DEF From, Origin
  <2>2. ASSUME NEW i \in 1 .. n
        PROVE  [to |-> From(active[i], turn), says |-> says[i]] \in [to : Origin, says : Verdicts]
    BY <2>1
  <2> HIDE DEF n
  <2> QED BY <1>1, <1>4, <2>2
<1>6. ASSUME NEW i \in 1 .. n
      PROVE  reward'[active[i]] = Append(reward[active[i]], From(active[i], t + 1))
  <2>1. Contains(active, active[i])
    BY <1>1, <1>6 DEF Contains
  <2>2. (CHOOSE j \in DOMAIN active : active[j] = active[i]) = i
    BY <1>1, <1>6 DEF Distinct
  <2>3. reward'[active[i]] = Append(reward[active[i]], answers'[i].to)
    <3>1. reward' = [s \in Samples |->
             IF Contains(active, s)
               THEN Append(reward[s], answers'[CHOOSE j \in DOMAIN active : active[j] = s].to)
               ELSE reward[s]]
      BY DEF Reward
    <3> QED BY <1>3, <2>1, <2>2, <3>1
  <2> QED BY <1>1, <1>5, <2>3
<1>7. ASSUME NEW s \in Samples, ~Contains(active, s) PROVE reward'[s] = reward[s]
  BY <1>7 DEF Reward
<1>8. ASSUME NEW i \in 1 .. n
      PROVE  /\ reward'[active[i]] \in Seq(Origin) /\ Len(reward'[active[i]]) = t + 1
             /\ OwnRewards(reward'[active[i]], active[i])
  <2>1. reward[active[i]] \in Seq(Origin) /\ OwnRewards(reward[active[i]], active[i])
    BY <1>3 DEF IInv, TypeOK, OwnInv, Own
  <2>2. /\ active[i] \in Samples /\ Len(reward[active[i]]) = t
        /\ reward'[active[i]] = Append(reward[active[i]], From(active[i], t + 1))
    BY <1>3, <1>6
  <2> HIDE DEF t
  <2> QED BY <1>1, <2>1, <2>2, RewardIsOwn
<1>9. ASSUME NEW s \in Samples PROVE reward'[s] \in Seq(Origin) /\ OwnRewards(reward'[s], s)
  <2>1. CASE Contains(active, s)
    <3>1. PICK i \in 1 .. n : active[i] = s
      BY <2>1 DEF Contains
    <3> QED BY <1>8, <3>1
  <2>2. CASE ~Contains(active, s)
    BY <1>7, <2>2 DEF IInv, TypeOK, OwnInv, Own
  <2> QED BY <2>1, <2>2
<1>10. TypeOK'
  <2>1. reward' \in [Samples -> Seq(Origin)]
    <3>1. reward' = [s \in Samples |-> reward'[s]]
      BY DEF Reward
    <3> QED BY <1>9, <3>1
  <2>2. place' \in Places /\ cut' \in Seq(BOOLEAN)
    BY <1>1 DEF Places
  <2> QED BY <1>2, <1>5, <2>1, <2>2 DEF IInv, TypeOK
<1>11. OwnInv'
  <2>1. ASSUME NEW s \in Samples PROVE Own(s)'
    BY <1>2, <1>9 DEF IInv, OwnInv, Own
  <2> QED BY <2>1 DEF OwnInv
<1>12. BatchedInv'
  <2>1. \A s \in Samples : ~failed'[s]
    BY <1>1, <1>2 DEF IInv, BatchedInv
  <2>2. LoopInv'
    <3>1. active # <<>>
      BY <1>1 DEF IInv, BatchedInv, LoopInv, InTurn
    <3> QED BY <1>1, <1>2, <1>5, <3>1 DEF LoopInv, InTurn, Answering
  <2>3. ASSUME NEW j \in DOMAIN active PROVE Counted(j)' /\ Decided(j)'
    <3>1. j \in 1 .. n /\ Replied(j)' /\ Rewarded' /\ ~Observed(j)' /\ InTurn'
      BY <1>1, <1>2 DEF Replied, Rewarded, Observed, InTurn
    <3>2. Counted(j)'
      <4>1. /\ turns[active[j]] = t /\ Len(reward'[active[j]]) = t + 1
            /\ Len(log[active[j]]) = 2 * t + 1
        BY <1>3, <1>8, <3>1
      <4>2. /\ turns[active[j]] = turn - 1 /\ Len(reward'[active[j]]) = turn
            /\ Len(log[active[j]]) = turns[active[j]] + turn
        <5> HIDE DEF t
        <5>1. t = turn - 1
          BY DEF t
        <5> QED BY <1>1, <4>1, <5>1
      <4> QED BY <1>2, <3>1, <4>2 DEF Counted
    <3>3. Decided(j)'
      BY <1>2, <1>3, <3>1 DEF Decided
    <3> QED BY <3>2, <3>3
  <2>4. ASSUME NEW s \in Samples, ~Contains(active, s) PROVE Left(s)'
    BY <1>1, <1>2, <1>7, <2>4 DEF IInv, BatchedInv, Left
  <2> QED BY <1>2, <2>1, <2>2, <2>3, <2>4 DEF BatchedInv
<1> QED
  BY <1>1, <1>2, <1>10, <1>11, <1>12 DEF IInv

\* What is kept of an observation fits, and leaves room unless it is cut.
LEMMA KeptFits ==
  ASSUME NEW length \in 0 .. MaxSeqLen, NEW obs \in Nat
  PROVE  /\ length + Kept(length, obs) \in 0 .. MaxSeqLen
         /\ ~Overflows(length, obs) => length + Kept(length, obs) < MaxSeqLen
         /\ Overflows(length, obs) \in BOOLEAN
BY RolloutAssumption DEF Kept, Overflows

\* The observation of one active sample: it becomes one that has observed.
LEMMA ObserveKeepsInv ==
  ASSUME IInv, Observe
  PROVE  IInv'
<1> USE RolloutAssumption
<1> DEFINE s == active[row]
           t == turn - 1
           a == answers[row]
<1>1. /\ driver = "batched" /\ place = "observe"
      /\ active \in Seq(Samples) /\ Distinct(active) /\ active # <<>>
      /\ row \in DOMAIN active /\ s \in Samples /\ cut \in Seq(BOOLEAN) /\ Len(cut) = row - 1
      /\ turn > 0 /\ t \in Nat /\ turn = t + 1
      /\ Len(answers) = Len(active) /\ a.to = From(s, turn) /\ a.says.over \in BOOLEAN
  <2>1. /\ driver = "batched" /\ place = "observe" /\ TypeOK /\ LoopInv
    BY DEF Observe, NextRow, IInv, BatchedInv
  <2>2. row \in DOMAIN active
    BY <2>1 DEF TypeOK, LoopInv
  <2>3. Len(answers) = Len(active) /\ a.to = From(s, turn)
    BY <2>1, <2>2 DEF LoopInv, Answering
  <2>4. a.says.over \in BOOLEAN
    <3> DEFINE R == [to : Origin, says : Verdicts]
    <3>1. answers \in Seq(R) /\ row \in 1 .. Len(answers)
      BY <2>1, <2>2, <2>3 DEF TypeOK
    <3>2. a \in R
      <4> HIDE DEF R
      <4> QED BY <3>1
    <3> QED BY <3>2 DEF Verdicts
  <2>5. turn > 0 /\ active # <<>> /\ Len(cut) = row - 1
    BY <2>1 DEF LoopInv, InTurn
  <2>6. /\ active \in Seq(Samples) /\ Distinct(active) /\ cut \in Seq(BOOLEAN)
        /\ turn \in Nat
    BY <2>1 DEF TypeOK
  <2> HIDE DEF a
  <2> QED BY <2>1, <2>2, <2>3, <2>4, <2>5, <2>6
<1>2. PICK obs \in ObsLens :
         /\ log' = [log EXCEPT ![s] = Append(@, Said("environment", a.to.of, a.to.turn))]
         /\ len' = [len EXCEPT ![s] = @ + Kept(@, obs)]
         /\ truncated' = [truncated EXCEPT ![s] = @ \/ Overflows(len[s], obs)]
         /\ cut' = Append(cut, Overflows(len[s], obs))
         /\ turns' = [turns EXCEPT ![s] = @ + 1]
         /\ over' = [over EXCEPT ![s] = IF a.says.over THEN turn ELSE @]
  BY DEF Observe
<1>3. UNCHANGED <<driver, task, reward, info, stops, terminated, failed, turn, active, answers>>
  BY DEF Observe
<1>4. \/ row < Len(active) /\ row' = row + 1 /\ place' = "observe"
      \/ row = Len(active) /\ row' = 1 /\ place' = "compact"
  <2>1. IF row < Len(active) THEN row' = row + 1 /\ place' = place
                            ELSE row' = 1 /\ place' = "compact"
    BY DEF Observe, NextRow
  <2> QED BY <1>1, <2>1
<1>5. /\ turns[s] = t /\ Len(reward[s]) = t + 1 /\ Len(log[s]) = 2 * t + 1 /\ over[s] = 0
      /\ obs \in Nat /\ len[s] \in 0 .. MaxSeqLen
  <2>1. Counted(row) /\ Decided(row)
    BY <1>1 DEF IInv, BatchedInv
  <2>2. Replied(row) /\ Rewarded /\ ~Observed(row)
    BY <1>1 DEF Replied, Rewarded, Observed
  <2>3. over[s] = 0
    BY <2>1, <2>2 DEF Decided
  <2>4. turns[s] = turn - 1 /\ Len(reward[s]) = turn /\ Len(log[s]) = turns[s] + turn
    BY <2>1, <2>2 DEF Counted
  <2>5. obs \in Nat /\ len[s] \in 0 .. MaxSeqLen
    BY <1>1 DEF IInv, TypeOK
  <2> QED BY <1>1, <2>3, <2>4, <2>5
<1>6. /\ log'[s] \in Seq(Message) /\ Len(log'[s]) = 2 * t + 2 /\ OwnLog(log'[s], s)
      /\ \A u \in Samples : u # s => log'[u] = log[u]
      /\ log' \in [Samples -> Seq(Message)]
  <2>1. log \in [Samples -> Seq(Message)] /\ OwnLog(log[s], s)
    BY <1>1 DEF IInv, TypeOK, OwnInv, Own
  <2>2. log'[s] = Append(log[s], Said("environment", s, t + 1))
    BY <1>1, <1>2, <2>1 DEF From
  <2>3. log'[s] \in Seq(Message) /\ Len(log'[s]) = 2 * t + 2 /\ OwnLog(log'[s], s)
    BY <1>1, <1>5, <2>1, <2>2, ObservationIsOwn
  <2> QED BY <1>1, <1>2, <2>1, <2>3
<1>7. /\ len' \in [Samples -> 0 .. MaxSeqLen]
      /\ \A u \in Samples : u # s => len'[u] = len[u]
      /\ ~Overflows(len[s], obs) => len'[s] < MaxSeqLen
  <2>1. len \in [Samples -> 0 .. MaxSeqLen]
    BY DEF IInv, TypeOK
  <2>2. len'[s] = len[s] + Kept(len[s], obs)
    BY <1>1, <1>2, <2>1
  <2>3. /\ len'[s] \in 0 .. MaxSeqLen
        /\ ~Overflows(len[s], obs) => len'[s] < MaxSeqLen
    BY <1>5, <2>2, KeptFits
  <2> QED BY <1>1, <1>2, <2>1, <2>2, <2>3
<1>8. /\ truncated' \in [Samples -> BOOLEAN]
      /\ \A u \in Samples : u # s => truncated'[u] = truncated[u]
      /\ Overflows(len[s], obs) => truncated'[s]
  BY <1>1, <1>2 DEF IInv, TypeOK
<1>9. /\ turns' \in [Samples -> Nat] /\ turns'[s] = turn
      /\ over' \in [Samples -> Nat] /\ over'[s] = IF a.says.over THEN turn ELSE 0
      /\ \A u \in Samples : u # s => turns'[u] = turns[u] /\ over'[u] = over[u]
  <2>1. turns \in [Samples -> Nat] /\ over \in [Samples -> Nat]
    BY DEF IInv, TypeOK
  <2>2. PICK v \in Nat : v = IF a.says.over THEN turn ELSE 0
    BY <1>1
  <2>3. over' = [over EXCEPT ![s] = v]
    BY <1>2, <1>5, <2>2
  <2>4. /\ turns' \in [Samples -> Nat] /\ turns'[s] = turn
        /\ \A u \in Samples : u # s => turns'[u] = turns[u]
    <3>1. turns' = [turns EXCEPT ![s] = turn]
      <4> HIDE DEF t
      <4> QED BY <1>1, <1>2, <1>5, <2>1
    <3>2. turn \in Nat
      BY <1>1
    <3> QED BY <1>1, <2>1, <3>1, <3>2
  <2>5. /\ over' \in [Samples -> Nat] /\ over'[s] = v
        /\ \A u \in Samples : u # s => over'[u] = over[u]
    BY <1>1, <2>1, <2>3
  <2> QED BY <2>2, <2>4, <2>5
<1>10. /\ cut' \in Seq(BOOLEAN) /\ Len(cut') = row
       /\ cut'[row] = Overflows(len[s], obs)
       /\ \A j \in 1 .. row - 1 : cut'[j] = cut[j]
  <2>1. Overflows(len[s], obs) \in BOOLEAN
    BY DEF Overflows
  <2>2. row \in Nat
    BY <1>1
  <2>3. PICK o \in BOOLEAN : o = Overflows(len[s], obs)
    BY <2>1
  <2>4. cut' = Append(cut, o)
    BY <1>2, <2>3
  <2> QED BY <1>1, <2>2, <2>3, <2>4
<1>11. TypeOK'
  <2>1. row' \in Nat \ {0} /\ place' \in Places
    BY <1>1, <1>4 DEF Places
  <2> QED BY <1>3, <1>6, <1>7, <1>8, <1>9, <1>10, <2>1 DEF IInv, TypeOK
<1>12. OwnInv'
  <2>1. ASSUME NEW u \in Samples PROVE Own(u)'
    <3>1. Own(u)
      BY DEF IInv, OwnInv
    <3>2. CASE u # s
      BY <1>3, <1>6, <1>9, <3>1, <3>2 DEF Own
    <3>3. CASE u = s
      <4>1. \A k \in 0 .. turns[s] : k \in 0 .. turns'[s]
        BY <1>1, <1>5, <1>9
      <4>2. /\ info'[s] \in {From(s, k) : k \in 0 .. turns'[s]}
            /\ stops'[s] \in {From(s, k) : k \in 0 .. turns'[s]} \cup {None}
        BY <1>3, <3>1, <3>3, <4>1 DEF Own
      <4>3. over'[s] \in {0, turns'[s]}
        BY <1>9
      <4> QED BY <1>3, <1>6, <3>1, <3>3, <4>2, <4>3 DEF Own
    <3> QED BY <3>2, <3>3
  <2> QED BY <2>1 DEF OwnInv
<1>13. BatchedInv'
  <2>1. \A u \in Samples : ~failed'[u]
    BY <1>1, <1>3 DEF IInv, BatchedInv
  <2>2. LoopInv'
    <3>1. \A i \in DOMAIN active : answers[i].to = From(active[i], turn)
      BY <1>1 DEF IInv, BatchedInv, LoopInv, Answering
    <3>2. row \in Nat /\ row <= Len(active)
      BY <1>1
    <3> QED BY <1>1, <1>3, <1>4, <1>10, <3>1, <3>2 DEF LoopInv, InTurn, Answering
  <2>3. ASSUME NEW j \in DOMAIN active PROVE Counted(j)' /\ Decided(j)'
    <3>1. active[j] \in Samples /\ (j # row => active[j] # s) /\ j \in Nat \ {0}
      BY <1>1 DEF Distinct
    <3>2. /\ Counted(j) /\ Decided(j) /\ Replied(j) /\ Replied(j)' /\ Rewarded /\ Rewarded'
          /\ (Observed(j) <=> j < row) /\ (Observed(j)' <=> j <= row)
          /\ InTurn /\ InTurn' /\ Answering /\ Answering'
      BY <1>1, <1>4, <3>1
         DEF IInv, BatchedInv, Replied, Rewarded, Observed, InTurn, Answering
    <3>3. CASE j = row
      <4>1. /\ turns'[s] = turn /\ Len(reward[s]) = turn /\ Len(log'[s]) = turns'[s] + turn
        <5> HIDE DEF t
        <5> QED BY <1>1, <1>5, <1>6, <1>9
      <4>2. Counted(j)'
        BY <1>1, <1>3, <3>2, <3>3, <4>1 DEF Counted
      <4>3. IF cut'[row] THEN truncated'[s] ELSE len'[s] < MaxSeqLen
        BY <1>7, <1>8, <1>10
      <4>4. Decided(j)'
        BY <1>1, <1>3, <1>9, <3>2, <3>3, <4>3 DEF Decided
      <4> QED BY <4>2, <4>4
    <3>4. CASE j # row
      <4>1. /\ log'[active[j]] = log[active[j]] /\ turns'[active[j]] = turns[active[j]]
            /\ over'[active[j]] = over[active[j]] /\ len'[active[j]] = len[active[j]]
            /\ truncated'[active[j]] = truncated[active[j]]
        BY <1>6, <1>7, <1>8, <1>9, <3>1, <3>4
      <4>2. (Observed(j)' <=> Observed(j)) /\ (Observed(j) => cut'[j] = cut[j])
        BY <1>1, <1>10, <3>1, <3>2, <3>4
      <4>3. Counted(j)'
        BY <1>3, <3>2, <4>1, <4>2 DEF Counted
      <4>4. Decided(j)'
        BY <1>3, <3>2, <4>1, <4>2 DEF Decided
      <4> QED BY <4>3, <4>4
    <3> QED BY <3>3, <3>4
  <2>4. ASSUME NEW u \in Samples, ~Contains(active, u) PROVE Left(u)'
    <3>1. u # s
      BY <1>1, <2>4, ContainsByIndex
    <3>2. Left(u)
      BY <1>1, <2>4 DEF IInv, BatchedInv
    <3> QED BY <1>3, <1>6, <1>7, <1>8, <1>9, <3>1, <3>2 DEF Left
  <2> QED BY <1>3, <2>1, <2>2, <2>3, <2>4 DEF BatchedInv
<1> QED
  BY <1>1, <1>3, <1>11, <1>12, <1>13 DEF IInv

\* The samples that are not done, each once, in the same order.
LEMMA ContinuingPermutes ==
  ASSUME active \in Seq(Samples)
  PROVE  /\ DOMAIN Continuing = 1 .. Len(Continuing) /\ Len(Continuing) \in Nat
         /\ \A k \in DOMAIN Continuing : Continuing[k] \in DOMAIN active /\ ~Done(Continuing[k])
         /\ \A k, l \in DOMAIN Continuing : k # l => Continuing[k] # Continuing[l]
         /\ \A i \in DOMAIN active : ~Done(i) => \E k \in DOMAIN Continuing : Continuing[k] = i
<1> DEFINE K == {j \in DOMAIN active : ~Done(j)}
           key == [i \in K |-> i]
<1>1. K \in SUBSET Nat /\ IsFiniteSet(K)
  <2>1. IsFiniteSet(1 .. Len(active))
    BY FS_Interval
  <2>2. K \in SUBSET (1 .. Len(active))
    OBVIOUS
  <2> HIDE DEF K
  <2>3. IsFiniteSet(K)
    BY <2>1, <2>2, FS_Subset
  <2>4. K \in SUBSET Nat
    BY <2>2
  <2> QED BY <2>3, <2>4
<1>2. key \in [K -> Int]
  <2>1. \A i \in K : i \in Int
    OBVIOUS
  <2> HIDE DEF K
  <2> QED BY <2>1
<1>3. Continuing = StableSort(key)
  BY DEF Continuing
<1> HIDE DEF key
<1>4. /\ Cardinality(K) \in Nat
      /\ Continuing \in [1 .. Cardinality(K) -> K]
      /\ \A p, q \in 1 .. Cardinality(K) : p # q => Continuing[p] # Continuing[q]
      /\ \A i \in K : \E p \in 1 .. Cardinality(K) : Continuing[p] = i
  <2> HIDE DEF K
  <2> QED BY <1>1, <1>2, <1>3, StableSortPermutes
<1>5. DOMAIN Continuing = 1 .. Cardinality(K) /\ Len(Continuing) = Cardinality(K)
  <2> DEFINE c == Cardinality(K)
  <2>1. c \in Nat /\ DOMAIN Continuing = 1 .. c /\ Continuing \in [1 .. c -> K]
    BY <1>4
  <2> HIDE DEF c, K
  <2>2. Continuing \in Seq(K)
    BY <2>1
  <2>3. Len(Continuing) = c
    BY <2>1, <2>2
  <2> QED BY <2>1, <2>3 DEF c
<1>6. \A k \in DOMAIN Continuing : Continuing[k] \in K
  BY <1>4, <1>5
<1> QED
  BY <1>4, <1>5, <1>6

\* The samples that are done leave the active ones; the others are told what the
\* environment answered to them.
LEMMA CompactKeepsInv ==
  ASSUME IInv, Compact
  PROVE  IInv'
<1> USE RolloutAssumption
<1>1. /\ driver = "batched" /\ place = "compact" /\ place' = "turn" /\ row = 1
      /\ active \in Seq(Samples) /\ Distinct(active)
      /\ turn > 0 /\ turn \in Nat
      /\ \A i \in DOMAIN active : answers[i].to = From(active[i], turn)
  <2>1. driver = "batched" /\ place = "compact" /\ place' = "turn" /\ TypeOK /\ LoopInv
    BY DEF Compact, At, IInv, BatchedInv
  <2> QED BY <2>1 DEF TypeOK, LoopInv, InTurn, Answering
<1>2. /\ UNCHANGED <<driver, task, log, len, reward, turns, truncated, failed, over, turn, row>>
      /\ answers' = <<>> /\ cut' = <<>>
      /\ active' = [k \in DOMAIN Continuing |-> active[Continuing[k]]]
      /\ stops' = [s \in Samples |->
           IF ~Contains(active', s) THEN stops[s]
           ELSE IF Told(s).says.next THEN Told(s).to ELSE None]
      /\ info' = [s \in Samples |->
           IF Contains(active', s) /\ Told(s).says.next THEN Told(s).to ELSE info[s]]
      /\ terminated' = [s \in Samples |->
           terminated[s] \/ \E i \in DOMAIN active : active[i] = s /\ Done(i)]
  BY DEF Compact
<1>3. /\ DOMAIN Continuing = 1 .. Len(Continuing) /\ Len(Continuing) \in Nat
      /\ \A k \in DOMAIN Continuing : Continuing[k] \in DOMAIN active /\ ~Done(Continuing[k])
      /\ \A k, l \in DOMAIN Continuing : k # l => Continuing[k] # Continuing[l]
      /\ \A i \in DOMAIN active : ~Done(i) => \E k \in DOMAIN Continuing : Continuing[k] = i
  BY <1>1, ContinuingPermutes
<1>4. /\ active' \in Seq(Samples) /\ Distinct(active') /\ DOMAIN active' = DOMAIN Continuing
      /\ \A k \in DOMAIN active' : active'[k] = active[Continuing[k]]
  <2>1. \A k \in DOMAIN Continuing : active[Continuing[k]] \in Samples
    BY <1>1, <1>3
  <2>2. active' \in Seq(Samples)
    BY <1>2, <1>3, <2>1
  <2>3. DOMAIN active' = DOMAIN Continuing
    BY <1>2
  <2>4. \A k \in DOMAIN active' : active'[k] = active[Continuing[k]]
    BY <1>2
  <2>5. Distinct(active')
    BY <1>1, <1>3, <2>3, <2>4 DEF Distinct
  <2> QED BY <2>2, <2>3, <2>4, <2>5
<1>5. ASSUME NEW u \in Samples
      PROVE  Contains(active', u) <=> \E i \in DOMAIN active : active[i] = u /\ ~Done(i)
  <2>1. Contains(active', u) <=> \E k \in DOMAIN active' : active'[k] = u
    BY <1>4, ContainsByIndex
  <2> QED BY <1>3, <1>4, <2>1
<1>6. ASSUME NEW u \in Samples, Contains(active', u)
      PROVE  Told(u).to = From(u, turn) /\ turns[u] = turn
  <2>1. PICK i \in DOMAIN active : active[i] = u /\ ~Done(i)
    BY <1>5, <1>6
  <2>2. ToSet(Continuing) = {j \in DOMAIN active : ~Done(j)}
    BY <1>3 DEF ToSet
  <2>3. \A j \in ToSet(Continuing) : active[j] = u <=> j = i
    BY <1>1, <2>1, <2>2 DEF Distinct
  <2>4. i \in ToSet(Continuing)
    BY <2>1, <2>2
  <2>5. Told(u) = answers[i]
    BY <2>3, <2>4 DEF Told
  <2>6. Counted(i) /\ Observed(i)
    BY <1>1 DEF IInv, BatchedInv, Observed, Rewarded
  <2>7. turns[active[i]] = turn
    BY <2>6 DEF Counted
  <2> QED BY <1>1, <2>1, <2>5, <2>7
<1>7. ASSUME NEW u \in Samples
      PROVE  /\ info'[u] \in {From(u, k) : k \in 0 .. turns[u]}
             /\ stops'[u] \in {From(u, k) : k \in 0 .. turns[u]} \cup {None}
             /\ info'[u] \in Origin /\ stops'[u] \in Origin
  <2>1. /\ info[u] \in {From(u, k) : k \in 0 .. turns[u]}
        /\ stops[u] \in {From(u, k) : k \in 0 .. turns[u]} \cup {None}
        /\ info[u] \in Origin /\ stops[u] \in Origin
    BY DEF IInv, TypeOK, OwnInv, Own
  <2>2. /\ info'[u] \in {info[u], Told(u).to} /\ stops'[u] \in {stops[u], None, Told(u).to}
        /\ ~Contains(active', u) => info'[u] = info[u] /\ stops'[u] = stops[u]
    BY <1>2
  <2>3. CASE ~Contains(active', u)
    BY <2>1, <2>2, <2>3
  <2>4. CASE Contains(active', u)
    <3>1. Told(u).to = From(u, turn) /\ turns[u] = turn
      BY <1>6, <2>4
    <3>2. turn \in 0 .. turns[u] /\ From(u, turn) \in Origin /\ None \in Origin
      BY <1>1, <3>1, SampleIsNatural DEF From, Origin, None
    <3>3. From(u, turn) \in {From(u, k) : k \in 0 .. turns[u]}
      BY <3>2
    <3> QED BY <2>1, <2>2, <3>1, <3>2, <3>3
  <2> QED BY <2>3, <2>4
<1>8. TypeOK'
  <2>1. info' \in [Samples -> Origin] /\ stops' \in [Samples -> Origin]
    <3>1. info' = [s \in Samples |-> info'[s]] /\ stops' = [s \in Samples |-> stops'[s]]
      BY <1>2
    <3> QED BY <1>7, <3>1
  <2>2. terminated' \in [Samples -> BOOLEAN]
    <3>1. ASSUME NEW u \in Samples
          PROVE  (terminated[u] \/ \E i \in DOMAIN active : active[i] = u /\ Done(i)) \in BOOLEAN
      OBVIOUS
    <3> QED BY <1>2, <3>1
  <2>3. place' \in Places /\ answers' \in Seq([to : Origin, says : Verdicts])
        /\ cut' \in Seq(BOOLEAN)
    BY <1>1, <1>2 DEF Places
  <2> QED BY <1>2, <1>4, <2>1, <2>2, <2>3 DEF IInv, TypeOK
<1>9. OwnInv'
  <2>1. ASSUME NEW u \in Samples PROVE Own(u)'
    BY <1>2, <1>7 DEF IInv, OwnInv, Own
  <2> QED BY <2>1 DEF OwnInv
<1>10. ASSUME NEW i \in DOMAIN active
       PROVE  /\ turns[active[i]] = turn /\ Len(reward[active[i]]) = turn
              /\ Len(log[active[i]]) = turn + turn
              /\ IF answers[i].says.over THEN over[active[i]] = turn ELSE over[active[i]] = 0
              /\ IF cut[i] THEN truncated[active[i]] ELSE len[active[i]] < MaxSeqLen
  <2>1. /\ Counted(i) /\ Decided(i)
        /\ Observed(i) /\ Rewarded /\ Replied(i) /\ Answering
    BY <1>1 DEF IInv, BatchedInv, Observed, Rewarded, Replied, Answering
  <2>2. /\ turns[active[i]] = turn /\ Len(reward[active[i]]) = turn
        /\ Len(log[active[i]]) = turn + turn
    BY <2>1 DEF Counted
  <2>3. /\ IF answers[i].says.over THEN over[active[i]] = turn ELSE over[active[i]] = 0
        /\ IF cut[i] THEN truncated[active[i]] ELSE len[active[i]] < MaxSeqLen
    BY <2>1 DEF Decided
  <2> QED BY <2>2, <2>3
<1>11. BatchedInv'
  <2>1. \A u \in Samples : ~failed'[u]
    BY <1>1, <1>2 DEF IInv, BatchedInv
  <2>2. LoopInv'
    BY <1>1, <1>2 DEF LoopInv, InTurn, Answering
  <2>3. ASSUME NEW k \in DOMAIN active' PROVE Counted(k)' /\ Decided(k)'
    <3>1. PICK i \in DOMAIN active : active'[k] = active[i] /\ ~Done(i)
      BY <1>3, <1>4
    <3>2. Observed(k)' /\ Rewarded' /\ Replied(k)' /\ ~InTurn' /\ ~Answering'
      BY <1>1 DEF Observed, Rewarded, Replied, InTurn, Answering
    <3>3. Counted(k)'
      BY <1>2, <1>10, <3>1, <3>2 DEF Counted
    <3>4. ~cut[i] /\ ~answers[i].says.over
      BY <3>1 DEF Done
    <3>5. over[active[i]] = 0 /\ len[active[i]] < MaxSeqLen
      BY <1>10, <3>4
    <3>6. Decided(k)'
      BY <1>2, <3>1, <3>2, <3>5 DEF Decided
    <3> QED BY <3>3, <3>6
  <2>4. ASSUME NEW u \in Samples, ~Contains(active', u) PROVE Left(u)'
    <3>1. CASE ~Contains(active, u)
      BY <1>1, <1>2, <3>1 DEF IInv, BatchedInv, Left
    <3>2. CASE Contains(active, u)
      <4>1. PICK i \in DOMAIN active : active[i] = u /\ Done(i)
        <5>1. PICK i \in DOMAIN active : active[i] = u
          BY <1>1, <3>2, ContainsByIndex
        <5> QED BY <1>5, <2>4, <5>1
      <4>2. /\ turns[u] = turn /\ Len(reward[u]) = turn /\ Len(log[u]) = 2 * turn
        BY <1>1, <1>10, <4>1
      <4>3. over[u] = 0 => truncated[u]
        <5>1. over[u] = 0 => ~answers[i].says.over
          BY <1>1, <1>10, <4>1
        <5>2. over[u] = 0 => cut[i]
          BY <4>1, <5>1 DEF Done
        <5> QED BY <1>10, <4>1, <5>2
      <4>4. len[u] = MaxSeqLen => truncated[u]
        <5>1. len[u] = MaxSeqLen => ~(len[u] < MaxSeqLen)
          OBVIOUS
        <5> QED BY <1>10, <4>1, <5>1
      <4> QED BY <1>2, <4>2, <4>3, <4>4 DEF Left
    <3> QED BY <3>1, <3>2
  <2> QED BY <2>1, <2>2, <2>3, <2>4 DEF BatchedInv
<1> QED
  BY <1>1, <1>2, <1>8, <1>9, <1>11 DEF IInv

\* A turn of one coroutine, which goes on or ends.
LEMMA SampleTurnKeepsInv ==
  ASSUME IInv, NEW s \in Samples, SampleTurn(s)
  PROVE  IInv'
<1> USE RolloutAssumption
<1> DEFINE t == turns[s]
           said == Append(log[s], Said("assistant", s, t + 1))
<1>1. /\ driver = "async" /\ place = "gather" /\ Contains(active, s)
      /\ active \in Seq(Samples) /\ Distinct(active)
      /\ Runs(s) /\ t \in Nat /\ len[s] \in 0 .. MaxSeqLen
  BY DEF SampleTurn, IInv, TypeOK, AsyncInv
<1>2. /\ log[s] \in Seq(Message) /\ Len(log[s]) = 2 * t /\ OwnLog(log[s], s)
      /\ reward[s] \in Seq(Origin) /\ Len(reward[s]) = t /\ OwnRewards(reward[s], s)
      /\ over[s] = 0 /\ ~failed[s] /\ t < MaxTurns
  BY <1>1 DEF Runs, IInv, TypeOK, OwnInv, Own
<1>3. said \in Seq(Message) /\ Len(said) = 2 * t + 1 /\ OwnLog(said, s)
  BY <1>1, <1>2, ReplyIsOwn
<1>4. ASSUME NEW says
      PROVE  CalculateRewards(<<task[s]>>, <<Answer(said, says)>>)[1]
               = [to |-> From(s, t + 1), says |-> says]
  <2> HIDE DEF t, said
  <2> DEFINE names == <<task[s]>>
             step == <<Answer(said, says)>>
  <2>1. PICK n \in Nat : n = 1
    OBVIOUS
  <2>2. DOMAIN names = 1 .. n /\ step = [i \in 1 .. n |-> step[i]]
    BY <2>1
  <2>3. CalculateRewards(names, step) = step
    <3> HIDE DEF names, step
    <3> QED BY <2>2, RewardsStayInPlace
  <2>4. Answer(said, says) = [to |-> From(s, t + 1), says |-> says]
    BY <1>1, <1>3, AnswerIsOwn
  <2> QED BY <2>3, <2>4
<1>5. PICK r \in ResponsesAsync(len[s]), says \in Verdicts, obs \in ObsLens :
         LET length == len[s] + r.tokens
             told == says.next /\ ~terminated'[s] /\ ~truncated'[s]
         IN  /\ log' = [log EXCEPT ![s] = Append(said, Said("environment", s, t + 1))]
             /\ len' = [len EXCEPT ![s] = length + Kept(length, obs)]
             /\ reward' = [reward EXCEPT ![s] = Append(@, From(s, t + 1))]
             /\ turns' = [turns EXCEPT ![s] = @ + 1]
             /\ terminated' = [terminated EXCEPT ![s] = says.over]
             /\ over' = [over EXCEPT ![s] = IF says.over THEN turns'[s] ELSE @]
             /\ truncated' = [truncated EXCEPT ![s] = r.capped \/ Overflows(length, obs)]
             /\ stops' = [stops EXCEPT ![s] = IF told THEN From(s, t + 1) ELSE @]
             /\ info' = [info EXCEPT ![s] = IF told THEN From(s, t + 1) ELSE @]
             /\ active' = IF GoesOn(s) THEN active ELSE RemoveFirst(active, s)
  <2> DEFINE a(says) == CalculateRewards(<<task[s]>>, <<Answer(said, says)>>)[1]
  <2>1. PICK r \in ResponsesAsync(len[s]), says \in Verdicts, obs \in ObsLens :
         LET length == len[s] + r.tokens
             told == says.next /\ ~terminated'[s] /\ ~truncated'[s]
         IN  /\ log' = [log EXCEPT ![s] =
                     Append(said, Said("environment", a(says).to.of, a(says).to.turn))]
             /\ len' = [len EXCEPT ![s] = length + Kept(length, obs)]
             /\ reward' = [reward EXCEPT ![s] = Append(@, a(says).to)]
             /\ turns' = [turns EXCEPT ![s] = @ + 1]
             /\ terminated' = [terminated EXCEPT ![s] = says.over]
             /\ over' = [over EXCEPT ![s] = IF says.over THEN turns'[s] ELSE @]
             /\ truncated' = [truncated EXCEPT ![s] = r.capped \/ Overflows(length, obs)]
             /\ stops' = [stops EXCEPT ![s] = IF told THEN a(says).to ELSE @]
             /\ info' = [info EXCEPT ![s] = IF told THEN a(says).to ELSE @]
             /\ active' = IF GoesOn(s) THEN active ELSE RemoveFirst(active, s)
    BY DEF SampleTurn
  <2>2. a(says) = [to |-> From(s, t + 1), says |-> says]
    BY <1>4
  <2> HIDE DEF a, said, t
  <2>3. a(says).to = From(s, t + 1) /\ a(says).to.of = s /\ a(says).to.turn = t + 1
    BY <2>2 DEF From
  <2> QED BY <2>1, <2>3
<1>6. UNCHANGED <<driver, task, failed, place, batchVars>>
  BY DEF SampleTurn
<1> DEFINE length == len[s] + r.tokens
<1>7. /\ length \in 0 .. MaxSeqLen /\ r.capped \in BOOLEAN /\ says.over \in BOOLEAN
      /\ says.next \in BOOLEAN /\ obs \in Nat /\ Overflows(length, obs) \in BOOLEAN
  <2>1. r.tokens \in Nat /\ len[s] + r.tokens <= MaxSeqLen /\ r.capped \in BOOLEAN
    <3>1. CASE len[s] >= MaxSeqLen
      <4>1. r = [tokens |-> 0, capped |-> FALSE]
        BY <3>1 DEF ResponsesAsync
      <4>2. r.tokens = 0
        BY <4>1
      <4>3. r.capped \in BOOLEAN
        BY <4>1
      <4>4. r.tokens \in Nat /\ len[s] + r.tokens <= MaxSeqLen
        BY <1>1, <4>2
      <4> QED BY <4>3, <4>4
    <3>2. CASE ~(len[s] >= MaxSeqLen)
      <4>1. r \in Responses(len[s])
        BY <3>2 DEF ResponsesAsync
      <4> QED BY <1>1, <4>1 DEF Responses
    <3> QED BY <3>1, <3>2
  <2>2. length \in 0 .. MaxSeqLen
    BY <1>1, <2>1
  <2>3. says.over \in BOOLEAN /\ says.next \in BOOLEAN /\ obs \in Nat
    BY <1>1 DEF Verdicts
  <2>4. Overflows(length, obs) \in BOOLEAN
    BY DEF Overflows
  <2> HIDE DEF length
  <2> QED BY <2>1, <2>2, <2>3, <2>4
<1>8. /\ log' \in [Samples -> Seq(Message)]
      /\ Len(log'[s]) = 2 * (t + 1) /\ OwnLog(log'[s], s)
      /\ \A u \in Samples : u # s => log'[u] = log[u]
  <2>1. log \in [Samples -> Seq(Message)]
    BY DEF IInv, TypeOK
  <2>2. log' = [log EXCEPT ![s] = Append(said, Said("environment", s, t + 1))]
    BY <1>5
  <2> HIDE DEF said, t
  <2>3. log'[s] = Append(said, Said("environment", s, t + 1))
    BY <2>1, <2>2
  <2>4. log'[s] \in Seq(Message) /\ Len(log'[s]) = 2 * t + 2 /\ OwnLog(log'[s], s)
    BY <1>1, <1>3, <2>3, ObservationIsOwn
  <2> QED BY <1>1, <2>1, <2>2, <2>3, <2>4
<1>9. /\ reward' \in [Samples -> Seq(Origin)]
      /\ Len(reward'[s]) = t + 1 /\ OwnRewards(reward'[s], s)
      /\ \A u \in Samples : u # s => reward'[u] = reward[u]
  <2>1. reward \in [Samples -> Seq(Origin)]
    BY DEF IInv, TypeOK
  <2>2. reward' = [reward EXCEPT ![s] = Append(@, From(s, t + 1))]
    BY <1>5
  <2> HIDE DEF t
  <2>3. reward'[s] = Append(reward[s], From(s, t + 1))
    BY <2>1, <2>2
  <2>4. reward'[s] \in Seq(Origin) /\ Len(reward'[s]) = t + 1 /\ OwnRewards(reward'[s], s)
    BY <1>1, <1>2, <2>3, RewardIsOwn
  <2> QED BY <2>1, <2>2, <2>3, <2>4
<1>10. /\ len' \in [Samples -> 0 .. MaxSeqLen]
       /\ ~Overflows(length, obs) => len'[s] < MaxSeqLen
       /\ \A u \in Samples : u # s => len'[u] = len[u]
  <2>1. len \in [Samples -> 0 .. MaxSeqLen] /\ len' = [len EXCEPT ![s] = length + Kept(length, obs)]
    BY <1>5 DEF IInv, TypeOK
  <2> HIDE DEF length
  <2>2. /\ length + Kept(length, obs) \in 0 .. MaxSeqLen
        /\ ~Overflows(length, obs) => length + Kept(length, obs) < MaxSeqLen
    BY <1>7, KeptFits
  <2> QED BY <2>1, <2>2
<1>11. /\ turns' \in [Samples -> Nat] /\ turns'[s] = t + 1
       /\ \A u \in Samples : u # s => turns'[u] = turns[u]
  BY <1>1, <1>5 DEF IInv, TypeOK
<1>12. /\ over' \in [Samples -> Nat] /\ over'[s] = IF says.over THEN t + 1 ELSE 0
       /\ \A u \in Samples : u # s => over'[u] = over[u]
  <2>1. over \in [Samples -> Nat]
    BY DEF IInv, TypeOK
  <2>2. PICK v \in Nat : v = IF says.over THEN t + 1 ELSE 0
    BY <1>1
  <2>3. over' = [over EXCEPT ![s] = v]
    BY <1>2, <1>5, <1>11, <2>2
  <2> HIDE DEF t
  <2> QED BY <2>1, <2>2, <2>3
<1>13. /\ terminated' \in [Samples -> BOOLEAN] /\ (terminated'[s] <=> says.over)
       /\ truncated' \in [Samples -> BOOLEAN]
       /\ (truncated'[s] <=> r.capped \/ Overflows(length, obs))
       /\ \A u \in Samples : u # s => truncated'[u] = truncated[u]
  <2>1. terminated \in [Samples -> BOOLEAN] /\ truncated \in [Samples -> BOOLEAN]
    BY DEF IInv, TypeOK
  <2>2. /\ terminated' = [terminated EXCEPT ![s] = says.over]
        /\ truncated' = [truncated EXCEPT ![s] = r.capped \/ Overflows(length, obs)]
    BY <1>5
  <2> HIDE DEF length
  <2> QED BY <1>7, <2>1, <2>2
<1>14. /\ info' \in [Samples -> Origin] /\ stops' \in [Samples -> Origin]
       /\ info'[s] \in {info[s], From(s, t + 1)} /\ stops'[s] \in {stops[s], From(s, t + 1)}
       /\ \A u \in Samples : u # s => info'[u] = info[u] /\ stops'[u] = stops[u]
  <2>1. info \in [Samples -> Origin] /\ stops \in [Samples -> Origin]
    BY DEF IInv, TypeOK
  <2>2. From(s, t + 1) \in Origin
    BY <1>1, SampleIsNatural DEF From, Origin
  <2>3. PICK i \in {info[s], From(s, t + 1)} : info' = [info EXCEPT ![s] = i]
    BY <1>5
  <2>4. PICK j \in {stops[s], From(s, t + 1)} : stops' = [stops EXCEPT ![s] = j]
    BY <1>5
  <2> HIDE DEF t
  <2> QED BY <2>1, <2>2, <2>3, <2>4
<1>15. /\ active' \in Seq(Samples) /\ Distinct(active')
       /\ Contains(active', s) <=> GoesOn(s)
       /\ \A u \in Samples : u # s => (Contains(active', u) <=> Contains(active, u))
  <2>1. active' = IF GoesOn(s) THEN active ELSE RemoveFirst(active, s)
    BY <1>5
  <2> QED BY <1>1, <2>1, RemoveFirstRemoves
<1>16. TypeOK'
  BY <1>6, <1>8, <1>9, <1>10, <1>11, <1>12, <1>13, <1>14, <1>15 DEF IInv, TypeOK, batchVars
<1>17. OwnInv'
  <2>1. ASSUME NEW u \in Samples PROVE Own(u)'
    <3>1. Own(u)
      BY DEF IInv, OwnInv
    <3>2. CASE u # s
      BY <1>6, <1>8, <1>9, <1>11, <1>12, <1>14, <3>1, <3>2 DEF Own
    <3>3. CASE u = s
      <4>1. \A k \in 0 .. turns[s] : k \in 0 .. turns'[s]
        BY <1>1, <1>11
      <4>2. t + 1 \in 0 .. turns'[s]
        BY <1>1, <1>11
      <4>3. /\ info'[s] \in {From(s, k) : k \in 0 .. turns'[s]}
            /\ stops'[s] \in {From(s, k) : k \in 0 .. turns'[s]} \cup {None}
        BY <1>14, <3>1, <3>3, <4>1, <4>2 DEF Own
      <4>4. over'[s] \in {0, turns'[s]}
        BY <1>11, <1>12
      <4> QED BY <1>8, <1>9, <3>3, <4>3, <4>4 DEF Own
    <3> QED BY <3>2, <3>3
  <2> QED BY <2>1 DEF OwnInv
<1>18. AsyncInv'
  <2>1. ASSUME NEW u \in Samples, u # s
        PROVE  IF Contains(active', u) THEN Runs(u)' ELSE Ended(u)'
    <3>1. IF Contains(active, u) THEN Runs(u) ELSE Ended(u)
      BY <1>1 DEF IInv, AsyncInv
    <3>2. (Runs(u) => Runs(u)') /\ (Ended(u) => Ended(u)')
      BY <1>6, <1>8, <1>9, <1>10, <1>11, <1>12, <1>13, <2>1 DEF Runs, Ended
    <3> QED BY <1>15, <2>1, <3>1, <3>2
  <2>2. ASSUME GoesOn(s) PROVE Runs(s)'
    <3>1. ~says.over /\ ~Overflows(length, obs) /\ t + 1 < MaxTurns
      BY <1>11, <1>13, <2>2 DEF GoesOn
    <3>2. len'[s] < MaxSeqLen /\ over'[s] = 0
      BY <1>10, <1>12, <3>1
    <3> QED BY <1>2, <1>6, <1>8, <1>9, <1>11, <3>1, <3>2 DEF Runs
  <2>3. ASSUME ~GoesOn(s) PROVE Ended(s)'
    <3>1. over'[s] = 0 => truncated'[s] \/ turns'[s] = MaxTurns
      <4>1. over'[s] = 0 => ~terminated'[s]
        BY <1>1, <1>12, <1>13
      <4>2. ~(turns'[s] < MaxTurns) => turns'[s] = MaxTurns
        <5> HIDE DEF t
        <5> QED BY <1>1, <1>2, <1>11
      <4> QED BY <2>3, <4>1, <4>2 DEF GoesOn
    <3>2. len'[s] = MaxSeqLen => truncated'[s]
      BY <1>10, <1>13
    <3> QED BY <1>2, <1>6, <1>8, <1>9, <1>11, <3>1, <3>2 DEF Ended
  <2>4. ASSUME NEW u \in Samples
        PROVE  IF Contains(active', u) THEN Runs(u)' ELSE Ended(u)'
    BY <1>15, <2>1, <2>2, <2>3
  <2> QED BY <1>1, <1>6, <2>4 DEF AsyncInv
<1> QED
  BY <1>1, <1>6, <1>16, <1>17, <1>18 DEF IInv

\* A coroutine the engine fails has counted its turn, and ends.
LEMMA FailureKeepsInv ==
  ASSUME IInv, NEW s \in Samples, GenerationFails(s)
  PROVE  IInv'
<1> USE RolloutAssumption
<1>1. /\ driver = "async" /\ place = "gather" /\ Contains(active, s)
      /\ active \in Seq(Samples) /\ Distinct(active)
      /\ Runs(s) /\ turns[s] \in Nat
  BY DEF GenerationFails, IInv, TypeOK, AsyncInv
<1>2. /\ failed' = [failed EXCEPT ![s] = TRUE]
      /\ turns' = [turns EXCEPT ![s] = @ + 1]
      /\ active' = RemoveFirst(active, s)
      /\ UNCHANGED <<driver, task, log, len, reward, info, stops, truncated, terminated, over,
                     place, batchVars>>
  BY DEF GenerationFails
<1>3. /\ turns' \in [Samples -> Nat] /\ turns'[s] = turns[s] + 1
      /\ failed' \in [Samples -> BOOLEAN] /\ failed'[s]
      /\ \A u \in Samples : u # s => turns'[u] = turns[u] /\ failed'[u] = failed[u]
  BY <1>1, <1>2 DEF IInv, TypeOK
<1>4. /\ active' \in Seq(Samples) /\ Distinct(active') /\ ~Contains(active', s)
      /\ \A u \in Samples : u # s => (Contains(active', u) <=> Contains(active, u))
  BY <1>1, <1>2, RemoveFirstRemoves
<1>5. TypeOK'
  BY <1>2, <1>3, <1>4 DEF IInv, TypeOK, batchVars
<1>6. OwnInv'
  <2>1. ASSUME NEW u \in Samples PROVE Own(u)'
    <3>1. Own(u)
      BY DEF IInv, OwnInv
    <3>2. CASE u # s
      BY <1>2, <1>3, <3>1, <3>2 DEF Own
    <3>3. CASE u = s
      <4>1. \A k \in 0 .. turns[s] : k \in 0 .. turns'[s]
        BY <1>1, <1>3
      <4> QED BY <1>2, <1>3, <3>1, <3>3, <4>1 DEF Own
    <3> QED BY <3>2, <3>3
  <2> QED BY <2>1 DEF OwnInv
<1>7. AsyncInv'
  <2>1. ASSUME NEW u \in Samples, u # s
        PROVE  IF Contains(active', u) THEN Runs(u)' ELSE Ended(u)'
    <3>1. IF Contains(active, u) THEN Runs(u) ELSE Ended(u)
      BY <1>1 DEF IInv, AsyncInv
    <3>2. (Runs(u) => Runs(u)') /\ (Ended(u) => Ended(u)')
      BY <1>2, <1>3, <2>1 DEF Runs, Ended
    <3> QED BY <1>4, <2>1, <3>1, <3>2
  <2>2. Ended(s)'
    BY <1>1, <1>2, <1>3 DEF Runs, Ended
  <2>3. ASSUME NEW u \in Samples
        PROVE  IF Contains(active', u) THEN Runs(u)' ELSE Ended(u)'
    BY <1>4, <2>1, <2>2
  <2> QED BY <1>1, <1>2, <2>3 DEF AsyncInv
<1> QED
  BY <1>1, <1>2, <1>5, <1>6, <1>7 DEF IInv

LEMMA NextKeepsInv == IInv /\ [Next]_vars => IInv'
<1> SUFFICES ASSUME IInv, [Next]_vars PROVE IInv'
  OBVIOUS
<1>1. CASE StartTurn \/ EndTurns \/ Raise
  BY <1>1, HeadKeepsInv
<1>2. CASE Generate
  BY <1>2, GenerateKeepsInv
<1>3. CASE Reward
  BY <1>3, RewardKeepsInv
<1>4. CASE Observe
  BY <1>4, ObserveKeepsInv
<1>5. CASE Compact
  BY <1>5, CompactKeepsInv
<1>6. CASE EnvironmentFails \/ Gathered
  BY <1>6, GatherKeepsInv
<1>7. ASSUME NEW s \in Samples, SampleTurn(s) PROVE IInv'
  BY <1>7, SampleTurnKeepsInv
<1>8. ASSUME NEW s \in Samples, GenerationFails(s) PROVE IInv'
  BY <1>8, FailureKeepsInv
<1>9. CASE UNCHANGED vars
  <2>1. UNCHANGED <<driver, task, log, len, reward, info, stops, turns, truncated, terminated,
                    failed, over, place, turn, row, active, answers, cut>>
    BY <1>9 DEF vars, samples
  <2>2. TypeOK'
    BY <2>1 DEF IInv, TypeOK
  <2>3. OwnInv'
    BY <2>1 DEF IInv, OwnInv, Own
  <2>4. BatchedInv' <=> BatchedInv
    BY <2>1 DEF BatchedInv, LoopInv, Counted, Decided, Left, InTurn, Answering, Replied,
                Rewarded, Observed
  <2>5. AsyncInv' <=> AsyncInv
    BY <2>1 DEF AsyncInv, Runs, Ended
  <2> QED BY <2>1, <2>2, <2>3, <2>4, <2>5 DEF IInv
<1> QED
  BY <1>1, <1>2, <1>3, <1>4, <1>5, <1>6, <1>7, <1>8, <1>9 DEF Next, Batched, Async

\* Every reachable state is one the invariant describes.
LEMMA IInvHolds == Spec => []IInv
BY InitInv, NextKeepsInv, PTL DEF Spec

------------------------------------------------------------------------------
(* The properties *)

\* What the invariant says of a sample between two turns.
LEMMA BetweenTurns ==
  ASSUME IInv, Between, NEW s \in Samples
  PROVE  /\ turns[s] \in Nat /\ len[s] \in 0 .. MaxSeqLen
         /\ Len(reward[s]) = Answered(s) /\ Len(log[s]) = 2 * Answered(s)
         /\ Contains(active, s) /\ Answered(s) > 0 => len[s] < MaxSeqLen
         /\ Contains(active, s) => ~failed[s]
         /\ len[s] = MaxSeqLen /\ Answered(s) > 0 => truncated[s]
         /\ place = "returned" /\ over[s] = 0 =>
               failed[s] \/ truncated[s] \/ turns[s] = MaxTurns
<1> USE RolloutAssumption
<1>1. /\ turns[s] \in Nat /\ len[s] \in 0 .. MaxSeqLen /\ turn \in 0 .. MaxTurns
      /\ active \in Seq(Samples) /\ driver \in {"batched", "async"}
  BY DEF IInv, TypeOK
<1>2. CASE driver = "batched"
  <2>1. /\ BatchedInv /\ LoopInv /\ ~failed[s] /\ Answered(s) = turns[s]
    BY <1>2 DEF IInv, BatchedInv, Between, Answered
  <2>2. CASE ~Contains(active, s)
    <3>1. Left(s)
      BY <1>2, <2>1, <2>2 DEF BatchedInv, Between
    <3> QED BY <1>1, <2>1, <2>2, <3>1 DEF Left
  <2>3. CASE Contains(active, s)
    <3>1. PICK i \in DOMAIN active : active[i] = s
      BY <1>1, <2>3, ContainsByIndex
    <3>2. /\ Counted(i) /\ Decided(i)
          /\ Observed(i) /\ Rewarded /\ Replied(i) /\ ~InTurn /\ ~Answering
      BY <1>2, <2>1, <3>1
         DEF BatchedInv, LoopInv, Between, Observed, Rewarded, Replied, InTurn, Answering
    <3>3. turns[s] = turn /\ Len(reward[s]) = turn /\ Len(log[s]) = turn + turn
      BY <3>1, <3>2 DEF Counted
    <3>4. turn > 0 => len[s] < MaxSeqLen
      BY <3>1, <3>2 DEF Decided
    <3>5. place = "returned" => turn = MaxTurns
      <4>1. active # <<>>
        BY <1>1, <3>1
      <4> QED BY <2>1, <4>1 DEF LoopInv
    <3> QED BY <1>1, <2>1, <2>3, <3>3, <3>4, <3>5
  <2> QED BY <2>2, <2>3
<1>3. CASE driver = "async"
  <2>1. AsyncInv
    BY <1>3 DEF IInv
  <2>2. CASE Contains(active, s)
    <3>1. Runs(s)
      BY <2>1, <2>2 DEF AsyncInv
    <3>2. place # "returned"
      BY <2>1, <2>2 DEF AsyncInv, Contains
    <3> QED BY <1>1, <2>2, <3>1, <3>2 DEF Runs, Answered
  <2>3. CASE ~Contains(active, s)
    <3>1. Ended(s)
      BY <2>1, <2>3 DEF AsyncInv
    <3>2. CASE failed[s]
      BY <1>1, <2>3, <3>1, <3>2 DEF Ended, Answered
    <3>3. CASE ~failed[s]
      BY <1>1, <2>3, <3>1, <3>3 DEF Ended, Answered
    <3> QED BY <3>2, <3>3
  <2> QED BY <2>2, <2>3
<1> QED
  BY <1>1, <1>2, <1>3

\* For any batch, tasks and limits: rewards, observations, metadata and stop strings
\* reach the sample whose response earned them, in both rollouts.
THEOREM ConversationsStayApart == Spec => []OwnConversation
<1>1. IInv => OwnConversation
  <2> SUFFICES ASSUME IInv PROVE OwnConversation
    OBVIOUS
  <2>1. ASSUME NEW s \in Samples PROVE Own(s)
    BY DEF IInv, OwnInv
  <2>2. ASSUME NEW s \in Samples, Between
        PROVE  Len(reward[s]) = Answered(s) /\ Len(log[s]) = 2 * Answered(s)
    BY <2>2, BetweenTurns
  <2> QED BY <2>1, <2>2 DEF OwnConversation, Own, OwnLog, OwnRewards
<1> QED
  BY <1>1, IInvHolds, PTL

\* For any limits: a sample that is to speak again has room for a token, and no
\* conversation outgrows max_seq_len.
THEOREM ThereIsRoomToGenerate == Spec => []RoomToGenerate
<1>1. IInv => RoomToGenerate
  <2> SUFFICES ASSUME IInv, NEW s \in Samples
               PROVE  /\ len[s] <= MaxSeqLen
                      /\ Contains(active, s) /\ place \in {"turn", "gather"} /\ turns[s] > 0 =>
                           len[s] < MaxSeqLen
    BY DEF RoomToGenerate
  <2>1. len[s] <= MaxSeqLen
    <3>1. len[s] \in 0 .. MaxSeqLen
      BY DEF IInv, TypeOK
    <3> QED BY <3>1, RolloutAssumption
  <2>2. ASSUME Contains(active, s), place \in {"turn", "gather"}, turns[s] > 0
        PROVE  len[s] < MaxSeqLen
    <3>1. Between
      BY <2>2 DEF Between
    <3>2. Answered(s) = turns[s]
      BY <2>2, <3>1, BetweenTurns DEF Answered
    <3> QED BY <2>2, <3>1, <3>2, BetweenTurns
  <2> QED BY <2>1, <2>2
<1> QED
  BY <1>1, IInvHolds, PTL

\* For any limits: an episode ends when its environment says so, and one that ends
\* otherwise has the limit or the failure that cut it off on record.
THEOREM EpisodesEndForAReason == Spec => []EndsForAReason
<1>1. IInv => EndsForAReason
  <2> SUFFICES ASSUME IInv, NEW s \in Samples
               PROVE  /\ over[s] \in {0, turns[s]} \/ failed[s]
                      /\ place = "returned" /\ over[s] = 0 =>
                           failed[s] \/ truncated[s] \/ turns[s] = MaxTurns
                      /\ Between /\ len[s] = MaxSeqLen /\ Answered(s) > 0 => truncated[s]
    BY DEF EndsForAReason
  <2>1. over[s] \in {0, turns[s]} \/ failed[s]
    BY DEF IInv, OwnInv, Own
  <2>2. place = "returned" => Between
    BY DEF Between
  <2> QED BY <2>1, <2>2, BetweenTurns
<1> QED
  BY <1>1, IInvHolds, PTL
=============================================================================
