------------------------- MODULE ReplayBufferProofs -------------------------
(***************************************************************************)
(* Proofs about the replay buffer, for buffers of any size, any age window *)
(* and any versions.                                                       *)
(*                                                                         *)
(* The operators first: sample pops positions of three lists one by one,   *)
(* from the last to the first, and what that leaves is what the lists held *)
(* at the other positions, in the same order.  Then the inductive          *)
(* invariant, which is that the lists are in step and in the order of      *)
(* arrival; each call, which is a call on the store of TrajectoryStore or  *)
(* leaves it alone; and the theorems.                                      *)
(***************************************************************************)
EXTENDS ReplayBuffer, FiniteSetTheorems, SequenceTheorems, TLAPS

------------------------------------------------------------------------------
(* Induction *)

\* A set of naturals that has a member has a least one.
LEMMA LeastNatural ==
  ASSUME NEW S \in SUBSET Nat, S # {}
  PROVE  \E n \in S : \A m \in S : n <= m
<1> DEFINE T == {0 .. n : n \in S}
           R == StrictSubsetOrdering(Nat)
<1>1. T \subseteq FiniteSubsetsOf(Nat)
  <2>1. ASSUME NEW n \in Nat PROVE IsFiniteSet(0 .. n)
    BY FS_Interval
  <2>2. ASSUME NEW n \in Nat PROVE 0 .. n \in SUBSET Nat
    OBVIOUS
  <2> QED BY <2>1, <2>2 DEF FiniteSubsetsOf
<1>2. T # {}
  OBVIOUS
<1>3. IsWellFoundedOn(R, FiniteSubsetsOf(Nat))
  BY FS_StrictSubsetOrderingWellFounded
<1>4. PICK x \in T : \A y \in T : ~(<<y, x>> \in R)
  <2> HIDE DEF T, R
  <2> QED BY <1>1, <1>2, <1>3, WFMin
<1>5. PICK n \in S : x = 0 .. n
  OBVIOUS
<1>6. ASSUME NEW m \in S, m < n PROVE FALSE
  <2>1. 0 .. m \subseteq 0 .. n /\ 0 .. m # 0 .. n
    <3>1. n \in 0 .. n /\ n \notin 0 .. m
      BY <1>6
    <3> QED BY <1>6, <3>1
  <2>2. <<0 .. m, x>> \in R
    BY <2>1, <1>5 DEF StrictSubsetOrdering
  <2> QED BY <1>4, <2>2
<1> QED
  BY <1>6

\* Induction, for a set of naturals.
LEMMA NaturalInduction ==
  ASSUME NEW S, 0 \in S, \A n \in Nat : n \in S => n + 1 \in S
  PROVE  \A n \in Nat : n \in S
<1> SUFFICES ASSUME NEW k \in Nat, k \notin S PROVE FALSE
  OBVIOUS
<1> DEFINE B == {n \in Nat : n \notin S}
<1>1. PICK n \in B : \A m \in B : n <= m
  <2> B \in SUBSET Nat /\ B # {} OBVIOUS
  <2> HIDE DEF B
  <2> QED BY LeastNatural
<1>2. n # 0 /\ n - 1 \in Nat /\ n - 1 \notin B
  BY <1>1
<1> QED BY <1>2

------------------------------------------------------------------------------
(* Popping positions one by one *)

\* A list without its element at x.
LEMMA RemoveAtIs ==
  ASSUME NEW N \in Nat, NEW s \in [1 .. N -> Nat], NEW x \in 1 .. N
  PROVE  RemoveAt(s, x) = [p \in 1 .. N - 1 |-> IF p < x THEN s[p] ELSE s[p + 1]]
<1> DEFINE a == SubSeq(s, 1, x - 1)
           b == SubSeq(s, x + 1, N)
           t == [p \in 1 .. N - 1 |-> IF p < x THEN s[p] ELSE s[p + 1]]
<1>1. s \in Seq(Nat) /\ Len(s) = N
  OBVIOUS
<1>2. /\ a \in Seq(Nat) /\ Len(a) = x - 1
      /\ \A p \in 1 .. x - 1 : a[p] = s[p]
  <2>1. a = [p \in 1 .. x - 1 |-> s[p]]
    BY <1>1
  <2>2. a \in Seq(Nat) /\ Len(a) = x - 1
    BY <1>1
  <2> HIDE DEF a
  <2> QED BY <2>1, <2>2
<1>3. /\ b \in Seq(Nat) /\ Len(b) = N - x
      /\ \A p \in 1 .. N - x : b[p] = s[x + p]
  <2>1. b = [p \in 1 .. N - x |-> s[x + p]]
    BY <1>1
  <2>2. b \in Seq(Nat) /\ Len(b) = N - x
    BY <1>1
  <2> HIDE DEF b
  <2> QED BY <2>1, <2>2
<1>4. /\ a \o b \in Seq(Nat)
      /\ Len(a \o b) = Len(a) + Len(b)
      /\ \A i \in 1 .. Len(a) + Len(b) :
            (a \o b)[i] = IF i <= Len(a) THEN a[i] ELSE b[i - Len(a)]
  <2> HIDE DEF a, b
  <2> QED BY <1>2, <1>3, ConcatProperties, Zenon
<1>5. a \o b = t
  <2> DEFINE c == a \o b
  <2>1. t \in Seq(Nat) /\ Len(t) = N - 1
    <3>1. t \in [1 .. N - 1 -> Nat]
      OBVIOUS
    <3> HIDE DEF t
    <3> QED BY <3>1
  <2>2. c \in Seq(Nat) /\ Len(c) = N - 1
    <3> HIDE DEF a, b
    <3> QED BY <1>2, <1>3, <1>4
  <2>3. ASSUME NEW i \in 1 .. N - 1 PROVE c[i] = t[i]
    <3>0. i \in 1 .. Len(a) + Len(b)
      <4> HIDE DEF a, b
      <4> QED BY <1>2, <1>3
    <3>1. c[i] = IF i <= Len(a) THEN a[i] ELSE b[i - Len(a)]
      <4> HIDE DEF a, b
      <4> QED BY <3>0, <1>4
    <3>2. CASE i < x
      <4>1. c[i] = a[i] /\ i \in 1 .. x - 1
        <5> HIDE DEF a, b, c
        <5> QED BY <3>1, <3>2, <1>2
      <4> HIDE DEF a, b, c
      <4> QED BY <4>1, <3>2, <1>2
    <3>3. CASE ~(i < x)
      <4>1. c[i] = b[i - (x - 1)] /\ i - (x - 1) \in 1 .. N - x
        <5> HIDE DEF a, b, c
        <5> QED BY <3>1, <3>3, <1>2
      <4>2. c[i] = s[x + (i - (x - 1))] /\ x + (i - (x - 1)) = i + 1
        <5> HIDE DEF a, b, c
        <5> QED BY <4>1, <1>3
      <4> HIDE DEF a, b, c
      <4> QED BY <4>2, <3>3
    <3> QED BY <3>2, <3>3
  <2>4. c = t
    <3> HIDE DEF c, t
    <3> QED BY <2>1, <2>2, <2>3, SeqEqual
  <2> QED BY <2>4
<1> QED
  <2>1. RemoveAt(s, x) = a \o b
    BY <1>1, Zenon DEF RemoveAt
  <2> HIDE DEF a, b
  <2> QED BY <2>1, <1>5

\* The fold takes the greatest index last.
LEMMA MaxOfTop ==
  ASSUME NEW m \in Nat, NEW s \in SUBSET (1 .. m + 1), m + 1 \in s
  PROVE  Max(s) = m + 1
<1>1. \A y \in s : m + 1 >= y
  OBVIOUS
<1>2. PICK x \in s : x = Max(s) /\ \A y \in s : x >= y
  BY <1>1 DEF Max
<1> QED
  BY <1>1, <1>2

Removed(list, pos) == FoldLeft(RemoveAt, list, pos)

\* acc[j] is the list when the first j of the k positions have been removed.
RemovedInTurn(acc, list, pos, k) ==
  /\ acc[0] = list
  /\ \A j \in 1 .. k : acc[j] = RemoveAt(acc[j - 1], pos[j])

\* A fold that removes positions removes one after the other.
LEMMA RemovedOneByOne ==
  ASSUME NEW k \in Nat, NEW pos, DOMAIN pos = 1 .. k, NEW list
  PROVE  \E acc : RemovedInTurn(acc, list, pos, k) /\ Removed(list, pos) = acc[k]
<1> DEFINE Value(f, s) ==
             IF s = {} THEN list ELSE RemoveAt(f[s \ {Max(s)}], pos[Max(s)])
           Folds(f, m) == f = [s \in SUBSET (1 .. m) |-> Value(f, s)]
           S == {m \in Nat : \E f : Folds(f, m)}
<1>1. 0 \in S
  <2> DEFINE f == [s \in SUBSET (1 .. 0) |-> list]
  <2>1. \A s \in SUBSET (1 .. 0) : s = {}
    OBVIOUS
  <2>2. f = [s \in SUBSET (1 .. 0) |-> Value(f, s)]
    <3>1. \A s \in SUBSET (1 .. 0) : Value(f, s) = list
      BY <2>1
    <3> HIDE DEF Value
    <3> QED BY <3>1
  <2> QED BY <2>2
<1>2. ASSUME NEW m \in Nat, m \in S PROVE m + 1 \in S
  <2>1. PICK f : Folds(f, m)
    BY <1>2
  <2> DEFINE g == [s \in SUBSET (1 .. m + 1) |->
                     IF m + 1 \in s THEN RemoveAt(f[s \ {m + 1}], pos[m + 1]) ELSE f[s]]
  <2>2. ASSUME NEW s \in SUBSET (1 .. m + 1) PROVE g[s] = Value(g, s)
    <3>1. CASE m + 1 \in s
      <4>1. Max(s) = m + 1 /\ s # {}
        BY <3>1, MaxOfTop
      <4>2. s \ {m + 1} \in SUBSET (1 .. m + 1) /\ m + 1 \notin s \ {m + 1}
        OBVIOUS
      <4>3. g[s \ {m + 1}] = f[s \ {m + 1}]
        BY <4>2
      <4>4. g[s] = RemoveAt(g[s \ {m + 1}], pos[m + 1])
        <5>1. g[s] = RemoveAt(f[s \ {m + 1}], pos[m + 1])
          BY <3>1
        <5> HIDE DEF g
        <5> QED BY <5>1, <4>3
      <4> HIDE DEF g
      <4> QED BY <4>1, <4>4
    <3>2. CASE m + 1 \notin s
      <4>1. s \in SUBSET (1 .. m) /\ g[s] = f[s]
        BY <3>2
      <4>2. f[s] = Value(f, s)
        <5> HIDE DEF Value
        <5> QED BY <2>1, <4>1
      <4>3. g[s \ {Max(s)}] = f[s \ {Max(s)}]
        <5>1. s \ {Max(s)} \in SUBSET (1 .. m + 1) /\ m + 1 \notin s \ {Max(s)}
          BY <3>2
        <5> QED BY <5>1
      <4> HIDE DEF g
      <4> QED BY <4>1, <4>2, <4>3
    <3> QED BY <3>1, <3>2
  <2>3. Folds(g, m + 1)
    <3>1. g = [s \in SUBSET (1 .. m + 1) |-> g[s]]
      OBVIOUS
    <3> HIDE DEF g, Value
    <3> QED BY <2>2, <3>1
  <2> HIDE DEF Folds, g
  <2> QED BY <2>3
<1>3. PICK F : F = [s \in SUBSET (1 .. k) |-> Value(F, s)]
  <2> HIDE DEF S
  <2>1. k \in S
    BY <1>1, <1>2, NaturalInduction
  <2> HIDE DEF Value
  <2> QED BY <2>1 DEF S
<1> DEFINE chosen == CHOOSE f : f = [s \in SUBSET (1 .. k) |-> Value(f, s)]
<1>4. Removed(list, pos) = chosen[1 .. k]
  BY DEF Removed, FoldLeft, MapThenFoldSet
<1>5. chosen = [s \in SUBSET (1 .. k) |-> Value(chosen, s)]
  <2> HIDE DEF Value
  <2> QED BY <1>3
<1> HIDE DEF chosen
<1> DEFINE acc == [j \in 0 .. k |-> chosen[1 .. j]]
<1>6. acc[0] = list
  <2>1. 1 .. 0 = {} /\ {} \in SUBSET (1 .. k) /\ 0 \in 0 .. k
    OBVIOUS
  <2>2. chosen[{}] = Value(chosen, {})
    <3> HIDE DEF Value
    <3> QED BY <1>5, <2>1
  <2> QED BY <2>1, <2>2
<1>7. ASSUME NEW j \in 1 .. k PROVE acc[j] = RemoveAt(acc[j - 1], pos[j])
  <2>0. j \in 1 .. j /\ j \in 0 .. k /\ j - 1 \in 0 .. k
    OBVIOUS
  <2>1. 1 .. j \in SUBSET (1 .. k) /\ 1 .. j # {} /\ j \in 0 .. k /\ j - 1 \in 0 .. k
    <3>1. 1 .. j \in SUBSET (1 .. k)
      OBVIOUS
    <3> QED BY <2>0, <3>1
  <2>2. Max(1 .. j) = j
    <3>1. j - 1 \in Nat /\ j - 1 + 1 = j /\ j \in 1 .. j
      OBVIOUS
    <3> QED BY <3>1, MaxOfTop
  <2>3. (1 .. j) \ {j} = 1 .. j - 1
    OBVIOUS
  <2>4. chosen[1 .. j] = Value(chosen, 1 .. j)
    <3> HIDE DEF Value
    <3> QED BY <1>5, <2>1
  <2>5. chosen[1 .. j] = RemoveAt(chosen[1 .. j - 1], pos[j])
    BY <2>1, <2>2, <2>3, <2>4
  <2> QED BY <2>1, <2>5
<1>8. acc[k] = chosen[1 .. k]
  OBVIOUS
<1> HIDE DEF acc
<1> QED
  BY <1>4, <1>6, <1>7, <1>8 DEF RemovedInTurn

\* A list of numbers in strictly ascending order.
Increasing(f) == \A p, q \in DOMAIN f : p < q => f[p] < f[q]

\* m takes the places of the j-th list to those of the first one: what is left
\* keeps its order, and what precedes the place lo its place.
Kept(m, n, j, gone, lo) ==
  /\ m \in [1 .. n - j -> 1 .. n]
  /\ Increasing(m)
  /\ Range(m) = (1 .. n) \ gone
  /\ \A q \in 1 .. n : q < lo => q <= n - j /\ m[q] = q

\* m when what stood at x is gone.
Skips(m, N, x) == [p \in 1 .. N - 1 |-> IF p < x THEN m[p] ELSE m[p + 1]]

\* One more position gone, below all that went before.
LEMMA OneMoreGone ==
  ASSUME NEW n \in Nat, NEW j \in Nat, j < n, NEW gone \in SUBSET (1 .. n),
         NEW lo \in Nat, NEW m, Kept(m, n, j, gone, lo),
         NEW x \in 1 .. n, x < lo
  PROVE  /\ x \in 1 .. n - j
         /\ Kept(Skips(m, n - j, x), n, j + 1, gone \cup {x}, x)
<1> DEFINE N == n - j
           s == Skips(m, N, x)
<1>1. N \in Nat /\ N - 1 \in Nat /\ n - (j + 1) = N - 1
  OBVIOUS
<1>2. x \in 1 .. N /\ m[x] = x
  BY DEF Kept
<1>3. m \in [1 .. N -> 1 .. n] /\ Increasing(m)
  BY DEF Kept
<1>4. s = [p \in 1 .. N - 1 |-> IF p < x THEN m[p] ELSE m[p + 1]]
  BY DEF Skips
<1> HIDE DEF N, s
<1>5. s \in [1 .. N - 1 -> 1 .. n]
  <2>1. ASSUME NEW p \in 1 .. N - 1 PROVE p \in 1 .. N /\ p + 1 \in 1 .. N
    BY <1>1
  <2> QED BY <1>3, <1>4, <2>1
<1>6. Increasing(s)
  <2>1. ASSUME NEW p \in 1 .. N - 1, NEW q \in 1 .. N - 1, p < q PROVE s[p] < s[q]
    <3>1. p \in 1 .. N /\ p + 1 \in 1 .. N /\ q \in 1 .. N /\ q + 1 \in 1 .. N
      BY <1>1
    <3>2. m[p] < m[q] /\ m[p] < m[q + 1] /\ m[p + 1] < m[q + 1]
      BY <1>3, <2>1, <3>1 DEF Increasing
    <3> QED BY <1>1, <1>4, <2>1, <3>1, <3>2
  <2> QED BY <1>5, <2>1 DEF Increasing
<1>7. Range(s) = (1 .. n) \ (gone \cup {x})
  <2>1. Range(m) = (1 .. n) \ gone
    BY DEF Kept
  <2>2. ASSUME NEW p \in 1 .. N - 1 PROVE s[p] \in Range(m) /\ s[p] # x
    <3>1. p \in 1 .. N /\ p + 1 \in 1 .. N
      BY <1>1
    <3>2. m[p] \in Range(m) /\ m[p + 1] \in Range(m)
      BY <1>3, <3>1 DEF Range
    <3>3. (p < x => m[p] < m[x]) /\ (~(p < x) => m[x] < m[p + 1])
      BY <1>1, <1>2, <1>3, <3>1 DEF Increasing
    <3>4. m[x] \in 1 .. n /\ m[p] \in 1 .. n /\ m[p + 1] \in 1 .. n
      BY <1>2, <1>3, <3>1
    <3> QED BY <1>2, <1>4, <3>2, <3>3, <3>4
  <2>3. ASSUME NEW y \in Range(m), y # x PROVE y \in Range(s)
    <3>1. PICK p \in 1 .. N : m[p] = y
      BY <1>3 DEF Range
    <3>2. CASE p < x
      <4>1. p \in 1 .. N - 1 /\ s[p] = y
        BY <1>1, <1>2, <1>4, <3>1, <3>2
      <4> QED BY <1>5, <4>1 DEF Range
    <3>3. CASE ~(p < x)
      <4>1. p # x
        BY <1>2, <2>3, <3>1
      <4>2. p - 1 \in 1 .. N - 1 /\ ~(p - 1 < x) /\ p - 1 + 1 = p
        BY <1>1, <1>2, <3>3, <4>1
      <4>3. s[p - 1] = y
        BY <1>4, <3>1, <4>2
      <4> QED BY <1>5, <4>2, <4>3 DEF Range
    <3> QED BY <3>2, <3>3
  <2>4. Range(s) = {s[p] : p \in 1 .. N - 1}
    BY <1>5 DEF Range
  <2> QED BY <2>1, <2>2, <2>3, <2>4
<1>8. ASSUME NEW q \in 1 .. n, q < x PROVE q <= N - 1 /\ s[q] = q
  <2>1. q \in 1 .. N - 1
    BY <1>1, <1>2, <1>8
  <2>2. m[q] = q
    BY <1>8 DEF Kept
  <2> QED BY <1>4, <1>8, <2>1, <2>2
<1>9. Kept(s, n, j + 1, gone \cup {x}, x)
  BY <1>1, <1>5, <1>6, <1>7, <1>8 DEF Kept
<1> QED
  BY <1>2, <1>9 DEF N, s

\* What is left of any list of n elements when k of them, at the positions
\* sel, are popped: those at the positions m, which are the others, in order.
Leaves(m, n, k, sel) ==
  /\ m \in [1 .. n - k -> 1 .. n]
  /\ Increasing(m)
  /\ Range(m) = (1 .. n) \ Range(sel)
  /\ \A list \in [1 .. n -> Nat] :
       Popped(list, sel) = [p \in 1 .. n - k |-> list[m[p]]]

\* Popping from the last to the first leaves the other positions, in order.
LEMMA PoppedKeepsTheRest ==
  ASSUME NEW n \in Nat, NEW k \in Nat, NEW sel \in [1 .. k -> 1 .. n], Increasing(sel)
  PROVE  k <= n /\ \E m : Leaves(m, n, k, sel)
<1> DEFINE pos == Reverse(sel)
           Gone(j) == {sel[i] : i \in k - j + 1 .. k}
           Lo(j) == IF j = 0 THEN n + 1 ELSE sel[k - j + 1]
           Stage(m, j) == /\ j <= n
                          /\ Kept(m, n, j, Gone(j), Lo(j))
                          /\ \A list \in [1 .. n -> Nat] : \A acc :
                               RemovedInTurn(acc, list, pos, k) =>
                                 acc[j] = [p \in 1 .. n - j |-> list[m[p]]]
           S == {j \in Nat : j <= k => \E m : Stage(m, j)}
<1>1. pos = [i \in 1 .. k |-> sel[k - i + 1]]
  <2>1. sel \in Seq(1 .. n) /\ Len(sel) = k
    OBVIOUS
  <2> QED BY <2>1 DEF Reverse
<1> HIDE DEF pos
<1>2. 0 \in S
  <2> DEFINE id == [p \in 1 .. n |-> p]
  <2>1. Gone(0) = {} /\ Lo(0) = n + 1 /\ n - 0 = n
    OBVIOUS
  <2>2. id \in [1 .. n -> 1 .. n] /\ Increasing(id) /\ Range(id) = 1 .. n
    BY DEF Increasing, Range
  <2>3. Kept(id, n, 0, {}, n + 1)
    BY <2>2 DEF Kept
  <2>4. ASSUME NEW list \in [1 .. n -> Nat], NEW acc, RemovedInTurn(acc, list, pos, k)
        PROVE  acc[0] = [p \in 1 .. n - 0 |-> list[id[p]]]
    BY <2>4 DEF RemovedInTurn
  <2>5. Stage(id, 0)
    <3>1. Kept(id, n, 0, Gone(0), Lo(0)) /\ 0 <= n
      <4>1. Kept(id, n, 0, Gone(0), Lo(0))
        <5> HIDE DEF id, Gone, Lo
        <5> QED BY <2>1, <2>3, Zenon
      <4> QED BY <4>1
    <3> HIDE DEF id, Gone, Lo
    <3> QED BY <2>4, <3>1
  <2> HIDE DEF Stage
  <2> QED BY <2>5
<1>3. ASSUME NEW j \in Nat, j \in S PROVE j + 1 \in S
  <2> SUFFICES ASSUME j + 1 <= k PROVE \E m : Stage(m, j + 1)
    <3> HIDE DEF Stage
    <3> QED OBVIOUS
  <2>1. PICK m : Stage(m, j)
    <3> HIDE DEF Stage
    <3> QED BY <1>3
  <2> DEFINE x == sel[k - j]
             N == n - j
             s == Skips(m, N, x)
  <2>2. k - j \in 1 .. k /\ x \in 1 .. n /\ j + 1 \in 1 .. k
    OBVIOUS
  <2>3. x < Lo(j) /\ Lo(j) \in Nat
    <3>1. CASE j = 0
      BY <2>2, <3>1
    <3>2. CASE j # 0
      <4>1. k - j + 1 \in 1 .. k /\ k - j < k - j + 1
        BY <3>2
      <4>2. sel[k - j] < sel[k - j + 1]
        BY <2>2, <4>1 DEF Increasing
      <4> QED BY <3>2, <4>1, <4>2
    <3> QED BY <3>1, <3>2
  <2>4. Gone(j) \in SUBSET (1 .. n)
    OBVIOUS
  <2>5. Gone(j + 1) = Gone(j) \cup {x} /\ Lo(j + 1) = x
    <3>1. k - (j + 1) + 1 .. k = (k - j + 1 .. k) \cup {k - j}
      BY <2>2
    <3>2. k - (j + 1) + 1 = k - j /\ j + 1 # 0
      OBVIOUS
    <3> QED BY <3>1, <3>2
  <2>6. Kept(m, n, j, Gone(j), Lo(j)) /\ j <= n
    <3> HIDE DEF Gone, Lo
    <3> QED BY <2>1
  <2>7. j < n
    <3>1. x <= n - j
      <4> HIDE DEF x, Gone, Lo
      <4> QED BY <2>2, <2>3, <2>6 DEF Kept
    <3> HIDE DEF x
    <3> QED BY <2>2, <3>1
  <2>8. x \in 1 .. N /\ Kept(s, n, j + 1, Gone(j + 1), x)
    <3>1. Kept(m, n, j, Gone(j), Lo(j)) /\ j < n /\ x \in 1 .. n /\ x < Lo(j)
             /\ Lo(j) \in Nat /\ Gone(j) \in SUBSET (1 .. n)
      BY <2>2, <2>3, <2>4, <2>6, <2>7
    <3> HIDE DEF x, Gone, Lo
    <3>2. x \in 1 .. N /\ Kept(s, n, j + 1, Gone(j) \cup {x}, x)
      BY <3>1, OneMoreGone, Zenon
    <3> QED BY <2>5, <3>2
  <2>9. ASSUME NEW list \in [1 .. n -> Nat], NEW acc, RemovedInTurn(acc, list, pos, k)
        PROVE  acc[j + 1] = [p \in 1 .. n - (j + 1) |-> list[s[p]]]
    <3> DEFINE l == [p \in 1 .. N |-> list[m[p]]]
    <3>1. acc[j] = l
      <4> HIDE DEF Gone, Lo
      <4> QED BY <2>1, <2>9
    <3>2. acc[j + 1] = RemoveAt(acc[j], x)
      <4>1. acc[j + 1] = RemoveAt(acc[j + 1 - 1], pos[j + 1])
        BY <2>2, <2>9 DEF RemovedInTurn
      <4>2. j + 1 - 1 = j /\ pos[j + 1] = x
        <5>1. k - (j + 1) + 1 = k - j
          OBVIOUS
        <5> QED BY <1>1, <2>2, <5>1
      <4> HIDE DEF x
      <4> QED BY <4>1, <4>2
    <3>3. m \in [1 .. N -> 1 .. n] /\ N \in Nat
      BY <2>6, <2>7 DEF Kept
    <3>4. l \in [1 .. N -> Nat]
      BY <3>3
    <3>5. RemoveAt(l, x) = [p \in 1 .. N - 1 |-> IF p < x THEN l[p] ELSE l[p + 1]]
      <4> HIDE DEF l, x, N
      <4> QED BY <2>8, <3>3, <3>4, RemoveAtIs
    <3>6. ASSUME NEW p \in 1 .. N - 1
          PROVE  (IF p < x THEN l[p] ELSE l[p + 1]) = list[s[p]]
      <4>1. p \in 1 .. N /\ p + 1 \in 1 .. N
        BY <3>3
      <4>2. s[p] = IF p < x THEN m[p] ELSE m[p + 1]
        <5> HIDE DEF x, N
        <5> QED BY DEF Skips
      <4> HIDE DEF x, N, s
      <4> QED BY <4>1, <4>2
    <3>7. n - (j + 1) = N - 1
      OBVIOUS
    <3> HIDE DEF l, x, N, s
    <3> QED BY <3>1, <3>2, <3>5, <3>6, <3>7
  <2>10. Stage(s, j + 1)
    <3>1. j + 1 <= n
      BY <2>7
    <3> HIDE DEF s, x, Gone, Lo
    <3> QED BY <2>5, <2>8, <2>9, <3>1
  <2> HIDE DEF Stage, s
  <2> QED BY <2>10
<1>4. PICK m : Stage(m, k)
  <2>1. k \in S
    <3> HIDE DEF S
    <3> QED BY <1>2, <1>3, NaturalInduction
  <2> HIDE DEF Stage
  <2> QED BY <2>1
<1>5. Gone(k) = Range(sel)
  <2>1. k - k + 1 = 1
    OBVIOUS
  <2> QED BY <2>1 DEF Range
<1>6. /\ m \in [1 .. n - k -> 1 .. n] /\ Increasing(m) /\ k <= n
      /\ Range(m) = (1 .. n) \ Range(sel)
  <2> HIDE DEF Gone, Lo
  <2> QED BY <1>4, <1>5 DEF Kept
<1>7. ASSUME NEW list \in [1 .. n -> Nat]
      PROVE  Popped(list, sel) = [p \in 1 .. n - k |-> list[m[p]]]
  <2>1. DOMAIN pos = 1 .. k
    BY <1>1
  <2>2. PICK acc : RemovedInTurn(acc, list, pos, k) /\ Removed(list, pos) = acc[k]
    <3>1. k \in Nat
      OBVIOUS
    <3> QED BY <2>1, <3>1, RemovedOneByOne, Zenon
  <2>3. acc[k] = [p \in 1 .. n - k |-> list[m[p]]]
    <3> HIDE DEF Gone, Lo
    <3> QED BY <1>4, <2>2
  <2> QED BY <2>2, <2>3 DEF Popped, Removed, pos
<1>8. Leaves(m, n, k, sel)
  BY <1>6, <1>7 DEF Leaves
<1> HIDE DEF S, pos
<1> QED
  BY <1>6, <1>8

------------------------------------------------------------------------------
(* The positions in ascending order *)

\* How many of S lie below i.
Below(S, i) == Cardinality({j \in S : j < i})

\* Ascending(S) enumerates S, and r of them lie below the one at r + 1.
LEMMA AscendingEnumerates ==
  ASSUME NEW S \in SUBSET Nat, IsFiniteSet(S)
  PROVE  /\ Cardinality(S) \in Nat
         /\ Ascending(S) \in [1 .. Cardinality(S) -> S]
         /\ Increasing(Ascending(S))
         /\ Range(Ascending(S)) = S
         /\ \A r \in 1 .. Cardinality(S) : Below(S, Ascending(S)[r]) = r - 1
<1> DEFINE c == Cardinality(S)
           B(i) == {j \in S : j < i}
           f == [i \in S |-> Below(S, i) + 1]
           a == Ascending(S)
<1>1. c \in Nat /\ IsFiniteSet(1 .. c) /\ Cardinality(1 .. c) = c
  BY FS_CardinalityType, FS_Interval
<1>2. ASSUME NEW i \in S PROVE Below(S, i) \in Nat /\ Below(S, i) + 1 \in 1 .. c
  <2>1. B(i) \subseteq S \ {i}
    OBVIOUS
  <2>2. IsFiniteSet(S \ {i}) /\ Cardinality(S \ {i}) = c - 1
    BY FS_RemoveElement
  <2>3. IsFiniteSet(B(i)) /\ Cardinality(B(i)) <= Cardinality(S \ {i})
    <3> HIDE DEF B
    <3> QED BY <2>1, <2>2, FS_Subset
  <2>4. Cardinality(B(i)) \in Nat
    BY <2>3, FS_CardinalityType
  <2>5. Below(S, i) = Cardinality(B(i))
    BY DEF Below
  <2> HIDE DEF B, c
  <2> QED BY <1>1, <2>2, <2>3, <2>4, <2>5
<1>3. ASSUME NEW i \in S, NEW j \in S, i < j PROVE Below(S, i) < Below(S, j)
  <2>0. i \in Nat /\ j \in Nat /\ \A l \in S : l \in Nat
    OBVIOUS
  <2>1. B(i) \subseteq B(j) /\ i \in B(j) /\ i \notin B(i)
    <3>1. ASSUME NEW l \in S, l < i PROVE l < j
      <4>1. l \in Nat
        BY <2>0
      <4> QED BY <1>3, <2>0, <3>1, <4>1
    <3>2. i \in B(j) /\ i \notin B(i)
      BY <1>3, <2>0
    <3> QED BY <3>1, <3>2
  <2>2. IsFiniteSet(B(i)) /\ IsFiniteSet(B(j))
    BY FS_Subset
  <2>3. Cardinality(B(i)) <= Cardinality(B(j)) /\ Cardinality(B(i)) # Cardinality(B(j))
    <3> HIDE DEF B
    <3> QED BY <2>1, <2>2, FS_Subset
  <2>4. Cardinality(B(i)) \in Nat /\ Cardinality(B(j)) \in Nat
    BY <2>2, FS_CardinalityType
  <2>5. Below(S, i) = Cardinality(B(i)) /\ Below(S, j) = Cardinality(B(j))
    BY DEF Below
  <2> HIDE DEF B
  <2> QED BY <2>3, <2>4, <2>5
<1>4. f \in Injection(S, 1 .. c)
  <2>1. f \in [S -> 1 .. c]
    BY <1>2
  <2>2. ASSUME NEW i \in S, NEW j \in S, i # j PROVE f[i] # f[j]
    <3>1. Below(S, i) < Below(S, j) \/ Below(S, j) < Below(S, i)
      BY <1>3, <2>2
    <3>2. f[i] = Below(S, i) + 1 /\ f[j] = Below(S, j) + 1
      OBVIOUS
    <3> HIDE DEF f
    <3> QED BY <1>2, <3>1, <3>2
  <2> HIDE DEF f
  <2> QED BY <2>1, <2>2 DEF Injection, IsInjective
<1>5. \A p \in 1 .. c : \E i \in S : f[i] = p
  <2> HIDE DEF f, c
  <2>1. f \in Surjection(S, 1 .. c)
    BY <1>1, <1>4, FS_Injection DEF c
  <2> QED BY <2>1 DEF Surjection
<1>6. a = [r \in 1 .. c |-> CHOOSE i \in S : Below(S, i) = r - 1]
  BY DEF Ascending, Below
<1>7. ASSUME NEW r \in 1 .. c PROVE a[r] \in S /\ Below(S, a[r]) = r - 1
  <2>1. PICK i \in S : f[i] = r
    BY <1>5
  <2>2. f[i] = Below(S, i) + 1
    OBVIOUS
  <2>3. Below(S, i) = r - 1
    <3> HIDE DEF f
    <3> QED BY <1>2, <2>1, <2>2
  <2>4. a[r] = CHOOSE j \in S : Below(S, j) = r - 1
    <3> HIDE DEF a
    <3> QED BY <1>6
  <2> HIDE DEF a
  <2> QED BY <2>3, <2>4
<1>8. a \in [1 .. c -> S]
  <2> HIDE DEF a
  <2> QED BY <1>6, <1>7
<1>9. Increasing(a)
  <2>1. ASSUME NEW p \in 1 .. c, NEW q \in 1 .. c, p < q PROVE a[p] < a[q]
    <3>1. a[p] \in S /\ a[q] \in S /\ Below(S, a[p]) = p - 1 /\ Below(S, a[q]) = q - 1
      <4> HIDE DEF a
      <4> QED BY <1>7
    <3>2. a[p] # a[q] /\ ~(a[q] < a[p])
      <4>1. a[p] # a[q]
        <5> HIDE DEF a, c
        <5> QED BY <2>1, <3>1
      <4>2. a[q] < a[p] => Below(S, a[q]) < Below(S, a[p])
        <5> HIDE DEF a, c
        <5> QED BY <1>3, <3>1
      <4> HIDE DEF a, c
      <4> QED BY <2>1, <3>1, <4>1, <4>2
    <3>3. a[p] \in Nat /\ a[q] \in Nat
      <4> HIDE DEF a, c
      <4> QED BY <3>1
    <3> HIDE DEF a, c
    <3> QED BY <3>2, <3>3
  <2> HIDE DEF a
  <2> QED BY <1>8, <2>1 DEF Increasing
<1>10. Range(a) = S
  <2>1. ASSUME NEW i \in S PROVE i \in Range(a)
    <3> DEFINE r == Below(S, i) + 1
    <3>1. r \in 1 .. c /\ Below(S, i) = r - 1
      BY <1>2
    <3>2. a[r] \in S /\ Below(S, a[r]) = Below(S, i)
      <4> HIDE DEF a, r
      <4> QED BY <1>7, <3>1
    <3>3. a[r] = i
      <4>1. a[r] < i => Below(S, a[r]) < Below(S, i)
        <5> HIDE DEF a, r
        <5> QED BY <1>3, <3>2
      <4>2. i < a[r] => Below(S, i) < Below(S, a[r])
        <5> HIDE DEF a, r
        <5> QED BY <1>3, <3>2
      <4>3. a[r] \in Nat /\ i \in Nat /\ Below(S, i) \in Nat
        <5> HIDE DEF a, r
        <5> QED BY <1>2, <3>2
      <4> HIDE DEF a, r
      <4> QED BY <3>2, <4>1, <4>2, <4>3
    <3> HIDE DEF a, r
    <3> QED BY <1>8, <3>1, <3>3 DEF Range
  <2> HIDE DEF a
  <2> QED BY <1>8, <2>1 DEF Range
<1> HIDE DEF a
<1> QED
  BY <1>1, <1>7, <1>8, <1>9, <1>10 DEF a

\* The first k of them are those that have fewer than k below.
LEMMA FirstOfAscending ==
  ASSUME NEW S \in SUBSET Nat, IsFiniteSet(S), NEW k \in Nat, k <= Cardinality(S)
  PROVE  LET first == SubSeq(Ascending(S), 1, k) IN
         /\ first \in [1 .. k -> S]
         /\ Increasing(first)
         /\ Range(first) = {i \in S : Below(S, i) < k}
<1> DEFINE c == Cardinality(S)
           a == Ascending(S)
           first == SubSeq(a, 1, k)
<1>1. /\ c \in Nat
      /\ a \in [1 .. c -> S]
      /\ Increasing(a)
      /\ Range(a) = S
      /\ \A r \in 1 .. c : Below(S, a[r]) = r - 1
  BY AscendingEnumerates
<1> HIDE DEF a, c
<1>2. first = [r \in 1 .. k |-> a[r]]
  <2>1. a \in Seq(S) /\ Len(a) = c
    BY <1>1
  <2> QED BY <2>1
<1> HIDE DEF first
<1>3. \A r \in 1 .. k : r \in 1 .. c
  BY <1>1 DEF c
<1>4. first \in [1 .. k -> S]
  BY <1>1, <1>2, <1>3
<1>5. Increasing(first)
  <2>1. ASSUME NEW p \in 1 .. k, NEW q \in 1 .. k, p < q PROVE first[p] < first[q]
    BY <1>1, <1>2, <1>3, <2>1 DEF Increasing
  <2> QED BY <1>4, <2>1 DEF Increasing
<1>6. Range(first) = {i \in S : Below(S, i) < k}
  <2>1. ASSUME NEW r \in 1 .. k PROVE first[r] \in S /\ Below(S, first[r]) < k
    BY <1>1, <1>2, <1>3
  <2>2. ASSUME NEW i \in S, Below(S, i) < k PROVE i \in Range(first)
    <3>1. PICK r \in 1 .. c : a[r] = i
      BY <1>1 DEF Range
    <3>2. r \in 1 .. k
      BY <1>1, <2>2, <3>1
    <3> QED BY <1>2, <1>4, <3>1, <3>2 DEF Range
  <2> QED BY <1>4, <2>1, <2>2 DEF Range
<1> QED
  BY <1>4, <1>5, <1>6 DEF first, a

------------------------------------------------------------------------------
(* The lists and the store *)

\* The instance of the store counts as the standard module does.
LEMMA StoreCounts ==
  ASSUME NEW S
  PROVE  Store!Cardinality(S) = Cardinality(S)
BY DEF Store!Cardinality, Cardinality

\* What is stored at a position.
Stored(i) ==
  [n |-> trajectories[i], ver |-> trajectory_versions[i], tgt |-> target_weight_versions[i]]

\* The three lists are in step, and in the order of arrival.
ListsInStep ==
  /\ Len(trajectory_versions) = Len(trajectories)
  /\ Len(target_weight_versions) = Len(trajectories)
  /\ Increasing(trajectories)
  /\ \A i \in DOMAIN trajectories : trajectories[i] < pushed

\* The inductive invariant.
BufferInv == BufferTypeOK /\ ListsInStep

\* The lists as functions on the same positions.
LEMMA ListsAreFunctions ==
  ASSUME BufferInv
  PROVE  LET N == Len(trajectories) IN
         /\ N \in Nat /\ DOMAIN trajectories = 1 .. N
         /\ trajectories \in [1 .. N -> Nat]
         /\ trajectory_versions \in [1 .. N -> Nat]
         /\ target_weight_versions \in [1 .. N -> Nat]
         /\ trajectory_versions \in [1 .. N -> Versions]
         /\ target_weight_versions \in [1 .. N -> Versions]
         /\ pushed \in Nat
<1>1. trajectories \in Seq(Nat) /\ trajectory_versions \in Seq(Versions)
         /\ target_weight_versions \in Seq(Versions) /\ pushed \in Nat
  BY BufferAssumption DEF BufferInv, BufferTypeOK
<1>2. Len(trajectory_versions) = Len(trajectories)
         /\ Len(target_weight_versions) = Len(trajectories)
  BY DEF BufferInv, ListsInStep
<1>3. Versions \subseteq Nat
  BY BufferAssumption
<1>4. Len(trajectories) \in Nat /\ DOMAIN trajectories = 1 .. Len(trajectories)
         /\ trajectories \in [1 .. Len(trajectories) -> Nat]
  BY <1>1
<1>5. trajectory_versions \in [1 .. Len(trajectories) -> Versions]
         /\ target_weight_versions \in [1 .. Len(trajectories) -> Versions]
  BY <1>1, <1>2
<1>6. trajectory_versions \in [1 .. Len(trajectories) -> Nat]
         /\ target_weight_versions \in [1 .. Len(trajectories) -> Nat]
  BY <1>3, <1>5
<1> QED
  BY <1>1, <1>4, <1>5, <1>6

\* No two positions hold the same group.
LEMMA StoredApart ==
  ASSUME BufferInv, NEW i \in 1 .. Len(trajectories), NEW j \in 1 .. Len(trajectories),
         Stored(i) = Stored(j)
  PROVE  i = j
<1>1. trajectories[i] = trajectories[j]
  BY DEF Stored
<1>2. i \in DOMAIN trajectories /\ j \in DOMAIN trajectories /\ Len(trajectories) \in Nat
         /\ trajectories[i] \in Nat /\ trajectories[j] \in Nat
  BY ListsAreFunctions
<1>3. i < j => trajectories[i] < trajectories[j]
  BY <1>2 DEF BufferInv, ListsInStep, Increasing
<1>4. j < i => trajectories[j] < trajectories[i]
  BY <1>2 DEF BufferInv, ListsInStep, Increasing
<1> QED
  BY <1>1, <1>2, <1>3, <1>4

\* A set of positions holds as many groups as it has members.
LEMMA StoredCount ==
  ASSUME BufferInv, NEW I \in SUBSET (1 .. Len(trajectories))
  PROVE  /\ IsFiniteSet(I) /\ Cardinality(I) \in Nat
         /\ Cardinality({Stored(i) : i \in I}) = Cardinality(I)
<1> DEFINE f == [i \in I |-> Stored(i)]
           T == {Stored(i) : i \in I}
<1>1. IsFiniteSet(I) /\ Cardinality(I) \in Nat
  <2>1. Len(trajectories) \in Nat
    BY ListsAreFunctions
  <2>2. IsFiniteSet(1 .. Len(trajectories))
    BY <2>1, FS_Interval
  <2> QED BY <2>2, FS_Subset, FS_CardinalityType
<1>2. \A i, j \in I : f[i] = f[j] => i = j
  BY StoredApart
<1>3. f \in [I -> T] /\ \A t \in T : \E i \in I : f[i] = t
  OBVIOUS
<1>4. f \in Bijection(I, T)
  <2> HIDE DEF f, T
  <2> QED BY <1>2, <1>3 DEF Bijection, Injection, Surjection, IsInjective
<1>5. Cardinality(T) = Cardinality(I)
  <2> HIDE DEF f, T
  <2> QED BY <1>1, <1>4, FS_Bijection DEF ExistsBijection
<1> QED
  BY <1>1, <1>5

\* The store holds what is stored at the positions.
LEMMA ZippedIs ==
  ASSUME BufferInv
  PROVE  Zipped = {Stored(i) : i \in 1 .. Len(trajectories)}
<1>1. DOMAIN trajectories = 1 .. Len(trajectories)
  BY ListsAreFunctions
<1> QED
  BY <1>1 DEF Zipped, Stored

\* There are n numbers from 1 to n.
LEMMA CountTo ==
  ASSUME NEW n \in Nat
  PROVE  Cardinality(1 .. n) = n
<1>1. Cardinality(1 .. n) = IF 1 > n THEN 0 ELSE n - 1 + 1
  BY FS_Interval
<1> QED
  BY <1>1

\* The store is full when the lists are.
LEMMA FullMeans ==
  ASSUME BufferInv
  PROVE  Store!Full <=> Len(trajectories) >= MaxSize
<1>1. Cardinality(1 .. Len(trajectories)) = Len(trajectories)
  <2>1. Len(trajectories) \in Nat
    BY ListsAreFunctions
  <2> QED BY <2>1, CountTo, Zenon
<1>2. Cardinality(Zipped) = Len(trajectories)
  <2>1. 1 .. Len(trajectories) \in SUBSET (1 .. Len(trajectories))
    OBVIOUS
  <2>2. Cardinality({Stored(i) : i \in 1 .. Len(trajectories)})
          = Cardinality(1 .. Len(trajectories))
    BY <2>1, StoredCount, Zenon
  <2> QED BY <1>1, <2>2, ZippedIs
<1> QED
  BY <1>2, StoreCounts DEF Store!Full

\* The positions from which sample selects.
Meant(current) == {i \in ValidIndices(current) : target_weight_versions[i] = current}

\* The window and the groups meant for a step, in positions and in groups.
LEMMA WindowMeans ==
  ASSUME BufferInv, NEW current \in Versions
  PROVE  /\ MinValid(current) = Store!MinValidVersion(current, MaxAge)
         /\ Store!TooOld(current, MaxAge) = {Stored(i) : i \in Old(current)}
         /\ Store!Intended(current, MaxAge) = {Stored(i) : i \in Meant(current)}
         /\ Old(current) \in SUBSET (1 .. Len(trajectories))
         /\ Meant(current) \in SUBSET ValidIndices(current)
         /\ ValidIndices(current) \in SUBSET (1 .. Len(trajectories))
<1>1. current \in Nat /\ MaxAge \in Nat
  BY BufferAssumption
<1>2. MinValid(current) = Store!MinValidVersion(current, MaxAge)
  BY <1>1 DEF MinValid, Store!MinValidVersion
<1>3. DOMAIN trajectories = 1 .. Len(trajectories)
  BY ListsAreFunctions
<1>4. \A i : /\ Stored(i).n = trajectories[i]
             /\ Stored(i).ver = trajectory_versions[i]
             /\ Stored(i).tgt = target_weight_versions[i]
  BY DEF Stored
<1>5. Store!TooOld(current, MaxAge) = {Stored(i) : i \in Old(current)}
  <2>1. Store!TooOld(current, MaxAge) = {g \in Zipped : g.ver < MinValid(current)}
    BY <1>2 DEF Store!TooOld
  <2> QED BY <1>3, <1>4, <2>1, ZippedIs DEF Old
<1>6. Store!Intended(current, MaxAge) = {Stored(i) : i \in Meant(current)}
  <2>1. Store!Intended(current, MaxAge)
          = {g \in Zipped : MinValid(current) <= g.ver /\ g.ver <= current /\ g.tgt = current}
    BY <1>2 DEF Store!Intended
  <2>2. ASSUME NEW i
        PROVE  i \in Meant(current) <=>
                 /\ i \in 1 .. Len(trajectories)
                 /\ MinValid(current) <= Stored(i).ver
                 /\ Stored(i).ver <= current
                 /\ Stored(i).tgt = current
    BY <1>3, <1>4 DEF Meant, ValidIndices
  <2> QED BY <2>1, <2>2, ZippedIs
<1> QED
  BY <1>2, <1>3, <1>5, <1>6 DEF Old, Meant, ValidIndices

\* The k earliest records of the store are those of the first k positions.
LEMMA EarliestMeans ==
  ASSUME BufferInv, NEW I \in SUBSET (1 .. Len(trajectories)), NEW k \in Nat
  PROVE  Store!Earliest({Stored(i) : i \in I}, k)
           = {Stored(i) : i \in {j \in I : Below(I, j) < k}}
<1> DEFINE R == {Stored(i) : i \in I}
           Lower(g) == {h \in R : h.n < g.n}
<1>1. ASSUME NEW i \in I PROVE Cardinality(Lower(Stored(i))) = Below(I, i)
  <2>1. Lower(Stored(i)) = {Stored(j) : j \in {l \in I : l < i}}
    <3>1. ASSUME NEW j \in I PROVE Stored(j).n < Stored(i).n <=> j < i
      <4>1. Stored(j).n = trajectories[j] /\ Stored(i).n = trajectories[i]
        BY DEF Stored
      <4>2. i \in DOMAIN trajectories /\ j \in DOMAIN trajectories
               /\ trajectories[i] \in Nat /\ trajectories[j] \in Nat
               /\ i \in Nat /\ j \in Nat
        <5>1. i \in 1 .. Len(trajectories) /\ j \in 1 .. Len(trajectories)
          OBVIOUS
        <5>2. /\ Len(trajectories) \in Nat /\ DOMAIN trajectories = 1 .. Len(trajectories)
              /\ trajectories \in [1 .. Len(trajectories) -> Nat]
          BY ListsAreFunctions
        <5> QED BY <5>1, <5>2
      <4>3. i < j => trajectories[i] < trajectories[j]
        BY <4>2 DEF BufferInv, ListsInStep, Increasing
      <4>4. j < i => trajectories[j] < trajectories[i]
        BY <4>2 DEF BufferInv, ListsInStep, Increasing
      <4> QED BY <4>1, <4>2, <4>3, <4>4
    <3> QED BY <3>1
  <2>2. {l \in I : l < i} \in SUBSET (1 .. Len(trajectories))
    OBVIOUS
  <2>3. Cardinality({Stored(j) : j \in {l \in I : l < i}}) = Cardinality({l \in I : l < i})
    BY <2>2, StoredCount, Zenon
  <2> HIDE DEF Lower
  <2> QED BY <2>1, <2>3 DEF Below
<1>2. Store!Earliest(R, k) = {g \in R : Cardinality(Lower(g)) < k}
  BY StoreCounts DEF Store!Earliest
<1> HIDE DEF Lower
<1> QED
  BY <1>1, <1>2

\* sample pops the positions sel, and leaves the positions m.
Sampled(sel, m, current, k) ==
  LET N == Len(trajectories) IN
  /\ k <= N
  /\ sel \in [1 .. k -> 1 .. N]
  /\ Increasing(sel)
  /\ Store!Earliest(Store!Intended(current, MaxAge), k) = {Stored(i) : i \in Range(sel)}
  /\ answer' = Answer("sample", [current |-> current, k |-> k], "groups",
                      [i \in 1 .. k |-> trajectories[sel[i]]])
  /\ m \in [1 .. N - k -> 1 .. N]
  /\ Increasing(m)
  /\ Range(m) = (1 .. N) \ Range(sel)
  /\ trajectories' = [p \in 1 .. N - k |-> trajectories[m[p]]]
  /\ trajectory_versions' = [p \in 1 .. N - k |-> trajectory_versions[m[p]]]
  /\ target_weight_versions' = [p \in 1 .. N - k |-> target_weight_versions[m[p]]]

\* What SampleGroups selects are the earliest k groups of the store.
LEMMA SampleTakesTheEarliest ==
  ASSUME BufferInv, NEW current \in Versions, NEW k \in Versions \ {0},
         SampleGroups(current, k)
  PROVE  /\ Store!SampleReady(current, MaxAge, k)
         /\ \E sel, m : Sampled(sel, m, current, k)
<1> DEFINE N == Len(trajectories)
           M == Meant(current)
           sel == Selected(current, k)
           take == Store!Earliest(Store!Intended(current, MaxAge), k)
<1>0. /\ N \in Nat
      /\ trajectories \in [1 .. N -> Nat]
      /\ trajectory_versions \in [1 .. N -> Nat]
      /\ target_weight_versions \in [1 .. N -> Nat]
      /\ k \in Nat
  BY ListsAreFunctions, BufferAssumption
<1>1. /\ M \in SUBSET (1 .. N) /\ M \in SUBSET Nat /\ IsFiniteSet(M) /\ Cardinality(M) \in Nat
      /\ Cardinality({Stored(i) : i \in M}) = Cardinality(M)
  <2>1. M \in SUBSET (1 .. N)
    <3> HIDE DEF M, N
    <3> QED BY WindowMeans DEF M, N
  <2>2. M \in SUBSET Nat
    <3> HIDE DEF M, N
    <3> QED BY <1>0, <2>1
  <2> HIDE DEF M
  <2> QED BY <2>1, <2>2, StoredCount
<1>2. sel = SubSeq(Ascending(M), 1, k)
  BY DEF Selected, IntendedIndices, Meant
<1>3. k <= Cardinality(M)
  <2>1. Len(IntendedIndices(current)) >= k
    BY DEF SampleGroups
  <2>2. IntendedIndices(current) = Ascending(M)
    BY DEF IntendedIndices, Meant
  <2>3. Ascending(M) \in [1 .. Cardinality(M) -> M]
    <3> HIDE DEF M
    <3> QED BY <1>1, AscendingEnumerates
  <2>4. Len(Ascending(M)) = Cardinality(M)
    <3> HIDE DEF M
    <3> QED BY <1>1, <2>3
  <2> HIDE DEF M
  <2> QED BY <2>1, <2>2, <2>4
<1>4. /\ sel \in [1 .. k -> M]
      /\ Increasing(sel)
      /\ Range(sel) = {i \in M : Below(M, i) < k}
  <2> HIDE DEF M, sel
  <2> QED BY <1>0, <1>1, <1>2, <1>3, FirstOfAscending
<1>5. sel \in [1 .. k -> 1 .. N]
  <2> HIDE DEF M, sel, N
  <2> QED BY <1>1, <1>4
<1>6. take = {Stored(i) : i \in Range(sel)}
  <2>1. Store!Intended(current, MaxAge) = {Stored(i) : i \in M}
    BY WindowMeans
  <2>2. Store!Earliest({Stored(i) : i \in M}, k)
          = {Stored(i) : i \in {j \in M : Below(M, j) < k}}
    <3> HIDE DEF M
    <3> QED BY <1>0, <1>1, EarliestMeans
  <2> HIDE DEF M, sel
  <2> QED BY <1>4, <2>1, <2>2
<1>7. Store!SampleReady(current, MaxAge, k)
  <2>1. Store!TooOld(current, MaxAge) = {}
    <3>1. Old(current) = {}
      BY DEF SampleGroups
    <3>2. Store!TooOld(current, MaxAge) = {Stored(i) : i \in Old(current)}
      BY WindowMeans
    <3> QED BY <3>1, <3>2
  <2>2. Cardinality(Store!Intended(current, MaxAge)) = Cardinality(M)
    <3>1. Store!Intended(current, MaxAge) = {Stored(i) : i \in M}
      BY WindowMeans
    <3> HIDE DEF M
    <3> QED BY <1>1, <3>1
  <2>3. Cardinality(Store!Intended(current, MaxAge)) >= k
    <3> HIDE DEF M
    <3> QED BY <1>0, <1>1, <1>3, <2>2
  <2> HIDE DEF M
  <2> QED BY <2>1, <2>3, StoreCounts DEF Store!SampleReady, Store!SampleRaises
<1>8. k <= N /\ \E m : Leaves(m, N, k, sel)
  <2> HIDE DEF sel, N
  <2> QED BY <1>0, <1>4, <1>5, PoppedKeepsTheRest, Zenon
<1>9. /\ trajectories' = Popped(trajectories, sel)
      /\ trajectory_versions' = Popped(trajectory_versions, sel)
      /\ target_weight_versions' = Popped(target_weight_versions, sel)
      /\ answer' = Answer("sample", [current |-> current, k |-> k], "groups",
                          [i \in 1 .. k |-> trajectories[sel[i]]])
  BY DEF SampleGroups
<1>10. PICK m : Leaves(m, N, k, sel)
  BY <1>8
<1>11. /\ trajectories' = [p \in 1 .. N - k |-> trajectories[m[p]]]
       /\ trajectory_versions' = [p \in 1 .. N - k |-> trajectory_versions[m[p]]]
       /\ target_weight_versions' = [p \in 1 .. N - k |-> target_weight_versions[m[p]]]
  <2> HIDE DEF sel, N
  <2> QED BY <1>0, <1>9, <1>10 DEF Leaves
<1>12. /\ m \in [1 .. N - k -> 1 .. N]
       /\ Increasing(m)
       /\ Range(m) = (1 .. N) \ Range(sel)
  <2> HIDE DEF sel, N
  <2> QED BY <1>10 DEF Leaves
<1>13. Sampled(sel, m, current, k)
  <2> HIDE DEF sel, take
  <2> QED BY <1>4, <1>5, <1>6, <1>8, <1>9, <1>11, <1>12, Zenon DEF Sampled, take
<1> HIDE DEF sel
<1> QED
  BY <1>7, <1>13

------------------------------------------------------------------------------
(* The steps *)

\* The empty lists are the empty store.
LEMMA InitEstablishes ==
  ASSUME Init
  PROVE  BufferInv /\ Store!StoreInit
<1>1. trajectories = <<>> /\ trajectory_versions = <<>> /\ target_weight_versions = <<>>
         /\ last_target = -1 /\ pushed = 0
         /\ answer = Answer("clear", NoArgs, "success", <<>>)
  BY DEF Init
<1>2. BufferTypeOK
  <2>1. answer.kind = "success"
    BY <1>1 DEF Answer
  <2> QED BY <1>1, <2>1, BufferAssumption DEF BufferTypeOK
<1>3. ListsInStep
  BY <1>1 DEF ListsInStep, Increasing
<1>4. Zipped = {}
  BY <1>1 DEF Zipped
<1>5. Store!StoreInit
  BY <1>1, <1>4 DEF Store!StoreInit
<1> QED
  BY <1>2, <1>3, <1>5 DEF BufferInv

\* A refused push changes nothing, and the store is full.
LEMMA PushFullStep ==
  ASSUME BufferInv, PushFull
  PROVE  BufferInv' /\ UNCHANGED <<Zipped, pushed, last_target>> /\ AnswerAgrees
<1>1. /\ trajectories' = trajectories
      /\ trajectory_versions' = trajectory_versions
      /\ target_weight_versions' = target_weight_versions
      /\ last_target' = last_target
      /\ pushed' = pushed
      /\ Len(trajectories) >= MaxSize
      /\ answer' = Answer("push", NoArgs, "full", <<>>)
  BY DEF PushFull, lists
<1>2. answer'.op = "push" /\ answer'.kind = "full"
  BY <1>1 DEF Answer
<1>3. BufferInv'
  BY <1>1, <1>2 DEF BufferInv, BufferTypeOK, ListsInStep
<1>4. Zipped' = Zipped
  BY <1>1 DEF Zipped
<1>5. AnswerAgrees
  <2>1. Store!Full
    BY <1>1, FullMeans
  <2> QED BY <1>2, <2>1 DEF AnswerAgrees
<1> QED
  BY <1>1, <1>3, <1>4, <1>5

\* An accepted push adds one group to all three lists, and to the store.
LEMMA PushGroupStep ==
  ASSUME BufferInv, NEW ver \in Versions, NEW tgt \in Versions, PushGroup(ver, tgt)
  PROVE  BufferInv' /\ Store!Push(ver, tgt) /\ AnswerAgrees
<1> DEFINE N == Len(trajectories)
<1>1. /\ N \in Nat /\ DOMAIN trajectories = 1 .. N
      /\ trajectories \in [1 .. N -> Nat]
      /\ trajectory_versions \in [1 .. N -> Versions]
      /\ target_weight_versions \in [1 .. N -> Versions]
      /\ pushed \in Nat
  BY ListsAreFunctions
<1>2. /\ trajectories \in Seq(Nat)
      /\ trajectory_versions \in Seq(Versions) /\ Len(trajectory_versions) = N
      /\ target_weight_versions \in Seq(Versions) /\ Len(target_weight_versions) = N
  BY DEF BufferInv, BufferTypeOK, ListsInStep
<1>3. /\ N < MaxSize
      /\ pushed < MaxPushes
      /\ trajectories' = Append(trajectories, pushed)
      /\ trajectory_versions' = Append(trajectory_versions, ver)
      /\ target_weight_versions' = Append(target_weight_versions, tgt)
      /\ last_target' = IF tgt > last_target THEN tgt ELSE last_target
      /\ pushed' = pushed + 1
      /\ answer' = Answer("push", NoArgs, "success", <<>>)
  BY DEF PushGroup
<1>4. answer'.op = "push" /\ answer'.kind = "success"
  BY <1>3 DEF Answer
<1>5. /\ trajectories' \in Seq(Nat) /\ Len(trajectories') = N + 1
      /\ \A i \in 1 .. N : trajectories'[i] = trajectories[i]
      /\ trajectories'[N + 1] = pushed
  <2> HIDE DEF N
  <2> QED BY <1>1, <1>2, <1>3, AppendProperties DEF N
<1>6. /\ trajectory_versions' \in Seq(Versions) /\ Len(trajectory_versions') = N + 1
      /\ \A i \in 1 .. N : trajectory_versions'[i] = trajectory_versions[i]
      /\ trajectory_versions'[N + 1] = ver
  <2> HIDE DEF N
  <2> QED BY <1>2, <1>3, AppendProperties
<1>7. /\ target_weight_versions' \in Seq(Versions) /\ Len(target_weight_versions') = N + 1
      /\ \A i \in 1 .. N : target_weight_versions'[i] = target_weight_versions[i]
      /\ target_weight_versions'[N + 1] = tgt
  <2> HIDE DEF N
  <2> QED BY <1>2, <1>3, AppendProperties
<1> HIDE DEF N
<1>8. DOMAIN trajectories' = 1 .. N + 1
  BY <1>5
<1>9. BufferTypeOK'
  <2>1. last_target' \in Versions \cup {-1}
    BY <1>3 DEF BufferInv, BufferTypeOK
  <2>2. pushed' \in 0 .. MaxPushes
    BY <1>1, <1>3, BufferAssumption
  <2>3. Len(trajectories') <= MaxSize
    BY <1>1, <1>3, <1>5, BufferAssumption
  <2> QED BY <1>4, <1>5, <1>6, <1>7, <2>1, <2>2, <2>3 DEF BufferTypeOK
<1>10. ListsInStep'
  <2>0. \A i \in 1 .. N : trajectories[i] < pushed /\ trajectories[i] \in Nat
    BY <1>1 DEF BufferInv, ListsInStep
  <2>1. ASSUME NEW i \in 1 .. N + 1 PROVE trajectories'[i] < pushed'
    BY <1>1, <1>3, <1>5, <2>0, <2>1
  <2>2. ASSUME NEW p \in 1 .. N + 1, NEW q \in 1 .. N + 1, p < q
        PROVE  trajectories'[p] < trajectories'[q]
    <3>1. p \in 1 .. N
      BY <1>1, <2>2
    <3>2. CASE q = N + 1
      BY <1>5, <2>0, <3>1, <3>2
    <3>3. CASE q # N + 1
      <4>1. q \in 1 .. N
        BY <1>1, <3>3
      <4>2. trajectories[p] < trajectories[q]
        BY <1>1, <2>2, <3>1, <4>1 DEF BufferInv, ListsInStep, Increasing
      <4> QED BY <1>5, <3>1, <4>1, <4>2
    <3> QED BY <3>2, <3>3
  <2>3. Increasing(trajectories')
    BY <1>8, <2>2 DEF Increasing
  <2> QED BY <1>5, <1>6, <1>7, <1>8, <2>1, <2>3 DEF ListsInStep, Increasing
<1>11. Zipped' = Zipped \cup {[n |-> pushed, ver |-> ver, tgt |-> tgt]}
  <2> DEFINE Next1(i) == [n |-> trajectories'[i], ver |-> trajectory_versions'[i],
                          tgt |-> target_weight_versions'[i]]
  <2>1. Zipped' = {Next1(i) : i \in 1 .. N + 1}
    BY <1>8 DEF Zipped
  <2>2. Next1(N + 1) = [n |-> pushed, ver |-> ver, tgt |-> tgt]
    BY <1>5, <1>6, <1>7
  <2>3. \A i \in 1 .. N : Next1(i) = Stored(i)
    BY <1>5, <1>6, <1>7 DEF Stored
  <2>4. 1 .. N + 1 = (1 .. N) \cup {N + 1}
    BY <1>1
  <2>5. Zipped = {Stored(i) : i \in 1 .. N}
    BY ZippedIs DEF N
  <2> HIDE DEF Next1
  <2> QED BY <2>1, <2>2, <2>3, <2>4, <2>5
<1>12. ~Store!Full
  <2>1. ~(N >= MaxSize)
    BY <1>1, <1>3, BufferAssumption
  <2> QED BY <2>1, FullMeans DEF N
<1>13. Store!Push(ver, tgt)
  BY <1>3, <1>11, <1>12 DEF Store!Push
<1>14. AnswerAgrees
  BY <1>4, <1>12 DEF AnswerAgrees
<1> QED
  BY <1>9, <1>10, <1>13, <1>14 DEF BufferInv

\* A sample that returns nothing changes nothing, and it had to: a group was
\* out of the window, or too few were meant for the step.
LEMMA SampleRefusedStep ==
  ASSUME BufferInv, NEW current \in Versions, NEW k \in Versions \ {0},
         SampleNone(current, k) \/ SampleRaises(current, k)
  PROVE  BufferInv' /\ UNCHANGED <<Zipped, pushed, last_target>> /\ AnswerAgrees
<1> DEFINE a == answer'
<1>1. /\ trajectories' = trajectories
      /\ trajectory_versions' = trajectory_versions
      /\ target_weight_versions' = target_weight_versions
      /\ last_target' = last_target
      /\ pushed' = pushed
  BY DEF SampleNone, SampleRaises, lists
<1>2. a.op = "sample" /\ a.args.current = current /\ a.args.k = k
  BY DEF SampleNone, SampleRaises, Answer
<1>3. a.kind = (IF Old(current) # {} THEN "raised" ELSE "none")
  <2>1. CASE SampleNone(current, k)
    <3>1. Old(current) = {}
      BY <2>1 DEF SampleNone, Old
    <3> QED BY <2>1, <3>1 DEF SampleNone, Answer
  <2>2. CASE SampleRaises(current, k)
    BY <2>2 DEF SampleRaises, Answer
  <2> QED BY <2>1, <2>2
<1>4. BufferInv'
  <2>1. answer'.kind \in {"none", "raised"}
    BY <1>3
  <2> QED BY <1>1, <2>1 DEF BufferInv, BufferTypeOK, ListsInStep
<1>5. Zipped' = Zipped
  BY <1>1 DEF Zipped
<1>6. Store!SampleRaises(current, MaxAge) <=> Old(current) # {}
  <2>1. Store!TooOld(current, MaxAge) = {Stored(i) : i \in Old(current)}
    BY WindowMeans
  <2> QED BY <2>1 DEF Store!SampleRaises
<1>7. ~Store!SampleReady(current, MaxAge, k)
  <2>1. CASE Old(current) # {}
    BY <1>6, <2>1 DEF Store!SampleReady
  <2>2. CASE Old(current) = {}
    <3> DEFINE M == Meant(current)
               V == ValidIndices(current)
    <3>0. SampleNone(current, k) /\ k \in Nat /\ k > 0
      BY <2>2, BufferAssumption DEF SampleRaises
    <3>1. /\ V \in SUBSET (1 .. Len(trajectories))
          /\ M \in SUBSET V
          /\ Store!Intended(current, MaxAge) = {Stored(i) : i \in M}
      BY WindowMeans
    <3>2. /\ IsFiniteSet(V) /\ Cardinality(V) \in Nat
          /\ M \in SUBSET (1 .. Len(trajectories))
          /\ IsFiniteSet(M) /\ Cardinality(M) \in Nat
          /\ Cardinality({Stored(i) : i \in M}) = Cardinality(M)
      <4> HIDE DEF M, V
      <4> QED BY <3>1, StoredCount
    <3>3. Cardinality(M) <= Cardinality(V)
      <4> HIDE DEF M, V
      <4> QED BY <3>1, <3>2, FS_Subset
    <3>4. Len(IntendedIndices(current)) = Cardinality(M)
      <4>1. IntendedIndices(current) = Ascending(M)
        BY DEF IntendedIndices, Meant
      <4>2. M \in SUBSET Nat
        <5> HIDE DEF M
        <5> QED BY <3>2, ListsAreFunctions
      <4>3. Ascending(M) \in [1 .. Cardinality(M) -> M]
        <5> HIDE DEF M
        <5> QED BY <3>2, <4>2, AscendingEnumerates
      <4> HIDE DEF M
      <4> QED BY <3>2, <4>1, <4>3
    <3>5. Cardinality(M) < k
      <4>1. CASE trajectories = <<>>
        <5>1. V = {}
          BY <4>1 DEF ValidIndices
        <5>2. Cardinality(V) = 0
          BY <5>1, FS_EmptySet
        <5> HIDE DEF M, V
        <5> QED BY <3>0, <3>2, <3>3, <5>2
      <4>2. CASE V = {}
        <5>1. Cardinality(V) = 0
          BY <4>2, FS_EmptySet
        <5> HIDE DEF M, V
        <5> QED BY <3>0, <3>2, <3>3, <5>1
      <4>3. CASE Cardinality(V) < k
        <5> HIDE DEF M, V
        <5> QED BY <3>0, <3>2, <3>3, <4>3
      <4>4. CASE Len(IntendedIndices(current)) < k
        <5> HIDE DEF M
        <5> QED BY <3>4, <4>4
      <4>5. \/ trajectories = <<>> \/ V = {} \/ Cardinality(V) < k
            \/ Len(IntendedIndices(current)) < k
        BY <3>0 DEF SampleNone
      <4> HIDE DEF M, V
      <4> QED BY <4>1, <4>2, <4>3, <4>4, <4>5
    <3>6. Cardinality(Store!Intended(current, MaxAge)) < k
             /\ Cardinality(Store!Intended(current, MaxAge)) \in Nat
      <4> HIDE DEF M
      <4> QED BY <3>1, <3>2, <3>5
    <3> QED BY <3>0, <3>6, StoreCounts DEF Store!SampleReady
  <2> QED BY <2>1, <2>2
<1>8. AnswerAgrees
  <2> HIDE DEF a
  <2>1. a.kind # "groups" /\ (a.kind = "raised" <=> Store!SampleRaises(current, MaxAge))
    BY <1>3, <1>6
  <2>2. a.op # "push"
    BY <1>2
  <2> QED BY <1>2, <1>7, <2>1, <2>2 DEF AnswerAgrees, a
<1> QED
  BY <1>1, <1>4, <1>5, <1>8

\* A sample that returns groups takes the earliest k from the store.
LEMMA SampleGroupsStep ==
  ASSUME BufferInv, NEW current \in Versions, NEW k \in Versions \ {0},
         SampleGroups(current, k)
  PROVE  BufferInv' /\ Store!Sample(current, MaxAge, k) /\ AnswerAgrees
<1> DEFINE N == Len(trajectories)
           a == answer'
           take == Store!Earliest(Store!Intended(current, MaxAge), k)
<1>1. Store!SampleReady(current, MaxAge, k)
  BY SampleTakesTheEarliest
<1>2. PICK sel, m : Sampled(sel, m, current, k)
  BY SampleTakesTheEarliest
<1>3. /\ N \in Nat /\ k \in Nat /\ DOMAIN trajectories = 1 .. N
      /\ trajectories \in [1 .. N -> Nat]
      /\ trajectory_versions \in [1 .. N -> Versions]
      /\ target_weight_versions \in [1 .. N -> Versions]
      /\ pushed \in Nat
  BY ListsAreFunctions, BufferAssumption
<1>4. /\ k <= N
      /\ sel \in [1 .. k -> 1 .. N] /\ Increasing(sel)
      /\ take = {Stored(i) : i \in Range(sel)}
      /\ a = Answer("sample", [current |-> current, k |-> k], "groups",
                    [i \in 1 .. k |-> trajectories[sel[i]]])
  BY <1>2, Zenon DEF Sampled
<1>5. /\ m \in [1 .. N - k -> 1 .. N] /\ Increasing(m)
      /\ Range(m) = (1 .. N) \ Range(sel)
      /\ trajectories' = [p \in 1 .. N - k |-> trajectories[m[p]]]
      /\ trajectory_versions' = [p \in 1 .. N - k |-> trajectory_versions[m[p]]]
      /\ target_weight_versions' = [p \in 1 .. N - k |-> target_weight_versions[m[p]]]
  BY <1>2, Zenon DEF Sampled
<1>6. last_target' = last_target /\ pushed' = pushed
  BY DEF SampleGroups
<1> HIDE DEF N, take
<1>7. N - k \in Nat
  BY <1>3, <1>4
<1>8. a.op = "sample" /\ a.kind = "groups" /\ a.args.current = current /\ a.args.k = k
         /\ a.groups = [i \in 1 .. k |-> trajectories[sel[i]]]
  BY <1>4 DEF Answer
<1> HIDE DEF a
<1>9. /\ trajectories' \in [1 .. N - k -> Nat]
      /\ trajectory_versions' \in [1 .. N - k -> Versions]
      /\ target_weight_versions' \in [1 .. N - k -> Versions]
  BY <1>3, <1>5
<1>10. /\ trajectories' \in Seq(Nat) /\ Len(trajectories') = N - k
       /\ trajectory_versions' \in Seq(Versions) /\ Len(trajectory_versions') = N - k
       /\ target_weight_versions' \in Seq(Versions) /\ Len(target_weight_versions') = N - k
  BY <1>7, <1>9
<1>11. BufferTypeOK'
  <2>1. Len(trajectories') <= MaxSize
    <3>1. N <= MaxSize
      BY DEF BufferInv, BufferTypeOK, N
    <3> QED BY <1>3, <1>10, <3>1, BufferAssumption
  <2> QED BY <1>6, <1>8, <1>10, <2>1 DEF BufferInv, BufferTypeOK, a
<1>12. ListsInStep'
  <2>1. ASSUME NEW p \in 1 .. N - k PROVE trajectories'[p] < pushed'
    <3>1. m[p] \in 1 .. N
      BY <1>5
    <3>2. trajectories[m[p]] < pushed
      BY <1>3, <3>1 DEF BufferInv, ListsInStep
    <3> QED BY <1>5, <1>6, <3>2
  <2>2. ASSUME NEW p \in 1 .. N - k, NEW q \in 1 .. N - k, p < q
        PROVE  trajectories'[p] < trajectories'[q]
    <3>1. m[p] \in 1 .. N /\ m[q] \in 1 .. N /\ m[p] < m[q]
      BY <1>5, <2>2 DEF Increasing
    <3>2. trajectories[m[p]] < trajectories[m[q]]
      BY <1>3, <3>1 DEF BufferInv, ListsInStep, Increasing
    <3> QED BY <1>5, <3>2
  <2>3. DOMAIN trajectories' = 1 .. N - k
    BY <1>9
  <2>4. Increasing(trajectories')
    BY <2>2, <2>3 DEF Increasing
  <2> QED BY <1>10, <2>1, <2>3, <2>4 DEF ListsInStep, Increasing
<1>13. Range(sel) \in SUBSET (1 .. N)
  BY <1>4 DEF Range
<1>14. Zipped' = {Stored(i) : i \in Range(m)}
  <2> DEFINE Next1(p) == [n |-> trajectories'[p], ver |-> trajectory_versions'[p],
                          tgt |-> target_weight_versions'[p]]
  <2>1. Zipped' = {Next1(p) : p \in 1 .. N - k}
    <3>1. DOMAIN trajectories' = 1 .. N - k
      BY <1>9
    <3> QED BY <3>1 DEF Zipped
  <2>2. \A p \in 1 .. N - k : Next1(p) = Stored(m[p])
    BY <1>5 DEF Stored
  <2>3. Range(m) = {m[p] : p \in 1 .. N - k}
    BY <1>5 DEF Range
  <2> HIDE DEF Next1
  <2> QED BY <2>1, <2>2, <2>3
<1>15. Zipped' = Zipped \ take
  <2>1. Zipped = {Stored(i) : i \in 1 .. N}
    BY ZippedIs DEF N
  <2>2. \A i, j \in 1 .. N : Stored(i) = Stored(j) => i = j
    BY StoredApart DEF N
  <2> QED BY <1>4, <1>5, <1>13, <1>14, <2>1, <2>2
<1>16. Store!Sample(current, MaxAge, k)
  BY <1>1, <1>6, <1>15 DEF Store!Sample, take
<1>17. Range(a.groups) = {trajectories[i] : i \in Range(sel)}
  <2>1. Range(a.groups) = {trajectories[sel[i]] : i \in 1 .. k}
    BY <1>8 DEF Range
  <2>2. Range(sel) = {sel[i] : i \in 1 .. k}
    BY <1>4 DEF Range
  <2> QED BY <2>1, <2>2
<1>18. Range(a.groups) = {g.n : g \in take}
  <2>1. \A i : Stored(i).n = trajectories[i]
    BY DEF Stored
  <2> QED BY <1>4, <1>17, <2>1
<1>19. \A i, j \in 1 .. k : i < j => a.groups[i] < a.groups[j]
  <2>1. ASSUME NEW i \in 1 .. k, NEW j \in 1 .. k, i < j PROVE a.groups[i] < a.groups[j]
    <3>1. sel[i] \in 1 .. N /\ sel[j] \in 1 .. N /\ sel[i] < sel[j]
      BY <1>4, <2>1 DEF Increasing
    <3>2. trajectories[sel[i]] < trajectories[sel[j]]
      BY <1>3, <3>1 DEF BufferInv, ListsInStep, Increasing
    <3> QED BY <1>8, <3>2
  <2> QED BY <2>1
<1>20. Range(a.groups) = Range(trajectories) \ Range(trajectories')
  <2>1. Range(trajectories) = {trajectories[i] : i \in 1 .. N}
    BY <1>3 DEF Range
  <2>2. Range(trajectories') = {trajectories[i] : i \in Range(m)}
    <3>1. Range(trajectories') = {trajectories'[p] : p \in 1 .. N - k}
      BY <1>9 DEF Range
    <3>2. Range(m) = {m[p] : p \in 1 .. N - k}
      BY <1>5 DEF Range
    <3> QED BY <1>5, <3>1, <3>2
  <2>3. \A i, j \in 1 .. N : trajectories[i] = trajectories[j] => i = j
    <3>1. ASSUME NEW i \in 1 .. N, NEW j \in 1 .. N, trajectories[i] = trajectories[j]
          PROVE  i = j
      <4>1. i < j => trajectories[i] < trajectories[j]
        BY <1>3 DEF BufferInv, ListsInStep, Increasing
      <4>2. j < i => trajectories[j] < trajectories[i]
        BY <1>3 DEF BufferInv, ListsInStep, Increasing
      <4>3. trajectories[i] \in Nat /\ i \in Nat /\ j \in Nat
        BY <1>3
      <4> QED BY <3>1, <4>1, <4>2, <4>3
    <3> QED BY <3>1
  <2> QED BY <1>5, <1>13, <1>17, <2>1, <2>2, <2>3
<1>21. AnswerAgrees
  <2>1. a.kind # "raised" /\ ~Store!SampleRaises(current, MaxAge) /\ a.op # "push"
    BY <1>1, <1>8 DEF Store!SampleReady
  <2> QED BY <1>1, <1>8, <1>18, <1>19, <1>20, <2>1 DEF AnswerAgrees, a, take
<1> QED
  BY <1>11, <1>12, <1>16, <1>21 DEF BufferInv

\* clear empties the store.
LEMMA ClearStep ==
  ASSUME BufferInv, Clear
  PROVE  BufferInv' /\ Store!Clear /\ AnswerAgrees
<1>1. trajectories' = <<>> /\ trajectory_versions' = <<>> /\ target_weight_versions' = <<>>
         /\ last_target' = last_target /\ pushed' = pushed
         /\ answer' = Answer("clear", NoArgs, "success", <<>>)
  BY DEF Clear
<1>2. answer'.op = "clear" /\ answer'.kind = "success"
  BY <1>1 DEF Answer
<1>3. BufferTypeOK'
  BY <1>1, <1>2, BufferAssumption DEF BufferInv, BufferTypeOK
<1>4. ListsInStep'
  BY <1>1 DEF ListsInStep, Increasing
<1>5. Zipped' = {}
  BY <1>1 DEF Zipped
<1>6. Store!Clear
  BY <1>1, <1>5 DEF Store!Clear
<1>7. AnswerAgrees
  BY <1>2 DEF AnswerAgrees
<1> QED
  BY <1>3, <1>4, <1>6, <1>7 DEF BufferInv

StoreStep ==
  Store!StoreNext(Versions \cup {MaxAge}) \/ UNCHANGED <<Zipped, pushed, last_target>>

\* Every step keeps the invariant, is a step of the store or none, and returns
\* what the store promises.
LEMMA NextIsAStoreStep ==
  ASSUME BufferInv, [Next]_bufferVars
  PROVE  BufferInv' /\ StoreStep /\ (AnswerAgrees \/ UNCHANGED bufferVars)
<1> DEFINE V == Versions \cup {MaxAge}
<1>1. CASE PushFull
  BY <1>1, PushFullStep DEF StoreStep
<1>2. ASSUME NEW ver \in Versions, NEW tgt \in Versions, PushGroup(ver, tgt)
      PROVE  BufferInv' /\ StoreStep /\ AnswerAgrees
  <2>1. BufferInv' /\ Store!Push(ver, tgt) /\ AnswerAgrees
    BY <1>2, PushGroupStep
  <2> QED BY <2>1 DEF StoreStep, Store!StoreNext
<1>3. ASSUME NEW current \in Versions, NEW k \in Versions \ {0},
             SampleNone(current, k) \/ SampleRaises(current, k) \/ SampleGroups(current, k)
      PROVE  BufferInv' /\ StoreStep /\ AnswerAgrees
  <2>1. CASE SampleNone(current, k) \/ SampleRaises(current, k)
    BY <2>1, SampleRefusedStep DEF StoreStep
  <2>2. CASE SampleGroups(current, k)
    <3>1. BufferInv' /\ Store!Sample(current, MaxAge, k) /\ AnswerAgrees
      BY <2>2, SampleGroupsStep
    <3>2. current \in V /\ MaxAge \in V /\ k \in V
      OBVIOUS
    <3> QED BY <3>1, <3>2 DEF StoreStep, Store!StoreNext
  <2> QED BY <1>3, <2>1, <2>2
<1>4. CASE Clear
  <2>1. BufferInv' /\ Store!Clear /\ AnswerAgrees
    BY <1>4, ClearStep
  <2> QED BY <2>1 DEF StoreStep, Store!StoreNext
<1>5. CASE UNCHANGED bufferVars
  <2>1. /\ trajectories' = trajectories
        /\ trajectory_versions' = trajectory_versions
        /\ target_weight_versions' = target_weight_versions
        /\ last_target' = last_target
        /\ pushed' = pushed
        /\ answer' = answer
    BY <1>5 DEF bufferVars, lists
  <2>2. BufferInv'
    BY <2>1 DEF BufferInv, BufferTypeOK, ListsInStep
  <2>3. Zipped' = Zipped
    BY <2>1 DEF Zipped
  <2> QED BY <1>5, <2>1, <2>2, <2>3 DEF StoreStep
<1>6. Next \/ UNCHANGED bufferVars
  OBVIOUS
<1> QED
  BY <1>1, <1>2, <1>3, <1>4, <1>5, <1>6 DEF Next

------------------------------------------------------------------------------
(* The theorems *)

\* The three lists stay in step and in the order of arrival, whatever is
\* pushed, popped one by one and cleared.
THEOREM BufferInvariant == Spec => []BufferInv
<1>1. Init => BufferInv
  BY InitEstablishes
<1>2. BufferInv /\ [Next]_bufferVars => BufferInv'
  BY NextIsAStoreStep
<1> QED
  BY <1>1, <1>2, PTL DEF Spec

\* The buffer never holds more than max_size groups, and the versions in its
\* lists are versions that were pushed.
THEOREM BufferTypeCorrect == Spec => []BufferTypeOK
<1>1. BufferInv => BufferTypeOK
  BY DEF BufferInv
<1> QED
  BY <1>1, BufferInvariant, PTL

\* Three lists popped position by position implement one set of groups from
\* which a sample takes the earliest k: push_with_wait_signal, sample and clear.
THEOREM ListsImplementStore == Spec => ImplementsStore
<1>1. Init => Store!StoreInit
  BY InitEstablishes
<1>2. BufferInv /\ [Next]_bufferVars
        => [Store!StoreNext(Versions \cup {MaxAge})]_<<Zipped, pushed, last_target>>
  BY NextIsAStoreStep DEF StoreStep
<1> QED
  BY <1>1, <1>2, BufferInvariant, PTL DEF Spec, ImplementsStore

\* What every call returns agrees with the store it was made on.
THEOREM AnswersAreRight == Spec => AnswersAsPromised
<1>1. BufferInv /\ [Next]_bufferVars => [AnswerAgrees]_bufferVars
  BY NextIsAStoreStep
<1> QED
  BY <1>1, BufferInvariant, PTL DEF Spec, AnswersAsPromised
===============================================================================
