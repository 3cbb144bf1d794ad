------------------------- MODULE DataDispatchProofs -------------------------
(***************************************************************************)
(* Proofs about the way of a batch to the ranks, for batches, shards, bins *)
(* and lengths of any size.                                                *)
(***************************************************************************)
EXTENDS DataDispatch, FiniteSetTheorems, SequenceTheorems, TLAPS

-----------------------------------------------------------------------------
(* Induction *)

\* A set of naturals that has a member has a least one.
LEMMA LeastNatural ==
  ASSUME NEW S \in SUBSET Nat, S # {}
  PROVE  \E n \in S : \A m \in S : n <= m
<1> DEFINE T == {0 .. n : n \in S}
           R == StrictSubsetOrdering(Nat)
<1>1. T \subseteq FiniteSubsetsOf(Nat)
  <2>1. ASSUME NEW n \in Nat PROVE IsFiniteSet(0 .. n)
    BY FS_Interval
  <2>2. ASSUME NEW n \in Nat PROVE 0 .. n \in SUBSET Nat
    OBVIOUS
  <2> QED BY <2>1, <2>2 DEF FiniteSubsetsOf
<1>2. T # {}
  OBVIOUS
<1>3. IsWellFoundedOn(R, FiniteSubsetsOf(Nat))
  BY FS_StrictSubsetOrderingWellFounded
<1>4. PICK x \in T : \A y \in T : ~(<<y, x>> \in R)
  <2> HIDE DEF T, R
  <2> QED BY <1>1, <1>2, <1>3, WFMin
<1>5. PICK n \in S : x = 0 .. n
  OBVIOUS
<1>6. ASSUME NEW m \in S, m < n PROVE FALSE
  <2>1. 0 .. m \subseteq 0 .. n /\ 0 .. m # 0 .. n
    <3>1. n \in 0 .. n /\ n \notin 0 .. m
      BY <1>6
    <3> QED BY <1>6, <3>1
  <2>2. <<0 .. m, x>> \in R
    BY <2>1, <1>5 DEF StrictSubsetOrdering
  <2> QED BY <1>4, <2>2
<1> QED
  BY <1>6

\* Induction, for a set of naturals.
LEMMA NaturalInduction ==
  ASSUME NEW S, 0 \in S, \A n \in Nat : n \in S => n + 1 \in S
  PROVE  \A n \in Nat : n \in S
<1> SUFFICES ASSUME NEW k \in Nat, k \notin S PROVE FALSE
  OBVIOUS
<1> DEFINE B == {n \in Nat : n \notin S}
<1>1. PICK n \in B : \A m \in B : n <= m
  <2> B \in SUBSET Nat /\ B # {} OBVIOUS
  <2> HIDE DEF B
  <2> QED BY LeastNatural
<1>2. n # 0 /\ n - 1 \in Nat /\ n - 1 \notin B
  BY <1>1
<1> QED BY <1>2

-----------------------------------------------------------------------------
(* The tokens of a bin *)

\* The fold takes the greatest index last.
LEMMA MaxOfTop ==
  ASSUME NEW m \in Nat, NEW s \in SUBSET (1 .. m + 1), m + 1 \in s
  PROVE  Max(s) = m + 1
<1>1. \A y \in s : m + 1 >= y
  OBVIOUS
<1>2. PICK x \in s : x = Max(s) /\ \A y \in s : x >= y
  BY <1>1 DEF Max
<1> QED
  BY <1>1, <1>2

\* acc[j] is what the first j of the k elements of the bin come to.
More(lengths, tokens, i) == tokens + lengths[i]

SumsTo(acc, lengths, bin, k) ==
  /\ acc[0] = 0
  /\ \A j \in 1 .. k : acc[j] = More(lengths, acc[j - 1], bin[j])

\* The fold of Tokens adds one length after the other.
LEMMA TokensAddUp ==
  ASSUME NEW k \in Nat, NEW bin, DOMAIN bin = 1 .. k, NEW lengths
  PROVE  \E acc : SumsTo(acc, lengths, bin, k) /\ Tokens(lengths, bin) = acc[k]
<1> DEFINE Value(f, s) ==
             IF s = {} THEN 0 ELSE More(lengths, f[s \ {Max(s)}], bin[Max(s)])
           Folds(f, m) == f = [s \in SUBSET (1 .. m) |-> Value(f, s)]
           S == {m \in Nat : \E f : Folds(f, m)}
<1>1. 0 \in S
  <2> DEFINE f == [s \in SUBSET (1 .. 0) |-> 0]
  <2>1. \A s \in SUBSET (1 .. 0) : s = {}
    OBVIOUS
  <2>2. f = [s \in SUBSET (1 .. 0) |-> Value(f, s)]
    <3>1. \A s \in SUBSET (1 .. 0) : Value(f, s) = 0
      BY <2>1
    <3> HIDE DEF Value
    <3> QED BY <3>1
  <2> QED BY <2>2
<1>2. ASSUME NEW m \in Nat, m \in S PROVE m + 1 \in S
  <2>1. PICK f : Folds(f, m)
    BY <1>2
  <2> DEFINE g == [s \in SUBSET (1 .. m + 1) |->
                     IF m + 1 \in s THEN More(lengths, f[s \ {m + 1}], bin[m + 1]) ELSE f[s]]
  <2>2. ASSUME NEW s \in SUBSET (1 .. m + 1) PROVE g[s] = Value(g, s)
    <3>1. CASE m + 1 \in s
      <4>1. Max(s) = m + 1 /\ s # {}
        BY <3>1, MaxOfTop
      <4>2. s \ {m + 1} \in SUBSET (1 .. m + 1) /\ m + 1 \notin s \ {m + 1}
        OBVIOUS
      <4>3. g[s \ {m + 1}] = f[s \ {m + 1}]
        BY <4>2
      <4>4. g[s] = More(lengths, g[s \ {m + 1}], bin[m + 1])
        <5>1. g[s] = More(lengths, f[s \ {m + 1}], bin[m + 1])
          BY <3>1
        <5> HIDE DEF g
        <5> QED BY <5>1, <4>3
      <4> HIDE DEF g
      <4> QED BY <4>1, <4>4
    <3>2. CASE m + 1 \notin s
      <4>1. s \in SUBSET (1 .. m) /\ g[s] = f[s]
        BY <3>2
      <4>2. f[s] = Value(f, s)
        <5> HIDE DEF Value
        <5> QED BY <2>1, <4>1
      <4>3. g[s \ {Max(s)}] = f[s \ {Max(s)}]
        <5>1. s \ {Max(s)} \in SUBSET (1 .. m + 1) /\ m + 1 \notin s \ {Max(s)}
          BY <3>2
        <5> QED BY <5>1
      <4> HIDE DEF g
      <4> QED BY <4>1, <4>2, <4>3
    <3> QED BY <3>1, <3>2
  <2>3. Folds(g, m + 1)
    <3>1. g = [s \in SUBSET (1 .. m + 1) |-> g[s]]
      OBVIOUS
    <3> HIDE DEF g, Value
    <3> QED BY <2>2, <3>1
  <2> HIDE DEF Folds, g
  <2> QED BY <2>3
<1>3. PICK F : F = [s \in SUBSET (1 .. k) |-> Value(F, s)]
  <2> HIDE DEF S
  <2>1. k \in S
    BY <1>1, <1>2, NaturalInduction
  <2> HIDE DEF Value
  <2> QED BY <2>1 DEF S
<1> DEFINE chosen == CHOOSE f : f = [s \in SUBSET (1 .. k) |-> Value(f, s)]
<1>4. Tokens(lengths, bin) = chosen[1 .. k]
  BY DEF Tokens, More, FoldLeft, MapThenFoldSet
<1>5. chosen = [s \in SUBSET (1 .. k) |-> Value(chosen, s)]
  <2> HIDE DEF Value
  <2> QED BY <1>3
<1> HIDE DEF chosen
<1> DEFINE acc == [j \in 0 .. k |-> chosen[1 .. j]]
<1>6. acc[0] = 0
  <2>1. 1 .. 0 = {} /\ {} \in SUBSET (1 .. k) /\ 0 \in 0 .. k
    OBVIOUS
  <2>2. chosen[{}] = Value(chosen, {})
    <3> HIDE DEF Value
    <3> QED BY <1>5, <2>1
  <2> QED BY <2>1, <2>2
<1>7. ASSUME NEW j \in 1 .. k PROVE acc[j] = More(lengths, acc[j - 1], bin[j])
  <2>0. j \in 1 .. j /\ j \in 0 .. k /\ j - 1 \in 0 .. k
    OBVIOUS
  <2>1. 1 .. j \in SUBSET (1 .. k) /\ 1 .. j # {} /\ j \in 0 .. k /\ j - 1 \in 0 .. k
    <3>1. 1 .. j \in SUBSET (1 .. k)
      OBVIOUS
    <3> QED BY <2>0, <3>1
  <2>2. Max(1 .. j) = j
    <3>1. j - 1 \in Nat /\ j - 1 + 1 = j /\ j \in 1 .. j
      OBVIOUS
    <3> QED BY <3>1, MaxOfTop
  <2>3. (1 .. j) \ {j} = 1 .. j - 1
    OBVIOUS
  <2>4. chosen[1 .. j] = Value(chosen, 1 .. j)
    <3> HIDE DEF Value
    <3> QED BY <1>5, <2>1
  <2>5. chosen[1 .. j] = More(lengths, chosen[1 .. j - 1], bin[j])
    BY <2>1, <2>2, <2>3, <2>4
  <2> QED BY <2>1, <2>5
<1>8. acc[k] = chosen[1 .. k]
  OBVIOUS
<1> HIDE DEF acc
<1> QED
  BY <1>4, <1>6, <1>7, <1>8 DEF SumsTo

\* An empty bin has no tokens.
LEMMA TokensOfNone ==
  ASSUME NEW lengths
  PROVE  Tokens(lengths, <<>>) = 0
<1>1. 0 \in Nat /\ DOMAIN <<>> = 1 .. 0
  OBVIOUS
<1>2. PICK acc : SumsTo(acc, lengths, <<>>, 0) /\ Tokens(lengths, <<>>) = acc[0]
  BY <1>1, TokensAddUp, Zenon
<1> QED
  BY <1>2 DEF SumsTo

\* One more sequence in a bin, and its tokens.
LEMMA TokensOfMore ==
  ASSUME NEW D, NEW lengths \in [D -> Nat], NEW bin \in Seq(D), NEW i \in D
  PROVE  /\ Tokens(lengths, bin) \in Nat
         /\ Tokens(lengths, Append(bin, i)) = Tokens(lengths, bin) + lengths[i]
<1> DEFINE k == Len(bin)
           more == Append(bin, i)
<1>1. k \in Nat /\ k + 1 \in Nat /\ DOMAIN bin = 1 .. k /\ DOMAIN more = 1 .. k + 1
  OBVIOUS
<1>2. \A j \in 1 .. k : bin[j] \in D /\ more[j] = bin[j]
  OBVIOUS
<1>3. more[k + 1] = i
  OBVIOUS
<1> HIDE DEF k, more
<1>4. PICK a : SumsTo(a, lengths, bin, k) /\ Tokens(lengths, bin) = a[k]
  BY <1>1, TokensAddUp, Zenon
<1>5. PICK b : SumsTo(b, lengths, more, k + 1) /\ Tokens(lengths, more) = b[k + 1]
  BY <1>1, TokensAddUp, Zenon
<1> DEFINE S == {j \in Nat : j <= k => b[j] = a[j] /\ a[j] \in Nat}
<1>6. 0 \in S
  BY <1>4, <1>5 DEF SumsTo
<1>7. ASSUME NEW j \in Nat, j \in S PROVE j + 1 \in S
  <2> SUFFICES ASSUME j + 1 <= k PROVE b[j + 1] = a[j + 1] /\ a[j + 1] \in Nat
    OBVIOUS
  <2>1. b[j] = a[j] /\ a[j] \in Nat
    BY <1>1, <1>7
  <2>2. j + 1 \in 1 .. k /\ j + 1 \in 1 .. k + 1 /\ (j + 1) - 1 = j
    BY <1>1
  <2>3. /\ a[j + 1] = More(lengths, a[j], bin[j + 1])
        /\ b[j + 1] = More(lengths, b[j], more[j + 1])
    BY <1>4, <1>5, <2>2 DEF SumsTo
  <2>4. bin[j + 1] \in D /\ more[j + 1] = bin[j + 1]
    BY <1>2, <2>2
  <2>5. lengths[bin[j + 1]] \in Nat
    BY <2>4
  <2> QED BY <2>1, <2>3, <2>4, <2>5 DEF More
<1>8. k \in S
  <2> HIDE DEF S
  <2> QED BY <1>1, <1>6, <1>7, NaturalInduction
<1>9. b[k] = a[k] /\ a[k] \in Nat
  BY <1>1, <1>8
<1>10. b[k + 1] = a[k] + lengths[i]
  <2>1. k + 1 \in 1 .. k + 1 /\ (k + 1) - 1 = k
    BY <1>1
  <2>2. b[k + 1] = More(lengths, b[k], more[k + 1])
    <3>1. \A j \in 1 .. k + 1 : b[j] = More(lengths, b[j - 1], more[j])
      BY <1>5 DEF SumsTo
    <3>2. b[k + 1] = More(lengths, b[(k + 1) - 1], more[k + 1])
      BY <2>1, <3>1, Zenon
    <3> QED BY <2>1, <3>2
  <2> QED BY <1>3, <1>9, <2>2 DEF More
<1> QED
  BY <1>4, <1>5, <1>9, <1>10 DEF more

\* The same, to be cited in one piece.
Adds(lengths, more, bin, i) ==
  Tokens(lengths, bin) \in Nat /\ Tokens(lengths, more) = Tokens(lengths, bin) + lengths[i]

LEMMA AppendAdds ==
  ASSUME NEW D, NEW lengths \in [D -> Nat], NEW bin \in Seq(D), NEW i \in D
  PROVE  Adds(lengths, Append(bin, i), bin, i)
BY TokensOfMore DEF Adds

\* A sequence alone in a bin.
LEMMA TokensOfOne ==
  ASSUME NEW D, NEW lengths \in [D -> Nat], NEW i \in D
  PROVE  Tokens(lengths, <<i>>) = lengths[i]
<1>1. <<>> \in Seq(D) /\ Append(<<>>, i) = <<i>>
  OBVIOUS
<1>2. Tokens(lengths, Append(<<>>, i)) = Tokens(lengths, <<>>) + lengths[i]
  BY <1>1, TokensOfMore, Zenon
<1> QED
  BY <1>1, <1>2, TokensOfNone

-----------------------------------------------------------------------------
(* The bins that are not empty *)

\* A bin is kept when it is not empty.
KeepOf(kept, bin) == IF bin = <<>> THEN kept ELSE Append(kept, bin)

KeepsTo(acc, all, k) ==
  /\ acc[0] = <<>>
  /\ \A j \in 1 .. k : acc[j] = KeepOf(acc[j - 1], all[j])

\* The fold of NonEmpty looks at one bin after the other.
LEMMA NonEmptyInTurn ==
  ASSUME NEW k \in Nat, NEW all, DOMAIN all = 1 .. k
  PROVE  \E acc : KeepsTo(acc, all, k) /\ NonEmpty(all) = acc[k]
<1> DEFINE Value(f, s) ==
             IF s = {} THEN <<>> ELSE KeepOf(f[s \ {Max(s)}], all[Max(s)])
           Folds(f, m) == f = [s \in SUBSET (1 .. m) |-> Value(f, s)]
           S == {m \in Nat : \E f : Folds(f, m)}
<1>1. 0 \in S
  <2> DEFINE f == [s \in SUBSET (1 .. 0) |-> <<>>]
  <2>1. \A s \in SUBSET (1 .. 0) : s = {}
    OBVIOUS
  <2>2. f = [s \in SUBSET (1 .. 0) |-> Value(f, s)]
    <3>1. \A s \in SUBSET (1 .. 0) : Value(f, s) = <<>>
      BY <2>1
    <3> HIDE DEF Value
    <3> QED BY <3>1
  <2> QED BY <2>2
<1>2. ASSUME NEW m \in Nat, m \in S PROVE m + 1 \in S
  <2>1. PICK f : Folds(f, m)
    BY <1>2
  <2> DEFINE g == [s \in SUBSET (1 .. m + 1) |->
                     IF m + 1 \in s THEN KeepOf(f[s \ {m + 1}], all[m + 1]) ELSE f[s]]
  <2>2. ASSUME NEW s \in SUBSET (1 .. m + 1) PROVE g[s] = Value(g, s)
    <3>1. CASE m + 1 \in s
      <4>1. Max(s) = m + 1 /\ s # {}
        BY <3>1, MaxOfTop
      <4>2. s \ {m + 1} \in SUBSET (1 .. m + 1) /\ m + 1 \notin s \ {m + 1}
        OBVIOUS
      <4>3. g[s \ {m + 1}] = f[s \ {m + 1}]
        BY <4>2
      <4>4. g[s] = KeepOf(g[s \ {m + 1}], all[m + 1])
        <5>1. g[s] = KeepOf(f[s \ {m + 1}], all[m + 1])
          BY <3>1
        <5> HIDE DEF g
        <5> QED BY <5>1, <4>3
      <4> HIDE DEF g
      <4> QED BY <4>1, <4>4
    <3>2. CASE m + 1 \notin s
      <4>1. s \in SUBSET (1 .. m) /\ g[s] = f[s]
        BY <3>2
      <4>2. f[s] = Value(f, s)
        <5> HIDE DEF Value
        <5> QED BY <2>1, <4>1
      <4>3. g[s \ {Max(s)}] = f[s \ {Max(s)}]
        <5>1. s \ {Max(s)} \in SUBSET (1 .. m + 1) /\ m + 1 \notin s \ {Max(s)}
          BY <3>2
        <5> QED BY <5>1
      <4> HIDE DEF g
      <4> QED BY <4>1, <4>2, <4>3
    <3> QED BY <3>1, <3>2
  <2>3. Folds(g, m + 1)
    <3>1. g = [s \in SUBSET (1 .. m + 1) |-> g[s]]
      OBVIOUS
    <3> HIDE DEF g, Value
    <3> QED BY <2>2, <3>1
  <2> HIDE DEF Folds, g
  <2> QED BY <2>3
<1>3. PICK F : F = [s \in SUBSET (1 .. k) |-> Value(F, s)]
  <2> HIDE DEF S
  <2>1. k \in S
    BY <1>1, <1>2, NaturalInduction
  <2> HIDE DEF Value
  <2> QED BY <2>1 DEF S
<1> DEFINE chosen == CHOOSE f : f = [s \in SUBSET (1 .. k) |-> Value(f, s)]
<1>4. NonEmpty(all) = chosen[1 .. k]
  BY DEF NonEmpty, KeepOf, FoldLeft, MapThenFoldSet
<1>5. chosen = [s \in SUBSET (1 .. k) |-> Value(chosen, s)]
  <2> HIDE DEF Value
  <2> QED BY <1>3
<1> HIDE DEF chosen
<1> DEFINE acc == [j \in 0 .. k |-> chosen[1 .. j]]
<1>6. acc[0] = <<>>
  <2>1. 1 .. 0 = {} /\ {} \in SUBSET (1 .. k) /\ 0 \in 0 .. k
    OBVIOUS
  <2>2. chosen[{}] = Value(chosen, {})
    <3> HIDE DEF Value
    <3> QED BY <1>5, <2>1
  <2> QED BY <2>1, <2>2
<1>7. ASSUME NEW j \in 1 .. k PROVE acc[j] = KeepOf(acc[j - 1], all[j])
  <2>0. j \in 1 .. j /\ j \in 0 .. k /\ j - 1 \in 0 .. k
    OBVIOUS
  <2>1. 1 .. j \in SUBSET (1 .. k) /\ 1 .. j # {} /\ j \in 0 .. k /\ j - 1 \in 0 .. k
    <3>1. 1 .. j \in SUBSET (1 .. k)
      OBVIOUS
    <3> QED BY <2>0, <3>1
  <2>2. Max(1 .. j) = j
    <3>1. j - 1 \in Nat /\ j - 1 + 1 = j /\ j \in 1 .. j
      OBVIOUS
    <3> QED BY <3>1, MaxOfTop
  <2>3. (1 .. j) \ {j} = 1 .. j - 1
    OBVIOUS
  <2>4. chosen[1 .. j] = Value(chosen, 1 .. j)
    <3> HIDE DEF Value
    <3> QED BY <1>5, <2>1
  <2>5. chosen[1 .. j] = KeepOf(chosen[1 .. j - 1], all[j])
    BY <2>1, <2>2, <2>3, <2>4
  <2> QED BY <2>1, <2>5
<1>8. acc[k] = chosen[1 .. k]
  OBVIOUS
<1> HIDE DEF acc
<1> QED
  BY <1>4, <1>6, <1>7, <1>8 DEF KeepsTo

\* The beginnings of a sequence.
LEMMA Beginnings ==
  ASSUME NEW T, NEW s \in Seq(T)
  PROVE  /\ SubSeq(s, 1, 0) = <<>>
         /\ SubSeq(s, 1, Len(s)) = s
         /\ \A j \in Nat : j < Len(s) => SubSeq(s, 1, j + 1) = Append(SubSeq(s, 1, j), s[j + 1])
<1>1. SubSeq(s, 1, 0) = <<>>
  OBVIOUS
<1>2. SubSeq(s, 1, Len(s)) = s
  OBVIOUS
<1>3. ASSUME NEW j \in Nat, j < Len(s)
      PROVE  SubSeq(s, 1, j + 1) = Append(SubSeq(s, 1, j), s[j + 1])
  <2>1. /\ SubSeq(s, 1, j) \in Seq(T) /\ Len(SubSeq(s, 1, j)) = j
        /\ \A k \in 1 .. j : SubSeq(s, 1, j)[k] = s[k]
    BY <1>3
  <2>2. /\ SubSeq(s, 1, j + 1) \in Seq(T) /\ Len(SubSeq(s, 1, j + 1)) = j + 1
        /\ \A k \in 1 .. j + 1 : SubSeq(s, 1, j + 1)[k] = s[k]
    BY <1>3
  <2>3. s[j + 1] \in T
    BY <1>3
  <2> DEFINE u == SubSeq(s, 1, j)
             v == SubSeq(s, 1, j + 1)
  <2> HIDE DEF u, v
  <2>4. u \in Seq(T) /\ Len(u) = j /\ \A k \in 1 .. j : u[k] = s[k]
    BY <2>1 DEF u
  <2>5. v \in Seq(T) /\ Len(v) = j + 1 /\ \A k \in 1 .. j + 1 : v[k] = s[k]
    BY <2>2 DEF v
  <2>6. v = Append(u, s[j + 1])
    BY <2>3, <2>4, <2>5
  <2> QED BY <2>6 DEF u, v
<1> QED
  BY <1>1, <1>2, <1>3

\* Bins of which none is empty are kept, and an empty one after them is not.
LEMMA NonEmptyKeeps ==
  ASSUME NEW T, NEW s \in Seq(T), \A b \in DOMAIN s : s[b] # <<>>
  PROVE  NonEmpty(s) = s /\ NonEmpty(Append(s, <<>>)) = s
<1> DEFINE k == Len(s)
           more == Append(s, <<>>)
<1>1. k \in Nat /\ k + 1 \in Nat /\ DOMAIN s = 1 .. k /\ DOMAIN more = 1 .. k + 1
  OBVIOUS
<1>2. (\A j \in 1 .. k : more[j] = s[j]) /\ more[k + 1] = <<>>
  OBVIOUS
<1> HIDE DEF k, more
<1>3. ASSUME NEW all, NEW n \in Nat, DOMAIN all = 1 .. n, k <= n, \A j \in 1 .. k : all[j] = s[j],
             NEW acc, KeepsTo(acc, all, n)
      PROVE  acc[k] = s
  <2> DEFINE S == {j \in Nat : j <= k => acc[j] = SubSeq(s, 1, j)}
  <2>1. 0 \in S
    BY <1>3, Beginnings DEF KeepsTo
  <2>2. ASSUME NEW j \in Nat, j \in S PROVE j + 1 \in S
    <3> SUFFICES ASSUME j + 1 <= k PROVE acc[j + 1] = SubSeq(s, 1, j + 1)
      OBVIOUS
    <3>1. acc[j] = SubSeq(s, 1, j)
      BY <1>1, <2>2
    <3>2. j + 1 \in 1 .. k /\ j + 1 \in 1 .. n /\ (j + 1) - 1 = j /\ j < Len(s)
      BY <1>1, <1>3 DEF k
    <3> HIDE DEF S
    <3>3. acc[j + 1] = KeepOf(acc[j], all[j + 1])
      BY <1>3, <3>2 DEF KeepsTo
    <3>4. all[j + 1] = s[j + 1] /\ s[j + 1] # <<>>
      BY <1>1, <1>3, <3>2
    <3>5. SubSeq(s, 1, j + 1) = Append(SubSeq(s, 1, j), s[j + 1])
      BY <3>2, Beginnings
    <3> QED BY <3>1, <3>3, <3>4, <3>5 DEF KeepOf
  <2>3. k \in S
    <3> HIDE DEF S
    <3> QED BY <1>1, <2>1, <2>2, NaturalInduction
  <2>4. acc[k] = SubSeq(s, 1, k)
    BY <1>1, <2>3
  <2> QED BY <2>4, Beginnings DEF k
<1>4. NonEmpty(s) = s
  <2>1. PICK acc : KeepsTo(acc, s, k) /\ NonEmpty(s) = acc[k]
    BY <1>1, NonEmptyInTurn, Zenon
  <2>2. acc[k] = s
    BY <1>1, <1>3, <2>1
  <2> QED BY <2>1, <2>2
<1>5. NonEmpty(more) = s
  <2>1. PICK acc : KeepsTo(acc, more, k + 1) /\ NonEmpty(more) = acc[k + 1]
    BY <1>1, NonEmptyInTurn, Zenon
  <2>2. acc[k] = s
    <3>1. k <= k + 1
      BY <1>1
    <3> QED BY <1>1, <1>2, <1>3, <2>1, <3>1
  <2>3. acc[k + 1] = KeepOf(acc[k], more[k + 1])
    <3>1. k + 1 \in 1 .. k + 1 /\ (k + 1) - 1 = k
      BY <1>1
    <3>2. \A j \in 1 .. k + 1 : acc[j] = KeepOf(acc[j - 1], more[j])
      BY <2>1 DEF KeepsTo
    <3>3. acc[k + 1] = KeepOf(acc[(k + 1) - 1], more[k + 1])
      BY <3>1, <3>2, Zenon
    <3> QED BY <3>1, <3>3
  <2> QED BY <1>2, <2>1, <2>2, <2>3 DEF KeepOf
<1> QED
  BY <1>4, <1>5 DEF more

-----------------------------------------------------------------------------
(* Bins *)

\* The sequences in some bins.
Held(all) == UNION {Range(all[b]) : b \in DOMAIN all}

\* No sequence is in two bins, or twice in one.
Apart(all) ==
  \A b, c \in DOMAIN all : \A k \in DOMAIN all[b], l \in DOMAIN all[c] :
    all[b][k] = all[c][l] => b = c /\ k = l

NoneEmpty(all) == \A b \in DOMAIN all : all[b] # <<>>

LEMMA HeldIs ==
  ASSUME NEW all, NEW i
  PROVE  i \in Held(all) <=> \E b \in DOMAIN all : \E k \in DOMAIN all[b] : all[b][k] = i
BY DEF Held, Range

\* A bin that gets one more sequence.
Grown(all, b, i) == [all EXCEPT ![b] = Append(@, i)]

HasGrown(grown, all, b, i) ==
  /\ Len(grown) = Len(all) /\ DOMAIN grown = DOMAIN all
  /\ grown[b] = Append(all[b], i)
  /\ \A c \in DOMAIN all : c # b => grown[c] = all[c]
  /\ NoneEmpty(all) => NoneEmpty(grown)
  /\ Held(grown) = Held(all) \cup {i}
  /\ Apart(grown) <=> Apart(all) /\ i \notin Held(all)

LEMMA Grows ==
  ASSUME NEW D, NEW all \in Seq(Seq(D)), NEW b \in DOMAIN all, NEW i \in D,
         NEW grown, grown = Grown(all, b, i)
  PROVE  grown \in Seq(Seq(D)) /\ HasGrown(grown, all, b, i)
<1>1. grown \in Seq(Seq(D)) /\ Len(grown) = Len(all) /\ DOMAIN grown = DOMAIN all
  BY DEF Grown
<1>2. \A c \in DOMAIN all : c # b => grown[c] = all[c]
  BY DEF Grown
<1>0. grown[b] = Append(all[b], i)
  BY DEF Grown
<1>3. all[b] \in Seq(D)
  OBVIOUS
<1> DEFINE n == Len(all[b])
<1>4. /\ n \in Nat /\ DOMAIN all[b] = 1 .. n /\ DOMAIN grown[b] = 1 .. n + 1
      /\ grown[b][n + 1] = i /\ \A k \in 1 .. n : grown[b][k] = all[b][k]
  BY <1>0, <1>3
<1> HIDE DEF n
<1>5. NoneEmpty(all) => NoneEmpty(grown)
  <2>1. grown[b] # <<>>
    BY <1>4
  <2> QED BY <1>1, <1>2, <2>1 DEF NoneEmpty
<1>6. Held(grown) = Held(all) \cup {i}
  <2>1. ASSUME NEW x \in Held(grown) PROVE x \in Held(all) \cup {i}
    <3> DEFINE HasX(c) == \E k \in DOMAIN grown[c] : grown[c][k] = x
    <3>1. \E c \in DOMAIN grown : HasX(c)
      <4>1. x \in Held(grown) <=> \E c \in DOMAIN grown : HasX(c)
        BY HeldIs
      <4> HIDE DEF HasX
      <4> QED BY <2>1, <4>1, Zenon
    <3> HIDE DEF HasX
    <3>7. PICK c \in DOMAIN grown : HasX(c)
      BY <3>1, Zenon
    <3>2. PICK k \in DOMAIN grown[c] : grown[c][k] = x
      BY <3>7, Zenon DEF HasX
    <3>3. CASE c = b /\ k = n + 1
      BY <1>4, <3>2, <3>3
    <3>4. CASE ~(c = b /\ k = n + 1)
      <4>1. c \in DOMAIN all /\ k \in DOMAIN all[c] /\ all[c][k] = x
        <5>1. c \in DOMAIN all
          BY <1>1
        <5>2. CASE c = b
          <6>1. k \in 1 .. n + 1 /\ k # n + 1
            BY <1>4, <3>4, <5>2
          <6>2. k \in 1 .. n
            BY <1>4, <6>1
          <6> QED BY <1>4, <3>2, <5>1, <5>2, <6>2
        <5>3. CASE c # b
          BY <1>2, <3>2, <5>1, <5>3
        <5> QED BY <5>2, <5>3
      <4>2. x \in Held(all)
        BY <4>1, HeldIs, Zenon
      <4> QED BY <4>2
    <3> QED BY <3>3, <3>4
  <2>2. ASSUME NEW x \in Held(all) PROVE x \in Held(grown)
    <3>1. PICK c \in DOMAIN all : \E k \in DOMAIN all[c] : all[c][k] = x
      BY <2>2, HeldIs, Zenon
    <3>2. PICK k \in DOMAIN all[c] : all[c][k] = x
      BY <3>1
    <3>3. k \in DOMAIN grown[c] /\ grown[c][k] = x
      <4>1. CASE c = b
        <5>1. k \in 1 .. n
          BY <1>4, <4>1
        <5>2. k \in 1 .. n + 1
          BY <1>4, <5>1
        <5> QED BY <1>4, <3>2, <4>1, <5>1, <5>2
      <4>2. CASE c # b
        BY <1>2, <3>2, <4>2
      <4> QED BY <4>1, <4>2
    <3> QED BY <1>1, <3>3, HeldIs
  <2>3. i \in Held(grown)
    <3>1. n + 1 \in DOMAIN grown[b]
      BY <1>4
    <3> QED BY <1>1, <1>4, <3>1, HeldIs
  <2> QED BY <2>1, <2>2, <2>3
<1>7. ASSUME Apart(all), i \notin Held(all) PROVE Apart(grown)
  <2>1. ASSUME NEW c \in DOMAIN grown, NEW d \in DOMAIN grown,
               NEW k \in DOMAIN grown[c], NEW l \in DOMAIN grown[d], grown[c][k] = grown[d][l]
        PROVE  c = d /\ k = l
    <3>1. ASSUME NEW e \in DOMAIN grown, NEW m \in DOMAIN grown[e]
          PROVE  \/ e = b /\ m = n + 1 /\ grown[e][m] = i
                 \/ m \in DOMAIN all[e] /\ grown[e][m] = all[e][m] /\ all[e][m] # i
      <4>1. CASE e = b /\ m = n + 1
        BY <1>4, <4>1
      <4>2. CASE ~(e = b /\ m = n + 1)
        <5>1. m \in DOMAIN all[e] /\ grown[e][m] = all[e][m]
          <6>1. CASE e = b
            <7>1. m \in 1 .. n + 1 /\ m # n + 1
              BY <1>4, <4>2, <6>1
            <7>2. m \in 1 .. n
              BY <1>4, <7>1
            <7> QED BY <1>4, <6>1, <7>2
          <6>2. CASE e # b
            BY <1>1, <1>2, <6>2
          <6> QED BY <6>1, <6>2
        <5>2. all[e][m] # i
          BY <1>1, <1>7, <5>1, HeldIs
        <5> QED BY <5>1, <5>2
      <4> QED BY <4>1, <4>2
    <3>2. c \in DOMAIN all /\ d \in DOMAIN all
      BY <1>1
    <3>3. \/ c = b /\ k = n + 1 /\ grown[c][k] = i
          \/ k \in DOMAIN all[c] /\ grown[c][k] = all[c][k] /\ all[c][k] # i
      BY <3>1
    <3>4. \/ d = b /\ l = n + 1 /\ grown[d][l] = i
          \/ l \in DOMAIN all[d] /\ grown[d][l] = all[d][l] /\ all[d][l] # i
      BY <3>1
    <3>5. k \in DOMAIN all[c] /\ l \in DOMAIN all[d] /\ all[c][k] = all[d][l] => c = d /\ k = l
      BY <1>7, <3>2 DEF Apart
    <3> QED BY <2>1, <3>3, <3>4, <3>5
  <2> QED BY <2>1 DEF Apart
<1>8. ASSUME Apart(grown) PROVE Apart(all) /\ i \notin Held(all)
  <2>1. ASSUME NEW c \in DOMAIN all, NEW k \in DOMAIN all[c]
        PROVE  /\ c \in DOMAIN grown /\ k \in DOMAIN grown[c] /\ grown[c][k] = all[c][k]
               /\ ~(c = b /\ k = n + 1)
    <3>1. CASE c = b
      <4>1. k \in 1 .. n /\ k \in 1 .. n + 1 /\ k # n + 1
        BY <1>4, <2>1, <3>1
      <4> QED BY <1>1, <1>4, <3>1, <4>1
    <3>2. CASE c # b
      BY <1>1, <1>2, <2>1, <3>2
    <3> QED BY <3>1, <3>2
  <2>2. Apart(all)
    BY <1>8, <2>1 DEF Apart
  <2>3. ASSUME i \in Held(all) PROVE FALSE
    <3>1. PICK c \in DOMAIN all : \E k \in DOMAIN all[c] : all[c][k] = i
      BY <2>3, HeldIs, Zenon
    <3>2. PICK k \in DOMAIN all[c] : all[c][k] = i
      BY <3>1
    <3>3. /\ c \in DOMAIN grown /\ k \in DOMAIN grown[c] /\ grown[c][k] = i
          /\ ~(c = b /\ k = n + 1)
      BY <2>1, <3>2
    <3>4. b \in DOMAIN grown /\ n + 1 \in DOMAIN grown[b] /\ grown[b][n + 1] = i
      <4>1. n + 1 \in 1 .. n + 1
        BY <1>4
      <4> QED BY <1>1, <1>4, <4>1
    <3> QED BY <1>8, <3>3, <3>4 DEF Apart
  <2> QED BY <2>2, <2>3
<1> QED
  BY <1>0, <1>1, <1>2, <1>5, <1>6, <1>7, <1>8 DEF HasGrown

\* A new bin.
HasOpened(opened, all, bin) ==
  /\ Len(opened) = Len(all) + 1
  /\ DOMAIN opened = DOMAIN all \cup {Len(all) + 1} /\ Len(all) + 1 \notin DOMAIN all
  /\ opened[Len(all) + 1] = bin
  /\ \A c \in DOMAIN all : opened[c] = all[c]
  /\ NoneEmpty(all) /\ bin # <<>> => NoneEmpty(opened)
  /\ Held(opened) = Held(all) \cup Range(bin)
  /\ Apart(all) /\ Range(bin) \cap Held(all) = {} /\ IsInjective(bin) => Apart(opened)

LEMMA Opens ==
  ASSUME NEW D, NEW all \in Seq(Seq(D)), NEW bin \in Seq(D),
         NEW opened, opened = Append(all, bin)
  PROVE  opened \in Seq(Seq(D)) /\ HasOpened(opened, all, bin)
<1> DEFINE n == Len(all)
<1>1. /\ opened \in Seq(Seq(D)) /\ Len(opened) = n + 1 /\ n \in Nat
      /\ DOMAIN opened = 1 .. n + 1 /\ DOMAIN all = 1 .. n
      /\ opened[n + 1] = bin
      /\ \A c \in 1 .. n : opened[c] = all[c]
  OBVIOUS
<1> HIDE DEF n
<1>2. DOMAIN opened = DOMAIN all \cup {n + 1} /\ n + 1 \notin DOMAIN all
  BY <1>1
<1>3. NoneEmpty(all) /\ bin # <<>> => NoneEmpty(opened)
  BY <1>1, <1>2 DEF NoneEmpty
<1>4. Held(opened) = Held(all) \cup Range(bin)
  BY <1>1, <1>2 DEF Held
<1>5. ASSUME Apart(all), Range(bin) \cap Held(all) = {}, IsInjective(bin) PROVE Apart(opened)
  <2>1. ASSUME NEW c \in DOMAIN opened, NEW d \in DOMAIN opened,
               NEW k \in DOMAIN opened[c], NEW l \in DOMAIN opened[d], opened[c][k] = opened[d][l]
        PROVE  c = d /\ k = l
    <3>1. CASE c = n + 1 /\ d = n + 1
      BY <1>1, <1>5, <2>1, <3>1 DEF IsInjective
    <3>2. CASE c = n + 1 /\ d # n + 1
      <4>1. d \in DOMAIN all /\ l \in DOMAIN all[d] /\ all[d][l] \in Held(all)
        BY <1>1, <1>2, <3>2, HeldIs
      <4>2. k \in DOMAIN bin /\ bin[k] \in Range(bin)
        BY <1>1, <3>2 DEF Range
      <4> QED BY <1>1, <1>5, <2>1, <3>2, <4>1, <4>2
    <3>3. CASE c # n + 1 /\ d = n + 1
      <4>1. c \in DOMAIN all /\ k \in DOMAIN all[c] /\ all[c][k] \in Held(all)
        BY <1>1, <1>2, <3>3, HeldIs
      <4>2. l \in DOMAIN bin /\ bin[l] \in Range(bin)
        BY <1>1, <3>3 DEF Range
      <4> QED BY <1>1, <1>5, <2>1, <3>3, <4>1, <4>2
    <3>4. CASE c # n + 1 /\ d # n + 1
      BY <1>1, <1>2, <1>5, <2>1, <3>4 DEF Apart
    <3> QED BY <3>1, <3>2, <3>3, <3>4
  <2> QED BY <2>1 DEF Apart
<1> QED
  BY <1>1, <1>2, <1>3, <1>4, <1>5 DEF n, HasOpened

\* more has the bins of all and one other, at p; what stands at d in more stood
\* at m[d] in all.
OneMore(more, all, bin, p, m) ==
  /\ p \in DOMAIN more /\ more[p] = bin
  /\ m \in [DOMAIN more \ {p} -> DOMAIN all]
  /\ \A c, d \in DOMAIN more \ {p} : m[c] = m[d] => c = d
  /\ \A c \in DOMAIN all : \E d \in DOMAIN more \ {p} : m[d] = c
  /\ \A d \in DOMAIN more \ {p} : more[d] = all[m[d]]

LEMMA OneMoreHolds ==
  ASSUME NEW more, NEW all, NEW bin, NEW p, NEW m, OneMore(more, all, bin, p, m)
  PROVE  /\ NoneEmpty(more) <=> NoneEmpty(all) /\ bin # <<>>
         /\ Held(more) = Held(all) \cup Range(bin)
         /\ Apart(more) <=> Apart(all) /\ Range(bin) \cap Held(all) = {} /\ IsInjective(bin)
<1> DEFINE others == DOMAIN more \ {p}
<1>1. p \in DOMAIN more /\ more[p] = bin /\ p \notin others
  BY DEF OneMore
<1>2. \A d \in others : d \in DOMAIN more /\ m[d] \in DOMAIN all /\ more[d] = all[m[d]]
  BY DEF OneMore
<1>3. \A c, d \in others : m[c] = m[d] => c = d
  BY DEF OneMore
<1>4. \A c \in DOMAIN all : \E d \in others : m[d] = c
  BY DEF OneMore
<1>5. \A d \in DOMAIN more : d = p \/ d \in others
  OBVIOUS
<1> HIDE DEF others
<1>6. NoneEmpty(more) <=> NoneEmpty(all) /\ bin # <<>>
  <2>1. NoneEmpty(more) => NoneEmpty(all) /\ bin # <<>>
    BY <1>1, <1>2, <1>4 DEF NoneEmpty
  <2>2. NoneEmpty(all) /\ bin # <<>> => NoneEmpty(more)
    BY <1>1, <1>2, <1>5 DEF NoneEmpty
  <2> QED BY <2>1, <2>2
<1>7. Held(more) = Held(all) \cup Range(bin)
  <2>1. ASSUME NEW x \in Held(more) PROVE x \in Held(all) \cup Range(bin)
    <3>1. PICK d \in DOMAIN more : x \in Range(more[d])
      BY DEF Held
    <3>2. d = p \/ d \in others
      BY <1>5
    <3> QED BY <1>1, <1>2, <3>1, <3>2 DEF Held
  <2>2. ASSUME NEW x \in Held(all) PROVE x \in Held(more)
    <3>1. PICK c \in DOMAIN all : x \in Range(all[c])
      BY DEF Held
    <3>2. PICK d \in others : m[d] = c
      BY <1>4
    <3> QED BY <1>2, <3>1, <3>2 DEF Held
  <2>3. Range(bin) \subseteq Held(more)
    BY <1>1 DEF Held
  <2> QED BY <2>1, <2>2, <2>3
<1>8. ASSUME Apart(more)
      PROVE  Apart(all) /\ Range(bin) \cap Held(all) = {} /\ IsInjective(bin)
  <2>1. ASSUME NEW b \in DOMAIN all, NEW c \in DOMAIN all,
               NEW k \in DOMAIN all[b], NEW l \in DOMAIN all[c], all[b][k] = all[c][l]
        PROVE  b = c /\ k = l
    <3>1. PICK d \in others : m[d] = b
      BY <1>4
    <3>2. PICK e \in others : m[e] = c
      BY <1>4
    <3>3. /\ d \in DOMAIN more /\ more[d] = all[b]
          /\ e \in DOMAIN more /\ more[e] = all[c]
      BY <1>2, <3>1, <3>2
    <3>4. d = e /\ k = l
      BY <1>8, <2>1, <3>3 DEF Apart
    <3> QED BY <3>1, <3>2, <3>4
  <2>2. ASSUME NEW x \in Range(bin), x \in Held(all) PROVE FALSE
    <3>1. PICK k \in DOMAIN bin : bin[k] = x
      BY DEF Range
    <3>2. PICK c \in DOMAIN all : \E l \in DOMAIN all[c] : all[c][l] = x
      BY <2>2, HeldIs, Zenon
    <3>3. PICK l \in DOMAIN all[c] : all[c][l] = x
      BY <3>2
    <3>4. PICK d \in others : m[d] = c
      BY <1>4
    <3>5. d \in DOMAIN more /\ more[d] = all[c] /\ d # p
      BY <1>1, <1>2, <3>4
    <3> QED BY <1>1, <1>8, <3>1, <3>3, <3>5 DEF Apart
  <2>3. IsInjective(bin)
    BY <1>1, <1>8 DEF Apart, IsInjective
  <2> QED BY <2>1, <2>2, <2>3 DEF Apart
<1>9. ASSUME Apart(all), Range(bin) \cap Held(all) = {}, IsInjective(bin)
      PROVE  Apart(more)
  <2>1. ASSUME NEW c \in DOMAIN more, NEW d \in DOMAIN more,
               NEW k \in DOMAIN more[c], NEW l \in DOMAIN more[d], more[c][k] = more[d][l]
        PROVE  c = d /\ k = l
    <3>1. ASSUME NEW e \in DOMAIN more, NEW j \in DOMAIN more[e]
          PROVE  \/ e = p /\ more[e] = bin /\ more[e][j] \in Range(bin)
                 \/ e \in others /\ more[e] = all[m[e]] /\ more[e][j] \in Held(all)
      <4>1. CASE e = p
        BY <1>1, <3>1, <4>1 DEF Range
      <4>2. CASE e \in others
        <5>1. m[e] \in DOMAIN all /\ more[e] = all[m[e]]
          BY <1>2, <4>2
        <5>2. more[e][j] \in Held(all)
          BY <3>1, <5>1, HeldIs
        <5> QED BY <4>2, <5>1, <5>2
      <4> QED BY <1>5, <4>1, <4>2
    <3>2. \/ c = p /\ more[c] = bin /\ more[c][k] \in Range(bin)
          \/ c \in others /\ more[c] = all[m[c]] /\ more[c][k] \in Held(all)
      BY <3>1
    <3>3. \/ d = p /\ more[d] = bin /\ more[d][l] \in Range(bin)
          \/ d \in others /\ more[d] = all[m[d]] /\ more[d][l] \in Held(all)
      BY <3>1
    <3>4. CASE c = p /\ d = p
      BY <1>1, <1>9, <2>1, <3>4 DEF IsInjective
    <3>5. CASE c \in others /\ d \in others
      <4>1. m[c] \in DOMAIN all /\ m[d] \in DOMAIN all /\ more[c] = all[m[c]] /\ more[d] = all[m[d]]
        BY <1>2, <3>5
      <4>2. m[c] = m[d] /\ k = l
        BY <1>9, <2>1, <4>1 DEF Apart
      <4> QED BY <1>3, <3>5, <4>2
    <3> QED BY <1>1, <1>9, <2>1, <3>2, <3>3, <3>4, <3>5
  <2> QED BY <2>1 DEF Apart
<1> QED
  BY <1>6, <1>7, <1>8, <1>9

\* One sequence after another.
IsJoined(u, s, t) ==
  /\ Len(u) = Len(s) + Len(t)
  /\ \A k \in 1 .. Len(s) : u[k] = s[k]
  /\ \A k \in 1 .. Len(t) : u[Len(s) + k] = t[k]

LEMMA Concatenates ==
  ASSUME NEW T, NEW s \in Seq(T), NEW t \in Seq(T)
  PROVE  s \o t \in Seq(T) /\ IsJoined(s \o t, s, t)
BY DEF IsJoined

\* A bin that is put in at p.
HasInserted(more, all, p, bin) ==
  /\ Len(more) = Len(all) + 1
  /\ \A k \in 1 .. Len(all) + 1 :
       more[k] = IF k < p THEN all[k] ELSE IF k = p THEN bin ELSE all[k - 1]
  /\ \E m : OneMore(more, all, bin, p, m)

LEMMA Inserts ==
  ASSUME NEW D, NEW all \in Seq(Seq(D)), NEW bin \in Seq(D), NEW p \in 1 .. Len(all) + 1,
         NEW more, more = InsertAt(all, p, bin)
  PROVE  more \in Seq(Seq(D)) /\ HasInserted(more, all, p, bin)
<1> DEFINE n == Len(all)
           a == SubSeq(all, 1, p - 1)
           c == SubSeq(all, p, n)
<1>1. n \in Nat /\ DOMAIN all = 1 .. n /\ p \in 1 .. n + 1 /\ all \in [1 .. n -> Seq(D)]
  OBVIOUS
<1>2. a \in Seq(Seq(D)) /\ Len(a) = p - 1 /\ \A k \in 1 .. p - 1 : a[k] = all[k]
  BY <1>1
<1>3. c \in Seq(Seq(D)) /\ Len(c) = n - p + 1 /\ \A k \in 1 .. n - p + 1 : c[k] = all[p + k - 1]
  BY <1>1
<1>4. more = (a \o <<bin>>) \o c
  BY DEF InsertAt
<1> HIDE DEF n, a, c
<1> DEFINE b == a \o <<bin>>
<1>5. /\ b \in Seq(Seq(D)) /\ Len(b) = p /\ b[p] = bin
      /\ \A k \in 1 .. p - 1 : b[k] = all[k]
  <2>1. b = Append(a, bin)
    BY <1>2
  <2> HIDE DEF b
  <2> QED BY <1>1, <1>2, <2>1
<1> HIDE DEF b
<1>6. more = b \o c
  BY <1>4 DEF b
<1>7. /\ more \in Seq(Seq(D)) /\ Len(more) = n + 1
      /\ \A k \in 1 .. p : more[k] = b[k]
      /\ \A k \in p + 1 .. n + 1 : more[k] = c[k - p]
  <2>1. /\ more \in Seq(Seq(D)) /\ Len(more) = Len(b) + Len(c)
        /\ \A k \in 1 .. Len(b) : more[k] = b[k]
        /\ \A k \in 1 .. Len(c) : more[Len(b) + k] = c[k]
    <3>1. b \in Seq(Seq(D)) /\ c \in Seq(Seq(D))
      BY <1>3, <1>5
    <3>2. more \in Seq(Seq(D)) /\ IsJoined(more, b, c)
      BY <1>6, <3>1, Concatenates, Zenon
    <3> QED BY <3>2 DEF IsJoined
  <2>2. Len(more) = n + 1
    BY <1>1, <1>3, <1>5, <2>1
  <2>3. ASSUME NEW k \in p + 1 .. n + 1 PROVE more[k] = c[k - p]
    <3>1. k - p \in 1 .. n - p + 1 /\ p + (k - p) = k
      BY <1>1
    <3> QED BY <1>3, <1>5, <2>1, <3>1
  <2> QED BY <1>5, <2>1, <2>2, <2>3
<1>8. ASSUME NEW k \in 1 .. n + 1
      PROVE  more[k] = IF k < p THEN all[k] ELSE IF k = p THEN bin ELSE all[k - 1]
  <2>1. CASE k < p
    <3>1. k \in 1 .. p /\ k \in 1 .. p - 1
      BY <1>1, <2>1
    <3> QED BY <1>5, <1>7, <2>1, <3>1
  <2>2. CASE k = p
    BY <1>1, <1>5, <1>7, <2>2
  <2>3. CASE k > p
    <3>1. k \in p + 1 .. n + 1 /\ k - p \in 1 .. n - p + 1 /\ p + (k - p) - 1 = k - 1
      BY <1>1, <2>3
    <3>2. more[k] = c[k - p] /\ c[k - p] = all[p + (k - p) - 1]
      BY <1>3, <1>7, <3>1
    <3> QED BY <1>1, <2>3, <3>1, <3>2
  <2> QED BY <1>1, <2>1, <2>2, <2>3
<1>9. \E m : OneMore(more, all, bin, p, m)
  <2> DEFINE m == [k \in DOMAIN more \ {p} |-> IF k < p THEN k ELSE k - 1]
  <2>1. DOMAIN more = 1 .. n + 1 /\ p \in DOMAIN more /\ more[p] = bin
    BY <1>1, <1>7, <1>8
  <2>2. \A k \in DOMAIN more \ {p} : m[k] = IF k < p THEN k ELSE k - 1
    OBVIOUS
  <2>3. m \in [DOMAIN more \ {p} -> DOMAIN all]
    BY <1>1, <2>1
  <2> HIDE DEF m
  <2>4. \A k, l \in DOMAIN more \ {p} : m[k] = m[l] => k = l
    BY <1>1, <2>1, <2>2
  <2>5. ASSUME NEW k \in DOMAIN all PROVE \E l \in DOMAIN more \ {p} : m[l] = k
    <3>1. CASE k < p
      <4>1. k \in DOMAIN more \ {p}
        BY <1>1, <2>1, <3>1
      <4> QED BY <2>2, <3>1, <4>1
    <3>2. CASE ~(k < p)
      <4>1. k + 1 \in DOMAIN more \ {p} /\ ~(k + 1 < p) /\ (k + 1) - 1 = k
        BY <1>1, <2>1, <3>2
      <4> QED BY <2>2, <4>1
    <3> QED BY <3>1, <3>2
  <2>6. \A k \in DOMAIN more \ {p} : more[k] = all[m[k]]
    BY <1>1, <1>8, <2>1, <2>2
  <2>7. OneMore(more, all, bin, p, m)
    BY <2>1, <2>3, <2>4, <2>5, <2>6 DEF OneMore
  <2> QED BY <2>7
<1> QED
  BY <1>7, <1>8, <1>9 DEF n, HasInserted

\* The bins behind the first one.
IsFollowed(all, t, h) ==
  /\ Len(t) = Len(all) - 1 /\ h = all[1] /\ 1 \in DOMAIN all
  /\ \A k \in 1 .. Len(all) - 1 : t[k] = all[k + 1]
  /\ \E m : OneMore(all, t, h, 1, m)

LEMMA Follows ==
  ASSUME NEW D, NEW all \in Seq(Seq(D)), all # <<>>
  PROVE  /\ Tail(all) \in Seq(Seq(D)) /\ Head(all) \in Seq(D)
         /\ IsFollowed(all, Tail(all), Head(all))
<1> DEFINE n == Len(all)
           t == Tail(all)
           h == Head(all)
<1>1. n \in Nat \ {0} /\ DOMAIN all = 1 .. n /\ h = all[1] /\ h \in Seq(D)
  OBVIOUS
<1>2. t \in Seq(Seq(D)) /\ Len(t) = n - 1 /\ \A k \in 1 .. n - 1 : t[k] = all[k + 1]
  OBVIOUS
<1> HIDE DEF n, t, h
<1>3. DOMAIN t = 1 .. n - 1
  BY <1>1, <1>2
<1>4. \E m : OneMore(all, t, h, 1, m)
  <2> DEFINE m == [k \in DOMAIN all \ {1} |-> k - 1]
  <2>1. \A k \in DOMAIN all \ {1} : m[k] = k - 1
    OBVIOUS
  <2>2. m \in [DOMAIN all \ {1} -> DOMAIN t]
    BY <1>1, <1>3
  <2> HIDE DEF m
  <2>3. \A k, l \in DOMAIN all \ {1} : m[k] = m[l] => k = l
    BY <1>1, <2>1
  <2>4. ASSUME NEW k \in DOMAIN t PROVE \E l \in DOMAIN all \ {1} : m[l] = k
    <3>1. k + 1 \in DOMAIN all \ {1} /\ (k + 1) - 1 = k
      BY <1>1, <1>3
    <3> QED BY <2>1, <3>1
  <2>5. ASSUME NEW k \in DOMAIN all \ {1} PROVE all[k] = t[m[k]]
    <3>1. k - 1 \in 1 .. n - 1 /\ (k - 1) + 1 = k
      BY <1>1
    <3> QED BY <1>2, <2>1, <3>1
  <2>6. 1 \in DOMAIN all /\ all[1] = h
    BY <1>1
  <2>7. OneMore(all, t, h, 1, m)
    BY <2>2, <2>3, <2>4, <2>5, <2>6 DEF OneMore
  <2> QED BY <2>7
<1> QED
  BY <1>1, <1>2, <1>4 DEF n, t, h, IsFollowed

\* Two lists of bins, one after the other.
HasJoined(joined, all, more) ==
  /\ Len(joined) = Len(all) + Len(more)
  /\ \A d \in DOMAIN joined :
       \/ d \in DOMAIN all /\ joined[d] = all[d]
       \/ d > Len(all) /\ d - Len(all) \in DOMAIN more /\ joined[d] = more[d - Len(all)]
  /\ NoneEmpty(all) /\ NoneEmpty(more) => NoneEmpty(joined)
  /\ Held(joined) = Held(all) \cup Held(more)
  /\ Apart(all) /\ Apart(more) /\ Held(all) \cap Held(more) = {} => Apart(joined)

LEMMA Joins ==
  ASSUME NEW D, NEW all \in Seq(Seq(D)), NEW more \in Seq(Seq(D)),
         NEW joined, joined = all \o more
  PROVE  joined \in Seq(Seq(D)) /\ HasJoined(joined, all, more)
<1> DEFINE n == Len(all)
<1>1. /\ joined \in Seq(Seq(D)) /\ Len(joined) = n + Len(more)
      /\ \A k \in 1 .. n : joined[k] = all[k]
      /\ \A k \in 1 .. Len(more) : joined[n + k] = more[k]
  <2>1. joined \in Seq(Seq(D)) /\ IsJoined(joined, all, more)
    BY Concatenates, Zenon
  <2> QED BY <2>1 DEF IsJoined
<1>2. n \in Nat /\ Len(more) \in Nat /\ DOMAIN all = 1 .. n /\ DOMAIN more = 1 .. Len(more)
  OBVIOUS
<1> HIDE DEF n
<1>3. DOMAIN joined = 1 .. n + Len(more)
  BY <1>1
<1>4. ASSUME NEW d \in DOMAIN joined
      PROVE  \/ d \in DOMAIN all /\ joined[d] = all[d]
             \/ d > n /\ d - n \in DOMAIN more /\ joined[d] = more[d - n]
  <2>1. CASE d <= n
    <3>1. d \in 1 .. n
      BY <1>2, <1>3, <2>1
    <3> QED BY <1>1, <1>2, <3>1
  <2>2. CASE d > n
    <3> DEFINE e == d - n
    <3>1. e \in 1 .. Len(more) /\ n + e = d
      BY <1>2, <1>3, <2>2
    <3> HIDE DEF e
    <3>2. joined[n + e] = more[e] /\ e \in DOMAIN more
      BY <1>1, <1>2, <3>1
    <3>3. d > n /\ e \in DOMAIN more /\ joined[d] = more[e]
      BY <2>2, <3>1, <3>2
    <3> QED BY <3>3 DEF e
  <2>3. d <= n \/ d > n
    BY <1>2, <1>3
  <2> QED BY <2>1, <2>2, <2>3, Zenon
<1>5. \A c \in DOMAIN all : c \in DOMAIN joined /\ joined[c] = all[c]
  BY <1>1, <1>2, <1>3
<1>6. ASSUME NEW c \in DOMAIN more PROVE n + c \in DOMAIN joined /\ joined[n + c] = more[c]
  <2>1. n + c \in DOMAIN joined
    BY <1>2, <1>3
  <2> QED BY <1>1, <1>2, <2>1
<1>7. NoneEmpty(all) /\ NoneEmpty(more) => NoneEmpty(joined)
  BY <1>4 DEF NoneEmpty
<1>8. Held(joined) = Held(all) \cup Held(more)
  <2>1. Held(joined) \subseteq Held(all) \cup Held(more)
    BY <1>4 DEF Held
  <2>2. Held(all) \subseteq Held(joined)
    BY <1>5 DEF Held
  <2>3. Held(more) \subseteq Held(joined)
    BY <1>6 DEF Held
  <2> QED BY <2>1, <2>2, <2>3
<1>9. ASSUME Apart(all), Apart(more), Held(all) \cap Held(more) = {}
      PROVE  Apart(joined)
  <2>1. ASSUME NEW c \in DOMAIN joined, NEW d \in DOMAIN joined,
               NEW k \in DOMAIN joined[c], NEW l \in DOMAIN joined[d], joined[c][k] = joined[d][l]
        PROVE  c = d /\ k = l
    <3>1. ASSUME NEW e \in DOMAIN joined, NEW j \in DOMAIN joined[e]
          PROVE  \/ e \in DOMAIN all /\ joined[e] = all[e] /\ joined[e][j] \in Held(all)
                 \/ /\ e - n \in DOMAIN more /\ joined[e] = more[e - n]
                    /\ joined[e][j] \in Held(more)
      <4>1. CASE e \in DOMAIN all /\ joined[e] = all[e]
        BY <3>1, <4>1, HeldIs
      <4>2. CASE e - n \in DOMAIN more /\ joined[e] = more[e - n]
        <5> DEFINE f == e - n
        <5>1. f \in DOMAIN more /\ joined[e] = more[f]
          BY <4>2
        <5> HIDE DEF f
        <5>2. joined[e][j] \in Held(more)
          BY <3>1, <5>1, HeldIs
        <5> QED BY <4>2, <5>2
      <4> QED BY <1>4, <4>1, <4>2
    <3>2. \/ c \in DOMAIN all /\ joined[c] = all[c] /\ joined[c][k] \in Held(all)
          \/ c - n \in DOMAIN more /\ joined[c] = more[c - n] /\ joined[c][k] \in Held(more)
      BY <3>1
    <3>3. \/ d \in DOMAIN all /\ joined[d] = all[d] /\ joined[d][l] \in Held(all)
          \/ d - n \in DOMAIN more /\ joined[d] = more[d - n] /\ joined[d][l] \in Held(more)
      BY <3>1
    <3>4. CASE c \in DOMAIN all /\ joined[c] = all[c] /\ d \in DOMAIN all /\ joined[d] = all[d]
      BY <1>9, <2>1, <3>4 DEF Apart
    <3>5. CASE /\ c - n \in DOMAIN more /\ joined[c] = more[c - n]
               /\ d - n \in DOMAIN more /\ joined[d] = more[d - n]
      <4> DEFINE f == c - n
                 g == d - n
      <4>1. /\ f \in DOMAIN more /\ joined[c] = more[f]
            /\ g \in DOMAIN more /\ joined[d] = more[g]
        BY <3>5
      <4> HIDE DEF f, g
      <4>2. f = g /\ k = l
        BY <1>9, <2>1, <4>1 DEF Apart
      <4> QED BY <1>2, <1>3, <4>2 DEF f, g
    <3> QED BY <1>9, <2>1, <3>2, <3>3, <3>4, <3>5
  <2> QED BY <2>1 DEF Apart
<1> QED
  BY <1>1, <1>4, <1>7, <1>8, <1>9 DEF n, HasJoined

\* A bin without its last sequence, which gets a bin of its own.
Cut(all, b) == Append([all EXCEPT ![b] = Front(@)], <<Last(all[b])>>)

HasCut(cut, all, b) ==
  /\ Len(cut) = Len(all) + 1
  /\ \A c \in DOMAIN all : c # b => cut[c] = all[c]
  /\ cut[b] = Front(all[b]) /\ Len(cut[b]) = Len(all[b]) - 1
  /\ cut[Len(all) + 1] = <<Last(all[b])>>
  /\ Held(cut) = Held(all)
  /\ Apart(all) => Apart(cut)
  /\ NoneEmpty(all) => NoneEmpty(cut)

\* All but the last, and the last.
LEMMA FrontAndLast ==
  ASSUME NEW D, NEW bin \in Seq(D), bin # <<>>
  PROVE  /\ Front(bin) \in Seq(D) /\ Len(Front(bin)) = Len(bin) - 1
         /\ Last(bin) \in D /\ bin = Append(Front(bin), Last(bin))
<1> DEFINE n == Len(bin)
           m == n - 1
<1>1. n \in Nat /\ n > 0 /\ bin[n] \in D
  OBVIOUS
<1>2. SubSeq(bin, 1, m) \in Seq(D) /\ Len(SubSeq(bin, 1, m)) = m
  <2>1. m \in Nat /\ m <= Len(bin)
    BY <1>1
  <2> HIDE DEF m
  <2> QED BY <2>1
<1>3. SubSeq(bin, 1, n) = bin
  BY Beginnings
<1>4. m \in Nat /\ m < Len(bin) /\ m + 1 = n
  BY <1>1
<1> HIDE DEF n, m
<1>5. SubSeq(bin, 1, m + 1) = Append(SubSeq(bin, 1, m), bin[m + 1])
  BY <1>4, Beginnings
<1>6. bin = Append(SubSeq(bin, 1, m), bin[n])
  BY <1>3, <1>4, <1>5
<1> QED
  BY <1>1, <1>2, <1>6 DEF Front, Last, n, m

LEMMA Cuts ==
  ASSUME NEW D, NEW all \in Seq(Seq(D)), NEW b \in DOMAIN all, Len(all[b]) > 1,
         NEW cut, cut = Cut(all, b)
  PROVE  cut \in Seq(Seq(D)) /\ HasCut(cut, all, b) /\ Last(all[b]) \in D
<1> DEFINE bin == all[b]
           n == Len(bin)
           last == Last(bin)
           front == Front(bin)
           short == [all EXCEPT ![b] = front]
           own == <<last>>
<1>1. bin \in Seq(D) /\ n \in Nat /\ n > 1
  OBVIOUS
<1>2. bin # <<>>
  BY <1>1
<1>3. last \in D /\ front \in Seq(D) /\ Len(front) = n - 1 /\ bin = Append(front, last)
  <2> HIDE DEF bin
  <2> QED BY <1>1, <1>2, FrontAndLast
<1>5. /\ short \in Seq(Seq(D)) /\ Len(short) = Len(all) /\ DOMAIN short = DOMAIN all
      /\ short[b] = front
      /\ \A c \in DOMAIN all : c # b => short[c] = all[c]
  <2> HIDE DEF front
  <2> QED BY <1>3
<1>6. all = Grown(short, b, last)
  <2>1. /\ Grown(short, b, last) \in [DOMAIN all -> Seq(D)]
        /\ Grown(short, b, last)[b] = bin
        /\ \A c \in DOMAIN all : c # b => Grown(short, b, last)[c] = all[c]
    <3> HIDE DEF short, front, last, bin
    <3> QED BY <1>1, <1>3, <1>5 DEF Grown
  <2>2. all \in [DOMAIN all -> Seq(D)]
    OBVIOUS
  <2> HIDE DEF short, front, last
  <2> QED BY <2>1, <2>2
<1>7. own \in Seq(D) /\ own # <<>> /\ Range(own) = {last} /\ IsInjective(own) /\ Len(own) = 1
  BY <1>3 DEF Range, IsInjective
<1>8. cut = Append(short, own)
  BY DEF Cut
<1> HIDE DEF bin, n, last, front, short, own
<1>9. HasGrown(all, short, b, last)
  <2>1. b \in DOMAIN short
    BY <1>5
  <2> QED BY <1>3, <1>5, <1>6, <2>1, Grows, Zenon
<1>10. cut \in Seq(Seq(D)) /\ HasOpened(cut, short, own)
  BY <1>5, <1>7, <1>8, Opens, Zenon
<1>11. NoneEmpty(all) => NoneEmpty(short)
  <2>1. front # <<>>
    BY <1>1, <1>3
  <2> QED BY <1>5, <2>1 DEF NoneEmpty
<1> QED
  <2>1. Apart(all) => Apart(cut)
    BY <1>7, <1>9, <1>10 DEF HasGrown, HasOpened
  <2>2. Held(cut) = Held(all)
    BY <1>7, <1>9, <1>10 DEF HasGrown, HasOpened
  <2>3. NoneEmpty(all) => NoneEmpty(cut)
    BY <1>7, <1>10, <1>11 DEF HasOpened
  <2>4. cut[b] = front
    BY <1>5, <1>10 DEF HasOpened
  <2>5. Len(cut) = Len(all) + 1 /\ cut[Len(all) + 1] = own
    BY <1>5, <1>10 DEF HasOpened
  <2>6. \A c \in DOMAIN all : c # b => cut[c] = all[c]
    BY <1>5, <1>10 DEF HasOpened
  <2> QED BY <1>3, <1>10, <2>1, <2>2, <2>3, <2>4, <2>5, <2>6 DEF HasCut, own, last, bin, n, front

-----------------------------------------------------------------------------
(* What holds of the bins all along *)

\* A sequence waits, or it is at one place of one bin, of those in all or of
\* those in rest; no bin of all is empty, and none has too many tokens.
Sound(D, lengths, wait, all, rest) ==
  /\ lengths \in [D -> Nat] /\ wait \in SUBSET D
  /\ all \in Seq(Seq(D)) /\ rest \in Seq(Seq(D))
  /\ Apart(all) /\ Apart(rest) /\ Held(all) \cap Held(rest) = {}
  /\ Held(all) \cup Held(rest) = D \ wait
  /\ NoneEmpty(all)
  /\ \A b \in DOMAIN all : Tokens(lengths, all[b]) <= Capacity
  /\ \A b \in DOMAIN rest : Tokens(lengths, rest[b]) <= Capacity

\* No bin has become lighter.
Heavier(lengths, more, all) ==
  /\ DOMAIN more = DOMAIN all
  /\ \A b \in DOMAIN all : Tokens(lengths, all[b]) <= Tokens(lengths, more[b])

LEMMA SoundTokens ==
  ASSUME NEW D, NEW lengths, NEW wait, NEW all, NEW rest, Sound(D, lengths, wait, all, rest)
  PROVE  /\ \A b \in DOMAIN all : all[b] \in Seq(D) /\ Tokens(lengths, all[b]) \in Nat
         /\ \A b \in DOMAIN rest : rest[b] \in Seq(D) /\ Tokens(lengths, rest[b]) \in Nat
         /\ \A i \in D : lengths[i] \in Nat
         /\ \A i \in wait : i \in D /\ i \notin Held(all) /\ i \notin Held(rest)
<1>1. /\ lengths \in [D -> Nat] /\ all \in Seq(Seq(D)) /\ rest \in Seq(Seq(D))
      /\ wait \in SUBSET D /\ Held(all) \cup Held(rest) = D \ wait
  BY DEF Sound
<1>2. ASSUME NEW bin \in Seq(D) PROVE Tokens(lengths, bin) \in Nat
  <2>1. CASE D = {}
    <3>1. bin = <<>>
      BY <2>1
    <3> QED BY <3>1, TokensOfNone
  <2>2. CASE D # {}
    <3>1. PICK i \in D : TRUE
      BY <2>2
    <3> QED BY <1>1, <3>1, TokensOfMore
  <2> QED BY <2>1, <2>2
<1>3. \A b \in DOMAIN all : all[b] \in Seq(D)
  BY <1>1
<1>4. \A b \in DOMAIN rest : rest[b] \in Seq(D)
  BY <1>1
<1> QED
  BY <1>1, <1>2, <1>3, <1>4

\* A sequence that waited joins a bin with room for it.
LEMMA SoundGrown ==
  ASSUME NEW D, NEW lengths, NEW wait, NEW all, NEW rest, Sound(D, lengths, wait, all, rest),
         NEW b \in DOMAIN all, NEW i \in wait, Tokens(lengths, all[b]) + lengths[i] <= Capacity,
         NEW grown, grown = Grown(all, b, i)
  PROVE  /\ Sound(D, lengths, wait \ {i}, grown, rest)
         /\ Heavier(lengths, grown, all)
<1>1. /\ lengths \in [D -> Nat] /\ all \in Seq(Seq(D)) /\ rest \in Seq(Seq(D))
      /\ wait \in SUBSET D /\ i \in D /\ i \notin Held(all) /\ i \notin Held(rest)
      /\ Held(all) \cup Held(rest) = D \ wait
  BY SoundTokens DEF Sound
<1>2. grown \in Seq(Seq(D)) /\ HasGrown(grown, all, b, i)
  BY <1>1, Grows, Zenon
<1>3. Tokens(lengths, grown[b]) = Tokens(lengths, all[b]) + lengths[i]
  <2>1. all[b] \in Seq(D) /\ grown[b] = Append(all[b], i)
    BY <1>1, <1>2 DEF HasGrown
  <2>2. Adds(lengths, Append(all[b], i), all[b], i)
    BY <1>1, <2>1, AppendAdds, Zenon
  <2> QED BY <2>1, <2>2 DEF Adds
<1>4. DOMAIN grown = DOMAIN all /\ \A c \in DOMAIN all : c # b => grown[c] = all[c]
  BY <1>2 DEF HasGrown
<1>5. /\ Apart(grown) /\ NoneEmpty(grown)
      /\ Held(grown) \cap Held(rest) = {} /\ Held(grown) \cup Held(rest) = D \ (wait \ {i})
  BY <1>1, <1>2 DEF HasGrown, Sound
<1>6. \A c \in DOMAIN grown : Tokens(lengths, grown[c]) <= Capacity
  BY <1>3, <1>4 DEF Sound
<1>7. \A c \in DOMAIN all : Tokens(lengths, all[c]) <= Tokens(lengths, grown[c])
  <2>1. \A c \in DOMAIN all : Tokens(lengths, all[c]) \in Nat /\ lengths[i] \in Nat
    BY <1>1, SoundTokens
  <2> QED BY <1>3, <1>4, <2>1
<1> QED
  BY <1>1, <1>2, <1>4, <1>5, <1>6, <1>7 DEF Sound, Heavier

\* A sequence that waited opens a bin.
LEMMA SoundOpened ==
  ASSUME NEW D, NEW lengths, NEW wait, NEW all, NEW rest, Sound(D, lengths, wait, all, rest),
         NEW i \in wait, lengths[i] <= Capacity,
         NEW opened, opened = Append(all, <<i>>)
  PROVE  /\ Sound(D, lengths, wait \ {i}, opened, rest)
         /\ HasOpened(opened, all, <<i>>) /\ Tokens(lengths, <<i>>) = lengths[i]
<1>1. /\ lengths \in [D -> Nat] /\ all \in Seq(Seq(D)) /\ rest \in Seq(Seq(D))
      /\ wait \in SUBSET D /\ i \in D /\ i \notin Held(all) /\ i \notin Held(rest)
      /\ Held(all) \cup Held(rest) = D \ wait
  BY SoundTokens DEF Sound
<1> DEFINE own == <<i>>
<1>2. own \in Seq(D) /\ own # <<>> /\ Range(own) = {i} /\ IsInjective(own)
  BY <1>1 DEF Range, IsInjective
<1>3. Tokens(lengths, own) = lengths[i]
  BY <1>1, TokensOfOne
<1> HIDE DEF own
<1>4. opened \in Seq(Seq(D)) /\ HasOpened(opened, all, own)
  <2>1. opened = Append(all, own)
    BY DEF own
  <2> QED BY <1>1, <1>2, <2>1, Opens, Zenon
<1>5. /\ Apart(opened) /\ NoneEmpty(opened)
      /\ Held(opened) \cap Held(rest) = {} /\ Held(opened) \cup Held(rest) = D \ (wait \ {i})
  BY <1>1, <1>2, <1>4 DEF HasOpened, Sound
<1>6. \A c \in DOMAIN opened : Tokens(lengths, opened[c]) <= Capacity
  <2>1. /\ DOMAIN opened = DOMAIN all \cup {Len(all) + 1} /\ opened[Len(all) + 1] = own
        /\ \A c \in DOMAIN all : opened[c] = all[c]
    BY <1>4 DEF HasOpened
  <2> QED BY <1>3, <2>1 DEF Sound
<1> QED
  BY <1>1, <1>3, <1>4, <1>5, <1>6 DEF Sound, own

\* A bin loses its last sequence to a new bin.
LEMMA SoundCut ==
  ASSUME NEW D, NEW lengths, NEW wait, NEW all, NEW rest, Sound(D, lengths, wait, all, rest),
         NEW b \in DOMAIN all, Len(all[b]) > 1,
         NEW cut, cut = Cut(all, b)
  PROVE  Sound(D, lengths, wait, cut, rest) /\ HasCut(cut, all, b)
<1>1. lengths \in [D -> Nat] /\ all \in Seq(Seq(D)) /\ all[b] \in Seq(D)
  BY SoundTokens DEF Sound
<1>2. cut \in Seq(Seq(D)) /\ HasCut(cut, all, b) /\ Last(all[b]) \in D
  BY <1>1, Cuts, Zenon
<1>3. /\ Apart(cut) /\ NoneEmpty(cut)
      /\ Held(cut) \cap Held(rest) = {} /\ Held(cut) \cup Held(rest) = D \ wait
  BY <1>2 DEF HasCut, Sound
<1>4. /\ Front(all[b]) \in Seq(D) /\ all[b] = Append(Front(all[b]), Last(all[b]))
  <2>1. all[b] # <<>>
    BY <1>1
  <2> QED BY <1>1, <2>1, FrontAndLast, Zenon
<1> DEFINE front == Front(all[b])
           last == Last(all[b])
<1>5. /\ front \in Seq(D) /\ last \in D /\ all[b] = Append(front, last)
      /\ cut[b] = front /\ cut[Len(all) + 1] = <<last>>
  BY <1>2, <1>4 DEF HasCut
<1> HIDE DEF front, last
<1>6. /\ Tokens(lengths, front) \in Nat /\ lengths[last] \in Nat
      /\ Tokens(lengths, all[b]) = Tokens(lengths, front) + lengths[last]
  <2>1. /\ Tokens(lengths, front) \in Nat
        /\ Tokens(lengths, Append(front, last)) = Tokens(lengths, front) + lengths[last]
    BY <1>1, <1>5, TokensOfMore, Zenon
  <2> QED BY <1>1, <1>5, <2>1
<1>7. Tokens(lengths, <<last>>) = lengths[last]
  BY <1>1, <1>5, TokensOfOne
<1>8. ASSUME NEW c \in DOMAIN cut PROVE Tokens(lengths, cut[c]) <= Capacity
  <2>1. Tokens(lengths, all[b]) <= Capacity
    BY DEF Sound
  <2>2. c \in DOMAIN all \/ c = Len(all) + 1
    BY <1>1, <1>2 DEF HasCut
  <2>3. CASE c \in DOMAIN all /\ c # b
    BY <1>2, <2>3 DEF Sound, HasCut
  <2>4. CASE c = b
    BY <1>5, <1>6, <2>1, <2>4, PackingAssumption
  <2>5. CASE c = Len(all) + 1
    BY <1>5, <1>6, <1>7, <2>1, <2>5, PackingAssumption
  <2> QED BY <2>2, <2>3, <2>4, <2>5
<1> QED
  BY <1>2, <1>3, <1>8 DEF Sound

\* The bins of rest are h and those of t.
Parts(lengths, rest, t, h) ==
  /\ \A b \in DOMAIN t : Tokens(lengths, t[b]) <= Capacity
  /\ Apart(t) /\ IsInjective(h)
  /\ Range(h) \cap Held(t) = {} /\ Held(rest) = Held(t) \cup Range(h)

\* A sequence that waited joins h, which is none of t, and h goes among t.
LEMMA SoundSpare ==
  ASSUME NEW D, NEW lengths, NEW wait, NEW all, NEW rest, Sound(D, lengths, wait, all, rest),
         NEW i \in wait, NEW t \in Seq(Seq(D)), NEW h \in Seq(D),
         Tokens(lengths, h) + lengths[i] <= Capacity,
         Parts(lengths, rest, t, h),
         NEW p \in 1 .. Len(t) + 1, NEW more, more = InsertAt(t, p, Append(h, i))
  PROVE  /\ Sound(D, lengths, wait \ {i}, all, more)
         /\ HasInserted(more, t, p, Append(h, i))
         /\ Tokens(lengths, Append(h, i)) = Tokens(lengths, h) + lengths[i]
<1> USE DEF Parts
<1> DEFINE bin == Append(h, i)
<1>1. /\ lengths \in [D -> Nat] /\ all \in Seq(Seq(D))
      /\ wait \in SUBSET D /\ i \in D /\ i \notin Held(all) /\ i \notin Held(rest)
      /\ Held(all) \cup Held(rest) = D \ wait
  BY SoundTokens DEF Sound
<1>2. Tokens(lengths, bin) = Tokens(lengths, h) + lengths[i]
  <2>1. Adds(lengths, bin, h, i)
    BY <1>1, AppendAdds, Zenon
  <2> QED BY <2>1 DEF Adds
<1>3. bin \in Seq(D) /\ Range(bin) = Range(h) \cup {i} /\ IsInjective(bin)
  <2> DEFINE n == Len(h)
  <2>1. /\ bin \in Seq(D) /\ n \in Nat /\ DOMAIN h = 1 .. n /\ DOMAIN bin = 1 .. n + 1
        /\ \A k \in 1 .. n : bin[k] = h[k]
        /\ bin[n + 1] = i
    BY <1>1
  <2>2. i \notin Range(h)
    BY <1>1
  <2> HIDE DEF n, bin
  <2>3. ASSUME NEW k \in 1 .. n + 1 PROVE k \in 1 .. n \/ k = n + 1
    BY <2>1
  <2>4. Range(bin) = Range(h) \cup {i}
    <3>1. \A k \in 1 .. n : k \in 1 .. n + 1
      BY <2>1
    <3>2. n + 1 \in 1 .. n + 1
      BY <2>1
    <3>3. Range(bin) \subseteq Range(h) \cup {i}
      BY <2>1, <2>3 DEF Range
    <3>4. Range(h) \subseteq Range(bin)
      BY <2>1, <3>1 DEF Range
    <3>5. i \in Range(bin)
      BY <2>1, <3>2 DEF Range
    <3> QED BY <3>3, <3>4, <3>5
  <2>5. \A k, l \in 1 .. n : h[k] = h[l] => k = l
    BY <2>1 DEF IsInjective
  <2>6. \A k \in 1 .. n : h[k] # i
    BY <2>1, <2>2 DEF Range
  <2>7. IsInjective(bin)
    BY <2>1, <2>3, <2>5, <2>6 DEF IsInjective
  <2> QED BY <2>1, <2>4, <2>7
<1> HIDE DEF bin
<1>4. more \in Seq(Seq(D)) /\ HasInserted(more, t, p, bin)
  <2>1. more = InsertAt(t, p, bin)
    BY DEF bin
  <2> QED BY <1>3, <2>1, Inserts, Zenon
<1>5. PICK m : OneMore(more, t, bin, p, m)
  BY <1>4 DEF HasInserted
<1>6. /\ Held(more) = Held(t) \cup Range(bin)
      /\ Apart(more) <=> Apart(t) /\ Range(bin) \cap Held(t) = {} /\ IsInjective(bin)
  BY <1>5, OneMoreHolds
<1>7. Apart(more) /\ Held(more) = Held(rest) \cup {i}
  BY <1>1, <1>3, <1>6
<1>8. ASSUME NEW c \in DOMAIN more PROVE Tokens(lengths, more[c]) <= Capacity
  <2>1. c = p \/ c \in DOMAIN more \ {p}
    OBVIOUS
  <2>2. CASE c = p
    <3>1. more[c] = bin
      BY <1>5, <2>2 DEF OneMore
    <3> QED BY <1>2, <3>1
  <2>3. CASE c \in DOMAIN more \ {p}
    <3>1. m[c] \in DOMAIN t /\ more[c] = t[m[c]]
      BY <1>5, <2>3 DEF OneMore
    <3> QED BY <3>1
  <2> QED BY <2>1, <2>2, <2>3
<1>9. Sound(D, lengths, wait \ {i}, all, more)
  <2>1. Held(all) \cap Held(more) = {} /\ Held(all) \cup Held(more) = D \ (wait \ {i})
    BY <1>1, <1>7 DEF Sound
  <2> QED BY <1>1, <1>4, <1>7, <1>8, <2>1 DEF Sound
<1> QED
  BY <1>2, <1>4, <1>9 DEF bin

\* The bins of rest follow those of all.
LEMMA SoundJoined ==
  ASSUME NEW D, NEW lengths, NEW wait, NEW all, NEW rest, Sound(D, lengths, wait, all, rest),
         NoneEmpty(rest), NEW joined, joined = all \o rest
  PROVE  Sound(D, lengths, wait, joined, <<>>) /\ HasJoined(joined, all, rest)
<1>1. all \in Seq(Seq(D)) /\ rest \in Seq(Seq(D))
  BY DEF Sound
<1>2. joined \in Seq(Seq(D)) /\ HasJoined(joined, all, rest)
  BY <1>1, Joins, Zenon
<1>3. ASSUME NEW c \in DOMAIN joined PROVE Tokens(lengths, joined[c]) <= Capacity
  <2>1. CASE c \in DOMAIN all /\ joined[c] = all[c]
    BY <2>1 DEF Sound
  <2>2. CASE c - Len(all) \in DOMAIN rest /\ joined[c] = rest[c - Len(all)]
    BY <2>2 DEF Sound
  <2> QED BY <1>2, <2>1, <2>2 DEF HasJoined
<1>4. Apart(<<>>) /\ Held(<<>>) = {} /\ <<>> \in Seq(Seq(D))
  BY DEF Apart, Held
<1>5. Apart(joined) /\ NoneEmpty(joined) /\ Held(joined) = D \ wait
  BY <1>2 DEF Sound, HasJoined
<1> QED
  BY <1>2, <1>3, <1>4, <1>5 DEF Sound

-----------------------------------------------------------------------------
(* The place of a bin among those sorted by their tokens *)

LEMMA CountTo ==
  ASSUME NEW n \in Nat
  PROVE  Cardinality(1 .. n) = n
<1>1. Cardinality(1 .. n) = IF 1 > n THEN 0 ELSE n - 1 + 1
  BY FS_Interval
<1> QED
  BY <1>1

\* A set that has all that is below one of its members is counted by its last.
LEMMA InitialSegment ==
  ASSUME NEW n \in Nat, NEW S \in SUBSET (1 .. n),
         \A k \in S : \A j \in 1 .. n : j < k => j \in S
  PROVE  Cardinality(S) \in 0 .. n /\ S = 1 .. Cardinality(S)
<1>1. CASE S = {}
  <2>1. S = 1 .. 0 /\ 0 \in Nat
    BY <1>1
  <2>2. Cardinality(S) = 0
    BY <2>1, CountTo
  <2> QED BY <2>1, <2>2
<1>2. CASE S # {}
  <2> DEFINE below == {n - k : k \in S}
  <2>1. below \in SUBSET Nat /\ below # {}
    <3>1. \A k \in S : n - k \in Nat
      OBVIOUS
    <3>2. \E k \in S : n - k \in below
      BY <1>2
    <3> QED BY <3>1, <3>2
  <2>2. PICK least \in below : \A other \in below : least <= other
    <3> HIDE DEF below
    <3> QED BY <2>1, LeastNatural
  <2>3. PICK k \in S : least = n - k
    OBVIOUS
  <2>4. k \in 1 .. n
    OBVIOUS
  <2>5. ASSUME NEW j \in S PROVE j <= k
    <3>1. n - j \in below /\ j \in 1 .. n
      OBVIOUS
    <3>2. n - k <= n - j
      BY <2>2, <2>3, <3>1
    <3> QED BY <2>4, <3>1, <3>2
  <2> HIDE DEF below
  <2>6. S = 1 .. k
    <3>1. ASSUME NEW j \in 1 .. k PROVE j \in S
      <4>1. j \in 1 .. n /\ (j = k \/ j < k)
        BY <2>4
      <4> QED BY <4>1
    <3>2. ASSUME NEW j \in S PROVE j \in 1 .. k
      BY <2>4, <2>5
    <3> QED BY <3>1, <3>2
  <2>7. k \in Nat /\ Cardinality(1 .. k) = k
    BY <2>4, CountTo
  <2> QED BY <2>4, <2>6, <2>7
<1> QED
  BY <1>1, <1>2

\* Sorted, for the lengths of any chunk.
SortedIn(lengths, others, bin) ==
  InsertAt(others,
           Cardinality({k \in DOMAIN others : Tokens(lengths, others[k]) <= Tokens(lengths, bin)}) + 1,
           bin)

LEMMA SortedIs == \A others, bin : Sorted(others, bin) = SortedIn(size, others, bin)
BY DEF Sorted, SortedIn, Load

\* Bins in ascending order of their tokens, of which no two go together.
Ranked(lengths, all) ==
  \A k, l \in DOMAIN all : k < l =>
    /\ Tokens(lengths, all[k]) <= Tokens(lengths, all[l])
    /\ Tokens(lengths, all[k]) + Tokens(lengths, all[l]) > Capacity

\* The place that is found keeps the order.
LEMMA PlaceFound ==
  ASSUME NEW D, NEW lengths, NEW t \in Seq(Seq(D)), Ranked(lengths, t),
         \A b \in DOMAIN t : Tokens(lengths, t[b]) \in Nat,
         NEW bin, Tokens(lengths, bin) \in Nat
  PROVE  \E p \in 1 .. Len(t) + 1 :
           /\ SortedIn(lengths, t, bin) = InsertAt(t, p, bin)
           /\ \A k \in DOMAIN t : k < p <=> Tokens(lengths, t[k]) <= Tokens(lengths, bin)
<1> DEFINE n == Len(t)
           S == {k \in DOMAIN t : Tokens(lengths, t[k]) <= Tokens(lengths, bin)}
<1>1. n \in Nat /\ DOMAIN t = 1 .. n
  OBVIOUS
<1>2. S \in SUBSET (1 .. n)
  BY <1>1
<1>3. ASSUME NEW k \in S, NEW j \in 1 .. n, j < k PROVE j \in S
  <2>1. k \in DOMAIN t /\ j \in DOMAIN t
    BY <1>1
  <2>2. Tokens(lengths, t[j]) <= Tokens(lengths, t[k])
    BY <1>3, <2>1 DEF Ranked
  <2>3. Tokens(lengths, t[j]) \in Nat /\ Tokens(lengths, t[k]) \in Nat
    BY <2>1
  <2> QED BY <2>1, <2>2, <2>3
<1> DEFINE p == Cardinality(S) + 1
<1>4. Cardinality(S) \in 0 .. n /\ S = 1 .. Cardinality(S)
  <2> HIDE DEF n, S
  <2> QED BY <1>1, <1>2, <1>3, InitialSegment
<1>5. p \in 1 .. n + 1
  <2> HIDE DEF n, S
  <2> QED BY <1>1, <1>4
<1>6. SortedIn(lengths, t, bin) = InsertAt(t, p, bin)
  BY DEF SortedIn
<1>7. ASSUME NEW k \in DOMAIN t PROVE k < p <=> Tokens(lengths, t[k]) <= Tokens(lengths, bin)
  <2>1. k \in S <=> k < p
    <3> HIDE DEF n, S
    <3> QED BY <1>1, <1>4
  <2> QED BY <2>1
<1> HIDE DEF p
<1> QED
  BY <1>5, <1>6, <1>7 DEF n

\* A bin that goes together with none is put in its place.
LEMMA StaysRanked ==
  ASSUME NEW D, NEW lengths, NEW t \in Seq(Seq(D)), Ranked(lengths, t),
         \A b \in DOMAIN t : Tokens(lengths, t[b]) \in Nat,
         NEW bin, Tokens(lengths, bin) \in Nat,
         \A b \in DOMAIN t : Tokens(lengths, t[b]) + Tokens(lengths, bin) > Capacity,
         NEW p \in 1 .. Len(t) + 1,
         \A k \in DOMAIN t : k < p <=> Tokens(lengths, t[k]) <= Tokens(lengths, bin),
         NEW more, HasInserted(more, t, p, bin), DOMAIN more = 1 .. Len(t) + 1
  PROVE  Ranked(lengths, more)
<1> SUFFICES ASSUME NEW k \in DOMAIN more, NEW l \in DOMAIN more, k < l
             PROVE  /\ Tokens(lengths, more[k]) <= Tokens(lengths, more[l])
                    /\ Tokens(lengths, more[k]) + Tokens(lengths, more[l]) > Capacity
  BY DEF Ranked
<1> DEFINE n == Len(t)
<1>1. n \in Nat /\ DOMAIN t = 1 .. n /\ DOMAIN more = 1 .. n + 1
  OBVIOUS
<1>2. \A j \in 1 .. n + 1 : more[j] = IF j < p THEN t[j] ELSE IF j = p THEN bin ELSE t[j - 1]
  BY DEF HasInserted
<1> HIDE DEF n
<1>3. p \in 1 .. n + 1
  BY DEF n
<1>10. ASSUME NEW j \in 1 .. n + 1, j < p PROVE j \in DOMAIN t /\ more[j] = t[j]
  <2>1. j \in 1 .. n
    BY <1>1, <1>3, <1>10
  <2> QED BY <1>1, <1>2, <1>10, <2>1
<1>11. ASSUME NEW j \in 1 .. n + 1, j > p
       PROVE  j - 1 \in DOMAIN t /\ ~(j - 1 < p) /\ more[j] = t[j - 1]
  <2>1. j - 1 \in 1 .. n /\ ~(j < p) /\ j # p /\ ~(j - 1 < p)
    BY <1>1, <1>3, <1>11
  <2> QED BY <1>1, <1>2, <2>1
<1>12. k \in 1 .. n + 1 /\ l \in 1 .. n + 1 /\ k < l
  BY <1>1
<1>13. ASSUME NEW i \in DOMAIN t, NEW j \in DOMAIN t, i < j
       PROVE  /\ Tokens(lengths, t[i]) <= Tokens(lengths, t[j])
              /\ Tokens(lengths, t[i]) + Tokens(lengths, t[j]) > Capacity
  BY <1>13 DEF Ranked
<1>4. CASE k < p /\ l < p
  <2>1. k \in DOMAIN t /\ l \in DOMAIN t /\ more[k] = t[k] /\ more[l] = t[l]
    BY <1>4, <1>10, <1>12
  <2>2. /\ Tokens(lengths, t[k]) <= Tokens(lengths, t[l])
        /\ Tokens(lengths, t[k]) + Tokens(lengths, t[l]) > Capacity
    BY <1>12, <1>13, <2>1, Zenon
  <2> QED BY <2>1, <2>2
<1>5. CASE k < p /\ l = p
  <2>1. k \in DOMAIN t /\ more[k] = t[k] /\ more[l] = bin
    BY <1>2, <1>3, <1>5, <1>10, <1>12
  <2> QED BY <1>5, <2>1
<1>6. CASE k < p /\ l > p
  <2> DEFINE j == l - 1
  <2>1. /\ k \in DOMAIN t /\ more[k] = t[k]
        /\ j \in DOMAIN t /\ more[l] = t[j]
        /\ k < j
    <3>1. k \in DOMAIN t /\ more[k] = t[k]
      BY <1>6, <1>10, <1>12
    <3>2. j \in DOMAIN t /\ more[l] = t[j]
      BY <1>6, <1>11, <1>12
    <3>3. k < j
      BY <1>3, <1>6, <1>12
    <3> QED BY <3>1, <3>2, <3>3, Zenon
  <2> HIDE DEF j
  <2>2. /\ Tokens(lengths, t[k]) <= Tokens(lengths, t[j])
        /\ Tokens(lengths, t[k]) + Tokens(lengths, t[j]) > Capacity
    BY <1>13, <2>1, Zenon
  <2> QED BY <2>1, <2>2
<1>7. CASE k = p /\ l > p
  <2> DEFINE j == l - 1
  <2>1. j \in DOMAIN t /\ ~(j < p) /\ more[k] = bin /\ more[l] = t[j]
    BY <1>2, <1>3, <1>7, <1>11, <1>12
  <2> HIDE DEF j
  <2>2. Tokens(lengths, t[j]) \in Nat /\ ~(Tokens(lengths, t[j]) <= Tokens(lengths, bin))
    BY <2>1
  <2>3. Tokens(lengths, t[j]) + Tokens(lengths, bin) > Capacity
    BY <2>1
  <2> QED BY <2>1, <2>2, <2>3
<1>8. CASE k > p /\ l > p
  <2> DEFINE i == k - 1
             j == l - 1
  <2>1. i \in DOMAIN t /\ j \in DOMAIN t /\ i < j /\ more[k] = t[i] /\ more[l] = t[j]
    BY <1>8, <1>11, <1>12
  <2> HIDE DEF i, j
  <2>2. /\ Tokens(lengths, t[i]) <= Tokens(lengths, t[j])
        /\ Tokens(lengths, t[i]) + Tokens(lengths, t[j]) > Capacity
    BY <1>13, <2>1, Zenon
  <2> QED BY <2>1, <2>2
<1>9. k \in Nat /\ l \in Nat /\ p \in Nat
  BY <1>1, <1>3
<1> QED
  BY <1>4, <1>5, <1>6, <1>7, <1>8, <1>9

-----------------------------------------------------------------------------
(* The sequence whose turn it is *)

LEMMA MinIsMember ==
  ASSUME NEW S \in SUBSET Nat, S # {}
  PROVE  Min(S) \in S
<1>1. \E x \in S : \A y \in S : x <= y
  BY LeastNatural
<1> QED
  BY <1>1 DEF Min

LEMMA MaxIsMember ==
  ASSUME NEW n \in Nat, NEW S \in SUBSET (1 .. n), S # {}
  PROVE  Max(S) \in S
<1> DEFINE below == {n - k : k \in S}
<1>1. below \in SUBSET Nat /\ below # {}
  <2>1. \A k \in S : n - k \in Nat
    OBVIOUS
  <2>2. \E k \in S : n - k \in below
    OBVIOUS
  <2> QED BY <2>1, <2>2
<1>2. PICK least \in below : \A other \in below : least <= other
  <2> HIDE DEF below
  <2> QED BY <1>1, LeastNatural
<1>3. PICK k \in S : least = n - k
  OBVIOUS
<1>4. ASSUME NEW j \in S PROVE k >= j
  <2>1. n - j \in below /\ j \in 1 .. n /\ k \in 1 .. n
    OBVIOUS
  <2>2. n - k <= n - j
    BY <1>2, <1>3, <2>1
  <2> QED BY <2>1, <2>2
<1> HIDE DEF below
<1> QED
  BY <1>4 DEF Max

\* Of some numbers up to n there is one with the greatest value.
LEMMA GreatestValue ==
  ASSUME NEW N \in Nat, NEW f \in [1 .. N -> Nat], NEW S \in SUBSET (1 .. N), S # {}
  PROVE  \E i \in S : \A j \in S : f[j] <= f[i]
<1> DEFINE T == {n \in Nat : n <= N =>
                   \A R \in SUBSET (1 .. n) : R # {} => \E i \in R : \A j \in R : f[j] <= f[i]}
<1>1. 0 \in T
  <2>1. \A R \in SUBSET (1 .. 0) : R = {}
    OBVIOUS
  <2> QED BY <2>1
<1>2. ASSUME NEW n \in Nat, n \in T PROVE n + 1 \in T
  <2> SUFFICES ASSUME n + 1 <= N, NEW R \in SUBSET (1 .. n + 1), R # {}
               PROVE  \E i \in R : \A j \in R : f[j] <= f[i]
    OBVIOUS
  <2> DEFINE Q == R \ {n + 1}
  <2>1. Q \in SUBSET (1 .. n)
    OBVIOUS
  <2>2. \A i \in R : f[i] \in Nat
    <3>1. \A i \in R : i \in 1 .. N
      OBVIOUS
    <3> QED BY <3>1
  <2>3. CASE Q = {}
    <3>1. R = {n + 1}
      BY <2>3
    <3> QED BY <2>2, <3>1
  <2>4. CASE Q # {}
    <3>1. PICK i \in Q : \A j \in Q : f[j] <= f[i]
      <4> HIDE DEF Q
      <4> QED BY <1>2, <2>1, <2>4
    <3>2. CASE n + 1 \notin R
      <4>1. Q = R
        BY <3>2
      <4> QED BY <3>1, <4>1
    <3>3. CASE n + 1 \in R /\ f[n + 1] <= f[i]
      BY <3>1, <3>3
    <3>4. CASE n + 1 \in R /\ f[i] < f[n + 1]
      <4>1. ASSUME NEW j \in R PROVE f[j] <= f[n + 1]
        <5>1. CASE j = n + 1
          BY <2>2, <5>1
        <5>2. CASE j \in Q
          <6>1. f[j] <= f[i] /\ f[j] \in Nat /\ f[i] \in Nat /\ f[n + 1] \in Nat
            BY <2>2, <3>1, <3>4, <5>2
          <6> QED BY <3>4, <6>1
        <5> QED BY <5>1, <5>2
      <4> QED BY <3>4, <4>1
    <3>5. n + 1 \in R => f[n + 1] <= f[i] \/ f[i] < f[n + 1]
      BY <2>2
    <3> QED BY <3>2, <3>3, <3>4, <3>5
  <2> QED BY <2>3, <2>4
<1>3. N \in T
  <2> HIDE DEF T
  <2> QED BY <1>1, <1>2, NaturalInduction
<1> QED
  BY <1>3

\* The sequences of the chunk.
Items == 1 .. Batch

\* The longest, the last of the longest, the shortest and the first of some
\* sequences are among them.
LEMMA OneOfThem ==
  ASSUME Batch \in Nat, size \in [Items -> Nat], NEW S \in SUBSET Items, S # {}
  PROVE  Longest(S) \in S /\ LastLongest(S) \in S /\ Shortest(S) \in S /\ Min(S) \in S
<1>1. S \in SUBSET Nat /\ S \in SUBSET (1 .. Batch)
  BY DEF Items
<1>2. LongestOf(S) \in SUBSET S /\ LongestOf(S) # {}
  <2>1. \E i \in S : \A j \in S : size[j] <= size[i]
    BY <1>1, GreatestValue DEF Items
  <2> QED BY <2>1 DEF LongestOf
<1>3. Longest(S) \in S
  <2>1. LongestOf(S) \in SUBSET Nat
    BY <1>1, <1>2
  <2>2. Min(LongestOf(S)) \in LongestOf(S)
    BY <1>2, <2>1, MinIsMember
  <2> QED BY <1>2, <2>2 DEF Longest
<1>4. LastLongest(S) \in S
  <2>1. LongestOf(S) \in SUBSET (1 .. Batch)
    BY <1>1, <1>2
  <2>2. Max(LongestOf(S)) \in LongestOf(S)
    BY <1>2, <2>1, MaxIsMember
  <2> QED BY <1>2, <2>2 DEF LastLongest
<1>5. Shortest(S) \in S
  <2> DEFINE sizes == {size[j] : j \in S}
             short == {i \in S : \A j \in S : size[i] <= size[j]}
  <2>1. sizes \in SUBSET Nat /\ sizes # {}
    OBVIOUS
  <2>2. PICK x \in sizes : \A y \in sizes : x <= y
    <3> HIDE DEF sizes
    <3> QED BY <2>1, LeastNatural
  <2>3. short \in SUBSET Nat /\ short # {}
    <3>1. PICK i \in S : x = size[i]
      OBVIOUS
    <3>2. \A j \in S : size[i] <= size[j]
      BY <2>2, <3>1
    <3> QED BY <1>1, <3>2
  <2>4. Min(short) \in short
    <3> HIDE DEF short
    <3> QED BY <2>3, MinIsMember
  <2> QED BY <2>4 DEF Shortest
<1>6. Min(S) \in S
  BY <1>1, MinIsMember
<1> QED
  BY <1>3, <1>4, <1>5, <1>6

-----------------------------------------------------------------------------
(* The invariant of the packers *)

\* The phases of the modified packer.
Modified == {"large", "medium", "small", "greedy", "spread"}

\* NoTwoBinsMerge, while a chunk is packed.
Unmerged ==
  full = <<>> \/ Len(bins) = Len(full) =>
    \A b, c \in DOMAIN bins : b < c /\ (packer = "concatenative" => c = b + 1) =>
      Tokens(size, bins[b]) + Tokens(size, bins[c]) > Capacity

\* The modified packer has a bin for each large sequence: more than half full.
Halved ==
  /\ \A i \in Items : size[i] <= Capacity
  /\ \A b \in DOMAIN bins : 2 * Tokens(size, bins[b]) > Capacity

\* What waits fits in none of these bins.
NoRoom(S) == \A b \in S : \A i \in waiting : Tokens(size, bins[b]) + size[i] > Capacity

\* So it fits nowhere when it is spread, and no two of the new bins merge.
Leftover ==
  /\ NoRoom(DOMAIN bins)
  /\ \/ spare = <<<<>>>>
     \/ /\ spare # <<>> /\ NoneEmpty(spare) /\ Ranked(size, spare)
        /\ \A b \in DOMAIN bins, k \in DOMAIN spare :
             Tokens(size, bins[b]) + Tokens(size, spare[k]) > Capacity

\* The bins that were added have one sequence each, and are not too many.
Adjusted ==
  /\ waiting = {}
  /\ Len(full) <= Len(bins) /\ Len(bins) <= BinsWanted(call.shards)
  /\ \A b \in DOMAIN bins : b > Len(full) => Len(bins[b]) = 1
  /\ phase = "packed" => Len(bins) = BinsWanted(call.shards)

PackInv ==
  /\ Sound(Items, size, waiting, bins, spare)
  /\ at \in Nat /\ full \in Seq(Nat)
  /\ phase \in {"fit", "adjust", "packed", "refused"} \cup Modified
  /\ phase # "spread" => spare = <<>>
  /\ phase \in {"fit"} \cup Modified => full = <<>>
  /\ Unmerged
  /\ phase \in Modified => Halved
  /\ phase = "medium" => at > 0
  /\ phase = "small" => at <= Len(bins)
  /\ phase = "greedy" => at > 0 /\ NoRoom({b \in DOMAIN bins : b < at})
  /\ phase = "spread" => Leftover
  /\ phase \in {"adjust", "packed"} => Adjusted

\* A call that has passed the assertions.
CallOK == Batch \in Nat \ {0} /\ call.shards \in Nat \ {0}

\* What the invariant says of the types.
LEMMA PackTypes ==
  ASSUME PackInv
  PROVE  /\ bins \in Seq(Seq(Items)) /\ Len(bins) \in Nat /\ DOMAIN bins = 1 .. Len(bins)
         /\ \A b \in DOMAIN bins : bins[b] \in Seq(Items) /\ Tokens(size, bins[b]) \in Nat
         /\ size \in [Items -> Nat] /\ DOMAIN size = Items
         /\ waiting \in SUBSET Items /\ \A i \in Items : size[i] \in Nat
         /\ spare \in Seq(Seq(Items))
         /\ \A k \in DOMAIN spare : spare[k] \in Seq(Items) /\ Tokens(size, spare[k]) \in Nat
<1>1. Sound(Items, size, waiting, bins, spare)
  BY DEF PackInv
<1>2. size \in [Items -> Nat] /\ waiting \in SUBSET Items
  BY <1>1 DEF Sound
<1>3. bins \in Seq(Seq(Items)) /\ spare \in Seq(Seq(Items))
  BY <1>1 DEF Sound
<1>4. /\ \A b \in DOMAIN bins : bins[b] \in Seq(Items) /\ Tokens(size, bins[b]) \in Nat
      /\ \A b \in DOMAIN spare : spare[b] \in Seq(Items) /\ Tokens(size, spare[b]) \in Nat
  BY <1>1, SoundTokens
<1> QED
  BY <1>2, <1>3, <1>4

\* Two bins that are more than half full do not merge.
LEMMA HalvesApart ==
  ASSUME PackInv, Halved
  PROVE  \A b, c \in DOMAIN bins : Tokens(size, bins[b]) + Tokens(size, bins[c]) > Capacity
BY PackTypes, PackingAssumption DEF Halved

\* FitEnds
LEMMA FitEndsKeeps ==
  ASSUME PackInv, CallOK, FitEnds, UNCHANGED call
  PROVE  PackInv'
<1>1. /\ phase = "fit" /\ waiting = {} /\ phase' = "adjust"
      /\ full' = [b \in DOMAIN bins |-> Len(bins[b])]
      /\ UNCHANGED <<packer, size, waiting, bins, spare, at>>
  BY DEF FitEnds
<1>2. Items' = Items
  BY DEF Items, Batch
<1>3. full' \in Seq(Nat) /\ Len(full') = Len(bins)
  BY <1>1, PackTypes
<1>4. Len(full') <= BinsWanted(call.shards)'
  BY <1>3, PackTypes DEF CallOK, BinsWanted
<1> QED
  BY <1>1, <1>2, <1>3, <1>4 DEF PackInv, Modified, Unmerged, Adjusted

\* A bin of the modified packer gets some of the sequences that fit in it: none,
\* one or two.
Adding(b, is) ==
  /\ \A k \in DOMAIN is : is[k] \in waiting
  /\ \/ is = <<>>
     \/ \E i \in waiting : is = <<i>> /\ Room(bins[b], i)
     \/ \E i, j \in waiting : i # j /\ is = <<i, j>> /\ Load(bins[b]) + size[i] + size[j] <= Capacity

LEMMA AddingKeeps ==
  ASSUME PackInv, NEW b \in DOMAIN bins, NEW is, Adding(b, is), AddTo(b, is), UNCHANGED <<size, call>>
  PROVE  /\ Sound(Items, size, waiting', bins', spare)
         /\ Heavier(size, bins', bins) /\ Len(bins') = Len(bins)
         /\ \A c \in DOMAIN bins : c # b => bins'[c] = bins[c]
         /\ waiting' \in SUBSET waiting
<1>1. Sound(Items, size, waiting, bins, spare) /\ bins' = [bins EXCEPT ![b] = @ \o is]
      /\ waiting' = waiting \ Range(is)
  BY DEF PackInv, AddTo
<1>2. /\ bins \in Seq(Seq(Items)) /\ bins[b] \in Seq(Items) /\ waiting \in SUBSET Items
      /\ \A c \in DOMAIN bins : Tokens(size, bins[c]) \in Nat
  BY PackTypes
<1>3. /\ Len(bins') = Len(bins) /\ waiting' \in SUBSET waiting
      /\ \A c \in DOMAIN bins : c # b => bins'[c] = bins[c]
  BY <1>1, <1>2
<1>4. CASE is = <<>>
  <2>1. Range(is) = {} /\ bins[b] \o is = bins[b]
    BY <1>2, <1>4 DEF Range
  <2>2. bins' = bins /\ waiting' = waiting
    BY <1>1, <1>2, <2>1
  <2>3. Heavier(size, bins', bins)
    BY <1>2, <2>2 DEF Heavier
  <2> QED BY <1>1, <1>3, <2>2, <2>3
<1>5. ASSUME NEW i \in waiting, is = <<i>>, Room(bins[b], i)
      PROVE  Sound(Items, size, waiting', bins', spare) /\ Heavier(size, bins', bins)
  <2>1. waiting' = waiting \ {i}
    BY <1>1, <1>5 DEF Range
  <2>2. bins[b] \o is = Append(bins[b], i)
    BY <1>2, <1>5
  <2>3. bins' = Grown(bins, b, i)
    BY <1>1, <1>2, <2>2 DEF Grown
  <2>4. Tokens(size, bins[b]) + size[i] <= Capacity
    BY <1>5 DEF Room, Load
  <2>5. Sound(Items, size, waiting \ {i}, bins', spare) /\ Heavier(size, bins', bins)
    BY <1>1, <1>2, <2>3, <2>4, SoundGrown, Zenon
  <2> QED BY <2>1, <2>5
<1>6. ASSUME NEW i \in waiting, NEW j \in waiting, i # j, is = <<i, j>>,
             Load(bins[b]) + size[i] + size[j] <= Capacity
      PROVE  Sound(Items, size, waiting', bins', spare) /\ Heavier(size, bins', bins)
  <2> DEFINE one == Grown(bins, b, i)
  <2>0. i \in Items /\ j \in Items /\ size[i] \in Nat /\ size[j] \in Nat
    BY PackTypes
  <2>1. waiting' = (waiting \ {i}) \ {j}
    BY <1>1, <1>6 DEF Range
  <2>2. bins[b] \o is = Append(Append(bins[b], i), j)
    BY <1>2, <1>6, <2>0
  <2>3. Tokens(size, bins[b]) + size[i] + size[j] <= Capacity /\ Tokens(size, bins[b]) \in Nat
    BY <1>2, <1>6 DEF Load
  <2>4. Tokens(size, bins[b]) + size[i] <= Capacity
    BY <2>0, <2>3, PackingAssumption
  <2>5. Sound(Items, size, waiting \ {i}, one, spare) /\ Heavier(size, one, bins)
    BY <1>1, <1>2, <2>4, SoundGrown, Zenon
  <2>6. one \in Seq(Seq(Items)) /\ HasGrown(one, bins, b, i)
    BY <1>2, <2>0, Grows, Zenon
  <2> HIDE DEF one
  <2>7. b \in DOMAIN one /\ one[b] = Append(bins[b], i)
    BY <2>6 DEF HasGrown
  <2>8. Adds(size, one[b], bins[b], i)
    <3>1. size \in [Items -> Nat]
      BY PackTypes
    <3> QED BY <1>2, <2>0, <2>7, <3>1, AppendAdds
  <2>9. Tokens(size, one[b]) + size[j] <= Capacity
    BY <2>0, <2>3, <2>8 DEF Adds
  <2>10. j \in waiting \ {i}
    BY <1>6
  <2>11. bins' = Grown(one, b, j)
    <3>1. bins' \in Seq(Seq(Items)) /\ DOMAIN bins' = DOMAIN bins
          /\ bins'[b] = Append(Append(bins[b], i), j)
      <4> DEFINE two == Append(Append(bins[b], i), j)
      <4>1. two \in Seq(Items)
        BY <1>2, <2>0
      <4>2. bins' = [bins EXCEPT ![b] = two]
        BY <1>1, <2>2
      <4> HIDE DEF two
      <4>3. bins' \in Seq(Seq(Items)) /\ DOMAIN bins' = DOMAIN bins /\ bins'[b] = two
        BY <1>2, <4>1, <4>2
      <4> QED BY <4>3 DEF two
    <3>2. Grown(one, b, j) \in Seq(Seq(Items)) /\ HasGrown(Grown(one, b, j), one, b, j)
      BY <2>0, <2>6, <2>7, Grows, Zenon
    <3>3. \A c \in DOMAIN bins : Grown(one, b, j)[c] = bins'[c]
      BY <1>3, <2>6, <2>7, <3>1, <3>2 DEF HasGrown
    <3>4. DOMAIN Grown(one, b, j) = DOMAIN bins
      BY <2>6, <3>2 DEF HasGrown
    <3> QED BY <3>1, <3>2, <3>3, <3>4
  <2>12. Sound(Items, size, (waiting \ {i}) \ {j}, bins', spare) /\ Heavier(size, bins', one)
    BY <2>5, <2>7, <2>9, <2>10, <2>11, SoundGrown, Zenon
  <2>13. Heavier(size, bins', bins)
    <3>1. DOMAIN bins' = DOMAIN bins /\ DOMAIN one = DOMAIN bins
      BY <2>5, <2>12 DEF Heavier
    <3>2. ASSUME NEW c \in DOMAIN bins PROVE Tokens(size, bins[c]) <= Tokens(size, bins'[c])
      <4>1. Tokens(size, bins[c]) <= Tokens(size, one[c]) /\ Tokens(size, one[c]) <= Tokens(size, bins'[c])
        BY <2>5, <2>12, <3>1 DEF Heavier
      <4>2. Tokens(size, one[c]) \in Nat /\ Tokens(size, bins'[c]) \in Nat /\ Tokens(size, bins[c]) \in Nat
        BY <1>2, <2>5, <2>12, <3>1, SoundTokens
      <4> QED BY <4>1, <4>2
    <3> QED BY <3>1, <3>2 DEF Heavier
  <2> QED BY <2>1, <2>12, <2>13
<1> QED
  BY <1>3, <1>4, <1>5, <1>6 DEF Adding

\* Bins that became heavier are still more than half full, and what has no room
\* in a bin has none in a heavier one.
LEMMA HeavierHalved ==
  ASSUME PackInv, Halved, Heavier(size, bins', bins), UNCHANGED <<size, call>>,
         Sound(Items, size, waiting', bins', spare')
  PROVE  Halved'
<1>1. Items' = Items /\ size' = size
  BY DEF Items, Batch
<1>2. ASSUME NEW b \in DOMAIN bins' PROVE 2 * Tokens(size, bins'[b]) > Capacity
  <2>1. b \in DOMAIN bins /\ Tokens(size, bins[b]) <= Tokens(size, bins'[b])
    BY DEF Heavier
  <2>2. Tokens(size, bins[b]) \in Nat /\ Tokens(size, bins'[b]) \in Nat
    BY <2>1, PackTypes, SoundTokens
  <2>3. 2 * Tokens(size, bins[b]) > Capacity
    BY <2>1 DEF Halved
  <2> QED BY <2>1, <2>2, <2>3, PackingAssumption
<1> QED
  BY <1>1, <1>2 DEF Halved

\* A turn of a loop of the modified packer that leaves full and spare alone.
LEMMA ModifiedTurn ==
  ASSUME PackInv, Halved', UNCHANGED <<size, call, full, spare>>, full = <<>>,
         Sound(Items, size, waiting', bins', spare),
         at' \in Nat, phase' \in Modified \ {"spread"}, spare = <<>>,
         phase' = "medium" => at' > 0,
         phase' = "small" => at' <= Len(bins'),
         phase' = "greedy" => at' > 0 /\ NoRoom({b \in DOMAIN bins : b < at})'
  PROVE  PackInv'
<1>1. Items' = Items /\ full' = full /\ spare' = spare /\ size' = size
  BY DEF Items, Batch
<1>2. Sound(Items, size, waiting, bins, spare)'
  BY <1>1
<1>3. Unmerged'
  <2>1. \A b \in DOMAIN bins' : Tokens(size', bins'[b]) \in Nat
    BY <1>1, SoundTokens
  <2>2. \A b \in DOMAIN bins' : 2 * Tokens(size', bins'[b]) > Capacity
    BY DEF Halved
  <2> QED BY <2>1, <2>2, PackingAssumption DEF Unmerged
<1>4. phase' \notin {"spread", "adjust", "packed"}
  BY DEF Modified
<1> QED
  BY <1>1, <1>2, <1>3, <1>4 DEF PackInv, Modified

\* OpenLarge
LEMMA OpenLargeKeeps ==
  ASSUME PackInv, CallOK, OpenLarge, UNCHANGED call
  PROVE  PackInv'
<1> DEFINE large == {i \in waiting : Large(i)}
<1>1. phase = "large" /\ UNCHANGED <<packer, size, spare, full>> /\ at \in Nat
  BY DEF OpenLarge, PackInv
<1>2. Halved /\ full = <<>> /\ spare = <<>> /\ Sound(Items, size, waiting, bins, spare)
  BY <1>1 DEF PackInv, Modified
<1>3. CASE large # {}
  <2> DEFINE i == Longest(large)
  <2>1. /\ bins' = Append(bins, <<i>>) /\ waiting' = waiting \ {i}
        /\ phase' = phase /\ at' = at
    BY <1>3 DEF OpenLarge
  <2>2. i \in large
    <3>1. large \in SUBSET Items /\ size \in [Items -> Nat] /\ Batch \in Nat
      BY PackTypes DEF CallOK
    <3> HIDE DEF large
    <3> QED BY <1>3, <3>1, OneOfThem
  <2>3. i \in waiting /\ i \in Items /\ size[i] <= Capacity /\ 2 * size[i] > Capacity
    BY <1>2, <2>2, PackTypes DEF Large, Halved
  <2> HIDE DEF i, large
  <2>4. /\ Sound(Items, size, waiting', bins', spare)
        /\ HasOpened(bins', bins, <<i>>) /\ Tokens(size, <<i>>) = size[i]
    BY <1>2, <2>1, <2>3, SoundOpened, Zenon
  <2>5. Halved'
    <3>1. Items' = Items /\ size' = size
      BY <1>1 DEF Items, Batch
    <3>2. \A b \in DOMAIN bins' : 2 * Tokens(size, bins'[b]) > Capacity
      BY <1>2, <2>3, <2>4 DEF Halved, HasOpened
    <3> QED BY <1>2, <3>1, <3>2 DEF Halved
  <2> QED BY <1>1, <1>2, <2>1, <2>4, <2>5, ModifiedTurn DEF Modified
<1>4. CASE large = {}
  <2>1. bins' = bins /\ waiting' = waiting /\ phase' = "medium" /\ at' = 1
    BY <1>4 DEF OpenLarge, KeepBins
  <2>2. Halved'
    BY <1>1, <1>2, <2>1 DEF Halved, Items, Batch
  <2> QED BY <1>1, <1>2, <2>1, <2>2, ModifiedTurn DEF Modified
<1> QED
  BY <1>3, <1>4

\* AddMedium
LEMMA AddMediumKeeps ==
  ASSUME PackInv, CallOK, AddMedium, UNCHANGED call
  PROVE  PackInv'
<1> DEFINE fits == {i \in waiting : Medium(i) /\ Room(bins[at], i)}
<1>1. phase = "medium" /\ UNCHANGED <<packer, size, spare, full>> /\ at \in Nat /\ at > 0
  BY DEF AddMedium, PackInv
<1>2. Halved /\ full = <<>> /\ spare = <<>> /\ Sound(Items, size, waiting, bins, spare)
  BY <1>1 DEF PackInv, Modified
<1>3. CASE at > Len(bins)
  <2>1. bins' = bins /\ waiting' = waiting /\ phase' = "small" /\ at' = Len(bins)
    BY <1>3 DEF AddMedium, KeepBins
  <2>2. Halved'
    BY <1>1, <1>2, <2>1 DEF Halved, Items, Batch
  <2> QED BY <1>1, <1>2, <2>1, <2>2, PackTypes, ModifiedTurn DEF Modified
<1>4. CASE ~(at > Len(bins)) /\ fits = {}
  <2>1. bins' = bins /\ waiting' = waiting /\ phase' = "medium" /\ at' = at + 1
    BY <1>1, <1>4 DEF AddMedium, KeepBins
  <2>2. Halved'
    BY <1>1, <1>2, <2>1 DEF Halved, Items, Batch
  <2> QED BY <1>1, <1>2, <2>1, <2>2, ModifiedTurn DEF Modified
<1>5. CASE ~(at > Len(bins)) /\ fits # {}
  <2> DEFINE i == Longest(fits)
  <2>1. AddTo(at, <<i>>) /\ phase' = "medium" /\ at' = at + 1
    BY <1>1, <1>5 DEF AddMedium
  <2>2. i \in fits
    <3>1. fits \in SUBSET Items /\ size \in [Items -> Nat] /\ Batch \in Nat
      BY PackTypes DEF CallOK
    <3> HIDE DEF fits
    <3> QED BY <1>5, <3>1, OneOfThem
  <2>3. i \in waiting /\ Room(bins[at], i) /\ at \in DOMAIN bins
    BY <1>1, <1>5, <2>2, PackTypes
  <2> HIDE DEF i, fits
  <2>4. Adding(at, <<i>>)
    BY <2>3 DEF Adding
  <2>5. /\ Sound(Items, size, waiting', bins', spare) /\ Heavier(size, bins', bins)
    BY <1>1, <2>1, <2>3, <2>4, AddingKeeps
  <2>6. Halved'
    BY <1>1, <1>2, <2>5, HeavierHalved
  <2> QED BY <1>1, <1>2, <2>1, <2>5, <2>6, ModifiedTurn DEF Modified
<1> QED
  BY <1>3, <1>4, <1>5

\* The two small sequences of a bin fit in it together.
LEMMA PairFits ==
  ASSUME PackInv, CallOK, NEW b \in DOMAIN bins
  PROVE  Adding(b, SmallPair(bins[b]))
<1> DEFINE bin    == bins[b]
           small  == {i \in waiting : Small(i)}
           first  == Shortest(small)
           others == small \ {first}
           beside == {i \in others : Room(Append(bin, first), i)}
           none   == \/ \E k \in DOMAIN bin : Medium(bin[k])
                     \/ Cardinality(small) < 2
                     \/ Load(bin) + size[first] + size[Shortest(others)] > Capacity
<1>0. /\ small \in SUBSET Items /\ size \in [Items -> Nat] /\ Batch \in Nat
      /\ bin \in Seq(Items) /\ Tokens(size, bin) \in Nat
  BY PackTypes DEF CallOK
<1>1. CASE none
  <2>1. SmallPair(bin) = <<>>
    BY <1>1 DEF SmallPair
  <2> QED BY <2>1 DEF Adding
<1>2. CASE ~none
  <2>1. SmallPair(bin) = <<first, LastLongest(beside)>>
    BY <1>2 DEF SmallPair
  <2>2. ~(Cardinality(small) < 2) /\ ~(Load(bin) + size[first] + size[Shortest(others)] > Capacity)
    BY <1>2
  <2> HIDE DEF none
  <2>3. small # {} /\ small # {first}
    <3>1. Cardinality({}) = 0
      BY FS_EmptySet
    <3>2. Cardinality({first}) = 1
      BY FS_Singleton
    <3> HIDE DEF small, first
    <3> QED BY <2>2, <3>1, <3>2
  <2>4. first \in small
    <3> HIDE DEF small
    <3> QED BY <1>0, <2>3, OneOfThem
  <2> HIDE DEF first
  <2>5. others # {} /\ others \in SUBSET Items
    BY <1>0, <2>3, <2>4
  <2>6. Shortest(others) \in others
    <3> HIDE DEF others
    <3> QED BY <1>0, <2>5, OneOfThem
  <2> DEFINE other == Shortest(others)
  <2>7. first \in Items /\ other \in Items /\ first \in waiting
    BY <1>0, <2>4, <2>5, <2>6
  <2>8. Adds(size, Append(bin, first), bin, first)
    <3> HIDE DEF bin
    <3> QED BY <1>0, <2>7, AppendAdds
  <2>9. other \in beside
    <3>1. size[first] \in Nat /\ size[other] \in Nat
      BY <1>0, <2>7
    <3>2. Load(Append(bin, first)) + size[other] <= Capacity
      <4> HIDE DEF bin, other
      <4>1. ~(Tokens(size, bin) + size[first] + size[other] > Capacity)
        BY <2>2 DEF Load, other
      <4> QED BY <1>0, <2>8, <3>1, <4>1, PackingAssumption DEF Adds, Load
    <3> QED BY <2>6, <3>2 DEF Room
  <2> DEFINE second == LastLongest(beside)
  <2>10. second \in beside
    <3>1. beside \in SUBSET Items /\ beside # {}
      BY <1>0, <2>9
    <3> HIDE DEF beside
    <3> QED BY <1>0, <3>1, OneOfThem
  <2> HIDE DEF second
  <2>11. second \in waiting /\ second # first /\ Load(Append(bin, first)) + size[second] <= Capacity
    BY <2>10 DEF Room
  <2>12. Load(bin) + size[first] + size[second] <= Capacity
    <3> HIDE DEF bin
    <3> QED BY <2>8, <2>11 DEF Adds, Load
  <2> HIDE DEF bin, small, others, beside
  <2>13. SmallPair(bin) = <<first, second>>
    BY <2>1 DEF second
  <2> QED BY <2>7, <2>11, <2>12, <2>13 DEF Adding, bin
<1> QED
  BY <1>1, <1>2

\* AddSmallPair
LEMMA AddSmallPairKeeps ==
  ASSUME PackInv, CallOK, AddSmallPair, UNCHANGED call
  PROVE  PackInv'
<1>1. phase = "small" /\ UNCHANGED <<packer, size, spare, full>> /\ at \in Nat /\ at <= Len(bins)
  BY DEF AddSmallPair, PackInv
<1>2. Halved /\ full = <<>> /\ spare = <<>> /\ Sound(Items, size, waiting, bins, spare)
  BY <1>1 DEF PackInv, Modified
<1>3. CASE at = 0
  <2>1. bins' = bins /\ waiting' = waiting /\ phase' = "greedy" /\ at' = 1
    BY <1>3 DEF AddSmallPair, KeepBins
  <2>2. Halved'
    BY <1>1, <1>2, <2>1 DEF Halved, Items, Batch
  <2>3. NoRoom({b \in DOMAIN bins : b < at})'
    BY <2>1, PackTypes DEF NoRoom
  <2> QED BY <1>1, <1>2, <2>1, <2>2, <2>3, ModifiedTurn DEF Modified
<1>4. CASE at # 0
  <2>1. AddTo(at, SmallPair(bins[at])) /\ phase' = "small" /\ at' = at - 1
    BY <1>1, <1>4 DEF AddSmallPair
  <2>2. at \in DOMAIN bins
    BY <1>1, <1>4, PackTypes
  <2>3. Adding(at, SmallPair(bins[at]))
    BY <2>2, PairFits
  <2>4. /\ Sound(Items, size, waiting', bins', spare) /\ Heavier(size, bins', bins)
        /\ Len(bins') = Len(bins)
    BY <1>1, <2>1, <2>2, <2>3, AddingKeeps
  <2>5. Halved'
    BY <1>1, <1>2, <2>4, HeavierHalved
  <2>6. at' \in Nat /\ at' <= Len(bins')
    BY <1>1, <1>4, <2>1, <2>4, PackTypes
  <2> QED BY <1>1, <1>2, <2>1, <2>4, <2>5, <2>6, ModifiedTurn DEF Modified
<1> QED
  BY <1>3, <1>4

\* An empty bin of its own is sound.
LEMMA EmptyBinSound ==
  ASSUME NEW D, NEW lengths, NEW wait, NEW all, Sound(D, lengths, wait, all, <<>>)
  PROVE  Sound(D, lengths, wait, all, <<<<>>>>)
<1> DEFINE bin == <<>>
           rest == <<bin>>
<1>1. bin \in Seq(D) /\ Range(bin) = {} /\ DOMAIN bin = {}
  BY DEF Range
<1>2. Tokens(lengths, bin) <= Capacity
  BY TokensOfNone, PackingAssumption
<1> HIDE DEF bin
<1>3. rest \in Seq(Seq(D)) /\ DOMAIN rest = {1} /\ rest[1] = bin
  BY <1>1
<1> HIDE DEF rest
<1>4. Held(rest) = {} /\ Apart(rest) /\ Held(<<>>) = {}
  BY <1>1, <1>3 DEF Held, Apart
<1>5. \A b \in DOMAIN rest : Tokens(lengths, rest[b]) <= Capacity
  BY <1>2, <1>3
<1>6. Sound(D, lengths, wait, all, rest)
  BY <1>3, <1>4, <1>5 DEF Sound
<1> QED
  BY <1>6 DEF rest, bin

\* FillGreedily
LEMMA FillGreedilyKeeps ==
  ASSUME PackInv, CallOK, FillGreedily, UNCHANGED call
  PROVE  PackInv'
<1> DEFINE fits == {i \in waiting : Room(bins[at], i)}
           done == {b \in DOMAIN bins : b < at}
<1>1. phase = "greedy" /\ UNCHANGED <<packer, size, full>> /\ at \in Nat /\ at > 0
  BY DEF FillGreedily, PackInv
<1>2. /\ Halved /\ full = <<>> /\ spare = <<>> /\ Sound(Items, size, waiting, bins, spare)
      /\ NoRoom(done)
  BY <1>1 DEF PackInv, Modified
<1>3. CASE at > Len(bins) \/ waiting = {}
  <2>1. bins' = bins /\ waiting' = waiting /\ phase' = "spread" /\ spare' = <<<<>>>> /\ at' = at
    BY <1>3 DEF FillGreedily, KeepBins
  <2>2. Halved' /\ Items' = Items
    BY <1>1, <1>2, <2>1 DEF Halved, Items, Batch
  <2>3. NoRoom(DOMAIN bins)
    <3>1. CASE at > Len(bins)
      <4>1. done = DOMAIN bins
        BY <1>1, <3>1, PackTypes
      <4> QED BY <1>2, <4>1
    <3>2. CASE waiting = {}
      BY <3>2 DEF NoRoom
    <3> QED BY <1>3, <3>1, <3>2
  <2>4. Leftover'
    <3>1. NoRoom(DOMAIN bins)'
      BY <1>1, <2>1, <2>3 DEF NoRoom
    <3> QED BY <2>1, <3>1 DEF Leftover
  <2>5. Sound(Items, size, waiting, bins, spare)'
    <3>1. Sound(Items, size, waiting, bins, <<<<>>>>)
      BY <1>2, EmptyBinSound
    <3> QED BY <1>1, <2>1, <2>2, <3>1
  <2>6. Unmerged'
    BY <1>1, <1>2, <2>1, HalvesApart DEF Unmerged
  <2> HIDE DEF done
  <2>7. at' \in Nat /\ full' = <<>>
    BY <1>1, <1>2, <2>1
  <2> QED BY <2>1, <2>2, <2>4, <2>5, <2>6, <2>7 DEF PackInv, Modified
<1>4. CASE ~(at > Len(bins) \/ waiting = {}) /\ fits = {}
  <2>1. /\ bins' = bins /\ waiting' = waiting /\ phase' = "greedy" /\ spare' = spare
        /\ at' = at + 1
    BY <1>1, <1>4 DEF FillGreedily, KeepBins
  <2>2. Halved'
    BY <1>1, <1>2, <2>1 DEF Halved, Items, Batch
  <2>3. NoRoom({b \in DOMAIN bins : b < at + 1})
    <3>1. ASSUME NEW b \in DOMAIN bins, b < at + 1, NEW i \in waiting
          PROVE  Tokens(size, bins[b]) + size[i] > Capacity
      <4>1. b \in done \/ b = at
        BY <1>1, <3>1, PackTypes
      <4>2. CASE b \in done
        BY <1>2, <4>2 DEF NoRoom
      <4>3. CASE b = at
        <5>1. ~(Tokens(size, bins[b]) + size[i] <= Capacity)
          BY <1>4, <4>3 DEF Room, Load
        <5>2. Tokens(size, bins[b]) \in Nat /\ size[i] \in Nat
          BY PackTypes
        <5> QED BY <5>1, <5>2, PackingAssumption
      <4> QED BY <4>1, <4>2, <4>3
    <3> QED BY <3>1 DEF NoRoom
  <2>4. NoRoom({b \in DOMAIN bins : b < at})'
    BY <1>1, <2>1, <2>3 DEF NoRoom
  <2> HIDE DEF done, fits
  <2> QED BY <1>1, <1>2, <2>1, <2>2, <2>4, ModifiedTurn DEF Modified
<1>5. CASE ~(at > Len(bins) \/ waiting = {}) /\ fits # {}
  <2> DEFINE i == Longest(fits)
  <2>1. AddTo(at, <<i>>) /\ phase' = "greedy" /\ at' = at /\ spare' = spare
    BY <1>1, <1>5 DEF FillGreedily
  <2>2. i \in fits
    <3>1. fits \in SUBSET Items /\ size \in [Items -> Nat] /\ Batch \in Nat
      BY PackTypes DEF CallOK
    <3> HIDE DEF fits
    <3> QED BY <1>5, <3>1, OneOfThem
  <2>3. i \in waiting /\ Room(bins[at], i) /\ at \in DOMAIN bins
    BY <1>1, <1>5, <2>2, PackTypes
  <2> HIDE DEF i, fits
  <2>4. Adding(at, <<i>>)
    BY <2>3 DEF Adding
  <2>5. /\ Sound(Items, size, waiting', bins', spare) /\ Heavier(size, bins', bins)
        /\ \A c \in DOMAIN bins : c # at => bins'[c] = bins[c]
        /\ waiting' \in SUBSET waiting
    BY <1>1, <2>1, <2>3, <2>4, AddingKeeps
  <2>6. Halved'
    BY <1>1, <1>2, <2>1, <2>5, HeavierHalved
  <2>7. NoRoom({b \in DOMAIN bins : b < at})'
    <3>1. ASSUME NEW b \in DOMAIN bins', b < at', NEW j \in waiting'
          PROVE  Tokens(size, bins'[b]) + size[j] > Capacity
      <4>1. b \in DOMAIN bins /\ bins'[b] = bins[b] /\ j \in waiting
        BY <1>1, <2>1, <2>5, <3>1, PackTypes DEF Heavier
      <4>2. b \in done
        BY <2>1, <3>1, <4>1
      <4> QED BY <1>2, <4>1, <4>2 DEF NoRoom
    <3> QED BY <1>1, <3>1 DEF NoRoom
  <2> HIDE DEF done
  <2> QED BY <1>1, <1>2, <2>1, <2>5, <2>6, <2>7, ModifiedTurn DEF Modified
<1> QED
  BY <1>3, <1>4, <1>5

\* A sequence that has room in none of the bins joins h, and h goes among the
\* other spare bins t.
LEMMA SpreadTo ==
  ASSUME PackInv, Leftover, NEW i \in waiting,
         NEW t \in Seq(Seq(Items)), NEW h \in Seq(Items),
         Tokens(size, h) + size[i] <= Capacity,
         Parts(size, spare, t, h), NoneEmpty(t), Ranked(size, t),
         \A b \in DOMAIN t : Tokens(size, t[b]) + Tokens(size, h) + size[i] > Capacity,
         \A b \in DOMAIN bins, k \in DOMAIN t :
           Tokens(size, bins[b]) + Tokens(size, t[k]) > Capacity,
         NEW more, more = Sorted(t, Append(h, i))
  PROVE  /\ Sound(Items, size, waiting \ {i}, bins, more)
         /\ more # <<>> /\ NoneEmpty(more) /\ Ranked(size, more)
         /\ \A b \in DOMAIN bins, k \in DOMAIN more :
              Tokens(size, bins[b]) + Tokens(size, more[k]) > Capacity
<1> DEFINE bin == Append(h, i)
<1>0. /\ Sound(Items, size, waiting, bins, spare) /\ size \in [Items -> Nat] /\ i \in Items
      /\ size[i] \in Nat
  BY PackTypes DEF PackInv
<1>1. Adds(size, bin, h, i)
  BY <1>0, AppendAdds
<1>2. Tokens(size, h) \in Nat /\ Tokens(size, bin) = Tokens(size, h) + size[i] /\ Tokens(size, bin) \in Nat
  BY <1>0, <1>1 DEF Adds
<1>3. \A b \in DOMAIN t : t[b] \in Seq(Items) /\ Tokens(size, t[b]) \in Nat
  <2>1. \A b \in DOMAIN t : t[b] \in Seq(Items)
    OBVIOUS
  <2> QED BY <1>0, <2>1, TokensOfMore
<1>10. bin \in Seq(Items) /\ bin # <<>>
  <2>1. bin \in Seq(Items) /\ Len(bin) = Len(h) + 1 /\ Len(h) \in Nat
    BY <1>0
  <2> HIDE DEF bin
  <2> QED BY <2>1
<1> HIDE DEF bin
<1>4. PICK p \in 1 .. Len(t) + 1 :
           /\ SortedIn(size, t, bin) = InsertAt(t, p, bin)
           /\ \A k \in DOMAIN t : k < p <=> Tokens(size, t[k]) <= Tokens(size, bin)
  BY <1>2, <1>3, PlaceFound
<1>5. more = InsertAt(t, p, bin)
  BY <1>4, SortedIs DEF bin
<1>6. /\ Sound(Items, size, waiting \ {i}, bins, more)
      /\ HasInserted(more, t, p, bin)
  <2>1. more = InsertAt(t, p, Append(h, i))
    BY <1>5 DEF bin
  <2>2. /\ Sound(Items, size, waiting \ {i}, bins, more)
        /\ HasInserted(more, t, p, Append(h, i))
    BY <1>0, <2>1, SoundSpare, Zenon
  <2> QED BY <2>2 DEF bin
<1>7. DOMAIN more = 1 .. Len(t) + 1 /\ more # <<>>
  <2>1. more \in Seq(Seq(Items)) /\ Len(more) = Len(t) + 1 /\ Len(t) \in Nat
    BY <1>6 DEF Sound, HasInserted
  <2> QED BY <2>1
<1>8. Ranked(size, more)
  <2>1. \A b \in DOMAIN t : Tokens(size, t[b]) + Tokens(size, bin) > Capacity
    BY <1>0, <1>2, <1>3
  <2> QED BY <1>2, <1>3, <1>4, <1>6, <1>7, <2>1, StaysRanked
<1>9. PICK m : OneMore(more, t, bin, p, m)
  BY <1>6 DEF HasInserted
<1>11. NoneEmpty(more)
  BY <1>9, <1>10, OneMoreHolds
<1>12. ASSUME NEW b \in DOMAIN bins, NEW k \in DOMAIN more
       PROVE  Tokens(size, bins[b]) + Tokens(size, more[k]) > Capacity
  <2>1. CASE k = p
    <3>1. more[k] = bin
      BY <1>9, <2>1 DEF OneMore
    <3>2. Tokens(size, bins[b]) + size[i] > Capacity /\ Tokens(size, bins[b]) \in Nat
      BY PackTypes DEF Leftover, NoRoom
    <3> QED BY <1>0, <1>2, <3>1, <3>2, PackingAssumption
  <2>2. CASE k \in DOMAIN more \ {p}
    <3>1. m[k] \in DOMAIN t /\ more[k] = t[m[k]]
      BY <1>9, <2>2 DEF OneMore
    <3> QED BY <3>1
  <2> QED BY <2>1, <2>2
<1> QED
  BY <1>6, <1>7, <1>8, <1>11, <1>12

\* Spread
LEMMA SpreadKeeps ==
  ASSUME PackInv, CallOK, Spread, UNCHANGED call
  PROVE  PackInv'
<1> DEFINE i == Longest(waiting)
<1>1. /\ phase = "spread" /\ UNCHANGED <<packer, size, bins, phase, at, full>>
      /\ waiting # {} /\ waiting' = waiting \ {i}
  BY DEF Spread
<1>2. /\ Halved /\ full = <<>> /\ Sound(Items, size, waiting, bins, spare)
      /\ Leftover /\ NoRoom(DOMAIN bins)
  BY <1>1 DEF PackInv, Modified, Leftover
<1>3. i \in waiting /\ i \in Items /\ size[i] \in Nat /\ size[i] <= Capacity
  <2>1. i \in waiting
    BY <1>1, PackTypes, OneOfThem DEF CallOK
  <2> QED BY <1>2, <2>1, PackTypes DEF Halved
<1>4. /\ spare' = IF Room(Head(spare), i)
                  THEN Sorted(Tail(spare), Append(Head(spare), i))
                  ELSE Sorted(spare, <<i>>)
  BY DEF Spread
<1> HIDE DEF i
<1>5. /\ Sound(Items, size, waiting \ {i}, bins, spare')
      /\ spare' # <<>> /\ NoneEmpty(spare') /\ Ranked(size, spare')
      /\ \A b \in DOMAIN bins, k \in DOMAIN spare' :
           Tokens(size, bins[b]) + Tokens(size, spare'[k]) > Capacity
  <2> DEFINE none == <<>>
  <2>1. /\ none \in Seq(Seq(Items)) /\ none \in Seq(Items) /\ DOMAIN none = {}
        /\ Apart(none) /\ NoneEmpty(none) /\ Ranked(size, none) /\ IsInjective(none)
        /\ Held(none) = {} /\ Range(none) = {} /\ Tokens(size, none) = 0
    BY TokensOfNone DEF Apart, NoneEmpty, Ranked, IsInjective, Held, Range
  <2>2. Append(none, i) = <<i>>
    BY <1>3
  <2>3. CASE spare = <<<<>>>>
    <3>1. Head(spare) = none /\ Tail(spare) = none
      BY <2>3
    <3>2. Held(spare) = {}
      BY <2>3 DEF Held, Range
    <3> HIDE DEF none
    <3>3. Tokens(size, none) + size[i] <= Capacity
      BY <1>3, <2>1
    <3>4. spare' = Sorted(none, Append(none, i))
      <4>1. Room(Head(spare), i)
        BY <3>1, <3>3 DEF Room, Load
      <4> QED BY <1>4, <3>1, <4>1
    <3>5. Parts(size, spare, none, none)
      BY <2>1, <3>2 DEF Parts
    <3> QED BY <1>2, <1>3, <2>1, <3>3, <3>4, <3>5, SpreadTo
  <2>4. CASE spare # <<<<>>>>
    <3>1. /\ spare # <<>> /\ NoneEmpty(spare) /\ Ranked(size, spare)
          /\ \A b \in DOMAIN bins, k \in DOMAIN spare :
               Tokens(size, bins[b]) + Tokens(size, spare[k]) > Capacity
      BY <1>2, <2>4 DEF Leftover
    <3>2. /\ spare \in Seq(Seq(Items))
          /\ \A k \in DOMAIN spare : Tokens(size, spare[k]) \in Nat /\ Tokens(size, spare[k]) <= Capacity
          /\ Apart(spare)
      BY <1>2, PackTypes DEF Sound
    <3> DEFINE h == Head(spare)
               t == Tail(spare)
    <3>3. h \in Seq(Items) /\ t \in Seq(Seq(Items)) /\ IsFollowed(spare, t, h)
      BY <3>1, <3>2, Follows
    <3> HIDE DEF h, t
    <3>4. PICK m : OneMore(spare, t, h, 1, m)
      BY <3>3 DEF IsFollowed
    <3>5. /\ Held(spare) = Held(t) \cup Range(h) /\ Range(h) \cap Held(t) = {}
          /\ Apart(t) /\ IsInjective(h) /\ NoneEmpty(t)
      BY <3>1, <3>2, <3>4, OneMoreHolds
    <3>6. 1 \in DOMAIN spare /\ h = spare[1]
      BY <3>3 DEF IsFollowed
    <3>7. CASE Room(h, i)
      <4>1. spare' = Sorted(t, Append(h, i))
        BY <1>4, <3>7 DEF h, t
      <4>2. \A k \in DOMAIN t : k + 1 \in DOMAIN spare /\ t[k] = spare[k + 1] /\ k \in Nat /\ k > 0
        <5>1. DOMAIN t = 1 .. Len(spare) - 1 /\ DOMAIN spare = 1 .. Len(spare) /\ Len(spare) \in Nat
          BY <3>2, <3>3 DEF IsFollowed
        <5> QED BY <3>3, <5>1 DEF IsFollowed
      <4>3. Ranked(size, t)
        <5> SUFFICES ASSUME NEW k \in DOMAIN t, NEW l \in DOMAIN t, k < l
                     PROVE  /\ Tokens(size, t[k]) <= Tokens(size, t[l])
                            /\ Tokens(size, t[k]) + Tokens(size, t[l]) > Capacity
          BY DEF Ranked
        <5>1. k + 1 < l + 1 /\ t[k] = spare[k + 1] /\ t[l] = spare[l + 1]
              /\ k + 1 \in DOMAIN spare /\ l + 1 \in DOMAIN spare
          BY <4>2
        <5> QED BY <3>1, <5>1 DEF Ranked
      <4>4. ASSUME NEW k \in DOMAIN t
            PROVE  /\ Tokens(size, t[k]) <= Capacity
                   /\ Tokens(size, t[k]) + Tokens(size, h) + size[i] > Capacity
                   /\ \A b \in DOMAIN bins : Tokens(size, bins[b]) + Tokens(size, t[k]) > Capacity
        <5> DEFINE l == k + 1
        <5>1. l \in DOMAIN spare /\ t[k] = spare[l] /\ 1 < l
          BY <4>2
        <5> HIDE DEF l
        <5>2. Tokens(size, spare[1]) + Tokens(size, spare[l]) > Capacity
          BY <3>1, <3>6, <5>1 DEF Ranked
        <5>3. Tokens(size, spare[1]) \in Nat /\ Tokens(size, spare[l]) \in Nat
          BY <3>2, <3>6, <5>1
        <5>4. Tokens(size, t[k]) + Tokens(size, h) + size[i] > Capacity
          BY <1>3, <3>6, <5>1, <5>2, <5>3, PackingAssumption
        <5> QED BY <3>1, <3>2, <5>1, <5>4
      <4>5. Tokens(size, h) + size[i] <= Capacity
        BY <3>7 DEF Room, Load
      <4>6. Parts(size, spare, t, h)
        BY <3>5, <4>4 DEF Parts
      <4> QED BY <1>2, <1>3, <3>3, <3>5, <4>1, <4>3, <4>4, <4>5, <4>6, SpreadTo
    <3>8. CASE ~Room(h, i)
      <4>1. spare' = Sorted(spare, Append(none, i))
        BY <1>4, <2>2, <3>8 DEF h
      <4>2. ASSUME NEW k \in DOMAIN spare
            PROVE  Tokens(size, spare[k]) + Tokens(size, none) + size[i] > Capacity
        <5>1. ~(Tokens(size, spare[1]) + size[i] <= Capacity)
          BY <3>6, <3>8 DEF Room, Load
        <5>2. k = 1 \/ 1 < k
          BY <3>2
        <5>3. Tokens(size, spare[1]) <= Tokens(size, spare[k])
          <6>1. CASE k = 1
            BY <3>2, <3>6, <6>1
          <6>2. CASE 1 < k
            BY <3>1, <3>6, <6>2 DEF Ranked
          <6> QED BY <5>2, <6>1, <6>2
        <5>4. Tokens(size, spare[1]) \in Nat /\ Tokens(size, spare[k]) \in Nat
          BY <3>2, <3>6
        <5> HIDE DEF none
        <5> QED BY <1>3, <2>1, <5>1, <5>3, <5>4, PackingAssumption
      <4>3. Tokens(size, none) + size[i] <= Capacity
        BY <1>3, <2>1
      <4>4. Parts(size, spare, spare, none)
        BY <2>1, <3>2 DEF Parts
      <4> HIDE DEF none
      <4> QED BY <1>2, <1>3, <2>1, <3>1, <3>2, <4>1, <4>2, <4>3, <4>4, SpreadTo
    <3> QED BY <3>7, <3>8
  <2> QED BY <2>3, <2>4
<1>6. Items' = Items /\ Halved'
  BY <1>1, <1>2 DEF Halved, Items, Batch
<1>7. Sound(Items, size, waiting, bins, spare)'
  BY <1>1, <1>5, <1>6
<1>8. Leftover'
  <2>1. NoRoom(DOMAIN bins)'
    BY <1>1, <1>2 DEF NoRoom
  <2>2. NoneEmpty(spare)' /\ Ranked(size, spare)'
    BY <1>1, <1>5
  <2> QED BY <1>1, <1>5, <2>1, <2>2 DEF Leftover
<1>9. Unmerged'
  BY <1>1, <1>2, HalvesApart DEF Unmerged
<1> QED
  BY <1>1, <1>2, <1>6, <1>7, <1>8, <1>9 DEF PackInv, Modified

\* The lengths of some bins.
LEMMA CountsOfBins ==
  ASSUME NEW D, NEW all \in Seq(Seq(D))
  PROVE  /\ [b \in DOMAIN all |-> Len(all[b])] \in Seq(Nat)
         /\ Len([b \in DOMAIN all |-> Len(all[b])]) = Len(all)
         /\ Len(all) \in Nat /\ DOMAIN all = 1 .. Len(all)
<1> DEFINE n == Len(all)
           counts == [b \in DOMAIN all |-> Len(all[b])]
<1>1. n \in Nat /\ DOMAIN all = 1 .. n /\ \A b \in 1 .. n : Len(all[b]) \in Nat
  OBVIOUS
<1> HIDE DEF n
<1>2. counts \in [1 .. n -> Nat]
  BY <1>1
<1> HIDE DEF counts
<1>3. counts \in Seq(Nat) /\ Len(counts) = n
  BY <1>1, <1>2
<1> QED
  BY <1>1, <1>3 DEF counts, n

\* SpreadEnds
LEMMA SpreadEndsKeeps ==
  ASSUME PackInv, CallOK, SpreadEnds, UNCHANGED call
  PROVE  PackInv'
<1>1. /\ phase = "spread" /\ waiting = {} /\ UNCHANGED <<packer, size, waiting, at>>
      /\ bins' = NonEmpty(bins \o spare) /\ spare' = <<>> /\ phase' = "adjust"
      /\ full' = [b \in DOMAIN bins' |-> Len(bins'[b])]
  BY DEF SpreadEnds
<1>2. /\ Halved /\ Sound(Items, size, waiting, bins, spare) /\ Leftover
      /\ bins \in Seq(Seq(Items)) /\ NoneEmpty(bins)
  BY <1>1 DEF PackInv, Modified, Sound
<1>3. /\ Sound(Items, size, waiting, bins', <<>>)
      /\ \A b, c \in DOMAIN bins' : b < c =>
           Tokens(size, bins'[b]) + Tokens(size, bins'[c]) > Capacity
  <2>1. CASE spare = <<<<>>>>
    <3>1. bins \o spare = Append(bins, <<>>)
      BY <1>2, <2>1
    <3>2. bins' = bins
      <4>1. \A b \in DOMAIN bins : bins[b] # <<>>
        BY <1>2 DEF NoneEmpty
      <4> QED BY <1>1, <1>2, <3>1, <4>1, NonEmptyKeeps
    <3>3. Held(spare) = {} /\ Held(<<>>) = {} /\ Apart(<<>>) /\ <<>> \in Seq(Seq(Items))
      BY <2>1 DEF Held, Range, Apart
    <3>4. Sound(Items, size, waiting, bins, <<>>)
      BY <1>2, <3>3 DEF Sound
    <3> QED BY <1>2, <3>2, <3>4, HalvesApart
  <2>2. CASE spare # <<<<>>>>
    <3> DEFINE joined == bins \o spare
    <3>1. /\ NoneEmpty(spare) /\ Ranked(size, spare)
          /\ \A b \in DOMAIN bins, k \in DOMAIN spare :
               Tokens(size, bins[b]) + Tokens(size, spare[k]) > Capacity
      BY <1>2, <2>2 DEF Leftover
    <3>2. Sound(Items, size, waiting, joined, <<>>) /\ HasJoined(joined, bins, spare)
      BY <1>2, <3>1, SoundJoined
    <3> HIDE DEF joined
    <3>3. bins' = joined
      <4>1. joined \in Seq(Seq(Items)) /\ \A b \in DOMAIN joined : joined[b] # <<>>
        BY <3>2 DEF Sound, NoneEmpty
      <4>2. bins' = NonEmpty(joined)
        BY <1>1 DEF joined
      <4> QED BY <4>1, <4>2, NonEmptyKeeps
    <3>4. ASSUME NEW b \in DOMAIN joined, NEW c \in DOMAIN joined, b < c
          PROVE  Tokens(size, joined[b]) + Tokens(size, joined[c]) > Capacity
      <4> DEFINE n == Len(bins)
                 k == b - n
                 l == c - n
      <4>0. n \in Nat /\ DOMAIN bins = 1 .. n /\ b \in Nat /\ c \in Nat
        <5>1. joined \in Seq(Seq(Items))
          BY <3>2 DEF Sound
        <5> QED BY <1>2, <5>1
      <4>1. \/ b \in DOMAIN bins /\ joined[b] = bins[b]
            \/ b > n /\ k \in DOMAIN spare /\ joined[b] = spare[k]
        BY <3>2 DEF HasJoined
      <4>2. \/ c \in DOMAIN bins /\ joined[c] = bins[c]
            \/ c > n /\ l \in DOMAIN spare /\ joined[c] = spare[l]
        BY <3>2 DEF HasJoined
      <4>3. k < l
        BY <3>4, <4>0
      <4> HIDE DEF k, l
      <4>4. CASE /\ b \in DOMAIN bins /\ joined[b] = bins[b]
                 /\ c \in DOMAIN bins /\ joined[c] = bins[c]
        BY <1>2, <4>4, HalvesApart
      <4>5. CASE /\ b \in DOMAIN bins /\ joined[b] = bins[b]
                 /\ c > n /\ l \in DOMAIN spare /\ joined[c] = spare[l]
        BY <3>1, <4>5
      <4>6. CASE /\ b > n /\ k \in DOMAIN spare /\ joined[b] = spare[k]
                 /\ c > n /\ l \in DOMAIN spare /\ joined[c] = spare[l]
        BY <3>1, <4>3, <4>6 DEF Ranked
      <4>7. ~(b > n /\ c \in DOMAIN bins)
        BY <3>4, <4>0
      <4> QED BY <4>1, <4>2, <4>4, <4>5, <4>6, <4>7
    <3> QED BY <3>2, <3>3, <3>4
  <2> QED BY <2>1, <2>2
<1>4. Items' = Items
  BY <1>1 DEF Items, Batch
<1>5. bins' \in Seq(Seq(Items))
  BY <1>3 DEF Sound
<1>6. full' \in Seq(Nat) /\ Len(full') = Len(bins') /\ Len(bins') \in Nat /\ DOMAIN bins' = 1 .. Len(bins')
  BY <1>1, <1>5, CountsOfBins, Zenon
<1>7. Len(full') <= BinsWanted(call.shards)'
  BY <1>6 DEF CallOK, BinsWanted
<1>8. Adjusted'
  BY <1>1, <1>6, <1>7 DEF Adjusted
<1>9. Unmerged'
  BY <1>1, <1>3 DEF Unmerged
<1>10. Sound(Items, size, waiting, bins, spare)'
  BY <1>1, <1>3, <1>4
<1>11. at' \in Nat
  BY <1>1 DEF PackInv
<1> QED
  BY <1>1, <1>4, <1>6, <1>8, <1>9, <1>10, <1>11 DEF PackInv, Modified

\* Fit
LEMMA FitKeeps ==
  ASSUME PackInv, CallOK, Fit, UNCHANGED call
  PROVE  PackInv'
<1>1. /\ phase = "fit" /\ waiting # {} /\ UNCHANGED <<packer, size, spare, at, full>>
  BY DEF Fit
<1>2. PICK i \in NextUp :
        IF size[i] > Capacity
        THEN phase' = "refused" /\ UNCHANGED <<waiting, bins>>
        ELSE PutInBin(i) /\ waiting' = waiting \ {i} /\ UNCHANGED phase
  BY DEF Fit
<1>3. i \in waiting /\ i \in Items /\ size[i] \in Nat
  <2>1. waiting \in SUBSET Items /\ size \in [Items -> Nat] /\ Batch \in Nat
    BY PackTypes DEF CallOK
  <2>2. Min(waiting) \in waiting /\ LastLongest(waiting) \in waiting
    BY <1>1, <2>1, OneOfThem
  <2>3. i \in waiting
    BY <2>2 DEF NextUp
  <2> QED BY <2>3, PackTypes
<1>4. /\ Sound(Items, size, waiting, bins, spare) /\ full = <<>> /\ spare = <<>> /\ Unmerged
      /\ at \in Nat
  BY <1>1 DEF PackInv
<1>5. Items' = Items
  BY DEF Items, Batch
<1>6. /\ bins \in Seq(Seq(Items)) /\ Len(bins) \in Nat /\ DOMAIN bins = 1 .. Len(bins)
      /\ \A b \in DOMAIN bins : Tokens(size, bins[b]) \in Nat
  BY PackTypes
<1>7. \A b, c \in DOMAIN bins : b < c /\ (packer = "concatenative" => c = b + 1) =>
        Tokens(size, bins[b]) + Tokens(size, bins[c]) > Capacity
  BY <1>4 DEF Unmerged
<1>8. CASE size[i] > Capacity
  <2>1. phase' = "refused" /\ UNCHANGED <<waiting, bins>>
    BY <1>2, <1>8
  <2>2. Unmerged'
    BY <1>1, <1>4, <2>1 DEF Unmerged
  <2>3. Sound(Items, size, waiting, bins, spare)'
    BY <1>1, <1>4, <1>5, <2>1
  <2> QED BY <1>1, <1>4, <2>1, <2>2, <2>3 DEF PackInv, Modified
<1>9. CASE ~(size[i] > Capacity)
  <2> DEFINE fits == {b \in Open : Room(bins[b], i)}
  <2>1. /\ bins' = IF fits = {} THEN Append(bins, <<i>>)
                   ELSE [bins EXCEPT ![Min(fits)] = Append(@, i)]
        /\ waiting' = waiting \ {i} /\ phase' = "fit"
    BY <1>1, <1>2, <1>9 DEF PutInBin
  <2>2. \A b \in Open : b \in DOMAIN bins
    BY DEF Open
  <2>3. CASE fits = {}
    <3>1. bins' = Append(bins, <<i>>) /\ size[i] <= Capacity
      BY <1>3, <1>9, <2>1, <2>3, PackingAssumption
    <3>2. /\ Sound(Items, size, waiting', bins', spare)
          /\ HasOpened(bins', bins, <<i>>) /\ Tokens(size, <<i>>) = size[i]
      <4>1. waiting' = waiting \ {i}
        BY <2>1
      <4> QED BY <1>3, <1>4, <3>1, <4>1, SoundOpened, Zenon
    <3>3. ASSUME NEW b \in Open PROVE Tokens(size, bins[b]) + size[i] > Capacity
      <4>1. ~(Tokens(size, bins[b]) + size[i] <= Capacity)
        BY <2>3 DEF Room, Load
      <4> QED BY <1>3, <1>6, <2>2, <4>1, PackingAssumption
    <3> HIDE DEF fits
    <3>4. ASSUME NEW b \in DOMAIN bins', NEW c \in DOMAIN bins', b < c,
                 packer = "concatenative" => c = b + 1
          PROVE  Tokens(size, bins'[b]) + Tokens(size, bins'[c]) > Capacity
      <4>1. /\ DOMAIN bins' = DOMAIN bins \cup {Len(bins) + 1}
            /\ bins'[Len(bins) + 1] = <<i>>
            /\ \A d \in DOMAIN bins : bins'[d] = bins[d]
        BY <3>2 DEF HasOpened
      <4>2. b \in DOMAIN bins
        BY <1>6, <3>4, <4>1
      <4>3. CASE c \in DOMAIN bins
        BY <1>7, <3>4, <4>1, <4>2, <4>3
      <4>4. CASE c = Len(bins) + 1
        <5>1. b \in Open
          BY <1>6, <3>4, <4>2, <4>4 DEF Open
        <5> QED BY <3>2, <3>3, <4>1, <4>2, <4>4, <5>1
      <4> QED BY <4>1, <4>3, <4>4
    <3>5. Unmerged'
      BY <1>1, <3>4 DEF Unmerged
    <3>6. Sound(Items, size, waiting, bins, spare)'
      BY <1>1, <1>4, <1>5, <3>2
    <3> QED BY <1>1, <1>4, <2>1, <3>5, <3>6 DEF PackInv, Modified
  <2>4. CASE fits # {}
    <3> DEFINE b == Min(fits)
    <3>1. b \in fits
      <4>1. fits \in SUBSET Nat
        BY <1>6, <2>2
      <4> HIDE DEF fits
      <4> QED BY <2>4, <4>1, MinIsMember
    <3>2. b \in DOMAIN bins /\ Tokens(size, bins[b]) + size[i] <= Capacity
      BY <2>2, <3>1 DEF Room, Load
    <3>3. bins' = Grown(bins, b, i)
      BY <2>1, <2>4 DEF Grown
    <3> HIDE DEF b, fits
    <3>4. Sound(Items, size, waiting', bins', spare) /\ Heavier(size, bins', bins)
      BY <1>3, <1>4, <2>1, <3>2, <3>3, SoundGrown, Zenon
    <3>5. ASSUME NEW c \in DOMAIN bins', NEW d \in DOMAIN bins', c < d,
                 packer = "concatenative" => d = c + 1
          PROVE  Tokens(size, bins'[c]) + Tokens(size, bins'[d]) > Capacity
      <4>1. /\ c \in DOMAIN bins /\ Tokens(size, bins[c]) <= Tokens(size, bins'[c])
            /\ d \in DOMAIN bins /\ Tokens(size, bins[d]) <= Tokens(size, bins'[d])
        BY <3>4 DEF Heavier
      <4>2. Tokens(size, bins'[c]) \in Nat /\ Tokens(size, bins'[d]) \in Nat
        BY <3>4, SoundTokens
      <4>3. Tokens(size, bins[c]) + Tokens(size, bins[d]) > Capacity
        BY <1>7, <3>5, <4>1
      <4>4. Tokens(size, bins[c]) \in Nat /\ Tokens(size, bins[d]) \in Nat
        BY <1>6, <4>1
      <4> QED BY <4>1, <4>2, <4>3, <4>4, PackingAssumption
    <3>6. Unmerged'
      BY <1>1, <3>5 DEF Unmerged
    <3>7. Sound(Items, size, waiting, bins, spare)'
      BY <1>1, <1>4, <1>5, <3>4
    <3> QED BY <1>1, <1>4, <2>1, <3>6, <3>7 DEF PackInv, Modified
  <2> QED BY <2>3, <2>4
<1> QED
  BY <1>8, <1>9

-----------------------------------------------------------------------------
(* The bins are spread until their number is a multiple of the shards *)

\* Of the bins that can give there is one that comes before the others.
LEMMA OneGives ==
  ASSUME full \in Seq(Nat), Givers # {}
  PROVE  \E b \in Givers : \A c \in Givers : Before(b, c)
<1> DEFINE n == Len(full)
           G == Givers
           most == {b \in G : \A c \in G : full[c] <= full[b]}
           self == [k \in 1 .. n |-> k]
<1>1. n \in Nat /\ full \in [1 .. n -> Nat] /\ G \in SUBSET (1 .. n) /\ G # {}
  BY DEF Givers
<1>2. self \in [1 .. n -> Nat] /\ \A k \in 1 .. n : self[k] = k
  OBVIOUS
<1> HIDE DEF n, G, self
<1>3. \E b \in G : \A c \in G : full[c] <= full[b]
  BY <1>1, GreatestValue
<1>4. most \in SUBSET (1 .. n) /\ most # {}
  BY <1>1, <1>3
<1>5. \E b \in most : \A c \in most : self[c] <= self[b]
  <2> HIDE DEF most
  <2> QED BY <1>1, <1>2, <1>4, GreatestValue
<1>6. PICK b \in most : \A c \in most : c <= b
  <2>1. \A c \in most : self[c] = c
    BY <1>2, <1>4
  <2> HIDE DEF most
  <2> QED BY <1>5, <2>1
<1>7. ASSUME NEW c \in G PROVE Before(b, c)
  <2>1. full[b] \in Nat /\ full[c] \in Nat /\ b \in Nat /\ c \in Nat /\ full[c] <= full[b]
    BY <1>1
  <2>2. CASE full[b] > full[c]
    BY <2>2 DEF Before
  <2>3. CASE full[b] = full[c]
    <3>1. \A d \in G : full[d] <= full[c]
      BY <2>3
    <3>2. c <= b
      BY <1>6, <3>1
    <3> QED BY <2>1, <2>3, <3>2 DEF Before
  <2> QED BY <2>1, <2>2, <2>3
<1> QED
  BY <1>6, <1>7 DEF G

\* When every bin has one sequence there are as many bins as sequences.
LEMMA OneEach ==
  ASSUME NEW n \in Nat, NEW all, DOMAIN all = 1 .. Len(all), Len(all) \in Nat,
         \A i \in 1 .. n : \E b \in DOMAIN all : all[b][1] = i
  PROVE  n <= Len(all)
<1> DEFINE D == 1 .. n
           B == 1 .. Len(all)
           bin == [i \in D |-> CHOOSE b \in DOMAIN all : all[b][1] = i]
<1>1. \A i \in D : bin[i] \in B /\ all[bin[i]][1] = i
  OBVIOUS
<1>2. bin \in Injection(D, B)
  <2>1. bin \in [D -> B]
    BY <1>1
  <2>2. \A i, j \in D : bin[i] = bin[j] => i = j
    BY <1>1
  <2> HIDE DEF D, B, bin
  <2> QED BY <2>1, <2>2 DEF Injection, IsInjective
<1>3. IsFiniteSet(B)
  BY FS_Interval
<1>4. Cardinality(D) <= Cardinality(B)
  <2> HIDE DEF D, B, bin
  <2> QED BY <1>2, <1>3, FS_Injection
<1>5. Cardinality(D) = n /\ Cardinality(B) = Len(all)
  BY CountTo
<1> QED
  BY <1>4, <1>5

\* The bins never run out of sequences to give.
LEMMA SomeGive ==
  ASSUME PackInv, CallOK, phase = "adjust", Cardinality(DOMAIN size) >= BinsWanted(call.shards),
         Len(bins) # BinsWanted(call.shards)
  PROVE  Givers # {}
<1> SUFFICES ASSUME Givers = {} PROVE FALSE
  OBVIOUS
<1>1. Adjusted /\ Sound(Items, size, waiting, bins, spare) /\ full \in Seq(Nat) /\ spare = <<>>
  BY DEF PackInv, Modified
<1>2. /\ bins \in Seq(Seq(Items)) /\ Len(bins) \in Nat /\ DOMAIN bins = 1 .. Len(bins)
      /\ DOMAIN size = Items
  BY PackTypes
<1>3. ASSUME NEW b \in DOMAIN bins PROVE bins[b] \in Seq(Items) /\ Len(bins[b]) = 1
  <2>1. bins[b] \in Seq(Items) /\ bins[b] # <<>>
    BY <1>1, <1>2 DEF Sound, NoneEmpty
  <2>2. Len(bins[b]) \in Nat /\ Len(bins[b]) # 0
    BY <2>1
  <2>3. CASE b > Len(full)
    BY <1>1, <2>1, <2>3 DEF Adjusted
  <2>4. CASE ~(b > Len(full))
    <3>1. b \in DOMAIN full
      BY <1>1, <1>2, <2>4
    <3>2. ~(Len(bins[b]) > 1)
      BY <3>1 DEF Givers
    <3>3. Len(bins[b]) = 1
      <4> DEFINE m == Len(bins[b])
      <4>1. m \in Nat /\ m # 0 /\ ~(m > 1)
        BY <2>2, <3>2
      <4> HIDE DEF m
      <4>2. m = 1
        BY <4>1
      <4> QED BY <4>2 DEF m
    <3> QED BY <2>1, <3>3
  <2> QED BY <2>3, <2>4
<1>4. ASSUME NEW i \in 1 .. Batch PROVE \E b \in DOMAIN bins : bins[b][1] = i
  <2>1. Held(spare) = {} /\ waiting = {} /\ i \in Items
    BY <1>1 DEF Held, Adjusted, Items
  <2>2. i \in Held(bins)
    BY <1>1, <2>1 DEF Sound
  <2>3. PICK b \in DOMAIN bins : \E k \in DOMAIN bins[b] : bins[b][k] = i
    BY <2>2, HeldIs, Zenon
  <2>4. PICK k \in DOMAIN bins[b] : bins[b][k] = i
    BY <2>3
  <2>5. k = 1
    BY <1>3
  <2> QED BY <2>4, <2>5
<1>5. Batch <= Len(bins)
  BY <1>2, <1>4, OneEach DEF CallOK
<1>6. Cardinality(DOMAIN size) = Batch
  BY <1>2, CountTo DEF Items, CallOK
<1>7. BinsWanted(call.shards) \in Nat /\ Len(bins) <= BinsWanted(call.shards)
  <2>1. Len(full) \in Nat
    BY <1>1
  <2> QED BY <1>1, <2>1 DEF Adjusted, BinsWanted, CallOK
<1> QED
  BY <1>2, <1>5, <1>6, <1>7 DEF CallOK

\* Adjust
LEMMA AdjustKeeps ==
  ASSUME PackInv, CallOK, Adjust(call.shards), UNCHANGED call
  PROVE  PackInv'
<1> DEFINE wanted == BinsWanted(call.shards)
<1>1. phase = "adjust" /\ UNCHANGED <<packer, size, waiting, spare, at, full>>
  BY DEF Adjust
<1>2. /\ Sound(Items, size, waiting, bins, spare) /\ at \in Nat /\ full \in Seq(Nat) /\ spare = <<>>
      /\ Unmerged /\ Adjusted
  BY <1>1 DEF PackInv, Modified
<1>3. Items' = Items /\ BinsWanted(call.shards)' = wanted
  BY <1>1 DEF Items, Batch, BinsWanted
<1>4. bins \in Seq(Seq(Items)) /\ Len(bins) \in Nat /\ DOMAIN bins = 1 .. Len(bins)
  BY PackTypes
<1>5. wanted \in Nat /\ Len(full) \in Nat
  BY <1>2 DEF BinsWanted, CallOK
<1> HIDE DEF wanted
<1>6. CASE bins' = bins /\ (phase' = "refused" \/ (phase' = "packed" /\ Len(bins) = wanted))
  <2>1. Unmerged' /\ Sound(Items, size, waiting, bins, spare)'
    BY <1>1, <1>2, <1>3, <1>6 DEF Unmerged
  <2>2. phase' = "packed" => Adjusted'
    BY <1>1, <1>2, <1>3, <1>6 DEF Adjusted, wanted
  <2> QED BY <1>1, <1>2, <1>6, <2>1, <2>2 DEF PackInv, Modified
<1>7. ASSUME Len(bins) # wanted, Givers # {},
             bins' = Append([bins EXCEPT ![CHOOSE b \in Givers : \A c \in Givers : Before(b, c)] = Front(@)],
                            <<Last(bins[CHOOSE b \in Givers : \A c \in Givers : Before(b, c)])>>),
             UNCHANGED phase
      PROVE  PackInv'
  <2> DEFINE b == CHOOSE b \in Givers : \A c \in Givers : Before(b, c)
  <2>1. b \in Givers
    BY <1>2, <1>7, OneGives
  <2>2. bins' = Cut(bins, b)
    BY <1>7 DEF Cut
  <2> HIDE DEF b
  <2>3. b \in DOMAIN full /\ b \in DOMAIN bins /\ Len(bins[b]) > 1
    <3>1. b \in DOMAIN full /\ Len(bins[b]) > 1
      BY <2>1 DEF Givers
    <3>2. DOMAIN full = 1 .. Len(full)
      BY <1>2
    <3>3. Len(full) <= Len(bins)
      BY <1>2 DEF Adjusted
    <3> QED BY <1>4, <1>5, <3>1, <3>2, <3>3
  <2>4. Sound(Items, size, waiting, bins', spare) /\ HasCut(bins', bins, b)
    BY <1>2, <2>2, <2>3, SoundCut, Zenon
  <2>5. /\ Len(bins') = Len(bins) + 1 /\ \A c \in DOMAIN bins : c # b => bins'[c] = bins[c]
        /\ Len(bins'[Len(bins) + 1]) = 1
    BY <2>4 DEF HasCut
  <2>6. DOMAIN bins' = 1 .. Len(bins) + 1
    <3>1. bins' \in Seq(Seq(Items))
      BY <2>4 DEF Sound
    <3> QED BY <2>5, <3>1
  <2>7. full # <<>> /\ Len(full) < Len(bins')
    BY <1>2, <1>4, <1>5, <2>3, <2>5 DEF Adjusted
  <2>8. Adjusted'
    <3>1. Len(bins) <= wanted /\ waiting = {} /\ Len(full) <= Len(bins)
          /\ \A c \in DOMAIN bins : c > Len(full) => Len(bins[c]) = 1
      BY <1>2 DEF Adjusted, wanted
    <3>2. Len(bins') <= wanted
      <4> DEFINE n == Len(bins)
      <4>1. n \in Nat /\ n # wanted /\ n <= wanted /\ Len(bins') = n + 1
        BY <1>4, <1>7, <2>5, <3>1
      <4> HIDE DEF n
      <4> QED BY <1>5, <4>1
    <3>3. ASSUME NEW c \in DOMAIN bins', c > Len(full) PROVE Len(bins'[c]) = 1
      <4>1. c = Len(bins) + 1 \/ c \in DOMAIN bins
        BY <1>4, <2>6
      <4>2. c # b
        BY <1>2, <1>5, <2>3, <3>3
      <4> QED BY <2>5, <3>1, <3>3, <4>1, <4>2
    <3>4. Len(full) <= Len(bins')
      BY <1>4, <1>5, <2>5, <3>1
    <3> QED BY <1>1, <1>3, <1>7, <3>1, <3>2, <3>3, <3>4 DEF Adjusted, wanted
  <2>9. Unmerged'
    BY <1>1, <1>5, <2>7 DEF Unmerged
  <2>10. Sound(Items, size, waiting, bins, spare)'
    BY <1>1, <1>3, <2>4
  <2> QED BY <1>1, <1>2, <1>7, <2>8, <2>9, <2>10 DEF PackInv, Modified
<1>8. CASE Len(bins) = wanted
  <2>1. phase' = "packed" /\ bins' = bins
    BY <1>8 DEF Adjust, wanted
  <2> QED BY <1>6, <1>8, <2>1
<1>9. CASE Len(bins) # wanted /\ Cardinality(DOMAIN size) < wanted
  <2>1. phase' = "refused" /\ bins' = bins
    BY <1>9 DEF Adjust, wanted
  <2> QED BY <1>6, <2>1
<1>10. CASE Len(bins) # wanted /\ ~(Cardinality(DOMAIN size) < wanted)
  <2>1. Givers # {}
    <3>1. Cardinality(DOMAIN size) \in Nat
      <4>1. DOMAIN size = 1 .. Batch
        BY PackTypes DEF Items
      <4> QED BY <4>1, CountTo DEF CallOK
    <3>2. Cardinality(DOMAIN size) >= wanted
      BY <1>5, <1>10, <3>1
    <3> QED BY <1>1, <1>10, <3>2, SomeGive DEF wanted
  <2>2. /\ bins' = Append([bins EXCEPT ![CHOOSE b \in Givers : \A c \in Givers : Before(b, c)] = Front(@)],
                            <<Last(bins[CHOOSE b \in Givers : \A c \in Givers : Before(b, c)])>>)
        /\ UNCHANGED phase
    BY <1>10, <2>1 DEF Adjust, wanted
  <2> QED BY <1>7, <1>10, <2>1, <2>2
<1> QED
  BY <1>8, <1>9, <1>10

-----------------------------------------------------------------------------
(* The invariant of a call *)

LEMMA PackedLength ==
  ASSUME NEW i \in Nat
  PROVE  Padded(i) \in Nat
<1>1. (i + Multiple - 1) \div Multiple \in Nat
  BY PackingAssumption
<1> QED
  BY <1>1, PackingAssumption DEF Padded

\* The rows of a chunk.
LEMMA ChunkRows ==
  ASSUME CallOK, Rows % Batch = 0, NEW c \in 1 .. Chunks, NEW k \in Items
  PROVE  /\ (c - 1) * Batch \in Nat /\ (c - 1) * Batch + k \in 1 .. Rows
         /\ ChunkOf((c - 1) * Batch + k) = c
<1>0. Batch \in Nat \ {0} /\ Rows \in Nat \ {0} /\ k \in 1 .. Batch
  BY DispatchAssumption DEF CallOK, Items
<1>1. Rows = Batch * Chunks /\ Chunks \in Nat
  BY <1>0 DEF Chunks
<1>2. c \in Nat \ {0} /\ c <= Chunks
  BY <1>1
<1>3. (c - 1) * Batch \in Nat /\ c * Batch = (c - 1) * Batch + Batch /\ c * Batch <= Chunks * Batch
  BY <1>0, <1>1, <1>2
<1>4. (c - 1) * Batch + k \in 1 .. Rows
  BY <1>0, <1>1, <1>3
<1>5. (((c - 1) * Batch + k) - 1) \div Batch = c - 1
  <2> DEFINE d == c - 1
             j == k - 1
             n == Batch
  <2>1. d \in Nat /\ n \in Nat \ {0} /\ j \in 0 .. (n - 1) /\ ((c - 1) * Batch + k) - 1 = d * n + j
    BY <1>0, <1>2, <1>3
  <2> HIDE DEF d, j, n
  <2>2. (d * n + j) \div n = d
    BY <2>1
  <2> QED BY <2>1, <2>2 DEF d, n
<1>6. ChunkOf((c - 1) * Batch + k) = c
  BY <1>2, <1>5 DEF ChunkOf
<1> QED
  BY <1>3, <1>4, <1>6

\* The lengths of a chunk.
LEMMA ChunkSizesType ==
  ASSUME CallOK, length \in [1 .. Rows -> Lengths], Rows % Batch = 0, NEW c \in 1 .. Chunks
  PROVE  ChunkSizes(c) \in [Items -> Nat]
<1>1. ASSUME NEW k \in Items PROVE Padded(length[(c - 1) * Batch + k]) \in Nat
  <2>1. length[(c - 1) * Batch + k] \in Nat
    BY ChunkRows, DispatchAssumption
  <2> QED BY <2>1, PackedLength
<1> QED
  BY <1>1 DEF ChunkSizes, Items

\* A chunk begins to be packed.
LEMMA PackingBegins ==
  ASSUME CallOK, length \in [1 .. Rows -> Lengths], NEW c \in 1 .. Chunks, Rows % Batch = 0,
         StartPacking(ChunkSizes(c)), UNCHANGED call
  PROVE  PackInv'
<1>0. Batch \in Nat \ {0} /\ Rows \in Nat \ {0} /\ Lengths \subseteq Nat
  BY DispatchAssumption DEF CallOK
<1> DEFINE sizes == ChunkSizes(c)
<1>1. sizes \in [Items -> Nat]
  BY ChunkSizesType
<1>2. /\ size' = sizes /\ waiting' = DOMAIN sizes /\ bins' = <<>> /\ spare' = <<>>
      /\ at' = 0 /\ full' = <<>>
      /\ phase' = IF packer \notin FirstFit /\ \E i \in DOMAIN sizes : sizes[i] > Capacity
                  THEN "refused"
                  ELSE IF packer = "modified_first_fit_decreasing" THEN "large" ELSE "fit"
      /\ packer' = packer
  BY DEF StartPacking
<1> HIDE DEF sizes
<1>3. Items' = Items /\ DOMAIN sizes = Items
  BY <1>1 DEF Items, Batch
<1> DEFINE none == <<>>
<1>4. /\ none \in Seq(Seq(Items)) /\ none \in Seq(Nat) /\ DOMAIN none = {}
      /\ Apart(none) /\ NoneEmpty(none) /\ Held(none) = {}
  BY DEF Apart, NoneEmpty, Held
<1>5. Sound(Items, sizes, Items, none, none)
  <2> HIDE DEF none
  <2> QED BY <1>1, <1>4 DEF Sound
<1>6. Sound(Items, size, waiting, bins, spare)'
  BY <1>2, <1>3, <1>5
<1>7. Unmerged'
  BY <1>2 DEF Unmerged
<1>8. phase' = "large" => Halved'
  <2> SUFFICES ASSUME phase' = "large" PROVE Halved'
    OBVIOUS
  <2>1. ~(packer \notin FirstFit /\ \E i \in DOMAIN sizes : sizes[i] > Capacity)
    BY <1>2
  <2>2. packer = "modified_first_fit_decreasing"
    BY <1>2
  <2>3. \A i \in Items : sizes[i] <= Capacity
    BY <1>1, <1>3, <2>1, <2>2, PackingAssumption DEF FirstFit
  <2> QED BY <1>2, <1>3, <2>3 DEF Halved
<1>9. at' \in Nat /\ full' \in Seq(Nat) /\ full' = <<>> /\ spare' = <<>>
  BY <1>2
<1>10. phase' \in {"refused", "large", "fit"}
  BY <1>2
<1> QED
  BY <1>6, <1>7, <1>8, <1>9, <1>10 DEF PackInv, Modified

\* A call that is packed has passed the assertions, and chunks are left; no
\* packer ever fails for want of a bin to take from.
CallInv ==
  /\ CallOK /\ length \in [1 .. Rows -> Lengths]
  /\ pc = "called" => packed = <<>>
  /\ packed \in Seq(Seq(Seq(Items)))
  /\ pc = "packing" => Rows % Batch = 0 /\ Len(packed) < Chunks /\ PackInv
  /\ phase # "bug"

LEMMA CallBegins ==
  ASSUME Init
  PROVE  CallInv
<1>1. /\ call \in [op : {"train", "get_logprobs"}, batching : {"packing", "dynamic", "plain"},
                   batch : BatchSizes, shards : ShardCounts]
           \cup [op : {"generate"}, batching : {"plain"}, batch : BatchSizes, shards : ShardCounts]
      /\ length \in [1 .. Rows -> Lengths] /\ pc = "called" /\ packed = <<>> /\ phase = "idle"
  BY DEF Init, PackingInit
<1>2. call.batch \in Nat \ {0} /\ call.shards \in Nat \ {0} /\ Rows \in Nat \ {0}
  BY <1>1, DispatchAssumption
<1>3. CallOK
  BY <1>2 DEF CallOK, Batch
<1>4. packed \in Seq(Seq(Seq(Items)))
  BY <1>1
<1> QED
  BY <1>1, <1>3, <1>4 DEF CallInv

\* Packing keeps what holds of the bins.
LEMMA PackKeeps ==
  ASSUME PackInv, CallOK, PackingStep(call.shards), UNCHANGED call
  PROVE  PackInv'
<1>1. CASE Fit
  BY <1>1, FitKeeps
<1>2. CASE FitEnds
  BY <1>2, FitEndsKeeps
<1>3. CASE OpenLarge
  BY <1>3, OpenLargeKeeps
<1>4. CASE AddMedium
  BY <1>4, AddMediumKeeps
<1>5. CASE AddSmallPair
  BY <1>5, AddSmallPairKeeps
<1>6. CASE FillGreedily
  BY <1>6, FillGreedilyKeeps
<1>7. CASE Spread
  BY <1>7, SpreadKeeps
<1>8. CASE SpreadEnds
  BY <1>8, SpreadEndsKeeps
<1>9. CASE Adjust(call.shards)
  BY <1>9, AdjustKeeps
<1> QED
  BY <1>1, <1>2, <1>3, <1>4, <1>5, <1>6, <1>7, <1>8, <1>9 DEF PackingStep

\* There is a first chunk.
LEMMA FirstChunk ==
  ASSUME CallOK, Rows % Batch = 0
  PROVE  Chunks \in Nat /\ Chunks > 0
<1>1. Rows \in Nat \ {0} /\ Batch \in Nat \ {0}
  BY DispatchAssumption DEF CallOK
<1>2. Rows = Batch * (Rows \div Batch) + (Rows % Batch) /\ Rows \div Batch \in Nat
  BY <1>1
<1> QED
  BY <1>1, <1>2 DEF Chunks

LEMMA CallKeeps ==
  ASSUME CallInv, [Next]_vars
  PROVE  CallInv'
<1>0. /\ CallOK /\ length \in [1 .. Rows -> Lengths] /\ packed \in Seq(Seq(Seq(Items)))
      /\ phase # "bug"
  BY DEF CallInv
<1>1. ASSUME UNCHANGED <<call, length>>
      PROVE  CallOK' /\ Items' = Items /\ Batch' = Batch /\ Chunks' = Chunks
             /\ length' \in [1 .. Rows -> Lengths]
  BY <1>0, <1>1 DEF CallOK, Items, Batch, Chunks
<1>2. CASE Enter
  <2>1. pc = "called" /\ UNCHANGED <<call, length, packed>> /\ packed = <<>>
    BY <1>2 DEF Enter, callVars, CallInv
  <2>2. CASE pc' = "packing"
    <3>0. StartPacking(ChunkSizes(1)) /\ (~WellShaped => pc' = "refused")
      BY <1>2, <2>2 DEF Enter
    <3>1. StartPacking(ChunkSizes(1)) /\ WellShaped
      BY <2>2, <3>0
    <3>2. Rows % Batch = 0 /\ 1 \in 1 .. Chunks
      BY <1>0, <3>1, FirstChunk DEF WellShaped
    <3>3. PackInv'
      BY <1>0, <2>1, <3>1, <3>2, PackingBegins
    <3>4. phase' # "bug"
      BY <3>1 DEF StartPacking
    <3>5. Len(packed) = 0
      BY <2>1
    <3> QED BY <1>0, <1>1, <2>1, <2>2, <3>2, <3>3, <3>4, <3>5, FirstChunk DEF CallInv
  <2>3. CASE pc' # "packing"
    <3>1. UNCHANGED packVars /\ pc' \in {"refused", "sharding"}
      BY <1>2, <2>3 DEF Enter
    <3> QED BY <1>0, <1>1, <2>1, <2>3, <3>1 DEF CallInv, packVars
  <2> QED BY <2>2, <2>3
<1>3. CASE Pack
  <2>1. pc = "packing" /\ PackingStep(call.shards) /\ UNCHANGED <<call, length, pc, packed>>
    BY <1>3 DEF Pack, callVars
  <2>2. PackInv /\ Rows % Batch = 0 /\ Len(packed) < Chunks
    BY <2>1 DEF CallInv
  <2>3. PackInv'
    BY <1>0, <2>1, <2>2, PackKeeps
  <2>4. phase' # "bug"
    BY <2>3 DEF PackInv, Modified
  <2> QED BY <1>0, <1>1, <2>1, <2>2, <2>3, <2>4 DEF CallInv
<1>4. CASE ChunkPacked
  <2>1. /\ pc = "packing" /\ phase = "packed" /\ UNCHANGED <<call, length>>
        /\ packed' = Append(packed, bins)
    BY <1>4 DEF ChunkPacked, callVars
  <2>2. PackInv /\ Rows % Batch = 0 /\ Len(packed) < Chunks
    BY <2>1 DEF CallInv
  <2>3. packed' \in Seq(Seq(Seq(Items))) /\ Len(packed') = Len(packed) + 1 /\ Len(packed) \in Nat
    BY <1>0, <2>1, <2>2, PackTypes
  <2>4. CASE Len(packed') < Chunks
    <3>1. StartPacking(ChunkSizes(Len(packed') + 1)) /\ pc' = pc
      BY <1>4, <2>4 DEF ChunkPacked
    <3>2. Len(packed') + 1 \in 1 .. Chunks
      BY <1>0, <2>2, <2>3, <2>4, FirstChunk
    <3>3. PackInv'
      <4> DEFINE c == Len(packed') + 1
      <4>1. c \in 1 .. Chunks /\ StartPacking(ChunkSizes(c))
        BY <3>1, <3>2
      <4> HIDE DEF c
      <4> QED BY <1>0, <2>1, <2>2, <4>1, PackingBegins
    <3>4. phase' # "bug"
      BY <3>1 DEF StartPacking
    <3> QED BY <1>0, <1>1, <2>1, <2>2, <2>3, <2>4, <3>1, <3>3, <3>4 DEF CallInv
  <2>5. CASE ~(Len(packed') < Chunks)
    <3>1. pc' = "sharding" /\ UNCHANGED packVars
      BY <1>4, <2>5 DEF ChunkPacked
    <3> QED BY <1>0, <1>1, <2>1, <2>3, <3>1 DEF CallInv, packVars
  <2> QED BY <2>4, <2>5
<1>5. ASSUME UNCHANGED <<call, length, packed, packVars>>, pc' \notin {"called", "packing"}
      PROVE  CallInv'
  BY <1>0, <1>1, <1>5 DEF CallInv, packVars
<1>6. CASE PackingFails
  BY <1>5, <1>6 DEF PackingFails, callVars
<1>7. CASE ShardBins
  BY <1>5, <1>7 DEF ShardBins, callVars
<1>8. CASE ShardRanges
  BY <1>5, <1>8 DEF ShardRanges, callVars
<1>9. CASE Dispatch
  BY <1>5, <1>9 DEF Dispatch, callVars
<1>10. CASE Forward
  <2>1. UNCHANGED <<call, length, packed, packVars>> /\ pc = "running" /\ pc' = pc
    BY <1>10 DEF Forward, callVars
  <2> QED BY <1>5, <2>1
<1>11. ASSUME NEW s \in Shards, Generate(s) PROVE CallInv'
  <2>1. UNCHANGED <<call, length, packed, packVars>> /\ pc = "running" /\ pc' = pc
    BY <1>11 DEF Generate, callVars
  <2> QED BY <1>5, <2>1
<1>12. CASE NextGlobalBatch
  <2>1. UNCHANGED <<call, length, packed, packVars>> /\ pc = "running" /\ pc' \in {"running", "collect"}
    BY <1>12 DEF NextGlobalBatch, callVars
  <2> QED BY <1>5, <2>1
<1>13. CASE AllGenerated
  BY <1>5, <1>13 DEF AllGenerated, callVars
<1>14. CASE Collect
  BY <1>5, <1>14 DEF Collect, callVars
<1>15. CASE UNCHANGED vars
  <2>1. /\ UNCHANGED <<call, length, pc, packed>>
        /\ UNCHANGED <<packer, size, waiting, bins, spare, phase, at, full>>
    BY <1>15 DEF vars, callVars, packVars
  <2>2. PackInv => PackInv'
    <3>1. Items' = Items /\ BinsWanted(call.shards)' = BinsWanted(call.shards)
      BY <2>1 DEF Items, Batch, BinsWanted
    <3>2. /\ Unmerged => Unmerged'
          /\ Halved => Halved'
          /\ Adjusted => Adjusted'
          /\ NoRoom({b \in DOMAIN bins : b < at}) => NoRoom({b \in DOMAIN bins : b < at})'
          /\ Leftover => Leftover'
      BY <2>1, <3>1 DEF Unmerged, Halved, Adjusted, NoRoom, Leftover
    <3> QED BY <2>1, <3>1, <3>2 DEF PackInv
  <2> QED BY <1>0, <1>1, <2>1, <2>2 DEF CallInv
<1>16. CASE Rest
  BY <1>15, <1>16 DEF Rest
<1> QED
  BY <1>2, <1>3, <1>4, <1>6, <1>7, <1>8, <1>9, <1>10, <1>11, <1>12, <1>13, <1>14, <1>15, <1>16 DEF Next

\* The invariant of a call and of the packing of its chunks.
THEOREM CallInvariant == Spec => []CallInv
<1>1. Init => CallInv
  BY CallBegins
<1>2. CallInv /\ [Next]_vars => CallInv'
  BY CallKeeps
<1> QED
  BY <1>1, <1>2, PTL DEF Spec

\* No two bins could be one, whatever the packer, the lengths, the capacity and
\* the number of sequences (the loops of algorithms.py): in the modified packer
\* because each of the first bins holds a large sequence, what is left fits in
\* none of them, and a bin is added only when the least full one has no room.
THEOREM PackersFillTheBins == Spec => []NoTwoBinsMerge
<1>1. CallInv => NoTwoBinsMerge
  BY DEF CallInv, PackInv, Unmerged, NoTwoBinsMerge, Load
<1> QED
  BY <1>1, CallInvariant, PTL

\* The error of _adjust_bin_count that asks to be reported as a bug is not
\* raised: as long as bins are missing some bin has two sequences, for there
\* are as many sequences as bins wanted.
THEOREM ThereIsABinToTakeFrom == Spec => []NeverABug
<1>1. CallInv => NeverABug
  BY DEF CallInv, NeverABug
<1> QED
  BY <1>1, CallInvariant, PTL

\* A sequence that is in no bin twice is at one place, or at none.
LEMMA OnePlace ==
  ASSUME NEW all, Apart(all), NEW i
  PROVE  Times(i, all) = IF i \in Held(all) THEN 1 ELSE 0
<1> DEFINE places == UNION {{b} \X {k \in DOMAIN all[b] : all[b][k] = i} : b \in DOMAIN all}
<1>1. ASSUME NEW b \in DOMAIN all, NEW k \in DOMAIN all[b], all[b][k] = i
      PROVE  places = {<<b, k>>}
  <2>1. <<b, k>> \in places
    BY <1>1
  <2>2. ASSUME NEW p \in places PROVE p = <<b, k>>
    <3>1. PICK c \in DOMAIN all : p \in {c} \X {l \in DOMAIN all[c] : all[c][l] = i}
      OBVIOUS
    <3>2. PICK l \in DOMAIN all[c] : all[c][l] = i /\ p = <<c, l>>
      BY <3>1
    <3>3. c = b /\ l = k
      BY <1>1, <3>2 DEF Apart
    <3> QED BY <3>2, <3>3
  <2> HIDE DEF places
  <2> QED BY <2>1, <2>2
<1>2. CASE i \in Held(all)
  <2>1. PICK b \in DOMAIN all : \E k \in DOMAIN all[b] : all[b][k] = i
    BY <1>2, HeldIs, Zenon
  <2>2. PICK k \in DOMAIN all[b] : all[b][k] = i
    BY <2>1
  <2>3. places = {<<b, k>>}
    BY <1>1, <2>2
  <2>4. Cardinality({<<b, k>>}) = 1
    BY FS_Singleton
  <2>5. Times(i, all) = Cardinality(places)
    BY DEF Times
  <2> HIDE DEF places
  <2> QED BY <1>2, <2>3, <2>4, <2>5
<1>3. CASE i \notin Held(all)
  <2>1. places = {}
    <3>1. \A b \in DOMAIN all : \A k \in DOMAIN all[b] : all[b][k] # i
      BY <1>3, HeldIs, Zenon
    <3> QED BY <3>1
  <2>2. Times(i, all) = Cardinality(places)
    BY DEF Times
  <2>3. Cardinality({}) = 0
    BY FS_EmptySet
  <2> HIDE DEF places
  <2> QED BY <1>3, <2>1, <2>2, <2>3
<1> QED
  BY <1>2, <1>3

\* While a chunk is packed every sequence of it waits or has one place in one
\* bin: none is lost, doubled or put in two lists by any turn of any loop of
\* the packers (algorithms.py).
THEOREM NoSequenceIsLost == Spec => []EachInOneBin
<1>1. ASSUME CallInv PROVE EachInOneBin
  <2> SUFFICES ASSUME pc = "packing", NEW i \in DOMAIN size
               PROVE  Times(i, bins) + Times(i, spare) = IF i \in waiting THEN 0 ELSE 1
    BY DEF EachInOneBin
  <2>1. PackInv
    BY <1>1 DEF CallInv
  <2>2. /\ Apart(bins) /\ Apart(spare) /\ Held(bins) \cap Held(spare) = {}
        /\ Held(bins) \cup Held(spare) = Items \ waiting /\ i \in Items
    BY <2>1, PackTypes DEF PackInv, Sound
  <2>3. /\ Times(i, bins) = IF i \in Held(bins) THEN 1 ELSE 0
        /\ Times(i, spare) = IF i \in Held(spare) THEN 1 ELSE 0
    BY <2>2, OnePlace
  <2> QED BY <2>2, <2>3
<1> QED
  BY <1>1, CallInvariant, PTL

-----------------------------------------------------------------------------
(* The rounds of the ranks *)

\* Of a multiple of so many bins every shard is dealt as many.
LEMMA DealtEvenly ==
  ASSUME NEW m \in Nat \ {0}, NEW n \in Nat, n % m = 0, NEW s \in 1 .. m
  PROVE  Cardinality({b \in 1 .. n : (b - 1) % m = s - 1}) = n \div m
<1> DEFINE q == n \div m
           mine == {b \in 1 .. n : (b - 1) % m = s - 1}
           f == [k \in 1 .. q |-> (k - 1) * m + s]
<1>1. q \in Nat /\ n = q * m
  OBVIOUS
<1>2. ASSUME NEW k \in 1 .. q PROVE f[k] \in mine
  <2> DEFINE b == (k - 1) * m + s
  <2>1. k - 1 \in Nat /\ (k - 1) * m \in Nat /\ k * m = (k - 1) * m + m
    OBVIOUS
  <2>2. k * m <= q * m
    BY <1>1
  <2>3. b \in 1 .. n
    BY <1>1, <2>1, <2>2
  <2>4. (b - 1) % m = s - 1
    <3>1. b - 1 = (k - 1) * m + (s - 1) /\ s - 1 \in 0 .. (m - 1)
      BY <2>1
    <3> QED BY <2>1, <3>1
  <2> QED BY <2>3, <2>4
<1>3. ASSUME NEW k \in 1 .. q, NEW l \in 1 .. q, f[k] = f[l] PROVE k = l
  BY <1>3
<1>4. ASSUME NEW b \in mine PROVE \E k \in 1 .. q : f[k] = b
  <2> DEFINE k == ((b - 1) \div m) + 1
  <2>1. b - 1 = ((b - 1) \div m) * m + (s - 1) /\ (b - 1) \div m \in Nat
    OBVIOUS
  <2>2. (k - 1) * m + s = b
    BY <2>1
  <2>3. k \in 1 .. q
    BY <1>1, <2>1
  <2> QED BY <2>2, <2>3
<1>5. f \in Bijection(1 .. q, mine)
  <2> HIDE DEF mine
  <2>1. f \in [1 .. q -> mine]
    BY <1>2
  <2>2. \A k, l \in 1 .. q : f[k] = f[l] => k = l
    BY <1>3
  <2>3. \A b \in mine : \E k \in 1 .. q : f[k] = b
    BY <1>4
  <2> HIDE DEF f
  <2> QED BY <2>1, <2>2, <2>3 DEF Bijection, Injection, Surjection, IsInjective
<1> HIDE DEF q, mine, f
<1>6. IsFiniteSet(1 .. q) /\ Cardinality(1 .. q) = q
  <2>1. IsFiniteSet(1 .. q) /\ Cardinality(1 .. q) = IF 1 > q THEN 0 ELSE q - 1 + 1
    BY <1>1, FS_Interval
  <2> QED BY <1>1, <2>1
<1>7. Cardinality(mine) = q
  <2>1. ExistsBijection(1 .. q, mine)
    BY <1>5 DEF ExistsBijection
  <2> QED BY <1>6, <2>1, FS_Bijection
<1> QED
  BY <1>7 DEF q, mine

\* Chunks are packed into a multiple of the shards' number, all of them before
\* the bins are dealt; and then the shards go through equally many rounds.
Filled(sizes, m, all) ==
  /\ Sound(DOMAIN sizes, sizes, {}, all, <<>>)
  /\ Len(all) # 0 /\ Len(all) % m = 0

RoundInv ==
  /\ \A c \in DOMAIN packed : Filled(ChunkSizes(c), call.shards, packed[c])
  /\ pc = "packing" => size = ChunkSizes(Len(packed) + 1)
  /\ pc \notin {"called", "refused"} => WellShaped
  /\ pc = "called" => packed = <<>>
  /\ pc = "sharding" /\ call.batching = "packing" => Len(packed) = Chunks
  /\ SameRounds

LEMMA SameChunks ==
  ASSUME UNCHANGED callVars
  PROVE  /\ call' = call /\ length' = length /\ Batch' = Batch /\ Chunks' = Chunks
         /\ \A c : ChunkSizes(c)' = ChunkSizes(c)
<1>1. call' = call /\ length' = length
  BY DEF callVars
<1>2. Batch' = Batch
  BY <1>1 DEF Batch
<1>3. Chunks' = Chunks
  BY <1>2 DEF Chunks
<1>4. ASSUME NEW c PROVE ChunkSizes(c)' = ChunkSizes(c)
  BY <1>1, <1>2 DEF ChunkSizes
<1> QED
  BY <1>1, <1>2, <1>3, <1>4

LEMMA FilledBins ==
  ASSUME NEW D, NEW sizes \in [D -> Nat], NEW m, NEW all, Filled(sizes, m, all)
  PROVE  /\ all \in Seq(Seq(D)) /\ Len(all) \in Nat \ {0} /\ DOMAIN all = 1 .. Len(all)
         /\ Len(all) % m = 0
         /\ Apart(all) /\ Held(all) = D /\ NoneEmpty(all)
         /\ \A b \in DOMAIN all : Tokens(sizes, all[b]) <= Capacity
<1>1. /\ all \in Seq(Seq(D)) /\ Apart(all) /\ NoneEmpty(all)
      /\ \A b \in DOMAIN all : Tokens(sizes, all[b]) <= Capacity
      /\ Held(all) \cup Held(<<>>) = D \ {}
  BY DEF Filled, Sound
<1>2. Held(<<>>) = {}
  BY DEF Held
<1>3. Len(all) \in Nat \ {0} /\ DOMAIN all = 1 .. Len(all) /\ Len(all) % m = 0
  BY <1>1 DEF Filled
<1> QED
  BY <1>1, <1>2, <1>3

\* The packer does not change the lengths it was given.
LEMMA SizesKept ==
  ASSUME PackingStep(call.shards)
  PROVE  size' = size
BY DEF PackingStep, Fit, FitEnds, OpenLarge, AddMedium, AddSmallPair, FillGreedily, Spread,
       SpreadEnds, Adjust

LEMMA MultipleDivides ==
  ASSUME NEW e \in Nat, NEW m \in Nat \ {0}
  PROVE  e * m \in Nat /\ (e * m) % m = 0
OBVIOUS

LEMMA QuotientIsNatural ==
  ASSUME NEW n \in Nat, NEW m \in Nat \ {0}
  PROVE  n \div m \in Nat
OBVIOUS

\* The rounds do not depend on anything but the microbatches.
LEMMA RoundsUnchanged ==
  ASSUME SameRounds, UNCHANGED <<call, micro>>
  PROVE  SameRounds'
<1>1. Chunks' = Chunks /\ micro' = micro
  BY DEF Chunks, Batch
<1>2. ASSUME NEW s \in DOMAIN micro', NEW t \in DOMAIN micro', NEW c \in (1 .. Chunks)'
      PROVE  Len(micro'[s][c]) = Len(micro'[t][c])
  <2>1. s \in DOMAIN micro /\ t \in DOMAIN micro /\ c \in 1 .. Chunks
    BY <1>1
  <2>2. Len(micro[s][c]) = Len(micro[t][c])
    BY <2>1 DEF SameRounds
  <2> QED BY <1>1, <2>2
<1> QED
  BY <1>2 DEF SameRounds

\* The number of bins wanted is one.
LEMMA WantedIsMultiple ==
  ASSUME CallOK, Len(full) \in Nat
  PROVE  BinsWanted(call.shards) \in Nat /\ BinsWanted(call.shards) % call.shards = 0
<1> DEFINE n == Len(full)
           m == call.shards
           least == IF n < m THEN m ELSE n
           over == least % m
<1>1. m \in Nat \ {0} /\ least \in Nat /\ BinsWanted(m) = IF over = 0 THEN least ELSE least + m - over
  BY DEF CallOK, BinsWanted
<1> HIDE DEF n, m, least
<1>2. over \in 0 .. (m - 1) /\ least = (least \div m) * m + over /\ least \div m \in Nat
  BY <1>1
<1>3. CASE over # 0
  <2> DEFINE d == least \div m
  <2>1. BinsWanted(m) = (d + 1) * m /\ d + 1 \in Nat
    <3> HIDE DEF over
    <3>1. BinsWanted(m) = least + m - over
      BY <1>1, <1>3
    <3> HIDE DEF d
    <3>2. d \in Nat /\ least = d * m + over
      BY <1>2 DEF d
    <3>3. d * m \in Nat /\ (d + 1) * m = d * m + m
      BY <1>1, <3>2
    <3> QED BY <1>1, <1>2, <3>1, <3>2, <3>3
  <2> HIDE DEF d
  <2>2. ((d + 1) * m) % m = 0 /\ (d + 1) * m \in Nat
    BY <1>1, <2>1, MultipleDivides
  <2> QED BY <2>1, <2>2 DEF m
<1>4. CASE over = 0
  BY <1>1, <1>4 DEF m
<1> QED
  BY <1>3, <1>4

\* What a shard is dealt of a chunk has the length of its part of the bins.
LEMMA DealtLength ==
  ASSUME CallOK, NEW c \in DOMAIN packed, NEW s \in Shards,
         Len(packed[c]) \in Nat, Len(packed[c]) % call.shards = 0,
         DOMAIN packed[c] = 1 .. Len(packed[c])
  PROVE  DOMAIN Dealt(c, s) = 1 .. (Len(packed[c]) \div call.shards)
<1> DEFINE n == Len(packed[c])
           m == call.shards
<1>1. m \in Nat \ {0} /\ n \in Nat /\ n % m = 0 /\ s \in 1 .. m
  BY DEF CallOK, Shards
<1>2. DOMAIN Dealt(c, s) = 1 .. Cardinality({b \in 1 .. n : (b - 1) % m = s - 1})
  BY DEF Dealt
<1> HIDE DEF n, m
<1>3. Cardinality({b \in 1 .. n : (b - 1) % m = s - 1}) = n \div m
  BY <1>1, DealtEvenly
<1> QED
  BY <1>2, <1>3 DEF n, m

\* A list of pairs for each microbatch.
LEMMA ConsecutiveLength ==
  ASSUME NEW n \in Nat, NEW sizes, DOMAIN sizes = 1 .. n
  PROVE  Len(Consecutive(sizes)) = n
<1> DEFINE pair(k) == <<UpTo(sizes, k - 1), UpTo(sizes, k)>>
<1>1. Consecutive(sizes) = [k \in 1 .. n |-> pair(k)]
  BY DEF Consecutive
<1> HIDE DEF pair
<1> QED
  BY <1>1

LEMMA BinsGiveRounds ==
  ASSUME CallInv, RoundInv, ShardBins
  PROVE  SameRounds'
<1>1. /\ call' = call /\ packed \in Seq(Seq(Seq(Items))) /\ CallOK /\ Len(packed) = Chunks
      /\ DOMAIN packed = 1 .. Chunks
  BY DEF ShardBins, callVars, CallInv, RoundInv
<1> DEFINE rounds(c) == Len(packed[c]) \div call.shards
           sizes(s, c) == [k \in 1 .. rounds(c) |-> Len(Dealt(c, s)[k])]
<1>2. ASSUME NEW s \in Shards, NEW c \in 1 .. Chunks
      PROVE  DOMAIN Dealt(c, s) = 1 .. rounds(c) /\ rounds(c) \in Nat
  <2>1. /\ c \in DOMAIN packed /\ Len(packed[c]) \in Nat /\ Len(packed[c]) % call.shards = 0
        /\ DOMAIN packed[c] = 1 .. Len(packed[c])
    <3>1. c \in DOMAIN packed
      BY <1>1
    <3>2. Filled(ChunkSizes(c), call.shards, packed[c])
      BY <3>1 DEF RoundInv
    <3>3. ChunkSizes(c) \in [Items -> Nat]
      <4>1. WellShaped
        BY DEF ShardBins, RoundInv
      <4> QED BY <1>1, <4>1, ChunkSizesType DEF CallInv, WellShaped
    <3> QED BY <3>1, <3>2, <3>3, FilledBins
  <2>2. rounds(c) \in Nat
    BY <1>1, <2>1, QuotientIsNatural DEF CallOK
  <2> QED BY <1>1, <2>1, <2>2, DealtLength
<1>3. micro' = [s \in Shards |-> [c \in 1 .. Chunks |->
                  Consecutive([k \in DOMAIN Dealt(c, s) |-> Len(Dealt(c, s)[k])])]]
  BY DEF ShardBins
<1>4. ASSUME NEW s \in Shards, NEW c \in 1 .. Chunks
      PROVE  Len(micro'[s][c]) = rounds(c)
  <2>1. micro'[s][c] = Consecutive([k \in DOMAIN Dealt(c, s) |-> Len(Dealt(c, s)[k])])
    BY <1>3
  <2>2. DOMAIN [k \in DOMAIN Dealt(c, s) |-> Len(Dealt(c, s)[k])] = 1 .. rounds(c)
    BY <1>2
  <2> HIDE DEF rounds
  <2> QED BY <1>2, <2>1, <2>2, ConsecutiveLength
<1>5. DOMAIN micro' = Shards /\ (1 .. Chunks)' = 1 .. Chunks
  BY <1>1, <1>3 DEF Chunks, Batch
<1> HIDE DEF rounds
<1> QED
  BY <1>4, <1>5 DEF SameRounds

LEMMA RangesGiveRounds ==
  ASSUME CallInv, RoundInv, ShardRanges
  PROVE  SameRounds'
<1>1. call' = call /\ (1 .. Chunks)' = 1 .. Chunks /\ Rows \in Nat \ {0}
  BY DispatchAssumption DEF ShardRanges, callVars, Chunks, Batch
<1>2. CASE RowsFit
  <2>1. micro' = [s \in Shards |-> [c \in 1 .. Chunks |->
                    IF call.batching = "dynamic" THEN DynamicMicro(c) ELSE PlainMicro(s)]]
    BY <1>2 DEF ShardRanges
  <2>2. ASSUME NEW s \in Shards, NEW t \in Shards, NEW c \in 1 .. Chunks
        PROVE  Len(micro'[s][c]) = Len(micro'[t][c])
    <3>1. CASE call.batching = "dynamic"
      BY <2>1, <3>1
    <3>2. CASE call.batching # "dynamic"
      <4>1. micro'[s][c] = PlainMicro(s) /\ micro'[t][c] = PlainMicro(t)
        BY <2>1, <3>2
      <4>2. CASE Uneven
        <5>1. Len(PlainMicro(s)) = 1 /\ Len(PlainMicro(t)) = 1
          BY <4>2 DEF PlainMicro
        <5> QED BY <4>1, <5>1
      <4>3. CASE ~Uneven
        <5>1. PlainMicro(s) = PlainMicro(t)
          BY <4>3 DEF PlainMicro
        <5> QED BY <4>1, <5>1
      <4> QED BY <4>2, <4>3
    <3> QED BY <3>1, <3>2
  <2>3. DOMAIN micro' = Shards
    BY <2>1
  <2> QED BY <1>1, <2>2, <2>3 DEF SameRounds
<1>3. CASE ~RowsFit
  <2>1. micro' = micro
    BY <1>3 DEF ShardRanges, shardVars
  <2> QED BY <1>1, <2>1, RoundsUnchanged DEF RoundInv
<1> QED
  BY <1>2, <1>3

LEMMA RoundInvNext ==
  ASSUME UNCHANGED callVars,
         \A c \in DOMAIN packed' : Filled(ChunkSizes(c), call.shards, packed'[c]),
         pc' = "packing" => size' = ChunkSizes(Len(packed') + 1),
         pc' \notin {"called", "refused"} => WellShaped,
         pc' = "called" => packed' = <<>>,
         pc' = "sharding" /\ call.batching = "packing" => Len(packed') = Chunks,
         SameRounds'
  PROVE  RoundInv'
<1>1. /\ call' = call /\ Batch' = Batch /\ Chunks' = Chunks
      /\ \A c : ChunkSizes(c)' = ChunkSizes(c)
  BY SameChunks
<1>2. WellShaped' <=> WellShaped
  BY <1>1 DEF WellShaped, Uneven
<1>3. \A c \in DOMAIN packed' : Filled(ChunkSizes(c)', call'.shards, packed'[c])
  BY <1>1
<1>4. pc' = "packing" => size' = [k \in 1 .. Batch' |-> Padded(length'[((Len(packed') + 1) - 1) * Batch' + k])]
  BY <1>1 DEF ChunkSizes, callVars
<1> QED
  BY <1>1, <1>2, <1>3, <1>4 DEF RoundInv, ChunkSizes

LEMMA RoundsKept ==
  ASSUME CallInv, RoundInv, [Next]_vars
  PROVE  RoundInv'
<1>1. ASSUME UNCHANGED <<callVars, packed, micro>>, pc' = "called" => pc = "called",
             pc' = "sharding" => pc = "sharding" \/ call.batching # "packing",
             pc' = "packing" => size' = ChunkSizes(Len(packed) + 1),
             pc' \notin {"called", "refused"} => WellShaped
      PROVE  RoundInv'
  <2>1. SameRounds'
    BY <1>1, RoundsUnchanged DEF RoundInv, callVars
  <2> QED BY <1>1, <2>1, RoundInvNext DEF RoundInv
<1>2. CASE Enter
  <2>1. UNCHANGED <<callVars, packed, micro>> /\ pc' \in {"refused", "packing", "sharding"}
    BY <1>2 DEF Enter, shardVars
  <2>2. /\ pc = "called" /\ (pc' = "sharding" => call.batching # "packing")
        /\ pc' # "refused" => WellShaped
    BY <1>2 DEF Enter
  <2>3. pc' = "packing" => size' = ChunkSizes(Len(packed) + 1)
    <3> SUFFICES ASSUME pc' = "packing" PROVE size' = ChunkSizes(Len(packed) + 1)
      OBVIOUS
    <3>1. size' = ChunkSizes(1)
      BY <1>2 DEF Enter, StartPacking
    <3>2. Len(packed) + 1 = 1
      BY <2>2 DEF RoundInv
    <3> QED BY <3>1, <3>2
  <2> QED BY <1>1, <2>1, <2>2, <2>3
<1>3. CASE Pack
  <2>1. UNCHANGED <<callVars, pc, packed, micro>> /\ PackingStep(call.shards)
    BY <1>3 DEF Pack, shardVars
  <2>2. size' = size
    BY <2>1, SizesKept
  <2> QED BY <1>1, <2>1, <2>2 DEF RoundInv
<1>4. CASE ChunkPacked
  <2>1. /\ pc = "packing" /\ phase = "packed" /\ packed' = Append(packed, bins)
        /\ UNCHANGED callVars /\ call' = call /\ micro' = micro
        /\ pc' = IF Len(packed') < Chunks THEN pc ELSE "sharding"
        /\ Len(packed') < Chunks => size' = ChunkSizes(Len(packed') + 1)
    BY <1>4 DEF ChunkPacked, callVars, shardVars, StartPacking
  <2>2. PackInv /\ CallOK /\ packed \in Seq(Seq(Seq(Items))) /\ Len(packed) < Chunks /\ Rows % Batch = 0
    BY <2>1 DEF CallInv
  <2>3. Len(bins) = BinsWanted(call.shards) /\ Len(full) \in Nat /\ bins \in Seq(Seq(Items))
    BY <2>1, <2>2, PackTypes DEF PackInv, Adjusted
  <2>4. Len(bins) \in Nat /\ Len(bins) % call.shards = 0
    BY <2>2, <2>3, WantedIsMultiple
  <2>5. Chunks \in Nat /\ WellShaped
    BY <2>1, <2>2, FirstChunk DEF RoundInv
  <2>6. SameRounds'
    BY <2>1, RoundsUnchanged DEF RoundInv
  <2> DEFINE n == Len(packed)
  <2>7. /\ n \in Nat /\ DOMAIN packed = 1 .. n /\ DOMAIN packed' = 1 .. n + 1
        /\ packed'[n + 1] = bins /\ \A c \in 1 .. n : packed'[c] = packed[c]
    BY <2>1, <2>2, <2>3
  <2>8. Filled(ChunkSizes(n + 1), call.shards, bins)
    <3>1. Sound(Items, size, {}, bins, <<>>) /\ DOMAIN size = Items
      BY <2>1, <2>2, PackTypes DEF PackInv, Adjusted
    <3>2. size = ChunkSizes(n + 1)
      BY <2>1 DEF RoundInv
    <3>3. Len(bins) # 0
      <4>1. Batch \in Nat /\ 1 \in 1 .. Batch
        BY <2>2 DEF CallOK
      <4>2. Held(bins) = Items
        <5>1. Held(<<>>) = {}
          BY DEF Held
        <5> QED BY <3>1, <5>1 DEF Sound
      <4>3. bins # <<>>
        <5>1. Held(<<>>) = {}
          BY DEF Held
        <5>2. 1 \in Held(bins)
          BY <4>1, <4>2 DEF Items
        <5> QED BY <5>1, <5>2
      <4> QED BY <2>3, <4>3
    <3> QED BY <2>4, <3>1, <3>2, <3>3 DEF Filled
  <2>9. \A c \in DOMAIN packed' : Filled(ChunkSizes(c), call.shards, packed'[c])
    <3> HIDE DEF n
    <3>2. \A c \in 1 .. n : Filled(ChunkSizes(c), call.shards, packed[c])
      BY <2>7 DEF RoundInv
    <3>3. ASSUME NEW c \in 1 .. n + 1 PROVE Filled(ChunkSizes(c), call.shards, packed'[c])
      <4>1. CASE c = n + 1
        BY <2>7, <2>8, <4>1
      <4>2. CASE c # n + 1
        <5>1. c \in 1 .. n
          BY <2>7, <4>2
        <5> QED BY <2>7, <3>2, <5>1
      <4> QED BY <4>1, <4>2
    <3> QED BY <2>7, <3>3
  <2>10. Len(packed') = n + 1 /\ n \in Nat
    BY <2>1, <2>2, <2>3
  <2>11. pc' = "sharding" => Len(packed') = Chunks
    BY <2>1, <2>2, <2>5, <2>10
  <2>12. pc' = "packing" => size' = ChunkSizes(Len(packed') + 1)
    BY <2>1
  <2>13. pc' # "called"
    BY <2>1
  <2> QED BY <2>1, <2>5, <2>6, <2>9, <2>11, <2>12, <2>13, RoundInvNext
<1>5. CASE PackingFails
  BY <1>1, <1>5 DEF PackingFails, shardVars, RoundInv
<1>6. CASE ShardBins
  <2>1. SameRounds'
    BY <1>6, BinsGiveRounds
  <2>2. pc' = "dispatch" /\ UNCHANGED <<callVars, packed>>
    BY <1>6 DEF ShardBins
  <2>3. pc = "sharding"
    BY <1>6 DEF ShardBins
  <2> QED BY <2>1, <2>2, <2>3, RoundInvNext DEF RoundInv
<1>7. CASE ShardRanges
  <2>1. SameRounds'
    BY <1>7, RangesGiveRounds
  <2>2. pc' \in {"dispatch", "refused"} /\ UNCHANGED <<callVars, packed>>
    BY <1>7 DEF ShardRanges
  <2>3. pc = "sharding"
    BY <1>7 DEF ShardRanges
  <2> QED BY <2>1, <2>2, <2>3, RoundInvNext DEF RoundInv
<1>8. CASE Dispatch
  BY <1>1, <1>8 DEF Dispatch, shardVars, RoundInv
<1>9. CASE Forward
  BY <1>1, <1>9 DEF Forward, shardVars, RoundInv
<1>10. CASE \E s \in Shards : Generate(s)
  BY <1>1, <1>10 DEF Generate, shardVars, RoundInv
<1>11. CASE NextGlobalBatch
  BY <1>1, <1>11 DEF NextGlobalBatch, shardVars, RoundInv
<1>12. CASE AllGenerated
  BY <1>1, <1>12 DEF AllGenerated, shardVars, RoundInv
<1>13. CASE Collect
  BY <1>1, <1>13 DEF Collect, shardVars, RoundInv
<1>14. CASE Rest
  BY <1>1, <1>14 DEF Rest, vars, shardVars, packVars, RoundInv
<1>15. CASE UNCHANGED vars
  BY <1>1, <1>15 DEF vars, shardVars, packVars, RoundInv
<1> QED
  BY <1>2, <1>3, <1>4, <1>5, <1>6, <1>7, <1>8, <1>9, <1>10, <1>11, <1>12, <1>13, <1>14, <1>15 DEF Next

\* The data-parallel ranks have equally many microbatches of every global
\* batch (shard_by_batch_size): the collectives of a forward pass find every
\* rank, though no rank is told how many the others have.
THEOREM RanksMeet == Spec => []SameRounds
<1>1. Init => RoundInv
  BY DEF Init, RoundInv, SameRounds
<1>2. CallInv /\ RoundInv /\ [Next]_vars => RoundInv'
  BY RoundsKept
<1>3. RoundInv => SameRounds
  BY DEF RoundInv
<1> QED
  BY <1>1, <1>2, <1>3, CallInvariant, PTL DEF Spec

-----------------------------------------------------------------------------
(* Sequences laid end to end *)

\* f is the sequences of ss laid end to end; the b-th ends at off[b].
Flat(f, ss, off) ==
  /\ off \in [0 .. Len(ss) -> Nat] /\ off[0] = 0
  /\ \A b \in 1 .. Len(ss) : off[b] = off[b - 1] + Len(ss[b])
  /\ DOMAIN f = 1 .. off[Len(ss)]
  /\ \A b \in 1 .. Len(ss) : \A j \in 1 .. Len(ss[b]) :
       off[b - 1] + j \in DOMAIN f /\ f[off[b - 1] + j] = ss[b][j]

\* What the first i sequences come to.
Laid(F, ss, i) == IF i = 1 THEN ss[1] ELSE F[i - 1] \o ss[i]

LEMMA LaidInTurn ==
  ASSUME NEW ss
  PROVE  \A n \in Nat : \E F : F = [i \in 1 .. n |-> Laid(F, ss, i)]
<1> DEFINE Lays(F, n) == F = [i \in 1 .. n |-> Laid(F, ss, i)]
           S == {n \in Nat : \E F : Lays(F, n)}
<1>1. 0 \in S
  <2> DEFINE F == [i \in 1 .. 0 |-> Laid(<<>>, ss, i)]
  <2>1. F = [i \in 1 .. 0 |-> Laid(F, ss, i)]
    <3>1. 1 .. 0 = {}
      OBVIOUS
    <3> QED BY <3>1
  <2> QED BY <2>1
<1>2. ASSUME NEW n \in Nat, n \in S PROVE n + 1 \in S
  <2>1. PICK F : Lays(F, n)
    BY <1>2
  <2> DEFINE G == [i \in 1 .. n + 1 |-> IF i = n + 1 THEN Laid(F, ss, n + 1) ELSE F[i]]
  <2>2. ASSUME NEW i \in 1 .. n + 1 PROVE G[i] = Laid(G, ss, i)
    <3>1. i > 1 => i - 1 \in 1 .. n + 1 /\ i - 1 # n + 1 /\ G[i - 1] = F[i - 1]
      OBVIOUS
    <3>2. Laid(G, ss, i) = Laid(F, ss, i)
      BY <3>1 DEF Laid
    <3>3. CASE i = n + 1
      BY <3>2, <3>3
    <3>4. CASE i # n + 1
      <4>1. i \in 1 .. n /\ G[i] = F[i]
        BY <3>4
      <4>2. F[i] = Laid(F, ss, i)
        BY <2>1, <4>1
      <4> QED BY <3>2, <4>1, <4>2
    <3> QED BY <3>3, <3>4
  <2>3. Lays(G, n + 1)
    <3>1. G = [i \in 1 .. n + 1 |-> G[i]]
      OBVIOUS
    <3> HIDE DEF G
    <3> QED BY <2>2, <3>1
  <2> HIDE DEF Lays, G
  <2> QED BY <2>3
<1>3. \A n \in Nat : n \in S
  <2> HIDE DEF S
  <2> QED BY <1>1, <1>2, NaturalInduction
<1> QED
  BY <1>3

\* FlattenSeq of the community modules is defined so.
LEMMA FlattenIs ==
  ASSUME NEW ss, Len(ss) \in Nat, Len(ss) # 0
  PROVE  \E F : /\ F = [i \in 1 .. Len(ss) |-> Laid(F, ss, i)]
                /\ FlattenSeq(ss) = F[Len(ss)]
<1> DEFINE n == Len(ss)
           chosen == CHOOSE F : F = [i \in 1 .. n |-> Laid(F, ss, i)]
<1>1. \E F : F = [i \in 1 .. n |-> Laid(F, ss, i)]
  BY LaidInTurn
<1>2. chosen = [i \in 1 .. n |-> Laid(chosen, ss, i)]
  BY <1>1
<1>3. FlattenSeq(ss) = chosen[n]
  <2> DEFINE other == CHOOSE F : F = [i \in 1 .. n |-> IF i = 1 THEN ss[i] ELSE F[i - 1] \o ss[i]]
  <2>1. FlattenSeq(ss) = other[n]
    BY DEF FlattenSeq
  <2>2. \A F : [i \in 1 .. n |-> IF i = 1 THEN ss[i] ELSE F[i - 1] \o ss[i]]
                 = [i \in 1 .. n |-> Laid(F, ss, i)]
    BY DEF Laid
  <2>3. other = chosen
    BY <2>2
  <2> QED BY <2>1, <2>3
<1> QED
  BY <1>2, <1>3

LEMMA Flattens ==
  ASSUME NEW D, NEW ss \in Seq(Seq(D))
  PROVE  FlattenSeq(ss) \in Seq(D) /\ \E off : Flat(FlattenSeq(ss), ss, off)
<1> DEFINE n == Len(ss)
           f == FlattenSeq(ss)
<1>1. n \in Nat /\ \A b \in 1 .. n : ss[b] \in Seq(D) /\ Len(ss[b]) \in Nat
  OBVIOUS
<1>2. CASE n = 0
  <2>1. f = ss /\ ss = <<>>
    BY <1>2 DEF FlattenSeq
  <2> DEFINE off == [b \in 0 .. 0 |-> 0]
  <2>2. f \in Seq(D) /\ DOMAIN f = 1 .. 0 /\ 1 .. 0 = {}
    BY <2>1
  <2>3. Flat(f, ss, off)
    <3>1. off \in [0 .. 0 -> Nat] /\ off[0] = 0
      OBVIOUS
    <3> HIDE DEF off, f
    <3> QED BY <1>2, <2>2, <3>1 DEF Flat
  <2> HIDE DEF off, f
  <2> QED BY <2>2, <2>3 DEF f
<1>3. CASE n # 0
  <2>1. PICK F : F = [i \in 1 .. n |-> Laid(F, ss, i)] /\ f = F[n]
    BY <1>1, <1>3, FlattenIs
  <2> DEFINE off == [b \in 0 .. n |-> IF b = 0 THEN 0 ELSE Len(F[b])]
             Right(i) == \A b \in 1 .. i : \A j \in 1 .. Len(ss[b]) :
                           off[b - 1] + j \in 1 .. off[i] /\ F[i][off[b - 1] + j] = ss[b][j]
             Good(i) == /\ F[i] \in Seq(D)
                        /\ off[i - 1] \in Nat /\ off[i] = off[i - 1] + Len(ss[i])
                        /\ Right(i)
             S == {m \in Nat : m + 1 <= n => Good(m + 1)}
  <2>2. F[1] = ss[1] /\ \A i \in 2 .. n : F[i] = F[i - 1] \o ss[i]
    <3> HIDE DEF n
    <3>1. \A i \in 1 .. n : F[i] = Laid(F, ss, i)
      <4> SUFFICES ASSUME NEW i \in 1 .. n PROVE F[i] = Laid(F, ss, i)
        OBVIOUS
      <4> QED BY <2>1
    <3>2. 1 \in 1 .. n /\ \A i \in 2 .. n : i \in 1 .. n /\ i # 1
      BY <1>1, <1>3
    <3> QED BY <3>1, <3>2 DEF Laid
  <2>3. off[0] = 0 /\ \A b \in 1 .. n : off[b] = Len(F[b])
    BY <1>1
  <2> HIDE DEF n, f, off
  <2>4. 0 \in S
    <3>1. off[1] = Len(ss[1]) /\ ss[1] \in Seq(D) /\ Len(ss[1]) \in Nat
      BY <1>1, <1>3, <2>2, <2>3
    <3>2. Right(1)
      BY <1>1, <2>2, <2>3, <3>1
    <3> HIDE DEF Right
    <3>3. Good(1)
      BY <2>2, <2>3, <3>1, <3>2
    <3> QED BY <3>3
  <2>5. ASSUME NEW m \in Nat, m \in S PROVE m + 1 \in S
    <3> DEFINE i == m + 1
               h == (m + 1) + 1
    <3> SUFFICES ASSUME h <= n PROVE Good(h)
      OBVIOUS
    <3>1. /\ i \in 1 .. n /\ h \in 1 .. n /\ h \in 2 .. n /\ h - 1 = i
          /\ \A b \in 1 .. h : b = h \/ b \in 1 .. i
      BY <1>1, <2>5
    <3>0. Good(i)
      <4> HIDE DEF Good
      <4> QED BY <1>1, <2>5
    <3> HIDE DEF i, h
    <3>2. F[i] \in Seq(D) /\ Right(i)
      BY <3>0
    <3> HIDE DEF Right, Good
    <3>3. F[h] = F[i] \o ss[h] /\ ss[h] \in Seq(D) /\ Len(ss[h]) \in Nat
      BY <1>1, <2>2, <3>1
    <3>4. off[i] = Len(F[i]) /\ off[i] \in Nat /\ off[h] = Len(F[h])
      BY <2>3, <3>1, <3>2
    <3>5. off[h] = off[i] + Len(ss[h]) /\ F[h] \in Seq(D)
      BY <3>2, <3>3, <3>4
    <3>6. /\ \A k \in 1 .. off[i] : F[h][k] = F[i][k]
          /\ \A k \in 1 .. Len(ss[h]) : F[h][off[i] + k] = ss[h][k]
      <4>1. IsJoined(F[h], F[i], ss[h])
        BY <3>2, <3>3, Concatenates
      <4> QED BY <3>4, <4>1 DEF IsJoined
    <3>7. ASSUME NEW b \in 1 .. h, NEW j \in 1 .. Len(ss[b])
          PROVE  off[b - 1] + j \in 1 .. off[h] /\ F[h][off[b - 1] + j] = ss[b][j]
      <4> DEFINE l == Len(ss[h])
      <4>1. CASE b = h
        <5>1. l \in Nat /\ j \in 1 .. l /\ off[h] = off[i] + l
          BY <3>3, <3>5, <4>1
        <5>2. F[h][off[i] + j] = ss[h][j]
          BY <3>6, <4>1
        <5> HIDE DEF l
        <5>3. off[i] + j \in 1 .. off[h]
          BY <3>4, <5>1
        <5> QED BY <3>1, <4>1, <5>2, <5>3
      <4>2. CASE b # h
        <5> DEFINE k == off[b - 1] + j
        <5>1. b \in 1 .. i
          BY <3>1, <4>2
        <5>2. k \in 1 .. off[i] /\ F[i][k] = ss[b][j]
          BY <3>2, <5>1 DEF Right
        <5>4. l \in Nat /\ off[h] = off[i] + l
          BY <3>3, <3>5
        <5> HIDE DEF k, l
        <5>5. k \in 1 .. off[h]
          BY <3>4, <5>2, <5>4
        <5>6. F[h][k] = F[i][k]
          BY <3>6, <5>2
        <5> QED BY <5>2, <5>5, <5>6 DEF k
      <4> QED BY <4>1, <4>2
    <3>8. Right(h)
      BY <3>7 DEF Right
    <3>9. off[h - 1] = off[i]
      BY <3>1
    <3> QED BY <3>4, <3>5, <3>8, <3>9 DEF Good
  <2>6. \A m \in Nat : m \in S
    <3> HIDE DEF S
    <3> QED BY <2>4, <2>5, NaturalInduction
  <2>7. ASSUME NEW b \in 1 .. n PROVE Good(b)
    <3>1. b - 1 \in Nat /\ (b - 1) + 1 = b /\ b <= n
      BY <1>1
    <3>2. b - 1 \in S
      BY <2>6, <3>1
    <3> HIDE DEF Good
    <3> QED BY <3>1, <3>2
  <2>8. off \in [0 .. n -> Nat]
    <3>1. off = [b \in 0 .. n |-> off[b]]
      BY DEF off
    <3>2. ASSUME NEW b \in 1 .. n PROVE off[b] \in Nat
      <4>1. F[b] \in Seq(D)
        BY <2>7
      <4> HIDE DEF Good, off
      <4>2. off[b] = Len(F[b])
        BY <2>3
      <4> QED BY <4>1, <4>2
    <3>3. \A b \in 0 .. n : off[b] \in Nat
      <4> HIDE DEF Good
      <4>1. \A b \in 0 .. n : b = 0 \/ b \in 1 .. n
        BY <1>1
      <4> QED BY <2>3, <3>2, <4>1
    <3> HIDE DEF Good
    <3> QED BY <3>1, <3>3
  <2>9. Good(n) /\ f = F[n] /\ off[n] = Len(F[n])
    <3>1. n \in 1 .. n
      BY <1>1, <1>3
    <3> HIDE DEF Good
    <3> QED BY <2>1, <2>3, <2>7, <3>1
  <2>10. f \in Seq(D) /\ DOMAIN f = 1 .. off[n]
    BY <2>9
  <2>11. \A b \in 1 .. n : off[b] = off[b - 1] + Len(ss[b])
    BY <2>7
  <2>12. \A b \in 1 .. n : \A j \in 1 .. Len(ss[b]) :
           off[b - 1] + j \in DOMAIN f /\ f[off[b - 1] + j] = ss[b][j]
    BY <2>9, <2>10
  <2>13. Flat(f, ss, off)
    BY <2>3, <2>8, <2>10, <2>11, <2>12 DEF Flat, n
  <2> QED BY <2>10, <2>13 DEF f
<1> QED
  BY <1>2, <1>3

\* A later sequence ends later.
LEMMA FlatGrows ==
  ASSUME NEW D, NEW ss \in Seq(Seq(D)), NEW f, NEW off, Flat(f, ss, off),
         NEW b \in 0 .. Len(ss), NEW c \in 0 .. Len(ss), b <= c
  PROVE  off[b] <= off[c]
<1> DEFINE n == Len(ss)
           S == {k \in Nat : k <= n /\ b <= k => off[b] <= off[k]}
<1>1. n \in Nat /\ \A k \in 1 .. n : Len(ss[k]) \in Nat /\ off[k] = off[k - 1] + Len(ss[k])
  <2>1. n \in Nat /\ \A k \in 1 .. n : Len(ss[k]) \in Nat
    OBVIOUS
  <2>2. \A k \in 1 .. n : off[k] = off[k - 1] + Len(ss[k])
    BY DEF Flat
  <2> QED BY <2>1, <2>2
<1>2. \A k \in 0 .. n : off[k] \in Nat
  BY DEF Flat
<1> HIDE DEF n
<1>3. b \in 0 .. n /\ c \in 0 .. n /\ b <= c
  BY DEF n
<1>4. 0 \in S
  BY <1>1, <1>2, <1>3
<1>5. ASSUME NEW k \in Nat, k \in S PROVE k + 1 \in S
  <2> SUFFICES ASSUME k + 1 <= n, b <= k + 1 PROVE off[b] <= off[k + 1]
    OBVIOUS
  <2> DEFINE h == k + 1
             l == Len(ss[h])
  <2>1. h \in 1 .. n /\ h - 1 = k /\ k \in 0 .. n /\ h \in 0 .. n /\ (b = h \/ b <= k)
    BY <1>1, <1>3
  <2> HIDE DEF h
  <2>2. off[h] = off[k] + l /\ l \in Nat
    BY <1>1, <2>1
  <2> HIDE DEF l
  <2>3. off[h] \in Nat /\ off[k] \in Nat /\ off[b] \in Nat
    BY <1>2, <1>3, <2>1
  <2>4. CASE b = h
    BY <2>3, <2>4 DEF h
  <2>5. CASE b <= k
    <3>1. off[b] <= off[k]
      BY <1>1, <1>5, <2>1, <2>5
    <3>2. off[b] <= off[h]
      BY <2>2, <2>3, <3>1
    <3> QED BY <3>2 DEF h
  <2> QED BY <2>1, <2>4, <2>5
<1>6. c \in S
  <2>1. \A k \in Nat : k \in S
    <3> HIDE DEF S
    <3> QED BY <1>4, <1>5, NaturalInduction
  <2> QED BY <1>3, <2>1
<1> QED
  BY <1>3, <1>6 DEF n

\* Place k is the j-th of the b-th sequence.
PlaceOf(f, ss, off, k, b, j) ==
  /\ k = off[b - 1] + j /\ f[k] = ss[b][j]
  /\ off[b - 1] < k /\ k <= off[b]

\* Each place belongs to one of the sequences.
LEMMA Located ==
  ASSUME NEW D, NEW ss \in Seq(Seq(D)), NEW f, NEW off, Flat(f, ss, off), NEW k \in DOMAIN f
  PROVE  \E b \in DOMAIN ss : \E j \in DOMAIN ss[b] : PlaceOf(f, ss, off, k, b, j)
<1> DEFINE n == Len(ss)
           S == {b \in 0 .. n : k <= off[b]}
<1>1. /\ n \in Nat /\ DOMAIN ss = 1 .. n /\ off[0] = 0 /\ k \in 1 .. off[n]
      /\ \A b \in 0 .. n : off[b] \in Nat
  BY DEF Flat
<1>2. \A b \in 1 .. n : /\ Len(ss[b]) \in Nat /\ DOMAIN ss[b] = 1 .. Len(ss[b])
                        /\ off[b] = off[b - 1] + Len(ss[b])
  BY DEF Flat
<1>3. \A b \in 1 .. n : \A j \in 1 .. Len(ss[b]) : f[off[b - 1] + j] = ss[b][j]
  BY DEF Flat
<1> HIDE DEF n
<1>4. PICK b \in S : \A c \in S : b <= c
  <2>1. n \in S /\ S \in SUBSET Nat
    BY <1>1
  <2> HIDE DEF S
  <2> QED BY <2>1, LeastNatural
<1>5. k \in Nat /\ k > 0 /\ b \in 0 .. n /\ k <= off[b]
  BY <1>1
<1>6. b # 0
  BY <1>1, <1>5
<1>7. b \in 1 .. n /\ b - 1 \in 0 .. n /\ off[b - 1] \in Nat /\ off[b] \in Nat
  BY <1>1, <1>5, <1>6
<1>8. off[b - 1] < k
  <2>1. b - 1 \notin S
    BY <1>4, <1>7
  <2> QED BY <1>5, <1>7, <2>1
<1> DEFINE j == k - off[b - 1]
           l == Len(ss[b])
           before == off[b - 1]
<1>9. l \in Nat /\ DOMAIN ss[b] = 1 .. l /\ off[b] = before + l /\ before \in Nat
  BY <1>2, <1>7
<1>10. j \in 1 .. l /\ k = before + j
  <2>1. before < k
    BY <1>8
  <2> HIDE DEF before, l
  <2>2. k - before \in 1 .. l /\ k = before + (k - before)
    BY <1>5, <1>9, <2>1
  <2> QED BY <2>2 DEF before
<1>11. f[before + j] = ss[b][j]
  BY <1>3, <1>7, <1>10
<1>12. b \in DOMAIN ss /\ j \in DOMAIN ss[b] /\ before < k
  BY <1>1, <1>7, <1>8, <1>9, <1>10
<1> HIDE DEF j
<1> QED
  BY <1>5, <1>10, <1>11, <1>12 DEF PlaceOf

\* No member is at two places.
OnceEach(f) == \A k, l \in DOMAIN f : f[k] = f[l] => k = l

LEMMA FlatApart ==
  ASSUME NEW D, NEW ss \in Seq(Seq(D)), NEW f, NEW off, Flat(f, ss, off), Apart(ss)
  PROVE  OnceEach(f)
<1> SUFFICES ASSUME NEW k \in DOMAIN f, NEW l \in DOMAIN f, f[k] = f[l] PROVE k = l
  BY DEF OnceEach
<1>1. PICK b \in DOMAIN ss : \E j \in DOMAIN ss[b] : PlaceOf(f, ss, off, k, b, j)
  BY Located, Zenon
<1>2. PICK j \in DOMAIN ss[b] : k = off[b - 1] + j /\ f[k] = ss[b][j]
  BY <1>1 DEF PlaceOf
<1>3. PICK c \in DOMAIN ss : \E i \in DOMAIN ss[c] : PlaceOf(f, ss, off, l, c, i)
  BY Located, Zenon
<1>4. PICK i \in DOMAIN ss[c] : l = off[c - 1] + i /\ f[l] = ss[c][i]
  BY <1>3 DEF PlaceOf
<1>5. b = c /\ j = i
  BY <1>2, <1>4 DEF Apart
<1> QED
  BY <1>2, <1>4, <1>5

LEMMA FlatHolds ==
  ASSUME NEW D, NEW ss \in Seq(Seq(D)), NEW f, NEW off, Flat(f, ss, off)
  PROVE  Range(f) = Held(ss)
<1>1. ASSUME NEW k \in DOMAIN f PROVE f[k] \in Held(ss)
  <2>1. PICK b \in DOMAIN ss : \E j \in DOMAIN ss[b] : PlaceOf(f, ss, off, k, b, j)
    BY Located, Zenon
  <2>2. PICK j \in DOMAIN ss[b] : f[k] = ss[b][j]
    BY <2>1 DEF PlaceOf
  <2> QED BY <2>2, HeldIs
<1>2. ASSUME NEW x \in Held(ss) PROVE \E k \in DOMAIN f : f[k] = x
  <2>1. PICK b \in DOMAIN ss : \E j \in DOMAIN ss[b] : ss[b][j] = x
    BY HeldIs, Zenon
  <2>2. PICK j \in DOMAIN ss[b] : ss[b][j] = x
    BY <2>1
  <2>3. b \in 1 .. Len(ss) /\ j \in 1 .. Len(ss[b])
    OBVIOUS
  <2>4. off[b - 1] + j \in DOMAIN f /\ f[off[b - 1] + j] = ss[b][j]
    BY <2>3 DEF Flat
  <2> QED BY <2>2, <2>4
<1>3. Range(f) = {f[k] : k \in DOMAIN f}
  BY DEF Range
<1> QED
  BY <1>1, <1>2, <1>3

-----------------------------------------------------------------------------
(* Running totals, and the pairs of consecutive microbatches *)

RunsUp(counts, n) ==
  /\ UpTo(counts, 0) = 0
  /\ \A k \in 0 .. n : UpTo(counts, k) \in Nat
  /\ \A k \in 1 .. n : UpTo(counts, k) = UpTo(counts, k - 1) + counts[k]

LEMMA UpToAdds ==
  ASSUME NEW n \in Nat, NEW counts \in [1 .. n -> Nat]
  PROVE  RunsUp(counts, n)
<1> DEFINE first(k) == [j \in 1 .. k |-> j]
<1>1. \A k : UpTo(counts, k) = Tokens(counts, first(k))
  BY DEF UpTo, Tokens
<1>2. UpTo(counts, 0) = 0
  <2>1. first(0) = <<>>
    OBVIOUS
  <2> HIDE DEF first
  <2> QED BY <1>1, <2>1, TokensOfNone
<1>3. ASSUME NEW k \in 1 .. n
      PROVE  /\ UpTo(counts, k - 1) \in Nat
             /\ UpTo(counts, k) = UpTo(counts, k - 1) + counts[k]
  <2> DEFINE h == k - 1
  <2>1. first(h) \in Seq(1 .. n) /\ first(k) = Append(first(h), k)
    OBVIOUS
  <2> HIDE DEF first, h
  <2>2. /\ Tokens(counts, first(h)) \in Nat
        /\ Tokens(counts, Append(first(h), k)) = Tokens(counts, first(h)) + counts[k]
    BY <2>1, TokensOfMore
  <2>3. UpTo(counts, h) \in Nat /\ UpTo(counts, k) = UpTo(counts, h) + counts[k]
    BY <1>1, <2>1, <2>2
  <2> QED BY <2>3 DEF h
<1>4. ASSUME NEW k \in 0 .. n PROVE UpTo(counts, k) \in Nat
  <2>1. CASE k = 0
    BY <1>2, <2>1
  <2>2. CASE k # 0
    <3>1. k \in 1 .. n /\ counts[k] \in Nat
      BY <2>2
    <3>2. UpTo(counts, k - 1) \in Nat /\ UpTo(counts, k) = UpTo(counts, k - 1) + counts[k]
      BY <1>3, <3>1
    <3> QED BY <3>1, <3>2
  <2> QED BY <2>1, <2>2
<1> QED
  BY <1>2, <1>3, <1>4 DEF RunsUp

Totals(counts, off, n) == \A b \in 0 .. n : UpTo(counts, b) = off[b]

\* The running total of the lengths is where the sequences end.
LEMMA UpToEnds ==
  ASSUME NEW D, NEW ss \in Seq(Seq(D)), NEW f, NEW off, Flat(f, ss, off),
         NEW counts \in [1 .. Len(ss) -> Nat],
         \A b \in 1 .. Len(ss) : counts[b] = Len(ss[b])
  PROVE  Totals(counts, off, Len(ss))
<1> DEFINE n == Len(ss)
           S == {k \in Nat : k <= n => UpTo(counts, k) = off[k]}
<1>0. RunsUp(counts, n)
  <2>1. n \in Nat
    OBVIOUS
  <2> QED BY <2>1, UpToAdds, Zenon
<1>1. /\ n \in Nat /\ off[0] = 0 /\ \A b \in 1 .. n : off[b] = off[b - 1] + counts[b]
      /\ UpTo(counts, 0) = 0
      /\ \A k \in 1 .. n : UpTo(counts, k) = UpTo(counts, k - 1) + counts[k]
  <2>1. off[0] = 0 /\ \A b \in 1 .. n : off[b] = off[b - 1] + counts[b]
    BY DEF Flat
  <2> QED BY <1>0, <2>1 DEF RunsUp
<1> HIDE DEF n
<1>2. 0 \in S
  BY <1>1
<1>3. ASSUME NEW k \in Nat, k \in S PROVE k + 1 \in S
  <2> DEFINE h == k + 1
  <2> SUFFICES ASSUME h <= n PROVE UpTo(counts, h) = off[h]
    OBVIOUS
  <2>1. h \in 1 .. n /\ h - 1 = k /\ UpTo(counts, k) = off[k]
    BY <1>1, <1>3
  <2> HIDE DEF h
  <2>2. off[h] = off[k] + counts[h] /\ UpTo(counts, h) = UpTo(counts, k) + counts[h]
    BY <1>1, <2>1
  <2> QED BY <2>1, <2>2
<1>4. \A k \in Nat : k \in S
  <2> HIDE DEF S
  <2> QED BY <1>2, <1>3, NaturalInduction
<1> QED
  BY <1>1, <1>4 DEF n, Totals

\* The pairs of a list that go on where the one before stops, from 0 to n.
Covers(pairs, n) ==
  /\ pairs \in Seq(Nat \X Nat) /\ pairs # <<>>
  /\ pairs[1][1] = 0 /\ pairs[Len(pairs)][2] = n
  /\ \A k \in 1 .. Len(pairs) : pairs[k][1] <= pairs[k][2]
  /\ \A k \in 1 .. Len(pairs) : k > 1 => pairs[k][1] = pairs[k - 1][2]

LEMMA PairsCover ==
  ASSUME NEW n \in Nat \ {0}, NEW off \in [0 .. n -> Nat], off[0] = 0,
         \A b \in 1 .. n : off[b - 1] <= off[b]
  PROVE  LET pairs == [k \in 1 .. n |-> <<off[k - 1], off[k]>>] IN
         Covers(pairs, off[n]) /\ Len(pairs) = n
<1> DEFINE from(k) == off[k - 1]
           to(k) == off[k]
           pairs == [k \in 1 .. n |-> <<off[k - 1], off[k]>>]
<1>1. \A k \in 1 .. n : from(k) \in Nat /\ to(k) \in Nat /\ from(k) <= to(k)
  <2>1. \A k \in 1 .. n : k - 1 \in 0 .. n /\ k \in 0 .. n
    OBVIOUS
  <2> QED BY <2>1
<1>2. from(1) = 0 /\ to(n) = off[n] /\ \A k \in 1 .. n : k > 1 => from(k) = to(k - 1)
  OBVIOUS
<1>3. pairs = [k \in 1 .. n |-> <<from(k), to(k)>>]
  OBVIOUS
<1> HIDE DEF from, to, pairs
<1>4. pairs \in Seq(Nat \X Nat) /\ Len(pairs) = n
  BY <1>1, <1>3
<1>5. \A k \in 1 .. n : pairs[k][1] = from(k) /\ pairs[k][2] = to(k)
  BY <1>3
<1>6. \A k \in 1 .. n : k > 1 => pairs[k - 1][2] = to(k - 1)
  <2>1. \A k \in 1 .. n : k > 1 => k - 1 \in 1 .. n
    OBVIOUS
  <2> QED BY <1>5, <2>1
<1>7. 1 \in 1 .. n /\ n \in 1 .. n /\ pairs # <<>>
  BY <1>4
<1>8. Covers(pairs, off[n])
  <2>1. pairs[1][1] = 0 /\ pairs[Len(pairs)][2] = off[n]
    BY <1>2, <1>4, <1>5, <1>7
  <2>2. \A k \in 1 .. Len(pairs) : pairs[k][1] <= pairs[k][2]
    BY <1>1, <1>4, <1>5
  <2>3. \A k \in 1 .. Len(pairs) : k > 1 => pairs[k][1] = pairs[k - 1][2]
    BY <1>2, <1>4, <1>5, <1>6
  <2> QED BY <1>4, <1>7, <2>1, <2>2, <2>3 DEF Covers
<1> QED
  BY <1>4, <1>8 DEF pairs

\* So do the microbatches of bins that are laid end to end.
LEMMA ConsecutiveCovers ==
  ASSUME NEW D, NEW ss \in Seq(Seq(D)), ss # <<>>, NEW f, NEW off, Flat(f, ss, off)
  PROVE  LET pairs == Consecutive([k \in DOMAIN ss |-> Len(ss[k])]) IN
         /\ pairs = [k \in 1 .. Len(ss) |-> <<off[k - 1], off[k]>>]
         /\ Covers(pairs, off[Len(ss)]) /\ Len(pairs) = Len(ss)
<1> DEFINE n == Len(ss)
           counts == [k \in DOMAIN ss |-> Len(ss[k])]
           pairs == Consecutive(counts)
<1>1. n \in Nat \ {0} /\ DOMAIN ss = 1 .. n /\ off[0] = 0 /\ off \in [0 .. n -> Nat]
  BY DEF Flat
<1>2. counts \in [1 .. n -> Nat] /\ DOMAIN counts = 1 .. n /\ \A b \in 1 .. n : counts[b] = Len(ss[b])
  OBVIOUS
<1> HIDE DEF counts
<1>3. Totals(counts, off, n)
  BY <1>2, UpToEnds, Zenon
<1>4. pairs = [k \in 1 .. n |-> <<UpTo(counts, k - 1), UpTo(counts, k)>>]
  BY <1>2 DEF Consecutive
<1>5. \A b \in 1 .. n : off[b - 1] <= off[b]
  <2> SUFFICES ASSUME NEW b \in 1 .. n PROVE off[b - 1] <= off[b]
    OBVIOUS
  <2>1. b - 1 \in 0 .. n /\ b \in 0 .. n /\ b - 1 <= b
    BY <1>1
  <2> QED BY <2>1, FlatGrows
<1> HIDE DEF n, pairs
<1>6. pairs = [k \in 1 .. n |-> <<off[k - 1], off[k]>>]
  <2>1. \A k \in 1 .. n : k \in 0 .. n /\ k - 1 \in 0 .. n
    BY <1>1
  <2> QED BY <1>3, <1>4, <2>1 DEF Totals
<1>7. Covers(pairs, off[n]) /\ Len(pairs) = n
  BY <1>1, <1>5, <1>6, PairsCover
<1> QED
  BY <1>6, <1>7 DEF n, pairs, counts

-----------------------------------------------------------------------------
(* Shards made of pieces, a piece of each chunk *)

\* No row is at two places of the pieces, and each is somewhere.
InPiece(P, m, n, s, c, k, r) ==
  s \in 1 .. m /\ c \in 1 .. n /\ k \in DOMAIN P[s][c] /\ P[s][c][k] = r

OnePieceEach(P, m, n, R) ==
  /\ \A s, t, c, d, k, l, r :
       InPiece(P, m, n, s, c, k, r) /\ InPiece(P, m, n, t, d, l, r) => s = t /\ c = d /\ k = l
  /\ \A r \in R : \E s \in 1 .. m : \E c \in 1 .. n : \E k \in DOMAIN P[s][c] : P[s][c][k] = r

\* Then the shards part the rows among them.
Parted(sh, R) == sh \in Seq(Seq(R)) /\ Apart(sh) /\ Held(sh) = R

Joined(P, m) == [s \in 1 .. m |-> FlattenSeq(P[s])]

LEMMA ShardsPart ==
  ASSUME NEW R, NEW m \in Nat, NEW n \in Nat,
         NEW P \in [1 .. m -> Seq(Seq(R))], \A s \in 1 .. m : Len(P[s]) = n,
         OnePieceEach(P, m, n, R)
  PROVE  Parted(Joined(P, m), R)
<1> DEFINE sh == [s \in 1 .. m |-> FlattenSeq(P[s])]
<1>0. ASSUME NEW s \in 1 .. m, NEW t \in 1 .. m, NEW c \in 1 .. n, NEW d \in 1 .. n,
             NEW k \in DOMAIN P[s][c], NEW l \in DOMAIN P[t][d], P[s][c][k] = P[t][d][l]
      PROVE  s = t /\ c = d /\ k = l
  <2>1. InPiece(P, m, n, s, c, k, P[s][c][k]) /\ InPiece(P, m, n, t, d, l, P[s][c][k])
    BY <1>0 DEF InPiece
  <2> QED BY <2>1 DEF OnePieceEach
<1>1. ASSUME NEW s \in 1 .. m
      PROVE  /\ P[s] \in Seq(Seq(R)) /\ DOMAIN P[s] = 1 .. n /\ sh[s] = FlattenSeq(P[s])
             /\ sh[s] \in Seq(R) /\ \E off : Flat(sh[s], P[s], off)
  <2>1. P[s] \in Seq(Seq(R)) /\ DOMAIN P[s] = 1 .. n /\ sh[s] = FlattenSeq(P[s])
    OBVIOUS
  <2>2. FlattenSeq(P[s]) \in Seq(R) /\ \E off : Flat(FlattenSeq(P[s]), P[s], off)
    BY <2>1, Flattens
  <2> QED BY <2>1, <2>2
<1>2. DOMAIN sh = 1 .. m /\ Len(sh) = m /\ sh \in Seq(Seq(R))
  <2>1. \A s \in 1 .. m : FlattenSeq(P[s]) \in Seq(R)
    BY <1>1
  <2> QED BY <2>1
<1> HIDE DEF sh
<1>3. ASSUME NEW s \in 1 .. m, NEW k \in DOMAIN sh[s]
      PROVE  \E c \in 1 .. n : \E j \in DOMAIN P[s][c] : sh[s][k] = P[s][c][j]
  <2>1. PICK off : Flat(sh[s], P[s], off)
    BY <1>1
  <2>2. P[s] \in Seq(Seq(R)) /\ DOMAIN P[s] = 1 .. n
    BY <1>1
  <2>3. PICK c \in DOMAIN P[s] : \E j \in DOMAIN P[s][c] : PlaceOf(sh[s], P[s], off, k, c, j)
    BY <2>1, <2>2, Located, Zenon
  <2>4. PICK j \in DOMAIN P[s][c] : sh[s][k] = P[s][c][j]
    BY <2>3 DEF PlaceOf
  <2> QED BY <2>2, <2>4
<1>4. ASSUME NEW s \in 1 .. m, NEW t \in 1 .. m, NEW k \in DOMAIN sh[s], NEW l \in DOMAIN sh[t],
             sh[s][k] = sh[t][l]
      PROVE  s = t /\ k = l
  <2>1. PICK c \in 1 .. n : \E j \in DOMAIN P[s][c] : sh[s][k] = P[s][c][j]
    BY <1>3
  <2>2. PICK j \in DOMAIN P[s][c] : sh[s][k] = P[s][c][j]
    BY <2>1
  <2>3. PICK d \in 1 .. n : \E i \in DOMAIN P[t][d] : sh[t][l] = P[t][d][i]
    BY <1>3
  <2>4. PICK i \in DOMAIN P[t][d] : sh[t][l] = P[t][d][i]
    BY <2>3
  <2>5. s = t
    <3>1. P[s][c][j] = P[t][d][i]
      BY <1>4, <2>2, <2>4
    <3> QED BY <1>0, <3>1
  <2>6. Apart(P[s])
    <3> SUFFICES ASSUME NEW b \in DOMAIN P[s], NEW e \in DOMAIN P[s],
                        NEW x \in DOMAIN P[s][b], NEW y \in DOMAIN P[s][e],
                        P[s][b][x] = P[s][e][y]
                 PROVE  b = e /\ x = y
      BY DEF Apart
    <3>1. b \in 1 .. n /\ e \in 1 .. n
      BY <1>1
    <3> QED BY <1>0, <3>1
  <2>7. PICK off : Flat(sh[s], P[s], off)
    BY <1>1
  <2>8. OnceEach(sh[s])
    BY <1>1, <2>6, <2>7, FlatApart, Zenon
  <2> QED BY <1>4, <2>5, <2>8 DEF OnceEach
<1>5. Apart(sh)
  BY <1>2, <1>4 DEF Apart
<1>6. ASSUME NEW r \in R PROVE r \in Held(sh)
  <2>1. PICK s \in 1 .. m : \E c \in 1 .. n : \E k \in DOMAIN P[s][c] : P[s][c][k] = r
    BY DEF OnePieceEach
  <2>2. r \in Held(P[s])
    BY <1>1, <2>1, HeldIs
  <2>3. PICK off : Flat(sh[s], P[s], off)
    BY <1>1
  <2>4. r \in Range(sh[s])
    BY <1>1, <2>2, <2>3, FlatHolds, Zenon
  <2> QED BY <1>2, <2>4 DEF Held
<1>7. Held(sh) \subseteq R
  <2>1. \A s \in 1 .. m : \A k \in DOMAIN sh[s] : sh[s][k] \in R
    BY <1>1
  <2> QED BY <1>2, <2>1 DEF Held, Range
<1> QED
  BY <1>2, <1>5, <1>6, <1>7 DEF sh, Parted, Joined

\* A slice of a sequence.
LEMMA SliceIs ==
  ASSUME NEW D, NEW f \in Seq(D), NEW a \in Nat, NEW b \in Nat, a <= b, b <= Len(f),
         NEW g \in Seq(D), Len(g) = b - a, \A j \in 1 .. Len(g) : f[a + j] = g[j]
  PROVE  SubSeq(f, a + 1, b) = g
<1>1. SubSeq(f, a + 1, b) = [j \in 1 .. b - a |-> f[a + j]]
  OBVIOUS
<1>2. g = [j \in 1 .. b - a |-> g[j]]
  OBVIOUS
<1> QED
  BY <1>1, <1>2

-----------------------------------------------------------------------------
(* The bins of a chunk, dealt to the shards *)

LEMMA WholeQuotient ==
  ASSUME NEW n \in Nat, NEW m \in Nat \ {0}, n % m = 0
  PROVE  n \div m \in Nat /\ n = (n \div m) * m
OBVIOUS

LEMMA PlaceInMultiple ==
  ASSUME NEW q \in Nat, NEW m \in Nat \ {0}, NEW k \in 1 .. q, NEW s \in 1 .. m
  PROVE  (k - 1) * m + s \in 1 .. (q * m)
<1> DEFINE x == k - 1
           y == q - k
<1>1. x \in Nat /\ y \in Nat /\ q = x + 1 + y
  OBVIOUS
<1> HIDE DEF x, y
<1>2. x * m \in Nat /\ y * m \in Nat /\ q * m = x * m + m + y * m
  BY <1>1
<1>3. x * m + s \in 1 .. (q * m)
  BY <1>2
<1> QED
  BY <1>3 DEF x

\* The bin that is dealt to shard s as its k-th.
BinOf(s, k) == (k - 1) * call.shards + s

LEMMA BinsDiffer ==
  ASSUME CallOK, NEW s \in Shards, NEW t \in Shards, NEW k \in Nat \ {0}, NEW l \in Nat \ {0},
         BinOf(s, k) = BinOf(t, l)
  PROVE  s = t /\ k = l
<1> DEFINE m == call.shards
           x == k - 1
           y == l - 1
           i == s - 1
           j == t - 1
<1>1. /\ m \in Nat \ {0} /\ x \in Nat /\ y \in Nat /\ i \in 0 .. (m - 1) /\ j \in 0 .. (m - 1)
      /\ k = x + 1 /\ l = y + 1 /\ s = i + 1 /\ t = j + 1
  BY DEF CallOK, Shards
<1>2. x * m + i = y * m + j
  <2>1. x * m \in Nat /\ y * m \in Nat
    BY <1>1
  <2>2. x * m + s = y * m + t
    BY DEF BinOf
  <2> HIDE DEF x, y, i, j
  <2> QED BY <1>1, <2>1, <2>2
<1> HIDE DEF m, x, y, i, j
<1>3. (x * m + i) \div m = x /\ (x * m + i) % m = i
  BY <1>1
<1>4. (y * m + j) \div m = y /\ (y * m + j) % m = j
  BY <1>1
<1> QED
  BY <1>1, <1>2, <1>3, <1>4

\* Shard s gets the bins s, s + shards, and so on.
LEMMA DealtBins ==
  ASSUME CallOK, length \in [1 .. Rows -> Lengths], Rows % Batch = 0, NEW c \in 1 .. Chunks,
         Filled(ChunkSizes(c), call.shards, packed[c]), NEW s \in Shards
  PROVE  /\ Dealt(c, s) \in Seq(Seq(1 .. Rows)) /\ Dealt(c, s) # <<>>
         /\ DOMAIN Dealt(c, s) = 1 .. (Len(packed[c]) \div call.shards)
         /\ \A k \in DOMAIN Dealt(c, s) :
              /\ BinOf(s, k) \in DOMAIN packed[c]
              /\ Dealt(c, s)[k] = GlobalRows(c, packed[c][BinOf(s, k)])
              /\ Dealt(c, s)[k] # <<>>
<1> DEFINE m == call.shards
           n == Len(packed[c])
           q == n \div m
           mine == {b \in 1 .. n : (b - 1) % m = s - 1}
<1>1. ChunkSizes(c) \in [Items -> Nat]
  BY ChunkSizesType
<1>2. /\ packed[c] \in Seq(Seq(Items)) /\ n \in Nat \ {0} /\ DOMAIN packed[c] = 1 .. n
      /\ n % m = 0 /\ NoneEmpty(packed[c])
  BY <1>1, FilledBins
<1>3. m \in Nat \ {0} /\ s \in 1 .. m
  BY DEF CallOK, Shards
<1>4. q \in Nat /\ n = q * m /\ q # 0
  <2> HIDE DEF n, m
  <2>0. n \in Nat /\ n # 0 /\ n % m = 0
    BY <1>2
  <2>1. q \in Nat /\ n = q * m
    BY <1>3, <2>0, WholeQuotient
  <2> HIDE DEF q
  <2> QED BY <1>2, <1>3, <2>1
<1>5. Cardinality(mine) = q
  <2> HIDE DEF n, m
  <2> QED BY <1>2, <1>3, DealtEvenly
<1>6. Dealt(c, s) = [k \in 1 .. q |-> GlobalRows(c, packed[c][BinOf(s, k)])]
  <2>1. DOMAIN packed[c] = 1 .. n
    BY <1>2
  <2>2. Dealt(c, s) = [k \in 1 .. Cardinality(mine) |-> GlobalRows(c, packed[c][(k - 1) * m + s])]
    BY <2>1 DEF Dealt
  <2> QED BY <1>5, <2>2 DEF BinOf
<1> HIDE DEF mine, q
<1>7. ASSUME NEW k \in 1 .. q PROVE BinOf(s, k) \in DOMAIN packed[c]
  <2> HIDE DEF n, m
  <2>1. (k - 1) * m + s \in 1 .. (q * m)
    BY <1>3, <1>4, PlaceInMultiple
  <2>2. (k - 1) * m + s \in 1 .. n
    BY <1>4, <2>1
  <2> QED BY <1>2, <2>2 DEF BinOf, m
<1>8. ASSUME NEW k \in 1 .. q
      PROVE  /\ GlobalRows(c, packed[c][BinOf(s, k)]) \in Seq(1 .. Rows)
             /\ GlobalRows(c, packed[c][BinOf(s, k)]) # <<>>
  <2> DEFINE bin == packed[c][BinOf(s, k)]
             l == Len(bin)
             row(j) == bin[j] + (c - 1) * Batch
  <2>1. bin \in Seq(Items) /\ bin # <<>>
    BY <1>2, <1>7 DEF NoneEmpty
  <2>2. GlobalRows(c, bin) = [j \in 1 .. l |-> row(j)] /\ l \in Nat /\ l # 0
    BY <2>1 DEF GlobalRows
  <2>3. ASSUME NEW j \in 1 .. l PROVE row(j) \in 1 .. Rows
    <3> HIDE DEF bin
    <3>1. bin[j] \in Items
      BY <2>1
    <3>2. bin[j] \in Nat
      BY <3>1 DEF Items, CallOK
    <3>3. (c - 1) * Batch \in Nat /\ (c - 1) * Batch + bin[j] \in 1 .. Rows
      BY <3>1, ChunkRows DEF Items
    <3> QED BY <3>2, <3>3
  <2> HIDE DEF row, l
  <2>4. [j \in 1 .. l |-> row(j)] \in Seq(1 .. Rows) /\ [j \in 1 .. l |-> row(j)] # <<>>
    BY <2>2, <2>3
  <2> QED BY <2>2, <2>4
<1>9. Dealt(c, s) \in Seq(Seq(1 .. Rows)) /\ Dealt(c, s) # <<>> /\ DOMAIN Dealt(c, s) = 1 .. q
  <2> DEFINE D(k) == GlobalRows(c, packed[c][BinOf(s, k)])
  <2>1. \A k \in 1 .. q : D(k) \in Seq(1 .. Rows)
    BY <1>8
  <2>2. Dealt(c, s) = [k \in 1 .. q |-> D(k)]
    BY <1>6
  <2> HIDE DEF D
  <2>3. [k \in 1 .. q |-> D(k)] \in Seq(Seq(1 .. Rows)) /\ DOMAIN [k \in 1 .. q |-> D(k)] = 1 .. q
    BY <1>4, <2>1
  <2>4. 1 \in DOMAIN Dealt(c, s) /\ DOMAIN <<>> = {}
    BY <1>4, <2>2, <2>3
  <2> QED BY <2>2, <2>3, <2>4
<1>10. \A k \in DOMAIN Dealt(c, s) :
         /\ BinOf(s, k) \in DOMAIN packed[c]
         /\ Dealt(c, s)[k] = GlobalRows(c, packed[c][BinOf(s, k)])
         /\ Dealt(c, s)[k] # <<>>
  BY <1>6, <1>7, <1>8, <1>9
<1> QED
  BY <1>9, <1>10 DEF q

\* Every bin is dealt to some shard.
LEMMA BinsAreDealt ==
  ASSUME CallOK, length \in [1 .. Rows -> Lengths], Rows % Batch = 0, NEW c \in 1 .. Chunks,
         Filled(ChunkSizes(c), call.shards, packed[c]), NEW b \in DOMAIN packed[c]
  PROVE  \E s \in Shards : \E k \in DOMAIN Dealt(c, s) : BinOf(s, k) = b
<1> DEFINE m == call.shards
           n == Len(packed[c])
           q == n \div m
           s == ((b - 1) % m) + 1
           k == ((b - 1) \div m) + 1
<1>1. ChunkSizes(c) \in [Items -> Nat]
  BY ChunkSizesType
<1>2. n \in Nat \ {0} /\ b \in 1 .. n /\ n % m = 0 /\ m \in Nat \ {0}
  BY <1>1, FilledBins DEF CallOK
<1> HIDE DEF n
<1>3. s \in Shards
  BY <1>2 DEF Shards
<1>4. BinOf(s, k) = b /\ k \in 1 .. q
  <2> HIDE DEF m
  <2>1. /\ b - 1 = ((b - 1) \div m) * m + ((b - 1) % m) /\ (b - 1) \div m \in Nat
        /\ (b - 1) % m \in 0 .. (m - 1) /\ q \in Nat /\ n = q * m
    BY <1>2
  <2> DEFINE x == (b - 1) \div m
             y == (b - 1) % m
  <2>2. b - 1 = x * m + y /\ x \in Nat /\ y \in 0 .. (m - 1) /\ q \in Nat /\ n = q * m
    BY <2>1
  <2> HIDE DEF x, y, q
  <2>3. x * m + (y + 1) = b /\ x < q
    <3>1. x * m \in Nat
      BY <1>2, <2>2
    <3>2. x * m + (y + 1) = b
      BY <1>2, <2>2, <3>1
    <3>3. x * m < q * m
      BY <1>2, <2>2, <3>1, <3>2
    <3> QED BY <1>2, <2>2, <3>2, <3>3
  <2>4. (x + 1) - 1 = x
    BY <2>2
  <2> QED BY <2>2, <2>3, <2>4 DEF BinOf, x, y, m
<1>5. DOMAIN Dealt(c, s) = 1 .. q
  BY <1>3, DealtBins DEF n
<1> HIDE DEF s, k
<1> QED
  BY <1>3, <1>4, <1>5

\* Every chunk is packed.
AllPacked ==
  /\ CallOK /\ length \in [1 .. Rows -> Lengths] /\ Rows % Batch = 0
  /\ \A c \in 1 .. Chunks : Filled(ChunkSizes(c), call.shards, packed[c])

\* Row r is the j-th of the b-th bin of chunk c.
InBin(c, b, j, r) ==
  /\ c \in 1 .. Chunks /\ b \in DOMAIN packed[c] /\ j \in DOMAIN packed[c][b]
  /\ r = packed[c][b][j] + (c - 1) * Batch

LEMMA ChunkBins ==
  ASSUME AllPacked, NEW c \in 1 .. Chunks
  PROVE  /\ ChunkSizes(c) \in [Items -> Nat]
         /\ packed[c] \in Seq(Seq(Items)) /\ Apart(packed[c]) /\ Held(packed[c]) = Items
         /\ \A b \in DOMAIN packed[c] : Tokens(ChunkSizes(c), packed[c][b]) <= Capacity
<1>1. /\ CallOK /\ length \in [1 .. Rows -> Lengths] /\ Rows % Batch = 0
      /\ Filled(ChunkSizes(c), call.shards, packed[c])
  BY DEF AllPacked
<1>2. ChunkSizes(c) \in [Items -> Nat]
  BY <1>1, ChunkSizesType
<1> QED
  BY <1>1, <1>2, FilledBins

LEMMA BinsOfChunks ==
  ASSUME AllPacked, NEW c, NEW b, NEW j, NEW r, InBin(c, b, j, r)
  PROVE  r \in 1 .. Rows /\ ChunkOf(r) = c /\ packed[c][b][j] \in Items
<1>1. c \in 1 .. Chunks /\ b \in DOMAIN packed[c] /\ j \in DOMAIN packed[c][b]
  BY DEF InBin
<1> DEFINE i == packed[c][b][j]
<1>2. i \in Items
  <2>1. packed[c] \in Seq(Seq(Items))
    BY <1>1, ChunkBins
  <2>2. packed[c][b] \in Seq(Items)
    BY <1>1, <2>1
  <2> QED BY <1>1, <2>2
<1>3. r = i + (c - 1) * Batch
  BY DEF InBin
<1> HIDE DEF i
<1>4. CallOK /\ Rows % Batch = 0
  BY DEF AllPacked
<1>5. (c - 1) * Batch \in Nat /\ (c - 1) * Batch + i \in 1 .. Rows /\ ChunkOf((c - 1) * Batch + i) = c
  BY <1>1, <1>2, <1>4, ChunkRows
<1>6. r = (c - 1) * Batch + i
  <2>1. i \in Nat
    BY <1>2, <1>4 DEF Items, CallOK
  <2> QED BY <1>3, <1>5, <2>1
<1> QED
  BY <1>2, <1>5, <1>6 DEF i

\* A row is in one bin, at one place of it.
LEMMA OneBin ==
  ASSUME AllPacked, NEW c, NEW b, NEW i, NEW d, NEW e, NEW j, NEW r,
         InBin(c, b, i, r), InBin(d, e, j, r)
  PROVE  c = d /\ b = e /\ i = j
<1>1. c = d
  BY BinsOfChunks
<1>2. /\ c \in 1 .. Chunks /\ b \in DOMAIN packed[c] /\ e \in DOMAIN packed[c]
      /\ i \in DOMAIN packed[c][b] /\ j \in DOMAIN packed[c][e]
      /\ r = packed[c][b][i] + (c - 1) * Batch /\ r = packed[c][e][j] + (c - 1) * Batch
  BY <1>1 DEF InBin
<1>3. packed[c][b][i] = packed[c][e][j]
  <2>1. packed[c][b][i] \in Items /\ packed[c][e][j] \in Items
    BY <1>1, BinsOfChunks
  <2> DEFINE x == packed[c][b][i]
             y == packed[c][e][j]
             z == (c - 1) * Batch
  <2>2. x \in Nat /\ y \in Nat /\ z \in Int
    <3>1. CallOK
      BY DEF AllPacked
    <3>2. x \in Nat /\ y \in Nat
      BY <2>1, <3>1 DEF Items, CallOK
    <3>3. z \in Int
      BY <1>2, <3>1 DEF CallOK
    <3> QED BY <3>2, <3>3
  <2>3. x + z = y + z
    BY <1>2
  <2> HIDE DEF x, y, z
  <2>4. x = y
    BY <2>2, <2>3
  <2> QED BY <2>4 DEF x, y
<1>4. Apart(packed[c])
  BY <1>2, ChunkBins
<1> QED
  BY <1>1, <1>2, <1>3, <1>4 DEF Apart

\* Where a row is in its chunk.
LEMMA RowInChunk ==
  ASSUME CallOK, Rows % Batch = 0, NEW r \in 1 .. Rows
  PROVE  /\ ChunkOf(r) \in 1 .. Chunks
         /\ \E i \in Items : r = i + (ChunkOf(r) - 1) * Batch
<1> DEFINE n == Batch
           x == (r - 1) \div n
           y == (r - 1) % n
           q == Rows \div n
<1>1. n \in Nat \ {0} /\ Rows \in Nat \ {0} /\ Rows % n = 0
  BY DispatchAssumption DEF CallOK
<1> HIDE DEF n
<1>2. x \in Nat /\ y \in 0 .. (n - 1) /\ r - 1 = x * n + y
  <2>1. r - 1 \in Nat
    OBVIOUS
  <2> QED BY <1>1, <2>1
<1>3. q \in Nat /\ Rows = q * n
  BY <1>1, WholeQuotient
<1> HIDE DEF x, y, q
<1>4. x * n \in Nat /\ r = (y + 1) + x * n /\ y + 1 \in 1 .. n
  BY <1>1, <1>2
<1>5. x < q
  <2>1. x * n < q * n
    BY <1>1, <1>2, <1>3, <1>4
  <2> QED BY <1>1, <1>2, <1>3, <2>1
<1>6. ChunkOf(r) = x + 1 /\ Chunks = q
  BY DEF ChunkOf, Chunks, x, q, n
<1>7. x + 1 \in 1 .. q /\ (x + 1) - 1 = x
  BY <1>2, <1>3, <1>5
<1>8. y + 1 \in Items /\ r = (y + 1) + ((x + 1) - 1) * Batch
  BY <1>4, <1>7 DEF Items, n
<1> QED
  BY <1>6, <1>7, <1>8

LEMMA SomeBin ==
  ASSUME AllPacked, NEW r \in 1 .. Rows
  PROVE  \E c \in 1 .. Chunks : \E b \in DOMAIN packed[c] : \E j \in DOMAIN packed[c][b] :
           InBin(c, b, j, r)
<1> DEFINE c == ChunkOf(r)
<1>1. CallOK /\ Rows % Batch = 0
  BY DEF AllPacked
<1>2. c \in 1 .. Chunks /\ \E i \in Items : r = i + (c - 1) * Batch
  BY <1>1, RowInChunk
<1> HIDE DEF c
<1>3. PICK i \in Items : r = i + (c - 1) * Batch
  BY <1>2
<1>4. Held(packed[c]) = Items
  BY <1>2, ChunkBins
<1>5. PICK b \in DOMAIN packed[c] : \E j \in DOMAIN packed[c][b] : packed[c][b][j] = i
  <2>1. i \in Held(packed[c])
    BY <1>4
  <2> QED BY <2>1, HeldIs
<1>6. PICK j \in DOMAIN packed[c][b] : packed[c][b][j] = i
  BY <1>5
<1>7. InBin(c, b, j, r)
  BY <1>2, <1>3, <1>6 DEF InBin
<1> QED
  BY <1>2, <1>7

\* What a shard gets of a chunk when bins are dealt.
BinPiece(c, s) == FlattenSeq(Dealt(c, s))

LEMMA DealtRows ==
  ASSUME AllPacked, NEW c \in 1 .. Chunks, NEW s \in Shards
  PROVE  /\ Dealt(c, s) \in Seq(Seq(1 .. Rows)) /\ Dealt(c, s) # <<>>
         /\ DOMAIN Dealt(c, s) \subseteq Nat \ {0}
         /\ \A k \in DOMAIN Dealt(c, s) : Dealt(c, s)[k] # <<>>
         /\ \A k \in DOMAIN Dealt(c, s) : \A j \in DOMAIN Dealt(c, s)[k] :
              InBin(c, BinOf(s, k), j, Dealt(c, s)[k][j])
<1>1. /\ CallOK /\ length \in [1 .. Rows -> Lengths] /\ Rows % Batch = 0
      /\ Filled(ChunkSizes(c), call.shards, packed[c])
  BY DEF AllPacked
<1>2. /\ Dealt(c, s) \in Seq(Seq(1 .. Rows)) /\ Dealt(c, s) # <<>>
      /\ \A k \in DOMAIN Dealt(c, s) :
           /\ BinOf(s, k) \in DOMAIN packed[c]
           /\ Dealt(c, s)[k] = GlobalRows(c, packed[c][BinOf(s, k)])
           /\ Dealt(c, s)[k] # <<>>
  BY <1>1, DealtBins
<1>3. DOMAIN Dealt(c, s) \subseteq Nat \ {0}
  BY <1>2
<1>4. ASSUME NEW k \in DOMAIN Dealt(c, s), NEW j \in DOMAIN Dealt(c, s)[k]
      PROVE  InBin(c, BinOf(s, k), j, Dealt(c, s)[k][j])
  <2> DEFINE bin == packed[c][BinOf(s, k)]
  <2>1. Dealt(c, s)[k] = GlobalRows(c, bin) /\ BinOf(s, k) \in DOMAIN packed[c]
    BY <1>2
  <2>2. DOMAIN GlobalRows(c, bin) = DOMAIN bin
    BY DEF GlobalRows
  <2>3. j \in DOMAIN bin /\ GlobalRows(c, bin)[j] = bin[j] + (c - 1) * Batch
    BY <1>4, <2>1, <2>2 DEF GlobalRows
  <2>4. Dealt(c, s)[k][j] = bin[j] + (c - 1) * Batch
    BY <2>1, <2>3
  <2> QED BY <2>1, <2>3, <2>4 DEF InBin
<1> QED
  BY <1>2, <1>3, <1>4

\* The bins that a shard gets have no row in common.
LEMMA DealtApart ==
  ASSUME AllPacked, NEW c \in 1 .. Chunks, NEW s \in Shards
  PROVE  Apart(Dealt(c, s))
<1> SUFFICES ASSUME NEW k \in DOMAIN Dealt(c, s), NEW l \in DOMAIN Dealt(c, s),
                    NEW i \in DOMAIN Dealt(c, s)[k], NEW j \in DOMAIN Dealt(c, s)[l],
                    Dealt(c, s)[k][i] = Dealt(c, s)[l][j]
             PROVE  k = l /\ i = j
  BY DEF Apart
<1> DEFINE r == Dealt(c, s)[k][i]
<1>1. InBin(c, BinOf(s, k), i, r) /\ InBin(c, BinOf(s, l), j, r)
  <2>1. InBin(c, BinOf(s, l), j, Dealt(c, s)[l][j])
    BY DealtRows
  <2> QED BY <2>1, DealtRows
<1> HIDE DEF r
<1>2. BinOf(s, k) = BinOf(s, l) /\ i = j
  BY <1>1, OneBin
<1>3. k \in Nat \ {0} /\ l \in Nat \ {0} /\ CallOK
  BY DealtRows DEF AllPacked
<1> QED
  BY <1>2, <1>3, BinsDiffer

\* Row r is in a bin of chunk c that shard s was dealt.
DealtAt(c, s, j, r) == \E k \in DOMAIN Dealt(c, s) : InBin(c, BinOf(s, k), j, r)

LEMMA BinPieceRows ==
  ASSUME AllPacked, NEW c \in 1 .. Chunks, NEW s \in Shards
  PROVE  /\ BinPiece(c, s) \in Seq(1 .. Rows) /\ OnceEach(BinPiece(c, s))
         /\ Range(BinPiece(c, s)) = Held(Dealt(c, s))
         /\ \A k \in DOMAIN BinPiece(c, s) : \E j : DealtAt(c, s, j, BinPiece(c, s)[k])
<1> DEFINE ss == Dealt(c, s)
           f == BinPiece(c, s)
<1>1. ss \in Seq(Seq(1 .. Rows)) /\ Apart(ss)
  BY DealtRows, DealtApart
<1>2. f \in Seq(1 .. Rows) /\ \E off : Flat(f, ss, off)
  BY <1>1, Flattens DEF BinPiece
<1>3. PICK off : Flat(f, ss, off)
  BY <1>2
<1>4. ASSUME NEW k \in DOMAIN f PROVE \E j : DealtAt(c, s, j, f[k])
  <2> HIDE DEF ss, f
  <2>1. PICK b \in DOMAIN ss : \E j \in DOMAIN ss[b] : PlaceOf(f, ss, off, k, b, j)
    BY <1>1, <1>3, Located, Zenon
  <2>2. PICK j \in DOMAIN ss[b] : f[k] = ss[b][j]
    BY <2>1 DEF PlaceOf
  <2>3. InBin(c, BinOf(s, b), j, ss[b][j])
    BY DealtRows DEF ss
  <2>4. DealtAt(c, s, j, f[k])
    BY <2>2, <2>3 DEF DealtAt, ss
  <2> QED BY <2>4
<1> HIDE DEF ss, f
<1>5. OnceEach(f)
  BY <1>1, <1>3, FlatApart, Zenon
<1>6. Range(f) = Held(ss)
  BY <1>1, <1>3, FlatHolds, Zenon
<1> QED
  BY <1>2, <1>4, <1>5, <1>6 DEF ss, f

\* A row that two shards were dealt is dealt once.
LEMMA DealtOnce ==
  ASSUME AllPacked, NEW c, NEW d, NEW s \in Shards, NEW t \in Shards, NEW i, NEW j, NEW r,
         DealtAt(c, s, i, r), DealtAt(d, t, j, r), c \in 1 .. Chunks, d \in 1 .. Chunks
  PROVE  c = d /\ s = t
<1>1. PICK k \in DOMAIN Dealt(c, s) : InBin(c, BinOf(s, k), i, r)
  BY DEF DealtAt
<1>2. PICK l \in DOMAIN Dealt(d, t) : InBin(d, BinOf(t, l), j, r)
  BY DEF DealtAt
<1>3. c = d /\ BinOf(s, k) = BinOf(t, l)
  BY <1>1, <1>2, OneBin
<1>4. k \in Nat \ {0} /\ l \in Nat \ {0} /\ CallOK
  BY DealtRows DEF AllPacked
<1> QED
  BY <1>3, <1>4, BinsDiffer

BinPieces == [s \in Shards |-> [c \in 1 .. Chunks |-> BinPiece(c, s)]]

\* The pieces hold each row once, a row of chunk c in the pieces of chunk c.
LEMMA BinPiecesPart ==
  ASSUME AllPacked
  PROVE  /\ BinPieces \in [Shards -> Seq(Seq(1 .. Rows))]
         /\ \A s \in Shards : Len(BinPieces[s]) = Chunks
         /\ OnePieceEach(BinPieces, call.shards, Chunks, 1 .. Rows)
         /\ \A s \in Shards : \A c \in 1 .. Chunks : \A k \in DOMAIN BinPieces[s][c] :
              ChunkOf(BinPieces[s][c][k]) = c
<1>1. CallOK /\ Chunks \in Nat
  <2>1. CallOK /\ Rows \in Nat \ {0}
    BY DispatchAssumption DEF AllPacked
  <2> QED BY <2>1, QuotientIsNatural DEF CallOK, Chunks
<1>2. \A s \in Shards : \A c \in 1 .. Chunks : BinPieces[s][c] = BinPiece(c, s)
  BY DEF BinPieces
<1>3. ASSUME NEW s \in Shards
      PROVE  BinPieces[s] \in Seq(Seq(1 .. Rows)) /\ Len(BinPieces[s]) = Chunks
  <2>1. \A c \in 1 .. Chunks : BinPiece(c, s) \in Seq(1 .. Rows)
    BY BinPieceRows
  <2>2. BinPieces[s] = [c \in 1 .. Chunks |-> BinPiece(c, s)]
    BY DEF BinPieces
  <2> QED BY <1>1, <2>1, <2>2
<1>4. BinPieces \in [Shards -> Seq(Seq(1 .. Rows))]
  BY <1>3 DEF BinPieces
<1>5. ASSUME NEW s, NEW t, NEW c, NEW d, NEW k, NEW l, NEW r,
             InPiece(BinPieces, call.shards, Chunks, s, c, k, r),
             InPiece(BinPieces, call.shards, Chunks, t, d, l, r)
      PROVE  s = t /\ c = d /\ k = l
  <2>1. /\ s \in Shards /\ t \in Shards /\ c \in 1 .. Chunks /\ d \in 1 .. Chunks
        /\ k \in DOMAIN BinPiece(c, s) /\ l \in DOMAIN BinPiece(d, t)
        /\ BinPiece(c, s)[k] = r /\ BinPiece(d, t)[l] = r
    BY <1>2, <1>5 DEF InPiece, Shards
  <2>2. PICK i : DealtAt(c, s, i, r)
    BY <2>1, BinPieceRows
  <2>3. PICK j : DealtAt(d, t, j, r)
    BY <2>1, BinPieceRows
  <2>4. c = d /\ s = t
    BY <2>1, <2>2, <2>3, DealtOnce
  <2>5. OnceEach(BinPiece(c, s))
    BY <2>1, BinPieceRows
  <2> QED BY <2>1, <2>4, <2>5 DEF OnceEach
<1>6. ASSUME NEW r \in 1 .. Rows
      PROVE  \E s \in 1 .. call.shards : \E c \in 1 .. Chunks :
               \E k \in DOMAIN BinPieces[s][c] : BinPieces[s][c][k] = r
  <2>1. PICK c \in 1 .. Chunks : \E b \in DOMAIN packed[c] : \E j \in DOMAIN packed[c][b] :
               InBin(c, b, j, r)
    BY SomeBin
  <2>2. PICK b \in DOMAIN packed[c] : \E j \in DOMAIN packed[c][b] : InBin(c, b, j, r)
    BY <2>1
  <2>3. PICK j \in DOMAIN packed[c][b] : InBin(c, b, j, r)
    BY <2>2
  <2>4. PICK s \in Shards : \E k \in DOMAIN Dealt(c, s) : BinOf(s, k) = b
    <3>1. /\ CallOK /\ length \in [1 .. Rows -> Lengths] /\ Rows % Batch = 0
          /\ Filled(ChunkSizes(c), call.shards, packed[c])
      BY DEF AllPacked
    <3> QED BY <3>1, BinsAreDealt
  <2>5. PICK k \in DOMAIN Dealt(c, s) : BinOf(s, k) = b
    BY <2>4
  <2>6. j \in DOMAIN Dealt(c, s)[k] /\ Dealt(c, s)[k][j] = r
    <3>1. Dealt(c, s)[k] = GlobalRows(c, packed[c][b])
      <4>1. /\ CallOK /\ length \in [1 .. Rows -> Lengths] /\ Rows % Batch = 0
            /\ Filled(ChunkSizes(c), call.shards, packed[c])
        BY DEF AllPacked
      <4> QED BY <2>5, <4>1, DealtBins
    <3> QED BY <2>3, <3>1 DEF GlobalRows, InBin
  <2>7. r \in Range(BinPiece(c, s))
    <3>1. r \in Held(Dealt(c, s))
      BY <2>6, HeldIs
    <3> QED BY <3>1, BinPieceRows
  <2>8. \E l \in DOMAIN BinPieces[s][c] : BinPieces[s][c][l] = r
    BY <1>2, <2>7 DEF Range
  <2> QED BY <2>8 DEF Shards
<1>7. ASSUME NEW s \in Shards, NEW c \in 1 .. Chunks, NEW k \in DOMAIN BinPieces[s][c]
      PROVE  ChunkOf(BinPieces[s][c][k]) = c
  <2>1. k \in DOMAIN BinPiece(c, s) /\ BinPieces[s][c] = BinPiece(c, s)
    BY <1>2
  <2>2. PICK j : DealtAt(c, s, j, BinPiece(c, s)[k])
    BY <2>1, BinPieceRows
  <2>3. PICK l \in DOMAIN Dealt(c, s) : InBin(c, BinOf(s, l), j, BinPiece(c, s)[k])
    BY <2>2 DEF DealtAt
  <2> QED BY <2>1, <2>3, BinsOfChunks
<1>8. OnePieceEach(BinPieces, call.shards, Chunks, 1 .. Rows)
  BY <1>5, <1>6 DEF OnePieceEach
<1> QED
  BY <1>3, <1>4, <1>7, <1>8

-----------------------------------------------------------------------------
(* Shards, chunk after chunk *)

\* The pairs do not go beyond what they cover.
LEMMA CoversWithin ==
  ASSUME NEW pairs, NEW n, Covers(pairs, n)
  PROVE  /\ n \in Nat /\ Len(pairs) \in Nat \ {0} /\ DOMAIN pairs = 1 .. Len(pairs)
         /\ \A k \in 1 .. Len(pairs) :
              pairs[k][1] \in Nat /\ pairs[k][2] \in Nat /\ pairs[k][2] <= n
<1> DEFINE L == Len(pairs)
           from(k) == pairs[k][1]
           to(k) == pairs[k][2]
           S == {d \in Nat : d < L => to(L - d) <= n}
<1>1. pairs \in Seq(Nat \X Nat) /\ pairs # <<>>
  BY DEF Covers
<1>2. L \in Nat \ {0} /\ DOMAIN pairs = 1 .. L /\ \A k \in 1 .. L : pairs[k] \in Nat \X Nat
  BY <1>1
<1>3. \A k \in 1 .. L : from(k) \in Nat /\ to(k) \in Nat
  <2> SUFFICES ASSUME NEW k \in 1 .. L PROVE from(k) \in Nat /\ to(k) \in Nat
    OBVIOUS
  <2>1. pairs[k] \in Nat \X Nat
    BY <1>2
  <2> QED BY <2>1
<1>4. /\ to(L) = n /\ \A k \in 1 .. L : from(k) <= to(k)
      /\ \A k \in 1 .. L : k > 1 => from(k) = to(k - 1)
  BY DEF Covers
<1> HIDE DEF L, from, to
<1>5. 0 \in S /\ n \in Nat
  <2>1. L - 0 = L /\ L \in 1 .. L
    BY <1>2
  <2>2. n \in Nat
    BY <1>3, <1>4, <2>1
  <2> QED BY <1>4, <2>1, <2>2
<1>6. ASSUME NEW d \in Nat, d \in S PROVE d + 1 \in S
  <2> DEFINE k == L - d
             h == L - (d + 1)
  <2> SUFFICES ASSUME d + 1 < L PROVE to(h) <= n
    OBVIOUS
  <2>1. k \in 1 .. L /\ h \in 1 .. L /\ k > 1 /\ k - 1 = h /\ to(k) <= n
    BY <1>2, <1>6
  <2> HIDE DEF k, h
  <2>2. from(k) = to(h) /\ from(k) <= to(k) /\ from(k) \in Nat /\ to(k) \in Nat
    BY <1>3, <1>4, <2>1
  <2> QED BY <1>5, <2>1, <2>2
<1>7. ASSUME NEW k \in 1 .. L PROVE to(k) <= n
  <2>1. \A d \in Nat : d \in S
    <3> HIDE DEF S
    <3> QED BY <1>5, <1>6, NaturalInduction
  <2>2. L - k \in Nat /\ L - k < L /\ L - (L - k) = k
    BY <1>2
  <2> QED BY <2>1, <2>2
<1> QED
  BY <1>2, <1>3, <1>5, <1>7 DEF L, from, to

\* Where the rows of a global batch begin, from the microbatches of a shard.
StartOf(mi, g) ==
  IF call.batching = "packing" THEN UpTo([c \in 1 .. Chunks |-> Last(mi[c])[2]], g - 1)
  ELSE (g - 1) * ShardSize

\* The rows of a shard go chunk after chunk, and the microbatches of each chunk
\* cover its rows.
InTurn(sh, mi, off) ==
  /\ off \in [0 .. Chunks -> Nat] /\ off[0] = 0 /\ off[Chunks] = Len(sh)
  /\ \A c \in 1 .. Chunks :
       /\ off[c - 1] <= off[c] /\ off[c] <= Len(sh)
       /\ \A k \in DOMAIN sh : off[c - 1] < k /\ k <= off[c] => ChunkOf(sh[k]) = c
       /\ ~Uneven => Covers(mi[c], off[c] - off[c - 1]) /\ StartOf(mi, c) = off[c - 1]

\* Sequences of one length end at its multiples.
Evenly(off, n, z) == \A k \in 0 .. n : off[k] = k * z

LEMMA EvenEnds ==
  ASSUME NEW D, NEW ss \in Seq(Seq(D)), NEW z \in Nat, \A b \in 1 .. Len(ss) : Len(ss[b]) = z,
         NEW f, NEW off, Flat(f, ss, off)
  PROVE  Evenly(off, Len(ss), z)
<1> DEFINE n == Len(ss)
           S == {k \in Nat : k <= n => off[k] = k * z}
<1>0. off[0] = 0 /\ \A b \in 1 .. n : off[b] = off[b - 1] + Len(ss[b])
  BY DEF Flat
<1>1. n \in Nat /\ off[0] = 0 /\ \A c \in 1 .. n : off[c] = off[c - 1] + z
  BY <1>0
<1> HIDE DEF n
<1>2. 0 \in S
  BY <1>1
<1>3. ASSUME NEW k \in Nat, k \in S PROVE k + 1 \in S
  <2> DEFINE h == k + 1
  <2> SUFFICES ASSUME h <= n PROVE off[h] = h * z
    OBVIOUS
  <2>1. h \in 1 .. n /\ h - 1 = k /\ off[k] = k * z /\ k * z \in Nat /\ h * z = k * z + z
    BY <1>1, <1>3
  <2> HIDE DEF h
  <2> QED BY <1>1, <2>1
<1>4. \A k \in Nat : k \in S
  <2> HIDE DEF S
  <2> QED BY <1>2, <1>3, NaturalInduction
<1> QED
  BY <1>1, <1>4 DEF n, Evenly

\* Shards that are made of pieces are so.
LEMMA PiecesInTurn ==
  ASSUME CallOK, NEW R, NEW ss \in Seq(Seq(R)), Len(ss) = Chunks,
         \A c \in 1 .. Chunks : \A k \in DOMAIN ss[c] : ChunkOf(ss[c][k]) = c,
         NEW mi, \A c \in 1 .. Chunks : ~Uneven => Covers(mi[c], Len(ss[c])),
         call.batching # "packing" /\ ~Uneven => \A c \in 1 .. Chunks : Len(ss[c]) = ShardSize,
         NEW f, NEW off, Flat(f, ss, off), f \in Seq(R)
  PROVE  InTurn(f, mi, off)
<1> DEFINE n == Chunks
<1>1. /\ n \in Nat /\ off \in [0 .. n -> Nat] /\ off[0] = 0 /\ DOMAIN ss = 1 .. n
      /\ DOMAIN f = 1 .. off[n] /\ DOMAIN f = 1 .. Len(f) /\ Len(f) \in Nat
      /\ \A c \in 1 .. n : off[c] = off[c - 1] + Len(ss[c]) /\ Len(ss[c]) \in Nat
  BY DEF Flat
<1>2. off[n] = Len(f)
  <2>1. off[n] \in Nat
    BY <1>1
  <2> QED BY <1>1, <2>1
<1>3. ASSUME NEW c \in 1 .. n
      PROVE  /\ off[c - 1] <= off[c] /\ off[c] <= Len(f)
             /\ off[c] - off[c - 1] = Len(ss[c])
  <2> DEFINE h == c - 1
  <2>1. h \in 0 .. n /\ c \in 0 .. n /\ n \in 0 .. n /\ h <= c /\ c <= n
    BY <1>1
  <2> HIDE DEF h
  <2>2. off[h] <= off[c] /\ off[c] <= off[n]
    BY <2>1, FlatGrows
  <2>3. off[c] = off[h] + Len(ss[c]) /\ Len(ss[c]) \in Nat /\ off[h] \in Nat /\ off[c] \in Nat
    <3>1. off[c] = off[h] + Len(ss[c]) /\ Len(ss[c]) \in Nat
      BY <1>1 DEF h
    <3> QED BY <1>1, <2>1, <3>1
  <2> DEFINE l == Len(ss[c])
  <2> HIDE DEF l
  <2>4. off[c] - off[h] = l
    BY <2>3 DEF l
  <2> QED BY <1>2, <2>2, <2>4 DEF h, l
<1>4. ASSUME NEW c \in 1 .. n, NEW k \in DOMAIN f, off[c - 1] < k, k <= off[c]
      PROVE  ChunkOf(f[k]) = c
  <2>1. PICK b \in DOMAIN ss : \E j \in DOMAIN ss[b] : PlaceOf(f, ss, off, k, b, j)
    BY Located, Zenon
  <2>2. PICK j \in DOMAIN ss[b] : f[k] = ss[b][j] /\ off[b - 1] < k /\ k <= off[b]
    BY <2>1 DEF PlaceOf
  <2>3. b \in 1 .. n /\ ChunkOf(f[k]) = b
    BY <1>1, <2>2
  <2>4. b = c
    <3> DEFINE p == b - 1
               q == c - 1
    <3>0. n \in Nat /\ b \in 1 .. n /\ c \in 1 .. n /\ k \in Nat
      <4>1. k \in 1 .. Len(f)
        BY <1>1
      <4> QED BY <1>1, <2>3, <4>1
    <3> HIDE DEF n
    <3>1. /\ p \in 0 .. n /\ q \in 0 .. n /\ b \in 0 .. n /\ c \in 0 .. n /\ k \in Nat
          /\ (b = c \/ c <= p \/ b <= q)
      BY <3>0
    <3> HIDE DEF p, q
    <3>2. off[p] \in Nat /\ off[q] \in Nat /\ off[b] \in Nat /\ off[c] \in Nat
      BY <1>1, <3>1
    <3>3. off[p] < k /\ k <= off[b] /\ off[q] < k /\ k <= off[c]
      BY <1>4, <2>2 DEF p, q
    <3>4. CASE c <= p
      <4>1. off[c] <= off[p]
        BY <3>1, <3>4, FlatGrows DEF n
      <4> QED BY <3>1, <3>2, <3>3, <4>1
    <3>5. CASE b <= q
      <4>1. off[b] <= off[q]
        BY <3>1, <3>5, FlatGrows DEF n
      <4> QED BY <3>1, <3>2, <3>3, <4>1
    <3> QED BY <3>1, <3>4, <3>5
  <2> QED BY <2>3, <2>4
<1>5. ASSUME ~Uneven PROVE \A c \in 1 .. n : StartOf(mi, c) = off[c - 1]
  <2>1. CASE call.batching = "packing"
    <3> DEFINE counts == [c \in 1 .. n |-> Last(mi[c])[2]]
    <3>1. \A c \in 1 .. n : Last(mi[c])[2] = Len(ss[c])
      BY <1>5 DEF Covers, Last
    <3>2. counts \in [1 .. n -> Nat] /\ \A c \in 1 .. n : counts[c] = Len(ss[c])
      BY <1>1, <3>1
    <3>3. \A c \in 1 .. n : StartOf(mi, c) = UpTo(counts, c - 1)
      BY <2>1 DEF StartOf
    <3> HIDE DEF counts
    <3>4. Totals(counts, off, n)
      BY <3>2, UpToEnds, Zenon
    <3>5. \A c \in 1 .. n : c - 1 \in 0 .. n
      BY <1>1
    <3> QED BY <3>3, <3>4, <3>5 DEF Totals
  <2>2. CASE call.batching # "packing"
    <3> DEFINE z == ShardSize
    <3>1. z \in Nat
      BY <1>5, QuotientIsNatural DEF CallOK, ShardSize
    <3>2. \A c \in 1 .. Len(ss) : Len(ss[c]) = z
      BY <1>5, <2>2
    <3> HIDE DEF z
    <3>3. Evenly(off, Len(ss), z)
      BY <3>1, <3>2, EvenEnds
    <3>4. ASSUME NEW c \in 1 .. n PROVE StartOf(mi, c) = off[c - 1]
      <4>1. c - 1 \in 0 .. Len(ss)
        BY <1>1
      <4>2. off[c - 1] = (c - 1) * z
        BY <3>3, <4>1 DEF Evenly
      <4> QED BY <2>2, <4>2 DEF StartOf, z
    <3> QED BY <3>4
  <2> QED BY <2>1, <2>2
<1> QED
  BY <1>1, <1>2, <1>3, <1>4, <1>5 DEF InTurn

\* A part of a piece is a part of the shard.
SameSlice(f, ss, off, b, x, y) ==
  SubSeq(f, off[b - 1] + x + 1, off[b - 1] + y) = SubSeq(ss[b], x + 1, y)

LEMMA PieceSlice ==
  ASSUME NEW D, NEW ss \in Seq(Seq(D)), NEW f \in Seq(D), NEW off, Flat(f, ss, off),
         NEW b \in DOMAIN ss, NEW x \in Nat, NEW y \in Nat, x <= y, y <= Len(ss[b])
  PROVE  SameSlice(f, ss, off, b, x, y)
<1> DEFINE o == off[b - 1]
           piece == ss[b]
           l == Len(piece)
           g == SubSeq(piece, x + 1, y)
<1>1. /\ b \in 1 .. Len(ss) /\ piece \in Seq(D) /\ l \in Nat /\ DOMAIN ss = 1 .. Len(ss)
      /\ Len(ss) \in Nat
  OBVIOUS
<1>2. o \in Nat /\ o + l <= Len(f)
  <2> DEFINE n == Len(ss)
  <2>1. b - 1 \in 0 .. n /\ b \in 0 .. n /\ n \in 0 .. n /\ b <= n
    BY <1>1
  <2>2. off[b] = o + l /\ off \in [0 .. n -> Nat] /\ DOMAIN f = 1 .. off[n]
    BY <1>1 DEF Flat
  <2>3. off[b] <= off[n]
    BY <2>1, FlatGrows
  <2>4. off[n] \in Nat /\ DOMAIN f = 1 .. Len(f) /\ Len(f) \in Nat
    BY <2>1, <2>2
  <2>5. off[n] = Len(f)
    BY <2>2, <2>4
  <2>6. o \in Nat /\ off[b] \in Nat
    BY <2>1, <2>2
  <2> QED BY <2>2, <2>3, <2>5, <2>6
<1>3. \A j \in 1 .. l : f[o + j] = piece[j]
  BY <1>1 DEF Flat
<1>4. g = [j \in 1 .. y - x |-> piece[x + j]]
  BY <1>1
<1>0. y <= l /\ l \in Nat
  BY <1>1
<1> HIDE DEF o, piece, l
<1>5. /\ \A j \in 1 .. y - x : x + j \in 1 .. l /\ (o + x) + j = o + (x + j)
      /\ o + x \in Nat /\ o + y \in Nat /\ o + x <= o + y /\ o + y <= Len(f)
      /\ (o + y) - (o + x) = y - x /\ y - x \in Nat
  BY <1>0, <1>2
<1>6. SubSeq(f, (o + x) + 1, o + y) = [j \in 1 .. y - x |-> f[(o + x) + j]]
  <2> DEFINE a == o + x
             z == o + y
  <2>1. a \in Nat /\ z \in Nat /\ a <= z /\ z <= Len(f) /\ z - a = y - x
    BY <1>5
  <2> HIDE DEF a, z
  <2>2. SubSeq(f, a + 1, z) = [j \in 1 .. z - a |-> f[a + j]]
    BY <2>1
  <2> QED BY <2>1, <2>2 DEF a, z
<1>7. \A j \in 1 .. y - x : f[(o + x) + j] = piece[x + j]
  BY <1>3, <1>5
<1>8. SubSeq(f, (o + x) + 1, o + y) = g
  BY <1>4, <1>6, <1>7
<1> QED
  BY <1>8 DEF o, piece, SameSlice

\* What Python's slice of it all is.
LEMMA WholeSlice ==
  ASSUME NEW D, NEW f \in Seq(D)
  PROVE  SubSeq(f, 0 + 1, Len(f)) = f
<1>1. SubSeq(f, 0 + 1, Len(f)) = [j \in 1 .. Len(f) |-> f[j]]
  OBVIOUS
<1> QED
  BY <1>1

\* Shorter sequences, fewer tokens.
NoLonger(lengths, f, sizes, g) ==
  Len(f) = Len(g) /\ \A j \in 1 .. Len(f) : lengths[f[j]] <= sizes[g[j]]

LEMMA TokensAtMost ==
  ASSUME NEW D, NEW E, NEW lengths \in [D -> Nat], NEW sizes \in [E -> Nat],
         NEW f \in Seq(D), NEW g \in Seq(E), NoLonger(lengths, f, sizes, g)
  PROVE  Tokens(lengths, f) <= Tokens(sizes, g)
<1> DEFINE S == {n \in Nat : \A u \in Seq(D) : \A v \in Seq(E) :
                   Len(u) = n /\ NoLonger(lengths, u, sizes, v)
                     => Tokens(lengths, u) <= Tokens(sizes, v)}
<1>1. 0 \in S
  <2> SUFFICES ASSUME NEW u \in Seq(D), NEW v \in Seq(E), Len(u) = 0,
                      NoLonger(lengths, u, sizes, v)
               PROVE  Tokens(lengths, u) <= Tokens(sizes, v)
    OBVIOUS
  <2>1. u = <<>> /\ v = <<>>
    BY DEF NoLonger
  <2>2. Tokens(lengths, <<>>) = 0 /\ Tokens(sizes, <<>>) = 0
    BY TokensOfNone
  <2> QED BY <2>1, <2>2
<1>2. ASSUME NEW n \in Nat, n \in S PROVE n + 1 \in S
  <2> SUFFICES ASSUME NEW u \in Seq(D), NEW v \in Seq(E), Len(u) = n + 1,
                      NoLonger(lengths, u, sizes, v)
               PROVE  Tokens(lengths, u) <= Tokens(sizes, v)
    OBVIOUS
  <2> DEFINE uf == Front(u)
             vf == Front(v)
             ul == Last(u)
             vl == Last(v)
  <2>1. Len(v) = n + 1 /\ \A j \in 1 .. n + 1 : lengths[u[j]] <= sizes[v[j]]
    BY DEF NoLonger
  <2>2. u # <<>> /\ v # <<>>
    BY <2>1
  <2>3. /\ uf \in Seq(D) /\ Len(uf) = n /\ ul \in D /\ u = Append(uf, ul)
        /\ vf \in Seq(E) /\ Len(vf) = n /\ vl \in E /\ v = Append(vf, vl)
    <3>1. /\ uf \in Seq(D) /\ Len(uf) = Len(u) - 1 /\ ul \in D /\ u = Append(uf, ul)
          /\ vf \in Seq(E) /\ Len(vf) = Len(v) - 1 /\ vl \in E /\ v = Append(vf, vl)
      BY <2>2, FrontAndLast
    <3>2. Len(u) - 1 = n /\ Len(v) - 1 = n
      BY <2>1
    <3> HIDE DEF uf, vf, ul, vl
    <3> QED BY <3>1, <3>2
  <2> HIDE DEF uf, vf, ul, vl
  <2>4. /\ u[n + 1] = ul /\ v[n + 1] = vl
        /\ \A j \in 1 .. n : u[j] = uf[j] /\ v[j] = vf[j]
    BY <2>3
  <2>5. NoLonger(lengths, uf, sizes, vf)
    <3>1. \A j \in 1 .. n : j \in 1 .. n + 1
      OBVIOUS
    <3> QED BY <2>1, <2>3, <2>4, <3>1 DEF NoLonger
  <2>6. Tokens(lengths, uf) <= Tokens(sizes, vf)
    BY <1>2, <2>3, <2>5
  <2>7. lengths[ul] <= sizes[vl] /\ lengths[ul] \in Nat /\ sizes[vl] \in Nat
    <3>1. n + 1 \in 1 .. n + 1
      OBVIOUS
    <3>2. lengths[u[n + 1]] <= sizes[v[n + 1]]
      BY <2>1, <3>1
    <3> QED BY <2>3, <2>4, <3>2
  <2>8. /\ Tokens(lengths, uf) \in Nat /\ Tokens(lengths, u) = Tokens(lengths, uf) + lengths[ul]
        /\ Tokens(sizes, vf) \in Nat /\ Tokens(sizes, v) = Tokens(sizes, vf) + sizes[vl]
    BY <2>3, TokensOfMore
  <2> DEFINE a == Tokens(lengths, uf)
             b == Tokens(sizes, vf)
             x == lengths[ul]
             y == sizes[vl]
  <2>9. a \in Nat /\ b \in Nat /\ x \in Nat /\ y \in Nat /\ a <= b /\ x <= y
    BY <2>6, <2>7, <2>8
  <2>10. Tokens(lengths, u) = a + x /\ Tokens(sizes, v) = b + y
    BY <2>8
  <2> HIDE DEF a, b, x, y
  <2> QED BY <2>9, <2>10
<1>3. Len(f) \in S
  <2>1. \A n \in Nat : n \in S
    <3> HIDE DEF S
    <3> QED BY <1>1, <1>2, NaturalInduction
  <2> QED BY <2>1
<1> QED
  BY <1>3

\* Rows that are no longer than w have at most w tokens each.
LEMMA TokensWithin ==
  ASSUME NEW D, NEW lengths \in [D -> Nat], NEW w \in Nat, NEW f \in Seq(D),
         \A j \in 1 .. Len(f) : lengths[f[j]] <= w
  PROVE  Tokens(lengths, f) <= Len(f) * w
<1> DEFINE S == {n \in Nat : \A u \in Seq(D) :
                   Len(u) = n /\ (\A j \in 1 .. n : lengths[u[j]] <= w)
                     => Tokens(lengths, u) <= n * w}
<1>1. 0 \in S
  <2> SUFFICES ASSUME NEW u \in Seq(D), Len(u) = 0 PROVE Tokens(lengths, u) <= 0 * w
    OBVIOUS
  <2>1. u = <<>>
    OBVIOUS
  <2> QED BY <2>1, TokensOfNone
<1>2. ASSUME NEW n \in Nat, n \in S PROVE n + 1 \in S
  <2> SUFFICES ASSUME NEW u \in Seq(D), Len(u) = n + 1,
                      \A j \in 1 .. n + 1 : lengths[u[j]] <= w
               PROVE  Tokens(lengths, u) <= (n + 1) * w
    OBVIOUS
  <2> DEFINE uf == Front(u)
             ul == Last(u)
  <2>1. uf \in Seq(D) /\ Len(uf) = n /\ ul \in D /\ u = Append(uf, ul)
    <3>1. u # <<>>
      OBVIOUS
    <3>2. uf \in Seq(D) /\ Len(uf) = Len(u) - 1 /\ ul \in D /\ u = Append(uf, ul)
      BY <3>1, FrontAndLast
    <3> QED BY <3>2
  <2> HIDE DEF uf, ul
  <2>2. u[n + 1] = ul /\ \A j \in 1 .. n : u[j] = uf[j]
    BY <2>1
  <2>3. Tokens(lengths, uf) <= n * w
    <3>1. \A j \in 1 .. n : lengths[uf[j]] <= w
      BY <2>2
    <3> QED BY <1>2, <2>1, <3>1
  <2>4. lengths[ul] <= w /\ lengths[ul] \in Nat
    <3>1. n + 1 \in 1 .. n + 1
      OBVIOUS
    <3> QED BY <2>1, <2>2, <3>1
  <2>5. /\ Tokens(lengths, uf) \in Nat /\ Tokens(lengths, u) = Tokens(lengths, uf) + lengths[ul]
    BY <2>1, TokensOfMore
  <2> DEFINE a == Tokens(lengths, uf)
             x == lengths[ul]
             b == n * w
  <2>6. a \in Nat /\ b \in Nat /\ x \in Nat /\ a <= b /\ x <= w /\ (n + 1) * w = b + w
    BY <2>3, <2>4, <2>5
  <2>7. Tokens(lengths, u) = a + x
    BY <2>5
  <2> HIDE DEF a, b, x
  <2> QED BY <2>6, <2>7
<1>3. Len(f) \in S
  <2>1. \A n \in Nat : n \in S
    <3> HIDE DEF S
    <3> QED BY <1>1, <1>2, NaturalInduction
  <2> QED BY <2>1
<1> QED
  BY <1>3

\* Padding makes a sequence no shorter.
LEMMA PaddedAtLeast ==
  ASSUME NEW i \in Nat
  PROVE  i <= Padded(i) /\ Padded(i) \in Nat
<1> DEFINE M == Multiple
           n == i + M - 1
           x == n \div M
<1>1. M \in Nat \ {0} /\ n \in Nat /\ Padded(i) = x * M
  BY PackingAssumption DEF Padded
<1> HIDE DEF M
<1>2. n = x * M + (n % M) /\ n % M \in 0 .. (M - 1) /\ x \in Nat
  BY <1>1
<1> HIDE DEF x
<1>3. x * M \in Nat
  BY <1>1, <1>2
<1> DEFINE p == x * M
           r == n % M
<1>4. i + M - 1 = p + r /\ r \in 0 .. (M - 1) /\ p \in Nat
  BY <1>2, <1>3
<1> HIDE DEF p, r
<1>5. i <= p
  BY <1>1, <1>4
<1> QED
  BY <1>1, <1>4, <1>5 DEF p

\* The rows of a microbatch, from the shard and its microbatches.
MicroOf(sh, mi, g, k) ==
  SubSeq(sh, StartOf(mi, g) + mi[g][k][1] + 1, StartOf(mi, g) + mi[g][k][2])

IsMicro(f, mi, piece, c, k) == MicroOf(f, mi, c, k) = SubSeq(piece, mi[c][k][1] + 1, mi[c][k][2])

LEMMA MicroOfPiece ==
  ASSUME NEW D, NEW ss \in Seq(Seq(D)), NEW f \in Seq(D), NEW off, Flat(f, ss, off),
         NEW mi, InTurn(f, mi, off), ~Uneven, Len(ss) = Chunks,
         NEW c \in 1 .. Chunks, Covers(mi[c], Len(ss[c])), NEW k \in 1 .. Len(mi[c])
  PROVE  IsMicro(f, mi, ss[c], c, k)
<1> DEFINE x == mi[c][k][1]
           y == mi[c][k][2]
<1>1. x \in Nat /\ y \in Nat /\ y <= Len(ss[c])
  BY CoversWithin
<1>2. x <= y
  BY DEF Covers
<1>3. StartOf(mi, c) = off[c - 1] /\ c \in DOMAIN ss
  BY DEF InTurn
<1> HIDE DEF x, y
<1>4. SameSlice(f, ss, off, c, x, y)
  BY <1>1, <1>2, <1>3, PieceSlice
<1> QED
  BY <1>3, <1>4 DEF MicroOf, IsMicro, SameSlice, x, y

LEMMA BinTokens ==
  ASSUME AllPacked, NEW c \in 1 .. Chunks, NEW s \in Shards, NEW k \in DOMAIN Dealt(c, s)
  PROVE  Tokens(length, Dealt(c, s)[k]) <= Capacity
<1> DEFINE bin == packed[c][BinOf(s, k)]
           rows == Dealt(c, s)[k]
           sizes == ChunkSizes(c)
<1>1. /\ CallOK /\ length \in [1 .. Rows -> Lengths] /\ Rows % Batch = 0
      /\ Filled(ChunkSizes(c), call.shards, packed[c])
  BY DEF AllPacked
<1>2. BinOf(s, k) \in DOMAIN packed[c] /\ rows = GlobalRows(c, bin)
  BY <1>1, DealtBins
<1>3. /\ sizes \in [Items -> Nat] /\ bin \in Seq(Items) /\ Tokens(sizes, bin) <= Capacity
  <2>1. /\ sizes \in [Items -> Nat] /\ packed[c] \in Seq(Seq(Items))
        /\ \A b \in DOMAIN packed[c] : Tokens(sizes, packed[c][b]) <= Capacity
    BY ChunkBins
  <2> HIDE DEF sizes
  <2> QED BY <1>2, <2>1
<1>4. rows \in Seq(1 .. Rows)
  BY DealtRows
<1>5. length \in [1 .. Rows -> Nat]
  BY <1>1, DispatchAssumption
<1>6. DOMAIN rows = DOMAIN bin /\ \A j \in DOMAIN bin : rows[j] = bin[j] + (c - 1) * Batch
  BY <1>2 DEF GlobalRows
<1>7. ASSUME NEW i \in Items
      PROVE  length[i + (c - 1) * Batch] <= sizes[i]
  <2> DEFINE r == (c - 1) * Batch + i
  <2>1. (c - 1) * Batch \in Nat /\ r \in 1 .. Rows /\ i \in Nat
    <3>1. (c - 1) * Batch \in Nat /\ r \in 1 .. Rows
      BY <1>1, ChunkRows
    <3> QED BY <1>1, <3>1 DEF Items, CallOK
  <2>2. i + (c - 1) * Batch = r
    BY <2>1
  <2>3. sizes[i] = Padded(length[r])
    BY DEF ChunkSizes, Items
  <2>4. length[r] \in Nat
    BY <1>5, <2>1
  <2> HIDE DEF r, sizes
  <2>5. length[r] <= Padded(length[r])
    BY <2>4, PaddedAtLeast
  <2> QED BY <2>2, <2>3, <2>5
<1> HIDE DEF rows, bin, sizes
<1>8. NoLonger(length, rows, sizes, bin)
  <2>1. Len(rows) = Len(bin) /\ DOMAIN bin = 1 .. Len(rows)
    BY <1>3, <1>4, <1>6
  <2>2. ASSUME NEW j \in 1 .. Len(rows) PROVE length[rows[j]] <= sizes[bin[j]]
    <3>1. bin[j] \in Items /\ rows[j] = bin[j] + (c - 1) * Batch
      BY <1>3, <1>6, <2>1
    <3> QED BY <1>7, <3>1
  <2> QED BY <2>1, <2>2 DEF NoLonger
<1>9. Tokens(length, rows) <= Tokens(sizes, bin)
  BY <1>3, <1>4, <1>5, <1>8, TokensAtMost, Zenon
<1>10. Tokens(length, rows) \in Nat /\ Tokens(sizes, bin) \in Nat /\ Capacity \in Nat
  <2>1. 1 \in 1 .. Rows /\ 1 \in Items
    BY <1>1, DispatchAssumption DEF CallOK, Items
  <2> QED BY <1>3, <1>4, <1>5, <2>1, TokensOfMore, PackingAssumption
<1>11. Tokens(length, rows) <= Capacity
  BY <1>3, <1>9, <1>10
<1> QED
  BY <1>11 DEF rows

\* The microbatches of a chunk are the bins dealt.
BinPairs(c, s) == Consecutive([k \in DOMAIN Dealt(c, s) |-> Len(Dealt(c, s)[k])])

LEMMA BinMicro ==
  ASSUME AllPacked, NEW c \in 1 .. Chunks, NEW s \in Shards
  PROVE  /\ Covers(BinPairs(c, s), Len(BinPiece(c, s)))
         /\ DOMAIN BinPairs(c, s) = DOMAIN Dealt(c, s)
         /\ \A k \in DOMAIN Dealt(c, s) :
              SubSeq(BinPiece(c, s), BinPairs(c, s)[k][1] + 1, BinPairs(c, s)[k][2])
                = Dealt(c, s)[k]
<1> DEFINE ss == Dealt(c, s)
           f == BinPiece(c, s)
           pairs == BinPairs(c, s)
           n == Len(ss)
<1>1. ss \in Seq(Seq(1 .. Rows)) /\ ss # <<>>
  BY DealtRows
<1>2. f \in Seq(1 .. Rows) /\ \E off : Flat(f, ss, off)
  BY <1>1, Flattens DEF BinPiece
<1>3. PICK off : Flat(f, ss, off)
  BY <1>2
<1> HIDE DEF ss, f
<1>4. pairs = [k \in 1 .. n |-> <<off[k - 1], off[k]>>] /\ Covers(pairs, off[n]) /\ Len(pairs) = n
  <2>1. pairs = Consecutive([k \in DOMAIN ss |-> Len(ss[k])])
    BY DEF BinPairs, ss
  <2> HIDE DEF pairs
  <2> QED BY <1>1, <1>3, <2>1, ConsecutiveCovers
<1>5. n \in Nat /\ DOMAIN ss = 1 .. n
  BY <1>1
<1>6. Len(f) = off[n]
  <2>1. off[n] \in Nat /\ DOMAIN f = 1 .. off[n]
    BY <1>3, <1>5 DEF Flat
  <2>2. DOMAIN f = 1 .. Len(f) /\ Len(f) \in Nat
    BY <1>2
  <2> HIDE DEF n
  <2> QED BY <2>1, <2>2
<1>7. ASSUME NEW k \in DOMAIN ss
      PROVE  SubSeq(f, pairs[k][1] + 1, pairs[k][2]) = ss[k]
  <2> DEFINE l == Len(ss[k])
             o == off[k - 1]
  <2>1. k \in 1 .. n /\ ss[k] \in Seq(1 .. Rows) /\ l \in Nat
    BY <1>1, <1>5
  <2>2. off[k] = o + l /\ o \in Nat
    <3>1. off[k] = off[k - 1] + Len(ss[k])
      BY <1>3, <2>1 DEF Flat
    <3>2. k - 1 \in 0 .. n
      BY <1>5, <2>1
    <3> QED BY <1>3, <3>1, <3>2 DEF Flat
  <2>3. pairs[k] = <<off[k - 1], off[k]>>
    BY <1>4, <2>1
  <2>4. SubSeq(f, o + 0 + 1, o + l) = SubSeq(ss[k], 0 + 1, l)
    <3>1. 0 \in Nat /\ 0 <= l /\ l <= Len(ss[k])
      BY <2>1
    <3> HIDE DEF l
    <3>2. SameSlice(f, ss, off, k, 0, l)
      BY <1>1, <1>2, <1>3, <2>1, <3>1, PieceSlice
    <3> QED BY <3>2 DEF SameSlice, l
  <2>5. SubSeq(ss[k], 0 + 1, l) = ss[k]
    BY <2>1, WholeSlice
  <2>6. o + 0 + 1 = o + 1
    BY <2>2
  <2> HIDE DEF o, l
  <2>7. SubSeq(f, o + 1, o + l) = ss[k]
    BY <2>4, <2>5, <2>6
  <2>8. pairs[k][1] = o /\ pairs[k][2] = o + l
    BY <2>2, <2>3 DEF o
  <2> QED BY <2>7, <2>8
<1>8. DOMAIN pairs = DOMAIN ss
  BY <1>4, <1>5
<1> QED
  BY <1>4, <1>6, <1>7, <1>8 DEF ss, f

\* The microbatches of a chunk are not empty and within the tokens allowed.
InTokens(sh, mi, c) ==
  /\ mi[c] # <<>>
  /\ \A k \in DOMAIN mi[c] :
       MicroOf(sh, mi, c, k) # <<>> /\ Tokens(length, MicroOf(sh, mi, c, k)) <= Capacity

\* What every way of batching makes of the rows: the shards part the rows among
\* them, chunk after chunk, and their microbatches cover them.
Layout(sh, mi) ==
  /\ sh \in Seq(Seq(1 .. Rows)) /\ DOMAIN sh = Shards /\ Apart(sh) /\ Held(sh) = 1 .. Rows
  /\ DOMAIN mi = Shards
  /\ \A s \in Shards : \E off : InTurn(sh[s], mi[s], off)
  /\ call.batching # "plain" => \A s \in Shards : \A c \in 1 .. Chunks : InTokens(sh[s], mi[s], c)

BinShards == [s \in Shards |-> FlattenSeq([c \in 1 .. Chunks |-> BinPiece(c, s)])]

BinMicros == [s \in Shards |-> [c \in 1 .. Chunks |-> BinPairs(c, s)]]

LEMMA BinLayout ==
  ASSUME AllPacked, ~Uneven, call.batching = "packing"
  PROVE  Layout(BinShards, BinMicros)
<1> DEFINE sh == BinShards
           mi == BinMicros
           P == BinPieces
           m == call.shards
           n == Chunks
<1>1. /\ P \in [Shards -> Seq(Seq(1 .. Rows))] /\ \A s \in Shards : Len(P[s]) = n
      /\ OnePieceEach(P, m, n, 1 .. Rows)
      /\ \A s \in Shards : \A c \in 1 .. n : \A k \in DOMAIN P[s][c] : ChunkOf(P[s][c][k]) = c
  BY BinPiecesPart
<1>2. m \in Nat \ {0} /\ n \in Nat /\ Shards = 1 .. m /\ CallOK
  <2>1. CallOK /\ Rows \in Nat
    BY DispatchAssumption DEF AllPacked
  <2> QED BY <2>1, QuotientIsNatural DEF CallOK, Chunks, Shards
<1>3. sh = [s \in 1 .. m |-> FlattenSeq(P[s])]
  <2>1. \A s \in Shards : P[s] = [c \in 1 .. n |-> BinPiece(c, s)]
    BY DEF BinPieces
  <2> QED BY <1>2, <2>1 DEF BinShards
<1>4. sh \in Seq(Seq(1 .. Rows)) /\ Apart(sh) /\ Held(sh) = 1 .. Rows
  <2> HIDE DEF P, m, n
  <2>1. Parted(Joined(P, m), 1 .. Rows)
    BY <1>1, <1>2, ShardsPart
  <2> QED BY <1>3, <2>1 DEF Parted, Joined
<1>5. DOMAIN sh = Shards /\ DOMAIN mi = Shards
  BY DEF BinShards, BinMicros
<1>6. ASSUME NEW s \in Shards
      PROVE  /\ \E off : InTurn(sh[s], mi[s], off)
             /\ \A c \in 1 .. n : InTokens(sh[s], mi[s], c)
  <2> DEFINE ss == P[s]
             f == sh[s]
             ms == mi[s]
  <2>1. ss \in Seq(Seq(1 .. Rows)) /\ Len(ss) = n
    BY <1>1
  <2>2. f = FlattenSeq(ss)
    BY <1>2, <1>3
  <2>3. \A c \in 1 .. n : ss[c] = BinPiece(c, s) /\ ms[c] = BinPairs(c, s)
    BY DEF BinPieces, BinMicros
  <2>4. \A c \in 1 .. n : \A k \in DOMAIN ss[c] : ChunkOf(ss[c][k]) = c
    BY <1>1
  <2> HIDE DEF ss, f, ms
  <2>5. f \in Seq(1 .. Rows) /\ \E off : Flat(f, ss, off)
    BY <2>1, <2>2, Flattens
  <2>6. PICK off : Flat(f, ss, off)
    BY <2>5
  <2>7. ASSUME NEW c \in 1 .. n
        PROVE  /\ Covers(ms[c], Len(ss[c])) /\ DOMAIN ms[c] = DOMAIN Dealt(c, s)
               /\ \A k \in DOMAIN Dealt(c, s) :
                    SubSeq(ss[c], ms[c][k][1] + 1, ms[c][k][2]) = Dealt(c, s)[k]
    BY <2>3, BinMicro
  <2>8. InTurn(f, ms, off)
    <3>1. \A c \in 1 .. n : ~Uneven => Covers(ms[c], Len(ss[c]))
      BY <2>7
    <3>2. call.batching # "packing" /\ ~Uneven => \A c \in 1 .. Chunks : Len(ss[c]) = ShardSize
      OBVIOUS
    <3> QED BY <1>2, <2>1, <2>4, <2>5, <2>6, <3>1, <3>2, PiecesInTurn
  <2>9. ASSUME NEW c \in 1 .. n PROVE InTokens(f, ms, c)
    <3>1. Covers(ms[c], Len(ss[c])) /\ DOMAIN ms[c] = DOMAIN Dealt(c, s)
      BY <2>7
    <3>2. ASSUME NEW k \in DOMAIN ms[c]
          PROVE  /\ MicroOf(f, ms, c, k) # <<>>
                 /\ Tokens(length, MicroOf(f, ms, c, k)) <= Capacity
      <4>1. k \in 1 .. Len(ms[c])
        BY <3>1, CoversWithin
      <4>2. MicroOf(f, ms, c, k) = SubSeq(ss[c], ms[c][k][1] + 1, ms[c][k][2])
        <5>1. IsMicro(f, ms, ss[c], c, k)
          BY <2>1, <2>5, <2>6, <2>8, <3>1, <4>1, MicroOfPiece
        <5> QED BY <5>1 DEF IsMicro
      <4>3. MicroOf(f, ms, c, k) = Dealt(c, s)[k] /\ k \in DOMAIN Dealt(c, s)
        BY <2>7, <3>1, <4>2
      <4>4. Dealt(c, s)[k] # <<>> /\ Tokens(length, Dealt(c, s)[k]) <= Capacity
        BY <4>3, DealtRows, BinTokens
      <4> QED BY <4>3, <4>4
    <3>3. ms[c] # <<>>
      BY <3>1 DEF Covers
    <3> QED BY <3>2, <3>3 DEF InTokens
  <2> QED BY <2>8, <2>9 DEF f, ms
<1> QED
  BY <1>4, <1>5, <1>6 DEF Layout

-----------------------------------------------------------------------------
(* The members of a set in order *)

StrictOrder(S, before) ==
  /\ \A x, y \in S : ~(<<x, y>> \in before /\ <<y, x>> \in before)
  /\ \A x, y, z \in S : <<x, y>> \in before /\ <<y, z>> \in before => <<x, z>> \in before
  /\ \A x, y \in S : x = y \/ <<x, y>> \in before \/ <<y, x>> \in before

\* The number of members before x.
Rank(S, before, x) == Cardinality({y \in S : <<y, x>> \in before})

LEMMA RankGrows ==
  ASSUME NEW S, IsFiniteSet(S), NEW before, StrictOrder(S, before), NEW x \in S
  PROVE  /\ Rank(S, before, x) \in 0 .. (Cardinality(S) - 1)
         /\ \A y \in S : <<x, y>> \in before => Rank(S, before, x) < Rank(S, before, y)
<1> DEFINE B(y) == {z \in S : <<z, y>> \in before}
<1>1. ASSUME NEW y \in S
      PROVE  /\ B(y) \in SUBSET S /\ IsFiniteSet(B(y)) /\ Cardinality(B(y)) \in Nat
             /\ Rank(S, before, y) = Cardinality(B(y))
  <2>1. B(y) \in SUBSET S
    OBVIOUS
  <2>2. Rank(S, before, y) = Cardinality(B(y))
    BY DEF Rank
  <2> HIDE DEF B
  <2>3. IsFiniteSet(B(y))
    BY <2>1, FS_Subset
  <2> QED BY <2>1, <2>2, <2>3, FS_CardinalityType
<1>2. Rank(S, before, x) \in 0 .. (Cardinality(S) - 1)
  <2>1. x \notin B(x)
    BY DEF StrictOrder
  <2> HIDE DEF B
  <2>2. Cardinality(B(x)) <= Cardinality(S) /\ Cardinality(B(x)) # Cardinality(S)
    BY <1>1, <2>1, FS_Subset
  <2>3. Cardinality(S) \in Nat
    BY FS_CardinalityType
  <2> QED BY <1>1, <2>2, <2>3
<1>3. ASSUME NEW y \in S, <<x, y>> \in before
      PROVE  Rank(S, before, x) < Rank(S, before, y)
  <2>1. B(x) \in SUBSET B(y) /\ x \in B(y) /\ x \notin B(x)
    BY <1>3 DEF StrictOrder
  <2> HIDE DEF B
  <2>2. Cardinality(B(x)) <= Cardinality(B(y)) /\ Cardinality(B(x)) # Cardinality(B(y))
    BY <1>1, <2>1, FS_Subset
  <2> QED BY <1>1, <2>2
<1> QED
  BY <1>2, <1>3

LEMMA RanksDiffer ==
  ASSUME NEW S, IsFiniteSet(S), NEW before, StrictOrder(S, before),
         NEW x \in S, NEW y \in S, Rank(S, before, x) = Rank(S, before, y)
  PROVE  x = y
<1>1. Rank(S, before, x) \in Int
  BY RankGrows
<1>2. ~(<<x, y>> \in before) /\ ~(<<y, x>> \in before)
  <2>1. ASSUME <<x, y>> \in before PROVE FALSE
    <3>1. Rank(S, before, x) < Rank(S, before, y)
      BY <2>1, RankGrows
    <3> QED BY <1>1, <3>1
  <2>2. ASSUME <<y, x>> \in before PROVE FALSE
    <3>1. Rank(S, before, y) < Rank(S, before, x)
      BY <2>2, RankGrows
    <3> QED BY <1>1, <3>1
  <2> QED BY <2>1, <2>2
<1> QED
  BY <1>2 DEF StrictOrder

\* Every number of members that may be before one is before one.
LEMMA SomeRank ==
  ASSUME NEW S, IsFiniteSet(S), NEW before, StrictOrder(S, before),
         NEW k \in 1 .. Cardinality(S)
  PROVE  \E x \in S : Rank(S, before, x) = k - 1
<1> DEFINE n == Cardinality(S)
           rank == [x \in S |-> Rank(S, before, x) + 1]
<1>1. n \in Nat
  BY FS_CardinalityType
<1>2. rank \in [S -> 1 .. n]
  <2>1. ASSUME NEW x \in S PROVE Rank(S, before, x) + 1 \in 1 .. n
    <3>1. Rank(S, before, x) \in 0 .. (n - 1)
      BY RankGrows
    <3> HIDE DEF n
    <3> QED BY <1>1, <3>1
  <2> QED BY <2>1
<1>3. \A x, y \in S : rank[x] = rank[y] => x = y
  <2> SUFFICES ASSUME NEW x \in S, NEW y \in S, rank[x] = rank[y] PROVE x = y
    OBVIOUS
  <2>1. Rank(S, before, x) \in Int /\ Rank(S, before, y) \in Int
    BY RankGrows
  <2>2. Rank(S, before, x) = Rank(S, before, y)
    BY <2>1
  <2> QED BY <2>2, RanksDiffer
<1>4. rank \in Injection(S, 1 .. n)
  <2> HIDE DEF rank
  <2> QED BY <1>2, <1>3 DEF Injection, IsInjective
<1>5. IsFiniteSet(1 .. n) /\ Cardinality(1 .. n) = n
  <2>1. IsFiniteSet(1 .. n) /\ Cardinality(1 .. n) = IF 1 > n THEN 0 ELSE n - 1 + 1
    BY <1>1, FS_Interval
  <2> QED BY <1>1, <2>1
<1>6. rank \in Surjection(S, 1 .. n)
  <2> HIDE DEF rank
  <2> QED BY <1>4, <1>5, FS_Injection
<1>7. PICK x \in S : rank[x] = k
  <2> HIDE DEF rank
  <2> QED BY <1>6 DEF Surjection
<1>8. Rank(S, before, x) + 1 = k /\ Rank(S, before, x) \in Int
  BY <1>7, RankGrows
<1>9. Rank(S, before, x) = k - 1
  BY <1>8
<1> QED
  BY <1>9

\* The order of the members is complete.
Listed(f, S) == f \in Seq(S) /\ Len(f) = Cardinality(S) /\ OnceEach(f) /\ Range(f) = S

LEMMA InOrderLists ==
  ASSUME NEW S, IsFiniteSet(S), NEW before, StrictOrder(S, before)
  PROVE  /\ Listed(InOrder(S, before), S)
         /\ \A k \in 1 .. Cardinality(S) : Rank(S, before, InOrder(S, before)[k]) = k - 1
<1> DEFINE n == Cardinality(S)
           f == InOrder(S, before)
<1>1. n \in Nat
  BY FS_CardinalityType
<1>2. ASSUME NEW k \in 1 .. n
      PROVE  f[k] \in S /\ Rank(S, before, f[k]) = k - 1
  <2>1. f[k] = CHOOSE x \in S : Cardinality({y \in S : <<y, x>> \in before}) = k - 1
    BY DEF InOrder
  <2>2. \E x \in S : Cardinality({y \in S : <<y, x>> \in before}) = k - 1
    BY SomeRank DEF Rank
  <2> HIDE DEF f
  <2>3. f[k] \in S /\ Cardinality({y \in S : <<y, f[k]>> \in before}) = k - 1
    BY <2>1, <2>2
  <2> QED BY <2>3 DEF Rank
<1>3. f = [k \in 1 .. n |-> f[k]]
  <2> DEFINE member(k) == CHOOSE x \in S : Cardinality({y \in S : <<y, x>> \in before}) = k - 1
  <2>1. f = [k \in 1 .. n |-> member(k)]
    BY DEF InOrder
  <2> HIDE DEF f, n, member
  <2> QED BY <2>1
<1> HIDE DEF f, n
<1>4. f \in Seq(S) /\ Len(f) = n /\ DOMAIN f = 1 .. n
  <2>1. f \in [1 .. n -> S]
    BY <1>2, <1>3
  <2> QED BY <1>1, <2>1
<1>5. OnceEach(f)
  <2> SUFFICES ASSUME NEW k \in 1 .. n, NEW l \in 1 .. n, f[k] = f[l] PROVE k = l
    BY <1>4 DEF OnceEach
  <2>1. k - 1 = l - 1
    BY <1>2
  <2> QED BY <2>1
<1>6. ASSUME NEW x \in S PROVE \E k \in 1 .. n : f[k] = x
  <2> DEFINE k == Rank(S, before, x) + 1
  <2>1. Rank(S, before, x) \in 0 .. (n - 1)
    BY RankGrows DEF n
  <2>2. k \in 1 .. n /\ k - 1 = Rank(S, before, x)
    BY <1>1, <2>1
  <2> HIDE DEF k
  <2>3. f[k] \in S /\ Rank(S, before, f[k]) = Rank(S, before, x)
    BY <1>2, <2>2
  <2>4. f[k] = x
    BY <2>3, RanksDiffer
  <2> QED BY <2>2, <2>4
<1>7. Range(f) = S
  BY <1>2, <1>4, <1>6 DEF Range
<1> QED
  BY <1>2, <1>4, <1>5, <1>7 DEF Listed, f, n

-----------------------------------------------------------------------------
(* A sequence cut into slices *)

\* Quotient and remainder are unique.
LEMMA DivisionIsUnique ==
  ASSUME NEW m \in Nat \ {0}, NEW x \in Nat, NEW y \in Nat,
         NEW i \in 0 .. (m - 1), NEW j \in 0 .. (m - 1), x * m + i = y * m + j
  PROVE  x = y /\ i = j
<1>1. (x * m + i) \div m = x /\ (x * m + i) % m = i
  OBVIOUS
<1>2. (y * m + j) \div m = y /\ (y * m + j) % m = j
  OBVIOUS
<1> QED
  BY <1>1, <1>2

\* A list of different members that is long enough has them all.
LEMMA FullList ==
  ASSUME NEW S, IsFiniteSet(S), NEW f \in Seq(S), OnceEach(f)
  PROVE  Len(f) = Cardinality(S) <=> Range(f) = S
<1> DEFINE n == Len(f)
<1>1. n \in Nat /\ f \in [1 .. n -> S] /\ DOMAIN f = 1 .. n
  OBVIOUS
<1>2. IsFiniteSet(1 .. n) /\ Cardinality(1 .. n) = n
  <2>1. IsFiniteSet(1 .. n) /\ Cardinality(1 .. n) = IF 1 > n THEN 0 ELSE n - 1 + 1
    BY <1>1, FS_Interval
  <2> QED BY <1>1, <2>1
<1> HIDE DEF n
<1>3. f \in Injection(1 .. n, S)
  BY <1>1 DEF OnceEach, Injection, IsInjective
<1>4. Cardinality(1 .. n) = Cardinality(S) <=> f \in Surjection(1 .. n, S)
  BY <1>3, FS_Injection
<1>5. f \in Surjection(1 .. n, S) <=> Range(f) = S
  BY <1>1 DEF Surjection, Range
<1> QED
  BY <1>2, <1>4, <1>5 DEF n

\* The numbers up to n, and how many they are.
LEMMA CountUpTo ==
  ASSUME NEW n \in Nat
  PROVE  IsFiniteSet(1 .. n) /\ Cardinality(1 .. n) = n
<1>1. IsFiniteSet(1 .. n) /\ Cardinality(1 .. n) = IF 1 > n THEN 0 ELSE n - 1 + 1
  BY FS_Interval
<1> QED
  BY <1>1

\* f is cut at off.
Sliced(f, ss, off) ==
  /\ off \in [0 .. Len(ss) -> Nat] /\ off[0] = 0 /\ off[Len(ss)] = Len(f)
  /\ \A b \in 1 .. Len(ss) : off[b - 1] <= off[b] /\ ss[b] = SubSeq(f, off[b - 1] + 1, off[b])

\* A slice has the places between its ends.
LEMMA SliceLength ==
  ASSUME NEW D, NEW f \in Seq(D), NEW a \in Nat, NEW b \in Nat, a <= b, b <= Len(f)
  PROVE  /\ SubSeq(f, a + 1, b) \in Seq(D) /\ Len(SubSeq(f, a + 1, b)) = b - a
         /\ \A j \in 1 .. b - a : SubSeq(f, a + 1, b)[j] = f[a + j] /\ a + j \in 1 .. Len(f)
<1>1. SubSeq(f, a + 1, b) = [j \in 1 .. b - a |-> f[a + j]]
  OBVIOUS
<1>2. b - a \in Nat /\ \A j \in 1 .. b - a : a + j \in 1 .. Len(f)
  OBVIOUS
<1> QED
  BY <1>1, <1>2

PartOf(g, D, f, a, b) ==
  /\ g \in Seq(D) /\ Len(g) = b - a
  /\ \A j \in 1 .. b - a : g[j] = f[a + j] /\ a + j \in 1 .. Len(f)

LEMMA SlicePart ==
  ASSUME NEW D, NEW f \in Seq(D), NEW a \in Nat, NEW b \in Nat, a <= b, b <= Len(f),
         NEW g, g = SubSeq(f, a + 1, b)
  PROVE  PartOf(g, D, f, a, b)
<1>1. /\ SubSeq(f, a + 1, b) \in Seq(D) /\ Len(SubSeq(f, a + 1, b)) = b - a
      /\ \A j \in 1 .. b - a : SubSeq(f, a + 1, b)[j] = f[a + j] /\ a + j \in 1 .. Len(f)
  BY SliceLength, Zenon
<1> QED
  BY <1>1, Zenon DEF PartOf

\* The ends come one after another.
LEMMA EndsWithin ==
  ASSUME NEW n \in Nat, NEW off \in [0 .. n -> Nat], \A b \in 1 .. n : off[b - 1] <= off[b]
  PROVE  \A b \in 0 .. n : off[b] <= off[n]
<1> DEFINE S == {d \in Nat : d <= n => off[n - d] <= off[n]}
<1>1. 0 \in S
  <2>1. n - 0 = n /\ off[n] \in Nat
    OBVIOUS
  <2> QED BY <2>1
<1>2. ASSUME NEW d \in Nat, d \in S PROVE d + 1 \in S
  <2> DEFINE k == n - d
             h == n - (d + 1)
  <2> SUFFICES ASSUME d + 1 <= n PROVE off[h] <= off[n]
    OBVIOUS
  <2>1. k \in 1 .. n /\ k - 1 = h /\ h \in 0 .. n /\ off[k] <= off[n] /\ k \in 0 .. n /\ n \in 0 .. n
    BY <1>2
  <2> HIDE DEF k, h
  <2>2. off[h] <= off[k]
    BY <2>1
  <2>3. off[h] \in Nat /\ off[k] \in Nat /\ off[n] \in Nat
    BY <2>1
  <2> QED BY <2>1, <2>2, <2>3
<1>3. ASSUME NEW b \in 0 .. n PROVE off[b] <= off[n]
  <2>1. \A d \in Nat : d \in S
    <3> HIDE DEF S
    <3> QED BY <1>1, <1>2, NaturalInduction
  <2>2. n - b \in Nat /\ n - b <= n /\ n - (n - b) = b
    OBVIOUS
  <2> QED BY <2>1, <2>2
<1> QED
  BY <1>3

\* Slices laid end to end are what was cut.
LEMMA SlicesJoin ==
  ASSUME NEW D, NEW f \in Seq(D), NEW ss, Len(ss) \in Nat, DOMAIN ss = 1 .. Len(ss),
         NEW off, Sliced(f, ss, off)
  PROVE  Flat(f, ss, off) /\ \A b \in 1 .. Len(ss) : ss[b] \in Seq(D)
<1> DEFINE n == Len(ss)
<1>1. /\ n \in Nat /\ off \in [0 .. n -> Nat] /\ off[0] = 0 /\ off[n] = Len(f)
      /\ \A b \in 1 .. n : off[b - 1] <= off[b] /\ ss[b] = SubSeq(f, off[b - 1] + 1, off[b])
  BY DEF Sliced
<1> HIDE DEF n
<1>2. \A b \in 0 .. n : off[b] <= Len(f)
  BY <1>1, EndsWithin
<1>3. ASSUME NEW b \in 1 .. n
      PROVE  /\ ss[b] \in Seq(D) /\ off[b] = off[b - 1] + Len(ss[b])
             /\ \A j \in 1 .. Len(ss[b]) : off[b - 1] + j \in DOMAIN f /\ f[off[b - 1] + j] = ss[b][j]
  <2> DEFINE x == off[b - 1]
             y == off[b]
             g == SubSeq(f, x + 1, y)
  <2>1. b - 1 \in 0 .. n /\ b \in 0 .. n
    BY <1>1
  <2>2. x \in Nat /\ y \in Nat /\ x <= y /\ y <= Len(f) /\ ss[b] = g
    BY <1>1, <1>2, <2>1
  <2> HIDE DEF x, y
  <2>3. /\ g \in Seq(D) /\ Len(g) = y - x
        /\ \A j \in 1 .. y - x : g[j] = f[x + j] /\ x + j \in 1 .. Len(f)
    BY <2>2, SliceLength
  <2> HIDE DEF g
  <2>4. y = x + Len(g) /\ DOMAIN f = 1 .. Len(f)
    BY <2>2, <2>3
  <2> QED BY <2>2, <2>3, <2>4 DEF x, y
<1>4. DOMAIN f = 1 .. off[n]
  BY <1>1
<1> QED
  BY <1>1, <1>3, <1>4 DEF Flat, n

\* There is one way to lay sequences end to end.
LEMMA SameEnds ==
  ASSUME NEW D, NEW E, NEW ss \in Seq(Seq(D)), NEW tt \in Seq(Seq(E)), Len(ss) = Len(tt),
         \A b \in 1 .. Len(ss) : Len(ss[b]) = Len(tt[b]),
         NEW f, NEW off, Flat(f, ss, off), NEW g, NEW end, Flat(g, tt, end)
  PROVE  (\A b \in 0 .. Len(ss) : off[b] = end[b]) /\ DOMAIN f = DOMAIN g
<1> DEFINE n == Len(ss)
           S == {k \in Nat : k <= n => off[k] = end[k]}
           len(b) == Len(ss[b])
<1>1. n \in Nat /\ off[0] = 0 /\ end[0] = 0 /\ DOMAIN f = 1 .. off[n] /\ DOMAIN g = 1 .. end[n]
  BY DEF Flat
<1>2. \A b \in 1 .. n : off[b] = off[b - 1] + len(b) /\ end[b] = end[b - 1] + len(b)
  BY DEF Flat
<1> HIDE DEF n, len
<1>3. 0 \in S
  BY <1>1
<1>4. ASSUME NEW k \in Nat, k \in S PROVE k + 1 \in S
  <2> DEFINE h == k + 1
  <2> SUFFICES ASSUME h <= n PROVE off[h] = end[h]
    OBVIOUS
  <2>1. h \in 1 .. n /\ h - 1 = k /\ off[k] = end[k]
    BY <1>1, <1>4
  <2> HIDE DEF h
  <2> QED BY <1>2, <2>1
<1>5. \A k \in 0 .. n : off[k] = end[k]
  <2>1. \A k \in Nat : k \in S
    <3> HIDE DEF S
    <3> QED BY <1>3, <1>4, NaturalInduction
  <2> QED BY <1>1, <2>1
<1>6. off[n] = end[n]
  BY <1>1, <1>5
<1> QED
  BY <1>1, <1>5, <1>6 DEF n

\* The members of two lists that are laid end to end alike.
Alike(f, ss, g, tt, k) ==
  /\ k \in DOMAIN g
  /\ \E b \in DOMAIN ss : \E j \in DOMAIN ss[b] : f[k] = ss[b][j] /\ g[k] = tt[b][j]

LEMMA FlatAlike ==
  ASSUME NEW D, NEW E, NEW ss \in Seq(Seq(D)), NEW tt \in Seq(Seq(E)), Len(ss) = Len(tt),
         \A b \in 1 .. Len(ss) : Len(ss[b]) = Len(tt[b]),
         NEW f, NEW off, Flat(f, ss, off), NEW g, NEW end, Flat(g, tt, end), NEW k \in DOMAIN f
  PROVE  Alike(f, ss, g, tt, k)
<1>1. (\A b \in 0 .. Len(ss) : off[b] = end[b]) /\ DOMAIN f = DOMAIN g
  BY SameEnds
<1>2. PICK b \in DOMAIN ss : \E j \in DOMAIN ss[b] : PlaceOf(f, ss, off, k, b, j)
  BY Located, Zenon
<1>3. PICK j \in DOMAIN ss[b] : k = off[b - 1] + j /\ f[k] = ss[b][j]
  BY <1>2 DEF PlaceOf
<1>4. b \in 1 .. Len(ss) /\ b - 1 \in 0 .. Len(ss) /\ b \in 1 .. Len(tt)
  OBVIOUS
<1>5. j \in 1 .. Len(tt[b])
  <2>1. ss[b] \in Seq(D)
    BY <1>4
  <2>2. j \in 1 .. Len(ss[b])
    BY <2>1
  <2> QED BY <1>4, <2>2
<1>6. g[end[b - 1] + j] = tt[b][j]
  BY <1>4, <1>5 DEF Flat
<1>7. end[b - 1] = off[b - 1]
  BY <1>1, <1>4
<1> QED
  BY <1>1, <1>3, <1>6, <1>7 DEF Alike

\* So the slices of a sequence make that sequence.
LEMMA SlicesFlatten ==
  ASSUME NEW D, NEW f \in Seq(D), NEW ss, Len(ss) \in Nat, DOMAIN ss = 1 .. Len(ss),
         ss = [b \in 1 .. Len(ss) |-> ss[b]], NEW off, Sliced(f, ss, off)
  PROVE  ss \in Seq(Seq(D)) /\ FlattenSeq(ss) = f
<1>1. Flat(f, ss, off) /\ \A b \in 1 .. Len(ss) : ss[b] \in Seq(D)
  BY SlicesJoin, Zenon
<1>2. ss \in Seq(Seq(D))
  <2> DEFINE n == Len(ss)
  <2>1. ss \in [1 .. n -> Seq(D)]
    BY <1>1
  <2> HIDE DEF n
  <2>2. n \in Nat
    BY DEF n
  <2> QED BY <2>1, <2>2
<1> DEFINE g == FlattenSeq(ss)
<1>3. g \in Seq(D) /\ \E end : Flat(g, ss, end)
  BY <1>2, Flattens
<1>4. PICK end : Flat(g, ss, end)
  BY <1>3
<1> HIDE DEF g
<1>5. DOMAIN f = DOMAIN g
  BY <1>1, <1>2, <1>4, SameEnds
<1>6. ASSUME NEW k \in DOMAIN f PROVE g[k] = f[k]
  <2>1. PICK b \in DOMAIN ss : \E j \in DOMAIN ss[b] : f[k] = ss[b][j] /\ g[k] = ss[b][j]
    <3>1. Alike(f, ss, g, ss, k)
      BY <1>1, <1>2, <1>4, FlatAlike
    <3> QED BY <3>1 DEF Alike
  <2> QED BY <2>1
<1>7. f = [k \in DOMAIN f |-> f[k]] /\ g = [k \in DOMAIN g |-> g[k]]
  BY <1>3
<1>8. f = g
  BY <1>5, <1>6, <1>7
<1> QED
  BY <1>2, <1>8 DEF g

\* Slices of a list of different members have none in common.
LEMMA SlicesApart ==
  ASSUME NEW D, NEW ss \in Seq(Seq(D)), NEW f, NEW off, Flat(f, ss, off), OnceEach(f)
  PROVE  Apart(ss)
<1> DEFINE n == Len(ss)
<1>1. n \in Nat /\ DOMAIN ss = 1 .. n /\ off \in [0 .. n -> Nat]
  BY DEF Flat
<1> SUFFICES ASSUME NEW b \in 1 .. n, NEW c \in 1 .. n,
                    NEW i \in DOMAIN ss[b], NEW j \in DOMAIN ss[c], ss[b][i] = ss[c][j]
             PROVE  b = c /\ i = j
  BY <1>1 DEF Apart
<1> DEFINE p == b - 1
           q == c - 1
           x == Len(ss[b])
           y == Len(ss[c])
<1>2. p \in 0 .. n /\ q \in 0 .. n /\ b \in 0 .. n /\ c \in 0 .. n
      /\ (b = c \/ c <= p \/ b <= q) /\ (b = c => p = q)
  BY <1>1
<1>3. x \in Nat /\ y \in Nat /\ i \in 1 .. x /\ j \in 1 .. y
  <2>1. ss[b] \in Seq(D) /\ ss[c] \in Seq(D)
    BY <1>1
  <2> QED BY <2>1
<1>4. /\ off[b] = off[p] + x /\ off[p] + i \in DOMAIN f /\ f[off[p] + i] = ss[b][i]
      /\ off[c] = off[q] + y /\ off[q] + j \in DOMAIN f /\ f[off[q] + j] = ss[c][j]
  BY <1>3 DEF Flat
<1> HIDE DEF p, q, x, y
<1>5. off[p] + i = off[q] + j
  BY <1>4 DEF OnceEach
<1>6. off[p] \in Nat /\ off[q] \in Nat /\ off[b] \in Nat /\ off[c] \in Nat
  BY <1>1, <1>2
<1>7. CASE b = c
  <2>1. p = q
    BY <1>2, <1>7
  <2> QED BY <1>3, <1>5, <1>6, <1>7, <2>1
<1> DEFINE u == off[p]
           v == off[q]
<1>8. CASE c <= p
  <2>1. off[c] <= off[p]
    BY <1>2, <1>8, FlatGrows
  <2>2. v + y <= u /\ u + i = v + j /\ u \in Nat /\ v \in Nat
    BY <1>4, <1>5, <1>6, <2>1
  <2> HIDE DEF u, v
  <2> QED BY <1>3, <2>2
<1>9. CASE b <= q
  <2>1. off[b] <= off[q]
    BY <1>2, <1>9, FlatGrows
  <2>2. u + x <= v /\ u + i = v + j /\ u \in Nat /\ v \in Nat
    BY <1>4, <1>5, <1>6, <2>1
  <2> HIDE DEF u, v
  <2> QED BY <1>3, <2>2
<1> QED
  BY <1>2, <1>7, <1>8, <1>9

\* One sequence, laid end to end with nothing.
LEMMA FlattenOne ==
  ASSUME NEW ss, Len(ss) = 1
  PROVE  FlattenSeq(ss) = ss[1]
<1>1. PICK F : F = [i \in 1 .. Len(ss) |-> Laid(F, ss, i)] /\ FlattenSeq(ss) = F[Len(ss)]
  BY FlattenIs
<1>2. F[1] = Laid(F, ss, 1)
  <2>1. 1 \in 1 .. Len(ss)
    OBVIOUS
  <2> QED BY <1>1, <2>1
<1> QED
  BY <1>1, <1>2 DEF Laid

-----------------------------------------------------------------------------
(* The order of the rows, as they are or sorted *)

\* Each row once, and in its chunk.
OrderedRows(f) ==
  /\ f \in Seq(1 .. Rows) /\ Len(f) = Rows /\ OnceEach(f) /\ Range(f) = 1 .. Rows
  /\ \A i \in 1 .. Rows : ChunkOf(f[i]) = ChunkOf(i)

LEMMA RowsAsTheyAre ==
  ASSUME call.batching # "dynamic"
  PROVE  /\ DataOrder = [k \in 1 .. Rows |-> k] /\ OrderedRows(DataOrder)
<1> DEFINE f == [k \in 1 .. Rows |-> k]
<1>1. DataOrder = f
  BY DEF DataOrder
<1>2. Rows \in Nat
  BY DispatchAssumption
<1>3. f \in Seq(1 .. Rows) /\ Len(f) = Rows /\ DOMAIN f = 1 .. Rows
  BY <1>2
<1>4. \A i \in 1 .. Rows : f[i] = i
  OBVIOUS
<1> HIDE DEF f
<1>5. OnceEach(f) /\ Range(f) = 1 .. Rows
  BY <1>3, <1>4 DEF OnceEach, Range
<1>6. \A i \in 1 .. Rows : ChunkOf(f[i]) = ChunkOf(i)
  BY <1>4
<1> QED
  BY <1>1, <1>3, <1>5, <1>6 DEF OrderedRows, f

\* The shards of a well-shaped batch have the same number of rows of each chunk.
LEMMA ShardsFill ==
  ASSUME CallOK, WellShaped, ~Uneven
  PROVE  ShardSize \in Nat \ {0} /\ Batch = call.shards * ShardSize /\ Batch = ShardSize * call.shards
<1> DEFINE n == Batch
           m == call.shards
           z == n \div m
<1>1. n \in Nat \ {0} /\ m \in Nat \ {0} /\ n % m = 0 /\ ShardSize = z
  BY DEF CallOK, WellShaped, ShardSize
<1> HIDE DEF n, m
<1>2. z \in Nat /\ n = z * m
  BY <1>1, WholeQuotient
<1> HIDE DEF z
<1>3. z # 0 /\ z * m = m * z
  BY <1>1, <1>2
<1> QED
  BY <1>1, <1>2, <1>3 DEF n, m

\* The rows of a chunk.
ChunkSet(c) == {(c - 1) * Batch + k : k \in 1 .. Batch}

LEMMA ChunkSetIs ==
  ASSUME CallOK, Rows % Batch = 0, NEW c \in 1 .. Chunks
  PROVE  /\ IsFiniteSet(ChunkSet(c)) /\ Cardinality(ChunkSet(c)) = Batch
         /\ ChunkSet(c) \subseteq 1 .. Rows /\ \A r \in ChunkSet(c) : ChunkOf(r) = c
<1> DEFINE n == Batch
           d == (c - 1) * n
           f == [k \in 1 .. n |-> d + k]
<1>1. n \in Nat \ {0} /\ Items = 1 .. n
  BY DEF CallOK, Items
<1>2. d \in Nat /\ \A k \in 1 .. n : d + k \in 1 .. Rows /\ ChunkOf(d + k) = c
  <2>1. 1 \in Items
    BY <1>1
  <2>2. \A k \in Items : d \in Nat /\ d + k \in 1 .. Rows /\ ChunkOf(d + k) = c
    BY ChunkRows
  <2> HIDE DEF d, n
  <2> QED BY <1>1, <2>1, <2>2
<1>3. ChunkSet(c) = {d + k : k \in 1 .. n}
  BY DEF ChunkSet
<1> HIDE DEF n, d
<1>4. f \in Bijection(1 .. n, ChunkSet(c))
  <2>1. f \in [1 .. n -> ChunkSet(c)]
    BY <1>3
  <2>2. \A k, l \in 1 .. n : f[k] = f[l] => k = l
    BY <1>1, <1>2
  <2>3. \A r \in ChunkSet(c) : \E k \in 1 .. n : f[k] = r
    BY <1>3
  <2> HIDE DEF f
  <2> QED BY <2>1, <2>2, <2>3 DEF Bijection, Injection, Surjection, IsInjective
<1>5. IsFiniteSet(1 .. n) /\ Cardinality(1 .. n) = n
  BY <1>1, CountUpTo
<1>6. ExistsBijection(1 .. n, ChunkSet(c))
  BY <1>4 DEF ExistsBijection
<1>7. IsFiniteSet(ChunkSet(c)) /\ Cardinality(ChunkSet(c)) = n
  BY <1>5, <1>6, FS_Bijection
<1> QED
  BY <1>2, <1>3, <1>7 DEF n

\* Rows in the order of their lengths, and of their numbers where these are equal.
LEMMA SortedChunkLists ==
  ASSUME CallOK, length \in [1 .. Rows -> Lengths], Rows % Batch = 0, NEW c \in 1 .. Chunks
  PROVE  Listed(SortedChunk(c), ChunkSet(c))
<1> DEFINE rows == ChunkSet(c)
           before == {p \in rows \X rows :
                        \/ length[p[1]] < length[p[2]]
                        \/ length[p[1]] = length[p[2]] /\ p[1] < p[2]}
<1>1. SortedChunk(c) = InOrder(rows, before)
  BY DEF SortedChunk, ChunkSet
<1>2. IsFiniteSet(rows) /\ rows \subseteq 1 .. Rows
  BY ChunkSetIs
<1> HIDE DEF rows
<1>3. \A r \in rows : length[r] \in Nat /\ r \in Nat
  <2>1. Lengths \subseteq Nat /\ Rows \in Nat
    BY DispatchAssumption
  <2>2. \A r \in 1 .. Rows : length[r] \in Lengths
    OBVIOUS
  <2>3. \A r \in 1 .. Rows : r \in Nat
    BY <2>1
  <2> QED BY <1>2, <2>1, <2>2, <2>3
<1>4. \A x, y \in rows : <<x, y>> \in before
                           <=> (length[x] < length[y] \/ (length[x] = length[y] /\ x < y))
  OBVIOUS
<1> HIDE DEF before
<1>5. StrictOrder(rows, before)
  <2>1. ASSUME NEW x \in rows, NEW y \in rows
        PROVE  /\ ~(<<x, y>> \in before /\ <<y, x>> \in before)
               /\ x = y \/ <<x, y>> \in before \/ <<y, x>> \in before
    <3> DEFINE a == length[x]
               b == length[y]
    <3>1. a \in Nat /\ b \in Nat /\ x \in Nat /\ y \in Nat
      BY <1>3
    <3>2. /\ <<x, y>> \in before <=> (a < b \/ (a = b /\ x < y))
          /\ <<y, x>> \in before <=> (b < a \/ (b = a /\ y < x))
      BY <1>4
    <3> HIDE DEF a, b
    <3> QED BY <3>1, <3>2
  <2>2. ASSUME NEW x \in rows, NEW y \in rows, NEW z \in rows,
               <<x, y>> \in before, <<y, z>> \in before
        PROVE  <<x, z>> \in before
    <3> DEFINE a == length[x]
               b == length[y]
               d == length[z]
    <3>1. a \in Nat /\ b \in Nat /\ d \in Nat /\ x \in Nat /\ y \in Nat /\ z \in Nat
      BY <1>3
    <3>2. (a < b \/ (a = b /\ x < y)) /\ (b < d \/ (b = d /\ y < z))
      BY <1>4, <2>2
    <3> HIDE DEF a, b, d
    <3>3. a < d \/ (a = d /\ x < z)
      BY <3>1, <3>2
    <3> QED BY <1>4, <3>3 DEF a, d
  <2> QED BY <2>1, <2>2 DEF StrictOrder
<1>6. Listed(InOrder(rows, before), rows)
  BY <1>2, <1>5, InOrderLists
<1> QED
  BY <1>1, <1>6 DEF rows

\* The place in the sorted chunk of the k-th row of the shards.
Stride(k) == ((k - 1) % ShardSize) * call.shards + (k - 1) \div ShardSize + 1

LEMMA StridesDiffer ==
  ASSUME CallOK, WellShaped, ~Uneven, NEW k \in 1 .. Batch
  PROVE  /\ Stride(k) \in 1 .. Batch
         /\ \A l \in 1 .. Batch : Stride(k) = Stride(l) => k = l
<1> DEFINE m == call.shards
           z == ShardSize
           row(i) == (i - 1) % z
           col(i) == (i - 1) \div z
<1>1. m \in Nat \ {0} /\ z \in Nat \ {0} /\ Batch = m * z /\ Batch = z * m
  BY ShardsFill DEF CallOK
<1>2. ASSUME NEW i \in 1 .. Batch
      PROVE  /\ row(i) \in 0 .. (z - 1) /\ col(i) \in 0 .. (m - 1) /\ i - 1 = col(i) * z + row(i)
             /\ Stride(i) = row(i) * m + col(i) + 1
  <2> DEFINE x == col(i)
             y == row(i)
  <2>1. Stride(i) = row(i) * m + col(i) + 1
    BY DEF Stride
  <2> HIDE DEF m, z
  <2>2. i \in Nat /\ i > 0 /\ i <= m * z
    BY <1>1
  <2>3. i - 1 \in Nat /\ i - 1 < m * z
    BY <1>1, <2>2
  <2>4. x \in Nat /\ y \in 0 .. (z - 1) /\ i - 1 = x * z + y
    BY <1>1, <2>3
  <2> HIDE DEF x, y
  <2>5. x < m
    <3>1. x * z \in Nat /\ x * z < m * z
      BY <1>1, <2>3, <2>4
    <3> QED BY <1>1, <2>4, <3>1
  <2> QED BY <1>1, <2>1, <2>4, <2>5 DEF x, y
<1> HIDE DEF m, z, row, col
<1>3. Stride(k) \in 1 .. Batch
  <2> DEFINE p == row(k) + 1
             s == col(k) + 1
  <2>1. p \in 1 .. z /\ s \in 1 .. m /\ p - 1 = row(k) /\ row(k) \in Nat /\ col(k) \in Nat
    <3> DEFINE x == row(k)
               y == col(k)
    <3>1. x \in 0 .. (z - 1) /\ y \in 0 .. (m - 1)
      BY <1>2
    <3> HIDE DEF x, y
    <3>2. x + 1 \in 1 .. z /\ y + 1 \in 1 .. m /\ (x + 1) - 1 = x /\ x \in Nat /\ y \in Nat
      BY <1>1, <3>1
    <3> QED BY <3>2 DEF x, y
  <2>2. (p - 1) * m + s \in 1 .. (z * m)
    <3> HIDE DEF p, s
    <3> QED BY <1>1, <2>1, PlaceInMultiple
  <2>3. row(k) * m \in Nat /\ Stride(k) = row(k) * m + col(k) + 1
    BY <1>1, <1>2, <2>1
  <2>4. Stride(k) = (p - 1) * m + s
    <3> DEFINE e == row(k) * m
    <3>1. e \in Nat /\ Stride(k) = e + col(k) + 1 /\ (p - 1) * m = e
      BY <2>1, <2>3
    <3> HIDE DEF e
    <3> QED BY <2>1, <3>1
  <2> QED BY <1>1, <2>2, <2>4
<1>4. ASSUME NEW l \in 1 .. Batch, Stride(k) = Stride(l) PROVE k = l
  <2> DEFINE x == row(k)
             i == col(k)
             y == row(l)
             j == col(l)
  <2>1. /\ x \in Nat /\ y \in Nat /\ i \in 0 .. (m - 1) /\ j \in 0 .. (m - 1)
        /\ x * m + i + 1 = y * m + j + 1 /\ k - 1 = i * z + x /\ l - 1 = j * z + y
    BY <1>1, <1>2, <1>4
  <2> HIDE DEF x, i, y, j
  <2>2. x * m \in Nat /\ y * m \in Nat
    BY <1>1, <2>1
  <2>3. x * m + i = y * m + j
    <3> DEFINE a == x * m
               b == y * m
    <3>1. a \in Nat /\ b \in Nat /\ a + i + 1 = b + j + 1
      BY <2>1, <2>2
    <3> HIDE DEF a, b
    <3>2. a + i = b + j
      BY <2>1, <3>1
    <3> QED BY <3>2 DEF a, b
  <2>4. x = y /\ i = j
    BY <1>1, <2>1, <2>3, DivisionIsUnique
  <2>5. k - 1 = l - 1
    BY <2>1, <2>4
  <2> QED BY <2>5
<1> QED
  BY <1>3, <1>4

LEMMA StridedLists ==
  ASSUME CallOK, length \in [1 .. Rows -> Lengths], WellShaped, ~Uneven, NEW c \in 1 .. Chunks
  PROVE  Strided(c) \in Seq(ChunkSet(c)) /\ Listed(Strided(c), ChunkSet(c)) /\ Len(Strided(c)) = Batch
<1> DEFINE S == ChunkSet(c)
           g == SortedChunk(c)
           f == Strided(c)
<1>1. Rows % Batch = 0 /\ Batch \in Nat
  BY DEF WellShaped, CallOK
<1>2. IsFiniteSet(S) /\ Cardinality(S) = Batch /\ Listed(g, S)
  BY <1>1, ChunkSetIs, SortedChunkLists
<1>3. f = [k \in 1 .. Batch |-> g[Stride(k)]]
  BY DEF Strided, Stride
<1> HIDE DEF S, g, f
<1>4. g \in Seq(S) /\ Len(g) = Batch /\ OnceEach(g) /\ DOMAIN g = 1 .. Batch
  BY <1>1, <1>2 DEF Listed
<1>5. \A k \in 1 .. Batch : g[Stride(k)] \in S
  BY <1>4, StridesDiffer
<1>6. f \in Seq(S) /\ Len(f) = Batch /\ DOMAIN f = 1 .. Batch
  BY <1>1, <1>3, <1>5
<1>7. OnceEach(f)
  <2> SUFFICES ASSUME NEW k \in 1 .. Batch, NEW l \in 1 .. Batch, f[k] = f[l] PROVE k = l
    BY <1>6 DEF OnceEach
  <2>1. Stride(k) \in DOMAIN g /\ Stride(l) \in DOMAIN g /\ g[Stride(k)] = g[Stride(l)]
    BY <1>3, <1>4, StridesDiffer
  <2>2. Stride(k) = Stride(l)
    BY <1>4, <2>1 DEF OnceEach
  <2> QED BY <2>2, StridesDiffer
<1>8. Range(f) = S
  BY <1>2, <1>6, <1>7, FullList
<1> QED
  BY <1>2, <1>6, <1>7, <1>8 DEF Listed, S, f

\* A member of a list.
LEMMA MemberOfList ==
  ASSUME NEW S, NEW f \in Seq(S), NEW k \in DOMAIN f
  PROVE  f[k] \in S
<1> DEFINE n == Len(f)
<1>1. n \in Nat /\ f \in [1 .. n -> S]
  BY LenProperties
<1> HIDE DEF n
<1> QED BY <1>1

\* What a sequence over a set is over a larger one.
LEMMA SeqWithin ==
  ASSUME NEW S, NEW T, S \subseteq T, NEW f \in Seq(S)
  PROVE  f \in Seq(T)
<1> DEFINE n == Len(f)
<1>1. n \in Nat /\ f \in [1 .. n -> S]
  BY LenProperties
<1> HIDE DEF n
<1>2. f \in [1 .. n -> T]
  BY <1>1
<1> QED BY <1>1, <1>2

LEMMA RowsSorted ==
  ASSUME CallOK, length \in [1 .. Rows -> Lengths], WellShaped, ~Uneven,
         call.batching = "dynamic"
  PROVE  OrderedRows(DataOrder)
<1> DEFINE n == Chunks
           ss == [c \in 1 .. n |-> Strided(c)]
           f == FlattenSeq(ss)
<1>1. DataOrder = f
  BY DEF DataOrder
<1>2. /\ Batch \in Nat \ {0} /\ Rows \in Nat \ {0} /\ Rows % Batch = 0
  BY DispatchAssumption DEF CallOK, WellShaped
<1>3. n \in Nat /\ Rows = n * Batch
  BY <1>2, WholeQuotient DEF Chunks
<1>4. ASSUME NEW c \in 1 .. n
      PROVE  /\ ss[c] \in Seq(1 .. Rows) /\ Len(ss[c]) = Batch /\ DOMAIN ss[c] = 1 .. Batch
             /\ OnceEach(ss[c]) /\ \A k \in DOMAIN ss[c] : ChunkOf(ss[c][k]) = c
  <2>1. /\ Strided(c) \in Seq(ChunkSet(c)) /\ Listed(Strided(c), ChunkSet(c))
        /\ Len(Strided(c)) = Batch
    BY StridedLists
  <2>2. ChunkSet(c) \subseteq 1 .. Rows /\ \A r \in ChunkSet(c) : ChunkOf(r) = c
    BY <1>2, ChunkSetIs
  <2>3. ss[c] = Strided(c)
    OBVIOUS
  <2> HIDE DEF ss
  <2>4. DOMAIN ss[c] = 1 .. Batch /\ \A k \in DOMAIN ss[c] : ss[c][k] \in ChunkSet(c)
    BY <1>2, <2>1, <2>3
  <2>5. ss[c] \in Seq(1 .. Rows)
    <3>1. ss[c] \in Seq(ChunkSet(c))
      BY <2>1, <2>3
    <3> QED BY <2>2, <3>1, SeqWithin
  <2> QED BY <2>1, <2>2, <2>3, <2>4, <2>5 DEF Listed
<1>5. ss \in Seq(Seq(1 .. Rows)) /\ Len(ss) = n /\ DOMAIN ss = 1 .. n
  <2>1. ss \in [1 .. n -> Seq(1 .. Rows)]
    BY <1>4
  <2> HIDE DEF n
  <2> QED BY <1>3, <2>1
<1> HIDE DEF ss, n
<1>6. f \in Seq(1 .. Rows) /\ \E off : Flat(f, ss, off)
  BY <1>5, Flattens
<1>7. PICK off : Flat(f, ss, off)
  BY <1>6
<1> HIDE DEF f
<1>8. Evenly(off, n, Batch)
  <2>1. \A b \in 1 .. Len(ss) : Len(ss[b]) = Batch
    BY <1>4, <1>5
  <2>2. Evenly(off, Len(ss), Batch)
    BY <1>2, <1>5, <1>7, <2>1, EvenEnds
  <2> QED BY <1>5, <2>2
<1>9. Len(f) = Rows
  <2>1. off[n] = Rows /\ DOMAIN f = 1 .. off[n]
    BY <1>3, <1>5, <1>7, <1>8 DEF Evenly, Flat
  <2>2. DOMAIN f = 1 .. Len(f) /\ Len(f) \in Nat
    BY <1>6
  <2> QED BY <1>2, <2>1, <2>2
<1>10. Apart(ss)
  <2> SUFFICES ASSUME NEW b \in 1 .. n, NEW c \in 1 .. n, NEW i \in DOMAIN ss[b],
                      NEW j \in DOMAIN ss[c], ss[b][i] = ss[c][j]
               PROVE  b = c /\ i = j
    BY <1>5 DEF Apart
  <2>1. b = c
    BY <1>4
  <2> QED BY <1>4, <2>1 DEF OnceEach
<1>11. OnceEach(f)
  BY <1>5, <1>7, <1>10, FlatApart, Zenon
<1>12. Range(f) = 1 .. Rows
  <2>1. IsFiniteSet(1 .. Rows) /\ Cardinality(1 .. Rows) = Rows
    BY <1>2, CountUpTo
  <2> QED BY <1>6, <1>9, <1>11, <2>1, FullList
<1>13. ASSUME NEW i \in 1 .. Rows PROVE ChunkOf(f[i]) = ChunkOf(i)
  <2>1. i \in DOMAIN f
    BY <1>6, <1>9
  <2>2. PICK b \in DOMAIN ss : \E j \in DOMAIN ss[b] : PlaceOf(f, ss, off, i, b, j)
    BY <1>5, <1>7, <2>1, Located, Zenon
  <2>3. PICK j \in DOMAIN ss[b] : i = off[b - 1] + j /\ f[i] = ss[b][j]
    BY <2>2 DEF PlaceOf
  <2>4. b \in 1 .. n /\ j \in 1 .. Batch /\ ChunkOf(f[i]) = b
    BY <1>4, <1>5, <2>3
  <2>5. off[b - 1] = (b - 1) * Batch
    <3>1. b - 1 \in 0 .. n
      BY <1>3, <2>4
    <3> QED BY <1>8, <3>1 DEF Evenly
  <2>6. ChunkOf((b - 1) * Batch + j) = b
    BY <1>2, <2>4, ChunkRows DEF Items, n
  <2> QED BY <2>3, <2>4, <2>5, <2>6
<1> QED
  BY <1>1, <1>6, <1>9, <1>11, <1>12, <1>13 DEF OrderedRows

\* Whatever the batching, but for bins.
LEMMA RowsOrdered ==
  ASSUME CallOK, length \in [1 .. Rows -> Lengths], WellShaped,
         call.batching = "dynamic" => ~Uneven
  PROVE  OrderedRows(DataOrder)
BY RowsAsTheyAre, RowsSorted

-----------------------------------------------------------------------------
(* Shards from ranges of rows *)

\* The place in a chunk of the k-th row that shard s gets of it.
PlaceIn(s, k) == (s - 1) * ShardSize + k

LEMMA PlacesDiffer ==
  ASSUME CallOK, WellShaped, ~Uneven, NEW s \in Shards, NEW k \in 1 .. ShardSize
  PROVE  /\ PlaceIn(s, k) \in Items /\ (s - 1) * ShardSize \in Nat
         /\ \A t \in Shards : \A l \in 1 .. ShardSize :
              PlaceIn(s, k) = PlaceIn(t, l) => s = t /\ k = l
<1> DEFINE m == call.shards
           z == ShardSize
<1>1. m \in Nat \ {0} /\ z \in Nat \ {0} /\ Items = 1 .. (m * z) /\ Shards = 1 .. m
  BY ShardsFill DEF CallOK, Items, Shards
<1>2. s \in 1 .. m /\ k \in 1 .. z
  BY <1>1
<1>3. PlaceIn(s, k) = (s - 1) * z + k
  BY DEF PlaceIn
<1> HIDE DEF m, z
<1>4. (s - 1) * z + k \in 1 .. (m * z)
  BY <1>1, <1>2, PlaceInMultiple
<1>5. (s - 1) * z \in Nat
  <2>1. s - 1 \in Nat
    BY <1>1, <1>2
  <2> QED BY <1>1, <2>1
<1>6. ASSUME NEW t \in Shards, NEW l \in 1 .. z, PlaceIn(s, k) = PlaceIn(t, l)
      PROVE  s = t /\ k = l
  <2> DEFINE x == s - 1
             y == t - 1
             i == k - 1
             j == l - 1
  <2>1. /\ x \in Nat /\ y \in Nat /\ i \in 0 .. (z - 1) /\ j \in 0 .. (z - 1)
        /\ s = x + 1 /\ t = y + 1 /\ k = i + 1 /\ l = j + 1
    BY <1>1, <1>2
  <2>2. x * z + k = y * z + l
    BY <1>3, <1>6 DEF PlaceIn, z
  <2> HIDE DEF x, y, i, j
  <2>3. x * z \in Nat /\ y * z \in Nat
    BY <1>1, <2>1
  <2>4. x * z + i = y * z + j
    BY <2>1, <2>2, <2>3
  <2>5. x = y /\ i = j
    BY <1>1, <2>1, <2>4, DivisionIsUnique
  <2> QED BY <2>1, <2>5
<1> QED
  BY <1>1, <1>3, <1>4, <1>5, <1>6 DEF z

\* Every place of a chunk is some shard's.
LEMMA SomePlace ==
  ASSUME CallOK, WellShaped, ~Uneven, NEW i \in Items
  PROVE  \E s \in Shards : \E k \in 1 .. ShardSize : PlaceIn(s, k) = i
<1> DEFINE m == call.shards
           z == ShardSize
           x == (i - 1) \div z
           y == (i - 1) % z
<1>1. m \in Nat \ {0} /\ z \in Nat \ {0} /\ i \in 1 .. (m * z) /\ Shards = 1 .. m
  BY ShardsFill DEF CallOK, Items, Shards
<1> HIDE DEF m, z
<1>2. i - 1 \in Nat /\ i - 1 < m * z
  <2> DEFINE p == m * z
  <2>1. p \in Nat /\ i \in 1 .. p
    BY <1>1
  <2> HIDE DEF p
  <2>2. i - 1 \in Nat /\ i - 1 < p
    BY <2>1
  <2> QED BY <2>2 DEF p
<1>3. x \in Nat /\ y \in 0 .. (z - 1) /\ i - 1 = x * z + y
  BY <1>1, <1>2
<1> HIDE DEF x, y
<1>4. x < m
  <2>1. x * z \in Nat /\ x * z < m * z
    BY <1>1, <1>2, <1>3
  <2> QED BY <1>1, <1>3, <2>1
<1>5. x + 1 \in Shards /\ y + 1 \in 1 .. z
  BY <1>1, <1>3, <1>4
<1>6. ((x + 1) - 1) * z + (y + 1) = i
  <2>1. (x + 1) - 1 = x /\ x * z \in Nat
    BY <1>1, <1>3
  <2> DEFINE p == x * z
  <2>2. p \in Nat /\ i - 1 = p + y /\ ((x + 1) - 1) * z = p
    BY <1>3, <2>1
  <2> HIDE DEF p
  <2> QED BY <1>1, <1>3, <2>2
<1> QED
  BY <1>5, <1>6 DEF PlaceIn, z

\* What a shard gets of a chunk when ranges of rows are dealt.
RangePiece(c, s) == SubSeq(DataOrder, RangeOf(c, s)[1] + 1, RangeOf(c, s)[2])

\* Its rows are those at the shard's places.
AtPlaces(f, c, s) ==
  \A k \in 1 .. ShardSize :
    /\ (c - 1) * Batch + PlaceIn(s, k) \in 1 .. Rows
    /\ f[k] = DataOrder[(c - 1) * Batch + PlaceIn(s, k)]

\* A range, as the numbers before its first and up to its last row.
Spans(c, s, a, b) ==
  /\ RangeOf(c, s) = <<a, b>> /\ a \in Nat /\ b \in Nat /\ b <= Rows /\ b = a + ShardSize
  /\ \A k \in 1 .. ShardSize : (c - 1) * Batch + PlaceIn(s, k) = a + k

LEMMA RangeSpans ==
  ASSUME CallOK, WellShaped, ~Uneven, NEW c \in 1 .. Chunks, NEW s \in Shards
  PROVE  \E a, b : Spans(c, s, a, b)
<1> DEFINE z == ShardSize
           x == (c - 1) * Batch
           y == (s - 1) * ShardSize
           t == s * ShardSize
<1>1. z \in Nat \ {0} /\ Rows % Batch = 0 /\ Rows \in Nat
  BY ShardsFill, DispatchAssumption DEF WellShaped
<1>2. s \in Nat \ {0}
  BY DEF CallOK, Shards
<1>3. x \in Nat /\ y \in Nat
  <2>1. z \in 1 .. z
    BY <1>1
  <2>2. PlaceIn(s, z) \in Items /\ y \in Nat
    BY <2>1, PlacesDiffer
  <2> QED BY <1>1, <2>2, ChunkRows
<1>4. t = y + z
  <2> HIDE DEF z
  <2>1. s * z = (s - 1) * z + z
    BY <1>1, <1>2
  <2> QED BY <2>1 DEF z
<1>5. x + t <= Rows
  <2>1. z \in 1 .. z
    BY <1>1
  <2>2. PlaceIn(s, z) \in Items
    BY <2>1, PlacesDiffer
  <2>3. x + PlaceIn(s, z) \in 1 .. Rows
    BY <1>1, <2>2, ChunkRows
  <2>4. PlaceIn(s, z) = t
    BY <1>4 DEF PlaceIn
  <2> QED BY <1>1, <2>3, <2>4
<1>6. RangeOf(c, s) = <<x + y, x + t>>
  BY DEF RangeOf
<1>7. \A k \in 1 .. z : (c - 1) * Batch + PlaceIn(s, k) = x + y + k
  <2> SUFFICES ASSUME NEW k \in 1 .. z PROVE x + PlaceIn(s, k) = x + y + k
    OBVIOUS
  <2>1. PlaceIn(s, k) = y + k
    BY DEF PlaceIn
  <2> HIDE DEF x, y
  <2> QED BY <1>1, <1>3, <2>1
<1>8. x + y \in Nat /\ x + t \in Nat /\ x + t = x + y + z
  <2> HIDE DEF x, y, t, z
  <2> QED BY <1>1, <1>3, <1>4
<1> HIDE DEF x, y, t
<1>9. Spans(c, s, x + y, x + t)
  BY <1>1, <1>5, <1>6, <1>7, <1>8 DEF Spans
<1> QED
  BY <1>9

LEMMA RangePieceRows ==
  ASSUME CallOK, length \in [1 .. Rows -> Lengths], WellShaped, ~Uneven,
         NEW c \in 1 .. Chunks, NEW s \in Shards
  PROVE  /\ RangePiece(c, s) \in Seq(1 .. Rows) /\ Len(RangePiece(c, s)) = ShardSize
         /\ DOMAIN RangePiece(c, s) = 1 .. ShardSize
         /\ AtPlaces(RangePiece(c, s), c, s)
         /\ \A k \in 1 .. ShardSize : ChunkOf(RangePiece(c, s)[k]) = c
<1> DEFINE z == ShardSize
           f == DataOrder
           g == RangePiece(c, s)
<1>1. OrderedRows(f)
  BY RowsOrdered
<1>2. z \in Nat \ {0} /\ Rows % Batch = 0 /\ Rows \in Nat
  BY ShardsFill, DispatchAssumption DEF WellShaped
<1>3. PICK a, b : Spans(c, s, a, b)
  BY RangeSpans
<1>4. /\ RangeOf(c, s) = <<a, b>> /\ a \in Nat /\ b \in Nat /\ b <= Rows /\ b = a + z
      /\ \A k \in 1 .. z : (c - 1) * Batch + PlaceIn(s, k) = a + k
  BY <1>3 DEF Spans
<1>5. g = SubSeq(f, a + 1, b)
  BY <1>4 DEF RangePiece
<1>6. f \in Seq(1 .. Rows) /\ Len(f) = Rows /\ \A i \in 1 .. Rows : ChunkOf(f[i]) = ChunkOf(i)
  BY <1>1 DEF OrderedRows
<1> HIDE DEF f, g, z
<1>7. g \in Seq(1 .. Rows) /\ Len(g) = z
  <2>1. a <= b /\ b <= Len(f) /\ b - a = z
    BY <1>2, <1>4, <1>6
  <2>2. SubSeq(f, a + 1, b) \in Seq(1 .. Rows) /\ Len(SubSeq(f, a + 1, b)) = b - a
    <3> DEFINE R == 1 .. Rows
    <3>1. a \in Nat /\ b \in Nat /\ f \in Seq(R)
      BY <1>4, <1>6
    <3>2. a <= b /\ b <= Len(f)
      BY <2>1
    <3> HIDE DEF R
    <3>3. SubSeq(f, a + 1, b) \in Seq(R) /\ Len(SubSeq(f, a + 1, b)) = b - a
      BY <3>1, <3>2, SliceLength
    <3> QED BY <3>3 DEF R
  <2> QED BY <1>5, <2>1, <2>2
<1>8. ASSUME NEW k \in 1 .. z
      PROVE  /\ (c - 1) * Batch + PlaceIn(s, k) \in 1 .. Rows
             /\ g[k] = f[(c - 1) * Batch + PlaceIn(s, k)] /\ ChunkOf(g[k]) = c
  <2>1. a <= b /\ b <= Len(f) /\ b - a = z /\ a + k \in 1 .. Rows
    BY <1>2, <1>4, <1>6
  <2>2. \A j \in 1 .. b - a : SubSeq(f, a + 1, b)[j] = f[a + j]
    BY <1>4, <1>6, <2>1, SliceLength
  <2>3. g[k] = f[a + k] /\ (c - 1) * Batch + PlaceIn(s, k) = a + k
    BY <1>4, <1>5, <2>1, <2>2
  <2>4. PlaceIn(s, k) \in Items
    BY PlacesDiffer DEF z
  <2>5. ChunkOf((c - 1) * Batch + PlaceIn(s, k)) = c
    BY <1>2, <2>4, ChunkRows
  <2> QED BY <1>6, <2>1, <2>3, <2>5
<1>9. DOMAIN g = 1 .. z
  BY <1>2, <1>7
<1> QED
  BY <1>7, <1>8, <1>9 DEF AtPlaces, f, g, z

RangePieces == [s \in Shards |-> [c \in 1 .. Chunks |-> RangePiece(c, s)]]

\* The pieces hold each row once, a row of chunk c in the pieces of chunk c.
LEMMA RangePiecesPart ==
  ASSUME CallOK, length \in [1 .. Rows -> Lengths], WellShaped, ~Uneven
  PROVE  /\ RangePieces \in [Shards -> Seq(Seq(1 .. Rows))]
         /\ \A s \in Shards : Len(RangePieces[s]) = Chunks
         /\ OnePieceEach(RangePieces, call.shards, Chunks, 1 .. Rows)
         /\ \A s \in Shards : \A c \in 1 .. Chunks : \A k \in DOMAIN RangePieces[s][c] :
              ChunkOf(RangePieces[s][c][k]) = c
<1> DEFINE f == DataOrder
           P == RangePieces
<1>1. Chunks \in Nat /\ Rows \in Nat /\ Rows % Batch = 0
  <2>1. Rows \in Nat \ {0}
    BY DispatchAssumption
  <2> QED BY <2>1, QuotientIsNatural DEF CallOK, Chunks, WellShaped
<1>2. \A s \in Shards : \A c \in 1 .. Chunks : P[s][c] = RangePiece(c, s)
  BY DEF RangePieces
<1>3. ASSUME NEW s \in Shards
      PROVE  P[s] \in Seq(Seq(1 .. Rows)) /\ Len(P[s]) = Chunks
  <2>1. \A c \in 1 .. Chunks : RangePiece(c, s) \in Seq(1 .. Rows)
    BY RangePieceRows
  <2>2. P[s] = [c \in 1 .. Chunks |-> RangePiece(c, s)]
    BY DEF RangePieces
  <2> QED BY <1>1, <2>1, <2>2
<1>4. P \in [Shards -> Seq(Seq(1 .. Rows))]
  BY <1>3 DEF RangePieces
<1>5. OrderedRows(f)
  BY RowsOrdered
<1>6. ASSUME NEW s \in Shards, NEW c \in 1 .. Chunks, NEW k \in 1 .. ShardSize
      PROVE  /\ DOMAIN P[s][c] = 1 .. ShardSize /\ ChunkOf(P[s][c][k]) = c
             /\ (c - 1) * Batch + PlaceIn(s, k) \in 1 .. Rows
             /\ P[s][c][k] = f[(c - 1) * Batch + PlaceIn(s, k)]
  BY <1>2, RangePieceRows DEF AtPlaces
<1> HIDE DEF P, f
<1>7. ASSUME NEW s, NEW t, NEW c, NEW d, NEW k, NEW l, NEW r,
             InPiece(P, call.shards, Chunks, s, c, k, r),
             InPiece(P, call.shards, Chunks, t, d, l, r)
      PROVE  s = t /\ c = d /\ k = l
  <2>1. /\ s \in Shards /\ t \in Shards /\ c \in 1 .. Chunks /\ d \in 1 .. Chunks
        /\ k \in DOMAIN P[s][c] /\ l \in DOMAIN P[t][d] /\ P[s][c][k] = r /\ P[t][d][l] = r
    BY <1>7 DEF InPiece, Shards
  <2>2. k \in 1 .. ShardSize /\ l \in 1 .. ShardSize
    BY <1>2, <2>1, RangePieceRows
  <2>3. c = d
    <3>1. ChunkOf(P[s][c][k]) = c
      BY <1>6, <2>1, <2>2
    <3>2. ChunkOf(P[t][d][l]) = d
      BY <1>6, <2>1, <2>2
    <3> QED BY <2>1, <3>1, <3>2
  <2>4. (c - 1) * Batch + PlaceIn(s, k) = (c - 1) * Batch + PlaceIn(t, l)
    <3> DEFINE i == (c - 1) * Batch + PlaceIn(s, k)
               j == (c - 1) * Batch + PlaceIn(t, l)
    <3>1. i \in 1 .. Rows /\ j \in 1 .. Rows /\ f[i] = r /\ f[j] = r
      BY <1>6, <2>1, <2>2, <2>3
    <3>2. DOMAIN f = 1 .. Rows
      BY <1>1, <1>5 DEF OrderedRows
    <3> HIDE DEF i, j
    <3>3. i = j
      BY <1>5, <3>1, <3>2 DEF OrderedRows, OnceEach
    <3> QED BY <3>3 DEF i, j
  <2>5. PlaceIn(s, k) = PlaceIn(t, l)
    <3>1. PlaceIn(s, k) \in Items /\ PlaceIn(t, l) \in Items
      BY <2>1, <2>2, PlacesDiffer
    <3>2. (c - 1) * Batch \in Nat
      BY <1>1, <2>1, <3>1, ChunkRows
    <3> DEFINE x == (c - 1) * Batch
    <3>3. x \in Nat /\ x + PlaceIn(s, k) = x + PlaceIn(t, l)
      BY <2>4, <3>2
    <3> HIDE DEF x
    <3>4. PlaceIn(s, k) \in Int /\ PlaceIn(t, l) \in Int
      BY <3>1 DEF Items, CallOK
    <3> QED BY <3>3, <3>4
  <2> QED BY <2>1, <2>2, <2>3, <2>5, PlacesDiffer
<1>8. ASSUME NEW r \in 1 .. Rows
      PROVE  \E s \in 1 .. call.shards : \E c \in 1 .. Chunks : \E k \in DOMAIN P[s][c] : P[s][c][k] = r
  <2>1. PICK i \in DOMAIN f : f[i] = r
    BY <1>5 DEF OrderedRows, Range
  <2>2. i \in 1 .. Rows
    BY <1>1, <1>5, <2>1 DEF OrderedRows
  <2> DEFINE c == ChunkOf(i)
  <2>3. c \in 1 .. Chunks /\ \E j \in Items : i = j + (c - 1) * Batch
    BY <1>1, <2>2, RowInChunk
  <2>4. PICK j \in Items : i = j + (c - 1) * Batch
    BY <2>3
  <2>5. PICK s \in Shards : \E k \in 1 .. ShardSize : PlaceIn(s, k) = j
    BY SomePlace
  <2>6. PICK k \in 1 .. ShardSize : PlaceIn(s, k) = j
    BY <2>5
  <2> HIDE DEF c
  <2>7. P[s][c][k] = f[(c - 1) * Batch + j] /\ k \in DOMAIN P[s][c]
    BY <1>6, <2>3, <2>6
  <2>8. (c - 1) * Batch + j = i
    <3>1. (c - 1) * Batch \in Nat /\ j \in Nat
      <4>1. (c - 1) * Batch \in Nat
        BY <1>1, <2>3, <2>4, ChunkRows
      <4> QED BY <4>1 DEF Items, CallOK
    <3> QED BY <2>4, <3>1
  <2>9. P[s][c][k] = r
    BY <2>1, <2>7, <2>8
  <2> QED BY <2>3, <2>7, <2>9 DEF Shards
<1>9. OnePieceEach(P, call.shards, Chunks, 1 .. Rows)
  BY <1>7, <1>8 DEF OnePieceEach
<1>10. \A s \in Shards : \A c \in 1 .. Chunks : \A k \in DOMAIN P[s][c] : ChunkOf(P[s][c][k]) = c
  <2> SUFFICES ASSUME NEW s \in Shards, NEW c \in 1 .. Chunks, NEW k \in DOMAIN P[s][c]
               PROVE  ChunkOf(P[s][c][k]) = c
    OBVIOUS
  <2>1. k \in 1 .. ShardSize
    BY <1>2, RangePieceRows
  <2> QED BY <1>6, <2>1
<1> QED
  BY <1>3, <1>4, <1>9, <1>10 DEF P

-----------------------------------------------------------------------------
(* Microbatches of a range of rows *)

\* train_micro_batch_size rows at a time, when it divides the shard's rows.
LEMMA PlainCovers ==
  ASSUME CallOK, WellShaped, ~Uneven, ShardSize % MicroBatch = 0, NEW s \in Shards
  PROVE  Covers(PlainMicro(s), ShardSize)
<1> DEFINE z == ShardSize
           m == MicroBatch
           q == z \div m
           off == [k \in 0 .. q |-> k * m]
           pairs == [k \in 1 .. q |-> <<off[k - 1], off[k]>>]
<1>1. z \in Nat \ {0} /\ m \in Nat \ {0}
  BY ShardsFill, DispatchAssumption
<1>2. q \in Nat /\ z = q * m
  <2> HIDE DEF z, m
  <2> QED BY <1>1, WholeQuotient DEF z, m
<1>3. PlainMicro(s) = [k \in 1 .. q |-> <<(k - 1) * m, k * m>>]
  BY DEF PlainMicro
<1> HIDE DEF z, m, q
<1>4. q \in Nat \ {0}
  <2>1. q = 0 => z = 0
    BY <1>1, <1>2
  <2> QED BY <1>1, <1>2, <2>1
<1>5. off \in [0 .. q -> Nat] /\ off[0] = 0 /\ off[q] = z
  <2>1. \A k \in 0 .. q : k * m \in Nat
    BY <1>1, <1>4
  <2>2. 0 * m = 0
    BY <1>1
  <2> QED BY <1>2, <1>4, <2>1, <2>2
<1>6. ASSUME NEW b \in 1 .. q PROVE off[b - 1] <= off[b]
  <2>1. b - 1 \in 0 .. q /\ b \in 0 .. q /\ off[b - 1] = (b - 1) * m /\ off[b] = b * m
    BY <1>4
  <2>2. b * m = (b - 1) * m + m /\ (b - 1) * m \in Nat
    BY <1>1, <1>4
  <2> HIDE DEF off
  <2> DEFINE x == (b - 1) * m
  <2>3. off[b - 1] = x /\ off[b] = x + m /\ x \in Nat
    BY <2>1, <2>2
  <2> HIDE DEF x
  <2> QED BY <1>1, <2>3
<1>7. PlainMicro(s) = pairs
  <2>1. \A k \in 1 .. q : k - 1 \in 0 .. q /\ k \in 0 .. q
    BY <1>4
  <2>2. \A k \in 1 .. q : off[k - 1] = (k - 1) * m /\ off[k] = k * m
    BY <2>1
  <2> HIDE DEF off
  <2> QED BY <1>3, <2>2
<1>8. Covers(pairs, off[q])
  <2> HIDE DEF off
  <2> QED BY <1>4, <1>5, <1>6, PairsCover
<1> QED
  BY <1>5, <1>7, <1>8 DEF z

\* The greatest value, as a number.
IsGreatest(n, f, S) == n \in Nat /\ (\A i \in S : f[i] <= n) /\ \E i \in S : f[i] = n

LEMMA MaxIsGreatest ==
  ASSUME NEW N \in Nat, NEW f \in [1 .. N -> Nat], NEW S \in SUBSET (1 .. N), S # {}
  PROVE  IsGreatest(Max({f[i] : i \in S}), f, S)
<1> DEFINE V == {f[i] : i \in S}
<1>1. PICK i \in S : \A j \in S : f[j] <= f[i]
  BY GreatestValue
<1>2. \E x \in V : \A y \in V : x >= y
  <2>1. \A j \in S : f[j] \in Nat
    OBVIOUS
  <2> QED BY <1>1, <2>1
<1>3. Max(V) \in V /\ \A y \in V : Max(V) >= y
  <2> HIDE DEF V
  <2> QED BY <1>2 DEF Max
<1>4. PICK j \in S : Max(V) = f[j]
  BY <1>3
<1>5. \A l \in S : f[l] \in Nat /\ f[l] \in V
  OBVIOUS
<1> HIDE DEF V
<1>6. \A l \in S : f[l] <= Max(V)
  BY <1>3, <1>4, <1>5
<1> QED
  BY <1>4, <1>5, <1>6 DEF IsGreatest, V

\* The greater and the smaller of two.
LEMMA GreaterOfTwo ==
  ASSUME NEW a \in Nat, NEW b \in Nat
  PROVE  /\ Max({a, b}) \in Nat /\ a <= Max({a, b}) /\ b <= Max({a, b})
         /\ (Max({a, b}) = a \/ Max({a, b}) = b)
<1>1. \E x \in {a, b} : \A y \in {a, b} : x >= y
  OBVIOUS
<1>2. Max({a, b}) \in {a, b} /\ \A y \in {a, b} : Max({a, b}) >= y
  BY <1>1 DEF Max
<1> QED
  BY <1>2

LEMMA SmallerOfTwo ==
  ASSUME NEW a \in Nat, NEW b \in Nat
  PROVE  /\ Min({a, b}) \in Nat /\ Min({a, b}) <= a /\ Min({a, b}) <= b
         /\ (Min({a, b}) = a \/ Min({a, b}) = b)
<1>1. \E x \in {a, b} : \A y \in {a, b} : x <= y
  OBVIOUS
<1>2. Min({a, b}) \in {a, b} /\ \A y \in {a, b} : Min({a, b}) <= y
  BY <1>1 DEF Min
<1> QED
  BY <1>2

\* Where the rows of a chunk are in a shard.
LEMMA RowsOfShard ==
  ASSUME CallOK, length \in [1 .. Rows -> Lengths], WellShaped, ~Uneven, NEW s \in Shards
  PROVE  /\ ShardRows(s) = FlattenSeq(RangePieces[s])
         /\ \A c \in 1 .. Chunks : \A k \in 1 .. ShardSize :
              ShardRows(s)[(c - 1) * ShardSize + k] = RangePiece(c, s)[k]
<1> DEFINE ss == RangePieces[s]
           z == ShardSize
           n == Chunks
           f == FlattenSeq(ss)
<1>1. ss \in Seq(Seq(1 .. Rows)) /\ Len(ss) = n
  BY RangePiecesPart
<1>2. ss = [c \in 1 .. n |-> RangePiece(c, s)]
  BY DEF RangePieces
<1>3. ShardRows(s) = f
  BY <1>2 DEF ShardRows, RangePiece
<1>4. \A c \in 1 .. n : ss[c] = RangePiece(c, s) /\ Len(ss[c]) = z
  BY <1>2, RangePieceRows
<1>5. n \in Nat /\ z \in Nat
  <2>1. n \in Nat
    BY <1>1
  <2> QED BY <2>1, ShardsFill
<1> HIDE DEF ss, z, n
<1>6. f \in Seq(1 .. Rows) /\ \E off : Flat(f, ss, off)
  BY <1>1, Flattens
<1>7. PICK off : Flat(f, ss, off)
  BY <1>6
<1> HIDE DEF f
<1>8. Evenly(off, n, z)
  <2>1. \A b \in 1 .. Len(ss) : Len(ss[b]) = z
    BY <1>1, <1>4
  <2>2. Evenly(off, Len(ss), z)
    BY <1>1, <1>5, <1>7, <2>1, EvenEnds
  <2> QED BY <1>1, <2>2
<1>9. ASSUME NEW c \in 1 .. n, NEW k \in 1 .. z PROVE f[(c - 1) * z + k] = RangePiece(c, s)[k]
  <2>1. off[c - 1] = (c - 1) * z
    <3>1. c - 1 \in 0 .. n
      BY <1>5
    <3> QED BY <1>8, <3>1 DEF Evenly
  <2>2. f[off[c - 1] + k] = ss[c][k]
    BY <1>1, <1>4, <1>7 DEF Flat
  <2> QED BY <1>4, <2>1, <2>2
<1> QED
  BY <1>3, <1>9 DEF f, ss, z, n

\* What a place is padded to is enough for the row that any shard has there.
LEMMA PaddedIsEnough ==
  ASSUME CallOK, length \in [1 .. Rows -> Lengths], WellShaped, ~Uneven,
         NEW c \in 1 .. Chunks, NEW k \in 1 .. ShardSize
  PROVE  /\ PaddedAt(c, k) \in Nat
         /\ \A s \in Shards : length[RangePiece(c, s)[k]] <= PaddedAt(c, k)
<1> DEFINE S == {ShardRows(s)[(c - 1) * ShardSize + k] : s \in Shards}
           a == Max({length[row] : row \in S})
           w == Max({length[row] : row \in 1 .. Rows})
<1>1. length \in [1 .. Rows -> Nat] /\ Rows \in Nat \ {0}
  BY DispatchAssumption
<1>2. ASSUME NEW s \in Shards
      PROVE  RangePiece(c, s)[k] \in S /\ RangePiece(c, s)[k] \in 1 .. Rows
  <2>1. ShardRows(s)[(c - 1) * ShardSize + k] = RangePiece(c, s)[k]
    BY RowsOfShard
  <2>2. RangePiece(c, s) \in Seq(1 .. Rows) /\ DOMAIN RangePiece(c, s) = 1 .. ShardSize
    BY RangePieceRows
  <2>3. RangePiece(c, s)[k] \in S
    BY <2>1
  <2>4. RangePiece(c, s)[k] \in 1 .. Rows
    <3> DEFINE g == RangePiece(c, s)
    <3>1. g \in Seq(1 .. Rows) /\ k \in DOMAIN g
      BY <2>2
    <3> HIDE DEF g
    <3>2. g[k] \in 1 .. Rows
      BY <3>1, MemberOfList
    <3> QED BY <3>2 DEF g
  <2> QED BY <2>3, <2>4
<1>3. S \in SUBSET (1 .. Rows)
  <2>1. \A s \in Shards : ShardRows(s)[(c - 1) * ShardSize + k] \in 1 .. Rows
    <3> TAKE s \in Shards
    <3>1. ShardRows(s)[(c - 1) * ShardSize + k] = RangePiece(c, s)[k]
      BY RowsOfShard
    <3> QED BY <1>2, <3>1
  <2> QED BY <2>1
<1>4. S # {}
  <2>1. 1 \in Shards
    BY DEF CallOK, Shards
  <2> QED BY <1>2, <2>1
<1>5. PaddedAt(c, k) = Min({Padded(a), w})
  BY DEF PaddedAt
<1> HIDE DEF S
<1>6. IsGreatest(a, length, S)
  BY <1>1, <1>3, <1>4, MaxIsGreatest
<1>7. IsGreatest(w, length, 1 .. Rows)
  <2> DEFINE T == 1 .. Rows
  <2>1. T \in SUBSET (1 .. Rows) /\ T # {}
    <3>1. 1 \in T
      BY <1>1
    <3> QED BY <3>1
  <2> HIDE DEF T
  <2>2. IsGreatest(Max({length[row] : row \in T}), length, T)
    BY <1>1, <2>1, MaxIsGreatest
  <2> QED BY <2>2 DEF T
<1> HIDE DEF a, w
<1>8. a \in Nat /\ w \in Nat /\ a <= w /\ a <= Padded(a) /\ Padded(a) \in Nat
  <2>1. a \in Nat /\ w \in Nat
    BY <1>6, <1>7 DEF IsGreatest
  <2>2. a <= w
    <3>1. PICK i \in S : length[i] = a
      BY <1>6 DEF IsGreatest
    <3> QED BY <1>3, <1>7, <3>1 DEF IsGreatest
  <2> QED BY <2>1, <2>2, PaddedAtLeast
<1>9. PaddedAt(c, k) \in Nat /\ a <= PaddedAt(c, k)
  <2> DEFINE p == Padded(a)
  <2>1. p \in Nat /\ a <= p
    BY <1>8
  <2> HIDE DEF p
  <2>2. Min({p, w}) \in Nat /\ (Min({p, w}) = p \/ Min({p, w}) = w)
    BY <1>8, <2>1, SmallerOfTwo
  <2> QED BY <1>5, <1>8, <2>1, <2>2 DEF p
<1>10. ASSUME NEW s \in Shards PROVE length[RangePiece(c, s)[k]] <= PaddedAt(c, k)
  <2> DEFINE x == length[RangePiece(c, s)[k]]
  <2>1. x <= a
    BY <1>2, <1>6 DEF IsGreatest
  <2>2. x \in Nat
    BY <1>1, <1>2
  <2> HIDE DEF x
  <2>3. x <= PaddedAt(c, k)
    BY <1>8, <1>9, <2>1, <2>2
  <2> QED BY <2>3 DEF x
<1> QED
  BY <1>9, <1>10

-----------------------------------------------------------------------------
(* Microbatches by the tokens in them *)

\* The microbatches after the first k places.
Placed(F, c, k) ==
  IF k = 0 THEN [mbs |-> <<<<0, 0>>>>, widest |-> 0] ELSE AddPlace(F[k - 1], c, k)

LEMMA PlacedInTurn ==
  ASSUME NEW c
  PROVE  \A n \in Nat : \E F : F = [k \in 0 .. n |-> Placed(F, c, k)]
<1> DEFINE Places(F, n) == F = [k \in 0 .. n |-> Placed(F, c, k)]
           S == {n \in Nat : \E F : Places(F, n)}
<1>1. 0 \in S
  <2> DEFINE F == [k \in 0 .. 0 |-> Placed(<<>>, c, k)]
  <2>1. \A k \in 0 .. 0 : Placed(<<>>, c, k) = Placed(F, c, k)
    BY DEF Placed
  <2>2. F = [k \in 0 .. 0 |-> Placed(F, c, k)]
    BY <2>1
  <2> QED BY <2>2
<1>2. ASSUME NEW n \in Nat, n \in S PROVE n + 1 \in S
  <2>1. PICK F : Places(F, n)
    BY <1>2
  <2> DEFINE G == [k \in 0 .. n + 1 |-> IF k = n + 1 THEN Placed(F, c, n + 1) ELSE F[k]]
  <2>2. ASSUME NEW k \in 0 .. n + 1 PROVE G[k] = Placed(G, c, k)
    <3>1. k > 0 => k - 1 \in 0 .. n + 1 /\ k - 1 # n + 1 /\ G[k - 1] = F[k - 1]
      OBVIOUS
    <3>2. Placed(G, c, k) = Placed(F, c, k)
      BY <3>1 DEF Placed
    <3>3. CASE k = n + 1
      BY <3>2, <3>3
    <3>4. CASE k # n + 1
      <4>1. k \in 0 .. n /\ G[k] = F[k]
        BY <3>4
      <4>2. F[k] = Placed(F, c, k)
        BY <2>1, <4>1
      <4> QED BY <3>2, <4>1, <4>2
    <3> QED BY <3>3, <3>4
  <2>3. Places(G, n + 1)
    <3>1. G = [k \in 0 .. n + 1 |-> G[k]]
      OBVIOUS
    <3> HIDE DEF G
    <3> QED BY <2>2, <3>1
  <2> HIDE DEF Places, G
  <2> QED BY <2>3
<1>3. \A n \in Nat : n \in S
  <2> HIDE DEF S
  <2> QED BY <1>1, <1>2, NaturalInduction
<1> QED
  BY <1>3

LEMMA DynamicMicroIs ==
  ASSUME NEW c, ShardSize \in Nat
  PROVE  \E F : /\ F = [k \in 0 .. ShardSize |-> Placed(F, c, k)]
                /\ DynamicMicro(c) = F[ShardSize].mbs
<1> DEFINE n == ShardSize
           chosen == CHOOSE F : F = [k \in 0 .. n |-> Placed(F, c, k)]
<1>1. \E F : F = [k \in 0 .. n |-> Placed(F, c, k)]
  BY PlacedInTurn
<1>2. chosen = [k \in 0 .. n |-> Placed(chosen, c, k)]
  BY <1>1
<1>3. DynamicMicro(c) = chosen[n].mbs
  <2> DEFINE other == CHOOSE F : F = [k \in 0 .. n |->
                IF k = 0 THEN [mbs |-> <<<<0, 0>>>>, widest |-> 0] ELSE AddPlace(F[k - 1], c, k)]
  <2>1. DynamicMicro(c) = other[n].mbs
    BY DEF DynamicMicro
  <2>2. \A F : [k \in 0 .. n |->
                  IF k = 0 THEN [mbs |-> <<<<0, 0>>>>, widest |-> 0] ELSE AddPlace(F[k - 1], c, k)]
                 = [k \in 0 .. n |-> Placed(F, c, k)]
    BY DEF Placed
  <2>3. other = chosen
    BY <2>2
  <2> QED BY <2>1, <2>3
<1> QED
  BY <1>2, <1>3

\* The rows of a microbatch, padded to w, are within the tokens allowed.
FitsIn(c, pair, w) ==
  /\ w \in Nat /\ (pair[2] - pair[1]) * w <= Capacity
  /\ \A p \in pair[1] + 1 .. pair[2] : PaddedAt(c, p) <= w

\* What holds of the microbatches after k places.
PlacesTo(c, acc, k) ==
  /\ Covers(acc.mbs, k) /\ acc.widest \in Nat
  /\ k = 0 => acc.mbs = <<<<0, 0>>>> /\ acc.widest = 0
  /\ k # 0 => \A j \in 1 .. Len(acc.mbs) : acc.mbs[j][1] < acc.mbs[j][2]
  /\ FitsIn(c, acc.mbs[Len(acc.mbs)], acc.widest)
  /\ \A j \in 1 .. Len(acc.mbs) : \E w : FitsIn(c, acc.mbs[j], w)

\* A pair after the last.
OneMorePair(pairs, more, k) ==
  /\ Covers(more, k) /\ Len(more) = Len(pairs) + 1 /\ Len(pairs) \in Nat \ {0}
  /\ more[Len(more)] = <<k - 1, k>> /\ \A j \in 1 .. Len(pairs) : more[j] = pairs[j]

LEMMA CoversMore ==
  ASSUME NEW pairs, NEW k \in Nat \ {0}, Covers(pairs, k - 1), NEW more,
         more = Append(pairs, <<k - 1, k>>)
  PROVE  OneMorePair(pairs, more, k)
<1> DEFINE n == Len(pairs)
           l == k - 1
<1>1. n \in Nat \ {0} /\ pairs \in Seq(Nat \X Nat) /\ l \in Nat /\ <<l, k>> \in Nat \X Nat
  BY CoversWithin DEF Covers
<1>2. /\ more \in Seq(Nat \X Nat) /\ Len(more) = n + 1 /\ more[n + 1] = <<l, k>>
      /\ \A j \in 1 .. n : more[j] = pairs[j]
  <2>1. more = Append(pairs, <<l, k>>)
    OBVIOUS
  <2> HIDE DEF l
  <2> QED BY <1>1, <2>1
<1>3. /\ pairs[1][1] = 0 /\ pairs[n][2] = l
      /\ \A j \in 1 .. n : pairs[j][1] <= pairs[j][2]
      /\ \A j \in 1 .. n : j > 1 => pairs[j][1] = pairs[j - 1][2]
  BY DEF Covers
<1>4. <<l, k>>[1] = l /\ <<l, k>>[2] = k /\ l <= k
  OBVIOUS
<1> HIDE DEF n, l
<1>5. more # <<>> /\ more[1][1] = 0 /\ more[n + 1][2] = k
  <2>1. 1 \in 1 .. n
    BY <1>1
  <2>2. more[1][1] = 0
    BY <1>2, <1>3, <2>1
  <2>3. more[n + 1][2] = k
    BY <1>2, <1>4
  <2>4. Len(more) # 0
    BY <1>1, <1>2
  <2> QED BY <1>2, <2>2, <2>3, <2>4
<1>6. ASSUME NEW j \in 1 .. n + 1 PROVE more[j][1] <= more[j][2]
  <2>1. CASE j = n + 1
    BY <1>2, <1>4, <2>1
  <2>2. CASE j # n + 1
    <3>1. j \in 1 .. n
      BY <1>1, <2>2
    <3> QED BY <1>2, <1>3, <3>1
  <2> QED BY <2>1, <2>2
<1>7. ASSUME NEW j \in 1 .. n + 1, j > 1 PROVE more[j][1] = more[j - 1][2]
  <2>1. CASE j = n + 1
    <3>1. j - 1 = n /\ n \in 1 .. n
      BY <1>1, <2>1
    <3> QED BY <1>2, <1>3, <1>4, <2>1, <3>1
  <2>2. CASE j # n + 1
    <3>1. j \in 1 .. n /\ j - 1 \in 1 .. n
      BY <1>1, <1>7, <2>2
    <3> QED BY <1>2, <1>3, <1>7, <3>1
  <2> QED BY <2>1, <2>2
<1>8. Covers(more, k)
  BY <1>2, <1>5, <1>6, <1>7 DEF Covers
<1> QED
  BY <1>1, <1>2, <1>8 DEF n, l, OneMorePair

\* The last pair, made longer.
Longer(pairs, k) == [pairs EXCEPT ![Len(pairs)] = <<pairs[Len(pairs)][1], k>>]

LEMMA CoversLonger ==
  ASSUME NEW pairs, NEW k \in Nat \ {0}, Covers(pairs, k - 1)
  PROVE  /\ Covers(Longer(pairs, k), k) /\ Len(Longer(pairs, k)) = Len(pairs)
         /\ Len(pairs) \in Nat \ {0}
         /\ Longer(pairs, k)[Len(pairs)] = <<pairs[Len(pairs)][1], k>>
         /\ \A j \in 1 .. Len(pairs) : j # Len(pairs) => Longer(pairs, k)[j] = pairs[j]
<1> DEFINE n == Len(pairs)
           l == k - 1
           from == pairs[n][1]
           more == Longer(pairs, k)
<1>1. n \in Nat \ {0} /\ pairs \in Seq(Nat \X Nat) /\ l \in Nat /\ from \in Nat
  <2>1. n \in Nat \ {0} /\ pairs \in Seq(Nat \X Nat)
    BY CoversWithin DEF Covers
  <2>2. n \in 1 .. Len(pairs)
    BY <2>1
  <2>3. from \in Nat
    BY <2>2, CoversWithin
  <2> QED BY <2>1, <2>3
<1>2. /\ pairs[1][1] = 0 /\ pairs[n][2] = l
      /\ \A j \in 1 .. n : pairs[j][1] <= pairs[j][2]
      /\ \A j \in 1 .. n : j > 1 => pairs[j][1] = pairs[j - 1][2]
  BY DEF Covers
<1>3. <<from, k>>[1] = from /\ <<from, k>>[2] = k /\ <<from, k>> \in Nat \X Nat
  BY <1>1
<1>4. more = [pairs EXCEPT ![n] = <<from, k>>]
  BY DEF Longer
<1>5. from <= l /\ l <= k
  <2>1. n \in 1 .. n
    BY <1>1
  <2>2. from <= pairs[n][2]
    BY <1>2, <2>1
  <2> QED BY <1>2, <2>2
<1> HIDE DEF n, l, from, more
<1>6. /\ more \in Seq(Nat \X Nat) /\ Len(more) = n /\ more[n] = <<from, k>>
      /\ \A j \in 1 .. n : j # n => more[j] = pairs[j]
  <2>1. DOMAIN pairs = 1 .. n /\ Len(pairs) = n
    BY <1>1 DEF n
  <2> QED BY <1>1, <1>3, <1>4, <2>1
<1>7. more # <<>> /\ more[1][1] = 0 /\ more[n][2] = k
  <2>1. more # <<>> /\ more[n][2] = k
    BY <1>1, <1>3, <1>6
  <2>2. more[1][1] = 0
    <3>1. CASE n = 1
      <4>1. pairs[n][1] = 0
        BY <1>2, <3>1
      <4> QED BY <1>3, <1>6, <3>1, <4>1 DEF from
    <3>2. CASE n # 1
      <4>1. 1 \in 1 .. n
        BY <1>1
      <4> QED BY <1>2, <1>6, <3>2, <4>1
    <3> QED BY <3>1, <3>2
  <2> QED BY <2>1, <2>2
<1>8. ASSUME NEW j \in 1 .. n PROVE more[j][1] <= more[j][2]
  <2>1. CASE j = n
    <3>1. from <= k
      BY <1>1, <1>5
    <3> QED BY <1>3, <1>6, <2>1, <3>1
  <2>2. CASE j # n
    BY <1>2, <1>6, <2>2
  <2> QED BY <2>1, <2>2
<1>9. ASSUME NEW j \in 1 .. n, j > 1 PROVE more[j][1] = more[j - 1][2]
  <2>1. j - 1 \in 1 .. n /\ j - 1 # n
    BY <1>1, <1>9
  <2>2. more[j - 1] = pairs[j - 1]
    BY <1>6, <2>1
  <2>3. more[j][1] = pairs[j][1]
    <3>1. CASE j = n
      BY <1>3, <1>6, <3>1 DEF from
    <3>2. CASE j # n
      BY <1>6, <3>2
    <3> QED BY <3>1, <3>2
  <2> QED BY <1>2, <1>9, <2>2, <2>3
<1>10. Covers(more, k)
  BY <1>6, <1>7, <1>8, <1>9 DEF Covers
<1> QED
  BY <1>1, <1>6, <1>10 DEF n, more, from

\* A microbatch of one place.
LEMMA OnePlaceFits ==
  ASSUME NEW c, NEW k \in Nat \ {0}, PaddedAt(c, k) \in Nat, PaddedAt(c, k) <= Capacity
  PROVE  FitsIn(c, <<k - 1, k>>, PaddedAt(c, k))
<1> DEFINE w == PaddedAt(c, k)
           l == k - 1
<1>1. <<l, k>>[1] = l /\ <<l, k>>[2] = k /\ l \in Nat /\ k - l = 1 /\ l + 1 = k
  OBVIOUS
<1> HIDE DEF l
<1>2. (k - l) * w = w
  BY <1>1
<1>3. \A p \in l + 1 .. k : PaddedAt(c, p) <= w
  <2> SUFFICES ASSUME NEW p \in l + 1 .. k PROVE PaddedAt(c, p) <= w
    OBVIOUS
  <2>1. p = k
    BY <1>1
  <2>2. w <= w
    OBVIOUS
  <2> QED BY <2>1, <2>2
<1>4. FitsIn(c, <<l, k>>, w)
  <2>1. (<<l, k>>[2] - <<l, k>>[1]) * w <= Capacity
    BY <1>1, <1>2
  <2>2. \A p \in <<l, k>>[1] + 1 .. <<l, k>>[2] : PaddedAt(c, p) <= w
    BY <1>1, <1>3
  <2> QED BY <2>1, <2>2 DEF FitsIn
<1> QED
  BY <1>4 DEF l, w

\* One place more in the last microbatch.
LEMMA LongerFits ==
  ASSUME NEW c, NEW k \in Nat \ {0}, \A p \in 1 .. k : PaddedAt(c, p) \in Nat,
         NEW from \in Nat, from <= k - 1, NEW v \in Nat, FitsIn(c, <<from, k - 1>>, v),
         NEW w \in Nat, v <= w, PaddedAt(c, k) <= w, ((k - 1) - from + 1) * w <= Capacity
  PROVE  FitsIn(c, <<from, k>>, w)
<1> DEFINE l == k - 1
<1>1. /\ <<from, l>>[1] = from /\ <<from, l>>[2] = l
      /\ <<from, k>>[1] = from /\ <<from, k>>[2] = k /\ l \in Nat /\ k = l + 1
  OBVIOUS
<1>2. (k - from) * w <= Capacity
  <2>1. (k - 1) - from + 1 = k - from
    OBVIOUS
  <2> QED BY <2>1
<1>3. ASSUME NEW p \in from + 1 .. k PROVE PaddedAt(c, p) <= w
  <2>1. CASE p = k
    BY <2>1
  <2>2. CASE p # k
    <3>1. p \in from + 1 .. l /\ p \in 1 .. k
      BY <2>2
    <3>2. PaddedAt(c, p) <= v
      BY <1>1, <3>1 DEF FitsIn
    <3>3. PaddedAt(c, p) \in Nat
      BY <3>1
    <3> DEFINE x == PaddedAt(c, p)
    <3> HIDE DEF x
    <3>4. x \in Nat /\ x <= v
      BY <3>2, <3>3 DEF x
    <3>5. x <= w
      BY <3>4
    <3> QED BY <3>5 DEF x
  <2> QED BY <2>1, <2>2
<1>4. (<<from, k>>[2] - <<from, k>>[1]) * w <= Capacity
  BY <1>1, <1>2
<1>5. \A p \in <<from, k>>[1] + 1 .. <<from, k>>[2] : PaddedAt(c, p) <= w
  BY <1>1, <1>3
<1> QED
  BY <1>4, <1>5 DEF FitsIn

LEMMA AddPlaceKeeps ==
  ASSUME NEW c, NEW k \in Nat \ {0}, \A p \in 1 .. k : PaddedAt(c, p) \in Nat,
         PaddedAt(c, k) <= Capacity, NEW acc, PlacesTo(c, acc, k - 1)
  PROVE  PlacesTo(c, AddPlace(acc, c, k), k)
<1> DEFINE mbs == acc.mbs
           n == Len(mbs)
           last == mbs[n]
           from == last[1]
           v == acc.widest
           x == PaddedAt(c, k)
           w == Max({v, x})
           new == AddPlace(acc, c, k)
           l == k - 1
<1>1. /\ Covers(mbs, l) /\ v \in Nat /\ FitsIn(c, last, v)
      /\ l = 0 => mbs = <<<<0, 0>>>> /\ v = 0
      /\ l # 0 => \A j \in 1 .. n : mbs[j][1] < mbs[j][2]
      /\ \A j \in 1 .. n : \E u : FitsIn(c, mbs[j], u)
  BY DEF PlacesTo
<1>2. n \in Nat \ {0} /\ last[2] = l /\ from \in Nat /\ last = <<from, l>> /\ from <= l
  <2>1. n \in Nat \ {0} /\ mbs \in Seq(Nat \X Nat) /\ last[2] = l
    BY <1>1, CoversWithin DEF Covers
  <2>2. n \in 1 .. n
    BY <2>1
  <2>3. last \in Nat \X Nat /\ last[1] <= last[2]
    BY <1>1, <2>1, <2>2 DEF Covers
  <2> QED BY <2>1, <2>3
<1>3. x \in Nat /\ x <= Capacity /\ w \in Nat /\ v <= w /\ x <= w /\ (w = v \/ w = x)
  <2>1. k \in 1 .. k
    OBVIOUS
  <2>2. x \in Nat /\ x <= Capacity
    BY <2>1
  <2> HIDE DEF x, v
  <2> QED BY <1>1, <2>2, GreaterOfTwo
<1>4. new = IF (last[2] - last[1] + 1) * w <= Capacity
            THEN [mbs |-> [mbs EXCEPT ![n] = <<last[1], last[2] + 1>>], widest |-> w]
            ELSE [mbs |-> Append(mbs, <<k - 1, k>>), widest |-> x]
  BY DEF AddPlace
<1>5. l \in Nat /\ k = l + 1
  OBVIOUS
<1> HIDE DEF new, w, x
<1>6. CASE (l - from + 1) * w <= Capacity
  <2> DEFINE more == Longer(mbs, k)
  <2>1. new.mbs = more /\ new.widest = w
    <3>1. new = [mbs |-> [mbs EXCEPT ![n] = <<last[1], last[2] + 1>>], widest |-> w]
      BY <1>2, <1>4, <1>6
    <3>2. [mbs EXCEPT ![n] = <<last[1], last[2] + 1>>] = more
      <4>1. last[2] + 1 = k
        BY <1>2, <1>5
      <4> QED BY <4>1 DEF Longer
    <3> HIDE DEF mbs, more, l, from, last
    <3> QED BY <3>1, <3>2
  <2>2. /\ Covers(more, k) /\ Len(more) = n /\ more[n] = <<from, k>>
        /\ \A j \in 1 .. n : j # n => more[j] = mbs[j]
    BY <1>1, CoversLonger
  <2>3. FitsIn(c, more[n], w)
    <3>1. FitsIn(c, <<from, k - 1>>, v)
      BY <1>1, <1>2
    <3>2. PaddedAt(c, k) <= w /\ from <= k - 1 /\ ((k - 1) - from + 1) * w <= Capacity
      BY <1>2, <1>3, <1>6 DEF x
    <3> HIDE DEF from, v, l
    <3>3. FitsIn(c, <<from, k>>, w)
      BY <1>1, <1>2, <1>3, <3>1, <3>2, LongerFits
    <3> QED BY <2>2, <3>3
  <2> HIDE DEF more, mbs, from, l, v, last
  <2>4. ASSUME NEW j \in 1 .. n
        PROVE  more[j][1] < more[j][2] /\ \E u : FitsIn(c, more[j], u)
    <3>1. CASE j = n
      <4>1. <<from, k>>[1] = from /\ <<from, k>>[2] = k /\ from < k
        BY <1>2, <1>5
      <4> QED BY <2>2, <2>3, <3>1, <4>1
    <3>2. CASE j # n
      <4>1. l # 0
        <5>1. l = 0 => n = 1
          BY <1>1 DEF n
        <5>2. n \in Nat \ {0}
          BY <1>2
        <5> HIDE DEF n
        <5>3. n # 1
          BY <3>2, <5>2
        <5> QED BY <5>1, <5>3
      <4> QED BY <1>1, <2>2, <3>2, <4>1
    <3> QED BY <3>1, <3>2
  <2>5. n = Len(more) /\ k # 0
    BY <2>2
  <2>6. PlacesTo(c, new, k)
    BY <1>3, <2>1, <2>2, <2>3, <2>4, <2>5 DEF PlacesTo
  <2> QED BY <2>6 DEF new
<1>7. CASE ~((l - from + 1) * w <= Capacity)
  <2> DEFINE more == Append(mbs, <<k - 1, k>>)
  <2>1. new.mbs = more /\ new.widest = x
    <3>1. new = [mbs |-> more, widest |-> x]
      BY <1>2, <1>4, <1>7
    <3> HIDE DEF mbs, more, l, from, last
    <3> QED BY <3>1
  <2>2. /\ Covers(more, k) /\ Len(more) = n + 1 /\ more[Len(more)] = <<k - 1, k>>
        /\ \A j \in 1 .. n : more[j] = mbs[j]
    <3>1. more = Append(mbs, <<k - 1, k>>) /\ Covers(mbs, k - 1)
      BY <1>1
    <3> HIDE DEF more, mbs
    <3>2. OneMorePair(mbs, more, k)
      BY <3>1, CoversMore
    <3> QED BY <3>2 DEF n, OneMorePair
  <2>3. l # 0
    <3> SUFFICES ASSUME l = 0 PROVE FALSE
      OBVIOUS
    <3>1. v = 0 /\ from = 0
      <4>1. from <= 0
        BY <1>2
      <4> QED BY <1>1, <1>2, <4>1
    <3>2. l - from + 1 = 1
      BY <3>1
    <3>3. (l - from + 1) * w = w
      BY <1>3, <3>2
    <3>4. w <= Capacity
      BY <1>3, <3>1, PackingAssumption
    <3> QED BY <1>7, <3>3, <3>4
  <2>4. FitsIn(c, more[Len(more)], x)
    <3>1. FitsIn(c, <<k - 1, k>>, x)
      BY <1>3, OnePlaceFits DEF x
    <3> QED BY <2>2, <3>1
  <2> HIDE DEF more, mbs, from, v, last, n
  <2>5. ASSUME NEW j \in 1 .. Len(more)
        PROVE  more[j][1] < more[j][2] /\ \E u : FitsIn(c, more[j], u)
    <3>1. CASE j = Len(more)
      <4>1. <<k - 1, k>>[1] = k - 1 /\ <<k - 1, k>>[2] = k /\ k - 1 < k
        OBVIOUS
      <4> QED BY <2>2, <2>4, <3>1, <4>1
    <3>2. CASE j # Len(more)
      <4>1. j \in 1 .. n
        BY <1>2, <2>2, <3>2
      <4> QED BY <1>1, <2>2, <2>3, <4>1
    <3> QED BY <3>1, <3>2
  <2>6. PlacesTo(c, new, k)
    BY <1>3, <2>1, <2>2, <2>4, <2>5 DEF PlacesTo
  <2> QED BY <2>6 DEF new
<1> QED
  BY <1>6, <1>7

\* The microbatches of all the places.
LEMMA DynamicCovers ==
  ASSUME CallOK, length \in [1 .. Rows -> Lengths], WellShaped, ~Uneven, NEW c \in 1 .. Chunks,
         \A k \in 1 .. ShardSize : PaddedAt(c, k) <= Capacity
  PROVE  /\ Covers(DynamicMicro(c), ShardSize)
         /\ \A j \in 1 .. Len(DynamicMicro(c)) :
              /\ DynamicMicro(c)[j][1] < DynamicMicro(c)[j][2]
              /\ \E w : FitsIn(c, DynamicMicro(c)[j], w)
<1> DEFINE n == ShardSize
<1>1. n \in Nat \ {0}
  BY ShardsFill
<1>2. PICK F : F = [k \in 0 .. n |-> Placed(F, c, k)] /\ DynamicMicro(c) = F[n].mbs
  BY <1>1, DynamicMicroIs
<1>3. \A k \in 1 .. n : PaddedAt(c, k) \in Nat /\ PaddedAt(c, k) <= Capacity
  BY PaddedIsEnough
<1> HIDE DEF n
<1> DEFINE S == {k \in Nat : k <= n => PlacesTo(c, F[k], k)}
<1>4. 0 \in S
  <2> DEFINE pairs == <<<<0, 0>>>>
             acc == [mbs |-> pairs, widest |-> 0]
             zero == <<0, 0>>
  <2>1. F[0] = acc
    <3>1. 0 \in 0 .. n
      BY <1>1
    <3>2. F[0] = Placed(F, c, 0)
      BY <1>2, <3>1
    <3> QED BY <3>2 DEF Placed
  <2>2. zero[1] = 0 /\ zero[2] = 0 /\ zero \in Nat \X Nat /\ pairs = <<zero>>
    OBVIOUS
  <2> HIDE DEF zero, pairs
  <2>3. pairs \in Seq(Nat \X Nat) /\ Len(pairs) = 1 /\ pairs[1] = zero /\ pairs # <<>>
    BY <2>2
  <2>4. Covers(pairs, 0)
    BY <2>2, <2>3 DEF Covers
  <2>5. FitsIn(c, zero, 0)
    <3>1. (0 - 0) * 0 <= Capacity
      BY PackingAssumption
    <3>2. 0 + 1 .. 0 = {}
      OBVIOUS
    <3> QED BY <2>2, <3>1, <3>2 DEF FitsIn
  <2>6. acc.mbs = pairs /\ acc.widest = 0
    OBVIOUS
  <2>7. pairs = <<<<0, 0>>>>
    BY DEF pairs
  <2> HIDE DEF acc
  <2>8. \A j \in 1 .. Len(pairs) : \E w : FitsIn(c, pairs[j], w)
    BY <2>3, <2>5
  <2>9. PlacesTo(c, acc, 0)
    BY <2>3, <2>4, <2>5, <2>6, <2>7, <2>8 DEF PlacesTo
  <2> QED BY <2>1, <2>9
<1>5. ASSUME NEW m \in Nat, m \in S PROVE m + 1 \in S
  <2> DEFINE k == m + 1
  <2> SUFFICES ASSUME k <= n PROVE PlacesTo(c, F[k], k)
    OBVIOUS
  <2>1. k \in 1 .. n /\ k \in 0 .. n /\ k # 0 /\ k - 1 = m /\ k \in Nat \ {0}
    BY <1>1
  <2>2. PlacesTo(c, F[m], m)
    BY <1>1, <1>5, <2>1
  <2> HIDE DEF k
  <2>3. F[k] = AddPlace(F[k - 1], c, k)
    <3>1. F[k] = Placed(F, c, k)
      BY <1>2, <2>1
    <3> QED BY <2>1, <3>1 DEF Placed
  <2>4. \A p \in 1 .. k : PaddedAt(c, p) \in Nat
    <3>1. \A p \in 1 .. k : p \in 1 .. n
      BY <1>1, <2>1
    <3> QED BY <1>3, <3>1
  <2>5. PlacesTo(c, F[k - 1], k - 1) /\ PaddedAt(c, k) <= Capacity
    BY <1>3, <2>1, <2>2
  <2> QED BY <2>1, <2>3, <2>4, <2>5, AddPlaceKeeps
<1>6. PlacesTo(c, F[n], n)
  <2>1. \A k \in Nat : k \in S
    <3> HIDE DEF S
    <3> QED BY <1>4, <1>5, NaturalInduction
  <2>2. n \in S
    BY <1>1, <2>1
  <2>3. n <= n
    BY <1>1
  <2> QED BY <2>2, <2>3
<1> QED
  BY <1>1, <1>2, <1>6 DEF PlacesTo, n

\* A microbatch of places that fit is within the tokens allowed.
SliceInTokens(piece, pair) ==
  LET rows == SubSeq(piece, pair[1] + 1, pair[2]) IN
  rows # <<>> /\ Tokens(length, rows) <= Capacity

LEMMA DynamicTokens ==
  ASSUME CallOK, length \in [1 .. Rows -> Lengths], WellShaped, ~Uneven,
         NEW c \in 1 .. Chunks, NEW s \in Shards, NEW pairs, Covers(pairs, ShardSize),
         NEW j \in 1 .. Len(pairs), pairs[j][1] < pairs[j][2], NEW w, FitsIn(c, pairs[j], w)
  PROVE  SliceInTokens(RangePiece(c, s), pairs[j])
<1> DEFINE z == ShardSize
           g == RangePiece(c, s)
           a == pairs[j][1]
           b == pairs[j][2]
           rows == SubSeq(g, a + 1, b)
<1>1. g \in Seq(1 .. Rows) /\ Len(g) = z
  BY RangePieceRows
<1>2. \A k \in 1 .. z : PaddedAt(c, k) \in Nat /\ length[g[k]] <= PaddedAt(c, k)
  BY PaddedIsEnough
<1>3. a \in Nat /\ b \in Nat /\ b <= z /\ a < b /\ z \in Nat
  BY CoversWithin
<1>4. w \in Nat /\ (b - a) * w <= Capacity /\ \A p \in a + 1 .. b : PaddedAt(c, p) <= w
  BY DEF FitsIn
<1>5. length \in [1 .. Rows -> Nat]
  BY DispatchAssumption
<1> HIDE DEF g, z, a, b
<1>6. /\ rows \in Seq(1 .. Rows) /\ Len(rows) = b - a
      /\ \A i \in 1 .. b - a : rows[i] = g[a + i] /\ a + i \in 1 .. Len(g)
  <2>1. a <= b /\ b <= Len(g)
    BY <1>1, <1>3
  <2>2. rows = SubSeq(g, a + 1, b)
    OBVIOUS
  <2> HIDE DEF rows
  <2>3. PartOf(rows, 1 .. Rows, g, a, b)
    BY <1>1, <1>3, <2>1, <2>2, SlicePart
  <2> QED BY <2>3 DEF PartOf
<1> HIDE DEF rows
<1>7. ASSUME NEW i \in 1 .. Len(rows) PROVE length[rows[i]] <= w
  <2> DEFINE k == a + i
  <2>1. i \in 1 .. b - a /\ rows[i] = g[k] /\ k \in 1 .. z
    BY <1>1, <1>6
  <2>2. k \in a + 1 .. b
    BY <1>3, <2>1
  <2> DEFINE x == length[g[k]]
             p == PaddedAt(c, k)
  <2>3. x <= p /\ p <= w /\ p \in Nat
    BY <1>2, <1>4, <2>1, <2>2
  <2>4. x \in Nat
    <3>1. k \in DOMAIN g
      BY <1>1, <2>1
    <3>2. g[k] \in 1 .. Rows
      BY <1>1, <3>1, MemberOfList
    <3> QED BY <1>5, <3>2
  <2> HIDE DEF x, p
  <2>5. x <= w
    BY <1>4, <2>3, <2>4
  <2> QED BY <2>1, <2>5 DEF x
<1>8. Tokens(length, rows) <= Len(rows) * w
  BY <1>4, <1>5, <1>6, <1>7, TokensWithin
<1>9. Tokens(length, rows) \in Nat
  <2>1. 1 \in 1 .. Rows
    BY DispatchAssumption
  <2> QED BY <1>5, <1>6, <2>1, TokensOfMore
<1>10. Tokens(length, rows) <= Capacity
  <2> DEFINE t == Tokens(length, rows)
             y == (b - a) * w
  <2>1. t <= y /\ t \in Nat /\ y <= Capacity /\ y \in Int /\ Capacity \in Nat
    <3>1. y \in Int
      BY <1>3, <1>4
    <3> QED BY <1>4, <1>6, <1>8, <1>9, <3>1, PackingAssumption
  <2> HIDE DEF t, y
  <2>2. t <= Capacity
    BY <2>1
  <2> QED BY <2>2 DEF t
<1>11. rows # <<>>
  <2>1. Len(rows) # 0
    BY <1>3, <1>6
  <2> QED BY <1>6, <2>1
<1> QED
  BY <1>10, <1>11 DEF SliceInTokens, rows, g, a, b

RangeShards == [s \in Shards |-> ShardRows(s)]

RangeMicros == [s \in Shards |-> [c \in 1 .. Chunks |->
                  IF call.batching = "dynamic" THEN DynamicMicro(c) ELSE PlainMicro(s)]]

\* The microbatches of a shard's rows of a chunk.
LEMMA RangeMicro ==
  ASSUME CallOK, length \in [1 .. Rows -> Lengths], WellShaped, ~Uneven, RowsFit,
         NEW c \in 1 .. Chunks, NEW s \in Shards
  PROVE  /\ Covers(RangeMicros[s][c], ShardSize)
         /\ call.batching = "dynamic" =>
              \A j \in 1 .. Len(RangeMicros[s][c]) :
                SliceInTokens(RangePiece(c, s), RangeMicros[s][c][j])
<1>1. CASE call.batching = "dynamic"
  <2> DEFINE pairs == DynamicMicro(c)
  <2>1. RangeMicros[s][c] = pairs
    BY <1>1 DEF RangeMicros
  <2>2. \A k \in 1 .. ShardSize : PaddedAt(c, k) <= Capacity
    BY <1>1 DEF RowsFit
  <2>3. /\ Covers(pairs, ShardSize)
        /\ \A j \in 1 .. Len(pairs) :
             pairs[j][1] < pairs[j][2] /\ \E w : FitsIn(c, pairs[j], w)
    BY <2>2, DynamicCovers
  <2> HIDE DEF pairs
  <2>4. ASSUME NEW j \in 1 .. Len(pairs) PROVE SliceInTokens(RangePiece(c, s), pairs[j])
    <3>1. PICK w : FitsIn(c, pairs[j], w)
      BY <2>3
    <3>2. pairs[j][1] < pairs[j][2]
      BY <2>3
    <3> QED BY <2>3, <3>1, <3>2, DynamicTokens
  <2> QED BY <2>1, <2>3, <2>4
<1>2. CASE call.batching # "dynamic"
  <2>1. RangeMicros[s][c] = PlainMicro(s)
    BY <1>2 DEF RangeMicros
  <2>2. ShardSize % MicroBatch = 0
    BY <1>2 DEF RowsFit
  <2>3. Covers(PlainMicro(s), ShardSize)
    BY <2>2, PlainCovers
  <2> QED BY <1>2, <2>1, <2>3
<1> QED
  BY <1>1, <1>2

LEMMA RangeLayout ==
  ASSUME CallOK, length \in [1 .. Rows -> Lengths], WellShaped, ~Uneven, RowsFit,
         call.batching \in {"dynamic", "plain"}
  PROVE  Layout(RangeShards, RangeMicros)
<1> DEFINE sh == RangeShards
           mi == RangeMicros
           P == RangePieces
           m == call.shards
           n == Chunks
<1>1. /\ P \in [Shards -> Seq(Seq(1 .. Rows))] /\ \A s \in Shards : Len(P[s]) = n
      /\ OnePieceEach(P, m, n, 1 .. Rows)
      /\ \A s \in Shards : \A c \in 1 .. n : \A k \in DOMAIN P[s][c] : ChunkOf(P[s][c][k]) = c
  BY RangePiecesPart
<1>2. m \in Nat \ {0} /\ n \in Nat /\ Shards = 1 .. m
  <2>1. Rows \in Nat
    BY DispatchAssumption
  <2> QED BY <2>1, QuotientIsNatural DEF CallOK, Chunks, Shards
<1>3. sh = [s \in 1 .. m |-> FlattenSeq(P[s])]
  <2>1. \A s \in Shards : ShardRows(s) = FlattenSeq(P[s])
    BY RowsOfShard
  <2> QED BY <1>2, <2>1 DEF RangeShards
<1>4. sh \in Seq(Seq(1 .. Rows)) /\ Apart(sh) /\ Held(sh) = 1 .. Rows
  <2> HIDE DEF P, m, n
  <2>1. Parted(Joined(P, m), 1 .. Rows)
    BY <1>1, <1>2, ShardsPart
  <2> QED BY <1>3, <2>1 DEF Parted, Joined
<1>5. DOMAIN sh = Shards /\ DOMAIN mi = Shards
  BY DEF RangeShards, RangeMicros
<1>6. ASSUME NEW s \in Shards
      PROVE  /\ \E off : InTurn(sh[s], mi[s], off)
             /\ call.batching # "plain" => \A c \in 1 .. n : InTokens(sh[s], mi[s], c)
  <2> DEFINE ss == P[s]
             f == sh[s]
             ms == mi[s]
  <2>1. ss \in Seq(Seq(1 .. Rows)) /\ Len(ss) = n
    BY <1>1
  <2>2. f = FlattenSeq(ss)
    BY <1>2, <1>3
  <2>3. \A c \in 1 .. n : ss[c] = RangePiece(c, s) /\ Len(ss[c]) = ShardSize
    BY RangePieceRows DEF RangePieces
  <2>4. \A c \in 1 .. n : \A k \in DOMAIN ss[c] : ChunkOf(ss[c][k]) = c
    BY <1>1
  <2>5. \A c \in 1 .. n : Covers(ms[c], Len(ss[c]))
    <3> TAKE c \in 1 .. n
    <3>1. Covers(ms[c], ShardSize) /\ Len(ss[c]) = ShardSize
      BY <2>3, RangeMicro
    <3> QED BY <3>1
  <2>6. call.batching # "plain" =>
          \A c \in 1 .. n : \A j \in 1 .. Len(ms[c]) : SliceInTokens(ss[c], ms[c][j])
    <3> SUFFICES ASSUME call.batching # "plain", NEW c \in 1 .. n, NEW j \in 1 .. Len(ms[c])
                 PROVE  SliceInTokens(ss[c], ms[c][j])
      OBVIOUS
    <3>1. SliceInTokens(RangePiece(c, s), ms[c][j])
      BY RangeMicro
    <3>2. ss[c] = RangePiece(c, s)
      BY <2>3
    <3> QED BY <3>1, <3>2
  <2> HIDE DEF ss, f, ms
  <2>7. f \in Seq(1 .. Rows) /\ \E off : Flat(f, ss, off)
    BY <2>1, <2>2, Flattens
  <2>8. PICK off : Flat(f, ss, off)
    BY <2>7
  <2>9. InTurn(f, ms, off)
    <3>1. \A c \in 1 .. n : ~Uneven => Covers(ms[c], Len(ss[c]))
      BY <2>5
    <3>2. call.batching # "packing" /\ ~Uneven => \A c \in 1 .. Chunks : Len(ss[c]) = ShardSize
      BY <2>3
    <3> QED BY <1>2, <2>1, <2>4, <2>7, <2>8, <3>1, <3>2, PiecesInTurn
  <2>10. ASSUME call.batching # "plain", NEW c \in 1 .. n PROVE InTokens(f, ms, c)
    <3>1. ms[c] # <<>> /\ DOMAIN ms[c] = 1 .. Len(ms[c])
      BY <2>5, CoversWithin DEF Covers
    <3>2. ASSUME NEW k \in DOMAIN ms[c]
          PROVE  /\ MicroOf(f, ms, c, k) # <<>>
                 /\ Tokens(length, MicroOf(f, ms, c, k)) <= Capacity
      <4>1. k \in 1 .. Len(ms[c])
        BY <3>1
      <4>2. IsMicro(f, ms, ss[c], c, k)
        BY <2>1, <2>5, <2>7, <2>8, <2>9, <4>1, MicroOfPiece
      <4>3. SliceInTokens(ss[c], ms[c][k])
        BY <2>6, <2>10, <4>1
      <4> QED BY <4>2, <4>3 DEF IsMicro, SliceInTokens
    <3> QED BY <3>1, <3>2 DEF InTokens
  <2> QED BY <2>9, <2>10 DEF f, ms
<1> QED
  BY <1>4, <1>5, <1>6 DEF Layout

-----------------------------------------------------------------------------
(* A batch of one chunk, whose shards are slices of it *)

LEMMA OneChunk ==
  ASSUME call.op # "train"
  PROVE  Batch = Rows /\ Chunks = 1 /\ Rows \in Nat \ {0} /\ \A i \in 1 .. Rows : ChunkOf(i) = 1
<1>1. Batch = Rows /\ Rows \in Nat \ {0}
  BY DispatchAssumption DEF Batch
<1>2. Chunks = 1
  <2>1. Rows \div Rows = 1
    BY <1>1
  <2> QED BY <1>1, <2>1 DEF Chunks
<1>3. ASSUME NEW i \in 1 .. Rows PROVE ChunkOf(i) = 1
  <2>1. i - 1 \in 0 .. (Rows - 1)
    BY <1>1
  <2>2. (i - 1) \div Rows = 0
    BY <1>1, <2>1
  <2> QED BY <1>1, <2>2 DEF ChunkOf
<1> QED
  BY <1>1, <1>2, <1>3

\* Where the rows of a shard end.
EndOf(s) == Min({s * ShardSize, Rows})

LEMMA EndsOfShards ==
  ASSUME CallOK, WellShaped, call.op # "train"
  PROVE  /\ \A s \in 0 .. call.shards : EndOf(s) \in Nat
         /\ EndOf(0) = 0 /\ EndOf(call.shards) = Rows
         /\ \A s \in Shards : EndOf(s - 1) <= EndOf(s)
         /\ \A s \in Shards : RangeOf(1, s) = <<EndOf(s - 1), EndOf(s)>>
<1> DEFINE m == call.shards
           z == ShardSize
<1>1. m \in Nat \ {0} /\ Rows \in Nat \ {0} /\ Batch = Rows /\ Shards = 1 .. m
  BY OneChunk DEF CallOK, Shards
<1>2. z \in Nat /\ m * z >= Rows /\ (~Uneven => m * z = Rows)
  <2>1. CASE Uneven
    <3>1. z = (Rows + m - 1) \div m
      BY <1>1, <2>1 DEF ShardSize
    <3> DEFINE n == Rows + m - 1
    <3> HIDE DEF m, z
    <3>2. n \in Nat /\ z = n \div m
      BY <1>1, <3>1
    <3>3. n = m * z + (n % m) /\ n % m \in 0 .. (m - 1) /\ z \in Nat
      <4> HIDE DEF n
      <4> QED BY <1>1, <3>2
    <3> DEFINE p == m * z
               r == n % m
    <3>4. p \in Nat /\ r \in 0 .. (m - 1) /\ Rows + m - 1 = p + r
      BY <1>1, <3>3
    <3> HIDE DEF p, r
    <3>5. p >= Rows
      BY <1>1, <3>4
    <3> QED BY <2>1, <3>3, <3>5 DEF p
  <2>2. CASE ~Uneven
    <3>1. z \in Nat \ {0} /\ Batch = m * z
      BY <2>2, ShardsFill
    <3> QED BY <1>1, <3>1
  <2> QED BY <2>1, <2>2
<1>3. \A s \in 0 .. m : s * z \in Nat
  <2> HIDE DEF m, z
  <2> QED BY <1>1, <1>2
<1>4. ASSUME NEW s \in 0 .. m
      PROVE  /\ EndOf(s) \in Nat /\ EndOf(s) <= Rows /\ EndOf(s) <= s * z
             /\ (EndOf(s) = s * z \/ EndOf(s) = Rows)
  <2> DEFINE x == s * z
  <2>1. x \in Nat /\ EndOf(s) = Min({x, Rows})
    BY <1>3 DEF EndOf
  <2> HIDE DEF x
  <2>2. EndOf(s) \in Nat /\ EndOf(s) <= x /\ EndOf(s) <= Rows /\ (EndOf(s) = x \/ EndOf(s) = Rows)
    BY <1>1, <2>1, SmallerOfTwo
  <2> QED BY <2>2 DEF x
<1>5. EndOf(0) = 0
  <2>1. 0 \in 0 .. m /\ 0 * z = 0
    BY <1>1, <1>2
  <2>2. EndOf(0) \in Nat /\ EndOf(0) <= 0
    BY <1>4, <2>1
  <2> QED BY <2>2
<1>6. EndOf(m) = Rows
  <2>1. m \in 0 .. m
    BY <1>1
  <2>2. EndOf(m) \in Nat /\ EndOf(m) <= Rows /\ (EndOf(m) = m * z \/ EndOf(m) = Rows)
    BY <1>4, <2>1
  <2> DEFINE p == m * z
             e == EndOf(m)
  <2>3. p >= Rows /\ e \in Nat /\ e <= Rows /\ (e = p \/ e = Rows)
    BY <1>2, <2>2
  <2> HIDE DEF p, e
  <2>4. e = Rows
    BY <1>1, <2>3
  <2> QED BY <2>4 DEF e
<1>7. ASSUME NEW s \in Shards
      PROVE  /\ EndOf(s - 1) <= EndOf(s) /\ RangeOf(1, s) = <<EndOf(s - 1), EndOf(s)>>
  <2> DEFINE x == (s - 1) * z
             y == s * z
             u == EndOf(s - 1)
             e == EndOf(s)
  <2>1. s \in 1 .. m /\ s \in 0 .. m /\ s - 1 \in 0 .. m
    BY <1>1
  <2>2. x \in Nat /\ y \in Nat /\ y = x + z
    <3>1. x \in Nat /\ y \in Nat
      BY <1>3, <2>1
    <3>2. s \in Nat \ {0}
      BY <1>1, <2>1
    <3> HIDE DEF m, z
    <3>3. s * z = (s - 1) * z + z
      BY <1>2, <3>2
    <3> QED BY <3>1, <3>3
  <2>3. /\ u \in Nat /\ u <= Rows /\ u <= x /\ (u = x \/ u = Rows)
        /\ e \in Nat /\ e <= Rows /\ e <= y /\ (e = y \/ e = Rows)
    BY <1>4, <2>1
  <2>4. u <= e
    <3> HIDE DEF x, y, u, e, m, z
    <3> QED BY <1>1, <1>2, <2>2, <2>3
  <2>5. RangeOf(1, s) = IF Uneven THEN <<Min({x, Rows}), Min({y, Rows})>> ELSE <<x, y>>
    <3>1. (1 - 1) * Batch = 0
      BY <1>1
    <3>2. RangeOf(1, s) = IF Uneven THEN <<Min({0 + x, Rows}), Min({0 + y, Rows})>>
                                    ELSE <<0 + x, 0 + y>>
      BY <3>1 DEF RangeOf
    <3>3. 0 + x = x /\ 0 + y = y
      BY <2>2
    <3> HIDE DEF x, y
    <3> QED BY <3>2, <3>3
  <2>6. u = Min({x, Rows}) /\ e = Min({y, Rows})
    BY DEF EndOf
  <2>7. ~Uneven => u = x /\ e = y
    <3> SUFFICES ASSUME ~Uneven PROVE u = x /\ e = y
      OBVIOUS
    <3>1. m * z = Rows
      BY <1>2
    <3>2. y <= Rows
      <4>1. s \in Nat /\ s <= m
        BY <1>1, <2>1
      <4> HIDE DEF m, z
      <4>2. s * z <= m * z
        BY <1>1, <1>2, <4>1
      <4> QED BY <3>1, <4>2 DEF y
    <3> HIDE DEF x, y, u, e, m, z
    <3> QED BY <1>1, <1>2, <2>2, <2>3, <3>2
  <2> HIDE DEF x, y
  <2>8. RangeOf(1, s) = <<u, e>>
    <3>1. CASE Uneven
      BY <2>5, <2>6, <3>1
    <3>2. CASE ~Uneven
      BY <2>5, <2>7, <3>2
    <3> QED BY <3>1, <3>2
  <2> QED BY <2>4, <2>8
<1> QED
  BY <1>1, <1>4, <1>5, <1>6, <1>7

\* The shards of one chunk are slices of the rows in their order.
LEMMA OneChunkSliced ==
  ASSUME CallOK, length \in [1 .. Rows -> Lengths], WellShaped, call.op # "train",
         call.batching = "dynamic" => ~Uneven
  PROVE  \E off : Sliced(DataOrder, RangeShards, off)
<1> DEFINE m == call.shards
           ss == RangeShards
           f == DataOrder
           off == [s \in 0 .. m |-> EndOf(s)]
<1>1. m \in Nat \ {0} /\ Shards = 1 .. m /\ Rows \in Nat \ {0} /\ Chunks = 1
  BY OneChunk DEF CallOK, Shards
<1>2. Len(f) = Rows
  BY RowsOrdered DEF OrderedRows
<1>3. Len(ss) = m /\ DOMAIN ss = 1 .. m
  <2>1. ss = [s \in 1 .. m |-> ShardRows(s)]
    BY <1>1 DEF RangeShards
  <2> HIDE DEF ss, m
  <2> QED BY <1>1, <2>1
<1>4. off \in [0 .. m -> Nat] /\ off[0] = 0 /\ off[m] = Rows
  <2>1. 0 \in 0 .. m /\ m \in 0 .. m
    BY <1>1
  <2> QED BY <2>1, EndsOfShards
<1>5. ASSUME NEW b \in 1 .. m
      PROVE  off[b - 1] <= off[b] /\ ss[b] = SubSeq(f, off[b - 1] + 1, off[b])
  <2>1. b \in Shards /\ b - 1 \in 0 .. m /\ b \in 0 .. m
    BY <1>1
  <2>2. off[b - 1] = EndOf(b - 1) /\ off[b] = EndOf(b)
    BY <2>1
  <2>3. EndOf(b - 1) <= EndOf(b) /\ RangeOf(1, b) = <<EndOf(b - 1), EndOf(b)>>
    BY <2>1, EndsOfShards
  <2> DEFINE part(c) == SubSeq(f, RangeOf(c, b)[1] + 1, RangeOf(c, b)[2])
             one == [c \in 1 .. 1 |-> part(c)]
  <2>4. ss[b] = FlattenSeq(one)
    BY <1>1, <2>1 DEF RangeShards, ShardRows
  <2>5. Len(one) = 1 /\ one[1] = SubSeq(f, RangeOf(1, b)[1] + 1, RangeOf(1, b)[2])
    <3>1. part(1) = SubSeq(f, RangeOf(1, b)[1] + 1, RangeOf(1, b)[2])
      OBVIOUS
    <3> HIDE DEF part
    <3>2. Len(one) = 1 /\ one[1] = part(1)
      OBVIOUS
    <3> QED BY <3>1, <3>2
  <2> HIDE DEF one
  <2>6. FlattenSeq(one) = one[1]
    BY <2>5, FlattenOne
  <2> HIDE DEF off, ss, f
  <2> DEFINE u == EndOf(b - 1)
             e == EndOf(b)
  <2>7. RangeOf(1, b)[1] = u /\ RangeOf(1, b)[2] = e
    BY <2>3
  <2>8. ss[b] = SubSeq(f, u + 1, e)
    BY <2>4, <2>5, <2>6, <2>7
  <2> QED BY <2>2, <2>3, <2>8
<1> HIDE DEF off, ss, f
<1>6. Sliced(f, ss, off)
  BY <1>2, <1>3, <1>4, <1>5 DEF Sliced
<1> QED
  BY <1>6 DEF f, ss

\* Put together, the shards are the rows in that order.
LEMMA RangesFlatten ==
  ASSUME CallOK, length \in [1 .. Rows -> Lengths], WellShaped, call.op # "train",
         call.batching = "dynamic" => ~Uneven
  PROVE  /\ RangeShards \in Seq(Seq(1 .. Rows)) /\ FlattenSeq(RangeShards) = DataOrder
         /\ \E off : Flat(DataOrder, RangeShards, off)
<1> DEFINE m == call.shards
           ss == RangeShards
           f == DataOrder
<1>1. m \in Nat \ {0} /\ Shards = 1 .. m
  BY DEF CallOK, Shards
<1>2. f \in Seq(1 .. Rows)
  BY RowsOrdered DEF OrderedRows
<1>3. ss = [s \in 1 .. m |-> ss[s]] /\ Len(ss) = m /\ DOMAIN ss = 1 .. m
  <2>1. ss = [s \in 1 .. m |-> ShardRows(s)]
    BY <1>1 DEF RangeShards
  <2> HIDE DEF ss, m
  <2> QED BY <1>1, <2>1
<1>4. PICK off : Sliced(f, ss, off)
  BY OneChunkSliced
<1> HIDE DEF m, ss, f
<1>5. Len(ss) \in Nat /\ DOMAIN ss = 1 .. Len(ss) /\ ss = [s \in 1 .. Len(ss) |-> ss[s]]
  BY <1>1, <1>3
<1>6. ss \in Seq(Seq(1 .. Rows)) /\ FlattenSeq(ss) = f
  BY <1>2, <1>4, <1>5, SlicesFlatten
<1>7. Flat(f, ss, off)
  BY <1>2, <1>4, <1>5, SlicesJoin
<1> QED
  BY <1>6, <1>7 DEF ss, f

\* The shards that generate may be of different lengths.
LEMMA UnevenLayout ==
  ASSUME CallOK, length \in [1 .. Rows -> Lengths], WellShaped, Uneven,
         call.batching = "plain", NEW mi, DOMAIN mi = Shards
  PROVE  Layout(RangeShards, mi)
<1> DEFINE ss == RangeShards
           f == DataOrder
<1>1. call.op # "train"
  BY DEF Uneven
<1>2. OrderedRows(f)
  BY RowsOrdered
<1>3. ss \in Seq(Seq(1 .. Rows)) /\ \E off : Flat(f, ss, off)
  BY <1>1, RangesFlatten
<1>4. DOMAIN ss = Shards
  BY DEF RangeShards
<1>5. Chunks = 1 /\ \A i \in 1 .. Rows : ChunkOf(i) = 1
  BY <1>1, OneChunk
<1> HIDE DEF ss, f
<1>6. PICK off : Flat(f, ss, off)
  BY <1>3
<1>7. Held(ss) = 1 .. Rows
  BY <1>2, <1>3, <1>6, FlatHolds DEF OrderedRows
<1>8. Apart(ss)
  BY <1>2, <1>3, <1>6, SlicesApart DEF OrderedRows
<1>9. ASSUME NEW s \in Shards PROVE \E end : InTurn(ss[s], mi[s], end)
  <2> DEFINE g == ss[s]
             end == [k \in 0 .. 1 |-> IF k = 0 THEN 0 ELSE Len(g)]
  <2>1. g \in Seq(1 .. Rows)
    BY <1>3, <1>4
  <2>2. DOMAIN g = 1 .. Len(g) /\ Len(g) \in Nat /\ \A k \in DOMAIN g : g[k] \in 1 .. Rows
    <3> HIDE DEF g
    <3>1. \A k \in DOMAIN g : g[k] \in 1 .. Rows
      BY <2>1, MemberOfList
    <3> QED BY <2>1, <3>1
  <2> HIDE DEF g
  <2>3. end \in [0 .. 1 -> Nat] /\ end[0] = 0 /\ end[1] = Len(g)
    BY <2>2
  <2> HIDE DEF end
  <2>4. InTurn(g, mi[s], end)
    <3>1. end \in [0 .. Chunks -> Nat] /\ end[Chunks] = Len(g)
      BY <1>5, <2>3
    <3>2. ASSUME NEW c \in 1 .. Chunks
          PROVE  /\ end[c - 1] <= end[c] /\ end[c] <= Len(g)
                 /\ \A k \in DOMAIN g : end[c - 1] < k /\ k <= end[c] => ChunkOf(g[k]) = c
      <4>1. c = 1 /\ c - 1 = 0
        BY <1>5
      <4>2. end[c - 1] = 0 /\ end[c] = Len(g)
        BY <2>3, <4>1
      <4>3. \A k \in DOMAIN g : ChunkOf(g[k]) = c
        BY <1>5, <2>2, <4>1
      <4> QED BY <2>2, <4>2, <4>3
    <3> QED BY <2>3, <3>1, <3>2 DEF InTurn
  <2> QED BY <2>4 DEF g
<1> QED
  BY <1>3, <1>4, <1>7, <1>8, <1>9 DEF Layout, ss

-----------------------------------------------------------------------------
(* What the ranks have seen *)

\* The first n rows of a shard, each in the global batch z rows make.
SeenTo(x, f, n, z) ==
  /\ n \in 0 .. Len(f) /\ DOMAIN x = 1 .. n
  /\ x \in Seq({<<(r - 1) \div z + 1, r>> : r \in 1 .. Rows})
  /\ \A k \in 1 .. n : x[k] = <<(f[k] - 1) \div z + 1, f[k]>>

\* What the first j microbatches come to.
Part(pairs, j) == IF j = 0 THEN 0 ELSE pairs[j][2]

Done(mi, g, j) == StartOf(mi, g) + Part(mi[g], j)

\* Where the rounds of a global batch begin, go on and end.
LEMMA RoundsOfBatch ==
  ASSUME CallOK, ~Uneven, NEW sh, NEW mi, NEW off, InTurn(sh, mi, off), NEW g \in 1 .. Chunks,
         Chunks \in Nat
  PROVE  /\ Len(mi[g]) \in Nat \ {0} /\ Done(mi, g, 0) = off[g - 1]
         /\ Done(mi, g, Len(mi[g])) = off[g]
         /\ \A j \in 1 .. Len(mi[g]) :
              /\ mi[g][j][1] = Part(mi[g], j - 1) /\ mi[g][j][2] = Part(mi[g], j)
              /\ mi[g][j][1] \in Nat /\ mi[g][j][2] \in Nat /\ mi[g][j][1] <= mi[g][j][2]
              /\ off[g - 1] + mi[g][j][2] <= off[g]
<1> DEFINE ms == mi[g]
           n == Len(ms)
           a == off[g - 1]
           b == off[g]
<1>1. Covers(ms, b - a) /\ StartOf(mi, g) = a /\ a <= b
  BY DEF InTurn
<1>2. a \in Nat /\ b \in Nat
  <2>1. g - 1 \in 0 .. Chunks /\ g \in 0 .. Chunks
    OBVIOUS
  <2> QED BY <2>1 DEF InTurn
<1>3. n \in Nat \ {0} /\ \A j \in 1 .. n : ms[j][1] \in Nat /\ ms[j][2] \in Nat /\ ms[j][2] <= b - a
  BY <1>1, CoversWithin
<1>4. /\ ms[1][1] = 0 /\ ms[n][2] = b - a
      /\ \A j \in 1 .. n : ms[j][1] <= ms[j][2]
      /\ \A j \in 1 .. n : j > 1 => ms[j][1] = ms[j - 1][2]
  BY <1>1 DEF Covers
<1>5. /\ Done(mi, g, 0) = a + Part(ms, 0) /\ Done(mi, g, n) = a + Part(ms, n)
  BY <1>1 DEF Done
<1> HIDE DEF ms, n, a, b
<1>6. Part(ms, 0) = 0 /\ \A j \in 1 .. n : Part(ms, j) = ms[j][2]
  BY <1>3 DEF Part
<1>7. ASSUME NEW j \in 1 .. n
      PROVE  /\ ms[j][1] = Part(ms, j - 1) /\ ms[j][2] = Part(ms, j)
             /\ ms[j][1] \in Nat /\ ms[j][2] \in Nat /\ ms[j][1] <= ms[j][2]
             /\ a + ms[j][2] <= b
  <2>1. ms[j][1] = Part(ms, j - 1)
    <3>1. CASE j = 1
      <4>1. j - 1 = 0
        BY <3>1
      <4> QED BY <1>4, <1>6, <3>1, <4>1
    <3>2. CASE j # 1
      <4>1. j - 1 \in 1 .. n /\ j > 1
        BY <1>3, <3>2
      <4> QED BY <1>4, <1>6, <4>1
    <3> QED BY <3>1, <3>2
  <2> DEFINE y == ms[j][2]
  <2>2. y \in Nat /\ y <= b - a
    BY <1>3
  <2> HIDE DEF y
  <2>3. a + y <= b
    BY <1>2, <2>2
  <2> QED BY <1>3, <1>4, <1>6, <2>1, <2>3 DEF y
<1>8. Done(mi, g, n) = b /\ Done(mi, g, 0) = a
  <2>1. n \in 1 .. n
    BY <1>3
  <2>2. Part(ms, n) = b - a
    BY <1>4, <1>6, <2>1
  <2> QED BY <1>2, <1>5, <1>6, <2>2
<1> QED
  BY <1>3, <1>7, <1>8 DEF ms, n, a, b

\* One sequence after another.
OneThenOther(y, x, more, V) ==
  /\ y \in Seq(V) /\ Len(y) = Len(x) + Len(more) /\ DOMAIN y = 1 .. Len(x) + Len(more)
  /\ \A k \in 1 .. Len(x) : y[k] = x[k]
  /\ \A k \in 1 .. Len(more) : y[Len(x) + k] = more[k]

LEMMA PutAfter ==
  ASSUME NEW V, NEW x \in Seq(V), NEW more \in Seq(V)
  PROVE  OneThenOther(x \o more, x, more, V)
<1> DEFINE y == x \o more
           n == Len(x)
           m == Len(more)
<1>1. n \in Nat /\ m \in Nat /\ y \in Seq(V) /\ Len(y) = n + m
  OBVIOUS
<1>2. /\ \A k \in 1 .. n : y[k] = x[k]
      /\ \A k \in 1 .. m : y[n + k] = more[k]
  OBVIOUS
<1>3. DOMAIN y = 1 .. n + m
  BY <1>1
<1> QED
  BY <1>1, <1>2, <1>3 DEF OneThenOther

\* A list from a function.
LEMMA ListIs ==
  ASSUME NEW V, NEW n \in Nat, NEW f \in [1 .. n -> V]
  PROVE  f \in Seq(V) /\ Len(f) = n
OBVIOUS

\* A rank goes through one more microbatch.
LEMMA OneRound ==
  ASSUME CallOK, ~Uneven, Chunks \in Nat, NEW sh \in Seq(1 .. Rows), NEW mi, NEW off,
         InTurn(sh, mi, off), NEW g \in 1 .. Chunks, NEW j \in 1 .. Len(mi[g]),
         NEW x, SeenTo(x, sh, Done(mi, g, j - 1), Batch),
         NEW rows, rows = MicroOf(sh, mi, g, j),
         NEW y, y = x \o [k \in DOMAIN rows |-> <<g, rows[k]>>]
  PROVE  SeenTo(y, sh, Done(mi, g, j), Batch)
<1> DEFINE z == Batch
           a == off[g - 1]
           b == off[g]
           from == mi[g][j][1]
           to == mi[g][j][2]
           n == a + from
           h == a + to
           V == {<<(r - 1) \div z + 1, r>> : r \in 1 .. Rows}
           more == [k \in DOMAIN rows |-> <<g, rows[k]>>]
<1>1. /\ from = Part(mi[g], j - 1) /\ to = Part(mi[g], j)
      /\ from \in Nat /\ to \in Nat /\ from <= to /\ a + to <= b
  BY RoundsOfBatch
<1>2. a \in Nat /\ b \in Nat /\ b <= Len(sh) /\ StartOf(mi, g) = a
  <2>1. g - 1 \in 0 .. Chunks /\ g \in 0 .. Chunks
    OBVIOUS
  <2> QED BY <2>1 DEF InTurn
<1>3. \A k \in DOMAIN sh : a < k /\ k <= b => ChunkOf(sh[k]) = g
  BY DEF InTurn
<1>4. Done(mi, g, j - 1) = n /\ Done(mi, g, j) = h
  BY <1>1, <1>2 DEF Done
<1>5. rows = SubSeq(sh, n + 1, h)
  BY <1>2 DEF MicroOf
<1>6. /\ n \in 0 .. Len(sh) /\ DOMAIN x = 1 .. n /\ x \in Seq(V)
      /\ \A k \in 1 .. n : x[k] = <<(sh[k] - 1) \div z + 1, sh[k]>>
  BY <1>4 DEF SeenTo
<1>7. \A r : ChunkOf(r) = (r - 1) \div z + 1
  BY DEF ChunkOf
<1> HIDE DEF a, b, from, to, z, V
<1>8. n \in Nat /\ h \in Nat /\ n <= h /\ h <= b /\ b <= Len(sh) /\ a <= n /\ h <= Len(sh)
  <2>1. Len(sh) \in Nat
    OBVIOUS
  <2> QED BY <1>1, <1>2, <2>1
<1> HIDE DEF n, h
<1>9. PartOf(rows, 1 .. Rows, sh, n, h)
  BY <1>5, <1>8, SlicePart
<1>10. /\ rows \in Seq(1 .. Rows) /\ Len(rows) = h - n /\ DOMAIN rows = 1 .. h - n
       /\ \A k \in 1 .. h - n : rows[k] = sh[n + k] /\ n + k \in 1 .. Len(sh)
  BY <1>8, <1>9 DEF PartOf
<1>11. ASSUME NEW k \in 1 .. h - n
       PROVE  <<g, rows[k]>> = <<(sh[n + k] - 1) \div z + 1, sh[n + k]>> /\ <<g, rows[k]>> \in V
  <2>1. n + k \in DOMAIN sh /\ a < n + k /\ n + k <= b
    <3>1. n + k \in 1 .. Len(sh) /\ DOMAIN sh = 1 .. Len(sh)
      BY <1>10
    <3>2. a < n + k /\ n + k <= b
      BY <1>2, <1>8
    <3> QED BY <3>1, <3>2
  <2>2. ChunkOf(sh[n + k]) = g
    BY <1>3, <2>1
  <2>3. rows[k] \in 1 .. Rows
    BY <1>10, MemberOfList
  <2>4. <<g, rows[k]>> = <<(rows[k] - 1) \div z + 1, rows[k]>>
    BY <1>7, <1>10, <2>2
  <2> QED BY <1>10, <2>3, <2>4 DEF V
<1>12. /\ more \in Seq(V) /\ Len(more) = h - n
       /\ \A k \in 1 .. h - n : more[k] = <<g, rows[k]>>
  <2>1. h - n \in Nat
    BY <1>8
  <2>2. more = [k \in 1 .. h - n |-> <<g, rows[k]>>]
    BY <1>10
  <2> HIDE DEF more
  <2>3. more \in [1 .. h - n -> V]
    BY <1>11, <2>2
  <2>4. \A k \in 1 .. h - n : more[k] = <<g, rows[k]>>
    BY <2>2
  <2> QED BY <2>1, <2>3, <2>4, ListIs
<1>13. y = x \o more
  OBVIOUS
<1> HIDE DEF more
<1>14. Len(x) = n
  BY <1>6, <1>8
<1>15. /\ y \in Seq(V) /\ DOMAIN y = 1 .. h
       /\ \A k \in 1 .. n : y[k] = x[k]
       /\ \A k \in 1 .. h - n : y[n + k] = more[k]
  <2>1. OneThenOther(y, x, more, V)
    BY <1>6, <1>12, <1>13, PutAfter
  <2>2. n + (h - n) = h
    BY <1>8
  <2> QED BY <1>12, <1>14, <2>1, <2>2 DEF OneThenOther
<1>16. ASSUME NEW k \in 1 .. h PROVE y[k] = <<(sh[k] - 1) \div z + 1, sh[k]>>
  <2>1. CASE k <= n
    <3>1. k \in 1 .. n
      BY <1>8, <2>1
    <3> QED BY <1>6, <1>15, <3>1
  <2>2. CASE k > n
    <3> DEFINE l == k - n
    <3>1. l \in 1 .. h - n /\ n + l = k
      BY <1>8, <2>2
    <3> HIDE DEF l
    <3>2. y[n + l] = <<g, rows[l]>>
      BY <1>12, <1>15, <3>1
    <3>3. <<g, rows[l]>> = <<(sh[n + l] - 1) \div z + 1, sh[n + l]>>
      BY <1>11, <3>1
    <3> QED BY <3>1, <3>2, <3>3
  <2>3. k <= n \/ k > n
    BY <1>8
  <2> QED BY <2>1, <2>2, <2>3
<1>17. h \in 0 .. Len(sh)
  BY <1>8
<1> QED
  BY <1>4, <1>15, <1>16, <1>17 DEF SeenTo, V, z

\* Where the calls are before there are shards, and after.
Unsharded == {"called", "packing", "sharding", "refused"}

Sharded == {"dispatch", "running", "collect", "answered"}

\* Without global batches, the shards are put together in the order that the
\* results are sorted by, which is the rows' own when nothing is sorted.
InDataOrder ==
  call.op # "train" =>
    /\ FlattenSeq(shard) = order
    /\ call.batching = "plain" => order = [k \in 1 .. Rows |-> k]

\* A rank that is at a global batch has seen the batches before it and the
\* microbatches it did; an engine has generated for nothing or for its shard.
InStep ==
  /\ DOMAIN seen = Shards
  /\ ~Uneven =>
       /\ gb \in 1 .. Chunks /\ mb \in Nat
       /\ \A s \in Shards :
            /\ mb <= Len(micro[s][gb])
            /\ SeenTo(seen[s], shard[s], Done(micro[s], gb, mb), Batch)
  /\ Uneven =>
       /\ gb = 1
       /\ \A s \in Shards :
            \/ SeenTo(seen[s], shard[s], 0, Batch)
            \/ SeenTo(seen[s], shard[s], Len(shard[s]), Batch)

WholeShards ==
  /\ DOMAIN seen = Shards
  /\ \A s \in Shards : SeenTo(seen[s], shard[s], Len(shard[s]), Batch)

RowInv ==
  /\ call.batching \in {"packing", "dynamic", "plain"} /\ (Uneven => call.batching = "plain")
  /\ pc \in Unsharded \cup Sharded
  /\ pc \in Unsharded => shard = <<>> /\ micro = <<>>
  /\ pc \in Unsharded \cup {"dispatch"} => seen = <<>>
  /\ pc \in Sharded => WellShaped /\ Layout(shard, micro) /\ InDataOrder
  /\ pc = "running" => InStep
  /\ pc \in {"collect", "answered"} => WholeShards

\* None of this depends on more of the state than it names.
LEMMA LayoutNext ==
  ASSUME UNCHANGED callVars, Layout(shard', micro')
  PROVE  Layout(shard, micro)'
<1>1. call' = call /\ length' = length /\ Batch' = Batch /\ Chunks' = Chunks
  BY SameChunks
<1>2. Shards' = Shards /\ (Uneven' <=> Uneven)
  BY <1>1 DEF Shards, Uneven
<1>3. ShardSize' = ShardSize
  BY <1>1, <1>2 DEF ShardSize
<1>4. ASSUME NEW s \in Shards, NEW c
      PROVE  StartOf(micro[s], c)' = StartOf(micro'[s], c)
  BY <1>1, <1>3 DEF StartOf
<1>5. ASSUME NEW s \in Shards PROVE \E off : InTurn(shard[s], micro[s], off)'
  <2>1. PICK off : InTurn(shard'[s], micro'[s], off)
    BY DEF Layout
  <2>2. \A r : ChunkOf(r)' = ChunkOf(r)
    BY <1>1 DEF ChunkOf
  <2>3. InTurn(shard[s], micro[s], off)'
    BY <1>1, <1>2, <1>4, <2>1, <2>2 DEF InTurn
  <2> QED BY <2>3
<1>6. ASSUME NEW s \in Shards, NEW c \in 1 .. Chunks, call.batching # "plain"
      PROVE  InTokens(shard[s], micro[s], c)'
  <2>1. InTokens(shard'[s], micro'[s], c)
    BY <1>6 DEF Layout
  <2>2. \A k : MicroOf(shard[s], micro[s], c, k)' = MicroOf(shard'[s], micro'[s], c, k)
    BY <1>4 DEF MicroOf
  <2> QED BY <1>1, <2>1, <2>2 DEF InTokens
<1>7. /\ shard' \in Seq(Seq(1 .. Rows)) /\ DOMAIN shard' = Shards /\ Apart(shard')
      /\ Held(shard') = 1 .. Rows /\ DOMAIN micro' = Shards
  BY DEF Layout
<1> QED
  BY <1>1, <1>2, <1>5, <1>6, <1>7 DEF Layout

LEMMA InStepNext ==
  ASSUME UNCHANGED callVars, DOMAIN seen' = Shards,
         ~Uneven =>
           /\ gb' \in 1 .. Chunks /\ mb' \in Nat
           /\ \A s \in Shards :
                /\ mb' <= Len(micro'[s][gb'])
                /\ SeenTo(seen'[s], shard'[s], Done(micro'[s], gb', mb'), Batch),
         Uneven =>
           /\ gb' = 1
           /\ \A s \in Shards :
                \/ SeenTo(seen'[s], shard'[s], 0, Batch)
                \/ SeenTo(seen'[s], shard'[s], Len(shard'[s]), Batch)
  PROVE  InStep'
<1>1. call' = call /\ Batch' = Batch /\ Chunks' = Chunks
  BY SameChunks
<1>2. Shards' = Shards /\ (Uneven' <=> Uneven)
  BY <1>1 DEF Shards, Uneven
<1>3. ShardSize' = ShardSize
  BY <1>1, <1>2 DEF ShardSize
<1>4. ASSUME NEW s \in Shards
      PROVE  Done(micro[s], gb, mb)' = Done(micro'[s], gb', mb')
  <2>1. StartOf(micro[s], gb)' = StartOf(micro'[s], gb')
    BY <1>1, <1>3 DEF StartOf
  <2> QED BY <2>1 DEF Done
<1>5. CASE ~Uneven
  <2>1. ASSUME NEW s \in Shards
        PROVE  /\ mb' <= Len(micro'[s][gb'])
               /\ SeenTo(seen'[s], shard'[s], Done(micro[s], gb, mb)', Batch')
    BY <1>1, <1>4, <1>5
  <2> QED BY <1>1, <1>2, <1>5, <2>1 DEF InStep
<1>6. CASE Uneven
  BY <1>1, <1>2, <1>6 DEF InStep
<1> QED
  BY <1>5, <1>6

LEMMA RowInvNext ==
  ASSUME RowInv, UNCHANGED callVars, pc' \in Unsharded \cup Sharded,
         pc' \in Unsharded => shard' = <<>> /\ micro' = <<>>,
         pc' \in Unsharded \cup {"dispatch"} => seen' = <<>>,
         pc' \in Sharded => WellShaped /\ Layout(shard', micro') /\ InDataOrder',
         pc' = "running" => InStep',
         pc' \in {"collect", "answered"} => WholeShards'
  PROVE  RowInv'
<1>1. /\ call' = call /\ Batch' = Batch
  BY SameChunks
<1>2. (WellShaped' <=> WellShaped) /\ (Uneven' <=> Uneven)
  BY <1>1 DEF WellShaped, Uneven
<1>3. pc' \in Sharded => Layout(shard, micro)'
  BY LayoutNext
<1>4. call.batching \in {"packing", "dynamic", "plain"} /\ (Uneven => call.batching = "plain")
  BY DEF RowInv
<1> QED
  BY <1>1, <1>2, <1>3, <1>4 DEF RowInv

\* A rank that has seen nothing, and an engine that generated for its shard.
LEMMA SeenNothing ==
  ASSUME NEW D, NEW f \in Seq(D), NEW z
  PROVE  SeenTo(<<>>, f, 0, z)
<1>1. Len(f) \in Nat
  OBVIOUS
<1>2. 0 \in 0 .. Len(f) /\ 1 .. 0 = {} /\ DOMAIN <<>> = {}
  BY <1>1
<1> DEFINE V == {<<(r - 1) \div z + 1, r>> : r \in 1 .. Rows}
<1>3. <<>> \in Seq(V)
  <2> HIDE DEF V
  <2> QED OBVIOUS
<1> QED
  BY <1>2, <1>3 DEF SeenTo

LEMMA SeenAll ==
  ASSUME call.op # "train", NEW f \in Seq(1 .. Rows)
  PROVE  SeenTo([k \in DOMAIN f |-> <<1, f[k]>>], f, Len(f), Batch)
<1> DEFINE x == [k \in DOMAIN f |-> <<1, f[k]>>]
           n == Len(f)
           V == {<<(r - 1) \div Batch + 1, r>> : r \in 1 .. Rows}
           same(r) == <<(r - 1) \div Batch + 1, r>>
<1>1. n \in Nat /\ DOMAIN f = 1 .. n /\ n \in 0 .. n
  OBVIOUS
<1>2. \A k \in 1 .. n : f[k] \in 1 .. Rows
  BY <1>1, MemberOfList
<1>3. ASSUME NEW k \in 1 .. n PROVE x[k] = same(f[k]) /\ x[k] \in V
  <2>1. ChunkOf(f[k]) = 1
    BY <1>2, OneChunk
  <2>2. x[k] = <<1, f[k]>>
    BY <1>1
  <2>3. x[k] = same(f[k])
    BY <2>1, <2>2 DEF ChunkOf
  <2> QED BY <1>2, <2>3
<1>4. x \in [1 .. n -> V]
  BY <1>1, <1>3
<1> HIDE DEF x, n, V
<1>5. x \in Seq(V) /\ DOMAIN x = 1 .. n
  BY <1>1, <1>4, ListIs
<1> QED
  BY <1>1, <1>3, <1>5 DEF SeenTo, x, n, V

\* The ranks have the same rounds.
LEMMA RoundsAre ==
  ASSUME SameRounds, CallOK, DOMAIN micro = Shards, gb \in 1 .. Chunks, NEW s \in Shards,
         Len(micro[s][gb]) \in Nat
  PROVE  Rounds = Len(micro[s][gb])
<1> DEFINE n == Len(micro[s][gb])
           S == {Len(micro[t][gb]) : t \in Shards}
<1>1. \A t \in Shards : Len(micro[t][gb]) = n
  BY DEF SameRounds
<1>2. S = {n}
  BY <1>1
<1> HIDE DEF n, S
<1>3. n \in Nat
  BY DEF n
<1>4. \E x \in S : \A y \in S : x >= y
  BY <1>2, <1>3
<1>5. Max(S) \in S
  BY <1>4 DEF Max
<1> QED
  BY <1>2, <1>5 DEF Rounds, S, n

\* What the layout says of one shard.
LEMMA OneShard ==
  ASSUME CallOK, Rows % Batch = 0, Layout(shard, micro), NEW s \in Shards
  PROVE  /\ shard[s] \in Seq(1 .. Rows) /\ \E off : InTurn(shard[s], micro[s], off)
         /\ Chunks \in Nat /\ 1 \in 1 .. Chunks
<1>1. shard \in Seq(Seq(1 .. Rows)) /\ s \in DOMAIN shard
  BY DEF Layout
<1>2. shard[s] \in Seq(1 .. Rows)
  BY <1>1, MemberOfList
<1>3. Chunks \in Nat /\ 1 \in 1 .. Chunks
  BY FirstChunk
<1> QED
  BY <1>2, <1>3 DEF Layout

-----------------------------------------------------------------------------
(* The steps of a call, from the shards to the results *)

\* The shards are made.
LEMMA ShardBinsLaysOut ==
  ASSUME CallInv, RoundInv, RowInv, ShardBins
  PROVE  RowInv'
<1>1. /\ UNCHANGED callVars /\ call' = call /\ pc = "sharding" /\ pc' = "dispatch"
      /\ call.batching = "packing" /\ seen' = seen
  BY DEF ShardBins, callVars, workVars
<1>2. CallOK /\ WellShaped /\ ~Uneven /\ seen = <<>> /\ length \in [1 .. Rows -> Lengths]
  BY <1>1 DEF CallInv, RoundInv, RowInv, Unsharded
<1>3. AllPacked
  <2>1. Len(packed) = Chunks /\ DOMAIN packed = 1 .. Chunks
    BY <1>1 DEF CallInv, RoundInv
  <2>2. \A c \in 1 .. Chunks : Filled(ChunkSizes(c), call.shards, packed[c])
    BY <2>1 DEF RoundInv
  <2> QED BY <1>2, <2>2 DEF AllPacked, WellShaped
<1>4. shard' = BinShards /\ micro' = BinMicros /\ order' = FlattenSeq(shard')
  BY DEF ShardBins, BinShards, BinMicros, BinPiece, BinPairs
<1>5. Layout(shard', micro')
  <2>1. Layout(BinShards, BinMicros)
    BY <1>1, <1>2, <1>3, BinLayout
  <2> QED BY <1>4, <2>1
<1>6. InDataOrder'
  BY <1>1, <1>4 DEF InDataOrder
<1> QED
  BY <1>1, <1>2, <1>5, <1>6, RowInvNext DEF Unsharded, Sharded

LEMMA ShardRangesLaysOut ==
  ASSUME CallInv, RoundInv, RowInv, ShardRanges
  PROVE  RowInv'
<1>1. /\ UNCHANGED callVars /\ call' = call /\ pc = "sharding"
      /\ call.batching # "packing" /\ seen' = seen
  BY DEF ShardRanges, callVars, workVars
<1>2. /\ CallOK /\ WellShaped /\ seen = <<>> /\ length \in [1 .. Rows -> Lengths]
      /\ call.batching \in {"dynamic", "plain"} /\ (Uneven => call.batching = "plain")
      /\ shard = <<>> /\ micro = <<>>
  BY <1>1 DEF CallInv, RoundInv, RowInv, Unsharded
<1>3. CASE ~RowsFit
  <2>1. pc' = "refused" /\ shard' = shard /\ micro' = micro
    BY <1>3 DEF ShardRanges, shardVars
  <2> QED BY <1>1, <1>2, <2>1, RowInvNext DEF Unsharded, Sharded
<1>4. CASE RowsFit
  <2>1. pc' = "dispatch" /\ shard' = RangeShards /\ micro' = RangeMicros /\ order' = DataOrder
    BY <1>4 DEF ShardRanges, RangeShards, RangeMicros
  <2>2. Layout(RangeShards, RangeMicros)
    <3>1. CASE Uneven
      <4>1. DOMAIN RangeMicros = Shards
        BY DEF RangeMicros
      <4> QED BY <1>2, <3>1, <4>1, UnevenLayout
    <3>2. CASE ~Uneven
      BY <1>2, <1>4, <3>2, RangeLayout
    <3> QED BY <3>1, <3>2
  <2>3. InDataOrder'
    <3>1. call.op # "train" => FlattenSeq(RangeShards) = DataOrder
      BY <1>2, RangesFlatten
    <3>2. call.batching = "plain" => DataOrder = [k \in 1 .. Rows |-> k]
      BY DEF DataOrder
    <3> QED BY <1>1, <2>1, <3>1, <3>2 DEF InDataOrder
  <2> QED BY <1>1, <1>2, <2>1, <2>2, <2>3, RowInvNext DEF Unsharded, Sharded
<1> QED
  BY <1>3, <1>4

\* What a step of the workers keeps.
LEMMA AtWork ==
  ASSUME CallInv, RoundInv, RowInv, pc \in Sharded, UNCHANGED <<callVars, shardVars>>
  PROVE  /\ CallOK /\ WellShaped /\ Rows % Batch = 0 /\ call' = call
         /\ Layout(shard, micro) /\ Layout(shard', micro') /\ InDataOrder'
         /\ shard' = shard /\ micro' = micro /\ DOMAIN micro = Shards
<1>1. call' = call /\ shard' = shard /\ micro' = micro /\ order' = order
  BY DEF callVars, shardVars
<1>2. CallOK /\ WellShaped /\ Layout(shard, micro) /\ InDataOrder
  BY DEF CallInv, RowInv
<1>3. InDataOrder'
  BY <1>1, <1>2 DEF InDataOrder
<1> QED
  BY <1>1, <1>2, <1>3 DEF WellShaped, Layout

LEMMA DispatchKeeps ==
  ASSUME CallInv, RoundInv, RowInv, Dispatch
  PROVE  RowInv'
<1>1. /\ UNCHANGED callVars /\ UNCHANGED shardVars /\ pc = "dispatch" /\ pc' = "running"
      /\ seen' = [s \in Shards |-> <<>>] /\ gb' = 1 /\ mb' = 0
  BY DEF Dispatch
<1>2. /\ CallOK /\ WellShaped /\ Rows % Batch = 0 /\ call' = call
      /\ Layout(shard, micro) /\ Layout(shard', micro') /\ InDataOrder'
      /\ shard' = shard /\ micro' = micro
  BY <1>1, AtWork DEF Sharded
<1>3. ASSUME NEW s \in Shards
      PROVE  SeenTo(seen'[s], shard'[s], 0, Batch)
  <2>1. shard[s] \in Seq(1 .. Rows)
    BY <1>2, OneShard
  <2> QED BY <1>1, <1>2, <2>1, SeenNothing
<1>4. ASSUME ~Uneven, NEW s \in Shards
      PROVE  0 <= Len(micro[s][1]) /\ Done(micro[s], 1, 0) = 0 /\ 1 \in 1 .. Chunks
  <2>1. Chunks \in Nat /\ 1 \in 1 .. Chunks
    BY <1>2, OneShard
  <2>2. PICK off : InTurn(shard[s], micro[s], off)
    BY <1>2, OneShard
  <2>3. Len(micro[s][1]) \in Nat \ {0} /\ Done(micro[s], 1, 0) = off[1 - 1]
    BY <1>2, <1>4, <2>1, <2>2, RoundsOfBatch
  <2>4. off[1 - 1] = 0
    BY <2>2 DEF InTurn
  <2> QED BY <2>1, <2>3, <2>4
<1>5. InStep'
  <2>1. ~Uneven => \A s \in Shards :
           /\ mb' <= Len(micro'[s][gb'])
           /\ SeenTo(seen'[s], shard'[s], Done(micro'[s], gb', mb'), Batch)
    BY <1>1, <1>2, <1>3, <1>4
  <2>2. gb' \in 1 .. Chunks /\ mb' \in Nat
    BY <1>1, <1>2, FirstChunk
  <2>3. DOMAIN seen' = Shards
    BY <1>1
  <2> QED BY <1>1, <1>3, <2>1, <2>2, <2>3, InStepNext
<1> QED
  BY <1>1, <1>2, <1>5, RowInvNext DEF Unsharded, Sharded

LEMMA ForwardKeeps ==
  ASSUME CallInv, RoundInv, RowInv, Forward
  PROVE  RowInv'
<1>1. /\ UNCHANGED callVars /\ UNCHANGED shardVars /\ pc = "running" /\ pc' = pc /\ ~Uneven
      /\ mb < Rounds /\ mb' = mb + 1 /\ gb' = gb
      /\ seen' = [s \in Shards |->
                    IF mb + 1 > Len(micro[s][gb]) THEN seen[s]
                    ELSE LET rows == MicroRows(s, gb, mb + 1) IN
                         seen[s] \o [k \in DOMAIN rows |-> <<gb, rows[k]>>]]
  BY DEF Forward
<1>2. /\ CallOK /\ WellShaped /\ Rows % Batch = 0 /\ call' = call
      /\ Layout(shard, micro) /\ Layout(shard', micro') /\ InDataOrder'
      /\ shard' = shard /\ micro' = micro /\ DOMAIN micro = Shards
  BY <1>1, AtWork DEF Sharded
<1>3. /\ gb \in 1 .. Chunks /\ mb \in Nat
      /\ \A s \in Shards : SeenTo(seen[s], shard[s], Done(micro[s], gb, mb), Batch)
  BY <1>1 DEF RowInv, InStep
<1>4. ASSUME NEW s \in Shards
      PROVE  mb + 1 <= Len(micro[s][gb]) /\ SeenTo(seen'[s], shard[s], Done(micro[s], gb, mb + 1), Batch)
  <2> DEFINE j == mb + 1
             n == Len(micro[s][gb])
             rows == MicroRows(s, gb, j)
  <2>1. shard[s] \in Seq(1 .. Rows) /\ Chunks \in Nat
    BY <1>2, OneShard
  <2>2. PICK off : InTurn(shard[s], micro[s], off)
    BY <1>2, OneShard
  <2>3. n \in Nat \ {0}
    BY <1>1, <1>2, <1>3, <2>1, <2>2, RoundsOfBatch
  <2>4. Rounds = n
    BY <1>2, <1>3, <2>3, RoundsAre DEF RoundInv
  <2>5. j \in 1 .. n /\ j <= n
    <3> HIDE DEF n
    <3> QED BY <1>1, <1>3, <2>3, <2>4
  <2>6. seen'[s] = seen[s] \o [k \in DOMAIN rows |-> <<gb, rows[k]>>]
    <3>1. ~(mb + 1 > Len(micro[s][gb]))
      <4> HIDE DEF n
      <4> QED BY <1>3, <2>3, <2>5 DEF n
    <3> QED BY <1>1, <3>1
  <2>7. rows = MicroOf(shard[s], micro[s], gb, j)
    BY DEF MicroRows, MicroOf, PartBefore, StartOf
  <2>8. SeenTo(seen[s], shard[s], Done(micro[s], gb, j - 1), Batch)
    <3>1. j - 1 = mb
      BY <1>3
    <3> QED BY <1>3, <3>1
  <2> HIDE DEF rows, j, n
  <2>9. SeenTo(seen'[s], shard[s], Done(micro[s], gb, j), Batch)
    BY <1>1, <1>2, <1>3, <2>1, <2>2, <2>5, <2>6, <2>7, <2>8, OneRound DEF n
  <2> QED BY <2>5, <2>9 DEF j, n
<1>5. InStep'
  <2>1. \A s \in Shards :
           /\ mb' <= Len(micro'[s][gb'])
           /\ SeenTo(seen'[s], shard'[s], Done(micro'[s], gb', mb'), Batch)
    BY <1>1, <1>2, <1>4
  <2>2. gb' \in 1 .. Chunks /\ mb' \in Nat
    BY <1>1, <1>3
  <2>3. DOMAIN seen' = Shards
    BY <1>1
  <2> QED BY <1>1, <2>1, <2>2, <2>3, InStepNext
<1> QED
  BY <1>1, <1>2, <1>5, RowInvNext DEF Unsharded, Sharded

LEMMA GenerateKeeps ==
  ASSUME CallInv, RoundInv, RowInv, NEW s \in Shards, Generate(s)
  PROVE  RowInv'
<1>1. /\ UNCHANGED callVars /\ UNCHANGED shardVars /\ pc = "running" /\ pc' = pc /\ Uneven
      /\ seen' = [seen EXCEPT ![s] = [k \in DOMAIN shard[s] |-> <<gb, shard[s][k]>>]]
      /\ gb' = gb
  BY DEF Generate
<1>2. /\ CallOK /\ WellShaped /\ Rows % Batch = 0 /\ call' = call
      /\ Layout(shard, micro) /\ Layout(shard', micro') /\ InDataOrder'
      /\ shard' = shard /\ micro' = micro
  BY <1>1, AtWork DEF Sharded
<1>3. /\ DOMAIN seen = Shards /\ gb = 1
      /\ \A t \in Shards :
           \/ SeenTo(seen[t], shard[t], 0, Batch)
           \/ SeenTo(seen[t], shard[t], Len(shard[t]), Batch)
  BY <1>1 DEF RowInv, InStep
<1>4. SeenTo(seen'[s], shard[s], Len(shard[s]), Batch)
  <2> DEFINE f == shard[s]
  <2>1. f \in Seq(1 .. Rows)
    BY <1>2, OneShard
  <2>2. seen'[s] = [k \in DOMAIN f |-> <<1, f[k]>>]
    BY <1>1, <1>3
  <2>3. call.op # "train"
    BY <1>1 DEF Uneven
  <2> HIDE DEF f
  <2>4. SeenTo([k \in DOMAIN f |-> <<1, f[k]>>], f, Len(f), Batch)
    BY <2>1, <2>3, SeenAll
  <2> QED BY <2>2, <2>4 DEF f
<1>5. \A t \in Shards : t # s => seen'[t] = seen[t]
  BY <1>1, <1>3
<1>6. InStep'
  <2>1. ASSUME NEW t \in Shards
        PROVE  \/ SeenTo(seen'[t], shard'[t], 0, Batch)
               \/ SeenTo(seen'[t], shard'[t], Len(shard'[t]), Batch)
    <3>1. CASE t = s
      BY <1>2, <1>4, <3>1
    <3>2. CASE t # s
      BY <1>2, <1>3, <1>5, <3>2
    <3> QED BY <3>1, <3>2
  <2>2. DOMAIN seen' = Shards /\ gb' = 1
    BY <1>1, <1>3
  <2> QED BY <1>1, <2>1, <2>2, InStepNext
<1> QED
  BY <1>1, <1>2, <1>6, RowInvNext DEF Unsharded, Sharded

LEMMA NextGlobalBatchKeeps ==
  ASSUME CallInv, RoundInv, RowInv, NextGlobalBatch
  PROVE  RowInv'
<1>1. /\ UNCHANGED callVars /\ UNCHANGED shardVars /\ pc = "running" /\ ~Uneven
      /\ mb = Rounds /\ seen' = seen
      /\ IF gb < Chunks THEN gb' = gb + 1 /\ mb' = 0 /\ pc' = pc
                        ELSE pc' = "collect" /\ UNCHANGED <<gb, mb>>
  BY DEF NextGlobalBatch
<1>2. /\ CallOK /\ WellShaped /\ Rows % Batch = 0 /\ call' = call
      /\ Layout(shard, micro) /\ Layout(shard', micro') /\ InDataOrder'
      /\ shard' = shard /\ micro' = micro /\ DOMAIN micro = Shards
  BY <1>1, AtWork DEF Sharded
<1>3. /\ gb \in 1 .. Chunks /\ mb \in Nat /\ DOMAIN seen = Shards
      /\ \A s \in Shards : SeenTo(seen[s], shard[s], Done(micro[s], gb, mb), Batch)
  BY <1>1 DEF RowInv, InStep
<1>4. Chunks \in Nat
  BY <1>2, FirstChunk
<1>5. ASSUME NEW s \in Shards
      PROVE  /\ gb = Chunks => SeenTo(seen[s], shard[s], Len(shard[s]), Batch)
             /\ gb + 1 \in 1 .. Chunks =>
                  /\ 0 <= Len(micro[s][gb + 1])
                  /\ SeenTo(seen[s], shard[s], Done(micro[s], gb + 1, 0), Batch)
  <2> DEFINE n == Len(micro[s][gb])
  <2>1. PICK off : InTurn(shard[s], micro[s], off)
    BY <1>2, OneShard
  <2>2. n \in Nat \ {0} /\ Done(micro[s], gb, n) = off[gb]
    BY <1>1, <1>2, <1>3, <1>4, <2>1, RoundsOfBatch
  <2>3. mb = n
    BY <1>1, <1>2, <1>3, <2>2, RoundsAre DEF RoundInv
  <2>4. SeenTo(seen[s], shard[s], off[gb], Batch)
    BY <1>3, <2>2, <2>3
  <2>5. off[Chunks] = Len(shard[s])
    BY <2>1 DEF InTurn
  <2>6. ASSUME gb + 1 \in 1 .. Chunks
        PROVE  /\ 0 <= Len(micro[s][gb + 1])
               /\ SeenTo(seen[s], shard[s], Done(micro[s], gb + 1, 0), Batch)
    <3> DEFINE g == gb + 1
    <3>1. g \in 1 .. Chunks /\ g - 1 = gb
      BY <1>3, <2>6
    <3> HIDE DEF g
    <3>2. Len(micro[s][g]) \in Nat \ {0} /\ Done(micro[s], g, 0) = off[g - 1]
      BY <1>1, <1>2, <1>4, <2>1, <3>1, RoundsOfBatch
    <3>3. 0 <= Len(micro[s][g]) /\ SeenTo(seen[s], shard[s], Done(micro[s], g, 0), Batch)
      BY <2>4, <3>1, <3>2
    <3> QED BY <3>3 DEF g
  <2> QED BY <2>4, <2>5, <2>6
<1>6. CASE gb < Chunks
  <2>1. gb' = gb + 1 /\ mb' = 0 /\ pc' = "running"
    BY <1>1, <1>6
  <2>2. gb + 1 \in 1 .. Chunks
    BY <1>3, <1>4, <1>6
  <2>3. InStep'
    <3>1. \A s \in Shards :
             /\ mb' <= Len(micro'[s][gb'])
             /\ SeenTo(seen'[s], shard'[s], Done(micro'[s], gb', mb'), Batch)
      BY <1>1, <1>2, <1>5, <2>1, <2>2
    <3>2. gb' \in 1 .. Chunks /\ mb' \in Nat /\ DOMAIN seen' = Shards
      BY <1>1, <1>3, <2>1, <2>2
    <3> QED BY <1>1, <3>1, <3>2, InStepNext
  <2> QED BY <1>1, <1>2, <2>1, <2>3, RowInvNext DEF Unsharded, Sharded
<1>7. CASE ~(gb < Chunks)
  <2>1. pc' = "collect"
    BY <1>1, <1>7
  <2>2. gb = Chunks
    BY <1>3, <1>4, <1>7
  <2>3. WholeShards'
    <3>1. Shards' = Shards /\ Batch' = Batch
      BY <1>2 DEF Shards, Batch
    <3>2. \A s \in Shards : SeenTo(seen'[s], shard'[s], Len(shard'[s]), Batch)
      BY <1>1, <1>2, <1>5, <2>2
    <3> QED BY <1>1, <1>3, <3>1, <3>2 DEF WholeShards
  <2> QED BY <1>1, <1>2, <2>1, <2>3, RowInvNext DEF Unsharded, Sharded
<1> QED
  BY <1>6, <1>7

LEMMA AllGeneratedKeeps ==
  ASSUME CallInv, RoundInv, RowInv, AllGenerated
  PROVE  RowInv'
<1>1. /\ UNCHANGED callVars /\ UNCHANGED shardVars /\ pc = "running" /\ pc' = "collect" /\ Uneven
      /\ seen' = seen /\ \A s \in Shards : Len(seen[s]) = Len(shard[s])
  BY DEF AllGenerated, workVars
<1>2. /\ CallOK /\ WellShaped /\ Rows % Batch = 0 /\ call' = call
      /\ Layout(shard, micro) /\ Layout(shard', micro') /\ InDataOrder'
      /\ shard' = shard /\ micro' = micro
  BY <1>1, AtWork DEF Sharded
<1>3. /\ DOMAIN seen = Shards
      /\ \A t \in Shards :
           \/ SeenTo(seen[t], shard[t], 0, Batch)
           \/ SeenTo(seen[t], shard[t], Len(shard[t]), Batch)
  BY <1>1 DEF RowInv, InStep
<1>4. ASSUME NEW s \in Shards PROVE SeenTo(seen[s], shard[s], Len(shard[s]), Batch)
  <2>1. CASE SeenTo(seen[s], shard[s], 0, Batch)
    <3> DEFINE x == seen[s]
    <3>1. DOMAIN x = 1 .. 0 /\ \E V : x \in Seq(V)
      BY <2>1 DEF SeenTo
    <3> HIDE DEF x
    <3>2. Len(x) = 0
      BY <3>1
    <3>3. Len(shard[s]) = 0
      BY <1>1, <3>2 DEF x
    <3> QED BY <2>1, <3>3
  <2> QED BY <1>3, <2>1
<1>5. WholeShards'
  <2>1. Shards' = Shards /\ Batch' = Batch
    BY <1>2 DEF Shards, Batch
  <2> QED BY <1>1, <1>2, <1>3, <1>4, <2>1 DEF WholeShards
<1> QED
  BY <1>1, <1>2, <1>5, RowInvNext DEF Unsharded, Sharded

LEMMA RowsKept ==
  ASSUME CallInv, RoundInv, RowInv, [Next]_vars
  PROVE  RowInv'
<1>1. ASSUME UNCHANGED <<callVars, shardVars, workVars>>, pc \in Unsharded, pc' \in Unsharded
      PROVE  RowInv'
  <2>1. shard' = <<>> /\ micro' = <<>> /\ seen' = <<>> /\ UNCHANGED callVars
    BY <1>1 DEF shardVars, workVars, RowInv
  <2> QED BY <1>1, <2>1, RowInvNext DEF Unsharded, Sharded
<1>2. CASE Enter
  BY <1>1, <1>2 DEF Enter, Unsharded
<1>3. CASE Pack
  BY <1>1, <1>3 DEF Pack, Unsharded
<1>4. CASE ChunkPacked
  BY <1>1, <1>4 DEF ChunkPacked, Unsharded
<1>5. CASE PackingFails
  BY <1>1, <1>5 DEF PackingFails, Unsharded
<1>6. CASE ShardBins
  BY <1>6, ShardBinsLaysOut
<1>7. CASE ShardRanges
  BY <1>7, ShardRangesLaysOut
<1>8. CASE Dispatch
  BY <1>8, DispatchKeeps
<1>9. CASE Forward
  BY <1>9, ForwardKeeps
<1>10. CASE \E s \in Shards : Generate(s)
  BY <1>10, GenerateKeeps
<1>11. CASE NextGlobalBatch
  BY <1>11, NextGlobalBatchKeeps
<1>12. CASE AllGenerated
  BY <1>12, AllGeneratedKeeps
<1>13. ASSUME UNCHANGED <<callVars, shardVars, workVars>>, pc \in {"collect", "answered"},
              pc' \in {"collect", "answered"}
       PROVE  RowInv'
  <2>1. UNCHANGED callVars /\ UNCHANGED shardVars /\ seen' = seen
    BY <1>13 DEF workVars
  <2>2. /\ CallOK /\ WellShaped /\ Rows % Batch = 0 /\ call' = call
        /\ Layout(shard, micro) /\ Layout(shard', micro') /\ InDataOrder'
        /\ shard' = shard /\ micro' = micro
    BY <1>13, <2>1, AtWork DEF Sharded
  <2>3. WholeShards
    BY <1>13 DEF RowInv
  <2>4. WholeShards'
    <3>1. Shards' = Shards /\ Batch' = Batch
      BY <2>2 DEF Shards, Batch
    <3> QED BY <2>1, <2>2, <2>3, <3>1 DEF WholeShards
  <2> QED BY <1>13, <2>1, <2>2, <2>4, RowInvNext DEF Unsharded, Sharded
<1>14. CASE Collect
  BY <1>13, <1>14 DEF Collect
<1>15. CASE UNCHANGED vars
  <2>1. UNCHANGED <<callVars, shardVars, workVars>> /\ pc' = pc
    BY <1>15 DEF vars
  <2>2. CASE pc \in Unsharded
    BY <1>1, <2>1, <2>2
  <2>3. CASE pc \in {"collect", "answered"}
    BY <1>13, <2>1, <2>3
  <2>4. CASE pc \in {"dispatch", "running"}
    <3>1. UNCHANGED callVars /\ UNCHANGED shardVars /\ seen' = seen /\ gb' = gb /\ mb' = mb
      BY <2>1 DEF workVars
    <3>2. /\ CallOK /\ WellShaped /\ Rows % Batch = 0 /\ call' = call
          /\ Layout(shard, micro) /\ Layout(shard', micro') /\ InDataOrder'
          /\ shard' = shard /\ micro' = micro
      BY <2>4, <3>1, AtWork DEF Sharded
    <3>3. pc' = "running" => InStep'
      <4> SUFFICES ASSUME pc' = "running" PROVE InStep'
        OBVIOUS
      <4>1. InStep
        BY <2>1 DEF RowInv
      <4> QED BY <3>1, <3>2, <4>1, InStepNext DEF InStep
    <3>4. pc = "dispatch" => seen' = <<>>
      BY <3>1 DEF RowInv
    <3> QED BY <2>1, <2>4, <3>1, <3>2, <3>3, <3>4, RowInvNext DEF Unsharded, Sharded
  <2>5. pc \in Unsharded \cup Sharded
    BY DEF RowInv
  <2> QED BY <2>2, <2>3, <2>4, <2>5 DEF Sharded
<1>16. CASE Rest
  BY <1>15, <1>16 DEF Rest
<1> QED
  BY <1>2, <1>3, <1>4, <1>5, <1>6, <1>7, <1>8, <1>9, <1>10, <1>11, <1>12, <1>14, <1>15, <1>16
  DEF Next

\* The invariants of a call, from the batch to the results.
WholeCall == CallInv /\ RoundInv /\ RowInv

LEMMA RowsBegin ==
  ASSUME Init
  PROVE  RowInv
<1>1. /\ call \in [op : {"train", "get_logprobs"}, batching : {"packing", "dynamic", "plain"},
                   batch : BatchSizes, shards : ShardCounts]
           \cup [op : {"generate"}, batching : {"plain"}, batch : BatchSizes, shards : ShardCounts]
      /\ pc = "called" /\ shard = <<>> /\ micro = <<>> /\ seen = <<>>
  BY DEF Init
<1>2. call.batching \in {"packing", "dynamic", "plain"} /\ (Uneven => call.batching = "plain")
  BY <1>1 DEF Uneven
<1> QED
  BY <1>1, <1>2 DEF RowInv, Unsharded, Sharded

THEOREM CallsRowsInvariant == Spec => []WholeCall
<1>1. Init => RoundInv
  BY DEF Init, RoundInv, SameRounds
<1>2. Init => RowInv
  BY RowsBegin
<1>3. CallInv /\ RoundInv /\ RowInv /\ [Next]_vars => RoundInv' /\ RowInv'
  BY RoundsKept, RowsKept
<1>4. CallInv /\ RoundInv /\ RowInv => WholeCall
  BY DEF WholeCall
<1> QED
  BY <1>1, <1>2, <1>3, <1>4, CallInvariant, PTL DEF Spec

\* What a rank has seen is the beginning of its shard.
LEMMA SeenOfShard ==
  ASSUME WholeCall, NEW s \in DOMAIN seen
  PROVE  /\ s \in Shards /\ Layout(shard, micro) /\ shard[s] \in Seq(1 .. Rows)
         /\ \E n : SeenTo(seen[s], shard[s], n, Batch)
<1>1. CallOK /\ RowInv
  BY DEF WholeCall, CallInv
<1>2. pc \in {"running", "collect", "answered"}
  <2>1. seen # <<>>
    <3>1. DOMAIN <<>> = {}
      OBVIOUS
    <3> QED BY <3>1
  <2> QED BY <1>1, <2>1 DEF RowInv, Sharded
<1>3. Layout(shard, micro) /\ WellShaped
  BY <1>1, <1>2 DEF RowInv, Sharded
<1>4. s \in Shards /\ \E n : SeenTo(seen[s], shard[s], n, Batch)
  <2>1. CASE pc = "running"
    BY <1>1, <2>1 DEF RowInv, InStep
  <2>2. CASE pc # "running"
    BY <1>1, <1>2, <2>2 DEF RowInv, WholeShards
  <2> QED BY <2>1, <2>2
<1>5. shard[s] \in Seq(1 .. Rows)
  BY <1>1, <1>3, <1>4, OneShard DEF WellShaped
<1> QED
  BY <1>3, <1>4, <1>5

LEMMA SeenRow ==
  ASSUME WholeCall, NEW s \in DOMAIN seen, NEW k \in DOMAIN seen[s]
  PROVE  /\ s \in DOMAIN shard /\ k \in DOMAIN shard[s] /\ shard[s][k] = seen[s][k][2]
         /\ seen[s][k][1] = ChunkOf(seen[s][k][2]) /\ Apart(shard)
<1> DEFINE x == seen[s]
           f == shard[s]
<1>1. s \in Shards /\ Layout(shard, micro) /\ f \in Seq(1 .. Rows)
  BY SeenOfShard
<1>2. PICK n : SeenTo(x, f, n, Batch)
  BY SeenOfShard
<1>3. s \in DOMAIN shard /\ Apart(shard)
  BY <1>1 DEF Layout
<1>4. DOMAIN f = 1 .. Len(f) /\ Len(f) \in Nat
  BY <1>1
<1>5. k \in 1 .. n /\ k \in 1 .. Len(f) /\ x[k] = <<(f[k] - 1) \div Batch + 1, f[k]>>
  <2>1. /\ n \in 0 .. Len(f) /\ DOMAIN x = 1 .. n
        /\ \A j \in 1 .. n : x[j] = <<(f[j] - 1) \div Batch + 1, f[j]>>
    BY <1>2 DEF SeenTo
  <2>2. k \in 1 .. n
    BY <2>1
  <2> HIDE DEF x, f
  <2>3. k \in 1 .. Len(f)
    BY <1>4, <2>1, <2>2
  <2> QED BY <2>1, <2>2, <2>3
<1>6. x[k][1] = ChunkOf(f[k]) /\ x[k][2] = f[k]
  BY <1>5 DEF ChunkOf
<1> QED
  BY <1>3, <1>4, <1>5, <1>6

LEMMA SeenOnce ==
  ASSUME WholeCall
  PROVE  SeenInItsBatch
<1>1. ASSUME NEW s \in DOMAIN seen, NEW k \in DOMAIN seen[s]
      PROVE  /\ seen[s][k][1] = ChunkOf(seen[s][k][2])
             /\ \A t \in DOMAIN seen : \A l \in DOMAIN seen[t] :
                  seen[t][l][2] = seen[s][k][2] => s = t /\ k = l
  <2>1. /\ s \in DOMAIN shard /\ k \in DOMAIN shard[s] /\ shard[s][k] = seen[s][k][2]
        /\ seen[s][k][1] = ChunkOf(seen[s][k][2]) /\ Apart(shard)
    BY SeenRow
  <2>2. ASSUME NEW t \in DOMAIN seen, NEW l \in DOMAIN seen[t], seen[t][l][2] = seen[s][k][2]
        PROVE  s = t /\ k = l
    <3>1. t \in DOMAIN shard /\ l \in DOMAIN shard[t] /\ shard[t][l] = seen[t][l][2]
      BY SeenRow
    <3> QED BY <2>1, <2>2, <3>1 DEF Apart
  <2> QED BY <2>1, <2>2
<1> QED
  BY <1>1 DEF SeenInItsBatch

LEMMA SeenByTheEnd ==
  ASSUME WholeCall
  PROVE  AllSeen
<1> SUFFICES ASSUME pc = "answered", NEW row \in 1 .. Rows
             PROVE  \E s \in Shards : \E k \in DOMAIN seen[s] : seen[s][k][2] = row
  BY DEF AllSeen
<1>1. WholeShards /\ Layout(shard, micro)
  BY DEF WholeCall, RowInv, Sharded
<1>2. row \in Held(shard) /\ DOMAIN shard = Shards
  BY <1>1 DEF Layout
<1>3. PICK s \in DOMAIN shard : \E k \in DOMAIN shard[s] : shard[s][k] = row
  BY <1>2, HeldIs
<1>4. PICK k \in DOMAIN shard[s] : shard[s][k] = row
  BY <1>3
<1> DEFINE x == seen[s]
           f == shard[s]
<1>5. s \in Shards /\ SeenTo(x, f, Len(f), Batch)
  BY <1>1, <1>2 DEF WholeShards
<1>6. DOMAIN f = 1 .. Len(f)
  <2>1. shard \in Seq(Seq(1 .. Rows))
    BY <1>1 DEF Layout
  <2>2. f \in Seq(1 .. Rows)
    BY <2>1, MemberOfList
  <2> QED BY <2>2
<1>7. k \in DOMAIN x /\ x[k] = <<(f[k] - 1) \div Batch + 1, f[k]>>
  BY <1>5, <1>6 DEF SeenTo
<1>8. x[k][2] = row
  BY <1>4, <1>7
<1> QED
  BY <1>5, <1>7, <1>8

\* A row is worked on once on its whole way (the packers, shard_by_batch_size,
\* get_batch and the loops of the workers): a bin's rows go to one shard, ranges
\* of rows and bins part each global batch among the shards, and the microbatches
\* of a rank cover its part of a global batch and no more, whatever the lengths,
\* the batching, the batch size and the number of ranks.
THEOREM RowsAreWorkedOnOnce == Spec => []EachRowOnce
<1>1. WholeCall /\ EachInOneBin => EachRowOnce
  BY SeenOnce, SeenByTheEnd DEF EachRowOnce
<1> QED
  BY <1>1, CallsRowsInvariant, NoSequenceIsLost, PTL

LEMMA MicrobatchesAreRight ==
  ASSUME WholeCall
  PROVE  MicrobatchesFit
<1> SUFFICES ASSUME call.batching # "plain", NEW s \in DOMAIN micro, NEW c \in 1 .. Chunks
             PROVE  /\ micro[s][c] # <<>>
                    /\ \A k \in DOMAIN micro[s][c] :
                         MicroRows(s, c, k) # <<>> /\ Tokens(length, MicroRows(s, c, k)) <= Capacity
  BY DEF MicrobatchesFit
<1>1. Layout(shard, micro)
  <2>1. micro # <<>>
    <3>1. DOMAIN <<>> = {}
      OBVIOUS
    <3> QED BY <3>1
  <2> QED BY <2>1 DEF WholeCall, RowInv
<1>2. InTokens(shard[s], micro[s], c)
  BY <1>1 DEF Layout
<1>3. \A k : MicroRows(s, c, k) = MicroOf(shard[s], micro[s], c, k)
  BY DEF MicroRows, MicroOf, PartBefore, StartOf
<1> QED
  BY <1>2, <1>3 DEF InTokens

\* The collectives of the ranks meet in microbatches that are not empty and not
\* too long, for every batching, and the spreading of the bins does not fail
\* (pack, _adjust_bin_count, shard_by_batch_size and the widths that dynamic
\* batching accumulates).
THEOREM RanksStayInStep == Spec => []RanksInStep
<1>1. WholeCall => RanksInStep
  BY MicrobatchesAreRight DEF WholeCall, CallInv, RoundInv, RanksInStep, NeverABug
<1> QED
  BY <1>1, CallsRowsInvariant, PTL

-----------------------------------------------------------------------------
(* The results come back *)

LEMMA TimesGrows ==
  ASSUME NEW t \in Nat \ {0}, NEW a \in Nat, NEW b \in Nat, a < b
  PROVE  a * t + t <= b * t
<1> DEFINE d == b - a - 1
<1>1. d \in Nat /\ b = a + d + 1
  OBVIOUS
<1> HIDE DEF d
<1>2. a * t \in Nat /\ d * t \in Nat /\ b * t = a * t + d * t + t
  BY <1>1
<1> QED
  BY <1>2

\* The first n multiples of t.
Multiples(t, n) == {(r - 1) * t : r \in 1 .. n}

LEMMA CountMultiples ==
  ASSUME NEW t \in Nat \ {0}, NEW n \in Nat
  PROVE  IsFiniteSet(Multiples(t, n)) /\ Cardinality(Multiples(t, n)) = n
<1> DEFINE S == Multiples(t, n)
           multiple(r) == (r - 1) * t
           f == [r \in 1 .. n |-> multiple(r)]
<1>1. ASSUME NEW r \in 1 .. n PROVE multiple(r) \in 0 .. (n * t) /\ multiple(r) \in S
  <2>1. r - 1 \in Nat /\ r - 1 < n
    OBVIOUS
  <2>2. (r - 1) * t \in Nat /\ n * t \in Nat /\ (r - 1) * t + t <= n * t
    BY <2>1, TimesGrows
  <2>3. (r - 1) * t <= n * t
    BY <2>2
  <2> QED BY <2>2, <2>3 DEF Multiples
<1>2. ASSUME NEW r \in 1 .. n, NEW s \in 1 .. n, multiple(r) = multiple(s) PROVE r = s
  <2>1. r - 1 \in Nat /\ s - 1 \in Nat /\ (r - 1) * t \in Nat /\ (s - 1) * t \in Nat
    OBVIOUS
  <2>2. ~(r - 1 < s - 1)
    <3> SUFFICES ASSUME r - 1 < s - 1 PROVE FALSE
      OBVIOUS
    <3>1. (r - 1) * t + t <= (s - 1) * t
      BY <2>1, TimesGrows
    <3> QED BY <1>2, <2>1, <3>1
  <2>3. ~(s - 1 < r - 1)
    <3> SUFFICES ASSUME s - 1 < r - 1 PROVE FALSE
      OBVIOUS
    <3>1. (s - 1) * t + t <= (r - 1) * t
      BY <2>1, TimesGrows
    <3> QED BY <1>2, <2>1, <3>1
  <2> QED BY <2>1, <2>2, <2>3
<1>3. S = {multiple(r) : r \in 1 .. n}
  BY DEF Multiples
<1> HIDE DEF S, multiple
<1>4. f \in Seq(S) /\ Len(f) = n /\ DOMAIN f = 1 .. n /\ \A r \in 1 .. n : f[r] = multiple(r)
  <2>1. f \in [1 .. n -> S]
    BY <1>1
  <2> QED BY <2>1, ListIs
<1>5. OnceEach(f) /\ Range(f) = S
  <2> HIDE DEF f
  <2> QED BY <1>2, <1>3, <1>4 DEF OnceEach, Range
<1>6. IsFiniteSet(S)
  <2>1. n * t \in Nat
    OBVIOUS
  <2> DEFINE top == n * t
  <2>2. S \in SUBSET (0 .. top)
    BY <1>1, <1>3
  <2>3. top \in Int
    BY <2>1
  <2> HIDE DEF top
  <2>4. IsFiniteSet(0 .. top)
    BY <2>3, FS_Interval
  <2> QED BY <2>2, <2>4, FS_Subset
<1> HIDE DEF f
<1>7. Cardinality(S) = n
  BY <1>4, <1>5, <1>6, FullList
<1> QED
  BY <1>6, <1>7 DEF S

\* The first workers of the shards are those that replicate no other.
LEMMA FirstWorkers ==
  ASSUME CallOK
  PROVE  {w \in 0 .. (Pipeline * call.shards * Tensor - 1) : ~Replica(w)}
           = Multiples(Tensor, call.shards)
<1> DEFINE m == call.shards
           t == Tensor
           all == Pipeline * call.shards * Tensor
           one == m * t
           W == {w \in 0 .. (all - 1) : ~Replica(w)}
<1>1. m \in Nat \ {0} /\ t \in Nat \ {0} /\ Pipeline \in Nat \ {0}
  BY DispatchAssumption DEF CallOK
<1>2. one \in Nat \ {0} /\ all \in Nat /\ one <= all
  <2>1. one \in Nat \ {0} /\ all = Pipeline * one
    BY <1>1
  <2>2. Pipeline * one \in Nat /\ one <= Pipeline * one
    <3> HIDE DEF one
    <3> QED BY <1>1, <2>1
  <2> QED BY <2>1, <2>2
<1>3. \A w : Replica(w) <=> w \div one # 0 \/ w % t # 0
  BY DEF Replica
<1>4. ASSUME NEW s \in 1 .. m PROVE (s - 1) * t \in W
  <2> DEFINE q == s - 1
             w == q * t
  <2>1. q \in Nat /\ q < m
    BY <1>1
  <2>2. w \in Nat /\ w + t <= one
    BY <1>1, <2>1, TimesGrows
  <2>3. w % t = 0
    <3> HIDE DEF q
    <3> QED BY <1>1, <2>1
  <2> HIDE DEF w, one, all
  <2>4. w < one /\ w \in 0 .. (all - 1)
    BY <1>1, <1>2, <2>2
  <2>5. w \div one = 0
    BY <1>2, <2>2, <2>4
  <2>6. w \in W
    BY <1>3, <2>3, <2>4, <2>5
  <2> QED BY <2>6 DEF w
<1>5. ASSUME NEW w \in W PROVE \E s \in 1 .. m : w = (s - 1) * t
  <2>1. w \in Nat /\ w \div one = 0 /\ w % t = 0
    BY <1>2, <1>3
  <2>2. w < one
    <3> HIDE DEF one
    <3> QED BY <1>2, <2>1
  <2> DEFINE q == w \div t
  <2>3. q \in Nat /\ w = q * t
    BY <1>1, <2>1, WholeQuotient
  <2> HIDE DEF q
  <2>4. q < m
    <3> SUFFICES ASSUME m <= q PROVE FALSE
      BY <1>1, <2>3
    <3>1. m = q \/ m < q
      BY <1>1, <2>3
    <3>2. CASE m < q
      <4>1. m * t + t <= q * t
        BY <1>1, <2>3, <3>2, TimesGrows
      <4> QED BY <1>1, <1>2, <2>2, <2>3, <4>1
    <3>3. CASE m = q
      <4>1. w = one
        BY <2>3, <3>3
      <4> QED BY <1>2, <2>2, <4>1
    <3> QED BY <3>1, <3>2, <3>3
  <2>5. q + 1 \in 1 .. m /\ w = ((q + 1) - 1) * t
    BY <1>1, <2>3, <2>4
  <2> QED BY <2>5
<1> HIDE DEF W
<1>6. W = Multiples(t, m)
  BY <1>4, <1>5 DEF Multiples
<1> QED
  BY <1>6 DEF W

\* So results are taken shard after shard.
LEMMA ResultsInTurn ==
  ASSUME CallOK
  PROVE  /\ DOMAIN ReturnFrom = Shards
         /\ \A s \in Shards : DataCoord(ReturnFrom[s]) + 1 = s
<1> DEFINE m == call.shards
           t == Tensor
           S == Multiples(t, m)
           before == {p \in S \X S : p[1] < p[2]}
           f == InOrder(S, before)
<1>1. m \in Nat \ {0} /\ t \in Nat \ {0} /\ Shards = 1 .. m
  BY DispatchAssumption DEF CallOK, Shards
<1>2. ReturnFrom = f
  BY FirstWorkers DEF ReturnFrom
<1>3. IsFiniteSet(S) /\ Cardinality(S) = m
  BY <1>1, CountMultiples
<1>4. S \in SUBSET Nat
  <2>1. ASSUME NEW r \in 1 .. m PROVE (r - 1) * t \in Nat
    BY <1>1
  <2> QED BY <2>1 DEF Multiples
<1>5. \A x, y \in S : <<x, y>> \in before <=> x < y
  OBVIOUS
<1>6. StrictOrder(S, before)
  <2> HIDE DEF S, before
  <2> QED BY <1>4, <1>5 DEF StrictOrder
<1>7. ASSUME NEW s \in 1 .. m
      PROVE  (s - 1) * t \in S /\ Rank(S, before, (s - 1) * t) = s - 1
  <2> DEFINE x == (s - 1) * t
  <2>1. x \in S
    BY DEF Multiples
  <2>2. {y \in S : <<y, x>> \in before} = Multiples(t, s - 1)
    <3>1. ASSUME NEW r \in 1 .. m
          PROVE  (r - 1) * t \in Nat /\ ((r - 1) * t < (s - 1) * t <=> r - 1 < s - 1)
      <4>1. r - 1 \in Nat /\ s - 1 \in Nat /\ (r - 1) * t \in Nat /\ (s - 1) * t \in Nat
        BY <1>1
      <4>2. ASSUME r - 1 < s - 1 PROVE (r - 1) * t < (s - 1) * t
        <5>1. (r - 1) * t + t <= (s - 1) * t
          BY <1>1, <4>1, <4>2, TimesGrows
        <5> QED BY <1>1, <4>1, <5>1
      <4>3. ASSUME s - 1 < r - 1 PROVE (s - 1) * t < (r - 1) * t
        <5>1. (s - 1) * t + t <= (r - 1) * t
          BY <1>1, <4>1, <4>3, TimesGrows
        <5> QED BY <1>1, <4>1, <5>1
      <4>4. r - 1 = s - 1 => (r - 1) * t = (s - 1) * t
        OBVIOUS
      <4> QED BY <4>1, <4>2, <4>3, <4>4
    <3>2. ASSUME NEW y \in S, <<y, x>> \in before PROVE y \in Multiples(t, s - 1)
      <4>1. PICK r \in 1 .. m : y = (r - 1) * t
        BY DEF Multiples
      <4>2. y < x
        BY <1>5, <2>1, <3>2
      <4>3. r - 1 < s - 1
        BY <3>1, <4>1, <4>2
      <4>4. r \in 1 .. (s - 1)
        BY <1>1, <4>3
      <4> QED BY <4>1, <4>4 DEF Multiples
    <3>3. ASSUME NEW y \in Multiples(t, s - 1) PROVE y \in S /\ <<y, x>> \in before
      <4>1. PICK r \in 1 .. (s - 1) : y = (r - 1) * t
        BY DEF Multiples
      <4>2. r \in 1 .. m /\ r - 1 < s - 1
        BY <1>1
      <4>3. y \in S
        BY <4>1, <4>2 DEF Multiples
      <4>4. y < x
        BY <3>1, <4>1, <4>2
      <4> QED BY <1>5, <2>1, <4>3, <4>4
    <3> HIDE DEF S, before, x
    <3> QED BY <3>2, <3>3
  <2>3. s - 1 \in Nat
    BY <1>1
  <2>4. Cardinality(Multiples(t, s - 1)) = s - 1
    BY <1>1, <2>3, CountMultiples
  <2> QED BY <2>1, <2>2, <2>4 DEF Rank
<1> HIDE DEF S, before
<1>8. /\ Listed(f, S)
      /\ \A k \in 1 .. Cardinality(S) : Rank(S, before, f[k]) = k - 1
  BY <1>3, <1>6, InOrderLists
<1> HIDE DEF f
<1>9. f \in Seq(S) /\ Len(f) = m /\ DOMAIN f = 1 .. m
  BY <1>3, <1>8 DEF Listed
<1>10. ASSUME NEW s \in 1 .. m PROVE f[s] = (s - 1) * t
  <2>1. f[s] \in S
    BY <1>9, MemberOfList
  <2>2. Rank(S, before, f[s]) = s - 1
    BY <1>3, <1>8
  <2>3. (s - 1) * t \in S /\ Rank(S, before, (s - 1) * t) = s - 1
    BY <1>7
  <2> DEFINE x == (s - 1) * t
  <2> HIDE DEF x
  <2>4. f[s] = x
    <3>1. x \in S /\ Rank(S, before, f[s]) = Rank(S, before, x)
      BY <2>2, <2>3 DEF x
    <3> QED BY <1>3, <1>6, <2>1, <3>1, RanksDiffer
  <2> QED BY <2>4 DEF x
<1>11. ASSUME NEW s \in 1 .. m PROVE DataCoord(f[s]) + 1 = s
  <2> DEFINE q == s - 1
  <2>1. q \in 0 .. (m - 1) /\ q + 1 = s
    BY <1>1
  <2>2. f[s] = q * t
    BY <1>10
  <2> HIDE DEF q
  <2>3. (q * t) \div t = q
    BY <1>1, <2>1
  <2>4. q % m = q
    BY <1>1, <2>1
  <2> QED BY <2>1, <2>2, <2>3, <2>4 DEF DataCoord
<1> QED
  BY <1>1, <1>2, <1>9, <1>11

\* The results are in the order of the rows in the shards, which has each row once.
InOrderOfRows(results) ==
  /\ DOMAIN order = 1 .. Rows /\ OnceEach(order) /\ Range(order) = 1 .. Rows
  /\ DOMAIN results = 1 .. Rows /\ Len(results) = Rows
  /\ \A k \in 1 .. Rows : results[k][2] = order[k]

LEMMA ResultsInOrder ==
  ASSUME WholeCall, pc = "collect", call.op # "train"
  PROVE  InOrderOfRows(Results)
<1> DEFINE m == call.shards
           R == 1 .. Rows
           V == {<<(r - 1) \div Batch + 1, r>> : r \in R}
           ss == shard
           tt == [s \in 1 .. m |-> seen[s]]
           x == Results
<1>1. /\ CallOK /\ WellShaped /\ Layout(shard, micro) /\ InDataOrder /\ WholeShards
  BY DEF WholeCall, CallInv, RowInv, Sharded
<1>2. m \in Nat \ {0} /\ Shards = 1 .. m /\ Rows \in Nat
  BY <1>1, DispatchAssumption DEF CallOK, Shards
<1>3. ss \in Seq(Seq(R)) /\ DOMAIN ss = 1 .. m /\ Len(ss) = m /\ Apart(ss) /\ Held(ss) = R
  <2>1. ss \in Seq(Seq(R)) /\ DOMAIN ss = 1 .. m /\ Apart(ss) /\ Held(ss) = R
    BY <1>1, <1>2 DEF Layout
  <2> HIDE DEF ss, m
  <2>2. Len(ss) = m
    BY <1>2, <2>1
  <2> QED BY <2>1, <2>2
<1>4. order = FlattenSeq(ss)
  BY <1>1 DEF InDataOrder
<1>5. order \in Seq(R) /\ \E off : Flat(order, ss, off)
  BY <1>3, <1>4, Flattens
<1>6. PICK off : Flat(order, ss, off)
  BY <1>5
<1>7. OnceEach(order)
  BY <1>3, <1>6, FlatApart
<1>8. Range(order) = R
  BY <1>3, <1>6, FlatHolds
<1>9. Len(order) = Rows /\ DOMAIN order = R
  <2>1. IsFiniteSet(R) /\ Cardinality(R) = Rows
    BY <1>2, CountUpTo
  <2> HIDE DEF R
  <2>2. Len(order) = Cardinality(R)
    BY <1>5, <1>7, <1>8, <2>1, FullList
  <2>3. DOMAIN order = 1 .. Len(order)
    BY <1>5
  <2> QED BY <2>1, <2>2, <2>3 DEF R
<1>10. ASSUME NEW s \in 1 .. m
       PROVE  /\ tt[s] \in Seq(V) /\ Len(tt[s]) = Len(ss[s]) /\ DOMAIN tt[s] = DOMAIN ss[s]
              /\ \A k \in DOMAIN ss[s] : tt[s][k][2] = ss[s][k]
  <2> DEFINE y == seen[s]
             f == shard[s]
             n == Len(f)
  <2>1. SeenTo(y, f, n, Batch)
    BY <1>1, <1>2 DEF WholeShards
  <2>2. f \in Seq(R)
    BY <1>3, MemberOfList
  <2>3. n \in Nat /\ DOMAIN f = 1 .. n
    BY <2>2
  <2>4. /\ y \in Seq(V) /\ DOMAIN y = 1 .. n
        /\ \A k \in 1 .. n : y[k] = <<(f[k] - 1) \div Batch + 1, f[k]>>
    BY <2>1 DEF SeenTo
  <2> HIDE DEF n, y, f, V
  <2>5. Len(y) = n
    BY <2>3, <2>4
  <2>6. \A k \in 1 .. n : y[k][2] = f[k]
    BY <2>4
  <2>7. tt[s] = y
    BY DEF y
  <2> QED BY <2>3, <2>4, <2>5, <2>6, <2>7 DEF y, f, n
<1>11. tt \in Seq(Seq(V)) /\ Len(tt) = m
  <2>1. tt \in [1 .. m -> Seq(V)]
    BY <1>10
  <2> HIDE DEF tt, V, m
  <2> QED BY <1>2, <2>1, ListIs
<1>12. x = FlattenSeq(tt)
  <2>1. DOMAIN ReturnFrom = 1 .. m /\ \A s \in 1 .. m : DataCoord(ReturnFrom[s]) + 1 = s
    BY <1>1, <1>2, ResultsInTurn
  <2>2. [k \in DOMAIN ReturnFrom |-> seen[DataCoord(ReturnFrom[k]) + 1]] = tt
    BY <2>1
  <2> QED BY <2>2 DEF Results
<1> HIDE DEF x, tt, V
<1>13. x \in Seq(V) /\ \E end : Flat(x, tt, end)
  BY <1>11, <1>12, Flattens
<1>14. PICK end : Flat(x, tt, end)
  BY <1>13
<1>15. Len(ss) = Len(tt) /\ \A b \in 1 .. Len(ss) : Len(ss[b]) = Len(tt[b])
  BY <1>3, <1>10, <1>11
<1>16. DOMAIN order = DOMAIN x
  BY <1>3, <1>6, <1>11, <1>14, <1>15, SameEnds
<1>17. ASSUME NEW k \in R PROVE x[k][2] = order[k]
  <2>1. k \in DOMAIN order
    BY <1>9
  <2>2. Alike(order, ss, x, tt, k)
    BY <1>3, <1>6, <1>11, <1>14, <1>15, <2>1, FlatAlike
  <2>3. PICK b \in DOMAIN ss : \E j \in DOMAIN ss[b] : order[k] = ss[b][j] /\ x[k] = tt[b][j]
    BY <2>2 DEF Alike
  <2>4. PICK j \in DOMAIN ss[b] : order[k] = ss[b][j] /\ x[k] = tt[b][j]
    BY <2>3
  <2>5. tt[b][j][2] = ss[b][j]
    BY <1>3, <1>10
  <2> QED BY <2>4, <2>5
<1>18. Len(x) = Rows /\ DOMAIN x = R
  BY <1>2, <1>9, <1>13, <1>16
<1> QED
  BY <1>7, <1>8, <1>9, <1>17, <1>18 DEF InOrderOfRows, x

\* Sorted by row, the results are at their rows' places.
LEMMA Reordered ==
  ASSUME NEW results, InOrderOfRows(results)
  PROVE  Len(Reorder(results)) = Rows /\ \A i \in 1 .. Rows : Reorder(results)[i][2] = i
<1> DEFINE place(i) == CHOOSE k \in DOMAIN order : order[k] = i
           f == [i \in DOMAIN results |-> results[place(i)]]
<1>1. f = Reorder(results)
  BY DEF Reorder
<1>2. /\ DOMAIN results = 1 .. Rows /\ DOMAIN order = 1 .. Rows /\ Range(order) = 1 .. Rows
      /\ \A k \in 1 .. Rows : results[k][2] = order[k]
  BY DEF InOrderOfRows
<1>3. ASSUME NEW i \in 1 .. Rows PROVE place(i) \in 1 .. Rows /\ order[place(i)] = i
  <2>1. \E k \in DOMAIN order : order[k] = i
    BY <1>2 DEF Range
  <2> QED BY <1>2, <2>1
<1> HIDE DEF place
<1>4. ASSUME NEW i \in 1 .. Rows PROVE f[i][2] = i
  <2>1. f[i] = results[place(i)]
    BY <1>2
  <2>2. place(i) \in 1 .. Rows /\ order[place(i)] = i
    BY <1>3
  <2> HIDE DEF f
  <2>3. results[place(i)][2] = i
    BY <1>2, <2>2
  <2> QED BY <2>1, <2>3
<1>5. DOMAIN f = 1 .. Rows
  BY <1>2
<1>6. Len(f) = Rows
  <2>1. Rows \in Nat
    BY DispatchAssumption
  <2> HIDE DEF f
  <2> QED BY <1>5, <2>1
<1> HIDE DEF f
<1> QED
  BY <1>1, <1>4, <1>6

LEMMA CollectAnswers ==
  ASSUME WholeCall, Collect
  PROVE  RowsComeBack'
<1>1. /\ pc = "collect" /\ call' = call
      /\ answer' = IF call.batching = "plain" \/ call.op = "train" THEN Results ELSE Reorder(Results)
  BY DEF Collect, callVars
<1> SUFFICES ASSUME call.op # "train"
             PROVE  Len(answer') = Rows /\ \A i \in 1 .. Rows : answer'[i][2] = i
  BY <1>1 DEF RowsComeBack
<1>2. InOrderOfRows(Results)
  BY <1>1, ResultsInOrder
<1>3. CASE call.batching = "plain"
  <2>1. answer' = Results
    BY <1>1, <1>3
  <2>2. order = [k \in 1 .. Rows |-> k]
    BY <1>1, <1>3 DEF WholeCall, RowInv, Sharded, InDataOrder
  <2>3. \A k \in 1 .. Rows : order[k] = k
    BY <2>2
  <2> QED BY <1>2, <2>1, <2>3 DEF InOrderOfRows
<1>4. CASE call.batching # "plain"
  <2>1. answer' = Reorder(Results)
    BY <1>1, <1>4
  <2> QED BY <1>2, <2>1, Reordered
<1> QED
  BY <1>3, <1>4

LEMMA AnswersKept ==
  ASSUME WholeCall, RowsComeBack, [Next]_vars
  PROVE  RowsComeBack'
<1>1. CASE UNCHANGED vars
  BY <1>1 DEF vars, callVars, RowsComeBack
<1>2. CASE Collect
  BY <1>2, CollectAnswers
<1>3. ASSUME pc' # "answered" PROVE RowsComeBack'
  BY <1>3 DEF RowsComeBack
<1>4. CASE Enter
  BY <1>3, <1>4 DEF Enter
<1>5. CASE Pack
  BY <1>3, <1>5 DEF Pack
<1>6. CASE ChunkPacked
  BY <1>3, <1>6 DEF ChunkPacked
<1>7. CASE PackingFails
  BY <1>3, <1>7 DEF PackingFails
<1>8. CASE ShardBins
  BY <1>3, <1>8 DEF ShardBins
<1>9. CASE ShardRanges
  BY <1>3, <1>9 DEF ShardRanges
<1>10. CASE Dispatch
  BY <1>3, <1>10 DEF Dispatch
<1>11. CASE Forward
  BY <1>3, <1>11 DEF Forward
<1>12. CASE \E s \in Shards : Generate(s)
  BY <1>3, <1>12 DEF Generate
<1>13. CASE NextGlobalBatch
  BY <1>3, <1>13 DEF NextGlobalBatch
<1>14. CASE AllGenerated
  BY <1>3, <1>14 DEF AllGenerated
<1>15. CASE Rest
  BY <1>1, <1>15 DEF Rest
<1> QED
  BY <1>1, <1>2, <1>4, <1>5, <1>6, <1>7, <1>8, <1>9, <1>10, <1>11, <1>12, <1>13, <1>14, <1>15
  DEF Next

\* The caller of get_logprobs and generate gets the result of row i at place i
\* (reorder_data, run_all_workers_sharded_data), for every layout of the workers,
\* every batching and all lengths: results are taken shard after shard, so they
\* are in the order that the rows were put in, and sorting by it undoes it.
THEOREM EveryRowComesBack == Spec => []RowsComeBack
<1>1. Init => RowsComeBack
  BY DEF Init, RowsComeBack
<1>2. WholeCall /\ RowsComeBack /\ [Next]_vars => RowsComeBack'
  BY AnswersKept
<1> QED
  BY <1>1, <1>2, CallsRowsInvariant, PTL DEF Spec

=============================================================================
