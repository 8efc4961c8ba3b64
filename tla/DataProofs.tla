------------------------------- MODULE DataProofs -------------------------------
(***************************************************************************)
(* What holds, for every value of the constants, of the data that the      *)
(* daemon keeps: the source registry and the two modules that extend it,   *)
(* Ingestion, in which polls run beside changes of the registry, and       *)
(* Gateway, in which those changes run beside reloads of the model         *)
(* runtime, merges of entities and the pipeline worker that extracts       *)
(* documents; and the stores of a graph and of vectors.                    *)
(*                                                                         *)
(* The inductive invariants are IngestionInv and GatewayInv, the           *)
(* registry's part of both being RegistryInv, GraphInv and VectorInv.  The *)
(* lemmas before them say what the operators give that the actions are     *)
(* built from.  Some of those are defined by recursion or by a choice of a *)
(* function (filters, the flattening and the sums of the community         *)
(* modules); what is needed of them is proved by least counterexamples,    *)
(* for given functions.                                                    *)
(***************************************************************************)
EXTENDS Gateway, Ingestion, Stores, SequenceTheorems, FiniteSetTheorems, WellFoundedInduction, TLAPS

-----------------------------------------------------------------------------
(* Induction, recursion and filters.                                       *)

LEMMA LeastOfFinite ==
    ASSUME NEW S \in SUBSET Nat, IsFiniteSet(S), S # {}
    PROVE  \E m \in S : \A n \in S : m <= n
<1> DEFINE NoMore(m) == {n \in S : n <= m}
           T == {NoMore(m) : m \in S}
<1>1. T \subseteq FiniteSubsetsOf(S)
  BY FS_Subset DEF FiniteSubsetsOf
<1>2. PICK X \in T : \A Y \in T : ~(<<Y, X>> \in StrictSubsetOrdering(S))
  <2>1. T # {}
    OBVIOUS
  <2> HIDE DEF T
  <2> QED  BY <1>1, <2>1, FS_StrictSubsetOrderingWellFounded, WFMin
<1>3. PICK m \in S : X = NoMore(m)
  OBVIOUS
<1>4. ASSUME NEW n \in S, n < m  PROVE FALSE
  <2>1. m \in Nat /\ n \in Nat /\ n < m
    BY <1>4
  <2>2. NoMore(n) \subseteq NoMore(m)
    <3> SUFFICES ASSUME NEW k \in S, k <= n  PROVE k <= m
      OBVIOUS
    <3> QED  BY <2>1
  <2>3. m \in NoMore(m) /\ m \notin NoMore(n)
    BY <2>1
  <2>4. NoMore(n) \in T /\ NoMore(n) \in SUBSET S /\ NoMore(m) \in SUBSET S /\ NoMore(n) # NoMore(m)
    BY <2>3
  <2>5. <<NoMore(n), NoMore(m)>> \in StrictSubsetOrdering(S)
    <3> HIDE DEF NoMore
    <3> QED  BY <2>2, <2>4 DEF StrictSubsetOrdering
  <2> HIDE DEF NoMore, T
  <2> QED  BY <1>2, <1>3, <2>4, <2>5
<1> QED  BY <1>4

LEMMA Induction ==
    ASSUME NEW n \in Nat, NEW G, 0 \in G, \A m \in 0..(n - 1) : m \in G => m + 1 \in G
    PROVE  0..n \subseteq G
<1> SUFFICES ASSUME (0..n) \ G # {}  PROVE FALSE
  OBVIOUS
<1> DEFINE S == (0..n) \ G
<1>1. IsFiniteSet(S) /\ S \in SUBSET Nat
  <2>1. IsFiniteSet(0..n)
    BY FS_Interval
  <2>2. S \subseteq 0..n /\ S \in SUBSET Nat
    OBVIOUS
  <2> HIDE DEF S
  <2> QED  BY <2>1, <2>2, FS_Subset
<1>2. PICK m \in S : \A k \in S : m <= k
  BY <1>1, LeastOfFinite
<1>3. m # 0 /\ m - 1 \in 0..(n - 1) /\ m - 1 \notin S
  BY <1>2
<1> QED  BY <1>2, <1>3

(* A function that is given by its first value and a step exists.          *)
IsStep(step, n, V) == step \in [1..n -> [V -> V]]
Computes(f, n, V, base, step) ==
    f \in [0..n -> V] /\ f[0] = base /\ \A k \in 1..n : f[k] = step[k][f[k - 1]]

LEMMA Recursion ==
    ASSUME NEW n \in Nat, NEW V, NEW base \in V, NEW step, IsStep(step, n, V)
    PROVE  \E f : Computes(f, n, V, base, step)
<1>0. step \in [1..n -> [V -> V]]
  BY DEF IsStep
<1> DEFINE Solves(m, f) == f[0] = base /\ \A k \in 1..m : f[k] = step[k][f[k - 1]]
           G == {m \in 0..n : \E f \in [0..m -> V] : Solves(m, f)}
<1>1. 0 \in G
  <2>1. [k \in 0..0 |-> base] \in [0..0 -> V] /\ Solves(0, [k \in 0..0 |-> base])
    OBVIOUS
  <2> HIDE DEF Solves
  <2>2. \E f \in [0..0 -> V] : Solves(0, f)
    BY <2>1
  <2> QED  BY <2>2
<1>2. ASSUME NEW m \in 0..(n - 1), m \in G  PROVE m + 1 \in G
  <2>1. PICK f \in [0..m -> V] : Solves(m, f)
    BY <1>2
  <2> DEFINE g == [k \in 0..(m + 1) |-> IF k = m + 1 THEN step[m + 1][f[m]] ELSE f[k]]
  <2>2. f[m] \in V /\ step[m + 1][f[m]] \in V
    <3>1. f[m] \in V /\ m + 1 \in 1..n
      OBVIOUS
    <3> QED  BY <3>1, <1>0
  <2>3. g \in [0..(m + 1) -> V]
    BY <2>2
  <2>4. \A k \in 0..m : g[k] = f[k]
    OBVIOUS
  <2>5. ASSUME NEW k \in 1..(m + 1)  PROVE g[k] = step[k][g[k - 1]]
    <3>1. CASE k = m + 1
      <4>1. k - 1 = m /\ g[k - 1] = f[m] /\ g[k] = step[m + 1][f[m]]
        BY <3>1
      <4> QED  BY <3>1, <4>1
    <3>2. CASE k # m + 1
      <4>1. k \in 1..m /\ k - 1 \in 0..m /\ k \in 0..m
        BY <3>2
      <4> QED  BY <4>1, <2>1, <2>4
    <3> QED  BY <3>1, <3>2
  <2>6. g[0] = base
    BY <2>1, <2>4
  <2>7. Solves(m + 1, g)
    BY <2>5, <2>6
  <2>8. m + 1 \in 0..n
    OBVIOUS
  <2> HIDE DEF Solves, g
  <2> QED  BY <2>3, <2>7, <2>8
<1>3. n \in G
  <2> HIDE DEF G
  <2> QED  BY <1>1, <1>2, Induction, n \in 0..n
<1> QED  BY <1>3 DEF Computes

IsFilter(f, s, K) ==
    f = [k \in 0..Len(s) |-> IF k = 0 THEN <<>>
                             ELSE IF s[k] \in K THEN Append(f[k - 1], s[k]) ELSE f[k - 1]]

LEMMA FilterExists ==
    ASSUME NEW S, NEW s \in Seq(S), NEW K
    PROVE  \E f : IsFilter(f, s, K)
<1> DEFINE step == [k \in 1..Len(s) |-> [t \in Seq(S) |-> IF s[k] \in K THEN Append(t, s[k]) ELSE t]]
<1>1. step \in [1..Len(s) -> [Seq(S) -> Seq(S)]]
  <2> SUFFICES ASSUME NEW k \in 1..Len(s), NEW t \in Seq(S)
               PROVE (IF s[k] \in K THEN Append(t, s[k]) ELSE t) \in Seq(S)
    OBVIOUS
  <2> QED  BY ElementOfSeq, AppendProperties
<1>2. <<>> \in Seq(S) /\ Len(s) \in Nat
  BY EmptySeq, LenProperties
<1>3. PICK f \in [0..Len(s) -> Seq(S)] : f[0] = <<>> /\ \A k \in 1..Len(s) : f[k] = step[k][f[k - 1]]
  <2> DEFINE m == Len(s)  V == Seq(S)  base == <<>>
  <2>1. m \in Nat /\ base \in V /\ IsStep(step, m, V)
    BY <1>1, <1>2 DEF IsStep
  <2> HIDE DEF step, m, V, base
  <2>2. \E f : Computes(f, m, V, base, step)
    BY <2>1, Recursion
  <2> QED  BY <2>2 DEF m, V, base, Computes
<1>4. ASSUME NEW k \in 1..Len(s)
      PROVE  f[k] = IF s[k] \in K THEN Append(f[k - 1], s[k]) ELSE f[k - 1]
  <2>1. f[k - 1] \in Seq(S)
    BY <1>2
  <2> QED  BY <2>1, <1>3
<1>5. IsFilter(f, s, K)
  <2>1. f = [k \in 0..Len(s) |-> f[k]]
    BY <1>3
  <2>2. \A k \in 0..Len(s) : f[k] = IF k = 0 THEN <<>>
                             ELSE IF s[k] \in K THEN Append(f[k - 1], s[k]) ELSE f[k - 1]
    <3> SUFFICES ASSUME NEW k \in 0..Len(s), k # 0
                 PROVE  f[k] = IF s[k] \in K THEN Append(f[k - 1], s[k]) ELSE f[k - 1]
      BY <1>3
    <3> k \in 1..Len(s)
      BY <1>2
    <3> QED  BY <1>4
  <2> HIDE DEF step
  <2> QED  BY <2>1, <2>2 DEF IsFilter
<1> QED  BY <1>5

LEMMA FilterUpTo ==
    ASSUME NEW S, NEW s \in Seq(S), NEW K, NEW f, IsFilter(f, s, K), NEW l \in 0..Len(s)
    PROVE  f[l] \in Seq(S) /\ ToSet(f[l]) = {s[i] : i \in 1..l} \cap K
<1> DEFINE G == {k \in 0..Len(s) : f[k] \in Seq(S) /\ ToSet(f[k]) = {s[i] : i \in 1..k} \cap K}
<1>0. Len(s) \in Nat /\ DOMAIN s = 1..Len(s)
  BY LenProperties
<1>1. 0 \in G
  <2>1. f[0] = <<>>
    BY <1>0 DEF IsFilter
  <2>2. f[0] \in Seq(S) /\ ToSet(f[0]) = {}
    BY <2>1, EmptySeq DEF ToSet
  <2> QED  BY <1>0, <2>2
<1>2. ASSUME NEW k \in 0..(Len(s) - 1), k \in G  PROVE k + 1 \in G
  <2>1. f[k + 1] = IF s[k + 1] \in K THEN Append(f[k], s[k + 1]) ELSE f[k]
    BY <1>0, k + 1 \in 0..Len(s), k + 1 # 0, (k + 1) - 1 = k DEF IsFilter
  <2>2. f[k] \in Seq(S) /\ ToSet(f[k]) = {s[i] : i \in 1..k} \cap K /\ s[k + 1] \in S
    BY <1>2, <1>0, ElementOfSeq, k + 1 \in 1..Len(s)
  <2>3. {s[i] : i \in 1..(k + 1)} = {s[i] : i \in 1..k} \cup {s[k + 1]}
    <3>1. 1..(k + 1) = (1..k) \cup {k + 1}
      BY <1>0
    <3> QED  BY <3>1
  <2>4. CASE s[k + 1] \in K
    <3>1. ToSet(Append(f[k], s[k + 1])) = ToSet(f[k]) \cup {s[k + 1]}
      <4> DEFINE t == f[k]  e == s[k + 1]
      <4>1. /\ Append(t, e) \in Seq(S) /\ Len(Append(t, e)) = Len(t) + 1 /\ Len(t) \in Nat
            /\ \A i \in 1..Len(t) : Append(t, e)[i] = t[i]
            /\ Append(t, e)[Len(t) + 1] = e
        BY <2>2, AppendProperties, LenProperties
      <4>2. DOMAIN t = 1..Len(t) /\ DOMAIN Append(t, e) = 1..(Len(t) + 1)
        BY <2>2, <4>1, LenProperties
      <4>3. 1..(Len(t) + 1) = (1..Len(t)) \cup {Len(t) + 1}
        BY <4>1
      <4> HIDE DEF t, e
      <4>4. ToSet(Append(t, e)) = ToSet(t) \cup {e}
        BY <4>1, <4>2, <4>3 DEF ToSet
      <4> QED  BY <4>4 DEF t, e
    <3>2. f[k + 1] \in Seq(S)
      BY <2>1, <2>2, <2>4, AppendProperties
    <3>3. ToSet(f[k + 1]) = {s[i] : i \in 1..(k + 1)} \cap K
      BY <2>1, <2>2, <2>3, <2>4, <3>1
    <3> QED  BY <1>0, <3>2, <3>3
  <2>5. CASE s[k + 1] \notin K
    <3>1. ToSet(f[k + 1]) = {s[i] : i \in 1..(k + 1)} \cap K
      BY <2>1, <2>2, <2>3, <2>5
    <3> QED  BY <1>0, <2>1, <2>2, <2>5, <3>1
  <2> QED  BY <2>4, <2>5
<1>3. 0..Len(s) \subseteq G
  <2> HIDE DEF G
  <2> QED  BY <1>0, <1>1, <1>2, Induction
<1> QED  BY <1>3

LEMMA FilterGives ==
    ASSUME NEW S, NEW s \in Seq(S), NEW K, NEW f, IsFilter(f, s, K)
    PROVE  /\ f[Len(s)] \in Seq(S)
           /\ ToSet(f[Len(s)]) = ToSet(s) \cap K
<1> DEFINE m == Len(s)
<1>1. m \in 0..Len(s) /\ DOMAIN s = 1..m
  BY LenProperties
<1>2. ToSet(s) = {s[i] : i \in 1..m}
  BY <1>1 DEF ToSet
<1> HIDE DEF m
<1>3. f[m] \in Seq(S)
  BY <1>1, FilterUpTo
<1>4. ToSet(f[m]) = {s[i] : i \in 1..m} \cap K
  BY <1>1, FilterUpTo
<1> QED  BY <1>2, <1>3, <1>4 DEF m

LEMMA FilterStep ==
    ASSUME NEW S, NEW s \in Seq(S), NEW K, NEW f, IsFilter(f, s, K)
    PROVE  /\ Len(s) \in Nat /\ DOMAIN s = 1..Len(s) /\ f[0] = <<>>
           /\ \A k \in 0..(Len(s) - 1) :
                 /\ k + 1 \in 1..Len(s) /\ k \in 0..Len(s)
                 /\ s[k + 1] \in S /\ f[k] \in Seq(S)
                 /\ s[k + 1] \in K => f[k + 1] = Append(f[k], s[k + 1])
                 /\ s[k + 1] \notin K => f[k + 1] = f[k]
<1>0. Len(s) \in Nat /\ DOMAIN s = 1..Len(s)
  BY LenProperties
<1>1. f[0] = <<>>
  BY <1>0 DEF IsFilter
<1>2. ASSUME NEW k \in 0..(Len(s) - 1)
      PROVE  /\ k + 1 \in 1..Len(s) /\ k \in 0..Len(s)
             /\ s[k + 1] \in S /\ f[k] \in Seq(S)
             /\ s[k + 1] \in K => f[k + 1] = Append(f[k], s[k + 1])
             /\ s[k + 1] \notin K => f[k + 1] = f[k]
  <2>1. k + 1 \in 1..Len(s) /\ k \in 0..Len(s) /\ k + 1 \in 0..Len(s) /\ k + 1 # 0 /\ (k + 1) - 1 = k
    BY <1>0
  <2>2. f[k + 1] = IF s[k + 1] \in K THEN Append(f[k], s[k + 1]) ELSE f[k]
    BY <2>1 DEF IsFilter
  <2>3. s[k + 1] \in S /\ f[k] \in Seq(S)
    BY <2>1, ElementOfSeq, FilterUpTo
  <2> QED  BY <2>1, <2>2, <2>3
<1> QED  BY <1>0, <1>1, <1>2

LEMMA FilterShorter ==
    ASSUME NEW S, NEW s \in Seq(S), NEW K, NEW f, IsFilter(f, s, K)
    PROVE  Len(f[Len(s)]) <= Len(s)
<1> DEFINE G == {k \in 0..Len(s) : Len(f[k]) <= k}
<1>1. Len(s) \in Nat /\ f[0] = <<>>
  BY FilterStep
<1>2. 0 \in G
  BY <1>1, EmptySeq
<1>3. ASSUME NEW k \in 0..(Len(s) - 1), k \in G  PROVE k + 1 \in G
  <2>1. /\ k + 1 \in 1..Len(s) /\ s[k + 1] \in S /\ f[k] \in Seq(S)
        /\ f[k + 1] = Append(f[k], s[k + 1]) \/ f[k + 1] = f[k]
    BY FilterStep
  <2>2. Len(f[k]) \in Nat /\ Len(Append(f[k], s[k + 1])) = Len(f[k]) + 1
    BY <2>1, AppendProperties, LenProperties
  <2> QED  BY <1>1, <1>3, <2>1, <2>2
<1> HIDE DEF G
<1>4. 0..Len(s) \subseteq G
  BY <1>1, <1>2, <1>3, Induction
<1> QED  BY <1>1, <1>4 DEF G

(* The first that passes comes first.                                      *)
LEMMA FilterFirst ==
    ASSUME NEW S, NEW s \in Seq(S), NEW K, NEW f, IsFilter(f, s, K),
           NEW i \in 1..Len(s), s[i] \in K, \A j \in 1..(i - 1) : s[j] \notin K
    PROVE  f[Len(s)][1] = s[i]
<1> DEFINE G == {k \in 0..Len(s) : /\ k < i => f[k] = <<>>
                                   /\ k >= i => Len(f[k]) >= 1 /\ f[k][1] = s[i]}
<1>1. Len(s) \in Nat /\ f[0] = <<>>
  BY FilterStep
<1>2. 0 \in G
  BY <1>1
<1>3. ASSUME NEW k \in 0..(Len(s) - 1), k \in G  PROVE k + 1 \in G
  <2>1. /\ k + 1 \in 1..Len(s) /\ s[k + 1] \in S /\ f[k] \in Seq(S)
        /\ s[k + 1] \in K => f[k + 1] = Append(f[k], s[k + 1])
        /\ s[k + 1] \notin K => f[k + 1] = f[k]
    BY FilterStep
  <2>2. Len(f[k]) \in Nat /\ Len(Append(f[k], s[k + 1])) = Len(f[k]) + 1
        /\ (\A j \in 1..Len(f[k]) : Append(f[k], s[k + 1])[j] = f[k][j])
        /\ Append(f[k], s[k + 1])[Len(f[k]) + 1] = s[k + 1]
    BY <2>1, AppendProperties, LenProperties
  <2>3. CASE k + 1 < i
    <3>1. s[k + 1] \notin K /\ k < i
      BY <1>1, <2>1, <2>3
    <3> QED  BY <1>1, <1>3, <2>1, <2>3, <3>1
  <2>4. CASE k + 1 = i
    <3>1. f[k] = <<>> /\ Len(f[k]) = 0
      BY <1>1, <1>3, <2>4, EmptySeq
    <3>2. f[k + 1] = Append(f[k], s[k + 1])
      BY <2>1, <2>4
    <3> QED  BY <1>1, <2>1, <2>2, <2>4, <3>1, <3>2
  <2>5. CASE k + 1 > i
    <3>1. Len(f[k]) >= 1 /\ f[k][1] = s[i]
      BY <1>1, <1>3, <2>5
    <3>2. Len(f[k + 1]) >= 1 /\ f[k + 1][1] = s[i]
      <4>1. CASE s[k + 1] \in K
        <5>1. Append(f[k], s[k + 1])[1] = f[k][1]
          BY <2>2, <3>1
        <5> QED  BY <2>1, <2>2, <3>1, <4>1, <5>1
      <4>2. CASE s[k + 1] \notin K
        BY <2>1, <3>1, <4>2
      <4> QED  BY <4>1, <4>2
    <3> QED  BY <1>1, <2>1, <2>5, <3>2
  <2> QED  BY <1>1, <2>1, <2>3, <2>4, <2>5
<1> HIDE DEF G
<1>4. 0..Len(s) \subseteq G
  BY <1>1, <1>2, <1>3, Induction
<1> QED  BY <1>1, <1>4 DEF G

(* Of what is told apart no copy is made.                                  *)
LEMMA FilterDistinct ==
    ASSUME NEW S, NEW s \in Seq(S), NEW K, NEW f, IsFilter(f, s, K),
           \A i, j \in 1..Len(s) : s[i] \in K /\ s[i] = s[j] => i = j
    PROVE  \A i, j \in 1..Len(f[Len(s)]) : f[Len(s)][i] = f[Len(s)][j] => i = j
<1> DEFINE Distinct(t) == \A i, j \in 1..Len(t) : t[i] = t[j] => i = j
           G == {k \in 0..Len(s) : Distinct(f[k])}
<1>1. Len(s) \in Nat /\ f[0] = <<>> /\ DOMAIN s = 1..Len(s)
  BY FilterStep
<1>2. 0 \in G
  BY <1>1, EmptySeq
<1>3. ASSUME NEW k \in 0..(Len(s) - 1), k \in G  PROVE k + 1 \in G
  <2>1. /\ k + 1 \in 1..Len(s) /\ k \in 0..Len(s) /\ s[k + 1] \in S /\ f[k] \in Seq(S)
        /\ s[k + 1] \in K => f[k + 1] = Append(f[k], s[k + 1])
        /\ s[k + 1] \notin K => f[k + 1] = f[k]
    BY FilterStep
  <2> DEFINE t == f[k]  e == s[k + 1]  u == Append(t, e)
  <2>2. Len(t) \in Nat /\ Len(u) = Len(t) + 1 /\ DOMAIN t = 1..Len(t)
        /\ (\A j \in 1..Len(t) : u[j] = t[j]) /\ u[Len(t) + 1] = e
    BY <2>1, AppendProperties, LenProperties
  <2>3. CASE e \in K
    <3>1. e \notin ToSet(t)
      <4>1. ToSet(t) = {s[i] : i \in 1..k} \cap K
        BY <2>1, FilterUpTo
      <4>2. \A i \in 1..k : s[i] # e
        BY <1>1, <2>1, <2>3
      <4> QED  BY <4>1, <4>2
    <3>2. \A j \in 1..Len(t) : t[j] # e
      BY <3>1, <2>2 DEF ToSet
    <3>3. Distinct(t)
      BY <1>3
    <3>4. 1..Len(u) = (1..Len(t)) \cup {Len(t) + 1}
      BY <2>2
    <3> HIDE DEF t, e, u
    <3>5. Distinct(u)
      BY <2>2, <3>2, <3>3, <3>4
    <3> HIDE DEF Distinct
    <3>6. f[k + 1] = u
      BY <2>1, <2>3 DEF t, e, u
    <3>7. k + 1 \in 0..Len(s)
      BY <1>1, <2>1
    <3> QED  BY <3>5, <3>6, <3>7
  <2>4. CASE e \notin K
    <3> HIDE DEF Distinct
    <3> QED  BY <1>1, <1>3, <2>1, <2>4
  <2> QED  BY <2>3, <2>4
<1> HIDE DEF G
<1>4. 0..Len(s) \subseteq G
  BY <1>1, <1>2, <1>3, Induction
<1> QED  BY <1>1, <1>4 DEF G

-----------------------------------------------------------------------------
(* Sums over finite sets, as the size of a set of pairs.                   *)

(* The sum of f over S, counted: f[x] pieces for each x of S.              *)
Pieces(S, f) == {x \in S \X Nat : x[2] \in 1..f[x[1]]}
Counted(S, f) == Cardinality(Pieces(S, f))
Numbers(S, f) == IsFiniteSet(S) /\ \A x \in S : f[x] \in Nat

LEMMA OnePiece ==
    ASSUME NEW x, NEW n \in Nat
    PROVE  IsFiniteSet({x} \X (1..n)) /\ Cardinality({x} \X (1..n)) = n
<1>1. IsFiniteSet({x}) /\ Cardinality({x}) = 1
  BY FS_Singleton
<1>2. IsFiniteSet(1..n) /\ Cardinality(1..n) = n
  BY FS_Interval
<1> DEFINE k == 1..n
<1> HIDE DEF k
<1>3. IsFiniteSet({x} \X k) /\ Cardinality({x} \X k) = Cardinality({x}) * Cardinality(k)
  BY <1>1, <1>2, FS_Product DEF k
<1> QED  BY <1>1, <1>2, <1>3 DEF k

LEMMA PiecesSplit ==
    ASSUME NEW S, NEW f, \A y \in S : f[y] \in Nat, NEW x \in S
    PROVE  /\ Pieces(S, f) = Pieces(S \ {x}, f) \cup ({x} \X (1..f[x]))
           /\ Pieces(S \ {x}, f) \cap ({x} \X (1..f[x])) = {}
<1>1. Pieces(S, f) \subseteq Pieces(S \ {x}, f) \cup ({x} \X (1..f[x]))
  BY DEF Pieces
<1>2. Pieces(S \ {x}, f) \subseteq Pieces(S, f)
  BY DEF Pieces
<1>3. {x} \X (1..f[x]) \subseteq Pieces(S, f)
  BY DEF Pieces
<1>4. Pieces(S \ {x}, f) \cap ({x} \X (1..f[x])) = {}
  BY DEF Pieces
<1> QED  BY <1>1, <1>2, <1>3, <1>4

LEMMA PiecesFinite ==
    ASSUME NEW S, NEW f, Numbers(S, f)
    PROVE  IsFiniteSet(Pieces(S, f))
<1> DEFINE Bad == {s \in SUBSET S : ~IsFiniteSet(Pieces(s, f))}
<1> SUFFICES ASSUME Bad # {}  PROVE FALSE
  OBVIOUS
<1>1. IsFiniteSet(S) /\ \A x \in S : f[x] \in Nat
  BY DEF Numbers
<1>2. Bad \subseteq FiniteSubsetsOf(S)
  BY <1>1, FS_Subset DEF FiniteSubsetsOf
<1>3. PICK m \in Bad : \A s \in Bad : ~(<<s, m>> \in StrictSubsetOrdering(S))
  <2> HIDE DEF Bad
  <2> QED  BY <1>2, FS_StrictSubsetOrderingWellFounded, WFMin
<1>4. m \in SUBSET S /\ ~IsFiniteSet(Pieces(m, f))
  OBVIOUS
<1>5. PICK x : x \in m
  <2>1. Pieces({}, f) = {}
    BY DEF Pieces
  <2>2. IsFiniteSet(Pieces({}, f))
    BY <2>1, FS_EmptySet
  <2> QED  BY <1>4, <2>2
<1>6. m \ {x} \notin Bad
  <2>1. <<m \ {x}, m>> \in StrictSubsetOrdering(S)
    BY <1>4, <1>5 DEF StrictSubsetOrdering
  <2> HIDE DEF Bad
  <2> QED  BY <1>3, <2>1
<1>7. IsFiniteSet(Pieces(m \ {x}, f))
  BY <1>4, <1>6
<1>8. IsFiniteSet({x} \X (1..f[x]))
  BY <1>1, <1>4, <1>5, OnePiece
<1>9. Pieces(m, f) = Pieces(m \ {x}, f) \cup ({x} \X (1..f[x]))
  BY <1>1, <1>4, <1>5, PiecesSplit
<1>10. IsFiniteSet(Pieces(m \ {x}, f) \cup ({x} \X (1..f[x])))
  BY <1>7, <1>8, FS_Union
<1> QED  BY <1>4, <1>9, <1>10

LEMMA CountedIs ==
    ASSUME NEW S, NEW f, Numbers(S, f)
    PROVE  /\ Counted(S, f) \in Nat /\ Counted({}, f) = 0
           /\ \A x \in S : Counted(S, f) = f[x] + Counted(S \ {x}, f)
<1>1. IsFiniteSet(S) /\ \A x \in S : f[x] \in Nat
  BY DEF Numbers
<1>2. Counted(S, f) \in Nat
  BY PiecesFinite, FS_CardinalityType DEF Counted
<1>3. Counted({}, f) = 0
  <2>1. Pieces({}, f) = {}
    BY DEF Pieces
  <2> QED  BY <2>1, FS_EmptySet DEF Counted
<1>4. ASSUME NEW x \in S  PROVE Counted(S, f) = f[x] + Counted(S \ {x}, f)
  <2> DEFINE A == Pieces(S \ {x}, f)
             B == {x} \X (1..f[x])
  <2>1. IsFiniteSet(A)
    <3>1. Numbers(S \ {x}, f)
      BY <1>1, FS_RemoveElement DEF Numbers
    <3> QED  BY <3>1, PiecesFinite
  <2>2. IsFiniteSet(B) /\ Cardinality(B) = f[x]
    BY <1>1, OnePiece
  <2>3. Pieces(S, f) = A \cup B /\ A \cap B = {}
    BY <1>1, PiecesSplit
  <2>4. f[x] \in Nat
    BY <1>1
  <2> HIDE DEF A, B
  <2>5. Cardinality(A \cup B) = Cardinality(A) + Cardinality(B) - Cardinality(A \cap B)
    BY <2>1, <2>2, FS_Union
  <2>6. Cardinality(A \cap B) = 0 /\ Cardinality(A) \in Nat
    BY <2>1, <2>3, FS_EmptySet, FS_CardinalityType
  <2>7. Cardinality(A \cup B) = f[x] + Cardinality(A)
    BY <2>2, <2>4, <2>5, <2>6
  <2> QED  BY <2>3, <2>7 DEF Counted, A
<1> QED  BY <1>2, <1>3, <1>4

IsSum(g, S, f) ==
    g = [s \in SUBSET S |-> IF s = {} THEN 0 ELSE LET x == CHOOSE y \in s : TRUE IN f[x] + g[s \ {x}]]

LEMMA SumExists ==
    ASSUME NEW S, NEW f, Numbers(S, f)
    PROVE  \E g : IsSum(g, S, f)
<1> DEFINE g == [s \in SUBSET S |-> Counted(s, f)]
<1>1. ASSUME NEW s \in SUBSET S
      PROVE  g[s] = IF s = {} THEN 0 ELSE LET x == CHOOSE y \in s : TRUE IN f[x] + g[s \ {x}]
  <2>1. Numbers(s, f)
    BY FS_Subset DEF Numbers
  <2>2. CASE s = {}
    BY <2>1, <2>2, CountedIs
  <2>3. CASE s # {}
    <3> DEFINE x == CHOOSE y \in s : TRUE
    <3>1. x \in s
      BY <2>3
    <3> HIDE DEF x
    <3>2. Counted(s, f) = f[x] + Counted(s \ {x}, f)
      BY <2>1, <3>1, CountedIs
    <3>3. g[s] = f[x] + g[s \ {x}]
      BY <3>1, <3>2
    <3> QED  BY <2>3, <3>3 DEF x
  <2> QED  BY <2>2, <2>3
<1>2. g = [s \in SUBSET S |-> g[s]]
  OBVIOUS
<1> HIDE DEF g
<1>3. IsSum(g, S, f)
  BY <1>1, <1>2 DEF IsSum
<1> QED  BY <1>3

LEMMA SumIs ==
    ASSUME NEW S, NEW f, Numbers(S, f), NEW g, IsSum(g, S, f)
    PROVE  g[S] = Counted(S, f)
<1> DEFINE Bad == {s \in SUBSET S : g[s] # Counted(s, f)}
<1> SUFFICES ASSUME Bad # {}  PROVE FALSE
  OBVIOUS
<1>1. IsFiniteSet(S) /\ \A x \in S : f[x] \in Nat
  BY DEF Numbers
<1>2. Bad \subseteq FiniteSubsetsOf(S)
  BY <1>1, FS_Subset DEF FiniteSubsetsOf
<1>3. PICK m \in Bad : \A s \in Bad : ~(<<s, m>> \in StrictSubsetOrdering(S))
  <2> HIDE DEF Bad
  <2> QED  BY <1>2, FS_StrictSubsetOrderingWellFounded, WFMin
<1>4. m \in SUBSET S /\ g[m] # Counted(m, f)
  OBVIOUS
<1>5. Numbers(m, f)
  BY <1>1, <1>4, FS_Subset DEF Numbers
<1>6. g[m] = IF m = {} THEN 0 ELSE LET x == CHOOSE y \in m : TRUE IN f[x] + g[m \ {x}]
  BY <1>4 DEF IsSum
<1>7. m # {}
  BY <1>4, <1>5, <1>6, CountedIs
<1> DEFINE x == CHOOSE y \in m : TRUE
<1>8. x \in m
  BY <1>7
<1>9. g[m] = f[x] + g[m \ {x}]
  BY <1>6, <1>7
<1> HIDE DEF x
<1>10. m \ {x} \notin Bad
  <2>1. <<m \ {x}, m>> \in StrictSubsetOrdering(S)
    BY <1>4, <1>8 DEF StrictSubsetOrdering
  <2> HIDE DEF Bad
  <2> QED  BY <1>3, <2>1
<1>11. g[m \ {x}] = Counted(m \ {x}, f)
  BY <1>4, <1>10
<1>12. Counted(m, f) = f[x] + Counted(m \ {x}, f)
  BY <1>5, <1>8, CountedIs
<1> QED  BY <1>4, <1>9, <1>11, <1>12

LEMMA SumOnSet ==
    ASSUME NEW f, NEW S, Numbers(S, f)
    PROVE  SumFunctionOnSet(f, S) = Counted(S, f)
<1>1. SumFunctionOnSet(f, S) = (CHOOSE g : IsSum(g, S, f))[S]
  BY DEF SumFunctionOnSet, FoldFunctionOnSet, MapThenFoldSet, IsSum
<1>2. IsSum(CHOOSE g : IsSum(g, S, f), S, f)
  <2>1. \E g : IsSum(g, S, f)
    BY SumExists
  <2> QED  BY <2>1
<1> QED  BY <1>1, <1>2, SumIs

SamplesSum(g, rows) ==
    g = [s \in SUBSET DOMAIN rows |->
            IF s = {} THEN 0 ELSE LET x == CHOOSE y \in s : TRUE IN (rows[x].count + rows[x].timeouts + rows[x].errors) + g[s \ {x}]]

LEMMA SamplesOfRows ==
    ASSUME NEW rows, NEW f, f = [k \in DOMAIN rows |-> (rows[k].count + rows[k].timeouts + rows[k].errors)], Numbers(DOMAIN rows, f)
    PROVE  RowsSum(rows, LAMBDA h : h.count + h.timeouts + h.errors) = Counted(DOMAIN rows, f)
<1>1. RowsSum(rows, LAMBDA h : h.count + h.timeouts + h.errors) = (CHOOSE g : SamplesSum(g, rows))[DOMAIN rows]
  BY DEF RowsSum, MapThenSumSet, MapThenFoldSet, SamplesSum
<1>2. ASSUME NEW s \in SUBSET DOMAIN rows, s # {}
      PROVE  LET x == CHOOSE y \in s : TRUE IN f[x] = (rows[x].count + rows[x].timeouts + rows[x].errors)
  <2> DEFINE x == CHOOSE y \in s : TRUE
  <2>1. x \in DOMAIN rows
    BY <1>2
  <2> HIDE DEF x
  <2>2. f[x] = (rows[x].count + rows[x].timeouts + rows[x].errors)
    BY <2>1
  <2> QED  BY <2>2 DEF x
<1>3. \A g : IsSum(g, DOMAIN rows, f) <=> SamplesSum(g, rows)
  BY <1>2 DEF IsSum, SamplesSum
<1>4. SamplesSum(CHOOSE g : SamplesSum(g, rows), rows)
  <2>1. \E g : SamplesSum(g, rows)
    BY <1>3, SumExists
  <2> QED  BY <2>1
<1>5. IsSum(CHOOSE g : SamplesSum(g, rows), DOMAIN rows, f)
  BY <1>3, <1>4
<1> QED  BY <1>1, <1>5, SumIs

TimeoutsSum(g, rows) ==
    g = [s \in SUBSET DOMAIN rows |->
            IF s = {} THEN 0 ELSE LET x == CHOOSE y \in s : TRUE IN rows[x].timeouts + g[s \ {x}]]

LEMMA TimeoutsOfRows ==
    ASSUME NEW rows, NEW f, f = [k \in DOMAIN rows |-> rows[k].timeouts], Numbers(DOMAIN rows, f)
    PROVE  RowsSum(rows, LAMBDA h : h.timeouts) = Counted(DOMAIN rows, f)
<1>1. RowsSum(rows, LAMBDA h : h.timeouts) = (CHOOSE g : TimeoutsSum(g, rows))[DOMAIN rows]
  BY DEF RowsSum, MapThenSumSet, MapThenFoldSet, TimeoutsSum
<1>2. ASSUME NEW s \in SUBSET DOMAIN rows, s # {}
      PROVE  LET x == CHOOSE y \in s : TRUE IN f[x] = rows[x].timeouts
  <2> DEFINE x == CHOOSE y \in s : TRUE
  <2>1. x \in DOMAIN rows
    BY <1>2
  <2> HIDE DEF x
  <2>2. f[x] = rows[x].timeouts
    BY <2>1
  <2> QED  BY <2>2 DEF x
<1>3. \A g : IsSum(g, DOMAIN rows, f) <=> TimeoutsSum(g, rows)
  BY <1>2 DEF IsSum, TimeoutsSum
<1>4. TimeoutsSum(CHOOSE g : TimeoutsSum(g, rows), rows)
  <2>1. \E g : TimeoutsSum(g, rows)
    BY <1>3, SumExists
  <2> QED  BY <2>1
<1>5. IsSum(CHOOSE g : TimeoutsSum(g, rows), DOMAIN rows, f)
  BY <1>3, <1>4
<1> QED  BY <1>1, <1>5, SumIs

ErrorsSum(g, rows) ==
    g = [s \in SUBSET DOMAIN rows |->
            IF s = {} THEN 0 ELSE LET x == CHOOSE y \in s : TRUE IN rows[x].errors + g[s \ {x}]]

LEMMA ErrorsOfRows ==
    ASSUME NEW rows, NEW f, f = [k \in DOMAIN rows |-> rows[k].errors], Numbers(DOMAIN rows, f)
    PROVE  RowsSum(rows, LAMBDA h : h.errors) = Counted(DOMAIN rows, f)
<1>1. RowsSum(rows, LAMBDA h : h.errors) = (CHOOSE g : ErrorsSum(g, rows))[DOMAIN rows]
  BY DEF RowsSum, MapThenSumSet, MapThenFoldSet, ErrorsSum
<1>2. ASSUME NEW s \in SUBSET DOMAIN rows, s # {}
      PROVE  LET x == CHOOSE y \in s : TRUE IN f[x] = rows[x].errors
  <2> DEFINE x == CHOOSE y \in s : TRUE
  <2>1. x \in DOMAIN rows
    BY <1>2
  <2> HIDE DEF x
  <2>2. f[x] = rows[x].errors
    BY <2>1
  <2> QED  BY <2>2 DEF x
<1>3. \A g : IsSum(g, DOMAIN rows, f) <=> ErrorsSum(g, rows)
  BY <1>2 DEF IsSum, ErrorsSum
<1>4. ErrorsSum(CHOOSE g : ErrorsSum(g, rows), rows)
  <2>1. \E g : ErrorsSum(g, rows)
    BY <1>3, SumExists
  <2> QED  BY <2>1
<1>5. IsSum(CHOOSE g : ErrorsSum(g, rows), DOMAIN rows, f)
  BY <1>3, <1>4
<1> QED  BY <1>1, <1>5, SumIs

-----------------------------------------------------------------------------
(* The histograms and the table of them add up.                            *)

HistogramOK(h) ==
    /\ h = [count |-> h.count, sum |-> h.sum, min |-> h.min, max |-> h.max, p50 |-> h.p50, p95 |-> h.p95,
            p99 |-> h.p99, timeouts |-> h.timeouts, errors |-> h.errors, buckets |-> h.buckets]
    /\ {h.count, h.timeouts, h.errors, h.p50, h.p95, h.p99} \subseteq Nat
    /\ h.buckets = <<>> \/ h.buckets \in [1..(Len(Bounds) + 1) -> Nat]
    /\ h.count = Total(h.buckets) /\ h.p50 <= h.p95 /\ h.p95 <= h.p99
RowsOK(rows) ==
    /\ rows = [k \in DOMAIN rows |-> rows[k]] /\ IsFiniteSet(DOMAIN rows)
    /\ \A k \in DOMAIN rows : HistogramOK(rows[k])
MetricsOK(m) ==
    /\ m = [calls |-> m.calls, timeouts |-> m.timeouts, errors |-> m.errors, fallbacks |-> m.fallbacks,
            kinds |-> m.kinds, models |-> m.models]
    /\ {m.calls, m.timeouts, m.errors} \subseteq Nat
    /\ RowsOK(m.kinds) /\ RowsOK(m.models)
    /\ AddsUp(m)

LEMMA ChangedAt ==
    ASSUME NEW S, NEW f, NEW g, NEW a \in S, Numbers(S, f), Numbers(S, g), \A x \in S \ {a} : g[x] = f[x]
    PROVE  Counted(S, g) = Counted(S, f) - f[a] + g[a]
<1>1. Pieces(S \ {a}, f) = Pieces(S \ {a}, g)
  BY DEF Pieces
<1>2. Counted(S \ {a}, f) = Counted(S \ {a}, g)
  BY <1>1 DEF Counted
<1>3. Counted(S, f) = f[a] + Counted(S \ {a}, f) /\ Counted(S, g) = g[a] + Counted(S \ {a}, g)
  BY CountedIs
<1>4. Numbers(S \ {a}, f)
  BY FS_RemoveElement DEF Numbers
<1>5. Counted(S \ {a}, f) \in Nat /\ f[a] \in Nat /\ g[a] \in Nat
  BY <1>4, CountedIs DEF Numbers
<1> QED  BY <1>2, <1>3, <1>5

LEMMA SameCount ==
    ASSUME NEW S, NEW f, NEW g, \A x \in S : g[x] = f[x]
    PROVE  Counted(S, g) = Counted(S, f)
<1>1. Pieces(S, f) = Pieces(S, g)
  BY DEF Pieces
<1> QED  BY <1>1 DEF Counted

LEMMA NothingCounts ==
    ASSUME NEW S, NEW f, \A x \in S : f[x] = 0
    PROVE  Counted(S, f) = 0
<1>1. Pieces(S, f) = {}
  BY DEF Pieces
<1> QED  BY <1>1, FS_EmptySet DEF Counted

(* A key's count is put in place of the old one, or beside the others.     *)
LEMMA CountedPut ==
    ASSUME NEW D, NEW f, NEW g, NEW key, Numbers(D, f), Numbers(D \cup {key}, g),
           \A x \in D \ {key} : g[x] = f[x], NEW old \in Nat, NEW n \in Nat,
           key \in D => old = f[key], key \notin D => old = 0, g[key] = old + n
    PROVE  Counted(D \cup {key}, g) = Counted(D, f) + n
<1>1. Counted(D, f) \in Nat
  BY CountedIs
<1>2. CASE key \in D
  <2>1. D \cup {key} = D
    BY <1>2
  <2>2. Counted(D, g) = Counted(D, f) - f[key] + g[key]
    BY <1>2, <2>1, ChangedAt
  <2>3. Counted(D \cup {key}, g) = Counted(D, g)
    BY <2>1
  <2>4. f[key] = old /\ g[key] = old + n
    BY <1>2
  <2> QED  BY <1>1, <2>2, <2>3, <2>4
<1>3. CASE key \notin D
  <2>1. (D \cup {key}) \ {key} = D
    BY <1>3
  <2>2. Counted(D \cup {key}, g) = g[key] + Counted((D \cup {key}) \ {key}, g)
    BY CountedIs
  <2>3. Counted(D, g) = Counted(D, f)
    BY <1>3, SameCount
  <2>4. Counted(D \cup {key}, g) = g[key] + Counted(D, f)
    BY <2>1, <2>2, <2>3
  <2> QED  BY <1>1, <1>3, <2>4
<1> QED  BY <1>2, <1>3

LEMMA MinIs ==
    ASSUME NEW n \in Nat, NEW S, S \subseteq 1..n, S # {}
    PROVE  Min(S) \in S /\ \A x \in S : Min(S) <= x
<1>1. IsFiniteSet(S) /\ S \in SUBSET Nat
  <2> DEFINE all == 1..n
  <2>1. IsFiniteSet(all) /\ all \subseteq Nat
    BY FS_Interval
  <2>2. S \in SUBSET all
    OBVIOUS
  <2> HIDE DEF all
  <2> QED  BY <2>1, <2>2, FS_Subset
<1>2. \E m \in S : \A x \in S : m <= x
  BY <1>1, LeastOfFinite
<1> QED  BY <1>2 DEF Min

LEMMA BoundsAre == Len(Bounds) \in Nat /\ DOMAIN Bounds = 1..Len(Bounds) /\ \A i \in 1..Len(Bounds) : Bounds[i] \in Nat
BY MetricsAssumption, LenProperties, ElementOfSeq

LEMMA BucketIndexIs ==
    ASSUME NEW ms
    PROVE  BucketIndex(ms) \in 1..(Len(Bounds) + 1)
<1> DEFINE n == Len(Bounds) + 1
           S == {i \in DOMAIN Bounds : ms <= Bounds[i]} \cup {n}
<1>1. n \in Nat /\ S \subseteq 1..n /\ S # {}
  BY BoundsAre
<1>2. BucketIndex(ms) = Min(S)
  BY DEF BucketIndex
<1> HIDE DEF n, S
<1>3. Min(S) \in 1..n
  BY <1>1, MinIs
<1> QED  BY <1>2, <1>3 DEF n

Buckets(b) == b \in [1..(Len(Bounds) + 1) -> Nat]

LEMMA TotalIs ==
    ASSUME NEW b, Buckets(b)
    PROVE  /\ Numbers(1..(Len(Bounds) + 1), b) /\ Total(b) = Counted(1..(Len(Bounds) + 1), b) /\ Total(b) \in Nat
<1> DEFINE S == 1..(Len(Bounds) + 1)
<1>1. IsFiniteSet(S)
  BY BoundsAre, FS_Interval
<1>2. Numbers(S, b)
  BY <1>1 DEF Numbers, Buckets
<1>3. DOMAIN b = S
  BY DEF Buckets
<1> HIDE DEF S
<1>4. Total(b) = Counted(S, b) /\ Counted(S, b) \in Nat
  BY <1>2, <1>3, SumOnSet, CountedIs DEF Total, SumFunction
<1> QED  BY <1>2, <1>4 DEF S

LEMMA NoBuckets == Total(<<>>) = 0
<1> DEFINE b == <<>>
<1>1. DOMAIN b = {}
  OBVIOUS
<1> HIDE DEF b
<1>2. Numbers({}, b)
  BY FS_EmptySet DEF Numbers
<1>3. Total(b) = Counted({}, b)
  BY <1>1, <1>2, SumOnSet DEF Total, SumFunction
<1> QED  BY <1>2, <1>3, CountedIs DEF b

LEMMA UpToIs ==
    ASSUME NEW b, Buckets(b), NEW i \in 1..(Len(Bounds) + 1)
    PROVE  UpTo(b, i) \in Nat /\ (i = Len(Bounds) + 1 => UpTo(b, i) = Total(b))
<1>1. IsFiniteSet(1..i) /\ 1..i \subseteq 1..(Len(Bounds) + 1)
  BY BoundsAre, FS_Interval
<1>2. Numbers(1..i, b)
  BY <1>1 DEF Numbers, Buckets
<1>3. UpTo(b, i) = Counted(1..i, b) /\ Counted(1..i, b) \in Nat
  BY <1>2, SumOnSet, CountedIs DEF UpTo
<1> QED  BY <1>3, TotalIs

Reached(b, share) == {i \in DOMAIN b : UpTo(b, i) >= share}
Bound(i) == IF i \in DOMAIN Bounds THEN Bounds[i] ELSE Overflow

LEMMA ReachedIs ==
    ASSUME NEW b, Buckets(b), NEW share \in Nat, share <= Total(b)
    PROVE  /\ Reached(b, share) \subseteq 1..(Len(Bounds) + 1) /\ Reached(b, share) # {}
           /\ Min(Reached(b, share)) \in Reached(b, share)
           /\ \A i \in Reached(b, share) : Min(Reached(b, share)) <= i
<1> DEFINE n == Len(Bounds) + 1
           S == Reached(b, share)
<1>1. n \in Nat /\ n \in 1..n /\ DOMAIN b = 1..n
  BY BoundsAre DEF Buckets
<1>2. S \subseteq 1..n
  BY <1>1 DEF Reached
<1>3. n \in S
  <2>1. UpTo(b, n) = Total(b)
    BY <1>1, UpToIs
  <2>2. Total(b) \in Nat
    BY TotalIs
  <2> HIDE DEF n
  <2> QED  BY <1>1, <2>1, <2>2 DEF Reached
<1> HIDE DEF S, n
<1>4. Min(S) \in S /\ \A i \in S : Min(S) <= i
  BY <1>1, <1>2, <1>3, MinIs
<1> QED  BY <1>2, <1>3, <1>4 DEF S, n

LEMMA BoundGrows ==
    ASSUME NEW i \in 1..(Len(Bounds) + 1), NEW j \in 1..(Len(Bounds) + 1), i <= j
    PROVE  Bound(i) \in Nat /\ Bound(j) \in Nat /\ Bound(i) <= Bound(j)
<1>1. Overflow \in Nat /\ \A k, l \in DOMAIN Bounds : k <= l => Bounds[k] <= Bounds[l] /\ Bounds[l] <= Overflow
  BY MetricsAssumption
<1>2. CASE j \in DOMAIN Bounds
  <2>1. i \in DOMAIN Bounds
    BY <1>2, BoundsAre
  <2> QED  BY <1>1, <1>2, <2>1, BoundsAre DEF Bound
<1>3. CASE j \notin DOMAIN Bounds
  BY <1>1, <1>3, BoundsAre DEF Bound
<1> QED  BY <1>2, <1>3

LEMMA ShareGrows ==
    ASSUME NEW b, Buckets(b), NEW c \in Nat, NEW d \in Nat, c <= d, d <= Total(b)
    PROVE  /\ Bound(Min(Reached(b, c))) \in Nat /\ Bound(Min(Reached(b, d))) \in Nat
           /\ Bound(Min(Reached(b, c))) <= Bound(Min(Reached(b, d)))
<1>1. Total(b) \in Nat
  BY TotalIs
<1>2. c <= Total(b)
  BY <1>1
<1>3. Reached(b, d) \subseteq Reached(b, c)
  <2> SUFFICES ASSUME NEW i \in DOMAIN b, UpTo(b, i) >= d  PROVE UpTo(b, i) >= c
    BY DEF Reached
  <2>1. UpTo(b, i) \in Nat
    BY UpToIs DEF Buckets
  <2> QED  BY <2>1
<1>4. Min(Reached(b, c)) <= Min(Reached(b, d))
  BY <1>2, <1>3, ReachedIs
<1>5. Min(Reached(b, c)) \in 1..(Len(Bounds) + 1) /\ Min(Reached(b, d)) \in 1..(Len(Bounds) + 1)
  BY <1>2, ReachedIs
<1> QED  BY <1>4, <1>5, BoundGrows

LEMMA PercentilesGrow ==
    ASSUME NEW b, Buckets(b)
    PROVE  /\ {Percentile(b, 50), Percentile(b, 95), Percentile(b, 99)} \subseteq Nat
           /\ Percentile(b, 50) <= Percentile(b, 95) /\ Percentile(b, 95) <= Percentile(b, 99)
<1> DEFINE t == Total(b)
<1>1. t \in Nat
  BY TotalIs
<1>2. CASE t = 0
  BY <1>2 DEF Percentile
<1>3. CASE t # 0
  <2>1. \A p : Percentile(b, p) = Bound(Min(Reached(b, CeilPercent(t, p))))
    BY <1>3 DEF Percentile, Bound, Reached
  <2> HIDE DEF t
  <2>2. /\ CeilPercent(t, 50) \in Nat /\ CeilPercent(t, 95) \in Nat /\ CeilPercent(t, 99) \in Nat
        /\ CeilPercent(t, 50) <= CeilPercent(t, 95) /\ CeilPercent(t, 95) <= CeilPercent(t, 99)
        /\ CeilPercent(t, 99) <= t /\ CeilPercent(t, 95) <= t
    BY <1>1, <1>3 DEF CeilPercent
  <2>3. /\ Bound(Min(Reached(b, CeilPercent(t, 50)))) \in Nat /\ Bound(Min(Reached(b, CeilPercent(t, 95)))) \in Nat
        /\ Bound(Min(Reached(b, CeilPercent(t, 50)))) <= Bound(Min(Reached(b, CeilPercent(t, 95))))
    BY <2>2, ShareGrows DEF t
  <2>4. /\ Bound(Min(Reached(b, CeilPercent(t, 99)))) \in Nat
        /\ Bound(Min(Reached(b, CeilPercent(t, 95)))) <= Bound(Min(Reached(b, CeilPercent(t, 99))))
    BY <2>2, ShareGrows DEF t
  <2> QED  BY <2>1, <2>3, <2>4
<1> QED  BY <1>2, <1>3

LEMMA EmptyHistogramOK == HistogramOK(EmptyHistogram)
<1> DEFINE b == <<>>
<1>1. Total(b) = 0
  BY NoBuckets
<1> HIDE DEF b
<1>2. EmptyHistogram = [count |-> 0, sum |-> 0, min |-> 0, max |-> 0, p50 |-> 0, p95 |-> 0, p99 |-> 0,
                        timeouts |-> 0, errors |-> 0, buckets |-> b]
  BY DEF EmptyHistogram, b
<1>3. b = <<>>
  BY DEF b
<1> QED  BY <1>1, <1>2, <1>3 DEF HistogramOK

LEMMA EnsuredIs ==
    ASSUME NEW h, HistogramOK(h)
    PROVE  Buckets(EnsureBuckets(h)) /\ Total(EnsureBuckets(h)) = Total(h.buckets)
<1> DEFINE n == Len(Bounds) + 1
           e == EnsureBuckets(h)
           b == h.buckets
<1>1. e = [i \in 1..n |-> IF i \in DOMAIN b THEN b[i] ELSE 0]
  BY DEF EnsureBuckets
<1>2. b = <<>> \/ Buckets(b)
  BY DEF HistogramOK, Buckets
<1> HIDE DEF e, b
<1>3. CASE b = <<>>
  <2>1. DOMAIN b = {} /\ Total(b) = 0
    BY <1>3, NoBuckets
  <2>2. e = [i \in 1..n |-> 0]
    BY <1>1, <2>1
  <2>3. Buckets(e) /\ \A i \in 1..n : e[i] = 0
    BY <2>2 DEF Buckets
  <2>4. Counted(1..n, e) = 0
    BY <2>3, NothingCounts
  <2> QED  BY <2>1, <2>3, <2>4, TotalIs DEF e, b
<1>4. CASE Buckets(b)
  <2>1. b = [i \in 1..n |-> b[i]] /\ DOMAIN b = 1..n
    BY <1>4 DEF Buckets
  <2>2. e = b
    BY <1>1, <2>1
  <2> QED  BY <1>4, <2>2 DEF e, b
<1> QED  BY <1>2, <1>3, <1>4

LEMMA OneMoreOf ==
    ASSUME NEW S, NEW f, NEW g, NEW a \in S, Numbers(S, f), Numbers(S, g), \A x \in S \ {a} : g[x] = f[x],
           g[a] = f[a] + 1
    PROVE  Counted(S, g) = Counted(S, f) + 1
<1>1. Counted(S, g) = Counted(S, f) - f[a] + g[a]
  BY ChangedAt
<1>2. Counted(S, f) \in Nat /\ f[a] \in Nat
  BY CountedIs DEF Numbers
<1> QED  BY <1>1, <1>2

LEMMA OneMore ==
    ASSUME NEW e, Buckets(e), NEW filled, Buckets(filled), NEW i \in 1..(Len(Bounds) + 1), filled[i] = e[i] + 1,
           \A j \in (1..(Len(Bounds) + 1)) \ {i} : filled[j] = e[j]
    PROVE  Total(filled) = Total(e) + 1
<1> DEFINE S == 1..(Len(Bounds) + 1)
<1>1. Numbers(S, e) /\ Total(e) = Counted(S, e)
  BY TotalIs
<1>2. Numbers(S, filled) /\ Total(filled) = Counted(S, filled)
  BY TotalIs
<1>3. Counted(S, filled) = Counted(S, e) + 1
  <2>1. i \in S /\ \A j \in S \ {i} : filled[j] = e[j]
    OBVIOUS
  <2>2. Numbers(S, e) /\ Numbers(S, filled)
    BY <1>1, <1>2
  <2> HIDE DEF S
  <2> QED  BY <2>1, <2>2, OneMoreOf
<1> QED  BY <1>1, <1>2, <1>3

LEMMA FilledIs ==
    ASSUME NEW e, Buckets(e), NEW i \in 1..(Len(Bounds) + 1), NEW filled, filled = [e EXCEPT ![i] = e[i] + 1]
    PROVE  Buckets(filled) /\ Total(filled) = Total(e) + 1
<1>1. DOMAIN e = 1..(Len(Bounds) + 1) /\ e[i] \in Nat
  BY DEF Buckets
<1>2. Buckets(filled) /\ filled[i] = e[i] + 1 /\ \A j \in (1..(Len(Bounds) + 1)) \ {i} : filled[j] = e[j]
  BY <1>1 DEF Buckets
<1> QED  BY <1>2, OneMore

LEMMA HistogramFields ==
    ASSUME NEW q, NEW h, NEW a, NEW b, NEW c, NEW d, NEW e, NEW f, NEW g, NEW i,
           h = [count |-> h.count, sum |-> h.sum, min |-> h.min, max |-> h.max, p50 |-> h.p50, p95 |-> h.p95,
                p99 |-> h.p99, timeouts |-> h.timeouts, errors |-> h.errors, buckets |-> h.buckets],
           q = [h EXCEPT !.count = a, !.sum = b, !.min = c, !.max = d, !.buckets = e, !.p50 = f, !.p95 = g, !.p99 = i]
    PROVE  q = [count |-> a, sum |-> b, min |-> c, max |-> d, p50 |-> f, p95 |-> g, p99 |-> i,
                timeouts |-> h.timeouts, errors |-> h.errors, buckets |-> e]
OBVIOUS

LEMMA ObserveOK ==
    ASSUME NEW q, NEW h, HistogramOK(h), NEW ms \in Nat, q = Observe(h, ms)
    PROVE  HistogramOK(q) /\ q.count = h.count + 1 /\ q.timeouts = h.timeouts /\ q.errors = h.errors
<1> DEFINE e == EnsureBuckets(h)
           i == BucketIndex(ms)
           filled == [e EXCEPT ![i] = e[i] + 1]
           b == h.sum + ms
           c == IF h.count = 0 \/ ms < h.min THEN ms ELSE h.min
           d == IF ms > h.max THEN ms ELSE h.max
           f == Percentile(filled, 50)
           g == Percentile(filled, 95)
           p == Percentile(filled, 99)
<1>1. Buckets(e) /\ Total(e) = h.count /\ h.count \in Nat /\ h.timeouts \in Nat /\ h.errors \in Nat
  <2>1. Buckets(EnsureBuckets(h)) /\ Total(EnsureBuckets(h)) = Total(h.buckets)
    BY EnsuredIs
  <2>2. Total(h.buckets) = h.count /\ h.count \in Nat /\ h.timeouts \in Nat /\ h.errors \in Nat
    BY DEF HistogramOK
  <2> QED  BY <2>1, <2>2
<1>2. i \in 1..(Len(Bounds) + 1)
  BY BucketIndexIs
<1>3. q = [h EXCEPT !.count = h.count + 1, !.sum = b, !.min = c, !.max = d, !.buckets = filled,
                    !.p50 = f, !.p95 = g, !.p99 = p]
  BY DEF Observe
<1>4. h = [count |-> h.count, sum |-> h.sum, min |-> h.min, max |-> h.max, p50 |-> h.p50, p95 |-> h.p95,
           p99 |-> h.p99, timeouts |-> h.timeouts, errors |-> h.errors, buckets |-> h.buckets]
  BY DEF HistogramOK
<1> HIDE DEF e, i, b, c, d, f, g, p
<1>5. Buckets(filled) /\ Total(filled) = h.count + 1
  BY <1>1, <1>2, FilledIs
<1> HIDE DEF filled
<1>6. {f, g, p} \subseteq Nat /\ f <= g /\ g <= p
  BY <1>5, PercentilesGrow DEF f, g, p
<1>7. q = [count |-> h.count + 1, sum |-> b, min |-> c, max |-> d, p50 |-> f, p95 |-> g, p99 |-> p,
           timeouts |-> h.timeouts, errors |-> h.errors, buckets |-> filled]
  BY <1>3, <1>4, HistogramFields
<1>8. /\ q.count = h.count + 1 /\ q.sum = b /\ q.min = c /\ q.max = d /\ q.p50 = f /\ q.p95 = g /\ q.p99 = p
      /\ q.timeouts = h.timeouts /\ q.errors = h.errors /\ q.buckets = filled
  BY <1>7
<1>9. q = [count |-> q.count, sum |-> q.sum, min |-> q.min, max |-> q.max, p50 |-> q.p50, p95 |-> q.p95,
           p99 |-> q.p99, timeouts |-> q.timeouts, errors |-> q.errors, buckets |-> q.buckets]
  BY <1>7, <1>8
<1>10. q.buckets = <<>> \/ q.buckets \in [1..(Len(Bounds) + 1) -> Nat]
  BY <1>5, <1>8 DEF Buckets
<1>11. {q.count, q.timeouts, q.errors, q.p50, q.p95, q.p99} \subseteq Nat
  BY <1>1, <1>6, <1>8
<1>12. q.count = Total(q.buckets) /\ q.p50 <= q.p95 /\ q.p95 <= q.p99
  BY <1>5, <1>6, <1>8
<1> QED  BY <1>8, <1>9, <1>10, <1>11, <1>12 DEF HistogramOK

LEMMA TimeoutOK ==
    ASSUME NEW q, NEW h, HistogramOK(h), q = ObserveTimeout(h)
    PROVE  HistogramOK(q) /\ q.count = h.count /\ q.timeouts = h.timeouts + 1 /\ q.errors = h.errors
<1>1. h = [count |-> h.count, sum |-> h.sum, min |-> h.min, max |-> h.max, p50 |-> h.p50, p95 |-> h.p95,
           p99 |-> h.p99, timeouts |-> h.timeouts, errors |-> h.errors, buckets |-> h.buckets]
  BY DEF HistogramOK
<1>2. q = [h EXCEPT !.timeouts = h.timeouts + 1]
  BY DEF ObserveTimeout
<1>3. q = [count |-> h.count, sum |-> h.sum, min |-> h.min, max |-> h.max, p50 |-> h.p50, p95 |-> h.p95,
           p99 |-> h.p99, timeouts |-> h.timeouts + 1, errors |-> h.errors, buckets |-> h.buckets]
  BY <1>1, <1>2
<1> QED  BY <1>3 DEF HistogramOK

LEMMA ErrorOK ==
    ASSUME NEW q, NEW h, HistogramOK(h), q = ObserveError(h)
    PROVE  HistogramOK(q) /\ q.count = h.count /\ q.timeouts = h.timeouts /\ q.errors = h.errors + 1
<1>1. h = [count |-> h.count, sum |-> h.sum, min |-> h.min, max |-> h.max, p50 |-> h.p50, p95 |-> h.p95,
           p99 |-> h.p99, timeouts |-> h.timeouts, errors |-> h.errors, buckets |-> h.buckets]
  BY DEF HistogramOK
<1>2. q = [h EXCEPT !.errors = h.errors + 1]
  BY DEF ObserveError
<1>3. q = [count |-> h.count, sum |-> h.sum, min |-> h.min, max |-> h.max, p50 |-> h.p50, p95 |-> h.p95,
           p99 |-> h.p99, timeouts |-> h.timeouts, errors |-> h.errors + 1, buckets |-> h.buckets]
  BY <1>1, <1>2
<1> QED  BY <1>3 DEF HistogramOK

IsTimeout(outcome) == IF outcome = "timeout" THEN 1 ELSE 0
IsError(outcome) == IF outcome = "error" THEN 1 ELSE 0
SamplesOf(h) == h.count + h.timeouts + h.errors

LEMMA AfterOK ==
    ASSUME NEW q, NEW h, HistogramOK(h), NEW ms \in Nat, NEW outcome \in {"ok", "timeout", "error"},
           q = After(h, ms, outcome)
    PROVE  /\ HistogramOK(q) /\ SamplesOf(q) = SamplesOf(h) + 1
           /\ q.timeouts = h.timeouts + IsTimeout(outcome) /\ q.errors = h.errors + IsError(outcome)
<1>0. h.count \in Nat /\ h.timeouts \in Nat /\ h.errors \in Nat
  BY DEF HistogramOK
<1>1. CASE outcome = "ok"
  <2>1. q = Observe(h, ms)
    BY <1>1 DEF After
  <2>2. HistogramOK(q) /\ q.count = h.count + 1 /\ q.timeouts = h.timeouts /\ q.errors = h.errors
    BY <2>1, ObserveOK
  <2>3. IsTimeout(outcome) = 0 /\ IsError(outcome) = 0
    BY <1>1 DEF IsTimeout, IsError
  <2> QED  BY <1>0, <2>2, <2>3 DEF SamplesOf
<1>2. CASE outcome = "timeout"
  <2>1. q = ObserveTimeout(h)
    BY <1>2 DEF After
  <2>2. HistogramOK(q) /\ q.count = h.count /\ q.timeouts = h.timeouts + 1 /\ q.errors = h.errors
    BY <2>1, TimeoutOK
  <2>3. IsTimeout(outcome) = 1 /\ IsError(outcome) = 0
    BY <1>2 DEF IsTimeout, IsError
  <2> QED  BY <1>0, <2>2, <2>3 DEF SamplesOf
<1>3. CASE outcome = "error"
  <2>1. q = ObserveError(h)
    BY <1>3 DEF After
  <2>2. HistogramOK(q) /\ q.count = h.count /\ q.timeouts = h.timeouts /\ q.errors = h.errors + 1
    BY <2>1, ErrorOK
  <2>3. IsTimeout(outcome) = 0 /\ IsError(outcome) = 1
    BY <1>3 DEF IsTimeout, IsError
  <2> QED  BY <1>0, <2>2, <2>3 DEF SamplesOf
<1> QED  BY <1>1, <1>2, <1>3

SamplesIn(rows) == RowsSum(rows, LAMBDA h : h.count + h.timeouts + h.errors)
TimeoutsIn(rows) == RowsSum(rows, LAMBDA h : h.timeouts)
ErrorsIn(rows) == RowsSum(rows, LAMBDA h : h.errors)

LEMMA SumsAre ==
    ASSUME NEW rows, RowsOK(rows), NEW s, NEW t, NEW e,
           s = [k \in DOMAIN rows |-> (rows[k].count + rows[k].timeouts + rows[k].errors)],
           t = [k \in DOMAIN rows |-> rows[k].timeouts], e = [k \in DOMAIN rows |-> rows[k].errors]
    PROVE  /\ Numbers(DOMAIN rows, s) /\ Numbers(DOMAIN rows, t) /\ Numbers(DOMAIN rows, e)
           /\ SamplesIn(rows) = Counted(DOMAIN rows, s)
           /\ TimeoutsIn(rows) = Counted(DOMAIN rows, t) /\ ErrorsIn(rows) = Counted(DOMAIN rows, e)
<1>1. IsFiniteSet(DOMAIN rows)
  BY DEF RowsOK
<1>2. \A k \in DOMAIN rows : rows[k].count \in Nat /\ rows[k].timeouts \in Nat /\ rows[k].errors \in Nat
  BY DEF RowsOK, HistogramOK
<1>3. Numbers(DOMAIN rows, s)
  BY <1>1, <1>2 DEF Numbers
<1>4. Numbers(DOMAIN rows, t)
  BY <1>1, <1>2 DEF Numbers
<1>5. Numbers(DOMAIN rows, e)
  BY <1>1, <1>2 DEF Numbers
<1>6. SamplesIn(rows) = Counted(DOMAIN rows, s)
  BY <1>3, SamplesOfRows DEF SamplesIn
<1>7. TimeoutsIn(rows) = Counted(DOMAIN rows, t)
  BY <1>4, TimeoutsOfRows DEF TimeoutsIn
<1>8. ErrorsIn(rows) = Counted(DOMAIN rows, e)
  BY <1>5, ErrorsOfRows DEF ErrorsIn
<1> QED  BY <1>3, <1>4, <1>5, <1>6, <1>7, <1>8

LEMMA PutOK ==
    ASSUME NEW m, NEW rows, RowsOK(rows), NEW key, NEW h, HistogramOK(h), m = Put(rows, key, h)
    PROVE  /\ DOMAIN m = DOMAIN rows \cup {key} /\ RowsOK(m)
           /\ m[key] = h
           /\ \A k \in DOMAIN rows \ {key} : m[k] = rows[k]
<1>1. m = [k \in DOMAIN rows \cup {key} |-> IF k = key THEN h ELSE rows[k]]
  BY DEF Put
<1>2. DOMAIN m = DOMAIN rows \cup {key} /\ m = [k \in DOMAIN m |-> m[k]]
  BY <1>1
<1>3. m[key] = h
  BY <1>1
<1>4. \A k \in DOMAIN rows \ {key} : m[k] = rows[k]
  BY <1>1
<1>5. IsFiniteSet(DOMAIN m)
  BY <1>2, FS_AddElement DEF RowsOK
<1>6. \A k \in DOMAIN m : HistogramOK(m[k])
  BY <1>2, <1>3, <1>4 DEF RowsOK
<1> QED  BY <1>2, <1>3, <1>4, <1>5, <1>6 DEF RowsOK

LEMMA RowIs ==
    ASSUME NEW r, NEW rows, RowsOK(rows), NEW key, r = Row(rows, key)
    PROVE  /\ HistogramOK(r) /\ (key \in DOMAIN rows => r = rows[key])
           /\ (key \notin DOMAIN rows => SamplesOf(r) = 0 /\ r.timeouts = 0 /\ r.errors = 0)
<1>1. CASE key \in DOMAIN rows
  BY <1>1 DEF Row, RowsOK
<1>2. CASE key \notin DOMAIN rows
  <2>1. r = EmptyHistogram
    BY <1>2 DEF Row
  <2>2. r.count = 0 /\ r.timeouts = 0 /\ r.errors = 0
    BY <2>1 DEF EmptyHistogram
  <2> QED  BY <1>2, <2>1, <2>2, EmptyHistogramOK DEF SamplesOf
<1> QED  BY <1>1, <1>2

LEMMA PutAdds ==
    ASSUME NEW m, NEW rows, RowsOK(rows), NEW key, NEW h, NEW r, r = Row(rows, key), HistogramOK(h),
           m = Put(rows, key, h), NEW t \in Nat, NEW e \in Nat,
           SamplesOf(h) = SamplesOf(r) + 1, h.timeouts = r.timeouts + t, h.errors = r.errors + e
    PROVE  /\ RowsOK(m) /\ SamplesIn(m) = SamplesIn(rows) + 1
           /\ TimeoutsIn(m) = TimeoutsIn(rows) + t /\ ErrorsIn(m) = ErrorsIn(rows) + e
<1> DEFINE D == DOMAIN rows
           fs == [k \in DOMAIN rows |-> (rows[k].count + rows[k].timeouts + rows[k].errors)]
           ft == [k \in DOMAIN rows |-> rows[k].timeouts]
           fe == [k \in DOMAIN rows |-> rows[k].errors]
           gs == [k \in DOMAIN m |-> (m[k].count + m[k].timeouts + m[k].errors)]
           gt == [k \in DOMAIN m |-> m[k].timeouts]
           ge == [k \in DOMAIN m |-> m[k].errors]
<1>0. RowsOK(m)
  BY PutOK
<1>1. DOMAIN m = D \cup {key} /\ m[key] = h /\ \A k \in D \ {key} : m[k] = rows[k]
  BY DEF Put
<1>2. /\ HistogramOK(r) /\ (key \in D => r = rows[key])
      /\ (key \notin D => SamplesOf(r) = 0 /\ r.timeouts = 0 /\ r.errors = 0)
  BY RowIs
<1>3. r.count \in Nat /\ r.timeouts \in Nat /\ r.errors \in Nat /\ SamplesOf(r) \in Nat
  <2>1. r.count \in Nat /\ r.timeouts \in Nat /\ r.errors \in Nat
    BY <1>2 DEF HistogramOK
  <2> QED  BY <2>1 DEF SamplesOf
<1>4. /\ Numbers(D, fs) /\ Numbers(D, ft) /\ Numbers(D, fe) /\ SamplesIn(rows) = Counted(D, fs)
      /\ TimeoutsIn(rows) = Counted(D, ft) /\ ErrorsIn(rows) = Counted(D, fe)
  BY SumsAre
<1>5. /\ Numbers(DOMAIN m, gs) /\ Numbers(DOMAIN m, gt) /\ Numbers(DOMAIN m, ge) /\ SamplesIn(m) = Counted(DOMAIN m, gs)
      /\ TimeoutsIn(m) = Counted(DOMAIN m, gt) /\ ErrorsIn(m) = Counted(DOMAIN m, ge)
  BY <1>0, SumsAre
<1>6. \A k \in D : fs[k] = SamplesOf(rows[k]) /\ ft[k] = rows[k].timeouts /\ fe[k] = rows[k].errors
  BY DEF SamplesOf
<1>7. \A k \in DOMAIN m : gs[k] = SamplesOf(m[k]) /\ gt[k] = m[k].timeouts /\ ge[k] = m[k].errors
  BY DEF SamplesOf
<1> HIDE DEF fs, ft, fe, gs, gt, ge, D
<1>8. \A x \in D \ {key} : gs[x] = fs[x] /\ gt[x] = ft[x] /\ ge[x] = fe[x]
  BY <1>1, <1>6, <1>7
<1>9. gs[key] = SamplesOf(r) + 1 /\ gt[key] = r.timeouts + t /\ ge[key] = r.errors + e
  BY <1>1, <1>7
<1>10. key \in D => SamplesOf(r) = fs[key] /\ r.timeouts = ft[key] /\ r.errors = fe[key]
  BY <1>2, <1>6
<1>11. Numbers(D \cup {key}, gs) /\ Numbers(D \cup {key}, gt) /\ Numbers(D \cup {key}, ge)
  BY <1>1, <1>5
<1>12. Counted(D \cup {key}, gs) = Counted(D, fs) + 1
  BY <1>2, <1>3, <1>4, <1>8, <1>9, <1>10, <1>11, CountedPut
<1>13. Counted(D \cup {key}, gt) = Counted(D, ft) + t
  BY <1>2, <1>3, <1>4, <1>8, <1>9, <1>10, <1>11, CountedPut
<1>14. Counted(D \cup {key}, ge) = Counted(D, fe) + e
  BY <1>2, <1>3, <1>4, <1>8, <1>9, <1>10, <1>11, CountedPut
<1> QED  BY <1>0, <1>1, <1>4, <1>5, <1>12, <1>13, <1>14

(* What AddsUp says of a table of which the rows are known.                *)
RowsAddUp(m, rows) == SamplesIn(rows) = m.calls /\ TimeoutsIn(rows) = m.timeouts /\ ErrorsIn(rows) = m.errors

LEMMA AddsUpIs ==
    ASSUME NEW m, RowsOK(m.kinds), RowsOK(m.models)
    PROVE  AddsUp(m) <=> RowsAddUp(m, m.kinds) /\ RowsAddUp(m, m.models)
<1>1. \A rows \in {m.kinds, m.models} : \A h \in Range(rows) :
          h.count = Total(h.buckets) /\ h.p50 <= h.p95 /\ h.p95 <= h.p99
  <2> SUFFICES ASSUME NEW rows, RowsOK(rows), NEW k \in DOMAIN rows
               PROVE  /\ rows[k].count = Total(rows[k].buckets)
                      /\ rows[k].p50 <= rows[k].p95 /\ rows[k].p95 <= rows[k].p99
    BY DEF Range
  <2> QED  BY DEF RowsOK, HistogramOK
<1> QED  BY <1>1 DEF AddsUp, RowsAddUp, SamplesIn, TimeoutsIn, ErrorsIn

LEMMA MetricsFields ==
    ASSUME NEW q, NEW m, NEW a, NEW b, NEW c, NEW d, NEW e,
           m = [calls |-> m.calls, timeouts |-> m.timeouts, errors |-> m.errors, fallbacks |-> m.fallbacks,
                kinds |-> m.kinds, models |-> m.models],
           q = [m EXCEPT !.calls = a, !.timeouts = b, !.errors = c, !.kinds = d, !.models = e]
    PROVE  q = [calls |-> a, timeouts |-> b, errors |-> c, fallbacks |-> m.fallbacks, kinds |-> d, models |-> e]
OBVIOUS

LEMMA RecordCallIs ==
    ASSUME NEW q, NEW m, MetricsOK(m), NEW kind, NEW model, NEW ms \in Nat, NEW outcome \in {"ok", "timeout", "error"},
           q = RecordCall(m, kind, model, ms, outcome)
    PROVE  MetricsOK(q)
<1> DEFINE t == IsTimeout(outcome)
           e == IsError(outcome)
           kr == Row(m.kinds, kind)
           mr == Row(m.models, model)
           kh == After(kr, ms, outcome)
           mh == After(mr, ms, outcome)
           ks == Put(m.kinds, kind, kh)
           mo == Put(m.models, model, mh)
           nt == IF outcome = "timeout" THEN m.timeouts + 1 ELSE m.timeouts
           ne == IF outcome = "error" THEN m.errors + 1 ELSE m.errors
<1>1. /\ m.calls \in Nat /\ m.timeouts \in Nat /\ m.errors \in Nat /\ RowsOK(m.kinds) /\ RowsOK(m.models)
      /\ RowsAddUp(m, m.kinds) /\ RowsAddUp(m, m.models)
  BY AddsUpIs DEF MetricsOK
<1>2. t \in Nat /\ e \in Nat /\ nt = m.timeouts + t /\ ne = m.errors + e
  BY <1>1 DEF IsTimeout, IsError
<1>3. q = [m EXCEPT !.calls = m.calls + 1, !.timeouts = nt, !.errors = ne, !.kinds = ks, !.models = mo]
  BY DEF RecordCall
<1>4. m = [calls |-> m.calls, timeouts |-> m.timeouts, errors |-> m.errors, fallbacks |-> m.fallbacks,
           kinds |-> m.kinds, models |-> m.models]
  BY DEF MetricsOK
<1> HIDE DEF t, e, kr, mr, kh, mh, ks, mo, nt, ne
<1>5. HistogramOK(kr) /\ HistogramOK(mr)
  BY <1>1, RowIs DEF kr, mr
<1>6. HistogramOK(kh) /\ SamplesOf(kh) = SamplesOf(kr) + 1 /\ kh.timeouts = kr.timeouts + t /\ kh.errors = kr.errors + e
  BY <1>5, AfterOK DEF kh, t, e
<1>7. HistogramOK(mh) /\ SamplesOf(mh) = SamplesOf(mr) + 1 /\ mh.timeouts = mr.timeouts + t /\ mh.errors = mr.errors + e
  BY <1>5, AfterOK DEF mh, t, e
<1>8. /\ RowsOK(ks) /\ SamplesIn(ks) = SamplesIn(m.kinds) + 1 /\ TimeoutsIn(ks) = TimeoutsIn(m.kinds) + t
      /\ ErrorsIn(ks) = ErrorsIn(m.kinds) + e
  <2>1. ks = Put(m.kinds, kind, kh)
    BY DEF ks
  <2>2. kr = Row(m.kinds, kind)
    BY DEF kr
  <2> QED  BY <1>1, <1>2, <1>6, <2>1, <2>2, PutAdds
<1>9. /\ RowsOK(mo) /\ SamplesIn(mo) = SamplesIn(m.models) + 1 /\ TimeoutsIn(mo) = TimeoutsIn(m.models) + t
      /\ ErrorsIn(mo) = ErrorsIn(m.models) + e
  <2>1. mo = Put(m.models, model, mh)
    BY DEF mo
  <2>2. mr = Row(m.models, model)
    BY DEF mr
  <2>3. RowsOK(m.models) /\ t \in Nat /\ e \in Nat
    BY <1>1, <1>2
  <2> QED  BY <1>7, <2>1, <2>2, <2>3, PutAdds
<1>10. q = [calls |-> m.calls + 1, timeouts |-> nt, errors |-> ne, fallbacks |-> m.fallbacks, kinds |-> ks, models |-> mo]
  BY <1>3, <1>4, MetricsFields
<1>11. /\ q.calls = m.calls + 1 /\ q.timeouts = nt /\ q.errors = ne /\ q.fallbacks = m.fallbacks
       /\ q.kinds = ks /\ q.models = mo
  BY <1>10
<1>12. q = [calls |-> q.calls, timeouts |-> q.timeouts, errors |-> q.errors, fallbacks |-> q.fallbacks,
            kinds |-> q.kinds, models |-> q.models]
  BY <1>10, <1>11
<1>13. RowsAddUp(q, q.kinds)
  BY <1>1, <1>2, <1>8, <1>11 DEF RowsAddUp
<1>14. RowsAddUp(q, q.models)
  BY <1>1, <1>2, <1>9, <1>11 DEF RowsAddUp
<1>15. AddsUp(q)
  BY <1>8, <1>9, <1>11, <1>13, <1>14, AddsUpIs
<1>16. q.calls \in Nat /\ q.timeouts \in Nat /\ q.errors \in Nat
  BY <1>1, <1>2, <1>11
<1> QED  BY <1>8, <1>9, <1>11, <1>12, <1>15, <1>16 DEF MetricsOK

LEMMA RecordCallOK ==
    ASSUME NEW m, MetricsOK(m), NEW kind, NEW model, NEW ms \in Nat, NEW outcome \in {"ok", "timeout", "error"}
    PROVE  MetricsOK(RecordCall(m, kind, model, ms, outcome))
BY RecordCallIs

LEMMA EmptyMetricsOK == MetricsOK(EmptyMetrics)
<1> DEFINE b == <<>>
           s == [k \in DOMAIN b |-> (b[k].count + b[k].timeouts + b[k].errors)]
           t == [k \in DOMAIN b |-> b[k].timeouts]
           e == [k \in DOMAIN b |-> b[k].errors]
           m == EmptyMetrics
<1>1. DOMAIN b = {} /\ b = [k \in DOMAIN b |-> b[k]]
  OBVIOUS
<1>2. m = [calls |-> 0, timeouts |-> 0, errors |-> 0, fallbacks |-> 0, kinds |-> b, models |-> b]
  BY DEF EmptyMetrics
<1> HIDE DEF b
<1>3. RowsOK(b)
  BY <1>1, FS_EmptySet DEF RowsOK
<1>4. /\ Numbers({}, s) /\ Numbers({}, t) /\ Numbers({}, e) /\ SamplesIn(b) = Counted({}, s)
      /\ TimeoutsIn(b) = Counted({}, t) /\ ErrorsIn(b) = Counted({}, e)
  <2>1. /\ Numbers(DOMAIN b, s) /\ Numbers(DOMAIN b, t) /\ Numbers(DOMAIN b, e) /\ SamplesIn(b) = Counted(DOMAIN b, s)
        /\ TimeoutsIn(b) = Counted(DOMAIN b, t) /\ ErrorsIn(b) = Counted(DOMAIN b, e)
    BY <1>3, SumsAre
  <2> HIDE DEF s, t, e
  <2> QED  BY <1>1, <2>1
<1> HIDE DEF s, t, e, m
<1>5. SamplesIn(b) = 0 /\ TimeoutsIn(b) = 0 /\ ErrorsIn(b) = 0
  BY <1>4, CountedIs
<1>6. m.calls = 0 /\ m.timeouts = 0 /\ m.errors = 0 /\ m.fallbacks = 0 /\ m.kinds = b /\ m.models = b
  BY <1>2
<1>7. m = [calls |-> m.calls, timeouts |-> m.timeouts, errors |-> m.errors, fallbacks |-> m.fallbacks,
           kinds |-> m.kinds, models |-> m.models]
  BY <1>2, <1>6
<1>8. AddsUp(m)
  BY <1>3, <1>5, <1>6, AddsUpIs DEF RowsAddUp
<1> QED  BY <1>3, <1>6, <1>7, <1>8 DEF MetricsOK, m

-----------------------------------------------------------------------------
(* The source registry.                                                    *)


(* A request that has run alone writes what the registry still is.         *)
RegistryInv ==
    /\ RegistryTypeOK
    /\ \A c \in Clients : alone[c] /\ request[c].step \in {"read", "writing"}
                              => request[c].snapshot = sources
    /\ FileHoldsRegistry
Requests == [step : {"idle", "changed", "read", "writing"}, snapshot : Registry, mixed : BOOLEAN]

LEMMA EmptyRegistryType == EmptyRegistry \in Registry /\ Idle \in Requests
BY DEF EmptyRegistry, Registry, Idle, Requests

LEMMA LoadType == ASSUME NEW f \in Registry \cup {Torn}  PROVE Load(f) \in Registry
BY EmptyRegistryType DEF Load

LEMMA FaultType == ASSUME Fault, faults \in 0..MaxFaults  PROVE faults' \in 0..MaxFaults
BY RegistryAssumption DEF Fault

LEMMA RegistryInitHolds == RegistryInit => RegistryInv
<1> SUFFICES ASSUME RegistryInit  PROVE RegistryInv
  OBVIOUS
<1>1. sources \in Registry /\ file \in Registry \cup {Torn}
  BY EmptyRegistryType, LoadType DEF RegistryInit
<1>2. request \in [Clients -> Requests] /\ alone \in [Clients -> BOOLEAN] /\ doubtful \in BOOLEAN
  BY EmptyRegistryType DEF RegistryInit
<1>3. changes \in 0..MaxChanges /\ faults \in 0..MaxFaults
  BY RegistryAssumption DEF RegistryInit
<1>4. \A c \in Clients : request[c].step = "idle"
  BY DEF RegistryInit, Idle
<1>5. file = sources
  BY DEF RegistryInit, Load
<1> QED  BY <1>1, <1>2, <1>3, <1>4, <1>5 DEF RegistryInv, RegistryTypeOK, FileHoldsRegistry, Requests

(* What leaves the registry and its requests alone keeps the invariant.    *)
LEMMA RegistryKept ==
    ASSUME RegistryInv, UNCHANGED <<sources, file, request, alone, doubtful>>,
           changes' \in 0..MaxChanges, faults' \in 0..MaxFaults
    PROVE  RegistryInv'
BY DEF RegistryInv, RegistryTypeOK, FileHoldsRegistry, Running

LEMMA ChangeKeeps ==
    ASSUME RegistryInv, NEW c \in Clients, NEW n \in Names, NEW s \in Source \cup {None}, Change(c, n, s)
    PROVE  RegistryInv'
<1>1. sources \in Registry /\ request \in [Clients -> Requests] /\ alone \in [Clients -> BOOLEAN]
  BY DEF RegistryInv, RegistryTypeOK, Requests
<1>2. sources' \in Registry
  BY <1>1 DEF Change, Registry
<1>3. /\ request' \in [Clients -> Requests]
      /\ request'[c].step = "changed" /\ \A d \in Clients \ {c} : request'[d] = request[d]
  BY <1>1 DEF Change, Requests
<1>4. alone' \in [Clients -> BOOLEAN] /\ \A d \in Clients \ {c} : alone'[d] => request[d] = Idle
  <2>1. \A d \in Clients : alone'[d] \in BOOLEAN
    BY <1>1 DEF Change
  <2> QED  BY <2>1 DEF Change
<1>5. changes' \in 0..MaxChanges
  BY RegistryAssumption DEF Change, RegistryInv, RegistryTypeOK
<1>6. ASSUME NEW d \in Clients, alone'[d], request'[d].step \in {"read", "writing"}
      PROVE  FALSE
  <2>1. d # c
    BY <1>3, <1>6
  <2>2. request'[d] = Idle
    BY <1>3, <1>4, <1>6, <2>1
  <2> QED  BY <1>6, <2>2 DEF Idle
<1>7. c \in Running'
  BY <1>3 DEF Running
<1>8. UNCHANGED <<file, doubtful, faults>>
  BY DEF Change
<1> QED  BY <1>2, <1>3, <1>4, <1>5, <1>6, <1>7, <1>8 DEF RegistryInv, RegistryTypeOK, FileHoldsRegistry, Requests

LEMMA SnapshotKeeps ==
    ASSUME RegistryInv, NEW c \in Clients, TakeSnapshot(c)
    PROVE  RegistryInv'
<1>1. sources \in Registry /\ request \in [Clients -> Requests] /\ alone \in [Clients -> BOOLEAN]
  BY DEF RegistryInv, RegistryTypeOK, Requests
<1>2. /\ request' \in [Clients -> Requests]
      /\ request'[c].step = "read" /\ request'[c].snapshot = sources
      /\ \A d \in Clients \ {c} : request'[d] = request[d]
  BY <1>1 DEF TakeSnapshot, Requests
<1>3. c \in Running'
  BY <1>2 DEF Running
<1>4. UNCHANGED <<sources, file, alone, doubtful, changes, faults>>
  BY DEF TakeSnapshot
<1> QED  BY <1>2, <1>3, <1>4 DEF RegistryInv, RegistryTypeOK, FileHoldsRegistry, Requests

LEMMA OpenKeeps ==
    ASSUME RegistryInv, NEW c \in Clients, OpenFile(c)
    PROVE  RegistryInv'
<1>1. sources \in Registry /\ request \in [Clients -> Requests] /\ alone \in [Clients -> BOOLEAN]
  BY DEF RegistryInv, RegistryTypeOK, Requests
<1>2. UNCHANGED <<sources, alone, changes>>
  BY DEF OpenFile
<1>3. CASE file' = Torn /\ request' = [request EXCEPT ![c].step = "writing"] /\ UNCHANGED <<doubtful, faults>>
  <2>1. /\ request' \in [Clients -> Requests]
        /\ request'[c].step = "writing" /\ request'[c].snapshot = request[c].snapshot
        /\ \A d \in Clients \ {c} : request'[d] = request[d]
    BY <1>1, <1>3 DEF Requests
  <2>2. c \in Running'
    BY <2>1 DEF Running
  <2>3. request[c].step = "read"
    BY DEF OpenFile
  <2> QED  BY <1>2, <1>3, <2>1, <2>2, <2>3 DEF RegistryInv, RegistryTypeOK, FileHoldsRegistry, Requests
<1>4. CASE Fault /\ request' = [request EXCEPT ![c] = Idle] /\ doubtful' = TRUE /\ UNCHANGED file
  <2>1. /\ request' \in [Clients -> Requests]
        /\ request'[c].step = "idle"
        /\ \A d \in Clients \ {c} : request'[d] = request[d]
    BY <1>1, <1>4, EmptyRegistryType DEF Idle
  <2>2. faults' \in 0..MaxFaults
    BY <1>4, FaultType DEF RegistryInv, RegistryTypeOK
  <2> QED  BY <1>2, <1>4, <2>1, <2>2 DEF RegistryInv, RegistryTypeOK, FileHoldsRegistry, Requests
<1> QED  BY <1>3, <1>4 DEF OpenFile

LEMMA FillKeeps ==
    ASSUME RegistryInv, NEW c \in Clients, FillFile(c)
    PROVE  RegistryInv'
<1>1. /\ sources \in Registry /\ request \in [Clients -> Requests] /\ alone \in [Clients -> BOOLEAN]
      /\ request[c].step = "writing"
  BY DEF RegistryInv, RegistryTypeOK, Requests, FillFile
<1>2. UNCHANGED <<sources, alone, changes>>
  BY DEF FillFile
<1>3. /\ request'[c] = Idle
      /\ \A d \in Clients : request'[d] \in Requests
      /\ \A d \in Clients \ {c} : /\ request'[d].step = request[d].step
                                  /\ request'[d].snapshot = request[d].snapshot
  <2>1. request'[c] = Idle /\ Idle \in Requests
    BY EmptyRegistryType DEF FillFile
  <2>2. ASSUME NEW d \in Clients \ {c}
        PROVE  /\ request'[d] \in Requests /\ request'[d].step = request[d].step
               /\ request'[d].snapshot = request[d].snapshot
    <3>1. request'[d] = [request[d] EXCEPT !.mixed = TRUE] \/ request'[d] = request[d]
      BY DEF FillFile
    <3> QED  BY <1>1, <3>1 DEF Requests
  <2> QED  BY <2>1, <2>2
<1>4. request' \in [Clients -> Requests]
  BY <1>3 DEF FillFile
<1>5. faults' \in 0..MaxFaults
  BY FaultType DEF FillFile, RegistryInv, RegistryTypeOK
<1>6. /\ file' \in Registry \cup {Torn} /\ doubtful' \in BOOLEAN
      /\ ~doubtful' => file' = sources
  <2>1. CASE file' = request[c].snapshot /\ doubtful' = ~alone[c]
    <3>1. request[c].snapshot \in Registry
      BY <1>1 DEF Requests
    <3>2. alone[c] => request[c].snapshot = sources
      BY <1>1 DEF RegistryInv
    <3>3. alone[c] \in BOOLEAN
      BY <1>1
    <3> QED  BY <2>1, <3>1, <3>2, <3>3
  <2>2. CASE file' = Torn /\ doubtful' = TRUE
    BY <2>2
  <2> QED  BY <2>1, <2>2 DEF FillFile
<1>7. \A d \in Clients : alone'[d] /\ request'[d].step \in {"read", "writing"}
                            => request'[d].snapshot = sources'
  <2> SUFFICES ASSUME NEW d \in Clients, alone[d], request'[d].step \in {"read", "writing"}
               PROVE  request'[d].snapshot = sources
    BY <1>2
  <2>1. d # c
    BY <1>3 DEF Idle
  <2> QED  BY <1>3, <2>1 DEF RegistryInv
<1> QED  BY <1>1, <1>2, <1>4, <1>5, <1>6, <1>7 DEF RegistryInv, RegistryTypeOK, FileHoldsRegistry, Requests

LEMMA RegistryStepKeeps ==
    ASSUME RegistryInv, NEW c \in Clients, RegistryStep(c)
    PROVE  RegistryInv'
<1>1. sources \in Registry
  BY DEF RegistryInv, RegistryTypeOK
<1>2. CASE AddSource(c)
  <2>1. PICK n \in Names, s \in Source : Change(c, n, s)
    BY <1>2 DEF AddSource
  <2> QED  BY <2>1, ChangeKeeps
<1>3. CASE UpdateSource(c)
  <2>1. PICK n \in Names :
           /\ sources[n] # None
           /\ \E u \in Urls \cup {sources[n].url}, b \in BOOLEAN :
                 Change(c, n, [sources[n] EXCEPT !.url = u, !.enabled = b])
    BY <1>3 DEF UpdateSource
  <2>2. sources[n] \in Source
    BY <1>1, <2>1 DEF Registry
  <2>3. PICK u \in Urls \cup {sources[n].url}, b \in BOOLEAN :
           Change(c, n, [sources[n] EXCEPT !.url = u, !.enabled = b])
    BY <2>1
  <2>4. u \in Urls \cup {None}
    BY <2>2 DEF Source
  <2>5. [sources[n] EXCEPT !.url = u, !.enabled = b] \in Source
    BY <2>2, <2>4 DEF Source
  <2> QED  BY <2>3, <2>5, ChangeKeeps
<1>4. CASE RemoveSource(c)
  BY <1>4, ChangeKeeps DEF RemoveSource
<1>5. CASE TakeSnapshot(c)
  BY <1>5, SnapshotKeeps
<1>6. CASE OpenFile(c)
  BY <1>6, OpenKeeps
<1>7. CASE FillFile(c)
  BY <1>7, FillKeeps
<1> QED  BY <1>2, <1>3, <1>4, <1>5, <1>6, <1>7 DEF RegistryStep

LEMMA RegistryRestartKeeps ==
    ASSUME RegistryInv, RegistryRestart
    PROVE  RegistryInv'
<1>1. sources' \in Registry /\ file' \in Registry \cup {Torn} /\ changes' \in 0..MaxChanges
  BY LoadType DEF RegistryInv, RegistryTypeOK, RegistryRestart
<1>2. /\ request' \in [Clients -> Requests] /\ alone' \in [Clients -> BOOLEAN]
      /\ \A c \in Clients : request'[c].step = "idle"
  BY EmptyRegistryType DEF RegistryRestart, Idle
<1>3. doubtful' \in BOOLEAN /\ (~doubtful' => file' = sources')
  BY DEF RegistryRestart
<1>4. faults' \in 0..MaxFaults
  BY FaultType DEF RegistryRestart, RegistryInv, RegistryTypeOK
<1> QED  BY <1>1, <1>2, <1>3, <1>4 DEF RegistryInv, RegistryTypeOK, FileHoldsRegistry, Requests

-----------------------------------------------------------------------------
(* Ingestion.                                                              *)

IsSequence(s) == s \in Seq(ToSet(s))

LEMMA SequenceIs == ASSUME NEW S, NEW s \in Seq(S)  PROVE IsSequence(s)
BY SeqOfRange DEF IsSequence, ToSet, Range

LEMMA PolledGives ==
    ASSUME NEW s, IsSequence(s)  PROVE IsSequence(Polled(s).documents)
<1>1. IsSequence(<<>>)
  BY EmptySeq DEF IsSequence
<1> QED  BY <1>1 DEF Polled, Failed

(* Without a cursor a poll keeps every item.                               *)
LEMMA FreshGives ==
    ASSUME NEW D, NEW inputs \in Seq(D)
    PROVE  IsSequence(Polled(Filtered(inputs, LAMBDA d : None = None \/ d.at = None \/ d.at > None)).documents)
<1> DEFINE P(k) == None = None \/ inputs[k].at = None \/ inputs[k].at > None
<1>0. \A k \in 1..Len(inputs) : P(k) <=> inputs[k] \in D
  BY ElementOfSeq, LenProperties
<1> HIDE DEF P
<1>1. \A f : IsFilter(f, inputs, D) <=>
         f = [k \in 0..Len(inputs) |-> IF k = 0 THEN <<>>
              ELSE IF P(k) THEN Append(f[k - 1], inputs[k]) ELSE f[k - 1]]
  BY <1>0, LenProperties DEF IsFilter
<1>2. \E f : IsFilter(f, inputs, D) /\ Filtered(inputs, LAMBDA d : None = None \/ d.at = None \/ d.at > None) = f[Len(inputs)]
  BY <1>1, FilterExists DEF Filtered, P
<1>3. PICK f : IsFilter(f, inputs, D) /\ Filtered(inputs, LAMBDA d : None = None \/ d.at = None \/ d.at > None) = f[Len(inputs)]
  BY <1>2
<1>4. f[Len(inputs)] \in Seq(D)
  BY <1>3, FilterGives
<1> QED  BY <1>3, <1>4, SequenceIs, PolledGives

LEMMA FunctionIs ==
    ASSUME NEW n \in Nat, NEW t, t = [k \in 1..n |-> t[k]]  PROVE IsSequence(t)
<1>1. t \in [1..n -> ToSet(t)]
  BY DEF ToSet
<1> HIDE DEF IsSequence
<1> QED  BY <1>1, SeqDef DEF IsSequence

(* What an adapter makes of the items of a sequence is a sequence.         *)
LEMMA InputsGive ==
    ASSUME NEW items, IsSequence(items), NEW inputs, DOMAIN inputs = DOMAIN items,
           inputs = [k \in DOMAIN inputs |-> inputs[k]]
    PROVE  IsSequence(Polled(Filtered(inputs, LAMBDA d : None = None \/ d.at = None \/ d.at > None)).documents)
<1>1. Len(items) \in Nat /\ DOMAIN items = 1..Len(items)
  BY LenProperties DEF IsSequence
<1>2. IsSequence(inputs)
  BY <1>1, FunctionIs
<1> QED  BY <1>2, FreshGives DEF IsSequence

LEMMA GivenIs == ASSUME NEW items, IsSequence(items)  PROVE IsSequence(Given(items))
<1> DEFINE K == ToSet(items) \ {None}
<1>0. items \in Seq(ToSet(items))
  BY DEF IsSequence
<1>1. \A k \in 1..Len(items) : items[k] \in K <=> items[k] # None
  BY <1>0, ElementOfSeq
<1>2. \A f : IsFilter(f, items, K) <=>
         f = [k \in 0..Len(items) |-> IF k = 0 THEN <<>>
              ELSE IF items[k] # None THEN Append(f[k - 1], items[k]) ELSE f[k - 1]]
  BY <1>0, <1>1, LenProperties DEF IsFilter
<1>3. PICK f : IsFilter(f, items, K) /\ Given(items) = f[Len(items)]
  BY <1>0, <1>2, FilterExists DEF Given, Filtered
<1> HIDE DEF K
<1>4. f[Len(items)] \in Seq(ToSet(items))
  BY <1>0, <1>3, FilterGives
<1> QED  BY <1>3, <1>4, SequenceIs

LEMMA ParsedGives ==
    ASSUME NEW type \in SourceType \ {"static", "web"}, NEW items, IsSequence(items)
    PROVE  IsSequence(ParsePoll(type, items, None).documents)
<1>1. IsSequence(RssPoll(items, None).documents)
  <2> DEFINE inputs == [k \in DOMAIN items |-> RssInput(items[k])]
  <2>1. DOMAIN inputs = DOMAIN items /\ inputs = [k \in DOMAIN inputs |-> inputs[k]]
    OBVIOUS
  <2>2. RssPoll(items, None) = Polled(Filtered(inputs, LAMBDA d : None = None \/ d.at = None \/ d.at > None))
    BY DEF RssPoll, PollItems
  <2> HIDE DEF inputs
  <2> QED  BY <2>1, <2>2, InputsGive
<1>2. IsSequence(YouTubePoll(items, None).documents)
  <2> DEFINE inputs == [k \in DOMAIN items |-> YouTubeInput(items[k])]
  <2>1. DOMAIN inputs = DOMAIN items /\ inputs = [k \in DOMAIN inputs |-> inputs[k]]
    OBVIOUS
  <2>2. YouTubePoll(items, None) = Polled(Filtered(inputs, LAMBDA d : None = None \/ d.at = None \/ d.at > None))
    BY DEF YouTubePoll, PollItems
  <2> HIDE DEF inputs
  <2> QED  BY <2>1, <2>2, InputsGive
<1>3. IsSequence(HackerNewsPoll(items, None).documents)
  <2> DEFINE inputs == [k \in DOMAIN items |-> HitInput(items[k])]
  <2>1. DOMAIN inputs = DOMAIN items /\ inputs = [k \in DOMAIN inputs |-> inputs[k]]
    OBVIOUS
  <2>2. HackerNewsPoll(items, None) = Polled(Filtered(inputs, LAMBDA d : None = None \/ d.at = None \/ d.at > None))
    BY DEF HackerNewsPoll, PollItems
  <2> HIDE DEF inputs
  <2> QED  BY <2>1, <2>2, InputsGive
<1>4. IsSequence(ArxivPoll(items, None).documents)
  <2> DEFINE inputs == [k \in DOMAIN items |-> ArxivInput(items[k])]
  <2>1. DOMAIN inputs = DOMAIN items /\ inputs = [k \in DOMAIN inputs |-> inputs[k]]
    OBVIOUS
  <2>2. ArxivPoll(items, None) = Polled(Filtered(inputs, LAMBDA d : None = None \/ d.at = None \/ d.at > None))
    BY DEF ArxivPoll, PollItems
  <2> HIDE DEF inputs
  <2> QED  BY <2>1, <2>2, InputsGive
<1>5. IsSequence(PodcastPoll(items, None).documents)
  <2> DEFINE inputs == [k \in DOMAIN items |-> PodcastInput(items[k])]
  <2>1. DOMAIN inputs = DOMAIN items /\ inputs = [k \in DOMAIN inputs |-> inputs[k]]
    OBVIOUS
  <2>2. PodcastPoll(items, None) = Polled(Filtered(inputs, LAMBDA d : None = None \/ d.at = None \/ d.at > None))
    BY DEF PodcastPoll, PollItems
  <2> HIDE DEF inputs
  <2> QED  BY <2>1, <2>2, InputsGive
<1>6. IsSequence(GithubPoll(items, None).documents)
  <2> DEFINE inputs == [k \in DOMAIN items |-> GithubInput(items[k])]
  <2>1. DOMAIN inputs = DOMAIN items /\ inputs = [k \in DOMAIN inputs |-> inputs[k]]
    OBVIOUS
  <2>2. GithubPoll(items, None) = Polled(Filtered(inputs, LAMBDA d : None = None \/ d.at = None \/ d.at > None))
    BY DEF GithubPoll, PollItems
  <2> HIDE DEF inputs
  <2> QED  BY <2>1, <2>2, InputsGive
<1>7. IsSequence(ReleasesPoll(items, None).documents)
  <2> DEFINE inputs == [k \in DOMAIN items |-> ReleaseInput(items[k])]
  <2>1. DOMAIN inputs = DOMAIN items /\ inputs = [k \in DOMAIN inputs |-> inputs[k]]
    OBVIOUS
  <2>2. ReleasesPoll(items, None) = Polled(Filtered(inputs, LAMBDA d : None = None \/ d.at = None \/ d.at > None))
    BY DEF ReleasesPoll, PollItems
  <2> HIDE DEF inputs
  <2> QED  BY <2>1, <2>2, InputsGive
<1>8. IsSequence(SecEdgarPoll(items, None).documents)
  <2> DEFINE inputs == [k \in DOMAIN items |-> FilingInput(items[k])]
  <2>1. DOMAIN inputs = DOMAIN items /\ inputs = [k \in DOMAIN inputs |-> inputs[k]]
    OBVIOUS
  <2>2. SecEdgarPoll(items, None) = Polled(Filtered(inputs, LAMBDA d : None = None \/ d.at = None \/ d.at > None))
    BY DEF SecEdgarPoll, PollItems
  <2> HIDE DEF inputs
  <2> QED  BY <2>1, <2>2, InputsGive
<1>9. IsSequence(RedditPoll(items, None).documents)
  <2> DEFINE posts == Given(items)
             inputs == [k \in DOMAIN posts |-> PostInput(posts[k])]
  <2>1. DOMAIN inputs = DOMAIN posts /\ inputs = [k \in DOMAIN inputs |-> inputs[k]]
    OBVIOUS
  <2>2. RedditPoll(items, None) = Polled(Filtered(inputs, LAMBDA d : None = None \/ d.at = None \/ d.at > None))
    BY DEF RedditPoll, PollItems
  <2>3. IsSequence(posts)
    BY GivenIs
  <2> HIDE DEF inputs, posts
  <2> QED  BY <2>1, <2>2, <2>3, InputsGive
<1> QED  BY <1>1, <1>2, <1>3, <1>4, <1>5, <1>6, <1>7, <1>8, <1>9 DEF ParsePoll, SourceType

ShownOK == shown = [u \in DOMAIN Items |-> shown[u]] /\ \A u \in DOMAIN Items : shown[u] \in 0..Len(Items[u])

LEMMA FeedIs ==
    ASSUME NEW u \in DOMAIN Items, NEW n \in 0..Len(Items[u])
    PROVE  IsSequence(Feed(u, n))
<1> DEFINE from == IF n > Window THEN n - Window + 1 ELSE 1
<1>1. IsSequence(Items[u])
  BY IngestionAssumption DEF IsSequence
<1>2. Len(Items[u]) \in Nat /\ DOMAIN Items[u] = 1..Len(Items[u])
  BY <1>1, LenProperties DEF IsSequence
<1>3. from \in Int /\ n \in Int /\ from >= 1 /\ n <= Len(Items[u])
  BY <1>2, IngestionAssumption
<1>4. Feed(u, n) = SubSeq(Items[u], from, n)
  BY DEF Feed
<1> HIDE DEF from
<1>5. \A k \in from..n : Items[u][k] \in ToSet(Items[u])
  BY <1>2, <1>3 DEF ToSet
<1>6. SubSeq(Items[u], from, n) \in Seq(ToSet(Items[u]))
  BY <1>3, <1>5, SubSeqProperties
<1> QED  BY <1>4, <1>6, SequenceIs

(* A poll gives a sequence of documents, whatever the adapter.             *)
LEMMA PollAtGives ==
    ASSUME NEW s, s.type \in SourceType, NEW n \in Nat,
           Endpoint(s) \in DOMAIN Items => n \in 0..Len(Items[Endpoint(s)])
    PROVE  IsSequence(PollAt(s, n).documents)
<1>1. IsSequence(Failed.documents)
  BY EmptySeq DEF Failed, IsSequence
<1>2. CASE s.type = "static"
  <2> DEFINE text == IF s.url = None THEN Blank ELSE Head(s.url)
  <2>1. PollAt(s, n) = StaticPoll(text, Now)
    BY <1>2 DEF PollAt
  <2> HIDE DEF text
  <2>2. IsSequence(<<DocumentInput(<<"fixture-1">>, None, <<text>>, None)>>)
    BY SequenceIs, <<DocumentInput(<<"fixture-1">>, None, <<text>>, None)>>
                     \in Seq({DocumentInput(<<"fixture-1">>, None, <<text>>, None)})
  <2> DEFINE poll1 == Polled(<<DocumentInput(<<"fixture-1">>, None, <<text>>, None)>>)
  <2>3. IsSequence(poll1.documents)
    BY <2>2, PolledGives
  <2>4. StaticPoll(text, Now) = IF poll1.ok THEN [poll1 EXCEPT !.cursor = Now] ELSE Failed
    BY DEF StaticPoll
  <2>6. poll1 = [ok |-> poll1.ok, documents |-> poll1.documents, cursor |-> poll1.cursor]
    BY DEF Polled, Failed
  <2> HIDE DEF poll1
  <2>5. [poll1 EXCEPT !.cursor = Now].documents = poll1.documents
    BY <2>6
  <2> QED  BY <1>1, <2>1, <2>3, <2>4, <2>5
<1>3. CASE s.type # "static" /\ ~Answers(s, n)
  BY <1>1, <1>3 DEF PollAt
<1>4. CASE s.type # "static" /\ Answers(s, n)
  <2>1. CASE s.type = "web"
    <3> DEFINE text == Last(Feed(s.url, n))
    <3>1. PollAt(s, n) = Polled(<<DocumentInput(s.url, s.url, <<text>>, Now)>>)
      BY <1>4, <2>1 DEF PollAt, WebPoll
    <3> HIDE DEF text
    <3>2. IsSequence(<<DocumentInput(s.url, s.url, <<text>>, Now)>>)
      BY SequenceIs, <<DocumentInput(s.url, s.url, <<text>>, Now)>>
                       \in Seq({DocumentInput(s.url, s.url, <<text>>, Now)})
    <3> QED  BY <3>1, <3>2, PolledGives
  <2>2. CASE s.type # "web"
    <3>1. PollAt(s, n) = ParsePoll(s.type, Feed(Endpoint(s), n), None)
      BY <1>4, <2>2 DEF PollAt
    <3>2. IsSequence(Feed(Endpoint(s), n))
      BY <1>4, FeedIs DEF Answers
    <3> QED  BY <1>4, <2>2, <3>1, <3>2, ParsedGives
  <2> QED  BY <2>1, <2>2
<1> QED  BY <1>2, <1>3, <1>4

LEMMA PollGives ==
    ASSUME ShownOK, NEW s \in Source \cup ToSet(WorkerSources)
    PROVE  IsSequence(PollOf(s).documents)
<1> DEFINE all == [u \in DOMAIN Items |-> Len(Items[u])]
           n == Published(s, shown)
<1>1. s.type \in SourceType
  BY RegistryAssumption, IngestionAssumption DEF Source
<1>2. n \in 0..Published(s, all) /\ n \in Nat /\ (Endpoint(s) \in DOMAIN Items => n \in 0..Len(Items[Endpoint(s)]))
  <2>1. DOMAIN shown = DOMAIN Items
    BY DEF ShownOK
  <2>2. CASE Endpoint(s) \in DOMAIN Items
    <3>1. n = shown[Endpoint(s)] /\ Published(s, all) = Len(Items[Endpoint(s)])
      BY <2>1, <2>2 DEF Published
    <3>2. shown[Endpoint(s)] \in 0..Len(Items[Endpoint(s)]) /\ Len(Items[Endpoint(s)]) \in Nat
      BY <2>2, IngestionAssumption, LenProperties DEF ShownOK
    <3> QED  BY <3>1, <3>2
  <2>3. CASE Endpoint(s) \notin DOMAIN Items
    <3>1. n = 0 /\ Published(s, all) = 0
      BY <2>1, <2>3 DEF Published
    <3> QED  BY <2>3, <3>1
  <2> QED  BY <2>2, <2>3
<1> DEFINE OutcomeOf(t, k) == [source |-> t, at |-> k, result |-> PollAt(t, k)]
           OutcomesOf(t) == {OutcomeOf(t, k) : k \in 0..Published(t, all)}
           T == Source \cup ToSet(WorkerSources)
<1>a. Outcomes = UNION {OutcomesOf(t) : t \in T}
  BY DEF Outcomes
<1> HIDE DEF n, T, all
<1>3. OutcomeOf(s, n) \in Outcomes
  <2>1. OutcomeOf(s, n) \in OutcomesOf(s)
    BY <1>2
  <2>2. OutcomesOf(s) \in {OutcomesOf(t) : t \in T}
    BY DEF T
  <2> HIDE DEF OutcomesOf
  <2> QED  BY <1>a, <2>1, <2>2
<1>4. ASSUME NEW o \in Outcomes, o.source = s, o.at = n  PROVE o.result = PollAt(s, n)
  <2>1. PICK t \in T : o \in OutcomesOf(t)
    BY <1>a
  <2>2. PICK k \in 0..Published(t, all) : o = OutcomeOf(t, k)
    BY <2>1
  <2> QED  BY <1>4, <2>2
<1>5. PollOf(s) = (CHOOSE o \in Outcomes : o.source = s /\ o.at = n).result
  BY DEF PollOf, n
<1> HIDE DEF OutcomeOf, OutcomesOf
<1>b. OutcomeOf(s, n).source = s /\ OutcomeOf(s, n).at = n
  BY DEF OutcomeOf
<1>6. \E o \in Outcomes : o.source = s /\ o.at = n
  BY <1>3, <1>b
<1>7. PollOf(s) = PollAt(s, n)
  BY <1>4, <1>5, <1>6
<1> QED  BY <1>1, <1>2, <1>7, PollAtGives

PollOK(q) ==
    /\ q = [step |-> q.step, source |-> q.source, left |-> q.left]
    /\ q.step \in {"idle", "fetching", "looking", "writing", "announcing"}
    /\ q.step = "fetching" => q.source \in Source \cup ToSet(WorkerSources)
    /\ IsSequence(q.left)
    /\ (q.left = <<>>) = (q.step \in {"idle", "fetching"})
PollsOK == poll = [p \in Pollers |-> poll[p]] /\ \A p \in Pollers : PollOK(poll[p])
(* Every file that can be read has the hash of a file that is listed.      *)
ArchiveOK ==
    /\ IsSequence(archive)
    /\ \A k \in DOMAIN archive : archive[k].by \in Pollers /\ archive[k].whole \in BOOLEAN
    /\ listed \subseteq DOMAIN archive
    /\ \A k \in DOMAIN archive : archive[k].whole => \E j \in listed : archive[j].body = archive[k].body

(* What a poller has come to with its document.                            *)
NotYetBy(p) ==
    \A k \in DOMAIN archive : archive[k].by = p =>
        /\ archive[k].body # Head(poll[p].left).body
        /\ archive[k].url = Head(poll[p].left).url => k \notin listed
Kept(d) == CanBeRead(d) \/ CutShort(d)
ThereAlready(p) == Kept(Head(poll[p].left))
PollersKnow ==
    \A p \in Pollers : /\ poll[p].step = "writing" => NotYetBy(p)
                       /\ poll[p].step = "announcing" => ThereAlready(p)
IngestionInv ==
    /\ RegistryInv /\ ShownOK /\ PollsOK /\ round \in 1..Len(WorkerSources) /\ ArchiveOK
    /\ PollersKnow /\ AnnouncedIsArchived /\ OneCopyPerPoller

LEMMA RestingOK == PollOK(Resting)
<1>1. IsSequence(<<>>)
  BY EmptySeq DEF IsSequence
<1> QED  BY <1>1 DEF PollOK, Resting

LEMMA RoundsOK == Len(WorkerSources) \in Nat \ {0} /\ DOMAIN WorkerSources = 1..Len(WorkerSources)
BY IngestionAssumption, LenProperties, EmptySeq

LEMMA IngestionInitHolds == IngestionInit => IngestionInv
<1> SUFFICES ASSUME IngestionInit  PROVE IngestionInv
  OBVIOUS
<1>1. RegistryInv
  BY RegistryInitHolds DEF IngestionInit
<1>2. ShownOK
  <2>1. \A u \in DOMAIN Items : 0 \in 0..Len(Items[u])
    BY IngestionAssumption, LenProperties
  <2> QED  BY <2>1 DEF IngestionInit, ShownOK
<1>3. PollsOK
  BY RestingOK DEF PollsOK, IngestionInit
<1>4. round \in 1..Len(WorkerSources)
  BY RoundsOK DEF IngestionInit
<1>5. archive = <<>> /\ listed = {} /\ announced = {}
  BY DEF IngestionInit
<1>6. ArchiveOK /\ OneCopyPerPoller
  BY <1>5, EmptySeq DEF ArchiveOK, IsSequence, OneCopyPerPoller
<1>7. PollersKnow /\ AnnouncedIsArchived
  BY <1>5 DEF PollersKnow, AnnouncedIsArchived, IngestionInit, Resting
<1> QED  BY <1>1, <1>2, <1>3, <1>4, <1>6, <1>7 DEF IngestionInv

(* One poller moves to what is again a poll.                               *)
LEMMA PollerMoves ==
    ASSUME PollsOK, NEW p \in Pollers, NEW q, PollOK(q), poll' = [poll EXCEPT ![p] = q]
    PROVE  /\ PollsOK'
           /\ poll'[p] = q /\ \A r \in Pollers \ {p} : poll'[r] = poll[r]
<1>1. poll'[p] = q /\ \A r \in Pollers \ {p} : poll'[r] = poll[r]
  BY DEF PollsOK
<1>2. poll' = [r \in Pollers |-> poll'[r]]
  BY DEF PollsOK
<1>3. \A r \in Pollers : PollOK(poll'[r])
  <2> HIDE DEF PollOK
  <2> QED  BY <1>1 DEF PollsOK
<1> QED  BY <1>1, <1>2, <1>3 DEF PollsOK, PollOK

LEMMA EndKeeps ==
    ASSUME PollsOK, round \in 1..Len(WorkerSources), NEW p \in Pollers, EndPoll(p)
    PROVE  /\ PollsOK' /\ round' \in 1..Len(WorkerSources)
           /\ poll'[p] = Resting /\ \A r \in Pollers \ {p} : poll'[r] = poll[r]
<1>1. poll' = [poll EXCEPT ![p] = Resting]
  BY DEF EndPoll
<1>2. round' \in 1..Len(WorkerSources)
  <2>1. round' = (round % Len(WorkerSources)) + 1 \/ round' = round
    BY DEF EndPoll
  <2>2. round % Len(WorkerSources) \in 0..(Len(WorkerSources) - 1)
    BY RoundsOK
  <2> QED  BY <2>1, <2>2, RoundsOK
<1> HIDE DEF Resting
<1> QED  BY <1>1, <1>2, RestingOK, PollerMoves

(* While the archive stays as it is, and what is announced is what a       *)
(* poller found there.                                                     *)
LEMMA ArchiveKept ==
    ASSUME IngestionInv, UNCHANGED <<archive, listed>>,
           \A d \in announced' \ announced : Kept(d)
    PROVE  ArchiveOK' /\ OneCopyPerPoller' /\ AnnouncedIsArchived'
<1>1. ArchiveOK' /\ OneCopyPerPoller'
  BY DEF IngestionInv, ArchiveOK, OneCopyPerPoller, IsSequence
<1>2. \A d \in announced' : Kept(d)
  BY DEF IngestionInv, AnnouncedIsArchived, Kept
<1>3. AnnouncedIsArchived'
  BY <1>2 DEF AnnouncedIsArchived, Kept, CanBeRead, CutShort, SameDocument
<1> QED  BY <1>1, <1>3

(* The other pollers know what they knew, as long as nothing is written.   *)
LEMMA OthersKnow ==
    ASSUME IngestionInv, NEW p \in Pollers, UNCHANGED <<archive, listed>>,
           \A r \in Pollers \ {p} : poll'[r] = poll[r],
           poll'[p].step = "writing" => NotYetBy(p)',
           poll'[p].step = "announcing" => ThereAlready(p)'
    PROVE  PollersKnow'
<1> SUFFICES ASSUME NEW r \in Pollers
             PROVE  /\ poll'[r].step = "writing" => NotYetBy(r)'
                    /\ poll'[r].step = "announcing" => ThereAlready(r)'
  BY DEF PollersKnow
<1>1. CASE r = p
  BY <1>1
<1>2. CASE r # p
  <2>1. poll'[r] = poll[r]
    BY <1>2
  <2>2. /\ poll[r].step = "writing" => NotYetBy(r)
        /\ poll[r].step = "announcing" => ThereAlready(r)
    BY DEF IngestionInv, PollersKnow
  <2>3. NotYetBy(r) => NotYetBy(r)'
    BY <2>1 DEF NotYetBy
  <2>4. ThereAlready(r) => ThereAlready(r)'
    BY <2>1 DEF ThereAlready, Kept, CanBeRead, CutShort, SameDocument
  <2> QED  BY <2>1, <2>2, <2>3, <2>4
<1> QED  BY <1>1, <1>2

LEMMA LongerThanOne ==
    ASSUME NEW S, NEW s \in Seq(S), s # <<>>, Len(s) # 1
    PROVE  Tail(s) \in Seq(S) /\ Len(Tail(s)) # 0
<1>1. Len(s) \in Nat /\ Len(s) # 0 /\ Tail(s) \in Seq(S) /\ Len(Tail(s)) = Len(s) - 1
  OBVIOUS
<1> QED  BY <1>1

(* Two fields of a poll at once.                                           *)
LEMMA StepAndSource ==
    ASSUME NEW a, NEW b, NEW c, NEW r, r = [step |-> a, source |-> b, left |-> c], NEW x, NEW y,
           NEW q, q = [r EXCEPT !.step = x, !.source = y]
    PROVE  q = [step |-> x, source |-> y, left |-> c]
OBVIOUS

LEMMA StepAndLeft ==
    ASSUME NEW a, NEW b, NEW c, NEW r, r = [step |-> a, source |-> b, left |-> c], NEW x, NEW y,
           NEW q, q = [r EXCEPT !.step = x, !.left = y]
    PROVE  q = [step |-> x, source |-> b, left |-> y]
OBVIOUS

(* What leaves the polls and the archive alone.                            *)
LEMMA PollsKept ==
    ASSUME IngestionInv, UNCHANGED <<poll, archive, listed, announced>>
    PROVE  PollsOK' /\ ArchiveOK' /\ PollersKnow' /\ OneCopyPerPoller' /\ AnnouncedIsArchived'
<1>1. PollsOK'
  BY DEF IngestionInv, PollsOK, PollOK, IsSequence
<1>2. ArchiveOK' /\ OneCopyPerPoller' /\ AnnouncedIsArchived'
  BY ArchiveKept
<1>3. PollersKnow'
  BY DEF IngestionInv, PollersKnow, NotYetBy, ThereAlready, Kept, CanBeRead, CutShort, SameDocument
<1> QED  BY <1>1, <1>2, <1>3

LEMMA RegistryAside ==
    ASSUME IngestionInv, UNCHANGED <<sources, file, request, alone, doubtful, changes>>,
           faults' = faults \/ Fault
    PROVE  RegistryInv'
<1>1. RegistryInv /\ changes \in 0..MaxChanges /\ faults \in 0..MaxFaults
  BY DEF IngestionInv, RegistryInv, RegistryTypeOK
<1>2. faults' \in 0..MaxFaults
  BY <1>1, FaultType
<1> QED  BY <1>1, <1>2, RegistryKept

LEMMA UpstreamKeeps ==
    ASSUME IngestionInv, NEW u \in DOMAIN Items, Upstream(u)
    PROVE  IngestionInv'
<1>1. UNCHANGED <<sources, file, request, alone, doubtful, changes, faults, poll, round, archive, listed, announced>>
  BY DEF Upstream, registryVars
<1>2. ShownOK'
  <2>1. shown[u] \in Nat /\ Len(Items[u]) \in Nat /\ shown[u] < Len(Items[u])
    BY IngestionAssumption, LenProperties DEF IngestionInv, ShownOK, Upstream
  <2>2. shown' = [shown EXCEPT ![u] = shown[u] + 1]
    BY DEF Upstream
  <2>3. shown' = [v \in DOMAIN Items |-> shown'[v]]
    BY <2>2 DEF IngestionInv, ShownOK
  <2>4. \A v \in DOMAIN Items : shown'[v] \in 0..Len(Items[v])
    BY <2>1, <2>2 DEF IngestionInv, ShownOK
  <2> QED  BY <2>3, <2>4 DEF ShownOK
<1>4. RegistryInv'
  BY <1>1, RegistryAside
<1>5. round' \in 1..Len(WorkerSources)
  BY <1>1 DEF IngestionInv
<1> QED  BY <1>1, <1>2, <1>4, <1>5, PollsKept DEF IngestionInv

LEMMA RegistryRequestKeeps ==
    ASSUME IngestionInv, NEW c \in Clients, RegistryStep(c), UNCHANGED pollVars
    PROVE  IngestionInv'
<1>1. UNCHANGED <<shown, poll, round, archive, listed, announced>>
  BY DEF pollVars
<1>2. RegistryInv'
  BY RegistryStepKeeps DEF IngestionInv
<1>3. ShownOK' /\ round' \in 1..Len(WorkerSources)
  BY <1>1 DEF IngestionInv, ShownOK
<1>4. PollsOK' /\ ArchiveOK' /\ PollersKnow' /\ OneCopyPerPoller' /\ AnnouncedIsArchived'
  BY <1>1, PollsKept
<1> QED  BY <1>2, <1>3, <1>4 DEF IngestionInv

(* A poller that goes on in whatever way, the archive left alone.          *)
LEMMA PollerKeeps ==
    ASSUME IngestionInv, NEW p \in Pollers,
           UNCHANGED <<sources, file, request, alone, doubtful, changes, shown, archive, listed>>,
           faults' = faults \/ Fault,
           PollsOK', round' \in 1..Len(WorkerSources),
           \A r \in Pollers \ {p} : poll'[r] = poll[r],
           poll'[p].step = "writing" => NotYetBy(p)',
           poll'[p].step = "announcing" => ThereAlready(p)',
           \A d \in announced' \ announced : Kept(d)
    PROVE  IngestionInv'
<1>1. ArchiveOK' /\ OneCopyPerPoller' /\ AnnouncedIsArchived'
  BY ArchiveKept
<1>2. PollersKnow'
  BY <1>1, OthersKnow
<1>3. RegistryInv' /\ ShownOK'
  BY RegistryAside DEF IngestionInv, ShownOK
<1> QED  BY <1>1, <1>2, <1>3 DEF IngestionInv

LEMMA BeginKeeps ==
    ASSUME IngestionInv, NEW p \in Pollers, NEW s \in Source \cup ToSet(WorkerSources), Begin(p, s),
           UNCHANGED <<registryVars, shown, round, archive, listed, announced>>
    PROVE  IngestionInv'
<1> DEFINE q == [Resting EXCEPT !.step = "fetching", !.source = s]
<1>1. q.step = "fetching" /\ q.source = s /\ q.left = <<>> /\ q = [step |-> q.step, source |-> q.source, left |-> q.left]
  <2> DEFINE nothing == <<>>
  <2>0. Resting = [step |-> "idle", source |-> None, left |-> nothing]
    BY DEF Resting
  <2>2. q = [Resting EXCEPT !.step = "fetching", !.source = s]
    OBVIOUS
  <2> HIDE DEF nothing, q
  <2>1. q = [step |-> "fetching", source |-> s, left |-> nothing]
    BY <2>0, <2>2, StepAndSource
  <2> QED  BY <2>1 DEF nothing
<1>2. poll' = [poll EXCEPT ![p] = q]
  BY DEF Begin
<1>3. IsSequence(<<>>)
  BY EmptySeq DEF IsSequence
<1> HIDE DEF q
<1>4. PollOK(q)
  BY <1>1, <1>3 DEF PollOK
<1>5. PollsOK
  BY DEF IngestionInv
<1>6. PollsOK' /\ poll'[p] = q /\ \A r \in Pollers \ {p} : poll'[r] = poll[r]
  BY <1>2, <1>4, <1>5, PollerMoves
<1>7. poll'[p].step = "fetching"
  BY <1>1, <1>6
<1>8. UNCHANGED <<sources, file, request, alone, doubtful, changes, shown, archive, listed>> /\ faults' = faults
  BY DEF registryVars
<1>9. round' \in 1..Len(WorkerSources) /\ announced' \ announced = {}
  BY DEF IngestionInv
<1> QED  BY <1>6, <1>7, <1>8, <1>9, PollerKeeps

LEMMA NextSourceKeeps == IngestionInv /\ NextSource => IngestionInv'
<1> SUFFICES ASSUME IngestionInv, NextSource  PROVE IngestionInv'
  OBVIOUS
<1>1. WorkerSources[round] \in ToSet(WorkerSources)
  BY RoundsOK DEF IngestionInv, ToSet
<1> QED  BY <1>1, BeginKeeps DEF NextSource, Pollers

LEMMA TriggerKeeps == ASSUME IngestionInv, NEW p \in Triggers, Trigger(p)  PROVE IngestionInv'
<1>1. PICK n \in Names : sources[n] # None /\ Begin(p, sources[n])
  BY DEF Trigger
<1>2. sources[n] \in Source
  BY <1>1 DEF IngestionInv, RegistryInv, RegistryTypeOK, Registry
<1>3. UNCHANGED <<registryVars, shown, round, archive, listed, announced>> /\ p \in Pollers
  BY DEF Trigger, Pollers
<1> QED  BY <1>1, <1>2, <1>3, BeginKeeps

LEMMA EndingKeeps ==
    ASSUME IngestionInv, NEW p \in Pollers, EndPoll(p), faults' = faults \/ Fault,
           UNCHANGED <<sources, file, request, alone, doubtful, changes, shown, archive, listed, announced>>
    PROVE  IngestionInv'
<1>1. PollsOK' /\ round' \in 1..Len(WorkerSources) /\ poll'[p] = Resting
      /\ \A r \in Pollers \ {p} : poll'[r] = poll[r]
  BY EndKeeps DEF IngestionInv
<1>2. poll'[p].step = "idle"
  BY <1>1 DEF Resting
<1> QED  BY <1>1, <1>2, PollerKeeps

LEMMA FetchKeeps == ASSUME IngestionInv, NEW p \in Pollers, Fetch(p)  PROVE IngestionInv'
<1> DEFINE result == IF Validates(poll[p].source) THEN PollOf(poll[p].source) ELSE Failed
           q == [step |-> "looking", source |-> None, left |-> result.documents]
<1>1. PollsOK /\ ShownOK /\ round \in 1..Len(WorkerSources)
  BY DEF IngestionInv
<1>2. IsSequence(result.documents)
  <2>1. poll[p].source \in Source \cup ToSet(WorkerSources)
    BY <1>1 DEF Fetch, PollsOK, PollOK
  <2>3. IsSequence(Failed.documents)
    BY EmptySeq DEF Failed, IsSequence
  <2>4. IsSequence(PollOf(poll[p].source).documents)
    BY <1>1, <2>1, PollGives
  <2> QED  BY <2>3, <2>4
<1>3. UNCHANGED <<sources, file, request, alone, doubtful, changes, shown, archive, listed, announced>>
  BY DEF Fetch
<1>4. \/ result.documents # <<>> /\ poll' = [poll EXCEPT ![p] = q] /\ UNCHANGED <<round, faults>>
      \/ EndPoll(p) /\ (faults' = faults \/ Fault)
  BY DEF Fetch
<1> HIDE DEF result
<1>5. CASE result.documents # <<>> /\ poll' = [poll EXCEPT ![p] = q] /\ UNCHANGED <<round, faults>>
  <2>1. PollOK(q)
    BY <1>2, <1>5 DEF PollOK
  <2>2. q.step = "looking"
    OBVIOUS
  <2> HIDE DEF q
  <2>3. PollsOK' /\ poll'[p] = q /\ \A r \in Pollers \ {p} : poll'[r] = poll[r]
    BY <1>1, <1>5, <2>1, PollerMoves
  <2>4. poll'[p].step = "looking"
    BY <2>2, <2>3
  <2>5. round' \in 1..Len(WorkerSources) /\ faults' = faults /\ announced' \ announced = {}
    BY <1>1, <1>3, <1>5
  <2> QED  BY <1>3, <2>3, <2>4, <2>5, PollerKeeps
<1>6. CASE EndPoll(p) /\ (faults' = faults \/ Fault)
  BY <1>3, <1>6, EndingKeeps
<1> QED  BY <1>4, <1>5, <1>6

(* What the looks of a poller tell it when every file can be read.         *)
LEMMA LookTells ==
    ASSUME IngestionInv, NEW p \in Pollers, ~Broken
    PROVE  /\ IsListed(Head(poll[p].left)) => ThereAlready(p)
           /\ ~IsListed(Head(poll[p].left)) => NotYetBy(p)
<1> DEFINE d == Head(poll[p].left)
<1>1. /\ listed \subseteq DOMAIN archive
      /\ \A k \in DOMAIN archive : archive[k].whole /\ \E j \in listed : archive[j].body = archive[k].body
  BY DEF IngestionInv, ArchiveOK, Broken
<1> HIDE DEF d
<1>2. IsListed(d) => CanBeRead(d)
  BY <1>1 DEF IsListed, CanBeRead
<1>3. ASSUME ~IsListed(d), NEW k \in DOMAIN archive
      PROVE  archive[k].body # d.body /\ (archive[k].url = d.url => k \notin listed)
  BY <1>1, <1>3 DEF IsListed, SameDocument
<1> QED  BY <1>2, <1>3 DEF ThereAlready, Kept, NotYetBy, d

LEMMA LookKeeps == ASSUME IngestionInv, NEW p \in Pollers, Look(p)  PROVE IngestionInv'
<1> DEFINE next == IF IsListed(Head(poll[p].left)) THEN "announcing" ELSE "writing"
           q == [poll[p] EXCEPT !.step = next]
<1>0. UNCHANGED <<sources, file, request, alone, doubtful, changes, shown, archive, listed, announced>>
  BY DEF Look
<1>1. PollsOK /\ round \in 1..Len(WorkerSources)
  BY DEF IngestionInv
<1>2. CASE ~Broken /\ poll' = [poll EXCEPT ![p].step = next] /\ UNCHANGED <<round, faults>>
  <2>1. (next = "announcing" /\ ThereAlready(p)) \/ (next = "writing" /\ NotYetBy(p))
    BY <1>2, LookTells
  <2>2. poll' = [poll EXCEPT ![p] = q]
    BY <1>1, <1>2 DEF PollsOK
  <2> HIDE DEF next
  <2>3. poll[p] = [step |-> "looking", source |-> poll[p].source, left |-> poll[p].left]
        /\ IsSequence(poll[p].left) /\ poll[p].left # <<>>
    BY <1>1 DEF PollsOK, PollOK, Look
  <2>4. q = [step |-> next, source |-> poll[p].source, left |-> poll[p].left]
    BY <2>3
  <2> HIDE DEF q
  <2>5. PollOK(q)
    BY <2>1, <2>3, <2>4 DEF PollOK
  <2>6. PollsOK' /\ poll'[p] = q /\ \A r \in Pollers \ {p} : poll'[r] = poll[r]
    BY <1>1, <2>2, <2>5, PollerMoves
  <2>7. poll'[p].step = next /\ poll'[p].left = poll[p].left
    BY <2>4, <2>6
  <2>8. poll'[p].step = "writing" => NotYetBy(p)'
    BY <1>0, <2>1, <2>7 DEF NotYetBy
  <2>9. poll'[p].step = "announcing" => ThereAlready(p)'
    BY <1>0, <2>1, <2>7 DEF ThereAlready, Kept, CanBeRead, CutShort, SameDocument
  <2>10. round' \in 1..Len(WorkerSources) /\ faults' = faults /\ announced' \ announced = {}
    BY <1>0, <1>1, <1>2
  <2> QED  BY <1>0, <2>6, <2>8, <2>9, <2>10, PollerKeeps
<1>3. CASE EndPoll(p) /\ (faults' = faults \/ Fault)
  BY <1>0, <1>3, EndingKeeps
<1> QED  BY <1>2, <1>3 DEF Look

LEMMA Appended ==
    ASSUME NEW s, IsSequence(s), NEW e
    PROVE  /\ IsSequence(Append(s, e)) /\ ToSet(Append(s, e)) = ToSet(s) \cup {e}
           /\ DOMAIN Append(s, e) = DOMAIN s \cup {Len(s) + 1}
           /\ \A k \in DOMAIN s : Append(s, e)[k] = s[k] /\ k <= Len(s)
           /\ Append(s, e)[Len(s) + 1] = e
           /\ Len(s) \in Nat /\ DOMAIN s = 1..Len(s)
<1> DEFINE S == ToSet(s) \cup {e}
           t == Append(s, e)
<1>1. s \in Seq(S) /\ e \in S
  BY SeqDef DEF IsSequence
<1>2. Len(s) \in Nat /\ DOMAIN s = 1..Len(s)
  BY <1>1, LenProperties
<1> HIDE DEF S
<1>3. /\ t \in Seq(S) /\ Len(t) = Len(s) + 1 /\ \A k \in 1..Len(s) : t[k] = s[k]
      /\ t[Len(s) + 1] = e
  BY <1>1, AppendProperties
<1>4. DOMAIN t = 1..(Len(s) + 1)
  BY <1>3, LenProperties
<1> HIDE DEF t
<1>5. DOMAIN t = DOMAIN s \cup {Len(s) + 1}
  BY <1>2, <1>4
<1>6. ToSet(t) = ToSet(s) \cup {e}
  BY <1>2, <1>3, <1>5 DEF ToSet
<1>7. IsSequence(t)
  BY <1>3, SequenceIs
<1>8. \A k \in DOMAIN s : t[k] = s[k] /\ k <= Len(s)
  BY <1>2, <1>3
<1> QED  BY <1>2, <1>3, <1>5, <1>6, <1>7, <1>8 DEF t

LEMMA WrittenKeeps ==
    ASSUME IngestionInv, NEW p \in Pollers, poll[p].step = "writing",
           NEW whole \in BOOLEAN,
           archive' = Append(archive, Written(p, Head(poll[p].left), whole)),
           listed' \subseteq listed \cup {Len(archive) + 1},
           \A k \in listed \ listed' : archive[k].body = Head(poll[p].left).body,
           whole => \/ Len(archive) + 1 \in listed'
                    \/ listed' = listed /\ \E k \in listed : archive[k].body = Head(poll[p].left).body,
           ~whole => listed' = listed,
           faults' = faults \/ Fault,
           poll' = [poll EXCEPT ![p].step = "announcing"],
           UNCHANGED <<sources, file, request, alone, doubtful, changes, shown, round, announced>>
    PROVE  IngestionInv'
<1> DEFINE h == Head(poll[p].left)
           w == Written(p, h, whole)
           n == Len(archive) + 1
           q == [poll[p] EXCEPT !.step = "announcing"]
<1>1. PollsOK /\ ArchiveOK /\ PollersKnow /\ AnnouncedIsArchived /\ OneCopyPerPoller
  BY DEF IngestionInv
<1>2. poll' = [poll EXCEPT ![p] = q]
  BY <1>1 DEF PollsOK
<1>3. poll[p] = [step |-> "writing", source |-> poll[p].source, left |-> poll[p].left]
      /\ IsSequence(poll[p].left) /\ poll[p].left # <<>>
  BY <1>1 DEF PollsOK, PollOK
<1>4. q = [step |-> "announcing", source |-> poll[p].source, left |-> poll[p].left]
  BY <1>3
<1> HIDE DEF q
<1>5. PollOK(q)
  BY <1>3, <1>4 DEF PollOK
<1>6. PollsOK' /\ poll'[p] = q /\ \A r \in Pollers \ {p} : poll'[r] = poll[r]
  BY <1>1, <1>2, <1>5, PollerMoves
<1>7. poll'[p].step = "announcing" /\ poll'[p].left = poll[p].left
  BY <1>4, <1>6
<1>8. w.by = p /\ w.url = h.url /\ w.body = h.body /\ w.whole = whole
  BY DEF Written
<1>9. archive' = Append(archive, w)
  OBVIOUS
<1>10. /\ IsSequence(archive) /\ listed \subseteq DOMAIN archive
       /\ \A k \in DOMAIN archive : archive[k].by \in Pollers /\ archive[k].whole \in BOOLEAN
       /\ \A k \in DOMAIN archive : archive[k].whole => \E j \in listed : archive[j].body = archive[k].body
  BY <1>1 DEF ArchiveOK
<1>a. /\ listed' \subseteq listed \cup {n}
      /\ \A k \in listed \ listed' : archive[k].body = h.body
      /\ whole => n \in listed' \/ (listed' = listed /\ \E k \in listed : archive[k].body = h.body)
      /\ ~whole => listed' = listed
  OBVIOUS
<1> HIDE DEF w, h
<1>11. /\ IsSequence(archive')
       /\ DOMAIN archive' = DOMAIN archive \cup {n}
       /\ \A k \in DOMAIN archive : archive'[k] = archive[k] /\ k <= Len(archive)
       /\ archive'[n] = w
       /\ Len(archive) \in Nat /\ DOMAIN archive = 1..Len(archive)
  BY <1>9, <1>10, Appended
<1>b. n \notin DOMAIN archive
  BY <1>11
<1> HIDE DEF n
<1>12. \A k \in DOMAIN archive : k \in DOMAIN archive' /\ archive'[k] = archive[k]
  BY <1>11
<1>13. ArchiveOK'
  <2>1. IsSequence(archive)'
    BY <1>11 DEF IsSequence
  <2>2. \A k \in DOMAIN archive' : archive'[k].by \in Pollers /\ archive'[k].whole \in BOOLEAN
    BY <1>8, <1>10, <1>11
  <2>3. listed' \subseteq DOMAIN archive'
    BY <1>a, <1>10, <1>11
  <2>4. ASSUME NEW k \in DOMAIN archive', archive'[k].whole
        PROVE  \E j \in listed' : archive'[j].body = archive'[k].body
    <3>1. CASE k = n
      <4>1. whole /\ archive'[k].body = h.body
        BY <1>8, <1>11, <2>4, <3>1
      <4>2. CASE n \in listed'
        BY <3>1, <4>2
      <4>3. CASE listed' = listed /\ \E j \in listed : archive[j].body = h.body
        <5>1. PICK j \in listed : archive[j].body = h.body
          BY <4>3
        <5>2. j \in listed' /\ archive'[j].body = h.body
          BY <1>10, <1>12, <4>3, <5>1
        <5> QED  BY <4>1, <5>2
      <4> QED  BY <1>a, <4>1, <4>2, <4>3
    <3>2. CASE k \in DOMAIN archive
      <4>1. PICK j \in listed : archive[j].body = archive[k].body
        BY <1>10, <1>12, <2>4, <3>2
      <4>2. j \in DOMAIN archive /\ archive'[j] = archive[j] /\ archive'[k] = archive[k]
        BY <1>10, <1>12, <3>2
      <4>3. CASE j \in listed'
        BY <4>1, <4>2, <4>3
      <4>4. CASE j \notin listed'
        <5>1. archive[j].body = h.body /\ whole /\ n \in listed'
          BY <1>a, <4>4
        <5>2. archive'[n].body = h.body
          BY <1>8, <1>11
        <5>3. archive'[n].body = archive'[k].body
          BY <4>1, <4>2, <5>1, <5>2
        <5> QED  BY <5>1, <5>3
      <4> QED  BY <4>3, <4>4
    <3> QED  BY <1>11, <3>1, <3>2
  <2> QED  BY <2>1, <2>2, <2>3, <2>4 DEF ArchiveOK
<1>c. \A k \in DOMAIN archive : k \notin listed => k \notin listed'
  BY <1>a, <1>b
<1>14. \A k \in DOMAIN archive : archive[k].by = p =>
           archive[k].body # h.body /\ (archive[k].url = h.url => k \notin listed)
  BY <1>1 DEF PollersKnow, NotYetBy, h
<1>15. OneCopyPerPoller'
  <2> SUFFICES ASSUME NEW i \in DOMAIN archive', NEW j \in DOMAIN archive', i < j,
                      archive'[i].by = archive'[j].by
               PROVE  /\ archive'[i].body # archive'[j].body
                      /\ archive'[i].url = archive'[j].url => i \notin listed'
    BY DEF OneCopyPerPoller
  <2>1. i \in DOMAIN archive /\ archive'[i] = archive[i]
    BY <1>11 DEF n
  <2>2. CASE j \in DOMAIN archive
    <3>1. archive'[j] = archive[j]
      BY <1>12, <2>2
    <3>2. archive[i].body # archive[j].body /\ (archive[i].url = archive[j].url => i \notin listed)
      BY <1>1, <2>1, <2>2, <3>1 DEF OneCopyPerPoller
    <3> QED  BY <1>c, <2>1, <3>1, <3>2
  <2>3. CASE j = n
    <3>1. archive[i].by = p /\ archive'[j].url = h.url /\ archive'[j].body = h.body
      BY <1>8, <1>11, <2>1, <2>3
    <3> QED  BY <1>14, <1>c, <2>1, <3>1
  <2> QED  BY <1>11, <2>2, <2>3
<1>d. \A d : Kept(d) => Kept(d)'
  BY <1>12 DEF Kept, CanBeRead, CutShort, SameDocument
<1>16. PollersKnow'
  <2> SUFFICES ASSUME NEW r \in Pollers
               PROVE  /\ poll'[r].step = "writing" => NotYetBy(r)'
                      /\ poll'[r].step = "announcing" => ThereAlready(r)'
    BY DEF PollersKnow
  <2>1. CASE r = p
    <3>1. Head(poll'[p].left).url = w.url /\ Head(poll'[p].left).body = w.body
      BY <1>7, <1>8 DEF h
    <3>2. n \in DOMAIN archive' /\ archive'[n] = w /\ w.whole \in BOOLEAN
      BY <1>8, <1>11
    <3>3. ThereAlready(p)'
      BY <3>1, <3>2 DEF ThereAlready, Kept, CanBeRead, CutShort, SameDocument
    <3> QED  BY <1>7, <2>1, <3>3
  <2>2. CASE r # p
    <3>1. poll'[r] = poll[r]
      BY <1>6, <2>2
    <3>2. poll[r].step = "writing" => NotYetBy(r)
      BY <1>1 DEF PollersKnow
    <3>3. poll[r].step = "announcing" => ThereAlready(r)
      BY <1>1 DEF PollersKnow
    <3>4. NotYetBy(r) => NotYetBy(r)'
      <4> SUFFICES ASSUME NotYetBy(r), NEW k \in DOMAIN archive', archive'[k].by = r
                   PROVE  /\ archive'[k].body # Head(poll[r].left).body
                          /\ archive'[k].url = Head(poll[r].left).url => k \notin listed'
        BY <3>1 DEF NotYetBy
      <4>1. k \in DOMAIN archive /\ archive'[k] = archive[k]
        BY <1>8, <1>11, <2>2
      <4> QED  BY <1>c, <4>1 DEF NotYetBy
    <3>5. ThereAlready(r) => ThereAlready(r)'
      BY <1>d, <3>1 DEF ThereAlready
    <3> QED  BY <3>1, <3>2, <3>3, <3>4, <3>5
  <2> QED  BY <2>1, <2>2
<1>17. AnnouncedIsArchived'
  BY <1>1, <1>d DEF AnnouncedIsArchived, Kept
<1>18. RegistryInv' /\ ShownOK' /\ round' \in 1..Len(WorkerSources)
  BY RegistryAside DEF IngestionInv, ShownOK
<1> QED  BY <1>6, <1>13, <1>15, <1>16, <1>17, <1>18 DEF IngestionInv

LEMMA WriteKeeps == ASSUME IngestionInv, NEW p \in Pollers, WriteDocument(p)  PROVE IngestionInv'
<1> DEFINE d == Head(poll[p].left)
<1>1. UNCHANGED <<sources, file, request, alone, doubtful, changes, shown, announced>> /\ poll[p].step = "writing"
  BY DEF WriteDocument
<1>2. CASE NewFile(p, d) /\ poll' = [poll EXCEPT ![p].step = "announcing"] /\ UNCHANGED <<round, faults>>
  <2> DEFINE same == {k \in listed : archive[k].body = d.body}
  <2>1. archive' = Append(archive, Written(p, d, TRUE))
    BY <1>2 DEF NewFile
  <2>2. \/ listed' = (listed \ same) \cup {Len(archive) + 1}
        \/ same # {} /\ listed' = listed
    BY <1>2 DEF NewFile
  <2>3. /\ listed' \subseteq listed \cup {Len(archive) + 1}
        /\ \A k \in listed \ listed' : archive[k].body = d.body
        /\ \/ Len(archive) + 1 \in listed'
           \/ listed' = listed /\ \E k \in listed : archive[k].body = d.body
    BY <2>2
  <2> QED  BY <1>1, <1>2, <2>1, <2>3, WrittenKeeps
<1>3. CASE /\ Fault /\ archive' = Append(archive, Written(p, d, FALSE)) /\ UNCHANGED <<round, listed>>
           /\ poll' = [poll EXCEPT ![p].step = "announcing"]
  BY <1>1, <1>3, WrittenKeeps
<1>4. CASE Fault /\ EndPoll(p) /\ UNCHANGED <<archive, listed>>
  BY <1>1, <1>4, EndingKeeps
<1> QED  BY <1>2, <1>3, <1>4 DEF WriteDocument

LEMMA AnnounceKeeps == ASSUME IngestionInv, NEW p \in Pollers, Announce(p)  PROVE IngestionInv'
<1>1. UNCHANGED <<sources, file, request, alone, doubtful, changes, shown, archive, listed>> /\ poll[p].step = "announcing"
  BY DEF Announce
<1>2. PollsOK /\ round \in 1..Len(WorkerSources)
  BY DEF IngestionInv
<1>3. CASE announced' = announced \cup {Head(poll[p].left)} /\ UNCHANGED faults
  <2>1. \A d \in announced' \ announced : Kept(d)
    BY <1>1, <1>3 DEF IngestionInv, PollersKnow, ThereAlready
  <2>2. CASE EndPoll(p)
    <3>1. PollsOK' /\ round' \in 1..Len(WorkerSources) /\ poll'[p] = Resting
          /\ \A r \in Pollers \ {p} : poll'[r] = poll[r]
      BY <1>2, <2>2, EndKeeps
    <3>2. poll'[p].step = "idle"
      BY <3>1 DEF Resting
    <3> QED  BY <1>1, <1>3, <2>1, <3>1, <3>2, PollerKeeps
  <2>3. CASE /\ Len(poll[p].left) # 1 /\ UNCHANGED round
             /\ poll' = [poll EXCEPT ![p].step = "looking", ![p].left = Tail(@)]
    <3> DEFINE q == [poll[p] EXCEPT !.step = "looking", !.left = Tail(poll[p].left)]
    <3>1. poll' = [poll EXCEPT ![p] = q]
      BY <1>2, <2>3 DEF PollsOK
    <3>2. poll[p] = [step |-> "announcing", source |-> poll[p].source, left |-> poll[p].left]
          /\ IsSequence(poll[p].left) /\ poll[p].left # <<>>
      BY <1>1, <1>2 DEF PollsOK, PollOK
    <3>3. q = [step |-> "looking", source |-> poll[p].source, left |-> Tail(poll[p].left)]
      <4> DEFINE rest == Tail(poll[p].left)
      <4>1. q = [poll[p] EXCEPT !.step = "looking", !.left = rest]
        OBVIOUS
      <4> HIDE DEF rest, q
      <4>2. q = [step |-> "looking", source |-> poll[p].source, left |-> rest]
        BY <3>2, <4>1, StepAndLeft
      <4> QED  BY <4>2 DEF rest
    <3> HIDE DEF q
    <3>4. Tail(poll[p].left) \in Seq(ToSet(poll[p].left)) /\ Len(Tail(poll[p].left)) # 0
      BY <2>3, <3>2, LongerThanOne DEF IsSequence
    <3>5. IsSequence(Tail(poll[p].left)) /\ Tail(poll[p].left) # <<>>
      BY <3>4, SequenceIs, EmptySeq
    <3>6. PollOK(q)
      BY <3>3, <3>5 DEF PollOK
    <3>7. PollsOK' /\ poll'[p] = q /\ \A r \in Pollers \ {p} : poll'[r] = poll[r]
      BY <1>2, <3>1, <3>6, PollerMoves
    <3>8. poll'[p].step = "looking"
      BY <3>3, <3>7
    <3>9. round' \in 1..Len(WorkerSources) /\ faults' = faults
      BY <1>2, <1>3, <2>3
    <3> QED  BY <1>1, <2>1, <3>7, <3>8, <3>9, PollerKeeps
  <2> QED  BY <1>3, <2>2, <2>3 DEF Announce
<1>4. CASE Fault /\ EndPoll(p) /\ UNCHANGED announced
  BY <1>1, <1>4, EndingKeeps
<1> QED  BY <1>3, <1>4 DEF Announce

LEMMA IngestionRestartKeeps == IngestionInv /\ IngestionRestart => IngestionInv'
<1> SUFFICES ASSUME IngestionInv, IngestionRestart  PROVE IngestionInv'
  OBVIOUS
<1>1. RegistryInv'
  BY RegistryRestartKeeps DEF IngestionInv, IngestionRestart
<1>2. UNCHANGED <<shown, archive, listed, announced>> /\ poll' = [p \in Pollers |-> Resting] /\ round' = 1
  BY DEF IngestionRestart
<1>3. PollsOK'
  <2>1. \A p \in Pollers : poll'[p] = Resting
    BY <1>2
  <2> HIDE DEF Resting
  <2>2. \A p \in Pollers : PollOK(poll[p])'
    BY <2>1, RestingOK DEF PollOK
  <2>3. poll' = [p \in Pollers |-> poll'[p]]
    BY <1>2
  <2> QED  BY <2>2, <2>3 DEF PollsOK
<1>4. PollersKnow'
  BY <1>2 DEF PollersKnow, Resting
<1>5. ArchiveOK' /\ OneCopyPerPoller' /\ AnnouncedIsArchived'
  BY <1>2, ArchiveKept
<1>6. ShownOK' /\ round' \in 1..Len(WorkerSources)
  BY <1>2, RoundsOK DEF IngestionInv, ShownOK
<1> QED  BY <1>1, <1>3, <1>4, <1>5, <1>6 DEF IngestionInv

LEMMA IngestionKeeps == IngestionInv /\ [IngestionNext]_ingestionVars => IngestionInv'
<1> SUFFICES ASSUME IngestionInv, [IngestionNext]_ingestionVars  PROVE IngestionInv'
  OBVIOUS
<1>1. ASSUME NEW u \in DOMAIN Items, Upstream(u)  PROVE IngestionInv'
  BY <1>1, UpstreamKeeps
<1>2. ASSUME NEW c \in Clients, RegistryStep(c), UNCHANGED pollVars  PROVE IngestionInv'
  BY <1>2, RegistryRequestKeeps
<1>3. ASSUME NEW p \in Triggers, Trigger(p)  PROVE IngestionInv'
  BY <1>3, TriggerKeeps
<1>4. ASSUME NEW p \in Pollers, PollStep(p)  PROVE IngestionInv'
  BY <1>4, NextSourceKeeps, FetchKeeps, LookKeeps, WriteKeeps, AnnounceKeeps DEF PollStep
<1>5. CASE IngestionRestart
  BY <1>5, IngestionRestartKeeps
<1>6. CASE UNCHANGED ingestionVars
  <2>1. UNCHANGED <<sources, file, request, alone, doubtful, changes, faults, shown, poll, round, archive, listed, announced>>
    BY <1>6 DEF ingestionVars, registryVars, pollVars
  <2>2. PollsOK' /\ ArchiveOK' /\ PollersKnow' /\ OneCopyPerPoller' /\ AnnouncedIsArchived'
    BY <2>1, PollsKept
  <2>3. ShownOK' /\ round' \in 1..Len(WorkerSources)
    BY <2>1 DEF IngestionInv, ShownOK
  <2>4. RegistryInv'
    BY <2>1, RegistryAside
  <2> QED  BY <2>2, <2>3, <2>4 DEF IngestionInv
<1> QED  BY <1>1, <1>2, <1>3, <1>4, <1>5, <1>6 DEF IngestionNext

(* The inductive invariant holds of every poll beside every change of the  *)
(* registry.                                                               *)
THEOREM IngestionCorrect == IngestionSpec => []IngestionInv
BY IngestionInitHolds, IngestionKeeps, PTL DEF IngestionSpec

(* A poller's state, the archive and what is shown are what their types say, *)
(* for any sources, items and pollers (IngestionTypeOK).                   *)
THEOREM IngestionTypeCorrect == IngestionSpec => []IngestionTypeOK
<1>1. IngestionInv => IngestionTypeOK
  BY DEF IngestionInv, IngestionTypeOK, RegistryInv, ShownOK, PollsOK, PollOK, ArchiveOK
<1> QED  BY <1>1, IngestionCorrect, PTL

(* What is announced can be read from disk, the document itself or one     *)
(* save_document took for it, or its own file was cut short unnoticed when *)
(* it was written (AnnouncedIsArchived).                                   *)
THEOREM AnnouncedIsArchivedHolds == IngestionSpec => []AnnouncedIsArchived
<1>1. IngestionInv => AnnouncedIsArchived
  BY DEF IngestionInv
<1> QED  BY <1>1, IngestionCorrect, PTL

(* No poller ever writes a body twice, and an url only when its own file   *)
(* with it is hidden behind another's, however the looks and writes of     *)
(* save_document interleave (OneCopyPerPoller).                            *)
THEOREM OneCopyPerPollerHolds == IngestionSpec => []OneCopyPerPoller
<1>1. IngestionInv => OneCopyPerPoller
  BY DEF IngestionInv
<1> QED  BY <1>1, IngestionCorrect, PTL

-----------------------------------------------------------------------------
(* What the extraction gives: sequences, with the fields that are read.    *)

(* What a filter leaves of a sequence.                                     *)
LEMMA FilterLeaves ==
    ASSUME NEW s, IsSequence(s), NEW K, NEW t,
           \E f : IsFilter(f, s, K) /\ t = f[Len(s)]
    PROVE  IsSequence(t) /\ ToSet(t) = ToSet(s) \cap K /\ ToSet(t) \subseteq ToSet(s)
<1>1. PICK f : IsFilter(f, s, K) /\ t = f[Len(s)]
  OBVIOUS
<1>2. s \in Seq(ToSet(s))
  BY DEF IsSequence
<1>3. t \in Seq(ToSet(s)) /\ ToSet(t) = ToSet(s) \cap K
  BY <1>1, <1>2, FilterGives
<1> QED  BY <1>3, SequenceIs

(* A sequence made from another place by place.                            *)
LEMMA MadeFrom ==
    ASSUME NEW s, IsSequence(s), NEW t, DOMAIN t = DOMAIN s, t = [k \in DOMAIN t |-> t[k]]
    PROVE  IsSequence(t) /\ Len(t) = Len(s)
<1>1. Len(s) \in Nat /\ DOMAIN s = 1..Len(s)
  BY LenProperties DEF IsSequence
<1>2. IsSequence(t)
  BY <1>1, FunctionIs
<1>3. Len(t) \in Nat /\ DOMAIN t = 1..Len(t)
  BY <1>2, LenProperties DEF IsSequence
<1> QED  BY <1>1, <1>2, <1>3

(* extract_entities.                                                      *)
LEMMA CapturesGive ==
    ASSUME NEW list, IsSequence(list)
    PROVE  LET decoded == Filtered(list, LAMBDA n : Letters[n] > 2 /\ n \notin Noise)
           IN  IsSequence(decoded) /\ ToSet(decoded) \subseteq ToSet(list)
<1> DEFINE K == {n \in ToSet(list) : Letters[n] > 2 /\ n \notin Noise}
           P(k) == Letters[list[k]] > 2 /\ list[k] \notin Noise
           decoded == Filtered(list, LAMBDA n : Letters[n] > 2 /\ n \notin Noise)
<1>1. \A k \in 1..Len(list) : list[k] \in K <=> P(k)
  BY LenProperties DEF IsSequence, ToSet
<1> HIDE DEF P, K
<1>2. \A f : IsFilter(f, list, K) <=>
         f = [k \in 0..Len(list) |-> IF k = 0 THEN <<>>
              ELSE IF P(k) THEN Append(f[k - 1], list[k]) ELSE f[k - 1]]
  BY <1>1, LenProperties DEF IsFilter, IsSequence
<1>3. \E f : IsFilter(f, list, K) /\ decoded = f[Len(list)]
  BY <1>2, FilterExists DEF Filtered, IsSequence, P
<1> HIDE DEF decoded
<1>4. IsSequence(decoded) /\ ToSet(decoded) \subseteq ToSet(list)
  BY <1>3, FilterLeaves
<1> QED  BY <1>4 DEF decoded

(* chunk_body.                                                            *)
LEMMA ChunksGive ==
    ASSUME NEW list, IsSequence(list)
    PROVE  LET decoded == Filtered(list, LAMBDA s : s.length > 0)
           IN  IsSequence(decoded) /\ ToSet(decoded) \subseteq ToSet(list)
<1> DEFINE K == {s \in ToSet(list) : s.length > 0}
           P(k) == list[k].length > 0
           decoded == Filtered(list, LAMBDA s : s.length > 0)
<1>1. \A k \in 1..Len(list) : list[k] \in K <=> P(k)
  BY LenProperties DEF IsSequence, ToSet
<1> HIDE DEF P, K
<1>2. \A f : IsFilter(f, list, K) <=>
         f = [k \in 0..Len(list) |-> IF k = 0 THEN <<>>
              ELSE IF P(k) THEN Append(f[k - 1], list[k]) ELSE f[k - 1]]
  BY <1>1, LenProperties DEF IsFilter, IsSequence
<1>3. \E f : IsFilter(f, list, K) /\ decoded = f[Len(list)]
  BY <1>2, FilterExists DEF Filtered, IsSequence, P
<1> HIDE DEF decoded
<1>4. IsSequence(decoded) /\ ToSet(decoded) \subseteq ToSet(list)
  BY <1>3, FilterLeaves
<1> QED  BY <1>4 DEF decoded

(* decode_entities.                                                       *)
LEMMA DecodedEntitiesGive ==
    ASSUME NEW list, IsSequence(list)
    PROVE  LET decoded == Filtered(list, LAMBDA v : v.name \notin {None, ""})
           IN  IsSequence(decoded) /\ ToSet(decoded) \subseteq ToSet(list)
<1> DEFINE K == {v \in ToSet(list) : v.name \notin {None, ""}}
           P(k) == list[k].name \notin {None, ""}
           decoded == Filtered(list, LAMBDA v : v.name \notin {None, ""})
<1>1. \A k \in 1..Len(list) : list[k] \in K <=> P(k)
  BY LenProperties DEF IsSequence, ToSet
<1> HIDE DEF P, K
<1>2. \A f : IsFilter(f, list, K) <=>
         f = [k \in 0..Len(list) |-> IF k = 0 THEN <<>>
              ELSE IF P(k) THEN Append(f[k - 1], list[k]) ELSE f[k - 1]]
  BY <1>1, LenProperties DEF IsFilter, IsSequence
<1>3. \E f : IsFilter(f, list, K) /\ decoded = f[Len(list)]
  BY <1>2, FilterExists DEF Filtered, IsSequence, P
<1> HIDE DEF decoded
<1>4. IsSequence(decoded) /\ ToSet(decoded) \subseteq ToSet(list)
  BY <1>3, FilterLeaves
<1> QED  BY <1>4 DEF decoded

(* decode_relationships.                                                  *)
LEMMA DecodedRelationshipsGive ==
    ASSUME NEW list, IsSequence(list)
    PROVE  LET decoded == Filtered(list, LAMBDA v : v.from # None /\ v.to # None)
           IN  IsSequence(decoded) /\ ToSet(decoded) \subseteq ToSet(list)
<1> DEFINE K == {v \in ToSet(list) : v.from # None /\ v.to # None}
           P(k) == list[k].from # None /\ list[k].to # None
           decoded == Filtered(list, LAMBDA v : v.from # None /\ v.to # None)
<1>1. \A k \in 1..Len(list) : list[k] \in K <=> P(k)
  BY LenProperties DEF IsSequence, ToSet
<1> HIDE DEF P, K
<1>2. \A f : IsFilter(f, list, K) <=>
         f = [k \in 0..Len(list) |-> IF k = 0 THEN <<>>
              ELSE IF P(k) THEN Append(f[k - 1], list[k]) ELSE f[k - 1]]
  BY <1>1, LenProperties DEF IsFilter, IsSequence
<1>3. \E f : IsFilter(f, list, K) /\ decoded = f[Len(list)]
  BY <1>2, FilterExists DEF Filtered, IsSequence, P
<1> HIDE DEF decoded
<1>4. IsSequence(decoded) /\ ToSet(decoded) \subseteq ToSet(list)
  BY <1>3, FilterLeaves
<1> QED  BY <1>4 DEF decoded

IsFlatten(f, ss) == f = [i \in 1..Len(ss) |-> IF i = 1 THEN ss[i] ELSE f[i-1] \o ss[i]]

LEMMA FlattenExists ==
    ASSUME NEW S, NEW ss \in Seq(Seq(S))
    PROVE  \E f : IsFlatten(f, ss)
<1> DEFINE n == Len(ss)
           V == Seq(S)
           step == [k \in 1..n |-> [t \in V |-> IF k = 1 THEN ss[k] ELSE t \o ss[k]]]
<1>1. n \in Nat /\ <<>> \in V
  BY LenProperties, EmptySeq
<1>2. \A k \in 1..n : ss[k] \in V
  BY ElementOfSeq
<1>3. step \in [1..n -> [V -> V]]
  <2> SUFFICES ASSUME NEW k \in 1..n, NEW t \in V
               PROVE (IF k = 1 THEN ss[k] ELSE t \o ss[k]) \in V
    OBVIOUS
  <2> QED  BY <1>2, ConcatProperties
<1>4. PICK f : Computes(f, n, V, <<>>, step)
  <2> HIDE DEF n, V, step
  <2> QED  BY <1>1, <1>3, Recursion DEF IsStep
<1>5. f \in [0..n -> V] /\ \A k \in 1..n : f[k] = step[k][f[k - 1]]
  BY <1>4 DEF Computes
<1> DEFINE g == [k \in 1..n |-> f[k]]
<1>6. \A k \in 1..n : g[k] = IF k = 1 THEN ss[k] ELSE g[k - 1] \o ss[k]
  <2> SUFFICES ASSUME NEW k \in 1..n  PROVE f[k] = IF k = 1 THEN ss[k] ELSE g[k - 1] \o ss[k]
    OBVIOUS
  <2>1. k - 1 \in 0..n /\ f[k - 1] \in V
    <3> HIDE DEF n, V, step
    <3> QED  BY <1>1, <1>5
  <2>2. f[k] = IF k = 1 THEN ss[k] ELSE f[k - 1] \o ss[k]
    BY <1>5, <2>1
  <2>3. k # 1 => k - 1 \in 1..n
    BY <1>1
  <2> QED  BY <2>2, <2>3
<1>7. IsFlatten(g, ss)
  <2>1. g = [k \in 1..n |-> g[k]]
    OBVIOUS
  <2> HIDE DEF g, step
  <2> QED  BY <1>6, <2>1 DEF IsFlatten
<1> QED  BY <1>7

LEMMA FlattenGives ==
    ASSUME NEW S, NEW ss \in Seq(Seq(S))
    PROVE  FlattenSeq(ss) \in Seq(S)
<1>1. CASE Len(ss) = 0
  <2>1. ss = <<>>
    BY <1>1, EmptySeq
  <2> QED  BY <1>1, <2>1, EmptySeq DEF FlattenSeq
<1>2. CASE Len(ss) # 0
  <2>1. PICK f : IsFlatten(f, ss) /\ FlattenSeq(ss) = f[Len(ss)]
    BY <1>2, FlattenExists DEF FlattenSeq, IsFlatten
  <2>2. Len(ss) \in Nat /\ \A k \in 1..Len(ss) : ss[k] \in Seq(S)
    BY LenProperties, ElementOfSeq
  <2> DEFINE G == {k \in 0..Len(ss) : k # 0 => f[k] \in Seq(S)}
  <2>3. 0 \in G
    BY <2>2
  <2>4. ASSUME NEW k \in 0..(Len(ss) - 1), k \in G  PROVE k + 1 \in G
    <3>1. k + 1 \in 1..Len(ss) /\ (k + 1) - 1 = k
      BY <2>2
    <3>2. f[k + 1] = IF k + 1 = 1 THEN ss[k + 1] ELSE f[(k + 1) - 1] \o ss[k + 1]
      BY <2>1, <3>1 DEF IsFlatten
    <3>3. f[k + 1] \in Seq(S)
      BY <2>2, <2>4, <3>1, <3>2, ConcatProperties
    <3> QED  BY <3>1, <3>3
  <2>5. 0..Len(ss) \subseteq G
    <3> HIDE DEF G
    <3> QED  BY <2>2, <2>3, <2>4, Induction
  <2>6. Len(ss) \in G
    <3> HIDE DEF G
    <3> QED  BY <2>2, <2>5, Len(ss) \in 0..Len(ss)
  <2> QED  BY <1>2, <2>1, <2>6
<1> QED  BY <1>1, <1>2

(* Lists as long as each other make lists as long as each other.           *)
LEMMA FlattenLen ==
    ASSUME NEW S, NEW ss \in Seq(Seq(S)), NEW T, NEW tt \in Seq(Seq(T)), Len(ss) = Len(tt),
           \A i \in 1..Len(ss) : Len(ss[i]) = Len(tt[i])
    PROVE  Len(FlattenSeq(ss)) = Len(FlattenSeq(tt))
<1>1. CASE Len(ss) = 0
  <2>1. ss = <<>> /\ tt = <<>>
    BY <1>1, EmptySeq
  <2> QED  BY <2>1
<1>2. CASE Len(ss) # 0
  <2>1. PICK f : IsFlatten(f, ss) /\ FlattenSeq(ss) = f[Len(ss)]
    BY <1>2, FlattenExists DEF FlattenSeq, IsFlatten
  <2>2. PICK g : IsFlatten(g, tt) /\ FlattenSeq(tt) = g[Len(tt)]
    BY <1>2, FlattenExists DEF FlattenSeq, IsFlatten
  <2>3. Len(ss) \in Nat /\ \A k \in 1..Len(ss) : ss[k] \in Seq(S) /\ tt[k] \in Seq(T)
    BY LenProperties, ElementOfSeq
  <2> DEFINE G == {k \in 0..Len(ss) : k # 0 => f[k] \in Seq(S) /\ g[k] \in Seq(T) /\ Len(f[k]) = Len(g[k])}
  <2>4. 0 \in G
    BY <2>3
  <2>5. ASSUME NEW k \in 0..(Len(ss) - 1), k \in G  PROVE k + 1 \in G
    <3>1. k + 1 \in 1..Len(ss) /\ (k + 1) - 1 = k
      BY <2>3
    <3>2. f[k + 1] = IF k + 1 = 1 THEN ss[k + 1] ELSE f[(k + 1) - 1] \o ss[k + 1]
      BY <2>1, <3>1 DEF IsFlatten
    <3>3. g[k + 1] = IF k + 1 = 1 THEN tt[k + 1] ELSE g[(k + 1) - 1] \o tt[k + 1]
      BY <2>2, <3>1 DEF IsFlatten
    <3>4. CASE k = 0
      BY <2>3, <3>1, <3>2, <3>3, <3>4
    <3>5. CASE k # 0
      <4>1. f[k] \in Seq(S) /\ g[k] \in Seq(T) /\ Len(f[k]) = Len(g[k])
        BY <2>5, <3>5
      <4>2. f[k + 1] = f[k] \o ss[k + 1]
        <5>1. k + 1 # 1 /\ f[(k + 1) - 1] = f[k]
          BY <3>1, <3>5
        <5> QED  BY <3>2, <5>1
      <4>3. g[k + 1] = g[k] \o tt[k + 1]
        <5>1. k + 1 # 1 /\ g[(k + 1) - 1] = g[k]
          BY <3>1, <3>5
        <5> QED  BY <3>3, <5>1
      <4>4. /\ f[k] \o ss[k + 1] \in Seq(S) /\ Len(f[k] \o ss[k + 1]) = Len(f[k]) + Len(ss[k + 1])
            /\ g[k] \o tt[k + 1] \in Seq(T) /\ Len(g[k] \o tt[k + 1]) = Len(g[k]) + Len(tt[k + 1])
        BY <2>3, <3>1, <4>1, ConcatProperties
      <4>5. Len(ss[k + 1]) = Len(tt[k + 1])
        BY <3>1
      <4>6. f[k + 1] \in Seq(S) /\ g[k + 1] \in Seq(T) /\ Len(f[k + 1]) = Len(g[k + 1])
        BY <4>1, <4>2, <4>3, <4>4, <4>5
      <4>7. k + 1 \in 0..Len(ss)
        BY <2>3, <3>1
      <4> QED  BY <4>6, <4>7
    <3> QED  BY <3>4, <3>5
  <2>6. 0..Len(ss) \subseteq G
    <3> HIDE DEF G
    <3> QED  BY <2>3, <2>4, <2>5, Induction
  <2>7. Len(ss) \in G
    <3> HIDE DEF G
    <3> QED  BY <2>3, <2>6, Len(ss) \in 0..Len(ss)
  <2> QED  BY <1>2, <2>1, <2>2, <2>7
<1> QED  BY <1>1, <1>2

LEMMA Joined ==
    ASSUME NEW s, IsSequence(s), NEW t, IsSequence(t)
    PROVE  /\ IsSequence(s \o t) /\ Len(s \o t) = Len(s) + Len(t) /\ ToSet(s \o t) = ToSet(s) \cup ToSet(t)
           /\ Len(s) \in Nat /\ Len(t) \in Nat /\ Len(s \o t) >= Len(t)
<1> DEFINE S == ToSet(s) \cup ToSet(t)
           j == s \o t
<1>1. s \in Seq(S) /\ t \in Seq(S)
  BY SeqDef DEF IsSequence
<1>2. Len(s) \in Nat /\ Len(t) \in Nat /\ DOMAIN s = 1..Len(s) /\ DOMAIN t = 1..Len(t)
  BY <1>1, LenProperties
<1> HIDE DEF S
<1>3. /\ j \in Seq(S) /\ Len(j) = Len(s) + Len(t)
      /\ \A i \in 1..(Len(s) + Len(t)) : j[i] = IF i <= Len(s) THEN s[i] ELSE t[i - Len(s)]
  BY <1>1, ConcatProperties
<1>4. DOMAIN j = 1..(Len(s) + Len(t))
  BY <1>3, LenProperties
<1> HIDE DEF j
<1>5. ToSet(j) \subseteq ToSet(s) \cup ToSet(t)
  <2> SUFFICES ASSUME NEW i \in 1..(Len(s) + Len(t))  PROVE j[i] \in ToSet(s) \cup ToSet(t)
    BY <1>4 DEF ToSet
  <2>1. CASE i <= Len(s)
    BY <1>2, <1>3, <2>1 DEF ToSet
  <2>2. CASE i > Len(s)
    <3>1. i - Len(s) \in 1..Len(t) /\ j[i] = t[i - Len(s)]
      BY <1>2, <1>3, <2>2
    <3> QED  BY <1>2, <3>1 DEF ToSet
  <2> QED  BY <1>2, <2>1, <2>2
<1>6. ToSet(s) \subseteq ToSet(j)
  <2> SUFFICES ASSUME NEW i \in 1..Len(s)  PROVE s[i] \in ToSet(j)
    BY <1>2 DEF ToSet
  <2>1. i \in 1..(Len(s) + Len(t)) /\ j[i] = s[i]
    BY <1>2, <1>3
  <2> QED  BY <1>4, <2>1 DEF ToSet
<1>7. ToSet(t) \subseteq ToSet(j)
  <2> SUFFICES ASSUME NEW i \in 1..Len(t)  PROVE t[i] \in ToSet(j)
    BY <1>2 DEF ToSet
  <2>1. Len(s) + i \in 1..(Len(s) + Len(t)) /\ j[Len(s) + i] = t[i]
    BY <1>2, <1>3
  <2> QED  BY <1>4, <2>1 DEF ToSet
<1>8. IsSequence(j)
  BY <1>3, SequenceIs
<1>9. Len(j) >= Len(t)
  BY <1>2, <1>3
<1> QED  BY <1>2, <1>3, <1>5, <1>6, <1>7, <1>8, <1>9 DEF j

LEMMA OneIs == ASSUME NEW x  PROVE IsSequence(<<x>>) /\ ToSet(<<x>>) = {x}
<1>1. <<x>> \in Seq({x})
  OBVIOUS
<1>2. DOMAIN <<x>> = {1} /\ <<x>>[1] = x
  OBVIOUS
<1> QED  BY <1>1, <1>2, SequenceIs DEF ToSet

LEMMA NothingIs == IsSequence(<<>>) /\ ToSet(<<>>) = {}
BY EmptySeq DEF IsSequence, ToSet

(* What an extraction lists.                                               *)

IsClaims(l) == IsSequence(l) /\ \A k \in ToSet(l) : {"subject", "object"} \subseteq DOMAIN k
IsRelationships(l) == IsSequence(l) /\ \A r \in ToSet(l) : {"from", "to"} \subseteq DOMAIN r

LEMMA HeuristicGives ==
    ASSUME NEW d \in ToSet(Documents)
    PROVE  /\ IsSequence(Heuristic(d).entities)
           /\ IsClaims(Heuristic(d).claims) /\ IsRelationships(Heuristic(d).relationships)
<1> DEFINE kept == Filtered(d.body.captures, LAMBDA n : Letters[n] > 2 /\ n \notin Noise)
           places == [i \in DOMAIN kept |-> i]
           firsts == Filtered(places, LAMBDA i : i \in Firsts(kept))
           entities == ExtractEntities(d.body)
           claims == ExtractClaims(d.body, entities)
           relationships == ExtractRelationships(d.body, entities)
<1>1. IsSequence(entities)
  <2>1. IsSequence(kept)
    <3>1. IsSequence(d.body.captures)
      BY ExtractionAssumption DEF IsSequence
    <3> QED  BY <3>1, CapturesGive
  <2>2. IsSequence(places)
    <3> HIDE DEF kept
    <3>1. DOMAIN places = DOMAIN kept /\ places = [i \in DOMAIN places |-> places[i]]
      OBVIOUS
    <3> HIDE DEF places
    <3> QED  BY <2>1, <3>1, MadeFrom
  <2>3. IsSequence(firsts)
    <3> DEFINE K == Firsts(kept)
    <3> HIDE DEF kept, places
    <3>1. \E f : IsFilter(f, places, K) /\ firsts = f[Len(places)]
      <4>1. \A f : IsFilter(f, places, K) <=>
               f = [k \in 0..Len(places) |-> IF k = 0 THEN <<>>
                    ELSE IF places[k] \in Firsts(kept) THEN Append(f[k - 1], places[k]) ELSE f[k - 1]]
        BY DEF IsFilter
      <4> QED  BY <2>2, <4>1, FilterExists DEF Filtered, IsSequence
    <3> HIDE DEF K, firsts
    <3> QED  BY <2>2, <3>1, FilterLeaves
  <2>4. DOMAIN entities = DOMAIN firsts /\ entities = [i \in DOMAIN entities |-> entities[i]]
    BY DEF ExtractEntities
  <2> HIDE DEF entities, firsts
  <2> QED  BY <2>3, <2>4, MadeFrom
<1> HIDE DEF entities
<1>2. IsClaims(claims)
  <2> DEFINE told == Filtered(d.body.sentences, LAMBDA s : s.length > 20 /\ Named(s, entities) # <<>>)
  <2>1. IsSequence(told)
    <3> DEFINE list == d.body.sentences
               P(k) == list[k].length > 20 /\ Named(list[k], entities) # <<>>
               K == {s \in ToSet(list) : s.length > 20 /\ Named(s, entities) # <<>>}
    <3>1. IsSequence(list)
      BY ExtractionAssumption DEF IsSequence
    <3>2. \A k \in 1..Len(list) : list[k] \in K <=> P(k)
      BY <3>1, LenProperties DEF IsSequence, ToSet
    <3> HIDE DEF K, P
    <3>3. \E f : IsFilter(f, list, K) /\ told = f[Len(list)]
      <4>1. \A f : IsFilter(f, list, K) <=>
               f = [k \in 0..Len(list) |-> IF k = 0 THEN <<>>
                    ELSE IF P(k) THEN Append(f[k - 1], list[k]) ELSE f[k - 1]]
        <5> HIDE DEF list
        <5> QED  BY <3>1, <3>2, LenProperties DEF IsFilter, IsSequence
      <4> QED  BY <3>1, <4>1, FilterExists DEF Filtered, IsSequence, P
    <3> HIDE DEF list, told
    <3> QED  BY <3>1, <3>3, FilterLeaves
  <2>2. claims = [i \in DOMAIN told |-> ExtractClaim(told[i], entities)]
    BY DEF ExtractClaims
  <2> HIDE DEF told
  <2>3. DOMAIN claims = DOMAIN told /\ claims = [i \in DOMAIN claims |-> claims[i]]
    BY <2>2
  <2>4. \A i \in DOMAIN claims : {"subject", "object"} \subseteq DOMAIN claims[i]
    BY <2>2 DEF ExtractClaim
  <2> HIDE DEF claims
  <2>5. IsSequence(claims)
    BY <2>1, <2>3, MadeFrom
  <2> QED  BY <2>4, <2>5 DEF IsClaims, ToSet
<1>3. IsRelationships(relationships)
  <2> DEFINE found(i) == Filtered(entities, LAMBDA e : e.name # entities[i].name
                                                    /\ <<entities[i].name, e.name>> \in d.body.located)
             pair(i, j) == [from |-> entities[i].name, to |-> found(i)[j].name,
                            type |-> "located_in", confidence |-> 55]
             per(i) == [j \in DOMAIN found(i) |-> pair(i, j)]
             lists == [i \in DOMAIN entities |-> per(i)]
             S == {r \in UNION {ToSet(per(i)) : i \in DOMAIN entities} : {"from", "to"} \subseteq DOMAIN r}
  <2>1. relationships = FlattenSeq(lists)
    BY DEF ExtractRelationships
  <2>2. ASSUME NEW i \in DOMAIN entities  PROVE per(i) \in Seq(S)
    <3>1. IsSequence(found(i))
      <4> DEFINE P(k) == /\ entities[k].name # entities[i].name
                         /\ <<entities[i].name, entities[k].name>> \in d.body.located
                 K == {e \in ToSet(entities) : e.name # entities[i].name
                                               /\ <<entities[i].name, e.name>> \in d.body.located}
                 t == found(i)
      <4>1. \A k \in 1..Len(entities) : entities[k] \in K <=> P(k)
        BY <1>1, LenProperties DEF IsSequence, ToSet
      <4> HIDE DEF K, P
      <4>2. \A f : IsFilter(f, entities, K) <=>
               f = [k \in 0..Len(entities) |-> IF k = 0 THEN <<>>
                    ELSE IF P(k) THEN Append(f[k - 1], entities[k]) ELSE f[k - 1]]
        BY <1>1, <4>1, LenProperties DEF IsFilter, IsSequence
      <4>3. \E f : IsFilter(f, entities, K) /\ t = f[Len(entities)]
        BY <1>1, <4>2, FilterExists DEF Filtered, IsSequence, P
      <4> HIDE DEF t
      <4>4. IsSequence(t)
        BY <1>1, <4>3, FilterLeaves
      <4> QED  BY <4>4 DEF t
    <3>2. \A j \in DOMAIN found(i) : {"from", "to"} \subseteq DOMAIN pair(i, j)
      OBVIOUS
    <3> HIDE DEF found, pair
    <3>3. DOMAIN per(i) = DOMAIN found(i) /\ per(i) = [j \in DOMAIN per(i) |-> per(i)[j]]
          /\ \A j \in DOMAIN per(i) : per(i)[j] = pair(i, j)
      OBVIOUS
    <3> HIDE DEF per
    <3>4. IsSequence(per(i))
      BY <3>1, <3>3, MadeFrom
    <3>5. ToSet(per(i)) \subseteq S
      BY <3>2, <3>3 DEF ToSet
    <3> HIDE DEF S
    <3> QED  BY <3>4, <3>5, SeqDef DEF IsSequence
  <2>3. lists \in Seq(Seq(S))
    <3>1. Len(entities) \in Nat /\ DOMAIN entities = 1..Len(entities)
      BY <1>1, LenProperties DEF IsSequence
    <3> HIDE DEF S, per
    <3>2. lists \in [1..Len(entities) -> Seq(S)]
      BY <2>2, <3>1
    <3> HIDE DEF lists
    <3> QED  BY <3>1, <3>2, SeqDef
  <2> HIDE DEF lists, per
  <2>4. relationships \in Seq(S)
    <3> HIDE DEF S
    <3> QED  BY <2>1, <2>3, FlattenGives
  <2>5. ToSet(relationships) \subseteq S
    <3> HIDE DEF S, relationships
    <3> QED  BY <2>4, LenProperties, ElementOfSeq DEF ToSet
  <2> HIDE DEF relationships
  <2>6. \A r \in ToSet(relationships) : {"from", "to"} \subseteq DOMAIN r
    BY <2>5
  <2>7. IsSequence(relationships)
    BY <2>4, SequenceIs
  <2> QED  BY <2>6, <2>7 DEF IsRelationships
<1>4. /\ Heuristic(d).entities = entities /\ Heuristic(d).claims = claims
      /\ Heuristic(d).relationships = relationships
  BY DEF Heuristic, entities
<1> HIDE DEF claims, relationships
<1> QED  BY <1>1, <1>2, <1>3, <1>4

(* A list of a payload may be missing.                                     *)
MaybeList(l) == l = None \/ IsSequence(l)
Payload(p) == MaybeList(p.entities) /\ MaybeList(p.claims) /\ MaybeList(p.relationships)

LEMMA ListIs == ASSUME NEW l, MaybeList(l)  PROVE IsSequence(Or(l, <<>>))
BY NothingIs DEF MaybeList, Or

LEMMA DecodedEntities ==
    ASSUME NEW payload, Payload(payload), NEW chunk
    PROVE  IsSequence(DecodeEntities(payload, chunk))
<1> DEFINE list == Or(payload.entities, <<>>)
           named == Filtered(list, LAMBDA v : v.name \notin {None, ""})
           decoded == DecodeEntities(payload, chunk)
<1>1. IsSequence(list)
  BY ListIs DEF Payload
<1>2. DOMAIN decoded = DOMAIN named /\ decoded = [k \in DOMAIN decoded |-> decoded[k]]
  BY DEF DecodeEntities
<1> HIDE DEF list
<1>3. IsSequence(named)
  BY <1>1, DecodedEntitiesGive
<1> HIDE DEF named, decoded
<1>4. IsSequence(decoded)
  BY <1>2, <1>3, MadeFrom
<1> QED  BY <1>4 DEF decoded

LEMMA DecodedRelationships ==
    ASSUME NEW payload, Payload(payload)
    PROVE  IsRelationships(DecodeRelationships(payload))
<1> DEFINE list == Or(payload.relationships, <<>>)
           both == Filtered(list, LAMBDA v : v.from # None /\ v.to # None)
           decoded == DecodeRelationships(payload)
<1>1. IsSequence(list)
  BY ListIs DEF Payload
<1>2. DOMAIN decoded = DOMAIN both /\ decoded = [k \in DOMAIN decoded |-> decoded[k]]
      /\ \A k \in DOMAIN decoded : {"from", "to"} \subseteq DOMAIN decoded[k]
  BY DEF DecodeRelationships
<1> HIDE DEF list
<1>3. IsSequence(both)
  BY <1>1, DecodedRelationshipsGive
<1> HIDE DEF both, decoded
<1>4. IsSequence(decoded)
  BY <1>2, <1>3, MadeFrom
<1>5. IsRelationships(decoded)
  BY <1>2, <1>4 DEF IsRelationships, ToSet
<1> QED  BY <1>5 DEF decoded

LEMMA DecodedClaims ==
    ASSUME NEW payload, Payload(payload), NEW chunk
    PROVE  IsClaims(DecodeClaims(payload, chunk))
<1> DEFINE list == Or(payload.claims, <<>>)
           decoded == DecodeClaims(payload, chunk)
<1>1. IsSequence(list)
  BY ListIs DEF Payload
<1>2. DOMAIN decoded = DOMAIN list /\ decoded = [k \in DOMAIN decoded |-> decoded[k]]
      /\ \A k \in DOMAIN decoded : {"subject", "object"} \subseteq DOMAIN decoded[k]
  BY DEF DecodeClaims
<1> HIDE DEF list, decoded
<1>4. IsSequence(decoded)
  BY <1>1, <1>2, MadeFrom
<1>5. IsClaims(decoded)
  BY <1>2, <1>4 DEF IsClaims, ToSet
<1> QED  BY <1>5 DEF decoded

LEMMA ClaimsOfGive ==
    ASSUME NEW answer, answer.structured = None \/ Payload(answer.structured), NEW chunk
    PROVE  IsClaims(ClaimsOf(answer, chunk))
<1>1. IsClaims(<<>>)
  BY NothingIs DEF IsClaims
<1>2. IsClaims(TextToClaims(answer.text))
  <2> DEFINE claim == [text |-> answer.text, subject |-> Unknown, predicate |-> "stated", object |-> None,
                       value |-> None, type |-> "Attribution", confidence |-> 60, by |-> "model-runtime"]
  <2>1. {"subject", "object"} \subseteq DOMAIN claim
    OBVIOUS
  <2>2. TextToClaims(answer.text) = IF answer.text = "" THEN <<>> ELSE <<claim>>
    BY DEF TextToClaims
  <2> HIDE DEF claim
  <2>3. IsClaims(<<claim>>)
    BY <2>1, OneIs DEF IsClaims
  <2> QED  BY <1>1, <2>2, <2>3
<1> DEFINE decoded == IF answer.structured = None THEN <<>> ELSE DecodeClaims(answer.structured, chunk)
<1>3. IsClaims(decoded)
  BY <1>1, DecodedClaims
<1>4. ClaimsOf(answer, chunk) = IF decoded = <<>> THEN TextToClaims(answer.text) ELSE decoded
  BY DEF ClaimsOf
<1> HIDE DEF decoded
<1> QED  BY <1>2, <1>3, <1>4

(* A sentence that a call may be made for.                                 *)
IsChunk(chunk) == IsSequence(chunk.tokens)

LEMMA LlamaEntitiesGive ==
    ASSUME NEW chunk, IsChunk(chunk)
    PROVE  IsSequence(LlamaEntities(chunk))
<1> DEFINE list == chunk.tokens
           P(k) == list[k] \in chunk.capitals
           capitals == Filtered(chunk.tokens, LAMBDA w : w \in chunk.capitals)
           names == FirstOf(capitals, 3)
           found == LlamaEntities(chunk)
<1>1. IsSequence(list)
  BY DEF IsChunk
<1>2. IsSequence(capitals)
  <2>1. \A f : IsFilter(f, list, chunk.capitals) <=>
           f = [k \in 0..Len(list) |-> IF k = 0 THEN <<>>
                ELSE IF P(k) THEN Append(f[k - 1], list[k]) ELSE f[k - 1]]
    BY DEF IsFilter
  <2>2. \E f : IsFilter(f, list, chunk.capitals) /\ capitals = f[Len(list)]
    BY <1>1, <2>1, FilterExists DEF Filtered, IsSequence
  <2> HIDE DEF list, capitals
  <2> QED  BY <1>1, <2>2, FilterLeaves
<1> HIDE DEF capitals, list
<1>3. IsSequence(names)
  <2> DEFINE last == IF Len(capitals) < 3 THEN Len(capitals) ELSE 3
  <2>1. Len(capitals) \in Nat /\ DOMAIN capitals = 1..Len(capitals)
    BY <1>2, LenProperties DEF IsSequence
  <2>2. last \in Int /\ last <= Len(capitals)
    BY <2>1
  <2>3. names = SubSeq(capitals, 1, last)
    BY DEF FirstOf
  <2> HIDE DEF last
  <2>4. \A i \in 1..last : capitals[i] \in ToSet(capitals)
    BY <2>1, <2>2 DEF ToSet
  <2>5. SubSeq(capitals, 1, last) \in Seq(ToSet(capitals))
    BY <2>2, <2>4, SubSeqProperties
  <2> QED  BY <2>3, <2>5, SequenceIs
<1>4. DOMAIN found = DOMAIN names /\ found = [i \in DOMAIN found |-> found[i]]
  BY DEF LlamaEntities, capitals
<1> HIDE DEF names, found
<1>5. IsSequence(found)
  BY <1>3, <1>4, MadeFrom
<1> QED  BY <1>5 DEF found

LEMMA AnswerGives ==
    ASSUME NEW kind, NEW chunk, IsChunk(chunk)
    PROVE  LocalInfer(kind, chunk).structured = None \/ Payload(LocalInfer(kind, chunk).structured)
<1>1. \A error : Refusal(error).structured = None
  BY DEF Refusal
<1>2. \A text, structured : Answer(text, structured).structured = structured
  BY DEF Answer
<1>3. Payload([NoLists EXCEPT !.vector = Embedding(chunk)])
  BY DEF Payload, MaybeList, NoLists
<1>4. Payload(DeterministicOutput(kind, chunk))
  <2>1. CASE kind = "ner"
    <3> DEFINE l == LlamaEntities(chunk)
    <3>1. DeterministicOutput(kind, chunk) = [NoLists EXCEPT !.entities = l]
      BY <2>1 DEF DeterministicOutput
    <3>2. IsSequence(l)
      BY LlamaEntitiesGive
    <3> HIDE DEF l
    <3> QED  BY <3>1, <3>2 DEF Payload, MaybeList, NoLists
  <2>2. CASE kind = "claim_extraction"
    <3> DEFINE one == [subject |-> Word(chunk, 1), predicate |-> "stated", object |-> None,
                       text |-> chunk.text, confidence |-> 60]
               l == <<one>>
    <3>1. DeterministicOutput(kind, chunk) = [NoLists EXCEPT !.claims = l]
      BY <2>2 DEF DeterministicOutput
    <3> HIDE DEF one
    <3>2. IsSequence(l)
      BY OneIs
    <3> HIDE DEF l
    <3> QED  BY <3>1, <3>2 DEF Payload, MaybeList, NoLists
  <2>3. CASE kind = "relation_extraction"
    <3> DEFINE one == [from |-> Word(chunk, 1), type |-> "related_to",
                       to |-> Word(chunk, 2), confidence |-> 50]
               l == <<one>>
    <3>1. DeterministicOutput(kind, chunk) = [NoLists EXCEPT !.relationships = l]
      BY <2>3 DEF DeterministicOutput
    <3> HIDE DEF one
    <3>2. IsSequence(l)
      BY OneIs
    <3> HIDE DEF l
    <3> QED  BY <3>1, <3>2 DEF Payload, MaybeList, NoLists
  <2>4. CASE kind \notin {"ner", "claim_extraction", "relation_extraction"}
    <3>1. DeterministicOutput(kind, chunk) = NoLists
      BY <2>4 DEF DeterministicOutput
    <3> QED  BY <3>1 DEF Payload, MaybeList, NoLists
  <2> QED  BY <2>1, <2>2, <2>3, <2>4
<1>5. OnnxInfer(kind, chunk).structured = None \/ Payload(OnnxInfer(kind, chunk).structured)
  <2> DEFINE v == [NoLists EXCEPT !.vector = Embedding(chunk)]
  <2>1. \/ \E error : OnnxInfer(kind, chunk) = Refusal(error)
        \/ OnnxInfer(kind, chunk) = Answer("", v)
    BY DEF OnnxInfer
  <2> HIDE DEF v
  <2>2. Payload(v)
    BY <1>3 DEF v
  <2> QED  BY <1>1, <1>2, <2>1, <2>2
<1>6. LlamaInfer(kind, chunk).structured = None \/ Payload(LlamaInfer(kind, chunk).structured)
  <2> DEFINE v == DeterministicOutput(kind, chunk)
  <2>1. \/ \E error : LlamaInfer(kind, chunk) = Refusal(error)
        \/ LlamaInfer(kind, chunk) = Answer("json", v)
    BY DEF LlamaInfer
  <2> HIDE DEF v
  <2>2. Payload(v)
    BY <1>4 DEF v
  <2> QED  BY <1>1, <1>2, <2>1, <2>2
<1> QED  BY <1>1, <1>5, <1>6 DEF LocalInfer

-----------------------------------------------------------------------------
(* The inductive invariant of the gateway's requests and the worker.       *)

Reloads == [step : {"idle", "built", "swapped"}, new : 0..Len(runtimes), alone : BOOLEAN]
HandleInv ==
    /\ IsSequence(runtimes) /\ \A m \in ToSet(runtimes) : MetricsOK(m)
    /\ swappable \in DOMAIN runtimes /\ view \in DOMAIN runtimes
    /\ reload \in [Clients -> Reloads] /\ strayed \in BOOLEAN
    /\ \A c \in Reloading :
          /\ reload[c].new \in DOMAIN runtimes
          /\ reload[c].alone => Reloading = {c}
          /\ reload[c].alone /\ reload[c].step = "swapped" => swappable = reload[c].new
    /\ Reloading = {} /\ ~strayed => view = swappable
ArchivedIds == {Documents[d].id : d \in 1..archived}
ResultOK(r) ==
    /\ r = [entities |-> r.entities, claims |-> r.claims, relationships |-> r.relationships, vectors |-> r.vectors]
    /\ IsSequence(r.entities) /\ IsClaims(r.claims) /\ IsRelationships(r.relationships)
WorkOK(w) ==
    /\ w = [step |-> w.step, todo |-> w.todo, chunk |-> w.chunk, kind |-> w.kind, runtime |-> w.runtime,
            result |-> w.result]
    /\ w.step \in {"idle", "next", "infer", "waiting", "save", "dead"}
    /\ IsSequence(w.todo) /\ \A d \in ToSet(w.todo) : d \in ToSet(Documents)
    /\ w.step \in {"infer", "waiting", "save"} => w.todo # <<>>
    /\ w.step \in {"infer", "waiting"} => w.chunk \in DOMAIN ChunkBody(Head(w.todo).body)
    /\ w.kind \in DOMAIN Kinds /\ ResultOK(w.result)
WorkInv ==
    /\ archived \in 0..Len(Documents) /\ cycles \in 0..MaxCycles
    /\ WorkOK(work) /\ \A d \in ToSet(work.todo) : d.id \in ArchivedIds
    /\ work.runtime \in 0..Len(runtimes) /\ (work.step = "waiting" => work.runtime \in DOMAIN runtimes)
KeepsHeuristic(x) ==
    LET heuristic == Heuristic(CHOOSE d \in ToSet(Documents) : d.id = x.document)
    IN  /\ Len(heuristic.claims) > 0 => Len(x.claims) > 0
        /\ Len(x.relationships) >= Len(heuristic.relationships)
ExtractionOK(x) ==
    /\ x = [document |-> x.document, entities |-> x.entities, claims |-> x.claims,
            relationships |-> x.relationships, vectors |-> x.vectors]
    /\ IsSequence(x.entities) /\ IsClaims(x.claims) /\ IsRelationships(x.relationships)
    /\ KeepsHeuristic(x)
ListOK(l) == IsSequence(l) /\ \A x \in ToSet(l) : ExtractionOK(x)
MentionedIn(l) == UNION {MentionedBy(x) : x \in ToSet(l)}
ListInv ==
    /\ ListOK(extractions) /\ \A x \in ToSet(extractions) : x.document \in ArchivedIds
    /\ gone \cap MentionedIn(extractions) = {}
    /\ saved \in Nat /\ exposed \in Nat
    /\ saved - exposed <= Len(extractions) /\ Len(extractions) <= saved
MergeOK(m) ==
    /\ m = [step |-> "read", source |-> m.source, target |-> m.target, list |-> m.list,
            gone |-> m.gone, saved |-> m.saved]
    /\ m.source # m.target /\ ListOK(m.list) /\ m.gone \cap MentionedIn(m.list) = {}
    /\ m.saved \in Nat /\ Len(m.list) <= m.saved
MergeInv ==
    /\ merge = [c \in Clients |-> merge[c]]
    /\ \A c \in Clients : merge[c] # NoMerge =>
          /\ MergeOK(merge[c])
          /\ \A x \in ToSet(merge[c].list) : x.document \in ArchivedIds
          /\ merge[c].saved <= saved /\ merge[c].saved - exposed <= Len(merge[c].list)
GatewayInv == RegistryInv /\ HandleInv /\ WorkInv /\ ListInv /\ MergeInv

-----------------------------------------------------------------------------
(* Merged and rewritten extractions.                                       *)

LEMMA KnownDocument ==
    ASSUME NEW d \in ToSet(Documents)
    PROVE  (CHOOSE e \in ToSet(Documents) : e.id = d.id) = d
BY ExtractionAssumption

LEMMA MergedOK ==
    ASSUME NEW d \in ToSet(Documents), NEW r, ResultOK(r)
    PROVE  ExtractionOK(Merged(d, r)) /\ Merged(d, r).document = d.id
<1> DEFINE h == Heuristic(d)
           x == Merged(d, r)
           entities == r.entities \o h.entities
           claims == r.claims \o h.claims
           relationships == r.relationships \o h.relationships
<1>1. x = [document |-> d.id, entities |-> entities, claims |-> claims,
           relationships |-> relationships, vectors |-> r.vectors]
  BY DEF Merged
<1>2. IsSequence(h.entities) /\ IsClaims(h.claims) /\ IsRelationships(h.relationships)
  BY HeuristicGives
<1> HIDE DEF h, x
<1>3. IsSequence(entities)
  BY <1>2, Joined DEF ResultOK
<1>4. IsClaims(claims) /\ Len(claims) >= Len(h.claims)
  <2>1. /\ IsSequence(claims)
        /\ ToSet(claims) = ToSet(r.claims) \cup ToSet(h.claims)
        /\ Len(claims) >= Len(h.claims)
    BY <1>2, Joined DEF ResultOK, IsClaims
  <2> HIDE DEF claims
  <2>2. \A k \in ToSet(claims) : {"subject", "object"} \subseteq DOMAIN k
    BY <1>2, <2>1 DEF ResultOK, IsClaims
  <2>3. IsClaims(claims)
    BY <2>1, <2>2 DEF IsClaims
  <2> QED  BY <2>1, <2>3
<1>5. IsRelationships(relationships) /\ Len(relationships) >= Len(h.relationships)
  <2>1. /\ IsSequence(relationships)
        /\ ToSet(relationships) = ToSet(r.relationships) \cup ToSet(h.relationships)
        /\ Len(relationships) >= Len(h.relationships)
    BY <1>2, Joined DEF ResultOK, IsRelationships
  <2> HIDE DEF relationships
  <2>2. \A k \in ToSet(relationships) : {"from", "to"} \subseteq DOMAIN k
    BY <1>2, <2>1 DEF ResultOK, IsRelationships
  <2>3. IsRelationships(relationships)
    BY <2>1, <2>2 DEF IsRelationships
  <2> QED  BY <2>1, <2>3
<1> HIDE DEF entities, claims, relationships
<1>6. x.document = d.id
  BY <1>1
<1>7. KeepsHeuristic(x)
  <2>1. (CHOOSE e \in ToSet(Documents) : e.id = x.document) = d
    BY <1>6, KnownDocument
  <2>2. Len(h.claims) \in Nat /\ Len(claims) \in Nat
    BY <1>2, <1>4, LenProperties DEF IsClaims, IsSequence
  <2>3. Len(h.claims) > 0 => Len(claims) > 0
    BY <1>4, <2>2
  <2> QED  BY <1>1, <1>5, <2>1, <2>3 DEF KeepsHeuristic, h
<1>8. ExtractionOK(x)
  BY <1>1, <1>3, <1>4, <1>5, <1>7 DEF ExtractionOK
<1> QED  BY <1>6, <1>8 DEF x

(* Three fields of an extraction at once.                                  *)
LEMMA ThreeFields ==
    ASSUME NEW a, NEW b, NEW c, NEW d, NEW e, NEW b2, NEW c2, NEW d2, NEW x, NEW q,
           x = [document |-> a, entities |-> b, claims |-> c, relationships |-> d, vectors |-> e],
           q = [x EXCEPT !.entities = b2, !.claims = c2, !.relationships = d2]
    PROVE  q = [document |-> a, entities |-> b2, claims |-> c2, relationships |-> d2, vectors |-> e]
OBVIOUS

LEMMA RewrittenClaimIs ==
    ASSUME NEW k, {"subject", "object"} \subseteq DOMAIN k, NEW s, NEW t
    PROVE  /\ RewrittenClaim(k, s, t).subject = Renamed(k.subject, s, t)
           /\ RewrittenClaim(k, s, t).object = Renamed(k.object, s, t)
           /\ {"subject", "object"} \subseteq DOMAIN RewrittenClaim(k, s, t)
BY DEF RewrittenClaim

LEMMA RewrittenRelationshipIs ==
    ASSUME NEW r, {"from", "to"} \subseteq DOMAIN r, NEW s, NEW t
    PROVE  /\ RewrittenRelationship(r, s, t).from = Renamed(r.from, s, t)
           /\ RewrittenRelationship(r, s, t).to = Renamed(r.to, s, t)
           /\ {"from", "to"} \subseteq DOMAIN RewrittenRelationship(r, s, t)
BY DEF RewrittenRelationship

LEMMA MentionedWays ==
    ASSUME NEW x, NEW n
    PROVE  n \in MentionedBy(x) <=>
              \/ \E e \in ToSet(x.entities) : n = e.name
              \/ \E k \in ToSet(x.claims) : n \in {k.subject, k.object}
              \/ \E k \in ToSet(x.relationships) : n \in {k.from, k.to}
BY DEF MentionedBy

(* A rewritten extraction keeps its claims and its relationships, and      *)
(* mentions the target where it mentioned the source.                      *)
LEMMA RewrittenOK ==
    ASSUME NEW x, ExtractionOK(x), NEW s, NEW t, s # t
    PROVE  /\ ExtractionOK(Rewritten(x, s, t)) /\ Rewritten(x, s, t).document = x.document
           /\ MentionedBy(Rewritten(x, s, t)) \subseteq (MentionedBy(x) \ {s}) \cup {t}
<1> DEFINE entities == Filtered(x.entities, LAMBDA e : e.name # s)
           claims == [i \in DOMAIN x.claims |-> RewrittenClaim(x.claims[i], s, t)]
           relationships == [i \in DOMAIN x.relationships |-> RewrittenRelationship(x.relationships[i], s, t)]
           q == Rewritten(x, s, t)
<1>1. q = [document |-> x.document, entities |-> entities, claims |-> claims, relationships |-> relationships,
           vectors |-> x.vectors]
  <2>1. q = [x EXCEPT !.entities = entities, !.claims = claims, !.relationships = relationships]
    BY DEF Rewritten
  <2>2. x = [document |-> x.document, entities |-> x.entities, claims |-> x.claims,
             relationships |-> x.relationships, vectors |-> x.vectors]
    BY DEF ExtractionOK
  <2> HIDE DEF entities, claims, relationships, q
  <2> QED  BY <2>1, <2>2, ThreeFields
<1>2. IsSequence(x.entities) /\ IsClaims(x.claims) /\ IsRelationships(x.relationships)
  BY DEF ExtractionOK
<1>3. IsSequence(entities) /\ ToSet(entities) = {e \in ToSet(x.entities) : e.name # s}
  <2> DEFINE list == x.entities
             P(k) == list[k].name # s
             K == {e \in ToSet(list) : e.name # s}
  <2>1. IsSequence(list)
    BY <1>2
  <2>2. \A k \in 1..Len(list) : list[k] \in K <=> P(k)
    BY <2>1, LenProperties DEF IsSequence, ToSet
  <2> HIDE DEF P, K
  <2>3. \E f : IsFilter(f, list, K) /\ entities = f[Len(list)]
    <3>1. \A f : IsFilter(f, list, K) <=>
             f = [k \in 0..Len(list) |-> IF k = 0 THEN <<>>
                  ELSE IF P(k) THEN Append(f[k - 1], list[k]) ELSE f[k - 1]]
      <4> HIDE DEF list
      <4> QED  BY <2>1, <2>2, LenProperties DEF IsFilter, IsSequence
    <3> QED  BY <2>1, <3>1, FilterExists DEF Filtered, IsSequence, P
  <2> HIDE DEF list, entities
  <2>4. IsSequence(entities) /\ ToSet(entities) = ToSet(list) \cap K
    BY <2>1, <2>3, FilterLeaves
  <2> QED  BY <2>4 DEF K, list
<1>4. /\ IsClaims(claims) /\ Len(claims) = Len(x.claims)
      /\ \A k \in ToSet(claims) : \E l \in ToSet(x.claims) :
            k.subject = Renamed(l.subject, s, t) /\ k.object = Renamed(l.object, s, t)
  <2>1. \A i \in DOMAIN x.claims : {"subject", "object"} \subseteq DOMAIN x.claims[i]
    BY <1>2 DEF IsClaims, ToSet
  <2>2. DOMAIN claims = DOMAIN x.claims /\ claims = [i \in DOMAIN claims |-> claims[i]]
    OBVIOUS
  <2>3. \A i \in DOMAIN claims :
           /\ {"subject", "object"} \subseteq DOMAIN claims[i]
           /\ claims[i].subject = Renamed(x.claims[i].subject, s, t)
           /\ claims[i].object = Renamed(x.claims[i].object, s, t)
    BY <2>1, RewrittenClaimIs
  <2> HIDE DEF claims
  <2>4. IsSequence(claims) /\ Len(claims) = Len(x.claims)
    BY <1>2, <2>2, MadeFrom DEF IsClaims
  <2>5. IsClaims(claims)
    BY <2>3, <2>4 DEF IsClaims, ToSet
  <2>6. ASSUME NEW k \in ToSet(claims)
        PROVE  \E l \in ToSet(x.claims) :
                  k.subject = Renamed(l.subject, s, t) /\ k.object = Renamed(l.object, s, t)
    <3>1. PICK i \in DOMAIN claims : k = claims[i]
      BY DEF ToSet
    <3>2. x.claims[i] \in ToSet(x.claims)
      BY <2>2 DEF ToSet
    <3> QED  BY <2>3, <3>1, <3>2
  <2> QED  BY <2>4, <2>5, <2>6
<1>5. /\ IsRelationships(relationships) /\ Len(relationships) = Len(x.relationships)
      /\ \A k \in ToSet(relationships) : \E l \in ToSet(x.relationships) :
            k.from = Renamed(l.from, s, t) /\ k.to = Renamed(l.to, s, t)
  <2>1. \A i \in DOMAIN x.relationships : {"from", "to"} \subseteq DOMAIN x.relationships[i]
    BY <1>2 DEF IsRelationships, ToSet
  <2>2. DOMAIN relationships = DOMAIN x.relationships
        /\ relationships = [i \in DOMAIN relationships |-> relationships[i]]
    OBVIOUS
  <2>3. \A i \in DOMAIN relationships :
           /\ {"from", "to"} \subseteq DOMAIN relationships[i]
           /\ relationships[i].from = Renamed(x.relationships[i].from, s, t)
           /\ relationships[i].to = Renamed(x.relationships[i].to, s, t)
    BY <2>1, RewrittenRelationshipIs
  <2> HIDE DEF relationships
  <2>4. IsSequence(relationships) /\ Len(relationships) = Len(x.relationships)
    BY <1>2, <2>2, MadeFrom DEF IsRelationships
  <2>5. IsRelationships(relationships)
    BY <2>3, <2>4 DEF IsRelationships, ToSet
  <2>6. ASSUME NEW k \in ToSet(relationships)
        PROVE  \E l \in ToSet(x.relationships) :
                  k.from = Renamed(l.from, s, t) /\ k.to = Renamed(l.to, s, t)
    <3>1. PICK i \in DOMAIN relationships : k = relationships[i]
      BY DEF ToSet
    <3>2. x.relationships[i] \in ToSet(x.relationships)
      BY <2>2 DEF ToSet
    <3> QED  BY <2>3, <3>1, <3>2
  <2> QED  BY <2>4, <2>5, <2>6
<1> HIDE DEF entities, claims, relationships, q
<1>6. q.document = x.document /\ q.entities = entities /\ q.claims = claims /\ q.relationships = relationships
  BY <1>1
<1>7. ExtractionOK(q)
  <2>1. KeepsHeuristic(q)
    BY <1>4, <1>5, <1>6 DEF ExtractionOK, KeepsHeuristic
  <2> QED  BY <1>1, <1>3, <1>4, <1>5, <1>6, <2>1 DEF ExtractionOK
<1>8. ASSUME NEW n \in MentionedBy(q)  PROVE n \in (MentionedBy(x) \ {s}) \cup {t}
  <2>1. CASE \E e \in ToSet(entities) : n = e.name
    <3>1. PICK e \in ToSet(entities) : n = e.name
      BY <2>1
    <3>2. e \in ToSet(x.entities) /\ e.name # s
      BY <1>3
    <3> QED  BY <3>1, <3>2, MentionedWays
  <2>2. CASE \E k \in ToSet(claims) : n \in {k.subject, k.object}
    <3>1. PICK k \in ToSet(claims) : n \in {k.subject, k.object}
      BY <2>2
    <3>2. PICK l \in ToSet(x.claims) :
             k.subject = Renamed(l.subject, s, t) /\ k.object = Renamed(l.object, s, t)
      BY <1>4
    <3>3. l.subject \in MentionedBy(x) /\ l.object \in MentionedBy(x)
      BY MentionedWays
    <3> QED  BY <3>1, <3>2, <3>3 DEF Renamed
  <2>3. CASE \E k \in ToSet(relationships) : n \in {k.from, k.to}
    <3>1. PICK k \in ToSet(relationships) : n \in {k.from, k.to}
      BY <2>3
    <3>2. PICK l \in ToSet(x.relationships) : k.from = Renamed(l.from, s, t) /\ k.to = Renamed(l.to, s, t)
      BY <1>5
    <3>3. l.from \in MentionedBy(x) /\ l.to \in MentionedBy(x)
      BY MentionedWays
    <3> QED  BY <3>1, <3>2, <3>3 DEF Renamed
  <2> QED  BY <1>6, <1>8, <2>1, <2>2, <2>3, MentionedWays
<1> QED  BY <1>6, <1>7, <1>8 DEF q

LEMMA RewrittenList ==
    ASSUME NEW m, NEW l, ListOK(l), NEW s, NEW t, s # t, DOMAIN m = DOMAIN l,
           m = [i \in DOMAIN m |-> m[i]], \A i \in DOMAIN m : m[i] = Rewritten(l[i], s, t)
    PROVE  ListOK(m) /\ Len(m) = Len(l) /\ \A y \in ToSet(m) : \E x \in ToSet(l) : y.document = x.document
<1>1. IsSequence(m) /\ Len(m) = Len(l)
  <2>1. IsSequence(l)
    BY DEF ListOK
  <2> QED  BY <2>1, MadeFrom
<1>2. \A x \in ToSet(l) : ExtractionOK(x)
  BY DEF ListOK
<1>3. ASSUME NEW y \in ToSet(m)
      PROVE  ExtractionOK(y) /\ \E x \in ToSet(l) : y.document = x.document
  <2>1. PICK x \in ToSet(l) : y = Rewritten(x, s, t)
    BY DEF ToSet
  <2> QED  BY <1>2, <2>1, RewrittenOK
<1> QED  BY <1>1, <1>3 DEF ListOK

LEMMA RewrittenMentions ==
    ASSUME NEW m, NEW l, ListOK(l), NEW s, NEW t, s # t, DOMAIN m = DOMAIN l,
           \A i \in DOMAIN m : m[i] = Rewritten(l[i], s, t), NEW n \in MentionedIn(m)
    PROVE  n = t \/ (n # s /\ n \in MentionedIn(l))
<1>1. PICK y \in ToSet(m) : n \in MentionedBy(y)
  BY DEF MentionedIn
<1>2. PICK x \in ToSet(l) : y = Rewritten(x, s, t)
  BY DEF ToSet
<1>3. n \in (MentionedBy(x) \ {s}) \cup {t}
  BY <1>1, <1>2, RewrittenOK DEF ListOK
<1>4. MentionedBy(x) \subseteq MentionedIn(l)
  BY DEF MentionedIn
<1> QED  BY <1>3, <1>4

-----------------------------------------------------------------------------
(* The handle of the model runtime.                                        *)

(* The handle.                                                             *)
LEMMA HandleInitHolds == HandleInit => HandleInv
<1> SUFFICES ASSUME HandleInit  PROVE HandleInv
  OBVIOUS
<1> DEFINE e == EmptyMetrics
<1>1. runtimes = <<e, e>> /\ view = 1 /\ swappable = 2 /\ strayed = TRUE /\ reload = [c \in Clients |-> NoReload]
  BY DEF HandleInit
<1>2. MetricsOK(e)
  BY EmptyMetricsOK
<1> HIDE DEF e
<1>3. ToSet(runtimes) = {e} /\ Len(runtimes) = 2 /\ DOMAIN runtimes = {1, 2}
  BY <1>1 DEF ToSet
<1>4. IsSequence(runtimes)
  BY <1>1, <1>3 DEF IsSequence
<1>5. NoReload \in Reloads
  BY <1>3 DEF NoReload, Reloads
<1>6. Reloading = {}
  BY <1>1 DEF Reloading, NoReload
<1> QED  BY <1>1, <1>2, <1>3, <1>4, <1>5, <1>6 DEF HandleInv

(* Calls are recorded; no request is under way.                            *)
LEMMA HandleKept ==
    ASSUME HandleInv, UNCHANGED <<swappable, view, reload, strayed>>,
           IsSequence(runtimes'), DOMAIN runtimes' = DOMAIN runtimes, Len(runtimes') = Len(runtimes),
           \A m \in ToSet(runtimes') : MetricsOK(m)
    PROVE  HandleInv'
<1>1. Reloads' = Reloads
  BY DEF Reloads
<1>2. Reloading' = Reloading
  BY DEF Reloading
<1> QED  BY <1>1, <1>2 DEF HandleInv

LEMMA HandleSame ==
    ASSUME HandleInv, UNCHANGED handleVars
    PROVE  HandleInv'
BY HandleKept DEF handleVars, HandleInv, IsSequence

LEMMA BuildKeeps ==
    ASSUME HandleInv, NEW c \in Clients, BuildRuntime(c)
    PROVE  HandleInv' /\ Len(runtimes') >= Len(runtimes) /\ DOMAIN runtimes \subseteq DOMAIN runtimes'
<1> DEFINE n == Len(runtimes) + 1
<1>1. /\ runtimes' = Append(runtimes, EmptyMetrics) /\ UNCHANGED <<swappable, view, strayed>>
      /\ reload[c] = NoReload
      /\ reload' = [d \in Clients |->
                    IF d = c THEN [step |-> "built", new |-> n, alone |-> Reloading = {}]
                    ELSE IF d \in Reloading THEN [reload[d] EXCEPT !.alone = FALSE] ELSE reload[d]]
  BY DEF BuildRuntime
<1>2. /\ IsSequence(runtimes') /\ ToSet(runtimes') = ToSet(runtimes) \cup {EmptyMetrics}
      /\ DOMAIN runtimes' = DOMAIN runtimes \cup {n} /\ Len(runtimes) \in Nat /\ DOMAIN runtimes = 1..Len(runtimes)
  BY <1>1, Appended DEF HandleInv
<1>3. Len(runtimes') = n
  BY <1>1, LenProperties, AppendProperties DEF HandleInv, IsSequence
<1>4. \A m \in ToSet(runtimes') : MetricsOK(m)
  BY <1>2, EmptyMetricsOK DEF HandleInv
<1>5. Reloads \subseteq Reloads'
  BY <1>2, <1>3 DEF Reloads
<1>6. reload'[c] = [step |-> "built", new |-> n, alone |-> Reloading = {}]
  BY <1>1
<1>7. ASSUME NEW d \in Clients \ {c}
      PROVE  /\ reload'[d] \in Reloads' /\ reload'[d].step = reload[d].step /\ reload'[d].new = reload[d].new
             /\ d \in Reloading => ~reload'[d].alone
  <2>1. reload[d] \in Reloads
    BY DEF HandleInv
  <2>2. CASE d \in Reloading
    <3>1. reload'[d] = [reload[d] EXCEPT !.alone = FALSE]
      BY <1>1, <1>7, <2>2
    <3>2. [reload[d] EXCEPT !.alone = FALSE] \in Reloads
      BY <2>1 DEF Reloads
    <3> QED  BY <1>5, <2>1, <3>1, <3>2 DEF Reloads
  <2>3. CASE d \notin Reloading
    <3>1. reload'[d] = reload[d]
      BY <1>1, <1>7, <2>3
    <3> QED  BY <1>5, <2>1, <2>3, <3>1
  <2> QED  BY <2>2, <2>3
<1>8. reload'[c] \in Reloads'
  <2>1. (Reloading = {}) \in BOOLEAN
    OBVIOUS
  <2> QED  BY <1>2, <1>3, <1>6, <2>1 DEF Reloads
<1>9. reload' \in [Clients -> Reloads']
  <2>1. reload' = [d \in Clients |-> reload'[d]]
    BY <1>1
  <2> QED  BY <1>7, <1>8, <2>1
<1>10. Reloading' = Reloading \cup {c} /\ c \notin Reloading
  <2>1. reload'[c].step = "built" /\ reload[c].step = "idle"
    BY <1>1, <1>6 DEF NoReload
  <2> QED  BY <1>7, <2>1 DEF Reloading
<1>11. ASSUME NEW d \in Reloading'
       PROVE  /\ reload'[d].new \in DOMAIN runtimes'
              /\ reload'[d].alone => Reloading' = {d}
              /\ reload'[d].alone /\ reload'[d].step = "swapped" => swappable' = reload'[d].new
  <2>1. CASE d = c
    <3>1. reload'[d].new = n /\ reload'[d].step = "built"
      BY <1>6, <2>1
    <3>2. reload'[d].alone = (Reloading = {})
      BY <1>6, <2>1
    <3>3. reload'[d].alone => Reloading = {}
      BY <3>2, Zenon
    <3> QED  BY <1>2, <1>10, <2>1, <3>1, <3>3
  <2>2. CASE d # c
    <3>1. d \in Reloading /\ d \in Clients \ {c}
      BY <1>10, <2>2 DEF Reloading
    <3>2. ~reload'[d].alone /\ reload'[d].new = reload[d].new /\ reload[d].new \in DOMAIN runtimes
      BY <1>7, <3>1 DEF HandleInv
    <3> QED  BY <1>2, <3>2
  <2> QED  BY <2>1, <2>2
<1>12. swappable' \in DOMAIN runtimes' /\ view' \in DOMAIN runtimes' /\ strayed' \in BOOLEAN
  BY <1>1, <1>2 DEF HandleInv
<1>13. ~(Reloading' = {})
  BY <1>10
<1>14. HandleInv'
  BY <1>2, <1>4, <1>9, <1>11, <1>12, <1>13 DEF HandleInv
<1> QED  BY <1>2, <1>3, <1>14

LEMMA SwapKeeps ==
    ASSUME HandleInv, NEW c \in Clients, SwapRuntime(c)
    PROVE  HandleInv' /\ UNCHANGED runtimes
<1>1. /\ UNCHANGED <<runtimes, view, strayed>> /\ swappable' = reload[c].new /\ reload[c].step = "built"
      /\ reload' = [reload EXCEPT ![c].step = "swapped"]
  BY DEF SwapRuntime
<1>2. reload[c] \in Reloads /\ reload = [d \in Clients |-> reload[d]]
  BY DEF HandleInv
<1>3. /\ \A d \in Clients \ {c} : reload'[d] = reload[d]
      /\ reload'[c] = [reload[c] EXCEPT !.step = "swapped"] /\ reload' = [d \in Clients |-> reload'[d]]
  BY <1>1, <1>2
<1>4. /\ reload'[c].step = "swapped" /\ reload'[c].new = reload[c].new /\ reload'[c].alone = reload[c].alone
      /\ reload'[c] \in Reloads
  BY <1>2, <1>3 DEF Reloads
<1>5. Reloads' = Reloads
  BY <1>1 DEF Reloads
<1>6. Reloading' = Reloading /\ c \in Reloading
  BY <1>1, <1>3, <1>4 DEF Reloading
<1>7. reload' \in [Clients -> Reloads']
  BY <1>3, <1>4, <1>5 DEF HandleInv
<1>8. ASSUME NEW d \in Reloading'
      PROVE  /\ reload'[d].new \in DOMAIN runtimes'
             /\ reload'[d].alone => Reloading' = {d}
             /\ reload'[d].alone /\ reload'[d].step = "swapped" => swappable' = reload'[d].new
  <2>1. CASE d = c
    BY <1>1, <1>4, <1>6, <2>1 DEF HandleInv
  <2>2. CASE d # c
    <3>1. reload'[d] = reload[d] /\ d \in Reloading
      BY <1>3, <1>6, <2>2 DEF Reloading
    <3>2. reload[d].alone => Reloading = {d}
      BY <3>1 DEF HandleInv
    <3>3. ~reload[d].alone
      BY <1>6, <2>2, <3>2
    <3> QED  BY <1>1, <3>1, <3>3 DEF HandleInv
  <2> QED  BY <2>1, <2>2
<1>9. swappable' \in DOMAIN runtimes'
  BY <1>1, <1>6 DEF HandleInv
<1> QED  BY <1>1, <1>6, <1>7, <1>8, <1>9 DEF HandleInv, IsSequence

LEMMA RefreshKeeps ==
    ASSUME HandleInv, NEW c \in Clients, RefreshView(c)
    PROVE  HandleInv' /\ UNCHANGED runtimes
<1>1. /\ UNCHANGED <<runtimes, swappable>> /\ view' = reload[c].new /\ reload[c].step = "swapped"
      /\ reload' = [reload EXCEPT ![c] = NoReload] /\ strayed' = ~reload[c].alone
  BY DEF RefreshView
<1>2. reload[c] \in Reloads /\ reload = [d \in Clients |-> reload[d]]
  BY DEF HandleInv
<1>3. /\ \A d \in Clients \ {c} : reload'[d] = reload[d]
      /\ reload'[c] = NoReload /\ reload' = [d \in Clients |-> reload'[d]]
  BY <1>1, <1>2
<1>4. Reloads' = Reloads /\ Len(runtimes) \in Nat
  BY <1>1, LenProperties DEF Reloads, HandleInv, IsSequence
<1>5. NoReload \in Reloads /\ NoReload.step = "idle"
  BY <1>4 DEF Reloads, NoReload
<1>6. Reloading' = Reloading \ {c} /\ c \in Reloading
  BY <1>1, <1>3, <1>5 DEF Reloading
<1>7. reload' \in [Clients -> Reloads']
  BY <1>3, <1>4, <1>5 DEF HandleInv
<1>8. ASSUME NEW d \in Reloading'
      PROVE  /\ reload'[d].new \in DOMAIN runtimes'
             /\ reload'[d].alone => Reloading' = {d}
             /\ reload'[d].alone /\ reload'[d].step = "swapped" => swappable' = reload'[d].new
  <2>1. reload'[d] = reload[d] /\ d \in Reloading /\ d # c
    BY <1>3, <1>6 DEF Reloading
  <2>2. reload[d].alone => Reloading = {d}
    BY <2>1 DEF HandleInv
  <2>3. ~reload[d].alone
    BY <1>6, <2>1, <2>2
  <2> QED  BY <1>1, <2>1, <2>3 DEF HandleInv
<1>9. view' \in DOMAIN runtimes' /\ strayed' \in BOOLEAN
  BY <1>1, <1>2, <1>6 DEF HandleInv, Reloads
<1>10. ~strayed' => view' = swappable'
  <2> SUFFICES ASSUME ~strayed'  PROVE view' = swappable'
    OBVIOUS
  <2>1. reload[c].alone
    BY <1>1, <1>2 DEF Reloads
  <2> QED  BY <1>1, <1>6, <2>1 DEF HandleInv
<1> QED  BY <1>1, <1>7, <1>8, <1>9, <1>10 DEF HandleInv, IsSequence

(* A call recorded in one instance.                                        *)
LEMMA RecordKeeps ==
    ASSUME HandleInv, UNCHANGED <<swappable, view, reload, strayed>>, NEW r \in DOMAIN runtimes, NEW kind,
           NEW outcome \in {"ok", "timeout", "error"}, Record(r, kind, outcome)
    PROVE  HandleInv' /\ Len(runtimes') = Len(runtimes) /\ DOMAIN runtimes' = DOMAIN runtimes
<1> DEFINE m == RecordCall(runtimes[r], kind, ModelFor(kind), 1, outcome)
<1>1. runtimes[r] \in ToSet(runtimes) /\ IsSequence(runtimes)
  BY DEF HandleInv, ToSet
<1>2. MetricsOK(m)
  <2>1. MetricsOK(runtimes[r])
    BY <1>1 DEF HandleInv
  <2> QED  BY <2>1, RecordCallOK
<1>3. runtimes' = [runtimes EXCEPT ![r] = m]
  BY DEF Record
<1> HIDE DEF m
<1>4. DOMAIN runtimes' = DOMAIN runtimes /\ runtimes' = [k \in DOMAIN runtimes' |-> runtimes'[k]]
  BY <1>3
<1>5. IsSequence(runtimes') /\ Len(runtimes') = Len(runtimes)
  BY <1>1, <1>4, MadeFrom
<1>6. ASSUME NEW k \in DOMAIN runtimes'  PROVE MetricsOK(runtimes'[k])
  <2>1. CASE k = r
    BY <1>2, <1>3, <1>4, <2>1
  <2>2. CASE k # r
    <3>1. runtimes'[k] = runtimes[k] /\ runtimes[k] \in ToSet(runtimes)
      BY <1>3, <1>4, <2>2 DEF ToSet
    <3> QED  BY <3>1 DEF HandleInv
  <2> QED  BY <2>1, <2>2
<1>7. \A n \in ToSet(runtimes') : MetricsOK(n)
  BY <1>6 DEF ToSet
<1> QED  BY <1>4, <1>5, <1>7, HandleKept

-----------------------------------------------------------------------------
(* The worker: archive, cycle, next document.                              *)

(* The worker.                                                             *)
LEMMA ChunkBodyGives ==
    ASSUME NEW d \in ToSet(Documents)
    PROVE  /\ IsSequence(ChunkBody(d.body)) /\ \A s \in ToSet(ChunkBody(d.body)) : IsChunk(s)
           /\ Len(ChunkBody(d.body)) \in Nat /\ DOMAIN ChunkBody(d.body) = 1..Len(ChunkBody(d.body))
<1>1. IsSequence(d.body.sentences) /\ \A s \in ToSet(d.body.sentences) : IsSequence(s.tokens)
  BY ExtractionAssumption DEF IsSequence
<1>2. IsSequence(ChunkBody(d.body)) /\ ToSet(ChunkBody(d.body)) \subseteq ToSet(d.body.sentences)
  BY <1>1, ChunksGive DEF ChunkBody
<1> QED  BY <1>1, <1>2, LenProperties DEF IsChunk, IsSequence

LEMMA HeadOfTodo ==
    ASSUME NEW s, IsSequence(s), s # <<>>
    PROVE  /\ Head(s) \in ToSet(s) /\ IsSequence(Tail(s)) /\ ToSet(Tail(s)) \subseteq ToSet(s)
<1>1. s \in Seq(ToSet(s)) /\ Len(s) \in Nat /\ Len(s) # 0
  BY EmptySeq, LenProperties DEF IsSequence
<1>2. Head(s) \in ToSet(s) /\ Tail(s) \in Seq(ToSet(s))
  BY <1>1, HeadTailProperties
<1>3. ToSet(Tail(s)) \subseteq ToSet(s)
  <2> DEFINE t == Tail(s)
  <2>1. t \in Seq(ToSet(s))
    BY <1>2
  <2> HIDE DEF t
  <2>2. DOMAIN t = 1..Len(t) /\ \A k \in 1..Len(t) : t[k] \in ToSet(s)
    BY <2>1, LenProperties
  <2>3. ToSet(t) \subseteq ToSet(s)
    BY <2>2 DEF ToSet
  <2> QED  BY <2>3 DEF t
<1> QED  BY <1>2, <1>3, SequenceIs

LEMMA NoResultOK ==
    ASSUME NEW r, NEW n, n = <<>>,
           r = [entities |-> n, claims |-> n, relationships |-> n, vectors |-> n]
    PROVE  ResultOK(r)
<1>1. IsSequence(n) /\ ToSet(n) = {}
  BY NothingIs
<1> HIDE DEF IsSequence
<1> QED  BY <1>1 DEF ResultOK, IsClaims, IsRelationships

LEMMA WorkFields ==
    ASSUME NEW step, NEW todo, NEW chunk, NEW kind, NEW runtime, NEW result, NEW w,
           w = [step |-> step, todo |-> todo, chunk |-> chunk, kind |-> kind, runtime |-> runtime,
                result |-> result]
    PROVE  /\ w.step = step /\ w.todo = todo /\ w.chunk = chunk /\ w.kind = kind /\ w.runtime = runtime
           /\ w.result = result
           /\ w = [step |-> w.step, todo |-> w.todo, chunk |-> w.chunk, kind |-> w.kind, runtime |-> w.runtime,
                   result |-> w.result]
<1>1. /\ w.step = step /\ w.todo = todo /\ w.chunk = chunk /\ w.kind = kind /\ w.runtime = runtime
      /\ w.result = result
  OBVIOUS
<1>2. w = [step |-> w.step, todo |-> w.todo, chunk |-> w.chunk, kind |-> w.kind, runtime |-> w.runtime,
           result |-> w.result]
  BY <1>1, Zenon
<1> QED  BY <1>1, <1>2

LEMMA StepAndTodo ==
    ASSUME NEW step, NEW todo, NEW chunk, NEW kind, NEW runtime, NEW result, NEW w, NEW x, NEW y,
           w = [step |-> step, todo |-> todo, chunk |-> chunk, kind |-> kind, runtime |-> runtime,
                result |-> result],
           NEW q, q = [w EXCEPT !.step = x, !.todo = y]
    PROVE  q = [step |-> x, todo |-> y, chunk |-> chunk, kind |-> kind, runtime |-> runtime,
                result |-> result]
OBVIOUS

LEMMA NoWorkIs == NoWork = [NoWork EXCEPT !.step = "idle", !.todo = <<>>]
<1> DEFINE n == <<>>
           r == [entities |-> n, claims |-> n, relationships |-> n, vectors |-> n]
<1>1. NoWork = [step |-> "idle", todo |-> n, chunk |-> 1, kind |-> 1, runtime |-> 0, result |-> r]
  BY DEF NoWork
<1> HIDE DEF n, r
<1>2. NoWork = [NoWork EXCEPT !.step = "idle", !.todo = n]
  <2>1. PICK q : q = [NoWork EXCEPT !.step = "idle", !.todo = n]
    OBVIOUS
  <2>2. q = [step |-> "idle", todo |-> n, chunk |-> 1, kind |-> 1, runtime |-> 0, result |-> r]
    BY <1>1, <2>1, StepAndTodo
  <2> QED  BY <1>1, <2>1, <2>2
<1> QED  BY <1>2 DEF n

(* A worker at rest or between documents.                                  *)
LEMMA FreshWorkOK ==
    ASSUME NEW step \in {"idle", "next", "infer", "save", "dead"}, NEW todo, IsSequence(todo), 
           \A d \in ToSet(todo) : d \in ToSet(Documents), NEW r, ResultOK(r),
           NEW w, w = [step |-> step, todo |-> todo, chunk |-> 1, kind |-> 1, runtime |-> 0, result |-> r],
           step \in {"infer", "save"} => todo # <<>>,
           step = "infer" => ChunkBody(Head(todo).body) # <<>>
    PROVE  WorkOK(w) /\ w.runtime = 0 /\ w.todo = todo /\ w.step = step
<1>1. 1 \in DOMAIN Kinds
  BY DEF Kinds
<1>2. step = "infer" => 1 \in DOMAIN ChunkBody(Head(todo).body)
  <2> SUFFICES ASSUME step = "infer"  PROVE 1 \in DOMAIN ChunkBody(Head(todo).body)
    OBVIOUS
  <2>1. Head(todo) \in ToSet(todo)
    BY HeadOfTodo
  <2> DEFINE b == ChunkBody(Head(todo).body)
  <2>2. IsSequence(b) /\ Len(b) \in Nat /\ DOMAIN b = 1..Len(b) /\ b # <<>>
    BY <2>1, ChunkBodyGives
  <2> HIDE DEF b
  <2>3. Len(b) # 0
    BY <2>2, EmptySeq DEF IsSequence
  <2>4. 1 \in DOMAIN b
    BY <2>2, <2>3
  <2> QED  BY <2>4 DEF b
<1>3. /\ w.step = step /\ w.todo = todo /\ w.chunk = 1 /\ w.kind = 1 /\ w.runtime = 0 /\ w.result = r
      /\ w = [step |-> w.step, todo |-> w.todo, chunk |-> w.chunk, kind |-> w.kind, runtime |-> w.runtime,
              result |-> w.result]
  BY WorkFields
<1>4. WorkOK(w)
  BY <1>1, <1>2, <1>3 DEF WorkOK
<1> QED  BY <1>3, <1>4

LEMMA RestingWorkOK ==
    ASSUME NEW w, NEW step \in {"idle", "next", "infer", "save", "dead"}, NEW todo, IsSequence(todo),
           \A d \in ToSet(todo) : d \in ToSet(Documents),
           w = [NoWork EXCEPT !.step = step, !.todo = todo],
           step \in {"infer", "save"} => todo # <<>>,
           step = "infer" => ChunkBody(Head(todo).body) # <<>>
    PROVE  WorkOK(w) /\ w.runtime = 0 /\ w.todo = todo /\ w.step = step
<1> DEFINE n == <<>>
           r == [entities |-> n, claims |-> n, relationships |-> n, vectors |-> n]
<1>1. NoWork = [step |-> "idle", todo |-> n, chunk |-> 1, kind |-> 1, runtime |-> 0, result |-> r]
  BY DEF NoWork
<1>2. ResultOK(r)
  BY NoResultOK
<1> HIDE DEF n, r
<1>3. w = [step |-> step, todo |-> todo, chunk |-> 1, kind |-> 1, runtime |-> 0, result |-> r]
  BY <1>1, StepAndTodo
<1>4. ASSUME NEW v, v = [step |-> step, todo |-> todo, chunk |-> 1, kind |-> 1, runtime |-> 0, result |-> r]
      PROVE  WorkOK(v) /\ v.runtime = 0 /\ v.todo = todo /\ v.step = step
  BY <1>2, <1>4, FreshWorkOK
<1> QED  BY <1>3, <1>4, Zenon

LEMMA StepOnly ==
    ASSUME NEW step, NEW todo, NEW chunk, NEW kind, NEW runtime, NEW result, NEW w, NEW x,
           w = [step |-> step, todo |-> todo, chunk |-> chunk, kind |-> kind, runtime |-> runtime,
                result |-> result],
           NEW q, q = [w EXCEPT !.step = x]
    PROVE  q = [step |-> x, todo |-> todo, chunk |-> chunk, kind |-> kind, runtime |-> runtime,
                result |-> result]
OBVIOUS

LEMMA DeadWorkOK ==
    ASSUME NEW w, w = [NoWork EXCEPT !.step = "dead"]
    PROVE  WorkOK(w) /\ w.runtime = 0 /\ w.todo = <<>> /\ w.step = "dead"
<1> DEFINE n == <<>>
           r == [entities |-> n, claims |-> n, relationships |-> n, vectors |-> n]
<1>1. NoWork = [step |-> "idle", todo |-> n, chunk |-> 1, kind |-> 1, runtime |-> 0, result |-> r]
  BY DEF NoWork
<1>2. ResultOK(r) /\ IsSequence(n) /\ ToSet(n) = {}
  BY NoResultOK, NothingIs
<1> HIDE DEF n, r
<1>3. w = [step |-> "dead", todo |-> n, chunk |-> 1, kind |-> 1, runtime |-> 0, result |-> r]
  BY <1>1, StepOnly
<1>4. ASSUME NEW v, v = [step |-> "dead", todo |-> n, chunk |-> 1, kind |-> 1, runtime |-> 0, result |-> r]
      PROVE  WorkOK(v) /\ v.runtime = 0 /\ v.todo = n /\ v.step = "dead"
  BY <1>2, <1>4, FreshWorkOK
<1>5. WorkOK(w) /\ w.runtime = 0 /\ w.todo = n /\ w.step = "dead"
  BY <1>3, <1>4, Zenon
<1> QED  BY <1>5 DEF n

LEMMA WorkSame ==
    ASSUME WorkInv, UNCHANGED work, Len(runtimes') >= Len(runtimes), DOMAIN runtimes \subseteq DOMAIN runtimes',
           Len(runtimes) \in Nat, Len(runtimes') \in Nat,
           archived' \in 0..Len(Documents), ArchivedIds \subseteq ArchivedIds', UNCHANGED cycles
    PROVE  WorkInv'
<1>1. work'.runtime \in 0..Len(runtimes')
  BY DEF WorkInv
<1> QED  BY <1>1 DEF WorkInv

(* The worker takes a step.                                                *)
LEMMA WorkMoves ==
    ASSUME WorkInv, WorkOK(work'), UNCHANGED <<archived, cycles>>,
           ToSet(work'.todo) \subseteq ToSet(work.todo),
           work'.runtime \in 0..Len(runtimes'), work'.step # "waiting"
    PROVE  WorkInv'
<1>1. ArchivedIds' = ArchivedIds
  BY DEF ArchivedIds
<1> QED  BY <1>1 DEF WorkInv

LEMMA WorkInitHolds == WorkInit /\ HandleInv => WorkInv
<1> SUFFICES ASSUME WorkInit, HandleInv  PROVE WorkInv
  OBVIOUS
<1>1. archived = 1 /\ cycles = 0 /\ work = NoWork
  BY DEF WorkInit
<1>2. archived \in 0..Len(Documents) /\ cycles \in 0..MaxCycles
  BY <1>1, ExtractionAssumption, EmptySeq, LenProperties
<1>3. Len(runtimes) \in Nat
  BY LenProperties DEF HandleInv, IsSequence
<1>5. WorkOK(work) /\ work.runtime = 0 /\ work.todo = <<>> /\ work.step = "idle"
  BY <1>1, NoWorkIs, NothingIs, RestingWorkOK
<1> QED  BY <1>2, <1>3, <1>5, NothingIs DEF WorkInv

LEMMA ArchiveDocumentKeeps ==
    ASSUME WorkInv, HandleInv, ArchiveDocument, UNCHANGED runtimes
    PROVE  WorkInv' /\ ArchivedIds \subseteq ArchivedIds'
<1>1. archived < Len(Documents) /\ archived' = archived + 1 /\ UNCHANGED <<work, cycles>>
  BY DEF ArchiveDocument
<1>2. archived \in 0..Len(Documents) /\ Len(Documents) \in Nat
  BY ExtractionAssumption, LenProperties DEF WorkInv
<1>3. archived' \in 0..Len(Documents)
  BY <1>1, <1>2
<1>4. 1..archived \subseteq 1..archived'
  BY <1>1, <1>2
<1>5. ArchivedIds \subseteq ArchivedIds'
  BY <1>4 DEF ArchivedIds
<1>6. Len(runtimes) \in Nat
  BY LenProperties DEF HandleInv, IsSequence
<1> QED  BY <1>1, <1>3, <1>5, <1>6, WorkSame

LEMMA StartCycleKeeps ==
    ASSUME WorkInv, HandleInv, StartCycle, UNCHANGED runtimes
    PROVE  WorkInv' /\ UNCHANGED archived
<1> DEFINE s == SubSeq(Documents, 1, archived)
<1>1. /\ work' = [NoWork EXCEPT !.step = "next", !.todo = s] /\ UNCHANGED archived
      /\ cycles < MaxCycles /\ cycles' = cycles + 1
  BY DEF StartCycle
<1>2. archived \in 0..Len(Documents) /\ Documents \in Seq(ToSet(Documents)) /\ cycles \in 0..MaxCycles
      /\ Len(Documents) \in Nat /\ DOMAIN Documents = 1..Len(Documents)
  BY ExtractionAssumption, LenProperties DEF WorkInv
<1>3. /\ s \in Seq(ToSet(Documents)) /\ Len(s) = archived
      /\ \A k \in 1..archived : s[k] = Documents[k]
  <2>1. 1..archived \subseteq 1..Len(Documents)
    BY <1>2
  <2>2. \A k \in 1..archived : Documents[k] \in ToSet(Documents)
    BY <1>2, <2>1 DEF ToSet
  <2>3. s = [k \in 1..archived |-> Documents[k]]
    <3>1. s = [k \in 1..((archived - 1) + 1) |-> Documents[(1 + k) - 1]]
      BY <1>2
    <3> HIDE DEF s
    <3> QED  BY <1>2, <3>1
  <2>4. s \in Seq(ToSet(Documents))
    BY <1>2, <2>2, <2>3
  <2>5. Len(s) = archived
    BY <1>2, <2>3
  <2> QED  BY <2>3, <2>4, <2>5
<1> HIDE DEF s
<1>4. DOMAIN s = 1..archived
  BY <1>3, LenProperties
<1>5. \A d \in ToSet(s) : d \in ToSet(Documents) /\ d.id \in ArchivedIds
  <2> SUFFICES ASSUME NEW k \in DOMAIN s  PROVE s[k] \in ToSet(Documents) /\ s[k].id \in ArchivedIds
    BY DEF ToSet
  <2>1. s[k] = Documents[k] /\ k \in 1..archived /\ k \in DOMAIN Documents
    BY <1>2, <1>3, <1>4
  <2> QED  BY <2>1 DEF ToSet, ArchivedIds
<1>6. IsSequence(s)
  BY <1>3, SequenceIs
<1>7. WorkOK(work') /\ work'.runtime = 0 /\ work'.todo = s /\ work'.step = "next"
  BY <1>1, <1>5, <1>6, RestingWorkOK
<1>8. ArchivedIds' = ArchivedIds
  BY <1>1 DEF ArchivedIds
<1>9. Len(runtimes) \in Nat
  BY LenProperties DEF HandleInv, IsSequence
<1> QED  BY <1>1, <1>2, <1>5, <1>7, <1>8, <1>9, ExtractionAssumption DEF WorkInv

LEMMA NextDocumentKeeps ==
    ASSUME WorkInv, HandleInv, NextDocument, UNCHANGED runtimes
    PROVE  WorkInv' /\ UNCHANGED archived
<1>1. /\ UNCHANGED <<archived, cycles>> /\ IsSequence(work.todo)
      /\ \A d \in ToSet(work.todo) : d \in ToSet(Documents)
  BY DEF NextDocument, WorkInv, WorkOK
<1>2. Len(runtimes) \in Nat
  BY LenProperties DEF HandleInv, IsSequence
<1>3. CASE work.todo = <<>>
  <2>1. work' = NoWork
    BY <1>3 DEF NextDocument
  <2>2. WorkOK(work') /\ work'.runtime = 0 /\ work'.todo = <<>> /\ work'.step = "idle"
    BY <2>1, NoWorkIs, NothingIs, RestingWorkOK
  <2> QED  BY <1>1, <1>2, <2>2, NothingIs, WorkMoves
<1>4. CASE work.todo # <<>> /\ Chunks = <<>>
  <2>1. work' = [NoWork EXCEPT !.step = "save", !.todo = work.todo]
    BY <1>4 DEF NextDocument, NoWork
  <2>2. WorkOK(work') /\ work'.runtime = 0 /\ work'.todo = work.todo /\ work'.step = "save"
    BY <1>1, <1>4, <2>1, RestingWorkOK
  <2> QED  BY <1>1, <1>2, <2>2, WorkMoves
<1>5. CASE work.todo # <<>> /\ Chunks # <<>>
  <2>1. work' = [NoWork EXCEPT !.step = "infer", !.todo = work.todo]
    BY <1>5 DEF NextDocument, NoWork
  <2>2. ChunkBody(Head(work.todo).body) # <<>>
    BY <1>5 DEF Chunks, Document
  <2>3. WorkOK(work') /\ work'.runtime = 0 /\ work'.todo = work.todo /\ work'.step = "infer"
    BY <1>1, <1>5, <2>1, <2>2, RestingWorkOK
  <2> QED  BY <1>1, <1>2, <2>3, WorkMoves
<1> QED  BY <1>3, <1>4, <1>5

-----------------------------------------------------------------------------
(* The worker: a call and its answer.                                      *)

(* What the worker works on.                                               *)
LEMMA AtWork ==
    ASSUME WorkInv, work.step \in {"infer", "waiting"}
    PROVE  /\ Document \in ToSet(Documents) /\ IsChunk(Chunk) /\ work.chunk \in DOMAIN Chunks
           /\ Len(Chunks) \in Nat /\ DOMAIN Chunks = 1..Len(Chunks)
           /\ IsSequence(work.todo) /\ work.todo # <<>>
<1>1. IsSequence(work.todo) /\ work.todo # <<>> /\ \A d \in ToSet(work.todo) : d \in ToSet(Documents)
  BY DEF WorkInv, WorkOK
<1>2. Document \in ToSet(Documents)
  BY <1>1, HeadOfTodo DEF Document
<1>3. work.chunk \in DOMAIN Chunks
  BY DEF WorkInv, WorkOK, Chunks, Document
<1>4. /\ IsSequence(Chunks) /\ \A s \in ToSet(Chunks) : IsChunk(s)
      /\ Len(Chunks) \in Nat /\ DOMAIN Chunks = 1..Len(Chunks)
  BY <1>2, ChunkBodyGives DEF Chunks
<1>5. Chunk \in ToSet(Chunks)
  BY <1>3 DEF Chunk, ToSet
<1> QED  BY <1>1, <1>2, <1>3, <1>4, <1>5

LEMMA StepAndRuntime ==
    ASSUME NEW step, NEW todo, NEW chunk, NEW kind, NEW runtime, NEW result, NEW w, NEW x, NEW y,
           w = [step |-> step, todo |-> todo, chunk |-> chunk, kind |-> kind, runtime |-> runtime,
                result |-> result],
           NEW q, q = [w EXCEPT !.step = x, !.runtime = y]
    PROVE  q = [step |-> x, todo |-> todo, chunk |-> chunk, kind |-> kind, runtime |-> y,
                result |-> result]
OBVIOUS

LEMMA InferKeeps ==
    ASSUME WorkInv, HandleInv, Infer, UNCHANGED runtimes
    PROVE  WorkInv' /\ UNCHANGED archived
<1>1. /\ work.step = "infer" /\ UNCHANGED <<archived, cycles>>
      /\ work' = [work EXCEPT !.step = "waiting", !.runtime = swappable]
  BY DEF Infer
<1>2. work = [step |-> work.step, todo |-> work.todo, chunk |-> work.chunk, kind |-> work.kind,
              runtime |-> work.runtime, result |-> work.result]
  BY DEF WorkInv, WorkOK
<1>3. work' = [step |-> "waiting", todo |-> work.todo, chunk |-> work.chunk, kind |-> work.kind,
               runtime |-> swappable, result |-> work.result]
  BY <1>1, <1>2, StepAndRuntime
<1>4. /\ work'.step = "waiting" /\ work'.todo = work.todo /\ work'.chunk = work.chunk /\ work'.kind = work.kind
      /\ work'.runtime = swappable /\ work'.result = work.result
      /\ work' = [step |-> work'.step, todo |-> work'.todo, chunk |-> work'.chunk, kind |-> work'.kind,
                  runtime |-> work'.runtime, result |-> work'.result]
  BY <1>3, WorkFields
<1>5. WorkOK(work')
  BY <1>1, <1>4 DEF WorkInv, WorkOK
<1>6. swappable \in DOMAIN runtimes /\ DOMAIN runtimes = 1..Len(runtimes) /\ Len(runtimes) \in Nat
  BY LenProperties DEF HandleInv, IsSequence
<1>7. ArchivedIds' = ArchivedIds
  BY <1>1 DEF ArchivedIds
<1>8. work'.runtime \in 0..Len(runtimes') /\ work'.runtime \in DOMAIN runtimes'
  BY <1>4, <1>6
<1> QED  BY <1>1, <1>4, <1>5, <1>7, <1>8 DEF WorkInv

LEMMA OneListChanges ==
    ASSUME NEW a, NEW b, NEW c, NEW d, NEW x, NEW r,
           r = [entities |-> a, claims |-> b, relationships |-> c, vectors |-> d]
    PROVE  /\ [r EXCEPT !.entities = x] = [entities |-> x, claims |-> b, relationships |-> c, vectors |-> d]
           /\ [r EXCEPT !.claims = x] = [entities |-> a, claims |-> x, relationships |-> c, vectors |-> d]
           /\ [r EXCEPT !.relationships = x] = [entities |-> a, claims |-> b, relationships |-> x, vectors |-> d]
           /\ [r EXCEPT !.vectors = x] = [entities |-> a, claims |-> b, relationships |-> c, vectors |-> x]
OBVIOUS

LEMMA ResultFrom ==
    ASSUME NEW a, NEW b, NEW c, NEW d, NEW q, IsSequence(a), IsClaims(b), IsRelationships(c),
           q = [entities |-> a, claims |-> b, relationships |-> c, vectors |-> d]
    PROVE  ResultOK(q)
<1>1. q.entities = a /\ q.claims = b /\ q.relationships = c /\ q.vectors = d
  OBVIOUS
<1>2. q = [entities |-> q.entities, claims |-> q.claims, relationships |-> q.relationships, vectors |-> q.vectors]
  BY <1>1, Zenon
<1> QED  BY <1>1, <1>2 DEF ResultOK

LEMMA MoreClaims ==
    ASSUME NEW s, IsClaims(s), NEW t, IsClaims(t)
    PROVE  IsClaims(s \o t)
<1> DEFINE u == s \o t
<1>1. IsSequence(u) /\ ToSet(u) = ToSet(s) \cup ToSet(t)
  BY Joined DEF IsClaims
<1> HIDE DEF u
<1>2. IsClaims(u)
  BY <1>1 DEF IsClaims
<1> QED  BY <1>2 DEF u

LEMMA MoreRelationships ==
    ASSUME NEW s, IsRelationships(s), NEW t, IsRelationships(t)
    PROVE  IsRelationships(s \o t)
<1> DEFINE u == s \o t
<1>1. IsSequence(u) /\ ToSet(u) = ToSet(s) \cup ToSet(t)
  BY Joined DEF IsRelationships
<1> HIDE DEF u
<1>2. IsRelationships(u)
  BY <1>1 DEF IsRelationships
<1> QED  BY <1>2 DEF u

LEMMA DecodedOK ==
    ASSUME IsChunk(Chunk), NEW r, ResultOK(r), NEW answer, answer = LocalInfer(Kind, Chunk)
    PROVE  ResultOK(Decoded(r, answer))
<1>1. answer.structured = None \/ Payload(answer.structured)
  BY AnswerGives
<1>2. /\ r = [entities |-> r.entities, claims |-> r.claims, relationships |-> r.relationships,
              vectors |-> r.vectors]
      /\ IsSequence(r.entities) /\ IsClaims(r.claims) /\ IsRelationships(r.relationships)
  BY DEF ResultOK
<1>3. CASE Kind = "ner" /\ answer.structured # None
  <2> DEFINE e == DecodeEntities(answer.structured, Chunk)
             a == r.entities \o e
  <2>1. Decoded(r, answer) = [r EXCEPT !.entities = a]
    BY <1>3 DEF Decoded
  <2>2. IsSequence(a)
    <3>1. IsSequence(e)
      BY <1>1, <1>3, DecodedEntities
    <3> HIDE DEF e
    <3> QED  BY <1>2, <3>1, Joined
  <2> HIDE DEF a
  <2>3. Decoded(r, answer) = [entities |-> a, claims |-> r.claims, relationships |-> r.relationships,
                              vectors |-> r.vectors]
    BY <1>2, <2>1, OneListChanges
  <2> QED  BY <1>2, <2>2, <2>3, ResultFrom
<1>4. CASE Kind = "claim_extraction"
  <2> DEFINE e == ClaimsOf(answer, Chunk)
             a == r.claims \o e
  <2>1. Decoded(r, answer) = [r EXCEPT !.claims = a]
    BY <1>4 DEF Decoded
  <2>2. IsClaims(a)
    <3>1. IsClaims(e)
      BY <1>1, ClaimsOfGive
    <3> HIDE DEF e
    <3> QED  BY <1>2, <3>1, MoreClaims
  <2> HIDE DEF a
  <2>3. Decoded(r, answer) = [entities |-> r.entities, claims |-> a, relationships |-> r.relationships,
                              vectors |-> r.vectors]
    BY <1>2, <2>1, OneListChanges
  <2> QED  BY <1>2, <2>2, <2>3, ResultFrom
<1>5. CASE Kind = "relation_extraction" /\ answer.structured # None
  <2> DEFINE e == DecodeRelationships(answer.structured)
             a == r.relationships \o e
  <2>1. Decoded(r, answer) = [r EXCEPT !.relationships = a]
    BY <1>5 DEF Decoded
  <2>2. IsRelationships(a)
    <3>1. IsRelationships(e)
      BY <1>1, <1>5, DecodedRelationships
    <3> HIDE DEF e
    <3> QED  BY <1>2, <3>1, MoreRelationships
  <2> HIDE DEF a
  <2>3. Decoded(r, answer) = [entities |-> r.entities, claims |-> r.claims, relationships |-> a,
                              vectors |-> r.vectors]
    BY <1>2, <2>1, OneListChanges
  <2> QED  BY <1>2, <2>2, <2>3, ResultFrom
<1>6. CASE Kind = "embedding"
  <2> DEFINE a == PushEmbedding(r.vectors, answer, work.chunk)
  <2>1. Decoded(r, answer) = [r EXCEPT !.vectors = a]
    BY <1>6 DEF Decoded
  <2> HIDE DEF a
  <2>2. Decoded(r, answer) = [entities |-> r.entities, claims |-> r.claims, relationships |-> r.relationships,
                              vectors |-> a]
    BY <1>2, <2>1, OneListChanges
  <2> QED  BY <1>2, <2>2, ResultFrom
<1>7. CASE /\ ~(Kind = "ner" /\ answer.structured # None) /\ Kind # "claim_extraction"
           /\ ~(Kind = "relation_extraction" /\ answer.structured # None) /\ Kind # "embedding"
  <2>1. Decoded(r, answer) = r
    BY <1>7 DEF Decoded
  <2> QED  BY <2>1
<1> QED  BY <1>3, <1>4, <1>5, <1>6, <1>7

LEMMA FiveFields ==
    ASSUME NEW step, NEW todo, NEW chunk, NEW kind, NEW runtime, NEW result, NEW w,
           w = [step |-> step, todo |-> todo, chunk |-> chunk, kind |-> kind, runtime |-> runtime,
                result |-> result],
           NEW a, NEW b, NEW c, NEW d, NEW e,
           NEW q, q = [w EXCEPT !.result = a, !.runtime = b, !.kind = c, !.chunk = d, !.step = e]
    PROVE  q = [step |-> e, todo |-> todo, chunk |-> d, kind |-> c, runtime |-> b, result |-> a]
OBVIOUS

LEMMA AdvancedOK ==
    ASSUME WorkInv, work.step = "waiting", NEW r, ResultOK(r)
    PROVE  /\ WorkOK(Advanced(r)) /\ Advanced(r).runtime = 0 /\ Advanced(r).todo = work.todo
           /\ Advanced(r).step # "waiting"
<1> DEFINE lastKind == work.kind = Len(Kinds)
           kind == IF lastKind THEN 1 ELSE work.kind + 1
           chunk == IF lastKind /\ work.chunk < Len(Chunks) THEN work.chunk + 1 ELSE work.chunk
           step == IF lastKind /\ work.chunk = Len(Chunks) THEN "save" ELSE "infer"
           q == Advanced(r)
<1>1. q = [work EXCEPT !.result = r, !.runtime = 0, !.kind = kind, !.chunk = chunk, !.step = step]
  BY DEF Advanced
<1>2. Len(Kinds) = 4 /\ DOMAIN Kinds = 1..4
  BY DEF Kinds
<1>3. work.kind \in 1..4
  BY <1>2 DEF WorkInv, WorkOK
<1>4. kind \in DOMAIN Kinds
  BY <1>2, <1>3
<1>5. /\ work.chunk \in 1..Len(Chunks) /\ Len(Chunks) \in Nat /\ IsSequence(work.todo) /\ work.todo # <<>>
      /\ DOMAIN Chunks = 1..Len(Chunks)
  BY AtWork
<1>6. chunk \in DOMAIN Chunks
  BY <1>5
<1>7. step \in {"save", "infer"}
  OBVIOUS
<1> HIDE DEF kind, chunk, step, q
<1>8. work = [step |-> work.step, todo |-> work.todo, chunk |-> work.chunk, kind |-> work.kind,
              runtime |-> work.runtime, result |-> work.result]
  BY DEF WorkInv, WorkOK
<1>9. q = [step |-> step, todo |-> work.todo, chunk |-> chunk, kind |-> kind, runtime |-> 0, result |-> r]
  BY <1>1, <1>8, FiveFields
<1>10. /\ q.step = step /\ q.todo = work.todo /\ q.chunk = chunk /\ q.kind = kind /\ q.runtime = 0 /\ q.result = r
       /\ q = [step |-> q.step, todo |-> q.todo, chunk |-> q.chunk, kind |-> q.kind, runtime |-> q.runtime,
               result |-> q.result]
  BY <1>9, WorkFields
<1>11. chunk \in DOMAIN ChunkBody(Head(work.todo).body)
  BY <1>6 DEF Chunks, Document
<1>12. WorkOK(q)
  BY <1>4, <1>5, <1>7, <1>10, <1>11 DEF WorkInv, WorkOK
<1> QED  BY <1>7, <1>10, <1>12 DEF q

LEMMA AnsweredKeeps ==
    ASSUME WorkInv, HandleInv, Answered, UNCHANGED <<swappable, view, reload, strayed>>
    PROVE  WorkInv' /\ HandleInv' /\ UNCHANGED <<archived, faults>>
<1> DEFINE answer == LocalInfer(Kind, Chunk)
<1>1. /\ work.step = "waiting" /\ UNCHANGED <<archived, cycles, faults>>
  BY DEF Answered
<1>2. /\ work' = IF answer.error = "panic" THEN [NoWork EXCEPT !.step = "dead"]
                 ELSE IF answer.error # None THEN Advanced(work.result)
                 ELSE Advanced(Decoded(work.result, answer))
      /\ IF answer.error \in {"backend", "panic"} THEN UNCHANGED runtimes
         ELSE Record(work.runtime, Kind, IF answer.error = None THEN "ok" ELSE "error")
  BY DEF Answered
<1>3. ResultOK(work.result) /\ work.runtime \in DOMAIN runtimes
  BY <1>1 DEF WorkInv, WorkOK
<1>4. ResultOK(Decoded(work.result, answer))
  BY <1>1, <1>3, AtWork, DecodedOK
<1> HIDE DEF answer
<1>5. HandleInv' /\ Len(runtimes') = Len(runtimes) /\ Len(runtimes) \in Nat
  <2>1. Len(runtimes) \in Nat
    BY LenProperties DEF HandleInv, IsSequence
  <2>2. CASE UNCHANGED runtimes
    BY <2>1, <2>2, HandleSame DEF handleVars
  <2>3. CASE Record(work.runtime, Kind, "ok")
    BY <1>3, <2>1, <2>3, RecordKeeps
  <2>4. CASE Record(work.runtime, Kind, "error")
    BY <1>3, <2>1, <2>4, RecordKeeps
  <2> QED  BY <1>2, <2>2, <2>3, <2>4
<1>6. WorkOK(work') /\ work'.runtime = 0 /\ ToSet(work'.todo) \subseteq ToSet(work.todo) /\ work'.step # "waiting"
  <2>1. CASE work' = [NoWork EXCEPT !.step = "dead"]
    <3>1. WorkOK(work') /\ work'.runtime = 0 /\ work'.todo = <<>> /\ work'.step = "dead"
      BY <2>1, DeadWorkOK
    <3> QED  BY <3>1, NothingIs
  <2>2. CASE work' = Advanced(work.result)
    BY <1>1, <1>3, <2>2, AdvancedOK
  <2>3. CASE work' = Advanced(Decoded(work.result, answer))
    BY <1>1, <1>4, <2>3, AdvancedOK
  <2> QED  BY <1>2, <2>1, <2>2, <2>3
<1>7. WorkInv'
  BY <1>1, <1>5, <1>6, WorkMoves
<1> QED  BY <1>1, <1>5, <1>7

LEMMA TimedOutKeeps ==
    ASSUME WorkInv, HandleInv, TimedOut, UNCHANGED <<swappable, view, reload, strayed>>
    PROVE  WorkInv' /\ HandleInv' /\ UNCHANGED archived /\ Fault
<1>1. /\ work.step = "waiting" /\ Fault /\ work' = Advanced(work.result)
      /\ Record(work.runtime, Kind, "timeout") \/ UNCHANGED runtimes
      /\ UNCHANGED <<archived, cycles>>
  BY DEF TimedOut
<1>2. ResultOK(work.result) /\ work.runtime \in DOMAIN runtimes
  BY <1>1 DEF WorkInv, WorkOK
<1>3. HandleInv' /\ Len(runtimes') = Len(runtimes) /\ Len(runtimes) \in Nat
  <2>1. Len(runtimes) \in Nat
    BY LenProperties DEF HandleInv, IsSequence
  <2>2. CASE UNCHANGED runtimes
    BY <2>1, <2>2, HandleSame DEF handleVars
  <2>3. CASE Record(work.runtime, Kind, "timeout")
    BY <1>2, <2>1, <2>3, RecordKeeps
  <2> QED  BY <1>1, <2>2, <2>3
<1>4. WorkOK(work') /\ work'.runtime = 0 /\ work'.todo = work.todo /\ work'.step # "waiting"
  BY <1>1, <1>2, AdvancedOK
<1>5. WorkInv'
  BY <1>1, <1>3, <1>4, WorkMoves
<1> QED  BY <1>1, <1>3, <1>5

-----------------------------------------------------------------------------
(* The list of extractions: merges and saves.                              *)

(* The list of extractions and the merges that have read it.               *)
LEMMA ListSame ==
    ASSUME ListInv, MergeInv, UNCHANGED <<extractions, mergeVars, saved>>, ArchivedIds \subseteq ArchivedIds'
    PROVE  ListInv' /\ MergeInv'
<1>1. UNCHANGED <<extractions, merge, gone, exposed, saved>>
  BY DEF mergeVars
<1>2. ListInv'
  BY <1>1 DEF ListInv
<1>3. MergeInv'
  <2>1. \A c \in Clients : merge[c] # NoMerge => \A x \in ToSet(merge[c].list) : x.document \in ArchivedIds'
    BY DEF MergeInv
  <2> QED  BY <1>1, <2>1 DEF MergeInv
<1> QED  BY <1>2, <1>3

LEMMA MergeFields ==
    ASSUME NEW a, NEW b, NEW c, NEW d, NEW e, NEW m,
           m = [step |-> "read", source |-> a, target |-> b, list |-> c, gone |-> d, saved |-> e]
    PROVE  /\ m.source = a /\ m.target = b /\ m.list = c /\ m.gone = d /\ m.saved = e
           /\ m = [step |-> "read", source |-> m.source, target |-> m.target, list |-> m.list,
                   gone |-> m.gone, saved |-> m.saved]
<1>1. m.source = a /\ m.target = b /\ m.list = c /\ m.gone = d /\ m.saved = e
  OBVIOUS
<1> QED  BY <1>1, Zenon

LEMMA ReadForMergeKeeps ==
    ASSUME ListInv, MergeInv, NEW c \in Clients, ReadForMerge(c), UNCHANGED <<archived, saved>>
    PROVE  ListInv' /\ MergeInv' /\ changes < MaxChanges /\ changes' = changes + 1
<1>1. /\ changes < MaxChanges /\ changes' = changes + 1 /\ UNCHANGED <<extractions, gone, exposed>>
  BY DEF ReadForMerge
<1>2. PICK s \in EntityNames(extractions), t \in Targets :
         /\ s # t
         /\ merge' = [merge EXCEPT ![c] = [step |-> "read", source |-> s, target |-> t,
                                           list |-> extractions, gone |-> gone, saved |-> saved]]
  BY DEF ReadForMerge
<1> DEFINE m == [step |-> "read", source |-> s, target |-> t,
                 list |-> extractions, gone |-> gone, saved |-> saved]
<1>3. /\ m.source = s /\ m.target = t /\ m.list = extractions /\ m.gone = gone /\ m.saved = saved
      /\ m = [step |-> "read", source |-> m.source, target |-> m.target, list |-> m.list,
              gone |-> m.gone, saved |-> m.saved]
  BY MergeFields
<1>4. merge' = [merge EXCEPT ![c] = m]
  BY <1>2
<1> HIDE DEF m
<1>5. ArchivedIds' = ArchivedIds
  BY DEF ArchivedIds
<1>6. ListInv'
  BY <1>1, <1>5 DEF ListInv
<1>7. /\ MergeOK(m) /\ \A x \in ToSet(m.list) : x.document \in ArchivedIds
      /\ m.saved <= saved /\ m.saved - exposed <= Len(m.list)
  <2>1. ListOK(m.list) /\ m.gone \cap MentionedIn(m.list) = {}
    BY <1>3 DEF ListInv
  <2>2. m.saved \in Nat /\ Len(m.list) <= m.saved /\ m.saved <= saved /\ m.saved - exposed <= Len(m.list)
    BY <1>3 DEF ListInv
  <2>3. m.source # m.target
    BY <1>2, <1>3
  <2>4. MergeOK(m)
    BY <1>3, <2>1, <2>2, <2>3 DEF MergeOK
  <2> QED  BY <1>3, <2>2, <2>4 DEF ListInv
<1>8. MergeInv'
  <2>1. merge = [d \in Clients |-> merge[d]]
    BY DEF MergeInv
  <2>2. merge' = [d \in Clients |-> merge'[d]]
    BY <1>4, <2>1
  <2>3. ASSUME NEW d \in Clients, merge'[d] # NoMerge
        PROVE  /\ MergeOK(merge'[d])
               /\ \A x \in ToSet(merge'[d].list) : x.document \in ArchivedIds'
               /\ merge'[d].saved <= saved' /\ merge'[d].saved - exposed' <= Len(merge'[d].list)
    <3>1. CASE d = c
      <4>1. merge'[d] = m
        BY <1>4, <2>1, <3>1
      <4> QED  BY <1>1, <1>5, <1>7, <4>1
    <3>2. CASE d # c
      <4>1. merge'[d] = merge[d]
        BY <1>4, <2>1, <3>2
      <4> QED  BY <1>1, <1>5, <2>3, <4>1 DEF MergeInv
    <3> QED  BY <3>1, <3>2
  <2> QED  BY <2>2, <2>3 DEF MergeInv
<1> QED  BY <1>1, <1>6, <1>8

(* The copy that was read before takes the place of the list: what is      *)
(* saved since is counted as exposed, what is merged away since is         *)
(* mentioned again.                                                        *)
LEMMA ReplaceKeeps ==
    ASSUME ListInv, MergeInv, NEW c \in Clients, ReplaceExtractions(c), UNCHANGED <<archived, saved>>
    PROVE  ListInv' /\ MergeInv' /\ UNCHANGED changes
<1> DEFINE m == merge[c]
<1>1. /\ m.step = "read" /\ UNCHANGED changes
      /\ extractions' = [i \in DOMAIN m.list |-> Rewritten(m.list[i], m.source, m.target)]
      /\ gone' = (m.gone \cup {m.source}) \ {m.target}
      /\ exposed' = exposed + (saved - m.saved)
      /\ merge' = [merge EXCEPT ![c] = NoMerge]
  BY DEF ReplaceExtractions
<1>2. m # NoMerge
  BY <1>1 DEF NoMerge
<1>3. /\ MergeOK(m) /\ \A x \in ToSet(m.list) : x.document \in ArchivedIds
      /\ m.saved <= saved /\ m.saved - exposed <= Len(m.list)
  BY <1>2 DEF MergeInv
<1>4. m.source # m.target /\ ListOK(m.list) /\ m.gone \cap MentionedIn(m.list) = {}
      /\ m.saved \in Nat /\ Len(m.list) <= m.saved
  BY <1>3 DEF MergeOK
<1>5. saved \in Nat /\ exposed \in Nat
  BY DEF ListInv
<1> HIDE DEF m
<1>6. /\ ListOK(extractions') /\ Len(extractions') = Len(m.list)
      /\ \A n \in MentionedIn(extractions') : n = m.target \/ (n # m.source /\ n \in MentionedIn(m.list))
      /\ \A y \in ToSet(extractions') : \E x \in ToSet(m.list) : y.document = x.document
  <2> DEFINE l == m.list
             s == m.source
             t == m.target
  <2>1. extractions' = [i \in DOMAIN l |-> Rewritten(l[i], s, t)]
    BY <1>1
  <2>2. ListOK(l) /\ s # t
    BY <1>4
  <2> HIDE DEF l, s, t
  <2>3. /\ ListOK(extractions') /\ Len(extractions') = Len(l)
        /\ \A n \in MentionedIn(extractions') : n = t \/ (n # s /\ n \in MentionedIn(l))
        /\ \A y \in ToSet(extractions') : \E x \in ToSet(l) : y.document = x.document
    <3>1. /\ DOMAIN extractions' = DOMAIN l /\ extractions' = [i \in DOMAIN extractions' |-> extractions'[i]]
          /\ \A i \in DOMAIN extractions' : extractions'[i] = Rewritten(l[i], s, t)
      BY <2>1
    <3>2. ListOK(extractions') /\ Len(extractions') = Len(l)
      BY <2>2, <3>1, RewrittenList
    <3>3. ASSUME NEW n \in MentionedIn(extractions')  PROVE n = t \/ (n # s /\ n \in MentionedIn(l))
      BY <2>2, <3>1, <3>3, RewrittenMentions
    <3>4. \A y \in ToSet(extractions') : \E x \in ToSet(l) : y.document = x.document
      BY <2>2, <3>1, RewrittenList
    <3> QED  BY <3>2, <3>3, <3>4
  <2> QED  BY <2>3 DEF l, s, t
<1>7. ArchivedIds' = ArchivedIds
  BY DEF ArchivedIds
<1>8. gone' \cap MentionedIn(extractions') = {}
  BY <1>1, <1>4, <1>6
<1>9. Len(m.list) \in Nat
  BY <1>4, LenProperties DEF ListOK, IsSequence
<1>10. /\ exposed' \in Nat /\ saved' = saved /\ saved - exposed' = m.saved - exposed /\ exposed <= exposed'
  BY <1>1, <1>3, <1>4, <1>5
<1>11. saved' - exposed' <= Len(extractions') /\ Len(extractions') <= saved'
  BY <1>3, <1>4, <1>5, <1>6, <1>9, <1>10
<1>12. \A y \in ToSet(extractions') : y.document \in ArchivedIds'
  BY <1>3, <1>6, <1>7
<1>13. ListInv'
  <2>1. (MentionedIn(extractions))' = MentionedIn(extractions')
    BY DEF MentionedIn
  <2> QED  BY <1>5, <1>6, <1>8, <1>10, <1>11, <1>12 DEF ListInv
<1>14. MergeInv'
  <2>1. merge = [d \in Clients |-> merge[d]]
    BY DEF MergeInv
  <2>2. merge' = [d \in Clients |-> merge'[d]]
    BY <1>1, <2>1
  <2>3. ASSUME NEW d \in Clients, merge'[d] # NoMerge
        PROVE  /\ MergeOK(merge'[d])
               /\ \A x \in ToSet(merge'[d].list) : x.document \in ArchivedIds'
               /\ merge'[d].saved <= saved' /\ merge'[d].saved - exposed' <= Len(merge'[d].list)
    <3>1. merge'[d] = merge[d]
      BY <1>1, <2>1, <2>3
    <3>2. /\ MergeOK(merge[d]) /\ \A x \in ToSet(merge[d].list) : x.document \in ArchivedIds
          /\ merge[d].saved <= saved /\ merge[d].saved - exposed <= Len(merge[d].list)
      BY <2>3, <3>1 DEF MergeInv
    <3>3. merge[d].saved \in Nat /\ ListOK(merge[d].list)
      BY <3>2 DEF MergeOK
    <3>4. Len(merge[d].list) \in Nat
      BY <3>3, LenProperties DEF ListOK, IsSequence
    <3>5. merge[d].saved - exposed' <= Len(merge[d].list)
      BY <1>5, <1>10, <3>2, <3>3, <3>4
    <3> QED  BY <1>7, <1>10, <3>1, <3>2, <3>5
  <2> QED  BY <2>2, <2>3 DEF MergeInv
<1> QED  BY <1>1, <1>13, <1>14

(* A document's extraction is saved.                                       *)
LEMMA SaveKeeps ==
    ASSUME ListInv, MergeInv, WorkInv, SaveExtraction, UNCHANGED <<merge, exposed>>,
           gone' = gone \ MentionedBy(extractions'[Len(extractions')])
    PROVE  ListInv' /\ MergeInv'
<1> DEFINE x == Merged(Document, work.result)
<1>1. /\ work.step = "save" /\ saved' = saved + 1 /\ UNCHANGED archived
      /\ extractions' = Append(extractions, x)
  BY DEF SaveExtraction
<1>2. /\ IsSequence(work.todo) /\ work.todo # <<>> /\ ResultOK(work.result)
      /\ \A d \in ToSet(work.todo) : d \in ToSet(Documents) /\ d.id \in ArchivedIds
  BY <1>1 DEF WorkInv, WorkOK
<1>3. Document \in ToSet(Documents) /\ Document.id \in ArchivedIds
  BY <1>2, HeadOfTodo DEF Document
<1>4. ExtractionOK(x) /\ x.document \in ArchivedIds
  BY <1>2, <1>3, MergedOK
<1> HIDE DEF x
<1>5. ListOK(extractions) /\ saved \in Nat /\ exposed \in Nat
  BY DEF ListInv
<1>6. /\ IsSequence(extractions') /\ ToSet(extractions') = ToSet(extractions) \cup {x}
      /\ extractions'[Len(extractions) + 1] = x /\ Len(extractions) \in Nat
  BY <1>1, <1>5, Appended DEF ListOK
<1>7. Len(extractions') = Len(extractions) + 1
  BY <1>1, <1>5, AppendProperties DEF ListOK, IsSequence
<1>8. gone' = gone \ MentionedBy(x)
  BY <1>6, <1>7
<1>9. ArchivedIds' = ArchivedIds
  BY <1>1 DEF ArchivedIds
<1>10. ListOK(extractions')
  BY <1>4, <1>5, <1>6 DEF ListOK
<1>11. gone' \cap MentionedIn(extractions') = {}
  <2> SUFFICES ASSUME NEW n \in gone', NEW y \in ToSet(extractions'), n \in MentionedBy(y)  PROVE FALSE
    BY DEF MentionedIn
  <2>1. n \in gone /\ n \notin MentionedBy(x)
    BY <1>8
  <2>2. y \in ToSet(extractions)
    BY <1>6, <2>1
  <2>3. n \in MentionedIn(extractions)
    BY <2>2 DEF MentionedIn
  <2> QED  BY <2>1, <2>3 DEF ListInv
<1>12. /\ saved - exposed <= Len(extractions) /\ Len(extractions) <= saved
       /\ \A y \in ToSet(extractions) : y.document \in ArchivedIds
  BY DEF ListInv
<1>13. saved' - exposed' <= Len(extractions') /\ Len(extractions') <= saved' /\ saved' \in Nat /\ exposed' \in Nat
  BY <1>1, <1>5, <1>6, <1>7, <1>12
<1>14. \A y \in ToSet(extractions') : y.document \in ArchivedIds'
  BY <1>4, <1>6, <1>9, <1>12
<1>15. ListInv'
  BY <1>10, <1>11, <1>13, <1>14 DEF ListInv
<1>16. MergeInv'
  <2>1. ASSUME NEW d \in Clients, merge[d] # NoMerge
        PROVE  /\ MergeOK(merge[d])
               /\ \A y \in ToSet(merge[d].list) : y.document \in ArchivedIds'
               /\ merge[d].saved <= saved' /\ merge[d].saved - exposed' <= Len(merge[d].list)
    <3>1. /\ MergeOK(merge[d]) /\ \A y \in ToSet(merge[d].list) : y.document \in ArchivedIds
          /\ merge[d].saved <= saved /\ merge[d].saved - exposed <= Len(merge[d].list)
      BY <2>1 DEF MergeInv
    <3>2. merge[d].saved \in Nat
      BY <3>1 DEF MergeOK
    <3> QED  BY <1>1, <1>5, <1>9, <3>1, <3>2
  <2>2. merge' = [d \in Clients |-> merge'[d]]
    BY DEF MergeInv
  <2> QED  BY <2>1, <2>2 DEF MergeInv
<1> QED  BY <1>15, <1>16

LEMMA SaveWorkKeeps ==
    ASSUME WorkInv, HandleInv, SaveExtraction, UNCHANGED runtimes
    PROVE  WorkInv'
<1>1. /\ work.step = "save" /\ UNCHANGED <<archived, cycles>>
      /\ work' = [NoWork EXCEPT !.step = "next", !.todo = Tail(work.todo)]
  BY DEF SaveExtraction
<1>2. IsSequence(work.todo) /\ work.todo # <<>> /\ \A d \in ToSet(work.todo) : d \in ToSet(Documents)
  BY <1>1 DEF WorkInv, WorkOK
<1>3. IsSequence(Tail(work.todo)) /\ ToSet(Tail(work.todo)) \subseteq ToSet(work.todo)
  BY <1>2, HeadOfTodo
<1>4. WorkOK(work') /\ work'.runtime = 0 /\ work'.todo = Tail(work.todo) /\ work'.step = "next"
  <2> DEFINE t == Tail(work.todo)
  <2>1. /\ IsSequence(t) /\ \A d \in ToSet(t) : d \in ToSet(Documents)
        /\ work' = [NoWork EXCEPT !.step = "next", !.todo = t]
    BY <1>1, <1>2, <1>3
  <2> HIDE DEF t
  <2>2. ASSUME NEW w, w = [NoWork EXCEPT !.step = "next", !.todo = t]
        PROVE  WorkOK(w) /\ w.runtime = 0 /\ w.todo = t /\ w.step = "next"
    BY <2>1, <2>2, RestingWorkOK
  <2>3. WorkOK(work') /\ work'.runtime = 0 /\ work'.todo = t /\ work'.step = "next"
    BY <2>1, <2>2, Zenon
  <2> QED  BY <2>3 DEF t
<1>5. Len(runtimes) \in Nat
  BY LenProperties DEF HandleInv, IsSequence
<1> QED  BY <1>1, <1>3, <1>4, <1>5, WorkMoves

LEMMA EmptyListHolds ==
    ASSUME extractions = <<>>, saved = 0, merge = [c \in Clients |-> NoMerge], gone = {}, exposed = 0
    PROVE  ListInv /\ MergeInv
<1>1. ListOK(extractions) /\ ToSet(extractions) = {} /\ Len(extractions) = 0
  BY NothingIs DEF ListOK
<1> QED  BY <1>1 DEF ListInv, MergeInv

-----------------------------------------------------------------------------
(* The read-only routes.                                                   *)

LEMMA ListsAre ==
    ASSUME NEW xs, IsSequence(xs), NEW lists, DOMAIN lists = DOMAIN xs, lists = [i \in DOMAIN lists |-> lists[i]],
           \A i \in DOMAIN xs : IsSequence(lists[i])
    PROVE  /\ lists \in Seq(Seq(UNION {ToSet(lists[i]) : i \in DOMAIN lists})) /\ Len(lists) = Len(xs)
           /\ DOMAIN xs = 1..Len(lists) /\ IsSequence(FlattenSeq(lists))
<1> DEFINE S == UNION {ToSet(lists[i]) : i \in DOMAIN lists}
<1>1. IsSequence(lists) /\ Len(lists) = Len(xs)
  BY MadeFrom
<1>2. Len(xs) \in Nat /\ DOMAIN xs = 1..Len(xs)
  BY LenProperties DEF IsSequence
<1>3. ASSUME NEW i \in DOMAIN lists  PROVE lists[i] \in Seq(S)
  <2>1. lists[i] \in Seq(ToSet(lists[i])) /\ ToSet(lists[i]) \subseteq S
    BY DEF IsSequence
  <2> HIDE DEF S
  <2> QED  BY <2>1, SeqDef
<1> HIDE DEF S
<1>4. lists \in [1..Len(lists) -> Seq(S)]
  BY <1>1, <1>2, <1>3
<1>5. lists \in Seq(Seq(S))
  BY <1>1, <1>2, <1>4, SeqDef
<1>6. IsSequence(FlattenSeq(lists))
  BY <1>5, FlattenGives, SequenceIs
<1> QED  BY <1>1, <1>2, <1>5, <1>6 DEF S

LEMMA ReadsAre ==
    ASSUME NEW xs, ListOK(xs)
    PROVE  /\ IsSequence(xs) /\ Len(xs) \in Nat /\ DOMAIN xs = 1..Len(xs)
           /\ \A i \in DOMAIN xs : IsSequence(xs[i].entities) /\ IsSequence(xs[i].claims)
<1>1. IsSequence(xs) /\ Len(xs) \in Nat /\ DOMAIN xs = 1..Len(xs)
  BY LenProperties DEF ListOK, IsSequence
<1>2. ASSUME NEW i \in DOMAIN xs  PROVE IsSequence(xs[i].entities) /\ IsSequence(xs[i].claims)
  BY DEF ListOK, ExtractionOK, IsClaims, ToSet
<1> QED  BY <1>1, <1>2

LEMMA MentionsAre ==
    ASSUME NEW xs, ListOK(xs)  PROVE IsSequence(Mentions(xs))
<1> DEFINE lists == [i \in DOMAIN xs |-> xs[i].entities]
<1>1. DOMAIN lists = DOMAIN xs /\ lists = [i \in DOMAIN lists |-> lists[i]] /\ \A i \in DOMAIN xs : IsSequence(lists[i])
  BY ReadsAre
<1>2. Mentions(xs) = FlattenSeq(lists)
  BY DEF Mentions
<1> HIDE DEF lists
<1> QED  BY <1>1, <1>2, ReadsAre, ListsAre

LEMMA ClaimsAre ==
    ASSUME NEW xs, ListOK(xs)  PROVE IsSequence(ListClaims(xs)) /\ Len(Export(xs).claims) = Len(ListClaims(xs))
<1> DEFINE lists == [i \in DOMAIN xs |-> xs[i].claims]
           pair(i, j) == [document |-> xs[i].document, claim |-> xs[i].claims[j]]
           per(i) == [j \in DOMAIN xs[i].claims |-> pair(i, j)]
           pairs == [i \in DOMAIN xs |-> per(i)]
<1>1. DOMAIN lists = DOMAIN xs /\ lists = [i \in DOMAIN lists |-> lists[i]] /\ \A i \in DOMAIN xs : IsSequence(lists[i])
  BY ReadsAre
<1>2. ListClaims(xs) = FlattenSeq(lists)
  BY DEF ListClaims
<1>3. Export(xs).claims = FlattenSeq(pairs)
  BY DEF Export
<1>4. ASSUME NEW i \in DOMAIN xs  PROVE IsSequence(per(i)) /\ Len(per(i)) = Len(lists[i])
  <2> DEFINE p == per(i)  c == xs[i].claims
  <2>1. DOMAIN p = DOMAIN c /\ p = [k \in DOMAIN p |-> p[k]]
    OBVIOUS
  <2>2. IsSequence(c) /\ lists[i] = c
    BY ReadsAre
  <2> HIDE DEF p, c
  <2>3. IsSequence(p) /\ Len(p) = Len(c)
    BY <2>1, <2>2, MadeFrom
  <2> QED  BY <2>2, <2>3 DEF p
<1> HIDE DEF per
<1>5. DOMAIN pairs = DOMAIN xs /\ pairs = [i \in DOMAIN pairs |-> pairs[i]]
      /\ \A i \in DOMAIN xs : IsSequence(pairs[i]) /\ Len(pairs[i]) = Len(lists[i])
  BY <1>4
<1> HIDE DEF lists, pairs
<1>6. /\ IsSequence(xs)
      /\ lists \in Seq(Seq(UNION {ToSet(lists[i]) : i \in DOMAIN lists})) /\ Len(lists) = Len(xs)
      /\ DOMAIN xs = 1..Len(lists) /\ IsSequence(FlattenSeq(lists))
  BY <1>1, ReadsAre, ListsAre
<1>7. /\ pairs \in Seq(Seq(UNION {ToSet(pairs[i]) : i \in DOMAIN pairs})) /\ Len(pairs) = Len(xs)
      /\ DOMAIN xs = 1..Len(pairs)
  BY <1>5, ReadsAre, ListsAre
<1>8. Len(FlattenSeq(pairs)) = Len(FlattenSeq(lists))
  <2> DEFINE S == UNION {ToSet(pairs[i]) : i \in DOMAIN pairs}
             T == UNION {ToSet(lists[i]) : i \in DOMAIN lists}
  <2>1. pairs \in Seq(Seq(S)) /\ lists \in Seq(Seq(T)) /\ Len(pairs) = Len(lists)
        /\ \A i \in 1..Len(pairs) : Len(pairs[i]) = Len(lists[i])
    BY <1>5, <1>6, <1>7
  <2> HIDE DEF S, T
  <2> QED  BY <2>1, FlattenLen
<1> QED  BY <1>2, <1>3, <1>6, <1>8

(* The place of the first mention of a name.                               *)
FirstPlace(s, n, i) == i \in 1..Len(s) /\ s[i].name = n /\ \A j \in 1..(i - 1) : s[j].name # n

LEMMA FirstPlaceIs ==
    ASSUME NEW s, IsSequence(s), NEW n, n \in {e.name : e \in ToSet(s)}
    PROVE  \E i : FirstPlace(s, n, i)
<1>1. Len(s) \in Nat /\ DOMAIN s = 1..Len(s)
  BY LenProperties DEF IsSequence
<1> DEFINE places == {i \in 1..Len(s) : s[i].name = n}
<1>2. places # {} /\ places \in SUBSET (1..Len(s))
  BY <1>1 DEF ToSet
<1>3. IsFiniteSet(1..Len(s)) /\ 1..Len(s) \subseteq Nat
  BY <1>1, FS_Interval
<1>4. IsFiniteSet(places) /\ places \in SUBSET Nat
  BY <1>2, <1>3, FS_Subset
<1>5. PICK i \in places : \A j \in places : i <= j
  <2> HIDE DEF places
  <2> QED  BY <1>2, <1>4, LeastOfFinite
<1>6. \A j \in 1..(i - 1) : s[j].name # n
  <2> SUFFICES ASSUME NEW j \in 1..(i - 1), s[j].name = n  PROVE FALSE
    OBVIOUS
  <2>1. j \in places
    BY <1>1
  <2>2. i <= j
    BY <1>5, <2>1
  <2> QED  BY <1>1, <2>2
<1> QED  BY <1>6 DEF FirstPlace

LEMMA OfIs ==
    ASSUME NEW xs, ListOK(xs), NEW n, NEW i, FirstPlace(Mentions(xs), n, i)
    PROVE  Of(xs, n)[1] = Mentions(xs)[i]
<1> DEFINE s == Mentions(xs)
           K == {e \in ToSet(s) : e.name = n}
           t == Of(xs, n)
<1>1. s \in Seq(ToSet(s)) /\ Len(s) \in Nat /\ DOMAIN s = 1..Len(s)
  BY MentionsAre, LenProperties DEF IsSequence
<1>2. t = Filtered(s, LAMBDA e : e.name = n)
  BY DEF Of
<1>3. \A k \in 1..Len(s) : s[k].name = n <=> s[k] \in K
  BY <1>1 DEF ToSet
<1> HIDE DEF s, K, t
<1>4. \A f : IsFilter(f, s, K) <=>
         f = [k \in 0..Len(s) |-> IF k = 0 THEN <<>>
                                  ELSE IF s[k].name = n THEN Append(f[k - 1], s[k]) ELSE f[k - 1]]
  BY <1>1, <1>3 DEF IsFilter
<1>5. \E f : IsFilter(f, s, K) /\ t = f[Len(s)]
  BY <1>1, <1>2, <1>4, FilterExists DEF Filtered
<1>6. PICK f : IsFilter(f, s, K) /\ t = f[Len(s)]
  BY <1>5
<1>7. i \in 1..Len(s) /\ s[i] \in K /\ \A j \in 1..(i - 1) : s[j] \notin K
  <2>1. i \in 1..Len(s) /\ s[i].name = n /\ \A j \in 1..(i - 1) : s[j].name # n
    BY DEF FirstPlace, s
  <2>2. \A j \in 1..(i - 1) : j \in 1..Len(s)
    BY <1>1, <2>1
  <2> QED  BY <1>3, <2>1, <2>2
<1>8. f[Len(s)][1] = s[i]
  BY <1>1, <1>6, <1>7, FilterFirst
<1> QED  BY <1>6, <1>8 DEF s, t

LEMMA CutLeaves ==
    ASSUME NEW t, IsSequence(t), NEW limit \in Nat, Len(t) <= limit \/ Len(t) <= 1
    PROVE  Cut(t, limit) = t
<1>1. Len(t) \in Nat /\ t \in Seq(ToSet(t))
  BY LenProperties DEF IsSequence
<1> DEFINE m == Max({limit, 1})
<1>2. m \in {limit, 1} /\ \A y \in {limit, 1} : m >= y
  <2>1. \E x \in {limit, 1} : \A y \in {limit, 1} : x >= y
    <3>1. CASE limit >= 1
      BY <3>1
    <3>2. CASE limit < 1
      BY <3>2
    <3> QED  BY <3>1, <3>2
  <2> QED  BY <2>1 DEF Max
<1>3. m \in Nat /\ m >= limit /\ m >= 1
  BY <1>2
<1> HIDE DEF m
<1>4. Len(t) <= m
  BY <1>1, <1>3
<1>5. Min({Len(t), m}) = Len(t)
  <2> DEFINE S == {Len(t), m}
  <2>1. \E x \in S : \A y \in S : x <= y
    BY <1>1, <1>3, <1>4
  <2>2. Min(S) \in S /\ \A y \in S : Min(S) <= y
    <3> HIDE DEF S
    <3> QED  BY <2>1 DEF Min
  <2>3. Min(S) <= Len(t)
    BY <2>2
  <2> QED  BY <1>1, <1>3, <1>4, <2>2, <2>3
<1>6. SubSeq(t, 1, Len(t)) = t
  BY <1>1, SubSeqProperties, LenProperties, SeqDef
<1> QED  BY <1>5, <1>6 DEF Cut, m

(* The first mentions are those in a first place, each name's once.        *)
LEMMA FirstMentionsAre ==
    ASSUME NEW xs, ListOK(xs)
    PROVE  /\ IsSequence(FirstMentions(xs))
           /\ \A k \in 1..Len(FirstMentions(xs)) : \E i :
                 FirstPlace(Mentions(xs), FirstMentions(xs)[k].name, i) /\ FirstMentions(xs)[k] = Mentions(xs)[i]
           /\ \A n, i : FirstPlace(Mentions(xs), n, i) =>
                 \E k \in 1..Len(FirstMentions(xs)) : FirstMentions(xs)[k] = Mentions(xs)[i]
           /\ \A k, l \in 1..Len(FirstMentions(xs)) :
                 FirstMentions(xs)[k].name = FirstMentions(xs)[l].name => k = l
<1> DEFINE all == Mentions(xs)
           len == Len(all)
           places == [i \in DOMAIN all |-> i]
           P(i) == \A j \in 1..(i - 1) : all[j].name # all[i].name
           K == {i \in 1..len : P(i)}
           firsts == Filtered(places, LAMBDA i : \A j \in 1..(i - 1) : all[j].name # all[i].name)
           m == FirstMentions(xs)
<1>1. IsSequence(all) /\ len \in Nat /\ DOMAIN all = 1..len
  BY MentionsAre, LenProperties DEF IsSequence
<1>2. m = [k \in DOMAIN firsts |-> all[firsts[k]]]
  BY DEF FirstMentions
<1>3. places \in Seq(1..len) /\ Len(places) = len /\ \A k \in 1..len : places[k] = k
  <2>1. places \in [1..len -> 1..len]
    BY <1>1
  <2>2. places \in Seq(1..len)
    BY <1>1, <2>1, SeqDef
  <2>3. DOMAIN places = 1..len /\ DOMAIN places = 1..Len(places) /\ Len(places) \in Nat
    BY <2>1, <2>2, LenProperties
  <2>4. Len(places) = len
    BY <1>1, <2>3
  <2> QED  BY <1>1, <2>2, <2>4
<1>4. \A k \in 1..Len(places) : P(places[k]) <=> places[k] \in K
  BY <1>3
<1>5. \E f : IsFilter(f, places, K) /\ firsts = f[Len(places)]
  <2> HIDE DEF K, places, all, P
  <2>1. \A f : IsFilter(f, places, K) <=>
         f = [k \in 0..Len(places) |-> IF k = 0 THEN <<>>
               ELSE IF P(places[k]) THEN Append(f[k - 1], places[k]) ELSE f[k - 1]]
    BY <1>1, <1>3, <1>4 DEF IsFilter
  <2> QED  BY <1>3, <2>1, FilterExists DEF Filtered, P
<1> HIDE DEF firsts, places, P, len
<1>6. PICK f : IsFilter(f, places, K) /\ firsts = f[Len(places)]
  BY <1>5
<1>7. firsts \in Seq(1..len) /\ ToSet(firsts) = ToSet(places) \cap K
  <2> DEFINE I == 1..len
  <2>1. places \in Seq(I)
    BY <1>3
  <2> HIDE DEF I, K
  <2>2. firsts \in Seq(I) /\ ToSet(firsts) = ToSet(places) \cap K
    BY <1>6, <2>1, FilterGives
  <2> QED  BY <2>2 DEF I
<1>8. ToSet(firsts) = K
  <2>1. K \subseteq ToSet(places)
    BY <1>3, LenProperties DEF ToSet
  <2> QED  BY <1>7, <2>1
<1>9. \A k, l \in 1..Len(firsts) : firsts[k] = firsts[l] => k = l
  <2>1. \A k, l \in 1..Len(places) : places[k] \in K /\ places[k] = places[l] => k = l
    BY <1>3
  <2> QED  BY <1>3, <1>6, <2>1, FilterDistinct
<1>10. DOMAIN firsts = 1..Len(firsts) /\ Len(firsts) \in Nat /\ IsSequence(firsts)
  BY <1>7, LenProperties, SequenceIs
<1>11. IsSequence(m) /\ Len(m) = Len(firsts) /\ \A k \in 1..Len(firsts) : m[k] = all[firsts[k]]
  <2>1. DOMAIN m = DOMAIN firsts /\ m = [k \in DOMAIN m |-> m[k]] /\ \A k \in 1..Len(firsts) : m[k] = all[firsts[k]]
    BY <1>2, <1>10
  <2> HIDE DEF m
  <2> QED  BY <1>10, <2>1, MadeFrom
<1>12. \A k \in 1..Len(firsts) : firsts[k] \in K
  BY <1>8, <1>10 DEF ToSet
<1> HIDE DEF m, all
<1>13. ASSUME NEW i \in K  PROVE FirstPlace(all, all[i].name, i)
  BY DEF FirstPlace, P, len
<1>14. ASSUME NEW n, NEW i, FirstPlace(all, n, i)  PROVE i \in K
  BY <1>14 DEF FirstPlace, P, len
<1>15. ASSUME NEW a \in K, NEW b \in K, all[a].name = all[b].name  PROVE a = b
  <2>1. ~(a < b) /\ ~(b < a)
    <3>1. ASSUME a < b  PROVE FALSE
      <4>1. a \in 1..(b - 1)
        BY <1>1, <3>1
      <4> QED  BY <4>1, <1>15 DEF P
    <3>2. ASSUME b < a  PROVE FALSE
      <4>1. b \in 1..(a - 1)
        BY <1>1, <3>2
      <4> QED  BY <4>1, <1>15 DEF P
    <3> QED  BY <3>1, <3>2
  <2> QED  BY <1>1, <2>1
<1>16. \A k \in 1..Len(m) : \E i : FirstPlace(all, m[k].name, i) /\ m[k] = all[i]
  BY <1>11, <1>12, <1>13
<1>17. \A n, i : FirstPlace(all, n, i) => \E k \in 1..Len(m) : m[k] = all[i]
  <2> SUFFICES ASSUME NEW n, NEW i, FirstPlace(all, n, i)  PROVE \E k \in 1..Len(m) : m[k] = all[i]
    OBVIOUS
  <2>1. i \in ToSet(firsts)
    BY <1>8, <1>14
  <2>2. PICK k \in 1..Len(firsts) : firsts[k] = i
    BY <2>1, <1>10 DEF ToSet
  <2> QED  BY <2>2, <1>11
<1>18. \A k, l \in 1..Len(m) : m[k].name = m[l].name => k = l
  <2> SUFFICES ASSUME NEW k \in 1..Len(m), NEW l \in 1..Len(m), m[k].name = m[l].name  PROVE k = l
    OBVIOUS
  <2>1. firsts[k] = firsts[l]
    BY <1>11, <1>12, <1>15
  <2> QED  BY <2>1, <1>9, <1>11
<1> QED  BY <1>11, <1>16, <1>17, <1>18 DEF m, all

(* A search for a name finds its first mention and no other.               *)
LEMMA FoundIs ==
    ASSUME NEW xs, ListOK(xs), NEW n, NEW i, FirstPlace(Mentions(xs), n, i)
    PROVE  Filtered(FirstMentions(xs), LAMBDA e : e.name \in {n}) = <<Mentions(xs)[i]>>
<1> DEFINE s == FirstMentions(xs)
           x == Mentions(xs)[i]
           K == {e \in ToSet(s) : e.name = n}
           t == Filtered(s, LAMBDA e : e.name \in {n})
<1>1. s \in Seq(ToSet(s)) /\ Len(s) \in Nat /\ DOMAIN s = 1..Len(s)
  BY FirstMentionsAre, LenProperties DEF IsSequence
<1>2. \A k \in 1..Len(s) : s[k].name \in {n} <=> s[k] \in K
  BY <1>1 DEF ToSet
<1>3. \A k \in 1..Len(s) : s[k].name = n => s[k] = x
  <2> SUFFICES ASSUME NEW k \in 1..Len(s), s[k].name = n  PROVE s[k] = x
    OBVIOUS
  <2>1. PICK j : FirstPlace(Mentions(xs), s[k].name, j) /\ s[k] = Mentions(xs)[j]
    BY FirstMentionsAre
  <2>2. j = i
    <3>1. IsSequence(Mentions(xs))
      BY MentionsAre
    <3>2. Len(Mentions(xs)) \in Nat
      BY <3>1, LenProperties DEF IsSequence
    <3> QED  BY <2>1, <3>2 DEF FirstPlace
  <2> QED  BY <2>1, <2>2
<1>4. \E k \in 1..Len(s) : s[k] = x
  BY FirstMentionsAre
<1>5. x.name = n
  BY DEF FirstPlace
<1>6. \A k, l \in 1..Len(s) : s[k].name = s[l].name => k = l
  BY FirstMentionsAre
<1>7. K = {x}
  BY <1>1, <1>3, <1>4, <1>5 DEF ToSet
<1>8. \E f : IsFilter(f, s, K) /\ t = f[Len(s)]
  <2> HIDE DEF s, K
  <2>1. \A f : IsFilter(f, s, K) <=>
         f = [k \in 0..Len(s) |-> IF k = 0 THEN <<>>
                                  ELSE IF s[k].name \in {n} THEN Append(f[k - 1], s[k]) ELSE f[k - 1]]
    BY <1>1, <1>2 DEF IsFilter
  <2> QED  BY <1>1, <2>1, FilterExists DEF Filtered
<1> HIDE DEF s, x, K, t
<1>9. PICK f : IsFilter(f, s, K) /\ t = f[Len(s)]
  BY <1>8
<1>10. t \in Seq(ToSet(s)) /\ ToSet(t) = ToSet(s) \cap K
  BY <1>1, <1>9, FilterGives
<1>11. ToSet(t) = {x} /\ Len(t) \in Nat /\ DOMAIN t = 1..Len(t)
  <2>1. x \in ToSet(s)
    BY <1>1, <1>4 DEF ToSet
  <2> QED  BY <1>7, <1>10, <2>1, LenProperties
<1>12. \A k, l \in 1..Len(t) : t[k] = t[l] => k = l
  <2>1. \A k, l \in 1..Len(s) : s[k] \in K /\ s[k] = s[l] => k = l
    BY <1>6
  <2> QED  BY <1>1, <1>9, <2>1, FilterDistinct
<1>13. \A k \in 1..Len(t) : t[k] = x
  BY <1>11 DEF ToSet
<1>14. Len(t) = 1
  <2>1. Len(t) # 0
    BY <1>11 DEF ToSet
  <2>2. ~(Len(t) >= 2)
    <3> SUFFICES ASSUME Len(t) >= 2  PROVE FALSE
      OBVIOUS
    <3>1. 1 \in 1..Len(t) /\ 2 \in 1..Len(t)
      BY <1>11
    <3>2. t[1] = t[2]
      BY <3>1, <1>13
    <3> QED  BY <3>1, <3>2, <1>12
  <2> QED  BY <1>11, <2>1, <2>2
<1>15. t = <<x>>
  <2>1. t[1] = x
    BY <1>13, <1>14
  <2> QED  BY <1>10, <1>11, <1>14, <2>1, SeqDef, LenProperties
<1> QED  BY <1>15 DEF t, s, x

PageClaims(xs, n) == Filtered(ListClaims(xs), LAMBDA c : n \in {c.subject, c.object})
FoundClaims(xs, n) ==
    Filtered(ListClaims(xs), LAMBDA c : {c.subject, c.predicate, c.object, c.text} \cap {n} # {})

(* A search for a name finds every claim of its entity's page.             *)
LEMMA PageIsFound ==
    ASSUME NEW xs, ListOK(xs), NEW n
    PROVE  ToSet(PageClaims(xs, n)) \subseteq ToSet(Cut(FoundClaims(xs, n), Len(ListClaims(xs))))
<1> DEFINE s == ListClaims(xs)
           K == {c \in ToSet(s) : n \in {c.subject, c.object}}
           J == {c \in ToSet(s) : {c.subject, c.predicate, c.object, c.text} \cap {n} # {}}
           t == PageClaims(xs, n)
           u == FoundClaims(xs, n)
<1>1. s \in Seq(ToSet(s)) /\ Len(s) \in Nat /\ DOMAIN s = 1..Len(s)
  BY ClaimsAre, LenProperties DEF IsSequence
<1>2. \A k \in 1..Len(s) : /\ n \in {s[k].subject, s[k].object} <=> s[k] \in K
                           /\ {s[k].subject, s[k].predicate, s[k].object, s[k].text} \cap {n} # {} <=> s[k] \in J
  BY <1>1 DEF ToSet
<1>3. K \subseteq J /\ J \subseteq ToSet(s)
  OBVIOUS
<1>0. /\ t = Filtered(s, LAMBDA c : n \in {c.subject, c.object})
      /\ u = Filtered(s, LAMBDA c : {c.subject, c.predicate, c.object, c.text} \cap {n} # {})
  BY DEF PageClaims, FoundClaims
<1> HIDE DEF s, K, J, t, u
<1>4. \E f : IsFilter(f, s, K) /\ t = f[Len(s)]
  <2>1. \A f : IsFilter(f, s, K) <=>
         f = [k \in 0..Len(s) |-> IF k = 0 THEN <<>>
                ELSE IF n \in {s[k].subject, s[k].object} THEN Append(f[k - 1], s[k]) ELSE f[k - 1]]
    BY <1>1, <1>2 DEF IsFilter
  <2> QED  BY <1>0, <1>1, <2>1, FilterExists DEF Filtered
<1>5. \E f : IsFilter(f, s, J) /\ u = f[Len(s)]
  <2> DEFINE P(k) == {s[k].subject, s[k].predicate, s[k].object, s[k].text} \cap {n} # {}
  <2>0. \A k \in 1..Len(s) : P(k) <=> s[k] \in J
    BY <1>2
  <2> HIDE DEF P
  <2>1. \A f : IsFilter(f, s, J) <=>
         f = [k \in 0..Len(s) |-> IF k = 0 THEN <<>>
                ELSE IF P(k) THEN Append(f[k - 1], s[k]) ELSE f[k - 1]]
    BY <1>1, <2>0 DEF IsFilter
  <2> QED  BY <1>0, <1>1, <2>1, FilterExists DEF Filtered, P
<1>6. IsSequence(t) /\ ToSet(t) = ToSet(s) \cap K
  BY <1>1, <1>4, FilterGives, SequenceIs
<1>7. IsSequence(u) /\ ToSet(u) = ToSet(s) \cap J /\ Len(u) <= Len(s)
  BY <1>1, <1>5, FilterGives, FilterShorter, SequenceIs
<1>8. Cut(u, Len(s)) = u
  BY <1>1, <1>7, CutLeaves
<1> QED  BY <1>3, <1>6, <1>7, <1>8 DEF t, u, s

LEMMA ListAgrees == ASSUME NEW xs, ListOK(xs)  PROVE Agree(xs)
<1>1. IsSequence(Mentions(xs)) /\ IsSequence(ListClaims(xs)) /\ Len(Export(xs).claims) = Len(ListClaims(xs))
  BY MentionsAre, ClaimsAre
<1>2. Len(ListClaims(xs)) \in Nat
  BY <1>1, LenProperties DEF IsSequence
<1>3. ASSUME NEW n \in EntityNames(xs)
      PROVE  LET page == GetEntity(xs, n)
                 found == Search(<<>>, xs, {n}, Len(ListClaims(xs)))
             IN  /\ page.entity = ListEntities(xs)[n]
                 /\ page.documents = EntitySummary(xs)[n].documents
                 /\ Export(xs).entities[n].documents = page.documents
                 /\ Export(xs).entities[n].sum = EntitySummary(xs)[n].sum
                 /\ found.hits.entities = <<page.entity>>
                 /\ ToSet(page.claims) \subseteq ToSet(found.hits.claims)
  <2> DEFINE page == GetEntity(xs, n)
             limit == Len(ListClaims(xs))
             found == Search(<<>>, xs, {n}, limit)
             named == Filtered(FirstMentions(xs), LAMBDA e : e.name \in {n})
  <2>1. page.entity = Of(xs, n)[1] /\ page.documents = Len(Of(xs, n)) /\ page.claims = PageClaims(xs, n)
    BY DEF GetEntity, PageClaims
  <2>2. ListEntities(xs)[n] = Of(xs, n)[1]
    BY DEF ListEntities
  <2>3. EntitySummary(xs)[n].documents = Len(Of(xs, n)) /\ EntitySummary(xs)[n].sum = Sum(Of(xs, n))
    BY DEF EntitySummary
  <2>4. Export(xs).entities[n].documents = Len(Of(xs, n)) /\ Export(xs).entities[n].sum = Sum(Of(xs, n))
    BY DEF Export
  <2>5. found.hits.entities = Cut(named, limit) /\ found.hits.claims = Cut(FoundClaims(xs, n), limit)
    BY DEF Search, FoundClaims
  <2>6. PICK i : FirstPlace(Mentions(xs), n, i)
    BY <1>1, FirstPlaceIs DEF EntityNames
  <2>7. Of(xs, n)[1] = Mentions(xs)[i] /\ named = <<Mentions(xs)[i]>>
    BY <2>6, OfIs, FoundIs
  <2>8. Cut(named, limit) = named
    <3> DEFINE x == Mentions(xs)[i]  single == <<x>>
    <3>1. single \in Seq({x}) /\ Len(single) = 1 /\ limit \in Nat
      BY <1>2
    <3> HIDE DEF single, limit
    <3>2. IsSequence(single) /\ (Len(single) <= limit \/ Len(single) <= 1)
      BY <3>1, SequenceIs
    <3>3. Cut(single, limit) = single
      BY <3>1, <3>2, CutLeaves
    <3> QED  BY <2>7, <3>3 DEF single
  <2>9. ToSet(PageClaims(xs, n)) \subseteq ToSet(Cut(FoundClaims(xs, n), limit))
    BY PageIsFound
  <2> HIDE DEF page, limit, found, named
  <2>10. /\ page.entity = ListEntities(xs)[n]
         /\ page.documents = EntitySummary(xs)[n].documents
         /\ Export(xs).entities[n].documents = page.documents
         /\ Export(xs).entities[n].sum = EntitySummary(xs)[n].sum
         /\ found.hits.entities = <<page.entity>>
         /\ ToSet(page.claims) \subseteq ToSet(found.hits.claims)
    BY <2>1, <2>2, <2>3, <2>4, <2>5, <2>7, <2>8, <2>9
  <2> QED  BY <2>10 DEF page, found, limit
<1> QED  BY <1>1, <1>3 DEF Agree

-----------------------------------------------------------------------------
(* Every request, the worker, a restart; the theorems.                     *)

(* All of it.                                                              *)
LEMMA GatewayInitHolds == Init => GatewayInv
<1> SUFFICES ASSUME Init  PROVE GatewayInv
  OBVIOUS
<1>1. RegistryInv
  BY RegistryInitHolds DEF Init
<1>2. HandleInv
  BY HandleInitHolds DEF Init
<1>3. WorkInv
  BY <1>2, WorkInitHolds DEF Init
<1>4. ListInv /\ MergeInv
  BY EmptyListHolds DEF Init, WorkInit
<1> QED  BY <1>1, <1>2, <1>3, <1>4 DEF GatewayInv

LEMMA HandleInitAgain == HandleInit' => HandleInv'
BY HandleInitHolds, PTL

LEMMA WorkStays ==
    ASSUME WorkInv, HandleInv, UNCHANGED <<runtimes, archived, work, cycles>>
    PROVE  WorkInv' /\ ArchivedIds' = ArchivedIds
<1>1. Len(runtimes) \in Nat
  BY LenProperties DEF HandleInv, IsSequence
<1>2. ArchivedIds' = ArchivedIds
  BY DEF ArchivedIds
<1>3. archived' \in 0..Len(Documents)
  BY DEF WorkInv
<1> QED  BY <1>1, <1>2, <1>3, WorkSame

LEMMA RegistryRequestKeepsAll ==
    ASSUME GatewayInv, NEW c \in Clients, RegistryRequest(c)
    PROVE  GatewayInv'
<1>1. RegistryStep(c) /\ UNCHANGED handleVars /\ UNCHANGED workVars /\ UNCHANGED mergeVars
  BY DEF RegistryRequest
<1>2. UNCHANGED <<runtimes, archived, work, cycles, extractions, saved>>
  BY <1>1 DEF handleVars, workVars
<1>3. RegistryInv'
  BY <1>1, RegistryStepKeeps DEF GatewayInv
<1>4. HandleInv'
  BY <1>1, HandleSame DEF GatewayInv
<1>5. WorkInv' /\ ArchivedIds' = ArchivedIds
  BY <1>2, WorkStays DEF GatewayInv
<1>6. ListInv' /\ MergeInv'
  BY <1>1, <1>2, <1>5, ListSame DEF GatewayInv
<1> QED  BY <1>3, <1>4, <1>5, <1>6 DEF GatewayInv

(* One more change is counted, or one more fault, and the registry stays.  *)
LEMMA RegistryCounts ==
    ASSUME RegistryInv, UnchangedRegistry,
           changes' = changes \/ (changes < MaxChanges /\ changes' = changes + 1),
           faults' = faults \/ Fault
    PROVE  RegistryInv'
<1>1. changes \in 0..MaxChanges /\ faults \in 0..MaxFaults
  BY DEF RegistryInv, RegistryTypeOK
<1>2. changes' \in 0..MaxChanges
  BY <1>1, RegistryAssumption
<1>3. faults' \in 0..MaxFaults
  BY <1>1, FaultType
<1> QED  BY <1>2, <1>3, RegistryKept DEF UnchangedRegistry

LEMMA ReloadRequestKeepsAll ==
    ASSUME GatewayInv, NEW c \in Clients, ReloadRequest(c)
    PROVE  GatewayInv'
<1>1. Reload(c) /\ UNCHANGED workVars /\ UNCHANGED mergeVars /\ UNCHANGED faults /\ UnchangedRegistry
  BY DEF ReloadRequest
<1>2. UNCHANGED <<archived, work, cycles, extractions, saved>>
  BY <1>1 DEF workVars
<1>3. /\ HandleInv' /\ Len(runtimes') >= Len(runtimes) /\ DOMAIN runtimes \subseteq DOMAIN runtimes'
      /\ changes' = changes \/ (changes < MaxChanges /\ changes' = changes + 1)
  <2>0. Len(runtimes) \in Nat
    BY LenProperties DEF GatewayInv, HandleInv, IsSequence
  <2>1. CASE BuildRuntime(c)
    <3>1. changes < MaxChanges /\ changes' = changes + 1
      BY <2>1 DEF BuildRuntime
    <3> QED  BY <2>1, <3>1, BuildKeeps DEF GatewayInv
  <2>2. CASE SwapRuntime(c)
    <3>1. changes' = changes
      BY <2>2 DEF SwapRuntime
    <3>2. HandleInv' /\ UNCHANGED runtimes
      BY <2>2, SwapKeeps DEF GatewayInv
    <3> QED  BY <2>0, <3>1, <3>2
  <2>3. CASE RefreshView(c)
    <3>1. changes' = changes
      BY <2>3 DEF RefreshView
    <3>2. HandleInv' /\ UNCHANGED runtimes
      BY <2>3, RefreshKeeps DEF GatewayInv
    <3> QED  BY <2>0, <3>1, <3>2
  <2> QED  BY <1>1, <2>1, <2>2, <2>3 DEF Reload
<1>4. RegistryInv'
  BY <1>1, <1>3, RegistryCounts DEF GatewayInv
<1>5. ArchivedIds' = ArchivedIds /\ archived' \in 0..Len(Documents)
  BY <1>2 DEF ArchivedIds, GatewayInv, WorkInv
<1>6. Len(runtimes) \in Nat /\ Len(runtimes') \in Nat
  BY <1>3, LenProperties DEF GatewayInv, HandleInv, IsSequence
<1>7. WorkInv'
  BY <1>2, <1>3, <1>5, <1>6, WorkSame DEF GatewayInv
<1>8. ListInv' /\ MergeInv'
  BY <1>1, <1>2, <1>5, ListSame DEF GatewayInv
<1> QED  BY <1>3, <1>4, <1>7, <1>8 DEF GatewayInv

LEMMA MergeRequestKeepsAll ==
    ASSUME GatewayInv, NEW c \in Clients, MergeRequest(c)
    PROVE  GatewayInv'
<1>1. /\ ReadForMerge(c) \/ ReplaceExtractions(c)
      /\ UNCHANGED <<archived, work, cycles, saved, faults>> /\ UnchangedRegistry
  BY DEF MergeRequest
<1>1a. UNCHANGED handleVars
  BY DEF MergeRequest
<1>2. UNCHANGED runtimes
  BY <1>1a DEF handleVars
<1>3. /\ ListInv' /\ MergeInv'
      /\ changes' = changes \/ (changes < MaxChanges /\ changes' = changes + 1)
  <2>1. CASE ReadForMerge(c)
    BY <1>1, <2>1, ReadForMergeKeeps DEF GatewayInv
  <2>2. CASE ReplaceExtractions(c)
    BY <1>1, <2>2, ReplaceKeeps DEF GatewayInv
  <2> QED  BY <1>1, <2>1, <2>2
<1>4. RegistryInv'
  BY <1>1, <1>3, RegistryCounts DEF GatewayInv
<1>5. HandleInv'
  BY <1>1a, HandleSame DEF GatewayInv
<1>6. WorkInv'
  BY <1>1, <1>2, WorkStays DEF GatewayInv
<1> QED  BY <1>3, <1>4, <1>5, <1>6 DEF GatewayInv

LEMMA WorkKeepsAll == GatewayInv /\ Work => GatewayInv'
<1> SUFFICES ASSUME GatewayInv, Work  PROVE GatewayInv'
  OBVIOUS
<1>1. /\ UNCHANGED <<swappable, view, reload, strayed, changes>> /\ UNCHANGED mergeVars /\ UnchangedRegistry
  BY DEF Work
<1>2. RegistryInv /\ HandleInv /\ WorkInv /\ ListInv /\ MergeInv
  BY DEF GatewayInv
<1>3. ASSUME faults' = faults \/ Fault, HandleInv', WorkInv', ArchivedIds \subseteq ArchivedIds',
             UNCHANGED <<extractions, saved>>
      PROVE  GatewayInv'
  <2>1. RegistryInv'
    BY <1>1, <1>2, <1>3, RegistryCounts
  <2>2. ListInv' /\ MergeInv'
    BY <1>1, <1>2, <1>3, ListSame
  <2> QED  BY <1>3, <2>1, <2>2 DEF GatewayInv
<1>4. ASSUME UNCHANGED runtimes, UNCHANGED faults, WorkInv', ArchivedIds \subseteq ArchivedIds',
             UNCHANGED <<extractions, saved>>
      PROVE  GatewayInv'
  <2>1. HandleInv'
    BY <1>1, <1>2, <1>4, HandleSame DEF handleVars
  <2> QED  BY <1>3, <1>4, <2>1
<1>5. ASSUME UNCHANGED archived  PROVE ArchivedIds \subseteq ArchivedIds'
  BY <1>5 DEF ArchivedIds
<1>6. CASE ArchiveDocument /\ UNCHANGED <<runtimes, faults>>
  <2>1. UNCHANGED <<extractions, saved>>
    BY <1>6 DEF ArchiveDocument
  <2>2. WorkInv' /\ ArchivedIds \subseteq ArchivedIds'
    BY <1>2, <1>6, ArchiveDocumentKeeps
  <2> QED  BY <1>4, <1>6, <2>1, <2>2
<1>7. CASE StartCycle /\ UNCHANGED <<runtimes, faults>>
  <2>1. UNCHANGED <<extractions, saved>>
    BY <1>7 DEF StartCycle
  <2>2. WorkInv' /\ UNCHANGED archived
    BY <1>2, <1>7, StartCycleKeeps
  <2> QED  BY <1>4, <1>5, <1>7, <2>1, <2>2
<1>8. CASE NextDocument /\ UNCHANGED <<runtimes, faults>>
  <2>1. UNCHANGED <<extractions, saved>>
    BY <1>8 DEF NextDocument
  <2>2. WorkInv' /\ UNCHANGED archived
    BY <1>2, <1>8, NextDocumentKeeps
  <2> QED  BY <1>4, <1>5, <1>8, <2>1, <2>2
<1>9. CASE Infer /\ UNCHANGED <<runtimes, faults>>
  <2>1. UNCHANGED <<extractions, saved>>
    BY <1>9 DEF Infer
  <2>2. WorkInv' /\ UNCHANGED archived
    BY <1>2, <1>9, InferKeeps
  <2> QED  BY <1>4, <1>5, <1>9, <2>1, <2>2
<1>10. CASE Answered
  <2>1. UNCHANGED <<extractions, saved>>
    BY <1>10 DEF Answered
  <2>2. WorkInv' /\ HandleInv' /\ UNCHANGED <<archived, faults>>
    BY <1>1, <1>2, <1>10, AnsweredKeeps
  <2> QED  BY <1>3, <1>5, <2>1, <2>2
<1>11. CASE TimedOut
  <2>1. UNCHANGED <<extractions, saved>>
    BY <1>11 DEF TimedOut
  <2>2. WorkInv' /\ HandleInv' /\ UNCHANGED archived /\ Fault
    BY <1>1, <1>2, <1>11, TimedOutKeeps
  <2> QED  BY <1>3, <1>5, <2>1, <2>2
<1> QED  BY <1>6, <1>7, <1>8, <1>9, <1>10, <1>11 DEF Work

LEMMA SaveKeepsAll == GatewayInv /\ Save => GatewayInv'
<1> SUFFICES ASSUME GatewayInv, Save  PROVE GatewayInv'
  OBVIOUS
<1>1. /\ SaveExtraction /\ gone' = gone \ MentionedBy(extractions'[Len(extractions')])
      /\ UNCHANGED handleVars /\ UNCHANGED <<merge, exposed, changes, faults>> /\ UnchangedRegistry
  BY DEF Save
<1>2. UNCHANGED runtimes
  BY <1>1 DEF handleVars
<1>3. RegistryInv'
  BY <1>1, RegistryCounts DEF GatewayInv
<1>4. HandleInv'
  BY <1>1, HandleSame DEF GatewayInv
<1>5. WorkInv'
  BY <1>1, <1>2, SaveWorkKeeps DEF GatewayInv
<1>6. ListInv' /\ MergeInv'
  BY <1>1, SaveKeeps DEF GatewayInv
<1> QED  BY <1>3, <1>4, <1>5, <1>6 DEF GatewayInv

LEMMA EmptyListAgain ==
    (/\ extractions = <<>> /\ saved = 0 /\ merge = [c \in Clients |-> NoMerge] /\ gone = {} /\ exposed = 0)'
    => ListInv' /\ MergeInv'
<1>1. (extractions = <<>> /\ saved = 0 /\ merge = [c \in Clients |-> NoMerge] /\ gone = {} /\ exposed = 0)
      => ListInv /\ MergeInv
  BY EmptyListHolds
<1> QED  BY <1>1, PTL

LEMMA RestartKeepsAll == GatewayInv /\ Restart => GatewayInv'
<1> SUFFICES ASSUME GatewayInv, Restart  PROVE GatewayInv'
  OBVIOUS
<1>1. /\ RegistryRestart
      /\ runtimes' = <<EmptyMetrics, EmptyMetrics>> /\ view' = 1 /\ swappable' = 2
      /\ reload' = [c \in Clients |-> NoReload] /\ strayed' = TRUE
      /\ extractions' = <<>> /\ saved' = 0 /\ work' = NoWork
      /\ merge' = [c \in Clients |-> NoMerge] /\ gone' = {} /\ exposed' = 0
      /\ UNCHANGED <<archived, cycles>>
  BY DEF Restart
<1>2. RegistryInv'
  BY <1>1, RegistryRestartKeeps DEF GatewayInv
<1>3. HandleInv'
  <2>1. HandleInit'
    BY <1>1 DEF HandleInit
  <2> QED  BY <2>1, HandleInitAgain
<1>4. ListInv' /\ MergeInv'
  BY <1>1, EmptyListAgain
<1>5. WorkInv'
  <2>1. WorkOK(work') /\ work'.runtime = 0 /\ work'.todo = <<>> /\ work'.step = "idle"
    BY <1>1, NoWorkIs, NothingIs, RestingWorkOK
  <2>2. Len(runtimes') \in Nat
    BY <1>3, LenProperties DEF HandleInv, IsSequence
  <2>3. work'.runtime \in 0..Len(runtimes')
    BY <2>1, <2>2
  <2>4. ToSet(work'.todo) \subseteq ToSet(work.todo)
    BY <2>1, NothingIs
  <2>5. WorkInv
    BY DEF GatewayInv
  <2> QED  BY <1>1, <2>1, <2>3, <2>4, <2>5, WorkMoves
<1> QED  BY <1>2, <1>3, <1>4, <1>5 DEF GatewayInv

LEMMA StutterKeepsAll == GatewayInv /\ UNCHANGED vars => GatewayInv'
<1> SUFFICES ASSUME GatewayInv, UNCHANGED vars  PROVE GatewayInv'
  OBVIOUS
<1>1. UNCHANGED registryVars /\ UNCHANGED handleVars /\ UNCHANGED workVars /\ UNCHANGED mergeVars
  BY DEF vars
<1>2. /\ UNCHANGED <<sources, file, request, alone, doubtful, changes, faults>>
      /\ UNCHANGED <<runtimes, archived, work, cycles, extractions, saved>>
  BY <1>1 DEF registryVars, handleVars, workVars
<1>3. RegistryInv'
  BY <1>2, RegistryCounts DEF GatewayInv, UnchangedRegistry
<1>4. HandleInv'
  BY <1>1, HandleSame DEF GatewayInv
<1>5. WorkInv' /\ ArchivedIds' = ArchivedIds
  BY <1>2, WorkStays DEF GatewayInv
<1>6. ListInv' /\ MergeInv'
  BY <1>1, <1>2, <1>5, ListSame DEF GatewayInv
<1> QED  BY <1>3, <1>4, <1>5, <1>6 DEF GatewayInv

(* The inductive invariant holds of every request of the gateway beside the *)
(* worker, for any clients, documents and runtimes.                        *)
THEOREM GatewayCorrect == Spec => []GatewayInv
<1>1. GatewayInv /\ [Next]_vars => GatewayInv'
  <2> SUFFICES ASSUME GatewayInv, [Next]_vars  PROVE GatewayInv'
    OBVIOUS
  <2>1. CASE \E c \in Clients : RegistryRequest(c)
    BY <2>1, RegistryRequestKeepsAll
  <2>2. CASE \E c \in Clients : ReloadRequest(c)
    BY <2>2, ReloadRequestKeepsAll
  <2>3. CASE \E c \in Clients : MergeRequest(c)
    BY <2>3, MergeRequestKeepsAll
  <2>4. CASE Work
    BY <2>4, WorkKeepsAll
  <2>5. CASE Save
    BY <2>5, SaveKeepsAll
  <2>6. CASE Restart
    BY <2>6, RestartKeepsAll
  <2>7. CASE UNCHANGED vars
    BY <2>7, StutterKeepsAll
  <2> QED  BY <2>1, <2>2, <2>3, <2>4, <2>5, <2>6, <2>7 DEF Next
<1> QED  BY <1>1, GatewayInitHolds, PTL DEF Spec

(* The registry, the handle, the worker and the merges under way are what  *)
(* their types say, and an extraction is of an archived document (TypeOK). *)
THEOREM GatewayTypeCorrect == Spec => []TypeOK
<1>1. GatewayInv => TypeOK
  <2> SUFFICES ASSUME GatewayInv  PROVE TypeOK
    OBVIOUS
  <2>1. RegistryTypeOK
    BY DEF GatewayInv, RegistryInv
  <2>2. HandleTypeOK
    <3>1. \A r \in DOMAIN runtimes : runtimes[r] \in ToSet(runtimes)
      BY DEF ToSet
    <3>2. \A r \in DOMAIN runtimes : runtimes[r].calls \in Nat
      BY <3>1 DEF GatewayInv, HandleInv, MetricsOK
    <3> QED  BY <3>2 DEF GatewayInv, HandleInv, HandleTypeOK, Reloads
  <2>3. WorkTypeOK
    <3>1. \A i \in DOMAIN extractions : extractions[i] \in ToSet(extractions)
      BY DEF ToSet
    <3>2. \A i \in DOMAIN extractions : extractions[i].document \in {Documents[d].id : d \in 1..archived}
      BY <3>1 DEF GatewayInv, ListInv, ArchivedIds
    <3> QED  BY <3>2 DEF GatewayInv, WorkInv, WorkOK, WorkTypeOK
  <2>4. \A c \in Clients : merge[c] = NoMerge \/ merge[c].step = "read"
    BY DEF GatewayInv, MergeInv, MergeOK
  <2> QED  BY <2>1, <2>2, <2>3, <2>4 DEF TypeOK, GatewayInv, ListInv
<1> QED  BY <1>1, GatewayCorrect, PTL

(* Between requests the file holds the registry, unless requests overlapped *)
(* or a write failed (FileHoldsRegistry; SourceRegistry::persist).         *)
THEOREM FileHoldsRegistryHolds == Spec => []FileHoldsRegistry
<1>1. GatewayInv => FileHoldsRegistry
  BY DEF GatewayInv, RegistryInv
<1> QED  BY <1>1, GatewayCorrect, PTL

(* An extraction that was saved stays, unless a merge had read the list    *)
(* before, with the heuristic's relationships, and not without claims if   *)
(* it found any (SavedIsKept; merge_entities, runtime_extractor.rs).       *)
THEOREM SavedIsKeptHolds == Spec => []SavedIsKept
<1>1. GatewayInv => SavedIsKept
  <2> SUFFICES ASSUME GatewayInv  PROVE SavedIsKept
    OBVIOUS
  <2>1. saved - exposed <= Len(extractions) /\ Len(extractions) <= saved
    BY DEF GatewayInv, ListInv
  <2>2. ASSUME NEW i \in DOMAIN extractions  PROVE KeepsHeuristic(extractions[i])
    <3>1. extractions[i] \in ToSet(extractions)
      BY DEF ToSet
    <3> QED  BY <3>1 DEF GatewayInv, ListInv, ListOK, ExtractionOK
  <2> QED  BY <2>1, <2>2 DEF SavedIsKept, KeepsHeuristic
<1> QED  BY <1>1, GatewayCorrect, PTL

(* A name that was merged away is mentioned nowhere until it is said again *)
(* (MergedIsGone; entities.rs merge_entities).                             *)
THEOREM MergedIsGoneHolds == Spec => []MergedIsGone
<1>1. GatewayInv => MergedIsGone
  BY DEF GatewayInv, ListInv, MergedIsGone, Mentioned, MentionedIn
<1> QED  BY <1>1, GatewayCorrect, PTL

(* With no reload under way or overtaken the routes look at the instance that *)
(* answers, and what they show adds up (ViewIsLive; server.rs, metrics.rs). *)
THEOREM ViewIsLiveHolds == Spec => []ViewIsLive
<1>1. GatewayInv => ViewIsLive
  <2> SUFFICES ASSUME GatewayInv  PROVE ViewIsLive
    OBVIOUS
  <2>1. Reloading = {} /\ ~strayed => view = swappable
    BY DEF GatewayInv, HandleInv
  <2>2. ShownMetrics \in ToSet(runtimes)
    BY DEF GatewayInv, HandleInv, ShownMetrics, ToSet
  <2>3. AddsUp(ShownMetrics)
    BY <2>2 DEF GatewayInv, HandleInv, MetricsOK
  <2> QED  BY <2>1, <2>3 DEF ViewIsLive
<1> QED  BY <1>1, GatewayCorrect, PTL

(* On every list of extractions there can be the routes that read it know the *)
(* same entities, first mentions, counts and sums (ReadersAgree; entities.rs, *)
(* claims.rs, export.rs and search.rs).                                    *)
THEOREM ReadersAgreeHolds == Spec => []ReadersAgree
<1>1. GatewayInv => ReadersAgree
  BY ListAgrees DEF GatewayInv, ListInv, ReadersAgree
<1> QED  BY <1>1, GatewayCorrect, PTL

-----------------------------------------------------------------------------
(* The graph and the vector store.                                         *)

ExtractedEntities == UNION {ToSet(x.entities) : x \in Extractions}
ExtractedClaims == UNION {ToSet(x.claims) : x \in Extractions}
ExtractedRelationships == UNION {ToSet(x.relationships) : x \in Extractions}

Seedings == [entities : Seq(ExtractedEntities), claims : Seq(ExtractedClaims),
             relationships : Seq(ExtractedRelationships)]

StubIs == stub = [entities |-> stub.entities, claims |-> stub.claims, relationships |-> stub.relationships]
KuzuIs == kuzu = [entities |-> kuzu.entities, claims |-> kuzu.claims, edges |-> kuzu.edges]

EntityIs(e) == {"name", "description"} \subseteq DOMAIN e
ClaimIs(c) == {"text", "subject", "object"} \subseteq DOMAIN c
RelationshipIs(r) == r = [from |-> r.from, to |-> r.to, type |-> r.type, confidence |-> r.confidence]

(* What was saved is in Kuzu as a row of the stub's value, and Kuzu has    *)
(* nothing else unless it is from an earlier start.                        *)
EntityRows ==
    /\ \A n \in DOMAIN stub.entities \ lostEntities :
          n \in DOMAIN kuzu.entities /\ kuzu.entities[n] = ToEntityRow(stub.entities[n])
    /\ \A n \in DOMAIN stub.entities : EntityIs(stub.entities[n])
    /\ ~restarted => DOMAIN kuzu.entities \subseteq DOMAIN stub.entities
ClaimRows ==
    /\ \A t \in DOMAIN stub.claims \ lostClaims :
          t \in DOMAIN kuzu.claims /\ kuzu.claims[t] = ToClaimRow(stub.claims[t])
    /\ \A t \in DOMAIN stub.claims : ClaimIs(stub.claims[t])
    /\ ~restarted => DOMAIN kuzu.claims \subseteq DOMAIN stub.claims

(* An edge for the newest of the relationships with the same ends that are *)
(* not left out, and no other unless all is not there.                     *)
EndsOf(r) == <<r.from, r.to, r.type>>
IsNewest(i, given, out) ==
    /\ i \in DOMAIN given \ out
    /\ \A j \in DOMAIN given \ out : j > i => EndsOf(given[i]) # EndsOf(given[j])
EdgesAgree(given, out, edges, all) ==
    /\ \A i \in DOMAIN given \ out :
          /\ EndsOf(given[i]) \in DOMAIN edges
          /\ IsNewest(i, given, out) => edges[EndsOf(given[i])].confidence = given[i].confidence
    /\ all => \A k \in DOMAIN edges :
          \E i \in DOMAIN given \ out : IsNewest(i, given, out) /\ EndsOf(given[i]) = k

EdgeRows ==
    /\ stub.relationships \in Seq(ExtractedRelationships)
    /\ missed \subseteq DOMAIN stub.relationships
    /\ \A k \in DOMAIN kuzu.edges : k = <<k[1], k[2], k[3]>> /\ {k[1], k[2]} \subseteq DOMAIN kuzu.entities
    /\ EdgesAgree(stub.relationships, missed, kuzu.edges, ~restarted)

GraphInv ==
    /\ StubIs /\ KuzuIs /\ seeding \in Seedings /\ restarted \in BOOLEAN
    /\ EntityRows /\ ClaimRows /\ EdgeRows

LEMMA ExtractionIs ==
    /\ Extractions \subseteq Seedings
    /\ Seeded \in Seedings
    /\ \A e \in ExtractedEntities : EntityIs(e)
    /\ \A c \in ExtractedClaims : ClaimIs(c)
    /\ \A r \in ExtractedRelationships : RelationshipIs(r)
<1>1. ASSUME NEW x \in Extractions  PROVE x \in Seedings
  <2>1. x \in [entities : Seq(ToSet(x.entities)), claims : Seq(ToSet(x.claims)),
               relationships : Seq(ToSet(x.relationships))]
    BY StoresAssumption
  <2>2. /\ ToSet(x.entities) \subseteq ExtractedEntities
        /\ ToSet(x.claims) \subseteq ExtractedClaims
        /\ ToSet(x.relationships) \subseteq ExtractedRelationships
    BY DEF ExtractedEntities, ExtractedClaims, ExtractedRelationships
  <2>3. \A S, T : S \subseteq T => Seq(S) \subseteq Seq(T)
    BY SeqDef
  <2>4. x.entities \in Seq(ExtractedEntities) /\ x.claims \in Seq(ExtractedClaims)
        /\ x.relationships \in Seq(ExtractedRelationships)
    BY <2>1, <2>2, <2>3
  <2> QED  BY <2>1, <2>4 DEF Seedings
<1>2. Seeded \in Seedings
  BY EmptySeq DEF Seeded, Seedings
<1>3. \A e \in ExtractedEntities : EntityIs(e)
  BY StoresAssumption DEF ExtractedEntities, EntityIs
<1>4. \A c \in ExtractedClaims : ClaimIs(c)
  BY StoresAssumption DEF ExtractedClaims, ClaimIs
<1>5. \A r \in ExtractedRelationships : RelationshipIs(r)
  BY StoresAssumption DEF ExtractedRelationships, RelationshipIs
<1> QED  BY <1>1, <1>2, <1>3, <1>4, <1>5

LEMMA GraphInvStarts == StoresInit => GraphInv
<1> SUFFICES ASSUME StoresInit  PROVE GraphInv
  OBVIOUS
<1> USE DEF StoresInit, GraphInit
<1>1. StubIs /\ KuzuIs /\ restarted \in BOOLEAN
  BY DEF StubIs, KuzuIs, EmptyStub, EmptyKuzu
<1>2. seeding \in Seedings
  BY ExtractionIs
<1>3. EntityRows /\ ClaimRows
  BY DEF EntityRows, ClaimRows, EmptyStub, EmptyKuzu
<1>4. EdgeRows
  BY EmptySeq DEF EdgeRows, EdgesAgree, EmptyStub, EmptyKuzu
<1> QED  BY <1>1, <1>2, <1>3, <1>4 DEF GraphInv

(* The relationship just saved is the newest with its ends.                *)
LEMMA EdgeSaved ==
    ASSUME NEW S, NEW given \in Seq(S), NEW r \in S, NEW out, out \subseteq DOMAIN given, NEW edges, NEW all,
           EdgesAgree(given, out, edges, all), NEW row, row.confidence = r.confidence
    PROVE  EdgesAgree(Append(given, r), out, Put(edges, EndsOf(r), row), all)
<1> DEFINE longer == Append(given, r)
           place == Len(given) + 1
           key == EndsOf(r)
           more == Put(edges, key, row)
<1>1. /\ Len(given) \in Nat /\ DOMAIN given = 1..Len(given) /\ DOMAIN longer = DOMAIN given \cup {place}
      /\ longer[place] = r /\ place \notin DOMAIN given
      /\ \A i \in DOMAIN given : longer[i] = given[i] /\ place > i /\ ~(i > place)
  BY LenProperties, AppendProperties
<1>2. /\ DOMAIN more = DOMAIN edges \cup {key} /\ more[key] = row
      /\ \A k \in DOMAIN edges : k # key => more[k] = edges[k]
  BY DEF Put
<1>3. place \notin out /\ DOMAIN longer \ out = (DOMAIN given \ out) \cup {place}
  BY <1>1
<1>4. ~(place > place)
  BY <1>1
<1> HIDE DEF longer, place, more, key
<1>5. IsNewest(place, longer, out)
  BY <1>1, <1>3, <1>4 DEF IsNewest
<1>6. ASSUME NEW i \in DOMAIN given \ out
      PROVE  IsNewest(i, longer, out) <=> IsNewest(i, given, out) /\ EndsOf(given[i]) # key
  BY <1>1, <1>3 DEF IsNewest, key
<1>7. ASSUME NEW i \in DOMAIN longer \ out
      PROVE  /\ EndsOf(longer[i]) \in DOMAIN more
             /\ IsNewest(i, longer, out) => more[EndsOf(longer[i])].confidence = longer[i].confidence
  <2>1. CASE i = place
    BY <2>1, <1>1, <1>2 DEF key
  <2>2. CASE i \in DOMAIN given \ out
    BY <2>2, <1>1, <1>2, <1>6 DEF EdgesAgree
  <2> QED  BY <2>1, <2>2, <1>3
<1>8. ASSUME all, NEW k \in DOMAIN more
      PROVE  \E i \in DOMAIN longer \ out : IsNewest(i, longer, out) /\ EndsOf(longer[i]) = k
  <2>1. CASE k = key
    BY <2>1, <1>1, <1>3, <1>5 DEF key
  <2>2. CASE k # key
    <3>1. PICK i \in DOMAIN given \ out : IsNewest(i, given, out) /\ EndsOf(given[i]) = k
      BY <1>2, <1>8, <2>2 DEF EdgesAgree
    <3>2. IsNewest(i, longer, out) /\ EndsOf(longer[i]) = k /\ i \in DOMAIN longer \ out
      BY <3>1, <2>2, <1>1, <1>3, <1>6
    <3> QED  BY <3>2
  <2> QED  BY <2>1, <2>2
<1>9. EdgesAgree(longer, out, more, all)
  BY <1>7, <1>8 DEF EdgesAgree
<1> QED  BY <1>9 DEF longer, more, key

(* One that is left out changes nothing.                                   *)
LEMMA EdgeMissed ==
    ASSUME NEW S, NEW given \in Seq(S), NEW r \in S, NEW out, out \subseteq DOMAIN given, NEW edges, NEW all,
           EdgesAgree(given, out, edges, all)
    PROVE  EdgesAgree(Append(given, r), out \cup {Len(given) + 1}, edges, all)
<1> DEFINE longer == Append(given, r)
           place == Len(given) + 1
           more == out \cup {place}
<1>1. /\ Len(given) \in Nat /\ DOMAIN given = 1..Len(given) /\ DOMAIN longer = DOMAIN given \cup {place}
      /\ place \notin DOMAIN given
      /\ \A i \in DOMAIN given : longer[i] = given[i]
  BY LenProperties, AppendProperties
<1>2. DOMAIN longer \ more = DOMAIN given \ out
  BY <1>1
<1> HIDE DEF longer, place, more
<1>3. \A i : IsNewest(i, longer, more) <=> IsNewest(i, given, out)
  BY <1>1, <1>2 DEF IsNewest
<1>4. EdgesAgree(longer, more, edges, all)
  BY <1>1, <1>2, <1>3 DEF EdgesAgree
<1> QED  BY <1>4 DEF longer, place, more

LEMMA SeedingStep ==
    ASSUME seeding \in Seedings
    PROVE  /\ seeding.entities # <<>> =>
                 /\ Head(seeding.entities) \in ExtractedEntities
                 /\ [seeding EXCEPT !.entities = Tail(@)] \in Seedings
           /\ seeding.claims # <<>> =>
                 /\ Head(seeding.claims) \in ExtractedClaims
                 /\ [seeding EXCEPT !.claims = Tail(@)] \in Seedings
           /\ seeding.relationships # <<>> =>
                 /\ Head(seeding.relationships) \in ExtractedRelationships
                 /\ [seeding EXCEPT !.relationships = Tail(@)] \in Seedings
<1>1. /\ seeding.entities \in Seq(ExtractedEntities) /\ seeding.claims \in Seq(ExtractedClaims)
      /\ seeding.relationships \in Seq(ExtractedRelationships)
  BY DEF Seedings
<1>2. seeding.entities # <<>> => Head(seeding.entities) \in ExtractedEntities /\ Tail(seeding.entities) \in Seq(ExtractedEntities)
  BY <1>1, HeadTailProperties
<1>3. seeding.claims # <<>> => Head(seeding.claims) \in ExtractedClaims /\ Tail(seeding.claims) \in Seq(ExtractedClaims)
  BY <1>1, HeadTailProperties
<1>4. seeding.relationships # <<>> =>
        Head(seeding.relationships) \in ExtractedRelationships /\ Tail(seeding.relationships) \in Seq(ExtractedRelationships)
  BY <1>1, HeadTailProperties
<1> QED  BY <1>1, <1>2, <1>3, <1>4 DEF Seedings

LEMMA SaveEntityKeeps == GraphInv /\ SaveEntity /\ UNCHANGED restarted => GraphInv'
<1> SUFFICES ASSUME GraphInv, SaveEntity, UNCHANGED restarted  PROVE GraphInv'
  OBVIOUS
<1> DEFINE e == Head(seeding.entities)
<1>1. seeding \in Seedings /\ seeding.entities # <<>> /\ restarted' = restarted
  BY DEF GraphInv, SaveEntity
<1>2. seeding' \in Seedings /\ e \in ExtractedEntities
  BY <1>1, SeedingStep DEF SaveEntity
<1>3. EntityIs(e)
  BY <1>2, ExtractionIs
<1>4. /\ stub' = [stub EXCEPT !.entities = Put(@, e.name, e)] /\ missed' = missed /\ lostClaims' = lostClaims
      /\ \/ kuzu' = [kuzu EXCEPT !.entities = Put(@, e.name, ToEntityRow(e))] /\ lostEntities' = lostEntities \ {e.name}
         \/ kuzu' = kuzu /\ lostEntities' = lostEntities \cup {e.name}
  BY DEF SaveEntity, StubSaveEntity, KuzuSaveEntity, SaveFails
<1> HIDE DEF e
<1>5. /\ StubIs' /\ stub'.entities = Put(stub.entities, e.name, e)
      /\ stub'.claims = stub.claims /\ stub'.relationships = stub.relationships
  BY <1>4 DEF GraphInv, StubIs
<1>6. /\ KuzuIs' /\ kuzu'.claims = kuzu.claims /\ kuzu'.edges = kuzu.edges
      /\ \/ kuzu'.entities = Put(kuzu.entities, e.name, ToEntityRow(e)) /\ lostEntities' = lostEntities \ {e.name}
         \/ kuzu'.entities = kuzu.entities /\ lostEntities' = lostEntities \cup {e.name}
  BY <1>4 DEF GraphInv, KuzuIs
<1>7. DOMAIN kuzu.entities \subseteq DOMAIN kuzu'.entities
  BY <1>6 DEF Put
<1>8. EntityRows'
  <2>1. EntityRows
    BY DEF GraphInv
  <2>2. \A n \in DOMAIN stub'.entities : EntityIs(stub'.entities[n])
    BY <2>1, <1>3, <1>5 DEF EntityRows, Put
  <2>3. ~restarted => DOMAIN kuzu'.entities \subseteq DOMAIN stub'.entities
    BY <2>1, <1>5, <1>6 DEF EntityRows, Put
  <2>4. ASSUME NEW n \in DOMAIN stub'.entities \ lostEntities'
        PROVE  n \in DOMAIN kuzu'.entities /\ kuzu'.entities[n] = ToEntityRow(stub'.entities[n])
    <3>1. CASE n = e.name
      BY <3>1, <1>5, <1>6 DEF Put
    <3>2. CASE n # e.name
      <4>1. n \in DOMAIN stub.entities \ lostEntities /\ stub'.entities[n] = stub.entities[n]
        BY <3>2, <1>5, <1>6 DEF Put
      <4>2. n \in DOMAIN kuzu.entities /\ kuzu.entities[n] = ToEntityRow(stub.entities[n])
        BY <2>1, <4>1 DEF EntityRows
      <4>3. n \in DOMAIN kuzu'.entities /\ kuzu'.entities[n] = kuzu.entities[n]
        BY <3>2, <4>2, <1>6 DEF Put
      <4> QED  BY <4>1, <4>2, <4>3
    <3> QED  BY <3>1, <3>2
  <2> QED  BY <2>2, <2>3, <2>4, <1>1 DEF EntityRows
<1>9. ClaimRows'
  BY <1>1, <1>4, <1>5, <1>6 DEF GraphInv, ClaimRows
<1>10. EdgeRows'
  BY <1>1, <1>4, <1>5, <1>6, <1>7 DEF GraphInv, EdgeRows
<1> QED  BY <1>1, <1>2, <1>5, <1>6, <1>8, <1>9, <1>10 DEF GraphInv

LEMMA SaveClaimKeeps == GraphInv /\ SaveClaim /\ UNCHANGED restarted => GraphInv'
<1> SUFFICES ASSUME GraphInv, SaveClaim, UNCHANGED restarted  PROVE GraphInv'
  OBVIOUS
<1> DEFINE c == Head(seeding.claims)
<1>1. seeding \in Seedings /\ seeding.claims # <<>> /\ restarted' = restarted
  BY DEF GraphInv, SaveClaim
<1>2. seeding' \in Seedings /\ c \in ExtractedClaims
  BY <1>1, SeedingStep DEF SaveClaim
<1>3. ClaimIs(c)
  BY <1>2, ExtractionIs
<1>4. /\ stub' = [stub EXCEPT !.claims = Put(@, c.text, c)] /\ missed' = missed /\ lostEntities' = lostEntities
      /\ \/ kuzu' = [kuzu EXCEPT !.claims = Put(@, c.text, ToClaimRow(c))] /\ lostClaims' = lostClaims \ {c.text}
         \/ kuzu' = kuzu /\ lostClaims' = lostClaims \cup {c.text}
  BY DEF SaveClaim, StubSaveClaim, KuzuSaveClaim, SaveFails
<1> HIDE DEF c
<1>5. /\ StubIs' /\ stub'.claims = Put(stub.claims, c.text, c)
      /\ stub'.entities = stub.entities /\ stub'.relationships = stub.relationships
  BY <1>4 DEF GraphInv, StubIs
<1>6. /\ KuzuIs' /\ kuzu'.entities = kuzu.entities /\ kuzu'.edges = kuzu.edges
      /\ \/ kuzu'.claims = Put(kuzu.claims, c.text, ToClaimRow(c)) /\ lostClaims' = lostClaims \ {c.text}
         \/ kuzu'.claims = kuzu.claims /\ lostClaims' = lostClaims \cup {c.text}
  BY <1>4 DEF GraphInv, KuzuIs
<1>7. ClaimRows'
  <2>1. ClaimRows
    BY DEF GraphInv
  <2>2. \A t \in DOMAIN stub'.claims : ClaimIs(stub'.claims[t])
    BY <2>1, <1>3, <1>5 DEF ClaimRows, Put
  <2>3. ~restarted => DOMAIN kuzu'.claims \subseteq DOMAIN stub'.claims
    BY <2>1, <1>5, <1>6 DEF ClaimRows, Put
  <2>4. ASSUME NEW t \in DOMAIN stub'.claims \ lostClaims'
        PROVE  t \in DOMAIN kuzu'.claims /\ kuzu'.claims[t] = ToClaimRow(stub'.claims[t])
    <3>1. CASE t = c.text
      BY <3>1, <1>5, <1>6 DEF Put
    <3>2. CASE t # c.text
      <4>1. t \in DOMAIN stub.claims \ lostClaims /\ stub'.claims[t] = stub.claims[t]
        BY <3>2, <1>5, <1>6 DEF Put
      <4>2. t \in DOMAIN kuzu.claims /\ kuzu.claims[t] = ToClaimRow(stub.claims[t])
        BY <2>1, <4>1 DEF ClaimRows
      <4>3. t \in DOMAIN kuzu'.claims /\ kuzu'.claims[t] = kuzu.claims[t]
        BY <3>2, <4>2, <1>6 DEF Put
      <4> QED  BY <4>1, <4>2, <4>3
    <3> QED  BY <3>1, <3>2
  <2> QED  BY <2>2, <2>3, <2>4, <1>1 DEF ClaimRows
<1>8. EntityRows'
  BY <1>1, <1>4, <1>5, <1>6 DEF GraphInv, EntityRows
<1>9. EdgeRows'
  BY <1>1, <1>4, <1>5, <1>6 DEF GraphInv, EdgeRows
<1> QED  BY <1>1, <1>2, <1>5, <1>6, <1>7, <1>8, <1>9 DEF GraphInv

LEMMA SaveRelationshipKeeps == GraphInv /\ SaveRelationship /\ UNCHANGED restarted => GraphInv'
<1> SUFFICES ASSUME GraphInv, SaveRelationship, UNCHANGED restarted  PROVE GraphInv'
  OBVIOUS
<1> DEFINE r == Head(seeding.relationships)
           given == stub.relationships
           place == Len(given) + 1
           row == [confidence |-> r.confidence]
<1>1. seeding \in Seedings /\ seeding.relationships # <<>> /\ restarted' = restarted
  BY DEF GraphInv, SaveRelationship
<1>2. seeding' \in Seedings /\ r \in ExtractedRelationships
  BY <1>1, SeedingStep DEF SaveRelationship
<1>3. /\ stub' = [stub EXCEPT !.relationships = Append(@, r)]
      /\ lostClaims' = lostClaims /\ lostEntities' = lostEntities
      /\ \/ /\ KuzuHasEnds(r) /\ missed' = missed
            /\ kuzu' = [kuzu EXCEPT !.edges = Put(@, EndsOf(r), row)]
         \/ kuzu' = kuzu /\ missed' = missed \cup {place}
  BY DEF SaveRelationship, StubSaveRelationship, KuzuSaveRelationship, SaveFails, EndsOf, lostVars
<1>4. given \in Seq(ExtractedRelationships) /\ missed \subseteq DOMAIN given /\ EdgesAgree(given, missed, kuzu.edges, ~restarted)
      /\ \A k \in DOMAIN kuzu.edges : k = <<k[1], k[2], k[3]>> /\ {k[1], k[2]} \subseteq DOMAIN kuzu.entities
  BY DEF GraphInv, EdgeRows
<1>5. row.confidence = r.confidence
  OBVIOUS
<1> HIDE DEF r, row
<1>6. /\ StubIs' /\ stub'.relationships = Append(given, r)
      /\ stub'.entities = stub.entities /\ stub'.claims = stub.claims
  BY <1>3 DEF GraphInv, StubIs
<1>7. /\ KuzuIs' /\ kuzu'.entities = kuzu.entities /\ kuzu'.claims = kuzu.claims
      /\ \/ KuzuHasEnds(r) /\ missed' = missed /\ kuzu'.edges = Put(kuzu.edges, EndsOf(r), row)
         \/ kuzu'.edges = kuzu.edges /\ missed' = missed \cup {place}
  BY <1>3 DEF GraphInv, KuzuIs
<1>8. /\ Append(given, r) \in Seq(ExtractedRelationships)
      /\ DOMAIN Append(given, r) = DOMAIN given \cup {place}
  BY <1>2, <1>4, AppendProperties, LenProperties
<1>9. EdgesAgree(Append(given, r), missed', kuzu'.edges, ~restarted)
  <2>1. CASE missed' = missed /\ kuzu'.edges = Put(kuzu.edges, EndsOf(r), row)
    <3>1. EdgesAgree(Append(given, r), missed, Put(kuzu.edges, EndsOf(r), row), ~restarted)
      BY <1>2, <1>4, <1>5, EdgeSaved
    <3> QED  BY <2>1, <3>1
  <2>2. CASE kuzu'.edges = kuzu.edges /\ missed' = missed \cup {place}
    <3>1. EdgesAgree(Append(given, r), missed \cup {place}, kuzu.edges, ~restarted)
      BY <1>2, <1>4, EdgeMissed
    <3> QED  BY <2>2, <3>1
  <2> QED  BY <1>7, <2>1, <2>2
<1>10. missed' \subseteq DOMAIN Append(given, r)
  BY <1>4, <1>7, <1>8
<1>11. ASSUME NEW k \in DOMAIN kuzu'.edges
       PROVE  k = <<k[1], k[2], k[3]>> /\ {k[1], k[2]} \subseteq DOMAIN kuzu'.entities
  <2>1. CASE k \in DOMAIN kuzu.edges
    BY <2>1, <1>4, <1>7
  <2>2. CASE KuzuHasEnds(r) /\ k = EndsOf(r)
    BY <2>2, <1>7 DEF EndsOf, KuzuHasEnds
  <2> QED  BY <2>1, <2>2, <1>7 DEF Put
<1>12. EdgeRows'
  BY <1>1, <1>6, <1>8, <1>9, <1>10, <1>11 DEF EdgeRows
<1>13. EntityRows' /\ ClaimRows'
  BY <1>1, <1>3, <1>6, <1>7 DEF GraphInv, EntityRows, ClaimRows
<1> QED  BY <1>1, <1>2, <1>6, <1>7, <1>12, <1>13 DEF GraphInv

LEMMA GraphInvKept == GraphInv /\ [StoresNext]_storesVars => GraphInv'
<1> SUFFICES ASSUME GraphInv, [StoresNext]_storesVars  PROVE GraphInv'
  OBVIOUS
<1>1. CASE SeedDocument /\ UNCHANGED restarted
  <2>1. seeding' \in Seedings
    BY <1>1, ExtractionIs DEF SeedDocument
  <2>2. UNCHANGED <<graphVars, lostVars, restarted>>
    BY <1>1 DEF SeedDocument
  <2> QED  BY <2>1, <2>2 DEF GraphInv, StubIs, KuzuIs, EntityRows, ClaimRows, EdgeRows, graphVars, lostVars
<1>2. CASE SaveEntity /\ UNCHANGED restarted
  BY <1>2, SaveEntityKeeps
<1>3. CASE SaveClaim /\ UNCHANGED restarted
  BY <1>3, SaveClaimKeeps
<1>4. CASE SaveRelationship /\ UNCHANGED restarted
  BY <1>4, SaveRelationshipKeeps
<1>5. CASE UseVectors \/ UNCHANGED storesVars
  <2>1. UNCHANGED <<graphVars, seeding, lostVars, restarted>>
    BY <1>5 DEF UseVectors, storesVars
  <2> QED  BY <2>1 DEF GraphInv, StubIs, KuzuIs, EntityRows, ClaimRows, EdgeRows, graphVars, lostVars
<1>6. CASE StoresRestart
  <2>1. stub' = EmptyStub /\ missed' = {} /\ seeding' = Seeded /\ restarted' = TRUE /\ kuzu' = kuzu
    BY <1>6 DEF StoresRestart
  <2>2. /\ stub'.entities = <<>> /\ stub'.claims = <<>> /\ stub'.relationships = <<>> /\ StubIs'
        /\ KuzuIs'
    BY <2>1 DEF EmptyStub, StubIs, GraphInv, KuzuIs
  <2>3. EntityRows' /\ ClaimRows'
    BY <2>1, <2>2 DEF EntityRows, ClaimRows
  <2>4. EdgeRows'
    BY <2>1, <2>2, EmptySeq DEF EdgeRows, EdgesAgree, GraphInv
  <2> QED  BY <2>1, <2>2, <2>3, <2>4, ExtractionIs DEF GraphInv
<1> QED  BY <1>1, <1>2, <1>3, <1>4, <1>5, <1>6 DEF StoresNext, Seed

(* A row of Kuzu is read back as what was saved, its empty text missing.   *)
LEMMA EntityReadBack ==
    ASSUME NEW e, EntityIs(e)  PROVE EntityFromRow(ToEntityRow(e)) = PlainEntity(e)
<1>1. Optional(Or(e.description, EmptyText)) = Optional(e.description)
  BY DEF Optional, Or
<1>2. "description" \in DOMAIN e
  BY DEF EntityIs
<1> QED  BY <1>1, <1>2 DEF EntityFromRow, ToEntityRow, PlainEntity

LEMMA ClaimReadBack ==
    ASSUME NEW c, ClaimIs(c)
    PROVE  ClaimFromRow(ToClaimRow(c)) = PlainClaim(c) /\ ToClaimRow(c).subject = c.subject
<1>1. Optional(Or(c.object, EmptyText)) = Optional(c.object)
  BY DEF Optional, Or
<1>2. "object" \in DOMAIN c /\ "subject" \in DOMAIN c
  BY DEF ClaimIs
<1> QED  BY <1>1, <1>2 DEF ClaimFromRow, ToClaimRow, PlainClaim

LEMMA GraphInvAgrees == GraphInv => GraphsAgree
<1> SUFFICES ASSUME GraphInv  PROVE GraphsAgree
  OBVIOUS
<1>1. EntityRows /\ ClaimRows
  BY DEF GraphInv
<1>2. ASSUME NEW n \in DOMAIN stub.entities \ lostEntities
      PROVE  KuzuEntity(n) = PlainEntity(StubEntity(n))
  <2>1. n \in DOMAIN kuzu.entities /\ kuzu.entities[n] = ToEntityRow(stub.entities[n]) /\ EntityIs(stub.entities[n])
    BY <1>1 DEF EntityRows
  <2> QED  BY <2>1, EntityReadBack DEF KuzuEntity, StubEntity
<1>3. ASSUME NEW t \in DOMAIN stub.claims \ lostClaims
      PROVE  /\ t \in DOMAIN kuzu.claims
             /\ ClaimFromRow(kuzu.claims[t]) = PlainClaim(stub.claims[t])
             /\ kuzu.claims[t].subject = stub.claims[t].subject
  <2>1. t \in DOMAIN kuzu.claims /\ kuzu.claims[t] = ToClaimRow(stub.claims[t]) /\ ClaimIs(stub.claims[t])
    BY <1>1 DEF ClaimRows
  <2> QED  BY <2>1, ClaimReadBack
<1>4. ASSUME NEW t \in DOMAIN stub.claims \ lostClaims
      PROVE  /\ KuzuClaim(t) = PlainClaim(StubClaim(t))
             /\ PlainClaim(StubClaim(t)) \in KuzuClaimsFor(StubClaim(t).subject)
  BY <1>3 DEF KuzuClaim, StubClaim, KuzuClaimsFor, Rows
<1>5. ASSUME ~restarted, lostClaims = {}, NEW n
      PROVE  KuzuClaimsFor(n) = {PlainClaim(c) : c \in StubClaimsFor(n)}
  <2>1. DOMAIN kuzu.claims = DOMAIN stub.claims
    BY <1>1, <1>3, <1>5 DEF ClaimRows
  <2>2. \A t \in DOMAIN kuzu.claims : /\ ClaimFromRow(kuzu.claims[t]) = PlainClaim(stub.claims[t])
                                      /\ kuzu.claims[t].subject = stub.claims[t].subject
    BY <1>3, <1>5, <2>1
  <2>3. ASSUME NEW x  PROVE x \in KuzuClaimsFor(n) <=>
          \E t \in DOMAIN kuzu.claims : kuzu.claims[t].subject = n /\ x = ClaimFromRow(kuzu.claims[t])
    BY DEF KuzuClaimsFor, Rows
  <2>4. ASSUME NEW x  PROVE x \in {PlainClaim(c) : c \in StubClaimsFor(n)} <=>
          \E t \in DOMAIN stub.claims : stub.claims[t].subject = n /\ x = PlainClaim(stub.claims[t])
    BY DEF StubClaimsFor, Rows
  <2> QED  BY <2>1, <2>2, <2>3, <2>4
<1> QED  BY <1>1, <1>2, <1>4, <1>5 DEF GraphsAgree, EntityRows, ClaimRows

LEMMA NewestIs ==
    ASSUME missed \subseteq DOMAIN stub.relationships, NEW i
    PROVE  i \in InTime /\ Newest(i) <=> IsNewest(i, stub.relationships, missed)
BY DEF InTime, Newest, IsNewest, EndsOf, StubRelationships

LEMMA GraphInvRelates == GraphInv => RelatedAgree
<1> SUFFICES ASSUME GraphInv  PROVE RelatedAgree
  OBVIOUS
<1> DEFINE given == stub.relationships
           newest == {given[i] : i \in {j \in InTime : Newest(j)}}
<1>1. /\ given \in Seq(ExtractedRelationships) /\ missed \subseteq DOMAIN given
      /\ EdgesAgree(given, missed, kuzu.edges, ~restarted)
      /\ \A k \in DOMAIN kuzu.edges : k = <<k[1], k[2], k[3]>> /\ {k[1], k[2]} \subseteq DOMAIN kuzu.entities
      /\ ~restarted => DOMAIN kuzu.entities \subseteq DOMAIN stub.entities
  BY DEF GraphInv, EdgeRows, EntityRows
<1>2. \A x : x \in newest <=> \E i \in DOMAIN given \ missed : IsNewest(i, given, missed) /\ x = given[i]
  BY <1>1, NewestIs DEF IsNewest
<1>3. \A i \in DOMAIN given : RelationshipIs(given[i])
  BY <1>1, ExtractionIs, ElementOfSeq, LenProperties
<1>4. \A x : x \in KuzuRelationships <=> \E k \in DOMAIN kuzu.edges :
          x = [from |-> k[1], to |-> k[2], type |-> k[3], confidence |-> kuzu.edges[k].confidence]
  BY DEF KuzuRelationships
<1> HIDE DEF newest
<1>5. ASSUME NEW i \in DOMAIN given \ missed, IsNewest(i, given, missed)
      PROVE  /\ EndsOf(given[i]) \in DOMAIN kuzu.edges
             /\ given[i] = [from |-> EndsOf(given[i])[1], to |-> EndsOf(given[i])[2], type |-> EndsOf(given[i])[3],
                            confidence |-> kuzu.edges[EndsOf(given[i])].confidence]
  BY <1>1, <1>3, <1>5 DEF EdgesAgree, EndsOf, RelationshipIs
<1>6. newest \subseteq KuzuRelationships
  <2> SUFFICES ASSUME NEW x \in newest  PROVE x \in KuzuRelationships
    OBVIOUS
  <2>1. PICK i \in DOMAIN given \ missed : IsNewest(i, given, missed) /\ x = given[i]
    BY <1>2
  <2> DEFINE k == EndsOf(given[i])
  <2>2. k \in DOMAIN kuzu.edges
        /\ x = [from |-> k[1], to |-> k[2], type |-> k[3], confidence |-> kuzu.edges[k].confidence]
    BY <2>1, <1>5
  <2> HIDE DEF k
  <2> QED  BY <2>2, <1>4
<1>7. ASSUME ~restarted, NEW k \in DOMAIN kuzu.edges
      PROVE  \E i \in DOMAIN given \ missed : IsNewest(i, given, missed) /\ EndsOf(given[i]) = k
  BY <1>1, <1>7 DEF EdgesAgree
<1>8. ~restarted => newest = KuzuRelationships
  <2> SUFFICES ASSUME ~restarted, NEW x \in KuzuRelationships  PROVE x \in newest
    BY <1>6
  <2>1. PICK k \in DOMAIN kuzu.edges :
          x = [from |-> k[1], to |-> k[2], type |-> k[3], confidence |-> kuzu.edges[k].confidence]
    BY <1>4
  <2>2. PICK i \in DOMAIN given \ missed : IsNewest(i, given, missed) /\ EndsOf(given[i]) = k
    BY <1>7
  <2>3. x = given[i]
    BY <2>1, <2>2, <1>5
  <2> QED  BY <2>2, <2>3, <1>2
<1>9. ASSUME NEW n
      PROVE  /\ \A x : x \in StubRelated(n, newest) <=>
                    x \in DOMAIN stub.entities /\ \E r \in newest : x \in Across(n, r.from, r.to)
             /\ \A x : x \in KuzuRelated(n) <=> \E k \in DOMAIN kuzu.edges : x \in Across(n, k[1], k[2])
  BY DEF StubRelated, KuzuRelated
<1>10. ASSUME NEW n  PROVE StubRelated(n, newest) \subseteq KuzuRelated(n)
  <2> SUFFICES ASSUME NEW x \in StubRelated(n, newest)  PROVE x \in KuzuRelated(n)
    OBVIOUS
  <2>1. PICK r \in newest : x \in Across(n, r.from, r.to)
    BY <1>9
  <2>2. PICK i \in DOMAIN given \ missed : IsNewest(i, given, missed) /\ r = given[i]
    BY <1>2
  <2>3. EndsOf(r) \in DOMAIN kuzu.edges /\ EndsOf(r)[1] = r.from /\ EndsOf(r)[2] = r.to
    BY <2>2, <1>5 DEF EndsOf
  <2> QED  BY <2>1, <2>3, <1>9
<1>11. ASSUME NEW n, ~restarted  PROVE KuzuRelated(n) \subseteq StubRelated(n, newest)
  <2> SUFFICES ASSUME NEW x \in KuzuRelated(n)  PROVE x \in StubRelated(n, newest)
    OBVIOUS
  <2>1. PICK k \in DOMAIN kuzu.edges : x \in Across(n, k[1], k[2])
    BY <1>9
  <2>2. PICK i \in DOMAIN given \ missed : IsNewest(i, given, missed) /\ EndsOf(given[i]) = k
    BY <1>7, <1>11
  <2>3. given[i] \in newest /\ given[i].from = k[1] /\ given[i].to = k[2]
    BY <2>2, <1>2 DEF EndsOf
  <2>4. x \in {k[1], k[2]}
    BY <2>1 DEF Across
  <2>5. x \in DOMAIN stub.entities
    BY <2>4, <1>1, <1>11
  <2> QED  BY <2>1, <2>3, <2>5, <1>9
<1>12. RelatedAgree <=>
        /\ newest \subseteq KuzuRelationships
        /\ ~restarted => newest = KuzuRelationships
        /\ \A n \in DOMAIN stub.entities :
              /\ StubRelated(n, newest) \subseteq KuzuRelated(n)
              /\ ~restarted => KuzuRelated(n) \subseteq StubRelated(n, newest)
  BY DEF RelatedAgree, newest
<1> QED  BY <1>6, <1>8, <1>10, <1>11, <1>12

(* For every extraction: what the stub says of an entity or a claim Kuzu   *)
(* says too, but for empty texts and failed saves (GraphsAgree, for        *)
(* GraphRepository's implementations in kuzu/stub.rs and kuzu/real.rs).    *)
THEOREM GraphsAgreeHolds == StoresSpec => []GraphsAgree
<1>1. StoresInit => GraphInv
  BY GraphInvStarts
<1>2. GraphInv /\ [StoresNext]_storesVars => GraphInv'
  BY GraphInvKept
<1>3. GraphInv => GraphsAgree
  BY GraphInvAgrees
<1> QED  BY <1>1, <1>2, <1>3, PTL DEF StoresSpec

(* For every extraction: both builds have the newest relationship of each  *)
(* type between two entities and relate the same entities (RelatedAgree,   *)
(* for find_related_entities and save_relationship).                       *)
THEOREM RelatedAgreeHolds == StoresSpec => []RelatedAgree
<1>1. StoresInit => GraphInv
  BY GraphInvStarts
<1>2. GraphInv /\ [StoresNext]_storesVars => GraphInv'
  BY GraphInvKept
<1>3. GraphInv => RelatedAgree
  BY GraphInvRelates
<1> QED  BY <1>1, <1>2, <1>3, PTL DEF StoresSpec

VectorRows == [id : Ids, vector : DOMAIN Dimension]

(* What LanceDB did not refuse is in its table, and unless it was stored   *)
(* over another is all the table has under its id; the table has no more   *)
(* than the stub but what was left there.                                  *)
VectorInv ==
    /\ table = [created |-> table.created, dim |-> table.dim, rows |-> table.rows]
    /\ table.rows \in Seq(VectorRows)
    /\ storing = [w \in Writers |-> storing[w]]
    /\ \A w \in Writers : storing[w].step = "looked" => storing[w].entries \in Batches
    /\ \A i \in DOMAIN entries : entries[i] \in DOMAIN Dimension
    /\ \A i \in DOMAIN entries \ failed :
          /\ i \in IdsOf(table.rows)
          /\ i \notin again => \A k \in DOMAIN table.rows : table.rows[k].id = i => table.rows[k].vector = entries[i]
    /\ IdsOf(table.rows) \subseteq DOMAIN entries \cup left

LEMMA BatchIs == ASSUME NEW b \in Batches  PROVE b \in Seq(VectorRows) /\ b # <<>>
BY StoresAssumption DEF VectorRows

LEMMA FirstLast ==
    ASSUME NEW rows \in Seq(VectorRows), NEW i \in IdsOf(rows)
    PROVE  /\ FirstRow(rows, i) \in DOMAIN rows /\ rows[FirstRow(rows, i)].id = i
           /\ LastRow(rows, i) \in DOMAIN rows /\ rows[LastRow(rows, i)].id = i
           /\ \A k \in DOMAIN rows : rows[k].id = i => FirstRow(rows, i) <= k /\ k <= LastRow(rows, i)
<1>1. Len(rows) \in Nat /\ DOMAIN rows = 1..Len(rows)
  BY LenProperties
<1> DEFINE n == Len(rows)
           places == {k \in 1..n : rows[k].id = i}
           mirrored == {n - k : k \in places}
<1>2. places # {} /\ mirrored # {} /\ places \in SUBSET (1..n) /\ mirrored \in SUBSET (0..n)
  BY <1>1 DEF IdsOf
<1>3. IsFiniteSet(1..n) /\ IsFiniteSet(0..n) /\ 1..n \subseteq Nat /\ 0..n \subseteq Nat
  BY <1>1, FS_Interval
<1>4. \E m \in places : \A k \in places : m <= k
  <2>1. IsFiniteSet(places) /\ places \in SUBSET Nat
    BY <1>2, <1>3, FS_Subset
  <2> HIDE DEF places
  <2> QED  BY <1>2, <2>1, LeastOfFinite
<1>5. \E m \in mirrored : \A k \in mirrored : m <= k
  <2>1. IsFiniteSet(mirrored) /\ mirrored \in SUBSET Nat
    BY <1>2, <1>3, FS_Subset
  <2> HIDE DEF mirrored
  <2> QED  BY <1>2, <2>1, LeastOfFinite
<1>6. \E m \in places : \A k \in places : k <= m
  <2>1. PICK m \in places : \A k \in mirrored : n - m <= k
    BY <1>5
  <2>2. ASSUME NEW k \in places  PROVE k <= m
    <3>1. n - k \in mirrored
      OBVIOUS
    <3>2. n - m <= n - k /\ m \in 1..n /\ k \in 1..n
      BY <2>1, <3>1
    <3> QED  BY <3>2, <1>1
  <2> QED  BY <2>2
<1>7. \E k \in DOMAIN rows : rows[k].id = i /\ \A l \in DOMAIN rows : rows[l].id = i => k <= l
  BY <1>1, <1>4
<1>8. \E k \in DOMAIN rows : rows[k].id = i /\ \A l \in DOMAIN rows : rows[l].id = i => l <= k
  BY <1>1, <1>6
<1>9. FirstRow(rows, i) \in DOMAIN rows /\ rows[FirstRow(rows, i)].id = i
      /\ \A l \in DOMAIN rows : rows[l].id = i => FirstRow(rows, i) <= l
  BY <1>7 DEF FirstRow
<1>10. LastRow(rows, i) \in DOMAIN rows /\ rows[LastRow(rows, i)].id = i
      /\ \A l \in DOMAIN rows : rows[l].id = i => l <= LastRow(rows, i)
  BY <1>8 DEF LastRow
<1> QED  BY <1>9, <1>10

(* Without a repetition the rows of an id are one.                         *)
LEMMA NotRepeated ==
    ASSUME NEW rows \in Seq(VectorRows), NEW k \in DOMAIN rows, rows[k].id \notin Repeated(rows)
    PROVE  k = LastRow(rows, rows[k].id)
<1> DEFINE i == rows[k].id
<1>1. i \in IdsOf(rows) /\ FirstRow(rows, i) = LastRow(rows, i)
  BY DEF Repeated, IdsOf
<1>2. Len(rows) \in Nat /\ DOMAIN rows = 1..Len(rows)
  BY LenProperties
<1>3. FirstRow(rows, i) \in DOMAIN rows /\ LastRow(rows, i) \in DOMAIN rows
      /\ FirstRow(rows, i) <= k /\ k <= LastRow(rows, i)
  BY <1>1, FirstLast
<1> QED  BY <1>1, <1>2, <1>3

LEMMA StoredRows ==
    ASSUME NEW rows \in Seq(VectorRows), NEW added \in Seq(VectorRows)
    PROVE  /\ rows \o added \in Seq(VectorRows)
           /\ IdsOf(rows \o added) = IdsOf(rows) \cup IdsOf(added)
           /\ \A k \in DOMAIN (rows \o added) :
                 \/ k \in DOMAIN rows /\ (rows \o added)[k] = rows[k]
                 \/ \E l \in DOMAIN added : (rows \o added)[k] = added[l]
<1> DEFINE all == rows \o added
<1>1. /\ Len(rows) \in Nat /\ DOMAIN rows = 1..Len(rows) /\ Len(added) \in Nat /\ DOMAIN added = 1..Len(added)
      /\ all \in Seq(VectorRows) /\ Len(all) = Len(rows) + Len(added) /\ DOMAIN all = 1..Len(all)
      /\ \A k \in 1..Len(all) : all[k] = IF k <= Len(rows) THEN rows[k] ELSE added[k - Len(rows)]
  BY LenProperties, ConcatProperties
<1> HIDE DEF all
<1>2. ASSUME NEW k \in DOMAIN all
      PROVE  \/ k \in DOMAIN rows /\ all[k] = rows[k]
             \/ \E l \in DOMAIN added : all[k] = added[l]
  <2>1. CASE k <= Len(rows)
    BY <1>1, <2>1
  <2>2. CASE k > Len(rows)
    <3>1. k - Len(rows) \in DOMAIN added /\ all[k] = added[k - Len(rows)]
      BY <1>1, <2>2
    <3> QED  BY <3>1
  <2> QED  BY <1>1, <2>1, <2>2
<1>3. \A k \in DOMAIN rows : k \in DOMAIN all /\ all[k] = rows[k]
  BY <1>1
<1>4. \A l \in DOMAIN added : Len(rows) + l \in DOMAIN all /\ all[Len(rows) + l] = added[l]
  BY <1>1
<1>5. IdsOf(all) = IdsOf(rows) \cup IdsOf(added)
  BY <1>2, <1>3, <1>4 DEF IdsOf
<1> QED  BY <1>1, <1>2, <1>5 DEF all

LEMMA VectorInvStarts == StoresInit => VectorInv
<1> SUFFICES ASSUME StoresInit  PROVE VectorInv
  OBVIOUS
<1>1. table = NoTable /\ entries = <<>> /\ storing = [w \in Writers |-> NotStoring]
  BY DEF StoresInit, VectorInit
<1>2. \A w \in Writers : storing[w].step = "idle"
  BY <1>1 DEF NotStoring
<1>3. table.rows = <<>> /\ table = [created |-> table.created, dim |-> table.dim, rows |-> table.rows]
  BY <1>1 DEF NoTable
<1>4. DOMAIN entries = {} /\ IdsOf(table.rows) = {} /\ table.rows \in Seq(VectorRows)
  BY <1>1, <1>3, EmptySeq DEF IdsOf
<1>5. storing = [w \in Writers |-> storing[w]] /\ \A w \in Writers : storing[w].step # "looked"
  BY <1>1, <1>2
<1> QED  BY <1>1, <1>3, <1>4, <1>5 DEF VectorInv

LEMMA StubStoreGives ==
    ASSUME NEW added \in Seq(VectorRows), StubStore(added), \A i \in DOMAIN entries : entries[i] \in DOMAIN Dimension
    PROVE  /\ DOMAIN entries' = DOMAIN entries \cup IdsOf(added)
           /\ \A i \in IdsOf(added) : entries'[i] = added[LastRow(added, i)].vector
           /\ \A i \in DOMAIN entries \ IdsOf(added) : entries'[i] = entries[i]
           /\ \A i \in DOMAIN entries' : entries'[i] \in DOMAIN Dimension
<1>1. /\ DOMAIN entries' = DOMAIN entries \cup IdsOf(added)
      /\ \A i \in IdsOf(added) : entries'[i] = added[LastRow(added, i)].vector
      /\ \A i \in DOMAIN entries \ IdsOf(added) : entries'[i] = entries[i]
  BY DEF StubStore
<1>2. ASSUME NEW i \in IdsOf(added)  PROVE entries'[i] \in DOMAIN Dimension
  <2>1. LastRow(added, i) \in DOMAIN added
    BY FirstLast
  <2>2. added[LastRow(added, i)] \in VectorRows
    BY <2>1, ElementOfSeq, LenProperties
  <2> QED  BY <2>2, <1>1 DEF VectorRows
<1> QED  BY <1>1, <1>2

LEMMA NotStoredKeeps ==
    ASSUME VectorInv, NEW batch \in Batches, StubStore(batch), NotStored(batch), left' = left,
           storing' = [w \in Writers |-> storing'[w]],
           \A w \in Writers : storing'[w].step = "looked" => storing'[w].entries \in Batches
    PROVE  VectorInv'
<1>1. batch \in Seq(VectorRows) /\ \A i \in DOMAIN entries : entries[i] \in DOMAIN Dimension
  BY BatchIs DEF VectorInv
<1>2. /\ DOMAIN entries' = DOMAIN entries \cup IdsOf(batch)
      /\ \A i \in DOMAIN entries \ IdsOf(batch) : entries'[i] = entries[i]
      /\ \A i \in DOMAIN entries' : entries'[i] \in DOMAIN Dimension
  BY <1>1, StubStoreGives
<1>3. failed' = failed \cup IdsOf(batch) /\ table' = table /\ again' = again
  BY DEF NotStored
<1>4. ASSUME NEW i \in DOMAIN entries' \ failed'
      PROVE  i \in DOMAIN entries \ failed /\ entries'[i] = entries[i]
  BY <1>2, <1>3
<1>5. IdsOf(table'.rows) \subseteq DOMAIN entries' \cup left'
  BY <1>2, <1>3 DEF VectorInv
<1> QED  BY <1>2, <1>3, <1>4, <1>5 DEF VectorInv

LEMMA LookForTableKeeps ==
    ASSUME VectorInv, NEW w \in Writers, LookForTable(w)  PROVE VectorInv'
<1>1. PICK batch \in Batches :
        \/ \E found \in BOOLEAN :
              /\ storing' = [storing EXCEPT ![w] = [step |-> "looked", entries |-> batch, found |-> found]]
              /\ UNCHANGED <<entries, table, failed, again>>
        \/ StubStore(batch) /\ NotStored(batch) /\ UNCHANGED storing
  BY DEF LookForTable
<1>2. left' = left
  BY DEF LookForTable
<1>3. ASSUME NEW found \in BOOLEAN,
             storing' = [storing EXCEPT ![w] = [step |-> "looked", entries |-> batch, found |-> found]],
             UNCHANGED <<entries, table, failed, again>>
      PROVE  VectorInv'
  <2> DEFINE call == [step |-> "looked", entries |-> batch, found |-> found]
  <2>1. call.entries \in Batches
    OBVIOUS
  <2> HIDE DEF call
  <2>2. storing' = [storing EXCEPT ![w] = call]
    BY <1>3 DEF call
  <2> QED  BY <1>2, <1>3, <2>1, <2>2 DEF VectorInv
<1>4. CASE StubStore(batch) /\ NotStored(batch) /\ UNCHANGED storing
  <2>1. /\ storing' = [v \in Writers |-> storing'[v]]
        /\ \A v \in Writers : storing'[v].step = "looked" => storing'[v].entries \in Batches
    BY <1>4 DEF VectorInv
  <2> QED  BY <1>2, <1>4, <2>1, NotStoredKeeps
<1> QED  BY <1>1, <1>3, <1>4

LEMMA AddOrCreateKeeps ==
    ASSUME VectorInv, NEW w \in Writers, AddOrCreate(w)  PROVE VectorInv'
<1> DEFINE call == storing[w]
           added == call.entries
<1>1. added \in Batches /\ added \in Seq(VectorRows)
  BY BatchIs DEF VectorInv, AddOrCreate
<1>2. /\ StubStore(added) /\ storing' = [storing EXCEPT ![w] = NotStoring] /\ left' = left
      /\ \/ NotStored(added)
         \/ /\ table' = [created |-> TRUE, dim |-> DimensionOf(added), rows |-> table.rows \o added]
            /\ again' = again \cup (IdsOf(added) \cap IdsOf(table.rows)) \cup Repeated(added)
            /\ failed' = failed \ IdsOf(added)
  BY DEF AddOrCreate, LanceStore
<1>3. /\ storing' = [v \in Writers |-> storing'[v]]
      /\ \A v \in Writers : storing'[v].step = "looked" => storing'[v].entries \in Batches
  <2>1. NotStoring.step # "looked"
    BY DEF NotStoring
  <2> HIDE DEF call
  <2> QED  BY <1>2, <2>1 DEF VectorInv
<1>4. table.rows \in Seq(VectorRows)
      /\ table = [created |-> table.created, dim |-> table.dim, rows |-> table.rows]
  BY DEF VectorInv
<1> HIDE DEF added
<1>5. /\ DOMAIN entries' = DOMAIN entries \cup IdsOf(added)
      /\ \A i \in IdsOf(added) : entries'[i] = added[LastRow(added, i)].vector
      /\ \A i \in DOMAIN entries \ IdsOf(added) : entries'[i] = entries[i]
      /\ \A i \in DOMAIN entries' : entries'[i] \in DOMAIN Dimension
  BY <1>1, <1>2, StubStoreGives DEF VectorInv
<1>6. CASE NotStored(added)
  BY <1>1, <1>2, <1>3, <1>6, NotStoredKeeps
<1>7. CASE /\ table' = [created |-> TRUE, dim |-> DimensionOf(added), rows |-> table.rows \o added]
           /\ again' = again \cup (IdsOf(added) \cap IdsOf(table.rows)) \cup Repeated(added)
           /\ failed' = failed \ IdsOf(added)
  <2>1. table'.rows = table.rows \o added
        /\ table' = [created |-> table'.created, dim |-> table'.dim, rows |-> table'.rows]
    BY <1>7
  <2>2. /\ table'.rows \in Seq(VectorRows) /\ IdsOf(table'.rows) = IdsOf(table.rows) \cup IdsOf(added)
        /\ \A k \in DOMAIN table'.rows :
              \/ k \in DOMAIN table.rows /\ table'.rows[k] = table.rows[k]
              \/ \E l \in DOMAIN added : table'.rows[k] = added[l]
    BY <2>1, <1>1, <1>4, StoredRows
  <2>3. IdsOf(table'.rows) \subseteq DOMAIN entries' \cup left'
    BY <1>2, <1>5, <2>2 DEF VectorInv
  <2>4. ASSUME NEW i \in DOMAIN entries' \ failed'
        PROVE  i \in IdsOf(table'.rows)
    BY <1>5, <1>7, <2>2 DEF VectorInv
  <2>5. ASSUME NEW i \in DOMAIN entries' \ failed', i \notin again',
               NEW k \in DOMAIN table'.rows, table'.rows[k].id = i
        PROVE  table'.rows[k].vector = entries'[i]
    <3>1. CASE i \in IdsOf(added)
      <4>1. i \notin IdsOf(table.rows) /\ i \notin Repeated(added)
        BY <3>1, <2>5, <1>7
      <4>2. PICK l \in DOMAIN added : table'.rows[k] = added[l]
        BY <2>2, <2>5, <4>1 DEF IdsOf
      <4>3. l = LastRow(added, i)
        BY <4>1, <4>2, <2>5, <1>1, NotRepeated
      <4> QED  BY <3>1, <4>2, <4>3, <1>5
    <3>2. CASE i \notin IdsOf(added)
      <4>1. i \in DOMAIN entries \ failed /\ i \notin again /\ entries'[i] = entries[i]
        BY <3>2, <2>5, <1>5, <1>7
      <4>2. k \in DOMAIN table.rows /\ table'.rows[k] = table.rows[k]
        BY <3>2, <2>2, <2>5 DEF IdsOf
      <4> QED  BY <4>1, <4>2, <2>5 DEF VectorInv
    <3> QED  BY <3>1, <3>2
  <2> QED  BY <1>3, <1>4, <1>5, <2>1, <2>2, <2>3, <2>4, <2>5 DEF VectorInv
<1> QED  BY <1>2, <1>6, <1>7

LEMMA RowsGoneKeeps ==
    ASSUME VectorInv, NEW i \in Ids, RowsGone(i), failed' = failed \ {i}, UNCHANGED storing,
           entries' = [j \in DOMAIN entries \ {i} |-> entries[j]]
    PROVE  VectorInv'
<1> DEFINE rows == table.rows
           rest == Filtered(rows, LAMBDA r : r.id # i)
           K == {r \in VectorRows : r.id # i}
<1>1. rows \in Seq(VectorRows) /\ table = [created |-> table.created, dim |-> table.dim, rows |-> table.rows]
  BY DEF VectorInv
<1>2. \A k \in 1..Len(rows) : rows[k].id # i <=> rows[k] \in K
  BY <1>1, ElementOfSeq, LenProperties
<1>3. \E f : IsFilter(f, rows, K) /\ rest = f[Len(rows)]
  <2> HIDE DEF K
  <2>1. \A f : IsFilter(f, rows, K) <=>
         f = [k \in 0..Len(rows) |-> IF k = 0 THEN <<>>
                                     ELSE IF rows[k].id # i THEN Append(f[k - 1], rows[k]) ELSE f[k - 1]]
    BY <1>1, <1>2, LenProperties DEF IsFilter
  <2> QED  BY <1>1, <2>1, FilterExists DEF Filtered
<1> HIDE DEF rest, K
<1>4. rest \in Seq(VectorRows) /\ ToSet(rest) = ToSet(rows) \cap K
  BY <1>1, <1>3, FilterGives
<1>5. ASSUME NEW k \in DOMAIN rest  PROVE rest[k].id # i /\ \E l \in DOMAIN rows : rest[k] = rows[l]
  <2>1. rest[k] \in ToSet(rest)
    BY <1>4, LenProperties DEF ToSet
  <2> QED  BY <2>1, <1>4 DEF ToSet, K
<1>6. ASSUME NEW l \in DOMAIN rows, rows[l].id # i  PROVE \E k \in DOMAIN rest : rest[k] = rows[l]
  <2>1. rows[l] \in ToSet(rows) /\ rows[l] \in K
    BY <1>1, <1>2, <1>6, LenProperties DEF ToSet
  <2> QED  BY <2>1, <1>4 DEF ToSet
<1>7. IdsOf(rest) = IdsOf(rows) \ {i}
  BY <1>5, <1>6 DEF IdsOf
<1>8. /\ entries' = [j \in DOMAIN entries \ {i} |-> entries[j]]
      /\ table' = [table EXCEPT !.rows = rest] /\ failed' = failed \ {i} /\ again' = again \ {i} /\ left' = left \ {i}
  BY DEF RowsGone, rest
<1>9. table'.rows = rest /\ table' = [created |-> table'.created, dim |-> table'.dim, rows |-> table'.rows]
  BY <1>1, <1>8
<1>10. DOMAIN entries' = DOMAIN entries \ {i} /\ \A j \in DOMAIN entries' : entries'[j] = entries[j]
  BY <1>8
<1>11. ASSUME NEW j \in DOMAIN entries' \ failed'
       PROVE  /\ j \in IdsOf(rest)
              /\ j \notin again' => \A k \in DOMAIN rest : rest[k].id = j => rest[k].vector = entries'[j]
  <2>1. j \in DOMAIN entries \ failed /\ j # i /\ (j \notin again' => j \notin again)
    BY <1>8, <1>10
  <2>2. j \in IdsOf(rows)
        /\ (j \notin again => \A l \in DOMAIN rows : rows[l].id = j => rows[l].vector = entries[j])
    BY <2>1 DEF VectorInv
  <2>3. j \in IdsOf(rest)
    BY <2>1, <2>2, <1>7
  <2>4. ASSUME j \notin again', NEW k \in DOMAIN rest, rest[k].id = j  PROVE rest[k].vector = entries'[j]
    <3>1. PICK l \in DOMAIN rows : rest[k] = rows[l]
      BY <1>5
    <3>2. rows[l].vector = entries[j]
      BY <2>1, <2>2, <2>4, <3>1
    <3>3. entries'[j] = entries[j]
      BY <1>10
    <3> QED  BY <3>1, <3>2, <3>3
  <2> QED  BY <2>3, <2>4
<1>12. IdsOf(rest) \subseteq DOMAIN entries' \cup left'
  BY <1>7, <1>8, <1>10 DEF VectorInv
<1> QED  BY <1>1, <1>4, <1>8, <1>9, <1>10, <1>11, <1>12 DEF VectorInv

LEMMA RowsStayKeeps ==
    ASSUME VectorInv, NEW i \in Ids, RowsStay(i), failed' = failed \ {i}, UNCHANGED storing,
           entries' = [j \in DOMAIN entries \ {i} |-> entries[j]]
    PROVE  VectorInv'
<1>1. table' = table /\ again' = again /\ left' = left \cup ({i} \cap IdsOf(table.rows))
  BY DEF RowsStay
<1>2. DOMAIN entries' = DOMAIN entries \ {i} /\ \A j \in DOMAIN entries' : entries'[j] = entries[j]
  OBVIOUS
<1>3. \A j \in DOMAIN entries' \ failed' : j \in DOMAIN entries \ failed /\ entries'[j] = entries[j]
  BY <1>2
<1>4. IdsOf(table'.rows) \subseteq DOMAIN entries' \cup left'
  BY <1>1, <1>2 DEF VectorInv
<1> QED  BY <1>1, <1>2, <1>3, <1>4 DEF VectorInv

LEMMA DeleteVectorKeeps ==
    ASSUME VectorInv, NEW i \in Ids, DeleteVector(i)  PROVE VectorInv'
<1>1. /\ failed' = failed \ {i} /\ UNCHANGED storing
      /\ entries' = [j \in DOMAIN entries \ {i} |-> entries[j]]
      /\ RowsGone(i) \/ RowsStay(i)
  BY DEF DeleteVector
<1> QED  BY <1>1, RowsGoneKeeps, RowsStayKeeps

LEMMA VectorInvKept == VectorInv /\ [StoresNext]_storesVars => VectorInv'
<1> SUFFICES ASSUME VectorInv, [StoresNext]_storesVars  PROVE VectorInv'
  OBVIOUS
<1>1. CASE UNCHANGED vectorVars
  BY <1>1 DEF VectorInv, vectorVars
<1>2. CASE UseVectors
  <2>1. VectorStep
    BY <1>2 DEF UseVectors
  <2>2. CASE \E w \in Writers : LookForTable(w)
    BY <2>1, <2>2, LookForTableKeeps
  <2>3. CASE \E w \in Writers : AddOrCreate(w)
    BY <2>1, <2>3, AddOrCreateKeeps
  <2>4. CASE \E i \in Ids : DeleteVector(i)
    BY <2>1, <2>4, DeleteVectorKeeps
  <2> QED  BY <2>1, <2>2, <2>3, <2>4 DEF VectorStep
<1>3. CASE StoresRestart
  <2>1. entries' = <<>> /\ storing' = [w \in Writers |-> NotStoring] /\ table' = table
        /\ failed' = {} /\ left' = IdsOf(table.rows)
    BY <1>3 DEF StoresRestart, VectorRestart
  <2>2. NotStoring.step # "looked"
    BY DEF NotStoring
  <2> QED  BY <2>1, <2>2 DEF VectorInv
<1> QED  BY <1>1, <1>2, <1>3 DEF StoresNext, Seed, storesVars, vectorVars

LEMMA VectorInvAgrees == VectorInv => VectorsAgree
<1> SUFFICES ASSUME VectorInv, NEW i \in Ids \ failed
             PROVE  /\ StubVector(i) # None => LanceVector(i) # None
                    /\ StubVector(i) # None /\ i \notin again => LanceVector(i) = StubVector(i)
                    /\ StubVector(i) = None /\ i \notin left => LanceVector(i) = None
  BY DEF VectorsAgree
<1>1. None \notin DOMAIN Dimension /\ table.rows \in Seq(VectorRows)
  BY StoresAssumption DEF VectorInv
<1>2. StubVector(i) # None <=> i \in DOMAIN entries
  BY <1>1 DEF StubVector, VectorInv
<1>3. ASSUME i \in IdsOf(table.rows)
      PROVE  /\ FirstRow(table.rows, i) \in DOMAIN table.rows /\ table.rows[FirstRow(table.rows, i)].id = i
             /\ LanceVector(i) = table.rows[FirstRow(table.rows, i)].vector
             /\ LanceVector(i) # None
  <2>1. FirstRow(table.rows, i) \in DOMAIN table.rows /\ table.rows[FirstRow(table.rows, i)].id = i
    BY <1>1, <1>3, FirstLast
  <2>2. table.rows[FirstRow(table.rows, i)] \in VectorRows
    BY <1>1, <2>1, ElementOfSeq, LenProperties
  <2>3. LanceVector(i) = table.rows[FirstRow(table.rows, i)].vector
    BY <1>3 DEF LanceVector
  <2> QED  BY <1>1, <2>1, <2>2, <2>3 DEF VectorRows
<1>4. CASE i \in DOMAIN entries
  <2>1. i \in IdsOf(table.rows)
        /\ (i \notin again => \A k \in DOMAIN table.rows : table.rows[k].id = i => table.rows[k].vector = entries[i])
    BY <1>4 DEF VectorInv
  <2>2. StubVector(i) = entries[i]
    BY <1>4 DEF StubVector
  <2>3. LanceVector(i) # None /\ (i \notin again => LanceVector(i) = StubVector(i))
    BY <1>3, <2>1, <2>2
  <2> QED  BY <1>2, <1>4, <2>3
<1>5. CASE i \notin DOMAIN entries
  BY <1>2, <1>5 DEF VectorInv, LanceVector
<1> QED  BY <1>4, <1>5

(* For every batch and every two callers: a stored vector is found in both *)
(* builds, the same unless stored over another (VectorsAgree, for          *)
(* VectorRepository's implementations in vectordb/stub.rs and lancedb.rs). *)
THEOREM VectorsAgreeHolds == StoresSpec => []VectorsAgree
<1>1. StoresInit => VectorInv
  BY VectorInvStarts
<1>2. VectorInv /\ [StoresNext]_storesVars => VectorInv'
  BY VectorInvKept
<1>3. VectorInv => VectorsAgree
  BY VectorInvAgrees
<1> QED  BY <1>1, <1>2, <1>3, PTL DEF StoresSpec
===============================================================================
