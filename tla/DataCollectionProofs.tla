------------------------- MODULE DataCollectionProofs -------------------------
(***************************************************************************)
(* Proofs about DataCollection, for any blocks and accesses of the guest,  *)
(* any width of an int and any number of accesses.                         *)
(*                                                                         *)
(* The records are counted with the folds of the community modules, so the *)
(* first lemmas say what such a sum is, by taking out one term.  The       *)
(* tables' part of the argument is the order of their trees: by base       *)
(* address for the blocks; for the accesses, one order for every           *)
(* instruction i whose addresses an int can tell apart, which relates the  *)
(* records by instruction and only those of i by address.  The index       *)
(* follows each of these orders, so that it finds the records of i.        *)
(***************************************************************************)
EXTENDS DataCollection, AvlTreeProofs

(* F gives the sum of g over every subset of S, whatever element is taken  *)
(* first.                                                                  *)
Sums(F, g, S) ==
  /\ F \in [SUBSET S -> Nat]
  /\ F[{}] = 0
  /\ \A s \in SUBSET S : \A x \in s : F[s] = g[x] + F[s \ {x}]

(* Among finite sets one has the fewest elements. *)
LEMMA FewestElements ==
  ASSUME NEW T, T # {}, \A s \in T : IsFiniteSet(s)
  PROVE  \E s \in T : \A r \in T : Cardinality(s) <= Cardinality(r)
<1> DEFINE C == {Cardinality(s) : s \in T}
<1>1. C \subseteq Nat /\ C # {}
  BY FS_CardinalityType
<1> HIDE DEF C
<1>2. PICK c \in C : \A d \in C : c <= d
  BY <1>1, Smallest
<1> QED
  BY <1>2 DEF C

(* Taking an element out of a finite set lowers its cardinality. *)
LEMMA OneFewer ==
  ASSUME NEW s, IsFiniteSet(s), NEW x \in s
  PROVE  IsFiniteSet(s \ {x}) /\ ~ (Cardinality(s) <= Cardinality(s \ {x}))
<1>1. IsFiniteSet(s \ {x}) /\ Cardinality(s \ {x}) = Cardinality(s) - 1
  BY FS_RemoveElement
<1>2. Cardinality(s) \in Nat
  BY FS_CardinalityType
<1> QED
  BY <1>1, <1>2

(* The sums over the subsets of s, given those of s without x.             *)
SumsWith(F, g, s, x) ==
  [r \in SUBSET s |-> IF x \in r THEN g[x] + F[r \ {x}] ELSE F[r]]

LEMMA SumsExtend ==
  ASSUME NEW s, NEW g \in [s -> Nat], NEW x \in s, NEW F, Sums(F, g, s \ {x})
  PROVE  Sums(SumsWith(F, g, s, x), g, s)
<1> DEFINE G == SumsWith(F, g, s, x)
<1>1. /\ F \in [SUBSET (s \ {x}) -> Nat] /\ F[{}] = 0
      /\ \A r \in SUBSET (s \ {x}) : \A y \in r : F[r] = g[y] + F[r \ {y}]
  BY DEF Sums
<1>2. ASSUME NEW r \in SUBSET s
      PROVE  /\ x \in r => G[r] = g[x] + F[r \ {x}]
             /\ x \notin r => G[r] = F[r]
  BY DEF SumsWith
<1>3. ASSUME NEW r \in SUBSET s PROVE G[r] \in Nat
  <2>1. CASE x \in r
    <3>1. r \ {x} \in SUBSET (s \ {x})
      OBVIOUS
    <3>2. F[r \ {x}] \in Nat /\ g[x] \in Nat
      BY <1>1, <3>1
    <3>3. G[r] = g[x] + F[r \ {x}]
      BY <1>2, <2>1
    <3> HIDE DEF G
    <3> QED
      BY <3>2, <3>3
  <2>2. CASE x \notin r
    BY <1>1, <1>2, <2>2
  <2> QED
    BY <2>1, <2>2
<1>4. G \in [SUBSET s -> Nat]
  <2>1. G = [r \in SUBSET s |-> G[r]]
    BY DEF SumsWith
  <2> HIDE DEF G
  <2> QED
    BY <2>1, <1>3
<1>5. G[{}] = 0
  BY <1>1, <1>2
<1>6. ASSUME NEW r \in SUBSET s, NEW y \in r PROVE G[r] = g[y] + G[r \ {y}]
  <2>1. r \ {y} \in SUBSET s /\ r \ {x} \in SUBSET (s \ {x})
    OBVIOUS
  <2>2. CASE x \notin r
    <3>1. r \in SUBSET (s \ {x}) /\ x \notin r \ {y}
      BY <2>2
    <3>2. G[r] = F[r] /\ G[r \ {y}] = F[r \ {y}]
      BY <1>2, <2>1, <2>2, <3>1
    <3>3. F[r] = g[y] + F[r \ {y}]
      BY <1>1, <3>1
    <3> HIDE DEF G
    <3> QED
      BY <3>2, <3>3
  <2>3. CASE x = y
    <3>1. x \notin r \ {y}
      BY <2>3
    <3> QED
      BY <1>2, <2>1, <2>3, <3>1
  <2>4. CASE x \in r /\ x # y
    <3>1. G[r] = g[x] + F[r \ {x}]
      BY <1>2, <2>4
    <3>2. F[r \ {x}] = g[y] + F[(r \ {x}) \ {y}]
      BY <1>1, <2>1, <2>4
    <3>3. x \in r \ {y} /\ (r \ {x}) \ {y} = (r \ {y}) \ {x}
      BY <2>4
    <3>4. G[r \ {y}] = g[x] + F[(r \ {y}) \ {x}]
      BY <1>2, <2>1, <3>3
    <3>5. (r \ {x}) \ {y} \in SUBSET (s \ {x})
      OBVIOUS
    <3>6. g[x] \in Nat /\ g[y] \in Nat /\ F[(r \ {x}) \ {y}] \in Nat
      BY <1>1, <3>5
    <3> HIDE DEF G
    <3> QED
      BY <3>1, <3>2, <3>3, <3>4, <3>6
  <2> QED
    BY <2>2, <2>3, <2>4
<1> QED
  BY <1>4, <1>5, <1>6 DEF Sums

LEMMA SumsExist ==
  ASSUME NEW S, IsFiniteSet(S), NEW g \in [S -> Nat]
  PROVE  \E F : Sums(F, g, S)
<1> DEFINE T == {s \in SUBSET S : ~ \E F : Sums(F, g, s)}
<1>1. SUFFICES ASSUME T # {} PROVE FALSE
  OBVIOUS
<1>2. \A s \in T : IsFiniteSet(s)
  BY FS_Subset
<1>3. PICK s \in T : \A r \in T : Cardinality(s) <= Cardinality(r)
  <2> HIDE DEF T
  <2> QED
    BY <1>1, <1>2, FewestElements
<1>4. CASE s = {}
  <2> DEFINE F == [r \in SUBSET {} |-> 0]
  <2>1. F \in [SUBSET {} -> Nat] /\ F[{}] = 0
    OBVIOUS
  <2>2. \A r \in SUBSET {} : \A x \in r : F[r] = g[x] + F[r \ {x}]
    OBVIOUS
  <2>3. Sums(F, g, {})
    BY <2>1, <2>2 DEF Sums
  <2> QED
    BY <1>3, <1>4, <2>3
<1>5. CASE s # {}
  <2>1. PICK x \in s : TRUE
    BY <1>5
  <2>2. IsFiniteSet(s \ {x}) /\ ~ (Cardinality(s) <= Cardinality(s \ {x}))
    BY <1>2, <2>1, OneFewer
  <2>3. s \ {x} \in SUBSET S /\ s \ {x} \notin T
    BY <1>3, <2>2
  <2>4. PICK F : Sums(F, g, s \ {x})
    BY <2>3
  <2> DEFINE f == [y \in s |-> g[y]]
  <2>5. f \in [s -> Nat] /\ \A y \in s : f[y] = g[y]
    BY <1>3
  <2>6. Sums(F, f, s \ {x})
    BY <2>4, <2>5 DEF Sums
  <2> HIDE DEF f
  <2>7. Sums(SumsWith(F, f, s, x), f, s)
    BY <2>5, <2>6, SumsExtend
  <2>8. Sums(SumsWith(F, f, s, x), g, s)
    BY <2>5, <2>7 DEF Sums
  <2> QED
    BY <1>3, <2>8
<1> QED
  BY <1>4, <1>5

Takes(G, g, S) ==
  G[{}] = 0 /\ \A s \in SUBSET S : s # {} => \E x \in s : G[s] = g[x] + G[s \ {x}]

(* The sums are what any function computes that takes out one element of   *)
(* each subset.                                                            *)
LEMMA SumsUnique ==
  ASSUME NEW S, IsFiniteSet(S), NEW g, NEW F, Sums(F, g, S), NEW G, Takes(G, g, S)
  PROVE  \A s \in SUBSET S : G[s] = F[s]
<1> DEFINE T == {s \in SUBSET S : G[s] # F[s]}
<1>1. SUFFICES ASSUME T # {} PROVE FALSE
  OBVIOUS
<1>2. \A s \in T : IsFiniteSet(s)
  BY FS_Subset
<1>3. PICK s \in T : \A r \in T : Cardinality(s) <= Cardinality(r)
  <2> HIDE DEF T
  <2> QED
    BY <1>1, <1>2, FewestElements
<1>4. s # {}
  BY <1>3 DEF Sums, Takes
<1>5. PICK x \in s : G[s] = g[x] + G[s \ {x}]
  BY <1>3, <1>4 DEF Takes
<1>6. IsFiniteSet(s \ {x}) /\ ~ (Cardinality(s) <= Cardinality(s \ {x}))
  BY <1>2, <1>5, OneFewer
<1>7. s \ {x} \in SUBSET S /\ G[s \ {x}] = F[s \ {x}]
  BY <1>3, <1>6
<1>8. F[s] = g[x] + F[s \ {x}]
  BY <1>3, <1>5 DEF Sums
<1> QED
  BY <1>3, <1>5, <1>7, <1>8

Sum(g) == FoldFunction(+, 0, g)

Counters(list) == [i \in DOMAIN list |-> list[i].counter]

(* The fold over a function is the sum over its domain. *)
LEMMA SumIs ==
  ASSUME NEW S, IsFiniteSet(S), NEW g \in [S -> Nat], NEW F, Sums(F, g, S)
  PROVE  Sum(g) = F[S]
<1> DEFINE Eq(G) == G = [s \in SUBSET S |->
                           IF s = {} THEN 0
                           ELSE LET x == CHOOSE x \in s : TRUE IN g[x] + G[s \ {x}]]
           K == CHOOSE G : Eq(G)
<1>1. Sum(g) = K[S]
  BY DEF Sum, FoldFunction, FoldFunctionOnSet, MapThenFoldSet
<1>2. Eq(F)
  <2>1. F = [s \in SUBSET S |-> F[s]]
    BY DEF Sums
  <2>2. ASSUME NEW s \in SUBSET S
        PROVE  F[s] = IF s = {} THEN 0
                      ELSE LET x == CHOOSE x \in s : TRUE IN g[x] + F[s \ {x}]
    <3>1. CASE s = {}
      BY <3>1 DEF Sums
    <3>2. CASE s # {}
      <4>1. (CHOOSE x \in s : TRUE) \in s
        BY <3>2
      <4> QED
        BY <3>2, <4>1 DEF Sums
    <3> QED
      BY <3>1, <3>2
  <2> QED
    BY <2>1, <2>2
<1>3. Eq(K)
  BY <1>2
<1> HIDE DEF K
<1>4. K[{}] = 0
  BY <1>3
<1>5. ASSUME NEW s \in SUBSET S, s # {}
      PROVE  \E x \in s : K[s] = g[x] + K[s \ {x}]
  <2>1. (CHOOSE x \in s : TRUE) \in s
    BY <1>5
  <2> QED
    BY <1>3, <1>5, <2>1
<1>6. \A s \in SUBSET S : K[s] = F[s]
  <2>1. Takes(K, g, S)
    BY <1>4, <1>5 DEF Takes
  <2> QED
    BY <2>1, SumsUnique
<1> QED
  BY <1>1, <1>6

LEMMA CountersAre ==
  ASSUME NEW n \in Nat, NEW list \in [1 .. n -> MemInfo]
  PROVE  /\ Counters(list) \in [1 .. n -> Nat]
         /\ \A i \in 1 .. n : Counters(list)[i] = list[i].counter
BY DEF Counters, MemInfo

(* So is the fold over the counters of a list of records. *)
LEMMA SumOfCounters ==
  ASSUME NEW n \in Nat, NEW list \in [1 .. n -> MemInfo]
  PROVE  FoldSeq(LAMBDA r, m : r.counter + m, 0, list) = Sum(Counters(list))
<1> DEFINE S == 1 .. n
           g == Counters(list)
           Eq(G) == G = [s \in SUBSET S |->
                           IF s = {} THEN 0
                           ELSE LET x == CHOOSE x \in s : TRUE IN list[x].counter + G[s \ {x}]]
           K == CHOOSE G : Eq(G)
<1>1. FoldSeq(LAMBDA r, m : r.counter + m, 0, list) = K[S]
  BY DEF FoldSeq, FoldFunction, FoldFunctionOnSet, MapThenFoldSet
<1>2. IsFiniteSet(S)
  BY FS_Interval
<1>3. g \in [S -> Nat] /\ \A i \in S : g[i] = list[i].counter
  BY CountersAre
<1> HIDE DEF g, S
<1>4. PICK F : Sums(F, g, S)
  BY <1>2, <1>3, SumsExist
<1>5. Eq(F)
  <2>1. F = [s \in SUBSET S |-> F[s]]
    BY <1>4 DEF Sums
  <2>2. ASSUME NEW s \in SUBSET S
        PROVE  F[s] = IF s = {} THEN 0
                      ELSE LET x == CHOOSE x \in s : TRUE IN list[x].counter + F[s \ {x}]
    <3>1. CASE s = {}
      BY <1>4, <3>1 DEF Sums
    <3>2. CASE s # {}
      <4>1. (CHOOSE x \in s : TRUE) \in s
        BY <3>2
      <4> QED
        BY <1>3, <1>4, <3>2, <4>1 DEF Sums
    <3> QED
      BY <3>1, <3>2
  <2> QED
    BY <2>1, <2>2
<1>6. Eq(K)
  BY <1>5
<1> HIDE DEF K
<1>7. K[{}] = 0
  BY <1>6
<1>8. ASSUME NEW s \in SUBSET S, s # {}
      PROVE  \E x \in s : K[s] = g[x] + K[s \ {x}]
  <2>1. (CHOOSE x \in s : TRUE) \in s
    BY <1>8
  <2> QED
    BY <1>3, <1>6, <1>8, <2>1
<1>9. \A s \in SUBSET S : K[s] = F[s]
  <2>1. Takes(K, g, S)
    BY <1>7, <1>8 DEF Takes
  <2> QED
    BY <1>2, <1>4, <2>1, SumsUnique
<1>10. Sum(g) = F[S]
  BY <1>2, <1>3, <1>4, SumIs
<1> QED
  BY <1>1, <1>9, <1>10 DEF g

-----------------------------------------------------------------------------
Without(g, S, x) == [y \in S \ {x} |-> g[y]]

(* What a sum is without one of its terms. *)
LEMMA SumTake ==
  ASSUME NEW S, IsFiniteSet(S), NEW g \in [S -> Nat], NEW x \in S,
         NEW f, f = Without(g, S, x)
  PROVE  Sum(g) = g[x] + Sum(f) /\ Sum(f) \in Nat /\ Sum(g) \in Nat
<1>1. PICK F : Sums(F, g, S)
  BY SumsExist
<1>2. Sum(g) = F[S]
  BY <1>1, SumIs
<1> DEFINE U == S \ {x}
           G == [s \in SUBSET U |-> F[s]]
<1>3. IsFiniteSet(U) /\ f \in [U -> Nat]
  BY FS_RemoveElement DEF Without
<1>4. Sums(G, f, U)
  <2>1. /\ F \in [SUBSET S -> Nat] /\ F[{}] = 0
        /\ \A s \in SUBSET S : \A y \in s : F[s] = g[y] + F[s \ {y}]
    BY <1>1 DEF Sums
  <2>2. \A s \in SUBSET U : s \in SUBSET S
    OBVIOUS
  <2>3. G \in [SUBSET U -> Nat] /\ G[{}] = 0
    BY <2>1, <2>2
  <2>4. ASSUME NEW s \in SUBSET U, NEW y \in s PROVE G[s] = f[y] + G[s \ {y}]
    <3>1. s \in SUBSET S /\ s \ {y} \in SUBSET U /\ y \in U
      OBVIOUS
    <3>2. G[s] = F[s] /\ G[s \ {y}] = F[s \ {y}]
      BY <3>1
    <3>3. f[y] = g[y]
      BY <3>1 DEF Without
    <3> QED
      BY <2>1, <3>1, <3>2, <3>3
  <2> HIDE DEF G, U
  <2> QED
    BY <2>3, <2>4 DEF Sums
<1>5. Sum(f) = G[U]
  <2> HIDE DEF G, U
  <2> QED
    BY <1>3, <1>4, SumIs
<1>6. U \in SUBSET S /\ S \in SUBSET S
  OBVIOUS
<1>7. G[U] = F[U] /\ F[U] \in Nat /\ F[S] \in Nat
  BY <1>1, <1>6 DEF Sums
<1>8. F[S] = g[x] + F[U]
  BY <1>1, <1>6 DEF Sums
<1> QED
  BY <1>2, <1>5, <1>7, <1>8

LEMMA SumZero ==
  ASSUME NEW S, IsFiniteSet(S), NEW g \in [S -> Nat], \A x \in S : g[x] = 0
  PROVE  Sum(g) = 0
<1> DEFINE F == [s \in SUBSET S |-> 0]
<1>1. Sums(F, g, S)
  BY DEF Sums
<1>2. S \in SUBSET S /\ F[S] = 0
  OBVIOUS
<1> HIDE DEF F
<1> QED
  BY <1>1, <1>2, SumIs

LEMMA SumNat ==
  ASSUME NEW S, IsFiniteSet(S), NEW g \in [S -> Nat]
  PROVE  Sum(g) \in Nat
<1>1. PICK F : Sums(F, g, S)
  BY SumsExist
<1>2. Sum(g) = F[S]
  BY <1>1, SumIs
<1> QED
  BY <1>1, <1>2 DEF Sums

(* No term is greater than the sum. *)
LEMMA SumAtLeast ==
  ASSUME NEW S, IsFiniteSet(S), NEW g \in [S -> Nat], NEW x \in S
  PROVE  g[x] <= Sum(g)
<1>1. PICK f : f = Without(g, S, x)
  OBVIOUS
<1>2. Sum(g) = g[x] + Sum(f) /\ Sum(f) \in Nat
  BY <1>1, SumTake
<1> QED
  BY <1>2

OneUp(g2, g, S, x) == g2[x] = g[x] + 1 /\ \A y \in S : y # x => g2[y] = g[y]

(* Two functions that differ in one place, where one is greater by one. *)
LEMMA SumRaise ==
  ASSUME NEW S, IsFiniteSet(S), NEW g \in [S -> Nat], NEW g2 \in [S -> Nat], NEW x \in S,
         OneUp(g2, g, S, x)
  PROVE  Sum(g2) = Sum(g) + 1
<1>1. PICK f : f = Without(g, S, x)
  OBVIOUS
<1>2. f = Without(g2, S, x)
  BY <1>1 DEF Without, OneUp
<1>3. Sum(g) = g[x] + Sum(f) /\ Sum(f) \in Nat
  BY <1>1, SumTake
<1>4. Sum(g2) = g2[x] + Sum(f)
  BY <1>2, SumTake
<1> QED
  BY <1>3, <1>4 DEF OneUp

(* The sum over one more place. *)
LEMMA SumGrow ==
  ASSUME NEW n \in Nat, NEW g \in [1 .. n -> Nat], NEW g2 \in [1 .. n + 1 -> Nat],
         \A i \in 1 .. n : g2[i] = g[i]
  PROVE  Sum(g2) = g2[n + 1] + Sum(g)
<1>1. (1 .. n + 1) \ {n + 1} = 1 .. n /\ n + 1 \in 1 .. n + 1
  OBVIOUS
<1>2. g = [i \in (1 .. n + 1) \ {n + 1} |-> g2[i]]
  BY <1>1
<1>3. IsFiniteSet(1 .. n + 1)
  BY FS_Interval
<1>4. PICK S, m : S = 1 .. n + 1 /\ m = n + 1
  OBVIOUS
<1>5. /\ IsFiniteSet(S) /\ g2 \in [S -> Nat] /\ m \in S
      /\ g = Without(g2, S, m)
  BY <1>1, <1>2, <1>3, <1>4 DEF Without
<1>6. Sum(g2) = g2[m] + Sum(g)
  BY <1>5, SumTake
<1> QED
  BY <1>4, <1>6

(* The sum over a sequence read backwards. *)
LEMMA SumReverse ==
  ASSUME NEW n \in Nat, NEW g \in [1 .. n -> Nat], NEW g2 \in [1 .. n -> Nat],
         \A i \in 1 .. n : g2[i] = g[n + 1 - i]
  PROVE  Sum(g2) = Sum(g)
<1> DEFINE S == 1 .. n
           Back(s) == {i \in S : n + 1 - i \in s}
<1>1. IsFiniteSet(S)
  BY FS_Interval
<1>2. PICK F : Sums(F, g, S)
  BY <1>1, SumsExist
<1>3. Sum(g) = F[S]
  BY <1>1, <1>2, SumIs
<1>4. /\ F \in [SUBSET S -> Nat] /\ F[{}] = 0
      /\ \A s \in SUBSET S : \A x \in s : F[s] = g[x] + F[s \ {x}]
  BY <1>2 DEF Sums
<1> DEFINE G == [s \in SUBSET S |-> F[Back(s)]]
<1>5. \A s \in SUBSET S : Back(s) \in SUBSET S /\ G[s] = F[Back(s)]
  OBVIOUS
<1>6. G \in [SUBSET S -> Nat]
  BY <1>4, <1>5
<1>7. Back({}) = {} /\ Back(S) = S
  OBVIOUS
<1>8. G[{}] = 0 /\ G[S] = F[S]
  <2>1. {} \in SUBSET S /\ S \in SUBSET S
    OBVIOUS
  <2> HIDE DEF G, Back, S
  <2> QED
    BY <1>4, <1>5, <1>7, <2>1
<1>9. ASSUME NEW s \in SUBSET S, NEW x \in s PROVE G[s] = g2[x] + G[s \ {x}]
  <2>1. x \in S /\ n + 1 - x \in S /\ n + 1 - (n + 1 - x) = x
    OBVIOUS
  <2>2. n + 1 - x \in Back(s)
    BY <2>1
  <2>3. Back(s \ {x}) = Back(s) \ {n + 1 - x}
    <3>1. ASSUME NEW i \in S PROVE n + 1 - i # x <=> i # n + 1 - x
      BY <2>1
    <3> QED
      BY <3>1
  <2>4. s \ {x} \in SUBSET S
    OBVIOUS
  <2>5. G[s] = F[Back(s)] /\ G[s \ {x}] = F[Back(s \ {x})] /\ Back(s) \in SUBSET S
    BY <1>5, <2>4
  <2>6. g2[x] = g[n + 1 - x]
    BY <2>1
  <2> HIDE DEF G, Back
  <2>7. F[Back(s)] = g[n + 1 - x] + F[Back(s) \ {n + 1 - x}]
    BY <1>4, <2>2, <2>5
  <2> QED
    BY <2>3, <2>5, <2>6, <2>7
<1>10. Sums(G, g2, S)
  <2> HIDE DEF G, S
  <2> QED
    BY <1>6, <1>8, <1>9 DEF Sums
<1> HIDE DEF G
<1> QED
  BY <1>1, <1>3, <1>8, <1>10, SumIs

-----------------------------------------------------------------------------
(* A difference that an int can hold is its own value as an int. *)
LEMMA ToIntExact ==
  ASSUME NEW d \in Int, d <= IntMax, -d <= IntMax
  PROVE  ToInt(d) = d
<1>1. PICK M \in Nat : M = 2 * (IntMax + 1)
  BY WidthAssumption
<1>2. IntMax \in Nat /\ M > IntMax /\ M - IntMax > IntMax
  BY <1>1, WidthAssumption
<1>3. CASE d >= 0
  <2>1. d % M = d
    BY <1>2, <1>3
  <2> QED
    BY <1>1, <1>2, <1>3, <2>1 DEF ToInt
<1>4. CASE d < 0
  <2>1. d % M = d + M
    BY <1>2, <1>4
  <2>2. d + M > IntMax
    BY <1>2
  <2> QED
    BY <1>1, <2>1, <2>2 DEF ToInt
<1> QED
  BY <1>3, <1>4

(* The accesses that happened under the counts A; the addresses an int     *)
(* tells apart, for the records of instruction i; the accesses of an       *)
(* instruction and an address.                                             *)
Did(A) == {a \in MemAccesses : A[a] > 0}

Apart(A, i) ==
  /\ Spread({x.ins : x \in Did(A)})
  /\ Spread({x.mem : x \in {y \in Did(A) : y.ins = i}})

OfKey(i, m) == {x \in MemAccesses : x.ins = i /\ x.mem = m}

CountOf(A, i, m) == Sum([x \in OfKey(i, m) |-> A[x]])

SameKey(r, a) == r.ins = a.ins /\ r.mem = a.mem

(* p is the place of the only record of a's key.                           *)
OnlyAt(L, n, a, p) == p \in 1 .. n /\ \A q \in 1 .. n : SameKey(L[q], a) <=> q = p

Exact(A, L, n) ==
  \A a \in Did(A) : Apart(A, a.ins) =>
    \E p : OnlyAt(L, n, a, p) /\ L[p].counter = CountOf(A, a.ins, a.mem)

Stems(A, L, n) == \A p \in 1 .. n : \E a \in Did(A) : SameKey(L[p], a)

(* The order of the tree: by instruction and, for instruction i, address.  *)
Before(r, s, i) == r.ins < s.ins \/ (r.ins = s.ins /\ (r.ins = i => r.mem < s.mem))

MemRel(L, n, i) == {e \in (1 .. n) \X (1 .. n) : Before(L[e[1]], L[e[2]], i)}

InOrder(A, L, n, t, u) == \A i \in Nat : Apart(A, i) => OrderedBy(t, n, u, MemRel(L, n, i))

(* The comparison function tells the access a from the record r.           *)
Tells(c, a, r, i) ==
  /\ a.ins # r.ins => c = a.ins - r.ins
  /\ a.ins = r.ins /\ a.ins = i => c = a.mem - r.mem

LEMMA MemRelIs ==
  ASSUME NEW n \in Nat, NEW L, NEW i, NEW p \in 1 .. n, NEW q \in 1 .. n
  PROVE  <<p, q>> \in MemRel(L, n, i) <=> Before(L[p], L[q], i)
BY DEF MemRel

LEMMA MemRelOnly ==
  ASSUME NEW n \in Nat, NEW L, NEW i, NEW p, NEW q, <<p, q>> \in MemRel(L, n, i)
  PROVE  p \in 1 .. n /\ q \in 1 .. n
BY DEF MemRel

LEMMA MemRelTransitive ==
  ASSUME NEW n \in Nat, NEW L \in [1 .. n -> MemInfo], NEW i \in Nat
  PROVE  TransitiveOn(MemRel(L, n, i), n)
<1>1. \A r, s, v \in MemInfo : Before(r, s, i) /\ Before(s, v, i) => Before(r, v, i)
  BY DEF Before, MemInfo
<1>2. SUFFICES ASSUME NEW a \in 1 .. n, NEW b \in 1 .. n, NEW c \in 1 .. n,
                      <<a, b>> \in MemRel(L, n, i), <<b, c>> \in MemRel(L, n, i)
               PROVE  <<a, c>> \in MemRel(L, n, i)
  BY DEF TransitiveOn
<1>3. Before(L[a], L[b], i) /\ Before(L[b], L[c], i)
  BY <1>2, MemRelIs
<1>4. Before(L[a], L[c], i)
  BY <1>1, <1>3
<1> QED
  BY <1>4, MemRelIs

(* An order of more pairs keeps a tree ordered. *)
LEMMA OrderedMore ==
  ASSUME NEW n, NEW t, NEW u, NEW R, NEW R2, OrderedBy(t, n, u, R),
         \A a, b : <<a, b>> \in R => <<a, b>> \in R2
  PROVE  OrderedBy(t, n, u, R2)
<1>1. ASSUME NEW s, NEW c, NEW p, OnSide(R, s, c, p) PROVE OnSide(R2, s, c, p)
  BY <1>1 DEF OnSide
<1> QED
  BY <1>1 DEF OrderedBy, OrderedAt

LEMMA ApartBefore ==
  ASSUME NEW A, NEW A2, NEW i, Did(A) \subseteq Did(A2), Apart(A2, i)
  PROVE  Apart(A, i)
<1>1. \A S, T : S \subseteq T /\ Spread(T) => Spread(S)
  BY DEF Spread
<1>2. {x.ins : x \in Did(A)} \subseteq {x.ins : x \in Did(A2)}
  OBVIOUS
<1>3. {x.mem : x \in {y \in Did(A) : y.ins = i}} \subseteq {x.mem : x \in {y \in Did(A2) : y.ins = i}}
  OBVIOUS
<1> QED
  BY <1>1, <1>2, <1>3 DEF Apart

LEMMA ApartTells ==
  ASSUME NEW A, NEW i, Apart(A, i), NEW a \in Did(A), NEW x \in Did(A), NEW r,
         SameKey(r, x)
  PROVE  Tells(mem_comparison_func(a, r), a, r, i)
<1>1. /\ a.ins \in Nat /\ a.mem \in Nat /\ x.ins \in Nat /\ x.mem \in Nat
      /\ r.ins = x.ins /\ r.mem = x.mem
  BY GuestAssumption DEF Did, SameKey
<1>2. a.ins - x.ins <= IntMax /\ x.ins - a.ins <= IntMax
  <2>1. a.ins \in {y.ins : y \in Did(A)} /\ x.ins \in {y.ins : y \in Did(A)}
    OBVIOUS
  <2>2. Spread({y.ins : y \in Did(A)})
    BY DEF Apart
  <2> QED
    BY <2>1, <2>2 DEF Spread
<1>3. ASSUME a.ins = i, x.ins = i
      PROVE  a.mem - x.mem <= IntMax /\ x.mem - a.mem <= IntMax
  <2> DEFINE T == {z.mem : z \in {y \in Did(A) : y.ins = i}}
  <2>1. a.mem \in T /\ x.mem \in T
    BY <1>3
  <2>2. Spread(T)
    BY DEF Apart
  <2> HIDE DEF T
  <2> QED
    BY <2>1, <2>2 DEF Spread
<1>4. ToInt(a.ins - x.ins) = a.ins - x.ins
  <2>1. PICK d \in Int : d = a.ins - x.ins
    BY <1>1
  <2>2. d <= IntMax /\ -d <= IntMax
    BY <1>1, <1>2, <2>1
  <2> QED
    BY <2>1, <2>2, ToIntExact
<1>5. ASSUME a.ins = i, x.ins = i PROVE ToInt(a.mem - x.mem) = a.mem - x.mem
  <2>1. PICK d \in Int : d = a.mem - x.mem
    BY <1>1
  <2>2. d <= IntMax /\ -d <= IntMax
    BY <1>1, <1>3, <1>5, <2>1
  <2> QED
    BY <2>1, <2>2, ToIntExact
<1>6. a.ins # x.ins => mem_comparison_func(a, r) = a.ins - x.ins
  BY <1>1, <1>4 DEF mem_comparison_func
<1>7. ASSUME a.ins = x.ins, a.ins = i PROVE mem_comparison_func(a, r) = a.mem - x.mem
  <2>1. CASE a.mem = x.mem
    BY <1>1, <1>4, <1>7, <2>1 DEF mem_comparison_func
  <2>2. CASE a.mem # x.mem
    BY <1>1, <1>5, <1>7, <2>2 DEF mem_comparison_func
  <2> QED
    BY <2>1, <2>2
<1> QED
  BY <1>1, <1>6, <1>7 DEF Tells

-----------------------------------------------------------------------------
(* The access table before an access a: n records in L, their tree t, and  *)
(* the results cmp of comparing a with each.                               *)
MemTable(A, L, n, t, h, u, at) ==
  /\ A \in [MemAccesses -> Nat]
  /\ L \in [1 .. n -> MemInfo]
  /\ Stems(A, L, n) /\ Exact(A, L, n)
  /\ Sound(t, n, h, u, at) /\ InOrder(A, L, n, t, u)

Counted(A, a) == [A EXCEPT ![a] = @ + 1]

Compared(a, L, n) == [p \in 1 .. n |-> mem_comparison_func(a, L[p])]

LEMMA CountedIs ==
  ASSUME NEW A \in [MemAccesses -> Nat], NEW a \in MemAccesses
  PROVE  /\ Counted(A, a) \in [MemAccesses -> Nat]
         /\ Counted(A, a)[a] = A[a] + 1
         /\ \A x \in MemAccesses : x # a => Counted(A, a)[x] = A[x]
         /\ Did(Counted(A, a)) = Did(A) \cup {a}
<1>1. /\ Counted(A, a) \in [MemAccesses -> Nat]
      /\ Counted(A, a)[a] = A[a] + 1
      /\ \A x \in MemAccesses : x # a => Counted(A, a)[x] = A[x]
  BY DEF Counted
<1>2. A[a] \in Nat
  OBVIOUS
<1>3. \A x \in MemAccesses : Counted(A, a)[x] > 0 <=> A[x] > 0 \/ x = a
  BY <1>1, <1>2
<1> QED
  BY <1>1, <1>3 DEF Did

(* Where the addresses can be told apart, cmp tells a from every record.   *)
LEMMA AllTold ==
  ASSUME NEW n \in Nat, NEW A \in [MemAccesses -> Nat], NEW L, Stems(A, L, n),
         NEW a \in MemAccesses, NEW i, Apart(Counted(A, a), i), NEW p \in 1 .. n
  PROVE  Tells(Compared(a, L, n)[p], a, L[p], i)
<1>1. PICK x \in Did(A) : SameKey(L[p], x)
  BY DEF Stems
<1>2. Did(Counted(A, a)) = Did(A) \cup {a}
  BY CountedIs
<1>3. PICK A2 : A2 = Counted(A, a)
  OBVIOUS
<1>4. Apart(A2, i) /\ a \in Did(A2) /\ x \in Did(A2)
  BY <1>1, <1>2, <1>3
<1>5. Tells(mem_comparison_func(a, L[p]), a, L[p], i)
  BY <1>1, <1>4, ApartTells
<1>6. Compared(a, L, n)[p] = mem_comparison_func(a, L[p])
  BY DEF Compared
<1> QED
  BY <1>5, <1>6

(* A record that the search finds is of a's instruction, and of its        *)
(* address if that can be told.                                            *)
LEMMA FoundIsKey ==
  ASSUME NEW n \in Nat, NEW A, NEW L, NEW t, NEW h, NEW u, NEW at,
         MemTable(A, L, n, t, h, u, at),
         NEW a \in MemAccesses, NEW i, Apart(Counted(A, a), i),
         NEW p, p = avl_find(t, Compared(a, L, n)), p # 0
  PROVE  p \in 1 .. n /\ L[p].ins = a.ins /\ (a.ins = i => L[p].mem = a.mem)
<1>1. PICK cmp : cmp = Compared(a, L, n)
  OBVIOUS
<1>2. Sound(t, n, h, u, at) /\ avl_find(t, cmp) # 0
  BY <1>1 DEF MemTable
<1>3. p \in 1 .. n /\ cmp[p] = 0
  BY <1>1, <1>2, FindSays
<1>4. A \in [MemAccesses -> Nat] /\ Stems(A, L, n) /\ L \in [1 .. n -> MemInfo]
  BY DEF MemTable
<1>5. Tells(cmp[p], a, L[p], i)
  BY <1>1, <1>3, <1>4, AllTold
<1>6. L[p].ins \in Nat /\ L[p].mem \in Nat /\ a.ins \in Nat /\ a.mem \in Nat
  BY <1>3, <1>4, GuestAssumption DEF MemInfo
<1> QED
  BY <1>3, <1>5, <1>6 DEF Tells

(* The records of an instruction whose addresses can be told apart have    *)
(* different addresses.                                                    *)
LEMMA KeyUnique ==
  ASSUME NEW n \in Nat, NEW A, NEW L, Stems(A, L, n), Exact(A, L, n),
         NEW c \in 1 .. n, Apart(A, L[c].ins), NEW q \in 1 .. n,
         L[q].ins = L[c].ins, L[q].mem = L[c].mem
  PROVE  q = c
<1>1. PICK x \in Did(A) : SameKey(L[c], x)
  BY DEF Stems
<1>2. Apart(A, x.ins) /\ SameKey(L[q], x)
  BY <1>1 DEF SameKey
<1>3. PICK p : OnlyAt(L, n, x, p)
  BY <1>1, <1>2 DEF Exact
<1> QED
  BY <1>1, <1>2, <1>3 DEF OnlyAt

(* The search finds the record of a's key. *)
LEMMA KeyIsFound ==
  ASSUME NEW n \in Nat, NEW A, NEW L, NEW t, NEW h, NEW u, NEW at,
         MemTable(A, L, n, t, h, u, at),
         NEW a \in MemAccesses, Apart(Counted(A, a), a.ins),
         NEW c \in 1 .. n, SameKey(L[c], a)
  PROVE  avl_find(t, Compared(a, L, n)) = c
<1>1. PICK cmp, i : cmp = Compared(a, L, n) /\ i = a.ins
  OBVIOUS
<1>2. /\ A \in [MemAccesses -> Nat] /\ L \in [1 .. n -> MemInfo] /\ Stems(A, L, n)
      /\ Exact(A, L, n) /\ Sound(t, n, h, u, at) /\ InOrder(A, L, n, t, u)
  BY DEF MemTable
<1>3. Apart(Counted(A, a), i) /\ a.ins \in Nat /\ a.mem \in Nat
  BY <1>1, GuestAssumption
<1>4. Did(A) \subseteq Did(Counted(A, a))
  BY <1>2, CountedIs
<1>5. Apart(A, i)
  BY <1>3, <1>4, ApartBefore
<1>6. OrderedBy(t, n, u, MemRel(L, n, i))
  BY <1>1, <1>2, <1>3, <1>5 DEF InOrder
<1>7. ASSUME NEW q \in 1 .. n
      PROVE  Tells(cmp[q], a, L[q], i) /\ L[q].ins \in Nat /\ L[q].mem \in Nat
  BY <1>1, <1>2, <1>3, AllTold DEF MemInfo
<1>8. L[c].ins = i /\ L[c].mem = a.mem
  BY <1>1 DEF SameKey
<1>9. cmp[c] = 0
  BY <1>1, <1>3, <1>7, <1>8 DEF Tells
<1>10. ASSUME NEW q \in 1 .. n, c \in u[q], c # q
       PROVE  cmp[q] # 0 /\ c \in u[t.link[q][Dir(cmp, q)]]
  <2>1. ~ (L[q].ins = i /\ L[q].mem = a.mem)
    BY <1>2, <1>5, <1>8, <1>10, KeyUnique
  <2>2. /\ cmp[q] = 0 => FALSE
        /\ cmp[q] > 0 => ~ Before(L[c], L[q], i)
        /\ ~ (cmp[q] > 0) => ~ Before(L[q], L[c], i)
    <3>1. CASE L[q].ins = i
      BY <1>1, <1>3, <1>7, <1>8, <2>1, <3>1 DEF Tells, Before
    <3>2. CASE L[q].ins # i
      BY <1>1, <1>3, <1>7, <1>8, <3>2 DEF Tells, Before
    <3> QED
      BY <3>1, <3>2
  <2>3. u[q] = {q} \cup u[t.link[q][0]] \cup u[t.link[q][1]]
    BY <1>2 DEF Sound, Reaches
  <2>4. ASSUME NEW s \in Side, c \in u[t.link[q][s]]
        PROVE  OnSide(MemRel(L, n, i), s, c, q)
    BY <1>6, <2>4 DEF OrderedBy, OrderedAt
  <2>5. c \in u[t.link[q][0]] => Before(L[c], L[q], i)
    BY <2>4, MemRelIs DEF OnSide, Side
  <2>6. c \in u[t.link[q][1]] => Before(L[q], L[c], i)
    BY <2>4, MemRelIs DEF OnSide, Side
  <2>7. CASE cmp[q] > 0
    BY <1>10, <2>2, <2>3, <2>5, <2>7 DEF Dir
  <2>8. CASE ~ (cmp[q] > 0)
    BY <1>10, <2>2, <2>3, <2>6, <2>8 DEF Dir
  <2> QED
    BY <2>7, <2>8
<1>11. avl_find(t, cmp) = c
  BY <1>2, <1>9, <1>10, FindMeets
<1> QED
  BY <1>1, <1>11

(* Counting an access raises the count of its key, and of no other. *)
LEMMA CountKey ==
  ASSUME NEW A \in [MemAccesses -> Nat], NEW a \in MemAccesses, NEW i, NEW m
  PROVE  /\ i = a.ins /\ m = a.mem => CountOf(Counted(A, a), i, m) = CountOf(A, i, m) + 1
         /\ ~ (i = a.ins /\ m = a.mem) => CountOf(Counted(A, a), i, m) = CountOf(A, i, m)
<1> DEFINE S == OfKey(i, m)
           g == [x \in S |-> A[x]]
           g2 == [x \in S |-> Counted(A, a)[x]]
<1>1. S \subseteq MemAccesses /\ (a \in S <=> i = a.ins /\ m = a.mem)
  BY DEF OfKey
<1>2. IsFiniteSet(S)
  BY <1>1, GuestAssumption, FS_Subset
<1>3. /\ Counted(A, a) \in [MemAccesses -> Nat]
      /\ Counted(A, a)[a] = A[a] + 1
      /\ \A x \in MemAccesses : x # a => Counted(A, a)[x] = A[x]
  BY CountedIs
<1>4. g \in [S -> Nat] /\ g2 \in [S -> Nat]
  BY <1>1, <1>3
<1>5. a \in S => g2[a] = g[a] + 1
  BY <1>3
<1>6. \A x \in S : x # a => g2[x] = g[x]
  BY <1>1, <1>3
<1>7. a \notin S => g2 = g
  BY <1>4, <1>6
<1>8. CountOf(A, i, m) = Sum(g) /\ CountOf(Counted(A, a), i, m) = Sum(g2)
  BY DEF CountOf
<1> HIDE DEF S, g, g2
<1>9. ASSUME a \in S PROVE Sum(g2) = Sum(g) + 1
  <2>1. OneUp(g2, g, S, a)
    BY <1>5, <1>6, <1>9 DEF OneUp
  <2> QED
    BY <1>2, <1>4, <1>9, <2>1, SumRaise
<1> QED
  BY <1>1, <1>7, <1>8, <1>9

LEMMA CountNone ==
  ASSUME NEW A \in [MemAccesses -> Nat], NEW i, NEW m,
         \A x \in OfKey(i, m) : x \notin Did(A)
  PROVE  CountOf(A, i, m) = 0
<1> DEFINE S == OfKey(i, m)
           g == [x \in S |-> A[x]]
<1>1. S \subseteq MemAccesses
  BY DEF OfKey
<1>2. IsFiniteSet(S)
  BY <1>1, GuestAssumption, FS_Subset
<1>3. \A x \in S : A[x] \in Nat /\ ~ (A[x] > 0)
  BY <1>1 DEF Did
<1>4. g \in [S -> Nat] /\ \A x \in S : g[x] = 0
  BY <1>3
<1>5. CountOf(A, i, m) = Sum(g)
  BY DEF CountOf
<1> HIDE DEF S, g
<1> QED
  BY <1>2, <1>4, <1>5, SumZero

-----------------------------------------------------------------------------
(* L2 is L with the counter of record p raised; L2 is L and the record of  *)
(* an access, counted once.                                                *)
Raised(L2, L, n, p) ==
  /\ L2 \in [1 .. n -> MemInfo]
  /\ \A q \in 1 .. n : L2[q].ins = L[q].ins /\ L2[q].mem = L[q].mem
  /\ L2[p].counter = L[p].counter + 1
  /\ \A q \in 1 .. n : q # p => L2[q].counter = L[q].counter

Recorded(L2, L, n, a) ==
  /\ L2 \in [1 .. n + 1 -> MemInfo]
  /\ \A q \in 1 .. n : L2[q] = L[q]
  /\ SameKey(L2[n + 1], a) /\ L2[n + 1].counter = 1

LEMMA CountRaises ==
  ASSUME NEW n \in Nat, NEW L \in [1 .. n -> MemInfo], NEW p \in 1 .. n
  PROVE  Raised(Count(L, p), L, n, p)
<1>1. PICK L2 : L2 = Count(L, p)
  OBVIOUS
<1>2. PICK r : r = [L[p] EXCEPT !.counter = @ + 1]
  OBVIOUS
<1>3. L[p] \in MemInfo
  OBVIOUS
<1>4. /\ r \in MemInfo /\ r.ins = L[p].ins /\ r.mem = L[p].mem
      /\ r.counter = L[p].counter + 1
  BY <1>2, <1>3 DEF MemInfo
<1>5. L2 = [L EXCEPT ![p] = r]
  BY <1>1, <1>2 DEF Count
<1>6. L2 \in [1 .. n -> MemInfo] /\ L2[p] = r /\ \A q \in 1 .. n : q # p => L2[q] = L[q]
  BY <1>4, <1>5
<1> QED
  BY <1>1, <1>4, <1>6 DEF Raised

LEMMA AppendRecords ==
  ASSUME NEW n \in Nat, NEW L \in [1 .. n -> MemInfo], NEW a \in MemAccesses
  PROVE  Recorded(Count(Append(L, NewMemInfo(a)), Len(L) + 1), L, n, a)
<1> DEFINE AnyInfo == [ins : Nat, mem : Nat, direction : BOOLEAN, counter : Nat]
<1>1. PICK v : v = NewMemInfo(a)
  OBVIOUS
<1>2. /\ v \in AnyInfo /\ v.ins = a.ins /\ v.mem = a.mem /\ v.counter = 0
  BY <1>1, GuestAssumption DEF NewMemInfo
<1>3. L \in [1 .. n -> AnyInfo]
  BY DEF MemInfo
<1>4. Len(L) = n
  BY LenIs
<1> HIDE DEF AnyInfo
<1>5. PICK M : M = Append(L, v)
  OBVIOUS
<1>6. Appended(M, L, n, AnyInfo, v)
  BY <1>2, <1>3, <1>5, AppendIs
<1>7. /\ M \in [1 .. n + 1 -> AnyInfo] /\ M[n + 1] = v
      /\ \A q \in 1 .. n : M[q] = L[q]
  BY <1>6 DEF Appended
<1>8. PICK r : r = [v EXCEPT !.counter = @ + 1]
  OBVIOUS
<1>9. r \in MemInfo /\ r.ins = a.ins /\ r.mem = a.mem /\ r.counter = 1
  BY <1>2, <1>8 DEF AnyInfo, MemInfo
<1>10. PICK L2 : L2 = [M EXCEPT ![n + 1] = r]
  OBVIOUS
<1>11. Count(M, n + 1) = L2
  BY <1>7, <1>8, <1>10 DEF Count
<1>12. /\ DOMAIN L2 = 1 .. n + 1 /\ L2[n + 1] = r
       /\ \A q \in 1 .. n : L2[q] = L[q]
  BY <1>7, <1>10
<1>13. \A q \in 1 .. n + 1 : L2[q] \in MemInfo
  <2>1. \A q \in 1 .. n + 1 : q \in 1 .. n \/ q = n + 1
    OBVIOUS
  <2> QED
    BY <1>9, <1>12, <2>1
<1>14. L2 \in [1 .. n + 1 -> MemInfo]
  <2>1. L2 = [q \in 1 .. n + 1 |-> L2[q]]
    BY <1>7, <1>10
  <2> QED
    BY <1>13, <2>1
<1>15. Recorded(L2, L, n, a)
  BY <1>9, <1>12, <1>14 DEF Recorded, SameKey
<1> QED
  BY <1>1, <1>4, <1>5, <1>11, <1>15

(* An access whose record the search finds. *)
LEMMA AccessFound ==
  ASSUME NEW n \in Nat, NEW A, NEW L, NEW t, NEW h, NEW u, NEW at,
         MemTable(A, L, n, t, h, u, at),
         NEW a \in MemAccesses, NEW p, p = avl_find(t, Compared(a, L, n)), p # 0,
         NEW L2, Raised(L2, L, n, p)
  PROVE  MemTable(Counted(A, a), L2, n, t, h, u, at)
<1>1. /\ A \in [MemAccesses -> Nat] /\ L \in [1 .. n -> MemInfo] /\ Stems(A, L, n)
      /\ Exact(A, L, n) /\ Sound(t, n, h, u, at) /\ InOrder(A, L, n, t, u)
  BY DEF MemTable
<1>2. PICK A2 : A2 = Counted(A, a)
  OBVIOUS
<1>3. A2 \in [MemAccesses -> Nat] /\ Did(A2) = Did(A) \cup {a}
  BY <1>1, <1>2, CountedIs
<1>4. \A q \in 1 .. n : L2[q].ins = L[q].ins /\ L2[q].mem = L[q].mem
  BY DEF Raised
<1>5. L2 \in [1 .. n -> MemInfo]
  BY DEF Raised
<1>6. Stems(A2, L2, n)
  BY <1>1, <1>3, <1>4 DEF Stems, SameKey
<1>7. ASSUME NEW i \in Nat, Apart(A2, i) PROVE OrderedBy(t, n, u, MemRel(L2, n, i))
  <2>1. Apart(A, i)
    BY <1>3, <1>7, ApartBefore
  <2>2. OrderedBy(t, n, u, MemRel(L, n, i))
    BY <1>1, <2>1 DEF InOrder
  <2>3. ASSUME NEW x, NEW y, <<x, y>> \in MemRel(L, n, i) PROVE <<x, y>> \in MemRel(L2, n, i)
    <3>1. x \in 1 .. n /\ y \in 1 .. n
      BY <2>3, MemRelOnly
    <3>2. Before(L[x], L[y], i)
      BY <2>3, <3>1, MemRelIs
    <3>3. Before(L2[x], L2[y], i)
      BY <1>4, <3>1, <3>2 DEF Before
    <3> QED
      BY <3>1, <3>3, MemRelIs
  <2> QED
    BY <2>2, <2>3, OrderedMore
<1>8. InOrder(A2, L2, n, t, u)
  BY <1>7 DEF InOrder
<1>9. ASSUME NEW b \in Did(A2), Apart(A2, b.ins)
      PROVE  \E c : OnlyAt(L2, n, b, c) /\ L2[c].counter = CountOf(A2, b.ins, b.mem)
  <2>1. p \in 1 .. n /\ L[p].ins = a.ins /\ (a.ins = b.ins => L[p].mem = a.mem)
    BY <1>2, <1>9, FoundIsKey
  <2>2. Apart(A, b.ins)
    BY <1>3, <1>9, ApartBefore
  <2>3. ASSUME NEW x, NEW c, OnlyAt(L, n, x, c) PROVE OnlyAt(L2, n, x, c)
    BY <1>4, <2>3 DEF OnlyAt, SameKey
  <2>4. CASE b.ins = a.ins /\ b.mem = a.mem
    <3>1. PICK x \in Did(A) : SameKey(L[p], x)
      BY <1>1, <2>1 DEF Stems
    <3>2. x.ins = b.ins /\ x.mem = b.mem
      BY <2>1, <2>4, <3>1 DEF SameKey
    <3>3. PICK c : OnlyAt(L, n, x, c) /\ L[c].counter = CountOf(A, x.ins, x.mem)
      BY <1>1, <2>2, <3>1, <3>2 DEF Exact
    <3>4. c = p
      BY <2>1, <3>1, <3>3 DEF OnlyAt
    <3>5. OnlyAt(L2, n, b, p)
      <4>1. OnlyAt(L2, n, x, p)
        BY <2>3, <3>3, <3>4
      <4> QED
        BY <3>2, <4>1 DEF OnlyAt, SameKey
    <3>6. CountOf(A2, b.ins, b.mem) = CountOf(A, b.ins, b.mem) + 1
      BY <1>1, <1>2, <2>4, CountKey
    <3>7. L2[p].counter = L[p].counter + 1
      BY DEF Raised
    <3> QED
      BY <3>2, <3>3, <3>4, <3>5, <3>6, <3>7
  <2>5. CASE ~ (b.ins = a.ins /\ b.mem = a.mem)
    <3>1. b \in Did(A)
      BY <1>3, <2>5
    <3>2. PICK c : OnlyAt(L, n, b, c) /\ L[c].counter = CountOf(A, b.ins, b.mem)
      BY <1>1, <2>2, <3>1 DEF Exact
    <3>3. c \in 1 .. n /\ L[c].ins = b.ins /\ L[c].mem = b.mem
      BY <3>2 DEF OnlyAt, SameKey
    <3>4. c # p
      BY <2>1, <2>5, <3>3
    <3>5. L2[c].counter = L[c].counter
      BY <3>3, <3>4 DEF Raised
    <3>6. CountOf(A2, b.ins, b.mem) = CountOf(A, b.ins, b.mem)
      BY <1>1, <1>2, <2>5, CountKey
    <3>7. OnlyAt(L2, n, b, c)
      BY <2>3, <3>2
    <3> QED
      BY <3>2, <3>5, <3>6, <3>7
  <2> QED
    BY <2>4, <2>5
<1>10. Exact(A2, L2, n)
  BY <1>9 DEF Exact
<1>11. MemTable(A2, L2, n, t, h, u, at)
  BY <1>1, <1>3, <1>5, <1>6, <1>8, <1>10 DEF MemTable
<1> QED
  BY <1>2, <1>11

(* An access whose record the search does not find. *)
LEMMA AccessNew ==
  ASSUME NEW n \in Nat, NEW A, NEW L, NEW t, NEW h, NEW u, NEW at,
         MemTable(A, L, n, t, h, u, at),
         NEW a \in MemAccesses, avl_find(t, Compared(a, L, n)) = 0,
         NEW L2, Recorded(L2, L, n, a)
  PROVE  \E h2, u2, at2 :
           MemTable(Counted(A, a), L2, n + 1, avl_insert(t, Compared(a, L, n)), h2, u2, at2)
<1>1. /\ A \in [MemAccesses -> Nat] /\ L \in [1 .. n -> MemInfo] /\ Stems(A, L, n)
      /\ Exact(A, L, n) /\ Sound(t, n, h, u, at) /\ InOrder(A, L, n, t, u)
  BY DEF MemTable
<1>2. PICK A2, cmp, t2, m : /\ A2 = Counted(A, a) /\ cmp = Compared(a, L, n)
                            /\ t2 = avl_insert(t, cmp) /\ m = n + 1
  OBVIOUS
<1>3. A2 \in [MemAccesses -> Nat] /\ Did(A2) = Did(A) \cup {a}
  BY <1>1, <1>2, CountedIs
<1>4. /\ L2 \in [1 .. m -> MemInfo]
      /\ \A q \in 1 .. n : L2[q] = L[q]
      /\ SameKey(L2[m], a) /\ L2[m].counter = 1
  BY <1>2 DEF Recorded
<1>5. m \in Nat /\ m \in 1 .. m /\ m \notin 1 .. n
  BY <1>2
<1>6. \A q \in 1 .. m : q \in 1 .. n \/ q = m
  BY <1>2
<1>7. \A q \in 1 .. n : q \in 1 .. m
  BY <1>2
<1>8. Stems(A2, L2, m)
  BY <1>1, <1>3, <1>4, <1>6 DEF Stems, SameKey
<1>9. PICK h2, u2, at2 :
        /\ Sound(avl_insert(t, cmp), n + 1, h2, u2, at2)
        /\ \A R : /\ TransitiveOn(R, n + 1) /\ OrderedBy(t, n, u, R)
                  /\ \A q \in 1 .. n : OnSide(R, Dir(cmp, q), n + 1, q)
                  => OrderedBy(avl_insert(t, cmp), n + 1, u2, R)
  BY <1>1, <1>2, InsertSound
<1>10. a.ins \in Nat /\ a.mem \in Nat /\ L2[m].ins = a.ins /\ L2[m].mem = a.mem
  BY <1>4, GuestAssumption DEF SameKey
<1>11. ASSUME Apart(A2, a.ins), NEW q \in 1 .. n PROVE ~ SameKey(L[q], a)
  BY <1>2, <1>11, KeyIsFound
<1>12. ASSUME NEW i \in Nat, Apart(A2, i) PROVE OrderedBy(t2, m, u2, MemRel(L2, m, i))
  <2>1. PICK R : R = MemRel(L2, m, i)
    OBVIOUS
  <2>2. TransitiveOn(R, m)
    BY <1>4, <1>5, <2>1, MemRelTransitive
  <2>3. OrderedBy(t, n, u, R)
    <3>1. Apart(A, i)
      BY <1>3, <1>12, ApartBefore
    <3>2. OrderedBy(t, n, u, MemRel(L, n, i))
      BY <1>1, <3>1 DEF InOrder
    <3>3. ASSUME NEW x, NEW y, <<x, y>> \in MemRel(L, n, i) PROVE <<x, y>> \in R
      <4>1. x \in 1 .. n /\ y \in 1 .. n
        BY <3>3, MemRelOnly
      <4>2. Before(L[x], L[y], i)
        BY <3>3, <4>1, MemRelIs
      <4>3. Before(L2[x], L2[y], i)
        BY <1>4, <4>1, <4>2
      <4> QED
        BY <1>5, <1>7, <2>1, <4>1, <4>3, MemRelIs
    <3> QED
      BY <3>2, <3>3, OrderedMore
  <2>4. ASSUME NEW q \in 1 .. n PROVE OnSide(R, Dir(cmp, q), m, q)
    <3>1. Tells(cmp[q], a, L[q], i)
      BY <1>1, <1>2, <1>12, AllTold
    <3>2. L2[q] = L[q] /\ L[q].ins \in Nat /\ L[q].mem \in Nat
      BY <1>1, <1>4 DEF MemInfo
    <3>3. a.ins = i /\ L[q].ins = i => L[q].mem # a.mem
      BY <1>11, <1>12 DEF SameKey
    <3>4. cmp[q] > 0 => Before(L[q], L2[m], i)
      BY <1>10, <3>1, <3>2, <3>3 DEF Tells, Before
    <3>5. ~ (cmp[q] > 0) => Before(L2[m], L[q], i)
      BY <1>10, <3>1, <3>2, <3>3 DEF Tells, Before
    <3>6. q \in 1 .. m
      BY <1>7
    <3>7. <<q, m>> \in R <=> Before(L[q], L2[m], i)
      BY <1>5, <2>1, <3>2, <3>6, MemRelIs
    <3>8. <<m, q>> \in R <=> Before(L2[m], L[q], i)
      BY <1>5, <2>1, <3>2, <3>6, MemRelIs
    <3> QED
      BY <3>4, <3>5, <3>7, <3>8 DEF OnSide, Dir
  <2> QED
    BY <1>2, <1>9, <2>1, <2>2, <2>3, <2>4
<1>13. InOrder(A2, L2, m, t2, u2)
  BY <1>12 DEF InOrder
<1>14. ASSUME NEW b \in Did(A2), Apart(A2, b.ins)
       PROVE  \E c : OnlyAt(L2, m, b, c) /\ L2[c].counter = CountOf(A2, b.ins, b.mem)
  <2>1. Apart(A, b.ins)
    BY <1>3, <1>14, ApartBefore
  <2>2. CASE b.ins = a.ins /\ b.mem = a.mem
    <3>1. \A q \in 1 .. n : ~ SameKey(L[q], b)
      BY <1>11, <1>14, <2>2 DEF SameKey
    <3>2. OnlyAt(L2, m, b, m)
      <4>1. SameKey(L2[m], b)
        BY <1>10, <2>2 DEF SameKey
      <4> QED
        BY <1>4, <1>5, <1>6, <3>1, <4>1 DEF OnlyAt
    <3>3. ASSUME NEW x \in OfKey(b.ins, b.mem), x \in Did(A) PROVE FALSE
      <4>1. x.ins = b.ins /\ x.mem = b.mem
        BY DEF OfKey
      <4>2. PICK c : OnlyAt(L, n, x, c)
        BY <1>1, <2>1, <3>3, <4>1 DEF Exact
      <4>3. c \in 1 .. n /\ SameKey(L[c], b)
        BY <4>1, <4>2 DEF OnlyAt, SameKey
      <4> QED
        BY <3>1, <4>3
    <3>4. CountOf(A, b.ins, b.mem) = 0
      BY <1>1, <3>3, CountNone
    <3>5. CountOf(A2, b.ins, b.mem) = CountOf(A, b.ins, b.mem) + 1
      BY <1>1, <1>2, <2>2, CountKey
    <3> QED
      BY <1>4, <3>2, <3>4, <3>5
  <2>3. CASE ~ (b.ins = a.ins /\ b.mem = a.mem)
    <3>1. b \in Did(A)
      BY <1>3, <2>3
    <3>2. PICK c : OnlyAt(L, n, b, c) /\ L[c].counter = CountOf(A, b.ins, b.mem)
      BY <1>1, <2>1, <3>1 DEF Exact
    <3>3. c \in 1 .. n /\ \A q \in 1 .. n : SameKey(L[q], b) <=> q = c
      BY <3>2 DEF OnlyAt
    <3>4. ~ SameKey(L2[m], b)
      BY <1>10, <2>3 DEF SameKey
    <3>5. CountOf(A2, b.ins, b.mem) = CountOf(A, b.ins, b.mem)
      BY <1>1, <1>2, <2>3, CountKey
    <3>6. OnlyAt(L2, m, b, c)
      BY <1>4, <1>5, <1>6, <1>7, <3>3, <3>4 DEF OnlyAt
    <3> QED
      BY <1>4, <3>2, <3>3, <3>5, <3>6
  <2> QED
    BY <2>2, <2>3
<1>15. Exact(A2, L2, m)
  BY <1>14 DEF Exact
<1>16. Sound(t2, m, h2, u2, at2)
  BY <1>2, <1>9
<1>17. MemTable(A2, L2, m, t2, h2, u2, at2)
  BY <1>3, <1>4, <1>8, <1>13, <1>15, <1>16 DEF MemTable
<1> QED
  BY <1>2, <1>17

-----------------------------------------------------------------------------
LEMMA RaisedSum ==
  ASSUME NEW n \in Nat, NEW L \in [1 .. n -> MemInfo], NEW p \in 1 .. n,
         NEW L2, Raised(L2, L, n, p)
  PROVE  Sum(Counters(L2)) = Sum(Counters(L)) + 1
<1>1. PICK S, g, g2 : S = 1 .. n /\ g = Counters(L) /\ g2 = Counters(L2)
  OBVIOUS
<1>2. IsFiniteSet(S)
  BY <1>1, FS_Interval
<1>3. L2 \in [1 .. n -> MemInfo]
  BY DEF Raised
<1>4. g \in [S -> Nat] /\ \A i \in S : g[i] = L[i].counter
  BY <1>1, CountersAre
<1>5. g2 \in [S -> Nat] /\ \A i \in S : g2[i] = L2[i].counter
  BY <1>1, <1>3, CountersAre
<1>6. p \in S /\ g2[p] = g[p] + 1 /\ \A i \in S : i # p => g2[i] = g[i]
  BY <1>1, <1>4, <1>5 DEF Raised
<1>7. Sum(g2) = Sum(g) + 1
  <2>1. g \in [S -> Nat] /\ g2 \in [S -> Nat]
    BY <1>4, <1>5
  <2>2. p \in S /\ OneUp(g2, g, S, p)
    BY <1>6 DEF OneUp
  <2> QED
    BY <1>2, <2>1, <2>2, SumRaise
<1> QED
  BY <1>1, <1>7

LEMMA RecordedSum ==
  ASSUME NEW n \in Nat, NEW L \in [1 .. n -> MemInfo], NEW a,
         NEW L2, Recorded(L2, L, n, a)
  PROVE  Sum(Counters(L2)) = Sum(Counters(L)) + 1
<1>1. PICK g, g2 : g = Counters(L) /\ g2 = Counters(L2)
  OBVIOUS
<1>2. g \in [1 .. n -> Nat] /\ \A i \in 1 .. n : g[i] = L[i].counter
  BY <1>1, CountersAre
<1>3. L2 \in [1 .. n + 1 -> MemInfo] /\ n + 1 \in Nat
  BY DEF Recorded
<1>4. g2 \in [1 .. n + 1 -> Nat] /\ \A i \in 1 .. n + 1 : g2[i] = L2[i].counter
  BY <1>1, <1>3, CountersAre
<1>5. \A i \in 1 .. n : i \in 1 .. n + 1
  OBVIOUS
<1>6. g2[n + 1] = 1 /\ \A i \in 1 .. n : g2[i] = g[i]
  <2>1. n + 1 \in 1 .. n + 1 /\ L2[n + 1].counter = 1 /\ \A i \in 1 .. n : L2[i] = L[i]
    BY DEF Recorded
  <2>2. g2[n + 1] = 1
    BY <1>4, <2>1
  <2>3. ASSUME NEW i \in 1 .. n PROVE g2[i] = g[i]
    BY <1>2, <1>4, <1>5, <2>1
  <2> QED
    BY <2>2, <2>3
<1>7. Sum(g2) = g2[n + 1] + Sum(g)
  BY <1>2, <1>4, <1>6, SumGrow
<1>8. Sum(g) \in Nat
  <2>1. IsFiniteSet(1 .. n)
    BY FS_Interval
  <2> QED
    BY <1>2, <2>1, SumNat
<1> QED
  BY <1>1, <1>6, <1>7, <1>8

LEMMA CountedSum ==
  ASSUME NEW A \in [MemAccesses -> Nat], NEW a \in MemAccesses
  PROVE  Sum(Counted(A, a)) = Sum(A) + 1
<1>1. PICK A2 : A2 = Counted(A, a)
  OBVIOUS
<1>2. /\ A2 \in [MemAccesses -> Nat] /\ A2[a] = A[a] + 1
      /\ \A x \in MemAccesses : x # a => A2[x] = A[x]
  BY <1>1, CountedIs
<1>3. Sum(A2) = Sum(A) + 1
  <2>1. OneUp(A2, A, MemAccesses, a)
    BY <1>2 DEF OneUp
  <2> QED
    BY <1>2, <2>1, GuestAssumption, SumRaise
<1> QED
  BY <1>1, <1>3

-----------------------------------------------------------------------------
(* The table of blocks.                                                    *)
TbRel(L, n) == {e \in (1 .. n) \X (1 .. n) : L[e[1]].base < L[e[2]].base}

BasesDiffer(L, n) == \A p, q \in 1 .. n : L[p].base = L[q].base => p = q

TbTable(L, n, t, h, u, at) ==
  /\ L \in [1 .. n -> TbRecord]
  /\ BasesDiffer(L, n)
  /\ Sound(t, n, h, u, at) /\ OrderedBy(t, n, u, TbRel(L, n))

TbCompared(info, L, n) == [p \in 1 .. n |-> tb_comparison_func(info, L[p])]

LEMMA TbRelIs ==
  ASSUME NEW n \in Nat, NEW L, NEW p \in 1 .. n, NEW q \in 1 .. n
  PROVE  <<p, q>> \in TbRel(L, n) <=> L[p].base < L[q].base
BY DEF TbRel

LEMMA TbRelOnly ==
  ASSUME NEW n \in Nat, NEW L, NEW p, NEW q, <<p, q>> \in TbRel(L, n)
  PROVE  p \in 1 .. n /\ q \in 1 .. n
BY DEF TbRel

LEMMA TbTold ==
  ASSUME NEW n \in Nat, NEW L \in [1 .. n -> TbRecord], NEW info \in TbRecord,
         NEW p \in 1 .. n
  PROVE  LET c == TbCompared(info, L, n)[p]
         IN  /\ c = 0 <=> info.base = L[p].base
             /\ c > 0 <=> L[p].base < info.base
             /\ L[p].base \in Nat /\ info.base \in Nat
<1>1. TbCompared(info, L, n)[p] = tb_comparison_func(info, L[p])
  BY DEF TbCompared
<1>2. L[p].base \in Nat /\ info.base \in Nat
  BY DEF TbRecord
<1> QED
  BY <1>1, <1>2 DEF tb_comparison_func

(* The search finds a block's record exactly when its base has one. *)
LEMMA TbFound ==
  ASSUME NEW n \in Nat, NEW L, NEW t, NEW h, NEW u, NEW at,
         TbTable(L, n, t, h, u, at), NEW info \in TbRecord,
         avl_find(t, TbCompared(info, L, n)) # 0
  PROVE  \E p \in 1 .. n : L[p].base = info.base
<1>1. PICK cmp, p : cmp = TbCompared(info, L, n) /\ p = avl_find(t, cmp)
  OBVIOUS
<1>2. Sound(t, n, h, u, at) /\ avl_find(t, cmp) # 0 /\ L \in [1 .. n -> TbRecord]
  BY <1>1 DEF TbTable
<1>3. p \in 1 .. n /\ cmp[p] = 0
  BY <1>1, <1>2, FindSays
<1>4. L[p].base = info.base
  BY <1>1, <1>2, <1>3, TbTold
<1> QED
  BY <1>3, <1>4

LEMMA TbNotFound ==
  ASSUME NEW n \in Nat, NEW L, NEW t, NEW h, NEW u, NEW at,
         TbTable(L, n, t, h, u, at), NEW info \in TbRecord,
         NEW c \in 1 .. n, L[c].base = info.base
  PROVE  avl_find(t, TbCompared(info, L, n)) = c
<1>1. PICK cmp : cmp = TbCompared(info, L, n)
  OBVIOUS
<1>2. /\ L \in [1 .. n -> TbRecord] /\ BasesDiffer(L, n)
      /\ Sound(t, n, h, u, at) /\ OrderedBy(t, n, u, TbRel(L, n))
  BY DEF TbTable
<1>3. ASSUME NEW q \in 1 .. n
      PROVE  /\ cmp[q] = 0 <=> L[c].base = L[q].base
             /\ cmp[q] > 0 <=> L[q].base < L[c].base
             /\ L[q].base \in Nat /\ L[c].base \in Nat
  BY <1>1, <1>2, TbTold
<1>4. cmp[c] = 0
  BY <1>3
<1>5. ASSUME NEW q \in 1 .. n, c \in u[q], c # q
      PROVE  cmp[q] # 0 /\ c \in u[t.link[q][Dir(cmp, q)]]
  <2>1. cmp[q] # 0
    BY <1>2, <1>3, <1>5 DEF BasesDiffer
  <2>2. u[q] = {q} \cup u[t.link[q][0]] \cup u[t.link[q][1]]
    BY <1>2 DEF Sound, Reaches
  <2>3. ASSUME NEW s \in Side, c \in u[t.link[q][s]]
        PROVE  OnSide(TbRel(L, n), s, c, q)
    BY <1>2, <2>3 DEF OrderedBy, OrderedAt
  <2>4. c \in u[t.link[q][0]] => L[c].base < L[q].base
    BY <2>3, TbRelIs DEF OnSide, Side
  <2>5. c \in u[t.link[q][1]] => L[q].base < L[c].base
    BY <2>3, TbRelIs DEF OnSide, Side
  <2>6. CASE cmp[q] > 0
    BY <1>3, <1>5, <2>1, <2>2, <2>4, <2>6 DEF Dir
  <2>7. CASE ~ (cmp[q] > 0)
    BY <1>3, <1>5, <2>1, <2>2, <2>5, <2>7 DEF Dir
  <2> QED
    BY <2>1, <2>6, <2>7
<1>6. avl_find(t, cmp) = c
  BY <1>2, <1>4, <1>5, FindMeets
<1> QED
  BY <1>1, <1>6

LEMMA TbAdded ==
  ASSUME NEW n \in Nat, NEW L, NEW t, NEW h, NEW u, NEW at,
         TbTable(L, n, t, h, u, at), NEW info \in TbRecord,
         avl_find(t, TbCompared(info, L, n)) = 0,
         NEW L2 \in [1 .. n + 1 -> TbRecord], L2[n + 1] = info, \A q \in 1 .. n : L2[q] = L[q]
  PROVE  \E h2, u2, at2 :
           TbTable(L2, n + 1, avl_insert(t, TbCompared(info, L, n)), h2, u2, at2)
<1>1. PICK cmp, t2, m : /\ cmp = TbCompared(info, L, n) /\ t2 = avl_insert(t, cmp)
                        /\ m = n + 1
  OBVIOUS
<1>2. /\ L \in [1 .. n -> TbRecord] /\ BasesDiffer(L, n)
      /\ Sound(t, n, h, u, at) /\ OrderedBy(t, n, u, TbRel(L, n))
  BY DEF TbTable
<1>3. /\ L2 \in [1 .. m -> TbRecord] /\ L2[m] = info /\ \A q \in 1 .. n : L2[q] = L[q]
  BY <1>1
<1>4. m \in Nat /\ m \in 1 .. m
  BY <1>1
<1>5. \A q \in 1 .. m : q \in 1 .. n \/ q = m
  BY <1>1
<1>6. \A q \in 1 .. n : q \in 1 .. m
  BY <1>1
<1>7. \A q \in 1 .. n : L[q].base # info.base
  BY TbNotFound
<1>8. BasesDiffer(L2, m)
  BY <1>2, <1>3, <1>5, <1>7 DEF BasesDiffer
<1>9. PICK h2, u2, at2 :
        /\ Sound(avl_insert(t, cmp), n + 1, h2, u2, at2)
        /\ \A R : /\ TransitiveOn(R, n + 1) /\ OrderedBy(t, n, u, R)
                  /\ \A q \in 1 .. n : OnSide(R, Dir(cmp, q), n + 1, q)
                  => OrderedBy(avl_insert(t, cmp), n + 1, u2, R)
  BY <1>1, <1>2, InsertSound
<1>10. PICK R : R = TbRel(L2, m)
  OBVIOUS
<1>11. TransitiveOn(R, m)
  <2>1. \A q \in 1 .. m : L2[q].base \in Nat
    BY <1>3 DEF TbRecord
  <2>2. ASSUME NEW a \in 1 .. m, NEW b \in 1 .. m, NEW c \in 1 .. m,
               <<a, b>> \in R, <<b, c>> \in R
        PROVE  <<a, c>> \in R
    <3>1. L2[a].base < L2[b].base /\ L2[b].base < L2[c].base
      BY <1>4, <1>10, <2>2, TbRelIs
    <3>2. L2[a].base < L2[c].base
      BY <2>1, <3>1
    <3> QED
      BY <1>4, <1>10, <3>2, TbRelIs
  <2> QED
    BY <2>2 DEF TransitiveOn
<1>12. OrderedBy(t, n, u, R)
  <2>1. ASSUME NEW x, NEW y, <<x, y>> \in TbRel(L, n) PROVE <<x, y>> \in R
    <3>1. x \in 1 .. n /\ y \in 1 .. n
      BY <2>1, TbRelOnly
    <3>2. L2[x].base < L2[y].base
      BY <1>3, <2>1, <3>1, TbRelIs
    <3> QED
      BY <1>4, <1>6, <1>10, <3>1, <3>2, TbRelIs
  <2> QED
    BY <1>2, <2>1, OrderedMore
<1>13. ASSUME NEW q \in 1 .. n PROVE OnSide(R, Dir(cmp, q), m, q)
  <2>1. cmp[q] > 0 <=> L[q].base < info.base
    BY <1>1, <1>2, TbTold
  <2>2. L[q].base \in Nat /\ info.base \in Nat
    BY <1>2 DEF TbRecord
  <2>3. ~ (cmp[q] > 0) => info.base < L[q].base
    BY <1>7, <2>1, <2>2
  <2>4. <<q, m>> \in R <=> L[q].base < info.base
    BY <1>3, <1>4, <1>6, <1>10, TbRelIs
  <2>5. <<m, q>> \in R <=> info.base < L[q].base
    BY <1>3, <1>4, <1>6, <1>10, TbRelIs
  <2> QED
    BY <2>1, <2>3, <2>4, <2>5 DEF OnSide, Dir
<1>14. OrderedBy(t2, m, u2, R) /\ Sound(t2, m, h2, u2, at2)
  BY <1>1, <1>9, <1>11, <1>12, <1>13
<1>15. TbTable(L2, m, t2, h2, u2, at2)
  BY <1>3, <1>8, <1>10, <1>14 DEF TbTable
<1> QED
  BY <1>1, <1>15

-----------------------------------------------------------------------------
(* The inductive invariant.  While the guest runs, L lists the records of  *)
(* the blocks T, if tb_info is on, and t is their tree; L lists the        *)
(* records of the accesses A, and t is their tree.                         *)
TbStems(L, T) == \A p \in 1 .. Len(L) : \E b \in T : L[p] = TbInfo(b)

TbCovers(L, T) == \A b \in T : \E p \in 1 .. Len(L) : L[p].base = b.base

TbPart(L, t, T, on) ==
  /\ L \in Seq(TbRecord)
  /\ TbStems(L, T)
  /\ on => TbCovers(L, T)
  /\ \E h, u, at : TbTable(L, Len(L), t, h, u, at)

MemPart(A, L, t) ==
  /\ L \in Seq(MemInfo)
  /\ \E h, u, at : MemTable(A, L, Len(L), t, h, u, at)
  /\ Sum(Counters(L)) = Sum(A)

(* What the lists of the message keep of this.                             *)
TbDone(L, T, on) ==
  /\ L \in Seq(TbRecord)
  /\ TbStems(L, T)
  /\ BasesDiffer(L, Len(L))
  /\ on => TbCovers(L, T)

MemDone(A, L) ==
  /\ L \in Seq(MemInfo)
  /\ Exact(A, L, Len(L))
  /\ Sum(Counters(L)) = Sum(A)

Collecting ==
  /\ message = NULL
  /\ TbPart(tb_infos, tb_tree, translated, tb_info_enabled)
  /\ MemPart(accesses, mem_infos, mem_tree)

Reported ==
  /\ message \in [tb_informations : Seq(TbRecord), mem_infos : Seq(MemInfo)]
  /\ tb_infos = <<>> /\ mem_infos = <<>>
  /\ tb_tree = avl_create /\ mem_tree = avl_create
  /\ TbDone(message.tb_informations, translated, tb_info_enabled)
  /\ MemDone(accesses, message.mem_infos)

History ==
  /\ tb_info_enabled \in BOOLEAN /\ mem_info_list_enabled \in BOOLEAN
  /\ translated \subseteq Blocks
  /\ accesses \in [MemAccesses -> Nat] /\ Sum(accesses) <= MaxAccesses

IInv == History /\ (Collecting \/ Reported)

LEMMA TbInfoIs ==
  ASSUME NEW b \in Blocks
  PROVE  TbInfo(b) \in TbRecord /\ TbInfo(b).base = b.base
BY GuestAssumption DEF TbInfo, TbRecord, calculate_bytesize_instructions

LEMMA SeqIs ==
  ASSUME NEW S, NEW L \in Seq(S)
  PROVE  Len(L) \in Nat /\ L \in [1 .. Len(L) -> S] /\ DOMAIN L = 1 .. Len(L)
BY LenProperties

LEMMA TbUnlisted ==
  ASSUME NEW L, NEW t, NEW T, NEW b, TbPart(L, t, T, FALSE)
  PROVE  TbPart(L, t, T \cup {b}, FALSE)
BY DEF TbPart, TbStems

LEMMA TbKnown ==
  ASSUME NEW L, NEW t, NEW T, NEW on, NEW b \in Blocks, TbPart(L, t, T, on),
         avl_find(t, TbCompared(TbInfo(b), L, Len(L))) # 0
  PROVE  TbPart(L, t, T \cup {b}, on)
<1>1. L \in Seq(TbRecord) /\ TbStems(L, T) /\ (on => TbCovers(L, T))
  BY DEF TbPart
<1>2. PICK h, u, at : TbTable(L, Len(L), t, h, u, at)
  BY DEF TbPart
<1>3. PICK n \in Nat, info \in TbRecord : n = Len(L) /\ info = TbInfo(b)
  BY <1>1, SeqIs, TbInfoIs
<1>4. PICK p \in 1 .. n : L[p].base = info.base
  BY <1>2, <1>3, TbFound
<1>5. \E q \in 1 .. Len(L) : L[q].base = b.base
  BY <1>3, <1>4, TbInfoIs
<1>6. on => TbCovers(L, T \cup {b})
  BY <1>1, <1>5 DEF TbCovers
<1>7. TbStems(L, T \cup {b})
  BY <1>1 DEF TbStems
<1> QED
  BY <1>1, <1>2, <1>6, <1>7 DEF TbPart

LEMMA TbFresh ==
  ASSUME NEW L, NEW t, NEW T, NEW on, NEW b \in Blocks, TbPart(L, t, T, on),
         NEW cmp, cmp = TbCompared(TbInfo(b), L, Len(L)), avl_find(t, cmp) = 0
  PROVE  TbPart(Append(L, TbInfo(b)), avl_insert(t, cmp), T \cup {b}, on)
<1>1. L \in Seq(TbRecord) /\ TbStems(L, T) /\ (on => TbCovers(L, T))
  BY DEF TbPart
<1>2. PICK h, u, at : TbTable(L, Len(L), t, h, u, at)
  BY DEF TbPart
<1>3. PICK n \in Nat, info \in TbRecord : n = Len(L) /\ info = TbInfo(b)
  BY <1>1, SeqIs, TbInfoIs
<1>4. L \in [1 .. n -> TbRecord]
  BY <1>1, <1>3, SeqIs
<1>5. PICK L2 : L2 = Append(L, info)
  OBVIOUS
<1>6. Appended(L2, L, n, TbRecord, info)
  BY <1>3, <1>4, <1>5, AppendIs
<1>7. /\ L2 \in [1 .. n + 1 -> TbRecord] /\ L2[n + 1] = info
      /\ \A q \in 1 .. n : L2[q] = L[q]
  BY <1>6 DEF Appended
<1>8. n + 1 \in Nat /\ L2 \in Seq(TbRecord) /\ Len(L2) = n + 1
  <2>1. n + 1 \in Nat
    OBVIOUS
  <2> QED
    BY <1>7, <2>1, LenIs
<1>9. PICK t2 : t2 = avl_insert(t, TbCompared(info, L, n))
  OBVIOUS
<1>10. \E h2, u2, at2 : TbTable(L2, n + 1, t2, h2, u2, at2)
  BY <1>2, <1>3, <1>7, <1>9, TbAdded
<1>11. n + 1 \in 1 .. n + 1 /\ \A q \in 1 .. n : q \in 1 .. n + 1
  OBVIOUS
<1>12. \A q \in 1 .. n + 1 : q \in 1 .. n \/ q = n + 1
  OBVIOUS
<1>13. TbStems(L2, T \cup {b})
  BY <1>1, <1>3, <1>7, <1>8, <1>12 DEF TbStems
<1>14. ASSUME on PROVE TbCovers(L2, T \cup {b})
  <2>1. TbCovers(L, T)
    BY <1>1, <1>14
  <2>2. L2[n + 1].base = b.base
    BY <1>3, <1>7, TbInfoIs
  <2>3. ASSUME NEW x \in T PROVE \E p \in 1 .. n + 1 : L2[p].base = x.base
    <3>1. PICK p \in 1 .. n : L[p].base = x.base
      BY <1>3, <2>1 DEF TbCovers
    <3> QED
      BY <1>7, <1>11, <3>1
  <2> QED
    BY <1>8, <1>11, <2>2, <2>3 DEF TbCovers
<1>15. TbPart(L2, t2, T \cup {b}, on)
  BY <1>8, <1>10, <1>13, <1>14 DEF TbPart
<1> QED
  BY <1>3, <1>5, <1>9, <1>15

LEMMA MemKnown ==
  ASSUME NEW A, NEW L, NEW t, MemPart(A, L, t), NEW a \in MemAccesses,
         NEW p, p = avl_find(t, Compared(a, L, Len(L))), p # 0
  PROVE  MemPart(Counted(A, a), Count(L, p), t)
<1>1. L \in Seq(MemInfo) /\ Sum(Counters(L)) = Sum(A)
  BY DEF MemPart
<1>2. PICK h, u, at : MemTable(A, L, Len(L), t, h, u, at)
  BY DEF MemPart
<1>3. PICK n \in Nat : n = Len(L)
  BY <1>1, SeqIs
<1>4. L \in [1 .. n -> MemInfo] /\ Sound(t, n, h, u, at) /\ A \in [MemAccesses -> Nat]
  BY <1>2, <1>3 DEF MemTable
<1>5. p \in 1 .. n
  BY <1>3, <1>4, FindSays
<1>6. PICK L2 : L2 = Count(L, p)
  OBVIOUS
<1>7. Raised(L2, L, n, p)
  BY <1>4, <1>5, <1>6, CountRaises
<1>8. L2 \in [1 .. n -> MemInfo]
  BY <1>7 DEF Raised
<1>9. L2 \in Seq(MemInfo) /\ Len(L2) = n
  BY <1>8, LenIs
<1>10. MemTable(Counted(A, a), L2, n, t, h, u, at)
  BY <1>2, <1>3, <1>7, AccessFound
<1>11. Sum(Counters(L2)) = Sum(Counters(L)) + 1
  BY <1>4, <1>5, <1>7, RaisedSum
<1>12. Sum(Counted(A, a)) = Sum(A) + 1
  BY <1>4, CountedSum
<1>13. MemPart(Counted(A, a), L2, t)
  BY <1>1, <1>9, <1>10, <1>11, <1>12 DEF MemPart
<1> QED
  BY <1>6, <1>13

LEMMA MemFresh ==
  ASSUME NEW A, NEW L, NEW t, MemPart(A, L, t), NEW a \in MemAccesses,
         NEW cmp, cmp = Compared(a, L, Len(L)), avl_find(t, cmp) = 0
  PROVE  MemPart(Counted(A, a), Count(Append(L, NewMemInfo(a)), Len(L) + 1),
                 avl_insert(t, cmp))
<1>1. L \in Seq(MemInfo) /\ Sum(Counters(L)) = Sum(A)
  BY DEF MemPart
<1>2. PICK h, u, at : MemTable(A, L, Len(L), t, h, u, at)
  BY DEF MemPart
<1>3. PICK n \in Nat : n = Len(L)
  BY <1>1, SeqIs
<1>4. L \in [1 .. n -> MemInfo] /\ A \in [MemAccesses -> Nat]
  BY <1>2, <1>3 DEF MemTable
<1>5. PICK L2 : L2 = Count(Append(L, NewMemInfo(a)), Len(L) + 1)
  OBVIOUS
<1>6. Recorded(L2, L, n, a)
  BY <1>4, <1>5, AppendRecords
<1>7. L2 \in [1 .. n + 1 -> MemInfo] /\ n + 1 \in Nat
  BY <1>6 DEF Recorded
<1>8. L2 \in Seq(MemInfo) /\ Len(L2) = n + 1
  BY <1>7, LenIs
<1>9. PICK t2 : t2 = avl_insert(t, Compared(a, L, n))
  OBVIOUS
<1>10. \E h2, u2, at2 : MemTable(Counted(A, a), L2, n + 1, t2, h2, u2, at2)
  BY <1>2, <1>3, <1>6, <1>9, AccessNew
<1>11. Sum(Counters(L2)) = Sum(Counters(L)) + 1
  BY <1>4, <1>6, RecordedSum
<1>12. Sum(Counted(A, a)) = Sum(A) + 1
  BY <1>4, CountedSum
<1>13. MemPart(Counted(A, a), L2, t2)
  BY <1>1, <1>8, <1>10, <1>11, <1>12 DEF MemPart
<1> QED
  BY <1>3, <1>5, <1>9, <1>13

-----------------------------------------------------------------------------
(* The lists in the message are the tables' read backwards. *)
Backwards(L2, L, n) == \A i \in 1 .. n : L2[i] = L[n + 1 - i]

LEMMA ReverseIs ==
  ASSUME NEW S, NEW L \in Seq(S)
  PROVE  /\ Reverse(L) \in Seq(S) /\ Len(Reverse(L)) = Len(L)
         /\ Backwards(Reverse(L), L, Len(L))
<1>1. PICK n \in Nat : n = Len(L) /\ L \in [1 .. n -> S]
  BY SeqIs
<1>2. Reverse(L) = [i \in 1 .. n |-> L[(n - i) + 1]]
  BY <1>1 DEF Reverse
<1>3. \A i \in 1 .. n : (n - i) + 1 = n + 1 - i /\ n + 1 - i \in 1 .. n
  OBVIOUS
<1>4. Reverse(L) \in [1 .. n -> S]
  BY <1>1, <1>2, <1>3
<1>5. Backwards(Reverse(L), L, n)
  BY <1>2, <1>3 DEF Backwards
<1> QED
  BY <1>1, <1>4, <1>5, LenIs

LEMMA TbReported ==
  ASSUME NEW L, NEW t, NEW T, NEW on, TbPart(L, t, T, on)
  PROVE  TbDone(Reverse(L), T, on)
<1>1. L \in Seq(TbRecord) /\ (on => TbCovers(L, T))
  BY DEF TbPart
<1>0. PICK n \in Nat : n = Len(L)
  BY <1>1, SeqIs
<1>2. PICK L2 : n = Len(L) /\ L2 = Reverse(L)
  BY <1>0
<1>3. BasesDiffer(L, n)
  BY <1>2 DEF TbPart, TbTable
<1>4. L2 \in Seq(TbRecord) /\ Len(L2) = n /\ Backwards(L2, L, n)
  BY <1>1, <1>2, ReverseIs
<1>5. \A i \in 1 .. n : n + 1 - i \in 1 .. n /\ n + 1 - (n + 1 - i) = i
  OBVIOUS
<1>6. \A i \in 1 .. n : L2[i] = L[n + 1 - i]
  BY <1>4 DEF Backwards
<1>7. BasesDiffer(L2, n)
  <2>1. SUFFICES ASSUME NEW p \in 1 .. n, NEW q \in 1 .. n, L2[p].base = L2[q].base
                 PROVE  p = q
    BY DEF BasesDiffer
  <2>2. n + 1 - p = n + 1 - q
    BY <1>3, <1>5, <1>6, <2>1 DEF BasesDiffer
  <2> QED
    BY <2>2
<1>8. ASSUME on PROVE TbCovers(L2, T)
  <2>1. SUFFICES ASSUME NEW b \in T PROVE \E p \in 1 .. n : L2[p].base = b.base
    BY <1>4 DEF TbCovers
  <2>2. PICK q \in 1 .. n : L[q].base = b.base
    BY <1>1, <1>2, <1>8 DEF TbCovers
  <2>3. n + 1 - q \in 1 .. n /\ L2[n + 1 - q] = L[q]
    BY <1>5, <1>6
  <2> QED
    BY <2>2, <2>3
<1>10. TbStems(L2, T)
  <2>1. SUFFICES ASSUME NEW p \in 1 .. n PROVE \E b \in T : L2[p] = TbInfo(b)
    BY <1>4 DEF TbStems
  <2>2. n + 1 - p \in 1 .. n /\ L2[p] = L[n + 1 - p]
    BY <1>5, <1>6
  <2>3. \E b \in T : L[n + 1 - p] = TbInfo(b)
    BY <1>2, <2>2 DEF TbPart, TbStems
  <2> QED
    BY <2>2, <2>3
<1>9. TbDone(L2, T, on)
  BY <1>4, <1>7, <1>8, <1>10 DEF TbDone
<1> QED
  BY <1>2, <1>9

LEMMA MemReported ==
  ASSUME NEW A, NEW L, NEW t, MemPart(A, L, t)
  PROVE  MemDone(A, Reverse(L))
<1>1. L \in Seq(MemInfo) /\ Sum(Counters(L)) = Sum(A)
  BY DEF MemPart
<1>0. PICK n \in Nat : n = Len(L)
  BY <1>1, SeqIs
<1>2. PICK L2 : n = Len(L) /\ L2 = Reverse(L)
  BY <1>0
<1>3. Exact(A, L, n)
  BY <1>2 DEF MemPart, MemTable
<1>4. L2 \in Seq(MemInfo) /\ Len(L2) = n /\ Backwards(L2, L, n)
  BY <1>1, <1>2, ReverseIs
<1>5. \A i \in 1 .. n : n + 1 - i \in 1 .. n /\ n + 1 - (n + 1 - i) = i
  OBVIOUS
<1>6. \A i \in 1 .. n : L2[i] = L[n + 1 - i]
  BY <1>4 DEF Backwards
<1>7. L \in [1 .. n -> MemInfo] /\ L2 \in [1 .. n -> MemInfo]
  BY <1>1, <1>2, <1>4, SeqIs
<1>8. Sum(Counters(L2)) = Sum(Counters(L))
  <2>1. PICK g, g2 : g = Counters(L) /\ g2 = Counters(L2)
    OBVIOUS
  <2>2. g \in [1 .. n -> Nat] /\ \A i \in 1 .. n : g[i] = L[i].counter
    BY <1>7, <2>1, CountersAre
  <2>3. g2 \in [1 .. n -> Nat] /\ \A i \in 1 .. n : g2[i] = L2[i].counter
    BY <1>7, <2>1, CountersAre
  <2>4. ASSUME NEW i \in 1 .. n PROVE g2[i] = g[n + 1 - i]
    BY <1>5, <1>6, <2>2, <2>3
  <2>5. Sum(g2) = Sum(g)
    BY <2>2, <2>3, <2>4, SumReverse
  <2> QED
    BY <2>1, <2>5
<1>9. Exact(A, L2, n)
  <2>1. SUFFICES ASSUME NEW a \in Did(A), Apart(A, a.ins)
                 PROVE  \E p : OnlyAt(L2, n, a, p) /\ L2[p].counter = CountOf(A, a.ins, a.mem)
    BY DEF Exact
  <2>2. PICK p : OnlyAt(L, n, a, p) /\ L[p].counter = CountOf(A, a.ins, a.mem)
    BY <1>3, <2>1 DEF Exact
  <2>3. p \in 1 .. n /\ \A q \in 1 .. n : SameKey(L[q], a) <=> q = p
    BY <2>2 DEF OnlyAt
  <2>4. PICK r \in 1 .. n : r = n + 1 - p /\ n + 1 - r = p
    BY <1>5, <2>3
  <2>5. ASSUME NEW q \in 1 .. n PROVE SameKey(L2[q], a) <=> q = r
    <3>1. L2[q] = L[n + 1 - q] /\ n + 1 - q \in 1 .. n
      BY <1>5, <1>6
    <3>2. n + 1 - q = p <=> q = r
      BY <2>3, <2>4
    <3> QED
      BY <2>3, <3>1, <3>2
  <2>6. L2[r] = L[p]
    BY <1>6, <2>4
  <2> QED
    BY <2>2, <2>4, <2>5, <2>6 DEF OnlyAt
<1>10. MemDone(A, L2)
  BY <1>1, <1>4, <1>8, <1>9 DEF MemDone
<1> QED
  BY <1>2, <1>10

-----------------------------------------------------------------------------
LEMMA TbStarts ==
  ASSUME NEW on
  PROVE  TbPart(<<>>, avl_create, {}, on)
<1>1. PICK L : L = <<>>
  OBVIOUS
<1>2. L \in Seq(TbRecord) /\ Len(L) = 0
  BY <1>1, EmptySeq
<1>3. \A p \in 1 .. 0 : FALSE
  OBVIOUS
<1>4. PICK h, u, at : Sound(avl_create, 0, h, u, at) /\ \A R : OrderedBy(avl_create, 0, u, R)
  BY NoneSound
<1>5. L \in [1 .. 0 -> TbRecord]
  BY <1>2, SeqIs
<1>6. TbTable(L, 0, avl_create, h, u, at)
  BY <1>3, <1>4, <1>5 DEF TbTable, BasesDiffer
<1>7. TbStems(L, {}) /\ TbCovers(L, {})
  BY <1>2, <1>3 DEF TbStems, TbCovers
<1>8. TbPart(L, avl_create, {}, on)
  BY <1>2, <1>6, <1>7 DEF TbPart
<1> QED
  BY <1>1, <1>8

LEMMA NoneCounted ==
  /\ [a \in MemAccesses |-> 0] \in [MemAccesses -> Nat]
  /\ Sum([a \in MemAccesses |-> 0]) = 0
  /\ Did([a \in MemAccesses |-> 0]) = {}
<1>1. PICK A : A = [a \in MemAccesses |-> 0]
  OBVIOUS
<1>2. A \in [MemAccesses -> Nat] /\ \A x \in MemAccesses : A[x] = 0
  BY <1>1
<1>3. Sum(A) = 0
  BY <1>2, GuestAssumption, SumZero
<1>4. Did(A) = {}
  BY <1>2 DEF Did
<1> QED
  BY <1>1, <1>2, <1>3, <1>4

LEMMA MemStarts == MemPart([a \in MemAccesses |-> 0], <<>>, avl_create)
<1>1. PICK L, A : L = <<>> /\ A = [a \in MemAccesses |-> 0]
  OBVIOUS
<1>2. L \in Seq(MemInfo) /\ Len(L) = 0
  BY <1>1, EmptySeq
<1>3. \A p \in 1 .. 0 : FALSE
  OBVIOUS
<1>4. PICK h, u, at : Sound(avl_create, 0, h, u, at) /\ \A R : OrderedBy(avl_create, 0, u, R)
  BY NoneSound
<1>5. L \in [1 .. 0 -> MemInfo]
  BY <1>2, SeqIs
<1>6. A \in [MemAccesses -> Nat] /\ Sum(A) = 0 /\ Did(A) = {}
  BY <1>1, NoneCounted
<1>7. Stems(A, L, 0) /\ Exact(A, L, 0)
  BY <1>3, <1>6 DEF Stems, Exact
<1>8. InOrder(A, L, 0, avl_create, u)
  BY <1>4 DEF InOrder
<1>9. MemTable(A, L, 0, avl_create, h, u, at)
  BY <1>4, <1>5, <1>6, <1>7, <1>8 DEF MemTable
<1>10. Sum(Counters(L)) = 0
  <2>1. PICK S, g : S = 1 .. 0 /\ g = Counters(L)
    OBVIOUS
  <2>2. 0 \in Nat
    OBVIOUS
  <2>3. g \in [S -> Nat]
    BY <1>5, <2>1, <2>2, CountersAre
  <2>4. IsFiniteSet(S)
    BY <2>1, FS_Interval
  <2>5. \A x \in S : g[x] = 0
    BY <1>3, <2>1
  <2> QED
    BY <2>1, <2>3, <2>4, <2>5, SumZero
<1>11. MemPart(A, L, avl_create)
  BY <1>2, <1>6, <1>9, <1>10 DEF MemPart
<1> QED
  BY <1>1, <1>11

LEMMA InitInv == Init => IInv
<1>1. SUFFICES ASSUME Init PROVE IInv
  OBVIOUS
<1>2. History
  <2>1. translated = {} /\ accesses = [a \in MemAccesses |-> 0]
    BY <1>1 DEF Init
  <2>2. accesses \in [MemAccesses -> Nat] /\ Sum(accesses) = 0
    BY <2>1, NoneCounted
  <2> QED
    BY <1>1, <2>1, <2>2, WidthAssumption DEF History, Init
<1>3. TbPart(tb_infos, tb_tree, translated, tb_info_enabled)
  BY <1>1, TbStarts DEF Init
<1>4. MemPart(accesses, mem_infos, mem_tree)
  BY <1>1, MemStarts DEF Init
<1> QED
  BY <1>1, <1>2, <1>3, <1>4 DEF IInv, Collecting, Init

LEMMA TbCmpIs ==
  ASSUME NEW info, tb_infos \in Seq(TbRecord)
  PROVE  TbCmp(info) = TbCompared(info, tb_infos, Len(tb_infos))
BY SeqIs DEF TbCmp, TbCompared

LEMMA MemCmpIs ==
  ASSUME NEW a, mem_infos \in Seq(MemInfo)
  PROVE  MemCmp(a) = Compared(a, mem_infos, Len(mem_infos))
BY SeqIs DEF MemCmp, Compared

LEMMA TranslateInv ==
  ASSUME History, Collecting, NEW b \in Blocks, HandleTbTranslateData(b)
  PROVE  IInv'
<1>1. /\ translated' = translated \cup {b}
      /\ tb_info_enabled' = tb_info_enabled /\ mem_info_list_enabled' = mem_info_list_enabled
      /\ mem_infos' = mem_infos /\ mem_tree' = mem_tree
      /\ message' = message /\ accesses' = accesses
  BY DEF HandleTbTranslateData
<1>2. History'
  BY <1>1 DEF History
<1>3. TbPart(tb_infos, tb_tree, translated, tb_info_enabled)
  BY DEF Collecting
<1>4. TbPart(tb_infos', tb_tree', translated', tb_info_enabled')
  <2>1. CASE ~ tb_info_enabled
    <3>1. tb_info_enabled = FALSE
      BY <2>1 DEF History
    <3>2. tb_infos' = tb_infos /\ tb_tree' = tb_tree
      BY <2>1 DEF HandleTbTranslateData
    <3>3. TbPart(tb_infos, tb_tree, translated, FALSE)
      BY <1>3, <3>1
    <3>4. TbPart(tb_infos, tb_tree, translated \cup {b}, FALSE)
      BY <3>3, TbUnlisted
    <3> QED
      BY <1>1, <3>1, <3>2, <3>4
  <2>2. CASE tb_info_enabled
    <3>1. add_tb_info(TbInfo(b))
      BY <2>2 DEF HandleTbTranslateData
    <3>2. TbCmp(TbInfo(b)) = TbCompared(TbInfo(b), tb_infos, Len(tb_infos))
      <4>1. tb_infos \in Seq(TbRecord)
        BY <1>3 DEF TbPart
      <4> QED
        BY <4>1, TbCmpIs
    <3>3. PICK cmp : cmp = TbCmp(TbInfo(b))
      OBVIOUS
    <3>4. CASE avl_find(tb_tree, cmp) # 0
      <4>1. tb_infos' = tb_infos /\ tb_tree' = tb_tree
        BY <3>1, <3>3, <3>4 DEF add_tb_info
      <4>2. TbPart(tb_infos, tb_tree, translated \cup {b}, tb_info_enabled)
        BY <1>3, <3>2, <3>3, <3>4, TbKnown
      <4> QED
        BY <1>1, <4>1, <4>2
    <3>5. CASE avl_find(tb_tree, cmp) = 0
      <4>1. tb_infos' = Append(tb_infos, TbInfo(b)) /\ tb_tree' = avl_insert(tb_tree, cmp)
        BY <3>1, <3>3, <3>5 DEF add_tb_info
      <4>2. TbPart(Append(tb_infos, TbInfo(b)), avl_insert(tb_tree, cmp),
                   translated \cup {b}, tb_info_enabled)
        BY <1>3, <3>2, <3>3, <3>5, TbFresh
      <4> QED
        BY <1>1, <4>1, <4>2
    <3> QED
      BY <3>4, <3>5
  <2> QED
    BY <2>1, <2>2
<1>5. MemPart(accesses', mem_infos', mem_tree') /\ message' = NULL
  BY <1>1 DEF Collecting
<1> QED
  BY <1>2, <1>4, <1>5 DEF IInv, Collecting

LEMMA AccessInv ==
  ASSUME History, Collecting, NEW a \in MemAccesses, MemaccessDataCb(a)
  PROVE  IInv'
<1>1. /\ tb_info_enabled' = tb_info_enabled /\ mem_info_list_enabled' = mem_info_list_enabled
      /\ tb_infos' = tb_infos /\ tb_tree' = tb_tree
      /\ message' = message /\ translated' = translated
      /\ accesses' = Counted(accesses, a) /\ Sum(accesses) < MaxAccesses
  BY DEF MemaccessDataCb, Counted, Sum
<1>2. MemPart(accesses, mem_infos, mem_tree) /\ accesses \in [MemAccesses -> Nat]
  BY DEF Collecting, History
<1>3. History'
  <2>1. accesses' \in [MemAccesses -> Nat] /\ Sum(accesses') = Sum(accesses) + 1
    BY <1>1, <1>2, CountedIs, CountedSum
  <2>2. Sum(accesses) \in Nat
    BY <1>2, GuestAssumption, SumNat
  <2>3. Sum(accesses') <= MaxAccesses
    BY <1>1, <2>1, <2>2, WidthAssumption
  <2>4. Sum(accesses)' = Sum(accesses')
    OBVIOUS
  <2> QED
    BY <1>1, <2>1, <2>3, <2>4 DEF History
<1>4. PICK cmp, p : cmp = MemCmp(a) /\ p = avl_find(mem_tree, cmp)
  OBVIOUS
<1>5. cmp = Compared(a, mem_infos, Len(mem_infos))
  <2>1. mem_infos \in Seq(MemInfo)
    BY <1>2 DEF MemPart
  <2> QED
    BY <1>4, <2>1, MemCmpIs
<1>6. MemPart(accesses', mem_infos', mem_tree')
  <2>1. CASE p # 0
    <3>1. mem_infos' = Count(mem_infos, p) /\ mem_tree' = mem_tree
      BY <1>4, <2>1 DEF MemaccessDataCb
    <3>2. MemPart(Counted(accesses, a), Count(mem_infos, p), mem_tree)
      BY <1>2, <1>4, <1>5, <2>1, MemKnown
    <3> QED
      BY <1>1, <3>1, <3>2
  <2>2. CASE p = 0
    <3>1. /\ mem_infos' = Count(Append(mem_infos, NewMemInfo(a)), Len(mem_infos) + 1)
          /\ mem_tree' = avl_insert(mem_tree, cmp)
      BY <1>4, <2>2 DEF MemaccessDataCb
    <3>2. MemPart(Counted(accesses, a),
                  Count(Append(mem_infos, NewMemInfo(a)), Len(mem_infos) + 1),
                  avl_insert(mem_tree, cmp))
      BY <1>2, <1>4, <1>5, <2>2, MemFresh
    <3> QED
      BY <1>1, <3>1, <3>2
  <2> QED
    BY <2>1, <2>2
<1>7. TbPart(tb_infos', tb_tree', translated', tb_info_enabled') /\ message' = NULL
  BY <1>1 DEF Collecting
<1> QED
  BY <1>3, <1>6, <1>7 DEF IInv, Collecting

LEMMA EndInv ==
  ASSUME History, Collecting, EndDump
  PROVE  IInv'
<1>1. /\ tb_info_enabled' = tb_info_enabled /\ mem_info_list_enabled' = mem_info_list_enabled
      /\ translated' = translated /\ accesses' = accesses
      /\ tb_infos' = <<>> /\ tb_tree' = avl_create
      /\ mem_infos' = <<>> /\ mem_tree' = avl_create
  BY DEF EndDump, tb_info_free, mem_info_free
<1>2. message' = [tb_informations |-> Reverse(tb_infos), mem_infos |-> Reverse(mem_infos)]
  BY DEF EndDump, plugin_dump_tb_information, plugin_dump_mem_information
<1>3. History'
  BY <1>1 DEF History
<1>4. TbDone(Reverse(tb_infos), translated, tb_info_enabled)
  BY TbReported DEF Collecting
<1>5. MemDone(accesses, Reverse(mem_infos))
  BY MemReported DEF Collecting
<1>6. /\ message'.tb_informations = Reverse(tb_infos)
      /\ message'.mem_infos = Reverse(mem_infos)
  BY <1>2
<1>7. message' \in [tb_informations : Seq(TbRecord), mem_infos : Seq(MemInfo)]
  <2>1. Reverse(tb_infos) \in Seq(TbRecord) /\ Reverse(mem_infos) \in Seq(MemInfo)
    BY <1>4, <1>5 DEF TbDone, MemDone
  <2> QED
    BY <1>2, <2>1
<1>8. TbDone(message'.tb_informations, translated', tb_info_enabled')
  BY <1>1, <1>4, <1>6
<1>9. MemDone(accesses', message'.mem_infos)
  BY <1>1, <1>5, <1>6
<1>10. Reported'
  BY <1>1, <1>7, <1>8, <1>9 DEF Reported
<1> QED
  BY <1>3, <1>10 DEF IInv

LEMMA UnchangedInv ==
  ASSUME IInv, UNCHANGED vars
  PROVE  IInv'
<1>1. /\ tb_info_enabled' = tb_info_enabled /\ mem_info_list_enabled' = mem_info_list_enabled
      /\ tb_infos' = tb_infos /\ tb_tree' = tb_tree /\ mem_infos' = mem_infos
      /\ mem_tree' = mem_tree /\ message' = message
      /\ translated' = translated /\ accesses' = accesses
  BY DEF vars, tables
<1>2. History'
  BY <1>1 DEF IInv, History
<1>3. CASE Collecting
  <2>1. Collecting'
    BY <1>1, <1>3 DEF Collecting
  <2> QED
    BY <1>2, <2>1 DEF IInv
<1>4. CASE Reported
  <2>1. Reported'
    BY <1>1, <1>4 DEF Reported
  <2> QED
    BY <1>2, <2>1 DEF IInv
<1> QED
  BY <1>3, <1>4 DEF IInv

LEMMA EndedIsReported ==
  ASSUME Reported
  PROVE  ~ Running
BY NullAssumption DEF Reported, Running

LEMMA StepInv == IInv /\ [Next]_vars => IInv'
<1>1. SUFFICES ASSUME IInv, [Next]_vars PROVE IInv'
  OBVIOUS
<1>2. History /\ (Running => Collecting)
  BY <1>1, EndedIsReported DEF IInv
<1>3. ASSUME NEW b \in Blocks, HandleTbTranslateData(b) PROVE IInv'
  <2>1. Running
    BY <1>3 DEF HandleTbTranslateData
  <2> QED
    BY <1>2, <1>3, <2>1, TranslateInv
<1>4. ASSUME NEW a \in MemAccesses, MemaccessDataCb(a) PROVE IInv'
  <2>1. Running
    BY <1>4 DEF MemaccessDataCb
  <2> QED
    BY <1>2, <1>4, <2>1, AccessInv
<1>5. CASE EndDump
  <2>1. Running
    BY <1>5 DEF EndDump
  <2> QED
    BY <1>2, <1>5, <2>1, EndInv
<1>6. CASE Terminated
  BY <1>1, <1>6, UnchangedInv DEF Terminated
<1>7. CASE UNCHANGED vars
  BY <1>1, <1>7, UnchangedInv
<1> QED
  BY <1>1, <1>3, <1>4, <1>5, <1>6, <1>7 DEF Next

(* The inductive invariant holds of every reachable state. *)
THEOREM InvHolds == Spec => []IInv
<1>1. Init => IInv
  BY InitInv
<1>2. IInv /\ [Next]_vars => IInv'
  BY StepInv
<1> QED
  BY <1>1, <1>2, PTL DEF Spec

-----------------------------------------------------------------------------
LEMMA TypeFollows == IInv => TypeOK
<1>1. SUFFICES ASSUME IInv PROVE TypeOK
  OBVIOUS
<1>2. History
  BY <1>1 DEF IInv
<1>3. accesses \in [MemAccesses -> 0 .. MaxAccesses]
  <2>1. accesses \in [MemAccesses -> Nat] /\ Sum(accesses) <= MaxAccesses
    BY <1>2 DEF History
  <2>2. Sum(accesses) \in Nat
    BY <2>1, GuestAssumption, SumNat
  <2>3. ASSUME NEW x \in MemAccesses PROVE accesses[x] \in 0 .. MaxAccesses
    <3>1. accesses[x] \in Nat /\ accesses[x] <= Sum(accesses)
      BY <2>1, GuestAssumption, SumAtLeast
    <3> QED
      BY <2>1, <2>2, <3>1, WidthAssumption
  <2> QED
    BY <2>1, <2>3
<1>4. CASE Collecting
  <2>1. tb_infos \in Seq(TbRecord) /\ TbStems(tb_infos, translated)
    BY <1>4 DEF Collecting, TbPart
  <2>2. PICK h, u, at : Sound(tb_tree, Len(tb_infos), h, u, at)
    BY <1>4 DEF Collecting, TbPart, TbTable
  <2>3. mem_infos \in Seq(MemInfo)
    BY <1>4 DEF Collecting, MemPart
  <2>4. PICK h2, u2, at2 : Sound(mem_tree, Len(mem_infos), h2, u2, at2)
    BY <1>4 DEF Collecting, MemPart, MemTable
  <2>5. \A p \in DOMAIN tb_infos : \E b \in translated : tb_infos[p] = TbInfo(b)
    BY <2>1, SeqIs DEF TbStems
  <2>6. \A p \in DOMAIN mem_infos : mem_infos[p] \in MemInfo
    BY <2>3, SeqIs
  <2>7. Len(tb_infos) = Len(tb_tree.balance)
    <3>1. PICK n \in Nat : n = Len(tb_infos)
      BY <2>1, SeqIs
    <3>2. tb_tree.balance \in [1 .. n -> Int]
      BY <2>2, <3>1 DEF Sound, Shape
    <3> QED
      BY <3>1, <3>2, LenIs
  <2>8. Len(mem_infos) = Len(mem_tree.balance)
    <3>1. PICK n \in Nat : n = Len(mem_infos)
      BY <2>3, SeqIs
    <3>2. mem_tree.balance \in [1 .. n -> Int]
      BY <2>4, <3>1 DEF Sound, Shape
    <3> QED
      BY <3>1, <3>2, LenIs
  <2> QED
    BY <1>2, <1>3, <2>5, <2>6, <2>7, <2>8 DEF TypeOK, History
<1>5. CASE Reported
  <2>1. DOMAIN tb_infos = {} /\ DOMAIN mem_infos = {}
    <3>1. tb_infos \in Seq(TbRecord) /\ Len(tb_infos) = 0
      BY <1>5, EmptySeq DEF Reported
    <3>2. mem_infos \in Seq(MemInfo) /\ Len(mem_infos) = 0
      BY <1>5, EmptySeq DEF Reported
    <3>3. 1 .. 0 = {}
      OBVIOUS
    <3> QED
      BY <3>1, <3>2, <3>3, SeqIs
  <2>2. tb_tree.balance = <<>> /\ mem_tree.balance = <<>>
    BY <1>5 DEF Reported, avl_create
  <2>3. tb_infos = <<>> /\ mem_infos = <<>>
    BY <1>5 DEF Reported
  <2> QED
    BY <1>2, <1>3, <2>1, <2>2, <2>3 DEF TypeOK, History
<1> QED
  BY <1>1, <1>4, <1>5 DEF IInv

(* The tables of DataCollection are well formed in every reachable state:  *)
(* each list has as many records as its tree has nodes, every record of a  *)
(* block stems from a translation (add_tb_info) and every access counter   *)
(* is positive (memaccess_data_cb).                                        *)
THEOREM TypeCorrect == Spec => []TypeOK
<1>1. IInv => TypeOK
  BY TypeFollows
<1> QED
  BY <1>1, InvHolds, PTL

LEMMA TreesFollow == IInv => TreesSound
<1>1. SUFFICES ASSUME IInv PROVE TreesSound
  OBVIOUS
<1>2. /\ tb_infos \in Seq(TbRecord) /\ mem_infos \in Seq(MemInfo)
      /\ \E h, u, at : Sound(tb_tree, Len(tb_infos), h, u, at)
      /\ \E h, u, at : Sound(mem_tree, Len(mem_infos), h, u, at)
  <2>1. CASE Collecting
    <3>1. tb_infos \in Seq(TbRecord) /\ \E h, u, at : Sound(tb_tree, Len(tb_infos), h, u, at)
      BY <2>1 DEF Collecting, TbPart, TbTable
    <3>2. mem_infos \in Seq(MemInfo) /\ \E h, u, at : Sound(mem_tree, Len(mem_infos), h, u, at)
      BY <2>1 DEF Collecting, MemPart, MemTable
    <3> QED
      BY <3>1, <3>2
  <2>2. CASE Reported
    <3>1. /\ tb_infos = <<>> /\ mem_infos = <<>>
          /\ tb_tree = avl_create /\ mem_tree = avl_create
      BY <2>2 DEF Reported
    <3>2. tb_infos \in Seq(TbRecord) /\ Len(tb_infos) = 0
      BY <3>1, EmptySeq
    <3>3. mem_infos \in Seq(MemInfo) /\ Len(mem_infos) = 0
      BY <3>1, EmptySeq
    <3>4. \E h, u, at : Sound(avl_create, 0, h, u, at)
      BY NoneSound
    <3> QED
      BY <3>1, <3>2, <3>3, <3>4
  <2> QED
    BY <1>1, <2>1, <2>2 DEF IInv
<1>3. Balanced(tb_tree) /\ Reached(tb_tree) \ {0} = DOMAIN tb_infos
  <2>1. PICK h, u, at : Sound(tb_tree, Len(tb_infos), h, u, at)
    BY <1>2
  <2>2. Len(tb_infos) \in Nat /\ DOMAIN tb_infos = 1 .. Len(tb_infos)
    BY <1>2, SeqIs
  <2> QED
    BY <2>1, <2>2, SoundTree
<1>4. Balanced(mem_tree) /\ Reached(mem_tree) \ {0} = DOMAIN mem_infos
  <2>1. PICK h, u, at : Sound(mem_tree, Len(mem_infos), h, u, at)
    BY <1>2
  <2>2. Len(mem_infos) \in Nat /\ DOMAIN mem_infos = 1 .. Len(mem_infos)
    BY <1>2, SeqIs
  <2> QED
    BY <2>1, <2>2, SoundTree
<1> QED
  BY <1>3, <1>4 DEF TreesSound

(* However many blocks and accesses there are, and whatever the truncated  *)
(* comparison of mem_comparison_func answers, avl_probe keeps both trees   *)
(* balanced and loses no record.                                           *)
THEOREM TreesStaySound == Spec => []TreesSound
<1>1. IInv => TreesSound
  BY TreesFollow
<1> QED
  BY <1>1, InvHolds, PTL

LEMMA RecordsAre ==
  ASSUME IInv
  PROVE  /\ TbDone(TbRecords, translated, tb_info_enabled)
         /\ MemDone(accesses, MemRecords)
<1>1. CASE Collecting
  <2>1. TbRecords = tb_infos /\ MemRecords = mem_infos
    BY <1>1 DEF Collecting, Running, TbRecords, MemRecords
  <2>2. TbDone(tb_infos, translated, tb_info_enabled)
    BY <1>1 DEF Collecting, TbPart, TbTable, TbDone
  <2>3. MemDone(accesses, mem_infos)
    BY <1>1 DEF Collecting, MemPart, MemTable, MemDone
  <2> QED
    BY <2>1, <2>2, <2>3
<1>2. CASE Reported
  <2>1. TbRecords = message.tb_informations /\ MemRecords = message.mem_infos
    BY <1>2, EndedIsReported DEF TbRecords, MemRecords
  <2> QED
    BY <1>2, <2>1 DEF Reported
<1> QED
  BY <1>1, <1>2 DEF IInv

LEMMA OneRecordFollows == IInv => OneRecordPerBlock
<1>1. SUFFICES ASSUME IInv, NEW b \in translated, tb_info_enabled
               PROVE  Cardinality({p \in DOMAIN TbRecords : TbRecords[p].base = b.base}) = 1
  BY DEF OneRecordPerBlock
<1>2. PICK L : L = TbRecords
  OBVIOUS
<1>3. L \in Seq(TbRecord) /\ BasesDiffer(L, Len(L)) /\ TbCovers(L, translated)
  BY <1>1, <1>2, RecordsAre DEF TbDone
<1>4. DOMAIN L = 1 .. Len(L)
  BY <1>3, SeqIs
<1>5. PICK p \in 1 .. Len(L) : L[p].base = b.base
  BY <1>1, <1>3 DEF TbCovers
<1>6. {q \in DOMAIN L : L[q].base = b.base} = {p}
  BY <1>3, <1>4, <1>5 DEF BasesDiffer
<1> QED
  BY <1>2, <1>6, FS_Singleton

(* With tb_info on, every translated base address has exactly one record   *)
(* in the list, and later in the message: add_tb_info finds a block again  *)
(* by its base through the AVL tree, however large that is.                *)
THEOREM OneRecordEach == Spec => []OneRecordPerBlock
<1>1. IInv => OneRecordPerBlock
  BY OneRecordFollows
<1> QED
  BY <1>1, InvHolds, PTL

LEMMA NoneLostFollows == IInv => NoAccessLost
<1>1. SUFFICES ASSUME IInv PROVE NoAccessLost
  OBVIOUS
<1>2. MemRecords \in Seq(MemInfo) /\ Sum(Counters(MemRecords)) = Sum(accesses)
  BY <1>1, RecordsAre DEF MemDone
<1>0. PICK n \in Nat : MemRecords \in [1 .. n -> MemInfo]
  BY <1>2, SeqIs
<1>3. PICK L : L = MemRecords /\ L \in [1 .. n -> MemInfo]
  BY <1>0
<1>4. FoldSeq(LAMBDA r, m : r.counter + m, 0, L) = Sum(Counters(L))
  BY <1>3, SumOfCounters
<1> QED
  BY <1>2, <1>3, <1>4 DEF NoAccessLost, Sum

(* memaccess_data_cb counts every access once, in some record, and the     *)
(* message reports them all, even where mem_comparison_func confuses       *)
(* addresses.                                                              *)
THEOREM NoneLost == Spec => []NoAccessLost
<1>1. IInv => NoAccessLost
  BY NoneLostFollows
<1> QED
  BY <1>1, InvHolds, PTL

LEMMA CountsFollow == IInv => CountsExact
<1>1. SUFFICES ASSUME IInv, NEW a \in Happened,
                      Spread({x.ins : x \in Happened}),
                      Spread({x.mem : x \in {y \in Happened : y.ins = a.ins}})
               PROVE  \E p \in DOMAIN MemRecords :
                        /\ {q \in DOMAIN MemRecords : MemRecords[q].ins = a.ins
                                                      /\ MemRecords[q].mem = a.mem} = {p}
                        /\ MemRecords[p].counter = AccessCount(a.ins, a.mem)
  BY DEF CountsExact
<1>2. a \in Did(accesses) /\ Apart(accesses, a.ins)
  BY <1>1 DEF Did, Happened, Apart
<1>3. PICK L : L = MemRecords
  OBVIOUS
<1>4. L \in Seq(MemInfo) /\ Exact(accesses, L, Len(L))
  BY <1>1, <1>3, RecordsAre DEF MemDone
<1>5. DOMAIN L = 1 .. Len(L)
  BY <1>4, SeqIs
<1>6. PICK p : OnlyAt(L, Len(L), a, p) /\ L[p].counter = CountOf(accesses, a.ins, a.mem)
  BY <1>2, <1>4 DEF Exact
<1>7. p \in DOMAIN L /\ {q \in DOMAIN L : L[q].ins = a.ins /\ L[q].mem = a.mem} = {p}
  BY <1>5, <1>6 DEF OnlyAt, SameKey
<1>8. CountOf(accesses, a.ins, a.mem) = AccessCount(a.ins, a.mem)
  BY DEF CountOf, AccessCount, OfKey, Sum
<1> QED
  BY <1>3, <1>6, <1>7, <1>8

(* Where an int can tell the addresses apart, the counter of an            *)
(* instruction and a memory address is the number of their accesses, in    *)
(* one record: the index of memaccess_data_cb is then exact.               *)
THEOREM CountsAreExact == Spec => []CountsExact
<1>1. IInv => CountsExact
  BY CountsFollow
<1> QED
  BY <1>1, InvHolds, PTL

-----------------------------------------------------------------------------
(* The worker's search for an access's block. *)
Within(ins, r) == r.base < ins /\ ins < r.base + r.size

LEMMA TbidIs ==
  ASSUME NEW list \in Seq(TbRecord), NEW ins \in Nat
  PROVE  \/ /\ Tbid(ins, list) = 0
            /\ \A k \in 1 .. Len(list) : ~ Within(ins, list[k])
         \/ \E k \in 1 .. Len(list) : Tbid(ins, list) = list[k].base /\ Within(ins, list[k])
<1> DEFINE S == {i \in DOMAIN list : ins > list[i].base /\ ins < list[i].base + list[i].size}
           k == CHOOSE i \in S : \A j \in S : i <= j
<1>1. DOMAIN list = 1 .. Len(list) /\ list \in [1 .. Len(list) -> TbRecord]
  BY SeqIs
<1>2. Tbid(ins, list) = IF S = {} THEN 0 ELSE list[k].base
  BY DEF Tbid
<1>3. \A i \in 1 .. Len(list) : i \in S <=> Within(ins, list[i])
  <2>1. SUFFICES ASSUME NEW i \in 1 .. Len(list) PROVE i \in S <=> Within(ins, list[i])
    OBVIOUS
  <2>2. list[i].base \in Nat
    BY <1>1 DEF TbRecord
  <2> QED
    BY <1>1, <2>2 DEF Within
<1>4. CASE S = {}
  BY <1>2, <1>3, <1>4
<1>5. CASE S # {}
  <2>1. S \subseteq Nat /\ S \subseteq 1 .. Len(list)
    BY <1>1
  <2>2. \E i \in S : \A j \in S : i <= j
    <3> HIDE DEF S
    <3> QED
      BY <1>5, <2>1, Smallest
  <2>3. k \in S
    BY <2>2
  <2> QED
    BY <1>2, <1>3, <1>5, <2>1, <2>3
<1> QED
  BY <1>4, <1>5

LEMMA WithinStem ==
  ASSUME NEW b \in Blocks, NEW ins \in Nat
  PROVE  Within(ins, TbInfo(b)) <=> PastFirst(ins, b)
BY GuestAssumption DEF Within, PastFirst, TbInfo, calculate_bytesize_instructions

LEMMA Placed ==
  ASSUME NEW list, NEW T, T \subseteq Blocks, TbDone(list, T, TRUE), NEW ins \in Nat,
         NEW Held, Held = {b \in T : PastFirst(ins, b)}
  PROVE  /\ Tbid(ins, list) # 0 => \E b \in Held : Tbid(ins, list) = b.base
         /\ /\ \E b \in Held : \A c \in T : c.base = b.base => c = b
            /\ \A b \in Held : b.base # 0
            => Tbid(ins, list) # 0
<1>1. list \in Seq(TbRecord) /\ TbStems(list, T) /\ TbCovers(list, T)
  BY DEF TbDone
<1>2. ASSUME NEW k \in 1 .. Len(list)
      PROVE  \E b \in T : /\ list[k] = TbInfo(b) /\ list[k].base = b.base
                          /\ Within(ins, list[k]) <=> b \in Held
  <2>1. PICK b \in T : list[k] = TbInfo(b)
    BY <1>1 DEF TbStems
  <2>2. b \in Blocks
    OBVIOUS
  <2>3. list[k].base = b.base
    BY <2>1, <2>2, TbInfoIs
  <2>4. Within(ins, list[k]) <=> PastFirst(ins, b)
    BY <2>1, <2>2, WithinStem
  <2> QED
    BY <2>1, <2>3, <2>4
<1>3. CASE \E k \in 1 .. Len(list) : Tbid(ins, list) = list[k].base /\ Within(ins, list[k])
  <2>1. PICK k \in 1 .. Len(list) : Tbid(ins, list) = list[k].base /\ Within(ins, list[k])
    BY <1>3
  <2>2. PICK b \in Held : list[k].base = b.base
    BY <1>2, <2>1
  <2> QED
    BY <2>1, <2>2
<1>4. CASE Tbid(ins, list) = 0 /\ \A k \in 1 .. Len(list) : ~ Within(ins, list[k])
  <2>1. SUFFICES ASSUME NEW b \in Held, \A c \in T : c.base = b.base => c = b
                 PROVE  FALSE
    BY <1>4
  <2>2. PICK k \in 1 .. Len(list) : list[k].base = b.base
    BY <1>1 DEF TbCovers
  <2>3. PICK c \in T : c.base = b.base /\ (Within(ins, list[k]) <=> c \in Held)
    BY <1>2, <2>2
  <2>4. c = b
    BY <2>1, <2>3
  <2> QED
    BY <1>4, <2>3, <2>4
<1> QED
  BY <1>1, <1>3, <1>4, TbidIs

LEMMA PlacedFollows == IInv => AccessesPlaced
<1>1. SUFFICES ASSUME IInv, ~ Running, tb_info_enabled PROVE AccessesPlaced
  BY DEF AccessesPlaced
<1>2. PICK tbs, mems : tbs = message.tb_informations /\ mems = message.mem_infos
  OBVIOUS
<1>3. mems \in Seq(MemInfo) /\ TbDone(tbs, translated, TRUE) /\ translated \subseteq Blocks
  <2>1. Reported /\ History
    BY <1>1 DEF IInv, Collecting, Running
  <2> QED
    BY <1>1, <1>2, <2>1 DEF Reported, History, MemDone
<1>4. PICK meminfo : meminfo = ReadoutData(message).meminfo
  OBVIOUS
<1>5. /\ DOMAIN meminfo = DOMAIN mems
      /\ \A i \in DOMAIN mems : /\ meminfo[i].tbid = Tbid(mems[i].ins, tbs)
                                /\ meminfo[i].info.ins = mems[i].ins
  BY <1>2, <1>4 DEF ReadoutData
<1>6. ASSUME NEW i \in DOMAIN meminfo, NEW Held,
             Held = {b \in translated : PastFirst(meminfo[i].info.ins, b)}
      PROVE  /\ meminfo[i].tbid # 0 => \E b \in Held : meminfo[i].tbid = b.base
             /\ (\E b \in Held : OnlyExtent(b)) /\ (\A b \in Held : b.base # 0)
                  => meminfo[i].tbid # 0
  <2>1. mems[i].ins \in Nat
    <3>1. mems \in [1 .. Len(mems) -> MemInfo] /\ DOMAIN mems = 1 .. Len(mems)
      BY <1>3, SeqIs
    <3>2. mems[i] \in MemInfo
      BY <1>5, <1>6, <3>1
    <3> QED
      BY <3>2 DEF MemInfo
  <2>2. PICK ins \in Nat : ins = mems[i].ins
    BY <2>1
  <2>3. meminfo[i].tbid = Tbid(ins, tbs) /\ Held = {b \in translated : PastFirst(ins, b)}
    BY <1>5, <1>6, <2>2
  <2>4. /\ Tbid(ins, tbs) # 0 => \E b \in Held : Tbid(ins, tbs) = b.base
        /\ /\ \E b \in Held : \A c \in translated : c.base = b.base => c = b
           /\ \A b \in Held : b.base # 0
           => Tbid(ins, tbs) # 0
    BY <1>3, <2>3, Placed
  <2> QED
    BY <2>3, <2>4 DEF OnlyExtent
<1> QED
  BY <1>4, <1>6 DEF AccessesPlaced

(* The worker gives an access whose instruction lies past the first of a   *)
(* block, translated with that extent only, a block, and always one that   *)
(* was translated with the instruction (connect_meminfo_tb), however the   *)
(* blocks overlap.                                                         *)
THEOREM AccessesArePlaced == Spec => []AccessesPlaced
<1>1. IInv => AccessesPlaced
  BY PlacedFollows
<1> QED
  BY <1>1, InvHolds, PTL

=============================================================================
