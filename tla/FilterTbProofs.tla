---------------------------- MODULE FilterTbProofs ----------------------------
(***************************************************************************)
(* Proofs about FilterTb and GoldenRun, which it extends, for any code of  *)
(* the guest, any golden run and any experiment.                           *)
(*                                                                         *)
(* First filter_tb.  The lists are described by their places: an entry     *)
(* that filter_tb drops lies behind the first of a window of the record    *)
(* that agrees with the code of a block, and within such a window every    *)
(* entry is the instruction behind the one before.                         *)
(*                                                                         *)
(* Then the triggers and wildcards.  Each block of the golden run has its  *)
(* place in the trace, so that the executions of an instruction correspond *)
(* to the blocks recorded that have it; and trigger_hitcounter, although   *)
(* it only compares where blocks begin and end, counts just these.         *)
(***************************************************************************)
EXTENDS FilterTb, SequenceTheorems, FiniteSetTheorems, TLAPS

LEMMA Smallest ==
  ASSUME NEW T, T \subseteq Nat, T # {}
  PROVE  \E x \in T : \A y \in T : x <= y
<1> DEFINE R == StrictSubsetOrdering(Nat)
           U == {0 .. x : x \in T}
<1>1. IsWellFoundedOn(R, FiniteSubsetsOf(Nat))
  BY FS_StrictSubsetOrderingWellFounded
<1>2. U \subseteq FiniteSubsetsOf(Nat) /\ U # {}
  <2>1. \A x \in T : 0 .. x \in SUBSET Nat /\ IsFiniteSet(0 .. x)
    BY FS_Interval
  <2> QED
    BY <2>1 DEF FiniteSubsetsOf
<1>3. \E u \in U : \A w \in U : <<w, u>> \notin R
  <2> HIDE DEF R, U
  <2> QED
    BY <1>1, <1>2, WFMin
<1>4. PICK x \in T : \A y \in T : <<0 .. y, 0 .. x>> \notin R
  BY <1>3
<1>5. ASSUME NEW y \in T, y < x PROVE FALSE
  <2>1. 0 .. y \in SUBSET Nat /\ 0 .. x \in SUBSET Nat /\ 0 .. y \subseteq 0 .. x
    BY <1>5
  <2>2. x \in 0 .. x /\ x \notin 0 .. y
    BY <1>5
  <2> QED
    BY <1>4, <2>1, <2>2 DEF StrictSubsetOrdering
<1> QED
  BY <1>5

(* Among finite sets one has the fewest elements. *)
LEMMA FewestElements ==
  ASSUME NEW T, T # {}, \A s \in T : IsFiniteSet(s)
  PROVE  \E s \in T : \A r \in T : Cardinality(s) <= Cardinality(r)
<1> DEFINE C == {Cardinality(s) : s \in T}
<1>1. C \subseteq Nat /\ C # {}
  BY FS_CardinalityType
<1> HIDE DEF C
<1>2. PICK c \in C : \A d \in C : c <= d
  BY <1>1, Smallest
<1> QED
  BY <1>2 DEF C

LEMMA OneFewer ==
  ASSUME NEW s, IsFiniteSet(s), NEW x \in s
  PROVE  /\ IsFiniteSet(s \ {x}) /\ Cardinality(s \ {x}) = Cardinality(s) - 1
         /\ Cardinality(s) \in Nat \ {0} /\ ~ (Cardinality(s) <= Cardinality(s \ {x}))
<1>1. IsFiniteSet(s \ {x}) /\ Cardinality(s \ {x}) = Cardinality(s) - 1
  BY FS_RemoveElement
<1>2. Cardinality(s) \in Nat /\ Cardinality(s \ {x}) \in Nat
  BY <1>1, FS_CardinalityType
<1>3. Cardinality(s) # 0
  BY FS_EmptySet
<1> QED
  BY <1>1, <1>2, <1>3

-----------------------------------------------------------------------------
(* The elements of a set of numbers in order.                              *)
Rank(S, i) == Cardinality({k \in S : k <= i})

RankedBy(S, j) == \E i \in S : Rank(S, i) = j

LEMMA RankIs ==
  ASSUME NEW S, IsFiniteSet(S), S \subseteq Nat
  PROVE  /\ \A i \in S : Rank(S, i) \in 1 .. Cardinality(S)
         /\ \A i, k \in S : i < k => Rank(S, i) < Rank(S, k)
<1>1. ASSUME NEW i \in S PROVE Rank(S, i) \in 1 .. Cardinality(S)
  <2> DEFINE L == {k \in S : k <= i}
  <2>1. L \in SUBSET S /\ i \in L
    OBVIOUS
  <2> HIDE DEF L
  <2>2. IsFiniteSet(L) /\ Cardinality(L) <= Cardinality(S)
    BY <2>1, FS_Subset
  <2>3. Cardinality(L) \in Nat \ {0} /\ Cardinality(S) \in Nat
    BY <2>1, <2>2, OneFewer
  <2>4. Rank(S, i) = Cardinality(L)
    BY DEF Rank, L
  <2> QED
    BY <2>2, <2>3, <2>4
<1>2. ASSUME NEW i \in S, NEW k \in S, i < k PROVE Rank(S, i) < Rank(S, k)
  <2> DEFINE L == {x \in S : x <= i}
             M == {x \in S : x <= k}
  <2>1. L \in SUBSET (M \ {k}) /\ M \in SUBSET S /\ k \in M
    <3>1. \A x \in S : x <= i => x <= k /\ x # k
      BY <1>2
    <3>2. k <= k
      OBVIOUS
    <3> QED
      BY <3>1, <3>2
  <2>0. Rank(S, i) = Cardinality(L) /\ Rank(S, k) = Cardinality(M)
    BY DEF Rank
  <2> HIDE DEF L, M
  <2>2. IsFiniteSet(M)
    BY <2>1, FS_Subset
  <2>3. IsFiniteSet(M \ {k}) /\ Cardinality(M \ {k}) = Cardinality(M) - 1 /\ Cardinality(M) \in Nat
    BY <2>1, <2>2, OneFewer
  <2>4. IsFiniteSet(L) /\ Cardinality(L) <= Cardinality(M \ {k})
    BY <2>1, <2>3, FS_Subset
  <2>5. Cardinality(L) \in Nat
    BY <2>4, FS_CardinalityType
  <2> QED
    BY <2>0, <2>3, <2>4, <2>5
<1> QED
  BY <1>1, <1>2

(* One element has each rank: take out the smallest. *)
LEMMA RankOnto ==
  ASSUME NEW S, IsFiniteSet(S), S \subseteq Nat, NEW j \in 1 .. Cardinality(S)
  PROVE  RankedBy(S, j)
<1> DEFINE T == {s \in SUBSET S : \E x \in 1 .. Cardinality(s) : ~ RankedBy(s, x)}
<1>1. SUFFICES ASSUME T # {} PROVE FALSE
  OBVIOUS
<1>2. \A s \in T : IsFiniteSet(s)
  BY FS_Subset
<1>3. PICK s \in T : \A r \in T : Cardinality(s) <= Cardinality(r)
  <2> HIDE DEF T
  <2> QED
    BY <1>1, <1>2, FewestElements
<1>4. PICK x \in 1 .. Cardinality(s) : ~ RankedBy(s, x)
  BY <1>3
<1>5. s \in SUBSET S /\ IsFiniteSet(s) /\ s # {} /\ s \subseteq Nat
  BY <1>2, <1>3, <1>4, FS_EmptySet
<1>6. PICK m \in s : \A y \in s : m <= y
  BY <1>5, Smallest
<1>7. PICK r : r = s \ {m}
  OBVIOUS
<1>8. /\ IsFiniteSet(r) /\ Cardinality(r) = Cardinality(s) - 1 /\ Cardinality(s) \in Nat \ {0}
      /\ ~ (Cardinality(s) <= Cardinality(r))
  BY <1>5, <1>6, <1>7, OneFewer
<1>9. r \in SUBSET S /\ r \notin T
  BY <1>3, <1>5, <1>7, <1>8
<1>10. \A y \in 1 .. Cardinality(r) : RankedBy(r, y)
  BY <1>9
<1> HIDE DEF T
<1>11. Rank(s, m) = 1
  <2>1. {k \in s : k <= m} = {m}
    <3>1. \A k \in s : k <= m => k = m
      BY <1>5, <1>6
    <3>2. m <= m
      BY <1>5
    <3> QED
      BY <3>1, <3>2
  <2> QED
    BY <2>1, FS_Singleton DEF Rank
<1>12. ASSUME NEW i \in r PROVE Rank(s, i) = Rank(r, i) + 1
  <2> DEFINE L == {k \in r : k <= i}
             M == {k \in s : k <= i}
  <2>1. L \in SUBSET r
    OBVIOUS
  <2>2. M = L \cup {m} /\ m \notin L
    BY <1>5, <1>6, <1>7
  <2>0. Rank(s, i) = Cardinality(M) /\ Rank(r, i) = Cardinality(L)
    BY DEF Rank
  <2> HIDE DEF L, M
  <2>3. IsFiniteSet(L)
    BY <1>8, <2>1, FS_Subset
  <2>4. Cardinality(L \cup {m}) = Cardinality(L) + 1
    BY <2>2, <2>3, FS_AddElement
  <2> QED
    BY <2>0, <2>2, <2>4
<1>13. CASE x = 1
  BY <1>4, <1>6, <1>11, <1>13 DEF RankedBy
<1>14. CASE x # 1
  <2>1. x - 1 \in 1 .. Cardinality(r) /\ x \in Nat
    BY <1>4, <1>8, <1>14
  <2>2. PICK i \in r : Rank(r, i) = x - 1
    BY <1>10, <2>1 DEF RankedBy
  <2>3. Rank(s, i) = x /\ i \in s
    BY <1>7, <1>12, <2>1, <2>2
  <2> QED
    BY <1>4, <2>3 DEF RankedBy
<1> QED
  BY <1>13, <1>14

(* What Sorted returns: every element once, in order. *)
Ascends(s, n) == \A j, k \in 1 .. n : j < k <=> s[j] < s[k]

LEMMA SortedIs ==
  ASSUME NEW S, IsFiniteSet(S), S \subseteq Nat
  PROVE  /\ Cardinality(S) \in Nat
         /\ Sorted(S) \in [1 .. Cardinality(S) -> S]
         /\ \A j \in 1 .. Cardinality(S) : Rank(S, Sorted(S)[j]) = j
         /\ \A i \in S : Rank(S, i) \in 1 .. Cardinality(S) /\ Sorted(S)[Rank(S, i)] = i
         /\ Ascends(Sorted(S), Cardinality(S))
<1> DEFINE n == Cardinality(S)
           F(j) == CHOOSE i \in S : Rank(S, i) = j
<1>0. n \in Nat
  BY FS_CardinalityType
<1>5. Sorted(S) = [j \in 1 .. n |-> F(j)]
  BY DEF Sorted, Rank
<1>6. /\ \A i \in S : Rank(S, i) \in 1 .. n
      /\ \A i, k \in S : i < k => Rank(S, i) < Rank(S, k)
  BY RankIs
<1>1. ASSUME NEW j \in 1 .. n
      PROVE  Sorted(S)[j] \in S /\ Rank(S, Sorted(S)[j]) = j
  <2>1. \E i \in S : Rank(S, i) = j
    BY RankOnto DEF RankedBy
  <2>2. F(j) \in S /\ Rank(S, F(j)) = j
    BY <2>1
  <2> HIDE DEF n, F
  <2> QED
    BY <1>5, <2>2
<1> HIDE DEF n, F
<1>2. Sorted(S) \in [1 .. n -> S]
  BY <1>1, <1>5
<1>3. ASSUME NEW i \in S PROVE Rank(S, i) \in 1 .. n /\ Sorted(S)[Rank(S, i)] = i
  <2>1. Rank(S, i) \in 1 .. n
    BY <1>6
  <2>2. PICK k \in S : k = Sorted(S)[Rank(S, i)] /\ Rank(S, k) = Rank(S, i)
    BY <1>1, <2>1
  <2>3. ~ (i < k) /\ ~ (k < i)
    BY <1>0, <1>6, <2>1, <2>2
  <2>4. i = k
    BY <2>3
  <2> QED
    BY <2>1, <2>2, <2>4
<1>4. Ascends(Sorted(S), n)
  <2>1. ASSUME NEW j \in 1 .. n, NEW k \in 1 .. n PROVE j < k <=> Sorted(S)[j] < Sorted(S)[k]
    <3>1. PICK a \in S, b \in S : /\ a = Sorted(S)[j] /\ b = Sorted(S)[k]
                                  /\ Rank(S, a) = j /\ Rank(S, b) = k
      BY <1>1
    <3>2. (a < b => j < k) /\ (b < a => k < j)
      BY <1>6, <3>1
    <3>3. a \in Nat /\ b \in Nat /\ (a = b => j = k)
      BY <3>1
    <3>4. j \in Nat /\ k \in Nat
      BY <1>0
    <3> QED
      BY <3>1, <3>2, <3>3, <3>4
  <2> QED
    BY <2>1 DEF Ascends
<1> QED
  BY <1>0, <1>1, <1>2, <1>3, <1>4 DEF n

LEMMA Largest ==
  ASSUME NEW S, IsFiniteSet(S), S \subseteq Nat, S # {}
  PROVE  \E m \in S : \A x \in S : x <= m
<1>1. PICK n, s : n = Cardinality(S) /\ s = Sorted(S)
  OBVIOUS
<1>2. n \in Nat \ {0}
  BY <1>1, FS_CardinalityType, FS_EmptySet
<1>3. /\ s \in [1 .. n -> S] /\ Ascends(s, n)
      /\ \A i \in S : Rank(S, i) \in 1 .. n /\ s[Rank(S, i)] = i
  BY <1>1, SortedIs
<1>4. s[n] \in S
  BY <1>2, <1>3
<1>5. ASSUME NEW x \in S PROVE x <= s[n]
  <2>1. PICK j \in 1 .. n : s[j] = x
    BY <1>3
  <2>2. CASE j = n
    BY <1>4, <2>1, <2>2
  <2>3. CASE j < n
    <3>1. s[j] < s[n]
      BY <1>2, <1>3, <2>3 DEF Ascends
    <3>2. x \in Nat /\ s[n] \in Nat
      BY <1>4
    <3> QED
      BY <2>1, <3>1, <3>2
  <2> QED
    BY <1>2, <2>1, <2>2, <2>3
<1> QED
  BY <1>4, <1>5

-----------------------------------------------------------------------------
(* The code of a block: one instruction behind the other up to a branch.   *)
Behind(i, k) == i \notin Branches /\ k = i + InsnSize[i]

BlockCode(f, n, b) ==
  /\ n \in Nat \ {0} /\ f \in [1 .. n -> Insns]
  /\ Ascends(f, n)
  /\ f[1] = b /\ f[n] \in Branches
  /\ \A j \in 1 .. n : j # n => Behind(f[j], f[j + 1])

LEMMA BranchAhead ==
  ASSUME NEW b \in Insns
  PROVE  /\ LastInsn(b) \in Branches /\ b <= LastInsn(b)
         /\ \A r \in Branches : b <= r => LastInsn(b) <= r
<1> DEFINE S == {i \in Insns : b <= i}
           R == {r \in Branches : b <= r}
           T == {r \in Branches : r >= b}
<1>1. IsFiniteSet(S) /\ S \subseteq Nat /\ b \in S
  <2>1. S \in SUBSET Insns /\ IsFiniteSet(Insns) /\ Insns \subseteq Nat
    BY CodeAssumption
  <2>2. b <= b
    BY <2>1
  <2> HIDE DEF S
  <2>3. IsFiniteSet(S)
    BY <2>1, FS_Subset
  <2> QED
    BY <2>1, <2>2, <2>3 DEF S
<1>2. PICK m \in S : \A x \in S : x <= m
  <2> HIDE DEF S
  <2> QED
    BY <1>1, Largest
<1>3. m \in Branches
  <2> SUFFICES ASSUME m \notin Branches PROVE FALSE
    OBVIOUS
  <2>1. m \in Nat /\ b \in Nat /\ InsnSize[m] \in Nat \ {0} /\ m + InsnSize[m] \in Insns
    BY <1>1, CodeAssumption
  <2>2. m + InsnSize[m] \in S
    BY <1>2, <2>1
  <2> QED
    BY <1>2, <2>1, <2>2
<1>4. R \subseteq Nat /\ R # {}
  BY <1>2, <1>3, CodeAssumption
<1>5. T = R
  BY CodeAssumption
<1> HIDE DEF R, S
<1>6. PICK l \in R : \A x \in R : l <= x
  BY <1>4, Smallest
<1>7. LastInsn(b) = Min(R)
  BY <1>5 DEF LastInsn
<1>8. Min(R) \in R /\ \A x \in R : Min(R) <= x
  BY <1>6 DEF Min
<1> QED
  BY <1>7, <1>8 DEF R

LEMMA BodyIs ==
  ASSUME NEW b \in Insns
  PROVE  /\ IsFiniteSet(Body(b)) /\ Body(b) \subseteq Insns /\ Body(b) \subseteq Nat
         /\ b \in Body(b) /\ LastInsn(b) \in Body(b)
         /\ \A i \in Body(b) : b <= i /\ i <= LastInsn(b)
<1>1. Body(b) \in SUBSET Insns /\ Insns \subseteq Nat /\ Branches \subseteq Insns
  BY CodeAssumption DEF Body
<1>2. IsFiniteSet(Body(b))
  BY <1>1, CodeAssumption, FS_Subset
<1>3. LastInsn(b) \in Branches /\ b <= LastInsn(b)
  BY BranchAhead
<1>4. b <= b /\ LastInsn(b) <= LastInsn(b)
  <2>1. b \in Nat /\ LastInsn(b) \in Nat
    BY <1>1, <1>3
  <2> QED
    BY <2>1
<1>5. b \in Body(b) /\ LastInsn(b) \in Body(b)
  BY <1>1, <1>3, <1>4 DEF Body
<1> QED
  BY <1>1, <1>2, <1>5 DEF Body

LEMMA FilterIs ==
  ASSUME NEW b \in Insns
  PROVE  \E n \in Nat : BlockCode(Filter(b), n, b)
<1>1. PICK S, n, s, l : S = Body(b) /\ n = Cardinality(S) /\ s = Sorted(S) /\ l = LastInsn(b)
  OBVIOUS
<1>2. /\ IsFiniteSet(S) /\ S \subseteq Insns /\ S \subseteq Nat /\ b \in S /\ l \in S
      /\ \A i \in S : b <= i /\ i <= l
  BY <1>1, BodyIs
<1>3. /\ n \in Nat /\ s \in [1 .. n -> S] /\ Ascends(s, n)
      /\ \A i \in S : Rank(S, i) \in 1 .. n /\ s[Rank(S, i)] = i
  BY <1>1, <1>2, SortedIs
<1>4. Filter(b) = s
  BY <1>1 DEF Filter, Filters
<1>5. n # 0
  BY <1>2, <1>3
<1>6. \A i \in S : \E j \in 1 .. n : s[j] = i
  BY <1>3
<1>7. s[1] = b
  <2>1. PICK j \in 1 .. n : s[j] = b
    BY <1>2, <1>6
  <2>2. CASE j = 1
    BY <2>1, <2>2
  <2>3. CASE 1 < j
    <3>1. s[1] < s[j] /\ s[1] \in S
      BY <1>3, <1>5, <2>1, <2>3 DEF Ascends
    <3>2. b <= s[1] /\ b \in Nat /\ s[1] \in Nat
      BY <1>2, <3>1
    <3> QED
      BY <2>1, <3>1, <3>2
  <2> QED
    BY <1>3, <2>1, <2>2, <2>3
<1>8. s[n] = l
  <2>1. PICK j \in 1 .. n : s[j] = l
    BY <1>2, <1>6
  <2>2. CASE j = n
    BY <2>1, <2>2
  <2>3. CASE j < n
    <3>1. s[j] < s[n] /\ s[n] \in S
      BY <1>3, <1>5, <2>1, <2>3 DEF Ascends
    <3>2. s[n] <= l /\ l \in Nat /\ s[n] \in Nat
      BY <1>2, <3>1
    <3> QED
      BY <2>1, <3>1, <3>2
  <2> QED
    BY <1>3, <2>1, <2>2, <2>3
<1>9. l \in Branches /\ \A r \in Branches : b <= r => l <= r
  BY <1>1, BranchAhead
<1>10. ASSUME NEW j \in 1 .. n, j # n PROVE Behind(s[j], s[j + 1])
  <2>1. PICK i \in S, k \in S : i = s[j] /\ k = s[j + 1] /\ i < l /\ i < k
    <3>1. j + 1 \in 1 .. n /\ j < n /\ j < j + 1 /\ n \in 1 .. n
      BY <1>3, <1>10
    <3>2. s[j] \in S /\ s[j + 1] \in S
      BY <1>3, <3>1
    <3>3. s[j] < s[n] /\ s[j] < s[j + 1]
      BY <1>3, <3>1 DEF Ascends
    <3> QED
      BY <1>8, <3>2, <3>3
  <2>2. i \in Nat /\ k \in Nat /\ l \in Nat /\ i \in Insns /\ k \in Insns /\ l \in Insns
    BY <1>2
  <2>3. i \notin Branches
    <3>1. b <= i
      BY <1>2
    <3> QED
      BY <1>9, <2>1, <2>2, <3>1
  <2>4. PICK m : m = i + InsnSize[i]
    OBVIOUS
  <2>5. m \in Insns /\ m \in Nat /\ i < m
    <3>1. InsnSize[i] \in Nat \ {0}
      BY <2>2, CodeAssumption
    <3>2. m \in Insns
      BY <2>2, <2>3, <2>4, CodeAssumption
    <3> QED
      BY <2>2, <2>4, <3>1, <3>2
  <2>6. m <= l /\ m <= k
    BY <2>1, <2>2, <2>4, CodeAssumption
  <2>7. m \in S
    <3>1. b <= m /\ b \in Nat
      BY <1>2, <2>2, <2>5
    <3> QED
      BY <1>1, <2>5, <2>6, <3>1 DEF Body
  <2>8. PICK x \in 1 .. n : s[x] = m
    BY <1>6, <2>7
  <2>9. j < x
    BY <1>3, <2>1, <2>5, <2>8 DEF Ascends
  <2>10. ~ (j + 1 < x)
    <3>1. j + 1 \in 1 .. n
      BY <1>3, <1>10
    <3>2. ~ (s[j + 1] < s[x])
      BY <2>1, <2>2, <2>5, <2>6, <2>8
    <3> QED
      BY <1>3, <3>1, <3>2 DEF Ascends
  <2>11. x = j + 1
    BY <1>3, <2>9, <2>10
  <2> QED
    BY <2>1, <2>3, <2>4, <2>8, <2>11 DEF Behind
<1>11. s \in [1 .. n -> Insns]
  BY <1>2, <1>3
<1> QED
  BY <1>3, <1>4, <1>5, <1>7, <1>8, <1>9, <1>10, <1>11 DEF BlockCode

-----------------------------------------------------------------------------
(* Filters in the order of longest_first. *)
Descends(s, n) == \A i, j \in 1 .. n : i < j => Len(s[i]) >= Len(s[j])

Distinct(s, n) == \A i, j \in 1 .. n : i # j => s[i] # s[j]

Orders(s, n, F) == s \in [1 .. n -> F] /\ Distinct(s, n) /\ Descends(s, n)

LEMMA OrdersExtend ==
  ASSUME NEW F, NEW n \in Nat, NEW s, NEW f \in F, Orders(s, n, F \ {f}),
         \A g \in F : Len(g) \in Nat /\ Len(f) <= Len(g)
  PROVE  \E s2 : Orders(s2, n + 1, F)
<1> DEFINE s2 == [j \in 1 .. n + 1 |-> IF j = n + 1 THEN f ELSE s[j]]
<1>1. s \in [1 .. n -> F \ {f}] /\ Distinct(s, n) /\ Descends(s, n)
  BY DEF Orders
<1>2. /\ s2 \in [1 .. n + 1 -> F] /\ s2[n + 1] = f
      /\ \A j \in 1 .. n : s2[j] = s[j]
  <2>1. n + 1 \in 1 .. n + 1 /\ n + 1 \notin 1 .. n /\ \A j \in 1 .. n + 1 : j = n + 1 \/ j \in 1 .. n
    OBVIOUS
  <2>2. \A j \in 1 .. n : j \in 1 .. n + 1
    OBVIOUS
  <2> QED
    BY <1>1, <2>1, <2>2
<1> HIDE DEF s2
<1>3. \A j \in 1 .. n + 1 : j = n + 1 \/ j \in 1 .. n
  OBVIOUS
<1>4. Distinct(s2, n + 1)
  <2>1. ASSUME NEW i \in 1 .. n + 1, NEW j \in 1 .. n + 1, i # j PROVE s2[i] # s2[j]
    <3>1. CASE i \in 1 .. n /\ j \in 1 .. n
      BY <1>1, <1>2, <2>1, <3>1 DEF Distinct
    <3>2. CASE i = n + 1 /\ j \in 1 .. n
      BY <1>1, <1>2, <3>2
    <3>3. CASE j = n + 1 /\ i \in 1 .. n
      BY <1>1, <1>2, <3>3
    <3> QED
      BY <1>3, <2>1, <3>1, <3>2, <3>3
  <2> QED
    BY <2>1 DEF Distinct
<1>5. Descends(s2, n + 1)
  <2>1. ASSUME NEW i \in 1 .. n + 1, NEW j \in 1 .. n + 1, i < j PROVE Len(s2[i]) >= Len(s2[j])
    <3>1. i \in 1 .. n
      BY <2>1
    <3>2. CASE j \in 1 .. n
      BY <1>1, <1>2, <2>1, <3>1, <3>2 DEF Descends
    <3>3. CASE j = n + 1
      <4>1. s2[i] \in F
        BY <1>2
      <4> QED
        BY <1>2, <3>3, <4>1
    <3> QED
      BY <1>3, <3>2, <3>3
  <2> QED
    BY <2>1 DEF Descends
<1> QED
  BY <1>2, <1>4, <1>5 DEF Orders

LEMMA OrdersExist ==
  ASSUME NEW F, IsFiniteSet(F), \A f \in F : Len(f) \in Nat
  PROVE  \E s : Orders(s, Cardinality(F), F)
<1> DEFINE T == {G \in SUBSET F : ~ \E s : Orders(s, Cardinality(G), G)}
<1>1. SUFFICES ASSUME T # {} PROVE FALSE
  OBVIOUS
<1>2. \A G \in T : IsFiniteSet(G)
  BY FS_Subset
<1>3. PICK G \in T : \A H \in T : Cardinality(G) <= Cardinality(H)
  <2> HIDE DEF T
  <2> QED
    BY <1>1, <1>2, FewestElements
<1>4. G \in SUBSET F /\ IsFiniteSet(G) /\ ~ \E s : Orders(s, Cardinality(G), G)
  BY <1>2, <1>3
<1>5. G # {}
  <2> SUFFICES ASSUME G = {} PROVE FALSE
    OBVIOUS
  <2>1. Cardinality(G) = 0
    BY FS_EmptySet
  <2>2. 1 .. 0 = {}
    OBVIOUS
  <2>3. Orders(<<>>, 0, G)
    BY <2>2 DEF Orders, Distinct, Descends
  <2> QED
    BY <1>4, <2>1, <2>3
<1>6. PICK f \in G : \A g \in G : Len(f) <= Len(g)
  <2> DEFINE L == {Len(g) : g \in G}
  <2>1. L \subseteq Nat /\ L # {}
    BY <1>4, <1>5
  <2> HIDE DEF L
  <2>2. PICK l \in L : \A k \in L : l <= k
    BY <2>1, Smallest
  <2> QED
    BY <2>2 DEF L
<1>7. PICK H : H = G \ {f}
  OBVIOUS
<1>8. /\ IsFiniteSet(H) /\ Cardinality(H) = Cardinality(G) - 1 /\ Cardinality(G) \in Nat \ {0}
      /\ ~ (Cardinality(G) <= Cardinality(H))
  BY <1>4, <1>6, <1>7, OneFewer
<1>9. H \in SUBSET F /\ H \notin T
  BY <1>3, <1>4, <1>7, <1>8
<1>10. PICK s : Orders(s, Cardinality(H), G \ {f})
  BY <1>7, <1>9
<1> HIDE DEF T
<1>11. Cardinality(H) \in Nat /\ Cardinality(H) + 1 = Cardinality(G)
  BY <1>8
<1>12. \E s2 : Orders(s2, Cardinality(H) + 1, G)
  BY <1>4, <1>6, <1>10, <1>11, OrdersExtend
<1> QED
  BY <1>4, <1>11, <1>12

LEMMA LongestFirst ==
  ASSUME NEW F, IsFiniteSet(F), \A f \in F : Len(f) \in Nat
  PROVE  \E m \in Nat : Orders(longest_first(F), m, F)
                        /\ \A f \in F : \E i \in 1 .. m : longest_first(F)[i] = f
<1>1. PICK m \in Nat : m = Cardinality(F)
  BY FS_CardinalityType
<1> DEFINE Q == {s \in [1 .. m -> F] : Distinct(s, m)}
<1>2. SetToSeqs(F) = Q
  BY <1>1 DEF SetToSeqs, Distinct
<1>3. PICK s : Orders(s, m, F)
  BY <1>1, OrdersExist
<1>4. s \in Q
  BY <1>3 DEF Orders
<1>5. \A q \in Q : (\A i, j \in DOMAIN q : i < j => Len(q[i]) >= Len(q[j])) <=> Descends(q, m)
  BY DEF Descends
<1>6. longest_first(F) = CHOOSE q \in Q : \A i, j \in DOMAIN q : i < j => Len(q[i]) >= Len(q[j])
  BY <1>2 DEF longest_first
<1>7. \E q \in Q : \A i, j \in DOMAIN q : i < j => Len(q[i]) >= Len(q[j])
  BY <1>3, <1>4, <1>5 DEF Orders
<1>8. PICK q : q = longest_first(F)
  OBVIOUS
<1>9. q \in Q /\ \A i, j \in DOMAIN q : i < j => Len(q[i]) >= Len(q[j])
  BY <1>6, <1>7, <1>8
<1>10. Orders(q, m, F)
  <2>1. Descends(q, m)
    BY <1>5, <1>9
  <2> QED
    BY <1>9, <2>1 DEF Orders
<1>11. q \in Injection(1 .. m, F)
  BY <1>9 DEF Distinct, Injection, IsInjective
<1>12. IsFiniteSet(1 .. m) /\ Cardinality(1 .. m) = m
  BY FS_Interval
<1> HIDE DEF Q
<1>13. q \in Surjection(1 .. m, F)
  BY <1>1, <1>11, <1>12, FS_Injection
<1>14. \A f \in F : \E i \in 1 .. m : q[i] = f
  BY <1>13 DEF Surjection
<1> QED
  BY <1>8, <1>10, <1>14

-----------------------------------------------------------------------------
(* One filter.  The counts after the first k elements of the filter. *)
Taken(f, k, tb) == \E j \in 2 .. k : f[j] = tb

Lowered(num, D, m, f, k) == [tb \in D |-> IF Taken(f, k, tb) THEN num[tb] - m ELSE num[tb]]

LEMMA LoweredStep ==
  ASSUME NEW D, NEW num \in [D -> Int], NEW m \in Int, NEW l \in Nat, NEW f, Distinct(f, l),
         NEW k \in 2 .. l
  PROVE  decrese_tb_info_element(f[k], m, Lowered(num, D, m, f, k - 1)) = Lowered(num, D, m, f, k)
<1> DEFINE A == Lowered(num, D, m, f, k - 1)
           B == Lowered(num, D, m, f, k)
<1>1. A = [tb \in D |-> A[tb]] /\ B = [tb \in D |-> B[tb]]
  BY DEF Lowered
<1>2. \A tb \in D : /\ A[tb] = IF Taken(f, k - 1, tb) THEN num[tb] - m ELSE num[tb]
                    /\ B[tb] = IF Taken(f, k, tb) THEN num[tb] - m ELSE num[tb]
  BY DEF Lowered
<1>3. \A tb : Taken(f, k, tb) <=> Taken(f, k - 1, tb) \/ tb = f[k]
  <2>1. 2 .. k = (2 .. k - 1) \cup {k}
    OBVIOUS
  <2> QED
    BY <2>1 DEF Taken
<1>4. ~ Taken(f, k - 1, f[k])
  <2>1. \A j \in 2 .. k - 1 : j \in 1 .. l /\ k \in 1 .. l /\ j # k
    OBVIOUS
  <2> QED
    BY <2>1 DEF Taken, Distinct
<1> HIDE DEF A, B
<1>5. CASE f[k] \in D
  <2>1. decrese_tb_info_element(f[k], m, A) = [A EXCEPT ![f[k]] = @ - m]
    BY <1>1, <1>5 DEF decrese_tb_info_element
  <2>2. \A tb \in D : [A EXCEPT ![f[k]] = @ - m][tb] = B[tb]
    <3>1. A[f[k]] = num[f[k]] /\ B[f[k]] = num[f[k]] - m
      BY <1>2, <1>3, <1>4, <1>5
    <3>2. \A tb \in D : tb # f[k] => A[tb] = B[tb]
      BY <1>2, <1>3
    <3> QED
      BY <1>1, <3>1, <3>2
  <2>3. [A EXCEPT ![f[k]] = @ - m] = [tb \in D |-> [A EXCEPT ![f[k]] = @ - m][tb]]
    BY <1>1
  <2>4. [A EXCEPT ![f[k]] = @ - m] = B
    BY <1>1, <2>2, <2>3
  <2> QED
    BY <2>1, <2>4 DEF A, B
<1>6. CASE f[k] \notin D
  <2>1. decrese_tb_info_element(f[k], m, A) = A
    BY <1>1, <1>6 DEF decrese_tb_info_element
  <2>2. \A tb \in D : A[tb] = B[tb]
    BY <1>2, <1>3, <1>6
  <2>3. A = B
    BY <1>1, <2>2
  <2> QED
    BY <2>1, <2>3 DEF A, B
<1> QED
  BY <1>5, <1>6

Lowers(G, num, m, f, l) ==
  G = [k \in 1 .. l |-> IF k = 1 THEN num ELSE decrese_tb_info_element(f[k], m, G[k - 1])]

LEMMA LoweredIs ==
  ASSUME NEW D, NEW num \in [D -> Int], NEW m \in Int, NEW l \in Nat \ {0}, NEW f, Distinct(f, l)
  PROVE  /\ \E G : Lowers(G, num, m, f, l)
         /\ \A G : Lowers(G, num, m, f, l) => G[l] = Lowered(num, D, m, f, l)
<1> DEFINE E == [k \in 1 .. l |-> Lowered(num, D, m, f, k)]
<1>1. Lowered(num, D, m, f, 1) = num
  <2>1. \A tb : ~ Taken(f, 1, tb)
    BY DEF Taken
  <2> QED
    BY <2>1 DEF Lowered
<1>2. ASSUME NEW k \in 1 .. l, k # 1
      PROVE  /\ k \in 2 .. l /\ k - 1 \in 1 .. l
             /\ decrese_tb_info_element(f[k], m, Lowered(num, D, m, f, k - 1))
                  = Lowered(num, D, m, f, k)
  <2>1. k \in 2 .. l /\ k - 1 \in 1 .. l
    BY <1>2
  <2> QED
    BY <2>1, LoweredStep
<1>3. Lowers(E, num, m, f, l)
  <2>1. ASSUME NEW k \in 1 .. l
        PROVE  E[k] = IF k = 1 THEN num ELSE decrese_tb_info_element(f[k], m, E[k - 1])
    <3>1. CASE k = 1
      BY <1>1, <3>1
    <3>2. CASE k # 1
      BY <1>2, <3>2
    <3> QED
      BY <3>1, <3>2
  <2>2. E = [k \in 1 .. l |-> E[k]]
    OBVIOUS
  <2> HIDE DEF E
  <2> QED
    BY <2>1, <2>2 DEF Lowers
<1>4. ASSUME NEW G, Lowers(G, num, m, f, l) PROVE G[l] = Lowered(num, D, m, f, l)
  <2> DEFINE T == {k \in 1 .. l : G[k] # Lowered(num, D, m, f, k)}
  <2>1. SUFFICES ASSUME T # {} PROVE FALSE
    OBVIOUS
  <2>2. T \subseteq Nat
    OBVIOUS
  <2>3. PICK k \in T : \A x \in T : k <= x
    <3> HIDE DEF T
    <3> QED
      BY <2>1, <2>2, Smallest
  <2>4. \A x \in 1 .. l : G[x] = IF x = 1 THEN num ELSE decrese_tb_info_element(f[x], m, G[x - 1])
    BY <1>4 DEF Lowers
  <2>5. k \in 1 .. l /\ G[k] # Lowered(num, D, m, f, k)
    BY <2>3
  <2>6. k # 1
    BY <1>1, <2>4, <2>5
  <2>7. k - 1 \in 1 .. l /\ k - 1 \notin T
    BY <1>2, <2>3, <2>5, <2>6
  <2>8. G[k - 1] = Lowered(num, D, m, f, k - 1)
    BY <2>7
  <2> HIDE DEF T
  <2> QED
    BY <1>2, <2>4, <2>5, <2>6, <2>8
<1> QED
  BY <1>3, <1>4

(* The entries dropped: those inside a match. *)
Inside(M, l, k) == \E i \in M : i < k /\ k < i + l

Entries(T, n) == T \in [1 .. n -> Insns \cup {Invalid}]

Dropped(T, n, f, l) ==
  [k \in 1 .. n |-> IF Inside(Matches(T, f), l, k) THEN Invalid ELSE T[k]]

Counts(num, D, T, n) ==
  /\ num \in [D -> Nat]
  /\ \A tb \in D : num[tb] = Cardinality({k \in 1 .. n : T[k] = tb})

MatchSet(M, T, n, f, l) ==
  /\ IsFiniteSet(M) /\ M \subseteq 1 .. n
  /\ \A i \in M : i + l - 1 \in 1 .. n
  /\ \A i \in M : \A j \in 1 .. l : i + j - 1 \in 1 .. n /\ T[i + j - 1] = f[j]
  /\ \A i \in 1 .. n : i + l - 1 <= n /\ (\A j \in 1 .. l : T[i + j - 1] = f[j]) => i \in M

LEMMA MatchesAre ==
  ASSUME NEW n \in Nat, NEW T, Entries(T, n), NEW f, NEW l, NEW b, BlockCode(f, l, b)
  PROVE  MatchSet(Matches(T, f), T, n, f, l)
<1>1. l \in Nat \ {0} /\ f \in [1 .. l -> Insns] /\ DOMAIN f = 1 .. l /\ f \in Seq(Insns)
  BY DEF BlockCode
<1>2. Len(f) = l
  BY <1>1, LenProperties
<1>3. T \in Seq(Insns \cup {Invalid}) /\ DOMAIN T = 1 .. n
  BY DEF Entries
<1>4. Len(T) = n
  BY <1>3, LenProperties
<1>5. Matches(T, f) = {i \in 1 .. n - l + 1 : \A j \in 1 .. l : T[i + j - 1] = f[j]}
  BY <1>1, <1>2, <1>4 DEF Matches
<1>6. \A i \in 1 .. n - l + 1 : i \in 1 .. n /\ i + l - 1 \in 1 .. n
  BY <1>1
<1>7. \A i \in 1 .. n - l + 1 : \A j \in 1 .. l : i + j - 1 \in 1 .. n
  BY <1>1
<1>8. \A i \in 1 .. n : i + l - 1 <= n => i \in 1 .. n - l + 1
  BY <1>1
<1>9. Matches(T, f) \in SUBSET (1 .. n)
  BY <1>5, <1>6
<1>10. IsFiniteSet(Matches(T, f))
  BY <1>9, FS_Interval, FS_Subset
<1>11. PICK M : M = Matches(T, f)
  OBVIOUS
<1>12. \A i \in M : i + l - 1 \in 1 .. n
  BY <1>5, <1>6, <1>11
<1>13. \A i \in M : \A j \in 1 .. l : i + j - 1 \in 1 .. n /\ T[i + j - 1] = f[j]
  BY <1>5, <1>7, <1>11
<1>14. \A i \in 1 .. n : i + l - 1 <= n /\ (\A j \in 1 .. l : T[i + j - 1] = f[j]) => i \in M
  BY <1>5, <1>8, <1>11
<1> QED
  BY <1>9, <1>10, <1>11, <1>12, <1>13, <1>14 DEF MatchSet

LEMMA CodeDistinct ==
  ASSUME NEW f, NEW l, NEW b, BlockCode(f, l, b)
  PROVE  Distinct(f, l)
<1>1. l \in Nat /\ Ascends(f, l)
  BY DEF BlockCode
<1>2. \A i, j \in 1 .. l : i # j => i < j \/ j < i
  BY <1>1
<1>3. \A i \in 1 .. l : f[i] \in Nat
  BY CodeAssumption DEF BlockCode
<1>4. \A i, j \in 1 .. l : f[i] < f[j] => f[i] # f[j]
  BY <1>3
<1> QED
  BY <1>1, <1>2, <1>4 DEF Ascends, Distinct

(* Each match drops one entry of every block of the filter but the first,  *)
(* and no other entry.                                                     *)
LEMMA DroppedOf ==
  ASSUME NEW n \in Nat, NEW T, Entries(T, n), NEW f, NEW l, NEW b, BlockCode(f, l, b), NEW tb
  PROVE  LET X == {k \in 1 .. n : Inside(Matches(T, f), l, k) /\ T[k] = tb}
         IN  /\ IsFiniteSet(X)
             /\ Cardinality(X) = IF Taken(f, l, tb) THEN Cardinality(Matches(T, f)) ELSE 0
<1> DEFINE M == Matches(T, f)
           X == {k \in 1 .. n : Inside(M, l, k) /\ T[k] = tb}
<1>1. /\ IsFiniteSet(M) /\ M \subseteq 1 .. n
      /\ \A i \in M : \A j \in 1 .. l : i + j - 1 \in 1 .. n /\ T[i + j - 1] = f[j]
  BY MatchesAre DEF MatchSet
<1>2. l \in Nat \ {0} /\ Distinct(f, l)
  BY CodeDistinct DEF BlockCode
<1>3. ASSUME NEW k \in X
      PROVE  \E i \in M : \E j \in 2 .. l : k = i + j - 1 /\ f[j] = tb
  <2> HIDE DEF M
  <2>1. PICK i \in M : i < k /\ k < i + l
    BY DEF Inside
  <2>2. i \in Nat /\ k \in Nat /\ T[k] = tb
    BY <1>1
  <2>3. PICK j \in 2 .. l : k = i + j - 1
    <3>1. k - i + 1 \in 2 .. l /\ k = i + (k - i + 1) - 1
      BY <1>2, <2>1, <2>2
    <3> QED
      BY <3>1
  <2>4. j \in 1 .. l
    BY <2>3
  <2>5. f[j] = tb
    BY <1>1, <2>2, <2>3, <2>4
  <2> QED
    BY <2>3, <2>5
<1>4. IsFiniteSet(X)
  <2>1. X \in SUBSET (1 .. n)
    OBVIOUS
  <2>2. IsFiniteSet(1 .. n)
    BY FS_Interval
  <2> HIDE DEF X
  <2> QED
    BY <2>1, <2>2, FS_Subset
<1>5. CASE Taken(f, l, tb)
  <2>1. PICK j \in 2 .. l : f[j] = tb
    BY <1>5 DEF Taken
  <2>2. j \in 1 .. l /\ j \in Int
    BY <2>1
  <2> DEFINE g == [i \in M |-> i + j - 1]
  <2>3. ASSUME NEW i \in M PROVE i + j - 1 \in X
    <3>1. i + j - 1 \in 1 .. n /\ T[i + j - 1] = tb /\ i \in Nat
      BY <1>1, <2>1, <2>2
    <3>2. i < i + j - 1 /\ i + j - 1 < i + l
      BY <1>2, <2>1, <3>1
    <3> QED
      BY <3>1, <3>2 DEF Inside
  <2>4. ASSUME NEW k \in X PROVE \E i \in M : k = i + j - 1
    <3>1. PICK i \in M, x \in 2 .. l : k = i + x - 1 /\ f[x] = tb
      BY <1>3
    <3>2. x = j
      BY <1>2, <2>1, <2>2, <3>1 DEF Distinct
    <3> QED
      BY <3>1, <3>2
  <2> HIDE DEF M, X
  <2>5. g \in [M -> X]
    BY <2>3
  <2>6. \A i, k \in M : g[i] = g[k] => i = k
    BY <1>1, <2>2
  <2>7. \A k \in X : \E i \in M : g[i] = k
    BY <2>4
  <2>8. g \in Injection(M, X) /\ g \in Surjection(M, X)
    BY <2>5, <2>6, <2>7 DEF Injection, Surjection, IsInjective
  <2>9. Cardinality(M) = Cardinality(X)
    BY <1>1, <2>8, FS_Surjection
  <2> QED
    BY <1>4, <1>5, <2>9 DEF M, X
<1>6. CASE ~ Taken(f, l, tb)
  <2>1. X = {}
    BY <1>3, <1>6 DEF Taken
  <2>2. Cardinality(X) = 0
    BY <2>1, FS_EmptySet
  <2> QED
    BY <1>4, <1>6, <2>2
<1> QED
  BY <1>5, <1>6

(* filter_function drops the entries inside of matches and keeps the       *)
(* counts of the entries left.                                             *)
LEMMA FilterFunctionIs ==
  ASSUME NEW n \in Nat, NEW T, Entries(T, n), NEW D, NEW num, Counts(num, D, T, n),
         D \subseteq Insns, NEW f, NEW l, NEW b, BlockCode(f, l, b), NEW r,
         r = [tbexec |-> T, num_exec |-> num]
  PROVE  \E num2 : /\ filter_function(r, f) = [tbexec |-> Dropped(T, n, f, l), num_exec |-> num2]
                   /\ Counts(num2, D, Dropped(T, n, f, l), n)
<1>1. PICK M, m : M = Matches(T, f) /\ m = Cardinality(M)
  OBVIOUS
<1>2. IsFiniteSet(M) /\ m \in Nat
  BY <1>1, MatchesAre, FS_CardinalityType DEF MatchSet
<1>3. l \in Nat \ {0} /\ Distinct(f, l) /\ f \in [1 .. l -> Insns]
  BY CodeDistinct DEF BlockCode
<1>4. f \in Seq(Insns) /\ Len(f) = l
  <2>1. f \in Seq(Insns) /\ DOMAIN f = 1 .. l
    BY <1>3
  <2> QED
    BY <1>3, <2>1, LenProperties
<1>5. num \in [D -> Nat] /\ num \in [D -> Int]
  BY DEF Counts
<1> DEFINE num2 == Lowered(num, D, m, f, l)
           G == CHOOSE g : Lowers(g, num, m, f, l)
<1>6. G[l] = num2
  <2>1. Lowers(G, num, m, f, l)
    BY <1>2, <1>3, <1>5, LoweredIs
  <2> HIDE DEF G
  <2> QED
    BY <1>2, <1>3, <1>5, <2>1, LoweredIs
<1>7. r.tbexec = T /\ r.num_exec = num /\ DOMAIN T = 1 .. n
  BY DEF Entries
<1>8. filter_function(r, f) = [tbexec |-> Dropped(T, n, f, l), num_exec |-> G[l]]
  BY <1>1, <1>4, <1>7 DEF filter_function, Lowers, Dropped, Inside
<1>9. ASSUME NEW tb \in D
      PROVE  /\ num2[tb] \in Nat
             /\ num2[tb] = Cardinality({k \in 1 .. n : Dropped(T, n, f, l)[k] = tb})
  <2>1. PICK A, X, B : /\ A = {k \in 1 .. n : T[k] = tb}
                       /\ X = {k \in 1 .. n : Inside(M, l, k) /\ T[k] = tb}
                       /\ B = {k \in 1 .. n : Dropped(T, n, f, l)[k] = tb}
    OBVIOUS
  <2>2. num[tb] = Cardinality(A)
    BY <2>1 DEF Counts
  <2>3. IsFiniteSet(X) /\ Cardinality(X) = IF Taken(f, l, tb) THEN m ELSE 0
    BY <1>1, <2>1, DroppedOf
  <2>4. tb # Invalid
    BY CodeAssumption DEF Invalid
  <2>5. \A k \in 1 .. n : Dropped(T, n, f, l)[k] = IF Inside(M, l, k) THEN Invalid ELSE T[k]
    BY <1>1 DEF Dropped
  <2>6. B = A \ X /\ X \in SUBSET A /\ A \in SUBSET (1 .. n) /\ A \cap X = X
    BY <2>1, <2>4, <2>5
  <2>7. IsFiniteSet(A)
    <3>1. IsFiniteSet(1 .. n)
      BY FS_Interval
    <3> QED
      BY <2>6, <3>1, FS_Subset
  <2>8. IsFiniteSet(B) /\ Cardinality(B) = Cardinality(A) - Cardinality(X)
    <3>1. /\ IsFiniteSet(A \ X)
          /\ Cardinality(A \ X) = Cardinality(A) - Cardinality(A \cap X)
      BY <2>7, FS_Difference
    <3> QED
      BY <2>6, <3>1
  <2>9. Cardinality(B) \in Nat
    BY <2>8, FS_CardinalityType
  <2>10. num2[tb] = IF Taken(f, l, tb) THEN num[tb] - m ELSE num[tb]
    BY DEF Lowered
  <2>11. num[tb] \in Nat
    BY <1>5
  <2> HIDE DEF num2
  <2>12. num2[tb] = Cardinality(B)
    BY <1>2, <2>2, <2>3, <2>8, <2>10, <2>11
  <2> QED
    BY <2>1, <2>9, <2>12
<1>10. num2 = [tb \in D |-> num2[tb]]
  BY DEF Lowered
<1> HIDE DEF num2, G
<1>11. Counts(num2, D, Dropped(T, n, f, l), n)
  <2>1. num2 \in [D -> Nat]
    BY <1>9, <1>10
  <2> QED
    BY <1>9, <2>1 DEF Counts
<1> QED
  BY <1>6, <1>8, <1>11

-----------------------------------------------------------------------------
(* All filters.  A window of the record agrees with the code of a filter;  *)
(* the first q filters cover the entries inside of their windows.          *)
Window(L, n, i, f) == i + Len(f) - 1 <= n /\ \A j \in 1 .. Len(f) : L[i + j - 1] = f[j]

In(i, f, x) == i < x /\ x < i + Len(f)

Covers(L, n, fs, p, x) == \E i \in 1 .. n : Window(L, n, i, fs[p]) /\ In(i, fs[p], x)

Covered(L, n, fs, q, x) == \E p \in 1 .. q : Covers(L, n, fs, p, x)

(* What the first q filters left: entries dropped are covered, and the     *)
(* entries inside of a window are dropped, unless one of the window had    *)
(* been covered before.                                                    *)
Remains(L, n, fs, q, T) ==
  \A x \in 1 .. n : T[x] = L[x] \/ (T[x] = Invalid /\ Covered(L, n, fs, q, x))

Handled(L, n, fs, p, i, T) ==
  \/ \A x \in 1 .. n : In(i, fs[p], x) => T[x] = Invalid
  \/ \E x \in 1 .. n : (x = i \/ In(i, fs[p], x)) /\ Covered(L, n, fs, p - 1, x)

HandledAll(L, n, fs, q, T) ==
  \A p \in 1 .. q : \A i \in 1 .. n : Window(L, n, i, fs[p]) => Handled(L, n, fs, p, i, T)

Stage(L, n, fs, q, T) == Entries(T, n) /\ Remains(L, n, fs, q, T) /\ HandledAll(L, n, fs, q, T)

IsCode(f) == BlockCode(f, Len(f), f[1])

LEMMA CoveredGrows ==
  ASSUME NEW L, NEW n, NEW fs, NEW q \in Nat, NEW x, Covered(L, n, fs, q, x)
  PROVE  Covered(L, n, fs, q + 1, x)
<1>1. \A p \in 1 .. q : p \in 1 .. q + 1
  OBVIOUS
<1> QED
  BY <1>1 DEF Covered

(* A filter of one instruction drops nothing. *)
LEMMA StageSkip ==
  ASSUME NEW n \in Nat, NEW L, NEW fs, NEW q \in Nat, NEW T, Stage(L, n, fs, q, T),
         IsCode(fs[q + 1]), ~ (Len(fs[q + 1]) > 1)
  PROVE  Stage(L, n, fs, q + 1, T)
<1>1. Entries(T, n) /\ Remains(L, n, fs, q, T) /\ HandledAll(L, n, fs, q, T)
  BY DEF Stage
<1>2. Remains(L, n, fs, q + 1, T)
  BY <1>1, CoveredGrows DEF Remains
<1>3. ASSUME NEW p \in 1 .. q + 1, NEW i \in 1 .. n, Window(L, n, i, fs[p])
      PROVE  Handled(L, n, fs, p, i, T)
  <2>1. CASE p \in 1 .. q
    BY <1>1, <1>3, <2>1 DEF HandledAll
  <2>2. CASE p = q + 1
    <3>1. Len(fs[p]) \in Nat
      BY <2>2 DEF IsCode, BlockCode
    <3>2. \A x \in 1 .. n : ~ In(i, fs[p], x)
      BY <2>2, <3>1 DEF In
    <3> QED
      BY <3>2 DEF Handled
  <2>3. p \in 1 .. q \/ p = q + 1
    OBVIOUS
  <2> QED
    BY <2>1, <2>2, <2>3
<1> QED
  BY <1>1, <1>2, <1>3 DEF Stage, HandledAll

LEMMA StageStep ==
  ASSUME NEW n \in Nat, NEW L \in [1 .. n -> Insns], NEW fs, NEW q \in Nat, NEW T,
         Stage(L, n, fs, q, T), NEW f, f = fs[q + 1], IsCode(f)
  PROVE  Stage(L, n, fs, q + 1, Dropped(T, n, f, Len(f)))
<1>1. Entries(T, n) /\ Remains(L, n, fs, q, T) /\ HandledAll(L, n, fs, q, T)
  BY DEF Stage
<1>2. PICK l, M, T2 : l = Len(f) /\ M = Matches(T, f) /\ T2 = Dropped(T, n, f, Len(f))
  OBVIOUS
<1>3. BlockCode(f, l, f[1]) /\ l \in Nat \ {0} /\ f \in [1 .. l -> Insns]
  BY <1>2 DEF IsCode, BlockCode
<1>4. /\ M \subseteq 1 .. n
      /\ \A i \in M : i + l - 1 \in 1 .. n
      /\ \A i \in M : \A j \in 1 .. l : i + j - 1 \in 1 .. n /\ T[i + j - 1] = f[j]
      /\ \A i \in 1 .. n : /\ i + l - 1 <= n
                           /\ \A j \in 1 .. l : T[i + j - 1] = f[j]
                           => i \in M
  <2>1. PICK b : BlockCode(f, l, b)
    BY <1>3
  <2>2. MatchSet(Matches(T, f), T, n, f, l)
    BY <1>1, <2>1, MatchesAre
  <2>3. MatchSet(M, T, n, f, l)
    BY <1>2, <2>2
  <2> QED
    BY <2>3 DEF MatchSet
<1>5. /\ T2 = [k \in 1 .. n |-> IF Inside(M, l, k) THEN Invalid ELSE T[k]]
      /\ \A k \in 1 .. n : T2[k] = IF Inside(M, l, k) THEN Invalid ELSE T[k]
  BY <1>2 DEF Dropped
<1>6. Entries(T2, n)
  BY <1>1, <1>5 DEF Entries
<1>7. Invalid \notin Insns
  BY CodeAssumption DEF Invalid
<1>8. ASSUME NEW i \in M PROVE Window(L, n, i, f)
  <2>1. i + l - 1 <= n
    BY <1>3, <1>4
  <2>2. ASSUME NEW j \in 1 .. l PROVE L[i + j - 1] = f[j]
    <3>1. PICK x \in 1 .. n : x = i + j - 1 /\ T[x] = f[j]
      BY <1>4
    <3>2. T[x] # Invalid
      BY <1>3, <1>7, <3>1
    <3> QED
      BY <1>1, <3>1, <3>2 DEF Remains
  <2> QED
    BY <1>2, <2>1, <2>2 DEF Window
<1>9. ASSUME NEW x \in 1 .. n, Inside(M, l, x) PROVE Covered(L, n, fs, q + 1, x)
  <2>1. PICK i \in M : i < x /\ x < i + l
    BY <1>9 DEF Inside
  <2>2. i \in 1 .. n /\ Window(L, n, i, f) /\ In(i, f, x)
    BY <1>2, <1>4, <1>8, <2>1 DEF In
  <2>3. q + 1 \in 1 .. q + 1
    OBVIOUS
  <2> QED
    BY <2>2, <2>3 DEF Covered, Covers
<1>10. Remains(L, n, fs, q + 1, T2)
  <2>1. ASSUME NEW x \in 1 .. n
        PROVE  T2[x] = L[x] \/ (T2[x] = Invalid /\ Covered(L, n, fs, q + 1, x))
    <3>1. CASE Inside(M, l, x)
      BY <1>5, <1>9, <3>1
    <3>2. CASE ~ Inside(M, l, x)
      BY <1>1, <1>5, <3>2, CoveredGrows DEF Remains
    <3> QED
      BY <3>1, <3>2
  <2> QED
    BY <2>1 DEF Remains
<1>11. ASSUME NEW p \in 1 .. q + 1, NEW i \in 1 .. n, Window(L, n, i, fs[p])
       PROVE  Handled(L, n, fs, p, i, T2)
  <2>1. CASE p \in 1 .. q
    <3>1. Handled(L, n, fs, p, i, T)
      BY <1>1, <1>11, <2>1 DEF HandledAll
    <3>2. \A x \in 1 .. n : T[x] = Invalid => T2[x] = Invalid
      BY <1>5
    <3> QED
      BY <3>1, <3>2 DEF Handled
  <2>2. CASE p = q + 1
    <3>1. Window(L, n, i, f) /\ fs[p] = f /\ p - 1 = q
      BY <1>11, <2>2
    <3>2. CASE \A j \in 1 .. l : T[i + j - 1] = L[i + j - 1]
      <4>1. i \in M
        <5>1. i + l - 1 <= n /\ \A j \in 1 .. l : T[i + j - 1] = f[j]
          BY <1>2, <3>1, <3>2 DEF Window
        <5> QED
          BY <1>4, <5>1
      <4>2. \A x \in 1 .. n : In(i, f, x) => Inside(M, l, x)
        BY <1>2, <4>1 DEF In, Inside
      <4> QED
        BY <1>5, <3>1, <4>2 DEF Handled
    <3>3. CASE \E j \in 1 .. l : T[i + j - 1] # L[i + j - 1]
      <4>1. PICK j \in 1 .. l : T[i + j - 1] # L[i + j - 1]
        BY <3>3
      <4>2. PICK x : x = i + j - 1
        OBVIOUS
      <4>3. i + l - 1 <= n /\ i \in Nat /\ i >= 1 /\ j \in Nat /\ 1 <= j /\ j <= l /\ l \in Nat
        BY <1>2, <1>3, <3>1 DEF Window
      <4>4. x \in 1 .. n
        BY <4>2, <4>3
      <4>5. x = i \/ In(i, f, x)
        BY <1>2, <4>2, <4>3 DEF In
      <4>6. Covered(L, n, fs, q, x)
        BY <1>1, <4>1, <4>2, <4>4 DEF Remains
      <4> QED
        BY <3>1, <4>4, <4>5, <4>6 DEF Handled
    <3> QED
      BY <3>2, <3>3
  <2>3. p \in 1 .. q \/ p = q + 1
    OBVIOUS
  <2> QED
    BY <2>1, <2>2, <2>3
<1>12. HandledAll(L, n, fs, q + 1, T2)
  BY <1>11 DEF HandledAll
<1> QED
  BY <1>2, <1>6, <1>10, <1>12 DEF Stage

-----------------------------------------------------------------------------
(* filter_tb's loop over the filters. *)
FilterOne(r, f) == IF Len(f) > 1 THEN filter_function(r, f) ELSE r

Loops(R, base, fs, m) ==
  R = [k \in 0 .. m |-> IF k = 0 THEN base ELSE FilterOne(R[k - 1], fs[k])]

LoopExists(base, fs, m) == \E R : Loops(R, base, fs, m)

LEMMA LoopsIs ==
  ASSUME NEW m \in Nat, NEW base, NEW fs
  PROVE  LoopExists(base, fs, m)
<1> DEFINE T == {k \in 0 .. m : ~ LoopExists(base, fs, k)}
<1>1. SUFFICES ASSUME T # {} PROVE FALSE
  <2>1. m \in 0 .. m
    OBVIOUS
  <2> QED
    BY <1>1, <2>1
<1>2. T \subseteq Nat
  OBVIOUS
<1>3. PICK k \in T : \A x \in T : k <= x
  <2> HIDE DEF T
  <2> QED
    BY <1>1, <1>2, Smallest
<1>4. k \in 0 .. m /\ ~ LoopExists(base, fs, k)
  BY <1>3
<1>5. CASE k = 0
  <2> DEFINE R == [x \in 0 .. 0 |-> base]
  <2>1. \A x \in 0 .. 0 : x = 0
    OBVIOUS
  <2>2. R = [x \in 0 .. 0 |-> IF x = 0 THEN base ELSE FilterOne(R[x - 1], fs[x])]
    BY <2>1
  <2>3. Loops(R, base, fs, 0)
    BY <2>2 DEF Loops
  <2> QED
    BY <1>4, <1>5, <2>3 DEF LoopExists
<1>6. CASE k # 0
  <2>1. k - 1 \in 0 .. m /\ k - 1 \notin T /\ k \in Nat \ {0}
    BY <1>2, <1>3, <1>4, <1>6
  <2>2. PICK R : Loops(R, base, fs, k - 1)
    BY <2>1 DEF LoopExists
  <2>3. \A x \in 0 .. k - 1 : R[x] = IF x = 0 THEN base ELSE FilterOne(R[x - 1], fs[x])
    BY <2>2 DEF Loops
  <2> DEFINE Q == [x \in 0 .. k |-> IF x = k THEN FilterOne(R[k - 1], fs[k]) ELSE R[x]]
  <2>4. \A x \in 0 .. k : x = k \/ x \in 0 .. k - 1
    BY <2>1
  <2>5. \A x \in 0 .. k : x # 0 => x - 1 \in 0 .. k /\ x - 1 # k
    BY <2>1
  <2>6. /\ \A x \in 0 .. k : x # k => Q[x] = R[x]
        /\ Q[k] = FilterOne(R[k - 1], fs[k])
    BY <2>1
  <2>7. Q = [x \in 0 .. k |-> Q[x]]
    OBVIOUS
  <2> HIDE DEF Q
  <2>8. ASSUME NEW x \in 0 .. k
        PROVE  Q[x] = IF x = 0 THEN base ELSE FilterOne(Q[x - 1], fs[x])
    <3>1. CASE x = k
      BY <2>1, <2>5, <2>6, <3>1
    <3>2. CASE x # k
      BY <2>3, <2>4, <2>5, <2>6, <3>2
    <3> QED
      BY <3>1, <3>2
  <2>9. Loops(Q, base, fs, k)
    BY <2>7, <2>8 DEF Loops
  <2> QED
    BY <1>4, <2>9 DEF LoopExists
<1> QED
  BY <1>5, <1>6

(* The record and the counts after q filters. *)
LoopSound(L, n, D, fs, q, r) ==
  \E T, num : /\ r = [tbexec |-> T, num_exec |-> num]
              /\ Stage(L, n, fs, q, T) /\ Counts(num, D, T, n)

LEMMA LoopStarts ==
  ASSUME NEW n \in Nat, NEW L \in [1 .. n -> Insns], NEW D, NEW num, Counts(num, D, L, n), NEW fs
  PROVE  LoopSound(L, n, D, fs, 0, [tbexec |-> L, num_exec |-> num])
<1>1. Entries(L, n) /\ Remains(L, n, fs, 0, L)
  BY DEF Entries, Remains
<1>2. HandledAll(L, n, fs, 0, L)
  BY DEF HandledAll
<1> QED
  BY <1>1, <1>2 DEF LoopSound, Stage

LEMMA LoopGoesOn ==
  ASSUME NEW n \in Nat, NEW L \in [1 .. n -> Insns], NEW D, D \subseteq Insns,
         NEW fs, NEW q \in Nat, IsCode(fs[q + 1]), NEW r, LoopSound(L, n, D, fs, q, r)
  PROVE  LoopSound(L, n, D, fs, q + 1, FilterOne(r, fs[q + 1]))
<1>1. PICK T, num : /\ r = [tbexec |-> T, num_exec |-> num]
                    /\ Stage(L, n, fs, q, T) /\ Counts(num, D, T, n)
  BY DEF LoopSound
<1>2. PICK f : f = fs[q + 1]
  OBVIOUS
<1>3. CASE Len(f) > 1
  <2>1. PICK l, b : l = Len(f) /\ BlockCode(f, l, b)
    BY <1>2 DEF IsCode
  <2>2. Entries(T, n)
    BY <1>1 DEF Stage
  <2>3. \E num2 : /\ filter_function(r, f) = [tbexec |-> Dropped(T, n, f, l), num_exec |-> num2]
                  /\ Counts(num2, D, Dropped(T, n, f, l), n)
    BY <1>1, <2>1, <2>2, FilterFunctionIs
  <2>4. Stage(L, n, fs, q + 1, Dropped(T, n, f, l))
    BY <1>1, <1>2, <2>1, StageStep
  <2>5. FilterOne(r, f) = filter_function(r, f)
    BY <1>3 DEF FilterOne
  <2> QED
    BY <1>2, <2>3, <2>4, <2>5 DEF LoopSound
<1>4. CASE ~ (Len(f) > 1)
  <2>1. Stage(L, n, fs, q + 1, T)
    BY <1>1, <1>2, <1>4, StageSkip
  <2>2. FilterOne(r, f) = r
    BY <1>4 DEF FilterOne
  <2> QED
    BY <1>1, <1>2, <2>1, <2>2 DEF LoopSound
<1> QED
  BY <1>3, <1>4

LEMMA LoopEnds ==
  ASSUME NEW n \in Nat, NEW L \in [1 .. n -> Insns], NEW D, D \subseteq Insns,
         NEW num, Counts(num, D, L, n), NEW fs, NEW m \in Nat, \A p \in 1 .. m : IsCode(fs[p]),
         NEW R, Loops(R, [tbexec |-> L, num_exec |-> num], fs, m)
  PROVE  LoopSound(L, n, D, fs, m, R[m])
<1> DEFINE T == {k \in 0 .. m : ~ LoopSound(L, n, D, fs, k, R[k])}
<1>1. SUFFICES ASSUME T # {} PROVE FALSE
  <2>1. m \in 0 .. m
    OBVIOUS
  <2> QED
    BY <1>1, <2>1
<1>2. T \subseteq Nat
  OBVIOUS
<1>3. PICK k \in T : \A x \in T : k <= x
  <2> HIDE DEF T
  <2> QED
    BY <1>1, <1>2, Smallest
<1>4. k \in 0 .. m /\ ~ LoopSound(L, n, D, fs, k, R[k])
  BY <1>3
<1>5. PICK base : base = [tbexec |-> L, num_exec |-> num]
  OBVIOUS
<1>6. \A x \in 0 .. m : R[x] = IF x = 0 THEN base ELSE FilterOne(R[x - 1], fs[x])
  BY <1>5 DEF Loops
<1>7. k # 0
  <2>1. LoopSound(L, n, D, fs, 0, base)
    BY <1>5, LoopStarts
  <2>2. 0 \in 0 .. m
    OBVIOUS
  <2> QED
    BY <1>4, <1>6, <2>1, <2>2
<1>8. PICK q \in Nat : q = k - 1 /\ k = q + 1 /\ q \in 0 .. m
  BY <1>4, <1>7
<1>9. q \notin T
  BY <1>2, <1>3, <1>8
<1>10. LoopSound(L, n, D, fs, q, R[q])
  BY <1>8, <1>9
<1> HIDE DEF T
<1>11. q + 1 \in 1 .. m
  BY <1>4, <1>8
<1>12. LoopSound(L, n, D, fs, q + 1, FilterOne(R[q], fs[q + 1]))
  BY <1>10, <1>11, LoopGoesOn
<1>13. R[k] = FilterOne(R[q], fs[q + 1])
  BY <1>4, <1>6, <1>7, <1>8
<1> QED
  BY <1>4, <1>8, <1>12, <1>13

-----------------------------------------------------------------------------
(* What is left of the record. *)
Holders(X, P, tb) == {k \in P : X[k] = tb}

LEMMA AtIs ==
  ASSUME NEW P, IsFiniteSet(P), P \subseteq Nat, NEW X
  PROVE  /\ Blocks(At(X, P)) = {X[k] : k \in P}
         /\ \A tb : Count(At(X, P), tb) = Cardinality(Holders(X, P, tb))
<1>1. PICK m, s, A : m = Cardinality(P) /\ s = Sorted(P) /\ A = At(X, P)
  OBVIOUS
<1>2. /\ m \in Nat /\ s \in [1 .. m -> P] /\ Ascends(s, m)
      /\ \A i \in P : \E j \in 1 .. m : s[j] = i
  BY <1>1, SortedIs
<1>3. DOMAIN s = 1 .. m
  BY <1>2
<1>4. A = [j \in 1 .. m |-> X[s[j]]]
  BY <1>1, <1>3 DEF At
<1>5. DOMAIN A = 1 .. m /\ \A j \in 1 .. m : A[j] = X[s[j]]
  BY <1>4
<1>6. Blocks(A) = {X[k] : k \in P}
  <2>1. Blocks(A) = {X[s[j]] : j \in 1 .. m}
    BY <1>5 DEF Blocks
  <2>2. \A j \in 1 .. m : s[j] \in P
    BY <1>2
  <2>3. \A k \in P : \E j \in 1 .. m : X[k] = X[s[j]]
    BY <1>2
  <2> QED
    BY <2>1, <2>2, <2>3
<1>7. ASSUME NEW tb PROVE Count(A, tb) = Cardinality(Holders(X, P, tb))
  <2> DEFINE J == {j \in 1 .. m : A[j] = tb}
             K == {k \in P : X[k] = tb}
             g == [j \in J |-> s[j]]
  <2>1. g \in [J -> K]
    BY <1>2, <1>5
  <2>2. \A j, k \in J : g[j] = g[k] => j = k
    <3>1. ASSUME NEW j \in 1 .. m, NEW k \in 1 .. m, s[j] = s[k] PROVE j = k
      <4>1. s[j] \in Nat /\ s[k] \in Nat
        BY <1>2
      <4>2. ~ (s[j] < s[k]) /\ ~ (s[k] < s[j])
        BY <3>1, <4>1
      <4>3. ~ (j < k) /\ ~ (k < j)
        BY <1>2, <4>2 DEF Ascends
      <4> QED
        BY <1>2, <4>3
    <3> QED
      BY <3>1
  <2>3. \A k \in K : \E j \in J : g[j] = k
    BY <1>2, <1>5
  <2>4. IsFiniteSet(J)
    <3>1. J \in SUBSET (1 .. m)
      OBVIOUS
    <3>2. IsFiniteSet(1 .. m)
      BY <1>2, FS_Interval
    <3> HIDE DEF J
    <3> QED
      BY <3>1, <3>2, FS_Subset
  <2>5. Count(A, tb) = Cardinality(J)
    BY <1>5 DEF Count
  <2> HIDE DEF J, K
  <2>6. g \in Injection(J, K) /\ g \in Surjection(J, K)
    BY <2>1, <2>2, <2>3 DEF Injection, Surjection, IsInjective
  <2>7. Cardinality(J) = Cardinality(K)
    BY <2>4, <2>6, FS_Surjection
  <2> QED
    BY <2>5, <2>7 DEF K, Holders
<1> QED
  BY <1>1, <1>6, <1>7

Left(T, n) == {k \in 1 .. n : T[k] # Invalid}

Filtered(res, L, n, fs, m) ==
  \E T : /\ Stage(L, n, fs, m, T)
         /\ res.tbexec = At(T, Left(T, n))
         /\ res.num_exec \in [Blocks(res.tbexec) -> Nat \ {0}]
         /\ \A tb \in Blocks(res.tbexec) : res.num_exec[tb] = Count(res.tbexec, tb)

LEMMA FilterTbIs ==
  ASSUME NEW n \in Nat, NEW L \in [1 .. n -> Insns], NEW num, Counts(num, {L[k] : k \in 1 .. n}, L, n),
         NEW m \in Nat, NEW fs, fs = build_filters, Len(fs) = m, \A p \in 1 .. m : IsCode(fs[p])
  PROVE  Filtered(filter_tb(L, num), L, n, fs, m)
<1>1. PICK D, base : D = {L[k] : k \in 1 .. n} /\ base = [tbexec |-> L, num_exec |-> num]
  OBVIOUS
<1>2. D \subseteq Insns /\ Counts(num, D, L, n)
  BY <1>1
<1> DEFINE R == CHOOSE r : Loops(r, base, fs, m)
<1>3. Loops(R, base, fs, m)
  BY LoopsIs DEF LoopExists
<1>4. PICK end : end = R[m]
  OBVIOUS
<1>5. LoopSound(L, n, D, fs, m, end)
  <2> HIDE DEF R
  <2> QED
    BY <1>1, <1>2, <1>3, <1>4, LoopEnds
<1>6. DOMAIN L = 1 .. n
  OBVIOUS
<1>7. filter_tb(L, num) =
        [tbexec   |-> At(end.tbexec, {k \in 1 .. n : end.tbexec[k] # Invalid}),
         num_exec |-> [tb \in {b \in DOMAIN end.num_exec : end.num_exec[b] > 0} |->
                         end.num_exec[tb]]]
  BY <1>1, <1>4, <1>6 DEF filter_tb, Loops, FilterOne
<1> HIDE DEF R
<1>8. PICK T, num2 : /\ end = [tbexec |-> T, num_exec |-> num2]
                     /\ Stage(L, n, fs, m, T) /\ Counts(num2, D, T, n)
  BY <1>5 DEF LoopSound
<1>9. PICK P, A, N : /\ P = Left(T, n) /\ A = At(T, P)
                     /\ N = [tb \in {b \in D : num2[b] > 0} |-> num2[tb]]
  OBVIOUS
<1>10. filter_tb(L, num) = [tbexec |-> A, num_exec |-> N]
  <2>1. num2 \in [D -> Nat] /\ DOMAIN num2 = D
    BY <1>8 DEF Counts
  <2>2. end.tbexec = T /\ end.num_exec = num2
    BY <1>8
  <2> QED
    BY <1>7, <1>9, <2>1, <2>2 DEF Left
<1>11. IsFiniteSet(P) /\ P \subseteq Nat
  <2>1. P \in SUBSET (1 .. n)
    BY <1>9 DEF Left
  <2>2. IsFiniteSet(1 .. n)
    BY FS_Interval
  <2> QED
    <3>1. IsFiniteSet(P)
      BY <2>1, <2>2, FS_Subset
    <3> QED
      BY <2>1, <3>1
<1>12. Blocks(A) = {T[k] : k \in P} /\ \A tb : Count(A, tb) = Cardinality(Holders(T, P, tb))
  BY <1>9, <1>11, AtIs
<1>13. \A k \in 1 .. n : T[k] = L[k] \/ T[k] = Invalid
  BY <1>8 DEF Stage, Remains
<1>14. Invalid \notin Insns
  BY CodeAssumption DEF Invalid
<1>15. ASSUME NEW tb \in D PROVE num2[tb] = Count(A, tb) /\ num2[tb] \in Nat
  <2>1. {k \in 1 .. n : T[k] = tb} = Holders(T, P, tb)
    BY <1>2, <1>9, <1>14 DEF Left, Holders
  <2>2. num2[tb] \in Nat /\ num2[tb] = Cardinality({k \in 1 .. n : T[k] = tb})
    BY <1>8 DEF Counts
  <2> QED
    BY <1>12, <2>1, <2>2
<1>16. ASSUME NEW tb PROVE Count(A, tb) \in Nat /\ (Count(A, tb) > 0 <=> tb \in Blocks(A))
  <2>1. PICK K : K = {k \in P : T[k] = tb}
    OBVIOUS
  <2>2. IsFiniteSet(K)
    <3>1. K \in SUBSET P
      BY <2>1
    <3> QED
      BY <1>11, <3>1, FS_Subset
  <2>3. Cardinality(K) \in Nat /\ (Cardinality(K) = 0 <=> K = {})
    BY <2>2, FS_CardinalityType, FS_EmptySet
  <2>4. Count(A, tb) = Cardinality(K)
    BY <1>12, <2>1 DEF Holders
  <2>5. tb \in Blocks(A) <=> K # {}
    BY <1>12, <2>1
  <2> QED
    BY <2>3, <2>4, <2>5
<1>17. Blocks(A) \subseteq D
  BY <1>1, <1>9, <1>12, <1>13 DEF Left
<1>18. {b \in D : num2[b] > 0} = Blocks(A)
  BY <1>15, <1>16, <1>17
<1>19. N = [tb \in Blocks(A) |-> num2[tb]]
  BY <1>9, <1>18
<1>20. ASSUME NEW tb \in Blocks(A)
       PROVE  N[tb] = Count(A, tb) /\ N[tb] \in Nat \ {0}
  <2>1. N[tb] = num2[tb] /\ tb \in D
    BY <1>17, <1>19
  <2> QED
    BY <1>15, <1>16, <2>1
<1>21. N \in [Blocks(A) -> Nat \ {0}]
  BY <1>19, <1>20
<1> QED
  <2>1. PICK res : res = filter_tb(L, num)
    OBVIOUS
  <2>2. res.tbexec = A /\ res.num_exec = N
    BY <1>10, <2>1
  <2>3. Stage(L, n, fs, m, T) /\ A = At(T, Left(T, n))
    BY <1>8, <1>9
  <2>4. Filtered(res, L, n, fs, m)
    BY <1>20, <1>21, <2>2, <2>3 DEF Filtered
  <2> QED
    BY <2>1, <2>4

-----------------------------------------------------------------------------
(* Windows and visits. *)
LEMMA CodeHasLength ==
  ASSUME NEW b \in Insns
  PROVE  IsCode(Filter(b)) /\ Filter(b)[1] = b
<1>1. PICK n \in Nat, f \in {Filter(b)} : BlockCode(f, n, b)
  BY FilterIs
<1>2. f \in Seq(Insns) /\ DOMAIN f = 1 .. n
  BY <1>1 DEF BlockCode
<1>3. Len(f) = n /\ f[1] = b
  BY <1>1, <1>2, LenProperties DEF BlockCode
<1> QED
  BY <1>1, <1>3 DEF IsCode

FilterSeq(fs, m, G) ==
  /\ m \in Nat /\ Len(fs) = m /\ Distinct(fs, m) /\ Descends(fs, m)
  /\ \A p \in 1 .. m : IsCode(fs[p])
  /\ \A p \in 1 .. m : \E b \in G : fs[p] = Filter(b)
  /\ \A b \in G : \E p \in 1 .. m : fs[p] = Filter(b)

LEMMA FiltersAre ==
  ASSUME IsFiniteSet(golden), golden \subseteq Insns
  PROVE  \E m : FilterSeq(build_filters, m, golden)
<1> DEFINE F == {Filter(b) : b \in golden}
           g == [b \in golden |-> Filter(b)]
<1>1. g \in Surjection(golden, F)
  BY DEF Surjection
<1>2. \A f \in F : \E b \in golden : f = Filter(b)
  OBVIOUS
<1>3. \A b \in golden : Filter(b) \in F
  OBVIOUS
<1>4. build_filters = longest_first(F)
  BY DEF build_filters
<1> HIDE DEF F, g
<1>5. IsFiniteSet(F)
  BY <1>1, FS_Surjection
<1>6. \A f \in F : IsCode(f)
  BY <1>2, CodeHasLength
<1>7. \A f \in F : Len(f) \in Nat
  BY <1>6 DEF IsCode, BlockCode
<1>8. PICK m \in Nat, fs \in {build_filters} :
        Orders(fs, m, F) /\ \A f \in F : \E i \in 1 .. m : fs[i] = f
  BY <1>4, <1>5, <1>7, LongestFirst
<1>9. fs \in [1 .. m -> F] /\ Distinct(fs, m) /\ Descends(fs, m)
  BY <1>8 DEF Orders
<1>10. fs \in Seq(F) /\ DOMAIN fs = 1 .. m
  BY <1>9
<1>11. Len(fs) = m
  BY <1>10, LenProperties
<1>12. \A p \in 1 .. m : IsCode(fs[p]) /\ \E b \in golden : fs[p] = Filter(b)
  BY <1>2, <1>6, <1>9
<1>13. \A b \in golden : \E p \in 1 .. m : fs[p] = Filter(b)
  BY <1>3, <1>8
<1>14. FilterSeq(fs, m, golden)
  BY <1>9, <1>11, <1>12, <1>13 DEF FilterSeq
<1> QED
  BY <1>8, <1>14

(* Inside of a window every entry is behind the one before. *)
LEMMA InsideIsBehind ==
  ASSUME NEW n \in Nat, NEW L, NEW i \in 1 .. n, NEW f, IsCode(f), Window(L, n, i, f),
         NEW x \in Nat, In(i, f, x)
  PROVE  x \in 1 .. n /\ x - 1 \in 1 .. n /\ Behind(L[x - 1], L[x])
<1>1. PICK l \in Nat : l = Len(f)
  BY DEF IsCode, BlockCode
<1>2. i + l - 1 <= n /\ \A j \in 1 .. l : L[i + j - 1] = f[j]
  BY <1>1 DEF Window
<1>3. i < x /\ x < i + l
  BY <1>1 DEF In
<1>4. PICK j : j = x - i
  OBVIOUS
<1>5. j \in 1 .. l /\ j # l /\ j + 1 \in 1 .. l /\ i + j - 1 = x - 1 /\ i + (j + 1) - 1 = x
  BY <1>3, <1>4
<1>6. L[x - 1] = f[j] /\ L[x] = f[j + 1]
  BY <1>2, <1>5
<1>7. Behind(f[j], f[j + 1])
  BY <1>1, <1>5 DEF IsCode, BlockCode
<1> QED
  BY <1>2, <1>3, <1>6, <1>7

(* Control arrives nowhere at the instruction behind the entry before. *)
Clear(L, n, V) == \A k \in 1 .. n : k - 1 \in 1 .. n /\ Behind(L[k - 1], L[k]) => ~ V[k]

LEMMA CoveredUnvisited ==
  ASSUME NEW n \in Nat, NEW L, NEW V, Clear(L, n, V), NEW fs, NEW q,
         \A p \in 1 .. q : IsCode(fs[p]), NEW x \in 1 .. n, Covered(L, n, fs, q, x)
  PROVE  ~ V[x]
<1>1. PICK p \in 1 .. q, i \in 1 .. n : Window(L, n, i, fs[p]) /\ In(i, fs[p], x)
  BY DEF Covered, Covers
<1>2. PICK f : f = fs[p]
  OBVIOUS
<1>3. IsCode(f) /\ Window(L, n, i, f) /\ In(i, f, x) /\ x \in Nat
  BY <1>1, <1>2
<1>4. x - 1 \in 1 .. n /\ Behind(L[x - 1], L[x])
  BY <1>3, InsideIsBehind
<1> QED
  BY <1>4 DEF Clear

(* An unvisited entry is a step from the entry before. *)
Stepped(L, n, V, S) ==
  \A k \in 1 .. n : ~ V[k] => k - 1 \in 1 .. n /\ S[k - 1] /\ Behind(L[k - 1], L[k])

RegularRun(L, n, V, S, G) ==
  /\ \A k \in 1 .. n : (V[k] /\ S[k] => L[k] \in G) /\ (~ V[k] => S[k])
  /\ \A k \in 1 .. n : S[k] /\ L[k] \notin Branches => k # n /\ ~ V[k + 1]

(* A block that is stepped through is a window of its code. *)
LEMMA RunIsWindow ==
  ASSUME NEW n \in Nat, NEW L, NEW V, NEW S, NEW G,
         Stepped(L, n, V, S), RegularRun(L, n, V, S, G), NEW i \in 1 .. n, S[i],
         NEW f, IsCode(f), f[1] = L[i]
  PROVE  Window(L, n, i, f) /\ \A x \in 1 .. n : In(i, f, x) => ~ V[x]
<1>1. PICK l \in Nat \ {0} : l = Len(f) /\ BlockCode(f, l, L[i])
  BY DEF IsCode, BlockCode
<1> DEFINE At1(j) == /\ i + j - 1 <= n /\ L[i + j - 1] = f[j] /\ S[i + j - 1]
                     /\ (j # 1 => ~ V[i + j - 1])
           B == {j \in 1 .. l : ~ At1(j)}
<1>2. B = {}
  <2> SUFFICES ASSUME B # {} PROVE FALSE
    OBVIOUS
  <2>1. B \subseteq Nat
    OBVIOUS
  <2>2. PICK j \in B : \A x \in B : j <= x
    <3> HIDE DEF B
    <3> QED
      BY <2>1, Smallest
  <2>3. j \in 1 .. l /\ ~ At1(j)
    BY <2>2
  <2>4. j # 1
    <3>1. At1(1)
      BY <1>1
    <3> QED
      BY <2>3, <3>1
  <2>5. PICK k \in 1 .. l : k = j - 1 /\ j = k + 1 /\ k # l /\ k < j
    BY <1>1, <2>3, <2>4
  <2>6. At1(k)
    BY <2>1, <2>2, <2>5
  <2> HIDE DEF B
  <2>7. PICK y : y = i + k - 1
    OBVIOUS
  <2>8. y \in 1 .. n /\ L[y] = f[k] /\ S[y] /\ y + 1 = i + j - 1 /\ y \in Nat
    BY <2>5, <2>6, <2>7
  <2>9. Behind(f[k], f[j])
    BY <1>1, <2>5 DEF BlockCode
  <2>10. y # n /\ ~ V[y + 1]
    BY <2>8, <2>9 DEF RegularRun, Behind
  <2>11. y + 1 \in 1 .. n /\ (y + 1) - 1 = y
    BY <2>8, <2>10
  <2>12. Behind(L[y], L[y + 1]) /\ S[y + 1]
    BY <2>10, <2>11 DEF Stepped, RegularRun
  <2>13. L[y + 1] = f[j]
    BY <2>8, <2>9, <2>12 DEF Behind
  <2>14. At1(j)
    BY <2>8, <2>10, <2>11, <2>12, <2>13
  <2> QED
    BY <2>3, <2>14
<1>3. \A j \in 1 .. l : At1(j)
  BY <1>2
<1>4. Window(L, n, i, f)
  <2>1. l \in 1 .. l
    BY <1>1
  <2> QED
    BY <1>1, <1>3, <2>1 DEF Window
<1>5. ASSUME NEW x \in 1 .. n, In(i, f, x) PROVE ~ V[x]
  <2>1. i < x /\ x < i + l
    BY <1>1, <1>5 DEF In
  <2>2. PICK j : j = x - i + 1
    OBVIOUS
  <2>3. j \in 1 .. l /\ j # 1 /\ i + j - 1 = x
    BY <2>1, <2>2
  <2> HIDE DEF B
  <2> QED
    BY <1>3, <2>3
<1> QED
  BY <1>4, <1>5

(* The block in which an unvisited entry lies: it starts at the last visit *)
(* before.                                                                 *)
LEMMA LastVisit ==
  ASSUME NEW n \in Nat, NEW L, NEW V, NEW S, Stepped(L, n, V, S),
         NEW x \in 1 .. n, ~ V[x]
  PROVE  \E i \in 1 .. n : i < x /\ V[i] /\ \A k \in 1 .. x : i < k => ~ V[k]
<1> DEFINE A == {k \in 1 .. x : V[k]}
<1>1. A \subseteq Nat /\ A \in SUBSET (1 .. x)
  OBVIOUS
<1>2. IsFiniteSet(A)
  <2>1. IsFiniteSet(1 .. x)
    BY FS_Interval
  <2> HIDE DEF A
  <2> QED
    BY <1>1, <2>1, FS_Subset
<1>3. A # {}
  <2>1. V[1]
    <3>1. 1 \in 1 .. n /\ 1 - 1 \notin 1 .. n
      OBVIOUS
    <3> QED
      BY <3>1 DEF Stepped
  <2>2. 1 \in 1 .. x
    OBVIOUS
  <2> QED
    BY <2>1, <2>2
<1>4. PICK i \in A : \A k \in A : k <= i
  <2> HIDE DEF A
  <2> QED
    BY <1>1, <1>2, <1>3, Largest
<1>5. i \in 1 .. x /\ V[i]
  BY <1>4
<1>6. i \in 1 .. n /\ i < x
  BY <1>5
<1>7. \A k \in 1 .. x : i < k => ~ V[k]
  BY <1>4, <1>5
<1> QED
  BY <1>5, <1>6, <1>7

(* Two windows that share an entry behind their first ones end alike.      *)
LEMMA SameEnd ==
  ASSUME NEW n \in Nat, NEW L, NEW i \in 1 .. n, NEW f, IsCode(f), Window(L, n, i, f),
         NEW k \in 1 .. n, NEW g, IsCode(g), Window(L, n, k, g),
         NEW y \in 1 .. n, In(i, f, y), In(k, g, y)
  PROVE  i + Len(f) = k + Len(g)
<1>1. PICK l \in Nat, m \in Nat, e \in Nat, d \in Nat :
        l = Len(f) /\ m = Len(g) /\ e = i + l - 1 /\ d = k + m - 1
  <2>1. Len(f) \in Nat \ {0} /\ Len(g) \in Nat \ {0}
    BY DEF IsCode, BlockCode
  <2>2. i + Len(f) - 1 \in Nat /\ k + Len(g) - 1 \in Nat
    BY <2>1
  <2> QED
    BY <2>1, <2>2
<1>2. i < y /\ y <= e /\ k < y /\ y <= d
  BY <1>1 DEF In
<1>3. L[e] \in Branches /\ L[d] \in Branches
  <2>1. l \in 1 .. l /\ m \in 1 .. m
    BY <1>1, <1>2
  <2>2. L[e] = f[l] /\ L[d] = g[m]
    BY <1>1, <2>1 DEF Window
  <2> QED
    BY <1>1, <2>2 DEF IsCode, BlockCode
<1>4. ~ (e < d)
  <2> SUFFICES ASSUME e < d PROVE FALSE
    OBVIOUS
  <2>1. PICK x \in Nat : x = e + 1 /\ x - 1 = e
    BY <1>1
  <2>2. In(k, g, x)
    BY <1>1, <1>2, <2>1 DEF In
  <2>3. Behind(L[x - 1], L[x])
    BY <2>2, InsideIsBehind
  <2> QED
    BY <1>3, <2>1, <2>3 DEF Behind
<1>5. ~ (d < e)
  <2> SUFFICES ASSUME d < e PROVE FALSE
    OBVIOUS
  <2>1. PICK x \in Nat : x = d + 1 /\ x - 1 = d
    BY <1>1
  <2>2. In(i, f, x)
    BY <1>1, <1>2, <2>1 DEF In
  <2>3. Behind(L[x - 1], L[x])
    BY <2>2, InsideIsBehind
  <2> QED
    BY <1>3, <2>1, <2>3 DEF Behind
<1> QED
  BY <1>1, <1>4, <1>5

(* Of a regular and unambiguous run every unvisited entry is dropped: the  *)
(* filter of its block matches, as no longer filter has covered an entry   *)
(* of it.                                                                  *)
LEMMA UnvisitedDropped ==
  ASSUME NEW n \in Nat, NEW L, NEW V, NEW S, NEW G, G \subseteq Insns,
         Stepped(L, n, V, S), RegularRun(L, n, V, S, G), Clear(L, n, V),
         NEW fs, NEW m, FilterSeq(fs, m, G), NEW T, HandledAll(L, n, fs, m, T),
         NEW x \in 1 .. n, ~ V[x]
  PROVE  T[x] = Invalid
<1>1. PICK i \in 1 .. n : i < x /\ V[i] /\ \A k \in 1 .. x : i < k => ~ V[k]
  BY LastVisit
<1>2. \A k \in 1 .. n : i <= k /\ k < x => S[k] /\ Behind(L[k], L[k + 1])
  <2>1. ASSUME NEW k \in 1 .. n, i <= k, k < x PROVE S[k] /\ Behind(L[k], L[k + 1])
    <3>1. k + 1 \in 1 .. x /\ i < k + 1 /\ k + 1 \in 1 .. n /\ (k + 1) - 1 = k
      BY <2>1
    <3>2. ~ V[k + 1]
      BY <1>1, <3>1
    <3> QED
      BY <3>1, <3>2 DEF Stepped
  <2> QED
    BY <2>1
<1>3. S[i] /\ L[i] \in G
  BY <1>1, <1>2 DEF RegularRun
<1>4. PICK p \in 1 .. m : fs[p] = Filter(L[i])
  BY <1>3 DEF FilterSeq
<1>5. PICK f : f = fs[p]
  OBVIOUS
<1>6. IsCode(f) /\ f[1] = L[i]
  BY <1>3, <1>4, <1>5, CodeHasLength
<1>7. Window(L, n, i, f) /\ \A y \in 1 .. n : In(i, f, y) => ~ V[y]
  BY <1>3, <1>6, RunIsWindow
<1>8. PICK l \in Nat \ {0} : l = Len(f) /\ f[l] \in Branches
  BY <1>6 DEF IsCode, BlockCode
<1>9. In(i, f, x)
  <2> SUFFICES ASSUME ~ In(i, f, x) PROVE FALSE
    OBVIOUS
  <2>1. PICK e : e = i + l - 1
    OBVIOUS
  <2>2. e \in 1 .. n /\ i <= e /\ e < x
    BY <1>1, <1>8, <2>1 DEF In
  <2>3. l \in 1 .. l
    BY <1>8
  <2>4. L[e] = f[l]
    BY <1>7, <1>8, <2>1, <2>3 DEF Window
  <2> QED
    BY <1>2, <1>8, <2>2, <2>4 DEF Behind
<1>10. CASE \A y \in 1 .. n : In(i, fs[p], y) => T[y] = Invalid
  BY <1>5, <1>9, <1>10
<1>11. CASE \E y \in 1 .. n : (y = i \/ In(i, fs[p], y)) /\ Covered(L, n, fs, p - 1, y)
  <2>1. PICK y \in 1 .. n : (y = i \/ In(i, f, y)) /\ Covered(L, n, fs, p - 1, y)
    BY <1>5, <1>11
  <2>2. \A q \in 1 .. p - 1 : q \in 1 .. m /\ q < p
    BY DEF FilterSeq
  <2>3. PICK q \in 1 .. p - 1, k \in 1 .. n : Window(L, n, k, fs[q]) /\ In(k, fs[q], y)
    BY <2>1 DEF Covered, Covers
  <2>4. PICK g : g = fs[q]
    OBVIOUS
  <2>5. q \in 1 .. m /\ q < p /\ IsCode(g) /\ Window(L, n, k, g) /\ In(k, g, y)
    BY <2>2, <2>3, <2>4 DEF FilterSeq
  <2>6. PICK c \in Nat \ {0} : c = Len(g)
    BY <2>5 DEF IsCode, BlockCode
  <2>7. ASSUME NEW z \in 1 .. n, In(k, g, z) PROVE ~ V[z]
    <3>1. z \in Nat
      OBVIOUS
    <3>2. z - 1 \in 1 .. n /\ Behind(L[z - 1], L[z])
      BY <2>5, <2>7, <3>1, InsideIsBehind
    <3> QED
      BY <3>2 DEF Clear
  <2>8. y # i
    BY <1>1, <2>5, <2>7
  <2>9. In(i, f, y)
    BY <2>1, <2>8
  <2>10. ~ (k < i)
    <3> SUFFICES ASSUME k < i PROVE FALSE
      OBVIOUS
    <3>1. In(k, g, i)
      BY <2>5, <2>6, <2>9, <1>8 DEF In
    <3> QED
      BY <1>1, <2>7, <3>1
  <2>11. i + l = k + c
    BY <1>6, <1>7, <1>8, <2>5, <2>6, <2>9, SameEnd
  <2>12. c >= l
    BY <1>5, <1>8, <2>4, <2>5, <2>6 DEF FilterSeq, Descends
  <2>13. k = i
    BY <1>8, <2>6, <2>10, <2>11, <2>12
  <2>14. g[1] = L[i]
    <3>1. 1 \in 1 .. c /\ k + 1 - 1 = k
      BY <2>6
    <3> QED
      BY <2>5, <2>6, <2>13, <3>1 DEF Window
  <2>15. PICK b \in G : g = Filter(b)
    BY <2>4, <2>5 DEF FilterSeq
  <2>16. b = L[i]
    BY <2>14, <2>15, CodeHasLength
  <2>17. fs[q] = fs[p] /\ q # p
    BY <1>4, <2>4, <2>5, <2>15, <2>16
  <2> QED
    BY <2>5, <2>17 DEF FilterSeq, Distinct
<1>12. Handled(L, n, fs, p, i, T)
  BY <1>5, <1>7 DEF HandledAll
<1> QED
  BY <1>10, <1>11, <1>12 DEF Handled

-----------------------------------------------------------------------------
(* The invariant. *)
Report == [tb \in {tbexec[k] : k \in DOMAIN tbexec} |-> Executions(tb, Len(tbexec))]

GoldenPart ==
  phase \in {"golden", "configured"} =>
    /\ pc \in Targets /\ tbexec \in Seq(Targets) /\ (phase = "configured" => tbexec # <<>>)
    /\ golden = {} /\ visits = <<>> /\ stepped = <<>> /\ entered = TRUE

Arrival ==
  /\ entered \in BOOLEAN
  /\ ~ entered => /\ tbexec # <<>> /\ stepped[Len(tbexec)]
                  /\ Behind(tbexec[Len(tbexec)], pc)

History ==
  /\ IsFiniteSet(golden) /\ golden \subseteq Targets
  /\ visits \in Seq(BOOLEAN) /\ stepped \in Seq(BOOLEAN)
  /\ Len(visits) = Len(tbexec) /\ Len(stepped) = Len(tbexec)
  /\ Stepped(tbexec, Len(tbexec), visits, stepped)

IInv ==
  /\ phase \in {"golden", "configured", "experiment", "filtered"}
  /\ pc \in Insns /\ tbexec \in Seq(Insns) /\ trace \in Seq(Insns)
  /\ GoldenPart
  /\ phase \in {"experiment", "filtered"} => History
  /\ phase = "experiment" => Arrival
  /\ filtered = IF phase = "filtered" THEN filter_tb(tbexec, Report) ELSE NULL

(* What filter_tb returns depends on the record and the golden run only.   *)
LEMMA FilterKept ==
  ASSUME tbexec' = tbexec, golden' = golden
  PROVE  filter_tb(tbexec, Report)' = filter_tb(tbexec, Report)
<1>1. build_filters' = build_filters
  BY DEF build_filters
<1>2. Report' = Report
  BY DEF Report, Executions
<1> QED
  BY <1>1, <1>2 DEF filter_tb

LEMMA TargetsAre == Targets \subseteq Insns /\ Handler \in Targets /\ Branches \subseteq Insns
BY CodeAssumption

LEMMA TargetSeq ==
  ASSUME NEW s \in Seq(Targets)
  PROVE  s \in Seq(Insns)
<1>1. DOMAIN s = 1 .. Len(s) /\ Len(s) \in Nat /\ s \in [1 .. Len(s) -> Targets]
  BY LenProperties
<1>2. s \in [1 .. Len(s) -> Insns]
  BY <1>1, TargetsAre
<1> QED
  BY <1>1, <1>2

LEMMA InitInv == FilterInit => IInv
<1>1. SUFFICES ASSUME FilterInit PROVE IInv
  OBVIOUS
<1>2. pc \in Targets /\ phase = "golden" /\ tbexec = <<>> /\ trace = <<>>
  BY <1>1 DEF FilterInit, Init
<1>3. pc \in Insns /\ tbexec \in Seq(Insns) /\ tbexec \in Seq(Targets) /\ trace \in Seq(Insns)
  BY <1>2, TargetsAre
<1> QED
  BY <1>1, <1>2, <1>3 DEF FilterInit, IInv, GoldenPart

LEMMA RunBlockInv == IInv /\ RunBlock /\ UNCHANGED <<golden, filtered, entered, visits, stepped>> => IInv'
<1>1. SUFFICES ASSUME IInv, RunBlock, UNCHANGED <<golden, filtered, entered, visits, stepped>>
               PROVE  IInv'
  OBVIOUS
<1>2. phase = "golden" /\ phase' = "golden"
  BY <1>1 DEF RunBlock
<1>3. pc \in Targets /\ pc \in Insns /\ tbexec \in Seq(Targets) /\ trace \in Seq(Insns)
  BY <1>1, <1>2, TargetsAre DEF IInv, GoldenPart
<1>4. tbexec' \in Seq(Targets) /\ tbexec' \in Seq(Insns)
  <2>1. tbexec' = Append(tbexec, pc)
    BY <1>1 DEF RunBlock
  <2>2. tbexec' \in Seq(Targets)
    BY <1>3, <2>1, AppendProperties
  <2> QED
    BY <2>2, TargetSeq
<1>5. PICK n \in DOMAIN Filter(pc), target \in Targets :
        /\ trace' = trace \o SubSeq(Filter(pc), 1, n) /\ pc' = target
  BY <1>1 DEF RunBlock
<1>6. pc' \in Targets /\ pc' \in Insns
  BY <1>5, TargetsAre
<1>7. trace' \in Seq(Insns)
  <2>1. PICK m \in Nat, f \in {Filter(pc)} : f \in [1 .. m -> Insns]
    BY <1>3, FilterIs DEF BlockCode
  <2>2. f \in Seq(Insns) /\ DOMAIN f = 1 .. m
    BY <2>1
  <2>3. n \in 1 .. Len(f) /\ Len(f) = m
    BY <1>5, <2>1, <2>2, LenProperties
  <2>4. SubSeq(f, 1, n) \in Seq(Insns)
    <3>1. \A j \in 1 .. n : f[j] \in Insns
      BY <2>1, <2>3
    <3>2. n \in Nat
      BY <2>3
    <3> QED
      BY <2>2, <2>3, <3>1, <3>2, SubSeqProperties
  <2> QED
    BY <1>3, <1>5, <2>1, <2>4, ConcatProperties
<1>8. /\ golden' = golden /\ visits' = visits /\ stepped' = stepped
      /\ entered' = entered /\ filtered' = filtered
  BY <1>1
<1>9. GoldenPart'
  BY <1>1, <1>2, <1>4, <1>6, <1>8 DEF IInv, GoldenPart
<1> QED
  BY <1>1, <1>2, <1>4, <1>6, <1>7, <1>8, <1>9 DEF IInv

LEMMA EndGoldenInv ==
  IInv /\ EndGoldenRun /\ UNCHANGED <<golden, filtered, entered, visits, stepped>> => IInv'
<1>1. SUFFICES ASSUME IInv, EndGoldenRun, UNCHANGED <<golden, filtered, entered, visits, stepped>>
               PROVE  IInv'
  OBVIOUS
<1>2. /\ phase = "golden" /\ phase' = "configured" /\ tbexec # <<>>
      /\ pc' = pc /\ tbexec' = tbexec /\ trace' = trace
  BY <1>1 DEF EndGoldenRun
<1>3. /\ golden' = golden /\ visits' = visits /\ stepped' = stepped
      /\ entered' = entered /\ filtered' = filtered
  BY <1>1
<1> QED
  BY <1>1, <1>2, <1>3 DEF IInv, GoldenPart

LEMMA StartInv == IInv /\ StartExperiment => IInv'
<1>1. SUFFICES ASSUME IInv, StartExperiment PROVE IInv'
  OBVIOUS
<1>2. /\ phase = "configured" /\ phase' = "experiment" /\ pc' = tbexec[1]
      /\ tbexec' = <<>> /\ trace' = <<>> /\ golden' = {tbexec[k] : k \in DOMAIN tbexec}
      /\ filtered' = filtered /\ entered' = entered /\ visits' = visits /\ stepped' = stepped
  BY <1>1 DEF StartExperiment
<1>3. /\ tbexec \in Seq(Targets) /\ tbexec # <<>> /\ filtered = NULL
      /\ visits = <<>> /\ stepped = <<>> /\ entered = TRUE
  BY <1>1, <1>2 DEF IInv, GoldenPart
<1>4. PICK n \in Nat : DOMAIN tbexec = 1 .. n /\ tbexec \in [1 .. n -> Targets] /\ n # 0
  <2>1. Len(tbexec) \in Nat /\ DOMAIN tbexec = 1 .. Len(tbexec)
        /\ tbexec \in [1 .. Len(tbexec) -> Targets]
    BY <1>3, LenProperties
  <2>2. Len(tbexec) # 0
    BY <1>3, EmptySeq
  <2> QED
    BY <2>1, <2>2
<1>5. pc' \in Insns
  <2>1. 1 \in 1 .. n
    BY <1>4
  <2> QED
    BY <1>2, <1>4, <2>1, TargetsAre
<1>6. IsFiniteSet(golden') /\ golden' \subseteq Targets
  <2>1. golden' = {tbexec[k] : k \in 1 .. n}
    BY <1>2, <1>4
  <2>2. tbexec \in Surjection(1 .. n, golden')
    BY <1>4, <2>1 DEF Surjection
  <2>3. IsFiniteSet(1 .. n)
    BY FS_Interval
  <2>4. IsFiniteSet(golden')
    BY <2>2, <2>3, FS_Surjection
  <2> QED
    BY <1>4, <2>1, <2>4
<1>7. /\ visits' \in Seq(BOOLEAN) /\ stepped' \in Seq(BOOLEAN)
      /\ Len(visits') = Len(tbexec') /\ Len(stepped') = Len(tbexec') /\ Len(tbexec') = 0
  BY <1>2, <1>3
<1>8. Stepped(tbexec, Len(tbexec), visits, stepped)'
  BY <1>7 DEF Stepped
<1>9. tbexec' \in Seq(Insns) /\ trace' \in Seq(Insns)
  BY <1>2
<1>10. History'
  BY <1>6, <1>7, <1>8 DEF History
<1>11. Arrival' /\ GoldenPart'
  BY <1>2, <1>3 DEF Arrival, GoldenPart
<1> QED
  BY <1>2, <1>3, <1>5, <1>9, <1>10, <1>11 DEF IInv

(* What is recorded of an entry tells whether it is a step.                *)
LEMMA SteppedGrows ==
  ASSUME NEW n \in Nat, NEW L \in Seq(Insns), NEW V \in Seq(BOOLEAN), NEW S \in Seq(BOOLEAN),
         Len(L) = n, Len(V) = n, Len(S) = n, Stepped(L, n, V, S),
         NEW i \in Insns, NEW v \in BOOLEAN, NEW s \in BOOLEAN,
         ~ v => L # <<>> /\ S[n] /\ Behind(L[n], i)
  PROVE  Stepped(Append(L, i), n + 1, Append(V, v), Append(S, s))
<1>1. PICK L2, V2, S2 : L2 = Append(L, i) /\ V2 = Append(V, v) /\ S2 = Append(S, s)
  OBVIOUS
<1>2. /\ \A k \in 1 .. n : L2[k] = L[k] /\ V2[k] = V[k] /\ S2[k] = S[k]
      /\ L2[n + 1] = i /\ V2[n + 1] = v /\ S2[n + 1] = s
  BY <1>1
<1>3. ASSUME NEW k \in 1 .. n + 1, ~ V2[k]
      PROVE  k - 1 \in 1 .. n + 1 /\ S2[k - 1] /\ Behind(L2[k - 1], L2[k])
  <2>1. CASE k \in 1 .. n
    <3>1. k - 1 \in 1 .. n /\ S[k - 1] /\ Behind(L[k - 1], L[k])
      BY <1>2, <1>3, <2>1 DEF Stepped
    <3> QED
      BY <1>2, <2>1, <3>1
  <2>2. CASE k = n + 1
    <3>1. ~ v
      BY <1>2, <1>3, <2>2
    <3>2. n # 0
      BY <3>1, EmptySeq
    <3>3. n \in 1 .. n /\ k - 1 = n
      BY <2>2, <3>2
    <3> QED
      BY <1>2, <2>2, <3>1, <3>3
  <2>3. k \in 1 .. n \/ k = n + 1
    OBVIOUS
  <2> QED
    BY <2>1, <2>2, <2>3
<1> QED
  BY <1>1, <1>3 DEF Stepped

LEMMA RecordedInv ==
  ASSUME IInv, NEW step \in BOOLEAN, Recorded(step), pc' \in Insns, entered' \in BOOLEAN,
         ~ entered' => step /\ Behind(pc, pc')
  PROVE  IInv'
<1>1. /\ phase = "experiment" /\ phase' = "experiment" /\ tbexec' = Append(tbexec, pc)
      /\ visits' = Append(visits, entered) /\ stepped' = Append(stepped, step)
      /\ trace' = trace /\ golden' = golden /\ filtered' = filtered
  BY DEF Recorded
<1>2. /\ pc \in Insns /\ tbexec \in Seq(Insns) /\ trace \in Seq(Insns)
      /\ filtered = NULL /\ History /\ Arrival
  BY <1>1 DEF IInv
<1>3. PICK n \in Nat : n = Len(tbexec) /\ Len(visits) = n /\ Len(stepped) = n
  BY <1>2, LenProperties DEF History
<1>4. visits \in Seq(BOOLEAN) /\ stepped \in Seq(BOOLEAN) /\ entered \in BOOLEAN
  BY <1>2 DEF History, Arrival
<1>5. /\ tbexec' \in Seq(Insns) /\ visits' \in Seq(BOOLEAN) /\ stepped' \in Seq(BOOLEAN)
      /\ Len(tbexec') = n + 1 /\ Len(visits') = n + 1 /\ Len(stepped') = n + 1
      /\ tbexec'[n + 1] = pc /\ stepped'[n + 1] = step
  BY <1>1, <1>2, <1>3, <1>4
<1>6. Stepped(tbexec', n + 1, visits', stepped')
  BY <1>1, <1>2, <1>3, <1>4, SteppedGrows DEF History, Arrival
<1>7. Arrival'
  <2>1. tbexec' # <<>>
    BY <1>3, <1>5, EmptySeq
  <2> QED
    BY <1>5, <2>1 DEF Arrival
<1>8. History'
  BY <1>1, <1>2, <1>5, <1>6 DEF History
<1>9. GoldenPart'
  BY <1>1 DEF GoldenPart
<1> QED
  BY <1>1, <1>2, <1>5, <1>7, <1>8, <1>9 DEF IInv

LEMMA FilterRecordInv == IInv /\ FilterRecord => IInv'
<1>1. SUFFICES ASSUME IInv, FilterRecord PROVE IInv'
  OBVIOUS
<1>2. /\ phase = "experiment" /\ phase' = "filtered" /\ filtered' = filter_tb(tbexec, Report)
      /\ pc' = pc /\ tbexec' = tbexec /\ trace' = trace /\ golden' = golden
      /\ entered' = entered /\ visits' = visits /\ stepped' = stepped
  BY <1>1 DEF FilterRecord, Report
<1>3. History'
  BY <1>1, <1>2 DEF IInv, History
<1>4. GoldenPart'
  BY <1>2 DEF GoldenPart
<1>5. filter_tb(tbexec, Report)' = filter_tb(tbexec, Report)
  BY <1>2, FilterKept
<1> QED
  BY <1>1, <1>2, <1>3, <1>4, <1>5 DEF IInv

LEMMA WholeBlockInv == IInv /\ RunWholeBlock => IInv'
<1>1. SUFFICES ASSUME IInv, RunWholeBlock PROVE IInv'
  OBVIOUS
<1>2. Recorded(FALSE) /\ pc' \in Targets /\ entered' = TRUE
  BY <1>1 DEF RunWholeBlock
<1>3. pc' \in Insns /\ entered' \in BOOLEAN
  BY <1>2, TargetsAre
<1> QED
  BY <1>1, <1>2, <1>3, RecordedInv

LEMMA SingleStepInv == IInv /\ SingleStep => IInv'
<1>1. SUFFICES ASSUME IInv, SingleStep PROVE IInv'
  OBVIOUS
<1>2. Recorded(TRUE) /\ pc \in Insns
  BY <1>1 DEF SingleStep, IInv
<1>3. CASE pc \in Branches /\ pc' \in Targets /\ entered' = TRUE
  BY <1>1, <1>2, <1>3, TargetsAre, RecordedInv
<1>4. CASE pc \notin Branches /\ pc' = pc + InsnSize[pc] /\ entered' = FALSE
  <2>1. pc' \in Insns
    BY <1>2, <1>4, CodeAssumption
  <2>2. Behind(pc, pc')
    BY <1>4 DEF Behind
  <2> QED
    BY <1>1, <1>2, <1>4, <2>1, <2>2, RecordedInv
<1>5. CASE pc' = Handler /\ entered' = TRUE
  BY <1>1, <1>2, <1>5, TargetsAre, RecordedInv
<1> QED
  BY <1>1, <1>3, <1>4, <1>5 DEF SingleStep

LEMMA StutterInv == IInv /\ UNCHANGED vars => IInv'
<1>1. SUFFICES ASSUME IInv, UNCHANGED vars PROVE IInv'
  OBVIOUS
<1>2. /\ phase' = phase /\ pc' = pc /\ tbexec' = tbexec /\ trace' = trace /\ golden' = golden
      /\ filtered' = filtered /\ entered' = entered /\ visits' = visits /\ stepped' = stepped
  BY <1>1 DEF vars
<1>3. GoldenPart' = GoldenPart /\ Arrival' = Arrival
  BY <1>2 DEF GoldenPart, Arrival
<1>4. History' = History
  BY <1>2 DEF History
<1>5. filter_tb(tbexec, Report)' = filter_tb(tbexec, Report)
  BY <1>2, FilterKept
<1> QED
  BY <1>1, <1>2, <1>3, <1>4, <1>5 DEF IInv

LEMMA NextInv == IInv /\ [Next]_vars => IInv'
<1>1. SUFFICES ASSUME IInv, [Next]_vars PROVE IInv'
  OBVIOUS
<1>2. CASE GoldenStep
  BY <1>1, <1>2, RunBlockInv, EndGoldenInv DEF GoldenStep, GoldenNext
<1>3. CASE StartExperiment
  BY <1>1, <1>3, StartInv
<1>4. CASE RunWholeBlock
  BY <1>1, <1>4, WholeBlockInv
<1>5. CASE SingleStep
  BY <1>1, <1>5, SingleStepInv
<1>6. CASE FilterRecord
  BY <1>1, <1>6, FilterRecordInv
<1>7. CASE UNCHANGED vars
  BY <1>1, <1>7, StutterInv
<1> QED
  BY <1>1, <1>2, <1>3, <1>4, <1>5, <1>6, <1>7 DEF Next

(* The invariant holds: an entry that control did not come to by a branch  *)
(* or an exception is a step, and lies right behind another one.           *)
THEOREM InvHolds == Spec => []IInv
BY InitInv, NextInv, PTL DEF Spec

-----------------------------------------------------------------------------
(* The properties.  *)
LEMMA ReportCounts ==
  ASSUME NEW n \in Nat, Len(tbexec) = n, tbexec \in [1 .. n -> Insns]
  PROVE  Counts(Report, {tbexec[k] : k \in 1 .. n}, tbexec, n)
<1>1. DOMAIN tbexec = 1 .. n
  OBVIOUS
<1>2. Report = [tb \in {tbexec[k] : k \in 1 .. n} |-> Cardinality({k \in 1 .. n : tbexec[k] = tb})]
  BY <1>1 DEF Report, Executions
<1>3. \A tb : Cardinality({k \in 1 .. n : tbexec[k] = tb}) \in Nat
  <2>1. IsFiniteSet(1 .. n)
    BY FS_Interval
  <2>2. \A tb : {k \in 1 .. n : tbexec[k] = tb} \in SUBSET (1 .. n)
    OBVIOUS
  <2>3. \A tb : IsFiniteSet({k \in 1 .. n : tbexec[k] = tb})
    BY <2>1, <2>2, FS_Subset
  <2> QED
    BY <2>3, FS_CardinalityType
<1> QED
  BY <1>2, <1>3 DEF Counts

(* What the filtered phase knows.                                          *)
Outcome(n, m) ==
  /\ n \in Nat /\ Len(tbexec) = n /\ tbexec \in [1 .. n -> Insns] /\ golden \subseteq Insns
  /\ Stepped(tbexec, n, visits, stepped)
  /\ visits \in [1 .. n -> BOOLEAN] /\ stepped \in [1 .. n -> BOOLEAN]
  /\ FilterSeq(build_filters, m, golden)
  /\ Filtered(filtered, tbexec, n, build_filters, m)

LEMMA OutcomeIs ==
  ASSUME IInv, phase = "filtered"
  PROVE  \E n, m : Outcome(n, m)
<1>1. /\ tbexec \in Seq(Insns) /\ History /\ filtered = filter_tb(tbexec, Report)
  BY DEF IInv
<1>2. PICK n : n = Len(tbexec)
  OBVIOUS
<1>3. n \in Nat /\ tbexec \in [1 .. n -> Insns]
  BY <1>1, <1>2, LenProperties
<1>4. /\ visits \in [1 .. n -> BOOLEAN] /\ stepped \in [1 .. n -> BOOLEAN]
      /\ Stepped(tbexec, n, visits, stepped)
  BY <1>1, <1>2, LenProperties DEF History
<1>5. IsFiniteSet(golden) /\ golden \subseteq Insns
  BY <1>1, TargetsAre DEF History
<1>6. PICK m : FilterSeq(build_filters, m, golden)
  BY <1>5, FiltersAre
<1>7. Counts(Report, {tbexec[k] : k \in 1 .. n}, tbexec, n)
  BY <1>2, <1>3, ReportCounts
<1>8. m \in Nat /\ Len(build_filters) = m /\ \A p \in 1 .. m : IsCode(build_filters[p])
  BY <1>6 DEF FilterSeq
<1>9. Filtered(filtered, tbexec, n, build_filters, m)
  BY <1>1, <1>3, <1>7, <1>8, FilterTbIs
<1> QED
  BY <1>2, <1>3, <1>4, <1>5, <1>6, <1>9 DEF Outcome

LEMMA InvType == IInv => TypeOK
<1>1. SUFFICES ASSUME IInv PROVE TypeOK
  OBVIOUS
<1>2. golden \subseteq Targets /\ visits \in Seq(BOOLEAN) /\ stepped \in Seq(BOOLEAN)
  <2>1. CASE phase \in {"golden", "configured"}
    <3>1. golden = {} /\ visits = <<>> /\ stepped = <<>>
      BY <1>1, <2>1 DEF IInv, GoldenPart
    <3>2. <<>> \in Seq(BOOLEAN)
      OBVIOUS
    <3> QED
      BY <3>1, <3>2
  <2>2. CASE phase \in {"experiment", "filtered"}
    BY <1>1, <2>2 DEF IInv, History
  <2> QED
    BY <1>1, <2>1, <2>2 DEF IInv
<1>3. ASSUME filtered # NULL
      PROVE  filtered.num_exec \in [Blocks(filtered.tbexec) -> Nat \ {0}]
  <2>1. phase = "filtered"
    BY <1>1, <1>3 DEF IInv
  <2>2. PICK n, m : Outcome(n, m)
    BY <1>1, <2>1, OutcomeIs
  <2> QED
    BY <2>2 DEF Outcome, Filtered
<1> QED
  BY <1>1, <1>2, <1>3 DEF TypeOK, IInv

(* The places control came to.                                             *)
Came(V, n) == {k \in 1 .. n : V[k]}

LEMMA ClearIs ==
  ASSUME NEW n \in Nat, NEW m, Outcome(n, m), ~ Ambiguous
  PROVE  Clear(tbexec, n, visits)
<1>1. Len(tbexec) = n
  BY DEF Outcome
<1>2. ASSUME NEW k \in 1 .. n, k - 1 \in 1 .. n, Behind(tbexec[k - 1], tbexec[k]), visits[k]
      PROVE  FALSE
  <2>1. PICK j \in 1 .. n - 1 : k = j + 1 /\ k - 1 = j
    BY <1>2
  <2> QED
    BY <1>1, <1>2, <2>1 DEF Ambiguous, Behind
<1> QED
  BY <1>2 DEF Clear

LEMMA RegularIs ==
  ASSUME NEW n \in Nat, NEW m, Outcome(n, m), Regular
  PROVE  RegularRun(tbexec, n, visits, stepped, golden)
<1>1. DOMAIN tbexec = 1 .. n /\ Len(tbexec) = n
  BY DEF Outcome
<1>2. \A k \in 1 .. n : (visits[k] /\ stepped[k] => tbexec[k] \in golden) /\ (~ visits[k] => stepped[k])
  BY <1>1 DEF Regular
<1>3. \A k \in 1 .. n : stepped[k] /\ tbexec[k] \notin Branches => k # n /\ ~ visits[k + 1]
  BY <1>1 DEF Regular
<1> QED
  BY <1>2, <1>3 DEF RegularRun

LEMMA VisitedIs ==
  ASSUME NEW n \in Nat, NEW m, Outcome(n, m)
  PROVE  Visited = At(tbexec, Came(visits, n))
<1>1. DOMAIN tbexec = 1 .. n
  BY DEF Outcome
<1> QED
  BY <1>1 DEF Visited, Came

LEMMA Places ==
  ASSUME NEW n \in Nat, NEW P \in SUBSET (1 .. n)
  PROVE  IsFiniteSet(P) /\ P \subseteq Nat
<1>1. IsFiniteSet(1 .. n)
  BY FS_Interval
<1>2. IsFiniteSet(P)
  BY <1>1, FS_Subset
<1>3. P \subseteq Nat
  OBVIOUS
<1> QED
  BY <1>2, <1>3

(* No block control came to is dropped.                                    *)
LEMMA VisitsKept ==
  ASSUME NEW n \in Nat, NEW L \in [1 .. n -> Insns], NEW V, Clear(L, n, V),
         NEW fs, NEW m, NEW G, FilterSeq(fs, m, G), NEW T, Stage(L, n, fs, m, T)
  PROVE  \A k \in Came(V, n) : k \in Left(T, n) /\ T[k] = L[k]
<1>1. TAKE k \in Came(V, n)
<1>2. k \in 1 .. n /\ V[k]
  BY <1>1 DEF Came
<1>3. \A p \in 1 .. m : IsCode(fs[p])
  BY DEF FilterSeq
<1>4. ~ Covered(L, n, fs, m, k)
  BY <1>2, <1>3, CoveredUnvisited
<1>5. T[k] = L[k]
  BY <1>2, <1>4 DEF Stage, Remains
<1>6. L[k] # Invalid
  BY <1>2, CodeAssumption DEF Invalid
<1> QED
  BY <1>2, <1>5, <1>6 DEF Left

LEMMA VisitsCounted ==
  ASSUME NEW n \in Nat, NEW L, NEW T, NEW P \in SUBSET (1 .. n), NEW Q \in SUBSET (1 .. n),
         \A k \in P : k \in Q /\ T[k] = L[k], NEW tb
  PROVE  Count(At(L, P), tb) <= Count(At(T, Q), tb)
<1> DEFINE A == Holders(L, P, tb)
           B == Holders(T, Q, tb)
<1>1. A \in SUBSET B /\ B \in SUBSET (1 .. n)
  BY DEF Holders
<1>2. IsFiniteSet(P) /\ P \subseteq Nat /\ IsFiniteSet(Q) /\ Q \subseteq Nat
  BY Places
<1>3. Count(At(L, P), tb) = Cardinality(A) /\ Count(At(T, Q), tb) = Cardinality(B)
  BY <1>2, AtIs
<1> HIDE DEF A, B
<1>4. IsFiniteSet(B)
  BY <1>1, Places
<1> QED
  BY <1>1, <1>3, <1>4, FS_Subset

LEMMA SameAt ==
  ASSUME NEW n \in Nat, NEW P \in SUBSET (1 .. n), NEW L, NEW T, \A k \in P : T[k] = L[k]
  PROVE  At(T, P) = At(L, P)
<1>1. PICK s : s = Sorted(P)
  OBVIOUS
<1>2. IsFiniteSet(P) /\ P \subseteq Nat
  BY Places
<1>3. s \in [1 .. Cardinality(P) -> P]
  BY <1>1, <1>2, SortedIs
<1>4. \A j \in DOMAIN s : T[s[j]] = L[s[j]]
  BY <1>3
<1> QED
  BY <1>1, <1>4 DEF At

LEMMA InvSound == IInv => FilterSound
<1>1. SUFFICES ASSUME IInv, phase = "filtered"
      PROVE /\ \A tb \in Blocks(filtered.tbexec) :
                 filtered.num_exec[tb] = Count(filtered.tbexec, tb)
            /\ ~ Ambiguous => \A tb \in Blocks(Visited) :
                                Count(Visited, tb) <= Count(filtered.tbexec, tb)
            /\ ~ Ambiguous /\ Regular => filtered.tbexec = Visited
  BY DEF FilterSound
<1>2. PICK n, m : Outcome(n, m)
  BY <1>1, OutcomeIs
<1>3. PICK L, fs, V : L = tbexec /\ fs = build_filters /\ V = visits
  OBVIOUS
<1>4. /\ n \in Nat /\ L \in [1 .. n -> Insns] /\ golden \subseteq Insns
      /\ Stepped(L, n, V, stepped) /\ FilterSeq(fs, m, golden)
      /\ Filtered(filtered, L, n, fs, m)
  BY <1>2, <1>3 DEF Outcome
<1>5. PICK T : /\ Stage(L, n, fs, m, T) /\ filtered.tbexec = At(T, Left(T, n))
               /\ \A tb \in Blocks(filtered.tbexec) :
                    filtered.num_exec[tb] = Count(filtered.tbexec, tb)
  BY <1>4 DEF Filtered
<1>6. Visited = At(L, Came(V, n))
  BY <1>2, <1>3, <1>4, VisitedIs
<1>7. Came(V, n) \in SUBSET (1 .. n) /\ Left(T, n) \in SUBSET (1 .. n)
  BY DEF Came, Left
<1>8. ASSUME ~ Ambiguous
      PROVE  Clear(L, n, V) /\ \A k \in Came(V, n) : k \in Left(T, n) /\ T[k] = L[k]
  <2>1. Clear(L, n, V)
    BY <1>2, <1>3, <1>4, <1>8, ClearIs
  <2> QED
    BY <1>4, <1>5, <2>1, VisitsKept
<1>9. ASSUME ~ Ambiguous, NEW tb
      PROVE  Count(Visited, tb) <= Count(filtered.tbexec, tb)
  BY <1>4, <1>5, <1>6, <1>7, <1>8, <1>9, VisitsCounted
<1>10. ASSUME ~ Ambiguous, Regular PROVE filtered.tbexec = Visited
  <2>1. RegularRun(L, n, V, stepped, golden)
    BY <1>2, <1>3, <1>4, <1>10, RegularIs
  <2>2. HandledAll(L, n, fs, m, T)
    BY <1>5 DEF Stage
  <2>3. \A k \in 1 .. n : ~ V[k] => T[k] = Invalid
    BY <1>4, <1>8, <1>10, <2>1, <2>2, UnvisitedDropped
  <2>4. Left(T, n) = Came(V, n)
    BY <1>8, <1>10, <2>3 DEF Left, Came
  <2>5. At(T, Came(V, n)) = At(L, Came(V, n))
    BY <1>4, <1>7, <1>8, <1>10, SameAt
  <2> QED
    BY <1>5, <1>6, <2>4, <2>5
<1> QED
  BY <1>5, <1>9, <1>10

(* Type correctness, which says of what filter_tb returns that its counts  *)
(* are positive and there is one for each block of the record left over.   *)
THEOREM TypeCorrect == Spec => []TypeOK
<1>1. IInv => TypeOK
  BY InvType
<1> QED
  BY <1>1, InvHolds, PTL

(* filter_tb keeps its promise whatever the code, the golden run and the   *)
(* experiment: the counts it returns are those of the record it returns;   *)
(* of an unambiguous record no block control came to is lost; and if every *)
(* block was run as the golden run would have run it, what is left over is *)
(* these blocks, in order.                                                 *)
THEOREM FilterKeeps == Spec => []FilterSound
<1>1. IInv => FilterSound
  BY InvSound
<1> QED
  BY <1>1, InvHolds, PTL
-----------------------------------------------------------------------------
(* The code, from the golden run's side: which instructions the blocks have *)
(* in common.                                                              *)
Coded(f, l, S) ==
  /\ l = Len(f) /\ l \in Nat \ {0} /\ DOMAIN f = 1 .. l
  /\ \A j \in 1 .. l : f[j] \in S /\ Rank(S, f[j]) = j
  /\ \A i \in S : Rank(S, i) \in 1 .. l /\ f[Rank(S, i)] = i

LEMMA CodedIs ==
  ASSUME NEW b \in Insns
  PROVE  Coded(Filter(b), Len(Filter(b)), Body(b))
<1>1. PICK S, m, s : S = Body(b) /\ m = Cardinality(S) /\ s = Sorted(S)
  OBVIOUS
<1>2. IsFiniteSet(S) /\ S \subseteq Nat
  BY <1>1, BodyIs
<1>3. /\ m \in Nat /\ s \in [1 .. m -> S]
      /\ \A j \in 1 .. m : Rank(S, s[j]) = j
      /\ \A i \in S : Rank(S, i) \in 1 .. m /\ s[Rank(S, i)] = i
  BY <1>1, <1>2, SortedIs
<1>4. Filter(b) = s
  BY <1>1 DEF Filter, Filters
<1>5. DOMAIN s = 1 .. m /\ \A j \in 1 .. m : s[j] \in S
  BY <1>3
<1>6. PICK f, l : f = Filter(b) /\ l = Len(Filter(b))
  OBVIOUS
<1>7. IsCode(f)
  BY <1>6, CodeHasLength
<1>8. l \in Nat \ {0} /\ DOMAIN f = 1 .. l
  BY <1>6, <1>7 DEF IsCode, BlockCode
<1>9. l = m
  <2>1. 1 .. l = 1 .. m
    BY <1>4, <1>5, <1>6, <1>8
  <2>2. l \in 1 .. m /\ (m # 0 => m \in 1 .. l)
    BY <1>3, <1>8, <2>1
  <2> QED
    BY <1>3, <1>8, <2>2
<1> QED
  BY <1>1, <1>3, <1>4, <1>5, <1>6, <1>8, <1>9 DEF Coded

(* The instruction an address lies in. *)
Spans(i, a) == i <= a /\ a < i + InsnSize[i]

LEMMA SizeIs ==
  ASSUME NEW i \in Insns
  PROVE  /\ i \in Nat /\ InsnSize[i] \in Nat /\ InsnSize[i] >= 2
         /\ \A k \in Insns : i < k => i + InsnSize[i] <= k
<1>1. i \in Nat /\ InsnSize[i] \in Nat \ {0, 1}
  BY CodeAssumption
<1>2. \A k \in Insns : i < k => i + InsnSize[i] <= k
  BY CodeAssumption
<1> QED
  BY <1>1, <1>2

LEMMA SpanOnce ==
  ASSUME NEW i \in Insns, NEW k \in Insns, NEW a \in Nat, Spans(i, a), Spans(k, a)
  PROVE  i = k
<1>1. PICK x, y : x = InsnSize[i] /\ y = InsnSize[k]
  OBVIOUS
<1>2. /\ i \in Nat /\ k \in Nat /\ x \in Nat /\ y \in Nat
      /\ (i < k => i + x <= k) /\ (k < i => k + y <= i)
  BY <1>1, SizeIs
<1>3. i <= a /\ a < i + x /\ k <= a /\ a < k + y
  BY <1>1 DEF Spans
<1> QED
  BY <1>2, <1>3

LEMMA EndIs ==
  ASSUME NEW b \in Insns
  PROVE  /\ LastInsn(b) \in Insns /\ LastInsn(b) \in Nat /\ b \in Nat /\ b <= LastInsn(b)
         /\ TbEnd(b) \in Nat /\ LastInsn(b) < TbEnd(b)
         /\ \A k \in Insns : k <= TbEnd(b) <=> k <= LastInsn(b)
<1>1. PICK m : m = LastInsn(b)
  OBVIOUS
<1>2. m \in Branches /\ b <= m
  BY <1>1, BranchAhead
<1>3. m \in Insns
  BY <1>2, CodeAssumption
<1>4. PICK s : s = InsnSize[m]
  OBVIOUS
<1>5. m \in Nat /\ b \in Nat /\ s \in Nat /\ s >= 2 /\ \A k \in Insns : m < k => m + s <= k
  BY <1>3, <1>4, SizeIs
<1>6. TbEnd(b) = m + s - 1
  BY <1>1, <1>4 DEF TbEnd
<1>7. \A k \in Insns : k \in Nat
  BY SizeIs
<1>8. \A k \in Insns : k <= m + s - 1 <=> k <= m
  BY <1>5, <1>7
<1> QED
  BY <1>1, <1>2, <1>3, <1>5, <1>6, <1>8

(* An address lies in the bytes of a block if it lies in one of the        *)
(* block's instructions: there are no gaps.                                *)
LEMMA Covering ==
  ASSUME NEW b \in Insns, NEW a \in Nat
  PROVE  b <= a /\ a <= TbEnd(b) <=> \E i \in Body(b) : Spans(i, a)
<1>1. PICK m, S : m = LastInsn(b) /\ S = Body(b)
  OBVIOUS
<1>2. /\ IsFiniteSet(S) /\ S \subseteq Insns /\ S \subseteq Nat /\ b \in S /\ m \in S
      /\ S = {i \in Insns : b <= i /\ i <= m}
  BY <1>1, BodyIs DEF Body
<1>3. PICK s : s = InsnSize[m]
  OBVIOUS
<1>4. m \in Nat /\ b \in Nat /\ s \in Nat /\ TbEnd(b) = m + s - 1 /\ m \in Insns
  BY <1>1, <1>2, <1>3, SizeIs DEF TbEnd
<1>5. ASSUME NEW i \in S, Spans(i, a) PROVE b <= a /\ a <= m + s - 1
  <2>1. PICK x : x = InsnSize[i]
    OBVIOUS
  <2>2. i \in Nat /\ x \in Nat /\ (i < m => i + x <= m) /\ b <= i /\ i <= m
    BY <1>2, <2>1, SizeIs
  <2>3. i <= a /\ a < i + x
    BY <1>5, <2>1 DEF Spans
  <2>4. CASE i = m
    BY <1>3, <1>4, <2>1, <2>2, <2>3, <2>4
  <2>5. CASE i < m
    <3>1. a < m /\ b <= a
      BY <1>4, <2>2, <2>3, <2>5
    <3>2. s >= 2
      BY <1>3, <1>4, SizeIs
    <3> QED
      BY <1>4, <3>1, <3>2
  <2> QED
    BY <1>4, <2>2, <2>4, <2>5
<1>6. ASSUME b <= a, a <= m + s - 1 PROVE \E i \in S : Spans(i, a)
  <2> DEFINE T == {i \in S : i <= a}
  <2>1. T \in SUBSET S /\ T \subseteq Nat /\ b \in T
    BY <1>2, <1>6
  <2>2. IsFiniteSet(T)
    <3> HIDE DEF T
    <3> QED
      BY <1>2, <2>1, FS_Subset
  <2>3. PICK i \in T : \A x \in T : x <= i
    <3>1. T # {}
      BY <2>1
    <3> HIDE DEF T
    <3> QED
      BY <2>1, <2>2, <3>1, Largest
  <2>4. i \in S /\ i <= a /\ i \in Insns /\ i \in Nat /\ b <= i /\ i <= m
    BY <1>2, <2>3
  <2>5. PICK x : x = InsnSize[i]
    OBVIOUS
  <2>6. x \in Nat /\ x >= 2 /\ (i < m => i + x <= m)
    BY <1>4, <2>4, <2>5, SizeIs
  <2>7. CASE i = m
    BY <1>3, <1>4, <1>6, <2>4, <2>5, <2>6, <2>7 DEF Spans
  <2>8. CASE i # m
    <3>1. i \notin Branches
      <4> SUFFICES ASSUME i \in Branches PROVE FALSE
        OBVIOUS
      <4>1. m <= i
        BY <1>1, <2>4, BranchAhead
      <4> QED
        BY <1>4, <2>4, <2>8, <4>1
    <3>2. i + x \in Insns
      BY <2>4, <2>5, <3>1, CodeAssumption
    <3>3. i + x \in S
      BY <1>2, <1>4, <2>4, <2>6, <2>8, <3>2
    <3>4. ~ (i + x <= a)
      <4> SUFFICES ASSUME i + x <= a PROVE FALSE
        OBVIOUS
      <4>1. i + x <= i
        BY <2>3, <3>3
      <4> QED
        BY <2>4, <2>6, <4>1
    <3>5. Spans(i, a)
      BY <2>4, <2>5, <2>6, <3>4 DEF Spans
    <3> QED
      BY <2>4, <3>5
  <2> QED
    BY <2>7, <2>8
<1> QED
  BY <1>1, <1>4, <1>5, <1>6

LEMMA SameBranch ==
  ASSUME NEW t \in Insns, NEW b \in Insns, t <= b, b <= LastInsn(t)
  PROVE  LastInsn(b) = LastInsn(t)
<1>1. PICK x, y : x = LastInsn(t) /\ y = LastInsn(b)
  OBVIOUS
<1>2. /\ x \in Branches /\ t <= x /\ \A r \in Branches : t <= r => x <= r
      /\ y \in Branches /\ b <= y /\ \A r \in Branches : b <= r => y <= r
  BY <1>1, BranchAhead
<1>3. x \in Nat /\ y \in Nat /\ t \in Nat /\ b \in Nat
  BY <1>1, EndIs
<1>4. y <= x
  BY <1>1, <1>2
<1>5. x <= y
  BY <1>2, <1>3
<1> QED
  BY <1>1, <1>3, <1>4, <1>5

(* Which blocks an instruction of a block is in: those around it, and      *)
(* those inside that begin no later.                                       *)
LEMMA Overlap ==
  ASSUME NEW b \in Insns, NEW ins \in Body(b), NEW t \in Insns
  PROVE  ins \in Body(t) <=> \/ t = b
                             \/ b > t /\ b <= TbEnd(t)
                             \/ b < t /\ TbEnd(b) > t /\ TbEnd(b) <= TbEnd(t) /\ ins >= t
<1>1. PICK x, y, v, u : x = LastInsn(t) /\ y = LastInsn(b) /\ v = TbEnd(t) /\ u = TbEnd(b)
  OBVIOUS
<1>2. /\ t \in Nat /\ b \in Nat /\ x \in Nat /\ y \in Nat /\ v \in Nat /\ u \in Nat
      /\ x < v /\ y < u /\ t <= x /\ b <= y
      /\ (b <= v <=> b <= x) /\ (t <= u <=> t <= y)
  BY <1>1, EndIs
<1>3. ins \in Insns /\ ins \in Nat /\ b <= ins /\ ins <= y
  BY <1>1, BodyIs
<1>4. ins \in Body(t) <=> t <= ins /\ ins <= x
  BY <1>1, <1>3 DEF Body
<1>5. t <= b /\ b <= x => y = x /\ u = v
  BY <1>1, SameBranch DEF TbEnd
<1>6. b <= t /\ t <= y => y = x /\ u = v
  BY <1>1, SameBranch DEF TbEnd
<1>7. ASSUME t <= ins, ins <= x
      PROVE  t = b \/ (b > t /\ b <= v) \/ (b < t /\ u > t /\ u <= v /\ ins >= t)
  <2>1. CASE t < b
    BY <1>2, <1>3, <1>7, <2>1
  <2>2. CASE b < t
    <3>1. t <= y
      BY <1>2, <1>3, <1>7
    <3>2. u = v
      BY <1>2, <1>6, <2>2, <3>1
    <3> QED
      BY <1>2, <1>3, <1>7, <2>2, <3>1, <3>2
  <2> QED
    BY <1>2, <2>1, <2>2
<1>8. ASSUME b > t, b <= v PROVE t <= ins /\ ins <= x
  <2>1. y = x
    BY <1>2, <1>5, <1>8
  <2> QED
    BY <1>2, <1>3, <1>8, <2>1
<1>9. ASSUME b < t, u > t, ins >= t PROVE t <= ins /\ ins <= x
  <2>1. y = x
    BY <1>2, <1>6, <1>9
  <2> QED
    BY <1>2, <1>3, <1>9, <2>1
<1>10. t = b => t <= ins /\ ins <= x
  BY <1>1, <1>3
<1> QED
  BY <1>1, <1>4, <1>7, <1>8, <1>9, <1>10

(* trigger_hitcounter counts the blocks executed so far that have the      *)
(* instruction.                                                            *)
Having(ins, k) == {x \in 1 .. k : ins \in Body(tbexec[x])}

LEMMA HitcounterIs ==
  ASSUME NEW n \in Nat, tbexec \in [1 .. n -> Insns], NEW idx \in 1 .. n,
         NEW ins \in Body(tbexec[idx])
  PROVE  trigger_hitcounter(idx, ins) = Cardinality(Having(ins, idx))
<1>1. PICK b : b = tbexec[idx]
  OBVIOUS
<1>2. b \in Insns /\ ins \in Body(b) /\ \A x \in 1 .. idx : tbexec[x] \in Insns
  BY <1>1
<1> DEFINE others == {tbexec[k] : k \in 1 .. idx}
           around == {t \in others : b > t /\ b <= TbEnd(t)}
           within == {t \in others : /\ b < t /\ TbEnd(b) > t /\ TbEnd(b) <= TbEnd(t)
                                     /\ ins >= t}
<1>3. ASSUME NEW x \in 1 .. idx
      PROVE  tbexec[x] \in {b} \cup around \cup within <=> ins \in Body(tbexec[x])
  <2>1. PICK t : t = tbexec[x]
    OBVIOUS
  <2>2. t \in others /\ t \in Insns
    BY <1>2, <2>1
  <2>3. ins \in Body(t) <=> \/ t = b
                            \/ b > t /\ b <= TbEnd(t)
                            \/ b < t /\ TbEnd(b) > t /\ TbEnd(b) <= TbEnd(t) /\ ins >= t
    BY <1>2, <2>2, Overlap
  <2> HIDE DEF others
  <2> QED
    BY <2>1, <2>2, <2>3
<1>4. trigger_hitcounter(idx, ins)
        = Cardinality({k \in 1 .. idx : tbexec[k] \in {b} \cup around \cup within})
  BY <1>1 DEF trigger_hitcounter
<1> HIDE DEF others, around, within
<1>5. {k \in 1 .. idx : tbexec[k] \in {b} \cup around \cup within} = Having(ins, idx)
  BY <1>3 DEF Having
<1> QED
  BY <1>4, <1>5

-----------------------------------------------------------------------------
(* An order-preserving map onto a set of numbers keeps every rank.         *)
Rising(g, K, P) ==
  /\ \A k \in K : g[k] \in P
  /\ \A p \in P : \E k \in K : g[k] = p
  /\ \A i, k \in K : i < k => g[i] < g[k]

LEMMA SameNumber ==
  ASSUME NEW K, IsFiniteSet(K), K \subseteq Nat, NEW P, P \subseteq Nat, NEW g, Rising(g, K, P)
  PROVE  IsFiniteSet(P) /\ Cardinality(P) = Cardinality(K)
<1> DEFINE h == [k \in K |-> g[k]]
<1>1. h \in [K -> P]
  BY DEF Rising
<1>2. \A p \in P : \E k \in K : h[k] = p
  BY DEF Rising
<1>3. ASSUME NEW i \in K, NEW k \in K, g[i] = g[k] PROVE i = k
  <2>1. i \in Nat /\ k \in Nat /\ g[i] \in Nat /\ g[k] \in Nat
    BY DEF Rising
  <2>2. ~ (i < k) /\ ~ (k < i)
    BY <1>3, <2>1 DEF Rising
  <2> QED
    BY <2>1, <2>2
<1>4. \A i, k \in K : h[i] = h[k] => i = k
  BY <1>3
<1> HIDE DEF h
<1>5. h \in Injection(K, P) /\ h \in Surjection(K, P)
  BY <1>1, <1>2, <1>4 DEF Injection, Surjection, IsInjective
<1>6. IsFiniteSet(P)
  BY <1>5, FS_Surjection
<1>7. Cardinality(P) = Cardinality(K)
  BY <1>5, FS_Surjection
<1> QED
  BY <1>6, <1>7

LEMMA SameRank ==
  ASSUME NEW K, IsFiniteSet(K), K \subseteq Nat, NEW P, P \subseteq Nat, NEW g, Rising(g, K, P),
         NEW k \in K
  PROVE  Rank(P, g[k]) = Rank(K, k)
<1> DEFINE A == {x \in K : x <= k}
           B == {p \in P : p <= g[k]}
<1>1. A \in SUBSET K /\ A \subseteq Nat /\ B \subseteq Nat
  OBVIOUS
<1>2. IsFiniteSet(A)
  <2> HIDE DEF A
  <2> QED
    BY <1>1, FS_Subset
<1>3. \A i \in K : g[i] \in P /\ g[i] \in Nat /\ i \in Nat
  BY DEF Rising
<1>4. \A i \in K : i <= k <=> g[i] <= g[k]
  <2>1. ASSUME NEW i \in K PROVE i <= k <=> g[i] <= g[k]
    <3>1. (i < k => g[i] < g[k]) /\ (k < i => g[k] < g[i])
      BY DEF Rising
    <3> QED
      BY <1>3, <3>1
  <2> QED
    BY <2>1
<1>5. Rising(g, A, B)
  <2>1. \A i \in A : g[i] \in B
    BY <1>3, <1>4
  <2>2. \A p \in B : \E i \in A : g[i] = p
    <3>1. ASSUME NEW p \in B PROVE \E i \in A : g[i] = p
      <4>1. PICK i \in K : g[i] = p
        BY DEF Rising
      <4> QED
        BY <1>4, <4>1
    <3> QED
      BY <3>1
  <2> QED
    BY <2>1, <2>2 DEF Rising
<1> HIDE DEF A, B
<1>6. Cardinality(B) = Cardinality(A)
  BY <1>1, <1>2, <1>5, SameNumber
<1> QED
  BY <1>6 DEF Rank, A, B

-----------------------------------------------------------------------------
(* The golden run's blocks e and its instructions t: block k takes up the  *)
(* places behind off[k - 1] up to off[k].                                  *)
Laid(e, n, t, off) ==
  /\ n \in Nat /\ e \in [1 .. n -> Insns]
  /\ off \in [0 .. n -> Nat] /\ off[0] = 0
  /\ \A k \in 1 .. n : off[k] = off[k - 1] + Len(Filter(e[k]))
  /\ t \in [1 .. off[n] -> Insns]
  /\ \A k \in 1 .. n : \A j \in 1 .. Len(Filter(e[k])) :
       t[off[k - 1] + j] = Filter(e[k])[j]

InBlock(off, k, p) == off[k - 1] < p /\ p <= off[k]

LEMMA LaidBlock ==
  ASSUME NEW e, NEW n, NEW t, NEW off, Laid(e, n, t, off), NEW k \in 1 .. n
  PROVE  \E l \in Nat \ {0} :
           /\ l = Len(Filter(e[k])) /\ e[k] \in Insns
           /\ k - 1 \in 0 .. n /\ k \in 0 .. n /\ off[k - 1] \in Nat /\ off[k] \in Nat
           /\ off[k] = off[k - 1] + l
<1>1. n \in Nat /\ e[k] \in Insns
  BY DEF Laid
<1>2. k - 1 \in 0 .. n /\ k \in 0 .. n
  BY <1>1
<1>3. Len(Filter(e[k])) \in Nat \ {0}
  BY <1>1, CodedIs DEF Coded
<1> QED
  BY <1>1, <1>2, <1>3 DEF Laid

LEMMA OffsetsRise ==
  ASSUME NEW e, NEW n, NEW t, NEW off, Laid(e, n, t, off), NEW i \in 0 .. n, NEW k \in 0 .. n, i < k
  PROVE  off[i] < off[k]
<1> DEFINE T == {x \in 0 .. n : i < x /\ ~ (off[i] < off[x])}
<1>1. SUFFICES ASSUME T # {} PROVE FALSE
  OBVIOUS
<1>2. T \subseteq Nat
  OBVIOUS
<1>3. PICK x \in T : \A y \in T : x <= y
  <2> HIDE DEF T
  <2> QED
    BY <1>1, <1>2, Smallest
<1>4. n \in Nat /\ \A y \in 0 .. n : off[y] \in Nat
  BY DEF Laid
<1>5. x \in 1 .. n /\ x - 1 \in 0 .. n /\ i < x
  BY <1>3, <1>4
<1>6. off[x] > off[x - 1] /\ off[x] \in Nat /\ off[x - 1] \in Nat
  <2>1. PICK l \in Nat \ {0} : off[x] = off[x - 1] + l /\ off[x - 1] \in Nat
    BY <1>5, LaidBlock
  <2> QED
    BY <2>1
<1>7. CASE i = x - 1
  BY <1>3, <1>6, <1>7
<1>8. CASE i < x - 1
  <2>1. x - 1 \notin T
    BY <1>3, <1>5
  <2>2. off[i] < off[x - 1]
    BY <1>5, <1>8, <2>1
  <2> QED
    BY <1>3, <1>4, <1>6, <2>2
<1> QED
  BY <1>5, <1>7, <1>8

LEMMA BlockFound ==
  ASSUME NEW e, NEW n, NEW t, NEW off, Laid(e, n, t, off), NEW p \in 1 .. off[n]
  PROVE  \E k \in 1 .. n : InBlock(off, k, p)
<1> DEFINE T == {x \in 0 .. n : p <= off[x]}
<1>1. n \in Nat /\ off[0] = 0 /\ \A y \in 0 .. n : off[y] \in Nat
  BY DEF Laid
<1>2. T # {} /\ T \subseteq Nat
  <2>1. n \in T
    BY <1>1
  <2> QED
    BY <2>1
<1>3. PICK k \in T : \A y \in T : k <= y
  <2> HIDE DEF T
  <2> QED
    BY <1>2, Smallest
<1>4. k # 0
  BY <1>1, <1>3
<1>5. k \in 1 .. n /\ k - 1 \in 0 .. n /\ k - 1 \notin T
  BY <1>1, <1>3, <1>4
<1>6. off[k - 1] < p
  BY <1>1, <1>5
<1> QED
  BY <1>3, <1>5, <1>6 DEF InBlock

(* Places of different blocks are in the order of the blocks. *)
LEMMA BlocksInOrder ==
  ASSUME NEW e, NEW n, NEW t, NEW off, Laid(e, n, t, off),
         NEW k \in 1 .. n, NEW p \in Nat, InBlock(off, k, p),
         NEW i \in 1 .. n, NEW q \in Nat, InBlock(off, i, q), k < i
  PROVE  p < q
<1>1. n \in Nat /\ \A y \in 0 .. n : off[y] \in Nat
  BY DEF Laid
<1>2. k \in 0 .. n /\ i - 1 \in 0 .. n
  BY <1>1
<1>3. off[k] <= off[i - 1]
  <2>1. CASE k = i - 1
    BY <1>1, <1>2, <2>1
  <2>2. CASE k < i - 1
    <3>1. off[k] < off[i - 1]
      BY <1>2, <2>2, OffsetsRise
    <3> QED
      BY <1>1, <1>2, <3>1
  <2> QED
    BY <2>1, <2>2
<1> QED
  BY <1>1, <1>2, <1>3 DEF InBlock

LEMMA BlockOnce ==
  ASSUME NEW e, NEW n, NEW t, NEW off, Laid(e, n, t, off), NEW p \in Nat,
         NEW k \in 1 .. n, InBlock(off, k, p), NEW i \in 1 .. n, InBlock(off, i, p)
  PROVE  i = k
<1>1. ~ (k < i)
  <2> SUFFICES ASSUME k < i PROVE FALSE
    OBVIOUS
  <2>1. p < p
    BY BlocksInOrder
  <2> QED
    BY <2>1
<1>2. ~ (i < k)
  <2> SUFFICES ASSUME i < k PROVE FALSE
    OBVIOUS
  <2>1. p < p
    BY BlocksInOrder
  <2> QED
    BY <2>1
<1> QED
  BY <1>1, <1>2

(* Where an instruction of block k is executed. *)
PosOf(e, off, k, ins) == off[k - 1] + Rank(Body(e[k]), ins)

LEMMA PosIs ==
  ASSUME NEW e, NEW n, NEW t, NEW off, Laid(e, n, t, off), NEW k \in 1 .. n,
         NEW ins \in Body(e[k])
  PROVE  /\ PosOf(e, off, k, ins) \in 1 .. off[n] /\ InBlock(off, k, PosOf(e, off, k, ins))
         /\ t[PosOf(e, off, k, ins)] = ins
<1>1. PICK l \in Nat \ {0} :
        /\ l = Len(Filter(e[k])) /\ e[k] \in Insns
        /\ k - 1 \in 0 .. n /\ k \in 0 .. n /\ off[k - 1] \in Nat /\ off[k] \in Nat
        /\ off[k] = off[k - 1] + l
  BY LaidBlock
<1>2. PICK j : j = Rank(Body(e[k]), ins)
  OBVIOUS
<1>3. j \in 1 .. l /\ Filter(e[k])[j] = ins
  BY <1>1, <1>2, CodedIs DEF Coded
<1>4. t[off[k - 1] + j] = ins
  BY <1>1, <1>3 DEF Laid
<1>5. off[k] <= off[n] /\ off[n] \in Nat
  <2>1. n \in Nat /\ n \in 0 .. n /\ off[n] \in Nat
    BY DEF Laid
  <2>2. CASE k = n
    BY <2>1, <2>2
  <2>3. CASE k < n
    <3>1. off[k] < off[n]
      BY <1>1, <2>1, <2>3, OffsetsRise
    <3> QED
      BY <1>1, <2>1, <3>1
  <2> QED
    BY <2>1, <2>2, <2>3
<1>6. off[k - 1] + j \in 1 .. off[n]
  BY <1>1, <1>3, <1>5
<1>7. InBlock(off, k, off[k - 1] + j)
  BY <1>1, <1>3 DEF InBlock
<1> QED
  BY <1>2, <1>4, <1>6, <1>7 DEF PosOf

LEMMA InsnAt ==
  ASSUME NEW e, NEW n, NEW t, NEW off, Laid(e, n, t, off), NEW k \in 1 .. n,
         NEW p \in Nat, InBlock(off, k, p)
  PROVE  t[p] \in Body(e[k]) /\ PosOf(e, off, k, t[p]) = p
<1>1. PICK l \in Nat \ {0} :
        /\ l = Len(Filter(e[k])) /\ e[k] \in Insns
        /\ k - 1 \in 0 .. n /\ k \in 0 .. n /\ off[k - 1] \in Nat /\ off[k] \in Nat
        /\ off[k] = off[k - 1] + l
  BY LaidBlock
<1>2. PICK j : j = p - off[k - 1]
  OBVIOUS
<1>3. j \in 1 .. l /\ p = off[k - 1] + j
  BY <1>1, <1>2 DEF InBlock
<1>4. t[p] = Filter(e[k])[j]
  BY <1>1, <1>3 DEF Laid
<1>5. Filter(e[k])[j] \in Body(e[k]) /\ Rank(Body(e[k]), Filter(e[k])[j]) = j
  BY <1>1, <1>3, CodedIs DEF Coded
<1> QED
  BY <1>3, <1>4, <1>5 DEF PosOf

(* The executions of an instruction, and the blocks that have it.          *)
Blocked(e, n, ins) == {k \in 1 .. n : ins \in Body(e[k])}
Placed(t, m, ins) == {p \in 1 .. m : t[p] = ins}

LEMMA Executed ==
  ASSUME NEW e, NEW n, NEW t, NEW off, Laid(e, n, t, off), NEW ins
  PROVE  /\ IsFiniteSet(Blocked(e, n, ins)) /\ Blocked(e, n, ins) \subseteq Nat
         /\ Placed(t, off[n], ins) \subseteq Nat
         /\ Rising([k \in 1 .. n |-> PosOf(e, off, k, ins)], Blocked(e, n, ins),
                   Placed(t, off[n], ins))
<1>1. PICK K, P : K = Blocked(e, n, ins) /\ P = Placed(t, off[n], ins)
  OBVIOUS
<1>2. PICK g : g = [k \in 1 .. n |-> PosOf(e, off, k, ins)]
  OBVIOUS
<1>3. K \in SUBSET (1 .. n) /\ K \subseteq Nat /\ P \subseteq Nat /\ n \in Nat /\ off[n] \in Nat
  BY <1>1 DEF Blocked, Placed, Laid
<1>4. IsFiniteSet(K)
  BY <1>3, Places
<1>5. \A k \in K : /\ k \in 1 .. n /\ ins \in Body(e[k]) /\ g[k] = PosOf(e, off, k, ins)
  BY <1>1, <1>2 DEF Blocked
<1>6. \A k \in K : g[k] \in P /\ InBlock(off, k, g[k])
  BY <1>1, <1>5, PosIs DEF Placed
<1>7. ASSUME NEW p \in P PROVE \E k \in K : g[k] = p
  <2>1. p \in 1 .. off[n] /\ t[p] = ins /\ p \in Nat
    BY <1>1, <1>3 DEF Placed
  <2>2. PICK k \in 1 .. n : InBlock(off, k, p)
    BY <2>1, BlockFound
  <2>3. ins \in Body(e[k]) /\ PosOf(e, off, k, ins) = p
    BY <2>1, <2>2, InsnAt
  <2> QED
    BY <1>1, <1>2, <2>2, <2>3 DEF Blocked
<1>8. ASSUME NEW i \in K, NEW k \in K, i < k PROVE g[i] < g[k]
  <2>1. g[i] \in Nat /\ g[k] \in Nat
    BY <1>3, <1>6
  <2> QED
    BY <1>5, <1>6, <1>8, <2>1, BlocksInOrder
<1>9. Rising(g, K, P)
  BY <1>6, <1>7, <1>8 DEF Rising
<1> QED
  BY <1>1, <1>2, <1>3, <1>4, <1>9

LEMMA ExecutedRanks ==
  ASSUME NEW e, NEW n, NEW t, NEW off, Laid(e, n, t, off), NEW ins,
         NEW k \in Blocked(e, n, ins)
  PROVE  Rank(Placed(t, off[n], ins), PosOf(e, off, k, ins)) = Rank(Blocked(e, n, ins), k)
<1>1. PICK K, P : K = Blocked(e, n, ins) /\ P = Placed(t, off[n], ins)
  OBVIOUS
<1>2. PICK g : g = [x \in 1 .. n |-> PosOf(e, off, x, ins)]
  OBVIOUS
<1>3. IsFiniteSet(K) /\ K \subseteq Nat /\ P \subseteq Nat /\ Rising(g, K, P) /\ k \in K
  BY <1>1, <1>2, Executed
<1>4. Rank(P, g[k]) = Rank(K, k)
  <2>1. PICK h, x : h = g /\ x = k
    OBVIOUS
  <2>2. IsFiniteSet(K) /\ K \subseteq Nat /\ P \subseteq Nat /\ Rising(h, K, P) /\ x \in K
    BY <1>3, <2>1
  <2>3. Rank(P, h[x]) = Rank(K, x)
    BY <2>2, SameRank, ZenonT(40)
  <2> QED
    BY <2>1, <2>3
<1>5. k \in 1 .. n
  BY DEF Blocked
<1>6. g[k] = PosOf(e, off, k, ins)
  BY <1>2, <1>5
<1> QED
  BY <1>1, <1>4, <1>6

-----------------------------------------------------------------------------
(* The golden run as the triggers and wildcards find it. *)
Run(n, off) ==
  /\ Laid(tbexec, n, trace, off)
  /\ n = Len(tbexec) /\ DOMAIN tbexec = 1 .. n
  /\ off[n] = Len(trace) /\ DOMAIN trace = 1 .. off[n]

LEMMA OccurrencesAre ==
  ASSUME NEW n, NEW off, Run(n, off), NEW ins
  PROVE  Occurrences(ins) = Placed(trace, off[n], ins)
BY DEF Run, Occurrences, Placed

(* trigger_hitcounter is the number an execution has in the run.           *)
LEMMA HitcounterExact ==
  ASSUME NEW n, NEW off, Run(n, off), NEW k \in 1 .. n, NEW p \in Nat, InBlock(off, k, p)
  PROVE  /\ NumberOf(p) = trigger_hitcounter(k, trace[p])
         /\ trace[p] \in Body(tbexec[k])
<1>1. Laid(tbexec, n, trace, off) /\ n \in Nat /\ tbexec \in [1 .. n -> Insns]
  BY DEF Run, Laid
<1>2. PICK ins : ins = trace[p]
  OBVIOUS
<1>3. ins \in Body(tbexec[k]) /\ PosOf(tbexec, off, k, ins) = p
  BY <1>1, <1>2, InsnAt
<1>4. PICK K, P, g : /\ K = Blocked(tbexec, n, ins) /\ P = Placed(trace, off[n], ins)
                     /\ g = [x \in 1 .. n |-> PosOf(tbexec, off, x, ins)]
  OBVIOUS
<1>5. IsFiniteSet(K) /\ K \subseteq Nat /\ P \subseteq Nat /\ Rising(g, K, P)
  BY <1>1, <1>4, Executed
<1>6. k \in K /\ g[k] = p
  BY <1>3, <1>4 DEF Blocked
<1>7. Rank(P, p) = Rank(K, k)
  BY <1>1, <1>3, <1>4, <1>6, ExecutedRanks
<1>8. NumberOf(p) = Rank(P, p)
  <2>1. Occurrences(ins) = P
    BY <1>4, OccurrencesAre
  <2> QED
    BY <1>2, <2>1 DEF NumberOf, Rank
<1>9. Rank(K, k) = Cardinality(Having(ins, k))
  <2>1. {x \in K : x <= k} = Having(ins, k)
    BY <1>1, <1>4 DEF Blocked, Having
  <2> QED
    BY <2>1 DEF Rank
<1>10. trigger_hitcounter(k, ins) = Cardinality(Having(ins, k))
  BY <1>1, <1>3, HitcounterIs
<1> QED
  BY <1>2, <1>3, <1>7, <1>8, <1>9, <1>10

-----------------------------------------------------------------------------
(* The execution a fault is about. *)
LEMMA RankOnce ==
  ASSUME NEW S, IsFiniteSet(S), S \subseteq Nat, NEW i \in S, NEW k \in S, Rank(S, i) = Rank(S, k)
  PROVE  i = k
<1>1. /\ \A x \in S : Rank(S, x) \in 1 .. Cardinality(S)
      /\ \A x, y \in S : x < y => Rank(S, x) < Rank(S, y)
  BY RankIs
<1>2. Rank(S, i) \in Nat
  BY <1>1
<1>3. ~ (i < k) /\ ~ (k < i)
  BY <1>1, <1>2
<1> QED
  BY <1>3

HitsOf(a) ==
  {p \in DOMAIN trace : trace[p] <= a /\ a < trace[p] + InsnSize[trace[p]]}
HitOf(a, h) == CHOOSE p \in HitsOf(a) : Cardinality({q \in HitsOf(a) : q <= p}) = h

LEMMA FindIs ==
  ASSUME NEW n, NEW off, Run(n, off), NEW a \in Nat, NEW h \in Nat \ {0}
  PROVE  \/ /\ find_fault(a, h) = 0 /\ Cardinality(HitsOf(a)) < h
         \/ /\ find_fault(a, h) \in 1 .. n /\ ~ (Cardinality(HitsOf(a)) < h)
            /\ Spans(allign_fault_to_instruction(a), a)
            /\ allign_fault_to_instruction(a) \in Body(tbexec[find_fault(a, h)])
            /\ HitOf(a, h) = PosOf(tbexec, off, find_fault(a, h), allign_fault_to_instruction(a))
<1>1. /\ Laid(tbexec, n, trace, off) /\ n \in Nat /\ tbexec \in [1 .. n -> Insns]
      /\ DOMAIN tbexec = 1 .. n /\ DOMAIN trace = 1 .. off[n] /\ trace \in [1 .. off[n] -> Insns]
  BY DEF Run, Laid
<1>2. PICK M : M = {k \in 1 .. n : tbexec[k] <= a /\ a <= TbEnd(tbexec[k])}
  OBVIOUS
<1>3. M = {k \in 1 .. n : \E i \in Body(tbexec[k]) : Spans(i, a)}
  <2>1. \A k \in 1 .. n : tbexec[k] \in Insns
    BY <1>1
  <2> QED
    BY <1>2, <2>1, Covering
<1>4. HitsOf(a) = {p \in 1 .. off[n] : Spans(trace[p], a)}
  BY <1>1 DEF HitsOf, Spans
<1>5. find_fault(a, h) = IF h > Cardinality(M) THEN 0
                         ELSE CHOOSE k \in M : Cardinality({j \in M : j <= k}) = h
  BY <1>1, <1>2 DEF find_fault
<1>6. \A k \in 1 .. n : Body(tbexec[k]) \subseteq Insns
  BY <1>1, BodyIs
<1>7. CASE \E i \in Insns : Spans(i, a)
  <2>1. PICK ins \in Insns : Spans(ins, a)
    BY <1>7
  <2>2. \A i \in Insns : Spans(i, a) => i = ins
    BY <2>1, SpanOnce
  <2>3. allign_fault_to_instruction(a) = ins
    <3>1. allign_fault_to_instruction(a) = CHOOSE i \in Insns : Spans(i, a)
      BY DEF allign_fault_to_instruction, Spans
    <3>2. PICK c : c = CHOOSE i \in Insns : Spans(i, a)
      OBVIOUS
    <3>3. c \in Insns /\ Spans(c, a)
      BY <2>1, <3>2
    <3> QED
      BY <2>2, <3>1, <3>2, <3>3
  <2>4. PICK K, P, g : /\ K = Blocked(tbexec, n, ins) /\ P = Placed(trace, off[n], ins)
                       /\ g = [x \in 1 .. n |-> PosOf(tbexec, off, x, ins)]
    OBVIOUS
  <2>5. IsFiniteSet(K) /\ K \subseteq Nat /\ P \subseteq Nat /\ Rising(g, K, P)
    BY <1>1, <2>4, Executed
  <2>6. M = K
    BY <1>3, <1>6, <2>1, <2>2, <2>4 DEF Blocked
  <2>7. HitsOf(a) = P
    <3>1. \A p \in 1 .. off[n] : trace[p] \in Insns
      BY <1>1
    <3> QED
      BY <1>4, <2>1, <2>2, <2>4, <3>1 DEF Placed
  <2>8. IsFiniteSet(P) /\ Cardinality(P) = Cardinality(K) /\ Cardinality(K) \in Nat
    BY <2>5, SameNumber, FS_CardinalityType
  <2>9. CASE h > Cardinality(K)
    BY <1>5, <2>6, <2>7, <2>8, <2>9
  <2>10. CASE ~ (h > Cardinality(K))
    <3>1. PICK k \in K : Rank(K, k) = h
      <4>1. h \in 1 .. Cardinality(K)
        BY <2>8, <2>10
      <4> QED
        BY <2>5, <4>1, RankOnto DEF RankedBy
    <3>2. PICK f : f = find_fault(a, h)
      OBVIOUS
    <3>3. f \in K /\ Rank(K, f) = h
      <4>1. f = CHOOSE x \in K : Rank(K, x) = h
        BY <1>5, <2>6, <2>10, <3>2 DEF Rank
      <4> QED
        BY <3>1, <4>1
    <3>4. f \in 1 .. n /\ ins \in Body(tbexec[f])
      BY <2>4, <3>3 DEF Blocked
    <3>5. g[f] = PosOf(tbexec, off, f, ins)
      BY <2>4, <3>4
    <3>6. g[f] \in P /\ Rank(P, g[f]) = h
      <4>1. Rank(P, g[f]) = Rank(K, f)
        BY <1>1, <2>4, <3>3, <3>5, ExecutedRanks
      <4> QED
        BY <2>5, <3>3, <4>1 DEF Rising
    <3>7. HitOf(a, h) = g[f]
      <4>1. HitOf(a, h) = CHOOSE p \in P : Rank(P, p) = h
        BY <2>7 DEF HitOf, Rank
      <4>2. PICK c : c = CHOOSE p \in P : Rank(P, p) = h
        OBVIOUS
      <4>3. c \in P /\ Rank(P, c) = h
        BY <3>6, <4>2
      <4>4. c = g[f]
        BY <2>5, <2>8, <3>6, <4>3, RankOnce
      <4> QED
        BY <4>1, <4>2, <4>4
    <3> QED
      BY <2>1, <2>3, <2>7, <2>8, <2>10, <3>2, <3>4, <3>5, <3>7
  <2> QED
    BY <2>9, <2>10
<1>8. CASE ~ \E i \in Insns : Spans(i, a)
  <2>1. M = {} /\ HitsOf(a) = {}
    <3>1. \A p \in 1 .. off[n] : trace[p] \in Insns
      BY <1>1
    <3> QED
      BY <1>3, <1>4, <1>6, <1>8, <3>1
  <2>2. Cardinality(M) = 0 /\ Cardinality(HitsOf(a)) = 0
    BY <2>1, FS_EmptySet
  <2> QED
    BY <1>5, <2>2
<1> QED
  BY <1>7, <1>8

-----------------------------------------------------------------------------
(* Going back from there. *)
BlockOf(off, n, q) == CHOOSE k \in 1 .. n : InBlock(off, k, q)
StepAt(off, n, q) == [idx |-> BlockOf(off, n, q), ins |-> trace[q]]

LEMMA StepIs ==
  ASSUME NEW n, NEW off, Run(n, off), NEW k \in 1 .. n, NEW q \in Nat, InBlock(off, k, q)
  PROVE  StepAt(off, n, q) = [idx |-> k, ins |-> trace[q]]
<1>1. Laid(tbexec, n, trace, off)
  BY DEF Run
<1>2. PICK c : c = BlockOf(off, n, q)
  OBVIOUS
<1>3. c \in 1 .. n /\ InBlock(off, c, q)
  BY <1>2 DEF BlockOf
<1>4. c = k
  BY <1>1, <1>3, BlockOnce
<1> QED
  BY <1>2, <1>4 DEF StepAt

BackLoop(back, idx, position) ==
  back = [k \in 0 .. idx |->
           [p \in 1 .. position |->
             IF k = 0 THEN NULL
             ELSE IF p > Len(Filter(tbexec[k])) THEN back[k - 1][p - Len(Filter(tbexec[k]))]
             ELSE [idx |-> k,
                   ins |-> Filter(tbexec[k])[Len(Filter(tbexec[k])) - p + 1]]]]

BackPlace(off, n, k, p) == IF p > off[k] THEN NULL ELSE StepAt(off, n, off[k] - p + 1)

(* One block further back. *)
LEMMA BackStep ==
  ASSUME NEW n, NEW off, Run(n, off), NEW k \in 1 .. n, NEW p \in Nat \ {0},
         NEW l, l = Len(Filter(tbexec[k]))
  PROVE  /\ l \in Nat
         /\ p > l => p - l \in Nat \ {0} /\ BackPlace(off, n, k - 1, p - l) = BackPlace(off, n, k, p)
         /\ ~ (p > l) => BackPlace(off, n, k, p)
                           = [idx |-> k, ins |-> Filter(tbexec[k])[l - p + 1]]
<1>1. Laid(tbexec, n, trace, off)
  BY DEF Run
<1>2. /\ l \in Nat \ {0}
      /\ k - 1 \in 0 .. n /\ k \in 0 .. n /\ off[k - 1] \in Nat /\ off[k] \in Nat
      /\ off[k] = off[k - 1] + l
  BY <1>1, LaidBlock
<1>3. ASSUME p > l
      PROVE  p - l \in Nat \ {0} /\ BackPlace(off, n, k - 1, p - l) = BackPlace(off, n, k, p)
  <2>1. p - l \in Nat \ {0} /\ (p - l > off[k - 1] <=> p > off[k])
        /\ off[k - 1] - (p - l) + 1 = off[k] - p + 1
    BY <1>2, <1>3
  <2> QED
    BY <2>1 DEF BackPlace
<1>4. ASSUME ~ (p > l)
      PROVE  BackPlace(off, n, k, p) = [idx |-> k, ins |-> Filter(tbexec[k])[l - p + 1]]
  <2>1. PICK q, j : q = off[k] - p + 1 /\ j = l - p + 1
    OBVIOUS
  <2>2. q \in Nat /\ InBlock(off, k, q) /\ j \in 1 .. l /\ q = off[k - 1] + j /\ ~ (p > off[k])
    <3>1. PICK x, y : x = off[k - 1] /\ y = off[k]
      OBVIOUS
    <3>2. x \in Nat /\ y = x + l /\ l \in Nat \ {0} /\ p \in Nat /\ p # 0
      BY <1>2, <3>1
    <3>3. q = (x + l) - p + 1 /\ j = l - p + 1
      BY <2>1, <3>1, <3>2
    <3>5. p <= l
      BY <1>4, <3>2
    <3>4. j \in 1 .. l /\ q = x + j /\ ~ (p > y) /\ q \in Nat /\ x < q /\ q <= y
      BY <3>2, <3>3, <3>5
    <3> QED
      BY <3>1, <3>4 DEF InBlock
  <2>3. trace[q] = Filter(tbexec[k])[j]
    BY <1>1, <2>2 DEF Laid
  <2>4. StepAt(off, n, q) = [idx |-> k, ins |-> trace[q]]
    BY <2>2, StepIs
  <2> QED
    BY <2>1, <2>2, <2>3, <2>4 DEF BackPlace
<1> QED
  BY <1>2, <1>3, <1>4

LEMMA BackwardsIs ==
  ASSUME NEW n, NEW off, Run(n, off), NEW idx \in 0 .. n, NEW position \in Nat \ {0}
  PROVE  Backwards(idx, position) = BackPlace(off, n, idx, position)
<1> DEFINE W == [k \in 0 .. idx |-> [p \in 1 .. position |-> BackPlace(off, n, k, p)]]
           B == CHOOSE b : BackLoop(b, idx, position)
<1>1. n \in Nat /\ off[0] = 0
  BY DEF Run, Laid
<1>2. BackLoop(W, idx, position)
  <2>1. ASSUME NEW k \in 0 .. idx, NEW p \in 1 .. position
        PROVE  BackPlace(off, n, k, p) =
                 IF k = 0 THEN NULL
                 ELSE IF p > Len(Filter(tbexec[k])) THEN W[k - 1][p - Len(Filter(tbexec[k]))]
                 ELSE [idx |-> k, ins |-> Filter(tbexec[k])[Len(Filter(tbexec[k])) - p + 1]]
    <3>1. CASE k = 0
      BY <1>1, <3>1 DEF BackPlace
    <3>2. CASE k # 0
      <4>1. PICK l : l = Len(Filter(tbexec[k]))
        OBVIOUS
      <4>2. k \in 1 .. n /\ p \in Nat \ {0} /\ k - 1 \in 0 .. idx
        BY <1>1, <3>2
      <4>3. /\ l \in Nat
            /\ p > l => p - l \in Nat \ {0}
                        /\ BackPlace(off, n, k - 1, p - l) = BackPlace(off, n, k, p)
            /\ ~ (p > l) => BackPlace(off, n, k, p)
                              = [idx |-> k, ins |-> Filter(tbexec[k])[l - p + 1]]
        BY <4>1, <4>2, BackStep
      <4>4. ASSUME p > l PROVE W[k - 1][p - l] = BackPlace(off, n, k, p)
        <5>1. p - l \in 1 .. position
          BY <4>3, <4>4
        <5> QED
          BY <4>2, <4>3, <4>4, <5>1
      <4> HIDE DEF W
      <4> QED
        BY <3>2, <4>1, <4>3, <4>4
    <3> QED
      BY <3>1, <3>2
  <2>2. W = [k \in 0 .. idx |-> [p \in 1 .. position |->
               IF k = 0 THEN NULL
               ELSE IF p > Len(Filter(tbexec[k])) THEN W[k - 1][p - Len(Filter(tbexec[k]))]
               ELSE [idx |-> k, ins |-> Filter(tbexec[k])[Len(Filter(tbexec[k])) - p + 1]]]]
    <3> DEFINE E(k, p) ==
               IF k = 0 THEN NULL
               ELSE IF p > Len(Filter(tbexec[k])) THEN W[k - 1][p - Len(Filter(tbexec[k]))]
               ELSE [idx |-> k, ins |-> Filter(tbexec[k])[Len(Filter(tbexec[k])) - p + 1]]
    <3>1. \A k \in 0 .. idx : \A p \in 1 .. position : BackPlace(off, n, k, p) = E(k, p)
      BY <2>1
    <3> HIDE DEF E
    <3>2. \A k \in 0 .. idx : [p \in 1 .. position |-> BackPlace(off, n, k, p)]
                                = [p \in 1 .. position |-> E(k, p)]
      BY <3>1
    <3>3. W = [k \in 0 .. idx |-> [p \in 1 .. position |-> E(k, p)]]
      BY <3>2
    <3> QED
      BY <3>3 DEF E
  <2> HIDE DEF W
  <2> QED
    BY <2>2 DEF BackLoop
<1>3. BackLoop(B, idx, position)
  <2> HIDE DEF W
  <2> QED
    BY <1>2
<1>4. Backwards(idx, position) = B[idx][position]
  BY DEF Backwards, BackLoop
<1> HIDE DEF W
<1>5. PICK b : b = B
  OBVIOUS
<1> HIDE DEF B
<1>6. BackLoop(b, idx, position)
  BY <1>3, <1>5
<1>7. ASSUME NEW k \in 0 .. idx, NEW p \in 1 .. position
      PROVE  b[k][p] = IF k = 0 THEN NULL
                       ELSE IF p > Len(Filter(tbexec[k]))
                       THEN b[k - 1][p - Len(Filter(tbexec[k]))]
                       ELSE [idx |-> k,
                             ins |-> Filter(tbexec[k])[Len(Filter(tbexec[k])) - p + 1]]
  <2>1. b[k] = [x \in 1 .. position |->
             IF k = 0 THEN NULL
             ELSE IF x > Len(Filter(tbexec[k])) THEN b[k - 1][x - Len(Filter(tbexec[k]))]
             ELSE [idx |-> k,
                   ins |-> Filter(tbexec[k])[Len(Filter(tbexec[k])) - x + 1]]]
    <3>1. k \in 0 .. idx
      OBVIOUS
    <3> QED
      BY <1>6, <3>1, Zenon DEF BackLoop
  <2>2. p \in 1 .. position
    OBVIOUS
  <2> QED
    BY <2>1, <2>2, Zenon
<1> DEFINE T == {k \in 0 .. idx : \E p \in 1 .. position : b[k][p] # BackPlace(off, n, k, p)}
<1>8. T = {}
  <2> SUFFICES ASSUME T # {} PROVE FALSE
    OBVIOUS
  <2>1. T \subseteq Nat
    OBVIOUS
  <2>2. PICK k \in T : \A x \in T : k <= x
    <3> HIDE DEF T
    <3> QED
      BY <2>1, Smallest
  <2>3. PICK p \in 1 .. position : b[k][p] # BackPlace(off, n, k, p)
    BY <2>2
  <2>4. k # 0
    <3> SUFFICES ASSUME k = 0 PROVE FALSE
      OBVIOUS
    <3>1. b[k][p] = NULL
      BY <1>7
    <3> QED
      BY <1>1, <2>3, <3>1 DEF BackPlace
  <2>5. PICK l : l = Len(Filter(tbexec[k]))
    OBVIOUS
  <2>6. k \in 0 .. idx /\ k \in 1 .. n /\ p \in Nat \ {0} /\ k - 1 \in 0 .. idx /\ k - 1 \notin T
    BY <1>1, <2>2, <2>4
  <2>7. /\ l \in Nat
        /\ p > l => p - l \in Nat \ {0}
                    /\ BackPlace(off, n, k - 1, p - l) = BackPlace(off, n, k, p)
        /\ ~ (p > l) => BackPlace(off, n, k, p)
                          = [idx |-> k, ins |-> Filter(tbexec[k])[l - p + 1]]
    BY <2>5, <2>6, BackStep
  <2>8. CASE p > l
    <3>1. p - l \in 1 .. position
      BY <2>7, <2>8
    <3>2. b[k][p] = b[k - 1][p - l]
      BY <1>7, <2>4, <2>5, <2>6, <2>8
    <3>3. b[k - 1][p - l] = BackPlace(off, n, k - 1, p - l)
      BY <2>6, <3>1
    <3> QED
      BY <2>3, <2>7, <2>8, <3>2, <3>3
  <2>9. CASE ~ (p > l)
    <3>1. b[k][p] = [idx |-> k, ins |-> Filter(tbexec[k])[l - p + 1]]
      BY <1>7, <2>4, <2>5, <2>6, <2>9
    <3> QED
      BY <2>3, <2>7, <2>9, <3>1
  <2> QED
    BY <2>8, <2>9
<1>9. idx \in 0 .. idx /\ position \in 1 .. position
  BY <1>1
<1> QED
  BY <1>4, <1>5, <1>8, <1>9

LEMMA TriggerPlaceIs ==
  ASSUME NEW n, NEW off, Run(n, off), NEW idx \in 1 .. n, NEW ins \in Body(tbexec[idx]),
         NEW position \in Nat \ {0}, NEW at, at = PosOf(tbexec, off, idx, ins)
  PROVE  /\ at \in Nat
         /\ TriggerPlace(idx, ins, position)
              = IF at - position > 0 THEN StepAt(off, n, at - position) ELSE NULL
<1>1. Laid(tbexec, n, trace, off) /\ n \in Nat
  BY DEF Run, Laid
<1>2. PICK filt, l, S : filt = Filter(tbexec[idx]) /\ l = Len(filt) /\ S = Body(tbexec[idx])
  OBVIOUS
<1>3. /\ l \in Nat \ {0} /\ tbexec[idx] \in Insns
      /\ idx - 1 \in 0 .. n /\ off[idx - 1] \in Nat /\ off[idx] \in Nat
      /\ off[idx] = off[idx - 1] + l
  BY <1>1, <1>2, LaidBlock
<1>4. /\ DOMAIN filt = 1 .. l
      /\ \A j \in 1 .. l : filt[j] \in S /\ Rank(S, filt[j]) = j
      /\ \A i \in S : Rank(S, i) \in 1 .. l /\ filt[Rank(S, i)] = i
  BY <1>2, <1>3, CodedIs DEF Coded
<1>5. PICK i : i = CHOOSE j \in DOMAIN filt : filt[j] = ins
  OBVIOUS
<1>6. i \in 1 .. l /\ filt[i] = ins /\ i = Rank(S, ins)
  <2>1. Rank(S, ins) \in DOMAIN filt /\ filt[Rank(S, ins)] = ins
    BY <1>2, <1>4
  <2>2. i \in DOMAIN filt /\ filt[i] = ins
    BY <1>5, <2>1
  <2> QED
    BY <1>4, <2>2
<1>7. at = off[idx - 1] + i /\ at \in Nat
  BY <1>2, <1>3, <1>6 DEF PosOf
<1>8. CASE i > position
  <2>1. PICK q, j : q = at - position /\ j = i - position
    OBVIOUS
  <2>2. j \in 1 .. l /\ q \in Nat /\ q > 0 /\ q = off[idx - 1] + j /\ InBlock(off, idx, q)
    BY <1>3, <1>6, <1>7, <1>8, <2>1 DEF InBlock
  <2>3. trace[q] = filt[j]
    BY <1>1, <1>2, <2>2 DEF Laid
  <2>4. StepAt(off, n, q) = [idx |-> idx, ins |-> trace[q]]
    BY <2>2, StepIs
  <2>5. TriggerPlace(idx, ins, position) = [idx |-> idx, ins |-> filt[j]]
    BY <1>2, <1>5, <1>8, <2>1 DEF TriggerPlace
  <2> QED
    BY <1>7, <2>1, <2>2, <2>3, <2>4, <2>5
<1>9. CASE ~ (i > position)
  <2>1. PICK r : r = position - i + 1
    OBVIOUS
  <2>2. /\ r \in Nat \ {0} /\ (r > off[idx - 1] <=> ~ (at - position > 0))
        /\ off[idx - 1] - r + 1 = at - position
    BY <1>3, <1>6, <1>7, <1>9, <2>1
  <2>3. Backwards(idx - 1, r) = BackPlace(off, n, idx - 1, r)
    BY <1>3, <2>2, BackwardsIs
  <2>4. TriggerPlace(idx, ins, position) = Backwards(idx - 1, r)
    BY <1>2, <1>5, <1>9, <2>1 DEF TriggerPlace
  <2> QED
    BY <1>7, <2>2, <2>3, <2>4 DEF BackPlace
<1> QED
  BY <1>7, <1>8, <1>9

BeforeLoop(before, idx) ==
  before = [k \in 0 .. idx - 1 |->
             IF k = 0 THEN 0 ELSE before[k - 1] + Len(Filter(tbexec[k]))]

(* The instructions run up to an execution are its number in the run.      *)
LEMMA LifespanIs ==
  ASSUME NEW n, NEW off, Run(n, off), NEW idx \in 1 .. n, NEW ins \in Body(tbexec[idx])
  PROVE  calculate_lifespan_from_start(idx, ins) = PosOf(tbexec, off, idx, ins)
<1> DEFINE W == [k \in 0 .. idx - 1 |-> off[k]]
           B == CHOOSE b : BeforeLoop(b, idx)
<1>1. Laid(tbexec, n, trace, off) /\ n \in Nat /\ off[0] = 0
  BY DEF Run, Laid
<1>2. ASSUME NEW k \in 0 .. idx - 1
      PROVE  /\ k # 0 => k - 1 \in 0 .. idx - 1 /\ off[k] = off[k - 1] + Len(Filter(tbexec[k]))
             /\ k \in 0 .. n
  <2>1. CASE k = 0
    BY <1>1, <2>1
  <2>2. CASE k # 0
    <3>1. k \in 1 .. n /\ k - 1 \in 0 .. idx - 1 /\ k \in 0 .. n
      BY <1>1, <2>2
    <3> QED
      BY <1>1, <3>1 DEF Laid
  <2> QED
    BY <2>1, <2>2
<1>3. BeforeLoop(W, idx)
  <2>1. \A k \in 0 .. idx - 1 :
          off[k] = IF k = 0 THEN 0 ELSE W[k - 1] + Len(Filter(tbexec[k]))
    BY <1>1, <1>2
  <2>2. W = [k \in 0 .. idx - 1 |-> IF k = 0 THEN 0 ELSE W[k - 1] + Len(Filter(tbexec[k]))]
    BY <2>1
  <2> HIDE DEF W
  <2> QED
    BY <2>2 DEF BeforeLoop
<1>4. BeforeLoop(B, idx)
  <2> HIDE DEF W
  <2> QED
    BY <1>3
<1>5. calculate_lifespan_from_start(idx, ins) = B[idx - 1] + Rank(Body(tbexec[idx]), ins)
  BY DEF calculate_lifespan_from_start, BeforeLoop, Rank
<1> HIDE DEF W
<1>6. PICK b : b = B
  OBVIOUS
<1> HIDE DEF B
<1>7. b = [k \in 0 .. idx - 1 |-> IF k = 0 THEN 0 ELSE b[k - 1] + Len(Filter(tbexec[k]))]
  BY <1>4, <1>6 DEF BeforeLoop
<1>8. \A k \in 0 .. idx - 1 : b[k] = IF k = 0 THEN 0 ELSE b[k - 1] + Len(Filter(tbexec[k]))
  BY <1>7
<1> DEFINE T == {k \in 0 .. idx - 1 : b[k] # off[k]}
<1>9. T = {}
  <2> SUFFICES ASSUME T # {} PROVE FALSE
    OBVIOUS
  <2>1. T \subseteq Nat
    OBVIOUS
  <2>2. PICK k \in T : \A x \in T : k <= x
    <3> HIDE DEF T
    <3> QED
      BY <2>1, Smallest
  <2>3. k # 0
    BY <1>1, <1>8, <2>2
  <2>4. k - 1 \in 0 .. idx - 1 /\ k - 1 \notin T /\ off[k] = off[k - 1] + Len(Filter(tbexec[k]))
    BY <1>2, <2>2, <2>3
  <2>5. b[k] = b[k - 1] + Len(Filter(tbexec[k]))
    BY <1>8, <2>2, <2>3
  <2> QED
    BY <2>2, <2>4, <2>5
<1>10. b[idx - 1] = off[idx - 1]
  BY <1>1, <1>9
<1> QED
  BY <1>5, <1>6, <1>10 DEF PosOf

-----------------------------------------------------------------------------
(* The triggers. *)
Ahead(f) == f.trigger_address < 0 /\ f.hitcounter # 0

(* There is no execution the fault could take effect at. *)
Void(f) ==
  Cardinality(HitsOf(f.address)) < f.hitcounter \/ f.lifespan \in 1 .. (-f.trigger_address - 1)

Resolved(f, r) ==
  LET trigger == HitOf(f.address, f.hitcounter) + f.trigger_address
  IN  IF trigger > 0
      THEN trigger \in DOMAIN trace /\ r = Trigger(trace[trigger], NumberOf(trigger), f.lifespan)
      ELSE r = Trigger(f.address, 0, IF f.lifespan = 0 THEN 0 ELSE f.lifespan + trigger)

LEMMA PlaceNotNull ==
  ASSUME NEW n, NEW off, Run(n, off), NEW q \in Nat, q > 0, q <= off[n]
  PROVE  \E k \in 1 .. n : /\ InBlock(off, k, q) /\ q \in DOMAIN trace
                           /\ StepAt(off, n, q) = [idx |-> k, ins |-> trace[q]]
                           /\ StepAt(off, n, q) # NULL
<1>1. /\ Laid(tbexec, n, trace, off) /\ n \in Nat /\ DOMAIN trace = 1 .. off[n]
      /\ off[n] \in Nat /\ trace \in [1 .. off[n] -> Insns]
  BY DEF Run, Laid
<1>2. q \in 1 .. off[n]
  BY <1>1
<1>3. PICK k \in 1 .. n : InBlock(off, k, q)
  BY <1>1, <1>2, BlockFound
<1>4. StepAt(off, n, q) = [idx |-> k, ins |-> trace[q]]
  BY <1>3, StepIs
<1>5. k \in Nat /\ trace[q] \in Nat
  BY <1>1, <1>2, <1>3, SizeIs
<1>6. [idx |-> k, ins |-> trace[q]] \in [idx : Nat, ins : Nat]
  BY <1>5
<1>7. NULL \notin [idx : Nat, ins : Nat]
  BY ConfigAssumption
<1> QED
  BY <1>1, <1>2, <1>3, <1>4, <1>6, <1>7

LEMMA TriggerIs ==
  ASSUME NEW n, NEW off, Run(n, off), NEW f \in FaultSpec, Ahead(f)
  PROVE  IF Void(f) THEN calculate_trigger_address(f) = Unresolved(f)
         ELSE Resolved(f, calculate_trigger_address(f))
              /\ find_insn_addresses_in_tb(calculate_trigger_address(f).address)
<1>1. PICK a, t, h, s : a = f.address /\ t = f.trigger_address /\ h = f.hitcounter /\ s = f.lifespan
  OBVIOUS
<1>2. a \in Nat /\ t \in Int /\ h \in Nat /\ s \in Nat /\ t < 0 /\ h # 0
  BY <1>1 DEF FaultSpec, Ahead
<1>3. s \in 1 .. (-t - 1) <=> s # 0 /\ t + s < 0
  BY <1>2
<1>4. calculate_trigger_address(f) = IF s # 0 /\ t + s < 0 THEN Unresolved(f)
                                     ELSE search_for_fault_location(f)
  BY <1>1, <1>2 DEF calculate_trigger_address
<1>5. PICK idx, ins, at : /\ idx = find_fault(a, h) /\ ins = allign_fault_to_instruction(a)
                          /\ at = HitOf(a, h)
  OBVIOUS
<1>6. h \in Nat \ {0}
  BY <1>2
<1>7. \/ idx = 0 /\ Cardinality(HitsOf(a)) < h
      \/ /\ idx \in 1 .. n /\ ~ (Cardinality(HitsOf(a)) < h) /\ Spans(ins, a)
         /\ ins \in Body(tbexec[idx]) /\ at = PosOf(tbexec, off, idx, ins)
  BY <1>2, <1>5, <1>6, FindIs
<1>8. PICK place : place = TriggerPlace(idx, ins, -t)
  OBVIOUS
<1>9. search_for_fault_location(f) =
        IF idx = 0 THEN Unresolved(f)
        ELSE IF place = NULL
        THEN Trigger(a, 0, IF s > 0 THEN calculate_lifespan_from_start(idx, ins) + t + s ELSE 0)
        ELSE Trigger(place.ins, trigger_hitcounter(place.idx, place.ins), s)
  BY <1>1, <1>5, <1>8 DEF search_for_fault_location
<1>10. Void(f) <=> Cardinality(HitsOf(a)) < h \/ s \in 1 .. (-t - 1)
  BY <1>1 DEF Void
<1>11. CASE s \in 1 .. (-t - 1)
  BY <1>3, <1>4, <1>10, <1>11
<1>12. CASE ~ (s \in 1 .. (-t - 1)) /\ idx = 0 /\ Cardinality(HitsOf(a)) < h
  BY <1>3, <1>4, <1>9, <1>10, <1>12
<1>13. CASE /\ ~ (s \in 1 .. (-t - 1))
            /\ idx \in 1 .. n /\ ~ (Cardinality(HitsOf(a)) < h) /\ Spans(ins, a)
            /\ ins \in Body(tbexec[idx]) /\ at = PosOf(tbexec, off, idx, ins)
  <2>1. /\ Laid(tbexec, n, trace, off) /\ n \in Nat /\ tbexec \in [1 .. n -> Insns]
        /\ DOMAIN tbexec = 1 .. n
    BY DEF Run, Laid
  <2>2. -t \in Nat \ {0}
    BY <1>2
  <2>3. at \in Nat /\ place = IF at - (-t) > 0 THEN StepAt(off, n, at - (-t)) ELSE NULL
    BY <1>8, <1>13, <2>2, TriggerPlaceIs
  <2>4. at - (-t) = at + t
    BY <1>2, <2>3
  <2>5. at \in 1 .. off[n] /\ off[n] \in Nat
    <3>1. at \in 1 .. off[n]
      BY <1>13, <2>1, PosIs
    <3>2. n \in 0 .. n
      BY <2>1
    <3> QED
      BY <2>1, <3>1, <3>2 DEF Laid
  <2>6. ~ Void(f) /\ idx # 0
    BY <1>2, <1>10, <1>13
  <2>7. PICK r : r = calculate_trigger_address(f)
    OBVIOUS
  <2>8. r = IF place = NULL
            THEN Trigger(a, 0, IF s > 0 THEN calculate_lifespan_from_start(idx, ins) + t + s ELSE 0)
            ELSE Trigger(place.ins, trigger_hitcounter(place.idx, place.ins), s)
    BY <1>3, <1>4, <1>9, <1>13, <2>6, <2>7
  <2>9. CASE at + t > 0
    <3>1. PICK q : q = at + t
      OBVIOUS
    <3>2. q \in Nat /\ q > 0 /\ q <= off[n]
      BY <1>2, <2>5, <2>9, <3>1
    <3>3. PICK k \in 1 .. n : /\ InBlock(off, k, q) /\ q \in DOMAIN trace
                              /\ StepAt(off, n, q) = [idx |-> k, ins |-> trace[q]]
                              /\ StepAt(off, n, q) # NULL
      BY <3>2, PlaceNotNull
    <3>4. place = [idx |-> k, ins |-> trace[q]] /\ place # NULL
      BY <2>3, <2>4, <2>9, <3>1, <3>3
    <3>5. NumberOf(q) = trigger_hitcounter(k, trace[q]) /\ trace[q] \in Body(tbexec[k])
      BY <3>2, <3>3, HitcounterExact
    <3>6. place.idx = k /\ place.ins = trace[q]
      BY <3>4
    <3>7. r = Trigger(trace[q], NumberOf(q), s)
      BY <2>8, <3>4, <3>5, <3>6
    <3>8. Resolved(f, r)
      BY <1>1, <1>5, <2>9, <3>1, <3>3, <3>7 DEF Resolved
    <3>9. find_insn_addresses_in_tb(r.address)
      <4>1. r.address = trace[q]
        BY <3>7 DEF Trigger
      <4>2. tbexec[k] \in Insns
        BY <2>1
      <4>3. trace[q] \in Insns /\ tbexec[k] <= trace[q] /\ trace[q] <= LastInsn(tbexec[k])
        BY <3>5, <4>2, BodyIs
      <4>4. trace[q] <= TbEnd(tbexec[k])
        BY <4>2, <4>3, EndIs
      <4> QED
        BY <2>1, <4>1, <4>3, <4>4 DEF find_insn_addresses_in_tb
    <3> QED
      BY <2>6, <2>7, <3>8, <3>9
  <2>10. CASE ~ (at + t > 0)
    <3>1. place = NULL
      BY <2>3, <2>4, <2>10
    <3>2. calculate_lifespan_from_start(idx, ins) = at
      BY <1>13, LifespanIs
    <3>3. r = Trigger(a, 0, IF s = 0 THEN 0 ELSE s + (at + t))
      <4>1. (IF s > 0 THEN at + t + s ELSE 0) = IF s = 0 THEN 0 ELSE s + (at + t)
        BY <1>2, <2>3
      <4> QED
        BY <2>8, <3>1, <3>2, <4>1
    <3>4. Resolved(f, r)
      BY <1>1, <1>5, <2>10, <3>3 DEF Resolved
    <3>5. find_insn_addresses_in_tb(r.address)
      <4>1. r.address = a
        BY <3>3 DEF Trigger
      <4>2. tbexec[idx] <= a /\ a <= TbEnd(tbexec[idx])
        BY <1>2, <1>13, <2>1, Covering
      <4> QED
        BY <1>13, <2>1, <4>1, <4>2 DEF find_insn_addresses_in_tb
    <3> QED
      BY <2>6, <2>7, <3>4, <3>5
  <2> QED
    BY <2>9, <2>10
<1> QED
  BY <1>7, <1>11, <1>12, <1>13

Config ==
  LET triggers == [k \in DOMAIN FaultSpecs |-> calculate_trigger_address(FaultSpecs[k])]
  IN  [k \in DOMAIN triggers |-> [trigger |-> triggers[k],
                                  delete  |-> k \in checktriggers_in_tb(triggers)]]

LEMMA ConfigExact ==
  ASSUME NEW n, NEW off, Run(n, off), NEW k \in DOMAIN FaultSpecs, Ahead(FaultSpecs[k])
  PROVE  TriggerExact(FaultSpecs[k], Config[k])
<1> DEFINE triggers == [j \in DOMAIN FaultSpecs |-> calculate_trigger_address(FaultSpecs[j])]
           Exempt(j) == triggers[j].hitcounter = 0 /\ FaultSpecs[j].model = "OVERWRITE"
<1>1. PICK f, c, r : f = FaultSpecs[k] /\ c = Config[k] /\ r = calculate_trigger_address(f)
  OBVIOUS
<1>2. PICK m \in Nat : DOMAIN FaultSpecs = 1 .. m /\ FaultSpecs \in [1 .. m -> FaultSpec]
  <2>1. FaultSpecs \in Seq(FaultSpec)
    BY ConfigAssumption
  <2> QED
    BY <2>1, LenProperties
<1>3. f \in FaultSpec /\ Ahead(f) /\ k \in 1 .. m /\ k \in 1 .. k
  BY <1>1, <1>2
<1>4. triggers[k] = r /\ DOMAIN triggers = DOMAIN FaultSpecs
  BY <1>1
<1>5. k \in checktriggers_in_tb(triggers)
        <=> /\ ~ find_insn_addresses_in_tb(r.address)
            /\ \E j \in 1 .. k : triggers[j].address = r.address /\ ~ Exempt(j)
  BY <1>4 DEF checktriggers_in_tb
<1>6. c.trigger = r /\ c.delete = (k \in checktriggers_in_tb(triggers))
  BY <1>1, <1>4 DEF Config
<1> HIDE DEF triggers
<1>7. CASE Void(f)
  <2>1. r = Unresolved(f)
    BY <1>1, <1>3, <1>7, TriggerIs
  <2>2. r.address = -1 /\ r.hitcounter = f.hitcounter
    BY <2>1 DEF Unresolved, Trigger
  <2>3. ~ find_insn_addresses_in_tb(r.address)
    <3>1. \A x \in DOMAIN tbexec : ~ (tbexec[x] <= -1)
      <4>1. \A x \in DOMAIN tbexec : tbexec[x] \in Nat
        <5>1. DOMAIN tbexec = 1 .. n /\ tbexec \in [1 .. n -> Insns]
          BY DEF Run, Laid
        <5> QED
          BY <5>1, SizeIs
      <4> QED
        BY <4>1
    <3> QED
      BY <2>2, <3>1 DEF find_insn_addresses_in_tb
  <2>4. ~ Exempt(k)
    BY <1>3, <1>4, <2>2 DEF Ahead
  <2>5. c.delete
    BY <1>3, <1>4, <1>5, <1>6, <2>3, <2>4
  <2> QED
    BY <1>1, <1>7, <2>5 DEF TriggerExact, Void, HitsOf
<1>8. CASE ~ Void(f)
  <2>1. Resolved(f, r) /\ find_insn_addresses_in_tb(r.address)
    BY <1>1, <1>3, <1>8, TriggerIs
  <2>2. ~ c.delete
    BY <1>5, <1>6, <2>1
  <2>3. PICK trigger : trigger = HitOf(f.address, f.hitcounter) + f.trigger_address
    OBVIOUS
  <2>4. IF trigger > 0
        THEN r = Trigger(trace[trigger], NumberOf(trigger), f.lifespan)
        ELSE r.hitcounter = 0
             /\ r.lifespan = IF f.lifespan = 0 THEN 0 ELSE f.lifespan + trigger
    BY <2>1, <2>3 DEF Resolved, Trigger
  <2> QED
    BY <1>1, <1>6, <1>8, <2>2, <2>3, <2>4 DEF TriggerExact, Void, HitsOf, HitOf
<1> QED
  BY <1>7, <1>8

-----------------------------------------------------------------------------
(* Wildcards.  How often an instruction was run in the first p steps.      *)
Ran(ins, p) == {q \in 1 .. p : trace[q] = ins}
Seen(ins, p) == Cardinality(Ran(ins, p))

LEMMA RanFinite ==
  ASSUME NEW ins, NEW p \in Nat
  PROVE  IsFiniteSet(Ran(ins, p)) /\ Ran(ins, p) \subseteq Nat /\ Seen(ins, p) \in Nat
<1>1. Ran(ins, p) \in SUBSET (1 .. p)
  BY DEF Ran
<1>2. IsFiniteSet(Ran(ins, p)) /\ Ran(ins, p) \subseteq Nat
  BY <1>1, Places
<1> QED
  BY <1>2, FS_CardinalityType DEF Seen

LEMMA SeenNone == \A ins : Seen(ins, 0) = 0
<1>1. \A ins : Ran(ins, 0) = {}
  BY DEF Ran
<1> QED
  BY <1>1, FS_EmptySet DEF Seen

LEMMA SeenStep ==
  ASSUME NEW ins, NEW p \in Nat \ {0}
  PROVE  /\ p - 1 \in Nat /\ Seen(ins, p - 1) \in Nat
         /\ Seen(ins, p) = IF trace[p] = ins THEN Seen(ins, p - 1) + 1 ELSE Seen(ins, p - 1)
<1>1. p - 1 \in Nat /\ 1 .. p = (1 .. p - 1) \cup {p} /\ p \notin 1 .. p - 1
  OBVIOUS
<1>2. IsFiniteSet(Ran(ins, p - 1)) /\ Seen(ins, p - 1) \in Nat
  BY <1>1, RanFinite
<1>3. CASE trace[p] = ins
  <2>1. Ran(ins, p) = Ran(ins, p - 1) \cup {p} /\ p \notin Ran(ins, p - 1)
    BY <1>1, <1>3 DEF Ran
  <2>2. Cardinality(Ran(ins, p - 1) \cup {p}) = Cardinality(Ran(ins, p - 1)) + 1
    BY <1>2, <2>1, FS_AddElement
  <2> QED
    BY <1>1, <1>2, <1>3, <2>1, <2>2 DEF Seen
<1>4. CASE trace[p] # ins
  <2>1. Ran(ins, p) = Ran(ins, p - 1)
    BY <1>1, <1>4 DEF Ran
  <2> QED
    BY <1>1, <1>2, <1>4, <2>1 DEF Seen
<1> QED
  BY <1>3, <1>4

LEMMA SeenGrows ==
  ASSUME NEW ins, NEW p \in Nat, NEW q \in Nat, p <= q
  PROVE  Seen(ins, p) <= Seen(ins, q) /\ (p < q /\ trace[q] = ins => Seen(ins, p) < Seen(ins, q))
<1>1. ASSUME NEW x \in Nat, NEW y \in Nat, x <= y PROVE Seen(ins, x) <= Seen(ins, y)
  <2>1. Ran(ins, x) \in SUBSET Ran(ins, y)
    BY <1>1 DEF Ran
  <2>2. IsFiniteSet(Ran(ins, y))
    BY RanFinite
  <2> QED
    BY <2>1, <2>2, FS_Subset DEF Seen
<1>2. ASSUME p < q, trace[q] = ins PROVE Seen(ins, p) < Seen(ins, q)
  <2>1. q \in Nat \ {0} /\ q - 1 \in Nat /\ p <= q - 1
    BY <1>2
  <2>2. Seen(ins, q) = Seen(ins, q - 1) + 1 /\ Seen(ins, q - 1) \in Nat
    BY <1>2, <2>1, SeenStep
  <2>3. Seen(ins, p) <= Seen(ins, q - 1) /\ Seen(ins, p) \in Nat
    BY <1>1, <2>1, RanFinite
  <2> QED
    BY <2>2, <2>3
<1>3. Seen(ins, p) <= Seen(ins, q)
  BY <1>1
<1> QED
  BY <1>2, <1>3

LEMMA NumberSeen ==
  ASSUME NEW n, NEW off, Run(n, off), NEW p \in 1 .. off[n]
  PROVE  NumberOf(p) = Seen(trace[p], p)
<1>1. off[n] \in Nat /\ DOMAIN trace = 1 .. off[n]
  <2>1. n \in 0 .. n
    BY DEF Run, Laid
  <2> QED
    BY <2>1 DEF Run, Laid
<1>2. {q \in Occurrences(trace[p]) : q <= p} = Ran(trace[p], p)
  BY <1>1 DEF Occurrences, Ran
<1> QED
  BY <1>2 DEF NumberOf, Seen

(* The h-th execution is there once there have been h. *)
LEMMA NthSeen ==
  ASSUME NEW ins, NEW p \in Nat, NEW h \in Nat \ {0}
  PROVE  h <= Seen(ins, p) <=> \E q \in 1 .. p : trace[q] = ins /\ Seen(ins, q) = h
<1>1. IsFiniteSet(Ran(ins, p)) /\ Ran(ins, p) \subseteq Nat /\ Seen(ins, p) \in Nat
  BY RanFinite
<1>2. ASSUME h <= Seen(ins, p) PROVE \E q \in 1 .. p : trace[q] = ins /\ Seen(ins, q) = h
  <2>1. h \in 1 .. Cardinality(Ran(ins, p))
    BY <1>1, <1>2 DEF Seen
  <2>2. PICK q \in Ran(ins, p) : Rank(Ran(ins, p), q) = h
    BY <1>1, <2>1, RankOnto DEF RankedBy
  <2>3. q \in 1 .. p /\ trace[q] = ins
    BY DEF Ran
  <2>4. {x \in Ran(ins, p) : x <= q} = Ran(ins, q)
    BY <2>3 DEF Ran
  <2> QED
    BY <2>2, <2>3, <2>4 DEF Rank, Seen
<1>3. ASSUME NEW q \in 1 .. p, Seen(ins, q) = h PROVE h <= Seen(ins, p)
  <2>1. q \in Nat /\ q <= p
    OBVIOUS
  <2> QED
    BY <1>3, <2>1, SeenGrows
<1> QED
  BY <1>2, <1>3

(* Sorting a set with a new largest element. *)
LEMMA SortedGrows ==
  ASSUME NEW S, IsFiniteSet(S), S \subseteq Nat, NEW p \in Nat, \A x \in S : x < p
  PROVE  LET m == Cardinality(S)
         IN  /\ m \in Nat /\ DOMAIN Sorted(S) = 1 .. m /\ DOMAIN Sorted(S \cup {p}) = 1 .. m + 1
             /\ \A j \in 1 .. m : Sorted(S)[j] \in S /\ Sorted(S \cup {p})[j] = Sorted(S)[j]
             /\ Sorted(S \cup {p})[m + 1] = p
<1>1. PICK m, R, s, r : m = Cardinality(S) /\ R = S \cup {p} /\ s = Sorted(S) /\ r = Sorted(R)
  OBVIOUS
<1>2. /\ m \in Nat /\ s \in [1 .. m -> S] /\ \A j \in 1 .. m : Rank(S, s[j]) = j
  BY <1>1, SortedIs
<1>3. p \notin S /\ \A x \in S : x \in Nat
  OBVIOUS
<1>4. IsFiniteSet(R) /\ R \subseteq Nat /\ Cardinality(R) = m + 1
  <2>1. IsFiniteSet(S \cup {p}) /\ Cardinality(S \cup {p}) = Cardinality(S) + 1
    BY <1>3, FS_AddElement
  <2> QED
    BY <1>1, <2>1
<1>5. /\ r \in [1 .. Cardinality(R) -> R]
      /\ \A i \in R : Rank(R, i) \in 1 .. Cardinality(R) /\ r[Rank(R, i)] = i
  BY <1>1, <1>4, SortedIs
<1>6. Rank(R, p) = m + 1
  <2>0. \A x \in R : x <= p
    <3>1. ASSUME NEW x \in R PROVE x <= p
      <4>1. CASE x = p
        BY <4>1
      <4>2. CASE x \in S
        BY <4>2, <1>3
      <4> QED
        BY <4>1, <4>2, <1>1
    <3> QED
      BY <3>1
  <2>1. {x \in R : x <= p} = R
    BY <2>0
  <2> QED
    BY <1>4, <2>1 DEF Rank
<1>7. \A x \in S : Rank(R, x) = Rank(S, x)
  <2>1. \A x \in S : {y \in R : y <= x} = {y \in S : y <= x}
    BY <1>1, <1>3
  <2> QED
    BY <2>1 DEF Rank
<1>8. r[m + 1] = p
  BY <1>1, <1>5, <1>6
<1>9. \A j \in 1 .. m : s[j] \in S /\ r[j] = s[j]
  <2>1. ASSUME NEW j \in 1 .. m PROVE s[j] \in S /\ r[j] = s[j]
    <3>1. s[j] \in S /\ s[j] \in R /\ Rank(S, s[j]) = j
      BY <1>1, <1>2
    <3>2. Rank(R, s[j]) = j
      BY <1>7, <3>1
    <3> QED
      BY <1>5, <3>1, <3>2
  <2> QED
    BY <2>1
<1>10. DOMAIN s = 1 .. m /\ DOMAIN r = 1 .. m + 1
  BY <1>2, <1>4, <1>5
<1> QED
  BY <1>1, <1>2, <1>8, <1>9, <1>10

-----------------------------------------------------------------------------
(* The steps of the walk over the run are its instructions. *)
WalkLoop(walked, n) ==
  walked = [k \in 0 .. n |->
             IF k = 0 THEN <<>>
             ELSE walked[k - 1] \o [j \in DOMAIN Filter(tbexec[k]) |-> <<k, Filter(tbexec[k])[j]>>]]

Steps(off, n, m) == [p \in 1 .. m |-> <<BlockOf(off, n, p), trace[p]>>]

LEMMA StepsGrow ==
  ASSUME NEW n, NEW off, Run(n, off), NEW k \in 1 .. n
  PROVE  Steps(off, n, off[k])
           = Steps(off, n, off[k - 1])
               \o [j \in DOMAIN Filter(tbexec[k]) |-> <<k, Filter(tbexec[k])[j]>>]
<1>1. Laid(tbexec, n, trace, off)
  BY DEF Run
<1>2. PICK l \in Nat \ {0} :
        /\ l = Len(Filter(tbexec[k])) /\ tbexec[k] \in Insns
        /\ k - 1 \in 0 .. n /\ k \in 0 .. n /\ off[k - 1] \in Nat /\ off[k] \in Nat
        /\ off[k] = off[k - 1] + l
  BY <1>1, LaidBlock
<1>3. DOMAIN Filter(tbexec[k]) = 1 .. l
  BY <1>2, CodedIs DEF Coded
<1>4. PICK m, A, B, C : /\ m = off[k - 1] /\ A = Steps(off, n, m) /\ C = Steps(off, n, m + l)
                        /\ B = [j \in 1 .. l |-> <<k, Filter(tbexec[k])[j]>>]
  OBVIOUS
<1>5. \A j \in 1 .. l : C[m + j] = B[j] /\ m + j \in 1 .. m + l
  <2>1. ASSUME NEW j \in 1 .. l PROVE C[m + j] = B[j] /\ m + j \in 1 .. m + l
    <3>1. PICK q : q = m + j
      OBVIOUS
    <3>2. q \in Nat /\ q \in 1 .. m + l /\ InBlock(off, k, q)
      BY <1>2, <1>4, <3>1 DEF InBlock
    <3>3. StepAt(off, n, q) = [idx |-> k, ins |-> trace[q]]
      BY <3>2, StepIs
    <3>4. BlockOf(off, n, q) = k
      BY <3>3 DEF StepAt
    <3>5. trace[q] = Filter(tbexec[k])[j]
      BY <1>1, <1>2, <1>4, <3>1 DEF Laid
    <3>6. C[q] = <<BlockOf(off, n, q), trace[q]>>
      BY <1>4, <3>2 DEF Steps
    <3>7. B[j] = <<k, Filter(tbexec[k])[j]>>
      BY <1>4
    <3> QED
      BY <3>1, <3>2, <3>4, <3>5, <3>6, <3>7
  <2> QED
    BY <2>1
<1>6. m \in Nat /\ DOMAIN A = 1 .. m /\ DOMAIN B = 1 .. l /\ DOMAIN C = 1 .. m + l
  BY <1>2, <1>4 DEF Steps
<1>7. \A i \in 1 .. m : A[i] = C[i]
  BY <1>4, <1>6 DEF Steps
<1> DEFINE U == {A[i] : i \in 1 .. m} \cup {B[j] : j \in 1 .. l}
<1>8. A \in Seq(U) /\ B \in Seq(U) /\ Len(A) = m /\ Len(B) = l
  <2>1. A = [i \in 1 .. m |-> A[i]] /\ B = [j \in 1 .. l |-> B[j]]
    BY <1>4 DEF Steps
  <2>2. A \in [1 .. m -> U] /\ B \in [1 .. l -> U]
    BY <2>1
  <2>3. A \in Seq(U) /\ B \in Seq(U)
    <3> HIDE DEF U
    <3>1. m \in Nat /\ l \in Nat
      BY <1>2, <1>6
    <3>2. A \in Seq(U)
      BY <2>2, <3>1
    <3>3. B \in Seq(U)
      BY <2>2, <3>1
    <3> QED
      BY <3>2, <3>3
  <2> HIDE DEF U
  <2>4. Len(A) = m /\ Len(B) = l
    BY <1>2, <1>6, <2>3, LenProperties
  <2> QED
    BY <2>3, <2>4
<1> HIDE DEF U
<1>9. A \o B = C
  <2>1. /\ A \o B \in Seq(U) /\ Len(A \o B) = m + l
        /\ \A i \in 1 .. m + l : (A \o B)[i] = IF i <= m THEN A[i] ELSE B[i - m]
    BY <1>6, <1>8, ConcatProperties
  <2>2. DOMAIN (A \o B) = 1 .. m + l /\ A \o B = [i \in 1 .. m + l |-> (A \o B)[i]]
    BY <2>1, LenProperties
  <2>3. C = [i \in 1 .. m + l |-> C[i]]
    BY <1>4, <1>6 DEF Steps
  <2>4. ASSUME NEW i \in 1 .. m + l PROVE (A \o B)[i] = C[i]
    <3>1. CASE i <= m
      <4>1. i \in 1 .. m
        BY <1>6, <3>1
      <4> QED
        BY <1>7, <2>1, <3>1, <4>1
    <3>2. CASE ~ (i <= m)
      <4>1. i - m \in 1 .. l /\ m + (i - m) = i
        BY <1>2, <1>6, <3>2
      <4> QED
        BY <1>5, <2>1, <3>2, <4>1
    <3> QED
      BY <3>1, <3>2
  <2> QED
    BY <2>2, <2>3, <2>4
<1> QED
  BY <1>2, <1>3, <1>4, <1>9

LEMMA WalkedIs ==
  ASSUME NEW n, NEW off, Run(n, off)
  PROVE  Walked = Steps(off, n, off[n])
<1> DEFINE W == [k \in 0 .. n |-> Steps(off, n, off[k])]
           B == CHOOSE b : WalkLoop(b, n)
           Added(k) == [j \in DOMAIN Filter(tbexec[k]) |-> <<k, Filter(tbexec[k])[j]>>]
<1>1. Laid(tbexec, n, trace, off) /\ n \in Nat /\ off[0] = 0 /\ n = Len(tbexec)
  BY DEF Run, Laid
<1>2. Steps(off, n, off[0]) = << >>
  <2>1. 1 .. 0 = {} /\ \A f : DOMAIN f = {} /\ f = [x \in {} |-> f[x]] => f = << >>
    OBVIOUS
  <2>2. PICK s : s = Steps(off, n, 0)
    OBVIOUS
  <2>3. s = [p \in {} |-> <<BlockOf(off, n, p), trace[p]>>]
    BY <2>1, <2>2 DEF Steps
  <2> QED
    BY <1>1, <2>1, <2>2, <2>3
<1>3. ASSUME NEW k \in 0 .. n, k # 0
      PROVE  k - 1 \in 0 .. n /\ Steps(off, n, off[k]) = Steps(off, n, off[k - 1]) \o Added(k)
  <2>1. k \in 1 .. n /\ k - 1 \in 0 .. n
    BY <1>1, <1>3
  <2> QED
    BY <2>1, StepsGrow
<1>4. WalkLoop(W, n)
  <2>1. \A k \in 0 .. n :
          Steps(off, n, off[k]) = IF k = 0 THEN << >> ELSE W[k - 1] \o Added(k)
    <3> SUFFICES ASSUME NEW k \in 0 .. n
                 PROVE  Steps(off, n, off[k]) = IF k = 0 THEN << >> ELSE W[k - 1] \o Added(k)
      OBVIOUS
    <3>1. CASE k = 0
      BY <1>2, <3>1
    <3>2. CASE k # 0
      <4>1. k - 1 \in 0 .. n /\ Steps(off, n, off[k]) = Steps(off, n, off[k - 1]) \o Added(k)
        BY <1>3, <3>2
      <4>2. W[k - 1] = Steps(off, n, off[k - 1])
        BY <4>1
      <4> QED
        BY <3>2, <4>1, <4>2
    <3> QED
      BY <3>1, <3>2
  <2>2. W = [k \in 0 .. n |-> IF k = 0 THEN << >> ELSE W[k - 1] \o Added(k)]
    BY <2>1
  <2> HIDE DEF W
  <2> QED
    BY <2>2 DEF WalkLoop
<1>5. WalkLoop(B, n)
  <2> HIDE DEF W
  <2> QED
    BY <1>4
<1>6. Walked = B[n]
  BY <1>1 DEF Walked, WalkLoop
<1> HIDE DEF W
<1>7. PICK b : b = B
  OBVIOUS
<1> HIDE DEF B
<1>8. b = [k \in 0 .. n |-> IF k = 0 THEN << >> ELSE b[k - 1] \o Added(k)]
  BY <1>5, <1>7 DEF WalkLoop
<1> HIDE DEF Added
<1>9. \A k \in 0 .. n : b[k] = IF k = 0 THEN << >> ELSE b[k - 1] \o Added(k)
  BY <1>8
<1> DEFINE T == {k \in 0 .. n : b[k] # Steps(off, n, off[k])}
<1>10. T = {}
  <2> SUFFICES ASSUME T # {} PROVE FALSE
    OBVIOUS
  <2>1. T \subseteq Nat
    OBVIOUS
  <2>2. PICK k \in T : \A x \in T : k <= x
    <3> HIDE DEF T
    <3> QED
      BY <2>1, Smallest
  <2>3. k # 0
    BY <1>1, <1>2, <1>9, <2>2
  <2>4. k - 1 \in 0 .. n /\ k \in 0 .. n /\ Steps(off, n, off[k]) = Steps(off, n, off[k - 1]) \o Added(k)
    BY <1>3, <2>2, <2>3
  <2>5. ~ (k <= k - 1)
    BY <1>1, <2>4
  <2>6. k - 1 \notin T
    BY <2>2, <2>5
  <2>7. b[k - 1] = Steps(off, n, off[k - 1])
    BY <2>4, <2>6
  <2>8. b[k] = b[k - 1] \o Added(k)
    BY <1>9, <2>3, <2>4
  <2> QED
    BY <2>2, <2>4, <2>7, <2>8
<1>11. n \in 0 .. n
  BY <1>1
<1> QED
  BY <1>6, <1>7, <1>10, <1>11

-----------------------------------------------------------------------------
(* The wildcards: what generate_wildcard_faults has done after so many      *)
(* instructions, without its loop.                                         *)
Begun(w, p) == w.start.hitcounter <= Seen(w.start.address, p)

(* The instruction at which the range ends; there is no other.             *)
WalkEnds(w, p) ==
  /\ p # 0 /\ w.end.hitcounter # 0 /\ trace[p] = w.end.address
  /\ Seen(w.end.address, p) = w.end.hitcounter /\ Begun(w, p - 1)

Upto(w, p) ==
  IF \E q \in 1 .. p : WalkEnds(w, q) THEN CHOOSE q \in 1 .. p : WalkEnds(w, q) ELSE p

Running(w, p) ==
  IF w.local
  THEN \E q \in 1 .. p : /\ trace[q] = w.start.address
                         /\ \A r \in 1 .. p : trace[r] = w.end.address => r < q
  ELSE p # 0

Faulted(w, p) ==
  Begun(w, p) /\ (w.local => InLocalRange(w, p)) /\ trace[p] \notin w.exclude

FaultedTo(w, p) == {q \in 1 .. p : Faulted(w, q)}

WalkState(off, n, w, p) ==
  [to_start |-> IF Begun(w, p) THEN 0 ELSE w.start.hitcounter - Seen(w.start.address, p),
   reached  |-> IF WalkEnds(w, p) THEN BlockOf(off, n, p) ELSE 0,
   ends     |-> Seen(w.end.address, p),
   active   |-> Running(w, p),
   done     |-> WalkEnds(w, p),
   faults   |-> FaultsAt(Sorted(FaultedTo(w, p)))]

Plain(w) == w.end.hitcounter = 0 \/ w.end.address \notin w.exclude

LEMMA WildcardIs ==
  ASSUME NEW w \in WildcardSpecs
  PROVE  /\ w.start.hitcounter \in Nat /\ w.end.hitcounter \in Nat /\ w.local \in BOOLEAN
         /\ w.local => w.end.hitcounter = 0
BY ConfigAssumption DEF WildcardSpec, Point

LEMMA OccursAt ==
  ASSUME NEW n, NEW off, Run(n, off), NEW ins
  PROVE  Occurrences(ins) = {p \in 1 .. off[n] : trace[p] = ins} /\ off[n] \in Nat
         /\ DOMAIN trace = 1 .. off[n]
<1>1. DOMAIN trace = 1 .. off[n]
  BY DEF Run
<1>2. n \in 0 .. n /\ off \in [0 .. n -> Nat]
  BY DEF Run, Laid
<1> QED
  BY <1>1, <1>2 DEF Occurrences

LEMMA RunningStep ==
  ASSUME NEW n, NEW off, Run(n, off), NEW w \in WildcardSpecs, w.local, NEW p \in 1 .. off[n]
  PROVE  /\ InLocalRange(w, p) <=> Running(w, p - 1) \/ trace[p] = w.start.address
         /\ Running(w, p) <=> InLocalRange(w, p) /\ trace[p] # w.end.address
<1>1. PICK a, z, N : a = w.start.address /\ z = w.end.address /\ N = off[n]
  OBVIOUS
<1>2. /\ Occurrences(a) = {q \in 1 .. N : trace[q] = a} /\ N \in Nat
      /\ Occurrences(z) = {q \in 1 .. N : trace[q] = z}
  BY <1>1, OccursAt
<1>3. p \in 1 .. N /\ p \in Nat /\ p - 1 \in Nat
  BY <1>1, <1>2
<1>4. InLocalRange(w, p) <=> \E q \in 1 .. p : trace[q] = a /\ \A r \in 1 .. p - 1 : trace[r] = z => r < q
  <2>1. InLocalRange(w, p)
          <=> \E q \in Occurrences(a) : q <= p /\ \A r \in Occurrences(z) : r < q \/ r >= p
    BY <1>1 DEF InLocalRange
  <2>2. ASSUME NEW q \in Occurrences(a), q <= p, \A r \in Occurrences(z) : r < q \/ r >= p
        PROVE  q \in 1 .. p /\ trace[q] = a /\ \A r \in 1 .. p - 1 : trace[r] = z => r < q
    <3>1. q \in 1 .. p /\ trace[q] = a
      BY <1>2, <1>3, <2>2
    <3>2. ASSUME NEW r \in 1 .. p - 1, trace[r] = z PROVE r < q
      <4>1. r \in 1 .. N /\ ~ (r >= p)
        BY <1>2, <1>3
      <4> QED
        BY <1>2, <2>2, <3>2, <4>1
    <3> QED
      BY <3>1, <3>2
  <2>3. ASSUME NEW q \in 1 .. p, trace[q] = a, \A r \in 1 .. p - 1 : trace[r] = z => r < q
        PROVE  q \in Occurrences(a) /\ q <= p /\ \A r \in Occurrences(z) : r < q \/ r >= p
    <3>1. q \in Occurrences(a) /\ q <= p
      BY <1>2, <1>3, <2>3
    <3>2. ASSUME NEW r \in Occurrences(z) PROVE r < q \/ r >= p
      <4>1. r \in 1 .. N /\ trace[r] = z
        BY <1>2
      <4>2. r >= p \/ r \in 1 .. p - 1
        BY <1>2, <1>3, <4>1
      <4> QED
        BY <2>3, <4>1, <4>2
    <3> QED
      BY <3>1, <3>2
  <2> QED
    BY <2>1, <2>2, <2>3
<1>5. Running(w, p - 1) <=> \E q \in 1 .. p - 1 : trace[q] = a /\ \A r \in 1 .. p - 1 : trace[r] = z => r < q
  BY <1>1 DEF Running
<1>6. Running(w, p) <=> \E q \in 1 .. p : trace[q] = a /\ \A r \in 1 .. p : trace[r] = z => r < q
  BY <1>1 DEF Running
<1>7. InLocalRange(w, p) <=> Running(w, p - 1) \/ trace[p] = a
  <2>1. \A q \in 1 .. p : q = p \/ q \in 1 .. p - 1
    BY <1>3
  <2>2. \A q \in 1 .. p - 1 : q \in 1 .. p /\ q < p
    BY <1>3
  <2>3. p \in 1 .. p
    BY <1>3
  <2> QED
    BY <1>4, <1>5, <2>1, <2>2, <2>3
<1>8. Running(w, p) <=> InLocalRange(w, p) /\ trace[p] # z
  <2>1. ASSUME Running(w, p) PROVE InLocalRange(w, p) /\ trace[p] # z
    <3>1. PICK q \in 1 .. p : trace[q] = a /\ \A r \in 1 .. p : trace[r] = z => r < q
      BY <1>6, <2>1
    <3>2. p \in 1 .. p /\ ~ (p < q) /\ \A r \in 1 .. p - 1 : r \in 1 .. p
      BY <1>3
    <3> QED
      BY <1>4, <3>1, <3>2
  <2>2. ASSUME InLocalRange(w, p), trace[p] # z PROVE Running(w, p)
    <3>1. PICK q \in 1 .. p : trace[q] = a /\ \A r \in 1 .. p - 1 : trace[r] = z => r < q
      BY <1>4, <2>2
    <3>2. \A r \in 1 .. p : r = p \/ r \in 1 .. p - 1
      BY <1>3
    <3>3. \A r \in 1 .. p : trace[r] = z => r < q
      BY <2>2, <3>1, <3>2
    <3> QED
      BY <1>6, <3>1, <3>3
  <2> QED
    BY <2>1, <2>2
<1> QED
  BY <1>1, <1>7, <1>8

(* A further fault is the last one.                                        *)
LEMMA FaultsGrow ==
  ASSUME NEW S, IsFiniteSet(S), S \subseteq Nat, NEW p \in Nat, \A x \in S : x < p
  PROVE  FaultsAt(Sorted(S \cup {p}))
           = Append(FaultsAt(Sorted(S)), [address |-> trace[p], hitcounter |-> NumberOf(p)])
<1> DEFINE F(x) == [address |-> trace[x], hitcounter |-> NumberOf(x)]
<1>1. PICK m, r, s : m = Cardinality(S) /\ s = Sorted(S) /\ r = Sorted(S \cup {p})
  OBVIOUS
<1>2. /\ m \in Nat /\ DOMAIN s = 1 .. m /\ DOMAIN r = 1 .. m + 1
      /\ \A j \in 1 .. m : s[j] \in S /\ r[j] = s[j]
      /\ r[m + 1] = p
  BY <1>1, SortedGrows
<1>3. PICK V : V = {F(x) : x \in S \cup {p}}
  OBVIOUS
<1>4. PICK g, h : g = FaultsAt(s) /\ h = FaultsAt(r)
  OBVIOUS
<1>5. g = [j \in 1 .. m |-> F(s[j])] /\ h = [j \in 1 .. m + 1 |-> F(r[j])]
  BY <1>2, <1>4 DEF FaultsAt
<1>6. F(p) \in V /\ \A x \in S : F(x) \in V
  <2> HIDE DEF F
  <2> QED
    BY <1>3
<1> HIDE DEF F
<1>7. \A j \in 1 .. m : F(s[j]) \in V
  BY <1>2, <1>6
<1>8. g \in [1 .. m -> V]
  BY <1>5, <1>7
<1>9. g \in Seq(V) /\ Len(g) = m
  <2>1. g \in Seq(V) /\ DOMAIN g = 1 .. m
    BY <1>2, <1>8
  <2> QED
    BY <1>2, <2>1, LenProperties
<1>10. PICK a : a = Append(g, F(p))
  OBVIOUS
<1>11. /\ a \in Seq(V) /\ Len(a) = m + 1 /\ \A j \in 1 .. m : a[j] = g[j]
       /\ a[m + 1] = F(p)
  BY <1>6, <1>9, <1>10, AppendProperties
<1>12. a \in [1 .. m + 1 -> V]
  BY <1>11, LenProperties
<1>13. \A j \in 1 .. m + 1 : a[j] = h[j]
  <2>1. ASSUME NEW j \in 1 .. m + 1 PROVE a[j] = h[j]
    <3>1. CASE j = m + 1
      <4>1. h[j] = F(r[j]) /\ r[j] = p
        BY <1>2, <1>5, <3>1
      <4> QED
        BY <1>11, <3>1, <4>1
    <3>2. CASE j # m + 1
      <4>1. j \in 1 .. m
        BY <1>2, <3>2
      <4>2. g[j] = F(s[j]) /\ h[j] = F(r[j]) /\ r[j] = s[j]
        BY <1>2, <1>5, <4>1
      <4> QED
        BY <1>11, <4>1, <4>2
    <3> QED
      BY <3>1, <3>2
  <2> QED
    BY <2>1
<1>14. a = h
  <2>1. DOMAIN a = 1 .. m + 1 /\ DOMAIN h = 1 .. m + 1 /\ h = [j \in 1 .. m + 1 |-> h[j]]
        /\ a = [j \in 1 .. m + 1 |-> a[j]]
    BY <1>5, <1>12
  <2> QED
    BY <1>13, <2>1
<1> QED
  BY <1>1, <1>4, <1>10, <1>14 DEF F

LEMMA FaultedStep ==
  ASSUME NEW n, NEW off, Run(n, off), NEW w, NEW p \in 1 .. off[n]
  PROVE  FaultsAt(Sorted(FaultedTo(w, p)))
           = IF Faulted(w, p)
             THEN Append(FaultsAt(Sorted(FaultedTo(w, p - 1))),
                         [address |-> trace[p],
                          hitcounter |-> trigger_hitcounter(BlockOf(off, n, p), trace[p])])
             ELSE FaultsAt(Sorted(FaultedTo(w, p - 1)))
<1>1. PICK S, R : S = FaultedTo(w, p - 1) /\ R = FaultedTo(w, p)
  OBVIOUS
<1>2. off[n] \in Nat /\ n \in Nat
  <2>1. n \in 0 .. n /\ off \in [0 .. n -> Nat] /\ n \in Nat
    BY DEF Run, Laid
  <2> QED
    BY <2>1
<1>3. p \in Nat /\ p - 1 \in Nat /\ p > 0 /\ p <= off[n]
  BY <1>2
<1>4. 1 .. p = (1 .. p - 1) \cup {p} /\ \A x \in 1 .. p - 1 : x < p
  BY <1>3
<1>5. CASE ~ Faulted(w, p)
  <2>1. R = S
    BY <1>1, <1>4, <1>5 DEF FaultedTo
  <2> QED
    BY <1>1, <1>5, <2>1
<1>6. CASE Faulted(w, p)
  <2>1. R = S \cup {p} /\ \A x \in S : x < p
    BY <1>1, <1>4, <1>6 DEF FaultedTo
  <2>2. S \in SUBSET (1 .. p - 1)
    BY <1>1 DEF FaultedTo
  <2>3. IsFiniteSet(S) /\ S \subseteq Nat
    BY <1>3, <2>2, Places
  <2>4. FaultsAt(Sorted(S \cup {p}))
          = Append(FaultsAt(Sorted(S)), [address |-> trace[p], hitcounter |-> NumberOf(p)])
    BY <1>3, <2>1, <2>3, FaultsGrow
  <2>5. PICK k \in 1 .. n : InBlock(off, k, p) /\ StepAt(off, n, p) = [idx |-> k, ins |-> trace[p]]
    BY <1>3, PlaceNotNull
  <2>6. BlockOf(off, n, p) = k
    BY <2>5 DEF StepAt
  <2>7. NumberOf(p) = trigger_hitcounter(k, trace[p])
    BY <1>3, <2>5, HitcounterExact
  <2> QED
    BY <1>1, <1>6, <2>1, <2>4, <2>6, <2>7
<1> QED
  BY <1>5, <1>6

(* The range ends once.                                                    *)
LEMMA EndsOnce ==
  ASSUME NEW w, NEW p \in Nat, NEW q \in Nat, WalkEnds(w, p), WalkEnds(w, q)
  PROVE  p = q
<1>1. ASSUME NEW x \in Nat, NEW y \in Nat, WalkEnds(w, x), WalkEnds(w, y), x < y PROVE FALSE
  <2>1. Seen(w.end.address, x) = Seen(w.end.address, y) /\ trace[y] = w.end.address
    BY <1>1 DEF WalkEnds
  <2>2. Seen(w.end.address, x) < Seen(w.end.address, y)
    BY <1>1, <2>1, SeenGrows
  <2>3. Seen(w.end.address, x) \in Nat /\ Seen(w.end.address, y) \in Nat
    BY RanFinite
  <2> QED
    BY <2>1, <2>2, <2>3
<1>2. p < q \/ q < p \/ p = q
  OBVIOUS
<1> QED
  BY <1>1, <1>2

LEMMA UptoIs ==
  ASSUME NEW w, NEW p \in Nat
  PROVE  /\ Upto(w, 0) = 0
         /\ \A q \in 1 .. p : WalkEnds(w, q) => Upto(w, p) = q
         /\ (\A q \in 1 .. p : ~ WalkEnds(w, q)) => Upto(w, p) = p
         /\ Upto(w, p) \in 0 .. p /\ (Upto(w, p) # p => WalkEnds(w, Upto(w, p)))
<1>1. Upto(w, 0) = 0
  <2>1. 1 .. 0 = {}
    OBVIOUS
  <2> QED
    BY <2>1 DEF Upto
<1>2. ASSUME NEW q \in 1 .. p, WalkEnds(w, q) PROVE Upto(w, p) = q
  <2>1. PICK c : c = Upto(w, p)
    OBVIOUS
  <2>2. c \in 1 .. p /\ WalkEnds(w, c)
    BY <1>2, <2>1 DEF Upto
  <2>3. c \in Nat /\ q \in Nat
    BY <2>2
  <2> QED
    BY <1>2, <2>1, <2>2, <2>3, EndsOnce
<1>3. ASSUME \A q \in 1 .. p : ~ WalkEnds(w, q) PROVE Upto(w, p) = p
  BY <1>3 DEF Upto
<1>4. Upto(w, p) \in 0 .. p /\ (Upto(w, p) # p => WalkEnds(w, Upto(w, p)))
  <2>1. CASE \E q \in 1 .. p : WalkEnds(w, q)
    <3>1. PICK q \in 1 .. p : WalkEnds(w, q)
      BY <2>1
    <3>2. Upto(w, p) = q /\ q \in 0 .. p
      BY <1>2, <3>1
    <3> QED
      BY <3>1, <3>2
  <2>2. CASE \A q \in 1 .. p : ~ WalkEnds(w, q)
    <3>1. Upto(w, p) = p /\ p \in 0 .. p
      BY <1>3, <2>2
    <3> QED
      BY <3>1
  <2> QED
    BY <2>1, <2>2
<1> QED
  BY <1>1, <1>2, <1>3, <1>4

(* One instruction of the loop. *)
LEMMA WalkStep ==
  ASSUME NEW n, NEW off, Run(n, off), NEW w \in WildcardSpecs, Plain(w), NEW p \in 1 .. off[n],
         ~ WalkEnds(w, p - 1)
  PROVE  WildcardStep(w, WalkState(off, n, w, p - 1), <<BlockOf(off, n, p), trace[p]>>)
           = WalkState(off, n, w, p)
<1>1. off[n] \in Nat
  BY OccursAt
<1>2. p \in Nat \ {0} /\ p - 1 \in Nat
  BY <1>1
<1>3. PICK a, z, A, Z : /\ a = w.start.address /\ z = w.end.address
                        /\ A = w.start.hitcounter /\ Z = w.end.hitcounter
  OBVIOUS
<1>4. A \in Nat /\ Z \in Nat /\ w.local \in BOOLEAN /\ (w.local => Z = 0)
  BY <1>3, WildcardIs
<1>5. PICK k, ins : k = BlockOf(off, n, p) /\ ins = trace[p]
  OBVIOUS
<1>6. PICK x, y : x = Seen(a, p - 1) /\ y = Seen(z, p - 1)
  OBVIOUS
<1>7. /\ x \in Nat /\ y \in Nat
      /\ Seen(a, p) = IF ins = a THEN x + 1 ELSE x
      /\ Seen(z, p) = IF ins = z THEN y + 1 ELSE y
  BY <1>2, <1>5, <1>6, SeenStep
<1>8. k # 0
  <2>1. p > 0 /\ p <= off[n] /\ p \in Nat
    BY <1>1, <1>2
  <2>2. PICK c \in 1 .. n : StepAt(off, n, p) = [idx |-> c, ins |-> trace[p]]
    BY <2>1, PlaceNotNull
  <2>3. n \in Nat
    BY DEF Run, Laid
  <2> QED
    BY <1>5, <2>2, <2>3 DEF StepAt
<1>9. (Begun(w, p - 1) <=> A <= x) /\ (Begun(w, p) <=> A <= Seen(a, p))
  BY <1>3, <1>6 DEF Begun
<1>10. WalkEnds(w, p) <=> Z # 0 /\ ins = z /\ y + 1 = Z /\ A <= x
  BY <1>2, <1>3, <1>5, <1>7, <1>9 DEF WalkEnds
<1>11. PICK s : s = WalkState(off, n, w, p - 1)
  OBVIOUS
<1>12. /\ s.to_start = IF A <= x THEN 0 ELSE A - x
       /\ s.reached = 0 /\ s.ends = y /\ s.active = Running(w, p - 1) /\ s.done = WalkEnds(w, p - 1)
       /\ s.faults = FaultsAt(Sorted(FaultedTo(w, p - 1)))
  BY <1>3, <1>6, <1>9, <1>11 DEF WalkState
<1>13. Ends(w, s, ins) <=> WalkEnds(w, p)
  <2>1. s.to_start = 0 <=> A <= x
    BY <1>4, <1>7, <1>12
  <2> QED
    BY <1>3, <1>10, <1>12, <2>1 DEF Ends
<1> DEFINE reached  == IF Ends(w, s, ins) THEN k ELSE s.reached
           to_start == IF s.to_start # 0 /\ ins = a THEN s.to_start - 1 ELSE s.to_start
           active   == s.active \/ ~ w.local \/ ins = a
           faulted  == to_start = 0 /\ active /\ ins \notin w.exclude
           fault    == [address |-> ins, hitcounter |-> trigger_hitcounter(k, ins)]
<1>14. reached = IF WalkEnds(w, p) THEN k ELSE 0
  BY <1>12, <1>13
<1>15. to_start = (IF Begun(w, p) THEN 0 ELSE A - Seen(a, p)) /\ (to_start = 0 <=> Begun(w, p))
  <2>1. CASE A <= x
    BY <1>4, <1>7, <1>9, <1>12, <2>1
  <2>2. CASE ~ (A <= x) /\ ins = a
    <3>1. s.to_start = A - x /\ A - x # 0
      BY <1>4, <1>7, <1>12, <2>2
    <3>2. to_start = A - x - 1 /\ Seen(a, p) = x + 1
      BY <1>7, <2>2, <3>1
    <3> HIDE DEF to_start
    <3>3. (A <= x + 1 <=> A - x - 1 = 0) /\ A - x - 1 = A - (x + 1)
      BY <1>4, <1>7, <2>2
    <3> QED
      BY <1>9, <3>2, <3>3
  <2>3. CASE ~ (A <= x) /\ ins # a
    <3>1. s.to_start = A - x /\ A - x # 0
      BY <1>4, <1>7, <1>12, <2>3
    <3>2. to_start = A - x /\ Seen(a, p) = x
      BY <1>7, <2>3, <3>1
    <3> HIDE DEF to_start
    <3> QED
      BY <1>9, <2>3, <3>1, <3>2
  <2> QED
    BY <2>1, <2>2, <2>3
<1>16. active <=> (w.local => InLocalRange(w, p))
  <2>1. CASE w.local
    BY <1>3, <1>5, <1>12, <2>1, RunningStep
  <2>2. CASE ~ w.local
    BY <2>2
  <2> QED
    BY <2>1, <2>2
<1>17. faulted <=> Faulted(w, p)
  <2> HIDE DEF to_start, active
  <2> QED
    BY <1>5, <1>15, <1>16 DEF Faulted
<1>18. active /\ ~ (w.local /\ ins = z) <=> Running(w, p)
  <2>1. CASE w.local
    BY <1>3, <1>5, <1>16, <2>1, RunningStep
  <2>2. CASE ~ w.local
    BY <1>2, <2>2 DEF Running
  <2> QED
    BY <2>1, <2>2
<1>19. faulted /\ reached # 0 <=> WalkEnds(w, p)
  <2>1. ASSUME WalkEnds(w, p) PROVE Faulted(w, p)
    <3>1. ~ w.local
      BY <1>4, <1>10, <2>1
    <3>2. A <= Seen(a, p)
      BY <1>4, <1>7, <1>10, <2>1
    <3>3. trace[p] \notin w.exclude
      BY <1>3, <1>5, <1>10, <2>1 DEF Plain
    <3> QED
      BY <1>9, <3>1, <3>2, <3>3 DEF Faulted
  <2> HIDE DEF reached, faulted
  <2> QED
    BY <1>8, <1>14, <1>17, <2>1
<1>20. (IF faulted THEN Append(s.faults, fault) ELSE s.faults) = FaultsAt(Sorted(FaultedTo(w, p)))
  <2>1. FaultsAt(Sorted(FaultedTo(w, p)))
          = IF Faulted(w, p) THEN Append(s.faults, fault) ELSE s.faults
    <3> HIDE DEF faulted, reached, to_start, active
    <3>1. FaultsAt(Sorted(FaultedTo(w, p)))
            = IF Faulted(w, p)
              THEN Append(FaultsAt(Sorted(FaultedTo(w, p - 1))),
                          [address |-> trace[p],
                           hitcounter |-> trigger_hitcounter(BlockOf(off, n, p), trace[p])])
              ELSE FaultsAt(Sorted(FaultedTo(w, p - 1)))
      BY FaultedStep
    <3> QED
      BY <1>5, <1>12, <3>1
  <2> HIDE DEF faulted
  <2> QED
    BY <1>17, <2>1
<1>21. (IF ins = z THEN s.ends + 1 ELSE s.ends) = Seen(z, p)
  BY <1>7, <1>12
<1>22. ~ s.done /\ ~ (s.reached # 0 /\ k > s.reached)
  BY <1>12
<1>23. WildcardStep(w, s, <<k, ins>>)
         = [to_start |-> to_start, reached |-> reached,
            ends   |-> IF ins = z THEN s.ends + 1 ELSE s.ends,
            active |-> active /\ ~ (w.local /\ ins = z),
            done   |-> faulted /\ reached # 0,
            faults |-> IF faulted THEN Append(s.faults, fault) ELSE s.faults]
  BY <1>3, <1>22 DEF WildcardStep
<1>24. WalkState(off, n, w, p)
         = [to_start |-> IF Begun(w, p) THEN 0 ELSE A - Seen(a, p),
            reached  |-> IF WalkEnds(w, p) THEN k ELSE 0,
            ends     |-> Seen(z, p),
            active   |-> Running(w, p),
            done     |-> WalkEnds(w, p),
            faults   |-> FaultsAt(Sorted(FaultedTo(w, p)))]
  BY <1>3, <1>5 DEF WalkState
<1>25. (active /\ ~ (w.local /\ ins = z)) = Running(w, p)
  <2>1. Running(w, p) \in BOOLEAN
    BY DEF Running
  <2> HIDE DEF active
  <2> QED
    BY <1>18, <2>1
<1>26. (faulted /\ reached # 0) = WalkEnds(w, p)
  <2>1. WalkEnds(w, p) \in BOOLEAN
    BY DEF WalkEnds
  <2> HIDE DEF faulted, reached
  <2> QED
    BY <1>19, <2>1
<1> HIDE DEF reached, to_start, active, faulted, fault
<1> QED
  BY <1>5, <1>11, <1>14, <1>15, <1>20, <1>21, <1>23, <1>24, <1>25, <1>26

StartState(w) ==
  [to_start |-> w.start.hitcounter, ends |-> 0, reached |-> 0,
   active |-> FALSE, done |-> FALSE, faults |-> << >>]

ExpandLoop(s, w, steps, m) ==
  s = [p \in 0 .. m |-> IF p = 0 THEN StartState(w) ELSE WildcardStep(w, s[p - 1], steps[p])]

LEMMA StartStateIs ==
  ASSUME NEW n, NEW off, NEW w \in WildcardSpecs
  PROVE  WalkState(off, n, w, 0) = StartState(w)
<1>1. w.start.hitcounter \in Nat
  BY WildcardIs
<1>2. Seen(w.start.address, 0) = 0 /\ Seen(w.end.address, 0) = 0
  BY SeenNone
<1>3. ~ WalkEnds(w, 0) /\ WalkEnds(w, 0) = FALSE
  BY DEF WalkEnds
<1>4. (IF Begun(w, 0) THEN 0 ELSE w.start.hitcounter - Seen(w.start.address, 0)) = w.start.hitcounter
  BY <1>1, <1>2 DEF Begun
<1>5. Running(w, 0) = FALSE
  <2>1. 1 .. 0 = {}
    OBVIOUS
  <2> QED
    BY <2>1 DEF Running
<1>6. FaultsAt(Sorted(FaultedTo(w, 0))) = << >>
  <2>1. FaultedTo(w, 0) = {}
    BY DEF FaultedTo
  <2>2. PICK s : s = Sorted({})
    OBVIOUS
  <2>3. Cardinality({}) = 0 /\ IsFiniteSet({})
    BY FS_EmptySet
  <2>4. DOMAIN s = 1 .. 0 /\ 1 .. 0 = {}
    BY <2>2, <2>3 DEF Sorted
  <2>5. PICK f : f = FaultsAt(s)
    OBVIOUS
  <2>6. DOMAIN f = {} /\ f = [x \in {} |-> f[x]]
    BY <2>4, <2>5 DEF FaultsAt
  <2>7. f = << >>
    BY <2>6
  <2> QED
    BY <2>1, <2>2, <2>5, <2>7
<1> QED
  BY <1>2, <1>3, <1>4, <1>5, <1>6 DEF WalkState, StartState

LEMMA LoopIs ==
  ASSUME NEW n, NEW off, Run(n, off), NEW w \in WildcardSpecs, Plain(w), NEW p \in 1 .. off[n]
  PROVE  WildcardStep(w, WalkState(off, n, w, Upto(w, p - 1)), <<BlockOf(off, n, p), trace[p]>>)
           = WalkState(off, n, w, Upto(w, p))
<1>1. off[n] \in Nat
  BY OccursAt
<1>2. p \in Nat \ {0} /\ p - 1 \in Nat /\ 1 .. p = (1 .. p - 1) \cup {p} /\ p \in 1 .. p
  BY <1>1
<1>3. CASE \E q \in 1 .. p - 1 : WalkEnds(w, q)
  <2>1. PICK q \in 1 .. p - 1 : WalkEnds(w, q)
    BY <1>3
  <2>2. Upto(w, p - 1) = q
    BY <1>2, <2>1, UptoIs
  <2>3. q \in 1 .. p
    BY <1>2
  <2>4. Upto(w, p) = q
    BY <1>2, <2>1, <2>3, UptoIs
  <2>5. PICK s, x : s = WalkState(off, n, w, q) /\ x = <<BlockOf(off, n, p), trace[p]>>
    OBVIOUS
  <2>6. s.done
    BY <2>1, <2>5 DEF WalkState
  <2>7. WildcardStep(w, s, x) = s
    BY <2>6 DEF WildcardStep
  <2> QED
    BY <2>2, <2>4, <2>5, <2>7
<1>4. CASE \A q \in 1 .. p - 1 : ~ WalkEnds(w, q)
  <2>1. Upto(w, p - 1) = p - 1
    BY <1>2, <1>4, UptoIs
  <2>2. Upto(w, p) = p
    <3>1. CASE WalkEnds(w, p)
      BY <1>2, <3>1, UptoIs
    <3>2. CASE ~ WalkEnds(w, p)
      <4>1. \A q \in 1 .. p : ~ WalkEnds(w, q)
        BY <1>2, <1>4, <3>2
      <4> QED
        BY <1>2, <4>1, UptoIs
    <3> QED
      BY <3>1, <3>2
  <2>3. ~ WalkEnds(w, p - 1)
    <3>1. p - 1 = 0 \/ p - 1 \in 1 .. p - 1
      BY <1>2
    <3> QED
      BY <1>4, <3>1 DEF WalkEnds
  <2>4. WildcardStep(w, WalkState(off, n, w, p - 1), <<BlockOf(off, n, p), trace[p]>>)
          = WalkState(off, n, w, p)
    BY <2>3, WalkStep
  <2> QED
    BY <2>1, <2>2, <2>4
<1> QED
  BY <1>3, <1>4

LEMMA ExpansionIs ==
  ASSUME NEW n, NEW off, Run(n, off), NEW w \in WildcardSpecs, Plain(w), NEW M, M = Upto(w, off[n])
  PROVE  generate_wildcard_faults(w)
           = IF ~ Begun(w, M) \/ (w.end.hitcounter # 0 /\ ~ WalkEnds(w, M))
             THEN NULL ELSE FaultsAt(Sorted(FaultedTo(w, M)))
<1>1. PICK N, steps : N = off[n] /\ steps = Steps(off, n, N)
  OBVIOUS
<1>2. N \in Nat
  BY <1>1, OccursAt
<1>3. Walked = steps
  BY <1>1, WalkedIs
<1>4. /\ Len(steps) = N
      /\ \A p \in 1 .. N : steps[p] = <<BlockOf(off, n, p), trace[p]>>
  <2>1. DOMAIN steps = 1 .. N /\ steps = [p \in 1 .. N |-> steps[p]]
        /\ \A p \in 1 .. N : steps[p] = <<BlockOf(off, n, p), trace[p]>>
    BY <1>1 DEF Steps
  <2>2. PICK V : V = {steps[p] : p \in 1 .. N}
    OBVIOUS
  <2>3. \A p \in 1 .. N : steps[p] \in V
    BY <2>2
  <2>4. steps \in [1 .. N -> V]
    BY <2>1, <2>3
  <2>5. steps \in Seq(V)
    BY <1>2, <2>4
  <2>6. Len(steps) = N
    BY <1>2, <2>1, <2>5, LenProperties
  <2> QED
    BY <2>1, <2>6
<1> DEFINE X(p) == WalkState(off, n, w, Upto(w, p))
           W == [p \in 0 .. N |-> X(p)]
           B == CHOOSE s : ExpandLoop(s, w, steps, N)
<1>5. X(0) = StartState(w)
  <2>1. Upto(w, 0) = 0
    BY <1>2, UptoIs
  <2> QED
    BY <2>1, StartStateIs
<1>6. ASSUME NEW p \in 0 .. N, p # 0
      PROVE  p - 1 \in 0 .. N /\ X(p) = WildcardStep(w, X(p - 1), steps[p])
  <2>1. p \in 1 .. N /\ p - 1 \in 0 .. N
    BY <1>2, <1>6
  <2>2. WildcardStep(w, X(p - 1), <<BlockOf(off, n, p), trace[p]>>) = X(p)
    BY <1>1, <2>1, LoopIs
  <2> QED
    BY <1>4, <2>1, <2>2
<1> HIDE DEF X
<1>7. ExpandLoop(W, w, steps, N)
  <2>1. ASSUME NEW p \in 0 .. N
        PROVE  X(p) = IF p = 0 THEN StartState(w) ELSE WildcardStep(w, W[p - 1], steps[p])
    <3>1. CASE p = 0
      BY <1>5, <3>1
    <3>2. CASE p # 0
      <4>1. p - 1 \in 0 .. N /\ X(p) = WildcardStep(w, X(p - 1), steps[p])
        BY <1>6, <3>2
      <4>2. W[p - 1] = X(p - 1)
        BY <4>1
      <4> QED
        BY <3>2, <4>1, <4>2
    <3> QED
      BY <3>1, <3>2
  <2>2. W = [p \in 0 .. N |-> IF p = 0 THEN StartState(w) ELSE WildcardStep(w, W[p - 1], steps[p])]
    BY <2>1
  <2> HIDE DEF W
  <2> QED
    BY <2>2 DEF ExpandLoop
<1> HIDE DEF W
<1>8. ExpandLoop(B, w, steps, N)
  BY <1>7
<1>9. generate_wildcard_faults(w)
        = IF B[N].to_start # 0 \/ (w.end.hitcounter # 0 /\ B[N].reached = 0)
          THEN NULL ELSE B[N].faults
  BY <1>3, <1>4 DEF generate_wildcard_faults, ExpandLoop, StartState
<1>10. PICK b : b = B
  OBVIOUS
<1> HIDE DEF B
<1>11. b = [p \in 0 .. N |-> IF p = 0 THEN StartState(w) ELSE WildcardStep(w, b[p - 1], steps[p])]
  BY <1>8, <1>10 DEF ExpandLoop
<1>12. \A p \in 0 .. N : b[p] = IF p = 0 THEN StartState(w) ELSE WildcardStep(w, b[p - 1], steps[p])
  BY <1>11
<1> DEFINE T == {p \in 0 .. N : b[p] # X(p)}
<1>13. T = {}
  <2> SUFFICES ASSUME T # {} PROVE FALSE
    OBVIOUS
  <2>1. T \subseteq Nat
    OBVIOUS
  <2>2. PICK p \in T : \A x \in T : p <= x
    <3> HIDE DEF T
    <3> QED
      BY <2>1, Smallest
  <2>3. p # 0
    BY <1>2, <1>5, <1>12, <2>2
  <2>4. p \in 0 .. N /\ p - 1 \in 0 .. N /\ X(p) = WildcardStep(w, X(p - 1), steps[p])
    BY <1>6, <2>2, <2>3
  <2>5. ~ (p <= p - 1)
    BY <1>2, <2>4
  <2>6. p - 1 \notin T
    BY <2>2, <2>5
  <2>7. b[p - 1] = X(p - 1)
    BY <2>4, <2>6
  <2>8. b[p] = WildcardStep(w, b[p - 1], steps[p])
    BY <1>12, <2>3, <2>4
  <2> QED
    BY <2>2, <2>4, <2>7, <2>8
<1>14. b[N] = WalkState(off, n, w, M)
  <2>1. N \in 0 .. N
    BY <1>2
  <2>2. b[N] = X(N)
    BY <1>13, <2>1
  <2> QED
    BY <1>1, <2>2 DEF X
<1>15. M \in 0 .. N
  BY <1>1, <1>2, UptoIs
<1>16. (b[N].to_start = 0 <=> Begun(w, M)) /\ b[N].faults = FaultsAt(Sorted(FaultedTo(w, M)))
  <2>1. /\ b[N].to_start = IF Begun(w, M) THEN 0 ELSE w.start.hitcounter - Seen(w.start.address, M)
        /\ b[N].faults = FaultsAt(Sorted(FaultedTo(w, M)))
    BY <1>14 DEF WalkState
  <2>2. M \in Nat
    BY <1>2, <1>15
  <2>3. w.start.hitcounter \in Nat /\ Seen(w.start.address, M) \in Nat
    BY <2>2, RanFinite, WildcardIs
  <2>4. ~ Begun(w, M) => w.start.hitcounter - Seen(w.start.address, M) # 0
    BY <2>3 DEF Begun
  <2> QED
    BY <2>1, <2>4
<1>17. b[N].reached = 0 <=> ~ WalkEnds(w, M)
  <2>1. b[N].reached = IF WalkEnds(w, M) THEN BlockOf(off, n, M) ELSE 0
    BY <1>14 DEF WalkState
  <2>2. ASSUME WalkEnds(w, M) PROVE BlockOf(off, n, M) # 0
    <3>1. M \in Nat /\ M > 0 /\ M <= off[n]
      BY <1>1, <1>2, <1>15, <2>2 DEF WalkEnds
    <3>2. PICK c \in 1 .. n : StepAt(off, n, M) = [idx |-> c, ins |-> trace[M]]
      BY <3>1, PlaceNotNull
    <3>3. n \in Nat
      BY DEF Run, Laid
    <3> QED
      BY <3>2, <3>3 DEF StepAt
  <2> QED
    BY <2>1, <2>2
<1> QED
  BY <1>9, <1>10, <1>16, <1>17

LEMMA NthIs ==
  ASSUME NEW n, NEW off, Run(n, off), NEW x
  PROVE  Nth(x) = {p \in 1 .. off[n] : trace[p] = x.address /\ Seen(x.address, p) = x.hitcounter}
<1>1. Occurrences(x.address) = {p \in 1 .. off[n] : trace[p] = x.address}
  BY OccursAt
<1>2. \A p \in 1 .. off[n] : NumberOf(p) = Seen(trace[p], p)
  BY NumberSeen
<1> QED
  BY <1>1, <1>2 DEF Nth

LEMMA NthOnce ==
  ASSUME NEW n, NEW off, Run(n, off), NEW x, NEW p \in Nth(x), NEW q \in Nth(x)
  PROVE  p = q
<1>1. off[n] \in Nat
  BY OccursAt
<1>2. /\ p \in 1 .. off[n] /\ trace[p] = x.address /\ Seen(x.address, p) = x.hitcounter
      /\ q \in 1 .. off[n] /\ trace[q] = x.address /\ Seen(x.address, q) = x.hitcounter
  BY NthIs
<1>3. p \in Nat /\ q \in Nat
  BY <1>1, <1>2
<1>4. Seen(x.address, p) \in Nat
  BY <1>3, RanFinite
<1>5. ~ (p < q)
  <2>1. p < q => Seen(x.address, p) < Seen(x.address, q)
    BY <1>2, <1>3, SeenGrows
  <2> QED
    BY <1>2, <1>4, <2>1
<1>6. ~ (q < p)
  <2>1. q < p => Seen(x.address, q) < Seen(x.address, p)
    BY <1>2, <1>3, SeenGrows
  <2> QED
    BY <1>2, <1>4, <2>1
<1> QED
  BY <1>3, <1>5, <1>6

(* The range has begun when the start point has been met.                  *)
LEMMA StartsAre ==
  ASSUME NEW n, NEW off, Run(n, off), NEW w \in WildcardSpecs
  PROVE  /\ StartPlaces(w) \subseteq Nat
         /\ \A f, g \in StartPlaces(w) : f = g
         /\ \A p \in 0 .. off[n] : Begun(w, p) <=> \E f \in StartPlaces(w) : f <= p
<1>1. PICK N, a, A : N = off[n] /\ a = w.start.address /\ A = w.start.hitcounter
  OBVIOUS
<1>2. N \in Nat /\ A \in Nat
  BY <1>1, OccursAt, WildcardIs
<1>3. Nth(w.start) = {p \in 1 .. N : trace[p] = a /\ Seen(a, p) = A}
  BY <1>1, NthIs
<1>4. CASE A = 0
  <2>1. StartPlaces(w) = {0}
    BY <1>1, <1>4 DEF StartPlaces
  <2>2. \A p \in 0 .. N : Begun(w, p)
    <3>1. \A p \in 0 .. N : p \in Nat
      BY <1>2
    <3>2. \A p \in 0 .. N : Seen(a, p) \in Nat
      BY <3>1, RanFinite
    <3> QED
      BY <1>1, <1>4, <3>2 DEF Begun
  <2>3. \A p \in 0 .. N : 0 <= p
    BY <1>2
  <2> QED
    BY <1>1, <2>1, <2>2, <2>3
<1>5. CASE A # 0
  <2>1. StartPlaces(w) = Nth(w.start)
    BY <1>1, <1>5 DEF StartPlaces
  <2>2. \A f, g \in Nth(w.start) : f = g
    BY NthOnce
  <2>3. ASSUME NEW p \in 0 .. N PROVE Begun(w, p) <=> \E f \in Nth(w.start) : f <= p
    <3>1. p \in Nat /\ A \in Nat \ {0}
      BY <1>2, <1>5
    <3>2. Begun(w, p) <=> \E q \in 1 .. p : trace[q] = a /\ Seen(a, q) = A
      BY <1>1, <3>1, NthSeen DEF Begun
    <3>3. \A q : q \in 1 .. p <=> q \in 1 .. N /\ q <= p
      BY <1>2, <3>1
    <3> QED
      BY <1>3, <3>2, <3>3
  <2>4. Nth(w.start) \subseteq Nat
    BY <1>2, <1>3
  <2> QED
    BY <1>1, <2>1, <2>2, <2>3, <2>4
<1> QED
  BY <1>4, <1>5

(* The range ends at the end point if that is behind the start.            *)
LEMMA EndsAre ==
  ASSUME NEW n, NEW off, Run(n, off), NEW w \in WildcardSpecs
  PROVE  /\ w.end.hitcounter = 0 => EndPlaces(w) = {off[n] + 1}
         /\ w.end.hitcounter # 0 =>
              /\ EndPlaces(w) \subseteq 1 .. off[n]
              /\ \A l, m \in EndPlaces(w) : l = m
              /\ \A p \in 1 .. off[n] :
                   WalkEnds(w, p) <=> p \in EndPlaces(w) /\ \E f \in StartPlaces(w) : f < p
<1>1. PICK N, z, Z : N = off[n] /\ z = w.end.address /\ Z = w.end.hitcounter
  OBVIOUS
<1>2. N \in Nat
  BY <1>1, OccursAt
<1>3. ASSUME Z = 0 PROVE EndPlaces(w) = {N + 1}
  <2>1. trace \in [1 .. N -> Insns] /\ N = Len(trace)
    BY <1>1 DEF Run, Laid
  <2> QED
    BY <1>1, <1>3, <2>1 DEF EndPlaces
<1>4. ASSUME Z # 0
      PROVE  /\ EndPlaces(w) \subseteq 1 .. N
             /\ \A l, m \in EndPlaces(w) : l = m
             /\ \A p \in 1 .. N :
                  WalkEnds(w, p) <=> p \in EndPlaces(w) /\ \E f \in StartPlaces(w) : f < p
  <2>1. EndPlaces(w) = Nth(w.end)
    BY <1>1, <1>4 DEF EndPlaces
  <2>2. Nth(w.end) = {p \in 1 .. N : trace[p] = z /\ Seen(z, p) = Z}
    BY <1>1, NthIs
  <2>3. \A l, m \in EndPlaces(w) : l = m
    BY <2>1, NthOnce
  <2>4. ASSUME NEW p \in 1 .. N
        PROVE  WalkEnds(w, p) <=> p \in EndPlaces(w) /\ \E f \in StartPlaces(w) : f < p
    <3>1. p # 0 /\ p \in Nat /\ p - 1 \in 0 .. N
      BY <1>2
    <3>2. WalkEnds(w, p) <=> p \in EndPlaces(w) /\ Begun(w, p - 1)
      BY <1>1, <1>4, <2>1, <2>2, <3>1 DEF WalkEnds
    <3>3. Begun(w, p - 1) <=> \E f \in StartPlaces(w) : f <= p - 1
      BY <1>1, <3>1, StartsAre
    <3>4. StartPlaces(w) \subseteq Nat
      BY StartsAre
    <3>5. \A f \in StartPlaces(w) : f <= p - 1 <=> f < p
      BY <3>1, <3>4
    <3> QED
      BY <3>2, <3>3, <3>5
  <2> QED
    BY <2>1, <2>2, <2>3, <2>4
<1> QED
  BY <1>1, <1>3, <1>4

LEMMA ExpansionExact ==
  ASSUME NEW n, NEW off, Run(n, off), NEW w \in WildcardSpecs, Plain(w)
  PROVE  WildcardExact(w, generate_wildcard_faults(w))
<1>1. PICK N, M, Z, S, E :
        /\ N = off[n] /\ M = Upto(w, N) /\ Z = w.end.hitcounter
        /\ S = StartPlaces(w) /\ E = EndPlaces(w)
  OBVIOUS
<1>2. N \in Nat /\ DOMAIN trace = 1 .. N
  BY <1>1, OccursAt
<1>3. /\ S \subseteq Nat /\ \A f, g \in S : f = g
      /\ \A p \in 0 .. N : Begun(w, p) <=> \E f \in S : f <= p
  BY <1>1, StartsAre
<1>4. /\ Z = 0 => E = {N + 1}
      /\ Z # 0 => /\ E \subseteq 1 .. N /\ \A l, m \in E : l = m
                  /\ \A p \in 1 .. N : WalkEnds(w, p) <=> p \in E /\ \E f \in S : f < p
  BY <1>1, EndsAre
<1>5. /\ M \in 0 .. N /\ M \in Nat /\ M <= N
      /\ \A q \in 1 .. N : WalkEnds(w, q) => M = q
      /\ (\A q \in 1 .. N : ~ WalkEnds(w, q)) => M = N
  <2>1. /\ M \in 0 .. N /\ \A q \in 1 .. N : WalkEnds(w, q) => M = q
        /\ (\A q \in 1 .. N : ~ WalkEnds(w, q)) => M = N
    BY <1>1, <1>2, UptoIs
  <2>2. M \in Nat /\ M <= N
    BY <1>2, <2>1
  <2> QED
    BY <2>1, <2>2
<1>6. Z = 0 => M = N
  BY <1>1, <1>5 DEF WalkEnds
<1>7. (\E f \in S, l \in E : f < l) <=> Begun(w, M) /\ (Z # 0 => WalkEnds(w, M))
  <2>1. ASSUME NEW f \in S, NEW l \in E, f < l PROVE Begun(w, M) /\ (Z # 0 => WalkEnds(w, M))
    <3>1. f \in Nat
      BY <1>3
    <3>2. CASE Z = 0
      <4>1. l = N + 1 /\ M = N
        BY <1>4, <1>6, <3>2
      <4>2. f <= M
        BY <1>2, <2>1, <3>1, <4>1
      <4> QED
        BY <1>3, <1>5, <3>2, <4>2
    <3>3. CASE Z # 0
      <4>1. l \in 1 .. N /\ WalkEnds(w, l)
        BY <1>4, <2>1, <3>3
      <4>2. M = l /\ l \in Nat
        BY <1>2, <1>5, <4>1
      <4>3. f <= M
        BY <2>1, <3>1, <4>2
      <4> QED
        BY <1>3, <1>5, <4>1, <4>2, <4>3
    <3> QED
      BY <3>2, <3>3
  <2>2. ASSUME Begun(w, M), Z # 0 => WalkEnds(w, M) PROVE \E f \in S, l \in E : f < l
    <3>1. PICK f \in S : f <= M
      BY <1>3, <1>5, <2>2
    <3>2. f \in Nat
      BY <1>3
    <3>3. CASE Z = 0
      <4>1. f < N + 1 /\ N + 1 \in E
        BY <1>2, <1>4, <1>5, <3>1, <3>2, <3>3
      <4> QED
        BY <4>1
    <3>4. CASE Z # 0
      <4>1. WalkEnds(w, M) /\ M # 0
        BY <2>2, <3>4 DEF WalkEnds
      <4>2. M \in 1 .. N
        BY <1>2, <1>5, <4>1
      <4> QED
        BY <1>4, <3>4, <4>1, <4>2
    <3> QED
      BY <3>3, <3>4
  <2> QED
    BY <2>1, <2>2
<1>8. ASSUME NEW f0 \in S, NEW l0 \in E, f0 < l0 PROVE FaultedTo(w, M) = WantedPlaces(w)
  <2>1. \A p \in 1 .. N : Begun(w, p) <=> \A f \in S : f <= p
    <3>1. \A p \in 1 .. N : p \in 0 .. N
      BY <1>2
    <3> QED
      BY <1>3, <1>8, <3>1
  <2>2. \A p : p \in 1 .. M <=> p \in 1 .. N /\ \A l \in E : p <= l
    <3>1. CASE Z = 0
      <4>1. M = N /\ E = {N + 1}
        BY <1>4, <1>6, <3>1
      <4>2. \A p \in 1 .. N : p <= N + 1
        BY <1>2
      <4> QED
        BY <4>1, <4>2
    <3>2. CASE Z # 0
      <4>1. l0 \in 1 .. N /\ WalkEnds(w, l0)
        BY <1>4, <1>8, <3>2
      <4>2. M = l0
        BY <1>5, <4>1
      <4>3. \A l \in E : l = M
        BY <1>4, <1>8, <3>2, <4>2
      <4>4. \A p : p \in 1 .. M <=> p \in 1 .. N /\ p <= M
        BY <1>2, <1>5
      <4> QED
        BY <1>8, <4>2, <4>3, <4>4
    <3> QED
      BY <3>1, <3>2
  <2>3. \A p : p \in FaultedTo(w, M)
                 <=> /\ p \in 1 .. M /\ Begun(w, p)
                     /\ (w.local => InLocalRange(w, p)) /\ trace[p] \notin w.exclude
    BY DEF FaultedTo, Faulted
  <2>4. \A p : p \in WantedPlaces(w)
                 <=> /\ p \in 1 .. N /\ \A f \in S, l \in E : f <= p /\ p <= l
                     /\ trace[p] \notin w.exclude /\ (w.local => InLocalRange(w, p))
    BY <1>1, <1>2 DEF WantedPlaces
  <2>5. \A p : (\A f \in S, l \in E : f <= p /\ p <= l)
                 <=> (\A f \in S : f <= p) /\ (\A l \in E : p <= l)
    BY <1>8
  <2>6. \A p : p \in FaultedTo(w, M) <=> p \in WantedPlaces(w)
    BY <2>1, <2>2, <2>3, <2>4, <2>5
  <2> QED
    BY <2>6
<1>9. generate_wildcard_faults(w)
        = IF ~ Begun(w, M) \/ (Z # 0 /\ ~ WalkEnds(w, M))
          THEN NULL ELSE FaultsAt(Sorted(FaultedTo(w, M)))
  BY <1>1, ExpansionIs
<1>10. CASE \E f \in S, l \in E : f < l
  <2>1. FaultedTo(w, M) = WantedPlaces(w)
    BY <1>8, <1>10
  <2>2. generate_wildcard_faults(w) = FaultsAt(Sorted(FaultedTo(w, M)))
    BY <1>7, <1>9, <1>10
  <2> QED
    BY <1>1, <1>10, <2>1, <2>2 DEF WildcardExact
<1>11. CASE ~ \E f \in S, l \in E : f < l
  <2>1. generate_wildcard_faults(w) = NULL
    BY <1>7, <1>9, <1>11
  <2> QED
    BY <1>1, <1>11, <2>1 DEF WildcardExact
<1> QED
  BY <1>10, <1>11

-----------------------------------------------------------------------------
(* While every block is run to its end, the trace is the record's blocks.  *)
Tracked == phase \in {"golden", "configured"} /\ ~ left_early => \E off : Run(Len(tbexec), off)

RunInv == Tracked /\ TriggersExact /\ WildcardsExact

RunOf(e, n, t, off) ==
  /\ Laid(e, n, t, off) /\ n = Len(e) /\ DOMAIN e = 1 .. n
  /\ off[n] = Len(t) /\ DOMAIN t = 1 .. off[n]

LEMMA RunExtended ==
  ASSUME NEW e \in Seq(Insns), NEW t \in Seq(Insns), NEW n, n = Len(e), NEW off,
         Laid(e, n, t, off), off[n] = Len(t), NEW b \in Insns,
         NEW g, g = Append(e, b), NEW u, u = t \o Filter(b)
  PROVE  \E o : RunOf(g, n + 1, u, o)
<1>1. n \in Nat /\ n \in 0 .. n /\ off \in [0 .. n -> Nat] /\ off[n] \in Nat /\ e \in [1 .. n -> Insns]
  BY DEF Laid
<1>2. PICK f, l, m : f = Filter(b) /\ l = Len(f) /\ m = off[n]
  OBVIOUS
<1>3. l \in Nat \ {0} /\ f \in [1 .. l -> Insns] /\ f \in Seq(Insns)
  <2>1. PICK x \in Nat : f \in [1 .. x -> Insns]
    BY <1>2, FilterIs DEF BlockCode
  <2>2. f \in Seq(Insns) /\ DOMAIN f = 1 .. x
    BY <2>1
  <2>3. x = l
    BY <1>2, <2>1, <2>2, LenProperties
  <2>4. l \in Nat \ {0}
    BY <1>2, CodedIs DEF Coded
  <2> QED
    BY <2>1, <2>2, <2>3, <2>4
<1>4. /\ g \in Seq(Insns) /\ Len(g) = n + 1 /\ DOMAIN g = 1 .. n + 1 /\ g[n + 1] = b
      /\ \A k \in 1 .. n : g[k] = e[k]
  BY AppendProperties, LenProperties
<1>5. /\ u \in Seq(Insns) /\ Len(u) = m + l /\ DOMAIN u = 1 .. m + l
      /\ \A p \in 1 .. m : u[p] = t[p]
      /\ \A j \in 1 .. l : u[m + j] = f[j]
  <2>1. u \in Seq(Insns) /\ Len(u) = m + l
    BY <1>2, <1>3, ConcatProperties
  <2>2. \A p \in 1 .. m + l : u[p] = IF p <= m THEN t[p] ELSE f[p - m]
    BY <1>2, <1>3, ConcatProperties
  <2>3. \A p \in 1 .. m : u[p] = t[p]
    BY <1>1, <1>2, <1>3, <2>2
  <2>4. ASSUME NEW j \in 1 .. l PROVE u[m + j] = f[j]
    <3>1. PICK q : q = m + j
      OBVIOUS
    <3>2. q \in 1 .. m + l /\ ~ (q <= m) /\ q - m = j
      BY <1>1, <1>2, <1>3, <3>1
    <3>3. u[q] = f[q - m]
      BY <2>2, <3>2
    <3> QED
      BY <3>1, <3>2, <3>3
  <2> QED
    BY <2>1, <2>3, <2>4, LenProperties
<1> DEFINE O == [k \in 0 .. n + 1 |-> IF k = n + 1 THEN m + l ELSE off[k]]
<1>6. PICK o : o = O
  OBVIOUS
<1>7. /\ o \in [0 .. n + 1 -> Nat] /\ o[n + 1] = m + l
      /\ \A k \in 0 .. n : o[k] = off[k]
  <2>0. \A k \in 0 .. n : off[k] \in Nat
    BY <1>1
  <2>1. ASSUME NEW k \in 0 .. n PROVE k # n + 1 /\ k \in 0 .. n + 1 /\ off[k] \in Nat
    <3>1. n \in Nat /\ k \in Nat /\ k <= n
      BY <1>1
    <3> HIDE DEF O
    <3> QED
      BY <2>0, <3>1
  <2>2. \A k \in 0 .. n + 1 : k = n + 1 \/ k \in 0 .. n
    BY <1>1
  <2>3. m + l \in Nat /\ n + 1 \in 0 .. n + 1
    BY <1>1, <1>2, <1>3
  <2> QED
    BY <1>6, <2>1, <2>2, <2>3
<1>8. \A k \in 1 .. n + 1 : o[k] = o[k - 1] + Len(Filter(g[k]))
  <2>1. ASSUME NEW k \in 1 .. n + 1 PROVE o[k] = o[k - 1] + Len(Filter(g[k]))
    <3>1. CASE k = n + 1
      <4>1. k - 1 = n /\ g[k] = b
        BY <1>1, <1>4, <3>1
      <4> QED
        BY <1>1, <1>2, <1>7, <3>1, <4>1
    <3>2. CASE k # n + 1
      <4>1. k \in 1 .. n /\ k \in 0 .. n /\ k - 1 \in 0 .. n
        BY <1>1, <3>2
      <4>2. off[k] = off[k - 1] + Len(Filter(e[k]))
        BY <4>1 DEF Laid
      <4> QED
        BY <1>4, <1>7, <4>1, <4>2
    <3> QED
      BY <3>1, <3>2
  <2> QED
    BY <2>1
<1>9. \A k \in 1 .. n + 1 : \A j \in 1 .. Len(Filter(g[k])) : u[o[k - 1] + j] = Filter(g[k])[j]
  <2>1. ASSUME NEW k \in 1 .. n + 1, NEW j \in 1 .. Len(Filter(g[k]))
        PROVE  u[o[k - 1] + j] = Filter(g[k])[j]
    <3>1. CASE k = n + 1
      <4>1. k - 1 = n /\ g[k] = b
        BY <1>1, <1>4, <3>1
      <4>2. o[k - 1] = m /\ j \in 1 .. l /\ Filter(g[k]) = f
        BY <1>1, <1>2, <1>7, <4>1
      <4> QED
        BY <1>5, <4>2
    <3>2. CASE k # n + 1
      <4>1. k \in 1 .. n /\ k - 1 \in 0 .. n
        BY <1>1, <3>2
      <4>2. o[k - 1] = off[k - 1] /\ g[k] = e[k]
        BY <1>4, <1>7, <4>1
      <4>3. t[off[k - 1] + j] = Filter(e[k])[j]
        BY <4>1, <4>2 DEF Laid
      <4>4. PICK c \in Nat \ {0} : /\ c = Len(Filter(e[k])) /\ off[k - 1] \in Nat
                                   /\ off[k] \in Nat /\ off[k] = off[k - 1] + c
        <5>1. k \in 1 .. n
          BY <4>1
        <5> QED
          BY <5>1, LaidBlock, SMTT(40)
      <4>5. off[k] <= off[n] /\ off[k] \in Nat
        <5>1. k = n \/ (k < n /\ k \in 0 .. n)
          BY <1>1, <4>1
        <5>2. k < n /\ k \in 0 .. n => off[k] < off[n]
          BY <1>1, OffsetsRise
        <5> QED
          BY <1>1, <4>4, <5>1, <5>2
      <4>6. PICK q : q = off[k - 1] + j
        OBVIOUS
      <4>7. j \in 1 .. c
        BY <4>2, <4>4
      <4>8. q \in 1 .. m
        BY <1>1, <1>2, <4>4, <4>5, <4>6, <4>7
      <4>9. u[q] = t[q]
        BY <1>5, <4>8
      <4> QED
        BY <4>2, <4>3, <4>6, <4>9
    <3> QED
      BY <3>1, <3>2
  <2> QED
    BY <2>1
<1>10. o[0] = 0
  BY <1>1, <1>7 DEF Laid
<1>11. n + 1 \in Nat /\ g \in [1 .. n + 1 -> Insns] /\ u \in [1 .. o[n + 1] -> Insns]
  <2>1. g \in [1 .. Len(g) -> Insns] /\ u \in [1 .. Len(u) -> Insns]
    BY <1>4, <1>5, LenProperties
  <2> QED
    BY <1>1, <1>4, <1>5, <1>7, <2>1
<1>12. Laid(g, n + 1, u, o)
  BY <1>7, <1>8, <1>9, <1>10, <1>11 DEF Laid
<1> QED
  BY <1>4, <1>5, <1>7, <1>12 DEF RunOf

LEMMA TrackedInit == FilterInit => RunInv
<1>1. SUFFICES ASSUME FilterInit PROVE RunInv
  OBVIOUS
<1>2. phase = "golden" /\ tbexec = << >> /\ trace = << >>
  BY <1>1 DEF FilterInit, Init
<1>3. PICK off : off = [k \in 0 .. 0 |-> 0]
  OBVIOUS
<1>4. off \in [0 .. 0 -> Nat] /\ off[0] = 0
  BY <1>3
<1>5. PICK e, t : e = tbexec /\ t = trace
  OBVIOUS
<1>6. 1 .. 0 = {} /\ Len(e) = 0 /\ Len(t) = 0 /\ DOMAIN e = {} /\ DOMAIN t = {}
      /\ e \in [1 .. 0 -> Insns] /\ t \in [1 .. 0 -> Insns]
  <2>1. 1 .. 0 = {}
    OBVIOUS
  <2>2. e = << >> /\ t = << >> /\ << >> \in Seq(Insns)
    BY <1>2, <1>5
  <2>3. e \in [1 .. 0 -> Insns] /\ t \in [1 .. 0 -> Insns] /\ DOMAIN e = 1 .. 0 /\ DOMAIN t = 1 .. 0
    BY <2>2
  <2> QED
    BY <2>1, <2>2, <2>3
<1>7. Laid(e, 0, t, off)
  BY <1>4, <1>6 DEF Laid
<1>8. Run(Len(tbexec), off)
  BY <1>4, <1>5, <1>6, <1>7 DEF Run
<1> QED
  BY <1>2, <1>8 DEF RunInv, Tracked, TriggersExact, WildcardsExact

LEMMA TrackedBlock == IInv /\ RunInv /\ RunBlock => RunInv'
<1>1. SUFFICES ASSUME IInv, RunInv, RunBlock PROVE RunInv'
  OBVIOUS
<1>2. phase = "golden" /\ phase' = "golden"
  BY <1>1 DEF RunBlock
<1>3. pc \in Insns /\ tbexec \in Seq(Insns) /\ trace \in Seq(Insns)
  BY <1>1 DEF IInv
<1>4. PICK m \in DOMAIN Filter(pc) :
        /\ trace' = trace \o SubSeq(Filter(pc), 1, m)
        /\ left_early' = (left_early \/ m < Len(Filter(pc)))
        /\ tbexec' = Append(tbexec, pc)
  BY <1>1 DEF RunBlock
<1>5. ASSUME ~ left_early' PROVE \E o : Run(Len(tbexec), o)'
  <2>1. ~ left_early /\ ~ (m < Len(Filter(pc)))
    BY <1>4, <1>5
  <2>2. PICK off : Run(Len(tbexec), off)
    BY <1>1, <1>2, <2>1 DEF RunInv, Tracked
  <2>3. PICK f, l : f = Filter(pc) /\ l = Len(Filter(pc))
    OBVIOUS
  <2>4. l \in Nat \ {0} /\ DOMAIN f = 1 .. l
    BY <1>3, <2>3, CodedIs DEF Coded
  <2>5. m = l
    BY <1>4, <2>1, <2>3, <2>4
  <2>6. f \in Seq(Insns) /\ Len(f) = l
    <3>1. PICK x \in Nat : f \in [1 .. x -> Insns]
      BY <1>3, <2>3, FilterIs DEF BlockCode
    <3>2. f \in Seq(Insns)
      BY <3>1
    <3> QED
      BY <2>3, <3>2
  <2>7. SubSeq(f, 1, l) = f
    <3>1. f \in [1 .. l -> Insns]
      BY <2>6, LenProperties
    <3>2. PICK s : s = SubSeq(f, 1, l)
      OBVIOUS
    <3>3. \A i \in 1 .. l : f[i] \in Insns
      BY <3>1
    <3>4. s \in Seq(Insns) /\ Len(s) = l /\ \A i \in 1 .. l : s[i] = f[i]
      <4>1. /\ s \in Seq(Insns) /\ Len(s) = IF 1 <= l THEN l - 1 + 1 ELSE 0
            /\ \A i \in 1 .. l - 1 + 1 : s[i] = f[1 + i - 1]
        BY <2>4, <3>2, <3>3, SubSeqProperties
      <4>2. l - 1 + 1 = l /\ 1 <= l /\ \A i \in 1 .. l : 1 + i - 1 = i
        BY <2>4
      <4> QED
        BY <4>1, <4>2
    <3>5. s \in [1 .. l -> Insns]
      BY <3>4, LenProperties
    <3> QED
      BY <3>1, <3>2, <3>4, <3>5
  <2>8. PICK n, u, g, b : n = Len(tbexec) /\ g = tbexec' /\ u = trace' /\ b = pc
    OBVIOUS
  <2>9. u = trace \o Filter(b) /\ g = Append(tbexec, b) /\ b \in Insns
    BY <1>3, <1>4, <2>3, <2>5, <2>7, <2>8
  <2>10. Laid(tbexec, n, trace, off) /\ off[n] = Len(trace)
    BY <2>2, <2>8 DEF Run
  <2>10a. n = Len(tbexec) /\ tbexec \in Seq(Insns) /\ trace \in Seq(Insns)
    BY <1>3, <2>8
  <2>11. PICK o : RunOf(g, n + 1, u, o)
    <3>1. PICK e, t : e = tbexec /\ t = trace
      OBVIOUS
    <3>2. /\ e \in Seq(Insns) /\ t \in Seq(Insns) /\ n = Len(e) /\ g = Append(e, b)
          /\ u = t \o Filter(b) /\ Laid(e, n, t, off) /\ off[n] = Len(t) /\ b \in Insns
      BY <2>10a, <2>9, <2>10, <3>1
    <3> QED
      BY <3>2, RunExtended, Zenon
  <2>12. Laid(tbexec', Len(tbexec'), trace', o)
    BY <2>8, <2>11 DEF RunOf
  <2>13. Laid(tbexec, Len(tbexec), trace, o)'
    BY <2>12 DEF Laid
  <2> QED
    BY <2>8, <2>11, <2>13 DEF Run, RunOf
<1>6. Tracked'
  BY <1>5 DEF Tracked
<1> QED
  BY <1>2, <1>6 DEF RunInv, TriggersExact, WildcardsExact

(* What the properties say of a fault and of a wildcard depends on the trace. *)
LEMMA PropertiesKept ==
  ASSUME trace' = trace
  PROVE  /\ \A f, c : TriggerExact(f, c)' <=> TriggerExact(f, c)
         /\ \A w, faults : WildcardExact(w, faults)' <=> WildcardExact(w, faults)
<1>1. \A p : NumberOf(p)' = NumberOf(p)
  BY DEF NumberOf, Occurrences
<1>2. \A i : Occurrences(i)' = Occurrences(i)
  BY DEF Occurrences
<1>3. \A w, p : InLocalRange(w, p)' <=> InLocalRange(w, p)
  BY <1>2 DEF InLocalRange
<1>4. \A x : Nth(x)' = Nth(x)
  BY <1>1, <1>2 DEF Nth
<1>5. \A f, c : TriggerExact(f, c)' <=> TriggerExact(f, c)
  BY <1>1 DEF TriggerExact
<1>6. \A w, faults : WildcardExact(w, faults)' <=> WildcardExact(w, faults)
  <2>1. \A w : StartPlaces(w)' = StartPlaces(w) /\ EndPlaces(w)' = EndPlaces(w)
    BY <1>4 DEF StartPlaces, EndPlaces
  <2>2. \A w : WantedPlaces(w)' = WantedPlaces(w)
    BY <1>3, <2>1 DEF WantedPlaces
  <2>3. \A places : FaultsAt(places)' = FaultsAt(places)
    BY <1>1 DEF FaultsAt
  <2> QED
    BY <2>1, <2>2, <2>3 DEF WildcardExact
<1> QED
  BY <1>5, <1>6

LEMMA TrackedEnd == IInv /\ RunInv /\ EndGoldenRun => RunInv'
<1>1. SUFFICES ASSUME IInv, RunInv, EndGoldenRun PROVE RunInv'
  OBVIOUS
<1>2. /\ phase = "golden" /\ phase' = "configured"
      /\ trace' = trace /\ tbexec' = tbexec /\ left_early' = left_early
      /\ faultconfig' = Config
      /\ wildcard_faults' = [w \in WildcardSpecs |-> generate_wildcard_faults(w)]
  BY <1>1 DEF EndGoldenRun, Config
<1>3. ASSUME ~ left_early PROVE \E off : Run(Len(tbexec), off)
  BY <1>1, <1>2, <1>3 DEF RunInv, Tracked
<1>4. Tracked'
  <2>1. \A m, off : Run(m, off)' <=> Run(m, off)
    BY <1>2 DEF Run, Laid
  <2> QED
    BY <1>2, <1>3, <2>1 DEF Tracked
<1>5. TriggersExact'
  <2>1. ASSUME ~ left_early, NEW k \in DOMAIN FaultSpecs, Ahead(FaultSpecs[k])
        PROVE  TriggerExact(FaultSpecs[k], Config[k])
    BY <1>3, <2>1, ConfigExact
  <2>2. ASSUME ~ left_early, NEW k \in DOMAIN FaultSpecs, Ahead(FaultSpecs[k])
        PROVE  TriggerExact(FaultSpecs[k], faultconfig[k])'
    <3>1. PICK f, c : f = FaultSpecs[k] /\ c = Config[k]
      OBVIOUS
    <3>2. TriggerExact(f, c)' <=> TriggerExact(f, c)
      BY <1>2, PropertiesKept
    <3>3. TriggerExact(f, c)
      BY <2>1, <2>2, <3>1
    <3>4. TriggerExact(FaultSpecs[k], faultconfig[k])' <=> TriggerExact(f, c)'
      BY <1>2, <3>1 DEF TriggerExact
    <3> QED
      BY <3>2, <3>3, <3>4
  <2> QED
    BY <1>2, <2>2 DEF TriggersExact, Ahead
<1>6. WildcardsExact'
  <2>1. ASSUME ~ left_early, NEW w \in WildcardSpecs, Plain(w)
        PROVE  WildcardExact(w, generate_wildcard_faults(w))
    BY <1>3, <2>1, ExpansionExact
  <2>2. ASSUME ~ left_early, NEW w \in WildcardSpecs, Plain(w)
        PROVE  WildcardExact(w, wildcard_faults[w])'
    <3>1. PICK c : c = generate_wildcard_faults(w)
      OBVIOUS
    <3>2. WildcardExact(w, c)' <=> WildcardExact(w, c)
      BY <1>2, PropertiesKept
    <3>3. WildcardExact(w, c)
      BY <2>1, <2>2, <3>1
    <3>4. wildcard_faults'[w] = c
      BY <1>2, <3>1
    <3>5. WildcardExact(w, wildcard_faults[w])' <=> WildcardExact(w, c)'
      BY <3>4 DEF WildcardExact
    <3> QED
      BY <3>2, <3>3, <3>5
  <2> QED
    BY <1>2, <2>2 DEF WildcardsExact, Plain
<1> QED
  BY <1>4, <1>5, <1>6 DEF RunInv

LEMMA TrackedStutter == RunInv /\ UNCHANGED vars => RunInv'
<1>1. SUFFICES ASSUME RunInv, UNCHANGED vars PROVE RunInv'
  OBVIOUS
<1>2. /\ phase' = phase /\ trace' = trace /\ tbexec' = tbexec /\ left_early' = left_early
      /\ faultconfig' = faultconfig /\ wildcard_faults' = wildcard_faults
  BY <1>1 DEF vars
<1>3. Tracked' <=> Tracked
  <2>1. \A m, off : Run(m, off)' <=> Run(m, off)
    BY <1>2 DEF Run, Laid
  <2> QED
    BY <1>2, <2>1 DEF Tracked
<1>4. TriggersExact' <=> TriggersExact
  <2>1. \A f, c : TriggerExact(f, c)' <=> TriggerExact(f, c)
    BY <1>2, PropertiesKept
  <2>2. \A k : TriggerExact(FaultSpecs[k], faultconfig[k])' <=> TriggerExact(FaultSpecs[k], faultconfig[k])
    <3>1. SUFFICES ASSUME NEW k
                   PROVE  TriggerExact(FaultSpecs[k], faultconfig[k])'
                            <=> TriggerExact(FaultSpecs[k], faultconfig[k])
      OBVIOUS
    <3>2. NumberOf(1)' = NumberOf(1) /\ \A p : NumberOf(p)' = NumberOf(p)
      BY <1>2 DEF NumberOf, Occurrences
    <3> QED
      BY <1>2, <3>2 DEF TriggerExact
  <2> QED
    BY <1>2, <2>2 DEF TriggersExact
<1>5. WildcardsExact' <=> WildcardsExact
  <2>1. \A w, faults : WildcardExact(w, faults)' <=> WildcardExact(w, faults)
    BY <1>2, PropertiesKept
  <2>2. \A w : WildcardExact(w, wildcard_faults[w])' <=> WildcardExact(w, wildcard_faults[w])
    <3>1. SUFFICES ASSUME NEW w
                   PROVE  WildcardExact(w, wildcard_faults[w])'
                            <=> WildcardExact(w, wildcard_faults[w])
      OBVIOUS
    <3>2. PICK c : c = wildcard_faults[w]
      OBVIOUS
    <3>3. wildcard_faults'[w] = c
      BY <1>2, <3>2
    <3>4. WildcardExact(w, wildcard_faults[w])' <=> WildcardExact(w, c)'
      BY <3>3 DEF WildcardExact
    <3> QED
      BY <2>1, <3>2, <3>4
  <2> QED
    BY <1>2, <2>2 DEF WildcardsExact
<1> QED
  BY <1>1, <1>3, <1>4, <1>5 DEF RunInv

LEMMA TrackedNext == IInv /\ RunInv /\ [Next]_vars => RunInv'
<1>1. SUFFICES ASSUME IInv, RunInv, [Next]_vars PROVE RunInv'
  OBVIOUS
<1>2. CASE GoldenStep
  BY <1>1, <1>2, TrackedBlock, TrackedEnd DEF GoldenStep, GoldenNext
<1>3. CASE StartExperiment \/ RunWholeBlock \/ SingleStep \/ FilterRecord
  <2>1. phase' \in {"experiment", "filtered"}
    BY <1>3 DEF StartExperiment, RunWholeBlock, SingleStep, Recorded, FilterRecord
  <2> QED
    BY <2>1 DEF RunInv, Tracked, TriggersExact, WildcardsExact
<1>4. CASE UNCHANGED vars
  BY <1>1, <1>4, TrackedStutter
<1> QED
  BY <1>1, <1>2, <1>3, <1>4 DEF Next

(* As long as every block of the golden run is run to its end, the trace   *)
(* is the instructions of the blocks recorded, each block at its place;    *)
(* and what EndGoldenRun computes from the record is right about the trace. *)
THEOREM RunHolds == Spec => []RunInv
<1>1. Spec => [](IInv /\ RunInv)
  BY InitInv, NextInv, TrackedInit, TrackedNext, PTL DEF Spec
<1> QED
  BY <1>1, PTL

(* Whatever the code, the golden run and the faults configured: the trigger *)
(* that search_for_fault_location puts in the place of a negative trigger   *)
(* address is the instruction so many instructions ahead of the execution   *)
(* meant, at the number trigger_hitcounter gives that execution.           *)
THEOREM TriggersRight == Spec => []TriggersExact
<1>1. RunInv => TriggersExact
  BY DEF RunInv
<1> QED
  BY <1>1, RunHolds, PTL

(* Whatever the code, the golden run and the wildcards: the faults that     *)
(* generate_wildcard_faults expands a wildcard to are the executions from   *)
(* its start to its end, in order and each with its number, and the program *)
(* exits just if there is no such range.                                   *)
THEOREM WildcardsRight == Spec => []WildcardsExact
<1>1. RunInv => WildcardsExact
  BY DEF RunInv
<1> QED
  BY <1>1, RunHolds, PTL
=============================================================================
