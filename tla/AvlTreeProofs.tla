---------------------------- MODULE AvlTreeProofs ----------------------------
(***************************************************************************)
(* Proofs about avl.c's insertion and search, for trees of any size and    *)
(* any results of the comparison function.                                 *)
(*                                                                         *)
(* What the recursive functions of AvlTree compute is not assumed: a tree  *)
(* of n items is Sound when some functions satisfy, item by item, the      *)
(* equations of its heights h, of the sets u of items below each, and of   *)
(* the places at which the items hang.  The heights make                   *)
(* the links acyclic, so that these functions are what the recursive ones  *)
(* compute; and each step of an insertion is a local change of them.       *)
(***************************************************************************)
EXTENDS AvlTree, SequenceTheorems, FiniteSetTheorems, TLAPS

Side == {0, 1}

Other(s) == 1 - s

Shape(t, n) ==
  t \in [root : 0 .. n, link : [1 .. n -> [Side -> 0 .. n]], balance : [1 .. n -> Int]]

(* Every item hangs on one place, an item and a side; the root on none.    *)
Parents(t, n, at) ==
  /\ \A p \in 1 .. n : \A s \in Side :
       t.link[p][s] # 0 => at[t.link[p][s]] = <<p, s>>
  /\ t.root # 0 => at[t.root] = <<0, 0>>

Larger(l, r) == IF l > r THEN l ELSE r

EvenAt(t, h, p) ==
  /\ h[p] = 1 + Larger(h[t.link[p][0]], h[t.link[p][1]])
  /\ t.balance[p] = h[t.link[p][1]] - h[t.link[p][0]]
  /\ t.balance[p] \in -1 .. 1

Heights(t, n, h) ==
  /\ h \in [0 .. n -> 0 .. n] /\ h[0] = 0
  /\ \A p \in 1 .. n : EvenAt(t, h, p)

Reaches(t, n, u) ==
  /\ u \in [0 .. n -> SUBSET (1 .. n)] /\ u[0] = {}
  /\ \A p \in 1 .. n : u[p] = {p} \cup u[t.link[p][0]] \cup u[t.link[p][1]]
  /\ u[t.root] = 1 .. n

Sound(t, n, h, u, at) ==
  Shape(t, n) /\ Parents(t, n, at) /\ Heights(t, n, h) /\ Reaches(t, n, u)

(* a lies on side s of b in the order R; the items below each lie on the   *)
(* sides they hang on.                                                     *)
OnSide(R, s, a, b) == IF s = 0 THEN <<a, b>> \in R ELSE <<b, a>> \in R

OrderedAt(t, u, R, p) ==
  \A s \in Side : \A c \in u[t.link[p][s]] : OnSide(R, s, c, p)

OrderedBy(t, n, u, R) == \A p \in 1 .. n : OrderedAt(t, u, R, p)

TransitiveOn(R, n) ==
  \A a, b, c \in 1 .. n : <<a, b>> \in R /\ <<b, c>> \in R => <<a, c>> \in R

-----------------------------------------------------------------------------
LEMMA Smallest ==
  ASSUME NEW T, T \subseteq Nat, T # {}
  PROVE  \E x \in T : \A y \in T : x <= y
<1> DEFINE R == StrictSubsetOrdering(Nat)
           U == {0 .. x : x \in T}
<1>1. IsWellFoundedOn(R, FiniteSubsetsOf(Nat))
  BY FS_StrictSubsetOrderingWellFounded
<1>2. U \subseteq FiniteSubsetsOf(Nat) /\ U # {}
  <2>1. \A x \in T : 0 .. x \in SUBSET Nat /\ IsFiniteSet(0 .. x)
    BY FS_Interval
  <2> QED
    BY <2>1 DEF FiniteSubsetsOf
<1>3. \E u \in U : \A w \in U : <<w, u>> \notin R
  <2> HIDE DEF R, U
  <2> QED
    BY <1>1, <1>2, WFMin
<1>4. PICK x \in T : \A y \in T : <<0 .. y, 0 .. x>> \notin R
  BY <1>3
<1>5. ASSUME NEW y \in T, y < x PROVE FALSE
  <2>1. 0 .. y \in SUBSET Nat /\ 0 .. x \in SUBSET Nat /\ 0 .. y \subseteq 0 .. x
    BY <1>5
  <2>2. x \in 0 .. x /\ x \notin 0 .. y
    BY <1>5
  <2> QED
    BY <1>4, <2>1, <2>2 DEF StrictSubsetOrdering
<1> QED
  BY <1>4, <1>5

LEMMA Greatest ==
  ASSUME NEW m \in Nat, NEW T, T \subseteq 1 .. m, T # {}
  PROVE  \E x \in T : \A y \in T : y <= x
<1> DEFINE U == {m - x : x \in T}
<1>1. U \subseteq Nat /\ U # {}
  <2>1. \A x \in T : m - x \in Nat
    OBVIOUS
  <2> QED
    BY <2>1
<1>2. PICK v \in U : \A w \in U : v <= w
  <2> HIDE DEF U
  <2> QED
    BY <1>1, Smallest
<1>3. PICK x \in T : v = m - x
  BY <1>2
<1>4. \A y \in T : m - y \in U
  OBVIOUS
<1>5. ASSUME NEW y \in T PROVE y <= x
  <2>1. m - x <= m - y
    BY <1>2, <1>3, <1>4
  <2> QED
    BY <2>1
<1> QED
  BY <1>5

(* Links go down: a child is lower than its parent. *)
LEMMA ChildLower ==
  ASSUME NEW n \in Nat, NEW t, NEW h, Shape(t, n), Heights(t, n, h), NEW p \in 1 .. n
  PROVE  /\ p \in 0 .. n /\ h[p] \in Nat /\ h[p] >= 1
         /\ \A s \in Side : /\ t.link[p][s] \in 0 .. n
                            /\ h[t.link[p][s]] \in Nat
                            /\ h[t.link[p][s]] < h[p]
<1>1. \A s \in Side : t.link[p][s] \in 0 .. n
  BY DEF Shape
<1>2. \A c \in 0 .. n : h[c] \in Nat
  BY DEF Heights
<1>3. h[p] = 1 + Larger(h[t.link[p][0]], h[t.link[p][1]])
  BY DEF Heights, EvenAt
<1>4. PICK a, b \in Nat : a = h[t.link[p][0]] /\ b = h[t.link[p][1]]
  BY <1>1, <1>2 DEF Side
<1>5. h[p] = 1 + Larger(a, b) /\ p \in 0 .. n
  BY <1>3, <1>4
<1>6. a < h[p] /\ b < h[p] /\ h[p] >= 1
  BY <1>5 DEF Larger
<1> QED
  BY <1>1, <1>2, <1>4, <1>5, <1>6 DEF Side

(* What holds of 0 and goes up from the children holds everywhere; stated  *)
(* for the set of the exceptions.                                          *)
LEMMA Upward ==
  ASSUME NEW n \in Nat, NEW t, NEW h, Shape(t, n), Heights(t, n, h),
         NEW T, T \subseteq 1 .. n, T # {}
  PROVE  \E p \in T : \A s \in Side : t.link[p][s] \notin T
<1> DEFINE U == {h[p] : p \in T}
<1>1. U \subseteq Nat /\ U # {}
  <2>1. \A p \in T : h[p] \in Nat
    BY ChildLower
  <2> QED
    BY <2>1
<1>2. PICK v \in U : \A w \in U : v <= w
  <2> HIDE DEF U
  <2> QED
    BY <1>1, Smallest
<1>3. PICK p \in T : v = h[p]
  BY <1>2
<1>4. \A s \in Side : h[t.link[p][s]] \in Nat /\ h[t.link[p][s]] < h[p] /\ h[p] \in Nat
  BY ChildLower
<1>5. \A s \in Side : t.link[p][s] \in T => h[p] <= h[t.link[p][s]]
  BY <1>2, <1>3
<1> QED
  BY <1>4, <1>5

-----------------------------------------------------------------------------
(* The functions of a sound tree are those that AvlTree defines.           *)
LEMMA HeightIs ==
  ASSUME NEW n \in Nat, NEW t, NEW h, Shape(t, n), Heights(t, n, h)
  PROVE  Height(t) = h
<1> DEFINE Eq(g) == g = [p \in {0} \cup Items(t) |->
                           IF p = 0 THEN 0
                           ELSE LET l == g[t.link[p][0]]
                                    r == g[t.link[p][1]]
                                IN  1 + IF l > r THEN l ELSE r]
<1>1. Items(t) = 1 .. n /\ {0} \cup Items(t) = 0 .. n
  BY DEF Items, Shape
<1>2. \A p \in 1 .. n : t.link[p][0] \in 0 .. n /\ t.link[p][1] \in 0 .. n
  BY DEF Shape, Side
<1>3. Eq(h)
  <2>1. \A p \in 0 .. n : h[p] = IF p = 0 THEN 0
                                 ELSE LET l == h[t.link[p][0]]
                                          r == h[t.link[p][1]]
                                      IN  1 + IF l > r THEN l ELSE r
    <3>1. h[0] = 0
      BY DEF Heights
    <3>2. \A p \in 1 .. n : h[p] = 1 + Larger(h[t.link[p][0]], h[t.link[p][1]])
      BY DEF Heights, EvenAt
    <3>3. \A p \in 0 .. n : p = 0 \/ (p # 0 /\ p \in 1 .. n)
      OBVIOUS
    <3> QED
      BY <3>1, <3>2, <3>3 DEF Larger
  <2> QED
    BY <1>1, <2>1 DEF Heights
<1>4. PICK g : g = CHOOSE f : Eq(f)
  OBVIOUS
<1>5. Eq(g)
  <2> HIDE DEF Eq
  <2> QED
    BY <1>3, <1>4
<1>6. Height(t) = g
  BY <1>4 DEF Height
<1> DEFINE T == {p \in 1 .. n : g[p] # h[p]}
<1>7. ASSUME T # {} PROVE FALSE
  <2>1. PICK p \in T : \A s \in Side : t.link[p][s] \notin T
    <3> HIDE DEF T
    <3>1. T \subseteq 1 .. n
      BY DEF T
    <3> QED
      BY <1>7, <3>1, Upward
  <2>2. g[0] = 0 /\ h[0] = 0
    BY <1>1, <1>5 DEF Heights
  <2>3. g[t.link[p][0]] = h[t.link[p][0]] /\ g[t.link[p][1]] = h[t.link[p][1]]
    <3>1. p \in 1 .. n
      OBVIOUS
    <3>2. \A c \in 0 .. n : c \notin T => g[c] = h[c]
      BY <2>2
    <3> HIDE DEF T
    <3> QED
      BY <1>2, <2>1, <3>1, <3>2 DEF Side
  <2>4. p \in 1 .. n /\ p # 0 /\ p \in 0 .. n
    OBVIOUS
  <2>5. g[p] = 1 + Larger(g[t.link[p][0]], g[t.link[p][1]])
    BY <1>1, <1>5, <2>4 DEF Larger
  <2>6. h[p] = 1 + Larger(h[t.link[p][0]], h[t.link[p][1]])
    BY <2>4 DEF Heights, EvenAt
  <2>7. g[p] = h[p]
    BY <2>3, <2>5, <2>6
  <2> QED
    BY <2>7
<1>9. g = [p \in 0 .. n |-> g[p]] /\ h = [p \in 0 .. n |-> h[p]]
  BY <1>1, <1>5 DEF Heights
<1>10. \A p \in 0 .. n : g[p] = h[p]
  <2>1. g[0] = h[0]
    BY <1>1, <1>5 DEF Heights
  <2> QED
    BY <1>7, <2>1
<1> QED
  BY <1>6, <1>9, <1>10

(* The items below each. *)
Under(t) ==
  LET below[p \in {0} \cup Items(t)] ==
        IF p = 0 THEN {} ELSE {p} \cup below[t.link[p][0]] \cup below[t.link[p][1]]
  IN  below

LEMMA UnderIs ==
  ASSUME NEW n \in Nat, NEW t, NEW h, NEW u, Shape(t, n), Heights(t, n, h), Reaches(t, n, u)
  PROVE  Under(t) = u
<1> DEFINE Eq(g) == g = [p \in {0} \cup Items(t) |->
                           IF p = 0 THEN {}
                           ELSE {p} \cup g[t.link[p][0]] \cup g[t.link[p][1]]]
<1>1. Items(t) = 1 .. n /\ {0} \cup Items(t) = 0 .. n
  BY DEF Items, Shape
<1>2. \A p \in 1 .. n : t.link[p][0] \in 0 .. n /\ t.link[p][1] \in 0 .. n
  BY DEF Shape, Side
<1>3. Eq(u)
  <2>1. \A p \in 0 .. n : u[p] = IF p = 0 THEN {}
                                 ELSE {p} \cup u[t.link[p][0]] \cup u[t.link[p][1]]
    BY DEF Reaches
  <2> QED
    BY <1>1, <2>1 DEF Reaches
<1>4. PICK g : g = CHOOSE f : Eq(f)
  OBVIOUS
<1>5. Eq(g)
  <2> HIDE DEF Eq
  <2> QED
    BY <1>3, <1>4
<1>6. Under(t) = g
  BY <1>4 DEF Under
<1> DEFINE T == {p \in 1 .. n : g[p] # u[p]}
<1>7. ASSUME T # {} PROVE FALSE
  <2>1. PICK p \in T : \A s \in Side : t.link[p][s] \notin T
    <3> HIDE DEF T
    <3>1. T \subseteq 1 .. n
      BY DEF T
    <3> QED
      BY <1>7, <3>1, Upward
  <2>2. g[0] = {} /\ u[0] = {}
    BY <1>1, <1>5 DEF Reaches
  <2>3. g[t.link[p][0]] = u[t.link[p][0]] /\ g[t.link[p][1]] = u[t.link[p][1]]
    <3>1. p \in 1 .. n
      OBVIOUS
    <3>2. \A c \in 0 .. n : c \notin T => g[c] = u[c]
      BY <2>2
    <3> HIDE DEF T
    <3> QED
      BY <1>2, <2>1, <3>1, <3>2 DEF Side
  <2>4. p \in 1 .. n /\ p # 0 /\ p \in 0 .. n
    OBVIOUS
  <2>5. g[p] = {p} \cup g[t.link[p][0]] \cup g[t.link[p][1]]
    BY <1>1, <1>5, <2>4
  <2>6. u[p] = {p} \cup u[t.link[p][0]] \cup u[t.link[p][1]]
    BY <2>4 DEF Reaches
  <2> QED
    BY <2>3, <2>5, <2>6
<1>8. g = [p \in 0 .. n |-> g[p]] /\ u = [p \in 0 .. n |-> u[p]]
  BY <1>1, <1>5 DEF Reaches
<1>9. \A p \in 0 .. n : g[p] = u[p]
  <2>1. g[0] = u[0]
    BY <1>1, <1>5 DEF Reaches
  <2> QED
    BY <1>7, <2>1
<1> QED
  BY <1>6, <1>8, <1>9

(* A sound tree is balanced and its root reaches every item. *)
LEMMA SoundTree ==
  ASSUME NEW n \in Nat, NEW t, NEW h, NEW u, NEW at, Sound(t, n, h, u, at)
  PROVE  /\ Balanced(t) /\ Reached(t) \ {0} = 1 .. n
         /\ Height(t) = h /\ Under(t) = u
<1>1. Shape(t, n) /\ Heights(t, n, h) /\ Reaches(t, n, u)
  BY DEF Sound
<1>2. Height(t) = h /\ Under(t) = u
  BY <1>1, HeightIs, UnderIs
<1>3. Items(t) = 1 .. n
  BY <1>1 DEF Items, Shape
<1>4. Balanced(t)
  BY <1>1, <1>2, <1>3 DEF Balanced, Heights, EvenAt
<1>5. Reached(t) = Under(t)[t.root]
  BY DEF Reached, Under
<1>6. Reached(t) = 1 .. n
  BY <1>1, <1>2, <1>5 DEF Reaches
<1> QED
  BY <1>2, <1>4, <1>6

-----------------------------------------------------------------------------
(* The items s that a search starting at p visits. *)
Descent(t, n, h, u, cmp, p, s) ==
  /\ s \in Seq(1 .. n)
  /\ p = 0 => s = <<>>
  /\ p # 0 => s # <<>> /\ s[1] = p
  /\ \A i \in 1 .. Len(s) - 1 :
       cmp[s[i]] # 0 /\ s[i + 1] = t.link[s[i]][Dir(cmp, s[i])]
  /\ s # <<>> => cmp[s[Len(s)]] = 0 \/ t.link[s[Len(s)]][Dir(cmp, s[Len(s)])] = 0
  /\ \A i \in 1 .. Len(s) : s[i] \in u[p] /\ h[s[i]] <= h[p]
  /\ \A i, j \in 1 .. Len(s) : i < j => h[s[j]] < h[s[i]]

Step(t, cmp, g, p) ==
  IF p = 0 THEN <<>>
  ELSE IF cmp[p] = 0 THEN <<p>>
  ELSE <<p>> \o g[t.link[p][Dir(cmp, p)]]

LEMMA DirIsSide ==
  ASSUME NEW cmp, NEW p
  PROVE  Dir(cmp, p) \in Side
BY DEF Dir, Side

(* The function that Path defines exists: the heights bound the recursion. *)
LEMMA DownExists ==
  ASSUME NEW n \in Nat, NEW t, NEW h, Shape(t, n), Heights(t, n, h), NEW cmp
  PROVE  \E g : g = [p \in 0 .. n |-> Step(t, cmp, g, p)]
<1> DEFINE Upto(m) == {p \in 0 .. n : h[p] <= m}
           Eq(g, m) == g = [p \in Upto(m) |-> Step(t, cmp, g, p)]
           T == {m \in Nat : ~ \E g : Eq(g, m)}
<1>1. \A p \in 1 .. n : LET c == t.link[p][Dir(cmp, p)]
                        IN  c \in 0 .. n /\ h[c] \in Nat /\ h[p] \in Nat /\ h[c] < h[p]
  BY ChildLower, DirIsSide
<1>2. ASSUME T # {} PROVE FALSE
  <2>1. PICK m \in T : \A k \in T : m <= k
    <3>1. T \subseteq Nat
      OBVIOUS
    <3> HIDE DEF T
    <3> QED
      BY <1>2, <3>1, Smallest
  <2>2. m \in Nat
    OBVIOUS
  <2>3. \E g : Eq(g, m)
    <3>1. CASE m = 0
      <4>1. \A p \in Upto(m) : p = 0
        <5>1. \A p \in 1 .. n : h[p] >= 1 /\ h[p] \in Nat
          BY ChildLower
        <5> QED
          BY <3>1, <5>1
      <4>2. Eq([p \in Upto(m) |-> <<>>], m)
        BY <4>1 DEF Step
      <4> QED
        BY <4>2
    <3>2. CASE m # 0
      <4>1. m - 1 \in Nat /\ m - 1 < m
        BY <2>2, <3>2
      <4>2. m - 1 \notin T
        <5> HIDE DEF T
        <5> QED
          BY <2>1, <2>2, <4>1
      <4>3. PICK f : Eq(f, m - 1)
        BY <4>1, <4>2
      <4> DEFINE g == [p \in Upto(m) |-> Step(t, cmp, f, p)]
      <4>4. \A p \in Upto(m - 1) : g[p] = f[p]
        <5>1. Upto(m - 1) \subseteq Upto(m)
          <6>1. \A p \in 0 .. n : h[p] \in Nat
            BY DEF Heights
          <6> QED
            BY <2>2, <6>1
        <5>2. \A p \in Upto(m - 1) : f[p] = Step(t, cmp, f, p)
          BY <4>3
        <5> QED
          BY <5>1, <5>2
      <4>5. \A p \in Upto(m) : p # 0 => t.link[p][Dir(cmp, p)] \in Upto(m - 1)
        BY <1>1, <2>2
      <4>6. \A p \in Upto(m) : Step(t, cmp, f, p) = Step(t, cmp, g, p)
        <5> HIDE DEF g, Upto
        <5> QED
          BY <4>4, <4>5 DEF Step
      <4>7. g = [p \in Upto(m) |-> Step(t, cmp, g, p)]
        <5>1. g = [p \in Upto(m) |-> Step(t, cmp, f, p)]
          OBVIOUS
        <5> HIDE DEF g, Upto
        <5> QED
          BY <4>6, <5>1
      <4>8. Eq(g, m)
        BY <4>7
      <4> QED
        BY <4>8
    <3> QED
      BY <3>1, <3>2
  <2> QED
    BY <2>3
<1>3. \A p \in 0 .. n : h[p] <= n
  BY DEF Heights
<1>4. Upto(n) = 0 .. n
  BY <1>3
<1>5. PICK g : Eq(g, n)
  BY <1>2
<1> QED
  BY <1>4, <1>5

LEMMA PathIs ==
  ASSUME NEW n \in Nat, NEW t, NEW h, Shape(t, n), Heights(t, n, h), NEW cmp
  PROVE  \E g : g = [p \in 0 .. n |-> Step(t, cmp, g, p)] /\ Path(t, cmp) = g[t.root]
<1> DEFINE Eq(g) == g = [p \in {0} \cup Items(t) |->
                           IF p = 0 THEN <<>>
                           ELSE IF cmp[p] = 0 THEN <<p>>
                           ELSE <<p>> \o g[t.link[p][Dir(cmp, p)]]]
<1>1. {0} \cup Items(t) = 0 .. n
  BY DEF Items, Shape
<1>2. PICK f : f = [p \in 0 .. n |-> Step(t, cmp, f, p)]
  BY DownExists
<1>3. Eq(f)
  BY <1>1, <1>2 DEF Step
<1>4. PICK g : g = CHOOSE e : Eq(e)
  OBVIOUS
<1>5. Eq(g)
  <2> HIDE DEF Eq
  <2> QED
    BY <1>3, <1>4
<1>6. Path(t, cmp) = g[t.root]
  BY <1>4 DEF Path
<1>7. g = [p \in 0 .. n |-> Step(t, cmp, g, p)]
  BY <1>1, <1>5 DEF Step
<1> QED
  BY <1>6, <1>7

(* One more item in front of a descent. *)
LEMMA DescentStep ==
  ASSUME NEW n \in Nat, NEW t, NEW h, NEW u, Shape(t, n), Heights(t, n, h), Reaches(t, n, u),
         NEW cmp, NEW p \in 1 .. n, cmp[p] # 0, NEW r,
         Descent(t, n, h, u, cmp, t.link[p][Dir(cmp, p)], r)
  PROVE  Descent(t, n, h, u, cmp, p, <<p>> \o r)
<1> DEFINE s == <<p>> \o r
<1>1. PICK c : c = t.link[p][Dir(cmp, p)]
  OBVIOUS
<1>2. PICK d : d = Dir(cmp, p) /\ d \in Side
  BY DirIsSide
<1>3. c \in 0 .. n /\ h[c] \in Nat /\ h[p] \in Nat /\ h[c] < h[p]
  BY <1>1, <1>2, ChildLower
<1>4. u[c] \subseteq u[p] /\ p \in u[p]
  BY <1>1, <1>2 DEF Reaches, Side
<1>5. r \in Seq(1 .. n) /\ Descent(t, n, h, u, cmp, c, r)
  BY <1>1 DEF Descent
<1>6. /\ s \in Seq(1 .. n) /\ Len(s) = Len(r) + 1 /\ s[1] = p /\ s # <<>>
      /\ \A i \in 1 .. Len(r) : s[i + 1] = r[i]
      /\ \A i \in 2 .. Len(s) : s[i] = r[i - 1] /\ i - 1 \in 1 .. Len(r)
      /\ Len(r) \in Nat
  BY <1>5
<1>7. p # 0 /\ p \in 1 .. n
  OBVIOUS
<1> HIDE DEF s
<1>8. ASSUME NEW i \in 1 .. Len(s) - 1
      PROVE  cmp[s[i]] # 0 /\ s[i + 1] = t.link[s[i]][Dir(cmp, s[i])]
  <2>1. CASE i = 1
    <3>1. r # <<>> /\ 1 \in 1 .. Len(r)
      BY <1>5, <1>6, <2>1
    <3>2. c # 0
      BY <1>5, <3>1 DEF Descent
    <3>3. r[1] = c
      BY <1>5, <3>2 DEF Descent
    <3>4. s[1 + 1] = r[1]
      BY <1>6, <3>1
    <3> QED
      BY <1>1, <1>6, <2>1, <3>3, <3>4
  <2>2. CASE i # 1
    <3>1. i - 1 \in 1 .. Len(r) - 1 /\ i \in 2 .. Len(s) /\ (i - 1) + 1 = i /\ i \in 1 .. Len(r)
      BY <1>6, <2>2
    <3>2. s[i] = r[i - 1] /\ s[i + 1] = r[i]
      BY <1>6, <3>1
    <3>3. cmp[r[i - 1]] # 0 /\ r[(i - 1) + 1] = t.link[r[i - 1]][Dir(cmp, r[i - 1])]
      BY <1>5, <3>1 DEF Descent
    <3> QED
      BY <3>1, <3>2, <3>3
  <2> QED
    BY <2>1, <2>2
<1>9. cmp[s[Len(s)]] = 0 \/ t.link[s[Len(s)]][Dir(cmp, s[Len(s)])] = 0
  <2>1. CASE r = <<>>
    <3>1. s[Len(s)] = p
      BY <1>6, <2>1
    <3>2. c = 0
      BY <1>5, <2>1 DEF Descent
    <3> QED
      BY <1>1, <3>1, <3>2
  <2>2. CASE r # <<>>
    <3>1. Len(s) \in 2 .. Len(s) /\ Len(s) - 1 = Len(r)
      BY <1>5, <1>6, <2>2
    <3>2. s[Len(s)] = r[Len(r)]
      BY <1>6, <3>1
    <3> QED
      BY <1>5, <2>2, <3>2 DEF Descent
  <2> QED
    BY <2>1, <2>2
<1>10. ASSUME NEW i \in 1 .. Len(s) PROVE s[i] \in u[p] /\ h[s[i]] <= h[p]
  <2>1. CASE i = 1
    BY <1>3, <1>4, <1>6, <2>1
  <2>2. CASE i # 1
    <3>1. s[i] = r[i - 1] /\ i - 1 \in 1 .. Len(r) /\ r[i - 1] \in 1 .. n
      BY <1>5, <1>6, <2>2
    <3>2. r[i - 1] \in u[c] /\ h[r[i - 1]] <= h[c]
      BY <1>5, <3>1 DEF Descent
    <3>3. h[r[i - 1]] \in Nat
      BY <3>1 DEF Heights
    <3> QED
      BY <1>3, <1>4, <3>1, <3>2, <3>3
  <2> QED
    BY <2>1, <2>2
<1>11. ASSUME NEW i \in 1 .. Len(s), NEW j \in 1 .. Len(s), i < j PROVE h[s[j]] < h[s[i]]
  <2>1. s[j] = r[j - 1] /\ j - 1 \in 1 .. Len(r) /\ r[j - 1] \in 1 .. n
    BY <1>5, <1>6, <1>11, SMTT(60)
  <2>2. h[r[j - 1]] \in Nat /\ h[r[j - 1]] <= h[c]
    <3>1. h[r[j - 1]] \in Nat
      BY <2>1 DEF Heights
    <3>2. h[r[j - 1]] <= h[c]
      BY <1>5, <2>1 DEF Descent
    <3> QED
      BY <3>1, <3>2
  <2>3. CASE i = 1
    BY <1>3, <1>6, <2>1, <2>2, <2>3, SMTT(60)
  <2>4. CASE i # 1
    <3>1. s[i] = r[i - 1] /\ i - 1 \in 1 .. Len(r) /\ i - 1 < j - 1
      BY <1>6, <1>11, <2>4
    <3>2. h[r[j - 1]] < h[r[i - 1]]
      BY <1>5, <2>1, <3>1 DEF Descent
    <3> QED
      BY <2>1, <3>1, <3>2
  <2> QED
    BY <2>3, <2>4
<1> QED
  BY <1>6, <1>7, <1>8, <1>9, <1>10, <1>11 DEF Descent, s

LEMMA Descends ==
  ASSUME NEW n \in Nat, NEW t, NEW h, NEW u, Shape(t, n), Heights(t, n, h), Reaches(t, n, u),
         NEW cmp
  PROVE  Descent(t, n, h, u, cmp, t.root, Path(t, cmp))
<1>1. PICK g : g = [p \in 0 .. n |-> Step(t, cmp, g, p)] /\ Path(t, cmp) = g[t.root]
  BY PathIs
<1> DEFINE T == {p \in 1 .. n : ~ Descent(t, n, h, u, cmp, p, g[p])}
<1>2. T \subseteq 1 .. n
  OBVIOUS
<1>3. Descent(t, n, h, u, cmp, 0, g[0])
  <2>1. g[0] = <<>>
    BY <1>1 DEF Step
  <2> QED
    BY <2>1 DEF Descent
<1>4. ASSUME T # {} PROVE FALSE
  <2>1. PICK p \in T : \A s \in Side : t.link[p][s] \notin T
    <3> HIDE DEF T
    <3> QED
      BY <1>2, <1>4, Upward
  <2>2. p \in 1 .. n /\ p # 0 /\ p \in 0 .. n
    OBVIOUS
  <2>3. PICK c : c = t.link[p][Dir(cmp, p)]
    OBVIOUS
  <2>4. c \in 0 .. n /\ c \notin T
    BY <2>1, <2>2, <2>3, ChildLower, DirIsSide
  <2>5. Descent(t, n, h, u, cmp, c, g[c])
    BY <1>3, <2>4
  <2>6. Descent(t, n, h, u, cmp, p, g[p])
    <3>1. CASE cmp[p] = 0
      <4>1. g[p] = <<p>>
        BY <1>1, <2>2, <3>1 DEF Step
      <4>2. /\ <<p>> \in Seq(1 .. n) /\ Len(<<p>>) = 1 /\ <<p>>[1] = p /\ <<p>> # <<>>
            /\ \A i \in 1 .. 1 : <<p>>[i] = p
        BY <2>2
      <4>3. p \in u[p] /\ h[p] \in Nat
        BY <2>2 DEF Reaches, Heights
      <4> QED
        BY <2>2, <3>1, <4>1, <4>2, <4>3 DEF Descent
    <3>2. CASE cmp[p] # 0
      <4>1. g[p] = <<p>> \o g[c]
        BY <1>1, <2>2, <2>3, <3>2 DEF Step
      <4> QED
        BY <2>2, <2>3, <2>5, <3>2, <4>1, DescentStep
    <3> QED
      BY <3>1, <3>2
  <2> QED
    BY <2>6
<1>5. t.root \in 0 .. n
  BY DEF Shape
<1>6. Descent(t, n, h, u, cmp, t.root, g[t.root])
  BY <1>3, <1>4, <1>5
<1> QED
  BY <1>1, <1>6

(* What avl_find returns compares equal. *)
LEMMA FindSays ==
  ASSUME NEW n \in Nat, NEW t, NEW h, NEW u, NEW at, Sound(t, n, h, u, at), NEW cmp,
         avl_find(t, cmp) # 0
  PROVE  avl_find(t, cmp) \in 1 .. n /\ cmp[avl_find(t, cmp)] = 0
<1>1. PICK s : s = Path(t, cmp)
  OBVIOUS
<1>2. s \in Seq(1 .. n)
  BY <1>1, Descends DEF Sound, Descent
<1>3. s # <<>> /\ cmp[s[Len(s)]] = 0 /\ avl_find(t, cmp) = s[Len(s)]
  BY <1>1 DEF avl_find
<1>4. Len(s) \in 1 .. Len(s)
  BY <1>2, <1>3
<1> QED
  BY <1>2, <1>3, <1>4

(* avl_find meets an item that compares equal when every comparison on the *)
(* way to it leads there.                                                  *)
THEOREM FindMeets ==
  ASSUME NEW n \in Nat, NEW t, NEW h, NEW u, NEW at, Sound(t, n, h, u, at), NEW cmp,
         NEW c \in 1 .. n, cmp[c] = 0,
         \A q \in 1 .. n : c \in u[q] /\ c # q
                             => cmp[q] # 0 /\ c \in u[t.link[q][Dir(cmp, q)]]
  PROVE  avl_find(t, cmp) = c
<1>1. PICK s : s = Path(t, cmp)
  OBVIOUS
<1>2. Shape(t, n) /\ Heights(t, n, h) /\ Reaches(t, n, u)
  BY DEF Sound
<1>3. Descent(t, n, h, u, cmp, t.root, s) /\ s \in Seq(1 .. n)
  BY <1>1, <1>2, Descends DEF Descent
<1>4. c \in u[t.root] /\ u[0] = {}
  BY <1>2 DEF Reaches
<1>5. s # <<>> /\ s[1] = t.root /\ 1 \in 1 .. Len(s)
  <2>1. t.root # 0
    BY <1>4
  <2>2. s # <<>> /\ s[1] = t.root
    BY <1>3, <2>1 DEF Descent
  <2> QED
    BY <1>3, <2>2
<1> DEFINE T == {i \in 1 .. Len(s) : c \in u[s[i]]}
<1>6. PICK i \in T : \A j \in T : j <= i
  <2>1. T \subseteq 1 .. Len(s) /\ T # {} /\ Len(s) \in Nat
    BY <1>3, <1>4, <1>5
  <2> HIDE DEF T
  <2> QED
    BY <2>1, Greatest
<1>7. i \in 1 .. Len(s) /\ c \in u[s[i]] /\ s[i] \in 1 .. n
  BY <1>3
<1>8. s[i] = c
  <2> SUFFICES ASSUME s[i] # c PROVE FALSE
    OBVIOUS
  <2>1. PICK v : v = t.link[s[i]][Dir(cmp, s[i])]
    OBVIOUS
  <2>2. cmp[s[i]] # 0 /\ c \in u[v] /\ v # 0
    BY <1>4, <1>7, <2>1
  <2>3. i \in 1 .. Len(s) - 1
    <3>1. i # Len(s)
      BY <1>3, <1>5, <2>1, <2>2 DEF Descent
    <3> QED
      BY <1>3, <1>7, <3>1
  <2>4. s[i + 1] = v
    BY <1>3, <2>1, <2>3 DEF Descent
  <2>5. i + 1 \in T
    BY <1>3, <2>2, <2>3, <2>4
  <2> HIDE DEF T
  <2> QED
    BY <1>6, <1>7, <2>5
<1>9. i = Len(s)
  <2> SUFFICES ASSUME i # Len(s) PROVE FALSE
    OBVIOUS
  <2>1. i \in 1 .. Len(s) - 1
    BY <1>3, <1>7
  <2>2. cmp[s[i]] # 0
    BY <1>3, <2>1 DEF Descent
  <2> QED
    BY <1>8, <2>2
<1> QED
  BY <1>1, <1>5, <1>8, <1>9 DEF avl_find

-----------------------------------------------------------------------------
(* The insertion before any rotation. *)
Places(s, k) == {s[i] : i \in k .. Len(s)}

Growing(t, n, h, u, at, cmp, s, k) ==
  /\ Sound(t, n, h, u, at)
  /\ s = Path(t, cmp) /\ s # <<>> /\ cmp[s[Len(s)]] # 0
  /\ k = TopPlace(t, s)

(* g is t with item n + 1 hung at the end of the path s and the balance    *)
(* factors changed from place k on.                                        *)
Grown(t, n, cmp, s, k, g) ==
  /\ Shape(g, n + 1) /\ g.root = t.root
  /\ \A p \in 1 .. n : \A sd \in Side :
       g.link[p][sd] = IF p = s[Len(s)] /\ sd = Dir(cmp, p) THEN n + 1 ELSE t.link[p][sd]
  /\ \A sd \in Side : g.link[n + 1][sd] = 0
  /\ \A p \in 1 .. n :
       g.balance[p] = IF p \in Places(s, k) THEN t.balance[p] + 2 * Dir(cmp, p) - 1
                                            ELSE t.balance[p]
  /\ g.balance[n + 1] = 0

GrownH(t, n, h, s, k) ==
  [p \in 0 .. n + 1 |->
     IF p = n + 1 THEN 1
     ELSE IF p \in Places(s, k) /\ t.balance[p] = 0 THEN h[p] + 1 ELSE h[p]]

GrownU(n, u, s) ==
  [p \in 0 .. n + 1 |->
     IF p = n + 1 THEN {n + 1} ELSE IF p \in Places(s, 1) THEN u[p] \cup {n + 1} ELSE u[p]]

GrownAt(n, at, cmp, s) ==
  [v \in 1 .. n + 1 |-> IF v = n + 1 THEN <<s[Len(s)], Dir(cmp, s[Len(s)])>> ELSE at[v]]

LEMMA TopPlaceIs ==
  ASSUME NEW n \in Nat, NEW t, NEW s \in Seq(1 .. n), s # <<>>, NEW k, k = TopPlace(t, s)
  PROVE  /\ k \in 1 .. Len(s)
         /\ \A i \in 1 .. Len(s) : i > k => t.balance[s[i]] = 0
         /\ k = 1 \/ t.balance[s[k]] # 0
<1> DEFINE uneven == {i \in DOMAIN s : t.balance[s[i]] # 0}
<1>1. DOMAIN s = 1 .. Len(s) /\ Len(s) \in Nat /\ 1 \in 1 .. Len(s)
  OBVIOUS
<1>2. CASE uneven = {}
  <2>1. k = 1
    BY <1>2 DEF TopPlace
  <2>2. \A i \in 1 .. Len(s) : t.balance[s[i]] = 0
    BY <1>1, <1>2
  <2> QED
    BY <1>1, <2>1, <2>2
<1>3. CASE uneven # {}
  <2>1. k = CHOOSE i \in uneven : \A j \in uneven : j <= i
    BY <1>3 DEF TopPlace
  <2>2. \E i \in uneven : \A j \in uneven : j <= i
    <3>1. uneven \subseteq 1 .. Len(s)
      BY <1>1
    <3> HIDE DEF uneven
    <3> QED
      BY <1>1, <1>3, <3>1, Greatest
  <2>3. k \in uneven /\ \A j \in uneven : j <= k
    <3> HIDE DEF uneven
    <3> QED
      BY <2>1, <2>2
  <2>4. k \in 1 .. Len(s) /\ t.balance[s[k]] # 0
    BY <1>1, <2>3
  <2>5. ASSUME NEW i \in 1 .. Len(s), i > k, t.balance[s[i]] # 0 PROVE FALSE
    <3>1. i \in uneven
      BY <1>1, <2>5
    <3>2. i <= k
      BY <2>3, <3>1
    <3> QED
      BY <2>4, <2>5, <3>2
  <2> QED
    BY <2>4, <2>5
<1> QED
  BY <1>2, <1>3

(* The path goes down from the root, each item on a place of the one       *)
(* before, and meets none twice.                                           *)
Hanging(t, n, at, cmp, s, k) ==
  /\ s \in Seq(1 .. n) /\ Len(s) \in Nat /\ 1 \in 1 .. Len(s) /\ Len(s) \in 1 .. Len(s)
  /\ k \in 1 .. Len(s)
  /\ \A i \in 1 .. Len(s) : s[i] \in 1 .. n
  /\ s[1] = t.root /\ at[s[1]] = <<0, 0>>
  /\ \A i \in 1 .. Len(s) - 1 :
       /\ s[i + 1] = t.link[s[i]][Dir(cmp, s[i])]
       /\ at[s[i + 1]] = <<s[i], Dir(cmp, s[i])>>
  /\ t.link[s[Len(s)]][Dir(cmp, s[Len(s)])] = 0
  /\ \A i, j \in 1 .. Len(s) : s[i] = s[j] => i = j

LEMMA OnPath ==
  ASSUME NEW n \in Nat, NEW t, NEW h, NEW u, NEW at, NEW cmp, NEW s, NEW k,
         Growing(t, n, h, u, at, cmp, s, k)
  PROVE  Hanging(t, n, at, cmp, s, k)
<1>1. Descent(t, n, h, u, cmp, t.root, s) /\ s \in Seq(1 .. n) /\ s # <<>>
  BY Descends DEF Growing, Sound, Descent
<1>2. Len(s) \in Nat /\ 1 \in 1 .. Len(s) /\ Len(s) \in 1 .. Len(s)
  BY <1>1
<1>3. \A i \in 1 .. Len(s) : s[i] \in 1 .. n
  BY <1>1
<1>4. t.root # 0 /\ s[1] = t.root
  BY <1>1 DEF Descent
<1>5. at[s[1]] = <<0, 0>>
  BY <1>4 DEF Growing, Sound, Parents
<1>6. \A i \in 1 .. Len(s) - 1 : s[i + 1] = t.link[s[i]][Dir(cmp, s[i])]
  BY <1>1 DEF Descent
<1>7. ASSUME NEW i \in 1 .. Len(s) - 1 PROVE at[s[i + 1]] = <<s[i], Dir(cmp, s[i])>>
  <2>1. s[i] \in 1 .. n /\ s[i + 1] # 0
    BY <1>2, <1>3
  <2> QED
    BY <1>6, <2>1, DirIsSide DEF Growing, Sound, Parents
<1>8. t.link[s[Len(s)]][Dir(cmp, s[Len(s)])] = 0
  BY <1>1 DEF Descent, Growing
<1>9. k \in 1 .. Len(s)
  BY <1>1, TopPlaceIs DEF Growing
<1>10. ASSUME NEW i \in 1 .. Len(s), NEW j \in 1 .. Len(s), i < j PROVE s[i] # s[j]
  <2>1. h[s[j]] < h[s[i]]
    BY <1>1, <1>10 DEF Descent
  <2>2. h[s[j]] \in 0 .. n
    BY <1>3 DEF Growing, Sound, Heights
  <2> QED
    BY <2>1, <2>2
<1>11. ASSUME NEW i \in 1 .. Len(s), NEW j \in 1 .. Len(s), s[i] = s[j] PROVE i = j
  <2>1. ~ i < j /\ ~ j < i
    BY <1>10, <1>11
  <2> QED
    BY <1>2, <2>1
<1> QED
  BY <1>1, <1>2, <1>3, <1>4, <1>5, <1>6, <1>7, <1>8, <1>9, <1>11 DEF Hanging

(* Below an item of the path the new item is on the side of its direction; *)
(* elsewhere nothing below an item changes.                                *)
LEMMA GrownChild ==
  ASSUME NEW n \in Nat, NEW t, NEW h, NEW u, NEW at, NEW cmp, NEW s, NEW k, NEW g,
         Growing(t, n, h, u, at, cmp, s, k), Grown(t, n, cmp, s, k, g),
         NEW p \in 1 .. n, NEW sd \in Side
  PROVE  LET v == g.link[p][sd]
             w == t.link[p][sd]
         IN  IF p \in Places(s, 1) /\ sd = Dir(cmp, p)
             THEN /\ GrownU(n, u, s)[v] = u[w] \cup {n + 1}
                  /\ p \notin Places(s, k) => GrownH(t, n, h, s, k)[v] = h[w]
                  /\ p \in Places(s, k) => GrownH(t, n, h, s, k)[v] = h[w] + 1
             ELSE /\ v = w
                  /\ GrownU(n, u, s)[v] = u[w]
                  /\ GrownH(t, n, h, s, k)[v] = h[w]
<1>1. PICK v, w : v = g.link[p][sd] /\ w = t.link[p][sd]
  OBVIOUS
<1>2. w \in 0 .. n /\ w \in 0 .. n + 1 /\ w # n + 1
  BY <1>1 DEF Growing, Sound, Shape
<1>3. v = IF p = s[Len(s)] /\ sd = Dir(cmp, p) THEN n + 1 ELSE w
  BY <1>1 DEF Grown
<1>4. /\ s \in Seq(1 .. n) /\ Len(s) \in Nat /\ 1 \in 1 .. Len(s) /\ Len(s) \in 1 .. Len(s)
      /\ k \in 1 .. Len(s)
      /\ \A i \in 1 .. Len(s) : s[i] \in 1 .. n
      /\ \A i \in 1 .. Len(s) - 1 :
           /\ s[i + 1] = t.link[s[i]][Dir(cmp, s[i])]
           /\ at[s[i + 1]] = <<s[i], Dir(cmp, s[i])>>
      /\ t.link[s[Len(s)]][Dir(cmp, s[Len(s)])] = 0
      /\ \A i, j \in 1 .. Len(s) : s[i] = s[j] => i = j
  <2>1. Hanging(t, n, at, cmp, s, k)
    BY OnPath
  <2> QED
    BY <2>1 DEF Hanging
<1>5. u[0] = {} /\ h[0] = 0
  BY DEF Growing, Sound, Reaches, Heights
<1>6. CASE p \in Places(s, 1) /\ sd = Dir(cmp, p)
  <2>1. PICK i \in 1 .. Len(s) : p = s[i]
    BY <1>6 DEF Places
  <2>2. p \in Places(s, k) <=> i >= k
    <3>1. i >= k => i \in k .. Len(s)
      BY <1>4
    <3>2. \A j \in k .. Len(s) : j \in 1 .. Len(s)
      BY <1>4
    <3>3. \A j \in k .. Len(s) : p = s[j] => j = i
      BY <1>4, <2>1, <3>2
    <3> QED
      BY <1>4, <2>1, <3>1, <3>3 DEF Places
  <2>3. CASE i = Len(s)
    <3>1. v = n + 1 /\ w = 0
      BY <1>1, <1>3, <1>4, <1>6, <2>1, <2>3
    <3>2. n + 1 \in 0 .. n + 1
      OBVIOUS
    <3>3. GrownU(n, u, s)[v] = {n + 1} /\ GrownH(t, n, h, s, k)[v] = 1
      BY <3>1, <3>2 DEF GrownU, GrownH
    <3>4. p \in Places(s, k)
      BY <1>4, <2>2, <2>3
    <3> QED
      BY <1>1, <1>5, <1>6, <3>1, <3>3, <3>4
  <2>4. CASE i # Len(s)
    <3>1. i \in 1 .. Len(s) - 1 /\ i + 1 \in 1 .. Len(s)
      BY <1>4, <2>4
    <3>2. w = s[i + 1] /\ v = w
      <4>1. i < Len(s)
        BY <1>4, <3>1
      <4>2. p # s[Len(s)]
        BY <1>4, <2>1, <4>1
      <4> QED
        BY <1>1, <1>3, <1>4, <1>6, <2>1, <3>1, <4>2
    <3>3. w \in Places(s, 1)
      BY <3>1, <3>2 DEF Places
    <3>4. GrownU(n, u, s)[v] = u[w] \cup {n + 1}
      BY <1>2, <3>2, <3>3 DEF GrownU
    <3>5. w \in Places(s, k) <=> i + 1 >= k
      <4>1. i + 1 >= k => i + 1 \in k .. Len(s)
        BY <1>4, <3>1
      <4>2. \A j \in k .. Len(s) : j \in 1 .. Len(s)
        BY <1>4
      <4>3. \A j \in k .. Len(s) : w = s[j] => j = i + 1
        BY <1>4, <3>1, <3>2, <4>2
      <4> QED
        BY <1>4, <3>1, <3>2, <4>1, <4>3 DEF Places
    <3>6. k \in 1 .. Len(s) /\ k # 1 => t.balance[s[k]] # 0
      BY <1>4, TopPlaceIs DEF Growing
    <3>7. \A j \in 1 .. Len(s) : j > k => t.balance[s[j]] = 0
      BY <1>4, TopPlaceIs DEF Growing
    <3>8. GrownH(t, n, h, s, k)[v] = IF w \in Places(s, k) /\ t.balance[w] = 0
                                     THEN h[w] + 1 ELSE h[w]
      BY <1>2, <3>2 DEF GrownH
    <3>9. CASE p \in Places(s, k)
      <4>1. i + 1 > k /\ i + 1 >= k
        BY <1>4, <2>2, <3>1, <3>9
      <4>2. t.balance[w] = 0
        BY <3>1, <3>2, <3>7, <4>1
      <4>3. GrownH(t, n, h, s, k)[v] = h[w] + 1
        BY <3>5, <3>8, <4>1, <4>2
      <4> QED
        BY <1>1, <1>6, <3>4, <3>9, <4>3
    <3>10. CASE p \notin Places(s, k)
      <4>1. i < k
        BY <1>4, <2>2, <3>10
      <4>2. CASE i + 1 = k
        <5>1. t.balance[w] # 0
          BY <1>4, <2>1, <3>2, <3>6, <4>1, <4>2
        <5>2. GrownH(t, n, h, s, k)[v] = h[w]
          BY <3>8, <5>1
        <5> QED
          BY <1>1, <1>6, <3>4, <3>10, <5>2
      <4>3. CASE i + 1 # k
        <5>1. w \notin Places(s, k)
          BY <1>4, <3>1, <3>5, <4>1, <4>3
        <5>2. GrownH(t, n, h, s, k)[v] = h[w]
          BY <3>8, <5>1
        <5> QED
          BY <1>1, <1>6, <3>4, <3>10, <5>2
      <4> QED
        BY <4>2, <4>3
    <3> QED
      BY <3>9, <3>10
  <2> QED
    BY <2>3, <2>4
<1>7. CASE ~ (p \in Places(s, 1) /\ sd = Dir(cmp, p))
  <2>1. s[Len(s)] \in Places(s, 1)
    BY <1>4 DEF Places
  <2>2. v = w
    BY <1>3, <1>7, <2>1
  <2>3. w \notin Places(s, 1)
    <3> SUFFICES ASSUME w \in Places(s, 1) PROVE FALSE
      OBVIOUS
    <3>1. PICK j \in 1 .. Len(s) : w = s[j]
      BY DEF Places
    <3>2. w # 0
      BY <1>4, <3>1
    <3>3. at[w] = <<p, sd>>
      BY <1>1, <3>2 DEF Growing, Sound, Parents
    <3>4. CASE j = 1
      <4>1. at[w] = <<0, 0>>
        <5>1. Hanging(t, n, at, cmp, s, k)
          BY OnPath
        <5> QED
          BY <3>1, <3>4, <5>1 DEF Hanging
      <4>2. p # 0
        OBVIOUS
      <4> QED
        BY <3>3, <4>1, <4>2
    <3>5. CASE j # 1
      <4>1. j - 1 \in 1 .. Len(s) - 1 /\ (j - 1) + 1 = j /\ j - 1 \in 1 .. Len(s)
        BY <1>4, <3>5
      <4>2. at[w] = <<s[j - 1], Dir(cmp, s[j - 1])>>
        BY <1>4, <3>1, <4>1
      <4>3. p = s[j - 1] /\ sd = Dir(cmp, p)
        BY <3>3, <4>2
      <4>4. p \in Places(s, 1)
        BY <4>1, <4>3 DEF Places
      <4> QED
        BY <1>7, <4>3, <4>4
    <3> QED
      BY <3>4, <3>5
  <2>4. w \notin Places(s, k)
    BY <1>4, <2>3 DEF Places
  <2>5. GrownU(n, u, s)[w] = u[w]
    BY <1>2, <2>3 DEF GrownU
  <2>6. GrownH(t, n, h, s, k)[w] = h[w]
    BY <1>2, <2>4 DEF GrownH
  <2> QED
    BY <1>1, <1>7, <2>2, <2>5, <2>6
<1> QED
  BY <1>6, <1>7

LEMMA GrownParents ==
  ASSUME NEW n \in Nat, NEW t, NEW h, NEW u, NEW at, NEW cmp, NEW s, NEW k, NEW g,
         Growing(t, n, h, u, at, cmp, s, k), Grown(t, n, cmp, s, k, g)
  PROVE  Parents(g, n + 1, GrownAt(n, at, cmp, s))
<1>1. Shape(t, n) /\ Parents(t, n, at)
  BY DEF Growing, Sound
<1>2. Hanging(t, n, at, cmp, s, k)
  BY OnPath
<1>3. g.root = t.root /\ t.root \in 1 .. n /\ t.root # n + 1 /\ at[t.root] = <<0, 0>>
  BY <1>2 DEF Grown, Hanging
<1>4. GrownAt(n, at, cmp, s)[g.root] = <<0, 0>>
  BY <1>3 DEF GrownAt
<1>5. ASSUME NEW p \in 1 .. n + 1, NEW sd \in Side, g.link[p][sd] # 0
      PROVE  GrownAt(n, at, cmp, s)[g.link[p][sd]] = <<p, sd>>
  <2>1. p \in 1 .. n
    <3>1. p # n + 1
      BY <1>5 DEF Grown
    <3> QED
      BY <3>1
  <2>2. CASE p = s[Len(s)] /\ sd = Dir(cmp, p)
    <3>1. g.link[p][sd] = n + 1
      BY <2>1, <2>2 DEF Grown
    <3>2. n + 1 \in 1 .. n + 1
      OBVIOUS
    <3> QED
      BY <2>2, <3>1, <3>2 DEF GrownAt
  <2>3. CASE ~ (p = s[Len(s)] /\ sd = Dir(cmp, p))
    <3>1. g.link[p][sd] = t.link[p][sd]
      BY <2>1, <2>3 DEF Grown
    <3>2. t.link[p][sd] \in 1 .. n
      BY <1>1, <1>5, <2>1, <3>1 DEF Shape
    <3>3. at[t.link[p][sd]] = <<p, sd>>
      BY <1>1, <1>5, <2>1, <3>1 DEF Parents
    <3>4. t.link[p][sd] \in 1 .. n + 1 /\ t.link[p][sd] # n + 1
      BY <3>2
    <3> QED
      BY <3>1, <3>3, <3>4 DEF GrownAt
  <2> QED
    BY <2>2, <2>3
<1> QED
  BY <1>4, <1>5 DEF Parents

LEMMA GrownReaches ==
  ASSUME NEW n \in Nat, NEW t, NEW h, NEW u, NEW at, NEW cmp, NEW s, NEW k, NEW g,
         Growing(t, n, h, u, at, cmp, s, k), Grown(t, n, cmp, s, k, g)
  PROVE  Reaches(g, n + 1, GrownU(n, u, s))
<1> DEFINE v == GrownU(n, u, s)
<1>1. Shape(t, n) /\ Reaches(t, n, u)
  BY DEF Growing, Sound
<1>2. Hanging(t, n, at, cmp, s, k)
  BY OnPath
<1>3. v \in [0 .. n + 1 -> SUBSET (1 .. n + 1)]
  <2>1. ASSUME NEW p \in 0 .. n + 1 PROVE v[p] \in SUBSET (1 .. n + 1)
    <3>1. n + 1 \in 1 .. n + 1 /\ 1 .. n \subseteq 1 .. n + 1
      OBVIOUS
    <3>2. CASE p = n + 1
      BY <3>1, <3>2 DEF GrownU
    <3>3. CASE p # n + 1
      <4>1. p \in 0 .. n
        BY <3>3
      <4>2. u[p] \subseteq 1 .. n
        BY <1>1, <4>1 DEF Reaches
      <4> QED
        BY <3>1, <3>3, <4>2 DEF GrownU
    <3> QED
      BY <3>2, <3>3
  <2> QED
    BY <2>1 DEF GrownU
<1>4. 0 \notin Places(s, 1) /\ n + 1 \notin Places(s, 1) /\ g.root \in Places(s, 1)
      /\ g.root \in 1 .. n /\ g.root = t.root
  BY <1>2 DEF Hanging, Places, Grown
<1>5. v[0] = {}
  <2>1. 0 \in 0 .. n + 1 /\ 0 # n + 1
    OBVIOUS
  <2> QED
    BY <1>1, <1>4, <2>1 DEF GrownU, Reaches
<1>6. v[g.root] = 1 .. n + 1
  <2>1. g.root \in 0 .. n + 1 /\ g.root # n + 1
    BY <1>4
  <2>2. v[g.root] = u[t.root] \cup {n + 1}
    BY <1>4, <2>1 DEF GrownU
  <2>3. u[t.root] = 1 .. n
    BY <1>1 DEF Reaches
  <2> QED
    BY <2>2, <2>3
<1>7. ASSUME NEW p \in 1 .. n + 1
      PROVE  v[p] = {p} \cup v[g.link[p][0]] \cup v[g.link[p][1]]
  <2>1. CASE p = n + 1
    <3>1. g.link[p][0] = 0 /\ g.link[p][1] = 0
      BY <2>1 DEF Grown, Side
    <3>2. p \in 0 .. n + 1
      OBVIOUS
    <3>3. v[p] = {n + 1}
      BY <2>1, <3>2 DEF GrownU
    <3> HIDE DEF v
    <3> QED
      BY <1>5, <2>1, <3>1, <3>3
  <2>2. CASE p # n + 1
    <3>1. p \in 1 .. n /\ p \in 0 .. n + 1
      BY <2>2
    <3>2. PICK a, b : a = v[g.link[p][0]] /\ b = v[g.link[p][1]]
      OBVIOUS
    <3>3. PICK c, e : c = u[t.link[p][0]] /\ e = u[t.link[p][1]]
      OBVIOUS
    <3>4. u[p] = {p} \cup c \cup e
      BY <1>1, <3>1, <3>3 DEF Reaches
    <3>5. CASE p \in Places(s, 1)
      <4>1. v[p] = u[p] \cup {n + 1}
        BY <2>2, <3>1, <3>5 DEF GrownU
      <4>2. CASE Dir(cmp, p) = 0
        <5>1. a = c \cup {n + 1} /\ b = e
          BY <3>1, <3>2, <3>3, <3>5, <4>2, GrownChild DEF Side
        <5> QED
          BY <3>2, <3>4, <4>1, <5>1
      <4>3. CASE Dir(cmp, p) = 1
        <5>1. a = c /\ b = e \cup {n + 1}
          BY <3>1, <3>2, <3>3, <3>5, <4>3, GrownChild DEF Side
        <5> QED
          BY <3>2, <3>4, <4>1, <5>1
      <4> QED
        BY <4>2, <4>3, DirIsSide DEF Side
    <3>6. CASE p \notin Places(s, 1)
      <4>1. v[p] = u[p]
        BY <2>2, <3>1, <3>6 DEF GrownU
      <4>2. a = c /\ b = e
        BY <3>1, <3>2, <3>3, <3>6, GrownChild DEF Side
      <4> QED
        BY <3>2, <3>4, <4>1, <4>2
    <3> QED
      BY <3>5, <3>6
  <2> QED
    BY <2>1, <2>2
<1> HIDE DEF v
<1>8. Reaches(g, n + 1, v)
  BY <1>3, <1>5, <1>6, <1>7 DEF Reaches
<1> QED
  BY <1>8 DEF v

(* The new item is on the side of an item of the path that the comparison  *)
(* function says.                                                          *)
Agrees(R, n, cmp, s) ==
  \A i \in 1 .. Len(s) : OnSide(R, Dir(cmp, s[i]), n + 1, s[i])

LEMMA GrownOrdered ==
  ASSUME NEW n \in Nat, NEW t, NEW h, NEW u, NEW at, NEW cmp, NEW s, NEW k, NEW g,
         Growing(t, n, h, u, at, cmp, s, k), Grown(t, n, cmp, s, k, g),
         NEW R, OrderedBy(t, n, u, R), Agrees(R, n, cmp, s)
  PROVE  OrderedBy(g, n + 1, GrownU(n, u, s), R)
<1> DEFINE v == GrownU(n, u, s)
<1>1. ASSUME NEW p \in 1 .. n + 1, NEW sd \in Side, NEW c \in v[g.link[p][sd]]
      PROVE  OnSide(R, sd, c, p)
  <2>1. p \in 1 .. n
    <3>1. ASSUME p = n + 1 PROVE FALSE
      <4>1. g.link[p][sd] = 0
        BY <3>1 DEF Grown
      <4>2. v[0] = {}
        BY GrownReaches DEF Reaches
      <4> QED
        BY <1>1, <4>1, <4>2
    <3> QED
      BY <3>1
  <2>2. \A e \in u[t.link[p][sd]] : OnSide(R, sd, e, p)
    BY <2>1 DEF OrderedBy, OrderedAt
  <2>3. CASE p \in Places(s, 1) /\ sd = Dir(cmp, p)
    <3>1. c \in u[t.link[p][sd]] \cup {n + 1}
      BY <1>1, <2>1, <2>3, GrownChild
    <3>2. PICK i \in 1 .. Len(s) : p = s[i]
      BY <2>3 DEF Places
    <3>3. OnSide(R, sd, n + 1, p)
      BY <2>3, <3>2 DEF Agrees
    <3> QED
      BY <2>2, <3>1, <3>3
  <2>4. CASE ~ (p \in Places(s, 1) /\ sd = Dir(cmp, p))
    <3>1. c \in u[t.link[p][sd]]
      BY <1>1, <2>1, <2>4, GrownChild
    <3> QED
      BY <2>2, <3>1
  <2> QED
    BY <2>3, <2>4
<1> QED
  BY <1>1 DEF OrderedBy, OrderedAt

(* y leans to side d: its child x there is two higher than the other, and  *)
(* one of the two below x is higher.                                       *)
LeansAt(t, n, h, y, d) ==
  LET x == t.link[y][d]
  IN  /\ y \in 1 .. n /\ x \in 1 .. n /\ x # y
      /\ h[y] = h[x] /\ h[x] = h[t.link[y][Other(d)]] + 2
      /\ t.balance[x] \in {-1, 1}

LEMMA GrownEven ==
  ASSUME NEW n \in Nat, NEW t, NEW h, NEW u, NEW at, NEW cmp, NEW s, NEW k, NEW g,
         Growing(t, n, h, u, at, cmp, s, k), Grown(t, n, cmp, s, k, g),
         NEW H, H = GrownH(t, n, h, s, k)
  PROVE  /\ H \in [0 .. n + 1 -> 0 .. n + 1] /\ H[0] = 0
         /\ \A p \in 1 .. n + 1 : p # s[k] => EvenAt(g, H, p)
         /\ g.balance[s[k]] \notin {-2, 2} => EvenAt(g, H, s[k])
         /\ g.balance[s[k]] \in {-2, 2} =>
              LeansAt(g, n + 1, H, s[k], IF g.balance[s[k]] = -2 THEN 0 ELSE 1)
<1>1. Shape(t, n) /\ Heights(t, n, h)
  BY DEF Growing, Sound
<1>2. Hanging(t, n, at, cmp, s, k)
  BY OnPath
<1>3. 0 \notin Places(s, k) /\ n + 1 \notin Places(s, k) /\ Places(s, k) \subseteq 1 .. n
  BY <1>2 DEF Hanging, Places
<1>4. H \in [0 .. n + 1 -> 0 .. n + 1]
  <2>1. ASSUME NEW p \in 0 .. n + 1 PROVE H[p] \in 0 .. n + 1
    <3>1. H[p] = IF p = n + 1 THEN 1
                 ELSE IF p \in Places(s, k) /\ t.balance[p] = 0 THEN h[p] + 1 ELSE h[p]
      BY DEF GrownH
    <3>2. p # n + 1 => h[p] \in 0 .. n
      BY <1>1 DEF Heights
    <3> QED
      BY <3>1, <3>2
  <2> QED
    BY <2>1 DEF GrownH
<1>5. H[0] = 0
  <2>1. 0 \in 0 .. n + 1 /\ 0 # n + 1
    OBVIOUS
  <2> QED
    BY <1>1, <1>3, <2>1 DEF GrownH, Heights
<1>6. EvenAt(g, H, n + 1)
  <2>1. g.link[n + 1][0] = 0 /\ g.link[n + 1][1] = 0 /\ g.balance[n + 1] = 0
    BY DEF Grown, Side
  <2>2. n + 1 \in 0 .. n + 1
    OBVIOUS
  <2>3. H[n + 1] = 1
    BY <2>2 DEF GrownH
  <2> QED
    BY <1>5, <2>1, <2>3 DEF EvenAt, Larger
<1>7. ASSUME NEW p \in 1 .. n
      PROVE  /\ p # s[k] \/ g.balance[p] \notin {-2, 2} => EvenAt(g, H, p)
             /\ p = s[k] /\ g.balance[p] \in {-2, 2} =>
                  LeansAt(g, n + 1, H, p, IF g.balance[p] = -2 THEN 0 ELSE 1)
  <2>1. PICK a, b : a = h[t.link[p][0]] /\ b = h[t.link[p][1]]
    OBVIOUS
  <2>2. a \in Nat /\ b \in Nat
    BY <1>1, <2>1, ChildLower DEF Side
  <2>3. PICK e : e = t.balance[p]
    OBVIOUS
  <2>4. h[p] = 1 + Larger(a, b) /\ e = b - a /\ e \in -1 .. 1
    BY <1>1, <2>1, <2>3 DEF Heights, EvenAt
  <2>5. H[p] = IF p \in Places(s, k) /\ e = 0 THEN h[p] + 1 ELSE h[p]
    <3>1. p \in 0 .. n + 1 /\ p # n + 1
      OBVIOUS
    <3> QED
      BY <2>3, <3>1 DEF GrownH
  <2>6. PICK A, B : A = H[g.link[p][0]] /\ B = H[g.link[p][1]]
    OBVIOUS
  <2>7. PICK f : f = g.balance[p]
    OBVIOUS
  <2>8. CASE p \notin Places(s, k)
    <3>1. A = a /\ B = b
      BY <2>1, <2>6, <2>8, GrownChild DEF Side
    <3>2. f = e
      BY <2>3, <2>7, <2>8 DEF Grown
    <3>3. EvenAt(g, H, p)
      BY <2>4, <2>5, <2>6, <2>7, <2>8, <3>1, <3>2 DEF EvenAt
    <3>4. p # s[k]
      BY <1>2, <2>8 DEF Places, Hanging
    <3> QED
      BY <3>3, <3>4
  <2>9. CASE p \in Places(s, k)
    <3>1. PICK d \in Side : d = Dir(cmp, p)
      BY DirIsSide
    <3>2. p \in Places(s, 1)
      BY <1>2, <2>9 DEF Places, Hanging
    <3>3. f = e + 2 * d - 1
      BY <2>3, <2>7, <2>9, <3>1 DEF Grown
    <3>4. A = IF d = 0 THEN a + 1 ELSE a
      BY <2>1, <2>6, <2>9, <3>1, <3>2, GrownChild DEF Side
    <3>5. B = IF d = 1 THEN b + 1 ELSE b
      BY <2>1, <2>6, <2>9, <3>1, <3>2, GrownChild DEF Side
    <3>6. f \notin {-2, 2} => /\ H[p] = 1 + Larger(A, B) /\ f = B - A /\ f \in -1 .. 1
      <4>1. CASE d = 0
        <5>1. A = a + 1 /\ B = b /\ f = e - 1
          <6>1. A = a + 1 /\ B = b
            BY <3>4, <3>5, <4>1
          <6>2. f = e + 2 * 0 - 1
            BY <3>3, <4>1
          <6>3. f = e - 1
            BY <2>2, <2>4, <6>2
          <6> QED
            BY <6>1, <6>3
        <5> QED
          BY <2>2, <2>4, <2>5, <2>9, <5>1 DEF Larger
      <4>2. CASE d = 1
        <5>1. A = a /\ B = b + 1 /\ f = e + 1
          BY <3>3, <3>4, <3>5, <4>2
        <5> QED
          BY <2>2, <2>4, <2>5, <2>9, <5>1 DEF Larger
      <4> QED
        BY <4>1, <4>2 DEF Side
    <3>7. f \notin {-2, 2} => EvenAt(g, H, p)
      BY <2>6, <2>7, <3>6 DEF EvenAt
    <3>8. p # s[k] => e = 0
      <4>1. PICK i \in k .. Len(s) : p = s[i]
        BY <2>9 DEF Places
      <4>2. \A j \in 1 .. Len(s) : j > k => t.balance[s[j]] = 0
        BY <1>2, TopPlaceIs DEF Growing, Hanging
      <4>3. p # s[k] => i \in 1 .. Len(s) /\ i > k
        BY <1>2, <4>1 DEF Hanging
      <4> QED
        BY <2>3, <4>1, <4>2, <4>3
    <3>9. p # s[k] => f \notin {-2, 2}
      BY <3>1, <3>3, <3>8 DEF Side
    <3>10. ASSUME p = s[k], f \in {-2, 2}
           PROVE  LeansAt(g, n + 1, H, p, IF f = -2 THEN 0 ELSE 1)
      <4>1. d = (IF f = -2 THEN 0 ELSE 1) /\ e = 2 * d - 1 /\ e # 0
        BY <2>4, <3>3, <3>10 DEF Side
      <4>2. PICK w : w = t.link[p][d]
        OBVIOUS
      <4>3. w \in 0 .. n /\ h[w] = IF d = 0 THEN a ELSE b
        BY <1>1, <2>1, <3>1, <4>2 DEF Shape, Side
      <4>4. w # 0
        <5>1. h[w] > 0
          BY <2>2, <2>4, <3>1, <4>1, <4>3 DEF Side
        <5> QED
          BY <1>1, <5>1 DEF Heights
      <4>5. k \in 1 .. Len(s) - 1
        <5>1. k # Len(s)
          BY <1>2, <3>1, <3>10, <4>2, <4>4 DEF Hanging
        <5> QED
          BY <1>2, <5>1 DEF Hanging
      <4>6. w = s[k + 1] /\ k + 1 \in 1 .. Len(s) /\ k + 1 > k /\ k + 1 \in k .. Len(s)
        BY <1>2, <3>1, <3>10, <4>2, <4>5 DEF Hanging
      <4>7. t.balance[w] = 0
        BY <1>2, <4>6, TopPlaceIs, SMTT(60) DEF Growing, Hanging
      <4>8. w \in Places(s, k) /\ w \in 1 .. n
        BY <1>2, <4>6 DEF Places, Hanging
      <4>9. g.balance[w] \in {-1, 1}
        <5>1. g.balance[w] = 2 * Dir(cmp, w) - 1
          BY <4>7, <4>8 DEF Grown, Dir
        <5> QED
          BY <5>1, DirIsSide DEF Side
      <4>10. w # p
        BY <1>2, <3>10, <4>5, <4>6 DEF Hanging
      <4>11. g.link[p][d] = w
        <5>1. p # s[Len(s)]
          BY <1>2, <3>10, <4>5 DEF Hanging
        <5> QED
          BY <3>1, <4>2, <5>1 DEF Grown
      <4>12. H[p] = h[p]
        BY <2>5, <4>1
      <4>13. CASE d = 0
        <5>1. A = a + 1 /\ B = b /\ e = -1
          BY <3>4, <3>5, <4>1, <4>13
        <5>2. H[p] = A /\ A = B + 2
          BY <2>2, <2>4, <4>12, <5>1 DEF Larger
        <5>3. p \in 1 .. n + 1 /\ w \in 1 .. n + 1 /\ Other(d) = 1
          BY <4>8, <4>13 DEF Other
        <5> QED
          BY <2>6, <4>1, <4>9, <4>10, <4>11, <4>13, <5>2, <5>3 DEF LeansAt
      <4>14. CASE d = 1
        <5>1. A = a /\ B = b + 1 /\ e = 1
          BY <3>4, <3>5, <4>1, <4>14
        <5>2. H[p] = B /\ B = A + 2
          BY <2>2, <2>4, <4>12, <5>1 DEF Larger
        <5>3. p \in 1 .. n + 1 /\ w \in 1 .. n + 1 /\ Other(d) = 0
          BY <4>8, <4>14 DEF Other
        <5> QED
          BY <2>6, <4>1, <4>9, <4>10, <4>11, <4>14, <5>2, <5>3 DEF LeansAt
      <4> QED
        BY <4>13, <4>14 DEF Side
    <3> QED
      BY <2>7, <3>7, <3>9, <3>10
  <2> QED
    BY <2>8, <2>9
<1>8. s[k] \in 1 .. n
  BY <1>2 DEF Hanging
<1>9. \A p \in 1 .. n + 1 : p \in 1 .. n \/ p = n + 1
  OBVIOUS
<1> QED
  BY <1>4, <1>5, <1>6, <1>7, <1>8, <1>9

-----------------------------------------------------------------------------
(* The rotations.  A tree that leans at y, on side d, and hangs there on z. *)
SoundBut(t, n, h, u, at, y, d, z) ==
  /\ Shape(t, n) /\ Parents(t, n, at) /\ Reaches(t, n, u)
  /\ h \in [0 .. n -> 0 .. n] /\ h[0] = 0
  /\ \A p \in 1 .. n : p # y => EvenAt(t, h, p)
  /\ d \in Side /\ LeansAt(t, n, h, y, d)
  /\ t.balance[y] \in {-2, 2}
  /\ \/ z = 0 /\ t.root = y
     \/ z \in 1 .. n /\ \E s \in Side : t.link[z][s] = y

LEMMA Sides ==
  ASSUME NEW d \in Side
  PROVE  /\ Other(d) \in Side /\ d # Other(d) /\ Other(Other(d)) = d
         /\ \A s \in Side : s = d \/ s = Other(d)
BY DEF Side, Other

(* The equations of an item, by the side d and the other. *)
EvenOn(t, h, p, d) ==
  LET a == h[t.link[p][d]]
      b == h[t.link[p][Other(d)]]
  IN  /\ h[p] = 1 + Larger(a, b)
      /\ t.balance[p] = (IF d = 1 THEN a - b ELSE b - a)
      /\ t.balance[p] \in -1 .. 1

LEMMA EvenSides ==
  ASSUME NEW t, NEW h, NEW p, NEW d \in Side,
         h[t.link[p][d]] \in Nat, h[t.link[p][Other(d)]] \in Nat
  PROVE  EvenAt(t, h, p) <=> EvenOn(t, h, p, d)
<1>1. PICK a, b \in Nat : a = h[t.link[p][d]] /\ b = h[t.link[p][Other(d)]]
  OBVIOUS
<1>2. CASE d = 0
  <2>1. Other(d) = 1
    BY <1>2 DEF Other
  <2> QED
    BY <1>1, <1>2, <2>1 DEF EvenAt, EvenOn
<1>3. CASE d = 1
  <2>1. Other(d) = 0
    BY <1>3 DEF Other
  <2>2. Larger(a, b) = Larger(b, a)
    BY DEF Larger
  <2> QED
    BY <1>1, <1>3, <2>1, <2>2 DEF EvenAt, EvenOn
<1> QED
  BY <1>2, <1>3 DEF Side

LEMMA UnionSides ==
  ASSUME NEW n \in Nat, NEW t, NEW u, Reaches(t, n, u), NEW p \in 1 .. n, NEW d \in Side
  PROVE  u[p] = {p} \cup u[t.link[p][d]] \cup u[t.link[p][Other(d)]]
<1>1. u[p] = {p} \cup u[t.link[p][0]] \cup u[t.link[p][1]]
  BY DEF Reaches
<1>2. CASE d = 0
  <2>1. Other(d) = 1
    BY <1>2 DEF Other
  <2> QED
    BY <1>1, <1>2, <2>1
<1>3. CASE d = 1
  <2>1. Other(d) = 0
    BY <1>3 DEF Other
  <2> QED
    BY <1>1, <1>3, <2>1
<1> QED
  BY <1>2, <1>3 DEF Side

(* The items at the turn: x below y on side d, a on the other; w below x   *)
(* on the side towards a, c on the other.                                  *)
Corner(t, n, h, u, at, y, d, z, x, a, w, c) ==
  /\ x = t.link[y][d] /\ a = t.link[y][Other(d)]
  /\ w = t.link[x][Other(d)] /\ c = t.link[x][d]
  /\ y \in 1 .. n /\ x \in 1 .. n /\ a \in 0 .. n /\ w \in 0 .. n /\ c \in 0 .. n
  /\ h[y] \in 2 .. n /\ h[x] = h[y] /\ h[a] = h[y] - 2
  /\ h[w] \in 0 .. n /\ h[c] \in 0 .. n
  /\ x # y /\ w \notin {x, y} /\ c \notin {x, y} /\ a \notin {x, y}
  /\ at[x] = <<y, d>>
  /\ w # 0 => at[w] = <<x, Other(d)>>
  /\ c # 0 => at[c] = <<x, d>>
  /\ a # 0 => at[a] = <<y, Other(d)>>
  /\ u[x] = {x} \cup u[w] \cup u[c] /\ u[y] = {y} \cup u[x] \cup u[a]
  /\ h[x] = 1 + Larger(h[w], h[c])
  /\ t.balance[x] = (IF d = 1 THEN h[c] - h[w] ELSE h[w] - h[c])
  /\ t.balance[x] \in {-1, 1}
  /\ z \notin {x, y} /\ (w # 0 => z # w)

LEMMA Corners ==
  ASSUME NEW n \in Nat, NEW t, NEW h, NEW u, NEW at, NEW y, NEW d, NEW z,
         SoundBut(t, n, h, u, at, y, d, z),
         NEW x, NEW a, NEW w, NEW c,
         x = t.link[y][d], a = t.link[y][Other(d)], w = t.link[x][Other(d)], c = t.link[x][d]
  PROVE  Corner(t, n, h, u, at, y, d, z, x, a, w, c)
<1>1. d \in Side /\ Other(d) \in Side /\ d # Other(d)
  BY Sides DEF SoundBut
<1>2. y \in 1 .. n /\ x \in 1 .. n /\ x # y
  BY DEF SoundBut, LeansAt
<1>3. h[y] = h[x] /\ h[x] = h[a] + 2 /\ t.balance[x] \in {-1, 1}
  BY DEF SoundBut, LeansAt
<1>4. a \in 0 .. n /\ w \in 0 .. n /\ c \in 0 .. n
  BY <1>1, <1>2, ZenonT(60) DEF SoundBut, Shape
<1>5. \A p \in 0 .. n : h[p] \in 0 .. n
  BY DEF SoundBut
<1>6. h[a] \in 0 .. n /\ h[w] \in 0 .. n /\ h[c] \in 0 .. n /\ h[x] \in 0 .. n /\ h[y] \in 0 .. n
  BY <1>2, <1>4, <1>5
<1>7. h[y] \in 2 .. n /\ h[a] = h[y] - 2
  BY <1>3, <1>6
<1>8. /\ h[x] = 1 + Larger(h[w], h[c])
      /\ t.balance[x] = (IF d = 1 THEN h[c] - h[w] ELSE h[w] - h[c])
  <2>1. EvenAt(t, h, x)
    BY <1>2 DEF SoundBut
  <2>2. h[w] \in Nat /\ h[c] \in Nat
    BY <1>6
  <2>3. h[x] = 1 + Larger(h[c], h[w]) /\ t.balance[x] = (IF d = 1 THEN h[c] - h[w] ELSE h[w] - h[c])
    <3>1. EvenOn(t, h, x, d)
      BY <1>1, <2>1, <2>2, EvenSides
    <3> QED
      BY <3>1 DEF EvenOn
  <2>4. Larger(h[c], h[w]) = Larger(h[w], h[c])
    BY <2>2 DEF Larger
  <2> QED
    BY <2>3, <2>4
<1>9. h[w] < h[x] /\ h[c] < h[x] /\ h[a] < h[x]
  BY <1>3, <1>6, <1>8, SMTT(60) DEF Larger
<1>10. w \notin {x, y} /\ c \notin {x, y} /\ a \notin {x, y}
  BY <1>3, <1>6, <1>9
<1>11. \A p \in 1 .. n : \A s \in Side : t.link[p][s] # 0 => at[t.link[p][s]] = <<p, s>>
  BY DEF SoundBut, Parents
<1>12. /\ at[x] = <<y, d>> /\ (w # 0 => at[w] = <<x, Other(d)>>)
       /\ (c # 0 => at[c] = <<x, d>>) /\ (a # 0 => at[a] = <<y, Other(d)>>)
  <2>1. at[x] = <<y, d>>
    <3>1. t.link[y][d] # 0 => at[t.link[y][d]] = <<y, d>>
      BY <1>1, <1>2, <1>11
    <3> QED
      BY <1>2, <3>1
  <2>2. w # 0 => at[w] = <<x, Other(d)>>
    <3>1. t.link[x][Other(d)] # 0 => at[t.link[x][Other(d)]] = <<x, Other(d)>>
      BY <1>1, <1>2, <1>11
    <3> QED
      BY <1>2, <3>1
  <2>3. c # 0 => at[c] = <<x, d>>
    <3>1. t.link[x][d] # 0 => at[t.link[x][d]] = <<x, d>>
      BY <1>1, <1>2, <1>11
    <3> QED
      BY <1>2, <3>1
  <2>4. a # 0 => at[a] = <<y, Other(d)>>
    <3>1. t.link[y][Other(d)] # 0 => at[t.link[y][Other(d)]] = <<y, Other(d)>>
      BY <1>1, <1>2, <1>11
    <3> QED
      BY <1>2, <3>1
  <2> QED
    BY <2>1, <2>2, <2>3, <2>4
<1>13. u[x] = {x} \cup u[w] \cup u[c] /\ u[y] = {y} \cup u[x] \cup u[a]
  <2>1. Reaches(t, n, u)
    BY DEF SoundBut
  <2>2. u[x] = {x} \cup u[c] \cup u[w]
    BY <1>1, <1>2, <2>1, UnionSides
  <2>3. u[y] = {y} \cup u[x] \cup u[a]
    BY <1>1, <1>2, <2>1, UnionSides
  <2> QED
    BY <2>2, <2>3
<1>14. z \notin {x, y} /\ (w # 0 => z # w)
  <2>1. CASE z = 0
    BY <1>2, <2>1
  <2>2. CASE z # 0
    <3>1. z \in 1 .. n /\ \E s \in Side : t.link[z][s] = y
      BY <2>2 DEF SoundBut
    <3>2. PICK s \in Side : t.link[z][s] = y
      BY <3>1
    <3>3. z # y
      BY <1>10, <1>2, <3>2, Sides, <1>1
    <3>4. EvenAt(t, h, z)
      BY <3>1, <3>3 DEF SoundBut
    <3>5. t.link[z][Other(s)] \in 0 .. n
      <4>1. Other(s) \in Side
        BY Sides
      <4> QED
        BY <3>1, <4>1 DEF SoundBut, Shape
    <3>6. h[t.link[z][Other(s)]] \in Nat /\ h[y] \in Nat /\ h[z] \in Nat
      BY <1>5, <1>6, <3>1, <3>5
    <3>7. h[z] = 1 + Larger(h[y], h[t.link[z][Other(s)]])
      <4>1. EvenOn(t, h, z, s)
        BY <3>2, <3>4, <3>6, EvenSides
      <4> QED
        BY <3>2, <4>1 DEF EvenOn
    <3>8. h[y] < h[z]
      BY <3>6, <3>7 DEF Larger
    <3>9. h[z] # h[x] /\ (h[z] # h[w])
      BY <1>3, <1>6, <1>9, <3>6, <3>8
    <3> QED
      BY <3>3, <3>9
  <2> QED
    BY <2>1, <2>2
<1> QED
  BY <1>2, <1>3, <1>4, <1>6, <1>7, <1>8, <1>10, <1>12, <1>13, <1>14 DEF Corner

(* r is t with the items of M rearranged, top in the place of y. *)
Turned(t, r, n, M, y, top) ==
  /\ Shape(r, n)
  /\ r.root = IF t.root = y THEN top ELSE t.root
  /\ \A p \in 1 .. n \ M :
       /\ r.balance[p] = t.balance[p]
       /\ \A s \in Side : r.link[p][s] = IF t.link[p][s] = y THEN top ELSE t.link[p][s]

(* What h, u and an order say of p in t, h2, u2 and the order say in r. *)
Kept(t, h, u, r, h2, u2, p) ==
  /\ EvenAt(t, h, p) => EvenAt(r, h2, p)
  /\ u[p] = {p} \cup u[t.link[p][0]] \cup u[t.link[p][1]]
       => u2[p] = {p} \cup u2[r.link[p][0]] \cup u2[r.link[p][1]]
  /\ \A R : OrderedAt(t, u, R, p) => OrderedAt(r, u2, R, p)

(* What h, u and the order say of the items outside of M is still so when  *)
(* top takes over from y and only y of M was below an item outside.        *)
LEMMA Outside ==
  ASSUME NEW n \in Nat, NEW t, NEW r, NEW M, NEW y, NEW top, Shape(t, n),
         Turned(t, r, n, M, y, top),
         NEW h, NEW u, NEW h2, NEW u2,
         \A v \in 0 .. n : v \notin M => h2[v] = h[v] /\ u2[v] = u[v],
         h2[top] = h[y], u2[top] = u[y],
         NEW p \in 1 .. n, p \notin M,
         \A s \in Side : t.link[p][s] \in M => t.link[p][s] = y
  PROVE  Kept(t, h, u, r, h2, u2, p)
<1>1. \A s \in Side : t.link[p][s] \in 0 .. n
  BY DEF Shape
<1>2. ASSUME NEW s \in Side
      PROVE  h2[r.link[p][s]] = h[t.link[p][s]] /\ u2[r.link[p][s]] = u[t.link[p][s]]
  <2>1. PICK v : v = t.link[p][s]
    OBVIOUS
  <2>2. v \in 0 .. n /\ (v \in M => v = y)
    BY <1>1, <2>1
  <2>3. r.link[p][s] = IF v = y THEN top ELSE v
    BY <2>1 DEF Turned
  <2>4. CASE v = y
    BY <2>1, <2>3, <2>4
  <2>5. CASE v # y
    <3>1. h2[v] = h[v] /\ u2[v] = u[v]
      BY <2>2, <2>5
    <3> QED
      BY <2>1, <2>3, <2>5, <3>1
  <2> QED
    BY <2>4, <2>5
<1>3. p \in 0 .. n
  OBVIOUS
<1>4. h2[p] = h[p] /\ u2[p] = u[p] /\ r.balance[p] = t.balance[p]
  BY <1>3 DEF Turned
<1>5. 0 \in Side /\ 1 \in Side
  BY DEF Side
<1>6. EvenAt(t, h, p) => EvenAt(r, h2, p)
  BY <1>2, <1>4, <1>5 DEF EvenAt
<1>7. u[p] = {p} \cup u[t.link[p][0]] \cup u[t.link[p][1]]
        => u2[p] = {p} \cup u2[r.link[p][0]] \cup u2[r.link[p][1]]
  BY <1>2, <1>4, <1>5
<1>8. ASSUME NEW R, OrderedAt(t, u, R, p) PROVE OrderedAt(r, u2, R, p)
  <2>1. \A s \in Side : \A e \in u[t.link[p][s]] : OnSide(R, s, e, p)
    BY <1>8 DEF OrderedAt
  <2>2. \A s \in Side : \A e \in u2[r.link[p][s]] : OnSide(R, s, e, p)
    BY <1>2, <2>1
  <2> QED
    BY <2>2 DEF OrderedAt
<1> QED
  BY <1>6, <1>7, <1>8 DEF Kept

(* The side d of R is as transitive as R, and opposite to the other. *)
LEMMA OnSideFacts ==
  ASSUME NEW n \in Nat, NEW R, TransitiveOn(R, n), NEW d \in Side
  PROVE  /\ \A a, b, c \in 1 .. n : OnSide(R, d, a, b) /\ OnSide(R, d, b, c) => OnSide(R, d, a, c)
         /\ \A a, b : OnSide(R, Other(d), a, b) <=> OnSide(R, d, b, a)
<1>1. CASE d = 0
  BY <1>1 DEF OnSide, Other, TransitiveOn
<1>2. CASE d = 1
  BY <1>2 DEF OnSide, Other, TransitiveOn
<1> QED
  BY <1>1, <1>2 DEF Side

-----------------------------------------------------------------------------
(* What a single rotation makes of the tree. *)
Single(t, r, n, y, d, x, w) ==
  /\ Turned(t, r, n, {x, y}, y, x)
  /\ r.link[y][d] = w /\ r.link[y][Other(d)] = t.link[y][Other(d)]
  /\ r.link[x][Other(d)] = y /\ r.link[x][d] = t.link[x][d]
  /\ r.balance[x] = 0 /\ r.balance[y] = 0

LEMMA SingleSound ==
  ASSUME NEW n \in Nat, NEW t, NEW h, NEW u, NEW at, NEW y, NEW d, NEW z,
         SoundBut(t, n, h, u, at, y, d, z),
         NEW x, NEW a, NEW w, NEW c, Corner(t, n, h, u, at, y, d, z, x, a, w, c),
         t.balance[x] = (IF d = 1 THEN 1 ELSE -1),
         NEW r, Single(t, r, n, y, d, x, w)
  PROVE  \E h2, u2, at2 :
           /\ Sound(r, n, h2, u2, at2)
           /\ \A R : TransitiveOn(R, n) /\ OrderedBy(t, n, u, R) => OrderedBy(r, n, u2, R)
<1> DEFINE h2 == [h EXCEPT ![y] = h[y] - 1]
           u2 == [v \in 0 .. n |-> IF v = y THEN {y} \cup u[w] \cup u[a]
                                   ELSE IF v = x THEN u[y] ELSE u[v]]
           at2 == [v \in 1 .. n |-> IF v = y THEN <<x, Other(d)>>
                                    ELSE IF v = x THEN at[y]
                                    ELSE IF v = w THEN <<y, d>> ELSE at[v]]
<1>1. d \in Side /\ Other(d) \in Side /\ d # Other(d) /\ \A s \in Side : s = d \/ s = Other(d)
  BY Sides DEF SoundBut
<1>2. /\ x = t.link[y][d] /\ a = t.link[y][Other(d)] /\ w = t.link[x][Other(d)] /\ c = t.link[x][d]
      /\ y \in 1 .. n /\ x \in 1 .. n /\ a \in 0 .. n /\ w \in 0 .. n /\ c \in 0 .. n
      /\ x # y /\ w \notin {x, y} /\ c \notin {x, y} /\ a \notin {x, y}
  BY DEF Corner
<1>3. /\ r.link[y][d] = w /\ r.link[y][Other(d)] = a
      /\ r.link[x][Other(d)] = y /\ r.link[x][d] = c
      /\ r.balance[x] = 0 /\ r.balance[y] = 0
  BY <1>2 DEF Single
<1>4. Shape(t, n) /\ Shape(r, n) /\ Turned(t, r, n, {x, y}, y, x) /\ Parents(t, n, at)
  BY DEF SoundBut, Single, Turned
<1>5. h \in [0 .. n -> 0 .. n] /\ h[0] = 0 /\ u \in [0 .. n -> SUBSET (1 .. n)] /\ u[0] = {}
      /\ u[t.root] = 1 .. n
  BY DEF SoundBut, Reaches
<1>6. x \in 0 .. n /\ y \in 0 .. n /\ x # 0 /\ y # 0 /\ 0 \in 0 .. n
  BY <1>2
<1>7. /\ h2[y] = h[y] - 1 /\ h2[x] = h[x]
      /\ \A v \in 0 .. n : v \notin {x, y} => h2[v] = h[v] /\ u2[v] = u[v]
      /\ u2[y] = {y} \cup u[w] \cup u[a] /\ u2[x] = u[y]
  BY <1>2, <1>5, <1>6
<1>8. /\ at2[y] = <<x, Other(d)>> /\ at2[x] = at[y] /\ (w # 0 => at2[w] = <<y, d>>)
      /\ \A v \in 1 .. n : v \notin {x, y, w} => at2[v] = at[v]
  <2>1. at2[y] = <<x, Other(d)>>
    BY <1>2
  <2>2. at2[x] = at[y]
    BY <1>2
  <2>3. w # 0 => at2[w] = <<y, d>>
    <3>1. w # 0 => w \in 1 .. n
      BY <1>2
    <3> QED
      BY <1>2, <3>1
  <2>4. \A v \in 1 .. n : v \notin {x, y, w} => at2[v] = at[v]
    OBVIOUS
  <2> QED
    BY <2>1, <2>2, <2>3, <2>4
<1>9. h2 \in [0 .. n -> 0 .. n] /\ h2[0] = 0
  <2>1. h[y] - 1 \in 0 .. n
    <3>1. h[y] \in 2 .. n
      BY DEF Corner
    <3> QED
      BY <3>1
  <2> QED
    BY <1>5, <1>6, <2>1
<1>10. u2 \in [0 .. n -> SUBSET (1 .. n)]
  <2>1. u[y] \subseteq 1 .. n /\ {y} \cup u[w] \cup u[a] \subseteq 1 .. n
    BY <1>2, <1>5, <1>6
  <2> QED
    BY <1>5, <2>1
<1> HIDE DEF h2, u2, at2
<1>11. u2[0] = {} /\ u2[r.root] = 1 .. n
  <2>1. u2[0] = {}
    BY <1>5, <1>6, <1>7
  <2>2. t.root \in 0 .. n /\ r.root = IF t.root = y THEN x ELSE t.root
    BY <1>4 DEF Shape, Turned
  <2>3. t.root # x
    <3>1. t.root # 0 => at[t.root] = <<0, 0>>
      BY <1>4 DEF Parents
    <3>2. at[x] = <<y, d>>
      BY DEF Corner
    <3> QED
      BY <1>6, <3>1, <3>2
  <2> QED
    BY <1>5, <1>7, <2>1, <2>2, <2>3
<1>12. ASSUME NEW p \in 1 .. n, p \notin {x, y}
       PROVE  \A s \in Side : t.link[p][s] \in {x, y} => t.link[p][s] = y
  <2>1. ASSUME NEW s \in Side, t.link[p][s] = x PROVE FALSE
    <3>1. at[x] = <<p, s>>
      BY <1>4, <1>6, <2>1 DEF Parents
    <3>2. at[x] = <<y, d>>
      BY DEF Corner
    <3> QED
      BY <1>12, <3>1, <3>2
  <2> QED
    BY <2>1
<1>13. h2[x] = h[y]
  BY <1>7 DEF Corner
<1>14. ASSUME NEW p \in 1 .. n, p \notin {x, y} PROVE Kept(t, h, u, r, h2, u2, p)
  <2>1. u2[x] = u[y]
    BY <1>7
  <2>2. \A v \in 0 .. n : v \notin {x, y} => h2[v] = h[v] /\ u2[v] = u[v]
    BY <1>7
  <2>3. \A s \in Side : t.link[p][s] \in {x, y} => t.link[p][s] = y
    BY <1>12, <1>14
  <2> QED
    BY <1>4, <1>13, <1>14, <2>1, <2>2, <2>3, Outside, SMTT(60)
<1>15. \A p \in 1 .. n : EvenAt(r, h2, p)
  <2>1. ASSUME NEW p \in 1 .. n, p \notin {x, y} PROVE EvenAt(r, h2, p)
    BY <1>14, <2>1 DEF SoundBut, Kept
  <2>2. PICK e \in Nat : e = h[y] /\ h[x] = e /\ h[a] = e - 2 /\ e >= 2 /\ h[w] \in Nat /\ h[c] \in Nat
    <3>1. h[y] \in 2 .. n /\ h[x] = h[y] /\ h[a] = h[y] - 2 /\ h[w] \in 0 .. n /\ h[c] \in 0 .. n
      BY DEF Corner
    <3> QED
      BY <3>1
  <2>3. h[c] = e - 1 /\ h[w] = e - 2
    <3>1. /\ h[x] = 1 + Larger(h[w], h[c])
          /\ t.balance[x] = (IF d = 1 THEN h[c] - h[w] ELSE h[w] - h[c])
      BY DEF Corner
    <3>2. h[c] - h[w] = 1
      BY <1>1, <2>2, <3>1 DEF Side
    <3> QED
      BY <2>2, <3>1, <3>2 DEF Larger
  <2>4. h2[c] = e - 1 /\ h2[w] = e - 2 /\ h2[a] = e - 2 /\ h2[y] = e - 1 /\ h2[x] = e
    BY <1>2, <1>7, <2>2, <2>3
  <2>5. EvenAt(r, h2, y)
    <3>1. EvenOn(r, h2, y, d)
      BY <1>3, <2>2, <2>4 DEF EvenOn, Larger
    <3>2. h2[r.link[y][d]] \in Nat /\ h2[r.link[y][Other(d)]] \in Nat
      BY <1>3, <2>2, <2>4
    <3> QED
      BY <1>1, <3>1, <3>2, EvenSides
  <2>6. EvenAt(r, h2, x)
    <3>1. EvenOn(r, h2, x, d)
      BY <1>3, <2>2, <2>4 DEF EvenOn, Larger
    <3>2. h2[r.link[x][d]] \in Nat /\ h2[r.link[x][Other(d)]] \in Nat
      BY <1>3, <2>2, <2>4
    <3> QED
      BY <1>1, <3>1, <3>2, EvenSides
  <2> QED
    BY <2>1, <2>5, <2>6
<1>16. \A p \in 1 .. n : u2[p] = {p} \cup u2[r.link[p][0]] \cup u2[r.link[p][1]]
  <2>1. ASSUME NEW p \in 1 .. n, p \notin {x, y}
        PROVE  u2[p] = {p} \cup u2[r.link[p][0]] \cup u2[r.link[p][1]]
    <3>1. u[p] = {p} \cup u[t.link[p][0]] \cup u[t.link[p][1]]
      BY DEF SoundBut, Reaches
    <3> QED
      BY <1>14, <2>1, <3>1 DEF Kept
  <2>2. u2[w] = u[w] /\ u2[a] = u[a] /\ u2[c] = u[c]
    BY <1>2, <1>7
  <2>3. u[x] = {x} \cup u[w] \cup u[c] /\ u[y] = {y} \cup u[x] \cup u[a]
    BY DEF Corner
  <2>4. u2[y] = {y} \cup u2[r.link[y][d]] \cup u2[r.link[y][Other(d)]]
    BY <1>3, <1>7, <2>2
  <2>5. u2[x] = {x} \cup u2[r.link[x][d]] \cup u2[r.link[x][Other(d)]]
    BY <1>3, <1>7, <2>2, <2>3
  <2> QED
    BY <1>1, <2>1, <2>4, <2>5 DEF Side, Other
<1>17. Parents(r, n, at2)
  <2>1. \A p \in 1 .. n : \A s \in Side : t.link[p][s] # 0 => at[t.link[p][s]] = <<p, s>>
    BY <1>4 DEF Parents
  <2>2. at[x] = <<y, d>> /\ (w # 0 => at[w] = <<x, Other(d)>>)
    BY DEF Corner
  <2>3. ASSUME NEW p \in 1 .. n, NEW s \in Side, r.link[p][s] # 0
        PROVE  at2[r.link[p][s]] = <<p, s>>
    <3>1. CASE p = y /\ s = d
      BY <1>3, <1>8, <2>3, <3>1
    <3>2. CASE p = y /\ s = Other(d)
      <4>1. a # 0 /\ a \in 1 .. n /\ at[a] = <<y, Other(d)>>
        <5>1. a # 0 => at[a] = <<y, Other(d)>>
          BY DEF Corner
        <5>2. a # 0
          BY <1>3, <2>3, <3>2
        <5>0. a \in 0 .. n
          BY <1>2
        <5>3. a \in 1 .. n
          BY <5>0, <5>2
        <5> QED
          BY <5>1, <5>2, <5>3
      <4>2. a # w
        <5>1. x # y
          BY <1>2
        <5>2. SUFFICES ASSUME a = w PROVE FALSE
          OBVIOUS
        <5>3. at[w] = <<x, Other(d)>> /\ at[w] = <<y, Other(d)>>
          BY <2>2, <4>1, <5>2
        <5>4. <<x, Other(d)>> = <<y, Other(d)>>
          BY <5>3
        <5> QED
          BY <5>1, <5>4
      <4> QED
        BY <1>2, <1>3, <1>8, <3>2, <4>1, <4>2
    <3>3. CASE p = x /\ s = Other(d)
      BY <1>3, <1>8, <3>3
    <3>4. CASE p = x /\ s = d
      <4>1. c # 0 /\ c \in 1 .. n /\ at[c] = <<x, d>>
        <5>1. c # 0 => at[c] = <<x, d>>
          BY DEF Corner
        <5>2. c # 0
          BY <1>3, <2>3, <3>4
        <5>0. c \in 0 .. n
          BY <1>2
        <5>3. c \in 1 .. n
          BY <5>0, <5>2
        <5> QED
          BY <5>1, <5>2, <5>3
      <4>2. c # w
        BY <1>1, <2>2, <4>1
      <4> QED
        BY <1>2, <1>3, <1>8, <3>4, <4>1, <4>2
    <3>5. CASE p \notin {x, y}
      <4>1. PICK v : v = t.link[p][s]
        OBVIOUS
      <4>2. r.link[p][s] = IF v = y THEN x ELSE v
        BY <1>4, <3>5, <4>1 DEF Turned
      <4>3. CASE v = y
        <5>1. at[y] = <<p, s>>
          BY <1>6, <2>1, <4>1, <4>3
        <5> QED
          BY <1>8, <4>2, <4>3, <5>1
      <4>4. CASE v # y
        <5>1. v # 0 /\ v \in 1 .. n /\ at[v] = <<p, s>>
          <6>1. v # 0
            BY <2>3, <4>2, <4>4
          <6>2. v \in 0 .. n
            BY <1>4, <4>1 DEF Shape
          <6>3. t.link[p][s] # 0 => at[t.link[p][s]] = <<p, s>>
            BY <2>1
          <6>4. v \in 1 .. n
            BY <6>1, <6>2
          <6> QED
            BY <4>1, <6>1, <6>3, <6>4
        <5>2. v \notin {x, y, w}
          BY <2>2, <3>5, <4>4, <5>1
        <5> QED
          BY <1>8, <4>2, <4>4, <5>1, <5>2
      <4> QED
        BY <4>3, <4>4
    <3> QED
      BY <1>1, <3>1, <3>2, <3>3, <3>4, <3>5
  <2>4. at2[r.root] = <<0, 0>>
    <3>1. t.root \in 0 .. n /\ r.root = IF t.root = y THEN x ELSE t.root
      BY <1>4 DEF Shape, Turned
    <3>2. t.root # 0
      BY <1>2, <1>5
    <3>3. at[t.root] = <<0, 0>>
      BY <1>4, <3>2 DEF Parents
    <3>4. CASE t.root = y
      BY <1>8, <3>1, <3>3, <3>4
    <3>5. CASE t.root # y
      <4>1. t.root \notin {x, y, w} /\ t.root \in 1 .. n
        BY <1>6, <2>2, <3>1, <3>2, <3>3, <3>5
      <4> QED
        BY <1>8, <3>1, <3>3, <3>5, <4>1
    <3> QED
      BY <3>4, <3>5
  <2> QED
    BY <2>3, <2>4 DEF Parents
<1>18. Sound(r, n, h2, u2, at2)
  BY <1>4, <1>9, <1>10, <1>11, <1>15, <1>16, <1>17 DEF Sound, Heights, Reaches
<1>19. ASSUME NEW R, TransitiveOn(R, n), OrderedBy(t, n, u, R) PROVE OrderedBy(r, n, u2, R)
  <2>1. \A p \in 1 .. n : p \notin {x, y} => OrderedAt(r, u2, R, p)
    BY <1>14, <1>19 DEF OrderedBy, Kept
  <2>2. \A p \in 1 .. n : \A s \in Side : \A e \in u[t.link[p][s]] : OnSide(R, s, e, p)
    BY <1>19 DEF OrderedBy, OrderedAt
  <2>3. u2[w] = u[w] /\ u2[a] = u[a] /\ u2[c] = u[c] /\ u2[y] = {y} \cup u[w] \cup u[a]
    BY <1>2, <1>7
  <2>4. u[w] \subseteq u[x] /\ x \in u[x] /\ u[a] \subseteq 1 .. n
    BY <1>2, <1>5 DEF Corner
  <2>5. /\ \A i, j, k \in 1 .. n : OnSide(R, Other(d), i, j) /\ OnSide(R, Other(d), j, k)
                                     => OnSide(R, Other(d), i, k)
        /\ \A i, j : OnSide(R, Other(d), i, j) <=> OnSide(R, d, j, i)
    BY <1>1, <1>19, OnSideFacts
  <2>6. OrderedAt(r, u2, R, y)
    <3>1. \A e \in u[w] : OnSide(R, d, e, y)
      BY <1>1, <1>2, <2>2, <2>4
    <3>2. \A e \in u[a] : OnSide(R, Other(d), e, y)
      BY <1>1, <1>2, <2>2
    <3> QED
      BY <1>1, <1>3, <2>3, <3>1, <3>2 DEF OrderedAt
  <2>7. OrderedAt(r, u2, R, x)
    <3>1. \A e \in u[c] : OnSide(R, d, e, x)
      BY <1>1, <1>2, <2>2
    <3>2. \A e \in u[w] : OnSide(R, Other(d), e, x)
      BY <1>1, <1>2, <2>2
    <3>3. OnSide(R, Other(d), y, x)
      <4>1. OnSide(R, d, x, y)
        BY <1>1, <1>2, <2>2, <2>4
      <4> QED
        BY <2>5, <4>1
    <3>4. \A e \in u[a] : OnSide(R, Other(d), e, x)
      <4>1. \A e \in u[a] : OnSide(R, Other(d), e, y)
        BY <1>1, <1>2, <2>2
      <4> QED
        BY <1>2, <2>4, <2>5, <3>3, <4>1
    <3> QED
      BY <1>1, <1>3, <2>3, <3>1, <3>2, <3>3, <3>4 DEF OrderedAt
  <2> QED
    BY <2>1, <2>6, <2>7 DEF OrderedBy
<1> QED
  BY <1>18, <1>19

-----------------------------------------------------------------------------
(* What a double rotation makes of the tree; e and f are the items below w. *)
Double(t, r, n, y, d, x, w, e, f) ==
  LET hd == IF d = 0 THEN -1 ELSE 1
  IN  /\ Turned(t, r, n, {x, y, w}, y, w)
      /\ r.link[y][d] = f /\ r.link[y][Other(d)] = t.link[y][Other(d)]
      /\ r.link[x][Other(d)] = e /\ r.link[x][d] = t.link[x][d]
      /\ r.link[w][d] = x /\ r.link[w][Other(d)] = y
      /\ r.balance[w] = 0
      /\ r.balance[x] = (IF t.balance[w] = -hd THEN hd ELSE 0)
      /\ r.balance[y] = (IF t.balance[w] = hd THEN -hd ELSE 0)

(* The items below w. *)
Inner(t, n, h, u, at, d, y, x, w, c, e, f) ==
  /\ e = t.link[w][d] /\ f = t.link[w][Other(d)]
  /\ w \in 1 .. n /\ e \in 0 .. n /\ f \in 0 .. n
  /\ e \notin {x, y, w} /\ f \notin {x, y, w}
  /\ h[w] = h[y] - 1 /\ h[c] = h[y] - 2 /\ h[e] \in 0 .. n /\ h[f] \in 0 .. n
  /\ h[w] = 1 + Larger(h[e], h[f])
  /\ t.balance[w] = (IF d = 1 THEN h[e] - h[f] ELSE h[f] - h[e])
  /\ t.balance[w] \in -1 .. 1
  /\ at[w] = <<x, Other(d)>>
  /\ e # 0 => at[e] = <<w, d>>
  /\ f # 0 => at[f] = <<w, Other(d)>>
  /\ u[w] = {w} \cup u[e] \cup u[f]

LEMMA Inners ==
  ASSUME NEW n \in Nat, NEW t, NEW h, NEW u, NEW at, NEW y, NEW d, NEW z,
         SoundBut(t, n, h, u, at, y, d, z),
         NEW x, NEW a, NEW w, NEW c, Corner(t, n, h, u, at, y, d, z, x, a, w, c),
         t.balance[x] # (IF d = 1 THEN 1 ELSE -1),
         NEW e, NEW f, e = t.link[w][d], f = t.link[w][Other(d)]
  PROVE  Inner(t, n, h, u, at, d, y, x, w, c, e, f)
<1>1. d \in Side /\ Other(d) \in Side /\ d # Other(d)
  BY Sides DEF SoundBut
<1>2. h[y] \in 2 .. n /\ h[x] = h[y] /\ h[w] \in 0 .. n /\ h[c] \in 0 .. n /\ w \in 0 .. n
  BY DEF Corner
<1>3. h[w] = h[y] - 1 /\ h[c] = h[y] - 2
  <2>1. /\ h[x] = 1 + Larger(h[w], h[c])
        /\ t.balance[x] = (IF d = 1 THEN h[c] - h[w] ELSE h[w] - h[c])
        /\ t.balance[x] \in {-1, 1}
    BY DEF Corner
  <2>2. h[w] - h[c] = 1
    BY <1>1, <1>2, <2>1 DEF Side
  <2> QED
    BY <1>2, <2>1, <2>2 DEF Larger
<1>4. w # 0 /\ w \in 1 .. n
  <2>1. h[0] = 0
    BY DEF SoundBut
  <2> QED
    BY <1>2, <1>3, <2>1
<1>5. w # y /\ w # x
  BY DEF Corner
<1>6. e \in 0 .. n /\ f \in 0 .. n
  BY <1>1, <1>4 DEF SoundBut, Shape
<1>7. h[e] \in 0 .. n /\ h[f] \in 0 .. n
  BY <1>6 DEF SoundBut
<1>8. /\ h[w] = 1 + Larger(h[e], h[f])
      /\ t.balance[w] = (IF d = 1 THEN h[e] - h[f] ELSE h[f] - h[e])
      /\ t.balance[w] \in -1 .. 1
  <2>1. EvenAt(t, h, w)
    BY <1>4, <1>5 DEF SoundBut
  <2>2. h[t.link[w][d]] \in Nat /\ h[t.link[w][Other(d)]] \in Nat
    BY <1>7
  <2>3. EvenOn(t, h, w, d)
    BY <1>1, <2>1, <2>2, EvenSides
  <2> QED
    BY <2>3 DEF EvenOn
<1>9. h[e] < h[w] /\ h[f] < h[w]
  BY <1>2, <1>7, <1>8 DEF Larger
<1>10. e \notin {x, y, w} /\ f \notin {x, y, w}
  BY <1>2, <1>3, <1>7, <1>9
<1>11. \A p \in 1 .. n : \A s \in Side : t.link[p][s] # 0 => at[t.link[p][s]] = <<p, s>>
  BY DEF SoundBut, Parents
<1>12. (e # 0 => at[e] = <<w, d>>) /\ (f # 0 => at[f] = <<w, Other(d)>>)
  <2>1. t.link[w][d] # 0 => at[t.link[w][d]] = <<w, d>>
    BY <1>1, <1>4, <1>11
  <2>2. t.link[w][Other(d)] # 0 => at[t.link[w][Other(d)]] = <<w, Other(d)>>
    BY <1>1, <1>4, <1>11
  <2> QED
    BY <2>1, <2>2
<1>13. u[w] = {w} \cup u[e] \cup u[f]
  <2>1. Reaches(t, n, u)
    BY DEF SoundBut
  <2> QED
    BY <1>1, <1>4, <2>1, UnionSides
<1>14. at[w] = <<x, Other(d)>>
  BY <1>4 DEF Corner
<1> QED
  BY <1>3, <1>4, <1>6, <1>7, <1>8, <1>10, <1>12, <1>13, <1>14 DEF Inner

LEMMA DoubleSound ==
  ASSUME NEW n \in Nat, NEW t, NEW h, NEW u, NEW at, NEW y, NEW d, NEW z,
         SoundBut(t, n, h, u, at, y, d, z),
         NEW x, NEW a, NEW w, NEW c, Corner(t, n, h, u, at, y, d, z, x, a, w, c),
         NEW e, NEW f, Inner(t, n, h, u, at, d, y, x, w, c, e, f),
         NEW r, Double(t, r, n, y, d, x, w, e, f)
  PROVE  \E h2, u2, at2 :
           /\ Sound(r, n, h2, u2, at2)
           /\ \A R : TransitiveOn(R, n) /\ OrderedBy(t, n, u, R) => OrderedBy(r, n, u2, R)
<1> DEFINE M == {x, y, w}
           h2 == [v \in 0 .. n |-> IF v = y THEN h[y] - 1
                                   ELSE IF v = x THEN h[y] - 1
                                   ELSE IF v = w THEN h[y] ELSE h[v]]
           u2 == [v \in 0 .. n |-> IF v = y THEN {y} \cup u[f] \cup u[a]
                                   ELSE IF v = x THEN {x} \cup u[c] \cup u[e]
                                   ELSE IF v = w THEN u[y] ELSE u[v]]
           at2 == [v \in 1 .. n |-> IF v = y THEN <<w, Other(d)>>
                                    ELSE IF v = x THEN <<w, d>>
                                    ELSE IF v = w THEN at[y]
                                    ELSE IF v = e THEN <<x, Other(d)>>
                                    ELSE IF v = f THEN <<y, d>> ELSE at[v]]
<1>1. d \in Side /\ Other(d) \in Side /\ d # Other(d) /\ \A s \in Side : s = d \/ s = Other(d)
  BY Sides DEF SoundBut
<1>2. /\ x = t.link[y][d] /\ a = t.link[y][Other(d)] /\ w = t.link[x][Other(d)] /\ c = t.link[x][d]
      /\ y \in 1 .. n /\ x \in 1 .. n /\ a \in 0 .. n /\ c \in 0 .. n
      /\ x # y /\ w \notin {x, y} /\ c \notin {x, y} /\ a \notin {x, y}
  BY DEF Corner
<1>3. /\ e = t.link[w][d] /\ f = t.link[w][Other(d)]
      /\ w \in 1 .. n /\ e \in 0 .. n /\ f \in 0 .. n
      /\ e \notin {x, y, w} /\ f \notin {x, y, w}
  BY DEF Inner
<1>4. /\ at[x] = <<y, d>> /\ at[w] = <<x, Other(d)>>
      /\ c # 0 => at[c] = <<x, d>>
      /\ a # 0 => at[a] = <<y, Other(d)>>
      /\ e # 0 => at[e] = <<w, d>>
      /\ f # 0 => at[f] = <<w, Other(d)>>
  BY DEF Corner, Inner
<1>5. /\ r.link[y][d] = f /\ r.link[y][Other(d)] = a
      /\ r.link[x][Other(d)] = e /\ r.link[x][d] = c
      /\ r.link[w][d] = x /\ r.link[w][Other(d)] = y
  BY <1>2 DEF Double
<1>6. Shape(t, n) /\ Shape(r, n) /\ Turned(t, r, n, M, y, w) /\ Parents(t, n, at)
  BY DEF SoundBut, Double, Turned
<1>7. h \in [0 .. n -> 0 .. n] /\ h[0] = 0 /\ u \in [0 .. n -> SUBSET (1 .. n)] /\ u[0] = {}
      /\ u[t.root] = 1 .. n
  BY DEF SoundBut, Reaches
<1>8. x \in 0 .. n /\ y \in 0 .. n /\ w \in 0 .. n /\ x # 0 /\ y # 0 /\ w # 0 /\ 0 \in 0 .. n
  <2>1. x \in 1 .. n /\ y \in 1 .. n
    BY <1>2
  <2>2. w \in 1 .. n
    BY <1>3
  <2> QED
    BY <2>1, <2>2
<1>9. c \notin M /\ a \notin M /\ e \notin M /\ f \notin M
  <2>1. c # w
    BY <1>1, <1>4, <1>8
  <2>2. ASSUME a = w PROVE FALSE
    <3>1. at[w] = <<y, Other(d)>>
      BY <1>4, <1>8, <2>2
    <3>2. x = y
      BY <1>4, <3>1
    <3> QED
      BY <1>2, <3>2
  <2> QED
    BY <1>2, <1>3, <2>1, <2>2
<1>10. h2[y] = h[y] - 1 /\ h2[x] = h[y] - 1 /\ h2[w] = h[y]
  BY <1>2, <1>8
<1>11. u2[y] = {y} \cup u[f] \cup u[a] /\ u2[x] = {x} \cup u[c] \cup u[e] /\ u2[w] = u[y]
  BY <1>2, <1>8
<1>12. \A v \in 0 .. n : v \notin M => h2[v] = h[v] /\ u2[v] = u[v]
  OBVIOUS
<1>13. at2[y] = <<w, Other(d)>> /\ at2[x] = <<w, d>> /\ at2[w] = at[y]
  <2>1. at2[y] = <<w, Other(d)>>
    BY <1>2
  <2>2. at2[x] = <<w, d>>
    BY <1>2
  <2>3. at2[w] = at[y]
    BY <1>2, <1>3
  <2> QED
    BY <2>1, <2>2, <2>3
<1>14. (e # 0 => at2[e] = <<x, Other(d)>>) /\ (f # 0 => at2[f] = <<y, d>>)
  <2>1. ASSUME e # 0 PROVE at2[e] = <<x, Other(d)>>
    <3>1. e \in 1 .. n
      BY <1>3, <2>1
    <3> QED
      BY <1>3, <3>1
  <2>2. ASSUME f # 0 PROVE at2[f] = <<y, d>>
    <3>1. f \in 1 .. n
      BY <1>3, <2>2
    <3>2. f # e
      BY <1>1, <1>4, <2>2
    <3> QED
      BY <1>3, <3>1, <3>2
  <2> QED
    BY <2>1, <2>2
<1>15. \A v \in 1 .. n : v \notin {x, y, w, e, f} => at2[v] = at[v]
  OBVIOUS
<1>16. h2 \in [0 .. n -> 0 .. n] /\ h2[0] = 0
  <2>1. h[y] \in 2 .. n
    BY DEF Corner
  <2>2. h[y] - 1 \in 0 .. n /\ h[y] \in 0 .. n
    BY <2>1
  <2> QED
    BY <1>7, <1>8, <2>2
<1>17. u2 \in [0 .. n -> SUBSET (1 .. n)]
  <2>1. u[y] \subseteq 1 .. n /\ {y} \cup u[f] \cup u[a] \subseteq 1 .. n
        /\ {x} \cup u[c] \cup u[e] \subseteq 1 .. n
    BY <1>2, <1>3, <1>7, <1>8
  <2> QED
    BY <1>7, <2>1
<1> HIDE DEF h2, u2, at2
<1>18. u2[0] = {} /\ u2[r.root] = 1 .. n /\ (t.root # y => t.root \notin M)
  <2>1. u2[0] = {}
    BY <1>7, <1>8, <1>12
  <2>2. t.root \in 0 .. n /\ r.root = IF t.root = y THEN w ELSE t.root
    BY <1>6 DEF Shape, Turned
  <2>3. t.root # x /\ t.root # w
    <3>1. t.root # 0 => at[t.root] = <<0, 0>>
      BY <1>6 DEF Parents
    <3> QED
      BY <1>4, <1>8, <3>1
  <2> QED
    BY <1>7, <1>11, <1>12, <2>1, <2>2, <2>3
<1>19. ASSUME NEW p \in 1 .. n, p \notin M
       PROVE  \A s \in Side : t.link[p][s] \in M => t.link[p][s] = y
  <2>1. ASSUME NEW s \in Side, t.link[p][s] \in {x, w} PROVE FALSE
    <3>1. t.link[p][s] # 0
      BY <1>8, <2>1
    <3>2. at[t.link[p][s]] = <<p, s>>
      BY <1>6, <3>1 DEF Parents
    <3> QED
      BY <1>4, <1>19, <2>1, <3>2
  <2> QED
    BY <2>1
<1>20. ASSUME NEW p \in 1 .. n, p \notin M PROVE Kept(t, h, u, r, h2, u2, p)
  <2>1. \A s \in Side : t.link[p][s] \in M => t.link[p][s] = y
    BY <1>19, <1>20
  <2> HIDE DEF M
  <2> QED
    BY <1>6, <1>10, <1>11, <1>12, <1>20, <2>1, Outside
<1>21. \A p \in 1 .. n : EvenAt(r, h2, p)
  <2>1. ASSUME NEW p \in 1 .. n, p \notin M PROVE EvenAt(r, h2, p)
    BY <1>20, <2>1 DEF SoundBut, Kept
  <2>2. PICK k \in Nat : /\ k = h[y] /\ k >= 2 /\ h[a] = k - 2 /\ h[c] = k - 2 /\ h[w] = k - 1
    <3>1. h[y] \in 2 .. n /\ h[a] = h[y] - 2
      BY DEF Corner
    <3>2. h[c] = h[y] - 2 /\ h[w] = h[y] - 1
      BY DEF Inner
    <3> QED
      BY <3>1, <3>2
  <2>3. PICK i, j \in Nat : i = h[e] /\ j = h[f]
    <3>1. h[e] \in 0 .. n /\ h[f] \in 0 .. n
      BY DEF Inner
    <3> QED
      BY <3>1
  <2>4. /\ k - 1 = 1 + Larger(i, j)
        /\ t.balance[w] = (IF d = 1 THEN i - j ELSE j - i)
        /\ t.balance[w] \in -1 .. 1
    BY <2>2, <2>3 DEF Inner
  <2>5. /\ h2[c] = k - 2 /\ h2[a] = k - 2 /\ h2[e] = i /\ h2[f] = j
        /\ h2[y] = k - 1 /\ h2[x] = k - 1 /\ h2[w] = k
    BY <1>2, <1>3, <1>9, <1>10, <1>12, <2>2, <2>3
  <2>6. /\ r.balance[w] = 0
        /\ r.balance[x] = (IF t.balance[w] = -(IF d = 0 THEN -1 ELSE 1)
                           THEN (IF d = 0 THEN -1 ELSE 1) ELSE 0)
        /\ r.balance[y] = (IF t.balance[w] = (IF d = 0 THEN -1 ELSE 1)
                           THEN -(IF d = 0 THEN -1 ELSE 1) ELSE 0)
    BY DEF Double
  <2>7. EvenAt(r, h2, w)
    <3>1. EvenOn(r, h2, w, d)
      BY <1>5, <2>2, <2>5, <2>6 DEF EvenOn, Larger
    <3>2. h2[r.link[w][d]] \in Nat /\ h2[r.link[w][Other(d)]] \in Nat
      BY <1>5, <2>2, <2>5
    <3> QED
      BY <1>1, <3>1, <3>2, EvenSides
  <2>8. EvenAt(r, h2, y)
    <3>1. h2[r.link[y][d]] = j /\ h2[r.link[y][Other(d)]] = k - 2
      BY <1>5, <2>5
    <3>2. /\ k - 1 = 1 + Larger(j, k - 2)
          /\ r.balance[y] = (IF d = 1 THEN j - (k - 2) ELSE (k - 2) - j)
          /\ r.balance[y] \in -1 .. 1
      <4>1. CASE d = 0
        <5>1. t.balance[w] = j - i /\ t.balance[w] \in -1 .. 1
              /\ r.balance[y] = IF t.balance[w] = -1 THEN 1 ELSE 0
          BY <2>4, <2>6, <4>1
        <5> QED
          BY <2>2, <2>4, <4>1, <5>1 DEF Larger
      <4>2. CASE d = 1
        <5>1. t.balance[w] = i - j /\ t.balance[w] \in -1 .. 1
              /\ r.balance[y] = IF t.balance[w] = 1 THEN -1 ELSE 0
          BY <2>4, <2>6, <4>2
        <5> QED
          BY <2>2, <2>4, <4>2, <5>1 DEF Larger
      <4> QED
        BY <1>1, <4>1, <4>2 DEF Side
    <3>3. EvenOn(r, h2, y, d)
      BY <2>5, <3>1, <3>2 DEF EvenOn
    <3>4. h2[r.link[y][d]] \in Nat /\ h2[r.link[y][Other(d)]] \in Nat
      BY <2>2, <2>3, <3>1
    <3> QED
      BY <1>1, <3>3, <3>4, EvenSides
  <2>9. EvenAt(r, h2, x)
    <3>1. h2[r.link[x][d]] = k - 2 /\ h2[r.link[x][Other(d)]] = i
      BY <1>5, <2>5
    <3>2. /\ k - 1 = 1 + Larger(k - 2, i)
          /\ r.balance[x] = (IF d = 1 THEN (k - 2) - i ELSE i - (k - 2))
          /\ r.balance[x] \in -1 .. 1
      <4>1. CASE d = 0
        <5>1. t.balance[w] = j - i /\ t.balance[w] \in -1 .. 1
              /\ r.balance[x] = IF t.balance[w] = 1 THEN -1 ELSE 0
          BY <2>4, <2>6, <4>1
        <5> QED
          BY <2>2, <2>4, <4>1, <5>1 DEF Larger
      <4>2. CASE d = 1
        <5>1. t.balance[w] = i - j /\ t.balance[w] \in -1 .. 1
              /\ r.balance[x] = IF t.balance[w] = -1 THEN 1 ELSE 0
          BY <2>4, <2>6, <4>2
        <5> QED
          BY <2>2, <2>4, <4>2, <5>1 DEF Larger
      <4> QED
        BY <1>1, <4>1, <4>2 DEF Side
    <3>3. EvenOn(r, h2, x, d)
      BY <2>5, <3>1, <3>2 DEF EvenOn
    <3>4. h2[r.link[x][d]] \in Nat /\ h2[r.link[x][Other(d)]] \in Nat
      BY <2>2, <2>3, <3>1
    <3> QED
      BY <1>1, <3>3, <3>4, EvenSides
  <2> QED
    BY <2>1, <2>7, <2>8, <2>9
<1>22. u[x] = {x} \cup u[w] \cup u[c] /\ u[y] = {y} \cup u[x] \cup u[a] /\ u[w] = {w} \cup u[e] \cup u[f]
  BY DEF Corner, Inner
<1>23. u2[e] = u[e] /\ u2[f] = u[f] /\ u2[a] = u[a] /\ u2[c] = u[c]
  BY <1>2, <1>3, <1>9, <1>12
<1>24. \A p \in 1 .. n : u2[p] = {p} \cup u2[r.link[p][0]] \cup u2[r.link[p][1]]
  <2>1. ASSUME NEW p \in 1 .. n, p \notin M
        PROVE  u2[p] = {p} \cup u2[r.link[p][0]] \cup u2[r.link[p][1]]
    <3>1. u[p] = {p} \cup u[t.link[p][0]] \cup u[t.link[p][1]]
      BY DEF SoundBut, Reaches
    <3> QED
      BY <1>20, <2>1, <3>1 DEF Kept
  <2>2. u2[y] = {y} \cup u2[r.link[y][d]] \cup u2[r.link[y][Other(d)]]
    BY <1>5, <1>11, <1>23
  <2>3. u2[x] = {x} \cup u2[r.link[x][d]] \cup u2[r.link[x][Other(d)]]
    BY <1>5, <1>11, <1>23
  <2>4. u2[w] = {w} \cup u2[r.link[w][d]] \cup u2[r.link[w][Other(d)]]
    BY <1>5, <1>11, <1>22
  <2>5. \A p : u2[p] = {p} \cup u2[r.link[p][d]] \cup u2[r.link[p][Other(d)]]
                 => u2[p] = {p} \cup u2[r.link[p][0]] \cup u2[r.link[p][1]]
    <3>1. CASE d = 0
      <4>1. Other(d) = 1
        BY <3>1 DEF Other
      <4> QED
        BY <3>1, <4>1
    <3>2. CASE d = 1
      <4>1. Other(d) = 0
        BY <3>2 DEF Other
      <4> QED
        BY <3>2, <4>1
    <3> QED
      BY <1>1, <3>1, <3>2 DEF Side
  <2> QED
    BY <2>1, <2>2, <2>3, <2>4, <2>5
<1>25. Parents(r, n, at2)
  <2>1. \A p \in 1 .. n : \A s \in Side : t.link[p][s] # 0 => at[t.link[p][s]] = <<p, s>>
    BY <1>6 DEF Parents
  <2>2. ASSUME NEW p \in 1 .. n, NEW s \in Side, r.link[p][s] # 0
        PROVE  at2[r.link[p][s]] = <<p, s>>
    <3>1. CASE p = y /\ s = d
      BY <1>5, <1>14, <2>2, <3>1
    <3>2. CASE p = y /\ s = Other(d)
      <4>1. a # 0
        BY <1>5, <2>2, <3>2
      <4>2. a \in 1 .. n /\ at[a] = <<y, Other(d)>>
        <5>0. a \in 0 .. n
          BY <1>2
        <5>1. a \in 1 .. n
          BY <4>1, <5>0
        <5>2. at[a] = <<y, Other(d)>>
          BY <1>4, <4>1
        <5> QED
          BY <5>1, <5>2
      <4>3. a # e /\ a # f
        <5>1. w # y
          BY <1>2
        <5>2. a = e \/ a = f => \E s2 \in Side : at[a] = <<w, s2>>
          BY <1>1, <1>4, <4>1
        <5> QED
          BY <4>2, <5>1, <5>2
      <4>4. at2[a] = at[a]
        BY <1>9, <1>15, <4>2, <4>3
      <4> QED
        BY <1>5, <3>2, <4>2, <4>4
    <3>3. CASE p = x /\ s = Other(d)
      BY <1>5, <1>14, <2>2, <3>3
    <3>4. CASE p = x /\ s = d
      <4>1. c # 0
        BY <1>5, <2>2, <3>4
      <4>2. c \in 1 .. n /\ at[c] = <<x, d>>
        <5>0. c \in 0 .. n
          BY <1>2
        <5>1. c \in 1 .. n
          BY <4>1, <5>0
        <5>2. at[c] = <<x, d>>
          BY <1>4, <4>1
        <5> QED
          BY <5>1, <5>2
      <4>3. c # e /\ c # f
        <5>1. w # x
          BY <1>2
        <5>2. c = e \/ c = f => \E s2 \in Side : at[c] = <<w, s2>>
          BY <1>1, <1>4, <4>1
        <5> QED
          BY <4>2, <5>1, <5>2
      <4>4. at2[c] = at[c]
        BY <1>9, <1>15, <4>2, <4>3
      <4> QED
        BY <1>5, <3>4, <4>2, <4>4
    <3>5. CASE p = w /\ s = d
      BY <1>5, <1>13, <3>5
    <3>6. CASE p = w /\ s = Other(d)
      BY <1>5, <1>13, <3>6
    <3>7. CASE p \notin M
      <4>1. PICK v : v = t.link[p][s]
        OBVIOUS
      <4>2. r.link[p][s] = IF v = y THEN w ELSE v
        BY <1>6, <3>7, <4>1 DEF Turned
      <4>3. t.link[p][s] # 0 => at[t.link[p][s]] = <<p, s>>
        BY <2>1
      <4>4. CASE v = y
        BY <1>8, <1>13, <4>1, <4>2, <4>3, <4>4
      <4>5. CASE v # y
        <5>1. v # 0
          BY <2>2, <4>2, <4>5
        <5>2. v \in 0 .. n
          BY <1>6, <4>1 DEF Shape
        <5>3. v \in 1 .. n /\ at[v] = <<p, s>>
          BY <4>1, <4>3, <5>1, <5>2
        <5>4. v \notin {x, y, w, e, f}
          BY <1>4, <3>7, <4>5, <5>1, <5>3
        <5> QED
          BY <1>15, <4>2, <4>5, <5>3, <5>4
      <4> QED
        BY <4>4, <4>5
    <3> QED
      BY <1>1, <3>1, <3>2, <3>3, <3>4, <3>5, <3>6, <3>7
  <2>3. at2[r.root] = <<0, 0>>
    <3>1. t.root \in 0 .. n /\ r.root = IF t.root = y THEN w ELSE t.root
      BY <1>6 DEF Shape, Turned
    <3>2. t.root # 0
      BY <1>2, <1>7
    <3>3. at[t.root] = <<0, 0>>
      BY <1>6, <3>2 DEF Parents
    <3>4. CASE t.root = y
      BY <1>13, <3>1, <3>3, <3>4
    <3>5. CASE t.root # y
      <4>1. t.root \in 1 .. n /\ t.root \notin {x, y, w}
        BY <1>18, <3>1, <3>2, <3>5
      <4>2. t.root \notin {e, f}
        BY <1>4, <1>8, <3>2, <3>3
      <4> QED
        BY <1>15, <3>1, <3>3, <3>5, <4>1, <4>2
    <3> QED
      BY <3>4, <3>5
  <2> QED
    BY <2>2, <2>3 DEF Parents
<1>26. Sound(r, n, h2, u2, at2)
  BY <1>6, <1>16, <1>17, <1>18, <1>21, <1>24, <1>25 DEF Sound, Heights, Reaches
<1>27. ASSUME NEW R, TransitiveOn(R, n), OrderedBy(t, n, u, R) PROVE OrderedBy(r, n, u2, R)
  <2>1. \A p \in 1 .. n : p \notin M => OrderedAt(r, u2, R, p)
    BY <1>20, <1>27 DEF OrderedBy, Kept
  <2>2. \A p \in 1 .. n : \A s \in Side : \A i \in u[t.link[p][s]] : OnSide(R, s, i, p)
    BY <1>27 DEF OrderedBy, OrderedAt
  <2>3. /\ \A i \in u[x] : OnSide(R, d, i, y)
        /\ \A i \in u[a] : OnSide(R, Other(d), i, y)
        /\ \A i \in u[w] : OnSide(R, Other(d), i, x)
        /\ \A i \in u[c] : OnSide(R, d, i, x)
        /\ \A i \in u[e] : OnSide(R, d, i, w)
        /\ \A i \in u[f] : OnSide(R, Other(d), i, w)
    <3>1. /\ \A i \in u[x] : OnSide(R, d, i, y)
          /\ \A i \in u[a] : OnSide(R, Other(d), i, y)
      BY <1>1, <1>2, <2>2
    <3>2. /\ \A i \in u[w] : OnSide(R, Other(d), i, x)
          /\ \A i \in u[c] : OnSide(R, d, i, x)
      BY <1>1, <1>2, <2>2
    <3>3. /\ \A i \in u[e] : OnSide(R, d, i, w)
          /\ \A i \in u[f] : OnSide(R, Other(d), i, w)
      BY <1>1, <1>3, <2>2
    <3> QED
      BY <3>1, <3>2, <3>3
  <2>4. /\ \A i, j, k \in 1 .. n : OnSide(R, d, i, j) /\ OnSide(R, d, j, k) => OnSide(R, d, i, k)
        /\ \A i, j : OnSide(R, Other(d), i, j) <=> OnSide(R, d, j, i)
    BY <1>1, <1>27, OnSideFacts
  <2>5. u[a] \subseteq 1 .. n /\ u[c] \subseteq 1 .. n
    BY <1>2, <1>7
  <2>6. OrderedAt(r, u2, R, y)
    <3>1. \A i \in u[f] : OnSide(R, d, i, y)
      BY <1>22, <2>3
    <3> QED
      BY <1>1, <1>5, <1>23, <2>3, <3>1 DEF OrderedAt
  <2>7. OrderedAt(r, u2, R, x)
    <3>1. \A i \in u[e] : OnSide(R, Other(d), i, x)
      BY <1>22, <2>3
    <3> QED
      BY <1>1, <1>5, <1>23, <2>3, <3>1 DEF OrderedAt
  <2>8. OrderedAt(r, u2, R, w)
    <3>1. OnSide(R, d, x, w)
      <4>1. OnSide(R, Other(d), w, x)
        BY <1>22, <2>3
      <4> QED
        BY <2>4, <4>1
    <3>2. \A i \in u[c] : OnSide(R, d, i, w)
      <4>1. \A i \in u[c] : i \in 1 .. n /\ OnSide(R, d, i, x)
        BY <2>3, <2>5
      <4>2. x \in 1 .. n /\ w \in 1 .. n
        BY <1>2, <1>3
      <4> QED
        BY <2>4, <3>1, <4>1, <4>2
    <3>3. OnSide(R, d, w, y)
      BY <1>22, <2>3
    <3>4. OnSide(R, Other(d), y, w)
      BY <2>4, <3>3
    <3>5. \A i \in u[a] : OnSide(R, Other(d), i, w)
      <4>1. \A i \in u[a] : OnSide(R, d, y, i)
        BY <2>3, <2>4
      <4>2. \A i \in u[a] : OnSide(R, d, w, i)
        BY <1>2, <1>3, <2>4, <2>5, <3>3, <4>1
      <4> QED
        BY <2>4, <4>2
    <3> QED
      BY <1>1, <1>5, <1>11, <2>3, <3>1, <3>2, <3>4, <3>5 DEF OrderedAt
  <2> QED
    BY <2>1, <2>6, <2>7, <2>8 DEF OrderedBy
<1> QED
  BY <1>26, <1>27

-----------------------------------------------------------------------------
(* What the assignments of avl_probe make of a tree. *)
Links(n) == [1 .. n -> [Side -> 0 .. n]]

Put(l, p, s, v) == [l EXCEPT ![p][s] = v]

(* k is l but for the link of p on side s, which is v. *)
Replaced(k, l, n, p, s, v) ==
  /\ k \in Links(n) /\ k[p][s] = v
  /\ \A q \in 1 .. n : \A i \in Side : ~ (q = p /\ i = s) => k[q][i] = l[q][i]

LEMMA PutLink ==
  ASSUME NEW n \in Nat, NEW l \in Links(n), NEW p \in 1 .. n, NEW s \in Side, NEW v \in 0 .. n
  PROVE  Replaced(Put(l, p, s, v), l, n, p, s, v)
<1>1. Put(l, p, s, v) = [l EXCEPT ![p] = [l[p] EXCEPT ![s] = v]]
  BY DEF Put
<1>2. l \in [1 .. n -> [Side -> 0 .. n]] /\ l[p] \in [Side -> 0 .. n]
  BY DEF Links
<1>3. [l[p] EXCEPT ![s] = v] \in [Side -> 0 .. n]
  BY <1>2
<1>4. Put(l, p, s, v) \in [1 .. n -> [Side -> 0 .. n]]
  BY <1>1, <1>2, <1>3
<1>5. Put(l, p, s, v)[p] = [l[p] EXCEPT ![s] = v]
  BY <1>1, <1>2
<1>6. \A q \in 1 .. n : q # p => Put(l, p, s, v)[q] = l[q]
  BY <1>1, <1>2
<1>7. Put(l, p, s, v)[p][s] = v /\ \A i \in Side : i # s => Put(l, p, s, v)[p][i] = l[p][i]
  BY <1>2, <1>5
<1> QED
  BY <1>4, <1>6, <1>7 DEF Links, Replaced

(* The assignments of a rotation, one after the other. *)
SinglePut(t, y, d, w, x, o) ==
  [t EXCEPT !.link[y][d] = w, !.link[x][o] = y, !.balance[x] = 0, !.balance[y] = 0]

LEMMA SinglePuts ==
  ASSUME NEW n, NEW t, Shape(t, n), NEW y, NEW d, NEW w, NEW x, NEW o
  PROVE  SinglePut(t, y, d, w, x, o) =
           [root |-> t.root, link |-> Put(Put(t.link, y, d, w), x, o, y),
            balance |-> [t.balance EXCEPT ![x] = 0, ![y] = 0]]
<1>1. PICK v : v = SinglePut(t, y, d, w, x, o)
  OBVIOUS
<1>2. v.root = t.root
  BY <1>1 DEF SinglePut, Shape
<1>3. v.link = Put(Put(t.link, y, d, w), x, o, y)
  BY <1>1 DEF SinglePut, Shape, Put
<1>4. v.balance = [t.balance EXCEPT ![x] = 0, ![y] = 0]
  BY <1>1 DEF SinglePut, Shape
<1>5. v = [root |-> v.root, link |-> v.link, balance |-> v.balance]
  BY <1>1 DEF SinglePut, Shape
<1> QED
  BY <1>1, <1>2, <1>3, <1>4, <1>5

DoublePut(t, y, d, w, x, o, e, f, g, i, j) ==
  [t EXCEPT !.link[x][o] = e, !.link[y][d] = f, !.link[w] = g,
            !.balance[x] = i, !.balance[y] = j, !.balance[w] = 0]

LEMMA DoublePuts ==
  ASSUME NEW n, NEW t, Shape(t, n),
         NEW y, NEW d, NEW w, NEW x, NEW o, NEW e, NEW f, NEW g, NEW i, NEW j
  PROVE  DoublePut(t, y, d, w, x, o, e, f, g, i, j) =
           [root |-> t.root,
            link |-> [Put(Put(t.link, x, o, e), y, d, f) EXCEPT ![w] = g],
            balance |-> [t.balance EXCEPT ![x] = i, ![y] = j, ![w] = 0]]
<1>1. PICK v : v = DoublePut(t, y, d, w, x, o, e, f, g, i, j)
  OBVIOUS
<1>2. v.root = t.root
  BY <1>1 DEF DoublePut, Shape
<1>3. v.link = [Put(Put(t.link, x, o, e), y, d, f) EXCEPT ![w] = g]
  BY <1>1 DEF DoublePut, Shape, Put
<1>4. v.balance = [t.balance EXCEPT ![x] = i, ![y] = j, ![w] = 0]
  BY <1>1 DEF DoublePut, Shape
<1>5. v = [root |-> v.root, link |-> v.link, balance |-> v.balance]
  BY <1>1 DEF DoublePut, Shape
<1> QED
  BY <1>1, <1>2, <1>3, <1>4, <1>5

LEMMA BalanceTwo ==
  ASSUME NEW S, NEW b \in [S -> Int], NEW x \in S, NEW y \in S, x # y, NEW i \in Int, NEW j \in Int,
         NEW k, k = [b EXCEPT ![x] = i, ![y] = j]
  PROVE  /\ k \in [S -> Int] /\ k[x] = i /\ k[y] = j
         /\ \A p \in S : p \notin {x, y} => k[p] = b[p]
OBVIOUS

LEMMA BalanceThree ==
  ASSUME NEW S, NEW b \in [S -> Int], NEW x \in S, NEW y \in S, NEW w \in S,
         x # y, w # x, w # y, NEW i \in Int, NEW j \in Int,
         NEW k, k = [b EXCEPT ![x] = i, ![y] = j, ![w] = 0]
  PROVE  /\ k \in [S -> Int] /\ k[x] = i /\ k[y] = j /\ k[w] = 0
         /\ \A p \in S : p \notin {x, y, w} => k[p] = b[p]
OBVIOUS

(* Relink hangs top where y was: a is t but for the links of M. *)
LEMMA RelinkIs ==
  ASSUME NEW n \in Nat, NEW t, NEW h, NEW u, NEW at, NEW y, NEW d, NEW z,
         SoundBut(t, n, h, u, at, y, d, z),
         NEW M, y \in M, NEW top \in 1 .. n, top \in M, z \notin M \/ z = 0,
         NEW a, Shape(a, n), a.root = t.root,
         \A p \in 1 .. n : p \notin M => a.balance[p] = t.balance[p] /\ a.link[p] = t.link[p],
         NEW r, r = Relink(a, z, y, top)
  PROVE  /\ Turned(t, r, n, M, y, top)
         /\ r.balance = a.balance
         /\ \A p \in 1 .. n : p \in M => r.link[p] = a.link[p]
<1>1. y \in 1 .. n /\ Parents(t, n, at) /\ Shape(t, n)
  BY DEF SoundBut, LeansAt
<1>2. \A p \in 1 .. n : \A s \in Side : t.link[p][s] # 0 => at[t.link[p][s]] = <<p, s>>
  BY <1>1 DEF Parents
<1>3. CASE z = 0
  <2>1. t.root = y
    BY <1>3 DEF SoundBut
  <2>2. at[y] = <<0, 0>>
    BY <1>1, <2>1 DEF Parents
  <2>3. \A p \in 1 .. n : \A s \in Side : t.link[p][s] # y
    <3> SUFFICES ASSUME NEW p \in 1 .. n, NEW s \in Side, t.link[p][s] = y PROVE FALSE
      OBVIOUS
    <3>1. at[t.link[p][s]] = <<p, s>>
      BY <1>1, <1>2
    <3> QED
      BY <2>2, <3>1
  <2>4. r = [a EXCEPT !.root = top]
    BY <1>3 DEF Relink
  <2>5. a \in [root : 0 .. n, link : [1 .. n -> [Side -> 0 .. n]], balance : [1 .. n -> Int]]
    BY DEF Shape
  <2>6. r.root = top /\ r.link = a.link /\ r.balance = a.balance
    BY <2>4, <2>5
  <2>7. Shape(r, n)
    <3>1. r = [root |-> r.root, link |-> r.link, balance |-> r.balance]
      BY <2>4, <2>5
    <3>2. top \in 0 .. n
      OBVIOUS
    <3> QED
      BY <2>5, <2>6, <3>1, <3>2 DEF Shape
  <2> QED
    BY <2>1, <2>3, <2>6, <2>7 DEF Turned
<1>4. CASE z # 0
  <2>1. z \in 1 .. n /\ z \notin M /\ \E s \in Side : t.link[z][s] = y
    BY <1>4 DEF SoundBut
  <2>2. PICK s \in Side : t.link[z][s] = y
    BY <2>1
  <2>3. at[y] = <<z, s>>
    <3>1. at[t.link[z][s]] = <<z, s>>
      BY <1>1, <1>2, <2>1, <2>2
    <3> QED
      BY <2>2, <3>1
  <2>4. a.link[z] = t.link[z]
    BY <2>1
  <2>5. (IF y # a.link[z][0] THEN 1 ELSE 0) = s
    <3>1. CASE s = 0
      BY <2>2, <2>4, <3>1
    <3>2. CASE s = 1
      <4>1. t.link[z][0] # y
        <5> SUFFICES ASSUME t.link[z][0] = y PROVE FALSE
          OBVIOUS
        <5>1. 0 \in Side
          BY DEF Side
        <5>2. at[t.link[z][0]] = <<z, 0>>
          BY <1>1, <1>2, <2>1, <5>1
        <5> QED
          BY <2>3, <3>2, <5>2
      <4> QED
        BY <2>4, <3>2, <4>1
    <3> QED
      BY <3>1, <3>2 DEF Side
  <2>6. r = [a EXCEPT !.link[z][s] = top]
    BY <1>4, <2>5 DEF Relink
  <2>7. a \in [root : 0 .. n, link : Links(n), balance : [1 .. n -> Int]]
    BY DEF Shape, Links
  <2>8. r.root = a.root /\ r.balance = a.balance /\ r.link = Put(a.link, z, s, top)
    BY <2>6, <2>7 DEF Put
  <2>9. /\ r.link \in Links(n) /\ r.link[z][s] = top
        /\ \A q \in 1 .. n : \A i \in Side : ~ (q = z /\ i = s) => r.link[q][i] = a.link[q][i]
    <3>1. a.link \in Links(n) /\ top \in 0 .. n
      BY <2>7
    <3>2. Replaced(Put(a.link, z, s, top), a.link, n, z, s, top)
      BY <2>1, <3>1, PutLink
    <3> QED
      BY <2>8, <3>2 DEF Replaced
  <2>10. Shape(r, n)
    <3>1. r = [root |-> r.root, link |-> r.link, balance |-> r.balance]
      BY <2>6, <2>7
    <3> QED
      BY <2>7, <2>8, <2>9, <3>1 DEF Shape, Links
  <2>11. t.root # y
    <3> SUFFICES ASSUME t.root = y PROVE FALSE
      OBVIOUS
    <3>1. at[y] = <<0, 0>>
      BY <1>1 DEF Parents
    <3> QED
      BY <1>4, <2>3, <3>1
  <2>12. ASSUME NEW p \in 1 .. n, p \notin M, NEW i \in Side
         PROVE  r.link[p][i] = IF t.link[p][i] = y THEN top ELSE t.link[p][i]
    <3>1. a.link[p] = t.link[p]
      BY <2>12
    <3>2. t.link[p][i] = y <=> p = z /\ i = s
      <4>1. t.link[p][i] = y => at[t.link[p][i]] = <<p, i>>
        BY <1>1, <1>2
      <4> QED
        BY <2>2, <2>3, <4>1
    <3> QED
      BY <2>9, <3>1, <3>2
  <2>13. ASSUME NEW p \in 1 .. n, p \in M PROVE r.link[p] = a.link[p]
    <3>1. p # z
      BY <2>1, <2>13
    <3>2. \A i \in Side : r.link[p][i] = a.link[p][i]
      BY <2>9, <3>1
    <3>3. r.link[p] \in [Side -> 0 .. n] /\ a.link[p] \in [Side -> 0 .. n]
      BY <2>7, <2>9 DEF Links
    <3> QED
      BY <3>2, <3>3
  <2>14. \A p \in 1 .. n : p \notin M => r.balance[p] = t.balance[p]
    BY <2>8
  <2>15. r.root = IF t.root = y THEN top ELSE t.root
    BY <2>8, <2>11
  <2>16. Turned(t, r, n, M, y, top)
    BY <2>10, <2>12, <2>14, <2>15 DEF Turned
  <2> QED
    BY <2>8, <2>13, <2>16
<1> QED
  BY <1>3, <1>4

LEMMA SingleIs ==
  ASSUME NEW n \in Nat, NEW t, NEW h, NEW u, NEW at, NEW y, NEW d, NEW z,
         SoundBut(t, n, h, u, at, y, d, z),
         NEW x, NEW a, NEW w, NEW c, Corner(t, n, h, u, at, y, d, z, x, a, w, c),
         t.balance[x] = (IF d = 0 THEN -1 ELSE 1),
         NEW q, q = Rotate(t, y, d), NEW r, r = Relink(q.tree, z, y, q.w)
  PROVE  Single(t, r, n, y, d, x, w)
<1>1. d \in Side /\ Other(d) \in Side /\ d # Other(d) /\ Other(d) = 1 - d
  BY Sides DEF SoundBut, Other
<1>2. /\ x = t.link[y][d] /\ w = t.link[x][Other(d)]
      /\ y \in 1 .. n /\ x \in 1 .. n /\ w \in 0 .. n /\ x # y
      /\ z \notin {x, y}
  BY DEF Corner
<1>3. t \in [root : 0 .. n, link : Links(n), balance : [1 .. n -> Int]]
  BY DEF SoundBut, Shape, Links
<1> DEFINE v == [t EXCEPT !.link[y][d] = w, !.link[x][Other(d)] = y,
                          !.balance[x] = 0, !.balance[y] = 0]
           k == Put(t.link, y, d, w)
           l == Put(k, x, Other(d), y)
<1>4. q.tree = v /\ q.w = x
  BY <1>1, <1>2 DEF Rotate
<1>5. v.root = t.root /\ v.link = l /\ v.balance = [t.balance EXCEPT ![x] = 0, ![y] = 0]
      /\ v = [root |-> v.root, link |-> v.link, balance |-> v.balance]
  <2>1. v = [root |-> t.root, link |-> l, balance |-> [t.balance EXCEPT ![x] = 0, ![y] = 0]]
    <3>1. v = SinglePut(t, y, d, w, x, Other(d)) /\ Shape(t, n)
      BY DEF SinglePut, SoundBut
    <3> HIDE DEF v
    <3>2. v = [root |-> t.root, link |-> Put(Put(t.link, y, d, w), x, Other(d), y),
               balance |-> [t.balance EXCEPT ![x] = 0, ![y] = 0]]
      BY <3>1, SinglePuts
    <3> QED
      BY <3>2
  <2> HIDE DEF v, l
  <2> QED
    BY <2>1
<1>6. /\ k \in Links(n) /\ k[y][d] = w
      /\ \A p \in 1 .. n : \A i \in Side : ~ (p = y /\ i = d) => k[p][i] = t.link[p][i]
  <2>1. t.link \in Links(n)
    BY <1>3
  <2>2. Replaced(k, t.link, n, y, d, w)
    BY <1>1, <1>2, <2>1, PutLink
  <2> HIDE DEF k
  <2> QED
    BY <2>2 DEF Replaced
<1>7. /\ l \in Links(n) /\ l[x][Other(d)] = y
      /\ \A p \in 1 .. n : \A i \in Side : ~ (p = x /\ i = Other(d)) => l[p][i] = k[p][i]
  <2> HIDE DEF k
  <2>1. Replaced(l, k, n, x, Other(d), y)
    <3>1. y \in 0 .. n
      BY <1>2
    <3> QED
      BY <1>1, <1>2, <1>6, <3>1, PutLink
  <2> HIDE DEF l
  <2> QED
    BY <2>1 DEF Replaced
<1> HIDE DEF k, l, v
<1>8. /\ v.balance \in [1 .. n -> Int] /\ v.balance[x] = 0 /\ v.balance[y] = 0
      /\ \A p \in 1 .. n : p \notin {x, y} => v.balance[p] = t.balance[p]
  <2>1. t.balance \in [1 .. n -> Int] /\ v.balance = [t.balance EXCEPT ![x] = 0, ![y] = 0]
    BY <1>3, <1>5
  <2>2. PICK b0 \in [1 .. n -> Int] : b0 = t.balance
    BY <2>1
  <2>3. PICK b1 : b1 = v.balance
    OBVIOUS
  <2>4. b1 = [b0 EXCEPT ![x] = 0, ![y] = 0] /\ x \in 1 .. n /\ y \in 1 .. n /\ x # y
    BY <1>2, <2>1, <2>2, <2>3
  <2>5. /\ b1 \in [1 .. n -> Int] /\ b1[x] = 0 /\ b1[y] = 0
        /\ \A p \in 1 .. n : p \notin {x, y} => b1[p] = b0[p]
    BY <2>4, BalanceTwo
  <2> QED
    BY <2>2, <2>3, <2>5
<1>9. Shape(v, n)
  BY <1>3, <1>5, <1>7, <1>8 DEF Shape, Links
<1>10. ASSUME NEW p \in 1 .. n, p \notin {x, y} PROVE v.link[p] = t.link[p]
  <2>1. \A i \in Side : l[p][i] = t.link[p][i]
    BY <1>6, <1>7, <1>10
  <2>2. l[p] \in [Side -> 0 .. n] /\ t.link[p] \in [Side -> 0 .. n]
    BY <1>3, <1>7 DEF Links
  <2> QED
    BY <1>5, <2>1, <2>2
<1>11. /\ Turned(t, r, n, {x, y}, y, x)
       /\ r.balance = v.balance
       /\ \A p \in 1 .. n : p \in {x, y} => r.link[p] = v.link[p]
  <2>1. \A p \in 1 .. n : p \notin {x, y} => v.balance[p] = t.balance[p] /\ v.link[p] = t.link[p]
    BY <1>8, <1>10
  <2>2. r = Relink(v, z, y, x) /\ y \in {x, y} /\ x \in {x, y}
    BY <1>4
  <2>3. PICK M : M = {x, y}
    OBVIOUS
  <2>4. Turned(t, r, n, M, y, x) /\ r.balance = v.balance
        /\ \A p \in 1 .. n : p \in M => r.link[p] = v.link[p]
    <3>1. y \in M /\ x \in M /\ z \notin M /\ x \in 1 .. n
      BY <1>2, <2>3
    <3>2. \A p \in 1 .. n : p \notin M => v.balance[p] = t.balance[p] /\ v.link[p] = t.link[p]
      BY <2>1, <2>3
    <3>3. Shape(v, n) /\ v.root = t.root /\ r = Relink(v, z, y, x)
      BY <1>5, <1>9, <2>2
    <3> QED
      BY <3>1, <3>2, <3>3, RelinkIs
  <2> QED
    BY <2>3, <2>4
<1>12. r.link[y] = l[y] /\ r.link[x] = l[x]
  BY <1>2, <1>5, <1>11
<1>13. l[y][d] = w /\ l[y][Other(d)] = t.link[y][Other(d)] /\ l[x][Other(d)] = y /\ l[x][d] = t.link[x][d]
  BY <1>1, <1>2, <1>6, <1>7
<1> QED
  BY <1>8, <1>11, <1>12, <1>13 DEF Single

LEMMA DoubleIs ==
  ASSUME NEW n \in Nat, NEW t, NEW h, NEW u, NEW at, NEW y, NEW d, NEW z,
         SoundBut(t, n, h, u, at, y, d, z),
         NEW x, NEW a, NEW w, NEW c, Corner(t, n, h, u, at, y, d, z, x, a, w, c),
         t.balance[x] # (IF d = 0 THEN -1 ELSE 1),
         NEW e, NEW f, Inner(t, n, h, u, at, d, y, x, w, c, e, f),
         NEW q, q = Rotate(t, y, d), NEW r, r = Relink(q.tree, z, y, q.w)
  PROVE  Double(t, r, n, y, d, x, w, e, f)
<1>1. d \in Side /\ Other(d) \in Side /\ d # Other(d) /\ Other(d) = 1 - d
      /\ \A s \in Side : s = d \/ s = Other(d)
  BY Sides DEF SoundBut, Other
<1>2. /\ x = t.link[y][d] /\ w = t.link[x][Other(d)]
      /\ y \in 1 .. n /\ x \in 1 .. n /\ w \in 0 .. n /\ x # y /\ w \notin {x, y}
  BY DEF Corner
<1>3. e = t.link[w][d] /\ f = t.link[w][Other(d)] /\ w \in 1 .. n /\ e \in 0 .. n /\ f \in 0 .. n
  BY DEF Inner
<1>4. z \notin {x, y, w} \/ z = 0
  <2>1. z \notin {x, y} /\ (w # 0 => z # w)
    BY DEF Corner
  <2> QED
    BY <1>3, <2>1
<1>5. t \in [root : 0 .. n, link : Links(n), balance : [1 .. n -> Int]]
  BY DEF SoundBut, Shape, Links
<1>6. PICK i, j \in Int :
        LET hd == IF d = 0 THEN -1 ELSE 1
        IN  /\ i = (IF t.balance[w] = -hd THEN hd ELSE 0)
            /\ j = (IF t.balance[w] = hd THEN -hd ELSE 0)
  OBVIOUS
<1>7. PICK g : g = [s \in Side |-> IF s = d THEN x ELSE y]
  OBVIOUS
<1> DEFINE v == [t EXCEPT !.link[x][Other(d)] = e, !.link[y][d] = f, !.link[w] = g,
                          !.balance[x] = i, !.balance[y] = j, !.balance[w] = 0]
           k == Put(t.link, x, Other(d), e)
           l == Put(k, y, d, f)
           b == [t.balance EXCEPT ![x] = i, ![y] = j, ![w] = 0]
<1>8. q.tree = v /\ q.w = w
  <2>1. PICK hd : hd = IF d = 0 THEN -1 ELSE 1
    OBVIOUS
  <2>2. DoubleBalance(hd, t.balance[w]).x = i /\ DoubleBalance(hd, t.balance[w]).y = j
    BY <1>6, <2>1 DEF DoubleBalance
  <2>3. t.balance[x] # hd
    BY <2>1
  <2>4. q = [tree |-> v, w |-> w]
    BY <1>1, <1>2, <1>3, <1>7, <2>1, <2>2, <2>3 DEF Rotate, Side
  <2> QED
    BY <2>4
<1>9. v.root = t.root /\ v.link = [l EXCEPT ![w] = g] /\ v.balance = b
      /\ v = [root |-> v.root, link |-> v.link, balance |-> v.balance]
  <2>1. v = [root |-> t.root, link |-> [l EXCEPT ![w] = g], balance |-> b]
    <3>1. v = DoublePut(t, y, d, w, x, Other(d), e, f, g, i, j) /\ Shape(t, n)
      BY DEF DoublePut, SoundBut
    <3> HIDE DEF v
    <3>2. v = [root |-> t.root,
               link |-> [Put(Put(t.link, x, Other(d), e), y, d, f) EXCEPT ![w] = g],
               balance |-> [t.balance EXCEPT ![x] = i, ![y] = j, ![w] = 0]]
      BY <3>1, DoublePuts
    <3> QED
      BY <3>2
  <2> HIDE DEF v, l, b
  <2> QED
    BY <2>1
<1>10. /\ k \in Links(n) /\ k[x][Other(d)] = e
       /\ \A p \in 1 .. n : \A s \in Side : ~ (p = x /\ s = Other(d)) => k[p][s] = t.link[p][s]
  <2>1. t.link \in Links(n)
    BY <1>5
  <2>2. Replaced(k, t.link, n, x, Other(d), e)
    BY <1>1, <1>2, <1>3, <2>1, PutLink
  <2> HIDE DEF k
  <2> QED
    BY <2>2 DEF Replaced
<1>11. /\ l \in Links(n) /\ l[y][d] = f
       /\ \A p \in 1 .. n : \A s \in Side : ~ (p = y /\ s = d) => l[p][s] = k[p][s]
  <2> HIDE DEF k
  <2>1. Replaced(l, k, n, y, d, f)
    BY <1>1, <1>2, <1>3, <1>10, PutLink
  <2> HIDE DEF l
  <2> QED
    BY <2>1 DEF Replaced
<1>12. /\ b \in [1 .. n -> Int] /\ b[x] = i /\ b[y] = j /\ b[w] = 0
       /\ \A p \in 1 .. n : p \notin {x, y, w} => b[p] = t.balance[p]
  <2>1. t.balance \in [1 .. n -> Int]
    BY <1>5
  <2>2. x # y /\ w # x /\ w # y
    BY <1>2
  <2>3. x \in 1 .. n /\ y \in 1 .. n /\ w \in 1 .. n
    BY <1>2, <1>3
  <2>4. PICK b0 \in [1 .. n -> Int] : b0 = t.balance
    BY <2>1
  <2>5. b = [b0 EXCEPT ![x] = i, ![y] = j, ![w] = 0]
    BY <2>4
  <2> HIDE DEF b
  <2>6. /\ b \in [1 .. n -> Int] /\ b[x] = i /\ b[y] = j /\ b[w] = 0
        /\ \A p \in 1 .. n : p \notin {x, y, w} => b[p] = b0[p]
    BY <2>2, <2>3, <2>5, BalanceThree
  <2> QED
    BY <2>4, <2>6
<1> HIDE DEF k, l, v, b
<1>13. g \in [Side -> 0 .. n] /\ g[d] = x /\ g[Other(d)] = y
  BY <1>1, <1>2, <1>7
<1>14. /\ v.link \in Links(n) /\ v.link[w] = g
       /\ \A p \in 1 .. n : p # w => v.link[p] = l[p]
  BY <1>3, <1>9, <1>11, <1>13 DEF Links
<1>15. Shape(v, n)
  BY <1>5, <1>9, <1>12, <1>14 DEF Shape, Links
<1>16. ASSUME NEW p \in 1 .. n, p \notin {x, y, w} PROVE v.link[p] = t.link[p]
  <2>1. \A s \in Side : l[p][s] = t.link[p][s]
    BY <1>10, <1>11, <1>16
  <2>2. l[p] \in [Side -> 0 .. n] /\ t.link[p] \in [Side -> 0 .. n]
    BY <1>5, <1>11 DEF Links
  <2> QED
    BY <1>14, <1>16, <2>1, <2>2
<1>17. /\ Turned(t, r, n, {x, y, w}, y, w)
       /\ r.balance = v.balance
       /\ \A p \in 1 .. n : p \in {x, y, w} => r.link[p] = v.link[p]
  <2>1. \A p \in 1 .. n : p \notin {x, y, w} => v.balance[p] = t.balance[p] /\ v.link[p] = t.link[p]
    BY <1>9, <1>12, <1>16
  <2>2. PICK M : M = {x, y, w}
    OBVIOUS
  <2>3. Turned(t, r, n, M, y, w) /\ r.balance = v.balance
        /\ \A p \in 1 .. n : p \in M => r.link[p] = v.link[p]
    <3>1. y \in M /\ w \in M /\ (z \notin M \/ z = 0) /\ w \in 1 .. n
      BY <1>3, <1>4, <2>2
    <3>2. \A p \in 1 .. n : p \notin M => v.balance[p] = t.balance[p] /\ v.link[p] = t.link[p]
      BY <2>1, <2>2
    <3>3. Shape(v, n) /\ v.root = t.root /\ r = Relink(v, z, y, w)
      BY <1>8, <1>9, <1>15
    <3> QED
      BY <3>1, <3>2, <3>3, RelinkIs
  <2> QED
    BY <2>2, <2>3
<1>18. r.link[y] = l[y] /\ r.link[x] = l[x] /\ r.link[w] = g
  <2>1. y # w /\ x # w
    BY <1>2
  <2> QED
    BY <1>2, <1>3, <1>14, <1>17, <2>1
<1>19. l[y][d] = f /\ l[y][Other(d)] = t.link[y][Other(d)] /\ l[x][Other(d)] = e /\ l[x][d] = t.link[x][d]
  BY <1>1, <1>2, <1>10, <1>11
<1>20. r.balance[w] = 0 /\ r.balance[x] = i /\ r.balance[y] = j
  BY <1>9, <1>12, <1>17
<1> QED
  BY <1>6, <1>13, <1>17, <1>18, <1>19, <1>20 DEF Double

-----------------------------------------------------------------------------
(* The tree with the new item, before any rotation. *)
Grow(t, s, k, cmp) ==
  [root    |-> t.root,
   link    |-> Append([t.link EXCEPT ![s[Len(s)]][Dir(cmp, s[Len(s)])] = Len(t.balance) + 1],
                      [i \in {0, 1} |-> 0]),
   balance |-> Append([p \in Items(t) |->
                         IF p \notin Places(s, k) THEN t.balance[p]
                         ELSE t.balance[p] + 2 * Dir(cmp, p) - 1], 0)]

LEMMA LenIs ==
  ASSUME NEW n \in Nat, NEW S, NEW f \in [1 .. n -> S]
  PROVE  f \in Seq(S) /\ Len(f) = n
<1>1. f \in Seq(S)
  BY SeqDef
<1>2. Len(f) \in Nat /\ DOMAIN f = 1 .. Len(f) /\ DOMAIN f = 1 .. n
  BY <1>1
<1> QED
  BY <1>1, <1>2

Appended(g, f, n, S, v) ==
  /\ g \in [1 .. n + 1 -> S] /\ g[n + 1] = v
  /\ \A i \in 1 .. n : g[i] = f[i]

LEMMA AppendIs ==
  ASSUME NEW n \in Nat, NEW S, NEW f \in [1 .. n -> S], NEW v \in S
  PROVE  Appended(Append(f, v), f, n, S, v)
<1>1. f \in Seq(S) /\ Len(f) = n
  BY LenIs
<1>2. PICK g : g = Append(f, v)
  OBVIOUS
<1>3. /\ g \in Seq(S) /\ Len(g) = n + 1 /\ g[n + 1] = v
      /\ \A i \in 1 .. n : g[i] = f[i]
  BY <1>1, <1>2, AppendProperties
<1>4. g \in [1 .. n + 1 -> S]
  BY <1>3, LenProperties
<1> QED
  BY <1>2, <1>3, <1>4 DEF Appended

LEMMA GrowIs ==
  ASSUME NEW n \in Nat, NEW t, NEW h, NEW u, NEW at, NEW cmp, NEW s, NEW k,
         Growing(t, n, h, u, at, cmp, s, k)
  PROVE  Grown(t, n, cmp, s, k, Grow(t, s, k, cmp))
<1>1. Hanging(t, n, at, cmp, s, k) /\ Shape(t, n)
  BY OnPath DEF Growing, Sound
<1>2. /\ t.root \in 0 .. n /\ t.link \in [1 .. n -> [Side -> 0 .. n]]
      /\ t.balance \in [1 .. n -> Int] /\ Len(t.balance) = n /\ Items(t) = 1 .. n
  <2>1. /\ t.root \in 0 .. n /\ t.link \in [1 .. n -> [Side -> 0 .. n]]
        /\ t.balance \in [1 .. n -> Int]
    BY <1>1 DEF Shape
  <2> QED
    BY <2>1, LenIs DEF Items
<1>3. PICK q, d : q = s[Len(s)] /\ d = Dir(cmp, q) /\ q \in 1 .. n /\ d \in Side
  BY <1>1, DirIsSide DEF Hanging
<1> DEFINE l == [t.link EXCEPT ![q][d] = n + 1]
           b == [p \in 1 .. n |-> IF p \notin Places(s, k) THEN t.balance[p]
                                  ELSE t.balance[p] + 2 * Dir(cmp, p) - 1]
           g == Grow(t, s, k, cmp)
<1>4. g = [root |-> t.root, link |-> Append(l, [i \in Side |-> 0]), balance |-> Append(b, 0)]
  BY <1>2, <1>3 DEF Grow, Side
<1>5. /\ l \in [1 .. n -> [Side -> 0 .. n + 1]]
      /\ \A p \in 1 .. n : \A i \in Side :
           l[p][i] = IF p = q /\ i = d THEN n + 1 ELSE t.link[p][i]
  <2>1. l = [t.link EXCEPT ![q] = [t.link[q] EXCEPT ![d] = n + 1]]
    OBVIOUS
  <2>2. n + 1 \in 0 .. n + 1 /\ 0 .. n \subseteq 0 .. n + 1
    OBVIOUS
  <2>3. t.link[q] \in [Side -> 0 .. n]
    BY <1>2, <1>3
  <2>4. [t.link[q] EXCEPT ![d] = n + 1] \in [Side -> 0 .. n + 1]
    BY <1>3, <2>2, <2>3
  <2>5. \A p \in 1 .. n : t.link[p] \in [Side -> 0 .. n + 1]
    BY <1>2, <2>2
  <2>6. l \in [1 .. n -> [Side -> 0 .. n + 1]]
    BY <1>2, <2>1, <2>4, <2>5
  <2>7. l[q] = [t.link[q] EXCEPT ![d] = n + 1] /\ \A p \in 1 .. n : p # q => l[p] = t.link[p]
    BY <1>2, <1>3, <2>1
  <2> HIDE DEF l
  <2> QED
    BY <2>3, <2>6, <2>7
<1>6. b \in [1 .. n -> Int]
  <2>1. \A p \in 1 .. n : t.balance[p] \in Int /\ Dir(cmp, p) \in Int
    BY <1>2 DEF Dir
  <2> QED
    BY <2>1
<1>7. \A p \in 1 .. n : b[p] = IF p \notin Places(s, k) THEN t.balance[p]
                               ELSE t.balance[p] + 2 * Dir(cmp, p) - 1
  OBVIOUS
<1> HIDE DEF l, b, g
<1>8. [i \in Side |-> 0] \in [Side -> 0 .. n + 1]
  OBVIOUS
<1>9. /\ g.link \in [1 .. n + 1 -> [Side -> 0 .. n + 1]] /\ g.link[n + 1] = [i \in Side |-> 0]
      /\ \A p \in 1 .. n : g.link[p] = l[p]
  <2>1. g.link = Append(l, [i \in Side |-> 0])
    BY <1>4
  <2>2. Appended(g.link, l, n, [Side -> 0 .. n + 1], [i \in Side |-> 0])
    BY <1>5, <1>8, <2>1, AppendIs
  <2> QED
    BY <2>2 DEF Appended
<1>10. /\ g.balance \in [1 .. n + 1 -> Int] /\ g.balance[n + 1] = 0
       /\ \A p \in 1 .. n : g.balance[p] = b[p]
  <2>1. g.balance = Append(b, 0)
    BY <1>4
  <2>2. Appended(g.balance, b, n, Int, 0)
    BY <1>6, <2>1, AppendIs
  <2> QED
    BY <2>2 DEF Appended
<1>11. g = [root |-> g.root, link |-> g.link, balance |-> g.balance] /\ g.root = t.root
  BY <1>4
<1>12. Shape(g, n + 1)
  <2>1. g.root \in 0 .. n + 1
    BY <1>2, <1>11
  <2> QED
    BY <1>9, <1>10, <1>11, <2>1 DEF Shape
<1>13. \A p \in 1 .. n : \A i \in Side :
         g.link[p][i] = IF p = s[Len(s)] /\ i = Dir(cmp, p) THEN n + 1 ELSE t.link[p][i]
  <2>1. ASSUME NEW p \in 1 .. n, NEW i \in Side
        PROVE  g.link[p][i] = IF p = q /\ i = d THEN n + 1 ELSE t.link[p][i]
    BY <1>5, <1>9
  <2>2. \A p : p = q => Dir(cmp, p) = d
    BY <1>3
  <2> QED
    BY <1>3, <2>1, <2>2
<1>14. \A p \in 1 .. n :
         g.balance[p] = IF p \in Places(s, k) THEN t.balance[p] + 2 * Dir(cmp, p) - 1
                        ELSE t.balance[p]
  BY <1>7, <1>10
<1>15. \A i \in Side : g.link[n + 1][i] = 0
  BY <1>9
<1> QED
  BY <1>10, <1>11, <1>12, <1>13, <1>14, <1>15 DEF Grown, g

LEMMA InsertBelowIs ==
  ASSUME NEW t, NEW s, NEW cmp, NEW k, k = TopPlace(t, s),
         NEW g, g = Grow(t, s, k, cmp), NEW y, y = s[k],
         NEW q, q = Rotate(g, y, IF g.balance[y] = -2 THEN 0 ELSE 1)
  PROVE  InsertBelow(t, s, cmp) =
           IF g.balance[y] \in {-2, 2}
           THEN Relink(q.tree, IF k = 1 THEN 0 ELSE s[k - 1], y, q.w) ELSE g
<1>1. g = [root    |-> t.root,
           link    |-> Append([t.link EXCEPT ![s[Len(s)]][Dir(cmp, s[Len(s)])] = Len(t.balance) + 1],
                              [i \in {0, 1} |-> 0]),
           balance |-> Append([p \in Items(t) |->
                                 IF p \notin {s[i] : i \in k .. Len(s)} THEN t.balance[p]
                                 ELSE t.balance[p] + 2 * Dir(cmp, p) - 1], 0)]
  BY DEF Grow, Places
<1> QED
  BY <1>1 DEF InsertBelow

(* A rotation makes a tree that leans at one item sound. *)
LEMMA TurnedSound ==
  ASSUME NEW n \in Nat, NEW t, NEW h, NEW u, NEW at, NEW y, NEW d, NEW z,
         SoundBut(t, n, h, u, at, y, d, z),
         NEW q, q = Rotate(t, y, d), NEW r, r = Relink(q.tree, z, y, q.w)
  PROVE  \E h2, u2, at2 :
           /\ Sound(r, n, h2, u2, at2)
           /\ \A R : TransitiveOn(R, n) /\ OrderedBy(t, n, u, R) => OrderedBy(r, n, u2, R)
<1>1. PICK x, a : x = t.link[y][d] /\ a = t.link[y][Other(d)]
  OBVIOUS
<1>2. PICK w, c : w = t.link[x][Other(d)] /\ c = t.link[x][d]
  OBVIOUS
<1>3. Corner(t, n, h, u, at, y, d, z, x, a, w, c)
  BY <1>1, <1>2, Corners
<1>4. d = 0 \/ d = 1
  BY DEF SoundBut, Side
<1>5. CASE t.balance[x] = (IF d = 1 THEN 1 ELSE -1)
  <2>1. t.balance[x] = (IF d = 0 THEN -1 ELSE 1)
    BY <1>4, <1>5
  <2>2. Single(t, r, n, y, d, x, w)
    BY <1>3, <2>1, SingleIs
  <2> QED
    BY <1>3, <1>5, <2>2, SingleSound
<1>6. CASE t.balance[x] # (IF d = 1 THEN 1 ELSE -1)
  <2>1. t.balance[x] # (IF d = 0 THEN -1 ELSE 1)
    BY <1>4, <1>6
  <2>2. PICK e, f : e = t.link[w][d] /\ f = t.link[w][Other(d)]
    OBVIOUS
  <2>3. Inner(t, n, h, u, at, d, y, x, w, c, e, f)
    BY <1>3, <1>6, <2>2, Inners
  <2>4. Double(t, r, n, y, d, x, w, e, f)
    BY <1>3, <2>1, <2>3, DoubleIs
  <2> QED
    BY <1>3, <2>3, <2>4, DoubleSound
<1> QED
  BY <1>5, <1>6

LEMMA InsertBelowSound ==
  ASSUME NEW n \in Nat, NEW t, NEW h, NEW u, NEW at, NEW cmp, NEW s, NEW k,
         Growing(t, n, h, u, at, cmp, s, k)
  PROVE  \E h2, u2, at2 :
           /\ Sound(InsertBelow(t, s, cmp), n + 1, h2, u2, at2)
           /\ \A R : /\ TransitiveOn(R, n + 1) /\ OrderedBy(t, n, u, R)
                     /\ Agrees(R, n, cmp, s)
                     => OrderedBy(InsertBelow(t, s, cmp), n + 1, u2, R)
<1>1. Hanging(t, n, at, cmp, s, k) /\ n + 1 \in Nat
  BY OnPath
<1>2. PICK g : g = Grow(t, s, k, cmp)
  OBVIOUS
<1>3. PICK y : y = s[k]
  OBVIOUS
<1>4. PICK d : d = IF g.balance[y] = -2 THEN 0 ELSE 1
  OBVIOUS
<1>5. PICK z : z = IF k = 1 THEN 0 ELSE s[k - 1]
  OBVIOUS
<1>6. PICK q : q = Rotate(g, y, d)
  OBVIOUS
<1>7. PICK r : r = InsertBelow(t, s, cmp)
  OBVIOUS
<1>8. r = IF g.balance[y] \in {-2, 2} THEN Relink(q.tree, z, y, q.w) ELSE g
  <2>1. k = TopPlace(t, s)
    BY DEF Growing
  <2> QED
    BY <1>2, <1>3, <1>4, <1>5, <1>6, <1>7, <2>1, InsertBelowIs
<1>9. PICK h1, u1, at1 :
        /\ h1 = GrownH(t, n, h, s, k) /\ u1 = GrownU(n, u, s) /\ at1 = GrownAt(n, at, cmp, s)
  OBVIOUS
<1>10. Grown(t, n, cmp, s, k, g)
  BY <1>2, GrowIs
<1>11. Shape(g, n + 1) /\ Parents(g, n + 1, at1) /\ Reaches(g, n + 1, u1)
  <2>1. Shape(g, n + 1)
    BY <1>10 DEF Grown
  <2>2. Parents(g, n + 1, at1)
    BY <1>9, <1>10, GrownParents
  <2>3. Reaches(g, n + 1, u1)
    BY <1>9, <1>10, GrownReaches
  <2> QED
    BY <2>1, <2>2, <2>3
<1>12. /\ h1 \in [0 .. n + 1 -> 0 .. n + 1] /\ h1[0] = 0
       /\ \A p \in 1 .. n + 1 : p # y => EvenAt(g, h1, p)
       /\ g.balance[y] \notin {-2, 2} => EvenAt(g, h1, y)
       /\ g.balance[y] \in {-2, 2} => LeansAt(g, n + 1, h1, y, d)
  BY <1>3, <1>4, <1>9, <1>10, GrownEven
<1>13. ASSUME NEW R, OrderedBy(t, n, u, R), Agrees(R, n, cmp, s)
       PROVE  OrderedBy(g, n + 1, u1, R)
  BY <1>9, <1>10, <1>13, GrownOrdered
<1>14. CASE g.balance[y] \notin {-2, 2}
  <2>1. \A p \in 1 .. n + 1 : EvenAt(g, h1, p)
    BY <1>12, <1>14
  <2>2. Sound(g, n + 1, h1, u1, at1)
    BY <1>11, <1>12, <2>1 DEF Sound, Heights
  <2> QED
    BY <1>7, <1>8, <1>13, <1>14, <2>2
<1>15. CASE g.balance[y] \in {-2, 2}
  <2>1. \/ z = 0 /\ g.root = y
        \/ z \in 1 .. n + 1 /\ \E i \in Side : g.link[z][i] = y
    <3>1. CASE k = 1
      BY <1>1, <1>3, <1>5, <1>10, <3>1 DEF Hanging, Grown
    <3>2. CASE k # 1
      <4>1. k - 1 \in 1 .. Len(s) - 1 /\ (k - 1) + 1 = k /\ k - 1 \in 1 .. Len(s) /\ k - 1 # Len(s)
            /\ Len(s) \in 1 .. Len(s)
        BY <1>1, <3>2 DEF Hanging
      <4>2. y = t.link[z][Dir(cmp, z)] /\ z \in 1 .. n /\ z # s[Len(s)]
        BY <1>1, <1>3, <1>5, <3>2, <4>1 DEF Hanging
      <4>3. g.link[z][Dir(cmp, z)] = y
        BY <1>10, <4>2, DirIsSide DEF Grown
      <4> QED
        BY <4>2, <4>3, DirIsSide
    <3> QED
      BY <3>1, <3>2
  <2>2. d \in Side
    BY <1>4 DEF Side
  <2>3. SoundBut(g, n + 1, h1, u1, at1, y, d, z)
    BY <1>11, <1>12, <1>15, <2>1, <2>2 DEF SoundBut
  <2>4. r = Relink(q.tree, z, y, q.w)
    BY <1>8, <1>15
  <2>5. PICK h2, u2, at2 :
          /\ Sound(r, n + 1, h2, u2, at2)
          /\ \A R : TransitiveOn(R, n + 1) /\ OrderedBy(g, n + 1, u1, R) => OrderedBy(r, n + 1, u2, R)
    BY <1>1, <1>6, <2>3, <2>4, TurnedSound
  <2> QED
    BY <1>7, <1>13, <2>5
<1> QED
  BY <1>14, <1>15

(* A single item makes a sound tree. *)
LEMMA OneSound ==
  ASSUME NEW t, t = [root |-> 1, link |-> <<[s \in {0, 1} |-> 0]>>, balance |-> << 0 >>]
  PROVE  \E h, u, at : Sound(t, 1, h, u, at) /\ \A R : OrderedBy(t, 1, u, R)
<1> DEFINE h == [p \in 0 .. 1 |-> p]
           u == [p \in 0 .. 1 |-> IF p = 0 THEN {} ELSE {1}]
           at == [p \in 1 .. 1 |-> <<0, 0>>]
<1>1. /\ t.root = 1 /\ 1 \in 0 .. 1 /\ 1 .. 1 = {1} /\ 0 .. 1 = {0, 1} /\ Side = {0, 1}
      /\ t.link[1] = [s \in Side |-> 0] /\ t.balance[1] = 0
  BY DEF Side
<1>2. Shape(t, 1)
  <2>1. <<[s \in {0, 1} |-> 0]>> \in [1 .. 1 -> [Side -> 0 .. 1]]
    <3>1. [s \in {0, 1} |-> 0] \in [Side -> 0 .. 1]
      BY DEF Side
    <3>2. \A v : <<v>> = [i \in 1 .. 1 |-> v]
      OBVIOUS
    <3> QED
      BY <3>1, <3>2
  <2>2. <<0>> \in [1 .. 1 -> Int]
    OBVIOUS
  <2> QED
    BY <2>1, <2>2 DEF Shape
<1>3. t.link[1][0] = 0 /\ t.link[1][1] = 0
  BY <1>1
<1>4. Parents(t, 1, at)
  BY <1>1, <1>3 DEF Parents
<1>5. h[0] = 0 /\ h[1] = 1 /\ u[0] = {} /\ u[1] = {1}
  BY <1>1
<1>6. h \in [0 .. 1 -> 0 .. 1] /\ u \in [0 .. 1 -> SUBSET (1 .. 1)]
  BY <1>1
<1> HIDE DEF h, u, at
<1>7. Heights(t, 1, h)
  BY <1>1, <1>3, <1>5, <1>6 DEF Heights, EvenAt, Larger
<1>8. Reaches(t, 1, u)
  BY <1>1, <1>3, <1>5, <1>6 DEF Reaches
<1>9. ASSUME NEW R PROVE OrderedBy(t, 1, u, R)
  BY <1>1, <1>3, <1>5 DEF OrderedBy, OrderedAt
<1> QED
  BY <1>2, <1>4, <1>7, <1>8, <1>9 DEF Sound

(* avl_insert of an item that is not found keeps a tree sound, and in any  *)
(* transitive order that the comparisons follow.                           *)
THEOREM InsertSound ==
  ASSUME NEW n \in Nat, NEW t, NEW h, NEW u, NEW at, Sound(t, n, h, u, at), NEW cmp,
         avl_find(t, cmp) = 0
  PROVE  \E h2, u2, at2 :
           /\ Sound(avl_insert(t, cmp), n + 1, h2, u2, at2)
           /\ \A R : /\ TransitiveOn(R, n + 1) /\ OrderedBy(t, n, u, R)
                     /\ \A p \in 1 .. n : OnSide(R, Dir(cmp, p), n + 1, p)
                     => OrderedBy(avl_insert(t, cmp), n + 1, u2, R)
<1>1. PICK s : s = Path(t, cmp)
  OBVIOUS
<1>2. Shape(t, n) /\ Heights(t, n, h) /\ Reaches(t, n, u)
  BY DEF Sound
<1>3. Descent(t, n, h, u, cmp, t.root, s) /\ s \in Seq(1 .. n)
  BY <1>1, <1>2, Descends DEF Descent
<1>4. CASE s = <<>>
  <2>1. t.root = 0
    BY <1>3, <1>4 DEF Descent
  <2>2. n = 0
    <3>1. 1 .. n = {}
      BY <1>2, <2>1 DEF Reaches
    <3> QED
      BY <3>1
  <2>3. avl_insert(t, cmp) = [root |-> 1, link |-> <<[i \in {0, 1} |-> 0]>>, balance |-> <<0>>]
    BY <1>1, <1>4 DEF avl_insert
  <2>4. PICK h2, u2, at2 : /\ Sound(avl_insert(t, cmp), 1, h2, u2, at2)
                           /\ \A R : OrderedBy(avl_insert(t, cmp), 1, u2, R)
    BY <2>3, OneSound
  <2>5. n + 1 = 1
    BY <2>2
  <2> QED
    BY <2>4, <2>5
<1>5. CASE s # <<>>
  <2>1. Len(s) \in 1 .. Len(s) /\ s[Len(s)] \in 1 .. n /\ s[Len(s)] # 0
    BY <1>3, <1>5
  <2>2. cmp[s[Len(s)]] # 0
    BY <1>1, <1>5, <2>1 DEF avl_find
  <2>3. PICK k : k = TopPlace(t, s)
    OBVIOUS
  <2>4. Growing(t, n, h, u, at, cmp, s, k)
    BY <1>1, <1>5, <2>2, <2>3 DEF Growing
  <2>5. avl_insert(t, cmp) = InsertBelow(t, s, cmp)
    BY <1>1, <1>5, <2>2 DEF avl_insert
  <2>6. ASSUME NEW R, \A p \in 1 .. n : OnSide(R, Dir(cmp, p), n + 1, p)
        PROVE  Agrees(R, n, cmp, s)
    BY <1>3, <2>6 DEF Agrees
  <2>7. PICK h2, u2, at2 :
           /\ Sound(InsertBelow(t, s, cmp), n + 1, h2, u2, at2)
           /\ \A R : /\ TransitiveOn(R, n + 1) /\ OrderedBy(t, n, u, R)
                     /\ Agrees(R, n, cmp, s)
                     => OrderedBy(InsertBelow(t, s, cmp), n + 1, u2, R)
    BY <2>4, InsertBelowSound
  <2> QED
    BY <2>5, <2>6, <2>7
<1> QED
  BY <1>4, <1>5

LEMMA NoneSound ==
  \E h, u, at : Sound(avl_create, 0, h, u, at) /\ \A R : OrderedBy(avl_create, 0, u, R)
<1> DEFINE h == [p \in 0 .. 0 |-> 0]
           u == [p \in 0 .. 0 |-> {}]
<1>1. 1 .. 0 = {} /\ 0 .. 0 = {0} /\ avl_create.root = 0
  BY DEF avl_create
<1>2. Shape(avl_create, 0)
  <2>1. \A S : <<>> \in [1 .. 0 -> S]
    OBVIOUS
  <2> QED
    BY <1>1, <2>1 DEF Shape, avl_create
<1>3. Parents(avl_create, 0, <<>>)
  BY <1>1 DEF Parents
<1>4. Heights(avl_create, 0, h)
  BY <1>1 DEF Heights
<1>5. Reaches(avl_create, 0, u)
  BY <1>1 DEF Reaches
<1>6. \A R : OrderedBy(avl_create, 0, u, R)
  BY <1>1 DEF OrderedBy
<1>7. Sound(avl_create, 0, h, u, <<>>)
  BY <1>2, <1>3, <1>4, <1>5 DEF Sound
<1> QED
  BY <1>6, <1>7
=============================================================================
