------------------------------ MODULE AvlTree ------------------------------
(***************************************************************************)
(* The part of lib/avl.c that the plugin calls, as operators.              *)
(*                                                                         *)
(* Items are numbered 1, 2, ... in the order of their insertion and 0 is   *)
(* the null pointer.  A tree has a root, and for every item its node: the  *)
(* two links and the balance factor.  A comparison function shows in an    *)
(* operation only through its results for the item searched or inserted,   *)
(* so an operation takes cmp, the function from the items of the tree to   *)
(* these results.                                                          *)
(***************************************************************************)
EXTENDS Integers, Sequences

avl_create == [root |-> 0, link |-> <<>>, balance |-> <<>>]

Items(t) == DOMAIN t.balance

Dir(cmp, p) == IF cmp[p] > 0 THEN 1 ELSE 0

(* The nodes visited from the root down to the match or to a null link.    *)
Path(t, cmp) ==
  LET down[p \in {0} \cup Items(t)] ==
        IF p = 0 THEN <<>>
        ELSE IF cmp[p] = 0 THEN <<p>>
        ELSE <<p>> \o down[t.link[p][Dir(cmp, p)]]
  IN  down[t.root]

avl_find(t, cmp) ==
  LET path == Path(t, cmp)
  IN  IF path # <<>> /\ cmp[path[Len(path)]] = 0 THEN path[Len(path)] ELSE 0

(* Put w where node y was, below z (0 stands for the root).                *)
Relink(t, z, y, w) ==
  IF z = 0 THEN [t EXCEPT !.root = w]
  ELSE [t EXCEPT !.link[z][IF y # t.link[z][0] THEN 1 ELSE 0] = w]

(* The balance factors of x, y, w after a rotation that lifts w from below *)
(* x, the child of y on the heavy side; h is -1 on the left and 1 on the   *)
(* right, b the balance w had.                                             *)
DoubleBalanceZero(h, b) == [x |-> 0, y |-> 0]      \* wrong variant: always even
DoubleBalance(h, b) ==
  [x |-> IF b = -h THEN h ELSE 0, y |-> IF b = h THEN -h ELSE 0]

(* y is out of balance on side d: a single rotation when its child x leans *)
(* the same way, a double one otherwise; [tree, w], w the new top.         *)
Rotate(t, y, d) ==
  LET h == IF d = 0 THEN -1 ELSE 1
      x == t.link[y][d]
      w == t.link[x][1 - d]
      b == DoubleBalance(h, t.balance[w])
  IN  IF t.balance[x] = h
      THEN [tree |-> [t EXCEPT !.link[y][d] = w, !.link[x][1 - d] = y,
                               !.balance[x] = 0, !.balance[y] = 0], w |-> x]
      ELSE [tree |-> [t EXCEPT !.link[x][1 - d] = t.link[w][d],
                               !.link[y][d] = t.link[w][1 - d],
                               !.link[w] = [s \in {0, 1} |-> IF s = d THEN x ELSE y],
                               !.balance[x] = b.x, !.balance[y] = b.y,
                               !.balance[w] = 0],
            w |-> w]

(* The place on the path of the lowest node that is not even, the first    *)
(* when all are: the balance factors change from there down.               *)
TopPlace(t, path) ==
  LET uneven == {i \in DOMAIN path : t.balance[path[i]] # 0}
  IN  IF uneven = {} THEN 1 ELSE CHOOSE i \in uneven : \A j \in uneven : j <= i

(* Insert the next item below a path that ends at a null link.             *)
InsertBelow(t, path, cmp) ==
  LET n == Len(t.balance) + 1
      q == path[Len(path)]
      k == TopPlace(t, path)
      y == path[k]
      z == IF k = 1 THEN 0 ELSE path[k - 1]
      below == {path[i] : i \in k .. Len(path)}
      grown ==
        [root    |-> t.root,
         link    |-> Append([t.link EXCEPT ![q][Dir(cmp, q)] = n],
                            [s \in {0, 1} |-> 0]),
         balance |-> Append([p \in Items(t) |->
                               IF p \notin below THEN t.balance[p]
                               ELSE t.balance[p] + 2 * Dir(cmp, p) - 1], 0)]
      turned == Rotate(grown, y, IF grown.balance[y] = -2 THEN 0 ELSE 1)
  IN  IF grown.balance[y] \in {-2, 2}
      THEN Relink(turned.tree, z, y, turned.w) ELSE grown

(* The tree after avl_insert of the item numbered Len(t.balance) + 1; the  *)
(* tree itself when avl_probe meets a duplicate.                           *)
avl_insert(t, cmp) ==
  LET path == Path(t, cmp)
  IN  IF path = <<>>
      THEN [root |-> 1, link |-> <<[s \in {0, 1} |-> 0]>>, balance |-> <<0>>]
      ELSE IF cmp[path[Len(path)]] = 0 THEN t
      ELSE InsertBelow(t, path, cmp)

-----------------------------------------------------------------------------
Height(t) ==
  LET h[p \in {0} \cup Items(t)] ==
        IF p = 0 THEN 0
        ELSE LET l == h[t.link[p][0]]
                 r == h[t.link[p][1]]
             IN  1 + IF l > r THEN l ELSE r
  IN  h

(* Every balance factor is the difference of the heights it stands for and *)
(* within one, and the root reaches every item.                            *)
Balanced(t) ==
  LET h == Height(t)
  IN  \A p \in Items(t) : /\ t.balance[p] \in -1 .. 1
                          /\ t.balance[p] = h[t.link[p][1]] - h[t.link[p][0]]

Reached(t) ==
  LET below[p \in {0} \cup Items(t)] ==
        IF p = 0 THEN {} ELSE {p} \cup below[t.link[p][0]] \cup below[t.link[p][1]]
  IN  below[t.root]
=============================================================================
