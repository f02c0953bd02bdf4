----------------------------- MODULE MCFilterTb -----------------------------
(* Instances of GoldenRun and FilterTb for TLC.                            *)
EXTENDS FilterTb

(* Five instructions of two and four bytes; 6 and 10 are branches.  The    *)
(* blocks at 0, 2 and 6 overlap.                                           *)
FiveInsns == {0, 2, 6, 8, 10}
TwoBranches == {6, 10}
FiveSizes == [i \in FiveInsns |-> IF i = 2 THEN 4 ELSE 2]
FourTargets == {0, 2, 6, 8}

Fault(a, t, h, l, m) ==
  [address |-> a, trigger_address |-> t, hitcounter |-> h, lifespan |-> l, model |-> m]

(* Into the middle of an instruction, as far ahead as two blocks, ahead of *)
(* the run, shorter than its distance, at a third execution; an explicit   *)
(* trigger, and one that is not used.                                      *)
SevenFaults ==
  <<Fault(4, -1, 1, 0, "SET0"), Fault(6, -2, 2, 3, "SET1"), Fault(6, -4, 1, 5, "TOGGLE"),
    Fault(10, -3, 1, 2, "SET0"), Fault(2, -1, 3, 0, "OVERWRITE"), Fault(8, 2, 1, 0, "SET0"),
    Fault(0, -1, 0, 0, "OVERWRITE")>>

Wildcard(sa, sh, ea, eh, x) ==
  [start |-> [address |-> sa, hitcounter |-> sh], end |-> [address |-> ea, hitcounter |-> eh],
   local |-> FALSE, exclude |-> x]
Local(sa, ea, x) == [Wildcard(sa, 0, ea, 0, x) EXCEPT !.local = TRUE]

(* Everything but an instruction; from a second execution; up to one; a    *)
(* range over blocks; one that ends where it starts; an excluded end;      *)
(* local ranges.                                                           *)
EightWildcards ==
  {Wildcard(0, 0, 0, 0, {8}), Wildcard(2, 2, 0, 0, {}), Wildcard(0, 0, 6, 2, {}),
   Wildcard(2, 1, 10, 1, {6}), Wildcard(6, 1, 6, 1, {}), Wildcard(0, 0, 2, 1, {2}),
   Local(2, 6, {}), Local(2, 8, {6})}
=============================================================================
