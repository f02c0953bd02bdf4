------------------------- MODULE MCDataCollection -------------------------
(* Instances of DataCollection for TLC: an int of four bits orders         *)
(* addresses less than eight apart.                                        *)
EXTENDS DataCollection

Block(b, l) == [base |-> b, last |-> l]
Access(i, m, s) == [ins |-> i, mem |-> m, store |-> s]

(* A long block, its first instruction alone as under single-stepping, and *)
(* a block that overlaps the first.  Addresses 1 and 11 are too far apart  *)
(* for the int.                                                            *)
ThreeBlocks == {Block(1, 11), Block(1, 1), Block(2, 11)}

(* Instruction 2 reads and writes one address; instruction 3 accesses two  *)
(* addresses an int cannot tell apart, and one it orders the wrong way.    *)
(* Six accesses have a record of their own.                                *)
EightAccesses ==
  {Access(1, 0, FALSE), Access(1, 3, FALSE), Access(2, 2, FALSE), Access(2, 2, TRUE),
   Access(3, 0, TRUE), Access(3, 16, TRUE), Access(3, 9, TRUE), Access(11, 0, TRUE)}
=============================================================================
