----------------------------- MODULE ExecOrder -----------------------------
(***************************************************************************)
(* What the record of executed translation blocks promises                 *)
(* (hdf5-readme.md, tbexeclist): the blocks in the order in which they     *)
(* were executed, each with its position, either all of them or the last   *)
(* Depth ones.                                                             *)
(***************************************************************************)
EXTENDS Integers, Sequences

CONSTANTS Depth, Addresses, NotReported

VARIABLES
  bounded,    \* only the last Depth blocks are kept
  order,      \* the blocks kept, oldest first
  total,      \* blocks executed so far
  reported    \* the record handed out at the end

vars == <<bounded, order, total, reported>>

(* Drop the oldest block when there is one too many. *)
Keep(s) == IF bounded /\ Len(s) > Depth THEN Tail(s) ELSE s

Init ==
  /\ bounded \in BOOLEAN
  /\ order = <<>> /\ total = 0
  /\ reported = NotReported

Executed(a) ==
  /\ reported = NotReported
  /\ order' = Keep(Append(order, [tb |-> a, pos |-> total]))
  /\ total' = total + 1
  /\ UNCHANGED <<bounded, reported>>

Report ==
  /\ reported = NotReported
  /\ reported' = order
  /\ UNCHANGED <<bounded, order, total>>

Next == Report \/ \E a \in Addresses : Executed(a)

Spec == Init /\ [][Next]_vars
=============================================================================
