--------------------------- MODULE MCFaultPlugin ---------------------------
(* Instances of FaultPlugin for TLC. *)
EXTENDS FaultPlugin

Fault(type, address, lifetime_, trigger, hits_) ==
  [type |-> type, address |-> address, lifetime |-> lifetime_,
   trigger |-> trigger, hitcounter |-> hits_]

(* Three faults, of which two may share a trigger.  Counters from 0 (injected in the     *)
(* first block) to 2, lifetimes from 0 (permanent) to 3.                                *)
ThreeFaultPacks ==
  {[i \in 0 .. 2 |-> CASE i = 0 -> f [] i = 1 -> g [] i = 2 -> h] :
     f \in {Fault(t, 4, l, a, 1) : t \in {"INSTRUCTION", "DATA"}, l \in {0, 2}, a \in {2, 3}},
     g \in {Fault("REGISTER", 1, 1, a, n) : a \in {2, 4}, n \in {1, 2}},
     h \in {Fault(t, 2, l, 3, n) : t \in {"INSTRUCTION", "DATA"}, l \in {0, 1, 3}, n \in 0 .. 2}}

(* One fault with a start point, end points and the limit. *)
OneFaultPacks ==
  {[i \in {0} |-> Fault(t, 2, l, 3, h)] :
     t \in {"INSTRUCTION", "REGISTER"}, l \in {0, 2}, h \in 0 .. 3}

NoStart == [address |-> 0, hitcounter |-> 1]
StartAtTwo == [address |-> 2, hitcounter |-> 2]

NoEnds == <<>>
TwoEnds == <<[address |-> 3, hitcounter |-> 2], [address |-> 1, hitcounter |-> 3]>>
=============================================================================
