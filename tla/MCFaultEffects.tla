-------------------------- MODULE MCFaultEffects --------------------------
(* Instances of FaultEffects for TLC.  Bytes of two bits, an int of two    *)
(* bytes, register arithmetic on four, masks of five.                      *)
EXTENDS FaultEffects

Bytes(m0, m1, m3) ==
  [i \in Offset |-> CASE i = 0 -> m0 [] i = 1 -> m1 [] i = 3 -> m3 [] OTHER -> {}]

Fault(type, model, address, lifetime, num_bytes, mask) ==
  [type |-> type, model |-> model, address |-> address, lifetime |-> lifetime,
   num_bytes |-> num_bytes, mask |-> mask]

(* Every model, permanent or not, on windows that are equal, that overlap  *)
(* and that leave RAM; masks that reach past the bytes to overwrite.       *)
MemoryFaults ==
  {Fault("DATA", m, 1, l, 0, Bytes({0}, {1}, {})) :
     m \in {"SET0", "SET1", "TOGGLE"}, l \in {0, 5}}
  \cup {Fault("INSTRUCTION", "TOGGLE", 2, 5, 0, Bytes({0, 1}, {}, {0})),
        Fault("DATA", "SET1", 4, 5, 0, Bytes({0}, {1}, {})),
        Fault("DATA", "OVERWRITE", 2, 5, 2, Bytes({1}, {}, {})),
        Fault("DATA", "OVERWRITE", 4, 5, 2, Bytes({0}, {1}, {}))}
OverwriteTooShort == Fault("DATA", "OVERWRITE", 2, 5, 1, Bytes({0}, {1}, {0}))

RegisterFaults ==
  {Fault("REGISTER", m, 0, 5, n, Bytes({0}, b, w)) :
     m \in {"SET1", "TOGGLE", "OVERWRITE"}, n \in {1, 2, 5},
     b \in {{}, {0}, {1}}, w \in {{}, {0}}}
  \cup {Fault("REGISTER", "SET0", 0, l, 0, Bytes({0, 1}, {0}, {})) : l \in {0, 5}}

Pack(f, g) == [i \in {0, 1} |-> IF i = 0 THEN f ELSE g]
MemoryPacks == {Pack(f, g) : f \in MemoryFaults, g \in MemoryFaults \cup {OverwriteTooShort}}
RegisterPacks ==
  {Pack(f, g) : f \in RegisterFaults,
     g \in {Fault("REGISTER", "TOGGLE", 0, 5, 0, Bytes({1}, {0}, {})),
            Fault("REGISTER", "OVERWRITE", 0, 5, 1, Bytes({1}, {}, {}))}}

(* No region; two regions, one of a fault's address; a region outside RAM. *)
Regions(rs) == [regions |-> rs, full |-> FALSE, mem_info |-> FALSE]
NoRegion == Regions(<<>>)
TwoRegions == Regions(<<[address |-> 2, len |-> 1], [address |-> 0, len |-> 2]>>)
RegionOutside == Regions(<<[address |-> 7, len |-> 2]>>)

(* The pre-golden run has a fault whose mask is zero (goldenrun.py:35),     *)
(* here twice.                                                              *)
DummyFault == Fault("DATA", "SET0", 0, 0, 0, NoMask)
PreGoldens ==
  [pack : {Pack(DummyFault, DummyFault)}, word : {2},
   control : [regions : {<<>>}, full : {TRUE}, mem_info : BOOLEAN]]

AllExperiments ==
  [pack : MemoryPacks, word : {2}, control : {NoRegion, TwoRegions}]
  \cup [pack : {Pack(f, f) : f \in MemoryFaults}, word : {2}, control : {RegionOutside}]
  \cup [pack : RegisterPacks, word : {2, 4}, control : {TwoRegions}]
  \cup PreGoldens

TwoRams == {[start |-> 0, size |-> 4, ram |-> TRUE], [start |-> 100, size |-> 4, ram |-> FALSE],
            [start |-> 4, size |-> 4, ram |-> TRUE]}

Access(i, m, n, s) == [ins |-> i, mem |-> m, size |-> n, store |-> s]

(* Stores of one byte to each page of RAM.  Ahead of the start point also a *)
(* load by the same instruction of the same address; a store across pages;  *)
(* one to a device; and accesses an int of four bits takes for the same: of *)
(* one instruction at addresses 16 apart, of instructions 16 apart.         *)
TwoStores == {Access(1, 2, 1, TRUE), Access(3, 5, 1, TRUE)}
StartAccesses ==
  {Access(1, 2, 1, FALSE), Access(2, 3, 2, TRUE), Access(3, 21, 1, TRUE),
   Access(19, 0, 1, TRUE), Access(4, 8, 1, TRUE)}
AllAccesses == TwoStores \cup StartAccesses

OneOrBoth == {{0}, {0, 1}}
RegisterValues == {{0, 2}, {1, 3, 6}}
=============================================================================
