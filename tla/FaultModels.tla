---------------------------- MODULE FaultModels ----------------------------
(***************************************************************************)
(* What a fault does to the bits of the guest (fault_injection.c): the     *)
(* four models on memory and on registers, and their reversal from the     *)
(* saved bytes.                                                            *)
(*                                                                         *)
(* A byte is the set of its one-bits, a register the set of its.  The      *)
(* sizes are parameters: C has bytes of 8 bits, an int of 4 bytes,         *)
(* register arithmetic on 8 and fault masks of 16 bytes.                   *)
(***************************************************************************)
EXTENDS Integers, FiniteSets, Sequences

CONSTANTS
  ByteBits,    \* bits of a byte
  IntBytes,    \* bytes of an int
  RegBytes,    \* bytes of the uint64_t a register is handled in
  MaskBytes    \* bytes of fault.mask and fault.restoremask

ASSUME WidthAssumption ==
  /\ ByteBits \in Nat \ {0} /\ IntBytes \in Nat \ {0}
  /\ RegBytes \in Nat /\ RegBytes >= IntBytes
  /\ MaskBytes \in Nat /\ MaskBytes >= RegBytes

Bit    == 0 .. ByteBits - 1
Byte   == SUBSET Bit
Offset == 0 .. MaskBytes - 1
Mask   == [Offset -> Byte]

IntBits  == ByteBits * IntBytes
RegBits  == ByteBits * RegBytes
Register == SUBSET (0 .. RegBits - 1)

FaultTypes  == {"INSTRUCTION", "DATA", "REGISTER"}
FaultModel == {"SET0", "SET1", "TOGGLE", "OVERWRITE"}
FaultConf == [type : FaultTypes, model : FaultModel, address : Nat,
              lifetime : Nat, num_bytes : Nat, mask : Mask]

NoMask == [i \in Offset |-> {}]
Lower(m, n) == IF m < n THEN m ELSE n
-----------------------------------------------------------------------------
(* Memory, byte by byte: i is the offset from the fault's address, v the   *)
(* byte found there.                                                       *)
NumBytes(f) == Lower(f.num_bytes, MaskBytes)

process_set0_memory(v, mask)   == v \ mask
process_set1_memory(v, mask)   == v \cup mask
process_toggle_memory(v, mask) == (v \ mask) \cup (mask \ v)

process_overwrite_memory(f, i, v) == IF i < NumBytes(f) THEN f.mask[i] ELSE v

InjectedByte(f, i, v) ==
  CASE f.model = "SET0"      -> process_set0_memory(v, f.mask[i])
    [] f.model = "SET1"      -> process_set1_memory(v, f.mask[i])
    [] f.model = "TOGGLE"    -> process_toggle_memory(v, f.mask[i])
    [] f.model = "OVERWRITE" -> process_overwrite_memory(f, i, v)

(* The byte saved for the reversal. *)
RestoreByteMasked(f, i, v) == v \cap f.mask[i]     \* wrong variant: overwrite saves masked bits
RestoreByte(f, i, v) ==
  IF f.model = "OVERWRITE" THEN (IF i < NumBytes(f) THEN v ELSE {})
  ELSE v \cap f.mask[i]

process_reverse_byte(mask, restore, v) == restore  \* wrong variant: writes the saved byte
process_reverse_set(mask, restore, v) == v \cup restore  \* wrong variant: nothing is cleared
process_reverse_fault(mask, restore, v) == (v \ mask) \cup restore
-----------------------------------------------------------------------------
(* Registers.  r + s is the sum modulo 2^RegBits: a bit is carried into  *)
(* place b from a place below where both numbers have one and from which   *)
(* on at least one of them has.                                            *)
Carry(r, s, b) == \E c \in 0 .. b - 1 : c \in r \cap s /\ (c + 1) .. (b - 1) \subseteq r \cup s
Plus(r, s) == {b \in 0 .. RegBits - 1 : Carry(r, s, b) <=> (b \in r <=> b \in s)}

ByteOf(reg, i) == {b \in Bit : b + ByteBits * i \in reg}
Shifted(byte, i) == {b + ByteBits * i : b \in byte}

(* byte << 8*i where byte was promoted to int, then converted to uint64_t: *)
(* a result with the int's top bit is extended by its sign.  A shift by    *)
(* the width of int or more is undefined; compiled code wraps the distance *)
(* or yields zero.                                                         *)
Oversized == {"wraps", "zero"}

IntShifted(byte, i, oversized) ==
  LET distance == (ByteBits * i) % IntBits
      bits == {b + distance : b \in byte} \cap 0 .. IntBits - 1
  IN IF i >= IntBytes /\ oversized = "zero" THEN {}
     ELSE IF IntBits - 1 \in bits THEN bits \cup (IntBits .. RegBits - 1)
     ELSE bits

(* mask += current->fault.mask[i] << 8*i, for all bytes *)
MaskSum(f, oversized) ==
  LET mask[i \in 0 .. RegBytes] ==
        IF i = 0 THEN {} ELSE Plus(mask[i - 1], IntShifted(f.mask[i - 1], i - 1, oversized))
  IN mask[RegBytes]

(* The loop of OVERWRITE: the register before byte i is overwritten. *)
RegNumBytes(f) == Lower(f.num_bytes, RegBytes)

Overwritten(f, reg, oversized) ==
  LET before[i \in 0 .. RegBytes] ==
        IF i = 0 THEN reg
        ELSE Plus(before[i - 1] \ IntShifted(Bit, i - 1, oversized),
                  IntShifted(f.mask[i - 1], i - 1, oversized))
  IN before

inject_register_fault(f, reg, oversized) ==
  CASE f.model = "SET0"      -> reg \ MaskSum(f, oversized)
    [] f.model = "SET1"      -> reg \cup MaskSum(f, oversized)
    [] f.model = "TOGGLE"    -> (reg \ MaskSum(f, oversized)) \cup (MaskSum(f, oversized) \ reg)
    [] f.model = "OVERWRITE" -> Overwritten(f, reg, oversized)[RegNumBytes(f)]

RegisterRestore(f, reg, oversized) ==
  [i \in Offset |->
     IF f.model = "OVERWRITE" /\ i < RegNumBytes(f)
     THEN ByteOf(Overwritten(f, reg, oversized)[i], i)
     ELSE IF i < RegBytes THEN ByteOf(reg, i) \cap f.mask[i] ELSE {}]

reverse_register_set(f, restore, reg) ==           \* wrong variant: set bits are not cleared
  reg \cup UNION {Shifted(restore[i], i) : i \in 0 .. RegBytes - 1}
reverse_register_fault(f, restore, reg) ==
  (reg \ UNION {Shifted(f.mask[i], i) : i \in 0 .. RegBytes - 1})
    \cup UNION {Shifted(restore[i], i) : i \in 0 .. RegBytes - 1}
-----------------------------------------------------------------------------
(* Which bits a fault is about, stated on the configuration alone. *)
TargetBits(f, i) ==
  IF f.model = "OVERWRITE" THEN (IF i < NumBytes(f) THEN Bit ELSE {}) ELSE f.mask[i]

RegisterTarget(f) ==
  UNION {Shifted(IF f.model = "OVERWRITE" THEN (IF i < f.num_bytes THEN Bit ELSE {})
                 ELSE f.mask[i], i) : i \in 0 .. RegBytes - 1}

(* The mask of an overwrite sets no byte it does not write. *)
MaskFits(f) == f.model = "OVERWRITE" => \A i \in Offset : i >= NumBytes(f) => f.mask[i] = {}

(* A register fault the int arithmetic can express, on registers of        *)
(* word bytes.                                                             *)
Narrow(f, word) ==
  LET wide == {i \in Offset : i >= IntBytes}
  IN /\ \A i \in wide : f.mask[i] = {}
     /\ f.model = "OVERWRITE" => f.num_bytes <= IntBytes
     /\ MaskFits(f)
     /\ word > IntBytes =>
          IF f.model = "OVERWRITE" THEN f.num_bytes < IntBytes
          ELSE ByteBits - 1 \notin f.mask[IntBytes - 1]
=============================================================================
