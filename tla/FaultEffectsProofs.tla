------------------------- MODULE FaultEffectsProofs -------------------------
(***************************************************************************)
(* Proofs about FaultEffects: for any pack of faults, regions, widths and  *)
(* memory, the bits no injected fault is about are as the guest left them, *)
(* memory and registers are the guest's under the faults in force, the     *)
(* dumps tell what each fault did, and the report of an experiment has all *)
(* of them or is lost for a region outside of RAM.                         *)
(***************************************************************************)
EXTENDS FaultEffects, SequenceTheorems, FiniteSetTheorems, TLAPS

(* What is saved for a reversal lies in the bits the fault is about. *)
SavedInTarget ==
  \A f \in Faults : IsMemory(f) =>
    \A i \in Offset : restoremask[f][i] \subseteq TargetBits(pack[f], i)

IInv == GuestTypes /\ SavedInTarget /\ BitsUntouched

(* The window of a fault, seen from a cell of memory. *)
LEMMA WindowOffset ==
  ASSUME NEW p \in Nat, NEW a \in Window(p, MaskBytes)
  PROVE  a - p \in Offset /\ p + (a - p) = a
BY WidthAssumption DEF Window, Offset

(* Each model keeps the bits outside of the fault's target. *)
LEMMA InjectedKeeps ==
  ASSUME NEW c \in FaultConf, NEW i \in Offset, NEW v \in Byte
  PROVE  /\ InjectedByte(c, i, v) \in Byte
         /\ \A b \in Bit : b \notin TargetBits(c, i) =>
              (b \in InjectedByte(c, i, v) <=> b \in v)
<1>1. c.mask[i] \in Byte
  BY DEF FaultConf, Mask
<1>2. CASE c.model = "SET0"
  BY <1>1, <1>2 DEF InjectedByte, process_set0_memory, TargetBits, Byte
<1>3. CASE c.model = "SET1"
  BY <1>1, <1>3 DEF InjectedByte, process_set1_memory, TargetBits, Byte
<1>4. CASE c.model = "TOGGLE"
  BY <1>1, <1>4 DEF InjectedByte, process_toggle_memory, TargetBits, Byte
<1>5. CASE c.model = "OVERWRITE"
  BY <1>1, <1>5 DEF InjectedByte, process_overwrite_memory, TargetBits, Byte
<1> QED
  BY <1>2, <1>3, <1>4, <1>5 DEF FaultConf, FaultModel

(* What is saved is a byte within the target. *)
LEMMA RestoreInTarget ==
  ASSUME NEW c \in FaultConf, NEW i \in Offset, NEW v \in Byte
  PROVE  RestoreByte(c, i, v) \in Byte /\ RestoreByte(c, i, v) \subseteq TargetBits(c, i)
<1>1. c.mask[i] \in Byte
  BY DEF FaultConf, Mask
<1> QED
  BY <1>1 DEF RestoreByte, TargetBits, Byte

(* Both masks of a fault lie within its reach. *)
LEMMA TargetReached ==
  ASSUME NEW f \in Faults, IsMemory(f), NEW a \in Window(pack[f].address, MaskBytes)
  PROVE  Reach(f, a) = TargetBits(pack[f], a - pack[f].address)
                         \cup pack[f].mask[a - pack[f].address]
BY DEF Reach

(* A step that changes memory only within the reach of faults that count   *)
(* as injected afterwards, and golden not at all, keeps the bits apart.    *)
LEMMA ReachedOnly ==
  ASSUME GuestTypes, BitsUntouched, pack' = pack, golden' = golden,
         NEW f \in Faults, status'[f] # "waiting",
         \A g \in Faults : status[g] # "waiting" => status'[g] # "waiting",
         \A a \in Cells : \A b \in Bit :
           b \notin Reach(f, a) => (b \in memory'[a] <=> b \in memory[a])
  PROVE  BitsUntouched'
<1> SUFFICES ASSUME NEW a \in Cells, NEW b \in Bit,
                    \A g \in Faults : status'[g] # "waiting" => b \notin Reach(g, a)'
             PROVE  b \in memory'[a] <=> b \in golden'[a]
  BY DEF BitsUntouched
<1>1. \A g \in Faults : Reach(g, a)' = Reach(g, a)
  BY DEF Reach, IsMemory
<1>2. b \notin Reach(f, a)
  BY <1>1
<1>3. \A g \in Faults : status[g] # "waiting" => b \notin Reach(g, a)
  BY <1>1
<1>4. b \in memory[a] <=> b \in golden[a]
  BY <1>3 DEF BitsUntouched
<1> QED
  BY <1>2, <1>4

(* Injecting a fault into a byte and reverting it at once gives the byte   *)
(* back, for every model, unless the mask of an overwrite sets bytes it    *)
(* does not write (process_overwrite_memory, process_reverse_fault).       *)
THEOREM ReversalRestores ==
  ASSUME NEW c \in FaultConf, MaskFits(c), NEW i \in Offset, NEW v \in Byte
  PROVE  process_reverse_fault(c.mask[i], RestoreByte(c, i, v), InjectedByte(c, i, v)) = v
<1>1. c.mask[i] \in Byte
  BY DEF FaultConf, Mask
<1>2. CASE c.model = "SET0"
  BY <1>1, <1>2 DEF InjectedByte, process_set0_memory, RestoreByte, process_reverse_fault, Byte
<1>3. CASE c.model = "SET1"
  BY <1>1, <1>3 DEF InjectedByte, process_set1_memory, RestoreByte, process_reverse_fault, Byte
<1>4. CASE c.model = "TOGGLE"
  BY <1>1, <1>4 DEF InjectedByte, process_toggle_memory, RestoreByte, process_reverse_fault, Byte
<1>5. CASE c.model = "OVERWRITE" /\ i < NumBytes(c)
  BY <1>1, <1>5 DEF InjectedByte, process_overwrite_memory, RestoreByte, process_reverse_fault, Byte
<1>6. CASE c.model = "OVERWRITE" /\ ~(i < NumBytes(c))
  <2>1. NumBytes(c) \in Int /\ i \in Int
    BY WidthAssumption DEF NumBytes, Lower, Offset, FaultConf
  <2>2. c.mask[i] = {}
    BY <1>6, <2>1 DEF MaskFits
  <2> QED
    BY <1>6, <2>2 DEF InjectedByte, process_overwrite_memory, RestoreByte, process_reverse_fault
<1> QED
  BY <1>2, <1>3, <1>4, <1>5, <1>6 DEF FaultConf, FaultModel

(* The initial state. *)
LEMMA InitInductive == Init => IInv
<1> SUFFICES ASSUME Init PROVE IInv
  OBVIOUS
<1>1. GuestTypes
  BY ExperimentAssumption DEF Init, GuestTypes, NoMask, Mask, Byte
<1>2. SavedInTarget
  BY DEF Init, SavedInTarget, NoMask
<1>3. BitsUntouched
  BY DEF Init, BitsUntouched
<1> QED
  BY <1>1, <1>2, <1>3 DEF IInv

(* A fault is written to memory. *)
LEMMA InjectMemoryInductive ==
  ASSUME IInv, NEW f \in Faults, InjectMemory(f) PROVE IInv'
<1> DEFINE p == pack[f].address
<1>1. /\ GuestTypes /\ SavedInTarget /\ BitsUntouched
      /\ pack' = pack /\ golden' = golden /\ IsMemory(f)
      /\ memory' = inject_memory_fault(f)
      /\ restoremask' = [restoremask EXCEPT ![f] = SavedBytes(f)]
      /\ \E s \in {"live", "permanent"} : status' = [status EXCEPT ![f] = s]
  BY DEF IInv, InjectMemory, BecomesLive, experiment
<1>2. pack[f] \in FaultConf /\ p \in Nat
  BY <1>1 DEF GuestTypes, FaultConf
<1>3. ASSUME NEW a \in Cells
      PROVE  /\ memory'[a] \in Byte
             /\ \A b \in Bit : b \notin Reach(f, a) => (b \in memory'[a] <=> b \in memory[a])
  <2>1. memory[a] \in Byte
    BY <1>1 DEF GuestTypes
  <2>2. CASE Written(f) /\ a \in Window(p, MaskBytes)
    <3>1. memory'[a] = InjectedByte(pack[f], a - p, memory[a])
      BY <1>1, <2>2 DEF inject_memory_fault
    <3>2. a - p \in Offset
      BY <1>2, <2>2, WindowOffset
    <3>3. TargetBits(pack[f], a - p) \subseteq Reach(f, a)
      BY <1>1, <2>2, TargetReached
    <3> QED
      BY <1>2, <2>1, <3>1, <3>2, <3>3, InjectedKeeps
  <2>3. CASE ~(Written(f) /\ a \in Window(p, MaskBytes))
    BY <1>1, <2>1, <2>3 DEF inject_memory_fault
  <2> QED
    BY <2>2, <2>3
<1>4. ASSUME NEW i \in Offset
      PROVE  SavedBytes(f)[i] \in Byte /\ SavedBytes(f)[i] \subseteq TargetBits(pack[f], i)
  <2>1. CASE Written(f) /\ p + i \in Cells
    <3>1. SavedBytes(f)[i] = RestoreByte(pack[f], i, memory[p + i])
      BY <2>1 DEF SavedBytes
    <3>2. memory[p + i] \in Byte
      BY <1>1, <2>1 DEF GuestTypes
    <3> QED
      BY <1>2, <3>1, <3>2, RestoreInTarget
  <2>2. CASE ~(Written(f) /\ p + i \in Cells)
    BY <2>2 DEF SavedBytes, Byte
  <2> QED
    BY <2>1, <2>2
<1>5. GuestTypes'
  <2>1. memory' \in [Cells -> Byte]
    BY <1>1, <1>3 DEF inject_memory_fault
  <2>2. SavedBytes(f) \in Mask
    BY <1>4 DEF SavedBytes, Mask
  <2> QED
    BY <1>1, <2>1, <2>2 DEF GuestTypes
<1>6. SavedInTarget'
  <2> SUFFICES ASSUME NEW g \in Faults, IsMemory(g)', NEW i \in Offset
               PROVE  restoremask'[g][i] \subseteq TargetBits(pack[g], i)
    BY <1>1 DEF SavedInTarget
  <2>1. CASE g = f
    BY <1>1, <1>4, <2>1 DEF GuestTypes
  <2>2. CASE g # f
    <3>1. restoremask'[g] = restoremask[g] /\ IsMemory(g)
      BY <1>1, <2>2 DEF GuestTypes, IsMemory
    <3> QED
      BY <1>1, <3>1 DEF SavedInTarget
  <2> QED
    BY <2>1, <2>2
<1>7. /\ status'[f] # "waiting"
      /\ \A g \in Faults : status[g] # "waiting" => status'[g] # "waiting"
  BY <1>1 DEF GuestTypes
<1>8. BitsUntouched'
  <2> HIDE DEF p
  <2> QED
    BY <1>1, <1>3, <1>7, ReachedOnly
<1> QED
  BY <1>5, <1>6, <1>8 DEF IInv

(* A fault in memory is reverted. *)
LEMMA ReverseMemoryInductive ==
  ASSUME IInv, NEW f \in Faults, ReverseMemory(f) PROVE IInv'
<1> DEFINE p == pack[f].address
<1>1. /\ GuestTypes /\ SavedInTarget /\ BitsUntouched
      /\ pack' = pack /\ golden' = golden /\ IsMemory(f)
      /\ memory' = ReversedMemory(f)
      /\ restoremask' = restoremask
      /\ status' = [status EXCEPT ![f] = "reverted"]
  BY DEF IInv, ReverseMemory, experiment
<1>2. pack[f] \in FaultConf /\ p \in Nat
  BY <1>1 DEF GuestTypes, FaultConf
<1>3. ASSUME NEW a \in Cells
      PROVE  /\ memory'[a] \in Byte
             /\ \A b \in Bit : b \notin Reach(f, a) => (b \in memory'[a] <=> b \in memory[a])
  <2>1. memory[a] \in Byte
    BY <1>1 DEF GuestTypes
  <2>2. CASE InRam(p, MaskBytes) /\ a \in Window(p, MaskBytes)
    <3>1. memory'[a] = (memory[a] \ pack[f].mask[a - p]) \cup restoremask[f][a - p]
      BY <1>1, <2>2 DEF ReversedMemory, process_reverse_fault
    <3>2. a - p \in Offset
      BY <1>2, <2>2, WindowOffset
    <3>3. restoremask[f][a - p] \subseteq TargetBits(pack[f], a - p)
      BY <1>1, <3>2 DEF SavedInTarget
    <3>4. restoremask[f][a - p] \in Byte
      BY <1>1, <3>2 DEF GuestTypes, Mask
    <3>5. Reach(f, a) = TargetBits(pack[f], a - p) \cup pack[f].mask[a - p]
      BY <1>1, <2>2, TargetReached
    <3> QED
      BY <2>1, <3>1, <3>3, <3>4, <3>5 DEF Byte
  <2>3. CASE ~(InRam(p, MaskBytes) /\ a \in Window(p, MaskBytes))
    BY <1>1, <2>1, <2>3 DEF ReversedMemory
  <2> QED
    BY <2>2, <2>3
<1>4. GuestTypes'
  <2>1. memory' \in [Cells -> Byte]
    BY <1>1, <1>3 DEF ReversedMemory
  <2> QED
    BY <1>1, <2>1 DEF GuestTypes
<1>5. SavedInTarget'
  BY <1>1 DEF SavedInTarget, IsMemory
<1>6. /\ status'[f] # "waiting"
      /\ \A g \in Faults : status[g] # "waiting" => status'[g] # "waiting"
  BY <1>1 DEF GuestTypes
<1>7. BitsUntouched'
  <2> HIDE DEF p
  <2> QED
    BY <1>1, <1>3, <1>6, ReachedOnly
<1> QED
  BY <1>4, <1>5, <1>7 DEF IInv

(* A register fault leaves memory alone. *)
LEMMA InjectRegisterInductive ==
  ASSUME IInv, NEW f \in Faults, InjectRegister(f) PROVE IInv'
<1>1. /\ GuestTypes /\ SavedInTarget /\ BitsUntouched
      /\ pack' = pack /\ golden' = golden /\ memory' = memory /\ ~IsMemory(f)
      /\ \E s \in {"live", "permanent"} : status' = [status EXCEPT ![f] = s]
  BY DEF IInv, InjectRegister, BecomesLive, experiment
<1>2. PICK oversized \in Oversized :
        restoremask' = [restoremask EXCEPT
          ![f] = RegisterRestore(pack[f], registers[pack[f].address], oversized)]
  BY DEF InjectRegister
<1>3. RegisterRestore(pack[f], registers[pack[f].address], oversized) \in Mask
  BY DEF RegisterRestore, ByteOf, Mask, Byte
<1>4. GuestTypes'
  BY <1>1, <1>2, <1>3 DEF GuestTypes
<1>5. SavedInTarget'
  <2> SUFFICES ASSUME NEW g \in Faults, IsMemory(g)', NEW i \in Offset
               PROVE  restoremask'[g][i] \subseteq TargetBits(pack[g], i)
    BY <1>1 DEF SavedInTarget
  <2>1. IsMemory(g) /\ g # f
    BY <1>1 DEF IsMemory
  <2>2. restoremask'[g] = restoremask[g]
    BY <1>1, <1>2, <2>1 DEF GuestTypes
  <2> QED
    BY <1>1, <2>1, <2>2 DEF SavedInTarget
<1>6. /\ status'[f] # "waiting"
      /\ \A g \in Faults : status[g] # "waiting" => status'[g] # "waiting"
  BY <1>1 DEF GuestTypes
<1>7. BitsUntouched'
  BY <1>1, <1>6, ReachedOnly
<1> QED
  BY <1>4, <1>5, <1>7 DEF IInv

(* What a store of the guest does: w are the addresses stored to. *)
Stored(w, bytes) ==
  /\ UNCHANGED <<pack, word, control, status, restoremask, events>>
  /\ \A a \in w : bytes[a] \in Byte
  /\ memory' = [a \in Cells |-> IF a \in w THEN bytes[a] ELSE memory[a]]
  /\ golden' = [a \in Cells |-> IF a \in w THEN bytes[a] ELSE golden[a]]
  /\ mixed' = (mixed \ w)
                 \cup {a \in w \cap Cells : \E f \in Faults : Pending(f) /\ Reach(f, a) # {}}

LEMMA StoreIs ==
  ASSUME NEW x \in MemAccesses, NEW bytes \in [Window(x.mem, x.size) -> StoreBytes],
         GuestStore(x, bytes)
  PROVE  \E w : Stored(w, bytes)
<1>1. PICK w : w = Window(x.mem, x.size)
  OBVIOUS
<1>2. \A a \in w : bytes[a] \in Byte
  BY <1>1, EffectsAssumption
<1>3. /\ UNCHANGED <<pack, word, control, status, restoremask, events>>
      /\ memory' = [a \in Cells |-> IF a \in w THEN bytes[a] ELSE memory[a]]
      /\ golden' = [a \in Cells |-> IF a \in w THEN bytes[a] ELSE golden[a]]
      /\ mixed' = (mixed \ w)
            \cup {a \in w \cap Cells : \E f \in Faults : Pending(f) /\ Reach(f, a) # {}}
  BY <1>1 DEF GuestStore, GuestAccess, experiment
<1> QED
  BY <1>2, <1>3 DEF Stored

(* The inductive step. *)
LEMMA StepInductive == IInv /\ [Next]_vars => IInv'
<1> SUFFICES ASSUME IInv, [Next]_vars PROVE IInv'
  OBVIOUS
<1>1. ASSUME NEW f \in Faults, InjectMemory(f) PROVE IInv'
  BY <1>1, InjectMemoryInductive
<1>2. ASSUME NEW f \in Faults, InjectRegister(f) PROVE IInv'
  BY <1>2, InjectRegisterInductive
<1>3. ASSUME NEW f \in Faults, ReverseMemory(f) PROVE IInv'
  BY <1>3, ReverseMemoryInductive
<1>4. ASSUME NEW f \in Faults, ReverseRegister(f) PROVE IInv'
  <2>1. /\ GuestTypes /\ SavedInTarget /\ BitsUntouched
        /\ pack' = pack /\ golden' = golden /\ memory' = memory
        /\ restoremask' = restoremask
        /\ status' = [status EXCEPT ![f] = "reverted"]
    BY <1>4 DEF IInv, ReverseRegister, experiment
  <2>2. GuestTypes' /\ SavedInTarget'
    BY <2>1 DEF GuestTypes, SavedInTarget, IsMemory
  <2>3. /\ status'[f] # "waiting"
        /\ \A g \in Faults : status[g] # "waiting" => status'[g] # "waiting"
    BY <2>1 DEF GuestTypes
  <2>4. BitsUntouched'
    BY <2>1, <2>3, ReachedOnly
  <2> QED
    BY <2>2, <2>4 DEF IInv
<1>5. ASSUME NEW x \in MemAccesses, NEW bytes \in [Window(x.mem, x.size) -> StoreBytes],
             GuestStore(x, bytes)
      PROVE  IInv'
  <2>1. GuestTypes /\ SavedInTarget /\ BitsUntouched
    BY DEF IInv
  <2>2. PICK w : Stored(w, bytes)
    BY <1>5, StoreIs
  <2>3. GuestTypes' /\ SavedInTarget'
    BY <2>1, <2>2 DEF GuestTypes, SavedInTarget, IsMemory, Stored
  <2>4. \A f \in Faults : \A a : Reach(f, a)' = Reach(f, a)
    BY <2>2 DEF Reach, IsMemory, Stored
  <2>5. BitsUntouched'
    BY <2>1, <2>2, <2>4 DEF GuestTypes, BitsUntouched, Stored
  <2> QED
    BY <2>3, <2>5 DEF IInv
<1>6. ASSUME pack' = pack, restoremask' = restoremask, status' = status,
             memory' = memory, golden' = golden
      PROVE  IInv'
  <2>1. \A f \in Faults : \A a : Reach(f, a)' = Reach(f, a)
    BY <1>6 DEF Reach, IsMemory
  <2> QED
    BY <1>6, <2>1 DEF IInv, GuestTypes, SavedInTarget, BitsUntouched, IsMemory
<1>7. ASSUME NEW r \in Regs, NEW v \in RegValues, GuestWriteRegister(r, v) PROVE IInv'
  BY <1>6, <1>7 DEF GuestWriteRegister, experiment
<1>10. ASSUME NEW x, GuestLoad(x) PROVE IInv'
  BY <1>6, <1>10 DEF GuestLoad, GuestAccess, experiment
<1>8. ASSUME NEW pages, EndDump(pages) PROVE IInv'
  BY <1>6, <1>8 DEF EndDump, experiment, history
<1>9. CASE UNCHANGED vars
  BY <1>6, <1>9 DEF vars, experiment, history
<1> QED
  BY <1>1, <1>2, <1>3, <1>4, <1>5, <1>7, <1>8, <1>9, <1>10 DEF Next, Terminated

(* Bits outside of every injected fault's reach are the guest's own, for   *)
(* any pack, whatever overlaps and whatever is stored under a live fault   *)
(* (inject_memory_fault, process_reverse_fault).                           *)
THEOREM Untouched == Spec => []BitsUntouched
<1>1. IInv => BitsUntouched
  BY DEF IInv
<1> QED
  BY InitInductive, StepInductive, <1>1, PTL DEF Spec

-----------------------------------------------------------------------------
(* The record of injections and reversals: each fault is injected once and  *)
(* then reverted at most once.                                              *)
EventsSound ==
  /\ events \in Seq([kind : {"inject", "reverse"}, fault : Faults])
  /\ \A k \in DOMAIN events : events[k].kind = "reverse" =>
       status[events[k].fault] = "reverted"
  /\ \A k \in DOMAIN events : status[events[k].fault] # "waiting"
  /\ \A j, k \in DOMAIN events :
       events[j].kind = events[k].kind /\ events[j].fault = events[k].fault => j = k
  /\ \A f \in Faults : status[f] # "waiting" => \E k \in DOMAIN events : events[k] = InjectOf(f)

(* The step that adds an event to the record. *)
Happens(kind, f) ==
  /\ events' = Append(events, [kind |-> kind, fault |-> f])
  /\ \/ kind = "inject" /\ status[f] = "waiting"
        /\ \E s \in {"live", "permanent"} : status' = [status EXCEPT ![f] = s]
     \/ kind = "reverse" /\ status[f] = "live" /\ status' = [status EXCEPT ![f] = "reverted"]

LEMMA EventsAppended ==
  ASSUME EventsSound, NEW e, events' = Append(events, e)
  PROVE  /\ Len(events) \in Nat /\ DOMAIN events = 1 .. Len(events)
         /\ Len(events') = Len(events) + 1 /\ DOMAIN events' = 1 .. Len(events) + 1
         /\ \A k \in DOMAIN events : k \in DOMAIN events' /\ events'[k] = events[k]
         /\ events'[Len(events) + 1] = e
BY DEF EventsSound

LEMMA EventsStep ==
  ASSUME GuestTypes, EventsSound, NEW f \in Faults, NEW kind, Happens(kind, f)
  PROVE  EventsSound'
<1> DEFINE n == Len(events)
           e == [kind |-> kind, fault |-> f]
<1>1. /\ n \in Nat /\ DOMAIN events = 1 .. n
      /\ DOMAIN events' = 1 .. n + 1
      /\ \A k \in 1 .. n : events'[k] = events[k]
      /\ events'[n + 1] = e
  BY EventsAppended DEF Happens
<1>2. e \in [kind : {"inject", "reverse"}, fault : Faults] /\ e.kind = kind /\ e.fault = f
  BY DEF Happens
<1>3. events' \in Seq([kind : {"inject", "reverse"}, fault : Faults])
  BY <1>2, AppendProperties DEF Happens, EventsSound
<1>4. /\ kind \in {"inject", "reverse"}
      /\ \A g \in Faults : g # f => status'[g] = status[g]
      /\ status'[f] = IF kind = "inject" THEN status'[f] ELSE "reverted"
      /\ status'[f] # "waiting"
      /\ status[f] = IF kind = "inject" THEN "waiting" ELSE "live"
  BY DEF Happens, GuestTypes
<1>5. ASSUME NEW k \in 1 .. n
      PROVE  /\ events[k].fault \in Faults /\ events[k].kind \in {"inject", "reverse"}
             /\ events[k].fault = f => kind = "reverse" /\ events[k].kind = "inject"
  <2>1. events[k] \in [kind : {"inject", "reverse"}, fault : Faults]
    BY <1>1, ElementOfSeq DEF EventsSound
  <2>2. status[events[k].fault] # "waiting"
        /\ (events[k].kind = "reverse" => status[events[k].fault] = "reverted")
    BY <1>1 DEF EventsSound
  <2> QED
    BY <1>4, <2>1, <2>2
<1> HIDE DEF n, e
<1>6. ASSUME NEW k \in DOMAIN events', events'[k].kind = "reverse"
      PROVE  status'[events'[k].fault] = "reverted"
  <2>1. CASE k \in 1 .. n
    BY <1>1, <1>4, <1>5, <1>6, <2>1 DEF EventsSound
  <2>2. CASE k = n + 1
    BY <1>1, <1>2, <1>4, <1>6, <2>2
  <2> QED
    BY <1>1, <2>1, <2>2
<1>7. \A k \in DOMAIN events' : status'[events'[k].fault] # "waiting"
  BY <1>1, <1>2, <1>4, <1>5 DEF EventsSound
<1>8. \A j, k \in DOMAIN events' :
        events'[j].kind = events'[k].kind /\ events'[j].fault = events'[k].fault => j = k
  <2>1. \A j, k \in 1 .. n :
          events'[j].kind = events'[k].kind /\ events'[j].fault = events'[k].fault => j = k
    BY <1>1 DEF EventsSound
  <2>2. \A k \in 1 .. n : ~(events'[k].kind = events'[n + 1].kind /\ events'[k].fault = events'[n + 1].fault)
    BY <1>1, <1>2, <1>5
  <2> QED
    BY <1>1, <2>1, <2>2
<1>9. ASSUME NEW g \in Faults, status'[g] # "waiting"
      PROVE  \E k \in DOMAIN events' : events'[k] = InjectOf(g)
  <2>1. CASE status[g] # "waiting"
    <3>1. PICK k \in 1 .. n : events[k] = InjectOf(g)
      BY <1>1, <2>1 DEF EventsSound
    <3> QED
      BY <1>1, <3>1
  <2>2. CASE status[g] = "waiting"
    <3>1. g = f /\ kind = "inject"
      BY <1>4, <1>9, <2>2
    <3>2. events'[n + 1] = InjectOf(g)
      BY <1>1, <3>1 DEF e, InjectOf
    <3> QED
      BY <1>1, <3>2
  <2> QED
    BY <2>1, <2>2
<1> QED
  BY <1>3, <1>6, <1>7, <1>8, <1>9 DEF EventsSound

LEMMA EventsKept == EventsSound /\ UNCHANGED <<events, status>> => EventsSound'
BY DEF EventsSound

(* Every step of the faults is in the record, and no other step is. *)
LEMMA EventOfStep ==
  ASSUME GuestTypes, [Next]_vars
  PROVE  \/ \E f \in Faults : \E kind \in {"inject", "reverse"} : Happens(kind, f)
         \/ UNCHANGED <<events, status>>
<1>1. ASSUME NEW f \in Faults, InjectMemory(f) \/ InjectRegister(f)
      PROVE  Happens("inject", f)
  BY <1>1 DEF InjectMemory, InjectRegister, BecomesLive, Event, Happens
<1>2. ASSUME NEW f \in Faults, ReverseMemory(f) \/ ReverseRegister(f)
      PROVE  Happens("reverse", f)
  BY <1>2 DEF ReverseMemory, ReverseRegister, Event, Happens
<1>3. CASE UNCHANGED vars
  BY <1>3 DEF vars, history
<1>4. ASSUME NEW c, NEW v, GuestLoad(c) \/ GuestStore(c, v) \/ GuestWriteRegister(c, v)
      PROVE  UNCHANGED <<events, status>>
  BY <1>4 DEF GuestLoad, GuestStore, GuestAccess, GuestWriteRegister
<1>5. ASSUME NEW pages, EndDump(pages) PROVE UNCHANGED <<events, status>>
  BY <1>5 DEF EndDump, history
<1> QED
  BY <1>1, <1>2, <1>3, <1>4, <1>5 DEF Next, Terminated

LEMMA EventsInit == Init => EventsSound
BY DEF Init, EventsSound

LEMMA EventsInductive == GuestTypes /\ EventsSound /\ [Next]_vars => EventsSound'
BY EventOfStep, EventsStep, EventsKept

-----------------------------------------------------------------------------
(* Memory under the faults in force.  The bytes a cell goes through when    *)
(* the events are applied to it one by one begin with the guest's and end   *)
(* with the one in memory, and what was saved for the reversal of a fault   *)
(* is the byte ahead of it.                                                 *)
Link(a, k, before, after) ==
  LET f == events[k].fault
  IN /\ after = EffectOn(a, k, before)
     /\ Hits(a, k) =>
          /\ restoremask[f][a - pack[f].address] =
               RestoreByte(pack[f], a - pack[f].address, before)
          /\ Proper(f) \/ Reach(f, a) = {}

ByteChain(a, s) ==
  /\ s \in [0 .. Len(events) -> Byte]
  /\ s[0] = golden[a] /\ s[Len(events)] = memory[a]
  /\ \A k \in DOMAIN events : Link(a, k, s[k - 1], s[k])

MemorySound == \A a \in Cells \ mixed : \E s : ByteChain(a, s)

(* A nonempty set of naturals has a least element. *)
LEMMA Least ==
  ASSUME NEW T, T \subseteq Nat, T # {}
  PROVE  \E x \in T : \A y \in T : x <= y
<1> DEFINE R == StrictSubsetOrdering(Nat)
           U == {0 .. x : x \in T}
<1>1. IsWellFoundedOn(R, FiniteSubsetsOf(Nat))
  BY FS_StrictSubsetOrderingWellFounded
<1>2. U \subseteq FiniteSubsetsOf(Nat) /\ U # {}
  <2>1. \A x \in T : 0 .. x \in SUBSET Nat /\ IsFiniteSet(0 .. x)
    BY FS_Interval
  <2> QED
    BY <2>1 DEF FiniteSubsetsOf
<1>3. \E u \in U : \A w \in U : <<w, u>> \notin R
  <2> HIDE DEF R, U
  <2> QED
    BY <1>1, <1>2, WFMin
<1>4. PICK x \in T : \A y \in T : <<0 .. y, 0 .. x>> \notin R
  BY <1>3
<1>5. ASSUME NEW y \in T, y < x PROVE FALSE
  <2>1. 0 .. y \in SUBSET Nat /\ 0 .. x \in SUBSET Nat /\ 0 .. y \subseteq 0 .. x
    BY <1>5
  <2>2. x \in 0 .. x /\ x \notin 0 .. y
    BY <1>5
  <2> QED
    BY <1>4, <2>1, <2>2 DEF StrictSubsetOrdering
<1> QED
  BY <1>4, <1>5

(* The chain is the recursive function the property defines. *)
LEMMA ChainIsFaulted ==
  ASSUME EventsSound, NEW a \in Cells, NEW s, ByteChain(a, s)
  PROVE  memory[a] = FaultedByte(a)
<1> DEFINE n == Len(events)
           Defines(g) == g = [k \in 0 .. n |-> IF k = 0 THEN golden[a]
                                               ELSE EffectOn(a, k, g[k - 1])]
<1>1. n \in Nat /\ DOMAIN events = 1 .. n
  BY DEF EventsSound
<1>2. Defines(s)
  <2>1. \A k \in 0 .. n : s[k] = IF k = 0 THEN golden[a] ELSE EffectOn(a, k, s[k - 1])
    BY <1>1 DEF ByteChain, Link
  <2> QED
    BY <2>1 DEF ByteChain
<1>3. PICK byte : byte = CHOOSE g : Defines(g)
  OBVIOUS
<1>4. Defines(byte)
  <2> HIDE DEF Defines
  <2> QED
    BY <1>2, <1>3
<1>5. FaultedByte(a) = byte[n]
  BY <1>3 DEF FaultedByte
<1> DEFINE T == {k \in 0 .. n : byte[k] # s[k]}
<1>6. ASSUME T # {} PROVE FALSE
  <2>1. T \subseteq Nat
    BY <1>1
  <2>2. PICK x \in T : \A y \in T : x <= y
    <3> HIDE DEF T
    <3> QED
      BY <1>6, <2>1, Least
  <2>3. x \in 0 .. n /\ byte[x] # s[x]
    BY <2>2
  <2>4. x # 0
    BY <1>1, <1>2, <1>4, <2>3
  <2>5. x - 1 \in 0 .. n /\ ~(x <= x - 1)
    BY <1>1, <2>3, <2>4
  <2>6. byte[x - 1] = s[x - 1]
    BY <2>2, <2>5
  <2>7. byte[x] = EffectOn(a, x, byte[x - 1]) /\ s[x] = EffectOn(a, x, s[x - 1])
    BY <1>2, <1>4, <2>3, <2>4
  <2> QED
    BY <2>3, <2>6, <2>7
<1>7. byte[n] = s[n]
  BY <1>1, <1>6
<1> QED
  BY <1>5, <1>7 DEF ByteChain

(* Bytes.  A fault about no bit of a byte changes nothing of it.            *)
LEMMA NoReach ==
  ASSUME NEW c \in FaultConf, NEW i \in Offset, NEW v \in Byte,
         TargetBits(c, i) \cup c.mask[i] = {}
  PROVE  /\ InjectedByte(c, i, v) = v /\ RestoreByte(c, i, v) = {}
         /\ process_reverse_fault(c.mask[i], {}, v) = v
<1>1. c.mask[i] = {} /\ TargetBits(c, i) = {}
  OBVIOUS
<1>2. RestoreByte(c, i, v) = {}
  BY <1>1, RestoreInTarget
<1>3. process_reverse_fault(c.mask[i], {}, v) = v
  BY <1>1 DEF process_reverse_fault
<1>4. InjectedByte(c, i, v) = v
  <2>1. \A b \in Bit : b \in InjectedByte(c, i, v) <=> b \in v
    BY <1>1, InjectedKeeps
  <2>2. InjectedByte(c, i, v) \in SUBSET Bit /\ v \in SUBSET Bit
    BY InjectedKeeps DEF Byte
  <2> QED
    BY <2>1, <2>2
<1> QED
  BY <1>2, <1>3, <1>4

(* The reversal of a fault commutes with the injection of a fault about     *)
(* other bits, and concerns nothing that is saved for it.                   *)
LEMMA DisjointCommute ==
  ASSUME NEW c \in FaultConf, NEW i \in Offset, NEW r \in Byte, r \subseteq TargetBits(c, i),
         NEW d \in FaultConf, NEW j \in Offset, NEW v \in Byte,
         (TargetBits(c, i) \cup c.mask[i]) \cap (TargetBits(d, j) \cup d.mask[j]) = {}
  PROVE  /\ InjectedByte(d, j, process_reverse_fault(c.mask[i], r, v)) =
              process_reverse_fault(c.mask[i], r, InjectedByte(d, j, v))
         /\ RestoreByte(d, j, process_reverse_fault(c.mask[i], r, v)) = RestoreByte(d, j, v)
         /\ process_reverse_fault(c.mask[i], r, v) \in Byte
<1>1. c.mask[i] \in Byte /\ d.mask[j] \in Byte
  BY DEF FaultConf, Mask
<1>2. PICK m : m = c.mask[i]
  OBVIOUS
<1>3. PICK w : w = d.mask[j]
  OBVIOUS
<1>4. m \subseteq Bit /\ r \subseteq Bit /\ v \subseteq Bit /\ w \subseteq Bit
  BY <1>1, <1>2, <1>3 DEF Byte
<1>5. CASE d.model # "OVERWRITE"
  <2>1. TargetBits(d, j) = w
    BY <1>3, <1>5 DEF TargetBits
  <2>2. (r \cup m) \cap w = {}
    BY <1>2, <1>3, <2>1
  <2>3. CASE d.model = "SET0"
    BY <1>2, <1>3, <1>4, <2>2, <2>3
    DEF InjectedByte, process_set0_memory, RestoreByte, process_reverse_fault, Byte
  <2>4. CASE d.model = "SET1"
    BY <1>2, <1>3, <1>4, <2>2, <2>4
    DEF InjectedByte, process_set1_memory, RestoreByte, process_reverse_fault, Byte
  <2>5. CASE d.model = "TOGGLE"
    BY <1>2, <1>3, <1>4, <2>2, <2>5
    DEF InjectedByte, process_toggle_memory, RestoreByte, process_reverse_fault, Byte
  <2> QED
    BY <1>5, <2>3, <2>4, <2>5 DEF FaultConf, FaultModel
<1>6. CASE d.model = "OVERWRITE" /\ j < NumBytes(d)
  <2>1. TargetBits(d, j) = Bit
    BY <1>6 DEF TargetBits
  <2>2. m = {} /\ r = {}
    BY <1>2, <1>4, <2>1
  <2> QED
    BY <1>2, <1>4, <2>2 DEF process_reverse_fault, Byte
<1>7. CASE d.model = "OVERWRITE" /\ ~(j < NumBytes(d))
  BY <1>2, <1>4, <1>7 DEF InjectedByte, process_overwrite_memory, RestoreByte,
     process_reverse_fault, Byte
<1> QED
  BY <1>5, <1>6, <1>7

(* A fault within RAM is written as far as it reaches. *)
LEMMA ProperWritten ==
  ASSUME GuestTypes, NEW f \in Faults, IsMemory(f), Proper(f)
  PROVE  Written(f) /\ MaskFits(pack[f]) /\ InRam(pack[f].address, MaskBytes)
<1>1. pack[f] \in FaultConf /\ pack[f].address \in Nat /\ pack[f].num_bytes \in Nat
  BY DEF GuestTypes, FaultConf
<1>2. NumBytes(pack[f]) \in Nat /\ NumBytes(pack[f]) <= MaskBytes
  BY <1>1, WidthAssumption DEF NumBytes, Lower
<1>3. Window(pack[f].address, NumBytes(pack[f])) \subseteq Window(pack[f].address, MaskBytes)
  BY <1>1, <1>2, WidthAssumption DEF Window
<1> QED
  BY <1>3 DEF Proper, Written, InRam

(* What an event does to a byte stays when another fault's event comes. *)
LEMMA LinkKept ==
  ASSUME GuestTypes, EventsSound, NEW f \in Faults, NEW kind, Happens(kind, f),
         UNCHANGED <<pack, word>>,
         \A g \in Faults : g # f => restoremask'[g] = restoremask[g],
         NEW a, NEW k \in DOMAIN events, events[k].fault # f
  PROVE  /\ Hits(a, k)' <=> Hits(a, k)
         /\ \A v : EffectOn(a, k, v)' = EffectOn(a, k, v)
         /\ \A u, v : Link(a, k, u, v)' <=> Link(a, k, u, v)
<1>1. PICK g : g = events[k].fault
  OBVIOUS
<1>2. g \in Faults /\ g # f
  <2>1. events \in Seq([kind : {"inject", "reverse"}, fault : Faults])
    BY DEF EventsSound
  <2>2. DOMAIN events = 1 .. Len(events)
    BY <2>1, LenProperties
  <2>3. events[k] \in [kind : {"inject", "reverse"}, fault : Faults]
    BY <2>1, <2>2, ElementOfSeq
  <2> QED
    BY <1>1, <2>3
<1>3. k \in DOMAIN events' /\ events'[k] = events[k]
  BY EventsAppended DEF Happens
<1>4. status'[g] = status[g] /\ restoremask'[g] = restoremask[g]
  BY <1>2 DEF Happens, GuestTypes
<1>5. k \in InForce' <=> k \in InForce
  BY <1>1, <1>3, <1>4 DEF InForce, Pending
<1>6. /\ IsMemory(g)' <=> IsMemory(g)
      /\ Proper(g)' <=> Proper(g)
      /\ Reach(g, a)' = Reach(g, a)
  BY DEF IsMemory, Proper, Reach
<1>7. Hits(a, k)' <=> Hits(a, k)
  BY <1>1, <1>3, <1>5, <1>6 DEF Hits
<1>8. \A v : EffectOn(a, k, v)' = EffectOn(a, k, v)
  BY <1>3, <1>7 DEF EffectOn
<1>9. \A u, v : Link(a, k, u, v)' <=> Link(a, k, u, v)
  BY <1>1, <1>3, <1>4, <1>6, <1>7, <1>8 DEF Link
<1> QED
  BY <1>7, <1>8, <1>9

(* The chain goes on by one event. *)
LEMMA ChainExtended ==
  ASSUME EventsSound, NEW e, events' = Append(events, e), NEW a, NEW n, n = Len(events),
         NEW t \in [0 .. n -> Byte], t[0] = golden'[a], memory'[a] \in Byte,
         NEW m, m = memory'[a],
         \A k \in 1 .. n : Link(a, k, t[k - 1], t[k])',
         Link(a, n + 1, t[n], m)'
  PROVE  \E s : ByteChain(a, s)'
<1> DEFINE s == [k \in 0 .. n + 1 |-> IF k <= n THEN t[k] ELSE m]
<1>1. n \in Nat /\ Len(events') = n + 1 /\ DOMAIN events' = 1 .. n + 1
  BY EventsAppended
<1>2. s \in [0 .. Len(events') -> Byte]
  BY <1>1
<1>3. s[0] = golden'[a] /\ s[Len(events')] = memory'[a]
  BY <1>1
<1>4. ASSUME NEW k \in DOMAIN events' PROVE Link(a, k, s[k - 1], s[k])'
  <2>1. CASE k \in 1 .. n
    <3>1. s[k - 1] = t[k - 1] /\ s[k] = t[k]
      BY <1>1, <2>1
    <3> HIDE DEF s
    <3>2. PICK u, v : u = t[k - 1] /\ v = t[k]
      OBVIOUS
    <3>3. Link(a, k, u, v)'
      BY <2>1, <3>2
    <3> QED
      BY <3>1, <3>2, <3>3
  <2>2. CASE k = n + 1
    <3>1. s[k - 1] = t[n] /\ s[k] = m
      BY <1>1, <2>2
    <3> QED
      BY <2>2, <3>1
  <2> QED
    BY <1>1, <2>1, <2>2
<1> HIDE DEF s
<1> QED
  BY <1>2, <1>3, <1>4 DEF ByteChain

(* An event that leaves a cell and the faults on it as they are. *)
LEMMA ChainPassed ==
  ASSUME GuestTypes, EventsSound, NEW f \in Faults, NEW kind, Happens(kind, f),
         UNCHANGED <<pack, word>>,
         \A g \in Faults : g # f => restoremask'[g] = restoremask[g],
         NEW a \in Cells, memory'[a] = memory[a], golden'[a] = golden[a],
         ~IsMemory(f) \/ a \notin Window(pack[f].address, MaskBytes),
         NEW s, ByteChain(a, s)
  PROVE  \E t : ByteChain(a, t)'
<1> DEFINE n == Len(events)
<1>1. /\ events' = Append(events, [kind |-> kind, fault |-> f])
      /\ n \in Nat /\ DOMAIN events = 1 .. n
      /\ \A k \in 1 .. n : events'[k] = events[k]
      /\ events'[n + 1] = [kind |-> kind, fault |-> f]
  BY EventsAppended DEF Happens
<1>2. /\ s \in [0 .. n -> Byte] /\ s[0] = golden'[a] /\ memory'[a] = s[n]
      /\ \A k \in 1 .. n : Link(a, k, s[k - 1], s[k])
  BY <1>1 DEF ByteChain
<1>3. s[n] \in Byte
  BY <1>1, <1>2
<1>4. ASSUME NEW k \in 1 .. n, events[k].fault = f, NEW u, NEW v, Link(a, k, u, v)
      PROVE  Link(a, k, u, v)'
  <2>1. ~Hits(a, k)
    BY <1>4 DEF Hits
  <2>2. ~Hits(a, k)'
    BY <1>1, <1>4 DEF Hits, IsMemory
  <2> QED
    BY <1>4, <2>1, <2>2 DEF Link, EffectOn
<1>5. ASSUME NEW k \in 1 .. n PROVE Link(a, k, s[k - 1], s[k])'
  <2>1. PICK u, v : u = s[k - 1] /\ v = s[k]
    OBVIOUS
  <2>2. Link(a, k, u, v)
    BY <1>2, <2>1
  <2>3. Link(a, k, u, v)'
    BY <1>1, <1>4, <2>2, LinkKept
  <2> QED
    BY <2>1, <2>3
<1>6. PICK m : m = s[n]
  OBVIOUS
<1>7. PICK N \in Nat : N = n
  BY <1>1
<1>8. Link(a, N + 1, m, m)'
  <2>1. events'[N + 1].fault = f /\ (IsMemory(f)' <=> IsMemory(f))
    BY <1>1, <1>7 DEF IsMemory
  <2>2. ~Hits(a, N + 1)'
    BY <2>1 DEF Hits
  <2> QED
    BY <2>2 DEF Link, EffectOn
<1>9. /\ s \in [0 .. N -> Byte] /\ s[0] = golden'[a] /\ m = memory'[a] /\ m = s[N]
      /\ memory'[a] \in Byte /\ N = Len(events)
      /\ \A k \in 1 .. N : Link(a, k, s[k - 1], s[k])'
  BY <1>2, <1>3, <1>5, <1>6, <1>7
<1>10. Link(a, N + 1, s[N], m)'
  BY <1>8, <1>9
<1> HIDE DEF n
<1> QED
  BY <1>1, <1>9, <1>10, ChainExtended

(* A fault is written to memory, with the bytes found there saved. *)
LEMMA InjectMemorySound ==
  ASSUME GuestTypes, GuestTypes', EventsSound, MemorySound, NEW f \in Faults, InjectMemory(f)
  PROVE  MemorySound'
<1> SUFFICES ASSUME NEW a \in Cells, a \notin mixed' PROVE \E t : ByteChain(a, t)'
  BY DEF MemorySound
<1>1. PICK p \in Nat : p = pack[f].address
  BY DEF GuestTypes, FaultConf
<1>2. /\ Happens("inject", f) /\ UNCHANGED <<pack, word, golden>>
      /\ IsMemory(f) /\ status[f] = "waiting"
      /\ memory' = inject_memory_fault(f)
      /\ restoremask' = [restoremask EXCEPT ![f] = SavedBytes(f)]
      /\ mixed' = IF Proper(f) THEN mixed ELSE mixed \cup (Window(p, MaskBytes) \cap Cells)
  BY <1>1 DEF InjectMemory, BecomesLive, Event, Happens, experiment
<1>3. /\ \A g \in Faults : g # f => restoremask'[g] = restoremask[g]
      /\ restoremask'[f] = SavedBytes(f)
  BY <1>2 DEF GuestTypes
<1>4. PICK s : ByteChain(a, s)
  BY <1>2 DEF MemorySound
<1>5. CASE a \notin Window(p, MaskBytes)
  <2>1. memory'[a] = memory[a]
    BY <1>1, <1>2, <1>5 DEF inject_memory_fault
  <2> QED
    BY <1>1, <1>2, <1>3, <1>4, <1>5, <2>1, ChainPassed
<1>6. CASE a \in Window(p, MaskBytes)
  <2>1. Proper(f) /\ Written(f)
    BY <1>2, <1>6, ProperWritten
  <2>2. PICK n \in Nat : n = Len(events)
    BY EventsAppended DEF EventsSound
  <2>3. /\ DOMAIN events = 1 .. n
        /\ events' = Append(events, [kind |-> "inject", fault |-> f])
        /\ \A k \in 1 .. n : events'[k] = events[k]
        /\ n + 1 \in DOMAIN events'
        /\ events'[n + 1].kind = "inject" /\ events'[n + 1].fault = f
    BY <1>2, <2>2, EventsAppended DEF Happens
  <2>4. PICK m : m = memory'[a]
    OBVIOUS
  <2>5. PICK o \in Offset : o = a - p /\ p + o = a
    BY <1>6, WindowOffset
  <2>6. /\ s \in [0 .. n -> Byte] /\ s[0] = golden'[a] /\ s[n] = memory[a]
        /\ \A k \in 1 .. n : Link(a, k, s[k - 1], s[k])
    BY <1>2, <2>2, <2>3, <1>4 DEF ByteChain
  <2>7. m = InjectedByte(pack[f], o, s[n])
    BY <1>1, <1>2, <1>6, <2>1, <2>4, <2>5, <2>6 DEF inject_memory_fault
  <2>8. restoremask'[f][o] = RestoreByte(pack[f], o, s[n])
    BY <1>1, <1>3, <2>1, <2>5, <2>6 DEF SavedBytes
  <2>9. ASSUME NEW k \in 1 .. n PROVE Link(a, k, s[k - 1], s[k])'
    <3>1. events[k].fault # f
      BY <1>2, <2>3 DEF EventsSound
    <3>2. PICK u, v : u = s[k - 1] /\ v = s[k]
      OBVIOUS
    <3>3. Link(a, k, u, v)'
      BY <1>2, <1>3, <2>3, <2>6, <3>1, <3>2, LinkKept
    <3> QED
      BY <3>2, <3>3
  <2>10. PICK w : w = s[n]
    OBVIOUS
  <2>11. Link(a, n + 1, w, m)'
    <3>1. Proper(f)'
      BY <1>2, <2>1 DEF Proper, IsMemory
    <3>2. EffectOn(a, n + 1, w)' = InjectedByte(pack[f], o, w)
      <4>1. Hits(a, n + 1)'
        <5>1. status'[f] \in {"live", "permanent"}
          BY <1>2 DEF Happens, GuestTypes
        <5>2. n + 1 \in InForce'
          BY <2>3, <5>1 DEF InForce, Pending
        <5> QED
          BY <1>1, <1>2, <1>6, <2>3, <5>2 DEF Hits, IsMemory
      <4> QED
        BY <1>1, <1>2, <2>3, <2>5, <4>1 DEF EffectOn
    <3> QED
      BY <1>1, <1>2, <2>3, <2>5, <2>7, <2>8, <2>10, <3>1, <3>2 DEF Link
  <2>12. memory'[a] \in Byte
    BY DEF GuestTypes
  <2> QED
    BY <2>2, <2>3, <2>4, <2>6, <2>9, <2>10, <2>11, <2>12, ChainExtended
<1> QED
  BY <1>5, <1>6

(* Faults on registers leave memory alone. *)
LEMMA RegisterSound ==
  ASSUME GuestTypes, EventsSound, MemorySound, NEW f \in Faults,
         InjectRegister(f) \/ ReverseRegister(f)
  PROVE  MemorySound'
<1> SUFFICES ASSUME NEW a \in Cells, a \notin mixed' PROVE \E t : ByteChain(a, t)'
  BY DEF MemorySound
<1>1. /\ UNCHANGED <<pack, word, golden, memory, mixed>> /\ ~IsMemory(f)
      /\ \E kind : Happens(kind, f)
  BY DEF InjectRegister, ReverseRegister, BecomesLive, Event, Happens, experiment
<1>2. \A g \in Faults : g # f => restoremask'[g] = restoremask[g]
  BY DEF InjectRegister, ReverseRegister, GuestTypes
<1>3. PICK s : ByteChain(a, s)
  BY <1>1 DEF MemorySound
<1> QED
  BY <1>1, <1>2, <1>3, ChainPassed

LEMMA EventTyped ==
  ASSUME EventsSound, NEW k \in DOMAIN events
  PROVE  events[k].kind \in {"inject", "reverse"} /\ events[k].fault \in Faults
<1>1. events \in Seq([kind : {"inject", "reverse"}, fault : Faults])
  BY DEF EventsSound
<1>2. DOMAIN events = 1 .. Len(events)
  BY <1>1, LenProperties
<1>3. events[k] \in [kind : {"inject", "reverse"}, fault : Faults]
  BY <1>1, <1>2, ElementOfSeq
<1> QED
  BY <1>3

(* A fault is reverted: the chain without it, in which each byte behind it  *)
(* is reverted as the byte in memory is.                                    *)
LEMMA ReverseMemorySound ==
  ASSUME GuestTypes, GuestTypes', SavedInTarget, EventsSound, MemorySound,
         NEW f \in Faults, ReverseMemory(f)
  PROVE  MemorySound'
<1> SUFFICES ASSUME NEW a \in Cells, a \notin mixed' PROVE \E t : ByteChain(a, t)'
  BY DEF MemorySound
<1>1. PICK p \in Nat : p = pack[f].address
  BY DEF GuestTypes, FaultConf
<1>2. /\ Happens("reverse", f) /\ UNCHANGED <<pack, word, golden, restoremask>>
      /\ IsMemory(f) /\ status[f] = "live"
      /\ memory' = ReversedMemory(f)
      /\ mixed' = mixed \cup {c \in Cells : \E g \in After(f) : Reach(f, c) \cap Reach(g, c) # {}}
  BY DEF ReverseMemory, Event, Happens, experiment
<1>3. \A g \in Faults : g # f => restoremask'[g] = restoremask[g]
  BY <1>2
<1>4. PICK s : ByteChain(a, s)
  BY <1>2 DEF MemorySound
<1>5. CASE a \notin Window(p, MaskBytes)
  <2>1. memory'[a] = memory[a]
    BY <1>1, <1>2, <1>5 DEF ReversedMemory
  <2> QED
    BY <1>1, <1>2, <1>4, <1>5, <2>1, ChainPassed
<1>6. CASE a \in Window(p, MaskBytes)
  <2>1. PICK n \in Nat : n = Len(events)
    BY EventsAppended DEF EventsSound
  <2>2. /\ DOMAIN events = 1 .. n
        /\ events' = Append(events, [kind |-> "reverse", fault |-> f])
        /\ \A k \in 1 .. n : events'[k] = events[k]
        /\ n + 1 \in DOMAIN events'
        /\ events'[n + 1].kind = "reverse" /\ events'[n + 1].fault = f
    BY <1>2, <2>1, EventsAppended DEF Happens
  <2>3. PICK k0 \in 1 .. n : events[k0] = InjectOf(f)
    BY <1>2, <2>2 DEF EventsSound
  <2>4. events[k0].kind = "inject" /\ events[k0].fault = f
    BY <2>3 DEF InjectOf
  <2>5. \A k \in 1 .. n : k # k0 => events[k].fault # f
    <3>1. \A k \in 1 .. n : events[k].kind \in {"inject", "reverse"}
      BY <2>2, EventTyped
    <3>2. \A k \in 1 .. n : events[k].kind = "reverse" => status[events[k].fault] = "reverted"
      BY <2>2 DEF EventsSound
    <3>3. \A k \in 1 .. n : events[k].kind = "inject" /\ events[k].fault = f => k = k0
      BY <2>2, <2>4 DEF EventsSound
    <3> QED
      BY <1>2, <3>1, <3>2, <3>3
  <2>6. PICK o \in Offset : o = a - p /\ p + o = a
    BY <1>6, WindowOffset
  <2>7. k0 \in InForce /\ Hits(a, k0)
    BY <1>1, <1>2, <1>6, <2>2, <2>4 DEF InForce, Pending, Hits
  <2>8. /\ s \in [0 .. n -> Byte] /\ s[0] = golden'[a] /\ s[n] = memory[a]
        /\ \A k \in 1 .. n : Link(a, k, s[k - 1], s[k])
    BY <1>2, <1>4, <2>1, <2>2 DEF ByteChain
  <2>9. pack[f] \in FaultConf /\ pack[f].mask[o] \in Byte
        /\ restoremask[f][o] \in Byte /\ restoremask[f][o] \subseteq TargetBits(pack[f], o)
    BY <1>2 DEF GuestTypes, FaultConf, Mask, SavedInTarget
  <2>10. Reach(f, a) = TargetBits(pack[f], o) \cup pack[f].mask[o]
    BY <1>1, <1>2, <1>6, <2>6, TargetReached
  <2>11. k0 - 1 \in 0 .. n /\ s[k0 - 1] \in Byte /\ s[k0] \in Byte
    BY <2>8
  <2>12. PICK u \in Byte : u = s[k0 - 1]
    BY <2>11
  <2>13. /\ s[k0] = InjectedByte(pack[f], o, u)
         /\ restoremask[f][o] = RestoreByte(pack[f], o, u)
         /\ Proper(f) \/ Reach(f, a) = {}
    BY <1>1, <2>4, <2>6, <2>7, <2>8, <2>12 DEF Link, EffectOn
  <2> PICK M : M = pack[f].mask[o]
    OBVIOUS
  <2> PICK r : r = restoremask[f][o]
    OBVIOUS
  <2> DEFINE Back(v) == process_reverse_fault(M, r, v)
  <2>14. \A v \in Byte : Back(v) \in Byte
    BY <2>9 DEF process_reverse_fault, Byte
  <2>15. Back(s[k0]) = u
    <3>1. CASE Proper(f)
      <4>1. MaskFits(pack[f])
        BY <1>2, <3>1, ProperWritten
      <4> QED
        BY <2>9, <2>13, <4>1, ReversalRestores
    <3>2. CASE Reach(f, a) = {}
      <4>1. TargetBits(pack[f], o) \cup pack[f].mask[o] = {}
        BY <2>10, <3>2
      <4>2. r = {} /\ s[k0] = u
        BY <2>9, <2>13, <4>1, NoReach
      <4>3. process_reverse_fault(pack[f].mask[o], {}, u) = u
        BY <2>9, <4>1, NoReach
      <4> QED
        BY <4>2, <4>3
    <3> QED
      BY <2>13, <3>1, <3>2
  <2>16. memory'[a] = Back(memory[a])
    <3>1. CASE InRam(p, MaskBytes)
      BY <1>1, <1>2, <1>6, <2>6, <3>1 DEF ReversedMemory
    <3>2. CASE ~InRam(p, MaskBytes)
      <4>1. ~Proper(f)
        BY <1>1, <1>2, <3>2 DEF Proper
      <4>2. TargetBits(pack[f], o) \cup pack[f].mask[o] = {}
        BY <2>10, <2>13, <4>1
      <4>3. memory[a] \in Byte
        BY DEF GuestTypes
      <4>4. Back(memory[a]) = memory[a]
        <5>1. r = {}
          BY <2>9, <2>13, <4>2, NoReach
        <5>2. process_reverse_fault(pack[f].mask[o], {}, memory[a]) = memory[a]
          BY <2>9, <4>2, <4>3, NoReach
        <5> QED
          BY <5>1, <5>2
      <4> QED
        BY <1>1, <1>2, <3>2, <4>4 DEF ReversedMemory
    <3> QED
      BY <3>1, <3>2
  <2>17. ASSUME NEW k \in 1 .. n, k > k0, NEW x \in Byte, NEW y \in Byte, Link(a, k, x, y)
         PROVE  Link(a, k, Back(x), Back(y))
    <3>1. PICK g \in Faults : g = events[k].fault
      BY <2>2, EventTyped
    <3>2. CASE ~Hits(a, k)
      BY <2>17, <3>2 DEF Link, EffectOn
    <3>3. CASE Hits(a, k)
      <4>1. k \in InForce /\ IsMemory(g) /\ a \in Window(pack[g].address, MaskBytes)
        BY <3>1, <3>3 DEF Hits
      <4>2. g \in After(f)
        <5>1. k0 \in 1 .. k - 1
          BY <2>17
        <5> QED
          BY <2>3, <3>1, <4>1, <5>1 DEF After
      <4>3. Reach(f, a) \cap Reach(g, a) = {}
        BY <1>2, <4>2
      <4>4. PICK j \in Offset : j = a - pack[g].address
        BY <4>1, WindowOffset DEF GuestTypes, FaultConf
      <4>5. Reach(g, a) = TargetBits(pack[g], j) \cup pack[g].mask[j]
        BY <4>1, <4>4, TargetReached
      <4>6. pack[g] \in FaultConf
        BY DEF GuestTypes
      <4>7. /\ InjectedByte(pack[g], j, Back(x)) = Back(InjectedByte(pack[g], j, x))
            /\ RestoreByte(pack[g], j, Back(x)) = RestoreByte(pack[g], j, x)
        <5>1. (TargetBits(pack[f], o) \cup pack[f].mask[o])
                \cap (TargetBits(pack[g], j) \cup pack[g].mask[j]) = {}
          BY <2>10, <4>3, <4>5
        <5> QED
          BY <2>9, <2>17, <4>6, <5>1, DisjointCommute
      <4>8. y = InjectedByte(pack[g], j, x)
        BY <2>17, <3>1, <3>3, <4>4 DEF Link, EffectOn
      <4>9. restoremask[g][j] = RestoreByte(pack[g], j, x)
            /\ (Proper(g) \/ Reach(g, a) = {})
        BY <2>17, <3>1, <3>3, <4>4 DEF Link
      <4> HIDE DEF Back
      <4> QED
        BY <3>1, <3>3, <4>4, <4>7, <4>8, <4>9 DEF Link, EffectOn
    <3> QED
      BY <3>2, <3>3
  <2> HIDE DEF Back
  <2> DEFINE t == [k \in 0 .. n |-> IF k < k0 THEN s[k] ELSE Back(s[k])]
  <2>18. t \in [0 .. n -> Byte]
    BY <2>8, <2>14
  <2>19. t[0] = golden'[a] /\ t[n] = memory'[a] /\ memory'[a] \in Byte
    <3>1. 0 < k0 /\ ~(n < k0) /\ 0 \in 0 .. n /\ n \in 0 .. n
      BY <2>1
    <3> QED
      BY <2>8, <2>16, <3>1 DEF GuestTypes
  <2>20. ASSUME NEW k \in 1 .. n PROVE Link(a, k, t[k - 1], t[k])'
    <3>1. PICK x, y : x = t[k - 1] /\ y = t[k]
      OBVIOUS
    <3>2. k \in 0 .. n /\ k - 1 \in 0 .. n /\ k0 \in Int
      BY <2>1
    <3>3. CASE k < k0
      <4>1. x = s[k - 1] /\ y = s[k]
        BY <3>1, <3>2, <3>3
      <4>2. Link(a, k, x, y)
        BY <2>8, <4>1
      <4>3. events[k].fault # f
        BY <2>5, <3>3
      <4> QED
        BY <1>2, <1>3, <2>2, <3>1, <4>2, <4>3, LinkKept
    <3>4. CASE k > k0
      <4>1. x = Back(s[k - 1]) /\ y = Back(s[k])
        BY <3>1, <3>2, <3>4
      <4>2. s[k - 1] \in Byte /\ s[k] \in Byte
        BY <2>8, <3>2
      <4>3. Link(a, k, x, y)
        BY <2>8, <2>17, <3>4, <4>1, <4>2
      <4>4. events[k].fault # f
        BY <2>5, <3>4
      <4> QED
        BY <1>2, <1>3, <2>2, <3>1, <4>3, <4>4, LinkKept
    <3>5. CASE k = k0
      <4>1. x = u /\ y = u
        BY <2>12, <2>15, <3>1, <3>2, <3>5
      <4>2. ~Hits(a, k)'
        <5>1. status'[f] = "reverted"
          BY <1>2 DEF Happens, GuestTypes
        <5> QED
          BY <2>2, <2>4, <3>5, <5>1 DEF Hits, InForce, Pending
      <4> HIDE DEF t
      <4>3. Link(a, k, x, y)'
        BY <4>1, <4>2 DEF Link, EffectOn
      <4> QED
        BY <3>1, <4>3
    <3> QED
      BY <3>2, <3>3, <3>4, <3>5
  <2>21. PICK m : m = memory'[a]
    OBVIOUS
  <2>22. Link(a, n + 1, m, m)'
    <3>1. ~Hits(a, n + 1)'
      BY <2>2 DEF Hits, InForce
    <3> QED
      BY <3>1 DEF Link, EffectOn
  <2>23. t[n] = m
    BY <2>19, <2>21
  <2> HIDE DEF t
  <2> QED
    BY <2>1, <2>2, <2>18, <2>19, <2>20, <2>21, <2>22, <2>23, ChainExtended
<1> QED
  BY <1>5, <1>6

(* The guest stores to a cell.  If no fault in force is about it, the cell  *)
(* has the stored byte throughout.                                          *)
LEMMA GuestStoreSound ==
  ASSUME GuestTypes, GuestTypes', SavedInTarget, EventsSound, MemorySound,
         NEW x \in MemAccesses, NEW bytes \in [Window(x.mem, x.size) -> StoreBytes],
         GuestStore(x, bytes)
  PROVE  MemorySound'
<1> SUFFICES ASSUME NEW a \in Cells, a \notin mixed' PROVE \E t : ByteChain(a, t)'
  BY DEF MemorySound
<1>9. PICK w : Stored(w, bytes)
  BY StoreIs
<1>1. /\ UNCHANGED <<pack, word, events, status, restoremask>>
      /\ a \in w => memory'[a] = bytes[a] /\ golden'[a] = bytes[a] /\ bytes[a] \in Byte
      /\ a \notin w => memory'[a] = memory[a] /\ golden'[a] = golden[a] /\ a \notin mixed
      /\ a \in w => \A f \in Faults : Pending(f) => Reach(f, a) = {}
  BY <1>9 DEF Stored
<1>2. \A k \in DOMAIN events : \A b, c : Link(a, k, b, c)' <=> Link(a, k, b, c)
  BY <1>1 DEF Link, EffectOn, Hits, InForce, Pending, IsMemory, Proper, Reach
<1>3. CASE a \notin w
  <2>1. a \notin mixed /\ memory'[a] = memory[a] /\ golden'[a] = golden[a]
    BY <1>1, <1>3
  <2>2. PICK s : ByteChain(a, s)
    BY <2>1 DEF MemorySound
  <2>3. ASSUME NEW k \in DOMAIN events PROVE Link(a, k, s[k - 1], s[k])'
    <3>1. PICK b, c : b = s[k - 1] /\ c = s[k]
      OBVIOUS
    <3>2. Link(a, k, b, c)'
      BY <1>2, <2>2, <3>1 DEF ByteChain
    <3> QED
      BY <3>1, <3>2
  <2>4. ByteChain(a, s)'
    BY <1>1, <2>1, <2>2, <2>3 DEF ByteChain
  <2> QED
    BY <2>4
<1>4. CASE a \in w
  <2> PICK v : v = bytes[a]
    OBVIOUS
  <2>1. memory'[a] = v /\ golden'[a] = v /\ v \in Byte
    BY <1>1, <1>4
  <2>2. \A f \in Faults : Pending(f) => Reach(f, a) = {}
    BY <1>1, <1>4
  <2>3. PICK n \in Nat : n = Len(events) /\ DOMAIN events = 1 .. n
    BY DEF EventsSound
  <2> DEFINE t == [k \in 0 .. n |-> v]
  <2>4. ASSUME NEW k \in DOMAIN events PROVE Link(a, k, v, v)
    <3>1. PICK g \in Faults : g = events[k].fault
      BY EventTyped
    <3>2. CASE ~Hits(a, k)
      BY <3>2 DEF Link, EffectOn
    <3>3. CASE Hits(a, k)
      <4>1. Pending(g) /\ IsMemory(g) /\ a \in Window(pack[g].address, MaskBytes)
        BY <3>1, <3>3 DEF Hits, InForce
      <4>2. Reach(g, a) = {}
        BY <2>2, <4>1
      <4>3. PICK j \in Offset : j = a - pack[g].address
        BY <4>1, WindowOffset DEF GuestTypes, FaultConf
      <4>4. TargetBits(pack[g], j) \cup pack[g].mask[j] = {}
        BY <4>1, <4>2, <4>3, TargetReached
      <4>5. restoremask[g][j] = {}
        BY <4>1, <4>4 DEF SavedInTarget
      <4>6. InjectedByte(pack[g], j, v) = v /\ RestoreByte(pack[g], j, v) = {}
        BY <2>1, <4>4, NoReach DEF GuestTypes
      <4> QED
        BY <3>1, <3>3, <4>2, <4>3, <4>5, <4>6 DEF Link, EffectOn
    <3> QED
      BY <3>2, <3>3
  <2>5. ASSUME NEW k \in DOMAIN events PROVE Link(a, k, t[k - 1], t[k])'
    <3>1. t[k - 1] = v /\ t[k] = v
      BY <2>3
    <3>2. Link(a, k, v, v)'
      BY <1>2, <2>4
    <3> QED
      BY <3>1, <3>2
  <2>6. /\ t \in [0 .. Len(events) -> Byte] /\ t[0] = v /\ t[Len(events)] = v
    BY <2>1, <2>3
  <2> HIDE DEF t
  <2>7. ByteChain(a, t)'
    BY <1>1, <2>1, <2>5, <2>6 DEF ByteChain
  <2> QED
    BY <2>7
<1> QED
  BY <1>3, <1>4

LEMMA MemoryInit == Init => MemorySound
<1> SUFFICES ASSUME Init, NEW a \in Cells PROVE \E s : ByteChain(a, s)
  BY DEF MemorySound
<1>1. PICK s : s = [k \in 0 .. 0 |-> golden[a]]
  OBVIOUS
<1>2. /\ Len(events) = 0 /\ DOMAIN events = {} /\ s \in [0 .. 0 -> Byte]
      /\ memory[a] = golden[a] /\ s[0] = golden[a]
  BY <1>1 DEF Init, Byte
<1> QED
  BY <1>2 DEF ByteChain

(* Whatever leaves memory, the faults and the record alone. *)
LEMMA MemoryKept ==
  ASSUME MemorySound, UNCHANGED <<pack, word, memory, golden, events, status, restoremask, mixed>>
  PROVE  MemorySound'
<1>1. \A k \in DOMAIN events : \A a, x, y : Link(a, k, x, y)' <=> Link(a, k, x, y)
  BY DEF Link, EffectOn, Hits, InForce, Pending, IsMemory, Proper, Reach
<1> SUFFICES ASSUME NEW a \in Cells, a \notin mixed PROVE \E s : ByteChain(a, s)'
  BY DEF MemorySound
<1>2. PICK s : ByteChain(a, s)
  BY DEF MemorySound
<1>3. ASSUME NEW k \in DOMAIN events PROVE Link(a, k, s[k - 1], s[k])'
  <2>1. PICK x, y : x = s[k - 1] /\ y = s[k]
    OBVIOUS
  <2>2. Link(a, k, x, y)'
    BY <1>1, <1>2, <2>1 DEF ByteChain
  <2> QED
    BY <2>1, <2>2
<1>4. ByteChain(a, s)'
  BY <1>2, <1>3 DEF ByteChain
<1> QED
  BY <1>4

LEMMA MemoryInductive ==
  IInv /\ IInv' /\ EventsSound /\ MemorySound /\ [Next]_vars => MemorySound'
<1> SUFFICES ASSUME IInv, IInv', EventsSound, MemorySound, [Next]_vars PROVE MemorySound'
  OBVIOUS
<1>1. GuestTypes /\ GuestTypes' /\ SavedInTarget
  BY DEF IInv
<1>2. ASSUME NEW f \in Faults, InjectMemory(f) PROVE MemorySound'
  BY <1>1, <1>2, InjectMemorySound
<1>3. ASSUME NEW f \in Faults, InjectRegister(f) \/ ReverseRegister(f) PROVE MemorySound'
  BY <1>1, <1>3, RegisterSound
<1>4. ASSUME NEW f \in Faults, ReverseMemory(f) PROVE MemorySound'
  BY <1>1, <1>4, ReverseMemorySound
<1>5. ASSUME NEW x \in MemAccesses, NEW bytes \in [Window(x.mem, x.size) -> StoreBytes],
             GuestStore(x, bytes)
      PROVE  MemorySound'
  BY <1>1, <1>5, GuestStoreSound
<1>9. ASSUME NEW x, GuestLoad(x) PROVE MemorySound'
  BY <1>9, MemoryKept DEF GuestLoad, GuestAccess, experiment
<1>6. ASSUME NEW r, NEW v, GuestWriteRegister(r, v) PROVE MemorySound'
  BY <1>6, MemoryKept DEF GuestWriteRegister, experiment
<1>7. ASSUME NEW pages, EndDump(pages) PROVE MemorySound'
  BY <1>7, MemoryKept DEF EndDump, experiment, history
<1>8. CASE UNCHANGED vars
  BY <1>8, MemoryKept DEF vars, experiment, history
<1> QED
  BY <1>2, <1>3, <1>4, <1>5, <1>6, <1>7, <1>8, <1>9 DEF Next, Terminated

(* A byte of memory is the guest's own byte with the faults in force        *)
(* applied in the order of their injection, in any interleaving of          *)
(* injections, reversals and stores, unless a saved byte was outdated       *)
(* before it was written back (inject_memory_fault, process_reverse_fault): *)
(* a reverted fault leaves nothing behind and takes nothing of others.      *)
THEOREM FaultsInForce == Spec => []MemoryIsFaulted
<1>1. Init => IInv /\ EventsSound /\ MemorySound
  BY InitInductive, EventsInit, MemoryInit
<1>2. IInv /\ EventsSound /\ MemorySound /\ [Next]_vars => IInv' /\ EventsSound' /\ MemorySound'
  <2>1. IInv => GuestTypes
    BY DEF IInv
  <2> QED
    BY <2>1, StepInductive, EventsInductive, MemoryInductive
<1>3. IInv /\ EventsSound /\ MemorySound => MemoryIsFaulted
  BY ChainIsFaulted DEF MemorySound, MemoryIsFaulted
<1> QED
  BY <1>1, <1>2, <1>3, PTL DEF Spec

-----------------------------------------------------------------------------
(* The dumps and the report. *)

(* A memory region as the vector holds it, its dumps within its room. *)
SomeDump == UNION {[0 .. l - 1 -> Byte] : l \in Nat}
Region == [address : Nat, len : Nat, num_dumps : Nat, dumps : Seq(SomeDump)]

RegionSound(r) ==
  /\ r \in Region
  /\ Len(r.dumps) <= r.num_dumps
  /\ \A j \in 1 .. Len(r.dumps) : r.dumps[j] \in [0 .. r.len - 1 -> Byte]

(* Region s is r with n further dumps. *)
Grown(r, s, n) ==
  /\ RegionSound(s)
  /\ s.address = r.address /\ s.len = r.len
  /\ Len(s.dumps) = Len(r.dumps) + n
  /\ \A j \in 1 .. Len(r.dumps) : s.dumps[j] = r.dumps[j]

(* One dump is read (read_memoryregion). *)
LEMMA ReadOnce ==
  ASSUME NEW r, RegionSound(r), NEW mem \in [Cells -> Byte], NEW s,
         s = read_memoryregion(r, mem)
  PROVE  Grown(r, s, 1) /\ s.dumps[Len(r.dumps) + 1] = Contents(mem, r.address, r.len)
<1> DEFINE d == Contents(mem, r.address, r.len)
<1>1. /\ r.address \in Nat /\ r.len \in Nat /\ r.num_dumps \in Nat
      /\ r.dumps \in Seq(SomeDump) /\ r \in Region
  BY DEF RegionSound, Region
<1>2. d \in [0 .. r.len - 1 -> Byte]
  <2>1. ASSUME NEW i \in 0 .. r.len - 1, InRam(r.address, r.len)
        PROVE  mem[r.address + i] \in Byte
    <3>1. r.address + i \in Window(r.address, r.len)
      BY <1>1 DEF Window
    <3> QED
      BY <2>1, <3>1 DEF InRam
  <2>2. {} \in Byte
    BY DEF Byte
  <2> QED
    BY <2>1, <2>2 DEF Contents
<1>3. d \in SomeDump
  BY <1>1, <1>2 DEF SomeDump
<1> HIDE DEF d
<1>4. PICK n \in Nat : n = Len(r.dumps)
  BY <1>1, LenProperties
<1>5. /\ Append(r.dumps, d) \in Seq(SomeDump) /\ Len(Append(r.dumps, d)) = n + 1
      /\ Append(r.dumps, d)[n + 1] = d
      /\ \A j \in 1 .. n : Append(r.dumps, d)[j] = r.dumps[j]
  BY <1>1, <1>3, <1>4, AppendProperties
<1>6. /\ s.dumps = Append(r.dumps, d) /\ s.address = r.address /\ s.len = r.len
      /\ s.num_dumps = IF r.num_dumps = n THEN n + 1 ELSE r.num_dumps
  BY <1>1, <1>4 DEF read_memoryregion, d, Region
<1>7. s \in Region
  <2>1. s = [address |-> s.address, len |-> s.len, num_dumps |-> s.num_dumps, dumps |-> s.dumps]
    BY <1>1 DEF read_memoryregion, Region
  <2>2. s.num_dumps \in Nat /\ s.dumps \in Seq(SomeDump) /\ s.address \in Nat /\ s.len \in Nat
    BY <1>1, <1>4, <1>5, <1>6
  <2> QED
    BY <2>1, <2>2 DEF Region
<1>8. Len(s.dumps) <= s.num_dumps
  BY <1>1, <1>4, <1>5, <1>6 DEF RegionSound
<1>9. \A j \in 1 .. n : r.dumps[j] \in [0 .. r.len - 1 -> Byte]
  BY <1>4 DEF RegionSound
<1>10. \A j \in 1 .. n + 1 : s.dumps[j] \in [0 .. s.len - 1 -> Byte]
  BY <1>2, <1>4, <1>5, <1>6, <1>9
<1>11. RegionSound(s)
  BY <1>4, <1>5, <1>6, <1>7, <1>8, <1>10 DEF RegionSound
<1> QED
  BY <1>4, <1>5, <1>6, <1>11 DEF Grown, d

LEMMA GrownLen ==
  ASSUME NEW r, RegionSound(r) PROVE Len(r.dumps) \in Nat /\ r.address \in Nat /\ r.len \in Nat
BY LenProperties DEF RegionSound, Region

LEMMA GrownTwice ==
  ASSUME NEW r, NEW s, NEW t, RegionSound(r), Grown(r, s, 1), Grown(s, t, 1)
  PROVE  Grown(r, t, 2)
<1>1. PICK n \in Nat : n = Len(r.dumps)
  BY GrownLen
<1> QED
  BY <1>1 DEF Grown

LEMMA NotGrown == ASSUME NEW r, RegionSound(r) PROVE Grown(r, r, 0)
BY GrownLen DEF Grown

LEMMA GrownKeeps ==
  ASSUME NEW r, NEW s, NEW n, Grown(r, s, n)
  PROVE  /\ s.address = r.address /\ s.len = r.len /\ Len(s.dumps) = Len(r.dumps) + n
         /\ \A j \in 1 .. Len(r.dumps) : s.dumps[j] = r.dumps[j]
BY DEF Grown

(* A region begins with room for one dump and none (insert_memorydump_config). *)
LEMMA NewRegionSound ==
  ASSUME NEW a \in Nat, NEW l \in Nat
  PROVE  /\ RegionSound(NewRegion(a, l)) /\ NewRegion(a, l).address = a
         /\ NewRegion(a, l).len = l /\ NewRegion(a, l).dumps = <<>>
         /\ Len(NewRegion(a, l).dumps) = 0
BY EmptySeq DEF NewRegion, RegionSound, Region

-----------------------------------------------------------------------------
(* The reads of a region that an event adds. *)
Weight(kind, f, b) ==
  IF ~IsMemory(f) \/ pack[f].address # b THEN 0 ELSE IF kind = "inject" THEN 2 ELSE 1

LEMMA CountPlusOne ==
  ASSUME NEW S, IsFiniteSet(S), NEW x, x \notin S
  PROVE  Cardinality(S \cup {x}) = Cardinality(S) + 1
BY FS_AddElement

(* The sets of events that are counted are finite. *)
LEMMA EventSetsFinite ==
  ASSUME EventsSound
  PROVE  \A S \in SUBSET (DOMAIN events) : IsFiniteSet(S) /\ Cardinality(S) \in Nat
<1>1. PICK n \in Nat : DOMAIN events = 1 .. n
  BY LenProperties DEF EventsSound
<1>2. IsFiniteSet(1 .. n)
  BY FS_Interval
<1> QED
  BY <1>1, <1>2, FS_Subset, FS_CardinalityType

(* A step of the faults adds its event to the sets, at the end. *)
LEMMA SetsGrow ==
  ASSUME EventsSound, NEW f \in Faults, NEW kind, Happens(kind, f), pack' = pack,
         NEW n, n = Len(events)
  PROVE  /\ MemoryEvents' = (MemoryEvents \cup (IF IsMemory(f) THEN {n + 1} ELSE {}))
         /\ MemoryInjections' =
              (MemoryInjections \cup (IF IsMemory(f) /\ kind = "inject" THEN {n + 1} ELSE {}))
<1>1. /\ n \in Nat /\ DOMAIN events = 1 .. n /\ DOMAIN events' = 1 .. n + 1
      /\ \A k \in 1 .. n : events'[k] = events[k]
      /\ events'[n + 1] = [kind |-> kind, fault |-> f]
  BY EventsAppended DEF Happens
<1>2. \A g : IsMemory(g)' <=> IsMemory(g)
  BY DEF IsMemory
<1>3. events'[n + 1].fault = f /\ events'[n + 1].kind = kind
  BY <1>1
<1>4. MemoryEvents' = {k \in 1 .. n + 1 : IsMemory(events'[k].fault)}
  BY <1>1, <1>2 DEF MemoryEvents
<1>5. MemoryEvents = {k \in 1 .. n : IsMemory(events[k].fault)}
  BY <1>1 DEF MemoryEvents
<1>6. \A k : k \in MemoryEvents' <=> k \in MemoryEvents \/ (k = n + 1 /\ IsMemory(f))
  BY <1>1, <1>3, <1>4, <1>5
<1>7. MemoryEvents' = (MemoryEvents \cup (IF IsMemory(f) THEN {n + 1} ELSE {}))
  BY <1>6
<1>8. \A k : k \in MemoryInjections' <=>
        k \in MemoryInjections \/ (k = n + 1 /\ IsMemory(f) /\ kind = "inject")
  BY <1>1, <1>3, <1>5, <1>6 DEF MemoryInjections
<1>9. MemoryInjections' =
        (MemoryInjections \cup (IF IsMemory(f) /\ kind = "inject" THEN {n + 1} ELSE {}))
  BY <1>8
<1> QED
  BY <1>7, <1>9

LEMMA InjectionsKept ==
  ASSUME EventsSound, NEW f \in Faults, NEW kind, Happens(kind, f), pack' = pack,
         ~(IsMemory(f) /\ kind = "inject")
  PROVE  MemoryInjections' = MemoryInjections
<1>1. PICK n : n = Len(events)
  OBVIOUS
<1>2. PICK new : new = IF IsMemory(f) /\ kind = "inject" THEN {n + 1} ELSE {}
  OBVIOUS
<1>3. MemoryInjections' = MemoryInjections \cup new
  BY <1>1, <1>2, SetsGrow
<1>4. new = {}
  BY <1>2
<1> QED
  BY <1>3, <1>4

(* A region is numbered by the injections up to the one that opens it. *)
LEMMA RegionsNumbered ==
  ASSUME EventsSound, NEW f \in Faults, NEW kind, Happens(kind, f), pack' = pack,
         control' = control, Len(control.regions) \in Nat, NEW n, n = Len(events)
  PROVE  /\ \A k \in DOMAIN events : RegionOf(k)' = RegionOf(k)
         /\ Cardinality(MemoryInjections) \in Nat
         /\ Cardinality(MemoryInjections') = Cardinality(MemoryInjections)
              + (IF IsMemory(f) /\ kind = "inject" THEN 1 ELSE 0)
         /\ RegionOf(n + 1)' = Len(control.regions) + Cardinality(MemoryInjections')
<1>1. n \in Nat /\ DOMAIN events = 1 .. n
  BY LenProperties DEF EventsSound
<1>2. MemoryInjections' =
        (MemoryInjections \cup (IF IsMemory(f) /\ kind = "inject" THEN {n + 1} ELSE {}))
  BY <1>1, SetsGrow
<1>3. MemoryInjections \subseteq 1 .. n
  BY <1>1 DEF MemoryInjections, MemoryEvents
<1>4. ASSUME NEW k \in 1 .. n PROVE RegionOf(k)' = RegionOf(k)
  <2>1. {j \in MemoryInjections' : j <= k} = {j \in MemoryInjections : j <= k}
    BY <1>2, <1>3
  <2> QED
    BY <2>1 DEF RegionOf
<1>5. IsFiniteSet(MemoryInjections) /\ Cardinality(MemoryInjections) \in Nat
  BY <1>1, <1>3, EventSetsFinite
<1>6. n + 1 \notin MemoryInjections
  BY <1>3
<1>7. Cardinality(MemoryInjections') = Cardinality(MemoryInjections)
        + (IF IsMemory(f) /\ kind = "inject" THEN 1 ELSE 0)
  <2>1. CASE IsMemory(f) /\ kind = "inject"
    BY <1>2, <1>5, <1>6, <2>1, CountPlusOne
  <2>2. CASE ~(IsMemory(f) /\ kind = "inject")
    <3>1. MemoryInjections' = MemoryInjections
      BY <1>2, <2>2
    <3> QED
      BY <1>5, <2>2, <3>1
  <2> QED
    BY <2>1, <2>2
<1>8. {j \in MemoryInjections' : j <= n + 1} = MemoryInjections'
  <2>1. MemoryInjections' \subseteq MemoryInjections \cup {n + 1}
    BY <1>2
  <2>2. \A j \in MemoryInjections' : j <= n + 1
    BY <1>1, <1>3, <2>1
  <2> QED
    BY <2>2
<1>9. RegionOf(n + 1)' = Len(control.regions) + Cardinality(MemoryInjections')
  BY <1>8 DEF RegionOf
<1> QED
  BY <1>1, <1>4, <1>5, <1>7, <1>9

(* How often a region is read is a number (memory events are finitely many). *)
LEMMA ReadsTyped ==
  ASSUME EventsSound, NEW b, NEW k PROVE ReadsSince(k, b) \in Nat
<1>1. PICK n \in Nat : n = Len(events) /\ DOMAIN events = 1 .. n
  BY LenProperties DEF EventsSound
<1>2. EventsAt(b, k) \subseteq 1 .. n /\ EventsAt(b, k) \cap MemoryInjections \subseteq 1 .. n
  BY <1>1 DEF EventsAt, MemoryEvents
<1>3. Cardinality(EventsAt(b, k)) \in Nat /\ Cardinality(EventsAt(b, k) \cap MemoryInjections) \in Nat
  BY <1>1, <1>2, EventSetsFinite
<1> QED
  BY <1>3 DEF ReadsSince

(* What an event adds to the reads of the regions of each address. *)
LEMMA ReadsGrow ==
  ASSUME EventsSound, NEW f \in Faults, NEW kind \in {"inject", "reverse"}, Happens(kind, f),
         pack' = pack, NEW b, NEW k \in 1 .. Len(events) + 1
  PROVE  /\ ReadsSince(k, b) \in Nat
         /\ ReadsSince(k, b)' = ReadsSince(k, b) + Weight(kind, f, b)
<1>1. PICK n \in Nat : n = Len(events) /\ DOMAIN events = 1 .. n
  BY LenProperties DEF EventsSound
<1>2. /\ MemoryEvents' = (MemoryEvents \cup (IF IsMemory(f) THEN {n + 1} ELSE {}))
      /\ MemoryInjections' =
           (MemoryInjections \cup (IF IsMemory(f) /\ kind = "inject" THEN {n + 1} ELSE {}))
  BY <1>1, SetsGrow
<1>3. /\ DOMAIN events' = 1 .. n + 1 /\ \A j \in 1 .. n : events'[j] = events[j]
      /\ events'[n + 1].fault = f
  BY <1>1, EventsAppended DEF Happens
<1>4. MemoryEvents \subseteq 1 .. n /\ MemoryInjections \subseteq MemoryEvents
  BY <1>1 DEF MemoryInjections, MemoryEvents
<1> PICK E : E = EventsAt(b, k)
  OBVIOUS
<1> PICK I : I = MemoryInjections
  OBVIOUS
<1> DEFINE hit == IsMemory(f) /\ pack[f].address = b
<1>5. E \subseteq 1 .. n
  BY <1>4 DEF EventsAt
<1>6. IsFiniteSet(E) /\ IsFiniteSet(E \cap I) /\ Cardinality(E) \in Nat /\ Cardinality(E \cap I) \in Nat
  <2>1. E \cap I \subseteq 1 .. n
    BY <1>5
  <2> QED
    BY <1>1, <1>5, <2>1, EventSetsFinite
<1>7. ReadsSince(k, b) = Cardinality(E) + Cardinality(E \cap I)
  BY DEF ReadsSince
<1>8. EventsAt(b, k)' = (E \cup (IF hit THEN {n + 1} ELSE {}))
  <2>1. \A j : j \in MemoryEvents' <=> j \in MemoryEvents \/ (j = n + 1 /\ IsMemory(f))
    BY <1>2
  <2>2. \A j : j \in EventsAt(b, k)' <=>
          j \in MemoryEvents' /\ j >= k /\ pack[events'[j].fault].address = b
    BY DEF EventsAt
  <2>3. \A j : j \in E <=> j \in MemoryEvents /\ j >= k /\ pack[events[j].fault].address = b
    BY DEF EventsAt
  <2>4. n + 1 >= k
    BY <1>1
  <2>5. \A j \in MemoryEvents : events'[j] = events[j]
    BY <1>3, <1>4
  <2>6. \A j : j \in EventsAt(b, k)' <=> j \in E \/ (j = n + 1 /\ hit)
    BY <1>3, <2>1, <2>2, <2>3, <2>4, <2>5
  <2> QED
    BY <2>6
<1>9. n + 1 \notin E /\ n + 1 \notin I
  BY <1>4, <1>5
<1>10. CASE ~hit
  <2>1. EventsAt(b, k)' = E
    BY <1>8, <1>10
  <2>2. E \cap MemoryInjections' = E \cap I
    BY <1>2, <1>9
  <2>3. ReadsSince(k, b)' = Cardinality(E) + Cardinality(E \cap I)
    BY <2>1, <2>2 DEF ReadsSince
  <2>4. Weight(kind, f, b) = 0
    BY <1>10 DEF Weight
  <2> QED
    BY <1>6, <1>7, <2>3, <2>4
<1>11. CASE hit
  <2>1. EventsAt(b, k)' = E \cup {n + 1}
    BY <1>8, <1>11
  <2>2. Cardinality(E \cup {n + 1}) = Cardinality(E) + 1
    BY <1>6, <1>9, CountPlusOne
  <2>3. CASE kind = "inject"
    <3>1. MemoryInjections' = I \cup {n + 1}
      BY <1>2, <1>11, <2>3
    <3>2. (E \cup {n + 1}) \cap (I \cup {n + 1}) = (E \cap I) \cup {n + 1}
      OBVIOUS
    <3>3. Cardinality((E \cap I) \cup {n + 1}) = Cardinality(E \cap I) + 1
      BY <1>6, <1>9, CountPlusOne
    <3>4. ReadsSince(k, b)' = Cardinality(E) + 1 + Cardinality(E \cap I) + 1
      <4>1. ReadsSince(k, b)' = Cardinality(E \cup {n + 1})
              + Cardinality((E \cup {n + 1}) \cap (I \cup {n + 1}))
        BY <2>1, <3>1 DEF ReadsSince
      <4> QED
        <5>1. Cardinality((E \cup {n + 1}) \cap (I \cup {n + 1})) = Cardinality(E \cap I) + 1
          BY <3>2, <3>3
        <5> QED
          BY <1>6, <2>2, <4>1, <5>1
    <3>5. Weight(kind, f, b) = 2
      BY <1>11, <2>3 DEF Weight
    <3> QED
      BY <1>6, <1>7, <3>4, <3>5
  <2>4. CASE kind # "inject"
    <3>1. MemoryInjections' = I
      BY <1>2, <2>4
    <3>2. (E \cup {n + 1}) \cap I = E \cap I
      BY <1>9
    <3>3. ReadsSince(k, b)' = Cardinality(E) + 1 + Cardinality(E \cap I)
      <4>1. ReadsSince(k, b)' = Cardinality(E \cup {n + 1}) + Cardinality((E \cup {n + 1}) \cap I)
        BY <2>1, <3>1 DEF ReadsSince
      <4> QED
        BY <1>6, <2>2, <3>2, <4>1
    <3>4. Weight(kind, f, b) = 1
      BY <1>11, <2>4 DEF Weight
    <3> QED
      BY <1>6, <1>7, <3>3, <3>4
  <2> QED
    BY <2>3, <2>4
<1> QED
  BY <1>6, <1>7, <1>10, <1>11

(* Nothing was read since the next event. *)
LEMMA NoReadsYet ==
  ASSUME EventsSound, NEW b PROVE ReadsSince(Len(events) + 1, b) = 0
<1>1. PICK n \in Nat : n = Len(events) /\ DOMAIN events = 1 .. n
  BY LenProperties DEF EventsSound
<1>2. EventsAt(b, n + 1) = {} /\ EventsAt(b, n + 1) \cap MemoryInjections = {}
  BY <1>1 DEF EventsAt, MemoryEvents
<1> QED
  BY <1>1, <1>2, FS_EmptySet DEF ReadsSince

-----------------------------------------------------------------------------
(* What the records tell of the accesses (memaccess_data_cb), and what the  *)
(* regions tell while the experiment runs: of a configured region,          *)
(* how often it was read; of one opened by an injection, the bytes before   *)
(* and after it; of a reversal, the masked bits as they were before.        *)
AccessesSound ==
  /\ mem_infos \subseteq accessed /\ accessed \subseteq MemAccess /\ IsFiniteSet(mem_infos)
  /\ control.mem_info =>
       \A x \in accessed : x \in mem_infos \/ \E r \in mem_infos : Alike(x, r)
  /\ ~control.mem_info => mem_infos = {}

ControlSound ==
  /\ control.full \in BOOLEAN
  /\ control.regions \in Seq([address : Nat, len : Nat])
  /\ control.full => control.regions = <<>>
  /\ AccessesSound
  /\ registers \in [Regs -> SUBSET WordBits]

Configured(m) ==
  LET r == memdump[m]
  IN /\ r.address = control.regions[m].address /\ r.len = control.regions[m].len
     /\ Len(r.dumps) = ReadsSince(1, r.address)

InjectTold(e) ==
  LET f == events[e].fault
      r == memdump[RegionOf(e)]
      a == pack[f].address
  IN /\ RegionOf(e) \in Len(control.regions) + 1 .. Len(memdump)
     /\ r.address = a /\ r.len = MaskBytes
     /\ Len(r.dumps) >= 2 /\ Len(r.dumps) = ReadsSince(e, a)
     /\ InRam(a, MaskBytes) => \A i \in Offset :
          /\ r.dumps[2][i] = InjectedByte(pack[f], i, r.dumps[1][i])
          /\ restoremask[f][i] = RestoreByte(pack[f], i, r.dumps[1][i])

(* What was saved of a byte is in it again, and of the mask nothing else.  *)
GivenBack(f, i, before, after) ==
  /\ after \cap f.mask[i] = RestoreByte(f, i, before) \cap f.mask[i]
  /\ RestoreByte(f, i, before) \subseteq after

LEMMA GivenBackReturns ==
  ASSUME NEW f \in FaultConf, NEW i \in Offset, MaskFits(f), NEW v, NEW w,
         GivenBack(f, i, v, w)
  PROVE  Returned(f, i, v, w)
<1>1. CASE f.model = "OVERWRITE" /\ i < NumBytes(f)
  BY <1>1 DEF GivenBack, Returned, RestoreByte, TargetBits
<1>2. CASE f.model = "OVERWRITE" /\ ~(i < NumBytes(f))
  <2>1. TargetBits(f, i) = {} /\ RestoreByte(f, i, v) = {}
    BY <1>2 DEF TargetBits, RestoreByte
  <2>2. NumBytes(f) \in Int /\ i \in Int
    BY WidthAssumption DEF NumBytes, Lower, Offset, FaultConf
  <2>3. f.mask[i] = {}
    BY <1>2, <2>2 DEF MaskFits
  <2> QED
    BY <2>1, <2>3 DEF GivenBack, Returned
<1>3. CASE f.model # "OVERWRITE"
  BY <1>3 DEF GivenBack, Returned, RestoreByte, TargetBits
<1> QED
  BY <1>1, <1>2, <1>3

ReverseTold(k, e) ==
  LET f == events[k].fault
      d == memdump[RegionOf(e)].dumps
      n == Len(d) - ReadsSince(k, pack[f].address) + 1
  IN /\ n \in 1 .. Len(d)
     /\ InRam(pack[f].address, MaskBytes) => \A i \in Offset :
          GivenBack(pack[f], i, d[1][i], d[n][i])

Collected ==
  /\ num_memdump \in Nat /\ memdump \in Seq(Region) /\ Len(memdump) <= num_memdump
  /\ \A m \in 1 .. Len(memdump) : RegionSound(memdump[m])
  /\ Len(memdump) = Len(control.regions) + Cardinality(MemoryInjections)
  /\ \A m \in 1 .. Len(control.regions) : Configured(m)
  /\ \A e \in MemoryInjections : InjectTold(e)
  /\ \A m \in Len(control.regions) + 1 .. Len(memdump) :
       \E e \in MemoryInjections : RegionOf(e) = m
  /\ \A k \in MemoryEvents \ MemoryInjections : \A e \in MemoryInjections :
       events[e].fault = events[k].fault => ReverseTold(k, e)
  /\ Len(registerdumps) = Len(events) /\ \E S : registerdumps \in Seq(S)

LEMMA MemoryEventTyped ==
  ASSUME GuestTypes, EventsSound, NEW k \in MemoryEvents
  PROVE  /\ k \in 1 .. Len(events) /\ Len(events) \in Nat /\ events[k].fault \in Faults
         /\ status[events[k].fault] # "waiting"
         /\ pack[events[k].fault] \in FaultConf /\ pack[events[k].fault].address \in Nat
         /\ events[k].kind \in {"inject", "reverse"}
         /\ k \in MemoryInjections <=> events[k].kind = "inject"
<1>1. k \in DOMAIN events /\ DOMAIN events = 1 .. Len(events) /\ Len(events) \in Nat
  BY LenProperties DEF EventsSound, MemoryEvents
<1>2. events[k].kind \in {"inject", "reverse"} /\ events[k].fault \in Faults
  BY <1>1, EventTyped
<1>3. status[events[k].fault] # "waiting"
  BY <1>1 DEF EventsSound
<1>4. pack[events[k].fault] \in FaultConf /\ pack[events[k].fault].address \in Nat
  BY <1>2 DEF GuestTypes, FaultConf
<1> QED
  BY <1>1, <1>2, <1>3, <1>4 DEF MemoryInjections

(* An event leaves what was told before it. *)
LEMMA ToldKept ==
  ASSUME GuestTypes, EventsSound, ControlSound, Collected,
         NEW f \in Faults, NEW kind \in {"inject", "reverse"}, Happens(kind, f),
         pack' = pack, control' = control, NEW n, n = Len(memdump),
         Len(memdump') \in Nat, Len(memdump') >= n,
         \A m \in 1 .. n : Grown(memdump[m], memdump'[m], Weight(kind, f, memdump[m].address)),
         \A g \in Faults : status[g] # "waiting" => restoremask'[g] = restoremask[g]
  PROVE  /\ \A m \in 1 .. Len(control.regions) : Configured(m)'
         /\ \A e \in MemoryInjections : InjectTold(e)'
         /\ \A m \in Len(control.regions) + 1 .. n :
              \E e \in MemoryInjections : RegionOf(e)' = m
         /\ \A k \in MemoryEvents \ MemoryInjections : \A e \in MemoryInjections :
              events[e].fault = events[k].fault => ReverseTold(k, e)'
<1>1. PICK z \in Nat : z = Len(events) /\ DOMAIN events = 1 .. z
  BY LenProperties DEF EventsSound
<1>2. \A k \in 1 .. z : events'[k] = events[k]
  BY <1>1, EventsAppended DEF Happens
<1>3. PICK base \in Nat : base = Len(control.regions)
  BY LenProperties DEF ControlSound
<1>4. /\ \A k \in 1 .. z : RegionOf(k)' = RegionOf(k)
      /\ Cardinality(MemoryInjections) \in Nat
  BY <1>1, <1>3, RegionsNumbered
<1>5. n \in Nat /\ base <= n
  BY <1>3, <1>4 DEF Collected
<1>6. ASSUME NEW m \in 1 .. n
      PROVE  /\ RegionSound(memdump[m]) /\ Len(memdump[m].dumps) \in Nat
             /\ Grown(memdump[m], memdump'[m], Weight(kind, f, memdump[m].address))
  BY GrownLen DEF Collected
<1>7. ASSUME NEW k \in 1 .. z + 1, NEW b
      PROVE  /\ ReadsSince(k, b) \in Nat
             /\ ReadsSince(k, b)' = ReadsSince(k, b) + Weight(kind, f, b)
             /\ Weight(kind, f, b) \in Nat
  <2>1. k \in 1 .. Len(events) + 1
    BY <1>1
  <2> QED
    BY <2>1, ReadsGrow DEF Weight
<1>8. ASSUME NEW m \in 1 .. base PROVE Configured(m)'
  <2>1. PICK b : b = memdump[m].address
    OBVIOUS
  <2>2. /\ Grown(memdump[m], memdump'[m], Weight(kind, f, b)) /\ Configured(m)
    BY <1>3, <1>5, <1>6, <2>1 DEF Collected
  <2>3. \A u : ReadsSince(1, u)' = ReadsSince(1, u) + Weight(kind, f, u)
    BY <1>7
  <2>4. /\ memdump'[m].address = b /\ memdump'[m].len = memdump[m].len
        /\ Len(memdump'[m].dumps) = Len(memdump[m].dumps) + Weight(kind, f, b)
    BY <2>1, <2>2 DEF Grown
  <2>5. /\ b = control.regions[m].address /\ memdump[m].len = control.regions[m].len
        /\ Len(memdump[m].dumps) = ReadsSince(1, b)
    BY <2>1, <2>2 DEF Configured
  <2> QED
    BY <2>3, <2>4, <2>5 DEF Configured
<1>9. ASSUME NEW e \in MemoryInjections PROVE InjectTold(e)'
  <2>1. e \in MemoryEvents /\ e \in 1 .. z
    BY <1>1, MemoryEventTyped DEF MemoryInjections
  <2>2. PICK g \in Faults : g = events[e].fault /\ status[g] # "waiting"
    BY <2>1, MemoryEventTyped
  <2>3. PICK m : m = RegionOf(e)
    OBVIOUS
  <2>4. PICK b : b = pack[g].address
    OBVIOUS
  <2>5. PICK w \in Nat : w = Weight(kind, f, b)
    BY <1>1, <1>7
  <2>6. /\ m \in base + 1 .. n /\ memdump[m].address = b /\ memdump[m].len = MaskBytes
        /\ Len(memdump[m].dumps) >= 2 /\ Len(memdump[m].dumps) = ReadsSince(e, b)
        /\ InRam(b, MaskBytes) => \A i \in Offset :
             /\ memdump[m].dumps[2][i] = InjectedByte(pack[g], i, memdump[m].dumps[1][i])
             /\ restoremask[g][i] = RestoreByte(pack[g], i, memdump[m].dumps[1][i])
    BY <1>3, <2>2, <2>3, <2>4 DEF Collected, InjectTold
  <2>7. m \in 1 .. n
    BY <1>5, <2>6
  <2>8. Len(memdump[m].dumps) \in Nat /\ Grown(memdump[m], memdump'[m], w)
    BY <1>6, <2>5, <2>6, <2>7
  <2>9. /\ memdump'[m].address = b /\ memdump'[m].len = MaskBytes
        /\ Len(memdump'[m].dumps) = Len(memdump[m].dumps) + w
        /\ memdump'[m].dumps[1] = memdump[m].dumps[1]
        /\ memdump'[m].dumps[2] = memdump[m].dumps[2]
    BY <2>6, <2>8 DEF Grown
  <2>10. ReadsSince(e, b)' = ReadsSince(e, b) + w
    BY <1>7, <2>1, <2>5
  <2>11. RegionOf(e)' = m /\ events'[e].fault = g /\ restoremask'[g] = restoremask[g]
         /\ m \in Len(control'.regions) + 1 .. Len(memdump')
    BY <1>2, <1>3, <1>4, <1>5, <2>1, <2>2, <2>3, <2>6
  <2>12. InRam(b, MaskBytes) => \A i \in Offset :
           /\ memdump'[m].dumps[2][i] = InjectedByte(pack[g], i, memdump'[m].dumps[1][i])
           /\ restoremask'[g][i] = RestoreByte(pack[g], i, memdump'[m].dumps[1][i])
    BY <2>6, <2>9, <2>11
  <2>13. Len(memdump'[m].dumps) >= 2 /\ Len(memdump'[m].dumps) = ReadsSince(e, b)'
    BY <2>6, <2>8, <2>9, <2>10
  <2>14. pack'[g] = pack[g] /\ pack'[g].address = b
    BY <2>4
  <2> QED
    BY <2>9, <2>11, <2>12, <2>13, <2>14 DEF InjectTold
<1>10. ASSUME NEW m \in base + 1 .. n PROVE \E e \in MemoryInjections : RegionOf(e)' = m
  <2>1. PICK e \in MemoryInjections : RegionOf(e) = m
    BY <1>3 DEF Collected
  <2>2. e \in 1 .. z
    BY <1>1, MemoryEventTyped DEF MemoryInjections
  <2> QED
    BY <1>4, <2>1, <2>2
<1>11. ASSUME NEW k \in MemoryEvents \ MemoryInjections, NEW e \in MemoryInjections,
              events[e].fault = events[k].fault
       PROVE  ReverseTold(k, e)'
  <2>1. e \in 1 .. z /\ k \in 1 .. z /\ events[k].fault \in Faults
    BY <1>1, MemoryEventTyped DEF MemoryInjections
  <2>2. PICK g \in Faults : g = events[k].fault
    BY <2>1
  <2>3. PICK m : m = RegionOf(e)
    OBVIOUS
  <2>4. PICK b : b = pack[g].address
    OBVIOUS
  <2>5. PICK w \in Nat : w = Weight(kind, f, b)
    BY <1>1, <1>7
  <2>6. m \in base + 1 .. n /\ memdump[m].address = b
    BY <1>3, <1>11, <2>2, <2>3, <2>4 DEF Collected, InjectTold
  <2>7. m \in 1 .. n
    BY <1>5, <2>6
  <2>8. PICK l \in Nat : l = Len(memdump[m].dumps)
    BY <1>6, <2>7
  <2>9. PICK c \in Nat : c = ReadsSince(k, b)
    <3>1. ReadsSince(k, b) \in Nat
      BY <1>7, <2>1
    <3> QED
      BY <3>1
  <2>10. PICK i0 : i0 = l - c + 1
    OBVIOUS
  <2>11. /\ i0 \in 1 .. l
         /\ InRam(b, MaskBytes) => \A i \in Offset :
              GivenBack(pack[g], i, memdump[m].dumps[1][i], memdump[m].dumps[i0][i])
    <3>1. ReverseTold(k, e)
      BY <1>11, <2>2 DEF Collected
    <3> QED
      BY <2>2, <2>3, <2>4, <2>8, <2>9, <2>10, <3>1 DEF ReverseTold
  <2>12. /\ Len(memdump'[m].dumps) = l + w
         /\ \A j \in 1 .. l : memdump'[m].dumps[j] = memdump[m].dumps[j]
    <3>1. Grown(memdump[m], memdump'[m], w)
      BY <1>6, <2>5, <2>6, <2>7
    <3> QED
      BY <2>8, <3>1, GrownKeeps
  <2>13. 1 \in 1 .. l
    BY <2>11
  <2>14. /\ memdump'[m].dumps[1] = memdump[m].dumps[1]
         /\ memdump'[m].dumps[i0] = memdump[m].dumps[i0]
    BY <2>11, <2>12, <2>13
  <2>15. ReadsSince(k, b)' = c + w
    BY <1>7, <2>1, <2>5, <2>9
  <2>16. Len(memdump'[m].dumps) - ReadsSince(k, b)' + 1 = i0
    BY <2>10, <2>12, <2>15
  <2>17. RegionOf(e)' = m /\ events'[k].fault = g /\ pack'[g] = pack[g] /\ pack'[g].address = b
    BY <1>2, <1>4, <2>1, <2>2, <2>3, <2>4
  <2>18. i0 \in 1 .. Len(memdump'[m].dumps)
    BY <2>11, <2>12
  <2> QED
    BY <2>11, <2>14, <2>16, <2>17, <2>18, SMTT(30) DEF ReverseTold
<1> QED
  BY <1>3, <1>8, <1>9, <1>10, <1>11

-----------------------------------------------------------------------------
(* Sequences defined by their elements. *)
LEMMA SeqOfElements ==
  ASSUME NEW S, NEW n \in Nat, NEW t \in [1 .. n -> S]
  PROVE  t \in Seq(S) /\ Len(t) = n /\ DOMAIN t = 1 .. n
OBVIOUS

(* The regions at an address are read once, the others are left alone      *)
(* (read_specific_memoryregion).                                           *)
LEMMA ReadSpecific ==
  ASSUME NEW regions \in Seq(Region), NEW n, n = Len(regions),
         \A m \in 1 .. n : RegionSound(regions[m]),
         NEW a, NEW mem \in [Cells -> Byte], NEW t, t = read_specific_memoryregion(regions, a, mem)
  PROVE  /\ t \in Seq(Region) /\ Len(t) = n
         /\ \A m \in 1 .. n :
              /\ RegionSound(t[m])
              /\ regions[m].address # a => t[m] = regions[m]
              /\ regions[m].address = a =>
                   /\ Grown(regions[m], t[m], 1)
                   /\ t[m].dumps[Len(regions[m].dumps) + 1] =
                        Contents(mem, regions[m].address, regions[m].len)
<1>1. n \in Nat /\ DOMAIN regions = 1 .. n
  BY LenProperties
<1>2. t = [k \in 1 .. n |-> IF regions[k].address = a THEN read_memoryregion(regions[k], mem)
                            ELSE regions[k]]
  BY <1>1 DEF read_specific_memoryregion
<1>3. ASSUME NEW m \in 1 .. n
      PROVE  /\ RegionSound(t[m])
             /\ regions[m].address # a => t[m] = regions[m]
             /\ regions[m].address = a =>
                  /\ Grown(regions[m], t[m], 1)
                  /\ t[m].dumps[Len(regions[m].dumps) + 1] =
                       Contents(mem, regions[m].address, regions[m].len)
  <2>1. CASE regions[m].address = a
    <3>1. t[m] = read_memoryregion(regions[m], mem)
      BY <1>2, <2>1
    <3>2. Grown(regions[m], t[m], 1) /\ t[m].dumps[Len(regions[m].dumps) + 1] =
            Contents(mem, regions[m].address, regions[m].len)
      BY <3>1, ReadOnce
    <3> QED
      BY <2>1, <3>2 DEF Grown
  <2>2. CASE regions[m].address # a
    BY <1>2, <2>2
  <2> QED
    BY <2>1, <2>2
<1>4. \A m \in 1 .. n : t[m] \in Region
  BY <1>3 DEF RegionSound
<1>5. t \in [1 .. n -> Region]
  BY <1>2, <1>4
<1> QED
  BY <1>1, <1>3, <1>5, SeqOfElements

LEMMA AddRegisterDump ==
  ASSUME NEW tbcount, NEW regs, add_new_registerdump(tbcount, regs),
         NEW S, registerdumps \in Seq(S), NEW n, n = Len(registerdumps)
  PROVE  /\ \E T : registerdumps' \in Seq(T)
         /\ Len(registerdumps') = n + 1 /\ registerdumps'[1].regs = regs
<1> DEFINE e == [tbcount |-> tbcount, regs |-> regs]
           T == S \cup {e}
<1>1. registerdumps \in Seq(T)
  BY SeqMonotonic
<1>2. <<e>> \in Seq(T) /\ Len(<<e>>) = 1 /\ <<e>>[1] = e
  OBVIOUS
<1>3. n \in Nat
  BY LenProperties
<1>4. e.regs = regs
  OBVIOUS
<1> HIDE DEF e, T
<1>5. /\ <<e>> \o registerdumps \in Seq(T) /\ Len(<<e>> \o registerdumps) = 1 + n
      /\ (<<e>> \o registerdumps)[1] = e
  BY <1>1, <1>2, <1>3, ConcatProperties
<1>6. registerdumps' = <<e>> \o registerdumps
  BY DEF add_new_registerdump, e
<1> QED
  BY <1>3, <1>4, <1>5, <1>6

LEMMA ControlInit == Init => ControlSound
<1> SUFFICES ASSUME Init PROVE ControlSound
  OBVIOUS
<1>1. AccessesSound
  BY FS_EmptySet DEF Init, AccessesSound
<1> QED
  BY <1>1, ExperimentAssumption DEF Init, ControlSound

(* The vector at the start (init_memory). *)
LEMMA CollectedInit == Init => Collected
<1> SUFFICES ASSUME Init PROVE Collected
  OBVIOUS
<1>1. ControlSound /\ EventsSound
  BY ControlInit, EventsInit
<1>2. PICK n \in Nat : n = Len(control.regions) /\ DOMAIN control.regions = 1 .. n
  BY <1>1, LenProperties DEF ControlSound
<1>3. ASSUME NEW m \in 1 .. n
      PROVE  /\ memdump[m] = NewRegion(control.regions[m].address, control.regions[m].len)
             /\ control.regions[m].address \in Nat /\ control.regions[m].len \in Nat
             /\ RegionSound(memdump[m]) /\ memdump[m].address = control.regions[m].address
             /\ memdump[m].len = control.regions[m].len /\ Len(memdump[m].dumps) = 0
  <2>1. control.regions[m] \in [address : Nat, len : Nat]
    BY <1>1, <1>2, ElementOfSeq DEF ControlSound
  <2>2. memdump[m] = NewRegion(control.regions[m].address, control.regions[m].len)
    BY <1>2 DEF Init
  <2> QED
    BY <2>1, <2>2, NewRegionSound
<1>4. memdump \in [1 .. n -> Region]
  <2>1. \A m \in 1 .. n : memdump[m] \in Region
    BY <1>3 DEF RegionSound
  <2> QED
    BY <1>2, <2>1 DEF Init
<1>5. memdump \in Seq(Region) /\ Len(memdump) = n
  BY <1>4, SeqOfElements
<1>6. events = <<>> /\ Len(events) = 0 /\ DOMAIN events = {}
  BY DEF Init
<1>7. MemoryEvents = {} /\ MemoryInjections = {} /\ Cardinality(MemoryInjections) = 0
  BY <1>6, FS_EmptySet DEF MemoryEvents, MemoryInjections
<1>8. ASSUME NEW m \in 1 .. n PROVE Configured(m)
  <2>1. ReadsSince(1, memdump[m].address) = 0
    BY <1>1, <1>6, NoReadsYet
  <2> QED
    BY <1>3, <2>1 DEF Configured
<1>9. num_memdump \in Nat /\ n <= num_memdump
  BY <1>2 DEF Init
<1>10. Len(registerdumps) = Len(events) /\ \E S : registerdumps \in Seq(S)
  <2>1. <<>> \in Seq({}) /\ registerdumps = <<>>
    BY EmptySeq DEF Init
  <2> QED
    BY <1>6, <2>1
<1> QED
  BY <1>2, <1>3, <1>5, <1>7, <1>8, <1>9, <1>10 DEF Collected

-----------------------------------------------------------------------------
(* What an injection writes and saves within RAM. *)
LEMMA InjectionInRam ==
  ASSUME GuestTypes, NEW f \in Faults, InjectMemory(f), NEW a, a = pack[f].address,
         InRam(a, MaskBytes), NEW i \in Offset
  PROVE  /\ Contents(memory', a, MaskBytes)[i] =
              InjectedByte(pack[f], i, Contents(memory, a, MaskBytes)[i])
         /\ restoremask'[f][i] = RestoreByte(pack[f], i, Contents(memory, a, MaskBytes)[i])
<1>1. a \in Nat /\ pack[f] \in FaultConf /\ pack[f].num_bytes \in Nat
  BY DEF GuestTypes, FaultConf
<1>2. /\ IsMemory(f) /\ memory' = inject_memory_fault(f)
      /\ restoremask' = [restoremask EXCEPT ![f] = SavedBytes(f)]
  BY DEF InjectMemory
<1>3. Written(f)
  <2>1. NumBytes(pack[f]) <= MaskBytes /\ NumBytes(pack[f]) \in Nat
    BY <1>1, WidthAssumption DEF NumBytes, Lower
  <2>2. Window(a, NumBytes(pack[f])) \subseteq Window(a, MaskBytes)
    BY <1>1, <2>1, WidthAssumption DEF Window
  <2> QED
    BY <2>2 DEF Written, InRam
<1>4. a + i \in Window(a, MaskBytes) /\ (a + i) - a = i
  BY <1>1, WidthAssumption DEF Window, Offset
<1>5. a + i \in Cells
  BY <1>4 DEF InRam
<1>6. memory'[a + i] = InjectedByte(pack[f], i, memory[a + i])
  BY <1>2, <1>3, <1>4, <1>5 DEF inject_memory_fault
<1>7. restoremask'[f][i] = RestoreByte(pack[f], i, memory[a + i])
  <2>1. SavedBytes(f)[i] = RestoreByte(pack[f], i, memory[a + i])
    BY <1>3, <1>5 DEF SavedBytes
  <2>2. restoremask'[f] = SavedBytes(f)
    BY <1>2 DEF GuestTypes
  <2> QED
    BY <2>1, <2>2
<1>8. i \in 0 .. MaskBytes - 1
  BY DEF Offset
<1>9. Contents(memory, a, MaskBytes)[i] = memory[a + i]
  BY <1>8 DEF Contents
<1>10. Contents(memory', a, MaskBytes)[i] = memory'[a + i]
  BY <1>8 DEF Contents
<1> QED
  BY <1>6, <1>7, <1>9, <1>10

(* What a reversal leaves of the masked bits within RAM. *)
LEMMA ReversalInRam ==
  ASSUME GuestTypes, NEW f \in Faults, ReverseMemory(f),
         NEW a, a = pack[f].address, InRam(a, MaskBytes), NEW i \in Offset
  PROVE  /\ Contents(memory', a, MaskBytes)[i] \cap pack[f].mask[i]
              = restoremask[f][i] \cap pack[f].mask[i]
         /\ restoremask[f][i] \subseteq Contents(memory', a, MaskBytes)[i]
<1>1. a \in Nat
  BY DEF GuestTypes, FaultConf
<1>2. memory' = ReversedMemory(f)
  BY DEF ReverseMemory
<1>3. a + i \in Window(a, MaskBytes) /\ (a + i) - a = i
  BY <1>1, WidthAssumption DEF Window, Offset
<1>4. a + i \in Cells
  BY <1>3 DEF InRam
<1>5. memory'[a + i] = (memory[a + i] \ pack[f].mask[i]) \cup restoremask[f][i]
  BY <1>2, <1>3, <1>4 DEF ReversedMemory, process_reverse_fault
<1>6. i \in 0 .. MaskBytes - 1
  BY DEF Offset
<1>7. Contents(memory', a, MaskBytes)[i] = memory'[a + i]
  BY <1>6 DEF Contents
<1> QED
  BY <1>5, <1>7

(* An injection opens a region, which tells of it. *)
LEMMA InjectMemoryCollected ==
  ASSUME GuestTypes, GuestTypes', EventsSound, ControlSound, Collected,
         NEW f \in Faults, InjectMemory(f)
  PROVE  Collected'
<1>1. PICK a \in Nat : a = pack[f].address
  BY DEF GuestTypes, FaultConf
<1>2. PICK N \in Nat : N = Len(memdump)
  BY LenProperties DEF Collected
<1>3. PICK r1 : r1 = insert_memorydump_config(memdump, a, MaskBytes)
  OBVIOUS
<1>4. PICK r2 : r2 = read_specific_memoryregion(r1, a, memory)
  OBVIOUS
<1>5. /\ Happens("inject", f) /\ pack' = pack /\ control' = control
      /\ IsMemory(f) /\ status[f] = "waiting"
      /\ restoremask' = [restoremask EXCEPT ![f] = SavedBytes(f)]
      /\ memdump' = read_specific_memoryregion(r2, a, memory')
      /\ num_memdump' = Room(r1)
      /\ add_new_registerdump(trignum'[f], registers)
  BY <1>1, <1>3, <1>4 DEF InjectMemory, BecomesLive, Event, Happens, experiment
<1>6. /\ memory \in [Cells -> Byte] /\ memory' \in [Cells -> Byte]
      /\ MaskBytes \in Nat
  BY WidthAssumption DEF GuestTypes
<1>7. PICK new : /\ new = NewRegion(a, MaskBytes) /\ RegionSound(new) /\ new.address = a
                 /\ new.len = MaskBytes /\ Len(new.dumps) = 0
  BY <1>6, NewRegionSound
<1>8. /\ r1 \in Seq(Region) /\ Len(r1) = N + 1 /\ r1[N + 1] = new
      /\ \A m \in 1 .. N : r1[m] = memdump[m]
      /\ \A m \in 1 .. N + 1 : RegionSound(r1[m])
  <2>1. new \in Region /\ memdump \in Seq(Region) /\ \A m \in 1 .. N : RegionSound(memdump[m])
    BY <1>2, <1>7 DEF RegionSound, Collected
  <2>2. r1 = Append(memdump, new)
    BY <1>3, <1>7 DEF insert_memorydump_config
  <2>3. /\ r1 \in Seq(Region) /\ Len(r1) = N + 1 /\ r1[N + 1] = new
        /\ \A m \in 1 .. N : r1[m] = memdump[m]
    BY <1>2, <2>1, <2>2, AppendProperties
  <2> QED
    BY <1>7, <2>1, <2>3
<1>9. /\ r2 \in Seq(Region) /\ Len(r2) = N + 1
      /\ \A m \in 1 .. N + 1 :
           /\ RegionSound(r2[m])
           /\ r1[m].address # a => r2[m] = r1[m]
           /\ r1[m].address = a =>
                /\ Grown(r1[m], r2[m], 1)
                /\ r2[m].dumps[Len(r1[m].dumps) + 1] =
                     Contents(memory, r1[m].address, r1[m].len)
  BY <1>4, <1>6, <1>8, ReadSpecific
<1>10. /\ memdump' \in Seq(Region) /\ Len(memdump') = N + 1
       /\ \A m \in 1 .. N + 1 :
            /\ RegionSound(memdump'[m])
            /\ r2[m].address # a => memdump'[m] = r2[m]
            /\ r2[m].address = a =>
                 /\ Grown(r2[m], memdump'[m], 1)
                 /\ memdump'[m].dumps[Len(r2[m].dumps) + 1] =
                      Contents(memory', r2[m].address, r2[m].len)
  BY <1>5, <1>6, <1>9, ReadSpecific
<1>11. ASSUME NEW m \in 1 .. N
       PROVE  Grown(memdump[m], memdump'[m], Weight("inject", f, memdump[m].address))
  <2>1. m \in 1 .. N + 1 /\ r1[m] = memdump[m] /\ RegionSound(memdump[m])
    BY <1>8
  <2>2. CASE memdump[m].address = a
    <3>1. Grown(memdump[m], r2[m], 1) /\ r2[m].address = a
      <4>1. Grown(r1[m], r2[m], 1)
        BY <1>9, <2>1, <2>2
      <4>2. Grown(memdump[m], r2[m], 1)
        BY <2>1, <4>1
      <4> QED
        BY <2>2, <4>2, GrownKeeps
    <3>2. Grown(r2[m], memdump'[m], 1)
      BY <1>10, <2>1, <3>1
    <3>3. Weight("inject", f, memdump[m].address) = 2
      BY <1>1, <1>5, <2>2 DEF Weight
    <3> QED
      BY <2>1, <3>1, <3>2, <3>3, GrownTwice
  <2>3. CASE memdump[m].address # a
    <3>1. memdump'[m] = memdump[m]
      BY <1>9, <1>10, <2>1, <2>3
    <3>2. Weight("inject", f, memdump[m].address) = 0
      BY <1>1, <2>3 DEF Weight
    <3> QED
      BY <2>1, <3>1, <3>2, NotGrown
  <2> QED
    BY <2>2, <2>3
<1>12. \A g \in Faults : status[g] # "waiting" => restoremask'[g] = restoremask[g]
  BY <1>5 DEF GuestTypes
<1>13. /\ \A m \in 1 .. Len(control.regions) : Configured(m)'
       /\ \A e \in MemoryInjections : InjectTold(e)'
       /\ \A m \in Len(control.regions) + 1 .. N :
            \E e \in MemoryInjections : RegionOf(e)' = m
       /\ \A k \in MemoryEvents \ MemoryInjections : \A e \in MemoryInjections :
            events[e].fault = events[k].fault => ReverseTold(k, e)'
  BY <1>2, <1>5, <1>10, <1>11, <1>12, ToldKept
<1>14. PICK z \in Nat : z = Len(events) /\ DOMAIN events = 1 .. z
  BY LenProperties DEF EventsSound
<1>15. /\ \A k \in 1 .. z : events'[k] = events[k]
       /\ Len(events') = z + 1
       /\ events'[z + 1].kind = "inject" /\ events'[z + 1].fault = f
  BY <1>5, <1>14, EventsAppended DEF Happens
<1>16. /\ MemoryEvents' = MemoryEvents \cup {z + 1}
       /\ MemoryInjections' = MemoryInjections \cup {z + 1}
  BY <1>5, <1>14, SetsGrow
<1>17. PICK base \in Nat : base = Len(control.regions)
  BY LenProperties DEF ControlSound
<1>18. /\ Cardinality(MemoryInjections') = Cardinality(MemoryInjections) + 1
       /\ RegionOf(z + 1)' = base + Cardinality(MemoryInjections')
       /\ Cardinality(MemoryInjections) \in Nat
  BY <1>5, <1>14, <1>17, RegionsNumbered
<1>19. N = base + Cardinality(MemoryInjections) /\ RegionOf(z + 1)' = N + 1 /\ base <= N
       /\ Len(memdump') = base + Cardinality(MemoryInjections')
  <2>1. PICK c \in Nat : c = Cardinality(MemoryInjections)
    BY <1>18
  <2>2. N = base + c
    BY <1>2, <1>17, <2>1 DEF Collected
  <2>3. RegionOf(z + 1)' = base + (c + 1) /\ Cardinality(MemoryInjections') = c + 1
    BY <1>18, <2>1
  <2>4. Len(memdump') = N + 1
    BY <1>10
  <2> QED
    BY <2>1, <2>2, <2>3, <2>4
<1>20. InjectTold(z + 1)'
  <2>1. /\ Grown(new, r2[N + 1], 1) /\ r2[N + 1].dumps[1] = Contents(memory, a, MaskBytes)
    <3>1. N + 1 \in 1 .. N + 1 /\ r1[N + 1] = new
      BY <1>8
    <3>2. PICK n \in 1 .. N + 1 : n = N + 1
      BY <3>1
    <3>3. r1[n] = new /\ new.address = a /\ new.len = MaskBytes /\ Len(new.dumps) + 1 = 1
      BY <1>7, <3>1, <3>2
    <3>4. Grown(r1[n], r2[n], 1)
      BY <1>9, <3>3
    <3>5. r2[n].dumps[Len(r1[n].dumps) + 1] = Contents(memory, r1[n].address, r1[n].len)
      BY <1>9, <3>3
    <3> QED
      BY <3>2, <3>3, <3>4, <3>5
  <2>2. r2[N + 1].address = a /\ r2[N + 1].len = MaskBytes /\ Len(r2[N + 1].dumps) = 1
    BY <1>7, <2>1 DEF Grown
  <2>3. /\ Grown(r2[N + 1], memdump'[N + 1], 1)
        /\ memdump'[N + 1].dumps[2] = Contents(memory', a, MaskBytes)
    <3>1. N + 1 \in 1 .. N + 1 /\ Len(r2[N + 1].dumps) + 1 = 2
      BY <2>2
    <3>2. /\ Grown(r2[N + 1], memdump'[N + 1], 1)
          /\ memdump'[N + 1].dumps[Len(r2[N + 1].dumps) + 1] =
               Contents(memory', r2[N + 1].address, r2[N + 1].len)
      BY <1>10, <2>2, <3>1
    <3> QED
      BY <2>2, <3>1, <3>2
  <2>4. /\ memdump'[N + 1].address = a /\ memdump'[N + 1].len = MaskBytes
        /\ Len(memdump'[N + 1].dumps) = 2
        /\ memdump'[N + 1].dumps[1] = Contents(memory, a, MaskBytes)
    <3>1. 1 \in 1 .. Len(r2[N + 1].dumps)
      BY <2>2
    <3>2. /\ memdump'[N + 1].address = r2[N + 1].address /\ memdump'[N + 1].len = r2[N + 1].len
          /\ Len(memdump'[N + 1].dumps) = Len(r2[N + 1].dumps) + 1
          /\ memdump'[N + 1].dumps[1] = r2[N + 1].dumps[1]
      <4>1. PICK u, v : u = r2[N + 1] /\ v = memdump'[N + 1]
        OBVIOUS
      <4>2. Grown(u, v, 1) /\ 1 \in 1 .. Len(u.dumps)
        BY <2>3, <3>1, <4>1
      <4>3. v.address = u.address /\ v.len = u.len /\ Len(v.dumps) = Len(u.dumps) + 1
            /\ v.dumps[1] = u.dumps[1]
        BY <4>2, GrownKeeps
      <4> QED
        BY <4>1, <4>3, Zenon
    <3> QED
      BY <2>1, <2>2, <3>2
  <2>5. ReadsSince(z + 1, a)' = 2
    <3>1. z + 1 \in 1 .. Len(events) + 1 /\ ReadsSince(z + 1, a) = 0
      BY <1>14, NoReadsYet
    <3>2. Weight("inject", f, a) = 2
      BY <1>1, <1>5 DEF Weight
    <3>3. ReadsSince(z + 1, a)' = ReadsSince(z + 1, a) + Weight("inject", f, a)
      BY <1>5, <3>1, ReadsGrow
    <3> QED
      BY <3>1, <3>2, <3>3
  <2>6. InRam(a, MaskBytes) => \A i \in Offset :
          /\ memdump'[N + 1].dumps[2][i] = InjectedByte(pack[f], i, memdump'[N + 1].dumps[1][i])
          /\ restoremask'[f][i] = RestoreByte(pack[f], i, memdump'[N + 1].dumps[1][i])
    BY <1>1, <2>3, <2>4, InjectionInRam
  <2>7. RegionOf(z + 1)' \in Len(control'.regions) + 1 .. Len(memdump')
    BY <1>5, <1>10, <1>17, <1>19
  <2>8. pack'[f] = pack[f] /\ pack'[f].address = a
    BY <1>1, <1>5
  <2>9. PICK e : e = z + 1
    OBVIOUS
  <2>10. PICK m : m = N + 1
    OBVIOUS
  <2>11. /\ RegionOf(e)' = m /\ events'[e].fault = f /\ ReadsSince(e, a)' = 2
         /\ m \in Len(control'.regions) + 1 .. Len(memdump')
    BY <1>15, <1>19, <2>5, <2>7, <2>9, <2>10
  <2>12. /\ memdump'[m].address = a /\ memdump'[m].len = MaskBytes
         /\ Len(memdump'[m].dumps) = 2
         /\ InRam(a, MaskBytes) => \A i \in Offset :
              /\ memdump'[m].dumps[2][i] = InjectedByte(pack[f], i, memdump'[m].dumps[1][i])
              /\ restoremask'[f][i] = RestoreByte(pack[f], i, memdump'[m].dumps[1][i])
    BY <2>4, <2>6, <2>10
  <2>13. InjectTold(e)'
    BY <2>8, <2>11, <2>12 DEF InjectTold
  <2> QED
    BY <2>9, <2>13
<1>21. \A e \in MemoryInjections' : InjectTold(e)'
  BY <1>13, <1>16, <1>20
<1>22. \A m \in Len(control'.regions) + 1 .. N + 1 : \E e \in MemoryInjections' : RegionOf(e)' = m
  <2> SUFFICES ASSUME NEW m \in base + 1 .. N + 1
               PROVE  \E e \in MemoryInjections' : RegionOf(e)' = m
    BY <1>5, <1>17
  <2>1. CASE m = N + 1
    BY <1>16, <1>19, <2>1
  <2>2. CASE m \in base + 1 .. N
    BY <1>13, <1>16, <1>17, <2>2
  <2> QED
    BY <2>1, <2>2
<1>23. ASSUME NEW k \in MemoryEvents' \ MemoryInjections', NEW e \in MemoryInjections',
              events'[e].fault = events'[k].fault
       PROVE  ReverseTold(k, e)'
  <2>1. k \in MemoryEvents \ MemoryInjections
    BY <1>16
  <2>2. k \in 1 .. z /\ events[k].fault # f
    BY <1>5, <1>14, <2>1, MemoryEventTyped
  <2>3. e \in MemoryInjections
    BY <1>15, <1>16, <1>23, <2>2
  <2>4. e \in 1 .. z
    BY <1>14, <2>3, MemoryEventTyped DEF MemoryInjections
  <2> QED
    BY <1>13, <1>15, <1>23, <2>1, <2>2, <2>3, <2>4
<1>24. num_memdump' \in Nat /\ N + 1 <= num_memdump'
  BY <1>5, <1>8 DEF Room, Collected
<1>25. Len(registerdumps') = Len(events') /\ \E S : registerdumps' \in Seq(S)
  <2>1. PICK S : registerdumps \in Seq(S)
    BY DEF Collected
  <2>2. Len(registerdumps) = z
    BY <1>14 DEF Collected
  <2> QED
    BY <1>5, <1>15, <2>1, <2>2, AddRegisterDump
<1>26. /\ num_memdump' \in Nat /\ memdump' \in Seq(Region) /\ Len(memdump') <= num_memdump'
       /\ \A m \in 1 .. Len(memdump') : RegionSound(memdump'[m])
       /\ Len(memdump') = Len(control'.regions) + Cardinality(MemoryInjections')
       /\ \A m \in 1 .. Len(control'.regions) : Configured(m)'
       /\ \A m \in Len(control'.regions) + 1 .. Len(memdump') :
            \E e \in MemoryInjections' : RegionOf(e)' = m
  BY <1>5, <1>10, <1>13, <1>17, <1>19, <1>22, <1>24
<1> QED
  BY <1>21, <1>23, <1>25, <1>26 DEF Collected

(* A reversal reads the regions at the address of its fault once more; the  *)
(* last dump of the one its injection opened has the masked bits restored.  *)
LEMMA ReverseMemoryCollected ==
  ASSUME GuestTypes, GuestTypes', EventsSound, ControlSound, Collected,
         NEW f \in Faults, ReverseMemory(f)
  PROVE  Collected'
<1>1. PICK a \in Nat : a = pack[f].address
  BY DEF GuestTypes, FaultConf
<1>2. PICK N \in Nat : N = Len(memdump)
  BY LenProperties DEF Collected
<1>3. /\ Happens("reverse", f) /\ pack' = pack /\ control' = control
      /\ IsMemory(f) /\ restoremask' = restoremask /\ num_memdump' = num_memdump
      /\ memdump' = read_specific_memoryregion(memdump, a, memory')
      /\ add_new_registerdump(trignum[f], registers)
  BY <1>1 DEF ReverseMemory, Event, Happens, experiment
<1>4. memory' \in [Cells -> Byte]
  BY DEF GuestTypes
<1>5. /\ memdump \in Seq(Region) /\ \A m \in 1 .. N : RegionSound(memdump[m])
      /\ num_memdump \in Nat /\ N <= num_memdump
  BY <1>2 DEF Collected
<1>6. /\ memdump' \in Seq(Region) /\ Len(memdump') = N
      /\ \A m \in 1 .. N :
           /\ RegionSound(memdump'[m])
           /\ memdump[m].address # a => memdump'[m] = memdump[m]
           /\ memdump[m].address = a =>
                /\ Grown(memdump[m], memdump'[m], 1)
                /\ memdump'[m].dumps[Len(memdump[m].dumps) + 1] =
                     Contents(memory', memdump[m].address, memdump[m].len)
  BY <1>2, <1>3, <1>4, <1>5, ReadSpecific
<1>7. ASSUME NEW m \in 1 .. N
      PROVE  Grown(memdump[m], memdump'[m], Weight("reverse", f, memdump[m].address))
  <2>1. CASE memdump[m].address = a
    BY <1>1, <1>3, <1>6, <2>1 DEF Weight
  <2>2. CASE memdump[m].address # a
    <3>1. memdump'[m] = memdump[m] /\ Weight("reverse", f, memdump[m].address) = 0
      BY <1>1, <1>6, <2>2 DEF Weight
    <3> QED
      BY <1>5, <3>1, NotGrown
  <2> QED
    BY <2>1, <2>2
<1>8. /\ \A m \in 1 .. Len(control.regions) : Configured(m)'
      /\ \A e \in MemoryInjections : InjectTold(e)'
      /\ \A m \in Len(control.regions) + 1 .. N :
           \E e \in MemoryInjections : RegionOf(e)' = m
      /\ \A k \in MemoryEvents \ MemoryInjections : \A e \in MemoryInjections :
           events[e].fault = events[k].fault => ReverseTold(k, e)'
  BY <1>2, <1>3, <1>6, <1>7, ToldKept
<1>9. PICK z \in Nat : z = Len(events) /\ DOMAIN events = 1 .. z
  BY LenProperties DEF EventsSound
<1>10. /\ \A k \in 1 .. z : events'[k] = events[k]
       /\ Len(events') = z + 1
       /\ events'[z + 1].kind = "reverse" /\ events'[z + 1].fault = f
  BY <1>3, <1>9, EventsAppended DEF Happens
<1>11. /\ MemoryEvents' = MemoryEvents \cup {z + 1}
       /\ MemoryInjections' = MemoryInjections
  <2>1. MemoryEvents' = MemoryEvents \cup {z + 1}
    BY <1>3, <1>9, SetsGrow
  <2>2. MemoryInjections' = MemoryInjections
    BY <1>3, InjectionsKept
  <2> QED
    BY <2>1, <2>2
<1>12. ASSUME NEW e \in MemoryInjections, events[e].fault = f
       PROVE  ReverseTold(z + 1, e)'
  <2>1. PICK m : m = RegionOf(e)
    OBVIOUS
  <2>2. e \in 1 .. z
    BY <1>9, MemoryEventTyped DEF MemoryInjections
  <2>3. RegionOf(e)' = m
    <3>1. Len(control.regions) \in Nat
      BY LenProperties DEF ControlSound
    <3> QED
      BY <1>3, <1>9, <2>1, <2>2, <3>1, RegionsNumbered
  <2>4. /\ m \in Len(control.regions) + 1 .. N /\ memdump[m].address = a
        /\ memdump[m].len = MaskBytes /\ Len(memdump[m].dumps) >= 2
        /\ InRam(a, MaskBytes) => \A i \in Offset :
             restoremask[f][i] = RestoreByte(pack[f], i, memdump[m].dumps[1][i])
    BY <1>1, <1>2, <1>12, <2>1 DEF Collected, InjectTold
  <2>5. m \in 1 .. N
    <3>1. Len(control.regions) \in Nat
      BY LenProperties DEF ControlSound
    <3> QED
      BY <2>4, <3>1
  <2>6. PICK l \in Nat : l = Len(memdump[m].dumps)
    BY <1>5, <2>5, GrownLen
  <2>7. /\ Len(memdump'[m].dumps) = l + 1
        /\ memdump'[m].dumps[1] = memdump[m].dumps[1]
        /\ memdump'[m].dumps[l + 1] = Contents(memory', a, MaskBytes)
    <3>1. Grown(memdump[m], memdump'[m], 1)
      BY <1>6, <2>4, <2>5
    <3>2. memdump'[m].dumps[l + 1] = Contents(memory', a, MaskBytes)
      BY <1>6, <2>4, <2>5, <2>6
    <3>3. 1 \in 1 .. l
      BY <2>4, <2>6
    <3>4. /\ Len(memdump'[m].dumps) = Len(memdump[m].dumps) + 1
          /\ \A j \in 1 .. Len(memdump[m].dumps) : memdump'[m].dumps[j] = memdump[m].dumps[j]
      BY <3>1 DEF Grown
    <3> QED
      BY <2>6, <3>2, <3>3, <3>4
  <2>8. PICK k : k = z + 1
    OBVIOUS
  <2>9. ReadsSince(k, a)' = 1
    <3>1. z + 1 \in 1 .. Len(events) + 1 /\ ReadsSince(z + 1, a) = 0
      BY <1>9, NoReadsYet
    <3>2. Weight("reverse", f, a) = 1
      BY <1>1, <1>3 DEF Weight
    <3>3. ReadsSince(z + 1, a)' = ReadsSince(z + 1, a) + Weight("reverse", f, a)
      BY <1>3, <3>1, ReadsGrow
    <3> QED
      BY <2>8, <3>1, <3>2, <3>3
  <2>10. PICK n : n = l + 1
    OBVIOUS
  <2>11. Len(memdump'[m].dumps) - ReadsSince(k, a)' + 1 = n /\ n \in 1 .. Len(memdump'[m].dumps)
    BY <2>7, <2>9, <2>10
  <2>12. InRam(a, MaskBytes) => \A i \in Offset :
           GivenBack(pack[f], i, memdump'[m].dumps[1][i], memdump'[m].dumps[n][i])
    <3> SUFFICES ASSUME InRam(a, MaskBytes), NEW i \in Offset
                 PROVE  GivenBack(pack[f], i, memdump'[m].dumps[1][i], memdump'[m].dumps[n][i])
      OBVIOUS
    <3>1. /\ Contents(memory', a, MaskBytes)[i] \cap pack[f].mask[i]
               = restoremask[f][i] \cap pack[f].mask[i]
          /\ restoremask[f][i] \subseteq Contents(memory', a, MaskBytes)[i]
      BY <1>1, ReversalInRam
    <3>2. restoremask[f][i] = RestoreByte(pack[f], i, memdump'[m].dumps[1][i])
      BY <2>4, <2>7
    <3>3. memdump'[m].dumps[n] = Contents(memory', a, MaskBytes)
      BY <2>7, <2>10
    <3> QED
      BY <3>1, <3>2, <3>3 DEF GivenBack
  <2>13. events'[k].fault = f /\ pack'[f] = pack[f] /\ pack'[f].address = a
    BY <1>1, <1>3, <1>10, <2>8
  <2>14. ReverseTold(k, e)'
    BY <2>3, <2>11, <2>12, <2>13 DEF ReverseTold
  <2> QED
    BY <2>8, <2>14
<1>13. ASSUME NEW k \in MemoryEvents' \ MemoryInjections', NEW e \in MemoryInjections',
              events'[e].fault = events'[k].fault
       PROVE  ReverseTold(k, e)'
  <2>1. e \in MemoryInjections
    BY <1>11
  <2>2. e \in 1 .. z
    BY <1>9, <2>1, MemoryEventTyped DEF MemoryInjections
  <2>3. CASE k = z + 1
    BY <1>10, <1>12, <1>13, <2>1, <2>2, <2>3
  <2>4. CASE k \in MemoryEvents \ MemoryInjections
    <3>1. k \in 1 .. z
      BY <1>9, <2>4, MemoryEventTyped
    <3> QED
      BY <1>8, <1>10, <1>13, <2>1, <2>2, <2>4, <3>1
  <2> QED
    BY <1>11, <2>3, <2>4
<1>14. /\ \A e \in MemoryInjections' : InjectTold(e)'
       /\ \A m \in 1 .. Len(control'.regions) : Configured(m)'
       /\ \A m \in Len(control'.regions) + 1 .. Len(memdump') :
            \E e \in MemoryInjections' : RegionOf(e)' = m
  BY <1>3, <1>6, <1>8, <1>11
<1>15. Len(registerdumps') = Len(events') /\ \E S : registerdumps' \in Seq(S)
  <2>1. PICK S : registerdumps \in Seq(S)
    BY DEF Collected
  <2>2. Len(registerdumps) = z
    BY <1>9 DEF Collected
  <2> QED
    BY <1>3, <1>10, <2>1, <2>2, AddRegisterDump
<1>16. /\ num_memdump' \in Nat /\ memdump' \in Seq(Region) /\ Len(memdump') <= num_memdump'
       /\ \A m \in 1 .. Len(memdump') : RegionSound(memdump'[m])
       /\ Len(memdump') = Len(control'.regions) + Cardinality(MemoryInjections')
  <2>1. N = Len(control.regions) + Cardinality(MemoryInjections)
    BY <1>2 DEF Collected
  <2> QED
    BY <1>3, <1>5, <1>6, <1>11, <2>1
<1> QED
  BY <1>13, <1>14, <1>15, <1>16 DEF Collected

(* A register fault reads no memory. *)
LEMMA RegisterCollected ==
  ASSUME GuestTypes, GuestTypes', EventsSound, ControlSound, Collected,
         NEW f \in Faults, InjectRegister(f) \/ ReverseRegister(f)
  PROVE  Collected'
<1>1. /\ pack' = pack /\ control' = control /\ ~IsMemory(f)
      /\ memdump' = memdump /\ num_memdump' = num_memdump
      /\ \A g \in Faults : status[g] # "waiting" => restoremask'[g] = restoremask[g]
  BY DEF InjectRegister, ReverseRegister, GuestTypes, experiment
<1>2. PICK kind \in {"inject", "reverse"} : Happens(kind, f)
  BY DEF InjectRegister, ReverseRegister, BecomesLive, Event, Happens
<1>3. PICK tbcount, regs : add_new_registerdump(tbcount, regs)
  BY DEF InjectRegister, ReverseRegister
<1>4. PICK N \in Nat : N = Len(memdump)
  BY LenProperties DEF Collected
<1>5. /\ memdump \in Seq(Region) /\ \A m \in 1 .. N : RegionSound(memdump[m])
      /\ num_memdump \in Nat /\ N <= num_memdump
      /\ N = Len(control.regions) + Cardinality(MemoryInjections)
  BY <1>4 DEF Collected
<1>6. \A m \in 1 .. N : Grown(memdump[m], memdump'[m], Weight(kind, f, memdump[m].address))
  <2>1. \A b : Weight(kind, f, b) = 0
    BY <1>1 DEF Weight
  <2> QED
    BY <1>1, <1>5, <2>1, NotGrown
<1>7. /\ \A m \in 1 .. Len(control.regions) : Configured(m)'
      /\ \A e \in MemoryInjections : InjectTold(e)'
      /\ \A m \in Len(control.regions) + 1 .. N :
           \E e \in MemoryInjections : RegionOf(e)' = m
      /\ \A k \in MemoryEvents \ MemoryInjections : \A e \in MemoryInjections :
           events[e].fault = events[k].fault => ReverseTold(k, e)'
  <2>1. Len(memdump') = N
    BY <1>1, <1>4
  <2> QED
    BY <1>1, <1>2, <1>4, <1>6, <2>1, ToldKept
<1>8. PICK z \in Nat : z = Len(events) /\ DOMAIN events = 1 .. z
  BY LenProperties DEF EventsSound
<1>9. (\A k \in 1 .. z : events'[k] = events[k]) /\ Len(events') = z + 1
  BY <1>2, <1>8, EventsAppended DEF Happens
<1>10. MemoryEvents' = MemoryEvents /\ MemoryInjections' = MemoryInjections
  <2>1. /\ MemoryEvents' = MemoryEvents \cup {}
        /\ MemoryInjections' = MemoryInjections \cup {}
    BY <1>1, <1>2, <1>8, SetsGrow
  <2> QED
    BY <2>1
<1>11. ASSUME NEW k \in MemoryEvents' \ MemoryInjections', NEW e \in MemoryInjections',
              events'[e].fault = events'[k].fault
       PROVE  ReverseTold(k, e)'
  <2>1. k \in MemoryEvents \ MemoryInjections /\ e \in MemoryInjections
    BY <1>10
  <2>2. k \in 1 .. z /\ e \in 1 .. z
    BY <1>8, <2>1, MemoryEventTyped DEF MemoryInjections
  <2> QED
    BY <1>7, <1>9, <1>11, <2>1, <2>2
<1>12. Len(registerdumps') = Len(events') /\ \E S : registerdumps' \in Seq(S)
  <2>1. PICK S : registerdumps \in Seq(S)
    BY DEF Collected
  <2>2. Len(registerdumps) = z
    BY <1>8 DEF Collected
  <2> QED
    BY <1>3, <1>9, <2>1, <2>2, AddRegisterDump
<1> QED
  BY <1>1, <1>4, <1>5, <1>7, <1>10, <1>11, <1>12 DEF Collected

-----------------------------------------------------------------------------
(* Pages.  The page of a cell has it, lies in RAM and is the only page to.  *)
LEMMA Multiples ==
  ASSUME NEW p \in Nat \ {0}, NEW s \in Int, NEW t \in Int, s * p < t * p + p
  PROVE  s <= t
<1>1. ASSUME s >= t + 1 PROVE FALSE
  <2>1. s * p >= (t + 1) * p
    <3>1. PICK d \in Nat : s = t + 1 + d
      BY <1>1
    <3>2. s * p = (t + 1) * p + d * p
      BY <3>1
    <3>3. d * p \in Nat
      OBVIOUS
    <3> QED
      BY <3>2, <3>3
  <2>2. (t + 1) * p = t * p + p
    OBVIOUS
  <2> QED
    BY <2>1, <2>2
<1> QED
  BY <1>1

LEMMA Division ==
  ASSUME NEW p \in Nat \ {0}, NEW a \in Nat
  PROVE  a \div p \in Nat /\ (a \div p) * p <= a /\ a < (a \div p) * p + p
         /\ (a % p = 0 => (a \div p) * p = a)
OBVIOUS

LEMMA PageOfAddress ==
  ASSUME NEW a \in Nat
  PROVE  /\ Page(a) \in Nat /\ a \in Window(Page(a), PageSize)
         /\ \A b \in Nat : a \in Window(Page(b), PageSize) => Page(b) = Page(a)
<1>1. PageSize \in Nat \ {0}
  BY EffectsAssumption
<1>2. PICK q \in Nat : q = a \div PageSize /\ q * PageSize <= a /\ a < q * PageSize + PageSize
  BY <1>1, Division
<1>4. Page(a) = q * PageSize /\ Page(a) \in Nat
  BY <1>1, <1>2 DEF Page
<1>5. a \in Window(Page(a), PageSize)
  BY <1>1, <1>2, <1>4 DEF Window
<1>8. ASSUME NEW b \in Nat, a \in Window(Page(b), PageSize) PROVE Page(b) = Page(a)
  <2>2. PICK s \in Nat : s = b \div PageSize
    BY <1>1, Division
  <2>3. Page(b) = s * PageSize
    BY <2>2 DEF Page
  <2>4. s * PageSize \in Int /\ s * PageSize <= a /\ a < s * PageSize + PageSize
    BY <1>1, <1>8, <2>3 DEF Window
  <2>5. s <= q
    BY <1>1, <1>2, <2>4, Multiples
  <2>6. q <= s
    BY <1>1, <1>2, <2>4, Multiples
  <2> QED
    BY <1>4, <2>3, <2>5, <2>6
<1> QED
  BY <1>4, <1>5, <1>8

(* The records whose first access was a store; their pages are dumped.     *)
Stores == {r \in mem_infos : r.store}

LEMMA StoresTyped ==
  ASSUME ControlSound
  PROVE  /\ \A r \in Stores : r \in accessed /\ r.store /\ r.mem \in Nat
         /\ AccessedPages = IF control.full THEN PagesOf(Stores) ELSE {}
<1>1. \A r \in Stores : r \in accessed /\ r.store /\ r \in MemAccess
  BY DEF ControlSound, AccessesSound, Stores
<1> QED
  BY <1>1 DEF MemAccess, AccessedPages, Stores

(* The hash table's order names every page that was stored to, and once. *)
LEMMA PagesOnce ==
  ASSUME ControlSound, NEW pages \in SetToSeqs(AccessedPages)
  PROVE  \E c \in Nat :
           /\ pages \in [1 .. c -> AccessedPages]
           /\ \A p \in AccessedPages : \E k \in 1 .. c : pages[k] = p
           /\ \A i, j \in 1 .. c : pages[i] = pages[j] => i = j
           /\ ~control.full => c = 0
<1>2. IsFiniteSet(AccessedPages)
  <2>1. IsFiniteSet(Stores)
    BY FS_Subset DEF ControlSound, AccessesSound, Stores
  <2>2. IsFiniteSet(PagesOf(Stores))
    <3> DEFINE g == [r \in Stores |-> Page(r.mem)]
    <3>1. g \in Surjection(Stores, PagesOf(Stores))
      BY DEF Surjection, PagesOf
    <3> QED
      BY <2>1, <3>1, FS_Surjection
  <2> QED
    BY <2>2, StoresTyped, FS_EmptySet
<1>3. PICK c \in Nat : c = Cardinality(AccessedPages)
  BY <1>2, FS_CardinalityType
<1>4. /\ pages \in [1 .. c -> AccessedPages]
      /\ \A i, j \in 1 .. c : pages[i] = pages[j] => i = j
  BY <1>3 DEF SetToSeqs
<1>5. ASSUME NEW p \in AccessedPages, \A k \in 1 .. c : pages[k] # p PROVE FALSE
  <2> DEFINE T == AccessedPages \ {p}
  <2>1. IsFiniteSet(T) /\ Cardinality(T) = c - 1
    BY <1>2, <1>3, FS_RemoveElement
  <2>2. IsFiniteSet(1 .. c) /\ Cardinality(1 .. c) = c
    BY <1>3, FS_Interval
  <2>3. pages \in [1 .. c -> T]
    BY <1>4, <1>5
  <2>4. Cardinality(T) < Cardinality(1 .. c)
    BY <1>3, <2>1, <2>2
  <2> HIDE DEF T
  <2>5. \E x, y \in 1 .. c : x # y /\ pages[x] = pages[y]
    BY <2>1, <2>2, <2>3, <2>4, FS_PigeonHole
  <2> QED
    BY <1>4, <2>5
<1>6. ~control.full => c = 0
  BY <1>3, FS_EmptySet DEF AccessedPages
<1> QED
  BY <1>4, <1>5, <1>6

-----------------------------------------------------------------------------
(* The region an event tells of is the one opened for its fault. *)
LEMMA OpenedTold ==
  ASSUME GuestTypes, EventsSound, Collected, NEW k \in MemoryEvents
  PROVE  \E e \in MemoryInjections :
           /\ events[e].fault = events[k].fault
           /\ Opened(events[k].fault) = RegionOf(e) /\ InjectTold(e)
           /\ k \notin MemoryInjections => ReverseTold(k, e)
<1>1. PICK f \in Faults : f = events[k].fault /\ status[f] # "waiting"
  BY MemoryEventTyped
<1>2. IsMemory(f)
  BY <1>1 DEF MemoryEvents
<1>3. \E j \in DOMAIN events : events[j] = InjectOf(f)
  BY <1>1 DEF EventsSound
<1>4. PICK e : e = CHOOSE j \in DOMAIN events : events[j] = InjectOf(f)
  OBVIOUS
<1>5. e \in DOMAIN events /\ events[e] = InjectOf(f)
  BY <1>3, <1>4
<1>6. events[e].fault = f /\ events[e].kind = "inject"
  BY <1>5 DEF InjectOf
<1>7. e \in MemoryInjections
  BY <1>2, <1>5, <1>6 DEF MemoryInjections, MemoryEvents
<1>8. Opened(f) = RegionOf(e)
  BY <1>4 DEF Opened
<1>9. InjectTold(e) /\ (k \notin MemoryInjections => ReverseTold(k, e))
  BY <1>1, <1>6, <1>7 DEF Collected
<1> QED
  BY <1>1, <1>6, <1>7, <1>8, <1>9

LEMMA ToldWhileRunning ==
  ASSUME GuestTypes, EventsSound, ControlSound, Collected, Running
  PROVE  DumpsTellFault
<1> DEFINE Told(k, f, d, a) ==
             /\ events[k].kind = "inject" =>
                  \A i \in Offset : d[2][i] = InjectedByte(pack[f], i, d[1][i])
             /\ events[k].kind = "reverse" /\ MaskFits(pack[f]) =>
                  \A i \in Offset :
                    Returned(pack[f], i, d[1][i],
                             d[Len(d) - ReadsSince(k, a) + 1 - (IF Sent THEN 1 ELSE 0)][i])
<1> SUFFICES ASSUME NEW k \in DOMAIN events, IsMemory(events[k].fault),
                    InRam(pack[events[k].fault].address, MaskBytes)
             PROVE  Told(k, events[k].fault, memdump[Opened(events[k].fault)].dumps,
                         pack[events[k].fault].address)
  BY DEF DumpsTellFault
<1> PICK f, a, d : f = events[k].fault /\ a = pack[f].address /\ d = memdump[Opened(f)].dumps
  OBVIOUS
<1>1. k \in MemoryEvents
  BY DEF MemoryEvents
<1>2. PICK e \in MemoryInjections :
        /\ events[e].fault = f /\ Opened(f) = RegionOf(e) /\ InjectTold(e)
        /\ k \notin MemoryInjections => ReverseTold(k, e)
  BY <1>1, OpenedTold
<1>3. ASSUME events[k].kind = "inject", NEW i \in Offset
      PROVE  d[2][i] = InjectedByte(pack[f], i, d[1][i])
  BY <1>2, <1>3 DEF InjectTold
<1>4. ASSUME events[k].kind = "reverse", MaskFits(pack[f]), NEW i \in Offset
      PROVE  Returned(pack[f], i, d[1][i],
                      d[Len(d) - ReadsSince(k, a) + 1 - (IF Sent THEN 1 ELSE 0)][i])
  <2>1. k \notin MemoryInjections
    BY <1>4 DEF MemoryInjections
  <2>2. PICK l, c \in Int : l = Len(d) /\ c = ReadsSince(k, a)
    <3>1. Len(d) = ReadsSince(e, a)
      BY <1>2 DEF InjectTold
    <3>2. ReadsSince(e, a) \in Nat /\ ReadsSince(k, a) \in Nat
      BY ReadsTyped
    <3> QED
      BY <3>1, <3>2
  <2> DEFINE n == l - c + 1
  <2>3. n \in 1 .. l
    BY <1>2, <2>1, <2>2 DEF ReverseTold
  <2>4. Returned(pack[f], i, d[1][i], d[n][i])
    <3>1. GivenBack(pack[f], i, d[1][i], d[n][i])
      BY <1>2, <2>1, <2>2 DEF ReverseTold
    <3>2. pack[f] \in FaultConf
      BY <1>1, MemoryEventTyped
    <3> QED
      BY <1>4, <3>1, <3>2, GivenBackReturns
  <2> HIDE DEF n
  <2>5. ~Sent
    BY DEF Running, Sent
  <2>6. Len(d) - ReadsSince(k, a) + 1 - (IF Sent THEN 1 ELSE 0) = n
    BY <2>2, <2>5 DEF n
  <2> QED
    BY <2>4, <2>6
<1> QED
  BY <1>3, <1>4

(* A region is read by the events from the one that configured it. *)
LEMMA EventOfRegion ==
  ASSUME EventsSound, ControlSound, Collected, NEW m \in 1 .. Len(memdump)
  PROVE  Len(memdump[m].dumps) = ReadsSince(FirstEvent(m), memdump[m].address)
<1>1. Len(control.regions) \in Nat /\ Len(memdump) \in Nat
  BY LenProperties DEF ControlSound, Collected
<1>2. CASE m <= Len(control.regions)
  <2>1. Configured(m) /\ FirstEvent(m) = 1
    BY <1>1, <1>2 DEF Collected, FirstEvent
  <2> QED
    BY <2>1 DEF Configured
<1>3. CASE ~(m <= Len(control.regions))
  <2>1. m \in Len(control.regions) + 1 .. Len(memdump)
    BY <1>1, <1>3
  <2>2. \E e \in MemoryInjections : RegionOf(e) = m
    BY <2>1 DEF Collected
  <2>3. PICK e : e = FirstEvent(m)
    OBVIOUS
  <2>4. e \in MemoryInjections /\ RegionOf(e) = m
    BY <1>3, <2>2, <2>3 DEF FirstEvent
  <2>5. InjectTold(e)
    BY <2>4 DEF Collected
  <2> QED
    BY <2>3, <2>4, <2>5 DEF InjectTold
<1> QED
  BY <1>2, <1>3

LEMMA PageAfterEvents ==
  ASSUME EventsSound, ControlSound, Collected, NEW m \in Nat, m > Len(memdump)
  PROVE  FirstEvent(m) = Len(events) + 1
<1>1. /\ Len(control.regions) \in Nat /\ Len(memdump) \in Nat
      /\ Cardinality(MemoryInjections) \in Nat
  <2>1. MemoryInjections \subseteq DOMAIN events
    BY DEF MemoryInjections, MemoryEvents
  <2> QED
    BY <2>1, LenProperties, EventSetsFinite DEF ControlSound, Collected
<1>2. ~(m <= Len(control.regions))
  BY <1>1 DEF Collected
<1>3. \A e \in MemoryInjections : RegionOf(e) # m
  BY <1>1 DEF Collected, InjectTold
<1> QED
  BY <1>2, <1>3 DEF FirstEvent

(* The regions with the pages behind them (memmap_dump_register_page). *)
PagesBehind(regions, n, c) ==
  /\ regions \in Seq(Region) /\ Len(regions) = n + c
  /\ \A m \in 1 .. n + c : RegionSound(regions[m])
  /\ \A m \in 1 .. n : regions[m] = memdump[m]
  /\ \A m \in n + 1 .. n + c :
       /\ regions[m].len = PageSize /\ Len(regions[m].dumps) = 0
       /\ control.full /\ \E r \in Stores : regions[m].address = Page(r.mem)
  /\ \A i, j \in n + 1 .. n + c : regions[i].address = regions[j].address => i = j
  /\ control.full =>
       \A r \in Stores : \E m \in n + 1 .. n + c : regions[m].address = Page(r.mem)

LEMMA PagesAppended ==
  ASSUME ControlSound, Collected, NEW pages \in SetToSeqs(AccessedPages),
         NEW regions, regions = memmap_dump_register_page(memdump, pages),
         NEW n, n = Len(memdump)
  PROVE  \E c \in Nat : PagesBehind(regions, n, c)
<1>1. n \in Nat /\ memdump \in Seq(Region) /\ \A m \in 1 .. n : RegionSound(memdump[m])
  BY LenProperties DEF Collected
<1>2. PICK c \in Nat :
        /\ pages \in [1 .. c -> AccessedPages]
        /\ \A p \in AccessedPages : \E k \in 1 .. c : pages[k] = p
        /\ \A i, j \in 1 .. c : pages[i] = pages[j] => i = j
        /\ ~control.full => c = 0
  BY PagesOnce
<1>3. ASSUME NEW k \in 1 .. c
      PROVE  /\ pages[k] \in Nat
             /\ control.full /\ \E r \in Stores : pages[k] = Page(r.mem)
  <2>1. pages[k] \in AccessedPages
    BY <1>2
  <2>2. control.full
    BY <1>2, SMT
  <2>3. PICK r \in Stores : pages[k] = Page(r.mem)
    BY <2>1, <2>2, StoresTyped DEF PagesOf
  <2>4. r.mem \in Nat
    BY StoresTyped
  <2> QED
    BY <2>2, <2>3, <2>4, PageOfAddress
<1>4. PICK new : new = [k \in 1 .. c |-> NewRegion(pages[k], PageSize)]
  OBVIOUS
<1>5. PageSize \in Nat
  BY EffectsAssumption
<1>6. ASSUME NEW k \in 1 .. c
      PROVE  /\ RegionSound(new[k]) /\ new[k].address = pages[k] /\ new[k].len = PageSize
             /\ Len(new[k].dumps) = 0 /\ new[k] \in Region
  <2>1. new[k] = NewRegion(pages[k], PageSize) /\ pages[k] \in Nat
    BY <1>3, <1>4
  <2> QED
    <3>1. /\ RegionSound(new[k]) /\ new[k].address = pages[k] /\ new[k].len = PageSize
          /\ Len(new[k].dumps) = 0
      BY <1>5, <2>1, NewRegionSound
    <3> QED
      BY <3>1 DEF RegionSound
<1>7. new \in [1 .. c -> Region]
  BY <1>4, <1>6
<1>8. new \in Seq(Region) /\ Len(new) = c
  BY <1>7, SeqOfElements
<1>9. regions = memdump \o new
  BY <1>2, <1>4 DEF memmap_dump_register_page
<1>10. /\ regions \in Seq(Region) /\ Len(regions) = n + c
       /\ \A m \in 1 .. n + c : regions[m] = IF m <= n THEN memdump[m] ELSE new[m - n]
  <2>1. PICK both : both = memdump \o new
    OBVIOUS
  <2>2. /\ both \in Seq(Region) /\ Len(both) = Len(memdump) + Len(new)
        /\ \A m \in 1 .. Len(memdump) + Len(new) :
             both[m] = IF m <= Len(memdump) THEN memdump[m] ELSE new[m - Len(memdump)]
    BY <1>1, <1>8, <2>1, ConcatProperties
  <2> QED
    BY <1>8, <1>9, <2>1, <2>2
<1>11. \A m \in 1 .. n : regions[m] = memdump[m]
  BY <1>1, <1>10
<1>12. \A m \in n + 1 .. n + c : m - n \in 1 .. c /\ regions[m] = new[m - n]
  BY <1>1, <1>10
<1>13. \A m \in 1 .. n + c : RegionSound(regions[m])
  <2> SUFFICES ASSUME NEW m \in 1 .. n + c PROVE RegionSound(regions[m])
    OBVIOUS
  <2>1. CASE m \in 1 .. n
    BY <1>1, <1>11, <2>1
  <2>2. CASE m \in n + 1 .. n + c
    BY <1>6, <1>12, <2>2
  <2> QED
    BY <1>1, <2>1, <2>2
<1>14. \A m \in n + 1 .. n + c :
         /\ regions[m].len = PageSize /\ Len(regions[m].dumps) = 0
         /\ control.full /\ \E r \in Stores : regions[m].address = Page(r.mem)
  BY <1>3, <1>6, <1>12
<1>15. \A i, j \in n + 1 .. n + c : regions[i].address = regions[j].address => i = j
  <2> SUFFICES ASSUME NEW i \in n + 1 .. n + c, NEW j \in n + 1 .. n + c,
                      regions[i].address = regions[j].address
               PROVE  i = j
    OBVIOUS
  <2>1. pages[i - n] = pages[j - n] /\ i - n \in 1 .. c /\ j - n \in 1 .. c
    BY <1>6, <1>12
  <2>2. i - n = j - n
    BY <1>2, <2>1
  <2> QED
    BY <1>1, <2>2
<1>16. control.full =>
         \A r \in Stores : \E m \in n + 1 .. n + c : regions[m].address = Page(r.mem)
  <2> SUFFICES ASSUME control.full, NEW r \in Stores
               PROVE  \E m \in n + 1 .. n + c : regions[m].address = Page(r.mem)
    OBVIOUS
  <2>1. Page(r.mem) \in AccessedPages
    BY StoresTyped DEF PagesOf
  <2>2. PICK k \in 1 .. c : pages[k] = Page(r.mem)
    BY <1>2, <2>1
  <2>3. n + k \in n + 1 .. n + c /\ (n + k) - n = k
    BY <1>1
  <2>4. regions[n + k].address = Page(r.mem)
    BY <1>6, <1>12, <2>2, <2>3
  <2> QED
    BY <2>3, <2>4
<1>17. PagesBehind(regions, n, c)
  BY <1>10, <1>11, <1>13, <1>14, <1>15, <1>16 DEF PagesBehind
<1> QED
  BY <1>17

-----------------------------------------------------------------------------
(* The definitions over the record of events follow it. *)
LEMMA EventViewsKept ==
  ASSUME UNCHANGED <<pack, control, events>>
  PROVE  /\ \A f : IsMemory(f)' <=> IsMemory(f)
         /\ MemoryEvents' = MemoryEvents /\ MemoryInjections' = MemoryInjections
         /\ \A k : RegionOf(k)' = RegionOf(k)
         /\ \A f : Opened(f)' = Opened(f)
         /\ \A k, a : ReadsSince(k, a)' = ReadsSince(k, a)
         /\ \A k : FirstEvent(k)' = FirstEvent(k)
<1>1. \A f : IsMemory(f)' <=> IsMemory(f)
  BY DEF IsMemory
<1>2. MemoryEvents' = MemoryEvents
  BY <1>1 DEF MemoryEvents
<1>3. MemoryInjections' = MemoryInjections
  BY <1>2 DEF MemoryInjections
<1>4. \A k : RegionOf(k)' = RegionOf(k)
  BY <1>3 DEF RegionOf
<1>5. \A f : Opened(f)' = Opened(f)
  BY <1>4 DEF Opened, InjectOf
<1>6. \A k, a : EventsAt(a, k)' = EventsAt(a, k)
  BY <1>2 DEF EventsAt
<1>7. \A k, a : ReadsSince(k, a)' = ReadsSince(k, a)
  BY <1>3, <1>6 DEF ReadsSince
<1>8. \A k : FirstEvent(k)' = FirstEvent(k)
  BY <1>3, <1>4 DEF FirstEvent
<1> QED
  BY <1>1, <1>2, <1>3, <1>4, <1>5, <1>7, <1>8

(* The dumps still tell of the faults after the dump at the end, which      *)
(* every region has one more of if it is sent.                              *)
LEMMA ToldAtEnd ==
  ASSUME GuestTypes, EventsSound, ControlSound, Collected, UNCHANGED <<pack, control, events>>,
         NEW x \in {0, 1}, x = IF Sent' THEN 1 ELSE 0,
         \A m \in 1 .. Len(memdump) : Grown(memdump[m], memdump'[m], x)
  PROVE  DumpsTellFault'
<1> DEFINE Told(k, f, d, a) ==
             /\ events[k].kind = "inject" =>
                  \A i \in Offset : d[2][i] = InjectedByte(pack[f], i, d[1][i])
             /\ events[k].kind = "reverse" /\ MaskFits(pack[f]) =>
                  \A i \in Offset :
                    Returned(pack[f], i, d[1][i],
                             d[Len(d) - ReadsSince(k, a) + 1 - (IF Sent' THEN 1 ELSE 0)][i])
<1>1. ASSUME NEW k \in DOMAIN events, NEW f, f = events[k].fault, IsMemory(f),
             NEW a, a = pack[f].address, InRam(a, MaskBytes),
             NEW d, d = memdump'[Opened(f)].dumps
      PROVE  Told(k, f, d, a)
  <2>1. k \in MemoryEvents
    BY <1>1 DEF MemoryEvents
  <2>2. PICK e \in MemoryInjections :
          /\ events[e].fault = f /\ Opened(f) = RegionOf(e) /\ InjectTold(e)
          /\ k \notin MemoryInjections => ReverseTold(k, e)
    BY <1>1, <2>1, OpenedTold
  <2>3. PICK m : m = RegionOf(e)
    OBVIOUS
  <2>4. Len(control.regions) \in Nat /\ m \in Len(control.regions) + 1 .. Len(memdump)
    BY <2>2, <2>3, LenProperties DEF InjectTold, ControlSound
  <2>5. PICK l \in Nat : l = Len(memdump[m].dumps)
    BY <2>4, GrownLen DEF Collected
  <2>6. /\ Len(d) = l + x /\ \A j \in 1 .. l : d[j] = memdump[m].dumps[j]
    <3>1. m \in 1 .. Len(memdump)
      BY <2>4
    <3>2. Grown(memdump[m], memdump'[m], x) /\ d = memdump'[m].dumps
      BY <1>1, <2>2, <2>3, <3>1
    <3> QED
      BY <2>5, <3>2 DEF Grown
  <2>7. l >= 2 /\ d[1] = memdump[m].dumps[1] /\ d[2] = memdump[m].dumps[2]
    <3>1. l >= 2
      BY <2>2, <2>3, <2>5 DEF InjectTold
    <3> QED
      BY <2>6, <3>1
  <2>8. ASSUME events[k].kind = "inject", NEW i \in Offset
        PROVE  d[2][i] = InjectedByte(pack[f], i, d[1][i])
    BY <1>1, <2>2, <2>3, <2>7 DEF InjectTold
  <2>9. ASSUME events[k].kind = "reverse", MaskFits(pack[f]), NEW i \in Offset
        PROVE  Returned(pack[f], i, d[1][i],
                        d[Len(d) - ReadsSince(k, a) + 1 - (IF Sent' THEN 1 ELSE 0)][i])
    <3>1. k \notin MemoryInjections
      BY <2>9 DEF MemoryInjections
    <3>2. PICK c : c = ReadsSince(k, a)
      OBVIOUS
    <3>3. PICK n : n = l - c + 1
      OBVIOUS
    <3>4. /\ n \in 1 .. l
          /\ GivenBack(pack[f], i, memdump[m].dumps[1][i], memdump[m].dumps[n][i])
      BY <1>1, <2>2, <2>3, <2>5, <3>1, <3>2, <3>3 DEF ReverseTold
    <3>5. c \in Nat
      <4>1. MemoryEvents \subseteq DOMAIN events /\ EventsAt(a, k) \subseteq MemoryEvents
        BY DEF MemoryEvents, EventsAt
      <4>2. /\ Cardinality(EventsAt(a, k)) \in Nat
            /\ Cardinality(EventsAt(a, k) \cap MemoryInjections) \in Nat
        BY <4>1, EventSetsFinite
      <4> QED
        BY <3>2, <4>2 DEF ReadsSince
    <3>6. Len(d) - c + 1 - x = n
      BY <2>6, <3>3, <3>5
    <3>7. d[n] = memdump[m].dumps[n]
      BY <2>6, <3>4
    <3>8. Returned(pack[f], i, d[1][i], d[Len(d) - c + 1 - x][i])
      <4>1. GivenBack(pack[f], i, d[1][i], d[Len(d) - c + 1 - x][i])
        BY <2>7, <3>4, <3>6, <3>7
      <4>2. pack[f] \in FaultConf
        BY <1>1, <2>1, MemoryEventTyped
      <4> QED
        BY <2>9, <4>1, <4>2, GivenBackReturns
    <3> QED
      BY <3>2, <3>8
  <2> QED
    BY <2>8, <2>9
<1> SUFFICES ASSUME NEW k \in DOMAIN events, IsMemory(events[k].fault),
                    InRam(pack[events[k].fault].address, MaskBytes)
             PROVE  Told(k, events[k].fault, memdump'[Opened(events[k].fault)].dumps,
                         pack[events[k].fault].address)
  <2>1. /\ \A f : Opened(f)' = Opened(f) /\ \A u, a : ReadsSince(u, a)' = ReadsSince(u, a)
        /\ \A f : IsMemory(f)' <=> IsMemory(f)
    BY EventViewsKept
  <2> QED
    BY <2>1 DEF DumpsTellFault
<1> HIDE DEF Told
<1> QED
  BY <1>1

-----------------------------------------------------------------------------
(* What the dump at the end can read: every region is a configured one, an  *)
(* injection's or the page of a recorded store.                             *)
LEMMA ReadableWhen ==
  ASSUME EventsSound, ControlSound, Collected, NEW regions, NEW n, n = Len(memdump),
         NEW c \in Nat, PagesBehind(regions, n, c)
  PROVE  AllReadable(regions) <=> ~RegionUnreadable
<1>1. PICK base \in Nat : base = Len(control.regions) /\ DOMAIN control.regions = 1 .. base
  BY LenProperties DEF ControlSound
<1>2. n \in Nat /\ base <= n
  <2>1. MemoryInjections \subseteq DOMAIN events
    BY DEF MemoryInjections, MemoryEvents
  <2>2. Cardinality(MemoryInjections) \in Nat
    BY <2>1, EventSetsFinite
  <2> QED
    BY <1>1, <2>2, LenProperties DEF Collected
<1>3. DOMAIN regions = 1 .. n + c /\ \A m \in 1 .. n : regions[m] = memdump[m]
  BY LenProperties DEF PagesBehind
<1>4. ASSUME NEW m \in 1 .. base
      PROVE  /\ m \in 1 .. n /\ regions[m].address = control.regions[m].address
             /\ regions[m].len = control.regions[m].len
  BY <1>1, <1>2, <1>3 DEF Collected, Configured
<1>5. ASSUME NEW e \in MemoryInjections
      PROVE  /\ RegionOf(e) \in 1 .. n /\ regions[RegionOf(e)].len = MaskBytes
             /\ regions[RegionOf(e)].address = pack[events[e].fault].address
  <2>1. InjectTold(e)
    BY DEF Collected
  <2>2. RegionOf(e) \in 1 .. n
    BY <1>1, <1>2, <2>1 DEF InjectTold
  <2> QED
    BY <1>3, <2>1, <2>2 DEF InjectTold
<1>6. ASSUME AllReadable(regions) PROVE ~RegionUnreadable
  <2>1. \A m \in 1 .. n : InRam(regions[m].address, regions[m].len)
    BY <1>2, <1>3, <1>6 DEF AllReadable
  <2>2. \A m \in 1 .. base : InRam(control.regions[m].address, control.regions[m].len)
    BY <1>4, <2>1
  <2>3. \A e \in MemoryInjections : InRam(pack[events[e].fault].address, MaskBytes)
    BY <1>5, <2>1
  <2>4. ASSUME control.full, NEW r \in mem_infos, r.store PROVE InRam(Page(r.mem), PageSize)
    <3>1. PICK m \in n + 1 .. n + c : regions[m].address = Page(r.mem)
      BY <2>4 DEF PagesBehind, Stores
    <3>2. regions[m].len = PageSize
      BY DEF PagesBehind
    <3>3. m \in 1 .. n + c
      BY <1>2
    <3> QED
      BY <1>3, <1>6, <3>1, <3>2, <3>3 DEF AllReadable
  <2> QED
    BY <1>1, <2>2, <2>3, <2>4 DEF RegionUnreadable
<1>7. ASSUME ~RegionUnreadable, NEW m \in 1 .. n + c
      PROVE  InRam(regions[m].address, regions[m].len)
  <2>1. /\ \A k \in 1 .. base : InRam(control.regions[k].address, control.regions[k].len)
        /\ \A e \in MemoryInjections : InRam(pack[events[e].fault].address, MaskBytes)
        /\ control.full => \A r \in Stores : InRam(Page(r.mem), PageSize)
    BY <1>1, <1>7 DEF RegionUnreadable, Stores
  <2>2. CASE m \in 1 .. base
    BY <1>4, <2>1, <2>2
  <2>3. CASE m \in base + 1 .. n
    <3>1. PICK e \in MemoryInjections : RegionOf(e) = m
      BY <1>1, <2>3 DEF Collected
    <3> QED
      BY <1>5, <2>1, <3>1
  <2>4. CASE m \in n + 1 .. n + c
    <3>1. /\ regions[m].len = PageSize
          /\ control.full /\ \E r \in Stores : regions[m].address = Page(r.mem)
      BY <2>4 DEF PagesBehind
    <3> QED
      BY <2>1, <3>1
  <2> QED
    BY <1>2, <2>2, <2>3, <2>4
<1> QED
  BY <1>3, <1>6, <1>7 DEF AllReadable

(* Each region is read once more (read_all_memory). *)
LEMMA AllRead ==
  ASSUME GuestTypes, NEW regions \in Seq(Region), NEW n, n = Len(regions),
         \A m \in 1 .. n : RegionSound(regions[m]), NEW t, t = read_all_memory(regions, memory)
  PROVE  /\ t \in Seq(Region) /\ Len(t) = n
         /\ \A m \in 1 .. n :
              /\ Grown(regions[m], t[m], 1)
              /\ t[m].dumps[Len(t[m].dumps)] = Contents(memory, t[m].address, t[m].len)
<1>1. n \in Nat /\ DOMAIN regions = 1 .. n
  BY LenProperties
<1>2. t = [k \in 1 .. n |-> read_memoryregion(regions[k], memory)]
  BY <1>1 DEF read_all_memory
<1>3. memory \in [Cells -> Byte]
  BY DEF GuestTypes
<1>4. ASSUME NEW m \in 1 .. n
      PROVE  /\ Grown(regions[m], t[m], 1)
             /\ t[m].dumps[Len(t[m].dumps)] = Contents(memory, t[m].address, t[m].len)
  <2>1. t[m] = read_memoryregion(regions[m], memory)
    BY <1>2
  <2>2. /\ Grown(regions[m], t[m], 1)
        /\ t[m].dumps[Len(regions[m].dumps) + 1] =
             Contents(memory, regions[m].address, regions[m].len)
    BY <1>3, <2>1, ReadOnce
  <2> QED
    BY <2>2 DEF Grown
<1>5. t \in [1 .. n -> Region]
  <2>1. \A m \in 1 .. n : t[m] \in Region
    BY <1>4 DEF Grown, RegionSound
  <2> QED
    BY <1>2, <2>1
<1> QED
  BY <1>1, <1>4, <1>5, SeqOfElements

(* What a report that is sent says of stored bytes. *)
SamePlaces(told, regions, l) ==
  /\ DOMAIN told = 1 .. l
  /\ \A m \in 1 .. l : told[m].address = regions[m].address /\ told[m].len = regions[m].len

PageNamed(told, a) ==
  Cardinality({k \in DOMAIN told :
    told[k].len = PageSize /\ a \in Window(told[k].address, PageSize)}) = 1

(* A store whose record is a store to its page, or is taken for one.       *)
LEMMA StoreRecorded ==
  ASSUME ControlSound, control.mem_info, NEW s \in accessed, StoreTold(s)
  PROVE  s.mem \in Nat /\ \E r \in Stores : Page(r.mem) = Page(s.mem)
<1>1. s.mem \in Nat
  BY DEF ControlSound, AccessesSound, MemAccess
<1>2. CASE s \in mem_infos
  BY <1>1, <1>2 DEF StoreTold, Stores
<1>3. CASE \E r \in mem_infos : Alike(s, r)
  <2>1. PICK r \in mem_infos : Alike(s, r)
    BY <1>3
  <2>2. r \in accessed
    BY DEF ControlSound, AccessesSound
  <2> QED
    BY <1>1, <2>1, <2>2 DEF StoreTold, Stores
<1> QED
  BY <1>2, <1>3 DEF ControlSound, AccessesSound

(* In the pre-golden run, which configures none, a region of the size of a *)
(* page is one.                                                             *)
LEMMA PageRegion ==
  ASSUME EventsSound, ControlSound, Collected, NEW regions, NEW n, n = Len(memdump), NEW c \in Nat,
         PagesBehind(regions, n, c), NEW told, SamePlaces(told, regions, n + c),
         NEW m \in 1 .. n + c, told[m].len = PageSize, ~(m <= Len(control.regions))
  PROVE  m \in n + 1 .. n + c
<1>1. n \in Nat /\ Len(control.regions) \in Nat
  BY LenProperties DEF Collected, ControlSound
<1>2. ASSUME m <= n PROVE FALSE
  <2>1. m \in Len(control.regions) + 1 .. Len(memdump)
    BY <1>1, <1>2
  <2>2. PICK e \in MemoryInjections : RegionOf(e) = m
    BY <2>1 DEF Collected
  <2>3. memdump[m].len = MaskBytes
    BY <2>2 DEF Collected, InjectTold
  <2>4. m \in 1 .. n /\ regions[m] = memdump[m]
    BY <1>1, <1>2 DEF PagesBehind
  <2>5. told[m].len = memdump[m].len
    BY <2>4 DEF SamePlaces
  <2> QED
    BY <2>3, <2>5, RamAssumption
<1> QED
  BY <1>1, <1>2

LEMMA StoredReported ==
  ASSUME EventsSound, ControlSound, Collected, NEW regions, NEW n, n = Len(memdump), NEW c \in Nat,
         PagesBehind(regions, n, c), AllReadable(regions), control.full, control.mem_info,
         NEW s \in accessed, StoreTold(s), NEW told, SamePlaces(told, regions, n + c)
  PROVE  /\ PageNamed(told, s.mem)
         /\ \E range \in MemMap : s.mem \in Window(range.start, range.size)
<1>1. PICK a \in Nat : a = s.mem
  BY StoreRecorded
<1>2. PICK r0 \in Stores : Page(r0.mem) = Page(a)
  BY <1>1, StoreRecorded
<1>3. n \in Nat /\ Len(control.regions) = 0
  <2>1. control.regions = <<>>
    BY DEF ControlSound
  <2> QED
    BY <2>1, LenProperties, EmptySeq DEF Collected
<1>4. PICK k0 \in n + 1 .. n + c : regions[k0].address = Page(a)
  BY <1>2 DEF PagesBehind
<1>5. k0 \in 1 .. n + c
  BY <1>3
<1>6. regions[k0].len = PageSize /\ told[k0].len = PageSize /\ told[k0].address = Page(a)
  BY <1>4, <1>5 DEF PagesBehind, SamePlaces
<1>7. a \in Window(told[k0].address, PageSize)
  BY <1>6, PageOfAddress
<1>8. ASSUME NEW k \in 1 .. n + c, told[k].len = PageSize, a \in Window(told[k].address, PageSize)
      PROVE  k = k0
  <2>1. k \in n + 1 .. n + c
    <3>1. ~(k <= Len(control.regions))
      BY <1>3
    <3> QED
      BY <1>8, <3>1, PageRegion
  <2>2. PICK r \in Stores : regions[k].address = Page(r.mem)
    BY <2>1 DEF PagesBehind
  <2>3. r.mem \in Nat
    BY StoresTyped
  <2>4. told[k].address = regions[k].address
    BY DEF SamePlaces
  <2>5. Page(r.mem) = Page(a)
    BY <1>8, <2>2, <2>3, <2>4, PageOfAddress
  <2> QED
    BY <1>4, <2>1, <2>2, <2>5 DEF PagesBehind
<1>9. {k \in DOMAIN told :
         told[k].len = PageSize /\ a \in Window(told[k].address, PageSize)} = {k0}
  BY <1>5, <1>6, <1>7, <1>8 DEF SamePlaces
<1>10. \E range \in MemMap : a \in Window(range.start, range.size)
  <2>1. DOMAIN regions = 1 .. n + c
    BY LenProperties DEF PagesBehind
  <2>2. InRam(Page(a), PageSize)
    BY <1>4, <1>5, <1>6, <2>1 DEF AllReadable
  <2>3. a \in Cells
    BY <1>6, <1>7, <2>2 DEF InRam
  <2>4. PICK range \in FlatView : range.ram /\ a \in range.start .. range.start + range.size - 1
    BY <2>3, RamAssumption
  <2> QED
    BY <2>4 DEF MemMap, Window
<1> QED
  BY <1>1, <1>9, <1>10, FS_Singleton DEF PageNamed

-----------------------------------------------------------------------------
(* The dump at the end of the experiment. *)
LEMMA EndDumpSound ==
  ASSUME GuestTypes, EventsSound, ControlSound, Collected,
         NEW pages \in SetToSeqs(AccessedPages), EndDump(pages)
  PROVE  TypeOK' /\ DumpsTellFault' /\ ReportComplete'
<1>1. PICK regions : regions = memmap_dump_register_page(memdump, pages)
  OBVIOUS
<1>2. PICK n \in Nat : n = Len(memdump)
  BY LenProperties DEF Collected
<1>3. PICK c \in Nat : PagesBehind(regions, n, c)
  BY <1>1, <1>2, PagesAppended
<1>4. /\ UNCHANGED <<pack, word, control, memory, registers, status, restoremask, mem_infos,
                     accessed, golden, events>>
      /\ num_memdump' = Room(regions)
  BY <1>1 DEF EndDump, experiment, accesses, history
<1>5. /\ regions \in Seq(Region) /\ Len(regions) = n + c /\ DOMAIN regions = 1 .. n + c
      /\ \A m \in 1 .. n + c : RegionSound(regions[m])
      /\ \A m \in 1 .. n : m \in 1 .. n + c /\ regions[m] = memdump[m]
  BY <1>3, LenProperties DEF PagesBehind
<1>6. GuestTypes'
  BY <1>4 DEF GuestTypes
<1>7. ASSUME memdump' \in Seq(Region), Len(memdump') = n + c,
             \A m \in 1 .. n + c : RegionSound(memdump'[m])
      PROVE  TypeOK'
  <2>1. registers' \in [Regs -> SUBSET (WordBits')]
    BY <1>4 DEF ControlSound, WordBits
  <2>2. n + c <= num_memdump'
    BY <1>4, <1>5 DEF Room, Collected
  <2>3. DOMAIN memdump' = 1 .. n + c
    BY <1>7, LenProperties
  <2>4. \A m \in 1 .. n + c : DOMAIN memdump'[m].dumps = 1 .. Len(memdump'[m].dumps)
    BY <1>7, LenProperties DEF RegionSound, Region
  <2>5. \A m \in DOMAIN memdump' :
          /\ Len(memdump'[m].dumps) <= memdump'[m].num_dumps
          /\ \A j \in DOMAIN memdump'[m].dumps :
               memdump'[m].dumps[j] \in [0 .. memdump'[m].len - 1 -> Byte]
    BY <1>7, <2>3, <2>4 DEF RegionSound
  <2> QED
    BY <1>6, <1>7, <2>1, <2>2, <2>5 DEF TypeOK, DumpTypes
<1>8. RegionUnreadable' <=> RegionUnreadable
  <2>1. MemoryInjections' = MemoryInjections
    BY <1>4, EventViewsKept
  <2> QED
    BY <1>4, <2>1 DEF RegionUnreadable
<1>9. AllReadable(regions) <=> ~RegionUnreadable
  BY <1>2, <1>3, ReadableWhen
<1>10. CASE ~AllReadable(regions)
  <2>1. memdump' = regions /\ report' = [state |-> "lost"]
    BY <1>1, <1>10 DEF EndDump
  <2>2. ~Sent' /\ report'.state = "lost"
    BY <2>1 DEF Sent
  <2>3. \A m \in 1 .. n : Grown(memdump[m], memdump'[m], 0)
    BY <1>5, <2>1, NotGrown
  <2>4. DumpsTellFault'
    BY <1>2, <1>4, <2>2, <2>3, ToldAtEnd
  <2>5. ReportComplete'
    BY <1>8, <1>9, <1>10, <2>2 DEF ReportComplete
  <2> QED
    BY <1>5, <1>7, <2>1, <2>4, <2>5
<1>11. CASE AllReadable(regions)
  <2>1. /\ memdump' = read_all_memory(regions, memory)
        /\ add_new_registerdump(NULL, registers)
        /\ report' = [state |-> "sent", regions |-> readout_all_memorydump(memdump'),
                      register_info |-> read_registers(registerdumps'), memmap |-> MemMap]
    BY <1>1, <1>11 DEF EndDump
  <2>2. Sent' /\ report'.state # "lost"
    BY <2>1 DEF Sent
  <2>3. /\ memdump' \in Seq(Region) /\ Len(memdump') = n + c
        /\ \A m \in 1 .. n + c :
             /\ Grown(regions[m], memdump'[m], 1)
             /\ memdump'[m].dumps[Len(memdump'[m].dumps)] =
                  Contents(memory, memdump'[m].address, memdump'[m].len)
    BY <1>5, <2>1, AllRead
  <2>4. \A m \in 1 .. n : Grown(memdump[m], memdump'[m], 1)
    BY <1>5, <2>3
  <2>5. DumpsTellFault'
    BY <1>2, <1>4, <2>2, <2>4, ToldAtEnd
  <2>6. TypeOK'
    BY <1>7, <2>3 DEF Grown
  <2>7. DOMAIN memdump' = 1 .. n + c
    BY <2>3, LenProperties
  <2>8. report'.regions = [m \in 1 .. n + c |-> readout_memorydump(memdump'[m])]
    BY <2>1, <2>7 DEF readout_all_memorydump
  <2>9. /\ DOMAIN report'.regions = 1 .. n + c
        /\ \A m \in 1 .. n + c :
             /\ report'.regions[m].address = memdump'[m].address
             /\ report'.regions[m].len = memdump'[m].len
             /\ report'.regions[m].dumps = memdump'[m].dumps
    BY <2>8 DEF readout_memorydump
  <2>10. ASSUME NEW m \in 1 .. n + c
         PROVE  Len(memdump'[m].dumps) = ReadsSince(FirstEvent(m), memdump'[m].address) + 1
    <3>1. Grown(regions[m], memdump'[m], 1)
      BY <2>3
    <3>2. CASE m <= n
      <4>1. m \in 1 .. Len(memdump) /\ regions[m] = memdump[m]
        BY <1>2, <1>5, <3>2
      <4>2. Len(memdump[m].dumps) = ReadsSince(FirstEvent(m), memdump[m].address)
        BY <4>1, EventOfRegion
      <4> QED
        BY <3>1, <4>1, <4>2 DEF Grown
    <3>3. CASE m > n
      <4>1. FirstEvent(m) = Len(events) + 1
        BY <1>2, <3>3, PageAfterEvents
      <4>2. ReadsSince(FirstEvent(m), memdump'[m].address) = 0
        BY <4>1, NoReadsYet
      <4>3. Len(memdump'[m].dumps) = 1
        <5>1. Len(regions[m].dumps) = 0
          BY <1>3, <3>3 DEF PagesBehind
        <5> QED
          BY <3>1, <5>1 DEF Grown
      <4> QED
        BY <4>2, <4>3
    <3> QED
      BY <3>2, <3>3
  <2>11. \A m \in DOMAIN report'.regions :
           /\ Len(report'.regions[m].dumps) =
                ReadsSince(FirstEvent(m), report'.regions[m].address) + 1
           /\ report'.regions[m].dumps[Len(report'.regions[m].dumps)] =
                Contents(memory', report'.regions[m].address, report'.regions[m].len)
    BY <1>4, <2>3, <2>9, <2>10
  <2>12. /\ Len(report'.register_info.register_dumps) = Len(events') + 1
         /\ report'.register_info.register_dumps[1].regs = registers'
    <3>1. PICK S : registerdumps \in Seq(S)
      BY DEF Collected
    <3>2. Len(registerdumps) = Len(events)
      BY DEF Collected
    <3>3. Len(registerdumps') = Len(events) + 1 /\ registerdumps'[1].regs = registers
      BY <2>1, <3>1, <3>2, AddRegisterDump
    <3>4. report'.register_info.register_dumps = registerdumps'
      BY <2>1 DEF read_registers
    <3> QED
      BY <1>4, <3>3, <3>4
  <2>13. PagesReported'
    <3>1. PICK told : told = report'.regions
      OBVIOUS
    <3>2. SamePlaces(told, regions, n + c)
      BY <2>3, <2>9, <3>1 DEF Grown, SamePlaces
    <3>3. report'.memmap = MemMap
      BY <2>1
    <3>4. ASSUME control.full, control.mem_info, NEW s \in accessed, StoreTold(s)
          PROVE  StoredPageReported(s.mem)'
      <4>1. /\ PageNamed(told, s.mem)
            /\ \E range \in MemMap : s.mem \in Window(range.start, range.size)
        BY <1>2, <1>3, <1>11, <3>2, <3>4, StoredReported
      <4> QED
        BY <3>1, <3>3, <4>1 DEF StoredPageReported, PageNamed
    <3>5. ASSUME NEW k \in 1 .. n + c, told[k].len = PageSize, ~(k <= Len(control.regions))
          PROVE  /\ control.full /\ control.mem_info
                 /\ \E s \in accessed : s.store /\ told[k].address = Page(s.mem)
      <4>1. k \in n + 1 .. n + c
        BY <1>2, <1>3, <3>2, <3>5, PageRegion
      <4>2. control.full
        BY <1>3, <4>1 DEF PagesBehind
      <4>3. PICK r \in Stores : regions[k].address = Page(r.mem)
        BY <1>3, <4>1 DEF PagesBehind
      <4>4. r \in accessed /\ r.store
        BY StoresTyped
      <4>5. control.mem_info
        BY DEF ControlSound, AccessesSound, Stores
      <4>6. told[k].address = regions[k].address
        BY <3>2 DEF SamePlaces
      <4> QED
        BY <4>2, <4>3, <4>4, <4>5, <4>6
    <3>6. \A s : StoreTold(s)' <=> StoreTold(s)
      BY <1>4 DEF StoreTold
    <3>7. DOMAIN told = 1 .. n + c
      BY <3>2 DEF SamePlaces
    <3> QED
      BY <1>4, <3>1, <3>4, <3>5, <3>6, <3>7 DEF PagesReported
  <2>14. ReportComplete'
    <3>1. \A k, a : ReadsSince(k, a)' = ReadsSince(k, a)
      BY <1>4, EventViewsKept
    <3>2. \A k : FirstEvent(k)' = FirstEvent(k)
      BY <1>4, EventViewsKept
    <3> QED
      BY <1>4, <1>8, <1>9, <1>11, <2>2, <2>11, <2>12, <2>13, <3>1, <3>2 DEF ReportComplete
  <2> QED
    BY <2>5, <2>6, <2>14
<1> QED
  BY <1>10, <1>11

-----------------------------------------------------------------------------
(* The invariant: what the regions tell while the experiment runs, and what *)
(* the theorems state, which only stuttering follows once it has ended.     *)
ReportInv ==
  /\ GuestTypes /\ EventsSound /\ ControlSound
  /\ Running => Collected
  /\ TypeOK /\ DumpsTellFault /\ ReportComplete

(* While the experiment runs the theorems' properties follow. *)
LEMMA WhileRunning ==
  GuestTypes /\ EventsSound /\ ControlSound /\ Collected /\ Running
    => TypeOK /\ DumpsTellFault /\ ReportComplete
<1> SUFFICES ASSUME GuestTypes, EventsSound, ControlSound, Collected, Running
             PROVE  TypeOK /\ DumpsTellFault /\ ReportComplete
  OBVIOUS
<1>1. DOMAIN memdump = 1 .. Len(memdump)
  BY LenProperties DEF Collected
<1>2. \A m \in 1 .. Len(memdump) :
        /\ Len(memdump[m].dumps) <= memdump[m].num_dumps
        /\ DOMAIN memdump[m].dumps = 1 .. Len(memdump[m].dumps)
        /\ \A j \in 1 .. Len(memdump[m].dumps) :
             memdump[m].dumps[j] \in [0 .. memdump[m].len - 1 -> Byte]
  BY LenProperties DEF Collected, RegionSound, Region
<1>3. DumpTypes
  BY <1>1, <1>2 DEF DumpTypes, Collected, ControlSound
<1>4. ReportComplete
  BY DEF ReportComplete, Running, Sent
<1> QED
  BY <1>3, <1>4, ToldWhileRunning DEF TypeOK

LEMMA ControlInductive == ControlSound /\ [Next]_vars => ControlSound'
<1> SUFFICES ASSUME ControlSound, [Next]_vars PROVE ControlSound'
  OBVIOUS
<1>1. control' = control /\ word' = word
  BY DEF Next, vars, InjectMemory, InjectRegister, ReverseMemory, ReverseRegister, GuestLoad,
         GuestStore, GuestAccess, GuestWriteRegister, EndDump, Terminated, experiment
<1>2. UNCHANGED accesses
      \/ \E x \in MemAccesses : accessed' = accessed \cup {x} /\ memaccess_data_cb(x)
  BY DEF Next, vars, InjectMemory, InjectRegister, ReverseMemory, ReverseRegister, GuestLoad,
         GuestStore, GuestAccess, GuestWriteRegister, EndDump, Terminated
<1>3. AccessesSound'
  <2>1. CASE UNCHANGED accesses
    BY <1>1, <2>1 DEF ControlSound, AccessesSound, accesses
  <2>2. ASSUME NEW x \in MemAccesses, accessed' = accessed \cup {x}, memaccess_data_cb(x)
        PROVE  AccessesSound'
    <3>1. x \in MemAccess
      BY EffectsAssumption
    <3>2. CASE control.mem_info /\ mem_infos' = mem_infos \cup {x}
      <4>1. IsFiniteSet(mem_infos')
        BY <3>2, FS_AddElement DEF ControlSound, AccessesSound
      <4> QED
        BY <1>1, <2>2, <3>1, <3>2, <4>1 DEF ControlSound, AccessesSound
    <3>3. CASE (control.mem_info => \E r \in mem_infos : Alike(x, r)) /\ UNCHANGED mem_infos
      BY <1>1, <2>2, <3>1, <3>3 DEF ControlSound, AccessesSound
    <3> QED
      BY <2>2, <3>2, <3>3 DEF memaccess_data_cb
  <2> QED
    BY <1>2, <2>1, <2>2
<1>4. registers' = registers
      \/ \E r, v : registers' = [registers EXCEPT ![r] = v \cap WordBits]
  BY DEF Next, vars, InjectMemory, InjectRegister, ReverseMemory, ReverseRegister, GuestLoad,
         GuestStore, GuestAccess, GuestWriteRegister, EndDump, Terminated
<1>5. WordBits' = WordBits
  BY <1>1 DEF WordBits
<1>6. registers' \in [Regs -> SUBSET WordBits]
  BY <1>4 DEF ControlSound
<1> QED
  BY <1>1, <1>3, <1>5, <1>6 DEF ControlSound

LEMMA CollectedKept ==
  ASSUME Collected,
         UNCHANGED <<pack, control, events, restoremask, memdump, num_memdump, registerdumps>>
  PROVE  Collected'
<1>1. /\ \A f : IsMemory(f)' <=> IsMemory(f)
      /\ MemoryEvents' = MemoryEvents /\ MemoryInjections' = MemoryInjections
      /\ \A k : RegionOf(k)' = RegionOf(k)
      /\ \A k, a : ReadsSince(k, a)' = ReadsSince(k, a)
  BY EventViewsKept
<1>2. \A m : Configured(m)' <=> Configured(m)
  BY <1>1 DEF Configured
<1>3. \A e : InjectTold(e)' <=> InjectTold(e)
  BY <1>1 DEF InjectTold
<1>4. \A k, e : ReverseTold(k, e)' <=> ReverseTold(k, e)
  BY <1>1 DEF ReverseTold
<1> QED
  BY <1>1, <1>2, <1>3, <1>4 DEF Collected

(* Every step but the dump at the end leaves the experiment running. *)
LEMMA CollectedInductive ==
  ASSUME IInv, IInv', EventsSound, ControlSound, Collected, [Next]_vars, Running'
  PROVE  Collected'
<1> GuestTypes /\ GuestTypes'
  BY DEF IInv
<1>1. ASSUME NEW f \in Faults, InjectMemory(f) PROVE Collected'
  BY <1>1, InjectMemoryCollected
<1>2. ASSUME NEW f \in Faults, ReverseMemory(f) PROVE Collected'
  BY <1>2, ReverseMemoryCollected
<1>3. ASSUME NEW f \in Faults, InjectRegister(f) \/ ReverseRegister(f) PROVE Collected'
  BY <1>3, RegisterCollected
<1>4. ASSUME NEW a, NEW v, GuestLoad(a) \/ GuestStore(a, v) \/ GuestWriteRegister(a, v)
      PROVE  Collected'
  BY <1>4, CollectedKept
     DEF GuestLoad, GuestStore, GuestAccess, GuestWriteRegister, experiment, dumps
<1>5. ASSUME NEW pages, EndDump(pages) PROVE Collected'
  <2>1. report'.state \in {"sent", "lost"}
    BY <1>5 DEF EndDump
  <2> QED
    BY <2>1 DEF Running
<1>6. CASE UNCHANGED vars
  BY <1>6, CollectedKept DEF vars, experiment, dumps, history
<1> QED
  BY <1>1, <1>2, <1>3, <1>4, <1>5, <1>6 DEF Next, Terminated

LEMMA ReportInit == Init => ReportInv
<1> SUFFICES ASSUME Init PROVE ReportInv
  OBVIOUS
<1>1. GuestTypes /\ EventsSound /\ ControlSound /\ Collected
  BY InitInductive, EventsInit, ControlInit, CollectedInit DEF IInv
<1>2. Running
  BY DEF Init, Running
<1> QED
  BY <1>1, <1>2, WhileRunning DEF ReportInv

(* The properties are statements about the present state. *)
LEMMA ReportStutters == ReportInv /\ UNCHANGED vars => ReportInv'
<1> SUFFICES ASSUME ReportInv, UNCHANGED vars PROVE ReportInv'
  OBVIOUS
<1>1. UNCHANGED <<pack, word, control, memory, registers, status, restoremask, num_memdump,
                  memdump, registerdumps, mem_infos, accessed, report, golden, events>>
  BY DEF vars, experiment, dumps, accesses, history
<1>2. GuestTypes'
  BY <1>1 DEF GuestTypes, ReportInv
<1>3. EventsSound'
  BY <1>1, EventsKept DEF ReportInv
<1>4. ControlSound'
  BY <1>1 DEF ControlSound, AccessesSound, ReportInv, WordBits
<1>5. Running' => Collected'
  BY <1>1, CollectedKept DEF ReportInv, Running
<1>6. TypeOK'
  BY <1>1, <1>2 DEF TypeOK, DumpTypes, ReportInv, WordBits
<1>7. /\ \A f : IsMemory(f)' <=> IsMemory(f)
      /\ \A f : Opened(f)' = Opened(f) /\ MemoryInjections' = MemoryInjections
      /\ \A k, a : ReadsSince(k, a)' = ReadsSince(k, a)
      /\ \A k : FirstEvent(k)' = FirstEvent(k)
  BY <1>1, EventViewsKept
<1>8. DumpsTellFault'
  BY <1>1, <1>7 DEF DumpsTellFault, ReportInv, Sent
<1>9. RegionUnreadable' <=> RegionUnreadable
  BY <1>1, <1>7 DEF RegionUnreadable
<1>10. \A a : StoredPageReported(a)' <=> StoredPageReported(a)
  BY <1>1 DEF StoredPageReported
<1>12. PagesReported' <=> PagesReported
  BY <1>1, <1>10 DEF PagesReported, StoreTold
<1>11. ReportComplete'
  BY <1>1, <1>7, <1>9, <1>12 DEF ReportComplete, ReportInv, Sent, Running
<1> QED
  BY <1>2, <1>3, <1>4, <1>5, <1>6, <1>8, <1>11 DEF ReportInv

LEMMA ReportInductive == IInv /\ IInv' /\ ReportInv /\ [Next]_vars => ReportInv'
<1> SUFFICES ASSUME IInv, IInv', ReportInv, [Next]_vars PROVE ReportInv'
  OBVIOUS
<1>1. CASE UNCHANGED vars
  BY <1>1, ReportStutters
<1>2. CASE ~UNCHANGED vars
  <2>1. Running
    BY <1>2 DEF Next, InjectMemory, InjectRegister, ReverseMemory, ReverseRegister, GuestLoad,
                GuestStore, GuestAccess, GuestWriteRegister, EndDump, Terminated
  <2>2. GuestTypes /\ EventsSound /\ ControlSound /\ Collected
    BY <2>1 DEF ReportInv
  <2>3. GuestTypes' /\ EventsSound' /\ ControlSound'
    BY <2>2, EventsInductive, ControlInductive DEF IInv
  <2>4. CASE Running'
    <3>1. Collected'
      BY <2>2, <2>4, CollectedInductive
    <3>2. TypeOK' /\ DumpsTellFault' /\ ReportComplete'
      BY <2>3, <2>4, <3>1, WhileRunning, PTL
    <3> QED
      BY <2>3, <3>1, <3>2 DEF ReportInv
  <2>5. CASE ~Running'
    <3>1. PICK pages \in SetToSeqs(AccessedPages) : EndDump(pages)
      BY <1>2, <2>1, <2>5 DEF Running, Next, InjectMemory, InjectRegister, ReverseMemory,
         ReverseRegister, GuestLoad, GuestStore, GuestAccess, GuestWriteRegister, Terminated
    <3>2. TypeOK' /\ DumpsTellFault' /\ ReportComplete'
      BY <2>2, <3>1, EndDumpSound
    <3> QED
      BY <2>3, <2>5, <3>2 DEF ReportInv
  <2> QED
    BY <2>4, <2>5
<1> QED
  BY <1>1, <1>2

(* The guest, the faults' state and the dumps are of their types, and the   *)
(* vector of regions and each region have the room their dumps need, for    *)
(* any number of faults and regions (insert_memorydump_config,              *)
(* read_memoryregion).                                                      *)
THEOREM DumpsTyped == Spec => []TypeOK
<1>1. ReportInv => TypeOK
  BY DEF ReportInv
<1> QED
  BY InitInductive, StepInductive, ReportInit, ReportInductive, <1>1, PTL DEF Spec

(* The region an injection opens begins with the bytes before and after it. *)
(* The dump taken at its reversal has of the bytes found before it the bits *)
(* the fault is about, unless the mask of an overwrite sets bytes it does   *)
(* not write, and whatever other faults read or write at the same address   *)
(* and whatever the guest stores (inject_fault, reverse_fault).             *)
THEOREM DumpsTell == Spec => []DumpsTellFault
<1>1. ReportInv => DumpsTellFault
  BY DEF ReportInv
<1> QED
  BY InitInductive, StepInductive, ReportInit, ReportInductive, <1>1, PTL DEF Spec

(* A report is lost exactly when a region lies outside of RAM; one that is  *)
(* sent has every dump of every region, a register dump for every event and *)
(* the pages stored to as PagesReported says: once each, in whatever order  *)
(* the hash table gives them, as far as one of the accesses taken for the   *)
(* same tells (plugin_end_information_dump, memaccess_data_cb).             *)
THEOREM ReportHasAll == Spec => []ReportComplete
<1>1. ReportInv => ReportComplete
  BY DEF ReportInv
<1> QED
  BY InitInductive, StepInductive, ReportInit, ReportInductive, <1>1, PTL DEF Spec

-----------------------------------------------------------------------------
(* Registers.  A number of i bytes has bits below ByteBits * i.             *)
Below(i) == 0 .. ByteBits * i - 1
MaskBelow(f, i) == UNION {Shifted(f.mask[j], j) : j \in 0 .. i - 1}

LEMMA BytePlaces ==
  ASSUME NEW i \in Nat
  PROVE  /\ ByteBits * i \in Nat /\ ByteBits * (i + 1) = ByteBits * i + ByteBits
         /\ ByteBits * 0 = 0
         /\ \A j \in Nat : j <= i => ByteBits * j <= ByteBits * i
<1>1. ByteBits \in Nat
  BY WidthAssumption
<1>2. ASSUME NEW j \in Nat, j <= i PROVE ByteBits * j <= ByteBits * i
  <2>1. PICK d \in Nat : i = j + d
    BY <1>2
  <2>2. ByteBits * i = ByteBits * j + ByteBits * d /\ ByteBits * d \in Nat /\ ByteBits * j \in Nat
    BY <1>1, <2>1
  <2> QED
    BY <2>2
<1> QED
  BY <1>1, <1>2

LEMMA ShiftedPlace ==
  ASSUME NEW byte \in Byte, NEW i \in Nat
  PROVE  Shifted(byte, i) \subseteq ByteBits * i .. ByteBits * (i + 1) - 1
<1>1. PICK p \in Nat : p = ByteBits * i /\ ByteBits * (i + 1) = p + ByteBits
  BY BytePlaces
<1>2. \A b \in byte : b \in Nat /\ b <= ByteBits - 1
  BY WidthAssumption DEF Byte, Bit
<1>3. Shifted(byte, i) = {b + p : b \in byte}
  BY <1>1 DEF Shifted
<1> QED
  BY <1>1, <1>2, <1>3, WidthAssumption

(* The widths of an int, of a register and of a word. *)
LEMMA WidthPlaces ==
  /\ IntBits \in Nat \ {0} /\ RegBits \in Nat /\ IntBits <= RegBits
  /\ IntBits = ByteBits * IntBytes
  /\ \A i \in 0 .. IntBytes - 1 : ByteBits * (i + 1) <= IntBits
<1>1. ByteBits \in Nat \ {0} /\ IntBytes \in Nat \ {0} /\ RegBytes \in Nat /\ IntBytes <= RegBytes
  BY WidthAssumption
<1>2. ByteBits * 1 <= ByteBits * IntBytes /\ ByteBits * IntBytes <= ByteBits * RegBytes
  BY <1>1, BytePlaces
<1>3. \A i \in 0 .. IntBytes - 1 : ByteBits * (i + 1) <= ByteBits * IntBytes
  <2> SUFFICES ASSUME NEW i \in 0 .. IntBytes - 1 PROVE ByteBits * (i + 1) <= ByteBits * IntBytes
    OBVIOUS
  <2>1. i + 1 \in Nat /\ i + 1 <= IntBytes
    BY <1>1
  <2> QED
    BY <1>1, <2>1, BytePlaces
<1>4. ByteBits * IntBytes \in Nat /\ ByteBits * RegBytes \in Nat
  BY <1>1, BytePlaces
<1> QED
  BY <1>1, <1>2, <1>3, <1>4 DEF IntBits, RegBits

(* Numbers without a common bit add up to their union. *)
LEMMA PlusDisjoint ==
  ASSUME NEW r \in SUBSET (0 .. RegBits - 1), NEW s \in SUBSET (0 .. RegBits - 1), r \cap s = {}
  PROVE  Plus(r, s) = r \cup s
<1>1. \A b : ~Carry(r, s, b)
  BY DEF Carry
<1> QED
  BY <1>1 DEF Plus

(* A byte of an int, shifted: the int's sign, if its top bit is set, fills  *)
(* the register above it.                                                   *)
SignBits(byte, i) ==
  IF i = IntBytes - 1 /\ ByteBits - 1 \in byte THEN IntBits .. RegBits - 1 ELSE {}

LEMMA ShiftInInt ==
  ASSUME NEW byte \in Byte, NEW i \in 0 .. IntBytes - 1, NEW oversized
  PROVE  IntShifted(byte, i, oversized) = Shifted(byte, i) \cup SignBits(byte, i)
<1>1. i \in Nat /\ i < IntBytes /\ ~(i >= IntBytes) /\ IntBytes \in Nat /\ IntBytes >= 1
  BY WidthAssumption
<1>2. PICK p \in Nat : p = ByteBits * i
  BY <1>1, BytePlaces
<1>3. PICK w \in Nat : w = IntBits
  BY WidthPlaces
<1>4. ByteBits * (i + 1) = p + ByteBits /\ p + ByteBits <= w
  BY <1>1, <1>2, <1>3, BytePlaces, WidthPlaces
<1>5. ByteBits \in Nat /\ ByteBits >= 1
  BY WidthAssumption
<1>6. (ByteBits * i) % IntBits = p
  BY <1>2, <1>3, <1>4, <1>5
<1>7. \A b \in byte : b \in Nat /\ b <= ByteBits - 1
  BY <1>5 DEF Byte, Bit
<1>8. Shifted(byte, i) = {b + p : b \in byte}
  BY <1>2 DEF Shifted
<1>9. Shifted(byte, i) \cap 0 .. IntBits - 1 = Shifted(byte, i)
  BY <1>3, <1>4, <1>5, <1>7, <1>8
<1>10. IntBits - 1 \in Shifted(byte, i) <=> i = IntBytes - 1 /\ ByteBits - 1 \in byte
  <2>1. CASE i = IntBytes - 1
    <3>1. w = p + ByteBits
      BY <1>1, <1>3, <1>4, <2>1, WidthPlaces
    <3> QED
      BY <1>3, <1>5, <1>7, <1>8, <2>1, <3>1
  <2>2. CASE i # IntBytes - 1
    <3>1. i + 1 \in 0 .. IntBytes - 1
      BY <1>1, <2>2
    <3>2. ByteBits * ((i + 1) + 1) <= IntBits /\ ByteBits * ((i + 1) + 1) = p + ByteBits + ByteBits
      BY <1>1, <1>4, <3>1, BytePlaces, WidthPlaces
    <3>3. w - 1 >= p + ByteBits
      BY <1>3, <1>5, <3>2
    <3> QED
      BY <1>3, <1>5, <1>7, <1>8, <2>2, <3>3
  <2> QED
    BY <2>1, <2>2
<1>11. IntShifted(byte, i, oversized) =
         IF IntBits - 1 \in Shifted(byte, i) THEN Shifted(byte, i) \cup (IntBits .. RegBits - 1)
         ELSE Shifted(byte, i)
  <2>1. {b + ((ByteBits * i) % IntBits) : b \in byte} \cap 0 .. IntBits - 1 = Shifted(byte, i)
    <3>1. PICK x : x = (ByteBits * i) % IntBits
      OBVIOUS
    <3>2. {b + x : b \in byte} = Shifted(byte, i)
      BY <1>6, <1>8, <3>1
    <3> QED
      BY <1>9, <3>1, <3>2
  <2>2. PICK bits : bits = {b + ((ByteBits * i) % IntBits) : b \in byte} \cap 0 .. IntBits - 1
    OBVIOUS
  <2>3. IntShifted(byte, i, oversized) =
          IF IntBits - 1 \in bits THEN bits \cup (IntBits .. RegBits - 1) ELSE bits
    BY <1>1, <2>2, Zenon DEF IntShifted
  <2> QED
    BY <2>1, <2>2, <2>3
<1> QED
  BY <1>10, <1>11 DEF SignBits

LEMMA ShiftNothing ==
  ASSUME NEW i, NEW oversized
  PROVE  IntShifted({}, i, oversized) = {} /\ Shifted({}, i) = {}
BY DEF IntShifted, Shifted

LEMMA ShiftsApart ==
  ASSUME NEW byte \in Byte, NEW other \in Byte, NEW i \in Nat, NEW j \in Nat, i < j
  PROVE  Shifted(byte, i) \cap Shifted(other, j) = {}
<1>1. /\ Shifted(byte, i) \subseteq ByteBits * i .. ByteBits * (i + 1) - 1
      /\ Shifted(other, j) \subseteq ByteBits * j .. ByteBits * (j + 1) - 1
  BY ShiftedPlace
<1>2. ByteBits * (i + 1) \in Nat /\ ByteBits * j \in Nat /\ ByteBits * (i + 1) <= ByteBits * j
  <2>1. i + 1 \in Nat /\ i + 1 <= j
    OBVIOUS
  <2> QED
    BY <2>1, BytePlaces
<1> QED
  BY <1>1, <1>2

(* A mask of an int's bytes: what is shifted to its place has no bit of     *)
(* another byte's.                                                          *)
LEMMA IntShiftsApart ==
  ASSUME NEW byte \in Byte, NEW other \in Byte, NEW i \in Nat, NEW j \in Nat, i < j,
         j >= IntBytes => other = {}, NEW oversized
  PROVE  IntShifted(byte, i, oversized) \cap IntShifted(other, j, oversized) = {}
<1>1. CASE j >= IntBytes
  BY <1>1, ShiftNothing
<1>2. CASE ~(j >= IntBytes)
  <2>1. IntBytes \in Nat /\ j \in 0 .. IntBytes - 1 /\ i \in 0 .. IntBytes - 1 /\ i # IntBytes - 1
    BY <1>2, WidthAssumption
  <2>2. IntShifted(byte, i, oversized) = Shifted(byte, i)
    BY <2>1, ShiftInInt DEF SignBits
  <2>3. IntShifted(other, j, oversized) = Shifted(other, j) \cup SignBits(other, j)
    BY <2>1, ShiftInInt
  <2>4. Shifted(byte, i) \cap Shifted(other, j) = {}
    BY ShiftsApart
  <2>5. Shifted(byte, i) \cap SignBits(other, j) = {}
    <3>1. Shifted(byte, i) \subseteq ByteBits * i .. ByteBits * (i + 1) - 1
      BY ShiftedPlace
    <3>2. ByteBits * (i + 1) \in Nat /\ ByteBits * (i + 1) <= IntBits /\ IntBits \in Nat
      <4>1. ByteBits * (i + 1) <= IntBits /\ IntBits \in Nat
        BY <2>1, WidthPlaces
      <4>2. i + 1 \in Nat
        OBVIOUS
      <4>3. ByteBits * (i + 1) \in Nat
        BY <4>2, BytePlaces
      <4> QED
        BY <4>1, <4>3
    <3>3. ByteBits * i \in Nat
      BY BytePlaces
    <3>4. \A x \in Shifted(byte, i) : x \in Nat /\ x < IntBits
      BY <3>1, <3>2, <3>3
    <3>5. \A x \in SignBits(other, j) : ~(x < IntBits)
      BY <3>2, WidthPlaces DEF SignBits
    <3> QED
      BY <3>4, <3>5
  <2> QED
    BY <2>2, <2>3, <2>4, <2>5
<1> QED
  BY <1>1, <1>2

LEMMA IntShiftTyped ==
  ASSUME NEW byte \in Byte, NEW i \in Nat, NEW oversized
  PROVE  /\ IntShifted(byte, i, oversized) \in SUBSET (0 .. RegBits - 1)
         /\ IntShifted(byte, i, oversized) \subseteq IntShifted(Bit, i, oversized)
<1>1. PICK d : d = (ByteBits * i) % IntBits
  OBVIOUS
<1>2. PICK bits : bits = {b + d : b \in byte} \cap 0 .. IntBits - 1
  OBVIOUS
<1>3. PICK all : all = {b + d : b \in Bit} \cap 0 .. IntBits - 1
  OBVIOUS
<1>4. bits \subseteq all /\ bits \subseteq 0 .. IntBits - 1
  BY <1>2, <1>3 DEF Byte
<1>5. /\ IntShifted(byte, i, oversized) =
           IF i >= IntBytes /\ oversized = "zero" THEN {}
           ELSE IF IntBits - 1 \in bits THEN bits \cup (IntBits .. RegBits - 1) ELSE bits
      /\ IntShifted(Bit, i, oversized) =
           IF i >= IntBytes /\ oversized = "zero" THEN {}
           ELSE IF IntBits - 1 \in all THEN all \cup (IntBits .. RegBits - 1) ELSE all
  BY <1>1, <1>2, <1>3, Zenon DEF IntShifted
<1>6. IntBits \in Nat \ {0} /\ RegBits \in Nat /\ IntBits <= RegBits
  BY WidthPlaces
<1>7. 0 .. IntBits - 1 \subseteq 0 .. RegBits - 1 /\ IntBits .. RegBits - 1 \subseteq 0 .. RegBits - 1
  BY <1>6
<1> QED
  BY <1>4, <1>5, <1>7

(* The sum of a mask that an int can express is the union of its bytes.     *)
IntMask(f, i, oversized) == UNION {IntShifted(f.mask[j], j, oversized) : j \in 0 .. i - 1}

LEMMA IntMaskGrows ==
  ASSUME NEW f \in FaultConf, NEW i \in 0 .. RegBytes - 1, NEW oversized
  PROVE  /\ IntMask(f, i + 1, oversized) =
              IntMask(f, i, oversized) \cup IntShifted(f.mask[i], i, oversized)
         /\ f.mask[i] \in Byte
<1>1. i \in Nat /\ i \in Offset
  BY WidthAssumption DEF Offset
<1>2. 0 .. (i + 1) - 1 = (0 .. i - 1) \cup {i}
  BY <1>1
<1> QED
  BY <1>1, <1>2 DEF IntMask, FaultConf, Mask

LEMMA MaskSumIs ==
  ASSUME NEW f \in FaultConf, \A i \in Offset : i >= IntBytes => f.mask[i] = {}, NEW oversized
  PROVE  MaskSum(f, oversized) = IntMask(f, RegBytes, oversized)
<1> DEFINE Sums(g) ==
      g = [i \in 0 .. RegBytes |->
             IF i = 0 THEN {} ELSE Plus(g[i - 1], IntShifted(f.mask[i - 1], i - 1, oversized))]
           s == [i \in 0 .. RegBytes |-> IntMask(f, i, oversized)]
<1>1. RegBytes \in Nat
  BY WidthAssumption
<1>2. ASSUME NEW i \in 0 .. RegBytes - 1
      PROVE  IntMask(f, i + 1, oversized) =
               Plus(IntMask(f, i, oversized), IntShifted(f.mask[i], i, oversized))
  <2>1. \A j \in 0 .. i : j \in Offset /\ j \in Nat /\ f.mask[j] \in Byte
    BY <1>1, WidthAssumption DEF Offset, FaultConf, Mask
  <2>2. PICK v : v = IntShifted(f.mask[i], i, oversized)
    OBVIOUS
  <2>3. \A j \in 0 .. i - 1 :
          /\ IntShifted(f.mask[j], j, oversized) \cap v = {}
          /\ IntShifted(f.mask[j], j, oversized) \in SUBSET (0 .. RegBits - 1)
    <3> SUFFICES ASSUME NEW j \in 0 .. i - 1
                 PROVE  /\ IntShifted(f.mask[j], j, oversized) \cap v = {}
                        /\ IntShifted(f.mask[j], j, oversized) \in SUBSET (0 .. RegBits - 1)
      OBVIOUS
    <3>1. j \in 0 .. i /\ i \in 0 .. i /\ j < i
      BY <1>1
    <3>2. /\ i \in Nat /\ j \in Nat /\ f.mask[i] \in Byte /\ f.mask[j] \in Byte
          /\ (i >= IntBytes => f.mask[i] = {})
      BY <2>1, <3>1
    <3> QED
      BY <2>2, <3>1, <3>2, IntShiftsApart, IntShiftTyped
  <2>4. v \in SUBSET (0 .. RegBits - 1)
    <3>1. i \in 0 .. i
      BY <1>1
    <3> QED
      BY <2>1, <2>2, <3>1, IntShiftTyped
  <2>5. IntMask(f, i, oversized) \in SUBSET (0 .. RegBits - 1) /\ IntMask(f, i, oversized) \cap v = {}
    BY <2>3 DEF IntMask
  <2>6. IntMask(f, i + 1, oversized) = IntMask(f, i, oversized) \cup v
    BY <2>2, IntMaskGrows
  <2> QED
    BY <2>2, <2>4, <2>5, <2>6, PlusDisjoint
<1>3. \A i \in 1 .. RegBytes : s[i] = Plus(s[i - 1], IntShifted(f.mask[i - 1], i - 1, oversized))
  <2> SUFFICES ASSUME NEW i \in 1 .. RegBytes
               PROVE  s[i] = Plus(s[i - 1], IntShifted(f.mask[i - 1], i - 1, oversized))
    OBVIOUS
  <2>1. i - 1 \in 0 .. RegBytes - 1 /\ i - 1 \in 0 .. RegBytes /\ i \in 0 .. RegBytes /\ (i - 1) + 1 = i
    BY <1>1
  <2>2. PICK j : j = i - 1
    OBVIOUS
  <2>3. s[i] = IntMask(f, i, oversized) /\ s[j] = IntMask(f, j, oversized)
    BY <2>1, <2>2
  <2>4. IntMask(f, j + 1, oversized) =
          Plus(IntMask(f, j, oversized), IntShifted(f.mask[j], j, oversized))
    BY <1>2, <2>1, <2>2
  <2> HIDE DEF s
  <2> QED
    BY <2>1, <2>2, <2>3, <2>4
<1>4. s[0] = {}
  <2>1. 0 .. 0 - 1 = {} /\ 0 \in 0 .. RegBytes
    BY <1>1
  <2> QED
    BY <2>1 DEF IntMask
<1>5. s = [i \in 0 .. RegBytes |-> s[i]] /\ s[RegBytes] = IntMask(f, RegBytes, oversized)
  BY <1>1
<1> HIDE DEF s
<1>6. Sums(s)
  <2>1. \A i \in 0 .. RegBytes :
          s[i] = IF i = 0 THEN {} ELSE Plus(s[i - 1], IntShifted(f.mask[i - 1], i - 1, oversized))
    <3>1. \A i \in 0 .. RegBytes : i # 0 => i \in 1 .. RegBytes
      BY <1>1
    <3> QED
      BY <1>3, <1>4, <3>1
  <2> QED
    BY <1>5, <2>1, Zenon
<1>7. PICK g : g = CHOOSE h : Sums(h)
  OBVIOUS
<1>8. Sums(g)
  <2> HIDE DEF Sums
  <2> QED
    BY <1>6, <1>7
<1>9. MaskSum(f, oversized) = g[RegBytes]
  BY <1>7, Zenon DEF MaskSum
<1> DEFINE T == {k \in 0 .. RegBytes : g[k] # s[k]}
<1>10. ASSUME T # {} PROVE FALSE
  <2>1. T \subseteq Nat
    BY <1>1
  <2>2. PICK x \in T : \A y \in T : x <= y
    <3> HIDE DEF T
    <3> QED
      BY <1>10, <2>1, Least
  <2>3. x \in 0 .. RegBytes /\ g[x] # s[x]
    BY <2>2
  <2>4. x # 0
    BY <1>4, <1>8, <2>3
  <2>5. x - 1 \in 0 .. RegBytes /\ x \in 1 .. RegBytes /\ ~(x <= x - 1)
    BY <1>1, <2>3, <2>4
  <2>6. g[x - 1] = s[x - 1]
    BY <2>2, <2>5
  <2>7. g[x] = Plus(g[x - 1], IntShifted(f.mask[x - 1], x - 1, oversized))
    BY <1>8, <2>3, <2>4, Zenon
  <2> QED
    BY <1>3, <2>3, <2>5, <2>6, <2>7
<1>11. g[RegBytes] = s[RegBytes]
  BY <1>1, <1>10
<1> QED
  BY <1>5, <1>9, <1>11

(* Within a word the sign of a shifted byte shows nowhere, if the fault     *)
(* leaves the top bit of the int alone or the word is no wider.             *)
WordOf(w) == 0 .. ByteBits * w - 1

LEMMA IntShiftInWord ==
  ASSUME NEW w \in 1 .. RegBytes, NEW byte \in Byte, NEW i \in 0 .. IntBytes - 1, NEW oversized,
         w > IntBytes => ~(i = IntBytes - 1 /\ ByteBits - 1 \in byte)
  PROVE  \A x \in WordOf(w) : x \in IntShifted(byte, i, oversized) <=> x \in Shifted(byte, i)
<1>1. IntShifted(byte, i, oversized) = Shifted(byte, i) \cup SignBits(byte, i)
  BY ShiftInInt
<1>2. \A x \in WordOf(w) : x \notin SignBits(byte, i)
  <2>1. CASE w > IntBytes
    BY <2>1 DEF SignBits
  <2>2. CASE ~(w > IntBytes)
    <3>1. w \in Nat /\ IntBytes \in Nat /\ w <= IntBytes
      BY <2>2, WidthAssumption
    <3>2. ByteBits * w \in Nat /\ ByteBits * w <= IntBits /\ IntBits \in Nat
      BY <3>1, BytePlaces, WidthPlaces
    <3>3. \A x \in WordOf(w) : ~(x >= IntBits)
      BY <3>2 DEF WordOf
    <3>4. \A x \in SignBits(byte, i) : x >= IntBits
      BY <3>2, WidthPlaces DEF SignBits
    <3> QED
      BY <3>3, <3>4
  <2> QED
    BY <2>1, <2>2
<1> QED
  BY <1>1, <1>2

LEMMA MaskSumInWord ==
  ASSUME NEW f \in FaultConf, NEW w \in 1 .. RegBytes, Narrow(f, w), f.model # "OVERWRITE",
         NEW oversized
  PROVE  \A x \in WordOf(w) : x \in MaskSum(f, oversized) <=> x \in MaskedBits(f)
<1>1. \A i \in Offset : i >= IntBytes => f.mask[i] = {}
  BY DEF Narrow
<1>2. MaskSum(f, oversized) = IntMask(f, RegBytes, oversized)
  BY <1>1, MaskSumIs
<1>3. ASSUME NEW x \in WordOf(w), NEW i \in 0 .. RegBytes - 1
      PROVE  x \in IntShifted(f.mask[i], i, oversized) <=> x \in Shifted(f.mask[i], i)
  <2>1. i \in Offset /\ f.mask[i] \in Byte /\ i \in Nat /\ IntBytes \in Nat
    BY WidthAssumption DEF Offset, FaultConf, Mask
  <2>2. CASE i >= IntBytes
    BY <1>1, <2>1, <2>2, ShiftNothing
  <2>3. CASE ~(i >= IntBytes)
    <3>1. i \in 0 .. IntBytes - 1
      BY <2>1, <2>3
    <3>2. w > IntBytes => ~(i = IntBytes - 1 /\ ByteBits - 1 \in f.mask[i])
      BY DEF Narrow
    <3> QED
      BY <2>1, <3>1, <3>2, IntShiftInWord
  <2> QED
    BY <2>2, <2>3
<1> QED
  BY <1>2, <1>3 DEF IntMask, MaskedBits

(* The register before byte i is overwritten: what the bytes before it set  *)
(* and none after cleared, and of the register what none of them cleared.   *)
Kept(f, reg, i, oversized) ==
  {x \in reg : \A j \in 0 .. i - 1 : x \notin IntShifted(Bit, j, oversized)}
    \cup {x \in 0 .. RegBits - 1 : \E j \in 0 .. i - 1 :
            /\ x \in IntShifted(f.mask[j], j, oversized)
            /\ \A k \in j + 1 .. i - 1 : x \notin IntShifted(Bit, k, oversized)}

LEMMA KeptGrows ==
  ASSUME NEW f \in FaultConf, NEW reg \in Register, NEW i \in 0 .. RegBytes - 1, NEW oversized
  PROVE  Kept(f, reg, i + 1, oversized) =
           Plus(Kept(f, reg, i, oversized) \ IntShifted(Bit, i, oversized),
                IntShifted(f.mask[i], i, oversized))
<1>1. i \in Nat /\ i \in Offset /\ f.mask[i] \in Byte
  BY WidthAssumption DEF Offset, FaultConf, Mask
<1>2. PICK v : v = IntShifted(f.mask[i], i, oversized)
  OBVIOUS
<1>3. PICK c : c = IntShifted(Bit, i, oversized)
  OBVIOUS
<1>4. v \subseteq 0 .. RegBits - 1 /\ v \subseteq c
  BY <1>1, <1>2, <1>3, IntShiftTyped
<1>5. PICK before : before = Kept(f, reg, i, oversized)
  OBVIOUS
<1>6. before \subseteq 0 .. RegBits - 1
  BY <1>5 DEF Kept, Register
<1>7. Plus(before \ c, v) = (before \ c) \cup v
  BY <1>4, <1>6, PlusDisjoint
<1>8. \A j : j \in 0 .. (i + 1) - 1 <=> j \in 0 .. i - 1 \/ j = i
  BY <1>1
<1>9. \A j \in 0 .. i - 1 : \A k : k \in j + 1 .. (i + 1) - 1 <=> k \in j + 1 .. i - 1 \/ k = i
  BY <1>1
<1>10. \A k : k \notin i + 1 .. (i + 1) - 1
  BY <1>1
<1>11. ASSUME NEW x PROVE x \in Kept(f, reg, i + 1, oversized) <=> x \in (before \ c) \cup v
  <2> DEFINE OldIn == \A j \in 0 .. i - 1 : x \notin IntShifted(Bit, j, oversized)
             SetIn == \E j \in 0 .. i - 1 : /\ x \in IntShifted(f.mask[j], j, oversized)
                        /\ \A k \in j + 1 .. i - 1 : x \notin IntShifted(Bit, k, oversized)
  <2>1. x \in before <=> (x \in reg /\ OldIn) \/ (x \in 0 .. RegBits - 1 /\ SetIn)
    BY <1>5 DEF Kept
  <2>2. (\A j \in 0 .. (i + 1) - 1 : x \notin IntShifted(Bit, j, oversized)) <=> OldIn /\ x \notin c
    BY <1>3, <1>8, Zenon
  <2>3. (\E j \in 0 .. (i + 1) - 1 :
            /\ x \in IntShifted(f.mask[j], j, oversized)
            /\ \A k \in j + 1 .. (i + 1) - 1 : x \notin IntShifted(Bit, k, oversized))
        <=> (SetIn /\ x \notin c) \/ x \in v
    BY <1>2, <1>3, <1>8, <1>9, <1>10, Zenon
  <2>4. x \in Kept(f, reg, i + 1, oversized) <=>
          \/ x \in reg /\ OldIn /\ x \notin c
          \/ x \in 0 .. RegBits - 1 /\ ((SetIn /\ x \notin c) \/ x \in v)
    BY <2>2, <2>3, Zenon DEF Kept
  <2> HIDE DEF OldIn, SetIn
  <2> QED
    BY <1>4, <2>1, <2>4
<1>12. Kept(f, reg, i + 1, oversized) = (before \ c) \cup v
  BY <1>11
<1> QED
  BY <1>2, <1>3, <1>5, <1>7, <1>12

LEMMA OverwrittenIs ==
  ASSUME NEW f \in FaultConf, NEW reg \in Register, NEW oversized
  PROVE  \A i \in 0 .. RegBytes : Overwritten(f, reg, oversized)[i] = Kept(f, reg, i, oversized)
<1> DEFINE Runs(g) ==
      g = [i \in 0 .. RegBytes |->
             IF i = 0 THEN reg
             ELSE Plus(g[i - 1] \ IntShifted(Bit, i - 1, oversized),
                       IntShifted(f.mask[i - 1], i - 1, oversized))]
           s == [i \in 0 .. RegBytes |-> Kept(f, reg, i, oversized)]
<1>1. RegBytes \in Nat
  BY WidthAssumption
<1>2. \A i \in 1 .. RegBytes :
        s[i] = Plus(s[i - 1] \ IntShifted(Bit, i - 1, oversized),
                    IntShifted(f.mask[i - 1], i - 1, oversized))
  <2> SUFFICES ASSUME NEW i \in 1 .. RegBytes
               PROVE  s[i] = Plus(s[i - 1] \ IntShifted(Bit, i - 1, oversized),
                                  IntShifted(f.mask[i - 1], i - 1, oversized))
    OBVIOUS
  <2>1. i - 1 \in 0 .. RegBytes - 1 /\ i - 1 \in 0 .. RegBytes /\ i \in 0 .. RegBytes /\ (i - 1) + 1 = i
    BY <1>1
  <2>2. PICK j : j = i - 1
    OBVIOUS
  <2>3. s[i] = Kept(f, reg, i, oversized) /\ s[j] = Kept(f, reg, j, oversized)
    BY <2>1, <2>2
  <2>4. Kept(f, reg, j + 1, oversized) =
          Plus(Kept(f, reg, j, oversized) \ IntShifted(Bit, j, oversized),
               IntShifted(f.mask[j], j, oversized))
    BY <2>1, <2>2, KeptGrows
  <2> HIDE DEF s
  <2> QED
    BY <2>1, <2>2, <2>3, <2>4
<1>3. s[0] = reg
  <2>1. (\A j : j \notin 0 .. 0 - 1) /\ 0 \in 0 .. RegBytes
    BY <1>1
  <2>2. Kept(f, reg, 0, oversized) = reg
    BY <2>1 DEF Kept
  <2> QED
    BY <2>1, <2>2
<1>4. /\ s = [i \in 0 .. RegBytes |-> s[i]]
      /\ \A i \in 0 .. RegBytes : s[i] = Kept(f, reg, i, oversized)
  OBVIOUS
<1> HIDE DEF s
<1>5. Runs(s)
  <2>1. \A i \in 0 .. RegBytes :
          s[i] = IF i = 0 THEN reg
                 ELSE Plus(s[i - 1] \ IntShifted(Bit, i - 1, oversized),
                           IntShifted(f.mask[i - 1], i - 1, oversized))
    <3>1. \A i \in 0 .. RegBytes : i # 0 => i \in 1 .. RegBytes
      BY <1>1
    <3> QED
      BY <1>2, <1>3, <3>1
  <2> QED
    BY <1>4, <2>1, Zenon
<1>6. PICK g : g = CHOOSE h : Runs(h)
  OBVIOUS
<1>7. Runs(g)
  <2> HIDE DEF Runs
  <2> QED
    BY <1>5, <1>6
<1>8. Overwritten(f, reg, oversized) = g
  BY <1>6, Zenon DEF Overwritten
<1> DEFINE T == {k \in 0 .. RegBytes : g[k] # s[k]}
<1>9. ASSUME T # {} PROVE FALSE
  <2>1. T \subseteq Nat
    BY <1>1
  <2>2. PICK x \in T : \A y \in T : x <= y
    <3> HIDE DEF T
    <3> QED
      BY <1>9, <2>1, Least
  <2>3. x \in 0 .. RegBytes /\ g[x] # s[x]
    BY <2>2
  <2>4. x # 0
    BY <1>3, <1>7, <2>3
  <2>5. x - 1 \in 0 .. RegBytes /\ x \in 1 .. RegBytes /\ ~(x <= x - 1)
    BY <1>1, <2>3, <2>4
  <2>6. g[x - 1] = s[x - 1]
    BY <2>2, <2>5
  <2>7. g[x] = Plus(g[x - 1] \ IntShifted(Bit, x - 1, oversized),
                    IntShifted(f.mask[x - 1], x - 1, oversized))
    BY <1>7, <2>3, <2>4, Zenon
  <2> QED
    BY <1>2, <2>3, <2>5, <2>6, <2>7
<1>10. \A k \in 0 .. RegBytes : g[k] = s[k]
  BY <1>9
<1> QED
  BY <1>4, <1>8, <1>10

(* Within a word the overwritten bytes are the fault's and the others the   *)
(* register's own.                                                          *)
Cleared(i) == UNION {Shifted(Bit, j) : j \in 0 .. i - 1}
Overlay(f, i) == UNION {Shifted(f.mask[j], j) : j \in 0 .. i - 1}

LEMMA KeptInWord ==
  ASSUME NEW f \in FaultConf, NEW w \in 1 .. RegBytes, Narrow(f, w), f.model = "OVERWRITE",
         NEW reg \in Register, NEW i \in 0 .. f.num_bytes, NEW oversized
  PROVE  \A x \in WordOf(w) :
           x \in Kept(f, reg, i, oversized) <=> x \in (reg \ Cleared(i)) \cup Overlay(f, i)
<1>1. /\ f.num_bytes \in Nat /\ IntBytes \in Nat /\ f.num_bytes <= IntBytes
      /\ w > IntBytes => f.num_bytes < IntBytes
  BY WidthAssumption DEF Narrow, FaultConf
<1>2. ASSUME NEW x \in WordOf(w), NEW j \in 0 .. i - 1
      PROVE  /\ x \in IntShifted(Bit, j, oversized) <=> x \in Shifted(Bit, j)
             /\ x \in IntShifted(f.mask[j], j, oversized) <=> x \in Shifted(f.mask[j], j)
             /\ x \in Shifted(f.mask[j], j) =>
                  \A k \in j + 1 .. i - 1 : x \notin Shifted(Bit, k)
  <2>1. j \in 0 .. IntBytes - 1 /\ (w > IntBytes => j # IntBytes - 1) /\ j \in Nat
    BY <1>1
  <2>2. f.mask[j] \in Byte /\ Bit \in Byte
    BY <2>1, WidthAssumption DEF FaultConf, Mask, Offset, Byte
  <2>3. ASSUME NEW k \in j + 1 .. i - 1, x \in Shifted(f.mask[j], j) PROVE x \notin Shifted(Bit, k)
    <3>1. k \in Nat /\ j < k
      BY <2>1
    <3> QED
      BY <2>1, <2>2, <2>3, <3>1, ShiftsApart
  <2> QED
    BY <2>1, <2>2, <2>3, IntShiftInWord
<1>3. WordOf(w) \subseteq 0 .. RegBits - 1
  <2>1. w \in Nat /\ RegBytes \in Nat /\ w <= RegBytes
    BY WidthAssumption
  <2>2. ByteBits * w \in Nat /\ ByteBits * w <= RegBits /\ RegBits \in Nat
    BY <2>1, BytePlaces, WidthPlaces DEF RegBits
  <2> QED
    BY <2>2 DEF WordOf
<1>4. \A j \in 0 .. i - 1 : \A k \in j + 1 .. i - 1 : k \in 0 .. i - 1
  BY <1>1
<1> SUFFICES ASSUME NEW x \in WordOf(w)
             PROVE  x \in Kept(f, reg, i, oversized) <=> x \in (reg \ Cleared(i)) \cup Overlay(f, i)
  OBVIOUS
<1>5. x \in Cleared(i) <=> \E j \in 0 .. i - 1 : x \in IntShifted(Bit, j, oversized)
  <2>1. x \in Cleared(i) <=> \E j \in 0 .. i - 1 : x \in Shifted(Bit, j)
    BY DEF Cleared
  <2> QED
    BY <1>2, <2>1
<1>6. x \in Overlay(f, i) <=>
        \E j \in 0 .. i - 1 : /\ x \in IntShifted(f.mask[j], j, oversized)
                              /\ \A k \in j + 1 .. i - 1 : x \notin IntShifted(Bit, k, oversized)
  <2>1. x \in Overlay(f, i) <=> \E j \in 0 .. i - 1 : x \in Shifted(f.mask[j], j)
    BY DEF Overlay
  <2> QED
    BY <1>2, <1>4, <2>1
<1>7. x \in 0 .. RegBits - 1
  BY <1>3
<1> QED
  BY <1>5, <1>6, <1>7, Zenon DEF Kept

(* What an injection does to a word, and what it saves of it.               *)
Restored(restore) == UNION {Shifted(restore[i], i) : i \in 0 .. RegBytes - 1}

LEMMA ByteOfShifted ==
  ASSUME NEW reg, NEW byte \in Byte, NEW i
  PROVE  /\ Shifted(ByteOf(reg, i) \cap byte, i) = reg \cap Shifted(byte, i)
         /\ Shifted(ByteOf(reg, i), i) = reg \cap Shifted(Bit, i)
BY DEF Shifted, ByteOf, Byte

LEMMA RegisterTargetIs ==
  ASSUME NEW f \in FaultConf, NEW w \in 1 .. RegBytes, Narrow(f, w)
  PROVE  /\ f.model # "OVERWRITE" => RegisterTarget(f) = MaskedBits(f)
         /\ f.model = "OVERWRITE" =>
              /\ f.num_bytes \in 0 .. RegBytes /\ RegNumBytes(f) = f.num_bytes
              /\ \A i \in Offset : i >= f.num_bytes => f.mask[i] = {}
              /\ RegisterTarget(f) = Cleared(f.num_bytes)
              /\ MaskedBits(f) = Overlay(f, f.num_bytes)
         /\ MaskedBits(f) \subseteq RegisterTarget(f)
<1>1. /\ RegBytes \in Nat /\ IntBytes \in Nat /\ MaskBytes \in Nat /\ f.num_bytes \in Nat
      /\ IntBytes <= RegBytes /\ RegBytes <= MaskBytes
  BY WidthAssumption DEF FaultConf
<1>2. ASSUME f.model # "OVERWRITE" PROVE RegisterTarget(f) = MaskedBits(f)
  BY <1>2 DEF RegisterTarget, MaskedBits
<1>3. ASSUME f.model = "OVERWRITE"
      PROVE  /\ f.num_bytes \in 0 .. RegBytes /\ RegNumBytes(f) = f.num_bytes
             /\ \A i \in Offset : i >= f.num_bytes => f.mask[i] = {}
             /\ RegisterTarget(f) = Cleared(f.num_bytes)
             /\ MaskedBits(f) = Overlay(f, f.num_bytes)
             /\ Overlay(f, f.num_bytes) \subseteq Cleared(f.num_bytes)
  <2>1. f.num_bytes <= IntBytes
    BY <1>3 DEF Narrow
  <2>2. f.num_bytes \in 0 .. RegBytes /\ RegNumBytes(f) = f.num_bytes /\ NumBytes(f) = f.num_bytes
    BY <1>1, <2>1 DEF RegNumBytes, NumBytes, Lower
  <2>3. \A i \in Offset : i >= f.num_bytes => f.mask[i] = {}
    BY <1>3, <2>2 DEF Narrow, MaskFits
  <2>4. \A i \in 0 .. RegBytes - 1 :
          /\ i \in Offset /\ i \in Nat
          /\ i \in 0 .. f.num_bytes - 1 <=> i < f.num_bytes
          /\ i >= f.num_bytes <=> ~(i < f.num_bytes)
    BY <1>1 DEF Offset
  <2>5. \A i \in 0 .. f.num_bytes - 1 : i \in 0 .. RegBytes - 1
    BY <1>1, <2>2
  <2>6. \A x : x \in RegisterTarget(f) <=> x \in Cleared(f.num_bytes)
    <3>1. \A x : x \in RegisterTarget(f) <=>
            \E i \in 0 .. RegBytes - 1 : x \in Shifted(IF i < f.num_bytes THEN Bit ELSE {}, i)
      BY <1>3 DEF RegisterTarget
    <3>2. \A i, x : x \in Shifted(IF i < f.num_bytes THEN Bit ELSE {}, i)
                    <=> i < f.num_bytes /\ x \in Shifted(Bit, i)
      BY DEF Shifted
    <3> QED
      BY <2>4, <2>5, <3>1, <3>2, Zenon DEF Cleared
  <2>7. \A x : x \in MaskedBits(f) <=> x \in Overlay(f, f.num_bytes)
    <3>1. \A i, x : f.mask[i] = {} => x \notin Shifted(f.mask[i], i)
      BY DEF Shifted
    <3> QED
      BY <2>3, <2>4, <2>5, <3>1, Zenon DEF MaskedBits, Overlay
  <2>8. Overlay(f, f.num_bytes) \subseteq Cleared(f.num_bytes)
    <3>1. \A i \in 0 .. f.num_bytes - 1 : f.mask[i] \subseteq Bit
      BY <2>4, <2>5 DEF FaultConf, Mask, Byte
    <3>2. \A i \in 0 .. f.num_bytes - 1 : Shifted(f.mask[i], i) \subseteq Shifted(Bit, i)
      BY <3>1 DEF Shifted
    <3> QED
      BY <3>2 DEF Overlay, Cleared
  <2> QED
    BY <2>2, <2>3, <2>6, <2>7, <2>8
<1> QED
  BY <1>2, <1>3

LEMMA RegisterFaultIs ==
  ASSUME NEW f \in FaultConf, NEW w \in 1 .. RegBytes, Narrow(f, w),
         NEW reg \in SUBSET WordOf(w), NEW oversized
  PROVE  /\ inject_register_fault(f, reg, oversized) \cap WordOf(w)
              = ModelOnRegister(f, reg) \cap WordOf(w)
         /\ Restored(RegisterRestore(f, reg, oversized)) \cap WordOf(w)
              = reg \cap RegisterTarget(f)
<1>1. reg \in Register
  <2>1. w \in Nat /\ RegBytes \in Nat /\ w <= RegBytes
    BY WidthAssumption
  <2>2. ByteBits * w \in Nat /\ ByteBits * w <= RegBits /\ RegBits \in Nat
    BY <2>1, BytePlaces, WidthPlaces DEF RegBits
  <2> QED
    BY <2>2 DEF WordOf, Register
<1>2. \A i \in 0 .. RegBytes - 1 : i \in Offset /\ f.mask[i] \in Byte /\ i < RegBytes
  BY WidthAssumption DEF Offset, FaultConf, Mask
<1>3. PICK restore : restore = RegisterRestore(f, reg, oversized)
  OBVIOUS
<1>4. CASE f.model # "OVERWRITE"
  <2>1. PICK m : m = MaskSum(f, oversized)
    OBVIOUS
  <2>2. PICK M : M = MaskedBits(f)
    OBVIOUS
  <2>3. \A x \in WordOf(w) : x \in m <=> x \in M
    BY <1>4, <2>1, <2>2, MaskSumInWord
  <2>4. inject_register_fault(f, reg, oversized) \cap WordOf(w)
          = ModelOnRegister(f, reg) \cap WordOf(w)
    <3>1. f.model \in {"SET0", "SET1", "TOGGLE"}
      BY <1>4 DEF FaultConf, FaultModel
    <3>2. inject_register_fault(f, reg, oversized) =
            CASE f.model = "SET0" -> reg \ m
              [] f.model = "SET1" -> reg \cup m
              [] f.model = "TOGGLE" -> (reg \ m) \cup (m \ reg)
      BY <2>1, <3>1 DEF inject_register_fault
    <3>3. ModelOnRegister(f, reg) =
            CASE f.model = "SET0" -> reg \ M
              [] f.model = "SET1" -> reg \cup M
              [] f.model = "TOGGLE" -> (reg \ M) \cup (M \ reg)
      BY <2>2, <3>1 DEF ModelOnRegister
    <3> QED
      BY <2>3, <3>1, <3>2, <3>3
  <2>5. \A i \in 0 .. RegBytes - 1 : Shifted(restore[i], i) = reg \cap Shifted(f.mask[i], i)
    <3>1. \A i \in 0 .. RegBytes - 1 : restore[i] = ByteOf(reg, i) \cap f.mask[i]
      BY <1>2, <1>3, <1>4 DEF RegisterRestore
    <3> SUFFICES ASSUME NEW i \in 0 .. RegBytes - 1
                 PROVE  Shifted(restore[i], i) = reg \cap Shifted(f.mask[i], i)
      OBVIOUS
    <3>2. PICK byte \in Byte : byte = f.mask[i]
      BY <1>2
    <3>3. Shifted(ByteOf(reg, i) \cap byte, i) = reg \cap Shifted(byte, i)
      BY ByteOfShifted
    <3> QED
      BY <3>1, <3>2, <3>3
  <2>6. Restored(restore) = reg \cap MaskedBits(f)
    BY <2>5 DEF Restored, MaskedBits
  <2>7. RegisterTarget(f) = MaskedBits(f)
    BY <1>4, RegisterTargetIs
  <2> QED
    BY <1>3, <2>4, <2>6, <2>7
<1>5. CASE f.model = "OVERWRITE"
  <2>1. PICK n \in 0 .. RegBytes : n = f.num_bytes /\ n = RegNumBytes(f)
    BY <1>5, RegisterTargetIs
  <2>2. /\ \A i \in Offset : i >= n => f.mask[i] = {}
        /\ RegisterTarget(f) = Cleared(n) /\ MaskedBits(f) = Overlay(f, n)
    BY <1>5, <2>1, RegisterTargetIs
  <2>3. n \in Nat /\ RegBytes \in Nat
    BY WidthAssumption
  <2>4. \A i \in 0 .. n : \A x \in WordOf(w) :
          x \in Overwritten(f, reg, oversized)[i] <=> x \in (reg \ Cleared(i)) \cup Overlay(f, i)
    <3> SUFFICES ASSUME NEW i \in 0 .. n
                 PROVE  \A x \in WordOf(w) : x \in Overwritten(f, reg, oversized)[i]
                                               <=> x \in (reg \ Cleared(i)) \cup Overlay(f, i)
      OBVIOUS
    <3>1. i \in 0 .. RegBytes
      BY <2>3
    <3>2. Overwritten(f, reg, oversized)[i] = Kept(f, reg, i, oversized)
      BY <1>1, <3>1, OverwrittenIs
    <3>3. i \in 0 .. f.num_bytes
      BY <2>1
    <3>4. \A x \in WordOf(w) :
            x \in Kept(f, reg, i, oversized) <=> x \in (reg \ Cleared(i)) \cup Overlay(f, i)
      BY <1>1, <1>5, <3>3, KeptInWord
    <3> QED
      BY <3>2, <3>4
  <2>5. inject_register_fault(f, reg, oversized) \cap WordOf(w)
          = ModelOnRegister(f, reg) \cap WordOf(w)
    <3>1. inject_register_fault(f, reg, oversized) = Overwritten(f, reg, oversized)[n]
      BY <1>5, <2>1 DEF inject_register_fault
    <3>2. ModelOnRegister(f, reg) = (reg \ Cleared(n)) \cup Overlay(f, n)
      BY <1>5, <2>2 DEF ModelOnRegister
    <3>3. n \in 0 .. n
      BY <2>3
    <3> QED
      BY <2>4, <3>1, <3>2, <3>3
  <2>6. ASSUME NEW i \in 0 .. RegBytes - 1, NEW x \in WordOf(w)
        PROVE  x \in Shifted(restore[i], i) <=> x \in reg /\ i < n /\ x \in Shifted(Bit, i)
    <3>1. i \in Nat /\ i \in Offset
      BY <1>2
    <3>2. CASE i < n
      <4>1. restore[i] = ByteOf(Overwritten(f, reg, oversized)[i], i)
        BY <1>3, <1>5, <2>1, <3>1, <3>2 DEF RegisterRestore
      <4>2. Shifted(restore[i], i) = Overwritten(f, reg, oversized)[i] \cap Shifted(Bit, i)
        <5>1. Bit \in Byte
          BY DEF Byte
        <5> QED
          BY <4>1, <5>1, ByteOfShifted
      <4>3. i \in 0 .. n
        BY <2>3, <3>1, <3>2
      <4>4. \A j \in 0 .. i - 1 : Shifted(Bit, j) \cap Shifted(Bit, i) = {}
                                 /\ Shifted(f.mask[j], j) \cap Shifted(Bit, i) = {}
        <5> SUFFICES ASSUME NEW j \in 0 .. i - 1
                     PROVE  /\ Shifted(Bit, j) \cap Shifted(Bit, i) = {}
                            /\ Shifted(f.mask[j], j) \cap Shifted(Bit, i) = {}
          OBVIOUS
        <5>1. j \in Nat /\ j < i /\ j \in 0 .. RegBytes - 1
          BY <2>3, <3>1
        <5>2. Bit \in Byte /\ f.mask[j] \in Byte
          BY <1>2, <5>1 DEF Byte
        <5> QED
          BY <3>1, <5>1, <5>2, ShiftsApart
      <4>5. x \in Shifted(Bit, i) => x \notin Cleared(i) /\ x \notin Overlay(f, i)
        BY <4>4 DEF Cleared, Overlay
      <4> QED
        BY <2>4, <3>2, <4>2, <4>3, <4>5
    <3>3. CASE ~(i < n)
      <4>1. f.mask[i] = {}
        BY <2>2, <2>3, <3>1, <3>3
      <4>2. restore[i] = {}
        BY <1>2, <1>3, <2>1, <3>1, <3>3, <4>1 DEF RegisterRestore
      <4> QED
        BY <3>3, <4>2 DEF Shifted
    <3> QED
      BY <3>2, <3>3
  <2>7. \A x \in WordOf(w) : x \in Restored(restore) <=> x \in reg /\ x \in Cleared(n)
    <3>1. \A i \in 0 .. RegBytes - 1 : i < n => i \in 0 .. n - 1
      BY <2>3
    <3>2. \A i \in 0 .. n - 1 : i \in 0 .. RegBytes - 1 /\ i < n
      BY <2>3
    <3> QED
      BY <2>6, <3>1, <3>2, Zenon DEF Restored, Cleared
  <2> QED
    BY <1>3, <2>2, <2>5, <2>7
<1> QED
  BY <1>4, <1>5

(* Injecting a fault into a register and reverting it gives the register    *)
(* back.                                                                    *)
LEMMA RegisterReversal ==
  ASSUME NEW f \in FaultConf, NEW w \in 1 .. RegBytes, Narrow(f, w),
         NEW reg \in SUBSET WordOf(w), NEW saved, saved = reg \cap RegisterTarget(f),
         NEW after, after = ModelOnRegister(f, reg) \cap WordOf(w)
  PROVE  ((after \ MaskedBits(f)) \cup saved) \cap WordOf(w) = reg
<1>1. PICK M : M = MaskedBits(f)
  OBVIOUS
<1>2. PICK T : T = RegisterTarget(f)
  OBVIOUS
<1>3. M \subseteq T /\ (f.model # "OVERWRITE" => T = M)
  BY <1>1, <1>2, RegisterTargetIs
<1>4. f.model \in {"SET0", "SET1", "TOGGLE", "OVERWRITE"}
  BY DEF FaultConf, FaultModel
<1>5. CASE f.model = "SET0"
  BY <1>1, <1>2, <1>3, <1>5 DEF ModelOnRegister
<1>6. CASE f.model = "SET1"
  BY <1>1, <1>2, <1>3, <1>6 DEF ModelOnRegister
<1>7. CASE f.model = "TOGGLE"
  BY <1>1, <1>2, <1>3, <1>7 DEF ModelOnRegister
<1>8. CASE f.model = "OVERWRITE"
  BY <1>1, <1>2, <1>3, <1>8 DEF ModelOnRegister
<1> QED
  BY <1>4, <1>5, <1>6, <1>7, <1>8

(* Clearing and setting bits a fault is not about commutes with it.         *)
Apart(M, S, t) == (M \cup S) \cap t = {}
MaskInTarget(f) == MaskedBits(f) \subseteq RegisterTarget(f)
Undone(v, M, S, W) == ((v \ M) \cup S) \cap W

LEMMA RegisterCommute ==
  ASSUME NEW g \in FaultConf, MaskInTarget(g),
         NEW M, NEW S, Apart(M, S, RegisterTarget(g)), NEW W, NEW v
  PROVE  ModelOnRegister(g, Undone(v, M, S, W)) \cap W
           = Undone(ModelOnRegister(g, v) \cap W, M, S, W)
<1>1. PICK m : m = MaskedBits(g)
  OBVIOUS
<1>2. PICK t : t = RegisterTarget(g)
  OBVIOUS
<1>3. m \subseteq t /\ (M \cup S) \cap t = {}
  BY <1>1, <1>2 DEF Apart, MaskInTarget
<1>4. g.model \in {"SET0", "SET1", "TOGGLE", "OVERWRITE"}
  BY DEF FaultConf, FaultModel
<1>5. CASE g.model = "SET0"
  BY <1>1, <1>2, <1>3, <1>5 DEF ModelOnRegister, Undone
<1>6. CASE g.model = "SET1"
  BY <1>1, <1>2, <1>3, <1>6 DEF ModelOnRegister, Undone
<1>7. CASE g.model = "TOGGLE"
  BY <1>1, <1>2, <1>3, <1>7 DEF ModelOnRegister, Undone
<1>8. CASE g.model = "OVERWRITE"
  BY <1>1, <1>2, <1>3, <1>8 DEF ModelOnRegister, Undone
<1> QED
  BY <1>4, <1>5, <1>6, <1>7, <1>8

-----------------------------------------------------------------------------
(* Registers under the faults in force, as memory above: the values a       *)
(* register goes through begin with the guest's and end with its own, and   *)
(* what was saved for a reversal are the target's bits ahead of the fault.  *)
RegisterLink(r, k, before, after) ==
  LET f == events[k].fault
  IN /\ after = EffectOnRegister(r, k, before)
     /\ RegisterHits(r, k) =>
          /\ Restored(restoremask[f]) \cap WordBits = before \cap RegisterTarget(pack[f])
          /\ Proper(f)

RegisterChain(r, s) ==
  /\ s \in [0 .. Len(events) -> SUBSET WordBits]
  /\ s[0] = golden_registers[r] /\ s[Len(events)] = registers[r]
  /\ \A k \in DOMAIN events : RegisterLink(r, k, s[k - 1], s[k])

RegisterTypes ==
  /\ word \in 1 .. RegBytes
  /\ registers \in [Regs -> SUBSET WordBits] /\ golden_registers \in [Regs -> SUBSET WordBits]

RegistersSound == RegisterTypes /\ \A r \in Regs \ mixed_registers : \E s : RegisterChain(r, s)

LEMMA WordBitsIs == WordBits = WordOf(word)
BY DEF WordBits, WordOf

LEMMA RegisterChainIsFaulted ==
  ASSUME EventsSound, NEW r \in Regs, NEW s, RegisterChain(r, s)
  PROVE  registers[r] = FaultedRegister(r)
<1> DEFINE n == Len(events)
           Defines(g) == g = [k \in 0 .. n |-> IF k = 0 THEN golden_registers[r]
                                               ELSE EffectOnRegister(r, k, g[k - 1])]
<1>1. n \in Nat /\ DOMAIN events = 1 .. n
  BY DEF EventsSound
<1>2. Defines(s)
  <2>1. \A k \in 0 .. n :
          s[k] = IF k = 0 THEN golden_registers[r] ELSE EffectOnRegister(r, k, s[k - 1])
    <3>1. \A k \in 1 .. n : s[k] = EffectOnRegister(r, k, s[k - 1])
      BY <1>1 DEF RegisterChain, RegisterLink
    <3>2. \A k \in 0 .. n : k = 0 \/ k \in 1 .. n
      BY <1>1
    <3> QED
      BY <3>1, <3>2 DEF RegisterChain
  <2> QED
    BY <2>1 DEF RegisterChain
<1>3. PICK reg : reg = CHOOSE g : Defines(g)
  OBVIOUS
<1>4. Defines(reg)
  <2> HIDE DEF Defines
  <2> QED
    BY <1>2, <1>3
<1>5. FaultedRegister(r) = reg[n]
  BY <1>3 DEF FaultedRegister
<1> DEFINE T == {k \in 0 .. n : reg[k] # s[k]}
<1>6. ASSUME T # {} PROVE FALSE
  <2>1. T \subseteq Nat
    BY <1>1
  <2>2. PICK x \in T : \A y \in T : x <= y
    <3> HIDE DEF T
    <3> QED
      BY <1>6, <2>1, Least
  <2>3. x \in 0 .. n /\ reg[x] # s[x]
    BY <2>2
  <2>4. x # 0
    BY <1>1, <1>2, <1>4, <2>3
  <2>5. x - 1 \in 0 .. n /\ ~(x <= x - 1)
    BY <1>1, <2>3, <2>4
  <2>6. reg[x - 1] = s[x - 1]
    BY <2>2, <2>5
  <2>7. reg[x] = EffectOnRegister(r, x, reg[x - 1]) /\ s[x] = EffectOnRegister(r, x, s[x - 1])
    BY <1>2, <1>4, <2>3, <2>4
  <2> QED
    BY <2>3, <2>6, <2>7
<1>7. reg[n] = s[n]
  BY <1>1, <1>6
<1> QED
  BY <1>5, <1>7 DEF RegisterChain

(* What an event does to a register stays when another fault's event comes. *)
LEMMA RegisterLinkKept ==
  ASSUME GuestTypes, EventsSound, NEW f \in Faults, NEW kind, Happens(kind, f),
         UNCHANGED <<pack, word>>,
         \A g \in Faults : g # f => restoremask'[g] = restoremask[g],
         NEW r, NEW k \in DOMAIN events, events[k].fault # f
  PROVE  \A u, v : RegisterLink(r, k, u, v)' <=> RegisterLink(r, k, u, v)
<1>1. PICK g : g = events[k].fault
  OBVIOUS
<1>2. g \in Faults /\ g # f
  BY <1>1, EventTyped
<1>3. k \in DOMAIN events' /\ events'[k] = events[k]
  BY EventsAppended DEF Happens
<1>4. status'[g] = status[g] /\ restoremask'[g] = restoremask[g]
  BY <1>2 DEF Happens, GuestTypes
<1>5. k \in InForce' <=> k \in InForce
  BY <1>1, <1>3, <1>4 DEF InForce, Pending
<1>6. /\ IsMemory(g)' <=> IsMemory(g)
      /\ Proper(g)' <=> Proper(g)
      /\ WordBits' = WordBits
  BY DEF IsMemory, Proper, WordBits
<1>7. RegisterHits(r, k)' <=> RegisterHits(r, k)
  BY <1>1, <1>3, <1>5, <1>6 DEF RegisterHits
<1>8. \A v : EffectOnRegister(r, k, v)' = EffectOnRegister(r, k, v)
  BY <1>3, <1>6, <1>7 DEF EffectOnRegister
<1> QED
  BY <1>1, <1>3, <1>4, <1>6, <1>7, <1>8 DEF RegisterLink

(* The chain goes on by one event. *)
LEMMA RegisterChainExtended ==
  ASSUME EventsSound, NEW e, events' = Append(events, e), NEW r, NEW n, n = Len(events),
         NEW t \in [0 .. n -> SUBSET WordBits'], t[0] = golden_registers'[r],
         NEW m \in SUBSET WordBits', m = registers'[r],
         \A k \in 1 .. n : RegisterLink(r, k, t[k - 1], t[k])',
         RegisterLink(r, n + 1, t[n], m)'
  PROVE  \E s : RegisterChain(r, s)'
<1> DEFINE s == [k \in 0 .. n + 1 |-> IF k <= n THEN t[k] ELSE m]
<1>1. n \in Nat /\ Len(events') = n + 1 /\ DOMAIN events' = 1 .. n + 1
  BY EventsAppended
<1>2. s \in [0 .. Len(events') -> SUBSET WordBits']
  BY <1>1
<1>3. s[0] = golden_registers'[r] /\ s[Len(events')] = registers'[r]
  BY <1>1
<1>4. ASSUME NEW k \in DOMAIN events' PROVE RegisterLink(r, k, s[k - 1], s[k])'
  <2>1. CASE k \in 1 .. n
    <3>1. s[k - 1] = t[k - 1] /\ s[k] = t[k]
      BY <1>1, <2>1
    <3> HIDE DEF s
    <3>2. PICK u, v : u = t[k - 1] /\ v = t[k]
      OBVIOUS
    <3>3. RegisterLink(r, k, u, v)'
      BY <2>1, <3>2
    <3> QED
      BY <3>1, <3>2, <3>3
  <2>2. CASE k = n + 1
    <3>1. s[k - 1] = t[n] /\ s[k] = m
      BY <1>1, <2>2
    <3> QED
      BY <2>2, <3>1
  <2> QED
    BY <1>1, <2>1, <2>2
<1> HIDE DEF s
<1> QED
  BY <1>2, <1>3, <1>4 DEF RegisterChain

(* An event that leaves a register and the faults on it as they are. *)
LEMMA RegisterChainPassed ==
  ASSUME GuestTypes, EventsSound, RegisterTypes, NEW f \in Faults, NEW kind, Happens(kind, f),
         UNCHANGED <<pack, word>>,
         \A g \in Faults : g # f => restoremask'[g] = restoremask[g],
         NEW r \in Regs, registers'[r] = registers[r],
         golden_registers'[r] = golden_registers[r],
         IsMemory(f) \/ pack[f].address # r,
         NEW s, RegisterChain(r, s)
  PROVE  \E t : RegisterChain(r, t)'
<1> DEFINE n == Len(events)
<1>1. /\ events' = Append(events, [kind |-> kind, fault |-> f])
      /\ n \in Nat /\ DOMAIN events = 1 .. n
      /\ \A k \in 1 .. n : events'[k] = events[k]
      /\ events'[n + 1] = [kind |-> kind, fault |-> f]
  BY EventsAppended DEF Happens
<1>2. /\ s \in [0 .. n -> SUBSET WordBits] /\ s[0] = golden_registers'[r] /\ registers'[r] = s[n]
      /\ \A k \in 1 .. n : RegisterLink(r, k, s[k - 1], s[k])
  BY <1>1 DEF RegisterChain
<1>3. WordBits' = WordBits
  BY DEF WordBits
<1>4. ASSUME NEW k \in 1 .. n, events[k].fault = f, NEW u, NEW v, RegisterLink(r, k, u, v)
      PROVE  RegisterLink(r, k, u, v)'
  <2>1. ~RegisterHits(r, k)
    BY <1>4 DEF RegisterHits
  <2>2. ~RegisterHits(r, k)'
    BY <1>1, <1>4 DEF RegisterHits, IsMemory
  <2> QED
    BY <1>4, <2>1, <2>2 DEF RegisterLink, EffectOnRegister
<1>5. ASSUME NEW k \in 1 .. n PROVE RegisterLink(r, k, s[k - 1], s[k])'
  <2>1. PICK u, v : u = s[k - 1] /\ v = s[k]
    OBVIOUS
  <2>2. RegisterLink(r, k, u, v)
    BY <1>2, <2>1
  <2>3. RegisterLink(r, k, u, v)'
    BY <1>1, <1>4, <2>2, RegisterLinkKept
  <2> QED
    BY <2>1, <2>3
<1>6. PICK m : m = s[n]
  OBVIOUS
<1>7. PICK N \in Nat : N = n
  BY <1>1
<1>8. RegisterLink(r, N + 1, m, m)'
  <2>1. events'[N + 1].fault = f /\ (IsMemory(f)' <=> IsMemory(f))
    BY <1>1, <1>7 DEF IsMemory
  <2>2. ~RegisterHits(r, N + 1)'
    BY <2>1 DEF RegisterHits
  <2> QED
    BY <2>2 DEF RegisterLink, EffectOnRegister
<1>9. /\ s \in [0 .. N -> SUBSET WordBits'] /\ s[0] = golden_registers'[r]
      /\ m = registers'[r] /\ m = s[N] /\ m \in SUBSET WordBits' /\ N = Len(events)
      /\ \A k \in 1 .. N : RegisterLink(r, k, s[k - 1], s[k])'
  <2>1. s[n] \in SUBSET WordBits
    BY <1>1, <1>2
  <2> QED
    BY <1>2, <1>3, <1>5, <1>6, <1>7, <2>1
<1>10. RegisterLink(r, N + 1, s[N], m)'
  BY <1>8, <1>9
<1> HIDE DEF n
<1> QED
  BY <1>1, <1>9, <1>10, RegisterChainExtended

(* A register fault is written, with the bits it is about saved. *)
LEMMA InjectRegisterChain ==
  ASSUME GuestTypes, GuestTypes', EventsSound, RegistersSound, RegisterTypes',
         NEW f \in Faults, InjectRegister(f)
  PROVE  RegistersSound'
<1> SUFFICES ASSUME NEW r \in Regs, r \notin mixed_registers' PROVE \E t : RegisterChain(r, t)'
  BY DEF RegistersSound
<1>1. /\ Happens("inject", f) /\ UNCHANGED <<pack, word, golden_registers>>
      /\ ~IsMemory(f) /\ status[f] = "waiting"
      /\ mixed_registers' =
           IF Proper(f) THEN mixed_registers ELSE mixed_registers \cup {pack[f].address}
  BY DEF InjectRegister, BecomesLive, Event, Happens, experiment
<1>2. PICK oversized :
        /\ registers' = [registers EXCEPT ![pack[f].address] =
             inject_register_fault(pack[f], registers[pack[f].address], oversized) \cap WordBits]
        /\ restoremask' = [restoremask EXCEPT ![f] =
             RegisterRestore(pack[f], registers[pack[f].address], oversized)]
  BY DEF InjectRegister
<1>3. \A g \in Faults : g # f => restoremask'[g] = restoremask[g]
  BY <1>2 DEF GuestTypes
<1>4. RegisterTypes /\ WordBits' = WordBits /\ WordBits = WordOf(word)
  BY <1>1, WordBitsIs DEF RegistersSound, WordBits
<1>5. PICK s : RegisterChain(r, s)
  BY <1>1 DEF RegistersSound
<1>6. CASE pack[f].address # r
  <2>1. registers'[r] = registers[r] /\ golden_registers'[r] = golden_registers[r]
    BY <1>1, <1>2, <1>4, <1>6 DEF RegisterTypes
  <2> QED
    BY <1>1, <1>3, <1>4, <1>5, <1>6, <2>1, RegisterChainPassed
<1>7. CASE pack[f].address = r
  <2>1. Proper(f)
    BY <1>1, <1>7
  <2>2. pack[f] \in FaultConf /\ word \in 1 .. RegBytes /\ Narrow(pack[f], word)
    BY <1>1, <1>4, <2>1 DEF GuestTypes, RegisterTypes, Proper
  <2>3. PICK n \in Nat : n = Len(events)
    BY EventsAppended DEF EventsSound
  <2>4. /\ DOMAIN events = 1 .. n
        /\ events' = Append(events, [kind |-> "inject", fault |-> f])
        /\ \A k \in 1 .. n : events'[k] = events[k]
        /\ n + 1 \in DOMAIN events'
        /\ events'[n + 1].kind = "inject" /\ events'[n + 1].fault = f
    BY <1>1, <2>3, EventsAppended DEF Happens
  <2>5. /\ s \in [0 .. n -> SUBSET WordBits] /\ s[0] = golden_registers'[r] /\ s[n] = registers[r]
        /\ \A k \in 1 .. n : RegisterLink(r, k, s[k - 1], s[k])
    BY <1>1, <1>5, <2>3, <2>4 DEF RegisterChain
  <2>6. PICK w \in SUBSET WordBits : w = s[n] /\ w = registers[r]
    BY <1>4, <2>5 DEF RegisterTypes
  <2>7. PICK m \in SUBSET WordBits : m = registers'[r]
    BY <1>4 DEF RegisterTypes
  <2>8. m = inject_register_fault(pack[f], w, oversized) \cap WordBits
    BY <1>2, <1>4, <1>7, <2>6, <2>7 DEF RegisterTypes
  <2>9. restoremask'[f] = RegisterRestore(pack[f], w, oversized)
    BY <1>2, <1>7, <2>6 DEF GuestTypes
  <2>10. /\ m = ModelOnRegister(pack[f], w) \cap WordBits
         /\ Restored(restoremask'[f]) \cap WordBits = w \cap RegisterTarget(pack[f])
    <3>1. w \in SUBSET WordOf(word)
      BY <1>4
    <3>2. /\ inject_register_fault(pack[f], w, oversized) \cap WordOf(word)
               = ModelOnRegister(pack[f], w) \cap WordOf(word)
          /\ Restored(RegisterRestore(pack[f], w, oversized)) \cap WordOf(word)
               = w \cap RegisterTarget(pack[f])
      BY <2>2, <3>1, RegisterFaultIs
    <3> QED
      BY <1>4, <2>8, <2>9, <3>2
  <2>11. ASSUME NEW k \in 1 .. n PROVE RegisterLink(r, k, s[k - 1], s[k])'
    <3>1. events[k].fault # f
      BY <1>1, <2>4 DEF EventsSound
    <3>2. PICK u, v : u = s[k - 1] /\ v = s[k]
      OBVIOUS
    <3>3. RegisterLink(r, k, u, v)'
      BY <1>1, <1>3, <2>4, <2>5, <3>1, <3>2, RegisterLinkKept
    <3> QED
      BY <3>2, <3>3
  <2>12. RegisterLink(r, n + 1, w, m)'
    <3>1. Proper(f)'
      BY <1>1, <2>1 DEF Proper, IsMemory
    <3>2. RegisterHits(r, n + 1)'
      <4>1. status'[f] \in {"live", "permanent"}
        BY <1>1 DEF Happens, GuestTypes
      <4>2. n + 1 \in InForce'
        BY <2>4, <4>1 DEF InForce, Pending
      <4> QED
        BY <1>1, <1>7, <2>4, <4>2 DEF RegisterHits, IsMemory
    <3>3. EffectOnRegister(r, n + 1, w)' = ModelOnRegister(pack[f], w) \cap WordBits
      BY <1>1, <1>4, <2>4, <3>2 DEF EffectOnRegister
    <3> QED
      BY <1>1, <1>4, <2>4, <2>10, <3>1, <3>3 DEF RegisterLink
  <2>13. /\ s \in [0 .. n -> SUBSET WordBits'] /\ m \in SUBSET WordBits'
         /\ RegisterLink(r, n + 1, s[n], m)'
    BY <1>4, <2>5, <2>6, <2>12
  <2> QED
    BY <2>3, <2>4, <2>5, <2>7, <2>11, <2>13, RegisterChainExtended
<1> QED
  BY <1>6, <1>7

(* Faults on memory leave the registers alone. *)
LEMMA MemoryFaultPassed ==
  ASSUME GuestTypes, EventsSound, RegistersSound, RegisterTypes', NEW f \in Faults,
         InjectMemory(f) \/ ReverseMemory(f)
  PROVE  RegistersSound'
<1> SUFFICES ASSUME NEW r \in Regs, r \notin mixed_registers' PROVE \E t : RegisterChain(r, t)'
  BY DEF RegistersSound
<1>1. /\ UNCHANGED <<pack, word, golden_registers, registers, mixed_registers>> /\ IsMemory(f)
      /\ \E kind : Happens(kind, f)
  BY DEF InjectMemory, ReverseMemory, BecomesLive, Event, Happens, experiment
<1>2. \A g \in Faults : g # f => restoremask'[g] = restoremask[g]
  BY DEF InjectMemory, ReverseMemory, GuestTypes
<1>3. PICK s : RegisterChain(r, s)
  BY <1>1 DEF RegistersSound
<1>4. RegisterTypes
  BY DEF RegistersSound
<1> QED
  BY <1>1, <1>2, <1>3, <1>4, RegisterChainPassed

(* A register fault is reverted: the chain without it. *)
LEMMA ReverseRegisterChain ==
  ASSUME GuestTypes, GuestTypes', EventsSound, RegistersSound, RegisterTypes',
         NEW f \in Faults, ReverseRegister(f)
  PROVE  RegistersSound'
<1> SUFFICES ASSUME NEW r \in Regs, r \notin mixed_registers' PROVE \E t : RegisterChain(r, t)'
  BY DEF RegistersSound
<1>1. /\ Happens("reverse", f) /\ UNCHANGED <<pack, word, golden_registers, restoremask>>
      /\ ~IsMemory(f) /\ status[f] = "live"
      /\ registers' = [registers EXCEPT ![pack[f].address] =
           reverse_register_fault(pack[f], restoremask[f], registers[pack[f].address]) \cap WordBits]
  BY DEF ReverseRegister, Event, Happens, experiment
<1>2. /\ r \notin mixed_registers
      /\ pack[f].address = r =>
           \A g \in After(f) : ~IsMemory(g) /\ pack[g].address = r =>
             RegisterTarget(pack[f]) \cap RegisterTarget(pack[g]) = {}
  BY DEF ReverseRegister
<1>3. \A g \in Faults : g # f => restoremask'[g] = restoremask[g]
  BY <1>1
<1>4. RegisterTypes /\ WordBits' = WordBits /\ WordBits = WordOf(word)
  BY <1>1, WordBitsIs DEF RegistersSound, WordBits
<1>5. PICK s : RegisterChain(r, s)
  BY <1>2 DEF RegistersSound
<1>6. CASE pack[f].address # r
  <2>1. registers'[r] = registers[r] /\ golden_registers'[r] = golden_registers[r]
    BY <1>1, <1>4, <1>6 DEF RegisterTypes
  <2> QED
    BY <1>1, <1>3, <1>4, <1>5, <1>6, <2>1, RegisterChainPassed
<1>7. CASE pack[f].address = r
  <2>1. PICK n \in Nat : n = Len(events)
    BY EventsAppended DEF EventsSound
  <2>2. /\ DOMAIN events = 1 .. n
        /\ events' = Append(events, [kind |-> "reverse", fault |-> f])
        /\ \A k \in 1 .. n : events'[k] = events[k]
        /\ n + 1 \in DOMAIN events'
        /\ events'[n + 1].kind = "reverse" /\ events'[n + 1].fault = f
    BY <1>1, <2>1, EventsAppended DEF Happens
  <2>3. PICK k0 \in 1 .. n : events[k0] = InjectOf(f)
    BY <1>1, <2>2 DEF EventsSound
  <2>4. events[k0].kind = "inject" /\ events[k0].fault = f
    BY <2>3 DEF InjectOf
  <2>5. \A k \in 1 .. n : k # k0 => events[k].fault # f
    <3>1. \A k \in 1 .. n : events[k].kind \in {"inject", "reverse"}
      BY <2>2, EventTyped
    <3>2. \A k \in 1 .. n : events[k].kind = "reverse" => status[events[k].fault] = "reverted"
      BY <2>2 DEF EventsSound
    <3>3. \A k \in 1 .. n : events[k].kind = "inject" /\ events[k].fault = f => k = k0
      BY <2>2, <2>4 DEF EventsSound
    <3> QED
      BY <1>1, <3>1, <3>2, <3>3
  <2>6. k0 \in InForce /\ RegisterHits(r, k0)
    BY <1>1, <1>7, <2>2, <2>4 DEF InForce, Pending, RegisterHits
  <2>7. /\ s \in [0 .. n -> SUBSET WordBits] /\ s[0] = golden_registers'[r] /\ s[n] = registers[r]
        /\ \A k \in 1 .. n : RegisterLink(r, k, s[k - 1], s[k])
    BY <1>1, <1>5, <2>1, <2>2 DEF RegisterChain
  <2>8. k0 - 1 \in 0 .. n /\ k0 \in 0 .. n /\ k0 \in Int /\ s[k0 - 1] \in SUBSET WordBits
    <3>1. k0 - 1 \in 0 .. n /\ k0 \in 0 .. n /\ k0 \in Int
      BY <2>1
    <3> QED
      BY <2>7, <3>1
  <2>9. PICK u \in SUBSET WordBits : u = s[k0 - 1]
    BY <2>8
  <2> PICK S : S = Restored(restoremask[f]) \cap WordBits
    OBVIOUS
  <2> PICK M : M = MaskedBits(pack[f])
    OBVIOUS
  <2>10. /\ s[k0] = ModelOnRegister(pack[f], u) \cap WordBits
         /\ S = u \cap RegisterTarget(pack[f]) /\ Proper(f)
    BY <2>4, <2>6, <2>7, <2>9 DEF RegisterLink, EffectOnRegister
  <2>11. /\ pack[f] \in FaultConf /\ word \in 1 .. RegBytes /\ Narrow(pack[f], word)
         /\ M \subseteq RegisterTarget(pack[f]) /\ S \subseteq RegisterTarget(pack[f])
    <3>1. pack[f] \in FaultConf /\ word \in 1 .. RegBytes /\ Narrow(pack[f], word)
      BY <1>1, <1>4, <2>10 DEF GuestTypes, RegisterTypes, Proper
    <3>2. MaskedBits(pack[f]) \subseteq RegisterTarget(pack[f])
      BY <3>1, RegisterTargetIs
    <3> QED
      BY <2>10, <3>1, <3>2
  <2> PICK W : W = WordBits
    OBVIOUS
  <2> DEFINE Back(v) == ((v \ M) \cup S) \cap W
  <2>12. \A v : Back(v) \in SUBSET WordBits
    OBVIOUS
  <2>13. Back(s[k0]) = u
    <3>1. PICK after : after = ModelOnRegister(pack[f], u) \cap WordOf(word)
      OBVIOUS
    <3>2. u \in SUBSET WordOf(word)
      BY <1>4
    <3>3. ((after \ MaskedBits(pack[f])) \cup S) \cap WordOf(word) = u
      BY <2>10, <2>11, <3>1, <3>2, RegisterReversal
    <3> QED
      BY <1>4, <2>10, <3>1, <3>3
  <2>14. registers'[r] = Back(registers[r])
    <3>1. registers'[r] = reverse_register_fault(pack[f], restoremask[f], registers[r]) \cap WordBits
      BY <1>1, <1>4, <1>7 DEF RegisterTypes
    <3>2. reverse_register_fault(pack[f], restoremask[f], registers[r])
            = (registers[r] \ MaskedBits(pack[f])) \cup Restored(restoremask[f])
      BY DEF reverse_register_fault, MaskedBits, Restored
    <3> QED
      BY <3>1, <3>2
  <2>15. ASSUME NEW k \in 1 .. n, k > k0, NEW x \in SUBSET WordBits, NEW y, RegisterLink(r, k, x, y)
         PROVE  RegisterLink(r, k, Back(x), Back(y))
    <3>1. PICK g \in Faults : g = events[k].fault
      BY <2>2, EventTyped
    <3>2. CASE ~RegisterHits(r, k)
      BY <2>15, <3>2 DEF RegisterLink, EffectOnRegister
    <3>3. CASE RegisterHits(r, k)
      <4>1. k \in InForce /\ ~IsMemory(g) /\ pack[g].address = r
        BY <3>1, <3>3 DEF RegisterHits
      <4>2. g \in After(f)
        <5>1. k0 \in 1 .. k - 1
          BY <2>15
        <5> QED
          BY <2>3, <3>1, <4>1, <5>1 DEF After
      <4>3. RegisterTarget(pack[f]) \cap RegisterTarget(pack[g]) = {}
        BY <1>2, <1>7, <4>1, <4>2
      <4>4. y = ModelOnRegister(pack[g], x) \cap WordBits
        BY <2>15, <3>1, <3>3 DEF RegisterLink, EffectOnRegister
      <4>5. Restored(restoremask[g]) \cap WordBits = x \cap RegisterTarget(pack[g]) /\ Proper(g)
        BY <2>15, <3>1, <3>3 DEF RegisterLink
      <4>6. pack[g] \in FaultConf /\ Narrow(pack[g], word)
        BY <4>1, <4>5 DEF GuestTypes, Proper
      <4>7. /\ ModelOnRegister(pack[g], Back(x)) \cap WordBits = Back(y)
            /\ Back(x) \cap RegisterTarget(pack[g]) = x \cap RegisterTarget(pack[g])
        <5>1. Apart(M, S, RegisterTarget(pack[g])) /\ MaskInTarget(pack[g])
          BY <2>11, <4>3, <4>6, RegisterTargetIs DEF Apart, MaskInTarget
        <5>2. ModelOnRegister(pack[g], Undone(x, M, S, W)) \cap W
                = Undone(ModelOnRegister(pack[g], x) \cap W, M, S, W)
          BY <4>6, <5>1, RegisterCommute
        <5>3. Undone(x, M, S, W) = Back(x) /\ Undone(y, M, S, W) = Back(y)
          BY DEF Undone
        <5>4. Back(x) \cap RegisterTarget(pack[g]) = x \cap RegisterTarget(pack[g])
          BY <5>1 DEF Apart
        <5> QED
          BY <4>4, <5>2, <5>3, <5>4
      <4> HIDE DEF Back
      <4> QED
        BY <3>1, <3>3, <4>5, <4>7 DEF RegisterLink, EffectOnRegister
    <3> QED
      BY <3>2, <3>3
  <2> HIDE DEF Back
  <2> DEFINE t == [k \in 0 .. n |-> IF k < k0 THEN s[k] ELSE Back(s[k])]
  <2>16. t \in [0 .. n -> SUBSET WordBits']
    BY <1>4, <2>7, <2>12
  <2>17. t[0] = golden_registers'[r] /\ t[n] = registers'[r]
    <3>1. 0 < k0 /\ ~(n < k0) /\ 0 \in 0 .. n /\ n \in 0 .. n
      BY <2>1
    <3> QED
      BY <2>7, <2>14, <3>1
  <2> \A k \in 0 .. n : t[k] = IF k < k0 THEN s[k] ELSE Back(s[k])
    OBVIOUS
  <2> HIDE DEF t
  <2>18. ASSUME NEW k \in 1 .. n PROVE RegisterLink(r, k, t[k - 1], t[k])'
    <3>1. PICK x, y : x = t[k - 1] /\ y = t[k]
      OBVIOUS
    <3>2. k \in 0 .. n /\ k - 1 \in 0 .. n /\ k0 \in Int
      BY <2>1
    <3>3. CASE k < k0
      <4>1. x = s[k - 1] /\ y = s[k]
        BY <3>1, <3>2, <3>3
      <4>2. RegisterLink(r, k, x, y)
        BY <2>7, <4>1
      <4>3. events[k].fault # f
        BY <2>5, <3>3
      <4> QED
        BY <1>1, <1>3, <2>2, <3>1, <4>2, <4>3, RegisterLinkKept
    <3>4. CASE k > k0
      <4>1. x = Back(s[k - 1]) /\ y = Back(s[k])
        BY <3>1, <3>2, <3>4
      <4>2. s[k - 1] \in SUBSET WordBits
        BY <2>7, <3>2
      <4>3. RegisterLink(r, k, x, y)
        BY <2>7, <2>15, <3>4, <4>1, <4>2
      <4>4. events[k].fault # f
        BY <2>5, <3>4
      <4> QED
        BY <1>1, <1>3, <2>2, <3>1, <4>3, <4>4, RegisterLinkKept
    <3>5. CASE k = k0
      <4>1. x = u /\ y = u
        BY <2>9, <2>13, <3>1, <3>2, <3>5
      <4>2. ~RegisterHits(r, k)'
        <5>1. status'[f] = "reverted"
          BY <1>1 DEF Happens, GuestTypes
        <5> QED
          BY <2>2, <2>4, <3>5, <5>1 DEF RegisterHits, InForce, Pending
      <4>3. RegisterLink(r, k, x, y)'
        BY <4>1, <4>2 DEF RegisterLink, EffectOnRegister
      <4> QED
        BY <3>1, <4>3
    <3> QED
      BY <3>2, <3>3, <3>4, <3>5
  <2>19. PICK m \in SUBSET WordBits' : m = registers'[r]
    BY DEF RegisterTypes
  <2>20. RegisterLink(r, n + 1, m, m)'
    <3>1. ~RegisterHits(r, n + 1)'
      BY <2>2 DEF RegisterHits, InForce
    <3> QED
      BY <3>1 DEF RegisterLink, EffectOnRegister
  <2>21. RegisterLink(r, n + 1, t[n], m)'
    <3>1. t[n] = m
      BY <2>17, <2>19
    <3> QED
      BY <2>20, <3>1
  <2> QED
    BY <2>1, <2>2, <2>16, <2>17, <2>18, <2>19, <2>21, RegisterChainExtended
<1> QED
  BY <1>6, <1>7

(* The guest writes a register.  If no fault on it is in force, it has the  *)
(* written value throughout.                                                *)
LEMMA GuestWriteChain ==
  ASSUME GuestTypes, EventsSound, RegistersSound, RegisterTypes',
         NEW q \in Regs, NEW v \in RegValues, GuestWriteRegister(q, v)
  PROVE  RegistersSound'
<1> SUFFICES ASSUME NEW r \in Regs, r \notin mixed_registers' PROVE \E t : RegisterChain(r, t)'
  BY DEF RegistersSound
<1>1. PICK x : x = v \cap WordBits
  OBVIOUS
<1>2. /\ UNCHANGED <<pack, word, events, status, restoremask>>
      /\ registers' = [registers EXCEPT ![q] = x]
      /\ golden_registers' = [golden_registers EXCEPT ![q] = x]
      /\ mixed_registers' =
           IF \E f \in Faults : Pending(f) /\ ~IsMemory(f) /\ pack[f].address = q
           THEN mixed_registers \cup {q} ELSE mixed_registers \ {q}
  BY <1>1 DEF GuestWriteRegister, experiment
<1>3. \A k \in DOMAIN events : \A y, z : RegisterLink(r, k, y, z)' <=> RegisterLink(r, k, y, z)
  BY <1>2 DEF RegisterLink, EffectOnRegister, RegisterHits, InForce, Pending, IsMemory, Proper,
     WordBits
<1>4. RegisterTypes /\ WordBits' = WordBits
  BY <1>2 DEF RegistersSound, WordBits
<1>5. CASE r # q
  <2>1. /\ r \notin mixed_registers /\ registers'[r] = registers[r]
        /\ golden_registers'[r] = golden_registers[r]
    BY <1>2, <1>4, <1>5 DEF RegisterTypes
  <2>2. PICK s : RegisterChain(r, s)
    BY <2>1 DEF RegistersSound
  <2>3. ASSUME NEW k \in DOMAIN events PROVE RegisterLink(r, k, s[k - 1], s[k])'
    <3>1. PICK y, z : y = s[k - 1] /\ z = s[k]
      OBVIOUS
    <3>2. RegisterLink(r, k, y, z)'
      BY <1>3, <2>2, <3>1 DEF RegisterChain
    <3> QED
      BY <3>1, <3>2
  <2>4. RegisterChain(r, s)'
    BY <1>2, <1>4, <2>1, <2>2, <2>3 DEF RegisterChain
  <2> QED
    BY <2>4
<1>6. CASE r = q
  <2>1. registers'[r] = x /\ golden_registers'[r] = x /\ x \in SUBSET WordBits
    BY <1>1, <1>2, <1>4, <1>6 DEF RegisterTypes
  <2>2. \A f \in Faults : Pending(f) => IsMemory(f) \/ pack[f].address # r
    BY <1>2, <1>6
  <2>3. PICK n \in Nat : n = Len(events) /\ DOMAIN events = 1 .. n
    BY DEF EventsSound
  <2> DEFINE t == [k \in 0 .. n |-> x]
  <2>4. ASSUME NEW k \in DOMAIN events PROVE RegisterLink(r, k, x, x)
    <3>1. PICK g \in Faults : g = events[k].fault
      BY EventTyped
    <3>2. ~RegisterHits(r, k)
      BY <2>2, <3>1 DEF RegisterHits, InForce
    <3> QED
      BY <3>2 DEF RegisterLink, EffectOnRegister
  <2>5. ASSUME NEW k \in DOMAIN events PROVE RegisterLink(r, k, t[k - 1], t[k])'
    <3>1. t[k - 1] = x /\ t[k] = x
      BY <2>3
    <3>2. RegisterLink(r, k, x, x)'
      BY <1>3, <2>4
    <3> QED
      BY <3>1, <3>2
  <2>6. /\ t \in [0 .. Len(events) -> SUBSET WordBits] /\ t[0] = x /\ t[Len(events)] = x
    BY <2>1, <2>3
  <2> HIDE DEF t
  <2>7. RegisterChain(r, t)'
    BY <1>2, <1>4, <2>1, <2>5, <2>6 DEF RegisterChain
  <2> QED
    BY <2>7
<1> QED
  BY <1>5, <1>6

LEMMA RegistersInit == Init => RegistersSound
<1> SUFFICES ASSUME Init PROVE RegistersSound
  OBVIOUS
<1>1. RegisterTypes
  BY ExperimentAssumption DEF Init, RegisterTypes
<1>2. ASSUME NEW r \in Regs PROVE \E s : RegisterChain(r, s)
  <2>1. PICK s : s = [k \in 0 .. 0 |-> golden_registers[r]]
    OBVIOUS
  <2>2. /\ Len(events) = 0 /\ DOMAIN events = {} /\ s \in [0 .. 0 -> SUBSET WordBits]
        /\ registers[r] = golden_registers[r] /\ s[0] = golden_registers[r]
    BY <2>1 DEF Init
  <2> QED
    BY <2>2 DEF RegisterChain
<1> QED
  BY <1>1, <1>2 DEF RegistersSound

(* Whatever leaves registers, the faults and the record alone. *)
LEMMA RegistersKept ==
  ASSUME RegistersSound,
         UNCHANGED <<pack, word, registers, golden_registers, events, status, restoremask,
                     mixed_registers>>
  PROVE  RegistersSound'
<1>1. \A k \in DOMAIN events : \A r, x, y : RegisterLink(r, k, x, y)' <=> RegisterLink(r, k, x, y)
  BY DEF RegisterLink, EffectOnRegister, RegisterHits, InForce, Pending, IsMemory, Proper, WordBits
<1>2. WordBits' = WordBits
  BY DEF WordBits
<1>3. RegisterTypes'
  BY <1>2 DEF RegistersSound, RegisterTypes
<1> SUFFICES ASSUME NEW r \in Regs, r \notin mixed_registers PROVE \E s : RegisterChain(r, s)'
  BY <1>3 DEF RegistersSound
<1>4. PICK s : RegisterChain(r, s)
  BY DEF RegistersSound
<1>5. ASSUME NEW k \in DOMAIN events PROVE RegisterLink(r, k, s[k - 1], s[k])'
  <2>1. PICK x, y : x = s[k - 1] /\ y = s[k]
    OBVIOUS
  <2>2. RegisterLink(r, k, x, y)'
    BY <1>1, <1>4, <2>1 DEF RegisterChain
  <2> QED
    BY <2>1, <2>2
<1>6. RegisterChain(r, s)'
  BY <1>2, <1>4, <1>5 DEF RegisterChain
<1> QED
  BY <1>6

LEMMA RegisterTypesInductive == RegisterTypes /\ [Next]_vars => RegisterTypes'
<1> SUFFICES ASSUME RegisterTypes, [Next]_vars PROVE RegisterTypes'
  OBVIOUS
<1>1. word' = word
  BY DEF Next, vars, InjectMemory, InjectRegister, ReverseMemory, ReverseRegister, GuestLoad,
         GuestStore, GuestAccess, GuestWriteRegister, EndDump, Terminated, experiment
<1>2. registers' = registers
      \/ \E r, v : registers' = [registers EXCEPT ![r] = v \cap WordBits]
  BY DEF Next, vars, InjectMemory, InjectRegister, ReverseMemory, ReverseRegister, GuestLoad,
         GuestStore, GuestAccess, GuestWriteRegister, EndDump, Terminated
<1>3. golden_registers' = golden_registers
      \/ \E r, v : golden_registers' = [golden_registers EXCEPT ![r] = v \cap WordBits]
  BY DEF Next, vars, InjectMemory, InjectRegister, ReverseMemory, ReverseRegister, GuestLoad,
         GuestStore, GuestAccess, GuestWriteRegister, EndDump, Terminated, history
<1>4. WordBits' = WordBits
  BY <1>1 DEF WordBits
<1> QED
  BY <1>1, <1>2, <1>3, <1>4 DEF RegisterTypes

LEMMA RegistersInductive ==
  IInv /\ IInv' /\ EventsSound /\ RegistersSound /\ [Next]_vars => RegistersSound'
<1> SUFFICES ASSUME IInv, IInv', EventsSound, RegistersSound, [Next]_vars PROVE RegistersSound'
  OBVIOUS
<1>1. GuestTypes /\ GuestTypes' /\ RegisterTypes'
  BY RegisterTypesInductive DEF IInv, RegistersSound
<1>2. ASSUME NEW f \in Faults, InjectMemory(f) \/ ReverseMemory(f) PROVE RegistersSound'
  BY <1>1, <1>2, MemoryFaultPassed
<1>3. ASSUME NEW f \in Faults, InjectRegister(f) PROVE RegistersSound'
  BY <1>1, <1>3, InjectRegisterChain
<1>4. ASSUME NEW f \in Faults, ReverseRegister(f) PROVE RegistersSound'
  BY <1>1, <1>4, ReverseRegisterChain
<1>5. ASSUME NEW r \in Regs, NEW v \in RegValues, GuestWriteRegister(r, v) PROVE RegistersSound'
  BY <1>1, <1>5, GuestWriteChain
<1>6. ASSUME NEW c, NEW v, GuestLoad(c) \/ GuestStore(c, v) PROVE RegistersSound'
  BY <1>6, RegistersKept DEF GuestLoad, GuestStore, GuestAccess, experiment
<1>7. ASSUME NEW pages, EndDump(pages) PROVE RegistersSound'
  BY <1>7, RegistersKept DEF EndDump, experiment, history
<1>8. CASE UNCHANGED vars
  BY <1>8, RegistersKept DEF vars, experiment, history
<1> QED
  BY <1>2, <1>3, <1>4, <1>5, <1>6, <1>7, <1>8 DEF Next, Terminated

(* A register is the guest's own with the register faults in force applied  *)
(* in the order of their injection, although the masks are summed and       *)
(* shifted as ints (inject_register_fault, reverse_register_fault), unless  *)
(* a fault is wider than an int can express, the guest wrote the register   *)
(* under it, or a later fault on the same bits was in force at a reversal.  *)
THEOREM RegistersInForce == Spec => []RegistersAreFaulted
<1>1. Init => IInv /\ EventsSound /\ RegistersSound
  BY InitInductive, EventsInit, RegistersInit
<1>2. IInv /\ EventsSound /\ RegistersSound /\ [Next]_vars
        => IInv' /\ EventsSound' /\ RegistersSound'
  <2>1. IInv => GuestTypes
    BY DEF IInv
  <2> QED
    BY <2>1, StepInductive, EventsInductive, RegistersInductive
<1>3. IInv /\ EventsSound /\ RegistersSound => RegistersAreFaulted
  BY RegisterChainIsFaulted DEF RegistersSound, RegistersAreFaulted
<1> QED
  BY <1>1, <1>2, <1>3, PTL DEF Spec
=============================================================================
