---------------------------- MODULE FaultEffects ----------------------------
(***************************************************************************)
(* The guest's memory and registers under the faults of a pack, and what   *)
(* the plugin reports of them: inject_fault and reverse_fault with the     *)
(* memory dumps (faultdata.c) and register dumps (registerdump.c) they     *)
(* take, and the dump at the end of an experiment with the pages and the   *)
(* memory map of the pre-golden run (memmap_collection.c).                 *)
(*                                                                         *)
(* When a fault is injected and reverted is the business of FaultPlugin;   *)
(* here it may happen at any time.  The guest accesses memory and writes   *)
(* registers in between.  QEMU is external: a plugin's access outside of   *)
(* RAM fails as a whole, and writing a register keeps the bits it has.     *)
(*                                                                         *)
(* The pages of the pre-golden run come from the table of accesses         *)
(* (DataCollection): one of the accesses that mem_comparison_func takes    *)
(* for the same has a record, with the direction of the first of them.     *)
(***************************************************************************)
EXTENDS FaultModels, SequencesExt

CONSTANTS
  FaultNumber,   \* fault_number
  Experiments,   \* what may be run, [pack, word, control]: a fault pack; the
                 \* bytes of a register (4 or 8, by architecture); the memory
                 \* regions to dump in order, whether accesses are recorded,
                 \* and whether this is the pre-golden run (index -2)
  MemSize,       \* the guest's RAM is the addresses 0 .. MemSize - 1
  PageSize,      \* 0x1000
  FlatView,      \* the address space: a set of [start, size, ram]
  Regs,          \* registers
  MemAccesses,   \* what the guest may access: [ins, mem, size, store]
  BeforeStart,   \* of these, the ones ahead of the start point, in the
                 \* pre-golden run
  StoreBytes, RegValues,  \* what it may write
  MaxGuestSteps, \* bound on the guest's accesses and register writes
  NULL

Faults == 0 .. FaultNumber - 1
Cells  == 0 .. MemSize - 1
FlatRange == [start : Nat, size : Nat, ram : BOOLEAN]
MemAccess == [ins : Nat, mem : Nat, size : Nat \ {0}, store : BOOLEAN]

ASSUME EffectsAssumption ==
  /\ FaultNumber \in Nat /\ MemSize \in Nat /\ PageSize \in Nat \ {0} /\ MaxGuestSteps \in Nat
  /\ BeforeStart \subseteq MemAccesses /\ MemAccesses \subseteq MemAccess /\ StoreBytes \subseteq Byte
  /\ RegValues \subseteq Register
  /\ FlatView \subseteq FlatRange

(* The flat view has all of RAM.                                           *)
ASSUME RamAssumption ==
  /\ PageSize # MaskBytes
  /\ \A a \in Cells : \E range \in FlatView :
       range.ram /\ a \in range.start .. range.start + range.size - 1

ASSUME ExperimentAssumption ==
  \A x \in Experiments :
    /\ x.pack \in [Faults -> FaultConf] /\ x.word \in 1 .. RegBytes
    /\ \A f \in Faults : x.pack[f].type = "REGISTER" => x.pack[f].address \in Regs
    /\ x.control.full \in BOOLEAN /\ x.control.mem_info \in BOOLEAN
    /\ x.control.regions \in Seq([address : Nat, len : Nat])
    /\ x.control.full => x.control.regions = <<>>

VARIABLES
  pack, word, control,           \* the experiment
  memory, registers,             \* the guest
  status,                        \* of each fault: waiting, live, permanent, reverted
  restoremask,
  trignum, live_faults_number,
  num_memdump, memdump,          \* faultdata.c: room in the vector, and its used part
  registerdumps,                 \* registerdump.c: the list, newest first
  mem_infos,                     \* mem_info_list: of each record its first access
  report,                        \* what was written to the data FIFO
  guest_steps,                   \* the bounded number of the guest's steps
  (* history *)
  accessed,                      \* the guest's accesses
  golden, golden_registers,      \* the guest had no fault been injected
  events,                        \* injections and reversals, in order
  mixed, mixed_registers         \* where a saved value was outdated when it was restored

experiment == <<pack, word, control>>
dumps   == <<num_memdump, memdump, registerdumps>>
accesses == <<mem_infos, accessed>>
history == <<golden, golden_registers, events, mixed, mixed_registers>>
vars == <<experiment, memory, registers, status, restoremask, trignum,
          live_faults_number, dumps, accesses, report, guest_steps, history>>

IsMemory(f) == pack[f].type \in {"INSTRUCTION", "DATA"}
Window(a, len) == a .. a + len - 1
InRam(a, len) == Window(a, len) \subseteq Cells
WordBits == 0 .. ByteBits * word - 1
-----------------------------------------------------------------------------
(* The vector of memory regions.  A region begins with room for one dump.  *)
NewRegion(a, len) == [address |-> a, len |-> len, num_dumps |-> 1, dumps |-> <<>>]

insert_memorydump_config(regions, a, len) == Append(regions, NewRegion(a, len))
RoomFixed(regions) == num_memdump                  \* wrong variant: the vector never grows
Room(regions) == IF num_memdump >= Len(regions) THEN num_memdump ELSE Len(regions)

(* A failing read leaves the zeros the buffer was filled with. *)
Contents(mem, a, len) ==
  [i \in 0 .. len - 1 |-> IF InRam(a, len) THEN mem[a + i] ELSE {}]

read_memoryregion(r, mem) ==
  [r EXCEPT !.num_dumps = IF @ = Len(r.dumps) THEN @ + 1 ELSE @,
            !.dumps = Append(@, Contents(mem, r.address, r.len))]

read_specific_memoryregion(regions, a, mem) ==
  [k \in DOMAIN regions |->
     IF regions[k].address = a THEN read_memoryregion(regions[k], mem) ELSE regions[k]]

(* read_all_memory stops at the first region it cannot read. *)
AllReadable(regions) == \A k \in DOMAIN regions : InRam(regions[k].address, regions[k].len)
read_most_memory(regions, mem) ==                  \* wrong variant: misses the last region
  [k \in DOMAIN regions |-> IF k < Len(regions) THEN read_memoryregion(regions[k], mem)
                            ELSE regions[k]]
read_all_memory(regions, mem) ==
  [k \in DOMAIN regions |-> read_memoryregion(regions[k], mem)]

(* A region's part of the report: the dumps it used of its room. *)
readout_memorydump(r) == [address |-> r.address, len |-> r.len, dumps |-> r.dumps]
readout_all_memorydump(regions) == [k \in DOMAIN regions |-> readout_memorydump(regions[k])]

add_new_registerdump(tbcount, regs) ==
  registerdumps' = <<[tbcount |-> tbcount, regs |-> regs]>> \o registerdumps

(* read_register_module: the list as it is linked, and the architecture.   *)
read_registers(list) == [arch_type |-> word, register_dumps |-> list]
-----------------------------------------------------------------------------
(* Bytes and bits the code may reach for a fault, whatever its outcome. *)
Reach(f, a) ==
  IF IsMemory(f) /\ a \in Window(pack[f].address, MaskBytes)
  THEN TargetBits(pack[f], a - pack[f].address) \cup pack[f].mask[a - pack[f].address]
  ELSE {}

Running == report.state = "none"
Pending(f) == status[f] \in {"live", "permanent"}

(* The fault is written, and its reversal can be. *)
Written(f) ==
  InRam(pack[f].address,
        IF pack[f].model = "OVERWRITE" THEN NumBytes(pack[f]) ELSE MaskBytes)
Proper(f) ==
  IF IsMemory(f) THEN InRam(pack[f].address, MaskBytes) /\ MaskFits(pack[f])
  ELSE Narrow(pack[f], word)

inject_memory_fault(f) ==
  [a \in Cells |->
     IF Written(f) /\ a \in Window(pack[f].address, MaskBytes)
     THEN InjectedByte(pack[f], a - pack[f].address, memory[a]) ELSE memory[a]]

SavedBytes(f) ==
  [i \in Offset |->
     IF Written(f) /\ pack[f].address + i \in Cells
     THEN RestoreByte(pack[f], i, memory[pack[f].address + i]) ELSE {}]

(* The history of injections: those in force, and those in force that came *)
(* after the injection of f.                                               *)
InjectOf(f) == [kind |-> "inject", fault |-> f]
InForce == {k \in DOMAIN events : events[k].kind = "inject" /\ Pending(events[k].fault)}
After(f) == {events[k].fault : k \in {k \in InForce : \E j \in 1 .. k - 1 : events[j] = InjectOf(f)}}

Event(kind, f) == events' = Append(events, [kind |-> kind, fault |-> f])

(* register_live_faults_callback *)
BecomesLive(f) ==
  IF pack[f].lifetime # 0
  THEN /\ trignum' = [trignum EXCEPT ![f] = live_faults_number]
       /\ live_faults_number' = live_faults_number + 1
       /\ status' = [status EXCEPT ![f] = "live"]
  ELSE /\ status' = [status EXCEPT ![f] = "permanent"]
       /\ UNCHANGED <<trignum, live_faults_number>>

InjectMemory(f) ==
  LET a  == pack[f].address
      r1 == insert_memorydump_config(memdump, a, MaskBytes)
      r2 == read_specific_memoryregion(r1, a, memory)
  IN /\ Running /\ status[f] = "waiting" /\ IsMemory(f)
     /\ memory' = inject_memory_fault(f)
     /\ restoremask' = [restoremask EXCEPT ![f] = SavedBytes(f)]
     /\ memdump' = read_specific_memoryregion(r2, a, memory')
     /\ num_memdump' = Room(r1)
     /\ BecomesLive(f)
     /\ add_new_registerdump(trignum'[f], registers)
     /\ Event("inject", f)
     /\ mixed' = IF Proper(f) THEN mixed ELSE mixed \cup (Window(a, MaskBytes) \cap Cells)
     /\ UNCHANGED <<experiment, registers, accesses, report, guest_steps, golden,
                    golden_registers, mixed_registers>>

InjectRegister(f) ==
  LET r == pack[f].address
  IN /\ Running /\ status[f] = "waiting" /\ ~IsMemory(f)
     /\ \E oversized \in Oversized :
          /\ registers' = [registers EXCEPT
               ![r] = inject_register_fault(pack[f], @, oversized) \cap WordBits]
          /\ restoremask' = [restoremask EXCEPT
               ![f] = RegisterRestore(pack[f], registers[r], oversized)]
     /\ BecomesLive(f)
     /\ add_new_registerdump(trignum'[f], registers')
     /\ Event("inject", f)
     /\ mixed_registers' = IF Proper(f) THEN mixed_registers ELSE mixed_registers \cup {r}
     /\ UNCHANGED <<experiment, memory, num_memdump, memdump, accesses, report, guest_steps,
                    golden, golden_registers, mixed>>

ReversedMemory(f) ==
  LET a == pack[f].address
  IN [c \in Cells |->
        IF InRam(a, MaskBytes) /\ c \in Window(a, MaskBytes)
        THEN process_reverse_fault(pack[f].mask[c - a], restoremask[f][c - a], memory[c])
        ELSE memory[c]]

ReverseMemory(f) ==
  /\ Running /\ status[f] = "live" /\ IsMemory(f)
  /\ memory' = ReversedMemory(f)
  /\ memdump' = read_specific_memoryregion(memdump, pack[f].address, memory')
  /\ status' = [status EXCEPT ![f] = "reverted"]
  /\ add_new_registerdump(trignum[f], registers)
  /\ Event("reverse", f)
  /\ mixed' = mixed \cup {c \in Cells : \E g \in After(f) : Reach(f, c) \cap Reach(g, c) # {}}
  /\ UNCHANGED <<experiment, registers, restoremask, trignum, live_faults_number,
                 num_memdump, accesses, report, guest_steps, golden, golden_registers,
                 mixed_registers>>

ReverseRegister(f) ==
  LET r == pack[f].address
      later == {g \in After(f) : ~IsMemory(g) /\ pack[g].address = r}
  IN /\ Running /\ status[f] = "live" /\ ~IsMemory(f)
     /\ registers' = [registers EXCEPT
          ![r] = reverse_register_fault(pack[f], restoremask[f], @) \cap WordBits]
     /\ status' = [status EXCEPT ![f] = "reverted"]
     /\ add_new_registerdump(trignum[f], registers')
     /\ Event("reverse", f)
     /\ mixed_registers' =
          IF \E g \in later : RegisterTarget(pack[f]) \cap RegisterTarget(pack[g]) # {}
          THEN mixed_registers \cup {r} ELSE mixed_registers
     /\ UNCHANGED <<experiment, memory, restoremask, trignum, live_faults_number,
                    num_memdump, memdump, accesses, report, guest_steps, golden,
                    golden_registers, mixed>>
-----------------------------------------------------------------------------
(* mem_comparison_func takes two accesses for the same if an int does not  *)
(* tell their instructions apart, or, of one instruction, their addresses. *)
SameInInt(m, n) == (m - n) % (2 ^ IntBits) = 0
Alike(x, y) == IF x.ins = y.ins THEN SameInInt(x.mem, y.mem) ELSE SameInInt(x.ins, y.ins)

(* memaccess_data_cb, as far as the list of records goes: the access gets a *)
(* record unless the search comes to one it takes for the same.  A tree     *)
(* whose order is none (DataCollection) may also be searched past it.       *)
memaccess_data_cb(x) ==
  \/ control.mem_info /\ mem_infos' = mem_infos \cup {x}
  \/ (control.mem_info => \E r \in mem_infos : Alike(x, r)) /\ UNCHANGED mem_infos

GuestAccess(x) ==
  /\ Running /\ guest_steps < MaxGuestSteps
  /\ x \in BeforeStart => control.full
  /\ guest_steps' = guest_steps + 1
  /\ accessed' = accessed \cup {x}
  /\ memaccess_data_cb(x)
  /\ UNCHANGED <<experiment, registers, status, restoremask, trignum, live_faults_number,
                 dumps, report, golden_registers, events, mixed_registers>>

GuestLoad(x) == ~x.store /\ GuestAccess(x) /\ UNCHANGED <<memory, golden, mixed>>

(* A store under a pending fault outdates the byte saved for its reversal. *)
GuestStore(x, bytes) ==
  LET stored(mem) == [a \in Cells |-> IF a \in Window(x.mem, x.size) THEN bytes[a] ELSE mem[a]]
      outdated(a) == \E f \in Faults : Pending(f) /\ Reach(f, a) # {}
  IN /\ x.store /\ GuestAccess(x)
     /\ memory' = stored(memory)
     /\ golden' = stored(golden)
     /\ mixed' = (mixed \ Window(x.mem, x.size))
                    \cup {a \in Window(x.mem, x.size) \cap Cells : outdated(a)}

GuestWriteRegister(r, v) ==
  /\ Running /\ guest_steps < MaxGuestSteps
  /\ guest_steps' = guest_steps + 1
  /\ registers' = [registers EXCEPT ![r] = v \cap WordBits]
  /\ golden_registers' = [golden_registers EXCEPT ![r] = v \cap WordBits]
  /\ mixed_registers' =
       IF \E f \in Faults : Pending(f) /\ ~IsMemory(f) /\ pack[f].address = r
       THEN mixed_registers \cup {r} ELSE mixed_registers \ {r}
  /\ UNCHANGED <<experiment, memory, status, restoremask, trignum, live_faults_number,
                 dumps, accesses, report, golden, events, mixed>>
-----------------------------------------------------------------------------
(* plugin_end_information_dump, at an end point, at the limit or in        *)
(* handle_abort.  The pages of the pre-golden run come in the order of a   *)
(* hash table.                                                             *)
Page(a) == (a \div PageSize) * PageSize
PagesOf(infos) == {Page(r.mem) : r \in infos}
AccessedPagesAny == IF control.full THEN PagesOf(mem_infos) ELSE {}  \* wrong variant: loads too
AccessedPages ==
  IF control.full THEN PagesOf({r \in mem_infos : r.store}) ELSE {}

memmap_dump_register_page(regions, pages) ==
  regions \o [k \in DOMAIN pages |-> NewRegion(pages[k], PageSize)]

MemMap == IF control.full THEN {range \in FlatView : range.ram} ELSE {}

EndDump(pages) ==
  LET regions == memmap_dump_register_page(memdump, pages)
  IN /\ Running
     /\ num_memdump' = Room(regions)
     /\ IF AllReadable(regions)
        THEN /\ memdump' = read_all_memory(regions, memory)
             /\ add_new_registerdump(NULL, registers)
             /\ report' = [state |-> "sent", regions |-> readout_all_memorydump(memdump'),
                           register_info |-> read_registers(registerdumps'), memmap |-> MemMap]
        ELSE /\ report' = [state |-> "lost"]          \* exit(EXIT_FAILURE), nothing sent
             /\ memdump' = regions
             /\ UNCHANGED registerdumps
     /\ UNCHANGED <<experiment, memory, registers, status, restoremask, trignum,
                    live_faults_number, accesses, guest_steps, history>>

Terminated == ~Running /\ UNCHANGED vars

Init ==
  /\ \E x \in Experiments : pack = x.pack /\ word = x.word /\ control = x.control
  /\ memory = [a \in Cells |-> {}] /\ golden = memory
  /\ registers = [r \in Regs |-> {}] /\ golden_registers = registers
  /\ status = [f \in Faults |-> "waiting"]
  /\ restoremask = [f \in Faults |-> NoMask]
  /\ trignum = [f \in Faults |-> f] /\ live_faults_number = 0
  /\ memdump = [k \in DOMAIN control.regions |->
                  NewRegion(control.regions[k].address, control.regions[k].len)]
  /\ num_memdump = IF control.regions = <<>> THEN 1 ELSE Len(control.regions)
  /\ registerdumps = <<>> /\ mem_infos = {} /\ accessed = {}
  /\ report = [state |-> "none"] /\ guest_steps = 0
  /\ events = <<>> /\ mixed = {} /\ mixed_registers = {}

Next ==
  \/ \E f \in Faults :
       InjectMemory(f) \/ InjectRegister(f) \/ ReverseMemory(f) \/ ReverseRegister(f)
  \/ \E x \in MemAccesses : GuestLoad(x)
  \/ \E x \in MemAccesses : \E bytes \in [Window(x.mem, x.size) -> StoreBytes] :
       GuestStore(x, bytes)
  \/ \E r \in Regs, v \in RegValues : GuestWriteRegister(r, v)
  \/ \E pages \in SetToSeqs(AccessedPages) : EndDump(pages)
  \/ Terminated

Spec == Init /\ [][Next]_vars
-----------------------------------------------------------------------------
(* Type correctness of the guest, the faults and the dumps; the vector of  *)
(* regions and the dumps of a region have the room they use.               *)
GuestTypes ==
  /\ pack \in [Faults -> FaultConf]
  /\ memory \in [Cells -> Byte] /\ golden \in [Cells -> Byte]
  /\ status \in [Faults -> {"waiting", "live", "permanent", "reverted"}]
  /\ restoremask \in [Faults -> Mask]

DumpTypes ==
  /\ registers \in [Regs -> SUBSET WordBits]
  /\ Len(memdump) <= num_memdump
  /\ \A k \in DOMAIN memdump :
       LET r == memdump[k]
       IN /\ Len(r.dumps) <= r.num_dumps
          /\ \A j \in DOMAIN r.dumps : r.dumps[j] \in [0 .. r.len - 1 -> Byte]

TypeOK == GuestTypes /\ DumpTypes

(* Bits no injected fault is about are as the guest left them, whatever    *)
(* the faults overlap with, in whichever order they are reverted and       *)
(* whatever the guest stores meanwhile (process_*_memory,                  *)
(* process_reverse_fault).                                                 *)
BitsUntouched ==
  \A a \in Cells : \A b \in Bit :
    (\A f \in Faults : status[f] # "waiting" => b \notin Reach(f, a))
      => (b \in memory[a] <=> b \in golden[a])

(* A byte whose saved value was never outdated is the guest's own byte     *)
(* with the pending faults applied to it in the order of their injection:  *)
(* a reverted fault has left nothing behind, a pending one is in force.    *)
Hits(a, k) == LET f == events[k].fault
              IN k \in InForce /\ IsMemory(f) /\ a \in Window(pack[f].address, MaskBytes)
EffectOn(a, k, v) ==
  LET f == pack[events[k].fault]
  IN IF Hits(a, k) THEN InjectedByte(f, a - f.address, v) ELSE v

FaultedByte(a) ==
  LET byte[k \in 0 .. Len(events)] ==
        IF k = 0 THEN golden[a] ELSE EffectOn(a, k, byte[k - 1])
  IN byte[Len(events)]

MemoryIsFaulted == \A a \in Cells \ mixed : memory[a] = FaultedByte(a)

(* The same of registers, for faults the int arithmetic can express        *)
(* (Narrow): the fault model on the masked bits and no others.             *)
MaskedBits(f) == UNION {Shifted(f.mask[i], i) : i \in 0 .. RegBytes - 1}
ModelOnRegister(f, reg) ==
  LET m == MaskedBits(f)
  IN CASE f.model = "SET0"      -> reg \ m
       [] f.model = "SET1"      -> reg \cup m
       [] f.model = "TOGGLE"    -> (reg \ m) \cup (m \ reg)
       [] f.model = "OVERWRITE" -> (reg \ RegisterTarget(f)) \cup m

RegisterHits(r, k) == LET f == events[k].fault
                      IN k \in InForce /\ ~IsMemory(f) /\ pack[f].address = r
EffectOnRegister(r, k, v) ==
  IF RegisterHits(r, k) THEN ModelOnRegister(pack[events[k].fault], v) \cap WordBits ELSE v

FaultedRegister(r) ==
  LET reg[k \in 0 .. Len(events)] ==
        IF k = 0 THEN golden_registers[r] ELSE EffectOnRegister(r, k, reg[k - 1])
  IN reg[Len(events)]

RegistersAreFaulted == \A r \in Regs \ mixed_registers : registers[r] = FaultedRegister(r)

Sent == report.state = "sent"

(* "It contains the condition Pre-fault, After fault and after lifespan"   *)
(* (fault-readme.md, of the memory dump of a fault): the region opened by  *)
(* the injection of f begins with the bytes before and after it.           *)
MemoryEvents == {k \in DOMAIN events : IsMemory(events[k].fault)}
MemoryInjections == {k \in MemoryEvents : events[k].kind = "inject"}
RegionOf(k) == Len(control.regions) + Cardinality({j \in MemoryInjections : j <= k})
Opened(f) == RegionOf(CHOOSE k \in DOMAIN events : events[k] = InjectOf(f))

(* How often a region of address a is read by the events from k on: twice  *)
(* by an injection, once by a reversal.                                    *)
EventsAt(a, k) == {j \in MemoryEvents : j >= k /\ pack[events[j].fault].address = a}
ReadsSince(k, a) ==
  Cardinality(EventsAt(a, k)) + Cardinality(EventsAt(a, k) \cap MemoryInjections)

(* Of what was there before the injection, the bits the fault is about: its *)
(* mask, and all that an overwrite wrote, whose zeros were saved as well.   *)
Returned(f, i, before, after) ==
  /\ after \cap f.mask[i] = before \cap f.mask[i]
  /\ before \cap TargetBits(f, i) \subseteq after

(* The dump its reversal takes has these bits back, unless the mask of an   *)
(* overwrite sets bytes past num_bytes (MaskFits): nothing is saved of      *)
(* those, and the reversal clears what the mask sets (fault_injection.c:237,*)
(* against fault-readme.md:157 and 168).                                    *)
DumpsTellFault ==
  \A k \in DOMAIN events :
    LET f == events[k].fault
        d == memdump[Opened(f)].dumps
        a == pack[f].address
    IN IsMemory(f) /\ InRam(a, MaskBytes) =>
         /\ events[k].kind = "inject" =>
              \A i \in Offset : d[2][i] = InjectedByte(pack[f], i, d[1][i])
         /\ events[k].kind = "reverse" /\ MaskFits(pack[f]) =>
              LET n == Len(d) - ReadsSince(k, a) + 1 - (IF Sent THEN 1 ELSE 0)
              IN \A i \in Offset : Returned(pack[f], i, d[1][i], d[n][i])

(* Region k of the report: the first event that could have read it.       *)
FirstEvent(k) ==
  IF k <= Len(control.regions) THEN 1
  ELSE IF \E e \in MemoryInjections : RegionOf(e) = k
  THEN CHOOSE e \in MemoryInjections : RegionOf(e) = k
  ELSE Len(events) + 1

(* Address a is in one page of the report, and the memory map names RAM    *)
(* for it.                                                                 *)
StoredPageReported(a) ==
  /\ Cardinality({k \in DOMAIN report.regions :
       /\ report.regions[k].len = PageSize
       /\ a \in Window(report.regions[k].address, PageSize)}) = 1
  /\ \E range \in report.memmap : a \in Window(range.start, range.size)

(* A store that only stores to the same page were ever taken for: its      *)
(* record, whichever access it is of, leads to its page.                   *)
StoreTold(s) == s.store /\ \A x \in accessed : Alike(s, x) => x.store /\ Page(x.mem) = Page(s.mem)

(* With mem_info on, the pre-golden run reports the first byte of every    *)
(* such store, in a page dumped once.  No other pages are reported, and    *)
(* none with mem_info off.  Without StoreTold a store has no page: one     *)
(* after a load of the same address (faultplugin.c:226), one an int        *)
(* confuses with another (faultplugin.c:184).                              *)
PagesReported ==
  /\ control.full /\ control.mem_info =>
       \A s \in accessed : StoreTold(s) => StoredPageReported(s.mem)
  /\ \A k \in DOMAIN report.regions : report.regions[k].len = PageSize =>
       \/ k <= Len(control.regions)
       \/ control.full /\ control.mem_info
          /\ \E s \in accessed : s.store /\ report.regions[k].address = Page(s.mem)

(* A region lies partly outside of RAM: one configured so, the sixteen     *)
(* bytes of a memory fault near its end, or the page of a recorded store.  *)
RegionUnreadable ==
  \/ \E k \in DOMAIN control.regions :
       ~InRam(control.regions[k].address, control.regions[k].len)
  \/ \E k \in MemoryInjections : ~InRam(pack[events[k].fault].address, MaskBytes)
  \/ control.full /\ \E r \in mem_infos : r.store /\ ~InRam(Page(r.mem), PageSize)

(* The report is lost exactly when a region cannot be read.  One that is   *)
(* sent holds, of every region, one dump for each event at its address     *)
(* since it was configured and the memory at the end, one register dump    *)
(* for each event and the end, and the pages stored to (PagesReported).    *)
ReportComplete ==
  /\ ~Running => (report.state = "lost" <=> RegionUnreadable)
  /\ Sent =>
    /\ \A k \in DOMAIN report.regions :
         LET r == report.regions[k]
         IN /\ Len(r.dumps) = ReadsSince(FirstEvent(k), r.address) + 1
            /\ r.dumps[Len(r.dumps)] = Contents(memory, r.address, r.len)
    /\ Len(report.register_info.register_dumps) = Len(events) + 1
    /\ report.register_info.register_dumps[1].regs = registers
    /\ PagesReported
=============================================================================
