----------------------------- MODULE GoldenRun -----------------------------
(***************************************************************************)
(* What the golden run is for (goldenrun.py, calculate_trigger.py): the    *)
(* blocks it executed tell where wildcard faults go, and at which          *)
(* instruction a fault is triggered that is configured as so many          *)
(* instructions ahead of an execution of the faulted one.                  *)
(*                                                                         *)
(* The guest's code is a set of instructions, named by their addresses.  A *)
(* block runs from where control arrives to the next branch, so that       *)
(* blocks overlap.  The run records the first address of each block it     *)
(* executes; trace, the instructions, is known to the properties only.     *)
(* QEMU is external.                                                       *)
(***************************************************************************)
EXTENDS Integers, Sequences, FiniteSets, FiniteSetsExt, SequencesExt

CONSTANTS
  Insns,          \* addresses of the instructions
  InsnSize,       \* their sizes in bytes
  Branches,       \* the instructions that end a block
  Targets,        \* where control may go
  Handler,        \* where it goes from the middle of a block
  FaultSpecs,     \* the configured faults in order, see FaultSpec
  WildcardSpecs,  \* the wildcard faults, see WildcardSpec
  MaxBlocks,      \* bound: blocks of the golden run
  NULL

(* A negative trigger_address counts instructions ahead of the faulted one. *)
FaultSpec == [address : Nat, trigger_address : Int, hitcounter : Nat, lifespan : Nat,
              model : {"SET0", "SET1", "TOGGLE", "OVERWRITE"}]

(* A hitcounter of zero is no point at all, or both points are local.       *)
Point == [address : Nat, hitcounter : Nat]
WildcardSpec == [start : Point, end : Point, local : BOOLEAN, exclude : SUBSET Insns]

(* Instructions of one byte, which ARM and RISC-V do not have, would fool   *)
(* the comparison of last bytes in trigger_hitcounter.                      *)
ASSUME CodeAssumption ==
  /\ Insns \subseteq Nat /\ IsFiniteSet(Insns) /\ InsnSize \in [Insns -> Nat \ {0, 1}]
  /\ Branches \subseteq Insns /\ Targets \subseteq Insns /\ Handler \in Targets
  /\ \A i \in Insns : i \in Branches \/ i + InsnSize[i] \in Insns
  /\ \A i, j \in Insns : i < j => i + InsnSize[i] <= j

(* NULL is told from the places Backwards may return.                       *)
ASSUME ConfigAssumption ==
  /\ FaultSpecs \in Seq(FaultSpec) /\ MaxBlocks \in Nat
  /\ \A w \in WildcardSpecs :
       /\ w \in WildcardSpec
       /\ w.local => w.start.hitcounter = 0 /\ w.end.hitcounter = 0
  /\ NULL \notin [idx : Nat, ins : Nat]

VARIABLES
  phase,           \* "golden", "configured", and those of FilterTb
  pc,              \* where control is
  tbexec,          \* the blocks executed, by their first addresses
  faultconfig,     \* the faults with their triggers
  wildcard_faults, \* what each wildcard is expanded to; NULL: the program exits
  (* history *)
  trace,           \* the instructions executed
  left_early       \* control left a block before its end

-----------------------------------------------------------------------------
(* The blocks.  build_filters reads the addresses of a block's             *)
(* instructions from its disassembly.                                      *)
LastInsn(b) == Min({r \in Branches : r >= b})
TbEnd(b) == LastInsn(b) + InsnSize[LastInsn(b)] - 1
Body(b) == {i \in Insns : b <= i /\ i <= LastInsn(b)}

(* The elements of a set of numbers in order.                              *)
Sorted(S) ==
  [j \in 1 .. Cardinality(S) |-> CHOOSE i \in S : Cardinality({k \in S : k <= i}) = j]

Filters == [b \in Insns |-> Sorted(Body(b))]
Filter(b) == Filters[b]

Executions(tb, idx) == Cardinality({k \in 1 .. idx : tbexec[k] = tb})

(* The executions of instruction ins of block number idx up to there: those *)
(* of its block, of the blocks that contain it, and of the blocks inside    *)
(* that begin no later than the instruction.  The code adds up the          *)
(* executions of these blocks one by one.                                   *)
trigger_hitcounter_of_block(idx, ins) ==   \* wrong variant: its own block only
  Executions(tbexec[idx], idx)
trigger_hitcounter(idx, ins) ==
  LET tb == tbexec[idx]
      others == {tbexec[k] : k \in 1 .. idx}
      around == {t \in others : tb > t /\ tb <= TbEnd(t)}
      within == {t \in others : /\ tb < t /\ TbEnd(tb) > t /\ TbEnd(tb) <= TbEnd(t)
                                /\ ins >= t}
  IN  Cardinality({k \in 1 .. idx : tbexec[k] \in {tb} \cup around \cup within})

-----------------------------------------------------------------------------
(* Triggers.                                                               *)

(* The block in which the address is executed for the n-th time, 0 if      *)
(* there is none, and the instruction the address lies in.                 *)
find_fault(address, n) ==
  LET matching == {k \in DOMAIN tbexec : tbexec[k] <= address /\ address <= TbEnd(tbexec[k])}
  IN  IF n > Cardinality(matching) THEN 0
      ELSE CHOOSE k \in matching : Cardinality({j \in matching : j <= k}) = n

allign_fault_to_instruction(address) ==
  CHOOSE i \in Insns : i <= address /\ address < i + InsnSize[i]

(* Instructions run up to and including ins in block number idx.           *)
calculate_lifespan_from_start(idx, ins) ==
  LET before[k \in 0 .. idx - 1] ==
        IF k = 0 THEN 0 ELSE before[k - 1] + Len(Filter(tbexec[k]))
  IN  before[idx - 1] + Cardinality({i \in Body(tbexec[idx]) : i <= ins})

(* The instruction position instructions before block number idx + 1; NULL *)
(* if the run did not go back so far.                                      *)
Backwards(idx, position) ==
  LET back[k \in 0 .. idx] ==
        [p \in 1 .. position |->
          IF k = 0 THEN NULL
          ELSE LET filt == Filter(tbexec[k])
               IN  IF p > Len(filt) THEN back[k - 1][p - Len(filt)]
                   ELSE [idx |-> k, ins |-> filt[Len(filt) - p + 1]]]
  IN  back[idx][position]

TriggerPlace(idx, ins, position) ==
  LET filt == Filter(tbexec[idx])
      i == CHOOSE j \in DOMAIN filt : filt[j] = ins
  IN  IF i > position THEN [idx |-> idx, ins |-> filt[i - position]]
      ELSE Backwards(idx - 1, position - i + 1)

Trigger(address, hitcounter, lifespan) ==
  [address |-> address, hitcounter |-> hitcounter, lifespan |-> lifespan]

Unresolved(f) == Trigger(-1, f.hitcounter, f.lifespan)

search_for_fault_location(f) ==
  LET idx   == find_fault(f.address, f.hitcounter)
      ins   == allign_fault_to_instruction(f.address)
      place == TriggerPlace(idx, ins, -f.trigger_address)
  IN  IF idx = 0 THEN Unresolved(f)
      ELSE IF place = NULL
      THEN Trigger(f.address, 0,
                   IF f.lifespan > 0
                   THEN calculate_lifespan_from_start(idx, ins) + f.trigger_address + f.lifespan
                   ELSE 0)
      ELSE Trigger(place.ins, trigger_hitcounter(place.idx, place.ins), f.lifespan)

calculate_trigger_address(f) ==
  IF f.trigger_address >= 0 \/ f.hitcounter = 0
  THEN Trigger(f.trigger_address, f.hitcounter, f.lifespan)
  ELSE IF f.lifespan # 0 /\ f.trigger_address + f.lifespan < 0 THEN Unresolved(f)
  ELSE search_for_fault_location(f)

find_insn_addresses_in_tb(address) ==
  \E k \in DOMAIN tbexec : tbexec[k] <= address /\ address <= TbEnd(tbexec[k])

(* Which faults are rejected: those with triggers outside of the blocks     *)
(* executed, and with them every later fault of the same trigger address.   *)
(* Overwrite faults without a hit counter are not looked at.                *)
checktriggers_in_tb(triggers) ==
  LET Exempt(j) == triggers[j].hitcounter = 0 /\ FaultSpecs[j].model = "OVERWRITE"
  IN  {k \in DOMAIN triggers :
        /\ ~find_insn_addresses_in_tb(triggers[k].address)
        /\ \E j \in 1 .. k : triggers[j].address = triggers[k].address /\ ~Exempt(j)}

-----------------------------------------------------------------------------
(* Wildcards.                                                              *)

(* The instructions executed, with the numbers of their blocks.            *)
Walked ==
  LET walked[k \in 0 .. Len(tbexec)] ==
        IF k = 0 THEN <<>>
        ELSE LET filt == Filter(tbexec[k])
             IN  walked[k - 1] \o [j \in DOMAIN filt |-> <<k, filt[j]>>]
  IN  walked[Len(tbexec)]

(* One instruction of generate_wildcard_faults.  to_start and ends count   *)
(* the points met; reached is the block in which the range ended.  The     *)
(* loop is left with the fault generated after that, or with the block.    *)
EndsBeforeStart(w, s, ins) ==   \* wrong variant: a range not begun may end
  w.end.hitcounter # 0 /\ ins = w.end.address /\ s.ends + 1 = w.end.hitcounter
Ends(w, s, ins) ==
  /\ w.end.hitcounter # 0 /\ ins = w.end.address /\ s.ends + 1 = w.end.hitcounter
  /\ s.to_start = 0

WildcardStep(w, s, step) ==
  LET k        == step[1]
      ins      == step[2]
      reached  == IF Ends(w, s, ins) THEN k ELSE s.reached
      to_start == IF s.to_start # 0 /\ ins = w.start.address THEN s.to_start - 1 ELSE s.to_start
      active   == s.active \/ ~w.local \/ ins = w.start.address
      faulted  == to_start = 0 /\ active /\ ins \notin w.exclude
  IN  IF s.done \/ (s.reached # 0 /\ k > s.reached) THEN s
      ELSE [to_start |-> to_start, reached |-> reached,
            ends   |-> IF ins = w.end.address THEN s.ends + 1 ELSE s.ends,
            active |-> active /\ ~(w.local /\ ins = w.end.address),
            done   |-> faulted /\ reached # 0,
            faults |-> IF faulted
                       THEN Append(s.faults, [address |-> ins,
                                              hitcounter |-> trigger_hitcounter(k, ins)])
                       ELSE s.faults]

generate_wildcard_faults(w) ==
  LET steps == Walked
      s[p \in 0 .. Len(steps)] ==
        IF p = 0 THEN [to_start |-> w.start.hitcounter, ends |-> 0, reached |-> 0,
                       active |-> FALSE, done |-> FALSE, faults |-> <<>>]
        ELSE WildcardStep(w, s[p - 1], steps[p])
      end == s[Len(steps)]
  IN  IF end.to_start # 0 \/ (w.end.hitcounter # 0 /\ end.reached = 0)
      THEN NULL ELSE end.faults

-----------------------------------------------------------------------------
Init ==
  /\ phase = "golden" /\ pc \in Targets
  /\ tbexec = <<>> /\ trace = <<>> /\ left_early = FALSE
  /\ faultconfig = <<>> /\ wildcard_faults = <<>>

(* Control runs n instructions of a block: to its end, or once in the run   *)
(* only to an exception.                                                    *)
RunBlock ==
  /\ phase = "golden" /\ Len(tbexec) < MaxBlocks
  /\ \E n \in DOMAIN Filter(pc), target \in Targets :
       /\ n < Len(Filter(pc)) => target = Handler /\ ~left_early
       /\ trace' = trace \o SubSeq(Filter(pc), 1, n)
       /\ left_early' = (left_early \/ n < Len(Filter(pc)))
       /\ pc' = target
  /\ tbexec' = Append(tbexec, pc)
  /\ UNCHANGED <<phase, faultconfig, wildcard_faults>>

EndGoldenRun ==
  /\ phase = "golden" /\ tbexec # <<>>
  /\ phase' = "configured"
  /\ LET triggers == [k \in DOMAIN FaultSpecs |-> calculate_trigger_address(FaultSpecs[k])]
     IN  faultconfig' = [k \in DOMAIN triggers |->
                           [trigger |-> triggers[k],
                            delete  |-> k \in checktriggers_in_tb(triggers)]]
  /\ wildcard_faults' = [w \in WildcardSpecs |-> generate_wildcard_faults(w)]
  /\ UNCHANGED <<pc, tbexec, trace, left_early>>

GoldenNext == RunBlock \/ EndGoldenRun

-----------------------------------------------------------------------------
(* Properties.                                                             *)

(* The executions of one instruction, by their places in the trace.        *)
Occurrences(ins) == {p \in DOMAIN trace : trace[p] = ins}
NumberOf(p) == Cardinality({q \in Occurrences(trace[p]) : q <= p})

(* What find_fault, search_for_fault_location and checktriggers_in_tb are  *)
(* for: the trigger of a fault is the instruction so many instructions     *)
(* ahead of the execution meant, at the number that execution has in the   *)
(* run.  If the run does not go back so far the fault is injected at its   *)
(* start, and its lifetime ends where it would have.  It is rejected if it *)
(* would be over before, or if there is no such execution.                 *)
TriggerExact(f, c) ==
  LET hits == {p \in DOMAIN trace : trace[p] <= f.address
                                    /\ f.address < trace[p] + InsnSize[trace[p]]}
      at == CHOOSE p \in hits : Cardinality({q \in hits : q <= p}) = f.hitcounter
      trigger == at + f.trigger_address
  IN  IF Cardinality(hits) < f.hitcounter \/ f.lifespan \in 1 .. (-f.trigger_address - 1)
      THEN c.delete
      ELSE /\ ~c.delete
           /\ IF trigger > 0
              THEN c.trigger = Trigger(trace[trigger], NumberOf(trigger), f.lifespan)
              ELSE /\ c.trigger.hitcounter = 0
                   /\ c.trigger.lifespan = IF f.lifespan = 0 THEN 0
                                           ELSE f.lifespan + trigger
TriggersExact ==
  phase = "configured" /\ ~left_early =>
    \A k \in DOMAIN FaultSpecs :
      FaultSpecs[k].trigger_address < 0 /\ FaultSpecs[k].hitcounter # 0
        => TriggerExact(FaultSpecs[k], faultconfig[k])

(* What generate_wildcard_faults promises: the executions from the start   *)
(* point to the end point that are not excluded, each with its number, in  *)
(* order; of a local wildcard, those of every range from a start to the    *)
(* next end.  The program exits if a point is not met or the end is not    *)
(* behind the start.  An end point that is itself excluded is left out:    *)
(* the code then goes on for one more instruction of the block.            *)
Nth(point) == {p \in Occurrences(point.address) : NumberOf(p) = point.hitcounter}
InLocalRange(w, p) ==
  \E q \in Occurrences(w.start.address) :
     q <= p /\ \A r \in Occurrences(w.end.address) : r < q \/ r >= p
StartPlaces(w) == IF w.start.hitcounter = 0 THEN {0} ELSE Nth(w.start)
EndPlaces(w) == IF w.end.hitcounter = 0 THEN {Len(trace) + 1} ELSE Nth(w.end)
WantedPlaces(w) ==
  {p \in DOMAIN trace :
     /\ \A f \in StartPlaces(w), l \in EndPlaces(w) : f <= p /\ p <= l
     /\ trace[p] \notin w.exclude
     /\ w.local => InLocalRange(w, p)}
FaultsAt(places) ==
  [j \in DOMAIN places |-> [address |-> trace[places[j]], hitcounter |-> NumberOf(places[j])]]
WildcardExact(w, faults) ==
  faults = IF \E f \in StartPlaces(w), l \in EndPlaces(w) : f < l
           THEN FaultsAt(Sorted(WantedPlaces(w)))
           ELSE NULL
WildcardsExact ==
  phase = "configured" /\ ~left_early =>
    \A w \in WildcardSpecs :
      w.end.hitcounter = 0 \/ w.end.address \notin w.exclude
        => WildcardExact(w, wildcard_faults[w])
=============================================================================
