---------------------------- MODULE FaultPlugin ----------------------------
(***************************************************************************)
(* The fault injection core of the QEMU plugin (faultplugin/): the         *)
(* translation-block event, the trigger, lifetime, start and end point     *)
(* callbacks, inject_fault and reverse_fault, the request counter of       *)
(* singlestep.c and the collection of faulted assembly.                    *)
(*                                                                         *)
(* The guest is one vCPU.  Its code is the addresses 1..MaxAddr with one   *)
(* instruction each; a block runs from its first address to the next       *)
(* branch, or is one instruction long while single-stepping is on.  Where  *)
(* control goes after any instruction is left open: a branch target, the   *)
(* next address, an exception, or whatever an injected fault leads to.     *)
(* When control leaves a block the guest may also halt (WFI ends a block)  *)
(* and then executes nothing until an interrupt wakes it, if one ever does.*)
(*                                                                         *)
(* QEMU is external.  Two things are assumed of it, both from how the      *)
(* plugin uses it: a requested flush (qemu_plugin_flush_tb) happens before *)
(* the next block is translated or entered, and the block being executed   *)
(* runs on with the callbacks it was translated with.                      *)
(***************************************************************************)
EXTENDS Integers, FiniteSets

CONSTANTS
  FaultNumber,    \* fault_number: the faults of the pack
  MaxAddr,        \* last address of the guest's code
  Branches,       \* addresses whose instruction ends a translation block
  Packs,          \* the fault packs the configuration FIFO may deliver
  StartPoint,     \* [address, hitcounter]; address 0 when none is configured
  EndPoints,      \* sequence of [address, hitcounter], in list order
  tb_counter_max, \* limit of counted instructions
  NULL

Faults == 0 .. FaultNumber - 1
Addr   == 1 .. MaxAddr
Ends   == DOMAIN EndPoints

FaultConf == [type : {"INSTRUCTION", "DATA", "REGISTER"}, address : Addr,
              lifetime : Nat, trigger : Addr, hitcounter : Nat]

ASSUME SizeAssumption ==
  /\ FaultNumber \in Nat \ {0}
  /\ MaxAddr \in Nat \ {0}
  /\ tb_counter_max \in Nat

ASSUME CodeAssumption == Branches \subseteq Addr /\ MaxAddr \in Branches

ASSUME PackAssumption == Packs \subseteq [Faults -> FaultConf]

ASSUME PointAssumption ==
  /\ StartPoint \in [address : Addr \cup {0}, hitcounter : Nat \ {0}]
  /\ Ends \subseteq Nat \ {0} /\ IsFiniteSet(Ends)
  /\ \A e \in Ends : EndPoints[e] \in [address : Addr, hitcounter : Nat \ {0}]

(* A translated block with the callbacks registered on it: the fault whose *)
(* trigger callback entry i of the trigger vector registered, the fault of *)
(* entry i of live_faults, the end points, the instruction counter         *)
(* (counted) and the start point.                                          *)
Callbacks == [Faults -> Faults \cup {NULL}]
Block == {b \in [first : Addr, last : Addr, counted : BOOLEAN, start : BOOLEAN,
                 trig : Callbacks, live : Callbacks, ends : SUBSET Ends] :
            b.first <= b.last}

(* An element of tb_faulted_list; the assembly is the block disassembled. *)
Extent == [first : Addr, last : Addr]
Item  == [trigger_address : Addr, assembler : Extent \cup {NULL}]

ASSUME NullAssumption == NULL \notin Int \cup Block \cup Extent \cup Item
                         \cup [address : Int, counter : Int]

VARIABLES
  (* the fault list and the vectors that index it *)
  pack,                     \* the configured faults, in list order
  hitcounter, lifetime,     \* counted down in the fault structs
  trignum,                  \* index into the trigger vector, then into live_faults
  fault_trigger_addresses, live_faults, live_faults_number,
  (* singlestep.c *)
  req_singlestep,
  (* start point, end points, instruction limit *)
  started,                  \* start_point.trignum # 3
  start_hit, end_hit, tb_counter, end_reason,
  first_tb,
  (* tb_faulted_collection.c *)
  active_triggers, current_triggers, done_triggers, tb_faulted_list,
  (* QEMU: the guest, the block cache and a pending flush *)
  phase, pc, tb, slot, walk, cache, flush,
  halted,                   \* the guest waits for an interrupt
  (* history *)
  hits, injected, alive, first_block

configVars  == <<pack>>
faultVars   == <<hitcounter, lifetime, trignum, fault_trigger_addresses,
                 live_faults, live_faults_number>>
pointVars   == <<started, start_hit, end_hit, tb_counter, end_reason, first_tb>>
faultedVars == <<active_triggers, current_triggers, done_triggers, tb_faulted_list>>
guestVars   == <<phase, pc, tb, slot, walk, cache, flush, halted>>
history     == <<hits, injected, alive, first_block>>
vars == <<configVars, faultVars, req_singlestep, pointVars, faultedVars,
          guestVars, history>>
-----------------------------------------------------------------------------
(* Single-stepping.  check_singlestep runs at each change of the counter,  *)
(* so QEMU single-steps exactly while requests are outstanding, and each   *)
(* change asks for a flush; removing from zero does neither.               *)
AddReq(r) == r + 1
RemReqAboveOne(r) == IF r > 1 THEN r - 1 ELSE r    \* wrong variant: bound off by one
RemReq(r) == IF r # 0 THEN r - 1 ELSE 0
SingleStepLate == req_singlestep > 1               \* wrong variant: bound off by one
SingleStep == req_singlestep # 0

(* The last address of a block translated at a. *)
BlockEnd(a) ==
  IF SingleStep THEN a
  ELSE CHOOSE b \in Branches : b >= a /\ \A c \in Branches : c >= a => b <= c

NoCallback == [i \in Faults |-> NULL]

(* get_fault_struct_by_trigger: the first fault of the list with address a *)
(* and trigger number i.                                                   *)
FaultByTrigger(a, i) ==
  LET match == {f \in Faults : pack[f].trigger = a /\ trignum[f] = i}
  IN IF match = {} THEN NULL
     ELSE CHOOSE f \in match : \A g \in match : f <= g

(* handle_tb_translate_event, first loop, with evaluate_trigger: entry i   *)
(* of the trigger vector registers the trigger callback of at most one     *)
(* fault.  An invalidated entry is 0, which is no address of the code.     *)
TriggerCallbacksShort(first, last) ==              \* wrong variant: misses the last address
  [i \in Faults |-> IF fault_trigger_addresses[i] \in first .. last - 1
                    THEN FaultByTrigger(fault_trigger_addresses[i], i)
                    ELSE NULL]
TriggerCallbacks(first, last) ==
  [i \in Faults |-> IF fault_trigger_addresses[i] \in first .. last
                    THEN FaultByTrigger(fault_trigger_addresses[i], i)
                    ELSE NULL]

(* eval_live_fault_callback drops an entry whose lifetime has run out. *)
StaleLive == {i \in Faults : /\ i < live_faults_number
                             /\ live_faults[i] # NULL
                             /\ lifetime[live_faults[i]] = 0}

(* handle_tb_translate_event, second loop: every other live fault gets its *)
(* callback on each instruction of the block.                              *)
LiveCallbacksShort ==                              \* wrong variant: misses the last entry
  [i \in Faults |-> IF i < live_faults_number - 1 THEN live_faults[i] ELSE NULL]
LiveCallbacks ==
  [i \in Faults |-> IF i < live_faults_number /\ i \notin StaleLive
                    THEN live_faults[i] ELSE NULL]

EndCallbacks(first, last) == {e \in Ends : EndPoints[e].address \in first .. last}

(* A live fault has been injected and will be reverted. *)
IsLive(f) == \E i \in Faults : live_faults[i] = f
-----------------------------------------------------------------------------
(* inject_fault.  req is the request counter on entry and cleared the      *)
(* entries of the trigger vector its caller and it set to zero.            *)
NewTrignumAfter(f) ==                              \* wrong variant: index read after ++
  IF lifetime[f] = 0 THEN trignum[f] ELSE live_faults_number + 1
NewTrignum(f) ==
  IF lifetime[f] = 0 THEN trignum[f]
  ELSE IF live_faults_number = FaultNumber THEN -1 ELSE live_faults_number

RegistersFaulted(f) ==
  pack[f].type = "INSTRUCTION" /\ current_triggers # FaultNumber

inject_fault(f, req, cleared) ==
  LET lives == lifetime[f] # 0 /\ live_faults_number # FaultNumber
      r1    == IF RegistersFaulted(f) THEN AddReq(req) ELSE req
      r2    == RemReq(r1)
  IN /\ req_singlestep' = IF lives THEN AddReq(r2) ELSE r2
     /\ flush' = (flush \/ pack[f].type # "REGISTER" \/ r1 # 0 \/ lives)
     /\ IF RegistersFaulted(f)
        THEN /\ active_triggers' = [active_triggers EXCEPT ![current_triggers] = pack[f].address]
             /\ tb_faulted_list' = [tb_faulted_list EXCEPT ![current_triggers] =
                  [trigger_address |-> pack[f].address, assembler |-> NULL]]
             /\ current_triggers' = current_triggers + 1
        ELSE UNCHANGED <<active_triggers, tb_faulted_list, current_triggers>>
     /\ fault_trigger_addresses' =
          [i \in Faults |-> IF i \in cleared THEN 0 ELSE fault_trigger_addresses[i]]
     /\ trignum' = [trignum EXCEPT ![f] = NewTrignum(f)]
     /\ IF lives
        THEN /\ live_faults' = [live_faults EXCEPT ![live_faults_number] = f]
             /\ live_faults_number' = live_faults_number + 1
        ELSE UNCHANGED <<live_faults, live_faults_number>>
     /\ injected' = [injected EXCEPT ![f] = hits[f]]
     /\ UNCHANGED <<lifetime, done_triggers>>
-----------------------------------------------------------------------------
(* The guest begins the instruction at a of block b: its callbacks are to  *)
(* run, and the history counts it for triggers (from the start point on)   *)
(* and for the live faults.                                                *)
BeginInsn(b, a) ==
  /\ pc' = a
  /\ slot' = 0
  /\ hits' = [f \in Faults |->
       IF b.counted /\ pack[f].trigger = a /\ hits[f] <= pack[f].hitcounter
       THEN hits[f] + 1 ELSE hits[f]]
  /\ alive' = [f \in Faults |-> IF IsLive(f) THEN alive[f] + 1 ELSE alive[f]]

NoBlocks == [a \in Addr |-> NULL]

Init ==
  /\ pack \in Packs
  /\ hitcounter = [f \in Faults |-> pack[f].hitcounter]
  /\ lifetime = [f \in Faults |-> pack[f].lifetime]
  /\ trignum = [f \in Faults |-> f]
  /\ fault_trigger_addresses = [f \in Faults |-> pack[f].trigger]
  /\ live_faults = NoCallback /\ live_faults_number = 0
  /\ req_singlestep = 0
  /\ started = (StartPoint.address = 0)
  /\ start_hit = StartPoint.hitcounter
  /\ end_hit = [e \in Ends |-> EndPoints[e].hitcounter]
  /\ tb_counter = 0 /\ end_reason = NULL
  /\ first_tb = FALSE
  /\ active_triggers = NoCallback /\ tb_faulted_list = NoCallback
  /\ current_triggers = 0 /\ done_triggers = 0
  /\ phase = "fetch" /\ pc = 1 /\ tb = NULL /\ slot = 0 /\ walk = 0
  /\ cache = NoBlocks /\ flush = FALSE /\ halted = FALSE
  /\ hits = [f \in Faults |-> 0]
  /\ injected = [f \in Faults |-> -1]
  /\ alive = [f \in Faults |-> 0]
  /\ first_block = NULL
-----------------------------------------------------------------------------
(* Translation: vcpu_translateblock_translation_event.                     *)
NewBlock(counted, start, trig, live) ==
  [first |-> pc, last |-> BlockEnd(pc), counted |-> counted, start |-> start,
   trig |-> trig, live |-> live,
   ends |-> IF counted THEN EndCallbacks(pc, BlockEnd(pc)) ELSE {}]

Translating == phase = "fetch" /\ ~halted /\ ~flush /\ cache[pc] = NULL

(* Before the start point only a block that holds it gets a callback. *)
TranslateBeforeStart ==
  /\ Translating /\ ~started
  /\ LET start == StartPoint.address \in pc .. BlockEnd(pc)
     IN cache' = [cache EXCEPT ![pc] = NewBlock(FALSE, start, NoCallback, NoCallback)]
  /\ UNCHANGED <<configVars, faultVars, req_singlestep, pointVars, faultedVars,
                 phase, pc, tb, slot, walk, flush, halted, history>>

(* The first block after that: the fault list is walked by                 *)
(* handle_first_tb_fault_insertion and no trigger is looked up.            *)
TranslateFirst ==
  /\ Translating /\ started /\ ~first_tb
  /\ cache' = [cache EXCEPT ![pc] = NewBlock(TRUE, FALSE, NoCallback, NoCallback)]
  /\ first_tb' = TRUE
  /\ phase' = "first"
  /\ first_block' = [first |-> pc, last |-> BlockEnd(pc)]
  /\ UNCHANGED <<configVars, faultVars, req_singlestep, started, start_hit, end_hit,
                 tb_counter, end_reason, faultedVars, pc, tb, slot, walk, flush,
                 halted, hits, injected, alive>>

(* One fault of handle_first_tb_fault_insertion. *)
HandleFirstTb(f) ==
  /\ phase = "first" /\ walk = f
  /\ walk' = walk + 1
  /\ phase' = IF walk' = FaultNumber THEN "check" ELSE "first"
  /\ \/ /\ hitcounter[f] = 0 /\ pack[f].type = "INSTRUCTION"
        /\ inject_fault(f, AddReq(req_singlestep), {trignum[f], NewTrignum(f)})
     \/ /\ hitcounter[f] = 1
        /\ req_singlestep' = AddReq(req_singlestep)
        /\ flush' = TRUE
        /\ UNCHANGED <<lifetime, trignum, fault_trigger_addresses, live_faults,
                       live_faults_number, faultedVars, injected>>
     \/ /\ hitcounter[f] # 1
        /\ hitcounter[f] = 0 => pack[f].type # "INSTRUCTION"
        /\ UNCHANGED <<lifetime, trignum, fault_trigger_addresses, live_faults,
                       live_faults_number, req_singlestep, flush, faultedVars, injected>>
  /\ UNCHANGED <<configVars, hitcounter, pointVars, pc, tb, slot, cache,
                 halted, hits, alive, first_block>>

(* Every later block: triggers, then live faults. *)
TranslateNext ==
  /\ Translating /\ started /\ first_tb
  /\ cache' = [cache EXCEPT ![pc] =
       NewBlock(TRUE, FALSE, TriggerCallbacks(pc, BlockEnd(pc)), LiveCallbacks)]
  /\ live_faults' = [i \in Faults |-> IF i \in StaleLive THEN NULL ELSE live_faults[i]]
  /\ req_singlestep' = IF Cardinality(StaleLive) >= req_singlestep THEN 0
                       ELSE req_singlestep - Cardinality(StaleLive)
  /\ flush' = (StaleLive # {} /\ SingleStep)
  /\ phase' = "check"
  /\ UNCHANGED <<configVars, hitcounter, lifetime, trignum, fault_trigger_addresses,
                 live_faults_number, pointVars, faultedVars, pc, tb, slot, walk, halted,
                 history>>

(* check_tb_faulted on the block just translated.  The loop marks the      *)
(* matching entries in index order.                                        *)
FaultedMatches(b) ==
  IF done_triggers = current_triggers THEN {}
  ELSE {i \in Faults : /\ i < current_triggers
                       /\ active_triggers[i] # NULL
                       /\ active_triggers[i] >= b.first
                       /\ active_triggers[i] <= b.last + 1}

(* The newest element of tb_faulted_list with the address of entry i, which *)
(* insert_faulted_assembly fills; entry i was registered with one.         *)
NewestItem(i, item) ==
  LET items == {j \in Faults : /\ j < current_triggers
                               /\ tb_faulted_list[j].trigger_address = active_triggers[i]}
  IN item \in items /\ \A j \in items : j <= item

CheckTbFaulted(i, item) ==
  LET b == cache[pc]
  IN /\ phase = "check"
     /\ i \in FaultedMatches(b) /\ \A j \in FaultedMatches(b) : i <= j
     /\ NewestItem(i, item)
     /\ tb_faulted_list' = [tb_faulted_list EXCEPT
          ![item].assembler = [first |-> b.first, last |-> b.last]]
     /\ req_singlestep' = RemReq(req_singlestep)
     /\ flush' = (flush \/ SingleStep)
     /\ active_triggers' = [active_triggers EXCEPT ![i] = NULL]
     /\ done_triggers' = done_triggers + 1
     /\ UNCHANGED <<configVars, faultVars, pointVars, current_triggers,
                    phase, pc, tb, slot, walk, cache, halted, history>>

EndTranslation ==
  /\ phase = "check" /\ FaultedMatches(cache[pc]) = {}
  /\ phase' = "fetch"
  /\ UNCHANGED <<configVars, faultVars, req_singlestep, pointVars, faultedVars,
                 pc, tb, slot, walk, cache, flush, halted, history>>
-----------------------------------------------------------------------------
(* Execution.                                                              *)

(* QEMU carries out a requested flush. *)
Flush ==
  /\ phase = "fetch" /\ flush
  /\ cache' = NoBlocks
  /\ flush' = FALSE
  /\ UNCHANGED <<configVars, faultVars, req_singlestep, pointVars, faultedVars,
                 phase, pc, tb, slot, walk, halted, history>>

Entering(b) == phase = "fetch" /\ ~halted /\ ~flush /\ b # NULL

(* A block translated before the start point, and tb_exec_start_cb. *)
EnterUncounted ==
  LET b == cache[pc]
      reached == b.start /\ start_hit = 1
  IN /\ Entering(b) /\ ~b.counted
     /\ start_hit' = IF b.start THEN start_hit - 1 ELSE start_hit
     /\ started' = (started \/ reached)
     /\ flush' = reached
     /\ tb' = b
     /\ phase' = "insn"
     /\ BeginInsn(b, pc)
     /\ UNCHANGED <<configVars, faultVars, req_singlestep, end_hit, tb_counter,
                    end_reason, first_tb, faultedVars, walk, cache, halted, injected,
                    first_block>>

(* The instructions tb_exec_end_max_event counts for a block. *)
InsnCountShort(b) == b.last - b.first              \* wrong variant: off by one
InsnCount(b) == b.last - b.first + 1

(* tb_exec_end_max_event lets the block run and counts its instructions. *)
EnterCounted ==
  LET b == cache[pc]
  IN /\ Entering(b) /\ b.counted
     /\ tb_counter < tb_counter_max
     /\ tb_counter' = tb_counter + InsnCount(b)
     /\ tb' = b
     /\ phase' = "insn"
     /\ BeginInsn(b, pc)
     /\ UNCHANGED <<configVars, faultVars, req_singlestep, started, start_hit, end_hit,
                    end_reason, first_tb, faultedVars, walk, cache, flush, halted, injected,
                    first_block>>

(* tb_exec_end_max_event at the limit: dump with reason "max tb" and exit. *)
MaxTb == [address |-> 0, counter |-> 0]

MaxReached ==
  LET b == cache[pc]
  IN /\ Entering(b) /\ b.counted
     /\ tb_counter >= tb_counter_max
     /\ end_reason' = MaxTb
     /\ phase' = "done"
     /\ UNCHANGED <<configVars, faultVars, req_singlestep, started, start_hit, end_hit,
                    tb_counter, first_tb, faultedVars, pc, tb, slot, walk, cache, flush,
                    halted, history>>

(* The callbacks of the current instruction run in the order in which they *)
(* were registered: triggers, live faults, end points.                     *)
HasCallback(s) ==
  \/ s \in Faults /\ tb.trig[s] # NULL /\ pack[tb.trig[s]].trigger = pc
  \/ s - FaultNumber \in Faults /\ tb.live[s - FaultNumber] # NULL
  \/ LET e == s - 2 * FaultNumber + 1 IN e \in tb.ends /\ EndPoints[e].address = pc

Slots == 0 .. 2 * FaultNumber + Cardinality(Ends) - 1
Pending == {s \in Slots : s >= slot /\ HasCallback(s)}
Running(s) == phase = "insn" /\ s \in Pending /\ \A r \in Pending : s <= r

(* trigger_insn_cb *)
TriggerInsnCb(i) ==
  LET f == tb.trig[i]
  IN /\ Running(i)
     /\ slot' = i + 1
     /\ hitcounter' = [hitcounter EXCEPT ![f] = IF @ # 0 THEN @ - 1 ELSE 0]
     /\ \/ /\ hitcounter[f] = 1
           /\ inject_fault(f, req_singlestep, {trignum[f]})
        \/ /\ hitcounter[f] = 2
           /\ req_singlestep' = AddReq(req_singlestep)
           /\ flush' = TRUE
           /\ UNCHANGED <<lifetime, trignum, fault_trigger_addresses, live_faults,
                          live_faults_number, faultedVars, injected>>
        \/ /\ hitcounter[f] \notin {1, 2}
           /\ UNCHANGED <<lifetime, trignum, fault_trigger_addresses, live_faults,
                          live_faults_number, req_singlestep, flush, faultedVars, injected>>
     /\ UNCHANGED <<configVars, pointVars, phase, pc, tb, walk, cache,
                    halted, hits, alive, first_block>>

(* tb_exec_cb, with reverse_fault when the lifetime runs out. *)
TbExecCb(i) ==
  LET f == tb.live[i]
      expires == lifetime[f] = 1
  IN /\ Running(FaultNumber + i)
     /\ slot' = FaultNumber + i + 1
     /\ lifetime' = [lifetime EXCEPT ![f] = IF @ # 0 THEN @ - 1 ELSE 0]
     /\ req_singlestep' = IF expires THEN RemReq(req_singlestep) ELSE req_singlestep
     /\ flush' = (flush \/ (expires /\ (pack[f].type # "REGISTER" \/ SingleStep)))
     /\ live_faults' = IF expires THEN [live_faults EXCEPT ![trignum[f]] = NULL]
                       ELSE live_faults
     /\ UNCHANGED <<configVars, hitcounter, trignum, fault_trigger_addresses,
                    live_faults_number, pointVars, faultedVars, phase, pc, tb, walk,
                    cache, halted, history>>

(* tb_exec_end_cb.  The reason is formatted from the counter as it is now. *)
TbExecEndCb(e) ==
  LET s == 2 * FaultNumber + e - 1
  IN /\ Running(s)
     /\ slot' = s + 1
     /\ IF end_hit[e] = 1
        THEN /\ phase' = "done"
             /\ end_reason' = [address |-> EndPoints[e].address, counter |-> end_hit[e]]
             /\ UNCHANGED end_hit
        ELSE /\ end_hit' = [end_hit EXCEPT ![e] = @ - 1]
             /\ UNCHANGED <<phase, end_reason>>
     /\ UNCHANGED <<configVars, faultVars, req_singlestep, started, start_hit, tb_counter,
                    first_tb, faultedVars, pc, tb, walk, cache, flush, halted,
                    history>>

(* The next instruction of the block begins. *)
NextInsn ==
  /\ phase = "insn" /\ Pending = {} /\ pc < tb.last
  /\ BeginInsn(tb, pc + 1)
  /\ UNCHANGED <<configVars, faultVars, req_singlestep, pointVars, faultedVars,
                 phase, tb, walk, cache, flush, halted, injected, first_block>>

(* Control leaves the block, at its end or earlier through an exception,   *)
(* and goes on at target, at once or after the guest has been woken.       *)
LeaveBlock(target) ==
  /\ phase = "insn" /\ Pending = {}
  /\ phase' = "fetch"
  /\ pc' = target
  /\ tb' = NULL /\ slot' = 0
  /\ halted' \in BOOLEAN
  /\ UNCHANGED <<configVars, faultVars, req_singlestep, pointVars, faultedVars,
                 walk, cache, flush, history>>

(* An interrupt wakes the halted guest. *)
Wake ==
  /\ halted
  /\ halted' = FALSE
  /\ UNCHANGED <<configVars, faultVars, req_singlestep, pointVars, faultedVars,
                 phase, pc, tb, slot, walk, cache, flush, history>>

(* The plugin has called exit: nothing runs any more. *)
Terminated == phase = "done" /\ UNCHANGED vars

Translate ==
  \/ TranslateBeforeStart \/ TranslateFirst \/ TranslateNext
  \/ \E f \in Faults : HandleFirstTb(f)
  \/ \E i, item \in Faults : CheckTbFaulted(i, item)
  \/ EndTranslation

Execute ==
  \/ Flush \/ EnterUncounted \/ EnterCounted \/ MaxReached
  \/ \E i \in Faults : TriggerInsnCb(i) \/ TbExecCb(i)
  \/ \E e \in Ends : TbExecEndCb(e)
  \/ NextInsn
  \/ \E target \in Addr : LeaveBlock(target)

Next == Translate \/ Execute \/ Wake \/ Terminated

(* The vCPU keeps executing guest code until the plugin exits, unless the  *)
(* guest is halted; nothing promises that it is ever woken.                *)
Spec == Init /\ [][Next]_vars /\ WF_vars(Translate \/ Execute)
-----------------------------------------------------------------------------
(* Type correctness of the plugin's, the guest's and the history state. *)
FaultTypes ==
  /\ pack \in [Faults -> FaultConf]
  /\ hitcounter \in [Faults -> Nat] /\ lifetime \in [Faults -> Nat]
  /\ trignum \in [Faults -> Faults \cup {-1}]
  /\ fault_trigger_addresses \in [Faults -> Addr \cup {0}]
  /\ live_faults \in Callbacks /\ live_faults_number \in 0 .. FaultNumber
  /\ req_singlestep \in Nat

PointTypes ==
  /\ started \in BOOLEAN /\ start_hit \in Int
  /\ end_hit \in [Ends -> Int] /\ tb_counter \in Nat
  /\ end_reason \in [address : Addr \cup {0}, counter : Int] \cup {NULL}
  /\ first_tb \in BOOLEAN

FaultedTypes ==
  /\ active_triggers \in [Faults -> Addr \cup {NULL}]
  /\ tb_faulted_list \in [Faults -> Item \cup {NULL}]
  /\ current_triggers \in 0 .. FaultNumber /\ done_triggers \in Nat

GuestTypes ==
  /\ phase \in {"fetch", "first", "check", "insn", "done"}
  /\ pc \in Addr /\ tb \in Block \cup {NULL}
  /\ slot \in Nat /\ walk \in 0 .. FaultNumber
  /\ cache \in [Addr -> Block \cup {NULL}] /\ flush \in BOOLEAN /\ halted \in BOOLEAN

HistoryTypes ==
  /\ hits \in [Faults -> Nat] /\ injected \in [Faults -> Nat \cup {-1}]
  /\ alive \in [Faults -> Nat]
  /\ first_block \in Extent \cup {NULL}

TypeOK == FaultTypes /\ PointTypes /\ FaultedTypes /\ GuestTypes /\ HistoryTypes

(* Who holds a single-step request: a fault whose trigger needs one more   *)
(* hit, a live fault, a faulted address whose assembly is still awaited.   *)
Armed   == {f \in Faults : f < walk /\ hitcounter[f] = 1}
Live    == {i \in Faults : live_faults[i] # NULL}
Awaited == {i \in Faults : active_triggers[i] # NULL}

(* The request counter is the number of holders: no add without its remove *)
(* and no remove too many, over every order in which the faults of a pack  *)
(* are armed, injected, disassembled and reverted.                         *)
SingleStepBalance ==
  req_singlestep = Cardinality(Armed) + Cardinality(Live) + Cardinality(Awaited)

(* What the balance rests on.  The table of live faults: filled from the   *)
(* front, each entry holding an injected fault that points back to it.     *)
LiveTable ==
  \A i \in Faults :
    /\ i >= live_faults_number => live_faults[i] = NULL
    /\ live_faults[i] # NULL =>
         LET f == live_faults[i]
         IN trignum[f] = i /\ lifetime[f] # 0 /\ hitcounter[f] = 0 /\ f < walk

(* The table of faulted addresses, filled from the front. *)
FaultedTable ==
  \A i \in Faults :
    /\ i >= current_triggers => active_triggers[i] = NULL
    /\ i < current_triggers => tb_faulted_list[i] # NULL

(* A registered callback refers to a fault that can still take it: triggers *)
(* only after the fault list has been walked, lifetime callbacks for       *)
(* injected faults, still in their entry of the table unless reverted.     *)
CallbacksSound(b) ==
  \A i \in Faults :
    /\ b.trig[i] # NULL => walk = FaultNumber
    /\ b.live[i] # NULL =>
         LET f == b.live[i]
         IN /\ hitcounter[f] = 0 /\ walk = FaultNumber
            /\ lifetime[f] # 0 => trignum[f] \in Faults /\ live_faults[trignum[f]] = f

BlocksSound ==
  /\ tb # NULL => CallbacksSound(tb)
  /\ \A a \in Addr : cache[a] # NULL => CallbacksSound(cache[a])

PhaseSound ==
  /\ phase = "insn" => tb # NULL
  /\ phase \in {"first", "check"} => cache[pc] # NULL
  /\ phase = "first" <=> first_tb /\ walk < FaultNumber
  /\ ~first_tb => walk = 0
  /\ halted => phase = "fetch"

IInv == /\ TypeOK /\ LiveTable /\ FaultedTable /\ BlocksSound /\ PhaseSound
        /\ SingleStepBalance

(* A trigger that will fire on its next hit is only ever evaluated in a    *)
(* block of one instruction, so no instruction translated before the fault *)
(* runs after it ("we need to force singlestep mode for precision reasons",*)
(* handle_first_tb_fault_insertion).                                       *)
TriggerBlockIsSingle ==
  phase = "insn" => \A i \in Faults :
    (i \in Pending /\ hitcounter[tb.trig[i]] = 1) => tb.first = tb.last

Injected(f) == injected[f] # -1
Reverted(f) == Injected(f) /\ pack[f].lifetime > 0 /\ ~IsLive(f)

(* Fault f is injected at the configured execution of its trigger          *)
(* instruction, not before and not later; with counter zero only an        *)
(* instruction fault is, as soon as the first block is translated.         *)
OnTime(f) ==
  LET n == pack[f].hitcounter
      due == IF n = 0 THEN pack[f].type = "INSTRUCTION" /\ walk > f ELSE hits[f] >= n
  IN /\ Injected(f) => due /\ injected[f] = n
     /\ phase = "fetch" /\ due => Injected(f)

(* The three circumstances under which the plugin loses a trigger.  With    *)
(* an early live fault, handle_first_tb_fault_insertion removes the trigger *)
(* trignum names after inject_fault has made it the index of a live fault:  *)
(* that of another fault.                                                   *)
DistinctTriggers ==
  \A f, g \in Faults : f # g => pack[f].trigger # pack[g].trigger
NoEarlyLiveFault ==
  \A f \in Faults : ~(/\ pack[f].hitcounter = 0 /\ pack[f].type = "INSTRUCTION"
                      /\ pack[f].lifetime > 0)
OutsideFirstBlock(f) ==
  first_block # NULL => pack[f].trigger \notin first_block.first .. first_block.last

(* Outside of those circumstances every fault of a pack is injected at the *)
(* execution of its trigger that trigger_counter names, whatever the other *)
(* faults of the pack and the blocks the guest is cut into.                *)
InjectionOnTime ==
  DistinctTriggers /\ NoEarlyLiveFault =>
    \A f \in Faults : OutsideFirstBlock(f) => OnTime(f)

(* A fault with a lifetime is reverted when that many instructions have    *)
(* begun since its injection, neither earlier nor later (tb_exec_cb,       *)
(* fault_lifespan): every instruction run meanwhile had the callback.      *)
LifespanExact ==
  phase = "fetch" => \A f \in Faults :
    Injected(f) /\ pack[f].lifetime > 0 =>
      IF Reverted(f) THEN alive[f] = pack[f].lifetime
                     ELSE alive[f] < pack[f].lifetime

(* Both, as the experiment sees it: no fault comes too early, too late or  *)
(* for too long.                                                           *)
FaultsOnTime == InjectionOnTime /\ LifespanExact

(* Unless it stays halted, a guest that has passed the start point comes to *)
(* an end point or to the instruction limit, even if a fault traps it in an *)
(* endless loop.  One that is never woken again (WFI) reaches neither, and  *)
(* only the controller's timeout ends its experiment.                      *)
StartedTerminates == []<>~halted => (started ~> (phase = "done"))
=============================================================================
