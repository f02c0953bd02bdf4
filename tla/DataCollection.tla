--------------------------- MODULE DataCollection ---------------------------
(***************************************************************************)
(* The two tables the plugin fills while the guest runs: the translated    *)
(* blocks (tb_info_data_collection.c, one record per base address) and the *)
(* memory accesses (faultplugin.c, one record per instruction and memory   *)
(* address).  Each is a linked list, newest first, with an AVL tree as its *)
(* index.  At the end both lists go into the message, the tables are       *)
(* freed, and the worker (faultclass.py) names the block of every access.  *)
(*                                                                         *)
(* The comparison function of the accesses returns a difference of 64-bit  *)
(* addresses as an int of 32 bits; an int lies in -IntMax-1 .. IntMax      *)
(* here, and addresses are not bounded.                                    *)
(***************************************************************************)
EXTENDS AvlTree, FiniteSetsExt, SequencesExt

CONSTANTS
  IntMax,        \* the greatest int
  Blocks,        \* the guest's blocks: [base, last], an instruction per address
  MemAccesses,   \* the guest's accesses: [ins, mem, store]
  MaxAccesses,   \* bound: accesses of one run
  NULL

ASSUME WidthAssumption == IntMax \in Nat /\ MaxAccesses \in Nat

ASSUME GuestAssumption ==
  /\ \A b \in Blocks : b.base \in Nat /\ b.last \in Nat /\ b.base <= b.last
  /\ \A a \in MemAccesses : a.ins \in Nat /\ a.mem \in Nat /\ a.store \in BOOLEAN
  /\ IsFiniteSet(MemAccesses)

(* The records of the two lists: tb_info_t and mem_info_t.                 *)
TbRecord == [base : Nat, size : Nat \ {0}]
MemInfo == [ins : Nat, mem : Nat, direction : BOOLEAN, counter : Nat \ {0}]

ASSUME NullAssumption ==
  NULL \notin [tb_informations : Seq(TbRecord), mem_infos : Seq(MemInfo)]

VARIABLES
  tb_info_enabled,        \* from the control message
  mem_info_list_enabled,  \* from the control message
  tb_infos,      \* tb_info_list, oldest first
  tb_tree,       \* tb_avl_root
  mem_infos,     \* mem_info_list, oldest first
  mem_tree,      \* mem_avl_root
  message,       \* the lists in the message, in their order; NULL before
  translated,    \* history: the blocks translated
  accesses       \* history: how often each access happened

tables == <<tb_infos, tb_tree, mem_infos, mem_tree>>
vars == <<tb_info_enabled, mem_info_list_enabled, tables, message,
          translated, accesses>>

-----------------------------------------------------------------------------
(* A difference converted to int.                                          *)
ToInt(d) ==
  LET m == d % (2 * (IntMax + 1))
  IN  IF m > IntMax THEN m - 2 * (IntMax + 1) ELSE m

mem_comparison_by_memory(a, b) == ToInt(a.mem - b.mem)   \* wrong variant: no instruction
mem_comparison_func(a, b) ==
  IF a.ins = b.ins /\ a.mem # b.mem THEN ToInt(a.mem - b.mem)
                                    ELSE ToInt(a.ins - b.ins)

tb_comparison_by_block(a, b) ==                          \* wrong variant: the size as well
  IF a.base < b.base THEN -1 ELSE IF a.base > b.base THEN 1 ELSE a.size - b.size
tb_comparison_func(a, b) ==
  IF a.base < b.base THEN -1 ELSE IF a.base > b.base THEN 1 ELSE 0

MemCmp(a) == [p \in DOMAIN mem_infos |-> mem_comparison_func(a, mem_infos[p])]
TbCmp(info) == [p \in DOMAIN tb_infos |-> tb_comparison_func(info, tb_infos[p])]

Init ==
  /\ tb_info_enabled \in BOOLEAN
  /\ mem_info_list_enabled \in BOOLEAN
  /\ tb_infos = <<>> /\ tb_tree = avl_create
  /\ mem_infos = <<>> /\ mem_tree = avl_create
  /\ message = NULL
  /\ translated = {} /\ accesses = [a \in MemAccesses |-> 0]

Running == message = NULL

(* An address is a byte, so the last instruction's size is one.            *)
calculate_bytesize_instructions(b) == b.last - b.base + 1

TbInfo(b) == [base |-> b.base, size |-> calculate_bytesize_instructions(b)]

(* A block whose base address is known keeps the record of its first       *)
(* translation.                                                            *)
add_tb_info(info) ==
  IF avl_find(tb_tree, TbCmp(info)) # 0
  THEN UNCHANGED <<tb_infos, tb_tree>>
  ELSE /\ tb_infos' = Append(tb_infos, info)
       /\ tb_tree' = avl_insert(tb_tree, TbCmp(info))

HandleTbTranslateData(b) ==
  /\ Running
  /\ translated' = translated \cup {b}
  /\ IF tb_info_enabled THEN add_tb_info(TbInfo(b)) ELSE UNCHANGED <<tb_infos, tb_tree>>
  /\ UNCHANGED <<tb_info_enabled, mem_info_list_enabled, mem_infos, mem_tree,
                 message, accesses>>

(* The record of a new access; its counter is raised with the first one.   *)
NewMemInfoCounted(a) == [ins |-> a.ins, mem |-> a.mem, direction |-> a.store,
                         counter |-> 1]                  \* wrong variant: starts at one
NewMemInfo(a) == [ins |-> a.ins, mem |-> a.mem, direction |-> a.store, counter |-> 0]

(* Raise the counter of record p.                                          *)
CountOldest(list, p) == [list EXCEPT ![1].counter = @ + 1]  \* wrong variant: always the first
Count(list, p) == [list EXCEPT ![p].counter = @ + 1]

(* memaccess_data_cb, registered on every instruction of a block that is   *)
(* translated while the accesses are collected.                            *)
MemaccessDataCb(a) ==
  LET p == avl_find(mem_tree, MemCmp(a))
  IN  /\ Running
      /\ mem_info_list_enabled
      /\ \E b \in translated : a.ins \in b.base .. b.last
      /\ FoldFunction(+, 0, accesses) < MaxAccesses
      /\ accesses' = [accesses EXCEPT ![a] = @ + 1]
      /\ IF p # 0
         THEN mem_infos' = Count(mem_infos, p) /\ UNCHANGED mem_tree
         ELSE /\ mem_infos' = Count(Append(mem_infos, NewMemInfo(a)), Len(mem_infos) + 1)
              /\ mem_tree' = avl_insert(mem_tree, MemCmp(a))
      /\ UNCHANGED <<tb_info_enabled, mem_info_list_enabled, tb_infos, tb_tree,
                     message, translated>>

(* The lists go into the message as they are linked, newest first.         *)
plugin_dump_tb_information  == Reverse(tb_infos)
plugin_dump_mem_information == Reverse(mem_infos)

tb_info_free  == tb_infos' = <<>> /\ tb_tree' = avl_create
mem_info_free == mem_infos' = <<>> /\ mem_tree' = avl_create

(* plugin_end_information_dump, as far as these tables go.                 *)
EndDump ==
  /\ Running
  /\ message' = [tb_informations |-> plugin_dump_tb_information,
                 mem_infos       |-> plugin_dump_mem_information]
  /\ tb_info_free /\ mem_info_free
  /\ UNCHANGED <<tb_info_enabled, mem_info_list_enabled, translated, accesses>>

(* connect_meminfo_tb: the first block of the list that the instruction    *)
(* lies in, past its first address; 0 when there is none.                  *)
TbidPastEnd(ins, tblist) ==                  \* wrong variant: the block's end is in it
  LET S == {i \in DOMAIN tblist : ins > tblist[i].base /\ ins <= tblist[i].base + tblist[i].size}
  IN  IF S = {} THEN 0 ELSE tblist[CHOOSE i \in S : \A j \in S : i <= j].base
Tbid(ins, tblist) ==
  LET S == {i \in DOMAIN tblist : ins > tblist[i].base /\ ins < tblist[i].base + tblist[i].size}
  IN  IF S = {} THEN 0 ELSE tblist[CHOOSE i \in S : \A j \in S : i <= j].base

(* readout_data in the worker: the records, each with its block.          *)
ReadoutData(msg) ==
  [tbinfo  |-> msg.tb_informations,
   meminfo |-> [i \in DOMAIN msg.mem_infos |->
                  [info |-> msg.mem_infos[i],
                   tbid |-> Tbid(msg.mem_infos[i].ins, msg.tb_informations)]]]

Terminated == ~Running /\ UNCHANGED vars

Next ==
  \/ \E b \in Blocks : HandleTbTranslateData(b)
  \/ \E a \in MemAccesses : MemaccessDataCb(a)
  \/ EndDump
  \/ Terminated

Spec == Init /\ [][Next]_vars

-----------------------------------------------------------------------------
(* The state is well formed, and the lists hold as many records as their   *)
(* trees have nodes: the plugin frees the records through the lists        *)
(* (tb_info_free, mem_info_free) and the nodes through the trees.          *)
TypeOK ==
  /\ tb_info_enabled \in BOOLEAN /\ mem_info_list_enabled \in BOOLEAN
  /\ \A p \in DOMAIN tb_infos : \E b \in translated : tb_infos[p] = TbInfo(b)
  /\ \A p \in DOMAIN mem_infos : mem_infos[p] \in MemInfo
  /\ Len(tb_infos) = Len(tb_tree.balance) /\ Len(mem_infos) = Len(mem_tree.balance)
  /\ translated \subseteq Blocks
  /\ accesses \in [MemAccesses -> 0 .. MaxAccesses]

(* avl_probe keeps both trees balanced, and every record in them, whatever *)
(* order the comparison function makes of the accesses (avl.c:85).         *)
TreesSound ==
  /\ Balanced(tb_tree) /\ Reached(tb_tree) \ {0} = DOMAIN tb_infos
  /\ Balanced(mem_tree) /\ Reached(mem_tree) \ {0} = DOMAIN mem_infos

TbRecords  == IF Running THEN tb_infos ELSE message.tb_informations
MemRecords == IF Running THEN mem_infos ELSE message.mem_infos

(* With tb_info on, every translated base address has exactly one record,  *)
(* whatever lengths its blocks were translated with: the record that       *)
(* add_tb_info hands to the execution callback is the one reported.        *)
OneRecordPerBlock ==
  \A b \in translated :
    tb_info_enabled => Cardinality({p \in DOMAIN TbRecords : TbRecords[p].base = b.base}) = 1

(* Every access is counted once, in some record (memaccess_data_cb), even  *)
(* when the comparison function confuses addresses.                        *)
NoAccessLost ==
  FoldSeq(LAMBDA r, n : r.counter + n, 0, MemRecords) = FoldFunction(+, 0, accesses)

AccessCount(i, m) ==
  FoldFunction(+, 0, [a \in {x \in MemAccesses : x.ins = i /\ x.mem = m} |->
                                      accesses[a]])

(* Addresses that an int tells apart and orders.                           *)
Spread(S) == \A x, y \in S : x - y <= IntMax

Happened == {a \in MemAccesses : accesses[a] > 0}

(* The counter of an instruction and a memory address is the number of     *)
(* their accesses, in one record, as long as the instructions lie within   *)
(* half of an int's range of each other, and so do the addresses this      *)
(* instruction accessed.  Without that mem_comparison_func is no order:    *)
(* records of different addresses merge, or an address has several.        *)
CountsExact ==
  \A a \in Happened :
    /\ Spread({x.ins : x \in Happened})
    /\ Spread({x.mem : x \in {y \in Happened : y.ins = a.ins}})
    => \E p \in DOMAIN MemRecords :
         /\ {q \in DOMAIN MemRecords : MemRecords[q].ins = a.ins
                                       /\ MemRecords[q].mem = a.mem} = {p}
         /\ MemRecords[p].counter = AccessCount(a.ins, a.mem)

(* An access whose instruction lies in a block, past its first, is given a  *)
(* block: its report would be of no use without one.  It need not be if     *)
(* the blocks it lies in have been translated with another extent as well,  *)
(* by single-stepping: the record kept may be of the shorter one            *)
(* (tb_info_data_collection.c:173).  And the block given is always one      *)
(* whose translation has the instruction.  First instructions are left out: *)
(* connect_meminfo_tb does not count them to their block (faultclass.py:481, *)
(* against hdf5-readme.md:22).  A block at address 0 reads as none.         *)
PastFirst(ins, b) == ins \in b.base + 1 .. b.last
OnlyExtent(b) == \A c \in translated : c.base = b.base => c = b

AccessesPlaced ==
  ~Running /\ tb_info_enabled =>
    LET meminfo == ReadoutData(message).meminfo
        Holding(i) == {b \in translated : PastFirst(meminfo[i].info.ins, b)}
    IN \A i \in DOMAIN meminfo :
         /\ meminfo[i].tbid # 0 => \E b \in Holding(i) : meminfo[i].tbid = b.base
         /\ (\E b \in Holding(i) : OnlyExtent(b)) /\ (\A b \in Holding(i) : b.base # 0)
              => meminfo[i].tbid # 0
=============================================================================
