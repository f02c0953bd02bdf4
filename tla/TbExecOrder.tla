---------------------------- MODULE TbExecOrder ----------------------------
(***************************************************************************)
(* The record of executed translation blocks: tb_exec_data_collection.c    *)
(* and tb_info_data_collection.c, driven by handle_tb_translate_data and   *)
(* the end of the experiment in faultplugin.c.                             *)
(*                                                                         *)
(* QEMU is external: it may translate a block again after a flush, with    *)
(* another number of instructions, because single-stepping was switched in *)
(* between.  A block is named by its base address.                         *)
(***************************************************************************)
EXTENDS Integers, Sequences, FiniteSets

CONSTANTS
  Base,             \* base addresses of the guest's blocks
  InsnCounts,       \* instruction counts a translation may have
  TB_EXEC_RB_SIZE,
  MaxExec,          \* bound: blocks executed before the experiment ends
  NULL

ASSUME SizeAssumption ==
  /\ TB_EXEC_RB_SIZE \in Nat \ {0}
  /\ MaxExec \in Nat
  /\ Base \subseteq Nat \ {0}
  /\ InsnCounts \subseteq Nat \ {0}

TbInfo  == [instruction_count : InsnCounts, num_of_exec : Nat]
Element == [tb_info : Base \cup {NULL}, pos : Nat]
Slots   == 0 .. TB_EXEC_RB_SIZE - 1

ASSUME NullAssumption == NULL \notin Base \cup TbInfo \cup InsnCounts \cup Element

VARIABLES
  tb_exec_order_ring_buffer, tb_info_enabled,  \* from the control message
  cache,                  \* instruction count of the current translation
  tb_info,                \* the tree keyed by base address
  tb_exec_rb_list, tb_exec_rb_list_index, tb_exec_order_list, num_exec_order,
  tb_exec_orders,         \* the list in the message of the end of the experiment
  executed                \* history: the base address of every block run

configVars == <<tb_exec_order_ring_buffer, tb_info_enabled>>
orderVars  == <<tb_exec_rb_list, tb_exec_rb_list_index, tb_exec_order_list, num_exec_order>>
vars == <<configVars, cache, tb_info, orderVars, tb_exec_orders, executed>>
-----------------------------------------------------------------------------
(* The buffer comes from malloc: an element is unspecified until written,  *)
(* which NULL stands for.                                                  *)
Init ==
  /\ tb_exec_order_ring_buffer \in BOOLEAN /\ tb_info_enabled \in BOOLEAN
  /\ cache = [b \in Base |-> NULL] /\ tb_info = [b \in Base |-> NULL]
  /\ tb_exec_rb_list = [i \in Slots |-> NULL] /\ tb_exec_rb_list_index = 0
  /\ tb_exec_order_list = <<>> /\ num_exec_order = 0
  /\ tb_exec_orders = NULL
  /\ executed = <<>>

Running == tb_exec_orders = NULL

(* add_tb_info: a block found in the tree keeps its record. *)
add_tb_info_anew(b, n) ==                     \* wrong variant: never looks in the tree
  [tb_info EXCEPT ![b] = [instruction_count |-> n, num_of_exec |-> 0]]
add_tb_info(b, n) ==
  IF tb_info[b] # NULL THEN tb_info
  ELSE [tb_info EXCEPT ![b] = [instruction_count |-> n, num_of_exec |-> 0]]

(* handle_tb_translate_data *)
Translate(b, n) ==
  /\ Running /\ cache[b] = NULL
  /\ cache' = [cache EXCEPT ![b] = n]
  /\ tb_info' = IF tb_info_enabled THEN add_tb_info(b, n) ELSE tb_info
  /\ UNCHANGED <<configVars, orderVars, tb_exec_orders, executed>>

Flush ==
  /\ Running
  /\ cache' = [b \in Base |-> NULL]
  /\ UNCHANGED <<configVars, tb_info, orderVars, tb_exec_orders, executed>>

NextIndexPast(i) ==                           \* wrong variant: tested before ++
  IF i = TB_EXEC_RB_SIZE THEN 0 ELSE i + 1
NextIndex(i) == IF i + 1 = TB_EXEC_RB_SIZE THEN 0 ELSE i + 1

(* tb_exec_data_event *)
TbExecDataEvent(b) ==
  LET e == [tb_info |-> IF tb_info_enabled THEN b ELSE NULL, pos |-> num_exec_order]
  IN /\ Running /\ cache[b] # NULL /\ num_exec_order < MaxExec
     /\ tb_info' = IF tb_info_enabled THEN [tb_info EXCEPT ![b].num_of_exec = @ + 1]
                   ELSE tb_info
     /\ IF tb_exec_order_ring_buffer
        THEN /\ tb_exec_rb_list' = [tb_exec_rb_list EXCEPT ![tb_exec_rb_list_index] = e]
             /\ tb_exec_rb_list_index' = NextIndex(tb_exec_rb_list_index)
             /\ UNCHANGED tb_exec_order_list
        ELSE /\ tb_exec_order_list' = Append(tb_exec_order_list, e.tb_info)
             /\ UNCHANGED <<tb_exec_rb_list, tb_exec_rb_list_index>>
     /\ num_exec_order' = num_exec_order + 1
     /\ executed' = Append(executed, b)
     /\ UNCHANGED <<configVars, cache, tb_exec_orders>>

(* plugin_dump_tb_exec_order.  The ring is read from its oldest element.   *)
Order(t, p) == [tb |-> IF t = NULL THEN 0 ELSE t, pos |-> p]

RingLength == IF num_exec_order >= TB_EXEC_RB_SIZE THEN TB_EXEC_RB_SIZE ELSE num_exec_order
RingStartFirst == 0                           \* wrong variant: read from index 0
RingStart == IF num_exec_order >= TB_EXEC_RB_SIZE THEN tb_exec_rb_list_index ELSE 0
RingSlot(j) ==
  LET i == RingStart + j - 1
  IN IF i >= TB_EXEC_RB_SIZE THEN i - TB_EXEC_RB_SIZE ELSE i

RingDump == [j \in 1 .. RingLength |->
  Order(tb_exec_rb_list[RingSlot(j)].tb_info, tb_exec_rb_list[RingSlot(j)].pos)]
ListDump == [j \in 1 .. num_exec_order |-> Order(tb_exec_order_list[j], j - 1)]

plugin_dump_tb_exec_order == IF tb_exec_order_ring_buffer THEN RingDump ELSE ListDump

EndDump ==
  /\ Running
  /\ tb_exec_orders' = plugin_dump_tb_exec_order
  /\ UNCHANGED <<configVars, cache, tb_info, orderVars, executed>>

Terminated == ~Running /\ UNCHANGED vars

Next ==
  \/ \E b \in Base : (\E n \in InsnCounts : Translate(b, n)) \/ TbExecDataEvent(b)
  \/ Flush \/ EndDump \/ Terminated

Spec == Init /\ [][Next]_vars
-----------------------------------------------------------------------------
(* Type correctness.  The ring is written inside its TB_EXEC_RB_SIZE        *)
(* elements from the first one on, and the tree holds every block that may  *)
(* run.                                                                     *)
TypeOK ==
  /\ tb_exec_order_ring_buffer \in BOOLEAN /\ tb_info_enabled \in BOOLEAN
  /\ cache \in [Base -> InsnCounts \cup {NULL}]
  /\ tb_info \in [Base -> TbInfo \cup {NULL}]
  /\ tb_info_enabled => \A b \in Base : cache[b] # NULL => tb_info[b] # NULL
  /\ tb_exec_rb_list \in [Slots -> Element \cup {NULL}]
  /\ tb_exec_rb_list_index \in Slots
  /\ tb_exec_order_list \in Seq(Base \cup {NULL})
  /\ num_exec_order \in Nat
  /\ tb_exec_order_ring_buffer /\ num_exec_order < TB_EXEC_RB_SIZE =>
       tb_exec_rb_list_index = num_exec_order
  /\ tb_exec_order_ring_buffer =>
       \A i \in Slots : i < num_exec_order => tb_exec_rb_list[i] # NULL
  /\ ~tb_exec_order_ring_buffer => Len(tb_exec_order_list) = num_exec_order
  /\ executed \in Seq(Base)

(* num_exec of a block is the number of times it was executed, however      *)
(* often it was translated again in between (hdf5-readme.md, num_exec).     *)
ExecutionsOf(b) == {i \in DOMAIN executed : executed[i] = b}

NumExecCounts ==
  tb_info_enabled =>
    \A b \in Base :
      IF tb_info[b] = NULL THEN ExecutionsOf(b) = {}
      ELSE tb_info[b].num_of_exec = Cardinality(ExecutionsOf(b))

(* The list reported is the executed blocks in order, all of them or the    *)
(* last TB_EXEC_RB_SIZE, wherever the ring stands when the experiment ends. *)
Recent == INSTANCE ExecOrder
  WITH Depth <- TB_EXEC_RB_SIZE, Addresses <- Base \cup {0}, NotReported <- NULL,
       bounded <- tb_exec_order_ring_buffer, order <- plugin_dump_tb_exec_order,
       total <- num_exec_order, reported <- tb_exec_orders

OrderReported == Recent!Spec
=============================================================================
