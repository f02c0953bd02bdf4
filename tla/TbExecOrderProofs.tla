------------------------- MODULE TbExecOrderProofs -------------------------
(* Proofs about TbExecOrder: type correctness, the execution counts, and    *)
(* that the record of executed blocks implements ExecOrder, for every size  *)
(* of the ring.                                                             *)
EXTENDS TbExecOrder, SequenceTheorems, FiniteSetTheorems, TLAPS

LEMMA InitTypeOK == Init => TypeOK
<1> SUFFICES ASSUME Init PROVE TypeOK
  OBVIOUS
<1>1. /\ tb_exec_rb_list \in [Slots -> Element \cup {NULL}]
      /\ tb_exec_rb_list_index \in Slots
  BY SizeAssumption DEF Init, Slots
<1>2. /\ cache \in [Base -> InsnCounts \cup {NULL}]
      /\ tb_info \in [Base -> TbInfo \cup {NULL}]
  BY DEF Init
<1>3. \A i \in Slots : ~(i < num_exec_order)
  BY SizeAssumption DEF Init, Slots
<1>4. /\ tb_exec_order_list \in Seq(Base \cup {NULL}) /\ Len(tb_exec_order_list) = 0
      /\ executed \in Seq(Base)
  BY DEF Init
<1>5. /\ tb_info_enabled => \A b \in Base : cache[b] # NULL => tb_info[b] # NULL
      /\ num_exec_order = 0 /\ tb_exec_rb_list_index = 0
      /\ tb_exec_order_ring_buffer \in BOOLEAN /\ tb_info_enabled \in BOOLEAN
  BY DEF Init
<1>6. QED
  BY <1>1, <1>2, <1>3, <1>4, <1>5 DEF TypeOK

(* The record of an executed block, and the block as it is reported. *)
Entry(b) == [tb_info |-> IF tb_info_enabled THEN b ELSE NULL, pos |-> num_exec_order]

(* One execution of a block writes one element of the ring, or appends one  *)
(* to the list.                                                             *)
LEMMA DataEvent ==
  ASSUME TypeOK, NEW b \in Base, TbExecDataEvent(b)
  PROVE  /\ Entry(b) \in Element
         /\ num_exec_order' = num_exec_order + 1
         /\ IF tb_exec_order_ring_buffer
            THEN /\ tb_exec_rb_list' = [tb_exec_rb_list EXCEPT ![tb_exec_rb_list_index] = Entry(b)]
                 /\ tb_exec_rb_list_index' = NextIndex(tb_exec_rb_list_index)
                 /\ UNCHANGED tb_exec_order_list
            ELSE /\ tb_exec_order_list' = Append(tb_exec_order_list, Entry(b).tb_info)
                 /\ UNCHANGED <<tb_exec_rb_list, tb_exec_rb_list_index>>
         /\ UNCHANGED <<configVars, cache, tb_exec_orders>>
  BY DEF TbExecDataEvent, TypeOK, Entry, Element

LEMMA NextTypeOK == TypeOK /\ [Next]_vars => TypeOK'
<1> SUFFICES ASSUME TypeOK, [Next]_vars PROVE TypeOK'
  OBVIOUS
<1>1. ASSUME NEW b \in Base, NEW n \in InsnCounts, Translate(b, n) PROVE TypeOK'
  <2>1. cache' \in [Base -> InsnCounts \cup {NULL}]
    BY <1>1 DEF Translate, TypeOK
  <2>2. add_tb_info(b, n) \in [Base -> TbInfo \cup {NULL}]
    BY DEF add_tb_info, TypeOK, TbInfo
  <2>3. tb_info' \in [Base -> TbInfo \cup {NULL}]
    BY <1>1, <2>2 DEF Translate, TypeOK
  <2>4. tb_info_enabled => \A c \in Base : cache'[c] # NULL => tb_info'[c] # NULL
    <3>1. [instruction_count |-> n, num_of_exec |-> 0] \in TbInfo
      BY DEF TbInfo
    <3>2. [instruction_count |-> n, num_of_exec |-> 0] # NULL
      BY <3>1, NullAssumption
    <3>3. \A c \in Base : add_tb_info(b, n)[c] # NULL \/ (c # b /\ tb_info[c] = NULL)
      BY <3>2 DEF add_tb_info, TypeOK
    <3>4. QED
      BY <1>1, <3>3 DEF Translate, TypeOK
  <2>5. QED
    BY <1>1, <2>1, <2>3, <2>4 DEF Translate, TypeOK, configVars, orderVars
<1>2. ASSUME NEW b \in Base, TbExecDataEvent(b) PROVE TypeOK'
  <2>1. /\ tb_info' \in [Base -> TbInfo \cup {NULL}]
        /\ tb_info_enabled => \A c \in Base : cache'[c] # NULL => tb_info'[c] # NULL
    <3>1. CASE tb_info_enabled
      <4>1. tb_info[b] \in TbInfo
        BY <1>2, <3>1 DEF TbExecDataEvent, TypeOK
      <4>2. [tb_info[b] EXCEPT !.num_of_exec = @ + 1] \in TbInfo
        BY <4>1 DEF TbInfo
      <4>3. PICK x \in TbInfo : x = [tb_info[b] EXCEPT !.num_of_exec = @ + 1]
        BY <4>2
      <4>4. tb_info' = [tb_info EXCEPT ![b] = x]
        BY <1>2, <3>1, <4>3 DEF TbExecDataEvent, TypeOK
      <4>5. x # NULL /\ cache' = cache
        BY <1>2, NullAssumption DEF TbExecDataEvent
      <4>6. QED
        BY <4>4, <4>5 DEF TypeOK
    <3>2. CASE ~tb_info_enabled
      BY <1>2, <3>2 DEF TbExecDataEvent, TypeOK
    <3>3. QED
      BY <3>1, <3>2
  <2>2. executed' \in Seq(Base)
    BY <1>2 DEF TbExecDataEvent, TypeOK
  <2>3. /\ tb_exec_rb_list' \in [Slots -> Element \cup {NULL}]
        /\ tb_exec_order_list' \in Seq(Base \cup {NULL})
        /\ ~tb_exec_order_ring_buffer => Len(tb_exec_order_list') = num_exec_order + 1
    <3>1. CASE tb_exec_order_ring_buffer
      BY <1>2, <3>1, DataEvent DEF TypeOK
    <3>2. CASE ~tb_exec_order_ring_buffer
      <4>1. Entry(b).tb_info \in Base \cup {NULL}
        BY DEF Entry
      <4>2. tb_exec_order_list' = Append(tb_exec_order_list, Entry(b).tb_info)
            /\ UNCHANGED tb_exec_rb_list
        BY <1>2, <3>2, DataEvent
      <4>3. tb_exec_order_list \in Seq(Base \cup {NULL})
            /\ Len(tb_exec_order_list) = num_exec_order
        BY <3>2 DEF TypeOK
      <4>4. tb_exec_order_list' \in Seq(Base \cup {NULL})
            /\ Len(tb_exec_order_list') = num_exec_order + 1
        BY <4>1, <4>2, <4>3, AppendProperties
      <4>5. QED
        BY <3>2, <4>2, <4>4 DEF TypeOK
    <3>3. QED
      BY <3>1, <3>2
  <2>4. /\ tb_exec_rb_list_index' \in Slots
        /\ tb_exec_order_ring_buffer /\ num_exec_order + 1 < TB_EXEC_RB_SIZE =>
             tb_exec_rb_list_index' = num_exec_order + 1
    BY <1>2, DataEvent, SizeAssumption DEF TypeOK, Slots, NextIndex
  <2>5. tb_exec_order_ring_buffer =>
          \A i \in Slots : i < num_exec_order + 1 => tb_exec_rb_list'[i] # NULL
    <3>1. Entry(b) # NULL
      BY DataEvent, <1>2, NullAssumption
    <3>2. ASSUME tb_exec_order_ring_buffer, NEW i \in Slots, i < num_exec_order + 1,
                 i # tb_exec_rb_list_index
          PROVE  tb_exec_rb_list[i] # NULL
      BY <3>2, SizeAssumption DEF TypeOK, Slots
    <3>3. QED
      BY <1>2, <3>1, <3>2, DataEvent DEF TypeOK
  <2>6. QED
    BY <1>2, <2>1, <2>2, <2>3, <2>4, <2>5, DataEvent DEF TypeOK, configVars
<1>3. ASSUME Flush PROVE TypeOK'
  BY <1>3 DEF Flush, TypeOK, configVars, orderVars
<1>4. ASSUME EndDump PROVE TypeOK'
  BY <1>4 DEF EndDump, TypeOK, configVars, orderVars
<1>5. ASSUME UNCHANGED vars PROVE TypeOK'
  BY <1>5 DEF vars, TypeOK, configVars, orderVars
<1>6. QED
  BY <1>1, <1>2, <1>3, <1>4, <1>5 DEF Next, Terminated

(* The state of the record is well typed in every reachable state: the ring *)
(* index never leaves the TB_EXEC_RB_SIZE elements tb_exec_order_init       *)
(* allocates.                                                               *)
THEOREM RingIndexInside == Spec => []TypeOK
<1>1. QED
  BY InitTypeOK, NextTypeOK, PTL DEF Spec

-----------------------------------------------------------------------------
(* A block as it is reported, and the entry the next execution adds.        *)
Reported == [tb : Base \cup {0}, pos : Nat]
NewOrder(b) == Order(Entry(b).tb_info, num_exec_order)

RingDumpTyped ==
  /\ RingLength \in Nat /\ RingLength <= TB_EXEC_RB_SIZE
  /\ \A j \in 1 .. RingLength : RingSlot(j) \in Slots
  /\ RingDump \in Seq(Reported) /\ Len(RingDump) = RingLength

LEMMA RingDumpType == TypeOK /\ tb_exec_order_ring_buffer => RingDumpTyped
<1> SUFFICES ASSUME TypeOK, tb_exec_order_ring_buffer PROVE RingDumpTyped
  OBVIOUS
<1>1. RingLength \in Nat /\ RingLength <= TB_EXEC_RB_SIZE /\ RingLength <= num_exec_order
  BY SizeAssumption DEF RingLength, TypeOK
<1>2. ASSUME NEW j \in 1 .. RingLength PROVE RingSlot(j) \in Slots /\ RingSlot(j) < num_exec_order
  BY <1>1, SizeAssumption DEF RingSlot, RingStart, RingLength, TypeOK, Slots
<1>3. ASSUME NEW j \in 1 .. RingLength
      PROVE  Order(tb_exec_rb_list[RingSlot(j)].tb_info, tb_exec_rb_list[RingSlot(j)].pos) \in Reported
  <2>1. tb_exec_rb_list[RingSlot(j)] \in Element
    BY <1>2 DEF TypeOK
  <2>2. QED
    BY <2>1 DEF Element, Order, Reported
<1>4. RingDump \in [1 .. RingLength -> Reported]
  BY <1>3 DEF RingDump
<1>5. QED
  BY <1>1, <1>2, <1>4 DEF RingDumpTyped

LEMMA NewOrderType ==
  ASSUME TypeOK, NEW b \in Base
  PROVE  NewOrder(b) \in Reported /\ Entry(b) \in Element
         /\ NewOrder(b) = [tb |-> IF tb_info_enabled THEN b ELSE 0, pos |-> num_exec_order]
  BY NullAssumption DEF TypeOK, NewOrder, Entry, Element, Order, Reported

(* Executing a block appends it to the ring's contents, and drops the       *)
(* oldest block once the ring is full.                                      *)
LEMMA RingStep ==
  ASSUME TypeOK, TypeOK', tb_exec_order_ring_buffer,
         NEW b \in Base, TbExecDataEvent(b)
  PROVE  RingDump' = IF num_exec_order >= TB_EXEC_RB_SIZE
                     THEN Tail(Append(RingDump, NewOrder(b)))
                     ELSE Append(RingDump, NewOrder(b))
<1> DEFINE N == TB_EXEC_RB_SIZE
           n == num_exec_order
           x == tb_exec_rb_list_index
           e == NewOrder(b)
           a == Append(RingDump, e)
           t == IF n >= N THEN Tail(a) ELSE a
<1>1. /\ tb_exec_rb_list' = [tb_exec_rb_list EXCEPT ![x] = Entry(b)]
      /\ x' = NextIndex(x) /\ n' = n + 1
      /\ tb_exec_order_ring_buffer' = tb_exec_order_ring_buffer
  BY DataEvent DEF configVars
<1>2. /\ N \in Nat \ {0} /\ n \in Nat /\ x \in 0 .. N - 1
      /\ n < N => x = n
  BY SizeAssumption DEF TypeOK, Slots
<1>3. e \in Reported /\ Entry(b) \in Element
  BY NewOrderType
<1>4. /\ RingLength \in Nat /\ RingDump \in Seq(Reported) /\ Len(RingDump) = RingLength
      /\ \A j \in 1 .. RingLength : RingSlot(j) \in Slots
  BY RingDumpType DEF RingDumpTyped
<1>5. /\ RingDump' \in Seq(Reported) /\ Len(RingDump') = RingLength'
      /\ \A j \in 1 .. RingLength' : RingSlot(j)' \in Slots
  <2>1. tb_exec_order_ring_buffer'
    BY <1>1
  <2>2. (TypeOK /\ tb_exec_order_ring_buffer => RingDumpTyped)'
    BY RingDumpType, PTL
  <2>3. QED
    BY <2>1, <2>2 DEF RingDumpTyped, Reported, Slots
<1>6. /\ a \in Seq(Reported) /\ a # << >> /\ Len(a) = RingLength + 1
      /\ \A j \in 1 .. RingLength : a[j] = RingDump[j]
      /\ a[RingLength + 1] = e
  BY <1>3, <1>4, AppendProperties
<1>7. RingLength = (IF n >= N THEN N ELSE n) /\ RingLength' = (IF n + 1 >= N THEN N ELSE n + 1)
  BY <1>1 DEF RingLength
<1>8. t \in Seq(Reported) /\ Len(t) = RingLength'
      /\ \A j \in 1 .. RingLength' : t[j] = a[IF n >= N THEN j + 1 ELSE j]
  <2>1. CASE n >= N
    <3>1. Tail(a) \in Seq(Reported) /\ Len(Tail(a)) = Len(a) - 1
          /\ \A j \in 1 .. Len(Tail(a)) : Tail(a)[j] = a[j + 1]
      BY <1>6, HeadTailProperties
    <3>2. RingLength = N /\ RingLength' = N
      BY <1>2, <1>7, <2>1
    <3>3. QED
      BY <1>2, <1>6, <2>1, <3>1, <3>2
  <2>2. CASE ~(n >= N)
    <3>1. RingLength' = n + 1 /\ RingLength = n
      BY <1>2, <1>7, <2>2
    <3>2. QED
      BY <1>2, <1>6, <2>2, <3>1
  <2>3. QED
    BY <2>1, <2>2
<1>9. ASSUME NEW j \in 1 .. RingLength' PROVE RingDump'[j] = t[j]
  <2> DEFINE k == IF n >= N THEN j + 1 ELSE j
             D(el) == Order(el.tb_info, el.pos)
  <2>1. RingDump'[j] = D(tb_exec_rb_list'[RingSlot(j)'])
    BY DEF RingDump
  <2>2. RingSlot(j)' \in Slots
    BY <1>5
  <2>3. CASE k = RingLength + 1
    <3>1. RingSlot(j)' = x
      BY <1>1, <1>2, <1>7, <2>3 DEF RingSlot, RingStart, NextIndex
    <3>2. tb_exec_rb_list'[x] = Entry(b)
      BY <1>1, <2>2, <3>1 DEF TypeOK
    <3>3. D(Entry(b)) = e
      BY DEF NewOrder, Entry, Order
    <3>4. QED
      BY <1>6, <1>8, <2>1, <2>3, <3>1, <3>2, <3>3
  <2>4. CASE k # RingLength + 1
    <3>1. k \in 1 .. RingLength
      BY <1>2, <1>7, <2>4
    <3>2. RingSlot(j)' = RingSlot(k) /\ RingSlot(k) # x
      BY <1>1, <1>2, <1>7, <3>1 DEF RingSlot, RingStart, NextIndex
    <3>3. tb_exec_rb_list'[RingSlot(k)] = tb_exec_rb_list[RingSlot(k)]
      BY <1>1, <1>4, <3>1, <3>2 DEF TypeOK
    <3>4. RingDump[k] = D(tb_exec_rb_list[RingSlot(k)])
      BY <3>1 DEF RingDump
    <3>5. t[j] = RingDump[k]
      BY <1>6, <1>8, <3>1
    <3> HIDE DEF t, k, D
    <3>6. QED
      BY <2>1, <3>2, <3>3, <3>4, <3>5
  <2>5. QED
    BY <2>3, <2>4
<1>10. QED
  <2> HIDE DEF t
  <2>1. RingDump' = t
    BY <1>5, <1>8, <1>9, SeqEqual
  <2>2. QED
    BY <2>1 DEF t

(* Without the ring the list grows by the block just executed. *)
LEMMA ListStep ==
  ASSUME TypeOK, ~tb_exec_order_ring_buffer, NEW b \in Base, TbExecDataEvent(b)
  PROVE  ListDump' = Append(ListDump, NewOrder(b))
<1> DEFINE l == tb_exec_order_list
           n == num_exec_order
           e == NewOrder(b)
<1>1. l' = Append(l, Entry(b).tb_info) /\ n' = n + 1
  BY DataEvent
<1>2. l \in Seq(Base \cup {NULL}) /\ Len(l) = n /\ n \in Nat
  BY DEF TypeOK
<1>3. e \in Reported /\ Entry(b) \in Element
  BY NewOrderType
<1>4. Entry(b).tb_info \in Base \cup {NULL}
  BY <1>3 DEF Element
<1>5. l' \in Seq(Base \cup {NULL}) /\ Len(l') = n + 1 /\ l'[n + 1] = Entry(b).tb_info
      /\ \A j \in 1 .. n : l'[j] = l[j]
  BY <1>1, <1>2, <1>4, AppendProperties
<1>6. ASSUME NEW j \in 1 .. n PROVE l[j] \in Base \cup {NULL} /\ Order(l[j], j - 1) \in Reported
  BY <1>2 DEF Order, Reported
<1>7. ListDump \in Seq(Reported) /\ Len(ListDump) = n
  <2>1. ListDump \in [1 .. n -> Reported]
    BY <1>6 DEF ListDump
  <2>2. QED
    BY <1>2, <2>1
<1>8. /\ Append(ListDump, e) \in Seq(Reported) /\ Len(Append(ListDump, e)) = n + 1
      /\ \A j \in 1 .. n : Append(ListDump, e)[j] = ListDump[j]
      /\ Append(ListDump, e)[n + 1] = e
  BY <1>3, <1>7, AppendProperties
<1>9. ASSUME NEW j \in 1 .. n + 1
      PROVE  Order(l'[j], j - 1) = Append(ListDump, e)[j]
  <2>1. CASE j = n + 1
    <3>1. Order(l'[j], j - 1) = Order(Entry(b).tb_info, n)
      BY <1>2, <1>5, <2>1
    <3>2. QED
      BY <1>8, <2>1, <3>1 DEF NewOrder
  <2>2. CASE j # n + 1
    <3>1. j \in 1 .. n
      BY <1>2, <2>2
    <3>2. ListDump[j] = Order(l[j], j - 1)
      BY <3>1 DEF ListDump
    <3>3. QED
      BY <1>5, <1>8, <3>1, <3>2
  <2>3. QED
    BY <2>1, <2>2
<1>10. ListDump' = [j \in 1 .. n + 1 |-> Order(l'[j], j - 1)]
  BY <1>1 DEF ListDump, Order
<1>11. ListDump' = [j \in 1 .. n + 1 |-> Append(ListDump, e)[j]]
  <2> HIDE DEF l, n, e
  <2>1. QED
    BY <1>9, <1>10
<1>12. Append(ListDump, e) = [j \in 1 .. n + 1 |-> Append(ListDump, e)[j]]
  BY <1>2, <1>8, LenProperties
<1>13. QED
  BY <1>11, <1>12

(* An executed block is one step of the promised record. *)
LEMMA ExecutedStep ==
  ASSUME TypeOK, TypeOK', NEW b \in Base, TbExecDataEvent(b)
  PROVE  Recent!Executed(NewOrder(b).tb)
<1> DEFINE d == plugin_dump_tb_exec_order
           e == NewOrder(b)
<1>1. e = [tb |-> e.tb, pos |-> num_exec_order]
  BY NewOrderType
<1>2. /\ tb_exec_orders = NULL /\ UNCHANGED <<tb_exec_orders, tb_exec_order_ring_buffer>>
      /\ num_exec_order' = num_exec_order + 1
  BY DEF TbExecDataEvent, Running, configVars
<1>3. CASE tb_exec_order_ring_buffer
  <2>1. d = RingDump /\ d' = RingDump'
    BY <1>2, <1>3 DEF plugin_dump_tb_exec_order
  <2>2. Len(Append(RingDump, e)) = RingLength + 1
    BY <1>3, RingDumpType, NewOrderType, AppendProperties DEF RingDumpTyped
  <2>3. RingLength + 1 > TB_EXEC_RB_SIZE <=> num_exec_order >= TB_EXEC_RB_SIZE
    BY SizeAssumption DEF RingLength, TypeOK
  <2>4. d' = Recent!Keep(Append(d, e))
    BY <1>3, <2>1, <2>2, <2>3, RingStep DEF Recent!Keep
  <2>5. QED
    BY <1>1, <1>2, <2>4 DEF Recent!Executed
<1>4. CASE ~tb_exec_order_ring_buffer
  <2>1. d = ListDump /\ d' = ListDump'
    BY <1>2, <1>4 DEF plugin_dump_tb_exec_order
  <2>2. d' = Recent!Keep(Append(d, e))
    BY <1>4, <2>1, ListStep DEF Recent!Keep
  <2>3. QED
    BY <1>1, <1>2, <2>2 DEF Recent!Executed
<1>5. QED
  BY <1>3, <1>4

LEMMA RefinedInit == Init => Recent!Init
<1> SUFFICES ASSUME Init PROVE Recent!Init
  OBVIOUS
<1>1. num_exec_order = 0 /\ RingLength = 0
  BY SizeAssumption DEF Init, RingLength
<1>2. RingDump = <<>> /\ ListDump = <<>>
  BY <1>1 DEF RingDump, ListDump
<1>3. QED
  BY <1>2 DEF Init, Recent!Init, plugin_dump_tb_exec_order

LEMMA RefinedNext == TypeOK /\ TypeOK' /\ [Next]_vars => [Recent!Next]_(Recent!vars)
<1> SUFFICES ASSUME TypeOK, TypeOK', [Next]_vars PROVE [Recent!Next]_(Recent!vars)
  OBVIOUS
<1>1. ASSUME UNCHANGED <<configVars, orderVars, tb_exec_orders>>
      PROVE  UNCHANGED Recent!vars
  BY <1>1 DEF configVars, orderVars, Recent!vars, plugin_dump_tb_exec_order,
     RingDump, ListDump, RingLength, RingSlot, RingStart, Order
<1>2. ASSUME NEW b \in Base, TbExecDataEvent(b) PROVE Recent!Next
  <2>1. NewOrder(b).tb \in Base \cup {0}
    BY NewOrderType DEF Reported
  <2>2. QED
    BY <1>2, <2>1, ExecutedStep DEF Recent!Next
<1>3. ASSUME EndDump PROVE Recent!Next
  <2>1. UNCHANGED <<tb_exec_order_ring_buffer, num_exec_order, plugin_dump_tb_exec_order>>
    BY <1>3 DEF EndDump, configVars, orderVars, plugin_dump_tb_exec_order,
       RingDump, ListDump, RingLength, RingSlot, RingStart, Order
  <2>2. tb_exec_orders = NULL /\ tb_exec_orders' = plugin_dump_tb_exec_order
    BY <1>3 DEF EndDump, Running
  <2>3. QED
    BY <2>1, <2>2 DEF Recent!Next, Recent!Report
<1>4. CASE \E b \in Base : \E n \in InsnCounts : Translate(b, n)
  BY <1>1, <1>4 DEF Translate
<1>5. CASE Flush \/ Terminated \/ UNCHANGED vars
  BY <1>1, <1>5 DEF Flush, Terminated, vars
<1>6. QED
  BY <1>2, <1>3, <1>4, <1>5 DEF Next

(* plugin_dump_tb_exec_order reports the executed blocks in order with      *)
(* their positions, the last TB_EXEC_RB_SIZE of them from the ring: the     *)
(* record implements ExecOrder for every size of the ring and every run.    *)
THEOREM OrderImplemented == Spec => OrderReported
<1>1. Init => Recent!Init
  BY RefinedInit
<1>2. TypeOK /\ TypeOK' /\ [Next]_vars => [Recent!Next]_(Recent!vars)
  BY RefinedNext
<1>3. QED
  BY <1>1, <1>2, RingIndexInside, PTL DEF Spec, OrderReported, Recent!Spec
-----------------------------------------------------------------------------
(* The executions of a block are finitely many, and running block b adds    *)
(* one to those of b and none to those of another block.                    *)
LEMMA ExecutionsFinite ==
  ASSUME TypeOK, NEW c \in Base
  PROVE  IsFiniteSet(ExecutionsOf(c)) /\ Len(executed) + 1 \notin ExecutionsOf(c)
<1>1. executed \in Seq(Base) /\ DOMAIN executed = 1 .. Len(executed) /\ Len(executed) \in Nat
  BY LenProperties DEF TypeOK
<1>2. ExecutionsOf(c) \subseteq 1 .. Len(executed)
  BY <1>1 DEF ExecutionsOf
<1>3. IsFiniteSet(1 .. Len(executed)) /\ Len(executed) + 1 \notin 1 .. Len(executed)
  BY <1>1, FS_Interval
<1>4. IsFiniteSet(ExecutionsOf(c))
  BY <1>2, <1>3, FS_Subset
<1>5. QED
  BY <1>2, <1>3, <1>4

LEMMA ExecutionsGrow ==
  ASSUME TypeOK, NEW b \in Base, executed' = Append(executed, b), NEW c \in Base
  PROVE  ExecutionsOf(c)' = IF c = b THEN ExecutionsOf(c) \cup {Len(executed) + 1}
                            ELSE ExecutionsOf(c)
<1> DEFINE n == Len(executed)
<1>1. executed \in Seq(Base) /\ DOMAIN executed = 1 .. n /\ n \in Nat
  BY LenProperties DEF TypeOK
<1>2. /\ DOMAIN executed' = 1 .. n + 1 /\ executed'[n + 1] = b
      /\ \A i \in 1 .. n : executed'[i] = executed[i]
  BY <1>1, AppendProperties, LenProperties
<1> HIDE DEF n
<1>3. QED
  BY <1>1, <1>2 DEF ExecutionsOf

LEMMA NextCounts == TypeOK /\ NumExecCounts /\ [Next]_vars => NumExecCounts'
<1> SUFFICES ASSUME TypeOK, NumExecCounts, [Next]_vars, tb_info_enabled', NEW c \in Base
             PROVE  IF tb_info[c]' = NULL THEN ExecutionsOf(c)' = {}
                    ELSE tb_info[c]'.num_of_exec = Cardinality(ExecutionsOf(c)')
  BY DEF NumExecCounts, ExecutionsOf
<1>1. tb_info_enabled
  BY DEF Next, Translate, TbExecDataEvent, Flush, EndDump, Terminated, vars, configVars
<1>2. IF tb_info[c] = NULL THEN ExecutionsOf(c) = {}
      ELSE tb_info[c].num_of_exec = Cardinality(ExecutionsOf(c))
  BY <1>1 DEF NumExecCounts
<1>3. ASSUME UNCHANGED <<tb_info, executed>>
      PROVE  IF tb_info[c]' = NULL THEN ExecutionsOf(c)' = {}
             ELSE tb_info[c]'.num_of_exec = Cardinality(ExecutionsOf(c)')
  BY <1>2, <1>3 DEF ExecutionsOf
<1>4. ASSUME NEW b \in Base, NEW n \in InsnCounts, Translate(b, n)
      PROVE  IF tb_info[c]' = NULL THEN ExecutionsOf(c)' = {}
             ELSE tb_info[c]'.num_of_exec = Cardinality(ExecutionsOf(c)')
  <2>1. tb_info' = add_tb_info(b, n) /\ executed' = executed
    BY <1>1, <1>4 DEF Translate
  <2>2. CASE tb_info[b] # NULL \/ c # b
    <3>1. tb_info[c]' = tb_info[c]
      BY <2>1, <2>2 DEF add_tb_info, TypeOK
    <3>2. QED
      BY <1>2, <2>1, <3>1 DEF ExecutionsOf
  <2>3. CASE tb_info[b] = NULL /\ c = b
    <3>1. tb_info[c]' = [instruction_count |-> n, num_of_exec |-> 0]
      BY <2>1, <2>3 DEF add_tb_info, TypeOK
    <3>2. tb_info[c]' # NULL
      BY <3>1, NullAssumption DEF TbInfo
    <3>3. ExecutionsOf(c)' = {}
      BY <1>2, <2>1, <2>3 DEF ExecutionsOf
    <3>4. QED
      BY <3>1, <3>2, <3>3, FS_EmptySet
  <2>4. QED
    BY <2>2, <2>3
<1>5. ASSUME NEW b \in Base, TbExecDataEvent(b)
      PROVE  IF tb_info[c]' = NULL THEN ExecutionsOf(c)' = {}
             ELSE tb_info[c]'.num_of_exec = Cardinality(ExecutionsOf(c)')
  <2>1. /\ tb_info' = [tb_info EXCEPT ![b].num_of_exec = @ + 1]
        /\ executed' = Append(executed, b) /\ cache[b] # NULL
    BY <1>1, <1>5 DEF TbExecDataEvent
  <2>2. tb_info \in [Base -> TbInfo \cup {NULL}] /\ tb_info[b] # NULL
    BY <1>1, <2>1 DEF TypeOK
  <2>3. ExecutionsOf(c)' = IF c = b THEN ExecutionsOf(c) \cup {Len(executed) + 1}
                           ELSE ExecutionsOf(c)
    BY <2>1, ExecutionsGrow
  <2>4. CASE c # b
    <3>1. tb_info[c]' = tb_info[c]
      BY <2>1, <2>2, <2>4
    <3>2. QED
      BY <1>2, <2>3, <2>4, <3>1
  <2>5. CASE c = b
    <3>1. tb_info[b] \in TbInfo
      BY <2>2
    <3> DEFINE y == [tb_info[b] EXCEPT !.num_of_exec = @ + 1]
    <3>2. y \in TbInfo /\ y.num_of_exec = tb_info[b].num_of_exec + 1
      BY <3>1 DEF TbInfo
    <3>3. PICK x \in TbInfo : /\ x = [tb_info[b] EXCEPT !.num_of_exec = @ + 1]
                              /\ x.num_of_exec = tb_info[b].num_of_exec + 1
      BY <3>2
    <3>4. tb_info[c]' = x /\ x # NULL
      BY <2>1, <2>2, <2>5, <3>3, NullAssumption
    <3>5. Cardinality(ExecutionsOf(c)') = Cardinality(ExecutionsOf(c)) + 1
      BY <2>3, <2>5, ExecutionsFinite, FS_AddElement
    <3>6. tb_info[b].num_of_exec = Cardinality(ExecutionsOf(c))
      BY <1>2, <2>2, <2>5
    <3>7. QED
      BY <3>3, <3>4, <3>5, <3>6
  <2>6. QED
    BY <2>4, <2>5
<1>6. QED
  BY <1>3, <1>4, <1>5 DEF Next, Flush, EndDump, Terminated, vars

(* The num_exec of a block is the number of times it ran, through any       *)
(* number of flushes and new translations: add_tb_info keeps the record it  *)
(* finds in the tree, and nothing else resets the count.                    *)
THEOREM CountsKept == Spec => []NumExecCounts
<1>1. Init => NumExecCounts
  BY DEF Init, NumExecCounts, ExecutionsOf
<1>2. QED
  BY <1>1, NextCounts, RingIndexInside, PTL DEF Spec
=============================================================================
