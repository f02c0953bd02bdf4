------------------------- MODULE FaultPluginProofs -------------------------
(* Proofs about FaultPlugin, for every pack, code layout, start point, end *)
(* points and limit: type correctness, the balance of the single-step      *)
(* requests, when faults are injected and for how long they stay.          *)
EXTENDS FaultPlugin, FiniteSetTheorems, WellFoundedInduction, TLAPS

(* A nonempty set of natural numbers has a least element. *)
LEMMA LeastElement ==
  ASSUME NEW T \in SUBSET Nat, T # {}
  PROVE  \E x \in T : \A y \in T : x <= y
<1>1. \E x \in T : \A y \in T : ~ (<<y, x>> \in OpToRel(<, Nat))
  BY NatLessThanWellFounded, WFMin
<1>2. PICK x \in T : \A y \in T : ~ (<<y, x>> \in OpToRel(<, Nat))
  BY <1>1
<1>3. \A y \in T : ~(y < x)
  BY <1>2 DEF OpToRel
<1>4. QED
  BY <1>3

(* A translated block ends at or after its first address, inside the code. *)
LEMMA BlockEndType ==
  ASSUME NEW a \in Addr
  PROVE  BlockEnd(a) \in Addr /\ a <= BlockEnd(a)
<1> DEFINE T == {b \in Branches : b >= a}
<1>1. T \subseteq Addr
  BY CodeAssumption
<1>2. MaxAddr \in T
  BY CodeAssumption, SizeAssumption DEF Addr
<1>3. T \in SUBSET Nat /\ T # {}
  BY <1>1, <1>2 DEF Addr
<1>4. PICK x \in T : \A y \in T : x <= y
  BY <1>3, LeastElement
<1>5. \E b \in Branches : b >= a /\ \A c \in Branches : c >= a => b <= c
  BY <1>4
<1> HIDE DEF T
<1>6. CASE SingleStep
  BY <1>6 DEF BlockEnd, Addr
<1>7. CASE ~SingleStep
  <2> DEFINE P(b) == b \in Branches /\ b >= a /\ \A c \in Branches : c >= a => b <= c
  <2>1. BlockEnd(a) = CHOOSE b \in Branches : b >= a /\ \A c \in Branches : c >= a => b <= c
    BY <1>7 DEF BlockEnd
  <2>2. BlockEnd(a) \in Branches /\ BlockEnd(a) >= a
    BY <1>5, <2>1
  <2>3. QED
    BY <2>2, CodeAssumption DEF Addr
<1>8. QED
  BY <1>6, <1>7

(* The callback looked up by address and number is a fault of the list     *)
(* with that number, or none.                                              *)
LEMMA FaultByTriggerType ==
  ASSUME NEW a, NEW i
  PROVE  /\ FaultByTrigger(a, i) \in Faults \cup {NULL}
         /\ FaultByTrigger(a, i) # NULL => trignum[FaultByTrigger(a, i)] = i
<1> DEFINE M == {f \in Faults : pack[f].trigger = a /\ trignum[f] = i}
<1>1. CASE M = {}
  <2>1. FaultByTrigger(a, i) = NULL
    BY <1>1 DEF FaultByTrigger
  <2>2. QED
    BY <2>1
<1>2. CASE M # {}
  <2>1. M \in SUBSET Nat
    BY DEF Faults
  <2>2. PICK x \in M : \A y \in M : x <= y
    BY <1>2, <2>1, LeastElement
  <2>3. FaultByTrigger(a, i) = CHOOSE f \in M : \A g \in M : f <= g
    BY <1>2 DEF FaultByTrigger
  <2>4. FaultByTrigger(a, i) \in M
    BY <2>2, <2>3
  <2>5. QED
    BY <2>4
<1>3. QED
  BY <1>1, <1>2

(* Sets of faults are finite, and gain or lose one member at a time. *)
LEMMA FaultSets ==
  ASSUME NEW S \in SUBSET Faults
  PROVE  /\ Cardinality(S) \in Nat
         /\ \A x \in Faults \ S : Cardinality(S \cup {x}) = Cardinality(S) + 1
         /\ \A x \in S : Cardinality(S \ {x}) = Cardinality(S) - 1 /\ Cardinality(S) >= 1
<1>1. IsFiniteSet(Faults)
  BY SizeAssumption, FS_Interval DEF Faults
<1>2. IsFiniteSet(S)
  BY <1>1, FS_Subset
<1>3. Cardinality(S) \in Nat
  BY <1>2, FS_CardinalityType
<1>4. ASSUME NEW x \in Faults \ S PROVE Cardinality(S \cup {x}) = Cardinality(S) + 1
  BY <1>2, FS_AddElement
<1>5. ASSUME NEW x \in S
      PROVE  Cardinality(S \ {x}) = Cardinality(S) - 1 /\ Cardinality(S) >= 1
  <2>1. Cardinality(S \ {x}) = Cardinality(S) - 1 /\ IsFiniteSet(S \ {x})
    BY <1>2, FS_RemoveElement
  <2>2. Cardinality(S \ {x}) \in Nat
    BY <2>1, FS_CardinalityType
  <2>3. QED
    BY <1>3, <2>1, <2>2
<1>6. QED
  BY <1>3, <1>4, <1>5

-----------------------------------------------------------------------------
(* Initial states. *)
LEMMA InitIInv == Init => IInv
<1> SUFFICES ASSUME Init PROVE IInv
  OBVIOUS
<1>1. pack \in [Faults -> FaultConf]
  BY PackAssumption DEF Init
<1>2. TypeOK
  <2>1. FaultTypes
    <3>1. /\ hitcounter \in [Faults -> Nat] /\ lifetime \in [Faults -> Nat]
          /\ fault_trigger_addresses \in [Faults -> Addr \cup {0}]
      BY <1>1 DEF Init, FaultConf
    <3>2. QED
      BY <1>1, <3>1, SizeAssumption DEF Init, FaultTypes, NoCallback, Callbacks
  <2>2. PointTypes
    <3>1. end_hit \in [Ends -> Int] /\ start_hit \in Int
      BY PointAssumption DEF Init
    <3>2. QED
      BY <3>1 DEF Init, PointTypes
  <2>3. FaultedTypes
    BY SizeAssumption DEF Init, FaultedTypes, NoCallback
  <2>4. GuestTypes
    <3>1. phase \in {"fetch", "first", "check", "insn", "done"}
      BY DEF Init
    <3>2. pc \in Addr /\ walk \in 0 .. FaultNumber /\ slot \in Nat
      BY SizeAssumption DEF Init, Addr
    <3>3. tb \in Block \cup {NULL} /\ flush \in BOOLEAN /\ halted \in BOOLEAN
      BY DEF Init
    <3>4. cache \in [Addr -> Block \cup {NULL}]
      BY DEF Init, NoBlocks
    <3>5. QED
      BY <3>1, <3>2, <3>3, <3>4 DEF GuestTypes
  <2>5. HistoryTypes
    BY DEF Init, HistoryTypes
  <2>6. QED
    BY <2>1, <2>2, <2>3, <2>4, <2>5 DEF TypeOK
<1>3. LiveTable /\ FaultedTable /\ BlocksSound /\ PhaseSound
  BY SizeAssumption
  DEF Init, LiveTable, FaultedTable, BlocksSound, PhaseSound, NoCallback, NoBlocks, Faults
<1>4. Armed = {} /\ Live = {} /\ Awaited = {}
  BY DEF Init, Armed, Live, Awaited, NoCallback, Faults
<1>5. SingleStepBalance
  BY <1>4, FS_EmptySet DEF SingleStepBalance, Init
<1>6. QED
  BY <1>2, <1>3, <1>5 DEF IInv

-----------------------------------------------------------------------------
(* Steps that leave the fault tables alone: the guest moves on.            *)
tables == <<configVars, faultVars, req_singlestep, faultedVars, walk>>

LEMMA TablesKept ==
  ASSUME IInv, UNCHANGED tables
  PROVE  /\ FaultTypes' /\ FaultedTypes' /\ LiveTable' /\ FaultedTable'
         /\ SingleStepBalance'
         /\ \A b : CallbacksSound(b)' <=> CallbacksSound(b)
<1> USE DEF IInv, TypeOK, tables, configVars, faultVars, faultedVars
<1>1. FaultTypes' /\ FaultedTypes'
  BY DEF FaultTypes, FaultedTypes
<1>2. LiveTable' /\ FaultedTable'
  BY DEF LiveTable, FaultedTable
<1>3. Armed' = Armed /\ Live' = Live /\ Awaited' = Awaited
  BY DEF Armed, Live, Awaited
<1>4. SingleStepBalance'
  BY <1>3 DEF SingleStepBalance
<1>5. \A b : CallbacksSound(b)' <=> CallbacksSound(b)
  BY DEF CallbacksSound
<1>6. QED
  BY <1>1, <1>2, <1>4, <1>5

(* A block translated with neither triggers nor live faults is sound. *)
LEMMA QuietBlock ==
  ASSUME NEW counted \in BOOLEAN, NEW start \in BOOLEAN, pc \in Addr
  PROVE  LET b == NewBlock(counted, start, NoCallback, NoCallback)
         IN b \in Block /\ CallbacksSound(b)
<1> DEFINE b == NewBlock(counted, start, NoCallback, NoCallback)
<1>1. BlockEnd(pc) \in Addr /\ pc <= BlockEnd(pc)
  BY BlockEndType
<1>2. NoCallback \in Callbacks
  BY DEF NoCallback, Callbacks
<1>3. b.first = pc /\ b.last = BlockEnd(pc) /\ b.trig = NoCallback /\ b.live = NoCallback
  BY DEF NewBlock
<1>4. b \in Block
  BY <1>1, <1>2 DEF NewBlock, Block, EndCallbacks
<1>5. CallbacksSound(b)
  BY <1>3 DEF CallbacksSound, NoCallback
<1>6. QED
  BY <1>4, <1>5

LEMMA NotNull == /\ \A b \in Block : b # NULL
                 /\ \A x \in Item : x # NULL
                 /\ \A n \in Int : n # NULL
  BY NullAssumption

LEMMA TranslateBeforeStartStep == IInv /\ TranslateBeforeStart => IInv'
<1> SUFFICES ASSUME IInv, TranslateBeforeStart PROVE IInv'
  OBVIOUS
<1> USE DEF TranslateBeforeStart
<1>1. UNCHANGED tables
  BY DEF tables
<1>2. PICK b : b \in Block /\ CallbacksSound(b) /\ cache' = [cache EXCEPT ![pc] = b]
  <2> DEFINE start == StartPoint.address \in pc .. BlockEnd(pc)
  <2>1. start \in BOOLEAN
    OBVIOUS
  <2>2. cache' = [cache EXCEPT ![pc] = NewBlock(FALSE, start, NoCallback, NoCallback)]
    OBVIOUS
  <2> HIDE DEF start
  <2>3. LET b == NewBlock(FALSE, start, NoCallback, NoCallback)
        IN b \in Block /\ CallbacksSound(b)
    BY <2>1, QuietBlock DEF IInv, TypeOK, GuestTypes
  <2>4. QED
    BY <2>2, <2>3
<1>3. PointTypes' /\ HistoryTypes'
  BY DEF IInv, TypeOK, PointTypes, HistoryTypes, pointVars, history
<1>4. GuestTypes'
  BY <1>2 DEF IInv, TypeOK, GuestTypes
<1>5. BlocksSound'
  BY <1>1, <1>2, TablesKept DEF IInv, BlocksSound, TypeOK, GuestTypes
<1>6. PhaseSound'
  BY <1>2, NotNull DEF IInv, PhaseSound, TypeOK, GuestTypes, Translating, pointVars
<1>7. QED
  BY <1>1, <1>3, <1>4, <1>5, <1>6, TablesKept DEF IInv, TypeOK

LEMMA TranslateFirstStep == IInv /\ TranslateFirst => IInv'
<1> SUFFICES ASSUME IInv, TranslateFirst PROVE IInv'
  OBVIOUS
<1> USE DEF TranslateFirst
<1>1. UNCHANGED tables
  BY DEF tables
<1>2. PICK b : b \in Block /\ CallbacksSound(b) /\ cache' = [cache EXCEPT ![pc] = b]
  BY QuietBlock DEF IInv, TypeOK, GuestTypes
<1>3. PointTypes'
  BY DEF IInv, TypeOK, PointTypes
<1>4. HistoryTypes'
  BY BlockEndType DEF IInv, TypeOK, HistoryTypes, GuestTypes, Extent
<1>5. GuestTypes'
  BY <1>2 DEF IInv, TypeOK, GuestTypes
<1>6. BlocksSound'
  BY <1>1, <1>2, TablesKept DEF IInv, BlocksSound, TypeOK, GuestTypes
<1>7. PhaseSound'
  <2>1. cache'[pc'] # NULL
    BY <1>2, NotNull DEF IInv, TypeOK, GuestTypes
  <2>2. walk = 0 /\ first_tb' /\ phase' = "first" /\ walk' < FaultNumber
    BY SizeAssumption DEF IInv, PhaseSound
  <2>3. QED
    BY <2>1, <2>2 DEF IInv, PhaseSound, Translating
<1>8. QED
  BY <1>1, <1>3, <1>4, <1>5, <1>6, <1>7, TablesKept DEF IInv, TypeOK

LEMMA EndTranslationStep == IInv /\ EndTranslation => IInv'
<1> SUFFICES ASSUME IInv, EndTranslation PROVE IInv'
  OBVIOUS
<1> USE DEF EndTranslation
<1>1. UNCHANGED tables
  BY DEF tables
<1>2. PointTypes' /\ HistoryTypes' /\ GuestTypes'
  BY DEF IInv, TypeOK, PointTypes, HistoryTypes, GuestTypes, pointVars, history
<1>3. BlocksSound'
  BY <1>1, TablesKept DEF IInv, BlocksSound
<1>4. PhaseSound'
  BY DEF IInv, PhaseSound, TypeOK, GuestTypes, pointVars
<1>5. QED
  BY <1>1, <1>2, <1>3, <1>4, TablesKept DEF IInv, TypeOK

LEMMA FlushStep == IInv /\ Flush => IInv'
<1> SUFFICES ASSUME IInv, Flush PROVE IInv'
  OBVIOUS
<1> USE DEF Flush
<1>1. UNCHANGED tables
  BY DEF tables
<1>2. PointTypes' /\ HistoryTypes' /\ GuestTypes'
  BY DEF IInv, TypeOK, PointTypes, HistoryTypes, GuestTypes, pointVars, history, NoBlocks
<1>3. BlocksSound'
  BY <1>1, TablesKept DEF IInv, BlocksSound, NoBlocks
<1>4. PhaseSound'
  BY DEF IInv, PhaseSound, TypeOK, GuestTypes, pointVars
<1>5. QED
  BY <1>1, <1>2, <1>3, <1>4, TablesKept DEF IInv, TypeOK

(* Beginning an instruction keeps the types of the history. *)
LEMMA BeginInsnTypes ==
  ASSUME IInv, NEW b, NEW a \in Addr, BeginInsn(b, a),
         UNCHANGED <<injected, first_block>>
  PROVE  HistoryTypes' /\ pc' \in Addr /\ slot' \in Nat
<1> USE DEF BeginInsn, IInv, TypeOK, HistoryTypes
<1>1. hits' \in [Faults -> Nat]
  OBVIOUS
<1>2. alive' \in [Faults -> Nat]
  OBVIOUS
<1>3. QED
  BY <1>1, <1>2

LEMMA EnterUncountedStep == IInv /\ EnterUncounted => IInv'
<1> SUFFICES ASSUME IInv, EnterUncounted PROVE IInv'
  OBVIOUS
<1> USE DEF EnterUncounted
<1>1. UNCHANGED tables
  BY DEF tables
<1>2. cache[pc] \in Block /\ CallbacksSound(cache[pc]) /\ phase = "fetch" /\ pc \in Addr
  BY DEF IInv, TypeOK, GuestTypes, BlocksSound, Entering
<1>3. HistoryTypes' /\ pc' \in Addr /\ slot' \in Nat
  BY <1>2, BeginInsnTypes
<1>4. PointTypes'
  <2>1. start_hit' \in Int
    BY DEF IInv, TypeOK, PointTypes
  <2>2. started' \in BOOLEAN
    BY DEF IInv, TypeOK, PointTypes
  <2>3. QED
    BY <2>1, <2>2 DEF IInv, TypeOK, PointTypes
<1>5. GuestTypes'
  <2>1. flush' \in BOOLEAN
    BY DEF IInv, TypeOK, GuestTypes
  <2>2. QED
    BY <1>2, <1>3, <2>1 DEF IInv, TypeOK, GuestTypes
<1>6. BlocksSound'
  BY <1>1, <1>2, TablesKept DEF IInv, BlocksSound
<1>7. PhaseSound'
  BY <1>2, NotNull DEF IInv, PhaseSound, Entering
<1>8. QED
  BY <1>1, <1>3, <1>4, <1>5, <1>6, <1>7, TablesKept DEF IInv, TypeOK

LEMMA EnterCountedStep == IInv /\ EnterCounted => IInv'
<1> SUFFICES ASSUME IInv, EnterCounted PROVE IInv'
  OBVIOUS
<1> USE DEF EnterCounted
<1>1. UNCHANGED tables
  BY DEF tables
<1>2. cache[pc] \in Block /\ CallbacksSound(cache[pc]) /\ phase = "fetch" /\ pc \in Addr
  BY DEF IInv, TypeOK, GuestTypes, BlocksSound, Entering
<1>3. HistoryTypes' /\ pc' \in Addr /\ slot' \in Nat
  BY <1>2, BeginInsnTypes
<1>4. PointTypes'
  BY <1>2 DEF IInv, TypeOK, PointTypes, Block, InsnCount, Addr
<1>5. GuestTypes'
  BY <1>2, <1>3 DEF IInv, TypeOK, GuestTypes
<1>6. BlocksSound'
  BY <1>1, <1>2, TablesKept DEF IInv, BlocksSound
<1>7. PhaseSound'
  BY <1>2, NotNull DEF IInv, PhaseSound, Entering
<1>8. QED
  BY <1>1, <1>3, <1>4, <1>5, <1>6, <1>7, TablesKept DEF IInv, TypeOK

LEMMA MaxReachedStep == IInv /\ MaxReached => IInv'
<1> SUFFICES ASSUME IInv, MaxReached PROVE IInv'
  OBVIOUS
<1> USE DEF MaxReached
<1>1. UNCHANGED tables
  BY DEF tables
<1>2. PointTypes' /\ HistoryTypes' /\ GuestTypes'
  BY DEF IInv, TypeOK, PointTypes, HistoryTypes, GuestTypes, history, MaxTb
<1>3. BlocksSound'
  BY <1>1, TablesKept DEF IInv, BlocksSound
<1>4. PhaseSound'
  BY DEF IInv, PhaseSound, Entering
<1>5. QED
  BY <1>1, <1>2, <1>3, <1>4, TablesKept DEF IInv, TypeOK

LEMMA TbExecEndCbStep == ASSUME IInv, NEW e \in Ends, TbExecEndCb(e) PROVE IInv'
<1> USE DEF TbExecEndCb
<1>1. UNCHANGED tables
  BY DEF tables
<1>2. EndPoints[e].address \in Addr /\ e \in Nat \ {0}
  BY PointAssumption
<1>3. PointTypes'
  <2>1. end_hit' \in [Ends -> Int]
    BY DEF IInv, TypeOK, PointTypes
  <2>2. end_reason' \in [address : Addr \cup {0}, counter : Int] \cup {NULL}
    BY <1>2 DEF IInv, TypeOK, PointTypes
  <2>3. QED
    BY <2>1, <2>2 DEF IInv, TypeOK, PointTypes
<1>4. HistoryTypes'
  BY DEF IInv, TypeOK, HistoryTypes, history
<1>5. GuestTypes'
  BY <1>2, SizeAssumption DEF IInv, TypeOK, GuestTypes
<1>6. BlocksSound'
  BY <1>1, TablesKept DEF IInv, BlocksSound
<1>7. PhaseSound'
  BY DEF IInv, PhaseSound, Running
<1>8. QED
  BY <1>1, <1>3, <1>4, <1>5, <1>6, <1>7, TablesKept DEF IInv, TypeOK

LEMMA NextInsnStep == IInv /\ NextInsn => IInv'
<1> SUFFICES ASSUME IInv, NextInsn PROVE IInv'
  OBVIOUS
<1> USE DEF NextInsn
<1>1. UNCHANGED tables
  BY DEF tables
<1>2. pc + 1 \in Addr
  BY SizeAssumption DEF IInv, TypeOK, GuestTypes, PhaseSound, Block, Addr
<1>3. HistoryTypes' /\ pc' \in Addr /\ slot' \in Nat
  BY <1>2, BeginInsnTypes
<1>4. PointTypes' /\ GuestTypes'
  BY <1>3 DEF IInv, TypeOK, PointTypes, GuestTypes, pointVars
<1>5. BlocksSound'
  BY <1>1, TablesKept DEF IInv, BlocksSound
<1>6. PhaseSound'
  BY DEF IInv, PhaseSound, pointVars
<1>7. QED
  BY <1>1, <1>3, <1>4, <1>5, <1>6, TablesKept DEF IInv, TypeOK

LEMMA LeaveBlockStep == ASSUME IInv, NEW a \in Addr, LeaveBlock(a) PROVE IInv'
<1> USE DEF LeaveBlock
<1>1. UNCHANGED tables
  BY DEF tables
<1>2. PointTypes' /\ HistoryTypes' /\ GuestTypes'
  BY DEF IInv, TypeOK, PointTypes, HistoryTypes, GuestTypes, pointVars, history
<1>3. BlocksSound'
  BY <1>1, TablesKept DEF IInv, BlocksSound
<1>4. PhaseSound'
  BY DEF IInv, PhaseSound, pointVars
<1>5. QED
  BY <1>1, <1>2, <1>3, <1>4, TablesKept DEF IInv, TypeOK

(* Waking the guest changes nothing but that it is no longer halted. *)
LEMMA StutterStep == IInv /\ (Wake \/ UNCHANGED vars) => IInv'
<1> SUFFICES ASSUME IInv, Wake \/ UNCHANGED vars PROVE IInv'
  OBVIOUS
<1> USE DEF vars, guestVars, Wake
<1>1. UNCHANGED tables
  BY DEF tables
<1>2. PointTypes' /\ HistoryTypes' /\ GuestTypes'
  BY DEF IInv, TypeOK, PointTypes, HistoryTypes, GuestTypes, pointVars, history
<1>3. BlocksSound'
  BY <1>1, TablesKept DEF IInv, BlocksSound
<1>4. PhaseSound'
  BY DEF IInv, PhaseSound, pointVars
<1>5. QED
  BY <1>1, <1>2, <1>3, <1>4, TablesKept DEF IInv, TypeOK

-----------------------------------------------------------------------------
(* What inject_fault does to the tables: it passes the request it was      *)
(* called with on to the live fault and the awaited assembly, if any.      *)
LEMMA InjectFault ==
  ASSUME IInv, NEW f \in Faults, NEW req \in Nat \ {0}, NEW cleared,
         inject_fault(f, req, cleared)
  PROVE  /\ trignum' \in [Faults -> Faults \cup {-1}]
         /\ \A g \in Faults \ {f} : trignum'[g] = trignum[g]
         /\ fault_trigger_addresses' \in [Faults -> Addr \cup {0}]
         /\ live_faults' \in Callbacks /\ live_faults_number' \in 0 .. FaultNumber
         /\ req_singlestep' \in Nat /\ flush' \in BOOLEAN
         /\ injected' \in [Faults -> Nat \cup {-1}]
         /\ FaultedTypes' /\ FaultedTable'
         /\ \A i \in Faults : /\ i >= live_faults_number' => live_faults'[i] = NULL
                              /\ live_faults[i] # NULL => live_faults'[i] = live_faults[i]
                              /\ \/ live_faults'[i] = live_faults[i]
                                 \/ live_faults'[i] = f /\ trignum'[f] = i /\ lifetime[f] # 0
         /\ Cardinality(Live') \in Nat /\ Cardinality(Awaited') \in Nat
         /\ Cardinality(Live') + Cardinality(Awaited') + req
              = Cardinality(Live) + Cardinality(Awaited) + req_singlestep' + 1
<1> DEFINE lives == lifetime[f] # 0 /\ live_faults_number # FaultNumber
<1> USE DEF IInv, TypeOK
<1>1. fault_trigger_addresses' \in [Faults -> Addr \cup {0}]
  BY DEF inject_fault, FaultTypes
<1>2. flush' \in BOOLEAN
  BY DEF inject_fault
<1>3. injected' \in [Faults -> Nat \cup {-1}]
  BY DEF inject_fault, HistoryTypes
<1>4. pack[f] \in FaultConf /\ pack[f].address \in Addr
  BY DEF FaultTypes, FaultConf
<1>5. FaultedTypes' /\ FaultedTable'
      /\ Awaited' = (IF RegistersFaulted(f) THEN Awaited \cup {current_triggers} ELSE Awaited)
      /\ (RegistersFaulted(f) => current_triggers \in Faults \ Awaited)
  <2>1. CASE RegistersFaulted(f)
    <3>1. current_triggers \in Faults /\ active_triggers[current_triggers] = NULL
      BY <2>1, SizeAssumption DEF RegistersFaulted, FaultedTypes, FaultedTable, Faults
    <3>2. /\ active_triggers' = [active_triggers EXCEPT ![current_triggers] = pack[f].address]
          /\ tb_faulted_list' = [tb_faulted_list EXCEPT ![current_triggers] =
               [trigger_address |-> pack[f].address, assembler |-> NULL]]
          /\ current_triggers' = current_triggers + 1 /\ done_triggers' = done_triggers
      BY <2>1 DEF inject_fault
    <3>3. [trigger_address |-> pack[f].address, assembler |-> NULL] \in Item
      BY <1>4 DEF Item
    <3>4. FaultedTypes'
      <4>1. active_triggers' \in [Faults -> Addr \cup {NULL}]
        BY <1>4, <3>1, <3>2 DEF FaultedTypes
      <4>2. tb_faulted_list' \in [Faults -> Item \cup {NULL}]
        BY <3>1, <3>2, <3>3 DEF FaultedTypes
      <4>3. current_triggers' \in 0 .. FaultNumber /\ done_triggers' \in Nat
        BY <3>1, <3>2, SizeAssumption DEF FaultedTypes, Faults
      <4>4. QED
        BY <4>1, <4>2, <4>3 DEF FaultedTypes
    <3>5. FaultedTable'
      BY <3>1, <3>2, <3>3, NotNull DEF FaultedTypes, FaultedTable, Faults
    <3>6. pack[f].address # NULL
      BY <1>4, NotNull DEF Addr
    <3>7. Awaited' = Awaited \cup {current_triggers}
      BY <3>1, <3>2, <3>6 DEF Awaited, FaultedTypes
    <3>8. QED
      BY <2>1, <3>1, <3>4, <3>5, <3>7 DEF Awaited
  <2>2. CASE ~RegistersFaulted(f)
    <3>1. UNCHANGED faultedVars
      BY <2>2 DEF inject_fault, faultedVars
    <3>2. QED
      BY <2>2, <3>1 DEF FaultedTypes, FaultedTable, Awaited, faultedVars
  <2>3. QED
    BY <2>1, <2>2
<1>6. /\ trignum' \in [Faults -> Faults \cup {-1}]
      /\ \A g \in Faults \ {f} : trignum'[g] = trignum[g]
      /\ lives => trignum'[f] = live_faults_number /\ live_faults_number \in Faults
  <2>1. lives => live_faults_number \in Faults
    BY SizeAssumption DEF FaultTypes, Faults
  <2>2. NewTrignum(f) \in Faults \cup {-1} /\ (lives => NewTrignum(f) = live_faults_number)
    BY <2>1 DEF NewTrignum, FaultTypes
  <2>3. trignum' = [trignum EXCEPT ![f] = NewTrignum(f)]
    BY DEF inject_fault
  <2>4. QED
    BY <2>1, <2>2, <2>3 DEF FaultTypes
<1>7. /\ live_faults' \in Callbacks /\ live_faults_number' \in 0 .. FaultNumber
      /\ \A i \in Faults : /\ i >= live_faults_number' => live_faults'[i] = NULL
                           /\ live_faults[i] # NULL => live_faults'[i] = live_faults[i]
                           /\ \/ live_faults'[i] = live_faults[i]
                              \/ live_faults'[i] = f /\ trignum'[f] = i /\ lifetime[f] # 0
      /\ Live' = (IF lives THEN Live \cup {live_faults_number} ELSE Live)
      /\ (lives => live_faults_number \in Faults \ Live)
  <2>1. CASE lives
    <3>1. /\ live_faults' = [live_faults EXCEPT ![live_faults_number] = f]
          /\ live_faults_number' = live_faults_number + 1
      BY <2>1 DEF inject_fault
    <3>2. live_faults_number \in Faults /\ live_faults[live_faults_number] = NULL
      BY <1>6, <2>1 DEF LiveTable, Faults
    <3>3. live_faults' \in Callbacks /\ live_faults_number' \in 0 .. FaultNumber
      BY <3>1, <3>2, SizeAssumption DEF FaultTypes, Callbacks, Faults
    <3>4. f # NULL
      BY NotNull DEF Faults
    <3>5. Live' = Live \cup {live_faults_number}
      BY <3>1, <3>2, <3>4 DEF Live, FaultTypes, Callbacks
    <3>6. \A i \in Faults :
            /\ i >= live_faults_number' => live_faults'[i] = NULL
            /\ live_faults[i] # NULL => live_faults'[i] = live_faults[i]
            /\ \/ live_faults'[i] = live_faults[i]
               \/ live_faults'[i] = f /\ trignum'[f] = i /\ lifetime[f] # 0
      BY <1>6, <2>1, <3>1, <3>2 DEF LiveTable, FaultTypes, Callbacks, Faults
    <3>7. live_faults_number \in Faults \ Live
      BY <3>2 DEF Live
    <3>8. QED
      BY <2>1, <3>3, <3>5, <3>6, <3>7
  <2>2. CASE ~lives
    <3>1. UNCHANGED <<live_faults, live_faults_number>>
      BY <2>2 DEF inject_fault
    <3>2. QED
      BY <2>2, <3>1 DEF FaultTypes, LiveTable, Live
  <2>3. QED
    BY <2>1, <2>2
<1>8. req_singlestep' = req - 1 + (IF RegistersFaulted(f) THEN 1 ELSE 0) + (IF lives THEN 1 ELSE 0)
  BY DEF inject_fault, AddReq, RemReq
<1>9. Live \in SUBSET Faults /\ Awaited \in SUBSET Faults
  BY DEF Live, Awaited
<1>10. Cardinality(Live') = Cardinality(Live) + (IF lives THEN 1 ELSE 0) /\ Cardinality(Live) \in Nat
  BY <1>7, <1>9, FaultSets
<1>11. Cardinality(Awaited') = Cardinality(Awaited) + (IF RegistersFaulted(f) THEN 1 ELSE 0)
       /\ Cardinality(Awaited) \in Nat
  BY <1>5, <1>9, FaultSets
<1> HIDE DEF lives, IInv, TypeOK
<1>12. /\ Cardinality(Live') \in Nat /\ Cardinality(Awaited') \in Nat /\ req_singlestep' \in Nat
       /\ Cardinality(Live') + Cardinality(Awaited') + req
              = Cardinality(Live) + Cardinality(Awaited) + req_singlestep' + 1
  BY <1>8, <1>10, <1>11
<1>13. QED
  BY <1>1, <1>2, <1>3, <1>5, <1>6, <1>7, <1>12

(* Injecting f keeps the table of live faults, when f is not in it yet and *)
(* no longer waits for a trigger.                                          *)
LEMMA InjectLiveTable ==
  ASSUME IInv, NEW f \in Faults, NEW req \in Nat \ {0}, NEW cleared,
         inject_fault(f, req, cleared),
         \A i \in Faults : live_faults[i] # f,
         hitcounter'[f] = 0, f < walk', walk <= walk',
         \A g \in Faults \ {f} : hitcounter'[g] = hitcounter[g],
         walk' \in 0 .. FaultNumber
  PROVE  LiveTable'
<1>1. lifetime' = lifetime
  BY DEF inject_fault
<1>2. SUFFICES ASSUME NEW i \in Faults
               PROVE  /\ i >= live_faults_number' => live_faults'[i] = NULL
                      /\ live_faults'[i] # NULL =>
                           /\ trignum'[live_faults'[i]] = i
                           /\ lifetime[live_faults'[i]] # 0
                           /\ hitcounter'[live_faults'[i]] = 0
                           /\ live_faults'[i] < walk'
  BY <1>1 DEF LiveTable
<1>3. /\ i >= live_faults_number' => live_faults'[i] = NULL
      /\ \/ live_faults'[i] = live_faults[i]
         \/ live_faults'[i] = f /\ trignum'[f] = i /\ lifetime[f] # 0
      /\ \A g \in Faults \ {f} : trignum'[g] = trignum[g]
  BY InjectFault
<1>4. CASE live_faults'[i] = live_faults[i] /\ live_faults[i] # NULL
  <2> DEFINE g == live_faults[i]
  <2>1. g \in Faults \ {f} /\ g < walk /\ g \in Int
    BY <1>4 DEF IInv, TypeOK, FaultTypes, Callbacks, LiveTable, Faults
  <2>2. trignum[g] = i /\ lifetime[g] # 0 /\ hitcounter[g] = 0
    BY <1>4 DEF IInv, LiveTable
  <2>3. walk \in Int /\ walk' \in Int
    BY DEF IInv, TypeOK, GuestTypes
  <2>4. QED
    BY <1>3, <1>4, <2>1, <2>2, <2>3
<1>5. CASE live_faults'[i] = f /\ trignum'[f] = i /\ lifetime[f] # 0
  BY <1>3, <1>5
<1>6. QED
  BY <1>3, <1>4, <1>5

(* While the fault list is walked no block has a callback. *)
LEMMA FirstWalkQuiet ==
  ASSUME IInv, phase = "first", UNCHANGED <<tb, cache>>
  PROVE  BlocksSound'
<1>1. walk # FaultNumber
  BY DEF IInv, PhaseSound, TypeOK, GuestTypes
<1>2. \A b : CallbacksSound(b) => CallbacksSound(b)'
  BY <1>1 DEF CallbacksSound
<1>3. QED
  BY <1>2 DEF IInv, BlocksSound

LEMMA HandleFirstTbStep == ASSUME IInv, NEW f \in Faults, HandleFirstTb(f) PROVE IInv'
<1>1. /\ phase = "first" /\ walk = f /\ walk' = f + 1
      /\ phase' = (IF walk' = FaultNumber THEN "check" ELSE "first")
      /\ UNCHANGED <<configVars, hitcounter, pointVars, pc, tb, slot, cache,
                     halted, hits, alive, first_block>>
  BY DEF HandleFirstTb
<1>2. walk' \in 0 .. FaultNumber /\ f \in Nat /\ walk \in Int
  BY <1>1, SizeAssumption DEF Faults
<1>3. PointTypes'
  BY <1>1 DEF IInv, TypeOK, PointTypes, pointVars
<1>4. BlocksSound'
  BY <1>1, FirstWalkQuiet
<1>5. PhaseSound'
  BY <1>1, <1>2, SizeAssumption DEF IInv, PhaseSound, pointVars, Faults
<1>6. flush' \in BOOLEAN => GuestTypes'
  <2>1. phase' \in {"fetch", "first", "check", "insn", "done"}
    BY <1>1
  <2>2. QED
    BY <1>1, <1>2, <2>1 DEF IInv, TypeOK, GuestTypes
<1>7. pack' = pack /\ hitcounter' = hitcounter
  BY <1>1 DEF configVars
<1>8. Armed \in SUBSET Faults /\ Cardinality(Armed) \in Nat
      /\ req_singlestep \in Nat
  BY FaultSets DEF Armed, IInv, TypeOK, FaultTypes
<1>9. Armed' = (IF hitcounter[f] = 1 THEN Armed \cup {f} ELSE Armed) /\ f \notin Armed
  <2>1. \A g \in Faults : g < f + 1 <=> g < f \/ g = f
    BY DEF Faults
  <2>2. Armed' = {g \in Faults : g < f + 1 /\ hitcounter[g] = 1}
    BY <1>1, <1>7 DEF Armed
  <2>3. Armed = {g \in Faults : g < f /\ hitcounter[g] = 1} /\ ~(f < f)
    BY <1>1, <1>2 DEF Armed
  <2>4. CASE hitcounter[f] = 1
    <3>1. Armed' = Armed \cup {f}
      BY <2>1, <2>2, <2>3, <2>4
    <3>2. QED
      BY <2>3, <2>4, <3>1
  <2>5. CASE hitcounter[f] # 1
    <3>1. Armed' = Armed
      BY <2>1, <2>2, <2>3, <2>5
    <3>2. QED
      BY <2>3, <2>5, <3>1
  <2>6. QED
    BY <2>4, <2>5
<1>10. CASE /\ hitcounter[f] = 0
            /\ inject_fault(f, AddReq(req_singlestep), {trignum[f], NewTrignum(f)})
  <2> DEFINE req == req_singlestep + 1
             cleared == {trignum[f], NewTrignum(f)}
  <2>1. req \in Nat \ {0} /\ inject_fault(f, req, cleared)
    BY <1>8, <1>10 DEF AddReq
  <2> HIDE DEF req, cleared
  <2>2. lifetime' = lifetime
    BY <2>1 DEF inject_fault
  <2>3. \A i \in Faults : live_faults[i] # f
    <3>1. f # NULL
      BY NotNull DEF Faults
    <3>2. \A i \in Faults : live_faults[i] # NULL => live_faults[i] < f
      BY <1>1 DEF IInv, LiveTable
    <3>3. ~(f < f)
      BY <1>2
    <3>4. QED
      BY <3>1, <3>2, <3>3
  <2>4. LiveTable'
    BY <1>1, <1>2, <1>7, <1>10, <2>1, <2>3, InjectLiveTable
  <2>5. FaultTypes'
    BY <1>7, <2>1, <2>2, InjectFault DEF IInv, TypeOK, FaultTypes
  <2>6. FaultedTypes' /\ FaultedTable' /\ GuestTypes'
    BY <1>6, <2>1, InjectFault
  <2>7. HistoryTypes'
    BY <1>1, <2>1, InjectFault DEF IInv, TypeOK, HistoryTypes
  <2>8. SingleStepBalance'
    <3>1. Armed' = Armed
      BY <1>9, <1>10
    <3>2. /\ Cardinality(Live') \in Nat /\ Cardinality(Awaited') \in Nat
          /\ req_singlestep' \in Nat
          /\ Cardinality(Live') + Cardinality(Awaited') + req
               = Cardinality(Live) + Cardinality(Awaited) + req_singlestep' + 1
      BY <2>1, InjectFault
    <3>3. Cardinality(Live) \in Nat /\ Cardinality(Awaited) \in Nat
      BY FaultSets DEF Live, Awaited
    <3>4. QED
      BY <1>8, <3>1, <3>2, <3>3 DEF IInv, SingleStepBalance, req
  <2>9. QED
    BY <1>3, <1>4, <1>5, <2>4, <2>5, <2>6, <2>7, <2>8 DEF IInv, TypeOK
<1>11. CASE /\ hitcounter[f] = 1 /\ req_singlestep' = AddReq(req_singlestep)
            /\ flush' = TRUE
            /\ UNCHANGED <<lifetime, trignum, fault_trigger_addresses, live_faults,
                           live_faults_number, faultedVars, injected>>
  <2>1. FaultTypes' /\ FaultedTypes' /\ HistoryTypes' /\ GuestTypes'
    BY <1>1, <1>6, <1>7, <1>11
    DEF IInv, TypeOK, FaultTypes, FaultedTypes, HistoryTypes, faultedVars, AddReq
  <2>2. LiveTable'
    <3>1. \A g \in Faults : g < walk => g < walk'
      BY <1>1, <1>2 DEF Faults
    <3>2. QED
      BY <1>7, <1>11, <3>1 DEF IInv, TypeOK, FaultTypes, Callbacks, LiveTable
  <2>3. FaultedTable'
    BY <1>11 DEF IInv, FaultedTable, faultedVars
  <2>4. SingleStepBalance'
    <3>1. Cardinality(Armed') = Cardinality(Armed) + 1
      BY <1>8, <1>9, <1>11, FaultSets
    <3>2. Live' = Live /\ Awaited' = Awaited
      BY <1>11 DEF Live, Awaited, faultedVars
    <3>3. Cardinality(Live) \in Nat /\ Cardinality(Awaited) \in Nat
      BY FaultSets DEF Live, Awaited
    <3>4. QED
      BY <1>8, <1>11, <3>1, <3>2, <3>3 DEF IInv, SingleStepBalance, AddReq
  <2>5. QED
    BY <1>3, <1>4, <1>5, <2>1, <2>2, <2>3, <2>4 DEF IInv, TypeOK
<1>12. CASE /\ hitcounter[f] # 1
            /\ UNCHANGED <<lifetime, trignum, fault_trigger_addresses, live_faults,
                           live_faults_number, req_singlestep, flush, faultedVars, injected>>
  <2>1. FaultTypes' /\ FaultedTypes' /\ HistoryTypes' /\ GuestTypes'
    BY <1>1, <1>6, <1>7, <1>12
    DEF IInv, TypeOK, FaultTypes, FaultedTypes, HistoryTypes, GuestTypes, faultedVars
  <2>2. LiveTable'
    <3>1. \A g \in Faults : g < walk => g < walk'
      BY <1>1, <1>2 DEF Faults
    <3>2. QED
      BY <1>7, <1>12, <3>1 DEF IInv, TypeOK, FaultTypes, Callbacks, LiveTable
  <2>3. FaultedTable'
    BY <1>12 DEF IInv, FaultedTable, faultedVars
  <2>4. SingleStepBalance'
    BY <1>9, <1>12 DEF IInv, SingleStepBalance, Live, Awaited, faultedVars
  <2>5. QED
    BY <1>3, <1>4, <1>5, <2>1, <2>2, <2>3, <2>4 DEF IInv, TypeOK
<1>13. QED
  BY <1>10, <1>11, <1>12 DEF HandleFirstTb

(* The slot of a running trigger or lifetime callback names its fault. *)
LEMMA RunningTrigger ==
  ASSUME IInv, NEW i \in Faults, Running(i)
  PROVE  tb.trig[i] \in Faults /\ walk = FaultNumber
<1>1. i \in Pending /\ phase = "insn"
  BY DEF Running
<1>2. tb \in Block /\ CallbacksSound(tb)
  BY <1>1 DEF IInv, PhaseSound, TypeOK, GuestTypes, BlocksSound
<1>3. tb.ends \subseteq Nat \ {0} /\ tb.trig \in [Faults -> Faults \cup {NULL}]
  BY <1>2, PointAssumption DEF Block, Callbacks
<1>4. i - FaultNumber \notin Faults
  BY SizeAssumption DEF Faults
<1>5. i - 2 * FaultNumber + 1 \notin tb.ends
  BY <1>3, SizeAssumption DEF Faults
<1>6. tb.trig[i] # NULL
  BY <1>1, <1>4, <1>5 DEF Pending, HasCallback
<1>7. QED
  BY <1>2, <1>3, <1>6 DEF CallbacksSound

LEMMA RunningLifetime ==
  ASSUME IInv, NEW i \in Faults, Running(FaultNumber + i)
  PROVE  LET f == tb.live[i]
         IN /\ f \in Faults /\ walk = FaultNumber /\ hitcounter[f] = 0
            /\ lifetime[f] # 0 => trignum[f] \in Faults /\ live_faults[trignum[f]] = f
<1> DEFINE s == FaultNumber + i
<1>1. s \in Pending /\ phase = "insn"
  BY DEF Running
<1>2. tb \in Block /\ CallbacksSound(tb)
  BY <1>1 DEF IInv, PhaseSound, TypeOK, GuestTypes, BlocksSound
<1>3. tb.ends \subseteq Nat \ {0} /\ tb.live \in [Faults -> Faults \cup {NULL}]
  BY <1>2, PointAssumption DEF Block, Callbacks
<1>4. s \notin Faults /\ s - FaultNumber = i
  BY SizeAssumption DEF Faults
<1>5. s - 2 * FaultNumber + 1 \notin tb.ends
  BY <1>3, SizeAssumption DEF Faults
<1>6. tb.live[i] # NULL
  BY <1>1, <1>4, <1>5 DEF Pending, HasCallback
<1>7. QED
  BY <1>2, <1>3, <1>6 DEF CallbacksSound

LEMMA TriggerInsnCbStep == ASSUME IInv, NEW i \in Faults, TriggerInsnCb(i) PROVE IInv'
<1>1. /\ Running(i) /\ slot' = i + 1
      /\ UNCHANGED <<configVars, pointVars, phase, pc, tb, walk, cache,
                     halted, hits, alive, first_block>>
  BY DEF TriggerInsnCb
<1>2. walk = FaultNumber /\ phase = "insn"
  BY <1>1, RunningTrigger DEF Running
<1>3. PICK f \in Faults : f = tb.trig[i]
  BY <1>1, RunningTrigger
<1>4. PICK n \in Nat : n = hitcounter[f]
  BY DEF IInv, TypeOK, FaultTypes
<1>5. /\ hitcounter' = [hitcounter EXCEPT ![f] = IF n # 0 THEN n - 1 ELSE 0]
      /\ \/ n = 1 /\ inject_fault(f, req_singlestep, {trignum[f]})
         \/ /\ n = 2 /\ req_singlestep' = AddReq(req_singlestep) /\ flush' = TRUE
            /\ UNCHANGED <<lifetime, trignum, fault_trigger_addresses, live_faults,
                           live_faults_number, faultedVars, injected>>
         \/ /\ n \notin {1, 2}
            /\ UNCHANGED <<lifetime, trignum, fault_trigger_addresses, live_faults,
                           live_faults_number, req_singlestep, flush, faultedVars, injected>>
  BY <1>3, <1>4 DEF TriggerInsnCb
<1>6. /\ hitcounter \in [Faults -> Nat] /\ hitcounter' \in [Faults -> Nat]
      /\ hitcounter'[f] = (IF n # 0 THEN n - 1 ELSE 0)
      /\ \A g \in Faults \ {f} : hitcounter'[g] = hitcounter[g]
      /\ \A g \in Faults : hitcounter[g] = 0 => hitcounter'[g] = 0
  BY <1>4, <1>5 DEF IInv, TypeOK, FaultTypes
<1>7. pack' = pack /\ walk' = walk /\ phase' = phase /\ pc' = pc /\ tb' = tb /\ cache' = cache
  BY <1>1 DEF configVars
<1>8. PointTypes'
  BY <1>1 DEF IInv, TypeOK, PointTypes, pointVars
<1>9. PhaseSound'
  BY <1>1, <1>2 DEF IInv, PhaseSound, pointVars
<1>10. flush' \in BOOLEAN => GuestTypes'
  <2>1. slot' \in Nat
    BY <1>1 DEF Faults
  <2>2. QED
    BY <1>1, <1>7, <2>1 DEF IInv, TypeOK, GuestTypes
<1>11. /\ Armed \in SUBSET Faults /\ Live \in SUBSET Faults /\ Awaited \in SUBSET Faults
       /\ req_singlestep \in Nat
       /\ req_singlestep = Cardinality(Armed) + Cardinality(Live) + Cardinality(Awaited)
  BY DEF Armed, Live, Awaited, IInv, TypeOK, FaultTypes, SingleStepBalance
<1>12. /\ Cardinality(Armed) \in Nat /\ Cardinality(Live) \in Nat
       /\ Cardinality(Awaited) \in Nat
  BY <1>11, FaultSets
<1>13. /\ Armed = {g \in Faults : hitcounter[g] = 1}
       /\ Armed' = {g \in Faults : hitcounter'[g] = 1}
  <2>1. \A g \in Faults : g < FaultNumber
    BY SizeAssumption DEF Faults
  <2>2. QED
    BY <1>2, <1>7, <2>1 DEF Armed
<1>14. CASE n = 1 /\ inject_fault(f, req_singlestep, {trignum[f]})
  <2> DEFINE req == req_singlestep
             cleared == {trignum[f]}
  <2>0. n = 1 /\ hitcounter[f] = 1 /\ hitcounter'[f] = 0
    <3>1. n = 1 /\ hitcounter[f] = 1
      BY <1>4, <1>14
    <3>2. QED
      BY <1>6, <3>1
  <2>1. f \in Armed /\ Armed' = Armed \ {f}
    BY <1>6, <1>13, <2>0
  <2>2. Cardinality(Armed') = Cardinality(Armed) - 1 /\ Cardinality(Armed) >= 1
    BY <1>11, <2>1, FaultSets
  <2>3. req \in Nat \ {0} /\ inject_fault(f, req, cleared)
    BY <1>11, <1>12, <1>14, <2>2
  <2> HIDE DEF req, cleared
  <2>4. lifetime' = lifetime
    BY <2>3 DEF inject_fault
  <2>5. \A j \in Faults : live_faults[j] # f
    <3>1. f # NULL
      BY <1>2, NotNull DEF Faults
    <3>2. QED
      BY <2>0, <3>1 DEF IInv, LiveTable
  <2>6. LiveTable'
    <3>1. hitcounter'[f] = 0 /\ f < walk' /\ walk <= walk' /\ walk' \in 0 .. FaultNumber
      BY <1>2, <1>7, <2>0, SizeAssumption DEF Faults
    <3>2. QED
      BY <1>2, <1>6, <2>3, <2>5, <3>1, InjectLiveTable
  <2>7. FaultTypes'
    BY <1>2, <1>6, <1>7, <2>3, <2>4, InjectFault DEF IInv, TypeOK, FaultTypes
  <2>8. FaultedTypes' /\ FaultedTable' /\ GuestTypes'
    BY <1>2, <1>10, <2>3, InjectFault
  <2>9. HistoryTypes'
    BY <1>1, <1>2, <2>3, InjectFault DEF IInv, TypeOK, HistoryTypes
  <2>10. SingleStepBalance'
    <3>1. /\ Cardinality(Live') \in Nat /\ Cardinality(Awaited') \in Nat
          /\ req_singlestep' \in Nat
          /\ Cardinality(Live') + Cardinality(Awaited') + req
               = Cardinality(Live) + Cardinality(Awaited) + req_singlestep' + 1
      BY <1>2, <2>3, InjectFault
    <3>2. req = Cardinality(Armed) + Cardinality(Live) + Cardinality(Awaited)
      BY <1>11 DEF req
    <3>3. req_singlestep' = Cardinality(Armed') + Cardinality(Live') + Cardinality(Awaited')
      BY <1>12, <2>2, <3>1, <3>2
    <3>4. QED
      BY <3>3 DEF SingleStepBalance
  <2>11. \A b : CallbacksSound(b) /\ (\A j \in Faults : b.live[j] \in Faults \cup {NULL})
               => CallbacksSound(b)'
    <3>1. SUFFICES ASSUME NEW b, CallbacksSound(b), NEW j \in Faults,
                          b.live[j] \in Faults, b.live[j] # NULL
                   PROVE  LET g == b.live[j]
                          IN /\ hitcounter'[g] = 0
                             /\ lifetime[g] # 0 =>
                                  trignum'[g] \in Faults /\ live_faults'[trignum'[g]] = g
      BY <1>2, <1>7, <2>4 DEF CallbacksSound
    <3> DEFINE g == b.live[j]
    <3>2. hitcounter[g] = 0 /\ (lifetime[g] # 0 =>
             trignum[g] \in Faults /\ live_faults[trignum[g]] = g)
      BY <3>1 DEF CallbacksSound
    <3>3. g # f /\ hitcounter'[g] = 0
      BY <1>6, <2>0, <3>1, <3>2
    <3>4. trignum'[g] = trignum[g]
      BY <1>2, <2>3, <3>1, <3>3, InjectFault
    <3>5. \A k \in Faults : live_faults[k] # NULL => live_faults'[k] = live_faults[k]
      BY <1>2, <2>3, InjectFault
    <3>6. QED
      BY <3>1, <3>2, <3>3, <3>4, <3>5
  <2>12. BlocksSound'
    <3>1. /\ tb # NULL => \A j \in Faults : tb.live[j] \in Faults \cup {NULL}
          /\ \A a \in Addr : cache[a] # NULL =>
               \A j \in Faults : cache[a].live[j] \in Faults \cup {NULL}
      BY DEF IInv, TypeOK, GuestTypes, Block, Callbacks
    <3>2. QED
      BY <1>7, <2>11, <3>1 DEF IInv, BlocksSound
  <2>13. QED
    BY <1>8, <1>9, <2>6, <2>7, <2>8, <2>9, <2>10, <2>12 DEF IInv, TypeOK
<1>15. CASE /\ n # 1
            /\ UNCHANGED <<lifetime, trignum, fault_trigger_addresses, live_faults,
                           live_faults_number, faultedVars, injected>>
            /\ \/ n = 2 /\ req_singlestep' = req_singlestep + 1 /\ flush' = TRUE
               \/ n # 2 /\ UNCHANGED <<req_singlestep, flush>>
  <2>1. FaultTypes' /\ FaultedTypes'
    BY <1>6, <1>7, <1>15 DEF IInv, TypeOK, FaultTypes, FaultedTypes, faultedVars
  <2>2. HistoryTypes'
    BY <1>1, <1>15 DEF IInv, TypeOK, HistoryTypes
  <2>3. GuestTypes'
    BY <1>10, <1>15 DEF IInv, TypeOK, GuestTypes
  <2>4. LiveTable'
    BY <1>6, <1>7, <1>15 DEF IInv, TypeOK, FaultTypes, Callbacks, LiveTable
  <2>5. FaultedTable'
    BY <1>15 DEF IInv, FaultedTable, faultedVars
  <2>6. SingleStepBalance'
    <3>1. Live' = Live /\ Awaited' = Awaited
      BY <1>15 DEF Live, Awaited, faultedVars
    <3>2. CASE n = 2
      <4>1. Armed' = Armed \cup {f} /\ f \in Faults \ Armed
        <5>1. hitcounter[f] = 2 /\ hitcounter'[f] = 1
          BY <1>4, <1>6, <3>2
        <5>2. QED
          BY <1>6, <1>13, <5>1
      <4>2. Cardinality(Armed') = Cardinality(Armed) + 1
        BY <1>11, <4>1, FaultSets
      <4>3. QED
        BY <1>11, <1>12, <1>15, <3>1, <3>2, <4>2 DEF SingleStepBalance
    <3>3. CASE n # 2
      <4>1. Armed' = Armed
        BY <1>2, <1>4, <1>6, <1>13, <1>15, <3>3
      <4>2. QED
        BY <1>11, <1>15, <3>1, <3>3, <4>1 DEF SingleStepBalance
    <3>4. QED
      BY <3>2, <3>3
  <2>7. \A b : CallbacksSound(b) /\ (\A j \in Faults : b.live[j] \in Faults \cup {NULL})
              => CallbacksSound(b)'
    BY <1>6, <1>7, <1>15 DEF CallbacksSound
  <2>8. BlocksSound'
    <3>1. /\ tb # NULL => \A j \in Faults : tb.live[j] \in Faults \cup {NULL}
          /\ \A a \in Addr : cache[a] # NULL =>
               \A j \in Faults : cache[a].live[j] \in Faults \cup {NULL}
      BY DEF IInv, TypeOK, GuestTypes, Block, Callbacks
    <3>2. QED
      BY <1>7, <2>7, <3>1 DEF IInv, BlocksSound
  <2>9. QED
    BY <1>8, <1>9, <2>1, <2>2, <2>3, <2>4, <2>5, <2>6, <2>8 DEF IInv, TypeOK
<1>16. CASE n = 1
  <2>1. inject_fault(f, req_singlestep, {trignum[f]})
    BY <1>5, <1>16
  <2>2. QED
    BY <1>14, <1>16, <2>1
<1>17. CASE n # 1
  BY <1>5, <1>15, <1>17 DEF AddReq
<1>18. QED
  BY <1>16, <1>17

LEMMA TbExecCbStep == ASSUME IInv, NEW i \in Faults, TbExecCb(i) PROVE IInv'
<1>1. PICK f \in Faults : f = tb.live[i]
  BY RunningLifetime DEF TbExecCb
<1>2. PICK n \in Nat : n = lifetime[f]
  BY DEF IInv, TypeOK, FaultTypes
<1>3. /\ walk = FaultNumber /\ hitcounter[f] = 0 /\ phase = "insn"
      /\ n # 0 => trignum[f] \in Faults /\ live_faults[trignum[f]] = f
  BY <1>1, <1>2, RunningLifetime DEF TbExecCb, Running
<1>4. /\ slot' = FaultNumber + i + 1
      /\ lifetime' = [lifetime EXCEPT ![f] = IF n # 0 THEN n - 1 ELSE 0]
      /\ flush' \in BOOLEAN
      /\ UNCHANGED <<configVars, hitcounter, trignum, fault_trigger_addresses,
                     live_faults_number, pointVars, faultedVars, phase, pc, tb, walk,
                     cache, halted, history>>
  BY <1>1, <1>2 DEF TbExecCb, IInv, TypeOK, GuestTypes
<1>5. IF n = 1
      THEN /\ req_singlestep' = RemReq(req_singlestep)
           /\ live_faults' = [live_faults EXCEPT ![trignum[f]] = NULL]
      ELSE req_singlestep' = req_singlestep /\ live_faults' = live_faults
  BY <1>1, <1>2 DEF TbExecCb
<1>6. /\ lifetime' \in [Faults -> Nat] /\ lifetime'[f] = (IF n # 0 THEN n - 1 ELSE 0)
      /\ \A g \in Faults \ {f} : lifetime'[g] = lifetime[g]
  BY <1>4 DEF IInv, TypeOK, FaultTypes
<1>7. pack' = pack /\ walk' = walk /\ phase' = phase /\ pc' = pc /\ tb' = tb /\ cache' = cache
  BY <1>4 DEF configVars
<1>8. live_faults \in [Faults -> Faults \cup {NULL}] /\ req_singlestep \in Nat
  BY DEF IInv, TypeOK, FaultTypes, Callbacks
<1>9. PointTypes' /\ HistoryTypes' /\ FaultedTypes'
  BY <1>4 DEF IInv, TypeOK, PointTypes, HistoryTypes, FaultedTypes, pointVars, history, faultedVars
<1>10. PhaseSound'
  BY <1>4, <1>7 DEF IInv, PhaseSound, pointVars
<1>11. GuestTypes'
  <2>1. slot' \in Nat
    BY <1>4, SizeAssumption DEF Faults
  <2>2. QED
    BY <1>4, <1>7, <2>1 DEF IInv, TypeOK, GuestTypes
<1>12. FaultedTable'
  BY <1>4 DEF IInv, FaultedTable, faultedVars
<1>13. /\ Armed' = Armed /\ Awaited' = Awaited
       /\ Cardinality(Armed) \in Nat /\ Cardinality(Awaited) \in Nat
       /\ Live \in SUBSET Faults /\ Cardinality(Live) \in Nat
       /\ req_singlestep = Cardinality(Armed) + Cardinality(Live) + Cardinality(Awaited)
  BY <1>4, FaultSets DEF IInv, Armed, Awaited, Live, SingleStepBalance, faultedVars
<1>14. \A j \in Faults : live_faults[j] # NULL =>
         /\ trignum[live_faults[j]] = j /\ lifetime[live_faults[j]] # 0
         /\ hitcounter[live_faults[j]] = 0 /\ live_faults[j] < walk
  BY DEF IInv, LiveTable
<1>15. \A j \in Faults : j >= live_faults_number => live_faults[j] = NULL
  BY DEF IInv, LiveTable
<1>16. \A b : CallbacksSound(b) /\ (\A j \in Faults : b.live[j] \in Faults \cup {NULL})
             => CallbacksSound(b)'
  <2>1. SUFFICES ASSUME NEW b, CallbacksSound(b), NEW j \in Faults,
                        b.live[j] \in Faults, b.live[j] # NULL,
                        lifetime'[b.live[j]] # 0
                 PROVE  /\ trignum[b.live[j]] \in Faults
                        /\ live_faults'[trignum[b.live[j]]] = b.live[j]
    BY <1>4, <1>7 DEF CallbacksSound
  <2>2. PICK g \in Faults : g = b.live[j]
    BY <2>1
  <2>3. lifetime[g] # 0
    BY <1>2, <1>6, <2>1, <2>2
  <2>4. trignum[g] \in Faults /\ live_faults[trignum[g]] = g
    BY <2>1, <2>2, <2>3 DEF CallbacksSound
  <2>5. CASE n = 1
    <3>1. lifetime'[f] = 0
      BY <1>6, <2>5
    <3>2. g # f
      BY <2>1, <2>2, <3>1
    <3>3. trignum[g] # trignum[f] /\ trignum[f] \in Faults
      BY <1>3, <2>4, <2>5, <3>2
    <3>4. live_faults' = [live_faults EXCEPT ![trignum[f]] = NULL]
      BY <1>5, <2>5
    <3>5. live_faults'[trignum[g]] = live_faults[trignum[g]]
      BY <1>8, <2>4, <3>3, <3>4
    <3>6. QED
      BY <2>2, <2>4, <3>5
  <2>6. CASE n # 1
    BY <1>5, <2>2, <2>4, <2>6
  <2>7. QED
    BY <2>5, <2>6
<1>17. BlocksSound'
  <2>1. /\ tb # NULL => \A j \in Faults : tb.live[j] \in Faults \cup {NULL}
        /\ \A a \in Addr : cache[a] # NULL =>
             \A j \in Faults : cache[a].live[j] \in Faults \cup {NULL}
    BY DEF IInv, TypeOK, GuestTypes, Block, Callbacks
  <2>2. QED
    BY <1>7, <1>16, <2>1 DEF IInv, BlocksSound
<1>18. CASE n = 1
  <2>1. PICK k \in Faults : k = trignum[f] /\ live_faults[k] = f
    BY <1>3, <1>18
  <2>2. live_faults' = [live_faults EXCEPT ![k] = NULL] /\ req_singlestep' = RemReq(req_singlestep)
    BY <1>5, <1>18, <2>1
  <2>3. k \in Live /\ Live' = Live \ {k}
    <3>1. f # NULL
      BY NotNull DEF Faults
    <3>2. QED
      BY <1>8, <2>1, <2>2, <3>1 DEF Live
  <2>4. Cardinality(Live') = Cardinality(Live) - 1 /\ Cardinality(Live) >= 1
    BY <1>13, <2>3, FaultSets
  <2>5. req_singlestep' = req_singlestep - 1 /\ req_singlestep' \in Nat
    BY <1>8, <1>13, <2>2, <2>4 DEF RemReq
  <2>6. SingleStepBalance'
    BY <1>13, <2>4, <2>5 DEF SingleStepBalance
  <2>7. live_faults' \in Callbacks
    BY <1>8, <2>2 DEF Callbacks
  <2>8. FaultTypes'
    BY <1>4, <1>6, <1>7, <2>5, <2>7 DEF IInv, TypeOK, FaultTypes
  <2>9. LiveTable'
    <3>1. SUFFICES ASSUME NEW j \in Faults
                   PROVE  /\ j >= live_faults_number => live_faults'[j] = NULL
                          /\ live_faults'[j] # NULL =>
                               /\ trignum[live_faults'[j]] = j
                               /\ lifetime'[live_faults'[j]] # 0
                               /\ hitcounter[live_faults'[j]] = 0
                               /\ live_faults'[j] < walk
      BY <1>4, <1>7 DEF LiveTable
    <3>2. CASE j = k
      BY <1>8, <2>2, <3>2
    <3>3. CASE j # k
      <4>1. live_faults'[j] = live_faults[j]
        BY <1>8, <2>2, <3>3
      <4>2. live_faults[j] # NULL => live_faults[j] \in Faults \ {f}
        BY <1>8, <1>14, <2>1, <3>3
      <4>3. QED
        BY <1>6, <1>14, <1>15, <4>1, <4>2
    <3>4. QED
      BY <3>2, <3>3
  <2>10. QED
    BY <1>9, <1>10, <1>11, <1>12, <1>17, <2>6, <2>8, <2>9 DEF IInv, TypeOK
<1>19. CASE n # 1
  <2>1. live_faults' = live_faults /\ req_singlestep' = req_singlestep
    BY <1>5, <1>19
  <2>2. FaultTypes'
    BY <1>4, <1>6, <1>7, <2>1 DEF IInv, TypeOK, FaultTypes
  <2>3. SingleStepBalance'
    BY <1>13, <2>1 DEF SingleStepBalance, Live
  <2>4. \A g \in Faults : lifetime[g] # 0 => lifetime'[g] # 0
    BY <1>2, <1>6, <1>19
  <2>5. LiveTable'
    BY <1>4, <1>7, <1>8, <1>14, <1>15, <2>1, <2>4 DEF LiveTable
  <2>6. QED
    BY <1>9, <1>10, <1>11, <1>12, <1>17, <2>2, <2>3, <2>5 DEF IInv, TypeOK
<1>20. QED
  BY <1>18, <1>19

LEMMA TranslateNextStep == IInv /\ TranslateNext => IInv'
<1> SUFFICES ASSUME IInv, TranslateNext PROVE IInv'
  OBVIOUS
<1>1. StaleLive = {}
  BY DEF IInv, LiveTable, StaleLive
<1>2. Cardinality(StaleLive) = 0 /\ req_singlestep \in Nat
  BY <1>1, FS_EmptySet DEF IInv, TypeOK, FaultTypes
<1>3. req_singlestep' = req_singlestep
  BY <1>2 DEF TranslateNext
<1>4. live_faults \in [Faults -> Faults \cup {NULL}]
  BY DEF IInv, TypeOK, FaultTypes, Callbacks
<1>5. live_faults' = live_faults
  BY <1>1, <1>4 DEF TranslateNext
<1>6. UNCHANGED tables
  BY <1>3, <1>5 DEF TranslateNext, tables, faultVars
<1>7. pc \in Addr /\ walk = FaultNumber
  <2>1. phase = "fetch" /\ first_tb
    BY DEF TranslateNext, Translating
  <2>2. ~(walk < FaultNumber)
    BY <2>1 DEF IInv, PhaseSound
  <2>3. pc \in Addr /\ walk \in 0 .. FaultNumber
    BY DEF IInv, TypeOK, GuestTypes
  <2>4. QED
    BY <2>2, <2>3, SizeAssumption
<1> DEFINE trig == TriggerCallbacks(pc, BlockEnd(pc))
<1>8. trig \in Callbacks
  BY FaultByTriggerType DEF TriggerCallbacks, Callbacks
<1>9. LiveCallbacks \in Callbacks
  BY <1>4 DEF LiveCallbacks, Callbacks
<1> HIDE DEF trig
<1>10. PICK b : b = NewBlock(TRUE, FALSE, trig, LiveCallbacks)
  OBVIOUS
<1>11. b.trig = trig /\ b.live = LiveCallbacks
  BY <1>10 DEF NewBlock
<1>12. b \in Block
  <2>1. BlockEnd(pc) \in Addr /\ pc <= BlockEnd(pc)
    BY <1>7, BlockEndType
  <2>2. QED
    BY <1>7, <1>8, <1>9, <1>10, <2>1 DEF NewBlock, Block, EndCallbacks
<1>13. CallbacksSound(b)
  BY <1>4, <1>7, <1>11 DEF CallbacksSound, LiveCallbacks, IInv, LiveTable
<1>14. cache' = [cache EXCEPT ![pc] = b]
  BY <1>10 DEF TranslateNext, trig
<1>15. PointTypes' /\ HistoryTypes'
  BY DEF TranslateNext, IInv, TypeOK, PointTypes, HistoryTypes, pointVars, history
<1>16. GuestTypes'
  BY <1>12, <1>14 DEF TranslateNext, IInv, TypeOK, GuestTypes
<1>17. BlocksSound'
  BY <1>6, <1>7, <1>12, <1>13, <1>14, TablesKept
  DEF TranslateNext, IInv, BlocksSound, TypeOK, GuestTypes
<1>18. PhaseSound'
  <2>1. cache'[pc] # NULL
    BY <1>7, <1>12, <1>14, NotNull DEF IInv, TypeOK, GuestTypes
  <2>2. phase' = "check" /\ first_tb' /\ walk' = FaultNumber /\ pc' = pc
    BY <1>7 DEF TranslateNext, pointVars
  <2>3. ~(walk' < FaultNumber)
    BY <2>2, SizeAssumption
  <2>4. QED
    BY <2>1, <2>2, <2>3 DEF IInv, PhaseSound, TranslateNext, Translating
<1>19. QED
  BY <1>6, <1>15, <1>16, <1>17, <1>18, TablesKept DEF IInv, TypeOK

LEMMA CheckTbFaultedStep ==
  ASSUME IInv, NEW i \in Faults, NEW item \in Faults, CheckTbFaulted(i, item)
  PROVE  IInv'
<1> DEFINE b == cache[pc]
<1>1. b \in Block /\ pc \in Addr /\ phase = "check"
  BY DEF CheckTbFaulted, IInv, TypeOK, GuestTypes, PhaseSound
<1>2. i \in Awaited
  BY DEF CheckTbFaulted, FaultedMatches, Awaited
<1>3. item < current_triggers
  BY DEF CheckTbFaulted, NewestItem
<1>4. tb_faulted_list[item] \in Item
  BY <1>3 DEF IInv, TypeOK, FaultedTypes, FaultedTable
<1>5. PICK x \in Extent : tb_faulted_list' = [tb_faulted_list EXCEPT ![item].assembler = x]
  BY <1>1 DEF CheckTbFaulted, Extent, Block
<1>6. active_triggers' = [active_triggers EXCEPT ![i] = NULL]
      /\ req_singlestep' = RemReq(req_singlestep)
  BY DEF CheckTbFaulted
<1>7. flush' \in BOOLEAN /\ done_triggers' = done_triggers + 1
      /\ UNCHANGED <<configVars, faultVars, pointVars, current_triggers,
                     phase, pc, tb, slot, walk, cache, halted, history>>
  BY DEF CheckTbFaulted, IInv, TypeOK, GuestTypes
<1> HIDE DEF b
<1>8. /\ active_triggers \in [Faults -> Addr \cup {NULL}]
      /\ tb_faulted_list \in [Faults -> Item \cup {NULL}]
  BY DEF IInv, TypeOK, FaultedTypes
<1>9. /\ tb_faulted_list' \in [Faults -> Item \cup {NULL}]
      /\ \A j \in Faults : tb_faulted_list[j] # NULL => tb_faulted_list'[j] # NULL
  <2>1. [tb_faulted_list[item] EXCEPT !.assembler = x] \in Item
    BY <1>4 DEF Item
  <2>2. tb_faulted_list' =
          [tb_faulted_list EXCEPT ![item] = [tb_faulted_list[item] EXCEPT !.assembler = x]]
    BY <1>5, <1>8
  <2>3. QED
    BY <1>8, <2>1, <2>2, NotNull
<1>10. FaultedTypes'
  BY <1>6, <1>7, <1>8, <1>9 DEF IInv, TypeOK, FaultedTypes
<1>11. FaultedTable'
  BY <1>6, <1>7, <1>8, <1>9 DEF IInv, FaultedTable
<1>12. Awaited' = Awaited \ {i}
  BY <1>6, <1>8 DEF Awaited
<1>13. Cardinality(Awaited') = Cardinality(Awaited) - 1 /\ Cardinality(Awaited) \in Nat
       /\ Cardinality(Awaited) >= 1
  BY <1>2, <1>12, FaultSets DEF Awaited
<1>14. /\ Armed' = Armed /\ Live' = Live
       /\ Cardinality(Armed) \in Nat /\ Cardinality(Live) \in Nat
  BY <1>7, FaultSets DEF Armed, Live, faultVars
<1>15. /\ req_singlestep \in Nat
       /\ req_singlestep = Cardinality(Armed) + Cardinality(Live) + Cardinality(Awaited)
  BY DEF IInv, TypeOK, FaultTypes, SingleStepBalance
<1>16. req_singlestep' = req_singlestep - 1 /\ req_singlestep' \in Nat
  BY <1>6, <1>13, <1>14, <1>15 DEF RemReq
<1>17. SingleStepBalance'
  BY <1>13, <1>14, <1>15, <1>16 DEF SingleStepBalance
<1>18. FaultTypes' /\ PointTypes' /\ HistoryTypes' /\ GuestTypes'
  BY <1>7, <1>16
  DEF IInv, TypeOK, FaultTypes, PointTypes, HistoryTypes, GuestTypes,
      configVars, faultVars, pointVars, history
<1>19. LiveTable' /\ PhaseSound'
  BY <1>7 DEF IInv, LiveTable, PhaseSound, faultVars, pointVars
<1>20. BlocksSound'
  <2>1. \A c : CallbacksSound(c) => CallbacksSound(c)'
    BY <1>7 DEF CallbacksSound, faultVars
  <2>2. QED
    BY <1>7, <2>1 DEF IInv, BlocksSound
<1>21. QED
  BY <1>10, <1>11, <1>17, <1>18, <1>19, <1>20 DEF IInv, TypeOK

-----------------------------------------------------------------------------
(* Every step of the plugin keeps the inductive invariant. *)
LEMMA NextIInv == IInv /\ [Next]_vars => IInv'
<1> SUFFICES ASSUME IInv, [Next]_vars PROVE IInv'
  OBVIOUS
<1>1. CASE Translate
  BY <1>1, TranslateBeforeStartStep, TranslateFirstStep, TranslateNextStep,
     HandleFirstTbStep, CheckTbFaultedStep, EndTranslationStep DEF Translate
<1>2. CASE Execute
  BY <1>2, FlushStep, EnterUncountedStep, EnterCountedStep, MaxReachedStep,
     TriggerInsnCbStep, TbExecCbStep, TbExecEndCbStep, NextInsnStep, LeaveBlockStep
  DEF Execute
<1>3. CASE Wake \/ Terminated \/ UNCHANGED vars
  BY <1>3, StutterStep DEF Terminated
<1>4. QED
  BY <1>1, <1>2, <1>3 DEF Next

(* The inductive invariant holds in every reachable state. *)
THEOREM Inductive == Spec => []IInv
<1>1. Init => IInv
  BY InitIInv
<1>2. IInv /\ [Next]_vars => IInv'
  BY NextIInv
<1>3. QED
  BY <1>1, <1>2, PTL DEF Spec

(* The state of the plugin is well typed in every reachable state; in       *)
(* particular no index leaves the vectors the plugin allocated for          *)
(* fault_number faults.                                                     *)
THEOREM TypeCorrect == Spec => []TypeOK
<1>1. IInv => TypeOK
  BY DEF IInv
<1>2. QED
  BY <1>1, Inductive, PTL

(* Single-stepping is requested by exactly the faults that are armed, live  *)
(* or awaiting their disassembly: no request of add_singlestep_req is lost  *)
(* by rem_singlestep_req and none is left behind.                           *)
THEOREM Balance == Spec => []SingleStepBalance
<1>1. IInv => SingleStepBalance
  BY DEF IInv
<1>2. QED
  BY <1>1, Inductive, PTL

-----------------------------------------------------------------------------
(* When faults are injected and for how long they stay.                     *)

(* The inductive invariant.  What is known of a fault by whether it has     *)
(* been injected: until then its counters, its trigger number and its entry *)
(* of the trigger vector are those of the configuration, and each injected  *)
(* fault takes at most one entry of live_faults.                            *)
InjectedFaults == {f \in Faults : Injected(f)}

FaultsSound ==
  /\ \A f \in Faults :
       /\ Injected(f) => hitcounter[f] = 0 /\ f < walk
       /\ ~Injected(f) => /\ trignum[f] = f /\ lifetime[f] = pack[f].lifetime
                          /\ alive[f] = 0
                          /\ pack[f].hitcounter # 0 => hitcounter[f] # 0
       /\ pack[f].hitcounter = 0 =>
            /\ hitcounter[f] = 0
            /\ Injected(f) <=> pack[f].type = "INSTRUCTION" /\ f < walk
            /\ Injected(f) => injected[f] = 0
       /\ walk < FaultNumber => hits[f] = 0
  /\ \A i \in Faults : live_faults[i] # NULL => Injected(live_faults[i])
  /\ live_faults_number <= Cardinality(InjectedFaults)

BlockTimed(b) ==
  /\ b.counted => first_tb
  /\ \A i \in Faults :
       /\ b.trig[i] # NULL /\ ~Injected(b.trig[i]) => b.trig[i] = i
       /\ b.live[i] # NULL => Injected(b.live[i]) /\ trignum[b.live[i]] = i

CacheTimed == \A a \in Addr : cache[a] # NULL =>
  /\ cache[a].first = a
  /\ BlockTimed(cache[a])
  /\ ~flush =>
       /\ started => cache[a].counted
       /\ \A i \in Faults :
            /\ cache[a].trig[i] # NULL /\ hitcounter[cache[a].trig[i]] = 1 =>
                 cache[a].first = cache[a].last
            /\ live_faults[i] # NULL => cache[a].live[i] = live_faults[i]

RunTimed == phase = "insn" =>
  /\ BlockTimed(tb)
  /\ pc \in tb.first .. tb.last
  /\ first_tb => tb.counted
  /\ \A i \in Faults :
       /\ tb.trig[i] # NULL /\ hitcounter[tb.trig[i]] = 1 =>
            \/ tb.first = tb.last
            \/ pack[tb.trig[i]].trigger < pc
            \/ pack[tb.trig[i]].trigger = pc /\ i < slot
       /\ tb.first # tb.last /\ live_faults[i] # NULL => tb.live[i] = live_faults[i]

TimedInv == /\ FaultsSound /\ CacheTimed /\ RunTimed
            /\ first_tb => started


LEMMA NoLiveBeforeFirst ==
  ASSUME IInv, walk = 0
  PROVE  \A i \in Faults : live_faults[i] = NULL
<1>1. \A f \in Faults : ~(f < 0)
  BY DEF Faults
<1>2. \A i \in Faults : live_faults[i] # NULL => live_faults[i] \in Faults
  BY DEF IInv, TypeOK, FaultTypes, Callbacks
<1>3. QED
  BY <1>1, <1>2 DEF IInv, LiveTable

(* A nonempty cache entry is a block, and so is the running one.            *)
LEMMA CachedBlock ==
  ASSUME IInv
  PROVE  /\ \A a \in Addr : cache[a] # NULL => cache[a] \in Block
         /\ phase = "insn" => tb \in Block
         /\ pc \in Addr
  BY DEF IInv, TypeOK, GuestTypes, PhaseSound

LEMMA InitTimed == Init => TimedInv
<1> SUFFICES ASSUME Init PROVE TimedInv
  OBVIOUS
<1>1. \A f \in Faults : ~Injected(f) /\ injected[f] = -1
  BY DEF Init, Injected
<1>2. InjectedFaults = {}
  BY <1>1 DEF InjectedFaults
<1>3. /\ \A i \in Faults : live_faults[i] = NULL
      /\ \A a \in Addr : cache[a] = NULL
      /\ phase = "fetch" /\ ~first_tb /\ walk = 0 /\ live_faults_number = 0
  BY DEF Init, NoCallback, NoBlocks
<1>4. FaultsSound
  <2>1. ASSUME NEW f \in Faults
        PROVE  /\ trignum[f] = f /\ lifetime[f] = pack[f].lifetime /\ alive[f] = 0
               /\ hitcounter[f] = pack[f].hitcounter /\ hits[f] = 0 /\ ~(f < walk)
    BY <1>3 DEF Init, Faults
  <2>2. live_faults_number <= Cardinality(InjectedFaults)
    BY <1>2, <1>3, FS_EmptySet
  <2>3. QED
    BY <1>1, <1>3, <2>1, <2>2 DEF FaultsSound
<1>5. QED
  BY <1>3, <1>4 DEF TimedInv, CacheTimed, RunTimed

-----------------------------------------------------------------------------
(* Steps that inject nothing and revert nothing. *)
faultState == <<pack, hitcounter, lifetime, trignum, live_faults, live_faults_number,
                walk, injected>>

LEMMA FaultsKept ==
  ASSUME FaultsSound, UNCHANGED <<faultState, hits, alive>>
  PROVE  FaultsSound'
<1>1. InjectedFaults' = InjectedFaults
  BY DEF faultState, InjectedFaults, Injected
<1>2. QED
  BY <1>1 DEF FaultsSound, faultState, Injected

LEMMA BlockKept ==
  ASSUME UNCHANGED <<trignum, injected>>, first_tb => first_tb'
  PROVE  \A b : BlockTimed(b) => BlockTimed(b)'
  BY DEF BlockTimed, Injected

(* Nothing is counted before the fault list has been walked. *)
LEMMA FaultsBegin ==
  ASSUME IInv, FaultsSound, UNCHANGED faultState, NEW b, NEW a,
         b.counted => walk = FaultNumber, BeginInsn(b, a)
  PROVE  FaultsSound'
<1>1. InjectedFaults' = InjectedFaults /\ \A f \in Faults : Injected(f)' <=> Injected(f)
  BY DEF faultState, InjectedFaults, Injected
<1>2. ASSUME NEW f \in Faults, ~Injected(f) PROVE alive'[f] = alive[f]
  <2>1. ~IsLive(f)
    <3>1. f # NULL
      BY NotNull DEF Faults
    <3>2. QED
      BY <1>2, <3>1 DEF IsLive, FaultsSound
  <2>2. QED
    BY <2>1 DEF BeginInsn, IInv, TypeOK, HistoryTypes
<1>3. ASSUME NEW f \in Faults, walk < FaultNumber PROVE hits'[f] = hits[f]
  <2>1. ~b.counted
    BY <1>3, SizeAssumption
  <2>2. QED
    BY <2>1 DEF BeginInsn, IInv, TypeOK, HistoryTypes
<1>4. UNCHANGED <<pack, hitcounter, lifetime, trignum, live_faults, live_faults_number,
                  walk, injected>>
  BY DEF faultState
<1>5. ASSUME NEW f \in Faults
      PROVE  /\ Injected(f)' => hitcounter'[f] = 0 /\ f < walk'
             /\ ~Injected(f)' => /\ trignum'[f] = f /\ lifetime'[f] = pack'[f].lifetime
                                 /\ alive'[f] = 0
                                 /\ pack'[f].hitcounter # 0 => hitcounter'[f] # 0
             /\ pack'[f].hitcounter = 0 =>
                  /\ hitcounter'[f] = 0
                  /\ Injected(f)' <=> pack'[f].type = "INSTRUCTION" /\ f < walk'
                  /\ Injected(f)' => injected'[f] = 0
             /\ walk' < FaultNumber => hits'[f] = 0
  BY <1>1, <1>2, <1>3, <1>4 DEF FaultsSound
<1>6. /\ \A i \in Faults : live_faults'[i] # NULL => Injected(live_faults[i])'
      /\ live_faults_number' <= Cardinality(InjectedFaults')
  BY <1>1, <1>4 DEF FaultsSound, Injected
<1>7. QED
  BY <1>5, <1>6 DEF FaultsSound

(* A block without callbacks is translated before the first block's faults  *)
(* are walked, or as that block itself.                                     *)
LEMMA TranslateBeforeStartTimed == IInv /\ TimedInv /\ TranslateBeforeStart => TimedInv'
<1> SUFFICES ASSUME IInv, TimedInv, TranslateBeforeStart PROVE TimedInv'
  OBVIOUS
<1>1. /\ UNCHANGED <<faultState, hits, alive, trignum, injected, first_tb, started, flush,
                     hitcounter, live_faults, pc>>
      /\ ~started /\ phase' = "fetch" /\ ~flush
  BY DEF TranslateBeforeStart, Translating, faultState, configVars, faultVars, pointVars, history
<1>2. walk = 0
  BY <1>1 DEF TimedInv, IInv, PhaseSound
<1>3. PICK b : /\ cache' = [cache EXCEPT ![pc] = b] /\ b.first = pc /\ ~b.counted
               /\ b.trig = NoCallback /\ b.live = NoCallback
  <2>1. PICK b : b = NewBlock(FALSE, StartPoint.address \in pc .. BlockEnd(pc), NoCallback, NoCallback)
    OBVIOUS
  <2>2. b.first = pc /\ ~b.counted /\ b.trig = NoCallback /\ b.live = NoCallback
    BY <2>1 DEF NewBlock
  <2>3. cache' = [cache EXCEPT ![pc] = b]
    BY <2>1 DEF TranslateBeforeStart
  <2>4. QED
    BY <2>2, <2>3
<1>4. BlockTimed(b)'
  BY <1>3 DEF BlockTimed, NoCallback
<1>5. CacheTimed'
  <2>1. \A c : BlockTimed(c) => BlockTimed(c)'
    BY <1>1, BlockKept
  <2>2. \A i \in Faults : live_faults[i] = NULL
    BY <1>2, NoLiveBeforeFirst
  <2>3. cache \in [Addr -> Block \cup {NULL}] /\ pc \in Addr
    BY DEF IInv, TypeOK, GuestTypes
  <2>4. SUFFICES ASSUME NEW a \in Addr, cache'[a] # NULL
                 PROVE  /\ cache'[a].first = a
                        /\ BlockTimed(cache[a])'
                        /\ \A i \in Faults : cache'[a].trig[i] # NULL /\ hitcounter[cache'[a].trig[i]] = 1 =>
                             cache'[a].first = cache'[a].last
    BY <1>1, <2>2 DEF CacheTimed
  <2>5. CASE a = pc
    BY <1>3, <1>4, <2>3, <2>5 DEF NoCallback
  <2>6. CASE a # pc
    <3>1. cache'[a] = cache[a]
      BY <1>3, <2>3, <2>6
    <3>2. QED
      BY <1>1, <2>1, <2>4, <3>1 DEF TimedInv, CacheTimed
  <2>7. QED
    BY <2>5, <2>6
<1>6. QED
  BY <1>1, <1>5, FaultsKept DEF TimedInv, RunTimed

LEMMA TranslateFirstTimed == IInv /\ TimedInv /\ TranslateFirst => TimedInv'
<1> SUFFICES ASSUME IInv, TimedInv, TranslateFirst PROVE TimedInv'
  OBVIOUS
<1>1. /\ UNCHANGED <<faultState, hits, alive, trignum, injected, started, flush,
                     hitcounter, live_faults, pc>>
      /\ started /\ phase' = "first" /\ ~flush /\ ~first_tb /\ first_tb'
  BY DEF TranslateFirst, Translating, faultState, configVars, faultVars
<1>2. walk = 0
  BY <1>1 DEF IInv, PhaseSound
<1>3. PICK b : /\ cache' = [cache EXCEPT ![pc] = b] /\ b.first = pc /\ b.counted
               /\ b.trig = NoCallback /\ b.live = NoCallback
  <2>1. PICK b : b = NewBlock(TRUE, FALSE, NoCallback, NoCallback)
    OBVIOUS
  <2>2. b.first = pc /\ b.counted /\ b.trig = NoCallback /\ b.live = NoCallback
    BY <2>1 DEF NewBlock
  <2>3. cache' = [cache EXCEPT ![pc] = b]
    BY <2>1 DEF TranslateFirst
  <2>4. QED
    BY <2>2, <2>3
<1>4. BlockTimed(b)'
  BY <1>1, <1>3 DEF BlockTimed, NoCallback
<1>5. CacheTimed'
  <2>1. \A c : BlockTimed(c) => BlockTimed(c)'
    BY <1>1, BlockKept
  <2>2. \A i \in Faults : live_faults[i] = NULL
    BY <1>2, NoLiveBeforeFirst
  <2>3. cache \in [Addr -> Block \cup {NULL}] /\ pc \in Addr
    BY DEF IInv, TypeOK, GuestTypes
  <2>4. SUFFICES ASSUME NEW a \in Addr, cache'[a] # NULL
                 PROVE  /\ cache'[a].first = a
                        /\ BlockTimed(cache[a])'
                        /\ cache'[a].counted
                        /\ \A i \in Faults : cache'[a].trig[i] # NULL /\ hitcounter[cache'[a].trig[i]] = 1 =>
                             cache'[a].first = cache'[a].last
    BY <1>1, <2>2 DEF CacheTimed
  <2>5. CASE a = pc
    BY <1>3, <1>4, <2>3, <2>5 DEF NoCallback
  <2>6. CASE a # pc
    <3>1. cache'[a] = cache[a]
      BY <1>3, <2>3, <2>6
    <3>2. QED
      BY <1>1, <2>1, <2>4, <3>1 DEF TimedInv, CacheTimed
  <2>7. QED
    BY <2>5, <2>6
<1>6. QED
  BY <1>1, <1>5, FaultsKept DEF TimedInv, RunTimed

(* A trigger callback registered for a fault that needs one more hit makes  *)
(* the block a single instruction: the fault holds a request.               *)
LEMMA ArmedSingleSteps ==
  ASSUME IInv, walk = FaultNumber, NEW f \in Faults, hitcounter[f] = 1
  PROVE  SingleStep
<1>1. f \in Armed /\ Armed \in SUBSET Faults
  BY SizeAssumption DEF Armed, Faults
<1>2. Cardinality(Armed) \in Nat /\ Cardinality(Armed) >= 1
  BY <1>1, FaultSets
<1>3. Cardinality(Live) \in Nat /\ Cardinality(Awaited) \in Nat
  BY FaultSets DEF Live, Awaited
<1>4. QED
  BY <1>2, <1>3 DEF IInv, SingleStepBalance, SingleStep

(* No entry of live_faults is stale when a block is translated: tb_exec_cb  *)
(* has already dropped the faults that ran out.                             *)
LEMMA TranslateNextKeeps ==
  ASSUME IInv, TranslateNext
  PROVE  /\ StaleLive = {} /\ UNCHANGED tables /\ flush' = FALSE
         /\ walk = FaultNumber /\ LiveCallbacks = live_faults
<1>1. StaleLive = {}
  BY DEF IInv, LiveTable, StaleLive
<1>2. Cardinality(StaleLive) = 0 /\ req_singlestep \in Nat
  BY <1>1, FS_EmptySet DEF IInv, TypeOK, FaultTypes
<1>3. req_singlestep' = req_singlestep
  BY <1>2 DEF TranslateNext
<1>4. live_faults \in [Faults -> Faults \cup {NULL}] /\ live_faults_number \in 0 .. FaultNumber
  BY DEF IInv, TypeOK, FaultTypes, Callbacks
<1>5. live_faults' = live_faults
  BY <1>1, <1>4 DEF TranslateNext
<1>6. UNCHANGED tables /\ flush' = FALSE
  BY <1>1, <1>3, <1>5 DEF TranslateNext, tables, faultVars
<1>7. walk = FaultNumber
  <2>1. phase = "fetch" /\ first_tb
    BY DEF TranslateNext, Translating
  <2>2. ~(walk < FaultNumber)
    BY <2>1 DEF IInv, PhaseSound
  <2>3. walk \in 0 .. FaultNumber
    BY DEF IInv, TypeOK, GuestTypes
  <2>4. QED
    BY <2>2, <2>3, SizeAssumption
<1>8. LiveCallbacks = live_faults
  <2>1. ASSUME NEW i \in Faults
        PROVE  (IF i < live_faults_number /\ i \notin StaleLive THEN live_faults[i] ELSE NULL)
                 = live_faults[i]
    <3>1. i >= live_faults_number => live_faults[i] = NULL
      BY DEF IInv, LiveTable
    <3>2. QED
      BY <1>1, <1>4, <3>1 DEF Faults
  <2>2. QED
    BY <1>4, <2>1 DEF LiveCallbacks
<1>9. QED
  BY <1>1, <1>6, <1>7, <1>8

LEMMA TranslateNextTimed == IInv /\ TimedInv /\ TranslateNext => TimedInv'
<1> SUFFICES ASSUME IInv, TimedInv, TranslateNext PROVE TimedInv'
  OBVIOUS
<1>1. /\ UNCHANGED <<faultState, hits, alive, trignum, injected, started, first_tb,
                     hitcounter, live_faults, pc>>
      /\ started /\ first_tb /\ phase' = "check" /\ ~flush /\ ~flush' /\ walk = FaultNumber
  BY TranslateNextKeeps
  DEF TranslateNext, Translating, tables, faultState, configVars, faultVars, pointVars, history
<1>2. LiveCallbacks = live_faults
  BY TranslateNextKeeps
<1>3. live_faults \in [Faults -> Faults \cup {NULL}] /\ pc \in Addr
      /\ cache \in [Addr -> Block \cup {NULL}]
  BY DEF IInv, TypeOK, FaultTypes, GuestTypes, Callbacks
<1>4. PICK trig : trig = TriggerCallbacks(pc, BlockEnd(pc))
  OBVIOUS
<1>5. \A i \in Faults : trig[i] # NULL => trig[i] \in Faults /\ trignum[trig[i]] = i
  BY <1>4, FaultByTriggerType DEF TriggerCallbacks
<1>6. PICK b : b = NewBlock(TRUE, FALSE, trig, LiveCallbacks)
  OBVIOUS
<1>7. b.first = pc /\ b.last = BlockEnd(pc) /\ b.counted /\ b.trig = trig /\ b.live = live_faults
  BY <1>2, <1>6 DEF NewBlock
<1>8. cache' = [cache EXCEPT ![pc] = b]
  BY <1>4, <1>6 DEF TranslateNext
<1>9. BlockTimed(b)
  <2>1. ASSUME NEW i \in Faults, trig[i] # NULL, ~Injected(trig[i]) PROVE trig[i] = i
    BY <1>5, <2>1 DEF TimedInv, FaultsSound
  <2>2. ASSUME NEW i \in Faults, live_faults[i] # NULL
        PROVE  Injected(live_faults[i]) /\ trignum[live_faults[i]] = i
    BY <2>2 DEF TimedInv, FaultsSound, IInv, LiveTable
  <2>3. QED
    BY <1>1, <1>7, <2>1, <2>2 DEF BlockTimed
<1>10. ASSUME NEW i \in Faults, trig[i] # NULL, hitcounter[trig[i]] = 1
       PROVE  b.first = b.last
  <2>1. SingleStep
    BY <1>1, <1>5, <1>10, ArmedSingleSteps
  <2>2. QED
    BY <1>7, <2>1 DEF BlockEnd
<1>11. CacheTimed'
  <2>1. \A c : BlockTimed(c) => BlockTimed(c)'
    BY <1>1, BlockKept
  <2>2. SUFFICES ASSUME NEW a \in Addr, cache'[a] # NULL
                 PROVE  /\ cache'[a].first = a
                        /\ BlockTimed(cache[a])'
                        /\ cache'[a].counted
                        /\ \A i \in Faults :
                             /\ cache'[a].trig[i] # NULL /\ hitcounter[cache'[a].trig[i]] = 1 =>
                                  cache'[a].first = cache'[a].last
                             /\ live_faults[i] # NULL => cache'[a].live[i] = live_faults[i]
    BY <1>1 DEF CacheTimed
  <2>3. CASE a = pc
    <3>1. cache'[a] = b
      BY <1>3, <1>8, <2>3
    <3>2. QED
      BY <1>7, <1>9, <1>10, <2>1, <2>3, <3>1
  <2>4. CASE a # pc
    <3>1. cache'[a] = cache[a]
      BY <1>3, <1>8, <2>4
    <3>2. QED
      BY <1>1, <2>1, <2>2, <3>1 DEF TimedInv, CacheTimed
  <2>5. QED
    BY <2>3, <2>4
<1>12. QED
  BY <1>1, <1>11, FaultsKept DEF TimedInv, RunTimed

(* Steps that change neither the faults nor the blocks. *)
LEMMA CacheKept ==
  ASSUME TimedInv, UNCHANGED <<faultState, cache, started>>, first_tb => first_tb', flush => flush'
  PROVE  CacheTimed'
<1>1. UNCHANGED <<trignum, injected, hitcounter, live_faults>>
  BY DEF faultState
<1>2. \A c : BlockTimed(c) => BlockTimed(c)'
  BY <1>1, BlockKept
<1>3. QED
  BY <1>1, <1>2 DEF TimedInv, CacheTimed

LEMMA IdleTimed ==
  ASSUME TimedInv, UNCHANGED <<faultState, cache, started, first_tb, hits, alive>>,
         flush => flush', phase' # "insn"
  PROVE  TimedInv'
  BY CacheKept, FaultsKept DEF TimedInv, RunTimed

LEMMA EndTranslationTimed == TimedInv /\ EndTranslation => TimedInv'
  BY IdleTimed
  DEF EndTranslation, faultState, configVars, faultVars, pointVars, history

LEMMA CheckTbFaultedTimed ==
  ASSUME TimedInv, NEW i \in Faults, NEW item \in Faults, CheckTbFaulted(i, item)
  PROVE  TimedInv'
  BY IdleTimed
  DEF CheckTbFaulted, faultState, configVars, faultVars, pointVars, history

LEMMA MaxReachedTimed == TimedInv /\ MaxReached => TimedInv'
  BY IdleTimed DEF MaxReached, faultState, configVars, faultVars, history

LEMMA LeaveBlockTimed ==
  ASSUME TimedInv, NEW a \in Addr, LeaveBlock(a)
  PROVE  TimedInv'
  BY IdleTimed DEF LeaveBlock, faultState, configVars, faultVars, pointVars, history

LEMMA FlushTimed == TimedInv /\ Flush => TimedInv'
<1> SUFFICES ASSUME TimedInv, Flush PROVE TimedInv'
  OBVIOUS
<1>1. /\ UNCHANGED <<faultState, started, first_tb, hits, alive>>
      /\ cache' = NoBlocks /\ phase' = "fetch"
  BY DEF Flush, faultState, configVars, faultVars, pointVars, history
<1>2. CacheTimed'
  BY <1>1 DEF CacheTimed, NoBlocks
<1>3. QED
  BY <1>1, <1>2, FaultsKept DEF TimedInv, RunTimed

LEMMA StutterTimed == TimedInv /\ (Wake \/ UNCHANGED vars) => TimedInv'
<1> SUFFICES ASSUME TimedInv, Wake \/ UNCHANGED vars PROVE TimedInv'
  OBVIOUS
<1>1. /\ UNCHANGED <<faultState, cache, started, first_tb, hits, alive, flush, phase, tb, pc,
                     slot, trignum, injected, hitcounter, live_faults, pack>>
  BY DEF Wake, vars, faultState, configVars, faultVars, pointVars, guestVars, history
<1>2. \A c : BlockTimed(c) => BlockTimed(c)'
  BY <1>1, BlockKept
<1>3. RunTimed'
  BY <1>1, <1>2 DEF TimedInv, RunTimed
<1>4. QED
  BY <1>1, <1>3, CacheKept, FaultsKept DEF TimedInv

-----------------------------------------------------------------------------
(* The guest enters a block and executes it.                                *)
LEMMA EnterTimed ==
  ASSUME IInv, TimedInv, UNCHANGED <<faultState, cache, first_tb>>,
         phase = "fetch", ~flush, cache[pc] # NULL, phase' = "insn", tb' = cache[pc],
         started' = (started \/ flush'), BeginInsn(cache[pc], pc)
  PROVE  TimedInv'
<1>1. /\ UNCHANGED <<trignum, injected, hitcounter, live_faults, pack>>
      /\ pc' = pc /\ slot' = 0
  BY DEF faultState, BeginInsn
<1>2. pc \in Addr /\ cache[pc] \in Block
  BY CachedBlock
<1>3. PICK b \in Block : b = cache[pc]
  BY <1>2
<1>4. /\ b.first = pc /\ BlockTimed(b) /\ (started => b.counted) /\ (first_tb => started)
      /\ \A i \in Faults : /\ b.trig[i] # NULL /\ hitcounter[b.trig[i]] = 1 => b.first = b.last
                           /\ live_faults[i] # NULL => b.live[i] = live_faults[i]
  BY <1>2, <1>3 DEF TimedInv, CacheTimed
<1>5. \A c : BlockTimed(c) => BlockTimed(c)'
  BY <1>1, BlockKept
<1>6. FaultsSound'
  <2>1. b.counted => walk = FaultNumber
    <3>1. b.counted => first_tb
      BY <1>4 DEF BlockTimed
    <3>2. first_tb => ~(walk < FaultNumber)
      BY DEF IInv, PhaseSound
    <3>3. walk \in 0 .. FaultNumber
      BY DEF IInv, TypeOK, GuestTypes
    <3>4. QED
      BY <3>1, <3>2, <3>3, SizeAssumption
  <2>2. BeginInsn(b, pc)
    BY <1>3
  <2>3. QED
    BY <2>1, <2>2, FaultsBegin DEF TimedInv
<1>7. RunTimed'
  <2>1. pc \in b.first .. b.last
    BY <1>2, <1>4 DEF Block, Addr
  <2>2. tb' = b
    BY <1>3
  <2>3. BlockTimed(tb)'
    BY <1>4, <1>5, <2>2
  <2>4. QED
    BY <1>1, <1>4, <2>1, <2>2, <2>3 DEF RunTimed
<1>8. CacheTimed'
  BY <1>1, <1>5 DEF TimedInv, CacheTimed
<1>9. QED
  BY <1>4, <1>6, <1>7, <1>8 DEF TimedInv

LEMMA EnterUncountedTimed == IInv /\ TimedInv /\ EnterUncounted => TimedInv'
<1> SUFFICES ASSUME IInv, TimedInv, EnterUncounted PROVE TimedInv'
  OBVIOUS
<1>1. /\ UNCHANGED <<faultState, cache, first_tb>>
      /\ phase = "fetch" /\ ~flush /\ cache[pc] # NULL /\ phase' = "insn" /\ tb' = cache[pc]
      /\ BeginInsn(cache[pc], pc)
  BY DEF EnterUncounted, Entering, faultState, configVars, faultVars
<1>2. started' = (started \/ flush')
  BY DEF EnterUncounted
<1>3. QED
  BY <1>1, <1>2, EnterTimed

LEMMA EnterCountedTimed == IInv /\ TimedInv /\ EnterCounted => TimedInv'
<1> SUFFICES ASSUME IInv, TimedInv, EnterCounted PROVE TimedInv'
  OBVIOUS
<1>1. /\ UNCHANGED <<faultState, cache, first_tb>>
      /\ phase = "fetch" /\ ~flush /\ cache[pc] # NULL /\ phase' = "insn" /\ tb' = cache[pc]
      /\ BeginInsn(cache[pc], pc)
  BY DEF EnterCounted, Entering, faultState, configVars, faultVars
<1>2. started' = (started \/ flush')
  BY <1>1 DEF EnterCounted, IInv, TypeOK, PointTypes
<1>3. QED
  BY <1>1, <1>2, EnterTimed

(* The next instruction of the block: every trigger at an earlier address   *)
(* has been evaluated.                                                      *)
LEMMA NextInsnTimed == IInv /\ TimedInv /\ NextInsn => TimedInv'
<1> SUFFICES ASSUME IInv, TimedInv, NextInsn PROVE TimedInv'
  OBVIOUS
<1>1. /\ UNCHANGED <<faultState, cache, first_tb, started, flush, tb, trignum, injected,
                     hitcounter, live_faults, pack>>
      /\ phase = "insn" /\ phase' = "insn" /\ pc' = pc + 1 /\ slot' = 0 /\ pc < tb.last
      /\ BeginInsn(tb, pc + 1)
  BY DEF NextInsn, BeginInsn, faultState, configVars, faultVars, pointVars
<1>2. tb \in Block /\ pc \in Addr
  BY <1>1, CachedBlock
<1>3. \A c : BlockTimed(c) => BlockTimed(c)'
  BY <1>1, BlockKept
<1>4. FaultsSound'
  <2>1. tb.counted => walk = FaultNumber
    <3>1. tb.counted => first_tb
      BY <1>1 DEF TimedInv, RunTimed, BlockTimed
    <3>2. first_tb => ~(walk < FaultNumber)
      BY <1>1 DEF IInv, PhaseSound
    <3>3. walk \in 0 .. FaultNumber
      BY DEF IInv, TypeOK, GuestTypes
    <3>4. QED
      BY <3>1, <3>2, <3>3, SizeAssumption
  <2>2. QED
    BY <1>1, <2>1, FaultsBegin DEF TimedInv
<1>5. pack \in [Faults -> FaultConf] /\ tb.trig \in [Faults -> Faults \cup {NULL}]
  BY <1>2 DEF IInv, TypeOK, FaultTypes, Block, Callbacks
<1>6. RunTimed'
  <2>1. pc' \in tb.first .. tb.last
    BY <1>1, <1>2 DEF TimedInv, RunTimed, Block, Addr
  <2>2. ASSUME NEW i \in Faults, tb.trig[i] # NULL, hitcounter[tb.trig[i]] = 1
        PROVE  tb.first = tb.last \/ pack[tb.trig[i]].trigger < pc'
    <3>1. tb.trig[i] \in Faults /\ pack[tb.trig[i]].trigger \in Addr
      BY <1>5, <2>2 DEF FaultConf
    <3>2. \/ tb.first = tb.last \/ pack[tb.trig[i]].trigger < pc
          \/ pack[tb.trig[i]].trigger = pc
      BY <1>1, <2>2 DEF TimedInv, RunTimed
    <3>3. QED
      BY <1>1, <1>2, <3>1, <3>2 DEF Addr
  <2>3. BlockTimed(tb)' /\ (first_tb' => tb'.counted)
        /\ \A i \in Faults : tb.first # tb.last /\ live_faults[i] # NULL => tb.live[i] = live_faults[i]
    BY <1>1, <1>3 DEF TimedInv, RunTimed
  <2>4. QED
    BY <1>1, <2>1, <2>2, <2>3 DEF RunTimed
<1>7. QED
  BY <1>1, <1>4, <1>6, CacheKept DEF TimedInv

LEMMA PendingSlot ==
  ASSUME IInv, NEW s, Running(s)
  PROVE  /\ s \in Nat /\ slot \in Nat /\ slot <= s /\ phase = "insn"
         /\ \A r \in Pending : s <= r
<1>1. s \in Slots /\ s >= slot /\ phase = "insn" /\ \A r \in Pending : s <= r
  BY DEF Running, Pending
<1>2. slot \in Nat
  BY DEF IInv, TypeOK, GuestTypes
<1>3. QED
  BY <1>1, <1>2 DEF Slots

LEMMA TbExecEndCbTimed ==
  ASSUME IInv, TimedInv, NEW e \in Ends, TbExecEndCb(e)
  PROVE  TimedInv'
<1> DEFINE s == 2 * FaultNumber + e - 1
<1>1. /\ UNCHANGED <<faultState, cache, first_tb, started, flush, tb, trignum, injected,
                     hitcounter, live_faults, pack, pc, hits, alive>>
      /\ slot' = s + 1 /\ Running(s)
      /\ phase' = "done" \/ phase' = phase
  BY DEF TbExecEndCb, faultState, configVars, faultVars, pointVars, history
<1> HIDE DEF s
<1>2. s \in Nat /\ slot \in Nat /\ slot <= s /\ phase = "insn"
  BY <1>1, PendingSlot
<1>3. CASE phase' = "done"
  BY <1>1, <1>3, IdleTimed
<1>4. CASE phase' = phase
  <2>1. \A c : BlockTimed(c) => BlockTimed(c)'
    BY <1>1, BlockKept
  <2>2. \A i \in Faults : i < slot => i < slot'
    BY <1>1, <1>2 DEF Faults
  <2>3. RunTimed'
    BY <1>1, <1>2, <2>1, <2>2 DEF TimedInv, RunTimed
  <2>4. QED
    BY <1>1, <2>3, CacheKept, FaultsKept DEF TimedInv
<1>5. QED
  BY <1>1, <1>3, <1>4

-----------------------------------------------------------------------------
(* Injection.  live_faults has room for every fault: the entries taken are  *)
(* no more than the faults injected, and this one is not among them.        *)
LEMMA InjectTimed ==
  ASSUME IInv, TimedInv, NEW f \in Faults, ~Injected(f),
         NEW req, NEW cleared, inject_fault(f, req, cleared)
  PROVE  /\ injected'[f] = hits[f] /\ Injected(f)'
         /\ \A g \in Faults \ {f} : injected'[g] = injected[g] /\ trignum'[g] = trignum[g]
                                    /\ (Injected(g)' <=> Injected(g))
         /\ lifetime' = lifetime
         /\ live_faults_number' <= Cardinality(InjectedFaults')
         /\ flush => flush'
         /\ IF lifetime[f] # 0
            THEN /\ live_faults_number \in Faults /\ flush'
                 /\ live_faults[live_faults_number] = NULL
                 /\ live_faults' = [live_faults EXCEPT ![live_faults_number] = f]
            ELSE live_faults' = live_faults
<1>1. /\ injected' = [injected EXCEPT ![f] = hits[f]] /\ lifetime' = lifetime
      /\ trignum' = [trignum EXCEPT ![f] = NewTrignum(f)]
      /\ flush => flush'
  BY DEF inject_fault
<1>2. /\ injected \in [Faults -> Nat \cup {-1}] /\ hits[f] \in Nat
      /\ trignum \in [Faults -> Faults \cup {-1}]
      /\ live_faults_number \in 0 .. FaultNumber
  BY DEF IInv, TypeOK, HistoryTypes, FaultTypes
<1>3. /\ injected'[f] = hits[f] /\ Injected(f)'
      /\ \A g \in Faults \ {f} : injected'[g] = injected[g] /\ trignum'[g] = trignum[g]
                                 /\ (Injected(g)' <=> Injected(g))
  BY <1>1, <1>2 DEF Injected
<1>4. InjectedFaults' = InjectedFaults \cup {f} /\ f \in Faults \ InjectedFaults
      /\ InjectedFaults \in SUBSET Faults
  BY <1>3 DEF InjectedFaults
<1>5. Cardinality(InjectedFaults') = Cardinality(InjectedFaults) + 1
      /\ Cardinality(InjectedFaults) \in Nat
  BY <1>4, FaultSets
<1>6. Cardinality(InjectedFaults') <= FaultNumber
  <2>1. IsFiniteSet(Faults) /\ Cardinality(Faults) = FaultNumber
    BY SizeAssumption, FS_Interval DEF Faults
  <2>2. InjectedFaults' \in SUBSET Faults
    BY <1>4
  <2>3. QED
    BY <2>1, <2>2, FS_Subset
<1>7. live_faults_number <= Cardinality(InjectedFaults)
  BY DEF TimedInv, FaultsSound
<1>8. live_faults_number < FaultNumber
  BY <1>2, <1>5, <1>6, <1>7, SizeAssumption
<1>9. live_faults_number' = live_faults_number \/ live_faults_number' = live_faults_number + 1
  BY DEF inject_fault
<1>10. live_faults_number' <= Cardinality(InjectedFaults')
  BY <1>2, <1>5, <1>7, <1>9
<1>11. live_faults_number \in Faults /\ live_faults[live_faults_number] = NULL
  BY <1>2, <1>8, SizeAssumption DEF Faults, IInv, LiveTable
<1>12. IF lifetime[f] # 0
       THEN flush' /\ live_faults' = [live_faults EXCEPT ![live_faults_number] = f]
       ELSE live_faults' = live_faults
  <2>1. live_faults_number # FaultNumber
    BY <1>2, <1>8, SizeAssumption
  <2>2. CASE lifetime[f] # 0
    <3>1. flush'
      BY <2>1, <2>2 DEF inject_fault
    <3>2. live_faults' = [live_faults EXCEPT ![live_faults_number] = f]
      BY <2>1, <2>2 DEF inject_fault
    <3>3. QED
      BY <2>2, <3>1, <3>2
  <2>3. CASE lifetime[f] = 0
    BY <2>3 DEF inject_fault
  <2>4. QED
    BY <2>2, <2>3
<1>13. QED
  BY <1>1, <1>3, <1>10, <1>11, <1>12

(* What the faults are known for survives an injection, which takes the     *)
(* fault's last hit or the walk of the list to it.                          *)
LEMMA InjectFaultsSound ==
  ASSUME IInv, TimedInv, NEW f \in Faults, ~Injected(f),
         NEW req, NEW cleared, inject_fault(f, req, cleared),
         UNCHANGED <<pack, hits, alive>>,
         hitcounter'[f] = 0, f < walk',
         \A g \in Faults \ {f} : hitcounter'[g] = hitcounter[g] /\ (g < walk' <=> g < walk),
         walk' < FaultNumber => walk < FaultNumber,
         pack[f].hitcounter = 0 => pack[f].type = "INSTRUCTION" /\ walk < FaultNumber
  PROVE  FaultsSound'
<1>1. /\ injected'[f] = hits[f] /\ Injected(f)'
      /\ \A g \in Faults \ {f} : injected'[g] = injected[g] /\ trignum'[g] = trignum[g]
                                 /\ (Injected(g)' <=> Injected(g))
      /\ lifetime' = lifetime
      /\ live_faults_number' <= Cardinality(InjectedFaults')
  BY InjectTimed
<1>2. ASSUME NEW g \in Faults
      PROVE  /\ Injected(g)' => hitcounter'[g] = 0 /\ g < walk'
             /\ ~Injected(g)' => /\ trignum'[g] = g /\ lifetime'[g] = pack'[g].lifetime
                                 /\ alive'[g] = 0
                                 /\ pack'[g].hitcounter # 0 => hitcounter'[g] # 0
             /\ pack'[g].hitcounter = 0 =>
                  /\ hitcounter'[g] = 0
                  /\ Injected(g)' <=> pack'[g].type = "INSTRUCTION" /\ g < walk'
                  /\ Injected(g)' => injected'[g] = 0
             /\ walk' < FaultNumber => hits'[g] = 0
  <2>1. CASE g = f
    BY <1>1, <2>1 DEF TimedInv, FaultsSound
  <2>2. CASE g # f
    BY <1>1, <2>2 DEF TimedInv, FaultsSound
  <2>3. QED
    BY <2>1, <2>2
<1>3. \A i \in Faults : live_faults'[i] # NULL => Injected(live_faults[i])'
  <2>1. live_faults \in [Faults -> Faults \cup {NULL}]
    BY DEF IInv, TypeOK, FaultTypes, Callbacks
  <2>2. ASSUME NEW i \in Faults
        PROVE  live_faults'[i] = live_faults[i] \/ live_faults'[i] = f
    BY <2>1, InjectTimed
  <2>3. SUFFICES ASSUME NEW i \in Faults, live_faults'[i] # NULL
                 PROVE  injected'[live_faults'[i]] # -1
    BY DEF Injected
  <2>4. CASE live_faults'[i] = f
    BY <1>1, <2>4 DEF Injected
  <2>5. CASE live_faults'[i] = live_faults[i]
    <3>1. PICK g \in Faults : g = live_faults[i] /\ Injected(g)
      BY <2>1, <2>3, <2>5 DEF TimedInv, FaultsSound
    <3>2. Injected(g)'
      BY <1>1, <3>1
    <3>3. QED
      BY <2>5, <3>1, <3>2 DEF Injected
  <2>6. QED
    BY <2>2, <2>4, <2>5
<1>4. QED
  BY <1>1, <1>2, <1>3 DEF FaultsSound

LEMMA HandleFirstTbTimed ==
  ASSUME IInv, TimedInv, NEW f \in Faults, HandleFirstTb(f)
  PROVE  TimedInv'
<1>1. /\ phase = "first" /\ walk = f /\ walk' = f + 1 /\ phase' # "insn"
      /\ UNCHANGED <<pack, hitcounter, first_tb, started, cache, hits, alive>>
  BY DEF HandleFirstTb, configVars, pointVars
<1>2. \A g \in Faults \ {f} : g < walk' <=> g < walk
  BY <1>1 DEF Faults
<1>3. f < walk' /\ walk < FaultNumber /\ walk' \in Nat /\ ~(f < walk)
  BY <1>1, SizeAssumption DEF Faults
<1>4. ~Injected(f)
  BY <1>3 DEF TimedInv, FaultsSound
<1>5. \A i \in Faults, a \in Addr : cache[a] # NULL => cache[a].trig[i] = NULL /\ cache[a].live[i] = NULL
  BY <1>3, SizeAssumption DEF IInv, BlocksSound, CallbacksSound
<1>6. ASSUME \A i \in Faults : ~flush' => live_faults'[i] = live_faults[i], flush => flush'
      PROVE  CacheTimed'
  <2>1. \A a \in Addr : cache[a] # NULL => BlockTimed(cache[a])'
    BY <1>1, <1>5 DEF TimedInv, CacheTimed, BlockTimed
  <2>2. QED
    BY <1>1, <1>5, <1>6, <2>1 DEF TimedInv, CacheTimed
<1>7. CASE /\ hitcounter[f] = 0 /\ pack[f].type = "INSTRUCTION"
           /\ inject_fault(f, AddReq(req_singlestep), {trignum[f], NewTrignum(f)})
  <2> DEFINE req == AddReq(req_singlestep)
             cleared == {trignum[f], NewTrignum(f)}
  <2>1. inject_fault(f, req, cleared)
    BY <1>7
  <2> HIDE DEF req, cleared
  <2>2. FaultsSound'
    BY <1>1, <1>2, <1>3, <1>4, <1>7, <2>1, InjectFaultsSound
  <2>3. /\ flush => flush'
        /\ ~flush' => live_faults' = live_faults
    BY <1>4, <2>1, InjectTimed
  <2>4. CacheTimed'
    BY <1>6, <2>3
  <2>5. QED
    BY <1>1, <2>2, <2>4 DEF TimedInv, RunTimed
<1>8. CASE /\ hitcounter[f] = 0 => pack[f].type # "INSTRUCTION"
           /\ flush => flush'
           /\ UNCHANGED <<lifetime, trignum, live_faults, live_faults_number, injected>>
  <2>1. \A g \in Faults : Injected(g)' <=> Injected(g)
    BY <1>8 DEF Injected
  <2>2. InjectedFaults' = InjectedFaults
    BY <2>1 DEF InjectedFaults
  <2>3. ASSUME NEW g \in Faults
        PROVE  /\ Injected(g)' => hitcounter'[g] = 0 /\ g < walk'
               /\ ~Injected(g)' => /\ trignum'[g] = g /\ lifetime'[g] = pack'[g].lifetime
                                   /\ alive'[g] = 0
                                   /\ pack'[g].hitcounter # 0 => hitcounter'[g] # 0
               /\ pack'[g].hitcounter = 0 =>
                    /\ hitcounter'[g] = 0
                    /\ Injected(g)' <=> pack'[g].type = "INSTRUCTION" /\ g < walk'
                    /\ Injected(g)' => injected'[g] = 0
               /\ walk' < FaultNumber => hits'[g] = 0
    <3>1. CASE g = f
      BY <1>1, <1>3, <1>4, <1>8, <2>1, <3>1 DEF TimedInv, FaultsSound
    <3>2. CASE g # f
      BY <1>1, <1>2, <1>3, <1>8, <2>1, <3>2 DEF TimedInv, FaultsSound
    <3>3. QED
      BY <3>1, <3>2
  <2>4. /\ \A i \in Faults : live_faults'[i] # NULL => Injected(live_faults[i])'
        /\ live_faults_number' <= Cardinality(InjectedFaults')
    BY <1>8, <2>2 DEF TimedInv, FaultsSound, Injected
  <2>5. FaultsSound'
    BY <2>3, <2>4 DEF FaultsSound
  <2>6. CacheTimed'
    BY <1>6, <1>8
  <2>7. QED
    BY <1>1, <2>5, <2>6 DEF TimedInv, RunTimed
<1>9. QED
  BY <1>7, <1>8 DEF HandleFirstTb

-----------------------------------------------------------------------------
(* A trigger callback that runs is that of the fault at the current         *)
(* address, in the entry of its own number while it is not injected.        *)
LEMMA TriggerRuns ==
  ASSUME IInv, NEW i \in Faults, Running(i)
  PROVE  /\ tb.trig[i] \in Faults /\ tb.trig[i] # NULL /\ pack[tb.trig[i]].trigger = pc
         /\ walk = FaultNumber /\ phase = "insn" /\ slot <= i /\ slot \in Nat
<1>1. i \in Pending /\ phase = "insn" /\ slot <= i /\ slot \in Nat
  BY PendingSlot DEF Running
<1>2. tb \in Block
  BY <1>1, CachedBlock
<1>3. tb.ends \subseteq Nat \ {0}
  BY <1>2, PointAssumption DEF Block
<1>4. i - FaultNumber \notin Faults
  BY SizeAssumption DEF Faults
<1>5. i - 2 * FaultNumber + 1 \notin tb.ends
  BY <1>3, SizeAssumption DEF Faults
<1>6. tb.trig[i] # NULL /\ pack[tb.trig[i]].trigger = pc
  BY <1>1, <1>4, <1>5 DEF Pending, HasCallback
<1>7. QED
  BY <1>1, <1>6, RunningTrigger

(* The last hit of a trigger comes in a block of one instruction.           *)
LEMMA LastHitIsSingle ==
  ASSUME IInv, TimedInv, NEW i \in Pending, i \in Faults, phase = "insn",
         hitcounter[tb.trig[i]] = 1
  PROVE  tb.first = tb.last
<1>1. tb \in Block
  BY CachedBlock
<1>2. tb.ends \subseteq Nat \ {0}
  BY <1>1, PointAssumption DEF Block
<1>3. i - FaultNumber \notin Faults
  BY SizeAssumption DEF Faults
<1>4. i - 2 * FaultNumber + 1 \notin tb.ends
  BY <1>2, SizeAssumption DEF Faults
<1>5. tb.trig[i] # NULL /\ pack[tb.trig[i]].trigger = pc /\ slot <= i
  BY <1>3, <1>4 DEF Pending, HasCallback
<1>6. pc \in Int /\ slot \in Int /\ i \in Int
  BY DEF IInv, TypeOK, GuestTypes, Addr, Faults
<1>7. QED
  BY <1>5, <1>6 DEF TimedInv, RunTimed

LEMMA TriggerInsnCbTimed ==
  ASSUME IInv, TimedInv, NEW i \in Faults, TriggerInsnCb(i)
  PROVE  TimedInv'
<1>1. /\ Running(i) /\ slot' = i + 1
      /\ UNCHANGED <<pack, phase, pc, tb, walk, cache, hits, alive, first_tb, started>>
  BY DEF TriggerInsnCb, configVars, pointVars
<1>2. PICK f \in Faults : f = tb.trig[i]
  BY <1>1, TriggerRuns
<1>3. /\ f # NULL /\ pack[f].trigger = pc /\ walk = FaultNumber /\ phase = "insn"
      /\ slot <= i /\ slot \in Nat /\ i \in Nat
  BY <1>1, <1>2, TriggerRuns DEF Faults
<1>4. PICK n \in Nat : n = hitcounter[f]
  BY DEF IInv, TypeOK, FaultTypes
<1>5. /\ hitcounter' = [hitcounter EXCEPT ![f] = IF n # 0 THEN n - 1 ELSE 0]
      /\ \/ n = 1 /\ inject_fault(f, req_singlestep, {trignum[f]})
         \/ n = 2 /\ flush' /\ UNCHANGED <<lifetime, trignum, live_faults, live_faults_number, injected>>
         \/ /\ n \notin {1, 2}
            /\ UNCHANGED <<lifetime, trignum, live_faults, live_faults_number, flush, injected>>
  BY <1>2, <1>4 DEF TriggerInsnCb
<1>6. /\ hitcounter'[f] = (IF n # 0 THEN n - 1 ELSE 0)
      /\ \A g \in Faults \ {f} : hitcounter'[g] = hitcounter[g]
  BY <1>4, <1>5 DEF IInv, TypeOK, FaultTypes
<1>7. ~(walk < FaultNumber) /\ f < walk
  BY <1>3, SizeAssumption DEF Faults
<1>8. n # 0 => ~Injected(f) /\ i = f /\ pack[f].hitcounter # 0
  <2>1. n # 0 => ~Injected(f) /\ pack[f].hitcounter # 0
    BY <1>4 DEF TimedInv, FaultsSound
  <2>2. ~Injected(f) => f = i
    BY <1>2, <1>3 DEF TimedInv, RunTimed, BlockTimed
  <2>3. QED
    BY <2>1, <2>2
<1>9. /\ \A a \in Addr : cache[a] # NULL =>
           \A j \in Faults : /\ cache[a].trig[j] \in Faults \cup {NULL}
                             /\ cache[a].live[j] \in Faults \cup {NULL}
      /\ \A j \in Faults : tb.trig[j] \in Faults \cup {NULL} /\ tb.live[j] \in Faults \cup {NULL}
  BY <1>3, CachedBlock DEF Block, Callbacks
<1>10. CASE n = 1 /\ inject_fault(f, req_singlestep, {trignum[f]})
  <2> DEFINE req == req_singlestep
             cleared == {trignum[f]}
  <2>1. inject_fault(f, req, cleared) /\ n = 1
    BY <1>10
  <2>2. ~Injected(f) /\ i = f /\ hitcounter'[f] = 0 /\ pack[f].hitcounter # 0
    BY <1>6, <1>8, <2>1
  <2> HIDE DEF req, cleared
  <2>3. FaultsSound'
    BY <1>1, <1>6, <1>7, <2>1, <2>2, InjectFaultsSound
  <2>4. /\ Injected(f)'
        /\ \A g \in Faults \ {f} : /\ injected'[g] = injected[g] /\ trignum'[g] = trignum[g]
                                   /\ (Injected(g)' <=> Injected(g))
        /\ flush => flush'
        /\ lifetime[f] # 0 => flush'
        /\ lifetime[f] = 0 => live_faults' = live_faults
    BY <2>1, <2>2, InjectTimed
  <2>5. ASSUME NEW b, BlockTimed(b),
               \A j \in Faults : b.trig[j] \in Faults \cup {NULL} /\ b.live[j] \in Faults \cup {NULL}
        PROVE  BlockTimed(b)'
    <3>1. ASSUME NEW j \in Faults, b.trig[j] # NULL, injected'[b.trig[j]] = -1
          PROVE  b.trig[j] = j
      <4>1. PICK g \in Faults : g = b.trig[j]
        BY <2>5, <3>1
      <4>2. ~Injected(g)
        BY <2>4, <3>1, <4>1 DEF Injected
      <4>3. QED
        BY <2>5, <3>1, <4>1, <4>2 DEF BlockTimed
    <3>2. ASSUME NEW j \in Faults, b.live[j] # NULL
          PROVE  injected'[b.live[j]] # -1 /\ trignum'[b.live[j]] = j
      <4>1. PICK g \in Faults : g = b.live[j]
        BY <2>5, <3>2
      <4>2. Injected(g) /\ trignum[g] = j
        BY <2>5, <3>2, <4>1 DEF BlockTimed
      <4>3. g # f
        BY <2>2, <4>2
      <4>4. QED
        BY <2>4, <4>1, <4>2, <4>3 DEF Injected
    <3>3. QED
      BY <1>1, <2>5, <3>1, <3>2 DEF BlockTimed, Injected
  <2>6. \A g \in Faults : hitcounter'[g] = 1 => hitcounter[g] = 1 /\ g # f
    BY <1>6, <2>2
  <2>7. CacheTimed'
    <3>1. SUFFICES ASSUME NEW a \in Addr, cache[a] # NULL
                   PROVE  /\ cache[a].first = a
                          /\ BlockTimed(cache[a])'
                          /\ ~flush' =>
                               /\ started => cache[a].counted
                               /\ \A j \in Faults :
                                    /\ cache[a].trig[j] # NULL /\ hitcounter'[cache[a].trig[j]] = 1 =>
                                         cache[a].first = cache[a].last
                                    /\ live_faults'[j] # NULL => cache[a].live[j] = live_faults'[j]
      BY <1>1 DEF CacheTimed
    <3>2. BlockTimed(cache[a])' /\ cache[a].first = a
      BY <1>1, <1>9, <2>5, <3>1 DEF TimedInv, CacheTimed
    <3>3. ASSUME ~flush'
          PROVE  /\ started => cache[a].counted
                 /\ \A j \in Faults :
                      /\ cache[a].trig[j] # NULL /\ hitcounter'[cache[a].trig[j]] = 1 =>
                           cache[a].first = cache[a].last
                      /\ live_faults'[j] # NULL => cache[a].live[j] = live_faults'[j]
      BY <1>9, <2>4, <2>6, <3>1, <3>3 DEF TimedInv, CacheTimed
    <3>4. QED
      BY <3>2, <3>3
  <2>8. RunTimed'
    <3>1. BlockTimed(tb)'
      BY <1>1, <1>3, <1>9, <2>5 DEF TimedInv, RunTimed
    <3>2. tb.first = tb.last
      BY <1>1, <1>2, <1>3, <1>4, <2>1, LastHitIsSingle DEF Running
    <3>3. pc \in tb.first .. tb.last /\ (first_tb => tb.counted)
      BY <1>3 DEF TimedInv, RunTimed
    <3>4. QED
      BY <1>1, <3>1, <3>2, <3>3 DEF RunTimed
  <2>9. QED
    BY <1>1, <2>3, <2>7, <2>8 DEF TimedInv
<1>11. CASE /\ n # 1 /\ (n = 2 => flush') /\ (flush => flush')
            /\ UNCHANGED <<lifetime, trignum, live_faults, live_faults_number, injected>>
  <2>1. InjectedFaults' = InjectedFaults /\ \A g \in Faults : Injected(g)' <=> Injected(g)
    BY <1>11 DEF InjectedFaults, Injected
  <2>2. \A g \in Faults : hitcounter'[g] = 0 <=> hitcounter[g] = 0
    BY <1>4, <1>6, <1>11
  <2>3. FaultsSound'
    <3>1. ASSUME NEW g \in Faults
          PROVE  /\ Injected(g)' => hitcounter'[g] = 0 /\ g < walk'
                 /\ ~Injected(g)' => /\ trignum'[g] = g /\ lifetime'[g] = pack'[g].lifetime
                                     /\ alive'[g] = 0
                                     /\ pack'[g].hitcounter # 0 => hitcounter'[g] # 0
                 /\ pack'[g].hitcounter = 0 =>
                      /\ hitcounter'[g] = 0
                      /\ Injected(g)' <=> pack'[g].type = "INSTRUCTION" /\ g < walk'
                      /\ Injected(g)' => injected'[g] = 0
                 /\ walk' < FaultNumber => hits'[g] = 0
      BY <1>1, <1>11, <2>1, <2>2 DEF TimedInv, FaultsSound
    <3>2. /\ \A j \in Faults : live_faults'[j] # NULL => Injected(live_faults[j])'
          /\ live_faults_number' <= Cardinality(InjectedFaults')
      BY <1>11, <2>1 DEF TimedInv, FaultsSound, Injected
    <3>3. QED
      BY <3>1, <3>2 DEF FaultsSound
  <2>4. \A b : BlockTimed(b) => BlockTimed(b)'
    BY <1>1, <1>11, BlockKept
  <2>5. \A g \in Faults : hitcounter'[g] = 1 => hitcounter[g] = 1 \/ (g = f /\ n = 2)
    <3>1. hitcounter'[f] = 1 => n = 2
      BY <1>6
    <3>2. QED
      BY <1>6, <3>1
  <2>6. CacheTimed'
    <3>1. SUFFICES ASSUME NEW a \in Addr, cache[a] # NULL
                   PROVE  /\ cache[a].first = a
                          /\ BlockTimed(cache[a])'
                          /\ ~flush' =>
                               /\ started => cache[a].counted
                               /\ \A j \in Faults :
                                    /\ cache[a].trig[j] # NULL /\ hitcounter'[cache[a].trig[j]] = 1 =>
                                         cache[a].first = cache[a].last
                                    /\ live_faults'[j] # NULL => cache[a].live[j] = live_faults'[j]
      BY <1>1 DEF CacheTimed
    <3>2. BlockTimed(cache[a])' /\ cache[a].first = a
      BY <1>1, <2>4, <3>1 DEF TimedInv, CacheTimed
    <3>3. ASSUME ~flush'
          PROVE  /\ started => cache[a].counted
                 /\ \A j \in Faults :
                      /\ cache[a].trig[j] # NULL /\ hitcounter'[cache[a].trig[j]] = 1 =>
                           cache[a].first = cache[a].last
                      /\ live_faults'[j] # NULL => cache[a].live[j] = live_faults'[j]
      BY <1>9, <1>11, <2>5, <3>1, <3>3 DEF TimedInv, CacheTimed
    <3>4. QED
      BY <3>2, <3>3
  <2>7. RunTimed'
    <3>1. BlockTimed(tb)' /\ pc \in tb.first .. tb.last /\ (first_tb => tb.counted)
          /\ \A j \in Faults : tb.first # tb.last /\ live_faults[j] # NULL => tb.live[j] = live_faults[j]
      BY <1>1, <1>3, <2>4 DEF TimedInv, RunTimed
    <3>2. ASSUME NEW j \in Faults, tb.trig[j] # NULL, hitcounter'[tb.trig[j]] = 1
          PROVE  \/ tb.first = tb.last
                 \/ pack[tb.trig[j]].trigger < pc
                 \/ pack[tb.trig[j]].trigger = pc /\ j < i + 1
      <4>1. PICK g \in Faults : g = tb.trig[j]
        BY <1>9, <3>2
      <4>2. CASE hitcounter[g] = 1
        <5>1. \/ tb.first = tb.last
              \/ pack[g].trigger < pc
              \/ pack[g].trigger = pc /\ j < slot
          BY <1>3, <3>2, <4>1, <4>2 DEF TimedInv, RunTimed
        <5>2. j < slot => j < i + 1
          BY <1>3 DEF Faults
        <5>3. QED
          BY <4>1, <5>1, <5>2
      <4>3. CASE g = f /\ n = 2
        <5>1. BlockTimed(tb)
          BY <1>3 DEF TimedInv, RunTimed
        <5>2. ~Injected(f) /\ i = f
          BY <1>8, <4>3
        <5>3. j = f
          BY <3>2, <4>1, <4>3, <5>1, <5>2 DEF BlockTimed
        <5>4. QED
          BY <1>3, <4>1, <4>3, <5>2, <5>3
      <4>4. QED
        BY <2>5, <3>2, <4>1, <4>2, <4>3
    <3>3. QED
      BY <1>1, <1>11, <3>1, <3>2 DEF RunTimed
  <2>8. QED
    BY <1>1, <2>3, <2>6, <2>7 DEF TimedInv
<1>12. CASE n = 1
  BY <1>5, <1>10, <1>12
<1>13. CASE n # 1
  BY <1>5, <1>11, <1>13
<1>14. QED
  BY <1>12, <1>13

LEMMA TbExecCbTimed ==
  ASSUME IInv, TimedInv, NEW i \in Faults, TbExecCb(i)
  PROVE  TimedInv'
<1>1. /\ Running(FaultNumber + i) /\ slot' = FaultNumber + i + 1
      /\ UNCHANGED <<pack, hitcounter, trignum, live_faults_number, phase, pc, tb, walk, cache,
                     hits, injected, alive, first_tb, started>>
      /\ flush => flush'
  BY DEF TbExecCb, configVars, pointVars, history
<1>2. slot \in Nat /\ slot <= FaultNumber + i /\ phase = "insn" /\ FaultNumber + i \in Nat
  BY <1>1, PendingSlot
<1>3. PICK f \in Faults : f = tb.live[i]
  BY <1>1, RunningLifetime
<1>4. /\ \A g \in Faults \ {f} : lifetime'[g] = lifetime[g]
      /\ \A j \in Faults : live_faults'[j] = live_faults[j] \/ live_faults'[j] = NULL
  BY <1>3 DEF TbExecCb, IInv, TypeOK, FaultTypes, Callbacks
<1>5. Injected(f)
  <2>1. f # NULL
    BY NotNull DEF Faults
  <2>2. QED
    BY <1>2, <1>3, <2>1 DEF TimedInv, RunTimed, BlockTimed
<1>6. InjectedFaults' = InjectedFaults /\ \A g \in Faults : Injected(g)' <=> Injected(g)
  BY <1>1 DEF InjectedFaults, Injected
<1>7. FaultsSound'
  <2>1. ASSUME NEW g \in Faults
        PROVE  /\ Injected(g)' => hitcounter'[g] = 0 /\ g < walk'
               /\ ~Injected(g)' => /\ trignum'[g] = g /\ lifetime'[g] = pack'[g].lifetime
                                   /\ alive'[g] = 0
                                   /\ pack'[g].hitcounter # 0 => hitcounter'[g] # 0
               /\ pack'[g].hitcounter = 0 =>
                    /\ hitcounter'[g] = 0
                    /\ Injected(g)' <=> pack'[g].type = "INSTRUCTION" /\ g < walk'
                    /\ Injected(g)' => injected'[g] = 0
               /\ walk' < FaultNumber => hits'[g] = 0
    BY <1>1, <1>4, <1>5, <1>6 DEF TimedInv, FaultsSound
  <2>2. /\ \A j \in Faults : live_faults'[j] # NULL => Injected(live_faults[j])'
        /\ live_faults_number' <= Cardinality(InjectedFaults')
    BY <1>1, <1>4, <1>6 DEF TimedInv, FaultsSound, Injected
  <2>3. QED
    BY <2>1, <2>2 DEF FaultsSound
<1>8. \A b : BlockTimed(b) => BlockTimed(b)'
  BY <1>1, BlockKept
<1>9. CacheTimed'
  BY <1>1, <1>4, <1>8 DEF TimedInv, CacheTimed
<1>10. RunTimed'
  <2>1. \A j \in Faults : j < slot => j < slot'
    BY <1>1, <1>2 DEF Faults
  <2>2. QED
    BY <1>1, <1>2, <1>4, <1>8, <2>1 DEF TimedInv, RunTimed
<1>11. QED
  BY <1>1, <1>7, <1>9, <1>10 DEF TimedInv

-----------------------------------------------------------------------------
LEMMA NextTimed == IInv /\ TimedInv /\ [Next]_vars => TimedInv'
<1> SUFFICES ASSUME IInv, TimedInv, [Next]_vars PROVE TimedInv'
  OBVIOUS
<1>1. CASE Translate
  BY <1>1, TranslateBeforeStartTimed, TranslateFirstTimed, TranslateNextTimed,
     HandleFirstTbTimed, CheckTbFaultedTimed, EndTranslationTimed DEF Translate
<1>2. CASE Execute
  BY <1>2, FlushTimed, EnterUncountedTimed, EnterCountedTimed, MaxReachedTimed,
     TriggerInsnCbTimed, TbExecCbTimed, TbExecEndCbTimed, NextInsnTimed, LeaveBlockTimed
  DEF Execute
<1>3. CASE Wake \/ Terminated \/ UNCHANGED vars
  BY <1>3, StutterTimed DEF Terminated
<1>4. QED
  BY <1>1, <1>2, <1>3 DEF Next

LEMMA Timed == Spec => []TimedInv
<1>1. Init => TimedInv
  BY InitTimed
<1>2. IInv /\ TimedInv /\ [Next]_vars => TimedInv'
  BY NextTimed
<1>3. QED
  BY <1>1, <1>2, Inductive, PTL DEF Spec

(* The last hit of a trigger is always evaluated in a block of a single     *)
(* instruction: trigger_insn_cb and handle_first_tb_fault_insertion request *)
(* single-stepping and a flush one hit ahead, so nothing that was           *)
(* translated together with the trigger runs after the injection.           *)
THEOREM TriggersSingleStepped == Spec => []TriggerBlockIsSingle
<1>1. IInv /\ TimedInv => TriggerBlockIsSingle
  BY LastHitIsSingle DEF TriggerBlockIsSingle
<1>2. QED
  BY <1>1, Inductive, Timed, PTL

-----------------------------------------------------------------------------
(* How long a fault stays.  Its lifetime callback for the current           *)
(* instruction is still to come.                                            *)
LiveDue(f) == phase = "insn" /\ \E i \in Faults :
  live_faults[i] = f /\ tb.live[i] = f /\ slot <= FaultNumber + i

(* The instructions begun since the injection and the lifetime left add up  *)
(* to the lifetime configured, one more while the callback is to come.      *)
AliveExact == \A f \in Faults : Injected(f) /\ pack[f].lifetime # 0 =>
  /\ IsLive(f) <=> lifetime[f] # 0
  /\ alive[f] + lifetime[f] = pack[f].lifetime + (IF LiveDue(f) THEN 1 ELSE 0)

(* A callback that is due is pending: the instruction cannot end before it. *)
LEMMA DueIsPending ==
  ASSUME IInv, NEW f \in Faults, NEW i \in Faults,
         phase = "insn", tb.live[i] = f, slot <= FaultNumber + i
  PROVE  FaultNumber + i \in Pending
<1>1. Cardinality(Ends) \in Nat
  BY PointAssumption, FS_CardinalityType
<1>2. FaultNumber + i \in Slots
  BY <1>1, SizeAssumption DEF Slots, Faults
<1>3. f # NULL
  BY NotNull DEF Faults
<1>4. PICK s \in Slots : s = FaultNumber + i
  BY <1>2
<1>5. s - FaultNumber = i
  BY <1>4, SizeAssumption DEF Faults
<1>6. s - FaultNumber \in Faults /\ tb.live[s - FaultNumber] # NULL
  BY <1>3, <1>5
<1>7. HasCallback(s)
  BY <1>6 DEF HasCallback
<1>8. QED
  BY <1>4, <1>7 DEF Pending

LEMMA NothingDue ==
  ASSUME IInv, Pending = {}, NEW f \in Faults
  PROVE  ~LiveDue(f)
  BY DueIsPending DEF LiveDue

(* Steps that leave the faults and their callbacks alone. *)
LEMMA AliveKept ==
  ASSUME AliveExact, UNCHANGED <<pack, lifetime, live_faults, injected, alive>>,
         \A f \in Faults : LiveDue(f)' <=> LiveDue(f)
  PROVE  AliveExact'
<1>1. \A f \in Faults : (Injected(f)' <=> Injected(f)) /\ (IsLive(f)' <=> IsLive(f))
  BY DEF Injected, IsLive
<1>2. SUFFICES ASSUME NEW f \in Faults, Injected(f), pack[f].lifetime # 0
               PROVE  /\ IsLive(f) <=> lifetime[f] # 0
                      /\ alive[f] + lifetime[f]
                           = pack[f].lifetime + (IF LiveDue(f) THEN 1 ELSE 0)
  BY <1>1 DEF AliveExact
<1>3. QED
  BY <1>2 DEF AliveExact

LEMMA AliveIdle ==
  ASSUME AliveExact, UNCHANGED <<pack, lifetime, live_faults, injected, alive>>,
         phase # "insn", phase' # "insn"
  PROVE  AliveExact'
  BY AliveKept DEF LiveDue

LEMMA TranslateAlive ==
  ASSUME IInv, AliveExact,
         \/ TranslateBeforeStart \/ TranslateFirst \/ TranslateNext \/ EndTranslation
         \/ \E i, item \in Faults : CheckTbFaulted(i, item)
         \/ Flush \/ MaxReached
  PROVE  AliveExact'
<1>1. CASE TranslateNext
  <2>1. UNCHANGED tables
    BY <1>1, TranslateNextKeeps
  <2>2. QED
    BY <1>1, <2>1, AliveIdle
    DEF TranslateNext, Translating, tables, configVars, faultVars, history
<1>2. CASE TranslateBeforeStart
  BY <1>2, AliveIdle DEF TranslateBeforeStart, Translating, configVars, faultVars, history
<1>3. CASE TranslateFirst
  BY <1>3, AliveIdle DEF TranslateFirst, Translating, configVars, faultVars
<1>4. CASE EndTranslation \/ (\E i, item \in Faults : CheckTbFaulted(i, item))
  BY <1>4, AliveIdle DEF EndTranslation, CheckTbFaulted, configVars, faultVars, history
<1>5. CASE Flush \/ MaxReached
  BY <1>5, AliveIdle DEF Flush, MaxReached, Entering, configVars, faultVars, history
<1>6. QED
  BY <1>1, <1>2, <1>3, <1>4, <1>5

LEMMA LeaveBlockAlive ==
  ASSUME IInv, AliveExact, NEW a \in Addr, LeaveBlock(a)
  PROVE  AliveExact'
<1>1. /\ UNCHANGED <<pack, lifetime, live_faults, injected, alive>>
      /\ phase' = "fetch" /\ Pending = {}
  BY DEF LeaveBlock, configVars, faultVars, history
<1>2. \A f \in Faults : ~LiveDue(f) /\ ~LiveDue(f)'
  BY <1>1, NothingDue DEF LiveDue
<1>3. QED
  BY <1>1, <1>2, AliveKept

(* An end point's callback runs after every lifetime callback. *)
LEMMA TbExecEndCbAlive ==
  ASSUME IInv, AliveExact, NEW e \in Ends, TbExecEndCb(e)
  PROVE  AliveExact'
<1> DEFINE s == 2 * FaultNumber + e - 1
<1>1. /\ UNCHANGED <<pack, lifetime, live_faults, injected, alive, tb>>
      /\ slot' = s + 1 /\ Running(s)
  BY DEF TbExecEndCb, configVars, faultVars, history
<1>2. e \in Nat \ {0}
  BY PointAssumption
<1>3. s \in Nat /\ slot \in Nat /\ slot <= s /\ \A r \in Pending : s <= r
  BY <1>1, PendingSlot
<1>4. \A i \in Faults : FaultNumber + i < s
  BY <1>2, SizeAssumption DEF Faults
<1>5. ASSUME NEW f \in Faults PROVE ~LiveDue(f) /\ ~LiveDue(f)'
  <2>1. ASSUME NEW i \in Faults, FaultNumber + i \in Pending PROVE FALSE
    BY <1>2, <1>3, <2>1, SizeAssumption DEF Faults
  <2>2. ~LiveDue(f)
    BY <2>1, DueIsPending DEF LiveDue
  <2>3. \A i \in Faults : ~(slot' <= FaultNumber + i)
    BY <1>1, <1>2, SizeAssumption DEF Faults
  <2>4. QED
    BY <2>2, <2>3 DEF LiveDue
<1>6. QED
  BY <1>1, <1>5, AliveKept

(* The guest begins an instruction: each live fault has its callback on it. *)
LEMMA BeginAlive ==
  ASSUME IInv, TimedInv, AliveExact, UNCHANGED <<pack, lifetime, live_faults, injected>>,
         NEW a, BeginInsn(tb', a), phase' = "insn",
         \A f \in Faults : ~LiveDue(f),
         \A i \in Faults : live_faults[i] # NULL => tb'.live[i] = live_faults[i]
  PROVE  AliveExact'
<1>1. slot' = 0 /\ alive' = [f \in Faults |-> IF IsLive(f) THEN alive[f] + 1 ELSE alive[f]]
  BY DEF BeginInsn
<1>2. \A f \in Faults : f # NULL
  BY NotNull DEF Faults
<1>3. SUFFICES ASSUME NEW f \in Faults, Injected(f), pack[f].lifetime # 0
               PROVE  /\ IsLive(f) <=> lifetime[f] # 0
                      /\ alive'[f] + lifetime[f]
                           = pack[f].lifetime + (IF LiveDue(f)' THEN 1 ELSE 0)
  BY DEF AliveExact, Injected, IsLive
<1>4. LiveDue(f)' <=> IsLive(f)
  <2>1. \A i \in Faults : slot' <= FaultNumber + i
    BY <1>1, SizeAssumption DEF Faults
  <2>2. QED
    BY <1>2, <2>1 DEF LiveDue, IsLive
<1>5. (IsLive(f) <=> lifetime[f] # 0) /\ alive[f] + lifetime[f] = pack[f].lifetime + 0
  BY <1>3 DEF AliveExact
<1>6. alive[f] \in Nat /\ lifetime[f] \in Nat /\ pack[f].lifetime \in Nat
  BY DEF IInv, TypeOK, HistoryTypes, FaultTypes, FaultConf
<1>7. alive'[f] = IF IsLive(f) THEN alive[f] + 1 ELSE alive[f]
  BY <1>1
<1>8. QED
  BY <1>4, <1>5, <1>6, <1>7

LEMMA EnterAlive ==
  ASSUME IInv, TimedInv, AliveExact, EnterUncounted \/ EnterCounted
  PROVE  AliveExact'
<1>1. /\ UNCHANGED <<pack, lifetime, live_faults, injected>>
      /\ phase = "fetch" /\ ~flush /\ cache[pc] # NULL /\ tb' = cache[pc] /\ phase' = "insn"
      /\ BeginInsn(tb', pc)
  BY DEF EnterUncounted, EnterCounted, Entering, configVars, faultVars
<1>2. \A i \in Faults : live_faults[i] # NULL => tb'.live[i] = live_faults[i]
  BY <1>1, CachedBlock DEF TimedInv, CacheTimed
<1>3. \A f \in Faults : ~LiveDue(f)
  BY <1>1 DEF LiveDue
<1>4. QED
  BY <1>1, <1>2, <1>3, BeginAlive

LEMMA NextInsnAlive ==
  ASSUME IInv, TimedInv, AliveExact, NextInsn
  PROVE  AliveExact'
<1>1. /\ UNCHANGED <<pack, lifetime, live_faults, injected, tb>>
      /\ phase = "insn" /\ phase' = "insn" /\ Pending = {} /\ pc < tb.last
      /\ BeginInsn(tb', pc + 1)
  BY DEF NextInsn, configVars, faultVars
<1>2. tb.first # tb.last
  <2>1. tb.first <= pc /\ tb.first \in Int /\ tb.last \in Int /\ pc \in Int
    BY <1>1, CachedBlock DEF TimedInv, RunTimed, Block, Addr
  <2>2. QED
    BY <1>1, <2>1
<1>3. \A i \in Faults : live_faults[i] # NULL => tb'.live[i] = live_faults[i]
  BY <1>1, <1>2 DEF TimedInv, RunTimed
<1>4. QED
  BY <1>1, <1>3, NothingDue, BeginAlive

(* Injecting f gives it its whole lifetime, and concerns no other fault. *)
LEMMA InjectAlive ==
  ASSUME IInv, TimedInv, AliveExact, NEW f \in Faults, ~Injected(f),
         NEW req, NEW cleared, inject_fault(f, req, cleared),
         UNCHANGED <<pack, alive>>, ~LiveDue(f)',
         \A g \in Faults \ {f} : LiveDue(g)' <=> LiveDue(g)
  PROVE  AliveExact'
<1>1. /\ Injected(f)' /\ lifetime' = lifetime
      /\ \A g \in Faults \ {f} : Injected(g)' <=> Injected(g)
      /\ IF lifetime[f] # 0
         THEN /\ live_faults_number \in Faults
              /\ live_faults[live_faults_number] = NULL
              /\ live_faults' = [live_faults EXCEPT ![live_faults_number] = f]
         ELSE live_faults' = live_faults
  BY InjectTimed
<1>2. live_faults \in [Faults -> Faults \cup {NULL}] /\ \A g \in Faults : g # NULL
  BY NotNull DEF IInv, TypeOK, FaultTypes, Callbacks, Faults
<1>3. \A i \in Faults : live_faults[i] # f
  BY <1>2 DEF TimedInv, FaultsSound
<1>4. ASSUME NEW g \in Faults \ {f} PROVE IsLive(g)' <=> IsLive(g)
  <2>1. g # NULL /\ g # f
    BY <1>2
  <2>2. CASE lifetime[f] # 0
    BY <1>1, <1>2, <2>1, <2>2 DEF IsLive
  <2>3. CASE lifetime[f] = 0
    BY <1>1, <2>3 DEF IsLive
  <2>4. QED
    BY <2>2, <2>3
<1>5. IsLive(f)' <=> lifetime[f] # 0
  <2>1. CASE lifetime[f] # 0
    <3>1. live_faults'[live_faults_number] = f
      BY <1>1, <1>2, <2>1
    <3>2. QED
      BY <1>1, <2>1, <3>1 DEF IsLive
  <2>2. CASE lifetime[f] = 0
    BY <1>1, <1>3, <2>2 DEF IsLive
  <2>3. QED
    BY <2>1, <2>2
<1>6. alive[f] = 0 /\ lifetime[f] = pack[f].lifetime /\ pack[f].lifetime \in Nat
  BY DEF TimedInv, FaultsSound, IInv, TypeOK, FaultTypes, FaultConf
<1>7. SUFFICES ASSUME NEW g \in Faults, Injected(g)', pack[g].lifetime # 0
               PROVE  /\ IsLive(g)' <=> lifetime[g] # 0
                      /\ alive[g] + lifetime[g]
                           = pack[g].lifetime + (IF LiveDue(g)' THEN 1 ELSE 0)
  BY <1>1 DEF AliveExact
<1>8. CASE g = f
  <2>1. alive[g] + lifetime[g] = pack[g].lifetime + 0
    BY <1>6, <1>8
  <2>2. QED
    BY <1>5, <1>8, <2>1
<1>9. CASE g # f
  BY <1>1, <1>4, <1>7, <1>9 DEF AliveExact
<1>10. QED
  BY <1>8, <1>9

LEMMA HandleFirstTbAlive ==
  ASSUME IInv, TimedInv, AliveExact, NEW f \in Faults, HandleFirstTb(f)
  PROVE  AliveExact'
<1>1. /\ phase = "first" /\ phase' # "insn" /\ walk = f
      /\ UNCHANGED <<pack, alive>>
  BY DEF HandleFirstTb, configVars
<1>2. \A g \in Faults : ~LiveDue(g) /\ ~LiveDue(g)'
  BY <1>1 DEF LiveDue
<1>3. ~Injected(f)
  <2>1. ~(f < walk)
    BY <1>1 DEF Faults
  <2>2. QED
    BY <2>1 DEF TimedInv, FaultsSound
<1>4. CASE inject_fault(f, AddReq(req_singlestep), {trignum[f], NewTrignum(f)})
  <2> DEFINE req == AddReq(req_singlestep)
             cleared == {trignum[f], NewTrignum(f)}
  <2>1. inject_fault(f, req, cleared)
    BY <1>4
  <2> HIDE DEF req, cleared
  <2>2. QED
    BY <1>1, <1>2, <1>3, <2>1, InjectAlive
<1>5. CASE UNCHANGED <<lifetime, live_faults, injected>>
  BY <1>1, <1>2, <1>5, AliveKept
<1>6. QED
  BY <1>4, <1>5 DEF HandleFirstTb

LEMMA TriggerInsnCbAlive ==
  ASSUME IInv, TimedInv, AliveExact, NEW i \in Faults, TriggerInsnCb(i)
  PROVE  AliveExact'
<1>1. /\ Running(i) /\ slot' = i + 1
      /\ UNCHANGED <<pack, phase, tb, alive>>
  BY DEF TriggerInsnCb, configVars
<1>2. PICK f \in Faults : f = tb.trig[i]
  BY <1>1, TriggerRuns
<1>3. slot <= i /\ slot \in Nat /\ phase = "insn"
  BY <1>1, TriggerRuns
<1>4. \A j \in Faults : slot <= FaultNumber + j /\ slot' <= FaultNumber + j
  BY <1>1, <1>3, SizeAssumption DEF Faults
<1>5. CASE hitcounter[f] = 1 /\ inject_fault(f, req_singlestep, {trignum[f]})
  <2> DEFINE req == req_singlestep
             cleared == {trignum[f]}
  <2>1. inject_fault(f, req, cleared)
    BY <1>5
  <2> HIDE DEF req, cleared
  <2>2. ~Injected(f)
    BY <1>5 DEF TimedInv, FaultsSound
  <2>3. \A j \in Faults : tb.live[j] # f
    <3>1. f # NULL
      BY NotNull DEF Faults
    <3>2. QED
      BY <1>3, <2>2, <3>1 DEF TimedInv, RunTimed, BlockTimed
  <2>4. ~LiveDue(f)'
    BY <1>1, <2>3 DEF LiveDue
  <2>5. ASSUME NEW g \in Faults \ {f} PROVE LiveDue(g)' <=> LiveDue(g)
    <3>1. live_faults \in [Faults -> Faults \cup {NULL}] /\ g # NULL
      BY NotNull DEF IInv, TypeOK, FaultTypes, Callbacks, Faults
    <3>2. \A j \in Faults : live_faults'[j] = g <=> live_faults[j] = g
      BY <2>1, <2>2, <3>1, InjectTimed
    <3>3. QED
      BY <1>1, <1>3, <1>4, <3>2 DEF LiveDue
  <2>6. QED
    BY <1>1, <2>1, <2>2, <2>4, <2>5, InjectAlive
<1>6. CASE UNCHANGED <<lifetime, live_faults, injected>>
  <2>1. \A g \in Faults : LiveDue(g)' <=> LiveDue(g)
    BY <1>1, <1>3, <1>4, <1>6 DEF LiveDue
  <2>2. QED
    BY <1>1, <1>6, <2>1, AliveKept
<1>7. QED
  BY <1>2, <1>5, <1>6 DEF TriggerInsnCb

(* tb_exec_cb takes one from the lifetime of a fault that is live, and      *)
(* leaves a fault that ran out alone.                                       *)
LEMMA TbExecCbAlive ==
  ASSUME IInv, TimedInv, AliveExact, NEW i \in Faults, TbExecCb(i)
  PROVE  AliveExact'
<1> DEFINE s == FaultNumber + i
<1>1. /\ Running(s) /\ slot' = s + 1
      /\ UNCHANGED <<pack, phase, tb, injected, alive, trignum>>
  BY DEF TbExecCb, configVars, history
<1>2. slot \in Nat /\ slot <= s /\ s \in Nat /\ phase = "insn" /\ \A r \in Pending : s <= r
  BY <1>1, PendingSlot
<1>3. PICK f \in Faults : f = tb.live[i] /\ (lifetime[f] # 0 => live_faults[trignum[f]] = f)
  BY <1>1, RunningLifetime
<1>4. f # NULL /\ Injected(f) /\ trignum[f] = i
  <2>1. f # NULL
    BY NotNull DEF Faults
  <2>2. QED
    BY <1>2, <1>3, <2>1 DEF TimedInv, RunTimed, BlockTimed
<1>5. PICK n \in Nat : n = lifetime[f]
  BY DEF IInv, TypeOK, FaultTypes
<1>6. /\ lifetime' = [lifetime EXCEPT ![f] = IF n # 0 THEN n - 1 ELSE 0]
      /\ live_faults' = IF n = 1 THEN [live_faults EXCEPT ![i] = NULL] ELSE live_faults
  BY <1>3, <1>4, <1>5 DEF TbExecCb
<1>7. /\ lifetime \in [Faults -> Nat] /\ live_faults \in [Faults -> Faults \cup {NULL}]
      /\ alive[f] \in Nat /\ pack[f].lifetime \in Nat /\ \A g \in Faults : g # NULL
  <2>1. lifetime \in [Faults -> Nat] /\ live_faults \in [Faults -> Faults \cup {NULL}]
    BY DEF IInv, TypeOK, FaultTypes, Callbacks
  <2>2. alive[f] \in Nat /\ pack[f].lifetime \in Nat
    BY DEF IInv, TypeOK, HistoryTypes, FaultTypes, FaultConf
  <2>3. \A g \in Faults : g # NULL
    BY NotNull DEF Faults
  <2>4. QED
    BY <2>1, <2>2, <2>3
<1>8. \A j \in Faults : live_faults[j] = f => j = i
  BY <1>4 DEF IInv, LiveTable
<1>9. ASSUME NEW g \in Faults \ {f} PROVE LiveDue(g)' <=> LiveDue(g)
  <2>1. \A j \in Faults : live_faults'[j] = g /\ tb.live[j] = g <=> live_faults[j] = g /\ tb.live[j] = g
    BY <1>3, <1>6, <1>7
  <2>2. ASSUME NEW j \in Faults, tb.live[j] = g
        PROVE  slot <= FaultNumber + j <=> slot' <= FaultNumber + j
    <3>1. j # i /\ j \in Int /\ FaultNumber \in Int /\ i \in Int
      BY <1>3, <2>2, SizeAssumption DEF Faults
    <3>2. slot <= FaultNumber + j => s <= FaultNumber + j
      BY <1>2, <2>2, DueIsPending
    <3>3. QED
      BY <1>1, <1>2, <3>1, <3>2
  <2>3. QED
    BY <1>1, <2>1, <2>2 DEF LiveDue
<1>10. ASSUME NEW g \in Faults \ {f} PROVE IsLive(g)' <=> IsLive(g)
  <2>1. n = 1 => live_faults[i] = f \/ live_faults[i] = NULL
    BY <1>3, <1>4, <1>5
  <2>2. \A j \in Faults : live_faults'[j] = g <=> live_faults[j] = g
    BY <1>6, <1>7, <2>1
  <2>3. QED
    BY <2>2 DEF IsLive
<1>11. ~LiveDue(f)'
  <2>1. ~(slot' <= FaultNumber + i)
    BY <1>1, <1>2
  <2>2. \A j \in Faults : live_faults'[j] = f => j = i
    BY <1>4, <1>6, <1>7, <1>8
  <2>3. QED
    BY <2>1, <2>2 DEF LiveDue
<1>12. ASSUME pack[f].lifetime # 0
       PROVE  /\ IsLive(f)' <=> lifetime'[f] # 0
              /\ alive[f] + lifetime'[f] = pack[f].lifetime
  <2>1. /\ IsLive(f) <=> n # 0
        /\ alive[f] + n = pack[f].lifetime + (IF LiveDue(f) THEN 1 ELSE 0)
    BY <1>4, <1>5, <1>12 DEF AliveExact
  <2>2. CASE n = 0
    <3>1. ~LiveDue(f) /\ lifetime'[f] = 0 /\ ~IsLive(f) /\ live_faults' = live_faults
      BY <1>6, <1>7, <2>1, <2>2 DEF LiveDue, IsLive
    <3>2. QED
      BY <1>7, <2>1, <2>2, <3>1 DEF IsLive
  <2>3. CASE n # 0
    <3>1. live_faults[i] = f
      BY <1>3, <1>4, <1>5, <2>3
    <3>2. LiveDue(f)
      BY <1>2, <1>3, <3>1 DEF LiveDue
    <3>3. lifetime'[f] = n - 1 /\ alive[f] + n = pack[f].lifetime + 1
      BY <1>6, <1>7, <2>1, <2>3, <3>2
    <3>4. IsLive(f)' <=> n # 1
      BY <1>4, <1>6, <1>7, <1>8, <3>1 DEF IsLive
    <3>5. QED
      BY <1>7, <3>3, <3>4
  <2>4. QED
    BY <2>2, <2>3
<1>13. \A g \in Faults \ {f} : lifetime'[g] = lifetime[g]
  BY <1>6, <1>7
<1> HIDE DEF s
<1>14. SUFFICES ASSUME NEW g \in Faults, Injected(g), pack[g].lifetime # 0
                PROVE  /\ IsLive(g)' <=> lifetime'[g] # 0
                       /\ alive[g] + lifetime'[g]
                            = pack[g].lifetime + (IF LiveDue(g)' THEN 1 ELSE 0)
  BY <1>1 DEF AliveExact, Injected
<1>15. CASE g = f
  <2>1. alive[f] + lifetime'[f] = pack[f].lifetime + 0
    BY <1>7, <1>12, <1>14, <1>15
  <2>2. QED
    BY <1>11, <1>12, <1>14, <1>15, <2>1
<1>16. CASE g # f
  BY <1>9, <1>10, <1>13, <1>14, <1>16 DEF AliveExact
<1>17. QED
  BY <1>15, <1>16

LEMMA StutterAlive == AliveExact /\ (Wake \/ UNCHANGED vars) => AliveExact'
  BY AliveKept
  DEF Wake, vars, configVars, faultVars, guestVars, history, LiveDue

LEMMA NextAlive == IInv /\ TimedInv /\ AliveExact /\ [Next]_vars => AliveExact'
<1> SUFFICES ASSUME IInv, TimedInv, AliveExact, [Next]_vars PROVE AliveExact'
  OBVIOUS
<1>1. CASE Translate
  BY <1>1, TranslateAlive, HandleFirstTbAlive DEF Translate
<1>2. CASE Execute
  BY <1>2, TranslateAlive, EnterAlive, TriggerInsnCbAlive, TbExecCbAlive,
     TbExecEndCbAlive, NextInsnAlive, LeaveBlockAlive DEF Execute
<1>3. CASE Wake \/ Terminated \/ UNCHANGED vars
  BY <1>3, StutterAlive DEF Terminated
<1>4. QED
  BY <1>1, <1>2, <1>3 DEF Next

LEMMA Alive == Spec => []AliveExact
<1>1. Init => AliveExact
  BY DEF Init, AliveExact, Injected
<1>2. IInv /\ TimedInv /\ AliveExact /\ [Next]_vars => AliveExact'
  BY NextAlive
<1>3. QED
  BY <1>1, <1>2, Inductive, Timed, PTL DEF Spec

(* A fault stays for exactly its lifetime: it is reverted when that many    *)
(* instructions have begun since its injection.  Each of them had the       *)
(* callback of tb_exec_cb, because an injection flushes the blocks          *)
(* translated without it and the injecting block has one instruction.       *)
THEOREM LifespansExact == Spec => []LifespanExact
<1>1. IInv /\ AliveExact => LifespanExact
  <2>1. SUFFICES ASSUME IInv, AliveExact, phase = "fetch", NEW f \in Faults,
                        Injected(f), pack[f].lifetime > 0
                 PROVE  IF Reverted(f) THEN alive[f] = pack[f].lifetime
                        ELSE alive[f] < pack[f].lifetime
    BY DEF LifespanExact
  <2>2. alive[f] \in Nat /\ lifetime[f] \in Nat /\ pack[f].lifetime \in Nat
    BY <2>1 DEF IInv, TypeOK, HistoryTypes, FaultTypes, FaultConf
  <2>3. ~LiveDue(f)
    BY <2>1 DEF LiveDue
  <2>4. (IsLive(f) <=> lifetime[f] # 0) /\ alive[f] + lifetime[f] = pack[f].lifetime + 0
    BY <2>1, <2>2, <2>3 DEF AliveExact
  <2>5. Reverted(f) <=> ~IsLive(f)
    BY <2>1 DEF Reverted
  <2>6. QED
    BY <2>2, <2>4, <2>5
<1>2. QED
  BY <1>1, Inductive, Alive, PTL

-----------------------------------------------------------------------------
(* When a fault is injected.  While it is not, block b registers its        *)
(* trigger callback, in the entry of its own number.                        *)
Covers(b, f) ==
  b.counted /\ ~Injected(f) /\ pack[f].trigger \in b.first .. b.last => b.trig[f] = f

(* The trigger's callback for the current instruction is still to come. *)
TrigDue(f) == phase = "insn" /\ tb.counted /\ pack[f].trigger = pc /\ slot <= f

(* Outside of the first block, the executions of the trigger and the hits   *)
(* left to count add up to the counter configured, one more while the       *)
(* callback is to come; the injection took place at the execution named.    *)
TriggerExact(f) ==
  /\ ~Injected(f) => fault_trigger_addresses[f] = pack[f].trigger
  /\ OutsideFirstBlock(f) =>
       /\ \A a \in Addr : cache[a] # NULL => Covers(cache[a], f)
       /\ phase = "insn" => Covers(tb, f)
       /\ pack[f].hitcounter # 0 =>
            IF Injected(f)
            THEN injected[f] = pack[f].hitcounter /\ hits[f] >= pack[f].hitcounter
            ELSE hits[f] + hitcounter[f] = pack[f].hitcounter + (IF TrigDue(f) THEN 1 ELSE 0)

LoseNoTrigger == DistinctTriggers /\ NoEarlyLiveFault

TriggersExact ==
  /\ ~first_tb => first_block = NULL
  /\ LoseNoTrigger => \A f \in Faults : TriggerExact(f)

LEMMA CoversKept ==
  ASSUME NEW f, UNCHANGED pack, Injected(f) => Injected(f)'
  PROVE  \A b : Covers(b, f) => Covers(b, f)'
  BY DEF Covers

(* A trigger that is due is pending: the instruction cannot end before its  *)
(* callback, nor a lifetime or end point callback come first.               *)
LEMMA DueTriggerPending ==
  ASSUME IInv, TimedInv, NEW f \in Faults, ~Injected(f), Covers(tb, f), TrigDue(f)
  PROVE  f \in Pending
<1>1. tb.trig[f] = f
  BY DEF TrigDue, Covers, TimedInv, RunTimed
<1>2. f # NULL
  BY NotNull DEF Faults
<1>3. Cardinality(Ends) \in Nat
  BY PointAssumption, FS_CardinalityType
<1>4. f \in Slots
  BY <1>3, SizeAssumption DEF Slots, Faults
<1>5. HasCallback(f)
  BY <1>1, <1>2 DEF HasCallback, TrigDue
<1>6. slot \in Int /\ f \in Int /\ slot <= f
  BY DEF IInv, TypeOK, GuestTypes, Faults, TrigDue
<1>7. QED
  BY <1>4, <1>5, <1>6 DEF Pending

(* Steps that leave the triggers and the blocks alone. *)
triggerState == <<pack, hitcounter, fault_trigger_addresses, injected, cache, first_block, hits>>

LEMMA TriggerKept ==
  ASSUME NEW f \in Faults, TriggerExact(f), UNCHANGED triggerState,
         phase' = "insn" => phase = "insn" /\ tb' = tb,
         OutsideFirstBlock(f) /\ ~Injected(f) => (TrigDue(f)' <=> TrigDue(f))
  PROVE  TriggerExact(f)'
<1>1. /\ UNCHANGED <<pack, hitcounter, fault_trigger_addresses, injected, cache,
                     first_block, hits>>
      /\ (Injected(f)' <=> Injected(f)) /\ (OutsideFirstBlock(f)' <=> OutsideFirstBlock(f))
  BY DEF triggerState, Injected, OutsideFirstBlock
<1>2. \A b : Covers(b, f) => Covers(b, f)'
  BY <1>1, CoversKept
<1>3. OutsideFirstBlock(f) => /\ \A a \in Addr : cache'[a] # NULL => Covers(cache[a], f)'
                              /\ phase' = "insn" => Covers(tb, f)'
  BY <1>1, <1>2 DEF TriggerExact
<1>4. OutsideFirstBlock(f) /\ pack[f].hitcounter # 0 =>
        IF Injected(f)
        THEN injected[f] = pack[f].hitcounter /\ hits[f] >= pack[f].hitcounter
        ELSE hits[f] + hitcounter[f] = pack[f].hitcounter + (IF TrigDue(f)' THEN 1 ELSE 0)
  BY DEF TriggerExact
<1>5. ~Injected(f) => fault_trigger_addresses[f] = pack[f].trigger
  BY DEF TriggerExact
<1>6. QED
  BY <1>1, <1>3, <1>4, <1>5 DEF TriggerExact

LEMMA TriggersKept ==
  ASSUME TriggersExact, UNCHANGED <<triggerState, first_tb>>,
         phase' = "insn" => phase = "insn" /\ tb' = tb,
         \A f \in Faults : LoseNoTrigger /\ OutsideFirstBlock(f) /\ ~Injected(f) =>
                             (TrigDue(f)' <=> TrigDue(f))
  PROVE  TriggersExact'
<1>1. LoseNoTrigger' <=> LoseNoTrigger
  BY DEF triggerState, LoseNoTrigger, DistinctTriggers, NoEarlyLiveFault
<1>2. first_block' = first_block
  BY DEF triggerState
<1>3. ASSUME LoseNoTrigger, NEW f \in Faults PROVE TriggerExact(f)'
  BY <1>3, TriggerKept DEF TriggersExact
<1>4. QED
  BY <1>1, <1>2, <1>3 DEF TriggersExact

LEMMA TriggersIdle ==
  ASSUME TriggersExact, UNCHANGED <<triggerState, first_tb>>, phase # "insn", phase' # "insn"
  PROVE  TriggersExact'
  BY TriggersKept DEF TrigDue

(* No trigger is due once no callback, or only a later one, is pending. *)
LEMMA NoTriggerDue ==
  ASSUME IInv, TimedInv, TriggersExact, LoseNoTrigger,
         NEW f \in Faults, OutsideFirstBlock(f), ~Injected(f), f \notin Pending
  PROVE  ~TrigDue(f)
  BY DueTriggerPending DEF TriggersExact, TriggerExact, TrigDue

LEMMA IdleTriggers ==
  ASSUME IInv, TimedInv, TriggersExact,
         \/ EndTranslation \/ MaxReached
         \/ \E i, item \in Faults : CheckTbFaulted(i, item)
         \/ \E a \in Addr : LeaveBlock(a)
  PROVE  TriggersExact'
<1>1. CASE EndTranslation \/ (\E i, item \in Faults : CheckTbFaulted(i, item))
  BY <1>1, TriggersIdle
  DEF EndTranslation, CheckTbFaulted, triggerState, configVars, faultVars, pointVars, history
<1>2. CASE MaxReached
  BY <1>2, TriggersIdle
  DEF MaxReached, Entering, triggerState, configVars, faultVars, history
<1>3. ASSUME NEW a \in Addr, LeaveBlock(a) PROVE TriggersExact'
  <2>1. /\ UNCHANGED <<triggerState, first_tb>> /\ phase' = "fetch" /\ Pending = {}
    BY <1>3 DEF LeaveBlock, triggerState, configVars, faultVars, pointVars, history
  <2>2. \A f \in Faults : LoseNoTrigger /\ OutsideFirstBlock(f) /\ ~Injected(f) =>
                            (TrigDue(f)' <=> TrigDue(f))
    BY <2>1, NoTriggerDue DEF TrigDue
  <2>3. QED
    BY <2>1, <2>2, TriggersKept
<1>4. QED
  BY <1>1, <1>2, <1>3

LEMMA TbExecCbTriggers ==
  ASSUME IInv, TimedInv, TriggersExact, NEW i \in Faults, TbExecCb(i)
  PROVE  TriggersExact'
<1>1. /\ UNCHANGED <<triggerState, first_tb, phase, tb>>
      /\ Running(FaultNumber + i) /\ slot' = FaultNumber + i + 1
  BY DEF TbExecCb, triggerState, configVars, faultVars, pointVars, history
<1>2. \A r \in Pending : FaultNumber + i <= r
  BY <1>1 DEF Running
<1>3. \A f \in Faults : f \notin Pending /\ ~(slot' <= f)
  BY <1>1, <1>2, SizeAssumption DEF Faults
<1>4. \A f \in Faults : LoseNoTrigger /\ OutsideFirstBlock(f) /\ ~Injected(f) =>
                          (TrigDue(f)' <=> TrigDue(f))
  BY <1>3, NoTriggerDue DEF TrigDue
<1>5. QED
  BY <1>1, <1>4, TriggersKept

LEMMA TbExecEndCbTriggers ==
  ASSUME IInv, TimedInv, TriggersExact, NEW e \in Ends, TbExecEndCb(e)
  PROVE  TriggersExact'
<1> DEFINE s == 2 * FaultNumber + e - 1
<1>1. /\ UNCHANGED <<triggerState, first_tb, tb>> /\ Running(s) /\ slot' = s + 1
      /\ phase' \in {"done", phase}
  BY DEF TbExecEndCb, triggerState, configVars, faultVars, history
<1>2. e \in Nat \ {0}
  BY PointAssumption
<1>3. phase = "insn" /\ \A r \in Pending : s <= r
  BY <1>1 DEF Running
<1>4. \A f \in Faults : f \notin Pending /\ ~(slot' <= f)
  BY <1>1, <1>2, <1>3, SizeAssumption DEF Faults
<1>5. \A f \in Faults : LoseNoTrigger /\ OutsideFirstBlock(f) /\ ~Injected(f) =>
                          (TrigDue(f)' <=> TrigDue(f))
  BY <1>4, NoTriggerDue DEF TrigDue
<1>6. QED
  BY <1>1, <1>3, <1>5, TriggersKept

LEMMA FlushTriggers == TriggersExact /\ Flush => TriggersExact'
<1> SUFFICES ASSUME TriggersExact, Flush PROVE TriggersExact'
  OBVIOUS
<1>1. /\ UNCHANGED <<pack, hitcounter, fault_trigger_addresses, injected, first_block, hits,
                     first_tb>>
      /\ cache' = NoBlocks /\ phase = "fetch" /\ phase' = "fetch"
  BY DEF Flush, configVars, faultVars, pointVars, history
<1>2. LoseNoTrigger' <=> LoseNoTrigger
  BY <1>1 DEF LoseNoTrigger, DistinctTriggers, NoEarlyLiveFault
<1>3. ASSUME LoseNoTrigger, NEW f \in Faults PROVE TriggerExact(f)'
  <2>1. TriggerExact(f) /\ ~TrigDue(f) /\ ~TrigDue(f)'
    BY <1>1, <1>3 DEF TriggersExact, TrigDue
  <2>2. (Injected(f)' <=> Injected(f)) /\ (OutsideFirstBlock(f)' <=> OutsideFirstBlock(f))
    BY <1>1 DEF Injected, OutsideFirstBlock
  <2>3. \A a \in Addr : cache'[a] = NULL
    BY <1>1 DEF NoBlocks
  <2>4. QED
    BY <1>1, <2>1, <2>2, <2>3 DEF TriggerExact
<1>4. QED
  BY <1>1, <1>2, <1>3 DEF TriggersExact

(* A translation adds one block and evaluates no trigger. *)
LEMMA BlockAdded ==
  ASSUME IInv, TriggersExact,
         UNCHANGED <<pack, hitcounter, fault_trigger_addresses, injected, hits>>,
         NEW b, cache' = [cache EXCEPT ![pc] = b], phase # "insn", phase' # "insn",
         ~first_tb' => first_block' = NULL,
         \A f \in Faults : OutsideFirstBlock(f)' => OutsideFirstBlock(f),
         \A f \in Faults : LoseNoTrigger /\ OutsideFirstBlock(f)' => Covers(b, f)
  PROVE  TriggersExact'
<1>1. LoseNoTrigger' <=> LoseNoTrigger
  BY DEF LoseNoTrigger, DistinctTriggers, NoEarlyLiveFault
<1>2. ASSUME LoseNoTrigger, NEW f \in Faults PROVE TriggerExact(f)'
  <2>1. TriggerExact(f) /\ ~TrigDue(f) /\ ~TrigDue(f)'
    BY <1>2 DEF TriggersExact, TrigDue
  <2>2. Injected(f)' <=> Injected(f)
    BY DEF Injected
  <2>3. \A c : Covers(c, f) => Covers(c, f)'
    BY <2>2, CoversKept
  <2>4. ASSUME OutsideFirstBlock(f)', NEW a \in Addr, cache'[a] # NULL
        PROVE  Covers(cache[a], f)'
    <3>1. cache \in [Addr -> Block \cup {NULL}] /\ pc \in Addr
      BY DEF IInv, TypeOK, GuestTypes
    <3>2. PICK c : c = cache'[a]
      OBVIOUS
    <3>3. CASE a = pc
      <4>1. c = b
        BY <3>1, <3>2, <3>3
      <4>2. Covers(c, f)'
        BY <1>2, <2>3, <2>4, <4>1
      <4>3. QED
        BY <3>2, <4>2 DEF Covers
    <3>4. CASE a # pc
      <4>1. c = cache[a] /\ c # NULL
        BY <2>4, <3>1, <3>2, <3>4
      <4>2. Covers(cache[a], f)
        BY <2>1, <2>4, <4>1 DEF TriggerExact
      <4>3. Covers(c, f)'
        BY <2>3, <4>1, <4>2
      <4>4. QED
        BY <3>2, <4>3 DEF Covers
    <3>5. QED
      BY <3>3, <3>4
  <2>5. QED
    BY <2>1, <2>2, <2>4 DEF TriggerExact
<1>3. QED
  BY <1>1, <1>2 DEF TriggersExact

LEMMA TranslateTriggers ==
  ASSUME IInv, TimedInv, TriggersExact, TranslateBeforeStart \/ TranslateFirst \/ TranslateNext
  PROVE  TriggersExact'
<1>1. CASE TranslateBeforeStart
  <2>1. PICK b : b = NewBlock(FALSE, StartPoint.address \in pc .. BlockEnd(pc), NoCallback, NoCallback)
    OBVIOUS
  <2>2. ~b.counted
    BY <2>1 DEF NewBlock
  <2>3. /\ UNCHANGED <<pack, hitcounter, fault_trigger_addresses, injected, hits, first_tb,
                       first_block>>
        /\ cache' = [cache EXCEPT ![pc] = b] /\ phase # "insn" /\ phase' # "insn"
    BY <1>1, <2>1
    DEF TranslateBeforeStart, Translating, configVars, faultVars, pointVars, history
  <2>4. QED
    BY <2>2, <2>3, BlockAdded DEF TriggersExact, OutsideFirstBlock, Covers
<1>2. CASE TranslateFirst
  <2>1. PICK b : b = NewBlock(TRUE, FALSE, NoCallback, NoCallback)
    OBVIOUS
  <2>2. b.first = pc /\ b.last = BlockEnd(pc)
    BY <2>1 DEF NewBlock
  <2>3. /\ UNCHANGED <<pack, hitcounter, fault_trigger_addresses, injected, hits>>
        /\ cache' = [cache EXCEPT ![pc] = b] /\ phase # "insn" /\ phase' # "insn"
        /\ ~first_tb /\ first_tb' /\ first_block' = [first |-> pc, last |-> BlockEnd(pc)]
    BY <1>2, <2>1 DEF TranslateFirst, Translating, configVars, faultVars
  <2>4. first_block = NULL
    BY <2>3 DEF TriggersExact
  <2>5. first_block' # NULL
    <3>1. pc \in Addr
      BY DEF IInv, TypeOK, GuestTypes
    <3>2. BlockEnd(pc) \in Addr
      BY <3>1, BlockEndType
    <3>3. first_block' \in Extent
      BY <2>3, <3>1, <3>2 DEF Extent
    <3>4. QED
      BY <3>3, NullAssumption
  <2>6. \A f \in Faults : OutsideFirstBlock(f)' => pack[f].trigger \notin b.first .. b.last
    BY <2>2, <2>3, <2>5 DEF OutsideFirstBlock
  <2>7. QED
    BY <2>3, <2>4, <2>6, BlockAdded DEF OutsideFirstBlock, Covers
<1>3. CASE TranslateNext
  <2>1. PICK trig : trig = TriggerCallbacks(pc, BlockEnd(pc))
    OBVIOUS
  <2>2. PICK b : b = NewBlock(TRUE, FALSE, trig, LiveCallbacks)
    OBVIOUS
  <2>3. b.first = pc /\ b.last = BlockEnd(pc) /\ b.trig = trig
    BY <2>2 DEF NewBlock
  <2>4. /\ UNCHANGED <<pack, hitcounter, fault_trigger_addresses, injected, hits, first_tb,
                       first_block>>
        /\ cache' = [cache EXCEPT ![pc] = b] /\ phase # "insn" /\ phase' # "insn"
    BY <1>3, <2>1, <2>2
    DEF TranslateNext, Translating, configVars, pointVars, history
  <2>5. ASSUME LoseNoTrigger, NEW f \in Faults, ~Injected(f),
               pack[f].trigger \in b.first .. b.last
        PROVE  trig[f] = f
    <3>1. fault_trigger_addresses[f] = pack[f].trigger /\ trignum[f] = f
      BY <2>5 DEF TriggersExact, TriggerExact, TimedInv, FaultsSound
    <3>2. trig[f] = FaultByTrigger(pack[f].trigger, f)
      BY <2>1, <2>3, <2>5, <3>1 DEF TriggerCallbacks
    <3>3. {g \in Faults : pack[g].trigger = pack[f].trigger /\ trignum[g] = f} = {f}
      BY <2>5, <3>1 DEF LoseNoTrigger, DistinctTriggers
    <3>4. QED
      BY <3>2, <3>3 DEF FaultByTrigger, Faults
  <2>6. QED
    BY <2>3, <2>4, <2>5, BlockAdded DEF OutsideFirstBlock, Covers, TriggersExact
<1>4. QED
  BY <1>1, <1>2, <1>3

(* An instruction begins: its trigger, if a fault waits for one there, is   *)
(* counted and due.                                                         *)
LEMMA BeginTriggers ==
  ASSUME IInv, TimedInv, TriggersExact,
         UNCHANGED <<pack, hitcounter, fault_trigger_addresses, injected, cache, first_block,
                     first_tb>>,
         NEW b \in Block, NEW a \in Addr, BeginInsn(b, a), phase' = "insn", tb' = b,
         \A f \in Faults : LoseNoTrigger /\ OutsideFirstBlock(f) =>
                             Covers(b, f) /\ (~Injected(f) => ~TrigDue(f))
  PROVE  TriggersExact'
<1>1. LoseNoTrigger' <=> LoseNoTrigger
  BY DEF LoseNoTrigger, DistinctTriggers, NoEarlyLiveFault
<1>2. pc' = a /\ slot' = 0
      /\ hits' = [f \in Faults |->
           IF b.counted /\ pack[f].trigger = a /\ hits[f] <= pack[f].hitcounter
           THEN hits[f] + 1 ELSE hits[f]]
  BY DEF BeginInsn
<1>3. ASSUME LoseNoTrigger, NEW f \in Faults PROVE TriggerExact(f)'
  <2>1. TriggerExact(f)
    BY <1>3 DEF TriggersExact
  <2>2. (Injected(f)' <=> Injected(f)) /\ (OutsideFirstBlock(f)' <=> OutsideFirstBlock(f))
    BY DEF Injected, OutsideFirstBlock
  <2>3. \A c : Covers(c, f) => Covers(c, f)'
    BY <2>2, CoversKept
  <2>4. OutsideFirstBlock(f) => Covers(tb, f)'
    <3>1. OutsideFirstBlock(f) => Covers(b, f)'
      BY <1>3, <2>3
    <3>2. QED
      BY <3>1 DEF Covers
  <2>5. TrigDue(f)' <=> b.counted /\ pack[f].trigger = a
    BY <1>2 DEF TrigDue, Faults
  <2>6. /\ hits[f] \in Nat /\ hitcounter[f] \in Nat /\ pack[f].hitcounter \in Nat
        /\ b.counted \in BOOLEAN
    BY DEF IInv, TypeOK, FaultTypes, HistoryTypes, FaultConf, Block
  <2>7. hits'[f] = IF b.counted /\ pack[f].trigger = a /\ hits[f] <= pack[f].hitcounter
                   THEN hits[f] + 1 ELSE hits[f]
    BY <1>2
  <2>8. ASSUME OutsideFirstBlock(f), pack[f].hitcounter # 0
        PROVE  IF Injected(f)
               THEN injected[f] = pack[f].hitcounter /\ hits'[f] >= pack[f].hitcounter
               ELSE hits'[f] + hitcounter[f] =
                      pack[f].hitcounter + (IF TrigDue(f)' THEN 1 ELSE 0)
    <3>1. CASE Injected(f)
      BY <2>1, <2>6, <2>7, <2>8, <3>1 DEF TriggerExact
    <3>2. CASE ~Injected(f)
      <4>1. hits[f] + hitcounter[f] = pack[f].hitcounter + 0
        BY <1>3, <2>1, <2>6, <2>8, <3>2 DEF TriggerExact
      <4>2. hitcounter[f] # 0
        BY <2>8, <3>2 DEF TimedInv, FaultsSound
      <4>3. hits[f] <= pack[f].hitcounter
        BY <2>6, <4>1, <4>2
      <4>4. CASE b.counted /\ pack[f].trigger = a
        BY <2>5, <2>6, <2>7, <3>2, <4>1, <4>3, <4>4
      <4>5. CASE ~(b.counted /\ pack[f].trigger = a)
        BY <2>5, <2>6, <2>7, <3>2, <4>1, <4>5
      <4>6. QED
        BY <4>4, <4>5
    <3>3. QED
      BY <3>1, <3>2
  <2>9. OutsideFirstBlock(f) => \A c \in Addr : cache'[c] # NULL => Covers(cache[c], f)'
    BY <2>1, <2>3 DEF TriggerExact
  <2>10. QED
    BY <2>1, <2>2, <2>4, <2>8, <2>9 DEF TriggerExact
<1>4. QED
  BY <1>1, <1>3 DEF TriggersExact

LEMMA EnterTriggers ==
  ASSUME IInv, TimedInv, TriggersExact, EnterUncounted \/ EnterCounted
  PROVE  TriggersExact'
<1>1. /\ UNCHANGED <<pack, hitcounter, fault_trigger_addresses, injected, cache, first_block,
                     first_tb>>
      /\ phase = "fetch" /\ phase' = "insn" /\ cache[pc] # NULL
      /\ tb' = cache[pc] /\ BeginInsn(cache[pc], pc)
  BY DEF EnterUncounted, EnterCounted, Entering, configVars, faultVars
<1>2. PICK b \in Block : b = cache[pc]
  BY <1>1, CachedBlock
<1>3. pc \in Addr
  BY CachedBlock
<1>4. \A f \in Faults : LoseNoTrigger /\ OutsideFirstBlock(f) => Covers(b, f) /\ ~TrigDue(f)
  BY <1>1, <1>2, <1>3 DEF TriggersExact, TriggerExact, TrigDue
<1>5. BeginInsn(b, pc) /\ tb' = b
  BY <1>1, <1>2
<1>6. QED
  BY <1>1, <1>3, <1>4, <1>5, BeginTriggers

LEMMA NextInsnTriggers == IInv /\ TimedInv /\ TriggersExact /\ NextInsn => TriggersExact'
<1> SUFFICES ASSUME IInv, TimedInv, TriggersExact, NextInsn PROVE TriggersExact'
  OBVIOUS
<1>1. /\ UNCHANGED <<pack, hitcounter, fault_trigger_addresses, injected, cache, first_block,
                     first_tb, tb>>
      /\ phase = "insn" /\ phase' = "insn" /\ Pending = {} /\ pc < tb.last
      /\ BeginInsn(tb, pc + 1)
  BY DEF NextInsn, configVars, faultVars, pointVars
<1>2. PICK b \in Block : b = tb
  BY <1>1, CachedBlock
<1>3. pc + 1 \in Addr
  BY <1>1, <1>2, CachedBlock, SizeAssumption DEF Block, Addr
<1>4. \A f \in Faults : LoseNoTrigger /\ OutsideFirstBlock(f) =>
                          Covers(b, f) /\ (~Injected(f) => ~TrigDue(f))
  BY <1>1, <1>2, NoTriggerDue DEF TriggersExact, TriggerExact
<1>5. BeginInsn(b, pc + 1) /\ tb' = b
  BY <1>1, <1>2
<1>6. QED
  BY <1>1, <1>3, <1>4, <1>5, BeginTriggers

(* An injection at its time clears the entry of its own fault alone.        *)
LEMMA InjectTriggers ==
  ASSUME IInv, TimedInv, TriggersExact, NEW f \in Faults, ~Injected(f),
         NEW req, NEW cleared, inject_fault(f, req, cleared),
         UNCHANGED <<pack, hits, cache, first_block, first_tb, tb>>,
         phase' = "insn" => phase = "insn",
         LoseNoTrigger => cleared = {f},
         \A g \in Faults \ {f} : hitcounter'[g] = hitcounter[g],
         LoseNoTrigger /\ OutsideFirstBlock(f) /\ pack[f].hitcounter # 0 =>
           hits[f] = pack[f].hitcounter,
         \A g \in Faults \ {f} : LoseNoTrigger /\ OutsideFirstBlock(g) /\ ~Injected(g) =>
                                   (TrigDue(g)' <=> TrigDue(g))
  PROVE  TriggersExact'
<1>1. LoseNoTrigger' <=> LoseNoTrigger
  BY DEF LoseNoTrigger, DistinctTriggers, NoEarlyLiveFault
<1>2. /\ injected'[f] = hits[f] /\ Injected(f)'
      /\ \A g \in Faults \ {f} : injected'[g] = injected[g] /\ (Injected(g)' <=> Injected(g))
  BY InjectTimed
<1>3. \A i \in Faults : fault_trigger_addresses'[i] =
                          IF i \in cleared THEN 0 ELSE fault_trigger_addresses[i]
  BY DEF inject_fault
<1>4. ASSUME LoseNoTrigger, NEW g \in Faults PROVE TriggerExact(g)'
  <2>1. TriggerExact(g) /\ (OutsideFirstBlock(g)' <=> OutsideFirstBlock(g))
    BY <1>4 DEF TriggersExact, OutsideFirstBlock
  <2>2. Injected(g) => Injected(g)'
    BY <1>2
  <2>3. \A c : Covers(c, g) => Covers(c, g)'
    BY <2>2, CoversKept
  <2>4. OutsideFirstBlock(g) => /\ \A a \in Addr : cache'[a] # NULL => Covers(cache[a], g)'
                                /\ phase' = "insn" => Covers(tb, g)'
    BY <2>1, <2>3 DEF TriggerExact
  <2>5. CASE g = f
    <3>1. Injected(g)' /\ injected'[g] = hits[g]
      BY <1>2, <2>5
    <3>2. OutsideFirstBlock(g) /\ pack[g].hitcounter # 0 =>
            injected'[g] = pack[g].hitcounter /\ hits[g] >= pack[g].hitcounter
      <4>1. pack[f].hitcounter \in Nat
        BY DEF IInv, TypeOK, FaultTypes, FaultConf
      <4>2. QED
        BY <1>4, <2>5, <3>1, <4>1
    <3>3. QED
      BY <2>1, <2>4, <3>1, <3>2 DEF TriggerExact
  <2>6. CASE g # f
    <3>1. /\ injected'[g] = injected[g] /\ (Injected(g)' <=> Injected(g))
          /\ hitcounter'[g] = hitcounter[g]
          /\ fault_trigger_addresses'[g] = fault_trigger_addresses[g]
      BY <1>2, <1>3, <1>4, <2>6
    <3>2. ASSUME OutsideFirstBlock(g), pack[g].hitcounter # 0
          PROVE  IF Injected(g)
                 THEN injected'[g] = pack[g].hitcounter /\ hits[g] >= pack[g].hitcounter
                 ELSE hits[g] + hitcounter[g] =
                        pack[g].hitcounter + (IF TrigDue(g)' THEN 1 ELSE 0)
      BY <1>4, <2>1, <2>6, <3>1, <3>2 DEF TriggerExact
    <3>3. QED
      BY <2>1, <2>4, <3>1, <3>2 DEF TriggerExact
  <2>7. QED
    BY <2>5, <2>6
<1>5. QED
  BY <1>1, <1>4 DEF TriggersExact

(* handle_first_tb_fault_insertion clears the entry that trignum names      *)
(* after the injection: it is still the fault's own, unless the fault has   *)
(* become a live one.                                                       *)
LEMMA HandleFirstTbTriggers ==
  ASSUME IInv, TimedInv, TriggersExact, NEW f \in Faults, HandleFirstTb(f)
  PROVE  TriggersExact'
<1>1. /\ UNCHANGED <<pack, hitcounter, hits, cache, first_block, first_tb, tb>>
      /\ phase = "first" /\ phase' # "insn" /\ walk = f
  BY DEF HandleFirstTb, configVars, pointVars
<1>2. ~Injected(f)
  BY <1>1 DEF TimedInv, FaultsSound, Faults
<1>3. CASE /\ hitcounter[f] = 0 /\ pack[f].type = "INSTRUCTION"
           /\ inject_fault(f, AddReq(req_singlestep), {trignum[f], NewTrignum(f)})
  <2>1. pack[f].hitcounter = 0 /\ trignum[f] = f /\ lifetime[f] = pack[f].lifetime
    BY <1>2, <1>3 DEF TimedInv, FaultsSound
  <2>2. pack[f].lifetime \in Nat
    BY DEF IInv, TypeOK, FaultTypes, FaultConf
  <2>3. LoseNoTrigger => {trignum[f], NewTrignum(f)} = {f}
    BY <1>3, <2>1, <2>2 DEF LoseNoTrigger, NoEarlyLiveFault, NewTrignum
  <2> DEFINE req == AddReq(req_singlestep)
             cleared == {trignum[f], NewTrignum(f)}
  <2>4. inject_fault(f, req, cleared) /\ (LoseNoTrigger => cleared = {f})
    BY <1>3, <2>3
  <2> HIDE DEF req, cleared
  <2>5. \A g \in Faults : ~TrigDue(g) /\ ~TrigDue(g)'
    BY <1>1 DEF TrigDue
  <2>6. QED
    BY <1>1, <1>2, <2>1, <2>4, <2>5, InjectTriggers
<1>4. CASE UNCHANGED <<fault_trigger_addresses, injected>>
  BY <1>1, <1>4, TriggersIdle DEF triggerState
<1>5. QED
  BY <1>3, <1>4 DEF HandleFirstTb

LEMMA TriggerInsnCbTriggers ==
  ASSUME IInv, TimedInv, TriggersExact, NEW i \in Faults, TriggerInsnCb(i)
  PROVE  TriggersExact'
<1>1. /\ Running(i) /\ slot' = i + 1
      /\ UNCHANGED <<pack, hits, cache, first_block, first_tb, tb, pc, phase, walk>>
  BY DEF TriggerInsnCb, configVars, pointVars
<1>2. PICK f \in Faults : f = tb.trig[i]
  BY <1>1, TriggerRuns
<1>3. /\ f # NULL /\ pack[f].trigger = pc /\ walk = FaultNumber /\ phase = "insn"
      /\ slot <= i /\ slot \in Nat /\ i \in Nat
  BY <1>1, <1>2, TriggerRuns DEF Faults
<1>4. PICK n \in Nat : n = hitcounter[f]
  BY DEF IInv, TypeOK, FaultTypes
<1>5. /\ hitcounter' = [hitcounter EXCEPT ![f] = IF n # 0 THEN n - 1 ELSE 0]
      /\ \/ n = 1 /\ inject_fault(f, req_singlestep, {trignum[f]})
         \/ n # 1 /\ UNCHANGED <<fault_trigger_addresses, injected>>
  BY <1>2, <1>4 DEF TriggerInsnCb
<1>6. /\ hitcounter'[f] = (IF n # 0 THEN n - 1 ELSE 0)
      /\ \A g \in Faults \ {f} : hitcounter'[g] = hitcounter[g]
  BY <1>4, <1>5 DEF IInv, TypeOK, FaultTypes
<1>7. n # 0 => ~Injected(f) /\ i = f /\ pack[f].hitcounter # 0 /\ trignum[f] = f
  <2>1. n # 0 => ~Injected(f) /\ pack[f].hitcounter # 0
    BY <1>4 DEF TimedInv, FaultsSound
  <2>2. ~Injected(f) => f = i /\ trignum[f] = f
    BY <1>2, <1>3 DEF TimedInv, FaultsSound, RunTimed, BlockTimed
  <2>3. QED
    BY <2>1, <2>2
<1>8. n # 0 => TrigDue(f) /\ ~TrigDue(f)'
  <2>1. walk # 0
    BY <1>3, SizeAssumption
  <2>2. tb.counted
    BY <1>3, <2>1 DEF IInv, PhaseSound, TimedInv, RunTimed
  <2>3. QED
    BY <1>1, <1>3, <1>7, <2>2 DEF TrigDue
(* Another fault's trigger is at another address, so it is not due here. *)
<1>9. \A g \in Faults \ {f} : LoseNoTrigger => ~TrigDue(g) /\ ~TrigDue(g)'
  BY <1>1, <1>3 DEF TrigDue, LoseNoTrigger, DistinctTriggers
<1>10. CASE n = 1 /\ inject_fault(f, req_singlestep, {trignum[f]})
  <2>1. ASSUME LoseNoTrigger, OutsideFirstBlock(f) PROVE hits[f] = pack[f].hitcounter
    <3>1. hits[f] \in Nat /\ pack[f].hitcounter \in Nat
      BY DEF IInv, TypeOK, FaultTypes, HistoryTypes, FaultConf
    <3>2. hits[f] + hitcounter[f] = pack[f].hitcounter + 1
      BY <1>7, <1>8, <1>10, <2>1 DEF TriggersExact, TriggerExact
    <3>3. QED
      BY <1>4, <1>10, <3>1, <3>2
  <2> DEFINE req == req_singlestep
             cleared == {trignum[f]}
  <2>2. inject_fault(f, req, cleared) /\ cleared = {f} /\ ~Injected(f)
    BY <1>7, <1>10
  <2> HIDE DEF req, cleared
  <2>3. QED
    BY <1>1, <1>6, <1>9, <2>1, <2>2, InjectTriggers
<1>11. CASE n # 1 /\ UNCHANGED <<fault_trigger_addresses, injected>>
  <2>1. LoseNoTrigger' <=> LoseNoTrigger
    BY <1>1 DEF LoseNoTrigger, DistinctTriggers, NoEarlyLiveFault
  <2>2. ASSUME LoseNoTrigger, NEW g \in Faults PROVE TriggerExact(g)'
    <3>1. TriggerExact(g)
      BY <2>2 DEF TriggersExact
    <3>2. (Injected(g)' <=> Injected(g)) /\ (OutsideFirstBlock(g)' <=> OutsideFirstBlock(g))
      BY <1>1, <1>11 DEF Injected, OutsideFirstBlock
    <3>3. \A c : Covers(c, g) => Covers(c, g)'
      BY <1>1, <3>2, CoversKept
    <3>4. OutsideFirstBlock(g) => /\ \A a \in Addr : cache'[a] # NULL => Covers(cache[a], g)'
                                  /\ phase' = "insn" => Covers(tb, g)'
      BY <1>1, <3>1, <3>3 DEF TriggerExact
    <3>5. hits[g] \in Nat /\ hitcounter[g] \in Nat /\ pack[g].hitcounter \in Nat
      BY DEF IInv, TypeOK, FaultTypes, HistoryTypes, FaultConf
    <3>6. ASSUME OutsideFirstBlock(g), pack[g].hitcounter # 0
          PROVE  IF Injected(g)
                 THEN injected[g] = pack[g].hitcounter /\ hits[g] >= pack[g].hitcounter
                 ELSE hits[g] + hitcounter'[g] =
                        pack[g].hitcounter + (IF TrigDue(g)' THEN 1 ELSE 0)
      <4>1. CASE g # f
        BY <1>6, <1>9, <2>2, <3>1, <3>6, <4>1 DEF TriggerExact
      <4>2. CASE g = f /\ n # 0
        BY <1>4, <1>6, <1>7, <1>8, <3>1, <3>5, <3>6, <4>2 DEF TriggerExact
      <4>3. CASE g = f /\ n = 0
        BY <1>4, <3>1, <3>6, <4>3 DEF TriggerExact, TimedInv, FaultsSound
      <4>4. QED
        BY <4>1, <4>2, <4>3
    <3>7. QED
      BY <1>1, <1>11, <3>1, <3>2, <3>4, <3>6 DEF TriggerExact
  <2>3. QED
    BY <1>1, <2>1, <2>2 DEF TriggersExact
<1>12. QED
  BY <1>5, <1>10, <1>11

LEMMA StutterTriggers == TriggersExact /\ (Wake \/ UNCHANGED vars) => TriggersExact'
  BY TriggersKept
  DEF Wake, vars, configVars, faultVars, pointVars, guestVars, history, triggerState, TrigDue

LEMMA NextTriggers == IInv /\ TimedInv /\ TriggersExact /\ [Next]_vars => TriggersExact'
<1> SUFFICES ASSUME IInv, TimedInv, TriggersExact, [Next]_vars PROVE TriggersExact'
  OBVIOUS
<1>1. CASE Translate
  BY <1>1, TranslateTriggers, HandleFirstTbTriggers, IdleTriggers DEF Translate
<1>2. CASE Execute
  BY <1>2, FlushTriggers, EnterTriggers, TriggerInsnCbTriggers, TbExecCbTriggers,
     TbExecEndCbTriggers, NextInsnTriggers, IdleTriggers DEF Execute
<1>3. CASE Wake \/ Terminated \/ UNCHANGED vars
  BY <1>3, StutterTriggers DEF Terminated
<1>4. QED
  BY <1>1, <1>2, <1>3 DEF Next

LEMMA InitTriggers == Init => TriggersExact
<1> SUFFICES ASSUME Init PROVE first_block = NULL /\ \A f \in Faults : TriggerExact(f)
  BY DEF TriggersExact
<1> SUFFICES ASSUME NEW f \in Faults PROVE TriggerExact(f)
  BY DEF Init
<1>1. /\ fault_trigger_addresses[f] = pack[f].trigger /\ ~Injected(f) /\ phase = "fetch"
      /\ \A a \in Addr : cache[a] = NULL
      /\ hits[f] = 0 /\ hitcounter[f] = pack[f].hitcounter /\ first_block = NULL
  BY DEF Init, Injected, NoBlocks
<1>2. pack[f].hitcounter \in Nat
  BY PackAssumption DEF Init, FaultConf
<1>3. QED
  BY <1>1, <1>2 DEF TriggerExact, TrigDue

LEMMA Triggers == Spec => []TriggersExact
<1>1. Init => TriggersExact
  BY InitTriggers
<1>2. IInv /\ TimedInv /\ TriggersExact /\ [Next]_vars => TriggersExact'
  BY NextTriggers
<1>3. QED
  BY <1>1, <1>2, Inductive, Timed, PTL DEF Spec

(* Every fault is injected at the execution of its trigger instruction that *)
(* its counter names, or with counter zero when the first block is          *)
(* translated: trigger_insn_cb counts every execution, because the block    *)
(* that runs it was translated with the fault's callback as long as the     *)
(* trigger vector still holds its address.  The exceptions are the three    *)
(* InjectionOnTime names.                                                   *)
THEOREM InjectionsOnTime == Spec => []InjectionOnTime
<1>1. IInv /\ TimedInv /\ TriggersExact => InjectionOnTime
  <2> SUFFICES ASSUME IInv, TimedInv, TriggersExact, LoseNoTrigger,
                        NEW f \in Faults, OutsideFirstBlock(f)
                 PROVE  OnTime(f)
    BY DEF InjectionOnTime, LoseNoTrigger
  <2>1. PICK n \in Nat : n = pack[f].hitcounter
    BY DEF IInv, TypeOK, FaultTypes, FaultConf
  <2>2. hits[f] \in Nat /\ hitcounter[f] \in Nat /\ walk \in Int /\ f \in Int
    BY DEF IInv, TypeOK, FaultTypes, HistoryTypes, GuestTypes, Faults
  <2>3. CASE n = 0
    <3>1. /\ Injected(f) <=> pack[f].type = "INSTRUCTION" /\ f < walk
          /\ Injected(f) => injected[f] = 0
      BY <2>1, <2>3 DEF TimedInv, FaultsSound
    <3>2. QED
      BY <2>1, <2>2, <2>3, <3>1 DEF OnTime
  <2>4. CASE n # 0
    <3>1. CASE Injected(f)
      BY <2>1, <2>4, <3>1 DEF OnTime, TriggersExact, TriggerExact
    <3>2. CASE ~Injected(f)
      <4>1. hitcounter[f] # 0
        BY <2>1, <2>4, <3>2 DEF TimedInv, FaultsSound
      <4>2. phase = "fetch" => hits[f] + hitcounter[f] = n + 0
        BY <2>1, <2>2, <2>4, <3>2 DEF TriggersExact, TriggerExact, TrigDue
      <4>3. phase = "fetch" => ~(hits[f] >= n)
        BY <2>2, <4>1, <4>2
      <4>4. QED
        BY <2>1, <2>4, <3>2, <4>3 DEF OnTime
    <3>3. QED
      BY <3>1, <3>2
  <2>5. QED
    BY <2>3, <2>4
<1>2. QED
  BY <1>1, Inductive, Timed, Triggers, PTL

(* No fault comes too early, too late or for too long: the two together are *)
(* what an experiment takes for granted of the plugin.                      *)
THEOREM FaultsInTime == Spec => []FaultsOnTime
<1>1. InjectionOnTime /\ LifespanExact => FaultsOnTime
  BY DEF FaultsOnTime
<1>2. QED
  BY <1>1, InjectionsOnTime, LifespansExact, PTL
=============================================================================
