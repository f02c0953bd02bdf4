-------------------------- MODULE HandshakeProofs --------------------------
(***************************************************************************)
(* Proofs about Handshake for every pack, limit, capacity and size, with   *)
(* any failures of QEMU, timeouts and stop signals.                        *)
(***************************************************************************)
EXTENDS Handshake, SequenceTheorems, TLAPS

(* The process of run_qemu tells how far QEMU has come: not started before *)
(* it waits for it, over once it has ended.  Only the worker's join ends a *)
(* worker that is not killed, and only after that.                         *)
ProcessesOrdered ==
  /\ run_qemu \in {"none", "forked", "named"} => qemu = "none"
  /\ run_qemu \in {"ended", "joined"} => qemu \in {"none", "exited"}
  /\ worker = "ended" => run_qemu = "joined"
  /\ run_qemu = "none" => worker \in {"start", "killed"}
  /\ worker = "start" => run_qemu = "none"

LEMMA OrderedInit == Init => ProcessesOrdered
  BY DEF Init, ProcessesOrdered

(* The worker's steps leave QEMU alone; one of them starts run_qemu, one   *)
(* joins it.                                                               *)
LEMMA OrderedWorker == ProcessesOrdered /\ Worker => ProcessesOrdered'
<1> SUFFICES ASSUME ProcessesOrdered, Worker PROVE ProcessesOrdered'
  OBVIOUS
<1> qemu' = qemu
  BY DEF Worker, StartQemu, WorkerOpen, WorkerWrite, WorkerWritten, WorkerBrokenPipe,
         WorkerRead, WorkerEof, PutOutput, WorkerJoin, qemuVars
<1>1. CASE StartQemu
  BY <1>1 DEF StartQemu, ProcessesOrdered
<1>2. CASE WorkerJoin
  BY <1>2 DEF WorkerJoin, Joinable, ProcessesOrdered
<1>3. CASE ~StartQemu /\ ~WorkerJoin
  <2>1. run_qemu' = run_qemu /\ worker # "start" /\ worker' \notin {"start", "ended"}
    BY <1>3 DEF Worker, WorkerOpen, WorkerWrite, WorkerWritten, WorkerBrokenPipe,
                WorkerRead, WorkerEof, PutOutput
  <2>2. worker \notin {"killed"}
    BY <1>3 DEF Worker, WorkerOpen, WorkerWrite, WorkerWritten, WorkerBrokenPipe,
                WorkerRead, WorkerEof, PutOutput
  <2> QED
    BY <2>1, <2>2 DEF ProcessesOrdered
<1> QED
  BY <1>1, <1>2, <1>3

(* run_qemu's steps leave the worker alone.                                *)
LEMMA OrderedRunQemu == ProcessesOrdered /\ RunQemu => ProcessesOrdered'
<1> SUFFICES ASSUME ProcessesOrdered, RunQemu PROVE ProcessesOrdered'
  OBVIOUS
<1>1. CASE NameProcess
  BY <1>1 DEF NameProcess, workerVars, qemuVars, ProcessesOrdered
<1>2. CASE Popen
  BY <1>2 DEF Popen, workerVars, ProcessesOrdered
<1>3. CASE Communicate
  BY <1>3 DEF Communicate, workerVars, qemuVars, ProcessesOrdered
<1> QED
  BY <1>1, <1>2, <1>3 DEF RunQemu

(* The controller's steps and a signal leave run_qemu and QEMU alone, and  *)
(* end no worker but by killing it.                                        *)
LEMMA OrderedController ==
  ProcessesOrdered /\ (Timeout \/ CollectWorker \/ KillWorker \/ \E s \in Signals : StopSignal(s))
    => ProcessesOrdered'
<1> SUFFICES ASSUME ProcessesOrdered,
                    Timeout \/ CollectWorker \/ KillWorker \/ \E s \in Signals : StopSignal(s)
             PROVE  ProcessesOrdered'
  OBVIOUS
<1>1. run_qemu' = run_qemu /\ qemu' = qemu
  BY DEF Timeout, CollectWorker, KillWorker, StopSignal, qemuVars
<1>2. worker' = worker \/ (worker # "ended" /\ worker' = "killed")
      \/ (worker \in {"read", "post", "join"} /\ worker' = "interrupted")
  BY DEF Timeout, CollectWorker, KillWorker, StopSignal, workerVars, WorkerAlive
<1> QED
  BY <1>1, <1>2 DEF ProcessesOrdered

(* The plugin's steps are taken by a QEMU that runs, so run_qemu waits.    *)
LEMMA OrderedPlugin ==
  ProcessesOrdered /\ (Plugin \/ QemuFails \/ GuestEnds \/ HandleAbort) => ProcessesOrdered'
<1> SUFFICES ASSUME ProcessesOrdered, Plugin \/ QemuFails \/ GuestEnds \/ HandleAbort
             PROVE  ProcessesOrdered'
  OBVIOUS
<1>1. run_qemu' = run_qemu /\ worker' = worker
  BY DEF Plugin, PluginInstall, StartGuest, Abort, ParseArgs, ReadoutPipeSize, ReadoutPipe,
         ReadoutControl, QemuSetupConfig, SetupFault,
         register_fault_trigger_addresses, WriteToDataPipe, QemuExits, QemuTerminates,
         QemuFails, GuestEnds, HandleAbort, ReportBegins, PluginComes, workerVars
<1>2. qemu \notin {"none", "exited"}
  BY DEF Plugin, PluginInstall, StartGuest, Abort, ParseArgs, ReadoutPipeSize, ReadoutPipe,
         ReadoutControl, QemuSetupConfig, SetupFault,
         register_fault_trigger_addresses, WriteToDataPipe, QemuExits, QemuTerminates,
         QemuFails, GuestEnds, HandleAbort, ReportBegins
<1> QED
  BY <1>1, <1>2 DEF ProcessesOrdered

LEMMA OrderedStep == ProcessesOrdered /\ [Next]_vars => ProcessesOrdered'
<1> SUFFICES ASSUME ProcessesOrdered, [Next]_vars PROVE ProcessesOrdered'
  OBVIOUS
<1>1. CASE UNCHANGED vars
  BY <1>1 DEF vars, workerVars, qemuVars, ProcessesOrdered
<1>2. CASE Next
  BY <1>2, OrderedWorker, OrderedRunQemu, OrderedController, OrderedPlugin DEF Next, Step
<1> QED
  BY <1>1, <1>2

(* No worker ends before its QEMU, whatever fails and whenever a timeout   *)
(* or a signal comes: the number of workers bounds the number of QEMUs     *)
(* (the joins of python_worker, faultclass.py).                            *)
THEOREM QemuFirst == Spec => []QemuEndsFirst
<1>1. ProcessesOrdered => QemuEndsFirst
  BY DEF ProcessesOrdered, QemuEndsFirst, QemuAlive
<1> QED
  BY <1>1, OrderedInit, OrderedStep, PTL DEF Spec

-----------------------------------------------------------------------------
(* Messages, piece by piece. *)
LEMMA MessagePieces ==
  ASSUME NEW n \in Nat
  PROVE  /\ Parts(n) \in Seq(Piece) /\ Len(Parts(n)) = n
         /\ \A k \in 1 .. n : Parts(n)[k] = Part(k)
         /\ Message(n) \in Seq(Piece) /\ Len(Message(n)) = n + 1
         /\ \A k \in 1 .. n + 1 : Message(n)[k] = IF k = 1 THEN Size(n) ELSE Part(k - 1)
<1>1. \A k \in Nat : Part(k) \in Piece /\ Size(k) \in Piece
  BY DEF Part, Size, Piece
<1>2. Parts(n) \in Seq(Piece) /\ Len(Parts(n)) = n /\ \A k \in 1 .. n : Parts(n)[k] = Part(k)
  BY <1>1, IsASeq DEF Parts
<1>3. <<Size(n)>> \in Seq(Piece) /\ Len(<<Size(n)>>) = 1 /\ <<Size(n)>>[1] = Size(n)
  BY <1>1
<1>4. QED
  BY <1>2, <1>3, ConcatProperties DEF Message

LEMMA PackSize ==
  ASSUME TypeOK
  PROVE  pack \in Seq(FaultValues) /\ pack # <<>> /\ Len(pack) \in Nat \ {0}
         /\ pack[1] \in FaultValues
         /\ ControlSize \in Nat \ {0} /\ max_instruction_count \in Nat
  BY HandshakeAssumption, EmptySeq DEF TypeOK

(* A value that an int can hold is converted to itself. *)
LEMMA ToIntType == \A n \in Nat : ToInt(n) \in Int /\ (n <= IntMax => ToInt(n) = n)
<1>1. SUFFICES ASSUME NEW n \in Nat PROVE ToInt(n) \in Int /\ (n <= IntMax => ToInt(n) = n)
  OBVIOUS
<1>2. PICK q \in Nat : q = 2 * (IntMax + 1) /\ q > 0 /\ q > IntMax
  BY HandshakeAssumption
<1>3. n % q \in Nat /\ (n <= IntMax => n % q = n)
  BY <1>1, <1>2, HandshakeAssumption
<1>4. QED
  BY <1>1, <1>2, <1>3, HandshakeAssumption DEF ToInt

(* The list grows at its front, so that its last element stays. *)
LEMMA AddedFault ==
  ASSUME NEW list \in Seq(FaultValues), NEW f \in FaultValues
  PROVE  /\ add_fault(list, f) \in Seq(FaultValues) /\ add_fault(list, f) # <<>>
         /\ Len(add_fault(list, f)) = Len(list) + 1
         /\ add_fault(list, f)[Len(list) + 1] = IF list = <<>> THEN f ELSE list[Len(list)]
<1>1. <<f>> \in Seq(FaultValues) /\ Len(<<f>>) = 1 /\ <<f>>[1] = f
  OBVIOUS
<1>2. Len(list) \in Nat /\ (list = <<>> <=> Len(list) = 0)
  BY EmptySeq
<1>3. /\ add_fault(list, f) \in Seq(FaultValues)
      /\ Len(add_fault(list, f)) = Len(list) + 1
      /\ \A i \in 1 .. Len(list) + 1 :
           add_fault(list, f)[i] = IF i <= 1 THEN <<f>>[i] ELSE list[i - 1]
  BY <1>1, <1>2, ConcatProperties DEF add_fault
<1>4. QED
  BY <1>1, <1>2, <1>3

-----------------------------------------------------------------------------
(* Type correctness. *)
LEMMA TypesInit == Init => TypeOK
<1> SUFFICES ASSUME Init PROVE TypeOK
  OBVIOUS
<1>1. fifo \in [Fifos -> Seq(Piece)] /\ \A f \in Fifos : Len(fifo[f]) <= PipeCapacity
  BY HandshakeAssumption DEF Init
<1>2. /\ unsent \in Seq(Piece) /\ received \in Seq(Piece) /\ output \in Seq(Seq(Piece))
      /\ left \in Nat /\ incoming \in Seq(Piece)
      /\ tb_counter_max \in Int /\ fault_number \in Nat /\ fault_list \in Seq(FaultValues)
      /\ report \in Seq(Piece) /\ unwritten \in Seq(Piece)
  BY DEF Init
<1>3. QED
  BY <1>1, <1>2 DEF Init, TypeOK, Fifos, WorkerPlaces, QemuPlaces

(* Both sides open the FIFOs in the same order. *)
LEMMA NextFifoType ==
  /\ NextFifo(WorkerOrder, "control") = "config" /\ NextFifo(WorkerOrder, "config") = "data"
  /\ NextFifo(PluginOrder, "control") = "config" /\ NextFifo(PluginOrder, "config") = "data"
  /\ WorkerOrder[3] = "data" /\ PluginOrder[3] = "data"
<1> DEFINE order == <<"control", "config", "data">>
<1>1. WorkerOrder = order /\ PluginOrder = order
  BY DEF WorkerOrder, PluginOrder
<1>2. order[1] = "control" /\ order[2] = "config" /\ order[3] = "data"
  OBVIOUS
<1> HIDE DEF order
<1>3. PICK i : i = CHOOSE j \in 1 .. 2 : order[j] = "control"
  OBVIOUS
<1>4. i = 1
  BY <1>2, <1>3
<1>5. PICK k : k = CHOOSE j \in 1 .. 2 : order[j] = "config"
  OBVIOUS
<1>6. k = 2
  BY <1>2, <1>5
<1>7. NextFifo(order, "control") = "config" /\ NextFifo(order, "config") = "data"
  BY <1>2, <1>3, <1>4, <1>5, <1>6 DEF NextFifo
<1>8. QED
  BY <1>1, <1>2, <1>7

(* What no step but some touches, in groups. *)
streams == <<fifo, unsent, received, incoming, left, report, unwritten>>
settings == <<tb_counter_max, fault_number, fault_list>>

PlaceTypes ==
  /\ w_arrived \subseteq Fifos /\ q_arrived \subseteq Fifos /\ met \subseteq w_arrived \cap q_arrived
  /\ worker \in WorkerPlaces /\ qemu \in QemuPlaces
  /\ w_fifo \in Fifos /\ q_fifo \in Fifos
  /\ run_qemu \in {"none", "forked", "named", "communicate", "ended", "joined"}
  /\ watch \in {"watching", "joining", "failed", "gone"}
  /\ timed_out \in BOOLEAN /\ stop_signal_received \in BOOLEAN
  /\ terminating \in BOOLEAN /\ failed \in BOOLEAN

LEMMA PlaceTypesStep == PlaceTypes /\ [Next]_vars => PlaceTypes'
<1> SUFFICES ASSUME PlaceTypes, [Next]_vars PROVE PlaceTypes'
  OBVIOUS
<1> USE DEF PlaceTypes
<1>1. CASE Worker
  <2>1. CASE StartQemu
    BY <2>1 DEF StartQemu, WorkerComes, controllerVars, qemuVars, WorkerPlaces
  <2>2. CASE WorkerOpen
    BY <2>2, NextFifoType, ZenonT(40) DEF WorkerOpen, WorkerComes, controllerVars, qemuVars, WorkerPlaces, Fifos
  <2>3. CASE ~StartQemu /\ ~WorkerOpen
    <3>1. UNCHANGED <<w_arrived, q_arrived, met, qemu, q_fifo, watch, timed_out,
                      stop_signal_received, terminating, failed>>
      BY <1>1, <2>3 DEF Worker, WorkerWrite, WorkerWritten, WorkerBrokenPipe,
         WorkerRead, WorkerEof, PutOutput, WorkerJoin, controllerVars, qemuVars
    <3>2. worker' \in WorkerPlaces /\ w_fifo' \in Fifos
          /\ run_qemu' \in {"none", "forked", "named", "communicate", "ended", "joined"}
      BY <1>1, <2>3 DEF Worker, WorkerWrite, WorkerWritten, WorkerBrokenPipe,
         WorkerRead, WorkerEof, PutOutput, WorkerJoin, WorkerPlaces, Fifos
    <3>3. QED
      BY <3>1, <3>2
  <2>4. QED
    BY <2>1, <2>2, <2>3
<1>2. CASE RunQemu
  BY <1>2 DEF RunQemu, NameProcess, Popen, Communicate, workerVars, controllerVars, qemuVars,
              QemuPlaces
<1>3. CASE Timeout \/ CollectWorker \/ KillWorker \/ \E s \in Signals : StopSignal(s)
  BY <1>3 DEF Timeout, CollectWorker, KillWorker, StopSignal, workerVars, controllerVars, qemuVars,
              WorkerPlaces, QemuAlive
<1>4. CASE Plugin \/ QemuFails \/ GuestEnds \/ HandleAbort
  <2>1. CASE PluginInstall
    BY <2>1 DEF PluginInstall, PluginComes, workerVars, controllerVars, QemuPlaces
  <2>2. CASE ParseArgs
    BY <2>2, NextFifoType, ZenonT(40) DEF ParseArgs, PluginComes, workerVars, controllerVars, QemuPlaces, Fifos
  <2>3. CASE ~PluginInstall /\ ~ParseArgs
    <3>1. UNCHANGED <<w_arrived, q_arrived, met, worker, w_fifo, run_qemu, watch, timed_out,
                      stop_signal_received, terminating>>
      BY <1>4, <2>3 DEF Plugin, ReadoutPipeSize, ReadoutPipe, ReadoutControl, QemuSetupConfig,
         SetupFault, register_fault_trigger_addresses, WriteToDataPipe, QemuExits, QemuTerminates,
         QemuFails, GuestEnds, HandleAbort, ReportBegins, workerVars, controllerVars
    <3>2. qemu' \in QemuPlaces /\ q_fifo' \in Fifos /\ failed' \in BOOLEAN
      BY <1>4, <2>3 DEF Plugin, ReadoutPipeSize, ReadoutPipe, ReadoutControl, QemuSetupConfig,
         SetupFault, register_fault_trigger_addresses, WriteToDataPipe, QemuExits, QemuTerminates,
         QemuFails, GuestEnds, HandleAbort, ReportBegins, StartGuest, Abort, QemuPlaces, Fifos
    <3>3. QED
      BY <3>1, <3>2
  <2>4. QED
    BY <1>4, <2>1, <2>2, <2>3 DEF Plugin
<1>5. CASE UNCHANGED vars
  BY <1>5 DEF vars, workerVars, controllerVars, qemuVars
<1>6. QED
  BY <1>1, <1>2, <1>3, <1>4, <1>5 DEF Next, Step

DataTypes ==
  /\ pack \in Packs /\ max_instruction_count \in Limits
  /\ fifo \in [Fifos -> Seq(Piece)] /\ \A f \in Fifos : Len(fifo[f]) <= PipeCapacity
  /\ unsent \in Seq(Piece) /\ received \in Seq(Piece) /\ output \in Seq(Seq(Piece))
  /\ left \in Nat /\ incoming \in Seq(Piece)
  /\ tb_counter_max \in Int /\ fault_number \in Nat /\ fault_list \in Seq(FaultValues)
  /\ report \in Seq(Piece) /\ unwritten \in Seq(Piece)

LEMMA TypesSplit == TypeOK <=> PlaceTypes /\ DataTypes
  BY DEF TypeOK, PlaceTypes, DataTypes

(* Steps that leave all data alone. *)
dataVars == <<configVars, fifo, unsent, received, output, setupVars, reportVars>>

LEMMA DataKept == DataTypes /\ UNCHANGED dataVars => DataTypes'
  BY DEF DataTypes, dataVars, configVars, setupVars, reportVars

LEMMA Capacity == PipeCapacity \in Nat \ {0}
  BY HandshakeAssumption

LEMMA WorkerData == TypeOK /\ Worker => DataTypes'
<1> SUFFICES ASSUME TypeOK, Worker PROVE DataTypes'
  OBVIOUS
<1>1. DataTypes
  BY TypesSplit
<1>2. CASE StartQemu \/ WorkerBrokenPipe \/ WorkerEof \/ WorkerJoin
  BY <1>1, <1>2, DataKept
  DEF StartQemu, WorkerBrokenPipe, WorkerEof, WorkerJoin, dataVars, qemuVars
<1>3. CASE WorkerOpen
  <2>1. UNCHANGED <<pack, max_instruction_count, fifo, received, output, left, incoming,
                    tb_counter_max, fault_number, fault_list, report, unwritten>>
    BY <1>3 DEF WorkerOpen, configVars, qemuVars, setupVars, reportVars
  <2>2. unsent' \in Seq(Piece)
    BY <1>1, <1>3, PackSize, MessagePieces DEF WorkerOpen, DataTypes
  <2>3. QED
    BY <1>1, <2>1, <2>2 DEF DataTypes
<1>4. CASE WorkerWrite
  <2>1. UNCHANGED <<pack, max_instruction_count, received, output, left, incoming,
                    tb_counter_max, fault_number, fault_list, report, unwritten>>
    BY <1>4 DEF WorkerWrite, configVars, qemuVars, setupVars, reportVars
  <2>2. w_fifo \in Fifos /\ unsent # <<>> /\ PipeCapacity - Len(fifo[w_fifo]) > 0
        /\ fifo' = [fifo EXCEPT ![w_fifo] = Append(@, Head(unsent))] /\ unsent' = Tail(unsent)
    BY <1>4 DEF WorkerWrite, Room, TypeOK
  <2>3. unsent' \in Seq(Piece) /\ Head(unsent) \in Piece
    BY <1>1, <2>2 DEF DataTypes
  <2>4. PICK s : s = Append(fifo[w_fifo], Head(unsent))
    OBVIOUS
  <2>5. s \in Seq(Piece) /\ Len(s) <= PipeCapacity
    BY <1>1, <2>2, <2>3, <2>4, Capacity, AppendProperties DEF DataTypes
  <2>6. fifo' = [fifo EXCEPT ![w_fifo] = s]
    BY <2>2, <2>4
  <2>7. fifo' \in [Fifos -> Seq(Piece)] /\ \A f \in Fifos : Len(fifo'[f]) <= PipeCapacity
    BY <1>1, <2>2, <2>5, <2>6 DEF DataTypes
  <2>8. QED
    BY <1>1, <2>1, <2>3, <2>7 DEF DataTypes
<1>5. CASE WorkerWritten
  <2>1. UNCHANGED <<pack, max_instruction_count, fifo, received, output, left, incoming,
                    tb_counter_max, fault_number, fault_list, report, unwritten>>
    BY <1>5 DEF WorkerWritten, configVars, qemuVars, setupVars, reportVars
  <2>2. 2 * Len(pack) \in Nat
    BY PackSize
  <2>3. unsent' \in Seq(Piece)
    BY <1>1, <1>5, <2>2, MessagePieces DEF WorkerWritten, DataTypes
  <2>4. QED
    BY <1>1, <2>1, <2>3 DEF DataTypes
<1>6. CASE WorkerRead
  <2>1. UNCHANGED <<pack, max_instruction_count, unsent, output, left, incoming,
                    tb_counter_max, fault_number, fault_list, report, unwritten>>
    BY <1>6 DEF WorkerRead, configVars, qemuVars, setupVars, reportVars
  <2>2. "data" \in Fifos
    BY DEF Fifos
  <2>3. received' \in Seq(Piece)
    BY <1>1, <1>6, <2>2, ConcatProperties DEF WorkerRead, DataTypes
  <2>4. fifo' = [fifo EXCEPT !["data"] = <<>>]
    BY <1>6 DEF WorkerRead
  <2>5. fifo' \in [Fifos -> Seq(Piece)] /\ \A f \in Fifos : Len(fifo'[f]) <= PipeCapacity
    BY <1>1, <2>2, <2>4, Capacity DEF DataTypes
  <2>6. QED
    BY <1>1, <2>1, <2>3, <2>5 DEF DataTypes
<1>7. CASE PutOutput
  <2>1. UNCHANGED <<pack, max_instruction_count, fifo, unsent, received, left, incoming,
                    tb_counter_max, fault_number, fault_list, report, unwritten>>
    BY <1>7 DEF PutOutput, configVars, qemuVars, setupVars, reportVars
  <2>2. output' \in Seq(Seq(Piece))
    BY <1>1, <1>7, AppendProperties DEF PutOutput, DataTypes
  <2>3. QED
    BY <1>1, <2>1, <2>2 DEF DataTypes
<1>8. QED
  BY <1>2, <1>3, <1>4, <1>5, <1>6, <1>7 DEF Worker

(* A read takes what is at the front of a FIFO. *)
LEMMA TakenPieces ==
  ASSUME NEW s \in Seq(Piece), NEW k \in 0 .. Len(s)
  PROVE  /\ SubSeq(s, 1, k) \in Seq(Piece) /\ Len(SubSeq(s, 1, k)) = k
         /\ \A j \in 1 .. k : SubSeq(s, 1, k)[j] = s[j]
         /\ SubSeq(s, k + 1, Len(s)) \in Seq(Piece) /\ Len(SubSeq(s, k + 1, Len(s))) = Len(s) - k
         /\ \A j \in 1 .. Len(s) - k : SubSeq(s, k + 1, Len(s))[j] = s[k + j]
         /\ SubSeq(s, 1, k) \o SubSeq(s, k + 1, Len(s)) = s
<1>1. Len(s) \in Nat /\ \A j \in 1 .. Len(s) : s[j] \in Piece
  OBVIOUS
<1>2. /\ SubSeq(s, 1, k) \in Seq(Piece) /\ Len(SubSeq(s, 1, k)) = k
      /\ \A j \in 1 .. k : SubSeq(s, 1, k)[j] = s[j]
  BY <1>1, SubSeqProperties
<1>3. /\ SubSeq(s, k + 1, Len(s)) \in Seq(Piece)
      /\ Len(SubSeq(s, k + 1, Len(s))) = IF k + 1 <= Len(s) THEN Len(s) - (k + 1) + 1 ELSE 0
      /\ \A j \in 1 .. Len(s) - (k + 1) + 1 : SubSeq(s, k + 1, Len(s))[j] = s[k + 1 + j - 1]
  BY <1>1, SubSeqProperties
<1>4. SubSeq(s, 1, k) \o SubSeq(s, k + 1, Len(s)) = SubSeq(s, 1, Len(s))
  <2>1. 1 \in 1 .. Len(s) + 1 /\ k \in 1 - 1 .. Len(s) /\ Len(s) \in k .. Len(s)
    BY <1>1
  <2>2. QED
    BY <2>1, ConcatAdjacentSubSeq
<1>5. SubSeq(s, 1, Len(s)) = s
  BY SubSeqFull
<1>6. /\ Len(SubSeq(s, k + 1, Len(s))) = Len(s) - k
      /\ \A j \in 1 .. Len(s) - k : SubSeq(s, k + 1, Len(s))[j] = s[k + j]
  <2>1. k \in Nat /\ k <= Len(s)
    BY <1>1
  <2>2. PICK t : t = SubSeq(s, k + 1, Len(s))
    OBVIOUS
  <2>3. PICK n \in Nat : n = Len(s)
    OBVIOUS
  <2>4. /\ Len(t) = IF k + 1 <= n THEN n - (k + 1) + 1 ELSE 0
        /\ \A j \in 1 .. n - (k + 1) + 1 : t[j] = s[k + 1 + j - 1]
    BY <1>3, <2>2, <2>3
  <2>5. Len(t) = n - k
    BY <2>1, <2>3, <2>4
  <2>6. \A j \in 1 .. n - k : t[j] = s[k + j]
    <3>1. \A j \in 1 .. n - k : j \in 1 .. n - (k + 1) + 1 /\ k + 1 + j - 1 = k + j
      BY <2>1, <2>3
    <3>2. QED
      BY <2>4, <3>1
  <2>7. QED
    BY <2>2, <2>3, <2>5, <2>6
<1>7. QED
  BY <1>2, <1>3, <1>4, <1>5, <1>6

LEMMA PluginData == TypeOK /\ (Plugin \/ QemuFails \/ GuestEnds \/ HandleAbort) => DataTypes'
<1> SUFFICES ASSUME TypeOK, Plugin \/ QemuFails \/ GuestEnds \/ HandleAbort PROVE DataTypes'
  OBVIOUS
<1>1. DataTypes /\ q_fifo \in Fifos /\ "data" \in Fifos
  BY TypesSplit DEF PlaceTypes, Fifos
<1>2. CASE PluginInstall \/ ParseArgs \/ QemuSetupConfig \/ QemuExits \/ QemuTerminates \/ QemuFails
  BY <1>1, <1>2, DataKept
  DEF PluginInstall, ParseArgs, QemuSetupConfig, QemuExits, QemuTerminates, QemuFails,
      PluginComes, dataVars, workerVars
<1>3. CASE ReadoutPipeSize
  <2>1. UNCHANGED <<pack, max_instruction_count, unsent, received, output,
                    tb_counter_max, fault_number, fault_list, report, unwritten>>
    BY <1>3 DEF ReadoutPipeSize, configVars, workerVars, reportVars
  <2>2. CASE UNCHANGED <<fifo, left, incoming>>
    BY <1>1, <2>1, <2>2 DEF DataTypes
  <2>3. CASE /\ fifo[q_fifo] # <<>> /\ left' = Head(fifo[q_fifo]).val /\ incoming' = <<>>
             /\ fifo' = [fifo EXCEPT ![q_fifo] = Tail(@)]
    <3>1. PICK s \in Seq(Piece) : s = fifo[q_fifo] /\ s # <<>> /\ Len(s) <= PipeCapacity
      BY <1>1, <2>3 DEF DataTypes
    <3>2. Head(s) \in Piece /\ Tail(s) \in Seq(Piece) /\ Len(Tail(s)) <= PipeCapacity
      BY <3>1, Capacity, HeadTailProperties
    <3>3. left' \in Nat
      BY <2>3, <3>1, <3>2 DEF Piece
    <3>4. fifo' \in [Fifos -> Seq(Piece)] /\ \A f \in Fifos : Len(fifo'[f]) <= PipeCapacity
      BY <1>1, <2>3, <3>1, <3>2 DEF DataTypes
    <3>5. QED
      BY <1>1, <2>1, <2>3, <3>3, <3>4 DEF DataTypes
  <2>4. QED
    BY <1>3, <2>2, <2>3 DEF ReadoutPipeSize
<1>4. CASE ReadoutPipe
  <2>1. UNCHANGED <<pack, max_instruction_count, unsent, received, output,
                    tb_counter_max, fault_number, fault_list, report, unwritten>>
    BY <1>4 DEF ReadoutPipe, configVars, workerVars, reportVars
  <2>2. PICK s \in Seq(Piece) : s = fifo[q_fifo] /\ Len(s) <= PipeCapacity
    BY <1>1 DEF DataTypes
  <2>3. PICK k \in 1 .. Len(s) : /\ k <= left /\ left' = left - k
                                 /\ incoming' = incoming \o SubSeq(s, 1, k)
                                 /\ fifo' = [fifo EXCEPT ![q_fifo] = SubSeq(s, k + 1, Len(s))]
    BY <1>4, <2>2 DEF ReadoutPipe
  <2>4. /\ SubSeq(s, 1, k) \in Seq(Piece) /\ SubSeq(s, k + 1, Len(s)) \in Seq(Piece)
        /\ Len(SubSeq(s, k + 1, Len(s))) = Len(s) - k
    BY <2>3, TakenPieces
  <2>5. incoming' \in Seq(Piece) /\ left' \in Nat
    BY <1>1, <2>3, <2>4, ConcatProperties DEF DataTypes
  <2>6. PICK t \in Seq(Piece) : t = SubSeq(s, k + 1, Len(s)) /\ Len(t) <= PipeCapacity
    <3>1. Len(s) \in Nat
      OBVIOUS
    <3>2. Len(SubSeq(s, k + 1, Len(s))) <= PipeCapacity
      BY <2>2, <2>3, <2>4, <3>1, Capacity
    <3>3. QED
      BY <2>4, <3>2
  <2>7. fifo' \in [Fifos -> Seq(Piece)] /\ \A f \in Fifos : Len(fifo'[f]) <= PipeCapacity
    BY <1>1, <2>3, <2>6 DEF DataTypes
  <2>8. QED
    BY <1>1, <2>1, <2>5, <2>7 DEF DataTypes
<1>5. CASE ReadoutControl
  <2>1. UNCHANGED <<pack, max_instruction_count, fifo, unsent, received, output, left, incoming,
                    fault_list, report, unwritten>>
    BY <1>5 DEF ReadoutControl, configVars, workerVars, reportVars
  <2>2. tb_counter_max' \in Int /\ fault_number' \in Nat
    BY <1>1, <1>5, PackSize, ToIntType DEF ReadoutControl, DataTypes
  <2>3. QED
    BY <1>1, <2>1, <2>2 DEF DataTypes
<1>6. CASE SetupFault
  <2>1. UNCHANGED <<pack, max_instruction_count, fifo, unsent, received, output, left, incoming,
                    tb_counter_max, fault_number, report, unwritten>>
    BY <1>6 DEF SetupFault, configVars, workerVars, reportVars
  <2>2. PICK f \in FaultArray(Len(fault_list)) : fault_list' = add_fault(fault_list, f)
    BY <1>6 DEF SetupFault
  <2>3. f \in FaultValues
    BY PackSize DEF FaultArray
  <2>4. fault_list' \in Seq(FaultValues)
    BY <1>1, <2>2, <2>3, AddedFault DEF DataTypes
  <2>5. QED
    BY <1>1, <2>1, <2>4 DEF DataTypes
<1>7. CASE register_fault_trigger_addresses
  <2>1. UNCHANGED <<pack, max_instruction_count, fifo, unsent, received, output, left, incoming,
                    tb_counter_max, fault_list, report, unwritten>>
    BY <1>7 DEF register_fault_trigger_addresses, configVars, workerVars, reportVars
  <2>2. fault_number' \in Nat
    BY <1>1, <1>7 DEF register_fault_trigger_addresses, DataTypes
  <2>3. QED
    BY <1>1, <2>1, <2>2 DEF DataTypes
<1>8. CASE ReportBegins
  <2>1. UNCHANGED <<pack, max_instruction_count, fifo, unsent, received, output, left, incoming,
                    tb_counter_max, fault_number, fault_list>>
    BY <1>8 DEF ReportBegins, configVars, workerVars, setupVars
  <2>2. report' \in Seq(Piece) /\ unwritten' \in Seq(Piece)
    BY <1>8, HandshakeAssumption, MessagePieces DEF ReportBegins
  <2>3. QED
    BY <1>1, <2>1, <2>2 DEF DataTypes
<1>9. CASE WriteToDataPipe
  <2>1. UNCHANGED <<pack, max_instruction_count, unsent, received, output, left, incoming,
                    tb_counter_max, fault_number, fault_list, report>>
    BY <1>9 DEF WriteToDataPipe, configVars, workerVars, setupVars
  <2>2. PICK d \in Seq(Piece) : d = fifo["data"] /\ Len(d) <= PipeCapacity
    BY <1>1 DEF DataTypes
  <2>3. PICK k \in 1 .. PipeCapacity - Len(d) :
               /\ k <= Len(unwritten)
               /\ fifo' = [fifo EXCEPT !["data"] = d \o SubSeq(unwritten, 1, k)]
               /\ unwritten' = SubSeq(unwritten, k + 1, Len(unwritten))
    BY <1>9, <2>2 DEF WriteToDataPipe, Room, UnwrittenAfter
  <2>4. unwritten \in Seq(Piece) /\ k \in 0 .. Len(unwritten)
    BY <1>1, <2>2, <2>3, Capacity DEF DataTypes
  <2>5. /\ SubSeq(unwritten, 1, k) \in Seq(Piece) /\ Len(SubSeq(unwritten, 1, k)) = k
        /\ unwritten' \in Seq(Piece)
    BY <2>3, <2>4, TakenPieces
  <2>6. PICK t \in Seq(Piece) : t = d \o SubSeq(unwritten, 1, k) /\ Len(t) <= PipeCapacity
    <3>1. PICK w \in Seq(Piece) : w = SubSeq(unwritten, 1, k) /\ Len(w) = k
      BY <2>5
    <3>2. d \o w \in Seq(Piece) /\ Len(d \o w) = Len(d) + Len(w) /\ Len(d) \in Nat
      BY ConcatProperties
    <3>3. Len(d \o w) <= PipeCapacity
      BY <2>2, <2>3, <3>1, <3>2, Capacity
    <3>4. QED
      BY <3>1, <3>2, <3>3
  <2>7. fifo' \in [Fifos -> Seq(Piece)] /\ \A f \in Fifos : Len(fifo'[f]) <= PipeCapacity
    BY <1>1, <2>3, <2>6 DEF DataTypes
  <2>8. QED
    BY <1>1, <2>1, <2>5, <2>7 DEF DataTypes
<1>10. QED
  BY <1>2, <1>3, <1>4, <1>5, <1>6, <1>7, <1>8, <1>9 DEF Plugin, GuestEnds, HandleAbort

LEMMA TypesStep == TypeOK /\ [Next]_vars => TypeOK'
<1> SUFFICES ASSUME TypeOK, [Next]_vars PROVE TypeOK'
  OBVIOUS
<1>1. PlaceTypes'
  BY TypesSplit, PlaceTypesStep
<1>2. ASSUME RunQemu \/ Timeout \/ CollectWorker \/ KillWorker
             \/ (\E s \in Signals : StopSignal(s)) \/ UNCHANGED vars
      PROVE  DataTypes'
  <2>1. UNCHANGED dataVars
    BY <1>2 DEF RunQemu, NameProcess, Popen, Communicate, Timeout, CollectWorker, KillWorker,
                StopSignal, vars, dataVars, workerVars, qemuVars
  <2>2. QED
    BY <2>1, DataKept, TypesSplit
<1>3. DataTypes' => TypeOK'
  BY <1>1 DEF TypeOK, PlaceTypes, DataTypes
<1>4. QED
  BY <1>2, <1>3, WorkerData, PluginData DEF Next, Step

(* No FIFO is written beyond its capacity, a FIFO is open at both ends only *)
(* where both processes came to it, and what is in it, read and handed on,  *)
(* are pieces of messages.  How many outputs a worker hands in is no type:  *)
(* ExperimentKept is about that.                                            *)
THEOREM TypeCorrect == Spec => []TypeOK
  BY TypesInit, TypesStep, PTL DEF Spec

-----------------------------------------------------------------------------
(* Where the processes are: whoever has got past a FIFO has met the other   *)
(* side there, and an output is what was read up to the end.                *)
Places ==
  /\ q_arrived # {} => qemu \notin {"none", "starting"}
  /\ worker \in {"write", "read", "post", "join", "interrupted", "broken"} =>
       qemu \notin {"none", "starting"}
  /\ worker = "write" => w_fifo \in {"control", "config"}
  /\ qemu \in {"size", "body"} => q_fifo \in {"control", "config"}
  /\ worker \in {"start", "open", "write", "read", "post", "broken"} => output = <<>>
  /\ worker \in {"post", "join", "broken"} \/ output # <<>> => qemu = "exited"
  /\ worker \in {"post", "join"} \/ output # <<>> => fifo["data"] = <<>>
  /\ output # <<>> => output = <<received>>

LEMMA PlacesInit == Init => Places
  BY DEF Init, Places

LEMMA PlacesWorker == TypeOK /\ Places /\ Worker => Places'
<1> SUFFICES ASSUME TypeOK, Places, Worker PROVE Places'
  OBVIOUS
<1>1. UNCHANGED <<q_arrived, qemu, q_fifo>>
  BY DEF Worker, StartQemu, WorkerOpen, WorkerWrite, WorkerWritten, WorkerBrokenPipe,
         WorkerRead, WorkerEof, PutOutput, WorkerJoin, qemuVars
<1>2. CASE StartQemu
  BY <1>1, <1>2 DEF StartQemu, Places
<1>3. CASE WorkerOpen
  <2>1. w_fifo \in q_arrived /\ worker = "open" /\ worker' \in {"open", "write"}
        /\ (worker' = "write" => w_fifo' = "control") /\ UNCHANGED <<output, received, fifo>>
    BY <1>3 DEF WorkerOpen, TypeOK
  <2>2. QED
    BY <1>1, <2>1 DEF Places
<1>4. CASE WorkerWrite
  <2>1. fifo \in [Fifos -> Seq(Piece)] /\ w_fifo # "data" /\ "data" \in Fifos /\ worker = "write"
        /\ UNCHANGED <<worker, w_fifo, output, received>>
    BY <1>4 DEF WorkerWrite, TypeOK, Places, Fifos
  <2>2. fifo'["data"] = fifo["data"]
    BY <1>4, <2>1 DEF WorkerWrite
  <2>3. QED
    BY <1>1, <2>1, <2>2 DEF Places
<1>5. CASE WorkerWritten
  BY <1>1, <1>5 DEF WorkerWritten, Places
<1>6. CASE WorkerBrokenPipe
  BY <1>1, <1>6 DEF WorkerBrokenPipe, Places, QemuAlive
<1>7. CASE WorkerRead
  BY <1>1, <1>7 DEF WorkerRead, Places
<1>8. CASE WorkerEof
  BY <1>1, <1>8 DEF WorkerEof, Places, EndOfReport, QemuAlive
<1>9. CASE PutOutput
  <2>1. worker = "post" /\ worker' = "join" /\ output = <<>> /\ UNCHANGED <<received, fifo>>
    BY <1>9 DEF PutOutput, Places
  <2>2. output' = Append(<<>>, received)
    BY <1>9, <2>1 DEF PutOutput
  <2>3. output' = <<received>>
    BY <2>2
  <2>4. QED
    BY <1>1, <2>1, <2>3 DEF Places
<1>10. CASE WorkerJoin
  BY <1>1, <1>10 DEF WorkerJoin, Places
<1>11. QED
  BY <1>2, <1>3, <1>4, <1>5, <1>6, <1>7, <1>8, <1>9, <1>10 DEF Worker

LEMMA PlacesPlugin ==
  TypeOK /\ Places /\ (Plugin \/ QemuFails \/ GuestEnds \/ HandleAbort) => Places'
<1> SUFFICES ASSUME TypeOK, Places, Plugin \/ QemuFails \/ GuestEnds \/ HandleAbort PROVE Places'
  OBVIOUS
<1>1. UNCHANGED workerVars \/ ((PluginInstall \/ ParseArgs) /\ UNCHANGED <<worker, w_fifo, unsent, received, output>>)
  BY DEF Plugin, PluginInstall, ParseArgs, ReadoutPipeSize, ReadoutPipe, ReadoutControl,
         QemuSetupConfig, SetupFault, register_fault_trigger_addresses, WriteToDataPipe, QemuExits,
         QemuTerminates, QemuFails, GuestEnds, HandleAbort, ReportBegins
<1>2. UNCHANGED <<worker, w_fifo, received, output>> /\ qemu \notin {"none", "exited"}
      /\ qemu' \notin {"none", "starting"}
  BY <1>1 DEF workerVars, Plugin, PluginInstall, ParseArgs, ReadoutPipeSize, ReadoutPipe, ReadoutControl,
         QemuSetupConfig, SetupFault, register_fault_trigger_addresses, WriteToDataPipe, QemuExits,
         QemuTerminates, QemuFails, GuestEnds, HandleAbort, ReportBegins, StartGuest, Abort
<1>3. output = <<>> /\ worker \notin {"post", "join", "broken"}
  BY <1>2 DEF Places
<1>4. qemu' \in {"size", "body"} => q_fifo' \in {"control", "config"}
  <2>1. CASE PluginInstall \/ ParseArgs
    BY <2>1 DEF PluginInstall, ParseArgs
  <2>2. CASE ~PluginInstall /\ ~ParseArgs
    BY <1>2, <2>2 DEF Plugin, ReadoutPipeSize, ReadoutPipe, ReadoutControl,
         QemuSetupConfig, SetupFault, register_fault_trigger_addresses, WriteToDataPipe, QemuExits,
         QemuTerminates, QemuFails, GuestEnds, HandleAbort, ReportBegins, StartGuest, Abort, Places
  <2>3. QED
    BY <2>1, <2>2
<1>5. QED
  BY <1>2, <1>3, <1>4 DEF Places

LEMMA PlacesStep == TypeOK /\ ProcessesOrdered /\ Places /\ [Next]_vars => Places'
<1> SUFFICES ASSUME TypeOK, ProcessesOrdered, Places, [Next]_vars PROVE Places'
  OBVIOUS
<1>1. CASE RunQemu
  <2>1. UNCHANGED <<fifo, worker, w_fifo, received, output, q_fifo, q_arrived>>
    BY <1>1 DEF RunQemu, NameProcess, Popen, Communicate, workerVars, qemuVars
  <2>2. qemu' = qemu \/ (qemu' = "starting" /\ run_qemu = "named")
    BY <1>1 DEF RunQemu, NameProcess, Popen, Communicate, qemuVars
  <2>3. QED
    BY <2>1, <2>2 DEF Places, ProcessesOrdered
<1>2. CASE Timeout \/ CollectWorker \/ KillWorker \/ \E s \in Signals : StopSignal(s)
  <2>1. UNCHANGED <<fifo, w_fifo, received, output, qemu, q_fifo, q_arrived>>
    BY <1>2 DEF Timeout, CollectWorker, KillWorker, StopSignal, workerVars, qemuVars
  <2>2. \/ worker' = worker \/ worker' = "killed"
        \/ worker \in {"read", "post", "join"} /\ worker' = "interrupted"
    BY <1>2 DEF Timeout, CollectWorker, KillWorker, StopSignal, workerVars
  <2>3. QED
    BY <2>1, <2>2 DEF Places
<1>3. CASE UNCHANGED vars
  BY <1>3 DEF vars, workerVars, qemuVars, Places
<1>4. QED
  BY <1>1, <1>2, <1>3, PlacesWorker, PlacesPlugin DEF Next, Step

-----------------------------------------------------------------------------
(* The report is neither lost nor reordered on its way; a QEMU that is over *)
(* while its worker waits was made to end, failed, or has written it all.   *)
ReportFlow ==
  /\ (received \o fifo["data"]) \o unwritten = report
  /\ qemu = "report" => report # <<>>
  /\ report # <<>> => qemu \in {"report", "exited"}
  /\ unwritten # <<>> => qemu = "report" \/ ~WorkerAlive
  /\ qemu = "exited" /\ WorkerAlive => failed \/ terminating \/ report # <<>>

LEMMA ReportInit == Init => ReportFlow
<1> SUFFICES ASSUME Init PROVE ReportFlow
  OBVIOUS
<1>1. received = <<>> /\ fifo["data"] = <<>> /\ unwritten = <<>> /\ report = <<>> /\ qemu = "none"
  BY DEF Init, Fifos
<1>2. (received \o fifo["data"]) \o unwritten = report
  BY <1>1
<1>3. QED
  BY <1>1, <1>2 DEF ReportFlow

(* Steps that leave the report alone. *)
LEMMA ReportKept ==
  ASSUME ReportFlow, UNCHANGED <<received, unwritten, report, qemu>>, fifo'["data"] = fifo["data"],
         WorkerAlive' => WorkerAlive, failed => failed', terminating => terminating'
  PROVE  ReportFlow'
  BY DEF ReportFlow

LEMMA ReportWorker == TypeOK /\ Places /\ ReportFlow /\ Worker => ReportFlow'
<1> SUFFICES ASSUME TypeOK, Places, ReportFlow, Worker PROVE ReportFlow'
  OBVIOUS
<1>1. UNCHANGED <<unwritten, report, qemu, failed, terminating>>
  BY DEF Worker, StartQemu, WorkerOpen, WorkerWrite, WorkerWritten, WorkerBrokenPipe,
         WorkerRead, WorkerEof, PutOutput, WorkerJoin, qemuVars, reportVars
<1>2. WorkerAlive' => WorkerAlive
  BY DEF Worker, StartQemu, WorkerOpen, WorkerWrite, WorkerWritten, WorkerBrokenPipe,
         WorkerRead, WorkerEof, PutOutput, WorkerJoin, WorkerAlive
<1>3. CASE ~WorkerWrite /\ ~WorkerRead
  <2>1. UNCHANGED <<received, fifo>>
    BY <1>3 DEF Worker, StartQemu, WorkerOpen, WorkerWritten, WorkerBrokenPipe, WorkerEof,
                PutOutput, WorkerJoin
  <2>2. QED
    BY <1>1, <1>2, <2>1, ReportKept
<1>4. CASE WorkerWrite
  <2>1. received' = received /\ fifo'["data"] = fifo["data"]
    BY <1>4 DEF WorkerWrite, TypeOK, Places, Fifos
  <2>2. QED
    BY <1>1, <1>2, <2>1, ReportKept
<1>5. CASE WorkerRead
  <2>1. "data" \in Fifos /\ fifo \in [Fifos -> Seq(Piece)] /\ received \in Seq(Piece)
    BY DEF TypeOK, Fifos
  <2>2. received' = received \o fifo["data"] /\ fifo'["data"] = <<>> /\ received' \in Seq(Piece)
    BY <1>5, <2>1, ConcatProperties DEF WorkerRead
  <2>3. received' \o fifo'["data"] = received \o fifo["data"]
    BY <2>2, ConcatEmptySeq
  <2>4. QED
    BY <1>1, <1>2, <2>3 DEF ReportFlow
<1>6. QED
  BY <1>3, <1>4, <1>5

LEMMA ReportPlugin ==
  TypeOK /\ Places /\ ReportFlow /\ (QemuFails \/ QemuTerminates \/ GuestEnds \/ HandleAbort
    \/ PluginInstall \/ ParseArgs \/ ReadoutPipeSize \/ ReadoutPipe
    \/ SetupFault \/ register_fault_trigger_addresses \/ WriteToDataPipe \/ QemuExits)
    => ReportFlow'
<1> SUFFICES ASSUME TypeOK, Places, ReportFlow,
                    QemuFails \/ QemuTerminates \/ GuestEnds \/ HandleAbort
                    \/ PluginInstall \/ ParseArgs \/ ReadoutPipeSize \/ ReadoutPipe
                    \/ SetupFault \/ register_fault_trigger_addresses \/ WriteToDataPipe \/ QemuExits
             PROVE  ReportFlow'
  OBVIOUS
<1>1. UNCHANGED <<worker, received>>
  BY DEF PluginInstall, ParseArgs, ReadoutPipeSize, ReadoutPipe, SetupFault,
         register_fault_trigger_addresses, WriteToDataPipe, QemuExits,
         QemuTerminates, QemuFails, GuestEnds, HandleAbort, ReportBegins, workerVars
<1>2. "data" \in Fifos /\ fifo \in [Fifos -> Seq(Piece)] /\ received \in Seq(Piece)
      /\ report \in Seq(Piece) /\ unwritten \in Seq(Piece)
  BY DEF TypeOK, Fifos
<1>3. CASE QemuFails \/ QemuTerminates
  <2>1. UNCHANGED <<fifo, report, unwritten, terminating>> /\ qemu # "report" /\ qemu' = "exited"
        /\ (failed' \/ terminating')
    BY <1>3 DEF QemuFails, QemuTerminates, reportVars
  <2>2. QED
    BY <1>1, <2>1 DEF ReportFlow, WorkerAlive
<1>4. CASE GuestEnds \/ HandleAbort
  <2>1. PICK n \in ReportSizes : report' = Parts(n) /\ unwritten' = Parts(n)
    BY <1>4 DEF GuestEnds, HandleAbort, ReportBegins
  <2>2. UNCHANGED fifo /\ qemu = "guest" /\ qemu' = "report"
    BY <1>4 DEF GuestEnds, HandleAbort, ReportBegins
  <2>3. report = <<>> /\ Parts(n) \in Seq(Piece) /\ Parts(n) # <<>>
    BY <2>1, <2>2, HandshakeAssumption, MessagePieces DEF ReportFlow
  <2>4. received = <<>> /\ fifo["data"] = <<>>
    <3>1. received \o fifo["data"] \in Seq(Piece)
      BY <1>2, ConcatProperties
    <3>2. received \o fifo["data"] = <<>>
      BY <1>2, <2>3, <3>1, ConcatEqualIffEmpty DEF ReportFlow
    <3>3. QED
      BY <1>2, <3>2, ConcatEqualIffEmpty
  <2>5. (received' \o fifo'["data"]) \o unwritten' = report'
    BY <1>1, <2>1, <2>2, <2>3, <2>4, ConcatEmptySeq
  <2>6. QED
    BY <1>1, <2>1, <2>2, <2>3, <2>5 DEF ReportFlow
<1>5. CASE PluginInstall \/ ParseArgs \/ ReadoutPipeSize \/ ReadoutPipe
           \/ SetupFault \/ register_fault_trigger_addresses
  <2>1. UNCHANGED <<report, unwritten, failed, terminating>> /\ qemu \notin {"report", "exited"}
        /\ qemu' # "report" /\ (qemu' = "exited" => ~WorkerAlive)
    BY <1>5 DEF PluginInstall, ParseArgs, ReadoutPipeSize, ReadoutPipe, Abort, StartGuest,
         SetupFault, register_fault_trigger_addresses, reportVars
  <2>2. fifo'["data"] = fifo["data"]
    BY <1>2, <1>5 DEF PluginInstall, ParseArgs, ReadoutPipeSize, ReadoutPipe,
         SetupFault, register_fault_trigger_addresses, TypeOK, Places
  <2>3. QED
    BY <1>1, <2>1, <2>2 DEF ReportFlow, WorkerAlive
<1>6. CASE WriteToDataPipe
  <2>1. /\ qemu = "report" /\ UNCHANGED <<report, qemu, failed, terminating>>
        /\ PipeCapacity - Len(fifo["data"]) \in Int
    BY <1>2, <1>6, Capacity DEF WriteToDataPipe, reportVars
  <2>2. PICK k \in 1 .. PipeCapacity - Len(fifo["data"]) :
               /\ k <= Len(unwritten)
               /\ fifo' = [fifo EXCEPT !["data"] = @ \o SubSeq(unwritten, 1, k)]
               /\ unwritten' = SubSeq(unwritten, k + 1, Len(unwritten))
    BY <1>6 DEF WriteToDataPipe, Room, UnwrittenAfter
  <2>3. PICK d \in Seq(Piece) : d = fifo["data"]
    BY <1>2
  <2>4. k \in 0 .. Len(unwritten)
    BY <1>2, <2>1, <2>2
  <2>5. PICK u \in Seq(Piece) : u = SubSeq(unwritten, 1, k)
    BY <1>2, <2>4, TakenPieces
  <2>6. unwritten' \in Seq(Piece) /\ u \o unwritten' = unwritten
    BY <1>2, <2>2, <2>4, <2>5, TakenPieces
  <2>7. fifo'["data"] = d \o u
    BY <1>2, <2>2, <2>3, <2>5
  <2>8. (received \o (d \o u)) \o unwritten' = (received \o d) \o unwritten
    <3>1. received \o d \in Seq(Piece)
      BY <1>2, <2>3, ConcatProperties
    <3>2. received \o (d \o u) = (received \o d) \o u
      BY <2>5, <2>6, <3>1, ConcatAssociative, SMTT(20)
    <3>3. ((received \o d) \o u) \o unwritten' = (received \o d) \o (u \o unwritten')
      BY <2>5, <2>6, <3>1, ConcatAssociative
    <3>4. QED
      BY <2>6, <3>2, <3>3
  <2>9. QED
    BY <1>1, <2>1, <2>3, <2>7, <2>8 DEF ReportFlow
<1>7. CASE QemuExits
  <2>1. UNCHANGED <<fifo, report, unwritten, failed, terminating>> /\ qemu = "report"
        /\ qemu' = "exited" /\ (unwritten = <<>> \/ ~WorkerAlive)
    BY <1>7 DEF QemuExits, ReaderGone, reportVars
  <2>2. QED
    BY <1>1, <2>1 DEF ReportFlow, WorkerAlive
<1>8. QED
  BY <1>3, <1>4, <1>5, <1>6, <1>7

LEMMA ReportOthers ==
  ReportFlow /\ ProcessesOrdered /\ (RunQemu \/ Timeout \/ CollectWorker \/ KillWorker
    \/ (\E s \in Signals : StopSignal(s)) \/ UNCHANGED vars) => ReportFlow'
<1> SUFFICES ASSUME ReportFlow, ProcessesOrdered,
                    RunQemu \/ Timeout \/ CollectWorker \/ KillWorker
                    \/ (\E s \in Signals : StopSignal(s)) \/ UNCHANGED vars
             PROVE  ReportFlow'
  OBVIOUS
<1>1. CASE RunQemu
  <2>1. UNCHANGED <<fifo, worker, received, report, unwritten, terminating>>
        /\ (failed => failed')
    BY <1>1 DEF RunQemu, NameProcess, Popen, Communicate, workerVars, qemuVars, reportVars
  <2>2. qemu' = qemu \/ (qemu' = "starting" /\ qemu = "none")
    BY <1>1 DEF RunQemu, NameProcess, Popen, Communicate, qemuVars, ProcessesOrdered
  <2>3. QED
    BY <2>1, <2>2 DEF ReportFlow, WorkerAlive
<1>2. CASE ~RunQemu
  <2>1. UNCHANGED <<fifo, received, qemu, report, unwritten, failed>>
    BY <1>2 DEF Timeout, CollectWorker, KillWorker, StopSignal, vars, workerVars, qemuVars, reportVars
  <2>2. terminating => terminating'
    <3>1. CASE Timeout
      BY <3>1 DEF Timeout
    <3>2. CASE \E s \in Signals : StopSignal(s)
      BY <3>2 DEF StopSignal
    <3>3. CASE CollectWorker \/ KillWorker \/ UNCHANGED vars
      BY <3>3 DEF CollectWorker, KillWorker, vars
    <3>4. QED
      BY <1>2, <3>1, <3>2, <3>3
  <2>3. WorkerAlive' => WorkerAlive
    BY <1>2 DEF Timeout, CollectWorker, KillWorker, StopSignal, vars, workerVars, WorkerAlive
  <2>4. QED
    BY <2>1, <2>2, <2>3, ReportKept
<1>3. QED
  BY <1>1, <1>2

-----------------------------------------------------------------------------
(* A message to the plugin: the plugin has taken its first pieces, the next *)
(* ones are in the FIFO, the worker still has the others.                   *)
ToPlugin == {"control", "config"}
BodySize(f) == IF f = "control" THEN ControlSize ELSE 2 * Len(pack)
PieceOf(f, k) == IF k = 1 THEN Size(BodySize(f)) ELSE Part(k - 1)
Taken(f) == IF qemu = "body" /\ q_fifo = f THEN 1 + Len(incoming) ELSE 0
Unread(f) == \/ qemu \in {"none", "starting", "open"}
             \/ qemu \in {"size", "body"} /\ (q_fifo = "control" \/ f = "config")
Unsent(f) == \/ worker \in {"start", "open"}
             \/ worker = "write" /\ w_fifo = "control" /\ f = "config"

Stream(f) ==
  /\ \A k \in 1 .. Len(fifo[f]) : fifo[f][k] = PieceOf(f, Taken(f) + k)
  /\ Unsent(f) => fifo[f] = <<>> /\ Taken(f) = 0
  /\ worker = "write" /\ w_fifo = f =>
       \A k \in 1 .. Len(unsent) : unsent[k] = PieceOf(f, Taken(f) + Len(fifo[f]) + k)

MessageFlow ==
  /\ \A f \in ToPlugin : Unread(f) => Stream(f)
  /\ qemu = "body" => /\ left + Len(incoming) = BodySize(q_fifo)
                      /\ \A k \in 1 .. Len(incoming) : incoming[k] = Part(k)

LEMMA MessagesInit == Init => MessageFlow
  BY DEF Init, MessageFlow, Stream, Taken, Fifos, ToPlugin

(* A message whose size has been read is complete when nothing is left. *)
LEMMA MessageComplete ==
  ASSUME TypeOK, Places, MessageFlow, qemu = "body", left = 0
  PROVE  incoming = Parts(BodySize(q_fifo))
<1>1. BodySize(q_fifo) \in Nat
  BY PackSize DEF BodySize
<1>2. incoming \in Seq(Piece) /\ Len(incoming) \in Nat
  BY DEF TypeOK
<1>3. Len(incoming) = BodySize(q_fifo) /\ \A k \in 1 .. Len(incoming) : incoming[k] = Part(k)
  BY <1>2 DEF MessageFlow
<1>4. PICK s \in Seq(Piece) : /\ s = Parts(BodySize(q_fifo)) /\ Len(s) = BodySize(q_fifo)
                              /\ \A k \in 1 .. BodySize(q_fifo) : s[k] = Part(k)
  BY <1>1, MessagePieces
<1>5. incoming = s
  BY <1>2, <1>3, <1>4, SeqEqual
<1>6. QED
  BY <1>4, <1>5

(* Steps of the worker's side, and of the plugin's, that move no piece of a *)
(* message.                                                                 *)
LEMMA MessagesKeptByWorker ==
  ASSUME MessageFlow, UNCHANGED <<qemu, q_fifo, incoming, left, pack>>,
         \A f \in ToPlugin : fifo'[f] = fifo[f],
         \/ UNCHANGED <<worker, w_fifo, unsent>>
         \/ worker' \notin {"start", "open", "write"}
         \/ worker \in {"start", "open"} /\ worker' = "open"
  PROVE  MessageFlow'
<1>1. \A f : Taken(f)' = Taken(f) /\ (Unread(f)' <=> Unread(f)) /\ BodySize(f)' = BodySize(f)
  BY DEF Taken, Unread, BodySize
<1>2. ASSUME NEW f \in ToPlugin, Unread(f) PROVE Stream(f)'
  <2>1. Stream(f)
    BY <1>2 DEF MessageFlow
  <2>2. Unsent(f)' => Unsent(f)
    BY DEF Unsent
  <2>3. QED
    BY <1>1, <2>1, <2>2 DEF Stream, PieceOf
<1>3. QED
  BY <1>1, <1>2 DEF MessageFlow

LEMMA MessagesKeptByPlugin ==
  ASSUME MessageFlow, UNCHANGED <<worker, w_fifo, unsent, pack>>,
         \A f \in ToPlugin : fifo'[f] = fifo[f],
         \/ qemu' \in {"setup", "guest", "report", "exited"}
         \/ qemu \in {"none", "starting", "open"} /\ qemu' \in {"starting", "open", "size"}
  PROVE  MessageFlow'
<1>1. CASE qemu' \in {"setup", "guest", "report", "exited"}
  BY <1>1 DEF MessageFlow, Unread
<1>2. CASE qemu \in {"none", "starting", "open"} /\ qemu' \in {"starting", "open", "size"}
  <2>1. \A f : Taken(f)' = 0 /\ Taken(f) = 0 /\ Unread(f) /\ BodySize(f)' = BodySize(f)
    BY <1>2 DEF Taken, Unread, BodySize
  <2>2. ASSUME NEW f \in ToPlugin PROVE Stream(f)'
    <3>1. Stream(f)
      BY <2>1, <2>2 DEF MessageFlow
    <3>2. Unsent(f)' <=> Unsent(f)
      BY DEF Unsent
    <3>3. QED
      BY <2>1, <3>1, <3>2 DEF Stream, PieceOf
  <2>3. QED
    BY <1>2, <2>2 DEF MessageFlow
<1>3. QED
  BY <1>1, <1>2

(* The worker begins a message when nothing of it is on its way.            *)
LEMMA MessageBegun ==
  ASSUME TypeOK, NEW f \in ToPlugin
  PROVE  /\ BodySize(f) \in Nat
         /\ \A k \in 1 .. Len(Message(BodySize(f))) : Message(BodySize(f))[k] = PieceOf(f, k)
<1>1. PICK n \in Nat : n = BodySize(f)
  BY PackSize DEF BodySize
<1>2. Len(Message(n)) = n + 1 /\ \A k \in 1 .. n + 1 : Message(n)[k] = IF k = 1 THEN Size(n) ELSE Part(k - 1)
  BY MessagePieces
<1>3. QED
  BY <1>1, <1>2 DEF PieceOf

LEMMA MessagesWorker == TypeOK /\ Places /\ MessageFlow /\ Worker => MessageFlow'
<1> SUFFICES ASSUME TypeOK, Places, MessageFlow, Worker PROVE MessageFlow'
  OBVIOUS
<1>1. UNCHANGED <<qemu, q_fifo, incoming, left, pack>>
  BY DEF Worker, StartQemu, WorkerOpen, WorkerWrite, WorkerWritten, WorkerBrokenPipe,
         WorkerRead, WorkerEof, PutOutput, WorkerJoin, qemuVars, setupVars, configVars
<1>2. \A f : Taken(f)' = Taken(f) /\ (Unread(f)' <=> Unread(f)) /\ BodySize(f)' = BodySize(f)
  BY <1>1 DEF Taken, Unread, BodySize
<1>3. "control" \in ToPlugin /\ "config" \in ToPlugin /\ "data" \notin ToPlugin
      /\ fifo \in [Fifos -> Seq(Piece)] /\ ToPlugin \subseteq Fifos
      /\ \A f \in ToPlugin : f = "control" \/ f = "config"
  BY DEF ToPlugin, Fifos, TypeOK
<1>4. CASE StartQemu \/ WorkerBrokenPipe \/ WorkerRead \/ WorkerEof \/ PutOutput \/ WorkerJoin
  <2>1. \A f \in ToPlugin : fifo'[f] = fifo[f]
    BY <1>3, <1>4 DEF StartQemu, WorkerBrokenPipe, WorkerRead, WorkerEof, PutOutput, WorkerJoin
  <2>2. \/ worker' \notin {"start", "open", "write"}
        \/ worker \in {"start", "open"} /\ worker' = "open"
        \/ UNCHANGED <<worker, w_fifo, unsent>>
    BY <1>4 DEF StartQemu, WorkerBrokenPipe, WorkerRead, WorkerEof, PutOutput, WorkerJoin
  <2>3. QED
    BY <1>1, <2>1, <2>2, MessagesKeptByWorker
<1>5. CASE WorkerOpen
  <2>1. worker = "open" /\ fifo' = fifo
        /\ (worker' = "open" \/ (worker' = "write" /\ w_fifo' = "control"
                                 /\ unsent' = Message(ControlSize)))
    BY <1>5 DEF WorkerOpen
  <2>2. CASE worker' = "open"
    BY <1>1, <2>1, <2>2, MessagesKeptByWorker
  <2>3. CASE worker' = "write" /\ w_fifo' = "control" /\ unsent' = Message(ControlSize)
    <3>1. ASSUME NEW f \in ToPlugin, Unread(f) PROVE Stream(f)'
      <4>1. Stream(f) /\ Unsent(f)
        BY <2>1, <3>1 DEF MessageFlow, Unsent
      <4>2. fifo[f] = <<>> /\ Taken(f) = 0
        BY <4>1 DEF Stream
      <4>3. CASE f = "control"
        <5>1. ControlSize = BodySize(f) /\ BodySize(f) \in Nat
          BY <4>3, PackSize DEF BodySize
        <5>2. \A k \in 1 .. Len(unsent') : unsent'[k] = PieceOf(f, k)
          BY <2>3, <5>1, MessageBegun
        <5>3. Len(fifo[f]) = 0 /\ Len(unsent') \in Nat
          BY <2>3, <4>2, <5>1, MessagePieces
        <5>4. \A k \in 1 .. Len(unsent') : 0 + 0 + k = k
          BY <5>3
        <5>5. QED
          BY <1>2, <2>1, <4>2, <5>2, <5>3, <5>4 DEF Stream, PieceOf
      <4>4. CASE f # "control"
        BY <1>2, <2>1, <2>3, <4>2, <4>4 DEF Stream
      <4>5. QED
        BY <4>3, <4>4
    <3>2. QED
      BY <1>1, <1>2, <3>1 DEF MessageFlow
  <2>4. QED
    BY <2>1, <2>2, <2>3
<1>6. CASE WorkerWrite
  <2>1. PICK p : p = Head(unsent)
    OBVIOUS
  <2>2. /\ w_fifo \in ToPlugin /\ unsent # <<>> /\ unsent \in Seq(Piece) /\ p \in Piece
        /\ fifo' = [fifo EXCEPT ![w_fifo] = Append(@, p)] /\ unsent' = Tail(unsent)
        /\ worker = "write" /\ UNCHANGED <<worker, w_fifo>>
    BY <1>6, <2>1 DEF WorkerWrite, Places, ToPlugin, TypeOK
  <2>3. ASSUME NEW f \in ToPlugin, Unread(f) PROVE Stream(f)'
    <3>1. Stream(f)
      BY <2>3 DEF MessageFlow
    <3>2. CASE f # w_fifo
      <4>1. fifo'[f] = fifo[f] /\ (Unsent(f)' <=> Unsent(f))
        BY <1>3, <2>2, <3>2 DEF Unsent
      <4>2. QED
        BY <1>2, <2>2, <3>1, <3>2, <4>1 DEF Stream, PieceOf
    <3>3. CASE f = w_fifo
      <4>1. PICK s \in Seq(Piece) : s = fifo[f]
        BY <1>3
      <4>2. PICK n \in Nat : n = Len(s)
        OBVIOUS
      <4>3. PICK t \in Nat : t = Taken(f)
        <5>1. Len(incoming) \in Nat
          BY DEF TypeOK
        <5>2. QED
          BY <5>1 DEF Taken
      <4>4. /\ \A k \in 1 .. n : s[k] = PieceOf(f, t + k)
            /\ \A k \in 1 .. Len(unsent) : unsent[k] = PieceOf(f, t + n + k)
        BY <2>2, <3>1, <3>3, <4>1, <4>2, <4>3 DEF Stream
      <4>5. PICK u \in Seq(Piece) : u = unsent /\ u # <<>> /\ p = u[1] /\ Len(u) \in Nat \ {0}
        BY <2>1, <2>2, EmptySeq
      <4>6. /\ fifo'[f] = Append(s, p) /\ Len(Append(s, p)) = n + 1
            /\ \A k \in 1 .. n + 1 : Append(s, p)[k] = IF k = n + 1 THEN p ELSE s[k]
        BY <1>3, <2>2, <3>3, <4>1, <4>2, AppendProperties
      <4>7. unsent' = Tail(u) /\ Len(Tail(u)) = Len(u) - 1
            /\ \A k \in 1 .. Len(u) - 1 : Tail(u)[k] = u[k + 1]
        BY <2>2, <4>5, HeadTailProperties
      <4>8. \A k \in 1 .. n + 1 : fifo'[f][k] = PieceOf(f, t + k)
        <5>1. 1 \in 1 .. Len(unsent) /\ t + n + 1 = t + (n + 1)
          BY <4>5
        <5>2. p = PieceOf(f, t + (n + 1))
          BY <4>4, <4>5, <5>1
        <5>3. \A k \in 1 .. n + 1 : k # n + 1 => k \in 1 .. n
          BY <4>2
        <5>4. QED
          BY <4>4, <4>6, <5>2, <5>3
      <4>9. \A k \in 1 .. Len(u) - 1 : Tail(u)[k] = PieceOf(f, t + (n + 1) + k)
        <5>1. ASSUME NEW k \in 1 .. Len(u) - 1 PROVE Tail(u)[k] = PieceOf(f, t + (n + 1) + k)
          <6>1. k + 1 \in 1 .. Len(u) /\ t + n + (k + 1) = t + (n + 1) + k
            BY <4>5
          <6>2. u[k + 1] = PieceOf(f, t + n + (k + 1))
            BY <4>4, <4>5, <6>1
          <6>3. QED
            BY <4>7, <6>1, <6>2
        <5>2. QED
          BY <5>1
      <4>10. ~Unsent(f)'
        BY <2>2, <3>3 DEF Unsent
      <4>11. Len(fifo'[f]) = n + 1 /\ Len(unsent') = Len(u) - 1
        BY <4>6, <4>7
      <4>12. QED
        BY <1>2, <4>3, <4>7, <4>8, <4>9, <4>10, <4>11 DEF Stream, PieceOf
    <3>4. QED
      BY <3>2, <3>3
  <2>4. QED
    BY <1>1, <1>2, <2>3 DEF MessageFlow
<1>7. CASE WorkerWritten
  <2>1. CASE w_fifo # "control"
    BY <1>1, <1>7, <2>1, MessagesKeptByWorker DEF WorkerWritten
  <2>2. CASE w_fifo = "control"
    <3>1. worker = "write" /\ worker' = "write" /\ fifo' = fifo /\ w_fifo' = "config"
          /\ unsent' = Message(2 * Len(pack))
      BY <1>7, <2>2 DEF WorkerWritten
    <3>2. ASSUME NEW f \in ToPlugin, Unread(f) PROVE Stream(f)'
      <4>1. Stream(f)
        BY <3>2 DEF MessageFlow
      <4>2. CASE f = "control"
        <5>1. Unsent(f) <=> Unsent(f)'
          BY <3>1, <4>2 DEF Unsent
        <5>2. w_fifo' # f
          BY <3>1, <4>2
        <5>3. QED
          BY <1>2, <3>1, <4>1, <5>1, <5>2 DEF Stream, PieceOf
      <4>3. CASE f = "config"
        <5>1. Unsent(f) /\ 2 * Len(pack) = BodySize(f) /\ BodySize(f) \in Nat
          BY <2>2, <3>1, <4>3, MessageBegun DEF Unsent, BodySize
        <5>2. fifo[f] = <<>> /\ Taken(f) = 0
          BY <4>1, <5>1 DEF Stream
        <5>3. \A k \in 1 .. Len(unsent') : unsent'[k] = PieceOf(f, k)
          BY <3>1, <5>1, MessageBegun
        <5>4. Len(fifo[f]) = 0 /\ Len(unsent') \in Nat
          BY <3>1, <5>1, <5>2, MessagePieces
        <5>5. \A k \in 1 .. Len(unsent') : 0 + 0 + k = k
          BY <5>4
        <5>6. QED
          BY <1>2, <3>1, <5>2, <5>3, <5>4, <5>5 DEF Stream, PieceOf
      <4>4. QED
        BY <1>3, <4>2, <4>3
    <3>3. QED
      BY <1>1, <1>2, <3>2 DEF MessageFlow
  <2>3. QED
    BY <2>1, <2>2
<1>8. QED
  BY <1>4, <1>5, <1>6, <1>7 DEF Worker

(* The plugin takes pieces off the FIFO in their order.                      *)
LEMMA MessagesSize ==
  TypeOK /\ ProcessesOrdered /\ Places /\ MessageFlow /\ ReadoutPipeSize => MessageFlow'
<1> SUFFICES ASSUME TypeOK, Places, MessageFlow, ReadoutPipeSize PROVE MessageFlow'
  OBVIOUS
<1>1. UNCHANGED <<worker, w_fifo, unsent, pack, q_fifo>> /\ qemu = "size"
      /\ q_fifo \in {"control", "config"}
  BY DEF ReadoutPipeSize, workerVars, configVars, Places
<1>2. CASE qemu' = "exited" /\ fifo' = fifo
  BY <1>1, <1>2, MessagesKeptByPlugin
<1>3. CASE /\ fifo[q_fifo] # <<>> /\ left' = Head(fifo[q_fifo]).val /\ incoming' = <<>>
           /\ fifo' = [fifo EXCEPT ![q_fifo] = Tail(@)] /\ qemu' = "body"
  <2>1. fifo \in [Fifos -> Seq(Piece)] /\ ToPlugin \subseteq Fifos /\ q_fifo \in ToPlugin
        /\ Unread(q_fifo)
    BY <1>1 DEF TypeOK, ToPlugin, Fifos, Unread
  <2>2. PICK s \in Seq(Piece) : s = fifo[q_fifo] /\ s # <<>>
    BY <1>3, <2>1
  <2>3. Stream(q_fifo) /\ \A f : Taken(f) = 0
    BY <1>1, <2>1 DEF MessageFlow, Taken
  <2>4. PICK n \in Nat : n = Len(s) /\ n > 0
    BY <2>2, EmptySeq
  <2>5. \A k \in 1 .. n : s[k] = PieceOf(q_fifo, k)
    <3>1. \A k \in 1 .. n : s[k] = PieceOf(q_fifo, 0 + k)
      BY <2>2, <2>3, <2>4 DEF Stream
    <3>2. \A k \in 1 .. n : 0 + k = k
      BY <2>4
    <3>3. QED
      BY <3>1, <3>2
  <2>6. Head(s) = s[1] /\ Len(Tail(s)) = n - 1 /\ \A k \in 1 .. n - 1 : Tail(s)[k] = s[k + 1]
    BY <2>2, <2>4, HeadTailProperties
  <2>7. BodySize(q_fifo) \in Nat /\ left' = BodySize(q_fifo)
    <3>1. s[1] = Size(BodySize(q_fifo))
      BY <2>4, <2>5 DEF PieceOf
    <3>2. QED
      BY <1>3, <2>1, <2>2, <2>6, <3>1, MessageBegun DEF Size
  <2>8. /\ left' + Len(incoming') = BodySize(q_fifo)'
        /\ \A k \in 1 .. Len(incoming') : incoming'[k] = Part(k)
    <3>1. incoming' = <<>> /\ Len(<<>>) = 0
      BY <1>3
    <3>2. BodySize(q_fifo)' = BodySize(q_fifo)
      BY <1>1 DEF BodySize
    <3>3. QED
      BY <2>7, <3>1, <3>2
  <2>9. ASSUME NEW f \in ToPlugin, Unread(f)' PROVE Stream(f)'
    <3>1. Unread(f) /\ Stream(f) /\ (Unsent(f)' <=> Unsent(f)) /\ BodySize(f)' = BodySize(f)
      BY <1>1, <1>3, <2>9 DEF Unread, MessageFlow, Unsent, BodySize
    <3>2. CASE f # q_fifo
      <4>1. fifo'[f] = fifo[f] /\ Taken(f)' = 0 /\ Taken(f) = 0
        BY <1>1, <1>3, <2>1, <2>3, <3>2 DEF Taken
      <4>2. QED
        BY <1>1, <3>1, <4>1 DEF Stream, PieceOf
    <3>3. CASE f = q_fifo
      <4>1. fifo'[f] = Tail(s) /\ Taken(f)' = 1 /\ ~Unsent(f)
        <5>1. ~Unsent(f)
          BY <2>2, <3>1, <3>3 DEF Stream
        <5>2. Taken(f)' = 1 + Len(incoming') /\ Len(incoming') = 0
          BY <1>1, <1>3, <3>3 DEF Taken
        <5>3. QED
          BY <1>3, <2>1, <2>2, <3>3, <5>1, <5>2
      <4>2. \A k \in 1 .. n - 1 : Tail(s)[k] = PieceOf(f, 1 + k)
        <5>1. \A k \in 1 .. n - 1 : k + 1 \in 1 .. n /\ k + 1 = 1 + k
          BY <2>4
        <5>2. QED
          BY <2>5, <2>6, <3>3, <5>1
      <4>3. worker = "write" /\ w_fifo = f =>
              \A k \in 1 .. Len(unsent) : unsent[k] = PieceOf(f, 1 + (n - 1) + k)
        <5>1. unsent \in Seq(Piece)
          BY DEF TypeOK
        <5>2. Len(unsent) \in Nat
          BY <5>1
        <5>3. \A k \in 1 .. Len(unsent) : 1 + (n - 1) + k = 0 + n + k
          BY <2>4, <5>2
        <5>4. QED
          BY <2>2, <2>3, <2>4, <3>1, <3>3, <5>3, ZenonT(40) DEF Stream
      <4>4. QED
        BY <1>1, <2>6, <3>1, <4>1, <4>2, <4>3 DEF Stream, PieceOf
    <3>4. QED
      BY <3>2, <3>3
  <2>10. QED
    BY <2>8, <2>9 DEF MessageFlow
<1>4. QED
  BY <1>2, <1>3 DEF ReadoutPipeSize, Abort

LEMMA MessagesPipe == TypeOK /\ Places /\ MessageFlow /\ ReadoutPipe => MessageFlow'
<1> SUFFICES ASSUME TypeOK, Places, MessageFlow, ReadoutPipe PROVE MessageFlow'
  OBVIOUS
<1>1. UNCHANGED <<worker, w_fifo, unsent, pack, qemu, q_fifo>> /\ qemu = "body"
      /\ q_fifo \in {"control", "config"}
  BY DEF ReadoutPipe, workerVars, configVars, Places
<1>2. fifo \in [Fifos -> Seq(Piece)] /\ ToPlugin \subseteq Fifos /\ q_fifo \in ToPlugin
      /\ Unread(q_fifo) /\ \A f : BodySize(f)' = BodySize(f)
  BY <1>1 DEF TypeOK, ToPlugin, Fifos, Unread, BodySize
<1>3. PICK s \in Seq(Piece) : s = fifo[q_fifo]
  BY <1>2
<1>4. PICK n \in Nat : n = Len(s)
  OBVIOUS
<1>5. PICK k \in 1 .. n : /\ k <= left /\ left' = left - k
                          /\ incoming' = incoming \o SubSeq(s, 1, k)
                          /\ fifo' = [fifo EXCEPT ![q_fifo] = SubSeq(s, k + 1, n)]
  BY <1>3, <1>4 DEF ReadoutPipe
<1>6. k \in 0 .. n /\ n = Len(s)
  BY <1>4, <1>5
<1>7. PICK a \in Seq(Piece) : a = SubSeq(s, 1, k) /\ Len(a) = k /\ \A j \in 1 .. k : a[j] = s[j]
  BY <1>6, TakenPieces
<1>8. PICK b \in Seq(Piece) : b = SubSeq(s, k + 1, n) /\ Len(b) = n - k
                              /\ \A j \in 1 .. n - k : b[j] = s[k + j]
  BY <1>6, TakenPieces
<1>9. PICK i \in Seq(Piece) : i = incoming
  BY DEF TypeOK
<1>10. PICK m \in Nat : m = Len(i) /\ left \in Nat /\ left + m = BodySize(q_fifo)
                       /\ \A j \in 1 .. m : i[j] = Part(j)
  BY <1>1, <1>9 DEF MessageFlow, TypeOK
<1>11. Taken(q_fifo) = 1 + m /\ \A f : f # q_fifo => Taken(f) = 0 /\ Taken(f)' = 0
  BY <1>1, <1>9, <1>10 DEF Taken
<1>12. /\ incoming' \in Seq(Piece) /\ Len(incoming') = m + k
       /\ \A j \in 1 .. m + k : incoming'[j] = IF j <= m THEN i[j] ELSE a[j - m]
  <2>1. i \o a \in Seq(Piece) /\ Len(i \o a) = Len(i) + Len(a)
        /\ \A j \in 1 .. Len(i) + Len(a) : (i \o a)[j] = IF j <= Len(i) THEN i[j] ELSE a[j - Len(i)]
    BY ConcatProperties
  <2>2. QED
    BY <1>5, <1>7, <1>9, <1>10, <2>1
<1>13. \A j \in 1 .. n : s[j] = Part(m + j)
  <2>1. \A j \in 1 .. n : s[j] = PieceOf(q_fifo, 1 + m + j)
    BY <1>2, <1>3, <1>4, <1>11 DEF MessageFlow, Stream
  <2>2. \A j \in 1 .. n : 1 + m + j # 1 /\ (1 + m + j) - 1 = m + j
    BY <1>4, <1>10
  <2>3. QED
    BY <2>1, <2>2 DEF PieceOf
<1>14. left' + Len(incoming') = BodySize(q_fifo)'
       /\ \A j \in 1 .. Len(incoming') : incoming'[j] = Part(j)
  <2>1. BodySize(q_fifo)' = BodySize(q_fifo)
    BY <1>1 DEF BodySize
  <2>2. left - k + (m + k) = left + m
    BY <1>5, <1>10
  <2>3. \A j \in 1 .. m + k : j > m => j - m \in 1 .. k /\ j - m \in 1 .. n /\ m + (j - m) = j
    BY <1>4, <1>5, <1>10
  <2>4. \A j \in 1 .. m + k : ~(j > m) => j \in 1 .. m /\ j <= m
    BY <1>5, <1>10
  <2>5. \A j \in 1 .. m + k : j > m => ~(j <= m)
    BY <1>5, <1>10
  <2>6. ASSUME NEW j \in 1 .. m + k PROVE incoming'[j] = Part(j)
    <3>1. CASE j > m
      BY <1>7, <1>12, <1>13, <2>3, <2>5, <3>1
    <3>2. CASE ~(j > m)
      BY <1>10, <1>12, <2>4, <3>2
    <3>3. QED
      BY <3>1, <3>2
  <2>7. QED
    BY <1>5, <1>10, <1>12, <2>1, <2>2, <2>6
<1>15. ASSUME NEW f \in ToPlugin, Unread(f)' PROVE Stream(f)'
  <2>1. Unread(f) /\ Stream(f) /\ (Unsent(f)' <=> Unsent(f)) /\ BodySize(f)' = BodySize(f)
    BY <1>1, <1>2, <1>15 DEF Unread, MessageFlow, Unsent
  <2>2. CASE f # q_fifo
    <3>1. fifo'[f] = fifo[f] /\ Taken(f)' = 0 /\ Taken(f) = 0
      BY <1>2, <1>5, <1>11, <2>2
    <3>2. QED
      BY <1>1, <2>1, <3>1 DEF Stream, PieceOf
  <2>3. CASE f = q_fifo
    <3>1. fifo'[f] = b /\ Taken(f)' = 1 + (m + k)
      BY <1>1, <1>2, <1>5, <1>8, <1>12, <2>3 DEF Taken
    <3>2. ~Unsent(f)
      <4>1. s # <<>>
        BY <1>4, <1>5, EmptySeq
      <4>2. QED
        BY <1>3, <2>1, <2>3, <4>1 DEF Stream
    <3>3. \A j \in 1 .. n - k : b[j] = PieceOf(f, 1 + (m + k) + j)
      <4>1. \A j \in 1 .. n - k : k + j \in 1 .. n /\ 1 + m + (k + j) = 1 + (m + k) + j
        BY <1>4, <1>5, <1>10
      <4>2. \A j \in 1 .. n : s[j] = PieceOf(f, 1 + m + j)
        BY <1>3, <1>4, <1>11, <2>1, <2>3 DEF Stream
      <4>3. QED
        BY <1>8, <4>1, <4>2
    <3>4. worker = "write" /\ w_fifo = f =>
            \A j \in 1 .. Len(unsent) : unsent[j] = PieceOf(f, 1 + (m + k) + (n - k) + j)
      <4>1. unsent \in Seq(Piece)
        BY DEF TypeOK
      <4>2. Len(unsent) \in Nat
        BY <4>1
      <4>3. \A j \in 1 .. Len(unsent) : 1 + (m + k) + (n - k) + j = 1 + m + n + j
        BY <1>4, <1>5, <1>10, <4>2
      <4>4. QED
        BY <1>3, <1>4, <1>11, <2>1, <2>3, <4>3, ZenonT(40) DEF Stream
    <3>5. QED
      BY <1>1, <1>8, <2>1, <3>1, <3>2, <3>3, <3>4, ZenonT(40) DEF Stream, PieceOf
  <2>4. QED
    BY <2>2, <2>3
<1>16. QED
  BY <1>1, <1>14, <1>15 DEF MessageFlow

LEMMA MessagesPlugin ==
  TypeOK /\ ProcessesOrdered /\ Places /\ MessageFlow
  /\ (Plugin \/ QemuFails \/ GuestEnds \/ HandleAbort) => MessageFlow'
<1> SUFFICES ASSUME TypeOK, ProcessesOrdered, Places, MessageFlow,
                    Plugin \/ QemuFails \/ GuestEnds \/ HandleAbort
             PROVE  MessageFlow'
  OBVIOUS
<1>1. CASE PluginInstall \/ ParseArgs \/ QemuSetupConfig \/ SetupFault
           \/ register_fault_trigger_addresses \/ QemuExits \/ QemuTerminates \/ QemuFails
           \/ ReportBegins
  <2>1. UNCHANGED <<worker, w_fifo, unsent, pack, fifo>>
    BY <1>1 DEF PluginInstall, ParseArgs, QemuSetupConfig, SetupFault,
                register_fault_trigger_addresses, QemuExits, QemuTerminates, QemuFails,
                ReportBegins, workerVars, configVars
  <2>2. \/ qemu' \in {"setup", "guest", "report", "exited"}
        \/ qemu \in {"none", "starting", "open"} /\ qemu' \in {"starting", "open", "size"}
    BY <1>1 DEF PluginInstall, ParseArgs, QemuSetupConfig, SetupFault,
                register_fault_trigger_addresses, QemuExits, QemuTerminates, QemuFails,
                ReportBegins, StartGuest, Abort
  <2>3. QED
    BY <2>1, <2>2, MessagesKeptByPlugin
<1>2. CASE WriteToDataPipe
  BY <1>2 DEF WriteToDataPipe, MessageFlow, Unread
<1>3. CASE ReadoutControl
  <2>1. UNCHANGED <<worker, w_fifo, unsent, pack, fifo>> /\ qemu = "body" /\ q_fifo = "control"
        /\ (qemu' = "exited" \/ (qemu' = "size" /\ q_fifo' = "config"))
    BY <1>3 DEF ReadoutControl, Abort, workerVars, configVars
  <2>2. CASE qemu' = "exited"
    BY <2>1, <2>2, MessagesKeptByPlugin
  <2>3. CASE qemu' = "size" /\ q_fifo' = "config"
    <3>1. ASSUME NEW f \in ToPlugin, Unread(f)' PROVE Stream(f)'
      <4>1. f = "config" /\ Unread(f) /\ Stream(f) /\ Taken(f) = 0 /\ Taken(f)' = 0
            /\ (Unsent(f)' <=> Unsent(f)) /\ BodySize(f)' = BodySize(f)
        BY <2>1, <2>3, <3>1 DEF Unread, MessageFlow, Taken, Unsent, BodySize, ToPlugin
      <4>2. QED
        BY <2>1, <4>1 DEF Stream, PieceOf
    <3>2. QED
      BY <2>3, <3>1 DEF MessageFlow
  <2>4. QED
    BY <2>1, <2>2, <2>3
<1>4. QED
  BY <1>1, <1>2, <1>3, MessagesSize, MessagesPipe DEF Plugin, GuestEnds, HandleAbort

LEMMA MessagesStep ==
  TypeOK /\ ProcessesOrdered /\ Places /\ MessageFlow /\ [Next]_vars => MessageFlow'
<1> SUFFICES ASSUME TypeOK, ProcessesOrdered, Places, MessageFlow, [Next]_vars PROVE MessageFlow'
  OBVIOUS
<1>1. CASE RunQemu
  <2>1. UNCHANGED <<worker, w_fifo, unsent, pack, fifo, q_fifo, incoming, left>>
        /\ (qemu' = qemu \/ (qemu = "none" /\ qemu' = "starting"))
    BY <1>1 DEF RunQemu, NameProcess, Popen, Communicate, ProcessesOrdered, workerVars, qemuVars,
                setupVars, configVars
  <2>2. QED
    BY <2>1, MessagesKeptByWorker, MessagesKeptByPlugin
<1>2. CASE Timeout \/ CollectWorker \/ KillWorker \/ (\E s \in Signals : StopSignal(s))
           \/ UNCHANGED vars
  <2>1. UNCHANGED <<w_fifo, unsent, pack, fifo, qemu, q_fifo, incoming, left>>
        /\ (worker' = worker \/ worker' \in {"interrupted", "killed"})
    BY <1>2 DEF Timeout, CollectWorker, KillWorker, StopSignal, vars, workerVars, qemuVars,
                setupVars, configVars
  <2>2. QED
    BY <2>1, MessagesKeptByWorker
<1>3. QED
  BY <1>1, <1>2, MessagesWorker, MessagesPlugin DEF Next, Step

-----------------------------------------------------------------------------
(* The messages arrive whole, so that the plugin never gives up over one,   *)
(* and a QEMU with a living worker ends only for a reason.                  *)
LEMMA ControlUnpacks ==
  TypeOK /\ Places /\ MessageFlow /\ ReadoutControl =>
    /\ tb_counter_max' = ToInt(max_instruction_count) /\ fault_number' = Len(pack)
    /\ qemu' = "size" /\ q_fifo' = "config"
<1> SUFFICES ASSUME TypeOK, Places, MessageFlow, ReadoutControl
             PROVE  /\ tb_counter_max' = ToInt(max_instruction_count) /\ fault_number' = Len(pack)
                    /\ qemu' = "size" /\ q_fifo' = "config"
  OBVIOUS
<1>1. qemu = "body" /\ left = 0 /\ q_fifo = "control"
  BY DEF ReadoutControl
<1>2. incoming = Parts(ControlSize)
  BY <1>1, MessageComplete DEF BodySize
<1>3. QED
  BY <1>2 DEF ReadoutControl

LEMMA ConfigUnpacks == TypeOK /\ Places /\ MessageFlow /\ QemuSetupConfig => qemu' = "setup"
<1> SUFFICES ASSUME TypeOK, Places, MessageFlow, QemuSetupConfig PROVE qemu' = "setup"
  OBVIOUS
<1>1. qemu = "body" /\ left = 0 /\ q_fifo = "config"
  BY DEF QemuSetupConfig
<1>2. incoming = Parts(2 * Len(pack))
  BY <1>1, MessageComplete DEF BodySize
<1>3. QED
  BY <1>2 DEF QemuSetupConfig

LEMMA ReportStep ==
  TypeOK /\ ProcessesOrdered /\ Places /\ MessageFlow /\ ReportFlow /\ [Next]_vars => ReportFlow'
<1> SUFFICES ASSUME TypeOK, ProcessesOrdered, Places, MessageFlow, ReportFlow, [Next]_vars
             PROVE  ReportFlow'
  OBVIOUS
<1>1. CASE ReadoutControl \/ QemuSetupConfig
  <2>1. qemu = "body" /\ qemu' \in {"size", "setup"}
    BY <1>1, ControlUnpacks, ConfigUnpacks DEF ReadoutControl, QemuSetupConfig
  <2>2. UNCHANGED <<worker, fifo, received, unwritten, report>>
    BY <1>1 DEF ReadoutControl, QemuSetupConfig, workerVars, reportVars
  <2>3. QED
    BY <2>1, <2>2 DEF ReportFlow, WorkerAlive
<1>2. QED
  BY <1>1, ReportWorker, ReportPlugin, ReportOthers DEF Next, Step, Plugin

-----------------------------------------------------------------------------
(* What the plugin has of the configuration: the limit from the control     *)
(* message on, the faults one by one, the first of the pack at the end of   *)
(* the list.                                                                *)
Configuring ==
  /\ (qemu \in {"size", "body"} /\ q_fifo = "config") \/ qemu = "setup" \/ Configured =>
       tb_counter_max = ToInt(max_instruction_count)
  /\ Len(fault_list) <= Len(pack)
  /\ fault_list # <<>> => fault_list[Len(fault_list)] = pack[1]
  /\ Configured => fault_number = Len(pack) /\ Len(fault_list) = Len(pack)

LEMMA ConfiguringInit == Init => Configuring
<1> SUFFICES ASSUME Init PROVE Configuring
  OBVIOUS
<1>1. fault_list = <<>> /\ qemu = "none" /\ report = <<>> /\ pack \in Packs
  BY DEF Init
<1>2. Len(fault_list) = 0 /\ Len(pack) \in Nat
  BY <1>1, HandshakeAssumption
<1>3. QED
  BY <1>1, <1>2 DEF Configuring, Configured

LEMMA ConfiguringPlugin ==
  TypeOK /\ Places /\ MessageFlow /\ ReportFlow /\ Configuring
  /\ (Plugin \/ QemuFails \/ GuestEnds \/ HandleAbort) => Configuring'
<1> SUFFICES ASSUME TypeOK, Places, MessageFlow, ReportFlow, Configuring,
                    Plugin \/ QemuFails \/ GuestEnds \/ HandleAbort
             PROVE  Configuring'
  OBVIOUS
<1>1. UNCHANGED configVars
  BY DEF Plugin, PluginInstall, ParseArgs, ReadoutPipeSize, ReadoutPipe, ReadoutControl,
         QemuSetupConfig, SetupFault, register_fault_trigger_addresses, WriteToDataPipe, QemuExits,
         QemuTerminates, QemuFails, GuestEnds, HandleAbort, ReportBegins
<1>2. CASE PluginInstall \/ ParseArgs \/ ReadoutPipeSize \/ ReadoutPipe \/ QemuSetupConfig
           \/ WriteToDataPipe \/ QemuExits \/ QemuTerminates \/ QemuFails
  <2>1. UNCHANGED <<tb_counter_max, fault_number, fault_list, report>>
    BY <1>2 DEF PluginInstall, ParseArgs, ReadoutPipeSize, ReadoutPipe, QemuSetupConfig,
           WriteToDataPipe, QemuExits, QemuTerminates, QemuFails, setupVars, reportVars
  <2>2. /\ qemu' \notin {"guest"} /\ (qemu' = "report" => qemu = "report")
        /\ (qemu' = "setup" => qemu = "body" /\ q_fifo = "config")
        /\ (qemu' \in {"size", "body"} /\ q_fifo' = "config" =>
              qemu \in {"size", "body"} /\ q_fifo = "config")
    BY <1>2 DEF PluginInstall, ParseArgs, ReadoutPipeSize, ReadoutPipe, QemuSetupConfig,
           WriteToDataPipe, QemuExits, QemuTerminates, QemuFails, Abort
  <2>3. QED
    BY <1>1, <2>1, <2>2 DEF Configuring, Configured, configVars
<1>3. CASE ReadoutControl
  <2>1. /\ tb_counter_max' = ToInt(max_instruction_count) /\ fault_number' = Len(pack)
        /\ qemu' = "size" /\ q_fifo' = "config" /\ qemu = "body"
        /\ UNCHANGED <<fault_list, report>>
    BY <1>3, ControlUnpacks DEF ReadoutControl, reportVars
  <2>2. ~Configured'
    BY <2>1 DEF Configured, ReportFlow
  <2>3. QED
    BY <1>1, <2>1, <2>2 DEF Configuring, configVars, ToInt
<1>4. CASE SetupFault
  <2>1. PICK f \in FaultArray(Len(fault_list)) : fault_list' = add_fault(fault_list, f)
    BY <1>4 DEF SetupFault
  <2>2. /\ qemu = "setup" /\ Len(fault_list) < Len(pack)
        /\ UNCHANGED <<tb_counter_max, fault_number, report, qemu, q_fifo>>
    BY <1>4 DEF SetupFault, reportVars
  <2>3. PICK l \in Seq(FaultValues) : l = fault_list
    BY DEF TypeOK
  <2>4. Len(l) \in Nat /\ (l = <<>> <=> Len(l) = 0) /\ Len(pack) \in Nat
    BY PackSize, EmptySeq
  <2>5. f \in FaultValues /\ (l = <<>> => f = pack[1])
    BY <2>1, <2>3, <2>4, PackSize DEF FaultArray
  <2>6. /\ Len(fault_list') = Len(l) + 1 /\ fault_list' # <<>>
        /\ fault_list'[Len(l) + 1] = IF l = <<>> THEN f ELSE l[Len(l)]
    BY <2>1, <2>3, <2>5, AddedFault
  <2>7. Len(fault_list') <= Len(pack) /\ fault_list'[Len(fault_list')] = pack[1]
    BY <2>2, <2>3, <2>4, <2>5, <2>6 DEF Configuring
  <2>8. ~Configured'
    BY <2>2 DEF Configured, ReportFlow
  <2>9. QED
    BY <1>1, <2>2, <2>7, <2>8 DEF Configuring, configVars, ToInt
<1>5. CASE register_fault_trigger_addresses
  BY <1>1, <1>5 DEF register_fault_trigger_addresses, StartGuest, Configuring, Configured,
                    reportVars, configVars, ReportFlow
<1>6. CASE ReportBegins
  BY <1>1, <1>6 DEF ReportBegins, Configuring, Configured, setupVars, configVars
<1>7. QED
  BY <1>2, <1>3, <1>4, <1>5, <1>6 DEF Plugin, GuestEnds, HandleAbort

LEMMA ConfiguringStep ==
  TypeOK /\ ProcessesOrdered /\ Places /\ MessageFlow /\ ReportFlow /\ Configuring /\ [Next]_vars
  => Configuring'
<1> SUFFICES ASSUME TypeOK, ProcessesOrdered, Places, MessageFlow, ReportFlow, Configuring,
                    [Next]_vars
             PROVE  Configuring'
  OBVIOUS
<1>1. ASSUME Worker \/ RunQemu \/ Timeout \/ CollectWorker \/ KillWorker
             \/ (\E s \in Signals : StopSignal(s)) \/ UNCHANGED vars
      PROVE  Configuring'
  <2>1. UNCHANGED <<pack, max_instruction_count, tb_counter_max, fault_number, fault_list, report,
                    q_fifo>>
    BY <1>1 DEF Worker, StartQemu, WorkerOpen, WorkerWrite, WorkerWritten, WorkerBrokenPipe,
         WorkerRead, WorkerEof, PutOutput, WorkerJoin, RunQemu, NameProcess, Popen, Communicate,
         Timeout, CollectWorker, KillWorker, StopSignal, vars, qemuVars, setupVars, reportVars,
         configVars
  <2>2. qemu' = qemu \/ qemu' = "starting"
    BY <1>1 DEF Worker, StartQemu, WorkerOpen, WorkerWrite, WorkerWritten, WorkerBrokenPipe,
         WorkerRead, WorkerEof, PutOutput, WorkerJoin, RunQemu, NameProcess, Popen, Communicate,
         Timeout, CollectWorker, KillWorker, StopSignal, vars, qemuVars
  <2>3. QED
    BY <2>1, <2>2 DEF Configuring, Configured, ToInt
<1>2. QED
  BY <1>1, ConfiguringPlugin DEF Next, Step

-----------------------------------------------------------------------------
(* An output is the whole report, or there was none.                        *)
OutputWhole == output # <<>> => received = report /\ (failed \/ terminating \/ report # <<>>)

LEMMA OutputInit == Init => OutputWhole
  BY DEF Init, OutputWhole

LEMMA OutputStep ==
  TypeOK /\ Places /\ ReportFlow /\ OutputWhole /\ [Next]_vars => OutputWhole'
<1> SUFFICES ASSUME TypeOK, Places, ReportFlow, OutputWhole, [Next]_vars PROVE OutputWhole'
  OBVIOUS
<1>1. CASE PutOutput
  <2>1. worker = "post" /\ UNCHANGED <<received, report, failed, terminating>>
    BY <1>1 DEF PutOutput, qemuVars, reportVars
  <2>2. qemu = "exited" /\ fifo["data"] = <<>> /\ WorkerAlive
    BY <2>1 DEF Places, WorkerAlive
  <2>3. unwritten = <<>> /\ (failed \/ terminating \/ report # <<>>)
    BY <2>2 DEF ReportFlow
  <2>4. received \in Seq(Piece)
    BY DEF TypeOK
  <2>5. received = report
    BY <2>2, <2>3, <2>4, ConcatEmptySeq DEF ReportFlow
  <2>6. QED
    BY <2>1, <2>3, <2>5 DEF OutputWhole
<1>2. CASE ~PutOutput
  <2>1. output' = output
    BY <1>2 DEF Next, Step, Worker, StartQemu, WorkerOpen, WorkerWrite, WorkerWritten,
         WorkerBrokenPipe, WorkerRead, WorkerEof, WorkerJoin, RunQemu, NameProcess, Popen,
         Communicate, Timeout, CollectWorker, KillWorker, StopSignal, Plugin, PluginInstall,
         ParseArgs, ReadoutPipeSize, ReadoutPipe, ReadoutControl, QemuSetupConfig, SetupFault,
         register_fault_trigger_addresses, WriteToDataPipe, QemuExits, QemuTerminates, QemuFails,
         GuestEnds, HandleAbort, ReportBegins, vars, workerVars
  <2>2. CASE output = <<>>
    BY <2>1, <2>2 DEF OutputWhole
  <2>3. CASE output # <<>>
    <3>1. qemu = "exited" /\ worker # "read"
      BY <2>3 DEF Places
    <3>2. UNCHANGED <<received, report>>
      BY <3>1 DEF Next, Step, Worker, StartQemu, WorkerOpen, WorkerWrite, WorkerWritten,
         WorkerBrokenPipe, WorkerRead, WorkerEof, PutOutput, WorkerJoin, RunQemu, NameProcess,
         Popen, Communicate, Timeout, CollectWorker, KillWorker, StopSignal, Plugin, PluginInstall,
         ParseArgs, ReadoutPipeSize, ReadoutPipe, ReadoutControl, QemuSetupConfig, SetupFault,
         register_fault_trigger_addresses, WriteToDataPipe, QemuExits, QemuTerminates, QemuFails,
         GuestEnds, HandleAbort, ReportBegins, vars, workerVars, qemuVars, reportVars
    <3>3. failed => failed'
      BY <3>1 DEF Next, Step, Worker, StartQemu, WorkerOpen, WorkerWrite, WorkerWritten,
         WorkerBrokenPipe, WorkerRead, WorkerEof, PutOutput, WorkerJoin, RunQemu, NameProcess,
         Popen, Communicate, Timeout, CollectWorker, KillWorker, StopSignal, Plugin, PluginInstall,
         ParseArgs, ReadoutPipeSize, ReadoutPipe, ReadoutControl, QemuSetupConfig, SetupFault,
         register_fault_trigger_addresses, WriteToDataPipe, QemuExits, QemuTerminates, QemuFails,
         GuestEnds, HandleAbort, ReportBegins, vars, qemuVars
    <3>4. terminating => terminating'
      BY DEF Next, Step, Worker, StartQemu, WorkerOpen, WorkerWrite, WorkerWritten,
         WorkerBrokenPipe, WorkerRead, WorkerEof, PutOutput, WorkerJoin, RunQemu, NameProcess,
         Popen, Communicate, Timeout, CollectWorker, KillWorker, StopSignal, Plugin, PluginInstall,
         ParseArgs, ReadoutPipeSize, ReadoutPipe, ReadoutControl, QemuSetupConfig, SetupFault,
         register_fault_trigger_addresses, WriteToDataPipe, QemuExits, QemuTerminates, QemuFails,
         GuestEnds, HandleAbort, ReportBegins, vars
    <3>5. QED
      BY <2>1, <2>3, <3>2, <3>3, <3>4 DEF OutputWhole
  <2>4. QED
    BY <2>2, <2>3
<1>3. QED
  BY <1>1, <1>2

-----------------------------------------------------------------------------
(* Together they are inductive.                                             *)
Inductive == TypeOK /\ ProcessesOrdered /\ Places /\ MessageFlow /\ ReportFlow /\ Configuring
             /\ OutputWhole

LEMMA InductiveInvariant == Spec => []Inductive
<1>1. Init => Inductive
  BY TypesInit, OrderedInit, PlacesInit, MessagesInit, ReportInit, ConfiguringInit,
     OutputInit DEF Inductive
<1>2. Inductive /\ [Next]_vars => Inductive'
  BY TypesStep, OrderedStep, PlacesStep, MessagesStep, ReportStep, ConfiguringStep, OutputStep
     DEF Inductive
<1>3. QED
  BY <1>1, <1>2, PTL DEF Spec

(* Whatever the order of reads, writes, signals and failures: a guest that  *)
(* runs has the number of faults of the pack, its first fault and, as far   *)
(* as an int holds it, the limit (readout_control_qemu, qemu_setup_config). *)
THEOREM ConfigArrives == Spec => []ConfigTaken
<1>1. Inductive => ConfigTaken
  <2> SUFFICES ASSUME Inductive, Configured PROVE ConfigTaken
    BY DEF ConfigTaken
  <2>1. TypeOK /\ Configuring
    BY DEF Inductive
  <2>2. Len(pack) \in Nat \ {0} /\ max_instruction_count \in Nat
    BY <2>1, PackSize
  <2>3. fault_number = Len(pack) /\ Len(fault_list) = Len(pack)
        /\ tb_counter_max = ToInt(max_instruction_count)
    BY <2>1 DEF Configuring
  <2>4. fault_list # <<>>
    BY <2>2, <2>3
  <2>5. fault_list[Len(pack)] = pack[1]
    BY <2>1, <2>3, <2>4 DEF Configuring
  <2>6. QED
    BY <2>2, <2>3, <2>5, ToIntType DEF ConfigTaken
<1>2. QED
  BY <1>1, InductiveInvariant, PTL

(* An output that holds nothing was not lost: its QEMU failed or was made   *)
(* to end (plugin_write_to_data_pipe, readout_data).                        *)
THEOREM NothingLost == Spec => []EmptyOnlyIfStopped
<1>1. Inductive => EmptyOnlyIfStopped
  <2> SUFFICES ASSUME Inductive, output = << <<>> >> PROVE failed \/ terminating
    BY DEF EmptyOnlyIfStopped
  <2>1. output = <<received>> /\ received = report /\ (failed \/ terminating \/ report # <<>>)
    BY DEF Inductive, Places, OutputWhole
  <2>2. received = <<>>
    BY <2>1
  <2>3. QED
    BY <2>1, <2>2
<1>2. QED
  BY <1>1, InductiveInvariant, PTL

-----------------------------------------------------------------------------
(* The experiment's promise.  The output is handed in by PutOutput, and the *)
(* worker ends by WorkerJoin or KillWorker; whatever else happens is none   *)
(* of the campaign's business.                                              *)
LEMMA PromiseInit == Init => Promise!Init
  BY DEF Init, Promise!Init, Phase, Result, WorkerAlive

LEMMA PromiseStep ==
  Inductive /\ Inductive' /\ [Next]_vars => [Promise!Next]_<<Phase, Result>>
<1> SUFFICES ASSUME Inductive, Inductive', [Next]_vars
             PROVE  Promise!Next \/ UNCHANGED <<Phase, Result>>
  OBVIOUS
<1>1. /\ Places /\ (output # <<>> => output = <<received>> /\ received = report)
      /\ (output' # <<>> => output' = <<received'>> /\ received' = report')
  BY DEF Inductive, Places, OutputWhole
<1>2. CASE PutOutput
  <2>1. worker = "post" /\ worker' = "join" /\ output' = Append(output, received)
    BY <1>2 DEF PutOutput
  <2>2. output = <<>>
    BY <1>1, <2>1 DEF Places
  <2>3. output' = <<received>>
    BY <2>1, <2>2
  <2>4. output' # <<>>
    BY <2>3
  <2>5. output' = <<report'>>
    BY <1>1, <2>4
  <2>6. Phase = "running" /\ Phase' = "reported"
    BY <2>1, <2>2, <2>4 DEF Phase, WorkerAlive
  <2>7. Result' \in {"empty", "whole"}
    BY <2>4, <2>5 DEF Result
  <2>8. Promise!HandIn
    BY <2>6, <2>7 DEF Promise!HandIn
  <2>9. QED
    BY <2>8 DEF Promise!Next
<1>3. CASE WorkerJoin \/ KillWorker
  <2>1. UNCHANGED <<output, report>> /\ WorkerAlive /\ ~WorkerAlive'
    BY <1>3 DEF WorkerJoin, KillWorker, WorkerAlive, qemuVars, reportVars
  <2>2. Phase \in {"running", "reported"} /\ Phase' = "ended" /\ Result' = Result
    BY <2>1 DEF Phase, Result
  <2>3. QED
    BY <2>2 DEF Promise!Next, Promise!End
<1>4. CASE ~PutOutput /\ ~WorkerJoin /\ ~KillWorker
  <2>1. output' = output /\ WorkerAlive' = WorkerAlive
    BY <1>4 DEF Next, Step, Worker, StartQemu, WorkerOpen, WorkerWrite, WorkerWritten,
         WorkerBrokenPipe, WorkerRead, WorkerEof, RunQemu, NameProcess, Popen,
         Communicate, Timeout, CollectWorker, StopSignal, Plugin, PluginInstall,
         ParseArgs, ReadoutPipeSize, ReadoutPipe, ReadoutControl, QemuSetupConfig, SetupFault,
         register_fault_trigger_addresses, WriteToDataPipe, QemuExits, QemuTerminates, QemuFails,
         GuestEnds, HandleAbort, ReportBegins, vars, workerVars, WorkerAlive
  <2>2. CASE output = <<>>
    BY <2>1, <2>2 DEF Phase, Result
  <2>3. CASE output # <<>>
    <3>1. output = <<report>> /\ output' = <<report'>>
      BY <1>1, <2>1, <2>3
    <3>2. QED
      BY <2>1, <2>3, <3>1 DEF Phase, Result
  <2>4. QED
    BY <2>2, <2>3
<1>5. QED
  BY <1>2, <1>3, <1>4

(* One output at most, of the whole report or of nothing, and none after    *)
(* the worker's end (readout_data, python_worker).                          *)
THEOREM ExperimentKept == Spec => ImplementsExperiment
<1>1. Spec => Promise!Init /\ [][Promise!Next]_<<Phase, Result>>
  BY PromiseInit, PromiseStep, InductiveInvariant, PTL DEF Spec
<1>2. QED
  BY <1>1 DEF ImplementsExperiment, Promise!Spec
=============================================================================
