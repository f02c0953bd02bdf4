----------------------------- MODULE Handshake -----------------------------
(***************************************************************************)
(* One experiment of a campaign: the worker (faultclass.py, python_worker) *)
(* with its process for QEMU (run_qemu), the three FIFOs, the plugin in    *)
(* QEMU from qemu_plugin_install to the end of its report, and what the    *)
(* controller does about the experiment (controller.py): the timeout and   *)
(* the stop signal.                                                        *)
(*                                                                         *)
(* A message is its size line and the parts of its body, a part being what *)
(* one read or write may stop at; a FIFO holds PipeCapacity of them.       *)
(* QEMU is external.  Assumed of it: it ends on SIGTERM and SIGINT, only a *)
(* report whose write has begun is written to its end first; it ignores    *)
(* SIGPIPE; what it holds open is closed when it ends.  Assumed of psutil: *)
(* process_iter lists a process that has ended until it is joined.         *)
(***************************************************************************)
EXTENDS Integers, Sequences, SequencesExt

CONSTANTS
  Packs,          \* the fault lists of experiments, in the order of the list
  FaultValues,    \* faults that reading past the first of a pack may give
  Limits,         \* values of max_instruction_count
  IntMax,         \* INT_MAX: tb_counter_max is an int
  PipeCapacity,   \* what a FIFO holds
  ControlSize,    \* parts of the control message
  ReportSizes,    \* parts of a report
  Failures,       \* how QEMU may fail: "early", before it opens a FIFO;
                  \* "late", with the guest running
  Signals         \* who a stop signal reaches: "controller"; "group", everyone

ASSUME HandshakeAssumption ==
  /\ \A p \in Packs : p # <<>> /\ p \in Seq(FaultValues)
  /\ Limits \subseteq Nat /\ IntMax \in Nat
  /\ PipeCapacity \in Nat \ {0} /\ ControlSize \in Nat \ {0}
  /\ ReportSizes \subseteq Nat \ {0}
  /\ Failures \subseteq {"early", "late"} /\ Signals \subseteq {"controller", "group"}

Fifos == {"control", "config", "data"}

VARIABLES
  pack, max_instruction_count,     \* this experiment's configuration
  fifo,            \* contents of the FIFOs
  w_arrived,       \* FIFOs the worker has come to open
  q_arrived,       \* FIFOs the plugin has come to open
  met,             \* FIFOs the two have met at
  (* worker *)
  worker, w_fifo,  \* where it is, and with which FIFO
  unsent,          \* what is left of the message it writes
  received,        \* what it has read of the report
  output,          \* what it put into the queue
  (* its process for QEMU, controller *)
  run_qemu, watch, timed_out, stop_signal_received,
  (* QEMU *)
  qemu, q_fifo, terminating,
  left, incoming,  \* what is left of the message to read, and its parts so far
  tb_counter_max, fault_number, fault_list,
  report, unwritten,               \* the parts of the report, and those not written
  failed           \* history: QEMU failed

configVars == <<pack, max_instruction_count>>
workerVars == <<worker, w_fifo, unsent, received, output, w_arrived>>
controllerVars == <<watch, timed_out, stop_signal_received>>
setupVars  == <<left, incoming, tb_counter_max, fault_number, fault_list>>
reportVars == <<report, unwritten>>
qemuVars   == <<qemu, q_fifo, q_arrived, setupVars, reportVars, failed>>
vars == <<configVars, fifo, met, workerVars, run_qemu, controllerVars, terminating,
          qemuVars>>

Size(n) == [kind |-> "size", val |-> n]
Part(k) == [kind |-> "part", val |-> k]
Parts(n) == [k \in 1 .. n |-> Part(k)]
Message(n) == <<Size(n)>> \o Parts(n)
Piece == [kind : {"size", "part"}, val : Nat]

(* The order in which each side opens the FIFOs.                           *)
WorkerOrderSwapped == <<"control", "data", "config">>     \* wrong variant: another order
WorkerOrder == <<"control", "config", "data">>
PluginOrder == <<"control", "config", "data">>
NextFifo(order, f) == order[1 + CHOOSE i \in 1 .. 2 : order[i] = f]

RoomOfNext(f) == PipeCapacity - Len(fifo[f]) + 1          \* wrong variant: one too many
Room(f) == PipeCapacity - Len(fifo[f])

WorkerAlive == worker \notin {"ended", "killed"}
QemuAlive   == qemu \notin {"none", "exited"}

(* Opening a FIFO blocks until the other side is there, at this moment or  *)
(* later.                                                                  *)
WorkerComes(f) ==
  /\ w_arrived' = w_arrived \cup {f}
  /\ met' = IF f \in q_arrived /\ QemuAlive THEN met \cup {f} ELSE met
PluginComes(f) ==
  /\ q_arrived' = q_arrived \cup {f}
  /\ met' = IF f \in w_arrived /\ WorkerAlive THEN met \cup {f} ELSE met

(* A value converted to int, which has 2 * (IntMax + 1) values.            *)
ToInt(n) ==
  LET m == n % (2 * (IntMax + 1))
  IN  IF m > IntMax THEN m - 2 * (IntMax + 1) ELSE m

Init ==
  /\ pack \in Packs /\ max_instruction_count \in Limits
  /\ fifo = [f \in Fifos |-> <<>>]
  /\ w_arrived = {} /\ q_arrived = {} /\ met = {}
  /\ worker = "start" /\ w_fifo = "control"
  /\ unsent = <<>> /\ received = <<>> /\ output = <<>>
  /\ run_qemu = "none" /\ watch = "watching"
  /\ timed_out = FALSE /\ stop_signal_received = FALSE
  /\ qemu = "none" /\ q_fifo = "control" /\ terminating = FALSE
  /\ left = 0 /\ incoming = <<>>
  /\ tb_counter_max = 1000 /\ fault_number = 0 /\ fault_list = <<>>
  /\ report = <<>> /\ unwritten = <<>> /\ failed = FALSE

-----------------------------------------------------------------------------
(* python_worker.                                                          *)

StartQemu ==
  /\ worker = "start" /\ worker' = "open"
  /\ run_qemu' = "forked"
  /\ WorkerComes(w_fifo)
  /\ UNCHANGED <<configVars, fifo, w_fifo, unsent, received, output, controllerVars,
                 terminating, qemuVars>>

WorkerOpen ==
  /\ worker = "open" /\ w_fifo \in met
  /\ IF w_fifo = WorkerOrder[3]
     THEN /\ worker' = "write" /\ w_fifo' = "control"
          /\ unsent' = Message(ControlSize)
          /\ UNCHANGED <<w_arrived, met>>
     ELSE /\ w_fifo' = NextFifo(WorkerOrder, w_fifo)
          /\ WorkerComes(NextFifo(WorkerOrder, w_fifo))
          /\ UNCHANGED <<worker, unsent>>
  /\ UNCHANGED <<configVars, fifo, received, output, run_qemu, controllerVars,
                 terminating, qemuVars>>

(* configure_qemu, then write_fault_list_to_pipe.                          *)
WorkerWrite ==
  /\ worker = "write" /\ unsent # <<>> /\ QemuAlive
  /\ Room(w_fifo) > 0
  /\ fifo' = [fifo EXCEPT ![w_fifo] = Append(@, Head(unsent))]
  /\ unsent' = Tail(unsent)
  /\ UNCHANGED <<configVars, met, worker, w_fifo, received, output, w_arrived, run_qemu,
                 controllerVars, terminating, qemuVars>>

WorkerWritten ==
  /\ worker = "write" /\ unsent = <<>>
  /\ IF w_fifo = "control"
     THEN w_fifo' = "config" /\ unsent' = Message(2 * Len(pack)) /\ UNCHANGED worker
     ELSE w_fifo' = "data" /\ worker' = "read" /\ UNCHANGED unsent
  /\ UNCHANGED <<configVars, met, fifo, received, output, w_arrived, run_qemu,
                 controllerVars, terminating, qemuVars>>

(* BrokenPipeError leaves python_worker; before the process ends,          *)
(* multiprocessing joins its child.                                        *)
WorkerBrokenPipe ==
  /\ worker = "write" /\ unsent # <<>> /\ ~QemuAlive
  /\ worker' = "broken"
  /\ UNCHANGED <<configVars, met, fifo, w_fifo, unsent, received, output, w_arrived, run_qemu,
                 controllerVars, terminating, qemuVars>>

(* readout_data: read the report up to the end of the FIFO, put the output *)
(* made of it into the queue.                                              *)
WorkerRead ==
  /\ worker = "read" /\ fifo["data"] # <<>>
  /\ received' = received \o fifo["data"]
  /\ fifo' = [fifo EXCEPT !["data"] = <<>>]
  /\ UNCHANGED <<configVars, met, worker, w_fifo, unsent, output, w_arrived, run_qemu,
                 controllerVars, terminating, qemuVars>>

EndOfReportEarly == TRUE                           \* wrong variant: what is there is all
EndOfReportMissed == FALSE                         \* wrong variant: keeps a writing end
EndOfReport == ~QemuAlive

WorkerEof ==
  /\ worker = "read" /\ fifo["data"] = <<>> /\ EndOfReport
  /\ worker' = "post"
  /\ UNCHANGED <<configVars, met, fifo, w_fifo, unsent, received, output, w_arrived, run_qemu,
                 controllerVars, terminating, qemuVars>>

PutOutput ==
  /\ worker = "post" /\ worker' = "join"
  /\ output' = Append(output, received)
  /\ UNCHANGED <<configVars, met, fifo, w_fifo, unsent, received, w_arrived, run_qemu,
                 controllerVars, terminating, qemuVars>>

(* p_qemu.join(), also after an interrupt and an error.                    *)
JoinableAnyway == TRUE                             \* wrong variant: no join
Joinable == run_qemu = "ended"

WorkerJoin ==
  /\ worker \in {"join", "interrupted", "broken"} /\ Joinable
  /\ worker' = "ended" /\ run_qemu' = "joined"
  /\ UNCHANGED <<configVars, met, fifo, w_fifo, unsent, received, output, w_arrived,
                 controllerVars, terminating, qemuVars>>

Worker == \/ StartQemu \/ WorkerOpen \/ WorkerWrite \/ WorkerWritten \/ WorkerBrokenPipe
          \/ WorkerRead \/ WorkerEof \/ PutOutput \/ WorkerJoin

-----------------------------------------------------------------------------
(* run_qemu: takes its name, starts QEMU, waits for its end.  The stop     *)
(* signal only sets a flag in it, as in the controller it descends from.   *)

NameProcess ==
  /\ run_qemu = "forked" /\ run_qemu' = "named"
  /\ UNCHANGED <<configVars, met, fifo, workerVars, controllerVars, terminating, qemuVars>>

Popen ==
  /\ run_qemu = "named"
  /\ \/ run_qemu' = "communicate" /\ qemu' = "starting" /\ UNCHANGED failed
     \/ /\ "early" \in Failures                    \* no such program
        /\ run_qemu' = "ended" /\ failed' = TRUE /\ UNCHANGED qemu
  /\ UNCHANGED <<configVars, met, fifo, workerVars, controllerVars, terminating, q_fifo,
                 q_arrived, setupVars, reportVars>>

Communicate ==
  /\ run_qemu = "communicate" /\ qemu = "exited"
  /\ run_qemu' = "ended"
  /\ UNCHANGED <<configVars, met, fifo, workerVars, controllerVars, terminating, qemuVars>>

RunQemu == NameProcess \/ Popen \/ Communicate

-----------------------------------------------------------------------------
(* The controller.                                                         *)

(* The timeout has passed.  The process named for the experiment is looked *)
(* for; it must have one child, which gets a SIGTERM; then the worker is   *)
(* joined.  Before run_qemu has its name, and after it is joined, no       *)
(* process is found.                                                       *)
Timeout ==
  /\ watch = "watching" /\ WorkerAlive
  /\ timed_out' = TRUE
  /\ \/ /\ run_qemu \in {"none", "forked", "joined"}
        /\ watch' = "joining" /\ UNCHANGED terminating
     \/ /\ run_qemu = "communicate"
        /\ watch' = "joining" /\ terminating' = TRUE
     \/ /\ run_qemu \in {"named", "ended"}         \* the assertion fails
        /\ watch' = "failed" /\ UNCHANGED terminating
  /\ UNCHANGED <<configVars, met, fifo, workerVars, run_qemu, stop_signal_received, qemuVars>>

CollectWorker ==
  /\ watch \in {"watching", "joining"} /\ ~WorkerAlive
  /\ watch' = "gone"
  /\ UNCHANGED <<configVars, met, fifo, workerVars, run_qemu, timed_out, stop_signal_received,
                 terminating, qemuVars>>

(* A signal, once.  In the worker it is an interrupt from readout_data on  *)
(* and a flag before.                                                      *)
StopSignal(s) ==
  /\ ~stop_signal_received /\ stop_signal_received' = TRUE
  /\ IF s = "group"
     THEN /\ terminating' = (terminating \/ QemuAlive)
          /\ worker' = IF worker \in {"read", "post", "join"} THEN "interrupted" ELSE worker
     ELSE UNCHANGED <<terminating, worker>>
  /\ UNCHANGED <<configVars, met, fifo, w_fifo, unsent, received, output, w_arrived, run_qemu,
                 watch, timed_out, qemuVars>>

(* After the signal the logger is joined, then the workers are killed.     *)
KillWorker ==
  /\ watch = "watching" /\ stop_signal_received /\ WorkerAlive
  /\ worker' = "killed" /\ watch' = "gone"
  /\ UNCHANGED <<configVars, met, fifo, w_fifo, unsent, received, output, w_arrived, run_qemu,
                 timed_out, stop_signal_received, terminating, qemuVars>>

-----------------------------------------------------------------------------
(* The plugin in QEMU.                                                     *)

QemuFails ==
  /\ \/ "early" \in Failures /\ qemu = "starting"
     \/ "late" \in Failures /\ qemu = "guest"
  /\ qemu' = "exited" /\ failed' = TRUE
  /\ UNCHANGED <<configVars, met, fifo, workerVars, run_qemu, controllerVars, terminating,
                 q_fifo, q_arrived, setupVars, reportVars>>

(* SIGTERM or SIGINT.                                                      *)
QemuTerminates ==
  /\ terminating /\ qemu \notin {"none", "report", "exited"}
  /\ qemu' = "exited"
  /\ UNCHANGED <<configVars, met, fifo, workerVars, run_qemu, controllerVars, terminating,
                 q_fifo, q_arrived, setupVars, reportVars, failed>>

(* parse_args opens the FIFOs in the order of the plugin's arguments.      *)
PluginInstall ==
  /\ qemu = "starting" /\ qemu' = "open"
  /\ PluginComes(q_fifo)
  /\ UNCHANGED <<configVars, fifo, workerVars, run_qemu, controllerVars, terminating,
                 q_fifo, setupVars, reportVars, failed>>

ParseArgs ==
  /\ qemu = "open" /\ q_fifo \in met
  /\ IF q_fifo = PluginOrder[3]
     THEN qemu' = "size" /\ q_fifo' = "control" /\ UNCHANGED <<q_arrived, met>>
     ELSE /\ q_fifo' = NextFifo(PluginOrder, q_fifo)
          /\ PluginComes(NextFifo(PluginOrder, q_fifo))
          /\ UNCHANGED qemu
  /\ UNCHANGED <<configVars, fifo, workerVars, run_qemu, controllerVars, terminating,
                 setupVars, reportVars, failed>>

(* The two ways on from the messages in qemu_plugin_install: the guest is  *)
(* started, or everything is freed and QEMU gives up.                      *)
StartGuest == qemu' = "guest"
Abort == qemu' = "exited"

(* readout_pipe_size; nothing to read means no message, and the plugin     *)
(* gives up.                                                               *)
ReadoutPipeSize ==
  /\ qemu = "size"
  /\ \/ /\ fifo[q_fifo] # <<>>
        /\ left' = Head(fifo[q_fifo]).val /\ incoming' = <<>>
        /\ fifo' = [fifo EXCEPT ![q_fifo] = Tail(@)]
        /\ qemu' = "body"
     \/ /\ fifo[q_fifo] = <<>> /\ ~WorkerAlive
        /\ Abort /\ UNCHANGED <<fifo, left, incoming>>
  /\ UNCHANGED <<configVars, met, workerVars, run_qemu, controllerVars, terminating, q_fifo,
                 q_arrived, tb_counter_max, fault_number, fault_list, reportVars, failed>>

(* The loop of readout_pipe: a read returns some of what is there.  At the *)
(* end of the FIFO it returns nothing, and the loop goes on for ever.      *)
ReadoutPipe ==
  /\ qemu = "body" /\ left > 0
  /\ \E k \in 1 .. Len(fifo[q_fifo]) :
       /\ k <= left
       /\ incoming' = incoming \o SubSeq(fifo[q_fifo], 1, k)
       /\ fifo' = [fifo EXCEPT ![q_fifo] = SubSeq(@, k + 1, Len(@))]
       /\ left' = left - k
  /\ UNCHANGED <<configVars, met, workerVars, run_qemu, controllerVars, terminating, qemu, q_fifo,
                 q_arrived, tb_counter_max, fault_number, fault_list, reportVars, failed>>

(* readout_control_qemu, as far as the message's numbers go.  A message    *)
(* that does not unpack ends the plugin.                                   *)
ReadoutControl ==
  /\ qemu = "body" /\ left = 0 /\ q_fifo = "control"
  /\ IF incoming = Parts(ControlSize)
     THEN /\ tb_counter_max' = ToInt(max_instruction_count)
          /\ fault_number' = Len(pack)
          /\ qemu' = "size" /\ q_fifo' = "config"
     ELSE Abort /\ UNCHANGED <<q_fifo, tb_counter_max, fault_number>>
  /\ UNCHANGED <<configVars, met, fifo, workerVars, run_qemu, controllerVars, terminating,
                 q_arrived, left, incoming, fault_list, reportVars, failed>>

(* qemu_setup_config unpacks the message ...                               *)
QemuSetupConfig ==
  /\ qemu = "body" /\ left = 0 /\ q_fifo = "config"
  /\ IF incoming = Parts(2 * Len(pack)) THEN qemu' = "setup" ELSE Abort
  /\ UNCHANGED <<configVars, met, fifo, workerVars, run_qemu, controllerVars, terminating,
                 q_fifo, q_arrived, setupVars, reportVars, failed>>

(* ... and adds the faults one by one.  The message holds pointers to      *)
(* them; fault_array is the first of them, taken as an array of faults, so *)
(* that whatever lies behind the first fault is read for the others.       *)
FaultArray(i) == IF i = 0 THEN {pack[1]} ELSE FaultValues

AddFaultLast(list, f) == Append(list, f)           \* wrong variant: added at the end
add_fault(list, f) == <<f>> \o list

SetupFault ==
  /\ qemu = "setup" /\ Len(fault_list) < Len(pack)
  /\ \E f \in FaultArray(Len(fault_list)) : fault_list' = add_fault(fault_list, f)
  /\ UNCHANGED <<configVars, met, fifo, workerVars, run_qemu, controllerVars, terminating, qemu,
                 q_fifo, q_arrived, left, incoming, tb_counter_max, fault_number, reportVars,
                 failed>>

(* The faults of the list are counted.                                     *)
register_fault_trigger_addresses ==
  /\ qemu = "setup" /\ Len(fault_list) = Len(pack)
  /\ fault_number' = Len(fault_list)
  /\ StartGuest
  /\ UNCHANGED <<configVars, met, fifo, workerVars, run_qemu, controllerVars, terminating,
                 q_fifo, q_arrived, left, incoming, tb_counter_max, fault_list, reportVars,
                 failed>>

(* plugin_end_information_dump.                                            *)
ReportBegins ==
  /\ qemu = "guest"
  /\ \E n \in ReportSizes : report' = Parts(n) /\ unwritten' = Parts(n)
  /\ qemu' = "report" /\ q_fifo' = "data"
  /\ UNCHANGED <<configVars, met, fifo, workerVars, run_qemu, controllerVars, terminating,
                 q_arrived, setupVars, failed>>

(* An end point or the limit is reached; the guest may also never end.     *)
GuestEnds == ReportBegins

(* SIGABRT while the guest runs: QEMU reports before it dies.              *)
HandleAbort == "late" \in Failures /\ ReportBegins

(* The loop of plugin_write_to_data_pipe: a write takes some of the rest.  *)
UnwrittenAfterOnce(k) == <<>>                      \* wrong variant: one write is enough
UnwrittenAfter(k) == SubSeq(unwritten, k + 1, Len(unwritten))

WriteToDataPipe ==
  /\ qemu = "report" /\ unwritten # <<>> /\ WorkerAlive
  /\ \E k \in 1 .. Room("data") :
       /\ k <= Len(unwritten)
       /\ fifo' = [fifo EXCEPT !["data"] = @ \o SubSeq(unwritten, 1, k)]
       /\ unwritten' = UnwrittenAfter(k)
  /\ UNCHANGED <<configVars, met, workerVars, run_qemu, controllerVars, terminating, qemu, q_fifo,
                 q_arrived, setupVars, report, failed>>

(* The report is written, or nobody is left to read it: exit.              *)
ReaderGone == ~WorkerAlive

QemuExits ==
  /\ qemu = "report" /\ (unwritten = <<>> \/ ReaderGone)
  /\ qemu' = "exited"
  /\ UNCHANGED <<configVars, met, fifo, workerVars, run_qemu, controllerVars, terminating, q_fifo,
                 q_arrived, setupVars, reportVars, failed>>

Plugin == \/ PluginInstall \/ ParseArgs \/ ReadoutPipeSize \/ ReadoutPipe \/ ReadoutControl
          \/ QemuSetupConfig \/ SetupFault \/ register_fault_trigger_addresses
          \/ WriteToDataPipe \/ QemuExits \/ QemuTerminates

-----------------------------------------------------------------------------
(* What can happen without an operator's signal.                           *)
Step == \/ Worker \/ RunQemu \/ Timeout \/ CollectWorker \/ KillWorker
        \/ Plugin \/ QemuFails \/ GuestEnds \/ HandleAbort

Next == Step \/ \E s \in Signals : StopSignal(s)

(* Every process is scheduled, and time passes; neither the guest's end    *)
(* nor a failure or a signal is due.                                       *)
Fairness ==
  /\ WF_vars(Worker) /\ WF_vars(RunQemu) /\ WF_vars(Plugin)
  /\ WF_vars(Timeout) /\ WF_vars(CollectWorker) /\ WF_vars(KillWorker)

Spec == Init /\ [][Next]_vars /\ Fairness

-----------------------------------------------------------------------------
WorkerPlaces == {"start", "open", "write", "read", "post", "join", "interrupted",
                 "broken", "ended", "killed"}
QemuPlaces == {"none", "starting", "open", "size", "body", "setup", "guest", "report", "exited"}

TypeOK ==
  /\ pack \in Packs /\ max_instruction_count \in Limits
  /\ fifo \in [Fifos -> Seq(Piece)] /\ \A f \in Fifos : Len(fifo[f]) <= PipeCapacity
  /\ w_arrived \subseteq Fifos /\ q_arrived \subseteq Fifos /\ met \subseteq w_arrived \cap q_arrived
  /\ worker \in WorkerPlaces /\ qemu \in QemuPlaces
  /\ w_fifo \in Fifos /\ q_fifo \in Fifos
  /\ run_qemu \in {"none", "forked", "named", "communicate", "ended", "joined"}
  /\ watch \in {"watching", "joining", "failed", "gone"}
  /\ unsent \in Seq(Piece) /\ received \in Seq(Piece) /\ output \in Seq(Seq(Piece))
  /\ left \in Nat /\ incoming \in Seq(Piece)
  /\ tb_counter_max \in Int /\ fault_number \in Nat /\ fault_list \in Seq(FaultValues)
  /\ report \in Seq(Piece) /\ unwritten \in Seq(Piece)
  /\ timed_out \in BOOLEAN /\ stop_signal_received \in BOOLEAN
  /\ terminating \in BOOLEAN /\ failed \in BOOLEAN

-----------------------------------------------------------------------------
(* The waits without end that this protocol knows: a worker at a FIFO its  *)
(* QEMU never came to; an interrupted worker that joins a QEMU whose       *)
(* report it no longer reads; and, once a worker is killed, its QEMU at a  *)
(* FIFO, or in readout_pipe with part of a message.                        *)
QemuOver == qemu = "exited" \/ (qemu = "none" /\ run_qemu = "ended")
UnmetOpen    == worker = "open" /\ w_fifo \notin met /\ QemuOver
UnreadReport == worker = "interrupted" /\ qemu = "report" /\ unwritten # <<>>
OrphanOpens  == worker = "killed" /\ qemu = "open" /\ q_fifo \notin met
OrphanSpins  == worker = "killed" /\ qemu = "body" /\ left > 0 /\ fifo[q_fifo] = <<>>

(* Worker, plugin and controller never wait for each other but in these    *)
(* cases (python_worker, parse_args, readout_pipe, controller.py:893).     *)
WaitsOnlyKnown ==
  ~ENABLED Step =>
    \/ ~WorkerAlive /\ ~QemuAlive
    \/ UnmetOpen \/ UnreadReport \/ OrphanOpens \/ OrphanSpins

(* The process of a worker outlives its QEMU, unless it is killed: the     *)
(* number of QEMUs is bounded by the number of workers (the joins of       *)
(* python_worker).                                                         *)
QemuEndsFirst == worker = "ended" => ~QemuAlive /\ run_qemu = "joined"

(* Once the guest runs, the plugin has as many faults as the pack, the     *)
(* first of them as configured, and the instruction limit, as long as the  *)
(* limit is an int (readout_control_qemu, qemu_setup_config).              *)
Configured == qemu \in {"guest", "report"} \/ report # <<>>

ConfigTaken ==
  Configured =>
    /\ fault_number = Len(pack) /\ Len(fault_list) = Len(pack)
    /\ fault_list[Len(pack)] = pack[1]
    /\ max_instruction_count <= IntMax => tb_counter_max = max_instruction_count

(* qemu_setup_config "will read all fault configurations"                  *)
(* (faultplugin.c:352): the plugin's faults are those of the pack.         *)
PackRead == Configured => fault_list = Reverse(pack)

(* An output without a report means that QEMU failed or was made to end:   *)
(* nothing is lost between a guest that ends and the queue                 *)
(* (plugin_write_to_data_pipe, readout_data).                              *)
EmptyOnlyIfStopped == output = << <<>> >> => failed \/ terminating

(* readout_data hands in at most one output, of the whole report or of     *)
(* nothing, and never after the worker's end.                              *)
Phase  == IF ~WorkerAlive THEN "ended" ELSE IF output # <<>> THEN "reported" ELSE "running"
Result == IF output = <<>> THEN "none" ELSE IF output = << <<>> >> THEN "empty"
          ELSE IF output = <<report>> THEN "whole" ELSE "other"

Promise == INSTANCE Experiment WITH phase <- Phase, result <- Result

ImplementsExperiment == Promise!Spec

(* An experiment ends, whatever the guest does and however QEMU fails with *)
(* the guest running, as long as the two meet at the FIFOs, an interrupt   *)
(* does not meet a report, and a timeout meets a QEMU (python_worker, the  *)
(* timeout of controller.py:893).  A QEMU that begins its report comes to  *)
(* its end, whether its worker reads the report or is killed in between,   *)
(* unless an interrupt meets the report (plugin_write_to_data_pipe).       *)
ExperimentEnds ==
  /\ []~UnmetOpen /\ []~UnreadReport /\ [](timed_out => terminating) => <>~WorkerAlive
  /\ []~UnreadReport => (qemu = "report" ~> ~QemuAlive)
=============================================================================
