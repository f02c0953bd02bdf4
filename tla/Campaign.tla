------------------------------ MODULE Campaign ------------------------------
(***************************************************************************)
(* A fault injection campaign: the controller's scheduling loop            *)
(* (controller.py), its worker processes (faultclass.py, python_worker),   *)
(* the logger process (hdf5logger.py, hdf5collector), the queue between    *)
(* them, the stop signal, and the HDF5 file, which outlives a campaign and *)
(* is what the next one resumes from.                                      *)
(*                                                                         *)
(* A fault stands for an entry of the expanded fault list, in list order.  *)
(* QEMU is external: it may fail to start, an experiment may end by itself *)
(* or run forever, and the timeout of the configuration is finite (no gdb).*)
(* Memory measurements only decide whether the scheduler holds a worker    *)
(* back.  A worker is followed here as far as the controller and the       *)
(* logger can tell: Handshake has its FIFOs and its QEMU in detail.        *)
(***************************************************************************)
EXTENDS Integers, Sequences, FiniteSets, SequencesExt

CONSTANTS
  NumFaults,        \* length of the expanded fault list
  Lifespan, Mask,   \* two fields of each fault, as the digits str() prints
  Invalid,          \* entries marked delete: by checktriggers_in_tb, which found no
                    \* trigger, or by process_wildcard_faults
  Emptied,          \* entries of expanded wildcards, without a fault
  Unencodable,      \* faults with the trigger address -1, which protobuf refuses
  num_workers, queuedepth,
  enable_ram_mgmt,  \* memory may hold back a worker
  HasStart,         \* the configuration has a start point
  Signals,          \* "controller": a signal to the controller alone; "SIGINT",
                    \* "SIGTERM": to every process of the campaign
  Modes,            \* how campaigns are launched
  MaxSessions,      \* bound: campaigns launched on one file
  NULL

Faults == 1 .. NumFaults

ASSUME ParameterAssumption ==
  /\ NumFaults \in Nat \ {0} /\ num_workers \in Nat \ {0} /\ queuedepth \in Nat \ {0}
  /\ Invalid \subseteq Faults /\ Emptied \subseteq Invalid /\ Unencodable \subseteq Faults
  /\ enable_ram_mgmt \in BOOLEAN /\ HasStart \in BOOLEAN
  /\ Signals \subseteq {"controller", "SIGINT", "SIGTERM"}
  /\ Modes \subseteq {"default", "append", "missing", "overwrite", "golden"}
  /\ MaxSessions \in Nat

ASSUME NullAssumption == NULL \notin {"refused", "stopped", "finished"}

(* Entries of the queue: a fault's output, or one of these indices. *)
Golden      == -1
Pregolden   == -2
BackupIndex == -3

VARIABLES
  file,             \* the HDF5 file, NULL while there is none
  (* controller *)
  sessions, mode, ctl, faultlist, itter, p_list, scan,
  stop_signal_received,
  outcome,          \* how the last campaign ended (history)
  lost,             \* outputs that will never come, by workers that failed (history)
  (* logger *)
  logger, num_exp, log_pregoldenrun, log_goldenrun, log_config, exp,
  queue_output

controllerVars == <<sessions, mode, ctl, faultlist, itter, p_list, scan, outcome, lost>>
loggerVars     == <<logger, num_exp, log_pregoldenrun, log_goldenrun, log_config, exp>>
vars == <<file, controllerVars, stop_signal_received, loggerVars, queue_output>>

(* In the file: which golden-run groups there are, the backup with its     *)
(* fault_count and the faults stored so far, how often each fault has a    *)
(* group with a complete result, and the groups begun and not completed.   *)
NewFile == [pregolden |-> FALSE, golden |-> FALSE, backup |-> NULL,
            results |-> [f \in Faults |-> 0], begun |-> {}]

Init ==
  /\ file = NULL
  /\ sessions = 0 /\ mode = NULL /\ ctl = "idle" /\ faultlist = <<>> /\ itter = 0
  /\ p_list = <<>> /\ scan = 0 /\ stop_signal_received = FALSE /\ outcome = NULL
  /\ lost = 0
  /\ logger = "off" /\ num_exp = 0 /\ exp = NULL
  /\ log_pregoldenrun = FALSE /\ log_goldenrun = FALSE /\ log_config = FALSE
  /\ queue_output = <<>>
-----------------------------------------------------------------------------
(* Launch: process_arguments and controller() up to p_logger.start().      *)

(* An existing file is reused unless --overwrite is given. *)
Reuses(m) == file # NULL /\ m # "overwrite"

(* read_backup refuses a backup that does not hold every fault it counts.  *)
BackupUsablePartly == file.backup # NULL     \* wrong variant: count not compared
BackupUsable == file.backup # NULL /\ file.backup.stored = file.backup.fault_count

(* The options of the logger, and what the golden run leaves in the queue. *)
FreshRun(m) == ~Reuses(m) /\ m # "append"
GoldenDataLast ==                            \* wrong variant: backup before the golden run
  <<BackupIndex>> \o (IF HasStart THEN <<Pregolden>> ELSE <<>>) \o <<Golden>>
GoldenData == (IF HasStart THEN <<Pregolden>> ELSE <<>>) \o <<Golden, BackupIndex>>

(* The string under which a fault is remembered: the fields of Fault.__str__ *)
(* one after the other.                                                     *)
FaultString(f) == Lifespan[f] \o Mask[f]

Simulated == {FaultString(f) : f \in {g \in Faults : file.results[g] > 0}}

(* A backup is taken as far as it is stored. *)
StoredFaults == {f \in Faults : f <= file.backup.stored}

(* get_not_simulated_faults *)
MissingAll == StoredFaults                   \* wrong variant: nothing is left out
Missing == {f \in StoredFaults : FaultString(f) \notin Simulated}

(* The faults of the campaign.  run_goldenrun hands back the list it was   *)
(* given: the entries checktriggers_in_tb and process_wildcard_faults      *)
(* marked for deletion are still in it.                                    *)
ToRun(m) ==
  IF m = "golden" THEN {}
  ELSE IF ~Reuses(m) THEN Faults
  ELSE IF m = "missing" THEN Missing
  ELSE StoredFaults

(* Faults in the order of the list. *)
InOrder(F) ==
  {s \in [1 .. Cardinality(F) -> F] : \A i, j \in DOMAIN s : i < j => s[i] < s[j]}

Launch(m) ==
  /\ ctl = "idle" /\ sessions < MaxSessions
  /\ Reuses(m) => BackupUsable /\ m # "golden"
  /\ sessions' = sessions + 1 /\ mode' = m
  /\ faultlist' \in InOrder(ToRun(m)) /\ itter' = 0 /\ p_list' = <<>> /\ scan' = 0
  /\ queue_output' = IF FreshRun(m) THEN GoldenData ELSE <<>>
  /\ log_goldenrun' = FreshRun(m) /\ log_pregoldenrun' = FreshRun(m)
  /\ log_config' = FreshRun(m)
  /\ num_exp' = Len(faultlist') /\ exp' = NULL
  /\ logger' = "opening" /\ ctl' = "top"
  /\ stop_signal_received' = FALSE /\ outcome' = NULL /\ lost' = 0
  /\ UNCHANGED file

(* The controller returns before it starts the logger. *)
Refuse(m) ==
  /\ ctl = "idle" /\ sessions < MaxSessions
  /\ Reuses(m) /\ (~BackupUsable \/ m = "golden")
  /\ sessions' = sessions + 1 /\ mode' = m /\ outcome' = "refused"
  /\ UNCHANGED <<file, ctl, faultlist, itter, p_list, scan, stop_signal_received,
                 lost, loggerVars, queue_output>>
-----------------------------------------------------------------------------
(* The scheduling loop of the controller.                                  *)

Alive(p) == p.state # "exited"

(* The guard for one more worker, memory aside. *)
RoomUnqueued ==                              \* wrong variant: queue depth ignored
  Len(p_list) < num_workers /\ itter < Len(faultlist)
RoomOverfull ==                              \* wrong variant: bound off by one
  /\ Len(p_list) <= num_workers /\ itter < Len(faultlist)
  /\ Len(queue_output) < queuedepth
Room == /\ Len(p_list) < num_workers /\ itter < Len(faultlist)
        /\ Len(queue_output) < queuedepth

(* mem_limit_calc is zero without workers and queued outputs. *)
RamMayHold == enable_ram_mgmt /\ (p_list # <<>> \/ queue_output # <<>>)

Looping ==
  ctl = "top" /\ ~stop_signal_received /\ ~(p_list = <<>> /\ itter = Len(faultlist))

(* The message logged next takes the first fault of the entry, which one   *)
(* that has been emptied does not have: IndexError ends the controller.    *)
StartWorker ==
  /\ Looping /\ Room
  /\ itter' = itter + 1
  /\ p_list' = Append(p_list, [fault |-> faultlist[itter + 1], state |-> "starting",
                               overdue |-> FALSE])
  /\ ctl' = IF faultlist[itter + 1] \in Emptied THEN "failed" ELSE "scan"
  /\ scan' = 1
  /\ UNCHANGED <<file, sessions, mode, faultlist, stop_signal_received, outcome, lost,
                 loggerVars, queue_output>>

HoldWorker ==
  /\ Looping /\ (~Room \/ RamMayHold)
  /\ ctl' = "scan" /\ scan' = 1
  /\ UNCHANGED <<file, sessions, mode, faultlist, itter, p_list, stop_signal_received,
                 outcome, lost, loggerVars, queue_output>>

(* The scan over p_list.  Popping an entry while enumerating skips the one *)
(* behind it until the next scan.                                          *)
Scanning == ctl = "scan" /\ scan <= Len(p_list)

KeepWorker ==
  /\ Scanning /\ Alive(p_list[scan]) /\ ~p_list[scan].overdue
  /\ scan' = scan + 1
  /\ UNCHANGED <<file, sessions, mode, ctl, faultlist, itter, p_list, outcome, lost,
                 stop_signal_received, loggerVars, queue_output>>

(* Timeout: the controller looks for the process of run_qemu by its name   *)
(* and terminates its child, QEMU, then waits for the worker in p.join().  *)
Overdue == Scanning /\ Alive(p_list[scan]) /\ p_list[scan].overdue

(* Where a worker may be once its QEMU has been terminated.  One that was  *)
(* opening the FIFOs waits in open for a QEMU that never comes, dies of    *)
(* the broken pipe, or reads the end of the data.  One that joins QEMU     *)
(* goes on doing so if QEMU hangs, in writing a report nobody reads.       *)
AfterTimeoutKilled(p) == {"ending"}          \* wrong variant: terminates the worker
AfterTimeoutIgnored(p) == {p.state}          \* wrong variant: QEMU not terminated
AfterTimeout(p) ==
  CASE p.state = "starting"   -> {"blocked", "ending"} \cup
                                 (IF p.fault \in Unencodable THEN {} ELSE {"readout"})
    [] p.state = "simulating" -> {"readout"}
    [] p.state = "joining"    -> {"joining", "ending"}
    [] OTHER                  -> {p.state}

TerminateQemu ==
  /\ Overdue
  /\ \E state \in AfterTimeout(p_list[scan]) :
       /\ p_list' = [p_list EXCEPT ![scan].state = state]
       /\ lost' = IF p_list[scan].state = "starting" /\ state \in {"blocked", "ending"}
                  THEN lost + 1 ELSE lost
  /\ ctl' = "join"
  /\ UNCHANGED <<file, sessions, mode, faultlist, itter, scan, outcome,
                 stop_signal_received, loggerVars, queue_output>>

(* No process has that name: run_qemu has not set it yet or is gone. *)
QemuNotFound ==
  /\ Overdue /\ p_list[scan].state \in {"starting", "ending"}
  /\ ctl' = "join"
  /\ UNCHANGED <<file, sessions, mode, faultlist, itter, p_list, scan, outcome, lost,
                 stop_signal_received, loggerVars, queue_output>>

(* run_qemu has the name but not, or no longer, a child: the assertion     *)
(* fails and ends the controller.                                          *)
AssertionFails ==
  /\ Overdue /\ p_list[scan].state \in {"starting", "blocked", "readout", "ending"}
  /\ ctl' = "failed"
  /\ UNCHANGED <<file, sessions, mode, faultlist, itter, p_list, scan, outcome, lost,
                 stop_signal_received, loggerVars, queue_output>>

ReapWorker ==
  /\ scan <= Len(p_list) /\ ctl \in {"scan", "join"} /\ ~Alive(p_list[scan])
  /\ p_list' = RemoveAt(p_list, scan)
  /\ scan' = scan + 1 /\ ctl' = "scan"
  /\ UNCHANGED <<file, sessions, mode, faultlist, itter, outcome, lost,
                 stop_signal_received, loggerVars, queue_output>>

EndScan ==
  /\ ctl = "scan" /\ scan > Len(p_list)
  /\ ctl' = "top"
  /\ UNCHANGED <<file, sessions, mode, faultlist, itter, p_list, scan, outcome, lost,
                 stop_signal_received, loggerVars, queue_output>>

(* Leaving the loop: on the stop signal, or with every worker reaped. *)
LeaveLoop ==
  /\ ctl = "top"
  /\ \/ stop_signal_received /\ ctl' = "stopping"
     \/ ~stop_signal_received /\ p_list = <<>> /\ itter = Len(faultlist) /\ ctl' = "draining"
  /\ UNCHANGED <<file, sessions, mode, faultlist, itter, p_list, scan, outcome, lost,
                 stop_signal_received, loggerVars, queue_output>>

(* p_logger.join() returns, and workers that are left are killed. *)
LoggerExited == logger \in {"off", "failed", "killed"}

Return ==
  /\ ctl \in {"stopping", "draining"} /\ LoggerExited
  /\ ctl' = "idle"
  /\ outcome' = IF ctl = "draining" /\ ~stop_signal_received THEN "finished" ELSE "stopped"
  /\ p_list' = <<>> /\ queue_output' = <<>>
  /\ UNCHANGED <<file, sessions, mode, faultlist, itter, scan, stop_signal_received,
                 lost, loggerVars>>

Controller == \/ StartWorker \/ HoldWorker \/ KeepWorker
              \/ TerminateQemu \/ QemuNotFound \/ AssertionFails
              \/ ReapWorker \/ EndScan \/ LeaveLoop \/ Return
-----------------------------------------------------------------------------
(* The workers.  Entry k of p_list is one process and its QEMU: starting   *)
(* up to readout_data, simulating while QEMU runs, in readout once QEMU is *)
(* over, ending with nothing left to wait for.  A blocked worker waits in  *)
(* open for a QEMU that will never come; a joining one was interrupted or  *)
(* died of an exception and waits in p_qemu.join for a QEMU that may hang. *)
Moves(k, from, to) ==
  /\ p_list[k].state = from
  /\ p_list' = [p_list EXCEPT ![k].state = to]
  /\ UNCHANGED <<file, sessions, mode, ctl, faultlist, itter, scan, outcome,
                 stop_signal_received, loggerVars>>

(* The FIFOs are open and the faults are written, unless they cannot be    *)
(* encoded: that exception leaves the worker joining a QEMU that waits for *)
(* its faults.                                                             *)
Begin(k) ==
  /\ IF p_list[k].fault \in Unencodable
     THEN Moves(k, "starting", "joining") /\ lost' = lost + 1
     ELSE Moves(k, "starting", "simulating") /\ UNCHANGED lost
  /\ UNCHANGED queue_output

(* QEMU fails before it has opened the FIFOs, or with its end of the       *)
(* control or config FIFO open and the worker writing to it.               *)
QemuFails(k) ==
  /\ \E state \in {"blocked", "ending"} : Moves(k, "starting", state)
  /\ lost' = lost + 1
  /\ UNCHANGED queue_output

(* QEMU ends by itself, or by a signal to the whole process group. *)
QemuEnds(k) ==
  /\ Moves(k, "simulating", "readout") \/ Moves(k, "joining", "ending")
  /\ UNCHANGED <<lost, queue_output>>

(* readout_data puts the output, whatever the experiment came to. *)
Post(k) ==
  /\ Moves(k, "readout", "ending")
  /\ queue_output' = Append(queue_output, p_list[k].fault)
  /\ UNCHANGED lost

(* The workers whose output is still to come. *)
Unposted == {k \in DOMAIN p_list : p_list[k].state \in {"starting", "simulating", "readout"}}

Exit(k) == Moves(k, "ending", "exited") /\ UNCHANGED <<lost, queue_output>>

(* The configured timeout passes for a worker. *)
TimePasses(k) ==
  /\ Alive(p_list[k]) /\ ~p_list[k].overdue
  /\ p_list' = [p_list EXCEPT ![k].overdue = TRUE]
  /\ UNCHANGED <<file, sessions, mode, ctl, faultlist, itter, scan, outcome, lost,
                 stop_signal_received, loggerVars, queue_output>>

Position(f) == {k \in DOMAIN p_list : p_list[k].fault = f}
WorkerStep(f) == \E k \in Position(f) : Begin(k) \/ Post(k) \/ Exit(k) \/ TimePasses(k)
-----------------------------------------------------------------------------
(* The logger: hdf5collector.                                              *)
loggerKeeps == <<controllerVars, stop_signal_received>>

(* Mode "w" truncates the file; overwrite_faults clears the results of an  *)
(* existing one.                                                           *)
ClearsResults == Reuses(mode) /\ mode = "default"

Open ==
  /\ logger = "opening"
  /\ logger' = "loop"
  /\ file' = IF FreshRun(mode) \/ file = NULL THEN NewFile
             ELSE IF ClearsResults THEN [file EXCEPT !.results = [f \in Faults |-> 0],
                                                     !.begun = {}]
             ELSE file
  /\ UNCHANGED <<loggerKeeps, num_exp, log_pregoldenrun, log_goldenrun, log_config, exp,
                 queue_output>>

Wanted == num_exp > 0 \/ log_goldenrun \/ log_pregoldenrun \/ log_config

Close ==
  /\ logger = "loop" /\ (~Wanted \/ stop_signal_received)
  /\ logger' = "off"
  /\ UNCHANGED <<file, loggerKeeps, num_exp, log_pregoldenrun, log_goldenrun, log_config,
                 exp, queue_output>>

(* One element of the queue is taken.  A result is written in two steps,   *)
(* the group and its tables.  An element nobody waits for would be         *)
(* dropped; none is ever put into the queue.                               *)
Take ==
  /\ logger = "loop" /\ Wanted /\ ~stop_signal_received /\ queue_output # <<>>
  /\ queue_output' = Tail(queue_output)
  /\ exp' = Head(queue_output)

TakeResult ==
  /\ Take /\ Head(queue_output) \in Faults
  /\ num_exp' = num_exp - 1
  /\ file' = [file EXCEPT !.begun = @ \cup {Head(queue_output)}]
  /\ logger' = "writing"
  /\ UNCHANGED <<loggerKeeps, log_pregoldenrun, log_goldenrun, log_config>>

WriteResult ==
  /\ logger = "writing"
  /\ file' = [file EXCEPT !.begun = @ \ {exp}, !.results[exp] = @ + 1]
  /\ exp' = NULL /\ logger' = "loop"
  /\ UNCHANGED <<loggerKeeps, num_exp, log_pregoldenrun, log_goldenrun, log_config,
                 queue_output>>

TakeGoldenData ==
  /\ Take
  /\ \/ /\ Head(queue_output) = Pregolden /\ log_pregoldenrun
        /\ file' = [file EXCEPT !.pregolden = TRUE]
        /\ log_pregoldenrun' = FALSE /\ UNCHANGED log_goldenrun
     \/ /\ Head(queue_output) = Golden /\ log_goldenrun
        /\ file' = [file EXCEPT !.golden = TRUE]
        /\ log_goldenrun' = FALSE /\ UNCHANGED log_pregoldenrun
  /\ UNCHANGED <<loggerKeeps, logger, num_exp, log_config>>

(* process_backup: process_config fails without a start point, and the     *)
(* loop over the faults looks at the stop signal before each one.          *)
TakeBackup ==
  /\ Take /\ Head(queue_output) = BackupIndex /\ log_config
  /\ file' = [file EXCEPT !.backup = [fault_count |-> NumFaults, stored |-> 0]]
  /\ logger' = IF HasStart THEN "backup" ELSE "failed"
  /\ UNCHANGED <<loggerKeeps, num_exp, log_pregoldenrun, log_goldenrun, log_config>>

StoreFault ==
  /\ logger = "backup" /\ file.backup.stored < NumFaults /\ ~stop_signal_received
  /\ file' = [file EXCEPT !.backup.stored = @ + 1]
  /\ UNCHANGED <<loggerKeeps, loggerVars, queue_output>>

EndBackup ==
  /\ logger = "backup" /\ (file.backup.stored = NumFaults \/ stop_signal_received)
  /\ log_config' = FALSE /\ exp' = NULL /\ logger' = "loop"
  /\ UNCHANGED <<file, loggerKeeps, num_exp, log_pregoldenrun, log_goldenrun, queue_output>>

Logger == \/ Open \/ Close \/ TakeResult \/ WriteResult \/ TakeGoldenData
          \/ TakeBackup \/ StoreFault \/ EndBackup
-----------------------------------------------------------------------------
(* Signals, from the moment the controller has installed its handlers.     *)
(* Its handler sets the flag.  A worker in readout_data puts no output but *)
(* terminates run_qemu and joins it; an earlier one still has the          *)
(* controller's handler, which only sets the flag.  The logger is started  *)
(* before the handlers are installed and ignores SIGINT only: SIGTERM ends *)
(* it where it stands.                                                     *)
Interruptible == {k \in Unposted : p_list[k].state # "starting"}

Stop ==
  /\ "controller" \in Signals /\ ctl # "idle" /\ ~stop_signal_received
  /\ stop_signal_received' = TRUE
  /\ UNCHANGED <<file, controllerVars, loggerVars, queue_output>>

StopGroup(signal, interrupted) ==
  /\ signal \in Signals /\ ctl # "idle" /\ ~stop_signal_received
  /\ stop_signal_received' = TRUE
  /\ p_list' = [k \in DOMAIN p_list |->
       IF k \in interrupted THEN [p_list[k] EXCEPT !.state = "joining"] ELSE p_list[k]]
  /\ logger' = IF signal = "SIGTERM" /\ ~LoggerExited THEN "killed" ELSE logger
  /\ UNCHANGED <<file, sessions, mode, ctl, faultlist, itter, scan, outcome, lost, num_exp,
                 log_pregoldenrun, log_goldenrun, log_config, exp, queue_output>>

Next ==
  \/ \E m \in Modes : Launch(m) \/ Refuse(m)
  \/ Controller \/ Logger \/ Stop
  \/ \E signal \in {"SIGINT", "SIGTERM"}, interrupted \in SUBSET Interruptible :
       StopGroup(signal, interrupted)
  \/ \E k \in DOMAIN p_list : \/ Begin(k) \/ QemuFails(k) \/ QemuEnds(k)
                              \/ Post(k) \/ Exit(k) \/ TimePasses(k)

(* The processes run, and so does the clock.  An experiment need not end,  *)
(* nor QEMU hang or fail; nobody need stop a campaign or launch one.       *)
Fairness ==
  /\ WF_vars(Controller) /\ WF_vars(Logger)
  /\ \A f \in Faults : WF_vars(WorkerStep(f))

Spec == Init /\ [][Next]_vars /\ Fairness
-----------------------------------------------------------------------------
(* Type correctness. *)
ResultCount == 0 .. MaxSessions

FileType ==
  [pregolden : BOOLEAN, golden : BOOLEAN,
   backup : {NULL} \cup [fault_count : {NumFaults}, stored : 0 .. NumFaults],
   results : [Faults -> ResultCount], begun : SUBSET Faults]

Worker == [fault : Faults, overdue : BOOLEAN,
           state : {"starting", "simulating", "readout", "ending", "blocked", "joining",
                    "exited"}]

TypeOK ==
  /\ file \in {NULL} \cup FileType
  /\ sessions \in 0 .. MaxSessions /\ mode \in {NULL} \cup Modes
  /\ ctl \in {"idle", "top", "scan", "join", "stopping", "draining", "failed"}
  /\ faultlist \in Seq(Faults) /\ itter \in 0 .. Len(faultlist)
  /\ p_list \in Seq(Worker) /\ Len(p_list) <= num_workers
  /\ scan \in 0 .. num_workers + 1
  /\ ctl = "join" => scan \in DOMAIN p_list
  /\ stop_signal_received \in BOOLEAN
  /\ outcome \in {NULL, "refused", "stopped", "finished"} /\ lost \in Nat
  /\ logger \in {"off", "opening", "loop", "writing", "backup", "failed", "killed"}
  /\ num_exp \in 0 .. NumFaults
  /\ <<log_pregoldenrun, log_goldenrun, log_config>> \in BOOLEAN \X BOOLEAN \X BOOLEAN
  /\ exp \in {NULL, Pregolden, Golden, BackupIndex} \cup Faults
  /\ queue_output \in Seq({Pregolden, Golden, BackupIndex} \cup Faults)

(* Until a campaign is stopped, the logger waits for the results still to  *)
(* come, of faults not started, of workers that have not put theirs and of *)
(* those in the queue, and for the ones lost with a worker that failed: it *)
(* never closes the file too early, and is kept from closing it by lost    *)
(* results only.  Timeouts lose none but in the start of an experiment.    *)
QueuedResults == {j \in DOMAIN queue_output : queue_output[j] \in Faults}

NoResultLost ==
  ctl # "idle" /\ ~stop_signal_received =>
    num_exp = Len(faultlist) - itter + Cardinality(Unposted) + Cardinality(QueuedResults) + lost

(* "Maximum number of elements in queue before scheduler blocks start of   *)
(* new workers" (--queuedepth): the outputs held or still to come from     *)
(* running workers are at most that depth plus the other workers.          *)
QueueBounded ==
  Cardinality(QueuedResults) + Cardinality(Unposted) <= queuedepth + num_workers - 1

(* No fault gets a second result in the file, over any number of stopped   *)
(* and resumed campaigns, unless by a campaign that appends deliberately,  *)
(* and a campaign that appends or runs what is missing keeps the results   *)
(* of the ones before it.                                                  *)
AddsFirstResult ==
  file # NULL /\ mode # "append" =>
    \A f \in Faults : file'.results[f] > file.results[f] => file.results[f] = 0

ResultsKept ==
  mode \in {"append", "missing"} /\ file # NULL =>
    \A f \in Faults : (file.results[f])' >= file.results[f]

ResultsOnce == [][AddsFirstResult /\ ResultsKept]_vars

(* A campaign that ran to its end, on a fresh file or resumed from one,    *)
(* leaves a result of every fault in the file, and no group half written   *)
(* (for faults whose FaultStrings differ, as those of the instances do).   *)
CompleteRecords ==
  outcome = "finished" /\ mode # "golden" =>
    file.begun = {} /\ \A f \in Faults : file.results[f] >= 1

(* Stopping a campaign lets the logger finish "the current write           *)
(* operation" (controller.py): between campaigns the file holds no group   *)
(* without its tables, and a backup only next to the golden run it is of.  *)
StopLeavesFileSound ==
  ctl = "idle" /\ file # NULL =>
    file.begun = {} /\ (file.backup # NULL => file.golden /\ file.pregolden)

(* What can hold the controller up for good in p.join(): a worker whose    *)
(* QEMU the timeout did not find and so did not end, and one that waits    *)
(* itself, in open or for a QEMU that hangs.                               *)
JoinsUnfound == ctl = "join" /\ p_list[scan].state = "starting"
JoinsStuck == ctl = "join" /\ p_list[scan].state \in {"blocked", "joining"}

(* The campaign has returned, or an exception has ended the controller. *)
Over == ctl \in {"idle", "failed"}

(* But for these joins every campaign ends, even if its experiments never  *)
(* do: by itself unless a worker has failed, whose output the logger waits *)
(* for, and after a stop signal in any case.                               *)
CampaignEnds ==
  []~JoinsUnfound /\ ~<>[]JoinsStuck =>
    /\ ctl # "idle" ~> Over \/ lost > 0
    /\ stop_signal_received ~> Over
-----------------------------------------------------------------------------
(* What the documentation and the comments say without restriction, and    *)
(* the code does not do.                                                   *)

(* "ARCHIE will remove the fault configuration with a warning"             *)
(* (fault-readme.md): no worker is started for a fault without a trigger,  *)
(* nor for the emptied entry of a wildcard, which is marked in that way.   *)
InvalidFaultsRemoved == \A k \in DOMAIN p_list : p_list[k].fault \notin Invalid

(* "Ignore signals, they will be handled by the controller.py anyway"      *)
(* (hdf5logger.py, register_signal_handlers).                              *)
LoggerIgnoresSignals == ctl = "idle" /\ file # NULL => file.begun = {}
=============================================================================
