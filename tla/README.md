# A TLA+ development for ARCHIE

ARCHIE injects faults into programs that run under QEMU (or Unicorn) and
records what they change. This directory holds TLA+ modules that model it, the
TLC configurations that check them and theorems about them that the TLA+ proof
system checks. Paths below are relative to the repository (`src/`).
`PROJECT.json` lists runs, theorems, hazards, findings, and for every definition
the lines it models.

## The system

A campaign is run by one Python controller. It makes a golden run, expands and
filters the fault list, and then starts a worker process per fault list entry. A
worker starts QEMU with the plugin, sends it a control message and a fault pack
over two FIFOs, reads the result from a third and puts it into a queue. A logger
process takes results from the queue and writes them to an HDF5 file. Inside
QEMU the plugin is driven by callbacks: a block is translated, a block is
entered, an instruction is executed, memory is accessed.

| Part | State | Operations | Interacts through | Module |
|---|---|---|---|---|
| Injection core (`faultplugin.c`, `fault_injection.c`, `fault_list.c`, `singlestep.c`, `tb_faulted_collection.c`) | fault list with hit counters, lifetimes and `trignum`; `fault_trigger_addresses`; `live_faults`; `req_singlestep`; faulted addresses awaited; start and end points; `tb_counter` | translation event, trigger, lifetime, start, end and limit callbacks; inject and reverse | QEMU callbacks, block flushes | `FaultPlugin` |
| Fault models (`fault_injection.c`) | guest memory and registers, saved bytes | set0, set1, toggle, overwrite; reversal | injection core | `FaultModels`, `FaultEffects` |
| Memory, register and memory-map dumps (`faultdata.c`, `registerdump.c`, `memmap_collection.c`) | vector of regions with their dumps, list of register dumps | dump at configuration, injection, reversal, end | injection core, data FIFO | `FaultEffects` |
| Record of blocks (`tb_exec_data_collection.c`, `tb_info_data_collection.c`) | ring buffer or list, tree of block information | block translated, block executed, dump | QEMU callbacks, data FIFO | `TbExecOrder`, `ExecOrder` |
| Memory accesses (`faultplugin.c`, `tb_info_data_collection.c`) | tree and list of accesses, of blocks | access callback, dump; assignment to blocks in the worker | QEMU callbacks, data FIFO | `DataCollection` |
| AVL tree (`lib/avl.c`) | nodes, links, balance factors | find, probe, insert | called by the two above | `AvlTree` |
| Readout (`faultplugin.c` 1229-1391) | three FIFOs, `fault_number`, configuration | read control, read fault pack, write report | FIFOs with the worker | `Handshake` |
| Worker (`faultclass.py`) | FIFOs, the QEMU process, signal handlers | configure, write faults, read out, filter, put | FIFOs, queue | `Handshake`, `Campaign` |
| Controller (`controller.py`) | `faultlist`, `itter`, `p_list`, stop flag, memory statistics | launch, schedule, time out, reap, stop, resume | queue, shared flag, HDF5 file | `Campaign`, `Handshake` |
| Logger (`hdf5logger.py`) | `num_exp`, `log_*` flags, the open file | open, take, write, back up, close | queue, shared flag, HDF5 file | `Campaign` |
| Golden run, triggers (`goldenrun.py`, `calculate_trigger.py`) | the fault list | run, expand wildcards, move triggers ahead, reject triggers | tables of the golden run | `GoldenRun` |
| Block filter (`faultclass.py` 315-456) | the record of one experiment | fold single steps back into blocks | blocks of the golden run | `FilterTb` |
| Unicorn worker (`emulation_worker/`) | hooks, live faults, logs | hook callbacks | called by a Python worker | none |

What is hard here: block translation and execution interleave with flushes that
the faults themselves ask for, so every count the plugin keeps depends on which
blocks were translated before and after; faults of one pack share indices,
counters and bytes of memory; worker and plugin wait for each other at three
FIFOs while either may fail, time out or be signalled; the campaign has four
kinds of processes with different signal handlers, a queue nobody bounds
directly, experiments that need not end, and a file that has to survive stops.
`PROJECT.json` lists the hazards at their lines.

What makes each part correct:

* injection core: a fault is injected exactly at the configured execution and
  reverted exactly after its lifetime; single-stepping is on exactly while
  somebody needs it; a started experiment ends unless its guest halts for good;
* fault models: a fault changes its own bits, its reversal takes back what it
  changed and nothing else, also among overlapping faults and guest stores;
* dumps: the report tells every dump that was due, or is known to be lost;
* record of blocks: the report is what was executed, in order; executions are
  counted over retranslation; one record per block;
* memory accesses: none is lost, each is counted at its own addresses and put
  into its block;
* readout: both sides agree on message boundaries; neither waits for the other
  for ever; a report arrives whole or not at all;
* campaign: no result is lost or waited for in vain but those of workers that
  fail; the queue is bounded; a campaign ends whenever its joins do; a file is
  resumed without repeating or forgetting a fault;
* triggers, wildcards, filter: they agree with a direct definition over the
  instructions executed.

## Modules

Names of variables and operators are the code's where TLA+ allows it. Operators
marked "wrong variant" are plausible bugs; they are used by nothing, and each
property of a passing run is violated when its variant takes the place of the
definition it varies (`mutants` in `PROJECT.json`).

### FaultPlugin

The injection core and its environment. The guest is one vCPU with the
addresses `1..MaxAddr`, one instruction each; a block ends at a branch, or
after one instruction under single-stepping. After every instruction control
may leave for any address, which covers branches, exceptions and whatever a
fault leads to.

* `pack` is the configured fault list, in list order; `trignum`,
  `fault_trigger_addresses` and `live_faults` are indexed from 0 as in C.
  `started` stands for `start_point.trignum != 3`.
* A translation is `TranslateBeforeStart`, `TranslateFirst` (followed by one
  `HandleFirstTb` per fault) or `TranslateNext`, then `CheckTbFaulted` per match
  and `EndTranslation`. The callbacks a block gets are stored with it.
* An execution is `EnterUncounted`, `EnterCounted` or `MaxReached`, then for each
  instruction the callbacks in registration order: `TriggerInsnCb`, `TbExecCb`,
  `TbExecEndCb`. `inject_fault` is one operator used where the code calls it.
* At the end of a block the guest may halt (WFI, `halted`); a halted guest
  executes nothing, and `Wake` is the interrupt that need not come. Only the
  controller's timeout ends an experiment then (`fault-readme.md:247`, the
  example `stm32-timeout-wfi`), and that is in `Handshake` and `Campaign`.
* `hits`, `injected`, `alive` and `first_block` are history and only read by
  properties.

Two assumptions on QEMU, both from how the plugin relies on it: a requested
flush happens before the next block is translated or entered, and a running
block keeps the callbacks it was translated with. What an injection does to the
guest's bits and which dumps it takes is in `FaultEffects`.

### FaultModels and FaultEffects

`FaultModels` is the arithmetic. A byte is the set of its one-bits, so that set0,
set1 and toggle are set operations; the widths of byte, `int`, `uint64_t` and
mask are constants. Memory faults are bytewise. Register faults go through
`byte << 8*i` on an `int`: `IntShifted` extends the sign and leaves a shift by
the width of `int` or more to choose between the two outcomes compiled code has.
`Plus` adds registers as sets of bits, with the carry into each bit (`Carry`).

`FaultEffects` runs a pack of faults on a guest: `InjectMemory`,
`InjectRegister`, `ReverseMemory` and `ReverseRegister` at any time and in any
order, each with the memory and register dumps it takes, and with the guest's
`GuestLoad`, `GuestStore` and `GuestWriteRegister` in between; `EndDump` is
`plugin_end_information_dump` as far as memory, registers, pages and memory map
go. An access has an instruction, an address, a size and a direction; it may
cross pages or go to a device. With `mem_info` on it gets a record in
`mem_infos` unless the comparison takes it for an access that has one (`Alike`,
`memaccess_data_cb`); the tree behind that search is `DataCollection`'s, here
the search may also miss what it looks for. The pages of the pre-golden run are
those of the records whose access, the first of those taken for the same, was a
store (`AccessedPages`). The vector of regions (`num_memdump` its room), the
room of a region's dumps (`num_dumps`) and the failing read of a region outside
RAM are in it. `golden` is the guest had no fault been injected, `events` the
injections and reversals; `mixed` holds the bytes for which a saved value went
out of date before it was written back (a later overlapping fault, or a guest
store under a pending one). QEMU is external: an access of the plugin that
leaves RAM fails as a whole. The flat view has all of RAM, and the 16 bytes of a
mask are not a page (`RamAssumption`); a pre-golden run configures no regions of
its own (`faultclass.py:779`, `ExperimentAssumption`). The memory map is a set
of ranges, the order of the flat view's walk being of no consequence.

### ExecOrder and TbExecOrder

`ExecOrder` says what the record of executed blocks promises: the blocks in
order with their positions, all of them or the last `Depth`. `TbExecOrder` is
the ring buffer with its index, the list, the tree of block information and the
dump. The mapping takes the record kept so far to be what the dump would
report now. An element of the ring that was never written is `NULL`, which
stands for the unspecified bytes of `malloc`.

### AvlTree and DataCollection

`AvlTree` is the part of `lib/avl.c` the plugin calls: the path from the root,
the insertion with its single and double rotations and the balance factors. A
comparison function is given by its results for the items of the tree, so that
one that is not an order can be given as well. `DataCollection` is the two
tables built on it, with `mem_comparison_func` and `tb_comparison_func`
truncating a difference to `int` (`IntMax`), the callback of a memory access,
the dump, and in the worker the assignment of an access to a block
(`connect_meminfo_tb`, the operator `Tbid`).

### Handshake and Experiment

One experiment between four processes: the worker's `python_worker`, its child
`run_qemu`, QEMU with the plugin, and the controller. A message is a size line
and the parts of its body, a FIFO holds `PipeCapacity` of them; opening a FIFO
blocks until both sides have come to it (`w_arrived`, `q_arrived`, `met`).
Reads and writes may be short, both loops of the plugin are there, the end of a
FIFO is seen once its other side is gone. `Timeout` looks the process up by the
name `run_qemu` has at that moment, `StopSignal` reaches the controller or
everybody, `KillWorker` is what the controller does after the logger has ended.
QEMU fails before it opens a FIFO or with the guest running. Of the control
message the instruction limit (an `int` holds up to `IntMax`) and the number of
faults are modelled, of a fault its identity and place in the list.
`QemuSetupConfig` unpacks the fault pack, `SetupFault` is one round of its loop,
which adds a fault, and `register_fault_trigger_addresses` counts them.

Assumed of the environment: QEMU ends on SIGTERM and SIGINT, but a report whose
write has begun is written to its end first; QEMU ignores SIGPIPE; what a
process holds open is closed when it ends; `psutil` lists a process that has
ended until it is joined.

`Experiment` is the abstract view the campaign has: a worker hands in at most one
output, of a whole report or of none, and ends. `Handshake` implements it, with
`phase` and `result` read off the worker and its output.

### GoldenRun and FilterTb

`GoldenRun` is what the controller makes of a golden run. The run is any
sequence of blocks over a small program with overlapping blocks and
instructions of two sizes; an exception may leave one of them early. The code
under test works on `tbexec`, the first addresses of the blocks; the properties
are stated on `trace`, the instructions. `EndGoldenRun` computes for each
configured fault its trigger (`calculate_trigger_address` with
`find_fault`, `trigger_hitcounter` and `calculate_lifespan_from_start`) and the
deletions of `checktriggers_in_tb`, and for each wildcard its expansion
(`generate_wildcard_faults`, one `WildcardStep` per instruction). The loops are
recursive functions; the sum `trigger_hitcounter` adds up block by block is the
number of the record's entries with one of these blocks.

`FilterTb` goes on to an experiment that records whole blocks and single steps
in any mixture (`RunWholeBlock`, `SingleStep`), and folds them with `filter_tb`
(`FilterRecord`). `visits` and `stepped` are history: which entries control came
to by a branch, and which are single steps. `Filter(b)` is the code of block `b`,
its instructions in order (`Sorted`); the loops over the filters and over a
filter's instructions are recursive functions, and what is not dropped is picked
out of the record by its places (`At`).

### Campaign

Controller, workers, logger, queue, signals and file. `Launch` is everything up
to `p_logger.start()` for one of five ways to launch a campaign (default,
`--append`, `--missing-only`, `--overwrite`, `--goldenrun-only`); `Refuse` is each
return before it. The golden run is part of `Launch` and leaves its data in the
queue. The scheduling loop is `StartWorker` or `HoldWorker`, then the scan over
`p_list` (`KeepWorker`, the timeout, `ReapWorker`, which skips the entry behind a
popped one), then `LeaveLoop` and `Return`. At the timeout of a worker the
controller looks for the process of `run_qemu` by its name: it terminates its
child (`TerminateQemu`), finds none of that name (`QemuNotFound`), both of which
lead into `p.join()`, or finds one that has not, or no longer, one child
(`AssertionFails`).

A worker is followed as far as the others can tell. It is `starting` until the
faults are written, `simulating` while QEMU runs, in `readout` once QEMU is over
and the output still to be put, `ending` with nothing left to wait for, and
`exited`. The two places at which `Handshake` finds that it may stay for ever are
states of their own: `blocked` in opening a FIFO of a QEMU that failed, and
`joining` a QEMU, after an interrupt or an exception, that may hang in a report
nobody reads. A timeout moves it accordingly (`AfterTimeout`), a signal to the
process group makes an interrupted worker join (`StopGroup`). `lost` counts the
outputs that will never come, of workers whose QEMU failed or was terminated
while they started, or whose fault could not be encoded (`Unencodable`). An
entry emptied by the expansion of its wildcard (`Emptied`) is still in the list
and ends the controller when its worker has been started. A controller ended by
an exception (`failed`) does nothing further: what Python does at the exit of
its interpreter, where it joins the processes left, is not modelled, and nor is
a launch after it.

The logger takes a result in two steps, `TakeResult` and `WriteResult`,
and stores the backup fault by fault. The file outlives a campaign; up to
`MaxSessions` of them run on it. What a resumed campaign runs (`ToRun`) is taken
from the backup and the results in it; `--missing-only` compares the digits of
the faults' fields run together (`FaultString`).

Signals start once the controller has installed its handlers; a campaign with a
debugger (no timeout) and the Unicorn worker are left out. Memory management is
a nondeterministic refusal to start a worker, possible only while workers or
queued outputs exist, as `mem_limit_calc` is zero otherwise. Combinations of
`--overwrite` with `--append` or `--missing-only` are left out.

## Runs

| Run | Instance | Shows |
|---|---|---|
| `packs` | packs of three faults of three types, counters 0-2, lifetimes 0-3, four addresses, six counted instructions, triggers shared or not | the inductive invariant of the proof, balance of requests, single-instruction trigger blocks, injection and reversal on time |
| `start` | a start point at its second execution, two end points, one fault | injection and reversal on time after the start; a started experiment ends unless its guest stays halted |
| `effects` | pairs of faults of every model, memory windows that are equal, overlap or leave RAM, registers of two and four bytes, two guest stores or register writes; pre-golden runs with accesses recorded or not: a load and a store of one address, a store across pages, one to a device, stores that an `int` of four bits takes for the same | bits no fault is about stay the guest's; memory and registers are the guest's with the pending faults applied; the dumps show them; the report is complete, with the pages the records lead to, each once and no others, or lost to a region or page outside of RAM |
| `order` | ring of 3, two blocks of one or three instructions, 8 executions | types, execution counts, refinement of `ExecOrder` |
| `accesses` | eight accesses and three overlapping blocks, an `int` of four bits, six accesses in any order | both trees balanced and complete whatever the comparison makes of the addresses; one record per block; no access lost; counts exact where an `int` can tell the addresses apart; the worker puts an access past a block's first instruction into a block that was translated with it |
| `handshake` | packs of one and two faults, a limit that fits an `int` and one that does not, FIFOs of two parts, reports shorter and longer than that, failures, timeout and signals anywhere | the only waits without end are four known ones; a worker ends after its QEMU; the configuration arrives; no report is lost or torn; refinement of `Experiment`; the experiment ends outside of those waits |
| `golden` | golden runs of up to five blocks over five instructions and overlapping blocks, seven faults, eight wildcards, experiments of up to five entries | triggers and their hit counters against the trace; wildcards against the trace; the filter against the blocks control came to |
| `schedule` | 3 faults, 2 workers, queue depth 1, memory management, one campaign, QEMUs that fail or hang, timeouts anywhere, stopped by a signal to the controller or to everybody at any point | types, accounting of results, bound of the queue, termination but for the joins named |
| `resume` | 3 faults, 2 workers, queue depth 1, 3 campaigns in any of five modes, stopped by a signal to the controller or to everybody at any point | complete files, sound files after stops, no result twice and none dropped |

The bounds let the interesting cases happen. Three faults are enough to share a
trigger, an index of `live_faults` or a faulted address while one more is armed;
counters up to 2 reach the step before the last hit; lifetimes up to 3 outlive a
block. Two faults overlap in every way two can, and the second is reverted
before or after the first; five mask bytes, four register bytes and an `int` of
two keep the order of the widths in C. The ring wraps twice. Six insertions give
an AVL tree of height three, with every rotation. A report of four parts does
not fit a FIFO of two, so that writes are short and readers come too late. Five
blocks repeat a block often enough for a third execution and a range over
blocks. Two workers and a queue of depth one make the scheduler overshoot the
depth; three campaigns allow a stop, a stopped resumption and a completion.
Two accesses of a pre-golden run are a load and a store of the same address, two
that are confused with each other, or a store across pages and one into either.
They are recorded before the start point only (`BeforeStart`), which the other
runs of `effects` begin behind.
`tb_counter_max` bounds an experiment as it does in the code; `MaxGuestSteps`,
`MaxExec`, `MaxAccesses`, `MaxBlocks`, `MaxEntries` and `MaxSessions` are bounds
of the models.

A few branches are only taken in runs of the next table, because they break the
campaign: emptied wildcard entries and faults that cannot be encoded (`invalid`),
and SIGTERM to the whole group (`sigterm`). A configuration without a start point
(`HasStart`) is in no run. `golden` and `handshake` check no deadlock: an
experiment there may be over, and the waits without end are a property
(`WaitsOnlyKnown`). The runs of `Campaign` check none either: the
controller may have ended by an exception, or wait for ever in a join or for the
logger, which `CampaignEnds` names.

Fairness. `FaultPlugin`: QEMU translates and executes as long as the guest is
not halted (`WF_vars(Translate \/ Execute)`); which instruction comes next is
not constrained, and nothing promises that a halted guest is woken.
`StartedTerminates` is therefore about a guest that does not stay halted.
`Handshake`: each process is scheduled and time passes (`WF` of the worker's,
`run_qemu`'s, the plugin's and the controller's steps); the guest need not end,
nothing need fail and nobody need signal. `Campaign`: controller, logger and
each worker keep running and the clock advances (`WF`); an experiment need not
end by itself nor a QEMU that hangs in its report, and nobody need stop or
launch a campaign. `CampaignEnds` and `ExperimentEnds` therefore rest on the
timeout. The hypotheses of `CampaignEnds` are those of `ExperimentEnds` seen
from the controller: its `p.join()` is not for a worker whose QEMU the timeout
did not find because it was still starting (`JoinsUnfound`), and does not go on
for ever because the worker itself is blocked in `open` or joins a QEMU that
hangs (`JoinsStuck`). Then a campaign ends by itself unless a result is lost,
and after a stop signal in any case; the failed assertion counts as an end. The
other specifications state safety only and need no fairness.

## Where code and text disagree

Each of these runs checks one statement of a comment or document and TLC
finds a behaviour of the code against it; the details are under `findings`.

| Run | Disagreement |
|---|---|
| `pack` | `qemu_setup_config` "will read all fault configurations" (`faultplugin.c:352`); of two or more, all but the first are read from behind the first one |
| `invalid` | faults without a trigger are not removed, and workers are started for them; nor is the entry of a wildcard, empty once it has been expanded, and logging its first fault ends the controller with an `IndexError` (`goldenrun.py:413`, `controller.py:868`) |
| `sigterm` | SIGTERM to all processes ends the logger in the middle of a result |

Properties state the circumstances under which the code keeps them as hypotheses
of their own. What happens outside of them, and what else the models show of
the code:

* Injection core. Of two faults with one trigger address one may never be
  injected (`DistinctTriggers`). A live fault injected in the first block clears
  another fault's trigger entry, as `trignum` has become an index into
  `live_faults` by then (`faultplugin.c:543`, `NoEarlyLiveFault`). The first block
  after the start gets no trigger callbacks (`faultplugin.c:1186`), so executions
  of a trigger inside it are not counted until it is translated again, against
  `fault-readme.md:230` (`OutsideFirstBlock`). The end of a block is compared
  inclusively (`tb_faulted_collection.c:137`), so the block before a faulted
  instruction may be recorded as its disassembly. The end reason is formatted
  from a counter already counted down (`faultplugin.c:1061`), against
  `fault-readme.md:41`. The record of a block keeps the size and instruction
  count of its first translation, also when single-stepping cuts it shorter,
  against `hdf5-readme.md:29`.
* Fault models. The reversal of an overwrite works on all sixteen bytes of the
  mask, so a mask that reaches past `num_bytes` clears bits the fault never set,
  against `fault-readme.md:157` and 168 (`MaskFits`). Register masks are shifted
  as `int`: a top bit in the fourth byte spreads to the upper word, and higher
  bytes are undefined (`Narrow`). The `tbcount` of the register dump at an
  injection is `trignum`. A memory fault within sixteen bytes of the end of RAM,
  like a region configured outside of RAM, ends the plugin before the report is
  sent (`RegionUnreadable`); so does a recorded store outside of RAM, whose page
  is to be dumped. The pages of the pre-golden run are those of records whose
  first access was a store: with `mem_info` off there are none, though that run
  has its pages dumped (`goldenrun.py:49`, `faultplugin.c:1143`), a page only
  stored to after loads of the same addresses is missing, and so is the second
  page of a store across two (`StoreTold`, `PagesReported`).
* Memory accesses. Addresses 2^31 or more apart are not ordered by a comparison
  truncated to `int`: records merge, or an address has two (`Spread`). The record
  of an address keeps the size and direction of its first access
  (`faultplugin.c:224`). An access by the first instruction of a block gets no
  tbid, or that of another block it lies in (`faultclass.py:481`), against
  `hdf5-readme.md:22` (`PastFirst`).
* Handshake. A QEMU that fails before it has opened the FIFOs leaves its worker
  in `open` for good, and the timeout then finds a process that has ended, so
  that an assertion ends the controller (`controller.py:908`), whose message says
  that there should be one child; the same happens in the moment before QEMU is
  started, and when it has just ended and its worker evaluates the report. An interrupted worker joins a QEMU whose
  report nobody reads. A killed worker leaves a QEMU that waits at a FIFO or
  spins in `readout_pipe` (`faultplugin.c:1264`). The instruction limit of the
  golden run (10^13) becomes 1316134912 as an `int`. `add_fault` says that it
  appends and adds in front.
* Golden run. A wildcard whose end point is itself excluded runs one more
  instruction; one whose start and end are the same execution ends the program
  as if the end had not been met. A rejected trigger address is remembered
  without its fault, so that a later overwrite fault of the same address, which
  would be exempt, is deleted too; the exemption itself is for model 3, the
  overwrite, where the comment speaks of instruction faults. Hit counters are
  wrong when an exception leaves a block early (`left_early`), and would be for
  instructions of one byte.
* Filter. A block followed by a visit of its own second instruction is folded
  into one (`Ambiguous`): the record does not tell it from single steps.
* Campaign. Without a start point the logger fails of a `KeyError` on the backup
  and nothing is recorded (`hdf5logger.py:496`), against `fault-readme.md:45`
  (`HasStart`). The logger waits for as many outputs as there are faults, so a
  result lost with its worker (`lost`) keeps a campaign from ending until it is
  stopped: a QEMU that fails while it starts, a timeout at that point, a fault
  whose trigger address is still -1 (`faultclass.py:166`). A worker blocked in
  `open` holds up the controller in `p.join()`. `--missing-only` takes a fault
  for simulated when the digits of its fields, run together, are those of
  another one (`controller.py:605`). A signal between the start of the logger
  and the installation of the handlers (`controller.py:799`) raises in the
  controller and is not modelled.

## Proofs

Each module of proofs is about one module of the model, for every value of its
constants that the `ASSUME`s allow. These say no more than the code relies on: C
sizes are positive, end points are finitely many (they are command line
arguments), and `NULL` is none of the values it stands beside. No theorem fixes a
number of faults, workers, blocks or campaigns. Nearly every invariant a run
checks is too weak to survive a step on its own; the strengthening each proof
needs is named below.

### The injection core

`FaultPluginProofs`:

* `Inductive`: `IInv` is an invariant. `IInv` is the type invariant, the balance
  of requests, and what the balance rests on: the tables `live_faults` and
  `active_triggers` are filled from the front (`LiveTable`, `FaultedTable`), a
  callback registered on any block, cached or running, refers to a fault that
  can still take it (`BlocksSound`), and the phases of a translation
  (`PhaseSound`). The balance alone is not inductive: that a lifetime callback
  removes one request needs that its fault is still in its entry of
  `live_faults`, also when the callback sits on a block translated long ago.
* `TypeCorrect` and `Balance` follow from it.

The argument counts the holders of requests: armed triggers, live faults,
awaited assemblies. Each action changes each of the three sets by at most one
element, a few general lemmas say what that does to a cardinality, and there is
one lemma per action. Dropping stale live entries at a translation removes
none, because an entry is cleared when its lifetime ends.

What concerns time:

* `TriggersSingleStepped`: the last hit of a trigger is evaluated in a block of
  one instruction. The invariant (`TimedInv`) says of every block in the cache,
  unless a flush is due, that it has the callbacks of all live faults and is a
  single instruction if a trigger in it needs one more hit; and of the running
  block the same, except for a trigger already evaluated in it.
* `LifespansExact`: a fault stays for its configured lifetime. `AliveExact` adds
  up the instructions begun since the injection and the lifetime left; the sum
  is one more while the lifetime callback of this instruction is still to come
  (`LiveDue`), and a callback that is due is pending (`DueIsPending`), so that
  the instruction cannot end without it.
* `InjectionsOnTime`: a fault is injected at the execution its counter names. In
  the same way `TriggersExact` adds up executions and hits left. It needs that
  every cached block covers the trigger (`Covers`), which is what fails in the
  first block, and that the entry of the trigger vector is not cleared for
  another fault, which is what `DistinctTriggers` and `NoEarlyLiveFault` exclude.
* `FaultsInTime` is the two together.

### Record of executed blocks

`TbExecOrderProofs`, for any ring size:

* `RingIndexInside`: the ring is written inside its elements, from the first one
  on, and every block that may run has its record when information is enabled;
* `OrderImplemented`: every step of `TbExecOrder` is a step of `ExecOrder` or
  leaves its variables alone. The step of an execution compares the dump
  before and after it, case by case: the list, a ring not yet full, a ring just
  full, a full ring, with the index wrapping or not;
* `CountsKept`: a block's count is the number of its executions in the history,
  through any number of flushes and translations.

### Trees and tables

No induction principle for data can be used with the provers at hand. The proofs
of this section take the least counterexample instead (`Smallest`,
`FewestElements`), and describe what a recursive function computes by any
functions that satisfy its equations.

`AvlTreeProofs`, for trees of any size:

* `InsertSound`: `avl_insert` of an item the search does not meet keeps the tree
  sound, whatever the comparison function answers, and in order for every
  transitive relation its answers agree with. `Sound` says that heights `h`, the
  sets `u` of items below each item and the place `at` each hangs on satisfy
  their equations item by item, with balances that are the differences of
  heights, between -1 and 1. Along the path the heights grow up to the topmost
  unbalanced item (`TopPlace`), which is where the code rebalances; a rotation is
  a change of `h`, `u` and `at` at two or three items.
* `FindMeets`: a search meets the equal item if each comparison on the way leads
  towards it.

`DataCollectionProofs`, for any guest and width of `int`, proves what run
`accesses` checks: `TypeCorrect`, `TreesStaySound`, `OneRecordEach`, `NoneLost`,
`CountsAreExact` and `AccessesArePlaced`. The assumptions are that blocks and accesses have
addresses, that the guest has finitely many kinds of access, and that
`NULL` is not a report.

The invariant (`IInv`, theorem `InvHolds`) is that of two phases. While
collecting, the table of blocks is sound and ordered by base address (`TbTable`)
and the table of accesses (`MemTable`) is sound too; every record stems from an
access; and the sum of the counters is the number of accesses. That a record of
a block stems from a translation is also what places an access (`Placed`). The order of the
second tree is the difficult part: a comparison truncated to `int` is no order.
For each instruction `i` whose addresses are near enough to be told apart
(`Apart`) there is an order that relates all records by instruction and those of
`i` by address (`MemRel`), and the tree follows each of these orders, since a
truncated comparison of two records of another instruction is free to answer
anything. So the search for an access of `i` meets its record however confused
the rest of the tree is, and the count of `i` is exact. An access can spoil
`Apart` for an instruction but never restore it. After the report the lists are
empty and the same holds of the message.

### Filter of executed blocks

`FilterTbProofs`, for any code of the guest, any golden run and any experiment:

* `TypeCorrect`: among the types, that `filter_tb` returns one positive count for
  each block of the record it returns, and no other;
* `FilterKeeps`: those counts are exact; an unambiguous record loses no block
  control came to; and if every block was run as the golden run would have run
  it, what is left over is exactly these blocks, in order.

Of the code it is assumed that instructions do not overlap, have two bytes or
more, and that from each one a branch is reached (`CodeAssumption`).

The argument is about windows: places of the record at which the code of a block
stands (`Window`). Within a window each entry is the instruction behind the one
before (`InsideIsBehind`), so that in an unambiguous record nothing behind its
first place is a visit, and a filter, which drops only such entries, drops no
visit. For the other direction, `Stage` says what the first filters leave: an
entry is as it was, or dropped and inside of a window of one of them (`Remains`),
and each of their windows has been folded unless an earlier one shares an entry
with it (`HandledAll`). An unvisited entry of a regular run lies in the window of
the block control last came to (`LastVisit`, `RunIsWindow`). Two windows that
share an entry end at the same branch (`SameEnd`), and the earlier one cannot be
the longer, since it would hold a visit; so the longest filter first is the
order in which nothing stands in the way (`UnvisitedDropped`); TLC finds the
property violated with the shortest first (`shortest_first`).

A filter's matches do not overlap behind their first places, because the
instructions of a block are all different (`CodeDistinct`), so each of its
instructions is dropped once per match (`DroppedOf`), and that is what is taken
off the counts (`FilterFunctionIs`). That the loop over a filter comes to this,
and that sorting gives each element its rank, is shown from a least
counterexample (`Smallest`), not by induction.

The inductive invariant (`IInv`, theorem `InvHolds`) adds to the types that an
entry not visited is a single step and lies right behind another (`Stepped`),
that `entered` tells the same of the entry to come (`Arrival`), and that what is
filtered is `filter_tb` of the record and its counts.

### Triggers and wildcards

`FilterTbProofs` goes on with `GoldenRun`, which `FilterTb` extends, for any code,
golden run, faults and wildcards:

* `TriggersRight`: the trigger put in the place of a negative trigger address is
  the instruction so many instructions ahead of the execution meant, with the
  number that execution has in the run; a fault due before the run began is
  injected at its start and lasts as long as it would have; and a fault is
  rejected if there is no such execution or it would be over before;
* `WildcardsRight`: a wildcard becomes the executions from its start point to its
  end point that are not excluded, in order and each with its number, or the
  program exits if there is no such range.

Both are about runs that leave no block early: an exception out of the middle of
a block makes the record longer than what was executed. `WildcardsRight` leaves
out an end point that is itself excluded, where the code goes on for one more
instruction. Beyond `CodeAssumption` they rest on `ConfigAssumption`: hit counters
and lifetimes are natural numbers, and a local wildcard has no hit counters.

The invariant (`RunInv`, theorem `RunHolds`) is that the trace consists of the
blocks recorded, each at its place: there are offsets, block `k` taking the
places from `off[k - 1] + 1` to `off[k]` (`Laid`). They are needed because the code
never sees the trace, and the properties never the blocks. From there:

1. An instruction occurs at most once in a block, so that the places at which it
   is executed correspond, in order, to the blocks of the record that have it
   (`Executed`), and the two are counted alike (`ExecutedRanks`, over `SameRank`:
   an order-preserving map keeps every rank).
2. `trigger_hitcounter` does not look into blocks but compares their first and
   last addresses. `Overlap` shows that what it selects are just the blocks that
   have the instruction: blocks that share one run to the same branch
   (`SameBranch`). Here instructions must have two bytes or more; with one of a
   single byte the comparison of last bytes misses a block. So the number it
   gives is the number of the execution (`HitcounterExact`).
3. `find_fault` finds the block of the execution meant (`FindIs`), going back over
   the blocks is going back in the trace (`BackwardsIs`), and the instructions
   counted from the start are the place in the trace (`LifespanIs`); `TriggerIs`
   and `ConfigExact` put these together with the rejections.
4. The walk of a wildcard is over the trace (`WalkedIs`). `WalkState` says without
   the loop what `generate_wildcard_faults` knows after so many instructions, from
   the executions of the two points so far (`Seen`), and `WalkStep` that one
   instruction takes it from one such state to the next. The n-th execution of a
   point is met once (`NthOnce`), which gives `ExpansionExact`.

That the three loops come to what they are compared with is again shown from a
least counterexample.

### Fault models

`FaultEffectsProofs`, for any widths, packs, memory and regions:

* `ReversalRestores`: what a reversal writes over an injected byte is the byte
  found, for every model and mask that fits;
* `Untouched`: bits no injected fault is about are the guest's in every reachable
  state. The invariant says besides that what was saved of a byte lies within
  the bits of its fault, and is empty for a fault not yet injected, so that a
  reversal cannot set a bit outside of them, whatever was stored meanwhile;
* `FaultsInForce`: a byte whose saved value never went out of date is the guest's
  with the pending faults applied in the order of their injection. The
  invariant (`MemorySound`) gives every such cell a chain of bytes (`ByteChain`),
  one for each event, from the guest's byte to the one in memory, in which the
  byte ahead of a pending fault is the one that was saved for it. An injection
  adds a link; a reversal takes its link out and reverts every byte behind it,
  which the faults behind it allow because they are about other bits
  (`DisjointCommute`); any other event leaves the chain alone. That the chain is
  the recursive function of the property (`ChainIsFaulted`) follows from the
  least event at which the two would differ (`Least`), not by induction;
* `RegistersInForce`: the same of registers, for faults an `int` can express
  (`Narrow`). The chain argument is that of memory (`RegisterChain`). What it
  needs besides is that the code's sums and shifts are the fault model within a
  word (`RegisterFaultIs`): numbers without a common bit add up to their union
  (`PlusDisjoint`), a shifted byte is at its place with at most the sign of the
  `int` above it (`ShiftInInt`), bytes at different places have no common bit
  (`IntShiftsApart`), and the sign shows in no word the fault is `Narrow` for
  (`IntShiftInWord`). The loops over the bytes are compared with closed forms
  (`MaskSumIs`, `OverwrittenIs`), again by the least byte at which they differ.

About the dumps and the report:

* `DumpsTyped`: types, and the room of the vector and of each region;
* `DumpsTell`: the region an injection opens begins with the bytes before and
  after it, and, if the fault's mask fits, the dump of its reversal has of the
  bytes before the masked bits, and the bits that an overwrite cleared, as they
  were;
* `ReportHasAll`: a report is lost exactly when a region lies outside of RAM, and
  one that is sent has every dump, a register dump for every event and, with
  accesses recorded, once the page of each store that is only ever taken for
  stores to the same page (`StoreTold`), and no page without a store.

While an experiment runs, `Collected` numbers the regions and their dumps: the
configured ones come first, then one for each injection in memory (`RegionOf`),
and a region has as many dumps as the events since it was configured have read
its address (`ReadsSince`: two for an injection, one for a reversal). `InjectTold`
and `ReverseTold` say which dumps show a fault. An event adds to every count at
its address what it adds to the dumps there (`ReadsGrow`, `ToldKept`), so that a
dump keeps its place when other faults at the same address are read. `EndDump`
adds one dump to every region; the pages are all different (`PagesOnce`), so
that no byte is in two of them. After it only stuttering is left.

### One experiment

`HandshakeProofs`, for every pack, capacity and message size, with failures,
timeouts and signals anywhere:

* `QemuFirst`: no worker that is not killed ends before its QEMU. The invariant
  (`ProcessesOrdered`) ties the stages of `run_qemu` to those of QEMU and of the
  worker.
* `TypeCorrect`, which includes that no FIFO holds more than its capacity.
* `ConfigArrives`: a guest that runs has the limit and the number of faults that
  were sent. `MessageFlow` follows the two messages through their FIFOs: what
  the worker has not written, what the FIFO holds and what the plugin has read
  are together one message, so that the plugin's reads, however short, stop at
  its end and never take a part of the next. `Configuring` carries the numbers
  from there to the guest.
* `NothingLost`: an empty output means that QEMU failed or was terminated.
  `ReportFlow` does for the data FIFO what `MessageFlow` does for the others:
  read, held and unwritten are together the report. The end of the FIFO is seen
  only when QEMU is gone, and QEMU leaves with a report unwritten only if its
  reader has left before.
* `ExperimentKept`: `Handshake` implements `Experiment`. By the same invariant
  the output is put once, and is the whole report or empty (`OutputWhole`);
  each step is then a step of `Experiment` or leaves `phase` and `result` alone.

The invariant of the last four is `Inductive`: the types, `ProcessesOrdered`,
where each side is among its FIFOs (`Places`), and the conjuncts named.

### Campaigns

`CampaignProofs`, for any fault list, number of workers and queue depth, any
number of campaigns in any mode, with timeouts and signals anywhere:

* `QueueStaysBounded`: results in the queue and outputs still to come from workers
  are at most the depth plus the other workers;
* `ResultsAccounted`: the logger of a campaign that is not stopped waits for
  exactly the results still to come and those lost with a worker (`lost`).

Both count the places of a sequence that hold an element of a set: workers that
have not put their output, results in the queue. The lemmas say what appending,
removing and changing an element does to such a number; then one lemma per kind
of step follows. The invariant (`CInv`) adds to the two properties the types of
what is counted and that a scan of the workers starts with the first.

About the file:

* `TypeCorrect`;
* `OneResultPerFault`: no step adds a second result of a fault, except for a
  campaign that appends, and a campaign that appends or runs what is missing
  drops none;
* `FinishedIsComplete`: a campaign that ends by itself leaves a result of every
  fault. The premises are those under which the code keeps it: there is a start
  point, no two faults print alike, and SIGTERM is not sent to the
  logger (`sigterm`). A campaign that lost a result does not end by itself;
* `StopIsSound`: between campaigns every result group has its tables and a
  backup its golden run data, with a start point and without SIGTERM.

These follow one fault on its way to the file. `Toward` counts the places it is
at: in the list still to start, in a worker, in the queue, in the logger's
hands. The number is at most one after a launch, because `ToRun` names no fault
twice, and no step raises it. `Recording` says of a campaign that loses nothing
that each fault is either on its way or in the file; with the accounting above
the end of a campaign leaves none on its way. `BegunInHand` says
that a group without tables is the one the logger is writing, `GoldenFirst` and
`BackupSound` that the queue hands out the golden run before the backup is
written. `FileInv` is all of it with the types and the control of the
processes.

### What is only model-checked

Liveness (`StartedTerminates`, `ExperimentEnds`, `CampaignEnds`) and
`WaitsOnlyKnown`, which is about `ENABLED`, are out of the prover's reach.

## Not modelled

* The Unicorn worker (`emulation_worker/`): an engine of its own that shares no
  code with QEMU and the plugin.
* An interrupt during the golden run, which is one step of `Launch`; SIGABRT
  while the end dump already runs, which enters the dump a second time on memory
  being freed; the loss of the upper 64 bits of a mask read back from a backup
  (`controller.py:532`).
* The masks that `process_single_faults` chooses by the size of an instruction,
  and faults of a list entry beyond the first in `GoldenRun`.
* Deletion, copying and traversal in `lib/avl.c` (never called), the generated
  protobuf code (messages are records), the layout of HDF5 tables, logging,
  argument parsing, fault ranges and hash comparison, the analysis scripts and
  the examples.

## Plan

1. An abstract life of a fault (waiting, armed, live, reverted) that
   `FaultPlugin` implements, and its proof.
2. The Unicorn worker: its hook table keyed by trigger and its live faults.
