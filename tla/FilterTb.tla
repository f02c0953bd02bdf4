------------------------------ MODULE FilterTb ------------------------------
(***************************************************************************)
(* filter_tb (faultclass.py) on the record of an experiment.  Where the    *)
(* plugin has QEMU single-step, each instruction is recorded as a block of *)
(* its own.  filter_tb folds such runs of instructions into the blocks the *)
(* golden run would have recorded, one list of addresses per block of the  *)
(* golden run, and takes what it drops off the blocks' execution counts.   *)
(*                                                                         *)
(* The experiment begins where the golden run began, and a fault may take  *)
(* control anywhere.  When QEMU single-steps is left open.                 *)
(***************************************************************************)
EXTENDS GoldenRun

CONSTANT MaxEntries   \* bound: blocks recorded of the experiment

VARIABLES
  golden,     \* the blocks of the golden run, once it is configured
  filtered,   \* what filter_tb returns: the record and num_exec by block
  (* history *)
  entered,    \* control comes to pc by a branch or an exception
  visits,     \* of each block recorded: control came to it that way
  stepped     \* of each block recorded: it is a single step

vars == <<phase, pc, tbexec, faultconfig, wildcard_faults, trace, left_early,
          golden, filtered, entered, visits, stepped>>

-----------------------------------------------------------------------------
(* The longest filters come first; filters of one length that overlap      *)
(* would end at different branches, so their order does not matter.        *)
shortest_first(filters) ==   \* wrong variant
  CHOOSE s \in SetToSeqs(filters) : \A i, j \in DOMAIN s : i < j => Len(s[i]) <= Len(s[j])
longest_first(filters) ==
  CHOOSE s \in SetToSeqs(filters) : \A i, j \in DOMAIN s : i < j => Len(s[i]) >= Len(s[j])
build_filters == longest_first({Filter(b) : b \in golden})

Invalid == -1

Matches(list, filt) ==
  {i \in 1 .. Len(list) - Len(filt) + 1 :
     \A j \in DOMAIN filt : list[i + j - 1] = filt[j]}

decrese_tb_info_element_once(tb, number, num_exec) ==   \* wrong variant
  IF tb \in DOMAIN num_exec THEN [num_exec EXCEPT ![tb] = @ - 1] ELSE num_exec
decrese_tb_info_element(tb, number, num_exec) ==
  IF tb \in DOMAIN num_exec THEN [num_exec EXCEPT ![tb] = @ - number] ELSE num_exec

(* All but the first entry of each match are invalidated, and each of      *)
(* their blocks has lost as many executions as there are matches.          *)
filter_function(r, filt) ==
  LET matches == Matches(r.tbexec, filt)
      num_exec[k \in 1 .. Len(filt)] ==
        IF k = 1 THEN r.num_exec
        ELSE decrese_tb_info_element(filt[k], Cardinality(matches), num_exec[k - 1])
  IN  [tbexec   |-> [k \in DOMAIN r.tbexec |->
                      IF \E i \in matches : i < k /\ k < i + Len(filt)
                      THEN Invalid ELSE r.tbexec[k]],
       num_exec |-> num_exec[Len(filt)]]

(* The entries of a list at some of its places.                            *)
At(list, places) == [j \in DOMAIN Sorted(places) |-> list[Sorted(places)[j]]]

filter_tb(list, num_exec) ==
  LET filters == build_filters
      r[k \in 0 .. Len(filters)] ==
        IF k = 0 THEN [tbexec |-> list, num_exec |-> num_exec]
        ELSE IF Len(filters[k]) > 1 THEN filter_function(r[k - 1], filters[k])
        ELSE r[k - 1]
      end == r[Len(filters)]
  IN  [tbexec   |-> At(end.tbexec, {k \in DOMAIN list : end.tbexec[k] # Invalid}),
       num_exec |-> [tb \in {b \in DOMAIN end.num_exec : end.num_exec[b] > 0} |->
                       end.num_exec[tb]]]

-----------------------------------------------------------------------------
FilterInit ==
  /\ Init
  /\ golden = {} /\ filtered = NULL
  /\ entered = TRUE /\ visits = <<>> /\ stepped = <<>>

GoldenStep ==
  /\ GoldenNext
  /\ UNCHANGED <<golden, filtered, entered, visits, stepped>>

(* Only the golden run's blocks matter to what follows.                    *)
StartExperiment ==
  /\ phase = "configured" /\ phase' = "experiment"
  /\ golden' = {tbexec[k] : k \in DOMAIN tbexec}
  /\ pc' = tbexec[1]
  /\ tbexec' = <<>> /\ trace' = <<>> /\ left_early' = FALSE
  /\ faultconfig' = <<>> /\ wildcard_faults' = <<>>
  /\ UNCHANGED <<filtered, entered, visits, stepped>>

Recorded(step) ==
  /\ phase = "experiment" /\ Len(tbexec) < MaxEntries
  /\ tbexec' = Append(tbexec, pc)
  /\ visits' = Append(visits, entered)
  /\ stepped' = Append(stepped, step)
  /\ UNCHANGED <<phase, faultconfig, wildcard_faults, trace, left_early, golden, filtered>>

RunWholeBlock ==
  /\ Recorded(FALSE)
  /\ pc' \in Targets /\ entered' = TRUE

SingleStep ==
  /\ Recorded(TRUE)
  /\ \/ pc \in Branches /\ pc' \in Targets /\ entered' = TRUE
     \/ pc \notin Branches /\ pc' = pc + InsnSize[pc] /\ entered' = FALSE
     \/ pc' = Handler /\ entered' = TRUE

(* readout_data: the plugin reports the executions of each block it ran.   *)
FilterRecord ==
  /\ phase = "experiment" /\ tbexec # <<>>
  /\ phase' = "filtered"
  /\ filtered' = filter_tb(tbexec, [tb \in {tbexec[k] : k \in DOMAIN tbexec} |->
                                      Executions(tb, Len(tbexec))])
  /\ UNCHANGED <<pc, tbexec, faultconfig, wildcard_faults, trace, left_early, golden,
                 entered, visits, stepped>>

(* The experiment may end at any time; what is filtered stays.             *)
Next == GoldenStep \/ StartExperiment \/ RunWholeBlock \/ SingleStep \/ FilterRecord

Spec == FilterInit /\ [][Next]_vars

-----------------------------------------------------------------------------
Blocks(list) == {list[k] : k \in DOMAIN list}
Count(list, tb) == Cardinality({k \in DOMAIN list : list[k] = tb})

TypeOK ==
  /\ phase \in {"golden", "configured", "experiment", "filtered"}
  /\ pc \in Insns /\ tbexec \in Seq(Insns) /\ trace \in Seq(Insns)
  /\ golden \subseteq Targets
  /\ visits \in Seq(BOOLEAN) /\ stepped \in Seq(BOOLEAN)
  /\ filtered # NULL => filtered.num_exec \in [Blocks(filtered.tbexec) -> Nat \ {0}]

(* Control arrives at the instruction behind the one the previous entry    *)
(* begins with, as if it had been stepped to: from a block of several      *)
(* instructions into its own second one, or from an exception.             *)
Ambiguous ==
  \E k \in 1 .. Len(tbexec) - 1 :
    /\ visits[k + 1] /\ tbexec[k] \notin Branches
    /\ tbexec[k + 1] = tbexec[k] + InsnSize[tbexec[k]]

(* Every block is run as the golden run would have run it, whole or step   *)
(* by step to its end, and those stepped through are blocks of the golden  *)
(* run.                                                                    *)
Regular ==
  /\ \A k \in DOMAIN tbexec : IF visits[k] THEN stepped[k] => tbexec[k] \in golden
                                            ELSE stepped[k]
  /\ \A k \in DOMAIN tbexec :
       stepped[k] /\ tbexec[k] \notin Branches => k < Len(tbexec) /\ ~visits[k + 1]

(* What filter_tb promises: the record left over is the blocks control     *)
(* came to, in order; of an irregular run none of them is lost, only steps *)
(* are left over besides.  The execution counts are those of the record    *)
(* left over.  Where the record is ambiguous the code may fold two visits  *)
(* into one.                                                               *)
Visited == At(tbexec, {k \in DOMAIN tbexec : visits[k]})
FilterSound ==
  phase = "filtered" =>
    /\ \A tb \in Blocks(filtered.tbexec) :
         filtered.num_exec[tb] = Count(filtered.tbexec, tb)
    /\ ~Ambiguous => \A tb \in Blocks(Visited) :
                        Count(Visited, tb) <= Count(filtered.tbexec, tb)
    /\ ~Ambiguous /\ Regular => filtered.tbexec = Visited
=============================================================================
